---------------------------- MODULE LockfProofs ----------------------------
(***************************************************************************)
(* Proofs about Lockf, for any threads, vnodes, casts and offsets: the     *)
(* list of a vnode stays in order, and implements the table of LockTable.  *)
(*                                                                         *)
(* First the walk of lf_setlock and lf_clearlock, iteration by iteration,  *)
(* over any list that is in order: where lf_findoverlap stops, what is     *)
(* left of a lock, where the new lock is linked and what it is joined      *)
(* with, and that the bytes the list covers afterwards are the ones that   *)
(* were asked for.  Then the actions, each as a step of the table.         *)
(***************************************************************************)
EXTENDS Lockf, SequenceTheorems, FiniteSetTheorems, WellFoundedInduction, TLAPS

\* A set of natural numbers that is not empty has a least element.
LEMMA Least ==
    ASSUME NEW S, S \subseteq Nat, S # {}
    PROVE  \E m \in S : \A n \in S : m <= n
<1> DEFINE R == OpToRel(<, Nat)
<1>1. \A x, y \in Nat : <<x, y>> \in R <=> x < y
  BY DEF OpToRel
<1>2. IsWellFoundedOn(R, Nat)
  BY NatLessThanWellFounded
<1> HIDE DEF R
<1>3. PICK m \in S : \A n \in S : ~ (<<n, m>> \in R)
  BY <1>2, WFMin
<1>4. \A n \in S : ~(n < m)
  BY <1>1, <1>3, Zenon
<1>5. \A n \in S : m <= n
  BY <1>4
<1> QED
  BY <1>5

\* A set of natural numbers with 0 and the successor of each member has them all.
LEMMA Induct ==
    ASSUME NEW S, 0 \in S, \A n \in Nat : n \in S => n + 1 \in S
    PROVE  \A n \in Nat : n \in S
<1> SUFFICES ASSUME NEW x \in Nat, x \notin S PROVE FALSE
  OBVIOUS
<1> DEFINE B == { n \in Nat : n \notin S }
<1>1. PICK m \in B : \A n \in B : m <= n
  BY Least
<1>2. m \in Nat /\ m \notin S /\ m # 0
  BY <1>1
<1>3. m - 1 \in Nat /\ (m - 1) + 1 = m /\ ~(m <= m - 1)
  BY <1>2
<1>4. m - 1 \in S
  BY <1>1, <1>3
<1> QED
  BY <1>2, <1>3, <1>4

\* The first n iterations of a walk.
Run(g, n, l, lock, mem) ==
    /\ g[0] = Walk(l, lock)
    /\ \A k \in 0..(n - 1) : g[k + 1] = WalkStep(g[k], mem)

\* Two runs agree as far as both go.
LEMMA RunsAgree ==
    ASSUME NEW l, NEW lock, NEW mem, NEW g, NEW h, NEW n \in Nat, NEW m \in Nat,
           Run(g, n, l, lock, mem), Run(h, m, l, lock, mem)
    PROVE  \A k \in Nat : k <= n /\ k <= m => g[k] = h[k]
<1> DEFINE S == { k \in Nat : k <= n /\ k <= m => g[k] = h[k] }
<1>1. 0 \in S
  BY DEF Run
<1>2. ASSUME NEW k \in Nat, k \in S PROVE k + 1 \in S
  <2>1. CASE k + 1 <= n /\ k + 1 <= m
    <3>1. k \in 0..(n - 1) /\ k \in 0..(m - 1)
      BY <2>1
    <3>2. g[k + 1] = WalkStep(g[k], mem) /\ h[k + 1] = WalkStep(h[k], mem)
      BY <3>1 DEF Run
    <3>3. g[k] = h[k]
      BY <1>2, <2>1
    <3>4. g[k + 1] = h[k + 1]
      BY <3>2, <3>3, Zenon
    <3> QED
      BY <3>4
  <2>2. CASE ~(k + 1 <= n /\ k + 1 <= m)
    BY <2>2
  <2> QED
    BY <2>1, <2>2
<1> HIDE DEF S
<1>3. \A k \in Nat : k \in S
  BY <1>1, <1>2, Induct
<1> QED
  BY <1>3 DEF S

\* There is a run of every length.
LEMMA RunsExist ==
    ASSUME NEW l, NEW lock, NEW mem
    PROVE  \A n \in Nat : \E g : Run(g, n, l, lock, mem)
<1> DEFINE S == { n \in Nat : \E g : Run(g, n, l, lock, mem) }
<1>1. 0 \in S
  <2> DEFINE g0 == [k \in {0} |-> Walk(l, lock)]
  <2>1. g0[0] = Walk(l, lock) /\ 0..(0 - 1) = {}
    OBVIOUS
  <2> HIDE DEF g0
  <2>2. Run(g0, 0, l, lock, mem)
    BY <2>1 DEF Run
  <2> QED
    BY <2>2
<1>2. ASSUME NEW n \in Nat, n \in S PROVE n + 1 \in S
  <2>1. PICK g : Run(g, n, l, lock, mem)
    BY <1>2
  <2> DEFINE x == WalkStep(g[n], mem)
             h == [k \in 0..(n + 1) |-> IF k = n + 1 THEN x ELSE g[k]]
  <2> HIDE DEF x
  <2>2. h[0] = g[0] /\ h[n + 1] = x /\ h[n] = g[n]
    OBVIOUS
  <2>3. \A k \in 0..(n - 1) : h[k + 1] = g[k + 1] /\ h[k] = g[k]
    OBVIOUS
  <2>4. \A k \in 0..((n + 1) - 1) : k = n \/ k \in 0..(n - 1)
    OBVIOUS
  <2> HIDE DEF h
  <2>5. h[n + 1] = WalkStep(h[n], mem)
    BY <2>2 DEF x
  <2>6. \A k \in 0..(n - 1) : h[k + 1] = WalkStep(h[k], mem)
    <3> TAKE k \in 0..(n - 1)
    <3>1. g[k + 1] = WalkStep(g[k], mem)
      BY <2>1 DEF Run
    <3> QED
      BY <2>3, <3>1
  <2>7. Run(h, n + 1, l, lock, mem)
    BY <2>1, <2>2, <2>4, <2>5, <2>6 DEF Run
  <2> QED
    BY <2>7
<1> HIDE DEF S
<1>3. \A n \in Nat : n \in S
  BY <1>1, <1>2, Induct
<1> QED
  BY <1>3 DEF S

\* What Walked computes: the last state of a run with an iteration for each
\* lock of the list and one more.
LEMMA WalkedRun ==
    ASSUME NEW l, NEW lock, NEW mem, Len(l) \in Nat
    PROVE  \E f : /\ f[0] = Walk(l, lock)
                  /\ \A k \in Nat : f[k + 1] = WalkStep(f[k], mem)
                  /\ Walked(l, lock, mem) = f[Len(l) + 1]
<1> DEFINE Is(f) == f = [n \in Nat |-> IF n = 0 THEN Walk(l, lock) ELSE WalkStep(f[n - 1], mem)]
           G(n) == CHOOSE g : Run(g, n, l, lock, mem)
           e == [n \in Nat |-> G(n)[n]]
<1>1. \A n \in Nat : Run(G(n), n, l, lock, mem)
  BY RunsExist
<1> HIDE DEF G
<1>2. e[0] = Walk(l, lock)
  <2>1. G(0)[0] = Walk(l, lock)
    BY <1>1 DEF Run
  <2> QED
    BY <2>1
<1>3. ASSUME NEW k \in Nat PROVE e[k + 1] = WalkStep(e[k], mem)
  <2>1. Run(G(k + 1), k + 1, l, lock, mem) /\ Run(G(k), k, l, lock, mem)
    BY <1>1
  <2>2. G(k + 1)[k] = G(k)[k]
    BY <2>1, RunsAgree
  <2>3. k \in 0..((k + 1) - 1)
    OBVIOUS
  <2>4. G(k + 1)[k + 1] = WalkStep(G(k + 1)[k], mem)
    BY <2>1, <2>3 DEF Run
  <2>5. e[k + 1] = G(k + 1)[k + 1] /\ e[k] = G(k)[k]
    OBVIOUS
  <2> QED
    BY <2>2, <2>4, <2>5, Zenon
<1>4. DOMAIN e = Nat /\ e = [n \in Nat |-> e[n]]
  OBVIOUS
<1> HIDE DEF e
<1>5. ASSUME NEW n \in Nat PROVE e[n] = IF n = 0 THEN Walk(l, lock) ELSE WalkStep(e[n - 1], mem)
  <2>1. CASE n = 0
    BY <1>2, <2>1
  <2>2. CASE n # 0
    <3>1. n - 1 \in Nat /\ (n - 1) + 1 = n
      BY <2>2
    <3>2. e[(n - 1) + 1] = WalkStep(e[n - 1], mem)
      BY <1>3, <3>1
    <3> QED
      BY <2>2, <3>1, <3>2
  <2> QED
    BY <2>1, <2>2
<1>6. Is(e)
  BY <1>4, <1>5
<1> DEFINE walk == CHOOSE f : Is(f)
<1>7. Is(walk)
  BY <1>6
<1>8. Walked(l, lock, mem) = walk[Len(l) + 1]
  BY DEF Walked
<1> HIDE DEF walk
<1>9. walk[0] = Walk(l, lock)
  BY <1>7
<1>10. ASSUME NEW k \in Nat PROVE walk[k + 1] = WalkStep(walk[k], mem)
  <2>1. k + 1 \in Nat /\ k + 1 # 0 /\ (k + 1) - 1 = k
    OBVIOUS
  <2>2. walk[k + 1] = IF k + 1 = 0 THEN Walk(l, lock) ELSE WalkStep(walk[(k + 1) - 1], mem)
    BY <1>7, <2>1
  <2> QED
    BY <2>1, <2>2
<1> QED
  BY <1>8, <1>9, <1>10
-----------------------------------------------------------------------------
Types == {"R", "W", "U"}
LockSet == [id : Owners, kind : Kinds, start : 0..OFF_MAX, end : -1..OFF_MAX,
            type : Types, wake1 : BOOLEAN, blk : Seq(Threads)]

\* The last byte of a range.
Hi(lf) == IF lf.end = -1 THEN OFF_MAX ELSE lf.end

\* A range that has bytes and does not name the last offset.
GoodRange(lf) == lf \in LockSet /\ (lf.end = -1 \/ lf.start <= lf.end) /\ lf.end # OFF_MAX

GoodList(l) == l \in Seq(LockSet) /\ \A i \in 1..Len(l) : GoodRange(l[i]) /\ l[i].type # "U"

\* The locks of an owner are in order, and adjacent on the list.
Increasing(l) ==
    \A i, j \in 1..Len(l) : i < j /\ l[i].id = l[j].id => Hi(l[i]) < l[j].start
Contiguous(l) ==
    \A i, j \in 1..Len(l) : i < j /\ l[i].id = l[j].id => \A k \in i..j : l[k].id = l[i].id
\* Locks of an owner with one type do not touch.
Apart(l) ==
    \A i, j \in 1..Len(l) :
      i < j /\ l[i].id = l[j].id /\ l[i].type = l[j].type => Hi(l[i]) + 1 < l[j].start

\* A lock of the list covers a byte.
Covers(l, o, b, ty) ==
    \E i \in 1..Len(l) : l[i].id = o /\ l[i].type = ty /\ l[i].start <= b /\ b <= Hi(l[i])

\* off_t arithmetic does not wrap up to OFF_MAX.
LEMMA WrapId ==
    ASSUME NEW n \in 0..OFF_MAX PROVE Wrap(n) = n
<1>1. OFF_MAX \in Nat
  BY LockfAssumption
<1> DEFINE M == OFF_MAX + 1
<1>2. M \in Nat /\ M > 0 /\ n + M \in Nat /\ n + M < 2 * M
  BY <1>1
<1>3. \A a, b \in Nat : b > 0 /\ a < b => a % b = a
  OBVIOUS
<1>4. (n + M) % (2 * M) = n + M
  BY <1>2, <1>3
<1> QED
  BY <1>1, <1>4 DEF Wrap

\* A range as numbers.
LEMMA HiBounds ==
    ASSUME NEW a, GoodRange(a)
    PROVE  /\ a.start \in 0..OFF_MAX /\ Hi(a) \in 0..OFF_MAX /\ a.start <= Hi(a)
           /\ a.end \in Int /\ (a.end # -1 => a.end = Hi(a) /\ a.end < OFF_MAX)
           /\ (a.end = -1 <=> Hi(a) = OFF_MAX) /\ OFF_MAX \in Nat
  BY LockfAssumption DEF GoodRange, LockSet, Hi

\* Two ranges overlap when each starts before the other ends.
LEMMA OverlapsHi ==
    ASSUME NEW a, NEW b, GoodRange(a), GoodRange(b)
    PROVE  Overlaps(a, b) <=> a.start <= Hi(b) /\ b.start <= Hi(a)
  BY HiBounds DEF Overlaps, Hi

OverlapCase(lf, lock) ==
    /\ Overlap(lf, lock) \in {"EQUALS_LOCK", "CONTAINS_LOCK", "CONTAINED_BY_LOCK", "STARTS_BEFORE_LOCK", "ENDS_AFTER_LOCK"}
    /\ Overlap(lf, lock) = "EQUALS_LOCK" => lf.start = lock.start /\ lf.end = lock.end /\ Hi(lf) = Hi(lock)
    /\ Overlap(lf, lock) = "CONTAINS_LOCK" =>
         lf.start <= lock.start /\ Hi(lf) >= Hi(lock) /\ lock.end # -1 /\ (lf.start < lock.start \/ Hi(lf) > Hi(lock))
    /\ Overlap(lf, lock) = "CONTAINED_BY_LOCK" =>
         lock.start <= lf.start /\ Hi(lf) <= Hi(lock) /\ ~(lf.start = lock.start /\ lf.end = lock.end)
    /\ Overlap(lf, lock) = "STARTS_BEFORE_LOCK" => lf.start < lock.start /\ Hi(lf) <= Hi(lock)
    /\ Overlap(lf, lock) = "ENDS_AFTER_LOCK" => lock.start <= lf.start /\ Hi(lf) > Hi(lock) /\ lock.end # -1

\* What the five answers of lf_findoverlap say of the two ranges.
LEMMA OverlapCases ==
    ASSUME NEW a, NEW b, GoodRange(a), GoodRange(b)
    PROVE  OverlapCase(a, b)
<1>1. /\ a.start \in Int /\ b.start \in Int /\ a.end \in Int /\ b.end \in Int /\ OFF_MAX \in Int
      /\ a.end # -1 => a.end < OFF_MAX
      /\ b.end # -1 => b.end < OFF_MAX
  BY HiBounds
<1> QED
  BY <1>1 DEF OverlapCase, Overlap, Hi

\* The elements of a spliced list.
SpliceIs(m, l, i, j, locks) ==
    /\ Len(m) = Len(l) - (j - i + 1) + Len(locks)
    /\ \A x \in 1..(i - 1) : m[x] = l[x]
    /\ \A x \in 1..Len(locks) : m[i + x - 1] = locks[x]
    /\ \A x \in (j + 1)..Len(l) : m[x - (j - i + 1) + Len(locks)] = l[x]

\* What a list is after an edit of it, place by place.
LEMMA SpliceProps ==
    ASSUME NEW S, NEW l \in Seq(S), NEW locks \in Seq(S),
           NEW i \in 1..(Len(l) + 1), NEW j \in (i - 1)..Len(l)
    PROVE  Splice(l, i, j, locks) \in Seq(S) /\ SpliceIs(Splice(l, i, j, locks), l, i, j, locks)
<1> DEFINE a == SubSeq(l, 1, i - 1)
           c == SubSeq(l, j + 1, Len(l))
<1>0. Len(l) \in Nat /\ Len(locks) \in Nat /\ \A x \in 1..Len(l) : l[x] \in S
  OBVIOUS
<1>1. /\ a \in Seq(S) /\ Len(a) = i - 1
      /\ \A x \in 1..(i - 1) : a[x] = l[x]
  <2>1. \A x \in 1..(i - 1) : l[x] \in S
    BY <1>0
  <2>2. a \in Seq(S) /\ Len(a) = (IF 1 <= i - 1 THEN i - 1 - 1 + 1 ELSE 0)
        /\ \A x \in 1..(i - 1 - 1 + 1) : a[x] = l[1 + x - 1]
    BY <2>1, SubSeqProperties
  <2> QED
    BY <2>2
<1>2. /\ c \in Seq(S) /\ Len(c) = Len(l) - j
      /\ \A x \in 1..(Len(l) - j) : c[x] = l[j + x]
  <2>1. \A x \in (j + 1)..Len(l) : l[x] \in S
    BY <1>0
  <2>2. c \in Seq(S) /\ Len(c) = (IF j + 1 <= Len(l) THEN Len(l) - (j + 1) + 1 ELSE 0)
        /\ \A x \in 1..(Len(l) - (j + 1) + 1) : c[x] = l[j + 1 + x - 1]
    BY <1>0, <2>1, SubSeqProperties
  <2> QED
    BY <1>0, <2>2
<1> HIDE DEF a, c
<1> DEFINE ab == a \o locks
           m == ab \o c
<1>3. /\ ab \in Seq(S) /\ Len(ab) = i - 1 + Len(locks)
      /\ \A x \in 1..(i - 1 + Len(locks)) : ab[x] = IF x <= i - 1 THEN a[x] ELSE locks[x - (i - 1)]
  <2>1. /\ a \o locks \in Seq(S) /\ Len(a \o locks) = Len(a) + Len(locks)
        /\ \A x \in 1..(Len(a) + Len(locks)) :
             (a \o locks)[x] = IF x <= Len(a) THEN a[x] ELSE locks[x - Len(a)]
    BY <1>1, ConcatProperties
  <2> QED
    BY <1>0, <1>1, <2>1, Zenon
<1> HIDE DEF ab
<1>4. /\ m \in Seq(S) /\ Len(m) = i - 1 + Len(locks) + (Len(l) - j)
      /\ \A x \in 1..(i - 1 + Len(locks) + (Len(l) - j)) :
           m[x] = IF x <= i - 1 + Len(locks) THEN ab[x] ELSE c[x - (i - 1 + Len(locks))]
  <2>1. /\ ab \o c \in Seq(S) /\ Len(ab \o c) = Len(ab) + Len(c)
        /\ \A x \in 1..(Len(ab) + Len(c)) :
             (ab \o c)[x] = IF x <= Len(ab) THEN ab[x] ELSE c[x - Len(ab)]
    BY <1>2, <1>3, ConcatProperties
  <2> QED
    BY <1>0, <1>2, <1>3, <2>1, Zenon
<1>5. Splice(l, i, j, locks) = m
  BY DEF Splice, a, c, ab
<1> HIDE DEF m
<1>6. \A x \in 1..(i - 1) : m[x] = l[x]
  <2> TAKE x \in 1..(i - 1)
  <2>1. /\ x \in 1..(i - 1 + Len(locks) + (Len(l) - j)) /\ x <= i - 1 + Len(locks)
        /\ x \in 1..(i - 1 + Len(locks)) /\ x <= i - 1
    BY <1>0
  <2>2. m[x] = ab[x]
    BY <1>4, <2>1
  <2>3. ab[x] = a[x]
    BY <1>3, <2>1
  <2> QED
    BY <1>1, <2>2, <2>3
<1>7. \A x \in 1..Len(locks) : m[i + x - 1] = locks[x]
  <2> TAKE x \in 1..Len(locks)
  <2> DEFINE y == i + x - 1
  <2>1. /\ y \in 1..(i - 1 + Len(locks) + (Len(l) - j)) /\ y <= i - 1 + Len(locks)
        /\ y \in 1..(i - 1 + Len(locks)) /\ ~(y <= i - 1) /\ y - (i - 1) = x
    BY <1>0
  <2> HIDE DEF y
  <2>2. m[y] = ab[y]
    BY <1>4, <2>1
  <2>3. ab[y] = locks[x]
    BY <1>3, <2>1
  <2> QED
    BY <2>2, <2>3 DEF y
<1>8. \A x \in (j + 1)..Len(l) : m[x - (j - i + 1) + Len(locks)] = l[x]
  <2> TAKE x \in (j + 1)..Len(l)
  <2> DEFINE y == x - (j - i + 1) + Len(locks)
  <2>1. y \in 1..(i - 1 + Len(locks) + (Len(l) - j)) /\ ~(y <= i - 1 + Len(locks))
        /\ y - (i - 1 + Len(locks)) = x - j /\ x - j \in 1..(Len(l) - j) /\ j + (x - j) = x
    BY <1>0
  <2>2. m[y] = c[x - j]
    BY <1>4, <2>1
  <2>3. c[x - j] = l[x]
    BY <1>2, <2>1
  <2> QED
    BY <2>2, <2>3
<1>9. Len(m) = Len(l) - (j - i + 1) + Len(locks)
  BY <1>0, <1>4
<1> QED
  BY <1>4, <1>5, <1>6, <1>7, <1>8, <1>9 DEF SpliceIs
-----------------------------------------------------------------------------
\* Min is the least member.
LEMMA MinProps ==
    ASSUME NEW S, S \subseteq Nat, S # {}
    PROVE  Min(S) \in S /\ \A n \in S : Min(S) <= n
<1>1. \E m \in S : \A n \in S : m <= n
  BY Least
<1> QED
  BY <1>1 DEF Min

\* A place for the locks of an owner: next to the ones it has.
Spot(l, i, o) ==
    /\ (\E j \in 1..(i - 1) : l[j].id = o) => l[i - 1].id = o
    /\ (\E j \in i..Len(l) : l[j].id = o) => l[i].id = o
    /\ i - 1 \in 1..Len(l) /\ i \in 1..Len(l) /\ l[i - 1].id = l[i].id => l[i].id = o

OvCases == {"NONE", "EQUALS_LOCK", "CONTAINS_LOCK", "CONTAINED_BY_LOCK", "STARTS_BEFORE_LOCK", "ENDS_AFTER_LOCK"}

\* What lf_findoverlap finds from a place on.
Finds(l, from, lock, i, ovcase) ==
    /\ i \in from..(Len(l) + 1)
    /\ \A j \in from..(i - 1) : l[j].id = lock.id => Hi(l[j]) < lock.start
    /\ (\E j \in from..(i - 1) : l[j].id = lock.id) => l[i - 1].id = lock.id
    /\ (\E j \in i..Len(l) : l[j].id = lock.id) => l[i].id = lock.id
    /\ i <= Len(l) /\ l[i].id # lock.id => l[i - 1].id = lock.id
    /\ ovcase \in OvCases
    /\ ovcase # "NONE" =>
         /\ i <= Len(l) /\ l[i].id = lock.id /\ Overlaps(l[i], lock)
         /\ ovcase = Overlap(l[i], lock)
    /\ ovcase = "NONE" =>
         \A j \in i..Len(l) : l[j].id = lock.id => Hi(lock) < l[j].start

\* lf_findoverlap finds the first lock of ours that overlaps, or the place where it would be.
LEMMA FindOverlap ==
    ASSUME NEW l, GoodList(l), Increasing(l), Contiguous(l), NEW from \in 1..(Len(l) + 1),
           NEW lock, GoodRange(lock), NEW found, found = lf_findoverlap(l, from, lock)
    PROVE  Finds(l, from, lock, found.at, found.ovcase)
<1> DEFINE Stops == { j \in from..(Len(l) + 1) : StopsAt(l, from, lock, j) }
           i == Min(Stops)
           hit == i <= Len(l) /\ l[i].id = lock.id /\ Overlaps(l[i], lock)
<1>1. Len(l) \in Nat
  BY DEF GoodList
<1>2. Len(l) + 1 \in Stops /\ Stops \subseteq Nat
  BY <1>1 DEF StopsAt
<1>3. i \in Stops /\ \A j \in Stops : i <= j
  <2> HIDE DEF Stops
  <2> QED
    BY <1>2, MinProps
<1>4. found.at = i /\ found.ovcase = (IF hit THEN Overlap(l[i], lock) ELSE "NONE")
  BY DEF lf_findoverlap
<1> HIDE DEF i
<1>5. /\ i \in from..(Len(l) + 1) /\ StopsAt(l, from, lock, i)
      /\ \A j \in from..(i - 1) : ~StopsAt(l, from, lock, j)
  BY <1>1, <1>3
<1> HIDE DEF Stops
<1>6. \A j \in 1..Len(l) : GoodRange(l[j])
  BY DEF GoodList
<1>7. ASSUME NEW j \in from..(i - 1), l[j].id = lock.id
      PROVE  Hi(l[j]) < lock.start
  <2>1. j \in 1..Len(l)
    BY <1>1, <1>5
  <2>2. ~Overlaps(l[j], lock) /\ ~(lock.end # -1 /\ l[j].start > lock.end)
    BY <1>5, <1>7 DEF StopsAt
  <2>3. ~(l[j].start <= Hi(lock) /\ lock.start <= Hi(l[j]))
    BY <1>6, <2>1, <2>2, OverlapsHi
  <2>4. l[j].start <= Hi(lock)
    BY <1>6, <2>1, <2>2, HiBounds DEF Hi
  <2> QED
    BY <1>6, <2>1, <2>3, <2>4, HiBounds
<1>8. ASSUME NEW j \in from..(i - 1), l[j].id = lock.id PROVE l[i - 1].id = lock.id
  <2> SUFFICES ASSUME l[i - 1].id # lock.id PROVE FALSE
    OBVIOUS
  <2>1. i - 1 \in from..(i - 1) /\ j \in from..((i - 1) - 1)
    <3>1. j # i - 1
      BY <1>8
    <3> QED
      BY <1>1, <1>5, <3>1
  <2>2. StopsAt(l, from, lock, i - 1)
    BY <1>8, <2>1 DEF StopsAt
  <2> QED
    BY <1>5, <2>1, <2>2
<1>9. ASSUME NEW j \in i..Len(l), l[j].id = lock.id PROVE l[i].id = lock.id
  <2> SUFFICES ASSUME l[i].id # lock.id PROVE FALSE
    OBVIOUS
  <2>1. i # Len(l) + 1
    BY <1>1, <1>5
  <2>2. PICK h \in from..(i - 1) : l[h].id = lock.id
    BY <1>5, <2>1 DEF StopsAt
  <2>3. h \in 1..Len(l) /\ j \in 1..Len(l) /\ h < j /\ i \in h..j
    BY <1>1, <1>5
  <2> QED
    BY <1>9, <2>2, <2>3 DEF Contiguous
<1>12. i <= Len(l) /\ l[i].id # lock.id => l[i - 1].id = lock.id
  <2> HAVE i <= Len(l) /\ l[i].id # lock.id
  <2>1. i # Len(l) + 1
    BY <1>1, <1>5
  <2>2. PICK h \in from..(i - 1) : l[h].id = lock.id
    BY <1>5, <2>1 DEF StopsAt
  <2> QED
    BY <1>8, <2>2
<1>10. CASE hit
  <2>1. OverlapCase(l[i], lock)
    BY <1>1, <1>5, <1>6, <1>10, OverlapCases
  <2>2. found.ovcase \in OvCases /\ found.ovcase # "NONE"
    BY <1>4, <1>10, <2>1 DEF OverlapCase, OvCases
  <2> QED
    BY <1>4, <1>5, <1>7, <1>8, <1>9, <1>10, <1>12, <2>2 DEF Finds
<1>11. CASE ~hit
  <2>1. ASSUME NEW j \in i..Len(l), l[j].id = lock.id
        PROVE  Hi(lock) < l[j].start
    <3>1. l[i].id = lock.id /\ i \in 1..Len(l) /\ j \in 1..Len(l)
      BY <1>1, <1>5, <1>9, <2>1
    <3>2. ~Overlaps(l[i], lock) /\ lock.end # -1 /\ l[i].start > lock.end
      BY <1>1, <1>5, <1>11, <3>1 DEF StopsAt
    <3>3. Hi(lock) < l[i].start
      BY <3>2 DEF Hi
    <3>4. j = i \/ Hi(l[i]) < l[j].start
      BY <2>1, <3>1 DEF Increasing
    <3> QED
      BY <1>6, <3>1, <3>3, <3>4, HiBounds
  <2> QED
    BY <1>4, <1>5, <1>7, <1>8, <1>9, <1>11, <1>12, <2>1 DEF Finds, OvCases
<1> QED
  BY <1>10, <1>11
-----------------------------------------------------------------------------
GoodTable(l) == GoodList(l) /\ Increasing(l) /\ Contiguous(l) /\ Apart(l)

\* What a lock has left: pieces of it, in order, that do not touch, and whose
\* queues are empty.
Piece(p, lf) ==
    /\ GoodRange(p) /\ p.id = lf.id /\ p.type = lf.type /\ p.kind = lf.kind /\ p.wake1 = lf.wake1
    /\ p.blk = <<>> /\ lf.start <= p.start /\ Hi(p) <= Hi(lf)
Pieces(ps, lf) ==
    /\ ps \in Seq(LockSet)
    /\ \A a \in 1..Len(ps) : Piece(ps[a], lf)
    /\ \A a, b \in 1..Len(ps) : a < b => Hi(ps[a]) + 1 < ps[b].start

\* Where an element of the edited list is from.
From(x, i, n) == IF x < i THEN x ELSE IF x < i + n THEN i ELSE x - n + 1

\* Where a lock of the edited list comes from, when one lock is cut into pieces.
LEMMA TrimFrom ==
    ASSUME NEW l, GoodList(l), NEW i \in 1..Len(l), NEW ps, Pieces(ps, l[i]),
           NEW m, m = Splice(l, i, i, ps)
    PROVE  /\ m \in Seq(LockSet) /\ Len(m) = Len(l) - 1 + Len(ps) /\ Len(m) \in Nat /\ Len(ps) \in Nat
           /\ \A x \in 1..Len(m) :
                /\ From(x, i, Len(ps)) \in 1..Len(l)
                /\ x < i => m[x] = l[x]
                /\ x >= i /\ x < i + Len(ps) => m[x] = ps[x - i + 1] /\ x - i + 1 \in 1..Len(ps)
                /\ x >= i + Len(ps) => m[x] = l[x - Len(ps) + 1]
<1>1. Len(l) \in Nat /\ Len(ps) \in Nat /\ l \in Seq(LockSet) /\ ps \in Seq(LockSet)
  BY DEF GoodList, Pieces
<1>2. i \in 1..(Len(l) + 1) /\ i \in (i - 1)..Len(l)
  BY <1>1
<1>3. m \in Seq(LockSet) /\ SpliceIs(m, l, i, i, ps)
  BY <1>1, <1>2, SpliceProps
<1>4. Len(m) = Len(l) - 1 + Len(ps)
  BY <1>1, <1>3 DEF SpliceIs
<1>5. ASSUME NEW x \in 1..Len(m)
      PROVE  /\ From(x, i, Len(ps)) \in 1..Len(l)
             /\ x < i => m[x] = l[x]
             /\ x >= i /\ x < i + Len(ps) => m[x] = ps[x - i + 1] /\ x - i + 1 \in 1..Len(ps)
             /\ x >= i + Len(ps) => m[x] = l[x - Len(ps) + 1]
  <2>1. x < i => m[x] = l[x]
    <3> HAVE x < i
    <3>1. x \in 1..(i - 1)
      OBVIOUS
    <3> QED
      BY <1>3, <3>1 DEF SpliceIs
  <2>2. x >= i /\ x < i + Len(ps) => m[x] = ps[x - i + 1] /\ x - i + 1 \in 1..Len(ps)
    <3> HAVE x >= i /\ x < i + Len(ps)
    <3>1. x - i + 1 \in 1..Len(ps) /\ i + (x - i + 1) - 1 = x
      BY <1>1
    <3>2. m[i + (x - i + 1) - 1] = ps[x - i + 1]
      BY <1>3, <3>1 DEF SpliceIs
    <3> QED
      BY <3>1, <3>2
  <2>3. x >= i + Len(ps) => m[x] = l[x - Len(ps) + 1]
    <3> HAVE x >= i + Len(ps)
    <3> DEFINE y == x - Len(ps) + 1
    <3>1. y \in (i + 1)..Len(l) /\ y - (i - i + 1) + Len(ps) = x
      BY <1>1, <1>4
    <3>2. m[y - (i - i + 1) + Len(ps)] = l[y]
      BY <1>3, <3>1 DEF SpliceIs
    <3> QED
      BY <3>1, <3>2
  <2>4. From(x, i, Len(ps)) \in 1..Len(l)
    BY <1>1, <1>4 DEF From
  <2> QED
    BY <2>1, <2>2, <2>3, <2>4
<1> QED
  BY <1>1, <1>3, <1>4, <1>5

\* Pieces in the place of a lock keep the list in order.
LEMMA TrimOrder ==
    ASSUME NEW l, GoodTable(l), NEW i \in 1..Len(l), NEW ps, Pieces(ps, l[i]),
           NEW m, m = Splice(l, i, i, ps)
    PROVE  GoodTable(m)
<1> DEFINE n == Len(ps)
           s(x) == From(x, i, n)
<1>1. /\ m \in Seq(LockSet) /\ Len(m) = Len(l) - 1 + n /\ Len(m) \in Nat /\ n \in Nat /\ Len(l) \in Nat
      /\ \A x \in 1..Len(m) :
           /\ s(x) \in 1..Len(l)
           /\ x < i => m[x] = l[x]
           /\ x >= i /\ x < i + n => m[x] = ps[x - i + 1] /\ x - i + 1 \in 1..n
           /\ x >= i + n => m[x] = l[x - n + 1]
  BY TrimFrom DEF GoodTable, GoodList
<1> HIDE DEF n
<1>2. ASSUME NEW x \in 1..Len(m)
      PROVE  /\ GoodRange(m[x]) /\ m[x].type # "U" /\ s(x) \in 1..Len(l)
             /\ m[x].id = l[s(x)].id /\ m[x].type = l[s(x)].type
             /\ l[s(x)].start <= m[x].start /\ Hi(m[x]) <= Hi(l[s(x)])
  <2>1. s(x) \in 1..Len(l)
    BY <1>1
  <2>2. GoodRange(l[s(x)]) /\ l[s(x)].type # "U"
    BY <2>1 DEF GoodTable, GoodList
  <2>3. CASE x < i
    BY <1>1, <2>1, <2>2, <2>3, HiBounds DEF From
  <2>4. CASE x >= i /\ x < i + n
    <3>1. s(x) = i /\ m[x] = ps[x - i + 1] /\ x - i + 1 \in 1..n
      BY <1>1, <2>4 DEF From
    <3>2. Piece(m[x], l[i])
      BY <3>1 DEF Pieces, n
    <3> QED
      BY <2>1, <2>2, <3>1, <3>2 DEF Piece
  <2>5. CASE x >= i + n
    <3>0. ~(x < i) /\ ~(x < i + n) /\ x >= i + n
      BY <1>1, <2>5
    <3>1. s(x) = x - n + 1 /\ m[x] = l[x - n + 1]
      BY <1>1, <3>0 DEF From
    <3> QED
      BY <2>1, <2>2, <3>1, HiBounds
  <2> QED
    BY <1>1, <2>3, <2>4, <2>5
<1>3. ASSUME NEW x \in 1..Len(m), NEW y \in 1..Len(m), x <= y
      PROVE  s(x) <= s(y)
  BY <1>1, <1>3 DEF From
<1>4. ASSUME NEW x \in 1..Len(m), NEW y \in 1..Len(m), x < y, s(x) = s(y)
      PROVE  Hi(m[x]) + 1 < m[y].start
  <2>1. x >= i /\ x < i + n /\ y >= i /\ y < i + n
    BY <1>1, <1>4 DEF From
  <2>2. m[x] = ps[x - i + 1] /\ m[y] = ps[y - i + 1] /\ x - i + 1 < y - i + 1
        /\ x - i + 1 \in 1..n /\ y - i + 1 \in 1..n
    BY <1>1, <1>4, <2>1
  <2> QED
    BY <2>2 DEF Pieces, n
<1> HIDE DEF s
<1>5. \A x \in 1..Len(m) : /\ Hi(m[x]) \in Int /\ m[x].start \in Int
                           /\ Hi(l[s(x)]) \in Int /\ l[s(x)].start \in Int
  <2> TAKE x \in 1..Len(m)
  <2>1. GoodRange(m[x]) /\ GoodRange(l[s(x)])
    BY <1>2 DEF GoodTable, GoodList
  <2> QED
    BY <2>1, HiBounds
<1>6. ASSUME NEW x \in 1..Len(m), NEW y \in 1..Len(m), x < y, m[x].id = m[y].id
      PROVE  /\ Hi(m[x]) < m[y].start
             /\ m[x].type = m[y].type => Hi(m[x]) + 1 < m[y].start
             /\ \A k \in x..y : m[k].id = m[x].id
  <2>1. s(x) \in 1..Len(l) /\ s(y) \in 1..Len(l) /\ s(x) <= s(y)
    BY <1>2, <1>3, <1>6
  <2>2. CASE s(x) = s(y)
    <3>1. Hi(m[x]) + 1 < m[y].start
      BY <1>4, <1>6, <2>2
    <3>2. ASSUME NEW k \in x..y PROVE m[k].id = m[x].id
      <4>1. k \in 1..Len(m)
        BY <1>1
      <4>2. s(x) <= s(k) /\ s(k) <= s(y) /\ s(k) \in Int
        BY <1>2, <1>3, <4>1
      <4>3. s(k) = s(x)
        BY <2>1, <2>2, <4>2
      <4> QED
        BY <1>2, <4>1, <4>3
    <3> QED
      BY <1>5, <3>1, <3>2
  <2>3. CASE s(x) < s(y)
    <3>1. l[s(x)].id = l[s(y)].id
      BY <1>2, <1>6
    <3>2. /\ Hi(l[s(x)]) < l[s(y)].start
          /\ l[s(x)].type = l[s(y)].type => Hi(l[s(x)]) + 1 < l[s(y)].start
          /\ \A k \in s(x)..s(y) : l[k].id = l[s(x)].id
      BY <2>1, <2>3, <3>1 DEF GoodTable, Increasing, Apart, Contiguous
    <3>3. /\ Hi(m[x]) <= Hi(l[s(x)]) /\ l[s(y)].start <= m[y].start
          /\ m[x].type = l[s(x)].type /\ m[y].type = l[s(y)].type
      BY <1>2
    <3>4. Hi(m[x]) < m[y].start
      BY <1>5, <3>2, <3>3, SMTT(30)
    <3>5. m[x].type = m[y].type => Hi(m[x]) + 1 < m[y].start
      <4> HAVE m[x].type = m[y].type
      <4>1. Hi(l[s(x)]) + 1 < l[s(y)].start
        BY <3>2, <3>3, Zenon
      <4> QED
        BY <1>5, <3>3, <4>1, SMTT(90)
    <3>6. ASSUME NEW k \in x..y PROVE m[k].id = m[x].id
      <4>1. k \in 1..Len(m)
        BY <1>1
      <4>2. s(k) \in s(x)..s(y)
        BY <1>2, <1>3, <2>1, <4>1
      <4> QED
        BY <1>2, <3>2, <4>1, <4>2
    <3> QED
      BY <3>4, <3>5, <3>6
  <2> QED
    BY <2>1, <2>2, <2>3
<1>7. Increasing(m) /\ Contiguous(m) /\ Apart(m)
  BY <1>6 DEF Increasing, Contiguous, Apart
<1>8. GoodList(m)
  BY <1>1, <1>2 DEF GoodList
<1> QED
  BY <1>7, <1>8 DEF GoodTable

\* The bytes that are covered.
LEMMA TrimCovers ==
    ASSUME NEW l, GoodList(l), NEW i \in 1..Len(l), NEW ps, Pieces(ps, l[i]),
           NEW m, m = Splice(l, i, i, ps), NEW o, NEW b, NEW ty
    PROVE  Covers(m, o, b, ty) <=>
             \/ \E j \in 1..Len(l) : j # i /\ l[j].id = o /\ l[j].type = ty /\ l[j].start <= b /\ b <= Hi(l[j])
             \/ \E a \in 1..Len(ps) : l[i].id = o /\ l[i].type = ty /\ ps[a].start <= b /\ b <= Hi(ps[a])
<1> DEFINE n == Len(ps)
<1>1. /\ m \in Seq(LockSet) /\ Len(m) = Len(l) - 1 + n /\ Len(m) \in Nat /\ n \in Nat /\ Len(l) \in Nat
      /\ \A x \in 1..Len(m) :
           /\ x < i => m[x] = l[x]
           /\ x >= i /\ x < i + n => m[x] = ps[x - i + 1] /\ x - i + 1 \in 1..n
           /\ x >= i + n => m[x] = l[x - n + 1]
  BY TrimFrom DEF GoodList
<1>2. \A a \in 1..n : ps[a].id = l[i].id /\ ps[a].type = l[i].type
  BY DEF Pieces, Piece
<1> HIDE DEF n
<1> DEFINE C(lf) == lf.id = o /\ lf.type = ty /\ lf.start <= b /\ b <= Hi(lf)
<1>3. Covers(m, o, b, ty) <=> \E x \in 1..Len(m) : C(m[x])
  BY DEF Covers
<1>4. ASSUME NEW x \in 1..Len(m), C(m[x])
      PROVE  (\E j \in 1..Len(l) : j # i /\ C(l[j])) \/ (\E a \in 1..n : C(ps[a]))
  <2> HIDE DEF C
  <2>1. CASE x < i
    BY <1>1, <1>4, <2>1
  <2>2. CASE x >= i /\ x < i + n
    BY <1>1, <1>4, <2>2
  <2>3. CASE x >= i + n
    <3>1. x - n + 1 \in 1..Len(l) /\ x - n + 1 # i
      BY <1>1, <2>3
    <3>2. m[x] = l[x - n + 1]
      BY <1>1, <2>3
    <3> QED
      BY <1>4, <3>1, <3>2
  <2> QED
    BY <1>1, <2>1, <2>2, <2>3
<1>5. ASSUME NEW j \in 1..Len(l), j # i, C(l[j])
      PROVE  \E x \in 1..Len(m) : C(m[x])
  <2> HIDE DEF C
  <2>1. CASE j < i
    <3>1. j \in 1..Len(m) /\ m[j] = l[j]
      BY <1>1, <2>1
    <3> QED
      BY <1>5, <3>1
  <2>2. CASE j > i
    <3> DEFINE x == j - 1 + n
    <3>1. x \in 1..Len(m) /\ x >= i + n /\ x - n + 1 = j
      BY <1>1, <2>2
    <3>2. m[x] = l[j]
      BY <1>1, <3>1
    <3> QED
      BY <1>5, <3>1, <3>2
  <2> QED
    BY <1>5, <2>1, <2>2
<1>6. ASSUME NEW a \in 1..n, C(ps[a])
      PROVE  \E x \in 1..Len(m) : C(m[x])
  <2> HIDE DEF C
  <2> DEFINE x == i + a - 1
  <2>1. x \in 1..Len(m) /\ x >= i /\ x < i + n /\ x - i + 1 = a
    BY <1>1
  <2>2. m[x] = ps[a]
    BY <1>1, <2>1
  <2> QED
    BY <1>6, <2>1, <2>2
<1>7. (\E x \in 1..Len(m) : C(m[x])) <=>
        (\E j \in 1..Len(l) : j # i /\ C(l[j])) \/ (\E a \in 1..n : C(ps[a]))
  <2> HIDE DEF C
  <2> QED
    BY <1>4, <1>5, <1>6
<1> QED
  BY <1>2, <1>3, <1>7 DEF n
-----------------------------------------------------------------------------
In(b, lf) == lf.start <= b /\ b <= Hi(lf)

\* The pieces are what the range leaves of the lock.
Remains(ps, lf, lock) ==
    \A b \in 0..OFF_MAX : (\E a \in 1..Len(ps) : In(b, ps[a])) <=> In(b, lf) /\ ~In(b, lock)

\* Beyond the range of the lock, and for others, the same bytes are covered.
Outside(l, m, lock) ==
    \A o, ty : \A b \in 0..OFF_MAX :
      ~(o = lock.id /\ In(b, lock)) => (Covers(m, o, b, ty) <=> Covers(l, o, b, ty))

\* A lock whose queue is emptied is otherwise the same.
LEMMA EmptiedProps ==
    ASSUME NEW lf, GoodRange(lf)
    PROVE  /\ Emptied(lf) \in LockSet /\ GoodRange(Emptied(lf)) /\ Hi(Emptied(lf)) = Hi(lf)
           /\ Emptied(lf).blk = <<>> /\ Emptied(lf).id = lf.id /\ Emptied(lf).kind = lf.kind
           /\ Emptied(lf).start = lf.start /\ Emptied(lf).end = lf.end
           /\ Emptied(lf).type = lf.type /\ Emptied(lf).wake1 = lf.wake1
<1>1. lf \in LockSet
  BY DEF GoodRange
<1>2. <<>> \in Seq(Threads)
  OBVIOUS
<1>3. /\ Emptied(lf) \in LockSet
      /\ Emptied(lf).blk = <<>> /\ Emptied(lf).id = lf.id /\ Emptied(lf).kind = lf.kind
      /\ Emptied(lf).start = lf.start /\ Emptied(lf).end = lf.end
      /\ Emptied(lf).type = lf.type /\ Emptied(lf).wake1 = lf.wake1
  BY <1>1, <1>2 DEF Emptied, LockSet
<1> QED
  BY <1>3 DEF GoodRange, Hi

\* What is left of a lock before a range is a piece of it.
LEMMA BeforeProps ==
    ASSUME NEW lf, GoodRange(lf), NEW lock, GoodRange(lock),
           lf.start < lock.start, lock.start <= Hi(lf)
    PROVE  /\ Piece(Before(lf, lock), lf)
           /\ Before(lf, lock).start = lf.start /\ Hi(Before(lf, lock)) = lock.start - 1
<1> DEFINE e == Emptied(lf)
           p == [e EXCEPT !.end = lock.start - 1]
<1>1. e \in LockSet /\ e.blk = <<>> /\ e.id = lf.id /\ e.kind = lf.kind /\ e.start = lf.start
      /\ e.type = lf.type /\ e.wake1 = lf.wake1
  BY EmptiedProps
<1> HIDE DEF e
<1>2. /\ lf.start \in 0..OFF_MAX /\ lock.start \in 0..OFF_MAX /\ OFF_MAX \in Nat
      /\ Hi(lf) \in 0..OFF_MAX
  BY HiBounds
<1>3. lock.start - 1 \in -1..OFF_MAX /\ lock.start - 1 # -1 /\ lock.start - 1 # OFF_MAX
      /\ lf.start <= lock.start - 1 /\ lock.start - 1 <= Hi(lf)
  BY <1>2
<1>4. /\ p \in LockSet /\ p.blk = <<>> /\ p.id = lf.id /\ p.kind = lf.kind /\ p.start = lf.start
      /\ p.type = lf.type /\ p.wake1 = lf.wake1 /\ p.end = lock.start - 1
  BY <1>1, <1>3 DEF LockSet
<1>5. p = Before(lf, lock)
  BY DEF Before, e
<1> HIDE DEF p
<1>6. Hi(p) = lock.start - 1 /\ GoodRange(p)
  BY <1>3, <1>4 DEF Hi, GoodRange
<1>7. Piece(p, lf)
  BY <1>2, <1>3, <1>4, <1>6 DEF Piece
<1> QED
  BY <1>4, <1>5, <1>6, <1>7

\* What is left of a lock behind a range is a piece of it.
LEMMA BehindProps ==
    ASSUME NEW lf, GoodRange(lf), NEW lock, GoodRange(lock),
           Hi(lock) < Hi(lf), lf.start <= Hi(lock)
    PROVE  /\ Piece(Behind(lf, lock), lf)
           /\ Behind(lf, lock).start = Hi(lock) + 1 /\ Hi(Behind(lf, lock)) = Hi(lf)
<1> DEFINE e == Emptied(lf)
           p == [e EXCEPT !.start = Hi(lock) + 1]
<1>1. e \in LockSet /\ e.blk = <<>> /\ e.id = lf.id /\ e.kind = lf.kind /\ e.end = lf.end
      /\ e.type = lf.type /\ e.wake1 = lf.wake1
  BY EmptiedProps
<1> HIDE DEF e
<1>2. /\ lf.start \in 0..OFF_MAX /\ lock.start \in 0..OFF_MAX /\ OFF_MAX \in Nat
      /\ Hi(lf) \in 0..OFF_MAX /\ Hi(lock) \in 0..OFF_MAX
      /\ lock.end # -1 => Hi(lock) = lock.end
      /\ lock.end = -1 => Hi(lock) = OFF_MAX
      /\ lf.end # -1 => Hi(lf) = lf.end /\ lf.end < OFF_MAX
      /\ lf.end = -1 => Hi(lf) = OFF_MAX
  BY HiBounds
<1>3. Hi(lock) + 1 \in 0..OFF_MAX /\ lock.end = Hi(lock) /\ lf.start <= Hi(lock) + 1
  BY <1>2
<1>4. /\ p \in LockSet /\ p.blk = <<>> /\ p.id = lf.id /\ p.kind = lf.kind /\ p.end = lf.end
      /\ p.type = lf.type /\ p.wake1 = lf.wake1 /\ p.start = Hi(lock) + 1
  BY <1>1, <1>3 DEF LockSet
<1>5. p = Behind(lf, lock)
  <2>1. Wrap(lock.end + 1) = Hi(lock) + 1
    BY <1>3, WrapId
  <2> QED
    BY <2>1 DEF Behind, e
<1> HIDE DEF p
<1>6. Hi(p) = Hi(lf)
  BY <1>4 DEF Hi
<1>7. GoodRange(p)
  BY <1>2, <1>4 DEF GoodRange
<1>8. Piece(p, lf)
  BY <1>2, <1>3, <1>4, <1>6, <1>7 DEF Piece
<1> QED
  BY <1>4, <1>5, <1>6, <1>8

\* Nothing is left of a lock inside the range, ...
LEMMA NoPieces ==
    ASSUME NEW lf, GoodRange(lf), NEW lock, GoodRange(lock),
           lock.start <= lf.start, Hi(lf) <= Hi(lock)
    PROVE  Pieces(<<>>, lf) /\ Remains(<<>>, lf, lock)
<1>1. Pieces(<<>>, lf)
  BY DEF Pieces
<1>2. lf.start \in Int /\ lock.start \in Int /\ Hi(lf) \in Int /\ Hi(lock) \in Int
  BY HiBounds
<1> QED
  BY <1>1, <1>2, LockfAssumption DEF Remains, In

\* ... one piece of a lock that starts before it, ...
LEMMA PieceBefore ==
    ASSUME NEW lf, GoodRange(lf), NEW lock, GoodRange(lock),
           lf.start < lock.start, lock.start <= Hi(lf), Hi(lf) <= Hi(lock)
    PROVE  Pieces(<< Before(lf, lock) >>, lf) /\ Remains(<< Before(lf, lock) >>, lf, lock)
<1> DEFINE p == Before(lf, lock)
<1>1. Piece(p, lf) /\ p.start = lf.start /\ Hi(p) = lock.start - 1
  BY BeforeProps
<1> HIDE DEF p
<1>2. p \in LockSet
  BY <1>1 DEF Piece, GoodRange
<1>3. Pieces(<<p>>, lf)
  BY <1>1, <1>2 DEF Pieces
<1>4. lf.start \in Int /\ lock.start \in Int /\ Hi(lf) \in Int /\ Hi(lock) \in Int /\ OFF_MAX \in Int
  BY HiBounds
<1>5. ASSUME NEW b \in 0..OFF_MAX PROVE In(b, p) <=> In(b, lf) /\ ~In(b, lock)
  BY <1>1, <1>4 DEF In
<1>6. Remains(<<p>>, lf, lock)
  BY <1>5 DEF Remains
<1> QED
  BY <1>3, <1>6 DEF p

\* ... or ends behind it, ...
LEMMA PieceBehind ==
    ASSUME NEW lf, GoodRange(lf), NEW lock, GoodRange(lock),
           lock.start <= lf.start, lf.start <= Hi(lock), Hi(lock) < Hi(lf)
    PROVE  Pieces(<< Behind(lf, lock) >>, lf) /\ Remains(<< Behind(lf, lock) >>, lf, lock)
<1> DEFINE p == Behind(lf, lock)
<1>1. Piece(p, lf) /\ p.start = Hi(lock) + 1 /\ Hi(p) = Hi(lf)
  BY BehindProps
<1> HIDE DEF p
<1>2. p \in LockSet
  BY <1>1 DEF Piece, GoodRange
<1>3. Pieces(<<p>>, lf)
  BY <1>1, <1>2 DEF Pieces
<1>4. lf.start \in Int /\ lock.start \in Int /\ Hi(lf) \in Int /\ Hi(lock) \in Int /\ OFF_MAX \in Int
  BY HiBounds
<1>5. ASSUME NEW b \in 0..OFF_MAX PROVE In(b, p) <=> In(b, lf) /\ ~In(b, lock)
  BY <1>1, <1>4 DEF In
<1>6. Remains(<<p>>, lf, lock)
  BY <1>5 DEF Remains
<1> QED
  BY <1>3, <1>6 DEF p

\* ... and lf_split leaves the pieces on both sides.
LEMMA PiecesSplit ==
    ASSUME NEW lf, GoodRange(lf), NEW lock, GoodRange(lock),
           lf.start < lock.start, Hi(lock) <= Hi(lf)
    PROVE  Pieces(lf_split(lf, lock), lf) /\ Remains(lf_split(lf, lock), lf, lock)
<1>1. /\ lf.start \in Int /\ lock.start \in Int /\ Hi(lf) \in Int /\ Hi(lock) \in Int /\ OFF_MAX \in Int
      /\ lock.start <= Hi(lock)
      /\ lf.end = lock.end <=> Hi(lf) = Hi(lock)
  BY HiBounds
<1>2. CASE lf.end = lock.end
  <2>1. lf_split(lf, lock) = << Before(lf, lock) >>
    BY <1>2 DEF lf_split
  <2> QED
    BY <1>1, <1>2, <2>1, PieceBefore
<1>3. CASE lf.end # lock.end
  <2> DEFINE p == Before(lf, lock)
             q == Behind(lf, lock)
  <2>1. Piece(p, lf) /\ p.start = lf.start /\ Hi(p) = lock.start - 1
    BY <1>1, BeforeProps
  <2>2. Piece(q, lf) /\ q.start = Hi(lock) + 1 /\ Hi(q) = Hi(lf)
    BY <1>1, <1>3, BehindProps
  <2>3. lf_split(lf, lock) = <<p, q>>
    BY <1>3 DEF lf_split
  <2> HIDE DEF p, q
  <2>4. p \in LockSet /\ q \in LockSet
    BY <2>1, <2>2 DEF Piece, GoodRange
  <2>5. Hi(p) + 1 < q.start
    BY <1>1, <2>1, <2>2
  <2>6. Len(<<p, q>>) = 2 /\ <<p, q>>[1] = p /\ <<p, q>>[2] = q /\ <<p, q>> \in Seq(LockSet)
    BY <2>4
  <2>7. Pieces(<<p, q>>, lf)
    <3>1. \A a \in 1..2 : a = 1 \/ a = 2
      OBVIOUS
    <3>2. \A a, b \in 1..2 : a < b => a = 1 /\ b = 2
      OBVIOUS
    <3> QED
      BY <2>1, <2>2, <2>5, <2>6, <3>1, <3>2 DEF Pieces
  <2>8. ASSUME NEW b \in 0..OFF_MAX PROVE In(b, p) \/ In(b, q) <=> In(b, lf) /\ ~In(b, lock)
    BY <1>1, <2>1, <2>2 DEF In
  <2>9. \A b : (\E a \in 1..2 : In(b, <<p, q>>[a])) <=> In(b, p) \/ In(b, q)
    <3>1. \A a \in 1..2 : a = 1 \/ a = 2
      OBVIOUS
    <3> QED
      BY <2>6, <3>1
  <2>10. Remains(<<p, q>>, lf, lock)
    BY <2>6, <2>8, <2>9 DEF Remains
  <2> QED
    BY <2>3, <2>7, <2>10
<1> QED
  BY <1>2, <1>3

\* Cutting a lock of the owner changes nothing outside the range ...
LEMMA TrimOutside ==
    ASSUME NEW l, GoodTable(l), NEW i \in 1..Len(l), NEW ps, Pieces(ps, l[i]), NEW lock,
           Remains(ps, l[i], lock), l[i].id = lock.id, NEW m, m = Splice(l, i, i, ps)
    PROVE  Outside(l, m, lock)
<1> SUFFICES ASSUME NEW o, NEW ty, NEW b \in 0..OFF_MAX, ~(o = lock.id /\ In(b, lock))
             PROVE  Covers(m, o, b, ty) <=> Covers(l, o, b, ty)
  BY DEF Outside
<1> DEFINE X == \E j \in 1..Len(l) : j # i /\ l[j].id = o /\ l[j].type = ty /\ In(b, l[j])
           Y == l[i].id = o /\ l[i].type = ty
<1>1. Covers(m, o, b, ty) <=> X \/ (Y /\ \E a \in 1..Len(ps) : In(b, ps[a]))
  <2>1. Covers(m, o, b, ty) <=>
             \/ \E j \in 1..Len(l) : j # i /\ l[j].id = o /\ l[j].type = ty /\ l[j].start <= b /\ b <= Hi(l[j])
             \/ \E a \in 1..Len(ps) : l[i].id = o /\ l[i].type = ty /\ ps[a].start <= b /\ b <= Hi(ps[a])
    BY TrimCovers DEF GoodTable
  <2> QED
    BY <2>1 DEF In
<1>2. Covers(l, o, b, ty) <=> X \/ (Y /\ In(b, l[i]))
  BY DEF Covers, In
<1>3. (\E a \in 1..Len(ps) : In(b, ps[a])) <=> In(b, l[i]) /\ ~In(b, lock)
  BY DEF Remains
<1>4. Y => ~In(b, lock)
  OBVIOUS
<1> HIDE DEF X, Y
<1> QED
  BY <1>1, <1>2, <1>3, <1>4, Zenon

\* ... and without a queue it is the same lock.
LEMMA TrimSame ==
    ASSUME NEW l, GoodTable(l), NEW i \in 1..Len(l), NEW m, m = Splice(l, i, i, << Emptied(l[i]) >>)
    PROVE  /\ Pieces(<< Emptied(l[i]) >>, l[i])
           /\ \A o, ty : \A b \in 0..OFF_MAX : Covers(m, o, b, ty) <=> Covers(l, o, b, ty)
<1> DEFINE p == Emptied(l[i])
<1>1. GoodRange(l[i])
  BY DEF GoodTable, GoodList
<1>2. /\ p \in LockSet /\ GoodRange(p) /\ Hi(p) = Hi(l[i]) /\ p.blk = <<>> /\ p.id = l[i].id
      /\ p.kind = l[i].kind /\ p.start = l[i].start /\ p.type = l[i].type /\ p.wake1 = l[i].wake1
  BY <1>1, EmptiedProps
<1>3. Hi(l[i]) \in Int /\ l[i].start \in Int
  BY <1>1, HiBounds
<1>7. m = Splice(l, i, i, <<p>>)
  OBVIOUS
<1> HIDE DEF p
<1>4. Piece(p, l[i])
  BY <1>2, <1>3 DEF Piece
<1>5. Pieces(<<p>>, l[i])
  BY <1>2, <1>4 DEF Pieces
<1>6. ASSUME NEW o, NEW ty, NEW b \in 0..OFF_MAX
      PROVE  Covers(m, o, b, ty) <=> Covers(l, o, b, ty)
  <2> DEFINE X == \E j \in 1..Len(l) : j # i /\ l[j].id = o /\ l[j].type = ty /\ l[j].start <= b /\ b <= Hi(l[j])
             Y == l[i].id = o /\ l[i].type = ty /\ l[i].start <= b /\ b <= Hi(l[i])
  <2>1. Covers(m, o, b, ty) <=>
          X \/ \E a \in 1..Len(<<p>>) : l[i].id = o /\ l[i].type = ty /\ <<p>>[a].start <= b /\ b <= Hi(<<p>>[a])
    BY <1>5, <1>7, TrimCovers DEF GoodTable
  <2>2. Covers(m, o, b, ty) <=> X \/ Y
    BY <1>2, <2>1
  <2>3. Covers(l, o, b, ty) <=> X \/ Y
    BY DEF Covers
  <2> QED
    BY <2>2, <2>3, Zenon
<1> QED
  BY <1>5, <1>6 DEF p
-----------------------------------------------------------------------------
\* Locks of an owner with one type do not touch, except perhaps the lock at k.
ApartBut(l, k) ==
    \A i, j \in 1..Len(l) :
      i < j /\ i # k /\ j # k /\ l[i].id = l[j].id /\ l[i].type = l[j].type
        => Hi(l[i]) + 1 < l[j].start

\* A list that only has to be coalesced at k.
Prepared(l, k) ==
    GoodList(l) /\ Increasing(l) /\ Contiguous(l) /\ ApartBut(l, k) /\ k \in 1..Len(l)

Inserted(m, l, k, lock) ==
    /\ Len(m) = Len(l) + 1 /\ m[k] = lock
    /\ \A x \in 1..(k - 1) : m[x] = l[x]
    /\ \A x \in k..Len(l) : m[x + 1] = l[x]

\* What a list is after an insertion, place by place.
LEMMA InsertIs ==
    ASSUME NEW S, NEW l \in Seq(S), NEW k \in 1..(Len(l) + 1), NEW lock \in S,
           NEW m, m = InsertAt(l, k, lock)
    PROVE  m \in Seq(S) /\ Inserted(m, l, k, lock)
<1>1. Len(l) \in Nat /\ (k - 1) + 1 = k
  OBVIOUS
<1>2. m = Splice(l, k, k - 1, <<lock>>)
  BY <1>1 DEF InsertAt, Splice
<1>3. k - 1 \in (k - 1)..Len(l) /\ <<lock>> \in Seq(S) /\ Len(<<lock>>) = 1 /\ <<lock>>[1] = lock
  BY <1>1
<1>4. m \in Seq(S) /\ SpliceIs(m, l, k, k - 1, <<lock>>)
  BY <1>2, <1>3, SpliceProps
<1>5. Len(m) = Len(l) + 1
  BY <1>1, <1>3, <1>4 DEF SpliceIs
<1>6. \A x \in 1..(k - 1) : m[x] = l[x]
  BY <1>4 DEF SpliceIs
<1>7. m[k] = lock
  <2>1. 1 \in 1..Len(<<lock>>) /\ k + 1 - 1 = k
    BY <1>3
  <2>2. m[k + 1 - 1] = <<lock>>[1]
    BY <1>4, <2>1 DEF SpliceIs
  <2> QED
    BY <1>3, <2>1, <2>2
<1>8. ASSUME NEW x \in k..Len(l) PROVE m[x + 1] = l[x]
  <2>1. x \in ((k - 1) + 1)..Len(l) /\ x - ((k - 1) - k + 1) + Len(<<lock>>) = x + 1
    BY <1>1, <1>3
  <2>2. m[x - ((k - 1) - k + 1) + Len(<<lock>>)] = l[x]
    BY <1>4, <2>1 DEF SpliceIs
  <2> QED
    BY <2>1, <2>2
<1> QED
  BY <1>4, <1>5, <1>6, <1>7, <1>8 DEF Inserted

\* A lock fits at a place of the list.
Fits(l, k, lock) ==
    /\ GoodRange(lock) /\ lock.type # "U" /\ k \in 1..(Len(l) + 1) /\ Spot(l, k, lock.id)
    /\ \A j \in 1..(k - 1) : l[j].id = lock.id => Hi(l[j]) < lock.start
    /\ \A j \in k..Len(l) : l[j].id = lock.id => Hi(lock) < l[j].start

\* A lock linked in its place keeps the list in order, but may touch its neighbours.
LEMMA LinkOrder ==
    ASSUME NEW l, GoodTable(l), NEW lock, NEW k, Fits(l, k, lock), NEW m, m = InsertAt(l, k, lock)
    PROVE  Prepared(m, k) /\ m[k] = lock
<1>1. /\ l \in Seq(LockSet) /\ lock \in LockSet /\ k \in 1..(Len(l) + 1) /\ Len(l) \in Nat
  BY DEF GoodTable, GoodList, Fits, GoodRange
<1>2. /\ m \in Seq(LockSet) /\ Len(m) = Len(l) + 1 /\ m[k] = lock
      /\ \A x \in 1..(k - 1) : m[x] = l[x]
      /\ \A x \in k..Len(l) : m[x + 1] = l[x]
  <2>1. m \in Seq(LockSet) /\ Inserted(m, l, k, lock)
    BY <1>1, InsertIs
  <2> QED
    BY <2>1 DEF Inserted
<1> DEFINE s(x) == IF x < k THEN x ELSE x - 1
<1>3. \A x \in 1..Len(m) : x # k => s(x) \in 1..Len(l) /\ m[x] = l[s(x)]
  <2> TAKE x \in 1..Len(m)
  <2>1. CASE x < k
    <3>1. x \in 1..(k - 1) /\ x \in 1..Len(l)
      BY <1>1, <2>1
    <3> QED
      BY <1>2, <2>1, <3>1
  <2>2. CASE x > k
    <3>1. x - 1 \in k..Len(l) /\ (x - 1) + 1 = x /\ x - 1 \in 1..Len(l)
      BY <1>1, <1>2, <2>2
    <3>2. m[(x - 1) + 1] = l[x - 1]
      BY <1>2, <3>1
    <3>3. s(x) = x - 1
      BY <2>2, <1>1
    <3> QED
      BY <3>1, <3>2, <3>3
  <2> QED
    BY <1>1, <2>1, <2>2
<1>4. \A x, y \in 1..Len(m) : x < y /\ x # k /\ y # k => s(x) < s(y)
  BY <1>1
<1>5. \A x \in 1..Len(m) : x < k => s(x) \in 1..(k - 1)
  BY <1>1
<1>6. \A x \in 1..Len(m) : x > k => s(x) \in k..Len(l)
  BY <1>1, <1>2
<1>7. GoodRange(lock) /\ lock.type # "U"
  BY DEF Fits
<1>8. GoodList(m)
  BY <1>2, <1>3, <1>7 DEF GoodTable, GoodList
<1>9. ApartBut(m, k)
  <2> SUFFICES ASSUME NEW x \in 1..Len(m), NEW y \in 1..Len(m), x < y, x # k, y # k,
                      m[x].id = m[y].id, m[x].type = m[y].type
               PROVE  Hi(m[x]) + 1 < m[y].start
    BY DEF ApartBut
  <2> HIDE DEF s
  <2>1. s(x) < s(y) /\ s(x) \in 1..Len(l) /\ s(y) \in 1..Len(l) /\ m[x] = l[s(x)] /\ m[y] = l[s(y)]
    BY <1>3, <1>4
  <2> QED
    BY <2>1 DEF GoodTable, Apart
<1>10. Increasing(m)
  <2> SUFFICES ASSUME NEW x \in 1..Len(m), NEW y \in 1..Len(m), x < y, m[x].id = m[y].id
               PROVE  Hi(m[x]) < m[y].start
    BY DEF Increasing
  <2> HIDE DEF s
  <2>1. CASE x = k
    <3>1. s(y) \in k..Len(l) /\ m[y] = l[s(y)] /\ m[x] = lock
      BY <1>1, <1>2, <1>3, <1>6, <2>1
    <3> QED
      BY <3>1 DEF Fits
  <2>2. CASE y = k
    <3>1. s(x) \in 1..(k - 1) /\ m[x] = l[s(x)] /\ m[y] = lock
      BY <1>1, <1>2, <1>3, <1>5, <2>2
    <3> QED
      BY <3>1 DEF Fits
  <2>3. CASE x # k /\ y # k
    <3>1. s(x) < s(y) /\ s(x) \in 1..Len(l) /\ s(y) \in 1..Len(l) /\ m[x] = l[s(x)] /\ m[y] = l[s(y)]
      BY <1>3, <1>4, <2>3
    <3> QED
      BY <3>1 DEF GoodTable, Increasing
  <2> QED
    BY <2>1, <2>2, <2>3
<1>11. Contiguous(m)
  <2> SUFFICES ASSUME NEW x \in 1..Len(m), NEW y \in 1..Len(m), x < y, m[x].id = m[y].id,
                      NEW z \in x..y, z # x, z # y
               PROVE  m[z].id = m[x].id
    BY DEF Contiguous
  <2>0. x < z /\ z < y /\ z \in 1..Len(m) /\ Len(m) \in Nat
    BY <1>1, <1>2
  <2>h. Contiguous(l)
    BY DEF GoodTable
  <2> HIDE DEF s
  <2>1. CASE x = k
    \* l[k] is of the owner, and so is everything up to y
    <3>1. s(y) \in k..Len(l) /\ m[y] = l[s(y)] /\ m[x] = lock /\ s(z) \in k..Len(l) /\ m[z] = l[s(z)] /\ s(z) < s(y)
      BY <1>1, <1>2, <1>3, <1>4, <1>6, <2>0, <2>1
    <3>2. l[k].id = lock.id
      BY <3>1 DEF Fits, Spot
    <3>3. k \in 1..Len(l) /\ s(y) \in 1..Len(l) /\ k < s(y) /\ s(z) \in k..s(y)
      BY <1>1, <3>1
    <3> QED
      BY <2>h, <3>1, <3>2, <3>3 DEF Contiguous
  <2>2. CASE y = k
    <3>0. x # k /\ z # k /\ x < k /\ z < k
      BY <2>0, <2>2
    <3>1. s(x) \in 1..(k - 1) /\ m[x] = l[s(x)] /\ m[y] = lock /\ s(z) \in 1..(k - 1) /\ m[z] = l[s(z)] /\ s(x) < s(z)
      BY <1>2, <1>3, <1>4, <1>5, <2>0, <2>2, <3>0
    <3>2. l[k - 1].id = lock.id
      BY <3>1 DEF Fits, Spot
    <3>3. k - 1 \in 1..Len(l) /\ s(x) \in 1..Len(l) /\ s(x) < k - 1 /\ s(z) \in s(x)..(k - 1)
      BY <1>1, <3>1
    <3> QED
      BY <2>h, <3>1, <3>2, <3>3 DEF Contiguous
  <2>3. CASE x # k /\ y # k
    <3>1. s(x) < s(y) /\ s(x) \in 1..Len(l) /\ s(y) \in 1..Len(l) /\ m[x] = l[s(x)] /\ m[y] = l[s(y)]
      BY <1>3, <1>4, <2>3
    <3>2. \A q \in s(x)..s(y) : l[q].id = l[s(x)].id
      BY <2>h, <3>1 DEF Contiguous
    <3>3. CASE z # k
      <4>1. s(z) \in s(x)..s(y) /\ m[z] = l[s(z)]
        BY <1>3, <1>4, <2>0, <2>3, <3>1, <3>3
      <4> QED
        BY <3>1, <3>2, <4>1
    <3>4. CASE z = k
      <4>1. x < k /\ y > k
        BY <2>0, <3>4
      <4>2. s(x) = x /\ s(y) = y - 1
        BY <1>1, <1>2, <4>1 DEF s
      <4>3. k \in s(x)..s(y) /\ k - 1 \in s(x)..s(y)
        BY <1>1, <4>1, <4>2
      <4>4. ASSUME lock.id # l[s(x)].id PROVE FALSE
        \* the lock would be between two locks of somebody else
        <5>1. l[k].id = l[s(x)].id /\ l[k - 1].id = l[s(x)].id
          BY <3>2, <4>3
        <5> QED
          BY <1>1, <4>1, <4>2, <4>4, <5>1, <3>1 DEF Fits, Spot
      <4> QED
        BY <1>2, <3>1, <3>4, <4>4
    <3> QED
      BY <3>3, <3>4
  <2> QED
    BY <2>1, <2>2, <2>3
<1>12. k \in 1..Len(m)
  BY <1>1, <1>2
<1> QED
  BY <1>2, <1>8, <1>9, <1>10, <1>11, <1>12 DEF Prepared
-----------------------------------------------------------------------------
\* The locks from p to f, one of them at k, touch and become one lock.
Joins(m, k, p, f, J) ==
    /\ p \in {k - 1, k} /\ f \in {k, k + 1} /\ p \in 1..Len(m) /\ f \in 1..Len(m)
    /\ \A x \in {p, f} : m[x].id = m[k].id /\ m[x].type = m[k].type
    /\ IF p = k - 1 THEN Hi(m[p]) + 1 = m[k].start
       ELSE k - 1 \in 1..Len(m) /\ m[k - 1].id = m[k].id /\ m[k - 1].type = m[k].type
              => Hi(m[k - 1]) + 1 # m[k].start
    /\ IF f = k + 1 THEN Hi(m[k]) + 1 = m[f].start
       ELSE k + 1 \in 1..Len(m) /\ m[k + 1].id = m[k].id /\ m[k + 1].type = m[k].type
              => Hi(m[k]) + 1 # m[k + 1].start
    /\ J \in LockSet /\ J.id = m[k].id /\ J.kind = m[k].kind /\ J.type = m[k].type
    /\ J.wake1 = m[k].wake1 /\ J.start = m[p].start /\ J.end = m[f].end
    /\ J.blk = (m[k].blk \o (IF p = k THEN <<>> ELSE m[p].blk)) \o (IF f = k THEN <<>> ELSE m[f].blk)

\* lf_move_blocked only changes the queue.
LEMMA MoveBlocked ==
    ASSUME NEW to \in LockSet, NEW from \in LockSet
    PROVE  /\ lf_move_blocked(to, from) \in LockSet
           /\ lf_move_blocked(to, from).id = to.id /\ lf_move_blocked(to, from).kind = to.kind
           /\ lf_move_blocked(to, from).start = to.start /\ lf_move_blocked(to, from).end = to.end
           /\ lf_move_blocked(to, from).type = to.type /\ lf_move_blocked(to, from).wake1 = to.wake1
           /\ lf_move_blocked(to, from).blk = to.blk \o from.blk
<1>1. to.blk \in Seq(Threads) /\ from.blk \in Seq(Threads)
  BY DEF LockSet
<1>2. to.blk \o from.blk \in Seq(Threads)
  BY <1>1, ConcatProperties
<1> QED
  BY <1>2 DEF lf_move_blocked, LockSet

\* lf_coalesce_adjacent joins the lock with its neighbours on the list at most.
LEMMA CoalesceShape ==
    ASSUME NEW m, NEW k, Prepared(m, k)
    PROVE  \E p, f, J : Joins(m, k, p, f, J) /\ lf_coalesce_adjacent(m, k) = Splice(m, p, f, <<J>>)
<1> DEFINE lock == m[k]
           same(i) == m[i].id = lock.id /\ m[i].type = lock.type
           previous  == { i \in 1..(k - 1) :
                            same(i) /\ m[i].end # -1 /\ Wrap(m[i].end + 1) = lock.start }
           following == { i \in (k + 1)..Len(m) :
                            same(i) /\ lock.end # -1 /\ Wrap(lock.end + 1) = m[i].start }
           p == IF previous = {} THEN k ELSE Min(previous)
           f == IF following = {} THEN k ELSE Min(following)
           q == IF p = k THEN lock ELSE lf_move_blocked(lock, m[p])
           joined == IF f = k THEN q ELSE lf_move_blocked(q, m[f])
           J == [joined EXCEPT !.start = m[p].start, !.end = m[f].end]
<1>1. lf_coalesce_adjacent(m, k) = Splice(m, p, f, <<J>>)
  BY DEF lf_coalesce_adjacent
<1>2. Len(m) \in Nat /\ k \in 1..Len(m) /\ OFF_MAX \in Nat
  BY LockfAssumption DEF Prepared, GoodList
<1>3. \A i \in 1..Len(m) :
        /\ GoodRange(m[i]) /\ m[i] \in LockSet /\ m[i].start \in 0..OFF_MAX /\ Hi(m[i]) \in 0..OFF_MAX
        /\ m[i].start <= Hi(m[i]) /\ (m[i].end # -1 => m[i].end = Hi(m[i]) /\ Wrap(m[i].end + 1) = Hi(m[i]) + 1)
        /\ (m[i].end = -1 => Hi(m[i]) = OFF_MAX)
  <2> TAKE i \in 1..Len(m)
  <2>1. GoodRange(m[i]) /\ m[i] \in LockSet
    BY DEF Prepared, GoodList, GoodRange
  <2>2. m[i].end # -1 => m[i].end = Hi(m[i]) /\ m[i].end + 1 \in 0..OFF_MAX
    BY <2>1, <1>2, HiBounds
  <2> QED
    BY <2>1, <2>2, HiBounds, WrapId
<1>4. \A i, j \in 1..Len(m) : i < j /\ m[i].id = m[j].id =>
        Hi(m[i]) < m[j].start /\ \A x \in i..j : m[x].id = m[i].id
  BY DEF Prepared, Increasing, Contiguous
<1>5. ASSUME NEW i \in 1..(k - 1), same(i)
      PROVE  i = k - 1 \/ Hi(m[i]) + 1 < lock.start
  <2>1. CASE i < k - 1
    <3>1. i \in 1..Len(m) /\ k - 1 \in 1..Len(m) /\ k - 1 \in i..k /\ i < k
      BY <1>2, <2>1
    <3>2. m[k - 1].id = m[i].id
      <4>1. k \in 1..Len(m) /\ m[i].id = m[k].id
        BY <1>2, <1>5
      <4>2. \A x \in i..k : m[x].id = m[i].id
        BY <1>4, <3>1, <4>1
      <4> QED
        BY <3>1, <4>2
    <3>3. Hi(m[i]) < m[k - 1].start /\ Hi(m[k - 1]) < lock.start
      BY <1>2, <1>4, <1>5, <2>1, <3>1, <3>2
    <3> QED
      BY <1>2, <1>3, <3>1, <3>3, SMTT(30)
  <2> QED
    BY <1>2, <2>1
<1>6. ASSUME NEW i \in (k + 1)..Len(m), same(i)
      PROVE  i = k + 1 \/ Hi(lock) + 1 < m[i].start
  <2>1. CASE i > k + 1
    <3>1. i \in 1..Len(m) /\ k + 1 \in 1..Len(m) /\ k + 1 \in k..i /\ k < i
      BY <1>2, <2>1
    <3>2. m[k + 1].id = m[i].id
      BY <1>2, <1>4, <1>6, <3>1
    <3>3. Hi(m[k + 1]) < m[i].start /\ Hi(lock) < m[k + 1].start
      BY <1>2, <1>4, <1>6, <2>1, <3>1, <3>2
    <3> QED
      BY <1>2, <1>3, <3>1, <3>3
  <2> QED
    BY <1>2, <2>1
<1> DEFINE PT == k - 1 \in 1..Len(m) /\ same(k - 1) /\ Hi(m[k - 1]) + 1 = lock.start
           FT == k + 1 \in 1..Len(m) /\ same(k + 1) /\ Hi(lock) + 1 = m[k + 1].start
<1>7. (PT => p = k - 1) /\ (~PT => p = k)
  <2>1. \A i \in previous : i = k - 1 /\ PT
    <3> TAKE i \in previous
    <3>1. i \in 1..Len(m) /\ m[i].end # -1 /\ Wrap(m[i].end + 1) = lock.start /\ same(i) /\ i \in 1..(k - 1)
      BY <1>2
    <3>2. Hi(m[i]) + 1 = lock.start
      BY <1>3, <3>1
    <3>3. i = k - 1
      BY <1>2, <1>3, <1>5, <3>1, <3>2
    <3> QED
      BY <3>1, <3>2, <3>3
  <2>2. PT => k - 1 \in previous
    <3> HAVE PT
    <3>1. k - 1 \in 1..(k - 1) /\ m[k - 1].end # -1
      BY <1>2, <1>3
    <3>2. Wrap(m[k - 1].end + 1) = lock.start
      BY <1>3, <3>1
    <3> QED
      BY <3>1, <3>2
  <2>3. ASSUME PT PROVE Min(previous) = k - 1 /\ previous # {}
    <3>1. previous = {k - 1}
      BY <2>1, <2>2, <2>3
    <3>2. k - 1 \in Nat
      BY <1>2
    <3> HIDE DEF previous
    <3>3. Min(previous) \in previous
      BY <3>1, <3>2, MinProps
    <3> QED
      BY <3>1, <3>3
  <2>4. ~PT => previous = {}
    BY <2>1
  <2> HIDE DEF previous, PT
  <2> QED
    BY <2>3, <2>4
<1>8. (FT => f = k + 1) /\ (~FT => f = k)
  <2>1. \A i \in following : i = k + 1 /\ FT
    <3> TAKE i \in following
    <3>1. i \in 1..Len(m) /\ lock.end # -1 /\ Wrap(lock.end + 1) = m[i].start /\ same(i) /\ i \in (k + 1)..Len(m)
      BY <1>2
    <3>2. Hi(lock) + 1 = m[i].start
      BY <1>2, <1>3, <3>1
    <3>3. ~(Hi(lock) + 1 < m[i].start)
      BY <1>2, <1>3, <3>1, <3>2
    <3>4. i = k + 1
      BY <1>6, <3>1, <3>3
    <3> QED
      BY <3>1, <3>2, <3>4
  <2>2. FT => k + 1 \in following
    <3> HAVE FT
    <3>1. k + 1 \in (k + 1)..Len(m) /\ lock.end # -1
      BY <1>2, <1>3
    <3>2. Wrap(lock.end + 1) = m[k + 1].start
      BY <1>2, <1>3, <3>1
    <3> QED
      BY <3>1, <3>2
  <2>3. ASSUME FT PROVE Min(following) = k + 1 /\ following # {}
    <3>1. following = {k + 1}
      BY <2>1, <2>2, <2>3
    <3>2. k + 1 \in Nat
      BY <1>2
    <3> HIDE DEF following
    <3>3. Min(following) \in following
      BY <3>1, <3>2, MinProps
    <3> QED
      BY <3>1, <3>3
  <2>4. ~FT => following = {}
    BY <2>1
  <2> HIDE DEF following, FT
  <2> QED
    BY <2>3, <2>4
<1>9. p \in {k - 1, k} /\ f \in {k, k + 1} /\ p \in 1..Len(m) /\ f \in 1..Len(m) /\ k # k - 1 /\ k # k + 1
  <2> HIDE DEF p, f
  <2>1. CASE PT
    BY <1>2, <1>7, <1>8, <2>1
  <2>2. CASE ~PT
    BY <1>2, <1>7, <1>8, <2>2
  <2> QED
    BY <2>1, <2>2
<1> HIDE DEF p, f
<1>10. /\ q \in LockSet /\ q.id = lock.id /\ q.kind = lock.kind /\ q.type = lock.type
       /\ q.wake1 = lock.wake1 /\ q.blk = lock.blk \o (IF p = k THEN <<>> ELSE m[p].blk)
  <2>1. lock \in LockSet /\ m[p] \in LockSet /\ lock.blk \in Seq(Threads)
    BY <1>2, <1>3, <1>9 DEF LockSet
  <2>2. CASE p = k
    BY <2>1, <2>2, ConcatEmptySeq
  <2>3. CASE p # k
    BY <2>1, <2>3, MoveBlocked
  <2> QED
    BY <2>2, <2>3
<1> HIDE DEF q
<1>11. /\ joined \in LockSet /\ joined.id = lock.id /\ joined.kind = lock.kind /\ joined.type = lock.type
       /\ joined.wake1 = lock.wake1 /\ joined.blk = q.blk \o (IF f = k THEN <<>> ELSE m[f].blk)
  <2>1. m[f] \in LockSet /\ q.blk \in Seq(Threads)
    BY <1>3, <1>9, <1>10 DEF LockSet
  <2>2. CASE f = k
    BY <1>10, <2>1, <2>2, ConcatEmptySeq
  <2>3. CASE f # k
    BY <1>10, <2>1, <2>3, MoveBlocked
  <2> QED
    BY <2>2, <2>3
<1> HIDE DEF joined
<1>12. m[p].start \in 0..OFF_MAX /\ m[f].end \in -1..OFF_MAX
  <2>1. m[p] \in LockSet /\ m[f] \in LockSet
    BY <1>3, <1>9
  <2> QED
    BY <2>1 DEF LockSet
<1>13. /\ J \in LockSet /\ J.id = lock.id /\ J.kind = lock.kind /\ J.type = lock.type
       /\ J.wake1 = lock.wake1 /\ J.start = m[p].start /\ J.end = m[f].end /\ J.blk = joined.blk
  BY <1>11, <1>12 DEF LockSet
<1> HIDE DEF J
<1>14. J.blk = (lock.blk \o (IF p = k THEN <<>> ELSE m[p].blk)) \o (IF f = k THEN <<>> ELSE m[f].blk)
  BY <1>10, <1>11, <1>13
<1>15. IF p = k - 1 THEN same(p) /\ Hi(m[p]) + 1 = lock.start
       ELSE k - 1 \in 1..Len(m) /\ same(k - 1) => Hi(m[k - 1]) + 1 # lock.start
  BY <1>7, <1>9
<1>16. IF f = k + 1 THEN same(f) /\ Hi(lock) + 1 = m[f].start
       ELSE k + 1 \in 1..Len(m) /\ same(k + 1) => Hi(lock) + 1 # m[k + 1].start
  BY <1>8, <1>9
<1>17. \A x \in {p, f} : same(x)
  BY <1>9, <1>15, <1>16
<1>18. Joins(m, k, p, f, J)
  BY <1>9, <1>13, <1>14, <1>15, <1>16, <1>17 DEF Joins
<1> QED
  BY <1>1, <1>18
-----------------------------------------------------------------------------
\* The list with the joined lock.
LEMMA JoinIs ==
    ASSUME NEW m, NEW k, Prepared(m, k), NEW p, NEW f, NEW J, Joins(m, k, p, f, J),
           NEW r, r = Splice(m, p, f, <<J>>)
    PROVE  /\ r \in Seq(LockSet) /\ Len(r) = Len(m) - (f - p) /\ Len(r) \in Nat /\ Len(m) \in Nat
           /\ p \in 1..Len(r) /\ r[p] = J
           /\ p \in Nat /\ f \in Nat /\ k \in Nat /\ p <= k /\ k <= f
           /\ \A x \in 1..(p - 1) : x \in 1..Len(m) /\ r[x] = m[x]
           /\ \A x \in (p + 1)..Len(r) : x + (f - p) \in (f + 1)..Len(m) /\ r[x] = m[x + (f - p)]
<1>1. m \in Seq(LockSet) /\ Len(m) \in Nat /\ J \in LockSet /\ k \in 1..Len(m)
      /\ p \in {k - 1, k} /\ f \in {k, k + 1} /\ p \in 1..Len(m) /\ f \in 1..Len(m)
  BY DEF Prepared, GoodList, Joins
<1>2. <<J>> \in Seq(LockSet) /\ Len(<<J>>) = 1 /\ <<J>>[1] = J
  BY <1>1
<1>3. p \in 1..(Len(m) + 1) /\ f \in (p - 1)..Len(m) /\ p <= k /\ k <= f
  BY <1>1
<1>4. r \in Seq(LockSet) /\ SpliceIs(r, m, p, f, <<J>>)
  BY <1>1, <1>2, <1>3, SpliceProps
<1>5. Len(r) = Len(m) - (f - p + 1) + 1
  BY <1>2, <1>4 DEF SpliceIs
<1>6. \A x \in 1..(p - 1) : x \in 1..Len(m) /\ r[x] = m[x]
  <2>1. \A x \in 1..(p - 1) : x \in 1..Len(m)
    BY <1>1
  <2> QED
    BY <1>4, <2>1 DEF SpliceIs
<1>7. r[p] = J
  <2>1. 1 \in 1..Len(<<J>>) /\ p + 1 - 1 = p
    BY <1>1, <1>2
  <2>2. r[p + 1 - 1] = <<J>>[1]
    BY <1>4, <2>1 DEF SpliceIs
  <2> QED
    BY <1>2, <2>1, <2>2
<1>8. ASSUME NEW x \in (p + 1)..Len(r)
      PROVE  x + (f - p) \in (f + 1)..Len(m) /\ r[x] = m[x + (f - p)]
  <2> DEFINE y == x + (f - p)
  <2>1. y \in (f + 1)..Len(m) /\ y - (f - p + 1) + Len(<<J>>) = x
    BY <1>1, <1>2, <1>5
  <2>2. r[y - (f - p + 1) + Len(<<J>>)] = m[y]
    BY <1>4, <2>1 DEF SpliceIs
  <2> QED
    BY <2>1, <2>2
<1>9. p \in 1..Len(r) /\ Len(r) = Len(m) - (f - p) /\ Len(r) \in Nat
  BY <1>1, <1>3, <1>5
<1>10. p \in Nat /\ f \in Nat /\ k \in Nat
  BY <1>1
<1> QED
  BY <1>1, <1>3, <1>4, <1>6, <1>7, <1>8, <1>9, <1>10

\* Coalescing puts the list in order again.
LEMMA CoalesceOrder ==
    ASSUME NEW m, NEW k, Prepared(m, k), NEW p, NEW f, NEW J, Joins(m, k, p, f, J),
           NEW r, r = Splice(m, p, f, <<J>>)
    PROVE  GoodTable(r)
<1>1. /\ r \in Seq(LockSet) /\ Len(r) = Len(m) - (f - p) /\ Len(r) \in Nat /\ Len(m) \in Nat
      /\ p \in 1..Len(r) /\ r[p] = J
      /\ p \in Nat /\ f \in Nat /\ k \in Nat /\ p <= k /\ k <= f
      /\ \A x \in 1..(p - 1) : x \in 1..Len(m) /\ r[x] = m[x]
      /\ \A x \in (p + 1)..Len(r) : x + (f - p) \in (f + 1)..Len(m) /\ r[x] = m[x + (f - p)]
  BY JoinIs, SMTT(30)
<1>2. /\ k \in 1..Len(m) /\ p \in {k - 1, k} /\ f \in {k, k + 1} /\ p \in 1..Len(m) /\ f \in 1..Len(m)
      /\ m[p].id = m[k].id /\ m[p].type = m[k].type
      /\ m[f].id = m[k].id /\ m[f].type = m[k].type
      /\ J \in LockSet /\ J.id = m[k].id /\ J.type = m[k].type /\ J.start = m[p].start /\ J.end = m[f].end
  BY DEF Joins, Prepared
<1>3. \A i \in 1..Len(m) : /\ GoodRange(m[i]) /\ m[i].type # "U"
                           /\ m[i].start \in 0..OFF_MAX /\ Hi(m[i]) \in 0..OFF_MAX /\ m[i].start <= Hi(m[i])
  BY HiBounds DEF Prepared, GoodList
<1>14. \A i \in 1..Len(m) : m[i].start \in Int /\ Hi(m[i]) \in Int /\ m[i].start <= Hi(m[i])
  BY <1>3
<1>4. \A i, j \in 1..Len(m) : i < j /\ m[i].id = m[j].id =>
        Hi(m[i]) < m[j].start /\ \A x \in i..j : m[x].id = m[i].id
  BY DEF Prepared, Increasing, Contiguous
<1>5. \A i, j \in 1..Len(m) :
        i < j /\ i # k /\ j # k /\ m[i].id = m[j].id /\ m[i].type = m[j].type => Hi(m[i]) + 1 < m[j].start
  BY DEF Prepared, ApartBut
<1>6. Hi(J) = Hi(m[f])
  BY <1>2 DEF Hi
<1>7. m[p].start <= m[k].start /\ Hi(m[k]) <= Hi(m[f])
  <2>1. p = k \/ (p < k /\ Hi(m[p]) < m[k].start)
    BY <1>1, <1>2, <1>4
  <2>2. f = k \/ (k < f /\ Hi(m[k]) < m[f].start)
    BY <1>1, <1>2, <1>4
  <2>3. m[p].start <= m[k].start
    BY <1>2, <1>3, <2>1
  <2>4. Hi(m[k]) <= Hi(m[f])
    BY <1>2, <1>3, <2>2
  <2> QED
    BY <2>3, <2>4
<1>8. GoodRange(J) /\ J.type # "U"
  <2>1. GoodRange(m[f]) /\ GoodRange(m[p])
    BY <1>2, <1>3
  <2>2. J.start <= Hi(J)
    BY <1>2, <1>3, <1>6, <1>7
  <2> QED
    BY <1>2, <1>3, <1>6, <2>1, <2>2 DEF GoodRange, Hi
<1> DEFINE s(x) == IF x < p THEN x ELSE IF x = p THEN k ELSE x + (f - p)
<1>9. \A x \in 1..Len(r) :
        /\ s(x) \in 1..Len(m) /\ r[x].id = m[s(x)].id /\ r[x].type = m[s(x)].type
        /\ x # p => r[x] = m[s(x)] /\ s(x) # k
        /\ x < p => s(x) < p
        /\ x > p => s(x) > f
        /\ GoodRange(r[x]) /\ r[x].type # "U"
  <2> TAKE x \in 1..Len(r)
  <2>1. CASE x < p
    <3>1. x \in 1..(p - 1) /\ s(x) = x
      BY <1>1, <2>1
    <3> QED
      BY <1>1, <1>3, <2>1, <3>1
  <2>2. CASE x = p
    BY <1>1, <1>2, <1>8, <2>2
  <2>3. CASE x > p
    <3>1. x \in (p + 1)..Len(r) /\ s(x) = x + (f - p) /\ ~(x < p) /\ x # p
      BY <1>1, <2>3
    <3>2. s(x) \in (f + 1)..Len(m) /\ r[x] = m[s(x)]
      BY <1>1, <3>1
    <3>3. s(x) \in 1..Len(m) /\ s(x) # k /\ s(x) > f
      BY <1>1, <3>2
    <3> QED
      BY <1>3, <3>1, <3>2, <3>3
  <2> QED
    BY <1>1, <2>1, <2>2, <2>3
<1>10. \A x, y \in 1..Len(r) : x < y => s(x) < s(y)
  <2> TAKE x, y \in 1..Len(r)
  <2> HAVE x < y
  <2> QED
    BY <1>1, <1>2
<1> HIDE DEF s
<1>11. ASSUME NEW x \in 1..Len(r), NEW y \in 1..Len(r), x < y, r[x].id = r[y].id
       PROVE  /\ Hi(r[x]) < r[y].start
              /\ r[x].type = r[y].type => Hi(r[x]) + 1 < r[y].start
              /\ \A z \in x..y : r[z].id = r[x].id
  <2>1. s(x) < s(y) /\ s(x) \in 1..Len(m) /\ s(y) \in 1..Len(m) /\ m[s(x)].id = m[s(y)].id
    BY <1>9, <1>10, <1>11
  <2>2. Hi(m[s(x)]) < m[s(y)].start /\ \A z \in s(x)..s(y) : m[z].id = m[s(x)].id
    BY <1>4, <2>1
  <2>3. \A z \in x..y : r[z].id = r[x].id
    <3> TAKE z \in x..y
    <3>1. z \in 1..Len(r) /\ (z = x \/ x < z) /\ (z = y \/ z < y)
      BY <1>1
    <3>2. s(z) \in s(x)..s(y)
      BY <1>9, <1>10, <2>1, <3>1
    <3> QED
      BY <1>9, <2>2, <3>1, <3>2
  <2>4. CASE x # p /\ y # p
    <3>1. r[x] = m[s(x)] /\ r[y] = m[s(y)] /\ s(x) # k /\ s(y) # k
      BY <1>9, <2>4
    <3>2. r[x].type = r[y].type => Hi(r[x]) + 1 < r[y].start
      BY <1>5, <2>1, <3>1
    <3> QED
      BY <2>2, <2>3, <3>1, <3>2
  <2>5. CASE y = p
    <3>1. r[y] = J /\ r[x] = m[s(x)] /\ s(x) < p /\ s(x) # k /\ s(x) \in Nat
      BY <1>1, <1>9, <1>11, <2>5, SMTT(30)
    <3>2. m[s(x)].id = m[p].id /\ m[s(x)].id = m[k].id
      BY <1>2, <1>11, <3>1
    <3>3. Hi(m[s(x)]) < m[p].start
      BY <1>2, <1>4, <2>1, <3>1, <3>2
    <3>4. ASSUME r[x].type = r[y].type PROVE Hi(m[s(x)]) + 1 < m[p].start
      <4>1. m[s(x)].type = m[p].type /\ m[s(x)].type = m[k].type
        BY <1>2, <3>1, <3>4
      <4>2. CASE p # k
        BY <1>2, <1>5, <2>1, <3>1, <3>2, <4>1, <4>2
      <4>3. CASE p = k /\ s(x) # k - 1
        <5>1. s(x) < k - 1 /\ k - 1 \in 1..Len(m) /\ k - 1 \in s(x)..k /\ s(x) < k /\ k - 1 < k
          BY <1>1, <1>2, <2>1, <3>1, <4>3, SMTT(90)
        <5>2. m[k - 1].id = m[s(x)].id
          BY <1>2, <1>4, <2>1, <3>2, <5>1
        <5>3. Hi(m[s(x)]) < m[k - 1].start
          BY <1>4, <2>1, <5>1, <5>2
        <5>4. Hi(m[k - 1]) < m[k].start
          BY <1>2, <1>4, <3>2, <5>1, <5>2
        <5>5. /\ Hi(m[s(x)]) \in Int /\ m[k - 1].start \in Int /\ Hi(m[k - 1]) \in Int
              /\ m[k - 1].start <= Hi(m[k - 1]) /\ m[k].start \in Int
          BY <1>2, <1>14, <2>1, <5>1
        <5>6. Hi(m[s(x)]) + 1 < m[k].start
          BY <5>3, <5>4, <5>5
        <5> QED
          BY <4>3, <5>6
      <4>4. CASE p = k /\ s(x) = k - 1
        <5>1. Hi(m[k - 1]) + 1 # m[k].start
          BY <1>1, <2>1, <3>2, <4>1, <4>4 DEF Joins
        <5> QED
          BY <1>2, <1>3, <2>1, <3>3, <4>4, <5>1, SMTT(90)
      <4> QED
        BY <4>2, <4>3, <4>4
    <3> QED
      BY <1>2, <2>3, <3>1, <3>3, <3>4
  <2>6. CASE x = p
    <3>1. r[x] = J /\ r[y] = m[s(y)] /\ s(y) > f /\ s(y) # k /\ s(y) \in Nat
      BY <1>1, <1>9, <1>11, <2>6
    <3>2. m[s(y)].id = m[f].id /\ m[s(y)].id = m[k].id
      BY <1>2, <1>11, <3>1
    <3>3. Hi(m[f]) < m[s(y)].start
      BY <1>2, <1>4, <2>1, <3>1, <3>2
    <3>4. ASSUME r[x].type = r[y].type PROVE Hi(m[f]) + 1 < m[s(y)].start
      <4>1. m[s(y)].type = m[f].type /\ m[s(y)].type = m[k].type
        BY <1>2, <3>1, <3>4
      <4>2. CASE f # k
        BY <1>2, <1>5, <2>1, <3>1, <3>2, <4>1, <4>2
      <4>3. CASE f = k /\ s(y) # k + 1
        <5>1. k + 1 < s(y) /\ k + 1 \in 1..Len(m) /\ k + 1 \in k..s(y) /\ k < s(y) /\ k < k + 1
          BY <1>1, <1>2, <2>1, <3>1, <4>3
        <5>2. m[k + 1].id = m[k].id
          BY <1>2, <1>4, <2>1, <3>2, <5>1
        <5>3. Hi(m[k + 1]) < m[s(y)].start
          BY <1>4, <2>1, <3>2, <5>1, <5>2
        <5>4. Hi(m[k]) < m[k + 1].start
          BY <1>2, <1>4, <5>1, <5>2
        <5>5. /\ Hi(m[k]) \in Int /\ m[k + 1].start \in Int /\ Hi(m[k + 1]) \in Int
              /\ m[k + 1].start <= Hi(m[k + 1]) /\ m[s(y)].start \in Int
          BY <1>2, <1>14, <2>1, <5>1
        <5>6. Hi(m[k]) + 1 < m[s(y)].start
          BY <5>3, <5>4, <5>5
        <5> QED
          BY <4>3, <5>6
      <4>4. CASE f = k /\ s(y) = k + 1
        <5>1. Hi(m[k]) + 1 # m[k + 1].start
          BY <1>1, <2>1, <3>2, <4>1, <4>4 DEF Joins
        <5>2. Hi(m[k]) \in Int /\ m[k + 1].start \in Int
          BY <1>2, <1>3, <2>1, <4>4, SMTT(90)
        <5>3. Hi(m[k]) < m[k + 1].start
          BY <3>3, <4>4
        <5>4. Hi(m[k]) + 1 < m[k + 1].start
          BY <5>1, <5>2, <5>3
        <5> QED
          BY <4>4, <5>4
      <4> QED
        BY <4>2, <4>3, <4>4
    <3> QED
      BY <1>6, <2>3, <3>1, <3>3, <3>4
  <2> QED
    BY <2>4, <2>5, <2>6
<1>12. Increasing(r) /\ Contiguous(r) /\ Apart(r)
  BY <1>11 DEF Increasing, Contiguous, Apart
<1>13. GoodList(r)
  BY <1>1, <1>9 DEF GoodList
<1> QED
  BY <1>12, <1>13 DEF GoodTable

\* ... and covers the same bytes.
LEMMA CoalesceCovers ==
    ASSUME NEW m, NEW k, Prepared(m, k), NEW p, NEW f, NEW J, Joins(m, k, p, f, J),
           NEW r, r = Splice(m, p, f, <<J>>)
    PROVE  \A o, ty : \A b \in 0..OFF_MAX : Covers(r, o, b, ty) <=> Covers(m, o, b, ty)
<1>1. /\ r \in Seq(LockSet) /\ Len(r) = Len(m) - (f - p) /\ Len(r) \in Nat /\ Len(m) \in Nat
      /\ p \in 1..Len(r) /\ r[p] = J
      /\ p \in Nat /\ f \in Nat /\ k \in Nat /\ p <= k /\ k <= f
      /\ \A x \in 1..(p - 1) : x \in 1..Len(m) /\ r[x] = m[x]
      /\ \A x \in (p + 1)..Len(r) : x + (f - p) \in (f + 1)..Len(m) /\ r[x] = m[x + (f - p)]
  BY JoinIs
<1>2. /\ k \in 1..Len(m) /\ p \in {k - 1, k} /\ f \in {k, k + 1} /\ p \in 1..Len(m) /\ f \in 1..Len(m)
      /\ m[p].id = m[k].id /\ m[p].type = m[k].type
      /\ m[f].id = m[k].id /\ m[f].type = m[k].type
      /\ J.id = m[k].id /\ J.type = m[k].type /\ J.start = m[p].start /\ J.end = m[f].end
  BY DEF Joins, Prepared
<1>3. p # k => Hi(m[p]) + 1 = m[k].start
  BY <1>1, <1>2 DEF Joins
<1>4. f # k => Hi(m[k]) + 1 = m[f].start
  BY <1>1, <1>2 DEF Joins
<1>5. \A i \in {p, k, f} : m[i].start \in Int /\ Hi(m[i]) \in Int /\ m[i].start <= Hi(m[i])
  <2>1. \A i \in {p, k, f} : GoodRange(m[i])
    BY <1>2 DEF Prepared, GoodList
  <2> QED
    BY <2>1, HiBounds
<1>6. Hi(J) = Hi(m[f])
  BY <1>2 DEF Hi
<1> TAKE o, ty
<1> TAKE b \in 0..OFF_MAX
<1>7. In(b, J) <=> In(b, m[p]) \/ In(b, m[k]) \/ In(b, m[f])
  <2>1. b \in Int
    BY LockfAssumption
  <2>2. CASE p = k /\ f = k
    BY <1>2, <1>6, <2>2 DEF In
  <2>3. CASE p # k /\ f = k
    BY <1>2, <1>3, <1>5, <1>6, <2>1, <2>3 DEF In
  <2>4. CASE p = k /\ f # k
    BY <1>2, <1>4, <1>5, <1>6, <2>1, <2>4 DEF In
  <2>5. CASE p # k /\ f # k
    BY <1>2, <1>3, <1>4, <1>5, <1>6, <2>1, <2>5, SMTT(30) DEF In
  <2> QED
    BY <2>2, <2>3, <2>4, <2>5
<1> DEFINE C(lf) == lf.id = o /\ lf.type = ty /\ In(b, lf)
<1>8. C(J) <=> C(m[p]) \/ C(m[k]) \/ C(m[f])
  BY <1>2, <1>7
<1>9. \A q : Covers(q, o, b, ty) <=> \E x \in 1..Len(q) : C(q[x])
  BY DEF Covers, In
<1> HIDE DEF C
<1>10. ASSUME NEW x \in 1..Len(r), C(r[x]) PROVE \E y \in 1..Len(m) : C(m[y])
  <2>1. CASE x < p
    <3>1. x \in 1..(p - 1)
      BY <1>1, <2>1
    <3> QED
      BY <1>1, <1>10, <3>1
  <2>2. CASE x = p
    BY <1>1, <1>2, <1>8, <1>10, <2>2
  <2>3. CASE x > p
    <3>1. x \in (p + 1)..Len(r)
      BY <1>1, <2>3
    <3>2. x + (f - p) \in (f + 1)..Len(m) /\ r[x] = m[x + (f - p)]
      BY <1>1, <3>1
    <3>3. x + (f - p) \in 1..Len(m)
      BY <1>1, <3>2
    <3> QED
      BY <1>10, <3>2, <3>3
  <2> QED
    BY <1>1, <2>1, <2>2, <2>3
<1>11. ASSUME NEW y \in 1..Len(m), C(m[y]) PROVE \E x \in 1..Len(r) : C(r[x])
  <2>1. CASE y < p
    <3>1. y \in 1..(p - 1) /\ y \in 1..Len(r)
      BY <1>1, <2>1
    <3> QED
      BY <1>1, <1>11, <3>1
  <2>2. CASE y >= p /\ y <= f
    <3>1. y \in {p, k, f}
      BY <1>1, <1>2, <2>2
    <3> QED
      BY <1>1, <1>8, <1>11, <3>1
  <2>3. CASE y > f
    <3> DEFINE x == y - (f - p)
    <3>1. x \in (p + 1)..Len(r) /\ x \in 1..Len(r) /\ x + (f - p) = y
      BY <1>1, <2>3
    <3> HIDE DEF x
    <3>2. r[x] = m[x + (f - p)]
      <4>1. \A z \in (p + 1)..Len(r) : r[z] = m[z + (f - p)]
        BY <1>1
      <4> QED
        BY <3>1, <4>1
    <3>3. r[x] = m[y]
      BY <3>1, <3>2
    <3> QED
      BY <1>11, <3>1, <3>3
  <2> QED
    BY <1>1, <2>1, <2>2, <2>3, SMTT(90)
<1> QED
  BY <1>9, <1>10, <1>11
-----------------------------------------------------------------------------
\* The list m has the lock where l did not have it, and nothing else changed.
Sets(l, m, lock) ==
    \A o : \A ty \in {"R", "W"} : \A b \in 0..OFF_MAX :
      Covers(m, o, b, ty) <=>
        IF o = lock.id /\ In(b, lock) THEN ty = lock.type ELSE Covers(l, o, b, ty)

Unchanged(l, m) == \A o, ty : \A b \in 0..OFF_MAX : Covers(m, o, b, ty) <=> Covers(l, o, b, ty)

\* No lock of the owner has a byte of the range.
Free(l, lock) == \A j \in 1..Len(l) : l[j].id = lock.id => Hi(l[j]) < lock.start \/ Hi(lock) < l[j].start

\* No byte of a free range is covered.
LEMMA FreeCovers ==
    ASSUME NEW l, GoodList(l), NEW lock, GoodRange(lock), Free(l, lock), NEW b \in 0..OFF_MAX, In(b, lock), NEW ty
    PROVE  ~Covers(l, lock.id, b, ty)
<1> SUFFICES ASSUME NEW j \in 1..Len(l), l[j].id = lock.id, l[j].start <= b, b <= Hi(l[j]) PROVE FALSE
  BY DEF Covers
<1>1. GoodRange(l[j])
  BY DEF GoodList
<1>2. l[j].start \in Int /\ Hi(l[j]) \in Int /\ lock.start \in Int /\ Hi(lock) \in Int /\ b \in Int
  BY <1>1, HiBounds
<1>3. lock.start <= b /\ b <= Hi(lock)
  BY DEF In
<1>4. Hi(l[j]) < lock.start \/ Hi(lock) < l[j].start
  BY DEF Free
<1> QED
  BY <1>2, <1>3, <1>4

\* An unlocked range is free.
LEMMA ClearSets ==
    ASSUME NEW l, NEW m, GoodList(m), NEW lock, GoodRange(lock), lock.type = "U",
           Outside(l, m, lock), Free(m, lock)
    PROVE  Sets(l, m, lock)
<1> SUFFICES ASSUME NEW o, NEW ty \in {"R", "W"}, NEW b \in 0..OFF_MAX
             PROVE  Covers(m, o, b, ty) <=>
                      IF o = lock.id /\ In(b, lock) THEN ty = lock.type ELSE Covers(l, o, b, ty)
  BY DEF Sets
<1>1. CASE o = lock.id /\ In(b, lock)
  <2>1. ~Covers(m, o, b, ty)
    BY <1>1, FreeCovers
  <2> QED
    BY <1>1, <2>1
<1>2. CASE ~(o = lock.id /\ In(b, lock))
  BY <1>2 DEF Outside
<1> QED
  BY <1>1, <1>2

\* A lock that is linked adds its bytes.
LEMMA LinkCovers ==
    ASSUME NEW l, GoodTable(l), NEW lock, NEW k, Fits(l, k, lock), NEW m, m = InsertAt(l, k, lock),
           NEW o, NEW ty, NEW b
    PROVE  Covers(m, o, b, ty) <=> Covers(l, o, b, ty) \/ (o = lock.id /\ ty = lock.type /\ In(b, lock))
<1>1. /\ l \in Seq(LockSet) /\ lock \in LockSet /\ k \in 1..(Len(l) + 1) /\ Len(l) \in Nat
  BY DEF GoodTable, GoodList, Fits, GoodRange
<1>2. Inserted(m, l, k, lock)
  BY <1>1, InsertIs
<1>3. /\ Len(m) = Len(l) + 1 /\ m[k] = lock
      /\ \A x \in 1..(k - 1) : m[x] = l[x]
      /\ \A x \in k..Len(l) : m[x + 1] = l[x]
  BY <1>2 DEF Inserted
<1> DEFINE C(lf) == lf.id = o /\ lf.type = ty /\ In(b, lf)
<1>4. \A q : Covers(q, o, b, ty) <=> \E x \in 1..Len(q) : C(q[x])
  BY DEF Covers, In
<1>5. C(lock) <=> (o = lock.id /\ ty = lock.type /\ In(b, lock))
  OBVIOUS
<1> HIDE DEF C
<1>6. ASSUME NEW x \in 1..Len(m), C(m[x]) PROVE C(lock) \/ \E y \in 1..Len(l) : C(l[y])
  <2>1. CASE x < k
    <3>1. x \in 1..(k - 1) /\ x \in 1..Len(l)
      BY <1>1, <2>1
    <3> QED
      BY <1>3, <1>6, <3>1
  <2>2. CASE x = k
    BY <1>3, <1>6, <2>2
  <2>3. CASE x > k
    <3>1. x - 1 \in k..Len(l) /\ x - 1 \in 1..Len(l) /\ (x - 1) + 1 = x
      BY <1>1, <1>3, <2>3
    <3>2. m[(x - 1) + 1] = l[x - 1]
      BY <1>3, <3>1
    <3>3. C(l[x - 1])
      BY <1>6, <3>1, <3>2
    <3> QED
      BY <3>1, <3>3
  <2> QED
    BY <1>1, <2>1, <2>2, <2>3
<1>7. ASSUME NEW y \in 1..Len(l), C(l[y]) PROVE \E x \in 1..Len(m) : C(m[x])
  <2>1. CASE y < k
    <3>1. y \in 1..(k - 1) /\ y \in 1..Len(m)
      BY <1>1, <1>3, <2>1
    <3> QED
      BY <1>3, <1>7, <3>1
  <2>2. CASE y >= k
    <3>1. y \in k..Len(l) /\ y + 1 \in 1..Len(m)
      BY <1>1, <1>3, <2>2
    <3> QED
      BY <1>3, <1>7, <3>1
  <2> QED
    BY <1>1, <2>1, <2>2
<1>8. k \in 1..Len(m)
  BY <1>1, <1>3
<1> QED
  BY <1>3, <1>4, <1>5, <1>6, <1>7, <1>8

\* A lock that fits, linked and coalesced, is set.
LEMMA LinkSets ==
    ASSUME NEW l0, NEW l, GoodTable(l), NEW lock, NEW k, Fits(l, k, lock), Outside(l0, l, lock),
           NEW r, r = lf_coalesce_adjacent(InsertAt(l, k, lock), k)
    PROVE  GoodTable(r) /\ Sets(l0, r, lock)
<1> DEFINE m == InsertAt(l, k, lock)
<1>1. Prepared(m, k)
  BY LinkOrder
<1>2. \A o, ty, b : Covers(m, o, b, ty) <=> Covers(l, o, b, ty) \/ (o = lock.id /\ ty = lock.type /\ In(b, lock))
  BY LinkCovers
<1> HIDE DEF m
<1>3. PICK p, f, J : Joins(m, k, p, f, J) /\ lf_coalesce_adjacent(m, k) = Splice(m, p, f, <<J>>)
  BY <1>1, CoalesceShape
<1>4. r = Splice(m, p, f, <<J>>)
  BY <1>3 DEF m
<1>5. GoodTable(r)
  BY <1>1, <1>3, <1>4, CoalesceOrder
<1>6. \A o, ty : \A b \in 0..OFF_MAX : Covers(r, o, b, ty) <=> Covers(m, o, b, ty)
  BY <1>1, <1>3, <1>4, CoalesceCovers
<1>7. Free(l, lock) /\ GoodRange(lock) /\ GoodList(l)
  <2>1. k \in 1..(Len(l) + 1) /\ Len(l) \in Nat
    BY DEF Fits, GoodTable, GoodList
  <2>2. \A j \in 1..Len(l) : j \in 1..(k - 1) \/ j \in k..Len(l)
    BY <2>1
  <2> QED
    BY <2>2 DEF Free, Fits, GoodTable
<1>8. ASSUME NEW o, NEW ty \in {"R", "W"}, NEW b \in 0..OFF_MAX
      PROVE  Covers(r, o, b, ty) <=>
               IF o = lock.id /\ In(b, lock) THEN ty = lock.type ELSE Covers(l0, o, b, ty)
  <2>1. Covers(r, o, b, ty) <=> Covers(l, o, b, ty) \/ (o = lock.id /\ ty = lock.type /\ In(b, lock))
    BY <1>2, <1>6
  <2>2. CASE o = lock.id /\ In(b, lock)
    <3>1. ~Covers(l, o, b, ty)
      BY <1>7, <2>2, FreeCovers
    <3> QED
      BY <2>1, <2>2, <3>1
  <2>3. CASE ~(o = lock.id /\ In(b, lock))
    BY <2>1, <2>3 DEF Outside
  <2> QED
    BY <2>2, <2>3
<1> QED
  BY <1>5, <1>8 DEF Sets

\* A lock in the place of another, with its range.
LEMMA ReplaceIs ==
    ASSUME NEW l, GoodList(l), NEW i \in 1..Len(l), NEW x \in LockSet, NEW m, m = Splice(l, i, i, <<x>>)
    PROVE  /\ m \in Seq(LockSet) /\ Len(m) = Len(l) /\ Len(l) \in Nat /\ m[i] = x
           /\ \A y \in 1..Len(l) : y # i => m[y] = l[y]
<1>1. l \in Seq(LockSet) /\ Len(l) \in Nat /\ i \in 1..(Len(l) + 1) /\ i \in (i - 1)..Len(l)
  BY DEF GoodList
<1>2. <<x>> \in Seq(LockSet) /\ Len(<<x>>) = 1 /\ <<x>>[1] = x
  OBVIOUS
<1>3. m \in Seq(LockSet) /\ SpliceIs(m, l, i, i, <<x>>)
  BY <1>1, <1>2, SpliceProps
<1>4. Len(m) = Len(l)
  BY <1>1, <1>2, <1>3 DEF SpliceIs
<1>5. m[i] = x
  <2>1. 1 \in 1..Len(<<x>>) /\ i + 1 - 1 = i
    BY <1>1, <1>2
  <2>2. m[i + 1 - 1] = <<x>>[1]
    BY <1>3, <2>1 DEF SpliceIs
  <2> QED
    BY <1>2, <2>1, <2>2
<1>6. ASSUME NEW y \in 1..Len(l), y # i PROVE m[y] = l[y]
  <2>1. CASE y < i
    <3>1. y \in 1..(i - 1)
      BY <2>1
    <3> QED
      BY <1>3, <3>1 DEF SpliceIs
  <2>2. CASE y > i
    <3>1. y \in (i + 1)..Len(l) /\ y - (i - i + 1) + Len(<<x>>) = y
      BY <1>1, <1>2, <2>2
    <3>2. m[y - (i - i + 1) + Len(<<x>>)] = l[y]
      BY <1>3, <3>1 DEF SpliceIs
    <3> QED
      BY <3>1, <3>2
  <2> QED
    BY <1>6, <2>1, <2>2
<1> QED
  BY <1>1, <1>3, <1>4, <1>5, <1>6

\* A lock of the same range in the place of another keeps the order.
LEMMA ReplaceOrder ==
    ASSUME NEW l, GoodTable(l), NEW i \in 1..Len(l), NEW x, GoodRange(x), x.type # "U",
           x.id = l[i].id, x.start = l[i].start, x.end = l[i].end, NEW m, m = Splice(l, i, i, <<x>>)
    PROVE  Prepared(m, i)
<1>1. x \in LockSet /\ GoodList(l) /\ Hi(x) = Hi(l[i])
  BY DEF GoodRange, GoodTable, Hi
<1>2. /\ m \in Seq(LockSet) /\ Len(m) = Len(l) /\ Len(l) \in Nat /\ m[i] = x
      /\ \A y \in 1..Len(l) : y # i => m[y] = l[y]
  BY <1>1, ReplaceIs
<1>3. \A y \in 1..Len(l) : m[y].id = l[y].id /\ m[y].start = l[y].start /\ Hi(m[y]) = Hi(l[y])
                           /\ GoodRange(m[y]) /\ m[y].type # "U"
  BY <1>1, <1>2 DEF GoodList
<1>4. GoodList(m)
  BY <1>2, <1>3 DEF GoodList
<1>5. Increasing(m)
  BY <1>2, <1>3 DEF GoodTable, Increasing
<1>6. Contiguous(m)
  <2> SUFFICES ASSUME NEW a \in 1..Len(l), NEW b \in 1..Len(l), a < b, l[a].id = l[b].id, NEW c \in a..b
               PROVE  m[c].id = m[a].id
    BY <1>2, <1>3 DEF Contiguous
  <2>1. c \in 1..Len(l) /\ l[c].id = l[a].id
    BY <1>2 DEF GoodTable, Contiguous
  <2> QED
    BY <1>3, <2>1
<1>7. ApartBut(m, i)
  <2> SUFFICES ASSUME NEW a \in 1..Len(l), NEW b \in 1..Len(l), a < b, a # i, b # i,
                      l[a].id = l[b].id, l[a].type = l[b].type
               PROVE  Hi(l[a]) + 1 < l[b].start
    BY <1>2 DEF ApartBut
  <2> QED
    BY DEF GoodTable, Apart
<1> QED
  BY <1>2, <1>4, <1>5, <1>6, <1>7 DEF Prepared

\* A lock of ours that contains the request, and has or gets its type, sets it.
LEMMA ReplaceSets ==
    ASSUME NEW l, GoodTable(l), NEW i \in 1..Len(l), NEW x, GoodRange(x), x.type # "U",
           x.id = l[i].id, x.start = l[i].start, x.end = l[i].end,
           NEW lock, GoodRange(lock), l[i].id = lock.id, x.type = lock.type,
           l[i].start <= lock.start, Hi(lock) <= Hi(l[i]),
           l[i].type = lock.type \/ (l[i].start = lock.start /\ Hi(l[i]) = Hi(lock)),
           NEW r, r = lf_coalesce_adjacent(Splice(l, i, i, <<x>>), i)
    PROVE  GoodTable(r) /\ Sets(l, r, lock)
<1> DEFINE m == Splice(l, i, i, <<x>>)
<1>0. x \in LockSet /\ GoodList(l) /\ Hi(x) = Hi(l[i])
  BY DEF GoodRange, GoodTable, Hi
<1>1. Prepared(m, i)
  BY ReplaceOrder
<1>2. /\ m \in Seq(LockSet) /\ Len(m) = Len(l) /\ Len(l) \in Nat /\ m[i] = x
      /\ \A y \in 1..Len(l) : y # i => m[y] = l[y]
  BY <1>0, ReplaceIs
<1> HIDE DEF m
<1>3. PICK p, f, J : Joins(m, i, p, f, J) /\ lf_coalesce_adjacent(m, i) = Splice(m, p, f, <<J>>)
  BY <1>1, CoalesceShape
<1>4. r = Splice(m, p, f, <<J>>)
  BY <1>3 DEF m
<1>5. GoodTable(r)
  BY <1>1, <1>3, <1>4, CoalesceOrder
<1>6. \A o, ty : \A b \in 0..OFF_MAX : Covers(r, o, b, ty) <=> Covers(m, o, b, ty)
  BY <1>1, <1>3, <1>4, CoalesceCovers
<1>7. ASSUME NEW o, NEW ty \in {"R", "W"}, NEW b \in 0..OFF_MAX
      PROVE  Covers(r, o, b, ty) <=>
               IF o = lock.id /\ In(b, lock) THEN ty = lock.type ELSE Covers(l, o, b, ty)
  <2> DEFINE X == \E j \in 1..Len(l) : j # i /\ l[j].id = o /\ l[j].type = ty /\ In(b, l[j])
  <2>1. Covers(m, o, b, ty) <=> X \/ (x.id = o /\ x.type = ty /\ In(b, x))
    BY <1>2 DEF Covers, In
  <2>2. Covers(l, o, b, ty) <=> X \/ (l[i].id = o /\ l[i].type = ty /\ In(b, l[i]))
    BY DEF Covers, In
  <2>3. In(b, x) <=> In(b, l[i])
    BY <1>0 DEF In
  <2>i. /\ l[i].start \in Int /\ Hi(l[i]) \in Int /\ lock.start \in Int /\ Hi(lock) \in Int /\ b \in Int
    <3>1. GoodRange(l[i])
      BY DEF GoodTable, GoodList
    <3> QED
      BY <3>1, HiBounds
  <2>4. In(b, lock) => In(b, l[i])
    BY <2>i DEF In
  <2>5. CASE o = lock.id /\ In(b, lock)
    <3>1. ~X
      <4> SUFFICES ASSUME NEW j \in 1..Len(l), j # i, l[j].id = o, In(b, l[j]) PROVE FALSE
        OBVIOUS
      <4>1. GoodRange(l[j])
        BY DEF GoodTable, GoodList
      <4>2. l[j].start \in Int /\ Hi(l[j]) \in Int
        BY <4>1, HiBounds
      <4>3. j < i \/ i < j
        OBVIOUS
      <4>4. Hi(l[j]) < l[i].start \/ Hi(l[i]) < l[j].start
        BY <2>5, <4>3 DEF GoodTable, Increasing
      <4>5. In(b, l[i])
        BY <2>4, <2>5
      <4> QED
        BY <2>i, <4>2, <4>4, <4>5 DEF In
    <3>2. Covers(r, o, b, ty) <=> Covers(m, o, b, ty)
      BY <1>6
    <3> HIDE DEF X
    <3> QED
      BY <2>1, <2>3, <2>4, <2>5, <3>1, <3>2
  <2>6. CASE ~(o = lock.id /\ In(b, lock))
    <3>1. l[i].id = o /\ In(b, l[i]) => l[i].type = x.type
      <4> HAVE l[i].id = o /\ In(b, l[i])
      <4>1. ~In(b, lock)
        BY <2>6
      <4> QED
        BY <4>1 DEF In
    <3>2. Covers(r, o, b, ty) <=> Covers(m, o, b, ty)
      BY <1>6
    <3> HIDE DEF X
    <3>3. Covers(r, o, b, ty) <=> Covers(l, o, b, ty)
      BY <2>1, <2>2, <2>3, <3>1, <3>2
    <3> QED
      BY <2>6, <3>3
  <2> QED
    BY <2>5, <2>6
<1> QED
  BY <1>5, <1>7 DEF Sets
-----------------------------------------------------------------------------
WalkSet == [list : Seq(LockSet), from : Nat, lock : LockSet, at : Nat, woken : SUBSET Threads,
            left : [Threads -> Seq(Threads)], error : {"OK", "ENOLCK"}, done : BOOLEAN]

\* lf_wakelock does not touch the list.
LEMMA WakeProps ==
    ASSUME NEW w \in WalkSet, NEW lf \in LockSet, NEW all \in BOOLEAN,
           NEW x, x = lf_wakelock(w, lf, all)
    PROVE  /\ x \in WalkSet /\ x.list = w.list /\ x.from = w.from /\ x.lock = w.lock /\ x.at = w.at
           /\ x.error = w.error /\ x.done = w.done
<1>1. /\ w.list \in Seq(LockSet) /\ w.from \in Nat /\ w.lock \in LockSet /\ w.at \in Nat
      /\ w.woken \in SUBSET Threads /\ w.left \in [Threads -> Seq(Threads)]
      /\ w.error \in {"OK", "ENOLCK"} /\ w.done \in BOOLEAN /\ lf.blk \in Seq(Threads)
  BY DEF WalkSet, LockSet
<1>2. CASE ~all /\ lf.wake1 /\ lf.blk # <<>>
  <2> DEFINE h == Head(lf.blk)
             t == Tail(lf.blk)
  <2>1. h \in Threads /\ t \in Seq(Threads)
    BY <1>1, <1>2, HeadTailProperties
  <2>2. x = [w EXCEPT !.woken = @ \cup {h}, !.left[h] = t]
    BY <1>2 DEF lf_wakelock
  <2> HIDE DEF h, t
  <2>3. [w.left EXCEPT ![h] = t] \in [Threads -> Seq(Threads)]
    BY <1>1, <2>1
  <2>4. x = [w EXCEPT !.woken = w.woken \cup {h}, !.left = [w.left EXCEPT ![h] = t]]
    BY <2>2
  <2>5. w.woken \cup {h} \in SUBSET Threads
    BY <1>1, <2>1
  <2> QED
    BY <2>3, <2>4, <2>5 DEF WalkSet
<1>3. CASE ~(~all /\ lf.wake1 /\ lf.blk # <<>>)
  <2>1. x = [w EXCEPT !.woken = @ \cup ToSet(lf.blk)]
    BY <1>3 DEF lf_wakelock
  <2>2. ToSet(lf.blk) \subseteq Threads
    BY <1>1 DEF ToSet
  <2> DEFINE S == ToSet(lf.blk)
  <2> HIDE DEF S
  <2>3. w.woken \cup S \in SUBSET Threads
    BY <1>1, <2>2 DEF S
  <2>4. x = [w EXCEPT !.woken = w.woken \cup S]
    BY <2>1 DEF S
  <2> QED
    BY <2>3, <2>4 DEF WalkSet
<1> QED
  BY <1>2, <1>3

\* What a walk has done so far.
Going(l0, l, from, at, lock, n) ==
    /\ from \in 1..(Len(l) + 1)
    /\ Len(l) + 1 - from + n <= Len(l0)
    /\ \A j \in 1..(from - 1) : l[j].id = lock.id => Hi(l[j]) < lock.start
    /\ Outside(l0, l, lock)
    /\ \/ from = 1 /\ l = l0 /\ at = 0
       \/ /\ \A j \in from..Len(l) : l[j].id = lock.id => l[j].start > lock.start
          /\ IF lock.type = "U" THEN at = 0 ELSE at = from /\ Spot(l, from, lock.id)

Outcome(l0, l, lock, error) == IF error = "OK" THEN Sets(l0, l, lock) ELSE Unchanged(l0, l)

Geo(w, l0, n) ==
    /\ w \in WalkSet /\ GoodTable(w.list) /\ GoodRange(w.lock)
    /\ w.done => Outcome(l0, w.list, w.lock, w.error)
    /\ ~w.done => w.error = "OK" /\ Going(l0, w.list, w.from, w.at, w.lock, n)

SameLock(a, b) ==
    /\ a.id = b.id /\ a.kind = b.kind /\ a.start = b.start /\ a.end = b.end
    /\ a.type = b.type /\ a.wake1 = b.wake1

\* The walk starts well.
LEMMA GeoFirst ==
    ASSUME NEW l, GoodTable(l), NEW lock, GoodRange(lock)
    PROVE  Geo(Walk(l, lock), l, 0)
<1> DEFINE w == Walk(l, lock)
<1>1. l \in Seq(LockSet) /\ Len(l) \in Nat /\ lock \in LockSet
  BY DEF GoodTable, GoodList, GoodRange
<1>2. /\ w.list = l /\ w.from = 1 /\ w.lock = lock /\ w.at = 0 /\ w.error = "OK" /\ w.done = FALSE
  BY DEF Walk
<1>3. w \in WalkSet
  BY <1>1 DEF Walk, WalkSet
<1> HIDE DEF w
<1>4. Going(l, l, 1, 0, lock, 0)
  BY <1>1 DEF Going, Outside
<1>5. Going(l, w.list, w.from, w.at, w.lock, 0)
  BY <1>2, <1>4
<1>6. GoodTable(w.list) /\ GoodRange(w.lock)
  BY <1>2
<1>7. w.done => Outcome(l, w.list, w.lock, w.error)
  BY <1>2
<1>8. ~w.done => w.error = "OK" /\ Going(l, w.list, w.from, w.at, w.lock, 0)
  BY <1>2, <1>5
<1>9. Geo(w, l, 0)
  BY <1>3, <1>6, <1>7, <1>8 DEF Geo
<1> QED
  BY <1>9 DEF w

\* The queue of the lock does not matter for where the walk is.
LEMMA SameGoing ==
    ASSUME NEW lock, NEW lock2, lock2.id = lock.id, lock2.start = lock.start, lock2.end = lock.end,
           lock2.type = lock.type, NEW l0, NEW l, NEW from, NEW at, NEW n, Going(l0, l, from, at, lock, n)
    PROVE  Going(l0, l, from, at, lock2, n)
<1>1. Hi(lock2) = Hi(lock)
  BY DEF Hi
<1>2. \A b : In(b, lock2) <=> In(b, lock)
  BY <1>1 DEF In
<1>3. Outside(l0, l, lock2)
  BY <1>2 DEF Going, Outside
<1> QED
  BY <1>3 DEF Going

\* Two edits inside a range are one.
LEMMA OutsideTrans ==
    ASSUME NEW a, NEW b, NEW c, NEW lock, Outside(a, b, lock), Outside(b, c, lock)
    PROVE  Outside(a, c, lock)
  BY DEF Outside

\* The walk goes on: what it leaves of a lock lies before the range.
LEMMA GoesOn ==
    ASSUME NEW l0, NEW l, NEW from, NEW at, NEW lock, NEW n \in Nat, Going(l0, l, from, at, lock, n),
           GoodTable(l), GoodRange(lock), NEW i, NEW ovcase, Finds(l, from, lock, i, ovcase), ovcase # "NONE",
           NEW ps, Pieces(ps, l[i]), Remains(ps, l[i], lock),
           Len(ps) = 0 \/ (Len(ps) = 1 /\ Hi(ps[1]) < lock.start),
           NEW m, m = Splice(l, i, i, ps), Len(l0) \in Nat
    PROVE  /\ GoodTable(m)
           /\ \A at2 : at2 = (IF lock.type = "U" THEN 0 ELSE i + Len(ps))
                         => Going(l0, m, i + Len(ps), at2, lock, n + 1)
<1> DEFINE k == Len(ps)
<1>1. /\ i \in 1..Len(l) /\ l[i].id = lock.id /\ Overlaps(l[i], lock) /\ Len(l) \in Nat
      /\ from \in 1..(Len(l) + 1) /\ from <= i
  BY DEF Finds, Going, GoodTable, GoodList
<1>2. /\ m \in Seq(LockSet) /\ Len(m) = Len(l) - 1 + k /\ Len(m) \in Nat /\ k \in Nat
      /\ \A x \in 1..Len(m) :
           /\ x < i => m[x] = l[x]
           /\ x >= i /\ x < i + k => m[x] = ps[x - i + 1] /\ x - i + 1 \in 1..k
           /\ x >= i + k => m[x] = l[x - k + 1]
  <2>1. GoodList(l)
    BY DEF GoodTable
  <2>2. i \in 1..Len(l)
    BY <1>1
  <2> QED
    BY <2>1, <2>2, TrimFrom, SMTT(30)
<1>3. GoodTable(m)
  BY <1>1, TrimOrder
<1>4. Outside(l0, m, lock)
  <2>1. Outside(l, m, lock)
    BY <1>1, TrimOutside
  <2> QED
    BY <2>1, OutsideTrans DEF Going
<1>5. GoodRange(l[i]) /\ \A j \in 1..Len(l) : GoodRange(l[j])
  BY <1>1 DEF GoodTable, GoodList
<1>6. lock.start <= Hi(l[i])
  BY <1>1, <1>5, OverlapsHi
<1>7. k \in {0, 1} /\ (k = 1 => m[i] = ps[1] /\ Hi(m[i]) < lock.start /\ m[i].id = lock.id)
  <2>1. k = 0 \/ (k = 1 /\ Hi(ps[1]) < lock.start)
    OBVIOUS
  <2>2. CASE k = 1
    <3>1. i \in 1..Len(m) /\ i >= i /\ i < i + k /\ i - i + 1 = 1 /\ 1 \in 1..k
      BY <1>1, <1>2, <2>2
    <3>2. m[i] = ps[1]
      BY <1>2, <3>1
    <3>3. ps[1].id = lock.id
      BY <1>1, <3>1 DEF Pieces, Piece
    <3> QED
      BY <2>1, <2>2, <3>2, <3>3
  <2> QED
    BY <2>1, <2>2
<1> HIDE DEF k
<1>8. i + k \in 1..(Len(m) + 1) /\ Len(m) + 1 - (i + k) + (n + 1) <= Len(l0)
  <2>1. Len(l) + 1 - from + n <= Len(l0)
    BY DEF Going
  <2> QED
    BY <1>1, <1>2, <1>7, <2>1
<1>9. ASSUME NEW j \in 1..(i - 1), l[j].id = lock.id PROVE Hi(l[j]) < lock.start
  <2>1. j \in 1..(from - 1) \/ j \in from..(i - 1)
    BY <1>1
  <2> QED
    BY <1>9, <2>1 DEF Going, Finds
<1>10. ASSUME NEW j \in 1..((i + k) - 1), m[j].id = lock.id PROVE Hi(m[j]) < lock.start
  <2>1. CASE j < i
    <3>1. j \in 1..(i - 1) /\ j \in 1..Len(m) /\ m[j] = l[j]
      BY <1>1, <1>2, <2>1
    <3> QED
      BY <1>9, <1>10, <3>1
  <2>2. CASE j >= i
    <3>1. k = 1 /\ j = i
      BY <1>1, <1>7, <2>2
    <3> QED
      BY <1>7, <3>1
  <2> QED
    BY <1>1, <2>1, <2>2
<1>11. ASSUME NEW j \in (i + k)..Len(m)
       PROVE  j - k + 1 \in (i + 1)..Len(l) /\ m[j] = l[j - k + 1]
  <2>1. j \in 1..Len(m) /\ j >= i + k
    BY <1>1, <1>2
  <2> QED
    BY <1>1, <1>2, <2>1
<1>12. ASSUME NEW j \in (i + k)..Len(m), m[j].id = lock.id PROVE m[j].start > lock.start
  <2> DEFINE y == j - k + 1
  <2>1. y \in (i + 1)..Len(l) /\ m[j] = l[y]
    BY <1>11
  <2> HIDE DEF y
  <2>2. y \in 1..Len(l) /\ i < y
    BY <1>1, <2>1
  <2>3. Hi(l[i]) < l[y].start
    BY <1>1, <1>12, <2>1, <2>2 DEF GoodTable, Increasing
  <2>4. l[y].start \in Int /\ Hi(l[i]) \in Int /\ lock.start \in Int
    BY <1>5, <2>2, HiBounds
  <2> QED
    BY <1>6, <2>1, <2>3, <2>4
<1>13. Spot(m, i + k, lock.id)
  <2>h. \A a, b \in 1..Len(l) : a < b /\ l[a].id = l[b].id => \A c \in a..b : l[c].id = l[a].id
    BY DEF GoodTable, Contiguous
  <2>1. ASSUME NEW j \in 1..((i + k) - 1), m[j].id = lock.id PROVE m[(i + k) - 1].id = lock.id
    <3>1. CASE k = 1
      BY <1>1, <1>7, <3>1
    <3>2. CASE k = 0
      <4>1. j \in 1..(i - 1) /\ j \in 1..Len(m) /\ i - 1 \in 1..Len(m) /\ i - 1 \in j..i /\ j < i /\ j \in 1..Len(l) /\ i - 1 < i
            /\ (i + k) - 1 = i - 1
        BY <1>1, <1>2, <3>2
      <4>2. m[j] = l[j] /\ m[i - 1] = l[i - 1]
        BY <1>2, <4>1
      <4>3. l[j].id = l[i].id
        BY <1>1, <2>1, <4>2
      <4>4. l[i - 1].id = l[j].id
        BY <1>1, <2>h, <4>1, <4>3
      <4> QED
        BY <1>1, <4>1, <4>2, <4>3, <4>4
    <3> QED
      BY <1>7, <3>1, <3>2
  <2>2. ASSUME NEW j \in (i + k)..Len(m), m[j].id = lock.id PROVE m[i + k].id = lock.id
    <3> DEFINE y == j - k + 1
    <3>1. y \in (i + 1)..Len(l) /\ m[j] = l[y]
      BY <1>11
    <3>2. i + k \in (i + k)..Len(m) /\ (i + k) - k + 1 = i + 1
      BY <1>1, <1>2, <1>7
    <3>3. m[i + k] = l[i + 1]
      BY <1>11, <3>2
    <3> HIDE DEF y
    <3>4. y \in 1..Len(l) /\ i < y /\ i + 1 \in i..y /\ l[y].id = l[i].id
      BY <1>1, <2>2, <3>1
    <3>5. l[i + 1].id = l[i].id
      BY <1>1, <2>h, <3>4
    <3> QED
      BY <1>1, <3>3, <3>5
  <2>3. ASSUME (i + k) - 1 \in 1..Len(m), i + k \in 1..Len(m), m[(i + k) - 1].id = m[i + k].id
        PROVE  m[i + k].id = lock.id
    <3>1. CASE k = 1
      BY <1>1, <1>7, <2>3, <3>1
    <3>2. CASE k = 0
      <4>1. i - 1 \in 1..Len(m) /\ i \in (i + k)..Len(m) /\ i - k + 1 = i + 1 /\ i + k = i
        BY <1>1, <1>2, <2>3, <3>2
      <4>2. m[i] = l[i + 1] /\ m[i - 1] = l[i - 1] /\ i - 1 \in 1..Len(l) /\ i + 1 \in 1..Len(l)
        <5>1. m[i] = l[i - k + 1] /\ i - k + 1 \in (i + 1)..Len(l)
          BY <1>11, <4>1
        <5>2. m[i - 1] = l[i - 1]
          BY <1>1, <1>2, <4>1
        <5> QED
          BY <1>1, <4>1, <5>1, <5>2
      <4>3. l[i - 1].id = l[i + 1].id /\ i - 1 < i + 1 /\ i \in (i - 1)..(i + 1)
        BY <1>1, <2>3, <3>2, <4>1, <4>2
      <4>4. l[i].id = l[i - 1].id
        BY <2>h, <4>2, <4>3
      <4> QED
        BY <1>1, <4>1, <4>2, <4>3, <4>4
    <3> QED
      BY <1>7, <3>1, <3>2
  <2> QED
    BY <2>1, <2>2, <2>3 DEF Spot
<1>14. ASSUME NEW at2, at2 = (IF lock.type = "U" THEN 0 ELSE i + k)
       PROVE  Going(l0, m, i + k, at2, lock, n + 1)
  BY <1>4, <1>8, <1>10, <1>12, <1>13, <1>14 DEF Going
<1> QED
  BY <1>3, <1>14 DEF k
-----------------------------------------------------------------------------
\* Next to the pieces of a lock is a place for the locks of its owner.
LEMMA TrimSpot ==
    ASSUME NEW l, GoodTable(l), NEW i \in 1..Len(l), NEW ps, Pieces(ps, l[i]),
           NEW m, m = Splice(l, i, i, ps), NEW k \in i..(i + Len(ps))
    PROVE  Spot(m, k, l[i].id)
<1> DEFINE n == Len(ps)
           o == l[i].id
<1>1. GoodList(l) /\ Len(l) \in Nat
  BY DEF GoodTable, GoodList
<1>2. /\ m \in Seq(LockSet) /\ Len(m) = Len(l) - 1 + n /\ Len(m) \in Nat /\ n \in Nat
      /\ \A x \in 1..Len(m) :
           /\ x < i => m[x] = l[x]
           /\ x >= i /\ x < i + n => m[x] = ps[x - i + 1] /\ x - i + 1 \in 1..n
           /\ x >= i + n => m[x] = l[x - n + 1]
  BY <1>1, TrimFrom
<1>3. \A x \in 1..Len(m) : x >= i /\ x < i + n => m[x].id = o
  BY <1>2, ZenonT(60) DEF Pieces, Piece
<1>4. \A a, b \in 1..Len(l) : a < b /\ l[a].id = l[b].id => \A c \in a..b : l[c].id = l[a].id
  BY DEF GoodTable, Contiguous
<1>5. k \in Int /\ i <= k /\ k <= i + n /\ n \in Nat
  BY <1>2
<1> HIDE DEF n
<1>6. ASSUME NEW x \in 1..(k - 1), m[x].id = o PROVE m[k - 1].id = o
  <2>1. CASE k > i
    <3>1. k - 1 \in 1..Len(m) /\ k - 1 >= i /\ k - 1 < i + n
      BY <1>1, <1>2, <1>5, <2>1
    <3> QED
      BY <1>3, <3>1
  <2>2. CASE k = i
    <3>1. x \in 1..Len(m) /\ x < i /\ i - 1 \in 1..Len(m) /\ i - 1 < i /\ x \in 1..Len(l) /\ i - 1 \in x..i
      BY <1>1, <1>2, <1>5, <2>2
    <3>2. m[x] = l[x] /\ m[i - 1] = l[i - 1]
      BY <1>2, <3>1
    <3>3. l[i - 1].id = l[x].id
      BY <1>4, <1>6, <3>1, <3>2
    <3> QED
      BY <1>6, <2>2, <3>2, <3>3
  <2> QED
    BY <1>5, <2>1, <2>2
<1>7. ASSUME NEW x \in k..Len(m), m[x].id = o PROVE m[k].id = o
  <2>1. CASE k < i + n
    <3>1. k \in 1..Len(m) /\ k >= i
      BY <1>1, <1>2, <1>5
    <3> QED
      BY <1>3, <2>1, <3>1
  <2>2. CASE k = i + n
    <3>1. /\ x \in 1..Len(m) /\ x >= i + n /\ k \in 1..Len(m) /\ k >= i + n /\ k - n + 1 = i + 1
          /\ x - n + 1 \in 1..Len(l) /\ i < x - n + 1 /\ i + 1 \in i..(x - n + 1)
      BY <1>1, <1>2, <1>5, <2>2
    <3>2. m[x] = l[x - n + 1] /\ m[k] = l[k - n + 1]
      BY <1>2, <3>1
    <3>3. l[i + 1].id = o
      BY <1>4, <1>7, <3>1, <3>2
    <3> QED
      BY <3>1, <3>2, <3>3
  <2> QED
    BY <1>5, <2>1, <2>2
<1>8. ASSUME k - 1 \in 1..Len(m), k \in 1..Len(m), m[k - 1].id = m[k].id PROVE m[k].id = o
  <2>1. CASE k < i + n
    BY <1>3, <1>5, <1>8, <2>1
  <2>2. CASE k > i
    <3>1. k - 1 >= i /\ k - 1 < i + n
      BY <1>5, <2>2
    <3> QED
      BY <1>3, <1>8, <3>1
  <2>3. CASE ~(k < i + n) /\ ~(k > i)
    <3>1. n = 0 /\ k = i
      BY <1>5, <2>3
    <3>2. /\ i - 1 \in 1..Len(m) /\ i - 1 < i /\ i \in 1..Len(m) /\ i >= i + n /\ i - n + 1 = i + 1
          /\ i - 1 \in 1..Len(l) /\ i + 1 \in 1..Len(l) /\ i - 1 < i + 1 /\ i \in (i - 1)..(i + 1)
      BY <1>1, <1>2, <1>8, <3>1
    <3>3. m[i - 1] = l[i - 1] /\ m[i] = l[i - n + 1]
      BY <1>2, <3>2
    <3>4. l[i - 1].id = l[i + 1].id
      BY <1>8, <3>1, <3>2, <3>3
    <3>5. l[i].id = l[i - 1].id
      BY <1>4, <3>2, <3>4
    <3> QED
      BY <3>1, <3>2, <3>3, <3>4, <3>5
  <2> QED
    BY <2>1, <2>2, <2>3
<1> QED
  BY <1>6, <1>7, <1>8 DEF Spot

\* A request fits between the pieces that it leaves of a lock that reaches at
\* least to its end.
LEMMA TrimFits ==
    ASSUME NEW l, GoodTable(l), NEW i \in 1..Len(l), NEW ps, Pieces(ps, l[i]),
           NEW m, m = Splice(l, i, i, ps), NEW k \in i..(i + Len(ps)),
           NEW lock, GoodRange(lock), lock.type # "U", l[i].id = lock.id, Hi(lock) <= Hi(l[i]),
           \A j \in 1..(i - 1) : l[j].id = lock.id => Hi(l[j]) < lock.start,
           \A a \in 1..Len(ps) : /\ a <= k - i => Hi(ps[a]) < lock.start
                                 /\ a > k - i => Hi(lock) < ps[a].start
    PROVE  Fits(m, k, lock)
<1> DEFINE n == Len(ps)
<1>1. GoodList(l) /\ Len(l) \in Nat
  BY DEF GoodTable, GoodList
<1>2. /\ m \in Seq(LockSet) /\ Len(m) = Len(l) - 1 + n /\ Len(m) \in Nat /\ n \in Nat
      /\ \A x \in 1..Len(m) :
           /\ x < i => m[x] = l[x]
           /\ x >= i /\ x < i + n => m[x] = ps[x - i + 1] /\ x - i + 1 \in 1..n
           /\ x >= i + n => m[x] = l[x - n + 1]
  BY <1>1, TrimFrom, SMTT(90)
<1>3. Spot(m, k, lock.id)
  BY TrimSpot
<1>4. k \in Int /\ i <= k /\ k <= i + n /\ n \in Nat
  BY <1>2
<1>5. \A a \in 1..n : /\ a <= k - i => Hi(ps[a]) < lock.start
                      /\ a > k - i => Hi(lock) < ps[a].start
  OBVIOUS
<1> HIDE DEF n
<1>6. ASSUME NEW x \in 1..(k - 1), m[x].id = lock.id PROVE Hi(m[x]) < lock.start
  <2>1. CASE x < i
    <3>1. x \in 1..Len(m) /\ x \in 1..(i - 1)
      BY <1>1, <1>2, <1>4, <2>1
    <3> QED
      BY <1>2, <1>6, <2>1, <3>1
  <2>2. CASE x >= i
    <3>1. x \in 1..Len(m) /\ x < i + n /\ x - i + 1 <= k - i
      BY <1>1, <1>2, <1>4, <2>2
    <3> QED
      BY <1>2, <1>5, <2>2, <3>1
  <2> QED
    BY <2>1, <2>2
<1>7. ASSUME NEW x \in k..Len(m), m[x].id = lock.id PROVE Hi(lock) < m[x].start
  <2>1. x \in 1..Len(m) /\ x >= i
    BY <1>4
  <2>2. CASE x < i + n
    <3>1. x - i + 1 > k - i
      BY <1>4
    <3> QED
      BY <1>2, <1>5, <2>1, <2>2, <3>1
  <2>3. CASE x >= i + n
    <3> DEFINE y == x - n + 1
    <3>1. y \in 1..Len(l) /\ i < y /\ m[x] = l[y]
      BY <1>1, <1>2, <1>4, <2>1, <2>3
    <3> HIDE DEF y
    <3>2. Hi(l[i]) < l[y].start
      BY <1>7, <3>1 DEF GoodTable, Increasing
    <3>3. GoodRange(l[i]) /\ GoodRange(l[y])
      BY <1>1, <3>1 DEF GoodList
    <3>4. Hi(l[i]) \in Int /\ Hi(lock) \in Int /\ l[y].start \in Int
      BY <3>3, HiBounds
    <3> QED
      BY <3>1, <3>2, <3>4
  <2> QED
    BY <1>4, <2>1, <2>2, <2>3
<1>8. k \in 1..(Len(m) + 1)
  BY <1>1, <1>2, <1>4
<1> QED
  BY <1>3, <1>6, <1>7, <1>8 DEF Fits

\* Where the walk links the lock.
Place(at, i) == IF at = 0 THEN i ELSE at

\* A lock that is found overlapping is next to where the walk stands, once it
\* has met one.
LEMMA PlaceIs ==
    ASSUME NEW l0, NEW l, GoodTable(l), NEW from, NEW at, NEW lock, GoodRange(lock), lock.type # "U", NEW n,
           Going(l0, l, from, at, lock, n), NEW i, NEW ovcase, Finds(l, from, lock, i, ovcase), ovcase # "NONE"
    PROVE  /\ Place(at, i) = i
           /\ l[i].start <= lock.start => l = l0
<1>1. from \in 1..(Len(l) + 1) /\ Len(l) \in Nat /\ i \in from..Len(l) /\ l[i].id = lock.id
  <2>1. Len(l) \in Nat
    BY DEF GoodTable, GoodList
  <2> QED
    BY <2>1 DEF Finds, Going
<1>2. CASE from = 1 /\ l = l0 /\ at = 0
  BY <1>2 DEF Place
<1>3. CASE /\ \A j \in from..Len(l) : l[j].id = lock.id => l[j].start > lock.start
           /\ at = from /\ Spot(l, from, lock.id)
  <2>1. l[from].id = lock.id
    BY <1>1, <1>3 DEF Spot
  <2>2. from \in from..Len(l) /\ from \in 1..Len(l)
    BY <1>1
  <2>3. l[from].start > lock.start /\ l[i].start > lock.start
    BY <1>1, <1>3, <2>1, <2>2
  <2>4. GoodRange(l[from]) /\ GoodRange(l[i])
    BY <1>1, <2>2 DEF GoodTable, GoodList
  <2>5. /\ l[from].start \in Int /\ lock.start \in Int /\ Hi(l[from]) \in Int /\ l[from].start <= Hi(l[from])
        /\ l[i].start \in Int
    BY <2>4, HiBounds
  <2>6. ~(from \in from..(i - 1))
    <3> SUFFICES ASSUME from \in from..(i - 1) PROVE FALSE
      OBVIOUS
    <3>1. Hi(l[from]) < lock.start
      BY <2>1 DEF Finds
    <3> QED
      BY <2>3, <2>5, <3>1
  <2>7. from = i
    BY <1>1, <2>6
  <2> QED
    BY <1>1, <1>3, <2>3, <2>5, <2>7 DEF Place
<1> QED
  BY <1>2, <1>3 DEF Going

\* When no more is found, the lock fits where the walk links it.
LEMMA NoneFits ==
    ASSUME NEW l0, NEW l, GoodTable(l), NEW from, NEW at, NEW lock, GoodRange(lock), lock.type # "U", NEW n,
           Going(l0, l, from, at, lock, n), NEW i, Finds(l, from, lock, i, "NONE")
    PROVE  Fits(l, Place(at, i), lock)
<1>1. from \in 1..(Len(l) + 1) /\ Len(l) \in Nat /\ i \in from..(Len(l) + 1)
  <2>1. Len(l) \in Nat
    BY DEF GoodTable, GoodList
  <2> QED
    BY <2>1 DEF Finds, Going
<1>2. \A j \in i..Len(l) : l[j].id = lock.id => Hi(lock) < l[j].start
  BY DEF Finds
<1>3. CASE from = 1 /\ l = l0 /\ at = 0
  <2>1. i \in 1..(Len(l) + 1)
    BY <1>1
  <2>2. \A j \in 1..(i - 1) : l[j].id = lock.id => Hi(l[j]) < lock.start
    BY <1>3 DEF Finds
  <2>3. Spot(l, i, lock.id)
    <3>1. (\E j \in 1..(i - 1) : l[j].id = lock.id) => l[i - 1].id = lock.id
      BY <1>3 DEF Finds
    <3>2. (\E j \in i..Len(l) : l[j].id = lock.id) => l[i].id = lock.id
      BY DEF Finds
    <3>3. i \in 1..Len(l) /\ l[i].id # lock.id => l[i - 1].id = lock.id
      BY <1>1 DEF Finds
    <3> QED
      BY <3>1, <3>2, <3>3 DEF Spot
  <2> QED
    BY <1>2, <1>3, <2>1, <2>2, <2>3 DEF Fits, Place
<1>4. CASE /\ \A j \in from..Len(l) : l[j].id = lock.id => l[j].start > lock.start
           /\ at = from /\ Spot(l, from, lock.id)
  <2>1. Place(at, i) = from
    BY <1>1, <1>4 DEF Place
  <2>2. ASSUME NEW j \in from..Len(l), l[j].id = lock.id PROVE Hi(lock) < l[j].start
    <3>1. CASE j \in i..Len(l)
      BY <1>2, <2>2, <3>1
    <3>2. CASE j \in from..(i - 1)
      <4>1. Hi(l[j]) < lock.start
        BY <2>2, <3>2 DEF Finds
      <4>2. l[j].start > lock.start
        BY <1>4, <2>2
      <4>3. GoodRange(l[j])
        BY <1>1 DEF GoodTable, GoodList
      <4>4. l[j].start \in Int /\ lock.start \in Int /\ Hi(l[j]) \in Int /\ l[j].start <= Hi(l[j])
        BY <4>3, HiBounds
      <4> QED
        BY <4>1, <4>2, <4>4
    <3> QED
      BY <1>1, <3>1, <3>2
  <2>3. \A j \in 1..(from - 1) : l[j].id = lock.id => Hi(l[j]) < lock.start
    BY DEF Going
  <2> QED
    BY <1>1, <1>4, <2>1, <2>2, <2>3 DEF Fits
<1> QED
  BY <1>3, <1>4 DEF Going
-----------------------------------------------------------------------------
\* The shapes of an iteration that unlocks: there is no more to do; what the
\* range leaves of a lock takes its place, for the last time or not; there is no
\* memory to split the lock, and the ones that wait for it are woken up anyway.
TrimsLast(w, r, i, ps) ==
    /\ Pieces(ps, w.list[i]) /\ Remains(ps, w.list[i], w.lock) /\ Hi(w.lock) <= Hi(w.list[i])
    /\ r = [lf_wakelock(w, w.list[i], FALSE) EXCEPT !.list = Splice(w.list, i, i, ps), !.done = TRUE]
TrimsOn(w, r, i, ps) ==
    /\ Pieces(ps, w.list[i]) /\ Remains(ps, w.list[i], w.lock)
    /\ Len(ps) = 0 \/ (Len(ps) = 1 /\ Hi(ps[1]) < w.lock.start)
    /\ r = [lf_wakelock(w, w.list[i], FALSE) EXCEPT !.list = Splice(w.list, i, i, ps), !.from = i + Len(ps)]
TrimsNot(w, r, i) ==
    /\ w.list[i].start < w.lock.start
    /\ r = [lf_wakelock(w, w.list[i], FALSE) EXCEPT
              !.list = Splice(w.list, i, i, << Emptied(w.list[i]) >>), !.done = TRUE, !.error = "ENOLCK"]
ClearShape(w, r, i) ==
    \/ TrimsNot(w, r, i)
    \/ \E ps : TrimsLast(w, r, i, ps) \/ TrimsOn(w, r, i, ps)

\* An iteration of lf_clearlock cuts one lock, or ends.
LEMMA ClearStepIs ==
    ASSUME NEW w \in WalkSet, GoodTable(w.list), GoodRange(w.lock), NEW mem, NEW r, r = ClearStep(w, mem),
           NEW i, NEW ovcase, i = lf_findoverlap(w.list, w.from, w.lock).at,
           ovcase = lf_findoverlap(w.list, w.from, w.lock).ovcase,
           Finds(w.list, w.from, w.lock, i, ovcase), w.from \in 1..(Len(w.list) + 1)
    PROVE  /\ ovcase = "NONE" => r = [w EXCEPT !.done = TRUE]
           /\ ovcase # "NONE" => ClearShape(w, r, i)
<1> DEFINE lf == w.list[i]
           lock == w.lock
           x == lf_wakelock(w, lf, FALSE)
           Left(ps) == Splice(w.list, i, i, ps)
<1>1. CASE ovcase = "NONE"
  BY <1>1 DEF ClearStep
<1>2. CASE ovcase # "NONE"
  <2>1. i \in 1..Len(w.list) /\ Overlaps(lf, lock) /\ ovcase = Overlap(lf, lock) /\ GoodRange(lf) /\ lf \in LockSet
    <3>1. i \in 1..Len(w.list) /\ Overlaps(lf, lock) /\ ovcase = Overlap(lf, lock)
      <4>1. Len(w.list) \in Nat
        BY DEF GoodTable, GoodList
      <4> QED
        BY <1>2, <4>1 DEF Finds
    <3> QED
      BY <3>1 DEF GoodTable, GoodList, GoodRange
  <2>2. OverlapCase(lf, lock)
    BY <2>1, OverlapCases
  <2>3. lf.start <= Hi(lock) /\ lock.start <= Hi(lf)
    BY <2>1, OverlapsHi
  <2>4. x.list = w.list
    BY <2>1, WakeProps, ZenonT(60)
  <2>5. /\ lf.start \in Int /\ Hi(lf) \in Int /\ lock.start \in Int /\ Hi(lock) \in Int /\ lf.end \in Int /\ lock.end \in Int
    <3>1. \A a : GoodRange(a) => a.start \in Int /\ Hi(a) \in Int /\ a.end \in Int
      BY HiBounds
    <3> QED
      BY <2>1, <3>1
  <2>6. CASE ovcase = "EQUALS_LOCK"
    <3>1. r = [[x EXCEPT !.list = Splice(@, i, i, <<>>)] EXCEPT !.done = TRUE]
      BY <2>6 DEF ClearStep
    <3>2. r = [x EXCEPT !.list = Left(<<>>), !.done = TRUE]
      BY <2>4, <3>1
    <3>3. lock.start = lf.start /\ Hi(lf) = Hi(lock)
      BY <2>1, <2>2, <2>6 DEF OverlapCase
    <3>4. Pieces(<<>>, lf) /\ Remains(<<>>, lf, lock)
      BY <2>1, <2>5, <3>3, NoPieces
    <3>5. Hi(lock) <= Hi(lf)
      BY <2>5, <3>3
    <3>6. TrimsLast(w, r, i, <<>>)
      BY <3>2, <3>4, <3>5 DEF TrimsLast
    <3> QED
      BY <1>2, <3>6 DEF ClearShape
  <2>7. CASE ovcase = "CONTAINS_LOCK"
    <3>c. lf.start <= lock.start /\ Hi(lf) >= Hi(lock) /\ lock.end # -1 /\ (lf.start < lock.start \/ Hi(lf) > Hi(lock))
      BY <2>1, <2>2, <2>7 DEF OverlapCase
    <3>1. CASE lf.start = lock.start
      <4>1. r = [[x EXCEPT !.list = Splice(@, i, i, << Behind(lf, lock) >>)] EXCEPT !.done = TRUE]
        BY <2>7, <3>1, SMTT(30) DEF ClearStep
      <4>2. r = [x EXCEPT !.list = Left(<< Behind(lf, lock) >>), !.done = TRUE]
        BY <2>4, <4>1
      <4>3. Hi(lock) < Hi(lf) /\ lock.start <= lf.start /\ Hi(lock) <= Hi(lf)
        BY <2>5, <3>c, <3>1
      <4>4. Pieces(<< Behind(lf, lock) >>, lf) /\ Remains(<< Behind(lf, lock) >>, lf, lock)
        BY <2>1, <2>3, <4>3, PieceBehind
      <4>5. TrimsLast(w, r, i, << Behind(lf, lock) >>)
        BY <4>2, <4>3, <4>4 DEF TrimsLast
      <4> QED
        BY <1>2, <4>5 DEF ClearShape
    <3>2. CASE lf.start # lock.start /\ SplitFails(lf, lock, mem)
      <4>1. r = [[[x EXCEPT !.list = Splice(@, i, i, << Emptied(lf) >>)] EXCEPT !.done = TRUE] EXCEPT !.error = "ENOLCK"]
        BY <2>7, <3>2, SMTT(30) DEF ClearStep
      <4>2. r = [x EXCEPT !.list = Left(<< Emptied(lf) >>), !.done = TRUE, !.error = "ENOLCK"]
        BY <2>4, <4>1
      <4>3. lf.start < lock.start
        BY <2>5, <3>c, <3>2
      <4>4. TrimsNot(w, r, i)
        BY <4>2, <4>3 DEF TrimsNot
      <4> QED
        BY <1>2, <4>4 DEF ClearShape
    <3>3. CASE lf.start # lock.start /\ ~SplitFails(lf, lock, mem)
      <4>1. r = [[x EXCEPT !.list = Splice(@, i, i, lf_split(lf, lock))] EXCEPT !.done = TRUE]
        BY <2>7, <3>3, SMTT(30) DEF ClearStep
      <4>2. r = [x EXCEPT !.list = Left(lf_split(lf, lock)), !.done = TRUE]
        BY <2>4, <4>1
      <4>3. lf.start < lock.start /\ Hi(lock) <= Hi(lf)
        BY <2>5, <3>c, <3>3
      <4>4. Pieces(lf_split(lf, lock), lf) /\ Remains(lf_split(lf, lock), lf, lock)
        BY <2>1, <4>3, PiecesSplit
      <4>5. TrimsLast(w, r, i, lf_split(lf, lock))
        BY <4>2, <4>3, <4>4 DEF TrimsLast
      <4> QED
        BY <1>2, <4>5 DEF ClearShape
    <3> QED
      BY <3>1, <3>2, <3>3
  <2>8. CASE ovcase = "CONTAINED_BY_LOCK"
    <3>1. r = [[x EXCEPT !.list = Splice(@, i, i, <<>>)] EXCEPT !.from = i]
      BY <2>8 DEF ClearStep
    <3>2. Len(<<>>) = 0 /\ i + Len(<<>>) = i
      BY <2>1, SMTT(30)
    <3>3. r = [x EXCEPT !.list = Left(<<>>), !.from = i + Len(<<>>)]
      BY <2>4, <3>1, <3>2
    <3>4. lock.start <= lf.start /\ Hi(lf) <= Hi(lock) /\ ~(lf.start = lock.start /\ lf.end = lock.end)
      BY <2>1, <2>2, <2>8 DEF OverlapCase
    <3>5. Pieces(<<>>, lf) /\ Remains(<<>>, lf, lock)
      BY <2>1, <3>4, NoPieces
    <3>6. TrimsOn(w, r, i, <<>>)
      BY <3>2, <3>3, <3>5 DEF TrimsOn
    <3> QED
      BY <1>2, <3>6 DEF ClearShape
  <2>9. CASE ovcase = "STARTS_BEFORE_LOCK"
    <3> DEFINE p == Before(lf, lock)
    <3>1. r = [[x EXCEPT !.list = Splice(@, i, i, << p >>)] EXCEPT !.from = i + 1]
      BY <2>9 DEF ClearStep
    <3> HIDE DEF p
    <3>2. Len(<< p >>) = 1 /\ << p >>[1] = p
      OBVIOUS
    <3>3. r = [x EXCEPT !.list = Left(<< p >>), !.from = i + Len(<< p >>)]
      BY <2>4, <3>1, <3>2
    <3>4. lf.start < lock.start /\ Hi(lf) <= Hi(lock)
      BY <2>1, <2>2, <2>9 DEF OverlapCase
    <3>5. Pieces(<< p >>, lf) /\ Remains(<< p >>, lf, lock)
      BY <2>1, <2>3, <3>4, PieceBefore DEF p
    <3>6. Hi(p) = lock.start - 1
      BY <2>1, <2>3, <3>4, BeforeProps DEF p
    <3>7. Hi(<< p >>[1]) < lock.start
      BY <2>5, <3>2, <3>6
    <3>8. TrimsOn(w, r, i, << p >>)
      BY <3>2, <3>3, <3>5, <3>7 DEF TrimsOn
    <3> QED
      BY <1>2, <3>8 DEF ClearShape
  <2>10. CASE ovcase = "ENDS_AFTER_LOCK"
    <3>1. r = [[x EXCEPT !.list = Splice(@, i, i, << Behind(lf, lock) >>)] EXCEPT !.done = TRUE]
      BY <2>10 DEF ClearStep
    <3>2. r = [x EXCEPT !.list = Left(<< Behind(lf, lock) >>), !.done = TRUE]
      BY <2>4, <3>1
    <3>3. lock.start <= lf.start /\ Hi(lf) > Hi(lock)
      BY <2>1, <2>2, <2>10 DEF OverlapCase
    <3>4. Hi(lock) < Hi(lf) /\ Hi(lock) <= Hi(lf)
      BY <2>5, <3>3
    <3>5. Pieces(<< Behind(lf, lock) >>, lf) /\ Remains(<< Behind(lf, lock) >>, lf, lock)
      BY <2>1, <2>3, <3>3, <3>4, PieceBehind
    <3>6. TrimsLast(w, r, i, << Behind(lf, lock) >>)
      BY <3>2, <3>4, <3>5, SMTT(90) DEF TrimsLast
    <3> QED
      BY <1>2, <3>6 DEF ClearShape
  <2>11. ovcase \in {"EQUALS_LOCK", "CONTAINS_LOCK", "CONTAINED_BY_LOCK", "STARTS_BEFORE_LOCK", "ENDS_AFTER_LOCK"}
    BY <2>1, <2>2 DEF OverlapCase
  <2> QED
    BY <2>6, <2>7, <2>8, <2>9, <2>10, <2>11
<1> QED
  BY <1>1, <1>2

\* The shapes of an iteration that sets a lock: there is no more to do and the
\* lock is linked; it is linked next to what it leaves of a lock; it is a part of
\* a lock that has or gets its type; there is no memory to split a lock; it
\* takes the place of a lock and the walk goes on.
Downgrades(w, lf) == w.lock.type = "R" /\ lf.type = "W"
Links(w, r, i, ps, k) ==
    /\ Pieces(ps, w.list[i]) /\ Remains(ps, w.list[i], w.lock)
    /\ Fits(Splice(w.list, i, i, ps), k, w.lock)
    /\ r = Linked(lf_wakelock(w, w.list[i], TRUE), InsertAt(Splice(w.list, i, i, ps), k, w.lock), k)
Joined(w, r, i, y) ==
    /\ y \in LockSet /\ y.id = w.list[i].id /\ y.kind = w.list[i].kind /\ y.wake1 = w.list[i].wake1
    /\ y.start = w.list[i].start /\ y.end = w.list[i].end /\ y.type = w.lock.type
    /\ w.list[i].start <= w.lock.start /\ Hi(w.lock) <= Hi(w.list[i])
    /\ \/ w.list[i].type = w.lock.type
       \/ w.list[i].start = w.lock.start /\ Hi(w.list[i]) = Hi(w.lock)
    /\ y.blk = (IF Downgrades(w, w.list[i]) THEN <<>> ELSE w.list[i].blk) \o w.lock.blk
    /\ r = Linked(IF Downgrades(w, w.list[i]) THEN lf_wakelock(w, w.list[i], TRUE) ELSE w,
                  Splice(w.list, i, i, << y >>), i)
Fails(w, r, i) ==
    w.list[i].start < w.lock.start /\ r = [w EXCEPT !.error = "ENOLCK", !.done = TRUE]
Passes(w, r, i, ps, x) ==
    /\ ~(w.list[i].start = w.lock.start /\ w.list[i].end = w.lock.end)
    /\ Pieces(ps, w.list[i]) /\ Remains(ps, w.list[i], w.lock)
    /\ Len(ps) = 0 \/ (Len(ps) = 1 /\ Hi(ps[1]) < w.lock.start)
    /\ \/ x = lf_wakelock(w, w.list[i], TRUE)
       \/ x = [w EXCEPT !.lock = lf_move_blocked(w.lock, w.list[i])]
    /\ r = [x EXCEPT !.list = Splice(w.list, i, i, ps), !.from = i + Len(ps), !.at = i + Len(ps)]
GrantShape(w, r, i) ==
    \/ Fails(w, r, i)
    \/ \E y : Joined(w, r, i, y)
    \/ \E ps, k : Links(w, r, i, ps, k)
    \/ \E ps, x : Passes(w, r, i, ps, x)

\* A request fits before what it leaves behind it.
LEMMA BehindFits ==
    ASSUME NEW l, GoodTable(l), NEW i \in 1..Len(l), NEW lock, GoodRange(lock), lock.type # "U",
           l[i].id = lock.id, lock.start <= l[i].start, l[i].start <= Hi(lock), Hi(lock) < Hi(l[i]),
           \A j \in 1..(i - 1) : l[j].id = lock.id => Hi(l[j]) < lock.start,
           NEW ps, ps = << Behind(l[i], lock) >>
    PROVE  Pieces(ps, l[i]) /\ Remains(ps, l[i], lock) /\ Fits(Splice(l, i, i, ps), i, lock)
<1>1. GoodRange(l[i])
  BY DEF GoodTable, GoodList
<1>2. Pieces(ps, l[i]) /\ Remains(ps, l[i], lock)
  BY <1>1, PieceBehind
<1>3. Behind(l[i], lock).start = Hi(lock) + 1
  BY <1>1, BehindProps
<1>4. Hi(l[i]) \in Int /\ Hi(lock) \in Int
  BY <1>1, HiBounds
<1>5. Len(ps) = 1 /\ ps[1] = Behind(l[i], lock)
  OBVIOUS
<1>6. i \in i..(i + Len(ps)) /\ i - i = 0 /\ Hi(lock) <= Hi(l[i])
  BY <1>4, <1>5
<1>7. \A a \in 1..Len(ps) : /\ a <= i - i => Hi(ps[a]) < lock.start
                            /\ a > i - i => Hi(lock) < ps[a].start
  BY <1>3, <1>4, <1>5, <1>6
<1>8. Fits(Splice(l, i, i, ps), i, lock)
  BY <1>2, <1>6, <1>7, TrimFits
<1> QED
  BY <1>2, <1>8

\* An iteration of lf_setlock's last loop links the lock, joins it, fails, or passes one lock of ours.
LEMMA GrantStepIs ==
    ASSUME NEW w \in WalkSet, GoodTable(w.list), GoodRange(w.lock), w.lock.type # "U", NEW mem, NEW r,
           r = GrantStep(w, mem), NEW l0, NEW n, Going(l0, w.list, w.from, w.at, w.lock, n),
           NEW i, NEW ovcase, i = lf_findoverlap(w.list, w.from, w.lock).at,
           ovcase = lf_findoverlap(w.list, w.from, w.lock).ovcase,
           Finds(w.list, w.from, w.lock, i, ovcase)
    PROVE  /\ ovcase = "NONE" => r = Linked(w, InsertAt(w.list, Place(w.at, i), w.lock), Place(w.at, i))
           /\ ovcase # "NONE" => GrantShape(w, r, i)
<1> DEFINE lf == w.list[i]
           lock == w.lock
           x == lf_wakelock(w, lf, TRUE)
           Left(ps) == Splice(w.list, i, i, ps)
<1>1. CASE ovcase = "NONE"
  BY <1>1 DEF GrantStep, Place
<1>2. CASE ovcase # "NONE"
  <2>0. lock \in LockSet /\ w.from \in 1..(Len(w.list) + 1) /\ Len(w.list) \in Nat
    BY DEF GoodRange, Going, GoodTable, GoodList
  <2>1. /\ i \in 1..Len(w.list) /\ Overlaps(lf, lock) /\ ovcase = Overlap(lf, lock) /\ GoodRange(lf) /\ lf \in LockSet
        /\ lf.id = lock.id
    <3>1. i \in 1..Len(w.list) /\ Overlaps(lf, lock) /\ ovcase = Overlap(lf, lock) /\ lf.id = lock.id
      BY <1>2, <2>0 DEF Finds
    <3> QED
      BY <3>1 DEF GoodTable, GoodList, GoodRange
  <2>2. OverlapCase(lf, lock)
    BY <2>1, OverlapCases
  <2>3. lf.start <= Hi(lock) /\ lock.start <= Hi(lf)
    BY <2>1, OverlapsHi
  <2>4. x.list = w.list /\ x.lock = w.lock
    BY <2>1, WakeProps, ZenonT(60)
  <2>5. /\ lf.start \in Int /\ Hi(lf) \in Int /\ lock.start \in Int /\ Hi(lock) \in Int /\ lf.end \in Int /\ lock.end \in Int
    <3>1. \A a : GoodRange(a) => a.start \in Int /\ Hi(a) \in Int /\ a.end \in Int
      BY HiBounds
    <3> QED
      BY <2>1, <3>1
  <2>p. Place(w.at, i) = i
    BY <1>2, PlaceIs
  <2>b. \A j \in 1..(i - 1) : w.list[j].id = lock.id => Hi(w.list[j]) < lock.start
    <3>1. \A j \in 1..(w.from - 1) : w.list[j].id = lock.id => Hi(w.list[j]) < lock.start
      BY DEF Going
    <3>2. \A j \in w.from..(i - 1) : w.list[j].id = lock.id => Hi(w.list[j]) < lock.start
      BY DEF Finds
    <3>3. \A j \in 1..(i - 1) : j \in 1..(w.from - 1) \/ j \in w.from..(i - 1)
      BY <2>0, <2>1, SMTT(30)
    <3> QED
      BY <3>1, <3>2, <3>3
  <2>m. /\ lf_move_blocked(lf, lock) \in LockSet
        /\ lf_move_blocked(lf, lock).blk = lf.blk \o lock.blk
    BY <2>0, <2>1, MoveBlocked, ZenonT(60)
  <2>6. CASE ovcase = "EQUALS_LOCK"
    <3> DEFINE y0 == [(IF Downgrades(w, lf) THEN Emptied(lf) ELSE lf) EXCEPT !.type = lock.type]
               y == lf_move_blocked(y0, lock)
    <3>1. r = Linked(IF Downgrades(w, lf) THEN x ELSE w, Left(<< y >>), i)
      BY <2>6, SMTT(30) DEF GrantStep, Downgrades
    <3>2. /\ y0 \in LockSet /\ y0.id = lf.id /\ y0.kind = lf.kind /\ y0.wake1 = lf.wake1 /\ y0.start = lf.start
          /\ y0.end = lf.end /\ y0.type = lock.type /\ y0.blk = IF Downgrades(w, lf) THEN <<>> ELSE lf.blk
      <4>1. /\ Emptied(lf) \in LockSet
            /\ Emptied(lf).blk = <<>> /\ Emptied(lf).id = lf.id /\ Emptied(lf).kind = lf.kind
            /\ Emptied(lf).start = lf.start /\ Emptied(lf).end = lf.end /\ Emptied(lf).wake1 = lf.wake1
        BY <2>1, EmptiedProps
      <4>2. lock.type \in Types
        BY <2>0, SMTT(30) DEF LockSet
      <4>3. CASE Downgrades(w, lf)
        <5>1. y0 = [Emptied(lf) EXCEPT !.type = lock.type]
          BY <4>3, SMTT(30)
        <5> QED
          BY <4>1, <4>2, <4>3, <5>1, ZenonT(60) DEF LockSet
      <4>4. CASE ~Downgrades(w, lf)
        <5>1. y0 = [lf EXCEPT !.type = lock.type]
          BY <4>4
        <5> QED
          BY <2>1, <4>2, <4>4, <5>1, SMTT(30) DEF LockSet
      <4> QED
        BY <4>3, <4>4, ZenonT(60)
    <3> HIDE DEF y0
    <3>3. /\ y \in LockSet /\ y.id = y0.id /\ y.kind = y0.kind /\ y.wake1 = y0.wake1 /\ y.start = y0.start
          /\ y.end = y0.end /\ y.type = y0.type /\ y.blk = y0.blk \o lock.blk
      BY <2>0, <3>2, MoveBlocked, Zenon
    <3> HIDE DEF y
    <3>4. lock.start = lf.start /\ Hi(lf) = Hi(lock)
      BY <2>1, <2>2, <2>6 DEF OverlapCase
    <3>5. Hi(lock) <= Hi(lf) /\ lf.start <= lock.start
      BY <2>5, <3>4, SMTT(30)
    <3>6. Joined(w, r, i, y)
      BY <3>1, <3>2, <3>3, <3>4, <3>5, Zenon DEF Joined
    <3> QED
      BY <1>2, <3>6 DEF GrantShape
  <2>7. CASE ovcase = "CONTAINS_LOCK"
    <3>c. lf.start <= lock.start /\ Hi(lf) >= Hi(lock) /\ lock.end # -1 /\ (lf.start < lock.start \/ Hi(lf) > Hi(lock))
      BY <2>1, <2>2, <2>7 DEF OverlapCase
    <3>0. CASE lf.type = lock.type
      <4> DEFINE y == lf_move_blocked(lf, lock)
      <4>1. r = Linked(w, Left(<< y >>), i)
        BY <2>7, <3>0 DEF GrantStep
      <4>2. ~Downgrades(w, lf)
        BY <3>0, SMTT(30) DEF Downgrades
      <4>3. /\ y \in LockSet /\ y.id = lf.id /\ y.kind = lf.kind /\ y.wake1 = lf.wake1 /\ y.start = lf.start
            /\ y.end = lf.end /\ y.type = lf.type /\ y.blk = lf.blk \o lock.blk
        BY <2>0, <2>1, MoveBlocked, ZenonT(60)
      <4> HIDE DEF y
      <4>4. Hi(lock) <= Hi(lf)
        BY <2>5, <3>c
      <4>5. Joined(w, r, i, y)
        BY <3>0, <3>c, <4>1, <4>2, <4>3, <4>4, Zenon DEF Joined
      <4> QED
        BY <1>2, <4>5 DEF GrantShape
    <3>1. CASE lf.type # lock.type /\ lf.start = lock.start
      <4> DEFINE ps == << Behind(lf, lock) >>
      <4>1. r = Linked(x, InsertAt(Left(ps), i, lock), i)
        BY <2>7, <3>1 DEF GrantStep
      <4>3. Hi(lock) < Hi(lf) /\ lock.start <= lf.start /\ Hi(lock) <= Hi(lf)
        BY <2>5, <3>c, <3>1, SMTT(30)
      <4>4. Pieces(ps, lf) /\ Remains(ps, lf, lock) /\ Fits(Left(ps), i, lock)
        BY <2>1, <2>3, <2>b, <4>3, BehindFits
      <4>10. Links(w, r, i, ps, i)
        BY <4>1, <4>4 DEF Links
      <4> QED
        BY <1>2, <4>10 DEF GrantShape
    <3>2. CASE lf.type # lock.type /\ lf.start # lock.start /\ SplitFails(lf, lock, mem)
      <4>1. r = [w EXCEPT !.error = "ENOLCK", !.done = TRUE]
        BY <2>7, <3>2 DEF GrantStep
      <4>3. lf.start < lock.start
        BY <2>5, <3>c, <3>2
      <4>4. Fails(w, r, i)
        BY <4>1, <4>3 DEF Fails
      <4> QED
        BY <1>2, <4>4 DEF GrantShape
    <3>3. CASE lf.type # lock.type /\ lf.start # lock.start /\ ~SplitFails(lf, lock, mem)
      <4> DEFINE ps == lf_split(lf, lock)
      <4>1. r = Linked(x, InsertAt(Left(ps), i + 1, lock), i + 1)
        BY <2>7, <3>3 DEF GrantStep
      <4>3. lf.start < lock.start /\ Hi(lock) <= Hi(lf)
        BY <2>5, <3>c, <3>3
      <4>4. Pieces(ps, lf) /\ Remains(ps, lf, lock)
        BY <2>1, <4>3, PiecesSplit
      <4>5. Hi(Before(lf, lock)) = lock.start - 1
        BY <2>1, <2>3, <4>3, BeforeProps
      <4>6. /\ Len(ps) \in {1, 2} /\ ps[1] = Before(lf, lock)
            /\ Len(ps) = 2 => ps[2] = Behind(lf, lock) /\ lf.end # lock.end
        BY DEF lf_split
      <4> HIDE DEF ps
      <4>7. i + 1 \in i..(i + Len(ps)) /\ (i + 1) - i = 1
        BY <2>1, <4>6
      <4>8. Len(ps) = 2 => Behind(lf, lock).start = Hi(lock) + 1
        <5> HAVE Len(ps) = 2
        <5>1. Hi(lf) # Hi(lock)
          BY <2>1, <3>c, <4>6, HiBounds, Zenon DEF Hi
        <5>2. Hi(lock) < Hi(lf)
          BY <2>5, <4>3, <5>1
        <5> QED
          BY <2>1, <2>3, <5>2, BehindProps
      <4>9. \A a \in 1..Len(ps) : /\ a <= (i + 1) - i => Hi(ps[a]) < lock.start
                                  /\ a > (i + 1) - i => Hi(lock) < ps[a].start
        <5> SUFFICES ASSUME NEW a \in 1..Len(ps)
                     PROVE  /\ a <= 1 => Hi(ps[a]) < lock.start
                            /\ a > 1 => Hi(lock) < ps[a].start
          BY <4>7
        <5>1. a = 1 \/ (a = 2 /\ Len(ps) = 2)
          <6>1. a \in 1..1 \/ (a \in 1..2 /\ Len(ps) = 2)
            BY <4>6
          <6> QED
            BY <6>1
        <5>2. CASE a = 1
          BY <2>5, <4>5, <4>6, <5>2
        <5>3. CASE a = 2 /\ Len(ps) = 2
          BY <2>5, <4>6, <4>8, <5>3, SMTT(30)
        <5> QED
          BY <5>1, <5>2, <5>3
      <4>10. Fits(Left(ps), i + 1, lock)
        BY <2>1, <2>b, <4>3, <4>4, <4>7, <4>9, TrimFits
      <4>11. Links(w, r, i, ps, i + 1)
        BY <4>1, <4>4, <4>10 DEF Links
      <4> QED
        BY <1>2, <4>11 DEF GrantShape
    <3> QED
      BY <3>0, <3>1, <3>2, <3>3
  <2>8. CASE ovcase = "CONTAINED_BY_LOCK"
    <3> DEFINE z == IF Downgrades(w, lf) THEN x ELSE [w EXCEPT !.lock = lf_move_blocked(lock, lf)]
    <3>1. r = [z EXCEPT !.list = Left(<<>>), !.from = i, !.at = Place(w.at, i)]
      BY <2>8 DEF GrantStep, Downgrades, Place
    <3>2. Len(<<>>) = 0 /\ i + Len(<<>>) = i
      BY <2>1
    <3>3. r = [z EXCEPT !.list = Left(<<>>), !.from = i + Len(<<>>), !.at = i + Len(<<>>)]
      BY <2>p, <3>1, <3>2
    <3>4. lock.start <= lf.start /\ Hi(lf) <= Hi(lock) /\ ~(lf.start = lock.start /\ lf.end = lock.end)
      BY <2>1, <2>2, <2>8 DEF OverlapCase
    <3>5. Pieces(<<>>, lf) /\ Remains(<<>>, lf, lock)
      BY <2>1, <3>4, NoPieces
    <3>6. z = x \/ z = [w EXCEPT !.lock = lf_move_blocked(lock, lf)]
      OBVIOUS
    <3> HIDE DEF z
    <3>7. Passes(w, r, i, <<>>, z)
      BY <3>2, <3>3, <3>4, <3>5, <3>6 DEF Passes
    <3> QED
      BY <1>2, <3>7 DEF GrantShape
  <2>9. CASE ovcase = "STARTS_BEFORE_LOCK"
    <3> DEFINE p == Before(lf, lock)
    <3>1. r = [x EXCEPT !.list = Left(<< p >>), !.from = i + 1, !.at = i + 1]
      BY <2>9 DEF GrantStep
    <3> HIDE DEF p
    <3>2. Len(<< p >>) = 1 /\ << p >>[1] = p
      OBVIOUS
    <3>3. r = [x EXCEPT !.list = Left(<< p >>), !.from = i + Len(<< p >>), !.at = i + Len(<< p >>)]
      BY <3>1, <3>2
    <3>4. lf.start < lock.start /\ Hi(lf) <= Hi(lock)
      BY <2>1, <2>2, <2>9 DEF OverlapCase
    <3>5. Pieces(<< p >>, lf) /\ Remains(<< p >>, lf, lock)
      BY <2>1, <2>3, <3>4, PieceBefore DEF p
    <3>6. Hi(p) = lock.start - 1
      BY <2>1, <2>3, <3>4, BeforeProps DEF p
    <3>7. Hi(<< p >>[1]) < lock.start
      BY <2>5, <3>2, <3>6
    <3>8. ~(lf.start = lock.start /\ lf.end = lock.end)
      BY <2>5, <3>4
    <3>9. Passes(w, r, i, << p >>, x)
      BY <3>2, <3>3, <3>5, <3>7, <3>8 DEF Passes
    <3> QED
      BY <1>2, <3>9 DEF GrantShape
  <2>10. CASE ovcase = "ENDS_AFTER_LOCK"
    <3> DEFINE ps == << Behind(lf, lock) >>
    <3>1. r = Linked(x, InsertAt(Left(ps), Place(w.at, i), lock), Place(w.at, i))
      BY <2>10 DEF GrantStep, Place
    <3>2. r = Linked(x, InsertAt(Left(ps), i, lock), i)
      BY <2>p, <3>1
    <3>3. lock.start <= lf.start /\ Hi(lf) > Hi(lock)
      BY <2>1, <2>2, <2>10 DEF OverlapCase
    <3>4. Hi(lock) < Hi(lf) /\ Hi(lock) <= Hi(lf)
      BY <2>5, <3>3, SMTT(30)
    <3>5. Pieces(ps, lf) /\ Remains(ps, lf, lock) /\ Fits(Left(ps), i, lock)
      BY <2>1, <2>3, <2>b, <3>3, <3>4, BehindFits
    <3>11. Links(w, r, i, ps, i)
      BY <3>2, <3>5 DEF Links
    <3> QED
      BY <1>2, <3>11 DEF GrantShape
  <2>11. ovcase \in {"EQUALS_LOCK", "CONTAINS_LOCK", "CONTAINED_BY_LOCK", "STARTS_BEFORE_LOCK", "ENDS_AFTER_LOCK"}
    BY <2>1, <2>2 DEF OverlapCase
  <2> QED
    BY <2>6, <2>7, <2>8, <2>9, <2>10, <2>11
<1> QED
  BY <1>1, <1>2
-----------------------------------------------------------------------------
\* A lock that is found and does not start behind the request is the first one
\* that the walk meets.
LEMMA FirstIs ==
    ASSUME NEW l0, NEW l, GoodTable(l), NEW from, NEW at, NEW lock, GoodRange(lock), NEW n,
           Going(l0, l, from, at, lock, n), NEW i, NEW ovcase, Finds(l, from, lock, i, ovcase), ovcase # "NONE",
           l[i].start <= lock.start
    PROVE  l = l0
<1>1. Len(l) \in Nat
  BY DEF GoodTable, GoodList
<1>2. i \in from..Len(l) /\ l[i].id = lock.id /\ i \in 1..Len(l)
  BY <1>1 DEF Finds, Going
<1>3. GoodRange(l[i])
  BY <1>2 DEF GoodTable, GoodList
<1>4. l[i].start \in Int /\ lock.start \in Int
  BY <1>3, HiBounds
<1>5. ~(\A j \in from..Len(l) : l[j].id = lock.id => l[j].start > lock.start)
  BY <1>2, <1>4
<1> QED
  BY <1>5 DEF Going

\* What a range leaves of the locks of its owner is free of it.
LEMMA TrimFree ==
    ASSUME NEW l, GoodTable(l), NEW i \in 1..Len(l), NEW ps, Pieces(ps, l[i]),
           NEW m, m = Splice(l, i, i, ps), NEW lock, GoodRange(lock), l[i].id = lock.id,
           Remains(ps, l[i], lock), Hi(lock) <= Hi(l[i]),
           \A j \in 1..(i - 1) : l[j].id = lock.id => Hi(l[j]) < lock.start
    PROVE  Free(m, lock)
<1> DEFINE k == Len(ps)
<1>1. GoodList(l) /\ Len(l) \in Nat
  BY DEF GoodTable, GoodList
<1>2. /\ m \in Seq(LockSet) /\ Len(m) = Len(l) - 1 + k /\ Len(m) \in Nat /\ k \in Nat
      /\ \A x \in 1..Len(m) :
           /\ x < i => m[x] = l[x]
           /\ x >= i /\ x < i + k => m[x] = ps[x - i + 1] /\ x - i + 1 \in 1..k
           /\ x >= i + k => m[x] = l[x - k + 1]
  BY <1>1, TrimFrom
<1>3. ASSUME NEW a \in 1..k PROVE Hi(ps[a]) < lock.start \/ Hi(lock) < ps[a].start
  <2> DEFINE p == ps[a]
  <2>1. GoodRange(p) /\ l[i].start <= p.start /\ Hi(p) <= Hi(l[i]) /\ GoodRange(l[i])
    BY <1>1 DEF Pieces, Piece, GoodList
  <2>2. \A b \in 0..OFF_MAX : In(b, p) => ~In(b, lock)
    BY DEF Remains
  <2> HIDE DEF p
  <2>3. /\ p.start \in 0..OFF_MAX /\ Hi(p) \in 0..OFF_MAX /\ lock.start \in 0..OFF_MAX /\ Hi(lock) \in 0..OFF_MAX
        /\ p.start <= Hi(p) /\ lock.start <= Hi(lock)
    BY <2>1, HiBounds
  <2>4. OFF_MAX \in Nat
    BY LockfAssumption
  <2>5. ~In(p.start, lock) /\ (In(lock.start, p) => FALSE)
    <3>1. In(p.start, p) /\ In(lock.start, lock)
      BY <2>3, <2>4 DEF In
    <3> QED
      BY <2>2, <2>3, <3>1
  <2>6. Hi(p) < lock.start \/ Hi(lock) < p.start
    BY <2>3, <2>4, <2>5 DEF In
  <2> QED
    BY <2>6 DEF p
<1> HIDE DEF k
<1> SUFFICES ASSUME NEW x \in 1..Len(m), m[x].id = lock.id
             PROVE  Hi(m[x]) < lock.start \/ Hi(lock) < m[x].start
  BY DEF Free
<1>4. CASE x < i
  <2>1. x \in 1..(i - 1)
    BY <1>4
  <2> QED
    BY <1>2, <1>4, <2>1
<1>5. CASE x >= i /\ x < i + k
  BY <1>2, <1>3, <1>5
<1>6. CASE x >= i + k
  <2> DEFINE y == x - k + 1
  <2>0. x \in Int /\ i \in Int /\ k \in Nat /\ x <= Len(l) - 1 + k /\ i >= 1
    BY <1>1, <1>2
  <2>1. y \in 1..Len(l) /\ i < y /\ m[x] = l[y]
    <3>1. y \in 1..Len(l) /\ i < y
      BY <1>1, <1>6, <2>0
    <3> QED
      BY <1>2, <1>6, <3>1
  <2> HIDE DEF y
  <2>2. Hi(l[i]) < l[y].start
    BY <2>1 DEF GoodTable, Increasing
  <2>3. GoodRange(l[i]) /\ GoodRange(l[y])
    BY <1>1, <2>1 DEF GoodList
  <2>4. Hi(l[i]) \in Int /\ Hi(lock) \in Int /\ l[y].start \in Int
    BY <2>3, HiBounds
  <2> QED
    BY <2>1, <2>2, <2>4
<1> QED
  BY <1>1, <1>2, <1>4, <1>5, <1>6

\* Before the lock that is found, the locks of the owner lie before the range.
LEMMA PassedBy ==
    ASSUME NEW l0, NEW l, GoodTable(l), NEW from, NEW at, NEW lock, NEW n,
           Going(l0, l, from, at, lock, n), NEW i, NEW ovcase, Finds(l, from, lock, i, ovcase)
    PROVE  \A j \in 1..(i - 1) : l[j].id = lock.id => Hi(l[j]) < lock.start
<1>1. from \in 1..(Len(l) + 1) /\ Len(l) \in Nat /\ i \in from..(Len(l) + 1)
  BY DEF Going, GoodTable, GoodList, Finds
<1>2. \A j \in 1..(i - 1) : j \in 1..(from - 1) \/ j \in from..(i - 1)
  BY <1>1
<1>3. \A j \in 1..(from - 1) : l[j].id = lock.id => Hi(l[j]) < lock.start
  BY DEF Going
<1>4. \A j \in from..(i - 1) : l[j].id = lock.id => Hi(l[j]) < lock.start
  BY DEF Finds
<1> QED
  BY <1>2, <1>3, <1>4

\* What an iteration that ends has to show, ...
LEMMA GeoDone ==
    ASSUME NEW w \in WalkSet, w.done = TRUE, GoodTable(w.list), GoodRange(w.lock), NEW l0,
           Outcome(l0, w.list, w.lock, w.error), NEW n
    PROVE  Geo(w, l0, n)
  BY DEF Geo

\* ... and one that goes on.
LEMMA GeoGoes ==
    ASSUME NEW w \in WalkSet, w.done = FALSE, w.error = "OK", GoodTable(w.list), GoodRange(w.lock), NEW l0,
           NEW n, Going(l0, w.list, w.from, w.at, w.lock, n)
    PROVE  Geo(w, l0, n)
  BY DEF Geo

\* An iteration that unlocks.
LEMMA GeoClear ==
    ASSUME NEW w, NEW l0, Len(l0) \in Nat, NEW n \in Nat, Geo(w, l0, n), ~w.done, w.lock.type = "U", NEW mem,
           NEW r, r = ClearStep(w, mem)
    PROVE  Geo(r, l0, n + 1) /\ r.lock = w.lock
<1> DEFINE l == w.list
           lock == w.lock
           found == lf_findoverlap(l, w.from, lock)
           i == found.at
           x == lf_wakelock(w, l[i], FALSE)
<1>1. /\ w \in WalkSet /\ GoodTable(l) /\ GoodRange(lock) /\ w.error = "OK" /\ w.done = FALSE
      /\ Going(l0, l, w.from, w.at, lock, n)
  BY DEF Geo, WalkSet
<1>2. w.from \in 1..(Len(l) + 1) /\ Outside(l0, l, lock) /\ Len(l) \in Nat /\ GoodList(l) /\ w.at = 0
  BY <1>1 DEF Going, GoodTable, GoodList
<1>3. Finds(l, w.from, lock, i, found.ovcase)
  <2>1. Increasing(l) /\ Contiguous(l)
    BY <1>1 DEF GoodTable
  <2> QED
    BY <1>1, <1>2, <2>1, FindOverlap
<1>4. /\ found.ovcase = "NONE" => r = [w EXCEPT !.done = TRUE]
      /\ found.ovcase # "NONE" => ClearShape(w, r, i)
  BY <1>1, <1>2, <1>3, ClearStepIs
<1>5. \A j \in 1..(i - 1) : l[j].id = lock.id => Hi(l[j]) < lock.start
  BY <1>1, <1>3, PassedBy
<1> HIDE DEF found, i
<1>6. CASE found.ovcase = "NONE"
  <2>1. Free(l, lock)
    <3>1. \A j \in i..Len(l) : l[j].id = lock.id => Hi(lock) < l[j].start
      BY <1>3, <1>6 DEF Finds
    <3>2. \A j \in 1..Len(l) : j \in 1..(i - 1) \/ j \in i..Len(l)
      BY <1>2, <1>3 DEF Finds
    <3> QED
      BY <1>5, <3>1, <3>2 DEF Free
  <2>2. Sets(l0, l, lock)
    BY <1>1, <1>2, <2>1, ClearSets
  <2>3. /\ r \in WalkSet /\ r.done = TRUE /\ r.list = l /\ r.lock = lock /\ r.error = "OK"
    BY <1>1, <1>4, <1>6 DEF WalkSet
  <2>4. Outcome(l0, r.list, r.lock, r.error)
    BY <2>2, <2>3 DEF Outcome
  <2>5. GoodTable(r.list) /\ GoodRange(r.lock)
    BY <1>1, <2>3
  <2>6. Geo(r, l0, n + 1)
    BY <2>3, <2>4, <2>5, GeoDone
  <2> QED
    BY <2>3, <2>6
<1>7. CASE found.ovcase # "NONE"
  <2>1. i \in 1..Len(l) /\ l[i].id = lock.id /\ l[i] \in LockSet /\ GoodRange(l[i])
    BY <1>2, <1>3, <1>7 DEF Finds, GoodList, GoodRange
  <2>2. /\ x \in WalkSet /\ x.list = l /\ x.from = w.from /\ x.lock = lock /\ x.at = w.at
        /\ x.error = w.error /\ x.done = w.done
    BY <1>1, <2>1, WakeProps
  <2>3. CASE TrimsNot(w, r, i)
    <3> DEFINE m == Splice(l, i, i, << Emptied(l[i]) >>)
    <3>1. r = [x EXCEPT !.list = m, !.done = TRUE, !.error = "ENOLCK"] /\ l[i].start < lock.start
      BY <2>3 DEF TrimsNot
    <3>2. Pieces(<< Emptied(l[i]) >>, l[i]) /\ Unchanged(l, m)
      <4>1. \A o, ty : \A b \in 0..OFF_MAX : Covers(m, o, b, ty) <=> Covers(l, o, b, ty)
        BY <1>1, <2>1, TrimSame
      <4>2. Pieces(<< Emptied(l[i]) >>, l[i])
        BY <1>1, <2>1, TrimSame
      <4> HIDE DEF m
      <4> QED
        BY <4>1, <4>2 DEF Unchanged
    <3>3. GoodTable(m) /\ m \in Seq(LockSet)
      BY <1>1, <2>1, <3>2, TrimOrder DEF GoodTable, GoodList
    <3>4. l[i].start <= lock.start
      <4>1. l[i].start \in Int /\ lock.start \in Int
        BY <1>1, <2>1, HiBounds
      <4> QED
        BY <3>1, <4>1
    <3>5. l = l0
      BY <1>1, <1>3, <1>7, <3>4, FirstIs
    <3> HIDE DEF m, x
    <3>6. r \in WalkSet /\ r.done = TRUE /\ r.list = m /\ r.lock = lock /\ r.error = "ENOLCK"
      BY <2>2, <3>1, <3>3 DEF WalkSet
    <3>7. Outcome(l0, r.list, r.lock, r.error)
      BY <3>2, <3>5, <3>6 DEF Outcome
    <3>8. GoodTable(r.list) /\ GoodRange(r.lock)
      BY <1>1, <3>3, <3>6
    <3>9. Geo(r, l0, n + 1)
      BY <3>6, <3>7, <3>8, GeoDone
    <3> QED
      BY <3>6, <3>9
  <2>4. ASSUME NEW ps, TrimsLast(w, r, i, ps) PROVE Geo(r, l0, n + 1) /\ r.lock = lock
    <3> DEFINE m == Splice(l, i, i, ps)
    <3>1. /\ r = [x EXCEPT !.list = m, !.done = TRUE]
          /\ Pieces(ps, l[i]) /\ Remains(ps, l[i], lock) /\ Hi(lock) <= Hi(l[i])
      BY <2>4 DEF TrimsLast
    <3>3. GoodTable(m) /\ m \in Seq(LockSet) /\ GoodList(m)
      BY <1>1, <2>1, <3>1, TrimOrder DEF GoodTable, GoodList
    <3>4. Free(m, lock)
      BY <1>1, <1>5, <2>1, <3>1, TrimFree
    <3>5. Outside(l, m, lock)
      BY <1>1, <2>1, <3>1, TrimOutside
    <3> HIDE DEF m, x
    <3>6. Outside(l0, m, lock)
      BY <1>2, <3>5, OutsideTrans
    <3>7. Sets(l0, m, lock)
      BY <1>1, <3>3, <3>4, <3>6, ClearSets
    <3>8. r \in WalkSet /\ r.done = TRUE /\ r.list = m /\ r.lock = lock /\ r.error = "OK"
      BY <1>1, <2>2, <3>1, <3>3 DEF WalkSet
    <3>9. Outcome(l0, r.list, r.lock, r.error)
      BY <3>7, <3>8 DEF Outcome
    <3>10. GoodTable(r.list) /\ GoodRange(r.lock)
      BY <1>1, <3>3, <3>8
    <3>11. Geo(r, l0, n + 1)
      BY <3>8, <3>9, <3>10, GeoDone
    <3> QED
      BY <3>8, <3>11
  <2>5. ASSUME NEW ps, TrimsOn(w, r, i, ps) PROVE Geo(r, l0, n + 1) /\ r.lock = lock
    <3> DEFINE m == Splice(l, i, i, ps)
    <3>1. /\ r = [x EXCEPT !.list = m, !.from = i + Len(ps)]
          /\ Pieces(ps, l[i]) /\ Remains(ps, l[i], lock)
          /\ Len(ps) = 0 \/ (Len(ps) = 1 /\ Hi(ps[1]) < lock.start)
      BY <2>5 DEF TrimsOn
    <3>2. /\ GoodTable(m)
          /\ \A at2 : at2 = (IF lock.type = "U" THEN 0 ELSE i + Len(ps))
                         => Going(l0, m, i + Len(ps), at2, lock, n + 1)
      BY <1>1, <1>3, <1>7, <3>1, GoesOn
    <3>3. Going(l0, m, i + Len(ps), 0, lock, n + 1)
      BY <3>2
    <3>4. m \in Seq(LockSet) /\ i + Len(ps) \in Nat
      BY <2>1, <3>1, <3>2 DEF GoodTable, GoodList
    <3> HIDE DEF m, x
    <3>5. r \in WalkSet /\ r.done = FALSE /\ r.list = m /\ r.lock = lock /\ r.error = "OK" /\ r.from = i + Len(ps) /\ r.at = 0
      BY <1>1, <1>2, <2>2, <3>1, <3>4 DEF WalkSet
    <3>6. Going(l0, r.list, r.from, r.at, r.lock, n + 1) /\ GoodTable(r.list) /\ GoodRange(r.lock)
      BY <1>1, <3>2, <3>3, <3>5
    <3>7. Geo(r, l0, n + 1)
      BY <3>5, <3>6, GeoGoes
    <3> QED
      BY <3>5, <3>7
  <2> QED
    BY <1>4, <1>7, <2>3, <2>4, <2>5 DEF ClearShape
<1> QED
  BY <1>6, <1>7

IsLinked(r, w, m) ==
    /\ r \in WalkSet /\ r.list = m /\ r.done = TRUE /\ r.lock = w.lock
    /\ r.error = w.error /\ r.woken = w.woken /\ r.left = w.left

\* What Linked changes.
LEMMA LinkedIs ==
    ASSUME NEW w \in WalkSet, NEW l, NEW k, NEW m \in Seq(LockSet), m = lf_coalesce_adjacent(l, k),
           NEW r, r = Linked(w, l, k)
    PROVE  IsLinked(r, w, m)
<1>1. r = [w EXCEPT !.list = m, !.done = TRUE]
  BY DEF Linked
<1> QED
  BY <1>1 DEF WalkSet, IsLinked

\* An iteration that sets a lock.
LEMMA GeoGrant ==
    ASSUME NEW w, NEW l0, Len(l0) \in Nat, NEW n \in Nat, Geo(w, l0, n), ~w.done, w.lock.type # "U", NEW mem,
           NEW r, r = GrantStep(w, mem)
    PROVE  Geo(r, l0, n + 1) /\ SameLock(r.lock, w.lock)
<1> DEFINE l == w.list
           lock == w.lock
           found == lf_findoverlap(l, w.from, lock)
           i == found.at
           x == lf_wakelock(w, l[i], TRUE)
<1>1. /\ w \in WalkSet /\ GoodTable(l) /\ GoodRange(lock) /\ w.error = "OK" /\ w.done = FALSE
      /\ Going(l0, l, w.from, w.at, lock, n)
  BY DEF Geo, WalkSet
<1>2. w.from \in 1..(Len(l) + 1) /\ Outside(l0, l, lock) /\ Len(l) \in Nat /\ GoodList(l) /\ lock \in LockSet
  BY <1>1 DEF Going, GoodTable, GoodList, GoodRange
<1>3. Finds(l, w.from, lock, i, found.ovcase)
  <2>1. Increasing(l) /\ Contiguous(l)
    BY <1>1 DEF GoodTable
  <2> QED
    BY <1>1, <1>2, <2>1, FindOverlap
<1>4. /\ found.ovcase = "NONE" => r = Linked(w, InsertAt(l, Place(w.at, i), lock), Place(w.at, i))
      /\ found.ovcase # "NONE" => GrantShape(w, r, i)
  BY <1>1, <1>3, GrantStepIs
<1> HIDE DEF found, i
<1>s. SameLock(lock, lock)
  BY DEF SameLock
<1>5. CASE found.ovcase = "NONE"
  <2> DEFINE k == Place(w.at, i)
             m == lf_coalesce_adjacent(InsertAt(l, k, lock), k)
  <2>1. Fits(l, k, lock)
    BY <1>1, <1>3, <1>5, NoneFits
  <2>2. GoodTable(m) /\ Sets(l0, m, lock)
    BY <1>1, <1>2, <2>1, LinkSets
  <2>3. m \in Seq(LockSet)
    BY <2>2 DEF GoodTable, GoodList
  <2>4. r \in WalkSet /\ r.list = m /\ r.done = TRUE /\ r.lock = lock /\ r.error = "OK"
    <3> DEFINE q == InsertAt(l, k, lock)
    <3>1. m = lf_coalesce_adjacent(q, k) /\ r = Linked(w, q, k)
      BY <1>4, <1>5
    <3> HIDE DEF m, q
    <3>3. IsLinked(r, w, m)
      BY <1>1, <2>3, <3>1, LinkedIs
    <3> QED
      BY <1>1, <2>3, <3>1, <3>3 DEF IsLinked
  <2> HIDE DEF m
  <2>5. Outcome(l0, r.list, r.lock, r.error) /\ GoodTable(r.list) /\ GoodRange(r.lock)
    BY <1>1, <2>2, <2>4 DEF Outcome
  <2>6. Geo(r, l0, n + 1)
    BY <2>4, <2>5, GeoDone
  <2> QED
    BY <1>s, <2>4, <2>6
<1>6. CASE found.ovcase # "NONE"
  <2>1. i \in 1..Len(l) /\ l[i].id = lock.id /\ l[i] \in LockSet /\ GoodRange(l[i])
    BY <1>2, <1>3, <1>6 DEF Finds, GoodList, GoodRange
  <2>2. /\ x \in WalkSet /\ x.list = l /\ x.from = w.from /\ x.lock = lock /\ x.at = w.at
        /\ x.error = w.error /\ x.done = w.done
    BY <1>1, <2>1, WakeProps
  <2>i. l[i].start \in Int /\ lock.start \in Int
    BY <1>1, <2>1, HiBounds
  <2>3. CASE Fails(w, r, i)
    <3>1. r = [w EXCEPT !.error = "ENOLCK", !.done = TRUE] /\ l[i].start < lock.start
      BY <2>3 DEF Fails
    <3>2. l[i].start <= lock.start
      BY <2>i, <3>1
    <3>3. l = l0
      BY <1>1, <1>3, <1>6, <3>2, FirstIs
    <3>4. r \in WalkSet /\ r.done = TRUE /\ r.list = l /\ r.lock = lock /\ r.error = "ENOLCK"
      BY <1>1, <3>1 DEF WalkSet
    <3>5. Unchanged(l0, r.list)
      BY <3>3, <3>4 DEF Unchanged
    <3>6. Outcome(l0, r.list, r.lock, r.error) /\ GoodTable(r.list) /\ GoodRange(r.lock)
      BY <1>1, <3>4, <3>5 DEF Outcome
    <3>7. Geo(r, l0, n + 1)
      BY <3>4, <3>6, GeoDone
    <3> QED
      BY <1>s, <3>4, <3>7
  <2>4. ASSUME NEW y, Joined(w, r, i, y) PROVE Geo(r, l0, n + 1) /\ SameLock(r.lock, lock)
    <3> DEFINE z == IF Downgrades(w, l[i]) THEN x ELSE w
               m == lf_coalesce_adjacent(Splice(l, i, i, << y >>), i)
    <3>1. /\ r = Linked(z, Splice(l, i, i, << y >>), i)
          /\ y \in LockSet /\ y.id = l[i].id /\ y.start = l[i].start /\ y.end = l[i].end /\ y.type = lock.type
          /\ l[i].start <= lock.start /\ Hi(lock) <= Hi(l[i])
          /\ l[i].type = lock.type \/ (l[i].start = lock.start /\ Hi(l[i]) = Hi(lock))
      BY <2>4 DEF Joined
    <3>2. GoodRange(y) /\ y.type # "U"
      BY <2>1, <3>1 DEF GoodRange
    <3>3. GoodTable(m) /\ Sets(l, m, lock)
      BY <1>1, <2>1, <3>1, <3>2, ReplaceSets
    <3>4. l = l0
      BY <1>1, <1>3, <1>6, <3>1, FirstIs
    <3>5. m \in Seq(LockSet)
      BY <3>3 DEF GoodTable, GoodList
    <3>6. z \in WalkSet /\ z.lock = lock /\ z.error = "OK"
      BY <1>1, <2>2
    <3> HIDE DEF z
    <3>7. r \in WalkSet /\ r.list = m /\ r.done = TRUE /\ r.lock = lock /\ r.error = "OK"
      <4> DEFINE q == Splice(l, i, i, << y >>)
      <4>1. m = lf_coalesce_adjacent(q, i) /\ r = Linked(z, q, i)
        BY <3>1
      <4> HIDE DEF m, q
      <4>3. IsLinked(r, z, m)
        BY <3>5, <3>6, <4>1, LinkedIs
      <4> QED
        BY <3>5, <3>6, <4>1, <4>3 DEF IsLinked
    <3> HIDE DEF m
    <3>8. Outcome(l0, r.list, r.lock, r.error) /\ GoodTable(r.list) /\ GoodRange(r.lock)
      BY <1>1, <3>3, <3>4, <3>7 DEF Outcome
    <3>9. Geo(r, l0, n + 1)
      BY <3>7, <3>8, GeoDone
    <3> QED
      BY <1>s, <3>7, <3>9
  <2>5. ASSUME NEW ps, NEW k, Links(w, r, i, ps, k) PROVE Geo(r, l0, n + 1) /\ SameLock(r.lock, lock)
    <3> DEFINE l2 == Splice(l, i, i, ps)
               m == lf_coalesce_adjacent(InsertAt(l2, k, lock), k)
    <3>1. /\ r = Linked(x, InsertAt(l2, k, lock), k)
          /\ Pieces(ps, l[i]) /\ Remains(ps, l[i], lock) /\ Fits(l2, k, lock)
      BY <2>5 DEF Links
    <3>2. GoodTable(l2)
      BY <1>1, <2>1, <3>1, TrimOrder
    <3>3. Outside(l, l2, lock)
      BY <1>1, <2>1, <3>1, TrimOutside
    <3> HIDE DEF l2
    <3>4. Outside(l0, l2, lock)
      BY <1>2, <3>3, OutsideTrans
    <3>5. GoodTable(m) /\ Sets(l0, m, lock)
      BY <3>1, <3>2, <3>4, LinkSets
    <3>6. m \in Seq(LockSet)
      BY <3>5 DEF GoodTable, GoodList
    <3> HIDE DEF x
    <3>7. r \in WalkSet /\ r.list = m /\ r.done = TRUE /\ r.lock = lock /\ r.error = "OK"
      <4> DEFINE q == InsertAt(l2, k, lock)
      <4>1. m = lf_coalesce_adjacent(q, k) /\ r = Linked(x, q, k)
        BY <3>1
      <4>2. x \in WalkSet /\ x.lock = lock /\ x.error = "OK"
        BY <1>1, <2>2
      <4> HIDE DEF m, q
      <4>3. IsLinked(r, x, m)
        BY <3>6, <4>1, <4>2, LinkedIs
      <4> QED
        BY <3>6, <4>1, <4>2, <4>3 DEF IsLinked
    <3> HIDE DEF m
    <3>8. Outcome(l0, r.list, r.lock, r.error) /\ GoodTable(r.list) /\ GoodRange(r.lock)
      BY <1>1, <3>5, <3>7 DEF Outcome
    <3>9. Geo(r, l0, n + 1)
      BY <3>7, <3>8, GeoDone
    <3> QED
      BY <1>s, <3>7, <3>9
  <2>6. ASSUME NEW ps, NEW z, Passes(w, r, i, ps, z) PROVE Geo(r, l0, n + 1) /\ SameLock(r.lock, lock)
    <3> DEFINE m == Splice(l, i, i, ps)
               f == i + Len(ps)
               lock2 == lf_move_blocked(lock, l[i])
    <3>1. /\ r = [z EXCEPT !.list = m, !.from = f, !.at = f]
          /\ Pieces(ps, l[i]) /\ Remains(ps, l[i], lock)
          /\ Len(ps) = 0 \/ (Len(ps) = 1 /\ Hi(ps[1]) < lock.start)
          /\ z = x \/ z = [w EXCEPT !.lock = lock2]
      BY <2>6 DEF Passes
    <3>2. /\ GoodTable(m)
          /\ \A at2 : at2 = (IF lock.type = "U" THEN 0 ELSE i + Len(ps))
                         => Going(l0, m, i + Len(ps), at2, lock, n + 1)
      BY <1>1, <1>3, <1>6, <3>1, GoesOn
    <3>3. Going(l0, m, f, f, lock, n + 1)
      BY <3>2
    <3>4. m \in Seq(LockSet) /\ f \in Nat
      BY <2>1, <3>1, <3>2 DEF GoodTable, GoodList
    <3>5. lock2 \in LockSet /\ SameLock(lock2, lock)
      BY <1>2, <2>1, MoveBlocked DEF SameLock
    <3> HIDE DEF m, x, f, lock2
    <3>6. z \in WalkSet /\ z.done = FALSE /\ z.error = "OK" /\ z.lock \in LockSet /\ SameLock(z.lock, lock)
      <4>1. CASE z = x
        BY <1>1, <1>2, <1>s, <2>2, <4>1
      <4>2. CASE z = [w EXCEPT !.lock = lock2]
        BY <1>1, <3>5, <4>2 DEF WalkSet
      <4> QED
        BY <3>1, <4>1, <4>2
    <3>7. r \in WalkSet /\ r.done = FALSE /\ r.list = m /\ r.lock = z.lock /\ r.error = "OK" /\ r.from = f /\ r.at = f
      BY <3>1, <3>4, <3>6 DEF WalkSet
    <3>8. Going(l0, m, f, f, z.lock, n + 1)
      BY <3>3, <3>6, SameGoing DEF SameLock
    <3>9. GoodRange(z.lock)
      BY <1>1, <3>6 DEF GoodRange, SameLock
    <3>10. Going(l0, r.list, r.from, r.at, r.lock, n + 1) /\ GoodTable(r.list) /\ GoodRange(r.lock)
      BY <3>2, <3>7, <3>8, <3>9
    <3>11. Geo(r, l0, n + 1)
      BY <3>7, <3>10, GeoGoes
    <3> QED
      BY <3>6, <3>7, <3>11
  <2> QED
    BY <1>4, <1>6, <2>3, <2>4, <2>5, <2>6 DEF GrantShape
<1> QED
  BY <1>5, <1>6
-----------------------------------------------------------------------------
\* An iteration keeps the walk on its way.
LEMMA GeoStep ==
    ASSUME NEW w, NEW l0, Len(l0) \in Nat, NEW n \in Nat, Geo(w, l0, n), NEW mem
    PROVE  Geo(WalkStep(w, mem), l0, n + 1) /\ SameLock(WalkStep(w, mem).lock, w.lock)
<1>1. CASE w.done
  <2>1. WalkStep(w, mem) = w
    BY <1>1 DEF WalkStep
  <2>2. Geo(w, l0, n + 1)
    BY <1>1 DEF Geo
  <2> QED
    BY <2>1, <2>2 DEF SameLock
<1>2. CASE ~w.done /\ w.lock.type = "U"
  <2>1. WalkStep(w, mem) = ClearStep(w, mem)
    BY <1>2 DEF WalkStep
  <2>2. Geo(ClearStep(w, mem), l0, n + 1) /\ ClearStep(w, mem).lock = w.lock
    BY <1>2, GeoClear
  <2> QED
    BY <2>1, <2>2 DEF SameLock
<1>3. CASE ~w.done /\ w.lock.type # "U"
  <2>1. WalkStep(w, mem) = GrantStep(w, mem)
    BY <1>3 DEF WalkStep
  <2>2. Geo(GrantStep(w, mem), l0, n + 1) /\ SameLock(GrantStep(w, mem).lock, w.lock)
    BY <1>3, GeoGrant
  <2> QED
    BY <2>1, <2>2
<1> QED
  BY <1>1, <1>2, <1>3

\* Along a walk the list stays in order.
LEMMA GeoRun ==
    ASSUME NEW l, GoodTable(l), NEW lock, GoodRange(lock), NEW mem, NEW f, f[0] = Walk(l, lock),
           \A k \in Nat : f[k + 1] = WalkStep(f[k], mem)
    PROVE  \A k \in Nat : Geo(f[k], l, k) /\ SameLock(f[k].lock, lock)
<1> DEFINE S == { k \in Nat : Geo(f[k], l, k) /\ SameLock(f[k].lock, lock) }
<1>1. Len(l) \in Nat
  BY DEF GoodTable, GoodList
<1>2. 0 \in S
  <2>1. Geo(f[0], l, 0)
    BY GeoFirst
  <2>2. f[0].lock = lock
    BY DEF Walk
  <2>3. SameLock(f[0].lock, lock)
    BY <2>2 DEF SameLock
  <2> QED
    BY <2>1, <2>3
<1>3. ASSUME NEW k \in Nat, k \in S PROVE k + 1 \in S
  <2>1. Geo(f[k], l, k) /\ SameLock(f[k].lock, lock)
    BY <1>3
  <2>2. f[k + 1] = WalkStep(f[k], mem)
    OBVIOUS
  <2>3. Geo(f[k + 1], l, k + 1) /\ SameLock(f[k + 1].lock, f[k].lock)
    BY <1>1, <2>1, <2>2, GeoStep
  <2>4. SameLock(f[k + 1].lock, lock)
    BY <2>1, <2>3 DEF SameLock
  <2> QED
    BY <2>3, <2>4
<1>4. \A k \in Nat : k \in S
  <2> HIDE DEF S
  <2> QED
    BY <1>2, <1>3, Induct
<1> QED
  BY <1>4

\* Lock and unlock do what they are asked for.
LEMMA WalkedGeo ==
    ASSUME NEW l, GoodTable(l), NEW lock, GoodRange(lock), NEW mem, NEW r, r = Walked(l, lock, mem)
    PROVE  /\ r \in WalkSet /\ r.done = TRUE /\ GoodTable(r.list) /\ Outcome(l, r.list, lock, r.error)
           /\ SameLock(r.lock, lock)
<1>1. Len(l) \in Nat
  BY DEF GoodTable, GoodList
<1>2. PICK f : /\ f[0] = Walk(l, lock)
               /\ \A k \in Nat : f[k + 1] = WalkStep(f[k], mem)
               /\ Walked(l, lock, mem) = f[Len(l) + 1]
  BY <1>1, WalkedRun
<1>3. \A k \in Nat : Geo(f[k], l, k) /\ SameLock(f[k].lock, lock)
  BY <1>2, GeoRun
<1>4. Len(l) + 1 \in Nat
  BY <1>1
<1>5. Geo(r, l, Len(l) + 1) /\ SameLock(r.lock, lock)
  BY <1>2, <1>3, <1>4
<1>6. r \in WalkSet /\ GoodTable(r.list)
  BY <1>5 DEF Geo
<1>7. Len(r.list) \in Nat /\ r.done \in BOOLEAN
  BY <1>6 DEF GoodTable, GoodList, WalkSet
<1>8. r.done
  <2> SUFFICES ASSUME ~r.done PROVE FALSE
    OBVIOUS
  <2>1. Going(l, r.list, r.from, r.at, r.lock, Len(l) + 1)
    BY <1>5 DEF Geo
  <2>2. r.from \in 1..(Len(r.list) + 1) /\ Len(r.list) + 1 - r.from + (Len(l) + 1) <= Len(l)
    BY <2>1 DEF Going
  <2> QED
    BY <1>1, <1>7, <2>2
<1>9. Outcome(l, r.list, r.lock, r.error)
  BY <1>5, <1>8 DEF Geo
<1>10. \A b : In(b, r.lock) <=> In(b, lock)
  BY <1>5 DEF In, Hi, SameLock
<1>11. Outcome(l, r.list, lock, r.error)
  BY <1>5, <1>9, <1>10, ZenonT(60) DEF Outcome, Sets, SameLock
<1> QED
  BY <1>5, <1>6, <1>7, <1>8, <1>11
-----------------------------------------------------------------------------
\* What an owner has of a byte.
ByteOf(l, o, b) == IF Covers(l, o, b, "R") THEN "R" ELSE IF Covers(l, o, b, "W") THEN "W" ELSE "N"

\* The bytes of a range.
LEMMA BytesIn ==
    ASSUME NEW a, GoodRange(a), NEW b
    PROVE  b \in BytesOf(a.start, a.end) <=> b \in 0..OFF_MAX /\ In(b, a)
<1>1. OFF_MAX \in Nat
  BY LockfAssumption
<1>2. a.start \in Int /\ a.end \in Int /\ a.start >= 0
  BY HiBounds
<1> QED
  BY <1>1, <1>2 DEF BytesOf, Bytes, In, Hi

\* A byte has one lock of an owner, at most.
LEMMA OneLock ==
    ASSUME NEW l, GoodTable(l), NEW i \in 1..Len(l), NEW j \in 1..Len(l), l[i].id = l[j].id, NEW b \in 0..OFF_MAX,
           In(b, l[i]), In(b, l[j])
    PROVE  i = j
<1>1. Len(l) \in Nat /\ GoodRange(l[i]) /\ GoodRange(l[j])
  BY DEF GoodTable, GoodList
<1>2. l[i].start \in Int /\ l[j].start \in Int /\ Hi(l[i]) \in Int /\ Hi(l[j]) \in Int
  BY <1>1, HiBounds
<1>3. i < j => Hi(l[i]) < l[j].start
  BY DEF GoodTable, Increasing
<1>4. j < i => Hi(l[j]) < l[i].start
  BY DEF GoodTable, Increasing
<1> QED
  BY <1>1, <1>2, <1>3, <1>4 DEF In

\* What an owner holds at a byte, by the bytes that the list covers.
LEMMA HeldIs ==
    ASSUME NEW l, GoodTable(l), NEW o, NEW b \in 0..OFF_MAX
    PROVE  Held(l, o, b) = ByteOf(l, o, b)
<1> DEFINE here == { i \in DOMAIN l : l[i].id = o /\ l[i].start <= b /\ (b <= l[i].end \/ l[i].end = -1) }
           c == CHOOSE i \in here : TRUE
<1>1. DOMAIN l = 1..Len(l) /\ \A i \in 1..Len(l) : GoodRange(l[i]) /\ l[i].type \in {"R", "W"}
  BY DEF GoodTable, GoodList, GoodRange, LockSet, Types
<1>2. \A i : i \in here <=> i \in 1..Len(l) /\ l[i].id = o /\ In(b, l[i])
  <2> SUFFICES ASSUME NEW i \in 1..Len(l)
               PROVE  l[i].start <= b /\ (b <= l[i].end \/ l[i].end = -1) <=> In(b, l[i])
    BY <1>1
  <2>1. b \in BytesOf(l[i].start, l[i].end) <=> In(b, l[i])
    BY <1>1, BytesIn
  <2> QED
    BY <2>1 DEF BytesOf, Bytes
<1>3. Held(l, o, b) = IF here = {} THEN "N" ELSE l[c].type
  BY DEF Held
<1>4. here # {} => c \in here
  OBVIOUS
<1> HIDE DEF here, c
<1>5. \A ty : Covers(l, o, b, ty) <=> \E i \in here : l[i].type = ty
  BY <1>2 DEF Covers, In
<1>6. \A i, j \in here : i = j
  BY <1>2, OneLock
<1> QED
  BY <1>1, <1>2, <1>3, <1>4, <1>5, <1>6 DEF ByteOf

\* An owner has one type of lock at a byte.
LEMMA OneType ==
    ASSUME NEW l, GoodTable(l), NEW o, NEW b \in 0..OFF_MAX
    PROVE  ~(Covers(l, o, b, "R") /\ Covers(l, o, b, "W"))
<1> SUFFICES ASSUME Covers(l, o, b, "R"), Covers(l, o, b, "W") PROVE FALSE
  OBVIOUS
<1>1. PICK i \in 1..Len(l) : l[i].id = o /\ l[i].type = "R" /\ In(b, l[i])
  BY DEF Covers, In
<1>2. PICK j \in 1..Len(l) : l[j].id = o /\ l[j].type = "W" /\ In(b, l[j])
  BY DEF Covers, In
<1>3. i = j
  BY <1>1, <1>2, OneLock
<1> QED
  BY <1>1, <1>2, <1>3

\* A list that covers the same bytes stands for the same table.
LEMMA HeldSame ==
    ASSUME NEW l, GoodTable(l), NEW m, GoodTable(m), Unchanged(l, m), NEW o, NEW b \in 0..OFF_MAX
    PROVE  Held(m, o, b) = Held(l, o, b)
<1>1. Held(m, o, b) = ByteOf(m, o, b) /\ Held(l, o, b) = ByteOf(l, o, b)
  BY HeldIs
<1> QED
  BY <1>1 DEF ByteOf, Unchanged

\* A set or cleared range, byte by byte.
TypeSet(type) == IF type = "U" THEN "N" ELSE type

\* A list in which a range is set stands for the table in which it is.
LEMMA HeldSets ==
    ASSUME NEW l, GoodTable(l), NEW m, GoodTable(m), NEW lock, GoodRange(lock), Sets(l, m, lock),
           NEW o, NEW b \in 0..OFF_MAX
    PROVE  Held(m, o, b) = IF o = lock.id /\ b \in BytesOf(lock.start, lock.end)
                           THEN TypeSet(lock.type) ELSE Held(l, o, b)
<1>1. Held(m, o, b) = ByteOf(m, o, b) /\ Held(l, o, b) = ByteOf(l, o, b)
  BY HeldIs
<1>2. \A ty \in {"R", "W"} : Covers(m, o, b, ty) <=>
        IF o = lock.id /\ In(b, lock) THEN ty = lock.type ELSE Covers(l, o, b, ty)
  BY DEF Sets
<1>3. b \in BytesOf(lock.start, lock.end) <=> In(b, lock)
  BY BytesIn
<1>4. lock.type \in {"R", "W", "U"}
  BY DEF GoodRange, LockSet, Types
<1> QED
  BY <1>1, <1>2, <1>3, <1>4 DEF ByteOf, TypeSet

\* lf_getblock finds a lock that blocks the request, or there is none.
LEMMA GetBlock ==
    ASSUME NEW l, Len(l) \in Nat, DOMAIN l = 1..Len(l), NEW lock, NEW i, i = lf_getblock(l, lock)
    PROVE  /\ i \in 0..Len(l)
           /\ i # 0 => i \in 1..Len(l) /\ l[i].id # lock.id /\ Overlaps(l[i], lock) /\ "W" \in {l[i].type, lock.type}
           /\ i = 0 => \A j \in 1..Len(l) : l[j].id # lock.id /\ Overlaps(l[j], lock) => "W" \notin {l[j].type, lock.type}
<1> DEFINE B == { j \in DOMAIN l : /\ l[j].id # lock.id /\ Overlaps(l[j], lock) /\ "W" \in {l[j].type, lock.type} }
<1>1. i = IF B = {} THEN 0 ELSE Min(B)
  BY DEF lf_getblock
<1>2. B \subseteq Nat
  OBVIOUS
<1>3. B # {} => Min(B) \in B
  <2> HIDE DEF B
  <2> QED
    BY <1>2, MinProps
<1> QED
  BY <1>1, <1>3

\* A request that nothing blocks conflicts with no byte of another owner.
LEMMA FreeHeld ==
    ASSUME NEW l, GoodTable(l), NEW lock, GoodRange(lock), lock.type # "U", lf_getblock(l, lock) = 0,
           NEW p, p # lock.id, NEW b \in 0..OFF_MAX, b \in BytesOf(lock.start, lock.end)
    PROVE  Held(l, p, b) = "N" \/ (Held(l, p, b) = "R" /\ lock.type = "R")
<1>1. Len(l) \in Nat /\ DOMAIN l = 1..Len(l) /\ \A i \in 1..Len(l) : GoodRange(l[i])
  BY DEF GoodTable, GoodList
<1>2. \A j \in 1..Len(l) : l[j].id # lock.id /\ Overlaps(l[j], lock) => "W" \notin {l[j].type, lock.type}
  BY <1>1, GetBlock
<1>3. In(b, lock)
  BY BytesIn
<1>4. ASSUME NEW j \in 1..Len(l), l[j].id = p, In(b, l[j]) PROVE l[j].type # "W" /\ lock.type = "R"
  <2>1. l[j].start \in Int /\ Hi(l[j]) \in Int /\ lock.start \in Int /\ Hi(lock) \in Int
    BY <1>1, HiBounds
  <2>2. l[j].start <= Hi(lock) /\ lock.start <= Hi(l[j])
    BY <1>3, <1>4, <2>1 DEF In
  <2>3. Overlaps(l[j], lock)
    BY <1>1, <2>2, OverlapsHi
  <2>4. "W" \notin {l[j].type, lock.type}
    BY <1>2, <1>4, <2>3
  <2>5. lock.type \in {"R", "W", "U"}
    BY DEF GoodRange, LockSet, Types
  <2> QED
    BY <2>4, <2>5
<1>5. ~Covers(l, p, b, "W") /\ (Covers(l, p, b, "R") => lock.type = "R")
  BY <1>4 DEF Covers, In
<1>6. Held(l, p, b) = ByteOf(l, p, b)
  BY HeldIs
<1> QED
  BY <1>5, <1>6 DEF ByteOf

\* Two lists that only differ in the queues of the locks.
SameShape(l, m) ==
    /\ m \in Seq(LockSet) /\ Len(m) = Len(l)
    /\ \A i \in 1..Len(l) : /\ m[i].id = l[i].id /\ m[i].start = l[i].start /\ m[i].end = l[i].end
                            /\ m[i].type = l[i].type /\ m[i].kind = l[i].kind

\* A list that only differs in its queues is in order and covers the same bytes.
LEMMA ShapeKeeps ==
    ASSUME NEW l, GoodTable(l), NEW m, SameShape(l, m)
    PROVE  GoodTable(m) /\ Unchanged(l, m)
<1>1. Len(l) \in Nat /\ Len(m) = Len(l) /\ m \in Seq(LockSet)
  BY DEF GoodTable, GoodList, SameShape
<1>2. \A i \in 1..Len(l) : /\ m[i].id = l[i].id /\ m[i].start = l[i].start /\ m[i].end = l[i].end
                           /\ m[i].type = l[i].type /\ Hi(m[i]) = Hi(l[i])
  BY DEF SameShape, Hi
<1>3. GoodList(m)
  <2> SUFFICES ASSUME NEW i \in 1..Len(l) PROVE GoodRange(m[i]) /\ m[i].type # "U"
    BY <1>1 DEF GoodList
  <2>1. m[i] \in LockSet
    BY <1>1
  <2> QED
    BY <1>2, <2>1 DEF GoodTable, GoodList, GoodRange
<1>4. Increasing(m)
  BY <1>1, <1>2 DEF GoodTable, Increasing
<1>5. Contiguous(m)
  <2> SUFFICES ASSUME NEW a \in 1..Len(l), NEW b \in 1..Len(l), a < b, l[a].id = l[b].id, NEW c \in a..b
               PROVE  m[c].id = m[a].id
    BY <1>1, <1>2 DEF Contiguous
  <2>1. c \in 1..Len(l) /\ l[c].id = l[a].id
    BY <1>1 DEF GoodTable, Contiguous
  <2> QED
    BY <1>2, <2>1
<1>6. Apart(m)
  BY <1>1, <1>2 DEF GoodTable, Apart
<1>7. Unchanged(l, m)
  BY <1>1, <1>2 DEF Unchanged, Covers
<1> QED
  BY <1>3, <1>4, <1>5, <1>6, <1>7 DEF GoodTable
-----------------------------------------------------------------------------
States == {"idle", "scan", "pause", "checked", "asleep", "woken"}
LockRec == [id : Owners \cup {NULL}, kind : Kinds, start : 0..OFF_MAX, end : -1..OFF_MAX,
            type : Types, wake1 : BOOLEAN, blk : Seq(Threads)]
ReqSet == [v : Vnodes \cup {NULL}, wait : BOOLEAN, abort : BOOLEAN, lock : LockRec]

TypeInv ==
    /\ cast \in Casts
    /\ list \in [Vnodes -> Seq(LockSet)]
    /\ v_lock \in [Vnodes -> Threads \cup {NULL}]
    /\ req \in [Threads -> ReqSet]
    /\ pc \in [Threads -> States]
    /\ err \in [Threads -> {"OK", "EINTR", "EWOULDBLOCK"}]

\* A request of the owner w.
Asking(r, w) ==
    /\ r.v \in Vnodes /\ GoodRange(r.lock) /\ r.lock.type \in {"R", "W"}
    /\ r.lock.id = w.id /\ r.lock.kind = w.kind
    /\ \E range \in RequestRanges : r.lock.start = range[1] /\ r.lock.end = range[2]

TableInv ==
    /\ \A v \in Vnodes : GoodTable(list[v])
    /\ \A t \in Threads : pc[t] # "idle" => Asking(req[t], cast.who[t])

Inv0 == TypeInv /\ TableInv

TableStep == [Table!Next]_(Table!vars)

\* A request that only differs in what was left to it.
SameReq(a, b) == a.v = b.v /\ a.wait = b.wait /\ SameLock(a.lock, b.lock)

\* A request that only differs in what was left to it is well formed, ...
LEMMA AskingSame ==
    ASSUME NEW r \in ReqSet, NEW s, SameReq(r, s), NEW w, Asking(s, w)
    PROVE  Asking(r, w)
<1>1. r.lock \in LockRec /\ s.lock \in LockSet
  BY DEF ReqSet, Asking, GoodRange
<1>2. r.lock \in LockSet
  BY <1>1 DEF LockRec, LockSet, SameReq, SameLock
<1> QED
  BY <1>2 DEF SameReq, SameLock, Asking, GoodRange

\* ... and asks for the same.
LEMMA WantedSame ==
    ASSUME NEW r, NEW s, SameReq(r, s), NEW p, NEW q, p = "idle" <=> q = "idle"
    PROVE  Wanted(p, r) = Wanted(q, s)
  BY DEF Wanted, SameReq, SameLock

\* The ranges of requests.
LEMMA RangeGood ==
    ASSUME NoLastByte, NEW range \in RequestRanges
    PROVE  range = <<range[1], range[2]>> /\ range[1] \in 0..OFF_MAX /\ range[2] \in -1..(OFF_MAX - 1)
           /\ (range[2] = -1 \/ range[1] <= range[2])
<1>1. PICK f \in {Whole} \cup UNION { c.flocks : c \in Casts } : range \in FlockRange(f[1], f[2], f[3])
  BY DEF RequestRanges
<1>2. f[1] \in {"SEEK_SET", "SEEK_END"} /\ f[2] \in Int /\ f[3] \in Int
  <2>1. CASE f = Whole
    BY <2>1 DEF Whole
  <2>2. CASE f \in UNION { c.flocks : c \in Casts }
    <3>1. PICK c \in Casts : f \in c.flocks
      BY <2>2
    <3>2. f \in {"SEEK_SET", "SEEK_END"} \X Int \X Int
      BY <3>1, CastAssumption
    <3> QED
      BY <3>2
  <2> QED
    BY <2>1, <2>2
<1>3. OFF_MAX \in Nat /\ Size \in 0..OFF_MAX
  BY LockfAssumption
<1> DEFINE start == IF f[1] = "SEEK_END" THEN Size + f[2] ELSE f[2]
           l_len == f[3]
<1>4. start \in Int /\ l_len \in Int
  BY <1>2, <1>3
<1>5. range \in IF start < 0 \/ start > OFF_MAX THEN {}
       ELSE IF l_len < 0 THEN IF start + l_len < 0 THEN {} ELSE {<<start + l_len, start - 1>>}
       ELSE IF l_len = 0 THEN {<<start, -1>>}
       ELSE IF l_len - 1 > OFF_MAX - start THEN {} ELSE {<<start, start + l_len - 1>>}
  BY <1>1 DEF FlockRange
<1> HIDE DEF start, l_len
<1>6. range[2] # OFF_MAX
  BY DEF NoLastByte
<1>7. start >= 0 /\ start <= OFF_MAX
  BY <1>3, <1>4, <1>5
<1>8. CASE l_len < 0
  <2>1. range = <<start + l_len, start - 1>> /\ start + l_len >= 0
    BY <1>3, <1>4, <1>5, <1>7, <1>8
  <2> QED
    BY <1>3, <1>4, <1>7, <1>8, <2>1
<1>9. CASE l_len = 0
  <2>1. range = <<start, -1>>
    BY <1>3, <1>4, <1>5, <1>7, <1>9
  <2> QED
    BY <1>3, <1>4, <1>7, <1>9, <2>1
<1>10. CASE l_len > 0
  <2>1. range = <<start, start + l_len - 1>> /\ l_len - 1 <= OFF_MAX - start
    BY <1>3, <1>4, <1>5, <1>7, <1>10
  <2>2. start + l_len - 1 # OFF_MAX
    BY <1>6, <2>1
  <2> QED
    BY <1>3, <1>4, <1>7, <1>10, <2>1, <2>2
<1> QED
  BY <1>4, <1>8, <1>9, <1>10

\* A lock that is made of a request.
LEMMA LockfGood ==
    ASSUME NoLastByte, NEW range \in RequestRanges, NEW w \in [id : Owners, kind : Kinds], NEW type \in Types
    PROVE  /\ GoodRange(Lockf(w, range, type)) /\ Lockf(w, range, type).type = type
           /\ Lockf(w, range, type).id = w.id /\ Lockf(w, range, type).kind = w.kind
           /\ Lockf(w, range, type).start = range[1] /\ Lockf(w, range, type).end = range[2]
           /\ Lockf(w, range, type).blk = <<>> /\ Lockf(w, range, type).wake1 = (w.kind = "FLOCK")
<1>1. /\ range[1] \in 0..OFF_MAX /\ range[2] \in -1..(OFF_MAX - 1)
      /\ (range[2] = -1 \/ range[1] <= range[2])
  BY RangeGood
<1>2. OFF_MAX \in Nat /\ <<>> \in Seq(Threads)
  BY LockfAssumption
<1>3. range[2] \in -1..OFF_MAX /\ range[2] # OFF_MAX
  BY <1>1, <1>2
<1>4. Lockf(w, range, type) \in LockSet
  BY <1>1, <1>2, <1>3 DEF Lockf, LockSet
<1> QED
  BY <1>1, <1>3, <1>4 DEF Lockf, GoodRange

\* The range of a request is one of RequestRanges.
LEMMA FlocksRange ==
    ASSUME TypeInv, NEW t \in Threads, NEW flock \in FlocksOf(t) \cup {Whole}, NEW range \in FlockRange(flock[1], flock[2], flock[3])
    PROVE  range \in RequestRanges
<1>1. cast \in Casts
  BY DEF TypeInv
<1>2. flock \in {Whole} \cup UNION { c.flocks : c \in Casts }
  BY <1>1 DEF FlocksOf
<1> QED
  BY <1>2 DEF RequestRanges

\* Who asks.
LEMMA WhoType ==
    ASSUME TypeInv, NEW t \in Threads
    PROVE  cast.who[t] \in [id : Owners, kind : Kinds]
  BY CastAssumption DEF TypeInv

\* Woken only ends sleeps.
LEMMA WokenIs ==
    ASSUME NEW p \in [Threads -> States], NEW S
    PROVE  /\ Woken(p, S) \in [Threads -> States]
           /\ \A t \in Threads : /\ Woken(p, S)[t] = IF t \in S /\ p[t] = "asleep" THEN "woken" ELSE p[t]
                                 /\ Woken(p, S)[t] = "idle" <=> p[t] = "idle"
  BY DEF Woken, States

\* Chained only adds to the queues of requests.
LEMMA ChainedIs ==
    ASSUME NEW r \in [Threads -> ReqSet], NEW left \in [Threads -> Seq(Threads)]
    PROVE  /\ Chained(r, left) \in [Threads -> ReqSet]
           /\ \A t \in Threads : /\ SameReq(Chained(r, left)[t], r[t]) /\ Chained(r, left)[t].abort = r[t].abort
                                 /\ Chained(r, left)[t].lock.blk = r[t].lock.blk \o left[t]
<1> SUFFICES ASSUME NEW t \in Threads
             PROVE  /\ [r[t] EXCEPT !.lock.blk = @ \o left[t]] \in ReqSet
                    /\ SameReq([r[t] EXCEPT !.lock.blk = @ \o left[t]], r[t])
                    /\ [r[t] EXCEPT !.lock.blk = @ \o left[t]].abort = r[t].abort
                    /\ [r[t] EXCEPT !.lock.blk = @ \o left[t]].lock.blk = r[t].lock.blk \o left[t]
  BY DEF Chained
<1> DEFINE a == r[t]
           q == a.lock.blk \o left[t]
<1>1. a \in ReqSet /\ a.lock \in LockRec /\ a.lock.blk \in Seq(Threads) /\ left[t] \in Seq(Threads)
  BY DEF ReqSet, LockRec
<1>2. q \in Seq(Threads)
  BY <1>1
<1>3. [r[t] EXCEPT !.lock.blk = @ \o left[t]] = [a EXCEPT !.lock = [a.lock EXCEPT !.blk = q]]
  OBVIOUS
<1> HIDE DEF q, a
<1>4. /\ [a.lock EXCEPT !.blk = q] \in LockRec /\ SameLock([a.lock EXCEPT !.blk = q], a.lock)
      /\ [a.lock EXCEPT !.blk = q].blk = q
  BY <1>1, <1>2 DEF LockRec, SameLock
<1> DEFINE k == [a.lock EXCEPT !.blk = q]
<1> HIDE DEF k
<1>5. /\ [a EXCEPT !.lock = k] \in ReqSet /\ SameReq([a EXCEPT !.lock = k], a)
      /\ [a EXCEPT !.lock = k].abort = a.abort /\ [a EXCEPT !.lock = k].lock.blk = q
  BY <1>1, <1>4 DEF ReqSet, SameReq, k
<1> QED
  BY <1>3, <1>5 DEF k, q, a

\* A queue without one of its members.
LEMMA TailqIs ==
    ASSUME NEW q \in Seq(Threads), NEW t
    PROVE  TAILQ_REMOVE(q, t) \in Seq(Threads)
<1>1. CASE t \in ToSet(q)
  <2> DEFINE i == CHOOSE i \in DOMAIN q : q[i] = t
  <2>1. i \in DOMAIN q /\ q[i] = t
    BY <1>1 DEF ToSet
  <2>2. TAILQ_REMOVE(q, t) = RemoveAt(q, i)
    BY <1>1 DEF TAILQ_REMOVE
  <2> HIDE DEF i
  <2>3. RemoveAt(q, i) = Splice(q, i, i, <<>>)
    BY <2>1 DEF RemoveAt, Splice
  <2>4. Len(q) \in Nat /\ i \in 1..(Len(q) + 1) /\ i \in (i - 1)..Len(q) /\ <<>> \in Seq(Threads)
    BY <2>1
  <2> QED
    BY <2>2, <2>3, <2>4, SpliceProps
<1>2. CASE t \notin ToSet(q)
  BY <1>2 DEF TAILQ_REMOVE
<1> QED
  BY <1>1, <1>2

\* Unchained only takes a request off the queues of requests, ...
LEMMA UnchainedIs ==
    ASSUME NEW r \in [Threads -> ReqSet], NEW u
    PROVE  /\ Unchained(r, u) \in [Threads -> ReqSet]
           /\ \A t \in Threads : /\ SameReq(Unchained(r, u)[t], r[t]) /\ Unchained(r, u)[t].abort = r[t].abort
                                 /\ Unchained(r, u)[t].lock.blk = TAILQ_REMOVE(r[t].lock.blk, u)
<1> SUFFICES ASSUME NEW t \in Threads
             PROVE  /\ [r[t] EXCEPT !.lock.blk = TAILQ_REMOVE(@, u)] \in ReqSet
                    /\ SameReq([r[t] EXCEPT !.lock.blk = TAILQ_REMOVE(@, u)], r[t])
                    /\ [r[t] EXCEPT !.lock.blk = TAILQ_REMOVE(@, u)].abort = r[t].abort
                    /\ [r[t] EXCEPT !.lock.blk = TAILQ_REMOVE(@, u)].lock.blk = TAILQ_REMOVE(r[t].lock.blk, u)
  BY DEF Unchained
<1> DEFINE a == r[t]
           q == TAILQ_REMOVE(a.lock.blk, u)
<1>1. a \in ReqSet /\ a.lock \in LockRec /\ a.lock.blk \in Seq(Threads)
  BY DEF ReqSet, LockRec
<1>2. q \in Seq(Threads)
  BY <1>1, TailqIs
<1>3. [r[t] EXCEPT !.lock.blk = TAILQ_REMOVE(@, u)] = [a EXCEPT !.lock = [a.lock EXCEPT !.blk = q]]
  OBVIOUS
<1> HIDE DEF q, a
<1>4. /\ [a.lock EXCEPT !.blk = q] \in LockRec /\ SameLock([a.lock EXCEPT !.blk = q], a.lock)
      /\ [a.lock EXCEPT !.blk = q].blk = q
  BY <1>1, <1>2 DEF LockRec, SameLock
<1> DEFINE k == [a.lock EXCEPT !.blk = q]
<1> HIDE DEF k
<1>5. /\ [a EXCEPT !.lock = k] \in ReqSet /\ SameReq([a EXCEPT !.lock = k], a)
      /\ [a EXCEPT !.lock = k].abort = a.abort /\ [a EXCEPT !.lock = k].lock.blk = q
  BY <1>1, <1>4 DEF ReqSet, SameReq, k
<1> QED
  BY <1>3, <1>5 DEF k, q, a

\* ... and Unqueued off the queues of locks.
LEMMA UnqueuedIs ==
    ASSUME NEW l \in Seq(LockSet), NEW t, NEW m, m = Unqueued(l, t)
    PROVE  /\ SameShape(l, m)
           /\ \A i \in 1..Len(l) : m[i].wake1 = l[i].wake1 /\ m[i].blk = TAILQ_REMOVE(l[i].blk, t)
<1>1. Len(l) \in Nat /\ DOMAIN l = 1..Len(l) /\ \A i \in 1..Len(l) : l[i] \in LockSet
  OBVIOUS
<1>2. m = [i \in 1..Len(l) |-> [l[i] EXCEPT !.blk = TAILQ_REMOVE(@, t)]]
  BY <1>1 DEF Unqueued
<1>3. ASSUME NEW i \in 1..Len(l)
      PROVE  /\ [l[i] EXCEPT !.blk = TAILQ_REMOVE(@, t)] \in LockSet
             /\ SameLock([l[i] EXCEPT !.blk = TAILQ_REMOVE(@, t)], l[i])
             /\ [l[i] EXCEPT !.blk = TAILQ_REMOVE(@, t)].blk = TAILQ_REMOVE(l[i].blk, t)
  <2> DEFINE q == TAILQ_REMOVE(l[i].blk, t)
  <2>1. l[i] \in LockSet /\ l[i].blk \in Seq(Threads)
    BY <1>1 DEF LockSet
  <2>2. q \in Seq(Threads)
    BY <2>1, TailqIs
  <2> HIDE DEF q
  <2>3. [l[i] EXCEPT !.blk = q] \in LockSet /\ SameLock([l[i] EXCEPT !.blk = q], l[i]) /\ [l[i] EXCEPT !.blk = q].blk = q
    BY <2>1, <2>2 DEF LockSet, SameLock
  <2> QED
    BY <2>3 DEF q
<1>4. m \in Seq(LockSet) /\ Len(m) = Len(l)
  <2>1. m \in [1..Len(l) -> LockSet]
    BY <1>2, <1>3
  <2> QED
    BY <1>1, <2>1, SeqDef
<1> QED
  BY <1>2, <1>3, <1>4, ZenonT(60) DEF SameShape, SameLock
-----------------------------------------------------------------------------
\* The thread's request goes on as it was.
Keeps(t) == (pc'[t] = "idle" <=> pc[t] = "idle") /\ SameReq(req'[t], req[t])

\* A request that goes on as it was is well formed and asks for the same.
LEMMA KeepsAsking ==
    ASSUME Inv0, NEW t \in Threads, Keeps(t), req'[t] \in ReqSet, cast' = cast
    PROVE  /\ pc'[t] # "idle" => Asking(req'[t], cast'.who[t])
           /\ Wanted(pc'[t], req'[t]) = Wanted(pc[t], req[t])
<1>1. pc[t] # "idle" => Asking(req[t], cast.who[t])
  BY DEF Inv0, TableInv
<1> QED
  BY <1>1, AskingSame, WantedSame DEF Keeps

\* If all requests go on, nobody wants anything new.
LEMMA AllKeep ==
    ASSUME Inv0, req' \in [Threads -> ReqSet], cast' = cast, \A t \in Threads : Keeps(t)
    PROVE  /\ \A t \in Threads : pc'[t] # "idle" => Asking(req'[t], cast'.who[t])
           /\ WantTable' = WantTable
<1>1. \A t \in Threads : /\ pc'[t] # "idle" => Asking(req'[t], cast'.who[t])
                         /\ Wanted(pc'[t], req'[t]) = Wanted(pc[t], req[t])
  BY KeepsAsking
<1> QED
  BY <1>1 DEF WantTable

\* One thread's request changes.
LEMMA OthersKeep ==
    ASSUME Inv0, req' \in [Threads -> ReqSet], cast' = cast, NEW t \in Threads, \A u \in Threads \ {t} : Keeps(u),
           pc'[t] # "idle" => Asking(req'[t], cast'.who[t])
    PROVE  /\ \A u \in Threads : pc'[u] # "idle" => Asking(req'[u], cast'.who[u])
           /\ WantTable' = [WantTable EXCEPT ![t] = Wanted(pc'[t], req'[t])]
<1>1. \A u \in Threads \ {t} : /\ pc'[u] # "idle" => Asking(req'[u], cast'.who[u])
                               /\ Wanted(pc'[u], req'[u]) = Wanted(pc[u], req[u])
  BY KeepsAsking
<1> QED
  BY <1>1 DEF WantTable

\* One list changes.
LEMMA OneList ==
    ASSUME Inv0, NEW v \in Vnodes, NEW m, GoodTable(m), list' = [list EXCEPT ![v] = m]
    PROVE  /\ list' \in [Vnodes -> Seq(LockSet)] /\ list'[v] = m
           /\ \A u \in Vnodes : GoodTable(list'[u])
           /\ \A u \in Vnodes \ {v} : list'[u] = list[u]
  BY DEF Inv0, TypeInv, TableInv, GoodTable, GoodList

\* What an owner has, byte by byte.
LEMMA HeldByIs ==
    ASSUME NEW l, NEW o
    PROVE  HeldBy(l, o) = [b \in Bytes |-> Held(l, o, b)]
<1>1. (\A i \in DOMAIN l : l[i].id # o) => \A b : Held(l, o, b) = "N"
  BY DEF Held
<1> QED
  BY <1>1 DEF HeldBy

\* The table, byte by byte, before and after a step.
LEMMA HeldTableIs ==
    /\ HeldTable = [v \in Vnodes |-> [o \in Owners |-> [b \in Bytes |-> Held(list[v], o, b)]]]
    /\ HeldTable' = [v \in Vnodes |-> [o \in Owners |-> [b \in Bytes |-> Held(list'[v], o, b)]]]
<1>1. \A l, o : HeldBy(l, o) = [b \in Bytes |-> Held(l, o, b)]
  BY HeldByIs
<1> QED
  BY <1>1, Zenon DEF HeldTable

\* A list that covers the same bytes: the table stays.
LEMMA HeldStays ==
    ASSUME Inv0, NEW v \in Vnodes, NEW m, GoodTable(m), list' = [list EXCEPT ![v] = m], Unchanged(list[v], m)
    PROVE  HeldTable' = HeldTable
<1>1. GoodTable(list[v]) /\ list'[v] = m /\ \A u \in Vnodes \ {v} : list'[u] = list[u]
  BY OneList DEF Inv0, TableInv
<1>2. \A u \in Vnodes : \A o \in Owners : \A b \in Bytes : Held(list'[u], o, b) = Held(list[u], o, b)
  BY <1>1, HeldSame DEF Bytes
<1> QED
  BY <1>2, HeldTableIs

\* A list in which a range is set: Put, in the table.
LEMMA HeldSet ==
    ASSUME Inv0, NEW v \in Vnodes, NEW m, GoodTable(m), list' = [list EXCEPT ![v] = m], NEW lock, GoodRange(lock),
           Sets(list[v], m, lock)
    PROVE  HeldTable' = Table!Put(v, lock.id, BytesOf(lock.start, lock.end), TypeSet(lock.type))
<1>1. GoodTable(list[v]) /\ list'[v] = m /\ \A u \in Vnodes \ {v} : list'[u] = list[u]
  BY OneList DEF Inv0, TableInv
<1> DEFINE o == lock.id
           range == BytesOf(lock.start, lock.end)
           type == TypeSet(lock.type)
           row == [b \in Bytes |-> IF b \in range THEN type ELSE HeldTable[v][o][b]]
<1>2. o \in Owners
  BY DEF GoodRange, LockSet
<1>3. \A p, b : b \in Bytes => Held(m, p, b) = IF p = o /\ b \in range THEN type ELSE Held(list[v], p, b)
  BY <1>1, HeldSets DEF Bytes
<1> HIDE DEF range, type
<1>4. ASSUME NEW p \in Owners
      PROVE  [b \in Bytes |-> Held(list'[v], p, b)] = IF p = o THEN row ELSE [b \in Bytes |-> Held(list[v], p, b)]
  <2>1. CASE p = o
    <3>1. \A b \in Bytes : HeldTable[v][o][b] = Held(list[v], o, b)
      BY <1>2, HeldTableIs
    <3>2. \A b \in Bytes : row[b] = Held(list'[v], o, b)
      BY <1>1, <1>3, <3>1
    <3> QED
      BY <2>1, <3>2
  <2>2. CASE p # o
    <3>1. \A b \in Bytes : Held(list'[v], p, b) = Held(list[v], p, b)
      BY <1>1, <1>3, <2>2
    <3> QED
      BY <2>2, <3>1
  <2> QED
    BY <2>1, <2>2
<1> HIDE DEF row
<1> DEFINE H == [p \in Owners |-> [b \in Bytes |-> Held(list[v], p, b)]]
<1>5. [p \in Owners |-> [b \in Bytes |-> Held(list'[v], p, b)]] = [H EXCEPT ![o] = row]
  BY <1>2, <1>4
<1>6. HeldTable[v] = H
  BY HeldTableIs
<1>7. HeldTable' = [HeldTable EXCEPT ![v] = [H EXCEPT ![o] = row]]
  <2> DEFINE N == [H EXCEPT ![o] = row]
             G(l) == [p \in Owners |-> [b \in Bytes |-> Held(l, p, b)]]
  <2>1. HeldTable' = [u \in Vnodes |-> G(list'[u])] /\ HeldTable = [u \in Vnodes |-> G(list[u])]
    BY HeldTableIs
  <2>2. G(list'[v]) = N
    BY <1>5
  <2> HIDE DEF N, G
  <2>3. HeldTable' = [HeldTable EXCEPT ![v] = N]
    BY <1>1, <2>1, <2>2
  <2> QED
    BY <2>3 DEF N
<1>8. HeldTable' = [HeldTable EXCEPT ![v][o] = row]
  BY <1>6, <1>7
<1>9. HeldTable' = [HeldTable EXCEPT ![v][o] = [b \in Bytes |-> IF b \in range THEN type ELSE @[b]]]
  BY <1>8 DEF row
<1> QED
  BY <1>9 DEF Table!Put, range, type

\* The table stays as it is.
LEMMA TableStays ==
    ASSUME HeldTable' = HeldTable, WantTable' = WantTable
    PROVE  TableStep
  BY DEF TableStep, Table!vars

\* A thread's request ends.
LEMMA TableFails ==
    ASSUME Inv0, NEW t \in Threads, pc[t] # "idle", pc'[t] = "idle", HeldTable' = HeldTable,
           WantTable' = [WantTable EXCEPT ![t] = Wanted(pc'[t], req'[t])]
    PROVE  TableStep
<1>1. WantTable[t] = Wanted(pc[t], req[t]) /\ Wanted(pc'[t], req'[t]) = NoWant
  BY DEF WantTable, Wanted
<1>2. WantTable[t] # NoWant
  <2>1. req[t].lock.type \in {"R", "W"}
    BY DEF Inv0, TableInv, Asking
  <2>2. WantTable[t].type # "N"
    BY <1>1, <2>1 DEF Wanted
  <2> QED
    BY <2>2 DEF NoWant
<1>3. Table!Fail(t)
  BY <1>1, <1>2 DEF Table!Fail
<1> QED
  BY <1>3 DEF TableStep, Table!Next

\* lf_advlock for F_SETLK asks, in the table.
LEMMA setlk_table ==
    ASSUME NoLastByte, Inv0, NEW t \in Threads, NEW v \in cast.vnodes, NEW flock \in FlocksOf(t),
           NEW type \in cast.types, NEW wait \in BOOLEAN, lf_advlock_setlk(t, v, flock, type, wait)
    PROVE  Inv0' /\ TableStep
<1>1. TypeInv /\ cast \in Casts /\ v \in Vnodes /\ type \in {"R", "W"} /\ cast' = cast /\ list' = list
  BY CastAssumption DEF Inv0, TypeInv, lf_advlock_setlk
<1>2. PICK range \in FlockRange(flock[1], flock[2], flock[3]) :
        req' = [req EXCEPT ![t] = [v |-> v, wait |-> wait, abort |-> FALSE, lock |-> Lockf(cast.who[t], range, type)]]
  BY DEF lf_advlock_setlk
<1>3. range \in RequestRanges
  BY <1>1, FlocksRange
<1> DEFINE lock == Lockf(cast.who[t], range, type)
           r == [v |-> v, wait |-> wait, abort |-> FALSE, lock |-> lock]
<1>4. cast.who[t] \in [id : Owners, kind : Kinds] /\ type \in Types
  BY <1>1, WhoType DEF Types
<1>5. /\ GoodRange(lock) /\ lock.type = type
      /\ lock.id = cast.who[t].id /\ lock.kind = cast.who[t].kind
      /\ lock.start = range[1] /\ lock.end = range[2]
  BY <1>3, <1>4, LockfGood
<1> HIDE DEF lock
<1>6. r \in ReqSet /\ Asking(r, cast.who[t])
  <2>1. lock \in LockSet
    BY <1>5 DEF GoodRange
  <2>2. lock \in LockRec
    BY <2>1 DEF LockSet, LockRec
  <2>3. Asking(r, cast.who[t])
    BY <1>1, <1>3, <1>5 DEF Asking
  <2> QED
    BY <1>1, <2>2, <2>3 DEF ReqSet
<1>7. req' = [req EXCEPT ![t] = r]
  BY <1>2 DEF lock
<1> HIDE DEF r
<1>8. /\ req' \in [Threads -> ReqSet] /\ pc' \in [Threads -> States] /\ pc'[t] = "scan" /\ pc[t] = "idle" /\ req'[t] = r
      /\ v_lock' \in [Vnodes -> Threads \cup {NULL}] /\ err' \in [Threads -> {"OK", "EINTR", "EWOULDBLOCK"}]
      /\ \A u \in Threads \ {t} : pc'[u] = pc[u] /\ req'[u] = req[u]
  BY <1>1, <1>6, <1>7 DEF TypeInv, lf_advlock_setlk, States
<1>9. \A u \in Threads \ {t} : Keeps(u)
  BY <1>8 DEF Keeps, SameReq, SameLock
<1>10. /\ \A u \in Threads : pc'[u] # "idle" => Asking(req'[u], cast'.who[u])
       /\ WantTable' = [WantTable EXCEPT ![t] = Wanted(pc'[t], req'[t])]
  BY <1>1, <1>6, <1>8, <1>9, OthersKeep
<1>11. Inv0'
  BY <1>1, <1>8, <1>10 DEF Inv0, TypeInv, TableInv
<1>12. HeldTable' = HeldTable
  BY <1>1, HeldTableIs
<1>13. Wanted(pc'[t], req'[t]) \in Table!Requests
  <2>1. r.v \in Vnodes /\ r.lock.id \in Owners /\ r.lock.type \in {"R", "W"}
    BY <1>6 DEF Asking, GoodRange, LockSet
  <2>2. BytesOf(r.lock.start, r.lock.end) \in { BytesOf(range_1[1], range_1[2]) : range_1 \in RequestRanges }
    BY <1>6 DEF Asking
  <2> QED
    BY <1>8, <2>1, <2>2 DEF Wanted, Table!Requests
<1>14. WantTable[t] = NoWant
  BY <1>8 DEF WantTable, Wanted
<1>15. WantTable'[t] = Wanted(pc'[t], req'[t])
  BY DEF WantTable
<1>16. WantTable' = [WantTable EXCEPT ![t] = WantTable'[t]]
  BY <1>10, <1>15
<1>17. Table!Ask(t)
  BY <1>12, <1>13, <1>14, <1>15, <1>16 DEF Table!Ask
<1> QED
  BY <1>11, <1>17 DEF TableStep, Table!Next
-----------------------------------------------------------------------------
\* A lock in the place of another.
IsPut(m, l, i, x) ==
    m \in Seq(LockSet) /\ Len(m) = Len(l) /\ m[i] = x /\ \A j \in 1..Len(l) : j # i => m[j] = l[j]

\* A list in which one lock is replaced.
LEMMA PutAt ==
    ASSUME NEW l \in Seq(LockSet), NEW i \in 1..Len(l), NEW x \in LockSet, NEW m, m = [l EXCEPT ![i] = x]
    PROVE  IsPut(m, l, i, x)
<1>1. Len(l) \in Nat
  OBVIOUS
<1> QED
  BY <1>1, ExceptSeq DEF IsPut

\* A request joins the queue of a lock.
Enqueue(l, i, t, f) == [l EXCEPT ![i].blk = Append(@, t), ![i].wake1 = @ /\ f]
IsQueued(m, l, i, t, f) ==
    /\ SameShape(l, m) /\ \A j \in 1..Len(l) : j # i => m[j] = l[j]
    /\ i # 0 => m[i].blk = Append(l[i].blk, t) /\ m[i].wake1 = (l[i].wake1 /\ f)

\* A list in which a request joined a queue.
LEMMA QueuedIs ==
    ASSUME NEW l \in Seq(LockSet), NEW i \in 0..Len(l), NEW t \in Threads, NEW f \in BOOLEAN
    PROVE  IsQueued(Enqueue(l, i, t, f), l, i, t, f)
<1> SUFFICES ASSUME NEW m, m = [l EXCEPT ![i].blk = Append(@, t), ![i].wake1 = @ /\ f]
             PROVE  /\ SameShape(l, m) /\ \A j \in 1..Len(l) : j # i => m[j] = l[j]
                    /\ i # 0 => m[i].blk = Append(l[i].blk, t) /\ m[i].wake1 = (l[i].wake1 /\ f)
  BY Zenon DEF IsQueued, Enqueue
<1>1. Len(l) \in Nat /\ DOMAIN l = 1..Len(l) /\ \A j \in 1..Len(l) : l[j] \in LockSet
  OBVIOUS
<1>2. CASE i = 0
  <2>1. 0 \notin DOMAIN l
    BY <1>1
  <2>2. m = l
    BY <1>2, <2>1
  <2> QED
    BY <1>1, <1>2, <2>2 DEF SameShape
<1>3. CASE i # 0
  <2> DEFINE x == [l[i] EXCEPT !.blk = Append(l[i].blk, t), !.wake1 = l[i].wake1 /\ f]
  <2>1. i \in 1..Len(l)
    BY <1>1, <1>3
  <2>2. l[i] \in LockSet /\ l[i].blk \in Seq(Threads) /\ l[i].wake1 \in BOOLEAN
    BY <1>1, <2>1 DEF LockSet
  <2>3. Append(l[i].blk, t) \in Seq(Threads) /\ (l[i].wake1 /\ f) \in BOOLEAN
    BY <2>2
  <2>4. /\ x \in LockSet /\ x.blk = Append(l[i].blk, t) /\ x.wake1 = (l[i].wake1 /\ f)
        /\ x.id = l[i].id /\ x.start = l[i].start /\ x.end = l[i].end /\ x.type = l[i].type /\ x.kind = l[i].kind
    <3> DEFINE q == Append(l[i].blk, t)
               g == (l[i].wake1 /\ f)
    <3>1. q \in Seq(Threads) /\ g \in BOOLEAN /\ x = [l[i] EXCEPT !.blk = q, !.wake1 = g]
      BY <2>3
    <3> HIDE DEF q, g, x
    <3>2. /\ x \in LockSet /\ x.blk = q /\ x.wake1 = g
          /\ x.id = l[i].id /\ x.start = l[i].start /\ x.end = l[i].end /\ x.type = l[i].type /\ x.kind = l[i].kind
      BY <2>2, <3>1 DEF LockSet
    <3> QED
      BY <3>2 DEF q, g
  <2>5. m = [l EXCEPT ![i] = x]
    BY <1>1, <2>1, <2>2
  <2> HIDE DEF x
  <2>6. m \in Seq(LockSet) /\ Len(m) = Len(l) /\ m[i] = x /\ \A j \in 1..Len(l) : j # i => m[j] = l[j]
    <3>1. x \in LockSet
      BY <2>4
    <3>2. IsPut([l EXCEPT ![i] = x], l, i, x)
      BY <2>1, <3>1, PutAt
    <3>3. IsPut(m, l, i, x)
      BY <2>5, <3>2, Zenon
    <3> QED
      BY <3>3, Zenon DEF IsPut
  <2> QED
    BY <2>1, <2>4, <2>6 DEF SameShape
<1> QED
  BY <1>2, <1>3

\* The requests that were left to a request join the queue of a lock.
MoveTo(l, i, lock) == [l EXCEPT ![i] = lf_move_blocked(@, lock)]
IsMoved(m, l, i, lock) ==
    /\ SameShape(l, m) /\ \A j \in 1..Len(l) : j # i => m[j] = l[j]
    /\ m[i].blk = l[i].blk \o lock.blk /\ m[i].wake1 = l[i].wake1

\* A list in which a queue was moved to a lock.
LEMMA MovedIs ==
    ASSUME NEW l \in Seq(LockSet), NEW i \in 1..Len(l), NEW lock \in LockSet
    PROVE  IsMoved(MoveTo(l, i, lock), l, i, lock)
<1> SUFFICES ASSUME NEW m, m = [l EXCEPT ![i] = lf_move_blocked(@, lock)]
             PROVE  /\ SameShape(l, m) /\ \A j \in 1..Len(l) : j # i => m[j] = l[j]
                    /\ m[i].blk = l[i].blk \o lock.blk /\ m[i].wake1 = l[i].wake1
  BY Zenon DEF IsMoved, MoveTo
<1> DEFINE x == lf_move_blocked(l[i], lock)
<1>1. Len(l) \in Nat /\ l[i] \in LockSet
  OBVIOUS
<1>2. /\ x \in LockSet /\ x.blk = l[i].blk \o lock.blk /\ x.wake1 = l[i].wake1
      /\ x.id = l[i].id /\ x.start = l[i].start /\ x.end = l[i].end /\ x.type = l[i].type /\ x.kind = l[i].kind
  BY <1>1, MoveBlocked
<1>3. m = [l EXCEPT ![i] = x]
  OBVIOUS
<1> HIDE DEF x
<1>4. m \in Seq(LockSet) /\ Len(m) = Len(l) /\ m[i] = x /\ \A j \in 1..Len(l) : j # i => m[j] = l[j]
  BY <1>1, <1>2, <1>3, ExceptSeq
<1> QED
  BY <1>2, <1>4 DEF SameShape

\* The queue of one lock is emptied.
LEMMA EmptiedIs ==
    ASSUME NEW l, GoodList(l), NEW i \in 1..Len(l), NEW m, m = [l EXCEPT ![i] = Emptied(@)]
    PROVE  /\ SameShape(l, m) /\ \A j \in 1..Len(l) : j # i => m[j] = l[j]
           /\ m[i].blk = <<>> /\ m[i].wake1 = l[i].wake1
<1> DEFINE x == Emptied(l[i])
<1>1. Len(l) \in Nat /\ l \in Seq(LockSet) /\ GoodRange(l[i])
  BY DEF GoodList
<1>2. /\ x \in LockSet /\ x.blk = <<>> /\ x.wake1 = l[i].wake1
      /\ x.id = l[i].id /\ x.start = l[i].start /\ x.end = l[i].end /\ x.type = l[i].type /\ x.kind = l[i].kind
  BY <1>1, EmptiedProps
<1>3. m = [l EXCEPT ![i] = x]
  OBVIOUS
<1> HIDE DEF x
<1>4. m \in Seq(LockSet) /\ Len(m) = Len(l) /\ m[i] = x /\ \A j \in 1..Len(l) : j # i => m[j] = l[j]
  BY <1>1, <1>2, <1>3, ExceptSeq
<1> QED
  BY <1>2, <1>4 DEF SameShape

\* Two changes of queues are one.
LEMMA ShapeTrans ==
    ASSUME NEW a, NEW b, NEW c, SameShape(a, b), SameShape(b, c)
    PROVE  SameShape(a, c)
  BY DEF SameShape

\* What lf_advlock unlocks.
LEMMA unlck_is ==
    ASSUME NoLastByte, Inv0, NEW t \in Threads, NEW v \in Vnodes, NEW flock \in FlocksOf(t) \cup {Whole},
           lf_advlock_unlck(t, v, flock)
    PROVE  \E range, mem, lock, r :
             /\ range \in RequestRanges /\ mem \in BOOLEAN
             /\ lock = Lockf(cast.who[t], range, "U") /\ GoodRange(lock) /\ lock.type = "U" /\ lock.id = cast.who[t].id
             /\ lock.start = range[1] /\ lock.end = range[2] /\ lock.blk = <<>> /\ lock.kind = cast.who[t].kind
             /\ lock.wake1 = (lock.kind = "FLOCK") /\ range \in FlockRange(flock[1], flock[2], flock[3])
             /\ r = Walked(list[v], lock, mem) /\ r \in WalkSet /\ GoodTable(r.list)
             /\ Outcome(list[v], r.list, lock, r.error)
             /\ list' = [list EXCEPT ![v] = r.list] /\ pc' = Woken(pc, r.woken) /\ req' = Chained(req, r.left)
<1>1. PICK range \in FlockRange(flock[1], flock[2], flock[3]), mem \in Mem :
         /\ list' = [list EXCEPT ![v] = lf_clearlock(list[v], Lockf(cast.who[t], range, "U"), mem).list]
         /\ pc' = Woken(pc, lf_clearlock(list[v], Lockf(cast.who[t], range, "U"), mem).woken)
         /\ req' = Chained(req, lf_clearlock(list[v], Lockf(cast.who[t], range, "U"), mem).left)
  BY DEF lf_advlock_unlck
<1>2. TypeInv /\ GoodTable(list[v])
  BY DEF Inv0, TableInv
<1>3. range \in RequestRanges
  BY <1>2, FlocksRange
<1> DEFINE lock == Lockf(cast.who[t], range, "U")
           r == Walked(list[v], lock, mem)
<1>4. cast.who[t] \in [id : Owners, kind : Kinds] /\ "U" \in Types
  BY <1>2, WhoType DEF Types
<1>5. /\ GoodRange(lock) /\ lock.type = "U" /\ lock.id = cast.who[t].id
      /\ lock.start = range[1] /\ lock.end = range[2] /\ lock.blk = <<>> /\ lock.kind = cast.who[t].kind
      /\ lock.wake1 = (lock.kind = "FLOCK")
  BY <1>3, <1>4, LockfGood
<1>6. list' = [list EXCEPT ![v] = r.list] /\ pc' = Woken(pc, r.woken) /\ req' = Chained(req, r.left)
  BY <1>1 DEF lf_clearlock
<1>7. mem \in BOOLEAN
  BY DEF Mem
<1> HIDE DEF lock
<1>8. r \in WalkSet /\ GoodTable(r.list) /\ Outcome(list[v], r.list, lock, r.error)
  BY <1>2, <1>5, WalkedGeo
<1>9. lock = Lockf(cast.who[t], range, "U")
  BY DEF lock
<1> QED
  BY <1>3, <1>5, <1>6, <1>7, <1>8, <1>9

\* lf_advlock for F_UNLCK clears the range, in the table, or nothing.
LEMMA unlck_table ==
    ASSUME NoLastByte, Inv0, NEW t \in Threads, NEW v \in Vnodes, NEW flock \in FlocksOf(t) \cup {Whole},
           lf_advlock_unlck(t, v, flock)
    PROVE  Inv0' /\ TableStep
<1>1. PICK range, mem, lock, r :
        /\ range \in RequestRanges /\ mem \in BOOLEAN
        /\ GoodRange(lock) /\ lock.type = "U" /\ lock.id = cast.who[t].id /\ lock.start = range[1] /\ lock.end = range[2]
        /\ r \in WalkSet /\ GoodTable(r.list) /\ Outcome(list[v], r.list, lock, r.error)
        /\ list' = [list EXCEPT ![v] = r.list] /\ pc' = Woken(pc, r.woken) /\ req' = Chained(req, r.left)
  BY unlck_is
<1>2. TypeInv /\ cast' = cast /\ v_lock' = v_lock /\ err' = err
  BY DEF Inv0, lf_advlock_unlck
<1>3. list' \in [Vnodes -> Seq(LockSet)] /\ \A u \in Vnodes : GoodTable(list'[u])
  BY <1>1, OneList
<1>4. /\ pc' \in [Threads -> States] /\ req' \in [Threads -> ReqSet]
      /\ \A u \in Threads : Keeps(u)
  <2>1. pc \in [Threads -> States] /\ req \in [Threads -> ReqSet] /\ r.left \in [Threads -> Seq(Threads)]
    BY <1>1, <1>2 DEF TypeInv, WalkSet
  <2>2. /\ pc' \in [Threads -> States] /\ \A u \in Threads : pc'[u] = "idle" <=> pc[u] = "idle"
    BY <1>1, <2>1, WokenIs, ZenonT(60)
  <2>3. req' \in [Threads -> ReqSet] /\ \A u \in Threads : SameReq(req'[u], req[u])
    BY <1>1, <2>1, ChainedIs
  <2> QED
    BY <2>2, <2>3 DEF Keeps
<1>5. /\ \A u \in Threads : pc'[u] # "idle" => Asking(req'[u], cast'.who[u])
      /\ WantTable' = WantTable
  BY <1>2, <1>4, AllKeep
<1>6. Inv0'
  BY <1>2, <1>3, <1>4, <1>5 DEF Inv0, TypeInv, TableInv
<1>7. CASE r.error = "OK"
  <2>1. Sets(list[v], r.list, lock)
    BY <1>1, <1>7 DEF Outcome
  <2>2. HeldTable' = Table!Put(v, lock.id, BytesOf(lock.start, lock.end), TypeSet(lock.type))
    BY <1>1, <2>1, HeldSet
  <2>3. HeldTable' = Table!Put(v, lock.id, BytesOf(lock.start, lock.end), "N")
    BY <1>1, <2>2 DEF TypeSet
  <2>4. lock.id \in Owners /\ BytesOf(lock.start, lock.end) \in { BytesOf(range_1[1], range_1[2]) : range_1 \in RequestRanges }
    BY <1>1 DEF GoodRange, LockSet
  <2>5. Table!Clear
    BY <1>1, <1>5, <2>3, <2>4 DEF Table!Clear
  <2>6. Table!Next
    BY <2>5 DEF Table!Next
  <2> QED
    BY <1>6, <2>6 DEF TableStep
<1>8. CASE r.error # "OK"
  <2>1. Unchanged(list[v], r.list)
    BY <1>1, <1>8 DEF Outcome
  <2>2. HeldTable' = HeldTable
    BY <1>1, <2>1, HeldStays, Zenon
  <2> QED
    BY <1>5, <1>6, <2>2, TableStays
<1> QED
  BY <1>7, <1>8

\* What a request is granted.
Granted(t, mem, r) ==
    /\ mem \in BOOLEAN
    /\ r = Walked(list[req[t].v], req[t].lock, mem) /\ r \in WalkSet /\ GoodTable(r.list)
    /\ Outcome(list[req[t].v], r.list, req[t].lock, r.error)
    /\ req[t].v \in Vnodes /\ Asking(req[t], cast.who[t])
    /\ list' = [list EXCEPT ![req[t].v] = r.list] /\ pc' = [Woken(pc, r.woken) EXCEPT ![t] = "idle"]
    /\ req' = [Chained(req, r.left) EXCEPT ![t] = NoReq] /\ v_lock' = [v_lock EXCEPT ![req[t].v] = NULL]

\* A request that is granted: the walk, and what becomes of the state.
LEMMA grant_is ==
    ASSUME Inv0, NEW t \in Threads, setlock_grant(t)
    PROVE  \E mem, r : Granted(t, mem, r)
<1>1. PICK mem \in Mem :
         /\ list' = [list EXCEPT ![req[t].v] = Grant(list[req[t].v], req[t].lock, mem).list]
         /\ pc' = [Woken(pc, Grant(list[req[t].v], req[t].lock, mem).woken) EXCEPT ![t] = "idle"]
         /\ req' = [Chained(req, Grant(list[req[t].v], req[t].lock, mem).left) EXCEPT ![t] = NoReq]
         /\ v_lock' = [v_lock EXCEPT ![req[t].v] = NULL]
  BY Zenon DEF setlock_grant
<1>2. pc[t] # "idle"
  BY DEF setlock_grant
<1>3. Asking(req[t], cast.who[t]) /\ \A v \in Vnodes : GoodTable(list[v])
  BY <1>2 DEF Inv0, TableInv
<1>4. req[t].v \in Vnodes /\ GoodRange(req[t].lock) /\ GoodTable(list[req[t].v])
  BY <1>3 DEF Asking
<1> DEFINE r == Walked(list[req[t].v], req[t].lock, mem)
<1>5. /\ list' = [list EXCEPT ![req[t].v] = r.list] /\ pc' = [Woken(pc, r.woken) EXCEPT ![t] = "idle"]
      /\ req' = [Chained(req, r.left) EXCEPT ![t] = NoReq] /\ v_lock' = [v_lock EXCEPT ![req[t].v] = NULL]
  BY <1>1 DEF Grant
<1>6. mem \in BOOLEAN
  BY DEF Mem
<1>7. r \in WalkSet /\ GoodTable(r.list) /\ Outcome(list[req[t].v], r.list, req[t].lock, r.error)
  BY <1>4, WalkedGeo
<1> HIDE DEF r
<1>8. r = Walked(list[req[t].v], req[t].lock, mem)
  BY DEF r
<1>9. Granted(t, mem, r)
  BY <1>3, <1>4, <1>5, <1>6, <1>7, <1>8, Zenon DEF Granted
<1> QED
  BY <1>9

\* A thread without a request.
LEMMA NoReqType == NoReq \in ReqSet /\ NoReq.lock.blk = <<>>
<1>1. OFF_MAX \in Nat /\ <<>> \in Seq(Threads)
  BY LockfAssumption
<1>2. 0 \in 0..OFF_MAX /\ 0 \in -1..OFF_MAX
  BY <1>1
<1> QED
  BY <1>1, <1>2 DEF NoReq, ReqSet, LockRec, Lockf, Kinds, Types

\* A request that is not blocked sets its range, in the table, or fails.
LEMMA grant_table ==
    ASSUME Inv0, NEW t \in Threads, setlock_grant(t)
    PROVE  Inv0' /\ TableStep
<1> DEFINE v == req[t].v
           lock == req[t].lock
<1>0. PICK mem, r : Granted(t, mem, r)
  BY grant_is
<1>1. /\ r \in WalkSet /\ GoodTable(r.list)
      /\ Outcome(list[req[t].v], r.list, req[t].lock, r.error)
      /\ req[t].v \in Vnodes /\ Asking(req[t], cast.who[t])
      /\ list' = [list EXCEPT ![req[t].v] = r.list] /\ pc' = [Woken(pc, r.woken) EXCEPT ![t] = "idle"]
      /\ req' = [Chained(req, r.left) EXCEPT ![t] = NoReq] /\ v_lock' = [v_lock EXCEPT ![req[t].v] = NULL]
  BY <1>0, Zenon DEF Granted
<1>2. /\ TypeInv /\ cast' = cast /\ err' = err /\ pc[t] = "scan" /\ lf_getblock(list[v], lock) = 0
      /\ GoodTable(list[v]) /\ GoodRange(lock) /\ lock.type \in {"R", "W"}
  BY <1>1 DEF Inv0, TableInv, setlock_grant, Asking
<1>3. list' \in [Vnodes -> Seq(LockSet)] /\ \A u \in Vnodes : GoodTable(list'[u])
  BY <1>1, OneList
<1>4. /\ pc' \in [Threads -> States] /\ req' \in [Threads -> ReqSet] /\ pc'[t] = "idle"
      /\ \A u \in Threads \ {t} : Keeps(u)
  <2>1. pc \in [Threads -> States] /\ req \in [Threads -> ReqSet] /\ r.left \in [Threads -> Seq(Threads)]
    BY <1>1, <1>2 DEF TypeInv, WalkSet
  <2> DEFINE p == Woken(pc, r.woken)
             q == Chained(req, r.left)
  <2>2. /\ p \in [Threads -> States] /\ \A u \in Threads : p[u] = "idle" <=> pc[u] = "idle"
    BY <2>1, WokenIs
  <2>3. q \in [Threads -> ReqSet] /\ \A u \in Threads : SameReq(q[u], req[u])
    BY <2>1, ChainedIs
  <2>4. pc' = [p EXCEPT ![t] = "idle"] /\ req' = [q EXCEPT ![t] = NoReq]
    BY <1>1
  <2> HIDE DEF p, q
  <2>5. pc' \in [Threads -> States] /\ pc'[t] = "idle" /\ \A u \in Threads \ {t} : pc'[u] = p[u]
    BY <2>2, <2>4 DEF States
  <2>6. req' \in [Threads -> ReqSet] /\ \A u \in Threads \ {t} : req'[u] = q[u]
    BY <2>3, <2>4, NoReqType
  <2> QED
    BY <2>2, <2>3, <2>5, <2>6 DEF Keeps
<1>5. /\ \A u \in Threads : pc'[u] # "idle" => Asking(req'[u], cast'.who[u])
      /\ WantTable' = [WantTable EXCEPT ![t] = Wanted(pc'[t], req'[t])]
  BY <1>2, <1>4, OthersKeep
<1>6. v_lock' \in [Vnodes -> Threads \cup {NULL}]
  BY <1>1, <1>2 DEF TypeInv
<1>7. Inv0'
  BY <1>2, <1>3, <1>4, <1>5, <1>6 DEF Inv0, TypeInv, TableInv
<1>8. CASE r.error = "OK"
  <2>1. Sets(list[v], r.list, lock)
    BY <1>1, <1>8 DEF Outcome
  <2>2. HeldTable' = Table!Put(v, lock.id, BytesOf(lock.start, lock.end), TypeSet(lock.type))
    BY <1>1, <1>2, <2>1, HeldSet
  <2>3. TypeSet(lock.type) = lock.type
    BY <1>2 DEF TypeSet
  <2>4. HeldTable' = Table!Put(v, lock.id, BytesOf(lock.start, lock.end), lock.type)
    BY <2>2, <2>3
  <2> DEFINE W == WantTable[t]
  <2>5. W.v = v /\ W.o = lock.id /\ W.range = BytesOf(lock.start, lock.end) /\ W.type = lock.type
    BY <1>2 DEF WantTable, Wanted
  <2>6. W # NoWant /\ Wanted(pc'[t], req'[t]) = NoWant
    <3>1. NoWant.type = "N"
      BY DEF NoWant
    <3>2. W.type # "N"
      BY <1>2, <2>5
    <3> QED
      BY <1>4, <3>1, <3>2 DEF Wanted
  <2> HIDE DEF W
  <2>7. HeldTable' = Table!Put(W.v, W.o, W.range, W.type)
    BY <2>4, <2>5
  <2>8. Table!Free(W)
    <3> SUFFICES ASSUME NEW p \in Owners \ {W.o}, NEW b \in W.range \cap Bytes
                 PROVE  HeldTable[W.v][p][b] = "N" \/ (HeldTable[W.v][p][b] = "R" /\ W.type = "R")
      BY DEF Table!Free
    <3>1. b \in 0..OFF_MAX /\ b \in BytesOf(lock.start, lock.end) /\ p # lock.id
      BY <2>5 DEF Bytes
    <3>2. Held(list[v], p, b) = "N" \/ (Held(list[v], p, b) = "R" /\ lock.type = "R")
      BY <1>2, <3>1, FreeHeld
    <3>3. HeldTable[v][p][b] = Held(list[v], p, b)
      BY <1>1, HeldTableIs
    <3> QED
      BY <2>5, <3>2, <3>3
  <2>9. Table!Set(t)
    BY <1>5, <2>6, <2>7, <2>8 DEF Table!Set, W
  <2>10. Table!Next
    BY <2>9 DEF Table!Next
  <2> QED
    BY <1>7, <2>10 DEF TableStep
<1>9. CASE r.error # "OK"
  <2>1. Unchanged(list[v], r.list)
    BY <1>1, <1>9 DEF Outcome
  <2>2. HeldTable' = HeldTable
    BY <1>1, <2>1, HeldStays
  <2> QED
    BY <1>2, <1>4, <1>5, <1>7, <2>2, TableFails
<1> QED
  BY <1>8, <1>9
-----------------------------------------------------------------------------
Typed ==
    /\ v_lock' \in [Vnodes -> Threads \cup {NULL}] /\ pc' \in [Threads -> States] /\ req' \in [Threads -> ReqSet]
    /\ err' \in [Threads -> {"OK", "EINTR", "EWOULDBLOCK"}]

\* A step that leaves the table as it is.
LEMMA StaysStep ==
    ASSUME Inv0, cast' = cast, Typed, NEW v \in Vnodes, NEW m, GoodTable(m), Unchanged(list[v], m),
           list' = [list EXCEPT ![v] = m], \A t \in Threads : Keeps(t)
    PROVE  Inv0' /\ TableStep
<1>1. list' \in [Vnodes -> Seq(LockSet)] /\ \A u \in Vnodes : GoodTable(list'[u])
  BY OneList
<1>2. HeldTable' = HeldTable
  BY HeldStays
<1>3. /\ \A t \in Threads : pc'[t] # "idle" => Asking(req'[t], cast'.who[t])
      /\ WantTable' = WantTable
  BY AllKeep DEF Typed
<1>4. Inv0'
  BY <1>1, <1>3 DEF Inv0, TypeInv, TableInv, Typed
<1> QED
  BY <1>2, <1>3, <1>4, TableStays

\* A step that ends a request and leaves the locks as they are.
LEMMA FailsStep ==
    ASSUME Inv0, cast' = cast, Typed, NEW v \in Vnodes, NEW m, GoodTable(m), Unchanged(list[v], m),
           list' = [list EXCEPT ![v] = m], NEW t \in Threads, pc[t] # "idle", pc'[t] = "idle",
           \A u \in Threads \ {t} : Keeps(u)
    PROVE  Inv0' /\ TableStep
<1>1. list' \in [Vnodes -> Seq(LockSet)] /\ \A u \in Vnodes : GoodTable(list'[u])
  BY OneList
<1>2. HeldTable' = HeldTable
  BY HeldStays
<1>3. /\ \A u \in Threads : pc'[u] # "idle" => Asking(req'[u], cast'.who[u])
      /\ WantTable' = [WantTable EXCEPT ![t] = Wanted(pc'[t], req'[t])]
  BY OthersKeep DEF Typed
<1>4. Inv0'
  BY <1>1, <1>3 DEF Inv0, TypeInv, TableInv, Typed
<1> QED
  BY <1>2, <1>3, <1>4, TableFails

\* The list is not touched.
LEMMA ListStays ==
    ASSUME Inv0, NEW v \in Vnodes, list' = list
    PROVE  GoodTable(list[v]) /\ Unchanged(list[v], list[v]) /\ list' = [list EXCEPT ![v] = list[v]]
  BY DEF Inv0, TypeInv, TableInv, Unchanged

\* The request of a thread that is in lf_setlock.
LEMMA ReqThere ==
    ASSUME Inv0, NEW t \in Threads, pc[t] # "idle"
    PROVE  /\ Asking(req[t], cast.who[t]) /\ req[t].v \in Vnodes /\ GoodRange(req[t].lock)
           /\ GoodTable(list[req[t].v]) /\ TypeInv
  BY DEF Inv0, TableInv, Asking

\* A request that returns with an error fails, in the table.
LEMMA return_table ==
    ASSUME Inv0, NEW t \in Threads, pc[t] # "idle", Return(t), cast' = cast, list' = list, err' = err
    PROVE  Inv0' /\ TableStep
<1>1. req[t].v \in Vnodes /\ TypeInv
  BY ReqThere
<1>2. pc'[t] = "idle" /\ \A u \in Threads \ {t} : pc'[u] = pc[u] /\ req'[u] = req[u]
  BY <1>1 DEF Return, TypeInv
<1>3. Typed
  BY <1>1, NoReqType DEF Return, TypeInv, Typed, States
<1>4. \A u \in Threads \ {t} : Keeps(u)
  BY <1>2 DEF Keeps, SameReq, SameLock
<1>5. GoodTable(list[req[t].v]) /\ Unchanged(list[req[t].v], list[req[t].v]) /\ list' = [list EXCEPT ![req[t].v] = list[req[t].v]]
  BY <1>1, ListStays
<1> QED
  BY <1>1, <1>2, <1>3, <1>4, <1>5, FailsStep

\* A step of the program counter alone is none, in the table.
LEMMA quiet_table ==
    ASSUME Inv0, NEW t \in Threads, pc[t] # "idle", Typed, cast' = cast, list' = list, req' = req,
           \A u \in Threads : pc'[u] = "idle" <=> pc[u] = "idle"
    PROVE  Inv0' /\ TableStep
<1>1. req[t].v \in Vnodes /\ TypeInv
  BY ReqThere
<1>4. \A u \in Threads : Keeps(u)
  BY DEF Keeps, SameReq, SameLock
<1>5. GoodTable(list[req[t].v]) /\ Unchanged(list[req[t].v], list[req[t].v]) /\ list' = [list EXCEPT ![req[t].v] = list[req[t].v]]
  BY <1>1, ListStays
<1> QED
  BY <1>1, <1>4, <1>5, StaysStep

\* EAGAIN, EDEADLK, the pause, the check and the end of msleep, in the table.
LEMMA small_table ==
    ASSUME Inv0, NEW t \in Threads, NEW error \in {"OK", "EINTR", "EWOULDBLOCK"},
           \/ setlock_nowait(t) \/ setlock_deadlock(t) \/ setlock_pause(t) \/ pause_ends(t)
           \/ setlock_checked(t) \/ msleep_ends(t, error)
    PROVE  Inv0' /\ TableStep
<1>1. CASE setlock_nowait(t) \/ setlock_deadlock(t)
  <2>1. pc[t] # "idle" /\ Return(t) /\ cast' = cast /\ list' = list /\ err' = err
    BY <1>1 DEF setlock_nowait, setlock_deadlock
  <2> QED
    BY <2>1, return_table
<1>2. CASE setlock_pause(t) \/ pause_ends(t) \/ setlock_checked(t) \/ msleep_ends(t, error)
  <2>1. pc[t] # "idle" /\ cast' = cast /\ list' = list /\ req' = req
    BY <1>2 DEF setlock_pause, pause_ends, setlock_checked, msleep_ends
  <2>2. req[t].v \in Vnodes /\ TypeInv
    BY <2>1, ReqThere
  <2>3. Typed
    <3>1. v_lock' \in [Vnodes -> Threads \cup {NULL}]
      BY <1>2, <2>1, <2>2 DEF setlock_pause, pause_ends, setlock_checked, msleep_ends, TypeInv
    <3>2. pc' \in [Threads -> States] /\ err' \in [Threads -> {"OK", "EINTR", "EWOULDBLOCK"}]
      BY <1>2, <2>1, <2>2 DEF setlock_pause, pause_ends, setlock_checked, msleep_ends, TypeInv, States
    <3> QED
      BY <2>1, <2>2, <3>1, <3>2 DEF Typed, TypeInv
  <2>4. \A u \in Threads : pc'[u] = "idle" <=> pc[u] = "idle"
    BY <1>2, <2>1, <2>2 DEF setlock_pause, pause_ends, setlock_checked, msleep_ends, TypeInv, States
  <2> QED
    BY <2>1, <2>3, <2>4, quiet_table
<1> QED
  BY <1>1, <1>2

\* What a request that goes to sleep gives up.
Yields(t) == cast.who[t].kind = "FLOCK" /\ req[t].lock.type = "W"

\* The list that a request leaves when it goes to sleep, before it queues up.
LEMMA YieldIs ==
    ASSUME Inv0, NEW t \in Threads, pc[t] # "idle", NEW r, r = Yield(t)
    PROVE  /\ r.list \in Seq(LockSet) /\ GoodTable(r.list) /\ r.woken \subseteq Threads /\ r.left \in [Threads -> Seq(Threads)]
           /\ Yields(t) => \E lock, mem : /\ GoodRange(lock) /\ lock = [req[t].lock EXCEPT !.type = "U"]
                                     /\ lock.type = "U" /\ lock.id = req[t].lock.id /\ lock.kind = req[t].lock.kind
                                     /\ lock.start = req[t].lock.start /\ lock.end = req[t].lock.end
                                     /\ lock.blk = req[t].lock.blk /\ lock.wake1 = req[t].lock.wake1
                                     /\ r = Walked(list[req[t].v], lock, mem)
                                     /\ Outcome(list[req[t].v], r.list, lock, r.error)
           /\ ~Yields(t) => /\ r.list = list[req[t].v] /\ r.woken = {}
                            /\ r.left = [u \in Threads |-> <<>>]
<1> DEFINE l == list[req[t].v]
<1>1. req[t].v \in Vnodes /\ GoodRange(req[t].lock) /\ GoodTable(l) /\ TypeInv
  BY ReqThere
<1>2. l \in Seq(LockSet)
  BY <1>1, SMTT(30) DEF GoodTable, GoodList
<1>3. CASE Yields(t)
  <2> DEFINE lock == [req[t].lock EXCEPT !.type = "U"]
  <2>1. r = Walked(l, lock, TRUE)
    BY <1>3 DEF Yield, Yields, lf_clearlock
  <2>2. /\ GoodRange(lock) /\ lock.type = "U" /\ lock.id = req[t].lock.id /\ lock.kind = req[t].lock.kind
        /\ lock.start = req[t].lock.start /\ lock.end = req[t].lock.end
        /\ lock.blk = req[t].lock.blk /\ lock.wake1 = req[t].lock.wake1
    BY <1>1 DEF GoodRange, LockSet, Types
  <2>3. lock = [req[t].lock EXCEPT !.type = "U"]
    OBVIOUS
  <2> HIDE DEF lock
  <2>4. r \in WalkSet /\ GoodTable(r.list) /\ Outcome(l, r.list, lock, r.error)
    BY <1>1, <2>1, <2>2, WalkedGeo, ZenonT(60)
  <2>5. r.list \in Seq(LockSet) /\ r.woken \subseteq Threads /\ r.left \in [Threads -> Seq(Threads)]
    BY <2>4 DEF WalkSet
  <2> QED
    BY <1>3, <2>1, <2>2, <2>3, <2>4, <2>5
<1>4. CASE ~Yields(t)
  <2>1. r = Walk(l, req[t].lock)
    BY <1>4 DEF Yield, Yields
  <2>2. r.list = l /\ r.woken = {} /\ r.left = [u \in Threads |-> <<>>]
    BY <2>1 DEF Walk
  <2> QED
    BY <1>1, <1>2, <1>4, <2>2
<1> QED
  BY <1>3, <1>4

\* Where a request that goes to sleep is queued.
LEMMA sleep_is ==
    ASSUME Inv0, NEW t \in Threads, setlock_sleep(t)
    PROVE  \E r, i, m : /\ r = Yield(t) /\ i = lf_getblock(r.list, req[t].lock) /\ i \in 0..Len(r.list)
                        /\ SameShape(r.list, m) /\ \A j \in 1..Len(r.list) : j # i => m[j] = r.list[j]
                        /\ i # 0 => m[i].blk = Append(r.list[i].blk, t)
                                    /\ m[i].wake1 = (r.list[i].wake1 /\ cast.who[t].kind = "FLOCK")
                        /\ list' = [list EXCEPT ![req[t].v] = m]
                        /\ pc' = [Woken(pc, r.woken) EXCEPT ![t] = "asleep"] /\ req' = Chained(req, r.left)
                        /\ v_lock' = [v_lock EXCEPT ![req[t].v] = NULL]
<1> DEFINE r == Yield(t)
           i == lf_getblock(r.list, req[t].lock)
           f == (cast.who[t].kind = "FLOCK")
           m == [r.list EXCEPT ![i].blk = Append(@, t), ![i].wake1 = @ /\ f]
<1>1. /\ list' = [list EXCEPT ![req[t].v] = m]
      /\ pc' = [Woken(pc, r.woken) EXCEPT ![t] = "asleep"] /\ req' = Chained(req, r.left)
      /\ v_lock' = [v_lock EXCEPT ![req[t].v] = NULL] /\ pc[t] # "idle"
  BY DEF setlock_sleep
<1> HIDE DEF r
<1>2. r.list \in Seq(LockSet)
  BY <1>1, YieldIs DEF r
<1>3. Len(r.list) \in Nat /\ DOMAIN r.list = 1..Len(r.list)
  BY <1>2
<1>4. i \in 0..Len(r.list)
  BY <1>3, GetBlock
<1> HIDE DEF i
<1>5. f \in BOOLEAN
  OBVIOUS
<1> HIDE DEF f
<1>6. /\ SameShape(r.list, m) /\ \A j \in 1..Len(r.list) : j # i => m[j] = r.list[j]
      /\ i # 0 => m[i].blk = Append(r.list[i].blk, t) /\ m[i].wake1 = (r.list[i].wake1 /\ f)
  <2>1. m = Enqueue(r.list, i, t, f)
    BY Zenon DEF Enqueue
  <2> HIDE DEF m
  <2>2. IsQueued(Enqueue(r.list, i, t, f), r.list, i, t, f)
    BY <1>2, <1>4, <1>5, QueuedIs
  <2>3. IsQueued(m, r.list, i, t, f)
    BY <2>1, <2>2, Zenon
  <2> QED
    BY <2>3, Zenon DEF IsQueued
<1> HIDE DEF m
<1>7. r = Yield(t) /\ i = lf_getblock(r.list, req[t].lock)
  BY DEF r, i
<1> QED
  BY <1>1, <1>4, <1>6, <1>7 DEF f

\* A request that goes to sleep yields, in the table, or nothing happens there.
LEMMA sleep_table ==
    ASSUME Inv0, NEW t \in Threads, setlock_sleep(t)
    PROVE  Inv0' /\ TableStep
<1> DEFINE v == req[t].v
           lock == req[t].lock
<1>1. PICK r, i, m : /\ r = Yield(t) /\ SameShape(r.list, m) /\ list' = [list EXCEPT ![v] = m]
                     /\ pc' = [Woken(pc, r.woken) EXCEPT ![t] = "asleep"] /\ req' = Chained(req, r.left)
                     /\ v_lock' = [v_lock EXCEPT ![v] = NULL]
  BY sleep_is
<1>2. pc[t] = "checked" /\ cast' = cast /\ err' = [err EXCEPT ![t] = "OK"]
  BY DEF setlock_sleep
<1>3. v \in Vnodes /\ GoodRange(lock) /\ GoodTable(list[v]) /\ TypeInv /\ Asking(req[t], cast.who[t])
  BY <1>2, ReqThere
<1>4. /\ r.list \in Seq(LockSet) /\ GoodTable(r.list) /\ r.woken \subseteq Threads /\ r.left \in [Threads -> Seq(Threads)]
  BY <1>1, <1>2, YieldIs
<1>5. GoodTable(m) /\ Unchanged(r.list, m)
  BY <1>1, <1>4, ShapeKeeps
<1>6. Typed /\ \A u \in Threads : Keeps(u)
  <2> DEFINE p == Woken(pc, r.woken)
  <2>1. pc \in [Threads -> States] /\ req \in [Threads -> ReqSet] /\ v_lock \in [Vnodes -> Threads \cup {NULL}]
        /\ err \in [Threads -> {"OK", "EINTR", "EWOULDBLOCK"}]
    BY <1>3 DEF TypeInv
  <2>2. /\ p \in [Threads -> States] /\ \A u \in Threads : p[u] = "idle" <=> pc[u] = "idle"
    BY <2>1, WokenIs
  <2>3. req' \in [Threads -> ReqSet] /\ \A u \in Threads : SameReq(req'[u], req[u])
    BY <1>1, <1>4, <2>1, ChainedIs
  <2>4. pc' = [p EXCEPT ![t] = "asleep"]
    BY <1>1
  <2> HIDE DEF p
  <2>5. pc' \in [Threads -> States] /\ \A u \in Threads : pc'[u] = "idle" <=> pc[u] = "idle"
    BY <1>2, <2>2, <2>4 DEF States
  <2>6. v_lock' \in [Vnodes -> Threads \cup {NULL}] /\ err' \in [Threads -> {"OK", "EINTR", "EWOULDBLOCK"}]
    BY <1>1, <1>2, <2>1
  <2> QED
    BY <2>3, <2>5, <2>6 DEF Typed, Keeps
<1>7. CASE Unchanged(list[v], r.list)
  <2>1. Unchanged(list[v], m)
    BY <1>5, <1>7 DEF Unchanged
  <2> QED
    BY <1>1, <1>2, <1>3, <1>5, <1>6, <2>1, StaysStep
<1>8. CASE ~Unchanged(list[v], r.list)
  <2>1. Yields(t)
    BY <1>1, <1>2, <1>8, YieldIs DEF Unchanged
  <2>2. PICK k : /\ GoodRange(k) /\ k.type = "U" /\ k.id = lock.id /\ k.start = lock.start /\ k.end = lock.end
                 /\ Outcome(list[v], r.list, k, r.error)
    BY <1>1, <1>2, <2>1, YieldIs
  <2>3. Sets(list[v], r.list, k)
    BY <1>8, <2>2 DEF Outcome
  <2>4. Sets(list[v], m, k)
    BY <1>5, <2>3 DEF Sets, Unchanged
  <2>5. HeldTable' = Table!Put(v, k.id, BytesOf(k.start, k.end), TypeSet(k.type))
    BY <1>1, <1>3, <1>5, <2>2, <2>4, HeldSet
  <2>6. HeldTable' = Table!Put(v, lock.id, BytesOf(lock.start, lock.end), "N")
    BY <2>2, <2>5 DEF TypeSet
  <2> DEFINE W == WantTable[t]
  <2>7. W.v = v /\ W.o = lock.id /\ W.range = BytesOf(lock.start, lock.end) /\ W.type = lock.type
    BY <1>2 DEF WantTable, Wanted
  <2>8. W # NoWant /\ W.type = "W"
    <3>1. NoWant.type = "N"
      BY DEF NoWant
    <3>2. W.type = "W"
      BY <2>1, <2>7 DEF Yields
    <3> QED
      BY <3>1, <3>2
  <2> HIDE DEF W
  <2>9. HeldTable' = Table!Put(W.v, W.o, W.range, "N")
    BY <2>6, <2>7
  <2>10. /\ \A u \in Threads : pc'[u] # "idle" => Asking(req'[u], cast'.who[u])
         /\ WantTable' = WantTable
    BY <1>2, <1>6, AllKeep DEF Typed
  <2>11. Table!Yield(t)
    BY <2>8, <2>9, <2>10 DEF Table!Yield, W
  <2>12. list' \in [Vnodes -> Seq(LockSet)] /\ \A u \in Vnodes : GoodTable(list'[u])
    BY <1>1, <1>3, <1>5, OneList
  <2>13. Inv0'
    BY <1>2, <1>3, <1>6, <2>10, <2>12 DEF Inv0, TypeInv, TableInv, Typed
  <2>14. Table!Next
    BY <2>11 DEF Table!Next
  <2> QED
    BY <2>13, <2>14 DEF TableStep
<1> QED
  BY <1>7, <1>8
-----------------------------------------------------------------------------
\* The list without a request in its queues.
LEMMA OffIs ==
    ASSUME Inv0, NEW t \in Threads, pc[t] # "idle", NEW m, m = Unqueued(list[req[t].v], t)
    PROVE  SameShape(list[req[t].v], m) /\ GoodTable(m) /\ Unchanged(list[req[t].v], m)
<1>1. GoodTable(list[req[t].v])
  BY ReqThere
<1>2. list[req[t].v] \in Seq(LockSet)
  BY <1>1 DEF GoodTable, GoodList
<1>3. SameShape(list[req[t].v], m)
  BY <1>2, UnqueuedIs
<1> QED
  BY <1>1, <1>3, ShapeKeeps

\* An early wakeup is nothing, in the table.
LEMMA early_table ==
    ASSUME Inv0, NEW t \in Threads, setlock_early(t)
    PROVE  Inv0' /\ TableStep
<1> DEFINE m == Unqueued(list[req[t].v], t)
<1>1. /\ pc[t] = "woken" /\ cast' = cast /\ err' = err /\ req' = Unchained(req, t)
      /\ list' = [list EXCEPT ![req[t].v] = m] /\ pc' = [pc EXCEPT ![t] = "scan"]
      /\ v_lock' = [v_lock EXCEPT ![req[t].v] = t]
  BY DEF setlock_early
<1>2. req[t].v \in Vnodes /\ TypeInv
  BY <1>1, ReqThere
<1>3. GoodTable(m) /\ Unchanged(list[req[t].v], m)
  BY <1>1, OffIs
<1> HIDE DEF m
<1>4. req' \in [Threads -> ReqSet] /\ \A u \in Threads : SameReq(req'[u], req[u])
  BY <1>1, <1>2, UnchainedIs DEF TypeInv
<1>5. pc' \in [Threads -> States] /\ \A u \in Threads : pc'[u] = "idle" <=> pc[u] = "idle"
  BY <1>1, <1>2 DEF TypeInv, States
<1>6. v_lock' \in [Vnodes -> Threads \cup {NULL}] /\ err' \in [Threads -> {"OK", "EINTR", "EWOULDBLOCK"}]
  BY <1>1, <1>2 DEF TypeInv
<1>7. Typed /\ \A u \in Threads : Keeps(u)
  BY <1>4, <1>5, <1>6 DEF Typed, Keeps
<1> QED
  BY <1>1, <1>2, <1>3, <1>7, StaysStep

\* The list when a request that was woken runs again.
Rewoken(t, off, i, moved, m, left) ==
    /\ off = Unqueued(list[req[t].v], t) /\ i = lf_getblock(off, req[t].lock)
    /\ moved = (i # 0 /\ req[t].lock.blk # <<>>) /\ left = Unchained(req, t)
    /\ SameShape(list[req[t].v], off) /\ i \in 0..Len(off)
    /\ SameShape(list[req[t].v], m)
    /\ ~moved => m = off
    /\ moved => /\ i \in 1..Len(off) /\ \A j \in 1..Len(off) : j # i => m[j] = off[j]
                /\ m[i].blk = off[i].blk \o req[t].lock.blk /\ m[i].wake1 = off[i].wake1
    /\ list' = [list EXCEPT ![req[t].v] = m]
    /\ err[t] # "OK" \/ req[t].abort =>
         /\ pc' = [Woken(pc, Abandoned(req[t], moved)) EXCEPT ![t] = "idle"]
         /\ req' = [left EXCEPT ![t] = NoReq] /\ v_lock' = v_lock
    /\ ~(err[t] # "OK" \/ req[t].abort) =>
         /\ pc' = [pc EXCEPT ![t] = "scan"]
         /\ req' = IF moved THEN [left EXCEPT ![t].lock.blk = <<>>] ELSE left
         /\ v_lock' = [v_lock EXCEPT ![req[t].v] = t]

\* A request that was woken: the lists before and after it moves its queue.
LEMMA woken_is ==
    ASSUME Inv0, NEW t \in Threads, setlock_woken(t)
    PROVE  \E off, i, moved, m, left : Rewoken(t, off, i, moved, m, left)
<1> DEFINE off == Unqueued(list[req[t].v], t)
           i == lf_getblock(off, req[t].lock)
           moved == i # 0 /\ req[t].lock.blk # <<>>
           left == Unchained(req, t)
           m == IF moved THEN [off EXCEPT ![i] = lf_move_blocked(@, req[t].lock)] ELSE off
<1>1. pc[t] # "idle" /\ list' = [list EXCEPT ![req[t].v] = m]
  BY DEF setlock_woken
<1>2. /\ err[t] # "OK" \/ req[t].abort =>
           /\ pc' = [Woken(pc, Abandoned(req[t], moved)) EXCEPT ![t] = "idle"]
           /\ req' = [left EXCEPT ![t] = NoReq] /\ v_lock' = v_lock
      /\ ~(err[t] # "OK" \/ req[t].abort) =>
           /\ pc' = [pc EXCEPT ![t] = "scan"]
           /\ req' = IF moved THEN [left EXCEPT ![t].lock.blk = <<>>] ELSE left
           /\ v_lock' = [v_lock EXCEPT ![req[t].v] = t]
  BY Zenon DEF setlock_woken
<1> HIDE DEF off
<1>3. GoodRange(req[t].lock) /\ SameShape(list[req[t].v], off) /\ GoodTable(off)
  BY <1>1, ReqThere, OffIs DEF off
<1>4. off \in Seq(LockSet) /\ req[t].lock \in LockSet
  BY <1>3 DEF GoodTable, GoodList, GoodRange
<1>5. Len(off) \in Nat /\ DOMAIN off = 1..Len(off)
  BY <1>4
<1>6. i \in 0..Len(off)
  BY <1>5, GetBlock
<1> HIDE DEF i
<1>7. moved => i \in 1..Len(off)
  BY <1>5, <1>6
<1> DEFINE n == [off EXCEPT ![i] = lf_move_blocked(@, req[t].lock)]
<1>8. ASSUME moved
      PROVE  /\ SameShape(off, n) /\ \A j \in 1..Len(off) : j # i => n[j] = off[j]
             /\ n[i].blk = off[i].blk \o req[t].lock.blk /\ n[i].wake1 = off[i].wake1
  <2>1. i \in 1..Len(off)
    BY <1>7, <1>8
  <2> HIDE DEF moved
  <2>2. n = MoveTo(off, i, req[t].lock)
    BY Zenon DEF MoveTo
  <2> HIDE DEF n
  <2>3. IsMoved(MoveTo(off, i, req[t].lock), off, i, req[t].lock)
    BY <1>4, <2>1, MovedIs
  <2>4. IsMoved(n, off, i, req[t].lock)
    BY <2>2, <2>3, Zenon
  <2> QED
    BY <2>4, Zenon DEF IsMoved
<1>9. (moved => m = n) /\ (~moved => m = off)
  BY Zenon
<1>10. /\ off = Unqueued(list[req[t].v], t) /\ i = lf_getblock(off, req[t].lock)
       /\ moved = (i # 0 /\ req[t].lock.blk # <<>>) /\ left = Unchained(req, t)
  BY Zenon DEF off, i
<1> HIDE DEF moved, left, m, n
<1>11. SameShape(list[req[t].v], m)
  <2>1. ASSUME moved PROVE SameShape(list[req[t].v], n)
    BY <1>3, <1>8, <2>1, ShapeTrans
  <2> QED
    BY <1>3, <1>9, <2>1, Zenon
<1>12. moved => /\ i \in 1..Len(off) /\ \A j \in 1..Len(off) : j # i => m[j] = off[j]
                /\ m[i].blk = off[i].blk \o req[t].lock.blk /\ m[i].wake1 = off[i].wake1
  BY <1>7, <1>8, <1>9, Zenon
<1>13. Rewoken(t, off, i, moved, m, left)
  BY <1>1, <1>2, <1>3, <1>6, <1>9, <1>10, <1>11, <1>12, Zenon DEF Rewoken
<1> QED
  BY <1>13

\* A request gives up its queue.
LEMMA BlkGone ==
    ASSUME NEW left \in [Threads -> ReqSet], NEW t \in Threads, NEW q, q = [left EXCEPT ![t].lock.blk = <<>>]
    PROVE  /\ q \in [Threads -> ReqSet] /\ \A u \in Threads : SameReq(q[u], left[u])
           /\ \A u \in Threads \ {t} : q[u] = left[u]
           /\ q[t].lock.blk = <<>> /\ q[t].abort = left[t].abort
<1> DEFINE k == [left[t].lock EXCEPT !.blk = <<>>]
           x == [left[t] EXCEPT !.lock = k]
<1>1. left[t] \in ReqSet /\ left[t].lock \in LockRec /\ <<>> \in Seq(Threads)
  BY DEF ReqSet
<1>2. k \in LockRec /\ SameLock(k, left[t].lock) /\ k.blk = <<>>
  BY <1>1 DEF LockRec, SameLock
<1>3. q = [left EXCEPT ![t] = x]
  OBVIOUS
<1> HIDE DEF k
<1>4. x \in ReqSet /\ SameReq(x, left[t]) /\ x.lock.blk = <<>> /\ x.abort = left[t].abort
  BY <1>1, <1>2 DEF ReqSet, SameReq
<1> HIDE DEF x
<1>5. q \in [Threads -> ReqSet] /\ q[t] = x /\ \A u \in Threads \ {t} : q[u] = left[u]
  BY <1>3, <1>4
<1> QED
  BY <1>4, <1>5 DEF SameReq, SameLock

\* A request that was woken fails, in the table, or nothing happens there.
LEMMA woken_table ==
    ASSUME Inv0, NEW t \in Threads, setlock_woken(t)
    PROVE  Inv0' /\ TableStep
<1>0. PICK off, i, moved, m, left : Rewoken(t, off, i, moved, m, left)
  BY woken_is
<1>1. /\ left = Unchained(req, t)
      /\ SameShape(list[req[t].v], m)
      /\ list' = [list EXCEPT ![req[t].v] = m]
      /\ err[t] # "OK" \/ req[t].abort =>
           /\ pc' = [Woken(pc, Abandoned(req[t], moved)) EXCEPT ![t] = "idle"]
           /\ req' = [left EXCEPT ![t] = NoReq] /\ v_lock' = v_lock
      /\ ~(err[t] # "OK" \/ req[t].abort) =>
           /\ pc' = [pc EXCEPT ![t] = "scan"]
           /\ req' = IF moved THEN [left EXCEPT ![t].lock.blk = <<>>] ELSE left
           /\ v_lock' = [v_lock EXCEPT ![req[t].v] = t]
  BY <1>0, Zenon DEF Rewoken
<1>2. pc[t] = "woken" /\ cast' = cast /\ err' = [err EXCEPT ![t] = "OK"]
  BY DEF setlock_woken
<1>3. req[t].v \in Vnodes /\ TypeInv /\ GoodTable(list[req[t].v])
  BY <1>2, ReqThere
<1>4. GoodTable(m) /\ Unchanged(list[req[t].v], m)
  BY <1>1, <1>3, ShapeKeeps
<1>5. left \in [Threads -> ReqSet] /\ \A u \in Threads : SameReq(left[u], req[u])
  BY <1>1, <1>3, UnchainedIs DEF TypeInv
<1>6. err' \in [Threads -> {"OK", "EINTR", "EWOULDBLOCK"}]
  BY <1>2, <1>3 DEF TypeInv
<1>7. CASE err[t] # "OK" \/ req[t].abort
  <2> DEFINE p == Woken(pc, Abandoned(req[t], moved))
  <2>1. /\ p \in [Threads -> States] /\ \A u \in Threads : p[u] = "idle" <=> pc[u] = "idle"
    BY <1>3, WokenIs DEF TypeInv
  <2>2. pc' = [p EXCEPT ![t] = "idle"] /\ req' = [left EXCEPT ![t] = NoReq] /\ v_lock' = v_lock
    BY <1>1, <1>7
  <2> HIDE DEF p
  <2>3. pc' \in [Threads -> States] /\ pc'[t] = "idle" /\ \A u \in Threads \ {t} : pc'[u] = "idle" <=> pc[u] = "idle"
    BY <2>1, <2>2 DEF States
  <2>4. req' \in [Threads -> ReqSet] /\ \A u \in Threads \ {t} : req'[u] = left[u]
    BY <1>5, <2>2, NoReqType
  <2>5. v_lock' \in [Vnodes -> Threads \cup {NULL}]
    BY <1>3, <2>2 DEF TypeInv
  <2>6. Typed /\ \A u \in Threads \ {t} : Keeps(u)
    BY <1>5, <1>6, <2>3, <2>4, <2>5 DEF Typed, Keeps
  <2> QED
    BY <1>1, <1>2, <1>3, <1>4, <2>3, <2>6, FailsStep
<1>8. CASE ~(err[t] # "OK" \/ req[t].abort)
  <2>1. /\ pc' = [pc EXCEPT ![t] = "scan"] /\ v_lock' = [v_lock EXCEPT ![req[t].v] = t]
        /\ req' = IF moved THEN [left EXCEPT ![t].lock.blk = <<>>] ELSE left
    BY <1>1, <1>8
  <2>2. pc' \in [Threads -> States] /\ \A u \in Threads : pc'[u] = "idle" <=> pc[u] = "idle"
    BY <1>2, <1>3, <2>1 DEF TypeInv, States
  <2>3. req' \in [Threads -> ReqSet] /\ \A u \in Threads : SameReq(req'[u], left[u])
    <3>1. CASE moved
      BY <1>5, <2>1, <3>1, BlkGone
    <3>2. CASE ~moved
      BY <1>5, <2>1, <3>2 DEF SameReq, SameLock
    <3> QED
      BY <3>1, <3>2
  <2>4. \A u \in Threads : SameReq(req'[u], req[u])
    BY <1>5, <2>3 DEF SameReq, SameLock
  <2>5. v_lock' \in [Vnodes -> Threads \cup {NULL}]
    BY <1>3, <2>1 DEF TypeInv
  <2>6. Typed /\ \A u \in Threads : Keeps(u)
    BY <1>6, <2>2, <2>3, <2>4, <2>5 DEF Typed, Keeps
  <2> QED
    BY <1>1, <1>2, <1>3, <1>4, <2>6, StaysStep
<1> QED
  BY <1>7, <1>8

\* lf_abort_advlocks is nothing, in the table.
LEMMA abort_table ==
    ASSUME Inv0, NEW v \in Vnodes, lf_abort_advlocks(v)
    PROVE  Inv0' /\ TableStep
<1> DEFINE l == list[v]
           m == [l EXCEPT ![1] = Emptied(@)]
           aborted == ToSet(l[1].blk)
<1>1. TypeInv /\ GoodTable(l) /\ GoodList(l) /\ l \in Seq(LockSet)
  BY DEF Inv0, TableInv, GoodTable, GoodList
<1>2. /\ cast' = cast /\ v_lock' = v_lock /\ err' = err /\ l # <<>>
      /\ req' = [t \in Threads |-> [req[t] EXCEPT !.abort = @ \/ t \in aborted]] /\ pc' = Woken(pc, aborted)
      /\ list' = [list EXCEPT ![v][1] = Emptied(@)]
  BY DEF lf_abort_advlocks
<1>3. 1 \in 1..Len(l)
  BY <1>1, <1>2
<1>4. SameShape(l, m)
  BY <1>1, <1>3, EmptiedIs
<1>5. list' = [list EXCEPT ![v] = m]
  BY <1>2
<1>6. GoodTable(m) /\ Unchanged(l, m)
  BY <1>1, <1>4, ShapeKeeps
<1> HIDE DEF aborted, m
<1>7. /\ pc' \in [Threads -> States] /\ \A t \in Threads : pc'[t] = "idle" <=> pc[t] = "idle"
  BY <1>1, <1>2, WokenIs DEF TypeInv
<1>8. req' \in [Threads -> ReqSet] /\ \A t \in Threads : SameReq(req'[t], req[t])
  <2> SUFFICES ASSUME NEW t \in Threads PROVE req'[t] \in ReqSet /\ SameReq(req'[t], req[t])
    BY <1>2
  <2>1. req[t] \in ReqSet
    BY <1>1 DEF TypeInv
  <2> DEFINE a == req[t].abort \/ t \in aborted
  <2>2. req'[t] = [req[t] EXCEPT !.abort = a] /\ a \in BOOLEAN
    BY <1>2
  <2> HIDE DEF a
  <2> QED
    BY <2>1, <2>2 DEF ReqSet, SameReq, SameLock
<1>9. Typed /\ \A t \in Threads : Keeps(t)
  BY <1>1, <1>2, <1>7, <1>8 DEF Typed, Keeps, TypeInv
<1> QED
  BY <1>2, <1>5, <1>6, <1>9, StaysStep

\* Every step keeps the list in order and is a step of the table.
LEMMA NextTable ==
    ASSUME NoLastByte, Inv0, [Next]_vars
    PROVE  Inv0' /\ TableStep
<1>1. ASSUME NEW t \in Threads, NEW v \in cast.vnodes, NEW flock \in FlocksOf(t), NEW type \in cast.types, NEW wait \in BOOLEAN,
             lf_advlock_setlk(t, v, flock, type, wait)
      PROVE  Inv0' /\ TableStep
  BY <1>1, setlk_table
<1>2. ASSUME NEW t \in Threads, NEW v \in cast.vnodes, NEW flock \in FlocksOf(t), lf_advlock_unlck(t, v, flock)
      PROVE  Inv0' /\ TableStep
  <2>1. v \in Vnodes
    BY CastAssumption DEF Inv0, TypeInv
  <2> QED
    BY <1>2, <2>1, unlck_table
<1>3. ASSUME NEW t \in Threads, step(t)
      PROVE  Inv0' /\ TableStep
  <2>1. "OK" \in {"OK", "EINTR", "EWOULDBLOCK"}
    OBVIOUS
  <2> QED
    BY <1>3, <2>1, grant_table, small_table, sleep_table, early_table, woken_table DEF step
<1>4. ASSUME NEW t \in Threads, close(t)
      PROVE  Inv0' /\ TableStep
  <2>1. PICK v \in Vnodes : lf_advlock_unlck(t, v, Whole)
    BY <1>4 DEF close
  <2> QED
    BY <2>1, unlck_table
<1>5. ASSUME NEW t \in Threads, NEW error \in {"OK", "EINTR", "EWOULDBLOCK"}, msleep_ends(t, error)
      PROVE  Inv0' /\ TableStep
  BY <1>5, small_table
<1>6. ASSUME NEW v \in Vnodes, lf_abort_advlocks(v)
      PROVE  Inv0' /\ TableStep
  BY <1>6, abort_table
<1>7. CASE UNCHANGED vars
  <2>1. Inv0'
    BY <1>7 DEF vars, Inv0, TypeInv, TableInv, Asking
  <2>2. HeldTable' = HeldTable /\ WantTable' = WantTable
    BY <1>7 DEF vars, HeldTable, WantTable
  <2> QED
    BY <2>1, <2>2, TableStays
<1> QED
  BY <1>1, <1>2, <1>3, <1>4, <1>5, <1>6, <1>7 DEF Next

\* The initial states.
LEMMA InitTable ==
    ASSUME Init
    PROVE  Inv0 /\ Table!Init
<1>1. /\ cast \in Casts /\ list = [v \in Vnodes |-> <<>>] /\ v_lock = [v \in Vnodes |-> NULL]
      /\ req = [t \in Threads |-> NoReq] /\ pc = [t \in Threads |-> "idle"] /\ err = [t \in Threads |-> "OK"]
  BY DEF Init
<1>2. TypeInv
  BY <1>1, NoReqType DEF TypeInv, States
<1>3. GoodTable(<<>>)
  BY DEF GoodTable, GoodList, Increasing, Contiguous, Apart
<1>4. Inv0
  BY <1>1, <1>2, <1>3 DEF Inv0, TableInv
<1>5. \A v \in Vnodes, o \in Owners, b \in Bytes : Held(list[v], o, b) = "N"
  BY <1>1 DEF Held
<1>6. \A t \in Threads : Wanted(pc[t], req[t]) = NoWant
  BY <1>1 DEF Wanted
<1> QED
  BY <1>4, <1>5, <1>6, HeldTableIs DEF Table!Init, WantTable

\* The invariant holds in every state.
LEMMA InvAlways == NoLastByte => (Spec => []Inv0)
<1> SUFFICES ASSUME NoLastByte PROVE Spec => []Inv0
  OBVIOUS
<1>1. Init => Inv0
  BY InitTable
<1>2. Inv0 /\ [Next]_vars => Inv0'
  BY NextTable
<1> QED
  BY <1>1, <1>2, PTL DEF Spec

\* The locks of each owner are in order.
LEMMA TableOrdered ==
    ASSUME Inv0
    PROVE  ListOrdered
<1> SUFFICES ASSUME NEW v \in Vnodes, NEW i \in DOMAIN list[v], NEW j \in DOMAIN list[v], i < j, list[v][i].id = list[v][j].id
             PROVE  /\ \A k \in i..j : list[v][k].id = list[v][i].id
                    /\ list[v][i].end # -1 /\ list[v][i].end < list[v][j].start
                    /\ list[v][i].type = list[v][j].type => list[v][i].end + 1 < list[v][j].start
  BY Zenon DEF ListOrdered
<1> DEFINE l == list[v]
<1>1. GoodTable(l)
  BY DEF Inv0, TableInv
<1>2. Len(l) \in Nat /\ DOMAIN l = 1..Len(l) /\ GoodRange(l[i]) /\ GoodRange(l[j])
  BY <1>1 DEF GoodTable, GoodList
<1> HIDE DEF l
<1>3. i \in 1..Len(l) /\ j \in 1..Len(l) /\ l[i].id = l[j].id
  BY <1>2 DEF l
<1>4. \A k \in i..j : l[k].id = l[i].id
  BY <1>1, <1>3 DEF GoodTable, Contiguous
<1>5. Hi(l[i]) < l[j].start /\ (l[i].type = l[j].type => Hi(l[i]) + 1 < l[j].start)
  BY <1>1, <1>3 DEF GoodTable, Increasing, Apart
<1>6. l[i].end \in Int /\ l[j].start \in 0..OFF_MAX /\ OFF_MAX \in Nat
  BY <1>2, LockfAssumption DEF GoodRange, LockSet
<1>7. l[i].end # -1 /\ Hi(l[i]) = l[i].end
  BY <1>5, <1>6 DEF Hi
<1> QED
  BY <1>4, <1>5, <1>7 DEF l

\* lf_findoverlap and lf_coalesce_adjacent can rely on the order of the list: after
\* every operation, failed ones included, the locks of an owner are adjacent, in
\* order, disjoint, and joined if they touch, as long as no request names the last
\* offset (where lf_coalesce_adjacent's end + 1 wraps).
THEOREM ListAlwaysOrdered == NoLastByte => (Spec => []ListOrdered)
  BY InvAlways, TableOrdered, PTL

\* The list implements the table: lf_setlock and lf_clearlock set or clear exactly the
\* bytes of the request, at once, and lf_setlock only when nobody's lock conflicts.
THEOREM LockfImplementsTable == NoLastByte => (Spec => TableRefinement)
<1> SUFFICES ASSUME NoLastByte PROVE Spec => TableRefinement
  OBVIOUS
<1>1. Init => Table!Init
  BY InitTable
<1>2. Inv0 /\ [Next]_vars => [Table!Next]_(Table!vars)
  BY NextTable DEF TableStep
<1>3. Spec => []Inv0
  BY InvAlways
<1> QED
  BY <1>1, <1>2, <1>3, PTL DEF Spec, Table!Spec, TableRefinement
-----------------------------------------------------------------------------
\* What Table!Put writes: the row of one owner, the rest stays.
LEMMA PutEffect ==
    ASSUME Table!TypeOK, NEW v \in Vnodes, NEW o \in Owners, NEW range,
           NEW type \in {"N", "R", "W"}, HeldTable' = Table!Put(v, o, range, type)
    PROVE  /\ HeldTable' \in [Vnodes -> [Owners -> [Bytes -> {"N", "R", "W"}]]]
           /\ \A w \in Vnodes, p \in Owners, b \in Bytes :
                HeldTable'[w][p][b] = IF w = v /\ p = o /\ b \in range THEN type ELSE HeldTable[w][p][b]
<1> DEFINE row == [b \in Bytes |-> IF b \in range THEN type ELSE HeldTable[v][o][b]]
<1>1. HeldTable \in [Vnodes -> [Owners -> [Bytes -> {"N", "R", "W"}]]]
  BY DEF Table!TypeOK
<1>2. HeldTable' = [HeldTable EXCEPT ![v] = [HeldTable[v] EXCEPT ![o] = row]]
  BY <1>1 DEF Table!Put
<1>3. row \in [Bytes -> {"N", "R", "W"}]
  BY <1>1
<1> HIDE DEF row
<1>4. [HeldTable[v] EXCEPT ![o] = row] \in [Owners -> [Bytes -> {"N", "R", "W"}]]
  BY <1>1, <1>3
<1>5. HeldTable' \in [Vnodes -> [Owners -> [Bytes -> {"N", "R", "W"}]]]
  BY <1>1, <1>2, <1>4
<1>6. \A w \in Vnodes, p \in Owners : HeldTable'[w][p] = IF w = v /\ p = o THEN row ELSE HeldTable[w][p]
  BY <1>1, <1>2
<1>7. ASSUME NEW w \in Vnodes, NEW p \in Owners, NEW b \in Bytes
      PROVE  HeldTable'[w][p][b] = IF w = v /\ p = o /\ b \in range THEN type ELSE HeldTable[w][p][b]
  <2>1. CASE w = v /\ p = o
    BY <1>6, <2>1 DEF row
  <2>2. CASE ~(w = v /\ p = o)
    BY <1>6, <2>2
  <2> QED
    BY <2>1, <2>2
<1> QED
  BY <1>5, <1>7

\* Nothing conflicts in a table without locks.
LEMMA InitNoConflict == Table!Init => Table!TypeOK /\ Table!NoConflict
  BY DEF Table!Init, Table!TypeOK, Table!NoConflict, Table!Requests

\* Clearing a range conflicts with nothing.
LEMMA ClearKeeps ==
    ASSUME Table!TypeOK, Table!NoConflict, NEW v \in Vnodes, NEW o \in Owners, NEW range,
           HeldTable' = Table!Put(v, o, range, "N")
    PROVE  Table!NoConflict'
<1>1. \A w \in Vnodes, p \in Owners, b \in Bytes :
        HeldTable'[w][p][b] = IF w = v /\ p = o /\ b \in range THEN "N" ELSE HeldTable[w][p][b]
  BY PutEffect
<1> QED
  BY <1>1 DEF Table!NoConflict

\* Setting a lock conflicts with nothing if nobody else's lock does.
LEMMA SetKeeps ==
    ASSUME Table!TypeOK, Table!NoConflict, NEW r \in Table!Requests, Table!Free(r),
           HeldTable' = Table!Put(r.v, r.o, r.range, r.type)
    PROVE  Table!NoConflict'
<1>1. r.v \in Vnodes /\ r.o \in Owners /\ r.type \in {"R", "W"}
  BY DEF Table!Requests
<1>2. \A w \in Vnodes, p \in Owners, b \in Bytes :
        HeldTable'[w][p][b] = IF w = r.v /\ p = r.o /\ b \in r.range THEN r.type ELSE HeldTable[w][p][b]
  BY <1>1, PutEffect
<1>3. ASSUME NEW w \in Vnodes, NEW o \in Owners, NEW p \in Owners, NEW b \in Bytes,
             o # p, HeldTable'[w][o][b] = "W"
      PROVE  HeldTable'[w][p][b] = "N"
  <2>1. CASE w = r.v /\ b \in r.range /\ o = r.o
    <3>1. r.type = "W" /\ HeldTable'[w][p][b] = HeldTable[w][p][b]
      BY <1>2, <1>3, <2>1
    <3>2. HeldTable[w][p][b] = "N"
      BY <1>3, <2>1, <3>1 DEF Table!Free
    <3> QED
      BY <3>1, <3>2
  <2>2. CASE w = r.v /\ b \in r.range /\ p = r.o
    <3>1. HeldTable[w][o][b] = "W"
      BY <1>2, <1>3, <2>2
    <3>2. HeldTable[w][o][b] = "N" \/ HeldTable[w][o][b] = "R"
      BY <1>3, <2>2 DEF Table!Free
    <3> QED
      BY <3>1, <3>2
  <2>3. CASE ~(w = r.v /\ b \in r.range /\ o = r.o) /\ ~(w = r.v /\ b \in r.range /\ p = r.o)
    BY <1>2, <1>3, <2>3 DEF Table!NoConflict
  <2> QED
    BY <2>1, <2>2, <2>3
<1> QED
  BY <1>3 DEF Table!NoConflict

\* Every step of the table keeps locks from conflicting.
LEMMA StepNoConflict ==
    Table!TypeOK /\ Table!NoConflict /\ [Table!Next]_(Table!vars) => Table!TypeOK' /\ Table!NoConflict'
<1> SUFFICES ASSUME Table!TypeOK, Table!NoConflict, [Table!Next]_(Table!vars) PROVE Table!TypeOK' /\ Table!NoConflict'
  OBVIOUS
<1> USE DEF Table!TypeOK
<1>1. CASE Table!Clear
  <2>1. PICK v \in Vnodes, o \in Owners, range \in { BytesOf(g[1], g[2]) : g \in RequestRanges } :
          HeldTable' = Table!Put(v, o, range, "N")
    BY <1>1 DEF Table!Clear
  <2> QED
    BY <1>1, <2>1, PutEffect, ClearKeeps DEF Table!Clear
<1>2. ASSUME NEW t \in Threads, Table!Ask(t) PROVE Table!TypeOK' /\ Table!NoConflict'
  BY <1>2 DEF Table!Ask, Table!NoConflict
<1>3. ASSUME NEW t \in Threads, Table!Set(t) PROVE Table!TypeOK' /\ Table!NoConflict'
  <2>1. WantTable[t] \in Table!Requests
    BY <1>3 DEF Table!Set
  <2>2. WantTable[t].v \in Vnodes /\ WantTable[t].o \in Owners /\ WantTable[t].type \in {"N", "R", "W"}
    BY <2>1 DEF Table!Requests
  <2>3. HeldTable' \in [Vnodes -> [Owners -> [Bytes -> {"N", "R", "W"}]]]
    BY <1>3, <2>2, PutEffect DEF Table!Set
  <2>4. Table!NoConflict'
    BY <1>3, <2>1, SetKeeps DEF Table!Set
  <2>5. WantTable' \in [Threads -> Table!Requests \cup {NoWant}]
    BY <1>3 DEF Table!Set
  <2> QED
    BY <2>3, <2>4, <2>5
<1>4. ASSUME NEW t \in Threads, Table!Fail(t) PROVE Table!TypeOK' /\ Table!NoConflict'
  BY <1>4 DEF Table!Fail, Table!NoConflict
<1>5. ASSUME NEW t \in Threads, Table!Yield(t) PROVE Table!TypeOK' /\ Table!NoConflict'
  <2>1. WantTable[t].v \in Vnodes /\ WantTable[t].o \in Owners
    BY <1>5 DEF Table!Yield, Table!Requests
  <2>2. HeldTable' \in [Vnodes -> [Owners -> [Bytes -> {"N", "R", "W"}]]]
    BY <1>5, <2>1, PutEffect DEF Table!Yield
  <2>3. Table!NoConflict'
    BY <1>5, <2>1, ClearKeeps DEF Table!Yield
  <2> QED
    BY <1>5, <2>2, <2>3 DEF Table!Yield
<1>6. CASE UNCHANGED (Table!vars)
  BY <1>6 DEF Table!vars, Table!NoConflict
<1> QED
  BY <1>1, <1>2, <1>3, <1>4, <1>5, <1>6 DEF Table!Next

\* A byte that one owner has locked for writing is locked by nobody else, in
\* every state of the table.  Lockf refines the table (TableRefinement), so this
\* is what lf_setlock's search for a blocking lock guarantees of the list.
THEOREM TableNoConflict == Table!Spec => []Table!NoConflict
<1>1. Table!Init => Table!TypeOK /\ Table!NoConflict
  BY InitNoConflict
<1>2. Table!TypeOK /\ Table!NoConflict /\ [Table!Next]_(Table!vars) => Table!TypeOK' /\ Table!NoConflict'
  BY StepNoConflict
<1> QED
  BY <1>1, <1>2, PTL DEF Table!Spec

\* So a byte that one owner has locked for writing is locked by nobody else, as far as
\* the vnode's list of ranges says.
THEOREM LockfNoConflict == NoLastByte => (Spec => []Table!NoConflict)
  BY LockfImplementsTable, TableNoConflict, PTL DEF TableRefinement
=============================================================================
