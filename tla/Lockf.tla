-------------------------------- MODULE Lockf --------------------------------
(***************************************************************************)
(* Advisory record locks (bsd/kern/kern_lockf.c): a vnode's list of locked *)
(* ranges, kept in order per owner, with the requests that each lock       *)
(* blocks in a queue of their own.                                         *)
(*                                                                         *)
(* A lock carries its queue lf_blkhd as a sequence of threads; the lf_next *)
(* of a blocked request is the lock whose queue it is in.  All of the list *)
(* is guarded by v_lock, which a request drops in msleep only.  A range    *)
(* with end -1 has no end.  Offsets are signed and OFF_MAX is the largest. *)
(***************************************************************************)
EXTENDS Integers, Sequences, FiniteSets, FiniteSetsExt, SequencesExt

CONSTANTS Threads, Vnodes, NULL,
          Casts,      \* who asks for which locks; see cast
          OFF_MAX,    \* the largest offset; scaled down
          Size,       \* the size of a vnode, for SEEK_END
          MaxFailures \* bound: sleeps that end without a wakeup

ASSUME LockfAssumption ==
    /\ NULL \notin Threads
    /\ OFF_MAX \in Nat /\ Size \in 0..OFF_MAX
    /\ MaxFailures \in Nat

\* cast.who[t]: the owner of t's requests, [id, kind]; cast.vnodes: the vnodes
\* that are used; cast.flocks: the <<l_whence, l_start, l_len>> of record lock
\* requests; cast.types: the types of requests; cast.ops: bound, the requests
\* that are made.
VARIABLES cast,
          list,     \* list[v]: v_lockf, a sequence of locks
          v_lock,   \* v_lock[v]: the thread that holds it, or NULL
          req,      \* req[t]: the request of t
          pc,       \* "idle", "scan", "pause", "checked", "asleep", "woken"
          err,      \* err[t]: what msleep will return
          ops,      \* requests made
          fails     \* sleeps that ended early

vars == <<cast, list, v_lock, req, pc, err, ops, fails>>

Kinds == {"POSIX", "OFD", "FLOCK"}
Owners == { who.id : who \in UNION { { c.who[t] : t \in Threads } : c \in Casts } }

\* An owner, a process or an open file, takes locks of one kind.
ASSUME CastAssumption ==
    \A c \in Casts :
      /\ c.who \in [Threads -> [id : Owners, kind : Kinds]]
      /\ \A t, u \in Threads : c.who[t].id = c.who[u].id => c.who[t] = c.who[u]
      /\ c.vnodes \subseteq Vnodes /\ c.types \subseteq {"R", "W"}
      /\ c.flocks \subseteq {"SEEK_SET", "SEEK_END"} \X Int \X Int

\* A struct lockf.  F_WAKE1_SAFE is set for flock requests.
Lockf(who, range, type) ==
    [id |-> who.id, kind |-> who.kind, start |-> range[1], end |-> range[2],
     type |-> type, wake1 |-> who.kind = "FLOCK", blk |-> <<>>]
NoReq == [v |-> NULL, wait |-> FALSE, abort |-> FALSE,
          lock |-> Lockf([id |-> NULL, kind |-> "OFD"], <<0, 0>>, "R")]

Init ==
    /\ cast \in Casts
    /\ list = [v \in Vnodes |-> <<>>]
    /\ v_lock = [v \in Vnodes |-> NULL]
    /\ req = [t \in Threads |-> NoReq]
    /\ pc = [t \in Threads |-> "idle"]
    /\ err = [t \in Threads |-> "OK"]
    /\ ops = 0 /\ fails = 0

\* off_t arithmetic, at the width that has OFF_MAX as its largest value.
Wrap(n) == ((n + OFF_MAX + 1) % (2 * (OFF_MAX + 1))) - (OFF_MAX + 1)

\* The range that lf_advlock makes of a struct flock, or {} when it refuses:
\* the start is negative or the end is beyond OFF_MAX.
FlockRange(whence, l_start, l_len) ==
    LET start == IF whence = "SEEK_END" THEN Size + l_start ELSE l_start
    IN IF start < 0 \/ start > OFF_MAX THEN {}
       ELSE IF l_len < 0 THEN IF start + l_len < 0 THEN {} ELSE {<<start + l_len, start - 1>>}
       ELSE IF l_len = 0 THEN {<<start, -1>>}
       ELSE IF l_len - 1 > OFF_MAX - start THEN {} ELSE {<<start, start + l_len - 1>>}
-----------------------------------------------------------------------------
(* Walks of the list.                                                      *)

Overlaps(lf, lock) ==
    ~ \/ lf.end # -1 /\ lock.start > lf.end
      \/ lock.end # -1 /\ lf.start > lock.end

\* lf_getblock: the first lock of somebody else that blocks this one, or 0.
lf_getblock(l, lock) ==
    LET blocking == { i \in DOMAIN l : /\ l[i].id # lock.id
                                       /\ Overlaps(l[i], lock)
                                       /\ "W" \in {l[i].type, lock.type} }
    IN IF blocking = {} THEN 0 ELSE Min(blocking)

\* How a lock of ours overlaps the request.
Overlap(lf, lock) ==
    IF lf.start = lock.start /\ lf.end = lock.end THEN "EQUALS_LOCK"
    ELSE IF lf.start <= lock.start /\ lock.end # -1 /\ (lf.end >= lock.end \/ lf.end = -1)
      THEN "CONTAINS_LOCK"
    ELSE IF lock.start <= lf.start /\ (lock.end = -1 \/ (lf.end # -1 /\ lock.end >= lf.end))
      THEN "CONTAINED_BY_LOCK"
    ELSE IF lf.start < lock.start THEN "STARTS_BEFORE_LOCK"
    ELSE "ENDS_AFTER_LOCK"

\* Mutant: the search does not give up at a lock behind the request.
StopsAtOverlap(l, from, lock, i) ==
    \/ i = Len(l) + 1
    \/ l[i].id = lock.id /\ Overlaps(l[i], lock)
    \/ l[i].id # lock.id /\ \E j \in from..(i - 1) : l[j].id = lock.id

\* lf_findoverlap with SELF, from a place of the list on: where it stops.  It
\* gives up at a lock of somebody else after one of ours, and at one of ours
\* that lies behind the request.
StopsAt(l, from, lock, i) ==
    \/ i = Len(l) + 1
    \/ /\ l[i].id = lock.id
       /\ Overlaps(l[i], lock) \/ (lock.end # -1 /\ l[i].start > lock.end)
    \/ /\ l[i].id # lock.id
       /\ \E j \in from..(i - 1) : l[j].id = lock.id

lf_findoverlap(l, from, lock) ==
    LET i == Min({ j \in from..(Len(l) + 1) : StopsAt(l, from, lock, j) })
    IN [at |-> i,
        ovcase |-> IF i <= Len(l) /\ l[i].id = lock.id /\ Overlaps(l[i], lock)
                   THEN Overlap(l[i], lock) ELSE "NONE"]

\* lf_move_blocked.
lf_move_blocked(to, from) == [to EXCEPT !.blk = @ \o from.blk]

\* The list with others in the place of the locks from i to j.
Splice(l, i, j, locks) == SubSeq(l, 1, i - 1) \o locks \o SubSeq(l, j + 1, Len(l))

\* lf_coalesce_adjacent, for the lock at k.  What lies between it and an
\* adjacent lock on the list would be unlinked.
lf_coalesce_adjacent(l, k) ==
    LET lock == l[k]
        same(i) == l[i].id = lock.id /\ l[i].type = lock.type
        previous  == { i \in 1..(k - 1) :
                         same(i) /\ l[i].end # -1 /\ Wrap(l[i].end + 1) = lock.start }
        following == { i \in (k + 1)..Len(l) :
                         same(i) /\ lock.end # -1 /\ Wrap(lock.end + 1) = l[i].start }
        p == IF previous = {} THEN k ELSE Min(previous)
        f == IF following = {} THEN k ELSE Min(following)
        joined == LET q == IF p = k THEN lock ELSE lf_move_blocked(lock, l[p])
                  IN IF f = k THEN q ELSE lf_move_blocked(q, l[f])
    IN Splice(l, p, f, << [joined EXCEPT !.start = l[p].start, !.end = l[f].end] >>)
-----------------------------------------------------------------------------
(* A walk of the list that edits it: what is left of the list, the place   *)
(* from where it goes on, the lock that is set or the range that is        *)
(* unlocked, and the place where the lock is linked (0 while needtolink).  *)
(* The requests that it takes off a queue and wakes up are collected, with *)
(* the ones that each has to look after.                                   *)

Walk(l, lock) ==
    [list |-> l, from |-> 1, lock |-> lock, at |-> 0, woken |-> {},
     left |-> [t \in Threads |-> <<>>], error |-> "OK", done |-> FALSE]

\* lf_wakelock wakes up all of a queue, or, if that is safe, its first request
\* and leaves the others to it.
lf_wakelock(w, lock, force_all) ==
    IF ~force_all /\ lock.wake1 /\ lock.blk # <<>>
    THEN [w EXCEPT !.woken = @ \cup {Head(lock.blk)}, !.left[Head(lock.blk)] = Tail(lock.blk)]
    ELSE [w EXCEPT !.woken = @ \cup ToSet(lock.blk)]

\* What is left of a lock before and behind a range.
Emptied(lock) == [lock EXCEPT !.blk = <<>>]
Before(lf, range) == [Emptied(lf) EXCEPT !.end = range.start - 1]
Behind(lf, range) == [Emptied(lf) EXCEPT !.start = Wrap(range.end + 1)]

\* Mutant: the last piece is lost.
lf_split_two(lf, range) == << Before(lf, range) >>

\* lf_split: a lock without a range in its middle or at its end.  Three pieces
\* take a MALLOC.
lf_split(lf, range) ==
    IF lf.end = range.end THEN << Before(lf, range) >>
    ELSE << Before(lf, range), Behind(lf, range) >>

SplitFails(lf, range, mem) == lf.end # range.end /\ ~mem

\* One iteration of lf_clearlock.
ClearStep(w, mem) ==
    LET unlock == w.lock
        found  == lf_findoverlap(w.list, w.from, unlock)
        i      == found.at
        lf     == w.list[i]
        Leave(locks) == [lf_wakelock(w, lf, FALSE) EXCEPT !.list = Splice(@, i, i, locks)]
        Final(locks)  == [Leave(locks) EXCEPT !.done = TRUE]
    IN CASE found.ovcase = "NONE" -> [w EXCEPT !.done = TRUE]
         [] found.ovcase = "EQUALS_LOCK" -> Final(<<>>)
         [] found.ovcase = "CONTAINS_LOCK" ->
              IF lf.start = unlock.start THEN Final(<< Behind(lf, unlock) >>)
              ELSE IF SplitFails(lf, unlock, mem)
                THEN [Final(<< Emptied(lf) >>) EXCEPT !.error = "ENOLCK"]
              ELSE Final(lf_split(lf, unlock))
         [] found.ovcase = "CONTAINED_BY_LOCK" -> [Leave(<<>>) EXCEPT !.from = i]
         [] found.ovcase = "STARTS_BEFORE_LOCK" ->
              [Leave(<< Before(lf, unlock) >>) EXCEPT !.from = i + 1]
         [] found.ovcase = "ENDS_AFTER_LOCK" -> Final(<< Behind(lf, unlock) >>)

\* The lock is on the list, at k.
Linked(w, l, k) == [w EXCEPT !.list = lf_coalesce_adjacent(l, k), !.done = TRUE]

\* One iteration of the last loop of lf_setlock: put the lock on the list, in
\* the place of our own locks that it overlaps.
GrantStep(w, mem) ==
    LET lock  == w.lock
        found == lf_findoverlap(w.list, w.from, lock)
        i     == found.at
        lf    == w.list[i]
        place == IF w.at = 0 THEN i ELSE w.at
        woken == lf_wakelock(w, lf, TRUE)
        downgrade == lock.type = "R" /\ lf.type = "W"
        retyped == [(IF downgrade THEN Emptied(lf) ELSE lf) EXCEPT !.type = lock.type]
        Leave(locks) == Splice(w.list, i, i, locks)
    IN CASE found.ovcase = "NONE" -> Linked(w, InsertAt(w.list, place, lock), place)
         [] found.ovcase = "EQUALS_LOCK" ->
              Linked(IF downgrade THEN woken ELSE w,
                     Leave(<< lf_move_blocked(retyped, lock) >>), i)
         [] found.ovcase = "CONTAINS_LOCK" ->
              IF lf.type = lock.type THEN Linked(w, Leave(<< lf_move_blocked(lf, lock) >>), i)
              ELSE IF lf.start = lock.start
                THEN Linked(woken, InsertAt(Leave(<< Behind(lf, lock) >>), i, lock), i)
              ELSE IF SplitFails(lf, lock, mem)
                THEN [w EXCEPT !.error = "ENOLCK", !.done = TRUE]
              ELSE Linked(woken, InsertAt(Leave(lf_split(lf, lock)), i + 1, lock), i + 1)
         [] found.ovcase = "CONTAINED_BY_LOCK" ->
              [(IF downgrade THEN woken ELSE [w EXCEPT !.lock = lf_move_blocked(@, lf)])
                 EXCEPT !.list = Leave(<<>>), !.from = i, !.at = place]
         [] found.ovcase = "STARTS_BEFORE_LOCK" ->
              [woken EXCEPT !.list = Leave(<< Before(lf, lock) >>), !.from = i + 1, !.at = i + 1]
         [] found.ovcase = "ENDS_AFTER_LOCK" ->
              Linked(woken, InsertAt(Leave(<< Behind(lf, lock) >>), place, lock), place)

WalkStep(w, mem) ==
    IF w.done THEN w ELSE IF w.lock.type = "U" THEN ClearStep(w, mem) ELSE GrantStep(w, mem)

\* The walk ends within an iteration for each lock of the list and one more.
Walked(l, lock, mem) ==
    LET walk[n \in Nat] == IF n = 0 THEN Walk(l, lock) ELSE WalkStep(walk[n - 1], mem)
    IN walk[Len(l) + 1]

lf_clearlock(l, unlock, mem) == Walked(l, unlock, mem)
Grant(l, lock, mem) == Walked(l, lock, mem)
-----------------------------------------------------------------------------
(* Requests.                                                               *)

Mem == IF MaxFailures > 0 THEN BOOLEAN ELSE {TRUE}

\* Requests that are woken up run again once they get v_lock.
Woken(p, woken) ==
    [t \in Threads |-> IF t \in woken /\ p[t] = "asleep" THEN "woken" ELSE p[t]]
Chained(r, left) == [t \in Threads |-> [r[t] EXCEPT !.lock.blk = @ \o left[t]]]

\* lf_advlock for F_SETLK.  F_WAIT only matters for a request that is blocked.
lf_advlock_setlk(t, v, flock, type, wait) ==
    /\ pc[t] = "idle" /\ v_lock[v] = NULL
    /\ ops < cast.ops
    /\ \E range \in FlockRange(flock[1], flock[2], flock[3]) :
         LET lock == Lockf(cast.who[t], range, type)
         IN /\ lf_getblock(list[v], lock) = 0 => wait
            /\ req' = [req EXCEPT ![t] = [v |-> v, wait |-> wait, abort |-> FALSE, lock |-> lock]]
    /\ v_lock' = [v_lock EXCEPT ![v] = t]
    /\ pc' = [pc EXCEPT ![t] = "scan"]
    /\ ops' = ops + 1
    /\ UNCHANGED <<cast, list, err, fails>>

\* lf_advlock for F_UNLCK.
lf_advlock_unlck(t, v, flock) ==
    /\ pc[t] = "idle" /\ v_lock[v] = NULL
    /\ \E i \in DOMAIN list[v] : list[v][i].id = cast.who[t].id
    /\ \E range \in FlockRange(flock[1], flock[2], flock[3]), mem \in Mem :
         LET r == lf_clearlock(list[v], Lockf(cast.who[t], range, "U"), mem)
         IN /\ list' = [list EXCEPT ![v] = r.list]
            /\ pc' = Woken(pc, r.woken)
            /\ req' = Chained(req, r.left)
    /\ UNCHANGED <<cast, v_lock, err, ops, fails>>

\* The lock that a blocked request is queued on: its lf_next.
Queues == UNION { ToSet(list[v]) : v \in Vnodes } \cup { req[t].lock : t \in Threads }
lf_next(t) == { lock \in Queues : t \in ToSet(lock.blk) }

Block(t) == list[req[t].v][lf_getblock(list[req[t].v], req[t].lock)]

\* The threads of the process that blocks t that sleep in this code.
Sleepers(t) ==
    { u \in Threads : /\ cast.who[u] = [id |-> Block(t).id, kind |-> "POSIX"]
                      /\ pc[u] \in {"asleep", "woken"} }

\* Mutant: the owner of the lock is compared with the wrong process.
DeadlockedOther(t, u) ==
    \E lock \in lf_next(u) : lock.kind = "POSIX" /\ lock.id = cast.who[u].id

\* The deadlock check: is u blocked by a record lock of ours?
Deadlocked(t, u) ==
    \E lock \in lf_next(u) : lock.kind = "POSIX" /\ lock.id = cast.who[t].id

\* The other vnode's v_lock is only tried.
Contended(t, u) == req[u].v # req[t].v /\ v_lock[req[u].v] # NULL

\* The request ends; its struct lockf is freed or on the list.
Return(t) ==
    /\ req' = [req EXCEPT ![t] = NoReq]
    /\ pc' = [pc EXCEPT ![t] = "idle"]
    /\ v_lock' = [v_lock EXCEPT ![req[t].v] = NULL]

\* lf_setlock: no blocks.
setlock_grant(t) ==
    /\ pc[t] = "scan"
    /\ lf_getblock(list[req[t].v], req[t].lock) = 0
    /\ \E mem \in Mem :
         LET v == req[t].v
             r == Grant(list[v], req[t].lock, mem)
         IN /\ list' = [list EXCEPT ![v] = r.list]
            /\ pc' = [Woken(pc, r.woken) EXCEPT ![t] = "idle"]
            /\ req' = [Chained(req, r.left) EXCEPT ![t] = NoReq]
            /\ v_lock' = [v_lock EXCEPT ![v] = NULL]
    /\ UNCHANGED <<cast, err, ops, fails>>

\* EAGAIN.
setlock_nowait(t) ==
    /\ pc[t] = "scan"
    /\ lf_getblock(list[req[t].v], req[t].lock) # 0
    /\ ~req[t].wait
    /\ Return(t)
    /\ UNCHANGED <<cast, list, err, ops, fails>>

\* EDEADLK.
setlock_deadlock(t) ==
    /\ pc[t] = "scan" /\ req[t].wait
    /\ lf_getblock(list[req[t].v], req[t].lock) # 0
    /\ cast.who[t].kind = "POSIX" /\ Block(t).kind = "POSIX"
    /\ \E u \in Sleepers(t) : Deadlocked(t, u) /\ ~Contended(t, u)
    /\ Return(t)
    /\ UNCHANGED <<cast, list, err, ops, fails>>

\* Another vnode is busy: drop v_lock, pause and scan again.
setlock_pause(t) ==
    /\ pc[t] = "scan" /\ req[t].wait
    /\ lf_getblock(list[req[t].v], req[t].lock) # 0
    /\ cast.who[t].kind = "POSIX" /\ Block(t).kind = "POSIX"
    /\ \E u \in Sleepers(t) : Contended(t, u)
    /\ pc' = [pc EXCEPT ![t] = "pause"]
    /\ v_lock' = [v_lock EXCEPT ![req[t].v] = NULL]
    /\ UNCHANGED <<cast, list, req, err, ops, fails>>

pause_ends(t) ==
    /\ pc[t] = "pause" /\ v_lock[req[t].v] = NULL
    /\ pc' = [pc EXCEPT ![t] = "scan"]
    /\ v_lock' = [v_lock EXCEPT ![req[t].v] = t]
    /\ UNCHANGED <<cast, list, req, err, ops, fails>>

\* No deadlock found; lf_dead_lock is dropped here.
setlock_checked(t) ==
    /\ pc[t] = "scan" /\ req[t].wait
    /\ lf_getblock(list[req[t].v], req[t].lock) # 0
    /\ cast.who[t].kind = "POSIX" /\ Block(t).kind = "POSIX" =>
         \A u \in Sleepers(t) : ~Deadlocked(t, u) /\ ~Contended(t, u)
    /\ pc' = [pc EXCEPT ![t] = "checked"]
    /\ UNCHANGED <<cast, list, v_lock, req, err, ops, fails>>

\* A flock request for writing gives up the owner's own lock first.
Yield(t) ==
    IF cast.who[t].kind = "FLOCK" /\ req[t].lock.type = "W"
    THEN lf_clearlock(list[req[t].v], [req[t].lock EXCEPT !.type = "U"], TRUE)
    ELSE Walk(list[req[t].v], req[t].lock)

\* Queue up behind the lock that blocks us and msleep.
setlock_sleep(t) ==
    /\ pc[t] = "checked"
    /\ LET v == req[t].v
           r == Yield(t)
           i == lf_getblock(r.list, req[t].lock)
       IN /\ list' = [list EXCEPT ![v] =
                        [r.list EXCEPT ![i].blk = Append(@, t),
                                       ![i].wake1 = @ /\ cast.who[t].kind = "FLOCK"]]
          /\ pc' = [Woken(pc, r.woken) EXCEPT ![t] = "asleep"]
          /\ req' = Chained(req, r.left)
          /\ v_lock' = [v_lock EXCEPT ![v] = NULL]
    /\ err' = [err EXCEPT ![t] = "OK"]
    /\ UNCHANGED <<cast, ops, fails>>

\* A signal, the timeout, or an early wakeup ends the msleep of t.
msleep_ends(t, error) ==
    /\ pc[t] = "asleep" /\ fails < MaxFailures
    /\ fails' = fails + 1
    /\ pc' = [pc EXCEPT ![t] = "woken"]
    /\ err' = [err EXCEPT ![t] = error]
    /\ UNCHANGED <<cast, list, v_lock, req, ops>>

\* Take t off the queue that it is in.
TAILQ_REMOVE(queue, t) ==
    IF t \in ToSet(queue) THEN RemoveAt(queue, CHOOSE i \in DOMAIN queue : queue[i] = t) ELSE queue
Unqueued(l, t) == [i \in DOMAIN l |-> [l[i] EXCEPT !.blk = TAILQ_REMOVE(@, t)]]
Unchained(r, t) == [u \in Threads |-> [r[u] EXCEPT !.lock.blk = TAILQ_REMOVE(@, t)]]

\* msleep returns with v_lock.  A request that was woken early leaves its
\* queue and, unless it failed, retries at once.
setlock_early(t) ==
    /\ pc[t] = "woken" /\ v_lock[req[t].v] = NULL
    /\ lf_next(t) # {} /\ err[t] = "OK" /\ ~req[t].abort
    /\ list' = [list EXCEPT ![req[t].v] = Unqueued(@, t)]
    /\ req' = Unchained(req, t)
    /\ v_lock' = [v_lock EXCEPT ![req[t].v] = t]
    /\ pc' = [pc EXCEPT ![t] = "scan"]
    /\ UNCHANGED <<cast, err, ops, fails>>

\* Mutant: a request that fails leaves the ones that were left to it asleep.
AbandonedNot(r, moved) == {}

\* The requests that a failed one wakes up: its own queue, unless that went to
\* the lock that blocks it.
Abandoned(r, moved) == IF moved THEN {} ELSE ToSet(r.lock.blk)

\* Otherwise the requests that were left to it queue up behind the lock that
\* blocks it, if any, and it retries or fails.
setlock_woken(t) ==
    /\ pc[t] = "woken" /\ v_lock[req[t].v] = NULL
    /\ ~(lf_next(t) # {} /\ err[t] = "OK" /\ ~req[t].abort)
    /\ LET v == req[t].v
           off == Unqueued(list[v], t)
           i == lf_getblock(off, req[t].lock)
           moved == i # 0 /\ req[t].lock.blk # <<>>
           left == Unchained(req, t)
       IN /\ list' = [list EXCEPT ![v] =
                        IF moved THEN [off EXCEPT ![i] = lf_move_blocked(@, req[t].lock)]
                        ELSE off]
          /\ IF err[t] # "OK" \/ req[t].abort
               THEN /\ pc' = [Woken(pc, Abandoned(req[t], moved)) EXCEPT ![t] = "idle"]
                    /\ req' = [left EXCEPT ![t] = NoReq]
                    /\ UNCHANGED v_lock
               ELSE /\ pc' = [pc EXCEPT ![t] = "scan"]
                    /\ req' = IF moved THEN [left EXCEPT ![t].lock.blk = <<>>] ELSE left
                    /\ v_lock' = [v_lock EXCEPT ![v] = t]
    /\ err' = [err EXCEPT ![t] = "OK"]
    /\ UNCHANGED <<cast, ops, fails>>

\* lf_abort_advlocks, on a forced unmount: the requests behind the first lock
\* of the list fail.
lf_abort_advlocks(v) ==
    /\ MaxFailures > 0
    /\ v_lock[v] = NULL
    /\ list[v] # <<>> /\ list[v][1].blk # <<>>
    /\ LET aborted == ToSet(list[v][1].blk)
       IN /\ req' = [t \in Threads |-> [req[t] EXCEPT !.abort = @ \/ t \in aborted]]
          /\ pc' = Woken(pc, aborted)
    /\ list' = [list EXCEPT ![v][1] = Emptied(@)]
    /\ UNCHANGED <<cast, v_lock, err, ops, fails>>
-----------------------------------------------------------------------------
\* The range of a flock, and of the unlock when a file is closed.
Whole == <<"SEEK_SET", 0, 0>>

FlocksOf(t) == IF cast.who[t].kind = "FLOCK" THEN {Whole} ELSE cast.flocks

\* A request goes on.
step(t) ==
    \/ setlock_grant(t) \/ setlock_nowait(t) \/ setlock_deadlock(t) \/ setlock_pause(t)
    \/ pause_ends(t) \/ setlock_checked(t) \/ setlock_sleep(t)
    \/ setlock_early(t) \/ setlock_woken(t)

\* The owner closes the file or exits.
close(t) == \E v \in Vnodes : lf_advlock_unlck(t, v, Whole)

Next ==
    \/ \E t \in Threads :
         \/ \E v \in cast.vnodes, flock \in FlocksOf(t) :
              \/ \E type \in cast.types, wait \in BOOLEAN : lf_advlock_setlk(t, v, flock, type, wait)
              \/ lf_advlock_unlck(t, v, flock)
         \/ step(t) \/ close(t)
         \/ \E error \in {"OK", "EINTR", "EWOULDBLOCK"} : msleep_ends(t, error)
    \/ \E v \in Vnodes : lf_abort_advlocks(v)

Spec == Init /\ [][Next]_vars
-----------------------------------------------------------------------------
(* Properties.                                                             *)

\* No request names the last offset.  For a range that does, the offset after its
\* end wraps to a negative one, where lf_clearlock lets the rest of a lock start.
RequestRanges ==
    UNION { FlockRange(f[1], f[2], f[3]) : f \in {Whole} \cup UNION { c.flocks : c \in Casts } }
NoLastByte == \A range \in RequestRanges : range[2] # OFF_MAX

\* What lf_findoverlap and lf_coalesce_adjacent assume and every operation has
\* to restore: the locks of one owner are adjacent on the list, in order, do not
\* intersect, and would be one lock if they touched and had one type.
ListOrdered ==
    \A v \in Vnodes : \A i, j \in DOMAIN list[v] :
      LET a == list[v][i]
          b == list[v][j]
      IN i < j /\ a.id = b.id =>
           /\ \A k \in i..j : list[v][k].id = a.id
           /\ a.end # -1 /\ a.end < b.start
           /\ a.type = b.type => a.end + 1 < b.start

\* Nobody is forgotten: a request that sleeps is in one queue, of a lock that is
\* on the list or of a request that has been woken up and will look after its
\* queue; and a request that has ended is in none.
WaiterQueued ==
    \A t \in Threads :
      /\ pc[t] = "asleep" =>
           \/ \E lock \in ToSet(list[req[t].v]) : t \in ToSet(lock.blk)
           \/ \E u \in Threads \ {t} : pc[u] \in {"woken", "scan"} /\ t \in ToSet(req[u].lock.blk)
      /\ pc[t] \notin {"asleep", "woken"} => lf_next(t) = {}
      /\ Cardinality(lf_next(t)) <= 1

\* An owner waits for another's record lock.
WaitsFor(o, p) ==
    \E t \in Threads : /\ pc[t] = "asleep" /\ cast.who[t].id = o
                       /\ \E lock \in lf_next(t) : lock.kind = "POSIX" /\ lock.id = p

\* Two processes never sleep on each other's record locks of one file: one of
\* the requests fails with EDEADLK, also when what a request is blocked by
\* changes while it sleeps.
NoWaitCycle ==
    Cardinality(cast.vnodes) = 1 =>
      \A o, p \in Owners : ~(WaitsFor(o, p) /\ WaitsFor(p, o))

\* The list stands for a table of who has which byte locked.
Bytes == 0..OFF_MAX
BytesOf(start, end) == { b \in Bytes : start <= b /\ (b <= end \/ end = -1) }
Held(l, o, b) ==
    LET here == { i \in DOMAIN l : /\ l[i].id = o
                                   /\ l[i].start <= b /\ (b <= l[i].end \/ l[i].end = -1) }
    IN IF here = {} THEN "N" ELSE l[CHOOSE i \in here : TRUE].type
HeldBy(l, o) ==
    IF \E i \in DOMAIN l : l[i].id = o THEN [b \in Bytes |-> Held(l, o, b)]
    ELSE [b \in Bytes |-> "N"]
NoWant == [v |-> NULL, o |-> NULL, type |-> "N", range |-> {}]
Wanted(p, r) ==
    IF p = "idle" THEN NoWant
    ELSE [v |-> r.v, o |-> r.lock.id, type |-> r.lock.type,
          range |-> BytesOf(r.lock.start, r.lock.end)]
HeldTable == [v \in Vnodes |-> [o \in Owners |-> HeldBy(list[v], o)]]
WantTable == [t \in Threads |-> Wanted(pc[t], req[t])]
Table == INSTANCE LockTable WITH
    Files <- Vnodes, None <- NoWant, held <- HeldTable, want <- WantTable,
    Ranges <- { BytesOf(range[1], range[2]) : range \in RequestRanges }

\* Each operation sets or clears exactly the bytes it was asked for, at once,
\* and a lock is only granted when no conflicting lock is held.
TableRefinement == Table!Spec
=============================================================================
