--------------------------- MODULE MpscQueueProofs ---------------------------
(***************************************************************************)
(* Proofs about the lock-free queue, for any elements, any producers and   *)
(* lists of any length.  The invariant speaks of the edges of the list, a  *)
(* link that is stored and a link that a producer still owes alike: the    *)
(* second half of an enqueue then changes no edge.  It says that edges     *)
(* stay within the queue or within the batch and never meet, and that a    *)
(* NULL link is the end of a list or is owed.                              *)
(*                                                                         *)
(* The refinement of MpscFifo rests on this invariant.  A sequence lists   *)
(* the queue if every element is linked to the one that follows it, and    *)
(* another one lists the batch; each step of the algorithm keeps the two   *)
(* sequences, joins them, moves one or shortens one as a step of the FIFO  *)
(* does.  That Chain finds them is shown with the least index at which it  *)
(* would go wrong.                                                         *)
(***************************************************************************)
EXTENDS MpscQueueRefinement, FiniteSetTheorems, SequenceTheorems,
        WellFoundedInduction, TLAPS

\* x is linked to y, or will be when a producer has stored the link it owes.
\* In restore_store the queue head's own link is dead: last has it already.
Edge(x, y) ==
    /\ x = QHead => cpc # "restore_store"
    /\ \/ next[x] = y
       \/ \E p \in Producers : Owes(p, x) /\ link[p].first = y

\* The side of a linkage: the queue head goes with the queue.
Side(x) == IF x = QHead THEN "queue" ELSE owner[x]

\* The tail is in the queue, and nothing was stored behind it.
TailInv ==
    /\ Side(tail) = "queue"
    /\ next[tail] = NULL
    /\ next[QHead] # NotQueued

\* The link a producer owes is NULL and belongs to a queued element that is
\* no longer the tail; nobody else owes it.
LinkInv ==
    /\ \A p \in Producers : link[p] # NULL =>
         /\ link[p].prev # tail
         /\ next[link[p].prev] = NULL
         /\ Side(link[p].prev) # "idle"
    /\ \A p, q \in Producers, x \in Nodes : Owes(p, x) /\ Owes(q, x) => p = q

\* Edges stay on one side ...
EdgeInv ==
    \A x \in Nodes, y \in Elements :
      Side(x) # "idle" /\ Edge(x, y) => owner[y] = Side(x)

\* ... and no two lead to the same element.
MeetInv ==
    \A x, z \in Nodes, y \in Elements :
      Side(x) # "idle" /\ Side(z) # "idle" /\ Edge(x, y) /\ Edge(z, y) => x = z

\* A NULL link is the end of the queue or of the batch, or it is owed.
EndInv ==
    \A e \in Elements : next[e] = NULL =>
      \/ owner[e] = "queue" /\ e = tail
      \/ owner[e] = "batch" /\ e = last
      \/ \E p \in Producers : Owes(p, e)

\* The queue head: its link is NULL only if the queue is empty, if the link is
\* owed, or while the consumer is about to overwrite it.
HeadInv ==
    /\ next[QHead] = NULL => \/ tail = QHead
                             \/ cpc \in {"xchg_tail", "restore_store"}
                             \/ \E p \in Producers : Owes(p, QHead)
    /\ cpc \in {"load_head", "clear_head", "xchg_tail", "restore_wait", "restore_store"}
         => tail # QHead
    /\ cpc \in {"clear_head", "xchg_tail", "restore_store"}
         => \A p \in Producers : ~Owes(p, QHead)
    /\ cpc = "clear_head" => next[QHead] = head
    /\ cpc = "xchg_tail" => next[QHead] = NULL

\* No edge leads to e.
Root(e) == \A x \in Nodes : Side(x) # "idle" => ~Edge(x, e)

\* The consumer's locals: head and cur are where no edge leads, last is where
\* the edges of the batch end, and tmp is what cur is linked to.
BatchInv ==
    /\ cpc = "clear_head" => head \in Elements /\ owner[head] = "queue"
    /\ cpc = "xchg_tail" => head \in Elements /\ owner[head] = "queue" /\ Root(head)
    /\ cpc \in {"batch_next", "visit", "restore_cas", "restore_wait"} =>
         /\ cur \in Elements /\ owner[cur] = "batch" /\ Root(cur)
         /\ last \in Elements /\ owner[last] = "batch" /\ next[last] = NULL
         /\ \A p \in Producers : ~Owes(p, last)
    /\ cpc = "visit" => \/ cur = last /\ tmp = NULL
                        \/ cur # last /\ tmp # NULL /\ next[cur] = tmp
    /\ cpc = "restore_store" =>
         /\ cur \in Elements /\ owner[cur] = "queue" /\ Root(cur)
         /\ last \in Elements /\ owner[last] = "queue"
    /\ cpc \in {"idle", "load_head", "clear_head", "xchg_tail"} => last = NULL

QueueInv ==
    /\ TypeOK
    /\ MarkerMeansIdle
    /\ TailInv
    /\ LinkInv
    /\ EdgeInv
    /\ MeetInv
    /\ EndInv
    /\ HeadInv
    /\ BatchInv
-----------------------------------------------------------------------------
(* The first state.                                                        *)

\* mpsc_queue_init: an empty queue satisfies the invariant.
LEMMA InitQueueInv == Init => QueueInv
  BY MpscAssumption DEF Init, QueueInv, TypeOK, MarkerMeansIdle, TailInv, LinkInv,
     EdgeInv, MeetInv, EndInv, HeadInv, BatchInv, Edge, Side, Owes, Root, Nodes
-----------------------------------------------------------------------------
(* The producers.                                                          *)

\* A list that is appended is not empty and has no element twice; ListNext is
\* the linkage that its caller set up.
LEMMA ListFacts ==
    ASSUME NEW l \in Lists
    PROVE  /\ Len(l) \in Nat \ {0} /\ DOMAIN l = 1..Len(l)
           /\ \A i \in 1..Len(l) : l[i] \in Elements
           /\ \A i, j \in 1..Len(l) : l[i] = l[j] => i = j
           /\ \A i \in 1..Len(l) :
                ListNext(l, l[i]) = IF i = Len(l) THEN NULL ELSE l[i + 1]
  <1>1. PICK n \in 1..MaxList : l \in [1..n -> Elements]
    BY DEF Lists
  <1>2. n \in Nat \ {0} /\ DOMAIN l = 1..n /\ l \in Seq(Elements)
    BY <1>1, MpscAssumption
  <1>3. Len(l) = n
    BY <1>1, <1>2
  <1>4. \A i, j \in 1..Len(l) : l[i] = l[j] => i = j
    BY <1>2, <1>3 DEF Lists
  <1>5. ASSUME NEW i \in 1..Len(l)
        PROVE  ListNext(l, l[i]) = IF i = Len(l) THEN NULL ELSE l[i + 1]
    <2> DEFINE k == CHOOSE k \in DOMAIN l : l[k] = l[i]
    <2>1. i \in DOMAIN l
      BY <1>2, <1>3
    <2>2. k \in DOMAIN l /\ l[k] = l[i]
      BY <2>1, Zenon
    <2>3. k = i
      BY <1>2, <1>3, <1>4, <2>2
    <2>4. ListNext(l, l[i]) = IF k = Len(l) THEN NULL ELSE l[k + 1]
      BY DEF ListNext
    <2> QED
      BY <2>3, <2>4
  <1> QED
    BY <1>1, <1>2, <1>3, <1>4, <1>5

\* The first half of an enqueue adds the edges of a list of idle elements, to
\* which no edge led, and the edge it owes from the old tail to the first.
LEMMA AppendUpdateTailInv ==
    ASSUME NEW p0 \in Producers, NEW l \in Lists, QueueInv, append_update_tail(p0, l)
    PROVE  QueueInv'
  <1> DEFINE n == Len(l)
             In(e) == \E i \in 1..n : l[i] = e
  <1>1. /\ n \in Nat \ {0} /\ DOMAIN l = 1..n
        /\ \A i \in 1..n : l[i] \in Elements
        /\ \A i, j \in 1..n : l[i] = l[j] => i = j
        /\ \A i \in 1..n : ListNext(l, l[i]) = IF i = n THEN NULL ELSE l[i + 1]
    BY ListFacts
  <1> HIDE DEF n
  \* What the step does to every variable.
  <1>2. l[1] \in Elements /\ l[n] \in Elements /\ In(l[1]) /\ In(l[n])
    BY <1>1
  <1>3. \A i \in 1..n : owner[l[i]] = "idle" /\ next[l[i]] = NotQueued
    BY <1>1 DEF append_update_tail, QueueInv, MarkerMeansIdle
  <1>4. \A i \in 1..n : next'[l[i]] = IF i = n THEN NULL ELSE l[i + 1]
    BY <1>1 DEF append_update_tail, Nodes
  <1>5. \A x \in Nodes : ~In(x) => next'[x] = next[x]
    BY <1>1 DEF append_update_tail, Nodes
  <1>6. \A e \in Elements : owner'[e] = IF In(e) THEN "queue" ELSE owner[e]
    BY <1>1 DEF append_update_tail
  <1>7. /\ tail' = l[n] /\ link[p0] = NULL
        /\ link' = [link EXCEPT ![p0] = [prev |-> tail, first |-> l[1]]]
        /\ UNCHANGED <<cpc, head, last, cur, tmp>>
    BY DEF append_update_tail, consVars, n
  <1>8. ~In(QHead) /\ ~In(tail)
    BY <1>1, <1>3, MpscAssumption DEF QueueInv, TailInv, Side
  <1>9. \A x \in Nodes : ~In(x) => Side(x)' = Side(x)
    BY <1>6 DEF Side, Nodes
  <1>10. TypeOK'
    BY <1>1, <1>2, <1>4, <1>5, <1>6, <1>7, MpscAssumption
    DEF QueueInv, TypeOK, append_update_tail, Nodes
  <1>11. MarkerMeansIdle'
    BY <1>1, <1>4, <1>5, <1>6, MpscAssumption DEF QueueInv, MarkerMeansIdle, Nodes
  <1>12. TailInv'
    BY <1>1, <1>2, <1>4, <1>5, <1>6, <1>7, <1>8, MpscAssumption
    DEF QueueInv, TailInv, Side, Nodes
  \* One more link is owed: that of the old tail.
  <1>13. ASSUME NEW p \in Producers, NEW x \in Nodes
         PROVE  Owes(p, x)' <=> Owes(p, x) \/ (p = p0 /\ x = tail)
    <2>1. /\ tail \in Nodes
          /\ link \in [Producers -> [prev : Nodes, first : Elements] \cup {NULL}]
      BY DEF QueueInv, TypeOK
    <2>2. [prev |-> tail, first |-> l[1]] # NULL
      BY <2>1, <1>2, MpscAssumption DEF Nodes
    <2>3. CASE p = p0
      <3>1. link'[p] = [prev |-> tail, first |-> l[1]] /\ link[p] = NULL
        BY <2>1, <2>3, <1>7
      <3> QED
        BY <3>1, <2>2, <2>3 DEF Owes
    <2>4. CASE p # p0
      BY <2>1, <2>4, <1>7 DEF Owes
    <2> QED
      BY <2>3, <2>4
  <1>14. LinkInv'
    BY <1>2, <1>3, <1>5, <1>7, <1>8, <1>9, MpscAssumption
    DEF QueueInv, TailInv, LinkInv, Owes, TypeOK, Side, Nodes
  \* The edges: the old ones, none of which touched the list, the one from the
  \* old tail, and those within the list.
  <1>15. ASSUME NEW x \in Nodes, NEW y \in Elements, Side(x) # "idle", Edge(x, y)
         PROVE  ~In(x) /\ ~In(y)
    <2>1. owner[y] # "idle"
      BY <1>15 DEF QueueInv, EdgeInv
    <2> QED
      BY <2>1, <1>3, <1>8, <1>15 DEF Side
  <1>16. ASSUME NEW x \in Nodes, NEW y \in Elements, Side(x)' # "idle"
         PROVE  Edge(x, y)' <=>
                  \/ ~In(x) /\ Side(x) # "idle" /\ Edge(x, y)
                  \/ x = tail /\ y = l[1] /\ (x = QHead => cpc # "restore_store")
                  \/ \E i \in 1..n : i # n /\ x = l[i] /\ y = l[i + 1]
    <2>1. CASE In(x)
      <3>1. PICK i \in 1..n : x = l[i]
        BY <2>1
      <3>2. ~ \E p \in Producers : Owes(p, x)'
        BY <1>13, <1>8, <2>1, <3>1, <1>3 DEF QueueInv, LinkInv, Side, Owes
      <3> QED
        BY <1>1, <1>4, <1>8, <2>1, <3>1, <3>2, MpscAssumption DEF Edge
    <2>2. CASE ~In(x)
      <3>1. next'[x] = next[x] /\ Side(x) # "idle" /\ cpc' = cpc
        BY <2>2, <1>5, <1>9, <1>16, <1>7
      <3>2. \A i \in 1..n : x # l[i]
        BY <2>2
      <3>3. \A p \in Producers : p # p0 => link'[p] = link[p]
        BY <1>7 DEF QueueInv, TypeOK
      <3>4. link'[p0].first = l[1] /\ link[p0] = NULL
        BY <1>7 DEF QueueInv, TypeOK
      <3> QED
        BY <1>13, <2>2, <3>1, <3>2, <3>3, <3>4 DEF Edge, Owes
    <2> QED
      BY <2>1, <2>2
  <1>17. EdgeInv'
    <2> SUFFICES ASSUME NEW x \in Nodes, NEW y \in Elements,
                        Side(x)' # "idle", Edge(x, y)'
                 PROVE  owner'[y] = Side(x)'
      BY DEF EdgeInv
    <2>1. CASE ~In(x) /\ Side(x) # "idle" /\ Edge(x, y)
      BY <2>1, <1>6, <1>9, <1>15 DEF QueueInv, EdgeInv
    <2>2. CASE x = tail /\ y = l[1]
      BY <2>2, <1>2, <1>6, <1>8, <1>9 DEF QueueInv, TailInv
    <2>3. ASSUME NEW i \in 1..n, i # n, x = l[i], y = l[i + 1]
          PROVE  owner'[y] = Side(x)'
      <3>1. i + 1 \in 1..n
        BY <2>3, <1>1
      <3> QED
        BY <2>3, <3>1, <1>1, <1>6, MpscAssumption DEF Side
    <2> QED
      BY <2>1, <2>2, <2>3, <1>16
  <1>18. MeetInv'
    BY <1>1, <1>2, <1>15, <1>16 DEF QueueInv, MeetInv
  \* The list ends in the new tail; the old tail's NULL link is now owed.
  <1>19. EndInv'
    <2> SUFFICES ASSUME NEW e \in Elements, next'[e] = NULL
                 PROVE  \/ owner'[e] = "queue" /\ e = tail'
                        \/ owner'[e] = "batch" /\ e = last'
                        \/ \E p \in Producers : Owes(p, e)'
      BY DEF EndInv
    <2>1. CASE In(e)
      BY <2>1, <1>1, <1>4, <1>6, <1>7, MpscAssumption
    <2>2. CASE ~In(e)
      <3>1. next[e] = NULL /\ owner'[e] = owner[e]
        BY <2>2, <1>5, <1>6 DEF Nodes
      <3> QED
        BY <3>1, <1>7, <1>13 DEF QueueInv, EndInv, Nodes
    <2> QED
      BY <2>1, <2>2
  <1>20. HeadInv'
    BY <1>2, <1>5, <1>7, <1>8, <1>13, MpscAssumption DEF QueueInv, HeadInv, Nodes, TailInv
  \* The consumer's elements are not idle: the new edges do not touch them.
  <1>21. BatchInv'
    <2>1. \A e \in Elements : owner[e] # "idle" => ~In(e)
      BY <1>3
    <2>2. ASSUME NEW e \in Elements, owner[e] # "idle", Root(e) PROVE Root(e)'
      <3> SUFFICES ASSUME NEW x \in Nodes, Side(x)' # "idle", Edge(x, e)' PROVE FALSE
        BY DEF Root
      <3>1. e # l[1] /\ \A i \in 1..n : i # n => e # l[i + 1]
        BY <1>1, <1>2, <2>1, <2>2
      <3> QED
        BY <3>1, <2>2, <1>16 DEF Root
    <2>3. \A e \in Elements :
            owner[e] # "idle" => owner'[e] = owner[e] /\ next'[e] = next[e]
      BY <2>1, <1>5, <1>6 DEF Nodes
    <2>4. \A p \in Producers, e \in Elements :
            owner[e] = "batch" /\ Owes(p, e)' => Owes(p, e)
      BY <1>13, MpscAssumption DEF QueueInv, TailInv, Side, Nodes
    <2> QED
      BY <1>7, <2>2, <2>3, <2>4 DEF QueueInv, BatchInv
  <1> QED
    BY <1>10, <1>11, <1>12, <1>14, <1>17, <1>18, <1>19, <1>20, <1>21 DEF QueueInv

\* The second half of an enqueue stores an edge that was there already.
LEMMA AppendUpdatePrevInv ==
    ASSUME NEW p \in Producers, QueueInv, append_update_prev(p) PROVE QueueInv'
  <1>1. TypeOK'
    BY DEF QueueInv, append_update_prev, consVars, TypeOK
  <1>2. MarkerMeansIdle'
    BY MpscAssumption DEF QueueInv, append_update_prev, TypeOK, MarkerMeansIdle,
       LinkInv
  <1>3. TailInv'
    BY MpscAssumption DEF QueueInv, append_update_prev, TypeOK, TailInv, LinkInv, Side
  <1>4. LinkInv'
    BY DEF QueueInv, append_update_prev, TypeOK, LinkInv, Side, Owes
  <1>5. EdgeInv'
    BY DEF QueueInv, append_update_prev, consVars, EdgeInv, Edge, Side, Owes
  <1>6. MeetInv'
    BY DEF QueueInv, append_update_prev, consVars, TailInv, MeetInv, Edge, Side, Owes
  <1>7. EndInv'
    BY DEF QueueInv, append_update_prev, consVars, TypeOK, TailInv, LinkInv, MeetInv,
       EndInv, HeadInv, Edge, Owes
  <1>8. HeadInv'
    BY DEF QueueInv, append_update_prev, consVars, TypeOK, TailInv, LinkInv, MeetInv,
       HeadInv, Edge, Owes
  <1>9. BatchInv'
    BY DEF QueueInv, append_update_prev, consVars, LinkInv, BatchInv, Edge, Side,
       Owes, Root
  <1> QED
    BY <1>1, <1>2, <1>3, <1>4, <1>5, <1>6, <1>7, <1>8, <1>9 DEF QueueInv

-----------------------------------------------------------------------------
(* The consumer.                                                           *)

\* The consumer looks at the tail; a queue with a tail stays nonempty.
LEMMA DequeueLoadTailInv ==
    ASSUME QueueInv, dequeue_load_tail PROVE QueueInv'
  <1>1. TypeOK'
    BY DEF QueueInv, dequeue_load_tail, prodVars, TypeOK
  <1>2. MarkerMeansIdle'
    BY DEF QueueInv, dequeue_load_tail, prodVars, MarkerMeansIdle
  <1>3. TailInv'
    BY DEF QueueInv, dequeue_load_tail, prodVars, TailInv, Side
  <1>4. LinkInv'
    BY DEF QueueInv, dequeue_load_tail, prodVars, LinkInv, Side, Owes
  <1>5. EdgeInv'
    BY DEF QueueInv, dequeue_load_tail, prodVars, EdgeInv, Edge, Side, Owes
  <1>6. MeetInv'
    BY DEF QueueInv, dequeue_load_tail, prodVars, MarkerMeansIdle, MeetInv, Edge,
       Side, Owes
  <1>7. EndInv'
    BY DEF QueueInv, dequeue_load_tail, prodVars, EndInv, Owes
  <1>8. HeadInv'
    BY DEF QueueInv, dequeue_load_tail, prodVars, HeadInv, Owes
  <1>9. BatchInv'
    BY DEF QueueInv, dequeue_load_tail, BatchInv
  <1> QED
    BY <1>1, <1>2, <1>3, <1>4, <1>5, <1>6, <1>7, <1>8, <1>9 DEF QueueInv

\* The consumer reads the first link: nobody owes a link that is stored.
LEMMA DequeueLoadHeadInv ==
    ASSUME QueueInv, dequeue_load_head PROVE QueueInv'
  <1>1. TypeOK'
    BY DEF QueueInv, dequeue_load_head, prodVars, Nodes, TypeOK, TailInv
  <1>2. MarkerMeansIdle'
    BY DEF QueueInv, dequeue_load_head, prodVars, MarkerMeansIdle
  <1>3. TailInv'
    BY DEF QueueInv, dequeue_load_head, prodVars, TailInv, Side
  <1>4. LinkInv'
    BY DEF QueueInv, dequeue_load_head, prodVars, LinkInv, Side, Owes
  <1>5. EdgeInv'
    BY DEF QueueInv, dequeue_load_head, prodVars, EdgeInv, Edge, Side, Owes
  <1>6. MeetInv'
    BY DEF QueueInv, dequeue_load_head, prodVars, MeetInv, Edge, Side, Owes
  <1>7. EndInv'
    BY DEF QueueInv, dequeue_load_head, prodVars, EndInv, Owes
  <1>8. HeadInv'
    BY DEF QueueInv, dequeue_load_head, prodVars, LinkInv, HeadInv, Owes
  <1>9. BatchInv'
    BY DEF QueueInv, dequeue_load_head, prodVars, Nodes, TypeOK, TailInv, EdgeInv,
       BatchInv, Edge, Side
  <1> QED
    BY <1>1, <1>2, <1>3, <1>4, <1>5, <1>6, <1>7, <1>8, <1>9 DEF QueueInv

\* The head is unlinked, and no edge leads to the first element any more.
LEMMA DequeueClearHeadInv ==
    ASSUME QueueInv, dequeue_clear_head PROVE QueueInv'
  <1>1. TypeOK'
    BY DEF QueueInv, dequeue_clear_head, Nodes, TypeOK
  <1>2. MarkerMeansIdle'
    BY DEF QueueInv, dequeue_clear_head, Nodes, TypeOK, MarkerMeansIdle, TailInv, Side
  <1>3. TailInv'
    BY DEF QueueInv, dequeue_clear_head, Nodes, TypeOK, MarkerMeansIdle, TailInv, Side
  <1>4. LinkInv'
    BY DEF QueueInv, dequeue_clear_head, LinkInv, Side, Owes
  <1>5. EdgeInv'
    BY DEF QueueInv, dequeue_clear_head, TypeOK, TailInv, EdgeInv, Edge, Side, Owes
  <1>6. MeetInv'
    BY MpscAssumption DEF QueueInv, dequeue_clear_head, MeetInv, Edge, Side, Owes
  <1>7. EndInv'
    BY MpscAssumption DEF QueueInv, dequeue_clear_head, EndInv, Owes
  <1>8. HeadInv'
    BY DEF QueueInv, dequeue_clear_head, Nodes, TypeOK, HeadInv, Owes
  <1>9. BatchInv'
    BY DEF QueueInv, dequeue_clear_head, Nodes, TypeOK, MeetInv, HeadInv, BatchInv,
       Edge, Side, Owes, Root
  <1> QED
    BY <1>1, <1>2, <1>3, <1>4, <1>5, <1>6, <1>7, <1>8, <1>9 DEF QueueInv

\* All of the queue becomes the batch, links that are owed included.
LEMMA DequeueXchgTailInv ==
    ASSUME QueueInv, dequeue_xchg_tail PROVE QueueInv'
  <1>1. TypeOK'
    BY DEF QueueInv, dequeue_xchg_tail, Nodes, TypeOK, HeadInv
  <1>2. MarkerMeansIdle'
    BY DEF QueueInv, dequeue_xchg_tail, MarkerMeansIdle
  <1>3. TailInv'
    BY DEF QueueInv, dequeue_xchg_tail, TailInv, HeadInv, Side
  <1>4. LinkInv'
    BY DEF QueueInv, dequeue_xchg_tail, Nodes, TypeOK, LinkInv, HeadInv, Side, Owes
  <1>5. EdgeInv'
    BY DEF QueueInv, dequeue_xchg_tail, Nodes, TypeOK, TailInv, EdgeInv, MeetInv,
       HeadInv, Edge, Side, Owes
  <1>6. MeetInv'
    BY DEF QueueInv, dequeue_xchg_tail, Nodes, MeetInv, Edge, Side, Owes
  <1>7. EndInv'
    BY DEF QueueInv, dequeue_xchg_tail, TypeOK, TailInv, EdgeInv, EndInv, BatchInv,
       Edge, Owes
  <1>8. HeadInv'
    BY DEF QueueInv, dequeue_xchg_tail, HeadInv
  <1>9. BatchInv'
    BY DEF QueueInv, dequeue_xchg_tail, Nodes, TypeOK, TailInv, LinkInv, HeadInv,
       BatchInv, Edge, Side, Owes, Root
  <1> QED
    BY <1>1, <1>2, <1>3, <1>4, <1>5, <1>6, <1>7, <1>8, <1>9 DEF QueueInv

\* The consumer reads the link of the current element, or is at the last.
LEMMA BatchNextInv ==
    ASSUME QueueInv, batch_next PROVE QueueInv'
  <1>1. TypeOK'
    BY DEF QueueInv, batch_next, prodVars, Nodes, TypeOK, MarkerMeansIdle, BatchInv
  <1>2. MarkerMeansIdle'
    BY DEF QueueInv, batch_next, prodVars, MarkerMeansIdle
  <1>3. TailInv'
    BY DEF QueueInv, batch_next, prodVars, TailInv, Side
  <1>4. LinkInv'
    BY DEF QueueInv, batch_next, prodVars, LinkInv, Side, Owes
  <1>5. EdgeInv'
    BY DEF QueueInv, batch_next, prodVars, EdgeInv, Edge, Side, Owes
  <1>6. MeetInv'
    BY DEF QueueInv, batch_next, prodVars, TailInv, MeetInv, Edge, Side, Owes
  <1>7. EndInv'
    BY DEF QueueInv, batch_next, prodVars, EndInv, Owes
  <1>8. HeadInv'
    BY DEF QueueInv, batch_next, prodVars, HeadInv, Owes
  <1>9. BatchInv'
    BY DEF QueueInv, batch_next, prodVars, BatchInv, Edge, Side, Owes, Root
  <1> QED
    BY <1>1, <1>2, <1>3, <1>4, <1>5, <1>6, <1>7, <1>8, <1>9 DEF QueueInv

\* The current element leaves the batch: no edge leads to it and none is owed
\* by it, so that nothing refers to it once its callback runs.
LEMMA BatchVisitInv ==
    ASSUME QueueInv, batch_visit PROVE QueueInv'
  <1>1. TypeOK'
    BY DEF QueueInv, batch_visit, Nodes, TypeOK, BatchInv
  <1>2. MarkerMeansIdle'
    BY DEF QueueInv, batch_visit, Nodes, TypeOK, MarkerMeansIdle
  <1>3. TailInv'
    BY MpscAssumption DEF QueueInv, batch_visit, TailInv, BatchInv, Side
  <1>4. LinkInv'
    BY DEF QueueInv, batch_visit, LinkInv, BatchInv, Side, Owes
  <1>5. EdgeInv'
    BY MpscAssumption DEF QueueInv, batch_visit, EdgeInv, BatchInv, Edge, Side, Owes,
       Root
  <1>6. MeetInv'
    BY MpscAssumption DEF QueueInv, batch_visit, MeetInv, Edge, Side, Owes
  <1>7. EndInv'
    BY DEF QueueInv, batch_visit, Nodes, TypeOK, MarkerMeansIdle, EndInv, BatchInv,
       Owes
  <1>8. HeadInv'
    BY DEF QueueInv, batch_visit, Nodes, TypeOK, MarkerMeansIdle, TailInv, LinkInv,
       EndInv, HeadInv, Owes
  <1>9. BatchInv'
    BY MpscAssumption DEF QueueInv, batch_visit, Nodes, TypeOK, EdgeInv, MeetInv,
       BatchInv, Edge, Side, Owes, Root
  <1> QED
    BY <1>1, <1>2, <1>3, <1>4, <1>5, <1>6, <1>7, <1>8, <1>9 DEF QueueInv

\* The last element of the batch takes over the link of the queue head.
LEMMA RestoreLoadHeadInv ==
    ASSUME QueueInv, restore_load_head PROVE QueueInv'
  <1>1. TypeOK'
    BY DEF QueueInv, restore_load_head, Nodes, TypeOK, BatchInv, Requeued
  <1>2. MarkerMeansIdle'
    BY DEF QueueInv, restore_load_head, MarkerMeansIdle, TailInv, BatchInv, Requeued
  <1>3. TailInv'
    BY DEF QueueInv, restore_load_head, Nodes, TypeOK, TailInv, BatchInv, Side,
       Requeued
  <1>4. LinkInv'
    BY DEF QueueInv, restore_load_head, Nodes, TypeOK, LinkInv, BatchInv, Side, Owes,
       Requeued
  <1>5. EdgeInv'
    BY DEF QueueInv, restore_load_head, Nodes, EdgeInv, BatchInv, Edge, Side, Owes,
       Requeued
  <1>6. MeetInv'
    BY DEF QueueInv, restore_load_head, Nodes, MeetInv, BatchInv, Edge, Side, Owes,
       Requeued
  <1>7. EndInv'
    BY DEF QueueInv, restore_load_head, Nodes, TypeOK, EndInv, BatchInv, Owes,
       Requeued
  <1>8. HeadInv'
    BY DEF QueueInv, restore_load_head, TailInv, LinkInv, HeadInv, Owes
  <1>9. BatchInv'
    BY DEF QueueInv, restore_load_head, Nodes, BatchInv, Edge, Side, Owes, Root,
       Requeued
  <1> QED
    BY <1>1, <1>2, <1>3, <1>4, <1>5, <1>6, <1>7, <1>8, <1>9 DEF QueueInv

\* The batch becomes the queue, or a producer was faster.
LEMMA RestoreCmpxchgTailInv ==
    ASSUME QueueInv, restore_cmpxchg_tail PROVE QueueInv'
  <1>1. TypeOK'
    BY DEF QueueInv, restore_cmpxchg_tail, Nodes, TypeOK, BatchInv, Requeued
  <1>2. MarkerMeansIdle'
    BY DEF QueueInv, restore_cmpxchg_tail, MarkerMeansIdle, Requeued
  <1>3. TailInv'
    BY DEF QueueInv, restore_cmpxchg_tail, TailInv, BatchInv, Side, Requeued
  <1>4. LinkInv'
    BY DEF QueueInv, restore_cmpxchg_tail, Nodes, TypeOK, LinkInv, BatchInv, Side,
       Owes, Requeued
  <1>5. EdgeInv'
    BY DEF QueueInv, restore_cmpxchg_tail, Nodes, EdgeInv, Edge, Side, Owes, Requeued
  <1>6. MeetInv'
    BY DEF QueueInv, restore_cmpxchg_tail, Nodes, MeetInv, Edge, Side, Owes, Requeued
  <1>7. EndInv'
    BY MpscAssumption DEF QueueInv, restore_cmpxchg_tail, EndInv, Owes, Requeued
  <1>8. HeadInv'
    BY MpscAssumption DEF QueueInv, restore_cmpxchg_tail, TypeOK, LinkInv, HeadInv,
       Owes
  <1>9. BatchInv'
    BY DEF QueueInv, restore_cmpxchg_tail, Nodes, BatchInv, Edge, Side, Owes, Root,
       Requeued
  <1> QED
    BY <1>1, <1>2, <1>3, <1>4, <1>5, <1>6, <1>7, <1>8, <1>9 DEF QueueInv

\* The last element of the batch is linked to what the producers enqueued.
LEMMA RestoreWaitEnqueuerInv ==
    ASSUME QueueInv, restore_wait_enqueuer PROVE QueueInv'
  <1>1. TypeOK'
    BY DEF QueueInv, restore_wait_enqueuer, Nodes, TypeOK, BatchInv, Requeued
  <1>2. MarkerMeansIdle'
    BY DEF QueueInv, restore_wait_enqueuer, MarkerMeansIdle, TailInv, BatchInv,
       Requeued
  <1>3. TailInv'
    BY DEF QueueInv, restore_wait_enqueuer, Nodes, TypeOK, TailInv, BatchInv, Side,
       Requeued
  <1>4. LinkInv'
    BY DEF QueueInv, restore_wait_enqueuer, Nodes, TypeOK, LinkInv, BatchInv, Side,
       Owes, Requeued
  <1>5. EdgeInv'
    BY DEF QueueInv, restore_wait_enqueuer, Nodes, TypeOK, EdgeInv, Edge, Side, Owes,
       Requeued
  <1>6. MeetInv'
    BY DEF QueueInv, restore_wait_enqueuer, Nodes, MeetInv, Edge, Side, Owes, Requeued
  <1>7. EndInv'
    BY DEF QueueInv, restore_wait_enqueuer, Nodes, TypeOK, EndInv, Owes, Requeued
  <1>8. HeadInv'
    BY DEF QueueInv, restore_wait_enqueuer, LinkInv, HeadInv, Owes
  <1>9. BatchInv'
    BY DEF QueueInv, restore_wait_enqueuer, Nodes, BatchInv, Edge, Side, Owes, Root,
       Requeued
  <1> QED
    BY <1>1, <1>2, <1>3, <1>4, <1>5, <1>6, <1>7, <1>8, <1>9 DEF QueueInv

\* The queue head leads to the batch, to which no edge led.
LEMMA RestoreStoreHeadInv ==
    ASSUME QueueInv, restore_store_head PROVE QueueInv'
  <1>1. TypeOK'
    BY DEF QueueInv, restore_store_head, Nodes, TypeOK
  <1>2. MarkerMeansIdle'
    BY MpscAssumption DEF QueueInv, restore_store_head, MarkerMeansIdle
  <1>3. TailInv'
    BY MpscAssumption DEF QueueInv, restore_store_head, TypeOK, TailInv, HeadInv, Side
  <1>4. LinkInv'
    BY DEF QueueInv, restore_store_head, LinkInv, HeadInv, Side, Owes
  <1>5. EdgeInv'
    BY DEF QueueInv, restore_store_head, TypeOK, EdgeInv, HeadInv, BatchInv, Edge,
       Side, Owes
  <1>6. MeetInv'
    BY DEF QueueInv, restore_store_head, TypeOK, MeetInv, HeadInv, BatchInv, Edge,
       Side, Owes, Root
  <1>7. EndInv'
    BY DEF QueueInv, restore_store_head, TypeOK, TailInv, EndInv, BatchInv, Edge,
       Owes, Root
  <1>8. HeadInv'
    BY DEF QueueInv, restore_store_head, Nodes, TypeOK, TailInv, HeadInv, BatchInv,
       Edge, Root
  <1>9. BatchInv'
    BY DEF QueueInv, restore_store_head, BatchInv
  <1> QED
    BY <1>1, <1>2, <1>3, <1>4, <1>5, <1>6, <1>7, <1>8, <1>9 DEF QueueInv
-----------------------------------------------------------------------------
(* The theorems.                                                           *)

\* No step breaks the invariant.
LEMMA NextQueueInv == QueueInv /\ [Next]_vars => QueueInv'
  <1> SUFFICES ASSUME QueueInv, [Next]_vars PROVE QueueInv'
    OBVIOUS
  <1>1. CASE \E p \in Producers, l \in Lists : append_update_tail(p, l)
    BY <1>1, AppendUpdateTailInv
  <1>2. CASE \E p \in Producers : append_update_prev(p)
    BY <1>2, AppendUpdatePrevInv
  <1>3. CASE mpsc_queue_dequeue_batch
    BY <1>3, DequeueLoadTailInv, DequeueLoadHeadInv, DequeueClearHeadInv,
       DequeueXchgTailInv DEF mpsc_queue_dequeue_batch
  <1>4. CASE mpsc_queue_batch_foreach
    BY <1>4, BatchNextInv, BatchVisitInv DEF mpsc_queue_batch_foreach
  <1>5. CASE mpsc_queue_restore_batch
    BY <1>5, RestoreLoadHeadInv, RestoreCmpxchgTailInv, RestoreWaitEnqueuerInv,
       RestoreStoreHeadInv DEF mpsc_queue_restore_batch
  <1>6. CASE UNCHANGED vars
    BY <1>6 DEF vars, QueueInv, TypeOK, MarkerMeansIdle, TailInv, LinkInv, EdgeInv,
       MeetInv, EndInv, HeadInv, BatchInv, Edge, Side, Owes, Root
  <1> QED
    BY <1>1, <1>2, <1>3, <1>4, <1>5, <1>6 DEF Next

\* The invariant holds in every state of the queue.
LEMMA QueueInvariant == Spec => []QueueInv
  BY InitQueueInv, NextQueueInv, PTL DEF Spec

\* Type correctness.
THEOREM QueueTypeOK == Spec => []TypeOK
  <1>1. QueueInv => TypeOK
    BY DEF QueueInv
  <1> QED
    BY <1>1, QueueInvariant, PTL

\* _mpsc_queue_wait_for_enqueuer never spins on the end of a list: whatever the
\* number of producers, one of them owes the very link the consumer waits for.
THEOREM QueueSpinOwed == Spec => []SpinOwed
  <1>1. QueueInv => SpinOwed
    <2> SUFFICES ASSUME QueueInv PROVE SpinOwed
      OBVIOUS
    <2>1. cpc \in {"load_head", "restore_wait"} /\ next[QHead] = NULL
            => \E p \in Producers : Owes(p, QHead)
      BY DEF QueueInv, HeadInv
    <2>2. ASSUME cpc = "batch_next", cur # last, next[cur] = NULL
          PROVE  \E p \in Producers : Owes(p, cur)
      BY <2>2 DEF QueueInv, EndInv, BatchInv   \* cur is in the batch: not the tail
    <2> QED
      BY <2>1, <2>2 DEF SpinOwed
  <1> QED
    BY <1>1, QueueInvariant, PTL

\* The late store of an enqueue never writes to an element that was handed to
\* its callback, and no two enqueues store to the same link.
THEOREM QueueLinkStoreSafe == Spec => []LinkStoreSafe
  <1>1. QueueInv => LinkStoreSafe
    <2> SUFFICES ASSUME QueueInv PROVE LinkStoreSafe
      OBVIOUS
    <2>1. ASSUME NEW p \in Producers, link[p] # NULL
          PROVE  link[p].prev \notin OwnedBy("idle")
      BY <2>1, MpscAssumption DEF QueueInv, LinkInv, Side, OwnedBy
    <2>2. \A p, q \in Producers, x \in Nodes : Owes(p, x) /\ Owes(q, x) => p = q
      BY DEF QueueInv, LinkInv
    <2> QED
      BY <2>1, <2>2 DEF LinkStoreSafe
  <1> QED
    BY <1>1, QueueInvariant, PTL

\* MPSC_QUEUE_NOTQUEUED_MARKER tells queued elements from the others.
THEOREM QueueMarkerMeansIdle == Spec => []MarkerMeansIdle
  <1>1. QueueInv => MarkerMeansIdle
    BY DEF QueueInv
  <1> QED
    BY <1>1, QueueInvariant, PTL
-----------------------------------------------------------------------------
(* The refinement: sequences that list the queue and the batch.           *)

\* A set of numbers that is not empty has a least one.
LEMMA Least ==
    ASSUME NEW S, S \subseteq Nat, S # {}
    PROVE  \E m \in S : \A n \in S : m <= n
<1> DEFINE R == OpToRel(<, Nat)
<1>1. \A x, y \in Nat : <<x, y>> \in R <=> x < y
  BY DEF OpToRel
<1>2. IsWellFoundedOn(R, Nat)
  BY NatLessThanWellFounded
<1> HIDE DEF R
<1>3. PICK m \in S : \A n \in S : ~ (<<n, m>> \in R)
  BY <1>2, WFMin
<1>4. \A n \in S : ~(n < m)
  BY <1>1, <1>3, Zenon
<1>5. \A n \in S : m <= n
  BY <1>4
<1> QED
  BY <1>5

\* The elements of one side in the order of their links.
Listing(s, who) ==
    /\ s \in Seq(Elements) /\ Len(s) > 0
    /\ \A i, j \in 1..Len(s) : s[i] = s[j] => i = j
    /\ \A i \in 1..Len(s) : Succ(s[i]) = IF i = Len(s) THEN NULL ELSE s[i + 1]
    /\ \A e \in Elements : owner[e] = who <=> \E i \in 1..Len(s) : s[i] = e

\* A sequence that lists a side is not longer than there are elements.
LEMMA ListingLength ==
    ASSUME NEW s \in Seq(Elements), \A i, j \in 1..Len(s) : s[i] = s[j] => i = j
    PROVE  Len(s) <= Cardinality(Elements) /\ Cardinality(Elements) \in Nat
<1>1. s \in Injection(1..Len(s), Elements)
  BY DEF Injection, IsInjective
<1>2. Cardinality(1..Len(s)) <= Cardinality(Elements)
  BY <1>1, FS_Injection, FiniteElements
<1>3. Cardinality(1..Len(s)) = Len(s)
  BY FS_Interval
<1>4. Cardinality(Elements) \in Nat
  BY FS_CardinalityType, FiniteElements
<1> QED
  BY <1>2, <1>3, <1>4

ChainIsListing == \A s, who : Listing(s, who) => Chain(s[1], s[Len(s)]) = s

\* Chain finds the sequence that lists a side.
LEMMA ChainListing == ChainIsListing
<1> SUFFICES ASSUME NEW s, NEW who, Listing(s, who), NEW x, x = s[1], NEW y, y = s[Len(s)]
             PROVE  Chain(x, y) = s
  BY DEF ChainIsListing
<1> DEFINE n == Cardinality(Elements)
           m == Len(s)
           Step(f) == [i \in 1..n |-> IF i = 1 THEN x ELSE Succ(f[i - 1])]
           f0 == [i \in 1..n |-> IF i <= m THEN s[i] ELSE NULL]
           node == CHOOSE f : f = Step(f)
           ends == { i \in 1..n : node[i] = y }
<1>1. /\ s \in Seq(Elements) /\ m \in Nat /\ m > 0 /\ s[1] = x /\ s[m] = y
      /\ \A i, j \in 1..m : s[i] = s[j] => i = j
      /\ \A i \in 1..m : s[i] \in Elements /\ Succ(s[i]) = IF i = m THEN NULL ELSE s[i + 1]
  BY DEF Listing
<1>2. m <= n /\ n \in Nat
  BY <1>1, ListingLength
<1>3. Succ(NULL) = NULL
  BY MpscAssumption DEF Succ, Nodes
<1> HIDE DEF m, n
<1>4. f0 = Step(f0)
  <2>1. ASSUME NEW i \in 1..n
        PROVE  (IF i <= m THEN s[i] ELSE NULL) = IF i = 1 THEN x ELSE Succ(f0[i - 1])
    <3>1. CASE i = 1
      BY <3>1, <1>1
    <3>2. CASE i # 1
      <4>1. i - 1 \in 1..n /\ f0[i - 1] = IF i - 1 <= m THEN s[i - 1] ELSE NULL
        BY <3>2, <1>2
      <4>2. CASE i <= m
        <5>1. i - 1 \in 1..m /\ i - 1 # m /\ (i - 1) + 1 = i /\ i - 1 <= m
          BY <4>2, <3>2, <1>1
        <5> QED
          BY <4>1, <4>2, <5>1, <1>1, <3>2
      <4>3. CASE i = m + 1
        BY <4>1, <4>3, <1>1, <1>2, <3>2
      <4>4. CASE i > m + 1
        BY <4>1, <4>4, <1>1, <1>2, <1>3, <3>2
      <4> QED
        BY <4>2, <4>3, <4>4, <1>1, <1>2
    <3> QED
      BY <3>1, <3>2
  <2> QED
    BY <2>1
<1>5. node = Step(node)
  <2> HIDE DEF Step, f0
  <2> QED
    BY <1>4
<1>6. \A i \in 1..n : node[i] = IF i = 1 THEN x ELSE Succ(node[i - 1])
  <2> HIDE DEF node
  <2> QED
    BY <1>5
<1> HIDE DEF node
<1>7. \A i \in 1..m : node[i] = s[i]
  <2> DEFINE W == { i \in 1..m : node[i] # s[i] }
  <2> SUFFICES ASSUME W # {} PROVE FALSE
    OBVIOUS
  <2>1. W \subseteq Nat
    BY <1>1
  <2>2. PICK k \in W : \A i \in W : k <= i
    BY <2>1, Least
  <2>3. k # 1
    BY <2>2, <1>1, <1>2, <1>6
  <2>4. k - 1 \in 1..m /\ k - 1 \notin W /\ k - 1 # m /\ (k - 1) + 1 = k /\ k \in 1..n
    BY <2>2, <2>3, <1>1, <1>2
  <2>5. node[k - 1] = s[k - 1]
    BY <2>4
  <2>6. node[k] = Succ(s[k - 1])
    BY <2>3, <2>4, <2>5, <1>6
  <2> QED
    BY <2>2, <2>4, <2>6, <1>1
<1>8. m \in ends /\ \A i \in ends : m <= i
  <2>1. m \in ends
    BY <1>1, <1>2, <1>7
  <2>2. ASSUME NEW i \in ends, i < m PROVE FALSE
    BY <2>2, <1>1, <1>2, <1>7
  <2> QED
    BY <2>1, <2>2, <1>1, <1>2
<1>9. Min(ends) = m
  <2>1. ends \subseteq Int
    BY <1>2
  <2> HIDE DEF ends
  <2> DEFINE k == Min(ends)
  <2>2. k \in ends /\ \A i \in ends : k <= i
    BY <1>8, Zenon DEF Min
  <2> HIDE DEF k
  <2>3. k = m
    BY <1>8, <2>1, <2>2
  <2> QED
    BY <2>3 DEF k
<1>10. Chain(x, y) = [i \in 1..(IF ends = {} THEN n ELSE Min(ends)) |-> node[i]]
  BY DEF Chain, node, ends, n
<1>11. Chain(x, y) = [i \in 1..m |-> node[i]]
  <2> HIDE DEF ends
  <2> QED
    BY <1>8, <1>9, <1>10
<1>12. s = [i \in 1..m |-> s[i]]
  BY <1>1 DEF m
<1> QED
  BY <1>7, <1>11, <1>12

\* The link behind a node is stored, or owed, or there is none.
SuccFacts ==
    \A x \in Nodes :
      /\ next[x] # NULL => Succ(x) = next[x]
      /\ \A p \in Producers : Owes(p, x) => next[x] = NULL /\ Succ(x) = link[p].first
      /\ next[x] = NULL /\ (\A p \in Producers : ~Owes(p, x)) => Succ(x) = NULL

\* What Succ finds, in any state that satisfies the invariant.
LEMMA SuccIs == QueueInv => SuccFacts
<1> SUFFICES ASSUME QueueInv, NEW x \in Nodes
             PROVE  /\ next[x] # NULL => Succ(x) = next[x]
                    /\ \A p \in Producers : Owes(p, x) => next[x] = NULL /\ Succ(x) = link[p].first
                    /\ next[x] = NULL /\ (\A p \in Producers : ~Owes(p, x)) => Succ(x) = NULL
  BY DEF SuccFacts
<1> DEFINE owing == { p \in Producers : link[p] # NULL /\ link[p].prev = x }
           r == CHOOSE p \in owing : TRUE
<1>1. \A p \in Producers : Owes(p, x) => next[x] = NULL
  BY DEF QueueInv, LinkInv, Owes
<1>2. Succ(x) = IF next[x] # NULL THEN next[x]
                ELSE IF owing = {} THEN NULL ELSE link[r].first
  BY DEF Succ
<1>3. \A p \in Producers : p \in owing <=> Owes(p, x)
  BY DEF Owes
<1>4. ASSUME NEW p \in Producers, Owes(p, x) PROVE r = p
  <2>1. p \in owing
    BY <1>3, <1>4
  <2>2. r \in owing
    BY <2>1
  <2>3. r \in Producers /\ Owes(r, x)
    BY <2>2, <1>3
  <2> QED
    BY <1>4, <2>3 DEF QueueInv, LinkInv
<1>5. (\A p \in Producers : ~Owes(p, x)) => owing = {}
  BY <1>3
<1> HIDE DEF r
<1>6. ASSUME NEW p \in Producers, Owes(p, x) PROVE Succ(x) = link[p].first
  BY <1>1, <1>2, <1>3, <1>4, <1>6
<1> QED
  BY <1>1, <1>2, <1>5, <1>6

\* A step that neither stores nor owes another link behind x keeps it.
LEMMA SuccSame ==
    ASSUME SuccFacts, SuccFacts', NEW x \in Nodes, next'[x] = next[x],
           \A p \in Producers : Owes(p, x) => Owes(p, x)' /\ link'[p] = link[p],
           \A p \in Producers : Owes(p, x)' => Owes(p, x)
    PROVE  Succ(x)' = Succ(x)
<1>1. CASE next[x] # NULL
  BY <1>1 DEF SuccFacts, Nodes
<1>2. CASE \E p \in Producers : Owes(p, x)
  <2>1. PICK p \in Producers : Owes(p, x)
    BY <1>2
  <2>2. Succ(x) = link[p].first
    BY <2>1 DEF SuccFacts
  <2>3. Succ(x)' = link'[p].first
    BY <2>1 DEF SuccFacts, Nodes
  <2> QED
    BY <2>1, <2>2, <2>3
<1>3. CASE next[x] = NULL /\ \A p \in Producers : ~Owes(p, x)
  <2>1. Succ(x) = NULL
    BY <1>3 DEF SuccFacts
  <2>2. Succ(x)' = NULL
    BY <1>3 DEF SuccFacts, Nodes
  <2> QED
    BY <2>1, <2>2
<1> QED
  BY <1>1, <1>2, <1>3

\* The consumer has a batch in its hands.
InBatch == cpc \in {"batch_next", "visit", "restore_cas", "restore_wait"}

\* The sequences q and b list the queue and the batch.
Holds(q, b) ==
    /\ tail # QHead => Listing(q, "queue") /\ q[1] = FirstElement /\ q[Len(q)] = tail
    /\ tail = QHead => q = <<>> /\ \A e \in Elements : owner[e] # "queue"
    /\ InBatch => Listing(b, "batch") /\ b[1] = cur /\ b[Len(b)] = last
    /\ ~InBatch => b = <<>> /\ \A e \in Elements : owner[e] # "batch"

FifoInv == \E q, b : Holds(q, b)

ContentsHold == \A q, b : Holds(q, b) => queueContents = q /\ batchContents = b

\* What the refinement maps to is what the sequences list.
LEMMA HoldsContents == ContentsHold
<1> SUFFICES ASSUME NEW q, NEW b, Holds(q, b) PROVE queueContents = q /\ batchContents = b
  BY DEF ContentsHold
<1>1. queueContents = q
  BY ChainListing DEF ChainIsListing, Holds, queueContents
<1>2. batchContents = b
  BY ChainListing DEF ChainIsListing, Holds, batchContents, InBatch
<1> QED
  BY <1>1, <1>2

\* What a step finds and leaves.
LEMMA StepFacts ==
    ASSUME QueueInv, [Next]_vars
    PROVE  QueueInv' /\ SuccFacts /\ SuccFacts' /\ ContentsHold /\ ContentsHold'
<1>1. QueueInv'
  BY NextQueueInv
<1>2. SuccFacts
  BY SuccIs
<1>3. QueueInv' => SuccFacts'
  BY SuccIs, PTL
<1>4. ContentsHold /\ ContentsHold'
  BY HoldsContents, PTL
<1> QED
  BY <1>1, <1>2, <1>3, <1>4

\* A listing is kept by a step that keeps its links and its side.
LEMMA ListingKept ==
    ASSUME NEW s, NEW who, Listing(s, who),
           \A i \in 1..Len(s) : Succ(s[i])' = Succ(s[i]),
           \A e \in Elements : owner[e] = who <=> owner'[e] = who
    PROVE  Listing(s, who)'
  BY DEF Listing

\* What the two sequences have in them.
LEMMA HoldsFacts ==
    ASSUME QueueInv, NEW q, NEW b, Holds(q, b)
    PROVE  /\ q \in Seq(Elements) /\ b \in Seq(Elements)
           /\ \A i \in 1..Len(q) : q[i] \in Elements /\ owner[q[i]] = "queue"
           /\ \A i \in 1..Len(b) : b[i] \in Elements /\ owner[b[i]] = "batch"
           /\ \A e \in Elements : owner[e] = "queue" <=> \E i \in 1..Len(q) : q[i] = e
           /\ \A e \in Elements : owner[e] = "batch" <=> \E i \in 1..Len(b) : b[i] = e
           /\ tail = QHead <=> q = <<>>
           /\ b = <<>> <=> ~InBatch
<1> DEFINE OnSide(s, who) ==
      /\ s \in Seq(Elements)
      /\ \A i \in 1..Len(s) : s[i] \in Elements /\ owner[s[i]] = who
      /\ \A e \in Elements : owner[e] = who <=> \E i \in 1..Len(s) : s[i] = e
<1>1. ASSUME NEW s, NEW who, Listing(s, who) PROVE OnSide(s, who) /\ s # <<>>
  BY <1>1 DEF Listing
<1>2. ASSUME NEW who, \A e \in Elements : owner[e] # who PROVE OnSide(<<>>, who)
  BY <1>2
<1>3. OnSide(q, "queue") /\ (tail = QHead <=> q = <<>>)
  <2> HIDE DEF OnSide
  <2> QED
    BY <1>1, <1>2 DEF Holds
<1>4. OnSide(b, "batch") /\ (b = <<>> <=> ~InBatch)
  <2> HIDE DEF OnSide
  <2> QED
    BY <1>1, <1>2 DEF Holds
<1> QED
  BY <1>3, <1>4

-----------------------------------------------------------------------------
(* The refinement: what each step does to the sequences.                   *)

\* The second half of an enqueue stores the link that was owed.
LEMMA UpdatePrevHolds ==
    ASSUME QueueInv, QueueInv', SuccFacts, SuccFacts', NEW q, NEW b, Holds(q, b),
           NEW p \in Producers, append_update_prev(p)
    PROVE  Holds(q, b)'
<1> DEFINE z == link[p].prev
<1>1. z \in Nodes /\ link[p].first \in Elements
  BY DEF QueueInv, TypeOK, append_update_prev
<1>2. ASSUME NEW x \in Nodes PROVE Succ(x)' = Succ(x)
  <2>1. CASE x = z
    <3>1. Succ(x) = link[p].first
      BY <2>1 DEF SuccFacts, Owes, append_update_prev
    <3>2. next'[x] = link[p].first /\ next'[x] # NULL
      BY <1>1, <2>1, MpscAssumption DEF append_update_prev, QueueInv, TypeOK
    <3>3. Succ(x)' = next'[x]
      BY <3>2 DEF SuccFacts, Nodes
    <3> QED
      BY <3>1, <3>2, <3>3
  <2>2. CASE x # z
    <3>1. next'[x] = next[x]
      BY <1>1, <2>2 DEF append_update_prev, QueueInv, TypeOK
    <3>2. \A r \in Producers : Owes(r, x) => Owes(r, x)' /\ link'[r] = link[r]
      BY <2>2 DEF append_update_prev, Owes, QueueInv, TypeOK
    <3>3. \A r \in Producers : Owes(r, x)' => Owes(r, x)
      BY DEF append_update_prev, Owes, QueueInv, TypeOK
    <3> QED
      BY <3>1, <3>2, <3>3, SuccSame
  <2> QED
    BY <2>1, <2>2
<1>3. FirstElement' = FirstElement
  BY <1>2 DEF FirstElement, append_update_prev, consVars, Nodes
<1>4. tail' = tail /\ owner' = owner /\ cur' = cur /\ last' = last /\ cpc' = cpc
  BY DEF append_update_prev, consVars
<1>5. ASSUME NEW s, NEW who, Listing(s, who) PROVE Listing(s, who)'
  <2>1. \A i \in 1..Len(s) : Succ(s[i])' = Succ(s[i])
    BY <1>2, <1>5 DEF Listing, Nodes
  <2> QED
    BY <1>4, <1>5, <2>1, ListingKept
<1> QED
  BY <1>3, <1>4, <1>5 DEF Holds, InBatch

\* The consumer changes no link that producers owe: a listing that it does not
\* store into stays.
LEMMA ListingUntouched ==
    ASSUME SuccFacts, SuccFacts', link' = link, NEW s, NEW who, Listing(s, who),
           \A i \in 1..Len(s) : next'[s[i]] = next[s[i]],
           \A e \in Elements : owner[e] = who <=> owner'[e] = who
    PROVE  Listing(s, who)'
<1>1. ASSUME NEW i \in 1..Len(s) PROVE Succ(s[i])' = Succ(s[i])
  <2>1. s[i] \in Nodes
    BY DEF Listing, Nodes
  <2>2. \A p \in Producers : Owes(p, s[i])' <=> Owes(p, s[i])
    BY DEF Owes
  <2> QED
    BY <2>1, <2>2, SuccSame
<1> QED
  BY <1>1, ListingKept

\* mpsc_queue_dequeue_batch up to its exchange takes nothing from the queue.
LEMMA DequeueLoadsHold ==
    ASSUME QueueInv, QueueInv', SuccFacts, SuccFacts', NEW q, NEW b, Holds(q, b),
           dequeue_load_tail \/ dequeue_load_head \/ dequeue_clear_head
    PROVE  Holds(q, b)'
<1>1. /\ tail' = tail /\ owner' = owner /\ link' = link
      /\ \A e \in Elements : next'[e] = next[e]
      /\ ~InBatch /\ ~InBatch'
  BY MpscAssumption DEF dequeue_load_tail, dequeue_load_head, dequeue_clear_head, prodVars,
     InBatch, QueueInv, TypeOK, Nodes
<1>2. tail # QHead
  BY DEF dequeue_load_tail, dequeue_load_head, dequeue_clear_head, QueueInv, HeadInv
<1>3. Listing(q, "queue")'
  <2>1. Listing(q, "queue")
    BY <1>2 DEF Holds
  <2>2. \A i \in 1..Len(q) : next'[q[i]] = next[q[i]]
    BY <2>1, <1>1 DEF Listing
  <2> QED
    BY <1>1, <2>1, <2>2, ListingUntouched
<1>4. FirstElement' = FirstElement
  <2>1. CASE dequeue_load_tail \/ dequeue_load_head
    <3>1. Succ(QHead)' = Succ(QHead)
      <4>1. next' = next /\ link' = link
        BY <2>1 DEF dequeue_load_tail, dequeue_load_head, prodVars
      <4> QED
        BY <4>1, SuccSame DEF Owes, Nodes
    <3> QED
      BY <2>1, <3>1 DEF dequeue_load_tail, dequeue_load_head, FirstElement
  <2>2. CASE dequeue_clear_head
    <3>1. head' = head /\ cpc = "clear_head" /\ cpc' = "xchg_tail"
      BY <2>2 DEF dequeue_clear_head
    <3>2. next[QHead] = head /\ head # NULL
      BY <3>1, MpscAssumption DEF QueueInv, HeadInv, BatchInv
    <3>3. Succ(QHead) = head
      BY <3>2 DEF SuccFacts, Nodes
    <3> QED
      BY <3>1, <3>3 DEF FirstElement
  <2> QED
    BY <2>1, <2>2
<1> QED
  BY <1>1, <1>2, <1>3, <1>4 DEF Holds

\* The exchange of the tail makes the queue the batch.
LEMMA XchgTailHolds ==
    ASSUME QueueInv, QueueInv', SuccFacts, SuccFacts', NEW q, NEW b, Holds(q, b),
           dequeue_xchg_tail
    PROVE  Holds(<<>>, q)' /\ b = <<>> /\ q # <<>>
<1>1. /\ tail # QHead /\ tail' = QHead /\ ~InBatch /\ InBatch'
      /\ next' = next /\ link' = link /\ cur' = head /\ last' = tail /\ FirstElement = head
  BY DEF dequeue_xchg_tail, QueueInv, HeadInv, InBatch, FirstElement
<1>2. /\ Listing(q, "queue") /\ q[1] = head /\ q[Len(q)] = tail
      /\ b = <<>> /\ \A e \in Elements : owner[e] # "batch"
  BY <1>1 DEF Holds
<1>3. /\ \A e \in Elements : owner'[e] # "queue"
      /\ \A e \in Elements : owner'[e] = "batch" <=> owner[e] = "queue"
  BY <1>2 DEF dequeue_xchg_tail, QueueInv, TypeOK
<1>4. \A i \in 1..Len(q) : Succ(q[i])' = Succ(q[i])
  <2>1. ASSUME NEW x \in Nodes PROVE Succ(x)' = Succ(x)
    BY <1>1, SuccSame DEF Owes
  <2> QED
    BY <1>2, <2>1 DEF Listing, Nodes
<1>5. Listing(q, "batch")'
  BY <1>2, <1>3, <1>4 DEF Listing
<1>6. q # <<>>
  BY <1>2 DEF Listing
<1> QED
  BY <1>1, <1>2, <1>3, <1>5, <1>6 DEF Holds

\* A look at the next element takes nothing.
LEMMA BatchNextHolds ==
    ASSUME QueueInv, QueueInv', SuccFacts, SuccFacts', NEW q, NEW b, Holds(q, b),
           batch_next
    PROVE  Holds(q, b)'
<1>1. /\ tail' = tail /\ owner' = owner /\ link' = link /\ next' = next
      /\ InBatch /\ InBatch' /\ cur' = cur /\ last' = last
      /\ cpc = "batch_next" /\ cpc' = "visit"
  BY DEF batch_next, prodVars, InBatch
<1>2. Listing(b, "batch")'
  BY <1>1, ListingUntouched DEF Holds
<1>3. tail # QHead => Listing(q, "queue")'
  BY <1>1, ListingUntouched DEF Holds
<1>4. FirstElement' = FirstElement
  <2>1. Succ(QHead)' = Succ(QHead)
    BY <1>1, SuccSame DEF Owes, Nodes
  <2> QED
    BY <1>1, <2>1 DEF FirstElement
<1> QED
  BY <1>1, <1>2, <1>3, <1>4 DEF Holds

\* The callback takes the oldest element of the batch.
LEMMA BatchVisitHolds ==
    ASSUME QueueInv, QueueInv', SuccFacts, SuccFacts', NEW q, NEW b, Holds(q, b),
           batch_visit
    PROVE  Holds(q, Tail(b))' /\ b # <<>>
<1>1. /\ tail' = tail /\ link' = link /\ InBatch /\ cpc = "visit" /\ cur' = tmp
      /\ cur \in Elements /\ owner[cur] = "batch"
      /\ next' = [next EXCEPT ![cur] = NotQueued]
      /\ owner' = [owner EXCEPT ![cur] = "idle"]
  BY DEF batch_visit, InBatch, QueueInv, BatchInv
<1>2. /\ \A x \in Nodes : x # cur => next'[x] = next[x]
      /\ \A e \in Elements : owner'[e] = "queue" <=> owner[e] = "queue"
      /\ \A e \in Elements : owner'[e] = "batch" <=> owner[e] = "batch" /\ e # cur
  BY <1>1 DEF QueueInv, TypeOK, Nodes
<1>3. ASSUME NEW x \in Nodes, x # cur PROVE Succ(x)' = Succ(x)
  BY <1>1, <1>2, <1>3, SuccSame DEF Owes
<1>4. /\ Listing(b, "batch") /\ b \in Seq(Elements) /\ Len(b) \in Nat /\ Len(b) > 0
      /\ b[1] = cur /\ b[Len(b)] = last
      /\ \A i \in 1..Len(b) : b[i] \in Elements
  BY <1>1 DEF Holds, Listing
<1>5. tail # QHead => Listing(q, "queue")'
  <2> SUFFICES ASSUME tail # QHead PROVE Listing(q, "queue")'
    OBVIOUS
  <2>1. Listing(q, "queue")
    BY DEF Holds
  <2>2. \A i \in 1..Len(q) : q[i] \in Elements /\ q[i] # cur
    BY <2>1, <1>1 DEF Listing
  <2>3. \A i \in 1..Len(q) : Succ(q[i])' = Succ(q[i])
    BY <2>2, <1>3 DEF Nodes
  <2> QED
    BY <2>1, <2>3, <1>2, ListingKept
<1>6. FirstElement' = FirstElement
  <2>1. Succ(QHead)' = Succ(QHead)
    BY <1>1, <1>3, MpscAssumption DEF Nodes
  <2>2. cpc' \notin {"xchg_tail", "restore_store"}
    BY DEF batch_visit
  <2> QED
    BY <1>1, <2>1, <2>2 DEF FirstElement
<1>7. CASE Len(b) = 1
  <2>1. cur = last /\ tmp = NULL
    BY <1>1, <1>4, <1>7 DEF QueueInv, BatchInv
  <2>2. ~InBatch'
    BY <2>1 DEF batch_visit, InBatch
  <2>3. Tail(b) = <<>>
    <3>1. Tail(b) \in Seq(Elements) /\ Len(Tail(b)) = 0
      BY <1>4, <1>7
    <3> QED
      BY <3>1, EmptySeq
  <2>4. \A e \in Elements : owner[e] = "batch" => e = cur
    BY <1>4, <1>7 DEF Listing
  <2> QED
    BY <1>1, <1>2, <1>4, <1>5, <1>6, <2>2, <2>3, <2>4 DEF Holds
<1>8. CASE Len(b) > 1
  <2>1. 1 \in 1..Len(b) /\ Len(b) \in 1..Len(b) /\ Len(b) # 1
    BY <1>8, <1>4
  <2>2. cur # last
    BY <2>1, <1>4 DEF Listing
  <2>3. tmp # NULL /\ next[cur] = tmp
    BY <2>2, <1>1 DEF QueueInv, BatchInv
  <2>4. Succ(cur) = tmp
    BY <2>3, <1>1 DEF SuccFacts, Nodes
  <2>5. tmp = b[2]
    <3>1. Succ(b[1]) = b[1 + 1]
      BY <2>1, <1>4 DEF Listing
    <3> QED
      BY <3>1, <2>4, <1>4
  <2>6. InBatch' /\ last' = last
    BY <2>3 DEF batch_visit, InBatch
  <2> DEFINE t == Tail(b)
  <2>7. /\ t \in Seq(Elements) /\ Len(t) = Len(b) - 1 /\ Len(t) \in Nat /\ Len(t) > 0
        /\ \A i \in 1..Len(t) : t[i] = b[i + 1] /\ i + 1 \in 1..Len(b)
    BY <1>4, <1>8
  <2> HIDE DEF t
  <2>8. \A i, j \in 1..Len(t) : t[i] = t[j] => i = j
    <3> SUFFICES ASSUME NEW i \in 1..Len(t), NEW j \in 1..Len(t), t[i] = t[j] PROVE i = j
      OBVIOUS
    <3>1. i + 1 = j + 1
      BY <2>7, <1>4 DEF Listing
    <3> QED
      BY <3>1, <2>7
  <2>9. ASSUME NEW i \in 1..Len(t)
        PROVE  t[i] # cur /\ Succ(t[i])' = IF i = Len(t) THEN NULL ELSE t[i + 1]
    <3>1. t[i] = b[i + 1] /\ i + 1 \in 1..Len(b) /\ i + 1 # 1
      BY <2>7
    <3>2. t[i] # cur
      BY <3>1, <2>1, <1>4 DEF Listing
    <3>3. Succ(t[i])' = Succ(t[i])
      BY <3>1, <3>2, <1>3, <1>4 DEF Nodes
    <3>4. Succ(b[i + 1]) = IF i + 1 = Len(b) THEN NULL ELSE b[(i + 1) + 1]
      BY <3>1, <1>4 DEF Listing
    <3>5. i # Len(t) => i + 1 \in 1..Len(t)
      BY <2>7
    <3>6. i + 1 = Len(b) <=> i = Len(t)
      BY <2>7, <1>4
    <3> QED
      BY <2>7, <3>1, <3>2, <3>3, <3>4, <3>5, <3>6
  <2>10. ASSUME NEW e \in Elements
         PROVE  owner'[e] = "batch" <=> \E i \in 1..Len(t) : t[i] = e
    <3>1. ASSUME owner'[e] = "batch" PROVE \E i \in 1..Len(t) : t[i] = e
      <4>1. PICK k \in 1..Len(b) : b[k] = e
        BY <3>1, <1>2, <1>4 DEF Listing
      <4>2. k # 1
        BY <4>1, <3>1, <1>2, <1>4
      <4>3. k - 1 \in 1..Len(t) /\ (k - 1) + 1 = k
        BY <4>2, <2>7, <1>4
      <4> QED
        BY <4>1, <4>3, <2>7
    <3>2. ASSUME NEW i \in 1..Len(t), t[i] = e PROVE owner'[e] = "batch"
      <4>1. e # cur /\ e = b[i + 1] /\ i + 1 \in 1..Len(b)
        BY <3>2, <2>7, <2>9
      <4>2. owner[e] = "batch"
        BY <4>1, <1>4 DEF Listing
      <4> QED
        BY <4>1, <4>2, <1>2
    <3> QED
      BY <3>1, <3>2
  <2>11. Listing(t, "batch")'
    BY <2>7, <2>8, <2>9, <2>10 DEF Listing
  <2>12. t[1] = b[2] /\ t[Len(t)] = last
    <3>1. 1 \in 1..Len(t) /\ Len(t) \in 1..Len(t) /\ Len(t) + 1 = Len(b) /\ 1 + 1 = 2
      BY <2>7, <1>4
    <3> QED
      BY <3>1, <2>7, <1>4
  <2>13. Holds(q, t)'
    BY <1>1, <1>2, <1>5, <1>6, <2>5, <2>6, <2>11, <2>12 DEF Holds
  <2> QED
    BY <2>13, <1>4 DEF t
<1>9. Len(b) = 1 \/ Len(b) > 1
  <2>1. \A n \in Nat : n > 0 => n = 1 \/ n > 1
    OBVIOUS
  <2> QED
    BY <1>4, <2>1
<1> QED
  BY <1>7, <1>8, <1>9, Zenon

\* A step links the last element of a list to the first one of another list,
\* and makes both one side.
Joins(s, t, who) ==
    /\ s \in Seq(Elements) /\ Len(s) > 0 /\ t \in Seq(Elements) /\ Len(t) > 0
    /\ \A i, j \in 1..Len(s) : s[i] = s[j] => i = j
    /\ \A i, j \in 1..Len(t) : t[i] = t[j] => i = j
    /\ \A i \in 1..Len(s), j \in 1..Len(t) : s[i] # t[j]
    /\ \A i \in 1..Len(s) : Succ(s[i])' = IF i = Len(s) THEN t[1] ELSE s[i + 1]
    /\ \A i \in 1..Len(t) : Succ(t[i])' = IF i = Len(t) THEN NULL ELSE t[i + 1]
    /\ \A e \in Elements : owner'[e] = who <=> \/ \E i \in 1..Len(s) : s[i] = e
                                               \/ \E i \in 1..Len(t) : t[i] = e

\* The two lists then become one.
LEMMA ListingJoined ==
    ASSUME NEW s, NEW t, NEW who, Joins(s, t, who)
    PROVE  /\ Listing(s \o t, who)'
           /\ (s \o t)[1] = s[1] /\ (s \o t)[Len(s \o t)] = t[Len(t)]
<1> DEFINE u == s \o t
           m == Len(s)
           n == Len(t)
<1> USE DEF Joins
<1>1. m \in Nat /\ n \in Nat /\ m > 0 /\ n > 0
  OBVIOUS
<1>2. /\ u \in Seq(Elements) /\ Len(u) = m + n
      /\ \A i \in 1..(m + n) : u[i] = IF i <= m THEN s[i] ELSE t[i - m]
  BY ConcatProperties
<1> HIDE DEF u, m, n
<1>3. \A i \in 1..m : i \in 1..(m + n) /\ u[i] = s[i]
  BY <1>1, <1>2
<1>4. \A i \in 1..n : i + m \in 1..(m + n) /\ u[i + m] = t[i]
  <2> SUFFICES ASSUME NEW i \in 1..n PROVE i + m \in 1..(m + n) /\ u[i + m] = t[i]
    OBVIOUS
  <2>1. i + m \in 1..(m + n) /\ ~(i + m <= m) /\ (i + m) - m = i
    BY <1>1
  <2> QED
    BY <2>1, <1>2
<1>5. \A i \in 1..(m + n) : i \in 1..m \/ \E k \in 1..n : i = k + m
  <2> SUFFICES ASSUME NEW i \in 1..(m + n), i \notin 1..m PROVE \E k \in 1..n : i = k + m
    OBVIOUS
  <2>1. i - m \in 1..n /\ i = (i - m) + m
    BY <1>1
  <2> QED
    BY <2>1
<1>6. \A i, j \in 1..(m + n) : u[i] = u[j] => i = j
  <2> SUFFICES ASSUME NEW i \in 1..(m + n), NEW j \in 1..(m + n), u[i] = u[j] PROVE i = j
    OBVIOUS
  <2>1. CASE i \in 1..m /\ j \in 1..m
    BY <2>1, <1>3 DEF m
  <2>2. CASE i \in 1..m /\ j \notin 1..m
    <3>1. PICK k \in 1..n : j = k + m
      BY <2>2, <1>5
    <3>2. u[i] = s[i] /\ u[j] = t[k]
      BY <3>1, <2>2, <1>3, <1>4
    <3> QED
      BY <3>1, <3>2, <2>2 DEF m, n
  <2>3. CASE i \notin 1..m /\ j \in 1..m
    <3>1. PICK k \in 1..n : i = k + m
      BY <2>3, <1>5
    <3>2. u[j] = s[j] /\ u[i] = t[k]
      BY <3>1, <2>3, <1>3, <1>4
    <3> QED
      BY <3>1, <3>2, <2>3 DEF m, n
  <2>4. CASE i \notin 1..m /\ j \notin 1..m
    <3>1. PICK k \in 1..n : i = k + m
      BY <2>4, <1>5
    <3>2. PICK h \in 1..n : j = h + m
      BY <2>4, <1>5
    <3>3. t[k] = t[h]
      BY <3>1, <3>2, <1>4
    <3>4. k = h
      BY <3>3 DEF n
    <3> QED
      BY <3>1, <3>2, <3>4
  <2> QED
    BY <2>1, <2>2, <2>3, <2>4
<1>7. ASSUME NEW i \in 1..(m + n)
      PROVE  Succ(u[i])' = IF i = m + n THEN NULL ELSE u[i + 1]
  <2>1. CASE i \in 1..m /\ i # m
    <3>1. i + 1 \in 1..m /\ i # m + n
      BY <2>1, <1>1
    <3>2. u[i] = s[i] /\ u[i + 1] = s[i + 1]
      BY <3>1, <2>1, <1>3
    <3>3. Succ(s[i])' = s[i + 1]
      BY <2>1 DEF m
    <3> QED
      BY <3>1, <3>2, <3>3
  <2>2. CASE i = m
    <3>1. i \in 1..m /\ 1 \in 1..n /\ i + 1 = 1 + m /\ i # m + n
      BY <2>2, <1>1
    <3>2. u[i] = s[i] /\ u[i + 1] = t[1]
      BY <3>1, <2>2, <1>3, <1>4
    <3>3. Succ(s[i])' = t[1]
      BY <2>2, <3>1 DEF m
    <3> QED
      BY <3>1, <3>2, <3>3
  <2>3. CASE i \notin 1..m
    <3>1. PICK k \in 1..n : i = k + m
      BY <2>3, <1>5
    <3>2. u[i] = t[k]
      BY <3>1, <1>4
    <3>3. Succ(t[k])' = IF k = n THEN NULL ELSE t[k + 1]
      BY DEF n
    <3>4. i = m + n <=> k = n
      BY <3>1, <1>1
    <3>5. k # n => k + 1 \in 1..n /\ i + 1 = (k + 1) + m
      BY <3>1, <1>1
    <3>6. k # n => u[i + 1] = t[k + 1]
      BY <3>5, <1>4
    <3> QED
      BY <3>2, <3>3, <3>4, <3>6
  <2> QED
    BY <2>1, <2>2, <2>3, <1>1
<1>8. ASSUME NEW e \in Elements
      PROVE  owner'[e] = who <=> \E i \in 1..(m + n) : u[i] = e
  <2>1. (\E i \in 1..(m + n) : u[i] = e) <=> (\E i \in 1..m : s[i] = e) \/ \E i \in 1..n : t[i] = e
    <3>1. ASSUME NEW i \in 1..(m + n), u[i] = e
          PROVE  (\E k \in 1..m : s[k] = e) \/ \E k \in 1..n : t[k] = e
      <4>1. CASE i \in 1..m
        BY <4>1, <3>1, <1>3
      <4>2. ASSUME NEW k \in 1..n, i = k + m PROVE t[k] = e
        BY <4>2, <3>1, <1>4
      <4> QED
        BY <4>1, <4>2, <1>5
    <3>2. ASSUME NEW k \in 1..m, s[k] = e PROVE \E i \in 1..(m + n) : u[i] = e
      BY <3>2, <1>3
    <3>3. ASSUME NEW k \in 1..n, t[k] = e PROVE \E i \in 1..(m + n) : u[i] = e
      BY <3>3, <1>4
    <3> QED
      BY <3>1, <3>2, <3>3
  <2> QED
    BY <2>1 DEF m, n
<1>9. Listing(u, who)'
  BY <1>1, <1>2, <1>6, <1>7, <1>8 DEF Listing
<1>10. u[1] = s[1] /\ u[Len(u)] = t[Len(t)]
  <2>1. 1 \in 1..m /\ n \in 1..n /\ m + n = n + m
    BY <1>1
  <2>2. u[1] = s[1] /\ u[n + m] = t[n]
    BY <2>1, <1>3, <1>4
  <2> QED
    BY <2>1, <2>2, <1>2 DEF n
<1> QED
  BY <1>9, <1>10 DEF u

\* restore_load_head when the queue looks empty, and restore_cmpxchg_tail when
\* it is not: the batch stays in the consumer's hands.
LEMMA RestoreTriesHold ==
    ASSUME QueueInv, QueueInv', SuccFacts, SuccFacts', NEW q, NEW b, Holds(q, b),
           \/ restore_load_head /\ next[QHead] = NULL
           \/ restore_cmpxchg_tail /\ tail # QHead
    PROVE  Holds(q, b)'
<1>1. /\ tail' = tail /\ owner' = owner /\ link' = link
      /\ InBatch /\ InBatch' /\ cur' = cur /\ last' = last
      /\ cpc \notin {"xchg_tail", "restore_store"} /\ cpc' \notin {"xchg_tail", "restore_store"}
  BY DEF restore_load_head, restore_cmpxchg_tail, InBatch
<1>2. next' = next
  BY <1>1 DEF restore_load_head, restore_cmpxchg_tail, QueueInv, TypeOK, BatchInv, InBatch
<1>3. Listing(b, "batch")'
  BY <1>1, <1>2, ListingUntouched DEF Holds
<1>4. tail # QHead => Listing(q, "queue")'
  BY <1>1, <1>2, ListingUntouched DEF Holds
<1>5. FirstElement' = FirstElement
  <2>1. Succ(QHead)' = Succ(QHead)
    BY <1>1, <1>2, SuccSame DEF Owes, Nodes
  <2> QED
    BY <1>1, <2>1 DEF FirstElement
<1> QED
  BY <1>1, <1>3, <1>4, <1>5 DEF Holds

\* A queue that is not empty is linked behind the batch.
LEMMA RestoreLinksHold ==
    ASSUME QueueInv, QueueInv', SuccFacts, SuccFacts', NEW q, NEW b, Holds(q, b),
           restore_load_head \/ restore_wait_enqueuer, next[QHead] # NULL
    PROVE  Holds(b \o q, <<>>)' /\ b # <<>>
<1>1. /\ tail' = tail /\ owner' = Requeued /\ link' = link /\ cur' = cur
      /\ InBatch /\ ~InBatch' /\ cpc \notin {"xchg_tail", "restore_store"}
      /\ cpc' = "restore_store" /\ next' = [next EXCEPT ![last] = next[QHead]]
  BY DEF restore_load_head, restore_wait_enqueuer, InBatch
<1>2. /\ tail # QHead /\ next[QHead] \in Elements /\ FirstElement = next[QHead]
      /\ last \in Elements /\ owner[last] = "batch"
  <2>1. tail # QHead /\ next[QHead] \in Elements
    BY DEF QueueInv, TailInv, TypeOK, Nodes
  <2>2. Succ(QHead) = next[QHead]
    BY DEF SuccFacts, Nodes
  <2> QED
    BY <2>1, <2>2, <1>1 DEF FirstElement, QueueInv, BatchInv, InBatch
<1>3. /\ \A x \in Nodes : x # last => next'[x] = next[x]
      /\ next'[last] = next[QHead]
      /\ \A e \in Elements : owner'[e] = "queue" <=> owner[e] = "batch" \/ owner[e] = "queue"
      /\ \A e \in Elements : owner'[e] # "batch"
  BY <1>1, <1>2 DEF Requeued, QueueInv, TypeOK, Nodes
<1>4. /\ Listing(b, "batch") /\ b[1] = cur /\ b[Len(b)] = last
      /\ Listing(q, "queue") /\ q[1] = next[QHead] /\ q[Len(q)] = tail
  BY <1>1, <1>2 DEF Holds
<1>5. /\ b \in Seq(Elements) /\ Len(b) > 0 /\ q \in Seq(Elements) /\ Len(q) > 0
      /\ Len(b) \in Nat
      /\ \A i, j \in 1..Len(b) : b[i] = b[j] => i = j
      /\ \A i, j \in 1..Len(q) : q[i] = q[j] => i = j
      /\ \A i \in 1..Len(b) : b[i] \in Elements /\ owner[b[i]] = "batch"
      /\ \A i \in 1..Len(q) : q[i] \in Elements /\ owner[q[i]] = "queue"
  BY <1>4 DEF Listing
<1>6. \A i \in 1..Len(b), j \in 1..Len(q) : b[i] # q[j]
  BY <1>5
<1>7. ASSUME NEW x \in Nodes, x # last PROVE Succ(x)' = Succ(x)
  BY <1>1, <1>3, <1>7, SuccSame DEF Owes
<1>8. ASSUME NEW x \in Elements, x = last PROVE Succ(x)' = q[1]
  <2>1. next'[x] = q[1] /\ next'[x] # NULL /\ x \in Nodes /\ x \in Nodes'
    BY <1>2, <1>3, <1>4, <1>8, MpscAssumption DEF Nodes
  <2> QED
    BY <2>1 DEF SuccFacts
<1>9. \A i \in 1..Len(b) : Succ(b[i])' = IF i = Len(b) THEN q[1] ELSE b[i + 1]
  <2> SUFFICES ASSUME NEW i \in 1..Len(b)
               PROVE  Succ(b[i])' = IF i = Len(b) THEN q[1] ELSE b[i + 1]
    OBVIOUS
  <2>1. CASE i = Len(b)
    BY <2>1, <1>4, <1>5, <1>8
  <2>2. CASE i # Len(b)
    <3>1. Len(b) \in 1..Len(b)
      BY <1>5
    <3>2. b[i] # last
      BY <2>2, <3>1, <1>4, <1>5
    <3>3. Succ(b[i])' = Succ(b[i])
      BY <3>2, <1>5, <1>7 DEF Nodes
    <3>4. Succ(b[i]) = b[i + 1]
      BY <2>2, <1>4 DEF Listing
    <3> QED
      BY <2>2, <3>3, <3>4
  <2> QED
    BY <2>1, <2>2
<1>10. \A i \in 1..Len(q) : Succ(q[i])' = IF i = Len(q) THEN NULL ELSE q[i + 1]
  <2> SUFFICES ASSUME NEW i \in 1..Len(q)
               PROVE  Succ(q[i])' = IF i = Len(q) THEN NULL ELSE q[i + 1]
    OBVIOUS
  <2>1. q[i] # last /\ q[i] \in Nodes
    BY <1>2, <1>5 DEF Nodes
  <2>2. Succ(q[i])' = Succ(q[i])
    BY <2>1, <1>7
  <2>3. Succ(q[i]) = IF i = Len(q) THEN NULL ELSE q[i + 1]
    BY <1>4 DEF Listing
  <2> QED
    BY <2>2, <2>3
<1>11. \A e \in Elements : owner'[e] = "queue" <=> \/ \E i \in 1..Len(b) : b[i] = e
                                                   \/ \E i \in 1..Len(q) : q[i] = e
  BY <1>3, <1>4 DEF Listing
<1>12. /\ Listing(b \o q, "queue")'
       /\ (b \o q)[1] = b[1] /\ (b \o q)[Len(b \o q)] = q[Len(q)]
  <2>1. Joins(b, q, "queue")
    BY <1>5, <1>6, <1>9, <1>10, <1>11 DEF Joins
  <2> QED
    BY <2>1, ListingJoined
<1>13. FirstElement' = cur
  BY <1>1 DEF FirstElement
<1>14. b # <<>>
  BY <1>5
<1> QED
  BY <1>1, <1>2, <1>3, <1>4, <1>12, <1>13, <1>14 DEF Holds

\* An empty queue is replaced by the batch.
LEMMA RestoreSwapsHold ==
    ASSUME QueueInv, QueueInv', SuccFacts, SuccFacts', NEW q, NEW b, Holds(q, b),
           restore_cmpxchg_tail, tail = QHead
    PROVE  Holds(b, <<>>)' /\ q = <<>> /\ b # <<>>
<1>1. /\ tail' = last /\ owner' = Requeued /\ link' = link /\ next' = next /\ cur' = cur
      /\ InBatch /\ ~InBatch' /\ cpc' = "restore_store"
  BY DEF restore_cmpxchg_tail, InBatch
<1>2. /\ q = <<>> /\ \A e \in Elements : owner[e] # "queue"
      /\ Listing(b, "batch") /\ b[1] = cur /\ b[Len(b)] = last
  BY <1>1 DEF Holds
<1>3. /\ \A e \in Elements : owner'[e] = "queue" <=> owner[e] = "batch"
      /\ \A e \in Elements : owner'[e] # "batch"
  BY <1>1, <1>2 DEF Requeued, QueueInv, TypeOK
<1>4. \A i \in 1..Len(b) : Succ(b[i])' = Succ(b[i])
  <2>1. ASSUME NEW x \in Nodes PROVE Succ(x)' = Succ(x)
    BY <1>1, SuccSame DEF Owes
  <2> QED
    BY <1>2, <2>1 DEF Listing, Nodes
<1>5. Listing(b, "queue")'
  BY <1>2, <1>3, <1>4 DEF Listing
<1>6. FirstElement' = cur /\ last # QHead
  BY <1>1, MpscAssumption DEF FirstElement, QueueInv, BatchInv, InBatch
<1>7. b # <<>>
  BY <1>2 DEF Listing
<1> QED
  BY <1>1, <1>2, <1>3, <1>5, <1>6, <1>7 DEF Holds

\* The store of the head completes the restore.
LEMMA RestoreStoreHolds ==
    ASSUME QueueInv, QueueInv', SuccFacts, SuccFacts', NEW q, NEW b, Holds(q, b),
           restore_store_head
    PROVE  Holds(q, b)'
<1>1. /\ tail' = tail /\ tail # QHead /\ owner' = owner /\ link' = link
      /\ ~InBatch /\ ~InBatch' /\ FirstElement = cur
      /\ cpc' = "idle" /\ next' = [next EXCEPT ![QHead] = cur]
  BY DEF restore_store_head, InBatch, FirstElement, QueueInv, HeadInv
<1>2. cur # NULL /\ next'[QHead] = cur /\ \A e \in Elements : next'[e] = next[e]
  BY <1>1, MpscAssumption DEF restore_store_head, QueueInv, BatchInv, TypeOK, Nodes
<1>3. FirstElement' = cur
  <2>1. Succ(QHead)' = cur
    BY <1>2 DEF SuccFacts, Nodes
  <2> QED
    BY <1>1, <2>1 DEF FirstElement
<1>4. Listing(q, "queue")'
  <2>1. Listing(q, "queue")
    BY <1>1 DEF Holds
  <2>2. \A i \in 1..Len(q) : next'[q[i]] = next[q[i]]
    BY <2>1, <1>2 DEF Listing
  <2> QED
    BY <1>1, <2>1, <2>2, ListingUntouched
<1> QED
  BY <1>1, <1>3, <1>4 DEF Holds

\* The first half of an enqueue appends the list: the old tail's link to it is
\* owed.
LEMMA UpdateTailHolds ==
    ASSUME QueueInv, QueueInv', SuccFacts, SuccFacts', NEW q, NEW b, Holds(q, b),
           NEW p \in Producers, NEW l \in Lists, append_update_tail(p, l)
    PROVE  Holds(q \o l, b)'
<1>1. /\ l \in Seq(Elements) /\ Len(l) \in Nat /\ Len(l) > 0
      /\ \A i \in 1..Len(l) : l[i] \in Elements /\ owner[l[i]] = "idle"
      /\ \A i, j \in 1..Len(l) : l[i] = l[j] => i = j
      /\ \A i \in 1..Len(l) : ListNext(l, l[i]) = IF i = Len(l) THEN NULL ELSE l[i + 1]
  <2>1. l \in Seq(Elements)
    BY DEF Lists
  <2>2. \A i \in 1..Len(l) : owner[l[i]] = "idle"
    BY ListFacts DEF append_update_tail
  <2> QED
    BY <2>1, <2>2, ListFacts
<1>2. /\ cpc' = cpc /\ head' = head /\ cur' = cur /\ last' = last
      /\ link' = [link EXCEPT ![p] = [prev |-> tail, first |-> l[1]]]
      /\ tail' = l[Len(l)] /\ link[p] = NULL
  BY DEF append_update_tail, consVars
<1>3. \A x \in Nodes : (\A i \in 1..Len(l) : l[i] # x) => next'[x] = next[x]
  BY ListFacts DEF append_update_tail
<1>4. \A i \in 1..Len(l) : next'[l[i]] = IF i = Len(l) THEN NULL ELSE l[i + 1]
  BY <1>1, ListFacts DEF append_update_tail, Nodes
<1>5. \A e \in Elements : /\ owner'[e] = "queue" <=> owner[e] = "queue" \/ \E i \in 1..Len(l) : l[i] = e
                          /\ owner'[e] = "batch" <=> owner[e] = "batch"
  <2>1. \A e \in Elements : owner'[e] = IF \E i \in 1..Len(l) : l[i] = e
                                        THEN "queue" ELSE owner[e]
    BY ListFacts DEF append_update_tail
  <2> QED
    BY <2>1, <1>1
<1>6. /\ link' \in [Producers -> [prev : Nodes, first : Elements] \cup {NULL}]
      /\ tail \in Nodes /\ l[1] \in Elements
  <2>1. 1 \in 1..Len(l)
    BY <1>1
  <2> QED
    BY <2>1, <1>1 DEF QueueInv, TypeOK, Nodes
<1>7. \A r \in Producers : r # p => link'[r] = link[r]
  BY <1>2 DEF QueueInv, TypeOK
<1>8. link'[p] # NULL /\ link'[p].prev = tail /\ link'[p].first = l[1]
  <2>1. link'[p] = [prev |-> tail, first |-> l[1]]
    BY <1>2 DEF QueueInv, TypeOK
  <2> QED
    BY <2>1, <1>6, MpscAssumption DEF Nodes
<1>9. ASSUME NEW x \in Nodes, x # tail, \A i \in 1..Len(l) : l[i] # x
      PROVE  Succ(x)' = Succ(x)
  <2>1. \A r \in Producers : Owes(r, x) => Owes(r, x)' /\ link'[r] = link[r]
    BY <1>2, <1>7 DEF Owes
  <2>2. \A r \in Producers : Owes(r, x)' => Owes(r, x)
    BY <1>7, <1>8, <1>9 DEF Owes
  <2>3. next'[x] = next[x]
    BY <1>3, <1>9
  <2> QED
    BY <2>1, <2>2, <2>3, SuccSame
<1>10. ASSUME NEW x \in Nodes, x = tail PROVE Succ(x)' = l[1]
  <2>1. Owes(p, x)'
    BY <1>8, <1>10 DEF Owes
  <2> QED
    BY <2>1, <1>8 DEF SuccFacts, Nodes
<1>11. \A i \in 1..Len(l) : Succ(l[i])' = IF i = Len(l) THEN NULL ELSE l[i + 1]
  <2> SUFFICES ASSUME NEW i \in 1..Len(l)
               PROVE  Succ(l[i])' = IF i = Len(l) THEN NULL ELSE l[i + 1]
    OBVIOUS
  <2>1. l[i] \in Nodes
    BY <1>1 DEF Nodes
  <2>2. CASE i = Len(l)
    <3>1. next'[l[i]] = NULL
      BY <2>2, <1>4
    <3>2. \A r \in Producers : ~Owes(r, l[i])'
      BY <2>2, <1>2 DEF QueueInv, LinkInv, Owes
    <3> QED
      BY <2>1, <2>2, <3>1, <3>2 DEF SuccFacts, Nodes
  <2>3. CASE i # Len(l)
    <3>1. i + 1 \in 1..Len(l)
      BY <2>3, <1>1
    <3>2. next'[l[i]] = l[i + 1] /\ l[i + 1] # NULL
      BY <2>3, <3>1, <1>1, <1>4, MpscAssumption
    <3> QED
      BY <2>1, <2>3, <3>2 DEF SuccFacts, Nodes
  <2> QED
    BY <2>2, <2>3
<1>12. tail' # QHead
  <2>1. Len(l) \in 1..Len(l)
    BY <1>1
  <2> QED
    BY <2>1, <1>1, <1>2, MpscAssumption
<1>13. InBatch => Listing(b, "batch")'
  <2> SUFFICES ASSUME InBatch PROVE Listing(b, "batch")'
    OBVIOUS
  <2>1. Listing(b, "batch")
    BY DEF Holds
  <2>2. \A i \in 1..Len(b) : b[i] \in Elements /\ owner[b[i]] = "batch"
    BY <2>1 DEF Listing
  <2>3. \A i \in 1..Len(b) : b[i] # tail
    BY <2>2, MpscAssumption DEF QueueInv, TailInv, Side
  <2>4. \A i \in 1..Len(b) : \A j \in 1..Len(l) : l[j] # b[i]
    BY <2>2, <1>1
  <2>5. \A i \in 1..Len(b) : Succ(b[i])' = Succ(b[i])
    BY <2>2, <2>3, <2>4, <1>9 DEF Nodes
  <2> QED
    BY <2>1, <2>5, <1>5, ListingKept
<1>14. QHead \in Nodes /\ \A i \in 1..Len(l) : l[i] # QHead
  BY <1>1, MpscAssumption DEF Nodes
<1>15. CASE tail = QHead
  <2>1. q = <<>> /\ \A e \in Elements : owner[e] # "queue"
    BY <1>15 DEF Holds
  <2>2. q \o l = l
    BY <2>1, <1>1, ConcatEmptySeq
  <2>3. Listing(l, "queue")'
    BY <1>1, <1>5, <1>11, <2>1 DEF Listing
  <2>4. FirstElement' = l[1]
    <3>1. Succ(QHead)' = l[1]
      BY <1>10, <1>14, <1>15
    <3>2. cpc \notin {"xchg_tail", "restore_store"}
      BY <1>15 DEF QueueInv, HeadInv
    <3> QED
      BY <3>1, <3>2, <1>2 DEF FirstElement
  <2>5. Holds(l, b)'
    BY <1>2, <1>5, <1>12, <1>13, <2>3, <2>4 DEF Holds, InBatch
  <2> QED
    BY <2>2, <2>5
<1>16. CASE tail # QHead
  <2>1. /\ Listing(q, "queue") /\ q[1] = FirstElement /\ q[Len(q)] = tail
        /\ q \in Seq(Elements) /\ Len(q) > 0 /\ Len(q) \in Nat
        /\ \A i, j \in 1..Len(q) : q[i] = q[j] => i = j
        /\ \A i \in 1..Len(q) : q[i] \in Elements /\ owner[q[i]] = "queue"
    BY <1>16 DEF Holds, Listing
  <2>2. \A i \in 1..Len(q), j \in 1..Len(l) : q[i] # l[j]
    BY <2>1, <1>1
  <2>3. \A i \in 1..Len(q) : Succ(q[i])' = IF i = Len(q) THEN l[1] ELSE q[i + 1]
    <3> SUFFICES ASSUME NEW i \in 1..Len(q)
                 PROVE  Succ(q[i])' = IF i = Len(q) THEN l[1] ELSE q[i + 1]
      OBVIOUS
    <3>1. CASE i = Len(q)
      BY <3>1, <2>1, <1>10 DEF Nodes
    <3>2. CASE i # Len(q)
      <4>1. Len(q) \in 1..Len(q)
        BY <2>1
      <4>2. q[i] # tail /\ q[i] \in Nodes /\ \A j \in 1..Len(l) : l[j] # q[i]
        BY <3>2, <4>1, <2>1, <2>2 DEF Nodes
      <4>3. Succ(q[i])' = Succ(q[i])
        BY <4>2, <1>9
      <4>4. Succ(q[i]) = q[i + 1]
        BY <3>2, <2>1 DEF Listing
      <4> QED
        BY <3>2, <4>3, <4>4
    <3> QED
      BY <3>1, <3>2
  <2>4. \A e \in Elements : owner'[e] = "queue" <=> \/ \E i \in 1..Len(q) : q[i] = e
                                                    \/ \E i \in 1..Len(l) : l[i] = e
    BY <1>5, <2>1 DEF Listing
  <2>5. /\ Listing(q \o l, "queue")'
        /\ (q \o l)[1] = q[1] /\ (q \o l)[Len(q \o l)] = l[Len(l)]
    <3>1. Joins(q, l, "queue")
      BY <1>1, <1>11, <2>1, <2>2, <2>3, <2>4 DEF Joins
    <3> QED
      BY <3>1, ListingJoined
  <2>6. FirstElement' = FirstElement
    <3>1. Succ(QHead)' = Succ(QHead)
      BY <1>9, <1>14, <1>16
    <3> QED
      BY <3>1, <1>2 DEF FirstElement
  <2> QED
    BY <1>2, <1>5, <1>12, <1>13, <2>1, <2>5, <2>6 DEF Holds, InBatch
<1> QED
  BY <1>15, <1>16

-----------------------------------------------------------------------------
(* The refinement: the queue implements the FIFO.                          *)

\* An empty queue is an empty FIFO.
LEMMA FifoInitially == Init => FifoInv /\ Fifo!FifoInit
<1> SUFFICES ASSUME Init PROVE FifoInv /\ Fifo!FifoInit
  OBVIOUS
<1>1. Holds(<<>>, <<>>)
  BY DEF Init, Holds, InBatch
<1>2. queueContents = <<>> /\ batchContents = <<>>
  BY <1>1, HoldsContents DEF ContentsHold
<1>3. FifoInv
  BY <1>1 DEF FifoInv
<1> QED
  BY <1>2, <1>3 DEF Fifo!FifoInit

\* What is left of a sequence behind its beginning, and how many elements a
\* list has.
LEMMA ListAppended ==
    ASSUME NEW q \in Seq(Elements), NEW l \in Seq(Elements), Len(l) > 0,
           \A i, j \in 1..Len(l) : l[i] = l[j] => i = j
    PROVE  /\ SubSeq(q \o l, Len(q) + 1, Len(q \o l)) = l /\ l # <<>>
           /\ Fifo!Cardinality(Fifo!ToSet(l)) = Len(l)
           /\ Fifo!ToSet(l) = { l[i] : i \in 1..Len(l) }
<1> DEFINE u == q \o l
           m == Len(q)
           n == Len(l)
           range == { l[i] : i \in 1..n }
<1>1. /\ m \in Nat /\ n \in Nat /\ u \in Seq(Elements) /\ Len(u) = m + n
      /\ \A i \in 1..(m + n) : u[i] = IF i <= m THEN q[i] ELSE l[i - m]
  BY ConcatProperties
<1>2. SubSeq(u, m + 1, Len(u)) = l
  <2>1. m + 1 \in 1..(Len(u) + 1) /\ Len(u) \in (m + 1) - 1..Len(u)
    BY <1>1
  <2> DEFINE v == SubSeq(u, m + 1, Len(u))
  <2> HIDE DEF u, m, n
  <2>2. /\ v \in Seq(Elements) /\ Len(v) = n
        /\ \A i \in 1..n : v[i] = u[(m + 1) + i - 1]
    BY <1>1, <2>1, SubSeqProperties
  <2>3. \A i \in 1..n : v[i] = l[i]
    BY <1>1, <2>2
  <2> HIDE DEF v
  <2>4. v = l
    BY <2>2, <2>3, SeqEqual DEF n
  <2> QED
    BY <2>4 DEF v
<1>3. Fifo!ToSet(l) = range
  BY DEF Fifo!ToSet
<1>4. Cardinality(range) = n
  <2>1. l \in Bijection(1..n, range)
    BY DEF Bijection, Injection, Surjection, IsInjective
  <2>2. ExistsBijection(1..n, range)
    BY <2>1 DEF ExistsBijection
  <2>3. IsFiniteSet(1..n) /\ Cardinality(1..n) = n
    BY <1>1, FS_Interval
  <2> HIDE DEF range, n
  <2> QED
    BY <2>2, <2>3, FS_Bijection
<1>5. Fifo!Cardinality(range) = Cardinality(range)
  BY Zenon DEF Cardinality, Fifo!Cardinality
<1>6. l # <<>>
  OBVIOUS
<1>7. Fifo!Cardinality(Fifo!ToSet(l)) = n
  BY <1>3, <1>4, <1>5, Zenon
<1> QED
  BY <1>2, <1>3, <1>6, <1>7, Zenon

\* A step of the FIFO, or one that changes nothing of it.
AbstractStep == [Fifo!FifoNext]_(Fifo!fifoVars)

\* Every step of the algorithm is a step of the FIFO or changes nothing of it.
LEMMA FifoStep == QueueInv /\ FifoInv /\ [Next]_vars => FifoInv' /\ AbstractStep
<1> SUFFICES ASSUME QueueInv, FifoInv, [Next]_vars PROVE FifoInv' /\ AbstractStep
  OBVIOUS
<1>1. QueueInv' /\ SuccFacts /\ SuccFacts' /\ ContentsHold /\ ContentsHold'
  BY StepFacts
<1>2. PICK q, b : Holds(q, b)
  BY DEF FifoInv
<1>3. queueContents = q /\ batchContents = b
  BY <1>1, <1>2 DEF ContentsHold
<1>4. ASSUME NEW q2, NEW b2, Holds(q2, b2)'
      PROVE  FifoInv' /\ queueContents' = q2 /\ batchContents' = b2
  <2>1. FifoInv'
    BY <1>4 DEF FifoInv
  <2> QED
    BY <1>1, <1>4, <2>1 DEF ContentsHold
<1>5. ASSUME Holds(q, b)' PROVE FifoInv' /\ AbstractStep
  BY <1>3, <1>4, <1>5 DEF AbstractStep, Fifo!fifoVars
<1>6. ASSUME NEW p \in Producers, NEW l \in Lists, append_update_tail(p, l)
      PROVE  FifoInv' /\ AbstractStep
  <2>1. Holds(q \o l, b)'
    BY <1>1, <1>2, <1>6, UpdateTailHolds
  <2>2. FifoInv' /\ queueContents' = q \o l /\ batchContents' = b
    BY <1>4, <2>1
  <2>3. /\ q \in Seq(Elements)
        /\ \A i \in 1..Len(q) : q[i] \in Elements /\ owner[q[i]] = "queue"
        /\ b \in Seq(Elements)
        /\ \A i \in 1..Len(b) : b[i] \in Elements /\ owner[b[i]] = "batch"
    BY <1>2, HoldsFacts
  <2>4. /\ l \in Seq(Elements) /\ Len(l) > 0
        /\ \A i \in 1..Len(l) : l[i] \in Elements /\ owner[l[i]] = "idle"
        /\ \A i, j \in 1..Len(l) : l[i] = l[j] => i = j
    <3>1. l \in Seq(Elements)
      BY DEF Lists
    <3>2. \A i \in 1..Len(l) : owner[l[i]] = "idle"
      BY <1>6, ListFacts DEF append_update_tail
    <3> QED
      BY <3>1, <3>2, ListFacts
  <2>5. /\ SubSeq(q \o l, Len(q) + 1, Len(q \o l)) = l /\ l # <<>>
        /\ Fifo!Cardinality(Fifo!ToSet(l)) = Len(l)
        /\ Fifo!ToSet(l) = { l[i] : i \in 1..Len(l) }
    BY <2>3, <2>4, ListAppended
  <2>6. Fifo!ToSet(l) \subseteq Elements \ (Fifo!ToSet(q) \cup Fifo!ToSet(b))
    <3>1. \A e \in Fifo!ToSet(l) : e \in Elements /\ owner[e] = "idle"
      BY <2>4, <2>5
    <3>2. \A e \in Fifo!ToSet(q) : owner[e] = "queue"
      BY <2>3 DEF Fifo!ToSet
    <3>3. \A e \in Fifo!ToSet(b) : owner[e] = "batch"
      BY <2>3 DEF Fifo!ToSet
    <3> QED
      BY <3>1, <3>2, <3>3
  <2>7. Fifo!AppendList
    BY <1>3, <2>2, <2>5, <2>6 DEF Fifo!AppendList, Fifo!Idle
  <2> QED
    BY <2>2, <2>7 DEF AbstractStep, Fifo!FifoNext
<1>7. ASSUME NEW p \in Producers, append_update_prev(p) PROVE FifoInv' /\ AbstractStep
  BY <1>1, <1>2, <1>5, <1>7, UpdatePrevHolds
<1>8. CASE dequeue_load_tail \/ dequeue_load_head \/ dequeue_clear_head
  BY <1>1, <1>2, <1>5, <1>8, DequeueLoadsHold
<1>9. CASE dequeue_xchg_tail
  <2>1. Holds(<<>>, q)' /\ b = <<>> /\ q # <<>>
    BY <1>1, <1>2, <1>9, XchgTailHolds
  <2>2. FifoInv' /\ queueContents' = <<>> /\ batchContents' = q
    BY <1>4, <2>1
  <2> QED
    BY <1>3, <2>1, <2>2 DEF AbstractStep, Fifo!FifoNext, Fifo!DequeueBatch
<1>10. CASE batch_next
  BY <1>1, <1>2, <1>5, <1>10, BatchNextHolds
<1>11. CASE batch_visit
  <2>1. Holds(q, Tail(b))' /\ b # <<>>
    BY <1>1, <1>2, <1>11, BatchVisitHolds
  <2>2. FifoInv' /\ queueContents' = q /\ batchContents' = Tail(b)
    BY <1>4, <2>1
  <2> QED
    BY <1>3, <2>1, <2>2 DEF AbstractStep, Fifo!FifoNext, Fifo!Consume
<1>12. ASSUME Holds(b \o q, <<>>)', b # <<>> PROVE FifoInv' /\ AbstractStep
  <2>1. FifoInv' /\ queueContents' = b \o q /\ batchContents' = <<>>
    BY <1>4, <1>12
  <2> QED
    BY <1>3, <1>12, <2>1 DEF AbstractStep, Fifo!FifoNext, Fifo!RestoreBatch
<1>13. CASE restore_load_head
  BY <1>1, <1>2, <1>5, <1>12, <1>13, RestoreTriesHold, RestoreLinksHold
<1>14. CASE restore_cmpxchg_tail
  <2>1. CASE tail # QHead
    BY <1>1, <1>2, <1>5, <1>14, <2>1, RestoreTriesHold
  <2>2. CASE tail = QHead
    <3>1. Holds(b, <<>>)' /\ q = <<>> /\ b # <<>>
      BY <1>1, <1>2, <1>14, <2>2, RestoreSwapsHold
    <3>2. b \in Seq(Elements)
      BY <1>2, HoldsFacts
    <3>3. b \o q = b
      BY <3>1, <3>2, ConcatEmptySeq
    <3> QED
      BY <1>12, <3>1, <3>3
  <2> QED
    BY <2>1, <2>2
<1>15. CASE restore_wait_enqueuer
  <2>1. next[QHead] # NULL
    BY <1>15 DEF restore_wait_enqueuer
  <2> QED
    BY <1>1, <1>2, <1>12, <1>15, <2>1, RestoreLinksHold
<1>16. CASE restore_store_head
  BY <1>1, <1>2, <1>5, <1>16, RestoreStoreHolds
<1>17. CASE UNCHANGED vars
  <2>1. Holds(q, b)'
    <3>1. ASSUME NEW x \in Nodes PROVE Succ(x)' = Succ(x)
      BY <1>1, <1>17, SuccSame DEF vars, Owes
    <3>2. FirstElement' = FirstElement
      BY <1>17, <3>1 DEF vars, FirstElement, Nodes
    <3>3. ASSUME NEW s, NEW who, Listing(s, who) PROVE Listing(s, who)'
      BY <1>1, <1>17, <3>3, ListingUntouched DEF vars
    <3> QED
      BY <1>2, <1>17, <3>2, <3>3 DEF vars, Holds, InBatch
  <2> QED
    BY <1>5, <2>1
<1> QED
  BY <1>6, <1>7, <1>8, <1>9, <1>10, <1>11, <1>13, <1>14, <1>15, <1>16, <1>17
     DEF Next, mpsc_queue_dequeue_batch, mpsc_queue_batch_foreach, mpsc_queue_restore_batch

\* The lock-free queue is a FIFO: every list is appended at once, at the
\* exchange of the tail; a batch is all that was queued, in order; nothing is
\* lost or seen twice; and a restored batch precedes what was appended
\* meanwhile.
THEOREM QueueIsFifo == Spec => FifoRefinement
<1>1. Init => FifoInv /\ Fifo!FifoInit
  BY FifoInitially
<1>2. QueueInv /\ FifoInv /\ [Next]_vars => FifoInv' /\ [Fifo!FifoNext]_(Fifo!fifoVars)
  BY FifoStep DEF AbstractStep
<1> QED
  BY <1>1, <1>2, QueueInvariant, PTL DEF Spec, FifoRefinement, Fifo!FifoSpec
=============================================================================
