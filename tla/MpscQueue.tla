------------------------------ MODULE MpscQueue ------------------------------
(***************************************************************************)
(* The lock-free multi-producer single-consumer queue of                   *)
(* osfmk/kern/mpsc_queue.[ch], one action per atomic access to shared      *)
(* memory.  An enqueue is an exchange of the tail followed, later, by the  *)
(* store that links the previous tail to the new elements; between the two *)
(* the list has a gap, and the consumer spins on it.                       *)
(*                                                                         *)
(* The accesses are interleaved in program order: the release exchange of  *)
(* the producers and the seq_cst exchange of the consumer order the        *)
(* relaxed stores around them, and the spins are on one location.          *)
(***************************************************************************)
EXTENDS Naturals, Sequences

CONSTANTS Elements,     \* mpsc_queue_chain linkages that can be queued
          Producers,    \* contexts that append
          QHead,        \* &q->mpqh_head, a linkage that is never queued
          NULL,         \* the null pointer
          NotQueued,    \* MPSC_QUEUE_NOTQUEUED_MARKER
          MaxList       \* bound: the longest list mpsc_queue_append_list gets

ASSUME MpscAssumption ==
    /\ QHead \notin Elements /\ NULL \notin Elements /\ NotQueued \notin Elements
    /\ QHead # NULL /\ QHead # NotQueued /\ NULL # NotQueued
    /\ NULL \notin [prev : Elements \cup {QHead}, first : Elements]
    /\ MaxList \in Nat \ {0}

VARIABLES next,     \* mpqc_next of every linkage and of the queue head
          tail,     \* q->mpqh_tail
          link,     \* per producer: the store it still owes, or NULL
          cpc,      \* where the consumer is
          head,     \* consumer's local: first element of the batch
          last,     \* consumer's local: *tail_out, last element of the batch
          cur,      \* consumer's local: item of mpsc_queue_batch_foreach_safe
          tmp,      \* consumer's local: __tmp of mpsc_queue_batch_foreach_safe
          owner     \* history: who an element belongs to

prodVars == <<next, tail, link, owner>>
consVars == <<cpc, head, last, cur, tmp>>
vars == <<next, tail, link, cpc, head, last, cur, tmp, owner>>

Nodes == Elements \cup {QHead}

\* The lists a producer may append: every element once, all of them its own.
Lists == { l \in UNION { [1..n -> Elements] : n \in 1..MaxList } :
             \A i, j \in DOMAIN l : i # j => l[i] # l[j] }

\* The elements in a given hand: "idle", "queue" or "batch".
OwnedBy(who) == { e \in Elements : owner[e] = who }

Init ==
    /\ next = [x \in Nodes |-> IF x = QHead THEN NULL ELSE NotQueued]
    /\ tail = QHead
    /\ link = [p \in Producers |-> NULL]
    /\ cpc = "idle" /\ head = NULL /\ last = NULL /\ cur = NULL /\ tmp = NULL
    /\ owner = [e \in Elements |-> "idle"]
-----------------------------------------------------------------------------
(* Producers.                                                              *)

\* The linkage of an element of the list being appended.
ListNext(l, e) == LET i == CHOOSE i \in DOMAIN l : l[i] = e
                  IN  IF i = Len(l) THEN NULL ELSE l[i + 1]

\* First half of mpsc_queue_append_list: the list, formed privately, ends in
\* NULL, and its last element is exchanged into the tail.
append_update_tail(p, l) ==
    /\ link[p] = NULL
    /\ \A i \in DOMAIN l : owner[l[i]] = "idle"
    /\ next' = [x \in Nodes |-> IF \E i \in DOMAIN l : l[i] = x
                                THEN ListNext(l, x) ELSE next[x]]
    /\ link' = [link EXCEPT ![p] = [prev |-> tail, first |-> l[1]]]
    /\ tail' = l[Len(l)]
    /\ owner' = [e \in Elements |-> IF \E i \in DOMAIN l : l[i] = e
                                    THEN "queue" ELSE owner[e]]
    /\ UNCHANGED consVars

\* Second half: the store that closes the gap behind the previous tail.
append_update_prev(p) ==
    /\ link[p] # NULL
    /\ next' = [next EXCEPT ![link[p].prev] = link[p].first]
    /\ link' = [link EXCEPT ![p] = NULL]
    /\ UNCHANGED <<tail, owner, consVars>>
-----------------------------------------------------------------------------
(* The consumer: mpsc_queue_dequeue_batch.                                 *)

\* Mutant: an empty queue is not told from one with a gap.
dequeue_load_tail_unchecked ==
    /\ cpc = "idle"
    /\ cpc' = "load_head"
    /\ UNCHANGED <<prodVars, head, last, cur, tmp>>

\* The load of the tail: an empty queue returns NULL, which changes nothing.
dequeue_load_tail ==
    /\ cpc = "idle" /\ tail # QHead
    /\ cpc' = "load_head"
    /\ UNCHANGED <<prodVars, head, last, cur, tmp>>

\* The load of the first link, which spins while its producer has not stored it.
dequeue_load_head ==
    /\ cpc = "load_head" /\ next[QHead] # NULL
    /\ head' = next[QHead]
    /\ cpc' = "clear_head"
    /\ UNCHANGED <<prodVars, last, cur, tmp>>

dequeue_clear_head ==
    /\ cpc = "clear_head"
    /\ next' = [next EXCEPT ![QHead] = NULL]
    /\ cpc' = "xchg_tail"
    /\ UNCHANGED <<tail, link, owner, head, last, cur, tmp>>

\* The exchange that empties the queue; the loop over the batch starts.
dequeue_xchg_tail ==
    /\ cpc = "xchg_tail"
    /\ last' = tail
    /\ tail' = QHead
    /\ cur' = head
    /\ head' = NULL
    /\ owner' = [e \in Elements |-> IF owner[e] = "queue" THEN "batch" ELSE owner[e]]
    /\ cpc' = "batch_next"
    /\ UNCHANGED <<next, link, tmp>>
-----------------------------------------------------------------------------
(* The consumer: mpsc_queue_batch_foreach_safe, as the drain uses it.      *)

\* Mutant: a NULL link is taken for the end of the batch.
batch_next_nowait ==
    /\ cpc = "batch_next"
    /\ tmp' = IF cur = last THEN NULL ELSE next[cur]
    /\ cpc' = "visit"
    /\ UNCHANGED <<prodVars, head, last, cur>>

\* The next element is read before the body runs; the read spins on a gap.
batch_next ==
    /\ cpc = "batch_next"
    /\ \/ /\ cur = last /\ tmp' = NULL
       \/ /\ cur # last /\ next[cur] # NULL /\ tmp' = next[cur]
    /\ cpc' = "visit"
    /\ UNCHANGED <<prodVars, head, last, cur>>

\* Mutant: the element is not marked before its callback may queue it again.
batch_visit_unmarked ==
    /\ cpc = "visit"
    /\ owner' = [owner EXCEPT ![cur] = "idle"]
    /\ cur' = tmp
    /\ tmp' = NULL
    /\ IF tmp = NULL THEN cpc' = "idle" /\ last' = NULL
                     ELSE cpc' = "batch_next" /\ last' = last
    /\ UNCHANGED <<next, tail, link, head>>

\* The body: the element is marked and handed to the callback, its owner again.
batch_visit ==
    /\ cpc = "visit"
    /\ next' = [next EXCEPT ![cur] = NotQueued]
    /\ owner' = [owner EXCEPT ![cur] = "idle"]
    /\ cur' = tmp
    /\ tmp' = NULL
    /\ IF tmp = NULL THEN cpc' = "idle" /\ last' = NULL
                     ELSE cpc' = "batch_next" /\ last' = last
    /\ UNCHANGED <<tail, link, head>>
-----------------------------------------------------------------------------
(* The consumer: mpsc_queue_restore_batch(q, cur, last).                   *)

\* The caller must have the links from first to last set up.
BatchLinked ==
    ~ \E p \in Producers : link[p] # NULL /\ link[p].prev \in OwnedBy("batch")

\* Ownership returns to the queue when the batch and the queue are one list.
Requeued == [e \in Elements |-> IF owner[e] = "batch" THEN "queue" ELSE owner[e]]

restore_load_head ==
    /\ cpc = "batch_next" /\ BatchLinked
    /\ next' = [next EXCEPT ![last] = next[QHead]]
    /\ IF next[QHead] = NULL
         THEN cpc' = "restore_cas" /\ owner' = owner
         ELSE cpc' = "restore_store" /\ owner' = Requeued
    /\ UNCHANGED <<tail, link, head, last, cur, tmp>>

\* The queue looked empty: try to make the batch's last element the tail.
restore_cmpxchg_tail ==
    /\ cpc = "restore_cas"
    /\ IF tail = QHead
         THEN tail' = last /\ owner' = Requeued /\ cpc' = "restore_store"
         ELSE tail' = tail /\ owner' = owner /\ cpc' = "restore_wait"
    /\ UNCHANGED <<next, link, head, last, cur, tmp>>

\* Mutant: the batch is put before a producer's elements without linking them.
restore_wait_enqueuer_unlinked ==
    /\ cpc = "restore_wait" /\ next[QHead] # NULL
    /\ owner' = Requeued
    /\ cpc' = "restore_store"
    /\ UNCHANGED <<next, tail, link, head, last, cur, tmp>>

\* A producer got in between: wait for its link and put the batch before it.
restore_wait_enqueuer ==
    /\ cpc = "restore_wait" /\ next[QHead] # NULL
    /\ next' = [next EXCEPT ![last] = next[QHead]]
    /\ owner' = Requeued
    /\ cpc' = "restore_store"
    /\ UNCHANGED <<tail, link, head, last, cur, tmp>>

restore_store_head ==
    /\ cpc = "restore_store"
    /\ next' = [next EXCEPT ![QHead] = cur]
    /\ cpc' = "idle" /\ cur' = NULL /\ last' = NULL
    /\ UNCHANGED <<tail, link, owner, head, tmp>>
-----------------------------------------------------------------------------
mpsc_queue_dequeue_batch ==
    dequeue_load_tail \/ dequeue_load_head \/ dequeue_clear_head \/ dequeue_xchg_tail

mpsc_queue_batch_foreach == batch_next \/ batch_visit

mpsc_queue_restore_batch ==
    restore_load_head \/ restore_cmpxchg_tail \/ restore_wait_enqueuer \/ restore_store_head

Next ==
    \/ \E p \in Producers, l \in Lists : append_update_tail(p, l)
    \/ \E p \in Producers : append_update_prev(p)
    \/ mpsc_queue_dequeue_batch
    \/ mpsc_queue_batch_foreach
    \/ mpsc_queue_restore_batch

Spec == Init /\ [][Next]_vars

\* Preemption is disabled from the exchange of the tail to the store that
\* links the previous one (mpsc_queue.h), so a producer never stops in the gap.
\* The consumer runs on once it has started an operation; nothing makes it
\* start one, nor restore a batch.
FairSpec ==
    /\ Spec
    /\ \A p \in Producers : WF_vars(append_update_prev(p))
    /\ WF_vars(dequeue_load_head) /\ WF_vars(batch_next) /\ WF_vars(restore_wait_enqueuer)
-----------------------------------------------------------------------------
(* Properties.                                                             *)

\* Links that a producer has exchanged for and not stored yet.
Owes(p, x) == link[p] # NULL /\ link[p].prev = x

\* Types; the queue head itself is never a batch's element.
TypeOK ==
    /\ next \in [Nodes -> Elements \cup {NULL, NotQueued}]
    /\ tail \in Nodes
    /\ link \in [Producers -> [prev : Nodes, first : Elements] \cup {NULL}]
    /\ cpc \in {"idle", "load_head", "clear_head", "xchg_tail", "batch_next",
               "visit", "restore_cas", "restore_wait", "restore_store"}
    /\ {head, last, cur, tmp} \subseteq Elements \cup {NULL}
    /\ owner \in [Elements -> {"idle", "queue", "batch"}]

\* Whenever the consumer spins on a NULL link (_mpsc_queue_wait_for_enqueuer),
\* a producer is between the two halves of its enqueue and owes that very
\* link: the spin is on the gap, never on the end of a list.
SpinOwed ==
    /\ cpc \in {"load_head", "restore_wait"} /\ next[QHead] = NULL
         => \E p \in Producers : Owes(p, QHead)
    /\ cpc = "batch_next" /\ cur # last /\ next[cur] = NULL
         => \E p \in Producers : Owes(p, cur)

\* The store of __mpsc_queue_append_update_prev goes to the head or to an
\* element that is still queued or in the batch, never to one whose callback
\* ran and that its owner may have freed or queued elsewhere; and no two
\* producers owe the same link.
LinkStoreSafe ==
    /\ \A p \in Producers : link[p] # NULL => link[p].prev \notin OwnedBy("idle")
    /\ \A p, q \in Producers, x \in Nodes : Owes(p, x) /\ Owes(q, x) => p = q

\* MPSC_QUEUE_NOTQUEUED_MARKER marks exactly the elements that nobody queued:
\* the link of a queued element is never poisoned, and an element handed to
\* its callback is marked before it can be queued again.
MarkerMeansIdle ==
    \A e \in Elements : next[e] = NotQueued <=> owner[e] = "idle"

\* Every spin of the consumer ends, because the enqueue it waits for ran with
\* preemption disabled.
SpinEnds ==
    /\ cpc = "load_head" ~> cpc # "load_head"
    /\ cpc = "batch_next" ~> cpc # "batch_next"
    /\ cpc = "restore_wait" ~> cpc # "restore_wait"
=============================================================================
