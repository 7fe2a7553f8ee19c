------------------------ MODULE MpscQueueRefinement ------------------------
(***************************************************************************)
(* The lock-free queue of MpscQueue implements the atomic FIFO of          *)
(* MpscFifo.  The exchange of the tail is where an append takes effect,    *)
(* although the element cannot be reached from the head before the second  *)
(* half of the enqueue: the order of the queue is the order of the links,  *)
(* those stored and those that producers still owe.                        *)
(***************************************************************************)
EXTENDS MpscQueue, FiniteSets, FiniteSetsExt

\* Memory is finite; Chain counts the elements.
ASSUME FiniteElements == IsFiniteSet(Elements)

\* The link behind x: the stored one, or else the one a producer owes.
Succ(x) ==
    IF x \notin Nodes THEN NULL
    ELSE IF next[x] # NULL THEN next[x]
    ELSE LET owing == { p \in Producers : link[p] # NULL /\ link[p].prev = x }
         IN  IF owing = {} THEN NULL ELSE link[CHOOSE p \in owing : TRUE].first

\* The elements from x to y along Succ; if the chain misses y, as many nodes as
\* there are elements, whatever they are.
Chain(x, y) ==
    LET n == Cardinality(Elements)
        node[i \in 1..n] == IF i = 1 THEN x ELSE Succ(node[i - 1])
        ends == { i \in 1..n : node[i] = y }
    IN  [i \in 1..(IF ends = {} THEN n ELSE Min(ends)) |-> node[i]]

\* The first queued element: while the consumer has cleared the head, or has
\* not stored it yet, it is in the consumer's hands.
FirstElement ==
    CASE cpc = "xchg_tail"     -> head
      [] cpc = "restore_store" -> cur
      [] OTHER                 -> Succ(QHead)

queueContents == IF tail = QHead THEN <<>> ELSE Chain(FirstElement, tail)

batchContents ==
    IF cpc \in {"batch_next", "visit", "restore_cas", "restore_wait"}
    THEN Chain(cur, last) ELSE <<>>

Fifo == INSTANCE MpscFifo WITH contents <- queueContents, batch <- batchContents

\* The queue is a FIFO: every list is appended atomically at the exchange of
\* the tail, every batch is all that was queued, in order, nothing is lost or
\* seen twice, and a restored batch precedes what was appended meanwhile.
FifoRefinement == Fifo!FifoSpec
=============================================================================
