------------------------------ MODULE MpscFifo ------------------------------
(***************************************************************************)
(* What osfmk/kern/mpsc_queue.h promises of a multi-producer               *)
(* single-consumer queue, without its memory layout: producers append      *)
(* lists atomically, the one consumer takes everything queued as a batch,  *)
(* consumes the batch in order, and may put what is left of it back in     *)
(* front of the queue.  MpscQueueRefinement shows that the lock-free       *)
(* algorithm of MpscQueue implements this specification.                   *)
(***************************************************************************)
EXTENDS Sequences, FiniteSets, SequencesExt

CONSTANT Elements       \* the mpsc_queue_chain_t linkages that can be queued

VARIABLES contents,     \* what is queued, oldest first
          batch         \* what the consumer dequeued and has not consumed yet

fifoVars == <<contents, batch>>

\* Elements that are neither queued nor in the consumer's batch.
Idle == Elements \ (ToSet(contents) \cup ToSet(batch))

FifoInit == contents = <<>> /\ batch = <<>>

\* mpsc_queue_append_list: a list of idle elements joins the queue at once.
AppendList ==
    LET list == SubSeq(contents', Len(contents) + 1, Len(contents')) IN
    /\ list # <<>> /\ contents' = contents \o list
    /\ Cardinality(ToSet(list)) = Len(list)
    /\ ToSet(list) \subseteq Idle
    /\ UNCHANGED batch

\* mpsc_queue_dequeue_batch: the whole queue becomes the batch.
DequeueBatch ==
    /\ batch = <<>> /\ contents # <<>>
    /\ batch' = contents
    /\ contents' = <<>>

\* mpsc_queue_batch_next: the consumer is done with the oldest element.
Consume ==
    /\ batch # <<>>
    /\ batch' = Tail(batch)
    /\ UNCHANGED contents

\* mpsc_queue_restore_batch: the rest of the batch goes back in front.
RestoreBatch ==
    /\ batch # <<>>
    /\ contents' = batch \o contents
    /\ batch' = <<>>

FifoNext == AppendList \/ DequeueBatch \/ Consume \/ RestoreBatch

FifoSpec == FifoInit /\ [][FifoNext]_fifoVars
=============================================================================
