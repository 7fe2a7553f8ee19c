----------------------------- MODULE MpscDaemon -----------------------------
(***************************************************************************)
(* Daemon queues (osfmk/kern/mpsc_queue.c, "GCD-like facilities"): an MPSC *)
(* queue, a state word and a way to get drained: a thread of its own, a    *)
(* THREAD_CALL_ONCE thread call, or another daemon queue on which the      *)
(* queue puts its own mpd_chain.  One action per atomic access.            *)
(*                                                                         *)
(* mpd_queue is the atomic queue that MpscQueueRefinement shows it to be;  *)
(* its order is that module's business, and here a queue and a batch are   *)
(* sets.  assert_wait, thread_wakeup and thread_call_enter are external:   *)
(* they are modelled by what this code expects of them.                    *)
(***************************************************************************)
EXTENDS Naturals, FiniteSets

CONSTANTS Queues,       \* daemon queues; a queue also names its own mpd_chain
          Items,        \* linkages that clients send
          RootKinds,    \* mpd_kind of the queues that have no target
          Target,       \* mpd_target of every nested queue
          Home,         \* the queue an item is sent to
          Cancelable,   \* the queues whose owner may cancel them
          CancelBusy,   \* use: a nested queue may be canceled while it is busy
          MaxSends      \* bound: how often an item is sent

Nested == DOMAIN Target

ASSUME DaemonAssumption ==
    /\ Items \cap Queues = {}
    /\ RootKinds \subseteq {"THREAD", "THREAD_CALL"}
    /\ Nested \subseteq Queues /\ Target \in [Nested -> Queues]
    /\ Home \in [Items -> Queues]
    /\ Cancelable \subseteq Queues
    /\ MaxSends \in Nat

ASSUME CancelAssumption == CancelBusy \in BOOLEAN

VARIABLES kind,     \* mpd_kind of every queue, set by its init function
          state,    \* mpd_state: a set of "DRAINING", "WAKEUP", "CANCELED"
          queued,   \* mpd_queue: the elements on every queue
          batch,    \* what the drain of a queue dequeued and has not invoked
          dpc,      \* where the drain of a queue is
          wait,     \* the queue's thread is in assert_wait((event_t)dq)
          call,     \* mpd_call: a set of "PENDING", "RUNNING", "RESCHEDULE"
          pc,       \* where the sender of an item, or the canceler of a queue, is
          obj,      \* what that sender or canceler works on
          cwait,    \* the canceler is in assert_wait(&dq->mpd_state)
          sends     \* how often every item was sent

drainVars == <<batch, dpc>>
agentVars == <<kind, pc, obj, cwait, sends>>
vars == <<kind, state, queued, batch, dpc, wait, call, pc, obj, cwait, sends>>

Elements == Items \cup Nested       \* what can be on a queue
Agents == Items \cup Queues         \* senders and cancelers

\* The queue an element is enqueued onto.
Dest(x) == IF x \in Items THEN Home[x] ELSE Target[x]

\* The element is on its queue or in a batch that is being drained.
Enqueued(x) == x \in queued[Dest(x)] \cup batch[Dest(x)]

Init ==
    /\ kind \in { k \in [Queues -> RootKinds \cup {"NESTED"}] :
                   \A q \in Queues : k[q] = "NESTED" <=> q \in Nested }
    /\ state = [q \in Queues |-> {}]
    /\ queued = [q \in Queues |-> {}]
    /\ batch = [q \in Queues |-> {}]
    /\ dpc = [q \in Queues |-> "parked"]
    /\ wait = [q \in Queues |-> kind[q] = "THREAD"]
    /\ call = [q \in Queues |-> {}]
    /\ pc = [a \in Agents |-> "idle"]
    /\ obj = [a \in Agents |-> a]
    /\ cwait = [q \in Queues |-> FALSE]
    /\ sends = [i \in Items |-> 0]
-----------------------------------------------------------------------------
(* mpsc_daemon_enqueue.  The sender of item i is agent i; the canceler of  *)
(* a queue runs the same code when it wakes a nested queue up.             *)

\* Where an agent goes on when the enqueue or wakeup it called returns.
Return(a) == IF a \in Items THEN "idle" ELSE "block"

\* A client sends an item it owns, and none after the queue's cancelation.
mpsc_daemon_enqueue(i) ==
    /\ pc[i] = "idle" /\ ~Enqueued(i) /\ sends[i] < MaxSends
    /\ pc[Home[i]] = "idle"
    /\ sends' = [sends EXCEPT ![i] = @ + 1]
    /\ pc' = [pc EXCEPT ![i] = "append"]
    /\ obj' = [obj EXCEPT ![i] = i]
    /\ UNCHANGED <<kind, state, queued, drainVars, wait, call, cwait>>

\* mpsc_queue_append: only the one that finds the queue empty goes on.  The
\* caller owns the element: ChainEnqueuedOnce shows that this guard never blocks
\* unless busy queues are canceled, and then a second link would break the list,
\* which is where the model stops.
enqueue_append(a) ==
    LET q == Dest(obj[a]) IN
    /\ pc[a] = "append" /\ ~Enqueued(obj[a])
    /\ queued' = [queued EXCEPT ![q] = @ \cup {obj[a]}]
    /\ pc' = [pc EXCEPT ![a] = IF queued[q] = {} THEN "or_wakeup" ELSE Return(a)]
    /\ obj' = [obj EXCEPT ![a] = q]
    /\ UNCHANGED <<kind, state, drainVars, wait, call, cwait, sends>>

\* Mutant: a drain that is under way is not noticed.
enqueue_or_wakeup_draining(a) ==
    LET q == obj[a] IN
    /\ pc[a] = "or_wakeup"
    /\ state' = [state EXCEPT ![q] = @ \cup {"WAKEUP"}]
    /\ pc' = [pc EXCEPT ![a] = IF "WAKEUP" \notin state[q] THEN "wakeup" ELSE Return(a)]
    /\ UNCHANGED <<kind, queued, drainVars, wait, call, obj, cwait, sends>>

\* os_atomic_or_orig(WAKEUP): wake the queue up unless someone already did,
\* or a drain is under way that will look at the bit when it ends.
enqueue_or_wakeup(a) ==
    LET q == obj[a] IN
    /\ pc[a] = "or_wakeup"
    /\ state' = [state EXCEPT ![q] = @ \cup {"WAKEUP"}]
    /\ pc' = [pc EXCEPT ![a] = IF state[q] \cap {"DRAINING", "WAKEUP"} = {}
                               THEN "wakeup" ELSE Return(a)]
    /\ UNCHANGED <<kind, queued, drainVars, wait, call, obj, cwait, sends>>
-----------------------------------------------------------------------------
(* _mpsc_daemon_queue_wakeup, by kind.                                     *)

\* thread_call_enter on a THREAD_CALL_ONCE call.
thread_call_enter(c) ==
    IF "PENDING" \in c THEN c
    ELSE IF "RUNNING" \in c THEN c \cup {"RESCHEDULE"} ELSE {"PENDING"}

queue_thread_wakeup(a) ==
    /\ pc[a] = "wakeup" /\ kind[obj[a]] = "THREAD"
    /\ wait' = [wait EXCEPT ![obj[a]] = FALSE]
    /\ pc' = [pc EXCEPT ![a] = Return(a)]
    /\ UNCHANGED <<kind, state, queued, drainVars, call, obj, cwait, sends>>

queue_thread_call_wakeup(a) ==
    /\ pc[a] = "wakeup" /\ kind[obj[a]] = "THREAD_CALL"
    /\ call' = [call EXCEPT ![obj[a]] = thread_call_enter(@)]
    /\ pc' = [pc EXCEPT ![a] = Return(a)]
    /\ UNCHANGED <<kind, state, queued, drainVars, wait, obj, cwait, sends>>

\* A nested queue is woken up by enqueuing its mpd_chain onto its target.
daemon_queue_nested_wakeup(a) ==
    /\ pc[a] = "wakeup" /\ kind[obj[a]] = "NESTED"
    /\ pc' = [pc EXCEPT ![a] = "append"]
    /\ UNCHANGED <<kind, state, queued, drainVars, wait, call, obj, cwait, sends>>
-----------------------------------------------------------------------------
(* _mpsc_daemon_queue_drain.                                               *)

Goto(q, label) == dpc' = [dpc EXCEPT ![q] = label]

\* _mpsc_queue_thread_continue: the thread blocked and its wait was cleared.
thread_continue(q) ==
    /\ kind[q] = "THREAD" /\ dpc[q] = "parked" /\ ~wait[q]
    /\ Goto(q, "xor")
    /\ UNCHANGED <<state, queued, batch, wait, call, agentVars>>

\* _mpsc_queue_thread_call_drain: a thread call thread takes the call.
thread_call_drain(q) ==
    /\ kind[q] = "THREAD_CALL" /\ dpc[q] = "parked" /\ "PENDING" \in call[q]
    /\ call' = [call EXCEPT ![q] = {"RUNNING"}]
    /\ Goto(q, "xor")
    /\ UNCHANGED <<state, queued, batch, wait, agentVars>>

\* os_atomic_xor(DRAINING | WAKEUP): both bits are inverted.
drain_xor(q) ==
    LET bits == {"DRAINING", "WAKEUP"}
        st == (state[q] \ bits) \cup (bits \ state[q]) IN
    /\ dpc[q] = "xor"
    /\ state' = [state EXCEPT ![q] = st]
    /\ Goto(q, IF "WAKEUP" \in st THEN "andnot_wakeup" ELSE "dequeue")
    /\ UNCHANGED <<queued, batch, wait, call, agentVars>>

\* The xor set WAKEUP because only CANCELED was set: clear it.
drain_andnot_wakeup(q) ==
    /\ dpc[q] = "andnot_wakeup"
    /\ state' = [state EXCEPT ![q] = @ \ {"WAKEUP"}]
    /\ Goto(q, "dequeue")
    /\ UNCHANGED <<queued, batch, wait, call, agentVars>>

\* mpsc_queue_dequeue_batch; a thread that finds nothing gets ready to wait.
drain_dequeue_batch(q) ==
    /\ dpc[q] = "dequeue"
    /\ batch' = [batch EXCEPT ![q] = queued[q]]
    /\ queued' = [queued EXCEPT ![q] = {}]
    /\ Goto(q, IF queued[q] # {} THEN "batch"
               ELSE IF kind[q] = "THREAD" THEN "assert_wait" ELSE "andnot_draining")
    /\ UNCHANGED <<state, wait, call, agentVars>>

\* The foreach marks an element and invokes it: a client's callback runs, or
\* mpsc_daemon_queue_nested_invoke drains the nested queue inside this drain.
drain_invoke(q, x) ==
    /\ dpc[q] = "batch" /\ x \in batch[q]
    /\ batch' = [batch EXCEPT ![q] = @ \ {x}]
    /\ IF x \in Nested THEN dpc' = [dpc EXCEPT ![q] = "nested", ![x] = "xor"]
                       ELSE UNCHANGED dpc
    /\ UNCHANGED <<state, queued, wait, call, agentVars>>

drain_batch_done(q) ==
    /\ dpc[q] = "batch" /\ batch[q] = {}
    /\ Goto(q, "dequeue")
    /\ UNCHANGED <<state, queued, batch, wait, call, agentVars>>

drain_assert_wait(q) ==
    /\ dpc[q] = "assert_wait"
    /\ wait' = [wait EXCEPT ![q] = TRUE]
    /\ Goto(q, "andnot_draining")
    /\ UNCHANGED <<state, queued, batch, call, agentVars>>

\* Mutant: a wakeup that came during the drain is not looked at.
drain_andnot_draining_ends(q) ==
    LET st == state[q] \ {"DRAINING"} IN
    /\ dpc[q] = "andnot_draining"
    /\ state' = [state EXCEPT ![q] = st]
    /\ Goto(q, IF "CANCELED" \in st THEN "canceled" ELSE "return")
    /\ UNCHANGED <<queued, batch, wait, call, agentVars>>

\* os_atomic_andnot(DRAINING), and what its new value says.
drain_andnot_draining(q) ==
    LET st == state[q] \ {"DRAINING"} IN
    /\ dpc[q] = "andnot_draining"
    /\ state' = [state EXCEPT ![q] = st]
    /\ Goto(q, IF "WAKEUP" \in st THEN "again"
               ELSE IF "CANCELED" \in st THEN "canceled" ELSE "return")
    /\ UNCHANGED <<queued, batch, wait, call, agentVars>>

\* clear_wait(self) if this is the queue's thread, and goto again.
drain_again(q) ==
    /\ dpc[q] = "again"
    /\ wait' = [wait EXCEPT ![q] = FALSE]
    /\ Goto(q, "xor")
    /\ UNCHANGED <<state, queued, batch, call, agentVars>>

\* Mutant: the canceler is not woken up.
drain_canceled_silent(q) ==
    /\ dpc[q] = "canceled"
    /\ wait' = [wait EXCEPT ![q] = FALSE]
    /\ Goto(q, IF kind[q] = "THREAD" THEN "terminated" ELSE "return")
    /\ UNCHANGED <<kind, state, queued, batch, call, pc, obj, cwait, sends>>

\* thread_wakeup(&dq->mpd_state); the queue's thread terminates itself.
drain_canceled(q) ==
    /\ dpc[q] = "canceled"
    /\ cwait' = [cwait EXCEPT ![q] = FALSE]
    /\ wait' = [wait EXCEPT ![q] = FALSE]
    /\ Goto(q, IF kind[q] = "THREAD" THEN "terminated" ELSE "return")
    /\ UNCHANGED <<kind, state, queued, batch, call, pc, obj, sends>>

\* The thread blocks, the call finishes, or the target's drain goes on.
drain_return(q) ==
    /\ dpc[q] = "return"
    /\ dpc' = [p \in Queues |->
                 IF p = q THEN "parked"
                 ELSE IF q \in Nested /\ p = Target[q] THEN "batch" ELSE dpc[p]]
    /\ call' = [call EXCEPT ![q] = IF "RESCHEDULE" \in @ THEN {"PENDING"} ELSE {}]
    /\ UNCHANGED <<state, queued, batch, wait, agentVars>>
-----------------------------------------------------------------------------
(* mpsc_daemon_queue_cancel_and_wait.                                      *)

\* The owner cancels once, when no enqueue is under way and every queue that
\* targets this one is torn down.  Unless CancelBusy, it cancels a nested queue
\* only when that is idle: a use, not a check that the code makes.
cancel_assert_wait(q) ==
    /\ q \in Cancelable /\ pc[q] = "idle"
    /\ \A i \in Items : Home[i] = q => pc[i] = "idle"
    /\ \A c \in Nested : Target[c] = q => pc[c] = "done"
    /\ CancelBusy \/ q \notin Nested \/ state[q] = {}
    /\ cwait' = [cwait EXCEPT ![q] = TRUE]
    /\ pc' = [pc EXCEPT ![q] = "or_canceled"]
    /\ UNCHANGED <<kind, state, queued, drainVars, wait, call, obj, sends>>

\* Mutant: the canceler clears its wait whatever the queue's state.
cancel_or_canceled_nowait(q) ==
    /\ pc[q] = "or_canceled"
    /\ state' = [state EXCEPT ![q] = @ \cup {"CANCELED"}]
    /\ cwait' = [cwait EXCEPT ![q] = FALSE]
    /\ pc' = [pc EXCEPT ![q] = IF kind[q] = "NESTED" THEN "block" ELSE "wakeup"]
    /\ obj' = [obj EXCEPT ![q] = q]
    /\ UNCHANGED <<kind, queued, drainVars, wait, call, sends>>

\* os_atomic_or_orig(CANCELED): an idle nested queue needs no last drain, and
\* the canceler clears its wait; any other queue is woken up, a busy nested
\* queue by one more enqueue of its mpd_chain.
cancel_or_canceled(q) ==
    LET idle == kind[q] = "NESTED" /\ state[q] = {} IN
    /\ pc[q] = "or_canceled"
    /\ state' = [state EXCEPT ![q] = @ \cup {"CANCELED"}]
    /\ cwait' = [cwait EXCEPT ![q] = @ /\ ~idle]
    /\ pc' = [pc EXCEPT ![q] = IF idle THEN "block" ELSE "wakeup"]
    /\ obj' = [obj EXCEPT ![q] = q]
    /\ UNCHANGED <<kind, queued, drainVars, wait, call, sends>>

\* thread_block, then thread_call_cancel_wait starts by canceling the call.
cancel_block(q) ==
    /\ pc[q] = "block" /\ ~cwait[q]
    /\ call' = [call EXCEPT ![q] = @ \ {"PENDING", "RESCHEDULE"}]
    /\ pc' = [pc EXCEPT ![q] = IF kind[q] = "THREAD_CALL" THEN "call_wait" ELSE "done"]
    /\ UNCHANGED <<kind, state, queued, drainVars, wait, obj, cwait, sends>>

\* thread_call_cancel_wait waits for the call, which is then freed.
cancel_call_wait(q) ==
    /\ pc[q] = "call_wait" /\ "RUNNING" \notin call[q]
    /\ pc' = [pc EXCEPT ![q] = "done"]
    /\ UNCHANGED <<kind, state, queued, drainVars, wait, call, obj, cwait, sends>>
-----------------------------------------------------------------------------
enqueue_step(a) ==
    \/ enqueue_append(a) \/ enqueue_or_wakeup(a)
    \/ queue_thread_wakeup(a) \/ queue_thread_call_wakeup(a) \/ daemon_queue_nested_wakeup(a)

drain_step(q) ==
    \/ thread_continue(q) \/ thread_call_drain(q)
    \/ drain_xor(q) \/ drain_andnot_wakeup(q) \/ drain_dequeue_batch(q)
    \/ \E x \in Elements : drain_invoke(q, x)
    \/ drain_batch_done(q) \/ drain_assert_wait(q) \/ drain_andnot_draining(q)
    \/ drain_again(q) \/ drain_canceled(q) \/ drain_return(q)

cancel_step(q) == cancel_or_canceled(q) \/ cancel_block(q) \/ cancel_call_wait(q)

Next ==
    \/ \E i \in Items : mpsc_daemon_enqueue(i)
    \/ \E a \in Agents : enqueue_step(a)
    \/ \E q \in Queues : drain_step(q) \/ cancel_assert_wait(q) \/ cancel_step(q)

Spec == Init /\ [][Next]_vars

\* Threads that can run are run; nothing makes a client send or cancel.
FairSpec ==
    /\ Spec
    /\ \A a \in Agents : WF_vars(enqueue_step(a))
    /\ \A q \in Queues : WF_vars(drain_step(q)) /\ WF_vars(cancel_step(q))
-----------------------------------------------------------------------------
(* Properties.                                                             *)

\* Types; only a queue's own thread waits on it, and only a queue with a
\* thread call enters one.
TypeOK ==
    /\ kind \in [Queues -> RootKinds \cup {"NESTED"}]
    /\ state \in [Queues -> SUBSET {"DRAINING", "WAKEUP", "CANCELED"}]
    /\ queued \in [Queues -> SUBSET Elements]
    /\ batch \in [Queues -> SUBSET Elements]
    /\ dpc \in [Queues -> {"parked", "xor", "andnot_wakeup", "dequeue", "batch",
                           "nested", "assert_wait", "andnot_draining", "again",
                           "canceled", "return", "terminated"}]
    /\ wait \in [Queues -> BOOLEAN]
    /\ call \in [Queues -> SUBSET {"PENDING", "RUNNING", "RESCHEDULE"}]
    /\ pc \in [Agents -> {"idle", "append", "or_wakeup", "wakeup", "or_canceled",
                          "block", "call_wait", "done"}]
    /\ obj \in [Agents -> Elements \cup Queues]
    /\ cwait \in [Queues -> BOOLEAN]
    /\ sends \in [Items -> 0..MaxSends]
    /\ \A q \in Queues : /\ wait[q] => kind[q] = "THREAD"
                         /\ call[q] # {} => kind[q] = "THREAD_CALL"

\* The assertions of _mpsc_daemon_queue_drain: a drain starts on a queue that
\* is not draining (so no two drains overlap) and only for a wakeup or a
\* cancelation, and the xor leaves WAKEUP set only on a canceled queue.
DrainAssertions ==
    \A q \in Queues :
      /\ dpc[q] = "xor" =>
           "DRAINING" \notin state[q] /\ state[q] \cap {"WAKEUP", "CANCELED"} # {}
      /\ dpc[q] = "andnot_wakeup" => "CANCELED" \in state[q]

\* mpd_chain is enqueued onto the target only when it is not there already:
\* the wakeup of a nested queue never links the chain into the list twice.  Of
\* uses without CancelBusy; with it the canceler's wakeup does.
ChainEnqueuedOnce ==
    \A a \in Agents : pc[a] = "append" => ~Enqueued(obj[a])

\* The drain of q is before the last look it takes at mpd_state.
Draining(q) == dpc[q] \in {"xor", "andnot_wakeup", "dequeue", "batch", "nested",
                           "assert_wait", "andnot_draining", "again"}

\* Something will start a drain of q: an agent about to, the thread woken,
\* the call entered, or mpd_chain on its way through the target.
Signalled(q) ==
    \/ \E a \in Agents : pc[a] \in {"wakeup", "append"} /\ obj[a] = q
    \/ kind[q] = "THREAD" /\ ~wait[q]
    \/ kind[q] = "THREAD_CALL" /\ call[q] \cap {"PENDING", "RESCHEDULE"} # {}
    \/ kind[q] = "NESTED" /\ Enqueued(q)

\* No wakeup is lost: elements on a queue are about to be announced, are
\* announced in WAKEUP, or will be seen by the drain's next dequeue; and an
\* announced queue is being drained or something is going to drain it.
NoLostWakeup ==
    \A q \in Queues :
      /\ queued[q] # {} =>
           \/ "WAKEUP" \in state[q]
           \/ \E a \in Agents : pc[a] = "or_wakeup" /\ obj[a] = q
           \/ dpc[q] \in {"dequeue", "batch", "nested"}
      /\ "WAKEUP" \in state[q] => Draining(q) \/ Signalled(q)

\* When mpsc_daemon_queue_cancel_and_wait returns, the object that owns the
\* queue can be destroyed: everything sent was invoked, no drain touches the
\* queue any more or is going to, and its mpd_chain is on no queue.  It holds
\* of uses without CancelBusy.  A nested queue that is canceled in the middle of
\* a drain has its chain enqueued by the canceler, which the end of that same
\* drain wakes up.
CancelQuiescent ==
    \A q \in Queues : pc[q] = "done" =>
      /\ queued[q] = {} /\ batch[q] = {}
      /\ dpc[q] \in {"parked", "return", "terminated"}
      /\ call[q] = {}
      /\ q \in Nested => ~Enqueued(q)

\* Everything that is sent is eventually invoked.
Delivered == \A i \in Items : pc[i] = "append" ~> pc[i] = "idle" /\ ~Enqueued(i)

\* A cancelation returns.
CancelReturns == \A q \in Queues : pc[q] = "or_canceled" ~> pc[q] = "done"
=============================================================================
