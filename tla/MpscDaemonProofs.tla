-------------------------- MODULE MpscDaemonProofs --------------------------
(***************************************************************************)
(* Proofs for MpscDaemon, for any forest of daemon queues, any items and   *)
(* any number of sends.                                                    *)
(*                                                                         *)
(* What is worth saying of a queue that is not canceled is that it has one *)
(* token: a queue at rest whose WAKEUP bit is set is about to be woken up  *)
(* by exactly one agent, or has been woken up, and not both.  A second     *)
(* token would start a drain of a queue that has nothing to say, or link   *)
(* mpd_chain twice.                                                        *)
(***************************************************************************)
EXTENDS MpscDaemon, TLAPS

\* The agent is in mpsc_daemon_enqueue or in a wakeup.
Working(a) == pc[a] \in {"append", "or_wakeup", "wakeup"}

\* The agent is going to wake the queue up.
Wakes(a, q) == pc[a] \in {"wakeup", "append"} /\ obj[a] = q

\* A set of queues that contains the queues that target one of its members.
DownClosed(D) == \A c \in Nested : Target[c] \in D => c \in D

KindInv ==
    \A q \in Queues :
       /\ kind[q] \in {"THREAD", "THREAD_CALL", "NESTED"}
       /\ kind[q] = "NESTED" <=> q \in Nested

\* Where agents are, and who may be at work when a queue is canceled.
AgentInv ==
    /\ \A a \in Agents :
         /\ obj[a] \in Items => obj[a] = a
         /\ pc[a] = "append" => obj[a] \in Elements
         /\ pc[a] \in {"or_wakeup", "wakeup"} => obj[a] \in Queues
         /\ a \in Queues \ Nested => obj[a] = a
    /\ \A i \in Items : /\ pc[i] \in {"idle", "append", "or_wakeup", "wakeup"}
                        /\ pc[i] # "idle" => pc[Home[i]] = "idle"
    /\ \A c \in Nested : pc[Target[c]] # "idle" => pc[c] = "done"

\* An agent that left the queue or item it started from is on the way up from
\* there.
ReachInv ==
    \A a \in Agents : Working(a) /\ obj[a] # a =>
       \A D \in SUBSET Queues : DownClosed(D) /\ obj[a] \in D => Dest(a) \in D

\* What is on a queue belongs there, once; and an item that is about to be
\* appended is on none.
ElementInv ==
    /\ \A q \in Queues :
         /\ \A x \in queued[q] \cup batch[q] : Dest(x) = q
         /\ queued[q] \cap batch[q] = {}
         /\ dpc[q] \notin {"batch", "nested"} => batch[q] = {}
    /\ \A i \in Items : pc[i] = "append" /\ obj[i] = i => ~Enqueued(i)

\* mpd_state during a drain.
DrainInv ==
    \A q \in Queues :
       /\ "DRAINING" \in state[q] <=>
            dpc[q] \in {"andnot_wakeup", "dequeue", "batch", "nested", "assert_wait",
                        "andnot_draining"}
       /\ dpc[q] = "xor" => state[q] \cap {"WAKEUP", "CANCELED"} # {}
       /\ dpc[q] = "andnot_wakeup" => "WAKEUP" \in state[q] /\ "CANCELED" \in state[q]
       /\ dpc[q] = "again" => "WAKEUP" \in state[q]
       /\ dpc[q] \in {"canceled", "terminated"} => "CANCELED" \in state[q] /\ "WAKEUP" \notin state[q]
       /\ dpc[q] \in {"assert_wait", "terminated"} => kind[q] = "THREAD"

\* The call runs as long as the drain that it does, and a nested drain runs
\* inside the one of its target.
NestInv ==
    /\ \A q \in Queues :
         kind[q] = "THREAD_CALL" => /\ "RUNNING" \in call[q] <=> dpc[q] # "parked"
                                    /\ "RESCHEDULE" \in call[q] => "RUNNING" \in call[q]
                                    /\ "PENDING" \in call[q] => "RUNNING" \notin call[q]
    /\ \A q \in Nested : dpc[q] # "parked" => dpc[Target[q]] = "nested"
    /\ \A p, q \in Nested :
         dpc[p] # "parked" /\ dpc[q] # "parked" /\ Target[p] = Target[q] => p = q

\* The queue has been woken up.
Armed(q) ==
    \/ kind[q] = "THREAD" /\ ~wait[q] /\ dpc[q] \in {"parked", "return"}
    \/ kind[q] = "THREAD_CALL" /\ call[q] \cap {"PENDING", "RESCHEDULE"} # {}
    \/ kind[q] = "NESTED" /\ Enqueued(q)

\* The token of a queue that is not canceled: WAKEUP is set at rest when
\* something is going to start a drain, which one agent or the queue does; and
\* of a canceled queue.
Token(q) ==
    /\ "CANCELED" \notin state[q] =>
         /\ dpc[q] \in {"parked", "return"} =>
              ("WAKEUP" \in state[q] <=> Armed(q) \/ \E a \in Agents : Wakes(a, q))
         /\ dpc[q] \notin {"parked", "return"} => ~Armed(q) /\ ~\E a \in Agents : Wakes(a, q)
         /\ Armed(q) => ~\E a \in Agents : Wakes(a, q)
         /\ \A a, b \in Agents : Wakes(a, q) /\ Wakes(b, q) => a = b
         /\ kind[q] = "THREAD" /\ dpc[q] = "andnot_draining" => wait[q]
    /\ "CANCELED" \in state[q] /\ "WAKEUP" \in state[q] /\ dpc[q] \in {"parked", "return"} =>
         Armed(q) \/ Wakes(q, q)

TokenInv == \A q \in Queues : Token(q)

\* The elements of a queue are announced.
Announced(q) ==
    queued[q] # {} =>
       \/ "WAKEUP" \in state[q]
       \/ \E a \in Agents : pc[a] = "or_wakeup" /\ obj[a] = q
       \/ dpc[q] \in {"dequeue", "batch", "nested"}

QueuedInv == \A q \in Queues : Announced(q)

\* The cancelation of a queue: a nested one was idle; another one is drained a
\* last time before the canceler goes on.
Cancelation(q) ==
    /\ "CANCELED" \in state[q] <=> pc[q] \notin {"idle", "or_canceled"}
    /\ pc[q] \notin {"append", "or_wakeup"}
    /\ pc[q] = "or_canceled" => cwait[q]
    /\ pc[q] # "idle" /\ q \in Nested =>
         /\ state[q] \subseteq {"CANCELED"} /\ ~Enqueued(q) /\ queued[q] = {}
         /\ dpc[q] \in {"parked", "return"}
         /\ pc[q] \in {"or_canceled", "block", "done"}
    /\ "CANCELED" \in state[q] /\ ~cwait[q] =>
         /\ queued[q] = {}
         /\ "WAKEUP" \in state[q] => dpc[q] = "andnot_wakeup"
         /\ dpc[q] \notin {"batch", "nested", "again"}
         /\ kind[q] = "THREAD" => dpc[q] = "terminated"
    /\ pc[q] \in {"call_wait", "done"} => ~cwait[q] /\ call[q] \subseteq {"RUNNING"}
    /\ pc[q] = "done" => call[q] = {}
    /\ pc[q] = "call_wait" => kind[q] = "THREAD_CALL"

CancelInv == \A q \in Queues : Cancelation(q)

DaemonInv ==
    /\ TypeOK /\ KindInv /\ AgentInv /\ ReachInv /\ ElementInv /\ DrainInv /\ NestInv
    /\ TokenInv /\ QueuedInv /\ CancelInv
-----------------------------------------------------------------------------
(* Types.                                                                  *)

\* Elements are enqueued onto queues, and the agents are the senders and the
\* cancelers.
LEMMA Destinations ==
    /\ Nested \subseteq Queues /\ Elements \subseteq Agents
    /\ \A x \in Elements : Dest(x) \in Queues
    /\ \A i \in Items : i \notin Queues /\ Dest(i) = Home[i]
    /\ \A c \in Nested : c \notin Items /\ Dest(c) = Target[c]
  BY DaemonAssumption DEF Dest, Elements, Agents

\* Every step keeps the types and the kinds.
LEMMA TypeStep ==
    ASSUME TypeOK, KindInv, AgentInv, DrainInv, [Next]_vars
    PROVE  TypeOK' /\ KindInv'
<1> USE DaemonAssumption, Destinations DEF TypeOK
<1>0. KindInv'
  <2>1. UNCHANGED kind
    BY DEF Next, enqueue_step, drain_step, cancel_step, mpsc_daemon_enqueue, enqueue_append,
       enqueue_or_wakeup, queue_thread_wakeup, queue_thread_call_wakeup,
       daemon_queue_nested_wakeup, thread_continue, thread_call_drain, drain_xor,
       drain_andnot_wakeup, drain_dequeue_batch, drain_invoke, drain_batch_done,
       drain_assert_wait, drain_andnot_draining, drain_again, drain_canceled, drain_return,
       cancel_assert_wait, cancel_or_canceled, cancel_block, cancel_call_wait, agentVars, vars
  <2> QED
    BY <2>1 DEF KindInv
<1>1. ASSUME NEW i \in Items, mpsc_daemon_enqueue(i) PROVE TypeOK'
  <2>1. sends' \in [Items -> 0 .. MaxSends]
    BY <1>1 DEF mpsc_daemon_enqueue
  <2> QED
    BY <1>1, <2>1 DEF mpsc_daemon_enqueue, drainVars, Agents, Elements
<1>2. ASSUME NEW a \in Agents, enqueue_append(a) PROVE TypeOK'
  BY <1>2 DEF enqueue_append, Return, AgentInv, drainVars
<1>3. ASSUME NEW a \in Agents, enqueue_or_wakeup(a) PROVE TypeOK'
  BY <1>3 DEF enqueue_or_wakeup, Return, drainVars
<1>4. ASSUME NEW a \in Agents, queue_thread_wakeup(a) PROVE TypeOK'
  BY <1>4 DEF queue_thread_wakeup, Return, drainVars, AgentInv
<1>5. ASSUME NEW a \in Agents, queue_thread_call_wakeup(a) PROVE TypeOK'
  BY <1>5 DEF queue_thread_call_wakeup, Return, drainVars, thread_call_enter, AgentInv
<1>6. ASSUME NEW a \in Agents, daemon_queue_nested_wakeup(a) PROVE TypeOK'
  BY <1>6 DEF daemon_queue_nested_wakeup, drainVars
<1>7. ASSUME NEW q \in Queues, thread_continue(q) PROVE TypeOK'
  BY <1>7 DEF thread_continue, Goto, agentVars
<1>8. ASSUME NEW q \in Queues, thread_call_drain(q) PROVE TypeOK'
  BY <1>8 DEF thread_call_drain, Goto, agentVars
<1>9. ASSUME NEW q \in Queues, drain_xor(q) PROVE TypeOK'
  BY <1>9 DEF drain_xor, Goto, agentVars
<1>10. ASSUME NEW q \in Queues, drain_andnot_wakeup(q) PROVE TypeOK'
  BY <1>10 DEF drain_andnot_wakeup, Goto, agentVars
<1>11. ASSUME NEW q \in Queues, drain_dequeue_batch(q) PROVE TypeOK'
  BY <1>11 DEF drain_dequeue_batch, Goto, agentVars
<1>12. ASSUME NEW q \in Queues, drain_batch_done(q) PROVE TypeOK'
  BY <1>12 DEF drain_batch_done, Goto, agentVars
<1>13. ASSUME NEW q \in Queues, drain_assert_wait(q) PROVE TypeOK'
  BY <1>13 DEF drain_assert_wait, Goto, agentVars, DrainInv
<1>14. ASSUME NEW q \in Queues, drain_andnot_draining(q) PROVE TypeOK'
  BY <1>14 DEF drain_andnot_draining, Goto, agentVars
<1>15. ASSUME NEW q \in Queues, drain_again(q) PROVE TypeOK'
  BY <1>15 DEF drain_again, Goto, agentVars
<1>16. ASSUME NEW q \in Queues, drain_canceled(q) PROVE TypeOK'
  BY <1>16 DEF drain_canceled, Goto
<1>17. ASSUME NEW q \in Queues, drain_return(q) PROVE TypeOK'
  BY <1>17 DEF drain_return, agentVars
<1>18. ASSUME NEW q \in Queues, NEW x \in Elements, drain_invoke(q, x) PROVE TypeOK'
  <2>1. CASE x \in Nested
    BY <1>18, <2>1 DEF drain_invoke, agentVars
  <2>2. CASE x \notin Nested
    BY <1>18, <2>2 DEF drain_invoke, agentVars
  <2> QED
    BY <2>1, <2>2
<1>19. ASSUME NEW q \in Queues, cancel_assert_wait(q) PROVE TypeOK'
  BY <1>19 DEF cancel_assert_wait, drainVars, Agents
<1>20. ASSUME NEW q \in Queues, cancel_or_canceled(q) PROVE TypeOK'
  BY <1>20 DEF cancel_or_canceled, drainVars, Agents
<1>21. ASSUME NEW q \in Queues, cancel_block(q) PROVE TypeOK'
  BY <1>21 DEF cancel_block, drainVars, Agents
<1>22. ASSUME NEW q \in Queues, cancel_call_wait(q) PROVE TypeOK'
  BY <1>22 DEF cancel_call_wait, drainVars, Agents
<1>23. CASE UNCHANGED vars
  BY <1>0, <1>23 DEF vars
<1> QED
  BY <1>0, <1>1, <1>2, <1>3, <1>4, <1>5, <1>6, <1>7, <1>8, <1>9, <1>10, <1>11, <1>12,
     <1>13, <1>14, <1>15, <1>16, <1>17, <1>18, <1>19, <1>20, <1>21, <1>22, <1>23
  DEF Next, enqueue_step, drain_step, cancel_step
-----------------------------------------------------------------------------
(* Agents.                                                                 *)

\* Nobody but its canceler works on a queue that nobody sends to and whose
\* nested queues are torn down: with the queues whose cancelation has begun it
\* is in a set that contains the queues that target its members.
LEMMA Quiet ==
    ASSUME TypeOK, AgentInv, ReachInv, NEW q \in Queues,
           \A i \in Items : Home[i] = q => pc[i] = "idle",
           \A c \in Nested : Target[c] = q => pc[c] = "done",
           NEW a \in Agents, Working(a)
    PROVE  /\ obj[a] = q => a = q
           /\ pc[a] = "append" => Dest(obj[a]) # q
<1> DEFINE D == { p \in Queues : pc[p] # "idle" \/ p = q }
<1>1. D \in SUBSET Queues /\ DownClosed(D)
  BY Destinations DEF AgentInv, DownClosed
<1>2. ASSUME obj[a] \in D PROVE a = obj[a]
  <2> SUFFICES ASSUME obj[a] # a PROVE FALSE
    OBVIOUS
  <2>1. Dest(a) \in D
    BY <1>1, <1>2 DEF ReachInv
  <2>2. a \in Items \/ a \in Nested
    BY DEF AgentInv, Agents
  <2> QED
    BY <2>1, <2>2, Destinations DEF AgentInv, Working
<1>3. obj[a] = q => a = q
  BY <1>2
<1>4. ASSUME pc[a] = "append", Dest(obj[a]) = q PROVE FALSE
  <2>1. CASE obj[a] \in Items
    BY <1>4, <2>1, Destinations DEF AgentInv
  <2>2. CASE obj[a] \in Nested
    <3>1. obj[a] \in D /\ pc[obj[a]] = "done"
      BY <1>4, <2>2, Destinations DEF AgentInv
    <3> QED
      BY <1>2, <1>4, <3>1
  <2> QED
    BY <1>4, <2>1, <2>2 DEF AgentInv, Elements
<1> QED
  BY <1>3, <1>4

\* Nobody but its canceler works on a queue whose cancelation has begun.
LEMMA QuietCanceled ==
    ASSUME TypeOK, AgentInv, ReachInv, NEW q \in Queues, pc[q] # "idle",
           NEW a \in Agents, Working(a)
    PROVE  /\ obj[a] = q => a = q
           /\ pc[a] = "append" => Dest(obj[a]) # q
  BY Quiet DEF AgentInv

\* Every step that moves an agent.
LEMMA AgentStep ==
    ASSUME TypeOK, KindInv, AgentInv, [Next]_vars
    PROVE  AgentInv'
<1> USE DaemonAssumption, Destinations DEF TypeOK, AgentInv
<1>1. ASSUME NEW i \in Items, mpsc_daemon_enqueue(i) PROVE AgentInv'
  BY <1>1 DEF mpsc_daemon_enqueue, Agents, Elements
<1>2. ASSUME NEW a \in Agents, enqueue_append(a) PROVE AgentInv'
  BY <1>2 DEF enqueue_append, Return, Agents, Elements
<1>3. ASSUME NEW a \in Agents, enqueue_or_wakeup(a) PROVE AgentInv'
  BY <1>3 DEF enqueue_or_wakeup, Return, Agents
<1>4. ASSUME NEW a \in Agents, queue_thread_wakeup(a) PROVE AgentInv'
  BY <1>4 DEF queue_thread_wakeup, Return, Agents
<1>5. ASSUME NEW a \in Agents, queue_thread_call_wakeup(a) PROVE AgentInv'
  BY <1>5 DEF queue_thread_call_wakeup, Return, Agents
<1>6. ASSUME NEW a \in Agents, daemon_queue_nested_wakeup(a) PROVE AgentInv'
  BY <1>6 DEF daemon_queue_nested_wakeup, KindInv, Elements, Agents
<1>7. ASSUME NEW q \in Queues, cancel_assert_wait(q) PROVE AgentInv'
  BY <1>7 DEF cancel_assert_wait, Agents
<1>8. ASSUME NEW q \in Queues, cancel_or_canceled(q) PROVE AgentInv'
  BY <1>8 DEF cancel_or_canceled, Agents
<1>9. ASSUME NEW q \in Queues, cancel_block(q) PROVE AgentInv'
  BY <1>9 DEF cancel_block, Agents
<1>10. ASSUME NEW q \in Queues, cancel_call_wait(q) PROVE AgentInv'
  BY <1>10 DEF cancel_call_wait, Agents
<1>11. ASSUME NEW q \in Queues, drain_step(q) PROVE AgentInv'
  <2>1. UNCHANGED <<pc, obj>>
    BY <1>11 DEF drain_step, thread_continue, thread_call_drain, drain_xor,
       drain_andnot_wakeup,
       drain_dequeue_batch, drain_invoke, drain_batch_done, drain_assert_wait,
       drain_andnot_draining, drain_again, drain_canceled, drain_return, agentVars
  <2> QED
    BY <2>1
<1>12. CASE UNCHANGED vars
  BY <1>12 DEF vars
<1> QED
  BY <1>1, <1>2, <1>3, <1>4, <1>5, <1>6, <1>7, <1>8, <1>9, <1>10, <1>11, <1>12
  DEF Next, enqueue_step, cancel_step

\* An agent goes up from a queue to its target.
LEMMA ReachStep ==
    ASSUME TypeOK, AgentInv, ReachInv, [Next]_vars
    PROVE  ReachInv'
<1> SUFFICES ASSUME NEW b \in Agents, Working(b)', obj'[b] # b,
                    NEW D \in SUBSET Queues, DownClosed(D), obj'[b] \in D
             PROVE  Dest(b) \in D
  BY DEF ReachInv, DownClosed, Dest
<1>1. CASE Working(b) /\ obj'[b] = obj[b]
  BY <1>1 DEF ReachInv
<1>2. CASE enqueue_append(b)
  <2>1. pc[b] = "append" /\ obj'[b] = Dest(obj[b]) /\ obj[b] \in Elements
    BY <1>2 DEF enqueue_append, TypeOK, AgentInv
  <2>2. CASE obj[b] = b
    BY <2>1, <2>2
  <2>3. CASE obj[b] # b
    <3>1. obj[b] \in Nested /\ Target[obj[b]] \in D
      BY <2>1, <2>3, Destinations DEF AgentInv, Elements
    <3>2. obj[b] \in D /\ Working(b)
      BY <2>1, <3>1 DEF DownClosed, Working
    <3> QED
      BY <2>3, <3>2 DEF ReachInv
  <2> QED
    BY <2>2, <2>3
<1>3. CASE obj'[b] = b
  BY <1>3
<1>4. ASSUME NEW i \in Items, mpsc_daemon_enqueue(i) PROVE (Working(b) /\ obj'[b] = obj[b]) \/ obj'[b] = b
  BY <1>4 DEF mpsc_daemon_enqueue, TypeOK, Working, Agents
<1>5. ASSUME NEW a \in Agents, enqueue_step(a)
      PROVE  (Working(b) /\ obj'[b] = obj[b]) \/ enqueue_append(b)
  BY <1>5 DEF enqueue_step, enqueue_append, enqueue_or_wakeup, queue_thread_wakeup,
     queue_thread_call_wakeup, daemon_queue_nested_wakeup, TypeOK, Working
<1>6. ASSUME NEW q \in Queues, cancel_assert_wait(q) \/ cancel_step(q)
      PROVE  (Working(b) /\ obj'[b] = obj[b]) \/ obj'[b] = b
  BY <1>6 DEF cancel_step, cancel_assert_wait, cancel_or_canceled, cancel_block,
     cancel_call_wait,
     TypeOK, Working, Agents
<1>7. ASSUME NEW q \in Queues, drain_step(q) PROVE Working(b) /\ obj'[b] = obj[b]
  BY <1>7 DEF drain_step, thread_continue, thread_call_drain, drain_xor,
     drain_andnot_wakeup,
     drain_dequeue_batch, drain_invoke, drain_batch_done, drain_assert_wait,
     drain_andnot_draining, drain_again, drain_canceled, drain_return, agentVars, Working
<1>8. CASE UNCHANGED vars
  BY <1>1, <1>8 DEF vars, Working
<1> QED
  BY <1>1, <1>2, <1>3, <1>4, <1>5, <1>6, <1>7, <1>8 DEF Next
-----------------------------------------------------------------------------
(* What is on the queues, and the drains.                                  *)

\* An element goes to the queue that it belongs to, then to the batch, then away.
LEMMA ElementStep ==
    ASSUME TypeOK, KindInv, AgentInv, NestInv, ElementInv, [Next]_vars
    PROVE  ElementInv'
<1> USE DaemonAssumption, Destinations DEF TypeOK, AgentInv, ElementInv, Enqueued, Agents, Elements
<1>1. ASSUME NEW i \in Items, mpsc_daemon_enqueue(i) PROVE ElementInv'
  BY <1>1 DEF mpsc_daemon_enqueue, drainVars
<1>2. ASSUME NEW a \in Agents, enqueue_append(a) PROVE ElementInv'
  BY <1>2 DEF enqueue_append, drainVars, Return
<1>3. ASSUME NEW a \in Agents, enqueue_or_wakeup(a) PROVE ElementInv'
  BY <1>3 DEF enqueue_or_wakeup, drainVars, Return
<1>4. ASSUME NEW a \in Agents, queue_thread_wakeup(a) PROVE ElementInv'
  BY <1>4 DEF queue_thread_wakeup, drainVars, Return
<1>5. ASSUME NEW a \in Agents, queue_thread_call_wakeup(a) PROVE ElementInv'
  BY <1>5 DEF queue_thread_call_wakeup, drainVars, Return
<1>6. ASSUME NEW a \in Agents, daemon_queue_nested_wakeup(a) PROVE ElementInv'
  BY <1>6 DEF daemon_queue_nested_wakeup, drainVars, KindInv
<1>7. ASSUME NEW q \in Queues, thread_continue(q) PROVE ElementInv'
  BY <1>7 DEF thread_continue, agentVars, Goto
<1>8. ASSUME NEW q \in Queues, thread_call_drain(q) PROVE ElementInv'
  BY <1>8 DEF thread_call_drain, agentVars, Goto
<1>9. ASSUME NEW q \in Queues, drain_xor(q) PROVE ElementInv'
  BY <1>9 DEF drain_xor, agentVars, Goto
<1>10. ASSUME NEW q \in Queues, drain_andnot_wakeup(q) PROVE ElementInv'
  BY <1>10 DEF drain_andnot_wakeup, agentVars, Goto
<1>11. ASSUME NEW q \in Queues, drain_dequeue_batch(q) PROVE ElementInv'
  BY <1>11 DEF drain_dequeue_batch, agentVars, Goto
<1>12. ASSUME NEW q \in Queues, drain_batch_done(q) PROVE ElementInv'
  BY <1>12 DEF drain_batch_done, agentVars, Goto
<1>13. ASSUME NEW q \in Queues, drain_assert_wait(q) PROVE ElementInv'
  BY <1>13 DEF drain_assert_wait, agentVars, Goto
<1>14. ASSUME NEW q \in Queues, drain_andnot_draining(q) PROVE ElementInv'
  BY <1>14 DEF drain_andnot_draining, agentVars, Goto
<1>15. ASSUME NEW q \in Queues, drain_again(q) PROVE ElementInv'
  BY <1>15 DEF drain_again, agentVars, Goto
<1>16. ASSUME NEW q \in Queues, drain_canceled(q) PROVE ElementInv'
  BY <1>16 DEF drain_canceled, Goto
<1>17. ASSUME NEW q \in Queues, drain_return(q) PROVE ElementInv'
  BY <1>17 DEF drain_return, agentVars
<1>18. ASSUME NEW q \in Queues, NEW x \in Elements, drain_invoke(q, x) PROVE ElementInv'
  <2>1. Dest(x) = q
    BY <1>18 DEF drain_invoke
  <2>2. x \in Nested => dpc[x] = "parked"
    BY <1>18, <2>1 DEF drain_invoke, NestInv
  <2> QED
    BY <1>18, <2>1, <2>2 DEF drain_invoke, agentVars
<1>19. ASSUME NEW q \in Queues, cancel_assert_wait(q) PROVE ElementInv'
  BY <1>19 DEF cancel_assert_wait, drainVars
<1>20. ASSUME NEW q \in Queues, cancel_or_canceled(q) PROVE ElementInv'
  BY <1>20 DEF cancel_or_canceled, drainVars
<1>21. ASSUME NEW q \in Queues, cancel_block(q) PROVE ElementInv'
  BY <1>21 DEF cancel_block, drainVars
<1>22. ASSUME NEW q \in Queues, cancel_call_wait(q) PROVE ElementInv'
  BY <1>22 DEF cancel_call_wait, drainVars
<1>23. CASE UNCHANGED vars
  BY <1>23 DEF vars
<1> QED
  BY <1>1, <1>2, <1>3, <1>4, <1>5, <1>6, <1>7, <1>8, <1>9, <1>10, <1>11, <1>12,
     <1>13, <1>14, <1>15, <1>16, <1>17, <1>18, <1>19, <1>20, <1>21, <1>22, <1>23
  DEF Next, enqueue_step, drain_step, cancel_step

\* A nested drain starts inside a batch of its target and ends in it.
LEMMA NestStep ==
    ASSUME TypeOK, KindInv, AgentInv, NestInv, ElementInv, [Next]_vars
    PROVE  NestInv'
<1> USE DaemonAssumption, Destinations DEF TypeOK, KindInv, NestInv
<1>1. ASSUME NEW i \in Items, mpsc_daemon_enqueue(i) PROVE NestInv'
  BY <1>1 DEF mpsc_daemon_enqueue, drainVars
<1>2. ASSUME NEW a \in Agents, enqueue_append(a) PROVE NestInv'
  BY <1>2 DEF enqueue_append, drainVars, Return
<1>3. ASSUME NEW a \in Agents, enqueue_or_wakeup(a) PROVE NestInv'
  BY <1>3 DEF enqueue_or_wakeup, drainVars, Return
<1>4. ASSUME NEW a \in Agents, queue_thread_wakeup(a) PROVE NestInv'
  BY <1>4 DEF queue_thread_wakeup, drainVars, Return
<1>5. ASSUME NEW a \in Agents, queue_thread_call_wakeup(a) PROVE NestInv'
  BY <1>5 DEF queue_thread_call_wakeup, thread_call_enter, drainVars, Return
<1>6. ASSUME NEW a \in Agents, daemon_queue_nested_wakeup(a) PROVE NestInv'
  BY <1>6 DEF daemon_queue_nested_wakeup, drainVars, KindInv
<1>7. ASSUME NEW q \in Queues, thread_continue(q) PROVE NestInv'
  BY <1>7 DEF thread_continue, agentVars, Goto
<1>8. ASSUME NEW q \in Queues, thread_call_drain(q) PROVE NestInv'
  BY <1>8 DEF thread_call_drain, agentVars, Goto
<1>9. ASSUME NEW q \in Queues, drain_xor(q) PROVE NestInv'
  BY <1>9 DEF drain_xor, agentVars, Goto
<1>10. ASSUME NEW q \in Queues, drain_andnot_wakeup(q) PROVE NestInv'
  BY <1>10 DEF drain_andnot_wakeup, agentVars, Goto
<1>11. ASSUME NEW q \in Queues, drain_dequeue_batch(q) PROVE NestInv'
  BY <1>11 DEF drain_dequeue_batch, agentVars, Goto
<1>12. ASSUME NEW q \in Queues, drain_batch_done(q) PROVE NestInv'
  BY <1>12 DEF drain_batch_done, agentVars, Goto
<1>13. ASSUME NEW q \in Queues, drain_assert_wait(q) PROVE NestInv'
  BY <1>13 DEF drain_assert_wait, agentVars, Goto
<1>14. ASSUME NEW q \in Queues, drain_andnot_draining(q) PROVE NestInv'
  BY <1>14 DEF drain_andnot_draining, agentVars, Goto
<1>15. ASSUME NEW q \in Queues, drain_again(q) PROVE NestInv'
  BY <1>15 DEF drain_again, agentVars, Goto
<1>16. ASSUME NEW q \in Queues, drain_canceled(q) PROVE NestInv'
  BY <1>16 DEF drain_canceled, Goto
<1>17. ASSUME NEW q \in Queues, drain_return(q) PROVE NestInv'
  BY <1>17 DEF drain_return, agentVars
<1>18. ASSUME NEW q \in Queues, NEW x \in Elements, drain_invoke(q, x) PROVE NestInv'
  <2>1. Dest(x) = q
    BY <1>18 DEF drain_invoke, ElementInv
  <2> QED
    BY <1>18, <2>1 DEF drain_invoke, agentVars
<1>19. ASSUME NEW q \in Queues, cancel_assert_wait(q) PROVE NestInv'
  BY <1>19 DEF cancel_assert_wait, drainVars
<1>20. ASSUME NEW q \in Queues, cancel_or_canceled(q) PROVE NestInv'
  BY <1>20 DEF cancel_or_canceled, drainVars
<1>21. ASSUME NEW q \in Queues, cancel_block(q) PROVE NestInv'
  BY <1>21 DEF cancel_block, drainVars
<1>22. ASSUME NEW q \in Queues, cancel_call_wait(q) PROVE NestInv'
  BY <1>22 DEF cancel_call_wait, drainVars
<1>23. CASE UNCHANGED vars
  BY <1>23 DEF vars
<1> QED
  BY <1>1, <1>2, <1>3, <1>4, <1>5, <1>6, <1>7, <1>8, <1>9, <1>10, <1>11, <1>12,
     <1>13, <1>14, <1>15, <1>16, <1>17, <1>18, <1>19, <1>20, <1>21, <1>22, <1>23
  DEF Next, enqueue_step, drain_step, cancel_step

\* A drain starts with the token, or on a canceled queue.
LEMMA DrainStep ==
    ASSUME TypeOK, KindInv, AgentInv, ReachInv, ElementInv, NestInv, DrainInv, TokenInv,
           CancelInv, [Next]_vars
    PROVE  DrainInv'
<1> USE DaemonAssumption, Destinations DEF TypeOK, DrainInv
<1>1. ASSUME NEW i \in Items, mpsc_daemon_enqueue(i) PROVE DrainInv'
  BY <1>1 DEF mpsc_daemon_enqueue, drainVars
<1>2. ASSUME NEW a \in Agents, enqueue_append(a) PROVE DrainInv'
  BY <1>2 DEF enqueue_append, drainVars, Return
<1>3. ASSUME NEW a \in Agents, enqueue_or_wakeup(a) PROVE DrainInv'
  <2>1. "CANCELED" \notin state[obj[a]]
    BY <1>3, QuietCanceled DEF enqueue_or_wakeup, CancelInv, Cancelation, AgentInv, Working
  <2> QED
    BY <1>3, <2>1 DEF enqueue_or_wakeup, drainVars
<1>4. ASSUME NEW a \in Agents, queue_thread_wakeup(a) PROVE DrainInv'
  BY <1>4 DEF queue_thread_wakeup, drainVars, Return
<1>5. ASSUME NEW a \in Agents, queue_thread_call_wakeup(a) PROVE DrainInv'
  BY <1>5 DEF queue_thread_call_wakeup, drainVars, Return
<1>6. ASSUME NEW a \in Agents, daemon_queue_nested_wakeup(a) PROVE DrainInv'
  BY <1>6 DEF daemon_queue_nested_wakeup, drainVars, KindInv
<1>7. ASSUME NEW q \in Queues, thread_continue(q) PROVE DrainInv'
  <2>1. state[q] \cap {"WAKEUP", "CANCELED"} # {}
    BY <1>7 DEF thread_continue, TokenInv, Token, Armed
  <2> QED
    BY <1>7, <2>1 DEF thread_continue, agentVars, Goto
<1>8. ASSUME NEW q \in Queues, thread_call_drain(q) PROVE DrainInv'
  <2>1. state[q] \cap {"WAKEUP", "CANCELED"} # {}
    BY <1>8 DEF thread_call_drain, TokenInv, Token, Armed
  <2> QED
    BY <1>8, <2>1 DEF thread_call_drain, agentVars, Goto
<1>9. ASSUME NEW q \in Queues, drain_xor(q) PROVE DrainInv'
  BY <1>9 DEF drain_xor, agentVars, Goto
<1>10. ASSUME NEW q \in Queues, drain_andnot_wakeup(q) PROVE DrainInv'
  BY <1>10 DEF drain_andnot_wakeup, agentVars, Goto
<1>11. ASSUME NEW q \in Queues, drain_dequeue_batch(q) PROVE DrainInv'
  BY <1>11 DEF drain_dequeue_batch, agentVars, Goto
<1>12. ASSUME NEW q \in Queues, drain_batch_done(q) PROVE DrainInv'
  BY <1>12 DEF drain_batch_done, agentVars, Goto
<1>13. ASSUME NEW q \in Queues, drain_assert_wait(q) PROVE DrainInv'
  BY <1>13 DEF drain_assert_wait, agentVars, Goto
<1>14. ASSUME NEW q \in Queues, drain_andnot_draining(q) PROVE DrainInv'
  BY <1>14 DEF drain_andnot_draining, agentVars, Goto
<1>15. ASSUME NEW q \in Queues, drain_again(q) PROVE DrainInv'
  BY <1>15 DEF drain_again, agentVars, Goto
<1>16. ASSUME NEW q \in Queues, drain_canceled(q) PROVE DrainInv'
  BY <1>16 DEF drain_canceled, Goto
<1>17. ASSUME NEW q \in Queues, drain_return(q) PROVE DrainInv'
  <2>1. q \in Nested => dpc[Target[q]] = "nested" /\ Target[q] # q
    BY <1>17 DEF drain_return, NestInv
  <2> QED
    BY <1>17, <2>1 DEF drain_return, agentVars
<1>18. ASSUME NEW q \in Queues, NEW x \in Elements, drain_invoke(q, x) PROVE DrainInv'
  <2>1. x \in Nested => dpc[x] = "parked" /\ state[x] \cap {"WAKEUP", "CANCELED"} # {}
    BY <1>18 DEF drain_invoke, ElementInv, NestInv, TokenInv, Token, Armed, KindInv,
       Enqueued
  <2> QED
    BY <1>18, <2>1 DEF drain_invoke, agentVars
<1>19. ASSUME NEW q \in Queues, cancel_assert_wait(q) PROVE DrainInv'
  BY <1>19 DEF cancel_assert_wait, drainVars
<1>20. ASSUME NEW q \in Queues, cancel_or_canceled(q) PROVE DrainInv'
  BY <1>20 DEF cancel_or_canceled, drainVars
<1>21. ASSUME NEW q \in Queues, cancel_block(q) PROVE DrainInv'
  BY <1>21 DEF cancel_block, drainVars
<1>22. ASSUME NEW q \in Queues, cancel_call_wait(q) PROVE DrainInv'
  BY <1>22 DEF cancel_call_wait, drainVars
<1>23. CASE UNCHANGED vars
  BY <1>23 DEF vars
<1> QED
  BY <1>1, <1>2, <1>3, <1>4, <1>5, <1>6, <1>7, <1>8, <1>9, <1>10, <1>11, <1>12,
     <1>13, <1>14, <1>15, <1>16, <1>17, <1>18, <1>19, <1>20, <1>21, <1>22, <1>23
  DEF Next, enqueue_step, drain_step, cancel_step
-----------------------------------------------------------------------------
(* The token.                                                              *)

\* A drain that takes a batch leaves every element where it can be found.
LEMMA BatchKeeps ==
    ASSUME TypeOK, ElementInv, NEW q \in Queues, drain_dequeue_batch(q), NEW x \in Elements
    PROVE  Enqueued(x)' <=> Enqueued(x)
<1>1. Dest(x) \in Queues
  BY Destinations
<1>2. batch[q] = {} /\ batch'[q] = queued[q] /\ queued'[q] = {}
  BY DEF TypeOK, drain_dequeue_batch, ElementInv
<1>3. Dest(x) # q => batch'[Dest(x)] = batch[Dest(x)] /\ queued'[Dest(x)] = queued[Dest(x)]
  BY <1>1 DEF TypeOK, drain_dequeue_batch
<1>4. Dest(x)' = Dest(x)
  BY DEF Dest
<1> QED
  BY <1>2, <1>3, <1>4 DEF Enqueued

\* The token of a queue depends on the queue and on who is about to wake it up.
LEMMA TokenFrame ==
    ASSUME KindInv, NEW p \in Queues, Token(p), kind'[p] = kind[p], state'[p] = state[p],
           dpc'[p] = dpc[p], wait'[p] <=> wait[p], call'[p] = call[p],
           p \in Nested => (Enqueued(p)' <=> Enqueued(p)),
           \A a \in Agents : Wakes(a, p)' <=> Wakes(a, p)
    PROVE  Token(p)'
<1>1. Armed(p)' <=> Armed(p)
  BY DEF Armed, KindInv
<1>2. (\E a \in Agents : Wakes(a, p)') <=> (\E a \in Agents : Wakes(a, p))
  OBVIOUS
<1>3. (\A a, b \in Agents : Wakes(a, p) /\ Wakes(b, p) => a = b) =>
      (\A a, b \in Agents : Wakes(a, p)' /\ Wakes(b, p)' => a = b)
  OBVIOUS
<1>4. Wakes(p, p)' <=> Wakes(p, p)
  BY DEF Agents
<1> QED
  BY <1>1, <1>2, <1>3, <1>4 DEF Token

\* Every step of an agent, of a drain or of a canceler makes a token where there
\* is none, hands it on, or uses it up.
LEMMA TokenStep ==
    ASSUME TypeOK, KindInv, AgentInv, ReachInv, ElementInv, NestInv, DrainInv, TokenInv,
           CancelInv, [Next]_vars
    PROVE  TokenInv'
<1> SUFFICES ASSUME NEW p \in Queues, Token(p) PROVE Token(p)'
  BY DEF TokenInv
<1> USE DaemonAssumption, Destinations DEF TypeOK, AgentInv, Agents
<1>1. ASSUME NEW i \in Items, mpsc_daemon_enqueue(i) PROVE Token(p)'
  BY <1>1, TokenFrame DEF mpsc_daemon_enqueue, drainVars, Wakes, Enqueued
<1>2. ASSUME NEW a \in Agents, enqueue_append(a) PROVE Token(p)'
  <2>1. ASSUME p # obj[a] PROVE Token(p)'
    BY <1>2, <2>1, TokenFrame DEF enqueue_append, drainVars, Return, Wakes, Enqueued
  <2>2. ASSUME p = obj[a] PROVE Token(p)'
    <3>1. Wakes(a, p) /\ p \in Nested /\ kind[p] = "NESTED" /\ ~Enqueued(p)
      BY <1>2, <2>2 DEF enqueue_append, Wakes, Elements, AgentInv, KindInv
    <3>2. Enqueued(p)' /\ kind'[p] = "NESTED" /\ state'[p] = state[p] /\ dpc'[p] = dpc[p]
      BY <1>2, <2>2, <3>1 DEF enqueue_append, Enqueued, drainVars, Elements
    <3>3. \A b \in Agents : Wakes(b, p)' <=> Wakes(b, p) /\ b # a
      BY <1>2 DEF enqueue_append, Wakes, Return
    <3> QED
      BY <3>1, <3>2, <3>3 DEF Token, Armed
  <2> QED
    BY <2>1, <2>2
<1>3. ASSUME NEW a \in Agents, enqueue_or_wakeup(a) PROVE Token(p)'
  <2>1. ASSUME p # obj[a] PROVE Token(p)'
    BY <1>3, <2>1, TokenFrame DEF enqueue_or_wakeup, drainVars, Return, Wakes, Enqueued
  <2>2. ASSUME p = obj[a] PROVE Token(p)'
    <3>1. "CANCELED" \notin state[p] /\ state'[p] = state[p] \cup {"WAKEUP"}
      BY <1>3, <2>2, QuietCanceled DEF enqueue_or_wakeup, CancelInv, Cancelation, Working
    <3>2. Armed(p)' <=> Armed(p)
      BY <1>3 DEF enqueue_or_wakeup, Armed, Enqueued, drainVars
    <3>3. CASE state[p] \cap {"DRAINING", "WAKEUP"} = {}
      <4>1. dpc[p] \in {"parked", "return"}
        BY <3>1, <3>3 DEF DrainInv
      <4>2. \A b \in Agents : Wakes(b, p)' <=> Wakes(b, p) \/ b = a
        BY <1>3, <2>2, <3>3 DEF enqueue_or_wakeup, Wakes
      <4> QED
        BY <1>3, <3>1, <3>2, <3>3, <4>1, <4>2 DEF Token, enqueue_or_wakeup, drainVars
    <3>4. CASE state[p] \cap {"DRAINING", "WAKEUP"} # {}
      <4>1. \A b \in Agents : Wakes(b, p)' <=> Wakes(b, p)
        BY <1>3, <2>2, <3>4 DEF enqueue_or_wakeup, Wakes, Return
      <4>2. dpc[p] \in {"parked", "return"} => "WAKEUP" \in state[p]
        BY <3>4 DEF DrainInv
      <4> QED
        BY <1>3, <3>1, <3>2, <4>1, <4>2 DEF Token, enqueue_or_wakeup, drainVars
    <3> QED
      BY <3>3, <3>4
  <2> QED
    BY <2>1, <2>2
<1>4. ASSUME NEW a \in Agents, queue_thread_wakeup(a) PROVE Token(p)'
  <2>1. ASSUME p # obj[a] PROVE Token(p)'
    BY <1>4, <2>1, TokenFrame DEF queue_thread_wakeup, drainVars, Return, Wakes, Enqueued
  <2>2. ASSUME p = obj[a] PROVE Token(p)'
    <3>1. Wakes(a, p) /\ \A b \in Agents : Wakes(b, p)' <=> Wakes(b, p) /\ b # a
      BY <1>4, <2>2 DEF queue_thread_wakeup, Wakes, Return
    <3>2. UNCHANGED <<kind, state, dpc>>
      BY <1>4 DEF queue_thread_wakeup, drainVars
    <3>3. dpc[p] \in {"parked", "return"} => Armed(p)'
      BY <1>4, <2>2 DEF queue_thread_wakeup, drainVars, Armed
    <3> QED
      BY <3>1, <3>2, <3>3 DEF Token, DrainInv
  <2> QED
    BY <2>1, <2>2
<1>5. ASSUME NEW a \in Agents, queue_thread_call_wakeup(a) PROVE Token(p)'
  <2>1. ASSUME p # obj[a] PROVE Token(p)'
    BY <1>5, <2>1, TokenFrame DEF queue_thread_call_wakeup, drainVars, Return, Wakes,
       Enqueued
  <2>2. ASSUME p = obj[a] PROVE Token(p)'
    <3>1. Wakes(a, p) /\ \A b \in Agents : Wakes(b, p)' <=> Wakes(b, p) /\ b # a
      BY <1>5, <2>2 DEF queue_thread_call_wakeup, Wakes, Return
    <3>2. UNCHANGED <<kind, state, dpc>>
      BY <1>5 DEF queue_thread_call_wakeup, drainVars
    <3>3. dpc[p] \in {"parked", "return"} => Armed(p)'
      BY <1>5, <2>2 DEF queue_thread_call_wakeup, thread_call_enter, drainVars, Armed
    <3> QED
      BY <3>1, <3>2, <3>3 DEF Token, DrainInv
  <2> QED
    BY <2>1, <2>2
<1>6. ASSUME NEW a \in Agents, daemon_queue_nested_wakeup(a) PROVE Token(p)'
  BY <1>6, TokenFrame DEF daemon_queue_nested_wakeup, drainVars, Wakes, Enqueued
<1>7. ASSUME NEW q \in Queues, thread_continue(q) PROVE Token(p)'
  <2>1. ASSUME p # q PROVE Token(p)'
    BY <1>7, <2>1, TokenFrame DEF thread_continue, agentVars, Goto, Wakes, Enqueued
  <2>2. ASSUME p = q PROVE Token(p)'
    BY <1>7, <2>2 DEF thread_continue, agentVars, Goto, Token, Armed, Wakes, Enqueued,
       DrainInv, NestInv
  <2> QED
    BY <2>1, <2>2
<1>8. ASSUME NEW q \in Queues, thread_call_drain(q) PROVE Token(p)'
  <2>1. ASSUME p # q PROVE Token(p)'
    BY <1>8, <2>1, TokenFrame DEF thread_call_drain, agentVars, Goto, Wakes, Enqueued
  <2>2. ASSUME p = q PROVE Token(p)'
    BY <1>8, <2>2 DEF thread_call_drain, agentVars, Goto, Token, Armed, Wakes, Enqueued,
       DrainInv, NestInv
  <2> QED
    BY <2>1, <2>2
<1>9. ASSUME NEW q \in Queues, drain_xor(q) PROVE Token(p)'
  <2>1. ASSUME p # q PROVE Token(p)'
    BY <1>9, <2>1, TokenFrame DEF drain_xor, agentVars, Goto, Wakes, Enqueued
  <2>2. ASSUME p = q PROVE Token(p)'
    BY <1>9, <2>2 DEF drain_xor, agentVars, Goto, Token, Armed, Wakes, Enqueued, DrainInv,
       NestInv
  <2> QED
    BY <2>1, <2>2
<1>10. ASSUME NEW q \in Queues, drain_andnot_wakeup(q) PROVE Token(p)'
  <2>1. ASSUME p # q PROVE Token(p)'
    BY <1>10, <2>1, TokenFrame DEF drain_andnot_wakeup, agentVars, Goto, Wakes, Enqueued
  <2>2. ASSUME p = q PROVE Token(p)'
    BY <1>10, <2>2 DEF drain_andnot_wakeup, agentVars, Goto, Token, Armed, Wakes,
       Enqueued, DrainInv, NestInv
  <2> QED
    BY <2>1, <2>2
<1>11. ASSUME NEW q \in Queues, drain_dequeue_batch(q) PROVE Token(p)'
  <2>1. p \in Nested => (Enqueued(p)' <=> Enqueued(p))
    BY <1>11, BatchKeeps DEF Elements
  <2>2. ASSUME p # q PROVE Token(p)'
    BY <1>11, <2>1, <2>2, TokenFrame DEF drain_dequeue_batch, agentVars, Goto, Wakes
  <2>3. ASSUME p = q PROVE Token(p)'
    BY <1>11, <2>1, <2>3 DEF drain_dequeue_batch, agentVars, Goto, KindInv, Token, Armed,
       Wakes
  <2> QED
    BY <2>2, <2>3
<1>12. ASSUME NEW q \in Queues, drain_batch_done(q) PROVE Token(p)'
  <2>1. ASSUME p # q PROVE Token(p)'
    BY <1>12, <2>1, TokenFrame DEF drain_batch_done, agentVars, Goto, Wakes, Enqueued
  <2>2. ASSUME p = q PROVE Token(p)'
    BY <1>12, <2>2 DEF drain_batch_done, agentVars, Goto, Token, Armed, Wakes, Enqueued,
       DrainInv, NestInv
  <2> QED
    BY <2>1, <2>2
<1>13. ASSUME NEW q \in Queues, drain_assert_wait(q) PROVE Token(p)'
  <2>1. ASSUME p # q PROVE Token(p)'
    BY <1>13, <2>1, TokenFrame DEF drain_assert_wait, agentVars, Goto, Wakes, Enqueued
  <2>2. ASSUME p = q PROVE Token(p)'
    BY <1>13, <2>2 DEF drain_assert_wait, agentVars, Goto, Token, Armed, Wakes, Enqueued,
       DrainInv, NestInv
  <2> QED
    BY <2>1, <2>2
<1>14. ASSUME NEW q \in Queues, drain_andnot_draining(q) PROVE Token(p)'
  <2>1. ASSUME p # q PROVE Token(p)'
    BY <1>14, <2>1, TokenFrame DEF drain_andnot_draining, agentVars, Goto, Wakes, Enqueued
  <2>2. ASSUME p = q PROVE Token(p)'
    BY <1>14, <2>2 DEF drain_andnot_draining, agentVars, Goto, Token, Armed, Wakes,
       Enqueued, DrainInv, NestInv
  <2> QED
    BY <2>1, <2>2
<1>15. ASSUME NEW q \in Queues, drain_again(q) PROVE Token(p)'
  <2>1. ASSUME p # q PROVE Token(p)'
    BY <1>15, <2>1, TokenFrame DEF drain_again, agentVars, Goto, Wakes, Enqueued
  <2>2. ASSUME p = q PROVE Token(p)'
    BY <1>15, <2>2 DEF drain_again, agentVars, Goto, Token, Armed, Wakes, Enqueued,
       DrainInv, NestInv
  <2> QED
    BY <2>1, <2>2
<1>16. ASSUME NEW q \in Queues, drain_canceled(q) PROVE Token(p)'
  <2>1. ASSUME p # q PROVE Token(p)'
    BY <1>16, <2>1, TokenFrame DEF drain_canceled, Goto, Wakes, Enqueued
  <2>2. ASSUME p = q PROVE Token(p)'
    BY <1>16, <2>2 DEF drain_canceled, Goto, Token, Armed, Wakes, Enqueued, DrainInv,
       NestInv
  <2> QED
    BY <2>1, <2>2
<1>17. ASSUME NEW q \in Queues, drain_return(q) PROVE Token(p)'
  <2>1. ASSUME p # q, q \in Nested => p # Target[q] PROVE Token(p)'
    BY <1>17, <2>1, TokenFrame DEF drain_return, agentVars, Wakes, Enqueued
  <2>2. ASSUME p = q PROVE Token(p)'
    <3>1. UNCHANGED <<kind, state, wait, queued, batch, pc, obj>> /\ dpc'[p] = "parked"
      BY <1>17, <2>2 DEF drain_return, agentVars
    <3>2. Armed(p)' <=> Armed(p)
      BY <1>17, <2>2, <3>1 DEF drain_return, NestInv, Armed, Enqueued
    <3> QED
      BY <1>17, <2>2, <3>1, <3>2 DEF drain_return, Token, Wakes
  <2>3. ASSUME p # q, q \in Nested, p = Target[q] PROVE Token(p)'
    <3>1. dpc[p] = "nested" /\ dpc'[p] = "batch" /\ call'[p] = call[p]
      BY <1>17, <2>3 DEF drain_return, NestInv
    <3>2. UNCHANGED <<kind, state, wait, queued, batch, pc, obj>>
      BY <1>17 DEF drain_return, agentVars
    <3> QED
      BY <3>1, <3>2 DEF Token, Armed, Wakes, Enqueued
  <2> QED
    BY <2>1, <2>2, <2>3
<1>18. ASSUME NEW q \in Queues, NEW x \in Elements, drain_invoke(q, x) PROVE Token(p)'
  <2>1. Dest(x) = q /\ x # q /\ (x \in Nested => dpc[x] = "parked")
    BY <1>18 DEF drain_invoke, ElementInv, NestInv, Elements
  <2>2. UNCHANGED <<kind, state, wait, call, queued, pc, obj>>
    BY <1>18 DEF drain_invoke, agentVars
  <2>3. ASSUME p = x PROVE Token(p)'
    <3>1. Enqueued(p) /\ ~Enqueued(p)' /\ kind[p] = "NESTED" /\ dpc'[p] = "xor"
      BY <1>18, <2>1, <2>3 DEF drain_invoke, Enqueued, ElementInv, KindInv, Elements
    <3> QED
      BY <2>2, <3>1 DEF Token, Armed, Wakes
  <2>4. ASSUME p # x, p \in Nested PROVE Enqueued(p)' <=> Enqueued(p)
    BY <1>18, <2>4 DEF drain_invoke, Enqueued, agentVars
  <2>5. ASSUME p # x PROVE Token(p)'
    <3>1. CASE p # q
      BY <1>18, <2>2, <2>4, <2>5, <3>1, TokenFrame DEF drain_invoke, Wakes
    <3>2. CASE p = q
      BY <1>18, <2>1, <2>2, <2>4, <2>5, <3>2 DEF drain_invoke, Token, Armed, Wakes, KindInv
    <3> QED
      BY <3>1, <3>2
  <2> QED
    BY <2>3, <2>5
<1>19. ASSUME NEW q \in Queues, cancel_assert_wait(q) PROVE Token(p)'
  BY <1>19, TokenFrame DEF cancel_assert_wait, drainVars, Wakes, Enqueued
<1>20. ASSUME NEW q \in Queues, cancel_or_canceled(q) PROVE Token(p)'
  <2>1. ASSUME p # q PROVE Token(p)'
    BY <1>20, <2>1, TokenFrame DEF cancel_or_canceled, drainVars, Wakes, Enqueued
  <2>2. ASSUME p = q PROVE Token(p)'
    BY <1>20, <2>2 DEF cancel_or_canceled, drainVars, Token, Wakes
  <2> QED
    BY <2>1, <2>2
<1>21. ASSUME NEW q \in Queues, cancel_block(q) PROVE Token(p)'
  <2>1. ASSUME p # q PROVE Token(p)'
    BY <1>21, <2>1, TokenFrame DEF cancel_block, drainVars, Wakes, Enqueued
  <2>2. ASSUME p = q PROVE Token(p)'
    <3>1. "CANCELED" \in state[p] /\ ("WAKEUP" \in state[p] => dpc[p] = "andnot_wakeup")
      BY <1>21, <2>2 DEF cancel_block, CancelInv, Cancelation
    <3> QED
      BY <1>21, <3>1 DEF cancel_block, drainVars, Token
  <2> QED
    BY <2>1, <2>2
<1>22. ASSUME NEW q \in Queues, cancel_call_wait(q) PROVE Token(p)'
  BY <1>22, TokenFrame DEF cancel_call_wait, drainVars, Wakes, Enqueued
<1>23. CASE UNCHANGED vars
  BY <1>23, TokenFrame DEF vars, Wakes, Enqueued
<1> QED
  BY <1>1, <1>2, <1>3, <1>4, <1>5, <1>6, <1>7, <1>8, <1>9, <1>10, <1>11, <1>12,
     <1>13, <1>14, <1>15, <1>16, <1>17, <1>18, <1>19, <1>20, <1>21, <1>22, <1>23
  DEF Next, enqueue_step, drain_step, cancel_step
-----------------------------------------------------------------------------
(* What is announced.                                                      *)

\* The one who appends to an empty queue announces it before the drain can stop
\* looking.
LEMMA QueuedStep ==
    ASSUME TypeOK, KindInv, AgentInv, ElementInv, NestInv, DrainInv, QueuedInv, [Next]_vars
    PROVE  QueuedInv'
<1> SUFFICES ASSUME NEW p \in Queues, Announced(p) PROVE Announced(p)'
  BY DEF QueuedInv
<1> USE DaemonAssumption, Destinations DEF TypeOK, AgentInv, Announced, Agents
<1>1. ASSUME NEW i \in Items, mpsc_daemon_enqueue(i) PROVE Announced(p)'
  BY <1>1 DEF mpsc_daemon_enqueue, drainVars
<1>2. ASSUME NEW a \in Agents, enqueue_append(a) PROVE Announced(p)'
  <2>1. ASSUME NEW b \in Agents, pc[b] = "or_wakeup", obj[b] = p
        PROVE  pc'[b] = "or_wakeup" /\ obj'[b] = p
    BY <1>2, <2>1 DEF enqueue_append
  <2>2. CASE p # Dest(obj[a])
    BY <1>2, <2>1, <2>2 DEF enqueue_append, drainVars
  <2>3. CASE p = Dest(obj[a]) /\ queued[p] = {}
    BY <1>2, <2>3 DEF enqueue_append
  <2>4. CASE p = Dest(obj[a]) /\ queued[p] # {}
    BY <1>2, <2>1, <2>4 DEF enqueue_append, drainVars
  <2> QED
    BY <2>2, <2>3, <2>4
<1>3. ASSUME NEW a \in Agents, enqueue_or_wakeup(a) PROVE Announced(p)'
  <2>1. CASE p = obj[a]
    BY <1>3, <2>1 DEF enqueue_or_wakeup
  <2>2. CASE p # obj[a]
    BY <1>3, <2>2 DEF enqueue_or_wakeup, drainVars
  <2> QED
    BY <2>1, <2>2
<1>4. ASSUME NEW a \in Agents, queue_thread_wakeup(a) PROVE Announced(p)'
  BY <1>4 DEF queue_thread_wakeup, drainVars, Return
<1>5. ASSUME NEW a \in Agents, queue_thread_call_wakeup(a) PROVE Announced(p)'
  BY <1>5 DEF queue_thread_call_wakeup, drainVars, Return
<1>6. ASSUME NEW a \in Agents, daemon_queue_nested_wakeup(a) PROVE Announced(p)'
  BY <1>6 DEF daemon_queue_nested_wakeup, drainVars, KindInv
<1>7. ASSUME NEW q \in Queues, thread_continue(q) PROVE Announced(p)'
  BY <1>7 DEF thread_continue, agentVars, Goto
<1>8. ASSUME NEW q \in Queues, thread_call_drain(q) PROVE Announced(p)'
  BY <1>8 DEF thread_call_drain, agentVars, Goto
<1>9. ASSUME NEW q \in Queues, drain_xor(q) PROVE Announced(p)'
  BY <1>9 DEF drain_xor, agentVars, Goto
<1>10. ASSUME NEW q \in Queues, drain_andnot_wakeup(q) PROVE Announced(p)'
  BY <1>10 DEF drain_andnot_wakeup, agentVars, Goto
<1>11. ASSUME NEW q \in Queues, drain_dequeue_batch(q) PROVE Announced(p)'
  BY <1>11 DEF drain_dequeue_batch, agentVars, Goto
<1>12. ASSUME NEW q \in Queues, drain_batch_done(q) PROVE Announced(p)'
  BY <1>12 DEF drain_batch_done, agentVars, Goto
<1>13. ASSUME NEW q \in Queues, drain_assert_wait(q) PROVE Announced(p)'
  BY <1>13 DEF drain_assert_wait, agentVars, Goto
<1>14. ASSUME NEW q \in Queues, drain_andnot_draining(q) PROVE Announced(p)'
  BY <1>14 DEF drain_andnot_draining, agentVars, Goto
<1>15. ASSUME NEW q \in Queues, drain_again(q) PROVE Announced(p)'
  BY <1>15 DEF drain_again, agentVars, Goto
<1>16. ASSUME NEW q \in Queues, drain_canceled(q) PROVE Announced(p)'
  BY <1>16 DEF drain_canceled, Goto
<1>17. ASSUME NEW q \in Queues, drain_return(q) PROVE Announced(p)'
  BY <1>17 DEF drain_return, agentVars
<1>18. ASSUME NEW q \in Queues, NEW x \in Elements, drain_invoke(q, x) PROVE Announced(p)'
  <2>1. x \in Nested => dpc[x] = "parked"
    BY <1>18 DEF drain_invoke, ElementInv, NestInv, Elements
  <2>2. CASE x \in Nested
    BY <1>18, <2>1, <2>2 DEF drain_invoke, agentVars
  <2>3. CASE x \notin Nested
    BY <1>18, <2>3 DEF drain_invoke, agentVars
  <2> QED
    BY <2>2, <2>3
<1>19. ASSUME NEW q \in Queues, cancel_assert_wait(q) PROVE Announced(p)'
  BY <1>19 DEF cancel_assert_wait, drainVars
<1>20. ASSUME NEW q \in Queues, cancel_or_canceled(q) PROVE Announced(p)'
  BY <1>20 DEF cancel_or_canceled, drainVars
<1>21. ASSUME NEW q \in Queues, cancel_block(q) PROVE Announced(p)'
  BY <1>21 DEF cancel_block, drainVars
<1>22. ASSUME NEW q \in Queues, cancel_call_wait(q) PROVE Announced(p)'
  BY <1>22 DEF cancel_call_wait, drainVars
<1>23. CASE UNCHANGED vars
  BY <1>23 DEF vars
<1> QED
  BY <1>1, <1>2, <1>3, <1>4, <1>5, <1>6, <1>7, <1>8, <1>9, <1>10, <1>11, <1>12,
     <1>13, <1>14, <1>15, <1>16, <1>17, <1>18, <1>19, <1>20, <1>21, <1>22, <1>23
  DEF Next, enqueue_step, drain_step, cancel_step
-----------------------------------------------------------------------------
(* Cancelation.                                                            *)

\* How far a cancelation is depends on the queue and on its canceler.
LEMMA CancelFrame ==
    ASSUME NEW p \in Queues, Cancelation(p), kind'[p] = kind[p], state'[p] = state[p],
           queued'[p] = queued[p], dpc'[p] = dpc[p], call'[p] = call[p], pc'[p] = pc[p],
           cwait'[p] <=> cwait[p], p \in Nested => (Enqueued(p)' <=> Enqueued(p))
    PROVE  Cancelation(p)'
  BY DEF Cancelation

\* A nested queue is canceled at rest (~CancelBusy), and nothing disturbs it;
\* another one is drained a last time, after which nothing is on it.
LEMMA CancelStep ==
    ASSUME ~CancelBusy, TypeOK, KindInv, AgentInv, ReachInv, ElementInv, NestInv, DrainInv, TokenInv,
           QueuedInv, CancelInv, [Next]_vars
    PROVE  CancelInv'
<1> SUFFICES ASSUME NEW p \in Queues, Cancelation(p) PROVE Cancelation(p)'
  BY DEF CancelInv
<1> USE DaemonAssumption, Destinations DEF TypeOK, AgentInv, Agents
<1>1. ASSUME NEW i \in Items, mpsc_daemon_enqueue(i) PROVE Cancelation(p)'
  BY <1>1, CancelFrame DEF mpsc_daemon_enqueue, drainVars, Enqueued
<1>2. ASSUME NEW a \in Agents, enqueue_append(a) PROVE Cancelation(p)'
  <2>1. a \notin Queues
    BY <1>2 DEF enqueue_append, CancelInv, Cancelation
  <2>2. UNCHANGED <<kind, state, batch, dpc, call, cwait>> /\ pc'[p] = pc[p]
    BY <1>2, <2>1 DEF enqueue_append, drainVars
  <2>3. CASE pc[p] = "idle"
    BY <2>2, <2>3 DEF Cancelation
  <2>4. CASE pc[p] # "idle"
    <3>1. Dest(obj[a]) # p /\ obj[a] # p
      BY <1>2, <2>1, <2>4, QuietCanceled DEF enqueue_append, Working
    <3>2. queued'[p] = queued[p]
      BY <1>2, <3>1 DEF enqueue_append
    <3>3. p \in Nested => (Enqueued(p)' <=> Enqueued(p))
      BY <1>2, <2>2, <3>1 DEF enqueue_append, Enqueued, Elements
    <3> QED
      BY <2>2, <3>2, <3>3, CancelFrame
  <2> QED
    BY <2>3, <2>4
<1>3. ASSUME NEW a \in Agents, enqueue_or_wakeup(a) PROVE Cancelation(p)'
  <2>1. a \notin Queues
    BY <1>3 DEF enqueue_or_wakeup, CancelInv, Cancelation
  <2>2. UNCHANGED <<kind, queued, batch, dpc, call, cwait>> /\ pc'[p] = pc[p]
    BY <1>3, <2>1 DEF enqueue_or_wakeup, drainVars
  <2>3. CASE p # obj[a]
    BY <1>3, <2>2, <2>3, CancelFrame DEF enqueue_or_wakeup, Enqueued
  <2>4. CASE p = obj[a]
    <3>1. pc[p] = "idle"
      BY <1>3, <2>1, <2>4, QuietCanceled DEF enqueue_or_wakeup, Working
    <3> QED
      BY <1>3, <2>2, <2>4, <3>1 DEF enqueue_or_wakeup, Cancelation
  <2> QED
    BY <2>3, <2>4
<1>4. ASSUME NEW a \in Agents, queue_thread_wakeup(a) PROVE Cancelation(p)'
  <2>1. UNCHANGED <<kind, state, queued, batch, dpc, call, cwait>>
    BY <1>4 DEF queue_thread_wakeup, drainVars
  <2>2. ASSUME p # a PROVE Cancelation(p)'
    BY <1>4, <2>1, <2>2, CancelFrame DEF queue_thread_wakeup, Enqueued
  <2>3. ASSUME p = a PROVE Cancelation(p)'
    BY <1>4, <2>1, <2>3 DEF queue_thread_wakeup, Return, Cancelation
  <2> QED
    BY <2>2, <2>3
<1>5. ASSUME NEW a \in Agents, queue_thread_call_wakeup(a) PROVE Cancelation(p)'
  <2>1. UNCHANGED <<kind, state, queued, batch, dpc, cwait>>
    BY <1>5 DEF queue_thread_call_wakeup, drainVars
  <2>2. ASSUME p # obj[a], p # a PROVE Cancelation(p)'
    BY <1>5, <2>1, <2>2, CancelFrame DEF queue_thread_call_wakeup, Enqueued
  <2>3. ASSUME p = a PROVE Cancelation(p)'
    BY <1>5, <2>1, <2>3 DEF queue_thread_call_wakeup, Return, Cancelation
  <2>4. ASSUME p = obj[a], p # a PROVE Cancelation(p)'
    <3>1. pc[p] = "idle" /\ pc'[p] = "idle"
      BY <1>5, <2>4, QuietCanceled DEF queue_thread_call_wakeup, Working
    <3> QED
      BY <2>1, <3>1 DEF Cancelation
  <2> QED
    BY <2>2, <2>3, <2>4
<1>6. ASSUME NEW a \in Agents, daemon_queue_nested_wakeup(a) PROVE Cancelation(p)'
  <2>1. a \notin Queues
    BY <1>6 DEF daemon_queue_nested_wakeup, CancelInv, Cancelation, KindInv
  <2> QED
    BY <1>6, <2>1, CancelFrame DEF daemon_queue_nested_wakeup, drainVars, Enqueued
<1>7. ASSUME NEW q \in Queues, thread_continue(q) PROVE Cancelation(p)'
  <2>1. ASSUME p # q PROVE Cancelation(p)'
    BY <1>7, <2>1, CancelFrame DEF thread_continue, agentVars, Goto, Enqueued
  <2>2. ASSUME p = q PROVE Cancelation(p)'
    BY <1>7, <2>2 DEF thread_continue, agentVars, Goto, KindInv, Cancelation, Enqueued
  <2> QED
    BY <2>1, <2>2
<1>8. ASSUME NEW q \in Queues, thread_call_drain(q) PROVE Cancelation(p)'
  <2>1. ASSUME p # q PROVE Cancelation(p)'
    BY <1>8, <2>1, CancelFrame DEF thread_call_drain, agentVars, Goto, Enqueued
  <2>2. ASSUME p = q PROVE Cancelation(p)'
    BY <1>8, <2>2 DEF thread_call_drain, agentVars, Goto, KindInv, Cancelation, Enqueued
  <2> QED
    BY <2>1, <2>2
<1>9. ASSUME NEW q \in Queues, drain_xor(q) PROVE Cancelation(p)'
  <2>1. ASSUME p # q PROVE Cancelation(p)'
    BY <1>9, <2>1, CancelFrame DEF drain_xor, agentVars, Goto, Enqueued
  <2>2. ASSUME p = q PROVE Cancelation(p)'
    BY <1>9, <2>2 DEF drain_xor, agentVars, Goto, KindInv, Cancelation, Enqueued
  <2> QED
    BY <2>1, <2>2
<1>10. ASSUME NEW q \in Queues, drain_andnot_wakeup(q) PROVE Cancelation(p)'
  <2>1. ASSUME p # q PROVE Cancelation(p)'
    BY <1>10, <2>1, CancelFrame DEF drain_andnot_wakeup, agentVars, Goto, Enqueued
  <2>2. ASSUME p = q PROVE Cancelation(p)'
    BY <1>10, <2>2 DEF drain_andnot_wakeup, agentVars, Goto, KindInv, Cancelation, Enqueued
  <2> QED
    BY <2>1, <2>2
<1>11. ASSUME NEW q \in Queues, drain_dequeue_batch(q) PROVE Cancelation(p)'
  <2>1. p \in Nested => (Enqueued(p)' <=> Enqueued(p))
    BY <1>11, BatchKeeps DEF Elements
  <2>2. ASSUME p # q PROVE Cancelation(p)'
    BY <1>11, <2>1, <2>2, CancelFrame DEF drain_dequeue_batch, agentVars, Goto
  <2>3. ASSUME p = q PROVE Cancelation(p)'
    BY <1>11, <2>1, <2>3 DEF drain_dequeue_batch, agentVars, Goto, Cancelation
  <2> QED
    BY <2>2, <2>3
<1>12. ASSUME NEW q \in Queues, drain_batch_done(q) PROVE Cancelation(p)'
  <2>1. ASSUME p # q PROVE Cancelation(p)'
    BY <1>12, <2>1, CancelFrame DEF drain_batch_done, agentVars, Goto, Enqueued
  <2>2. ASSUME p = q PROVE Cancelation(p)'
    BY <1>12, <2>2 DEF drain_batch_done, agentVars, Goto, KindInv, Cancelation, Enqueued
  <2> QED
    BY <2>1, <2>2
<1>13. ASSUME NEW q \in Queues, drain_assert_wait(q) PROVE Cancelation(p)'
  <2>1. ASSUME p # q PROVE Cancelation(p)'
    BY <1>13, <2>1, CancelFrame DEF drain_assert_wait, agentVars, Goto, Enqueued
  <2>2. ASSUME p = q PROVE Cancelation(p)'
    BY <1>13, <2>2 DEF drain_assert_wait, agentVars, Goto, KindInv, Cancelation, Enqueued
  <2> QED
    BY <2>1, <2>2
<1>14. ASSUME NEW q \in Queues, drain_andnot_draining(q) PROVE Cancelation(p)'
  <2>1. ASSUME p # q PROVE Cancelation(p)'
    BY <1>14, <2>1, CancelFrame DEF drain_andnot_draining, agentVars, Goto, Enqueued
  <2>2. ASSUME p = q PROVE Cancelation(p)'
    BY <1>14, <2>2 DEF drain_andnot_draining, agentVars, Goto, KindInv, Cancelation,
       Enqueued
  <2> QED
    BY <2>1, <2>2
<1>15. ASSUME NEW q \in Queues, drain_again(q) PROVE Cancelation(p)'
  <2>1. ASSUME p # q PROVE Cancelation(p)'
    BY <1>15, <2>1, CancelFrame DEF drain_again, agentVars, Goto, Enqueued
  <2>2. ASSUME p = q PROVE Cancelation(p)'
    BY <1>15, <2>2 DEF drain_again, agentVars, Goto, KindInv, Cancelation, Enqueued
  <2> QED
    BY <2>1, <2>2
<1>16. ASSUME NEW q \in Queues, drain_canceled(q) PROVE Cancelation(p)'
  <2>1. ASSUME p # q PROVE Cancelation(p)'
    BY <1>16, <2>1, CancelFrame DEF drain_canceled, Goto, Enqueued
  <2>2. ASSUME p = q PROVE Cancelation(p)'
    <3>1. "CANCELED" \in state[q] /\ "WAKEUP" \notin state[q]
      BY <1>16 DEF drain_canceled, DrainInv
    <3>2. ~\E b \in Agents : pc[b] = "or_wakeup" /\ obj[b] = q
      BY <1>16, <3>1, QuietCanceled DEF CancelInv, Cancelation, Working
    <3>3. queued[q] = {}
      BY <1>16, <3>1, <3>2 DEF drain_canceled, QueuedInv, Announced
    <3> QED
      BY <1>16, <2>2, <3>1, <3>3 DEF drain_canceled, Goto, Cancelation
  <2> QED
    BY <2>1, <2>2
<1>17. ASSUME NEW q \in Queues, drain_return(q) PROVE Cancelation(p)'
  <2>1. UNCHANGED <<kind, state, queued, batch, pc, cwait>>
    BY <1>17 DEF drain_return, agentVars
  <2>2. ASSUME p # q, q \in Nested => p # Target[q] PROVE Cancelation(p)'
    BY <1>17, <2>1, <2>2, CancelFrame DEF drain_return, Enqueued
  <2>3. ASSUME p = q PROVE Cancelation(p)'
    BY <1>17, <2>1, <2>3 DEF drain_return, Cancelation, Enqueued
  <2>4. ASSUME p # q, q \in Nested, p = Target[q] PROVE Cancelation(p)'
    <3>1. dpc[p] = "nested" /\ dpc'[p] = "batch" /\ call'[p] = call[p]
      BY <1>17, <2>4 DEF drain_return, NestInv
    <3> QED
      BY <2>1, <3>1 DEF Cancelation
  <2> QED
    BY <2>2, <2>3, <2>4
<1>18. ASSUME NEW q \in Queues, NEW x \in Elements, drain_invoke(q, x) PROVE Cancelation(p)'
  <2>1. UNCHANGED <<kind, state, queued, call, pc, cwait>>
    BY <1>18 DEF drain_invoke, agentVars
  <2>2. ASSUME p \in Nested, ~Enqueued(p) PROVE ~Enqueued(p)' /\ p # x
    BY <1>18, <2>1, <2>2 DEF drain_invoke, Enqueued, ElementInv
  <2>3. p # x => dpc'[p] = dpc[p] \/ (p = q /\ dpc[p] = "batch")
    BY <1>18 DEF drain_invoke
  <2>4. CASE p = x
    <3>1. p \in Nested /\ Enqueued(p)
      BY <1>18, <2>4 DEF drain_invoke, Elements, ElementInv, Enqueued
    <3> QED
      BY <2>1, <3>1 DEF Cancelation
  <2>5. CASE p # x
    BY <2>1, <2>2, <2>3, <2>5 DEF Cancelation
  <2> QED
    BY <2>4, <2>5
<1>19. ASSUME NEW q \in Queues, cancel_assert_wait(q) PROVE Cancelation(p)'
  <2>1. ASSUME p # q PROVE Cancelation(p)'
    BY <1>19, <2>1, CancelFrame DEF cancel_assert_wait, drainVars, Enqueued
  <2>2. ASSUME p = q PROVE Cancelation(p)'
    <3>1. "CANCELED" \notin state[q] /\ ~\E b \in Agents : pc[b] = "or_wakeup" /\ obj[b] = q
      BY <1>19, <2>2, Quiet DEF cancel_assert_wait, Cancelation, Working
    <3>2. ASSUME q \in Nested
          PROVE  dpc[q] \in {"parked", "return"} /\ ~Enqueued(q) /\ queued[q] = {}
      <4>1. state[q] = {}
        BY <1>19, <3>2 DEF cancel_assert_wait
      <4>2. dpc[q] \in {"parked", "return"}
        BY <4>1 DEF DrainInv
      <4>3. ~Enqueued(q)
        BY <3>2, <4>1, <4>2 DEF TokenInv, Token, Armed, KindInv
      <4> QED
        BY <3>1, <4>1, <4>2, <4>3 DEF QueuedInv, Announced
    <3> QED
      BY <1>19, <2>2, <3>1, <3>2 DEF cancel_assert_wait, drainVars, Cancelation, Enqueued
  <2> QED
    BY <2>1, <2>2
<1>20. ASSUME NEW q \in Queues, cancel_or_canceled(q) PROVE Cancelation(p)'
  <2>1. ASSUME p # q PROVE Cancelation(p)'
    BY <1>20, <2>1, CancelFrame DEF cancel_or_canceled, drainVars, Enqueued
  <2>2. ASSUME p = q PROVE Cancelation(p)'
    BY <1>20, <2>2 DEF cancel_or_canceled, drainVars, KindInv, Cancelation, Enqueued
  <2> QED
    BY <2>1, <2>2
<1>21. ASSUME NEW q \in Queues, cancel_block(q) PROVE Cancelation(p)'
  <2>1. ASSUME p # q PROVE Cancelation(p)'
    BY <1>21, <2>1, CancelFrame DEF cancel_block, drainVars, Enqueued
  <2>2. ASSUME p = q PROVE Cancelation(p)'
    <3>1. UNCHANGED <<kind, state, queued, batch, dpc, cwait>> /\ pc[p] = "block" /\ ~cwait[p]
      BY <1>21, <2>2 DEF cancel_block, drainVars
    <3>2. call'[p] \subseteq {"RUNNING"} /\ (kind[p] # "THREAD_CALL" => call'[p] = {})
      BY <1>21, <2>2 DEF cancel_block
    <3>3. pc'[p] = IF kind[p] = "THREAD_CALL" THEN "call_wait" ELSE "done"
      BY <1>21, <2>2 DEF cancel_block
    <3>4. p \in Nested => kind[p] # "THREAD_CALL"
      BY DEF KindInv
    <3> QED
      BY <3>1, <3>2, <3>3, <3>4 DEF Cancelation, Enqueued
  <2> QED
    BY <2>1, <2>2
<1>22. ASSUME NEW q \in Queues, cancel_call_wait(q) PROVE Cancelation(p)'
  <2>1. ASSUME p # q PROVE Cancelation(p)'
    BY <1>22, <2>1, CancelFrame DEF cancel_call_wait, drainVars, Enqueued
  <2>2. ASSUME p = q PROVE Cancelation(p)'
    BY <1>22, <2>2 DEF cancel_call_wait, drainVars, KindInv, Cancelation, Enqueued
  <2> QED
    BY <2>1, <2>2
<1>23. CASE UNCHANGED vars
  BY <1>23, CancelFrame DEF vars, Enqueued
<1> QED
  BY <1>1, <1>2, <1>3, <1>4, <1>5, <1>6, <1>7, <1>8, <1>9, <1>10, <1>11, <1>12,
     <1>13, <1>14, <1>15, <1>16, <1>17, <1>18, <1>19, <1>20, <1>21, <1>22, <1>23
  DEF Next, enqueue_step, drain_step, cancel_step
-----------------------------------------------------------------------------
(* The theorems.                                                           *)

\* At the start all queues are empty and at rest, and all agents idle.
LEMMA DaemonInit ==
    ASSUME Init
    PROVE  DaemonInv
<1> USE DaemonAssumption, Destinations DEF Init
<1>1. KindInv
  BY DEF KindInv
<1>2. TypeOK
  <2>1. wait \in [Queues -> BOOLEAN] /\ \A q \in Queues : wait[q] => kind[q] = "THREAD"
    OBVIOUS
  <2>2. sends \in [Items -> 0 .. MaxSends]
    OBVIOUS
  <2> QED
    BY <2>1, <2>2 DEF TypeOK, Agents, Elements
<1>3. AgentInv /\ ReachInv
  BY DEF AgentInv, ReachInv, Working, Agents
<1>4. ElementInv /\ DrainInv /\ NestInv
  BY <1>1 DEF ElementInv, DrainInv, NestInv, KindInv, Enqueued, Agents
<1>5. TokenInv
  <2> SUFFICES ASSUME NEW q \in Queues PROVE Token(q)
    BY DEF TokenInv
  <2>1. ~Armed(q)
    <3>1. kind[q] = "THREAD" => wait[q]
      OBVIOUS
    <3>2. kind[q] = "NESTED" => ~Enqueued(q)
      BY <1>1 DEF KindInv, Enqueued, Elements
    <3> QED
      BY <3>1, <3>2 DEF Armed
  <2>2. \A a \in Agents : ~Wakes(a, q)
    BY DEF Wakes
  <2> QED
    BY <2>1, <2>2 DEF Token
<1>6. QueuedInv /\ CancelInv
  BY DEF QueuedInv, Announced, CancelInv, Cancelation, Agents
<1> QED
  BY <1>1, <1>2, <1>3, <1>4, <1>5, <1>6 DEF DaemonInv

\* The invariant of the daemon queues, on which the four theorems below rest.
\* Like them it is about uses in which mpsc_daemon_queue_cancel_and_wait is not
\* called on a nested queue that is announced or draining.
THEOREM DaemonInvariant ==
    ASSUME ~CancelBusy
    PROVE  Spec => []DaemonInv
<1>1. Init => DaemonInv
  BY DaemonInit
<1>2. DaemonInv /\ [Next]_vars => DaemonInv'
  <2> SUFFICES ASSUME DaemonInv, [Next]_vars PROVE DaemonInv'
    OBVIOUS
  <2> USE DEF DaemonInv
  <2>1. TypeOK' /\ KindInv'
    BY TypeStep
  <2>2. AgentInv' /\ ReachInv'
    BY AgentStep, ReachStep
  <2>3. ElementInv' /\ NestInv'
    BY ElementStep, NestStep
  <2>4. DrainInv' /\ TokenInv'
    BY DrainStep, TokenStep
  <2>5. QueuedInv' /\ CancelInv'
    BY QueuedStep, CancelStep
  <2> QED
    BY <2>1, <2>2, <2>3, <2>4, <2>5
<1> QED
  BY <1>1, <1>2, PTL DEF Spec

\* The assertions of _mpsc_daemon_queue_drain never fail: a drain starts on a
\* queue that no other drain is at, and for a reason.  If no nested queue is
\* canceled while it is busy.
THEOREM DaemonDrainAssertions ==
    ASSUME ~CancelBusy
    PROVE  Spec => []DrainAssertions
<1>1. DaemonInv => DrainAssertions
  BY DEF DaemonInv, DrainInv, DrainAssertions
<1> QED
  BY <1>1, DaemonInvariant, PTL

\* mpsc_queue_append in mpsc_daemon_enqueue and in
\* _mpsc_daemon_queue_nested_wakeup never links an element that is linked, if no
\* nested queue is canceled while it is busy: the canceler of a busy one calls
\* _mpsc_daemon_queue_nested_wakeup whether the chain is linked or not.
THEOREM DaemonChainEnqueuedOnce ==
    ASSUME ~CancelBusy
    PROVE  Spec => []ChainEnqueuedOnce
<1>1. DaemonInv => ChainEnqueuedOnce
  <2> SUFFICES ASSUME DaemonInv, NEW a \in Agents, pc[a] = "append", Enqueued(obj[a])
               PROVE  FALSE
    BY DEF ChainEnqueuedOnce
  <2>1. obj[a] \in Elements
    BY DEF DaemonInv, AgentInv
  <2>2. CASE obj[a] \in Items
    BY <2>2 DEF DaemonInv, AgentInv, ElementInv
  <2>3. CASE obj[a] \in Nested
    <3> DEFINE q == obj[a]
    <3>1. q \in Queues /\ kind[q] = "NESTED" /\ Armed(q) /\ Wakes(a, q)
      BY <2>3, Destinations DEF DaemonInv, KindInv, Armed, Wakes
    <3>2. "CANCELED" \in state[q]
      BY <3>1 DEF DaemonInv, TokenInv, Token
    <3> QED
      BY <2>3, <3>1, <3>2 DEF DaemonInv, CancelInv, Cancelation
  <2> QED
    BY <2>1, <2>2, <2>3 DEF Elements
<1> QED
  BY <1>1, DaemonInvariant, PTL

\* However mpsc_daemon_enqueue, the drain's look at mpd_state and the wait of
\* its thread interleave, elements are announced, and an announced queue is
\* being drained or on its way to be.  If no nested queue is canceled while it
\* is busy.
THEOREM DaemonNoLostWakeup ==
    ASSUME ~CancelBusy
    PROVE  Spec => []NoLostWakeup
<1>1. DaemonInv => NoLostWakeup
  <2> SUFFICES ASSUME DaemonInv, NEW q \in Queues
               PROVE  /\ Announced(q)
                      /\ "WAKEUP" \in state[q] => Draining(q) \/ Signalled(q)
    BY DEF NoLostWakeup, Announced
  <2>1. Announced(q)
    BY DEF DaemonInv, QueuedInv
  <2>2. ASSUME "WAKEUP" \in state[q], ~Draining(q) PROVE Signalled(q)
    <3>1. dpc[q] \in {"parked", "return"}
      BY <2>2 DEF DaemonInv, TypeOK, DrainInv, Draining
    <3>2. Armed(q) \/ \E a \in Agents : Wakes(a, q)
      BY <2>2, <3>1 DEF DaemonInv, TokenInv, Token, Agents
    <3> QED
      BY <3>2 DEF Armed, Wakes, Signalled
  <2> QED
    BY <2>1, <2>2
<1> QED
  BY <1>1, DaemonInvariant, PTL

\* When mpsc_daemon_queue_cancel_and_wait returns, everything that was sent has
\* been invoked, and nothing uses the queue or is going to.  If no nested queue
\* is canceled while it is busy, in which case its chain may still be linked.
THEOREM DaemonCancelQuiescent ==
    ASSUME ~CancelBusy
    PROVE  Spec => []CancelQuiescent
<1>1. DaemonInv => CancelQuiescent
  <2> SUFFICES ASSUME DaemonInv, NEW q \in Queues, pc[q] = "done"
               PROVE  /\ queued[q] = {} /\ batch[q] = {}
                      /\ dpc[q] \in {"parked", "return", "terminated"}
                      /\ call[q] = {}
                      /\ q \in Nested => ~Enqueued(q)
    BY DEF CancelQuiescent
  <2>1. queued[q] = {} /\ call[q] = {} /\ (q \in Nested => ~Enqueued(q))
    BY DEF DaemonInv, CancelInv, Cancelation
  <2>2. dpc[q] \in {"parked", "return", "terminated"}
    <3>1. CASE kind[q] = "THREAD"
      BY <3>1 DEF DaemonInv, CancelInv, Cancelation
    <3>2. CASE kind[q] = "THREAD_CALL"
      BY <2>1, <3>2 DEF DaemonInv, NestInv
    <3>3. CASE kind[q] = "NESTED"
      BY <3>3 DEF DaemonInv, KindInv, CancelInv, Cancelation
    <3> QED
      BY <3>1, <3>2, <3>3 DEF DaemonInv, KindInv
  <2>3. batch[q] = {}
    BY <2>2 DEF DaemonInv, ElementInv
  <2> QED
    BY <2>1, <2>2, <2>3
<1> QED
  BY <1>1, DaemonInvariant, PTL
=============================================================================
