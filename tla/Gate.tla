-------------------------------- MODULE Gate --------------------------------
(***************************************************************************)
(* Gates (osfmk/kern/locks.c): a gate is closed by a holder and others     *)
(* wait until it is opened or handed off to them, pushing on the holder's  *)
(* priority through a turnstile.  A gate is used with a mutex or a         *)
(* read-write lock held, which gate_wait drops while it waits.             *)
(*                                                                         *)
(* Everything a gate operation does between gate_ilock and gate_iunlock is *)
(* one step, and so is the compare-and-swap of its fast path, which only   *)
(* succeeds while the interlock and the waiters bit are clear.  A waiter   *)
(* can leave the wait queue at any time without the interlock: a signal or *)
(* a deadline wakes it up.                                                 *)
(***************************************************************************)
EXTENDS Naturals, FiniteSets

CONSTANTS Threads,
          NULL,
          Shared        \* TRUE: the lock is a lck_rw_t held shared; FALSE: exclusive

ASSUME GateAssumption ==
    /\ NULL \notin Threads
    /\ Shared \in BOOLEAN

VARIABLES holder,       \* thread in gate_data, or NULL: the gate is open
          waiters,      \* GATE_WAITERS bit of gate_data
          inheritor,    \* ts_inheritor of the gate's turnstile, who is pushed on
          lock,         \* threads that hold the lock that protects the gate
          pc,           \* "run", or where the thread is inside gate_wait
          wres,         \* what thread_block returned to a thread in gate_wait
          ret,          \* what gate_wait is going to return
          stolen        \* history: gate_steal took the gate from a holder once

vars == <<holder, waiters, inheritor, lock, pc, wres, ret, stolen>>

\* On the turnstile's wait queue.
Waitq == { t \in Threads : pc[t] = "wait" }

\* Between turnstile_prepare and turnstile_complete: the gate has a turnstile.
Users == { t \in Threads : pc[t] \in {"wait", "woken"} }

\* The last turnstile_complete takes the turnstile and its inheritor away.
Complete(remaining, inh) == IF remaining = {} THEN NULL ELSE inh

\* The caller of a gate operation runs with the lock held; no thread waits for
\* or steals a gate that it holds itself.
Caller(t) == pc[t] = "run" /\ t \in lock

Init ==
    /\ holder = NULL /\ waiters = FALSE /\ inheritor = NULL
    /\ lock = {}
    /\ pc = [t \in Threads |-> "run"]
    /\ wres = [t \in Threads |-> "none"]
    /\ ret = [t \in Threads |-> "none"]
    /\ stolen = FALSE
-----------------------------------------------------------------------------
(* The lock that protects the gate (external).                             *)

lck_lock(t) ==
    /\ pc[t] = "run" /\ t \notin lock /\ (Shared \/ lock = {})
    /\ lock' = lock \cup {t}
    /\ UNCHANGED <<holder, waiters, inheritor, pc, wres, ret>>

lck_unlock(t) ==
    /\ Caller(t)
    /\ lock' = lock \ {t}
    /\ UNCHANGED <<holder, waiters, inheritor, pc, wres, ret>>
-----------------------------------------------------------------------------
\* gate_try_close and gate_close of an open gate.  Of a closed one the first
\* returns KERN_FAILURE and changes nothing, and the second panics.
gate_close(t) ==
    /\ Caller(t) /\ holder = NULL
    /\ holder' = t
    /\ waiters' = FALSE
    /\ UNCHANGED <<inheritor, lock, pc, wres, ret>>

\* The threads of S leave the wait queue with this wait result.
Wake(S, result) ==
    /\ pc' = [t \in Threads |-> IF t \in S THEN "woken" ELSE pc[t]]
    /\ wres' = [t \in Threads |-> IF t \in S THEN result ELSE wres[t]]

\* Mutant: the fast path although the waiters bit is set.
gate_open_fast(t) ==
    /\ Caller(t) /\ holder = t
    /\ holder' = NULL
    /\ waiters' = FALSE
    /\ UNCHANGED <<inheritor, lock, pc, wres, ret>>

\* gate_open: with the waiters bit, gate_open_turnstile wakes everyone up.
gate_open(t) ==
    /\ Caller(t) /\ holder = t
    /\ IF waiters THEN Wake(Waitq, "AWAKENED") /\ inheritor' = NULL
                  ELSE UNCHANGED <<pc, wres, inheritor>>
    /\ holder' = NULL
    /\ waiters' = FALSE
    /\ UNCHANGED <<lock, ret>>

\* Mutant: the new holder may have been taken off the wait queue already.
gate_handoff_aborted(t, hp_thread) ==
    /\ Caller(t) /\ holder = t
    /\ waiters /\ hp_thread \in Users
    /\ Wake({hp_thread} \cap Waitq, "AWAKENED")
    /\ holder' = hp_thread
    /\ inheritor' = hp_thread
    /\ waiters' = (Waitq \ {hp_thread} # {})
    /\ UNCHANGED <<lock, ret>>

\* gate_handoff that finds a waiter: it becomes the holder and the inheritor.
gate_handoff_success(t, hp_thread) ==
    /\ Caller(t) /\ holder = t
    /\ waiters /\ hp_thread \in Waitq
    /\ Wake({hp_thread}, "AWAKENED")
    /\ holder' = hp_thread
    /\ inheritor' = hp_thread
    /\ waiters' = (Waitq \ {hp_thread} # {})
    /\ UNCHANGED <<lock, ret>>

\* gate_handoff that finds none, and keeps the gate (GATE_HANDOFF_DEFAULT) or
\* opens it; the waiters bit can be set by waiters that were interrupted.
gate_handoff_not_waiting(t, open_if_no_waiters) ==
    /\ Caller(t) /\ holder = t
    /\ ~waiters \/ Waitq = {}
    /\ IF open_if_no_waiters
         THEN /\ holder' = NULL
              /\ waiters' = FALSE
              /\ inheritor' = IF waiters THEN NULL ELSE inheritor
         ELSE /\ UNCHANGED <<holder, waiters>>
              /\ inheritor' = IF waiters THEN Complete(Users, inheritor) ELSE inheritor
    /\ UNCHANGED <<lock, pc, wres, ret>>

\* Mutant: the waiters go on pushing on the thread that lost the gate.
gate_steal_keeps_push(t) ==
    /\ Caller(t) /\ holder \notin {NULL, t}
    /\ holder' = t
    /\ UNCHANGED <<inheritor, waiters, lock, pc, wres, ret>>

\* gate_steal of a closed gate; the push is redirected if the bit is set.
gate_steal(t) ==
    /\ Caller(t) /\ holder \notin {NULL, t}
    /\ holder' = t
    /\ inheritor' = IF waiters THEN Complete(Users, t) ELSE inheritor
    /\ UNCHANGED <<waiters, lock, pc, wres, ret>>
-----------------------------------------------------------------------------
(* gate_wait.                                                              *)

\* First half: set the bit, drop the lock, push on the holder and join the
\* wait queue.
gate_wait(t) ==
    /\ Caller(t) /\ holder \notin {NULL, t}
    /\ waiters' = TRUE
    /\ lock' = lock \ {t}
    /\ inheritor' = holder
    /\ pc' = [pc EXCEPT ![t] = "wait"]
    /\ UNCHANGED <<holder, wres, ret>>

\* The same when waitq_assert_wait64 refuses to queue an aborted thread.
gate_wait_aborted(t) ==
    /\ Caller(t) /\ holder \notin {NULL, t}
    /\ waiters' = TRUE
    /\ lock' = lock \ {t}
    /\ Wake({t}, "INTERRUPTED")
    /\ UNCHANGED <<holder, inheritor, ret>>

\* A signal or the deadline takes a waiter off the queue.
clear_wait(t, result) ==
    /\ t \in Waitq
    /\ Wake({t}, result)
    /\ UNCHANGED <<holder, waiters, inheritor, lock, ret>>

\* The second half finds out what became of the gate: t was interrupted or
\* timed out, ...
Aborted(t) == wres[t] # "AWAKENED"

\* Mutant: only an aborted wait looks after the inheritor.
ClearInheritorAborted(t) == Waitq = {} /\ holder # NULL /\ Aborted(t)

\* ... the last waiter leaves a closed gate and takes its own push along, ...
ClearInheritor(t) == Waitq = {} /\ holder # NULL /\ (Aborted(t) \/ holder = t)

\* Mutant: an aborted wait leaves the bit as it is.
WaitersLeftKept(t) == waiters

\* ... an aborted wait corrects the waiters bit, ...
WaitersLeft(t) == IF Aborted(t) THEN Waitq # {} ELSE waiters

\* Mutant: a closed gate is taken for a gate that was handed off to t.
WaitResultClosed(t) == IF Aborted(t) THEN wres[t]
                       ELSE IF holder # NULL THEN "HANDOFF" ELSE "OPENED"

\* ... and the gate was handed off to t, or opened.
WaitResult(t) == IF Aborted(t) THEN wres[t]
                 ELSE IF holder = t THEN "HANDOFF" ELSE "OPENED"

\* Second half, under the interlock again.
gate_wait_finish(t) ==
    /\ pc[t] = "woken"
    /\ inheritor' = Complete(Users \ {t}, IF ClearInheritor(t) THEN NULL ELSE inheritor)
    /\ waiters' = WaitersLeft(t)
    /\ ret' = [ret EXCEPT ![t] = WaitResult(t)]
    /\ wres' = [wres EXCEPT ![t] = "none"]
    /\ pc' = [pc EXCEPT ![t] = "relock"]
    /\ UNCHANGED <<holder, lock>>

\* primitive_lock, which does nothing under LCK_SLEEP_UNLOCK, and the return.
gate_wait_return(t, sleep_unlock) ==
    /\ pc[t] = "relock" /\ (sleep_unlock \/ Shared \/ lock = {})
    /\ lock' = IF sleep_unlock THEN lock ELSE lock \cup {t}
    /\ ret' = [ret EXCEPT ![t] = "none"]
    /\ pc' = [pc EXCEPT ![t] = "run"]
    /\ UNCHANGED <<holder, waiters, inheritor, wres>>
-----------------------------------------------------------------------------
GateStep ==
    \E t \in Threads :
      \/ lck_lock(t) \/ lck_unlock(t)
      \/ gate_close(t) \/ gate_open(t)
      \/ \E u \in Threads : gate_handoff_success(t, u)
      \/ \E flag \in BOOLEAN : gate_handoff_not_waiting(t, flag)
      \/ gate_wait(t) \/ gate_wait_aborted(t)
      \/ \E result \in {"INTERRUPTED", "TIMED_OUT"} : clear_wait(t, result)
      \/ gate_wait_finish(t)
      \/ \E flag \in BOOLEAN : gate_wait_return(t, flag)

Next ==
    \/ GateStep /\ UNCHANGED stolen
    \/ (\E t \in Threads : gate_steal(t)) /\ stolen' = TRUE

Spec == Init /\ [][Next]_vars
-----------------------------------------------------------------------------
(* Properties.                                                             *)

\* Types; gate_wait returns a gate_wait_result_t and not a wait_result_t.
TypeOK ==
    /\ holder \in Threads \cup {NULL}
    /\ waiters \in BOOLEAN
    /\ inheritor \in Threads \cup {NULL}
    /\ lock \subseteq Threads
    /\ pc \in [Threads -> {"run", "wait", "woken", "relock"}]
    /\ wres \in [Threads -> {"none", "AWAKENED", "INTERRUPTED", "TIMED_OUT"}]
    /\ ret \in [Threads -> {"none", "HANDOFF", "OPENED", "INTERRUPTED", "TIMED_OUT"}]

\* The assertions of gate_try_close and gate_close: an open gate has neither
\* the waiters bit nor anybody on its wait queue, whatever mix of opens,
\* handoffs, steals and interrupted waits led to it.
OpenMeansNoWaiters == holder = NULL => ~waiters /\ Waitq = {}

\* While anyone is on the wait queue, the bit forces the holder off the fast
\* path, and the turnstile pushes on the present holder and on nobody else.
PushReachesHolder == Waitq # {} => waiters /\ inheritor = holder /\ holder # NULL

\* A set bit with nobody on the wait queue is the leftover of an aborted wait
\* that has yet to correct it: the slow path is never taken for ever.
WaitersBitOwed ==
    waiters => \E t \in Threads : \/ pc[t] = "wait"
                                  \/ pc[t] = "woken" /\ wres[t] # "AWAKENED"

\* The assertion of gate_wait: the gate is never handed off to a thread that
\* a signal or a timeout already took off the wait queue.
AbortedNotHolder ==
    \A t \in Threads : pc[t] = "woken" /\ wres[t] # "AWAKENED" => holder # t

\* As long as the gate is not stolen, gate_wait returns GATE_HANDOFF, with the
\* lock held, only to the thread that holds the gate and has to open it or
\* hand it off.  gate_steal can take it away while the lock is reacquired.
HandoffMeansHeld ==
    [][\A t \in Threads :
         /\ pc[t] = "relock" /\ t \in lock' /\ ret[t] = "HANDOFF"
         /\ ~stolen'
         => holder' = t]_vars

\* As long as the gate is not stolen, the thread that the turnstile pushes on
\* holds the gate, or is still inside the wait from which it was handed the
\* gate: once it has finished the wait, or released the gate, the push is gone.
InheritorBounded ==
    ~stolen /\ inheritor # NULL => inheritor = holder \/ pc[inheritor] = "woken"
=============================================================================
