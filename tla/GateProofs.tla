----------------------------- MODULE GateProofs -----------------------------
(***************************************************************************)
(* Proofs about gates, for any set of threads.  Whether it is stolen or    *)
(* not, one inductive invariant carries the assertions of gate_try_close,   *)
(* gate_close and gate_wait and the push on the holder; until the gate is  *)
(* stolen two more bound the inheritor and justify GATE_HANDOFF.           *)
(***************************************************************************)
EXTENDS Gate, TLAPS

\* A thread on the wait queue does not hold the gate: a signal that takes it
\* off the queue cannot strand a closed gate.
WaiterNotHolder == holder \notin Waitq

\* The inductive invariant.
GateInv ==
    /\ TypeOK
    /\ OpenMeansNoWaiters
    /\ PushReachesHolder
    /\ WaitersBitOwed
    /\ AbortedNotHolder
    /\ WaiterNotHolder

\* Until the gate is stolen, the pushed-on thread is the holder, and it is rid of the
\* push by the waiters bit or by finishing its own wait.
InheritorHolds ==
    inheritor # NULL => /\ inheritor = holder
                        /\ waiters \/ pc[inheritor] = "woken"

\* Until the gate is stolen, a thread that is about to return GATE_HANDOFF holds the
\* gate while it waits for the lock.
HandoffKept ==
    \A t \in Threads : pc[t] = "relock" /\ ret[t] = "HANDOFF" => holder = t

-----------------------------------------------------------------------------
(* The first state.                                                        *)

\* gate_init: a new gate satisfies the invariant.
LEMMA InitGateInv == Init => GateInv
  BY GateAssumption DEF Init, GateInv, TypeOK, OpenMeansNoWaiters, PushReachesHolder,
     WaitersBitOwed, AbortedNotHolder, WaiterNotHolder, Waitq

-----------------------------------------------------------------------------
(* The steps.                                                              *)

\* No operation on a gate breaks the invariant.
LEMMA NextGateInv == GateInv /\ [Next]_vars => GateInv'
  <1> SUFFICES ASSUME GateInv, [Next]_vars PROVE GateInv'
    OBVIOUS
  <1> USE GateAssumption
  <1>1. ASSUME NEW t \in Threads, lck_lock(t) PROVE GateInv'
    BY <1>1 DEF lck_lock, GateInv, TypeOK, OpenMeansNoWaiters, PushReachesHolder,
       WaitersBitOwed, AbortedNotHolder, WaiterNotHolder, Waitq
  <1>2. ASSUME NEW t \in Threads, lck_unlock(t) PROVE GateInv'
    BY <1>2 DEF lck_unlock, GateInv, TypeOK, OpenMeansNoWaiters, PushReachesHolder,
       WaitersBitOwed, AbortedNotHolder, WaiterNotHolder, Waitq
  <1>3. ASSUME NEW t \in Threads, gate_close(t) PROVE GateInv'
    BY <1>3 DEF gate_close, Caller, GateInv, TypeOK, OpenMeansNoWaiters,
       PushReachesHolder, WaitersBitOwed, AbortedNotHolder, WaiterNotHolder, Waitq
  <1>4. ASSUME NEW t \in Threads, gate_open(t) PROVE GateInv'
    BY <1>4 DEF gate_open, Wake, Caller, GateInv, TypeOK, OpenMeansNoWaiters,
       PushReachesHolder, WaitersBitOwed, AbortedNotHolder, WaiterNotHolder, Waitq
  <1>5. ASSUME NEW t \in Threads, gate_steal(t) PROVE GateInv'
    <2>1. pc[t] = "run" /\ holder' = t /\ UNCHANGED <<waiters, lock, pc, wres, ret>>
      BY <1>5 DEF gate_steal, Caller
    <2>2. TypeOK'
      BY <1>5, <2>1 DEF gate_steal, Complete, GateInv, TypeOK
    <2>3. PushReachesHolder'   \* a waiter implies the bit and a turnstile to redirect
      BY <1>5, <2>1 DEF gate_steal, Complete, Users, Waitq, GateInv, PushReachesHolder
    <2>4. (OpenMeansNoWaiters /\ WaitersBitOwed)'
      BY <2>1 DEF GateInv, OpenMeansNoWaiters, WaitersBitOwed, Waitq
    <2>5. (AbortedNotHolder /\ WaiterNotHolder)'
      BY <2>1 DEF AbortedNotHolder, WaiterNotHolder, Waitq
    <2> QED
      BY <2>2, <2>3, <2>4, <2>5 DEF GateInv
  <1>6. ASSUME NEW t \in Threads, NEW u \in Threads, gate_handoff_success(t, u)
        PROVE GateInv'
    <2>1. /\ holder' = u /\ inheritor' = u /\ waiters' = (Waitq \ {u} # {})
          /\ pc' = [v \in Threads |-> IF v = u THEN "woken" ELSE pc[v]]
          /\ wres' = [v \in Threads |-> IF v = u THEN "AWAKENED" ELSE wres[v]]
          /\ UNCHANGED <<lock, ret>>
      BY <1>6 DEF gate_handoff_success, Wake
    <2>2. Waitq' = Waitq \ {u}
      BY <2>1 DEF Waitq
    <2>3. TypeOK'
      BY <2>1 DEF GateInv, TypeOK
    <2>4. (OpenMeansNoWaiters /\ PushReachesHolder /\ WaiterNotHolder)'
      BY <2>1, <2>2 DEF OpenMeansNoWaiters, PushReachesHolder, WaiterNotHolder
    <2>5. WaitersBitOwed'   \* a bit that stays set stands for another waiter
      BY <2>1, <2>2 DEF WaitersBitOwed, Waitq
    <2>6. AbortedNotHolder'   \* the new holder was on the queue, so it was awakened
      BY <2>1 DEF AbortedNotHolder
    <2> QED
      BY <2>3, <2>4, <2>5, <2>6 DEF GateInv
  <1>7. ASSUME NEW t \in Threads, NEW flag \in BOOLEAN, gate_handoff_not_waiting(t, flag)
        PROVE GateInv'
    BY <1>7 DEF gate_handoff_not_waiting, Complete, Users, Caller, GateInv, TypeOK,
       OpenMeansNoWaiters, PushReachesHolder, WaitersBitOwed, AbortedNotHolder,
       WaiterNotHolder, Waitq
  <1>8. ASSUME NEW t \in Threads, gate_wait(t) PROVE GateInv'
    BY <1>8 DEF gate_wait, Caller, GateInv, TypeOK, OpenMeansNoWaiters,
       PushReachesHolder, WaitersBitOwed, AbortedNotHolder, WaiterNotHolder, Waitq
  <1>9. ASSUME NEW t \in Threads, gate_wait_aborted(t) PROVE GateInv'
    BY <1>9 DEF gate_wait_aborted, Wake, Caller, GateInv, TypeOK, OpenMeansNoWaiters,
       PushReachesHolder, WaitersBitOwed, AbortedNotHolder, WaiterNotHolder, Waitq
  <1>10. ASSUME NEW t \in Threads, NEW result \in {"INTERRUPTED", "TIMED_OUT"},
                clear_wait(t, result)
         PROVE GateInv'
    BY <1>10 DEF clear_wait, Wake, GateInv, TypeOK, OpenMeansNoWaiters,
       PushReachesHolder, WaitersBitOwed, AbortedNotHolder, WaiterNotHolder, Waitq
  <1>11. ASSUME NEW t \in Threads, gate_wait_finish(t) PROVE GateInv'
    <2> DEFINE aborted == wres[t] # "AWAKENED"
    <2>1. /\ pc[t] = "woken" /\ pc' = [pc EXCEPT ![t] = "relock"]
          /\ wres' = [wres EXCEPT ![t] = "none"]
          /\ waiters' = IF aborted THEN Waitq # {} ELSE waiters
          /\ UNCHANGED <<holder, lock>>
      BY <1>11 DEF gate_wait_finish, Aborted, ClearInheritor, WaitersLeft, WaitResult
    <2>2. Waitq' = Waitq
      BY <2>1 DEF Waitq, GateInv, TypeOK
    <2>3. TypeOK'
      BY <1>11 DEF gate_wait_finish, Aborted, ClearInheritor, WaitersLeft, WaitResult, Complete, GateInv, TypeOK
    <2>4. OpenMeansNoWaiters'
      BY <2>1, <2>2 DEF GateInv, OpenMeansNoWaiters
    <2>5. PushReachesHolder'   \* with a waiter left, the inheritor is not cleared
      <3>1. Waitq # {} => inheritor' = inheritor
        BY <1>11, <2>1 DEF gate_wait_finish, Aborted, ClearInheritor, WaitersLeft, WaitResult, Complete, Users, Waitq
      <3> QED
        BY <3>1, <2>1, <2>2 DEF GateInv, PushReachesHolder
    <2>6. WaitersBitOwed'   \* an aborted waiter corrects the bit; another owed nothing
      <3>1. CASE aborted
        BY <3>1, <2>1, <2>2 DEF WaitersBitOwed, Waitq
      <3>2. CASE ~aborted
        BY <3>2, <2>1 DEF GateInv, TypeOK, WaitersBitOwed
      <3> QED
        BY <3>1, <3>2
    <2>7. (AbortedNotHolder /\ WaiterNotHolder)'
      BY <2>1, <2>2 DEF GateInv, TypeOK, AbortedNotHolder, WaiterNotHolder
    <2> QED
      BY <2>3, <2>4, <2>5, <2>6, <2>7 DEF GateInv
  <1>12. ASSUME NEW t \in Threads, NEW flag \in BOOLEAN, gate_wait_return(t, flag)
         PROVE GateInv'
    BY <1>12 DEF gate_wait_return, GateInv, TypeOK, OpenMeansNoWaiters,
       PushReachesHolder, WaitersBitOwed, AbortedNotHolder, WaiterNotHolder, Waitq
  <1>13. CASE UNCHANGED vars
    BY <1>13 DEF vars, GateInv, TypeOK, OpenMeansNoWaiters, PushReachesHolder,
       WaitersBitOwed, AbortedNotHolder, WaiterNotHolder, Waitq
  <1> QED
    BY <1>1, <1>2, <1>3, <1>4, <1>5, <1>6, <1>7, <1>8, <1>9, <1>10, <1>11, <1>12,
       <1>13 DEF Next, GateStep

\* The invariant holds in every state of a gate.
LEMMA GateInvariant == Spec => []GateInv
  BY InitGateInv, NextGateInv, PTL DEF Spec

\* Type correctness.
THEOREM GateTypeOK == Spec => []TypeOK
  <1>1. GateInv => TypeOK
    BY DEF GateInv
  <1> QED
    BY <1>1, GateInvariant, PTL

\* The assertions of gate_try_close and gate_close about an open gate hold,
\* for any number of threads that open, hand off, steal and stop waiting.
THEOREM GateOpenMeansNoWaiters == Spec => []OpenMeansNoWaiters
  <1>1. GateInv => OpenMeansNoWaiters
    BY DEF GateInv
  <1> QED
    BY <1>1, GateInvariant, PTL

\* Whoever waits pushes on the thread that now holds the gate, and forces it
\* off the fast path of gate_open and gate_handoff.
THEOREM GatePushReachesHolder == Spec => []PushReachesHolder
  <1>1. GateInv => PushReachesHolder
    BY DEF GateInv
  <1> QED
    BY <1>1, GateInvariant, PTL

\* The waiters bit is never a leftover that nobody is going to correct.
THEOREM GateWaitersBitOwed == Spec => []WaitersBitOwed
  <1>1. GateInv => WaitersBitOwed
    BY DEF GateInv
  <1> QED
    BY <1>1, GateInvariant, PTL

\* The assertion of gate_wait: an aborted wait does not leave the gate with
\* the thread that gave up on it.
THEOREM GateAbortedNotHolder == Spec => []AbortedNotHolder
  <1>1. GateInv => AbortedNotHolder
    BY DEF GateInv
  <1> QED
    BY <1>1, GateInvariant, PTL
-----------------------------------------------------------------------------
(* Gates that nobody has stolen.                                           *)

\* Neither conjunct survives gate_steal, which changes the holder behind the
\* back of a thread that was handed the gate.
NoStealInv == ~stolen => InheritorHolds /\ HandoffKept

\* A new gate pushes on nobody and nobody returns from gate_wait.
LEMMA InitNoStealInv == Init => NoStealInv
  BY GateAssumption DEF Init, NoStealInv, InheritorHolds, HandoffKept

\* Every operation but gate_steal keeps the inheritor the holder and the
\* gate with the thread it was handed to.
LEMMA NextNoStealInv == GateInv /\ NoStealInv /\ [Next]_vars => NoStealInv'
  <1> DEFINE Kept == InheritorHolds /\ HandoffKept
  <1> SUFFICES ASSUME GateInv, InheritorHolds, HandoffKept, GateStep \/ UNCHANGED vars
               PROVE  Kept'
    BY DEF NoStealInv, Next, vars
  <1> USE GateAssumption
  <1>1. ASSUME NEW t \in Threads, lck_lock(t) \/ lck_unlock(t) PROVE Kept'
    BY <1>1 DEF lck_lock, lck_unlock, InheritorHolds, HandoffKept
  <1>2. ASSUME NEW t \in Threads, gate_close(t) PROVE Kept'
    BY <1>2 DEF gate_close, Caller, GateInv, TypeOK, InheritorHolds,
       HandoffKept
  <1>3. ASSUME NEW t \in Threads, gate_open(t) PROVE Kept'
    BY <1>3 DEF gate_open, Wake, Waitq, Caller, GateInv, TypeOK,
       InheritorHolds, HandoffKept
  <1>5. ASSUME NEW t \in Threads, NEW u \in Threads, gate_handoff_success(t, u)
        PROVE Kept'
    BY <1>5 DEF gate_handoff_success, Wake, Caller, GateInv, TypeOK,
       InheritorHolds, HandoffKept
  <1>6. ASSUME NEW t \in Threads, NEW flag \in BOOLEAN, gate_handoff_not_waiting(t, flag)
        PROVE Kept'
    BY <1>6 DEF gate_handoff_not_waiting, Complete, Caller, GateInv, TypeOK,
       InheritorHolds, HandoffKept
  <1>7. ASSUME NEW t \in Threads, gate_wait(t) PROVE Kept'
    BY <1>7 DEF gate_wait, Caller, GateInv, TypeOK, InheritorHolds,
       HandoffKept
  <1>8. ASSUME NEW t \in Threads, gate_wait_aborted(t) PROVE Kept'
    BY <1>8 DEF gate_wait_aborted, Wake, Caller, GateInv, TypeOK,
       InheritorHolds, HandoffKept
  <1>9. ASSUME NEW t \in Threads, NEW result \in {"INTERRUPTED", "TIMED_OUT"},
               clear_wait(t, result)
        PROVE Kept'
    BY <1>9 DEF clear_wait, Wake, Waitq, GateInv, TypeOK, InheritorHolds,
       HandoffKept
  <1>10. ASSUME NEW t \in Threads, gate_wait_finish(t) PROVE Kept'
    <2>1. HandoffKept'
      BY <1>10 DEF gate_wait_finish, Aborted, ClearInheritor, WaitersLeft, WaitResult, GateInv, TypeOK, HandoffKept
    <2>2. InheritorHolds'
      <3>1. CASE Waitq # {}   \* the bit stays set and the push stays on the holder
        BY <1>10, <3>1 DEF gate_wait_finish, Aborted, ClearInheritor, WaitersLeft, WaitResult, Complete, Users, Waitq, GateInv, TypeOK,
           PushReachesHolder, InheritorHolds
      <3>2. CASE Waitq = {}   \* the last one out takes its own push away
        BY <1>10, <3>2 DEF gate_wait_finish, Aborted, ClearInheritor, WaitersLeft, WaitResult, Complete, GateInv, TypeOK,
           InheritorHolds
      <3> QED
        BY <3>1, <3>2
    <2> QED
      BY <2>1, <2>2 DEF NoStealInv
  <1>11. ASSUME NEW t \in Threads, NEW flag \in BOOLEAN, gate_wait_return(t, flag)
         PROVE Kept'
    BY <1>11 DEF gate_wait_return, GateInv, TypeOK, InheritorHolds,
       HandoffKept
  <1>4. CASE UNCHANGED vars
    BY <1>4 DEF vars, InheritorHolds, HandoffKept
  <1> QED
    BY <1>1, <1>2, <1>3, <1>4, <1>5, <1>6, <1>7, <1>8, <1>9, <1>10, <1>11 DEF GateStep

\* Until the gate is stolen, the push ends when its target has released the
\* gate or has come out of the wait in which it was handed the gate.
THEOREM GateInheritorBounded == Spec => []InheritorBounded
  <1>1. NoStealInv => InheritorBounded
    BY DEF NoStealInv, InheritorHolds, InheritorBounded
  <1> QED
    BY <1>1, NextNoStealInv, InitNoStealInv, GateInvariant, PTL DEF Spec

\* Until the gate is stolen, gate_wait returns GATE_HANDOFF only to the holder.
THEOREM GateHandoffMeansHeld == Spec => HandoffMeansHeld
  <1>1. GateInv /\ NoStealInv /\ [Next]_vars =>
          \A t \in Threads :
            /\ pc[t] = "relock" /\ t \in lock' /\ ret[t] = "HANDOFF"
            /\ ~stolen'
            => holder' = t
    <2> SUFFICES ASSUME GateInv, NoStealInv, [Next]_vars, ~stolen',
                        NEW u \in Threads, pc[u] = "relock", ret[u] = "HANDOFF"
                 PROVE holder' = u
      OBVIOUS
    <2>1. ~stolen /\ (GateStep \/ UNCHANGED vars)
      BY DEF Next, vars
    <2>2. holder = u
      BY <2>1 DEF NoStealInv, HandoffKept
    <2> QED   \* only a caller that holds the gate changes the holder
      BY <2>1, <2>2, GateAssumption DEF GateStep, vars, lck_lock, lck_unlock, gate_close,
         gate_open, gate_handoff_success, gate_handoff_not_waiting, gate_wait,
         gate_wait_aborted, clear_wait, gate_wait_finish, gate_wait_return, Caller
  <1> QED
    BY <1>1, NextNoStealInv, InitNoStealInv, GateInvariant, PTL DEF Spec, HandoffMeansHeld
=============================================================================
