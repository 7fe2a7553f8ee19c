----------------------- MODULE ThreadCallGroupProofs -----------------------
(***************************************************************************)
(* Proofs for ThreadCallGroup, for any number of groups, of either kind,   *)
(* with any targets and any number of calls.                               *)
(*                                                                         *)
(* The counts are exact by themselves (CountInv).  That pending work is    *)
(* covered needs one fact more: a thread is never left parked while calls  *)
(* are pending and nobody is active (IdleGoesFirst), for the daemon passes *)
(* over a parallel group that has an idle thread.                          *)
(***************************************************************************)
EXTENDS ThreadCallGroup, TLAPS

CountInv == TypeOK /\ CountsMatch

\* thread_call_wake takes a parked thread before anything else, and threads
\* park only when nothing is pending.
IdleGoesFirst ==
    \A g \in Groups : pending_count[g] > 0 /\ active_count[g] = 0 => idle_count[g] = 0

WorkInv == WorkCovered /\ IdleGoesFirst

-----------------------------------------------------------------------------
(* The counts.                                                             *)

\* What thread_call_wake does to the counts, the threads and the timers.
Woken(g, active) ==
    /\ active_count' \in [Groups -> Nat]
    /\ idle_count' \in [Groups -> Nat]
    /\ parked' \in [Groups -> Nat]
    /\ starting' \in [Groups -> Nat]
    /\ dealloc_active' \in [Groups -> BOOLEAN]
    /\ timer' \in [Groups -> {"off", "armed", "firing"}]
    /\ fresh' \in [Groups -> BOOLEAN]
    /\ daemon_awake' \in BOOLEAN
    /\ waking' \subseteq Groups
    /\ daemon' = daemon /\ next' = next
    /\ \A h \in Groups : idle_count'[h] = parked'[h]
    /\ \A h \in Groups \ {g} :
          active_count'[h] = active_count[h] /\ starting'[h] = starting[h]
    /\ active_count'[g] - starting'[g] = active - starting[g]

\* Whatever thread_call_wake finds, it changes the state in this way.
LEMMA WakeTypes ==
    ASSUME CountInv, NEW g \in Groups, NEW pending \in Nat, NEW active \in Nat,
           thread_call_wake(g, pending, active)
    PROVE  Woken(g, active)
<1> USE DEF Woken
<1>1. ASSUME WakeIdle(g, active)
      PROVE  /\ active_count' \in [Groups -> Nat]
             /\ idle_count' \in [Groups -> Nat]
             /\ parked' \in [Groups -> Nat]
             /\ starting' \in [Groups -> Nat]
             /\ \A h \in Groups : idle_count'[h] = parked'[h]
             /\ \A h \in Groups \ {g} :
                   active_count'[h] = active_count[h] /\ starting'[h] = starting[h]
             /\ active_count'[g] - starting'[g] = active - starting[g]
  BY <1>1 DEF CountInv, TypeOK, CountsMatch, WakeIdle, Inc, Dec
<1>2. ASSUME WakeIdle(g, active)
      PROVE  /\ dealloc_active' \in [Groups -> BOOLEAN]
             /\ timer' \in [Groups -> {"off", "armed", "firing"}]
             /\ fresh' \in [Groups -> BOOLEAN]
             /\ daemon_awake' \in BOOLEAN
             /\ waking' \subseteq Groups
             /\ daemon' = daemon /\ next' = next
  BY <1>2 DEF CountInv, TypeOK, WakeIdle, daemons
<1>3. CASE WakeIdle(g, active)
  BY <1>1, <1>2, <1>3
<1>4. CASE AskDaemon(g, pending, active)
  BY <1>4 DEF CountInv, TypeOK, CountsMatch, AskDaemon, timers
<1>5. CASE LetBe(g, active)
  BY <1>5 DEF CountInv, TypeOK, CountsMatch, LetBe, timers, daemons
<1> QED
  BY <1>3, <1>4, <1>5 DEF thread_call_wake

\* The same for a thread that has no more work to do.
LEMMA ParkTypes ==
    ASSUME CountInv, NEW g \in Groups, Park(g), active_count[g] > 0
    PROVE  /\ active_count' = [active_count EXCEPT ![g] = @ - 1]
           /\ active_count' \in [Groups -> Nat]
           /\ pending_count' = pending_count
           /\ blocked_count' = blocked_count
           /\ idle_count' \in [Groups -> Nat]
           /\ parked' \in [Groups -> Nat]
           /\ dealloc_active' \in [Groups -> BOOLEAN]
           /\ timer' \in [Groups -> {"off", "armed", "firing"}]
           /\ fresh' \in [Groups -> BOOLEAN]
           /\ \A h \in Groups : idle_count'[h] = parked'[h]
<1>1. /\ active_count' = [active_count EXCEPT ![g] = @ - 1]
      /\ active_count' \in [Groups -> Nat]
      /\ pending_count' = pending_count
      /\ blocked_count' = blocked_count
  BY DEF CountInv, TypeOK, Park, Dec
<1>2. CASE ParkParallel(g)
  <2>1. /\ idle_count' \in [Groups -> Nat]
        /\ parked' \in [Groups -> Nat]
        /\ \A h \in Groups : idle_count'[h] = parked'[h]
    BY <1>2 DEF CountInv, TypeOK, CountsMatch, ParkParallel, Inc
  <2>2. /\ dealloc_active' \in [Groups -> BOOLEAN]
        /\ timer' \in [Groups -> {"off", "armed", "firing"}]
        /\ fresh' \in [Groups -> BOOLEAN]
    BY <1>2 DEF CountInv, TypeOK, ParkParallel, StartDeallocTimer
  <2> QED
    BY <1>1, <2>1, <2>2
<1>3. CASE ParkOrTerminate(g)
  BY <1>1, <1>3 DEF CountInv, TypeOK, CountsMatch, ParkOrTerminate, Inc, timers
<1> QED
  BY <1>2, <1>3 DEF Park

\* The counts are exact after thread_call_initialize.
LEMMA CountInvInit == Init => CountInv
  BY GroupAssumption DEF Init, Zero, No, CountInv, TypeOK, CountsMatch, Groups, DaemonPlaces

\* Every step of a thread, a client, the daemon or the timer keeps them exact.
LEMMA CountInvStep == CountInv /\ [Next]_vars => CountInv'
<1> SUFFICES ASSUME CountInv, [Next]_vars PROVE CountInv'
  OBVIOUS
<1> USE DEF CountInv, TypeOK, CountsMatch
<1>1. ASSUME NEW g \in Groups, pending_call_enqueue(g) PROVE CountInv'
  <2>1. pending_count[g] + 1 \in Nat /\ active_count[g] \in Nat
    BY DEF CountInv, TypeOK
  <2>2. Woken(g, active_count[g])
    BY <1>1, <2>1, WakeTypes DEF pending_call_enqueue
  <2>3. /\ pending_count' \in [Groups -> Nat]
        /\ UNCHANGED <<blocked_count, running, blocked>>
    BY <1>1 DEF pending_call_enqueue, Inc, CountInv, TypeOK
  <2>4. TypeOK'
    BY <2>2, <2>3 DEF Woken, CountInv, TypeOK
  <2>5. CountsMatch'
    BY <2>2, <2>3 DEF Woken, CountInv, TypeOK, CountsMatch
  <2> QED
    BY <2>4, <2>5 DEF CountInv
<1>2. ASSUME NEW g \in Groups, call_dequeue(g) PROVE CountInv'
  BY <1>2 DEF call_dequeue, Dec, counts, timers, threads, daemons
<1>3. ASSUME NEW g \in Groups, Block(g) PROVE CountInv'
  <2>1. pending_count[g] \in Nat /\ active_count[g] - 1 \in Nat
    BY <1>3 DEF Block, CountInv, TypeOK, CountsMatch
  <2>2. Woken(g, active_count[g] - 1)
    <3>1. CASE pending_count[g] > 0
      BY <1>3, <2>1, <3>1, WakeTypes DEF Block
    <3>2. CASE ~(pending_count[g] > 0)
      BY <1>3, <2>1, <3>2 DEF Block, LetBe, Woken, CountInv, TypeOK, CountsMatch, timers, daemons
    <3> QED
      BY <3>1, <3>2
  <2>3. /\ pending_count' = pending_count
        /\ running' = [running EXCEPT ![g] = @ - 1] /\ running[g] > 0
        /\ blocked' = [blocked EXCEPT ![g] = @ + 1]
        /\ blocked_count' = [blocked_count EXCEPT ![g] = @ + 1]
    BY <1>3 DEF Block, Inc, Dec
  <2>4. TypeOK'
    BY <2>2, <2>3 DEF Woken, CountInv, TypeOK
  <2>5. CountsMatch'
    BY <2>1, <2>2, <2>3 DEF Woken, CountInv, TypeOK, CountsMatch
  <2> QED
    BY <2>4, <2>5 DEF CountInv
<1>4. ASSUME NEW g \in Groups, Unblock(g) PROVE CountInv'
  BY <1>4 DEF Unblock, Inc, Dec, timers, daemons
<1>5. ASSUME NEW g \in Groups, ThreadTakes(g) PROVE CountInv'
  BY <1>5 DEF ThreadTakes, TakeCall, Inc, Dec, counts, timers, daemons
<1>6. ASSUME NEW g \in Groups, ThreadParks(g) PROVE CountInv'
  <2>1. active_count[g] > 0
    BY <1>6 DEF ThreadParks
  <2> QED
    BY <1>6, <2>1, ParkTypes DEF ThreadParks, Dec, daemons
<1>7. ASSUME NEW g \in Groups, ReturnTakes(g) PROVE CountInv'
  BY <1>7 DEF ReturnTakes, TakeCall, Dec, counts, timers, daemons
<1>8. ASSUME NEW g \in Groups, ReturnParks(g) PROVE CountInv'
  <2>1. active_count[g] > 0
    BY <1>8 DEF ReturnParks
  <2> QED
    BY <1>8, <2>1, ParkTypes DEF ReturnParks, Dec, daemons
<1>9. ASSUME NEW g \in Groups, DeallocTimerExpires(g) PROVE CountInv'
  BY <1>9 DEF DeallocTimerExpires, counts, threads, daemons
<1>10. ASSUME NEW g \in Groups, NEW long \in BOOLEAN, thread_call_dealloc_timer(g, long)
       PROVE  CountInv'
  <2>1. /\ dealloc_active' \in [Groups -> BOOLEAN]
        /\ timer' \in [Groups -> {"off", "armed", "firing"}]
        /\ fresh' \in [Groups -> BOOLEAN]
    BY <1>10 DEF thread_call_dealloc_timer, StartDeallocTimer
  <2>2. /\ idle_count' \in [Groups -> Nat]
        /\ parked' \in [Groups -> Nat]
        /\ \A h \in Groups : idle_count'[h] = parked'[h]
    BY <1>10 DEF thread_call_dealloc_timer
  <2> QED
    BY <1>10, <2>1, <2>2 DEF thread_call_dealloc_timer, daemons
<1>11. ASSUME NEW g \in Groups, DaemonWakeup(g) PROVE CountInv'
  BY <1>11 DEF DaemonWakeup, DaemonPlaces, counts, timers, threads
<1>12. CASE DaemonTop
  <2>1. 1 \in 1 .. GroupCount + 1
    BY GroupAssumption
  <2> QED
    BY <1>12, <2>1 DEF DaemonTop, DaemonPlaces, counts, timers, threads
<1>13. CASE DaemonAdds
  <2>1. TypeOK'
    BY <1>13 DEF DaemonAdds, DaemonPlaces, Inc, timers, threads
  <2>2. CountsMatch'
    BY <1>13 DEF DaemonAdds, Inc, threads
  <2> QED
    BY <2>1, <2>2 DEF CountInv
<1>14. CASE DaemonMovesOn
  <2>1. next' \in 1 .. GroupCount + 1
    BY <1>14, GroupAssumption DEF DaemonMovesOn, Groups
  <2>2. /\ daemon = "scan"
        /\ UNCHANGED <<pending_count, counts, timers, threads, daemon_awake, daemon, waking>>
    BY <1>14 DEF DaemonMovesOn
  <2> QED
    BY <2>1, <2>2 DEF counts, timers, threads
<1>15. CASE DaemonCreate
  <2>1. TypeOK'
    <3>1. starting' \in [Groups -> Nat]
      <4>1. CASE next \in Groups
        BY <1>15, <4>1 DEF DaemonCreate, Inc
      <4>2. CASE next \notin Groups
        BY <1>15, <4>2 DEF DaemonCreate, Inc
      <4> QED
        BY <4>1, <4>2
    <3> QED
      BY <1>15, <3>1 DEF DaemonCreate, DaemonPlaces, counts, timers
  <2>2. CountsMatch'
    BY <1>15 DEF DaemonCreate, Inc, counts
  <2> QED
    BY <2>1, <2>2 DEF CountInv
<1>16. CASE DaemonScanned \/ DaemonAsserts \/ DaemonBlocks
  <2>1. /\ daemon \notin {"create"} /\ daemon' \in DaemonPlaces \ {"create"}
        /\ UNCHANGED <<pending_count, counts, timers, threads, daemon_awake, next, waking>>
    BY <1>16 DEF DaemonScanned, DaemonAsserts, DaemonBlocks, DaemonPlaces
  <2> QED
    BY <2>1 DEF counts, timers, threads
<1>17. CASE UNCHANGED vars
  BY <1>17 DEF vars, counts, timers, threads, daemons
<1> QED
  BY <1>1, <1>2, <1>3, <1>4, <1>5, <1>6, <1>7, <1>8, <1>9, <1>10, <1>11, <1>12,
     <1>13, <1>14, <1>15, <1>16, <1>17
  DEF Next, ThreadStarts, CallReturns, DaemonSteps

\* The types and the counts, for every behaviour of the groups.
THEOREM GroupCountInv == Spec => []CountInv
  BY CountInvInit, CountInvStep, PTL DEF Spec

\* The counts of thread_call.c are the threads: active_count falls to zero
\* exactly when no thread is left that would take a pending call.
THEOREM GroupCountsMatch == Spec => []CountsMatch
<1>1. CountInv => CountsMatch
  BY DEF CountInv
<1> QED
  BY <1>1, GroupCountInv, PTL

-----------------------------------------------------------------------------
(* Pending work is covered.                                                *)

\* The parts of WorkInv that speak of one group, and of the daemon.
Covered(g) ==
    /\ pending_count[g] > 0 => active_count[g] > 0 \/ DaemonWillScan(g)
    /\ pending_count[g] > 0 /\ active_count[g] = 0 => idle_count[g] = 0

AwakeInv == daemon_awake /\ daemon = "asleep" => waking # {}

\* The invariant, group by group.
LEMMA WorkInvSplit == WorkInv <=> AwakeInv /\ \A g \in Groups : Covered(g)
  BY DEF WorkInv, WorkCovered, IdleGoesFirst, AwakeInv, Covered

\* After thread_call_wake with calls pending, the group has an active thread,
\* or no idle one and a daemon that was told; other groups lose nothing.
LEMMA WakeCovers ==
    ASSUME CountInv, WorkInv, NEW g \in Groups, NEW pending \in Nat, NEW active \in Nat,
           pending > 0, thread_call_wake(g, pending, active)
    PROVE  /\ active_count'[g] > 0 \/ (daemon_awake' /\ idle_count'[g] = 0)
           /\ \A h \in Groups \ {g} :
                 active_count'[h] = active_count[h] /\ idle_count'[h] = idle_count[h]
           /\ daemon' = daemon /\ next' = next
           /\ daemon_awake => daemon_awake'
           /\ AwakeInv'
<1>1. CASE WakeIdle(g, active)
  BY <1>1 DEF WakeIdle, Dec, daemons, CountInv, TypeOK, WorkInv, WorkCovered, AwakeInv
<1>2. CASE AskDaemon(g, pending, active)
  <2>1. /\ active_count'[g] = active /\ idle_count'[g] = 0
        /\ \A h \in Groups \ {g} :
              active_count'[h] = active_count[h] /\ idle_count'[h] = idle_count[h]
        /\ daemon' = daemon /\ next' = next
    BY <1>2 DEF AskDaemon, CountInv, TypeOK
  <2>2. PICK light \in BOOLEAN :
          IF ShouldAdd(g, pending, active, 0, light) /\ ~daemon_awake
          THEN daemon_awake' = TRUE /\ waking' = waking \union {g}
          ELSE UNCHANGED <<daemon_awake, waking>>
    BY <1>2 DEF AskDaemon
  <2>3. active = 0 => ShouldAdd(g, pending, active, 0, light)
    BY DEF ShouldAdd
  <2>4. daemon_awake => daemon_awake'
    BY <2>2
  <2>5. active = 0 => daemon_awake'
    BY <2>2, <2>3
  <2>6. AwakeInv'
    BY <2>1, <2>2 DEF WorkInv, WorkCovered, AwakeInv
  <2> QED
    BY <2>1, <2>4, <2>5, <2>6
<1>3. CASE LetBe(g, active) /\ active # 0
  BY <1>3 DEF LetBe, daemons, CountInv, TypeOK, WorkInv, WorkCovered, AwakeInv
<1> QED
  BY <1>1, <1>2, <1>3 DEF thread_call_wake

\* Nothing is pending after thread_call_initialize.
LEMMA WorkInvInit == Init => WorkInv
  BY DEF Init, Zero, WorkInv, WorkCovered, IdleGoesFirst, DaemonWillScan

\* Every step keeps pending work covered.
LEMMA WorkInvStep == CountInv /\ WorkInv /\ [Next]_vars => WorkInv'
<1> SUFFICES ASSUME CountInv, WorkInv, [Next]_vars PROVE AwakeInv' /\ \A h \in Groups : Covered(h)'
  BY DEF WorkInv, WorkCovered, IdleGoesFirst, AwakeInv, Covered
<1>0. AwakeInv /\ \A h \in Groups : Covered(h)
  BY WorkInvSplit
<1> DEFINE Goal == AwakeInv' /\ \A h \in Groups : Covered(h)'
<1>1. ASSUME NEW g \in Groups, pending_call_enqueue(g) PROVE Goal
  <2>1. pending_count[g] + 1 \in Nat /\ active_count[g] \in Nat /\ pending_count[g] + 1 > 0
    BY DEF CountInv, TypeOK
  <2>2. thread_call_wake(g, pending_count[g] + 1, active_count[g])
    BY <1>1 DEF pending_call_enqueue
  <2>3. \A h \in Groups \ {g} : pending_count'[h] = pending_count[h]
    BY <1>1 DEF pending_call_enqueue, Inc, CountInv, TypeOK
  <2> QED
    BY <1>0, <2>1, <2>2, <2>3, WakeCovers DEF Covered, DaemonWillScan
<1>2. ASSUME NEW g \in Groups, call_dequeue(g) PROVE Goal
  BY <1>0, <1>2 DEF call_dequeue, Dec, counts, threads, daemons, CountInv, TypeOK, AwakeInv,
     Covered, DaemonWillScan
<1>3. ASSUME NEW g \in Groups, Block(g) PROVE Goal
  <2>1. pending_count[g] \in Nat /\ active_count[g] - 1 \in Nat
    BY <1>3 DEF Block, CountInv, TypeOK, CountsMatch
  <2>2. CASE pending_count[g] > 0
    <3>1. thread_call_wake(g, pending_count[g], active_count[g] - 1)
      BY <1>3, <2>2 DEF Block
    <3>2. pending_count' = pending_count
      BY <1>3 DEF Block
    <3> QED
      BY <1>0, <2>1, <2>2, <3>1, <3>2, WakeCovers DEF Covered, DaemonWillScan
  <2>3. CASE ~(pending_count[g] > 0)
    BY <1>0, <1>3, <2>1, <2>3 DEF Block, LetBe, daemons, CountInv, TypeOK, AwakeInv,
       Covered, DaemonWillScan
  <2> QED
    BY <2>2, <2>3
<1>4. ASSUME NEW g \in Groups, Unblock(g) PROVE Goal
  BY <1>0, <1>4 DEF Unblock, Inc, daemons, CountInv, TypeOK, AwakeInv, Covered, DaemonWillScan
<1>5. ASSUME NEW g \in Groups, TakeCall(g), UNCHANGED daemons PROVE Goal
  BY <1>0, <1>5 DEF TakeCall, Dec, counts, daemons, CountInv, TypeOK, AwakeInv,
     Covered, DaemonWillScan
<1>6. ASSUME NEW g \in Groups, Park(g), UNCHANGED daemons PROVE Goal
  <2>1. pending_count' = pending_count /\ pending_count[g] = 0
    BY <1>6 DEF Park
  <2>2. \A h \in Groups \ {g} :
           active_count'[h] = active_count[h] /\ idle_count'[h] = idle_count[h]
    BY <1>6 DEF Park, ParkParallel, ParkOrTerminate, Inc, Dec, CountInv, TypeOK
  <2> QED
    BY <1>0, <1>6, <2>1, <2>2 DEF daemons, AwakeInv, Covered, DaemonWillScan
<1>7. ASSUME NEW g \in Groups, NEW long \in BOOLEAN, thread_call_dealloc_timer(g, long)
      PROVE  Goal
  <2>1. /\ UNCHANGED <<pending_count, active_count, daemons>>
        /\ \A h \in Groups : idle_count[h] = 0 => idle_count'[h] = 0
    BY <1>7 DEF thread_call_dealloc_timer, CountInv, TypeOK
  <2> QED
    BY <1>0, <2>1 DEF daemons, AwakeInv, Covered, DaemonWillScan
<1>8. ASSUME NEW g \in Groups, DaemonWakeup(g) PROVE Goal
  BY <1>0, <1>8 DEF DaemonWakeup, counts, AwakeInv, Covered, DaemonWillScan
<1>9. CASE DaemonTop
  BY <1>0, <1>9 DEF DaemonTop, counts, Groups, AwakeInv, Covered, DaemonWillScan
<1>10. CASE DaemonAdds
  <2>1. /\ UNCHANGED <<pending_count, idle_count, daemon_awake, next>>
        /\ daemon = "scan" /\ daemon' = "create"
        /\ \A h \in Groups : active_count'[h] >= active_count[h]
    BY <1>10 DEF DaemonAdds, Inc, CountInv, TypeOK
  <2>2. AwakeInv'
    BY <2>1 DEF AwakeInv
  <2>3. \A h \in Groups : DaemonWillScan(h) => DaemonWillScan(h)'
    BY <2>1 DEF DaemonWillScan
  <2>4. active_count \in [Groups -> Nat] /\ active_count' \in [Groups -> Nat]
    BY <1>10 DEF DaemonAdds, Inc, CountInv, TypeOK
  <2>5. ASSUME NEW h \in Groups PROVE Covered(h)'
    BY <1>0, <2>1, <2>3, <2>4 DEF Covered
  <2> QED
    BY <2>2, <2>5
<1>11. CASE DaemonMovesOn
  <2>1. PICK light \in BOOLEAN : ~DaemonLooks(next, light)
    BY <1>11 DEF DaemonMovesOn
  <2>2. /\ UNCHANGED <<pending_count, active_count, idle_count, daemon_awake, daemon, waking>>
        /\ next \in Groups /\ next' = next + 1 /\ daemon = "scan"
    BY <1>11 DEF DaemonMovesOn, counts
  <2>3. pending_count[next] > 0 => active_count[next] > 0 \/ idle_count[next] > 0
    BY <2>1, <2>2 DEF DaemonLooks, ShouldAdd, CountInv, TypeOK
  <2>4. pending_count[next] > 0 => active_count[next] > 0
    BY <1>0, <2>2, <2>3 DEF Covered, CountInv, TypeOK
  <2>5. \A h \in Groups : h # next /\ next <= h => next + 1 <= h
    BY <2>2, GroupAssumption DEF Groups
  <2> QED
    BY <1>0, <2>2, <2>4, <2>5 DEF AwakeInv, Covered, DaemonWillScan
<1>12. CASE DaemonCreate
  BY <1>0, <1>12 DEF DaemonCreate, counts, AwakeInv, Covered, DaemonWillScan
<1>13. CASE DaemonScanned
  <2>1. \A h \in Groups : ~(next <= h)
    BY <1>13, GroupAssumption DEF DaemonScanned, Groups
  <2> QED
    BY <1>0, <1>13, <2>1 DEF DaemonScanned, counts, AwakeInv, Covered, DaemonWillScan
<1>14. CASE DaemonAsserts \/ DaemonBlocks
  BY <1>0, <1>14 DEF DaemonAsserts, DaemonBlocks, counts, AwakeInv, Covered, DaemonWillScan
<1>15. ASSUME NEW g \in Groups, DeallocTimerExpires(g) PROVE Goal
  BY <1>0, <1>15 DEF DeallocTimerExpires, counts, daemons, AwakeInv, Covered, DaemonWillScan
<1>16. CASE UNCHANGED vars
  BY <1>0, <1>16 DEF vars, counts, daemons, AwakeInv, Covered, DaemonWillScan
<1> QED
  BY <1>1, <1>2, <1>3, <1>4, <1>5, <1>6, <1>7, <1>8, <1>9, <1>10, <1>11, <1>12,
     <1>13, <1>14, <1>15, <1>16
  DEF Next, ThreadStarts, ThreadTakes, ThreadParks, CallReturns, ReturnTakes, ReturnParks,
      DaemonSteps

\* Whatever thread_call_wake, the scheduler's callbacks, the daemon and the
\* deallocation timer do, a pending call is never left with every thread of
\* its group blocked or parked and nobody told to create one.
THEOREM GroupWorkCovered == Spec => []WorkCovered
<1>1. WorkInv => WorkCovered
  BY DEF WorkInv
<1> QED
  BY <1>1, GroupCountInv, WorkInvInit, WorkInvStep, PTL DEF Spec

-----------------------------------------------------------------------------
(* The deallocation timer.                                                 *)

\* thread_call_wake keeps the flag and the timer in step.
LEMMA WakeTimed ==
    ASSUME CountInv, SurplusTimed, NEW g \in Groups, NEW pending \in Nat, NEW active \in Nat,
           thread_call_wake(g, pending, active)
    PROVE  SurplusTimed'
<1>1. CASE WakeIdle(g, active)
  <2>1. \A h \in Groups \ {g} :
           /\ idle_count'[h] = idle_count[h] /\ timer'[h] = timer[h]
           /\ dealloc_active'[h] = dealloc_active[h]
    BY <1>1 DEF WakeIdle, Dec, CountInv, TypeOK
  <2>2. idle_count[g] > 0 /\ idle_count'[g] = idle_count[g] - 1
    BY <1>1 DEF WakeIdle, Dec, CountInv, TypeOK
  <2>3. CASE LastIdleWoken(g) /\ timer[g] = "armed"
    <3>1. timer'[g] = "off" /\ idle_count'[g] = 0
      BY <1>1, <2>2, <2>3 DEF WakeIdle, CountInv, TypeOK, LastIdleWoken
    <3>2. dealloc_active'[g] = FALSE
      BY <1>1, <2>3 DEF WakeIdle, CountInv, TypeOK, Cancelled
    <3> QED
      BY <2>1, <3>1, <3>2, GroupAssumption DEF SurplusTimed
  <2>4. CASE ~(LastIdleWoken(g) /\ timer[g] = "armed")
    <3>1. timer'[g] = timer[g]
      BY <1>1, <2>4 DEF WakeIdle, CountInv, TypeOK
    <3>2. dealloc_active'[g] = dealloc_active[g]
      BY <1>1, <2>4 DEF WakeIdle, CountInv, TypeOK, Cancelled
    <3> QED
      BY <2>1, <2>2, <3>1, <3>2, GroupAssumption DEF SurplusTimed, CountInv, TypeOK
  <2> QED
    BY <2>3, <2>4
<1>2. CASE AskDaemon(g, pending, active) \/ LetBe(g, active)
  BY <1>2 DEF AskDaemon, LetBe, timers, SurplusTimed
<1> QED
  BY <1>1, <1>2 DEF thread_call_wake

\* So does a thread that parks or terminates.
LEMMA ParkTimed ==
    ASSUME CountInv, SurplusTimed, NEW g \in Groups, Park(g), active_count[g] > 0
    PROVE  SurplusTimed'
<1>1. CASE ParkParallel(g)
  <2>1. /\ idle_count'[g] = idle_count[g] + 1
        /\ \A h \in Groups \ {g} : idle_count'[h] = idle_count[h]
    BY <1>1 DEF ParkParallel, Inc, CountInv, TypeOK
  <2>2. CASE StartDeallocTimer(g)
    BY <2>1, <2>2 DEF StartDeallocTimer, SurplusTimed, CountInv, TypeOK
  <2>3. CASE /\ UNCHANGED <<dealloc_active, timer>>
             /\ ~(~dealloc_active[g] /\ active_count[g] + idle_count[g] > target_thread_count[g])
    <3>1. dealloc_active[g] \/ idle_count'[g] <= target_thread_count[g]
      BY <2>1, <2>3, GroupAssumption DEF CountInv, TypeOK
    <3> QED
      BY <2>1, <2>3, <3>1, GroupAssumption DEF SurplusTimed, CountInv, TypeOK
  <2> QED
    BY <1>1, <2>2, <2>3 DEF ParkParallel
<1>2. CASE ParkOrTerminate(g)
  BY <1>2 DEF ParkOrTerminate, Inc, timers, SurplusTimed, CountInv, TypeOK
<1> QED
  BY <1>1, <1>2 DEF Park

\* Every step keeps the surplus timed.
LEMMA SurplusTimedStep == CountInv /\ SurplusTimed /\ [Next]_vars => SurplusTimed'
<1> SUFFICES ASSUME CountInv, SurplusTimed, [Next]_vars PROVE SurplusTimed'
  OBVIOUS
<1>1. ASSUME NEW g \in Groups, pending_call_enqueue(g) PROVE SurplusTimed'
  <2>1. pending_count[g] + 1 \in Nat /\ active_count[g] \in Nat
    BY DEF CountInv, TypeOK
  <2> QED
    BY <1>1, <2>1, WakeTimed DEF pending_call_enqueue
<1>2. ASSUME NEW g \in Groups, Block(g) PROVE SurplusTimed'
  <2>1. pending_count[g] \in Nat /\ active_count[g] - 1 \in Nat
    BY <1>2 DEF Block, CountInv, TypeOK, CountsMatch
  <2>2. CASE thread_call_wake(g, pending_count[g], active_count[g] - 1)
    BY <2>1, <2>2, WakeTimed
  <2>3. CASE LetBe(g, active_count[g] - 1)
    BY <2>3 DEF LetBe, timers, SurplusTimed
  <2> QED
    BY <1>2, <2>2, <2>3 DEF Block
<1>3. ASSUME NEW g \in Groups, ThreadParks(g) \/ ReturnParks(g) PROVE SurplusTimed'
  <2>1. active_count[g] > 0
    BY <1>3 DEF ThreadParks, ReturnParks, CountInv, TypeOK, CountsMatch
  <2> QED
    BY <1>3, <2>1, ParkTimed DEF ThreadParks, ReturnParks
<1>4. ASSUME NEW g \in Groups, NEW long \in BOOLEAN, thread_call_dealloc_timer(g, long)
      PROVE  SurplusTimed'
  <2> DEFINE terminated == long /\ idle_count[g] > 0
             idle == IF terminated THEN idle_count[g] - 1 ELSE idle_count[g]
  <2>1. /\ idle_count'[g] = idle /\ idle \in Nat
        /\ \A h \in Groups \ {g} : idle_count'[h] = idle_count[h]
    BY <1>4 DEF thread_call_dealloc_timer, CountInv, TypeOK
  <2>2. CASE StartDeallocTimer(g)
    BY <2>1, <2>2 DEF StartDeallocTimer, SurplusTimed, CountInv, TypeOK
  <2>3. CASE ~(idle > 0 /\ idle + active_count[g] > target_thread_count[g])
    <3>1. /\ dealloc_active' = [dealloc_active EXCEPT ![g] = FALSE]
          /\ timer' = [timer EXCEPT ![g] = "off"]
      BY <1>4, <2>3 DEF thread_call_dealloc_timer
    <3>2. idle <= target_thread_count[g]
      BY <2>1, <2>3, GroupAssumption DEF CountInv, TypeOK
    <3>3. dealloc_active'[g] = FALSE /\ timer'[g] = "off"
      BY <3>1 DEF CountInv, TypeOK
    <3>4. \A h \in Groups \ {g} :
             dealloc_active'[h] = dealloc_active[h] /\ timer'[h] = timer[h]
      BY <3>1 DEF CountInv, TypeOK
    <3>5. ~(idle_count'[g] > target_thread_count[g])
      BY <2>1, <3>2, GroupAssumption
    <3> QED
      BY <2>1, <3>3, <3>4, <3>5 DEF SurplusTimed
  <2> QED
    BY <1>4, <2>2, <2>3 DEF thread_call_dealloc_timer
<1>5. ASSUME NEW g \in Groups, DeallocTimerExpires(g) PROVE SurplusTimed'
  BY <1>5 DEF DeallocTimerExpires, counts, SurplusTimed, CountInv, TypeOK
<1>6. ASSUME UNCHANGED <<idle_count, dealloc_active, timer>> PROVE SurplusTimed'
  BY <1>6 DEF SurplusTimed
<1>7. ASSUME NEW g \in Groups,
             call_dequeue(g) \/ Unblock(g) \/ ThreadTakes(g) \/ ReturnTakes(g) \/ DaemonWakeup(g)
      PROVE  SurplusTimed'
  BY <1>6, <1>7 DEF call_dequeue, Unblock, ThreadTakes, ReturnTakes, TakeCall, DaemonWakeup,
     counts, timers
<1>8. CASE DaemonSteps \/ UNCHANGED vars
  BY <1>6, <1>8 DEF DaemonSteps, DaemonTop, DaemonAdds, DaemonMovesOn, DaemonCreate,
     DaemonScanned, DaemonAsserts, DaemonBlocks, vars, counts, timers
<1> QED
  BY <1>1, <1>2, <1>3, <1>4, <1>5, <1>7, <1>8 DEF Next, ThreadStarts, CallReturns

\* TCG_DEALLOC_ACTIVE is on exactly while the deallocation timer is armed or
\* firing, and it is on whenever a parallel group has more idle threads than
\* its target.
THEOREM GroupSurplusTimed == Spec => []SurplusTimed
<1>1. Init => SurplusTimed
  BY GroupAssumption DEF Init, Zero, No, SurplusTimed
<1> QED
  BY <1>1, GroupCountInv, SurplusTimedStep, PTL DEF Spec
=============================================================================
