-------------------------- MODULE ThreadCallGroup --------------------------
(***************************************************************************)
(* The thread pools behind the thread calls (osfmk/kern/thread_call.c): a  *)
(* group counts its pending calls and its active, blocked and idle         *)
(* threads, and decides from the counts alone when to wake a parked        *)
(* thread, when to ask the daemon for a new one and when to retire one.    *)
(*                                                                         *)
(* starting, running, blocked and parked count the threads that really are *)
(* in each place; the counts that the code keeps are the _count variables. *)
(* A group's spin lock makes each step below atomic, with one exception: a *)
(* context that won the exchange on thread_call_daemon_awake still holds   *)
(* the lock until it has posted the wakeup (waking).                       *)
(***************************************************************************)
EXTENDS Integers, FiniteSets

CONSTANTS GroupCount,             \* THREAD_CALL_INDEX_MAX
          Parallel,               \* the groups with TCG_PARALLEL
          target_thread_count,    \* the target of each group
          ADD_RATIO,              \* THREAD_CALL_ADD_RATIO
          MaxCalls                \* bound: calls in flight in each group

Groups == 1 .. GroupCount

ASSUME GroupAssumption ==
    /\ GroupCount \in Nat
    /\ Parallel \subseteq Groups
    /\ target_thread_count \in [Groups -> Nat \ {0}]
    /\ ADD_RATIO \in Nat
    /\ MaxCalls \in [Groups -> Nat]

VARIABLES pending_count, active_count, blocked_count, idle_count,
          dealloc_active,         \* TCG_DEALLOC_ACTIVE
          timer,                  \* the deallocation timer of each group
          fresh,                  \* idle_timestamp was set after it was armed
          starting,               \* threads woken up or created, not yet running
          running,                \* threads that run a call
          blocked,                \* threads blocked inside a call
          parked,                 \* threads on idle_waitq
          daemon_awake,           \* thread_call_daemon_awake
          daemon,                 \* where the daemon thread is
          next,                   \* the group its scan is at
          waking                  \* groups whose lock holder owes a wakeup

counts  == <<active_count, blocked_count, idle_count>>
timers  == <<dealloc_active, timer, fresh>>
threads == <<starting, running, blocked, parked>>
daemons == <<daemon_awake, daemon, next, waking>>
vars    == <<pending_count, counts, timers, threads, daemons>>

DaemonPlaces == {"top", "scan", "create", "check", "assert", "waiting", "asleep"}

\* The counts, timers, threads and daemon of every group have their types.
TypeOK ==
    /\ pending_count \in [Groups -> Nat]
    /\ active_count \in [Groups -> Nat]
    /\ blocked_count \in [Groups -> Nat]
    /\ idle_count \in [Groups -> Nat]
    /\ dealloc_active \in [Groups -> BOOLEAN]
    /\ timer \in [Groups -> {"off", "armed", "firing"}]
    /\ fresh \in [Groups -> BOOLEAN]
    /\ starting \in [Groups -> Nat]
    /\ running \in [Groups -> Nat]
    /\ blocked \in [Groups -> Nat]
    /\ parked \in [Groups -> Nat]
    /\ daemon_awake \in BOOLEAN
    /\ daemon \in DaemonPlaces
    /\ next \in 1 .. GroupCount + 1
    /\ waking \subseteq Groups

Zero == [g \in Groups |-> 0]
No   == [g \in Groups |-> FALSE]

\* thread_call_group_setup and thread_call_initialize: no threads yet, and a
\* daemon that is about to look at every group.
Init ==
    /\ pending_count = Zero /\ active_count = Zero
    /\ blocked_count = Zero /\ idle_count = Zero
    /\ dealloc_active = No /\ fresh = No
    /\ timer = [g \in Groups |-> "off"]
    /\ starting = Zero /\ running = Zero /\ blocked = Zero /\ parked = Zero
    /\ daemon_awake = TRUE
    /\ daemon = "top"
    /\ next = 1
    /\ waking = {}

Inc(f, g) == [f EXCEPT ![g] = @ + 1]
Dec(f, g) == [f EXCEPT ![g] = @ - 1]

Unlocked(g) == g \notin waking

----------------------------------------------------------------------------
(* thread_call_group_should_add_thread.  sched_mach_factor is read without *)
(* any lock: lightly loaded or not is a choice of the moment.              *)

ShouldAdd(g, pending, active, idle, light) ==
    /\ pending > 0
    /\ IF g \in Parallel
       THEN /\ idle = 0
            /\ \/ active = 0
               \/ active < target_thread_count[g]
               \/ pending > ADD_RATIO * active /\ light
       ELSE active = 0

\* Mutant: the timer is cancelled whichever idle thread goes to work.
AnyIdleWoken(g) == dealloc_active[g]

\* The deallocation timer is cancelled when the last idle thread goes to work;
LastIdleWoken(g) == idle_count[g] = 1 /\ dealloc_active[g]

\* Mutant: timer_call_cancel is taken to succeed.
CancelledAlways(g) == TRUE

\* one that is firing already cannot be, and then the flag stays.
Cancelled(g) == timer[g] = "armed"

\* Wakes one thread off idle_waitq and hands it a place among the active.
WakeIdle(g, active) ==
    /\ idle_count[g] > 0
    /\ idle_count' = Dec(idle_count, g)
    /\ active_count' = [active_count EXCEPT ![g] = active + 1]
    /\ parked' = Dec(parked, g)
    /\ starting' = Inc(starting, g)
    /\ timer' = [timer EXCEPT ![g] =
                    IF LastIdleWoken(g) /\ timer[g] = "armed" THEN "off" ELSE @]
    /\ dealloc_active' = [dealloc_active EXCEPT ![g] =
                             @ /\ ~(LastIdleWoken(g) /\ Cancelled(g))]
    /\ UNCHANGED <<fresh, daemons>>

\* Asks the daemon for a thread, if one is called for and nobody has.
AskDaemon(g, pending, active) ==
    /\ idle_count[g] = 0
    /\ active_count' = [active_count EXCEPT ![g] = active]
    /\ \E light \in BOOLEAN :
          IF ShouldAdd(g, pending, active, 0, light) /\ ~daemon_awake
          THEN daemon_awake' = TRUE /\ waking' = waking \union {g}
          ELSE UNCHANGED <<daemon_awake, waking>>
    /\ UNCHANGED <<idle_count, parked, starting, timers, daemon, next>>

LetBe(g, active) ==
    /\ active_count' = [active_count EXCEPT ![g] = active]
    /\ UNCHANGED <<idle_count, parked, starting, timers, daemons>>

\* thread_call_wake, called with these numbers of pending calls and of
\* active threads.
thread_call_wake(g, pending, active) ==
    IF g \in Parallel \/ active = 0
    THEN WakeIdle(g, active) \/ AskDaemon(g, pending, active)
    ELSE LetBe(g, active)

\* _pending_call_enqueue: a call is submitted, by whatever path.
pending_call_enqueue(g) ==
    /\ Unlocked(g)
    /\ pending_count[g] + running[g] + blocked[g] < MaxCalls[g]
    /\ pending_count' = Inc(pending_count, g)
    /\ thread_call_wake(g, pending_count[g] + 1, active_count[g])
    /\ UNCHANGED <<blocked_count, running, blocked>>

\* A pending call is cancelled or delayed (_call_dequeue).
call_dequeue(g) ==
    /\ Unlocked(g)
    /\ pending_count[g] > 0
    /\ pending_count' = Dec(pending_count, g)
    /\ UNCHANGED <<counts, timers, threads, daemons>>

----------------------------------------------------------------------------
(* sched_call_thread: the scheduler reports that a call thread blocks, or  *)
(* is about to run again.                                                  *)

\* Mutant: a thread that blocks wakes nobody for what is pending.
BlockQuietly(g) ==
    /\ Unlocked(g)
    /\ running[g] > 0
    /\ running' = Dec(running, g)
    /\ blocked' = Inc(blocked, g)
    /\ blocked_count' = Inc(blocked_count, g)
    /\ LetBe(g, active_count[g] - 1)
    /\ UNCHANGED pending_count

\* SCHED_CALL_BLOCK: if calls are pending, another thread is to take them.
Block(g) ==
    /\ Unlocked(g)
    /\ running[g] > 0
    /\ running' = Dec(running, g)
    /\ blocked' = Inc(blocked, g)
    /\ blocked_count' = Inc(blocked_count, g)
    /\ IF pending_count[g] > 0
       THEN thread_call_wake(g, pending_count[g], active_count[g] - 1)
       ELSE LetBe(g, active_count[g] - 1)
    /\ UNCHANGED pending_count

\* SCHED_CALL_UNBLOCK.
Unblock(g) ==
    /\ Unlocked(g)
    /\ blocked[g] > 0
    /\ blocked' = Dec(blocked, g)
    /\ running' = Inc(running, g)
    /\ blocked_count' = Dec(blocked_count, g)
    /\ active_count' = Inc(active_count, g)
    /\ UNCHANGED <<pending_count, idle_count, timers, starting, parked, daemons>>

----------------------------------------------------------------------------
(* thread_call_thread.                                                     *)

\* The thread takes the next pending call and runs it unlocked.
TakeCall(g) ==
    /\ pending_count[g] > 0
    /\ pending_count' = Dec(pending_count, g)
    /\ UNCHANGED <<counts, timers, parked>>

\* thread_call_start_deallocate_timer.
StartDeallocTimer(g) ==
    /\ dealloc_active' = [dealloc_active EXCEPT ![g] = TRUE]
    /\ timer' = [timer EXCEPT ![g] = "armed"]
    /\ fresh' = [fresh EXCEPT ![g] = FALSE]

\* In a parallel group the thread always parks, and starts the timer if the
\* group has more threads than its target and the timer is not on yet.
ParkParallel(g) ==
    /\ g \in Parallel
    /\ idle_count' = Inc(idle_count, g)
    /\ parked' = Inc(parked, g)
    /\ IF ~dealloc_active[g]
          /\ active_count[g] + idle_count[g] > target_thread_count[g]
       THEN StartDeallocTimer(g)
       ELSE /\ fresh' = [fresh EXCEPT ![g] = @ \/ idle_count[g] = 0]
            /\ UNCHANGED <<dealloc_active, timer>>

\* Mutant: a thread that terminates is counted as idle.
ParkUncounted(g) ==
    /\ g \notin Parallel
    /\ idle_count' = Inc(idle_count, g)
    /\ parked' = [parked EXCEPT ![g] =
                     IF idle_count[g] < target_thread_count[g] THEN @ + 1 ELSE @]
    /\ UNCHANGED timers

\* In the others it parks while fewer than the target do, or terminates.
ParkOrTerminate(g) ==
    /\ g \notin Parallel
    /\ IF idle_count[g] < target_thread_count[g]
       THEN idle_count' = Inc(idle_count, g) /\ parked' = Inc(parked, g)
       ELSE UNCHANGED <<idle_count, parked>>
    /\ UNCHANGED timers

Park(g) ==
    /\ pending_count[g] = 0
    /\ active_count' = Dec(active_count, g)
    /\ ParkParallel(g) \/ ParkOrTerminate(g)
    /\ UNCHANGED <<pending_count, blocked_count>>

\* A thread that was woken up or created gets the lock.
ThreadTakes(g) ==
    /\ Unlocked(g) /\ starting[g] > 0
    /\ starting' = Dec(starting, g)
    /\ running' = Inc(running, g)
    /\ TakeCall(g)
    /\ UNCHANGED <<blocked, daemons>>

ThreadParks(g) ==
    /\ Unlocked(g) /\ starting[g] > 0
    /\ starting' = Dec(starting, g)
    /\ Park(g)
    /\ UNCHANGED <<running, blocked, daemons>>

\* The call returns, and the thread goes round its loop.
ReturnTakes(g) ==
    /\ Unlocked(g) /\ running[g] > 0
    /\ TakeCall(g)
    /\ UNCHANGED <<starting, running, blocked, daemons>>

ReturnParks(g) ==
    /\ Unlocked(g) /\ running[g] > 0
    /\ running' = Dec(running, g)
    /\ Park(g)
    /\ UNCHANGED <<starting, blocked, daemons>>

ThreadStarts(g)  == ThreadTakes(g) \/ ThreadParks(g)
CallReturns(g)   == ReturnTakes(g) \/ ReturnParks(g)

----------------------------------------------------------------------------
(* The deallocation timer.                                                 *)

\* The timer goes off: from here on timer_call_cancel fails.
DeallocTimerExpires(g) ==
    /\ timer[g] = "armed"
    /\ timer' = [timer EXCEPT ![g] = "firing"]
    /\ UNCHANGED <<pending_count, counts, dealloc_active, fresh, threads, daemons>>

\* thread_call_dealloc_timer: long is whether a thread has been idle for the
\* whole interval; it then gets THREAD_INTERRUPTED and terminates.
thread_call_dealloc_timer(g, long) ==
    /\ Unlocked(g)
    /\ timer[g] = "firing"
    /\ LET terminated == long /\ idle_count[g] > 0
           idle == IF terminated THEN idle_count[g] - 1 ELSE idle_count[g]
       IN  /\ idle_count' = [idle_count EXCEPT ![g] = idle]
           /\ parked' = [parked EXCEPT ![g] = IF terminated THEN @ - 1 ELSE @]
           /\ IF idle > 0 /\ idle + active_count[g] > target_thread_count[g]
              THEN StartDeallocTimer(g)
              ELSE /\ dealloc_active' = [dealloc_active EXCEPT ![g] = FALSE]
                   /\ timer' = [timer EXCEPT ![g] = "off"]
                   /\ UNCHANGED fresh
    /\ UNCHANGED <<pending_count, active_count, blocked_count,
                   starting, running, blocked, daemons>>

\* The timer finds that nobody parked in an empty pool since it was armed,
\* and that its interval has passed.
RetireThread(g) == ~fresh[g] /\ thread_call_dealloc_timer(g, TRUE)

----------------------------------------------------------------------------
(* thread_call_daemon_continue.                                            *)

DaemonTop ==
    /\ daemon = "top"
    /\ daemon_awake' = FALSE
    /\ daemon' = "scan"
    /\ next' = 1
    /\ UNCHANGED <<pending_count, counts, timers, threads, waking>>

\* One evaluation of the inner loop's condition, under the group's lock; the
\* new thread is counted before it exists.
DaemonLooks(g, light) ==
    ShouldAdd(g, pending_count[g], active_count[g], idle_count[g], light)

DaemonAdds ==
    /\ daemon = "scan" /\ next \in Groups /\ Unlocked(next)
    /\ \E light \in BOOLEAN : DaemonLooks(next, light)
    /\ active_count' = Inc(active_count, next)
    /\ daemon' = "create"
    /\ UNCHANGED <<pending_count, blocked_count, idle_count, timers, threads,
                   daemon_awake, next, waking>>

DaemonMovesOn ==
    /\ daemon = "scan" /\ next \in Groups /\ Unlocked(next)
    /\ \E light \in BOOLEAN : ~DaemonLooks(next, light)
    /\ next' = next + 1
    /\ UNCHANGED <<pending_count, counts, timers, threads, daemon_awake, daemon, waking>>

\* thread_call_thread_create.
DaemonCreate ==
    /\ daemon = "create"
    /\ starting' = Inc(starting, next)
    /\ daemon' = "scan"
    /\ UNCHANGED <<pending_count, counts, timers, running, blocked, parked,
                   daemon_awake, next, waking>>

DaemonScanned ==
    /\ daemon = "scan" /\ next = GroupCount + 1
    /\ daemon' = IF daemon_awake THEN "top" ELSE "assert"
    /\ UNCHANGED <<pending_count, counts, timers, threads, daemon_awake, next, waking>>

DaemonAsserts ==
    /\ daemon = "assert"
    /\ daemon' = "waiting"
    /\ UNCHANGED <<pending_count, counts, timers, threads, daemon_awake, next, waking>>

\* Mutant: the daemon blocks without a second look at the flag.
DaemonBlocksBlindly ==
    /\ daemon = "waiting"
    /\ daemon' = "asleep"
    /\ UNCHANGED <<pending_count, counts, timers, threads, daemon_awake, next, waking>>

\* The second look at the flag: clear_wait, or really block.
DaemonBlocks ==
    /\ daemon = "waiting"
    /\ daemon' = IF daemon_awake THEN "top" ELSE "asleep"
    /\ UNCHANGED <<pending_count, counts, timers, threads, daemon_awake, next, waking>>

\* waitq_wakeup64_all on daemon_waitq, by the context that won the exchange.
DaemonWakeup(g) ==
    /\ g \in waking
    /\ waking' = waking \ {g}
    /\ daemon' = IF daemon \in {"waiting", "asleep"} THEN "top" ELSE daemon
    /\ UNCHANGED <<pending_count, counts, timers, threads, daemon_awake, next>>

DaemonSteps == \/ DaemonTop \/ DaemonAdds \/ DaemonMovesOn \/ DaemonCreate
               \/ DaemonScanned \/ DaemonAsserts \/ DaemonBlocks

----------------------------------------------------------------------------
Next ==
    \/ \E g \in Groups :
          \/ pending_call_enqueue(g) \/ call_dequeue(g)
          \/ Block(g) \/ Unblock(g)
          \/ ThreadStarts(g) \/ CallReturns(g)
          \/ DeallocTimerExpires(g)
          \/ \E long \in BOOLEAN : thread_call_dealloc_timer(g, long)
          \/ DaemonWakeup(g)
    \/ DaemonSteps

Spec == Init /\ [][Next]_vars

\* The group lock is a ticket lock: whoever spins on it gets it.  A call that
\* runs again and again returns at last, unless it blocks for ever; whether
\* it does is up to it.  Two firings of the timer are not within one tick, and
\* no group keeps the daemon for ever: the daemon has a higher priority than
\* every call thread, which retire 5 ms after their work at the earliest.
FairSpec ==
    /\ Spec
    /\ WF_vars(DaemonSteps) /\ SF_vars(DaemonMovesOn)
    /\ WF_vars(\E g \in Groups : DaemonWakeup(g))
    /\ \A g \in Groups : SF_vars(ThreadStarts(g)) /\ SF_vars(CallReturns(g))
    /\ \A g \in Parallel :
          /\ WF_vars(DeallocTimerExpires(g))
          /\ WF_vars(\E long \in BOOLEAN : thread_call_dealloc_timer(g, long))
          /\ SF_vars(RetireThread(g))

----------------------------------------------------------------------------
\* Every count is the number of threads that are in that place: the wakeups
\* of thread_call_wake and of the deallocation timer find the thread they
\* assert, and active_count falls to zero exactly when no thread would take
\* a pending call.
CountsMatch ==
    \A g \in Groups :
       /\ active_count[g] = running[g] + starting[g]
             + (IF daemon = "create" /\ next = g THEN 1 ELSE 0)
       /\ blocked_count[g] = blocked[g]
       /\ idle_count[g] = parked[g]

DaemonWillScan(g) == daemon_awake \/ (daemon \in {"scan", "create"} /\ next <= g)

\* A pending call always has somebody who answers for it: an active thread of
\* its group, or the daemon, which will still look at the group; and a daemon
\* that is told to look sleeps only while the wakeup is being posted.
WorkCovered ==
    /\ \A g \in Groups :
          pending_count[g] > 0 => active_count[g] > 0 \/ DaemonWillScan(g)
    /\ daemon_awake /\ daemon = "asleep" => waking # {}

\* TCG_DEALLOC_ACTIVE says exactly that the timer is armed or firing (the
\* assertions of thread_call_dealloc_timer and of the start of the timer), and
\* a parallel group that keeps more idle threads than its target has it on.
SurplusTimed ==
    \A g \in Groups :
       /\ dealloc_active[g] <=> timer[g] # "off"
       /\ g \in Parallel /\ idle_count[g] > target_thread_count[g] => dealloc_active[g]

\* As long as calls are pending the group keeps taking them off its queue,
\* which is FIFO, even if calls that were taken before block for ever.
PendingServed ==
    \A g \in Groups :
       \/ []<>(pending_count[g] = 0)
       \/ []<><<ThreadTakes(g) \/ ReturnTakes(g)>>_vars

\* A parallel group does not keep an idle surplus for ever: the timer retires
\* threads until the target is met or the pool is in use.
SurplusRetired ==
    \A g \in Parallel :
       []<>(idle_count[g] = 0 \/ idle_count[g] + active_count[g] <= target_thread_count[g])

=============================================================================
