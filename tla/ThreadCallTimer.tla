-------------------------- MODULE ThreadCallTimer --------------------------
(***************************************************************************)
(* The delayed calls of one thread call group (osfmk/kern/thread_call.c):  *)
(* two queues, by absolute and by continuous time, each ordered by the     *)
(* hard deadline of its calls and served by one timer that is armed for    *)
(* the first call only.  Every operation that changes a queue has to leave *)
(* the timer early enough for the new head, or leave a handler behind that *)
(* will arm it.                                                            *)
(*                                                                         *)
(* Absolute time stops while the machine sleeps, continuous time does not. *)
(* The handler runs SIGNAL calls itself, with the group's lock dropped and *)
(* the time it read on entry; the other calls go to the pending queue and  *)
(* to a thread, as in ThreadCall, which has the counts and the waiters.    *)
(***************************************************************************)
EXTENDS Integers, FiniteSets

CONSTANTS Calls, Cpus, NULL,
          Uses,        \* how the calls are used: see Use
          LastTime,    \* bound: the clocks' and the deadlines' UINT64_MAX
          MaxSlop,     \* bound: the slop of timer_call_slop, or the leeway
          MaxSleep,    \* bound: the time spent asleep
          MaxEnters    \* bound: the number of delayed submissions

Flavors == {"ABSOLUTE", "CONTINUOUS"}
Kinds == {"once", "signal"}
Deadlines == 1 .. LastTime

\* kind: the options of each call; flavors: those its clients ask for; flips:
\* they may give another flavor to a SIGNAL call that runs; rescans: the
\* machine changes its timer coalescing; sleeps: it goes to sleep.
Use == [kind : [Calls -> Kinds], flavors : SUBSET Flavors, flips : BOOLEAN,
        rescans : BOOLEAN, sleeps : BOOLEAN]

ASSUME TimerAssumption ==
    /\ NULL \notin Calls
    /\ Uses \subseteq Use
    /\ LastTime \in Nat /\ MaxSlop \in Nat /\ MaxSleep \in Nat /\ MaxEnters \in Nat

VARIABLES use,
          now,          \* mach_absolute_time
          asleep,       \* mach_absolutetime_asleep
          adjusting,    \* awake again, adjust_cont_time_thread_calls to come
          tc_queue,     \* where each call is queued, or "none"
          request,      \* the deadlines, flavor and rate limit of a call that is
                        \* delayed or will be once it has run; NULL for others
          running,      \* THREAD_CALL_RUNNING
          reschedule,   \* THREAD_CALL_RESCHEDULE
          timer,        \* delayed_timers: the window each is armed for, or NULL
          handler,      \* what thread_call_delayed_timer does on each CPU
          lock,         \* the CPU whose handler holds the group's lock
          enters

clocks == <<use, now, asleep, adjusting>>
calls  == <<tc_queue, request, running, reschedule>>
vars   == <<clocks, calls, timer, handler, lock, enters>>

Requests == [flavor : Flavors, soft : Deadlines, hard : Deadlines, rate : BOOLEAN]
Windows == [soft : 0 .. LastTime, hard : 0 .. LastTime, rate : BOOLEAN]

ASSUME NullAssumption == NULL \notin Requests \union Windows

Idle == [at |-> "idle"]
Handlers ==
    {Idle}
    \union [at : {"entered"}, flavor : Flavors]
    \union [at : {"loop"}, flavor : Flavors, now : 0 .. LastTime + MaxSleep]
    \union [at : {"call"}, flavor : Flavors, now : 0 .. LastTime + MaxSleep, call : Calls]

\* The queues, timers, handlers, clocks and uses have their types.
TypeOK ==
    /\ use \in Uses
    /\ now \in 0 .. LastTime
    /\ asleep \in 0 .. MaxSleep
    /\ adjusting \in BOOLEAN
    /\ tc_queue \in [Calls -> {"none", "pending", "delayed"}]
    /\ request \in [Calls -> Requests \union {NULL}]
    /\ running \in [Calls -> BOOLEAN]
    /\ reschedule \in [Calls -> BOOLEAN]
    /\ timer \in [Flavors -> Windows \union {NULL}]
    /\ handler \in [Cpus -> Handlers]
    /\ lock \in Cpus \union {NULL}
    /\ enters \in 0 .. MaxEnters

Init ==
    /\ use \in Uses
    /\ now = 0 /\ asleep = 0 /\ adjusting = FALSE
    /\ tc_queue = [c \in Calls |-> "none"]
    /\ request = [c \in Calls |-> NULL]
    /\ running = [c \in Calls |-> FALSE]
    /\ reschedule = [c \in Calls |-> FALSE]
    /\ timer = [f \in Flavors |-> NULL]
    /\ handler = [p \in Cpus |-> Idle]
    /\ lock = NULL
    /\ enters = 0

Signal(c) == use.kind[c] = "signal"

Time(f) == IF f = "CONTINUOUS" THEN now + asleep ELSE now

\* continuoustime_to_absolutetime: what passed while asleep is time 0.
ToAbsolute(f, t) ==
    IF f = "ABSOLUTE" THEN t ELSE IF t <= asleep THEN 0 ELSE t - asleep

Unlocked == lock = NULL

----------------------------------------------------------------------------
(* The queues.  priority_queue_min breaks ties as the heap happens to be.  *)

Queued(f) == {c \in Calls : tc_queue[c] = "delayed" /\ request[c].flavor = f}
Heads(f)  == {c \in Queued(f) : \A d \in Queued(f) : request[c].hard <= request[d].hard}

\* The window that _arm_delayed_call_timer asks for on behalf of a call.
WindowOf(r) ==
    LET at == ToAbsolute(r.flavor, r.soft)
    IN  [soft |-> at, hard |-> at + (r.hard - r.soft), rate |-> r.rate]

\* The timer is changed only for a new head (for any head, for NULL).
ArmsFor(new, head) == new \in {NULL, head}

\* _arm_delayed_call_timer, on the queues as the operation leaves them.
arm_delayed_call_timer(new, f) ==
    \/ Heads(f)' = {} /\ UNCHANGED timer
    \/ \E head \in Heads(f)' :
          timer' = [timer EXCEPT ![f] =
                       IF ArmsFor(new, head) THEN WindowOf(request[head])' ELSE @]

Put(f, c, v) == [f EXCEPT ![c] = v]

\* _delayed_call_enqueue and _pending_call_enqueue: a ONCE call that runs is
\* not queued, thread_call_finish will do it.
Enqueue(c, queue, r) ==
    /\ request' = Put(request, c, r)
    /\ IF running[c]
       THEN reschedule' = Put(reschedule, c, TRUE) /\ UNCHANGED tc_queue
       ELSE tc_queue' = Put(tc_queue, c, queue) /\ UNCHANGED reschedule

\* The deadline saturates.
HardDeadline(deadline, slop) ==
    IF LastTime - deadline <= slop THEN LastTime ELSE deadline + slop

\* The flavor whose handler is running a call (none, or one).
FlavorOfRun(c) ==
    { handler[p].flavor : p \in {q \in Cpus : handler[q].at = "call" /\ handler[q].call = c} }

\* thread_call_enter_delayed_internal.
thread_call_enter_delayed(c, f, deadline, slop, rate) ==
    /\ Unlocked
    /\ enters < MaxEnters
    /\ FlavorOfRun(c) \subseteq {f} \/ use.flips
    /\ enters' = enters + 1
    /\ Enqueue(c, "delayed", [flavor |-> f, soft |-> deadline,
                              hard |-> HardDeadline(deadline, slop), rate |-> rate])
    /\ UNCHANGED <<clocks, running, handler, lock>>
    /\ arm_delayed_call_timer(c, f)

\* thread_call_enter1, which SIGNAL calls are not given to.
thread_call_enter(c) ==
    /\ Unlocked
    /\ ~Signal(c)
    /\ tc_queue[c] # "pending"
    /\ Enqueue(c, "pending", NULL)
    /\ UNCHANGED <<clocks, running, timer, handler, lock, enters>>

\* Mutant: canceling the head cancels the timer for those behind it as well.
RearmNever(f) == timer' = Put(timer, f, NULL)

\* thread_call_cancel_locked: removing the head arms the timer for the next
\* call, or cancels it.
RearmForNext(f) ==
    IF Queued(f)' = {} THEN timer' = Put(timer, f, NULL)
                       ELSE arm_delayed_call_timer(NULL, f)

CancelDelayed(c, f) ==
    /\ c \in Queued(f)
    /\ \/ c \in Heads(f) /\ RearmForNext(f)
       \/ Heads(f) # {c} /\ UNCHANGED timer

thread_call_cancel(c) ==
    /\ Unlocked
    /\ reschedule[c] \/ tc_queue[c] # "none"
    /\ reschedule' = Put(reschedule, c, FALSE)
    /\ tc_queue' = Put(tc_queue, c, "none")
    /\ request' = Put(request, c, NULL)
    /\ UNCHANGED <<clocks, running, handler, lock, enters>>
    /\ IF tc_queue[c] = "delayed"
       THEN \E f \in Flavors : CancelDelayed(c, f)
       ELSE UNCHANGED timer

----------------------------------------------------------------------------
(* Threads, which run what is pending.                                     *)

thread_call_thread(c) ==
    /\ Unlocked
    /\ tc_queue[c] = "pending"
    /\ tc_queue' = Put(tc_queue, c, "none")
    /\ running' = Put(running, c, TRUE)
    /\ UNCHANGED <<clocks, request, reschedule, timer, handler, lock, enters>>

\* thread_call_finish queues a call that was submitted while it ran: for its
\* deadline, if it has one that is not over, or at once.
Requeues(c) ==
    /\ reschedule[c] /\ request[c] # NULL
    /\ request[c].soft > Time(request[c].flavor)
Repends(c) == reschedule[c] /\ ~Requeues(c)

Finish(c, repended) ==
    /\ reschedule' = Put(reschedule, c, FALSE)
    /\ tc_queue' = Put(tc_queue, c, IF Requeues(c) THEN "delayed"
                                    ELSE IF Repends(c) THEN repended ELSE "none")
    /\ request' = Put(request, c, IF Requeues(c) THEN request[c] ELSE NULL)

\* Mutant: a call that is delayed again does not arm the timer.
FinishArmsNot(c, f) == UNCHANGED timer

FinishArms(c, f) == arm_delayed_call_timer(c, f)

\* At the end of a thread's run.  A SIGNAL call, which a thread runs if a rescan
\* pended it, is delayed again without a look at the timer, and what finish
\* says of one that is due again is not used.
thread_call_finish(c) ==
    /\ Unlocked
    /\ running[c] /\ FlavorOfRun(c) = {}
    /\ running' = Put(running, c, FALSE)
    /\ Finish(c, IF Signal(c) THEN "none" ELSE "pending")
    /\ UNCHANGED <<clocks, handler, lock, enters>>
    /\ IF Requeues(c) /\ ~Signal(c) THEN FinishArms(c, request[c].flavor)
                                    ELSE UNCHANGED timer

----------------------------------------------------------------------------
(* thread_call_delayed_timer.                                              *)

\* The hardware timer: any time from the start of the window on, or from its
\* end if the call is rate-limited.
Expired(w) == IF w.rate THEN w.hard <= now ELSE w.soft <= now

TimerFires(p, f) ==
    /\ handler[p] = Idle
    /\ timer[f] # NULL /\ Expired(timer[f])
    /\ timer' = Put(timer, f, NULL)
    /\ handler' = Put(handler, p, [at |-> "entered", flavor |-> f])
    /\ UNCHANGED <<clocks, calls, lock, enters>>

HandlerLocks(p) ==
    /\ handler[p].at = "entered"
    /\ Unlocked
    /\ lock' = p
    /\ handler' = [handler EXCEPT ![p] =
          [at |-> "loop", flavor |-> @.flavor, now |-> Time(@.flavor)]]
    /\ UNCHANGED <<clocks, calls, timer, enters>>

\* The head is due.  ml_timer_forced_evaluation overrides the rate limit.
Due(r, t, forced) == r.soft <= t /\ (r.rate /\ r.hard > t => forced)

DueHeads(p, forced) ==
    {c \in Heads(handler[p].flavor) : Due(request[c], handler[p].now, forced)}

HandlerPends(p, c) ==
    /\ ~Signal(c)
    /\ Enqueue(c, "pending", NULL)
    /\ UNCHANGED <<clocks, running, timer, handler, lock, enters>>

\* A SIGNAL call is run here and now, unlocked.
HandlerSignals(p, c) ==
    /\ Signal(c)
    /\ tc_queue' = Put(tc_queue, c, "none")
    /\ request' = Put(request, c, NULL)
    /\ running' = Put(running, c, TRUE)
    /\ lock' = NULL
    /\ handler' = [handler EXCEPT ![p] =
          [at |-> "call", flavor |-> @.flavor, now |-> @.now, call |-> c]]
    /\ UNCHANGED <<clocks, reschedule, timer, enters>>

\* It returns: thread_call_finish does not arm the timer, the loop will; a
\* call that was repended is run again.
HandlerReturns(p) ==
    /\ handler[p].at = "call"
    /\ Unlocked
    /\ \E c \in {handler[p].call} :
          /\ Finish(c, "none")
          /\ running' = Put(running, c, Repends(c))
          /\ IF Repends(c)
             THEN UNCHANGED <<lock, handler>>
             ELSE /\ lock' = p
                  /\ handler' = [handler EXCEPT ![p] =
                        [at |-> "loop", flavor |-> @.flavor, now |-> @.now]]
    /\ UNCHANGED <<clocks, timer, enters>>

\* The loop ends at the first call that is not due, for which the timer is
\* armed, or with an empty queue.
HandlerDone(p, forced) ==
    /\ DueHeads(p, forced) # Heads(handler[p].flavor) \/ Heads(handler[p].flavor) = {}
    /\ handler' = Put(handler, p, Idle)
    /\ lock' = NULL
    /\ UNCHANGED <<clocks, calls, enters>>
    /\ \E f \in {handler[p].flavor} : arm_delayed_call_timer(NULL, f)

HandlerLoops(p) ==
    /\ handler[p].at = "loop"
    /\ \E forced \in BOOLEAN :
          \/ \E c \in DueHeads(p, forced) : HandlerPends(p, c) \/ HandlerSignals(p, c)
          \/ HandlerDone(p, forced)

HandlerSteps(p) == HandlerLocks(p) \/ HandlerLoops(p)

----------------------------------------------------------------------------
(* The other visitors of the queues.                                       *)

\* thread_call_delayed_timer_rescan: pends what is due, and takes the slop
\* off those calls whose slop the platform wants resorted.
thread_call_delayed_timer_rescan(f, resort) ==
    /\ use.rescans
    /\ Unlocked
    /\ LET due == {c \in Queued(f) : request[c].soft <= Time(f)}
       IN  /\ tc_queue' = [c \in Calls |-> IF c \in due THEN "pending" ELSE tc_queue[c]]
           /\ request' = [c \in Calls |->
                 IF c \in due THEN NULL
                 ELSE IF c \in Queued(f) \intersect resort
                      THEN [request[c] EXCEPT !.hard = request[c].soft]
                      ELSE request[c]]
    /\ UNCHANGED <<clocks, running, reschedule, handler, lock, enters>>
    /\ arm_delayed_call_timer(NULL, f)

\* adjust_cont_time_thread_calls, on the way out of sleep.
adjust_cont_time_thread_calls ==
    /\ adjusting /\ Unlocked
    /\ adjusting' = FALSE
    /\ UNCHANGED <<use, now, asleep, calls, handler, lock, enters>>
    /\ arm_delayed_call_timer(NULL, "CONTINUOUS")

Tick ==
    /\ now < LastTime
    /\ now' = now + 1
    /\ UNCHANGED <<use, asleep, adjusting, calls, timer, handler, lock, enters>>

Sleep ==
    /\ use.sleeps /\ asleep < MaxSleep
    /\ Unlocked /\ \A p \in Cpus : handler[p] = Idle
    /\ asleep' = asleep + 1
    /\ adjusting' = TRUE
    /\ UNCHANGED <<use, now, calls, timer, handler, lock, enters>>

----------------------------------------------------------------------------
Clients ==
    \E c \in Calls :
       \/ \E f \in use.flavors, d \in Deadlines, s \in 0 .. MaxSlop, r \in BOOLEAN :
             /\ r => s > 0
             /\ thread_call_enter_delayed(c, f, d, s, r)
       \/ thread_call_enter(c)
       \/ thread_call_cancel(c)

Rescans ==
    \E f \in Flavors, resort \in SUBSET Calls :
       /\ resort \subseteq Queued(f)
       /\ thread_call_delayed_timer_rescan(f, resort)

Next ==
    \/ Clients
    \/ \E c \in Calls : thread_call_thread(c) \/ thread_call_finish(c)
    \/ \E p \in Cpus, f \in Flavors : TimerFires(p, f)
    \/ \E p \in Cpus : HandlerSteps(p) \/ HandlerReturns(p)
    \/ Rescans
    \/ adjust_cont_time_thread_calls
    \/ Tick \/ Sleep

Spec == Init /\ [][Next]_vars

\* Time goes on, an expired timer interrupts some CPU, interrupt handlers go
\* on and get their (ticket) lock, and the calls they run return.
FairSpec ==
    /\ Spec
    /\ WF_vars(Tick)
    /\ WF_vars(adjust_cont_time_thread_calls)
    /\ \A f \in Flavors : WF_vars(\E p \in Cpus : TimerFires(p, f))
    /\ \A p \in Cpus : WF_vars(HandlerSteps(p)) /\ WF_vars(HandlerReturns(p))

----------------------------------------------------------------------------
AboutToArm(f) == \E p \in Cpus : handler[p] # Idle /\ handler[p].flavor = f

Covers(w, r) == w # NULL /\ (w.hard <= ToAbsolute(r.flavor, r.hard) \/ w.soft = 0)

\* Whoever queues, moves, cancels or runs calls, in whatever order: while calls
\* are queued, the timer of their flavor is armed for a window that ends no
\* later than the earliest hard deadline (or starts at 0, for what passed
\* while the machine slept), or a handler is there that will arm it, or the
\* machine is waking up and is about to.
TimerCovers ==
    \A f \in Flavors :
       \/ AboutToArm(f)
       \/ adjusting /\ f = "CONTINUOUS"
       \/ \A c \in Heads(f) : Covers(timer[f], request[c])

\* A delayed call does not stay delayed for ever: the timers, as armed, reach
\* it, unless it is canceled or submitted for at once before that.
DelayedExpires ==
    \A c \in Calls : tc_queue[c] = "delayed" ~> tc_queue[c] # "delayed"

=============================================================================
