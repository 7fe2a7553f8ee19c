----------------------------- MODULE ThreadCall -----------------------------
(***************************************************************************)
(* The life of one allocated thread call (osfmk/kern/thread_call.c): its   *)
(* queue, flags, reference count and submit/finish counts, with the        *)
(* clients that enter, cancel, wait for and free it and the contexts that  *)
(* run it: the threads of its group, or the timer interrupt for a          *)
(* THREAD_CALL_SIGNAL call.                                                *)
(*                                                                         *)
(* What runs under the group's lock is one step; thread_call_finish drops  *)
(* the lock to wake waiters up, and that is a step of its own.  Time is    *)
(* abstracted: a delayed call may expire at any moment.  assert_wait,      *)
(* thread_block and thread_wakeup are modelled by what the code needs of   *)
(* them: the set of the clients that wait on the call.                     *)
(***************************************************************************)
EXTENDS Naturals, FiniteSets

CONSTANTS Clients,      \* contexts that use the call
          Threads,      \* the threads of its group
          Timers,       \* CPUs that take its group's timer interrupt
          Uses,         \* the uses that owners may make of a call
          MaxSubmit     \* bound: how often the call is submitted

\* opts are the options the call is allocated with; the clients in waiters
\* also wait for it, if it is a ONCE call; the owner frees it if mayfree; and
\* the platform forces its timers to be evaluated if rescan.
AllUses == [opts : { {}, {"ONCE"}, {"ONCE", "SIGNAL"} }, waiters : SUBSET Clients,
            mayfree : BOOLEAN, rescan : BOOLEAN]

ASSUME ThreadCallAssumption ==
    /\ Uses \subseteq AllUses
    /\ Threads \cap Timers = {}
    /\ IsFiniteSet(Threads) /\ IsFiniteSet(Timers)
    /\ MaxSubmit \in Nat

VARIABLES queue,    \* tc_queue: "none", "pending" or "delayed"
          flags,    \* tc_flags: a set of "RUNNING", "RESCHEDULE", "WAIT"
          deadline, \* tc_pqlink.deadline is not 0
          refs,     \* tc_refs
          submit,   \* tc_submit_count
          finish,   \* tc_finish_count
          rpc,      \* where a runner is
          cpc,      \* where a client is
          snap,     \* per client: submit_count of thread_call_wait_locked
          waiting,  \* clients in assert_wait on the call
          use,      \* the use that is made of the call, never changed
          released, \* the owner called thread_call_free successfully
          freed,    \* the call was returned to its zone
          before    \* history: invocations in flight when a client's wait began

callVars == <<queue, flags, deadline, refs, submit, finish>>
clientVars == <<cpc, snap, waiting, before>>
ownerVars == <<use, released, freed>>
vars == <<queue, flags, deadline, refs, submit, finish, rpc, cpc, snap, waiting,
          use, released, freed, before>>

Runners == Threads \cup Timers

\* A SIGNAL call is also a ONCE call.
Once == "ONCE" \in use.opts
Signal == "SIGNAL" \in use.opts

\* The runners that invoke the function, and those that owe an invocation.
Invoking == { r \in Runners : rpc[r] = "invoke" }
InFlight == { r \in Runners : rpc[r] \in {"invoke", "wake_repend", "repend"} }

Init ==
    /\ queue = "none" /\ flags = {} /\ deadline = FALSE
    /\ refs = 1 /\ submit = 0 /\ finish = 0
    /\ rpc = [r \in Runners |-> "idle"]
    /\ cpc = [c \in Clients |-> "idle"]
    /\ snap = [c \in Clients |-> 0]
    /\ waiting = {}
    /\ use \in Uses /\ released = FALSE /\ freed = FALSE
    /\ before = [c \in Clients |-> {}]
-----------------------------------------------------------------------------
(* Submission.                                                             *)

\* A client that may use the call: its owner has not freed it.
User(c) == cpc[c] = "idle" /\ ~released

\* Mutant: the call is queued although it runs.
PendNever == FALSE

\* A ONCE call that runs is not queued: thread_call_finish will do it.
Pend == Once /\ "RUNNING" \in flags

\* _pending_call_enqueue and _delayed_call_enqueue, on the queue named q.
call_enqueue(q) ==
    IF Pend
    THEN /\ flags' = flags \cup {"RESCHEDULE"}
         /\ deadline' = (q = "delayed")
         /\ UNCHANGED <<queue, submit>>
    ELSE /\ submit' = IF queue = "none" THEN submit + 1 ELSE submit
         /\ queue' = q
         /\ deadline' = (deadline \/ q = "delayed")
         /\ UNCHANGED flags

\* thread_call_enter; a call that is pending stays where it is.
thread_call_enter(c) ==
    /\ User(c) /\ ~Signal /\ submit < MaxSubmit
    /\ queue # "pending"
    /\ call_enqueue("pending")
    /\ UNCHANGED <<refs, finish, rpc, clientVars, ownerVars>>

thread_call_enter_delayed(c) ==
    /\ User(c) /\ submit < MaxSubmit
    /\ call_enqueue("delayed")
    /\ UNCHANGED <<refs, finish, rpc, clientVars, ownerVars>>
-----------------------------------------------------------------------------
(* Cancelation and waiting.                                                *)

\* Mutant: a call that is queued is not armed.
ArmedRescheduled == "RESCHEDULE" \in flags

\* The call is going to be invoked again.
Armed == "RESCHEDULE" \in flags \/ queue # "none"

\* Mutant: a canceled request stays counted as unfinished.
cancel_locked_uncounted ==
    /\ queue' = IF "RESCHEDULE" \in flags THEN queue ELSE "none"
    /\ UNCHANGED finish

\* thread_call_cancel_locked; its callers clear RESCHEDULE.
thread_call_cancel_locked ==
    IF "RESCHEDULE" \in flags
    THEN UNCHANGED <<queue, finish>>
    ELSE /\ queue' = "none"
         /\ finish' = IF queue # "none" THEN finish + 1 ELSE finish

thread_call_cancel(c) ==
    /\ User(c) /\ Armed
    /\ thread_call_cancel_locked
    /\ flags' = flags \ {"RESCHEDULE"}
    /\ UNCHANGED <<deadline, refs, submit, rpc, clientVars, ownerVars>>

\* Mutant: what runs is waited for only if there was nothing to cancel.
cancel_wait_once_either(c) ==
    /\ User(c) /\ c \in use.waiters /\ Once
    /\ thread_call_cancel_locked
    /\ IF "RUNNING" \in flags /\ ~Armed
         THEN /\ flags' = (flags \ {"RESCHEDULE"}) \cup {"WAIT"}
              /\ waiting' = waiting \cup {c}
              /\ cpc' = [cpc EXCEPT ![c] = "wait_once"]
         ELSE /\ flags' = flags \ {"RESCHEDULE"}
              /\ cpc' = [cpc EXCEPT ![c] = "done"]
              /\ UNCHANGED waiting
    /\ before' = [before EXCEPT ![c] = InFlight]
    /\ UNCHANGED <<deadline, refs, submit, rpc, snap, ownerVars>>

\* thread_call_cancel_wait of a ONCE call: cancel, and wait if it runs.
cancel_wait_once(c) ==
    /\ User(c) /\ c \in use.waiters /\ Once
    /\ thread_call_cancel_locked
    /\ IF "RUNNING" \in flags
         THEN /\ flags' = (flags \ {"RESCHEDULE"}) \cup {"WAIT"}
              /\ waiting' = waiting \cup {c}
              /\ cpc' = [cpc EXCEPT ![c] = "wait_once"]
         ELSE /\ flags' = flags \ {"RESCHEDULE"}
              /\ cpc' = [cpc EXCEPT ![c] = "done"]
              /\ UNCHANGED waiting
    /\ before' = [before EXCEPT ![c] = InFlight]
    /\ UNCHANGED <<deadline, refs, submit, rpc, snap, ownerVars>>

\* thread_call_wait_once: the same without the cancelation.
thread_call_wait_once(c) ==
    /\ User(c) /\ c \in use.waiters /\ Once
    /\ "RUNNING" \in flags
    /\ flags' = flags \cup {"WAIT"}
    /\ waiting' = waiting \cup {c}
    /\ cpc' = [cpc EXCEPT ![c] = "wait_once"]
    /\ before' = [before EXCEPT ![c] = InFlight]
    /\ UNCHANGED <<queue, deadline, refs, submit, finish, rpc, snap, ownerVars>>

\* Mutant: the finish is not told that somebody waits.
wait_locked_silent(c, submit_count) ==
    /\ IF finish < submit_count
         THEN /\ waiting' = waiting \cup {c}
              /\ cpc' = [cpc EXCEPT ![c] = "wait_count"]
         ELSE /\ cpc' = [cpc EXCEPT ![c] = "done"]
              /\ UNCHANGED waiting
    /\ UNCHANGED flags

\* One turn of the loop of thread_call_wait_locked, with the lock held.
wait_locked(c, submit_count) ==
    IF finish < submit_count
    THEN /\ flags' = flags \cup {"WAIT"}
         /\ waiting' = waiting \cup {c}
         /\ cpc' = [cpc EXCEPT ![c] = "wait_count"]
    ELSE /\ cpc' = [cpc EXCEPT ![c] = "done"]
         /\ UNCHANGED <<flags, waiting>>

\* thread_call_cancel_wait of another call: it waits for the invocations in
\* flight only if there was nothing to cancel.
cancel_wait_plain(c) ==
    /\ User(c) /\ ~Once
    /\ thread_call_cancel_locked
    /\ snap' = [snap EXCEPT ![c] = submit]
    /\ IF Armed THEN cpc' = [cpc EXCEPT ![c] = "done"] /\ UNCHANGED <<flags, waiting>>
                ELSE wait_locked(c, submit)
    /\ before' = [before EXCEPT ![c] = InFlight]
    /\ UNCHANGED <<deadline, refs, submit, rpc, ownerVars>>

\* thread_call_wait_locked has the lock again and looks at the count.
wait_check(c) ==
    /\ cpc[c] = "check"
    /\ wait_locked(c, snap[c])
    /\ UNCHANGED <<queue, deadline, refs, submit, finish, rpc, snap, before, ownerVars>>

\* Mutant: the last reference is dropped without freeing the call.
wait_awakened_leaks(c) ==
    /\ cpc[c] \in {"wait_once", "wait_count", "wait_free"} /\ c \notin waiting
    /\ cpc' = [cpc EXCEPT ![c] = IF @ = "wait_count" THEN "check" ELSE "done"]
    /\ UNCHANGED <<callVars, rpc, snap, waiting, ownerVars, before>>

\* thread_block returns: only thread_call_wait_locked looks again.
wait_awakened(c) ==
    /\ cpc[c] \in {"wait_once", "wait_count", "wait_free"} /\ c \notin waiting
    /\ cpc' = [cpc EXCEPT ![c] = IF @ = "wait_count" THEN "check" ELSE "done"]
    /\ freed' = (freed \/ (cpc[c] = "wait_free" /\ refs = 0))
    /\ UNCHANGED <<callVars, rpc, snap, waiting, use, released, before>>

\* The client's call returns.
client_return(c) ==
    /\ cpc[c] = "done"
    /\ cpc' = [cpc EXCEPT ![c] = "idle"]
    /\ before' = [before EXCEPT ![c] = {}]
    /\ UNCHANGED <<callVars, rpc, snap, waiting, ownerVars>>

\* thread_call_free, by an owner that knows of no other use; an armed call is
\* not freed, and a running SIGNAL call is waited for.
thread_call_free(c) ==
    /\ use.mayfree /\ User(c) /\ \A d \in Clients : cpc[d] = "idle"
    /\ ~Armed
    /\ refs' = refs - 1
    /\ released' = TRUE
    /\ IF Signal /\ "RUNNING" \in flags
         THEN /\ flags' = flags \cup {"WAIT"}
              /\ waiting' = waiting \cup {c}
              /\ cpc' = [cpc EXCEPT ![c] = "wait_free"]
              /\ UNCHANGED freed
         ELSE /\ freed' = (refs' = 0)
              /\ UNCHANGED <<flags, waiting, cpc>>
    /\ UNCHANGED <<queue, deadline, submit, finish, rpc, snap, use, before>>
-----------------------------------------------------------------------------
(* Invocation.                                                             *)

\* thread_call_delayed_timer, for a call that expired.
delayed_timer_pend ==
    /\ ~Signal /\ queue = "delayed"
    /\ call_enqueue("pending")
    /\ UNCHANGED <<refs, finish, rpc, clientVars, ownerVars>>

\* thread_call_delayed_timer runs a SIGNAL call in the interrupt itself.
delayed_timer_signal(r) ==
    /\ Signal /\ queue = "delayed" /\ rpc[r] = "idle"
    /\ queue' = "none"
    /\ flags' = flags \cup {"RUNNING"}
    /\ rpc' = [rpc EXCEPT ![r] = "invoke"]
    /\ UNCHANGED <<deadline, refs, submit, finish, clientVars, ownerVars>>

\* thread_call_delayed_timer_rescan pends a call that expired, a SIGNAL call
\* too, and ...
rescan_pend ==
    /\ use.rescan /\ queue = "delayed"
    /\ call_enqueue("pending")
    /\ UNCHANGED <<refs, finish, rpc, clientVars, ownerVars>>

\* ... re-sorts another with _call_dequeue and _delayed_call_enqueue, which
\* count it as finished and as submitted again.
rescan_resort ==
    /\ use.rescan /\ queue = "delayed" /\ submit < MaxSubmit
    /\ submit' = submit + 1
    /\ finish' = finish + 1
    /\ UNCHANGED <<queue, flags, deadline, refs, rpc, clientVars, ownerVars>>

\* thread_call_thread takes the call off the pending queue and invokes it.
thread_call_thread(r) ==
    /\ queue = "pending" /\ rpc[r] = "idle"
    /\ queue' = "none"
    /\ flags' = flags \cup {"RUNNING"}
    /\ refs' = refs + 1
    /\ rpc' = [rpc EXCEPT ![r] = "invoke"]
    /\ UNCHANGED <<deadline, submit, finish, clientVars, ownerVars>>

\* Mutant: the thread keeps its reference.
FinishRefsKept == refs

\* The references left when an invocation ends: the thread drops its own.
FinishRefs == IF Signal THEN refs ELSE refs - 1

\* thread_call_finish: the end of one invocation.  A rescheduled call whose
\* deadline has not expired goes back to the delayed queue, another one is
\* pended; a SIGNAL call is repended: the timer interrupt runs it again, which
\* a group's thread does not do.
Repends(resched, expired) == Signal /\ resched /\ (expired \/ ~deadline)

thread_call_finish(r, expired) ==
    LET left == FinishRefs
        resched == left # 0 /\ "RESCHEDULE" \in flags
        repend == Repends(resched, expired)
        again == repend /\ r \in Timers
        waiters == "WAIT" \in flags IN
    /\ rpc[r] = "invoke"
    /\ finish' = finish + 1
    /\ refs' = left
    /\ submit' = IF resched /\ (repend \/ queue = "none") THEN submit + 1 ELSE submit
    /\ queue' = IF ~resched \/ repend THEN queue
                ELSE IF deadline /\ ~expired THEN "delayed" ELSE "pending"
    /\ deadline' = IF resched THEN deadline /\ ~expired ELSE deadline
    /\ flags' = (flags \ {"RESCHEDULE", "RUNNING", "WAIT"})
                  \cup IF again /\ ~waiters THEN {"RUNNING"} ELSE {}
    /\ freed' = (freed \/ (~Signal /\ left = 0))
    /\ rpc' = [rpc EXCEPT ![r] =
                 IF waiters THEN IF again THEN "wake_repend" ELSE "wake"
                 ELSE IF again THEN "invoke" ELSE "idle"]
    /\ before' = [c \in Clients |-> before[c] \ {r}]
    /\ UNCHANGED <<cpc, snap, waiting, use, released>>

\* The end of thread_call_finish: thread_wakeup on the call, unlocked.  A
\* SIGNAL call that was re-pended is then marked and invoked again.
finish_wakeup(r) ==
    /\ rpc[r] \in {"wake", "wake_repend"}
    /\ waiting' = {}
    /\ rpc' = [rpc EXCEPT ![r] = IF @ = "wake" THEN "idle" ELSE "repend"]
    /\ UNCHANGED <<callVars, cpc, snap, before, ownerVars>>

signal_repend(r) ==
    /\ rpc[r] = "repend"
    /\ flags' = flags \cup {"RUNNING"}
    /\ rpc' = [rpc EXCEPT ![r] = "invoke"]
    /\ UNCHANGED <<queue, deadline, refs, submit, finish, clientVars, ownerVars>>
-----------------------------------------------------------------------------
client_step(c) == wait_check(c) \/ wait_awakened(c) \/ client_return(c)

runner_step(r) ==
    \/ r \in Threads /\ thread_call_thread(r)
    \/ r \in Timers /\ delayed_timer_signal(r)
    \/ \E expired \in BOOLEAN : thread_call_finish(r, expired)
    \/ finish_wakeup(r) \/ signal_repend(r)

Next ==
    \/ \E c \in Clients :
         \/ thread_call_enter(c) \/ thread_call_enter_delayed(c)
         \/ thread_call_cancel(c)
         \/ cancel_wait_once(c) \/ thread_call_wait_once(c) \/ cancel_wait_plain(c)
         \/ thread_call_free(c) \/ client_step(c)
    \/ \E r \in Runners : runner_step(r)
    \/ delayed_timer_pend \/ rescan_pend \/ rescan_resort

Spec == Init /\ [][Next]_vars

\* Threads and timers run; nothing makes a client submit, cancel or free.
FairSpec ==
    /\ Spec
    /\ \A c \in Clients : WF_vars(client_step(c))
    /\ \A r \in Runners : WF_vars(runner_step(r))
    /\ WF_vars(delayed_timer_pend)
-----------------------------------------------------------------------------
(* Properties.                                                             *)

\* The variables have their types; no count is ever negative.
TypeOK ==
    /\ queue \in {"none", "pending", "delayed"}
    /\ flags \subseteq {"RUNNING", "RESCHEDULE", "WAIT"}
    /\ use \in Uses
    /\ {deadline, released, freed} \subseteq BOOLEAN
    /\ {refs, submit, finish} \subseteq Nat
    /\ rpc \in [Runners -> {"idle", "invoke", "wake", "wake_repend", "repend"}]
    /\ cpc \in [Clients -> {"idle", "check", "done", "wait_once", "wait_count",
                             "wait_free"}]
    /\ snap \in [Clients -> Nat]
    /\ waiting \subseteq Clients
    /\ before \in [Clients -> SUBSET Runners]

\* The difference of tc_submit_count and tc_finish_count, from which
\* thread_call_isactive answers and thread_call_wait_locked waits, is the
\* number of requests that are queued or in flight, whatever was canceled,
\* re-sorted or rescheduled.
CountsExact ==
    submit = finish + Cardinality(InFlight) + (IF queue = "none" THEN 0 ELSE 1)

\* The owner, until thread_call_free, and each thread that runs the call own
\* one reference: "The thread call thread owns a ref until the call is
\* finished".
RefsExact ==
    refs = Cardinality(Invoking \cap Threads) + (IF released THEN 0 ELSE 1)

\* A SIGNAL call that clients wait for may be re-pended: between the finish of
\* one invocation and the next it is in flight and not marked as running,
\* because thread_call_finish drops the lock to wake the waiters up first.
UnmarkedRepends == Signal /\ use.waiters # {}

\* A ONCE call that is not such a SIGNAL call is never invoked by two contexts
\* at a time, however it is submitted while it runs: what thread_call_wait_once_locked relies on; and
\* one that thread_call_finish has to reschedule runs and is on no queue: what
\* _pending_call_enqueue, _delayed_call_enqueue, thread_call_cancel_locked and
\* thread_call_finish each assert.
OnceExclusive ==
    Once /\ ~UnmarkedRepends =>
      /\ Cardinality(Invoking) <= 1
      /\ "RESCHEDULE" \in flags => queue = "none" /\ "RUNNING" \in flags

\* Memory that went back to the zone is not queued, not invoked and not
\* waited on, and was freed with the counts thread_call_free and
\* thread_call_finish assert.
NoUseAfterFree ==
    freed => queue = "none" /\ InFlight = {} /\ waiting = {} /\ submit = finish

\* A wait for a ONCE call, with or without cancelation, returns only after the
\* invocation that was in flight when it began has finished.  Of two clients
\* that wait at different times the second can be woken by the late wakeup of
\* an earlier finish, so this is said of a call that one client waits for; and
\* not of SIGNAL calls, whose waiter returns at the finish of an invocation that
\* is about to be repeated.
WaitCovers ==
    \A c \in Clients :
      Once /\ ~UnmarkedRepends /\ use.waiters = {c} /\ cpc[c] = "done" => before[c] = {}

\* thread_call_cancel_wait, thread_call_wait_once and thread_call_free return:
\* no finish loses the wakeup of a client that set THREAD_CALL_WAIT.
WaitReturns == \A c \in Clients : cpc[c] # "idle" ~> cpc[c] = "idle"

\* A call that was freed while it ran goes back to the zone when its last
\* invocation has finished.
FreeCompletes == released ~> freed
=============================================================================
