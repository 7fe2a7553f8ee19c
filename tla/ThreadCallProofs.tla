-------------------------- MODULE ThreadCallProofs --------------------------
(***************************************************************************)
(* Proofs for ThreadCall: the references, the counts and the waits of one  *)
(* thread call, for any sets of clients, threads and CPUs and any number   *)
(* of submissions.                                                         *)
(***************************************************************************)
EXTENDS ThreadCall, FiniteSetTheorems, TLAPS

\* The uses that the theorems are about.  A forced evaluation of the timers
\* pends a SIGNAL call too; a thread then runs it and keeps its reference.
Disciplined(u) == "SIGNAL" \in u.opts => ~u.rescan

\* The owner of a SIGNAL call that others wait for cannot tell whether it is
\* about to be re-pended, so it must not free the call.
OwnerAlone(u) == "SIGNAL" \in u.opts /\ u.mayfree => u.waiters = {}

\* The use of the call is disciplined, and threads run all calls but the
\* SIGNAL ones, which the timer interrupt runs.
RunnersInv ==
    /\ Disciplined(use)
    /\ Signal => queue # "pending" /\ \A r \in Threads : rpc[r] = "idle"
    /\ ~Signal => \A r \in Runners : rpc[r] \in {"idle", "invoke", "wake"}
    /\ ~Signal => \A r \in Timers : rpc[r] = "idle"

BaseInv == TypeOK /\ RunnersInv /\ RefsExact

\* A ONCE call is marked while it runs and is then on no queue.
OnceInv ==
    Once /\ ~UnmarkedRepends =>
      /\ \A r, s \in Runners : rpc[r] = "invoke" /\ rpc[s] = "invoke" => r = s
      /\ \A r \in Runners : rpc[r] \in {"invoke", "idle", "wake"}
      /\ \A r \in Runners : rpc[r] = "invoke" => "RUNNING" \in flags
      /\ "RUNNING" \in flags => queue = "none"
      /\ "RESCHEDULE" \in flags => "RUNNING" \in flags

\* Only the owner waits for a SIGNAL call that nobody else waits for.
SignalInv ==
    Signal /\ use.waiters = {} /\ ~released =>
       "WAIT" \notin flags /\ \A r \in Runners : rpc[r] # "wake"

\* Where the clients are.
ClientInv ==
    \A c \in Clients :
      /\ c \in waiting => cpc[c] \in {"wait_once", "wait_count", "wait_free"}
      /\ cpc[c] = "wait_once" => Once /\ c \in use.waiters
      /\ cpc[c] \in {"wait_count", "check"} => ~Once
      /\ cpc[c] = "wait_free" => Signal /\ released
      /\ before[c] \subseteq InFlight

\* A call that its owner freed is not armed any more; the owner of a SIGNAL
\* call may wait for it, and nobody else does anything.
FreeInv ==
    released =>
      /\ Signal => use.waiters = {}
      /\ queue = "none" /\ "RESCHEDULE" \notin flags
      /\ \A c \in Clients : cpc[c] # "idle" => Signal /\ cpc[c] \in {"wait_free", "done"}
      /\ \A c, d \in Clients : cpc[c] # "idle" /\ cpc[d] # "idle" => c = d
      /\ Signal /\ (\E r \in Runners : rpc[r] = "wake") => InFlight = {}
      /\ \A c \in Clients : cpc[c] = "wait_free" /\ c \notin waiting => InFlight = {}

FreedInv == freed => released /\ InFlight = {} /\ waiting = {}

\* The one client that waits for a ONCE call: its wakeup is owed by the
\* invocation that it waits for.
Covers(c) ==
    /\ "WAIT" \in flags => c \in waiting /\ \A r \in Runners : rpc[r] # "wake"
    /\ \A r, s \in Runners : rpc[r] = "wake" /\ rpc[s] = "wake" => r = s
    /\ \A r \in Runners : rpc[r] = "wake" => c \in waiting /\ before[c] = {}
    /\ cpc[c] = "wait_once" /\ c \notin waiting => before[c] = {}
    /\ cpc[c] = "done" => before[c] = {}

CoverInv ==
    Once /\ ~Signal => \A c \in Clients : use.waiters = {c} => Covers(c)
-----------------------------------------------------------------------------
(* Steps.                                                                  *)

\* What thread_call_enter, thread_call_enter_delayed, the timer and the forced
\* evaluation of the timers have in common.
Enqueue(q) ==
    /\ q \in {"pending", "delayed"}
    /\ Signal => q = "delayed"
    /\ ~released \/ queue = "delayed"
    /\ call_enqueue(q)
    /\ UNCHANGED <<refs, finish, rpc, clientVars, ownerVars>>

ClientStep(c) ==
    \/ thread_call_cancel(c) \/ cancel_wait_once(c) \/ thread_call_wait_once(c)
    \/ cancel_wait_plain(c) \/ wait_check(c) \/ wait_awakened(c) \/ client_return(c)
    \/ thread_call_free(c)

\* The steps of a call whose use is disciplined.
LEMMA StepCases ==
    ASSUME RunnersInv, [Next]_vars
    PROVE  \/ \E q : Enqueue(q)
           \/ \E c \in Clients : ClientStep(c)
           \/ \E r \in Threads : thread_call_thread(r)
           \/ \E r \in Timers : delayed_timer_signal(r)
           \/ \E r \in Runners : \E expired \in BOOLEAN : thread_call_finish(r, expired)
           \/ \E r \in Runners : finish_wakeup(r) \/ signal_repend(r)
           \/ rescan_resort
           \/ UNCHANGED vars
<1>1. ASSUME NEW c \in Clients, thread_call_enter(c) PROVE Enqueue("pending")
  BY <1>1 DEF thread_call_enter, Enqueue, User
<1>2. ASSUME NEW c \in Clients, thread_call_enter_delayed(c) PROVE Enqueue("delayed")
  BY <1>2 DEF thread_call_enter_delayed, Enqueue, User
<1>3. ASSUME delayed_timer_pend PROVE Enqueue("pending")
  BY <1>3 DEF delayed_timer_pend, Enqueue
<1>4. ASSUME rescan_pend PROVE Enqueue("pending")
  BY <1>4 DEF rescan_pend, Enqueue, RunnersInv, Disciplined, Signal
<1> QED
  BY <1>1, <1>2, <1>3, <1>4, Zenon DEF Next, ClientStep, client_step, runner_step

\* Sets of runners are finite, ...
LEMMA RunnerCount ==
    ASSUME NEW S \in SUBSET Runners
    PROVE  IsFiniteSet(S) /\ Cardinality(S) \in Nat /\ (Cardinality(S) = 0 <=> S = {})
<1>1. IsFiniteSet(Runners)
  BY FS_Union, ThreadCallAssumption DEF Runners
<1>2. IsFiniteSet(S)
  BY <1>1, FS_Subset
<1> QED
  BY <1>2, FS_CardinalityType, FS_EmptySet

\* ... and grow and shrink by one.
LEMMA RunnerSets ==
    ASSUME NEW S \in SUBSET Runners, NEW r \in Runners
    PROVE  /\ Cardinality(S) \in Nat
           /\ Cardinality(S) = 0 <=> S = {}
           /\ r \notin S => Cardinality(S \cup {r}) = Cardinality(S) + 1
           /\ r \in S => Cardinality(S \ {r}) = Cardinality(S) - 1
  BY RunnerCount, FS_AddElement, FS_RemoveElement
-----------------------------------------------------------------------------
(* References.                                                             *)

\* A thread that moves begins or ends an invocation, or neither.
LEMMA InvokingMove ==
    ASSUME TypeOK, NEW r \in Runners, NEW label, rpc' = [rpc EXCEPT ![r] = label]
    PROVE  LET S == Invoking \cap Threads IN
           /\ Cardinality(S) \in Nat
           /\ rpc[r] # "invoke" /\ label # "invoke" => S' = S
           /\ rpc[r] = "invoke" /\ label = "invoke" => S' = S
           /\ r \notin Threads => S' = S
           /\ r \in Threads /\ rpc[r] # "invoke" /\ label = "invoke"
                => Cardinality(S') = Cardinality(S) + 1
           /\ r \in Threads /\ rpc[r] = "invoke" /\ label # "invoke"
                => Cardinality(S') = Cardinality(S) - 1 /\ Cardinality(S) > 0
<1> DEFINE S == Invoking \cap Threads
<1>1. S \in SUBSET Runners
  BY DEF Invoking
<1>2. r \in S <=> r \in Threads /\ rpc[r] = "invoke"
  BY DEF Invoking
<1>3. rpc[r] # "invoke" /\ label # "invoke" => S' = S
  BY DEF Invoking, TypeOK
<1>4. rpc[r] = "invoke" /\ label = "invoke" => S' = S
  BY DEF Invoking, TypeOK
<1>5. r \notin Threads => S' = S
  BY DEF Invoking, TypeOK
<1>6. r \in Threads /\ label = "invoke" => S' = S \cup {r}
  BY DEF Invoking, TypeOK
<1>7. label # "invoke" => S' = S \ {r}
  BY DEF Invoking, TypeOK
<1> HIDE DEF S
<1>8. /\ Cardinality(S) \in Nat
      /\ Cardinality(S) = 0 <=> S = {}
      /\ r \notin S => Cardinality(S \cup {r}) = Cardinality(S) + 1
      /\ r \in S => Cardinality(S \ {r}) = Cardinality(S) - 1
  BY <1>1, RunnerSets
<1>9. r \in S => Cardinality(S) > 0
  BY <1>8
<1> QED
  BY <1>2, <1>3, <1>4, <1>5, <1>6, <1>7, <1>8, <1>9 DEF S

\* thread_call_initialize_options.
LEMMA BaseInit ==
    ASSUME \A u \in Uses : Disciplined(u), Init
    PROVE  BaseInv
<1>1. TypeOK
  <2>1. {deadline, released, freed} \subseteq BOOLEAN
    BY Zenon DEF Init
  <2>2. {refs, submit, finish} \subseteq Nat
    BY DEF Init
  <2> QED
    BY <2>1, <2>2 DEF Init, TypeOK
<1>2. RunnersInv
  BY DEF Init, RunnersInv, Runners
<1>3. Invoking = {}
  BY DEF Init, Invoking
<1>4. RefsExact
  BY <1>3, FS_EmptySet DEF Init, RefsExact
<1> QED
  BY <1>1, <1>2, <1>4 DEF BaseInv

\* A client's step keeps the types and the references.
LEMMA BaseClient ==
    ASSUME BaseInv, NEW c \in Clients, ClientStep(c)
    PROVE  BaseInv'
<1> USE DEF BaseInv
<1>1. /\ UNCHANGED <<deadline, submit, rpc, use>>
      /\ queue' \in {queue, "none"}
      /\ flags' \subseteq flags \cup {"WAIT"}
  BY Zenon DEF ClientStep, thread_call_cancel, cancel_wait_once, thread_call_wait_once,
     cancel_wait_plain, wait_check, wait_awakened, client_return, thread_call_free,
     thread_call_cancel_locked, wait_locked, callVars, ownerVars
<1>2. finish' \in Nat
  <2>1. finish' \in {finish, finish + 1}
    BY Zenon DEF ClientStep, thread_call_cancel, cancel_wait_once, thread_call_wait_once,
       cancel_wait_plain, wait_check, wait_awakened, client_return, thread_call_free,
       thread_call_cancel_locked, callVars
  <2> QED
    BY <2>1 DEF TypeOK
<1>3. RefsExact' /\ refs' \in Nat
  <2>1. Cardinality(Invoking \cap Threads) \in Nat /\ UNCHANGED Invoking
    <3>1. Invoking \cap Threads \in SUBSET Runners /\ UNCHANGED Invoking
      BY <1>1 DEF Invoking
    <3> QED
      BY <3>1, RunnerCount
  <2>2. CASE UNCHANGED <<refs, released>>
    BY <2>1, <2>2 DEF RefsExact, TypeOK
  <2>3. CASE thread_call_free(c)
    BY <2>1, <2>3 DEF RefsExact, TypeOK, thread_call_free, User
  <2> QED
    BY <2>2, <2>3 DEF ClientStep, thread_call_cancel, cancel_wait_once,
       thread_call_wait_once,
       cancel_wait_plain, wait_check, wait_awakened, client_return, callVars, ownerVars
<1>4. released' \in BOOLEAN /\ freed' \in BOOLEAN
  BY Zenon DEF ClientStep, thread_call_cancel, cancel_wait_once, thread_call_wait_once,
     cancel_wait_plain, wait_check, wait_awakened, client_return, thread_call_free,
     ownerVars, TypeOK
<1>5. /\ cpc' \in [Clients -> {"idle", "check", "done", "wait_once", "wait_count", "wait_free"}]
      /\ snap' \in [Clients -> Nat]
      /\ waiting' \subseteq Clients
  BY DEF ClientStep, thread_call_cancel, cancel_wait_once, thread_call_wait_once,
     cancel_wait_plain, wait_check, wait_awakened, client_return, thread_call_free,
     wait_locked, clientVars, TypeOK
<1>6. before' \in [Clients -> SUBSET Runners]
  BY DEF ClientStep, thread_call_cancel, cancel_wait_once, thread_call_wait_once,
     cancel_wait_plain, wait_check, wait_awakened, client_return, thread_call_free,
     clientVars, TypeOK, InFlight
<1>7. TypeOK'
  <2>1. {deadline, released, freed}' \subseteq BOOLEAN
    BY <1>1, <1>4, Zenon DEF TypeOK
  <2>2. {refs, submit, finish}' \subseteq Nat
    BY <1>1, <1>2, <1>3, Zenon DEF TypeOK
  <2>3. queue' \in {"none", "pending", "delayed"} /\ flags' \subseteq {"RUNNING", "RESCHEDULE", "WAIT"}
    BY <1>1 DEF TypeOK
  <2> QED
    BY <1>1, <1>5, <1>6, <2>1, <2>2, <2>3, Zenon DEF TypeOK
<1>8. RunnersInv'
  BY <1>1 DEF RunnersInv, Signal
<1> QED
  BY <1>3, <1>7, <1>8

\* A submission keeps the types and the references.
LEMMA BaseEnqueue ==
    ASSUME BaseInv, NEW q, Enqueue(q)
    PROVE  BaseInv'
<1> USE DEF BaseInv
<1>1. /\ q \in {"pending", "delayed"} /\ (Signal => q = "delayed")
      /\ UNCHANGED <<refs, finish, rpc, cpc, snap, waiting, before, use, released, freed>>
  BY DEF Enqueue, clientVars, ownerVars
<1>2. queue' \in {queue, q} /\ flags' \in {flags, flags \cup {"RESCHEDULE"}}
      /\ submit' \in {submit, submit + 1} /\ deadline' \in BOOLEAN
  BY Zenon DEF Enqueue, call_enqueue
<1>3. TypeOK'
  <2>1. {deadline, released, freed}' \subseteq BOOLEAN
    BY <1>1, <1>2, Zenon DEF TypeOK
  <2>2. {refs, submit, finish}' \subseteq Nat
    BY <1>1, <1>2 DEF TypeOK
  <2>3. queue' \in {"none", "pending", "delayed"} /\ flags' \subseteq {"RUNNING", "RESCHEDULE", "WAIT"}
    BY <1>1, <1>2 DEF TypeOK
  <2> QED
    BY <1>1, <2>1, <2>2, <2>3, Zenon DEF TypeOK
<1>4. RunnersInv'
  BY <1>1, <1>2 DEF RunnersInv, Signal
<1>5. RefsExact'
  BY <1>1 DEF RefsExact, Invoking
<1> QED
  BY <1>3, <1>4, <1>5

\* A runner's step keeps the types and the references, whoever runs the call:
\* a thread takes a reference and drops it in thread_call_finish; the timer
\* interrupt does neither.
LEMMA BaseRunner ==
    ASSUME BaseInv, NEW r \in Runners,
           \/ r \in Threads /\ thread_call_thread(r)
           \/ r \in Timers /\ delayed_timer_signal(r)
           \/ \E expired \in BOOLEAN : thread_call_finish(r, expired)
           \/ finish_wakeup(r) \/ signal_repend(r)
    PROVE  BaseInv'
<1> USE DEF BaseInv
<1>0. r \in Threads => r \notin Timers
  BY ThreadCallAssumption
<1>1. CASE r \in Threads /\ thread_call_thread(r)
  <2>1. /\ queue = "pending" /\ queue' = "none" /\ flags' = flags \cup {"RUNNING"}
        /\ refs' = refs + 1 /\ rpc[r] = "idle" /\ rpc' = [rpc EXCEPT ![r] = "invoke"]
        /\ UNCHANGED <<deadline, submit, finish, cpc, snap, waiting, before, use, released, freed>>
    BY <1>1 DEF thread_call_thread, clientVars, ownerVars
  <2>2. TypeOK'
    <3>1. {refs, submit, finish}' \subseteq Nat
      BY <2>1 DEF TypeOK
    <3>2. queue' \in {"none", "pending", "delayed"} /\ flags' \subseteq {"RUNNING", "RESCHEDULE", "WAIT"}
          /\ rpc' \in [Runners -> {"idle", "invoke", "wake", "wake_repend", "repend"}]
      BY <2>1 DEF TypeOK
    <3> QED
      BY <2>1, <3>1, <3>2, Zenon DEF TypeOK
  <2>3. RunnersInv'
    BY <1>0, <1>1, <2>1 DEF RunnersInv, Signal, TypeOK
  <2>4. RefsExact'
    <3>1. /\ Cardinality(Invoking \cap Threads) \in Nat
          /\ Cardinality((Invoking \cap Threads)') = Cardinality(Invoking \cap Threads) + 1
      BY <1>1, <2>1, InvokingMove
    <3> QED
      BY <2>1, <3>1 DEF RefsExact, TypeOK
  <2> QED
    BY <2>2, <2>3, <2>4
<1>2. CASE r \in Timers /\ delayed_timer_signal(r)
  <2>1. /\ Signal /\ queue' = "none" /\ flags' = flags \cup {"RUNNING"}
        /\ rpc[r] = "idle" /\ rpc' = [rpc EXCEPT ![r] = "invoke"]
        /\ UNCHANGED <<deadline, refs, submit, finish, cpc, snap, waiting, before, use, released, freed>>
    BY <1>2 DEF delayed_timer_signal, clientVars, ownerVars
  <2>2. TypeOK'
    <3>1. queue' \in {"none", "pending", "delayed"} /\ flags' \subseteq {"RUNNING", "RESCHEDULE", "WAIT"}
          /\ rpc' \in [Runners -> {"idle", "invoke", "wake", "wake_repend", "repend"}]
      BY <2>1 DEF TypeOK
    <3> QED
      BY <2>1, <3>1, Zenon DEF TypeOK
  <2>3. RunnersInv'
    BY <1>0, <1>2, <2>1 DEF RunnersInv, Signal, TypeOK
  <2>4. RefsExact'
    BY <1>0, <1>2, <2>1, InvokingMove DEF RefsExact, TypeOK
  <2> QED
    BY <2>2, <2>3, <2>4
<1>3. ASSUME NEW expired \in BOOLEAN, thread_call_finish(r, expired) PROVE BaseInv'
  <2>1. /\ rpc[r] = "invoke" /\ finish' = finish + 1 /\ submit' \in {submit, submit + 1}
        /\ refs' = (IF Signal THEN refs ELSE refs - 1)
        /\ queue' \in {queue, "delayed", "pending"}
        /\ UNCHANGED <<cpc, snap, waiting, use, released>>
        /\ before' = [c \in Clients |-> before[c] \ {r}]
    BY <1>3 DEF thread_call_finish, FinishRefs
  <2>2. flags' \subseteq {"RUNNING", "RESCHEDULE", "WAIT"}
    BY <1>3 DEF thread_call_finish, TypeOK
  <2>3. PICK label \in {"idle", "invoke", "wake", "wake_repend"} :
           /\ rpc' = [rpc EXCEPT ![r] = label]
           /\ label \in {"invoke", "wake_repend"} => Signal /\ r \in Timers
    BY <1>3, Zenon DEF thread_call_finish, Repends
  <2>4. deadline' \in BOOLEAN /\ freed' \in BOOLEAN
    BY <1>3, Zenon DEF thread_call_finish, TypeOK
  <2>5. Signal => queue' \in {queue, "delayed"}
    BY <1>3 DEF thread_call_finish, Repends, TypeOK
  <2>6. (r \in Threads <=> ~Signal) /\ (r \in Timers <=> Signal)
    BY <1>0, <2>1 DEF RunnersInv, Runners
  <2>7. RefsExact' /\ refs' \in Nat
    <3> DEFINE S == Invoking \cap Threads
    <3>1. CASE Signal
      <4>1. S' = S
        BY <2>3, <2>6, <3>1, InvokingMove
      <4> QED
        BY <2>1, <3>1, <4>1 DEF RefsExact, TypeOK
    <3>2. CASE ~Signal
      <4>1. Cardinality(S) \in Nat /\ Cardinality(S) > 0 /\ Cardinality(S') = Cardinality(S) - 1
        BY <2>1, <2>3, <2>6, <3>2, InvokingMove
      <4> QED
        BY <2>1, <3>2, <4>1 DEF RefsExact, TypeOK
    <3> QED
      BY <3>1, <3>2
  <2>8. RunnersInv'
    BY <2>1, <2>3, <2>5, <2>6 DEF RunnersInv, Signal, TypeOK
  <2>9. TypeOK'
    <3>1. {deadline, released, freed}' \subseteq BOOLEAN
      BY <2>1, <2>4, Zenon DEF TypeOK
    <3>2. {refs, submit, finish}' \subseteq Nat
      BY <2>1, <2>7 DEF TypeOK
    <3>3. queue' \in {"none", "pending", "delayed"}
          /\ rpc' \in [Runners -> {"idle", "invoke", "wake", "wake_repend", "repend"}]
          /\ before' \in [Clients -> SUBSET Runners]
      BY <2>1, <2>3 DEF TypeOK
    <3> QED
      BY <2>1, <2>2, <3>1, <3>2, <3>3, Zenon DEF TypeOK
  <2> QED
    BY <2>7, <2>8, <2>9
<1>4. CASE finish_wakeup(r)
  <2>1. /\ rpc[r] \in {"wake", "wake_repend"} /\ waiting' = {}
        /\ rpc' = [rpc EXCEPT ![r] = IF @ = "wake" THEN "idle" ELSE "repend"]
        /\ UNCHANGED <<queue, flags, deadline, refs, submit, finish, cpc, snap, before, use, released, freed>>
    BY <1>4 DEF finish_wakeup, callVars, ownerVars
  <2>2. PICK label \in {"idle", "repend"} :
           /\ rpc' = [rpc EXCEPT ![r] = label]
           /\ label = "repend" => rpc[r] = "wake_repend"
    BY <2>1 DEF TypeOK
  <2>3. TypeOK'
    <3>1. rpc' \in [Runners -> {"idle", "invoke", "wake", "wake_repend", "repend"}] /\ waiting' \subseteq Clients
      BY <2>1, <2>2 DEF TypeOK
    <3> QED
      BY <2>1, <3>1, Zenon DEF TypeOK
  <2>4. RunnersInv'
    BY <2>1, <2>2 DEF RunnersInv, Signal, TypeOK, Runners
  <2>5. RefsExact'
    BY <2>1, <2>2, InvokingMove DEF RefsExact
  <2> QED
    BY <2>3, <2>4, <2>5
<1>5. CASE signal_repend(r)
  <2>1. /\ rpc[r] = "repend" /\ flags' = flags \cup {"RUNNING"} /\ rpc' = [rpc EXCEPT ![r] = "invoke"]
        /\ UNCHANGED <<queue, deadline, refs, submit, finish, cpc, snap, waiting, before, use, released, freed>>
    BY <1>5 DEF signal_repend, clientVars, ownerVars
  <2>2. r \notin Threads
    BY <2>1 DEF RunnersInv, Runners
  <2>3. TypeOK'
    <3>1. rpc' \in [Runners -> {"idle", "invoke", "wake", "wake_repend", "repend"}]
          /\ flags' \subseteq {"RUNNING", "RESCHEDULE", "WAIT"}
      BY <2>1 DEF TypeOK
    <3> QED
      BY <2>1, <3>1, Zenon DEF TypeOK
  <2>4. RunnersInv'
    BY <2>1, <2>2 DEF RunnersInv, Signal, TypeOK, Runners
  <2>5. RefsExact'
    BY <2>1, <2>2, InvokingMove DEF RefsExact
  <2> QED
    BY <2>3, <2>4, <2>5
<1> QED
  BY <1>1, <1>2, <1>3, <1>4, <1>5

\* Every step keeps the types and the references.
LEMMA BaseStep == BaseInv /\ [Next]_vars => BaseInv'
<1> SUFFICES ASSUME BaseInv, [Next]_vars PROVE BaseInv'
  OBVIOUS
<1>1. ASSUME rescan_resort PROVE BaseInv'
  <2>1. /\ submit' = submit + 1 /\ finish' = finish + 1
        /\ UNCHANGED <<queue, flags, deadline, refs, rpc, cpc, snap, waiting, before, use, released, freed>>
    BY <1>1 DEF rescan_resort, clientVars, ownerVars
  <2>2. {refs, submit, finish}' \subseteq Nat
    BY <2>1 DEF BaseInv, TypeOK
  <2>3. TypeOK'
    BY <2>1, <2>2, Zenon DEF BaseInv, TypeOK
  <2> QED
    BY <2>1, <2>3 DEF BaseInv, RunnersInv, Signal, RefsExact, Invoking
<1>2. ASSUME UNCHANGED vars PROVE BaseInv'
  BY <1>2 DEF vars, BaseInv, TypeOK, RunnersInv, Signal, RefsExact, Invoking
<1>3. Threads \subseteq Runners /\ Timers \subseteq Runners
  BY DEF Runners
<1> QED
  BY <1>1, <1>2, <1>3, StepCases, BaseEnqueue, BaseClient, BaseRunner, Zenon DEF BaseInv

\* BaseInv holds in every reachable state.
LEMMA BaseInvariant ==
    ASSUME \A u \in Uses : Disciplined(u)
    PROVE  Spec => []BaseInv
  BY BaseInit, BaseStep, PTL DEF Spec

\* The call has one reference for its owner, until thread_call_free, and one
\* for each thread that runs it, when SIGNAL calls are not rescanned.
THEOREM ThreadCallRefsExact ==
    ASSUME \A u \in Uses : Disciplined(u)
    PROVE  Spec => []RefsExact
<1>1. BaseInv => RefsExact
  BY DEF BaseInv
<1> QED
  BY <1>1, BaseInvariant, PTL
-----------------------------------------------------------------------------
(* Counts.                                                                 *)

\* A runner that moves takes a request off the queue, ends one, or neither.
LEMMA InFlightMove ==
    ASSUME TypeOK, NEW r \in Runners, NEW label, rpc' = [rpc EXCEPT ![r] = label]
    PROVE  /\ Cardinality(InFlight) \in Nat
           /\ (r \in InFlight <=> rpc[r] \in {"invoke", "wake_repend", "repend"})
           /\ (r \in InFlight <=> label \in {"invoke", "wake_repend", "repend"}) => InFlight' = InFlight
           /\ r \notin InFlight /\ label \in {"invoke", "wake_repend", "repend"}
                => InFlight' = InFlight \cup {r} /\ Cardinality(InFlight') = Cardinality(InFlight) + 1
           /\ r \in InFlight /\ label \notin {"invoke", "wake_repend", "repend"}
                => InFlight' = InFlight \ {r} /\ Cardinality(InFlight') = Cardinality(InFlight) - 1
<1>1. InFlight \in SUBSET Runners
  BY DEF InFlight
<1>2. r \in InFlight <=> rpc[r] \in {"invoke", "wake_repend", "repend"}
  BY DEF InFlight
<1>3. label \in {"invoke", "wake_repend", "repend"} => InFlight' = InFlight \cup {r}
  BY DEF InFlight, TypeOK
<1>4. label \notin {"invoke", "wake_repend", "repend"} => InFlight' = InFlight \ {r}
  BY DEF InFlight, TypeOK
<1> HIDE DEF InFlight
<1>5. /\ Cardinality(InFlight) \in Nat
      /\ r \notin InFlight => Cardinality(InFlight \cup {r}) = Cardinality(InFlight) + 1
      /\ r \in InFlight => Cardinality(InFlight \ {r}) = Cardinality(InFlight) - 1
  BY <1>1, RunnerSets
<1> QED
  BY <1>2, <1>3, <1>4, <1>5

\* Every step changes the counts with the queue and the invocations.
LEMMA CountsStep == BaseInv /\ CountsExact /\ [Next]_vars => CountsExact'
<1> SUFFICES ASSUME BaseInv, CountsExact, [Next]_vars PROVE CountsExact'
  OBVIOUS
<1>0. /\ TypeOK /\ RunnersInv
      /\ InFlight \in SUBSET Runners /\ Cardinality(InFlight) \in Nat
      /\ submit \in Nat /\ finish \in Nat
  BY RunnerCount DEF BaseInv, TypeOK, InFlight
<1>1. ASSUME NEW q, Enqueue(q) PROVE CountsExact'
  <2>1. InFlight' = InFlight /\ UNCHANGED finish /\ q # "none"
    BY <1>1 DEF Enqueue, InFlight
  <2>2. \/ UNCHANGED <<queue, submit>>
        \/ submit' = (IF queue = "none" THEN submit + 1 ELSE submit) /\ queue' = q
    BY <1>1, Zenon DEF Enqueue, call_enqueue
  <2> QED
    BY <1>0, <2>1, <2>2 DEF CountsExact
<1>2. ASSUME NEW c \in Clients, ClientStep(c) PROVE CountsExact'
  <2>1. UNCHANGED <<submit, rpc>>
        /\ \/ UNCHANGED <<queue, finish>>
           \/ queue' = "none" /\ finish' = IF queue # "none" THEN finish + 1 ELSE finish
    BY <1>2, Zenon DEF ClientStep, thread_call_cancel, cancel_wait_once,
       thread_call_wait_once,
       cancel_wait_plain, wait_check, wait_awakened, client_return, thread_call_free,
       thread_call_cancel_locked, callVars
  <2>2. InFlight' = InFlight
    BY <2>1 DEF InFlight
  <2> QED
    BY <1>0, <2>1, <2>2 DEF CountsExact
<1>3. ASSUME NEW r \in Runners, thread_call_thread(r) \/ delayed_timer_signal(r)
      PROVE  CountsExact'
  <2>1. /\ queue # "none" /\ queue' = "none" /\ rpc[r] = "idle"
        /\ rpc' = [rpc EXCEPT ![r] = "invoke"] /\ UNCHANGED <<submit, finish>>
    BY <1>3 DEF thread_call_thread, delayed_timer_signal
  <2>2. Cardinality(InFlight') = Cardinality(InFlight) + 1
    BY <1>0, <2>1, InFlightMove
  <2> QED
    BY <1>0, <2>1, <2>2 DEF CountsExact
<1>4. ASSUME NEW r \in Runners, NEW expired \in BOOLEAN, thread_call_finish(r, expired)
      PROVE  CountsExact'
  <2> DEFINE resched == FinishRefs # 0 /\ "RESCHEDULE" \in flags
             repend == Repends(resched, expired)
  <2>1. /\ rpc[r] = "invoke" /\ finish' = finish + 1
        /\ submit' = IF resched /\ (repend \/ queue = "none") THEN submit + 1 ELSE submit
        /\ ~resched \/ repend => queue' = queue
        /\ resched /\ ~repend => queue' # "none"
    BY <1>4 DEF thread_call_finish
  <2>2. PICK label \in {"idle", "invoke", "wake", "wake_repend"} :
           /\ rpc' = [rpc EXCEPT ![r] = label]
           /\ label \in {"invoke", "wake_repend"} <=> repend /\ r \in Timers
    BY <1>4 DEF thread_call_finish
  <2>3. repend => resched /\ r \in Timers
    BY <1>0, <2>1 DEF Repends, RunnersInv, Runners
  <2> HIDE DEF resched, repend
  <2>4. CASE repend
    <3>1. InFlight' = InFlight
      BY <1>0, <2>1, <2>2, <2>3, <2>4, InFlightMove
    <3> QED
      BY <1>0, <2>1, <2>3, <2>4, <3>1 DEF CountsExact
  <2>5. CASE ~repend
    <3>1. Cardinality(InFlight') = Cardinality(InFlight) - 1
      BY <1>0, <2>1, <2>2, <2>5, InFlightMove
    <3> QED
      BY <1>0, <2>1, <2>5, <3>1 DEF CountsExact
  <2> QED
    BY <2>4, <2>5
<1>5. ASSUME NEW r \in Runners, finish_wakeup(r) \/ signal_repend(r) PROVE CountsExact'
  <2>1. UNCHANGED <<submit, finish, queue>>
    BY <1>5 DEF finish_wakeup, signal_repend, callVars
  <2>2. PICK label : /\ rpc' = [rpc EXCEPT ![r] = label]
                     /\ rpc[r] = "wake" => label = "idle"
                     /\ rpc[r] # "wake" => label \in {"repend", "invoke"}
                     /\ rpc[r] \in {"wake", "wake_repend", "repend"}
    BY <1>0, <1>5 DEF finish_wakeup, signal_repend, TypeOK
  <2>3. InFlight' = InFlight
    BY <1>0, <2>2, InFlightMove
  <2> QED
    BY <2>1, <2>3 DEF CountsExact
<1>6. ASSUME rescan_resort PROVE CountsExact'
  <2>1. InFlight' = InFlight /\ UNCHANGED queue /\ submit' = submit + 1 /\ finish' = finish + 1
    BY <1>6 DEF rescan_resort, InFlight
  <2> QED
    BY <1>0, <2>1 DEF CountsExact
<1>7. ASSUME UNCHANGED vars PROVE CountsExact'
  BY <1>7 DEF vars, CountsExact, InFlight
<1>8. Threads \subseteq Runners /\ Timers \subseteq Runners
  BY DEF Runners
<1> QED
  BY <1>0, <1>1, <1>2, <1>3, <1>4, <1>5, <1>6, <1>7, <1>8, StepCases, Zenon

\* tc_submit_count and tc_finish_count differ by the number of requests that are
\* queued or in flight, whatever was canceled, re-sorted or rescheduled, when
\* SIGNAL calls are not rescanned.
THEOREM ThreadCallCountsExact ==
    ASSUME \A u \in Uses : Disciplined(u)
    PROVE  Spec => []CountsExact
<1>1. Init => CountsExact
  <2> SUFFICES ASSUME Init PROVE CountsExact
    OBVIOUS
  <2>1. InFlight = {}
    BY DEF Init, InFlight
  <2> QED
    BY <2>1, FS_EmptySet DEF Init, CountsExact
<1> QED
  BY <1>1, CountsStep, BaseInvariant, PTL DEF Spec
-----------------------------------------------------------------------------
(* Clients.                                                                *)

\* A SIGNAL call is a ONCE call, and the steps do not change what a call is.
LEMMA Options ==
    ASSUME TypeOK
    PROVE  /\ Signal => Once
           /\ UNCHANGED use => UNCHANGED <<Signal, Once, UnmarkedRepends>>
<1>1. use \in AllUses
  BY ThreadCallAssumption DEF TypeOK
<1> QED
  BY <1>1 DEF AllUses, Signal, Once, UnmarkedRepends

\* What a client's step leaves alone.
LEMMA ClientFrame ==
    ASSUME NEW c \in Clients, ClientStep(c)
    PROVE  /\ UNCHANGED <<deadline, submit, rpc, use, InFlight>>
           /\ queue' \in {queue, "none"}
           /\ "RUNNING" \in flags' <=> "RUNNING" \in flags
           /\ "RESCHEDULE" \in flags' => "RESCHEDULE" \in flags
           /\ "WAIT" \in flags' => \/ "WAIT" \in flags
                                   \/ c \in use.waiters
                                   \/ ~Once
                                   \/ cpc[c] = "check"
                                   \/ released'
           /\ released => released'
<1>1. /\ UNCHANGED <<deadline, submit, rpc, use>> /\ queue' \in {queue, "none"}
  BY Zenon DEF ClientStep, thread_call_cancel, cancel_wait_once, thread_call_wait_once,
     cancel_wait_plain, wait_check, wait_awakened, client_return, thread_call_free,
     thread_call_cancel_locked, callVars, ownerVars
<1>5. released => released'
  BY DEF ClientStep, thread_call_cancel, cancel_wait_once, thread_call_wait_once,
     cancel_wait_plain, wait_check, wait_awakened, client_return, thread_call_free, ownerVars
<1>2. InFlight' = InFlight
  BY <1>1 DEF InFlight
<1>3. /\ "RUNNING" \in flags' <=> "RUNNING" \in flags
      /\ "RESCHEDULE" \in flags' => "RESCHEDULE" \in flags
  BY DEF ClientStep, thread_call_cancel, cancel_wait_once, thread_call_wait_once,
     cancel_wait_plain, wait_check, wait_awakened, client_return, thread_call_free,
     wait_locked, callVars
<1>4. "WAIT" \in flags' => "WAIT" \in flags \/ c \in use.waiters \/ ~Once \/ cpc[c] = "check" \/ released'
  BY DEF ClientStep, thread_call_cancel, cancel_wait_once, thread_call_wait_once,
     cancel_wait_plain, wait_check, wait_awakened, client_return, thread_call_free,
     wait_locked, callVars
<1> QED
  BY <1>1, <1>2, <1>3, <1>4, <1>5

\* The steps that are not a client's leave the clients alone.
RunnerStep ==
    \/ \E q : Enqueue(q)
    \/ \E r \in Threads : thread_call_thread(r)
    \/ \E r \in Timers : delayed_timer_signal(r)
    \/ \E r \in Runners : \E expired \in BOOLEAN : thread_call_finish(r, expired)
    \/ \E r \in Runners : finish_wakeup(r) \/ signal_repend(r)
    \/ rescan_resort
    \/ UNCHANGED vars

LEMMA RunnerFrame ==
    ASSUME RunnerStep
    PROVE  /\ UNCHANGED <<cpc, use, released>>
           /\ waiting' \in {waiting, {}}
           /\ "WAIT" \in flags' => "WAIT" \in flags
  BY DEF RunnerStep, Enqueue, call_enqueue, thread_call_thread, delayed_timer_signal,
     thread_call_finish, finish_wakeup, signal_repend, rescan_resort, vars, callVars,
     clientVars, ownerVars

\* Where the clients are, and what they found in flight.
LEMMA ClientInvStep == BaseInv /\ ClientInv /\ [Next]_vars => ClientInv'
<1> SUFFICES ASSUME BaseInv, ClientInv, [Next]_vars PROVE ClientInv'
  OBVIOUS
<1>0. TypeOK /\ RunnersInv
  BY DEF BaseInv
<1>1. ASSUME NEW c \in Clients, ClientStep(c) PROVE ClientInv'
  <2>0. /\ UNCHANGED <<use, InFlight, Signal, Once>> /\ (released => released')
    BY <1>0, <1>1, ClientFrame, Options
  <2>1. \A d \in Clients \ {c} : cpc'[d] = cpc[d] /\ (d \in waiting' => d \in waiting)
    BY <1>0, <1>1 DEF ClientStep, thread_call_cancel, cancel_wait_once,
       thread_call_wait_once,
       cancel_wait_plain, wait_check, wait_awakened, client_return, thread_call_free,
       wait_locked, clientVars, TypeOK
  <2>2. \A d \in Clients : before'[d] \in {before[d], {}, InFlight}
    BY <1>0, <1>1 DEF ClientStep, thread_call_cancel, cancel_wait_once,
       thread_call_wait_once,
       cancel_wait_plain, wait_check, wait_awakened, client_return, thread_call_free,
       clientVars, TypeOK
  <2>3. \/ cpc'[c] = cpc[c] /\ (c \in waiting' => c \in waiting)
        \/ cpc'[c] \in {"done", "idle"} /\ c \notin waiting'
        \/ cpc'[c] \in {"done", "idle"} /\ cpc[c] \in {"idle", "check", "done"} /\ (c \in waiting' => c \in waiting)
        \/ cpc'[c] = "wait_once" /\ Once /\ c \in use.waiters
        \/ cpc'[c] = "wait_count" /\ (~Once \/ cpc[c] = "check")
        \/ cpc'[c] = "check" /\ cpc[c] = "wait_count" /\ c \notin waiting'
        \/ cpc'[c] = "wait_free" /\ Signal /\ released'
    BY <1>0, <1>1 DEF ClientStep, thread_call_cancel, cancel_wait_once,
       thread_call_wait_once,
       cancel_wait_plain, wait_check, wait_awakened, client_return, thread_call_free, User,
       wait_locked, clientVars, TypeOK
  <2>4. ASSUME NEW d \in Clients \ {c}
        PROVE  /\ d \in waiting' => cpc'[d] \in {"wait_once", "wait_count", "wait_free"}
               /\ cpc'[d] = "wait_once" => Once /\ d \in use.waiters
               /\ cpc'[d] \in {"wait_count", "check"} => ~Once
               /\ cpc'[d] = "wait_free" => Signal /\ released'
    BY <2>0, <2>1, Zenon DEF ClientInv
  <2>5. /\ c \in waiting' => cpc'[c] \in {"wait_once", "wait_count", "wait_free"}
        /\ cpc'[c] = "wait_once" => Once /\ c \in use.waiters
        /\ cpc'[c] \in {"wait_count", "check"} => ~Once
        /\ cpc'[c] = "wait_free" => Signal /\ released'
    BY <2>0, <2>3 DEF ClientInv
  <2>6. \A d \in Clients : before'[d] \subseteq InFlight'
    BY <2>0, <2>2, Zenon DEF ClientInv
  <2> QED
    BY <2>0, <2>4, <2>5, <2>6, Zenon DEF ClientInv
<1>2. ASSUME RunnerStep PROVE ClientInv'
  <2>1. /\ UNCHANGED <<cpc, use, released, Signal, Once>> /\ waiting' \in {waiting, {}}
    BY <1>0, <1>2, RunnerFrame, Options
  <2>2. \A c \in Clients : before'[c] \subseteq InFlight'
    <3>1. CASE \E r \in Runners : \E expired \in BOOLEAN : thread_call_finish(r, expired)
      <4>1. PICK r \in Runners : /\ before' = [c \in Clients |-> before[c] \ {r}]
                                 /\ \E label : rpc' = [rpc EXCEPT ![r] = label]
        BY <3>1 DEF thread_call_finish
      <4>2. InFlight \ {r} \subseteq InFlight'
        BY <1>0, <4>1 DEF InFlight, TypeOK
      <4> QED
        BY <4>1, <4>2 DEF ClientInv
    <3>2. CASE ~\E r \in Runners : \E expired \in BOOLEAN : thread_call_finish(r, expired)
      <4>1. InFlight \subseteq InFlight'
        BY <1>0, <1>2, <3>2 DEF RunnerStep, Enqueue, thread_call_thread,
           delayed_timer_signal,
           finish_wakeup, signal_repend, rescan_resort, vars, InFlight, TypeOK, Runners
      <4>2. UNCHANGED before
        BY <1>2, <3>2 DEF RunnerStep, Enqueue, thread_call_thread, delayed_timer_signal,
           finish_wakeup, signal_repend, rescan_resort, vars, clientVars
      <4> QED
        BY <4>1, <4>2 DEF ClientInv
    <3> QED
      BY <3>1, <3>2
  <2> QED
    BY <2>1, <2>2 DEF ClientInv
<1> QED
  BY <1>0, <1>1, <1>2, StepCases, Zenon DEF RunnerStep

\* Nobody but the owner waits for a SIGNAL call without waiters.
LEMMA SignalInvStep == BaseInv /\ ClientInv /\ SignalInv /\ [Next]_vars => SignalInv'
<1> SUFFICES ASSUME BaseInv, ClientInv, SignalInv, [Next]_vars PROVE SignalInv'
  OBVIOUS
<1>0. TypeOK /\ RunnersInv /\ (Signal => Once)
  BY Options DEF BaseInv
<1>1. ASSUME NEW c \in Clients, ClientStep(c) PROVE SignalInv'
  <2>1. UNCHANGED <<use, Signal, Once>>
    BY <1>0, <1>1, ClientFrame, Options
  <2> QED
    BY <1>0, <1>1, <2>1, ClientFrame, Zenon DEF SignalInv, ClientInv
<1>2. ASSUME RunnerStep PROVE SignalInv'
  <2>1. UNCHANGED <<use, released, Signal>> /\ ("WAIT" \in flags' => "WAIT" \in flags)
    BY <1>0, <1>2, RunnerFrame, Options
  <2>2. ASSUME NEW s \in Runners, rpc'[s] = "wake" PROVE rpc[s] = "wake" \/ "WAIT" \in flags
    BY <1>0, <1>2, <2>2 DEF RunnerStep, Enqueue, thread_call_thread, delayed_timer_signal,
       thread_call_finish, finish_wakeup, signal_repend, rescan_resort, vars, TypeOK, Runners
  <2> QED
    BY <2>1, <2>2, Zenon DEF SignalInv
<1> QED
  BY <1>0, <1>1, <1>2, StepCases, Zenon DEF RunnerStep
-----------------------------------------------------------------------------
(* ONCE calls.                                                             *)

\* A SIGNAL call that was freed has no reference left.
LEMMA SignalRefs == BaseInv /\ Signal /\ released => refs = 0
<1> SUFFICES ASSUME BaseInv, Signal, released PROVE refs = 0
  OBVIOUS
<1>1. Invoking \cap Threads = {}
  BY DEF BaseInv, RunnersInv, Invoking
<1> QED
  BY <1>1, FS_EmptySet DEF BaseInv, RefsExact

\* Every step keeps a ONCE call marked while it runs, and off the queues.
LEMMA OnceInvStep == BaseInv /\ SignalInv /\ OnceInv /\ [Next]_vars => OnceInv'
<1> SUFFICES ASSUME BaseInv, SignalInv, OnceInv, [Next]_vars, (Once /\ ~UnmarkedRepends)'
             PROVE  OnceInv!2'
  BY DEF OnceInv
<1>0. TypeOK /\ RunnersInv
  BY DEF BaseInv
<1>1. UNCHANGED <<use, Once, Signal, UnmarkedRepends>>
  <2>1. UNCHANGED use
    BY <1>0, StepCases, ClientFrame, RunnerFrame, Zenon DEF RunnerStep
  <2> QED
    BY <1>0, <2>1, Options
<1>2. Once /\ ~UnmarkedRepends /\ OnceInv!2
  BY <1>1 DEF OnceInv
<1>3. ASSUME NEW c \in Clients, ClientStep(c) PROVE OnceInv!2'
  BY <1>2, <1>3, ClientFrame
<1>4. ASSUME NEW q, Enqueue(q) PROVE OnceInv!2'
  BY <1>2, <1>4 DEF Enqueue, call_enqueue, Pend
<1>5. ASSUME NEW r \in Runners, thread_call_thread(r) \/ delayed_timer_signal(r)
      PROVE  OnceInv!2'
  <2>1. /\ queue # "none" /\ queue' = "none" /\ flags' = flags \cup {"RUNNING"}
        /\ rpc' = [rpc EXCEPT ![r] = "invoke"]
    BY <1>5 DEF thread_call_thread, delayed_timer_signal
  <2>2. \A s \in Runners : rpc[s] # "invoke"
    BY <1>2, <2>1
  <2> QED
    BY <1>0, <1>2, <2>1, <2>2 DEF TypeOK
<1>6. ASSUME NEW r \in Runners, NEW expired \in BOOLEAN, thread_call_finish(r, expired)
      PROVE  OnceInv!2'
  <2>1. PICK label \in {"idle", "invoke", "wake", "wake_repend"} :
           /\ rpc' = [rpc EXCEPT ![r] = label]
           /\ label = "wake_repend" => Signal /\ "WAIT" \in flags /\ refs # 0
           /\ label = "invoke" => UNCHANGED queue
           /\ "RUNNING" \in flags' <=> label = "invoke"
           /\ "RESCHEDULE" \notin flags'
    BY <1>6 DEF thread_call_finish, Repends, FinishRefs
  <2>2. rpc[r] = "invoke" /\ queue = "none"
    BY <1>2, <1>6 DEF thread_call_finish
  <2>3. label # "wake_repend"
    BY <1>2, <2>1, SignalRefs DEF SignalInv, UnmarkedRepends
  <2>4. \A s \in Runners \ {r} : rpc'[s] = rpc[s] /\ rpc[s] \in {"idle", "wake"}
    BY <1>0, <1>2, <2>1, <2>2 DEF TypeOK
  <2>5. rpc'[r] = label
    BY <1>0, <2>1 DEF TypeOK
  <2> QED
    BY <2>1, <2>2, <2>3, <2>4, <2>5
<1>7. ASSUME NEW r \in Runners, finish_wakeup(r) \/ signal_repend(r) PROVE OnceInv!2'
  <2>1. UNCHANGED <<queue, flags>> /\ rpc' = [rpc EXCEPT ![r] = "idle"]
    BY <1>2, <1>7 DEF finish_wakeup, signal_repend, callVars
  <2> QED
    BY <1>0, <1>2, <2>1 DEF TypeOK
<1>8. ASSUME rescan_resort \/ UNCHANGED vars PROVE OnceInv!2'
  BY <1>2, <1>8 DEF rescan_resort, vars
<1>9. Threads \subseteq Runners /\ Timers \subseteq Runners
  BY DEF Runners
<1> QED
  BY <1>0, <1>3, <1>4, <1>5, <1>6, <1>7, <1>8, <1>9, StepCases, Zenon

\* What holds of the call and of its clients until it is freed.
LiveInv == BaseInv /\ ClientInv /\ SignalInv /\ OnceInv

\* LiveInv holds in every reachable state.
LEMMA LiveInvariant ==
    ASSUME \A u \in Uses : Disciplined(u)
    PROVE  Spec => []LiveInv
<1>1. Init => ClientInv /\ SignalInv /\ OnceInv
  BY DEF Init, ClientInv, SignalInv, OnceInv
<1> QED
  BY <1>1, BaseInvariant, ClientInvStep, SignalInvStep, OnceInvStep, PTL DEF Spec, LiveInv

\* A ONCE call, if it is not a SIGNAL call that some client waits for, is never
\* invoked by two contexts at a time, and if it has to be rescheduled it runs
\* and is on no queue, when SIGNAL calls are not rescanned.  A SIGNAL call with
\* waiters is left out: thread_call_finish unlocks to wake them up before the
\* re-pended call is marked as running again, so two CPUs may run it.
THEOREM ThreadCallOnceExclusive ==
    ASSUME \A u \in Uses : Disciplined(u)
    PROVE  Spec => []OnceExclusive
<1>1. LiveInv => OnceExclusive
  <2> SUFFICES ASSUME LiveInv, Once, ~UnmarkedRepends PROVE OnceExclusive
    BY DEF OnceExclusive
  <2>1. OnceInv!2
    BY DEF LiveInv, OnceInv
  <2>2. Cardinality(Invoking) <= 1
    <3>1. CASE Invoking = {}
      BY <3>1, FS_EmptySet
    <3>2. CASE Invoking # {}
      <4>1. PICK r : Invoking = {r}
        BY <2>1, <3>2 DEF Invoking
      <4> QED
        BY <4>1, FS_Singleton
    <3> QED
      BY <3>1, <3>2
  <2> QED
    BY <2>1, <2>2 DEF OnceExclusive
<1> QED
  BY <1>1, LiveInvariant, PTL
-----------------------------------------------------------------------------
(* Freeing the call.                                                       *)

\* thread_call_free finds a call that is not armed and that nobody waits for.
LEMMA FreeBegins ==
    ASSUME \A u \in Uses : OwnerAlone(u),
           LiveInv, NEW c \in Clients, thread_call_free(c)
    PROVE  FreeInv'
<1>0. TypeOK /\ UNCHANGED <<rpc, use, InFlight, Signal, Once>>
  <2>1. TypeOK /\ ClientStep(c)
    BY DEF LiveInv, BaseInv, ClientStep
  <2> QED
    BY <2>1, ClientFrame, Options
<1>1. /\ use.mayfree /\ ~released /\ (\A d \in Clients : cpc[d] = "idle")
      /\ queue = "none" /\ UNCHANGED queue
      /\ "RESCHEDULE" \notin flags /\ "RESCHEDULE" \notin flags'
  BY DEF thread_call_free, User, Armed
<1>2. \/ UNCHANGED cpc
      \/ Signal /\ cpc' = [cpc EXCEPT ![c] = "wait_free"] /\ c \in waiting'
  BY DEF thread_call_free
<1>3. \A d \in Clients : cpc'[d] # "idle" => Signal /\ d = c /\ cpc'[d] = "wait_free" /\ c \in waiting'
  BY <1>0, <1>1, <1>2 DEF TypeOK
<1>4. Signal => use.waiters = {}
  BY <1>0, <1>1 DEF TypeOK, OwnerAlone, Signal
<1>5. Signal => \A r \in Runners : rpc[r] # "wake"
  BY <1>1, <1>4 DEF LiveInv, SignalInv
<1> QED
  BY <1>0, <1>1, <1>3, <1>4, <1>5, Zenon DEF FreeInv

\* A SIGNAL call that was freed ends with its invocation.
LEMMA FinishEnds ==
    ASSUME LiveInv, FreeInv, released, NEW r \in Runners, NEW expired \in BOOLEAN,
           thread_call_finish(r, expired)
    PROVE  /\ UNCHANGED queue /\ "RESCHEDULE" \notin flags'
           /\ InFlight' = InFlight \ {r}
           /\ Signal => InFlight' = {}
<1>1. "RESCHEDULE" \notin flags /\ (Signal => use.waiters = {})
  BY DEF FreeInv
<1>2. PICK label \in {"idle", "wake"} : rpc' = [rpc EXCEPT ![r] = label]
  BY <1>1 DEF thread_call_finish, Repends
<1>3. UNCHANGED queue /\ "RESCHEDULE" \notin flags' /\ rpc[r] = "invoke"
  BY <1>1 DEF thread_call_finish
<1>4. InFlight' = InFlight \ {r}
  BY <1>2 DEF LiveInv, BaseInv, TypeOK, InFlight
<1>5. ASSUME Signal PROVE InFlight \subseteq {r}
  <2>1. Once /\ ~UnmarkedRepends
    BY <1>1, <1>5, Options DEF LiveInv, BaseInv, UnmarkedRepends
  <2> QED
    BY <1>3, <2>1 DEF LiveInv, OnceInv, InFlight
<1> QED
  BY <1>3, <1>4, <1>5

\* A call that was freed stays disarmed, and its owner waits for what runs.
LEMMA FreeInvStep ==
    ASSUME \A u \in Uses : OwnerAlone(u),
           LiveInv, FreeInv, [Next]_vars
    PROVE  FreeInv'
<1>0. TypeOK /\ RunnersInv /\ ClientInv
  BY DEF LiveInv, BaseInv
<1>1. CASE ~released
  <2>1. ASSUME NEW c \in Clients, ClientStep(c), ~thread_call_free(c) PROVE UNCHANGED released
    BY <2>1 DEF ClientStep, thread_call_cancel, cancel_wait_once, thread_call_wait_once,
       cancel_wait_plain, wait_check, wait_awakened, client_return, ownerVars
  <2>2. UNCHANGED released \/ \E c \in Clients : thread_call_free(c)
    BY <1>0, <2>1, StepCases, RunnerFrame, Zenon DEF RunnerStep
  <2> QED
    BY <1>1, <2>2, FreeBegins DEF FreeInv
<1>2. CASE released
  <2>0. /\ Signal => use.waiters = {}
        /\ queue = "none" /\ "RESCHEDULE" \notin flags
        /\ \A c \in Clients : cpc[c] # "idle" => Signal /\ cpc[c] \in {"wait_free", "done"}
        /\ \A c, d \in Clients : cpc[c] # "idle" /\ cpc[d] # "idle" => c = d
        /\ Signal /\ (\E r \in Runners : rpc[r] = "wake") => InFlight = {}
        /\ \A c \in Clients : cpc[c] = "wait_free" /\ c \notin waiting => InFlight = {}
    BY <1>2 DEF FreeInv
  <2>1. ASSUME NEW c \in Clients, ClientStep(c) PROVE FreeInv'
    <3>1. wait_awakened(c) \/ client_return(c)
      BY <1>2, <2>0, <2>1 DEF ClientStep, thread_call_cancel, cancel_wait_once,
         thread_call_wait_once,
         cancel_wait_plain, wait_check, thread_call_free, User
    <3>2. UNCHANGED <<queue, flags, rpc, waiting, use, released, Signal, InFlight>>
      <4>1. UNCHANGED <<queue, flags, waiting, released>>
        BY <3>1 DEF wait_awakened, client_return, callVars, ownerVars
      <4> QED
        BY <1>0, <2>1, <4>1, ClientFrame, Options
    <3>3. \A d \in Clients : cpc'[d] = cpc[d] \/ (cpc[d] # "idle" /\ cpc'[d] \in {"done", "idle"})
      BY <1>0, <2>0, <3>1 DEF wait_awakened, client_return, TypeOK
    <3> QED
      BY <2>0, <3>2, <3>3, Zenon DEF FreeInv
  <2>2. ASSUME RunnerStep PROVE FreeInv'
    <3>0. UNCHANGED <<cpc, use, released, Signal>>
      BY <1>0, <2>2, RunnerFrame, Options
    <3>1. ASSUME NEW r \in Runners, NEW expired \in BOOLEAN, thread_call_finish(r, expired)
          PROVE  FreeInv'
      <4>1. /\ queue' = "none" /\ "RESCHEDULE" \notin flags'
            /\ Signal => InFlight' = {}
        BY <1>2, <2>0, <3>1, FinishEnds
      <4>2. \A c \in Clients : cpc[c] = "wait_free" => Signal
        BY <1>0 DEF ClientInv
      <4> QED
        BY <2>0, <3>0, <4>1, <4>2, Zenon DEF FreeInv
    <3>2. ASSUME NEW r \in Runners, finish_wakeup(r) \/ signal_repend(r) PROVE FreeInv'
      <4>1. Signal => rpc[r] \in {"invoke", "idle", "wake"}
        BY <1>0, <2>0, Options DEF LiveInv, OnceInv, UnmarkedRepends
      <4>2. rpc[r] = "wake" /\ rpc' = [rpc EXCEPT ![r] = "idle"]
            /\ UNCHANGED <<queue, flags>>
        BY <1>0, <3>2, <4>1 DEF finish_wakeup, signal_repend, callVars, RunnersInv
      <4>3. InFlight' = InFlight /\ \A t \in Runners : rpc'[t] = "wake" => rpc[t] = "wake"
        BY <1>0, <4>2 DEF TypeOK, InFlight
      <4>4. Signal => InFlight = {}
        BY <2>0, <4>2
      <4> QED
        BY <1>0, <2>0, <3>0, <4>2, <4>3, <4>4, Zenon DEF FreeInv, ClientInv
    <3>3. ASSUME UNCHANGED vars PROVE FreeInv'
      BY <3>3 DEF vars, FreeInv, Signal, InFlight
    <3>4. ~\E q : Enqueue(q)
      BY <1>2, <2>0 DEF Enqueue
    <3> QED
      BY <2>0, <2>2, <3>1, <3>2, <3>3, <3>4 DEF RunnerStep, thread_call_thread,
         delayed_timer_signal,
         rescan_resort
  <2> QED
    BY <1>0, <2>1, <2>2, StepCases, Zenon DEF RunnerStep
<1> QED
  BY <1>1, <1>2

\* Whatever returns the call to its zone, nothing runs it and nobody waits.
LEMMA FreedInvStep ==
    ASSUME \A u \in Uses : OwnerAlone(u),
           LiveInv, FreeInv, FreedInv, [Next]_vars
    PROVE  FreedInv'
<1> SUFFICES ASSUME freed' PROVE FreedInv!2'
  BY DEF FreedInv
<1>0. TypeOK /\ RunnersInv /\ ClientInv /\ RefsExact
  BY DEF LiveInv, BaseInv
<1>1. ASSUME NEW c \in Clients, ClientStep(c) PROVE FreedInv!2'
  <2>0. UNCHANGED InFlight /\ (released => released')
    BY <1>1, ClientFrame
  <2>1. CASE thread_call_free(c)
    <3>1. /\ ~released /\ released' /\ ~(Signal /\ "RUNNING" \in flags)
          /\ (\A d \in Clients : cpc[d] = "idle") /\ UNCHANGED waiting
          /\ refs' = refs - 1 /\ refs' = 0 /\ use.mayfree
      <4>1. ~freed
        BY <2>1 DEF thread_call_free, User, FreedInv
      <4> QED
        BY <2>1, <4>1 DEF thread_call_free, User
    <3>2. waiting' = {}
      BY <1>0, <3>1 DEF ClientInv, TypeOK
    <3>3. CASE Signal
      <4>1. Once /\ ~UnmarkedRepends
        BY <1>0, <3>1, <3>3, Options DEF TypeOK, OwnerAlone, Signal, UnmarkedRepends
      <4>2. InFlight = {}
        BY <3>1, <3>3, <4>1 DEF LiveInv, OnceInv, InFlight
      <4> QED
        BY <2>0, <3>1, <3>2, <4>2
    <3>4. CASE ~Signal
      <4>1. Invoking \cap Threads \in SUBSET Runners
        BY DEF Invoking
      <4>2. Cardinality(Invoking \cap Threads) = 0
        BY <1>0, <3>1, <4>1, RunnerCount DEF RefsExact, TypeOK
      <4>3. Invoking \cap Threads = {}
        BY <4>1, <4>2, RunnerCount
      <4>4. InFlight = {}
        BY <1>0, <3>4, <4>3 DEF RunnersInv, Invoking, InFlight, Runners
      <4> QED
        BY <2>0, <3>1, <3>2, <4>4
    <3> QED
      BY <3>3, <3>4
  <2>2. CASE ~thread_call_free(c) /\ freed
    <3>1. released /\ InFlight = {} /\ waiting = {}
      BY <2>2 DEF FreedInv
    <3>2. wait_awakened(c) \/ client_return(c)
      BY <1>1, <2>2, <3>1 DEF ClientStep, thread_call_cancel, cancel_wait_once,
         thread_call_wait_once,
         cancel_wait_plain, wait_check, User, FreeInv
    <3> QED
      BY <2>0, <3>1, <3>2 DEF wait_awakened, client_return
  <2>3. CASE ~thread_call_free(c) /\ ~freed
    <3>1. wait_awakened(c) /\ cpc[c] = "wait_free"
      BY <1>1, <2>3 DEF ClientStep, thread_call_cancel, cancel_wait_once,
         thread_call_wait_once,
         cancel_wait_plain, wait_check, wait_awakened, client_return, ownerVars
    <3>2. c \notin waiting /\ UNCHANGED <<waiting, released>> /\ released
      BY <1>0, <3>1 DEF wait_awakened, ClientInv
    <3>3. InFlight = {}
      BY <3>1, <3>2 DEF FreeInv
    <3>4. waiting = {}
      BY <1>0, <3>1, <3>2 DEF FreeInv, ClientInv, TypeOK
    <3> QED
      BY <2>0, <3>2, <3>3, <3>4
  <2> QED
    BY <2>1, <2>2, <2>3
<1>2. ASSUME RunnerStep PROVE FreedInv!2'
  <2>0. UNCHANGED <<cpc, use, released, Signal>> /\ waiting' \in {waiting, {}}
    BY <1>0, <1>2, RunnerFrame, Options
  <2>1. ASSUME NEW r \in Runners, NEW expired \in BOOLEAN, thread_call_finish(r, expired)
        PROVE  FreedInv!2'
    <3>1. rpc[r] = "invoke" /\ ~freed
      BY <2>1 DEF thread_call_finish, FreedInv, InFlight
    <3>2. ~Signal /\ refs - 1 = 0
      BY <2>1, <3>1 DEF thread_call_finish, FinishRefs
    <3>3. Invoking \cap Threads \in SUBSET Runners /\ r \in Invoking \cap Threads
      BY <1>0, <3>1, <3>2 DEF Invoking, RunnersInv, Runners
    <3>4. Cardinality(Invoking \cap Threads) # 0
      BY <3>3, RunnerCount
    <3>5. refs = 1 /\ Cardinality(Invoking \cap Threads) = 1 /\ released
      BY <1>0, <3>2, <3>3, <3>4, RunnerCount DEF RefsExact, TypeOK
    <3>6. Cardinality((Invoking \cap Threads) \ {r}) = 0
      BY <3>3, <3>5, RunnerSets
    <3>7. (Invoking \cap Threads) \ {r} = {}
      BY <3>3, <3>6, RunnerCount
    <3>8. InFlight \subseteq {r}
      BY <1>0, <3>2, <3>7 DEF RunnersInv, Invoking, InFlight, Runners
    <3>9. InFlight' = {}
      BY <2>1, <3>5, <3>8, FinishEnds
    <3>10. waiting = {}
      BY <1>0, <3>2, <3>5 DEF FreeInv, ClientInv, TypeOK
    <3> QED
      BY <2>0, <3>5, <3>9, <3>10
  <2>2. CASE ~\E r \in Runners : \E expired \in BOOLEAN : thread_call_finish(r, expired)
    <3>1. freed
      BY <1>2, <2>2 DEF RunnerStep, Enqueue, thread_call_thread, delayed_timer_signal,
         finish_wakeup, signal_repend, rescan_resort, vars, ownerVars
    <3>2. released /\ InFlight = {} /\ waiting = {} /\ queue = "none"
      BY <3>1 DEF FreedInv, FreeInv
    <3>3. InFlight' = {}
      BY <1>0, <1>2, <2>2, <3>2 DEF RunnerStep, Enqueue, thread_call_thread,
         delayed_timer_signal,
         finish_wakeup, signal_repend, rescan_resort, vars, InFlight, TypeOK, Runners
    <3> QED
      BY <2>0, <3>2, <3>3
  <2> QED
    BY <2>1, <2>2
<1> QED
  BY <1>0, <1>1, <1>2, StepCases, Zenon DEF RunnerStep

\* A call that went back to its zone is on no queue, is not running, is not
\* waited on, and its counts are equal, when SIGNAL calls are not rescanned and
\* nobody but its owner waits for one that its owner frees.
THEOREM ThreadCallNoUseAfterFree ==
    ASSUME \A u \in Uses : Disciplined(u) /\ OwnerAlone(u)
    PROVE  Spec => []NoUseAfterFree
<1>0. (\A u \in Uses : Disciplined(u)) /\ (\A u \in Uses : OwnerAlone(u))
  OBVIOUS
<1>1. Init => FreeInv /\ FreedInv
  BY DEF Init, FreeInv, FreedInv
<1>2. LiveInv /\ FreeInv /\ FreedInv /\ CountsExact => NoUseAfterFree
  <2> SUFFICES ASSUME LiveInv, FreeInv, FreedInv, CountsExact, freed PROVE NoUseAfterFree
    BY DEF NoUseAfterFree
  <2>1. queue = "none" /\ InFlight = {} /\ waiting = {}
    BY DEF FreeInv, FreedInv
  <2>2. submit = finish
    BY <2>1, FS_EmptySet DEF CountsExact, LiveInv, BaseInv, TypeOK
  <2> QED
    BY <2>1, <2>2 DEF NoUseAfterFree
<1>3. /\ LiveInv /\ FreeInv /\ [Next]_vars => FreeInv'
      /\ LiveInv /\ FreeInv /\ FreedInv /\ [Next]_vars => FreedInv'
  BY <1>0, FreeInvStep, FreedInvStep
<1>4. Spec => []LiveInv /\ []CountsExact
  BY <1>0, LiveInvariant, ThreadCallCountsExact
<1> QED
  BY <1>1, <1>2, <1>3, <1>4, PTL DEF Spec
-----------------------------------------------------------------------------
(* Waiting for a ONCE call.                                                *)

\* Every step, for a ONCE call that one client waits for.
LEMMA CoverInvStep == LiveInv /\ CoverInv /\ [Next]_vars => CoverInv'
<1> SUFFICES ASSUME LiveInv, CoverInv, [Next]_vars, Once', ~Signal',
                    NEW c \in Clients, (use.waiters = {c})'
             PROVE  Covers(c)'
  BY DEF CoverInv
<1>0. TypeOK /\ RunnersInv /\ ClientInv
  BY DEF LiveInv, BaseInv
<1>1. UNCHANGED use
  BY <1>0, StepCases, ClientFrame, RunnerFrame, Zenon DEF RunnerStep
<1>2. Once /\ ~Signal /\ use.waiters = {c} /\ Covers(c)
  <2>1. Once /\ ~Signal
    BY <1>1 DEF Once, Signal
  <2>2. use.waiters = {c}
    BY <1>1
  <2> QED
    BY <2>1, <2>2 DEF CoverInv
<1>3. /\ \A r, s \in Runners : rpc[r] = "invoke" /\ rpc[s] = "invoke" => r = s
      /\ \A r \in Runners : rpc[r] \in {"invoke", "idle", "wake"}
      /\ \A r \in Runners : rpc[r] = "invoke" => "RUNNING" \in flags
  BY <1>2 DEF LiveInv, OnceInv, UnmarkedRepends
<1>4. /\ before[c] \subseteq InFlight
      /\ c \in waiting => cpc[c] \in {"wait_once", "wait_count", "wait_free"}
      /\ \A d \in Clients : cpc[d] \in {"idle", "done"} \/ (d = c /\ cpc[d] = "wait_once")
  BY <1>0, <1>2 DEF ClientInv, TypeOK
<1>5. ASSUME NEW d \in Clients, ClientStep(d) PROVE Covers(c)'
  <2>0. UNCHANGED rpc
    BY <1>5, ClientFrame
  <2>1. CASE thread_call_cancel(d) \/ thread_call_free(d)
    <3>1. UNCHANGED <<cpc, waiting, before>> /\ ("WAIT" \in flags' => "WAIT" \in flags)
      BY <1>2, <2>1 DEF thread_call_cancel, thread_call_free, clientVars
    <3> QED
      BY <1>2, <2>0, <3>1 DEF Covers
  <2>2. CASE (cancel_wait_once(d) /\ "RUNNING" \in flags) \/ thread_call_wait_once(d)
    <3>1. d = c /\ cpc[c] = "idle" /\ c \in waiting' /\ cpc'[c] = "wait_once"
      BY <1>0, <1>2, <2>2 DEF cancel_wait_once, thread_call_wait_once, User, TypeOK
    <3>2. \A r \in Runners : rpc[r] # "wake"
      BY <1>2, <1>4, <3>1 DEF Covers
    <3> QED
      BY <2>0, <3>1, <3>2 DEF Covers
  <2>3. CASE cancel_wait_once(d) /\ "RUNNING" \notin flags
    <3>1. /\ d = c /\ cpc[c] = "idle" /\ cpc'[c] = "done" /\ UNCHANGED waiting
          /\ flags' = flags \ {"RESCHEDULE"} /\ before'[c] = InFlight
      BY <1>0, <1>2, <2>3 DEF cancel_wait_once, User, TypeOK
    <3>2. InFlight = {}
      BY <1>3, <2>3 DEF InFlight
    <3> QED
      BY <1>2, <2>0, <3>1, <3>2 DEF Covers
  <2>4. CASE wait_awakened(d)
    <3>1. /\ d = c /\ cpc[c] = "wait_once" /\ c \notin waiting /\ cpc'[c] = "done"
          /\ UNCHANGED <<flags, waiting, before>>
      BY <1>0, <1>4, <2>4 DEF wait_awakened, callVars, TypeOK
    <3> QED
      BY <1>2, <2>0, <3>1 DEF Covers
  <2>5. CASE client_return(d)
    <3>1. /\ UNCHANGED <<flags, waiting>>
          /\ \/ cpc'[c] = cpc[c] /\ before'[c] = before[c]
             \/ cpc'[c] = "idle" /\ before'[c] = {}
      BY <1>0, <2>5 DEF client_return, callVars, TypeOK
    <3> QED
      BY <1>2, <2>0, <3>1 DEF Covers
  <2>6. ~cancel_wait_plain(d) /\ ~wait_check(d)
    BY <1>2, <1>4 DEF cancel_wait_plain, wait_check
  <2> QED
    BY <1>5, <2>1, <2>2, <2>3, <2>4, <2>5, <2>6 DEF ClientStep
<1>6. ASSUME NEW r \in Runners, NEW expired \in BOOLEAN, thread_call_finish(r, expired)
      PROVE  Covers(c)'
  <2>1. /\ rpc[r] = "invoke" /\ UNCHANGED <<cpc, waiting>> /\ "WAIT" \notin flags'
        /\ before' = [d \in Clients |-> before[d] \ {r}]
        /\ rpc' = [rpc EXCEPT ![r] = IF "WAIT" \in flags THEN "wake" ELSE "idle"]
    BY <1>2, <1>6 DEF thread_call_finish, Repends
  <2>2. InFlight \subseteq {r}
    BY <1>3, <2>1 DEF InFlight
  <2>3. before'[c] = {}
    BY <1>4, <2>1, <2>2
  <2>4. \A s \in Runners : rpc'[s] = "wake" => rpc[s] = "wake" \/ (s = r /\ "WAIT" \in flags)
    BY <1>0, <2>1 DEF TypeOK
  <2> QED
    BY <1>2, <2>1, <2>3, <2>4 DEF Covers
<1>7. ASSUME NEW r \in Runners, finish_wakeup(r) \/ signal_repend(r) PROVE Covers(c)'
  <2>1. /\ rpc[r] = "wake" /\ rpc' = [rpc EXCEPT ![r] = "idle"]
        /\ UNCHANGED <<flags, cpc, before>>
    BY <1>3, <1>7 DEF finish_wakeup, signal_repend, callVars
  <2>2. before[c] = {} /\ "WAIT" \notin flags /\ \A s \in Runners : rpc'[s] # "wake"
    BY <1>0, <1>2, <2>1 DEF Covers, TypeOK
  <2> QED
    BY <2>1, <2>2 DEF Covers
<1>8. ASSUME NEW q, Enqueue(q) PROVE Covers(c)'
  <2>1. UNCHANGED <<rpc, cpc, waiting, before>> /\ ("WAIT" \in flags' => "WAIT" \in flags)
    BY <1>8 DEF Enqueue, call_enqueue, clientVars
  <2> QED
    BY <1>2, <2>1 DEF Covers
<1>9. ASSUME NEW r \in Runners, thread_call_thread(r) \/ delayed_timer_signal(r) PROVE Covers(c)'
  <2>1. /\ rpc' = [rpc EXCEPT ![r] = "invoke"] /\ UNCHANGED <<cpc, waiting, before>>
        /\ flags' = flags \cup {"RUNNING"}
    BY <1>9 DEF thread_call_thread, delayed_timer_signal, clientVars
  <2>2. \A s \in Runners : rpc'[s] = "wake" => rpc[s] = "wake"
    BY <1>0, <2>1 DEF TypeOK
  <2> QED
    BY <1>2, <2>1, <2>2 DEF Covers
<1>10. ASSUME rescan_resort \/ UNCHANGED vars PROVE Covers(c)'
  BY <1>2, <1>10 DEF rescan_resort, vars, clientVars, Covers
<1>11. Threads \subseteq Runners /\ Timers \subseteq Runners
  BY DEF Runners
<1> QED
  BY <1>0, <1>5, <1>6, <1>7, <1>8, <1>9, <1>10, <1>11, StepCases, Zenon

\* The only client that ever waits for a ONCE call that is not a SIGNAL call, in
\* thread_call_cancel_wait or thread_call_wait_once, returns after the
\* invocation it found in flight, when SIGNAL calls are not rescanned.  SIGNAL
\* calls are left out: one that is re-pended is not marked as running while
\* thread_call_finish wakes the waiters up, and a wait can return early.
THEOREM ThreadCallWaitCovers ==
    ASSUME \A u \in Uses : Disciplined(u)
    PROVE  Spec => []WaitCovers
<1>1. Init => CoverInv
  BY DEF Init, CoverInv, Covers
<1>2. LiveInv /\ CoverInv => WaitCovers
  <2> SUFFICES ASSUME LiveInv, CoverInv, NEW c \in Clients, Once, ~UnmarkedRepends,
                      use.waiters = {c}, cpc[c] = "done"
               PROVE  before[c] = {}
    BY DEF WaitCovers
  <2>1. ~Signal
    BY DEF UnmarkedRepends
  <2> QED
    BY <2>1 DEF CoverInv, Covers
<1> QED
  BY <1>1, <1>2, LiveInvariant, CoverInvStep, PTL DEF Spec
=============================================================================
