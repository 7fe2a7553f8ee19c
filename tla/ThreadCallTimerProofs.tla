----------------------- MODULE ThreadCallTimerProofs -----------------------
(***************************************************************************)
(* Proofs for ThreadCallTimer, for any calls, CPUs, times and bounds.      *)
(*                                                                         *)
(* TimerCovers looks at the heads of a queue.  A head that leaves makes    *)
(* another call the head, so what is kept is that the timer covers every   *)
(* call on the queue; that a queue with calls has a head is where the      *)
(* order of the natural numbers comes in.  The hypothesis on the uses is   *)
(* needed: run timer_flip shows a SIGNAL call that is put back on the      *)
(* queue of another flavor than the one whose handler runs it, and a       *)
(* SIGNAL call that a rescan gave to a thread is put back without arming.  *)
(***************************************************************************)
EXTENDS ThreadCallTimer, WellFoundedInduction, TLAPS

\* A use that gives a SIGNAL call no other flavor while it runs, and that does
\* not rescan the queues of SIGNAL calls.
Disciplined(u) == ~u.flips /\ (u.rescans => \A c \in Calls : u.kind[c] # "signal")

\* A delayed call has a deadline, a running one is not queued.
CallInv ==
    \A c \in Calls :
       /\ tc_queue[c] = "delayed" => request[c] # NULL
       /\ running[c] => tc_queue[c] = "none"
       /\ request[c] # NULL => request[c].soft <= request[c].hard

\* A call that a handler runs is put back on the queue that the handler will
\* arm the timer of.
FlavorInv ==
    \A p \in Cpus :
       handler[p].at = "call" /\ request[handler[p].call] # NULL =>
          request[handler[p].call].flavor = handler[p].flavor

\* Only handlers run SIGNAL calls.
SignalInv ==
    \A c \in Calls : Signal(c) =>
       /\ tc_queue[c] # "pending"
       /\ running[c] => \E p \in Cpus : handler[p].at = "call" /\ handler[p].call = c

\* The timer covers every call on the queue, or something is about to arm it.
Covered(f) ==
    \/ AboutToArm(f)
    \/ adjusting /\ f = "CONTINUOUS"
    \/ \A c \in Queued(f) : Covers(timer[f], request[c])

CoverInv == \A f \in Flavors : Covered(f)

TimerInv == TypeOK /\ CallInv /\ FlavorInv /\ SignalInv /\ CoverInv
-----------------------------------------------------------------------------
(* Deadlines and windows.                                                  *)

\* A set of numbers that is not empty has a least one.
LEMMA Least ==
    ASSUME NEW S, S \subseteq Nat, S # {}
    PROVE  \E m \in S : \A n \in S : m <= n
<1> DEFINE R == OpToRel(<, Nat)
<1>1. \A x, y \in Nat : <<x, y>> \in R <=> x < y
  BY DEF OpToRel
<1>2. IsWellFoundedOn(R, Nat)
  BY NatLessThanWellFounded
<1> HIDE DEF R
<1>3. PICK m \in S : \A n \in S : ~ (<<n, m>> \in R)
  BY <1>2, WFMin
<1>4. \A n \in S : ~(n < m)
  BY <1>1, <1>3, Zenon
<1>5. \A n \in S : m <= n
  BY <1>4
<1> QED
  BY <1>5

\* priority_queue_min finds a call on a queue that has one.
LEMMA Earliest ==
    ASSUME NEW Q, Q # {}, NEW r, \A c \in Q : r[c] \in Requests
    PROVE  \E c \in Q : \A d \in Q : r[c].hard <= r[d].hard
<1> DEFINE S == { r[c].hard : c \in Q }
<1>1. \A c \in Q : r[c].hard \in Nat
  BY TimerAssumption DEF Requests, Deadlines
<1>2. S \subseteq Nat /\ S # {}
  BY <1>1
<1>3. PICK m \in S : \A n \in S : m <= n
  BY <1>2, Least
<1> QED
  BY <1>3

\* The deadline of a submission is not before the time it is for.
LEMMA HardIsLater ==
    ASSUME NEW d \in Deadlines, NEW slop \in 0 .. MaxSlop
    PROVE  HardDeadline(d, slop) \in Deadlines /\ d <= HardDeadline(d, slop)
  BY TimerAssumption DEF HardDeadline, Deadlines

\* A window that ends in time for a call ends in time for a later one.
LEMMA CoversLater ==
    ASSUME asleep \in 0 .. MaxSleep, NEW w \in Windows \union {NULL}, NEW r \in Requests, NEW s \in Requests,
           r.flavor = s.flavor, r.hard <= s.hard, Covers(w, r)
    PROVE  Covers(w, s)
<1>1. ToAbsolute(r.flavor, r.hard) <= ToAbsolute(s.flavor, s.hard)
  BY TimerAssumption DEF ToAbsolute, Requests, Deadlines
<1>2. ToAbsolute(r.flavor, r.hard) \in Int /\ ToAbsolute(s.flavor, s.hard) \in Int
  BY TimerAssumption DEF ToAbsolute, Requests, Deadlines
<1>3. w \in Windows /\ w.hard \in Int /\ w # NULL
  BY TimerAssumption DEF Covers, Windows
<1> QED
  BY <1>1, <1>2, <1>3 DEF Covers

\* The window that is armed for a call is one, and ends in time for it.
LEMMA WindowCovers ==
    ASSUME asleep \in 0 .. MaxSleep, NEW r \in Requests, r.soft <= r.hard
    PROVE  WindowOf(r) \in Windows /\ Covers(WindowOf(r), r)
<1> DEFINE at == ToAbsolute(r.flavor, r.soft)
           w == [soft |-> at, hard |-> at + (r.hard - r.soft), rate |-> r.rate]
<1>1. WindowOf(r) = w
  BY DEF WindowOf
<1>2. r.soft \in 1 .. LastTime /\ r.hard \in 1 .. LastTime /\ r.rate \in BOOLEAN /\ r.flavor \in Flavors
  BY DEF Requests, Deadlines
<1>3. /\ at \in 0 .. LastTime /\ at + (r.hard - r.soft) \in 0 .. LastTime
      /\ at + (r.hard - r.soft) <= ToAbsolute(r.flavor, r.hard) \/ at = 0
  BY <1>2, TimerAssumption DEF ToAbsolute, Flavors
<1> HIDE DEF at
<1>4. w \in Windows
  BY <1>2, <1>3 DEF Windows
<1>5. w # NULL
  BY <1>4, NullAssumption
<1>6. Covers(w, r)
  BY <1>3, <1>5 DEF Covers
<1> QED
  BY <1>1, <1>4, <1>6

\* _arm_delayed_call_timer leaves one timer covering all calls on its queue, if
\* it covered those that are not new.
LEMMA Arms ==
    ASSUME TypeOK, CallInv', request' \in [Calls -> Requests \union {NULL}], asleep' = asleep,
           NEW f \in Flavors, NEW new, arm_delayed_call_timer(new, f)
    PROVE  /\ timer' \in [Flavors -> Windows \union {NULL}]
           /\ \A g \in Flavors : g # f => timer'[g] = timer[g]
           /\ new = NULL \/ (\A c \in Queued(f)' : c # new => Covers(timer[f], request'[c])) =>
                \A c \in Queued(f)' : Covers(timer'[f], request'[c])
<1> DEFINE Q == Queued(f)'
<1>1. \A c \in Q : /\ c \in Calls /\ request'[c] \in Requests /\ request'[c].flavor = f
                   /\ request'[c].soft <= request'[c].hard
  BY DEF Queued, CallInv
<1>2. Heads(f)' = { c \in Q : \A d \in Q : request'[c].hard <= request'[d].hard }
  BY DEF Heads
<1>3. asleep \in 0 .. MaxSleep /\ timer \in [Flavors -> Windows \union {NULL}]
  BY DEF TypeOK
<1> HIDE DEF Q
<1>4. CASE Heads(f)' = {} /\ UNCHANGED timer
  <2>1. Q = {}
    BY <1>1, <1>2, <1>4, Earliest
  <2> QED
    BY <1>3, <1>4, <2>1 DEF Q
<1>5. ASSUME NEW head \in Heads(f)',
             timer' = [timer EXCEPT ![f] =
                          IF ArmsFor(new, head) THEN WindowOf(request[head])' ELSE @]
      PROVE  /\ timer' \in [Flavors -> Windows \union {NULL}]
             /\ \A g \in Flavors : g # f => timer'[g] = timer[g]
             /\ new = NULL \/ (\A c \in Q : c # new => Covers(timer[f], request'[c])) =>
                   \A c \in Q : Covers(timer'[f], request'[c])
  <2> DEFINE r == request'[head]
  <2>1. head \in Q /\ r \in Requests /\ r.flavor = f /\ r.soft <= r.hard
    BY <1>1, <1>2, <1>5
  <2>2. \A d \in Q : r.hard <= request'[d].hard
    BY <1>2, <1>5
  <2>3. WindowOf(request[head])' = WindowOf(r)
    BY DEF WindowOf, ToAbsolute
  <2>4. WindowOf(r) \in Windows /\ Covers(WindowOf(r), r)
    BY <1>3, <2>1, WindowCovers
  <2>5. timer'[f] = IF ArmsFor(new, head) THEN WindowOf(r) ELSE timer[f]
    BY <1>3, <1>5, <2>3
  <2>6. timer' \in [Flavors -> Windows \union {NULL}] /\ \A g \in Flavors : g # f => timer'[g] = timer[g]
    BY <1>3, <1>5, <2>3, <2>4
  <2>7. ASSUME new = NULL \/ (\A c \in Q : c # new => Covers(timer[f], request'[c]))
        PROVE  Covers(timer'[f], r)
    <3>1. CASE ArmsFor(new, head)
      BY <2>4, <2>5, <3>1
    <3>2. CASE ~ArmsFor(new, head)
      BY <2>1, <2>5, <2>7, <3>2 DEF ArmsFor
    <3> QED
      BY <3>1, <3>2
  <2>8. ASSUME Covers(timer'[f], r), NEW c \in Q PROVE Covers(timer'[f], request'[c])
    BY <1>1, <1>3, <2>1, <2>2, <2>6, <2>8, CoversLater
  <2> QED
    BY <2>6, <2>7, <2>8
<1> QED
  BY <1>4, <1>5 DEF arm_delayed_call_timer, Q
-----------------------------------------------------------------------------
(* The calls.                                                              *)

\* The types of the calls.
CallTypes ==
    /\ tc_queue \in [Calls -> {"none", "pending", "delayed"}]
    /\ request \in [Calls -> Requests \union {NULL}]
    /\ running \in [Calls -> BOOLEAN]
    /\ reschedule \in [Calls -> BOOLEAN]

\* The flavors that the clients of a use ask for are flavors.
LEMMA UseFlavors ==
    ASSUME TypeOK
    PROVE  use.flavors \subseteq Flavors
  BY TimerAssumption DEF TypeOK, Use

\* What a handler is at says what it knows.
LEMMA HandlerShape ==
    ASSUME NEW h \in Handlers
    PROVE  /\ h # Idle <=> h.at # "idle"
           /\ h # Idle => h.flavor \in Flavors
           /\ h.at \in {"idle", "entered", "loop", "call"}
           /\ h.at \in {"loop", "call"} => h.now \in 0 .. LastTime + MaxSleep
           /\ h.at = "call" => h.call \in Calls
  BY DEF Handlers, Idle

\* Every step that changes a call.
LEMMA CallStep ==
    ASSUME TypeOK, CallInv, [Next]_vars
    PROVE  CallTypes' /\ CallInv'
<1> USE TimerAssumption DEF CallTypes, CallInv
<1>0. CallTypes
  BY DEF TypeOK
<1>1. ASSUME NEW c \in Calls, NEW f \in Flavors, NEW d \in Deadlines, NEW slop \in 0 .. MaxSlop,
             NEW rate \in BOOLEAN, thread_call_enter_delayed(c, f, d, slop, rate)
      PROVE  CallTypes' /\ CallInv'
  <2>1. [flavor |-> f, soft |-> d, hard |-> HardDeadline(d, slop), rate |-> rate] \in Requests
    BY HardIsLater DEF Requests
  <2> QED
    BY <1>0, <1>1, <2>1, HardIsLater, NullAssumption DEF thread_call_enter_delayed,
       Enqueue, Put
<1>2. ASSUME NEW c \in Calls, thread_call_enter(c) PROVE  CallTypes' /\ CallInv'
  BY <1>0, <1>2 DEF thread_call_enter, Enqueue, Put
<1>3. ASSUME NEW c \in Calls, thread_call_cancel(c) PROVE  CallTypes' /\ CallInv'
  BY <1>0, <1>3 DEF thread_call_cancel, Put
<1>4. ASSUME NEW c \in Calls, thread_call_thread(c) PROVE  CallTypes' /\ CallInv'
  BY <1>0, <1>4 DEF thread_call_thread, Put
<1>5. ASSUME NEW c \in Calls, thread_call_finish(c) PROVE  CallTypes' /\ CallInv'
  <2>1. request' \in [Calls -> Requests \union {NULL}]
    BY <1>0, <1>5 DEF thread_call_finish, Finish, Put
  <2>2. tc_queue' \in [Calls -> {"none", "pending", "delayed"}]
    BY <1>0, <1>5 DEF thread_call_finish, Finish, Put
  <2>3. running' \in [Calls -> BOOLEAN] /\ reschedule' \in [Calls -> BOOLEAN]
    BY <1>0, <1>5 DEF thread_call_finish, Finish, Put
  <2>4. CallInv'
    BY <1>0, <1>5 DEF thread_call_finish, Finish, Put, Requeues
  <2> QED
    BY <2>1, <2>2, <2>3, <2>4
<1>6. ASSUME NEW p \in Cpus, NEW f \in Flavors, TimerFires(p, f)
      PROVE  CallTypes' /\ CallInv'
  BY <1>0, <1>6 DEF TimerFires, calls
<1>7. ASSUME NEW p \in Cpus, HandlerLocks(p) PROVE  CallTypes' /\ CallInv'
  BY <1>0, <1>7 DEF HandlerLocks, calls
<1>8. ASSUME NEW p \in Cpus, handler[p].at = "loop", NEW forced \in BOOLEAN,
             NEW c \in DueHeads(p, forced), HandlerPends(p, c)
      PROVE  CallTypes' /\ CallInv'
  <2>1. c \in Calls /\ tc_queue[c] = "delayed"
    BY <1>0, <1>8 DEF DueHeads, Heads, Queued
  <2> QED
    BY <1>0, <1>8, <2>1 DEF HandlerPends, Enqueue, Put
<1>9. ASSUME NEW p \in Cpus, handler[p].at = "loop", NEW forced \in BOOLEAN,
             NEW c \in DueHeads(p, forced), HandlerSignals(p, c)
      PROVE  CallTypes' /\ CallInv'
  <2>1. c \in Calls /\ tc_queue[c] = "delayed"
    BY <1>0, <1>9 DEF DueHeads, Heads, Queued
  <2> QED
    BY <1>0, <1>9, <2>1 DEF HandlerSignals, Put
<1>10. ASSUME NEW p \in Cpus, handler[p].at = "loop", NEW forced \in BOOLEAN, HandlerDone(p, forced)
      PROVE  CallTypes' /\ CallInv'
  BY <1>0, <1>10 DEF HandlerDone, calls
<1>11. ASSUME NEW p \in Cpus, HandlerReturns(p) PROVE  CallTypes' /\ CallInv'
  <2> DEFINE c == handler[p].call
  <2>1. c \in Calls
    BY <1>11, HandlerShape DEF HandlerReturns, TypeOK
  <2>2. running' = [running EXCEPT ![c] = Repends(c)] /\ Repends(c) \in BOOLEAN
    BY <1>11 DEF HandlerReturns, Put, Repends
  <2>3. Finish(c, "none")
    BY <1>11 DEF HandlerReturns
  <2>4. running' \in [Calls -> BOOLEAN] /\ reschedule' \in [Calls -> BOOLEAN]
    BY <1>0, <2>1, <2>2, <2>3 DEF Finish, Put
  <2>5. request' \in [Calls -> Requests \union {NULL}]
    BY <1>0, <2>1, <2>3 DEF Finish, Put
  <2>6. tc_queue' \in [Calls -> {"none", "pending", "delayed"}]
    BY <1>0, <2>1, <2>3 DEF Finish, Put
  <2>7. CallInv'
    BY <1>0, <2>1, <2>2, <2>3 DEF Finish, Put, Requeues, Repends
  <2> QED
    BY <2>4, <2>5, <2>6, <2>7
<1>12. ASSUME NEW f \in Flavors, NEW resort \in SUBSET Calls,
             thread_call_delayed_timer_rescan(f, resort)
      PROVE  CallTypes' /\ CallInv'
  <2> DEFINE due == { c \in Queued(f) : request[c].soft <= Time(f) }
  <2>1. tc_queue' = [c \in Calls |-> IF c \in due THEN "pending" ELSE tc_queue[c]]
    BY <1>12 DEF thread_call_delayed_timer_rescan
  <2>2. request' = [c \in Calls |->
                 IF c \in due THEN NULL
                 ELSE IF c \in Queued(f) \intersect resort
                      THEN [request[c] EXCEPT !.hard = request[c].soft]
                      ELSE request[c]]
    BY <1>12 DEF thread_call_delayed_timer_rescan
  <2>3. UNCHANGED <<running, reschedule>>
    BY <1>12 DEF thread_call_delayed_timer_rescan
  <2>4. \A c \in Queued(f) : c \in Calls /\ tc_queue[c] = "delayed" /\ request[c] \in Requests
    BY <1>0 DEF Queued
  <2>5. \A c \in Queued(f) : LET r == [request[c] EXCEPT !.hard = request[c].soft]
                            IN  r \in Requests /\ r.soft = r.hard
    BY <2>4 DEF Requests
  <2>6. due \subseteq Queued(f)
    OBVIOUS
  <2> HIDE DEF due
  <2>7. request' \in [Calls -> Requests \union {NULL}]
    BY <1>0, <2>2, <2>5
  <2>8. tc_queue' \in [Calls -> {"none", "pending", "delayed"}]
    BY <1>0, <2>1
  <2>9. ASSUME NEW c \in Calls, c \in Queued(f)
        PROVE  /\ tc_queue'[c] = "delayed" => request'[c] # NULL
               /\ ~running'[c]
               /\ request'[c] # NULL => request'[c].soft <= request'[c].hard
    <3>1. ~running'[c]
      BY <2>3, <2>4, <2>9
    <3>2. request'[c] \in {NULL, request[c], [request[c] EXCEPT !.hard = request[c].soft]}
      BY <2>2
    <3>3. request'[c] # NULL => request'[c].soft <= request'[c].hard
      <4>1. CASE request'[c] = [request[c] EXCEPT !.hard = request[c].soft]
        <5>1. request'[c] \in Requests /\ request'[c].soft = request'[c].hard
          BY <2>5, <2>9, <4>1
        <5> QED
          BY <5>1 DEF Requests, Deadlines
      <4> QED
        BY <3>2, <4>1
    <3>4. tc_queue'[c] = "delayed" => request'[c] # NULL
      BY <2>1, <2>2, <2>4, <2>5, <2>9, NullAssumption
    <3> QED
      BY <3>1, <3>3, <3>4
  <2>10. ASSUME NEW c \in Calls, c \notin Queued(f)
         PROVE  /\ tc_queue'[c] = "delayed" => request'[c] # NULL
                /\ running'[c] => tc_queue'[c] = "none"
                /\ request'[c] # NULL => request'[c].soft <= request'[c].hard
    BY <2>1, <2>2, <2>3, <2>6, <2>10
  <2>11. CallInv'
    BY <2>9, <2>10 DEF CallInv
  <2> QED
    BY <1>0, <2>3, <2>7, <2>8, <2>11
<1>13. CASE adjust_cont_time_thread_calls
  BY <1>0, <1>13 DEF adjust_cont_time_thread_calls, calls
<1>14. CASE Tick
  BY <1>0, <1>14 DEF Tick, calls
<1>15. CASE Sleep
  BY <1>0, <1>15 DEF Sleep, calls
<1>16. CASE UNCHANGED vars
  BY <1>0, <1>16 DEF vars, calls
<1> QED
  BY <1>1, <1>2, <1>3, <1>4, <1>5, <1>6, <1>7, <1>8, <1>9, <1>10, <1>11, <1>12, <1>13,
     <1>14, <1>15,
     <1>16, UseFlavors
  DEF Next, Clients, Rescans, HandlerSteps, HandlerLoops

\* Every step keeps the types.
LEMMA TimerTypeStep ==
    ASSUME TypeOK, CallInv, [Next]_vars
    PROVE  TypeOK'
<1> USE TimerAssumption
<1>0. CallTypes' /\ CallInv'
  BY CallStep
<1>1. ASSUME NEW c \in Calls, NEW f \in Flavors, NEW d \in Deadlines, NEW slop \in 0 .. MaxSlop,
             NEW rate \in BOOLEAN, thread_call_enter_delayed(c, f, d, slop, rate)
      PROVE  TypeOK'
  <2>1. timer' \in [Flavors -> Windows \union {NULL}]
    BY <1>1, <1>0, Arms DEF thread_call_enter_delayed, clocks, CallTypes
  <2> QED
    BY <1>1, <1>0, <2>1 DEF thread_call_enter_delayed, clocks, CallTypes, TypeOK
<1>2. ASSUME NEW c \in Calls, thread_call_enter(c) PROVE  TypeOK'
  BY <1>2, <1>0, HandlerShape DEF thread_call_enter, clocks, TypeOK, CallTypes
<1>3. ASSUME NEW c \in Calls, thread_call_cancel(c) PROVE  TypeOK'
  <2>1. timer' \in [Flavors -> Windows \union {NULL}]
    <3>1. CASE tc_queue[c] # "delayed"
      BY <1>3, <3>1 DEF thread_call_cancel, TypeOK
    <3>2. CASE tc_queue[c] = "delayed"
      <4>1. PICK f \in Flavors : CancelDelayed(c, f)
        BY <1>3, <3>2 DEF thread_call_cancel
      <4>2. CASE timer' = Put(timer, f, NULL) \/ UNCHANGED timer
        BY <4>2 DEF TypeOK, Put
      <4>3. CASE arm_delayed_call_timer(NULL, f)
        BY <1>3, <1>0, <4>3, Arms DEF thread_call_cancel, clocks, CallTypes
      <4> QED
        BY <4>1, <4>2, <4>3 DEF CancelDelayed, RearmForNext
    <3> QED
      BY <3>1, <3>2
  <2> QED
    BY <1>3, <1>0, <2>1 DEF thread_call_cancel, clocks, CallTypes, TypeOK
<1>4. ASSUME NEW c \in Calls, thread_call_thread(c) PROVE  TypeOK'
  BY <1>4, <1>0, HandlerShape DEF thread_call_thread, clocks, TypeOK, CallTypes
<1>5. ASSUME NEW c \in Calls, thread_call_finish(c) PROVE  TypeOK'
  <2>1. timer' \in [Flavors -> Windows \union {NULL}]
    <3>1. CASE Requeues(c) /\ ~Signal(c)
      <4>1. request[c].flavor \in Flavors
        BY <3>1 DEF Requeues, TypeOK, Requests
      <4> QED
        BY <1>5, <1>0, <3>1, <4>1, Arms DEF thread_call_finish, FinishArms, clocks,
           CallTypes
    <3>2. CASE ~(Requeues(c) /\ ~Signal(c))
      BY <1>5, <3>2 DEF thread_call_finish, TypeOK
    <3> QED
      BY <3>1, <3>2
  <2> QED
    BY <1>5, <1>0, <2>1 DEF thread_call_finish, clocks, CallTypes, TypeOK
<1>6. ASSUME NEW p \in Cpus, NEW f \in Flavors, TimerFires(p, f) PROVE  TypeOK'
  <2>1. handler' \in [Cpus -> Handlers]
    BY <1>6 DEF TimerFires, Put, Handlers, TypeOK
  <2> QED
    BY <1>6, <1>0, <2>1 DEF TimerFires, Put, clocks, CallTypes, TypeOK
<1>7. ASSUME NEW p \in Cpus, HandlerLocks(p) PROVE  TypeOK'
  <2>1. handler[p].flavor \in Flavors /\ Time(handler[p].flavor) \in 0 .. LastTime + MaxSleep
    BY <1>7, HandlerShape DEF HandlerLocks, Time, TypeOK
  <2>2. handler' \in [Cpus -> Handlers]
    BY <1>7, <2>1 DEF HandlerLocks, Handlers, TypeOK
  <2> QED
    BY <1>7, <1>0, <2>2 DEF HandlerLocks, clocks, CallTypes, TypeOK
<1>8. ASSUME NEW p \in Cpus, handler[p].at = "loop", NEW forced \in BOOLEAN,
             NEW c \in DueHeads(p, forced), HandlerPends(p, c)
      PROVE  TypeOK'
  BY <1>8, <1>0, HandlerShape DEF HandlerPends, clocks, TypeOK, CallTypes
<1>9. ASSUME NEW p \in Cpus, handler[p].at = "loop", NEW forced \in BOOLEAN,
             NEW c \in DueHeads(p, forced), HandlerSignals(p, c)
      PROVE  TypeOK'
  <2>1. handler[p].flavor \in Flavors /\ handler[p].now \in 0 .. LastTime + MaxSleep /\ c \in Calls
    BY <1>9, HandlerShape DEF DueHeads, Heads, Queued, TypeOK
  <2>2. handler' \in [Cpus -> Handlers]
    BY <1>9, <2>1 DEF HandlerSignals, Handlers, TypeOK
  <2> QED
    BY <1>9, <1>0, <2>2 DEF HandlerSignals, clocks, CallTypes, TypeOK
<1>10. ASSUME NEW p \in Cpus, handler[p].at = "loop", NEW forced \in BOOLEAN, HandlerDone(p, forced)
      PROVE  TypeOK'
  <2>1. handler[p].flavor \in Flavors /\ arm_delayed_call_timer(NULL, handler[p].flavor)
    BY <1>10, HandlerShape DEF HandlerDone, TypeOK
  <2>2. timer' \in [Flavors -> Windows \union {NULL}]
    BY <1>10, <1>0, <2>1, Arms DEF HandlerDone, clocks, CallTypes
  <2>3. handler' \in [Cpus -> Handlers]
    BY <1>10 DEF HandlerDone, Put, Handlers, TypeOK
  <2> QED
    BY <1>10, <1>0, <2>2, <2>3 DEF HandlerDone, clocks, CallTypes, TypeOK
<1>11. ASSUME NEW p \in Cpus, HandlerReturns(p) PROVE  TypeOK'
  <2>1. handler[p].flavor \in Flavors /\ handler[p].now \in 0 .. LastTime + MaxSleep
    BY <1>11, HandlerShape DEF HandlerReturns, TypeOK
  <2>2. handler' \in [Cpus -> Handlers]
    BY <1>11, <2>1 DEF HandlerReturns, Handlers, TypeOK
  <2> QED
    BY <1>11, <1>0, <2>2 DEF HandlerReturns, clocks, CallTypes, TypeOK
<1>12. ASSUME NEW f \in Flavors, NEW resort \in SUBSET Calls,
             thread_call_delayed_timer_rescan(f, resort)
      PROVE  TypeOK'
  <2>1. timer' \in [Flavors -> Windows \union {NULL}]
    BY <1>12, <1>0, Arms DEF thread_call_delayed_timer_rescan, clocks, CallTypes
  <2> QED
    BY <1>12, <1>0, <2>1 DEF thread_call_delayed_timer_rescan, clocks, CallTypes, TypeOK
<1>13. CASE adjust_cont_time_thread_calls
  <2>1. timer' \in [Flavors -> Windows \union {NULL}]
    BY <1>13, <1>0, Arms DEF adjust_cont_time_thread_calls, Flavors, CallTypes
  <2> QED
    BY <1>13, <1>0, <2>1 DEF adjust_cont_time_thread_calls, CallTypes, TypeOK
<1>14. CASE Tick
  BY <1>14, <1>0, HandlerShape DEF Tick, TypeOK, CallTypes
<1>15. CASE Sleep
  BY <1>15, <1>0, HandlerShape DEF Sleep, TypeOK, CallTypes
<1>16. CASE UNCHANGED vars
  BY <1>16, <1>0, HandlerShape DEF vars, clocks, TypeOK, CallTypes
<1> QED
  BY <1>1, <1>2, <1>3, <1>4, <1>5, <1>6, <1>7, <1>8, <1>9, <1>10, <1>11, <1>12, <1>13,
     <1>14, <1>15,
     <1>16, UseFlavors
  DEF Next, Clients, Rescans, HandlerSteps, HandlerLoops

\* Nobody gives a call that a handler runs another flavor.
LEMMA FlavorStep ==
    ASSUME TypeOK, CallInv, FlavorInv, ~use.flips, [Next]_vars
    PROVE  FlavorInv'
<1> USE DEF FlavorInv
<1>0. /\ handler \in [Cpus -> Handlers] /\ request \in [Calls -> Requests \union {NULL}]
      /\ \A p \in Cpus : handler[p].at = "call" => handler[p].call \in Calls
  BY HandlerShape DEF TypeOK
<1>1. ASSUME NEW c \in Calls, NEW f \in Flavors, NEW d \in Deadlines, NEW slop \in 0 .. MaxSlop,
             NEW rate \in BOOLEAN, thread_call_enter_delayed(c, f, d, slop, rate)
      PROVE  FlavorInv'
  <2> SUFFICES ASSUME NEW p \in Cpus, handler'[p].at = "call", request'[handler'[p].call] # NULL
               PROVE  request'[handler'[p].call].flavor = handler'[p].flavor
    BY DEF FlavorInv
  <2>1. handler' = handler /\ handler[p].call \in Calls
    BY <1>1, HandlerShape DEF thread_call_enter_delayed, TypeOK
  <2>2. CASE handler[p].call # c
    BY <1>1, <2>1, <2>2 DEF thread_call_enter_delayed, Enqueue, Put, TypeOK, FlavorInv
  <2>3. CASE handler[p].call = c
    <3>1. handler[p].flavor \in FlavorOfRun(c)
      BY <2>1, <2>3 DEF FlavorOfRun
    <3>2. handler[p].flavor = f
      BY <1>1, <3>1 DEF thread_call_enter_delayed
    <3>3. request'[c].flavor = f
      BY <1>1 DEF thread_call_enter_delayed, Enqueue, Put, TypeOK
    <3> QED
      BY <2>1, <2>3, <3>2, <3>3
  <2> QED
    BY <2>2, <2>3
<1>2. ASSUME NEW c \in Calls, thread_call_enter(c) PROVE  FlavorInv'
  BY <1>2, <1>0 DEF thread_call_enter, Enqueue, Put
<1>3. ASSUME NEW c \in Calls, thread_call_cancel(c) PROVE  FlavorInv'
  BY <1>3, <1>0 DEF thread_call_cancel, Put
<1>4. ASSUME NEW c \in Calls, thread_call_thread(c) PROVE  FlavorInv'
  BY <1>4, <1>0 DEF thread_call_thread, Put
<1>5. ASSUME NEW c \in Calls, thread_call_finish(c) PROVE  FlavorInv'
  <2>1. handler' = handler /\ request' = [request EXCEPT ![c] = IF Requeues(c) THEN request[c] ELSE NULL]
    BY <1>5 DEF thread_call_finish, Finish, Put
  <2> QED
    BY <1>0, <2>1
<1>6. ASSUME NEW p \in Cpus, NEW f \in Flavors, TimerFires(p, f) PROVE  FlavorInv'
  BY <1>6, <1>0 DEF TimerFires, Put, calls
<1>7. ASSUME NEW p \in Cpus, HandlerLocks(p) PROVE  FlavorInv'
  BY <1>7, <1>0 DEF HandlerLocks, calls
<1>8. ASSUME NEW p \in Cpus, handler[p].at = "loop", NEW forced \in BOOLEAN,
             NEW c \in DueHeads(p, forced), HandlerPends(p, c)
      PROVE  FlavorInv'
  BY <1>8, <1>0 DEF HandlerPends, Enqueue, Put
<1>9. ASSUME NEW p \in Cpus, handler[p].at = "loop", NEW forced \in BOOLEAN,
             NEW c \in DueHeads(p, forced), HandlerSignals(p, c)
      PROVE  FlavorInv'
  <2>1. c \in Calls
    BY <1>9 DEF DueHeads, Heads, Queued
  <2> QED
    BY <1>9, <1>0, <2>1 DEF HandlerSignals, Put
<1>10. ASSUME NEW p \in Cpus, handler[p].at = "loop", NEW forced \in BOOLEAN, HandlerDone(p, forced)
      PROVE  FlavorInv'
  BY <1>10, <1>0 DEF HandlerDone, Put, calls, Idle
<1>11. ASSUME NEW p \in Cpus, HandlerReturns(p) PROVE  FlavorInv'
  <2> DEFINE c == handler[p].call
  <2>1. request' = [request EXCEPT ![c] = IF Requeues(c) THEN request[c] ELSE NULL]
    BY <1>11 DEF HandlerReturns, Finish, Put
  <2>2. \A b \in Cpus : handler'[b] = handler[b] \/ handler'[b].at # "call"
    BY <1>11, <1>0 DEF HandlerReturns
  <2> QED
    BY <1>0, <2>1, <2>2
<1>12. ASSUME NEW f \in Flavors, NEW resort \in SUBSET Calls,
             thread_call_delayed_timer_rescan(f, resort)
      PROVE  FlavorInv'
  <2>1. handler' = handler
    BY <1>12 DEF thread_call_delayed_timer_rescan
  <2>2. ASSUME NEW c \in Calls, request'[c] # NULL
        PROVE  request[c] # NULL /\ request'[c].flavor = request[c].flavor
    <3>1. request'[c] = request[c] \/ (c \in Queued(f) /\ request'[c] = [request[c] EXCEPT !.hard = request[c].soft])
      BY <1>12, <2>2 DEF thread_call_delayed_timer_rescan
    <3>2. c \in Queued(f) => request[c] \in Requests /\ request[c] # NULL
      BY <1>0 DEF Queued, CallInv
    <3> QED
      BY <2>2, <3>1, <3>2 DEF Requests
  <2> QED
    BY <1>0, <2>1, <2>2
<1>13. CASE adjust_cont_time_thread_calls
  BY <1>13 DEF adjust_cont_time_thread_calls, calls
<1>14. CASE Tick
  BY <1>14 DEF Tick, calls
<1>15. CASE Sleep
  BY <1>15 DEF Sleep, calls
<1>16. CASE UNCHANGED vars
  BY <1>16 DEF vars, calls
<1> QED
  BY <1>1, <1>2, <1>3, <1>4, <1>5, <1>6, <1>7, <1>8, <1>9, <1>10, <1>11, <1>12, <1>13,
     <1>14, <1>15,
     <1>16, UseFlavors
  DEF Next, Clients, Rescans, HandlerSteps, HandlerLoops

\* A SIGNAL call is pended by a rescan only, and a thread runs what is pending.
LEMMA SignalStep ==
    ASSUME TypeOK, CallInv, SignalInv, Disciplined(use), [Next]_vars
    PROVE  SignalInv'
<1> DEFINE RunBy(c, h) == \E p \in Cpus : h[p].at = "call" /\ h[p].call = c
<1> SUFFICES ASSUME NEW e \in Calls, Signal(e)
             PROVE  tc_queue'[e] # "pending" /\ (running'[e] => RunBy(e, handler'))
  <2>1. use' = use
    BY DEF Next, Clients, Rescans, HandlerSteps, HandlerLoops, HandlerLocks, HandlerPends, HandlerSignals,
       HandlerDone, HandlerReturns, TimerFires, thread_call_enter_delayed, thread_call_enter,
       thread_call_cancel, thread_call_thread, thread_call_finish,
       thread_call_delayed_timer_rescan, adjust_cont_time_thread_calls, Tick, Sleep, vars, clocks
  <2> QED
    BY <2>1 DEF SignalInv, Signal
<1>0. /\ handler \in [Cpus -> Handlers]
      /\ tc_queue \in [Calls -> {"none", "pending", "delayed"}]
      /\ running \in [Calls -> BOOLEAN]
      /\ tc_queue[e] # "pending" /\ (running[e] => RunBy(e, handler))
  BY DEF TypeOK, SignalInv
<1>f. use.flavors \subseteq Flavors
  BY UseFlavors
<1>s. ~use.rescans
  BY DEF Disciplined, Signal
<1>h. ASSUME running'[e] => running[e], handler' = handler
      PROVE  running'[e] => RunBy(e, handler')
  BY <1>0, <1>h
<1>o. ASSUME NEW p \in Cpus, handler[p].at # "call", running' = running,
             \A b \in Cpus : b # p => handler'[b] = handler[b]
      PROVE  running'[e] => RunBy(e, handler')
  BY <1>0, <1>o
<1> HIDE DEF RunBy
<1> DEFINE Goal == tc_queue'[e] # "pending" /\ (running'[e] => RunBy(e, handler'))
<1>1. ASSUME NEW c \in Calls, NEW f \in Flavors, NEW d \in Deadlines, NEW slop \in 0 .. MaxSlop,
             NEW rate \in BOOLEAN, thread_call_enter_delayed(c, f, d, slop, rate)
      PROVE  Goal
  BY <1>0, <1>1, <1>h DEF thread_call_enter_delayed, Enqueue, Put
<1>2. ASSUME NEW c \in Calls, thread_call_enter(c) PROVE  Goal
  BY <1>0, <1>2, <1>h DEF thread_call_enter, Enqueue, Put
<1>3. ASSUME NEW c \in Calls, thread_call_cancel(c) PROVE  Goal
  BY <1>0, <1>3, <1>h DEF thread_call_cancel, Put
<1>4. ASSUME NEW c \in Calls, thread_call_thread(c) PROVE  Goal
  BY <1>0, <1>4, <1>h DEF thread_call_thread, Put
<1>5. ASSUME NEW c \in Calls, thread_call_finish(c) PROVE  Goal
  BY <1>0, <1>5, <1>h DEF thread_call_finish, Finish, Put
<1>6. ASSUME NEW p \in Cpus, NEW f \in Flavors, TimerFires(p, f) PROVE  Goal
  <2>1. handler[p].at # "call" /\ \A b \in Cpus : b # p => handler'[b] = handler[b]
    BY <1>0, <1>6 DEF TimerFires, Put, Idle
  <2> QED
    BY <1>0, <1>6, <1>o, <2>1 DEF TimerFires, calls
<1>7. ASSUME NEW p \in Cpus, HandlerLocks(p) PROVE  Goal
  <2>1. handler[p].at # "call" /\ \A b \in Cpus : b # p => handler'[b] = handler[b]
    BY <1>0, <1>7 DEF HandlerLocks
  <2> QED
    BY <1>0, <1>7, <1>o, <2>1 DEF HandlerLocks, calls
<1>8. ASSUME NEW p \in Cpus, handler[p].at = "loop", NEW forced \in BOOLEAN,
             NEW c \in DueHeads(p, forced), HandlerPends(p, c)
      PROVE  Goal
  BY <1>0, <1>8, <1>h DEF HandlerPends, Enqueue, Put
<1>9. ASSUME NEW p \in Cpus, handler[p].at = "loop", NEW forced \in BOOLEAN,
             NEW c \in DueHeads(p, forced), HandlerSignals(p, c)
      PROVE  Goal
  <2>1. tc_queue'[e] # "pending"
    BY <1>0, <1>9 DEF HandlerSignals, Put
  <2>2. /\ \A b \in Cpus : b # p => handler'[b] = handler[b]
        /\ handler'[p].at = "call" /\ handler'[p].call = c
    BY <1>0, <1>9 DEF HandlerSignals
  <2>3. CASE e = c
    BY <2>1, <2>2, <2>3 DEF RunBy
  <2>4. CASE e # c
    <3>1. running'[e] = running[e]
      BY <1>0, <1>9, <2>4 DEF HandlerSignals, Put
    <3>2. RunBy(e, handler) => RunBy(e, handler')
      BY <1>9, <2>2 DEF RunBy
    <3> QED
      BY <1>0, <2>1, <3>1, <3>2
  <2> QED
    BY <2>3, <2>4
<1>10. ASSUME NEW p \in Cpus, handler[p].at = "loop", NEW forced \in BOOLEAN, HandlerDone(p, forced)
      PROVE  Goal
  <2>1. handler[p].at # "call" /\ \A b \in Cpus : b # p => handler'[b] = handler[b]
    BY <1>0, <1>10 DEF HandlerDone, Put
  <2> QED
    BY <1>0, <1>10, <1>o, <2>1 DEF HandlerDone, calls
<1>11. ASSUME NEW p \in Cpus, HandlerReturns(p) PROVE  Goal
  <2> DEFINE c == handler[p].call
  <2>1. c \in Calls
    BY <1>0, <1>11, HandlerShape DEF HandlerReturns
  <2>2. running' = [running EXCEPT ![c] = Repends(c)] /\ Finish(c, "none")
    BY <1>11 DEF HandlerReturns, Put
  <2>3. tc_queue'[e] # "pending"
    BY <1>0, <2>1, <2>2 DEF Finish, Put
  <2>4. CASE e = c
    <3>1. running'[e] => handler' = handler
      BY <1>0, <1>11, <2>1, <2>2, <2>4 DEF HandlerReturns
    <3>2. RunBy(e, handler)
      BY <1>11, <2>4 DEF HandlerReturns, RunBy
    <3> QED
      BY <2>3, <3>1, <3>2
  <2>5. CASE e # c
    <3>1. running'[e] = running[e]
      BY <1>0, <2>1, <2>2, <2>5
    <3>2. \A b \in Cpus : b # p => handler'[b] = handler[b]
      BY <1>0, <1>11 DEF HandlerReturns
    <3>3. RunBy(e, handler) => RunBy(e, handler')
      BY <2>5, <3>2 DEF RunBy
    <3> QED
      BY <1>0, <2>3, <3>1, <3>3
  <2> QED
    BY <2>4, <2>5
<1>12. ASSUME NEW f \in Flavors, NEW resort \in SUBSET Calls,
             thread_call_delayed_timer_rescan(f, resort)
      PROVE  Goal
  BY <1>12, <1>s DEF thread_call_delayed_timer_rescan
<1>13. CASE adjust_cont_time_thread_calls
  BY <1>0, <1>13, <1>h DEF adjust_cont_time_thread_calls, calls
<1>14. CASE Tick
  BY <1>0, <1>14, <1>h DEF Tick, calls
<1>15. CASE Sleep
  BY <1>0, <1>15, <1>h DEF Sleep, calls
<1>16. CASE UNCHANGED vars
  BY <1>0, <1>16, <1>h DEF vars, calls
<1> QED
  BY <1>f, <1>1, <1>2, <1>3, <1>4, <1>5, <1>6, <1>7, <1>8, <1>9, <1>10, <1>11, <1>12, <1>13,
     <1>14, <1>15, <1>16
  DEF Next, Clients, Rescans, HandlerSteps, HandlerLoops
-----------------------------------------------------------------------------
(* The timers.                                                             *)

\* A step that adds nothing to a queue and leaves its timer alone.
LEMMA CoverFrame ==
    ASSUME NEW g \in Flavors, Covered(g), timer'[g] = timer[g], AboutToArm(g) => AboutToArm(g)',
           g = "ABSOLUTE" \/ (asleep' = asleep /\ (adjusting => adjusting')),
           \A c \in Queued(g)' : c \in Queued(g) /\ request'[c] = request[c]
    PROVE  Covered(g)'
<1>1. CASE AboutToArm(g)
  BY <1>1 DEF Covered
<1>2. CASE adjusting /\ g = "CONTINUOUS"
  BY <1>2 DEF Covered
<1>3. ASSUME \A c \in Queued(g) : Covers(timer[g], request[c]), NEW c \in Queued(g)'
      PROVE  Covers(timer[g], request[c])'
  BY <1>3 DEF Covers, ToAbsolute, Queued
<1> QED
  BY <1>1, <1>2, <1>3 DEF Covered

\* A step that arms the timer for whatever is the head.
LEMMA CoverAll ==
    ASSUME TypeOK, CallInv', request' \in [Calls -> Requests \union {NULL}], asleep' = asleep,
           NEW f \in Flavors, arm_delayed_call_timer(NULL, f)
    PROVE  Covered(f)'
<1>1. \A c \in Queued(f)' : Covers(timer'[f], request'[c])
  BY Arms
<1>2. \A c \in Queued(f)' : Covers(timer[f], request[c])'
  BY <1>1 DEF Covers, ToAbsolute
<1> QED
  BY <1>2 DEF Covered

\* A step that queues a call and arms the timer if that call is the head.
LEMMA CoverNew ==
    ASSUME TypeOK, CallInv', request' \in [Calls -> Requests \union {NULL}], asleep' = asleep,
           adjusting' = adjusting, NEW f \in Flavors, Covered(f), AboutToArm(f) => AboutToArm(f)',
           NEW new, arm_delayed_call_timer(new, f),
           \A c \in Queued(f)' : c # new => c \in Queued(f) /\ request'[c] = request[c]
    PROVE  Covered(f)'
<1>1. CASE AboutToArm(f)
  BY <1>1 DEF Covered
<1>2. CASE adjusting /\ f = "CONTINUOUS"
  BY <1>2 DEF Covered
<1>3. CASE \A c \in Queued(f) : Covers(timer[f], request[c])
  <2>1. \A c \in Queued(f)' : c # new => Covers(timer[f], request'[c])
    BY <1>3
  <2>2. \A c \in Queued(f)' : Covers(timer'[f], request'[c])
    BY <2>1, Arms
  <2>3. \A c \in Queued(f)' : Covers(timer[f], request[c])'
    BY <2>2 DEF Covers, ToAbsolute
  <2> QED
    BY <2>3 DEF Covered
<1> QED
  BY <1>1, <1>2, <1>3 DEF Covered

\* Every step leaves a timer early enough, or a handler behind that arms it.
LEMMA CoverStep ==
    ASSUME TimerInv, [Next]_vars
    PROVE  CoverInv'
<1> SUFFICES ASSUME NEW g \in Flavors, Covered(g) PROVE Covered(g)'
  BY DEF TimerInv, CoverInv
<1>0. /\ TypeOK /\ CallInv /\ FlavorInv /\ SignalInv /\ CallInv'
      /\ request' \in [Calls -> Requests \union {NULL}]
      /\ request \in [Calls -> Requests \union {NULL}]
      /\ tc_queue \in [Calls -> {"none", "pending", "delayed"}]
      /\ timer \in [Flavors -> Windows \union {NULL}]
      /\ handler \in [Cpus -> Handlers]
  BY CallStep DEF TimerInv, CallTypes, TypeOK
<1>f. use.flavors \subseteq Flavors
  BY <1>0, UseFlavors
<1>1. ASSUME NEW c \in Calls, NEW f \in Flavors, NEW d \in Deadlines, NEW slop \in 0 .. MaxSlop,
             NEW rate \in BOOLEAN, thread_call_enter_delayed(c, f, d, slop, rate)
      PROVE  Covered(g)'
  <2>1. \A e \in Queued(g)' : e # c => e \in Queued(g) /\ request'[e] = request[e]
    BY <1>1, <1>0 DEF thread_call_enter_delayed, Enqueue, Put, Queued
  <2>2. UNCHANGED <<asleep, adjusting, handler>> /\ arm_delayed_call_timer(c, f)
    BY <1>1 DEF thread_call_enter_delayed, clocks
  <2>3. AboutToArm(g)' <=> AboutToArm(g)
    BY <2>2 DEF AboutToArm
  <2>4. CASE g = f
    BY <1>0, <2>1, <2>2, <2>3, <2>4, CoverNew
  <2>5. CASE g # f
    <3>1. c \notin Queued(g)'
      BY <1>1, <1>0, <2>5 DEF thread_call_enter_delayed, Enqueue, Put, Queued, CallInv
    <3>2. timer'[g] = timer[g]
      BY <1>0, <2>2, <2>5, Arms
    <3> QED
      BY <2>1, <2>2, <2>3, <3>1, <3>2, CoverFrame
  <2> QED
    BY <2>4, <2>5
<1>2. ASSUME NEW c \in Calls, thread_call_enter(c) PROVE  Covered(g)'
  <2>1. \A e \in Queued(g)' : e \in Queued(g) /\ request'[e] = request[e]
    BY <1>2, <1>0 DEF thread_call_enter, Enqueue, Put, CallInv, Queued
  <2>2. UNCHANGED <<asleep, adjusting, timer, handler>>
    BY <1>2 DEF thread_call_enter, clocks
  <2> QED
    BY <2>1, <2>2, CoverFrame DEF AboutToArm
<1>3. ASSUME NEW c \in Calls, thread_call_cancel(c) PROVE  Covered(g)'
  <2>1. \A e \in Queued(g)' : e \in Queued(g) /\ request'[e] = request[e]
    BY <1>3, <1>0 DEF thread_call_cancel, Put, Queued
  <2>2. UNCHANGED <<asleep, adjusting, handler>>
    BY <1>3 DEF thread_call_cancel, clocks
  <2>3. AboutToArm(g)' <=> AboutToArm(g)
    BY <2>2 DEF AboutToArm
  <2>4. CASE timer'[g] = timer[g]
    BY <2>1, <2>2, <2>3, <2>4, CoverFrame
  <2>5. CASE timer'[g] # timer[g]
    <3>1. PICK f \in Flavors : CancelDelayed(c, f)
      BY <1>3, <2>5 DEF thread_call_cancel
    <3>2. RearmForNext(f)
      BY <2>5, <3>1 DEF CancelDelayed
    <3>3. CASE timer' = Put(timer, f, NULL) /\ Queued(f)' = {}
      <4>1. g = f
        BY <1>0, <2>5, <3>3 DEF Put
      <4> QED
        BY <3>3, <4>1 DEF Covered
    <3>4. CASE arm_delayed_call_timer(NULL, f)
      <4>1. g = f
        BY <1>0, <2>2, <2>5, <3>4, Arms
      <4> QED
        BY <1>0, <2>2, <3>4, <4>1, CoverAll
    <3> QED
      BY <3>2, <3>3, <3>4 DEF RearmForNext
  <2> QED
    BY <2>4, <2>5
<1>4. ASSUME NEW c \in Calls, thread_call_thread(c) PROVE  Covered(g)'
  <2>1. \A e \in Queued(g)' : e \in Queued(g) /\ request'[e] = request[e]
    BY <1>4, <1>0 DEF thread_call_thread, Put, Queued
  <2>2. UNCHANGED <<asleep, adjusting, timer, handler>>
    BY <1>4 DEF thread_call_thread, clocks
  <2> QED
    BY <2>1, <2>2, CoverFrame DEF AboutToArm
<1>5. ASSUME NEW c \in Calls, thread_call_finish(c) PROVE  Covered(g)'
  <2>1. UNCHANGED <<asleep, adjusting, handler>>
    BY <1>5 DEF thread_call_finish, clocks
  <2>2. AboutToArm(g)' <=> AboutToArm(g)
    BY <2>1 DEF AboutToArm
  <2>3. tc_queue' = [tc_queue EXCEPT ![c] = tc_queue'[c]] /\ request' = [request EXCEPT ![c] = request'[c]]
    BY <1>5, <1>0 DEF thread_call_finish, Finish, Put
  <2>4. \A e \in Queued(g)' : e # c => e \in Queued(g) /\ request'[e] = request[e]
    BY <1>0, <2>3 DEF Queued
  <2>s. ~Signal(c)
    BY <1>5, <1>0 DEF thread_call_finish, FlavorOfRun, SignalInv
  <2>5. CASE Requeues(c) /\ request[c].flavor = g
    <3>1. arm_delayed_call_timer(c, g)
      BY <1>5, <2>5, <2>s DEF thread_call_finish, FinishArms
    <3> QED
      BY <1>0, <2>1, <2>2, <2>4, <3>1, CoverNew
  <2>6. CASE ~(Requeues(c) /\ request[c].flavor = g)
    <3>1. c \notin Queued(g)'
      BY <1>5, <1>0, <2>6, <2>s DEF thread_call_finish, Finish, Put, Queued
    <3>2. CASE Requeues(c)
      <4>1. request[c].flavor \in Flavors /\ arm_delayed_call_timer(c, request[c].flavor)
        BY <1>5, <1>0, <2>s, <3>2 DEF thread_call_finish, FinishArms, Requeues, Requests
      <4>2. timer'[g] = timer[g]
        BY <1>0, <2>1, <2>6, <3>2, <4>1, Arms
      <4> QED
        BY <2>1, <2>2, <2>4, <3>1, <4>2, CoverFrame
    <3>3. CASE ~Requeues(c)
      <4>1. timer' = timer
        BY <1>5, <3>3 DEF thread_call_finish
      <4> QED
        BY <2>1, <2>2, <2>4, <3>1, <4>1, CoverFrame
    <3> QED
      BY <3>2, <3>3
  <2> QED
    BY <2>5, <2>6
<1>6. ASSUME NEW p \in Cpus, NEW f \in Flavors, TimerFires(p, f) PROVE  Covered(g)'
  <2>1. UNCHANGED <<asleep, adjusting, tc_queue, request>>
    BY <1>6 DEF TimerFires, clocks, calls
  <2>2. \A b \in Cpus : b # p => handler'[b] = handler[b]
    BY <1>6, <1>0 DEF TimerFires, Put
  <2>3. handler[p] = Idle /\ handler'[p] = [at |-> "entered", flavor |-> f]
    BY <1>6, <1>0 DEF TimerFires, Put
  <2>4. handler'[p] # Idle /\ handler'[p].flavor = f
    BY <2>3 DEF Idle
  <2>5. CASE g = f
    BY <2>4, <2>5 DEF Covered, AboutToArm
  <2>6. CASE g # f
    <3>1. timer'[g] = timer[g]
      BY <1>6, <1>0, <2>6 DEF TimerFires, Put
    <3>2. AboutToArm(g) => AboutToArm(g)'
      BY <2>2, <2>3 DEF AboutToArm
    <3> QED
      BY <2>1, <3>1, <3>2, CoverFrame DEF Queued
  <2> QED
    BY <2>5, <2>6
<1>7. ASSUME NEW p \in Cpus, HandlerLocks(p) PROVE  Covered(g)'
  <2>1. UNCHANGED <<asleep, adjusting, tc_queue, request, timer>>
    BY <1>7 DEF HandlerLocks, clocks, calls
  <2>2. \A b \in Cpus : b # p => handler'[b] = handler[b]
    BY <1>7, <1>0 DEF HandlerLocks
  <2>3. handler'[p] # Idle /\ handler'[p].flavor = handler[p].flavor
    BY <1>7, <1>0 DEF HandlerLocks, Idle
  <2>4. AboutToArm(g) => AboutToArm(g)'
    BY <2>2, <2>3 DEF AboutToArm
  <2> QED
    BY <2>1, <2>4, CoverFrame DEF Queued
<1>8. ASSUME NEW p \in Cpus, handler[p].at = "loop", NEW forced \in BOOLEAN,
             NEW c \in DueHeads(p, forced), HandlerPends(p, c)
      PROVE  Covered(g)'
  <2>1. c \in Calls /\ tc_queue[c] = "delayed"
    BY <1>8 DEF DueHeads, Heads, Queued
  <2>2. \A e \in Queued(g)' : e \in Queued(g) /\ request'[e] = request[e]
    BY <1>8, <1>0, <2>1 DEF HandlerPends, Enqueue, Put, Queued, CallInv
  <2>3. UNCHANGED <<asleep, adjusting, timer, handler>>
    BY <1>8 DEF HandlerPends, clocks
  <2> QED
    BY <2>2, <2>3, CoverFrame DEF AboutToArm
<1>9. ASSUME NEW p \in Cpus, handler[p].at = "loop", NEW forced \in BOOLEAN,
             NEW c \in DueHeads(p, forced), HandlerSignals(p, c)
      PROVE  Covered(g)'
  <2>1. \A e \in Queued(g)' : e \in Queued(g) /\ request'[e] = request[e]
    BY <1>9, <1>0 DEF HandlerSignals, Put, Queued, DueHeads, Heads
  <2>2. UNCHANGED <<asleep, adjusting, timer>>
    BY <1>9 DEF HandlerSignals, clocks
  <2>3. \A b \in Cpus : b # p => handler'[b] = handler[b]
    BY <1>9, <1>0 DEF HandlerSignals
  <2>4. handler'[p] # Idle /\ handler'[p].flavor = handler[p].flavor
    BY <1>9, <1>0 DEF HandlerSignals, Idle
  <2>5. AboutToArm(g) => AboutToArm(g)'
    BY <2>3, <2>4 DEF AboutToArm
  <2> QED
    BY <2>1, <2>2, <2>5, CoverFrame
<1>10. ASSUME NEW p \in Cpus, handler[p].at = "loop", NEW forced \in BOOLEAN, HandlerDone(p, forced)
      PROVE  Covered(g)'
  <2> DEFINE f == handler[p].flavor
  <2>1. f \in Flavors /\ arm_delayed_call_timer(NULL, f)
    BY <1>10, <1>0, HandlerShape DEF HandlerDone
  <2>2. UNCHANGED <<asleep, adjusting, tc_queue, request>>
    BY <1>10 DEF HandlerDone, clocks, calls
  <2>3. CASE g = f
    BY <1>0, <2>1, <2>2, <2>3, CoverAll
  <2>4. CASE g # f
    <3>1. timer'[g] = timer[g]
      BY <1>0, <2>1, <2>2, <2>4, Arms
    <3>2. \A b \in Cpus : b # p => handler'[b] = handler[b]
      BY <1>10, <1>0 DEF HandlerDone, Put
    <3>3. AboutToArm(g) => AboutToArm(g)'
      BY <2>4, <3>2 DEF AboutToArm
    <3> QED
      BY <2>2, <3>1, <3>3, CoverFrame DEF Queued
  <2> QED
    BY <2>3, <2>4
<1>11. ASSUME NEW p \in Cpus, HandlerReturns(p) PROVE  Covered(g)'
  <2> DEFINE c == handler[p].call
             f == handler[p].flavor
  <2>1. c \in Calls /\ f \in Flavors /\ handler[p] # Idle
    BY <1>11, <1>0, HandlerShape DEF HandlerReturns
  <2>2. UNCHANGED <<asleep, adjusting, timer>>
    BY <1>11 DEF HandlerReturns, clocks
  <2>3. \A b \in Cpus : b # p => handler'[b] = handler[b]
    BY <1>11, <1>0 DEF HandlerReturns
  <2>4. handler'[p] # Idle /\ handler'[p].flavor = f
    BY <1>11, <1>0, <2>1 DEF HandlerReturns, Idle
  <2>5. AboutToArm(g) => AboutToArm(g)'
    BY <2>3, <2>4 DEF AboutToArm
  <2>6. CASE g = f
    BY <2>4, <2>6 DEF Covered, AboutToArm
  <2>7. CASE g # f
    <3>1. Finish(c, "none")
      BY <1>11 DEF HandlerReturns
    <3>2. c \notin Queued(g)'
      BY <1>11, <1>0, <2>1, <2>7, <3>1 DEF HandlerReturns, Finish, Put, Queued, Requeues,
         FlavorInv
    <3>3. \A e \in Queued(g)' : e # c => e \in Queued(g) /\ request'[e] = request[e]
      BY <1>0, <3>1 DEF Finish, Put, Queued
    <3> QED
      BY <2>2, <2>5, <3>2, <3>3, CoverFrame
  <2> QED
    BY <2>6, <2>7
<1>12. ASSUME NEW f \in Flavors, NEW resort \in SUBSET Calls,
             thread_call_delayed_timer_rescan(f, resort)
      PROVE  Covered(g)'
  <2>1. UNCHANGED <<asleep, adjusting, handler>> /\ arm_delayed_call_timer(NULL, f)
    BY <1>12 DEF thread_call_delayed_timer_rescan, clocks
  <2>2. CASE g = f
    BY <1>0, <2>1, <2>2, CoverAll
  <2>3. CASE g # f
    <3>1. timer'[g] = timer[g]
      BY <1>0, <2>1, <2>3, Arms
    <3>2. \A e \in Calls : e \notin Queued(f) => tc_queue'[e] = tc_queue[e] /\ request'[e] = request[e]
      BY <1>12 DEF thread_call_delayed_timer_rescan
    <3>3. \A e \in Queued(f) : e \notin Queued(g)'
      <4> SUFFICES ASSUME NEW e \in Queued(f), e \in Queued(g)' PROVE FALSE
        OBVIOUS
      <4>1. e \in Calls /\ request[e] \in Requests /\ request[e].flavor = f
        BY <1>0 DEF Queued, CallInv
      <4>2. request'[e] \in {NULL, request[e], [request[e] EXCEPT !.hard = request[e].soft]}
        BY <1>12, <4>1 DEF thread_call_delayed_timer_rescan
      <4>3. request'[e] # NULL /\ request'[e].flavor = g
        BY <1>0, <4>1 DEF Queued, CallInv
      <4> QED
        BY <2>3, <4>1, <4>2, <4>3 DEF Requests
    <3>4. \A e \in Queued(g)' : e \in Queued(g) /\ request'[e] = request[e]
      BY <3>2, <3>3 DEF Queued
    <3> QED
      BY <2>1, <3>1, <3>4, CoverFrame DEF AboutToArm
  <2> QED
    BY <2>2, <2>3
<1>13. CASE adjust_cont_time_thread_calls
  <2>1. UNCHANGED <<asleep, handler, tc_queue, request>> /\ arm_delayed_call_timer(NULL, "CONTINUOUS")
    BY <1>13 DEF adjust_cont_time_thread_calls, calls
  <2>2. CASE g = "CONTINUOUS"
    BY <1>0, <2>1, <2>2, CoverAll
  <2>3. CASE g = "ABSOLUTE"
    <3>1. timer'[g] = timer[g]
      BY <1>0, <2>1, <2>3, Arms DEF Flavors
    <3> QED
      BY <2>1, <2>3, <3>1, CoverFrame DEF AboutToArm, Queued
  <2> QED
    BY <2>2, <2>3 DEF Flavors
<1>14. CASE Tick
  <2>1. UNCHANGED <<asleep, adjusting, handler, tc_queue, request, timer>>
    BY <1>14 DEF Tick, calls
  <2> QED
    BY <2>1, CoverFrame DEF AboutToArm, Queued
<1>15. CASE Sleep
  <2>1. UNCHANGED <<handler, tc_queue, request, timer>> /\ adjusting'
    BY <1>15 DEF Sleep, calls
  <2>2. CASE g = "CONTINUOUS"
    BY <2>1, <2>2 DEF Covered
  <2>3. CASE g = "ABSOLUTE"
    BY <2>1, <2>3, CoverFrame DEF AboutToArm, Queued
  <2> QED
    BY <2>2, <2>3 DEF Flavors
<1>16. CASE UNCHANGED vars
  <2>1. UNCHANGED <<asleep, adjusting, handler, tc_queue, request, timer>>
    BY <1>16 DEF vars, clocks, calls
  <2> QED
    BY <2>1, CoverFrame DEF AboutToArm, Queued
<1> QED
  BY <1>1, <1>2, <1>3, <1>4, <1>5, <1>6, <1>7, <1>8, <1>9, <1>10, <1>11, <1>12, <1>13,
     <1>14, <1>15,
     <1>16, <1>f
  DEF Next, Clients, Rescans, HandlerSteps, HandlerLoops
-----------------------------------------------------------------------------
(* The theorems.                                                           *)

\* At the start nothing is queued and no handler is at work.
LEMMA TimerInit ==
    ASSUME Init
    PROVE  TimerInv
<1>1. TypeOK
  <2>1. now \in 0 .. LastTime /\ asleep \in 0 .. MaxSleep /\ enters \in 0 .. MaxEnters
    BY TimerAssumption DEF Init
  <2>2. use \in Uses /\ adjusting \in BOOLEAN /\ lock \in Cpus \union {NULL}
    BY Zenon DEF Init
  <2>3. handler \in [Cpus -> Handlers] /\ timer \in [Flavors -> Windows \union {NULL}]
    BY DEF Init, Handlers
  <2>4. CallTypes
    BY DEF Init, CallTypes
  <2> QED
    BY <2>1, <2>2, <2>3, <2>4 DEF CallTypes, TypeOK
<1>2. CallInv
  BY DEF Init, CallInv
<1>3. FlavorInv
  BY DEF Init, FlavorInv, Idle
<1>4. SignalInv
  BY DEF Init, SignalInv
<1>5. CoverInv
  BY DEF Init, CoverInv, Covered, Queued
<1> QED
  BY <1>1, <1>2, <1>3, <1>4, <1>5 DEF TimerInv

\* However clients use the calls, the queues, timers and handlers keep their
\* types; a delayed call has a deadline, and a running one is not queued.
THEOREM TimerTypeCorrect == Spec => [](TypeOK /\ CallInv)
<1>1. Init => TypeOK /\ CallInv
  BY TimerInit DEF TimerInv
<1>2. TypeOK /\ CallInv /\ [Next]_vars => TypeOK' /\ CallInv'
  BY TimerTypeStep, CallStep
<1> QED
  BY <1>1, <1>2, PTL DEF Spec

\* Whoever submits, cancels or runs delayed calls, in whatever order with the
\* interrupts of both timers and with sleep, no timer is armed too late for the
\* head of its queue while nothing is about to arm it, provided that no client
\* gives a SIGNAL call that runs another flavor, and that the queues are
\* rescanned only if no call is a SIGNAL call.  (thread_call_finish leaves the
\* timer of a SIGNAL call alone, and no handler follows if a thread ran it.)
THEOREM TimerAlwaysCovers ==
    ASSUME \A u \in Uses : Disciplined(u)
    PROVE  Spec => []TimerCovers
<1>1. Init => TimerInv
  BY TimerInit
<1>2. TimerInv /\ [Next]_vars => TimerInv'
  <2> SUFFICES ASSUME TimerInv, [Next]_vars PROVE TimerInv'
    OBVIOUS
  <2>1. TypeOK /\ CallInv /\ FlavorInv /\ SignalInv /\ Disciplined(use)
    BY DEF TimerInv, TypeOK
  <2>2. TypeOK' /\ CallInv'
    BY <2>1, TimerTypeStep, CallStep
  <2>3. FlavorInv'
    BY <2>1, FlavorStep DEF Disciplined
  <2>4. SignalInv'
    BY <2>1, SignalStep
  <2> QED
    BY <2>2, <2>3, <2>4, CoverStep DEF TimerInv
<1>3. TimerInv => TimerCovers
  BY DEF TimerInv, CoverInv, Covered, TimerCovers, Heads
<1> QED
  BY <1>1, <1>2, <1>3, PTL DEF Spec
=============================================================================
