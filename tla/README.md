# A TLA+ verification of XNU's kernel synchronisation core

This directory models, model-checks and proves properties of the deferred-work,
hand-over and locking machinery of the kernel: the lock-free MPSC queues and the
daemon queues built on them, gates, thread calls with their groups and timers,
the ARM read-write lock, and the advisory record locks of BSD. These are small
pieces of code on which much of the kernel rests, full of interleavings that
tests hardly reach.

Contents: [Inventory](#inventory) - [Plan](#plan) - [Modules](#modules) -
[Runs](#runs) - [Bounds](#bounds) - [Fairness](#fairness) - [Proofs](#proofs) -
[Findings](#findings) - [Limits](#limits) -
[What is not modelled](#what-is-not-modelled)

## Inventory

### The parts that are modelled

**MPSC queue** (`mpsc_queue.c:34-115`, `mpsc_queue.h`). State: the `mpqc_next`
links, with `mpqh_head` as a sentinel, and `mpqh_tail`. Producers run
`mpsc_queue_append(_list)`: an exchange of the tail
(`__mpsc_queue_append_update_tail`), later the store that links the previous tail
(`__mpsc_queue_append_update_prev`). The single consumer runs
`mpsc_queue_dequeue_batch`, `mpsc_queue_batch_next`/`_foreach_safe` and
`mpsc_queue_restore_batch`. Hard: the gap between the two halves of an enqueue,
on which the consumer spins; the producer's late store into an element the
consumer may already hold; the race of a restore with an append. Correct means: a
FIFO that loses and duplicates nothing, spins that end, no store into memory the
queue does not own.

**Daemon queues** (`mpsc_queue.c:117-421`). State: an MPSC queue, the `mpd_state`
bits DRAINING, WAKEUP and CANCELED, and what drains it: a thread, a ONCE thread
call, or a target daemon queue on which the queue puts its own `mpd_chain`.
Operations: `mpsc_daemon_enqueue`, the three wakeups, `_mpsc_daemon_queue_drain`,
`mpsc_daemon_queue_cancel_and_wait`. Callbacks (`mpd_invoke`) may send again.
Hard: the end of a drain against a new wakeup; the state word toggled by xor; a
chain that must not be linked twice; cancelation against everything in flight.

**Gates** (`locks.c:2193-2674`, wrappers to 3180). State: `gate_data` (holder,
waiters bit, interlock) and the turnstile with its inheritor and wait queue.
Operations: try_close, close, open, handoff, steal, wait, always with a mutex or
rw lock held. Signals and deadlines take waiters off the wait queue without the
interlock. Hard: aborted waits leave the waiters bit and the inheritor behind;
the handoff and the steal race with woken threads that have not run.

**Thread calls: one call** (`thread_call.c`). State of one call: `tc_queue`, the flags
RUNNING, RESCHEDULE and WAIT, the deadline, `tc_refs`, `tc_submit_count` and
`tc_finish_count`. Clients enter, delay, cancel, wait and free; the group's
threads run the call, the timer interrupt pends it or, for SIGNAL calls, runs it,
and the platform may force a rescan of delayed calls. Hard: submission while the
call runs; free while it runs; three places that move the counts;
`thread_call_finish` drops its lock before it wakes waiters up.

**Thread calls: groups** (`thread_call.c` 396-530, 1399-1486, 1617-1863,
2003-2055). State: for each group `pending_count`, `active_count`,
`blocked_count`, `idle_count`, the flag TCG_DEALLOC_ACTIVE and the deallocation
timer; one daemon with `thread_call_daemon_awake` for all groups. Submissions
wake a parked thread or ask the daemon; the scheduler reports blocked threads;
threads park, terminate or are retired. Hard: every decision is taken from counts
that five contexts update, the daemon sleeps on a flag, and the timer may fire
while it is being cancelled. Correct means: the counts are the threads, pending
work is always on its way to a thread, a surplus is always on its way out.

**Thread calls: deadlines** (`thread_call.c` 338-388, 751-807, 1195-1307,
1488-1542, 1865-2001, 2199-2215). State: a queue for each flavor of time, ordered
by hard deadline, and one timer for each, armed for the head only. Hard: every
change of a head has to re-arm the timer or leave it to a handler that will; the
handler drops the lock to run SIGNAL calls; absolute and continuous time drift
apart in a sleep. Correct means: the timer is never too late for the head of its
queue, and every delayed call leaves it.

**Read-write locks** (`arm/locks_arm.c` 774-1947). State: a word with the count of
readers, WANT_EXCL, WANT_UPGRADE, R_WAITING, W_WAITING and the privilege of
writers, and `lck_rw_owner`. Hard: WANT_EXCL and WANT_UPGRADE may be held by two
threads at once; the waiting bits are cleared in one step and the wakeups posted
in a later one; a failed upgrade may have to wake somebody. Correct means: mutual
exclusion, an exact owner, no lost wakeup, every request ends.

**Advisory record locks** (`bsd/kern/kern_lockf.c`). State: for each vnode a list
of locked ranges, in order for each owner, every lock with the queue of the
requests it blocks. Operations: set (waiting or not), unlock, abort; process,
open-file and flock owners. Hard: splits and coalescing of ranges with inclusive
ends, upgrades that first give up the old lock, requests that fail or are aborted
while others queue behind them, deadlock detection over what others wait for.
Correct means: the list is a table of byte locks in which nothing conflicts, a
sleeper stays queued on a lock of the list or of a woken request that will look
after it, processes do not sleep on each other.

### How they interact

A daemon queue of kind THREAD_CALL is woken up with `thread_call_enter` and
canceled with `thread_call_cancel_wait`: `MpscDaemon` states the part of
`ThreadCall` it needs as `thread_call_enter` and the set `call`, and the run
`call` checks what it relies on (one invocation at a time, a submission during an
invocation reschedules it). `MpscDaemon` uses the MPSC queue as the atomic object
that `MpscQueueRefinement` shows it to be. The three models of thread calls cut
the same code along its state: `ThreadCall` has one call and assumes that a
pending call is taken by some thread and that a delayed one expires, which
`ThreadCallGroup` (`PendingServed`) and `ThreadCallTimer` (`DelayedExpires`)
show. Gates, read-write locks and record locks share no state with these. All of
them use wait queues, turnstiles and the scheduler, which are modelled by what
these callers see of them.

### The rest of the kernel

`PROJECT.json` lists the other components the repository has (mutexes,
turnstiles, wait queues, Mach IPC, VM, BSD, networking, IOKit) with the reason
each is not modelled.

## Plan

Done, in this order: MPSC queue, its abstract FIFO and refinement; daemon queues;
gates; the life of a thread call; the proofs for gates and for the MPSC queue;
thread call groups and timers; the ARM read-write lock; record locks, the
abstract lock table they implement and its proof; the proofs for groups; the
proofs for the read-write lock, for the life of a thread call, for daemon queues
and for the timers; the proofs that the MPSC queue implements its FIFO and that
the lists of record locks implement the lock table.

To do, most important first:

1. The proofs of `WaiterQueued` and `NoWaitCycle`.
2. `SleepInheritor`: `sleep_with_inheritor`, the wakeups and
   `change_sleep_inheritor` (`locks.c` 1690-2191), reusing the turnstile
   abstraction of `Gate`.
3. Semaphores (`sync_sema.c`) and event links (`ipc_eventlink.c`).

## Modules

| module | what it is | code |
|---|---|---|
| `MpscFifo` | abstract FIFO: append a list, dequeue all, consume, restore | promises of `mpsc_queue.h` |
| `MpscQueue` | the lock-free algorithm, one action per atomic access | `mpsc_queue.[ch]` |
| `MpscQueueRefinement` | mapping of `MpscQueue` to `MpscFifo` | |
| `MpscQueueProofs` | inductive invariant and theorems | |
| `MpscDaemon` | daemon queues, one action per access to `mpd_state` | `mpsc_queue.c` 117-421 |
| `MpscDaemonProofs` | inductive invariant and theorems | |
| `Gate` | gates, one action per critical section of the interlock | `locks.c` 2195-2674 |
| `GateProofs` | inductive invariants and theorems | |
| `ThreadCall` | one allocated call, one action per critical section of its group's lock | `thread_call.c` |
| `ThreadCallProofs` | inductive invariants and theorems | |
| `ThreadCallGroup` | the thread pools of several groups and the daemon they share | `thread_call.c` |
| `ThreadCallGroupProofs` | inductive invariants and theorems | |
| `ThreadCallTimer` | the delayed queues of a group, its timers and their handlers | `thread_call.c` |
| `ThreadCallTimerProofs` | inductive invariant and theorems | |
| `RwLock` | one read-write lock, one action per exchange of its word | `arm/locks_arm.c` |
| `RwLockProofs` | inductive invariants and theorems | |
| `LockTable` | abstract table of byte locks: ask, set, fail, clear | promises of `fcntl` locks |
| `Lockf` | the lists of locked ranges, and the mapping to `LockTable` | `kern_lockf.c` |
| `LockfProofs` | the lists stay in order and implement the table, which has no conflicts | |
| `MC*` | constants for TLC | |

Correspondence, beyond the names:

- `MpscQueue`: `next[QHead]` is `mpqh_head.mpqc_next`; `link[p]` is the store that
  producer `p` still owes (its `prev` and `first`); `cpc`, `head`, `last`, `cur`,
  `tmp` are the consumer's program counter and locals. `owner` is a history
  variable: whose an element is. The accesses are interleaved in program order:
  the code's release and seq_cst exchanges order the relaxed accesses around
  them; weaker interleavings are not explored. The consumer's foreach does what
  `_mpsc_daemon_queue_drain` does with it: mark the element, then invoke.
  `restore_batch` is called with the rest of a batch whose links are set, as its
  header demands (`BatchLinked`).
- `MpscDaemon`: a queue also names its own `mpd_chain`. An agent is the sender of
  an item or the canceler of a queue; `obj` is the element it enqueues or the
  queue it announces. `dpc` is where the drain of a queue is; "nested" while the
  drain of a queue that targets it runs inside it. `wait` and `cwait` are the
  `assert_wait`s on the queue and on `mpd_state`. A queue and a batch are sets:
  their order is the refinement's business. Clients respect the documented
  duties: no send after cancelation, one cancelation, hierarchies torn down from
  the leaves (`cancel_assert_wait`). The constant `CancelBusy` says whether a
  nested queue may be canceled while it is announced or draining: not in the run
  `daemon` and in the theorems, see [Findings](#findings). `kind` says what drains
  the root, and is chosen in `Init`.
- `Gate`: `holder` and `waiters` are `gate_data`, `inheritor` is the turnstile's,
  `Waitq` its wait queue, `Users` the threads between `turnstile_prepare` and
  `turnstile_complete`. The interlock makes a critical section one step, and the
  compare-and-swap fast paths only succeed with the interlock and the bit clear.
  `clear_wait` is a signal or a deadline. Panics (closing a closed gate, waiting
  on an open one) are guards: they are callers' errors.
- `ThreadCall`: `rpc` says what a thread or a CPU's timer interrupt does with the
  call, `cpc` where a client is, `waiting` who is in `assert_wait` on the call.
  Time is abstracted to a choice: a delayed call may expire at any moment, and
  `thread_call_finish` may find a deadline expired or not. `before` is a history
  variable: the invocations in flight when a wait began. `released` and `freed`
  are the owner's free and the return to the zone.
- `ThreadCallGroup`: `starting`, `running`, `blocked` and `parked` count the
  threads that really are in each place; the `_count` variables are the code's.
  A group's lock makes a critical section one step; `waking` is the part of one
  between the exchange of `thread_call_daemon_awake` and the wakeup.
  `sched_mach_factor` is read unlocked: lightly loaded or not is a choice.
- `ThreadCallTimer`: `request` is what a delayed call is queued with, `timer` the
  window each flavor's timer is armed for, `handler` what
  `thread_call_delayed_timer` does on each CPU, with the time it read. Calls with
  equal deadlines come out of the heap in any order. `use` (chosen in `Init`) says
  what kinds of calls there are and whether the machine sleeps or rescans.
- `RwLock`: the code under the interlock bit is one step with the exchange that
  takes it. `owe` is the wakeups a thread decided on and has yet to post. How
  long a thread spins before it sleeps is a choice.
- `Lockf`: a lock carries its queue `lf_blkhd`; `lf_next` of a request is the lock
  whose queue it is in. `v_lock` is dropped in `msleep` only; the pause in the
  deadlock check, for the `v_lock` of another vnode, is `pause`. Offsets are
  signed and wrap at `OFF_MAX`. `cast` (chosen in `Init`) says who asks for what.
  `Table` maps the lists to the bytes of `LockTable`.

## Runs

Passing runs:

- `queue`: `SpinOwed` (the consumer only spins on a link that a producer owes),
  `LinkStoreSafe` (late link stores stay within the queue's memory),
  `MarkerMeansIdle`, `FifoRefinement` (the algorithm implements `MpscFifo`,
  restores included) and `SpinEnds`.
- `daemon` (a nested queue on the queue of a thread or of a thread call):
  `DrainAssertions`, `ChainEnqueuedOnce`, `NoLostWakeup`, `CancelQuiescent`,
  `Delivered`, `CancelReturns`.
- `gate`: `OpenMeansNoWaiters`, `PushReachesHolder`, `WaitersBitOwed`,
  `AbortedNotHolder`, and until the gate is stolen `InheritorBounded` and
  `HandoffMeansHeld`.
- `call` (plain, ONCE and SIGNAL calls, used in five ways): `CountsExact`,
  `RefsExact`, `OnceExclusive`, `NoUseAfterFree`, `WaitCovers`, `WaitReturns`,
  `FreeCompletes`.
- `call_group` (a serial and a parallel group): `CountsMatch` (the counts are the
  threads), `WorkCovered` (a pending call has an active thread, or a daemon that
  will look), `SurplusTimed` (the flag is the timer, and a surplus has it on),
  `PendingServed` (a group with pending calls keeps taking them, even when calls
  block for ever) and `SurplusRetired`.
- `call_timer`: `TimerCovers` (each timer is armed for a window that does not end
  after the first deadline of its queue, or a handler is about to arm it) and
  `DelayedExpires` (a delayed call leaves its queue).
- `rwlock`: `MutualExclusion`, `OwnerExact` (the assertions on `lck_rw_owner`),
  `NoLostWakeup` (a sleeper is announced by its bit, or a wakeup is owed) and
  `RequestEnds`.
- `lockf`: `ListOrdered` (the order that `lf_findoverlap` stops by),
  `WaiterQueued` (a sleeping request is in one queue, of a lock of the list or of
  a woken request that will look after it),
  `NoWaitCycle` (two processes do not sleep on each other's locks) and
  `TableRefinement` (every step of the lists is a step of `LockTable`, which
  grants a lock only when nobody else's conflicts, and `lf_clearlock` clears the
  bytes it is given and no others).

The violation runs (`daemon_busy`, `rwlock_downgrade`, `lockf_last`,
`timer_flip`) are described under [Findings](#findings).

Every property has a mutant of the code it speaks of (an operator marked
`Mutant` before the original): with it in place TLC finds the property violated.

## Bounds

- Queue: 4 elements and 2 producers with lists of up to `MaxList` = 2 elements:
  a gap can be open in the queue and another in a batch while a third list was
  linked, and a restore can meet an append at each of its steps. The invariants
  are proved without bounds.
- Daemon queues: 3 items, each sent at most `MaxSends` = 2 times, so that an item
  is sent again during the drain that delivers it; one nested queue.
- Gates: 4 threads: a holder, one handed the gate, one interrupted and one that
  steals. There are no counters to bound.
- Thread calls: `MaxSubmit` = 5 submissions (a call can be pending, in flight
  twice and rescheduled several times over), 2 threads, 2 CPUs and 2 clients.
- Groups: a serial and a parallel one with a target of one thread, `MaxCalls` = 2
  calls in flight in each: a group can have a thread blocked, one running and a
  surplus idle, and the daemon finds work behind and ahead of its scan. The
  invariants are proved without bounds.
- Timers: 2 calls, 2 CPUs, times up to `LastTime` = 2 with a slop of at most 1, a
  sleep of at most 1 and `MaxEnters` = 3 delayed submissions: a head can be put
  before another, moved behind it, or canceled, while handlers of both CPUs run.
- Read-write lock: 3 threads with `MaxOps` = 3 requests each: a writer, an upgrade
  and a reader meet, with either privilege.
- Record locks: 3 threads, offsets up to `OFF_MAX` = 2 (3 in `lockf_last`), a
  file of `Size` = 2, 3 to 5 requests, one sleep that fails. Each cast in
  `MCLockf` has the ranges and owners for one kind of interaction (splits, flocks, mutual waits, two files).

TLC's deadlock check is off where bounded sends, submissions or requests run out
and canceled queues and freed calls really stop. It is on for the queue, the
gates and the groups.

## Fairness

For steps that the kernel takes once it has started:

- producers finish an enqueue (`mpsc_queue.h` demands that preemption is disabled
  between its halves), and the consumer goes on when its spin ends. Nothing makes
  a producer append or a consumer start or restore a batch;
- senders, drains and cancelers that have started and are not blocked are
  scheduled; nobody has to send or cancel;
- threads of a group and timer interrupts run, expired calls are pended, clients
  that were woken up go on; nobody has to submit, cancel or free;
- groups: the lock of a group is a ticket lock, so whoever spins on it gets it
  although others take it again and again: strong fairness of `ThreadStarts` and
  `CallReturns` (a call that keeps running returns, unless it blocks for ever,
  which it may). The daemon has a higher priority than the call threads, which
  retire 5 ms after their work at the earliest, so it does not create threads for
  one group for ever: strong fairness of `DaemonMovesOn`. Two firings of the
  deallocation timer are not within one tick, so one of them finds a thread idle
  for long: strong fairness of `RetireThread`;
- timers: time goes on, an expired timer interrupts some CPU, handlers go on and
  the calls they run return. Nobody has to enter, cancel or rescan;
- read-write locks: a thread runs when it can, and a holder releases the lock.
  Nobody has to ask for it.

The record locks are checked for safety only.

## Proofs

`tlapm` checks the eight modules named `*Proofs`. Every invariant that is said to be
inductive below was model-checked before it was proved. Where a theorem needs a
hypothesis on the constants, it is one that the runs keep to as well, and it is
explained here: without it the property does not hold of the code.

**Gates**, for any set of threads, either kind of lock. `GateInv` is the
conjunction of the type invariant and the first four invariants of the run with
`WaiterNotHolder` (the holder is on no wait queue), which the handoff needs; each
action preserves it. `NoStealInv` says that, until the history variable `stolen`
is set, the inheritor is the holder (`InheritorHolds`) and a thread about to
return GATE_HANDOFF still holds the gate (`HandoffKept`); from it follow
`GateInheritorBounded` and the action property `GateHandoffMeansHeld`.
Assumption: `GateAssumption` (NULL is no thread).

**MPSC queue**, for any sets of elements and producers, lists of any length.
`SpinOwed` is far from inductive: it needs the shape of the whole list. The usual
argument follows the chain from the head, an induction over data; instead
`QueueInv` speaks of single edges. An edge leaves a node by its stored link or by
the link a producer owes, never both (`LinkInv`); every element of the queue and
of the batch has exactly one predecessor on its side (`EdgeInv`, `MeetInv`); the
only nodes without an edge are the tail and the batch's last element (`TailInv`,
`EndInv`); `HeadInv` and `BatchInv` fix the consumer's locals at each of its
steps. A spin on a node that is not an end therefore has an owed edge. From
`QueueInv` follow `QueueTypeOK`, `QueueSpinOwed`, `QueueLinkStoreSafe` and
`QueueMarkerMeansIdle`. Assumption: `MpscAssumption` (head, NULL and the marker
are distinct and no elements; MaxList is positive).

`QueueIsFifo` proves the refinement. `Listing(s, side)` says that the sequence `s` has
the elements of a side, each once, each linked (by a stored or an owed link) to
the next and the last one to nothing; `Holds(q, b)` that `q` lists the queue from its
first element to the tail and `b` the batch. `FifoInv`, that there are such
sequences, is kept by every step, which appends a list to `q`, makes `q` the batch,
takes the head of `b`, puts `b` before `q`, or leaves both alone; these are the steps
of `MpscFifo`. The mapping itself is a recursive function (`Chain`). That it finds
the sequence is shown without an induction principle: the function exists because
nothing follows the last element, so it is the sequence continued with NULL, and
it is unique because there is no least index at which two would differ. Further
assumption: `FiniteElements`.

**Daemon queues**, for any set of queues and any way they target one another, any
items and any number of sends. `DaemonInv` is one invariant for all four
properties. Its centre is `TokenInv`: a queue that is not canceled has at most one
*token*. While nobody drains it, WAKEUP is set exactly when one agent is about to
wake the queue up, or it has been woken up and did not start yet (`Armed`); the
two exclude each other, and so do two agents. While it is drained there is no
token, WAKEUP is a note for the drainer. A second token would link `mpd_chain`
twice (`DaemonChainEnqueuedOnce`) or start a drain with WAKEUP clear
(`DaemonDrainAssertions`). `QueuedInv` says that what is on a queue is announced;
with the token follows `DaemonNoLostWakeup`. Cancelation is the hard part: the
argument that only the canceler still works on the queue needs to know that an
agent moves up from the queue or item it started from. That is a path, and would
be an induction; `ReachInv` says it with sets instead: each set of queues that is
closed under "targets a member" and contains the queue where the agent is, also
contains the one where the agent started. `Cancelation` then follows a canceled
queue from the setting of the bit to its last drain, from which
`DaemonCancelQuiescent` follows. All four theorems have the hypothesis
`~CancelBusy`: no nested queue is canceled while it is announced or draining.
`daemon_busy` shows that it is needed. Assumption: `DaemonAssumption`.

**Read-write lock**, for any finite set of threads and any number of requests of
both kinds of lock. `LockInv`: WANT_EXCL and WANT_UPGRADE have at most one owner
each (`ExclInv`, `UpgradeInv`), from before the lock is held; what the owner waited
for (no readers, no upgrade) stays so while it holds the lock (`HeldInv`);
`lck_rw_owner` names the holder between its two stores (`OwnerInv`); and the reader
count is the number of readers (`ReadersInv`). It gives `RwTypeCorrect`,
`RwMutualExclusion` and `RwOwnerExact`. `RwNoLostWakeup` is inductive with `OweInv`
(wakeups are owed only by a thread about to post them). Its hypothesis is that no
lock without writer privilege is downgraded, which is what `rwlock_downgrade`
shows to be needed. Assumption: `RwAssumption`.

**Life of a thread call**, for any sets of clients, threads and CPUs, every
combination of options and any number of submissions. `BaseInv` (types, who may
run which call, and `RefsExact`) and `CountsExact` are inductive together:
`ThreadCallRefsExact`, `ThreadCallCountsExact`. `OnceInv` says that a ONCE call is
marked RUNNING while it runs and is then on no queue: `ThreadCallOnceExclusive`,
of which SIGNAL calls with waiters are exempt.
`FreeInv` says that a call its owner freed is not armed again, and who may still
be about: with it `ThreadCallNoUseAfterFree`. `CoverInv` says that the invocation a
client waits for owes it the wakeup: `ThreadCallWaitCovers`, which is about calls
with one waiter that are no SIGNAL calls. Two hypotheses on the
uses: `Disciplined` (no rescans with SIGNAL calls) for all of them, and
`OwnerAlone` (a SIGNAL call that is going to be freed has no other waiters) for
`ThreadCallNoUseAfterFree`; see Limits. Assumption: `ThreadCallAssumption`.

**Thread call groups**, for any number of groups of either kind, any targets and
any number of calls. `CountInv` (types and `CountsMatch`) is inductive: every step
moves a thread and its count together, and a count that is decremented is
positive because the thread is there. `WorkCovered` is not: the daemon passes
over a parallel group with an idle thread, so `WorkInv` adds `IdleGoesFirst` (no
thread is parked while calls are pending and nobody is active), which holds
because `thread_call_wake` takes a parked thread first and threads park only when
nothing is pending. `SurplusTimed` is inductive given the counts: a thread that
parks is itself active, so the test in `thread_call_thread` counts it. The
theorems are `GroupCountsMatch`, `GroupWorkCovered` and `GroupSurplusTimed`.
Assumption: `GroupAssumption` (targets are positive).

**Thread call timers**, for any calls, CPUs, times, leeways and bounds.
`TimerCovers` is about the head of a queue, which is not inductive: when a head
leaves, another call becomes the head. `CoverInv` says that the timer covers
*every* call on the queue, or somebody is about to arm it; `FlavorInv` that a
handler which is going to put a call back will arm the timer of that call's
queue; `SignalInv` that only handlers run SIGNAL calls, which
`thread_call_finish` puts back without arming. That a queue with calls has a head is the one place where well-founded
order is needed (`Least`, from the library's `WFMin`). The theorems are
`TimerTypeCorrect` and `TimerAlwaysCovers`, the latter for uses in which no call
changes its flavor while it runs (`timer_flip` shows that this is needed) and
rescans are not combined with SIGNAL calls (see Limits).
Assumptions: `TimerAssumption` and `NullAssumption` (NULL is no request and no
window).

**Record locks**, for any threads, vnodes, casts and offsets, of uses in which no
request names the last offset (`NoLastByte`): the casts of the `lockf` run satisfy
it, and `lockf_last` shows what happens without it. The walks of `lf_setlock` and
`lf_clearlock` are functions of one iteration, `WalkStep`, and `Walked` is where
they are after one iteration more than the list has locks. `Geo` says of each
iteration that the list is in order (`GoodTable`), that bytes outside the range
are as they were, that nothing of the owner's before the place where the walk
goes on reaches into the range, and that the walk gets closer to the end of the
list each time; the shapes of an iteration (`ClearStepIs`, `GrantStepIs`) keep it,
and by a least counterexample it holds throughout (`GeoRun`), so that the walk
ends within the bound and has set or cleared exactly the range, or nothing if
there was no memory (`WalkedGeo`). With `TypeInv`, `Inv0` says this of every list,
and every action is one step of the table or none (`NextTable`). The theorems are
`ListAlwaysOrdered` and `LockfImplementsTable`; and from the table's own
`TableNoConflict`, `LockfNoConflict`: no byte that one owner has locked for
writing is locked by another. Assumptions: `LockfAssumption` and
`CastAssumption` (an owner takes locks of one kind).

Only model-checked: liveness (`SpinEnds`, `Delivered`, `CancelReturns`,
`WaitReturns`, `FreeCompletes`, `PendingServed`, `SurplusRetired`,
`DelayedExpires`, `RequestEnds`), which is out of the prover's reach;
and of `Lockf` `WaiterQueued` and `NoWaitCycle`, whose proofs need the queues of
blocked requests followed through every iteration of a walk as well.

## Findings

Each is shown by a violation run.

- `daemon_busy`: `mpsc_daemon_queue_cancel_and_wait` of a nested queue that is
  announced or draining enqueues the chain itself (`mpsc_queue.c:395-401`). If that
  happens during a drain, the end of the drain finds CANCELED and wakes the
  canceler, which returns although its chain is on the target; if the chain was
  still linked, it is linked twice. The header (`mpsc_queue.h:574-579`) promises
  that the queue can then be destroyed, elements being drained included. Nobody in
  the tree cancels a nested queue.
- `rwlock_downgrade`: in a lock made with LCK_ATTR_RW_SHARED_PRIORITY,
  `lck_rw_lock_exclusive_to_shared` clears W_WAITING (`locks_arm.c:1311-1313`) and
  wakes readers only. The comment at 1349-1352 leaves the writers to the last
  reader, which no longer sees the bit: a writer that waits stays asleep on a free
  lock. The passing run has downgrades of locks with writer privilege, and all
  other operations of both kinds.
- `lockf_last`: `lf_clearlock` of a range that ends at the largest offset, inside a
  lock without end, makes the rest of the lock start at `lf_end + 1`, which
  overflows (`kern_lockf.c:1008`).
- `timer_flip`: a SIGNAL call given another flavor while it runs is put back by
  `thread_call_finish` on a queue whose timer nobody arms (`thread_call.c:1533`);
  the handler re-arms its own flavor only. The passing run has calls of both
  flavors and lets queued calls change theirs.

## Limits

The passing runs stay within these; each shows when a run is given other
constants, and the code or a comment is aware of each to some degree:

- `gate_wait` decides on GATE_HANDOFF before it reacquires the lock
  (`locks.c:2623`): a steal in between makes the result stale. After a steal
  without the waiters bit (`locks.c:2476`) a thread that was handed the gate can
  stay the inheritor past its wait. Hence `stolen` in the two properties.
- The unlocked `thread_wakeup` of one invocation can end a second client's wait
  for the next one (`thread_call.c:1564-1566`); `WaitCovers` is about a call that
  one client waits for.
- A repended SIGNAL call with waiters is not marked as running while
  `thread_call_finish` drops the lock (1513, 1564), and can be submitted and
  invoked on a second CPU; `OnceExclusive` exempts that use (`UnmarkedRepends`).
- The rescan (1961) pends SIGNAL calls, `thread_call_thread` takes a reference, and
  `thread_call_finish` does not drop it; a call that was submitted again meanwhile
  is delayed without arming its timer (1533), or, if its deadline is over, not
  queued at all, since `thread_call_thread` ignores the result (1703). The models
  have these steps; rescans are not combined with SIGNAL calls in the runs, nor in
  the theorems about thread calls (`Disciplined`).
- `thread_call_cancel_wait` of a plain call does not wait for invocations in flight
  if it canceled a request; its head comment (1344) promises it, the comment at
  1382-1385 does not.
- A continuous deadline that passed while the machine slept converts to the
  absolute time 0, with the leeway counted from there; a rate-limited timer may
  then fire after the hard deadline. `TimerCovers` accepts a window that begins
  at 0.
- The deadlock check follows one step of the wait chain (`kern_lockf.c:630-684`):
  three processes can sleep in a circle, although the comment at 556-558 speaks of
  any cycles. `NoWaitCycle` is about two.
- The check for deadlocks across two vnodes drops and retakes their locks and can
  miss a wait that begins in between; `lf_abort_advlocks` aborts only the requests
  queued on the first lock of a vnode (`kern_lockf.c:370-393`); after a wakeup of
  one waiter (F_WAKE1_SAFE) a compatible shared waiter may stay queued although
  nothing conflicts. None contradicts the properties, which speak of what sleeps
  behind what, not of who should have been woken.

## What is not modelled

Weak-memory reorderings beyond the atomics' interleavings; the lifetime of thread
structures (the canceler's wakeup of a thread that may have terminated); priority
values and turnstile chains; THREAD_CALL storage that callers own and the pool of
internal calls; the limit of 500 threads in a group, which panics; plain calls in
`ThreadCallTimer` (one that is not running behaves as a ONCE call); overflow of
the 16-bit reader count; the i386 read-write lock; `lf_getlock`, which changes no
state; the importance boosts of owners of record locks; flocks and open-file
locks that share one open file; wrap-around of the 64-bit counts. `gate_assert`
and `thread_call_isactive` change no state; what the latter answers is
`CountsExact`.
