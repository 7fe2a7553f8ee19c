------------------------------- MODULE RwLock -------------------------------
(***************************************************************************)
(* Read-write locks, lck_rw_t (osfmk/arm/locks_arm.c): one word with a     *)
(* count of readers and the bits WANT_EXCL, WANT_UPGRADE, R_WAITING and    *)
(* W_WAITING, and an owner field.                                          *)
(*                                                                         *)
(* Every exchange of the word is one step.  So is what a thread does under *)
(* the interlock bit, which the exchanges of the others wait out: it looks *)
(* at the word again and either sets a waiting bit and asserts a wait, or  *)
(* takes what it came for.  How long a thread spins before it sleeps is a  *)
(* choice.  A wakeup comes after the exchange that decided on it, as a     *)
(* step of its own.                                                        *)
(***************************************************************************)
EXTENDS Naturals, FiniteSets

CONSTANTS Threads,
          NULL,
          Privileges,   \* the values lck_rw_priv_excl may have
          Downgrade,    \* the ones whose locks are also downgraded
          MaxOps        \* bound: requests that a thread makes

ASSUME RwAssumption ==
    /\ NULL \notin Threads
    /\ IsFiniteSet(Threads)
    /\ Privileges \subseteq BOOLEAN /\ Downgrade \subseteq BOOLEAN
    /\ MaxOps \in Nat

VARIABLES shared_count, want_excl, want_upgrade, r_waiting, w_waiting,
          priv_excl,    \* writers have privilege; set by lck_rw_init
          owner,        \* lck_rw_owner
          pc,           \* where a thread is
          owe,          \* the events that a thread has yet to wake up
          ops           \* requests that a thread has made

word == <<shared_count, want_excl, want_upgrade, r_waiting, w_waiting>>
vars == <<shared_count, want_excl, want_upgrade, r_waiting, w_waiting,
          priv_excl, owner, pc, owe, ops>>

\* LCK_RW_WRITER_EVENT and LCK_RW_READER_EVENT, and who sleeps on them.
Events == {"WRITER", "READER"}
Sleepers(event) == { t \in Threads :
    pc[t] \in IF event = "WRITER" THEN {"want_sleep", "drain_sleep", "up_sleep"}
                                  ELSE {"sh_sleep"} }

Init ==
    /\ shared_count = 0
    /\ want_excl = FALSE /\ want_upgrade = FALSE
    /\ r_waiting = FALSE /\ w_waiting = FALSE
    /\ priv_excl \in Privileges
    /\ owner = NULL
    /\ pc = [t \in Threads |-> "idle"]
    /\ owe = [t \in Threads |-> {}]
    /\ ops = [t \in Threads |-> 0]

Goto(t, label) == pc' = [pc EXCEPT ![t] = label]

\* A new request of a thread that is at this label.
Request(t, label) ==
    /\ pc[t] = label /\ ops[t] < MaxOps
    /\ ops' = [ops EXCEPT ![t] = @ + 1]
-----------------------------------------------------------------------------
(* Exclusive.                                                              *)

\* lck_rw_lock_exclusive, and lck_rw_try_lock_exclusive when it succeeds: the
\* fast path takes a word without readers, writers and upgrades, unless it
\* meets the interlock.
lck_rw_lock_exclusive(t) ==
    /\ Request(t, "idle")
    /\ \/ /\ shared_count = 0 /\ ~want_excl /\ ~want_upgrade
          /\ want_excl' = TRUE
          /\ Goto(t, "own_excl")
       \/ UNCHANGED want_excl /\ Goto(t, "want")
    /\ UNCHANGED <<shared_count, want_upgrade, r_waiting, w_waiting, priv_excl, owner, owe>>

\* lck_rw_lock_exclusive_gen, first loop: get WANT_EXCL, with lck_rw_grab or
\* under the interlock, ...
grab_want(t) ==
    /\ pc[t] = "want" /\ ~want_excl
    /\ want_excl' = TRUE
    /\ Goto(t, "drain")
    /\ UNCHANGED <<shared_count, want_upgrade, r_waiting, w_waiting, priv_excl, owner, owe, ops>>

\* ... or sleep until it is free.
want_wait(t) ==
    /\ pc[t] = "want" /\ want_excl
    /\ w_waiting' = TRUE
    /\ Goto(t, "want_sleep")
    /\ UNCHANGED <<shared_count, want_excl, want_upgrade, r_waiting, priv_excl, owner, owe, ops>>

\* Mutant: the owner of WANT_EXCL does not wait for an upgrade.
DrainedOfReaders == shared_count = 0

\* lck_rw_drain_status, for the owner of WANT_EXCL.
Drained == shared_count = 0 /\ ~want_upgrade

\* Second loop: the lock is ours once readers and upgrades are gone.
drain(t) ==
    /\ pc[t] = "drain" /\ Drained
    /\ Goto(t, "own_excl")
    /\ UNCHANGED <<word, priv_excl, owner, owe, ops>>

drain_wait(t) ==
    /\ pc[t] = "drain" /\ ~Drained
    /\ w_waiting' = TRUE
    /\ Goto(t, "drain_sleep")
    /\ UNCHANGED <<shared_count, want_excl, want_upgrade, r_waiting, priv_excl, owner, owe, ops>>

\* ordered_store_rw_owner by the thread that got the lock.
store_owner(t) ==
    /\ pc[t] \in {"own_excl", "own_upgrade"}
    /\ owner' = t
    /\ Goto(t, IF pc[t] = "own_excl" THEN "excl" ELSE "upgraded")
    /\ UNCHANGED <<word, priv_excl, owe, ops>>
-----------------------------------------------------------------------------
(* Shared.                                                                 *)

\* lck_rw_lock_shared, and lck_rw_try_lock_shared when it succeeds.
lck_rw_lock_shared(t) ==
    /\ Request(t, "idle")
    /\ \/ /\ ~want_excl /\ ~want_upgrade
          /\ shared_count' = shared_count + 1
          /\ Goto(t, "shared")
       \/ UNCHANGED shared_count /\ Goto(t, "sh")
    /\ UNCHANGED <<want_excl, want_upgrade, r_waiting, w_waiting, priv_excl, owner, owe>>

\* A reader may enter: nobody wants the lock exclusively, or it is shared and
\* writers have no privilege.
SharedMayEnter ==
    \/ ~want_excl /\ ~want_upgrade
    \/ shared_count > 0 /\ ~priv_excl

\* lck_rw_lock_shared_gen: with lck_rw_grab or under the interlock.
grab_shared(t) ==
    /\ pc[t] = "sh" /\ SharedMayEnter
    /\ shared_count' = shared_count + 1
    /\ Goto(t, "shared")
    /\ UNCHANGED <<want_excl, want_upgrade, r_waiting, w_waiting, priv_excl, owner, owe, ops>>

shared_wait(t) ==
    /\ pc[t] = "sh" /\ ~SharedMayEnter
    /\ r_waiting' = TRUE
    /\ Goto(t, "sh_sleep")
    /\ UNCHANGED <<shared_count, want_excl, want_upgrade, w_waiting, priv_excl, owner, owe, ops>>
-----------------------------------------------------------------------------
(* Upgrade and downgrade.                                                  *)

\* t goes to this label when it has woken up the events.
Wakeup(t, events, label) ==
    /\ owe' = [owe EXCEPT ![t] = events]
    /\ Goto(t, IF events = {} THEN label
               ELSE IF label = "shared" THEN "wake_shared" ELSE "wake")

\* Mutant: a failed upgrade leaves it to others to wake up the one that is
\* under way.
FailureWakesNobody == {}

\* lck_rw_lock_shared_to_exclusive_failure: what the last reader wakes up.
FailureWakes == IF w_waiting /\ shared_count = 1 THEN {"WRITER"} ELSE {}

\* lck_rw_lock_shared_to_exclusive.  If somebody else upgrades, the read hold
\* is dropped and FALSE returned.
lck_rw_lock_shared_to_exclusive(t) ==
    /\ Request(t, "shared")
    /\ shared_count' = shared_count - 1
    /\ IF want_upgrade
         THEN /\ w_waiting' = (w_waiting /\ shared_count # 1)
              /\ Wakeup(t, FailureWakes, "idle")
              /\ UNCHANGED want_upgrade
         ELSE /\ want_upgrade' = TRUE
              /\ Goto(t, IF shared_count = 1 THEN "own_upgrade" ELSE "up")
              /\ UNCHANGED <<w_waiting, owe>>
    /\ UNCHANGED <<want_excl, r_waiting, priv_excl, owner>>

\* lck_rw_lock_shared_to_exclusive_success: wait for the other readers.
upgrade(t) ==
    /\ pc[t] = "up" /\ shared_count = 0
    /\ Goto(t, "own_upgrade")
    /\ UNCHANGED <<word, priv_excl, owner, owe, ops>>

upgrade_wait(t) ==
    /\ pc[t] = "up" /\ shared_count # 0
    /\ w_waiting' = TRUE
    /\ Goto(t, "up_sleep")
    /\ UNCHANGED <<shared_count, want_excl, want_upgrade, r_waiting, priv_excl, owner, owe, ops>>

\* lck_rw_lock_exclusive_to_shared clears the owner ...
clear_owner_to_shared(t) ==
    /\ pc[t] \in {"excl", "upgraded"} /\ priv_excl \in Downgrade /\ ops[t] < MaxOps
    /\ ops' = [ops EXCEPT ![t] = @ + 1]
    /\ owner' = NULL
    /\ Goto(t, IF pc[t] = "excl" THEN "down" ELSE "down_upgraded")
    /\ UNCHANGED <<word, priv_excl, owe>>

\* ... and turns the hold into a read hold.
lck_rw_lock_exclusive_to_shared(t) ==
    /\ pc[t] \in {"down", "down_upgraded"}
    /\ shared_count' = shared_count + 1
    /\ want_upgrade' = FALSE
    /\ want_excl' = (want_excl /\ want_upgrade)
    /\ w_waiting' = (w_waiting /\ priv_excl)
    /\ Wakeup(t, IF ~(priv_excl /\ w_waiting) /\ r_waiting THEN {"READER"} ELSE {}, "shared")
    /\ UNCHANGED <<r_waiting, priv_excl, owner, ops>>
-----------------------------------------------------------------------------
(* Release.                                                                *)

\* Mutant: a release leaves the owner recorded.
clear_owner_not(t) ==
    /\ pc[t] \in {"excl", "upgraded"}
    /\ Goto(t, IF pc[t] = "excl" THEN "done" ELSE "done_upgraded")
    /\ UNCHANGED <<word, priv_excl, owner, owe, ops>>

\* lck_rw_done of an exclusive hold clears the owner first.
clear_owner(t) ==
    /\ pc[t] \in {"excl", "upgraded"}
    /\ owner' = NULL
    /\ Goto(t, IF pc[t] = "excl" THEN "done" ELSE "done_upgraded")
    /\ UNCHANGED <<word, priv_excl, owe, ops>>

\* Mutant: the readers' bit is cleared although only writers are woken up.
check_waiters_both ==
    /\ w_waiting' = FALSE
    /\ r_waiting' = FALSE

\* The waiting bits that a release clears, those of the events it wakes up.
check_waiters ==
    /\ w_waiting' = FALSE
    /\ r_waiting' = (r_waiting /\ w_waiting /\ priv_excl)

\* lck_rw_done_gen: the events to wake up, from the word before the release.
DoneWakes ==
    (IF w_waiting THEN {"WRITER"} ELSE {})
      \cup (IF ~(priv_excl /\ w_waiting) /\ r_waiting THEN {"READER"} ELSE {})

\* lck_rw_done finds out from the word how the lock is held.
lck_rw_done(t) ==
    /\ pc[t] \in {"shared", "done", "done_upgraded"}
    /\ IF shared_count # 0
         THEN /\ shared_count' = shared_count - 1
              /\ UNCHANGED <<want_excl, want_upgrade>>
         ELSE /\ want_upgrade' = FALSE
              /\ want_excl' = (want_excl /\ want_upgrade)
              /\ UNCHANGED shared_count
    /\ IF shared_count > 1
         THEN Wakeup(t, {}, "idle") /\ UNCHANGED <<r_waiting, w_waiting>>
         ELSE check_waiters /\ Wakeup(t, DoneWakes, "idle")
    /\ UNCHANGED <<priv_excl, owner, ops>>

\* Where a thread goes on that is woken up.
Resume(label) ==
    CASE label = "want_sleep" -> "want" [] label = "drain_sleep" -> "drain"
      [] label = "up_sleep" -> "up"     [] label = "sh_sleep" -> "sh"

\* thread_wakeup: writers are woken up before readers.
thread_wakeup(t, event) ==
    /\ pc[t] \in {"wake", "wake_shared"} /\ event \in owe[t]
    /\ event = "READER" => "WRITER" \notin owe[t]
    /\ owe' = [owe EXCEPT ![t] = @ \ {event}]
    /\ pc' = [u \in Threads |->
                IF u \in Sleepers(event) THEN Resume(pc[u])
                ELSE IF u = t /\ owe[t] = {event}
                     THEN IF pc[t] = "wake" THEN "idle" ELSE "shared"
                ELSE pc[u]]
    /\ UNCHANGED <<word, priv_excl, owner, ops>>
-----------------------------------------------------------------------------
\* What a thread does that has asked for the lock or holds it.
step(t) ==
    \/ grab_want(t) \/ want_wait(t) \/ drain(t) \/ drain_wait(t) \/ store_owner(t)
    \/ grab_shared(t) \/ shared_wait(t)
    \/ lck_rw_lock_shared_to_exclusive(t) \/ upgrade(t) \/ upgrade_wait(t)
    \/ clear_owner_to_shared(t) \/ lck_rw_lock_exclusive_to_shared(t)
    \/ clear_owner(t) \/ lck_rw_done(t)
    \/ \E event \in Events : thread_wakeup(t, event)

Next == \E t \in Threads :
    lck_rw_lock_exclusive(t) \/ lck_rw_lock_shared(t) \/ step(t)

Spec == Init /\ [][Next]_vars

\* Threads that are not asleep run, and holders release the lock in the end.
FairSpec == Spec /\ \A t \in Threads : WF_vars(step(t))
-----------------------------------------------------------------------------
(* Properties.                                                             *)

Readers == { t \in Threads : pc[t] \in {"shared", "wake_shared"} }
Writers == { t \in Threads :
    pc[t] \in {"own_excl", "excl", "down", "done",
               "own_upgrade", "upgraded", "down_upgraded", "done_upgraded"} }

\* The lock word, its owner, the threads' places and their privileges have their types.
TypeOK ==
    /\ shared_count \in Nat
    /\ {want_excl, want_upgrade, r_waiting, w_waiting, priv_excl} \subseteq BOOLEAN
    /\ owner \in Threads \cup {NULL}
    /\ pc \in [Threads -> {"idle", "want", "want_sleep", "drain", "drain_sleep",
                            "own_excl", "excl", "down", "done", "up", "up_sleep",
                            "own_upgrade", "upgraded", "down_upgraded",
                            "done_upgraded", "sh", "sh_sleep", "shared", "wake",
                            "wake_shared"}]
    /\ owe \in [Threads -> SUBSET Events]
    /\ ops \in [Threads -> 0..MaxOps]

\* A thread that holds the lock exclusively, by WANT_EXCL or by an upgrade,
\* holds it alone, although one thread can own WANT_EXCL while another owns
\* WANT_UPGRADE and readers are still there; and the count is the readers'.
MutualExclusion ==
    /\ \A t \in Writers : Writers = {t} /\ Readers = {}
    /\ shared_count = Cardinality(Readers)

\* The assertions on lck_rw_owner: nobody is recorded as the owner when the
\* lock is acquired in either mode, and an exclusive holder is when it
\* releases or downgrades the lock.
OwnerExact ==
    owner = IF \E t \in Threads : pc[t] \in {"excl", "upgraded"}
            THEN CHOOSE t \in Threads : pc[t] \in {"excl", "upgraded"} ELSE NULL

\* A thread that sleeps on the lock is announced by its waiting bit, or a
\* releaser already owes it a wakeup: whatever clears the bit wakes it up.
\* "when the read count drops to 0, the writers will be woken".
NoLostWakeup ==
    /\ Sleepers("WRITER") # {} => w_waiting \/ \E t \in Threads : "WRITER" \in owe[t]
    /\ Sleepers("READER") # {} => r_waiting \/ \E t \in Threads : "READER" \in owe[t]

\* Every request ends: the lock is acquired, or the upgrade fails.  Nobody is
\* left asleep on a free lock, and upgrades, writers and readers do not wait
\* for each other in a circle.
RequestEnds ==
    \A t \in Threads :
      pc[t] \in {"want", "want_sleep", "drain", "drain_sleep", "up", "up_sleep", "sh", "sh_sleep"}
        ~> pc[t] \in {"idle", "excl", "upgraded", "shared"}
=============================================================================
