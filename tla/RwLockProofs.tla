---------------------------- MODULE RwLockProofs ----------------------------
(***************************************************************************)
(* Proofs for RwLock, for any finite set of threads and any number of      *)
(* requests.                                                               *)
(*                                                                         *)
(* WANT_EXCL and WANT_UPGRADE are each owned by at most one thread, which  *)
(* owns the bit before it holds the lock.  The owner of WANT_EXCL holds    *)
(* the lock only when no upgrade is under way, the owner of WANT_UPGRADE   *)
(* only when no reader is left; HeldInv says that this stays so.           *)
(***************************************************************************)
EXTENDS RwLock, FiniteSetTheorems, TLAPS

\* Where a thread owns WANT_EXCL or WANT_UPGRADE, and where it holds the lock.
HoldsExcl    == {"own_excl", "excl", "down", "done"}
HoldsUpgrade == {"own_upgrade", "upgraded", "down_upgraded", "done_upgraded"}
OwnsExcl     == HoldsExcl \cup {"drain", "drain_sleep"}
OwnsUpgrade  == HoldsUpgrade \cup {"up", "up_sleep"}

\* Each bit has at most one owner.
ExclInv ==
    /\ \A t \in Threads : pc[t] \in OwnsExcl => want_excl
    /\ \A t, u \in Threads : pc[t] \in OwnsExcl /\ pc[u] \in OwnsExcl => t = u

UpgradeInv ==
    /\ \A t \in Threads : pc[t] \in OwnsUpgrade => want_upgrade
    /\ \A t, u \in Threads : pc[t] \in OwnsUpgrade /\ pc[u] \in OwnsUpgrade => t = u

\* What the holder of the lock waited for is still so.
HeldInv ==
    \A t \in Threads :
       /\ pc[t] \in HoldsExcl => shared_count = 0 /\ ~want_upgrade
       /\ pc[t] \in HoldsUpgrade => shared_count = 0

\* lck_rw_owner names the holder between its two stores.
OwnerInv == \A t \in Threads : owner = t <=> pc[t] \in {"excl", "upgraded"}

ReadersInv == shared_count = Cardinality(Readers)

LockInv == TypeOK /\ ExclInv /\ UpgradeInv /\ HeldInv /\ OwnerInv /\ ReadersInv

\* Wakeups are owed only by a thread that is about to post them, and locks
\* without writer privilege are not downgraded.
OweInv ==
    \A t \in Threads :
       /\ owe[t] # {} => pc[t] \in {"wake", "wake_shared"}
       /\ pc[t] \in {"down", "down_upgraded"} => priv_excl
-----------------------------------------------------------------------------
(* The lock.                                                               *)

\* Sets of threads are finite, and grow and shrink by one.
LEMMA ThreadSets ==
    ASSUME NEW S \in SUBSET Threads, NEW t \in Threads
    PROVE  /\ Cardinality(S) \in Nat
           /\ Cardinality(S) = 0 <=> S = {}
           /\ t \notin S => Cardinality(S \cup {t}) = Cardinality(S) + 1
           /\ t \in S => Cardinality(S \ {t}) = Cardinality(S) - 1
<1>1. IsFiniteSet(S)
  BY FS_Subset, RwAssumption
<1> QED
  BY <1>1, FS_CardinalityType, FS_EmptySet, FS_AddElement, FS_RemoveElement

\* lck_rw_init.
LEMMA LockInvInit == Init => LockInv
<1> SUFFICES ASSUME Init PROVE LockInv
  OBVIOUS
<1>1. TypeOK
  <2>1. priv_excl \in BOOLEAN
    BY RwAssumption DEF Init
  <2>2. {want_excl, want_upgrade, r_waiting, w_waiting, priv_excl} \subseteq BOOLEAN
    BY <2>1, Zenon DEF Init
  <2>3. 0 \in 0 .. MaxOps
    BY RwAssumption
  <2> QED
    BY <2>2, <2>3 DEF Init, TypeOK, Events
<1>2. ExclInv /\ UpgradeInv /\ HeldInv /\ OwnerInv
  BY RwAssumption DEF Init, ExclInv, UpgradeInv, HeldInv, OwnerInv, OwnsExcl, OwnsUpgrade,
     HoldsExcl, HoldsUpgrade
<1>3. Readers = {}
  BY DEF Init, Readers
<1>4. ReadersInv
  BY <1>3, FS_EmptySet DEF Init, ReadersInv
<1> QED
  BY <1>1, <1>2, <1>4 DEF LockInv

\* A thread that moves, neither being nor becoming a reader, leaves the readers
\* alone; the two other moves of a reader.
LEMMA ReadersMove ==
    ASSUME TypeOK, ReadersInv, NEW t \in Threads, NEW label, Goto(t, label)
    PROVE  /\ Cardinality(Readers) \in Nat /\ Cardinality(Readers') \in Nat
           /\ t \in Readers <=> pc[t] \in {"shared", "wake_shared"}
           /\ t \in Readers => shared_count > 0
           /\ t \in Readers /\ label \in {"shared", "wake_shared"} => Readers' = Readers
           /\ t \notin Readers /\ label \notin {"shared", "wake_shared"} => Readers' = Readers
           /\ t \notin Readers /\ label \in {"shared", "wake_shared"}
                 => Cardinality(Readers') = Cardinality(Readers) + 1
           /\ t \in Readers /\ label \notin {"shared", "wake_shared"}
                 => Cardinality(Readers') = Cardinality(Readers) - 1
<1>1. Readers \in SUBSET Threads /\ Readers' \in SUBSET Threads
  BY DEF Readers
<1>2. t \in Readers <=> pc[t] \in {"shared", "wake_shared"}
  BY DEF Readers
<1>3. label \in {"shared", "wake_shared"} => Readers' = Readers \cup {t}
  BY DEF Readers, Goto, TypeOK
<1>4. label \notin {"shared", "wake_shared"} => Readers' = Readers \ {t}
  BY DEF Readers, Goto, TypeOK
<1>5. t \in Readers => shared_count > 0
  <2>1. Cardinality(Readers) \in Nat /\ (Cardinality(Readers) = 0 <=> Readers = {})
    BY <1>1, ThreadSets
  <2> QED
    BY <2>1 DEF ReadersInv
<1> QED
  BY <1>1, <1>2, <1>3, <1>4, <1>5, ThreadSets

\* Every exchange of the word, every store of the owner and every wakeup.
LEMMA LockInvStep == LockInv /\ [Next]_vars => LockInv'
<1> SUFFICES ASSUME LockInv, [Next]_vars PROVE LockInv'
  OBVIOUS
<1> USE RwAssumption DEF LockInv, TypeOK, ExclInv, UpgradeInv, HeldInv, OwnerInv, OwnsExcl, OwnsUpgrade,
        HoldsExcl, HoldsUpgrade
<1>1. ASSUME NEW t \in Threads, lck_rw_lock_exclusive(t) PROVE LockInv'
  <2>1. ops' \in [Threads -> 0 .. MaxOps]
    BY <1>1 DEF lck_rw_lock_exclusive, Request
  <2>2. TypeOK'
    BY <1>1, <2>1 DEF lck_rw_lock_exclusive, Goto
  <2>3. ExclInv' /\ UpgradeInv' /\ HeldInv' /\ OwnerInv'
    BY <1>1 DEF lck_rw_lock_exclusive, Request, Goto
  <2>4. PICK label \in {"own_excl", "want"} : Goto(t, label)
    BY <1>1 DEF lck_rw_lock_exclusive
  <2>5. ReadersInv'
    BY <1>1, <2>4, ReadersMove DEF lck_rw_lock_exclusive, Request, ReadersInv
  <2> QED
    BY <2>2, <2>3, <2>5
<1>2. ASSUME NEW t \in Threads, grab_want(t) PROVE LockInv'
  <2>1. TypeOK' /\ ExclInv' /\ UpgradeInv' /\ HeldInv' /\ OwnerInv'
    BY <1>2 DEF grab_want, Goto
  <2>2. ReadersInv'
    BY <1>2, ReadersMove DEF grab_want, ReadersInv
  <2> QED
    BY <2>1, <2>2
<1>3. ASSUME NEW t \in Threads, want_wait(t) PROVE LockInv'
  <2>1. TypeOK' /\ ExclInv' /\ UpgradeInv' /\ HeldInv' /\ OwnerInv'
    BY <1>3 DEF want_wait, Goto
  <2>2. ReadersInv'
    BY <1>3, ReadersMove DEF want_wait, ReadersInv
  <2> QED
    BY <2>1, <2>2
<1>4. ASSUME NEW t \in Threads, drain(t) PROVE LockInv'
  <2>1. TypeOK' /\ ExclInv' /\ UpgradeInv' /\ HeldInv' /\ OwnerInv'
    BY <1>4 DEF drain, Drained, Goto, word
  <2>2. ReadersInv'
    BY <1>4, ReadersMove DEF drain, ReadersInv, word
  <2> QED
    BY <2>1, <2>2
<1>5. ASSUME NEW t \in Threads, drain_wait(t) PROVE LockInv'
  <2>1. TypeOK' /\ ExclInv' /\ UpgradeInv' /\ HeldInv' /\ OwnerInv'
    BY <1>5 DEF drain_wait, Goto
  <2>2. ReadersInv'
    BY <1>5, ReadersMove DEF drain_wait, ReadersInv
  <2> QED
    BY <2>1, <2>2
<1>6. ASSUME NEW t \in Threads, store_owner(t) PROVE LockInv'
  <2>1. TypeOK'
    BY <1>6 DEF store_owner, Goto, word
  <2>2. ExclInv' /\ UpgradeInv' /\ HeldInv' /\ OwnerInv'
    BY <1>6 DEF store_owner, Goto, word
  <2>3. ReadersInv'
    BY <1>6, ReadersMove DEF store_owner, ReadersInv, word
  <2> QED
    BY <2>1, <2>2, <2>3
<1>7. ASSUME NEW t \in Threads, lck_rw_lock_shared(t) PROVE LockInv'
  <2>1. ops' \in [Threads -> 0 .. MaxOps]
    BY <1>7 DEF lck_rw_lock_shared, Request
  <2>2. TypeOK'
    BY <1>7, <2>1 DEF lck_rw_lock_shared, Goto
  <2>3. ExclInv' /\ UpgradeInv' /\ HeldInv' /\ OwnerInv'
    BY <1>7 DEF lck_rw_lock_shared, Request, Goto
  <2>4. ReadersInv'
    BY <1>7, ReadersMove DEF lck_rw_lock_shared, Request, ReadersInv
  <2> QED
    BY <2>2, <2>3, <2>4
<1>8. ASSUME NEW t \in Threads, grab_shared(t) PROVE LockInv'
  <2>1. TypeOK' /\ ExclInv' /\ UpgradeInv' /\ HeldInv' /\ OwnerInv'
    BY <1>8 DEF grab_shared, SharedMayEnter, Goto
  <2>2. ReadersInv'
    BY <1>8, ReadersMove DEF grab_shared, ReadersInv
  <2> QED
    BY <2>1, <2>2
<1>9. ASSUME NEW t \in Threads, shared_wait(t) PROVE LockInv'
  <2>1. TypeOK' /\ ExclInv' /\ UpgradeInv' /\ HeldInv' /\ OwnerInv'
    BY <1>9 DEF shared_wait, Goto
  <2>2. ReadersInv'
    BY <1>9, ReadersMove DEF shared_wait, ReadersInv
  <2> QED
    BY <2>1, <2>2
<1>10. ASSUME NEW t \in Threads, lck_rw_lock_shared_to_exclusive(t) PROVE LockInv'
  <2>0. /\ pc[t] = "shared" /\ ops' \in [Threads -> 0 .. MaxOps]
        /\ shared_count > 0 /\ shared_count' = shared_count - 1
        /\ UNCHANGED <<want_excl, r_waiting, priv_excl, owner>>
    <3>1. PICK label : Goto(t, label)
      BY <1>10 DEF lck_rw_lock_shared_to_exclusive, Wakeup
    <3> QED
      BY <1>10, <3>1, ReadersMove DEF lck_rw_lock_shared_to_exclusive, Request
  <2>1. CASE want_upgrade
    <3>1. PICK label \in {"idle", "wake"} : Goto(t, label)
      BY <1>10, <2>1 DEF lck_rw_lock_shared_to_exclusive, Wakeup
    <3>2. /\ w_waiting' \in BOOLEAN /\ want_upgrade' = want_upgrade
          /\ owe' \in [Threads -> SUBSET Events]
      BY <1>10, <2>1 DEF lck_rw_lock_shared_to_exclusive, Wakeup, FailureWakes, Events
    <3>3. TypeOK'
      <4>1. {want_excl, want_upgrade, r_waiting, w_waiting, priv_excl}' \subseteq BOOLEAN
        BY <2>0, <3>2, Zenon
      <4>2. shared_count' \in Nat
        BY <2>0
      <4>3. TypeOK!4'
        BY <2>0, <3>1, <3>2 DEF Goto
      <4> QED
        BY <2>0, <3>1, <3>2, <4>1, <4>2, <4>3, Zenon
    <3>4. ExclInv' /\ UpgradeInv' /\ HeldInv' /\ OwnerInv'
      BY <2>0, <3>1, <3>2 DEF Goto
    <3>5. ReadersInv'
      BY <2>0, <3>1, ReadersMove DEF ReadersInv
    <3> QED
      BY <3>3, <3>4, <3>5
  <2>2. CASE ~want_upgrade
    <3>1. /\ want_upgrade' = TRUE
          /\ Goto(t, IF shared_count = 1 THEN "own_upgrade" ELSE "up")
          /\ UNCHANGED <<w_waiting, owe>>
      BY <1>10, <2>2 DEF lck_rw_lock_shared_to_exclusive
    <3>2. TypeOK'
      BY <2>0, <3>1 DEF Goto
    <3>3. ExclInv' /\ UpgradeInv' /\ HeldInv' /\ OwnerInv'
      BY <2>0, <2>2, <3>1 DEF Goto
    <3>4. ReadersInv'
      BY <2>0, <3>1, ReadersMove DEF ReadersInv
    <3> QED
      BY <3>2, <3>3, <3>4
  <2> QED
    BY <2>1, <2>2
<1>11. ASSUME NEW t \in Threads, upgrade(t) PROVE LockInv'
  <2>1. TypeOK' /\ ExclInv' /\ UpgradeInv' /\ HeldInv' /\ OwnerInv'
    BY <1>11 DEF upgrade, Goto, word
  <2>2. ReadersInv'
    <3>1. Goto(t, "own_upgrade") /\ t \notin Readers /\ UNCHANGED shared_count
      BY <1>11 DEF upgrade, Readers, word
    <3> QED
      BY <3>1, ReadersMove DEF ReadersInv
  <2> QED
    BY <2>1, <2>2
<1>12. ASSUME NEW t \in Threads, upgrade_wait(t) PROVE LockInv'
  <2>1. TypeOK' /\ ExclInv' /\ UpgradeInv' /\ HeldInv' /\ OwnerInv'
    BY <1>12 DEF upgrade_wait, Goto
  <2>2. ReadersInv'
    BY <1>12, ReadersMove DEF upgrade_wait, ReadersInv
  <2> QED
    BY <2>1, <2>2
<1>13. ASSUME NEW t \in Threads, clear_owner_to_shared(t) PROVE LockInv'
  <2>1. TypeOK'
    BY <1>13 DEF clear_owner_to_shared, Goto, word
  <2>2. ExclInv' /\ UpgradeInv' /\ HeldInv' /\ OwnerInv'
    BY <1>13 DEF clear_owner_to_shared, Goto, word
  <2>3. ReadersInv'
    BY <1>13, ReadersMove DEF clear_owner_to_shared, ReadersInv, word
  <2> QED
    BY <2>1, <2>2, <2>3
<1>14. ASSUME NEW t \in Threads, lck_rw_lock_exclusive_to_shared(t) PROVE LockInv'
  <2>1. PICK label \in {"shared", "wake_shared"} : Goto(t, label)
    BY <1>14 DEF lck_rw_lock_exclusive_to_shared, Wakeup
  <2>2. w_waiting' \in BOOLEAN /\ want_excl' \in BOOLEAN /\ owe' \in [Threads -> SUBSET Events]
    BY <1>14 DEF lck_rw_lock_exclusive_to_shared, Wakeup, Events
  <2>3. TypeOK'
    <3>1. /\ want_upgrade' = FALSE /\ shared_count' = shared_count + 1
          /\ UNCHANGED <<r_waiting, priv_excl, owner, ops>>
      BY <1>14 DEF lck_rw_lock_exclusive_to_shared
    <3>2. {want_excl, want_upgrade, r_waiting, w_waiting, priv_excl}' \subseteq BOOLEAN
      BY <2>2, <3>1, Zenon
    <3>3. shared_count' \in Nat
      BY <2>1, <2>2, <3>1
    <3>4. TypeOK!4'
      BY <2>1, <2>2, <3>1 DEF Goto
    <3> QED
      BY <2>1, <2>2, <3>1, <3>2, <3>3, <3>4, Zenon
  <2>4. ExclInv' /\ UpgradeInv' /\ HeldInv' /\ OwnerInv'
    BY <1>14, <2>1 DEF lck_rw_lock_exclusive_to_shared, Goto
  <2>5. ReadersInv'
    BY <1>14, <2>1, ReadersMove DEF lck_rw_lock_exclusive_to_shared, ReadersInv
  <2> QED
    BY <2>3, <2>4, <2>5
<1>15. ASSUME NEW t \in Threads, clear_owner(t) PROVE LockInv'
  <2>1. TypeOK'
    BY <1>15 DEF clear_owner, Goto, word
  <2>2. ExclInv' /\ UpgradeInv' /\ HeldInv' /\ OwnerInv'
    BY <1>15 DEF clear_owner, Goto, word
  <2>3. ReadersInv'
    BY <1>15, ReadersMove DEF clear_owner, ReadersInv, word
  <2> QED
    BY <2>1, <2>2, <2>3
<1>16. ASSUME NEW t \in Threads, lck_rw_done(t) PROVE LockInv'
  <2>1. PICK label \in {"idle", "wake"} : Goto(t, label)
    BY <1>16 DEF lck_rw_done, Wakeup
  <2>2. /\ w_waiting' \in BOOLEAN /\ r_waiting' \in BOOLEAN
        /\ owe' \in [Threads -> SUBSET Events]
    <3>1. CASE shared_count > 1
      BY <1>16, <3>1 DEF lck_rw_done, Wakeup
    <3>2. CASE ~(shared_count > 1)
      <4>1. check_waiters /\ owe' = [owe EXCEPT ![t] = DoneWakes]
        BY <1>16, <3>2 DEF lck_rw_done, Wakeup
      <4>2. DoneWakes \in SUBSET Events
        BY DEF DoneWakes, Events
      <4>3. w_waiting' \in BOOLEAN /\ r_waiting' \in BOOLEAN
        BY <4>1, Zenon DEF check_waiters
      <4> QED
        BY <4>1, <4>2, <4>3
    <3> QED
      BY <3>1, <3>2
  <2>3. pc[t] \in {"shared", "done", "done_upgraded"} /\ UNCHANGED <<priv_excl, owner, ops>>
    BY <1>16 DEF lck_rw_done
  <2>4. CASE pc[t] = "shared"
    <3>1. /\ shared_count > 0 /\ shared_count' = shared_count - 1
          /\ UNCHANGED <<want_excl, want_upgrade>>
      BY <1>16, <2>1, <2>4, ReadersMove DEF lck_rw_done
    <3>2. TypeOK'
      <4>1. {want_excl, want_upgrade, r_waiting, w_waiting, priv_excl}' \subseteq BOOLEAN
        BY <2>2, <2>3, <3>1, Zenon
      <4>2. shared_count' \in Nat
        BY <2>1, <2>2, <2>3, <3>1
      <4>3. TypeOK!4'
        BY <2>1, <2>2, <2>3, <3>1 DEF Goto
      <4> QED
        BY <2>1, <2>2, <2>3, <3>1, <4>1, <4>2, <4>3, Zenon
    <3>3. ExclInv' /\ UpgradeInv' /\ HeldInv' /\ OwnerInv'
      BY <2>1, <2>3, <2>4, <3>1 DEF Goto
    <3>4. ReadersInv'
      BY <2>1, <2>4, <3>1, ReadersMove DEF ReadersInv
    <3> QED
      BY <3>2, <3>3, <3>4
  <2>5. CASE pc[t] \in {"done", "done_upgraded"}
    <3>1. /\ want_upgrade' = FALSE /\ want_excl' = (want_excl /\ want_upgrade)
          /\ UNCHANGED shared_count
      BY <1>16, <2>5 DEF lck_rw_done
    <3>2. want_excl' \in BOOLEAN
      BY <3>1
    <3>3. TypeOK'
      BY <2>1, <2>2, <2>3, <3>1, <3>2 DEF Goto
    <3>4. ExclInv' /\ UpgradeInv' /\ HeldInv' /\ OwnerInv'
      BY <2>1, <2>3, <2>5, <3>1 DEF Goto
    <3>5. ReadersInv'
      BY <2>1, <2>5, <3>1, ReadersMove DEF ReadersInv
    <3> QED
      BY <3>3, <3>4, <3>5
  <2> QED
    BY <2>3, <2>4, <2>5
<1>17. ASSUME NEW t \in Threads, NEW event \in Events, thread_wakeup(t, event) PROVE LockInv'
  <2>1. \A u \in Threads : \/ pc'[u] = pc[u]
                           \/ pc[u] = "want_sleep" /\ pc'[u] = "want"
                           \/ pc[u] = "drain_sleep" /\ pc'[u] = "drain"
                           \/ pc[u] = "up_sleep" /\ pc'[u] = "up"
                           \/ pc[u] = "sh_sleep" /\ pc'[u] = "sh"
                           \/ pc[u] = "wake" /\ pc'[u] = "idle"
                           \/ pc[u] = "wake_shared" /\ pc'[u] = "shared"
    BY <1>17 DEF thread_wakeup, Sleepers, Resume
  <2>2. pc' = [u \in Threads |-> pc'[u]]
    BY <1>17 DEF thread_wakeup
  <2>3. /\ UNCHANGED <<shared_count, want_excl, want_upgrade, r_waiting, w_waiting,
                       priv_excl, owner, ops>>
        /\ owe' \in [Threads -> SUBSET Events]
    BY <1>17 DEF thread_wakeup, word
  <2>4. TypeOK'
    BY <2>1, <2>2, <2>3
  <2>5. ExclInv' /\ UpgradeInv' /\ HeldInv' /\ OwnerInv'
    BY <2>1, <2>3
  <2>6. Readers' = Readers
    BY <2>1 DEF Readers
  <2> QED
    BY <2>3, <2>4, <2>5, <2>6 DEF ReadersInv
<1>18. CASE UNCHANGED vars
  BY <1>18 DEF vars, ReadersInv, Readers
<1> QED
  BY <1>1, <1>2, <1>3, <1>4, <1>5, <1>6, <1>7, <1>8, <1>9, <1>10, <1>11, <1>12, <1>13,
     <1>14, <1>15, <1>16, <1>17, <1>18
  DEF Next, step

\* LockInv holds in every reachable state.
LEMMA LockInvariant == Spec => []LockInv
<1> QED
  BY LockInvInit, LockInvStep, PTL DEF Spec

\* The lock word, the owner, the threads' places and the wakeups they owe keep
\* their types; in particular a release never takes the reader count below zero.
THEOREM RwTypeCorrect == Spec => []TypeOK
<1>1. LockInv => TypeOK
  BY DEF LockInv
<1> QED
  BY <1>1, LockInvariant, PTL

\* A thread that holds the lock exclusively, through WANT_EXCL or through an
\* upgrade, is the only holder, and the count in the word is the number of
\* readers.
THEOREM RwMutualExclusion == Spec => []MutualExclusion
<1>1. LockInv => MutualExclusion
  <2> SUFFICES ASSUME LockInv PROVE MutualExclusion
    OBVIOUS
  <2>1. ASSUME NEW t \in Writers PROVE Readers = {}
    <3>1. shared_count = 0
      BY DEF LockInv, HeldInv, Writers, HoldsExcl, HoldsUpgrade
    <3>2. Readers \in SUBSET Threads /\ t \in Threads
      BY DEF Readers, Writers
    <3> QED
      BY <3>1, <3>2, ThreadSets DEF LockInv, ReadersInv
  <2>2. ASSUME NEW t \in Writers, NEW u \in Writers PROVE t = u
    <3>1. t \in Threads /\ pc[t] \in HoldsExcl \cup HoldsUpgrade
      BY DEF Writers, HoldsExcl, HoldsUpgrade
    <3>2. u \in Threads /\ pc[u] \in HoldsExcl \cup HoldsUpgrade
      BY DEF Writers, HoldsExcl, HoldsUpgrade
    <3> QED
      BY <3>1, <3>2, Zenon DEF LockInv, ExclInv, UpgradeInv, HeldInv, OwnsExcl, OwnsUpgrade
  <2> QED
    BY <2>1, <2>2 DEF MutualExclusion, LockInv, ReadersInv
<1> QED
  BY <1>1, LockInvariant, PTL

\* lck_rw_owner names the thread that holds the lock exclusively, from its store
\* after the acquisition to its store before the release, and nobody otherwise.
THEOREM RwOwnerExact == Spec => []OwnerExact
<1>1. LockInv => OwnerExact
  <2> SUFFICES ASSUME LockInv PROVE OwnerExact
    OBVIOUS
  <2> DEFINE Named(t) == pc[t] \in {"excl", "upgraded"}
  <2>1. \A t \in Threads : owner = t <=> Named(t)
    BY DEF LockInv, OwnerInv
  <2>2. owner \in Threads \cup {NULL}
    BY DEF LockInv, TypeOK
  <2> HIDE DEF Named
  <2>3. owner = IF \E t \in Threads : Named(t) THEN CHOOSE t \in Threads : Named(t) ELSE NULL
    BY <2>1, <2>2, Zenon
  <2> QED
    BY <2>3 DEF OwnerExact, Named
<1> QED
  BY <1>1, LockInvariant, PTL
-----------------------------------------------------------------------------
(* Wakeups.                                                                *)

WakeInv == OweInv /\ NoLostWakeup

\* A step that moves one thread without clearing a waiting bit.
LEMMA WakeMove ==
    ASSUME TypeOK, WakeInv, NEW t \in Threads, NEW label, Goto(t, label),
           pc[t] \notin {"wake", "wake_shared"},
           UNCHANGED <<owe, priv_excl>>,
           w_waiting => w_waiting', r_waiting => r_waiting',
           label \in {"want_sleep", "drain_sleep", "up_sleep"} => w_waiting',
           label = "sh_sleep" => r_waiting',
           label \in {"down", "down_upgraded"} => priv_excl
    PROVE  WakeInv'
<1>1. OweInv'
  BY DEF TypeOK, WakeInv, OweInv, Goto
<1>2. NoLostWakeup'
  BY DEF TypeOK, WakeInv, NoLostWakeup, Sleepers, Goto
<1> QED
  BY <1>1, <1>2 DEF WakeInv

\* A step that clears a waiting bit owes that event's wakeup.
LEMMA WakeOwed ==
    ASSUME TypeOK, WakeInv, NEW t \in Threads, NEW events, NEW label \in {"idle", "shared"},
           Wakeup(t, events, label),
           pc[t] \notin {"wake", "wake_shared"},
           UNCHANGED priv_excl,
           w_waiting => w_waiting' \/ "WRITER" \in events,
           r_waiting => r_waiting' \/ "READER" \in events
    PROVE  WakeInv'
<1>1. PICK l \in {"idle", "shared", "wake", "wake_shared"} : Goto(t, l)
  BY DEF Wakeup
<1>2. events # {} => Goto(t, "wake") \/ Goto(t, "wake_shared")
  BY DEF Wakeup
<1>3. owe[t] = {} /\ owe' = [owe EXCEPT ![t] = events]
  BY DEF WakeInv, OweInv, Wakeup
<1>4. OweInv'
  BY <1>1, <1>2, <1>3 DEF TypeOK, WakeInv, OweInv, Goto
<1>5. \A event : (\E u \in Threads : event \in owe[u]) => \E u \in Threads : event \in owe'[u]
  BY <1>3 DEF TypeOK
<1>6. owe'[t] = events
  BY <1>3 DEF TypeOK
<1>7. \A event \in Events : Sleepers(event)' \subseteq Sleepers(event)
  BY <1>1 DEF TypeOK, Sleepers, Goto, Events
<1>8. Sleepers("WRITER")' # {} => w_waiting' \/ \E u \in Threads : "WRITER" \in owe'[u]
  BY <1>5, <1>6, <1>7 DEF WakeInv, NoLostWakeup, Events
<1>9. Sleepers("READER")' # {} => r_waiting' \/ \E u \in Threads : "READER" \in owe'[u]
  BY <1>5, <1>6, <1>7 DEF WakeInv, NoLostWakeup, Events
<1> QED
  BY <1>4, <1>8, <1>9 DEF WakeInv, NoLostWakeup

\* Every step, when only locks whose writers have privilege are downgraded.
LEMMA WakeInvStep ==
    ASSUME FALSE \notin Downgrade, LockInv, WakeInv, [Next]_vars
    PROVE  WakeInv'
<1>0. TypeOK
  BY DEF LockInv
<1>1. ASSUME NEW t \in Threads, lck_rw_lock_exclusive(t) PROVE WakeInv'
  BY <1>0, <1>1, WakeMove DEF lck_rw_lock_exclusive, Request
<1>2. ASSUME NEW t \in Threads, grab_want(t) PROVE WakeInv'
  BY <1>0, <1>2, WakeMove DEF grab_want
<1>3. ASSUME NEW t \in Threads, want_wait(t) PROVE WakeInv'
  BY <1>0, <1>3, WakeMove DEF want_wait
<1>4. ASSUME NEW t \in Threads, drain(t) PROVE WakeInv'
  BY <1>0, <1>4, WakeMove DEF drain, word
<1>5. ASSUME NEW t \in Threads, drain_wait(t) PROVE WakeInv'
  BY <1>0, <1>5, WakeMove DEF drain_wait
<1>6. ASSUME NEW t \in Threads, store_owner(t) PROVE WakeInv'
  BY <1>0, <1>6, WakeMove DEF store_owner, word
<1>7. ASSUME NEW t \in Threads, lck_rw_lock_shared(t) PROVE WakeInv'
  BY <1>0, <1>7, WakeMove DEF lck_rw_lock_shared, Request
<1>8. ASSUME NEW t \in Threads, grab_shared(t) PROVE WakeInv'
  BY <1>0, <1>8, WakeMove DEF grab_shared
<1>9. ASSUME NEW t \in Threads, shared_wait(t) PROVE WakeInv'
  BY <1>0, <1>9, WakeMove DEF shared_wait
<1>10. ASSUME NEW t \in Threads, lck_rw_lock_shared_to_exclusive(t) PROVE WakeInv'
  <2>1. pc[t] = "shared" /\ UNCHANGED <<r_waiting, priv_excl>>
    BY <1>10 DEF lck_rw_lock_shared_to_exclusive, Request
  <2>2. CASE want_upgrade
    <3>1. w_waiting' = (w_waiting /\ shared_count # 1) /\ Wakeup(t, FailureWakes, "idle")
      BY <1>10, <2>2 DEF lck_rw_lock_shared_to_exclusive
    <3>2. w_waiting => w_waiting' \/ "WRITER" \in FailureWakes
      BY <3>1 DEF FailureWakes
    <3> QED
      BY <1>0, <2>1, <3>1, <3>2, WakeOwed
  <2>3. CASE ~want_upgrade
    <3>1. PICK label \in {"own_upgrade", "up"} : Goto(t, label)
      BY <1>10, <2>3 DEF lck_rw_lock_shared_to_exclusive
    <3>2. UNCHANGED <<w_waiting, owe>>
      BY <1>10, <2>3 DEF lck_rw_lock_shared_to_exclusive
    <3> QED
      BY <1>0, <2>1, <3>1, <3>2, WakeMove
  <2> QED
    BY <2>2, <2>3
<1>11. ASSUME NEW t \in Threads, upgrade(t) PROVE WakeInv'
  BY <1>0, <1>11, WakeMove DEF upgrade, word
<1>12. ASSUME NEW t \in Threads, upgrade_wait(t) PROVE WakeInv'
  BY <1>0, <1>12, WakeMove DEF upgrade_wait
<1>13. ASSUME NEW t \in Threads, clear_owner_to_shared(t) PROVE WakeInv'
  <2>1. priv_excl
    BY <1>0, <1>13 DEF clear_owner_to_shared, TypeOK
  <2> QED
    BY <1>0, <1>13, <2>1, WakeMove DEF clear_owner_to_shared, word
<1>14. ASSUME NEW t \in Threads, lck_rw_lock_exclusive_to_shared(t) PROVE WakeInv'
  <2>1. priv_excl /\ pc[t] \notin {"wake", "wake_shared"}
    BY <1>14 DEF lck_rw_lock_exclusive_to_shared, WakeInv, OweInv
  <2>2. UNCHANGED <<r_waiting, priv_excl>> /\ w_waiting' = (w_waiting /\ priv_excl)
    BY <1>14 DEF lck_rw_lock_exclusive_to_shared
  <2>3. w_waiting => w_waiting'
    BY <2>1, <2>2
  <2>4. PICK events : Wakeup(t, events, "shared")
    BY <1>14 DEF lck_rw_lock_exclusive_to_shared
  <2> QED
    BY <1>0, <2>1, <2>2, <2>3, <2>4, WakeOwed
<1>15. ASSUME NEW t \in Threads, clear_owner(t) PROVE WakeInv'
  BY <1>0, <1>15, WakeMove DEF clear_owner, word
<1>16. ASSUME NEW t \in Threads, lck_rw_done(t) PROVE WakeInv'
  <2>1. CASE shared_count > 1
    BY <1>0, <1>16, <2>1, WakeOwed DEF lck_rw_done
  <2>2. CASE ~(shared_count > 1)
    <3>1. check_waiters /\ Wakeup(t, DoneWakes, "idle") /\ UNCHANGED priv_excl
      BY <1>16, <2>2 DEF lck_rw_done
    <3>2. w_waiting => "WRITER" \in DoneWakes
      BY DEF DoneWakes
    <3>3. r_waiting => r_waiting' \/ "READER" \in DoneWakes
      BY <3>1 DEF check_waiters, DoneWakes
    <3>4. pc[t] \notin {"wake", "wake_shared"}
      BY <1>16 DEF lck_rw_done
    <3> QED
      BY <1>0, <3>1, <3>2, <3>3, <3>4, WakeOwed
  <2> QED
    BY <2>1, <2>2
<1>17. ASSUME NEW t \in Threads, NEW event \in Events, thread_wakeup(t, event) PROVE WakeInv'
  <2>1. /\ pc[t] \in {"wake", "wake_shared"} /\ owe' = [owe EXCEPT ![t] = @ \ {event}]
        /\ UNCHANGED <<r_waiting, w_waiting, priv_excl>>
    BY <1>17 DEF thread_wakeup, word
  <2>2. \A u \in Threads :
           /\ pc[u] \in {"wake", "wake_shared"} /\ (u = t => owe[t] # {event}) => pc'[u] = pc[u]
           /\ pc'[u] = pc[u] \/ pc'[u] \in {"want", "drain", "up", "sh", "idle", "shared"}
    BY <1>17 DEF thread_wakeup, Sleepers, Resume
  <2>3. \A u \in Threads : owe'[u] = IF u = t THEN owe[t] \ {event} ELSE owe[u]
    BY <1>0, <2>1 DEF TypeOK
  <2>4. OweInv'
    BY <2>1, <2>2, <2>3 DEF WakeInv, OweInv
  <2>5. Sleepers(event)' = {}
    BY <1>17 DEF thread_wakeup, Sleepers, Resume, Events
  <2>6. \A e \in Events : Sleepers(e)' \subseteq Sleepers(e)
    BY <2>2 DEF Sleepers, Events
  <2>7. \A e \in Events \ {event} :
           (\E u \in Threads : e \in owe[u]) => \E u \in Threads : e \in owe'[u]
    BY <2>3
  <2>8. NoLostWakeup'
    BY <2>1, <2>5, <2>6, <2>7 DEF WakeInv, NoLostWakeup, Events
  <2> QED
    BY <2>4, <2>8 DEF WakeInv
<1>18. CASE UNCHANGED vars
  BY <1>18 DEF vars, WakeInv, OweInv, NoLostWakeup, Sleepers
<1> QED
  BY <1>1, <1>2, <1>3, <1>4, <1>5, <1>6, <1>7, <1>8, <1>9, <1>10, <1>11, <1>12, <1>13,
     <1>14, <1>15, <1>16, <1>17, <1>18
  DEF Next, step

\* A sleeper is announced by its waiting bit, or its wakeup is owed by a thread
\* on its way to thread_wakeup, when locks without writer privilege are not
\* downgraded.  lck_rw_lock_exclusive_to_shared of such a lock clears W_WAITING
\* and wakes up readers alone, which the run RwLock_downgrade shows.
THEOREM RwNoLostWakeup ==
    ASSUME FALSE \notin Downgrade
    PROVE  Spec => []NoLostWakeup
<1>1. Init => WakeInv
  BY DEF Init, WakeInv, OweInv, NoLostWakeup, Sleepers
<1>2. LockInv /\ WakeInv /\ [Next]_vars => WakeInv'
  BY WakeInvStep
<1>3. WakeInv => NoLostWakeup
  BY DEF WakeInv
<1> QED
  BY <1>1, <1>2, <1>3, LockInvariant, PTL DEF Spec
=============================================================================
