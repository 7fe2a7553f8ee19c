------------------------------ MODULE LockTable ------------------------------
(***************************************************************************)
(* What advisory record locking promises (bsd/kern/kern_lockf.c): for      *)
(* every owner and every byte of a file, whether the owner has a read      *)
(* lock, a write lock or none.  A thread gets what it asked for, on the    *)
(* whole range at once, in the place of what its owner had there, and only *)
(* when no lock of another owner conflicts; or its request fails.  Lockf   *)
(* implements this with a list of ranges.                                  *)
(***************************************************************************)
CONSTANTS Threads, Owners, Files, Bytes,
          Ranges,   \* the sets of bytes that a request can name
          None

VARIABLES held,     \* held[v][o][b]: "N", "R" or "W"
          want      \* want[t]: what t asks for, or None

vars == <<held, want>>

Requests == [v : Files, o : Owners, range : Ranges, type : {"R", "W"}]

Init ==
    /\ held = [v \in Files |-> [o \in Owners |-> [b \in Bytes |-> "N"]]]
    /\ want = [t \in Threads |-> None]

\* No other owner's locks conflict with this request.
Free(r) ==
    \A p \in Owners \ {r.o} : \A b \in r.range \cap Bytes :
        held[r.v][p][b] = "N" \/ (held[r.v][p][b] = "R" /\ r.type = "R")

\* The table with a range of an owner set to a type.
Put(v, o, range, type) ==
    [held EXCEPT ![v][o] = [b \in Bytes |-> IF b \in range THEN type ELSE @[b]]]

\* An owner unlocks a range.
Clear ==
    /\ UNCHANGED want
    /\ held' \in { Put(v, o, range, "N") : v \in Files, o \in Owners, range \in Ranges }

\* A thread asks for a lock, ...
Ask(t) ==
    /\ want[t] = None
    /\ want'[t] \in Requests
    /\ want' = [want EXCEPT ![t] = want'[t]]
    /\ UNCHANGED held

\* ... gets it, ...
Set(t) ==
    /\ want[t] # None
    /\ want' = [want EXCEPT ![t] = None]
    /\ Free(want[t])
    /\ held' = Put(want[t].v, want[t].o, want[t].range, want[t].type)

\* ... fails, ...
Fail(t) ==
    /\ want[t] # None
    /\ want' = [want EXCEPT ![t] = None]
    /\ UNCHANGED held

\* ... or gives up what its owner has before it waits (flock only).
Yield(t) ==
    /\ want[t] # None /\ want[t].type = "W"
    /\ UNCHANGED want
    /\ held' = Put(want[t].v, want[t].o, want[t].range, "N")

Next ==
    \/ Clear
    \/ \E t \in Threads : Ask(t) \/ Set(t) \/ Fail(t) \/ Yield(t)

Spec == Init /\ [][Next]_vars
-----------------------------------------------------------------------------
\* Each byte of a file has at most the locks of the owners, and requests are well formed.
TypeOK ==
    /\ held \in [Files -> [Owners -> [Bytes -> {"N", "R", "W"}]]]
    /\ want \in [Threads -> Requests \cup {None}]

\* A byte that one owner has locked for writing is locked by nobody else.
NoConflict ==
    \A v \in Files : \A o, p \in Owners : \A b \in Bytes :
        o # p /\ held[v][o][b] = "W" => held[v][p][b] = "N"
=============================================================================
