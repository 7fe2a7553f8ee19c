---- MODULE MCThreadCall ----
(***************************************************************************)
(* ThreadCall for TLC, with two clients.  A plain call and a ONCE call that*)
(* threads run and the owner frees, with forced evaluations of the timers; *)
(* a ONCE call and a SIGNAL call that both clients wait for; and a SIGNAL  *)
(* call that nobody waits for and the owner frees.                         *)
(***************************************************************************)
EXTENDS ThreadCall

CONSTANTS c1, c2

Use(opts, waiters, mayfree, rescan) ==
    [opts |-> opts, waiters |-> waiters, mayfree |-> mayfree, rescan |-> rescan]

MCUses ==
    { Use({}, {c1}, TRUE, TRUE),
      Use({"ONCE"}, {c1}, TRUE, TRUE),
      Use({"ONCE"}, {c1, c2}, FALSE, FALSE),
      Use({"ONCE", "SIGNAL"}, {c1, c2}, FALSE, FALSE),
      Use({"ONCE", "SIGNAL"}, {}, TRUE, FALSE) }
====
