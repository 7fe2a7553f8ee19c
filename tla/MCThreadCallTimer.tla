------------------------- MODULE MCThreadCallTimer -------------------------
(* Delayed calls on two CPUs, used in each of a few ways.                   *)
EXTENDS ThreadCallTimer

CONSTANTS c1, c2

MCUse(kind1, kind2, flavors, rescans, sleeps) ==
    [kind |-> [c \in Calls |-> IF c = c1 THEN kind1 ELSE kind2], flavors |-> flavors,
     flips |-> FALSE, rescans |-> rescans, sleeps |-> sleeps]

\* A call for threads and one that the interrupt runs, with either clock; two
\* calls for threads while the machine changes its timer coalescing; two that
\* the interrupt runs; and one of each kind on a machine that sleeps.
MCUses ==
    {MCUse("once", "signal", Flavors, FALSE, FALSE),
     MCUse("once", "once", {"ABSOLUTE"}, TRUE, FALSE),
     MCUse("signal", "signal", {"ABSOLUTE"}, FALSE, FALSE),
     MCUse("signal", "once", {"CONTINUOUS"}, FALSE, TRUE)}

\* A SIGNAL call that changes its flavor while it runs.
MCFlips ==
    {[MCUse("signal", "signal", Flavors, FALSE, FALSE) EXCEPT !.flips = TRUE]}
=============================================================================
