------------------------- MODULE MCThreadCallGroup -------------------------
(* A serial and a parallel group, with a target of one thread each.        *)
EXTENDS ThreadCallGroup

MCTarget   == <<1, 1>>
MCMaxCalls == <<2, 2>>
=============================================================================
