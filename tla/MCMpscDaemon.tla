---------------------------- MODULE MCMpscDaemon ----------------------------
(* Daemon queues on a small instance: a queue with a thread or a thread    *)
(* call, and a nested queue that targets it.                               *)
EXTENDS MpscDaemon, TLC

CONSTANTS root, nest, i1, i2, i3

MCTarget == nest :> root
MCHome == i1 :> nest @@ i2 :> nest @@ i3 :> root
=============================================================================
