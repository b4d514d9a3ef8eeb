--------------------------- MODULE MCKernelQueue ---------------------------
(* Instances of KernelQueue for TLC: a driver task above a worker, two     *)
(* tasks of equal priority, and the idle task.                             *)
EXTENDS KernelQueue, TLC

CONSTANTS High, Low, Mate, Zero

PrioDef == High :> 2 @@ Low :> 1 @@ Mate :> 1 @@ Zero :> 0

\* A task above a consumer and a producer that puts items in front.
Mixed ==
    High :> {"send", "receive", "delay"} @@ Low :> {"receive"} @@ Mate :> {"sendfront"} @@ Zero :> {}

\* A queue of one, overwritten by a task below the one that waits for it.
Overwriting ==
    High :> {"receive", "delay"} @@ Low :> {"peek"} @@ Mate :> {"overwrite"} @@ Zero :> {}
=============================================================================
