--------------------------- MODULE MCKernelMutex ---------------------------
(* TLC instances of KernelMutex. *)
EXTENDS KernelMutex, TLC

CONSTANTS High, Mid, Low, Zero, A, B

PrioDef == [t \in Tasks |-> ((High :> 3) @@ (Mid :> 2) @@ (Low :> 1) @@ (Zero :> 0))[t]]

AllTakeAll == [t \in Tasks |-> IF t = Zero THEN {} ELSE {A, B}]

\* High and Low may hold both mutexes, Mid one.
LowNests == [t \in Tasks |-> IF t = Zero THEN {} ELSE IF t = Mid THEN {A} ELSE {A, B}]
=============================================================================
