--------------------------- MODULE SystemSettings ---------------------------
(***************************************************************************)
(* Limits shared by the components (core/SystemSettings.hpp).              *)
(***************************************************************************)
EXTENDS Integers

CONSTANT MAX_LOOP_CYCLES    \* 10^7 in the code

ASSUME WatchdogAssumption == MAX_LOOP_CYCLES \in Nat \ {0}

=============================================================================
