------------------------------ MODULE MCSolver ------------------------------
(***************************************************************************)
(* Instances of Solver for TLC.                                            *)
(***************************************************************************)
EXTENDS Solver

(* A full gate, one over a null third pin, and one with a pin wired twice. *)
MCWirings == {<<1, 2, 3>>, <<2, 3, 0>>, <<1, 1, 3>>}

(* A function, a one-sided relation (the only kind that can drive a pin    *)
(* wired twice both ways), and the two boundary bytes.                     *)
MCTruthBytes == {TRUTH_AND, 2, TRUTH_UNIVERSAL_FREEDOM, TRUTH_UNIVERSAL_CONTRADICTION}

=============================================================================
