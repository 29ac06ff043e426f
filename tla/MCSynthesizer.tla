---------------------------- MODULE MCSynthesizer ----------------------------
(***************************************************************************)
(* The instance of Synthesizer for TLC, with the bytes of its gates beside *)
(* it: as long as there is neither a node nor a pin any truth byte goes    *)
(* through any sequence of inversions; the compiler runs where none has.   *)
(***************************************************************************)
EXTENDS Synthesizer, TruthByteAlgebra

mcVars == <<vars, algebraVars>>

MCInit == Init /\ AlgebraInit

BytesInverted ==
  /\ nodes = << >> /\ pins = << >>
  /\ AlgebraNext
  /\ UNCHANGED vars

CompilerRuns ==
  /\ original = 0 /\ inverted = {}
  /\ Next
  /\ UNCHANGED algebraVars

MCNext == BytesInverted \/ CompilerRuns

MCSpec == MCInit /\ [][MCNext]_mcVars

=============================================================================
