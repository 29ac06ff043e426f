------------------------ MODULE MCSolverDiagnostics ------------------------
(***************************************************************************)
(* Instances of SolverDiagnostics for TLC.                                 *)
(***************************************************************************)
EXTENDS SolverDiagnostics

(* Two links that pass a value on in either direction, one of which the    *)
(* list order delays by a pass.                                            *)
MCWirings == {<<2, 3, 0>>, <<1, 2, 0>>}

MCTruthBytes == {TRUTH_BUFFER, 2, TRUTH_UNIVERSAL_CONTRADICTION}

=============================================================================
