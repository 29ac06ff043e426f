------------------------- MODULE SolverDiagnostics -------------------------
(***************************************************************************)
(* Solver and Diagnostics together: the solver is the one user of          *)
(* SEMON_LOOP, enters the loop once per pass and records why it gave up.   *)
(* The diagnostic state outlives the calls: only clear resets it.          *)
(***************************************************************************)
EXTENDS Solver, Diagnostics

CONSTANT MaxCycleCount   \* bound: no call begins once the loop counter is past it

ASSUME MaxCycleCountAssumption == MaxCycleCount \in Nat

allVars == <<vars, diagnosticVars>>

(* The types of the two, which the proofs use.                             *)
SDTypeOK == TypeOK /\ DiagnosticsTypeOK

SDInit == Init /\ DiagnosticsInit

Quiet ==
  \/ SkipGate \/ ExamineGate \/ EndScan
  \/ SkipTarget \/ AssignTarget \/ VetoAssignment \/ MarkConflict \/ LeaveGate
  \/ VetoPass \/ Stabilised \/ NextPass

(* A client that clears the diagnostics has read the last outcome.         *)
ClearDiagnostics ==
  /\ phase = "idle"
  /\ clear
  /\ outcome' = "none"
  /\ UNCHANGED <<topology, phase, local, start>>

BoundedCallPropagate ==
  /\ cycle_count <= MaxCycleCount
  /\ CallPropagate

Call ==
  \/ Quiet /\ UNCHANGED diagnosticVars
  \/ BeginPass /\ enterLoop
  \/ LoopLimit /\ set("LIMIT")
  \/ UniversalContradiction /\ set("SOLVER")
  \/ LocalContradiction /\ set("SOLVER")

SDNext ==
  \/ Edit /\ UNCHANGED diagnosticVars
  \/ BoundedCallPropagate /\ UNCHANGED diagnosticVars
  \/ Call
  \/ ClearDiagnostics

SDSpec == SDInit /\ [][SDNext]_allVars

(* propagate is one thread of straight code: a call under way never stops  *)
(* between two statements.  The client owes nothing.                       *)
SDFairSpec == SDSpec /\ WF_allVars(Call)

(* After a call gives up by itself the flag is up and the record names the *)
(* reason, although the loop watchdog writes the same record during the    *)
(* call and older failures may have written it before (Solver.cpp, the     *)
(* three calls of Diagnostics::set; Diagnostics.cpp, set and enterLoop).   *)
OutcomeExplained ==
  /\ outcome = "contradiction" => errorFlag /\ record = "SOLVER"
  /\ outcome = "limit" => errorFlag /\ record = "LIMIT"

(* What a client reads after a call that did not give up by itself.  The   *)
(* record says LIMIT exactly when the passes of all calls since the last   *)
(* clear are more than the limit: an alarm of an earlier call, or of a     *)
(* call that ran into the limit itself, is never mistaken for it, and the  *)
(* alarm is given again at every pass (Diagnostics.cpp, enterLoop; the     *)
(* SEMON_LOOP of propagate).  The flag is up with any record.              *)
AlarmTells ==
  /\ outcome \in {"stable", "vetoed"} =>
       (record = "LIMIT" <=> cycle_count > MAX_LOOP_CYCLES)
  /\ errorFlag <=> record # "NONE"

=============================================================================
