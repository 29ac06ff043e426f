---------------------------- MODULE Diagnostics ----------------------------
(***************************************************************************)
(* The process-wide diagnostic state: the error flag, the last record (its *)
(* code here; component, label and addresses are text for a reader) and    *)
(* the loop counter that SEMON_LOOP advances.                              *)
(***************************************************************************)
EXTENDS SystemSettings

VARIABLES
  errorFlag,     \* g_errorFlag
  record,        \* the code of g_last_record
  cycle_count    \* g_cycle_count: 64 bits in the code, a wrap is out of reach

diagnosticVars == <<errorFlag, record, cycle_count>>

DiagnosticCode ==
  {"NONE", "CONTRACT", "ALLOCATOR", "MATH", "CIRCUIT", "SOLVER", "PERSISTENCE", "LIMIT"}

DiagnosticsTypeOK ==
  /\ errorFlag \in BOOLEAN
  /\ record \in DiagnosticCode
  /\ cycle_count \in Nat

DiagnosticsInit ==
  /\ errorFlag = FALSE
  /\ record = "NONE"
  /\ cycle_count = 0

clear ==
  /\ errorFlag' = FALSE
  /\ record' = "NONE"
  /\ cycle_count' = 0

(* Fault: the record is written, the flag is not raised.                   *)
setFault(code) ==
  /\ record' = code
  /\ UNCHANGED <<errorFlag, cycle_count>>

set(code) ==
  /\ errorFlag' = TRUE
  /\ record' = code
  /\ UNCHANGED cycle_count

(* Fault: the alarm is given once, not at every pass past the limit.       *)
enterLoopFault ==
  /\ cycle_count' = cycle_count + 1
  /\ IF cycle_count + 1 = MAX_LOOP_CYCLES + 1
     THEN errorFlag' = TRUE /\ record' = "LIMIT"
     ELSE UNCHANGED <<errorFlag, record>>

(* The counter runs on whatever it has reached, and so does the loop.      *)
enterLoop ==
  /\ cycle_count' = cycle_count + 1
  /\ IF cycle_count + 1 > MAX_LOOP_CYCLES
     THEN errorFlag' = TRUE /\ record' = "LIMIT"
     ELSE UNCHANGED <<errorFlag, record>>

=============================================================================
