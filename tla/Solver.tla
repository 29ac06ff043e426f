------------------------------- MODULE Solver -------------------------------
(***************************************************************************)
(* Solver::propagate over a circuit its client may edit, lock and unlock   *)
(* between calls.  A call makes passes over the gate list; at each gate it *)
(* intersects the truth byte with the pins known on arrival and then goes  *)
(* through the three pin positions, assigning a pin whose value is forced. *)
(* Both client hooks may stop the call: the diagnostic hook before any     *)
(* assignment, the propagation hook at the end of any pass.                *)
(***************************************************************************)
EXTENDS CircuitTopology, SystemSettings, FiniteSets

VARIABLES
  phase,          \* where the call is: "idle", "loop", "scan", "targets", "passEnd"
  cycle,          \* passes completed in this call
  at,             \* the gate under examination
  target,         \* the pin position to be considered next at that gate
  known_pins,     \* positions of that gate whose pin was known on arrival
  possible,       \* per position, the values left by the truth byte
  changed, contradiction,   \* this pass's flags
  start,          \* history: the pins when the call began
  outcome         \* history: how the last call ended, "none" once the circuit is edited

topology == <<pins, gates>>
local    == <<cycle, at, target, known_pins, possible, changed, contradiction>>
vars     == <<pins, gates, phase, local, start, outcome>>

Outcome == {"none", "stable", "contradiction", "vetoed", "limit"}

TypeOK ==
  /\ TopologyTypeOK
  /\ phase \in {"idle", "loop", "scan", "targets", "passEnd"}
  /\ cycle \in Nat
  /\ at \in 1 .. Len(gates) + 1
  /\ phase = "targets" => at \in 1 .. Len(gates)
  /\ target \in 1 .. 4
  /\ known_pins \in SUBSET Position
  /\ possible \in [Position -> SUBSET Bit]
  /\ changed \in BOOLEAN
  /\ contradiction \in BOOLEAN
  /\ start \in Seq(PinRecord)
  /\ phase # "idle" \/ outcome # "none" => Len(start) = Len(pins)
  /\ outcome \in Outcome

Init ==
  /\ TopologyInit
  /\ phase = "idle"
  /\ cycle = 0
  /\ at = 1
  /\ target = 1
  /\ known_pins = {}
  /\ possible = [i \in Position |-> {}]
  /\ changed = FALSE
  /\ contradiction = FALSE
  /\ start = << >>
  /\ outcome = "none"

-----------------------------------------------------------------------------
(* The client, between two calls. *)

Edit ==
  /\ phase = "idle"
  /\ TopologyNext
  /\ outcome' = "none"
  /\ start' = << >>
  /\ UNCHANGED <<phase, local>>

CallPropagate ==
  /\ phase = "idle"
  /\ phase' = "loop"
  /\ cycle' = 0
  /\ start' = pins
  /\ outcome' = "none"
  /\ UNCHANGED <<topology, at, target, known_pins, possible, changed, contradiction>>

(* A return resets nothing: the locals die with the call and are only put  *)
(* back to one value each so that states differ in what matters.           *)
Return(how) ==
  /\ phase' = "idle"
  /\ outcome' = how
  /\ cycle' = 0
  /\ at' = 1
  /\ target' = 1
  /\ known_pins' = {}
  /\ possible' = [i \in Position |-> {}]
  /\ changed' = FALSE
  /\ contradiction' = FALSE
  /\ UNCHANGED <<gates, start>>

-----------------------------------------------------------------------------
(* propagate: one action per decision of the loop body. *)

(* Fault: the changed flag of the last pass is kept.                       *)
BeginPassFault ==
  /\ phase = "loop"
  /\ cycle < MAX_LOOP_CYCLES
  /\ phase' = "scan"
  /\ at' = 1
  /\ contradiction' = FALSE
  /\ UNCHANGED <<topology, cycle, target, known_pins, possible, changed, start, outcome>>

BeginPass ==
  /\ phase = "loop"
  /\ cycle < MAX_LOOP_CYCLES
  /\ phase' = "scan"
  /\ at' = 1
  /\ changed' = FALSE
  /\ contradiction' = FALSE
  /\ UNCHANGED <<topology, cycle, target, known_pins, possible, start, outcome>>

LoopLimit ==
  /\ phase = "loop"
  /\ cycle >= MAX_LOOP_CYCLES
  /\ Return("limit")
  /\ UNCHANGED pins

Gate     == gates[at]
PinAt(i) == pins[Gate.pin[i]]

KnownPositions(gate) ==
  { i \in Position : gate.pin[i] # NullPin /\ Known(pins[gate.pin[i]]) }

(* Values position i takes in the legal combinations that agree with the   *)
(* known pins; nothing is collected for null and for known positions.      *)
PossibleAt(gate, i) ==
  IF gate.pin[i] = NullPin \/ i \in KnownPositions(gate) THEN {}
  ELSE { v \in Bit :
           \E combination \in [Position -> Bit] :
             /\ combination[i] = v
             /\ allows(gate, combination)
             /\ \A k \in KnownPositions(gate) :
                  combination[k] = ValueOf(pins[gate.pin[k]]) }

(* Fault: one gate too many is stepped over.                               *)
NextGateFault ==
  /\ phase' = "scan"
  /\ at' = at + 2

NextGate ==
  /\ phase' = "scan"
  /\ at' = at + 1

(* Free gates, and gates none of whose pins is known, are passed over.     *)
SkipGate ==
  /\ phase = "scan"
  /\ at \in 1 .. Len(gates)
  /\ \/ Gate.released
     \/ Gate.truth_byte = TRUTH_UNIVERSAL_FREEDOM
     \/ /\ Gate.truth_byte # TRUTH_UNIVERSAL_CONTRADICTION
        /\ KnownPositions(Gate) = {}
  /\ NextGate
  /\ UNCHANGED <<topology, cycle, target, known_pins, possible, changed, contradiction,
                 start, outcome>>

UniversalContradiction ==
  /\ phase = "scan"
  /\ at \in 1 .. Len(gates)
  /\ ~Gate.released
  /\ Gate.truth_byte = TRUTH_UNIVERSAL_CONTRADICTION
  /\ Return("contradiction")
  /\ UNCHANGED pins

ExamineGate ==
  /\ phase = "scan"
  /\ at \in 1 .. Len(gates)
  /\ ~Gate.released
  /\ Gate.truth_byte \notin {TRUTH_UNIVERSAL_FREEDOM, TRUTH_UNIVERSAL_CONTRADICTION}
  /\ KnownPositions(Gate) # {}
  /\ known_pins' = KnownPositions(Gate)
  /\ possible' = [i \in Position |-> PossibleAt(Gate, i)]
  /\ phase' = "targets"
  /\ target' = 1
  /\ UNCHANGED <<topology, cycle, at, changed, contradiction, start, outcome>>

EndScan ==
  /\ phase = "scan"
  /\ at = Len(gates) + 1
  /\ phase' = "passEnd"
  /\ UNCHANGED <<topology, local, start, outcome>>

-----------------------------------------------------------------------------
(* The pin positions of the gate under examination, in order. *)

(* Fault: pins known on arrival are not left out.                          *)
EligibleFault(i) ==
  /\ Gate.pin[i] # NullPin
  /\ ~PinAt(i).locked

Eligible(i) ==
  /\ Gate.pin[i] # NullPin
  /\ i \notin known_pins
  /\ ~PinAt(i).locked

(* Faults: only one of the two candidate values is looked at.              *)
ForcedToFault(i, v)  == Eligible(i) /\ v \in possible[i]
ImpossibleFault(i)   == Eligible(i) /\ 0 \notin possible[i]

ForcedTo(i, v) == Eligible(i) /\ possible[i] = {v}
Impossible(i)  == Eligible(i) /\ possible[i] = {}

(* Fault: the position is not advanced.                                    *)
NextTargetFault ==
  /\ UNCHANGED <<gates, phase, cycle, at, target, known_pins, possible, start, outcome>>

NextTarget ==
  /\ target' = target + 1
  /\ UNCHANGED <<gates, phase, cycle, at, known_pins, possible, start, outcome>>

SkipTarget ==
  /\ phase = "targets"
  /\ target \in Position
  /\ ~Eligible(target) \/ possible[target] = Bit
  /\ NextTarget
  /\ UNCHANGED <<pins, changed, contradiction>>

(* Fault: the assignment does not mark the pass as changed.                *)
AssignTargetFault ==
  /\ phase = "targets"
  /\ target \in Position
  /\ \E v \in Bit :
       /\ ForcedTo(target, v)
       /\ pins' = [pins EXCEPT ![Gate.pin[target]] =
                      [@ EXCEPT !.value = v, !.state = SignalFor(v)]]
  /\ NextTarget
  /\ UNCHANGED <<changed, contradiction>>

(* assignPin, the diagnostic hook consenting.  Its test for a locked pin   *)
(* never fires: the caller has just skipped locked pins.                   *)
AssignTarget ==
  /\ phase = "targets"
  /\ target \in Position
  /\ \E v \in Bit :
       /\ ForcedTo(target, v)
       /\ pins' = [pins EXCEPT ![Gate.pin[target]] =
                      [@ EXCEPT !.value = v, !.state = SignalFor(v)]]
  /\ changed' = TRUE
  /\ NextTarget
  /\ UNCHANGED contradiction

(* The diagnostic hook refuses the assignment: the call ends right there.  *)
VetoAssignment ==
  /\ phase = "targets"
  /\ target \in Position
  /\ \E v \in Bit : ForcedTo(target, v)
  /\ Return("vetoed")
  /\ UNCHANGED pins

MarkConflict ==
  /\ phase = "targets"
  /\ target \in Position
  /\ Impossible(target)
  /\ pins' = [pins EXCEPT ![Gate.pin[target]] = [@ EXCEPT !.state = "CONFLICT"]]
  /\ contradiction' = TRUE
  /\ NextTarget
  /\ UNCHANGED changed

LeaveGate ==
  /\ phase = "targets"
  /\ target = 4
  /\ NextGate
  /\ target' = 1
  /\ known_pins' = {}
  /\ possible' = [i \in Position |-> {}]
  /\ UNCHANGED <<topology, cycle, changed, contradiction, start, outcome>>

-----------------------------------------------------------------------------
(* The end of a pass; the propagation hook is asked first.                 *)

VetoPass ==
  /\ phase = "passEnd"
  /\ Return("vetoed")
  /\ UNCHANGED pins

LocalContradiction ==
  /\ phase = "passEnd"
  /\ contradiction
  /\ Return("contradiction")
  /\ UNCHANGED pins

(* Fault: success is reported after any pass free of contradictions.       *)
StabilisedFault ==
  /\ phase = "passEnd"
  /\ ~contradiction
  /\ Return("stable")
  /\ UNCHANGED pins

Stabilised ==
  /\ phase = "passEnd"
  /\ ~contradiction
  /\ ~changed
  /\ Return("stable")
  /\ UNCHANGED pins

(* Fault: a pass follows even one that changed nothing.                    *)
NextPassFault ==
  /\ phase = "passEnd"
  /\ ~contradiction
  /\ cycle' = cycle + 1
  /\ phase' = "loop"
  /\ UNCHANGED <<topology, at, target, known_pins, possible, changed, contradiction,
                 start, outcome>>

NextPass ==
  /\ phase = "passEnd"
  /\ ~contradiction
  /\ changed
  /\ cycle' = cycle + 1
  /\ phase' = "loop"
  /\ UNCHANGED <<topology, at, target, known_pins, possible, changed, contradiction,
                 start, outcome>>

propagate ==
  \/ BeginPass \/ LoopLimit
  \/ SkipGate \/ UniversalContradiction \/ ExamineGate \/ EndScan
  \/ SkipTarget \/ AssignTarget \/ VetoAssignment \/ MarkConflict \/ LeaveGate
  \/ VetoPass \/ LocalContradiction \/ Stabilised \/ NextPass

Next == Edit \/ CallPropagate \/ propagate

Spec == Init /\ [][Next]_vars

-----------------------------------------------------------------------------
(* Properties.  "The call" is the one under way or, until the next edit,   *)
(* the last one; "start" is what its client handed it.                     *)

InCall == phase # "idle" \/ outcome # "none"

(* Every value a call derives is forced: whatever assignment satisfies all *)
(* gates and the pins known at the start has that value, at every moment   *)
(* of the call and after every way of ending it (Solver.cpp, propagate and *)
(* assignPin; truth byte, null pins and pins wired twice included).        *)
DerivationsSound ==
  InCall =>
    \A assignment \in Solutions(start) :
      \A p \in PinUid : Known(pins[p]) => assignment[p] = ValueOf(pins[p])

(* A call that reports a contradiction is right: no assignment satisfies   *)
(* the gates and the pins known at the start (propagate's two returns of   *)
(* false that set a diagnostic inside the loop).                           *)
ContradictionSound == outcome = "contradiction" => Solutions(start) = {}

(* Propagation runs in any direction but never against its inputs: a pin   *)
(* known when the call began, locked or not, keeps value, state and lock.  *)
StartKept ==
  InCall => \A p \in PinUid : Known(start[p]) => pins[p] = start[p]

(* A gate that can force nothing more on its unlocked pins.                *)
Settled(gate) ==
  \/ gate.truth_byte = TRUTH_UNIVERSAL_FREEDOM
  \/ KnownPositions(gate) = {}
  \/ \A i \in Position :
       /\ gate.pin[i] # NullPin
       /\ i \notin KnownPositions(gate)
       /\ ~pins[gate.pin[i]].locked
       => PossibleAt(gate, i) = Bit

(* A call that returns true has reached a fixpoint of every gate, gates    *)
(* early in the list and already passed when a later one changed a pin     *)
(* included (the changed flag and the outer while of propagate).           *)
FixpointReached ==
  outcome = "stable" => \A g \in 1 .. Len(gates) : Settled(gates[g])

Derived == { p \in PinUid : Known(pins[p]) /\ ~Known(start[p]) }

(* Each pass but the last decides a pin for good, so the number of passes  *)
(* is bounded by the number of pins decided (the while of propagate).      *)
PassesBounded == phase # "idle" => cycle <= Cardinality(Derived)

(* The limit of 10^7 cycles never ends a call that has derived fewer pins  *)
(* than that: giving up always means a circuit of that size, never a loop  *)
(* that goes round without progress (propagate, the end of the while).     *)
NeverExhausted == outcome = "limit" => MAX_LOOP_CYCLES <= Cardinality(Derived)

(* The pins known after n rounds in which every gate is applied at once to *)
(* the pins of the round before: propagation with no order at all.         *)
ForcedBy(knowledge, p, v) ==
  \E g \in 1 .. Len(gates) :
    LET gate == gates[g]
        positions == { i \in Position : gate.pin[i] # NullPin }
        fixed == { k \in positions : knowledge[gate.pin[k]] # {} }
    IN /\ gate.truth_byte # TRUTH_UNIVERSAL_FREEDOM
       /\ fixed # {}
       /\ \E i \in positions :
            /\ gate.pin[i] = p
            /\ \A combination \in [Position -> Bit] :
                 /\ allows(gate, combination)
                 /\ \A k \in fixed : combination[k] \in knowledge[gate.pin[k]]
                 => combination[i] = v

Given == [p \in PinUid |-> IF Known(start[p]) THEN {ValueOf(start[p])} ELSE {}]

Widened(knowledge) ==
  [p \in PinUid |-> IF knowledge[p] # {} THEN knowledge[p]
                    ELSE { v \in Bit : ForcedBy(knowledge, p, v) }]

Closure ==
  LET round[n \in 0 .. Len(pins)] == IF n = 0 THEN Given ELSE Widened(round[n - 1])
  IN round[Len(pins)]

(* The result of a completed call on a satisfiable circuit depends neither *)
(* on the order of the gate list nor on values seen half way through a     *)
(* pass: it is the closure of the start under all gates.                   *)
OrderIndependent ==
  outcome = "stable" /\ Solutions(start) # {} =>
    \A p \in PinUid :
      Closure[p] = IF Known(pins[p]) THEN {ValueOf(pins[p])} ELSE {}

(* A call under way ends, whatever the circuit (the code's "must not hang  *)
(* indefinitely"): every pass but the last decides a pin.                  *)
Terminates == phase # "idle" ~> phase = "idle"

-----------------------------------------------------------------------------
(* What the documents promise and the code does not do; refuted by a run   *)
(* of its own.                                                             *)

(* specification.md 15.2: the solver must be able to "detect               *)
(* contradictions".  The code never tests a gate all of whose pins are     *)
(* known, so it reports success on a violated one.                         *)
ContradictionsDetected ==
  outcome = "stable" =>
    \A g \in 1 .. Len(gates) :
      LET gate == gates[g]
      IN KnownPositions(gate) = Position =>
           allows(gate, [i \in Position |-> ValueOf(pins[gate.pin[i]])])

=============================================================================
