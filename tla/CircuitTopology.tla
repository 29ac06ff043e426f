-------------------------- MODULE CircuitTopology --------------------------
(***************************************************************************)
(* A circuit: pins, in the order they were added, and the three-pin gates  *)
(* between them.  A pin's uid is its position (next_pin_uid_ counts from 1 *)
(* and nothing removes a pin), and NullPin stands for the null pointer a   *)
(* gate may hold in place of a pin.                                        *)
(*                                                                         *)
(* Wirings and TruthBytes are the gates a client may add; MaxPins and      *)
(* MaxGates bound the circuit, in the code by the pages of the allocator.  *)
(***************************************************************************)
EXTENDS Sequences, Virtual3PinGate

CONSTANTS MaxPins, MaxGates, Wirings, TruthBytes

NullPin  == 0
Position == 1 .. 3    \* 1, 2, 3 for pinA, pinB, pinC

ASSUME CircuitAssumption ==
  /\ MaxPins \in Nat
  /\ MaxGates \in Nat
  /\ Wirings \subseteq [Position -> Nat]
  /\ TruthBytes \subseteq Byte

VARIABLES
  pins,    \* the pin list: state, lock and value of each pin
  gates    \* the gate list

SignalState == {"FLOATING", "ZERO", "ONE", "CONFLICT"}

PinRecord  == [state : SignalState, locked : BOOLEAN, value : Bit]
GateRecord == [pin : [Position -> Nat], truth_byte : Byte, released : BOOLEAN]

PinUid == 1 .. Len(pins)

TopologyTypeOK ==
  /\ pins \in Seq(PinRecord)
  /\ gates \in Seq(GateRecord)
  /\ \A g \in 1 .. Len(gates) : \A i \in Position : gates[g].pin[i] \in PinUid \union {NullPin}

SignalFor(value) == IF value = 1 THEN "ONE" ELSE "ZERO"

TopologyInit ==
  /\ pins = << >>
  /\ gates = << >>

addPin ==
  /\ Len(pins) < MaxPins
  /\ pins' = Append(pins, [state |-> "FLOATING", locked |-> FALSE, value |-> 0])
  /\ UNCHANGED gates

addGate(wiring, truth_byte) ==
  /\ Len(gates) < MaxGates
  /\ \A i \in Position : wiring[i] \in PinUid \union {NullPin}
  /\ gates' = Append(gates, [pin |-> wiring, truth_byte |-> truth_byte, released |-> FALSE])
  /\ UNCHANGED pins

(* A lock decides the pin at once: it is the client's input to propagation. *)
lockPin(p, v) ==
  /\ pins' = [pins EXCEPT ![p] = [state |-> SignalFor(v), locked |-> TRUE, value |-> v]]
  /\ UNCHANGED gates

(* Unlocking floats this pin only: what was derived from it stays.          *)
unlockPin(p) ==
  /\ pins' = [pins EXCEPT ![p] = [@ EXCEPT !.locked = FALSE, !.state = "FLOATING"]]
  /\ UNCHANGED gates

(* Soft deletion: the gate keeps its place in the list and frees its pins.  *)
markReleased(g) ==
  /\ gates' = [gates EXCEPT ![g] = [@ EXCEPT !.released = TRUE,
                                            !.truth_byte = TRUTH_UNIVERSAL_FREEDOM]]
  /\ UNCHANGED pins

TopologyNext ==
  \/ addPin
  \/ \E wiring \in Wirings, truth_byte \in TruthBytes : addGate(wiring, truth_byte)
  \/ \E p \in PinUid, v \in Bit : lockPin(p, v)
  \/ \E p \in PinUid : unlockPin(p)
  \/ \E g \in 1 .. Len(gates) : markReleased(g)

-----------------------------------------------------------------------------
(* What a circuit means, independently of any solver. *)

Known(pin)   == pin.state \in {"ZERO", "ONE"}
ValueOf(pin) == IF pin.state = "ONE" THEN 1 ELSE 0

allows(gate, combination) ==
  combinationAllowed(gate.truth_byte, combination[1], combination[2], combination[3])

(* A gate admits an assignment if some legal combination matches it on the *)
(* pins that are really there.                                             *)
Admits(gate, assignment) ==
  \E combination \in [Position -> Bit] :
    /\ allows(gate, combination)
    /\ \A i \in Position :
         gate.pin[i] # NullPin => combination[i] = assignment[gate.pin[i]]

(* The assignments of all pins that every gate admits and that agree with  *)
(* what is known in "given", a pin list of this circuit.                   *)
Solutions(given) ==
  { assignment \in [PinUid -> Bit] :
      /\ \A g \in 1 .. Len(gates) : Admits(gates[g], assignment)
      /\ \A p \in PinUid : Known(given[p]) => assignment[p] = ValueOf(given[p]) }

=============================================================================
