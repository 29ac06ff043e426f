---------------------------- MODULE Synthesizer ----------------------------
(***************************************************************************)
(* Synthesizer::compileModelToCircuit: a walk over the equations of a      *)
(* model that adds pins and gates to a target circuit.  The recursion of   *)
(* emitExpression is a stack of frames; the bottom frame, of node          *)
(* NullNode, is the equation itself.  The walk gives up where the circuit  *)
(* has no room left and where an operand has no pin, and leaves what it    *)
(* has added so far; a client may add to the model and compile again.      *)
(***************************************************************************)
EXTENDS MathModel, CircuitTopology

VARIABLES
  phase,       \* "idle", "variables" or "equations": the loop being run
  variable,    \* the variable or the equation that loop is at
  bit,         \* the bit of that variable
  frames,      \* the calls under way, innermost last
  output,      \* the pin the last call handed back, NullPin for none
  outcome      \* history: how the last compilation ended

circuitVars == <<pins, gates>>
vars == <<variables, nodes, equations, stack, pins, gates,
          phase, variable, bit, frames, output, outcome>>

Frame == [node : NodeUid \union {NullNode}, stage : {"enter", "left", "right"},
          left : PinUid \union {NullPin}]

TypeOK ==
  /\ ModelTypeOK
  /\ TopologyTypeOK
  /\ phase \in {"idle", "variables", "equations"}
  /\ variable \in Nat \ {0}
  /\ bit \in Nat
  /\ frames \in Seq(Frame)
  /\ frames # << >> => phase = "equations" /\ variable <= Len(equations)
  /\ output \in PinUid \union {NullPin}
  /\ outcome \in {"none", "compiled", "failed"}

Init ==
  /\ ModelInit
  /\ TopologyInit
  /\ phase = "idle"
  /\ variable = 1
  /\ bit = 0
  /\ frames = << >>
  /\ output = NullPin
  /\ outcome = "none"

EditModel ==
  /\ phase = "idle"
  /\ ModelNext
  /\ outcome' = "none"
  /\ UNCHANGED <<circuitVars, phase, variable, bit, frames, output>>

compileModelToCircuit ==
  /\ phase = "idle"
  /\ stack = << >>
  /\ phase' = "variables"
  /\ outcome' = "none"
  /\ UNCHANGED <<modelVars, circuitVars, variable, bit, frames, output>>

Return(how) ==
  /\ phase' = "idle"
  /\ variable' = 1
  /\ bit' = 0
  /\ frames' = << >>
  /\ output' = NullPin
  /\ outcome' = how
  /\ UNCHANGED modelVars

-----------------------------------------------------------------------------
(* addPin and addGate of the target, for a caller that goes on. *)

FloatingPin == [state |-> "FLOATING", locked |-> FALSE, value |-> 0]
LockedPin(v) == [state |-> SignalFor(v), locked |-> TRUE, value |-> v]

(* Fault: the uid handed out is the one of the pin to come.                *)
NewPinUidFault == Len(pins) + 2

NewPinUid == Len(pins) + 1

RoomForPin  == Len(pins) < MaxPins
RoomForGate == Len(gates) < MaxGates

(* Fault: the result stands in the first position.                         *)
WithGateFault(a, b, c, truth_byte) ==
  Append(gates, [pin |-> <<c, a, b>>, truth_byte |-> truth_byte, released |-> FALSE])

WithGate(a, b, c, truth_byte) ==
  Append(gates, [pin |-> <<a, b, c>>, truth_byte |-> truth_byte, released |-> FALSE])

(* A new pin as the output of a gate; without room for the gate the pin    *)
(* stays, without room for the pin nothing is added.                       *)
AddDrivenPin(a, b, truth_byte) ==
  /\ pins'  = IF RoomForPin THEN Append(pins, FloatingPin) ELSE pins
  /\ gates' = IF RoomForPin /\ RoomForGate THEN WithGate(a, b, NewPinUid, truth_byte)
              ELSE gates

-----------------------------------------------------------------------------
(* The pins of the variables, bit by bit. *)

AddVariablePin ==
  /\ phase = "variables"
  /\ variable <= Len(variables)
  /\ bit < variables[variable]
  /\ IF RoomForPin
     THEN /\ pins' = Append(pins, FloatingPin)
          /\ bit' = bit + 1
          /\ UNCHANGED <<modelVars, phase, variable, frames, output, outcome>>
     ELSE /\ Return("failed")
          /\ UNCHANGED pins
  /\ UNCHANGED gates

NextVariable ==
  /\ phase = "variables"
  /\ variable <= Len(variables)
  /\ bit = variables[variable]
  /\ variable' = variable + 1
  /\ bit' = 0
  /\ UNCHANGED <<modelVars, circuitVars, phase, frames, output, outcome>>

VariablesDone ==
  /\ phase = "variables"
  /\ variable > Len(variables)
  /\ phase' = "equations"
  /\ variable' = 1
  /\ UNCHANGED <<modelVars, circuitVars, bit, frames, output, outcome>>

-----------------------------------------------------------------------------
(* Calls of emitExpression. *)

Call(node) == [node |-> node, stage |-> "enter", left |-> NullPin]

Current == frames[Len(frames)]
Node    == nodes[Current.node]

InEquation == phase = "equations" /\ frames # << >> /\ Current.node = NullNode
InNode     == phase = "equations" /\ frames # << >> /\ Current.node # NullNode

Callers == SubSeq(frames, 1, Len(frames) - 1)

(* The innermost call goes on to evaluate an operand.                      *)
Enter(operand, stage, left) ==
  /\ frames' = Callers \o << [Current EXCEPT !.stage = stage, !.left = left],
                             Call(operand) >>
  /\ UNCHANGED <<modelVars, phase, variable, bit, output, outcome>>

(* The innermost call returns true and hands back this pin.                *)
HandBack(pin) ==
  /\ frames' = Callers
  /\ output' = pin
  /\ UNCHANGED <<modelVars, phase, variable, bit, outcome>>

Unary  == {"NOT", "SLICE", "CONCAT"}
IsOperation(operations) == Node.type = "OPERATION" /\ Node.operation \in operations
IsBinary == Node.type = "OPERATION" /\ Node.operation \notin Unary

BeginEquation ==
  /\ phase = "equations"
  /\ frames = << >>
  /\ variable <= Len(equations)
  /\ frames' = << Call(NullNode) >>
  /\ UNCHANGED <<modelVars, circuitVars, phase, variable, bit, output, outcome>>

EquationsDone ==
  /\ phase = "equations"
  /\ frames = << >>
  /\ variable > Len(equations)
  /\ Return("compiled")
  /\ UNCHANGED circuitVars

(* A use of a variable gets a pin of its own, whatever other pins stand    *)
(* for that variable; a constant gets a locked one.  The bit asked of a    *)
(* variable is always its lowest (no caller sets bit_start on its node).   *)
EmitLeaf ==
  /\ InNode
  /\ Node.type \in {"VARIABLE", "CONSTANT"}
  /\ IF RoomForPin
     THEN /\ pins' = Append(pins, IF Node.type = "CONSTANT" THEN LockedPin(Node.value)
                                  ELSE FloatingPin)
          /\ HandBack(NewPinUid)
     ELSE /\ Return("failed")
          /\ UNCHANGED pins
  /\ UNCHANGED gates

EnterLeft ==
  /\ InNode
  /\ Node.type = "OPERATION"
  /\ Current.stage = "enter"
  /\ Enter(Node.left, "left", NullPin)
  /\ UNCHANGED circuitVars

(* Of a slice or a concatenation only the left operand is emitted.         *)
PassOn ==
  /\ InNode
  /\ IsOperation({"SLICE", "CONCAT"})
  /\ Current.stage = "left"
  /\ HandBack(output)
  /\ UNCHANGED circuitVars

(* The result pin of a NOT is not handed back.                             *)
EmitNot ==
  /\ InNode
  /\ IsOperation({"NOT"})
  /\ Current.stage = "left"
  /\ AddDrivenPin(output, NullPin, TRUTH_INVERT)
  /\ IF RoomForPin /\ RoomForGate THEN HandBack(NullPin) ELSE Return("failed")

EnterRight ==
  /\ InNode
  /\ IsBinary
  /\ Current.stage = "left"
  /\ Enter(Node.right, "right", output)
  /\ UNCHANGED circuitVars

(* Fault: a missing operand is not noticed.                                *)
emitBinaryGateFault ==
  /\ InNode
  /\ IsBinary
  /\ Current.stage = "right"
  /\ AddDrivenPin(Current.left, output, truthByteFor(Node.operation))
  /\ IF RoomForPin /\ RoomForGate THEN HandBack(NullPin) ELSE Return("failed")

(* Neither is that of a binary operation, and an operand without a pin     *)
(* ends the compilation.                                                   *)
emitBinaryGate ==
  /\ InNode
  /\ IsBinary
  /\ Current.stage = "right"
  /\ IF NullPin \in {Current.left, output}
     THEN /\ Return("failed")
          /\ UNCHANGED circuitVars
     ELSE /\ AddDrivenPin(Current.left, output, truthByteFor(Node.operation))
          /\ IF RoomForPin /\ RoomForGate THEN HandBack(NullPin) ELSE Return("failed")

EnterSide ==
  /\ InEquation
  /\ \/ /\ Current.stage = "enter"
        /\ Enter(equations[variable].lhs, "left", NullPin)
     \/ /\ Current.stage = "left"
        /\ Enter(equations[variable].rhs, "right", output)
  /\ UNCHANGED circuitVars

(* Fault: the right side stands where the gate has its result.             *)
EmitEqualityFault ==
  /\ InEquation
  /\ Current.stage = "right"
  /\ IF RoomForGate
     THEN /\ gates' = WithGate(Current.left, Current.left, output, TRUTH_EQUAL)
          /\ frames' = << >>
          /\ variable' = variable + 1
          /\ output' = NullPin
          /\ UNCHANGED <<modelVars, phase, bit, outcome>>
     ELSE /\ Return("failed")
          /\ UNCHANGED gates
  /\ UNCHANGED pins

(* The sides are compared by a gate without a third pin.                   *)
EmitEquality ==
  /\ InEquation
  /\ Current.stage = "right"
  /\ IF RoomForGate
     THEN /\ gates' = WithGate(Current.left, output, NullPin, TRUTH_EQUAL)
          /\ frames' = << >>
          /\ variable' = variable + 1
          /\ output' = NullPin
          /\ UNCHANGED <<modelVars, phase, bit, outcome>>
     ELSE /\ Return("failed")
          /\ UNCHANGED gates
  /\ UNCHANGED pins

compile ==
  \/ AddVariablePin \/ NextVariable \/ VariablesDone
  \/ BeginEquation \/ EnterSide \/ EmitEquality \/ EquationsDone
  \/ EmitLeaf \/ EnterLeft \/ PassOn \/ EmitNot \/ EnterRight \/ emitBinaryGate

Next == EditModel \/ compileModelToCircuit \/ compile

Spec == Init /\ [][Next]_vars

-----------------------------------------------------------------------------
(* Which expressions have a pin for their value, and which can be emitted, *)
(* by structure alone.                                                     *)

HasPin[n \in NodeUid] ==
  IF nodes[n].type = "OPERATION"
  THEN nodes[n].operation \in {"SLICE", "CONCAT"} /\ HasPin[nodes[n].left]
  ELSE TRUE

Emits[n \in NodeUid] ==
  LET node == nodes[n]
  IN IF node.type # "OPERATION" THEN TRUE
     ELSE IF node.operation \in Unary THEN Emits[node.left]
     ELSE HasPin[node.left] /\ HasPin[node.right]

EveryEquationEmits ==
  \A e \in 1 .. Len(equations) : Emits[equations[e].lhs] /\ Emits[equations[e].rhs]

(* A compilation that reports success has lost no operand: emitExpression  *)
(* hands the result pin of an operation to nobody, through slices and      *)
(* concatenations and at any depth, and no binary operation was emitted    *)
(* over such a result, nor an equation skipped that has one.  (That the    *)
(* code refuses those equations is against its documentation, see          *)
(* NestedExpressionsCompile.)                                              *)
NoOperandLost == outcome = "compiled" => EveryEquationEmits

(* Nothing a compilation adds constrains what was there: every solution of *)
(* the circuit before a step extends to one after it.  A compilation that  *)
(* fails half way therefore leaves a circuit with the solutions it had.    *)
Conservative ==
  [][ circuitVars' # circuitVars =>
        \A assignment \in Solutions(pins) :
          \E v \in Bit :
            [p \in PinUid' |-> IF p \in PinUid THEN assignment[p] ELSE v]
              \in Solutions(pins)' ]_vars

(* Signals flow one way through a compiled circuit: a gate's third pin is  *)
(* newer than its first two, no other gate has it as its third, and gates  *)
(* stand in the order of their results, so that one pass of the solver     *)
(* evaluates an expression (emitExpression's post-order).                  *)
FeedForward ==
  \A g \in 1 .. Len(gates) :
    LET pin == gates[g].pin
    IN pin[3] # NullPin =>
         /\ pin[1] < pin[3]
         /\ pin[2] < pin[3]
         /\ \A h \in 1 .. g - 1 : gates[h].pin[3] < pin[3]

-----------------------------------------------------------------------------
(* docs/specification.md 10.1: the sides of a relation may contain "deeply *)
(* nested expressions".  A compilation that fails has no room left in the  *)
(* circuit.  The result pin of an operation is not handed back, and the    *)
(* operation around it refuses an operand without a pin.                   *)
NestedExpressionsCompile == outcome = "failed" => ~RoomForPin \/ ~RoomForGate

(* docs/synthesis-logic.txt: "Relations become equality or comparison      *)
(* gates."  The byte taken for equality constrains a third pin, and        *)
(* compileModelToCircuit attaches none: the sides may differ.              *)
EquationsEnforced ==
  \A g \in 1 .. Len(gates) :
    LET pin == gates[g].pin
    IN gates[g].truth_byte = TRUTH_EQUAL /\ pin[3] = NullPin /\ NullPin \notin {pin[1], pin[2]} =>
         \A assignment \in Solutions(pins) : assignment[pin[1]] = assignment[pin[2]]

=============================================================================
