---------------------------- MODULE Solver_proofs ----------------------------
(***************************************************************************)
(* Proofs about Solver and about Solver with its diagnostics, for every    *)
(* circuit, every gate list order and every limit: types; soundness of     *)
(* what a call derives; the fixpoint and the number of passes; the result  *)
(* as the closure of what was given, whatever the order of the gate list;  *)
(* the explanation a call leaves behind.                                   *)
(***************************************************************************)
EXTENDS SolverDiagnostics, Counting, SequenceTheorems

-----------------------------------------------------------------------------
(* Type correctness. *)

LEMMA ByteConstants ==
  /\ TRUTH_UNIVERSAL_FREEDOM \in Byte
  /\ TRUTH_UNIVERSAL_CONTRADICTION \in Byte
  BY DEF TRUTH_UNIVERSAL_FREEDOM, TRUTH_UNIVERSAL_CONTRADICTION, Byte

LEMMA PinFacts ==
  ASSUME TopologyTypeOK
  PROVE  /\ Len(pins) \in Nat
         /\ Len(gates) \in Nat
         /\ \A p \in PinUid : pins[p] \in PinRecord
         /\ \A g \in 1 .. Len(gates) :
              /\ gates[g] \in GateRecord
              /\ \A i \in Position : gates[g].pin[i] # NullPin => gates[g].pin[i] \in PinUid
  BY ElementOfSeq, LenProperties DEF TopologyTypeOK, PinUid

(* Replacing one pin by another record keeps the list well formed.         *)
LEMMA PinReplaced ==
  ASSUME TopologyTypeOK, NEW p \in PinUid, NEW r \in PinRecord,
         pins' = [pins EXCEPT ![p] = r], gates' = gates
  PROVE  /\ TopologyTypeOK'
         /\ Len(pins') = Len(pins)
         /\ pins'[p] = r
         /\ \A q \in PinUid : q # p => pins'[q] = pins[q]
<1>1. /\ pins' \in Seq(PinRecord)
      /\ Len(pins') = Len(pins)
      /\ \A q \in 1 .. Len(pins) : pins'[q] = IF q = p THEN r ELSE pins[q]
  BY ExceptSeq DEF TopologyTypeOK, PinUid
<1> QED
  BY <1>1 DEF TopologyTypeOK, PinUid

LEMMA TopologyTypeCorrect ==
  ASSUME CircuitAssumption, TopologyTypeOK, TopologyNext
  PROVE  /\ TopologyTypeOK'
         /\ Len(gates') >= Len(gates)
<1>0. /\ Len(pins) \in Nat
      /\ Len(gates) \in Nat
      /\ \A p \in PinUid : pins[p] \in PinRecord
      /\ \A g \in 1 .. Len(gates) : gates[g] \in GateRecord
  BY PinFacts
<1>1. CASE addPin
  <2>1. [state |-> "FLOATING", locked |-> FALSE, value |-> 0] \in PinRecord
    BY DEF PinRecord, SignalState, Bit
  <2>2. pins' \in Seq(PinRecord) /\ Len(pins') = Len(pins) + 1
    BY <1>1, <2>1, AppendProperties DEF addPin, TopologyTypeOK
  <2> QED
    BY <1>0, <1>1, <2>2 DEF addPin, TopologyTypeOK, PinUid
<1>2. ASSUME NEW wiring \in Wirings, NEW truth_byte \in TruthBytes, addGate(wiring, truth_byte)
      PROVE  TopologyTypeOK' /\ Len(gates') >= Len(gates)
  <2> DEFINE new == [pin |-> wiring, truth_byte |-> truth_byte, released |-> FALSE]
  <2>1. new \in GateRecord
    BY CircuitAssumption DEF CircuitAssumption, GateRecord
  <2>2. /\ gates' = Append(gates, new)
        /\ pins' = pins
        /\ \A i \in Position : new.pin[i] \in PinUid \union {NullPin}
    BY <1>2 DEF addGate
  <2>3. /\ gates' \in Seq(GateRecord)
        /\ Len(gates') = Len(gates) + 1
        /\ \A g \in 1 .. Len(gates) : gates'[g] = gates[g]
        /\ gates'[Len(gates) + 1] = new
    BY <2>1, <2>2, AppendProperties DEF TopologyTypeOK
  <2>4. ASSUME NEW g \in 1 .. Len(gates'), NEW i \in Position
        PROVE  gates'[g].pin[i] \in PinUid' \union {NullPin}
    BY <2>2, <2>3 DEF TopologyTypeOK, PinUid
  <2> QED
    BY <1>0, <2>2, <2>3, <2>4 DEF TopologyTypeOK
<1>3. ASSUME NEW p \in PinUid, NEW v \in Bit, lockPin(p, v)
      PROVE  TopologyTypeOK' /\ Len(gates') >= Len(gates)
  <2> DEFINE r == [state |-> SignalFor(v), locked |-> TRUE, value |-> v]
  <2>1. r \in PinRecord
    BY DEF PinRecord, SignalState, SignalFor, Bit
  <2>2. pins' = [pins EXCEPT ![p] = r] /\ gates' = gates
    BY <1>3 DEF lockPin
  <2>3. TopologyTypeOK'
    BY <2>1, <2>2, PinReplaced
  <2> QED
    BY <1>0, <2>2, <2>3
<1>4. ASSUME NEW p \in PinUid, unlockPin(p)
      PROVE  TopologyTypeOK' /\ Len(gates') >= Len(gates)
  <2> DEFINE r == [pins[p] EXCEPT !.locked = FALSE, !.state = "FLOATING"]
  <2>1. r \in PinRecord
    BY <1>0 DEF PinRecord, SignalState
  <2>2. pins' = [pins EXCEPT ![p] = r] /\ gates' = gates
    BY <1>4 DEF unlockPin
  <2>3. TopologyTypeOK'
    BY <2>1, <2>2, PinReplaced
  <2> QED
    BY <1>0, <2>2, <2>3
<1>5. ASSUME NEW g \in 1 .. Len(gates), markReleased(g)
      PROVE  TopologyTypeOK' /\ Len(gates') >= Len(gates)
  <2> DEFINE new == [gates[g] EXCEPT !.released = TRUE, !.truth_byte = TRUTH_UNIVERSAL_FREEDOM]
  <2>1. new \in GateRecord /\ new.pin = gates[g].pin
    BY <1>0, ByteConstants DEF GateRecord
  <2>2. /\ gates' = [gates EXCEPT ![g] = new]
        /\ pins' = pins
    BY <1>5 DEF markReleased
  <2>3. /\ gates' \in Seq(GateRecord)
        /\ Len(gates') = Len(gates)
        /\ \A h \in 1 .. Len(gates) : gates'[h] = IF h = g THEN new ELSE gates[h]
    BY <2>1, <2>2, ExceptSeq DEF TopologyTypeOK
  <2>4. ASSUME NEW h \in 1 .. Len(gates'), NEW i \in Position
        PROVE  gates'[h].pin[i] \in PinUid' \union {NullPin}
    BY <2>1, <2>2, <2>3 DEF TopologyTypeOK, PinUid
  <2> QED
    BY <1>0, <2>2, <2>3, <2>4 DEF TopologyTypeOK
<1> QED
  BY <1>1, <1>2, <1>3, <1>4, <1>5 DEF TopologyNext

(* What the two actions that write a pin do to the pin list.               *)
LEMMA AssignTargetFacts ==
  ASSUME TypeOK, AssignTarget
  PROVE  /\ TopologyTypeOK'
         /\ Len(pins') = Len(pins)
         /\ Gate.pin[target] \in PinUid
         /\ \E v \in Bit :
              /\ ForcedTo(target, v)
              /\ pins'[Gate.pin[target]] = [pins[Gate.pin[target]] EXCEPT !.value = v, !.state = SignalFor(v)]
         /\ \A q \in PinUid : q # Gate.pin[target] => pins'[q] = pins[q]
<1>1. PICK v \in Bit :
        /\ ForcedTo(target, v)
        /\ pins' = [pins EXCEPT ![Gate.pin[target]] = [@ EXCEPT !.value = v, !.state = SignalFor(v)]]
  BY DEF AssignTarget
<1> DEFINE p == Gate.pin[target]
           r == [pins[p] EXCEPT !.value = v, !.state = SignalFor(v)]
<1>2. gates' = gates
  BY DEF AssignTarget, NextTarget
<1>3. TopologyTypeOK /\ at \in 1 .. Len(gates) /\ target \in Position
  BY DEF TypeOK, AssignTarget
<1>4. p \in PinUid
  BY <1>1, <1>3, PinFacts DEF ForcedTo, Eligible, Gate
<1>5. r \in PinRecord
  <2>1. pins[p] \in PinRecord
    BY <1>3, <1>4, PinFacts
  <2>2. SignalFor(v) \in SignalState
    BY DEF SignalFor, SignalState
  <2> QED
    BY <2>1, <2>2 DEF PinRecord
<1>6. pins' = [pins EXCEPT ![p] = r]
  BY <1>1
<1>7. /\ TopologyTypeOK'
      /\ Len(pins') = Len(pins)
      /\ pins'[p] = r
      /\ \A q \in PinUid : q # p => pins'[q] = pins[q]
  BY <1>2, <1>3, <1>4, <1>5, <1>6, PinReplaced
<1> QED
  BY <1>1, <1>4, <1>7

LEMMA MarkConflictFacts ==
  ASSUME TypeOK, MarkConflict
  PROVE  /\ TopologyTypeOK'
         /\ Len(pins') = Len(pins)
         /\ Gate.pin[target] \in PinUid
         /\ Impossible(target)
         /\ pins'[Gate.pin[target]] = [pins[Gate.pin[target]] EXCEPT !.state = "CONFLICT"]
         /\ \A q \in PinUid : q # Gate.pin[target] => pins'[q] = pins[q]
<1> DEFINE p == Gate.pin[target]
           r == [pins[p] EXCEPT !.state = "CONFLICT"]
<1>1. Impossible(target) /\ pins' = [pins EXCEPT ![p] = r] /\ gates' = gates
  BY DEF MarkConflict, NextTarget
<1>2. TopologyTypeOK /\ at \in 1 .. Len(gates) /\ target \in Position
  BY DEF TypeOK, MarkConflict
<1>3. p \in PinUid
  BY <1>1, <1>2, PinFacts DEF Impossible, Eligible, Gate
<1>4. r \in PinRecord
  BY <1>2, <1>3, PinFacts DEF PinRecord, SignalState
<1>5. /\ TopologyTypeOK'
      /\ Len(pins') = Len(pins)
      /\ pins'[p] = r
      /\ \A q \in PinUid : q # p => pins'[q] = pins[q]
  BY <1>1, <1>2, <1>3, <1>4, PinReplaced
<1> QED
  BY <1>1, <1>3, <1>5

(* A step of a call leaves the circuit and the start alone.                *)
LEMMA CallFrame ==
  ASSUME TypeOK, propagate
  PROVE  /\ TopologyTypeOK'
         /\ Len(pins') = Len(pins)
         /\ gates' = gates
         /\ start' = start
         /\ phase # "idle"
         /\ AssignTarget \/ MarkConflict \/ pins' = pins
<1> USE DEF propagate, topology, local
<1>1. CASE AssignTarget
  BY <1>1, AssignTargetFacts DEF AssignTarget, NextTarget
<1>2. CASE MarkConflict
  BY <1>2, MarkConflictFacts DEF MarkConflict, NextTarget
<1>3. CASE ~AssignTarget /\ ~MarkConflict
  <2>1. /\ pins' = pins
        /\ gates' = gates
        /\ start' = start
        /\ phase # "idle"
    <3>1. CASE BeginPass
      BY <3>1 DEF BeginPass
    <3>2. CASE LoopLimit
      BY <3>2 DEF LoopLimit, Return
    <3>3. CASE SkipGate
      BY <3>3 DEF SkipGate, NextGate
    <3>4. CASE UniversalContradiction
      BY <3>4 DEF UniversalContradiction, Return
    <3>5. CASE ExamineGate
      BY <3>5 DEF ExamineGate
    <3>6. CASE EndScan
      BY <3>6 DEF EndScan
    <3>7. CASE SkipTarget
      BY <3>7 DEF SkipTarget, NextTarget
    <3>8. CASE VetoAssignment
      BY <3>8 DEF VetoAssignment, Return
    <3>9. CASE LeaveGate
      BY <3>9 DEF LeaveGate, NextGate
    <3>10. CASE VetoPass
      BY <3>10 DEF VetoPass, Return
    <3>11. CASE LocalContradiction
      BY <3>11 DEF LocalContradiction, Return
    <3>12. CASE Stabilised
      BY <3>12 DEF Stabilised, Return
    <3>13. CASE NextPass
      BY <3>13 DEF NextPass
    <3> QED
      BY <1>3, <3>1, <3>2, <3>3, <3>4, <3>5, <3>6, <3>7, <3>8, <3>9, <3>10, <3>11, <3>12, <3>13
  <2>2. TopologyTypeOK'
    BY <2>1 DEF TypeOK, TopologyTypeOK, PinUid
  <2> QED
    BY <2>1, <2>2
<1> QED
  BY <1>1, <1>2, <1>3

LEMMA InitTypeOK == Init => TypeOK
<1> SUFFICES ASSUME Init
             PROVE  TypeOK
  OBVIOUS
<1>1. pins = << >> /\ gates = << >> /\ start = << >>
  BY DEF Init, TopologyInit
<1>2. << >> \in Seq(PinRecord) /\ << >> \in Seq(GateRecord) /\ Len(<< >>) = 0
  BY EmptySeq
<1>3. TopologyTypeOK
  BY <1>1, <1>2 DEF TopologyTypeOK
<1>4. 1 \in 1 .. Len(gates) + 1
  BY <1>1, <1>2
<1>5. possible \in [Position -> SUBSET Bit] /\ known_pins \in SUBSET Position
  BY DEF Init
<1>6. cycle \in Nat /\ target \in 1 .. 4
  BY SMT DEF Init
<1>8. changed \in BOOLEAN /\ contradiction \in BOOLEAN
  BY Zenon DEF Init
<1>7. at = 1 /\ phase = "idle" /\ outcome = "none"
  BY DEF Init
<1> QED
  BY <1>1, <1>2, <1>3, <1>4, <1>5, <1>6, <1>7, <1>8 DEF TypeOK, Outcome

LEMMA StepTypeOK ==
  ASSUME CircuitAssumption, TypeOK, [Next]_vars
  PROVE  TypeOK'
<1> USE DEF topology, local, Outcome
<1>1. CASE Edit
  <2>1. TopologyTypeOK' /\ Len(gates') >= Len(gates)
    BY <1>1, TopologyTypeCorrect DEF Edit, TypeOK
  <2>2. Len(gates) \in Nat /\ Len(gates') \in Nat
    BY <2>1, LenProperties DEF TypeOK, TopologyTypeOK
  <2>3. start' \in Seq(PinRecord)
    BY <1>1, EmptySeq DEF Edit
  <2> QED
    BY <1>1, <2>1, <2>2, <2>3 DEF Edit, TypeOK
<1>2. CASE CallPropagate
  BY <1>2 DEF CallPropagate, TypeOK, TopologyTypeOK, PinUid
<1>3. CASE propagate
  <2>1. /\ TopologyTypeOK'
        /\ Len(pins') = Len(pins)
        /\ gates' = gates
        /\ start' = start
        /\ phase # "idle"
    BY <1>3, CallFrame
  <2>2. /\ Len(gates) \in Nat
        /\ Len(gates') \in Nat
        /\ 1 \in 1 .. Len(gates') + 1
    BY <2>1, LenProperties DEF TypeOK, TopologyTypeOK
  <2>3. start' \in Seq(PinRecord) /\ Len(start') = Len(pins')
    BY <2>1 DEF TypeOK
  <2>4. ASSUME NEW how \in Outcome, Return(how)
        PROVE  TypeOK'
    <3>1. possible' \in [Position -> SUBSET Bit] /\ known_pins' \in SUBSET Position
      BY <2>4 DEF Return
    <3>2. cycle' \in Nat /\ target' \in 1 .. 4
      BY <2>4, SMT DEF Return
    <3>4. changed' \in BOOLEAN /\ contradiction' \in BOOLEAN
      BY <2>4, Zenon DEF Return
    <3>3. at' = 1 /\ phase' = "idle" /\ outcome' = how
      BY <2>4 DEF Return
    <3> QED
      BY <2>1, <2>2, <2>3, <2>4, <3>1, <3>2, <3>3, <3>4 DEF TypeOK
  <2>5. CASE BeginPass
    BY <2>1, <2>2, <2>3, <2>5 DEF BeginPass, TypeOK
  <2>6. CASE LoopLimit
    BY <2>4, <2>6 DEF LoopLimit
  <2>7. CASE SkipGate
    BY <2>1, <2>2, <2>3, <2>7 DEF SkipGate, NextGate, TypeOK
  <2>8. CASE UniversalContradiction
    BY <2>4, <2>8 DEF UniversalContradiction
  <2>9. CASE ExamineGate
    <3>1. possible' \in [Position -> SUBSET Bit]
      BY <2>9 DEF ExamineGate, PossibleAt
    <3>2. known_pins' \in SUBSET Position
      BY <2>9 DEF ExamineGate, KnownPositions
    <3> QED
      BY <2>1, <2>2, <2>3, <2>9, <3>1, <3>2 DEF ExamineGate, TypeOK
  <2>10. CASE EndScan
    BY <2>1, <2>2, <2>3, <2>10 DEF EndScan, TypeOK
  <2>11. CASE SkipTarget
    BY <2>1, <2>2, <2>3, <2>11 DEF SkipTarget, NextTarget, TypeOK, Position
  <2>12. CASE AssignTarget
    BY <2>1, <2>2, <2>3, <2>12 DEF AssignTarget, NextTarget, TypeOK, Position
  <2>13. CASE VetoAssignment
    BY <2>4, <2>13 DEF VetoAssignment
  <2>14. CASE MarkConflict
    BY <2>1, <2>2, <2>3, <2>14 DEF MarkConflict, NextTarget, TypeOK, Position
  <2>15. CASE LeaveGate
    BY <2>1, <2>2, <2>3, <2>15 DEF LeaveGate, NextGate, TypeOK
  <2>16. CASE VetoPass
    BY <2>4, <2>16 DEF VetoPass
  <2>17. CASE LocalContradiction
    BY <2>4, <2>17 DEF LocalContradiction
  <2>18. CASE Stabilised
    BY <2>4, <2>18 DEF Stabilised
  <2>19. CASE NextPass
    BY <2>1, <2>2, <2>3, <2>19 DEF NextPass, TypeOK
  <2> QED
    BY <1>3, <2>5, <2>6, <2>7, <2>8, <2>9, <2>10, <2>11, <2>12, <2>13, <2>14, <2>15,
       <2>16, <2>17, <2>18, <2>19 DEF propagate
<1>4. CASE UNCHANGED vars
  BY <1>4 DEF vars, TypeOK, TopologyTypeOK, PinUid
<1> QED
  BY <1>1, <1>2, <1>3, <1>4 DEF Next

(* Every reachable state is well typed: pin uids held by gates stay valid, *)
(* the cursor stays inside the gate list, and during a call the pin list   *)
(* has the length it had when the call began (TypeOK of Solver).           *)
THEOREM TypeCorrect == Spec => []TypeOK
<1>1. Init => TypeOK
  BY InitTypeOK
<1>2. TypeOK /\ [Next]_vars => TypeOK'
  BY StepTypeOK, CircuitAssumption
<1> QED
  BY <1>1, <1>2, PTL DEF Spec

-----------------------------------------------------------------------------
(* Soundness: what a call derives is forced by what it was given. *)

(* What the locals of the loop body know about any solution.               *)
CursorSound ==
  phase = "targets" =>
    /\ \A i \in Position :
         Gate.pin[i] # NullPin /\ Known(start[Gate.pin[i]]) => i \in known_pins
    /\ \A assignment \in Solutions(start), i \in Position :
         Gate.pin[i] # NullPin /\ i \notin known_pins => assignment[Gate.pin[i]] \in possible[i]

FlagSound ==
  /\ contradiction => phase # "idle" /\ phase # "loop"
  /\ contradiction => Solutions(start) = {}

SoundInv ==
  /\ StartKept
  /\ DerivationsSound
  /\ CursorSound
  /\ FlagSound
  /\ ContradictionSound

LEMMA SolutionsFrame ==
  ASSUME gates' = gates, start' = start, Len(pins') = Len(pins)
  PROVE  Solutions(start)' = Solutions(start)
  BY DEF Solutions, PinUid, Admits, allows

LEMMA SolutionFacts ==
  ASSUME NEW given, NEW assignment \in Solutions(given)
  PROVE  /\ assignment \in [PinUid -> Bit]
         /\ \A g \in 1 .. Len(gates) : Admits(gates[g], assignment)
         /\ \A p \in PinUid : Known(given[p]) => assignment[p] = ValueOf(given[p])
  BY DEF Solutions

(* Intersecting the truth byte with the known pins loses no solution.      *)
LEMMA PossibleCovers ==
  ASSUME TopologyTypeOK, NEW g \in 1 .. Len(gates),
         NEW assignment \in [PinUid -> Bit],
         Admits(gates[g], assignment),
         \A p \in PinUid : Known(pins[p]) => assignment[p] = ValueOf(pins[p]),
         NEW i \in Position, gates[g].pin[i] # NullPin, i \notin KnownPositions(gates[g])
  PROVE  assignment[gates[g].pin[i]] \in PossibleAt(gates[g], i)
<1> DEFINE gate == gates[g]
<1>1. \A k \in Position : gate.pin[k] # NullPin => gate.pin[k] \in PinUid
  BY PinFacts
<1>2. PICK combination \in [Position -> Bit] :
        /\ allows(gate, combination)
        /\ \A k \in Position : gate.pin[k] # NullPin => combination[k] = assignment[gate.pin[k]]
  BY DEF Admits
<1>3. ASSUME NEW k \in KnownPositions(gate)
      PROVE  combination[k] = ValueOf(pins[gate.pin[k]])
  <2>1. k \in Position /\ gate.pin[k] # NullPin /\ Known(pins[gate.pin[k]])
    BY <1>3 DEF KnownPositions
  <2> QED
    BY <1>1, <1>2, <2>1
<1>4. combination[i] = assignment[gate.pin[i]] /\ combination[i] \in Bit
  BY <1>2
<1> QED
  BY <1>2, <1>3, <1>4 DEF PossibleAt

LEMMA ZeroByteAllowsNothing ==
  ASSUME NEW combination \in [Position -> Bit]
  PROVE  ~combinationAllowed(TRUTH_UNIVERSAL_CONTRADICTION,
                             combination[1], combination[2], combination[3])
<1>1. combination[1] \in {0, 1} /\ combination[2] \in {0, 1} /\ combination[3] \in {0, 1}
  BY DEF Position, Bit
<1>2. CombinationIndex(combination[1], combination[2], combination[3]) + 1 \in 1 .. 8
  BY <1>1 DEF CombinationIndex
<1>3. \A n \in 1 .. 8 : BitWeight[n] \in {1, 2, 4, 8, 16, 32, 64, 128}
  BY DEF BitWeight
<1>4. \A w \in {1, 2, 4, 8, 16, 32, 64, 128} : (0 \div w) % 2 = 0
  OBVIOUS
<1> QED
  BY <1>2, <1>3, <1>4 DEF combinationAllowed, TRUTH_UNIVERSAL_CONTRADICTION

LEMMA ContradictionGateUnsolvable ==
  ASSUME NEW g \in 1 .. Len(gates), gates[g].truth_byte = TRUTH_UNIVERSAL_CONTRADICTION
  PROVE  Solutions(start) = {}
<1> SUFFICES ASSUME NEW assignment \in Solutions(start)
             PROVE  FALSE
  OBVIOUS
<1>1. Admits(gates[g], assignment)
  BY SolutionFacts
<1> QED
  BY <1>1, ZeroByteAllowsNothing DEF Admits, allows

LEMMA AssignSound ==
  ASSUME TypeOK, SoundInv, AssignTarget
  PROVE  SoundInv'
<1> DEFINE p == Gate.pin[target]
<1>1. /\ Len(pins') = Len(pins)
      /\ p \in PinUid
      /\ \A q \in PinUid : q # p => pins'[q] = pins[q]
  BY AssignTargetFacts
<1>2. PICK v \in Bit :
        /\ ForcedTo(target, v)
        /\ pins'[p] = [pins[p] EXCEPT !.value = v, !.state = SignalFor(v)]
  BY AssignTargetFacts
<1>3. /\ phase = "targets" /\ phase' = phase
      /\ target \in Position
      /\ UNCHANGED <<gates, at, known_pins, possible, start, outcome, contradiction>>
  BY DEF AssignTarget, NextTarget
<1>4. PinUid' = PinUid /\ Solutions(start)' = Solutions(start) /\ InCall
  BY <1>1, <1>3, SolutionsFrame DEF PinUid, InCall
<1>5. p # NullPin /\ target \notin known_pins /\ possible[target] = {v}
  BY <1>2 DEF ForcedTo, Eligible
<1>6. pins'[p].state = SignalFor(v)
  <2>1. pins[p] \in PinRecord
    BY <1>1, PinFacts DEF TypeOK
  <2> QED
    BY <1>2, <2>1 DEF PinRecord
<1>7. ~Known(start[p])
  BY <1>3, <1>5 DEF SoundInv, CursorSound
<1>8. StartKept'
  BY <1>1, <1>3, <1>4, <1>7 DEF SoundInv, StartKept
<1>9. ASSUME NEW assignment \in Solutions(start), NEW q \in PinUid, Known(pins'[q])
      PROVE  assignment[q] = ValueOf(pins'[q])
  <2>1. CASE q = p
    <3>1. assignment[p] \in possible[target]
      BY <1>3, <1>5 DEF SoundInv, CursorSound
    <3>2. ValueOf(pins'[p]) = v
      BY <1>6 DEF ValueOf, SignalFor, Bit
    <3> QED
      BY <1>5, <2>1, <3>1, <3>2
  <2>2. CASE q # p
    BY <1>1, <1>4, <1>9, <2>2 DEF SoundInv, DerivationsSound
  <2> QED
    BY <2>1, <2>2
<1>10. DerivationsSound'
  BY <1>4, <1>9 DEF DerivationsSound
<1>11. CursorSound' /\ FlagSound' /\ ContradictionSound'
  BY <1>3, <1>4 DEF SoundInv, CursorSound, FlagSound, ContradictionSound, Gate
<1> QED
  BY <1>8, <1>10, <1>11 DEF SoundInv

LEMMA ConflictSound ==
  ASSUME TypeOK, SoundInv, MarkConflict
  PROVE  SoundInv'
<1> DEFINE p == Gate.pin[target]
<1>1. /\ Len(pins') = Len(pins)
      /\ p \in PinUid
      /\ Impossible(target)
      /\ pins'[p] = [pins[p] EXCEPT !.state = "CONFLICT"]
      /\ \A q \in PinUid : q # p => pins'[q] = pins[q]
  BY MarkConflictFacts
<1>2. /\ phase = "targets" /\ phase' = phase
      /\ target \in Position
      /\ contradiction' = TRUE
      /\ UNCHANGED <<gates, at, known_pins, possible, start, outcome>>
  BY DEF MarkConflict, NextTarget
<1>3. PinUid' = PinUid /\ Solutions(start)' = Solutions(start) /\ InCall
  BY <1>1, <1>2, SolutionsFrame DEF PinUid, InCall
<1>4. p # NullPin /\ target \notin known_pins /\ possible[target] = {}
  BY <1>1 DEF Impossible, Eligible
<1>5. ~Known(pins'[p])
  <2>1. pins[p] \in PinRecord
    BY <1>1, PinFacts DEF TypeOK
  <2> QED
    BY <1>1, <2>1 DEF PinRecord, Known
<1>6. ~Known(start[p])
  BY <1>2, <1>4 DEF SoundInv, CursorSound
<1>7. Solutions(start) = {}
  BY <1>2, <1>4 DEF SoundInv, CursorSound
<1>8. StartKept'
  BY <1>1, <1>2, <1>3, <1>6 DEF SoundInv, StartKept
<1>9. DerivationsSound' /\ CursorSound' /\ ContradictionSound'
  BY <1>2, <1>3, <1>7 DEF SoundInv, DerivationsSound, CursorSound, ContradictionSound, Gate
<1>10. FlagSound'
  BY <1>2, <1>3, <1>7 DEF FlagSound
<1> QED
  BY <1>8, <1>9, <1>10 DEF SoundInv

LEMMA ExamineSound ==
  ASSUME TypeOK, SoundInv, ExamineGate
  PROVE  SoundInv'
<1>1. /\ phase = "scan" /\ phase' = "targets"
      /\ at \in 1 .. Len(gates)
      /\ known_pins' = KnownPositions(Gate)
      /\ possible' = [i \in Position |-> PossibleAt(Gate, i)]
      /\ UNCHANGED <<pins, gates, at, start, outcome, contradiction>>
  BY DEF ExamineGate, topology
<1>2. PinUid' = PinUid /\ Solutions(start)' = Solutions(start) /\ InCall /\ Gate' = Gate
  BY <1>1, SolutionsFrame DEF PinUid, InCall, Gate
<1>3. \A k \in Position : Gate.pin[k] # NullPin => Gate.pin[k] \in PinUid
  BY <1>1, PinFacts DEF TypeOK, Gate
<1>4. ASSUME NEW i \in Position, Gate.pin[i] # NullPin, Known(start[Gate.pin[i]])
      PROVE  i \in known_pins'
  BY <1>1, <1>2, <1>3, <1>4 DEF SoundInv, StartKept, KnownPositions
<1>5. ASSUME NEW assignment \in Solutions(start), NEW i \in Position,
             Gate.pin[i] # NullPin, i \notin known_pins'
      PROVE  assignment[Gate.pin[i]] \in possible'[i]
  <2>1. /\ assignment \in [PinUid -> Bit]
        /\ Admits(gates[at], assignment)
    BY <1>1, SolutionFacts
  <2>2. \A q \in PinUid : Known(pins[q]) => assignment[q] = ValueOf(pins[q])
    BY <1>2 DEF SoundInv, DerivationsSound
  <2>3. assignment[gates[at].pin[i]] \in PossibleAt(gates[at], i)
    BY <1>1, <1>5, <2>1, <2>2, PossibleCovers DEF TypeOK, Gate
  <2> QED
    BY <1>1, <2>3 DEF Gate
<1>6. CursorSound'
  BY <1>1, <1>2, <1>4, <1>5 DEF CursorSound
<1>7. StartKept' /\ DerivationsSound' /\ FlagSound' /\ ContradictionSound'
  BY <1>1, <1>2 DEF SoundInv, StartKept, DerivationsSound, FlagSound, ContradictionSound, InCall
<1> QED
  BY <1>6, <1>7 DEF SoundInv

(* The steps that leave pins alone: everything but the two assignments,    *)
(* the examination of a gate, and the edits.                               *)
LEMMA QuietSound ==
  ASSUME TypeOK, SoundInv, propagate, ~AssignTarget, ~MarkConflict, ~ExamineGate
  PROVE  SoundInv'
<1> USE DEF topology, local
<1>1. /\ pins' = pins
      /\ gates' = gates
      /\ start' = start
      /\ phase # "idle"
      /\ Len(pins') = Len(pins)
  BY CallFrame
<1>2. PinUid' = PinUid /\ Solutions(start)' = Solutions(start) /\ InCall
  BY <1>1, SolutionsFrame DEF PinUid, InCall
<1>3. StartKept' /\ DerivationsSound'
  BY <1>1, <1>2 DEF SoundInv, StartKept, DerivationsSound
<1>4. ASSUME NEW how, Return(how),
             how = "contradiction" => Solutions(start) = {}
      PROVE  CursorSound' /\ FlagSound' /\ ContradictionSound'
  BY <1>2, <1>4 DEF Return, CursorSound, FlagSound, ContradictionSound
<1>5. ASSUME phase' # "targets", UNCHANGED outcome,
             contradiction' => contradiction /\ phase' \notin {"idle", "loop"}
      PROVE  CursorSound' /\ FlagSound' /\ ContradictionSound'
  BY <1>2, <1>5 DEF SoundInv, CursorSound, FlagSound, ContradictionSound
<1>6. CursorSound' /\ FlagSound' /\ ContradictionSound'
  <2>1. CASE BeginPass
    BY <1>5, <2>1 DEF BeginPass
  <2>2. CASE LoopLimit
    BY <1>4, <2>2 DEF LoopLimit
  <2>3. CASE SkipGate
    BY <1>5, <2>3 DEF SkipGate, NextGate
  <2>4. CASE UniversalContradiction
    BY <1>4, <2>4, ContradictionGateUnsolvable DEF UniversalContradiction, Gate
  <2>5. CASE EndScan
    BY <1>5, <2>5 DEF EndScan
  <2>6. CASE SkipTarget
    <3>1. /\ phase = "targets" /\ phase' = "targets"
          /\ UNCHANGED <<gates, at, known_pins, possible, outcome, contradiction>>
      BY <2>6 DEF SkipTarget, NextTarget
    <3> QED
      BY <1>1, <1>2, <3>1 DEF SoundInv, CursorSound, FlagSound, ContradictionSound, Gate
  <2>7. CASE VetoAssignment
    BY <1>4, <2>7 DEF VetoAssignment
  <2>8. CASE LeaveGate
    BY <1>5, <2>8 DEF LeaveGate, NextGate
  <2>9. CASE VetoPass
    BY <1>4, <2>9 DEF VetoPass
  <2>10. CASE LocalContradiction
    BY <1>4, <2>10 DEF LocalContradiction, SoundInv, FlagSound
  <2>11. CASE Stabilised
    BY <1>4, <2>11 DEF Stabilised
  <2>12. CASE NextPass
    BY <1>5, <2>12 DEF NextPass
  <2> QED
    BY <2>1, <2>2, <2>3, <2>4, <2>5, <2>6, <2>7, <2>8, <2>9, <2>10, <2>11, <2>12
       DEF propagate
<1> QED
  BY <1>3, <1>6 DEF SoundInv

LEMMA ClientSound ==
  ASSUME TypeOK, SoundInv, Edit \/ CallPropagate
  PROVE  SoundInv'
<1> USE DEF topology, local
<1>1. CASE Edit
  <2>1. /\ phase' = "idle" /\ outcome' = "none" /\ ~contradiction'
        /\ ~InCall'
    BY <1>1 DEF Edit, SoundInv, FlagSound, InCall
  <2> QED
    BY <2>1 DEF SoundInv, StartKept, DerivationsSound, CursorSound, FlagSound, ContradictionSound
<1>2. CASE CallPropagate
  <2>1. /\ pins' = pins /\ gates' = gates /\ start' = pins /\ phase' = "loop"
        /\ outcome' = "none" /\ ~contradiction'
    BY <1>2 DEF CallPropagate, SoundInv, FlagSound
  <2>2. StartKept' /\ CursorSound' /\ FlagSound' /\ ContradictionSound'
    BY <2>1 DEF StartKept, CursorSound, FlagSound, ContradictionSound
  <2>3. DerivationsSound'
    BY <2>1 DEF DerivationsSound, Solutions
  <2> QED
    BY <2>2, <2>3 DEF SoundInv
<1> QED
  BY <1>1, <1>2

LEMMA StutterSound ==
  ASSUME SoundInv, UNCHANGED vars
  PROVE  SoundInv'
<1>1. UNCHANGED <<pins, gates, phase, at, target, known_pins, possible, contradiction, start,
                  outcome>>
  BY DEF vars, local
<1>2. PinUid' = PinUid /\ Solutions(start)' = Solutions(start) /\ InCall' = InCall /\ Gate' = Gate
  BY <1>1, SolutionsFrame DEF PinUid, InCall, Gate
<1> QED
  BY <1>1, <1>2 DEF SoundInv, StartKept, DerivationsSound, CursorSound, FlagSound,
                    ContradictionSound

(* The inductive invariant behind the three theorems below: besides the    *)
(* claims themselves, the locals of the loop body cover every solution and *)
(* a raised contradiction flag means there is none.                        *)
THEOREM Soundness == Spec => []SoundInv
<1>1. Init => SoundInv
  BY DEF Init, SoundInv, StartKept, DerivationsSound, CursorSound, FlagSound,
         ContradictionSound, InCall
<1>2. TypeOK /\ SoundInv /\ [Next]_vars => SoundInv'
  BY AssignSound, ConflictSound, ExamineSound, QuietSound, ClientSound, StutterSound DEF Next
<1> QED
  BY <1>1, <1>2, TypeCorrect, PTL DEF Spec

(* Whatever propagate derives, on any circuit, is forced by the gates and  *)
(* the pins known when the call began (DerivationsSound of Solver).        *)
THEOREM DerivationsAreSound == Spec => []DerivationsSound
<1>1. SoundInv => DerivationsSound
  BY DEF SoundInv
<1> QED
  BY <1>1, Soundness, PTL

(* propagate reports a contradiction only of a circuit that has no         *)
(* solution (ContradictionSound of Solver).                                *)
THEOREM ContradictionsAreReal == Spec => []ContradictionSound
<1>1. SoundInv => ContradictionSound
  BY DEF SoundInv
<1> QED
  BY <1>1, Soundness, PTL

(* propagate never changes a pin that was known when it was called, locked *)
(* or not (StartKept of Solver).                                           *)
THEOREM StartIsKept == Spec => []StartKept
<1>1. SoundInv => StartKept
  BY DEF SoundInv
<1> QED
  BY <1>1, Soundness, PTL

-----------------------------------------------------------------------------
(* What the passes achieve: the fixpoint. *)

InPass == phase \in {"scan", "targets", "passEnd"}

(* A gate already behind the cursor of a pass that has changed nothing can *)
(* force nothing more; the gate under examination is judged position by    *)
(* position against the pins as they still are.                            *)
SettledBehind ==
  /\ InPass /\ ~changed /\ ~contradiction =>
       \A g \in 1 .. Len(gates) : g < at => Settled(gates[g])
  /\ phase = "targets" /\ ~changed /\ ~contradiction =>
       /\ known_pins = KnownPositions(Gate)
       /\ \A i \in Position : possible[i] = PossibleAt(Gate, i)
       /\ \A i \in Position : i < target /\ Eligible(i) => possible[i] = Bit
  /\ phase = "passEnd" => at = Len(gates) + 1

ReleasedFree ==
  \A g \in 1 .. Len(gates) :
    gates[g].released => gates[g].truth_byte = TRUTH_UNIVERSAL_FREEDOM

FixpointInv ==
  /\ ReleasedFree
  /\ phase # "idle" => outcome = "none"
  /\ SettledBehind
  /\ FixpointReached

LEMMA SettledFrame ==
  ASSUME pins' = pins, gates' = gates
  PROVE  /\ \A g \in 1 .. Len(gates) : Settled(gates[g])' = Settled(gates[g])
         /\ KnownPositions(Gate)' = KnownPositions(gates[at'])
         /\ \A i \in Position : PossibleAt(Gate, i)' = PossibleAt(gates[at'], i)
  BY DEF Settled, KnownPositions, PossibleAt, Gate, allows

LEMMA EditFixpoint ==
  ASSUME TypeOK, FixpointInv, Edit
  PROVE  FixpointInv'
<1>1. /\ phase' = "idle" /\ outcome' = "none"
      /\ TopologyNext
  BY DEF Edit
<1>2. gates \in Seq(GateRecord)
  BY DEF TypeOK, TopologyTypeOK
<1>3. ReleasedFree'
  <2>1. CASE gates' = gates
    BY <2>1 DEF FixpointInv, ReleasedFree
  <2>2. ASSUME NEW wiring \in Wirings, NEW truth_byte \in TruthBytes,
               addGate(wiring, truth_byte)
        PROVE  ReleasedFree'
    <3> DEFINE r == [pin |-> wiring, truth_byte |-> truth_byte, released |-> FALSE]
    <3>1. gates' = Append(gates, r) /\ ~r.released
      BY <2>2 DEF addGate
    <3>2. /\ Len(gates') = Len(gates) + 1
          /\ Len(gates) \in Nat
          /\ gates'[Len(gates) + 1] = r
          /\ \A g \in 1 .. Len(gates) : gates'[g] = gates[g]
      <4> HIDE DEF r
      <4> QED
        BY <1>2, <3>1, AppendProperties, LenProperties
    <3> HIDE DEF r
    <3> QED
      BY <3>1, <3>2 DEF FixpointInv, ReleasedFree
  <2>3. ASSUME NEW h \in 1 .. Len(gates), markReleased(h)
        PROVE  ReleasedFree'
    <3>1. \A g \in 1 .. Len(gates) : gates[g] \in GateRecord
      BY <1>2
    <3>2. Len(gates') = Len(gates)
      BY <1>2, <2>3 DEF markReleased
    <3> QED
      BY <1>2, <2>3, <3>1, <3>2 DEF markReleased, FixpointInv, ReleasedFree, GateRecord
  <2> QED
    BY <1>1, <2>1, <2>2, <2>3 DEF TopologyNext, addPin, lockPin, unlockPin
<1> QED
  BY <1>1, <1>3 DEF FixpointInv, SettledBehind, FixpointReached, InPass

LEMMA PropagateFixpoint ==
  ASSUME TypeOK, FixpointInv, propagate
  PROVE  FixpointInv'
<1> USE DEF topology, local
<1>1. gates' = gates /\ phase # "idle"
  BY CallFrame
<1>2. ReleasedFree'
  BY <1>1 DEF FixpointInv, ReleasedFree
<1>3. outcome = "none"
  BY <1>1 DEF FixpointInv
<1>4. Len(gates) \in Nat /\ at \in 1 .. Len(gates) + 1
  BY LenProperties DEF TypeOK, TopologyTypeOK
<1>5. ASSUME NEW how, Return(how), how # "stable"
      PROVE  FixpointInv'
  BY <1>2, <1>5 DEF Return, FixpointInv, SettledBehind, FixpointReached, InPass
(* A step that changes no pin, passes over no gate and stays in the call.  *)
<1>6. ASSUME phase' # "idle", UNCHANGED outcome
      PROVE  FixpointReached' /\ (phase' # "idle" => outcome' = "none")
  BY <1>3, <1>6 DEF FixpointReached
<1>7. CASE BeginPass
  BY <1>2, <1>4, <1>6, <1>7 DEF BeginPass, FixpointInv, SettledBehind
<1>8. CASE LoopLimit
  BY <1>5, <1>8 DEF LoopLimit
<1>9. ASSUME pins' = pins, phase = "scan", phase' = "scan", at \in 1 .. Len(gates), at' = at + 1,
             UNCHANGED <<outcome, changed, contradiction>>,
             ~changed /\ ~contradiction => Settled(gates[at])
      PROVE  FixpointInv'
  BY <1>1, <1>2, <1>4, <1>6, <1>9, SettledFrame DEF FixpointInv, SettledBehind, InPass
<1>10. CASE SkipGate
  <2>1. Settled(gates[at])
    BY <1>10 DEF SkipGate, Gate, Settled, FixpointInv, ReleasedFree
  <2> QED
    BY <1>9, <1>10, <2>1 DEF SkipGate, NextGate
<1>11. CASE UniversalContradiction
  BY <1>5, <1>11 DEF UniversalContradiction
<1>12. CASE ExamineGate
  <2>1. /\ pins' = pins /\ at' = at /\ phase = "scan" /\ phase' = "targets" /\ target' = 1
        /\ UNCHANGED <<outcome, changed, contradiction>>
        /\ known_pins' = KnownPositions(Gate)
        /\ possible' = [i \in Position |-> PossibleAt(Gate, i)]
    BY <1>12 DEF ExamineGate
  <2>2. /\ known_pins' = KnownPositions(Gate)'
        /\ \A i \in Position : possible'[i] = PossibleAt(Gate, i)'
    BY <1>1, <2>1, SettledFrame DEF Gate
  <2>3. \A i \in Position : ~(i < target')
    BY <2>1 DEF Position
  <2>4. ~changed' /\ ~contradiction' => \A g \in 1 .. Len(gates') : g < at' => Settled(gates[g])'
    BY <1>1, <2>1, SettledFrame DEF FixpointInv, SettledBehind, InPass
  <2>5. SettledBehind'
    BY <2>1, <2>2, <2>3, <2>4 DEF SettledBehind
  <2> QED
    BY <1>2, <1>6, <2>1, <2>5 DEF FixpointInv
<1>13. CASE EndScan
  BY <1>1, <1>2, <1>6, <1>13, SettledFrame DEF EndScan, FixpointInv, SettledBehind, InPass
<1>14. CASE SkipTarget
  <2>1. /\ pins' = pins /\ at' = at /\ phase = "targets" /\ phase' = "targets"
        /\ target' = target + 1 /\ target \in Position
        /\ UNCHANGED <<outcome, changed, contradiction, known_pins, possible>>
        /\ ~Eligible(target) \/ possible[target] = Bit
    BY <1>14 DEF SkipTarget, NextTarget
  <2>2. \A i \in Position : Eligible(i)' = Eligible(i) /\ PossibleAt(Gate, i)' = PossibleAt(Gate, i)
    BY <1>1, <2>1, SettledFrame DEF Eligible, PinAt, Gate
  <2>3. KnownPositions(Gate)' = KnownPositions(Gate)
    BY <1>1, <2>1, SettledFrame DEF Gate
  <2>4. \A i \in Position : i < target' => i < target \/ i = target
    BY <2>1 DEF Position
  <2>5. SettledBehind'
    BY <1>1, <2>1, <2>2, <2>3, <2>4, SettledFrame DEF FixpointInv, SettledBehind, InPass
  <2> QED
    BY <1>2, <1>6, <2>1, <2>5 DEF FixpointInv
<1>15. CASE AssignTarget
  BY <1>2, <1>6, <1>15 DEF AssignTarget, NextTarget, FixpointInv, SettledBehind
<1>16. CASE VetoAssignment
  BY <1>5, <1>16 DEF VetoAssignment
<1>17. CASE MarkConflict
  BY <1>2, <1>6, <1>17 DEF MarkConflict, NextTarget, FixpointInv, SettledBehind
<1>18. CASE LeaveGate
  <2>1. /\ pins' = pins /\ phase = "targets" /\ phase' = "scan" /\ target = 4 /\ at' = at + 1
        /\ UNCHANGED <<outcome, changed, contradiction>>
    BY <1>18 DEF LeaveGate, NextGate
  <2>2. at \in 1 .. Len(gates)
    BY <2>1 DEF TypeOK
  <2>3. \A i \in Position : i < target
    BY <2>1 DEF Position
  <2>4. ASSUME ~changed, ~contradiction
        PROVE  Settled(gates[at])
    <3>1. /\ known_pins = KnownPositions(Gate)
          /\ \A i \in Position : Eligible(i) => PossibleAt(Gate, i) = Bit
      BY <2>1, <2>3, <2>4 DEF FixpointInv, SettledBehind
    <3> QED
      BY <3>1 DEF Settled, Eligible, PinAt, Gate
  <2>5. ~changed' /\ ~contradiction' => \A g \in 1 .. Len(gates') : g < at' => Settled(gates[g])'
    BY <1>1, <1>4, <2>1, <2>2, <2>4, SettledFrame DEF FixpointInv, SettledBehind, InPass
  <2>6. SettledBehind'
    BY <2>1, <2>5 DEF SettledBehind
  <2> QED
    BY <1>2, <1>6, <2>1, <2>6 DEF FixpointInv
<1>19. CASE VetoPass
  BY <1>5, <1>19 DEF VetoPass
<1>20. CASE LocalContradiction
  BY <1>5, <1>20 DEF LocalContradiction
<1>21. CASE Stabilised
  <2>1. /\ pins' = pins /\ phase = "passEnd" /\ phase' = "idle" /\ ~changed /\ ~contradiction
    BY <1>21 DEF Stabilised, Return
  <2>2. \A g \in 1 .. Len(gates) : g < at /\ Settled(gates[g])
    BY <1>4, <2>1 DEF FixpointInv, SettledBehind, InPass
  <2>3. FixpointReached'
    BY <1>1, <2>1, <2>2, SettledFrame DEF FixpointReached
  <2>4. SettledBehind'
    BY <2>1 DEF SettledBehind, InPass
  <2> QED
    BY <1>2, <2>1, <2>3, <2>4 DEF FixpointInv
<1>22. CASE NextPass
  BY <1>2, <1>6, <1>22 DEF NextPass, FixpointInv, SettledBehind, InPass
<1> QED
  BY <1>7, <1>8, <1>10, <1>11, <1>12, <1>13, <1>14, <1>15, <1>16, <1>17, <1>18, <1>19, <1>20,
     <1>21, <1>22 DEF propagate

(* When propagate returns true no gate can force anything more: the outer  *)
(* loop stops only after a pass that changed nothing, and such a pass has  *)
(* judged every gate against the final pins (FixpointReached of Solver).   *)
THEOREM FixpointIsReached == Spec => []FixpointReached
<1>1. Init => FixpointInv
  BY EmptySeq DEF Init, TopologyInit, FixpointInv, ReleasedFree, SettledBehind, FixpointReached, InPass
<1>2. TypeOK /\ FixpointInv /\ [Next]_vars => FixpointInv'
  <2> SUFFICES ASSUME TypeOK, FixpointInv, [Next]_vars
               PROVE  FixpointInv'
    OBVIOUS
  <2>1. CASE CallPropagate
    BY <2>1, SettledFrame DEF CallPropagate, topology, FixpointInv, ReleasedFree, SettledBehind,
                FixpointReached, InPass
  <2>2. CASE UNCHANGED vars
    <3>1. UNCHANGED <<pins, gates, phase, at, target, known_pins, possible, changed,
                      contradiction, outcome>>
      BY <2>2 DEF vars, local
    <3>2. \A i \in Position : Eligible(i)' = Eligible(i)
      BY <3>1 DEF Eligible, PinAt, Gate
    <3> QED
      BY <3>1, <3>2, SettledFrame DEF FixpointInv, ReleasedFree, SettledBehind, FixpointReached,
                                      InPass, Gate
  <2> QED
    BY <2>1, <2>2, EditFixpoint, PropagateFixpoint DEF Next
<1>3. FixpointInv => FixpointReached
  BY DEF FixpointInv
<1> QED
  BY <1>1, <1>2, <1>3, TypeCorrect, PTL DEF Spec

-----------------------------------------------------------------------------
(* The number of passes. *)

(* Pins of the gate under examination that were not known on arrival: the  *)
(* only ones its targets may decide, or put into conflict again if the     *)
(* gate is wired to one pin twice.                                         *)
Fresh == { Gate.pin[i] : i \in Position \ known_pins }

PassInv ==
  /\ phase # "idle" => cycle <= Cardinality(Derived)
  /\ phase = "targets" => cycle <= Cardinality(Derived \ Fresh)
  /\ InPass /\ changed /\ ~contradiction => cycle + 1 <= Cardinality(Derived)
  /\ phase # "idle" => outcome = "none"
  /\ outcome = "limit" => MAX_LOOP_CYCLES <= Cardinality(Derived)

LEMMA PinUidFinite ==
  ASSUME Len(pins) \in Nat
  PROVE  IsFiniteSet(PinUid) /\ Cardinality(PinUid) = Len(pins)
<1> DEFINE N == Len(pins)
<1>1. N \in Nat
  OBVIOUS
<1> HIDE DEF N
<1>2. IsFiniteSet(1 .. N) /\ Cardinality(1 .. N) = IF 1 > N THEN 0 ELSE N - 1 + 1
  BY <1>1, FS_Interval
<1>3. Cardinality(1 .. N) = N
  BY <1>1, <1>2
<1> QED
  BY <1>2, <1>3 DEF N, PinUid

LEMMA DerivedFinite ==
  ASSUME TypeOK
  PROVE  /\ IsFiniteSet(Derived)
         /\ Cardinality(Derived) \in Nat
         /\ Cardinality(Derived) <= Len(pins)
<1>1. Len(pins) \in Nat
  BY LenProperties DEF TypeOK, TopologyTypeOK
<1>2. IsFiniteSet(PinUid) /\ Cardinality(PinUid) = Len(pins)
  BY <1>1, PinUidFinite
<1>3. Derived \subseteq PinUid
  BY DEF Derived
<1> QED
  BY <1>2, <1>3, FS_Subset, FS_CardinalityType

LEMMA DerivedFiniteNext ==
  TypeOK' => (IsFiniteSet(Derived) /\ Cardinality(Derived) \in Nat)'
<1>1. TypeOK => IsFiniteSet(Derived) /\ Cardinality(Derived) \in Nat
  BY DerivedFinite
<1> QED
  BY <1>1, PTL

LEMMA AssignPassInv ==
  ASSUME TypeOK, TypeOK', SoundInv, PassInv, AssignTarget
  PROVE  PassInv'
<1> DEFINE p == Gate.pin[target]
           old == Derived \ Fresh
<1>1. /\ Len(pins') = Len(pins)
      /\ p \in PinUid
      /\ \A q \in PinUid : q # p => pins'[q] = pins[q]
  BY AssignTargetFacts
<1>2. PICK v \in Bit :
        /\ ForcedTo(target, v)
        /\ pins'[p] = [pins[p] EXCEPT !.value = v, !.state = SignalFor(v)]
  BY AssignTargetFacts
<1>3. /\ phase = "targets" /\ phase' = "targets"
      /\ target \in Position
      /\ UNCHANGED <<gates, at, cycle, known_pins, start, outcome, contradiction>>
  BY DEF AssignTarget, NextTarget
<1>4. target \notin known_pins /\ p # NullPin
  BY <1>2 DEF ForcedTo, Eligible
<1>5. p \in Fresh /\ Fresh' = Fresh
  BY <1>3, <1>4 DEF Fresh, Gate
<1>6. Known(pins'[p])
  <2>1. pins[p] \in PinRecord
    BY <1>1, PinFacts DEF TypeOK
  <2>2. pins'[p].state = SignalFor(v)
    BY <1>2, <2>1 DEF PinRecord
  <2> QED
    BY <2>2 DEF Known, SignalFor
<1>7. ~Known(start[p])
  BY <1>3, <1>4 DEF SoundInv, CursorSound
<1>8. p \in Derived' /\ old \subseteq Derived' \ Fresh'
  BY <1>1, <1>3, <1>5, <1>6, <1>7 DEF Derived, PinUid
<1>9. IsFiniteSet(Derived') /\ Cardinality(Derived') \in Nat
  BY DerivedFiniteNext
<1>10. IsFiniteSet(old)
  BY <1>8, <1>9, FS_Subset
<1>11. cycle <= Cardinality(old) /\ cycle \in Nat /\ Cardinality(old) \in Nat
  BY <1>3, <1>10, FS_CardinalityType DEF PassInv, TypeOK
<1>12. Cardinality(old) <= Cardinality(Derived' \ Fresh')
  BY <1>8, <1>9, FS_Subset
<1>13. Cardinality(Derived' \ Fresh') \in Nat
  BY <1>9, FS_Subset, FS_CardinalityType
<1>14. cycle + 1 <= Cardinality(Derived')
  <2>1. p \notin old
    BY <1>5
  <2>2. Cardinality(old \union {p}) = Cardinality(old) + 1
    BY <1>10, <2>1, FS_AddElement
  <2>3. Cardinality(old \union {p}) <= Cardinality(Derived')
    BY <1>8, <1>9, FS_Subset
  <2> QED
    BY <1>9, <1>11, <2>2, <2>3
<1>15. outcome' = "none"
  BY <1>3 DEF PassInv
<1>16. cycle' <= Cardinality(Derived') /\ cycle' <= Cardinality(Derived' \ Fresh')
  BY <1>3, <1>9, <1>11, <1>12, <1>13, <1>14
<1> HIDE DEF old, p
<1> QED
  BY <1>3, <1>14, <1>15, <1>16 DEF PassInv

LEMMA ConflictPassInv ==
  ASSUME TypeOK, TypeOK', SoundInv, PassInv, MarkConflict
  PROVE  PassInv'
<1> DEFINE p == Gate.pin[target]
           old == Derived \ Fresh
<1>1. /\ Len(pins') = Len(pins)
      /\ p \in PinUid
      /\ Impossible(target)
      /\ \A q \in PinUid : q # p => pins'[q] = pins[q]
  BY MarkConflictFacts
<1>2. /\ phase = "targets" /\ phase' = "targets"
      /\ target \in Position
      /\ contradiction'
      /\ UNCHANGED <<gates, at, cycle, known_pins, start, outcome>>
  BY DEF MarkConflict, NextTarget
<1>3. p \in Fresh /\ Fresh' = Fresh
  BY <1>1, <1>2 DEF Fresh, Gate, Impossible, Eligible
<1>4. old \subseteq Derived' \ Fresh'
  BY <1>1, <1>2, <1>3 DEF Derived, PinUid
<1>5. IsFiniteSet(Derived') /\ Cardinality(Derived') \in Nat
  BY DerivedFiniteNext
<1>6. /\ Cardinality(old) <= Cardinality(Derived' \ Fresh')
      /\ Cardinality(Derived' \ Fresh') <= Cardinality(Derived')
      /\ Cardinality(Derived' \ Fresh') \in Nat
      /\ Cardinality(old) \in Nat
  BY <1>4, <1>5, FS_Subset, FS_CardinalityType
<1>7. cycle <= Cardinality(old) /\ cycle \in Nat
  BY <1>2 DEF PassInv, TypeOK
<1>8. cycle' <= Cardinality(Derived') /\ cycle' <= Cardinality(Derived' \ Fresh')
  BY <1>2, <1>5, <1>6, <1>7
<1>9. outcome' = "none"
  BY <1>2 DEF PassInv
<1> HIDE DEF old, p
<1> QED
  BY <1>2, <1>8, <1>9 DEF PassInv

LEMMA QuietPassInv ==
  ASSUME WatchdogAssumption, TypeOK, PassInv, propagate, ~AssignTarget, ~MarkConflict
  PROVE  PassInv'
<1> USE DEF topology, local
<1>1. /\ pins' = pins /\ gates' = gates /\ start' = start /\ phase # "idle"
  BY CallFrame
<1>2. Derived' = Derived
  BY <1>1 DEF Derived, PinUid
<1>3. cycle \in Nat /\ Cardinality(Derived) \in Nat /\ Cardinality(Derived) <= Len(pins)
  BY DerivedFinite DEF TypeOK
<1>4. cycle <= Cardinality(Derived)
  BY <1>1 DEF PassInv
<1>5. ASSUME NEW how, Return(how), how = "limit" => MAX_LOOP_CYCLES <= Cardinality(Derived)
      PROVE  PassInv'
  BY <1>1, <1>2, <1>5 DEF Return, PassInv, InPass
<1>6. CASE BeginPass
  BY <1>1, <1>2, <1>6 DEF BeginPass, PassInv, InPass
<1>7. CASE LoopLimit
  <2>1. MAX_LOOP_CYCLES <= Cardinality(Derived)
    BY <1>3, <1>4, <1>7 DEF LoopLimit, WatchdogAssumption
  <2> QED
    BY <1>5, <1>7, <2>1 DEF LoopLimit
<1>8. CASE SkipGate
  BY <1>1, <1>2, <1>8 DEF SkipGate, NextGate, PassInv, InPass
<1>9. CASE UniversalContradiction
  BY <1>5, <1>9 DEF UniversalContradiction
<1>10. CASE ExamineGate
  <2>1. /\ phase = "scan" /\ phase' = "targets"
        /\ known_pins' = KnownPositions(Gate)
        /\ UNCHANGED <<at, cycle, outcome, changed, contradiction>>
    BY <1>10 DEF ExamineGate
  <2>2. Derived' \ Fresh' = Derived
    BY <1>1, <1>2, <2>1 DEF Fresh, Gate, KnownPositions, Derived, PinUid, NullPin
  <2> QED
    BY <1>1, <1>2, <2>1, <2>2 DEF PassInv, InPass
<1>11. CASE EndScan
  BY <1>1, <1>2, <1>11 DEF EndScan, PassInv, InPass
<1>12. CASE SkipTarget
  <2>1. Fresh' = Fresh
    BY <1>1, <1>12 DEF SkipTarget, NextTarget, Fresh, Gate
  <2> QED
    BY <1>1, <1>2, <1>12, <2>1 DEF SkipTarget, NextTarget, PassInv, InPass
<1>13. CASE VetoAssignment
  BY <1>5, <1>13 DEF VetoAssignment
<1>14. CASE LeaveGate
  BY <1>1, <1>2, <1>14 DEF LeaveGate, NextGate, PassInv, InPass
<1>15. CASE VetoPass
  BY <1>5, <1>15 DEF VetoPass
<1>16. CASE LocalContradiction
  BY <1>5, <1>16 DEF LocalContradiction
<1>17. CASE Stabilised
  BY <1>5, <1>17 DEF Stabilised
<1>18. CASE NextPass
  BY <1>1, <1>2, <1>3, <1>18 DEF NextPass, PassInv, InPass
<1> QED
  BY <1>6, <1>7, <1>8, <1>9, <1>10, <1>11, <1>12, <1>13, <1>14, <1>15, <1>16, <1>17, <1>18
     DEF propagate

LEMMA ClientPassInv ==
  ASSUME TypeOK, TypeOK', PassInv, Edit \/ CallPropagate \/ UNCHANGED vars
  PROVE  PassInv'
<1>1. CASE Edit
  BY <1>1 DEF Edit, PassInv, InPass
<1>2. CASE CallPropagate
  <2>1. phase' = "loop" /\ cycle' = 0 /\ outcome' = "none"
    BY <1>2 DEF CallPropagate
  <2>2. Cardinality(Derived') \in Nat
    BY DerivedFiniteNext
  <2>3. cycle' <= Cardinality(Derived')
    BY <2>1, <2>2
  <2> QED
    BY <2>1, <2>3 DEF PassInv, InPass
<1>3. CASE UNCHANGED vars
  <2>1. UNCHANGED <<pins, gates, phase, cycle, at, known_pins, changed, contradiction, start,
                    outcome>>
    BY <1>3 DEF vars, local
  <2>2. Derived' = Derived /\ Fresh' = Fresh
    BY <2>1 DEF Derived, Fresh, Gate, PinUid
  <2> QED
    BY <2>1, <2>2 DEF PassInv, InPass
<1> QED
  BY <1>1, <1>2, <1>3

LEMMA PassesInvariant == Spec => []PassInv
<1>1. Init => PassInv
  BY DEF Init, PassInv, InPass
<1>2. TypeOK /\ TypeOK' /\ SoundInv /\ PassInv /\ [Next]_vars => PassInv'
  BY AssignPassInv, ConflictPassInv, QuietPassInv, ClientPassInv, WatchdogAssumption DEF Next
<1> QED
  BY <1>1, <1>2, TypeCorrect, Soundness, PTL DEF Spec

(* Every pass but the last decides at least one pin that stays decided, so *)
(* a call makes at most one pass more than it decides pins (PassesBounded  *)
(* of Solver).                                                             *)
THEOREM PassesAreBounded == Spec => []PassesBounded
<1>1. PassInv => PassesBounded
  BY DEF PassInv, PassesBounded
<1> QED
  BY <1>1, PassesInvariant, PTL

(* A call that derives fewer than MAX_LOOP_CYCLES pins never runs into the *)
(* limit (NeverExhausted of Solver).                                       *)
THEOREM LimitIsNeverReached == Spec => []NeverExhausted
<1>1. PassInv => NeverExhausted
  BY DEF PassInv, NeverExhausted
<1> QED
  BY <1>1, PassesInvariant, PTL

-----------------------------------------------------------------------------
(* The order of the gate list makes no difference. *)

(* What is known without looking at a pass: knowledge that covers the      *)
(* start, is kept by every gate and agrees with every solution.            *)
Closed(K) ==
  /\ K \in [PinUid -> SUBSET Bit]
  /\ \A p \in PinUid : Known(start[p]) => K[p] # {}
  /\ \A p \in PinUid, v \in Bit : ForcedBy(K, p, v) => K[p] # {}
  /\ \A assignment \in Solutions(start), p \in PinUid : K[p] \subseteq {assignment[p]}

LockedKnown == \A p \in PinUid : pins[p].locked => Known(pins[p])

ResultCovered ==
  InCall /\ Solutions(start) # {} =>
    \A K : Closed(K) => \A p \in PinUid : Known(pins[p]) => K[p] # {}

ArrivalCovered ==
  phase = "targets" /\ Solutions(start) # {} =>
    \A K : Closed(K) => \A k \in known_pins : K[Gate.pin[k]] # {}

(* What a legal combination that agrees with a solution on the pins known  *)
(* on arrival has at a position is among the values possible there.        *)
ArrivalExact ==
  phase = "targets" =>
    /\ Gate.truth_byte # TRUTH_UNIVERSAL_FREEDOM
    /\ known_pins # {}
    /\ \A k \in known_pins : Gate.pin[k] # NullPin
    /\ \A assignment \in Solutions(start), i \in Position, combination \in [Position -> Bit] :
         /\ Gate.pin[i] # NullPin
         /\ i \notin known_pins
         /\ allows(Gate, combination)
         /\ \A k \in known_pins : combination[k] = assignment[Gate.pin[k]]
         => combination[i] \in possible[i]

OrderInv == LockedKnown /\ ResultCovered /\ ArrivalCovered /\ ArrivalExact

(* Gate g, which touches the knowledge, has v at position i in every legal *)
(* combination that agrees with it.                                        *)
Forces(K, g, i, v) ==
  /\ gates[g].truth_byte # TRUTH_UNIVERSAL_FREEDOM
  /\ gates[g].pin[i] # NullPin
  /\ \E k \in Position : gates[g].pin[k] # NullPin /\ K[gates[g].pin[k]] # {}
  /\ \A combination \in [Position -> Bit] :
       /\ allows(gates[g], combination)
       /\ \A k \in Position : gates[g].pin[k] # NullPin /\ K[gates[g].pin[k]] # {}
                              => combination[k] \in K[gates[g].pin[k]]
       => combination[i] = v

LEMMA ForcedFacts ==
  ASSUME NEW K, NEW p, NEW v, ForcedBy(K, p, v)
  PROVE  \E g \in 1 .. Len(gates), i \in Position : gates[g].pin[i] = p /\ Forces(K, g, i, v)
  BY DEF ForcedBy, Forces

LEMMA ForcedIntro ==
  ASSUME NEW K, NEW g \in 1 .. Len(gates), NEW i \in Position, NEW v, Forces(K, g, i, v)
  PROVE  ForcedBy(K, gates[g].pin[i], v)
  BY DEF ForcedBy, Forces

LEMMA ClosedFrame ==
  ASSUME gates' = gates, start' = start, Len(pins') = Len(pins), NEW CONSTANT K
  PROVE  Closed(K)' <=> Closed(K)
<1>1. PinUid' = PinUid /\ Solutions(start)' = Solutions(start)
  BY SolutionsFrame DEF PinUid
<1>2. \A p \in PinUid, v \in Bit : ForcedBy(K, p, v)' <=> ForcedBy(K, p, v)
  BY DEF ForcedBy, allows
<1> QED
  BY <1>1, <1>2 DEF Closed

(* A value forced at a gate by the pins known on arrival is in every       *)
(* closed knowledge.                                                       *)
LEMMA AssignCovered ==
  ASSUME TypeOK, SoundInv, OrderInv, phase = "targets", target \in Position,
         Gate.pin[target] \in PinUid,
         NEW v \in Bit, ForcedTo(target, v), Solutions(start) # {}, NEW K, Closed(K)
  PROVE  K[Gate.pin[target]] # {}
<1>1. at \in 1 .. Len(gates) /\ Gate = gates[at]
  BY DEF TypeOK, Gate
<1>2. PICK assignment \in Solutions(start) : TRUE
  OBVIOUS
<1>3. \A k \in Position : Gate.pin[k] # NullPin => Gate.pin[k] \in PinUid
  BY <1>1, PinFacts DEF TypeOK
<1>4. /\ Gate.pin[target] # NullPin /\ target \notin known_pins /\ possible[target] = {v}
      /\ known_pins \subseteq Position
  BY DEF ForcedTo, Eligible, TypeOK
<1>5. /\ Gate.truth_byte # TRUTH_UNIVERSAL_FREEDOM
      /\ known_pins # {}
      /\ \A k \in known_pins : Gate.pin[k] # NullPin /\ K[Gate.pin[k]] # {}
  BY DEF OrderInv, ArrivalExact, ArrivalCovered
<1>6. \A k \in known_pins : K[Gate.pin[k]] \subseteq {assignment[Gate.pin[k]]}
  BY <1>3, <1>4, <1>5 DEF Closed
<1>7. ASSUME NEW combination \in [Position -> Bit],
             allows(Gate, combination),
             \A k \in Position : Gate.pin[k] # NullPin /\ K[Gate.pin[k]] # {}
                                  => combination[k] \in K[Gate.pin[k]]
      PROVE  combination[target] = v
  <2>1. \A k \in known_pins : combination[k] = assignment[Gate.pin[k]]
    BY <1>4, <1>5, <1>6, <1>7
  <2>2. combination[target] \in possible[target]
    BY <1>2, <1>4, <1>7, <2>1 DEF OrderInv, ArrivalExact
  <2> QED
    BY <1>4, <2>2
<1>8. ForcedBy(K, Gate.pin[target], v)
  <2>1. Forces(K, at, target, v)
    BY <1>1, <1>4, <1>5, <1>7 DEF Forces
  <2> QED
    BY <1>1, <2>1, ForcedIntro
<1> QED
  BY <1>8 DEF Closed

LEMMA AssignOrder ==
  ASSUME TypeOK, SoundInv, OrderInv, AssignTarget
  PROVE  OrderInv'
<1> DEFINE p == Gate.pin[target]
<1>1. /\ Len(pins') = Len(pins)
      /\ p \in PinUid
      /\ \A q \in PinUid : q # p => pins'[q] = pins[q]
  BY AssignTargetFacts
<1>2. PICK v \in Bit :
        /\ ForcedTo(target, v)
        /\ pins'[p] = [pins[p] EXCEPT !.value = v, !.state = SignalFor(v)]
  BY AssignTargetFacts
<1>3. /\ phase = "targets" /\ phase' = phase
      /\ target \in Position
      /\ UNCHANGED <<gates, at, known_pins, possible, start, outcome>>
  BY DEF AssignTarget, NextTarget
<1>4. PinUid' = PinUid /\ Solutions(start)' = Solutions(start) /\ InCall /\ Gate' = Gate
  BY <1>1, <1>3, SolutionsFrame DEF PinUid, InCall, Gate
<1>5. Known(pins'[p])
  <2>1. pins[p] \in PinRecord
    BY <1>1, PinFacts DEF TypeOK
  <2>2. pins'[p].state = SignalFor(v)
    BY <1>2, <2>1 DEF PinRecord
  <2> QED
    BY <2>2 DEF Known, SignalFor
<1>6. LockedKnown'
  BY <1>1, <1>4, <1>5 DEF OrderInv, LockedKnown
<1>7. ASSUME Solutions(start) # {}, NEW CONSTANT K, Closed(K), NEW q \in PinUid, Known(pins'[q])
      PROVE  K[q] # {}
  <2>1. CASE q = p
    BY <1>1, <1>2, <1>3, <1>7, <2>1, AssignCovered
  <2>2. CASE q # p
    BY <1>1, <1>4, <1>7, <2>2 DEF OrderInv, ResultCovered
  <2> QED
    BY <2>1, <2>2
<1>8. ResultCovered'
  BY <1>1, <1>3, <1>4, <1>7, ClosedFrame DEF ResultCovered
<1>9. ArrivalCovered'
  BY <1>1, <1>3, <1>4, ClosedFrame DEF OrderInv, ArrivalCovered
<1>10. ArrivalExact'
  BY <1>3, <1>4 DEF OrderInv, ArrivalExact, allows
<1> QED
  BY <1>6, <1>8, <1>9, <1>10 DEF OrderInv

LEMMA ConflictOrder ==
  ASSUME TypeOK, SoundInv, OrderInv, MarkConflict
  PROVE  OrderInv'
<1> DEFINE p == Gate.pin[target]
<1>1. /\ Len(pins') = Len(pins)
      /\ p \in PinUid
      /\ Impossible(target)
      /\ pins'[p] = [pins[p] EXCEPT !.state = "CONFLICT"]
      /\ \A q \in PinUid : q # p => pins'[q] = pins[q]
  BY MarkConflictFacts
<1>2. /\ phase = "targets" /\ phase' = phase
      /\ target \in Position
      /\ UNCHANGED <<gates, at, known_pins, possible, start, outcome>>
  BY DEF MarkConflict, NextTarget
<1>3. PinUid' = PinUid /\ Solutions(start)' = Solutions(start) /\ InCall /\ Gate' = Gate
  BY <1>1, <1>2, SolutionsFrame DEF PinUid, InCall, Gate
<1>4. ~Known(pins'[p]) /\ ~pins'[p].locked
  <2>1. pins[p] \in PinRecord /\ ~pins[p].locked
    BY <1>1, PinFacts DEF TypeOK, Impossible, Eligible, PinAt
  <2> QED
    BY <1>1, <2>1 DEF PinRecord, Known
<1>5. LockedKnown'
  BY <1>1, <1>3, <1>4 DEF OrderInv, LockedKnown
<1>6. \A q \in PinUid : Known(pins'[q]) => Known(pins[q])
  BY <1>1, <1>4
<1>7. ResultCovered'
  BY <1>1, <1>2, <1>3, <1>6, ClosedFrame DEF OrderInv, ResultCovered
<1>8. ArrivalCovered'
  BY <1>1, <1>2, <1>3, ClosedFrame DEF OrderInv, ArrivalCovered
<1>9. ArrivalExact'
  BY <1>2, <1>3 DEF OrderInv, ArrivalExact, allows
<1> QED
  BY <1>5, <1>7, <1>8, <1>9 DEF OrderInv

LEMMA ExamineOrder ==
  ASSUME TypeOK, SoundInv, OrderInv, ExamineGate
  PROVE  OrderInv'
<1>1. /\ phase = "scan" /\ phase' = "targets"
      /\ at \in 1 .. Len(gates)
      /\ Gate.truth_byte # TRUTH_UNIVERSAL_FREEDOM
      /\ KnownPositions(Gate) # {}
      /\ known_pins' = KnownPositions(Gate)
      /\ possible' = [i \in Position |-> PossibleAt(Gate, i)]
      /\ UNCHANGED <<pins, gates, at, start, outcome>>
  BY DEF ExamineGate, topology
<1>2. /\ PinUid' = PinUid /\ Solutions(start)' = Solutions(start) /\ InCall /\ Gate' = Gate
      /\ Len(pins') = Len(pins)
  BY <1>1, SolutionsFrame DEF PinUid, InCall, Gate
<1>3. \A k \in known_pins' : /\ k \in Position
                             /\ Gate.pin[k] # NullPin
                             /\ Gate.pin[k] \in PinUid
                             /\ Known(pins[Gate.pin[k]])
  BY <1>1, PinFacts DEF TypeOK, Gate, KnownPositions
<1>4. LockedKnown'
  BY <1>1, <1>2 DEF OrderInv, LockedKnown
<1>5. ResultCovered'
  BY <1>1, <1>2, ClosedFrame DEF OrderInv, ResultCovered, InCall
<1>6. ArrivalCovered'
  <2>1. ASSUME Solutions(start) # {}, NEW CONSTANT K, Closed(K), NEW k \in known_pins'
        PROVE  K[Gate.pin[k]] # {}
    BY <1>2, <1>3, <2>1 DEF OrderInv, ResultCovered
  <2> QED
    BY <1>1, <1>2, <2>1, ClosedFrame DEF ArrivalCovered
<1>7. ASSUME NEW assignment \in Solutions(start), NEW i \in Position,
             NEW combination \in [Position -> Bit],
             Gate.pin[i] # NullPin, i \notin known_pins', allows(Gate, combination),
             \A k \in known_pins' : combination[k] = assignment[Gate.pin[k]]
      PROVE  combination[i] \in possible'[i]
  <2>1. \A k \in KnownPositions(Gate) : combination[k] = ValueOf(pins[Gate.pin[k]])
    BY <1>1, <1>2, <1>3, <1>7 DEF SoundInv, DerivationsSound
  <2>2. combination[i] \in Bit
    BY <1>7
  <2>3. combination[i] \in PossibleAt(Gate, i)
    BY <1>1, <1>7, <2>1, <2>2 DEF PossibleAt
  <2> QED
    BY <1>1, <2>3
<1>8. ArrivalExact'
  BY <1>1, <1>2, <1>3, <1>7 DEF ArrivalExact, allows
<1> QED
  BY <1>4, <1>5, <1>6, <1>8 DEF OrderInv

(* The steps of propagate that neither write a pin nor examine a gate.     *)
LEMMA QuietOrder ==
  ASSUME TypeOK, OrderInv, propagate, ~AssignTarget, ~MarkConflict, ~ExamineGate
  PROVE  OrderInv'
<1> USE DEF topology, local
<1>1. /\ pins' = pins /\ gates' = gates /\ start' = start
      /\ phase # "idle"
      /\ Len(pins') = Len(pins)
  BY CallFrame
<1>2. PinUid' = PinUid /\ Solutions(start)' = Solutions(start) /\ InCall
  BY <1>1, SolutionsFrame DEF PinUid, InCall
<1>3. LockedKnown' /\ ResultCovered'
  BY <1>1, <1>2, ClosedFrame DEF OrderInv, LockedKnown, ResultCovered
<1>4. ASSUME phase' # "targets"
      PROVE  ArrivalCovered' /\ ArrivalExact'
  BY <1>4 DEF ArrivalCovered, ArrivalExact
<1>5. CASE SkipTarget
  <2>1. /\ phase = "targets" /\ phase' = "targets"
        /\ UNCHANGED <<gates, at, known_pins, possible>>
    BY <1>5 DEF SkipTarget, NextTarget
  <2>2. Gate' = Gate
    BY <2>1 DEF Gate
  <2>3. ArrivalCovered'
    BY <1>1, <1>2, <2>1, <2>2, ClosedFrame DEF OrderInv, ArrivalCovered
  <2>4. ArrivalExact'
    BY <1>1, <1>2, <2>1, <2>2 DEF OrderInv, ArrivalExact, allows
  <2> QED
    BY <1>3, <2>3, <2>4 DEF OrderInv
<1>6. CASE ~SkipTarget
  <2>1. phase' # "targets"
    BY <1>6 DEF propagate, BeginPass, LoopLimit, SkipGate, NextGate, UniversalContradiction,
                EndScan, VetoAssignment, LeaveGate, VetoPass, LocalContradiction, Stabilised,
                NextPass, Return
  <2> QED
    BY <1>3, <1>4, <2>1 DEF OrderInv
<1> QED
  BY <1>5, <1>6

LEMMA LockedStayKnown ==
  ASSUME TopologyTypeOK, LockedKnown, TopologyNext
  PROVE  LockedKnown'
<1>0. \A p \in PinUid : pins[p] \in PinRecord
  BY PinFacts
<1>1. CASE addPin
  <2> DEFINE r == [state |-> "FLOATING", locked |-> FALSE, value |-> 0]
  <2>1. /\ Len(pins') = Len(pins) + 1
        /\ \A p \in PinUid : pins'[p] = pins[p]
        /\ pins'[Len(pins) + 1] = r
        /\ Len(pins) \in Nat
    BY <1>1, AppendProperties DEF addPin, TopologyTypeOK, PinUid
  <2>2. ~r.locked
    OBVIOUS
  <2>3. ASSUME NEW p \in PinUid'
        PROVE  p \in PinUid \/ p = Len(pins) + 1
    BY <2>1 DEF PinUid
  <2> QED
    BY <2>1, <2>2, <2>3 DEF LockedKnown
<1>2. ASSUME NEW p \in PinUid, NEW r \in PinRecord, pins' = [pins EXCEPT ![p] = r],
             r.locked => Known(r)
      PROVE  LockedKnown'
  <2>1. /\ Len(pins') = Len(pins)
        /\ \A q \in PinUid : pins'[q] = IF q = p THEN r ELSE pins[q]
    BY <1>2, ExceptSeq DEF TopologyTypeOK, PinUid
  <2> QED
    BY <1>2, <2>1 DEF LockedKnown, PinUid
<1>3. ASSUME NEW p \in PinUid, NEW v \in Bit, lockPin(p, v)
      PROVE  LockedKnown'
  <2> DEFINE r == [state |-> SignalFor(v), locked |-> TRUE, value |-> v]
  <2>1. r \in PinRecord /\ Known(r) /\ pins' = [pins EXCEPT ![p] = r]
    BY <1>3 DEF lockPin, PinRecord, SignalState, SignalFor, Bit, Known
  <2> QED
    BY <1>2, <2>1
<1>4. ASSUME NEW p \in PinUid, unlockPin(p)
      PROVE  LockedKnown'
  <2> DEFINE r == [pins[p] EXCEPT !.locked = FALSE, !.state = "FLOATING"]
  <2>1. r \in PinRecord /\ ~r.locked
    BY <1>0 DEF PinRecord, SignalState
  <2>2. pins' = [pins EXCEPT ![p] = r]
    BY <1>4 DEF unlockPin
  <2> QED
    BY <1>2, <2>1, <2>2
<1>5. CASE pins' = pins
  BY <1>5 DEF LockedKnown, PinUid
<1> QED
  BY <1>1, <1>3, <1>4, <1>5 DEF TopologyNext, addGate, markReleased

LEMMA ClientOrder ==
  ASSUME TypeOK, SoundInv, OrderInv, Edit \/ CallPropagate
  PROVE  OrderInv'
<1> USE DEF topology, local
<1>1. CASE Edit
  <2>1. phase' = "idle" /\ outcome' = "none" /\ ~InCall'
    BY <1>1 DEF Edit, InCall
  <2>2. LockedKnown'
    BY <1>1, LockedStayKnown DEF Edit, OrderInv, TypeOK
  <2> QED
    BY <2>1, <2>2 DEF OrderInv, ResultCovered, ArrivalCovered, ArrivalExact
<1>2. CASE CallPropagate
  <2>1. /\ pins' = pins /\ start' = pins /\ phase' = "loop"
    BY <1>2 DEF CallPropagate
  <2>2. LockedKnown'
    BY <2>1 DEF OrderInv, LockedKnown, PinUid
  <2>3. ResultCovered'
    BY <2>1 DEF ResultCovered, Closed
  <2> QED
    BY <2>1, <2>2, <2>3 DEF OrderInv, ArrivalCovered, ArrivalExact
<1> QED
  BY <1>1, <1>2

LEMMA StutterOrder ==
  ASSUME OrderInv, UNCHANGED vars
  PROVE  OrderInv'
<1>1. UNCHANGED <<pins, gates, phase, at, known_pins, possible, start, outcome>>
  BY DEF vars, local
<1>2. PinUid' = PinUid /\ Solutions(start)' = Solutions(start) /\ InCall' = InCall /\ Gate' = Gate
  BY <1>1, SolutionsFrame DEF PinUid, InCall, Gate
<1> QED
  BY <1>1, <1>2, ClosedFrame
     DEF OrderInv, LockedKnown, ResultCovered, ArrivalCovered, ArrivalExact, allows

(* What a call has derived never goes beyond a closed knowledge.           *)
LEMMA OrderInvariant == Spec => []OrderInv
<1>1. Init => OrderInv
  BY EmptySeq DEF Init, TopologyInit, OrderInv, LockedKnown, ResultCovered, ArrivalCovered,
                  ArrivalExact, InCall, PinUid
<1>2. TypeOK /\ SoundInv /\ OrderInv /\ [Next]_vars => OrderInv'
  BY AssignOrder, ConflictOrder, ExamineOrder, QuietOrder, ClientOrder, StutterOrder DEF Next
<1> QED
  BY <1>1, <1>2, TypeCorrect, Soundness, PTL DEF Spec

-----------------------------------------------------------------------------
(* The closure is closed: as many rounds as there are pins are enough. *)

Rounds(r) == r = [n \in 0 .. Len(pins) |-> IF n = 0 THEN Given ELSE Widened(r[n - 1])]

Round == CHOOSE r : Rounds(r)

LEMMA ClosureIsRound == Closure = Round[Len(pins)]
  BY DEF Closure, Round, Rounds

LEMMA RoundsExist ==
  ASSUME TopologyTypeOK
  PROVE  Rounds(Round)
<1> DEFINE N == Len(pins)
           Equation(r, m) == r = [n \in 0 .. m |-> IF n = 0 THEN Given ELSE Widened(r[n - 1])]
           T == { m \in 0 .. N : \E r : Equation(r, m) }
<1>1. N \in Nat
  BY PinFacts
<1>2. \E r : Equation(r, 0)
  <2> DEFINE r == [n \in 0 .. 0 |-> Given]
  <2>1. Equation(r, 0)
    OBVIOUS
  <2> QED
    BY <2>1
<1>3. ASSUME NEW m \in 0 .. N, NEW r, Equation(r, m)
      PROVE  \E s : Equation(s, m + 1)
  <2> DEFINE s == [n \in 0 .. m + 1 |-> IF n = 0 THEN Given ELSE Widened(r[n - 1])]
  <2>1. m \in Nat
    BY <1>1
  <2>2. \A n \in 0 .. m : s[n] = r[n]
    BY <1>3, <2>1
  <2>3. \A n \in 0 .. m + 1 : n # 0 => n - 1 \in 0 .. m
    BY <2>1
  <2>4. \A n \in 0 .. m + 1 : n # 0 => s[n - 1] = r[n - 1]
    BY <2>2, <2>3
  <2>5. Equation(s, m + 1)
    BY <2>4
  <2> HIDE DEF Equation
  <2> QED
    BY <2>5
<1>4. T = 0 .. N
  <2> HIDE DEF Equation
  <2>1. 0 \in T
    BY <1>1, <1>2
  <2>2. \A m \in T : m < N => m + 1 \in T
    <3> SUFFICES ASSUME NEW m \in T, m < N
                 PROVE  m + 1 \in T
      OBVIOUS
    <3>1. m \in 0 .. N /\ m + 1 \in 0 .. N /\ \E r : Equation(r, m)
      BY <1>1
    <3>2. \E s : Equation(s, m + 1)
      BY <1>3, <3>1
    <3> QED
      BY <3>1, <3>2
  <2>3. T \subseteq 0 .. N
    OBVIOUS
  <2> HIDE DEF T, N
  <2> QED
    BY <1>1, <2>1, <2>2, <2>3, AllReached
<1>5. \E r : Equation(r, N)
  <2> HIDE DEF Equation
  <2> QED
    BY <1>1, <1>4
<1>6. \E r : Rounds(r)
  BY <1>5 DEF Rounds
<1> QED
  BY <1>6 DEF Round

LEMMA RoundSteps ==
  ASSUME TopologyTypeOK
  PROVE  /\ Len(pins) \in Nat
         /\ Round[0] = Given
         /\ \A n \in 0 .. Len(pins) : n < Len(pins) => Round[n + 1] = Widened(Round[n])
<1> DEFINE r == Round
           N == Len(pins)
<1>1. N \in Nat
  BY PinFacts
<1>2. Rounds(r)
  BY RoundsExist
<1> HIDE DEF r
<1>3. r[0] = Given
  BY <1>1, <1>2 DEF Rounds
<1>4. ASSUME NEW n \in 0 .. N, n < N
      PROVE  r[n + 1] = Widened(r[n])
  <2>1. n + 1 \in 0 .. N /\ n + 1 # 0 /\ (n + 1) - 1 = n
    BY <1>1, <1>4
  <2> QED
    BY <1>2, <2>1 DEF Rounds
<1> QED
  BY <1>1, <1>3, <1>4 DEF r

(* Applying every gate once more adds only what every solution has.        *)
LEMMA WidenedSound ==
  ASSUME TopologyTypeOK, NEW K \in [PinUid -> SUBSET Bit], NEW assignment \in Solutions(start),
         \A p \in PinUid : K[p] \subseteq {assignment[p]}
  PROVE  /\ Widened(K) \in [PinUid -> SUBSET Bit]
         /\ \A p \in PinUid : K[p] # {} => Widened(K)[p] # {}
         /\ \A p \in PinUid : Widened(K)[p] \subseteq {assignment[p]}
<1>1. /\ Widened(K) \in [PinUid -> SUBSET Bit]
      /\ \A p \in PinUid : K[p] # {} => Widened(K)[p] # {}
  BY DEF Widened
<1>2. ASSUME NEW p \in PinUid, NEW v \in Bit, ForcedBy(K, p, v)
      PROVE  v = assignment[p]
  <2>1. PICK g \in 1 .. Len(gates), i \in Position : gates[g].pin[i] = p /\ Forces(K, g, i, v)
    BY <1>2, ForcedFacts
  <2>2. PICK combination \in [Position -> Bit] :
           /\ allows(gates[g], combination)
           /\ \A k \in Position : gates[g].pin[k] # NullPin
                                  => combination[k] = assignment[gates[g].pin[k]]
    BY SolutionFacts DEF Admits
  <2>3. \A k \in Position : gates[g].pin[k] # NullPin => gates[g].pin[k] \in PinUid
    BY PinFacts
  <2>4. \A k \in Position : gates[g].pin[k] # NullPin /\ K[gates[g].pin[k]] # {}
                            => combination[k] \in K[gates[g].pin[k]]
    BY <2>2, <2>3
  <2>5. combination[i] = v /\ p # NullPin
    BY <2>1, <2>2, <2>4 DEF Forces
  <2> QED
    BY <2>1, <2>2, <2>5
<1>3. ASSUME NEW p \in PinUid
      PROVE  Widened(K)[p] \subseteq {assignment[p]}
  BY <1>2 DEF Widened
<1> QED
  BY <1>1, <1>3

(* The pins known after n rounds.                                          *)
Reached(n) == { p \in PinUid : Round[n][p] # {} }

LEMMA RoundsSound ==
  ASSUME TopologyTypeOK, NEW assignment \in Solutions(start)
  PROVE  \A n \in 0 .. Len(pins) :
           /\ Round[n] \in [PinUid -> SUBSET Bit]
           /\ \A p \in PinUid : Known(start[p]) => Round[n][p] # {}
           /\ \A p \in PinUid : Round[n][p] \subseteq {assignment[p]}
<1> DEFINE N == Len(pins)
           Good(K) == /\ K \in [PinUid -> SUBSET Bit]
                      /\ \A p \in PinUid : Known(start[p]) => K[p] # {}
                      /\ \A p \in PinUid : K[p] \subseteq {assignment[p]}
           T == { n \in 0 .. N : Good(Round[n]) }
<1>1. /\ N \in Nat
      /\ Round[0] = Given
      /\ \A n \in 0 .. N : n < N => Round[n + 1] = Widened(Round[n])
  BY RoundSteps
<1>2. Good(Given)
  BY SolutionFacts DEF Given, ValueOf, Bit
<1>3. ASSUME NEW K, Good(K)
      PROVE  Good(Widened(K))
  BY <1>3, WidenedSound
<1>4. T = 0 .. N
  <2> HIDE DEF Good
  <2>1. 0 \in T
    BY <1>1, <1>2
  <2>2. ASSUME NEW n \in T, n < N
        PROVE  n + 1 \in T
    <3>1. Good(Round[n + 1])
      BY <1>1, <1>3, <2>2
    <3> QED
      BY <1>1, <2>2, <3>1
  <2>3. T \subseteq 0 .. N
    OBVIOUS
  <2> HIDE DEF T, N
  <2> QED
    BY <1>1, <2>1, <2>2, <2>3, AllReached
<1> QED
  BY <1>4

(* A round that is not the last adds a pin.                                *)
LEMMA RoundsGrow ==
  ASSUME TopologyTypeOK, NEW assignment \in Solutions(start)
  PROVE  \A n \in 0 .. Len(pins) :
           \/ Widened(Round[n]) = Round[n]
           \/ Cardinality(Reached(n)) >= n
<1> DEFINE N == Len(pins)
           Still(n) == Widened(Round[n]) = Round[n]
           T == { n \in 0 .. N : Still(n) \/ Cardinality(Reached(n)) >= n }
<1>1. /\ N \in Nat
      /\ \A n \in 0 .. N : n < N => Round[n + 1] = Widened(Round[n])
  BY RoundSteps
<1>2. \A n \in 0 .. N : /\ IsFiniteSet(Reached(n))
                        /\ Cardinality(Reached(n)) \in Nat
  <2>1. IsFiniteSet(PinUid)
    BY <1>1, PinUidFinite
  <2>2. \A n : Reached(n) \subseteq PinUid
    BY DEF Reached
  <2> QED
    BY <2>1, <2>2, FS_Subset, FS_CardinalityType
<1>3. 0 \in T
  BY <1>1, <1>2
<1>4. ASSUME NEW n \in T, n < N
      PROVE  n + 1 \in T
  <2>1. n \in 0 .. N /\ n + 1 \in 0 .. N /\ Round[n + 1] = Widened(Round[n])
    BY <1>1, <1>4
  <2>2. CASE Still(n)
    BY <2>1, <2>2
  <2>3. CASE ~Still(n)
    <3> DEFINE K == Round[n]
    <3>1. /\ K \in [PinUid -> SUBSET Bit]
          /\ \A p \in PinUid : K[p] \subseteq {assignment[p]}
      BY <2>1, RoundsSound
    <3>2. /\ Widened(K) \in [PinUid -> SUBSET Bit]
          /\ \A p \in PinUid : K[p] # {} => Widened(K)[p] # {}
      BY <3>1, WidenedSound
    <3>3. PICK p \in PinUid : K[p] # Widened(K)[p]
      BY <2>3, <3>1, <3>2
    <3>4. K[p] = {} /\ Widened(K)[p] # {}
      BY <3>3 DEF Widened
    <3>5. p \in Reached(n + 1) /\ p \notin Reached(n) /\ Reached(n) \subseteq Reached(n + 1)
      BY <2>1, <3>2, <3>4 DEF Reached
    <3>6. Cardinality(Reached(n)) < Cardinality(Reached(n + 1))
      BY <1>2, <2>1, <3>5, FS_Subset
    <3>7. Cardinality(Reached(n)) >= n
      BY <1>4, <2>3
    <3>8. Cardinality(Reached(n + 1)) >= n + 1
      BY <1>2, <2>1, <3>6, <3>7
    <3> QED
      BY <2>1, <3>8
  <2> QED
    BY <2>2, <2>3
<1>5. T \subseteq 0 .. N
  OBVIOUS
<1>6. T = 0 .. N
  <2> HIDE DEF T, N
  <2> QED
    BY <1>1, <1>3, <1>4, <1>5, AllReached
<1> QED
  BY <1>6

LEMMA ClosureIsClosed ==
  ASSUME TopologyTypeOK, Solutions(start) # {}
  PROVE  Closed(Closure)
<1> DEFINE N == Len(pins)
           K == Round[N]
<1>0. PICK some \in Solutions(start) : TRUE
  OBVIOUS
<1>1. N \in Nat /\ N \in 0 .. N
  BY RoundSteps
<1>2. /\ K \in [PinUid -> SUBSET Bit]
      /\ \A p \in PinUid : Known(start[p]) => K[p] # {}
      /\ \A assignment \in Solutions(start), p \in PinUid : K[p] \subseteq {assignment[p]}
  BY <1>0, <1>1, RoundsSound
<1>3. Widened(K) = K
  <2>1. CASE Cardinality(Reached(N)) >= N
    <3>1. IsFiniteSet(PinUid) /\ Cardinality(PinUid) = N
      BY <1>1, PinUidFinite
    <3>2. Reached(N) \subseteq PinUid
      BY DEF Reached
    <3>3. Reached(N) = PinUid
      <4>1. IsFiniteSet(Reached(N)) /\ Cardinality(Reached(N)) \in Nat
            /\ Cardinality(Reached(N)) <= N
        BY <3>1, <3>2, FS_Subset, FS_CardinalityType
      <4>2. Cardinality(Reached(N)) = Cardinality(PinUid)
        BY <1>1, <2>1, <3>1, <4>1
      <4> QED
        BY <3>1, <3>2, <4>2, FS_Subset
    <3>4. \A p \in PinUid : K[p] # {}
      BY <3>3 DEF Reached
    <3> QED
      BY <1>2, <3>4 DEF Widened
  <2> QED
    BY <1>0, <1>1, <2>1, RoundsGrow
<1>4. ASSUME NEW p \in PinUid, NEW v \in Bit, ForcedBy(K, p, v)
      PROVE  K[p] # {}
  <2>1. SUFFICES ASSUME K[p] = {} PROVE FALSE
    OBVIOUS
  <2>2. v \in Widened(K)[p]
    BY <1>4, <2>1 DEF Widened
  <2> QED
    BY <1>3, <2>1, <2>2
<1>5. Closed(K)
  BY <1>2, <1>4 DEF Closed
<1> QED
  BY <1>5, ClosureIsRound

-----------------------------------------------------------------------------
(* At a fixpoint everything the closure knows has been derived. *)

(* One more application of every gate to pins that are known reaches only  *)
(* pins that are known: each gate is settled.                              *)
LEMMA FixpointCovers ==
  ASSUME TypeOK, SoundInv, LockedKnown, FixpointReached, outcome = "stable",
         NEW assignment \in Solutions(start), NEW K \in [PinUid -> SUBSET Bit],
         \A p \in PinUid : K[p] \subseteq {assignment[p]},
         \A p \in PinUid : K[p] # {} => Known(pins[p]),
         NEW q \in PinUid, NEW v \in Bit, ForcedBy(K, q, v)
  PROVE  Known(pins[q])
<1>1. SUFFICES ASSUME ~Known(pins[q]) PROVE FALSE
  OBVIOUS
<1>2. TopologyTypeOK /\ InCall
  BY DEF TypeOK, InCall
<1>3. PICK g \in 1 .. Len(gates), i \in Position : gates[g].pin[i] = q /\ Forces(K, g, i, v)
  BY ForcedFacts
<1> DEFINE gate == gates[g]
<1>4. /\ \A k \in Position : gate.pin[k] # NullPin => gate.pin[k] \in PinUid
      /\ gate.truth_byte # TRUTH_UNIVERSAL_FREEDOM
      /\ gate.pin[i] = q /\ q # NullPin
  BY <1>2, <1>3, PinFacts DEF Forces
<1>5. \A k \in Position : gate.pin[k] # NullPin /\ K[gate.pin[k]] # {}
                         => /\ k \in KnownPositions(gate)
                            /\ K[gate.pin[k]] = {ValueOf(pins[gate.pin[k]])}
  <2> SUFFICES ASSUME NEW k \in Position, gate.pin[k] # NullPin, K[gate.pin[k]] # {}
               PROVE  /\ k \in KnownPositions(gate)
                      /\ K[gate.pin[k]] = {ValueOf(pins[gate.pin[k]])}
    OBVIOUS
  <2>1. gate.pin[k] \in PinUid /\ Known(pins[gate.pin[k]])
    BY <1>4
  <2>2. assignment[gate.pin[k]] = ValueOf(pins[gate.pin[k]])
    BY <1>2, <2>1 DEF SoundInv, DerivationsSound
  <2>3. K[gate.pin[k]] \subseteq {assignment[gate.pin[k]]}
    BY <2>1
  <2> QED
    BY <2>1, <2>2, <2>3 DEF KnownPositions
<1>6. i \notin KnownPositions(gate) /\ ~pins[gate.pin[i]].locked
  BY <1>1, <1>4 DEF KnownPositions, LockedKnown
<1>7. KnownPositions(gate) # {}
  BY <1>3, <1>5 DEF Forces
<1>8. PossibleAt(gate, i) = Bit
  BY <1>4, <1>6, <1>7 DEF FixpointReached, Settled
<1>9. PICK w \in Bit : w # v
  BY DEF Bit
<1>10. PICK combination \in [Position -> Bit] :
         /\ combination[i] = w
         /\ allows(gate, combination)
         /\ \A k \in KnownPositions(gate) : combination[k] = ValueOf(pins[gate.pin[k]])
  <2>1. w \in PossibleAt(gate, i)
    BY <1>8
  <2> QED
    BY <1>4, <1>6, <2>1 DEF PossibleAt
<1>11. combination[i] = v
  <2>1. \A k \in Position : gate.pin[k] # NullPin /\ K[gate.pin[k]] # {}
                            => combination[k] \in K[gate.pin[k]]
    BY <1>5, <1>10
  <2> QED
    BY <1>3, <1>10, <2>1 DEF Forces
<1> QED
  BY <1>9, <1>10, <1>11

LEMMA ClosureCovered ==
  ASSUME TypeOK, SoundInv, LockedKnown, FixpointReached, outcome = "stable",
         Solutions(start) # {}, NEW q \in PinUid, Closure[q] # {}
  PROVE  Known(pins[q])
<1> DEFINE N == Len(pins)
           Covered(K) == \A p \in PinUid : K[p] # {} => Known(pins[p])
           T == { n \in 0 .. N : Covered(Round[n]) }
<1>1. TopologyTypeOK /\ InCall
  BY DEF TypeOK, InCall
<1>2. PICK assignment \in Solutions(start) : TRUE
  OBVIOUS
<1>3. /\ N \in Nat
      /\ Round[0] = Given
      /\ \A n \in 0 .. N : n < N => Round[n + 1] = Widened(Round[n])
  BY <1>1, RoundSteps
<1>4. 0 \in T
  <2>1. \A p \in PinUid : Given[p] # {} => Known(pins[p])
    BY <1>1 DEF Given, SoundInv, StartKept
  <2> QED
    BY <1>3, <2>1
<1>5. ASSUME NEW n \in T, n < N
      PROVE  n + 1 \in T
  <2> DEFINE K == Round[n]
  <2>1. n \in 0 .. N /\ n + 1 \in 0 .. N /\ Round[n + 1] = Widened(K)
    BY <1>3, <1>5
  <2>2. /\ K \in [PinUid -> SUBSET Bit]
        /\ \A p \in PinUid : K[p] \subseteq {assignment[p]}
        /\ \A p \in PinUid : K[p] # {} => Known(pins[p])
    BY <1>1, <1>5, <2>1, RoundsSound
  <2>3. ASSUME NEW p \in PinUid, Widened(K)[p] # {}
        PROVE  Known(pins[p])
    <3>1. CASE K[p] # {}
      BY <2>2, <3>1
    <3>2. CASE K[p] = {}
      <4>1. PICK v \in Bit : ForcedBy(K, p, v)
        BY <2>3, <3>2 DEF Widened
      <4> HIDE DEF K
      <4> QED
        BY <2>2, <4>1, FixpointCovers
    <3> QED
      BY <3>1, <3>2
  <2> QED
    BY <2>1, <2>3
<1>6. T \subseteq 0 .. N
  OBVIOUS
<1>7. T = 0 .. N
  <2> HIDE DEF T, N
  <2> QED
    BY <1>3, <1>4, <1>5, <1>6, AllReached
<1>8. Covered(Round[N])
  BY <1>3, <1>7
<1> QED
  BY <1>8, ClosureIsRound

(* The result of a completed call on a satisfiable circuit is the closure  *)
(* of what it was given under all gates: the order of the gate list, and   *)
(* the values seen half way through a pass, make no difference             *)
(* (OrderIndependent of Solver).                                           *)
THEOREM ResultIsOrderIndependent == Spec => []OrderIndependent
<1>1. TypeOK /\ SoundInv /\ OrderInv /\ FixpointReached => OrderIndependent
  <2> SUFFICES ASSUME TypeOK, SoundInv, OrderInv, FixpointReached,
                      outcome = "stable", Solutions(start) # {}, NEW p \in PinUid
               PROVE  Closure[p] = IF Known(pins[p]) THEN {ValueOf(pins[p])} ELSE {}
    BY DEF OrderIndependent
  <2>1. TopologyTypeOK /\ InCall /\ LockedKnown
    BY DEF TypeOK, InCall, OrderInv
  <2>2. PICK assignment \in Solutions(start) : TRUE
    OBVIOUS
  <2>3. Closed(Closure)
    BY <2>1, ClosureIsClosed
  <2>4. CASE Known(pins[p])
    <3>1. Closure[p] # {}
      BY <2>1, <2>3, <2>4 DEF OrderInv, ResultCovered
    <3>2. Closure[p] \subseteq {assignment[p]}
      BY <2>3 DEF Closed
    <3>3. assignment[p] = ValueOf(pins[p])
      BY <2>1, <2>4 DEF SoundInv, DerivationsSound
    <3> QED
      BY <2>4, <3>1, <3>2, <3>3
  <2>5. CASE ~Known(pins[p])
    BY <2>1, <2>5, ClosureCovered
  <2> QED
    BY <2>4, <2>5
<1> QED
  BY <1>1, TypeCorrect, Soundness, OrderInvariant, FixpointIsReached, PTL

-----------------------------------------------------------------------------
(* Every failure is explained. *)

(* The diagnostics and the outcome: a call under way has none yet.         *)
ExplainedInv ==
  /\ phase # "idle" => outcome = "none"
  /\ OutcomeExplained

LEMMA DiagnosticsTypeStep ==
  ASSUME DiagnosticsTypeOK, enterLoop \/ clear \/ set("LIMIT") \/ set("SOLVER")
                            \/ UNCHANGED diagnosticVars
  PROVE  DiagnosticsTypeOK'
<1>1. cycle_count' \in Nat
  BY DEF enterLoop, clear, set, diagnosticVars, DiagnosticsTypeOK
<1>2. record' \in DiagnosticCode
  BY DEF enterLoop, clear, set, diagnosticVars, DiagnosticsTypeOK, DiagnosticCode
<1>3. errorFlag' \in BOOLEAN
  <2>1. errorFlag' = TRUE \/ errorFlag' = FALSE \/ errorFlag' = errorFlag
    BY Zenon DEF enterLoop, clear, set, diagnosticVars
  <2> QED
    BY <2>1, Zenon DEF DiagnosticsTypeOK
<1> QED
  BY <1>1, <1>2, <1>3, Zenon DEF DiagnosticsTypeOK

(* A step of the two together is a step of Solver, or the client clears.   *)
LEMMA CallSteps ==
  ASSUME Call
  PROVE  propagate /\ (enterLoop \/ set("LIMIT") \/ set("SOLVER") \/ UNCHANGED diagnosticVars)
  BY DEF Call, Quiet, propagate

LEMMA CallPhase ==
  ASSUME propagate
  PROVE  phase # "idle"
  BY DEF propagate, BeginPass, LoopLimit, SkipGate, UniversalContradiction, ExamineGate, EndScan,
         SkipTarget, AssignTarget, VetoAssignment, MarkConflict, LeaveGate, VetoPass,
         LocalContradiction, Stabilised, NextPass

(* Types of the solver and the diagnostics together.                       *)
LEMMA TogetherTypeCorrect == SDSpec => []SDTypeOK
<1>1. SDInit => SDTypeOK
  <2>1. SDInit => DiagnosticsTypeOK
    <3>1. ASSUME SDInit
          PROVE  cycle_count \in Nat /\ record \in DiagnosticCode
      BY <3>1 DEF SDInit, DiagnosticsInit, DiagnosticCode
    <3>2. ASSUME SDInit
          PROVE  errorFlag \in BOOLEAN
      BY <3>2, Zenon DEF SDInit, DiagnosticsInit
    <3> QED
      BY <3>1, <3>2, Zenon DEF DiagnosticsTypeOK
  <2> QED
    BY <2>1, InitTypeOK DEF SDInit, SDTypeOK
<1>2. SDTypeOK /\ [SDNext]_allVars => SDTypeOK'
  <2> SUFFICES ASSUME SDTypeOK, [SDNext]_allVars
               PROVE  SDTypeOK'
    OBVIOUS
  <2>1. CASE ClearDiagnostics
    <3>1. TypeOK'
      BY <2>1 DEF ClearDiagnostics, SDTypeOK, TypeOK, TopologyTypeOK, PinUid, topology, local,
                  Outcome
    <3> QED
      BY <2>1, <3>1, DiagnosticsTypeStep DEF ClearDiagnostics, SDTypeOK
  <2>2. CASE ~ClearDiagnostics
    <3>1. [Next]_vars
      BY <2>2, CallSteps DEF SDNext, allVars, Next, BoundedCallPropagate
    <3>2. enterLoop \/ set("LIMIT") \/ set("SOLVER") \/ UNCHANGED diagnosticVars
      BY <2>2, CallSteps DEF SDNext, allVars
    <3> QED
      BY <3>1, <3>2, StepTypeOK, CircuitAssumption, DiagnosticsTypeStep DEF SDTypeOK
  <2> QED
    BY <2>1, <2>2
<1> QED
  BY <1>1, <1>2, PTL DEF SDSpec

(* The counter has counted the passes of this call too, so a record LIMIT  *)
(* is never older than the count that justifies it, or one pass behind; in *)
(* a pass, and after a call that ended in one, the two agree.              *)
AlarmInv ==
  /\ phase # "idle" => outcome = "none"
  /\ phase = "loop" => cycle <= cycle_count
  /\ InPass => cycle < cycle_count
  /\ record = "LIMIT" => MAX_LOOP_CYCLES <= cycle_count
  /\ InPass \/ outcome \in {"stable", "vetoed"} =>
       (record = "LIMIT" <=> cycle_count > MAX_LOOP_CYCLES)
  /\ errorFlag <=> record # "NONE"

LEMMA AlarmCallStep ==
  ASSUME SDTypeOK, AlarmInv, Call
  PROVE  AlarmInv'
<1> USE WatchdogAssumption DEF AlarmInv, InPass, SDTypeOK, TypeOK, DiagnosticsTypeOK
<1>1. CASE UNCHANGED diagnosticVars /\ (NextPass \/ EndScan)
  BY <1>1 DEF NextPass, EndScan, diagnosticVars, local, topology
<1>2. CASE UNCHANGED diagnosticVars /\ (VetoAssignment \/ VetoPass \/ Stabilised)
  BY <1>2 DEF VetoAssignment, VetoPass, Stabilised, Return, diagnosticVars
<1>3. CASE UNCHANGED diagnosticVars
           /\ (SkipGate \/ ExamineGate \/ SkipTarget \/ AssignTarget \/ MarkConflict \/ LeaveGate)
  BY <1>3 DEF SkipGate, ExamineGate, SkipTarget, AssignTarget, MarkConflict, LeaveGate,
              NextGate, NextTarget, diagnosticVars
<1>4. CASE BeginPass /\ enterLoop
  <2>1. cycle_count' = cycle_count + 1 /\ cycle' = cycle /\ phase' = "scan" /\ outcome' = "none"
        /\ cycle < cycle_count'
    BY <1>4 DEF BeginPass, enterLoop
  <2>2. CASE cycle_count + 1 > MAX_LOOP_CYCLES
    <3>1. record' = "LIMIT" /\ errorFlag'
      BY <1>4, <2>2 DEF enterLoop
    <3> QED
      BY <2>1, <2>2, <3>1
  <2>3. CASE ~(cycle_count + 1 > MAX_LOOP_CYCLES)
    <3>1. UNCHANGED <<record, errorFlag>>
      BY <1>4, <2>3 DEF enterLoop
    <3>2. record # "LIMIT"
      BY <2>3
    <3> QED
      BY <2>1, <2>3, <3>1, <3>2
  <2> QED
    BY <2>2, <2>3
<1>5. CASE LoopLimit /\ set("LIMIT")
  BY <1>5 DEF LoopLimit, Return, set
<1>6. CASE (UniversalContradiction \/ LocalContradiction) /\ set("SOLVER")
  BY <1>6 DEF UniversalContradiction, LocalContradiction, Return, set
<1> QED
  BY <1>1, <1>2, <1>3, <1>4, <1>5, <1>6 DEF Call, Quiet

(* After a call that did not give up by itself the record says LIMIT       *)
(* exactly when the passes counted since the last clear are past the       *)
(* limit, and the flag is up with any record (AlarmTells of                *)
(* SolverDiagnostics).                                                     *)
THEOREM AlarmIsTrue == SDSpec => []AlarmTells
<1>1. SDInit => AlarmInv
  BY DEF SDInit, Init, DiagnosticsInit, AlarmInv, InPass
<1>2. SDTypeOK /\ AlarmInv /\ [SDNext]_allVars => AlarmInv'
  <2> SUFFICES ASSUME SDTypeOK, AlarmInv, [SDNext]_allVars
               PROVE  AlarmInv'
    OBVIOUS
  <2>1. CASE Call
    BY <2>1, AlarmCallStep
  <2>2. CASE Edit /\ UNCHANGED diagnosticVars
    BY <2>2 DEF Edit, diagnosticVars, AlarmInv, InPass, local
  <2>3. CASE BoundedCallPropagate /\ UNCHANGED diagnosticVars
    BY <2>3 DEF BoundedCallPropagate, CallPropagate, diagnosticVars, AlarmInv, InPass, SDTypeOK,
                DiagnosticsTypeOK
  <2>4. CASE ClearDiagnostics
    BY <2>4, WatchdogAssumption DEF ClearDiagnostics, clear, AlarmInv, InPass, topology, local
  <2>5. CASE UNCHANGED allVars
    BY <2>5 DEF allVars, vars, diagnosticVars, local, AlarmInv, InPass
  <2> QED
    BY <2>1, <2>2, <2>3, <2>4, <2>5 DEF SDNext
<1>3. AlarmInv => AlarmTells
  BY DEF AlarmInv, AlarmTells
<1> QED
  BY <1>1, <1>2, <1>3, TogetherTypeCorrect, PTL DEF SDSpec

(* A call that gives up by itself leaves the flag raised and the record    *)
(* naming the reason until the client reads it, whatever older failures    *)
(* and the loop watchdog wrote before (OutcomeExplained of                 *)
(* SolverDiagnostics).                                                     *)
THEOREM FailuresAreExplained == SDSpec => []OutcomeExplained
<1>1. SDInit => ExplainedInv
  BY DEF SDInit, Init, ExplainedInv, OutcomeExplained
<1>2. ExplainedInv /\ [SDNext]_allVars => ExplainedInv'
  <2> SUFFICES ASSUME ExplainedInv, [SDNext]_allVars
               PROVE  ExplainedInv'
    OBVIOUS
  <2>1. CASE Edit \/ CallPropagate \/ ClearDiagnostics
    <3>1. outcome' = "none"
      BY <2>1 DEF Edit, CallPropagate, ClearDiagnostics
    <3> QED
      BY <3>1 DEF ExplainedInv, OutcomeExplained
  <2>2. CASE Call
    <3>1. phase # "idle" /\ outcome = "none"
      BY <2>2, CallSteps, CallPhase DEF ExplainedInv
    <3>2. CASE Quiet \/ BeginPass
      <4>1. \/ outcome' = outcome
            \/ phase' = "idle" /\ outcome' \in {"vetoed", "stable"}
        BY <3>2 DEF Quiet, BeginPass, SkipGate, ExamineGate, EndScan, SkipTarget, AssignTarget,
                    VetoAssignment, MarkConflict, LeaveGate, VetoPass, Stabilised, NextPass,
                    NextGate, NextTarget, Return
      <4> QED
        BY <3>1, <4>1 DEF ExplainedInv, OutcomeExplained
    <3>3. CASE LoopLimit /\ set("LIMIT")
      BY <3>3 DEF LoopLimit, Return, set, ExplainedInv, OutcomeExplained
    <3>4. CASE (UniversalContradiction \/ LocalContradiction) /\ set("SOLVER")
      BY <3>4 DEF UniversalContradiction, LocalContradiction, Return, set, ExplainedInv,
                  OutcomeExplained
    <3> QED
      BY <2>2, <3>2, <3>3, <3>4 DEF Call
  <2>3. CASE UNCHANGED allVars
    BY <2>3 DEF allVars, vars, diagnosticVars, ExplainedInv, OutcomeExplained
  <2> QED
    BY <2>1, <2>2, <2>3 DEF SDNext, BoundedCallPropagate
<1>3. ExplainedInv => OutcomeExplained
  BY DEF ExplainedInv
<1> QED
  BY <1>1, <1>2, <1>3, PTL DEF SDSpec

=============================================================================
