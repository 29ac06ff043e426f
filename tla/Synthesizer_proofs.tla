-------------------------- MODULE Synthesizer_proofs --------------------------
(***************************************************************************)
(* Proofs about MathModel and Synthesizer, for every capacity and every    *)
(* choice of operators, and about the truth bytes of the gates they wire:  *)
(* TruthByteAlgebra, for every byte and every sequence of inversions.      *)
(***************************************************************************)
EXTENDS Synthesizer, TruthByteAlgebra, Counting, SequenceTheorems, TLAPS

-----------------------------------------------------------------------------
(* The model is well typed. *)

LEMMA NodeFacts ==
  ASSUME ModelTypeOK
  PROVE  /\ Len(nodes) \in Nat
         /\ Len(variables) \in Nat
         /\ Len(equations) \in Nat
         /\ Len(stack) \in Nat
         /\ \A n \in NodeUid : nodes[n] \in NodeRecord
         /\ \A e \in 1 .. Len(equations) : equations[e].lhs \in NodeUid /\ equations[e].rhs \in NodeUid
         /\ \A i \in 1 .. Len(stack) : stack[i] \in NodeUid
<1>1. /\ Len(nodes) \in Nat
      /\ Len(variables) \in Nat
      /\ Len(equations) \in Nat
      /\ Len(stack) \in Nat
  BY LenProperties DEF ModelTypeOK
<1>2. \A n \in NodeUid : nodes[n] \in NodeRecord
  BY ElementOfSeq DEF ModelTypeOK, NodeUid
<1>3. \A e \in 1 .. Len(equations) : equations[e] \in [lhs : NodeUid, rhs : NodeUid]
  BY ElementOfSeq DEF ModelTypeOK
<1>4. \A i \in 1 .. Len(stack) : stack[i] \in NodeUid
  BY ElementOfSeq DEF ModelTypeOK
<1> QED
  BY <1>1, <1>2, <1>3, <1>4

(* New nodes whose operands are older than themselves.                     *)
Grown(new) ==
  /\ new \in Seq(NodeRecord)
  /\ \A i \in 1 .. Len(new) : Founded(new[i], Len(nodes) + i)

LEMMA ArenaGrows ==
  ASSUME ModelTypeOK, NEW new, Grown(new), Len(new) <= Room, nodes' = nodes \o new
  PROVE  /\ nodes' \in Seq(NodeRecord)
         /\ Len(nodes') = Len(nodes) + Len(new)
         /\ Len(nodes') <= MaxNodes
         /\ \A n \in NodeUid' : Founded(nodes'[n], n)
<1>1. /\ Len(nodes) \in Nat
      /\ Len(new) \in Nat
      /\ nodes' \in Seq(NodeRecord)
      /\ Len(nodes') = Len(nodes) + Len(new)
      /\ \A i \in 1 .. Len(nodes) + Len(new) :
           nodes'[i] = IF i <= Len(nodes) THEN nodes[i] ELSE new[i - Len(nodes)]
  BY ConcatProperties, LenProperties DEF ModelTypeOK, Grown
<1>2. Len(nodes') <= MaxNodes
  BY <1>1, MathModelAssumption DEF MathModelAssumption, Room
<1>3. ASSUME NEW n \in NodeUid'
      PROVE  Founded(nodes'[n], n)
  <2>1. CASE n <= Len(nodes)
    BY <1>1, <2>1 DEF ModelTypeOK, NodeUid
  <2>2. CASE n > Len(nodes)
    <3>1. n - Len(nodes) \in 1 .. Len(new) /\ nodes'[n] = new[n - Len(nodes)]
      BY <1>1, <2>2 DEF NodeUid
    <3>2. Founded(new[n - Len(nodes)], Len(nodes) + (n - Len(nodes)))
      BY <3>1 DEF Grown
    <3>3. Len(nodes) + (n - Len(nodes)) = n
      BY <1>1 DEF NodeUid
    <3> QED
      BY <3>1, <3>2, <3>3
  <2> QED
    BY <1>1, <2>1, <2>2 DEF NodeUid
<1> QED
  BY <1>1, <1>2, <1>3

(* What a larger arena leaves well typed.                                  *)
LEMMA HoldersKept ==
  ASSUME ModelTypeOK, Len(nodes') \in Nat, Len(nodes') >= Len(nodes)
  PROVE  /\ NodeUid \subseteq NodeUid'
         /\ equations \in Seq([lhs : NodeUid', rhs : NodeUid'])
         /\ \A rest \in Seq(NodeUid) : rest \in Seq(NodeUid')
<1>1. NodeUid \subseteq NodeUid'
  BY NodeFacts DEF NodeUid
<1>2. [lhs : NodeUid, rhs : NodeUid] \subseteq [lhs : NodeUid', rhs : NodeUid']
  BY <1>1
<1> QED
  BY <1>1, <1>2, SeqMonotonic DEF ModelTypeOK

LEMMA ReduceTypeCorrect ==
  ASSUME ModelTypeOK, NEW new, Grown(new), Len(new) > 0,
         NEW rest \in Seq(NodeUid), Reduce(new, rest),
         equations' = equations, variables' \in Seq(1 .. MAXIMUM_BIT_WIDTH)
  PROVE  ModelTypeOK'
<1>0. /\ Len(nodes) \in Nat
      /\ Len(new) \in Nat
      /\ Room \in Nat
  BY NodeFacts, LenProperties, MathModelAssumption DEF MathModelAssumption, Room, Grown, ModelTypeOK
<1>1. CASE Len(new) <= Room
  <2>1. nodes' = nodes \o new /\ stack' = Append(rest, Len(nodes) + Len(new))
    BY <1>1 DEF Reduce
  <2>2. /\ nodes' \in Seq(NodeRecord)
        /\ Len(nodes') = Len(nodes) + Len(new)
        /\ Len(nodes') <= MaxNodes
        /\ \A n \in NodeUid' : Founded(nodes'[n], n)
    BY <1>1, <2>1, ArenaGrows
  <2>3. /\ equations \in Seq([lhs : NodeUid', rhs : NodeUid'])
        /\ rest \in Seq(NodeUid')
    BY <1>0, <2>2, HoldersKept
  <2>4. Len(nodes) + Len(new) \in NodeUid'
    BY <1>0, <2>2 DEF NodeUid
  <2>5. stack' \in Seq(NodeUid')
    BY <2>1, <2>3, <2>4, AppendProperties
  <2> QED
    BY <2>2, <2>3, <2>5 DEF ModelTypeOK
<1>2. CASE ~(Len(new) <= Room)
  <2> DEFINE lost == SubSeq(new, 1, Room)
  <2>1. nodes' = nodes \o lost /\ stack' = << >>
    BY <1>2 DEF Reduce
  <2>2. /\ lost \in Seq(NodeRecord)
        /\ Len(lost) = Room
        /\ \A i \in 1 .. Room : lost[i] = new[i]
    <3>1. 1 \in 1 .. Len(new) + 1 /\ Room \in 1 - 1 .. Len(new)
      BY <1>0, <1>2
    <3>2. new \in Seq(NodeRecord)
      BY DEF Grown
    <3>3. /\ SubSeq(new, 1, Room) \in Seq(NodeRecord)
          /\ Len(SubSeq(new, 1, Room)) = Room - 1 + 1
          /\ \A i \in 1 .. Room - 1 + 1 : SubSeq(new, 1, Room)[i] = new[1 + i - 1]
      BY <3>1, <3>2, SubSeqProperties
    <3> QED
      BY <1>0, <3>3
  <2> HIDE DEF lost
  <2>3. Grown(lost)
    <3>1. \A i \in 1 .. Room : i \in 1 .. Len(new)
      BY <1>0, <1>2
    <3>2. \A i \in 1 .. Room : Founded(lost[i], Len(nodes) + i)
      BY <2>2, <3>1 DEF Grown
    <3> QED
      BY <2>2, <3>2 DEF Grown
  <2>4. Len(lost) <= Room
    BY <1>0, <2>2
  <2>5. /\ nodes' \in Seq(NodeRecord)
        /\ Len(nodes') = Len(nodes) + Len(lost)
        /\ Len(nodes') <= MaxNodes
        /\ \A n \in NodeUid' : Founded(nodes'[n], n)
    BY <2>1, <2>3, <2>4, ArenaGrows
  <2>6. equations \in Seq([lhs : NodeUid', rhs : NodeUid'])
    BY <1>0, <2>2, <2>5, HoldersKept
  <2>7. stack' \in Seq(NodeUid')
    BY <2>1, EmptySeq
  <2> QED
    BY <2>5, <2>6, <2>7 DEF ModelTypeOK
<1> QED
  BY <1>1, <1>2

LEMMA NewNodes ==
  ASSUME ModelTypeOK, NEW a \in NodeRecord, Founded(a, Len(nodes) + 1)
  PROVE  /\ Grown(<<a>>) /\ Len(<<a>>) > 0
         /\ \A b \in NodeRecord :
              Founded(b, Len(nodes) + 2) => Grown(<<a, b>>) /\ Len(<<a, b>>) > 0
<1>1. Grown(<<a>>) /\ Len(<<a>>) > 0
  <2>1. <<a>> \in Seq(NodeRecord) /\ Len(<<a>>) = 1 /\ <<a>>[1] = a
    OBVIOUS
  <2> QED
    BY <2>1 DEF Grown
<1>2. ASSUME NEW b \in NodeRecord, Founded(b, Len(nodes) + 2)
      PROVE  Grown(<<a, b>>) /\ Len(<<a, b>>) > 0
  <2>1. <<a, b>> \in Seq(NodeRecord) /\ Len(<<a, b>>) = 2
        /\ <<a, b>>[1] = a /\ <<a, b>>[2] = b
    OBVIOUS
  <2>2. ASSUME NEW i \in 1 .. 2
        PROVE  Founded(<<a, b>>[i], Len(nodes) + i)
    <3>1. i = 1 \/ i = 2
      OBVIOUS
    <3> QED
      BY <1>2, <2>1, <3>1
  <2> QED
    BY <2>1, <2>2 DEF Grown
<1> QED
  BY <1>1, <1>2

LEMMA NodeKinds ==
  /\ \A uid \in Nat : VariableNode(uid) \in NodeRecord
  /\ \A uid \in Nat, n \in Nat \ {0} : Founded(VariableNode(uid), n)
  /\ \A v \in {0, 1} : ConstantNode(v) \in NodeRecord
  /\ \A v \in {0, 1}, n \in Nat \ {0} : Founded(ConstantNode(v), n)
  /\ \A operation \in Operation, l, r \in Nat :
       OperationNode(operation, l, r) \in NodeRecord
  /\ \A operation \in Operation, l, r, n \in Nat :
       l # 0 /\ l < n /\ r < n /\ (operation = "NOT" \/ r # 0) =>
         Founded(OperationNode(operation, l, r), n)
  BY DEF VariableNode, ConstantNode, OperationNode, NodeRecord, NullNode, Operation, Relation,
         Founded

LEMMA StackFacts ==
  ASSUME ModelTypeOK
  PROVE  /\ stack # << >> => Top \in NodeUid /\ Rest \in Seq(NodeUid)
         /\ Len(stack) >= 2 => /\ stack[Len(stack) - 1] \in NodeUid
                               /\ SubSeq(stack, 1, Len(stack) - 2) \in Seq(NodeUid)
<1>1. stack \in Seq(NodeUid) /\ Len(stack) \in Nat
  BY NodeFacts DEF ModelTypeOK
<1>2. stack # << >> => Len(stack) \in Nat \ {0}
  BY <1>1, EmptySeq
<1>3. ASSUME stack # << >>
      PROVE  Top \in NodeUid /\ Rest \in Seq(NodeUid)
  <2>1. Len(stack) \in 1 .. Len(stack) /\ 1 \in 1 .. Len(stack) + 1
        /\ Len(stack) - 1 \in 1 - 1 .. Len(stack)
    BY <1>2, <1>3
  <2> QED
    BY <1>1, <2>1, ElementOfSeq, SubSeqProperties DEF Top, Rest
<1>4. ASSUME Len(stack) >= 2
      PROVE  /\ stack[Len(stack) - 1] \in NodeUid
             /\ SubSeq(stack, 1, Len(stack) - 2) \in Seq(NodeUid)
  <2>1. Len(stack) - 1 \in 1 .. Len(stack) /\ 1 \in 1 .. Len(stack) + 1
        /\ Len(stack) - 2 \in 1 - 1 .. Len(stack)
    BY <1>1, <1>4
  <2> QED
    BY <1>1, <2>1, ElementOfSeq, SubSeqProperties
<1> QED
  BY <1>3, <1>4

LEMMA ModelTypeCorrect ==
  ASSUME ModelTypeOK, ModelNext
  PROVE  ModelTypeOK'
<1>0. /\ Len(nodes) \in Nat
      /\ Len(variables) \in Nat
      /\ Len(equations) \in Nat
      /\ NodeUid = 1 .. Len(nodes)
      /\ variables \in Seq(1 .. MAXIMUM_BIT_WIDTH)
      /\ stack \in Seq(NodeUid)
  BY NodeFacts DEF NodeUid, ModelTypeOK
<1>1. ASSUME NEW value \in Numbers, parseNumber(value)
      PROVE  ModelTypeOK'
  <2>1. value \in {0, 1}
    BY MathModelAssumption DEF MathModelAssumption
  <2>2. ConstantNode(value) \in NodeRecord /\ Founded(ConstantNode(value), Len(nodes) + 1)
    BY <1>0, <2>1, NodeKinds
  <2>3. Grown(<<ConstantNode(value)>>) /\ Len(<<ConstantNode(value)>>) > 0
    BY <2>2, NewNodes
  <2> QED
    BY <1>0, <1>1, <2>3, ReduceTypeCorrect DEF parseNumber
<1>2. ASSUME NEW uid \in 1 .. Len(variables), parseKnownIdentifier(uid)
      PROVE  ModelTypeOK'
  <2>1. VariableNode(uid) \in NodeRecord /\ Founded(VariableNode(uid), Len(nodes) + 1)
    BY <1>0, NodeKinds
  <2>2. Grown(<<VariableNode(uid)>>) /\ Len(<<VariableNode(uid)>>) > 0
    BY <2>1, NewNodes
  <2> QED
    BY <1>0, <1>2, <2>2, ReduceTypeCorrect DEF parseKnownIdentifier
<1>3. CASE parseNewIdentifier
  <2>1. CASE Len(variables) < MAX_VARIABLES_PER_MODEL
    <3> DEFINE node == VariableNode(Len(variables) + 1)
    <3>1. node \in NodeRecord /\ Founded(node, Len(nodes) + 1)
      BY <1>0, NodeKinds
    <3>2. /\ variables' = Append(variables, 1)
          /\ Reduce(<<node>>, stack)
          /\ equations' = equations
      BY <1>3, <2>1 DEF parseNewIdentifier
    <3> HIDE DEF node
    <3>3. Grown(<<node>>) /\ Len(<<node>>) > 0
      BY <3>1, NewNodes
    <3>4. 1 \in 1 .. MAXIMUM_BIT_WIDTH
      BY MathModelAssumption DEF MathModelAssumption
    <3>5. variables' \in Seq(1 .. MAXIMUM_BIT_WIDTH)
      BY <1>0, <3>2, <3>4, AppendProperties
    <3> QED
      BY <1>0, <3>2, <3>3, <3>5, ReduceTypeCorrect
  <2>2. CASE ~(Len(variables) < MAX_VARIABLES_PER_MODEL)
    <3>1. stack' = << >> /\ UNCHANGED <<variables, nodes, equations>>
      BY <1>3, <2>2 DEF parseNewIdentifier
    <3> QED
      BY <3>1, EmptySeq DEF ModelTypeOK, NodeUid
  <2> QED
    BY <2>1, <2>2
<1>4. CASE parseCall
  <2>1. Top \in NodeUid /\ nodes[Top].type = "VARIABLE"
    BY <1>4, StackFacts DEF parseCall, AfterIdentifier
  <2>2. nodes[Top] \in NodeRecord /\ Founded(nodes[Top], Top)
    BY <2>1, NodeFacts DEF ModelTypeOK
  <2> DEFINE called == [nodes[Top] EXCEPT !.operation = "FUNCTION_CALL"]
  <2>3. called \in NodeRecord
    BY <2>2 DEF NodeRecord, Operation, Relation
  <2>4. Founded(called, Top)
    BY <2>1, <2>2 DEF Founded, NodeRecord
  <2>5. nodes' = [nodes EXCEPT ![Top] = called] /\ UNCHANGED <<variables, equations, stack>>
    BY <1>4 DEF parseCall
  <2> HIDE DEF called
  <2>6. /\ nodes' \in Seq(NodeRecord)
        /\ Len(nodes') = Len(nodes)
        /\ \A n \in 1 .. Len(nodes) : nodes'[n] = IF n = Top THEN called ELSE nodes[n]
    BY <1>0, <2>1, <2>3, <2>5, ExceptSeq DEF ModelTypeOK
  <2>7. \A n \in NodeUid' : Founded(nodes'[n], n)
    BY <1>0, <2>4, <2>6 DEF ModelTypeOK, NodeUid
  <2> QED
    BY <1>0, <2>5, <2>6, <2>7 DEF ModelTypeOK, NodeUid
<1>5. CASE parseSlice
  <2>1. Top \in NodeUid /\ Rest \in Seq(NodeUid)
    BY <1>5, StackFacts DEF parseSlice, AfterIdentifier
  <2> DEFINE node == OperationNode("SLICE", Top, NextNode)
             zero == ConstantNode(0)
  <2>2. zero \in NodeRecord /\ Founded(zero, Len(nodes) + 1)
    BY <1>0, NodeKinds
  <2>3. node \in NodeRecord /\ Founded(node, Len(nodes) + 2)
    BY <1>0, <2>1, NodeKinds DEF Operation, Relation, NextNode
  <2>4. Reduce(<<zero, node>>, Rest) /\ UNCHANGED <<variables, equations>>
    BY <1>5 DEF parseSlice
  <2> HIDE DEF node, zero
  <2>5. Grown(<<zero, node>>) /\ Len(<<zero, node>>) > 0
    BY <2>2, <2>3, NewNodes
  <2> QED
    BY <1>0, <2>1, <2>4, <2>5, ReduceTypeCorrect
<1>6. CASE parseNot
  <2>1. Top \in NodeUid /\ Rest \in Seq(NodeUid)
    BY <1>6, StackFacts DEF parseNot
  <2> DEFINE node == OperationNode("NOT", Top, NullNode)
  <2>2. node \in NodeRecord /\ Founded(node, Len(nodes) + 1)
    BY <1>0, <2>1, NodeKinds DEF Operation, Relation, NullNode
  <2>3. Reduce(<<node>>, Rest) /\ UNCHANGED <<variables, equations>>
    BY <1>6 DEF parseNot
  <2> HIDE DEF node
  <2>4. Grown(<<node>>) /\ Len(<<node>>) > 0
    BY <2>2, NewNodes
  <2> QED
    BY <1>0, <2>1, <2>3, <2>4, ReduceTypeCorrect
<1>7. CASE parseMinus
  <2>1. Top \in NodeUid /\ Rest \in Seq(NodeUid)
    BY <1>7, StackFacts DEF parseMinus
  <2> DEFINE node == OperationNode("SUB", NextNode, Top)
             zero == ConstantNode(0)
  <2>2. zero \in NodeRecord /\ Founded(zero, Len(nodes) + 1)
    BY <1>0, NodeKinds
  <2>3. node \in NodeRecord /\ Founded(node, Len(nodes) + 2)
    BY <1>0, <2>1, NodeKinds DEF Operation, Relation, NextNode
  <2>4. Reduce(<<zero, node>>, Rest) /\ UNCHANGED <<variables, equations>>
    BY <1>7 DEF parseMinus
  <2> HIDE DEF node, zero
  <2>5. Grown(<<zero, node>>) /\ Len(<<zero, node>>) > 0
    BY <2>2, <2>3, NewNodes
  <2> QED
    BY <1>0, <2>1, <2>4, <2>5, ReduceTypeCorrect
<1>8. ASSUME NEW operation \in Operations, parseBinary(operation)
      PROVE  ModelTypeOK'
  <2> DEFINE lower == stack[Len(stack) - 1]
             below == SubSeq(stack, 1, Len(stack) - 2)
             node == OperationNode(operation, lower, Top)
  <2>1. Len(stack) >= 2 /\ stack # << >>
    BY <1>8, EmptySeq DEF parseBinary
  <2>2. lower \in NodeUid /\ Top \in NodeUid /\ below \in Seq(NodeUid)
    BY <2>1, StackFacts
  <2>3. operation \in Operation
    BY MathModelAssumption DEF MathModelAssumption
  <2>4. node \in NodeRecord /\ Founded(node, Len(nodes) + 1)
    BY <1>0, <2>2, <2>3, NodeKinds
  <2>5. Reduce(<<node>>, below) /\ UNCHANGED <<variables, equations>>
    BY <1>8 DEF parseBinary
  <2> HIDE DEF node, lower, below
  <2>6. Grown(<<node>>) /\ Len(<<node>>) > 0
    BY <2>4, NewNodes
  <2> QED
    BY <1>0, <2>2, <2>5, <2>6, ReduceTypeCorrect
<1>9. CASE parseError
  BY <1>9, EmptySeq DEF parseError, ModelTypeOK, NodeUid
<1>10. ASSUME NEW bit_width \in 1 .. MAXIMUM_BIT_WIDTH, addVariable(bit_width)
       PROVE  ModelTypeOK'
  <2>1. variables' \in Seq(1 .. MAXIMUM_BIT_WIDTH)
    BY <1>0, <1>10, AppendProperties DEF addVariable
  <2> QED
    BY <1>10, <2>1 DEF addVariable, ModelTypeOK, NodeUid
<1>11. CASE parseAndAddEquation
  <2>1. stack # << >> /\ Top \in NodeUid /\ stack' = << >> /\ variables' = variables
    BY <1>11, StackFacts, EmptySeq DEF parseAndAddEquation
  <2>2. stack' \in Seq(NodeUid')
    BY <2>1, EmptySeq
  <2>3. CASE nodes[Top].type = "OPERATION" /\ nodes[Top].operation \in Relation
    <3>1. nodes' = nodes /\ addEquation(nodes[Top].left, nodes[Top].right)
      BY <1>11, <2>3 DEF parseAndAddEquation
    <3>2. nodes[Top].left \in NodeUid /\ nodes[Top].right \in NodeUid
      <4>1. nodes[Top] \in NodeRecord /\ Founded(nodes[Top], Top)
        BY <2>1, NodeFacts DEF ModelTypeOK
      <4>2. nodes[Top].operation # "NOT"
        BY <2>3 DEF Relation
      <4> QED
        BY <1>0, <2>1, <2>3, <4>1, <4>2 DEF Founded, NodeRecord, NullNode
    <3>3. equations' \in Seq([lhs : NodeUid, rhs : NodeUid])
      BY <3>1, <3>2, AppendProperties DEF addEquation, ModelTypeOK
    <3> QED
      BY <2>1, <2>2, <3>1, <3>3 DEF ModelTypeOK, NodeUid
  <2>4. CASE ~(nodes[Top].type = "OPERATION" /\ nodes[Top].operation \in Relation) /\ Room > 0
    <3>1. nodes' = Append(nodes, ConstantNode(1)) /\ addEquation(Top, NextNode)
      BY <1>11, <2>4 DEF parseAndAddEquation
    <3>2. ConstantNode(1) \in NodeRecord /\ Founded(ConstantNode(1), Len(nodes) + 1)
      BY <1>0, NodeKinds
    <3>3. Grown(<<ConstantNode(1)>>) /\ Len(<<ConstantNode(1)>>) = 1
      BY <3>2, NewNodes
    <3>4. nodes' = nodes \o <<ConstantNode(1)>>
      BY <3>1, <3>2, AppendIsConcat DEF ModelTypeOK
    <3>5. 1 <= Room
      BY <1>0, <2>4, MathModelAssumption DEF MathModelAssumption, Room
    <3>6. /\ nodes' \in Seq(NodeRecord)
          /\ Len(nodes') = Len(nodes) + 1
          /\ Len(nodes') <= MaxNodes
          /\ \A n \in NodeUid' : Founded(nodes'[n], n)
      BY <3>3, <3>4, <3>5, ArenaGrows
    <3>7. equations \in Seq([lhs : NodeUid', rhs : NodeUid'])
      BY <1>0, <3>6, HoldersKept
    <3>8. Top \in NodeUid' /\ NextNode \in NodeUid'
      BY <1>0, <2>1, <3>6 DEF NodeUid, NextNode
    <3>9. equations' \in Seq([lhs : NodeUid', rhs : NodeUid'])
      BY <3>1, <3>7, <3>8, AppendProperties DEF addEquation
    <3> QED
      BY <2>1, <2>2, <3>6, <3>9 DEF ModelTypeOK
  <2>5. CASE ~(nodes[Top].type = "OPERATION" /\ nodes[Top].operation \in Relation) /\ ~(Room > 0)
    <3>1. UNCHANGED <<nodes, equations>>
      BY <1>11, <2>5 DEF parseAndAddEquation
    <3> QED
      BY <2>1, <2>2, <3>1 DEF ModelTypeOK, NodeUid
  <2> QED
    BY <2>3, <2>4, <2>5
<1> QED
  BY <1>1, <1>2, <1>3, <1>4, <1>5, <1>6, <1>7, <1>8, <1>9, <1>10, <1>11 DEF ModelNext

-----------------------------------------------------------------------------
(* The compilation is well typed. *)

LEMMA ByteConstants ==
  /\ TRUTH_EQUAL \in Byte
  /\ TRUTH_INVERT \in Byte
  /\ \A operation : truthByteFor(operation) \in Byte
  BY DEF TRUTH_EQUAL, TRUTH_INVERT, TRUTH_AND, TRUTH_XOR, TRUTH_OR, truthByteFor, Byte

LEMMA PinsTyped ==
  /\ FloatingPin \in PinRecord
  /\ \A v \in Bit : LockedPin(v) \in PinRecord
  BY DEF FloatingPin, LockedPin, PinRecord, SignalState, SignalFor, Bit

LEMMA PinAppended ==
  ASSUME TopologyTypeOK, NEW pin \in PinRecord, pins' = Append(pins, pin)
  PROVE  /\ pins' \in Seq(PinRecord)
         /\ Len(pins) \in Nat
         /\ Len(pins') = Len(pins) + 1
         /\ NewPinUid \in PinUid'
         /\ PinUid \subseteq PinUid'
         /\ \A p \in PinUid : pins'[p] = pins[p]
         /\ pins'[NewPinUid] = pin
<1>1. /\ pins' \in Seq(PinRecord)
      /\ Len(pins) \in Nat
      /\ Len(pins') = Len(pins) + 1
      /\ \A p \in 1 .. Len(pins) : pins'[p] = pins[p]
      /\ pins'[Len(pins) + 1] = pin
  BY AppendProperties, LenProperties DEF TopologyTypeOK
<1> QED
  BY <1>1 DEF PinUid, NewPinUid

LEMMA GateAppended ==
  ASSUME TopologyTypeOK, pins' \in Seq(PinRecord), PinUid \subseteq PinUid',
         NEW a \in PinUid' \union {NullPin}, NEW b \in PinUid' \union {NullPin},
         NEW c \in PinUid' \union {NullPin}, NEW truth_byte \in Byte,
         gates' = WithGate(a, b, c, truth_byte)
  PROVE  /\ TopologyTypeOK'
         /\ Len(gates) \in Nat
         /\ Len(gates') = Len(gates) + 1
         /\ \A g \in 1 .. Len(gates) : gates'[g] = gates[g]
         /\ gates'[Len(gates) + 1] =
              [pin |-> <<a, b, c>>, truth_byte |-> truth_byte, released |-> FALSE]
<1> DEFINE new == [pin |-> <<a, b, c>>, truth_byte |-> truth_byte, released |-> FALSE]
<1>1. a \in Nat /\ b \in Nat /\ c \in Nat
  BY LenProperties DEF PinUid, NullPin
<1>2. <<a, b, c>> \in [Position -> Nat]
  BY <1>1 DEF Position
<1>3. new \in GateRecord
  BY <1>2 DEF GateRecord
<1>4. gates' = Append(gates, new)
  BY DEF WithGate
<1>5. \A i \in Position : new.pin[i] \in PinUid' \union {NullPin}
  BY DEF Position
<1> HIDE DEF new
<1>6. /\ gates' \in Seq(GateRecord)
      /\ Len(gates) \in Nat
      /\ Len(gates') = Len(gates) + 1
      /\ \A g \in 1 .. Len(gates) : gates'[g] = gates[g]
      /\ gates'[Len(gates) + 1] = new
  BY <1>3, <1>4, AppendProperties, LenProperties DEF TopologyTypeOK
<1>7. ASSUME NEW g \in 1 .. Len(gates'), NEW i \in Position
      PROVE  gates'[g].pin[i] \in PinUid' \union {NullPin}
  <2>1. CASE g = Len(gates) + 1
    BY <1>5, <1>6, <2>1
  <2>2. CASE g \in 1 .. Len(gates)
    BY <1>6, <2>2 DEF TopologyTypeOK
  <2> QED
    BY <1>6, <2>1, <2>2
<1>8. TopologyTypeOK'
  BY <1>6, <1>7 DEF TopologyTypeOK
<1> QED
  BY <1>6, <1>8 DEF new

LEMMA GatesKept ==
  ASSUME TopologyTypeOK, pins' \in Seq(PinRecord), PinUid \subseteq PinUid', gates' = gates
  PROVE  TopologyTypeOK'
  BY DEF TopologyTypeOK

LEMMA CircuitUnchanged ==
  ASSUME TopologyTypeOK, UNCHANGED circuitVars
  PROVE  TopologyTypeOK' /\ PinUid' = PinUid
  BY DEF TopologyTypeOK, circuitVars, PinUid

LEMMA DrivenPinTypeCorrect ==
  ASSUME TopologyTypeOK,
         NEW a \in PinUid \union {NullPin}, NEW b \in PinUid \union {NullPin},
         NEW truth_byte \in Byte, AddDrivenPin(a, b, truth_byte)
  PROVE  TopologyTypeOK' /\ PinUid \subseteq PinUid'
<1>1. CASE RoomForPin
  <2>1. pins' = Append(pins, FloatingPin)
    BY <1>1 DEF AddDrivenPin
  <2>2. pins' \in Seq(PinRecord) /\ PinUid \subseteq PinUid' /\ NewPinUid \in PinUid'
    BY <2>1, PinsTyped, PinAppended
  <2>3. CASE RoomForGate
    BY <1>1, <2>2, <2>3, GateAppended DEF AddDrivenPin
  <2>4. CASE ~RoomForGate
    BY <1>1, <2>2, <2>4, GatesKept DEF AddDrivenPin
  <2> QED
    BY <2>2, <2>3, <2>4
<1>2. CASE ~RoomForPin
  BY <1>2, CircuitUnchanged DEF AddDrivenPin, circuitVars
<1> QED
  BY <1>1, <1>2

LEMMA ReturnTypeCorrect ==
  ASSUME TypeOK, TopologyTypeOK', NEW how \in {"compiled", "failed"}, Return(how)
  PROVE  TypeOK'
  BY EmptySeq DEF TypeOK, ModelTypeOK, NodeUid, Return, modelVars, NullPin

LEMMA FrameFacts ==
  ASSUME TypeOK, frames # << >>
  PROVE  /\ Current \in Frame
         /\ Callers \in Seq(Frame)
         /\ phase = "equations"
         /\ variable \in 1 .. Len(equations)
<1>1. frames \in Seq(Frame) /\ Len(frames) \in Nat \ {0}
  BY EmptySeq DEF TypeOK
<1>2. Len(frames) \in 1 .. Len(frames) /\ 1 \in 1 .. Len(frames) + 1
      /\ Len(frames) - 1 \in 1 - 1 .. Len(frames)
  BY <1>1
<1>3. Current \in Frame /\ Callers \in Seq(Frame)
  BY <1>1, <1>2, ElementOfSeq, SubSeqProperties DEF Current, Callers
<1>4. Len(equations) \in Nat
  BY NodeFacts DEF TypeOK
<1> QED
  BY <1>3, <1>4 DEF TypeOK

LEMMA FrameMonotonic ==
  ASSUME PinUid \subseteq PinUid', NodeUid' = NodeUid
  PROVE  Frame \subseteq Frame'
  BY DEF Frame

LEMMA HandBackTypeCorrect ==
  ASSUME TypeOK, frames # << >>, TopologyTypeOK', PinUid \subseteq PinUid',
         NEW pin \in PinUid' \union {NullPin}, HandBack(pin)
  PROVE  TypeOK'
<1>1. Callers \in Seq(Frame) /\ phase = "equations" /\ variable \in 1 .. Len(equations)
  BY FrameFacts
<1>2. UNCHANGED <<variables, nodes, equations, stack, phase, variable, bit, outcome>>
      /\ frames' = Callers /\ output' = pin
  BY DEF HandBack, modelVars
<1>3. ModelTypeOK' /\ NodeUid' = NodeUid
  BY <1>2 DEF TypeOK, ModelTypeOK, NodeUid
<1>4. frames' \in Seq(Frame')
  BY <1>1, <1>2, <1>3, FrameMonotonic, SeqMonotonic
<1> QED
  BY <1>1, <1>2, <1>3, <1>4 DEF TypeOK

LEMMA EnterTypeCorrect ==
  ASSUME TypeOK, frames # << >>, UNCHANGED circuitVars,
         NEW operand \in NodeUid, NEW stage \in {"left", "right"},
         NEW left \in PinUid \union {NullPin}, Enter(operand, stage, left)
  PROVE  TypeOK'
<1> DEFINE caller == [Current EXCEPT !.stage = stage, !.left = left]
<1>1. /\ Current \in Frame
      /\ Callers \in Seq(Frame)
      /\ phase = "equations"
      /\ variable \in 1 .. Len(equations)
  BY FrameFacts
<1>2. /\ UNCHANGED <<variables, nodes, equations, stack, phase, variable, bit, output, outcome>>
      /\ frames' = Callers \o <<caller, Call(operand)>>
  BY DEF Enter, modelVars
<1>3. ModelTypeOK' /\ NodeUid' = NodeUid
  BY <1>2 DEF TypeOK, ModelTypeOK, NodeUid
<1>4. TopologyTypeOK' /\ PinUid' = PinUid
  BY CircuitUnchanged DEF TypeOK
<1>5. caller \in Frame /\ Call(operand) \in Frame
  BY <1>1 DEF Frame, Call
<1> HIDE DEF caller
<1>6. <<caller, Call(operand)>> \in Seq(Frame)
  BY <1>5
<1>7. frames' \in Seq(Frame)
  BY <1>1, <1>2, <1>6, ConcatProperties
<1>8. Frame' = Frame
  BY <1>3, <1>4 DEF Frame
<1> QED
  BY <1>1, <1>2, <1>3, <1>4, <1>7, <1>8 DEF TypeOK


LEMMA NodeInCall ==
  ASSUME TypeOK, InNode
  PROVE  /\ frames # << >>
         /\ Current.node \in NodeUid
         /\ Node \in NodeRecord
         /\ Current.left \in PinUid \union {NullPin}
         /\ Node.type = "OPERATION" => Node.left \in NodeUid
         /\ IsBinary => Node.right \in NodeUid
<1>1. frames # << >> /\ Current \in Frame /\ Current.node # NullNode
  BY FrameFacts DEF InNode
<1>2. Current.node \in NodeUid /\ Current.left \in PinUid \union {NullPin}
  BY <1>1 DEF Frame
<1>3. Node \in NodeRecord /\ Founded(Node, Current.node)
  BY <1>2, NodeFacts DEF TypeOK, ModelTypeOK, Node
<1>4. Len(nodes) \in Nat
  BY NodeFacts DEF TypeOK
<1>5. Node.type = "OPERATION" => Node.left \in NodeUid
  BY <1>2, <1>3, <1>4 DEF Founded, NodeRecord, NodeUid, NullNode
<1>6. IsBinary => Node.right \in NodeUid
  BY <1>2, <1>3, <1>4 DEF Founded, NodeRecord, NodeUid, NullNode, IsBinary, Unary
<1> QED
  BY <1>1, <1>2, <1>3, <1>5, <1>6

LEMMA EquationInCall ==
  ASSUME TypeOK, InEquation
  PROVE  /\ frames # << >>
         /\ Current.left \in PinUid \union {NullPin}
         /\ equations[variable].lhs \in NodeUid
         /\ equations[variable].rhs \in NodeUid
         /\ variable \in Nat
  BY FrameFacts, NodeFacts DEF InEquation, TypeOK, Frame

LEMMA StepTypeCorrect ==
  ASSUME TypeOK, Next
  PROVE  TypeOK'
<1>0. /\ ModelTypeOK /\ TopologyTypeOK
      /\ output \in PinUid \union {NullPin}
  BY DEF TypeOK
<1>1. CASE EditModel
  <2>1. ModelTypeOK'
    BY <1>0, <1>1, ModelTypeCorrect DEF EditModel
  <2>2. TopologyTypeOK' /\ PinUid' = PinUid
    BY <1>0, <1>1, CircuitUnchanged DEF EditModel
  <2>3. frames = << >>
    BY <1>1 DEF TypeOK, EditModel
  <2>4. frames' \in Seq(Frame')
    BY <1>1, <2>3, EmptySeq DEF EditModel
  <2> QED
    BY <1>1, <2>1, <2>2, <2>3, <2>4 DEF TypeOK, EditModel
<1>2. CASE compileModelToCircuit
  <2>1. ModelTypeOK' /\ NodeUid' = NodeUid /\ TopologyTypeOK' /\ PinUid' = PinUid
    BY <1>0, <1>2, CircuitUnchanged
       DEF compileModelToCircuit, ModelTypeOK, NodeUid, modelVars
  <2>2. frames = << >>
    BY <1>2 DEF TypeOK, compileModelToCircuit
  <2>3. frames' \in Seq(Frame')
    BY <1>2, <2>2, EmptySeq DEF compileModelToCircuit
  <2> QED
    BY <1>2, <2>1, <2>2, <2>3 DEF TypeOK, compileModelToCircuit
<1>3. CASE AddVariablePin
  <2>1. CASE RoomForPin
    <3>1. pins' = Append(pins, FloatingPin) /\ gates' = gates
      BY <1>3, <2>1 DEF AddVariablePin
    <3>2. TopologyTypeOK' /\ PinUid \subseteq PinUid'
      BY <1>0, <3>1, PinsTyped, PinAppended, GatesKept
    <3>3. frames = << >>
      BY <1>3 DEF AddVariablePin, TypeOK
    <3>4. ModelTypeOK' /\ NodeUid' = NodeUid /\ frames' \in Seq(Frame')
      BY <1>0, <1>3, <2>1, <3>3, EmptySeq DEF AddVariablePin, ModelTypeOK, NodeUid, modelVars
    <3> QED
      BY <1>3, <2>1, <3>2, <3>3, <3>4 DEF AddVariablePin, TypeOK
  <2>2. CASE ~RoomForPin
    BY <1>0, <1>3, <2>2, CircuitUnchanged, ReturnTypeCorrect DEF AddVariablePin, circuitVars
  <2> QED
    BY <2>1, <2>2
<1>4. CASE NextVariable
  <2>1. ModelTypeOK' /\ NodeUid' = NodeUid /\ TopologyTypeOK' /\ PinUid' = PinUid
    BY <1>0, <1>4, CircuitUnchanged DEF NextVariable, ModelTypeOK, NodeUid, modelVars
  <2>2. frames = << >> /\ frames' = << >> /\ frames' \in Seq(Frame')
    BY <1>4, EmptySeq DEF TypeOK, NextVariable
  <2> QED
    BY <1>4, <2>1, <2>2 DEF TypeOK, NextVariable
<1>5. CASE VariablesDone
  <2>1. ModelTypeOK' /\ NodeUid' = NodeUid /\ TopologyTypeOK' /\ PinUid' = PinUid
    BY <1>0, <1>5, CircuitUnchanged DEF VariablesDone, ModelTypeOK, NodeUid, modelVars
  <2>2. frames = << >> /\ frames' = << >> /\ frames' \in Seq(Frame')
    BY <1>5, EmptySeq DEF TypeOK, VariablesDone
  <2> QED
    BY <1>5, <2>1, <2>2 DEF TypeOK, VariablesDone
<1>6. CASE BeginEquation
  <2>1. ModelTypeOK' /\ NodeUid' = NodeUid /\ TopologyTypeOK' /\ PinUid' = PinUid
    BY <1>0, <1>6, CircuitUnchanged DEF BeginEquation, ModelTypeOK, NodeUid, modelVars
  <2>2. Call(NullNode) \in Frame'
    BY DEF Call, Frame
  <2>3. frames' \in Seq(Frame')
    <3>1. << Call(NullNode) >> \in Seq(Frame')
      BY <2>2
    <3> QED
      BY <1>6, <3>1 DEF BeginEquation
  <2> QED
    BY <1>6, <2>1, <2>3 DEF TypeOK, BeginEquation, modelVars
<1>7. CASE EnterSide
  <2>1. /\ InEquation /\ UNCHANGED circuitVars
        /\ \E operand \in NodeUid, stage \in {"left", "right"}, left \in PinUid \union {NullPin} :
             Enter(operand, stage, left)
    BY <1>0, <1>7, EquationInCall DEF EnterSide
  <2> QED
    BY <2>1, EquationInCall, EnterTypeCorrect
<1>8. CASE EmitEquality
  <2>1. InEquation
    BY <1>8 DEF EmitEquality
  <2>2. CASE RoomForGate
    <3>1. pins' = pins /\ gates' = WithGate(Current.left, output, NullPin, TRUTH_EQUAL)
      BY <1>8, <2>2 DEF EmitEquality
    <3>2. pins' \in Seq(PinRecord) /\ PinUid' = PinUid
      BY <1>0, <3>1 DEF TopologyTypeOK, PinUid
    <3>3. TopologyTypeOK'
      BY <1>0, <2>1, <3>1, <3>2, EquationInCall, ByteConstants, GateAppended
    <3>4. ModelTypeOK' /\ NodeUid' = NodeUid
      BY <1>0, <1>8, <2>2 DEF EmitEquality, ModelTypeOK, NodeUid, modelVars
    <3>5. /\ frames' = << >> /\ output' = NullPin /\ variable' = variable + 1
          /\ UNCHANGED <<phase, bit, outcome>>
      BY <1>8, <2>2 DEF EmitEquality
    <3>6. frames' \in Seq(Frame')
      BY <3>5, EmptySeq
    <3> QED
      BY <3>3, <3>4, <3>5, <3>6 DEF TypeOK
  <2>3. CASE ~RoomForGate
    BY <1>0, <1>8, <2>3, CircuitUnchanged, ReturnTypeCorrect DEF EmitEquality, circuitVars
  <2> QED
    BY <2>2, <2>3
<1>9. CASE EquationsDone
  BY <1>0, <1>9, CircuitUnchanged, ReturnTypeCorrect DEF EquationsDone
<1>10. CASE EmitLeaf
  <2>1. InNode
    BY <1>10 DEF EmitLeaf
  <2>2. CASE RoomForPin
    <3> DEFINE pin == IF Node.type = "CONSTANT" THEN LockedPin(Node.value) ELSE FloatingPin
    <3>1. pin \in PinRecord
      BY <2>1, NodeInCall, PinsTyped DEF NodeRecord, Bit
    <3>2. pins' = Append(pins, pin) /\ gates' = gates /\ HandBack(NewPinUid)
      BY <1>10, <2>2 DEF EmitLeaf
    <3> HIDE DEF pin
    <3>3. TopologyTypeOK' /\ PinUid \subseteq PinUid' /\ NewPinUid \in PinUid'
      BY <1>0, <3>1, <3>2, PinAppended, GatesKept
    <3> QED
      BY <2>1, <3>2, <3>3, NodeInCall, HandBackTypeCorrect
  <2>3. CASE ~RoomForPin
    BY <1>0, <1>10, <2>3, CircuitUnchanged, ReturnTypeCorrect DEF EmitLeaf, circuitVars
  <2> QED
    BY <2>2, <2>3
<1>11. CASE EnterLeft
  <2>1. /\ InNode /\ Node.type = "OPERATION"
        /\ Enter(Node.left, "left", NullPin) /\ UNCHANGED circuitVars
    BY <1>11 DEF EnterLeft
  <2> QED
    BY <2>1, NodeInCall, EnterTypeCorrect
<1>12. CASE PassOn
  <2>1. InNode /\ HandBack(output) /\ UNCHANGED circuitVars
    BY <1>12 DEF PassOn
  <2>2. TopologyTypeOK' /\ PinUid' = PinUid
    BY <1>0, <2>1, CircuitUnchanged
  <2> QED
    BY <1>0, <2>1, <2>2, NodeInCall, HandBackTypeCorrect
<1>13. CASE EmitNot
  <2>1. InNode /\ AddDrivenPin(output, NullPin, TRUTH_INVERT)
    BY <1>13 DEF EmitNot
  <2>2. TopologyTypeOK' /\ PinUid \subseteq PinUid'
    BY <1>0, <2>1, ByteConstants, DrivenPinTypeCorrect
  <2>3. HandBack(NullPin) \/ Return("failed")
    BY <1>13 DEF EmitNot
  <2> QED
    BY <2>1, <2>2, <2>3, NodeInCall, HandBackTypeCorrect, ReturnTypeCorrect
<1>14. CASE EnterRight
  <2>1. InNode /\ IsBinary /\ Enter(Node.right, "right", output) /\ UNCHANGED circuitVars
    BY <1>14 DEF EnterRight
  <2> QED
    BY <1>0, <2>1, NodeInCall, EnterTypeCorrect
<1>15. CASE emitBinaryGate
  <2>1. InNode
    BY <1>15 DEF emitBinaryGate
  <2>2. CASE NullPin \in {Current.left, output}
    BY <1>0, <1>15, <2>2, CircuitUnchanged, ReturnTypeCorrect DEF emitBinaryGate
  <2>3. CASE ~(NullPin \in {Current.left, output})
    <3>1. /\ AddDrivenPin(Current.left, output, truthByteFor(Node.operation))
          /\ HandBack(NullPin) \/ Return("failed")
      BY <1>15, <2>3 DEF emitBinaryGate
    <3>2. TopologyTypeOK' /\ PinUid \subseteq PinUid'
      BY <1>0, <2>1, <3>1, NodeInCall, ByteConstants, DrivenPinTypeCorrect
    <3> QED
      BY <2>1, <3>1, <3>2, NodeInCall, HandBackTypeCorrect, ReturnTypeCorrect
  <2> QED
    BY <2>2, <2>3
<1> QED
  BY <1>1, <1>2, <1>3, <1>4, <1>5, <1>6, <1>7, <1>8, <1>9, <1>10, <1>11, <1>12, <1>13, <1>14, <1>15
  DEF Next, compile

LEMMA InitTypeCorrect == Init => TypeOK
<1> SUFFICES ASSUME Init PROVE TypeOK
  OBVIOUS
<1>1. /\ variables = << >> /\ nodes = << >> /\ equations = << >> /\ stack = << >>
      /\ pins = << >> /\ gates = << >> /\ frames = << >>
  BY DEF Init, ModelInit, TopologyInit
<1>2. ModelTypeOK
  <2>1. Len(nodes) = 0 /\ NodeUid = {}
    BY <1>1, EmptySeq DEF NodeUid
  <2>2. Len(nodes) <= MaxNodes
    BY <2>1, MathModelAssumption DEF MathModelAssumption
  <2> QED
    BY <1>1, <2>1, <2>2, EmptySeq DEF ModelTypeOK
<1>3. TopologyTypeOK
  <2>1. 1 .. Len(gates) = {}
    BY <1>1, EmptySeq
  <2> QED
    BY <1>1, <2>1, EmptySeq DEF TopologyTypeOK
<1> QED
  BY <1>1, <1>2, <1>3, EmptySeq DEF Init, TypeOK

LEMMA StutterTypeCorrect ==
  ASSUME TypeOK, UNCHANGED vars
  PROVE  TypeOK'
<1>1. UNCHANGED <<variables, nodes, equations, stack, pins, gates, phase, variable, bit, frames,
                  output, outcome>>
  BY DEF vars
<1>2. ModelTypeOK' /\ NodeUid' = NodeUid
  BY <1>1 DEF TypeOK, ModelTypeOK, NodeUid
<1>3. TopologyTypeOK' /\ PinUid' = PinUid
  BY <1>1, CircuitUnchanged DEF TypeOK, circuitVars
<1>4. Frame' = Frame
  BY <1>2, <1>3 DEF Frame
<1> QED
  BY <1>1, <1>2, <1>3, <1>4 DEF TypeOK

(* Every reachable state is well typed: operands are older than operators, *)
(* gates and frames refer to pins there are, and the walk is within the    *)
(* equations (compileModelToCircuit, emitExpression, the parser).          *)
THEOREM TypeCorrect == Spec => []TypeOK
<1>1. TypeOK /\ [Next]_vars => TypeOK'
  BY StepTypeCorrect, StutterTypeCorrect
<1> QED
  BY <1>1, InitTypeCorrect, PTL DEF Spec


-----------------------------------------------------------------------------
(* What compiling means for the solutions of the circuit. *)

(* Whatever its inputs, such a gate has a legal combination; inputs that   *)
(* are null pins are free.                                                 *)
Open(a, b, truth_byte) ==
  \A x, y \in Bit :
    \E i, j, k \in Bit :
      /\ combinationAllowed(truth_byte, i, j, k)
      /\ a # NullPin => i = x
      /\ b # NullPin => j = y

LEMMA Weights ==
  /\ BitWeight[1] = 1 /\ BitWeight[2] = 2 /\ BitWeight[3] = 4 /\ BitWeight[4] = 8
  /\ BitWeight[5] = 16 /\ BitWeight[6] = 32 /\ BitWeight[7] = 64 /\ BitWeight[8] = 128
  BY DEF BitWeight

LEMMA Combinations ==
  ASSUME NEW truth_byte \in Byte
  PROVE  /\ combinationAllowed(truth_byte, 0, 0, 0) <=> truth_byte % 2 = 1
         /\ combinationAllowed(truth_byte, 1, 0, 0) <=> (truth_byte \div 2) % 2 = 1
         /\ combinationAllowed(truth_byte, 0, 1, 0) <=> (truth_byte \div 4) % 2 = 1
         /\ combinationAllowed(truth_byte, 1, 1, 0) <=> (truth_byte \div 8) % 2 = 1
         /\ combinationAllowed(truth_byte, 0, 0, 1) <=> (truth_byte \div 16) % 2 = 1
         /\ combinationAllowed(truth_byte, 1, 0, 1) <=> (truth_byte \div 32) % 2 = 1
         /\ combinationAllowed(truth_byte, 0, 1, 1) <=> (truth_byte \div 64) % 2 = 1
         /\ combinationAllowed(truth_byte, 1, 1, 1) <=> (truth_byte \div 128) % 2 = 1
<1>1. /\ CombinationIndex(0, 0, 0) + 1 = 1 /\ CombinationIndex(1, 0, 0) + 1 = 2
      /\ CombinationIndex(0, 1, 0) + 1 = 3 /\ CombinationIndex(1, 1, 0) + 1 = 4
      /\ CombinationIndex(0, 0, 1) + 1 = 5 /\ CombinationIndex(1, 0, 1) + 1 = 6
      /\ CombinationIndex(0, 1, 1) + 1 = 7 /\ CombinationIndex(1, 1, 1) + 1 = 8
  BY DEF CombinationIndex
<1>2. truth_byte \div 1 = truth_byte
  BY DEF Byte
<1> QED
  BY <1>1, <1>2, Weights DEF combinationAllowed

(* The bytes of AND, XOR and OR give a result for every pair of inputs.    *)
LEMMA ResultExists ==
  ASSUME NEW truth_byte \in {TRUTH_AND, TRUTH_XOR, TRUTH_OR, TRUTH_EQUAL}, NEW x \in Bit, NEW y \in Bit
  PROVE  \E k \in Bit : combinationAllowed(truth_byte, x, y, k)
<1>1. truth_byte \in Byte /\ truth_byte \in {135, 105, 239, 150}
  BY DEF TRUTH_AND, TRUTH_XOR, TRUTH_OR, TRUTH_EQUAL, Byte
<1>2. CASE x = 0 /\ y = 0
  <2>1. truth_byte % 2 = 1 \/ (truth_byte \div 16) % 2 = 1
    BY <1>1
  <2> QED
    BY <1>1, <1>2, <2>1, Combinations DEF Bit
<1>3. CASE x = 1 /\ y = 0
  <2>1. (truth_byte \div 2) % 2 = 1 \/ (truth_byte \div 32) % 2 = 1
    BY <1>1
  <2> QED
    BY <1>1, <1>3, <2>1, Combinations DEF Bit
<1>4. CASE x = 0 /\ y = 1
  <2>1. (truth_byte \div 4) % 2 = 1 \/ (truth_byte \div 64) % 2 = 1
    BY <1>1
  <2> QED
    BY <1>1, <1>4, <2>1, Combinations DEF Bit
<1>5. CASE x = 1 /\ y = 1
  <2>1. (truth_byte \div 8) % 2 = 1 \/ (truth_byte \div 128) % 2 = 1
    BY <1>1
  <2> QED
    BY <1>1, <1>5, <2>1, Combinations DEF Bit
<1> QED
  BY <1>2, <1>3, <1>4, <1>5 DEF Bit

LEMMA BytesAreOpen ==
  /\ \A operation, a, b : operation # "NOT" => Open(a, b, truthByteFor(operation))
  /\ \A a, b : Open(a, b, TRUTH_EQUAL)
  /\ \A a : Open(a, NullPin, TRUTH_INVERT)
<1>1. \A operation : operation # "NOT" =>
        truthByteFor(operation) \in {TRUTH_AND, TRUTH_XOR, TRUTH_OR, TRUTH_EQUAL}
  BY DEF truthByteFor
<1>2. ASSUME NEW truth_byte \in {TRUTH_AND, TRUTH_XOR, TRUTH_OR, TRUTH_EQUAL}, NEW a, NEW b
      PROVE  Open(a, b, truth_byte)
  BY ResultExists DEF Open
<1>3. ASSUME NEW a
      PROVE  Open(a, NullPin, TRUTH_INVERT)
  <2>1. TRUTH_INVERT \in Byte /\ TRUTH_INVERT = 6
    BY DEF TRUTH_INVERT, Byte
  <2>2. (6 \div 2) % 2 = 1 /\ (6 \div 4) % 2 = 1
    OBVIOUS
  <2>3. combinationAllowed(TRUTH_INVERT, 1, 0, 0) /\ combinationAllowed(TRUTH_INVERT, 0, 1, 0)
    BY <2>1, <2>2, Combinations
  <2> QED
    BY <2>3 DEF Open, Bit
<1> QED
  BY <1>1, <1>2, <1>3


(* All a step does to the circuit.                                         *)
PinStep == \E pin \in PinRecord : pins' = Append(pins, pin) /\ gates' = gates

DrivenStep ==
  \E a, b \in PinUid \union {NullPin}, truth_byte \in Byte :
    /\ Open(a, b, truth_byte)
    /\ pins' = Append(pins, FloatingPin)
    /\ gates' = WithGate(a, b, NewPinUid, truth_byte)

EqualityStep ==
  \E a, b \in PinUid \union {NullPin} :
    /\ pins' = pins
    /\ gates' = WithGate(a, b, NullPin, TRUTH_EQUAL)

LEMMA AddDrivenPinSteps ==
  ASSUME NEW a \in PinUid \union {NullPin}, NEW b \in PinUid \union {NullPin},
         NEW truth_byte \in Byte, Open(a, b, truth_byte), AddDrivenPin(a, b, truth_byte)
  PROVE  UNCHANGED circuitVars \/ PinStep \/ DrivenStep
<1>1. CASE ~RoomForPin
  BY <1>1 DEF AddDrivenPin, circuitVars
<1>2. CASE RoomForPin /\ ~RoomForGate
  BY <1>2, PinsTyped DEF AddDrivenPin, PinStep
<1>3. CASE RoomForPin /\ RoomForGate
  BY <1>3 DEF AddDrivenPin, DrivenStep
<1> QED
  BY <1>1, <1>2, <1>3

LEMMA CircuitSteps ==
  ASSUME TypeOK, Next
  PROVE  UNCHANGED circuitVars \/ PinStep \/ DrivenStep \/ EqualityStep
<1>0. output \in PinUid \union {NullPin}
  BY DEF TypeOK
<1>1. CASE AddVariablePin
  BY <1>1, PinsTyped DEF AddVariablePin, PinStep, circuitVars
<1>2. CASE EmitLeaf
  <2>1. Node \in NodeRecord
    BY <1>2, NodeInCall DEF EmitLeaf
  <2>2. LockedPin(Node.value) \in PinRecord /\ FloatingPin \in PinRecord
    BY <2>1, PinsTyped DEF NodeRecord, Bit
  <2> QED
    BY <1>2, <2>2 DEF EmitLeaf, PinStep, circuitVars
<1>3. CASE EmitNot
  <2>1. AddDrivenPin(output, NullPin, TRUTH_INVERT)
    BY <1>3 DEF EmitNot
  <2> QED
    BY <1>0, <2>1, BytesAreOpen, ByteConstants, AddDrivenPinSteps
<1>4. CASE emitBinaryGate
  <2>1. CASE NullPin \in {Current.left, output}
    BY <1>4, <2>1 DEF emitBinaryGate
  <2>2. CASE ~(NullPin \in {Current.left, output})
    <3>1. /\ InNode /\ Node.operation # "NOT"
          /\ AddDrivenPin(Current.left, output, truthByteFor(Node.operation))
      BY <1>4, <2>2 DEF emitBinaryGate, IsBinary, Unary
    <3>2. Current.left \in PinUid \union {NullPin}
      BY <3>1, NodeInCall
    <3> QED
      BY <1>0, <3>1, <3>2, BytesAreOpen, ByteConstants, AddDrivenPinSteps
  <2> QED
    BY <2>1, <2>2
<1>5. CASE EmitEquality
  <2>1. InEquation
    BY <1>5 DEF EmitEquality
  <2>2. Current.left \in PinUid \union {NullPin}
    BY <2>1, EquationInCall
  <2> QED
    BY <1>0, <1>5, <2>2 DEF EmitEquality, EqualityStep, circuitVars
<1>6. CASE \/ EditModel \/ compileModelToCircuit \/ NextVariable \/ VariablesDone
           \/ BeginEquation \/ EnterSide \/ EquationsDone \/ EnterLeft \/ PassOn \/ EnterRight
  BY <1>6 DEF EditModel, compileModelToCircuit, NextVariable, VariablesDone, BeginEquation,
              EnterSide, EquationsDone, EnterLeft, PassOn, EnterRight
<1> QED
  BY <1>1, <1>2, <1>3, <1>4, <1>5, <1>6 DEF Next, compile

LEMMA FeedForwardKept ==
  ASSUME TypeOK, FeedForward, Next
  PROVE  FeedForward'
<1>0. /\ Len(gates) \in Nat
      /\ Len(pins) \in Nat
      /\ \A g \in 1 .. Len(gates) : \A i \in Position :
           gates[g].pin[i] \in Nat /\ gates[g].pin[i] <= Len(pins)
  <2>1. TopologyTypeOK
    BY DEF TypeOK
  <2>2. Len(gates) \in Nat /\ Len(pins) \in Nat
    BY <2>1, LenProperties DEF TopologyTypeOK
  <2> QED
    BY <2>1, <2>2 DEF TopologyTypeOK, PinUid, NullPin
<1>1. CASE gates' = gates
  BY <1>1 DEF FeedForward
<1>2. ASSUME NEW a \in Nat, NEW b \in Nat, NEW c \in Nat, NEW truth_byte \in Byte,
             gates' = WithGate(a, b, c, truth_byte),
             c # NullPin => a < c /\ b < c /\ c > Len(pins)
      PROVE  FeedForward'
  <2>1. gates \in Seq(GateRecord)
    BY DEF TypeOK, TopologyTypeOK
  <2> DEFINE new == [pin |-> <<a, b, c>>, truth_byte |-> truth_byte, released |-> FALSE]
  <2>2. new \in GateRecord
    BY DEF GateRecord, Position
  <2>3. gates' = Append(gates, new) /\ new.pin[1] = a /\ new.pin[2] = b /\ new.pin[3] = c
    BY <1>2 DEF WithGate
  <2> HIDE DEF new
  <2>4. /\ Len(gates') = Len(gates) + 1
        /\ \A g \in 1 .. Len(gates) : gates'[g] = gates[g]
        /\ gates'[Len(gates) + 1] = new
    BY <2>1, <2>2, <2>3, AppendProperties
  <2>5. ASSUME NEW g \in 1 .. Len(gates'), gates'[g].pin[3] # NullPin
        PROVE  /\ gates'[g].pin[1] < gates'[g].pin[3]
               /\ gates'[g].pin[2] < gates'[g].pin[3]
               /\ \A h \in 1 .. g - 1 : gates'[h].pin[3] < gates'[g].pin[3]
    <3>1. CASE g \in 1 .. Len(gates)
      <4>1. gates'[g] = gates[g] /\ \A h \in 1 .. g - 1 : gates'[h] = gates[h]
        BY <1>0, <2>4, <3>1
      <4> QED
        BY <2>5, <3>1, <4>1 DEF FeedForward
    <3>2. CASE g = Len(gates) + 1
      <4>1. gates'[g].pin[1] = a /\ gates'[g].pin[2] = b /\ gates'[g].pin[3] = c
        BY <2>3, <2>4, <3>2
      <4>2. a < c /\ b < c /\ c > Len(pins)
        BY <1>2, <2>5, <4>1
      <4>3. ASSUME NEW h \in 1 .. g - 1
            PROVE  gates'[h].pin[3] < c
        <5>1. h \in 1 .. Len(gates) /\ gates'[h] = gates[h]
          BY <1>0, <2>4, <3>2
        <5>2. gates[h].pin[3] \in Nat /\ gates[h].pin[3] <= Len(pins)
          BY <1>0, <5>1 DEF Position
        <5> QED
          BY <1>0, <4>2, <5>1, <5>2
      <4> QED
        BY <4>1, <4>2, <4>3
    <3> QED
      BY <1>0, <2>4, <3>1, <3>2
  <2> QED
    BY <2>5 DEF FeedForward
<1>3. CASE DrivenStep
  <2>1. PICK a \in PinUid \union {NullPin}, b \in PinUid \union {NullPin}, truth_byte \in Byte :
          gates' = WithGate(a, b, NewPinUid, truth_byte)
    BY <1>3 DEF DrivenStep
  <2>2. /\ a \in Nat /\ b \in Nat /\ NewPinUid \in Nat
        /\ a < NewPinUid /\ b < NewPinUid /\ NewPinUid > Len(pins)
    BY <1>0 DEF PinUid, NullPin, NewPinUid
  <2> QED
    BY <1>2, <2>1, <2>2
<1>4. CASE EqualityStep
  <2>1. PICK a \in PinUid \union {NullPin}, b \in PinUid \union {NullPin} :
          gates' = WithGate(a, b, NullPin, TRUTH_EQUAL)
    BY <1>4 DEF EqualityStep
  <2>2. a \in Nat /\ b \in Nat /\ NullPin \in Nat
    BY <1>0 DEF PinUid, NullPin
  <2> QED
    BY <1>2, <2>1, <2>2, ByteConstants
<1> QED
  BY <1>1, <1>3, <1>4, CircuitSteps DEF circuitVars, PinStep

(* A gate's third pin is newer than its first two and than every earlier   *)
(* gate's: emitExpression emits operands before operators, into fresh pins.*)
THEOREM SignalsFlowForward == Spec => []FeedForward
<1>1. Init => FeedForward
  <2>1. Init => gates = << >>
    BY DEF Init, TopologyInit
  <2>2. gates = << >> => 1 .. Len(gates) = {}
    BY EmptySeq
  <2> QED
    BY <2>1, <2>2 DEF FeedForward
<1>2. TypeOK /\ FeedForward /\ [Next]_vars => FeedForward'
  <2>1. UNCHANGED vars /\ FeedForward => FeedForward'
    BY DEF vars, FeedForward
  <2> QED
    BY <2>1, FeedForwardKept
<1> QED
  BY <1>1, <1>2, TypeCorrect, PTL DEF Spec


Extension(assignment, v) ==
  [p \in PinUid' |-> IF p \in PinUid THEN assignment[p] ELSE v]

(* Gates that were there see no difference.                                *)
LEMMA OldGateAdmits ==
  ASSUME TopologyTypeOK, PinUid \subseteq PinUid', NEW v,
         NEW assignment \in [PinUid -> Bit], NEW g \in 1 .. Len(gates),
         Admits(gates[g], assignment)
  PROVE  Admits(gates[g], Extension(assignment, v))
<1>1. PICK combination \in [Position -> Bit] :
        /\ allows(gates[g], combination)
        /\ \A i \in Position :
             gates[g].pin[i] # NullPin => combination[i] = assignment[gates[g].pin[i]]
  BY DEF Admits
<1>2. \A i \in Position :
        gates[g].pin[i] # NullPin =>
          Extension(assignment, v)[gates[g].pin[i]] = assignment[gates[g].pin[i]]
  BY DEF TopologyTypeOK, Extension
<1> QED
  BY <1>1, <1>2 DEF Admits

LEMMA StillSolution ==
  ASSUME TopologyTypeOK, PinUid \subseteq PinUid', NEW v \in Bit,
         NEW assignment \in Solutions(pins),
         Len(gates) \in Nat, Len(gates') \in {Len(gates), Len(gates) + 1},
         \A g \in 1 .. Len(gates) : gates'[g] = gates[g],
         Len(gates') = Len(gates) + 1 =>
           Admits(gates'[Len(gates) + 1], Extension(assignment, v)),
         \A p \in PinUid : pins'[p] = pins[p],
         \A p \in PinUid' \ PinUid : Known(pins'[p]) => v = ValueOf(pins'[p])
  PROVE  Extension(assignment, v) \in Solutions(pins)'
<1> DEFINE extended == Extension(assignment, v)
<1>1. /\ assignment \in [PinUid -> Bit]
      /\ \A g \in 1 .. Len(gates) : Admits(gates[g], assignment)
      /\ \A p \in PinUid : Known(pins[p]) => assignment[p] = ValueOf(pins[p])
  BY DEF Solutions
<1>2. extended \in [PinUid' -> Bit]
  BY <1>1 DEF Extension
<1>3. ASSUME NEW g \in 1 .. Len(gates')
      PROVE  Admits(gates'[g], extended)
  <2>1. CASE g \in 1 .. Len(gates)
    BY <1>1, <2>1, OldGateAdmits
  <2>2. CASE g = Len(gates) + 1
    BY <2>2
  <2> QED
    BY <2>1, <2>2
<1>4. ASSUME NEW p \in PinUid', Known(pins'[p])
      PROVE  extended[p] = ValueOf(pins'[p])
  <2>1. CASE p \in PinUid
    BY <1>1, <1>4, <2>1 DEF Extension
  <2>2. CASE p \notin PinUid
    BY <1>4, <2>2 DEF Extension
  <2> QED
    BY <2>1, <2>2
<1> HIDE DEF extended
<1>5. extended \in Solutions(pins)'
  BY <1>2, <1>3, <1>4 DEF Solutions, Admits, allows
<1> QED
  BY <1>5 DEF extended

LEMMA StepConserves ==
  ASSUME TypeOK, Next, circuitVars' # circuitVars, NEW assignment \in Solutions(pins)
  PROVE  \E v \in Bit : Extension(assignment, v) \in Solutions(pins)'
<1>0. /\ TopologyTypeOK
      /\ pins \in Seq(PinRecord)
      /\ Len(gates) \in Nat
      /\ assignment \in [PinUid -> Bit]
  BY LenProperties DEF TypeOK, TopologyTypeOK, Solutions
<1>1. CASE PinStep
  <2>1. PICK pin \in PinRecord : pins' = Append(pins, pin) /\ gates' = gates
    BY <1>1 DEF PinStep
  <2>2. /\ PinUid \subseteq PinUid'
        /\ \A p \in PinUid : pins'[p] = pins[p]
        /\ \A p \in PinUid' \ PinUid : pins'[p] = pin
    <3>1. /\ Len(pins) \in Nat
          /\ Len(pins') = Len(pins) + 1
          /\ pins'[Len(pins) + 1] = pin
          /\ \A p \in 1 .. Len(pins) : pins'[p] = pins[p]
      BY <1>0, <2>1, AppendProperties, LenProperties
    <3>2. PinUid = 1 .. Len(pins) /\ PinUid' = 1 .. Len(pins) + 1
      BY <3>1 DEF PinUid
    <3> QED
      BY <3>1, <3>2
  <2>3. ValueOf(pin) \in Bit
    BY DEF ValueOf, Bit
  <2>4. \A p \in PinUid' \ PinUid : Known(pins'[p]) => ValueOf(pin) = ValueOf(pins'[p])
    BY <2>2
  <2>5. /\ Len(gates') = Len(gates)
        /\ \A g \in 1 .. Len(gates) : gates'[g] = gates[g]
    BY <2>1
  <2>6. Len(gates') \in {Len(gates), Len(gates) + 1} /\ Len(gates') # Len(gates) + 1
    BY <1>0, <2>5
  <2>7. Extension(assignment, ValueOf(pin)) \in Solutions(pins)'
    BY <1>0, <2>2, <2>3, <2>4, <2>5, <2>6, StillSolution
  <2> QED
    BY <2>3, <2>7
<1>2. CASE DrivenStep
  <2>1. PICK a \in PinUid \union {NullPin}, b \in PinUid \union {NullPin}, truth_byte \in Byte :
          /\ Open(a, b, truth_byte)
          /\ pins' = Append(pins, FloatingPin)
          /\ gates' = WithGate(a, b, NewPinUid, truth_byte)
    BY <1>2 DEF DrivenStep
  <2>2. /\ pins' \in Seq(PinRecord)
        /\ PinUid \subseteq PinUid'
        /\ NewPinUid \in PinUid'
        /\ NewPinUid \notin PinUid
        /\ \A p \in PinUid : pins'[p] = pins[p]
        /\ \A p \in PinUid' \ PinUid : pins'[p] = FloatingPin
    <3>0. FloatingPin \in PinRecord
      BY PinsTyped
    <3>1. /\ pins' \in Seq(PinRecord)
          /\ Len(pins) \in Nat
          /\ Len(pins') = Len(pins) + 1
          /\ pins'[Len(pins) + 1] = FloatingPin
          /\ \A p \in 1 .. Len(pins) : pins'[p] = pins[p]
      BY <1>0, <2>1, <3>0, AppendProperties, LenProperties
    <3>2. PinUid = 1 .. Len(pins) /\ PinUid' = 1 .. Len(pins) + 1
      BY <3>1 DEF PinUid
    <3> QED
      BY <3>1, <3>2 DEF NewPinUid
  <2>3. /\ Len(gates') = Len(gates) + 1
        /\ \A g \in 1 .. Len(gates) : gates'[g] = gates[g]
        /\ gates'[Len(gates) + 1] =
             [pin |-> <<a, b, NewPinUid>>, truth_byte |-> truth_byte, released |-> FALSE]
    <3>1. gates' = WithGate(a, b, NewPinUid, truth_byte)
      BY <2>1
    <3>2. a \in PinUid' \union {NullPin} /\ b \in PinUid' \union {NullPin}
      BY <2>2
    <3>3. NewPinUid \in PinUid' \union {NullPin} /\ pins' \in Seq(PinRecord)
      BY <2>2
    <3> QED
      BY <1>0, <2>2, <3>1, <3>2, <3>3, GateAppended
  <2>4. PICK i \in Bit, j \in Bit, k \in Bit :
          /\ combinationAllowed(truth_byte, i, j, k)
          /\ a # NullPin => i = assignment[a]
          /\ b # NullPin => j = assignment[b]
    <3>1. \E x, y \in Bit : /\ a # NullPin => x = assignment[a]
                            /\ b # NullPin => y = assignment[b]
      BY <1>0, <2>1 DEF Bit
    <3> QED
      BY <2>1, <3>1 DEF Open
  <2>5. Admits(gates'[Len(gates) + 1], Extension(assignment, k))
    <3> DEFINE combination == <<i, j, k>>
    <3>1. combination \in [Position -> Bit]
      BY DEF Position
    <3>2. /\ a # NullPin => Extension(assignment, k)[a] = i
          /\ b # NullPin => Extension(assignment, k)[b] = j
          /\ Extension(assignment, k)[NewPinUid] = k
      BY <2>1, <2>2, <2>4 DEF Extension
    <3> QED
      BY <2>3, <2>4, <3>1, <3>2 DEF Admits, allows, Position
  <2>6. \A p \in PinUid' \ PinUid : ~Known(pins'[p])
    BY <2>2 DEF Known, FloatingPin
  <2> QED
    BY <1>0, <2>2, <2>3, <2>5, <2>6, StillSolution
<1>3. CASE EqualityStep
  <2>1. PICK a \in PinUid \union {NullPin}, b \in PinUid \union {NullPin} :
          /\ pins' = pins
          /\ gates' = WithGate(a, b, NullPin, TRUTH_EQUAL)
    BY <1>3 DEF EqualityStep
  <2>2. PinUid' = PinUid
    BY <2>1 DEF PinUid
  <2>3. /\ Len(gates') = Len(gates) + 1
        /\ \A g \in 1 .. Len(gates) : gates'[g] = gates[g]
        /\ gates'[Len(gates) + 1] =
             [pin |-> <<a, b, NullPin>>, truth_byte |-> TRUTH_EQUAL, released |-> FALSE]
    BY <1>0, <2>1, <2>2, ByteConstants, GateAppended, ZenonT(60)
  <2>4. PICK i \in Bit, j \in Bit, k \in Bit :
          /\ combinationAllowed(TRUTH_EQUAL, i, j, k)
          /\ a # NullPin => i = assignment[a]
          /\ b # NullPin => j = assignment[b]
    <3>1. \E x, y \in Bit : /\ a # NullPin => x = assignment[a]
                            /\ b # NullPin => y = assignment[b]
      BY <1>0, <2>1 DEF Bit
    <3>2. Open(a, b, TRUTH_EQUAL)
      BY BytesAreOpen
    <3> QED
      BY <3>1, <3>2 DEF Open
  <2>5. Admits(gates'[Len(gates) + 1], Extension(assignment, k))
    <3>1. <<i, j, k>> \in [Position -> Bit]
      BY DEF Position
    <3>2. /\ a # NullPin => Extension(assignment, k)[a] = i
          /\ b # NullPin => Extension(assignment, k)[b] = j
      BY <2>1, <2>2, <2>4 DEF Extension
    <3> QED
      BY <2>3, <2>4, <3>1, <3>2 DEF Admits, allows, Position
  <2> QED
    BY <1>0, <2>1, <2>2, <2>3, <2>5, StillSolution
<1> QED
  BY <1>1, <1>2, <1>3, CircuitSteps

(* Every solution of the circuit before a step of a compilation extends to *)
(* a solution after it, so that compiling, even when it fails half way,    *)
(* never rules out anything that was possible before                       *)
(* (compileModelToCircuit with emitExpression and emitBinaryGate).         *)
THEOREM CompilingConserves == Spec => Conservative
<1>1. TypeOK /\ [Next]_vars =>
        [ circuitVars' # circuitVars =>
            \A assignment \in Solutions(pins) :
              \E v \in Bit :
                [p \in PinUid' |-> IF p \in PinUid THEN assignment[p] ELSE v]
                  \in Solutions(pins)' ]_vars
  <2>1. UNCHANGED vars => circuitVars' = circuitVars
    BY DEF vars, circuitVars
  <2> QED
    BY <2>1, StepConserves DEF Extension
<1> QED
  BY <1>1, TypeCorrect, PTL DEF Spec, Conservative

-----------------------------------------------------------------------------
(* What the structure of an expression says, for every model. *)

HasPinOf(f, n) ==
  IF nodes[n].type = "OPERATION"
  THEN nodes[n].operation \in {"SLICE", "CONCAT"} /\ f[nodes[n].left]
  ELSE TRUE

EmitsOf(f, n) ==
  LET node == nodes[n]
  IN IF node.type # "OPERATION" THEN TRUE
     ELSE IF node.operation \in Unary THEN f[node.left]
     ELSE HasPin[node.left] /\ HasPin[node.right]

LEMMA OperandsOlder ==
  ASSUME ModelTypeOK, NEW n \in NodeUid, nodes[n].type = "OPERATION"
  PROVE  /\ n \in Nat
         /\ nodes[n].left \in NodeUid /\ nodes[n].left < n
         /\ nodes[n].operation # "NOT" => nodes[n].right \in NodeUid /\ nodes[n].right < n
<1>1. nodes[n] \in NodeRecord /\ Founded(nodes[n], n) /\ Len(nodes) \in Nat
  BY NodeFacts DEF ModelTypeOK
<1> QED
  BY <1>1 DEF Founded, NodeRecord, NodeUid, NullNode

LEMMA HasPinExists ==
  ASSUME ModelTypeOK
  PROVE  HasPin = [n \in NodeUid |-> HasPinOf(HasPin, n)]
<1> DEFINE N == Len(nodes)
           Equation(f, m) == f = [n \in 1 .. m |-> HasPinOf(f, n)]
           T == { m \in 0 .. N : \E f : Equation(f, m) }
<1>1. N \in Nat /\ NodeUid = 1 .. N
  BY NodeFacts DEF NodeUid
<1>2. \E f : Equation(f, 0)
  <2> DEFINE f == [n \in 1 .. 0 |-> TRUE]
  <2>1. Equation(f, 0)
    OBVIOUS
  <2> QED
    BY <2>1
<1>3. ASSUME NEW m \in 0 .. N, m < N, NEW f, Equation(f, m)
      PROVE  \E g : Equation(g, m + 1)
  <2> DEFINE g == [n \in 1 .. m + 1 |-> HasPinOf(f, n)]
  <2>1. \A n \in 1 .. m : g[n] = f[n]
    BY <1>1, <1>3
  <2>2. \A n \in 1 .. m + 1 : nodes[n].type = "OPERATION" => nodes[n].left \in 1 .. m
    BY <1>1, <1>3, OperandsOlder
  <2>3. ASSUME NEW n \in 1 .. m + 1
        PROVE  HasPinOf(f, n) = HasPinOf(g, n)
    <3>1. nodes[n].type = "OPERATION" => f[nodes[n].left] = g[nodes[n].left]
      BY <2>1, <2>2
    <3> HIDE DEF g
    <3> QED
      BY <3>1 DEF HasPinOf
  <2>4. Equation(g, m + 1)
    BY <2>3
  <2> HIDE DEF Equation
  <2> QED
    BY <2>4
<1>4. T = 0 .. N
  <2> HIDE DEF Equation
  <2>1. 0 \in T
    BY <1>1, <1>2
  <2>2. ASSUME NEW m \in T, m < N
        PROVE  m + 1 \in T
    BY <1>1, <1>3, <2>2
  <2>3. T \subseteq 0 .. N
    OBVIOUS
  <2> HIDE DEF T, N
  <2> QED
    BY <1>1, <2>1, <2>2, <2>3, AllReached
<1>5. \E f : Equation(f, N)
  <2> HIDE DEF Equation
  <2> QED
    BY <1>1, <1>4
<1>6. HasPin = CHOOSE f : f = [n \in NodeUid |-> HasPinOf(f, n)]
  BY DEF HasPin, HasPinOf
<1> QED
  BY <1>1, <1>5, <1>6

LEMMA EmitsExists ==
  ASSUME ModelTypeOK
  PROVE  Emits = [n \in NodeUid |-> EmitsOf(Emits, n)]
<1> DEFINE N == Len(nodes)
           Equation(f, m) == f = [n \in 1 .. m |-> EmitsOf(f, n)]
           T == { m \in 0 .. N : \E f : Equation(f, m) }
<1>1. N \in Nat /\ NodeUid = 1 .. N
  BY NodeFacts DEF NodeUid
<1>2. \E f : Equation(f, 0)
  <2> DEFINE f == [n \in 1 .. 0 |-> TRUE]
  <2>1. Equation(f, 0)
    OBVIOUS
  <2> QED
    BY <2>1
<1>3. ASSUME NEW m \in 0 .. N, m < N, NEW f, Equation(f, m)
      PROVE  \E g : Equation(g, m + 1)
  <2> DEFINE g == [n \in 1 .. m + 1 |-> EmitsOf(f, n)]
  <2>1. \A n \in 1 .. m : g[n] = f[n]
    BY <1>1, <1>3
  <2>2. \A n \in 1 .. m + 1 : nodes[n].type = "OPERATION" => nodes[n].left \in 1 .. m
    BY <1>1, <1>3, OperandsOlder
  <2>3. \A n \in 1 .. m + 1 : EmitsOf(f, n) = EmitsOf(g, n)
    BY <2>1, <2>2 DEF EmitsOf
  <2>4. Equation(g, m + 1)
    BY <2>3
  <2> HIDE DEF Equation
  <2> QED
    BY <2>4
<1>4. T = 0 .. N
  <2> HIDE DEF Equation
  <2>1. 0 \in T
    BY <1>1, <1>2
  <2>2. ASSUME NEW m \in T, m < N
        PROVE  m + 1 \in T
    BY <1>1, <1>3, <2>2
  <2>3. T \subseteq 0 .. N
    OBVIOUS
  <2> HIDE DEF T, N
  <2> QED
    BY <1>1, <2>1, <2>2, <2>3, AllReached
<1>5. \E f : Equation(f, N)
  <2> HIDE DEF Equation
  <2> QED
    BY <1>1, <1>4
<1>6. Emits = CHOOSE f : f = [n \in NodeUid |-> EmitsOf(f, n)]
  BY DEF Emits, EmitsOf
<1> QED
  BY <1>1, <1>5, <1>6

LEMMA ShapeFacts ==
  ASSUME ModelTypeOK, NEW n \in NodeUid
  PROVE  /\ nodes[n].type # "OPERATION" => HasPin[n] /\ Emits[n]
         /\ nodes[n].type = "OPERATION" =>
              /\ HasPin[n] <=> nodes[n].operation \in {"SLICE", "CONCAT"} /\ HasPin[nodes[n].left]
              /\ nodes[n].operation \in Unary => (Emits[n] <=> Emits[nodes[n].left])
              /\ nodes[n].operation \notin Unary =>
                   (Emits[n] <=> HasPin[nodes[n].left] /\ HasPin[nodes[n].right])
<1>1. HasPin[n] = HasPinOf(HasPin, n)
  BY HasPinExists
<1>2. Emits[n] = EmitsOf(Emits, n)
  BY EmitsExists
<1> QED
  BY <1>1, <1>2 DEF HasPinOf, EmitsOf

(* What has a pin for its value can be emitted.                            *)
LEMMA HasPinEmits ==
  ASSUME ModelTypeOK
  PROVE  \A n \in NodeUid : HasPin[n] => Emits[n]
<1> DEFINE N == Len(nodes)
           T == { m \in 0 .. N : \A n \in 1 .. m : HasPin[n] => Emits[n] }
<1>1. N \in Nat /\ NodeUid = 1 .. N
  BY NodeFacts DEF NodeUid
<1>2. 0 \in T
  BY <1>1
<1>3. ASSUME NEW m \in T, m < N
      PROVE  m + 1 \in T
  <2>1. m \in Nat /\ m + 1 \in NodeUid /\ m + 1 \in 0 .. N
    BY <1>1, <1>3
  <2>2. nodes[m + 1].type = "OPERATION" => nodes[m + 1].left \in 1 .. m
    BY <1>1, <2>1, OperandsOlder
  <2>3. \A n \in 1 .. m : HasPin[n] => Emits[n]
    BY <1>3
  <2>4. HasPin[m + 1] => Emits[m + 1]
    BY <2>1, <2>2, <2>3, ShapeFacts DEF Unary
  <2>5. \A n \in 1 .. m + 1 : n \in 1 .. m \/ n = m + 1
    BY <2>1
  <2> QED
    BY <2>1, <2>3, <2>4, <2>5
<1>4. T \subseteq 0 .. N
  OBVIOUS
<1>5. T = 0 .. N
  <2> HIDE DEF T, N
  <2> QED
    BY <1>1, <1>2, <1>3, <1>4, AllReached
<1> QED
  BY <1>1, <1>5

LEMMA ShapeFrame ==
  ASSUME nodes' = nodes
  PROVE  HasPin' = HasPin /\ Emits' = Emits
  BY DEF HasPin, Emits, NodeUid

-----------------------------------------------------------------------------
(* What the calls under way know of it. *)

LeftOf(frame)  == IF frame.node = NullNode THEN equations[variable].lhs ELSE nodes[frame.node].left
RightOf(frame) == IF frame.node = NullNode THEN equations[variable].rhs ELSE nodes[frame.node].right

(* An operand that has been emitted, and the pin handed back for it.       *)
Emitted(n, pin) == Emits[n] /\ (pin # NullPin <=> HasPin[n])

ChainedFrame(frame) ==
  /\ frame.stage # "enter" /\ frame.node # NullNode => nodes[frame.node].type = "OPERATION"
  /\ frame.stage = "right" =>
       /\ frame.node # NullNode => nodes[frame.node].operation \notin Unary
       /\ Emitted(LeftOf(frame), frame.left)

Calls(caller, callee) ==
  \/ caller.stage = "left" /\ callee.node = LeftOf(caller)
  \/ caller.stage = "right" /\ callee.node = RightOf(caller)

Chain ==
  /\ \A i \in 1 .. Len(frames) : (frames[i].node = NullNode <=> i = 1) /\ ChainedFrame(frames[i])
  /\ \A i \in 1 .. Len(frames) : i < Len(frames) => Calls(frames[i], frames[i + 1])

Returned ==
  frames # << >> =>
    /\ Current.stage = "left" => Emitted(LeftOf(Current), output)
    /\ Current.stage = "right" => Emitted(RightOf(Current), output)

EquationEmits(e) == Emits[equations[e].lhs] /\ Emits[equations[e].rhs]

Passed == phase = "equations" => \A e \in 1 .. Len(equations) : e < variable => EquationEmits(e)

SuccessByShape ==
  /\ outcome = "compiled" => EveryEquationEmits
  /\ outcome = "failed" => ~EveryEquationEmits \/ ~RoomForPin \/ ~RoomForGate

ShapeInv ==
  /\ Chain
  /\ Returned
  /\ Passed
  /\ phase # "idle" => outcome = "none"
  /\ SuccessByShape

LEMMA FrameNumbers ==
  ASSUME TypeOK, frames # << >>
  PROVE  /\ frames \in Seq(Frame)
         /\ Len(frames) \in Nat \ {0}
         /\ Callers \in Seq(Frame)
         /\ Len(Callers) = Len(frames) - 1
         /\ \A i \in 1 .. Len(frames) - 1 : Callers[i] = frames[i]
<1>1. frames \in Seq(Frame) /\ Len(frames) \in Nat \ {0}
  BY EmptySeq DEF TypeOK
<1> DEFINE k == Len(frames) - 1
<1>2. k \in Nat /\ k \in Int /\ 1 \in Int /\ \A i \in 1 .. k : frames[i] \in Frame
  BY <1>1, ElementOfSeq
<1>3. Callers = SubSeq(frames, 1, k)
  BY DEF Callers
<1> HIDE DEF k
<1>4. /\ Callers \in Seq(Frame)
      /\ Len(Callers) = IF 1 <= k THEN k - 1 + 1 ELSE 0
      /\ \A i \in 1 .. k - 1 + 1 : Callers[i] = frames[1 + i - 1]
  BY <1>2, <1>3, SubSeqProperties
<1>5. /\ Len(Callers) = k
      /\ \A i \in 1 .. k : Callers[i] = frames[i]
  BY <1>2, <1>4
<1> QED
  BY <1>1, <1>4, <1>5 DEF k

LEMMA FrameShape ==
  ASSUME nodes' = nodes, equations' = equations, variable' = variable
  PROVE  /\ \A frame : LeftOf(frame)' = LeftOf(frame) /\ RightOf(frame)' = RightOf(frame)
         /\ \A frame : ChainedFrame(frame)' <=> ChainedFrame(frame)
         /\ \A caller, callee : Calls(caller, callee)' <=> Calls(caller, callee)
         /\ \A n, pin : Emitted(n, pin)' <=> Emitted(n, pin)
<1>1. ASSUME NEW CONSTANT frame
      PROVE  LeftOf(frame)' = LeftOf(frame) /\ RightOf(frame)' = RightOf(frame)
  BY DEF LeftOf, RightOf
<1>2. ASSUME NEW CONSTANT n, NEW CONSTANT pin
      PROVE  Emitted(n, pin)' <=> Emitted(n, pin)
  BY ShapeFrame DEF Emitted
<1>3. ASSUME NEW CONSTANT frame
      PROVE  ChainedFrame(frame)' <=> ChainedFrame(frame)
  <2>1. Emitted(LeftOf(frame), frame.left)' <=> Emitted(LeftOf(frame), frame.left)
    BY <1>1, ShapeFrame DEF Emitted
  <2> QED
    BY <2>1 DEF ChainedFrame
<1>4. ASSUME NEW CONSTANT caller, NEW CONSTANT callee
      PROVE  Calls(caller, callee)' <=> Calls(caller, callee)
  BY <1>1 DEF Calls
<1> QED
  BY <1>1, <1>2, <1>3, <1>4

(* An innermost call returns having emitted its node.                      *)
LEMMA HandBackShape ==
  ASSUME TypeOK, ShapeInv, InNode, NEW CONSTANT pin, HandBack(pin), Emitted(Current.node, pin)
  PROVE  Chain' /\ Returned'
<1> DEFINE k == Len(frames)
<1>1. /\ frames # << >>
      /\ frames' = Callers
      /\ output' = pin
      /\ UNCHANGED <<nodes, equations, variable, phase>>
  BY DEF HandBack, InNode, modelVars
<1>2. /\ k \in Nat \ {0}
      /\ Len(frames') = k - 1
      /\ \A i \in 1 .. k - 1 : frames'[i] = frames[i]
  BY <1>1, FrameNumbers
<1>3. k # 1 /\ k - 1 \in 1 .. k /\ k \in 1 .. k
  BY <1>2 DEF InNode, Current, ShapeInv, Chain
<1>4. /\ \A i \in 1 .. k - 1 : (frames'[i].node = NullNode <=> i = 1) /\ ChainedFrame(frames'[i])
      /\ \A i \in 1 .. k - 1 : i < k - 1 => Calls(frames'[i], frames'[i + 1])
  BY <1>2, <1>3 DEF ShapeInv, Chain
<1>5. Chain'
  BY <1>1, <1>2, <1>4, FrameShape DEF Chain
<1>6. Current' = frames[k - 1]
  BY <1>2, <1>3 DEF Current
<1>7. Calls(frames[k - 1], Current)
  BY <1>2, <1>3 DEF ShapeInv, Chain, Current
<1>8. Returned'
  <2>1. /\ Current'.stage = "left" => Emitted(LeftOf(Current'), output')
        /\ Current'.stage = "right" => Emitted(RightOf(Current'), output')
    BY <1>1, <1>6, <1>7 DEF Calls
  <2> QED
    BY <1>1, <1>6, <2>1, FrameShape DEF Returned
<1> QED
  BY <1>5, <1>8

(* An innermost call turns to an operand.                                  *)
LEMMA EnterShape ==
  ASSUME TypeOK, ShapeInv, frames # << >>, Current.node # NullNode => Node.type = "OPERATION",
         NEW CONSTANT operand, NEW CONSTANT stage, NEW CONSTANT left, Enter(operand, stage, left),
         operand \in NodeUid,
         \/ stage = "left" /\ operand = LeftOf(Current)
         \/ /\ stage = "right" /\ operand = RightOf(Current)
            /\ Current.node # NullNode => IsBinary
            /\ Emitted(LeftOf(Current), left)
  PROVE  Chain' /\ Returned'
<1> DEFINE k == Len(frames)
           caller == [Current EXCEPT !.stage = stage, !.left = left]
<1>1. /\ frames' = Callers \o <<caller, Call(operand)>>
      /\ UNCHANGED <<nodes, equations, variable>>
  BY DEF Enter, modelVars
<1>2. /\ k \in Nat \ {0}
      /\ Callers \in Seq(Frame)
      /\ Len(Callers) = k - 1
      /\ \A i \in 1 .. k - 1 : Callers[i] = frames[i]
  BY FrameNumbers
<1>3. /\ caller.node = Current.node
      /\ caller.stage = stage
      /\ caller.left = left
      /\ Call(operand).node = operand
      /\ Call(operand).stage = "enter"
  BY FrameFacts DEF Frame, Call
<1> HIDE DEF caller
<1>4. /\ Len(frames') = k + 1
      /\ \A i \in 1 .. k - 1 : frames'[i] = frames[i]
      /\ frames'[k] = caller
      /\ frames'[k + 1] = Call(operand)
  <2> DEFINE two == <<caller, Call(operand)>>
  <2>1. Len(two) = 2 /\ two[1] = caller /\ two[2] = Call(operand)
    OBVIOUS
  <2> DEFINE S == Frame \union {caller, Call(operand)}
  <2>5. two \in Seq(S) /\ Callers \in Seq(S)
    BY <1>2
  <2> HIDE DEF S
  <2> HIDE DEF two
  <2>6. /\ Len(Callers \o two) = Len(Callers) + Len(two)
        /\ \A i \in 1 .. Len(Callers) + Len(two) :
             (Callers \o two)[i] = IF i <= Len(Callers) THEN Callers[i] ELSE two[i - Len(Callers)]
    BY <2>5, ConcatProperties
  <2>2. /\ Len(Callers \o two) = (k - 1) + 2
        /\ \A i \in 1 .. (k - 1) + 2 :
             (Callers \o two)[i] = IF i <= k - 1 THEN Callers[i] ELSE two[i - (k - 1)]
    BY <1>2, <2>1, <2>6
  <2>3. frames' = Callers \o two
    BY <1>1 DEF two
  <2> HIDE DEF k
  <2>4. k - (k - 1) = 1 /\ (k + 1) - (k - 1) = 2 /\ (k - 1) + 2 = k + 1
    BY <1>2
  <2> QED
    BY <1>2, <2>1, <2>2, <2>3, <2>4
<1>5. /\ LeftOf(caller) = LeftOf(Current)
      /\ RightOf(caller) = RightOf(Current)
  BY <1>3 DEF LeftOf, RightOf
<1>6. ChainedFrame(caller) /\ Calls(caller, Call(operand))
  BY <1>3, <1>5 DEF ChainedFrame, Calls, IsBinary, Node
<1>7. ChainedFrame(Call(operand)) /\ operand # NullNode
  BY <1>3, NodeFacts DEF ChainedFrame, TypeOK, NodeUid, NullNode
<1>8. /\ \A i \in 1 .. k : (frames[i].node = NullNode <=> i = 1) /\ ChainedFrame(frames[i])
      /\ \A i \in 1 .. k : i < k => Calls(frames[i], frames[i + 1])
      /\ Current = frames[k]
  BY DEF ShapeInv, Chain, Current
<1>9. ASSUME NEW i \in 1 .. k + 1
      PROVE  (frames'[i].node = NullNode <=> i = 1) /\ ChainedFrame(frames'[i])
  <2>1. CASE i \in 1 .. k - 1
    BY <1>2, <1>4, <1>8, <2>1
  <2>2. CASE i = k
    BY <1>2, <1>3, <1>4, <1>6, <1>8, <2>2
  <2>3. CASE i = k + 1
    BY <1>2, <1>3, <1>4, <1>7, <2>3
  <2> QED
    BY <1>2, <2>1, <2>2, <2>3
<1>10. ASSUME NEW i \in 1 .. k + 1, i < k + 1
       PROVE  Calls(frames'[i], frames'[i + 1])
  <2>1. CASE i < k - 1
    <3>1. i \in 1 .. k - 1 /\ i + 1 \in 1 .. k - 1 /\ i \in 1 .. k /\ i < k
      BY <1>2, <2>1
    <3> QED
      BY <1>4, <1>8, <3>1
  <2>2. CASE i = k - 1
    <3>1. i \in 1 .. k - 1 /\ i + 1 = k /\ i \in 1 .. k /\ i < k
      BY <1>2, <2>2
    <3>2. Calls(frames[i], Current) /\ frames'[i] = frames[i] /\ frames'[i + 1] = caller
      BY <1>4, <1>8, <3>1
    <3> QED
      BY <1>3, <3>2 DEF Calls
  <2>3. CASE i = k
    BY <1>4, <1>6, <2>3
  <2> QED
    BY <1>2, <1>10, <2>1, <2>2, <2>3
<1>11. Chain'
  BY <1>1, <1>4, <1>9, <1>10, FrameShape DEF Chain
<1>12. Returned'
  BY <1>2, <1>3, <1>4 DEF Returned, Current
<1> QED
  BY <1>11, <1>12

(* Where one operand cannot be emitted, the whole equation cannot: a node  *)
(* that cannot be emitted has no pin either.                               *)
LEMMA BlameGoesUp ==
  ASSUME TypeOK, ShapeInv, InNode, ~Emits[Current.node]
  PROVE  variable \in 1 .. Len(equations) /\ ~EquationEmits(variable)
<1> DEFINE k == Len(frames)
           T == { j \in 0 .. k - 2 : ~Emits[frames[k - j].node] }
<1>1. /\ frames # << >> /\ k \in Nat \ {0} /\ variable \in 1 .. Len(equations)
      /\ ModelTypeOK
  BY FrameNumbers, FrameFacts DEF InNode, TypeOK
<1>2. k \in 1 .. k /\ k # 1
  BY <1>1 DEF InNode, ShapeInv, Chain, Current
<1>3. k - 2 \in Nat /\ 0 \in T
  <2>1. ~Emits[frames[k].node]
    BY DEF Current
  <2>2. k - 2 \in Nat /\ k - 0 = k
    <3>1. k \in Nat /\ k # 0 /\ k # 1
      BY <1>1, <1>2
    <3> HIDE DEF k
    <3> QED
      BY <3>1
  <2>3. 0 \in 0 .. k - 2
    BY <2>2
  <2> QED
    BY <2>1, <2>2, <2>3
<1>4. \A i \in 1 .. k : i < k => Calls(frames[i], frames[i + 1])
  BY DEF ShapeInv, Chain
<1>5. ASSUME NEW i \in 2 .. k - 1, ~Emits[frames[i + 1].node]
      PROVE  ~Emits[frames[i].node]
  <2>1. i \in 1 .. k /\ i < k /\ i # 1
    BY <1>1, <1>5
  <2> DEFINE n == frames[i].node
  <2>2. n # NullNode /\ ChainedFrame(frames[i]) /\ Calls(frames[i], frames[i + 1])
    BY <1>4, <2>1 DEF ShapeInv, Chain
  <2>3. frames[i] \in Frame
    BY <1>1, <2>1, FrameNumbers, ElementOfSeq
  <2>4. n \in NodeUid
    BY <2>2, <2>3 DEF Frame
  <2>5. nodes[n].type = "OPERATION"
    BY <2>2 DEF Calls, ChainedFrame
  <2>6. nodes[n].left \in NodeUid /\ (nodes[n].operation # "NOT" => nodes[n].right \in NodeUid)
    BY <1>1, <2>4, <2>5, OperandsOlder
  <2>7. CASE frames[i].stage = "left"
    <3>1. frames[i + 1].node = nodes[n].left
      BY <2>2, <2>7 DEF Calls, LeftOf
    <3>2. ~Emits[nodes[n].left] /\ ~HasPin[nodes[n].left]
      BY <1>1, <1>5, <2>6, <3>1, HasPinEmits
    <3> QED
      BY <1>1, <2>4, <2>5, <3>2, ShapeFacts
  <2>8. CASE frames[i].stage = "right"
    <3>1. frames[i + 1].node = nodes[n].right
      BY <2>2, <2>8 DEF Calls, RightOf
    <3>2. nodes[n].operation \notin Unary
      BY <2>2, <2>8 DEF ChainedFrame
    <3>3. ~Emits[nodes[n].right] /\ nodes[n].right \in NodeUid
      BY <1>5, <2>6, <3>1, <3>2 DEF Unary
    <3>4. ~HasPin[nodes[n].right]
      BY <1>1, <3>3, HasPinEmits
    <3> QED
      BY <1>1, <2>4, <2>5, <3>2, <3>4, ShapeFacts
  <2> QED
    BY <2>2, <2>7, <2>8 DEF Calls
<1>6. ASSUME NEW j \in T, j < k - 2
      PROVE  j + 1 \in T
  <2>1. k - (j + 1) \in 2 .. k - 1 /\ (k - (j + 1)) + 1 = k - j /\ j + 1 \in 0 .. k - 2
    BY <1>1, <1>3, <1>6
  <2>2. ~Emits[frames[k - j].node]
    BY <1>6
  <2>3. ~Emits[frames[k - (j + 1)].node]
    BY <1>5, <2>1, <2>2
  <2> QED
    BY <2>1, <2>3
<1>7. T = 0 .. k - 2
  <2>1. T \subseteq 0 .. k - 2
    OBVIOUS
  <2> DEFINE m == k - 2
  <2>2. m \in Nat /\ T \subseteq 0 .. m /\ 0 \in T /\ \A j \in T : j < m => j + 1 \in T
    BY <1>3, <1>6, <2>1
  <2> HIDE DEF T, m
  <2>3. T = 0 .. m
    BY <2>2, AllReached
  <2> QED
    BY <2>3 DEF m
<1>8. ~Emits[frames[2].node]
  <2> HIDE DEF T
  <2>1. k - 2 \in T /\ k - (k - 2) = 2
    <3> HIDE DEF k
    <3> QED
      BY <1>1, <1>3, <1>7
  <2> QED
    BY <2>1 DEF T
<1>9. 1 \in 1 .. k /\ 1 < k
  <2> HIDE DEF k, T
  <2> QED
    BY <1>1, <1>2
<1>10. frames[1].node = NullNode /\ Calls(frames[1], frames[2])
  BY <1>4, <1>9 DEF ShapeInv, Chain
<1>11. frames[2].node \in {equations[variable].lhs, equations[variable].rhs}
  BY <1>10 DEF Calls, LeftOf, RightOf
<1> QED
  BY <1>1, <1>8, <1>11 DEF EquationEmits

LEMMA NoCalls ==
  ASSUME frames = << >>
  PROVE  Chain /\ Returned
<1>1. 1 .. Len(frames) = {}
  BY EmptySeq
<1> QED
  BY <1>1 DEF Chain, Returned

LEMMA EquationFrame ==
  ASSUME nodes' = nodes, equations' = equations
  PROVE  \A e : EquationEmits(e)' <=> EquationEmits(e)
<1>1. ASSUME NEW CONSTANT e
      PROVE  EquationEmits(e)' <=> EquationEmits(e)
  BY ShapeFrame DEF EquationEmits
<1> QED
  BY <1>1

LEMMA FailingShape ==
  ASSUME Return("failed"),
         ~RoomForPin' \/ ~RoomForGate' \/ \E e \in 1 .. Len(equations) : ~EquationEmits(e)
  PROVE  ShapeInv'
<1>1. /\ frames' = << >> /\ phase' = "idle" /\ outcome' = "failed"
      /\ nodes' = nodes /\ equations' = equations
  BY DEF Return, modelVars
<1>2. Chain' /\ Returned'
  <2>1. 1 .. Len(frames') = {}
    BY <1>1, EmptySeq
  <2> QED
    BY <1>1, <2>1 DEF Chain, Returned
<1>3. SuccessByShape'
  <2>1. (\E e \in 1 .. Len(equations) : ~EquationEmits(e)) =>
          ~ \A e \in 1 .. Len(equations) : Emits[equations[e].lhs] /\ Emits[equations[e].rhs]
    BY DEF EquationEmits
  <2> QED
    BY <1>1, <2>1, ShapeFrame DEF SuccessByShape, EveryEquationEmits
<1> QED
  BY <1>1, <1>2, <1>3 DEF ShapeInv, Passed

(* A step of a call that does not end the compilation.                     *)
LEMMA GoingShape ==
  ASSUME ShapeInv, Chain', Returned', phase # "idle",
         UNCHANGED <<nodes, equations, variable, phase, outcome>>
  PROVE  ShapeInv'
<1>1. outcome' = "none"
  BY DEF ShapeInv
<1>2. Passed'
  BY EquationFrame DEF ShapeInv, Passed
<1> QED
  BY <1>1, <1>2 DEF ShapeInv, SuccessByShape, EveryEquationEmits

LEMMA DrivenPinRoom ==
  ASSUME NEW a, NEW b, NEW truth_byte, AddDrivenPin(a, b, truth_byte), ~(RoomForPin /\ RoomForGate)
  PROVE  ~RoomForPin' \/ ~RoomForGate'
<1>1. CASE RoomForPin
  BY <1>1 DEF AddDrivenPin, RoomForGate
<1>2. CASE ~RoomForPin
  BY <1>2 DEF AddDrivenPin, RoomForPin
<1> QED
  BY <1>1, <1>2

LEMMA NodeStepShape ==
  ASSUME TypeOK, ShapeInv, EmitLeaf \/ EnterLeft \/ PassOn \/ EmitNot \/ EnterRight \/ emitBinaryGate
  PROVE  ShapeInv'
<1> DEFINE n == Current.node
<1>1. InNode
  BY DEF EmitLeaf, EnterLeft, PassOn, EmitNot, EnterRight, emitBinaryGate
<1>2. /\ frames # << >> /\ phase = "equations" /\ n # NullNode /\ n \in NodeUid
      /\ ModelTypeOK /\ Node = nodes[n]
      /\ Node \in NodeRecord
      /\ Node.type = "OPERATION" => Node.left \in NodeUid
      /\ IsBinary => Node.right \in NodeUid
      /\ LeftOf(Current) = Node.left /\ RightOf(Current) = Node.right
  BY <1>1, NodeInCall DEF InNode, TypeOK, Node, LeftOf, RightOf
<1>3. ChainedFrame(Current)
  BY <1>2, FrameNumbers DEF ShapeInv, Chain, Current
<1>4. /\ Current.stage = "left" => Emitted(Node.left, output)
      /\ Current.stage = "right" => Emitted(Node.left, Current.left) /\ Emitted(Node.right, output)
  BY <1>2, <1>3 DEF ShapeInv, Returned, ChainedFrame
<1>5. ASSUME NEW CONSTANT pin, HandBack(pin), Emitted(n, pin)
      PROVE  ShapeInv'
  <2>1. Chain' /\ Returned'
    BY <1>1, <1>5, HandBackShape
  <2> QED
    BY <1>2, <1>5, <2>1, GoingShape DEF HandBack, modelVars
<1>6. ASSUME NEW CONSTANT operand, NEW CONSTANT stage, NEW CONSTANT left,
             Enter(operand, stage, left), operand \in NodeUid, Node.type = "OPERATION",
             \/ stage = "left" /\ operand = Node.left
             \/ stage = "right" /\ operand = Node.right /\ IsBinary /\ Emitted(Node.left, left)
      PROVE  ShapeInv'
  <2>1. Chain' /\ Returned'
    BY <1>2, <1>6, EnterShape
  <2> QED
    BY <1>2, <1>6, <2>1, GoingShape DEF Enter, modelVars
<1>7. CASE EmitLeaf
  <2>1. Node.type # "OPERATION"
    BY <1>7 DEF EmitLeaf
  <2>2. HasPin[n] /\ Emits[n]
    BY <1>2, <2>1, ShapeFacts
  <2>3. CASE RoomForPin
    <3>1. HandBack(NewPinUid) /\ NewPinUid # NullPin
      BY <1>7, <2>3, PinsTyped DEF EmitLeaf, TypeOK, NewPinUid, NullPin
    <3> DEFINE pin == NewPinUid
    <3>2. HandBack(pin) /\ Emitted(n, pin)
      BY <2>2, <3>1 DEF Emitted
    <3> HIDE DEF pin
    <3> QED
      BY <1>5, <3>2
  <2>4. CASE ~RoomForPin
    <3>1. Return("failed") /\ ~RoomForPin'
      BY <1>7, <2>4 DEF EmitLeaf, RoomForPin
    <3> QED
      BY <3>1, FailingShape
  <2> QED
    BY <2>3, <2>4
<1>8. CASE EnterLeft
  BY <1>2, <1>6, <1>8 DEF EnterLeft
<1>9. CASE PassOn
  <2>1. /\ Node.type = "OPERATION" /\ Node.operation \in {"SLICE", "CONCAT"}
        /\ Current.stage = "left" /\ HandBack(output)
    BY <1>9 DEF PassOn, IsOperation
  <2>2. Emitted(n, output)
    BY <1>2, <1>4, <2>1, ShapeFacts DEF Emitted, Unary
  <2> QED
    BY <1>5, <2>1, <2>2
<1>10. CASE EmitNot
  <2>1. /\ Node.type = "OPERATION" /\ Node.operation = "NOT"
        /\ Current.stage = "left"
    BY <1>10 DEF EmitNot, IsOperation
  <2>2. Emitted(n, NullPin)
    BY <1>2, <1>4, <2>1, ShapeFacts DEF Emitted, Unary
  <2>3. CASE RoomForPin /\ RoomForGate
    BY <1>5, <1>10, <2>2, <2>3 DEF EmitNot
  <2>4. CASE ~(RoomForPin /\ RoomForGate)
    BY <1>10, <2>4, DrivenPinRoom, FailingShape DEF EmitNot
  <2> QED
    BY <2>3, <2>4
<1>11. CASE EnterRight
  BY <1>2, <1>4, <1>6, <1>11 DEF EnterRight, IsBinary
<1>12. CASE emitBinaryGate
  <2>1. /\ Node.type = "OPERATION" /\ Node.operation \notin Unary
        /\ Current.stage = "right"
    BY <1>12 DEF emitBinaryGate, IsBinary
  <2>2. CASE NullPin \in {Current.left, output}
    <3>1. Return("failed")
      BY <1>12, <2>2 DEF emitBinaryGate
    <3>2. ~HasPin[Node.left] \/ ~HasPin[Node.right]
      BY <1>4, <2>1, <2>2 DEF Emitted
    <3>3. ~Emits[n]
      BY <1>2, <2>1, <3>2, ShapeFacts
    <3> QED
      BY <1>1, <3>1, <3>3, BlameGoesUp, FailingShape
  <2>3. CASE NullPin \notin {Current.left, output}
    <3>1. HasPin[Node.left] /\ HasPin[Node.right]
      BY <1>4, <2>1, <2>3 DEF Emitted
    <3>2. Emitted(n, NullPin)
      BY <1>2, <2>1, <3>1, ShapeFacts DEF Emitted, Unary
    <3>3. CASE RoomForPin /\ RoomForGate
      BY <1>5, <1>12, <2>3, <3>2, <3>3 DEF emitBinaryGate
    <3>4. CASE ~(RoomForPin /\ RoomForGate)
      BY <1>12, <2>3, <3>4, DrivenPinRoom, FailingShape DEF emitBinaryGate
    <3> QED
      BY <3>3, <3>4
  <2> QED
    BY <2>2, <2>3
<1> QED
  BY <1>7, <1>8, <1>9, <1>10, <1>11, <1>12

LEMMA NoCallsNext ==
  ASSUME frames' = << >>
  PROVE  Chain' /\ Returned'
<1>1. 1 .. Len(frames') = {}
  BY EmptySeq
<1> QED
  BY <1>1 DEF Chain, Returned

(* A step between the equations.                                           *)
LEMMA BetweenShape ==
  ASSUME frames' = << >>, phase' # "idle", outcome' = "none", Passed'
  PROVE  ShapeInv'
  BY NoCallsNext DEF ShapeInv, SuccessByShape, EveryEquationEmits

LEMMA ModelStepShape ==
  ASSUME TypeOK, ShapeInv,
         EditModel \/ compileModelToCircuit \/ AddVariablePin \/ NextVariable \/ VariablesDone
  PROVE  ShapeInv'
<1>1. frames = << >>
  BY DEF EditModel, compileModelToCircuit, AddVariablePin, NextVariable, VariablesDone, TypeOK
<1>2. CASE EditModel
  <2>1. frames' = << >> /\ phase' = "idle" /\ outcome' = "none"
    BY <1>1, <1>2 DEF EditModel
  <2> QED
    BY <2>1, NoCallsNext DEF ShapeInv, Passed, SuccessByShape, EveryEquationEmits
<1>3. CASE compileModelToCircuit
  BY <1>1, <1>3, BetweenShape DEF compileModelToCircuit, Passed
<1>4. CASE AddVariablePin
  <2>1. CASE RoomForPin
    <3>1. phase = "variables" /\ UNCHANGED <<phase, frames, outcome>>
      BY <1>4, <2>1 DEF AddVariablePin
    <3> QED
      BY <1>1, <3>1, BetweenShape DEF Passed, ShapeInv
  <2>2. CASE ~RoomForPin
    <3>1. Return("failed") /\ pins' = pins
      BY <1>4, <2>2 DEF AddVariablePin
    <3> QED
      BY <2>2, <3>1, FailingShape DEF RoomForPin
  <2> QED
    BY <2>1, <2>2
<1>5. CASE NextVariable
  <2>1. phase = "variables" /\ UNCHANGED <<phase, frames, outcome>>
    BY <1>5 DEF NextVariable
  <2> QED
    BY <1>1, <2>1, BetweenShape DEF Passed, ShapeInv
<1>6. CASE VariablesDone
  <2>1. /\ phase = "variables" /\ phase' = "equations" /\ variable' = 1
        /\ UNCHANGED <<frames, outcome>>
    BY <1>6 DEF VariablesDone
  <2>2. Passed'
    <3>1. \A e \in 1 .. Len(equations') : ~(e < 1)
      OBVIOUS
    <3> QED
      BY <2>1, <3>1 DEF Passed
  <2> QED
    BY <1>1, <2>1, <2>2, BetweenShape DEF ShapeInv
<1> QED
  BY <1>2, <1>3, <1>4, <1>5, <1>6

LEMMA EquationStepShape ==
  ASSUME TypeOK, ShapeInv, BeginEquation \/ EnterSide \/ EmitEquality \/ EquationsDone
  PROVE  ShapeInv'
<1>0. phase = "equations"
  BY DEF BeginEquation, EnterSide, EmitEquality, EquationsDone, InEquation
<1>1. CASE BeginEquation
  <2>1. frames' = << Call(NullNode) >> /\ UNCHANGED <<nodes, equations, variable, phase, outcome>>
    BY <1>1 DEF BeginEquation, modelVars
  <2> DEFINE call == Call(NullNode)
  <2>2. Len(frames') = 1 /\ frames'[1] = call /\ call.node = NullNode /\ call.stage = "enter"
    BY <2>1 DEF Call
  <2> HIDE DEF call
  <2>3. ChainedFrame(call)
    BY <2>2 DEF ChainedFrame
  <2>4. \A i \in 1 .. 1 : i = 1 /\ ~(i < 1)
    OBVIOUS
  <2>5. Chain'
    BY <2>1, <2>2, <2>3, <2>4, FrameShape DEF Chain
  <2>6. Returned'
    BY <2>2 DEF Returned, Current
  <2> QED
    BY <1>0, <2>1, <2>5, <2>6, GoingShape
<1>2. CASE EnterSide
  <2>1. InEquation
    BY <1>2 DEF EnterSide
  <2>2. /\ frames # << >> /\ Current.node = NullNode
        /\ equations[variable].lhs \in NodeUid /\ equations[variable].rhs \in NodeUid
        /\ LeftOf(Current) = equations[variable].lhs
        /\ RightOf(Current) = equations[variable].rhs
    BY <2>1, EquationInCall DEF InEquation, LeftOf, RightOf
  <2>3. CASE Current.stage = "enter"
    <3>1. Enter(equations[variable].lhs, "left", NullPin)
      BY <1>2, <2>3 DEF EnterSide
    <3> DEFINE operand == equations[variable].lhs
    <3>2. Chain' /\ Returned'
      BY <2>2, <3>1, EnterShape
    <3> QED
      BY <1>0, <3>1, <3>2, GoingShape DEF Enter, modelVars
  <2>4. CASE Current.stage = "left"
    <3>1. Enter(equations[variable].rhs, "right", output)
      BY <1>2, <2>4 DEF EnterSide
    <3>2. Emitted(LeftOf(Current), output)
      BY <2>2, <2>4 DEF ShapeInv, Returned
    <3>3. Chain' /\ Returned'
      BY <2>2, <3>1, <3>2, EnterShape
    <3> QED
      BY <1>0, <3>1, <3>3, GoingShape DEF Enter, modelVars
  <2> QED
    BY <1>2, <2>3, <2>4 DEF EnterSide
<1>3. CASE EmitEquality
  <2>1. InEquation /\ Current.stage = "right"
    BY <1>3 DEF EmitEquality
  <2>2. CASE RoomForGate
    <3>1. /\ frames' = << >> /\ variable' = variable + 1
          /\ UNCHANGED <<nodes, equations, phase, outcome>>
      BY <1>3, <2>2 DEF EmitEquality, modelVars
    <3>2. ChainedFrame(Current)
      BY <2>1, FrameNumbers DEF InEquation, ShapeInv, Chain, Current
    <3>3. EquationEmits(variable)
      BY <2>1, <3>2 DEF ChainedFrame, InEquation, ShapeInv, Returned, LeftOf, RightOf, Emitted,
                        EquationEmits
    <3>4. variable \in Nat
      BY DEF TypeOK
    <3>5. \A e \in 1 .. Len(equations) : e < variable + 1 => e < variable \/ e = variable
      BY <3>4
    <3>6. \A e \in 1 .. Len(equations) : e < variable + 1 => EquationEmits(e)
      BY <1>0, <3>3, <3>5 DEF ShapeInv, Passed
    <3>7. Passed'
      BY <3>1, <3>6, EquationFrame DEF Passed
    <3> QED
      BY <1>0, <3>1, <3>7, BetweenShape DEF ShapeInv
  <2>3. CASE ~RoomForGate
    <3>1. Return("failed") /\ gates' = gates
      BY <1>3, <2>3 DEF EmitEquality
    <3> QED
      BY <2>3, <3>1, FailingShape DEF RoomForGate
  <2> QED
    BY <2>2, <2>3
<1>4. CASE EquationsDone
  <2>1. /\ frames' = << >> /\ phase' = "idle" /\ outcome' = "compiled"
        /\ nodes' = nodes /\ equations' = equations /\ variable > Len(equations)
    BY <1>4 DEF EquationsDone, Return, modelVars
  <2>2. \A e \in 1 .. Len(equations) : e < variable
    BY <2>1, NodeFacts DEF TypeOK
  <2>3. \A e \in 1 .. Len(equations) : EquationEmits(e)
    BY <1>0, <2>2 DEF ShapeInv, Passed
  <2>4. SuccessByShape'
    BY <2>1, <2>3, ShapeFrame DEF SuccessByShape, EveryEquationEmits, EquationEmits
  <2> QED
    BY <2>1, <2>4, NoCallsNext DEF ShapeInv, Passed
<1> QED
  BY <1>1, <1>2, <1>3, <1>4

(* No compilation reports success over an operand that got lost, for every *)
(* model, every capacity and every sequence of compilations                *)
(* (compileModelToCircuit, emitExpression, emitBinaryGate).                *)
THEOREM NoOperandIsLost == Spec => []NoOperandLost
<1>1. Init => ShapeInv
  BY NoCalls DEF Init, ShapeInv, Passed, SuccessByShape, EveryEquationEmits
<1>2. TypeOK /\ ShapeInv /\ Next => ShapeInv'
  BY ModelStepShape, EquationStepShape, NodeStepShape DEF Next, compile
<1>3. ShapeInv /\ UNCHANGED vars => ShapeInv'
  <2> SUFFICES ASSUME ShapeInv, UNCHANGED vars
               PROVE  ShapeInv'
    OBVIOUS
  <2>1. UNCHANGED <<nodes, equations, pins, gates, phase, variable, frames, output, outcome>>
    BY DEF vars
  <2>2. Chain' /\ Returned'
    BY <2>1, FrameShape DEF ShapeInv, Chain, Returned, Current
  <2>3. Passed' /\ SuccessByShape'
    BY <2>1, EquationFrame, ShapeFrame
       DEF ShapeInv, Passed, SuccessByShape, EveryEquationEmits, RoomForPin, RoomForGate
  <2> QED
    BY <2>1, <2>2, <2>3 DEF ShapeInv
<1>4. ShapeInv => NoOperandLost
  BY DEF ShapeInv, SuccessByShape, NoOperandLost
<1>5. TypeOK /\ ShapeInv /\ [Next]_vars => ShapeInv'
  BY <1>2, <1>3
<1> QED
  BY <1>1, <1>4, <1>5, TypeCorrect, PTL DEF Spec

-----------------------------------------------------------------------------
(* The parser's trees. *)

Operands(m) == {nodes[m].left, nodes[m].right} \ {NullNode}
Sides(e)    == {equations[e].lhs, equations[e].rhs}

Unused(n) ==
  /\ \A m \in NodeUid : n \notin Operands(m)
  /\ \A e \in 1 .. Len(equations) : n \notin Sides(e)
  /\ \A i \in 1 .. Len(stack) : n # stack[i]

VariablesKnown ==
  \A n \in NodeUid :
    nodes[n].type = "VARIABLE" => nodes[n].variable_uid \in 1 .. Len(variables)

OneParent ==
  /\ \A m \in NodeUid : nodes[m].left = nodes[m].right => nodes[m].left = NullNode
  /\ \A m1, m2 \in NodeUid : \A n \in NodeUid :
       n \in Operands(m1) /\ n \in Operands(m2) => m1 = m2

RootsFree ==
  /\ \A i \in 1 .. Len(stack) : \A m \in NodeUid : stack[i] \notin Operands(m)
  /\ \A i, j \in 1 .. Len(stack) : stack[i] = stack[j] => i = j
  /\ \A i \in 1 .. Len(stack) : \A e \in 1 .. Len(equations) : stack[i] \notin Sides(e)

SidesFree ==
  /\ \A e \in 1 .. Len(equations) : equations[e].lhs # equations[e].rhs
  /\ \A e, f \in 1 .. Len(equations) : \A n \in Sides(e) : n \in Sides(f) => e = f
  /\ \A e \in 1 .. Len(equations) : \A n \in Sides(e) : \A m \in NodeUid :
       n \in Operands(m) => Unused(m)

TreeInv == VariablesKnown /\ OneParent /\ RootsFree /\ SidesFree

LEMMA AtMostOne ==
  ASSUME NEW S, \A x, y \in S : x = y
  PROVE  Cardinality(S) \in {0, 1} /\ (S = {} <=> Cardinality(S) = 0)
<1>1. CASE S = {}
  BY <1>1, FS_EmptySet
<1>2. CASE S # {}
  <2>1. PICK x : S = {x}
    BY <1>2
  <2>2. Cardinality({x}) = 1
    BY FS_Singleton
  <2> QED
    BY <1>2, <2>1, <2>2
<1> QED
  BY <1>1, <1>2

LEMMA OperandFacts ==
  ASSUME ModelTypeOK
  PROVE  \A m \in NodeUid : \A n \in Operands(m) : n \in NodeUid /\ n < m
<1>1. /\ Len(nodes) \in Nat
      /\ \A m \in NodeUid : nodes[m] \in NodeRecord /\ Founded(nodes[m], m)
  BY NodeFacts DEF ModelTypeOK
<1> QED
  BY <1>1 DEF Operands, Founded, NodeRecord, NodeUid, NullNode

LEMMA TreesFromInv ==
  ASSUME ModelTypeOK, TreeInv
  PROVE  TreesDisjoint
<1> SUFFICES ASSUME NEW n \in NodeUid
             PROVE  Cardinality({ m \in Parents(n) : ~Abandoned(m) }) + Cardinality(Holders(n)) <= 1
  BY DEF TreeInv, VariablesKnown, OneParent, TreesDisjoint
<1> DEFINE live == { m \in Parents(n) : ~Abandoned(m) }
<1>0. n # NullNode /\ \A m \in NodeUid : m # NullNode
  BY NodeFacts DEF NodeUid, NullNode
<1>1. \A m \in NodeUid : Unused(m) => Abandoned(m)
  <2> SUFFICES ASSUME NEW m \in NodeUid, Unused(m)
               PROVE  Abandoned(m)
    OBVIOUS
  <2>1. Parents(m) = {}
    BY <1>0 DEF Parents, Unused, Operands
  <2>2. ASSUME NEW h \in Holders(m)
        PROVE  FALSE
    <3>1. \/ h[2] \in 1 .. Len(equations) /\ m \in Sides(h[2])
          \/ h[2] \in 1 .. Len(stack) /\ m = stack[h[2]]
      BY <2>2 DEF Holders, Sides
    <3> QED
      BY <3>1 DEF Unused
  <2> QED
    BY <2>1, <2>2 DEF Abandoned
<1>2. \A x, y \in live : x = y
  BY <1>0 DEF Parents, Operands, TreeInv, OneParent
<1>3. \A g, h \in Holders(n) : g = h
  <2> SUFFICES ASSUME NEW g \in Holders(n), NEW h \in Holders(n)
               PROVE  g = h
    OBVIOUS
  <2>1. \/ /\ g = <<g[1], g[2]>> /\ g[2] \in 1 .. Len(equations) /\ n \in Sides(g[2])
           /\ \/ g[1] = "lhs" /\ equations[g[2]].lhs = n
              \/ g[1] = "rhs" /\ equations[g[2]].rhs = n
        \/ g = <<g[1], g[2]>> /\ g[1] = "stack" /\ g[2] \in 1 .. Len(stack) /\ n = stack[g[2]]
    BY DEF Holders, Sides
  <2>2. \/ /\ h = <<h[1], h[2]>> /\ h[2] \in 1 .. Len(equations) /\ n \in Sides(h[2])
           /\ \/ h[1] = "lhs" /\ equations[h[2]].lhs = n
              \/ h[1] = "rhs" /\ equations[h[2]].rhs = n
        \/ h = <<h[1], h[2]>> /\ h[1] = "stack" /\ h[2] \in 1 .. Len(stack) /\ n = stack[h[2]]
    BY DEF Holders, Sides
  <2>3. g[1] = h[1] /\ g[2] = h[2]
    BY <2>1, <2>2 DEF TreeInv, RootsFree, SidesFree
  <2> QED
    BY <2>1, <2>2, <2>3
<1>4. Holders(n) # {} => live = {}
  <2> SUFFICES ASSUME NEW h \in Holders(n), NEW m \in live
               PROVE  FALSE
    OBVIOUS
  <2>1. m \in NodeUid /\ n \in Operands(m) /\ ~Unused(m)
    BY <1>0, <1>1 DEF Parents, Operands
  <2>2. \/ h[2] \in 1 .. Len(equations) /\ n \in Sides(h[2])
        \/ h[2] \in 1 .. Len(stack) /\ n = stack[h[2]]
    BY DEF Holders, Sides
  <2> QED
    BY <2>1, <2>2 DEF TreeInv, RootsFree, SidesFree
<1> HIDE DEF live
<1>5. Cardinality(live) \in {0, 1} /\ (live = {} <=> Cardinality(live) = 0)
  BY <1>2, AtMostOne
<1>6. Cardinality(Holders(n)) \in {0, 1} /\ (Holders(n) = {} <=> Cardinality(Holders(n)) = 0)
  BY <1>3, AtMostOne
<1>7. Cardinality(live) + Cardinality(Holders(n)) <= 1
  BY <1>4, <1>5, <1>6
<1> QED
  BY <1>7 DEF live

(* A text goes on: what it has taken from the stack becomes the operands   *)
(* of the youngest of the new nodes.                                       *)
LEMMA GrownTrees ==
  ASSUME ModelTypeOK, ModelTypeOK', OneParent, RootsFree, SidesFree,
         equations' = equations, Len(nodes') >= Len(nodes),
         \A m \in NodeUid : nodes'[m].left = nodes[m].left /\ nodes'[m].right = nodes[m].right,
         NEW k \in 0 .. Len(stack),
         \A m \in NodeUid' \ NodeUid :
           /\ m # Len(nodes') => nodes'[m].left = NullNode /\ nodes'[m].right = NullNode
           /\ nodes'[m].left = nodes'[m].right => nodes'[m].left = NullNode
           /\ \A n \in Operands(m)' : n \in NodeUid => \E i \in k + 1 .. Len(stack) : n = stack[i],
         \/ stack' = << >>
         \/ /\ Len(stack') = k + 1
            /\ \A i \in 1 .. k : stack'[i] = stack[i]
            /\ stack'[k + 1] = Len(nodes')
            /\ Len(nodes') > Len(nodes)
  PROVE  OneParent' /\ RootsFree' /\ SidesFree'
<1> DEFINE root == Len(nodes')
<1>1. /\ Len(nodes) \in Nat /\ Len(nodes') \in Nat /\ Len(stack) \in Nat /\ Len(stack') \in Nat
      /\ NodeUid = 1 .. Len(nodes) /\ NodeUid' = 1 .. Len(nodes')
      /\ \A i \in 1 .. Len(stack) : stack[i] \in NodeUid
      /\ \A e \in 1 .. Len(equations) : Sides(e) \subseteq NodeUid
  BY NodeFacts, LenProperties DEF ModelTypeOK, NodeUid, Sides
<1>2. NodeUid \subseteq NodeUid' /\ \A m \in NodeUid' \ NodeUid : m > Len(nodes)
  BY <1>1
<1>3. /\ \A m \in NodeUid : \A n \in Operands(m) : n \in NodeUid /\ n < m
      /\ \A m \in NodeUid' : \A n \in Operands(m)' : n \in NodeUid' /\ n < m
  <2>1. \A m \in NodeUid' : nodes'[m] \in NodeRecord /\ Founded(nodes'[m], m)
    BY <1>1, ElementOfSeq DEF ModelTypeOK
  <2>2. \A m \in NodeUid' : \A n \in Operands(m)' : n \in NodeUid' /\ n < m
    BY <1>1, <2>1 DEF Operands, Founded, NodeRecord, NullNode
  <2> QED
    BY <2>2, OperandFacts
<1>4. \A m \in NodeUid : Operands(m)' = Operands(m)
  BY DEF Operands
<1>5. \A e : Sides(e)' = Sides(e)
  BY DEF Sides
<1>6. \A m \in NodeUid' \ NodeUid : \A n \in Operands(m)' : m = root
  BY DEF Operands
<1>7. \A m \in NodeUid' \ NodeUid : \A n \in Operands(m)' :
        n \in NodeUid => \E i \in k + 1 .. Len(stack) : i \in 1 .. Len(stack) /\ n = stack[i]
  BY <1>1
<1>8. stack' = << >> => Len(stack') = 0
  BY EmptySeq
<1>9. \A i \in 1 .. Len(stack') :
        \/ i \in 1 .. k /\ i \in 1 .. Len(stack) /\ stack'[i] = stack[i] /\ stack'[i] \in NodeUid
        \/ i = k + 1 /\ stack'[i] = root /\ root \in NodeUid' \ NodeUid
  BY <1>1, <1>8
<1> HIDE DEF root
<1>10. OneParent'
  <2>1. ASSUME NEW m \in NodeUid', nodes'[m].left = nodes'[m].right
        PROVE  nodes'[m].left = NullNode
    BY <2>1 DEF OneParent
  <2>2. ASSUME NEW m1 \in NodeUid', NEW m2 \in NodeUid', NEW n \in NodeUid',
               n \in Operands(m1)', n \in Operands(m2)'
        PROVE  m1 = m2
    <3>1. CASE m1 \in NodeUid /\ m2 \in NodeUid
      BY <1>3, <1>4, <2>2, <3>1 DEF OneParent
    <3>2. CASE m1 \notin NodeUid /\ m2 \notin NodeUid
      BY <1>6, <2>2, <3>2
    <3>3. CASE m1 \in NodeUid /\ m2 \notin NodeUid
      BY <1>3, <1>4, <1>7, <2>2, <3>3 DEF RootsFree
    <3>4. CASE m1 \notin NodeUid /\ m2 \in NodeUid
      BY <1>3, <1>4, <1>7, <2>2, <3>4 DEF RootsFree
    <3> QED
      BY <3>1, <3>2, <3>3, <3>4
  <2> QED
    BY <2>1, <2>2 DEF OneParent
<1>11. RootsFree'
  <2>1. ASSUME NEW i \in 1 .. Len(stack'), NEW m \in NodeUid', stack'[i] \in Operands(m)'
        PROVE  FALSE
    <3>1. CASE stack'[i] = root
      <4>1. root < m /\ m <= root
        BY <1>1, <1>3, <2>1, <3>1 DEF root
      <4> QED
        BY <1>1, <4>1 DEF root
    <3>2. CASE i \in 1 .. k /\ i \in 1 .. Len(stack) /\ stack'[i] = stack[i] /\ stack'[i] \in NodeUid
      <4>1. CASE m \in NodeUid
        BY <1>4, <2>1, <3>2, <4>1 DEF RootsFree
      <4>2. CASE m \notin NodeUid
        <5>1. PICK j \in k + 1 .. Len(stack) : j \in 1 .. Len(stack) /\ stack[i] = stack[j]
          BY <1>7, <2>1, <3>2, <4>2
        <5>2. i # j
          BY <1>1, <3>2
        <5> QED
          BY <3>2, <5>1, <5>2 DEF RootsFree
      <4> QED
        BY <4>1, <4>2
    <3> QED
      BY <1>9, <3>1, <3>2
  <2>2. ASSUME NEW i \in 1 .. Len(stack'), NEW j \in 1 .. Len(stack'), stack'[i] = stack'[j]
        PROVE  i = j
    BY <1>9, <2>2 DEF RootsFree
  <2>3. ASSUME NEW i \in 1 .. Len(stack'), NEW e \in 1 .. Len(equations'), stack'[i] \in Sides(e)'
        PROVE  FALSE
    BY <1>1, <1>5, <1>9, <2>3 DEF RootsFree
  <2> QED
    BY <2>1, <2>2, <2>3 DEF RootsFree
<1>12. ASSUME NEW m \in NodeUid, Unused(m)
       PROVE  Unused(m)'
  <2>1. ASSUME NEW p \in NodeUid', m \in Operands(p)'
        PROVE  FALSE
    BY <1>4, <1>7, <1>12, <2>1 DEF Unused
  <2>2. ASSUME NEW i \in 1 .. Len(stack'), m = stack'[i]
        PROVE  FALSE
    BY <1>9, <1>12, <2>2 DEF Unused
  <2> QED
    BY <1>5, <1>12, <2>1, <2>2 DEF Unused
<1>13. SidesFree'
  <2>1. ASSUME NEW e \in 1 .. Len(equations), NEW n \in Sides(e), NEW m \in NodeUid', n \in Operands(m)'
        PROVE  Unused(m)'
    <3>1. CASE m \in NodeUid
      BY <1>4, <1>12, <2>1, <3>1 DEF SidesFree
    <3>2. CASE m \notin NodeUid
      BY <1>1, <1>7, <2>1, <3>2 DEF RootsFree
    <3> QED
      BY <3>1, <3>2
  <2> QED
    BY <1>5, <2>1 DEF SidesFree
<1> QED
  BY <1>10, <1>11, <1>13

LEMMA SideAdded ==
  ASSUME ModelTypeOK, NEW CONSTANT lhs, NEW CONSTANT rhs, addEquation(lhs, rhs)
  PROVE  \/ equations' = equations
         \/ /\ Len(equations) \in Nat
            /\ Len(equations') = Len(equations) + 1
            /\ \A e \in 1 .. Len(equations) : Sides(e)' = Sides(e) /\ equations'[e] = equations[e]
            /\ \A e : e = Len(equations) + 1 =>
                    Sides(e)' = {lhs, rhs} /\ equations'[e].lhs = lhs /\ equations'[e].rhs = rhs
<1> SUFFICES ASSUME equations' = Append(equations, [lhs |-> lhs, rhs |-> rhs])
             PROVE  /\ Len(equations) \in Nat
                    /\ Len(equations') = Len(equations) + 1
                    /\ \A e \in 1 .. Len(equations) : equations'[e] = equations[e]
                    /\ equations'[Len(equations) + 1] = [lhs |-> lhs, rhs |-> rhs]
  BY DEF addEquation, Sides
<1>1. equations \in Seq([lhs : NodeUid, rhs : NodeUid] \union {[lhs |-> lhs, rhs |-> rhs]})
  BY SeqMonotonic DEF ModelTypeOK
<1> DEFINE pair == [lhs |-> lhs, rhs |-> rhs]
           S == [lhs : NodeUid, rhs : NodeUid] \union {pair}
<1>2. pair \in S /\ equations \in Seq(S) /\ equations' = Append(equations, pair)
  BY <1>1
<1> HIDE DEF pair, S
<1>3. /\ Len(equations) \in Nat
      /\ Len(equations') = Len(equations) + 1
      /\ \A e \in 1 .. Len(equations) : equations'[e] = equations[e]
      /\ equations'[Len(equations) + 1] = pair
  BY <1>2, AppendProperties, LenProperties
<1> QED
  BY <1>3 DEF pair

(* The end of a text: its root, or the two operands of its root, become    *)
(* the sides of an equation.  New nodes have no operands.                  *)
LEMMA EquationTrees ==
  ASSUME ModelTypeOK, ModelTypeOK', OneParent, RootsFree, SidesFree,
         stack # << >>, stack' = << >>, NodeUid \subseteq NodeUid',
         \A m \in NodeUid : nodes'[m].left = nodes[m].left /\ nodes'[m].right = nodes[m].right,
         \A m \in NodeUid' \ NodeUid : nodes'[m].left = NullNode /\ nodes'[m].right = NullNode,
         NEW CONSTANT lhs, NEW CONSTANT rhs, addEquation(lhs, rhs), lhs # rhs,
         \/ nodes[Top].type = "OPERATION" /\ Operands(Top) = {lhs, rhs}
         \/ lhs = Top /\ rhs \in NodeUid' \ NodeUid
  PROVE  OneParent' /\ RootsFree' /\ SidesFree'
<1>1. /\ Len(stack) \in 1 .. Len(stack) /\ Len(stack) \in Nat /\ Top \in NodeUid
      /\ \A e \in 1 .. Len(equations) : Sides(e) \subseteq NodeUid
      /\ Len(stack') = 0 /\ 1 .. Len(stack') = {}
  <2>1. Len(stack) \in Nat \ {0} /\ stack \in Seq(NodeUid)
    BY EmptySeq DEF ModelTypeOK
  <2> QED
    BY <2>1, NodeFacts, StackFacts, EmptySeq DEF Sides
<1>2. /\ \A m \in NodeUid : Operands(m)' = Operands(m)
      /\ \A m \in NodeUid' \ NodeUid : Operands(m)' = {}
  BY DEF Operands
<1>3. \A m \in NodeUid : \A n \in Operands(m) : n \in NodeUid /\ n < m /\ n # m
  <2>1. \A m \in NodeUid : m \in Nat
    BY NodeFacts DEF NodeUid
  <2> QED
    BY <2>1, OperandFacts
<1>4. /\ \A m \in NodeUid : Top \notin Operands(m)
      /\ \A e \in 1 .. Len(equations) : Top \notin Sides(e)
  BY <1>1 DEF RootsFree, Top
<1>5. OneParent'
  <2>1. ASSUME NEW m \in NodeUid', nodes'[m].left = nodes'[m].right
        PROVE  nodes'[m].left = NullNode
    BY <2>1 DEF OneParent
  <2>2. ASSUME NEW m1 \in NodeUid', NEW m2 \in NodeUid', NEW n \in NodeUid',
               n \in Operands(m1)', n \in Operands(m2)'
        PROVE  m1 = m2
    BY <1>2, <1>3, <2>2 DEF OneParent
  <2> QED
    BY <2>1, <2>2 DEF OneParent
<1>6. RootsFree'
  BY <1>1 DEF RootsFree
<1>7. ASSUME NEW m \in NodeUid, Unused(m)
      PROVE  m \notin {lhs, rhs}
  <2>1. m # Top
    BY <1>1, <1>7 DEF Unused, Top
  <2>2. m \notin Operands(Top)
    BY <1>1, <1>7 DEF Unused
  <2> QED
    BY <2>1, <2>2
<1>8. \A e \in 1 .. Len(equations) : \A n \in Sides(e) : n \notin {lhs, rhs}
  <2>1. ASSUME NEW e \in 1 .. Len(equations), NEW n \in Sides(e), n \in {lhs, rhs}
        PROVE  FALSE
    <3>1. CASE nodes[Top].type = "OPERATION" /\ Operands(Top) = {lhs, rhs}
      <4>1. Unused(Top)
        BY <1>1, <2>1, <3>1 DEF SidesFree
      <4> QED
        BY <1>1, <4>1 DEF Unused, Top
    <3>2. CASE lhs = Top /\ rhs \in NodeUid' \ NodeUid
      BY <1>1, <1>4, <2>1, <3>2
    <3> QED
      BY <3>1, <3>2
  <2> QED
    BY <2>1
<1>9. ASSUME NEW m \in NodeUid', NEW n \in {lhs, rhs}, n \in Operands(m)'
      PROVE  m = Top /\ m \notin {lhs, rhs}
  <2>1. m \in NodeUid /\ n \in Operands(m)
    BY <1>2, <1>9
  <2>2. nodes[Top].type = "OPERATION" /\ Operands(Top) = {lhs, rhs}
    BY <1>3, <1>4, <2>1
  <2>3. m = Top
    BY <1>1, <1>3, <2>1, <2>2 DEF OneParent
  <2> QED
    BY <1>1, <1>3, <2>2, <2>3
<1>10. CASE equations' = equations
  <2>1. \A e : Sides(e)' = Sides(e)
    BY <1>10 DEF Sides
  <2>2. ASSUME NEW e \in 1 .. Len(equations), NEW n \in Sides(e), NEW m \in NodeUid', n \in Operands(m)'
        PROVE  Unused(m)'
    <3>1. m \in NodeUid /\ n \in Operands(m)
      BY <1>2, <2>2
    <3>2. Unused(m)
      BY <2>2, <3>1 DEF SidesFree
    <3> QED
      BY <1>1, <1>2, <1>10, <2>1, <3>1, <3>2 DEF Unused
  <2> QED
    BY <1>5, <1>6, <1>10, <2>1, <2>2 DEF SidesFree
<1>11. CASE equations' # equations
  <2> DEFINE new == Len(equations) + 1
  <2>1. /\ Len(equations) \in Nat
        /\ Len(equations') = new
        /\ \A e \in 1 .. Len(equations) : Sides(e)' = Sides(e) /\ equations'[e] = equations[e]
        /\ \A e : e = new =>
             Sides(e)' = {lhs, rhs} /\ equations'[e].lhs = lhs /\ equations'[e].rhs = rhs
    BY <1>11, SideAdded
  <2>2. \A e \in 1 .. new : e \in 1 .. Len(equations) \/ e = new
    BY <2>1
  <2> HIDE DEF new
  <2>3. \A e \in 1 .. new : equations'[e].lhs # equations'[e].rhs
    BY <2>1, <2>2 DEF SidesFree
  <2>4. \A e, f \in 1 .. new : \A n \in Sides(e)' : n \in Sides(f)' => e = f
    BY <1>8, <2>1, <2>2 DEF SidesFree
  <2>5. ASSUME NEW e \in 1 .. new, NEW n \in Sides(e)', NEW m \in NodeUid', n \in Operands(m)'
        PROVE  Unused(m)'
    <3>1. m \in NodeUid /\ n \in Operands(m)
      BY <1>2, <2>5
    <3>2. /\ m \notin {lhs, rhs}
          /\ \A p \in NodeUid : m \notin Operands(p)
          /\ \A f \in 1 .. Len(equations) : m \notin Sides(f)
      <4>1. CASE e = new
        BY <1>4, <1>9, <2>1, <2>5, <4>1
      <4>2. CASE e \in 1 .. Len(equations)
        <5>1. Unused(m)
          BY <2>1, <2>5, <3>1, <4>2 DEF SidesFree
        <5> QED
          BY <1>7, <3>1, <5>1 DEF Unused
      <4> QED
        BY <2>2, <4>1, <4>2
    <3>3. \A p \in NodeUid' : m \notin Operands(p)'
      BY <1>2, <3>2
    <3>4. \A f \in 1 .. Len(equations') : m \notin Sides(f)'
      BY <2>1, <2>2, <3>2
    <3> QED
      BY <1>1, <3>3, <3>4 DEF Unused
  <2>6. SidesFree'
    BY <2>1, <2>3, <2>4, <2>5 DEF SidesFree
  <2> QED
    BY <1>5, <1>6, <2>6
<1> QED
  BY <1>10, <1>11

(* What a parse function allocates is fit to join the trees.               *)
FitNode(node, k) ==
  /\ node.type # "VARIABLE"
  /\ node.left = node.right => node.left = NullNode
  /\ \A n \in {node.left, node.right} :
       n \in NodeUid => \E j \in k + 1 .. Len(stack) : n = stack[j]

Fit(new, k) ==
  \A i \in 1 .. Len(new) :
    /\ FitNode(new[i], k)
    /\ i # Len(new) => new[i].left = NullNode /\ new[i].right = NullNode

Leaf(new, uids) == \E uid \in 1 .. uids : new = <<VariableNode(uid)>>

LEMMA NewNode ==
  ASSUME ModelTypeOK, NEW new \in Seq(NodeRecord), nodes' = nodes \o new
  PROVE  /\ Len(nodes') = Len(nodes) + Len(new)
         /\ \A m \in NodeUid : nodes'[m] = nodes[m]
         /\ \A m \in NodeUid' \ NodeUid :
              m - Len(nodes) \in 1 .. Len(new) /\ nodes'[m] = new[m - Len(nodes)]
<1>1. /\ Len(nodes) \in Nat
      /\ Len(new) \in Nat
      /\ Len(nodes') = Len(nodes) + Len(new)
      /\ \A i \in 1 .. Len(nodes) + Len(new) :
           nodes'[i] = IF i <= Len(nodes) THEN nodes[i] ELSE new[i - Len(nodes)]
  BY ConcatProperties, LenProperties DEF ModelTypeOK
<1> QED
  BY <1>1 DEF NodeUid

LEMMA ReduceTrees ==
  ASSUME ModelTypeOK, ModelTypeOK', TreeInv,
         NEW new, new \in Seq(NodeRecord), Len(new) > 0,
         NEW rest, rest \in Seq(NodeUid),
         Len(rest) <= Len(stack), \A i \in 1 .. Len(rest) : rest[i] = stack[i],
         Reduce(new, rest), equations' = equations,
         Len(variables) \in Nat, Len(variables') \in Nat, Len(variables) <= Len(variables'),
         \/ Fit(new, Len(rest))
         \/ Leaf(new, Len(variables'))
  PROVE  TreeInv'
<1> DEFINE k == Len(rest)
<1>0. k \in 0 .. Len(stack)
  BY NodeFacts, LenProperties
<1>1. \A i \in 1 .. Len(new) :
        /\ new[i].type = "VARIABLE" => new[i].variable_uid \in 1 .. Len(variables')
        /\ i # Len(new) => new[i].left = NullNode /\ new[i].right = NullNode
        /\ new[i].left = new[i].right => new[i].left = NullNode
        /\ \A n \in {new[i].left, new[i].right} \ {NullNode} :
             n \in NodeUid => \E j \in k + 1 .. Len(stack) : n = stack[j]
  <2>1. CASE Fit(new, k)
    BY <2>1 DEF Fit, FitNode
  <2>2. ASSUME NEW uid \in 1 .. Len(variables'), new = <<VariableNode(uid)>>
        PROVE  /\ Len(new) = 1 /\ new[1].variable_uid = uid
               /\ new[1].left = NullNode /\ new[1].right = NullNode
    BY <2>2 DEF VariableNode
  <2>3. \A i \in 1 .. 1 : i = 1
    OBVIOUS
  <2> QED
    BY <2>1, <2>2, <2>3 DEF Leaf
<1>2. Len(nodes) \in Nat /\ Len(new) \in Nat /\ Room \in Int
  BY NodeFacts, LenProperties, MathModelAssumption DEF Room, MathModelAssumption
<1>3. ASSUME NEW taken, taken \in Seq(NodeRecord), nodes' = nodes \o taken, Len(taken) \in 0 .. Len(new),
             \A i \in 1 .. Len(taken) : i \in 1 .. Len(new) /\ taken[i] = new[i],
             Len(taken) < Len(new) => stack' = << >>,
             Len(taken) = Len(new) => stack' = Append(rest, Len(nodes) + Len(new))
      PROVE  TreeInv'
  <2>1. /\ Len(nodes') = Len(nodes) + Len(taken)
        /\ \A m \in NodeUid : nodes'[m] = nodes[m]
        /\ \A m \in NodeUid' \ NodeUid :
             m - Len(nodes) \in 1 .. Len(taken) /\ nodes'[m] = new[m - Len(nodes)]
    BY <1>3, NewNode
  <2>2. \A m \in NodeUid' \ NodeUid : m \in Nat
    BY <1>2, <2>1, <1>3 DEF NodeUid
  <2>3. Len(taken) \in Nat /\ Len(taken) <= Len(new)
    BY <1>2, <1>3
  <2>4. \A m \in NodeUid' \ NodeUid : m # Len(nodes') => m - Len(nodes) # Len(new)
    BY <1>2, <1>3, <2>1, <2>2, <2>3 DEF NodeUid
  <2>5. \A m \in NodeUid' \ NodeUid :
          /\ m # Len(nodes') => nodes'[m].left = NullNode /\ nodes'[m].right = NullNode
          /\ nodes'[m].left = nodes'[m].right => nodes'[m].left = NullNode
          /\ \A n \in Operands(m)' : n \in NodeUid => \E j \in k + 1 .. Len(stack) : n = stack[j]
          /\ nodes'[m].type = "VARIABLE" => nodes'[m].variable_uid \in 1 .. Len(variables')
    <3> SUFFICES ASSUME NEW m \in NodeUid' \ NodeUid
                 PROVE  /\ m # Len(nodes') => nodes'[m].left = NullNode /\ nodes'[m].right = NullNode
                        /\ nodes'[m].left = nodes'[m].right => nodes'[m].left = NullNode
                        /\ \A n \in Operands(m)' :
                             n \in NodeUid => \E j \in k + 1 .. Len(stack) : n = stack[j]
                        /\ nodes'[m].type = "VARIABLE" =>
                             nodes'[m].variable_uid \in 1 .. Len(variables')
      OBVIOUS
    <3> DEFINE i == m - Len(nodes)
    <3>1. i \in 1 .. Len(new) /\ nodes'[m] = new[i] /\ (m # Len(nodes') => i # Len(new))
      BY <1>3, <2>1, <2>4
    <3>2. Operands(m)' = {new[i].left, new[i].right} \ {NullNode}
      BY <3>1 DEF Operands
    <3> HIDE DEF i
    <3> QED
      BY <1>1, <3>1, <3>2
  <2>6. VariablesKnown'
    <3>1. \A v \in 1 .. Len(variables) : v \in 1 .. Len(variables')
      OBVIOUS
    <3> QED
      BY <2>1, <2>5, <3>1 DEF TreeInv, VariablesKnown
  <2>7. \/ stack' = << >>
        \/ /\ Len(stack') = k + 1
           /\ \A i \in 1 .. k : stack'[i] = stack[i]
           /\ stack'[k + 1] = Len(nodes')
           /\ Len(nodes') > Len(nodes)
    <3>1. CASE Len(taken) < Len(new)
      BY <1>3, <3>1
    <3>2. CASE Len(taken) = Len(new)
      <4> DEFINE root == Len(nodes) + Len(new)
      <4>1. stack' = Append(rest, root) /\ root = Len(nodes') /\ root \in Nat /\ root > Len(nodes)
        BY <1>2, <1>3, <2>1, <3>2
      <4>2. rest \in Seq(Nat)
        BY SeqMonotonic DEF NodeUid
      <4> HIDE DEF root
      <4>3. /\ Len(stack') = Len(rest) + 1
            /\ \A i \in 1 .. Len(rest) : stack'[i] = rest[i]
            /\ stack'[Len(rest) + 1] = root
        BY <4>1, <4>2, AppendProperties
      <4> QED
        BY <4>1, <4>3
    <3> QED
      BY <1>2, <1>3, <2>3, <3>1, <3>2
  <2>8. Len(nodes') >= Len(nodes)
    BY <1>2, <1>3, <2>1
  <2>9. OneParent' /\ RootsFree' /\ SidesFree'
    BY <1>0, <2>1, <2>5, <2>7, <2>8, GrownTrees DEF TreeInv
  <2> QED
    BY <2>6, <2>9 DEF TreeInv
<1>4. CASE Len(new) <= Room
  <2>1. nodes' = nodes \o new /\ stack' = Append(rest, Len(nodes) + Len(new))
    BY <1>4 DEF Reduce
  <2>2. Len(new) \in 0 .. Len(new) /\ ~(Len(new) < Len(new))
    BY <1>2
  <2> QED
    BY <1>3, <2>1, <2>2
<1>5. CASE ~(Len(new) <= Room)
  <2> DEFINE taken == SubSeq(new, 1, Room)
  <2>1. nodes' = nodes \o taken /\ stack' = << >>
    BY <1>5 DEF Reduce
  <2>2. Room \in Nat
    BY <1>2, MathModelAssumption DEF ModelTypeOK, MathModelAssumption, Room
  <2>3. 1 \in 1 .. Len(new) + 1 /\ Room \in 1 - 1 .. Len(new)
    BY <1>2, <1>5, <2>2
  <2>4. /\ taken \in Seq(NodeRecord)
        /\ Len(taken) = Room - 1 + 1
        /\ \A i \in 1 .. Room - 1 + 1 : taken[i] = new[1 + i - 1]
    BY <2>3, SubSeqProperties
  <2> HIDE DEF taken
  <2>5. Len(taken) = Room /\ Len(taken) < Len(new) /\ Len(taken) # Len(new) /\ Len(taken) \in 0 .. Len(new)
    BY <1>2, <1>5, <2>2, <2>4
  <2>6. ASSUME NEW i \in 1 .. Len(taken)
        PROVE  i \in 1 .. Len(new) /\ taken[i] = new[i]
    <3>1. i \in 1 .. Room - 1 + 1 /\ i \in 1 .. Len(new) /\ 1 + i - 1 = i
      BY <1>2, <2>2, <2>5
    <3> QED
      BY <2>4, <3>1
  <2> QED
    BY <1>3, <2>1, <2>4, <2>5, <2>6
<1> QED
  BY <1>4, <1>5

LEMMA FitOnes ==
  ASSUME NEW k, NEW a \in NodeRecord, FitNode(a, k)
  PROVE  /\ Fit(<<a>>, k) /\ <<a>> \in Seq(NodeRecord) /\ Len(<<a>>) > 0
         /\ a.left = NullNode /\ a.right = NullNode =>
              \A b \in NodeRecord :
                FitNode(b, k) =>
                  Fit(<<a, b>>, k) /\ <<a, b>> \in Seq(NodeRecord) /\ Len(<<a, b>>) > 0
<1>1. Fit(<<a>>, k) /\ <<a>> \in Seq(NodeRecord) /\ Len(<<a>>) > 0
  <2>1. <<a>> \in Seq(NodeRecord) /\ Len(<<a>>) = 1 /\ <<a>>[1] = a
    OBVIOUS
  <2>2. \A i \in 1 .. 1 : i = 1
    OBVIOUS
  <2> QED
    BY <2>1, <2>2 DEF Fit
<1>2. ASSUME a.left = NullNode, a.right = NullNode, NEW b \in NodeRecord, FitNode(b, k)
      PROVE  Fit(<<a, b>>, k) /\ <<a, b>> \in Seq(NodeRecord) /\ Len(<<a, b>>) > 0
  <2>1. <<a, b>> \in Seq(NodeRecord) /\ Len(<<a, b>>) = 2 /\ <<a, b>>[1] = a /\ <<a, b>>[2] = b
    OBVIOUS
  <2>2. \A i \in 1 .. 2 : i = 1 \/ i = 2
    OBVIOUS
  <2> QED
    BY <1>2, <2>1, <2>2 DEF Fit
<1> QED
  BY <1>1, <1>2

LEMMA StackSplit ==
  ASSUME ModelTypeOK
  PROVE  /\ stack # << >> =>
              /\ Len(stack) - 1 \in 0 .. Len(stack)
              /\ Len(Rest) = Len(stack) - 1
              /\ \A i \in 1 .. Len(stack) - 1 : Rest[i] = stack[i]
         /\ Len(stack) >= 2 =>
              /\ Len(stack) - 2 \in 0 .. Len(stack)
              /\ Len(SubSeq(stack, 1, Len(stack) - 2)) = Len(stack) - 2
              /\ \A i \in 1 .. Len(stack) - 2 : SubSeq(stack, 1, Len(stack) - 2)[i] = stack[i]
<1>1. stack \in Seq(NodeUid) /\ Len(stack) \in Nat /\ (stack # << >> => Len(stack) >= 1)
  BY NodeFacts, EmptySeq DEF ModelTypeOK
<1>2. ASSUME NEW k \in Nat, k <= Len(stack)
      PROVE  /\ Len(SubSeq(stack, 1, k)) = k
             /\ \A i \in 1 .. k : SubSeq(stack, 1, k)[i] = stack[i]
  <2>1. 1 \in 1 .. Len(stack) + 1 /\ k \in 1 - 1 .. Len(stack)
    BY <1>1, <1>2
  <2>2. /\ Len(SubSeq(stack, 1, k)) = k - 1 + 1
        /\ \A i \in 1 .. k - 1 + 1 : SubSeq(stack, 1, k)[i] = stack[1 + i - 1]
    BY <1>1, <2>1, SubSeqProperties
  <2> QED
    BY <2>2
<1>3. stack # << >> => Len(stack) - 1 \in Nat /\ Len(stack) - 1 <= Len(stack)
  BY <1>1
<1>4. Len(stack) >= 2 => Len(stack) - 2 \in Nat /\ Len(stack) - 2 <= Len(stack)
  BY <1>1
<1>5. stack # << >> =>
        /\ Len(Rest) = Len(stack) - 1
        /\ \A i \in 1 .. Len(stack) - 1 : Rest[i] = stack[i]
  BY <1>2, <1>3 DEF Rest
<1>6. Len(stack) >= 2 =>
        /\ Len(SubSeq(stack, 1, Len(stack) - 2)) = Len(stack) - 2
        /\ \A i \in 1 .. Len(stack) - 2 : SubSeq(stack, 1, Len(stack) - 2)[i] = stack[i]
  BY <1>2, <1>4
<1> QED
  BY <1>1, <1>3, <1>4, <1>5, <1>6

LEMMA ModelTreesKept ==
  ASSUME ModelTypeOK, TreeInv, ModelNext
  PROVE  TreeInv'
<1>0. /\ ModelTypeOK'
      /\ Len(nodes) \in Nat /\ Len(variables) \in Nat /\ Len(variables') \in Nat
      /\ Len(stack) \in Nat /\ NodeUid = 1 .. Len(nodes)
      /\ stack \in Seq(NodeUid)
  <2>1. ModelTypeOK'
    BY ModelTypeCorrect
  <2> QED
    BY <2>1, NodeFacts, LenProperties DEF NodeUid, ModelTypeOK
<1> DEFINE n == Len(stack)
<1>1. /\ n \in 0 .. n /\ \A i \in 1 .. n : stack[i] = stack[i]
      /\ n + 1 .. n = {}
  BY <1>0
<1>2. ASSUME NEW k
      PROVE  \A v \in {0, 1} :
               /\ ConstantNode(v) \in NodeRecord /\ FitNode(ConstantNode(v), k)
               /\ ConstantNode(v).left = NullNode /\ ConstantNode(v).right = NullNode
  BY <1>0, NodeKinds DEF FitNode, ConstantNode, NullNode
<1>3. ASSUME stack # << >>
      PROVE  /\ Top \in NodeUid /\ Rest \in Seq(NodeUid) /\ Top # NullNode
             /\ n - 1 \in 0 .. n
             /\ Len(Rest) = n - 1
             /\ \A i \in 1 .. n - 1 : Rest[i] = stack[i]
             /\ \E j \in (n - 1) + 1 .. n : Top = stack[j]
  <2>1. n \in (n - 1) + 1 .. n /\ Top = stack[n]
    BY <1>0 DEF Top
  <2> HIDE DEF n
  <2>2. \E j \in (n - 1) + 1 .. n : Top = stack[j]
    BY <2>1
  <2> QED
    BY <1>0, <1>3, <2>2, StackFacts, StackSplit DEF NullNode, n
<1>4. ASSUME NEW value \in Numbers, parseNumber(value)
      PROVE  TreeInv'
  <2>1. value \in {0, 1}
    BY MathModelAssumption DEF MathModelAssumption
  <2> DEFINE new == <<ConstantNode(value)>>
  <2>2. Fit(new, n) /\ new \in Seq(NodeRecord) /\ Len(new) > 0
    BY <1>2, <2>1, FitOnes
  <2>3. Reduce(new, stack) /\ UNCHANGED <<variables, equations>>
    BY <1>4 DEF parseNumber
  <2> HIDE DEF new, n
  <2> QED
    BY <1>0, <1>1, <2>2, <2>3, ReduceTrees DEF n
<1>5. ASSUME NEW uid \in 1 .. Len(variables), parseKnownIdentifier(uid)
      PROVE  TreeInv'
  <2> DEFINE new == <<VariableNode(uid)>>
  <2>1. new \in Seq(NodeRecord) /\ Len(new) > 0
    BY NodeKinds
  <2>2. /\ Reduce(new, stack) /\ UNCHANGED <<variables, equations>>
        /\ Leaf(new, Len(variables'))
    BY <1>5 DEF parseKnownIdentifier, Leaf
  <2> HIDE DEF new, n
  <2> QED
    BY <1>0, <1>1, <2>1, <2>2, ReduceTrees DEF n
<1>6. ASSUME stack' = << >>, nodes' = nodes, equations' = equations, variables' = variables
      PROVE  TreeInv'
  <2>1. 0 \in 0 .. Len(stack) /\ Len(nodes') >= Len(nodes) /\ NodeUid' \ NodeUid = {}
    BY <1>0, <1>6 DEF NodeUid
  <2>2. OneParent' /\ RootsFree' /\ SidesFree'
    BY <1>0, <1>6, <2>1, GrownTrees DEF TreeInv
  <2>3. VariablesKnown'
    BY <1>6 DEF TreeInv, VariablesKnown, NodeUid
  <2> QED
    BY <2>2, <2>3 DEF TreeInv
<1>7. CASE parseNewIdentifier
  <2>1. CASE Len(variables) < MAX_VARIABLES_PER_MODEL
    <3> DEFINE uid == Len(variables) + 1
               new == <<VariableNode(uid)>>
    <3>1. variables' = Append(variables, 1) /\ Reduce(new, stack) /\ equations' = equations
      BY <1>7, <2>1 DEF parseNewIdentifier
    <3>2. Len(variables') = uid
      <4>1. variables \in Seq(Nat)
        BY MathModelAssumption, SeqMonotonic DEF MathModelAssumption, ModelTypeOK
      <4> QED
        BY <3>1, <4>1, AppendProperties
    <3>3. new \in Seq(NodeRecord) /\ Len(new) > 0
      BY <1>0, NodeKinds
    <3>4. uid \in 1 .. Len(variables') /\ Len(variables) <= Len(variables')
      BY <1>0, <3>2
    <3>5. Leaf(new, Len(variables'))
      BY <3>4 DEF Leaf
    <3> HIDE DEF new, n, uid
    <3> QED
      BY <1>0, <1>1, <3>1, <3>3, <3>4, <3>5, ReduceTrees DEF n
  <2>2. CASE ~(Len(variables) < MAX_VARIABLES_PER_MODEL)
    BY <1>6, <1>7, <2>2 DEF parseNewIdentifier
  <2> QED
    BY <2>1, <2>2
<1>8. CASE parseCall
  <2>1. Top \in NodeUid /\ nodes[Top] \in NodeRecord
    BY <1>8, <1>3, NodeFacts DEF parseCall, AfterIdentifier
  <2> DEFINE called == [nodes[Top] EXCEPT !.operation = "FUNCTION_CALL"]
  <2>2. called \in NodeRecord
    BY <2>1 DEF NodeRecord, Operation, Relation
  <2>3. nodes' = [nodes EXCEPT ![Top] = called] /\ UNCHANGED <<variables, equations, stack>>
    BY <1>8 DEF parseCall
  <2>4. called.left = nodes[Top].left /\ called.right = nodes[Top].right
        /\ called.type = nodes[Top].type /\ called.variable_uid = nodes[Top].variable_uid
    BY <2>1 DEF NodeRecord
  <2> HIDE DEF called
  <2>5. /\ Len(nodes') = Len(nodes)
        /\ \A m \in 1 .. Len(nodes) : nodes'[m] = IF m = Top THEN called ELSE nodes[m]
    BY <1>0, <2>1, <2>2, <2>3, ExceptSeq DEF ModelTypeOK
  <2>6. /\ NodeUid' = NodeUid
        /\ \A m \in NodeUid : /\ nodes'[m].left = nodes[m].left
                              /\ nodes'[m].right = nodes[m].right
                              /\ nodes'[m].type = nodes[m].type
                              /\ nodes'[m].variable_uid = nodes[m].variable_uid
    BY <2>4, <2>5 DEF NodeUid
  <2>7. VariablesKnown'
    BY <2>3, <2>6 DEF TreeInv, VariablesKnown
  <2>8. \A m \in NodeUid : Operands(m)' = Operands(m)
    BY <2>6 DEF Operands
  <2>9. \A e : Sides(e)' = Sides(e)
    BY <2>3 DEF Sides
  <2>10. OneParent'
    BY <2>6, <2>8 DEF TreeInv, OneParent
  <2>11. RootsFree'
    BY <2>3, <2>6, <2>8, <2>9 DEF TreeInv, RootsFree
  <2>12. \A m \in NodeUid : Unused(m)' <=> Unused(m)
    BY <2>3, <2>6, <2>8, <2>9 DEF Unused
  <2>13. SidesFree'
    BY <2>3, <2>6, <2>8, <2>9, <2>12 DEF TreeInv, SidesFree
  <2> QED
    BY <2>7, <2>10, <2>11, <2>13 DEF TreeInv
<1>9. ASSUME stack # << >>, NEW new, Reduce(new, Rest), UNCHANGED <<variables, equations>>,
             Fit(new, n - 1), new \in Seq(NodeRecord), Len(new) > 0
      PROVE  TreeInv'
  <2> HIDE DEF n
  <2> QED
    BY <1>0, <1>3, <1>9, ReduceTrees, SMTT(30) DEF n
<1>10. CASE parseSlice
  <2> DEFINE node == OperationNode("SLICE", Top, NextNode)
             zero == ConstantNode(0)
             new  == <<zero, node>>
  <2>1. stack # << >> /\ Reduce(new, Rest) /\ UNCHANGED <<variables, equations>>
    BY <1>10 DEF parseSlice, AfterIdentifier
  <2>2. NextNode \in Nat /\ NextNode \notin NodeUid /\ Top # NextNode /\ Top \in Nat
    BY <1>0, <1>3, <2>1 DEF NextNode
  <2>3. node \in NodeRecord /\ FitNode(node, n - 1)
    <3>1. node \in NodeRecord
      BY <2>2, NodeKinds DEF Operation, Relation
    <3>2. node.type = "OPERATION" /\ node.left = Top /\ node.right = NextNode
      BY DEF OperationNode
    <3> HIDE DEF node
    <3> QED
      BY <1>3, <2>1, <2>2, <3>1, <3>2 DEF FitNode
  <2>4. zero \in NodeRecord /\ FitNode(zero, n - 1) /\ zero.left = NullNode /\ zero.right = NullNode
    BY <1>2
  <2> HIDE DEF node, zero, n
  <2>5. Fit(new, n - 1) /\ new \in Seq(NodeRecord) /\ Len(new) > 0
    BY <2>3, <2>4, FitOnes
  <2> HIDE DEF new
  <2> QED
    BY <1>9, <2>1, <2>5
<1>11. CASE parseNot
  <2> DEFINE node == OperationNode("NOT", Top, NullNode)
             new  == <<node>>
  <2>1. stack # << >> /\ Reduce(new, Rest) /\ UNCHANGED <<variables, equations>>
    BY <1>11 DEF parseNot
  <2>2. NullNode \in Nat /\ NullNode \notin NodeUid /\ Top # NullNode /\ Top \in Nat
    BY <1>0, <1>3, <2>1 DEF NullNode
  <2>3. node \in NodeRecord /\ FitNode(node, n - 1)
    <3>1. node \in NodeRecord
      BY <2>2, NodeKinds DEF Operation, Relation
    <3>2. node.type = "OPERATION" /\ node.left = Top /\ node.right = NullNode
      BY DEF OperationNode
    <3> HIDE DEF node
    <3> QED
      BY <1>3, <2>1, <2>2, <3>1, <3>2 DEF FitNode
  <2> HIDE DEF node, n
  <2>5. Fit(new, n - 1) /\ new \in Seq(NodeRecord) /\ Len(new) > 0
    BY <2>3, FitOnes
  <2> HIDE DEF new
  <2> QED
    BY <1>9, <2>1, <2>5
<1>12. CASE parseMinus
  <2> DEFINE node == OperationNode("SUB", NextNode, Top)
             zero == ConstantNode(0)
             new  == <<zero, node>>
  <2>1. stack # << >> /\ Reduce(new, Rest) /\ UNCHANGED <<variables, equations>>
    BY <1>12 DEF parseMinus
  <2>2. NextNode \in Nat /\ NextNode \notin NodeUid /\ Top # NextNode /\ Top \in Nat
    BY <1>0, <1>3, <2>1 DEF NextNode
  <2>3. node \in NodeRecord /\ FitNode(node, n - 1)
    <3>1. node \in NodeRecord
      BY <2>2, NodeKinds DEF Operation, Relation
    <3>2. node.type = "OPERATION" /\ node.left = NextNode /\ node.right = Top
      BY DEF OperationNode
    <3> HIDE DEF node
    <3> QED
      BY <1>3, <2>1, <2>2, <3>1, <3>2 DEF FitNode
  <2>4. zero \in NodeRecord /\ FitNode(zero, n - 1) /\ zero.left = NullNode /\ zero.right = NullNode
    BY <1>2
  <2> HIDE DEF node, zero, n
  <2>5. Fit(new, n - 1) /\ new \in Seq(NodeRecord) /\ Len(new) > 0
    BY <2>3, <2>4, FitOnes
  <2> HIDE DEF new
  <2> QED
    BY <1>9, <2>1, <2>5
<1>13. ASSUME NEW operation \in Operations, parseBinary(operation)
       PROVE  TreeInv'
  <2> DEFINE k     == n - 2
             lower == stack[n - 1]
             below == SubSeq(stack, 1, k)
             node  == OperationNode(operation, lower, Top)
             new   == <<node>>
  <2>1. n >= 2 /\ stack # << >> /\ Reduce(new, below) /\ UNCHANGED <<variables, equations>>
    BY <1>13, EmptySeq DEF parseBinary
  <2>2. /\ lower \in NodeUid /\ Top \in NodeUid /\ below \in Seq(NodeUid)
        /\ k \in 0 .. n /\ Len(below) = k /\ \A i \in 1 .. k : below[i] = stack[i]
    BY <2>1, StackFacts, StackSplit
  <2>3. /\ n - 1 \in k + 1 .. n /\ n \in k + 1 .. n /\ n - 1 # n
        /\ n - 1 \in 1 .. n /\ n \in 1 .. n /\ Top = stack[n]
    BY <1>0, <2>1 DEF Top
  <2>4. lower # Top
    BY <2>3 DEF TreeInv, RootsFree
  <2>5. node \in NodeRecord /\ FitNode(node, k)
    <3>1. node \in NodeRecord
      BY <1>0, <2>2, NodeKinds, MathModelAssumption DEF MathModelAssumption
    <3>2. node.type = "OPERATION" /\ node.left = lower /\ node.right = Top
      BY DEF OperationNode
    <3>3. \E j \in k + 1 .. n : lower = stack[j]
      BY <2>3
    <3>4. \E j \in k + 1 .. n : Top = stack[j]
      BY <2>3
    <3> HIDE DEF node, lower, k
    <3> QED
      BY <2>4, <3>1, <3>2, <3>3, <3>4 DEF FitNode
  <2> HIDE DEF node, lower, below, k
  <2>6. Fit(new, k) /\ new \in Seq(NodeRecord) /\ Len(new) > 0
    BY <2>5, FitOnes
  <2> HIDE DEF new
  <2>7. /\ Len(below) <= Len(stack) /\ \A i \in 1 .. Len(below) : below[i] = stack[i]
        /\ Fit(new, Len(below))
    BY <1>0, <2>2, <2>6
  <2>8. /\ Reduce(new, below) /\ equations' = equations /\ below \in Seq(NodeUid)
        /\ Len(variables) \in Nat /\ Len(variables') \in Nat /\ Len(variables) <= Len(variables')
    BY <1>0, <2>1, <2>2
  <2> QED
    BY <1>0, <2>6, <2>7, <2>8, ReduceTrees
<1>14. CASE parseError
  BY <1>6, <1>14 DEF parseError
<1>15. ASSUME NEW bit_width \in 1 .. MAXIMUM_BIT_WIDTH, addVariable(bit_width)
       PROVE  TreeInv'
  <2>1. Len(variables') = Len(variables) + 1 /\ UNCHANGED <<nodes, equations, stack>>
    BY <1>15, AppendProperties DEF addVariable, ModelTypeOK
  <2>2. VariablesKnown'
    BY <1>0, <2>1 DEF TreeInv, VariablesKnown, NodeUid
  <2>3. /\ NodeUid' = NodeUid
        /\ \A m : Operands(m)' = Operands(m)
        /\ \A e : Sides(e)' = Sides(e)
    BY <2>1 DEF NodeUid, Operands, Sides
  <2>4. \A m : Unused(m)' <=> Unused(m)
    BY <2>1, <2>3 DEF Unused
  <2>5. OneParent' /\ RootsFree' /\ SidesFree'
    BY <2>1, <2>3, <2>4 DEF TreeInv, OneParent, RootsFree, SidesFree
  <2> QED
    BY <2>2, <2>5 DEF TreeInv
<1>16. CASE parseAndAddEquation
  <2>1. stack # << >> /\ Top \in NodeUid /\ stack' = << >> /\ variables' = variables
    BY <1>16, StackFacts, EmptySeq DEF parseAndAddEquation
  <2>2. CASE nodes[Top].type = "OPERATION" /\ nodes[Top].operation \in Relation
    <3> DEFINE lhs == nodes[Top].left
               rhs == nodes[Top].right
    <3>1. nodes' = nodes /\ addEquation(lhs, rhs)
      BY <1>16, <2>2 DEF parseAndAddEquation
    <3>2. lhs # NullNode /\ rhs # NullNode
      <4>1. Founded(nodes[Top], Top) /\ nodes[Top].operation # "NOT"
        BY <2>1, <2>2 DEF ModelTypeOK, Relation
      <4> QED
        BY <2>2, <4>1 DEF Founded
    <3>3. Operands(Top) = {lhs, rhs} /\ lhs # rhs
      BY <2>1, <3>2 DEF Operands, TreeInv, OneParent
    <3>4. NodeUid' = NodeUid /\ VariablesKnown'
      BY <2>1, <3>1 DEF NodeUid, TreeInv, VariablesKnown
    <3>5. \A m \in NodeUid : nodes'[m].left = nodes[m].left /\ nodes'[m].right = nodes[m].right
      BY <3>1
    <3> HIDE DEF lhs, rhs
    <3>6. OneParent' /\ RootsFree' /\ SidesFree'
      BY <1>0, <2>1, <2>2, <3>1, <3>3, <3>4, <3>5, EquationTrees DEF TreeInv
    <3> QED
      BY <3>4, <3>6 DEF TreeInv
  <2>3. CASE ~(nodes[Top].type = "OPERATION" /\ nodes[Top].operation \in Relation) /\ Room > 0
    <3> DEFINE new == ConstantNode(1)
    <3>1. nodes' = Append(nodes, new) /\ addEquation(Top, NextNode)
      BY <1>16, <2>3 DEF parseAndAddEquation
    <3>2. new \in NodeRecord
      BY NodeKinds
    <3>3. new.left = NullNode /\ new.right = NullNode /\ new.type # "VARIABLE"
      BY DEF ConstantNode
    <3> HIDE DEF new
    <3>4. /\ Len(nodes') = Len(nodes) + 1
          /\ \A m \in 1 .. Len(nodes) : nodes'[m] = nodes[m]
          /\ nodes'[Len(nodes) + 1] = new
      BY <3>1, <3>2, AppendProperties DEF ModelTypeOK
    <3>5. /\ NodeUid \subseteq NodeUid'
          /\ \A m \in NodeUid' \ NodeUid : nodes'[m] = new
          /\ NextNode \in NodeUid' \ NodeUid
          /\ Top # NextNode
      BY <1>0, <2>1, <3>4 DEF NodeUid, NextNode
    <3>6. VariablesKnown'
      BY <1>0, <2>1, <3>3, <3>4, <3>5 DEF TreeInv, VariablesKnown
    <3>7. /\ \A m \in NodeUid : nodes'[m].left = nodes[m].left /\ nodes'[m].right = nodes[m].right
          /\ \A m \in NodeUid' \ NodeUid : nodes'[m].left = NullNode /\ nodes'[m].right = NullNode
      BY <1>0, <3>3, <3>4, <3>5
    <3>8. OneParent' /\ RootsFree' /\ SidesFree'
      BY <1>0, <2>1, <3>1, <3>5, <3>7, EquationTrees DEF TreeInv
    <3> QED
      BY <3>6, <3>8 DEF TreeInv
  <2>4. CASE ~(nodes[Top].type = "OPERATION" /\ nodes[Top].operation \in Relation) /\ ~(Room > 0)
    <3>1. UNCHANGED <<nodes, equations>>
      BY <1>16, <2>4 DEF parseAndAddEquation
    <3> QED
      BY <1>6, <2>1, <3>1
  <2> QED
    BY <2>2, <2>3, <2>4
<1> QED
  BY <1>4, <1>5, <1>7, <1>8, <1>10, <1>11, <1>12, <1>13, <1>14, <1>15, <1>16 DEF ModelNext

(* Operands, sides of equations and texts share no node, however many      *)
(* texts are parsed, accepted or given up, for every capacity of the arena *)
(* (ExpressionParser's parse functions, MathModel::parseAndAddEquation).   *)
THEOREM ExpressionsAreTrees == Spec => []TreesDisjoint
<1>1. Init => TreeInv
  <2> SUFFICES ASSUME Init
               PROVE  TreeInv
    OBVIOUS
  <2>1. NodeUid = {} /\ 1 .. Len(equations) = {} /\ 1 .. Len(stack) = {}
    BY EmptySeq DEF Init, ModelInit, NodeUid
  <2> QED
    BY <2>1 DEF TreeInv, VariablesKnown, OneParent, RootsFree, SidesFree
<1>2. TypeOK /\ TreeInv /\ [Next]_vars => TreeInv'
  <2> SUFFICES ASSUME TypeOK, TreeInv, [Next]_vars
               PROVE  TreeInv'
    OBVIOUS
  <2>1. CASE EditModel
    BY <2>1, ModelTreesKept DEF EditModel, TypeOK
  <2>2. CASE UNCHANGED modelVars
    <3>1. /\ NodeUid' = NodeUid
          /\ \A m : Operands(m)' = Operands(m)
          /\ \A e : Sides(e)' = Sides(e)
      BY <2>2 DEF modelVars, NodeUid, Operands, Sides
    <3>2. \A m : Unused(m)' <=> Unused(m)
      BY <2>2, <3>1 DEF modelVars, Unused
    <3> QED
      BY <2>2, <3>1, <3>2 DEF modelVars, TreeInv, VariablesKnown, OneParent, RootsFree, SidesFree
  <2>3. compileModelToCircuit \/ compile \/ UNCHANGED vars => UNCHANGED modelVars
    BY DEF compileModelToCircuit, compile, vars, modelVars, AddVariablePin, NextVariable,
           VariablesDone, BeginEquation, EnterSide, EmitEquality, EquationsDone, EmitLeaf,
           EnterLeft, PassOn, EmitNot, EnterRight, emitBinaryGate, Return, HandBack, Enter
  <2> QED
    BY <2>1, <2>2, <2>3 DEF Next
<1>3. TypeOK /\ TreeInv => TreesDisjoint
  BY TreesFromInv DEF TypeOK
<1> QED
  BY <1>1, <1>2, <1>3, TypeCorrect, PTL DEF Spec

-----------------------------------------------------------------------------
(* Zero-cost inversion.  Of a number only its lowest twelve bits matter.   *)

LEMMA BitWeights ==
  /\ Weight[1] = 1 /\ Weight[2] = 2 /\ Weight[3] = 4 /\ Weight[4] = 8
  /\ Weight[5] = 16 /\ Weight[6] = 32 /\ Weight[7] = 64 /\ Weight[8] = 128
  /\ Weight[9] = 256 /\ Weight[10] = 512 /\ Weight[11] = 1024 /\ Weight[12] = 2048
  /\ DOMAIN Weight = 1 .. 12
  BY DEF Weight

Hex == 0 .. 15

LEMMA HexDigits ==
  ASSUME NEW a \in Bit, NEW b \in Bit, NEW c \in Bit, NEW d \in Bit
  PROVE  LET h == HexDigit(a, b, c, d)
         IN  /\ h \in Hex
             /\ BitOf(h, 1) = a /\ BitOf(h, 2) = b /\ BitOf(h, 3) = c /\ BitOf(h, 4) = d
<1> DEFINE h == HexDigit(a, b, c, d)
<1>1. a \in {0, 1} /\ b \in {0, 1} /\ c \in {0, 1} /\ d \in {0, 1}
  BY DEF Bit
<1>2. h \in 0 .. 15
  BY <1>1 DEF HexDigit
<1>3. (h \div 1) % 2 = a
  BY <1>1 DEF HexDigit
<1>4. (h \div 2) % 2 = b
  BY <1>1 DEF HexDigit
<1>5. (h \div 4) % 2 = c
  BY <1>1 DEF HexDigit
<1>6. (h \div 8) % 2 = d
  BY <1>1 DEF HexDigit
<1> QED
  BY <1>2, <1>3, <1>4, <1>5, <1>6, BitWeights DEF BitOf, Hex

(* Three hexadecimal digits are told apart again.                          *)
LEMMA DigitsApart ==
  ASSUME NEW x \in Hex, NEW y \in Hex, NEW z \in Hex
  PROVE  LET n == HexNumber(x, y, z)
         IN  /\ n \in Nat
             /\ BitOf(n, 1) = BitOf(x, 1) /\ BitOf(n, 2) = BitOf(x, 2)
             /\ BitOf(n, 3) = BitOf(x, 3) /\ BitOf(n, 4) = BitOf(x, 4)
             /\ BitOf(n, 5) = BitOf(y, 1) /\ BitOf(n, 6) = BitOf(y, 2)
             /\ BitOf(n, 7) = BitOf(y, 3) /\ BitOf(n, 8) = BitOf(y, 4)
             /\ BitOf(n, 9) = BitOf(z, 1) /\ BitOf(n, 10) = BitOf(z, 2)
             /\ BitOf(n, 11) = BitOf(z, 3) /\ BitOf(n, 12) = BitOf(z, 4)
<1> DEFINE n == HexNumber(x, y, z)
<1>0. n = x + (16 * y) + (256 * z)
  BY DEF HexNumber
<1>h. x \in 0 .. 15 /\ y \in 0 .. 15 /\ z \in Hex
  BY DEF Hex
<1> HIDE DEF n
<1>n. n \in Nat
  BY <1>0 DEF Hex
<1>1. BitOf(n, 1) = BitOf(x, 1)
  <2>1. (n \div 1) % 2 = (x \div 1) % 2
    BY <1>0 DEF Hex
  <2> QED
    BY <2>1, BitWeights DEF BitOf
<1>2. BitOf(n, 2) = BitOf(x, 2)
  <2>1. (n \div 2) % 2 = (x \div 2) % 2
    BY <1>0 DEF Hex
  <2> QED
    BY <2>1, BitWeights DEF BitOf
<1>3. BitOf(n, 3) = BitOf(x, 3)
  <2>1. (n \div 4) % 2 = (x \div 4) % 2
    BY <1>0 DEF Hex
  <2> QED
    BY <2>1, BitWeights DEF BitOf
<1>4. BitOf(n, 4) = BitOf(x, 4)
  <2>1. (n \div 8) % 2 = (x \div 8) % 2
    BY <1>0 DEF Hex
  <2> QED
    BY <2>1, BitWeights DEF BitOf
<1>5. BitOf(n, 5) = BitOf(y, 1)
  <2>1. (n \div 16) % 2 = (y \div 1) % 2
    BY <1>0 DEF Hex
  <2> QED
    BY <2>1, BitWeights DEF BitOf
<1>6. BitOf(n, 6) = BitOf(y, 2)
  <2>1. (n \div 32) % 2 = (y \div 2) % 2
    BY <1>0 DEF Hex
  <2> QED
    BY <2>1, BitWeights DEF BitOf
<1>7. BitOf(n, 7) = BitOf(y, 3)
  <2>1. (n \div 64) % 2 = (y \div 4) % 2
    BY <1>0 DEF Hex
  <2> QED
    BY <2>1, BitWeights DEF BitOf
<1>8. BitOf(n, 8) = BitOf(y, 4)
  <2>1. (n \div 128) % 2 = (y \div 8) % 2
    BY <1>0 DEF Hex
  <2> QED
    BY <2>1, BitWeights DEF BitOf
<1>9. BitOf(n, 9) = BitOf(z, 1)
  <2>1. (n \div 256) % 2 = (z \div 1) % 2
    BY <1>0 DEF Hex
  <2> QED
    BY <2>1, BitWeights DEF BitOf
<1>10. BitOf(n, 10) = BitOf(z, 2)
  <2>1. (n \div 512) % 2 = (z \div 2) % 2
    BY <1>0 DEF Hex
  <2> QED
    BY <2>1, BitWeights DEF BitOf
<1>11. BitOf(n, 11) = BitOf(z, 3)
  <2>1. (n \div 1024) % 2 = (z \div 4) % 2
    BY <1>0 DEF Hex
  <2> QED
    BY <2>1, BitWeights DEF BitOf
<1>12. BitOf(n, 12) = BitOf(z, 4)
  <2>1. (n \div 2048) % 2 = (z \div 8) % 2
    BY <1>0 DEF Hex
  <2> QED
    BY <2>1, BitWeights DEF BitOf
<1> QED
  BY <1>n, <1>1, <1>2, <1>3, <1>4, <1>5, <1>6, <1>7, <1>8, <1>9, <1>10,
     <1>11, <1>12 DEF n

Bits == [1 .. 12 -> Bit]

(* A number is taken apart into the bits it was put together from.         *)
LEMMA BitsAssembled ==
  ASSUME NEW digit \in Bits
  PROVE  /\ FromBits(digit) \in Nat
         /\ \A i \in 1 .. 12 : BitOf(FromBits(digit), i) = digit[i]
<1> DEFINE x == HexDigit(digit[1], digit[2], digit[3], digit[4])
           y == HexDigit(digit[5], digit[6], digit[7], digit[8])
           z == HexDigit(digit[9], digit[10], digit[11], digit[12])
           n == HexNumber(x, y, z)
<1>1. /\ digit[1] \in Bit /\ digit[2] \in Bit /\ digit[3] \in Bit /\ digit[4] \in Bit
      /\ digit[5] \in Bit /\ digit[6] \in Bit /\ digit[7] \in Bit /\ digit[8] \in Bit
      /\ digit[9] \in Bit /\ digit[10] \in Bit /\ digit[11] \in Bit /\ digit[12] \in Bit
  BY DEF Bits
<1>2. /\ x \in Hex
      /\ BitOf(x, 1) = digit[1] /\ BitOf(x, 2) = digit[2] /\ BitOf(x, 3) = digit[3] /\ BitOf(x, 4) = digit[4]
  BY <1>1, HexDigits
<1>3. /\ y \in Hex
      /\ BitOf(y, 1) = digit[5] /\ BitOf(y, 2) = digit[6] /\ BitOf(y, 3) = digit[7] /\ BitOf(y, 4) = digit[8]
  BY <1>1, HexDigits
<1>4. /\ z \in Hex
      /\ BitOf(z, 1) = digit[9] /\ BitOf(z, 2) = digit[10]
      /\ BitOf(z, 3) = digit[11] /\ BitOf(z, 4) = digit[12]
  BY <1>1, HexDigits
<1>5. FromBits(digit) = n
  BY DEF FromBits
<1> HIDE DEF x, y, z
<1>6. n \in Nat
  BY <1>2, <1>3, <1>4, DigitsApart
<1>7. BitOf(n, 1) = digit[1] /\ BitOf(n, 2) = digit[2] /\ BitOf(n, 3) = digit[3] /\ BitOf(n, 4) = digit[4]
  BY <1>2, <1>3, <1>4, DigitsApart
<1>8. BitOf(n, 5) = digit[5] /\ BitOf(n, 6) = digit[6] /\ BitOf(n, 7) = digit[7] /\ BitOf(n, 8) = digit[8]
  BY <1>2, <1>3, <1>4, DigitsApart
<1>9. /\ BitOf(n, 9) = digit[9] /\ BitOf(n, 10) = digit[10]
      /\ BitOf(n, 11) = digit[11] /\ BitOf(n, 12) = digit[12]
  BY <1>2, <1>3, <1>4, DigitsApart
<1> HIDE DEF n
<1>10. \A i \in 1 .. 12 :
         \/ i = 1 \/ i = 2 \/ i = 3 \/ i = 4 \/ i = 5 \/ i = 6
         \/ i = 7 \/ i = 8 \/ i = 9 \/ i = 10 \/ i = 11 \/ i = 12
  OBVIOUS
<1> QED
  BY <1>5, <1>6, <1>7, <1>8, <1>9, <1>10

LEMMA AndOr ==
  ASSUME NEW x, NEW y
  PROVE  /\ BitAnd(x, y) \in Nat
         /\ BitOr(x, y) \in Nat
         /\ \A i \in 1 .. 12 :
              /\ BitOf(BitAnd(x, y), i) = IF BitOf(x, i) = 1 /\ BitOf(y, i) = 1 THEN 1 ELSE 0
              /\ BitOf(BitOr(x, y), i) = IF BitOf(x, i) = 1 \/ BitOf(y, i) = 1 THEN 1 ELSE 0
<1> DEFINE both   == [i \in DOMAIN Weight |-> IF BitOf(x, i) = 1 /\ BitOf(y, i) = 1 THEN 1 ELSE 0]
           either == [i \in DOMAIN Weight |-> IF BitOf(x, i) = 1 \/ BitOf(y, i) = 1 THEN 1 ELSE 0]
<1>1. DOMAIN Weight = 1 .. 12
  BY BitWeights
<1>2. both \in Bits /\ either \in Bits
  BY <1>1 DEF Bits, Bit
<1>3. \A i \in 1 .. 12 :
        /\ both[i] = IF BitOf(x, i) = 1 /\ BitOf(y, i) = 1 THEN 1 ELSE 0
        /\ either[i] = IF BitOf(x, i) = 1 \/ BitOf(y, i) = 1 THEN 1 ELSE 0
  BY <1>1
<1>4. BitAnd(x, y) = FromBits(both) /\ BitOr(x, y) = FromBits(either)
  BY DEF BitAnd, BitOr
<1> HIDE DEF both, either
<1> QED
  BY <1>2, <1>3, <1>4, BitsAssembled

LEMMA BitIsBit ==
  ASSUME NEW n \in Nat, NEW i \in 1 .. 12
  PROVE  BitOf(n, i) \in Bit
<1>1. \A w \in Nat \ {0} : n \div w \in Nat
  OBVIOUS
<1>2. Weight[i] \in Nat \ {0}
  BY DEF Weight
<1>3. \A m \in Nat : m % 2 \in {0, 1}
  OBVIOUS
<1> QED
  BY <1>1, <1>2, <1>3 DEF BitOf, Bit

(* The bits of the masks, in pairs and in fours.                           *)
LEMMA MaskBits ==
  /\ BitOf(MASK_A, 1) = 1 /\ BitOf(MASK_A, 2) = 0
  /\ BitOf(MASK_A, 3) = 1 /\ BitOf(MASK_A, 4) = 0
  /\ BitOf(MASK_A, 5) = 1 /\ BitOf(MASK_A, 6) = 0
  /\ BitOf(MASK_A, 7) = 1 /\ BitOf(MASK_A, 8) = 0
  /\ BitOf(MASK_B, 1) = 1 /\ BitOf(MASK_B, 2) = 1
  /\ BitOf(MASK_B, 3) = 0 /\ BitOf(MASK_B, 4) = 0
  /\ BitOf(MASK_B, 5) = 1 /\ BitOf(MASK_B, 6) = 1
  /\ BitOf(MASK_B, 7) = 0 /\ BitOf(MASK_B, 8) = 0
  /\ BitOf(MASK_EVEN_A, 1) = 0 /\ BitOf(MASK_EVEN_A, 2) = 1
  /\ BitOf(MASK_EVEN_A, 3) = 0 /\ BitOf(MASK_EVEN_A, 4) = 1
  /\ BitOf(MASK_EVEN_A, 5) = 0 /\ BitOf(MASK_EVEN_A, 6) = 1
  /\ BitOf(MASK_EVEN_A, 7) = 0 /\ BitOf(MASK_EVEN_A, 8) = 1
  /\ BitOf(MASK_EVEN_B, 1) = 0 /\ BitOf(MASK_EVEN_B, 2) = 0
  /\ BitOf(MASK_EVEN_B, 3) = 1 /\ BitOf(MASK_EVEN_B, 4) = 1
  /\ BitOf(MASK_EVEN_B, 5) = 0 /\ BitOf(MASK_EVEN_B, 6) = 0
  /\ BitOf(MASK_EVEN_B, 7) = 1 /\ BitOf(MASK_EVEN_B, 8) = 1
<1>1. BitOf(MASK_A, 1) = 1
  BY DEF BitOf, Weight, MASK_A
<1>2. BitOf(MASK_A, 2) = 0
  BY DEF BitOf, Weight, MASK_A
<1>3. BitOf(MASK_A, 3) = 1
  BY DEF BitOf, Weight, MASK_A
<1>4. BitOf(MASK_A, 4) = 0
  BY DEF BitOf, Weight, MASK_A
<1>5. BitOf(MASK_A, 5) = 1
  BY DEF BitOf, Weight, MASK_A
<1>6. BitOf(MASK_A, 6) = 0
  BY DEF BitOf, Weight, MASK_A
<1>7. BitOf(MASK_A, 7) = 1
  BY DEF BitOf, Weight, MASK_A
<1>8. BitOf(MASK_A, 8) = 0
  BY DEF BitOf, Weight, MASK_A
<1>9. BitOf(MASK_B, 1) = 1
  BY DEF BitOf, Weight, MASK_B
<1>10. BitOf(MASK_B, 2) = 1
  BY DEF BitOf, Weight, MASK_B
<1>11. BitOf(MASK_B, 3) = 0
  BY DEF BitOf, Weight, MASK_B
<1>12. BitOf(MASK_B, 4) = 0
  BY DEF BitOf, Weight, MASK_B
<1>13. BitOf(MASK_B, 5) = 1
  BY DEF BitOf, Weight, MASK_B
<1>14. BitOf(MASK_B, 6) = 1
  BY DEF BitOf, Weight, MASK_B
<1>15. BitOf(MASK_B, 7) = 0
  BY DEF BitOf, Weight, MASK_B
<1>16. BitOf(MASK_B, 8) = 0
  BY DEF BitOf, Weight, MASK_B
<1>17. BitOf(MASK_EVEN_A, 1) = 0
  BY DEF BitOf, Weight, MASK_EVEN_A
<1>18. BitOf(MASK_EVEN_A, 2) = 1
  BY DEF BitOf, Weight, MASK_EVEN_A
<1>19. BitOf(MASK_EVEN_A, 3) = 0
  BY DEF BitOf, Weight, MASK_EVEN_A
<1>20. BitOf(MASK_EVEN_A, 4) = 1
  BY DEF BitOf, Weight, MASK_EVEN_A
<1>21. BitOf(MASK_EVEN_A, 5) = 0
  BY DEF BitOf, Weight, MASK_EVEN_A
<1>22. BitOf(MASK_EVEN_A, 6) = 1
  BY DEF BitOf, Weight, MASK_EVEN_A
<1>23. BitOf(MASK_EVEN_A, 7) = 0
  BY DEF BitOf, Weight, MASK_EVEN_A
<1>24. BitOf(MASK_EVEN_A, 8) = 1
  BY DEF BitOf, Weight, MASK_EVEN_A
<1>25. BitOf(MASK_EVEN_B, 1) = 0
  BY DEF BitOf, Weight, MASK_EVEN_B
<1>26. BitOf(MASK_EVEN_B, 2) = 0
  BY DEF BitOf, Weight, MASK_EVEN_B
<1>27. BitOf(MASK_EVEN_B, 3) = 1
  BY DEF BitOf, Weight, MASK_EVEN_B
<1>28. BitOf(MASK_EVEN_B, 4) = 1
  BY DEF BitOf, Weight, MASK_EVEN_B
<1>29. BitOf(MASK_EVEN_B, 5) = 0
  BY DEF BitOf, Weight, MASK_EVEN_B
<1>30. BitOf(MASK_EVEN_B, 6) = 0
  BY DEF BitOf, Weight, MASK_EVEN_B
<1>31. BitOf(MASK_EVEN_B, 7) = 1
  BY DEF BitOf, Weight, MASK_EVEN_B
<1>32. BitOf(MASK_EVEN_B, 8) = 1
  BY DEF BitOf, Weight, MASK_EVEN_B
<1> QED
  BY <1>1, <1>2, <1>3, <1>4, <1>5, <1>6, <1>7, <1>8,
     <1>9, <1>10, <1>11, <1>12, <1>13, <1>14, <1>15, <1>16,
     <1>17, <1>18, <1>19, <1>20, <1>21, <1>22, <1>23, <1>24,
     <1>25, <1>26, <1>27, <1>28, <1>29, <1>30, <1>31, <1>32

LEMMA Shifted1 ==
  ASSUME NEW n \in Nat
  PROVE  /\ \A i \in 1 .. 11 : BitOf(n \div 2, i) = BitOf(n, i + 1)
         /\ \A i \in 1 .. 11 : BitOf(n * 2, i + 1) = BitOf(n, i)
         /\ \A i \in 1 .. 1 : BitOf(n * 2, i) = 0
         /\ n \div 2 \in Nat /\ n * 2 \in Nat
<1>r1. BitOf(n \div 2, 1) = BitOf(n, 2)
  <2>1. (n \div 2) \div 1 = n \div 2
    OBVIOUS
  <2> QED
    BY <2>1, BitWeights DEF BitOf
<1>l1. BitOf(n * 2, 2) = BitOf(n, 1)
  <2>1. (n * 2) \div 2 = n \div 1
    OBVIOUS
  <2> QED
    BY <2>1, BitWeights DEF BitOf
<1>r2. BitOf(n \div 2, 2) = BitOf(n, 3)
  <2>1. (n \div 2) \div 2 = n \div 4
    OBVIOUS
  <2> QED
    BY <2>1, BitWeights DEF BitOf
<1>l2. BitOf(n * 2, 3) = BitOf(n, 2)
  <2>1. (n * 2) \div 4 = n \div 2
    OBVIOUS
  <2> QED
    BY <2>1, BitWeights DEF BitOf
<1>r3. BitOf(n \div 2, 3) = BitOf(n, 4)
  <2>1. (n \div 2) \div 4 = n \div 8
    OBVIOUS
  <2> QED
    BY <2>1, BitWeights DEF BitOf
<1>l3. BitOf(n * 2, 4) = BitOf(n, 3)
  <2>1. (n * 2) \div 8 = n \div 4
    OBVIOUS
  <2> QED
    BY <2>1, BitWeights DEF BitOf
<1>r4. BitOf(n \div 2, 4) = BitOf(n, 5)
  <2>1. (n \div 2) \div 8 = n \div 16
    OBVIOUS
  <2> QED
    BY <2>1, BitWeights DEF BitOf
<1>l4. BitOf(n * 2, 5) = BitOf(n, 4)
  <2>1. (n * 2) \div 16 = n \div 8
    OBVIOUS
  <2> QED
    BY <2>1, BitWeights DEF BitOf
<1>r5. BitOf(n \div 2, 5) = BitOf(n, 6)
  <2>1. (n \div 2) \div 16 = n \div 32
    OBVIOUS
  <2> QED
    BY <2>1, BitWeights DEF BitOf
<1>l5. BitOf(n * 2, 6) = BitOf(n, 5)
  <2>1. (n * 2) \div 32 = n \div 16
    OBVIOUS
  <2> QED
    BY <2>1, BitWeights DEF BitOf
<1>r6. BitOf(n \div 2, 6) = BitOf(n, 7)
  <2>1. (n \div 2) \div 32 = n \div 64
    OBVIOUS
  <2> QED
    BY <2>1, BitWeights DEF BitOf
<1>l6. BitOf(n * 2, 7) = BitOf(n, 6)
  <2>1. (n * 2) \div 64 = n \div 32
    OBVIOUS
  <2> QED
    BY <2>1, BitWeights DEF BitOf
<1>r7. BitOf(n \div 2, 7) = BitOf(n, 8)
  <2>1. (n \div 2) \div 64 = n \div 128
    OBVIOUS
  <2> QED
    BY <2>1, BitWeights DEF BitOf
<1>l7. BitOf(n * 2, 8) = BitOf(n, 7)
  <2>1. (n * 2) \div 128 = n \div 64
    OBVIOUS
  <2> QED
    BY <2>1, BitWeights DEF BitOf
<1>r8. BitOf(n \div 2, 8) = BitOf(n, 9)
  <2>1. (n \div 2) \div 128 = n \div 256
    OBVIOUS
  <2> QED
    BY <2>1, BitWeights DEF BitOf
<1>l8. BitOf(n * 2, 9) = BitOf(n, 8)
  <2>1. (n * 2) \div 256 = n \div 128
    OBVIOUS
  <2> QED
    BY <2>1, BitWeights DEF BitOf
<1>r9. BitOf(n \div 2, 9) = BitOf(n, 10)
  <2>1. (n \div 2) \div 256 = n \div 512
    OBVIOUS
  <2> QED
    BY <2>1, BitWeights DEF BitOf
<1>l9. BitOf(n * 2, 10) = BitOf(n, 9)
  <2>1. (n * 2) \div 512 = n \div 256
    OBVIOUS
  <2> QED
    BY <2>1, BitWeights DEF BitOf
<1>r10. BitOf(n \div 2, 10) = BitOf(n, 11)
  <2>1. (n \div 2) \div 512 = n \div 1024
    OBVIOUS
  <2> QED
    BY <2>1, BitWeights DEF BitOf
<1>l10. BitOf(n * 2, 11) = BitOf(n, 10)
  <2>1. (n * 2) \div 1024 = n \div 512
    OBVIOUS
  <2> QED
    BY <2>1, BitWeights DEF BitOf
<1>r11. BitOf(n \div 2, 11) = BitOf(n, 12)
  <2>1. (n \div 2) \div 1024 = n \div 2048
    OBVIOUS
  <2> QED
    BY <2>1, BitWeights DEF BitOf
<1>l11. BitOf(n * 2, 12) = BitOf(n, 11)
  <2>1. (n * 2) \div 2048 = n \div 1024
    OBVIOUS
  <2> QED
    BY <2>1, BitWeights DEF BitOf
<1>z1. BitOf(n * 2, 1) = 0
  <2>1. ((n * 2) \div 1) % 2 = 0
    OBVIOUS
  <2> QED
    BY <2>1, BitWeights DEF BitOf
<1>1. n \div 2 \in Nat /\ n * 2 \in Nat
  OBVIOUS
<1>2. \A i \in 1 .. 11 : i = 1 \/ i = 2 \/ i = 3 \/ i = 4 \/ i = 5 \/ i = 6
                    \/ i = 7 \/ i = 8 \/ i = 9 \/ i = 10 \/ i = 11
  OBVIOUS
<1>3. \A i \in 1 .. 11 : BitOf(n \div 2, i) = BitOf(n, i + 1)
  BY <1>2, <1>r1, <1>r2, <1>r3, <1>r4, <1>r5, <1>r6, <1>r7, <1>r8, <1>r9, <1>r10, <1>r11
<1>4. \A i \in 1 .. 11 : BitOf(n * 2, i + 1) = BitOf(n, i)
  BY <1>2, <1>l1, <1>l2, <1>l3, <1>l4, <1>l5, <1>l6, <1>l7, <1>l8, <1>l9, <1>l10, <1>l11
<1>5. \A i \in 1 .. 1 : BitOf(n * 2, i) = 0
  BY <1>z1
<1> QED
  BY <1>1, <1>3, <1>4, <1>5

LEMMA Shifted2 ==
  ASSUME NEW n \in Nat
  PROVE  /\ \A i \in 1 .. 10 : BitOf(n \div 4, i) = BitOf(n, i + 2)
         /\ \A i \in 1 .. 10 : BitOf(n * 4, i + 2) = BitOf(n, i)
         /\ \A i \in 1 .. 2 : BitOf(n * 4, i) = 0
         /\ n \div 4 \in Nat /\ n * 4 \in Nat
<1>r1. BitOf(n \div 4, 1) = BitOf(n, 3)
  <2>1. (n \div 4) \div 1 = n \div 4
    OBVIOUS
  <2> QED
    BY <2>1, BitWeights DEF BitOf
<1>l1. BitOf(n * 4, 3) = BitOf(n, 1)
  <2>1. (n * 4) \div 4 = n \div 1
    OBVIOUS
  <2> QED
    BY <2>1, BitWeights DEF BitOf
<1>r2. BitOf(n \div 4, 2) = BitOf(n, 4)
  <2>1. (n \div 4) \div 2 = n \div 8
    OBVIOUS
  <2> QED
    BY <2>1, BitWeights DEF BitOf
<1>l2. BitOf(n * 4, 4) = BitOf(n, 2)
  <2>1. (n * 4) \div 8 = n \div 2
    OBVIOUS
  <2> QED
    BY <2>1, BitWeights DEF BitOf
<1>r3. BitOf(n \div 4, 3) = BitOf(n, 5)
  <2>1. (n \div 4) \div 4 = n \div 16
    OBVIOUS
  <2> QED
    BY <2>1, BitWeights DEF BitOf
<1>l3. BitOf(n * 4, 5) = BitOf(n, 3)
  <2>1. (n * 4) \div 16 = n \div 4
    OBVIOUS
  <2> QED
    BY <2>1, BitWeights DEF BitOf
<1>r4. BitOf(n \div 4, 4) = BitOf(n, 6)
  <2>1. (n \div 4) \div 8 = n \div 32
    OBVIOUS
  <2> QED
    BY <2>1, BitWeights DEF BitOf
<1>l4. BitOf(n * 4, 6) = BitOf(n, 4)
  <2>1. (n * 4) \div 32 = n \div 8
    OBVIOUS
  <2> QED
    BY <2>1, BitWeights DEF BitOf
<1>r5. BitOf(n \div 4, 5) = BitOf(n, 7)
  <2>1. (n \div 4) \div 16 = n \div 64
    OBVIOUS
  <2> QED
    BY <2>1, BitWeights DEF BitOf
<1>l5. BitOf(n * 4, 7) = BitOf(n, 5)
  <2>1. (n * 4) \div 64 = n \div 16
    OBVIOUS
  <2> QED
    BY <2>1, BitWeights DEF BitOf
<1>r6. BitOf(n \div 4, 6) = BitOf(n, 8)
  <2>1. (n \div 4) \div 32 = n \div 128
    OBVIOUS
  <2> QED
    BY <2>1, BitWeights DEF BitOf
<1>l6. BitOf(n * 4, 8) = BitOf(n, 6)
  <2>1. (n * 4) \div 128 = n \div 32
    OBVIOUS
  <2> QED
    BY <2>1, BitWeights DEF BitOf
<1>r7. BitOf(n \div 4, 7) = BitOf(n, 9)
  <2>1. (n \div 4) \div 64 = n \div 256
    OBVIOUS
  <2> QED
    BY <2>1, BitWeights DEF BitOf
<1>l7. BitOf(n * 4, 9) = BitOf(n, 7)
  <2>1. (n * 4) \div 256 = n \div 64
    OBVIOUS
  <2> QED
    BY <2>1, BitWeights DEF BitOf
<1>r8. BitOf(n \div 4, 8) = BitOf(n, 10)
  <2>1. (n \div 4) \div 128 = n \div 512
    OBVIOUS
  <2> QED
    BY <2>1, BitWeights DEF BitOf
<1>l8. BitOf(n * 4, 10) = BitOf(n, 8)
  <2>1. (n * 4) \div 512 = n \div 128
    OBVIOUS
  <2> QED
    BY <2>1, BitWeights DEF BitOf
<1>r9. BitOf(n \div 4, 9) = BitOf(n, 11)
  <2>1. (n \div 4) \div 256 = n \div 1024
    OBVIOUS
  <2> QED
    BY <2>1, BitWeights DEF BitOf
<1>l9. BitOf(n * 4, 11) = BitOf(n, 9)
  <2>1. (n * 4) \div 1024 = n \div 256
    OBVIOUS
  <2> QED
    BY <2>1, BitWeights DEF BitOf
<1>r10. BitOf(n \div 4, 10) = BitOf(n, 12)
  <2>1. (n \div 4) \div 512 = n \div 2048
    OBVIOUS
  <2> QED
    BY <2>1, BitWeights DEF BitOf
<1>l10. BitOf(n * 4, 12) = BitOf(n, 10)
  <2>1. (n * 4) \div 2048 = n \div 512
    OBVIOUS
  <2> QED
    BY <2>1, BitWeights DEF BitOf
<1>z1. BitOf(n * 4, 1) = 0
  <2>1. ((n * 4) \div 1) % 2 = 0
    OBVIOUS
  <2> QED
    BY <2>1, BitWeights DEF BitOf
<1>z2. BitOf(n * 4, 2) = 0
  <2>1. ((n * 4) \div 2) % 2 = 0
    OBVIOUS
  <2> QED
    BY <2>1, BitWeights DEF BitOf
<1>1. n \div 4 \in Nat /\ n * 4 \in Nat
  OBVIOUS
<1>2. \A i \in 1 .. 10 : i = 1 \/ i = 2 \/ i = 3 \/ i = 4 \/ i = 5 \/ i = 6
                    \/ i = 7 \/ i = 8 \/ i = 9 \/ i = 10
  OBVIOUS
<1>3. \A i \in 1 .. 10 : BitOf(n \div 4, i) = BitOf(n, i + 2)
  BY <1>2, <1>r1, <1>r2, <1>r3, <1>r4, <1>r5, <1>r6, <1>r7, <1>r8, <1>r9, <1>r10
<1>4. \A i \in 1 .. 10 : BitOf(n * 4, i + 2) = BitOf(n, i)
  BY <1>2, <1>l1, <1>l2, <1>l3, <1>l4, <1>l5, <1>l6, <1>l7, <1>l8, <1>l9, <1>l10
<1>5. \A i \in 1 .. 2 : BitOf(n * 4, i) = 0
  BY <1>z1, <1>z2
<1> QED
  BY <1>1, <1>3, <1>4, <1>5

LEMMA Shifted4 ==
  ASSUME NEW n \in Nat
  PROVE  /\ \A i \in 1 .. 8 : BitOf(n \div 16, i) = BitOf(n, i + 4)
         /\ \A i \in 1 .. 8 : BitOf(n * 16, i + 4) = BitOf(n, i)
         /\ \A i \in 1 .. 4 : BitOf(n * 16, i) = 0
         /\ n \div 16 \in Nat /\ n * 16 \in Nat
<1>r1. BitOf(n \div 16, 1) = BitOf(n, 5)
  <2>1. (n \div 16) \div 1 = n \div 16
    OBVIOUS
  <2> QED
    BY <2>1, BitWeights DEF BitOf
<1>l1. BitOf(n * 16, 5) = BitOf(n, 1)
  <2>1. (n * 16) \div 16 = n \div 1
    OBVIOUS
  <2> QED
    BY <2>1, BitWeights DEF BitOf
<1>r2. BitOf(n \div 16, 2) = BitOf(n, 6)
  <2>1. (n \div 16) \div 2 = n \div 32
    OBVIOUS
  <2> QED
    BY <2>1, BitWeights DEF BitOf
<1>l2. BitOf(n * 16, 6) = BitOf(n, 2)
  <2>1. (n * 16) \div 32 = n \div 2
    OBVIOUS
  <2> QED
    BY <2>1, BitWeights DEF BitOf
<1>r3. BitOf(n \div 16, 3) = BitOf(n, 7)
  <2>1. (n \div 16) \div 4 = n \div 64
    OBVIOUS
  <2> QED
    BY <2>1, BitWeights DEF BitOf
<1>l3. BitOf(n * 16, 7) = BitOf(n, 3)
  <2>1. (n * 16) \div 64 = n \div 4
    OBVIOUS
  <2> QED
    BY <2>1, BitWeights DEF BitOf
<1>r4. BitOf(n \div 16, 4) = BitOf(n, 8)
  <2>1. (n \div 16) \div 8 = n \div 128
    OBVIOUS
  <2> QED
    BY <2>1, BitWeights DEF BitOf
<1>l4. BitOf(n * 16, 8) = BitOf(n, 4)
  <2>1. (n * 16) \div 128 = n \div 8
    OBVIOUS
  <2> QED
    BY <2>1, BitWeights DEF BitOf
<1>r5. BitOf(n \div 16, 5) = BitOf(n, 9)
  <2>1. (n \div 16) \div 16 = n \div 256
    OBVIOUS
  <2> QED
    BY <2>1, BitWeights DEF BitOf
<1>l5. BitOf(n * 16, 9) = BitOf(n, 5)
  <2>1. (n * 16) \div 256 = n \div 16
    OBVIOUS
  <2> QED
    BY <2>1, BitWeights DEF BitOf
<1>r6. BitOf(n \div 16, 6) = BitOf(n, 10)
  <2>1. (n \div 16) \div 32 = n \div 512
    OBVIOUS
  <2> QED
    BY <2>1, BitWeights DEF BitOf
<1>l6. BitOf(n * 16, 10) = BitOf(n, 6)
  <2>1. (n * 16) \div 512 = n \div 32
    OBVIOUS
  <2> QED
    BY <2>1, BitWeights DEF BitOf
<1>r7. BitOf(n \div 16, 7) = BitOf(n, 11)
  <2>1. (n \div 16) \div 64 = n \div 1024
    OBVIOUS
  <2> QED
    BY <2>1, BitWeights DEF BitOf
<1>l7. BitOf(n * 16, 11) = BitOf(n, 7)
  <2>1. (n * 16) \div 1024 = n \div 64
    OBVIOUS
  <2> QED
    BY <2>1, BitWeights DEF BitOf
<1>r8. BitOf(n \div 16, 8) = BitOf(n, 12)
  <2>1. (n \div 16) \div 128 = n \div 2048
    OBVIOUS
  <2> QED
    BY <2>1, BitWeights DEF BitOf
<1>l8. BitOf(n * 16, 12) = BitOf(n, 8)
  <2>1. (n * 16) \div 2048 = n \div 128
    OBVIOUS
  <2> QED
    BY <2>1, BitWeights DEF BitOf
<1>z1. BitOf(n * 16, 1) = 0
  <2>1. ((n * 16) \div 1) % 2 = 0
    OBVIOUS
  <2> QED
    BY <2>1, BitWeights DEF BitOf
<1>z2. BitOf(n * 16, 2) = 0
  <2>1. ((n * 16) \div 2) % 2 = 0
    OBVIOUS
  <2> QED
    BY <2>1, BitWeights DEF BitOf
<1>z3. BitOf(n * 16, 3) = 0
  <2>1. ((n * 16) \div 4) % 2 = 0
    OBVIOUS
  <2> QED
    BY <2>1, BitWeights DEF BitOf
<1>z4. BitOf(n * 16, 4) = 0
  <2>1. ((n * 16) \div 8) % 2 = 0
    OBVIOUS
  <2> QED
    BY <2>1, BitWeights DEF BitOf
<1>1. n \div 16 \in Nat /\ n * 16 \in Nat
  OBVIOUS
<1>2. \A i \in 1 .. 8 : i = 1 \/ i = 2 \/ i = 3 \/ i = 4 \/ i = 5 \/ i = 6
                    \/ i = 7 \/ i = 8
  OBVIOUS
<1>3. \A i \in 1 .. 8 : BitOf(n \div 16, i) = BitOf(n, i + 4)
  BY <1>2, <1>r1, <1>r2, <1>r3, <1>r4, <1>r5, <1>r6, <1>r7, <1>r8
<1>4. \A i \in 1 .. 8 : BitOf(n * 16, i + 4) = BitOf(n, i)
  BY <1>2, <1>l1, <1>l2, <1>l3, <1>l4, <1>l5, <1>l6, <1>l7, <1>l8
<1>5. \A i \in 1 .. 4 : BitOf(n * 16, i) = 0
  BY <1>z1, <1>z2, <1>z3, <1>z4
<1> QED
  BY <1>1, <1>3, <1>4, <1>5

LEMMA LowByte ==
  ASSUME NEW n \in Nat
  PROVE  /\ ToByte(n) \in Byte
         /\ \A i \in 1 .. 8 : BitOf(ToByte(n), i) = BitOf(n, i)
<1>0. n % 256 \in Byte
  BY DEF Byte
<1>1. BitOf(n % 256, 1) = BitOf(n, 1)
  <2>1. ((n % 256) \div 1) % 2 = (n \div 1) % 2
    <3>1. n \div 1 = ((n % 256) \div 1) + (256 * (n \div 256))
      OBVIOUS
    <3> QED
      BY <3>1
  <2> QED
    BY <2>1, BitWeights DEF BitOf
<1>2. BitOf(n % 256, 2) = BitOf(n, 2)
  <2>1. ((n % 256) \div 2) % 2 = (n \div 2) % 2
    <3>1. n \div 2 = ((n % 256) \div 2) + (128 * (n \div 256))
      OBVIOUS
    <3> QED
      BY <3>1
  <2> QED
    BY <2>1, BitWeights DEF BitOf
<1>3. BitOf(n % 256, 3) = BitOf(n, 3)
  <2>1. ((n % 256) \div 4) % 2 = (n \div 4) % 2
    <3>1. n \div 4 = ((n % 256) \div 4) + (64 * (n \div 256))
      OBVIOUS
    <3> QED
      BY <3>1
  <2> QED
    BY <2>1, BitWeights DEF BitOf
<1>4. BitOf(n % 256, 4) = BitOf(n, 4)
  <2>1. ((n % 256) \div 8) % 2 = (n \div 8) % 2
    <3>1. n \div 8 = ((n % 256) \div 8) + (32 * (n \div 256))
      OBVIOUS
    <3> QED
      BY <3>1
  <2> QED
    BY <2>1, BitWeights DEF BitOf
<1>5. BitOf(n % 256, 5) = BitOf(n, 5)
  <2>1. ((n % 256) \div 16) % 2 = (n \div 16) % 2
    <3>1. n \div 16 = ((n % 256) \div 16) + (16 * (n \div 256))
      OBVIOUS
    <3> QED
      BY <3>1
  <2> QED
    BY <2>1, BitWeights DEF BitOf
<1>6. BitOf(n % 256, 6) = BitOf(n, 6)
  <2>1. ((n % 256) \div 32) % 2 = (n \div 32) % 2
    <3>1. n \div 32 = ((n % 256) \div 32) + (8 * (n \div 256))
      OBVIOUS
    <3> QED
      BY <3>1
  <2> QED
    BY <2>1, BitWeights DEF BitOf
<1>7. BitOf(n % 256, 7) = BitOf(n, 7)
  <2>1. ((n % 256) \div 64) % 2 = (n \div 64) % 2
    <3>1. n \div 64 = ((n % 256) \div 64) + (4 * (n \div 256))
      OBVIOUS
    <3> QED
      BY <3>1
  <2> QED
    BY <2>1, BitWeights DEF BitOf
<1>8. BitOf(n % 256, 8) = BitOf(n, 8)
  <2>1. ((n % 256) \div 128) % 2 = (n \div 128) % 2
    <3>1. n \div 128 = ((n % 256) \div 128) + (2 * (n \div 256))
      OBVIOUS
    <3> QED
      BY <3>1
  <2> QED
    BY <2>1, BitWeights DEF BitOf
<1> QED
  BY <1>0, <1>1, <1>2, <1>3, <1>4, <1>5, <1>6, <1>7, <1>8 DEF ToByte

LEMMA ByteBits ==
  ASSUME NEW byte \in Byte
  PROVE  /\ byte \in Nat
         /\ \A i \in 1 .. 12 : BitOf(byte, i) = 0 \/ BitOf(byte, i) = 1
         /\ \A i \in 9 .. 12 : BitOf(byte, i) = 0
<1>1. byte \in Nat
  BY DEF Byte
<1>2. \A i \in 1 .. 12 : BitOf(byte, i) = 0 \/ BitOf(byte, i) = 1
  BY <1>1, BitIsBit DEF Bit
<1>3. byte \div 256 = 0 /\ byte \div 512 = 0 /\ byte \div 1024 = 0 /\ byte \div 2048 = 0
  BY DEF Byte
<1>4. 0 % 2 = 0
  OBVIOUS
<1>5. BitOf(byte, 9) = 0 /\ BitOf(byte, 10) = 0 /\ BitOf(byte, 11) = 0 /\ BitOf(byte, 12) = 0
  BY <1>3, <1>4, BitWeights DEF BitOf
<1>6. \A i \in 9 .. 12 : i = 9 \/ i = 10 \/ i = 11 \/ i = 12
  OBVIOUS
<1> QED
  BY <1>1, <1>2, <1>5, <1>6

(* Inverting pin A swaps neighbours.                                         *)
LEMMA InvertedA ==
  ASSUME NEW byte \in Byte
  PROVE  /\ invertPinA(byte) \in Byte
         /\ BitOf(invertPinA(byte), 1) = BitOf(byte, 2) /\ BitOf(invertPinA(byte), 2) = BitOf(byte, 1)
         /\ BitOf(invertPinA(byte), 3) = BitOf(byte, 4) /\ BitOf(invertPinA(byte), 4) = BitOf(byte, 3)
         /\ BitOf(invertPinA(byte), 5) = BitOf(byte, 6) /\ BitOf(invertPinA(byte), 6) = BitOf(byte, 5)
         /\ BitOf(invertPinA(byte), 7) = BitOf(byte, 8) /\ BitOf(invertPinA(byte), 8) = BitOf(byte, 7)
<1> DEFINE high == BitAnd(byte, MASK_EVEN_A)
           low  == BitAnd(byte, MASK_A)
           n    == BitOr(high \div 2, low * 2)
<1>1. /\ high \in Nat /\ low \in Nat
      /\ high \div 2 \in Nat /\ low * 2 \in Nat
  <2>1. high \in Nat /\ low \in Nat
    BY AndOr
  <2> HIDE DEF high, low
  <2> QED
    BY <2>1, Shifted1
<1>2. \A i \in 1 .. 12 :
        /\ BitOf(high, i) = IF BitOf(byte, i) = 1 /\ BitOf(MASK_EVEN_A, i) = 1 THEN 1 ELSE 0
        /\ BitOf(low, i) = IF BitOf(byte, i) = 1 /\ BitOf(MASK_A, i) = 1 THEN 1 ELSE 0
  BY AndOr
<1>3. /\ \A i \in 1 .. 11 : BitOf(high \div 2, i) = BitOf(high, i + 1)
      /\ \A i \in 1 .. 11 : BitOf(low * 2, i + 1) = BitOf(low, i)
      /\ \A i \in 1 .. 1 : BitOf(low * 2, i) = 0
  <2> HIDE DEF high, low
  <2> QED
    BY <1>1, Shifted1
<1>4. /\ n \in Nat
      /\ \A i \in 1 .. 12 :
           BitOf(n, i) = IF BitOf(high \div 2, i) = 1 \/ BitOf(low * 2, i) = 1 THEN 1 ELSE 0
  <2> HIDE DEF high, low
  <2> QED
    BY AndOr
<1>5. invertPinA(byte) = ToByte(n)
  BY DEF invertPinA
<1> HIDE DEF high, low, n
<1>6. /\ invertPinA(byte) \in Byte
      /\ \A i \in 1 .. 8 : BitOf(invertPinA(byte), i) = BitOf(n, i)
  BY <1>4, <1>5, LowByte
<1>7. \A i \in 1 .. 12 : BitOf(byte, i) = 0 \/ BitOf(byte, i) = 1
  BY ByteBits
<1>b1. BitOf(invertPinA(byte), 1) = BitOf(byte, 2)
  <2>1. BitOf(high \div 2, 1) = BitOf(byte, 2)
    BY <1>2, <1>3, <1>7, MaskBits
  <2>2. BitOf(low * 2, 1) = 0
    BY <1>3
  <2> QED
    BY <1>4, <1>6, <1>7, <2>1, <2>2
<1>b2. BitOf(invertPinA(byte), 2) = BitOf(byte, 1)
  <2>1. BitOf(high \div 2, 2) = 0
    <3>1. BitOf(high \div 2, 2) = BitOf(high, 3)
      BY <1>3
    <3> QED
      BY <1>2, <1>7, <3>1, MaskBits, ByteBits
  <2>2. BitOf(low * 2, 2) = BitOf(byte, 1)
    <3>1. BitOf(low * 2, 2) = BitOf(low, 1)
      BY <1>3
    <3> QED
      BY <1>2, <1>7, <3>1, MaskBits
  <2> QED
    BY <1>4, <1>6, <1>7, <2>1, <2>2
<1>b3. BitOf(invertPinA(byte), 3) = BitOf(byte, 4)
  <2>1. BitOf(high \div 2, 3) = BitOf(byte, 4)
    BY <1>2, <1>3, <1>7, MaskBits
  <2>2. BitOf(low * 2, 3) = 0
    <3>1. BitOf(low * 2, 3) = BitOf(low, 2)
      BY <1>3
    <3> QED
      BY <1>2, <3>1, MaskBits
  <2> QED
    BY <1>4, <1>6, <1>7, <2>1, <2>2
<1>b4. BitOf(invertPinA(byte), 4) = BitOf(byte, 3)
  <2>1. BitOf(high \div 2, 4) = 0
    <3>1. BitOf(high \div 2, 4) = BitOf(high, 5)
      BY <1>3
    <3> QED
      BY <1>2, <1>7, <3>1, MaskBits, ByteBits
  <2>2. BitOf(low * 2, 4) = BitOf(byte, 3)
    <3>1. BitOf(low * 2, 4) = BitOf(low, 3)
      BY <1>3
    <3> QED
      BY <1>2, <1>7, <3>1, MaskBits
  <2> QED
    BY <1>4, <1>6, <1>7, <2>1, <2>2
<1>b5. BitOf(invertPinA(byte), 5) = BitOf(byte, 6)
  <2>1. BitOf(high \div 2, 5) = BitOf(byte, 6)
    BY <1>2, <1>3, <1>7, MaskBits
  <2>2. BitOf(low * 2, 5) = 0
    <3>1. BitOf(low * 2, 5) = BitOf(low, 4)
      BY <1>3
    <3> QED
      BY <1>2, <3>1, MaskBits
  <2> QED
    BY <1>4, <1>6, <1>7, <2>1, <2>2
<1>b6. BitOf(invertPinA(byte), 6) = BitOf(byte, 5)
  <2>1. BitOf(high \div 2, 6) = 0
    <3>1. BitOf(high \div 2, 6) = BitOf(high, 7)
      BY <1>3
    <3> QED
      BY <1>2, <1>7, <3>1, MaskBits, ByteBits
  <2>2. BitOf(low * 2, 6) = BitOf(byte, 5)
    <3>1. BitOf(low * 2, 6) = BitOf(low, 5)
      BY <1>3
    <3> QED
      BY <1>2, <1>7, <3>1, MaskBits
  <2> QED
    BY <1>4, <1>6, <1>7, <2>1, <2>2
<1>b7. BitOf(invertPinA(byte), 7) = BitOf(byte, 8)
  <2>1. BitOf(high \div 2, 7) = BitOf(byte, 8)
    BY <1>2, <1>3, <1>7, MaskBits
  <2>2. BitOf(low * 2, 7) = 0
    <3>1. BitOf(low * 2, 7) = BitOf(low, 6)
      BY <1>3
    <3> QED
      BY <1>2, <3>1, MaskBits
  <2> QED
    BY <1>4, <1>6, <1>7, <2>1, <2>2
<1>b8. BitOf(invertPinA(byte), 8) = BitOf(byte, 7)
  <2>1. BitOf(high \div 2, 8) = 0
    <3>1. BitOf(high \div 2, 8) = BitOf(high, 9)
      BY <1>3
    <3> QED
      BY <1>2, <1>7, <3>1, MaskBits, ByteBits
  <2>2. BitOf(low * 2, 8) = BitOf(byte, 7)
    <3>1. BitOf(low * 2, 8) = BitOf(low, 7)
      BY <1>3
    <3> QED
      BY <1>2, <1>7, <3>1, MaskBits
  <2> QED
    BY <1>4, <1>6, <1>7, <2>1, <2>2
<1> QED
  BY <1>6, <1>b1, <1>b2, <1>b3, <1>b4, <1>b5, <1>b6, <1>b7, <1>b8

(* Inverting pin B swaps the pairs in each half.                             *)
LEMMA InvertedB ==
  ASSUME NEW byte \in Byte
  PROVE  /\ invertPinB(byte) \in Byte
         /\ BitOf(invertPinB(byte), 1) = BitOf(byte, 3) /\ BitOf(invertPinB(byte), 2) = BitOf(byte, 4)
         /\ BitOf(invertPinB(byte), 3) = BitOf(byte, 1) /\ BitOf(invertPinB(byte), 4) = BitOf(byte, 2)
         /\ BitOf(invertPinB(byte), 5) = BitOf(byte, 7) /\ BitOf(invertPinB(byte), 6) = BitOf(byte, 8)
         /\ BitOf(invertPinB(byte), 7) = BitOf(byte, 5) /\ BitOf(invertPinB(byte), 8) = BitOf(byte, 6)
<1> DEFINE high == BitAnd(byte, MASK_EVEN_B)
           low  == BitAnd(byte, MASK_B)
           n    == BitOr(high \div 4, low * 4)
<1>1. /\ high \in Nat /\ low \in Nat
      /\ high \div 4 \in Nat /\ low * 4 \in Nat
  <2>1. high \in Nat /\ low \in Nat
    BY AndOr
  <2> HIDE DEF high, low
  <2> QED
    BY <2>1, Shifted2
<1>2. \A i \in 1 .. 12 :
        /\ BitOf(high, i) = IF BitOf(byte, i) = 1 /\ BitOf(MASK_EVEN_B, i) = 1 THEN 1 ELSE 0
        /\ BitOf(low, i) = IF BitOf(byte, i) = 1 /\ BitOf(MASK_B, i) = 1 THEN 1 ELSE 0
  BY AndOr
<1>3. /\ \A i \in 1 .. 10 : BitOf(high \div 4, i) = BitOf(high, i + 2)
      /\ \A i \in 1 .. 10 : BitOf(low * 4, i + 2) = BitOf(low, i)
      /\ \A i \in 1 .. 2 : BitOf(low * 4, i) = 0
  <2> HIDE DEF high, low
  <2> QED
    BY <1>1, Shifted2
<1>4. /\ n \in Nat
      /\ \A i \in 1 .. 12 :
           BitOf(n, i) = IF BitOf(high \div 4, i) = 1 \/ BitOf(low * 4, i) = 1 THEN 1 ELSE 0
  <2> HIDE DEF high, low
  <2> QED
    BY AndOr
<1>5. invertPinB(byte) = ToByte(n)
  BY DEF invertPinB
<1> HIDE DEF high, low, n
<1>6. /\ invertPinB(byte) \in Byte
      /\ \A i \in 1 .. 8 : BitOf(invertPinB(byte), i) = BitOf(n, i)
  BY <1>4, <1>5, LowByte
<1>7. \A i \in 1 .. 12 : BitOf(byte, i) = 0 \/ BitOf(byte, i) = 1
  BY ByteBits
<1>b1. BitOf(invertPinB(byte), 1) = BitOf(byte, 3)
  <2>1. BitOf(high \div 4, 1) = BitOf(byte, 3)
    BY <1>2, <1>3, <1>7, MaskBits
  <2>2. BitOf(low * 4, 1) = 0
    BY <1>3
  <2> QED
    BY <1>4, <1>6, <1>7, <2>1, <2>2
<1>b2. BitOf(invertPinB(byte), 2) = BitOf(byte, 4)
  <2>1. BitOf(high \div 4, 2) = BitOf(byte, 4)
    BY <1>2, <1>3, <1>7, MaskBits
  <2>2. BitOf(low * 4, 2) = 0
    BY <1>3
  <2> QED
    BY <1>4, <1>6, <1>7, <2>1, <2>2
<1>b3. BitOf(invertPinB(byte), 3) = BitOf(byte, 1)
  <2>1. BitOf(high \div 4, 3) = 0
    <3>1. BitOf(high \div 4, 3) = BitOf(high, 5)
      BY <1>3
    <3> QED
      BY <1>2, <1>7, <3>1, MaskBits, ByteBits
  <2>2. BitOf(low * 4, 3) = BitOf(byte, 1)
    <3>1. BitOf(low * 4, 3) = BitOf(low, 1)
      BY <1>3
    <3> QED
      BY <1>2, <1>7, <3>1, MaskBits
  <2> QED
    BY <1>4, <1>6, <1>7, <2>1, <2>2
<1>b4. BitOf(invertPinB(byte), 4) = BitOf(byte, 2)
  <2>1. BitOf(high \div 4, 4) = 0
    <3>1. BitOf(high \div 4, 4) = BitOf(high, 6)
      BY <1>3
    <3> QED
      BY <1>2, <1>7, <3>1, MaskBits, ByteBits
  <2>2. BitOf(low * 4, 4) = BitOf(byte, 2)
    <3>1. BitOf(low * 4, 4) = BitOf(low, 2)
      BY <1>3
    <3> QED
      BY <1>2, <1>7, <3>1, MaskBits
  <2> QED
    BY <1>4, <1>6, <1>7, <2>1, <2>2
<1>b5. BitOf(invertPinB(byte), 5) = BitOf(byte, 7)
  <2>1. BitOf(high \div 4, 5) = BitOf(byte, 7)
    BY <1>2, <1>3, <1>7, MaskBits
  <2>2. BitOf(low * 4, 5) = 0
    <3>1. BitOf(low * 4, 5) = BitOf(low, 3)
      BY <1>3
    <3> QED
      BY <1>2, <3>1, MaskBits
  <2> QED
    BY <1>4, <1>6, <1>7, <2>1, <2>2
<1>b6. BitOf(invertPinB(byte), 6) = BitOf(byte, 8)
  <2>1. BitOf(high \div 4, 6) = BitOf(byte, 8)
    BY <1>2, <1>3, <1>7, MaskBits
  <2>2. BitOf(low * 4, 6) = 0
    <3>1. BitOf(low * 4, 6) = BitOf(low, 4)
      BY <1>3
    <3> QED
      BY <1>2, <3>1, MaskBits
  <2> QED
    BY <1>4, <1>6, <1>7, <2>1, <2>2
<1>b7. BitOf(invertPinB(byte), 7) = BitOf(byte, 5)
  <2>1. BitOf(high \div 4, 7) = 0
    <3>1. BitOf(high \div 4, 7) = BitOf(high, 9)
      BY <1>3
    <3> QED
      BY <1>2, <1>7, <3>1, MaskBits, ByteBits
  <2>2. BitOf(low * 4, 7) = BitOf(byte, 5)
    <3>1. BitOf(low * 4, 7) = BitOf(low, 5)
      BY <1>3
    <3> QED
      BY <1>2, <1>7, <3>1, MaskBits
  <2> QED
    BY <1>4, <1>6, <1>7, <2>1, <2>2
<1>b8. BitOf(invertPinB(byte), 8) = BitOf(byte, 6)
  <2>1. BitOf(high \div 4, 8) = 0
    <3>1. BitOf(high \div 4, 8) = BitOf(high, 10)
      BY <1>3
    <3> QED
      BY <1>2, <1>7, <3>1, MaskBits, ByteBits
  <2>2. BitOf(low * 4, 8) = BitOf(byte, 6)
    <3>1. BitOf(low * 4, 8) = BitOf(low, 6)
      BY <1>3
    <3> QED
      BY <1>2, <1>7, <3>1, MaskBits
  <2> QED
    BY <1>4, <1>6, <1>7, <2>1, <2>2
<1> QED
  BY <1>6, <1>b1, <1>b2, <1>b3, <1>b4, <1>b5, <1>b6, <1>b7, <1>b8

(* Inverting pin C swaps the halves.                                       *)
LEMMA InvertedC ==
  ASSUME NEW byte \in Byte
  PROVE  /\ invertPinC(byte) \in Byte
         /\ BitOf(invertPinC(byte), 1) = BitOf(byte, 5) /\ BitOf(invertPinC(byte), 2) = BitOf(byte, 6)
         /\ BitOf(invertPinC(byte), 3) = BitOf(byte, 7) /\ BitOf(invertPinC(byte), 4) = BitOf(byte, 8)
         /\ BitOf(invertPinC(byte), 5) = BitOf(byte, 1) /\ BitOf(invertPinC(byte), 6) = BitOf(byte, 2)
         /\ BitOf(invertPinC(byte), 7) = BitOf(byte, 3) /\ BitOf(invertPinC(byte), 8) = BitOf(byte, 4)
<1> DEFINE n == BitOr(byte \div 16, byte * 16)
<1>1. byte \in Nat
  BY ByteBits
<1>2. /\ \A i \in 1 .. 8 : BitOf(byte \div 16, i) = BitOf(byte, i + 4)
      /\ \A i \in 1 .. 8 : BitOf(byte * 16, i + 4) = BitOf(byte, i)
      /\ \A i \in 1 .. 4 : BitOf(byte * 16, i) = 0
  BY <1>1, Shifted4
<1>3. /\ n \in Nat
      /\ \A i \in 1 .. 12 :
           BitOf(n, i) = IF BitOf(byte \div 16, i) = 1 \/ BitOf(byte * 16, i) = 1 THEN 1 ELSE 0
  BY AndOr
<1>4. invertPinC(byte) = ToByte(n)
  BY DEF invertPinC
<1> HIDE DEF n
<1>5. /\ invertPinC(byte) \in Byte
      /\ \A i \in 1 .. 8 : BitOf(invertPinC(byte), i) = BitOf(n, i)
  BY <1>3, <1>4, LowByte
<1>6. /\ \A i \in 1 .. 12 : BitOf(byte, i) = 0 \/ BitOf(byte, i) = 1
      /\ \A i \in 9 .. 12 : BitOf(byte, i) = 0
  BY ByteBits
<1>b1. BitOf(invertPinC(byte), 1) = BitOf(byte, 5)
  <2>1. BitOf(byte \div 16, 1) = BitOf(byte, 5) /\ BitOf(byte * 16, 1) = 0
    BY <1>2
  <2> QED
    BY <1>3, <1>5, <1>6, <2>1
<1>b2. BitOf(invertPinC(byte), 2) = BitOf(byte, 6)
  <2>1. BitOf(byte \div 16, 2) = BitOf(byte, 6) /\ BitOf(byte * 16, 2) = 0
    BY <1>2
  <2> QED
    BY <1>3, <1>5, <1>6, <2>1
<1>b3. BitOf(invertPinC(byte), 3) = BitOf(byte, 7)
  <2>1. BitOf(byte \div 16, 3) = BitOf(byte, 7) /\ BitOf(byte * 16, 3) = 0
    BY <1>2
  <2> QED
    BY <1>3, <1>5, <1>6, <2>1
<1>b4. BitOf(invertPinC(byte), 4) = BitOf(byte, 8)
  <2>1. BitOf(byte \div 16, 4) = BitOf(byte, 8) /\ BitOf(byte * 16, 4) = 0
    BY <1>2
  <2> QED
    BY <1>3, <1>5, <1>6, <2>1
<1>b5. BitOf(invertPinC(byte), 5) = BitOf(byte, 1)
  <2>1. BitOf(byte \div 16, 5) = 0 /\ BitOf(byte * 16, 5) = BitOf(byte, 1)
    BY <1>2, <1>6
  <2> QED
    BY <1>3, <1>5, <1>6, <2>1
<1>b6. BitOf(invertPinC(byte), 6) = BitOf(byte, 2)
  <2>1. BitOf(byte \div 16, 6) = 0 /\ BitOf(byte * 16, 6) = BitOf(byte, 2)
    BY <1>2, <1>6
  <2> QED
    BY <1>3, <1>5, <1>6, <2>1
<1>b7. BitOf(invertPinC(byte), 7) = BitOf(byte, 3)
  <2>1. BitOf(byte \div 16, 7) = 0 /\ BitOf(byte * 16, 7) = BitOf(byte, 3)
    BY <1>2, <1>6
  <2> QED
    BY <1>3, <1>5, <1>6, <2>1
<1>b8. BitOf(invertPinC(byte), 8) = BitOf(byte, 4)
  <2>1. BitOf(byte \div 16, 8) = 0 /\ BitOf(byte * 16, 8) = BitOf(byte, 4)
    BY <1>2, <1>6
  <2> QED
    BY <1>3, <1>5, <1>6, <2>1
<1> QED
  BY <1>5, <1>b1, <1>b2, <1>b3, <1>b4, <1>b5, <1>b6, <1>b7, <1>b8

LEMMA AllowedBit ==
  ASSUME NEW byte \in Byte, NEW a \in Bit, NEW b \in Bit, NEW c \in Bit
  PROVE  combinationAllowed(byte, a, b, c) <=> BitOf(byte, CombinationIndex(a, b, c) + 1) = 1
<1>1. CombinationIndex(a, b, c) + 1 \in 1 .. 8
  BY DEF CombinationIndex, Bit
<1>2. \A i \in 1 .. 8 : BitWeight[i] = Weight[i]
  BY DEF BitWeight, Weight
<1> QED
  BY <1>1, <1>2 DEF combinationAllowed, BitOf

LEMMA Numbering ==
  /\ CombinationIndex(0, 0, 0) + 1 = 1 /\ CombinationIndex(1, 0, 0) + 1 = 2
  /\ CombinationIndex(0, 1, 0) + 1 = 3 /\ CombinationIndex(1, 1, 0) + 1 = 4
  /\ CombinationIndex(0, 0, 1) + 1 = 5 /\ CombinationIndex(1, 0, 1) + 1 = 6
  /\ CombinationIndex(0, 1, 1) + 1 = 7 /\ CombinationIndex(1, 1, 1) + 1 = 8
  BY DEF CombinationIndex

LEMMA Flipped ==
  /\ 0 \in Bit /\ 1 \in Bit /\ 1 - 0 = 1 /\ 1 - 1 = 0
  /\ \A v \in Bit : v = 0 \/ v = 1
  BY DEF Bit

(* Each inversion is an inverter on its own pin and on no other.           *)
LEMMA InversionsInvert ==
  ASSUME NEW byte \in Byte, NEW a \in Bit, NEW b \in Bit, NEW c \in Bit
  PROVE  /\ combinationAllowed(invertPinA(byte), a, b, c) <=> combinationAllowed(byte, 1 - a, b, c)
         /\ combinationAllowed(invertPinB(byte), a, b, c) <=> combinationAllowed(byte, a, 1 - b, c)
         /\ combinationAllowed(invertPinC(byte), a, b, c) <=> combinationAllowed(byte, a, b, 1 - c)
<1>1. 1 - a \in Bit /\ 1 - b \in Bit /\ 1 - c \in Bit
  BY Flipped
<1>2. combinationAllowed(invertPinA(byte), a, b, c) <=> combinationAllowed(byte, 1 - a, b, c)
  <2>1. BitOf(invertPinA(byte), CombinationIndex(a, b, c) + 1)
          = BitOf(byte, CombinationIndex(1 - a, b, c) + 1)
    BY Flipped, Numbering, InvertedA
  <2> QED
    BY <1>1, <2>1, AllowedBit, InvertedA
<1>3. combinationAllowed(invertPinB(byte), a, b, c) <=> combinationAllowed(byte, a, 1 - b, c)
  <2>1. BitOf(invertPinB(byte), CombinationIndex(a, b, c) + 1)
          = BitOf(byte, CombinationIndex(a, 1 - b, c) + 1)
    BY Flipped, Numbering, InvertedB
  <2> QED
    BY <1>1, <2>1, AllowedBit, InvertedB
<1>4. combinationAllowed(invertPinC(byte), a, b, c) <=> combinationAllowed(byte, a, b, 1 - c)
  <2>1. BitOf(invertPinC(byte), CombinationIndex(a, b, c) + 1)
          = BitOf(byte, CombinationIndex(a, b, 1 - c) + 1)
    BY Flipped, Numbering, InvertedC
  <2> QED
    BY <1>1, <2>1, AllowedBit, InvertedC
<1> QED
  BY <1>2, <1>3, <1>4

InversionInv ==
  /\ original \in Byte
  /\ permuted \in Byte
  /\ InversionIsExact

(* However many inversions are applied to whatever byte, in whatever order,*)
(* the byte is that of the original gate behind inverters on the pins      *)
(* inverted an odd number of times (Virtual3PinGate.cpp, invertPinA/B/C).  *)
THEOREM InversionsAreExact == AlgebraSpec => []InversionIsExact
<1>1. AlgebraInit => InversionInv
  BY DEF AlgebraInit, InversionInv, InversionIsExact, Through
<1>2. InversionInv /\ [AlgebraNext]_algebraVars => InversionInv'
  <2> SUFFICES ASSUME InversionInv, [AlgebraNext]_algebraVars
               PROVE  InversionInv'
    OBVIOUS
  <2>0. \A a, b, c \in Bit :
          combinationAllowed(permuted, a, b, c)
            <=> combinationAllowed(original, Through("A", a), Through("B", b), Through("C", c))
    BY DEF InversionInv, InversionIsExact
  <2>e. \A v \in Bit : 1 - v \in Bit /\ 1 - (1 - v) = v
    BY Flipped
  <2>1. CASE InvertA
    <3>1. permuted' \in Byte /\ original' \in Byte
      BY <2>1, InvertedA DEF InvertA, InversionInv
    <3>2. \A v \in Bit : /\ Through("A", v)' = Through("A", 1 - v)
                         /\ Through("B", v)' = Through("B", v)
                         /\ Through("C", v)' = Through("C", v)
      BY <2>1, <2>e DEF InvertA, Through, Toggle
    <3>3. ASSUME NEW a \in Bit, NEW b \in Bit, NEW c \in Bit
          PROVE  combinationAllowed(permuted, a, b, c)'
                   <=> combinationAllowed(original, Through("A", a), Through("B", b), Through("C", c))'
      <4>1. combinationAllowed(permuted', a, b, c) <=> combinationAllowed(permuted, 1 - a, b, c)
        BY <2>1, InversionsInvert DEF InvertA, InversionInv
      <4> QED
        BY <2>0, <2>1, <2>e, <3>2, <4>1 DEF InvertA
    <3> QED
      BY <3>1, <3>3 DEF InversionInv, InversionIsExact
  <2>2. CASE InvertB
    <3>1. permuted' \in Byte /\ original' \in Byte
      BY <2>2, InvertedB DEF InvertB, InversionInv
    <3>2. \A v \in Bit : /\ Through("A", v)' = Through("A", v)
                         /\ Through("B", v)' = Through("B", 1 - v)
                         /\ Through("C", v)' = Through("C", v)
      BY <2>2, <2>e DEF InvertB, Through, Toggle
    <3>3. ASSUME NEW a \in Bit, NEW b \in Bit, NEW c \in Bit
          PROVE  combinationAllowed(permuted, a, b, c)'
                   <=> combinationAllowed(original, Through("A", a), Through("B", b), Through("C", c))'
      <4>1. combinationAllowed(permuted', a, b, c) <=> combinationAllowed(permuted, a, 1 - b, c)
        BY <2>2, InversionsInvert DEF InvertB, InversionInv
      <4> QED
        BY <2>0, <2>2, <2>e, <3>2, <4>1 DEF InvertB
    <3> QED
      BY <3>1, <3>3 DEF InversionInv, InversionIsExact
  <2>3. CASE InvertC
    <3>1. permuted' \in Byte /\ original' \in Byte
      BY <2>3, InvertedC DEF InvertC, InversionInv
    <3>2. \A v \in Bit : /\ Through("A", v)' = Through("A", v)
                         /\ Through("B", v)' = Through("B", v)
                         /\ Through("C", v)' = Through("C", 1 - v)
      BY <2>3, <2>e DEF InvertC, Through, Toggle
    <3>3. ASSUME NEW a \in Bit, NEW b \in Bit, NEW c \in Bit
          PROVE  combinationAllowed(permuted, a, b, c)'
                   <=> combinationAllowed(original, Through("A", a), Through("B", b), Through("C", c))'
      <4>1. combinationAllowed(permuted', a, b, c) <=> combinationAllowed(permuted, a, b, 1 - c)
        BY <2>3, InversionsInvert DEF InvertC, InversionInv
      <4> QED
        BY <2>0, <2>3, <2>e, <3>2, <4>1 DEF InvertC
    <3> QED
      BY <3>1, <3>3 DEF InversionInv, InversionIsExact
  <2>4. CASE UNCHANGED algebraVars
    BY <2>4 DEF algebraVars, InversionInv, InversionIsExact, Through
  <2> QED
    BY <2>1, <2>2, <2>3, <2>4 DEF AlgebraNext
<1>3. InversionInv => InversionIsExact
  BY DEF InversionInv
<1> QED
  BY <1>1, <1>2, <1>3, PTL DEF AlgebraSpec

=============================================================================
