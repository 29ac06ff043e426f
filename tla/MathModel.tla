----------------------------- MODULE MathModel -----------------------------
(***************************************************************************)
(* A mathematical model under construction: its variables, its equations   *)
(* and the arena of expression nodes its allocator hands out, filled by    *)
(* the parser.  A node's uid is its position in the arena; nothing ever    *)
(* releases a node.                                                        *)
(*                                                                         *)
(* A text is the order in which the parser finishes its subexpressions:    *)
(* "stack" holds the trees finished and not yet used by an operator.       *)
(* Every tree is written by some text, parentheses permitting, and a       *)
(* syntax error may end a text anywhere.  Numbers count by their lowest    *)
(* bit, the only one ever read.                                            *)
(***************************************************************************)
EXTENDS Integers, Sequences, FiniteSets

CONSTANTS
  MAX_VARIABLES_PER_MODEL, MAX_EQUATIONS_PER_MODEL,   \* 8 and 4 in the code
  MAXIMUM_BIT_WIDTH,                                  \* 65536 in the code
  MaxNodes,      \* nodes the allocator can hold
  Numbers,       \* the numbers and
  Operations     \* the binary operators a text may contain

NullNode  == 0
Relation  == {"EQ", "NE", "LT", "GT", "LE", "GE"}
Operation == Relation \union
  {"NONE", "ADD", "SUB", "MUL", "DIV", "MOD", "SHL", "SHR", "BAND", "BOR", "BXOR",
   "AND", "OR", "XOR", "NOT", "CONCAT", "SLICE", "FUNCTION_CALL"}

ASSUME MathModelAssumption ==
  /\ MAX_VARIABLES_PER_MODEL \in Nat
  /\ MAX_EQUATIONS_PER_MODEL \in Nat
  /\ MAXIMUM_BIT_WIDTH \in Nat \ {0}
  /\ MaxNodes \in Nat
  /\ Numbers \subseteq {0, 1}
  /\ Operations \subseteq Operation \ {"NONE", "NOT", "SLICE", "FUNCTION_CALL"}

VARIABLES
  variables,    \* the width of each variable; its uid is its position
  nodes,        \* the arena
  equations,    \* pairs of roots
  stack         \* roots the parser holds, empty between two texts

modelVars == <<variables, nodes, equations, stack>>

NodeRecord ==
  [type : {"VARIABLE", "CONSTANT", "OPERATION"}, operation : Operation,
   left : Nat, right : Nat, variable_uid : Nat, value : {0, 1}]

NodeUid == 1 .. Len(nodes)

(* An operator is younger than its operands and has them all: NOT has one. *)
Founded(node, uid) ==
  /\ node.left < uid
  /\ node.right < uid
  /\ node.type = "OPERATION" =>
       /\ node.left # NullNode
       /\ node.operation = "NOT" \/ node.right # NullNode

ModelTypeOK ==
  /\ variables \in Seq(1 .. MAXIMUM_BIT_WIDTH)
  /\ nodes \in Seq(NodeRecord)
  /\ Len(nodes) <= MaxNodes
  /\ \A n \in NodeUid : Founded(nodes[n], n)
  /\ equations \in Seq([lhs : NodeUid, rhs : NodeUid])
  /\ stack \in Seq(NodeUid)

ModelInit ==
  /\ variables = << >>
  /\ nodes = << >>
  /\ equations = << >>
  /\ stack = << >>

-----------------------------------------------------------------------------
(* Nodes.  A node that is allocated before one that cannot be is lost, and *)
(* the text with it.                                                       *)

VariableNode(uid) ==
  [type |-> "VARIABLE", operation |-> "NONE", left |-> NullNode, right |-> NullNode,
   variable_uid |-> uid, value |-> 0]

ConstantNode(value) ==
  [type |-> "CONSTANT", operation |-> "NONE", left |-> NullNode, right |-> NullNode,
   variable_uid |-> 0, value |-> value]

OperationNode(operation, left, right) ==
  [type |-> "OPERATION", operation |-> operation, left |-> left, right |-> right,
   variable_uid |-> 0, value |-> 0]

Room == MaxNodes - Len(nodes)
NextNode == Len(nodes) + 1

(* Allocates the new nodes, the last of which is the root of what has been *)
(* parsed, and puts that root on what is left of the stack.                *)
Reduce(new, rest) ==
  IF Len(new) <= Room
  THEN /\ nodes' = nodes \o new
       /\ stack' = Append(rest, Len(nodes) + Len(new))
  ELSE /\ nodes' = nodes \o SubSeq(new, 1, Room)
       /\ stack' = << >>

-----------------------------------------------------------------------------
(* The parser. *)

Top  == stack[Len(stack)]
Rest == SubSeq(stack, 1, Len(stack) - 1)

parseNumber(value) ==
  /\ Reduce(<<ConstantNode(value)>>, stack)
  /\ UNCHANGED <<variables, equations>>

parseKnownIdentifier(uid) ==
  /\ Reduce(<<VariableNode(uid)>>, stack)
  /\ UNCHANGED <<variables, equations>>

(* An unknown name becomes a variable of one bit, for good: no later error *)
(* takes it back.                                                          *)
parseNewIdentifier ==
  /\ IF Len(variables) < MAX_VARIABLES_PER_MODEL
     THEN /\ variables' = Append(variables, 1)
          /\ Reduce(<<VariableNode(Len(variables) + 1)>>, stack)
     ELSE /\ stack' = << >>
          /\ UNCHANGED <<variables, nodes>>
  /\ UNCHANGED equations

AfterIdentifier ==
  /\ stack # << >>
  /\ nodes[Top].type = "VARIABLE"
  /\ nodes[Top].operation = "NONE"

(* A call is a variable node under another operation: its type stays       *)
(* VARIABLE, its arguments are skipped over.                               *)
parseCall ==
  /\ AfterIdentifier
  /\ nodes' = [nodes EXCEPT ![Top].operation = "FUNCTION_CALL"]
  /\ UNCHANGED <<variables, equations, stack>>

(* The bounds of a slice stay with its node, where nothing reads them.     *)
parseSlice ==
  /\ AfterIdentifier
  /\ Reduce(<<ConstantNode(0), OperationNode("SLICE", Top, NextNode)>>, Rest)
  /\ UNCHANGED <<variables, equations>>

parseNot ==
  /\ stack # << >>
  /\ Reduce(<<OperationNode("NOT", Top, NullNode)>>, Rest)
  /\ UNCHANGED <<variables, equations>>

parseMinus ==
  /\ stack # << >>
  /\ Reduce(<<ConstantNode(0), OperationNode("SUB", NextNode, Top)>>, Rest)
  /\ UNCHANGED <<variables, equations>>

parseBinary(operation) ==
  /\ Len(stack) >= 2
  /\ Reduce(<<OperationNode(operation, stack[Len(stack) - 1], Top)>>,
            SubSeq(stack, 1, Len(stack) - 2))
  /\ UNCHANGED <<variables, equations>>

parseError ==
  /\ stack # << >>
  /\ stack' = << >>
  /\ UNCHANGED <<variables, nodes, equations>>

-----------------------------------------------------------------------------
(* The model's own operations. *)

addVariable(bit_width) ==
  /\ stack = << >>
  /\ Len(variables) < MAX_VARIABLES_PER_MODEL
  /\ variables' = Append(variables, bit_width)
  /\ UNCHANGED <<nodes, equations, stack>>

addEquation(lhs, rhs) ==
  equations' = IF Len(equations) < MAX_EQUATIONS_PER_MODEL
               THEN Append(equations, [lhs |-> lhs, rhs |-> rhs])
               ELSE equations

(* Fault: a text without a relation becomes an equation of its root with   *)
(* itself.                                                                 *)
parseAndAddEquationFault ==
  /\ Len(stack) = 1
  /\ stack' = << >>
  /\ IF nodes[Top].type = "OPERATION" /\ nodes[Top].operation \in Relation
     THEN addEquation(nodes[Top].left, nodes[Top].right)
     ELSE addEquation(Top, Top)
  /\ UNCHANGED <<variables, nodes>>

(* The end of the text of an equation.  Whichever relation stands at the   *)
(* root, its operands become the sides of an equation; without one the     *)
(* root is set equal to the constant 1.                                    *)
parseAndAddEquation ==
  /\ Len(stack) = 1
  /\ stack' = << >>
  /\ IF nodes[Top].type = "OPERATION" /\ nodes[Top].operation \in Relation
     THEN /\ addEquation(nodes[Top].left, nodes[Top].right)
          /\ UNCHANGED nodes
     ELSE IF Room > 0
     THEN /\ nodes' = Append(nodes, ConstantNode(1))
          /\ addEquation(Top, NextNode)
     ELSE UNCHANGED <<nodes, equations>>
  /\ UNCHANGED variables

ModelNext ==
  \/ \E value \in Numbers : parseNumber(value)
  \/ \E uid \in 1 .. Len(variables) : parseKnownIdentifier(uid)
  \/ parseNewIdentifier
  \/ parseCall
  \/ parseSlice
  \/ parseNot
  \/ parseMinus
  \/ \E operation \in Operations : parseBinary(operation)
  \/ parseError
  \/ \E bit_width \in 1 .. MAXIMUM_BIT_WIDTH : addVariable(bit_width)
  \/ parseAndAddEquation

-----------------------------------------------------------------------------
Parents(n) == { m \in NodeUid : n \in {nodes[m].left, nodes[m].right} }

(* The sides of equations and the places on the parser's stack it takes.   *)
Holders(n) ==
  { h \in {"lhs", "rhs"} \X (1 .. Len(equations)) : equations[h[2]][h[1]] = n }
    \union { h \in {"stack"} \X (1 .. Len(stack)) : stack[h[2]] = n }

Abandoned(n) == Parents(n) = {} /\ Holders(n) = {}

(* Expressions are trees over the variables of the model: no two operands, *)
(* sides of equations or texts share a node, though a text may fail        *)
(* anywhere and a relation at its root is given up for its operands        *)
(* (ExpressionParser's parse functions, MathModel::parseAndAddEquation).   *)
TreesDisjoint ==
  \A n \in NodeUid :
    /\ nodes[n].type = "VARIABLE" => nodes[n].variable_uid \in 1 .. Len(variables)
    /\ nodes[n].left = nodes[n].right => nodes[n].left = NullNode
    /\ Cardinality({ m \in Parents(n) : ~Abandoned(m) }) + Cardinality(Holders(n)) <= 1

=============================================================================
