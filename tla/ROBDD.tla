------------------------------- MODULE ROBDD -------------------------------
(***************************************************************************)
(* The manager of reduced ordered binary decision diagrams: a unique table *)
(* that shares nodes, a computed cache that remembers results, reference   *)
(* counts and a sweep that releases what nobody counts.  A recursive call  *)
(* is a stack of frames, run step by step, because the order in which it   *)
(* reads and writes the tables is what can go wrong.                       *)
(*                                                                         *)
(* initialize asks the allocator for one entry per table and uses 4096 of  *)
(* them.  Either that ends the process, or the memory behind the entries   *)
(* happens to be there; both entries come from the same page and have one  *)
(* size, so entry i of the computed cache is entry i + 1 of the unique     *)
(* table, and there is one table here.                                     *)
(***************************************************************************)
EXTENDS Integers, Sequences

CONSTANTS
  MaxNodes,        \* node slots the allocator has, terminals included
  max_variables,
  TableSize,       \* entries of either table; 4096 in the code
  StackRoom,       \* nested calls the process's stack has room for
  MaxCalls,        \* bound: the calls a client makes
  Ops,             \* the operations a client applies
  OpCode(_),       \* their numbers in enum MathOperation
  UniqueBucket(_, _, _),   \* hashCombine of variable, low and high, masked
  ComputedBucket(_, _, _)  \* hashPair of the operands, ^ op, masked

Slot     == 0 .. MaxNodes - 1
NullNode == -1
Node     == Slot \union {NullNode}
False    == 0   \* terminal_0_
True     == 1   \* terminal_1_
Variable == 0 .. max_variables - 1
Bucket   == 0 .. TableSize - 1

(* The members of an enum have different numbers; 0 is NONE, no operation. *)
ASSUME ROBDDAssumption ==
  /\ MaxNodes \in Nat \ {0, 1}
  /\ max_variables \in Nat
  /\ TableSize \in Nat \ {0}
  /\ StackRoom \in Nat
  /\ MaxCalls \in Nat
  /\ \A op \in Ops \union {"AND", "OR"} : OpCode(op) \in Nat \ {0}
  /\ \A op, other \in Ops \union {"AND", "OR"} : OpCode(op) = OpCode(other) => op = other
  /\ \A v \in Variable, l, h \in Node : UniqueBucket(v, l, h) \in Bucket
  /\ \A a, b \in Node, op \in Ops \union {"AND", "OR"} : ComputedBucket(a, b, op) \in Bucket

VARIABLES
  memory,     \* node slots; a released slot keeps its contents
  allocated,  \* the slots in use
  table,      \* the memory of both tables
  frames,     \* the calls under way, innermost last
  value,      \* the node the last call returned
  call,       \* the call the client made last
  cursor,     \* the entry garbageCollect is at, TableSize when it is not running
  held,       \* history: the nodes the client was given
  made,       \* history: the kinds of calls made, "collect" for garbageCollect, "clash"
              \*   for making a node whose variable has the number of an operation
  calls,      \* the number of them
  outcome     \* "running", "crashed" or "overflow"

store == <<memory, allocated, table>>
client == <<call, held, made, calls>>
vars == <<memory, allocated, table, frames, value, call, cursor, held, made, calls, outcome>>

Operation == Ops \union {"AND", "OR"}   \* the abstractions apply the last two
OperationCodes == { OpCode(op) : op \in Operation }
Empty == [key |-> 0, low |-> NullNode, high |-> NullNode, result |-> NullNode]
Entry == [key : Nat, low : Node, high : Node, result : Node]
Kind  == {"mkNode", "apply", "restrict", "abstract"}
Frame == [kind : Kind \ {"mkNode"}, a : Slot, b : Slot, op : Operation, var : Nat,
          bit : BOOLEAN, stage : {"enter", "low", "high"}, low : Node]
Call  == [kind : Kind \union {"none"}, a : Node, b : Node, op : Operation,
          var : Nat, bit : BOOLEAN]

TypeOK ==
  /\ memory \in [Slot -> [var : Nat, low : Node, high : Node, ref : Int]]
  /\ allocated \subseteq Slot
  /\ {False, True} \subseteq allocated
  /\ \A n \in allocated \ {False, True} :
       memory[n].var \in Variable /\ memory[n].low \in Slot /\ memory[n].high \in Slot
  /\ table \in [0 .. TableSize -> Entry]
  /\ frames \in Seq(Frame)
  /\ value \in Node
  /\ call \in Call
  /\ cursor \in 0 .. TableSize
  /\ held \subseteq Node
  /\ made \subseteq Kind \union {"collect", "clash"}
  /\ calls \in Nat
  /\ outcome \in {"running", "crashed", "overflow"}

NoCall == [kind |-> "none", a |-> NullNode, b |-> NullNode, op |-> "AND", var |-> 0, bit |-> FALSE]

(* The constructor and initialize. *)
Init ==
  /\ memory = [n \in Slot |-> [var |-> 0, low |-> NullNode, high |-> NullNode,
                               ref |-> IF n \in {False, True} THEN 1 ELSE 0]]
  /\ allocated = {False, True}
  /\ table = [i \in 0 .. TableSize |-> Empty]
  /\ frames = << >>
  /\ value = NullNode
  /\ call = NoCall
  /\ cursor = TableSize
  /\ held = {False, True}
  /\ made = {}
  /\ calls = 0
  /\ outcome \in {"running", "crashed"}

-----------------------------------------------------------------------------
(* Nodes and table entries. *)

IsTerminal(n) == n \in {False, True}
Terminal(bit) == IF bit THEN True ELSE False

Combine(op, x, y) ==
  CASE op \in {"AND", "BAND"}       -> x /\ y
    [] op \in {"OR", "BOR"}         -> x \/ y
    [] op \in {"XOR", "BXOR", "NE"} -> x # y
    [] op = "EQ"                    -> x = y
    [] op = "NOT"                   -> ~x
    [] OTHER                        -> FALSE

AddRef(mem, n, d) == IF n = NullNode THEN mem ELSE [mem EXCEPT ![n].ref = @ + d]

UniqueAt(v, l, h)     == UniqueBucket(v, l, h)
ComputedAt(a, b, op)  == ComputedBucket(a, b, op) + 1

Matches(e, key, l, h) == e.key = key /\ e.low = l /\ e.high = h

(* Fault: a new node starts without the reference of its caller.           *)
LinkFault(mem, n, v, l, h) ==
  AddRef(AddRef([mem EXCEPT ![n] = [var |-> v, low |-> l, high |-> h, ref |-> 0]], l, 1), h, 1)
Link(mem, n, v, l, h) ==
  AddRef(AddRef([mem EXCEPT ![n] = [var |-> v, low |-> l, high |-> h, ref |-> 1]], l, 1), h, 1)

FreeSlots == Slot \ allocated
FirstFree == CHOOSE n \in FreeSlots : \A m \in FreeSlots : n <= m

(* findOrAddUnique: what it leaves behind and the node it returns.  A      *)
(* bucket that holds another key sends the walk to a null next entry.      *)
Unchanged(n) == [memory |-> memory, allocated |-> allocated, table |-> table, node |-> n, ok |-> TRUE]
findOrAddUnique(v, l, h) ==
  LET at == UniqueAt(v, l, h)
      e  == table[at]
  IN  CASE l = h -> Unchanged(l)
        [] l # h /\ e.result # NullNode ->
             [Unchanged(e.result) EXCEPT !.memory = AddRef(memory, e.result, 1),
                                         !.ok = Matches(e, v, l, h)]
        [] l # h /\ e.result = NullNode /\ FreeSlots = {} -> Unchanged(NullNode)
        [] OTHER ->
             IF NullNode \in {l, h} THEN [Unchanged(NullNode) EXCEPT !.ok = FALSE]
             ELSE [memory    |-> Link(memory, FirstFree, v, l, h),
                   allocated |-> allocated \union {FirstFree},
                   table     |-> [table EXCEPT ![at] = [key |-> v, low |-> l, high |-> h,
                                                        result |-> FirstFree]],
                   node |-> FirstFree, ok |-> TRUE]

-----------------------------------------------------------------------------
(* Calls and returns. *)

Top == frames[Len(frames)]
Below == SubSeq(frames, 1, Len(frames) - 1)
Running == outcome = "running" /\ frames # << >>

Crash ==
  /\ outcome' = "crashed"
  /\ UNCHANGED <<store, frames, value, cursor, client>>

(* The innermost call returns n; the outermost hands it to the client.     *)
Return(n) ==
  /\ frames' = Below
  /\ value' = n
  /\ held' = IF Below = << >> THEN held \union {n} ELSE held
  /\ UNCHANGED <<call, made, calls, cursor, outcome>>

NewFrame(kind, a, b, op, v, bit) ==
  [kind |-> kind, a |-> a, b |-> b, op |-> op, var |-> v, bit |-> bit,
   stage |-> "enter", low |-> NullNode]

(* The innermost call, now updated to f, calls g.                          *)
Invoke(f, g) ==
  /\ IF Len(frames) < StackRoom
     THEN frames' = Append(Append(Below, f), g) /\ UNCHANGED outcome
     ELSE outcome' = "overflow" /\ UNCHANGED frames
  /\ UNCHANGED <<store, value, cursor, client>>

(* The cofactors of computeApply.  The second operand is considered only   *)
(* when its variable comes no later, and is opened only when it is on top. *)
Var(n) == memory[n].var
Opens(a, b)      == ~IsTerminal(a) /\ (~IsTerminal(b) \/ Var(a) < Var(b))
(* Fault: a second operand below a terminal first one stays closed.        *)
ConsidersFault(a, b) == ~IsTerminal(b) /\ ~IsTerminal(a) /\ Var(b) <= Var(a)
Considers(a, b)  == ~IsTerminal(b) /\ (IsTerminal(a) \/ Var(b) <= Var(a))
TopVar(a, b) ==
  LET top == IF Opens(a, b) THEN Var(a) ELSE 0
  IN  IF Considers(a, b) /\ Var(b) > top THEN Var(b) ELSE top
(* Fault: the second operand is opened whatever is on top.                 *)
OpensSecondFault(a, b) == Considers(a, b)
OpensSecond(a, b) == Considers(a, b) /\ Var(b) = TopVar(a, b)

(* The recursive call of frame f for the low or the high side.             *)
Side(n, high) == IF high THEN memory[n].high ELSE memory[n].low
SubCall(f, high) ==
  [f EXCEPT !.a = IF f.kind # "apply" \/ Opens(f.a, f.b) THEN Side(f.a, high) ELSE f.a,
            !.b = IF f.kind = "apply" /\ OpensSecond(f.a, f.b) THEN Side(f.b, high) ELSE f.b,
            !.stage = "enter", !.low = NullNode]

-----------------------------------------------------------------------------
(* The first statements of the recursive calls. *)

ApplyTerminals ==
  /\ Running
  /\ Top.kind = "apply" /\ Top.stage = "enter"
  /\ IsTerminal(Top.a) /\ IsTerminal(Top.b)
  /\ Return(Terminal(Combine(Top.op, Top.a = True, Top.b = True)))
  /\ UNCHANGED store

ApplyLookup ==
  LET e == table[ComputedAt(Top.a, Top.b, Top.op)]
  IN  /\ Running
      /\ Top.kind = "apply" /\ Top.stage = "enter"
      /\ ~(IsTerminal(Top.a) /\ IsTerminal(Top.b))
      /\ \/ /\ e.result = NullNode
            /\ Invoke([Top EXCEPT !.stage = "low"], SubCall(Top, FALSE))
         \/ /\ e.result # NullNode
            /\ Matches(e, OpCode(Top.op), Top.a, Top.b)
            /\ memory' = AddRef(memory, e.result, 1)
            /\ Return(e.result)
            /\ UNCHANGED <<allocated, table>>
         \/ /\ e.result # NullNode
            /\ ~Matches(e, OpCode(Top.op), Top.a, Top.b)
            /\ Crash

(* restrict reaches a terminal or its variable.                            *)
RestrictEnter ==
  /\ Running
  /\ Top.kind = "restrict" /\ Top.stage = "enter"
  /\ IF ~IsTerminal(Top.a) /\ Var(Top.a) # Top.var
     THEN Invoke([Top EXCEPT !.stage = "low"], SubCall(Top, FALSE))
     ELSE LET n == IF IsTerminal(Top.a) THEN Top.a ELSE Side(Top.a, Top.bit)
          IN  /\ memory' = AddRef(memory, n, 1)
              /\ Return(n)
              /\ UNCHANGED <<allocated, table>>

(* Fault: a node at the variable itself is taken for one below it.         *)
BeyondFault(n, v) == IsTerminal(n) \/ Var(n) >= v
Beyond(n, v)      == IsTerminal(n) \/ Var(n) > v

(* existsAbstract (op is OR) and forallAbstract (op is AND): at the        *)
(* variable the two sides are combined, below it nothing is done.          *)
AbstractEnter ==
  /\ Running
  /\ Top.kind = "abstract" /\ Top.stage = "enter"
  /\ \/ /\ Beyond(Top.a, Top.var)
        /\ memory' = AddRef(memory, Top.a, 1)
        /\ Return(Top.a)
        /\ UNCHANGED <<allocated, table>>
     \/ /\ ~Beyond(Top.a, Top.var) /\ Var(Top.a) = Top.var
        /\ frames' = Append(Below, [Top EXCEPT !.kind = "apply", !.a = Side(Top.a, FALSE),
                                               !.b = Side(Top.a, TRUE)])
        /\ UNCHANGED <<store, value, cursor, outcome, client>>
     \/ /\ ~Beyond(Top.a, Top.var) /\ Var(Top.a) # Top.var
        /\ Invoke([Top EXCEPT !.stage = "low"], SubCall(Top, FALSE))

(* The low side has returned.                                              *)
LowDone ==
  /\ Running
  /\ Top.stage = "low"
  /\ Invoke([Top EXCEPT !.stage = "high", !.low = value], SubCall(Top, TRUE))

(* The high side has returned: the node is made, the two sides are let go  *)
(* and computeApply writes the table entry it found empty on its way in,   *)
(* whatever has been put there since.                                      *)
HighDone ==
  LET v   == IF Top.kind = "apply" THEN TopVar(Top.a, Top.b) ELSE Var(Top.a)
      new == findOrAddUnique(v, Top.low, value)
      letGo == AddRef(AddRef(new.memory, Top.low, -1), value, -1)
  IN  /\ Running
      /\ Top.stage = "high"
      /\ IF ~new.ok THEN Crash
         ELSE /\ allocated' = new.allocated
              /\ IF Top.kind = "apply"
                 THEN /\ memory' = AddRef(letGo, new.node, 1)
                      /\ table' = [new.table EXCEPT ![ComputedAt(Top.a, Top.b, Top.op)] =
                                     [key |-> OpCode(Top.op), low |-> Top.a, high |-> Top.b,
                                      result |-> new.node]]
                 ELSE memory' = letGo /\ table' = new.table
              /\ Return(new.node)

-----------------------------------------------------------------------------
(* The client. *)

Idle == outcome = "running" /\ frames = << >> /\ cursor = TableSize

Record(c, kind) ==
  /\ calls < MaxCalls
  /\ calls' = calls + 1
  /\ call' = c
  /\ made' = made \union {kind}

(* A node over any two that the client has been given, null included.      *)
mkNode ==
  \E v \in 0 .. max_variables, low \in held, high \in held :
    LET new == findOrAddUnique(v, low, high)
    IN  /\ Idle
        /\ Record([NoCall EXCEPT !.kind = "mkNode", !.a = low, !.b = high, !.var = v],
                  IF v \in OperationCodes THEN "clash" ELSE "mkNode")
        /\ IF v >= max_variables
           THEN value' = NullNode /\ UNCHANGED <<store, outcome>>
           ELSE /\ memory' = new.memory /\ allocated' = new.allocated /\ table' = new.table
                /\ value' = IF new.ok THEN new.node ELSE NullNode
                /\ outcome' = IF new.ok THEN outcome ELSE "crashed"
        /\ held' = held \union {value'}
        /\ UNCHANGED <<frames, cursor>>

(* A call of a recursive operation; with a null operand it returns null.   *)
Begin(kind, a, b, op, v, bit) ==
  /\ Idle
  /\ Record([kind |-> kind, a |-> a, b |-> b, op |-> op, var |-> v, bit |-> bit], kind)
  /\ IF NullNode \in {a, b}
     THEN value' = NullNode /\ held' = held \union {NullNode} /\ UNCHANGED frames
     ELSE frames' = <<NewFrame(kind, a, b, op, v, bit)>> /\ UNCHANGED <<value, held>>
  /\ UNCHANGED <<store, cursor, outcome>>

(* The references apply takes on its operands are given back at its end,   *)
(* and nothing reads a count in between.                                   *)
apply == \E a, b \in held, op \in Ops : Begin("apply", a, b, op, 0, FALSE)
restrict ==
  \E a \in held, v \in Variable, bit \in BOOLEAN : Begin("restrict", a, a, "AND", v, bit)
existsAbstract == \E a \in held, v \in Variable : Begin("abstract", a, a, "OR", v, FALSE)
forallAbstract == \E a \in held, v \in Variable : Begin("abstract", a, a, "AND", v, FALSE)

garbageCollect ==
  /\ Idle
  /\ cursor' = 0
  /\ call' = NoCall
  /\ made' = made \union {"collect"}
  /\ UNCHANGED <<store, frames, value, held, calls, outcome>>

(* The sweep's next entry with a node: one that nobody counts lets its     *)
(* children go and is released; who still points to it is not looked at.   *)
(* Fault: the terminals are not exempt.                                    *)
UncountedFault(n) == memory[n].ref = 0
Uncounted(n)      == ~IsTerminal(n) /\ memory[n].ref = 0

FilledFrom(i) == {j \in i .. TableSize - 1 : table[j].result # NullNode}

CollectEntry ==
  \E i \in FilledFrom(cursor) :
    LET n == table[i].result
    IN  /\ outcome = "running"
        /\ \A j \in FilledFrom(cursor) : i <= j
        /\ IF Uncounted(n)
           THEN /\ memory' = AddRef(AddRef(memory, memory[n].low, -1), memory[n].high, -1)
                /\ allocated' = allocated \ {n}
                /\ table' = [table EXCEPT ![i].result = NullNode]
           ELSE UNCHANGED store
        /\ cursor' = i + 1
        /\ UNCHANGED <<frames, value, client, outcome>>

CollectDone ==
  /\ outcome = "running"
  /\ cursor < TableSize
  /\ FilledFrom(cursor) = {}
  /\ cursor' = TableSize
  /\ UNCHANGED <<store, frames, value, client, outcome>>

Recursion ==
  ApplyTerminals \/ ApplyLookup \/ RestrictEnter \/ AbstractEnter \/ LowDone \/ HighDone

Next ==
  \/ mkNode \/ apply \/ restrict \/ existsAbstract \/ forallAbstract
  \/ garbageCollect \/ CollectEntry \/ CollectDone \/ Recursion

Spec == Init /\ [][Next]_vars

-----------------------------------------------------------------------------
(* Invariants.                                                             *)

(* What is stated of diagrams is stated for clients that collect nothing   *)
(* once they restrict or abstract, and make no node whose variable has the *)
(* number of an operation.  Where both sides of a node come out the same,  *)
(* restrict and the abstractions drop a count too many: a new node is      *)
(* handed out with none, and garbageCollect releases it (restrict, then    *)
(* findOrAddUnique).  And the two tables share memory, in which an entry   *)
(* for a variable and one for an operation of that number look the same.   *)
SafeClient ==
  /\ "collect" \in made => made \intersect {"restrict", "abstract"} = {}
  /\ "clash" \notin made

(* The value of the diagram under n for the assignment that makes exactly  *)
(* the variables of s true.                                                *)
Holds(n, s) ==
  LET walk[m \in allocated] ==
        IF IsTerminal(m) THEN m = True ELSE walk[Side(m, Var(m) \in s)]
  IN  walk[n]

(* The variables grow from m to its sides, as far as those are no          *)
(* terminals.                                                              *)
GrowsAt(m) == \A high \in BOOLEAN :
  LET c == Side(m, high) IN IsTerminal(c) \/ Var(m) < Var(c)

(* They do on every path from n.                                           *)
OrderedFrom(n) ==
  LET ordered[m \in allocated] ==
        IsTerminal(m) \/ (GrowsAt(m) /\ ordered[Side(m, FALSE)] /\ ordered[Side(m, TRUE)])
  IN  ordered[n]

(* The same with variable v fixed.                                         *)
Fixed(n, v, bit, s) == Holds(n, IF bit THEN s \union {v} ELSE s \ {v})

Returned(kind) == Idle /\ call.kind = kind /\ value # NullNode

(* Whatever apply returns computes its operation on its operands, even for *)
(* diagrams whose variables are out of order, through shared nodes, cache  *)
(* hits and table entries overwritten behind the recursion's back          *)
(* (ROBDD.cpp, computeApply).                                              *)
ApplyComputes ==
  SafeClient /\ Returned("apply") =>
    \A s \in SUBSET Variable :
      Holds(value, s) <=> Combine(call.op, Holds(call.a, s), Holds(call.b, s))

(* restrict, existsAbstract and forallAbstract give the cofactor and the   *)
(* quantification of a diagram whose variables are in order.  On others,   *)
(* which computeApply makes, they do not (ROBDD.cpp, restrict and the      *)
(* abstractions).                                                          *)
QuantifiersCompute ==
  SafeClient =>
    /\ Returned("restrict") /\ OrderedFrom(call.a) =>
         \A s \in SUBSET Variable : Holds(value, s) <=> Fixed(call.a, call.var, call.bit, s)
    /\ Returned("abstract") /\ OrderedFrom(call.a) =>
         \A s \in SUBSET Variable :
           Holds(value, s) <=>
             Combine(call.op, Fixed(call.a, call.var, FALSE, s), Fixed(call.a, call.var, TRUE, s))

(* With stack for two calls per node, a call runs out of it only where     *)
(* computeApply met an inner node left and a terminal right, a pair it     *)
(* calls itself with again; every other recursion gets smaller (ROBDD.cpp, *)
(* the cofactors of computeApply).                                         *)
RecursionShrinks ==
  SafeClient /\ StackRoom >= 2 * MaxNodes =>
    (outcome = "overflow" => Top.kind = "apply" /\ ~IsTerminal(Top.a) /\ IsTerminal(Top.b))

(* What a node, a table entry or the client points to is not released      *)
(* (ROBDD.cpp, garbageCollect).                                            *)
NothingDangles ==
  SafeClient =>
    /\ held \subseteq allocated \union {NullNode}
    /\ \A n \in allocated \ {False, True} : {memory[n].low, memory[n].high} \subseteq allocated
    /\ \A i \in 0 .. TableSize : table[i].result \in allocated \union {NullNode}

=============================================================================
