---------------------------- MODULE ROBDD_proofs ----------------------------
(***************************************************************************)
(* Proofs about the manager of decision diagrams, for any number of nodes, *)
(* variables, table entries and calls and any hash functions.              *)
(***************************************************************************)
EXTENDS ROBDD, Counting, SequenceTheorems

-----------------------------------------------------------------------------
(* Diagrams.  While no slot is used twice a node is younger than its       *)
(* sides, so that what is defined by recursion over a diagram exists.      *)

(* No variable of a node has the number of an operation.                   *)
Plain == Variable \ OperationCodes

Diagram(mem, D) ==
  /\ \E k \in 2 .. MaxNodes : D = 0 .. k - 1
  /\ mem[False].var = 0 /\ mem[True].var = 0
  /\ \A n \in D \ {False, True} :
       mem[n].var \in Plain /\ mem[n].low \in 0 .. n - 1 /\ mem[n].high \in 0 .. n - 1

(* A recursion in which every value depends on those of smaller numbers    *)
(* only has a solution.                                                    *)
LooksBelow(H, D) ==
  \A f, g \in [D -> BOOLEAN], n \in D :
    (\A m \in D : m < n => f[m] = g[m]) => H[f][n] = H[g][n]

LEMMA RecursionBelow ==
  ASSUME NEW k \in Nat \ {0}, NEW D, D = 0 .. k - 1,
         NEW H \in [[D -> BOOLEAN] -> [D -> BOOLEAN]], LooksBelow(H, D)
  PROVE  \E f \in [D -> BOOLEAN] : f = H[f]
<1> DEFINE Solves(f, n) == \A m \in D : m < n => f[m] = H[f][m]
           T == { n \in 0 .. k : \E f \in [D -> BOOLEAN] : Solves(f, n) }
<1>1. 0 \in T
  <2> DEFINE f == [m \in D |-> TRUE]
  <2>1. f \in [D -> BOOLEAN]
    OBVIOUS
  <2> HIDE DEF f
  <2>3. \A m \in D : ~(m < 0)
    OBVIOUS
  <2>4. Solves(f, 0)
    BY <2>3
  <2> HIDE DEF Solves
  <2>2. 0 \in 0 .. k
    OBVIOUS
  <2> QED
    BY <2>1, <2>2, <2>4
<1>2. ASSUME NEW n \in T, n < k
      PROVE  n + 1 \in T
  <2>1. PICK f \in [D -> BOOLEAN] : Solves(f, n)
    OBVIOUS
  <2>2. n \in D /\ n \in Nat /\ n + 1 \in 0 .. k
    BY <1>2
  <2> DEFINE g == [f EXCEPT ![n] = H[f][n]]
  <2>3. H[f] \in [D -> BOOLEAN]
    OBVIOUS
  <2>4. g \in [D -> BOOLEAN] /\ g[n] = H[f][n] /\ \A m \in D : m < n => f[m] = g[m]
    BY <2>2, <2>3
  <2> HIDE DEF g
  <2>5. ASSUME NEW m \in D, m < n + 1
        PROVE  g[m] = H[g][m]
    <3>1. m < n \/ m = n
      BY <2>2, <2>5
    <3>2. \A j \in D : j < m => f[j] = g[j]
      BY <2>2, <2>4, <3>1
    <3>3. H[f][m] = H[g][m]
      BY <2>4, <3>2, ZenonT(60) DEF LooksBelow
    <3>4. m < n => f[m] = H[f][m]
      BY <2>1
    <3> QED
      BY <2>4, <3>1, <3>3, <3>4
  <2>6. Solves(g, n + 1)
    BY <2>5
  <2> HIDE DEF Solves
  <2> QED
    BY <2>2, <2>4, <2>6
<1>3. T = 0 .. k
  <2>1. T \subseteq 0 .. k
    OBVIOUS
  <2> HIDE DEF T
  <2> QED
    BY <1>1, <1>2, <2>1, AllReached
<1>4. PICK f \in [D -> BOOLEAN] : Solves(f, k)
  <2>1. k \in 0 .. k
    OBVIOUS
  <2>2. k \in T
    <3> HIDE DEF T
    <3> QED
      BY <1>3, <2>1
  <2> HIDE DEF Solves
  <2> QED
    BY <2>2
<1>5. \A m \in D : f[m] = H[f][m]
  BY <1>4
<1>6. H[f] \in [D -> BOOLEAN]
  OBVIOUS
<1>7. f = H[f]
  BY <1>5, <1>6
<1> QED
  BY <1>7

LEMMA DiagramShape ==
  ASSUME NEW mem, NEW D, Diagram(mem, D)
  PROVE  /\ \E k \in Nat \ {0} : D = 0 .. k - 1
         /\ D \subseteq Slot /\ D \subseteq Nat
         /\ False \in D /\ True \in D
         /\ \A n \in D : ~IsTerminal(n) =>
              /\ mem[n].var \in Plain /\ mem[n].var \in Variable
              /\ mem[n].low \in D /\ mem[n].high \in D
              /\ mem[n].low < n /\ mem[n].high < n
<1>1. PICK k \in 2 .. MaxNodes : D = 0 .. k - 1
  BY DEF Diagram
<1>2. MaxNodes \in Nat
  BY ROBDDAssumption
<1>3. D \subseteq Slot /\ D \subseteq Nat /\ False \in D /\ True \in D
  BY <1>1, <1>2 DEF Slot, False, True
<1>4. ASSUME NEW n \in D, ~IsTerminal(n)
      PROVE  /\ mem[n].var \in Plain /\ mem[n].var \in Variable
             /\ mem[n].low \in D /\ mem[n].high \in D
             /\ mem[n].low < n /\ mem[n].high < n
  <2>1. mem[n].var \in Plain /\ mem[n].low \in 0 .. n - 1 /\ mem[n].high \in 0 .. n - 1
    BY <1>4 DEF Diagram, IsTerminal
  <2>4. mem[n].var \in Variable
    BY <2>1 DEF Plain
  <2>2. n \in 0 .. k - 1 /\ k \in Nat
    BY <1>1, <1>2
  <2>3. \A m \in 0 .. n - 1 : m \in 0 .. k - 1 /\ m < n
    BY <2>2
  <2> QED
    BY <1>1, <2>1, <2>3, <2>4
<1>5. k \in Nat \ {0}
  BY <1>2
<1> QED
  BY <1>1, <1>3, <1>4, <1>5

(* What lies below a node, and what a diagram says, as functions of the    *)
(* memory.                                                                 *)
Down(mem, n, high) == IF high THEN mem[n].high ELSE mem[n].low

Valued(f, mem, D, s) ==
  f = [m \in D |-> IF IsTerminal(m) THEN m = True ELSE f[Down(mem, m, mem[m].var \in s)]]
WalkOf(mem, D, s) == CHOOSE f : Valued(f, mem, D, s)
Val(mem, D, n, s) == WalkOf(mem, D, s)[n]

GrowsOn(mem, m) == \A high \in BOOLEAN :
  IsTerminal(Down(mem, m, high)) \/ mem[m].var < mem[Down(mem, m, high)].var
InOrder(f, mem, D) ==
  f = [m \in D |-> \/ IsTerminal(m)
                   \/ GrowsOn(mem, m) /\ f[Down(mem, m, FALSE)] /\ f[Down(mem, m, TRUE)]]
OrderOf(mem, D) == CHOOSE f : InOrder(f, mem, D)
Ordered(mem, D, n) == OrderOf(mem, D)[n]

LEMMA HoldsIsVal ==
  /\ \A n, s : Holds(n, s) = Val(memory, allocated, n, s)
  /\ \A n : OrderedFrom(n) = Ordered(memory, allocated, n)
<1>1. ASSUME NEW n, NEW s
      PROVE  Holds(n, s) = Val(memory, allocated, n, s)
  BY DEF Holds, Val, WalkOf, Valued, Side, Var, Down
<1>2. ASSUME NEW n
      PROVE  OrderedFrom(n) = Ordered(memory, allocated, n)
  BY DEF OrderedFrom, Ordered, OrderOf, InOrder, GrowsAt, GrowsOn, Side, Var, Down
<1> QED
  BY <1>1, <1>2

LEMMA ValEquation ==
  ASSUME NEW mem, NEW D, Diagram(mem, D), NEW s
  PROVE  \A n \in D :
           /\ Val(mem, D, n, s) \in BOOLEAN
           /\ Val(mem, D, n, s) = IF IsTerminal(n) THEN n = True
                                  ELSE Val(mem, D, Down(mem, n, mem[n].var \in s), s)
<1> DEFINE next(m) == Down(mem, m, mem[m].var \in s)
           H == [f \in [D -> BOOLEAN] |->
                   [m \in D |-> IF IsTerminal(m) THEN m = True ELSE f[next(m)]]]
<1>1. PICK k \in Nat \ {0} : D = 0 .. k - 1
  BY DiagramShape
<1>2. \A m \in D : m \in Nat /\ (~IsTerminal(m) => next(m) \in D /\ next(m) < m)
  BY DiagramShape DEF Down
<1> HIDE DEF next
<1>3. H \in [[D -> BOOLEAN] -> [D -> BOOLEAN]]
  BY <1>2
<1>4. ASSUME NEW f \in [D -> BOOLEAN], NEW g \in [D -> BOOLEAN], NEW n \in D,
             \A m \in D : m < n => f[m] = g[m]
      PROVE  H[f][n] = H[g][n]
  <2>1. ~IsTerminal(n) => f[next(n)] = g[next(n)]
    BY <1>2, <1>4
  <2> QED
    BY <2>1
<1>5. \E f \in [D -> BOOLEAN] : f = H[f]
  <2> HIDE DEF H
  <2>1. LooksBelow(H, D)
    BY <1>4 DEF LooksBelow
  <2> QED
    BY <1>1, <1>3, <2>1, RecursionBelow
<1>6. \E f : Valued(f, mem, D, s)
  <2>1. PICK f \in [D -> BOOLEAN] : f = H[f]
    BY <1>5
  <2>2. Valued(f, mem, D, s)
    BY <2>1 DEF Valued, next
  <2> QED
    BY <2>2
<1> DEFINE w == WalkOf(mem, D, s)
<1>7. w = [m \in D |-> IF IsTerminal(m) THEN m = True ELSE w[next(m)]]
  <2>1. Valued(w, mem, D, s)
    BY <1>6 DEF WalkOf
  <2> HIDE DEF w
  <2> QED
    BY <2>1 DEF Valued, next
<1> HIDE DEF w
<1>8. \A n \in D : w[n] \in BOOLEAN
  <2> DEFINE Bad == { n \in D : w[n] \notin BOOLEAN }
  <2>1. SUFFICES ASSUME Bad # {} PROVE FALSE
    OBVIOUS
  <2>2. Bad \subseteq Nat
    BY <1>2
  <2>3. PICK n \in Bad : \A m \in Bad : n <= m
    <3> HIDE DEF Bad
    <3> QED
      BY <2>1, <2>2, LeastExists
  <2>4. n \in D /\ ~IsTerminal(n)
    BY <1>7
  <2>5. next(n) \in D /\ next(n) \notin Bad
    BY <1>2, <2>3, <2>4
  <2> QED
    BY <1>7, <2>3, <2>4, <2>5
<1>9. \A n \in D : w[n] = IF IsTerminal(n) THEN n = True ELSE w[next(n)]
  BY <1>7
<1> QED
  BY <1>8, <1>9 DEF Val, w, next

LEMMA OrderEquation ==
  ASSUME NEW mem, NEW D, Diagram(mem, D)
  PROVE  \A n \in D :
           Ordered(mem, D, n) <=>
             \/ IsTerminal(n)
             \/ /\ GrowsOn(mem, n)
                /\ Ordered(mem, D, mem[n].low) /\ Ordered(mem, D, mem[n].high)
<1> DEFINE lo(m) == Down(mem, m, FALSE)
           hi(m) == Down(mem, m, TRUE)
           H == [f \in [D -> BOOLEAN] |->
                   [m \in D |-> IsTerminal(m) \/ (GrowsOn(mem, m) /\ f[lo(m)] /\ f[hi(m)])]]
<1>1. PICK k \in Nat \ {0} : D = 0 .. k - 1
  BY DiagramShape
<1>2. \A m \in D : ~IsTerminal(m) => lo(m) \in D /\ lo(m) < m /\ hi(m) \in D /\ hi(m) < m
  BY DiagramShape DEF Down
<1>3. \A m \in D : lo(m) = mem[m].low /\ hi(m) = mem[m].high
  BY DEF Down
<1> HIDE DEF lo, hi
<1>4. H \in [[D -> BOOLEAN] -> [D -> BOOLEAN]]
  OBVIOUS
<1>5. ASSUME NEW f \in [D -> BOOLEAN], NEW g \in [D -> BOOLEAN], NEW n \in D,
             \A m \in D : m < n => f[m] = g[m]
      PROVE  H[f][n] = H[g][n]
  <2>1. ~IsTerminal(n) => f[lo(n)] = g[lo(n)] /\ f[hi(n)] = g[hi(n)]
    BY <1>2, <1>5
  <2> QED
    BY <2>1
<1>6. \E f \in [D -> BOOLEAN] : f = H[f]
  <2> HIDE DEF H
  <2>1. LooksBelow(H, D)
    BY <1>5 DEF LooksBelow
  <2> QED
    BY <1>1, <1>4, <2>1, RecursionBelow
<1>7. \E f : InOrder(f, mem, D)
  <2>1. PICK f \in [D -> BOOLEAN] : f = H[f]
    BY <1>6
  <2>2. InOrder(f, mem, D)
    BY <2>1 DEF InOrder, lo, hi
  <2> QED
    BY <2>2
<1> DEFINE w == OrderOf(mem, D)
<1>8. w = [m \in D |-> IsTerminal(m) \/ (GrowsOn(mem, m) /\ w[lo(m)] /\ w[hi(m)])]
  <2>1. InOrder(w, mem, D)
    BY <1>7 DEF OrderOf
  <2> HIDE DEF w
  <2> QED
    BY <2>1 DEF InOrder, lo, hi
<1> HIDE DEF w
<1>9. \A n \in D : w[n] <=> IsTerminal(n) \/ (GrowsOn(mem, n) /\ w[lo(n)] /\ w[hi(n)])
  BY <1>8
<1> QED
  BY <1>3, <1>9 DEF Ordered, w


(* A diagram that grew: nodes were added, none was released or changed     *)
(* but for its count.                                                      *)
Grown(mem, D, mem2, D2) ==
  /\ D \subseteq D2
  /\ \A n \in D : mem2[n].var = mem[n].var /\ mem2[n].low = mem[n].low /\ mem2[n].high = mem[n].high

LEMMA DiagramStays ==
  ASSUME NEW mem, NEW D, NEW mem2, NEW D2,
         Diagram(mem, D), Diagram(mem2, D2), Grown(mem, D, mem2, D2)
  PROVE  \A n \in D :
           /\ \A s : Val(mem2, D2, n, s) = Val(mem, D, n, s)
           /\ Ordered(mem2, D2, n) <=> Ordered(mem, D, n)
<1> DEFINE Same(n) == /\ \A s : Val(mem2, D2, n, s) = Val(mem, D, n, s)
                      /\ Ordered(mem2, D2, n) <=> Ordered(mem, D, n)
           Bad == { n \in D : ~Same(n) }
<1>1. SUFFICES ASSUME Bad # {} PROVE FALSE
  OBVIOUS
<1>2. D \subseteq Nat /\ D \subseteq D2
  BY DiagramShape DEF Grown
<1>3. PICK n \in Bad : \A m \in Bad : n <= m
  <2>1. Bad \subseteq Nat
    BY <1>2
  <2> HIDE DEF Bad
  <2> QED
    BY <1>1, <2>1, LeastExists
<1>4. n \in D /\ n \in D2 /\ n \in Nat /\ ~Same(n)
  BY <1>2, <1>3
<1>5. \A m \in D : m < n => Same(m)
  BY <1>2, <1>3
<1> HIDE DEF Same, Bad
<1>6. CASE IsTerminal(n)
  <2>1. \A s : Val(mem2, D2, n, s) = Val(mem, D, n, s)
    BY <1>4, <1>6, ValEquation
  <2>2. Ordered(mem2, D2, n) /\ Ordered(mem, D, n)
    BY <1>4, <1>6, OrderEquation
  <2> QED
    BY <1>4, <2>1, <2>2 DEF Same
<1>7. CASE ~IsTerminal(n)
  <2>1. mem[n].low \in D /\ mem[n].high \in D /\ mem[n].low < n /\ mem[n].high < n
    BY <1>4, <1>7, DiagramShape
  <2>2. Same(mem[n].low) /\ Same(mem[n].high)
    BY <1>5, <2>1
  <2>3. mem2[n].var = mem[n].var /\ mem2[n].low = mem[n].low /\ mem2[n].high = mem[n].high
    BY <1>4 DEF Grown
  <2>4. ASSUME NEW s
        PROVE  Val(mem2, D2, n, s) = Val(mem, D, n, s)
    <3>1. Val(mem2, D2, n, s) = Val(mem2, D2, Down(mem, n, mem[n].var \in s), s)
      BY <1>4, <1>7, <2>3, ValEquation DEF Down
    <3>2. Val(mem, D, n, s) = Val(mem, D, Down(mem, n, mem[n].var \in s), s)
      BY <1>4, <1>7, ValEquation
    <3> QED
      BY <2>2, <3>1, <3>2 DEF Same, Down
  <2>5. GrowsOn(mem2, n) <=> GrowsOn(mem, n)
    BY <2>1, <2>3 DEF GrowsOn, Down, Grown
  <2>6. Ordered(mem2, D2, n) <=> Ordered(mem, D, n)
    BY <1>4, <1>7, <2>2, <2>3, <2>5, OrderEquation DEF Same
  <2> QED
    BY <1>4, <2>4, <2>6 DEF Same
<1> QED
  BY <1>6, <1>7

(* An assignment with v made true or false.                                *)
With(s, v, bit) == IF bit THEN s \union {v} ELSE s \ {v}

(* A diagram in order does not look at a variable that comes before its    *)
(* own.                                                                    *)
LEMMA OrderIgnores ==
  ASSUME NEW mem, NEW D, Diagram(mem, D), NEW v \in Nat
  PROVE  \A n \in D :
           Ordered(mem, D, n) /\ (IsTerminal(n) \/ v < mem[n].var) =>
             \A s, bit : Val(mem, D, n, With(s, v, bit)) = Val(mem, D, n, s)
<1> DEFINE Above(n) == Ordered(mem, D, n) /\ (IsTerminal(n) \/ v < mem[n].var)
           Same(n)  == \A s, bit : Val(mem, D, n, With(s, v, bit)) = Val(mem, D, n, s)
           Bad == { n \in D : Above(n) /\ ~Same(n) }
<1>1. SUFFICES ASSUME Bad # {} PROVE FALSE
  OBVIOUS
<1>2. D \subseteq Nat
  BY DiagramShape
<1>3. PICK n \in Bad : \A m \in Bad : n <= m
  <2>1. Bad \subseteq Nat
    BY <1>2
  <2> HIDE DEF Bad
  <2> QED
    BY <1>1, <2>1, LeastExists
<1>4. n \in D /\ n \in Nat /\ Above(n) /\ ~Same(n)
  BY <1>2, <1>3
<1>5. \A m \in D : m < n /\ Above(m) => Same(m)
  BY <1>2, <1>3
<1>6. ~IsTerminal(n)
  BY <1>4, ValEquation
<1>7. /\ mem[n].low \in D /\ mem[n].high \in D /\ mem[n].low < n /\ mem[n].high < n
      /\ mem[n].var \in Nat
  BY <1>4, <1>6, DiagramShape, ROBDDAssumption DEF Variable
<1>8. GrowsOn(mem, n) /\ Ordered(mem, D, mem[n].low) /\ Ordered(mem, D, mem[n].high)
  BY <1>4, <1>6, OrderEquation
<1>9. ASSUME NEW m \in {mem[n].low, mem[n].high}
      PROVE  Same(m)
  <2>1. IsTerminal(m) \/ mem[n].var < mem[m].var
    <3>1. \E high \in BOOLEAN : m = Down(mem, n, high)
      BY DEF Down
    <3> QED
      BY <1>8, <3>1 DEF GrowsOn
  <2>2. ~IsTerminal(m) => mem[m].var \in Nat
    BY <1>7, DiagramShape, ROBDDAssumption DEF Variable
  <2>3. Above(m)
    BY <1>4, <1>6, <1>7, <1>8, <2>1, <2>2
  <2> QED
    BY <1>5, <1>7, <2>3
<1>10. ASSUME NEW s, NEW bit
       PROVE  Val(mem, D, n, With(s, v, bit)) = Val(mem, D, n, s)
  <2>1. mem[n].var \in With(s, v, bit) <=> mem[n].var \in s
    BY <1>4, <1>6, <1>7 DEF With
  <2>2. Val(mem, D, n, With(s, v, bit))
          = Val(mem, D, Down(mem, n, mem[n].var \in s), With(s, v, bit))
    BY <1>4, <1>6, <2>1, ValEquation DEF Down
  <2>3. Val(mem, D, n, s) = Val(mem, D, Down(mem, n, mem[n].var \in s), s)
    BY <1>4, <1>6, ValEquation
  <2>4. Same(Down(mem, n, mem[n].var \in s))
    BY <1>9 DEF Down
  <2> QED
    BY <2>2, <2>3, <2>4
<1> QED
  BY <1>4, <1>10

-----------------------------------------------------------------------------
(* Calls.  What ROBDD says of the memory of a state, for any memory.       *)

OpensOn(mem, a, b)     == ~IsTerminal(a) /\ (~IsTerminal(b) \/ mem[a].var < mem[b].var)
ConsidersOn(mem, a, b) == ~IsTerminal(b) /\ (IsTerminal(a) \/ mem[b].var <= mem[a].var)
TopVarOn(mem, a, b) ==
  LET top == IF OpensOn(mem, a, b) THEN mem[a].var ELSE 0
  IN  IF ConsidersOn(mem, a, b) /\ mem[b].var > top THEN mem[b].var ELSE top
OpensSecondOn(mem, a, b) == ConsidersOn(mem, a, b) /\ mem[b].var = TopVarOn(mem, a, b)
SubOn(mem, f, high) ==
  [f EXCEPT !.a = IF f.kind # "apply" \/ OpensOn(mem, f.a, f.b) THEN Down(mem, f.a, high) ELSE f.a,
            !.b = IF f.kind = "apply" /\ OpensSecondOn(mem, f.a, f.b)
                  THEN Down(mem, f.b, high) ELSE f.b,
            !.stage = "enter", !.low = NullNode]
SplitVar(mem, f) == IF f.kind = "apply" THEN TopVarOn(mem, f.a, f.b) ELSE mem[f.a].var

(* A call that recurses: it has not met its terminal case.                 *)
Recurses(mem, f) ==
  CASE f.kind = "apply"    -> ~(IsTerminal(f.a) /\ IsTerminal(f.b))
    [] f.kind = "restrict" -> ~IsTerminal(f.a) /\ mem[f.a].var # f.var
    [] OTHER               -> ~IsTerminal(f.a) /\ mem[f.a].var < f.var

LEMMA SubOnIsSubCall ==
  /\ \A f, high : SubCall(f, high) = SubOn(memory, f, high)
  /\ \A a, b : TopVar(a, b) = TopVarOn(memory, a, b)
BY DEF SubCall, SubOn, Opens, OpensOn, OpensSecond, OpensSecondOn, Considers, ConsidersOn,
       TopVar, TopVarOn, Side, Down, Var

(* The variable a call splits at is that of every operand it opens.        *)
LEMMA Opened ==
  ASSUME NEW mem, NEW a, NEW b, ~(IsTerminal(a) /\ IsTerminal(b)),
         NEW S \in {Variable, Plain},
         \A n \in {a, b} : IF IsTerminal(n) THEN mem[n].var = 0 ELSE mem[n].var \in S
  PROVE  /\ TopVarOn(mem, a, b) \in S
         /\ OpensOn(mem, a, b) => ~IsTerminal(a) /\ mem[a].var = TopVarOn(mem, a, b)
         /\ OpensSecondOn(mem, a, b) => ~IsTerminal(b) /\ mem[b].var = TopVarOn(mem, a, b)
         /\ ~OpensOn(mem, a, b) /\ ~OpensSecondOn(mem, a, b) => ~IsTerminal(a) /\ IsTerminal(b)
<1>1. S \subseteq Nat /\ \A v \in S : 0 \in S
  <2>1. Variable \subseteq Nat /\ \A v \in Variable : 0 \in Variable
    BY ROBDDAssumption DEF Variable
  <2>2. 0 \notin OperationCodes
    BY ROBDDAssumption DEF OperationCodes, Operation
  <2>3. CASE S = Variable
    BY <2>1, <2>3
  <2>4. CASE S = Plain
    BY <2>1, <2>2, <2>4 DEF Plain
  <2> QED
    BY <2>3, <2>4
<1>2. /\ IF IsTerminal(a) THEN mem[a].var = 0 ELSE mem[a].var \in S
      /\ IF IsTerminal(b) THEN mem[b].var = 0 ELSE mem[b].var \in S
  OBVIOUS
<1>3. mem[a].var \in Nat /\ mem[b].var \in Nat
  BY <1>1, <1>2
<1>4. mem[a].var \in S /\ mem[b].var \in S /\ 0 \in S
  BY <1>1, <1>2
<1>5. CASE IsTerminal(b)
  BY <1>2, <1>3, <1>4, <1>5 DEF TopVarOn, OpensOn, ConsidersOn, OpensSecondOn
<1>6. CASE ~IsTerminal(b) /\ IsTerminal(a)
  BY <1>2, <1>3, <1>4, <1>6 DEF TopVarOn, OpensOn, ConsidersOn, OpensSecondOn
<1>7. CASE ~IsTerminal(b) /\ ~IsTerminal(a)
  BY <1>2, <1>3, <1>4, <1>7 DEF TopVarOn, OpensOn, ConsidersOn, OpensSecondOn
<1> QED
  BY <1>5, <1>6, <1>7

(* The operands of f and of its side g have one value under assignments    *)
(* that choose this side.                                                  *)
Agrees(mem, D, f, g, high) ==
  \A s : (SplitVar(mem, f) \in s <=> high) =>
    Val(mem, D, g.a, s) = Val(mem, D, f.a, s) /\ Val(mem, D, g.b, s) = Val(mem, D, f.b, s)

LEMMA SubCalls ==
  ASSUME NEW mem, NEW D, Diagram(mem, D), NEW f \in Frame, f.a \in D, f.b \in D,
         Recurses(mem, f), NEW high \in BOOLEAN
  PROVE  LET g == SubOn(mem, f, high)
         IN  /\ g \in Frame
             /\ g.kind = f.kind /\ g.op = f.op /\ g.var = f.var /\ g.bit = f.bit
             /\ g.stage = "enter" /\ g.low = NullNode
             /\ g.a \in D /\ g.b \in D
             /\ SplitVar(mem, f) \in Plain
             /\ f.kind # "apply" =>
                  ~IsTerminal(f.a) /\ g.a = Down(mem, f.a, high) /\ g.b = f.b
             /\ f.kind = "apply" => Agrees(mem, D, f, g, high)
<1> DEFINE g == SubOn(mem, f, high)
<1>1. D \subseteq Slot
  BY DiagramShape
<1>2. \A n \in D : ~IsTerminal(n) => Down(mem, n, high) \in D /\ mem[n].var \in Plain
  BY DiagramShape DEF Down
<1>3. /\ g.kind = f.kind /\ g.op = f.op /\ g.var = f.var /\ g.bit = f.bit
      /\ g.stage = "enter" /\ g.low = NullNode
      /\ g.a = IF f.kind # "apply" \/ OpensOn(mem, f.a, f.b) THEN Down(mem, f.a, high) ELSE f.a
      /\ g.b = IF f.kind = "apply" /\ OpensSecondOn(mem, f.a, f.b)
               THEN Down(mem, f.b, high) ELSE f.b
  BY DEF SubOn, Frame
<1>4. g.a \in Slot /\ g.b \in Slot => g \in Frame
  BY DEF SubOn, Frame, Node
<1> HIDE DEF g
<1>5. CASE f.kind = "apply"
  <2>1. /\ TopVarOn(mem, f.a, f.b) \in Plain
        /\ OpensOn(mem, f.a, f.b) => ~IsTerminal(f.a) /\ mem[f.a].var = TopVarOn(mem, f.a, f.b)
        /\ OpensSecondOn(mem, f.a, f.b) =>
             ~IsTerminal(f.b) /\ mem[f.b].var = TopVarOn(mem, f.a, f.b)
    <3>1. \A n \in {f.a, f.b} : IF IsTerminal(n) THEN mem[n].var = 0 ELSE mem[n].var \in Plain
      BY DiagramShape DEF Diagram, IsTerminal
    <3> QED
      BY <1>5, <3>1, Opened DEF Recurses
  <2>2. g.a \in D /\ g.b \in D
    BY <1>2, <1>3, <1>5, <2>1
  <2>3. ASSUME NEW s, (SplitVar(mem, f) \in s <=> high)
        PROVE  Val(mem, D, g.a, s) = Val(mem, D, f.a, s) /\ Val(mem, D, g.b, s) = Val(mem, D, f.b, s)
    <3>1. SplitVar(mem, f) = TopVarOn(mem, f.a, f.b)
      BY <1>5 DEF SplitVar
    <3>2. \A n \in D : ~IsTerminal(n) /\ mem[n].var = TopVarOn(mem, f.a, f.b) =>
            Val(mem, D, n, s) = Val(mem, D, Down(mem, n, high), s)
      <4> TAKE n \in D
      <4> HAVE ~IsTerminal(n) /\ mem[n].var = TopVarOn(mem, f.a, f.b)
      <4>1. Val(mem, D, n, s) = Val(mem, D, Down(mem, n, mem[n].var \in s), s)
        BY ValEquation
      <4>2. mem[n].var \in s <=> high
        BY <2>3, <3>1
      <4> QED
        BY <4>1, <4>2
    <3> QED
      BY <1>3, <1>5, <2>1, <3>2
  <2> QED
    BY <1>1, <1>3, <1>4, <1>5, <2>1, <2>2, <2>3 DEF g, SplitVar, Agrees
<1>6. CASE f.kind # "apply"
  <2>1. ~IsTerminal(f.a)
    BY <1>6 DEF Recurses
  <2>2. g.a = Down(mem, f.a, high) /\ g.b = f.b /\ g.a \in D /\ g.b \in D
    BY <1>2, <1>3, <1>6, <2>1
  <2>3. SplitVar(mem, f) \in Plain
    BY <1>2, <1>6, <2>1 DEF SplitVar
  <2> QED
    BY <1>1, <1>3, <1>4, <1>6, <2>1, <2>2, <2>3 DEF g
<1> QED
  BY <1>5, <1>6


-----------------------------------------------------------------------------
(* Answers.                                                                *)

(* n is the right answer to call f: null, or a diagram of what f asks for. *)
(* The quantifiers are asked about diagrams whose variables are in order.  *)
Right(mem, D, f, n) ==
  n # NullNode =>
    /\ n \in D /\ f.a \in D /\ f.b \in D
    /\ f.kind = "apply" =>
         \A s : Val(mem, D, n, s) = Combine(f.op, Val(mem, D, f.a, s), Val(mem, D, f.b, s))
    /\ f.kind = "restrict" /\ Ordered(mem, D, f.a) =>
         \A s : Val(mem, D, n, s) = Val(mem, D, f.a, With(s, f.var, f.bit))
    /\ f.kind = "abstract" /\ Ordered(mem, D, f.a) =>
         \A s : Val(mem, D, n, s) = Combine(f.op, Val(mem, D, f.a, With(s, f.var, FALSE)),
                                                  Val(mem, D, f.a, With(s, f.var, TRUE)))

LEMMA RightStays ==
  ASSUME NEW mem, NEW D, NEW mem2, NEW D2,
         Diagram(mem, D), Diagram(mem2, D2), Grown(mem, D, mem2, D2),
         NEW f, NEW n, Right(mem, D, f, n)
  PROVE  Right(mem2, D2, f, n)
<1>1. SUFFICES ASSUME n # NullNode PROVE Right(mem2, D2, f, n)
  BY DEF Right
<1>2. n \in D /\ f.a \in D /\ f.b \in D /\ D \subseteq D2
  BY <1>1 DEF Right, Grown
<1>3. \A m \in {n, f.a, f.b} :
        /\ \A s : Val(mem2, D2, m, s) = Val(mem, D, m, s)
        /\ Ordered(mem2, D2, m) <=> Ordered(mem, D, m)
  BY <1>2, DiagramStays
<1> QED
  BY <1>1, <1>2, <1>3 DEF Right

(* Two nodes for the two sides of a call and a third one that chooses      *)
(* between them.                                                           *)
Chooses(mem, D, n, v, l, h) ==
  \A s : Val(mem, D, n, s) = IF v \in s THEN Val(mem, D, h, s) ELSE Val(mem, D, l, s)

LEMMA SidesJoin ==
  ASSUME NEW mem, NEW D, Diagram(mem, D), NEW f \in Frame, f.a \in D, f.b \in D,
         Recurses(mem, f), NEW l, NEW h, NEW n \in D,
         l # NullNode, Right(mem, D, SubOn(mem, f, FALSE), l),
         h # NullNode, Right(mem, D, SubOn(mem, f, TRUE), h),
         Chooses(mem, D, n, SplitVar(mem, f), l, h)
  PROVE  Right(mem, D, f, n)
<1> DEFINE lo == SubOn(mem, f, FALSE)
           hi == SubOn(mem, f, TRUE)
           v  == SplitVar(mem, f)
<1>1. /\ lo.kind = f.kind /\ lo.op = f.op /\ lo.var = f.var /\ lo.bit = f.bit
      /\ hi.kind = f.kind /\ hi.op = f.op /\ hi.var = f.var /\ hi.bit = f.bit
  BY SubCalls, ZenonT(60)
<1>2. f.kind = "apply" =>
        \A s : /\ v \notin s => Val(mem, D, lo.a, s) = Val(mem, D, f.a, s)
                                  /\ Val(mem, D, lo.b, s) = Val(mem, D, f.b, s)
               /\ v \in s => Val(mem, D, hi.a, s) = Val(mem, D, f.a, s)
                               /\ Val(mem, D, hi.b, s) = Val(mem, D, f.b, s)
  <2>1. f.kind = "apply" => Agrees(mem, D, f, lo, FALSE) /\ Agrees(mem, D, f, hi, TRUE)
    BY SubCalls
  <2> HIDE DEF lo, hi
  <2> QED
    BY <2>1 DEF Agrees
<1>3. f.kind # "apply" => /\ ~IsTerminal(f.a) /\ v = mem[f.a].var
                          /\ lo.a = mem[f.a].low /\ hi.a = mem[f.a].high
  BY SubCalls DEF SplitVar, Down
<1>4. \A s : Val(mem, D, n, s) = IF v \in s THEN Val(mem, D, h, s) ELSE Val(mem, D, l, s)
  BY DEF Chooses
<1>5. Right(mem, D, lo, l) /\ Right(mem, D, hi, h)
  OBVIOUS
<1> HIDE DEF lo, hi, v
<1>6. CASE f.kind = "apply"
  <2>1. ASSUME NEW s
        PROVE  Val(mem, D, n, s) = Combine(f.op, Val(mem, D, f.a, s), Val(mem, D, f.b, s))
    <3>1. Val(mem, D, l, s) = Combine(f.op, Val(mem, D, lo.a, s), Val(mem, D, lo.b, s))
      BY <1>1, <1>5, <1>6 DEF Right
    <3>2. Val(mem, D, h, s) = Combine(f.op, Val(mem, D, hi.a, s), Val(mem, D, hi.b, s))
      BY <1>1, <1>5, <1>6 DEF Right
    <3> QED
      BY <1>2, <1>4, <1>6, <3>1, <3>2
  <2> QED
    BY <1>6, <2>1 DEF Right
<1>7. ASSUME f.kind # "apply", Ordered(mem, D, f.a)
      PROVE  /\ Ordered(mem, D, lo.a) /\ Ordered(mem, D, hi.a)
             /\ \A s : Val(mem, D, f.a, s) =
                         IF v \in s THEN Val(mem, D, hi.a, s) ELSE Val(mem, D, lo.a, s)
  <2>1. Ordered(mem, D, mem[f.a].low) /\ Ordered(mem, D, mem[f.a].high)
    BY <1>3, <1>7, OrderEquation
  <2>2. \A s : Val(mem, D, f.a, s) = Val(mem, D, Down(mem, f.a, mem[f.a].var \in s), s)
    BY <1>3, <1>7, ValEquation
  <2> QED
    BY <1>3, <1>7, <2>1, <2>2 DEF Down
<1>8. f.kind # "apply" => \A s, bit : v \in With(s, f.var, bit) <=> v \in s
  <2>1. CASE f.kind = "restrict"
    BY <1>3, <2>1 DEF Recurses, With
  <2>2. CASE f.kind = "abstract"
    <3>1. mem[f.a].var \in Nat /\ f.var \in Nat
      BY <1>3, <2>2, DiagramShape, ROBDDAssumption DEF Variable, Frame
    <3> QED
      BY <1>3, <2>2, <3>1 DEF Recurses, With
  <2> QED
    BY <2>1, <2>2 DEF Frame, Kind
<1>9. CASE f.kind = "restrict"
  <2>1. ASSUME Ordered(mem, D, f.a), NEW s
        PROVE  Val(mem, D, n, s) = Val(mem, D, f.a, With(s, f.var, f.bit))
    <3>1. /\ Val(mem, D, l, s) = Val(mem, D, lo.a, With(s, f.var, f.bit))
          /\ Val(mem, D, h, s) = Val(mem, D, hi.a, With(s, f.var, f.bit))
      BY <1>1, <1>5, <1>7, <1>9, <2>1 DEF Right
    <3> QED
      BY <1>4, <1>7, <1>8, <1>9, <2>1, <3>1
  <2> QED
    BY <1>9, <2>1 DEF Right
<1>10. CASE f.kind = "abstract"
  <2>1. ASSUME Ordered(mem, D, f.a), NEW s
        PROVE  Val(mem, D, n, s) = Combine(f.op, Val(mem, D, f.a, With(s, f.var, FALSE)),
                                                 Val(mem, D, f.a, With(s, f.var, TRUE)))
    <3>1. /\ Val(mem, D, l, s) = Combine(f.op, Val(mem, D, lo.a, With(s, f.var, FALSE)),
                                               Val(mem, D, lo.a, With(s, f.var, TRUE)))
          /\ Val(mem, D, h, s) = Combine(f.op, Val(mem, D, hi.a, With(s, f.var, FALSE)),
                                               Val(mem, D, hi.a, With(s, f.var, TRUE)))
      BY <1>1, <1>5, <1>7, <1>10, <2>1 DEF Right
    <3> QED
      BY <1>4, <1>7, <1>8, <1>10, <2>1, <3>1
  <2> QED
    BY <1>10, <2>1 DEF Right
<1> QED
  BY <1>6, <1>9, <1>10 DEF Frame, Kind


-----------------------------------------------------------------------------
(* The stack.                                                              *)

SameCall(f, g) ==
  /\ f.kind = g.kind /\ f.a = g.a /\ f.b = g.b
  /\ f.op = g.op /\ f.var = g.var /\ f.bit = g.bit

(* Call g is under way for call f: it is f, or f is an abstraction at its  *)
(* variable and g combines the two sides.                                  *)
Stands(mem, f, g) ==
  \/ SameCall(f, g)
  \/ /\ f.kind = "abstract" /\ ~IsTerminal(f.a) /\ mem[f.a].var = f.var
     /\ g.kind = "apply" /\ g.op = f.op /\ g.a = mem[f.a].low /\ g.b = mem[f.a].high

(* What a call has done so far, and that it waits for the call above it.   *)
Proper(mem, D, f) ==
  /\ f.a \in D /\ f.b \in D
  /\ f.kind = "abstract" => f.op \in {"AND", "OR"}
  /\ f.stage # "enter" => Recurses(mem, f)
  /\ f.stage = "high" => Right(mem, D, SubOn(mem, f, FALSE), f.low)
WaitsFor(mem, f, g) == f.stage # "enter" /\ Stands(mem, SubOn(mem, f, f.stage = "high"), g)

Stacked(mem, D, fs, c) ==
  /\ \A i \in 1 .. Len(fs) : Proper(mem, D, fs[i])
  /\ \A i \in 1 .. Len(fs) - 1 : WaitsFor(mem, fs[i], fs[i + 1])
  /\ fs # << >> => c.a \in D /\ c.b \in D /\ Stands(mem, c, fs[1])

(* The node n that the last call returned is right for the one that waits. *)
Answered(mem, D, fs, c, n) ==
  IF fs = << >> THEN c.kind \in {"apply", "restrict", "abstract"} => Right(mem, D, c, n)
  ELSE LET f == fs[Len(fs)]
       IN  f.stage # "enter" => Right(mem, D, SubOn(mem, f, f.stage = "high"), n)

LEMMA BelowShape ==
  ASSUME NEW S, NEW fs \in Seq(S), fs # << >>
  PROVE  LET b == SubSeq(fs, 1, Len(fs) - 1)
         IN  /\ Len(fs) \in Nat \ {0} /\ Len(fs) \in 1 .. Len(fs) /\ fs[Len(fs)] \in S
             /\ b \in Seq(S) /\ Len(b) = Len(fs) - 1
             /\ \A i \in 1 .. Len(b) : b[i] = fs[i]
             /\ b = << >> <=> Len(fs) = 1
<1> DEFINE b == SubSeq(fs, 1, Len(fs) - 1)
<1>4. Len(fs) \in Nat \ {0}
  BY EmptySeq
<1>1. Len(fs) \in Nat \ {0} /\ \A i \in 1 .. Len(fs) : fs[i] \in S
  BY <1>4
<1>2. /\ b \in Seq(S) /\ Len(b) = Len(fs) - 1
      /\ \A i \in 1 .. Len(b) : b[i] = fs[i]
  <2>1. 1 \in Int /\ Len(fs) - 1 \in Int /\ \A i \in 1 .. Len(fs) - 1 : fs[i] \in S
    BY <1>1
  <2>2. /\ b \in Seq(S)
        /\ Len(b) = IF 1 <= Len(fs) - 1 THEN (Len(fs) - 1) - 1 + 1 ELSE 0
        /\ \A i \in 1 .. (Len(fs) - 1) - 1 + 1 : b[i] = fs[1 + i - 1]
    BY <2>1, SubSeqProperties
  <2>3. Len(b) = Len(fs) - 1
    <3>1. Len(b) = IF 1 <= Len(fs) - 1 THEN (Len(fs) - 1) - 1 + 1 ELSE 0
      BY <2>2
    <3>2. Len(fs) \in Nat /\ (Len(fs) = 1 \/ 1 <= Len(fs) - 1)
      <4> DEFINE k == Len(fs)
      <4>1. k \in Nat \ {0}
        BY <1>4
      <4> HIDE DEF k
      <4>2. k \in Nat /\ (k = 1 \/ 1 <= k - 1)
        BY <4>1
      <4> QED
        BY <4>2 DEF k
    <3>3. CASE Len(fs) = 1
      BY <3>1, <3>3
    <3>4. CASE 1 <= Len(fs) - 1
      <4>1. Len(b) = (Len(fs) - 1) - 1 + 1
        BY <3>1, <3>4
      <4> HIDE DEF b
      <4> QED
        BY <3>2, <4>1
    <3> QED
      BY <3>2, <3>3, <3>4
  <2> HIDE DEF b
  <2>4. ASSUME NEW i \in 1 .. Len(b)
        PROVE  b[i] = fs[i]
    <3>1. i \in 1 .. (Len(fs) - 1) - 1 + 1 /\ 1 + i - 1 = i
      BY <1>1, <2>3
    <3>2. b[i] = fs[1 + i - 1]
      BY <2>2, <3>1
    <3> QED
      BY <3>1, <3>2
  <2> QED
    BY <2>2, <2>3, <2>4
<1>3. b = << >> <=> Len(fs) = 1
  <2>1. b # << >> => Len(b) # 0
    BY <1>2, EmptySeq
  <2>2. b = << >> => Len(b) = 0
    BY EmptySeq
  <2> HIDE DEF b
  <2> QED
    BY <1>1, <1>2, <2>1, <2>2
<1> QED
  BY <1>1, <1>2, <1>3

LEMMA StandsRight ==
  ASSUME NEW mem, NEW D, Diagram(mem, D), NEW f, NEW g, Stands(mem, f, g),
         f.a \in D, f.b \in D, NEW n, Right(mem, D, g, n)
  PROVE  Right(mem, D, f, n)
<1>1. CASE SameCall(f, g)
  BY <1>1 DEF Right, SameCall
<1>2. CASE /\ f.kind = "abstract" /\ ~IsTerminal(f.a) /\ mem[f.a].var = f.var
           /\ g.kind = "apply" /\ g.op = f.op /\ g.a = mem[f.a].low /\ g.b = mem[f.a].high
  <2>1. SUFFICES ASSUME n # NullNode, Ordered(mem, D, f.a), NEW s
                 PROVE  Val(mem, D, n, s) =
                          Combine(f.op, Val(mem, D, f.a, With(s, f.var, FALSE)),
                                        Val(mem, D, f.a, With(s, f.var, TRUE)))
    BY <1>2 DEF Right
  <2>2. Val(mem, D, n, s) = Combine(f.op, Val(mem, D, g.a, s), Val(mem, D, g.b, s))
    BY <1>2, <2>1 DEF Right
  <2>3. g.a \in D /\ g.b \in D /\ f.var \in Nat
    BY <1>2, DiagramShape, ROBDDAssumption DEF Variable
  <2>4. GrowsOn(mem, f.a) /\ Ordered(mem, D, g.a) /\ Ordered(mem, D, g.b)
    BY <1>2, <2>1, OrderEquation
  <2>5. /\ IsTerminal(g.a) \/ f.var < mem[g.a].var
        /\ IsTerminal(g.b) \/ f.var < mem[g.b].var
    <3>1. \A high \in BOOLEAN :
            IsTerminal(Down(mem, f.a, high)) \/ f.var < mem[Down(mem, f.a, high)].var
      BY <1>2, <2>4 DEF GrowsOn
    <3>2. g.a = Down(mem, f.a, FALSE) /\ g.b = Down(mem, f.a, TRUE)
      BY <1>2 DEF Down
    <3> QED
      BY <3>1, <3>2
  <2>6. /\ Val(mem, D, g.a, With(s, f.var, FALSE)) = Val(mem, D, g.a, s)
        /\ Val(mem, D, g.b, With(s, f.var, TRUE)) = Val(mem, D, g.b, s)
    <3>1. \A t, bit : Val(mem, D, g.a, With(t, f.var, bit)) = Val(mem, D, g.a, t)
      BY <2>3, <2>4, <2>5, OrderIgnores
    <3>2. \A t, bit : Val(mem, D, g.b, With(t, f.var, bit)) = Val(mem, D, g.b, t)
      BY <2>3, <2>4, <2>5, OrderIgnores
    <3> QED
      BY <3>1, <3>2, Zenon
  <2>7. f.var \notin With(s, f.var, FALSE) /\ f.var \in With(s, f.var, TRUE)
    BY DEF With
  <2>8. /\ Val(mem, D, f.a, With(s, f.var, FALSE)) = Val(mem, D, g.a, With(s, f.var, FALSE))
        /\ Val(mem, D, f.a, With(s, f.var, TRUE)) = Val(mem, D, g.b, With(s, f.var, TRUE))
    <3>1. \A t : Val(mem, D, f.a, t) = Val(mem, D, Down(mem, f.a, f.var \in t), t)
      BY <1>2, ValEquation
    <3>2. \A t : /\ f.var \notin t => Val(mem, D, f.a, t) = Val(mem, D, g.a, t)
                 /\ f.var \in t => Val(mem, D, f.a, t) = Val(mem, D, g.b, t)
      BY <1>2, <3>1 DEF Down
    <3> QED
      BY <2>7, <3>2, Zenon
  <2> QED
    BY <2>2, <2>6, <2>8
<1> QED
  BY <1>1, <1>2 DEF Stands

LEMMA SubStays ==
  ASSUME NEW mem, NEW D, NEW mem2, NEW D2, Grown(mem, D, mem2, D2),
         NEW f, f.a \in D, f.b \in D
  PROVE  /\ \A high : SubOn(mem2, f, high) = SubOn(mem, f, high)
         /\ Recurses(mem2, f) <=> Recurses(mem, f)
         /\ \A g : Stands(mem2, f, g) <=> Stands(mem, f, g)
<1>1. \A n \in {f.a, f.b} :
        mem2[n].var = mem[n].var /\ mem2[n].low = mem[n].low /\ mem2[n].high = mem[n].high
  BY DEF Grown
<1>2. \A n \in {f.a, f.b} : \A high : Down(mem2, n, high) = Down(mem, n, high)
  BY <1>1 DEF Down
<1>3. TopVarOn(mem2, f.a, f.b) = TopVarOn(mem, f.a, f.b)
  BY <1>1 DEF TopVarOn, OpensOn, ConsidersOn
<1>4. /\ OpensOn(mem2, f.a, f.b) <=> OpensOn(mem, f.a, f.b)
      /\ OpensSecondOn(mem2, f.a, f.b) <=> OpensSecondOn(mem, f.a, f.b)
  BY <1>1, <1>3 DEF OpensOn, OpensSecondOn, ConsidersOn
<1>5. \A high : SubOn(mem2, f, high) = SubOn(mem, f, high)
  BY <1>2, <1>4 DEF SubOn
<1>6. Recurses(mem2, f) <=> Recurses(mem, f)
  BY <1>1 DEF Recurses
<1>7. \A g : Stands(mem2, f, g) <=> Stands(mem, f, g)
  BY <1>1 DEF Stands
<1> QED
  BY <1>5, <1>6, <1>7

LEMMA StackStays ==
  ASSUME NEW mem, NEW D, NEW mem2, NEW D2,
         Diagram(mem, D), Diagram(mem2, D2), Grown(mem, D, mem2, D2),
         NEW fs \in Seq(Frame), NEW c, Stacked(mem, D, fs, c)
  PROVE  /\ Stacked(mem2, D2, fs, c)
         /\ \A n : Answered(mem, D, fs, c, n) => Answered(mem2, D2, fs, c, n)
<1>1. ASSUME NEW i \in 1 .. Len(fs)
      PROVE  /\ Proper(mem2, D2, fs[i])
             /\ \A g : WaitsFor(mem, fs[i], g) => WaitsFor(mem2, fs[i], g)
  <2>1. Proper(mem, D, fs[i]) /\ fs[i] \in Frame
    BY DEF Stacked
  <2>2. /\ fs[i].a \in D /\ fs[i].b \in D
        /\ \A high : SubOn(mem2, fs[i], high) = SubOn(mem, fs[i], high)
        /\ Recurses(mem2, fs[i]) <=> Recurses(mem, fs[i])
    BY <2>1, SubStays DEF Proper
  <2>3. Proper(mem2, D2, fs[i])
    BY <2>1, <2>2, RightStays DEF Proper, Grown
  <2>4. ASSUME NEW g, WaitsFor(mem, fs[i], g)
        PROVE  WaitsFor(mem2, fs[i], g)
    <3> DEFINE x == SubOn(mem, fs[i], fs[i].stage = "high")
    <3>1. fs[i].stage # "enter" /\ Stands(mem, x, g)
      BY <2>4 DEF WaitsFor
    <3>2. x.a \in D /\ x.b \in D
      BY <2>1, <2>2, <3>1, SubCalls DEF Proper
    <3>3. Stands(mem2, x, g)
      <4> HIDE DEF x
      <4> QED
        BY <3>1, <3>2, SubStays
    <3> QED
      BY <2>2, <3>1, <3>3 DEF WaitsFor
  <2> QED
    BY <2>3, <2>4
<1>2. \A i \in 1 .. Len(fs) - 1 : WaitsFor(mem2, fs[i], fs[i + 1])
  <2>1. \A i \in 1 .. Len(fs) - 1 : i \in 1 .. Len(fs)
    OBVIOUS
  <2> QED
    BY <1>1, <2>1 DEF Stacked
<1>3. fs # << >> => c.a \in D2 /\ c.b \in D2 /\ Stands(mem2, c, fs[1])
  BY SubStays DEF Stacked, Grown
<1>4. ASSUME NEW n, Answered(mem, D, fs, c, n)
      PROVE  Answered(mem2, D2, fs, c, n)
  <2>1. CASE fs = << >>
    BY <1>4, <2>1, RightStays DEF Answered
  <2>2. CASE fs # << >>
    <3> DEFINE f == fs[Len(fs)]
    <3>1. f.a \in D /\ f.b \in D
      BY <2>2, BelowShape DEF Stacked, Proper
    <3>2. SubOn(mem2, f, f.stage = "high") = SubOn(mem, f, f.stage = "high")
      BY <3>1, SubStays
    <3> QED
      BY <1>4, <2>2, <3>2, RightStays DEF Answered
  <2> QED
    BY <2>1, <2>2
<1> QED
  BY <1>1, <1>2, <1>3, <1>4 DEF Stacked


(* The three things that happen to a stack: the innermost call returns,    *)
(* goes on as another one, or calls.                                       *)
LEMMA Returns ==
  ASSUME NEW mem, NEW D, Diagram(mem, D), NEW fs \in Seq(Frame), fs # << >>, NEW c,
         Stacked(mem, D, fs, c), NEW n, Right(mem, D, fs[Len(fs)], n)
  PROVE  LET b == SubSeq(fs, 1, Len(fs) - 1)
         IN  Stacked(mem, D, b, c) /\ Answered(mem, D, b, c, n)
<1> DEFINE b == SubSeq(fs, 1, Len(fs) - 1)
<1>1. /\ Len(fs) \in Nat \ {0} /\ b \in Seq(Frame) /\ Len(b) = Len(fs) - 1
      /\ \A i \in 1 .. Len(b) : b[i] = fs[i]
      /\ b = << >> <=> Len(fs) = 1
  BY BelowShape
<1> HIDE DEF b
<1>2. \A i \in 1 .. Len(b) : /\ i \in 1 .. Len(fs) /\ i \in 1 .. Len(fs) - 1
                             /\ i < Len(b) => i + 1 \in 1 .. Len(b)
  BY <1>1
<1>3. /\ \A i \in 1 .. Len(b) : Proper(mem, D, b[i]) /\ WaitsFor(mem, fs[i], fs[i + 1])
      /\ \A i \in 1 .. Len(b) - 1 : WaitsFor(mem, b[i], b[i + 1])
  <2>1. \A i \in 1 .. Len(b) : Proper(mem, D, b[i]) /\ WaitsFor(mem, fs[i], fs[i + 1])
    BY <1>1, <1>2 DEF Stacked
  <2>2. \A i \in 1 .. Len(b) - 1 : i \in 1 .. Len(b) /\ i + 1 \in 1 .. Len(b)
    BY <1>1
  <2> QED
    BY <1>1, <2>1, <2>2
<1>4. Stacked(mem, D, b, c)
  <2>1. b # << >> => b[1] = fs[1]
    BY <1>1
  <2> QED
    BY <1>3, <2>1 DEF Stacked
<1>5. Answered(mem, D, b, c, n)
  <2>1. CASE b = << >>
    <3>1. Stands(mem, c, fs[Len(fs)]) /\ c.a \in D /\ c.b \in D
      BY <1>1, <2>1 DEF Stacked
    <3> QED
      BY <2>1, <3>1, StandsRight DEF Answered
  <2>2. CASE b # << >>
    <3> DEFINE f == b[Len(b)]
               g == SubOn(mem, f, f.stage = "high")
    <3>1. /\ Len(b) \in 1 .. Len(b) /\ Len(b) + 1 = Len(fs)
          /\ f = fs[Len(b)] /\ f \in Frame
      BY <1>1, <2>2
    <3>2. Proper(mem, D, f) /\ WaitsFor(mem, f, fs[Len(fs)])
      BY <1>3, <3>1
    <3> HIDE DEF f
    <3>3. f.stage # "enter" /\ Stands(mem, g, fs[Len(fs)])
      BY <3>2 DEF WaitsFor
    <3>4. g.a \in D /\ g.b \in D
      BY <3>1, <3>2, <3>3, SubCalls DEF Proper
    <3>5. Right(mem, D, g, n)
      <4> HIDE DEF g
      <4> QED
        BY <3>3, <3>4, StandsRight
    <3> QED
      BY <2>2, <3>5 DEF Answered, f
  <2> QED
    BY <2>1, <2>2
<1> QED
  BY <1>4, <1>5 DEF b

LEMMA GoesOn ==
  ASSUME NEW mem, NEW D, Diagram(mem, D), NEW fs \in Seq(Frame), fs # << >>, NEW c,
         Stacked(mem, D, fs, c), NEW f \in Frame, Proper(mem, D, f),
         \A x : Stands(mem, x, fs[Len(fs)]) => Stands(mem, x, f)
  PROVE  LET s == Append(SubSeq(fs, 1, Len(fs) - 1), f)
         IN  /\ s \in Seq(Frame) /\ s # << >> /\ Len(s) = Len(fs) /\ s[Len(s)] = f
             /\ \A i \in 1 .. Len(fs) : i < Len(fs) => s[i] = fs[i]
             /\ Stacked(mem, D, s, c)
<1> DEFINE b == SubSeq(fs, 1, Len(fs) - 1)
           s == Append(b, f)
<1>1. /\ Len(fs) \in Nat \ {0} /\ b \in Seq(Frame) /\ Len(b) = Len(fs) - 1
      /\ \A i \in 1 .. Len(b) : b[i] = fs[i]
  BY BelowShape
<1> HIDE DEF b
<1>2. /\ s \in Seq(Frame) /\ s # << >> /\ Len(s) = Len(b) + 1
      /\ \A i \in 1 .. Len(b) : s[i] = b[i]
      /\ s[Len(b) + 1] = f
  BY <1>1, AppendProperties
<1> HIDE DEF s
<1>3. /\ Len(s) = Len(fs) /\ s[Len(fs)] = f
      /\ \A i \in 1 .. Len(fs) : i < Len(fs) => s[i] = fs[i]
  BY <1>1, <1>2
<1>4. \A i \in 1 .. Len(s) : Proper(mem, D, s[i])
  BY <1>1, <1>3 DEF Stacked
<1>5. ASSUME NEW i \in 1 .. Len(s) - 1
      PROVE  WaitsFor(mem, s[i], s[i + 1])
  <2>1. /\ i \in 1 .. Len(fs) - 1 /\ s[i] = fs[i]
        /\ i + 1 < Len(fs) => s[i + 1] = fs[i + 1]
        /\ i + 1 >= Len(fs) => i + 1 = Len(fs)
    BY <1>1, <1>3
  <2>2. WaitsFor(mem, fs[i], fs[i + 1])
    BY <2>1 DEF Stacked
  <2>3. CASE i + 1 < Len(fs)
    BY <2>1, <2>2, <2>3
  <2>4. CASE i + 1 >= Len(fs)
    BY <1>3, <2>1, <2>2, <2>4 DEF WaitsFor
  <2> QED
    BY <1>1, <2>3, <2>4
<1>6. c.a \in D /\ c.b \in D /\ Stands(mem, c, s[1])
  BY <1>1, <1>3 DEF Stacked
<1> QED
  BY <1>2, <1>3, <1>4, <1>5, <1>6 DEF Stacked, s, b

LEMMA CallsOn ==
  ASSUME NEW mem, NEW D, Diagram(mem, D), NEW fs \in Seq(Frame), fs # << >>, NEW c,
         Stacked(mem, D, fs, c), NEW f \in Frame, SameCall(fs[Len(fs)], f),
         Proper(mem, D, f), f.stage # "enter"
  PROVE  LET g == SubOn(mem, f, f.stage = "high")
             s == Append(Append(SubSeq(fs, 1, Len(fs) - 1), f), g)
         IN  /\ s \in Seq(Frame) /\ s # << >> /\ Len(s) = Len(fs) + 1 /\ s[Len(s)] = g
             /\ s[Len(fs)] = f
             /\ \A i \in 1 .. Len(fs) : i < Len(fs) => s[i] = fs[i]
             /\ Stacked(mem, D, s, c)
<1> DEFINE t == Append(SubSeq(fs, 1, Len(fs) - 1), f)
           g == SubOn(mem, f, f.stage = "high")
           s == Append(t, g)
<1>1. \A x : Stands(mem, x, fs[Len(fs)]) => Stands(mem, x, f)
  BY DEF Stands, SameCall
<1>2. /\ t \in Seq(Frame) /\ t # << >> /\ Len(t) = Len(fs) /\ t[Len(t)] = f
      /\ \A i \in 1 .. Len(fs) : i < Len(fs) => t[i] = fs[i]
      /\ Stacked(mem, D, t, c)
  BY <1>1, GoesOn
<1> HIDE DEF t
<1>3. g \in Frame /\ g.a \in D /\ g.b \in D /\ g.stage = "enter" /\ g.kind = f.kind /\ g.op = f.op
  BY SubCalls, ZenonT(60) DEF Proper
<1> HIDE DEF g
<1>4. Proper(mem, D, g)
  BY <1>3 DEF Proper
<1>5. /\ s \in Seq(Frame) /\ s # << >> /\ Len(s) = Len(t) + 1
      /\ \A i \in 1 .. Len(t) : s[i] = t[i]
      /\ s[Len(t) + 1] = g
  BY <1>2, <1>3, AppendProperties
<1> HIDE DEF s
<1>6. Len(fs) \in Nat \ {0}
  BY EmptySeq
<1>7. \A i \in 1 .. Len(s) : Proper(mem, D, s[i])
  <2>1. \A i \in 1 .. Len(s) : i \in 1 .. Len(t) \/ i = Len(t) + 1
    BY <1>2, <1>5, <1>6
  <2> QED
    BY <1>2, <1>4, <1>5, <2>1 DEF Stacked
<1>8. ASSUME NEW i \in 1 .. Len(s) - 1
      PROVE  WaitsFor(mem, s[i], s[i + 1])
  <2>1. CASE i = Len(t)
    <3>1. s[i] = f /\ s[i + 1] = g
      BY <1>2, <1>5, <1>6, <2>1
    <3>2. Stands(mem, g, g)
      BY DEF Stands, SameCall
    <3> QED
      BY <3>1, <3>2 DEF WaitsFor, g
  <2>2. CASE i # Len(t)
    <3>1. i \in 1 .. Len(t) - 1 /\ s[i] = t[i] /\ s[i + 1] = t[i + 1]
      BY <1>2, <1>5, <1>6, <2>2
    <3> QED
      BY <1>2, <3>1 DEF Stacked
  <2> QED
    BY <2>1, <2>2
<1>9. c.a \in D /\ c.b \in D /\ Stands(mem, c, s[1])
  BY <1>2, <1>5, <1>6 DEF Stacked
<1>10. Stacked(mem, D, s, c)
  BY <1>5, <1>7, <1>8, <1>9 DEF Stacked
<1>11. /\ Len(s) = Len(fs) + 1 /\ s[Len(s)] = g /\ s[Len(fs)] = f
       /\ \A i \in 1 .. Len(fs) : i < Len(fs) => s[i] = fs[i]
  BY <1>2, <1>5, <1>6
<1> QED
  BY <1>5, <1>10, <1>11 DEF s, t, g


-----------------------------------------------------------------------------
(* The tables.                                                             *)

Memory == [Slot -> [var : Nat, low : Node, high : Node, ref : Int]]

(* An entry with the key of a variable finds the node it says, one with    *)
(* that of an operation a node that computes it.                           *)
EntrySound(mem, D, e) ==
  e.result # NullNode =>
    /\ e.result \in D /\ e.low \in D /\ e.high \in D
    /\ e.key \in Plain =>
         /\ ~IsTerminal(e.result) /\ mem[e.result].var = e.key
         /\ mem[e.result].low = e.low /\ mem[e.result].high = e.high
    /\ \A op \in Operation : e.key = OpCode(op) =>
         \A s : Val(mem, D, e.result, s) = Combine(op, Val(mem, D, e.low, s), Val(mem, D, e.high, s))
TableSound(mem, D, T) == \A i \in 0 .. TableSize : EntrySound(mem, D, T[i])

LEMMA TableStays ==
  ASSUME NEW mem, NEW D, NEW mem2, NEW D2,
         Diagram(mem, D), Diagram(mem2, D2), Grown(mem, D, mem2, D2),
         NEW T, TableSound(mem, D, T)
  PROVE  TableSound(mem2, D2, T)
<1>1. ASSUME NEW e, EntrySound(mem, D, e)
      PROVE  EntrySound(mem2, D2, e)
  <2>1. SUFFICES ASSUME e.result # NullNode PROVE EntrySound(mem2, D2, e)
    BY DEF EntrySound
  <2>2. e.result \in D /\ e.low \in D /\ e.high \in D /\ D \subseteq D2
    BY <1>1, <2>1 DEF EntrySound, Grown
  <2>3. \A n \in {e.result, e.low, e.high} : \A s : Val(mem2, D2, n, s) = Val(mem, D, n, s)
    BY <2>2, DiagramStays
  <2>4. /\ mem2[e.result].var = mem[e.result].var
        /\ mem2[e.result].low = mem[e.result].low /\ mem2[e.result].high = mem[e.result].high
    BY <2>2 DEF Grown
  <2> QED
    BY <1>1, <2>1, <2>2, <2>3, <2>4 DEF EntrySound
<1> QED
  BY <1>1 DEF TableSound

LEMMA GrownTwice ==
  ASSUME NEW mem, NEW D, NEW mem2, NEW D2, NEW mem3, NEW D3,
         Grown(mem, D, mem2, D2), Grown(mem2, D2, mem3, D3)
  PROVE  Grown(mem, D, mem3, D3)
BY DEF Grown

(* A count that changes changes no diagram.                                *)
LEMMA CountChanges ==
  ASSUME NEW mem \in Memory, NEW n \in Node, NEW d \in Int
  PROVE  LET mem2 == AddRef(mem, n, d)
         IN  /\ mem2 \in Memory
             /\ \A m \in Slot :
                  /\ mem2[m].var = mem[m].var /\ mem2[m].low = mem[m].low
                  /\ mem2[m].high = mem[m].high
                  /\ mem2[m].ref = mem[m].ref + IF m = n THEN d ELSE 0
             /\ \A D : Diagram(mem, D) => Diagram(mem2, D) /\ Grown(mem, D, mem2, D)
<1> DEFINE mem2 == AddRef(mem, n, d)
<1>1. CASE n = NullNode
  <2>1. mem2 = mem /\ n \notin Slot
    BY <1>1 DEF AddRef, Slot, NullNode
  <2>2. \A m \in Slot : mem[m].ref \in Int
    BY DEF Memory
  <2> QED
    BY <2>1, <2>2 DEF Grown
<1>2. CASE n # NullNode
  <2>1. n \in Slot /\ mem2 = [mem EXCEPT ![n].ref = @ + d]
    BY <1>2 DEF AddRef, Node
  <2> HIDE DEF mem2
  <2>2. mem2 \in Memory
    BY <2>1 DEF Memory
  <2>3. ASSUME NEW m \in Slot
        PROVE  /\ mem2[m].var = mem[m].var /\ mem2[m].low = mem[m].low
               /\ mem2[m].high = mem[m].high
               /\ mem2[m].ref = mem[m].ref + IF m = n THEN d ELSE 0
    BY <2>1 DEF Memory
  <2>4. ASSUME NEW D, Diagram(mem, D)
        PROVE  Diagram(mem2, D) /\ Grown(mem, D, mem2, D)
    <3>1. D \subseteq Slot /\ False \in Slot /\ True \in Slot
      BY <2>4, DiagramShape
    <3> QED
      BY <2>3, <2>4, <3>1 DEF Diagram, Grown
  <2> QED
    BY <2>2, <2>3, <2>4 DEF mem2
<1> QED
  BY <1>1, <1>2


(* What findOrAddUnique does while nothing was released: it finds or makes *)
(* a node that chooses between l and h.  Its reference is one more; when   *)
(* both sides are the same no reference is added.                          *)
LEMMA NodeFound ==
  ASSUME memory \in Memory, table \in [0 .. TableSize -> Entry],
         Diagram(memory, allocated), TableSound(memory, allocated, table),
         NEW v \in Plain, NEW l \in allocated \union {NullNode},
         NEW h \in allocated \union {NullNode}
  PROVE  LET new == findOrAddUnique(v, l, h)
         IN  /\ new.memory \in Memory /\ new.table \in [0 .. TableSize -> Entry]
             /\ Diagram(new.memory, new.allocated)
             /\ Grown(memory, allocated, new.memory, new.allocated)
             /\ TableSound(new.memory, new.allocated, new.table)
             /\ new.node \in new.allocated \union {NullNode}
             /\ new.ok /\ new.node # NullNode =>
                  l # NullNode /\ h # NullNode /\ Chooses(new.memory, new.allocated, new.node, v, l, h)
             /\ l = h => new.node = l /\ new.memory = memory /\ new.allocated = allocated
             /\ l # h => \A n \in new.allocated :
                  new.memory[n].ref >= IF n = new.node
                                       THEN IF n \in allocated THEN memory[n].ref + 1 ELSE 1
                                       ELSE memory[n].ref
             /\ \A n \in new.allocated : n \in allocated \/ n = new.node
<1> DEFINE at  == UniqueBucket(v, l, h)
           e   == table[at]
           new == findOrAddUnique(v, l, h)
<1>1. allocated \subseteq Slot /\ l \in Node /\ h \in Node /\ at \in Bucket /\ at \in 0 .. TableSize
  <2>1. allocated \subseteq Slot
    BY DiagramShape
  <2>2. l \in Node /\ h \in Node
    BY <2>1 DEF Node
  <2>3. at \in Bucket
    BY <2>2, ROBDDAssumption DEF Plain
  <2>4. \A i \in Bucket : i \in 0 .. TableSize
    BY ROBDDAssumption DEF Bucket
  <2> QED
    BY <2>1, <2>2, <2>3, <2>4
<1>2. e \in Entry /\ EntrySound(memory, allocated, e)
  BY <1>1 DEF TableSound
<1>3. v \in Variable /\ v \in Nat
  BY ROBDDAssumption DEF Variable, Plain
<1>4. \A n : Unchanged(n).memory = memory /\ Unchanged(n).allocated = allocated
               /\ Unchanged(n).table = table /\ Unchanged(n).node = n /\ Unchanged(n).ok
  BY DEF Unchanged
<1>5. \A n \in allocated : memory[n].ref \in Int
  BY <1>1 DEF Memory
<1>6. Grown(memory, allocated, memory, allocated)
  BY DEF Grown
<1>7. CASE l = h
  <2>1. new = Unchanged(l)
    BY <1>7 DEF findOrAddUnique
  <2>2. l # NullNode => Chooses(memory, allocated, l, v, l, h)
    BY <1>7 DEF Chooses
  <2> HIDE DEF new
  <2>3. new.memory = memory /\ new.allocated = allocated /\ new.table = table /\ new.node = l
    BY <1>4, <2>1
  <2> QED
    BY <1>6, <1>7, <2>2, <2>3 DEF new
<1>8. CASE l # h /\ e.result # NullNode
  <2> DEFINE r == e.result
  <2>1. /\ new.memory = AddRef(memory, r, 1) /\ new.allocated = allocated
        /\ new.table = table /\ new.node = r /\ new.ok = Matches(e, v, l, h)
    BY <1>8 DEF findOrAddUnique, Unchanged, UniqueAt
  <2>2. /\ r \in allocated
        /\ new.ok => /\ l \in allocated /\ h \in allocated
                     /\ ~IsTerminal(r) /\ memory[r].var = v /\ memory[r].low = l /\ memory[r].high = h
    BY <1>2, <1>3, <1>8, <2>1 DEF EntrySound, Matches
  <2> HIDE DEF new
  <2>3. /\ new.memory \in Memory
        /\ \A m \in Slot :
             /\ new.memory[m].var = memory[m].var /\ new.memory[m].low = memory[m].low
             /\ new.memory[m].high = memory[m].high
             /\ new.memory[m].ref = memory[m].ref + IF m = r THEN 1 ELSE 0
        /\ Diagram(new.memory, allocated) /\ Grown(memory, allocated, new.memory, allocated)
    <3>1. r \in Node /\ 1 \in Int
      BY <1>1, <2>2 DEF Node
    <3> HIDE DEF r
    <3>2. /\ AddRef(memory, r, 1) \in Memory
          /\ \A m \in Slot :
               /\ AddRef(memory, r, 1)[m].var = memory[m].var
               /\ AddRef(memory, r, 1)[m].low = memory[m].low
               /\ AddRef(memory, r, 1)[m].high = memory[m].high
               /\ AddRef(memory, r, 1)[m].ref = memory[m].ref + IF m = r THEN 1 ELSE 0
          /\ \A D : Diagram(memory, D) =>
               Diagram(AddRef(memory, r, 1), D) /\ Grown(memory, D, AddRef(memory, r, 1), D)
      BY <3>1, CountChanges
    <3> QED
      BY <2>1, <3>2
  <2>4. TableSound(new.memory, allocated, table)
    BY <2>3, TableStays
  <2>5. new.ok => Chooses(new.memory, allocated, r, v, l, h)
    <3>1. SUFFICES ASSUME new.ok PROVE Chooses(new.memory, allocated, r, v, l, h)
      OBVIOUS
    <3>2. new.memory[r].low = l /\ new.memory[r].high = h /\ new.memory[r].var = v
      BY <1>1, <2>2, <2>3, <3>1
    <3>3. \A s : Val(new.memory, allocated, r, s)
                   = Val(new.memory, allocated, Down(new.memory, r, v \in s), s)
      BY <2>2, <2>3, <3>1, <3>2, ValEquation
    <3> QED
      BY <3>2, <3>3 DEF Chooses, Down
  <2>6. new.ok => l # NullNode /\ h # NullNode
    BY <1>1, <2>2 DEF Slot, NullNode
  <2>7. \A n \in allocated : new.memory[n].ref >= IF n = r THEN memory[n].ref + 1 ELSE memory[n].ref
    BY <1>1, <1>5, <2>3
  <2> HIDE DEF r
  <2> QED
    BY <1>8, <2>1, <2>2, <2>3, <2>4, <2>5, <2>6, <2>7 DEF new
<1>9. CASE l # h /\ e.result = NullNode /\ FreeSlots = {}
  <2>1. new = Unchanged(NullNode)
    BY <1>9 DEF findOrAddUnique, UniqueAt
  <2> HIDE DEF new
  <2>2. new.memory = memory /\ new.allocated = allocated /\ new.table = table /\ new.node = NullNode
    BY <1>4, <2>1
  <2>3. NullNode \notin allocated
    BY <1>1 DEF Slot, NullNode
  <2> QED
    BY <1>5, <1>6, <1>9, <2>2, <2>3 DEF new
<1>11. CASE l # h /\ e.result = NullNode /\ FreeSlots # {} /\ NullNode \in {l, h}
  <2>1. new = [Unchanged(NullNode) EXCEPT !.ok = FALSE]
    BY <1>11 DEF findOrAddUnique, UniqueAt
  <2>2. /\ new.memory = memory /\ new.allocated = allocated /\ new.table = table
        /\ new.node = NullNode /\ ~new.ok
    BY <2>1 DEF Unchanged
  <2> HIDE DEF new
  <2>3. NullNode \notin allocated
    BY <1>1 DEF Slot, NullNode
  <2> QED
    BY <1>5, <1>6, <1>11, <2>2, <2>3 DEF new
<1>10. CASE l # h /\ e.result = NullNode /\ FreeSlots # {} /\ NullNode \notin {l, h}
  <2> DEFINE k == FirstFree
             entry == [key |-> v, low |-> l, high |-> h, result |-> k]
  <2>1. /\ l # NullNode /\ h # NullNode
        /\ new.memory = Link(memory, k, v, l, h) /\ new.allocated = allocated \union {k}
        /\ new.table = [table EXCEPT ![at] = entry] /\ new.node = k
    BY <1>10 DEF findOrAddUnique, UniqueAt, Unchanged
  <2>2. PICK top \in 2 .. MaxNodes : allocated = 0 .. top - 1
    BY DEF Diagram
  <2>3. k = top /\ top \in Slot /\ top \notin allocated /\ top \in Nat \ {0, 1}
    <3>1. MaxNodes \in Nat \ {0, 1}
      BY ROBDDAssumption
    <3>2. top \in FreeSlots /\ \A m \in FreeSlots : top <= m
      BY <1>10, <2>2, <3>1 DEF FreeSlots, Slot
    <3>3. \A n \in FreeSlots : (\A m \in FreeSlots : n <= m) => n = top
      BY <3>1, <3>2 DEF FreeSlots, Slot
    <3>4. k = top
      BY <3>2, <3>3 DEF FirstFree
    <3> QED
      BY <2>2, <3>1, <3>2, <3>4 DEF FreeSlots
  <2> HIDE DEF k, new
  <2> DEFINE base == [memory EXCEPT ![k] = [var |-> v, low |-> l, high |-> h, ref |-> 1]]
  <2>4. l \in allocated /\ h \in allocated /\ l # k /\ h # k /\ k \in Slot
    BY <2>1, <2>3
  <2>5. base \in Memory
    BY <1>1, <1>3, <2>4 DEF Memory
  <2>6. /\ base[k].var = v /\ base[k].low = l /\ base[k].high = h /\ base[k].ref = 1
        /\ \A m \in Slot : m # k => base[m] = memory[m]
    BY <2>4 DEF Memory
  <2>7. new.memory = AddRef(AddRef(base, l, 1), h, 1)
    BY <2>1 DEF Link
  <2> HIDE DEF base
  <2>8. /\ new.memory \in Memory
        /\ \A m \in Slot :
             /\ new.memory[m].var = base[m].var /\ new.memory[m].low = base[m].low
             /\ new.memory[m].high = base[m].high
             /\ new.memory[m].ref = (base[m].ref + IF m = l THEN 1 ELSE 0) + IF m = h THEN 1 ELSE 0
    <3> DEFINE one == AddRef(base, l, 1)
    <3>1. /\ one \in Memory
          /\ \A m \in Slot :
               /\ one[m].var = base[m].var /\ one[m].low = base[m].low
               /\ one[m].high = base[m].high
               /\ one[m].ref = base[m].ref + IF m = l THEN 1 ELSE 0
      <4>1. base \in Memory /\ l \in Node /\ 1 \in Int
        BY <1>1, <2>5
      <4> QED
        BY <4>1, CountChanges
    <3> HIDE DEF one
    <3>2. /\ AddRef(one, h, 1) \in Memory
          /\ \A m \in Slot :
               /\ AddRef(one, h, 1)[m].var = one[m].var /\ AddRef(one, h, 1)[m].low = one[m].low
               /\ AddRef(one, h, 1)[m].high = one[m].high
               /\ AddRef(one, h, 1)[m].ref = one[m].ref + IF m = h THEN 1 ELSE 0
      <4>1. one \in Memory /\ h \in Node /\ 1 \in Int
        BY <1>1, <3>1
      <4> QED
        BY <4>1, CountChanges
    <3>3. new.memory = AddRef(one, h, 1)
      BY <2>7 DEF one
    <3> QED
      BY <3>1, <3>2, <3>3
  <2>9. \A m \in allocated :
          /\ new.memory[m].var = memory[m].var /\ new.memory[m].low = memory[m].low
          /\ new.memory[m].high = memory[m].high /\ new.memory[m].ref >= memory[m].ref
    <3>1. \A m \in allocated : m \in Slot /\ base[m] = memory[m]
      BY <1>1, <2>3, <2>6
    <3> QED
      BY <1>5, <2>8, <3>1
  <2>10. /\ new.memory[k].var = v /\ new.memory[k].low = l /\ new.memory[k].high = h
         /\ new.memory[k].ref = 1
    BY <2>4, <2>6, <2>8
  <2>11. Grown(memory, allocated, new.memory, new.allocated)
    BY <2>1, <2>9 DEF Grown
  <2>12. Diagram(new.memory, new.allocated)
    <3>1. new.allocated = 0 .. (top + 1) - 1 /\ top + 1 \in 2 .. MaxNodes
      BY <2>1, <2>2, <2>3, ROBDDAssumption DEF Slot
    <3>2. new.memory[False].var = 0 /\ new.memory[True].var = 0
      BY <2>9, DiagramShape DEF Diagram
    <3>3. l \in 0 .. k - 1 /\ h \in 0 .. k - 1
      BY <2>2, <2>3, <2>4
    <3>4. \A n \in new.allocated \ {False, True} :
            /\ new.memory[n].var \in Plain
            /\ new.memory[n].low \in 0 .. n - 1 /\ new.memory[n].high \in 0 .. n - 1
      BY <2>1, <2>9, <2>10, <3>3 DEF Diagram
    <3> QED
      BY <3>1, <3>2, <3>4 DEF Diagram
  <2>13. Chooses(new.memory, new.allocated, k, v, l, h) /\ ~IsTerminal(k)
    <3>1. ~IsTerminal(k) /\ k \in new.allocated
      BY <2>1, <2>3 DEF IsTerminal, False, True
    <3>2. \A s : Val(new.memory, new.allocated, k, s)
                   = Val(new.memory, new.allocated, Down(new.memory, k, v \in s), s)
      BY <2>10, <2>12, <3>1, ValEquation
    <3> QED
      BY <2>10, <3>1, <3>2 DEF Chooses, Down
  <2>14. TableSound(new.memory, new.allocated, table)
    BY <2>11, <2>12, TableStays
  <2>15. EntrySound(new.memory, new.allocated, entry)
    <3>1. \A op \in Operation : v # OpCode(op)
      BY DEF Plain, OperationCodes
    <3> QED
      BY <2>1, <2>4, <2>10, <2>13, <3>1 DEF EntrySound
  <2>16. TableSound(new.memory, new.allocated, new.table)
    <3>1. \A i \in 0 .. TableSize : new.table[i] = IF i = at THEN entry ELSE table[i]
      BY <2>1
    <3> HIDE DEF entry
    <3> QED
      BY <2>14, <2>15, <3>1 DEF TableSound
  <2>17. new.table \in [0 .. TableSize -> Entry]
    <3>1. entry \in Entry
      BY <1>1, <1>3, <2>4 DEF Entry, Node
    <3> HIDE DEF entry
    <3> QED
      BY <1>1, <2>1, <3>1
  <2>18. k \notin allocated /\ new.node = k /\ \A n \in new.allocated : n \in allocated \/ n = k
    BY <2>1, <2>3
  <2> QED
    BY <1>10, <2>1, <2>8, <2>9, <2>10, <2>11, <2>12, <2>13, <2>16, <2>17, <2>18 DEF new
<1> QED
  BY <1>7, <1>8, <1>9, <1>10, <1>11


-----------------------------------------------------------------------------
(* Types.  They hold for every client.  What a released slot still says is *)
(* the memory of a node; no variable or operand ever names a slot that was *)
(* not used.                                                               *)

Used(mem) == {False, True} \union { n \in Slot : mem[n].low # NullNode }

StoreTyped(mem, A, T) ==
  /\ mem \in Memory
  /\ {False, True} \subseteq A /\ A \subseteq Used(mem)
  /\ mem[False].var = 0 /\ mem[True].var = 0
  /\ \A n \in Used(mem) \ {False, True} :
       mem[n].var \in Variable /\ mem[n].low \in Used(mem) /\ mem[n].high \in Used(mem)
  /\ T \in [0 .. TableSize -> Entry]
  /\ \A i \in 0 .. TableSize : T[i].result \in Used(mem) \union {NullNode}

(* A call that has called has an operand to open.                          *)
Opening(f) == IF f.kind = "apply" THEN ~(IsTerminal(f.a) /\ IsTerminal(f.b)) ELSE ~IsTerminal(f.a)
FrameOn(U) == { f \in Frame : /\ f.a \in U /\ f.b \in U /\ f.low \in U \union {NullNode}
                              /\ f.stage # "enter" => Opening(f) }

RunTyped(U, fs, n, H) ==
  fs \in Seq(FrameOn(U)) /\ n \in U \union {NullNode} /\ H \subseteq U \union {NullNode}

ClientTyped ==
  /\ call \in Call
  /\ cursor \in 0 .. TableSize
  /\ made \subseteq Kind \union {"collect", "clash"}
  /\ calls \in Nat
  /\ outcome \in {"running", "crashed", "overflow"}

TypeInv ==
  /\ StoreTyped(memory, allocated, table)
  /\ RunTyped(Used(memory), frames, value, held)
  /\ ClientTyped

LEMMA UsedSlots ==
  ASSUME NEW mem
  PROVE  Used(mem) \subseteq Slot /\ Used(mem) \subseteq Node /\ NullNode \in Node
BY ROBDDAssumption DEF Used, Slot, Node, False, True

LEMMA TypeInvTypes ==
  ASSUME TypeInv
  PROVE  TypeOK
<1>1. Used(memory) \subseteq Slot /\ Used(memory) \subseteq Node /\ NullNode \in Node
  BY UsedSlots
<1>2. /\ memory \in Memory /\ {False, True} \subseteq allocated /\ allocated \subseteq Slot
      /\ table \in [0 .. TableSize -> Entry]
      /\ \A n \in allocated \ {False, True} :
           memory[n].var \in Variable /\ memory[n].low \in Slot /\ memory[n].high \in Slot
  BY <1>1 DEF TypeInv, StoreTyped
<1>3. frames \in Seq(Frame)
  BY DEF TypeInv, RunTyped, FrameOn
<1>4. value \in Node /\ held \subseteq Node
  BY <1>1 DEF TypeInv, RunTyped
<1> QED
  BY <1>2, <1>3, <1>4 DEF TypeOK, TypeInv, ClientTyped, Memory

LEMMA InitTyped ==
  ASSUME Init
  PROVE  TypeInv
<1>1. MaxNodes \in Nat \ {0, 1} /\ TableSize \in Nat
  BY ROBDDAssumption
<1>2. False \in Slot /\ True \in Slot /\ NullNode \in Node
  BY <1>1 DEF Slot, False, True, Node
<1>3. /\ memory \in Memory /\ \A n \in Slot : memory[n].var = 0 /\ memory[n].low = NullNode
  BY <1>2 DEF Init, Memory
<1>4. Used(memory) = {False, True}
  BY <1>3 DEF Used
<1>5. table \in [0 .. TableSize -> Entry] /\ \A i \in 0 .. TableSize : table[i].result = NullNode
  BY <1>2 DEF Init, Empty, Entry
<1>6. StoreTyped(memory, allocated, table)
  BY <1>2, <1>3, <1>4, <1>5 DEF StoreTyped, Init
<1>7. RunTyped(Used(memory), frames, value, held)
  BY <1>4 DEF RunTyped, Init
<1>8. ClientTyped
  BY <1>1, <1>2 DEF Init, ClientTyped, NoCall, Call, Kind, Operation
<1> QED
  BY <1>6, <1>7, <1>8 DEF TypeInv

LEMMA CountTyped ==
  ASSUME NEW mem, NEW A, NEW T, StoreTyped(mem, A, T), NEW n \in Node, NEW d \in Int
  PROVE  /\ StoreTyped(AddRef(mem, n, d), A, T)
         /\ Used(AddRef(mem, n, d)) = Used(mem)
<1> DEFINE mem2 == AddRef(mem, n, d)
<1>1. mem \in Memory
  BY DEF StoreTyped
<1>2. /\ mem2 \in Memory
      /\ \A m \in Slot : /\ mem2[m].var = mem[m].var /\ mem2[m].low = mem[m].low
                         /\ mem2[m].high = mem[m].high
  BY <1>1, CountChanges
<1> HIDE DEF mem2
<1>3. Used(mem2) = Used(mem)
  BY <1>2 DEF Used
<1>4. False \in Slot /\ True \in Slot /\ Used(mem) \subseteq Slot
  BY UsedSlots DEF Used
<1>5. StoreTyped(mem2, A, T)
  BY <1>2, <1>3, <1>4 DEF StoreTyped
<1> QED
  BY <1>3, <1>5 DEF mem2

LEMMA NodeTyped ==
  ASSUME StoreTyped(memory, allocated, table), NEW v \in Variable,
         NEW l \in Used(memory) \union {NullNode}, NEW h \in Used(memory) \union {NullNode}
  PROVE  LET new == findOrAddUnique(v, l, h)
         IN  /\ StoreTyped(new.memory, new.allocated, new.table)
             /\ Used(memory) \subseteq Used(new.memory)
             /\ new.node \in Used(new.memory) \union {NullNode}
<1> DEFINE at  == UniqueBucket(v, l, h)
           e   == table[at]
           new == findOrAddUnique(v, l, h)
<1>1. Used(memory) \subseteq Slot /\ l \in Node /\ h \in Node
  BY UsedSlots DEF Node
<1>2. at \in 0 .. TableSize
  <2>1. at \in Bucket
    BY <1>1, ROBDDAssumption
  <2>2. \A i \in Bucket : i \in 0 .. TableSize
    BY ROBDDAssumption DEF Bucket
  <2> QED
    BY <2>1, <2>2
<1>3. e.result \in Used(memory) \union {NullNode}
  BY <1>2 DEF StoreTyped
<1>4. CASE \/ l = h
           \/ l # h /\ e.result = NullNode /\ (FreeSlots = {} \/ NullNode \in {l, h})
  <2>1. /\ new.memory = memory /\ new.allocated = allocated /\ new.table = table
        /\ new.node \in {l, NullNode}
    BY <1>4 DEF findOrAddUnique, UniqueAt, Unchanged
  <2> HIDE DEF new
  <2> QED
    BY <2>1 DEF new
<1>5. CASE l # h /\ e.result # NullNode
  <2>1. /\ new.memory = AddRef(memory, e.result, 1) /\ new.allocated = allocated
        /\ new.table = table /\ new.node = e.result
    BY <1>5 DEF findOrAddUnique, UniqueAt, Unchanged
  <2> HIDE DEF new
  <2>2. e.result \in Node /\ 1 \in Int
    BY <1>1, <1>3 DEF Node
  <2> HIDE DEF e
  <2>3. /\ StoreTyped(AddRef(memory, e.result, 1), allocated, table)
        /\ Used(AddRef(memory, e.result, 1)) = Used(memory)
    BY <2>2, CountTyped
  <2> QED
    BY <1>3, <2>1, <2>3 DEF new
<1>6. CASE l # h /\ e.result = NullNode /\ FreeSlots # {} /\ NullNode \notin {l, h}
  <2> DEFINE k == FirstFree
             entry == [key |-> v, low |-> l, high |-> h, result |-> k]
             base == [memory EXCEPT ![k] = [var |-> v, low |-> l, high |-> h, ref |-> 1]]
             one == AddRef(base, l, 1)
             both == AddRef(one, h, 1)
  <2>1. /\ new.memory = both /\ new.allocated = allocated \union {k}
        /\ new.table = [table EXCEPT ![at] = entry] /\ new.node = k
    BY <1>6 DEF findOrAddUnique, UniqueAt, Unchanged, Link
  <2>2. k \in Slot \ allocated
    <3>1. FreeSlots \subseteq Nat
      BY ROBDDAssumption DEF FreeSlots, Slot
    <3>2. \E n \in FreeSlots : \A m \in FreeSlots : n <= m
      BY <1>6, <3>1, LeastExists
    <3>3. k \in FreeSlots
      BY <3>2 DEF FirstFree
    <3> QED
      BY <3>3 DEF FreeSlots
  <2> HIDE DEF k, new
  <2>3. l \in Used(memory) /\ h \in Used(memory) /\ k \notin {False, True} /\ v \in Nat
    BY <1>6, <2>2, ROBDDAssumption DEF StoreTyped, Variable
  <2>4. base \in Memory
    BY <1>1, <2>2, <2>3 DEF StoreTyped, Memory
  <2>5. /\ base[k].var = v /\ base[k].low = l /\ base[k].high = h
        /\ \A m \in Slot : m # k => base[m] = memory[m]
    BY <2>2 DEF StoreTyped, Memory
  <2> HIDE DEF base
  <2>6. Used(base) = Used(memory) \union {k}
    <3>1. l # NullNode
      BY <1>6
    <3> QED
      BY <2>2, <2>3, <2>5, <3>1 DEF Used
  <2>7. StoreTyped(base, allocated \union {k}, [table EXCEPT ![at] = entry])
    <3>1. entry \in Entry /\ entry.result = k
      BY <1>1, <2>2, <2>3 DEF Entry, Node
    <3> HIDE DEF entry
    <3>2. /\ [table EXCEPT ![at] = entry] \in [0 .. TableSize -> Entry]
          /\ \A i \in 0 .. TableSize :
               [table EXCEPT ![at] = entry][i].result \in Used(base) \union {NullNode}
      BY <1>2, <2>6, <3>1 DEF StoreTyped
    <3>3. /\ {False, True} \subseteq allocated \union {k} /\ allocated \union {k} \subseteq Used(base)
          /\ base[False].var = 0 /\ base[True].var = 0
      BY <1>1, <2>3, <2>5, <2>6 DEF StoreTyped
    <3>4. \A n \in Used(base) \ {False, True} :
            base[n].var \in Variable /\ base[n].low \in Used(base) /\ base[n].high \in Used(base)
      BY <1>1, <2>3, <2>5, <2>6 DEF StoreTyped
    <3> QED
      BY <2>4, <3>2, <3>3, <3>4 DEF StoreTyped
  <2>8. /\ StoreTyped(one, allocated \union {k}, [table EXCEPT ![at] = entry])
        /\ Used(one) = Used(base)
    BY <1>1, <2>7, CountTyped
  <2> HIDE DEF one
  <2>9. /\ StoreTyped(both, allocated \union {k}, [table EXCEPT ![at] = entry])
        /\ Used(both) = Used(one)
    BY <1>1, <2>8, CountTyped
  <2> HIDE DEF both
  <2> QED
    BY <2>1, <2>6, <2>8, <2>9 DEF new
<1> QED
  BY <1>4, <1>5, <1>6


LEMMA RunStays ==
  ASSUME NEW U, NEW U2, U \subseteq U2, NEW fs, NEW n, NEW H, RunTyped(U, fs, n, H)
  PROVE  RunTyped(U2, fs, n, H)
<1>1. FrameOn(U) \subseteq FrameOn(U2)
  BY DEF FrameOn
<1>2. \A f \in Seq(FrameOn(U)) : f \in Seq(FrameOn(U2))
  BY <1>1
<1> QED
  BY <1>2 DEF RunTyped

(* The frames of calls that go on.                                         *)
LEMMA TopTyped ==
  ASSUME NEW U, RunTyped(U, frames, value, held), frames # << >>
  PROVE  /\ Top \in FrameOn(U) /\ Top \in Frame
         /\ Below \in Seq(FrameOn(U))
         /\ Top = frames[Len(frames)]
<1>1. frames \in Seq(FrameOn(U))
  BY DEF RunTyped
<1>2. Below \in Seq(FrameOn(U)) /\ Top \in FrameOn(U)
  BY <1>1, BelowShape DEF Below, Top
<1> QED
  BY <1>2 DEF FrameOn, Top

LEMMA SubTyped ==
  ASSUME StoreTyped(memory, allocated, table),
         NEW f \in FrameOn(Used(memory)), Opening(f), NEW high \in BOOLEAN
  PROVE  SubCall(f, high) \in FrameOn(Used(memory))
<1> DEFINE U == Used(memory)
           g == SubOn(memory, f, high)
<1>1. f \in Frame /\ f.a \in U /\ f.b \in U /\ f.low \in U \union {NullNode}
  BY DEF FrameOn
<1>2. \A n \in U : /\ ~IsTerminal(n) => Down(memory, n, high) \in U /\ memory[n].var \in Variable
                   /\ IsTerminal(n) => memory[n].var = 0
  BY DEF StoreTyped, IsTerminal, Down
<1>3. /\ f.kind # "apply" => ~IsTerminal(f.a)
      /\ f.kind = "apply" => /\ OpensOn(memory, f.a, f.b) => ~IsTerminal(f.a)
                             /\ OpensSecondOn(memory, f.a, f.b) => ~IsTerminal(f.b)
  <2>1. ASSUME f.kind = "apply"
        PROVE  /\ OpensOn(memory, f.a, f.b) => ~IsTerminal(f.a)
               /\ OpensSecondOn(memory, f.a, f.b) => ~IsTerminal(f.b)
    BY DEF OpensOn, OpensSecondOn, ConsidersOn
  <2> QED
    BY <2>1 DEF Opening
<1>4. /\ g.kind = f.kind /\ g.op = f.op /\ g.var = f.var /\ g.bit = f.bit
      /\ g.stage = "enter" /\ g.low = NullNode
      /\ g.a = IF f.kind # "apply" \/ OpensOn(memory, f.a, f.b)
               THEN Down(memory, f.a, high) ELSE f.a
      /\ g.b = IF f.kind = "apply" /\ OpensSecondOn(memory, f.a, f.b)
               THEN Down(memory, f.b, high) ELSE f.b
  BY <1>1 DEF SubOn, Frame
<1>5. g.a \in Slot /\ g.b \in Slot => g \in Frame
  BY <1>1 DEF SubOn, Frame, Node
<1> HIDE DEF g, U
<1>6. g.a \in U /\ g.b \in U
  BY <1>1, <1>2, <1>3, <1>4
<1>7. g \in FrameOn(U)
  BY <1>4, <1>5, <1>6, UsedSlots DEF FrameOn, U
<1> QED
  BY <1>7, SubOnIsSubCall DEF g, U

LEMMA ReturnTyped ==
  ASSUME NEW U, RunTyped(U, frames, value, held), frames # << >>,
         NEW n \in U \union {NullNode}, Return(n)
  PROVE  RunTyped(U, frames', value', held')
<1>1. Below \in Seq(FrameOn(U))
  BY TopTyped
<1> QED
  BY <1>1 DEF Return, RunTyped

LEMMA InvokeTyped ==
  ASSUME NEW U, RunTyped(U, frames, value, held), frames # << >>, ClientTyped,
         NEW f \in FrameOn(U), NEW g \in FrameOn(U), Invoke(f, g)
  PROVE  RunTyped(U, frames', value', held') /\ ClientTyped'
<1>1. Below \in Seq(FrameOn(U))
  BY TopTyped
<1>2. Append(Append(Below, f), g) \in Seq(FrameOn(U))
  BY <1>1, AppendProperties
<1>3. RunTyped(U, frames', value', held')
  BY <1>2 DEF Invoke, RunTyped, client
<1>4. ClientTyped'
  BY DEF Invoke, ClientTyped, client
<1> QED
  BY <1>3, <1>4

LEMMA ReturnClient ==
  ASSUME ClientTyped, NEW n, Return(n)
  PROVE  ClientTyped'
BY DEF Return, ClientTyped

LEMMA CrashTyped ==
  ASSUME TypeInv, Crash
  PROVE  TypeInv'
BY DEF TypeInv, Crash, StoreTyped, RunTyped, ClientTyped, store, client

LEMMA EntersTyped ==
  ASSUME TypeInv, ApplyTerminals \/ ApplyLookup \/ RestrictEnter \/ AbstractEnter
  PROVE  TypeInv'
<1> DEFINE U == Used(memory)
<1>1. StoreTyped(memory, allocated, table) /\ RunTyped(U, frames, value, held) /\ ClientTyped
  BY DEF TypeInv
<1>2. frames # << >>
  BY DEF ApplyTerminals, ApplyLookup, RestrictEnter, AbstractEnter, Running
<1>3. /\ Top \in FrameOn(U) /\ Top \in Frame /\ Top.a \in U /\ Top.b \in U
      /\ Below \in Seq(FrameOn(U))
  BY <1>1, <1>2, TopTyped DEF FrameOn
<1>4. U \subseteq Slot /\ U \subseteq Node
  BY UsedSlots
<1>5. ASSUME Opening(Top), NEW f, f = [Top EXCEPT !.stage = "low"]
      PROVE  f \in FrameOn(U) /\ SubCall(Top, FALSE) \in FrameOn(U)
  <2>1. f \in FrameOn(U)
    BY <1>3, <1>5 DEF FrameOn, Frame, Opening
  <2> QED
    BY <1>1, <1>3, <1>5, <2>1, SubTyped
<1>6. \A n \in U : ~IsTerminal(n) => \A high \in BOOLEAN : Side(n, high) \in U
  BY <1>1 DEF StoreTyped, IsTerminal, Side
<1>7. ASSUME NEW n \in U, memory' = AddRef(memory, n, 1), Return(n), UNCHANGED <<allocated, table>>
      PROVE  TypeInv'
  <2>1. n \in Node /\ 1 \in Int
    BY <1>4
  <2>2. StoreTyped(memory', allocated', table') /\ Used(memory') = U
    BY <1>1, <1>7, <2>1, CountTyped
  <2>3. RunTyped(U, frames', value', held') /\ ClientTyped'
    BY <1>1, <1>2, <1>7, ReturnTyped, ReturnClient
  <2> HIDE DEF U
  <2> QED
    BY <2>2, <2>3 DEF TypeInv
<1>8. ASSUME NEW f \in FrameOn(U), NEW g \in FrameOn(U), Invoke(f, g)
      PROVE  TypeInv'
  <2>1. RunTyped(U, frames', value', held') /\ ClientTyped'
    BY <1>1, <1>2, <1>8, InvokeTyped
  <2>2. UNCHANGED store
    BY <1>8 DEF Invoke
  <2> QED
    BY <1>1, <2>1, <2>2 DEF TypeInv, store
<1> HIDE DEF U
<1>9. CASE ApplyTerminals
  <2> DEFINE n == Terminal(Combine(Top.op, Top.a = True, Top.b = True))
  <2>1. n \in U /\ Return(n) /\ UNCHANGED store
    BY <1>9 DEF ApplyTerminals, Terminal, U, Used
  <2> HIDE DEF n
  <2>2. RunTyped(U, frames', value', held') /\ ClientTyped'
    BY <1>1, <1>2, <2>1, ReturnTyped, ReturnClient
  <2> QED
    BY <1>1, <2>1, <2>2 DEF TypeInv, store, U
<1>10. CASE ApplyLookup
  <2> DEFINE e == table[ComputedAt(Top.a, Top.b, Top.op)]
  <2>1. CASE e.result = NullNode /\ Invoke([Top EXCEPT !.stage = "low"], SubCall(Top, FALSE))
    <3>1. Opening(Top)
      BY <1>10 DEF ApplyLookup, Opening
    <3> QED
      BY <1>5, <1>8, <2>1, <3>1
  <2>2. CASE memory' = AddRef(memory, e.result, 1) /\ Return(e.result) /\ e.result # NullNode
                /\ UNCHANGED <<allocated, table>>
    <3>1. ComputedAt(Top.a, Top.b, Top.op) \in 0 .. TableSize
      <4>1. Top.op \in Ops \union {"AND", "OR"} /\ Top.a \in Node /\ Top.b \in Node
        BY <1>3, <1>4 DEF Frame, Operation
      <4>2. ComputedBucket(Top.a, Top.b, Top.op) \in Bucket
        BY <4>1, ROBDDAssumption
      <4>3. \A i \in Bucket : i + 1 \in 0 .. TableSize
        BY ROBDDAssumption DEF Bucket
      <4> QED
        BY <4>2, <4>3 DEF ComputedAt
    <3>2. e.result \in U
      BY <1>1, <2>2, <3>1 DEF StoreTyped, U
    <3> QED
      BY <1>7, <2>2, <3>2
  <2>3. CASE Crash
    BY <2>3, CrashTyped
  <2> QED
    BY <1>10, <2>1, <2>2, <2>3 DEF ApplyLookup
<1>11. CASE RestrictEnter
  <2>1. CASE ~IsTerminal(Top.a) /\ Var(Top.a) # Top.var
    <3>1. Opening(Top) /\ Invoke([Top EXCEPT !.stage = "low"], SubCall(Top, FALSE))
      BY <1>11, <2>1 DEF RestrictEnter, Opening
    <3> QED
      BY <1>5, <1>8, <3>1
  <2>2. CASE ~(~IsTerminal(Top.a) /\ Var(Top.a) # Top.var)
    <3> DEFINE n == IF IsTerminal(Top.a) THEN Top.a ELSE Side(Top.a, Top.bit)
    <3>1. memory' = AddRef(memory, n, 1) /\ Return(n) /\ UNCHANGED <<allocated, table>>
      BY <1>11, <2>2 DEF RestrictEnter
    <3>2. n \in U
      BY <1>3, <1>6 DEF Frame
    <3> HIDE DEF n
    <3> QED
      BY <1>7, <3>1, <3>2
  <2> QED
    BY <2>1, <2>2
<1>12. CASE AbstractEnter
  <2>1. CASE memory' = AddRef(memory, Top.a, 1) /\ Return(Top.a) /\ UNCHANGED <<allocated, table>>
    BY <1>3, <1>7, <2>1
  <2>2. CASE /\ ~Beyond(Top.a, Top.var)
             /\ frames' = Append(Below, [Top EXCEPT !.kind = "apply", !.a = Side(Top.a, FALSE),
                                                    !.b = Side(Top.a, TRUE)])
             /\ UNCHANGED <<store, value, cursor, outcome, client>>
    <3> DEFINE f == [Top EXCEPT !.kind = "apply", !.a = Side(Top.a, FALSE), !.b = Side(Top.a, TRUE)]
    <3>1. Side(Top.a, FALSE) \in U /\ Side(Top.a, TRUE) \in U
      BY <1>3, <1>6, <2>2 DEF Beyond
    <3>2. f \in FrameOn(U)
      <4>1. Top.stage = "enter"
        BY <1>12 DEF AbstractEnter
      <4> QED
        BY <1>3, <1>4, <3>1, <4>1 DEF FrameOn, Frame, Kind
    <3>3. frames' \in Seq(FrameOn(U))
      <4> HIDE DEF f
      <4>1. Append(Below, f) \in Seq(FrameOn(U))
        BY <1>3, <3>2, AppendProperties
      <4> QED
        BY <2>2, <4>1 DEF f
    <3>4. RunTyped(U, frames', value', held')
      BY <1>1, <2>2, <3>3 DEF RunTyped, client
    <3>5. ClientTyped'
      BY <1>1, <2>2 DEF ClientTyped, client
    <3> QED
      BY <1>1, <2>2, <3>4, <3>5 DEF TypeInv, store, U
  <2>3. CASE /\ ~Beyond(Top.a, Top.var)
             /\ Invoke([Top EXCEPT !.stage = "low"], SubCall(Top, FALSE))
    <3>1. Opening(Top)
      BY <1>12, <2>3 DEF AbstractEnter, Opening, Beyond
    <3> QED
      BY <1>5, <1>8, <2>3, <3>1
  <2> QED
    BY <1>12, <2>1, <2>2, <2>3 DEF AbstractEnter
<1> QED
  BY <1>9, <1>10, <1>11, <1>12


LEMMA LowTyped ==
  ASSUME TypeInv, LowDone
  PROVE  TypeInv'
<1> DEFINE U == Used(memory)
           f == [Top EXCEPT !.stage = "high", !.low = value]
<1>1. StoreTyped(memory, allocated, table) /\ RunTyped(U, frames, value, held) /\ ClientTyped
  BY DEF TypeInv
<1>2. frames # << >> /\ Top.stage = "low" /\ Invoke(f, SubCall(Top, TRUE))
  BY DEF LowDone, Running
<1>3. Top \in FrameOn(U) /\ Top \in Frame
  BY <1>1, <1>2, TopTyped
<1>4. Opening(Top)
  BY <1>2, <1>3 DEF FrameOn
<1>5. SubCall(Top, TRUE) \in FrameOn(U)
  BY <1>1, <1>3, <1>4, SubTyped
<1>6. f \in FrameOn(U)
  <2>1. value \in U \union {NullNode} /\ value \in Node
    BY <1>1, UsedSlots DEF RunTyped
  <2> QED
    BY <1>3, <1>4, <2>1 DEF FrameOn, Frame, Opening
<1> HIDE DEF f, U
<1>7. RunTyped(U, frames', value', held') /\ ClientTyped'
  BY <1>1, <1>2, <1>5, <1>6, InvokeTyped
<1>8. UNCHANGED store
  BY <1>2 DEF Invoke
<1> QED
  BY <1>1, <1>7, <1>8 DEF TypeInv, store, U

LEMMA HighTyped ==
  ASSUME TypeInv, HighDone
  PROVE  TypeInv'
<1> DEFINE U == Used(memory)
           v == IF Top.kind = "apply" THEN TopVar(Top.a, Top.b) ELSE Var(Top.a)
           new == findOrAddUnique(v, Top.low, value)
           U2 == Used(new.memory)
<1>1. StoreTyped(memory, allocated, table) /\ RunTyped(U, frames, value, held) /\ ClientTyped
  BY DEF TypeInv
<1>2. frames # << >> /\ Top.stage = "high"
  BY DEF HighDone, Running
<1>3. /\ Top \in FrameOn(U) /\ Top \in Frame /\ Top.a \in U /\ Top.b \in U /\ Opening(Top)
      /\ Top.low \in U \union {NullNode} /\ value \in U \union {NullNode}
  BY <1>1, <1>2, TopTyped DEF FrameOn, RunTyped
<1>4. v \in Variable
  <2>1. \A n \in U : IF IsTerminal(n) THEN memory[n].var = 0 ELSE memory[n].var \in Variable
    BY <1>1 DEF StoreTyped, IsTerminal
  <2>2. CASE Top.kind = "apply"
    <3>1. TopVarOn(memory, Top.a, Top.b) \in Variable
      BY <1>3, <2>1, <2>2, Opened DEF Opening
    <3> QED
      BY <2>2, <3>1, SubOnIsSubCall
  <2>3. CASE Top.kind # "apply"
    BY <1>3, <2>1, <2>3 DEF Opening, Var
  <2> QED
    BY <2>2, <2>3
<1>5. /\ StoreTyped(new.memory, new.allocated, new.table)
      /\ U \subseteq U2
      /\ new.node \in U2 \union {NullNode}
  <2> HIDE DEF v
  <2> QED
    BY <1>1, <1>3, <1>4, NodeTyped
<1>6. CASE ~new.ok
  BY <1>6, CrashTyped DEF HighDone
<1>7. CASE new.ok
  <2> DEFINE one == AddRef(new.memory, Top.low, -1)
             letGo == AddRef(one, value, -1)
             at == ComputedAt(Top.a, Top.b, Top.op)
             entry == [key |-> OpCode(Top.op), low |-> Top.a, high |-> Top.b, result |-> new.node]
  <2>1. /\ allocated' = new.allocated /\ Return(new.node)
        /\ Top.kind = "apply" => /\ memory' = AddRef(letGo, new.node, 1)
                                 /\ table' = [new.table EXCEPT ![at] = entry]
        /\ Top.kind # "apply" => memory' = letGo /\ table' = new.table
    BY <1>7 DEF HighDone
  <2> HIDE DEF new
  <2>2. /\ Top.low \in Node /\ value \in Node /\ new.node \in Node
        /\ 1 \in Int /\ -1 \in Int /\ U2 \subseteq Slot
    BY <1>3, <1>5, UsedSlots
  <2>3. StoreTyped(one, new.allocated, new.table) /\ Used(one) = U2
    BY <1>5, <2>2, CountTyped
  <2> HIDE DEF one
  <2>4. StoreTyped(letGo, new.allocated, new.table) /\ Used(letGo) = U2
    BY <2>2, <2>3, CountTyped
  <2> HIDE DEF letGo
  <2>5. StoreTyped(AddRef(letGo, new.node, 1), new.allocated, new.table)
          /\ Used(AddRef(letGo, new.node, 1)) = U2
    BY <2>2, <2>4, CountTyped
  <2> DEFINE last == AddRef(letGo, new.node, 1)
  <2>6. StoreTyped(last, new.allocated, [new.table EXCEPT ![at] = entry])
    <3>1. at \in 0 .. TableSize /\ OpCode(Top.op) \in Nat
      <4>1. Top.op \in Ops \union {"AND", "OR"} /\ Top.a \in Node /\ Top.b \in Node
        BY <1>3, UsedSlots DEF Frame, Operation
      <4>2. ComputedBucket(Top.a, Top.b, Top.op) \in Bucket
        BY <4>1, ROBDDAssumption
      <4>3. \A i \in Bucket : i + 1 \in 0 .. TableSize
        BY ROBDDAssumption DEF Bucket
      <4> QED
        BY <4>1, <4>2, <4>3, ROBDDAssumption DEF ComputedAt
    <3>2. entry \in Entry /\ entry.result = new.node
      <4>1. Top.a \in Node /\ Top.b \in Node
        BY <1>3, UsedSlots
      <4> QED
        BY <2>2, <3>1, <4>1 DEF Entry
    <3> HIDE DEF entry, at, last
    <3>3. new.table \in [0 .. TableSize -> Entry]
            /\ \A i \in 0 .. TableSize : new.table[i].result \in U2 \union {NullNode}
      BY <1>5 DEF StoreTyped
    <3>4. \A i \in 0 .. TableSize :
            [new.table EXCEPT ![at] = entry][i] = IF i = at THEN entry ELSE new.table[i]
      BY <3>3
    <3>5. [new.table EXCEPT ![at] = entry] \in [0 .. TableSize -> Entry]
      BY <3>2, <3>3
    <3>6. \A i \in 0 .. TableSize :
            [new.table EXCEPT ![at] = entry][i].result \in U2 \union {NullNode}
      BY <1>5, <3>2, <3>3, <3>4
    <3>7. StoreTyped(last, new.allocated, new.table) /\ Used(last) = U2
      BY <2>5 DEF last
    <3> QED
      BY <3>5, <3>6, <3>7 DEF StoreTyped
  <2>7. StoreTyped(memory', allocated', table') /\ Used(memory') = U2
    BY <2>1, <2>4, <2>5, <2>6
  <2>8. RunTyped(U2, frames', value', held') /\ ClientTyped'
    <3>1. RunTyped(U2, frames, value, held)
      BY <1>1, <1>5, RunStays
    <3> HIDE DEF U2
    <3> QED
      BY <1>1, <1>2, <1>5, <2>1, <3>1, ReturnTyped, ReturnClient
  <2> QED
    BY <2>7, <2>8 DEF TypeInv
<1> QED
  BY <1>6, <1>7

LEMMA ClientSteps ==
  ASSUME TypeInv, mkNode \/ apply \/ restrict \/ existsAbstract \/ forallAbstract \/ garbageCollect
  PROVE  TypeInv'
<1> DEFINE U == Used(memory)
<1>1. StoreTyped(memory, allocated, table) /\ RunTyped(U, frames, value, held) /\ ClientTyped
  BY DEF TypeInv
<1>2. U \subseteq Slot /\ U \subseteq Node /\ NullNode \in Node /\ False \in U /\ True \in U
  BY UsedSlots DEF Used
<1>3. ASSUME NEW kind \in Kind \ {"mkNode"}, NEW a \in held, NEW b \in held, NEW op \in Operation,
             NEW v \in Nat, NEW bit \in BOOLEAN, Begin(kind, a, b, op, v, bit)
      PROVE  TypeInv'
  <2>1. a \in U \union {NullNode} /\ b \in U \union {NullNode} /\ a \in Node /\ b \in Node
    BY <1>1, <1>2 DEF RunTyped
  <2>2. UNCHANGED <<store, cursor, outcome>>
    BY <1>3 DEF Begin
  <2>3. ClientTyped'
    BY <1>1, <1>3, <2>1, <2>2 DEF Begin, Record, ClientTyped, Call
  <2>4. RunTyped(U, frames', value', held')
    <3>1. CASE NullNode \in {a, b}
      BY <1>1, <1>3, <3>1 DEF Begin, RunTyped
    <3>2. CASE NullNode \notin {a, b}
      <4> DEFINE f == NewFrame(kind, a, b, op, v, bit)
      <4>1. f \in FrameOn(U)
        BY <1>2, <2>1, <3>2 DEF NewFrame, FrameOn, Frame
      <4>2. frames' = <<f>> /\ UNCHANGED <<value, held>>
        BY <1>3, <3>2 DEF Begin
      <4> HIDE DEF f
      <4>3. <<f>> \in Seq(FrameOn(U))
        BY <4>1
      <4> QED
        BY <1>1, <4>2, <4>3 DEF RunTyped
    <3> QED
      BY <3>1, <3>2
  <2> QED
    BY <1>1, <2>2, <2>3, <2>4 DEF TypeInv, store
<1>4. CASE mkNode
  <2>1. PICK v \in 0 .. max_variables, low \in held, high \in held :
          LET new == findOrAddUnique(v, low, high)
          IN  /\ Record([NoCall EXCEPT !.kind = "mkNode", !.a = low, !.b = high, !.var = v],
                        IF v \in OperationCodes THEN "clash" ELSE "mkNode")
              /\ IF v >= max_variables
                 THEN value' = NullNode /\ UNCHANGED <<store, outcome>>
                 ELSE /\ memory' = new.memory /\ allocated' = new.allocated /\ table' = new.table
                      /\ value' = IF new.ok THEN new.node ELSE NullNode
                      /\ outcome' = IF new.ok THEN outcome ELSE "crashed"
              /\ held' = held \union {value'}
              /\ UNCHANGED <<frames, cursor>>
    BY <1>4 DEF mkNode
  <2> DEFINE new == findOrAddUnique(v, low, high)
  <2>5. low \in U \union {NullNode} /\ high \in U \union {NullNode} /\ low \in Node /\ high \in Node
    BY <1>1, <1>2 DEF RunTyped
  <2>2. ClientTyped'
    <3>1. [NoCall EXCEPT !.kind = "mkNode", !.a = low, !.b = high, !.var = v] \in Call
      <4>1. v \in Nat /\ low \in Node /\ high \in Node
        BY <2>5, ROBDDAssumption
      <4>2. NoCall \in Call
        BY <1>2 DEF NoCall, Call, Operation
      <4> QED
        BY <4>1, <4>2 DEF Call, Kind
    <3>2. outcome' \in {"running", "crashed", "overflow"}
      BY <1>1, <2>1 DEF ClientTyped
    <3> HIDE DEF new
    <3> QED
      BY <1>1, <2>1, <3>1, <3>2 DEF Record, ClientTyped, NoCall, Kind
  <2>3. CASE v >= max_variables
    <3>1. RunTyped(U, frames', value', held')
      BY <1>1, <2>1, <2>3 DEF RunTyped
    <3> QED
      BY <1>1, <2>1, <2>2, <2>3, <3>1 DEF TypeInv, store
  <2>4. CASE ~(v >= max_variables)
    <3>1. v \in Variable
      BY <2>4, ROBDDAssumption DEF Variable
    <3>2. /\ StoreTyped(new.memory, new.allocated, new.table)
          /\ U \subseteq Used(new.memory)
          /\ new.node \in Used(new.memory) \union {NullNode}
      BY <1>1, <2>5, <3>1, NodeTyped
    <3>3. /\ memory' = new.memory /\ allocated' = new.allocated /\ table' = new.table
          /\ value' \in {new.node, NullNode} /\ held' = held \union {value'} /\ frames' = frames
      BY <2>1, <2>4
    <3> HIDE DEF new
    <3>4. RunTyped(Used(new.memory), frames, value, held)
      BY <1>1, <3>2, RunStays
    <3>5. RunTyped(Used(new.memory), frames', value', held')
      BY <3>2, <3>3, <3>4 DEF RunTyped
    <3> QED
      BY <2>2, <3>2, <3>3, <3>5 DEF TypeInv
  <2> QED
    BY <2>3, <2>4
<1>5. \A v \in Variable : v \in Nat
  BY ROBDDAssumption DEF Variable
<1>6. CASE apply
  <2>1. PICK a \in held, b \in held, op \in Ops : Begin("apply", a, b, op, 0, FALSE)
    BY <1>6 DEF apply
  <2> QED
    BY <1>3, <2>1 DEF Kind, Operation
<1>7. CASE restrict
  <2>1. PICK a \in held, v \in Variable, bit \in BOOLEAN : Begin("restrict", a, a, "AND", v, bit)
    BY <1>7 DEF restrict
  <2> QED
    BY <1>3, <1>5, <2>1 DEF Kind, Operation
<1>8. CASE existsAbstract
  <2>1. PICK a \in held, v \in Variable : Begin("abstract", a, a, "OR", v, FALSE)
    BY <1>8 DEF existsAbstract
  <2> QED
    BY <1>3, <1>5, <2>1 DEF Kind, Operation
<1>9. CASE forallAbstract
  <2>1. PICK a \in held, v \in Variable : Begin("abstract", a, a, "AND", v, FALSE)
    BY <1>9 DEF forallAbstract
  <2> QED
    BY <1>3, <1>5, <2>1 DEF Kind, Operation
<1>10. CASE garbageCollect
  <2>1. NoCall \in Call /\ 0 \in 0 .. TableSize
    BY <1>2, ROBDDAssumption DEF NoCall, Call, Operation
  <2>2. ClientTyped'
    BY <1>1, <1>10, <2>1 DEF garbageCollect, ClientTyped
  <2> QED
    BY <1>1, <1>10, <2>2 DEF garbageCollect, TypeInv, RunTyped, store
<1> QED
  BY <1>4, <1>6, <1>7, <1>8, <1>9, <1>10

LEMMA SweepSteps ==
  ASSUME TypeInv, CollectEntry \/ CollectDone
  PROVE  TypeInv'
<1> DEFINE U == Used(memory)
<1>1. StoreTyped(memory, allocated, table) /\ RunTyped(U, frames, value, held) /\ ClientTyped
  BY DEF TypeInv
<1>2. U \subseteq Slot /\ U \subseteq Node /\ NullNode \in Node
  BY UsedSlots
<1>3. CASE CollectDone
  <2>1. ClientTyped'
    BY <1>1, <1>3, ROBDDAssumption DEF CollectDone, ClientTyped, client
  <2> QED
    BY <1>1, <1>3, <2>1 DEF CollectDone, TypeInv, RunTyped, store, client
<1>4. CASE CollectEntry
  <2>1. PICK i \in FilledFrom(cursor) :
          LET n == table[i].result
          IN  /\ IF Uncounted(n)
                 THEN /\ memory' = AddRef(AddRef(memory, memory[n].low, -1), memory[n].high, -1)
                      /\ allocated' = allocated \ {n}
                      /\ table' = [table EXCEPT ![i].result = NullNode]
                 ELSE UNCHANGED store
              /\ cursor' = i + 1
              /\ UNCHANGED <<frames, value, client, outcome>>
    BY <1>4 DEF CollectEntry
  <2>2. i \in cursor .. TableSize - 1 /\ table[i].result # NullNode
    BY <2>1 DEF FilledFrom
  <2>3. i \in 0 .. TableSize /\ i + 1 \in 0 .. TableSize
    BY <1>1, <2>2, ROBDDAssumption DEF ClientTyped
  <2>4. ClientTyped'
    BY <1>1, <2>1, <2>3 DEF ClientTyped, client
  <2>5. UNCHANGED <<frames, value, held>>
    BY <2>1 DEF client
  <2> DEFINE n == table[i].result
  <2>6. n \in U
    BY <1>1, <2>2, <2>3 DEF StoreTyped
  <2>7. CASE ~Uncounted(n)
    <3>1. UNCHANGED store
      BY <2>1, <2>7
    <3> QED
      BY <1>1, <2>4, <2>5, <3>1 DEF TypeInv, store
  <2>8. CASE Uncounted(n)
    <3> DEFINE one == AddRef(memory, memory[n].low, -1)
               both == AddRef(one, memory[n].high, -1)
    <3>1. /\ memory' = both /\ allocated' = allocated \ {n}
          /\ table' = [table EXCEPT ![i].result = NullNode]
      BY <2>1, <2>8
    <3>2. n \notin {False, True} /\ memory[n].low \in Node /\ memory[n].high \in Node
      BY <1>1, <1>2, <2>6, <2>8 DEF Uncounted, IsTerminal, StoreTyped
    <3>3. StoreTyped(one, allocated, table) /\ Used(one) = U
      BY <1>1, <3>2, CountTyped
    <3> HIDE DEF one
    <3>4. StoreTyped(both, allocated, table) /\ Used(both) = U
      BY <3>2, <3>3, CountTyped
    <3> HIDE DEF both, n, U
    <3>5. /\ table' \in [0 .. TableSize -> Entry]
          /\ \A j \in 0 .. TableSize : table'[j].result \in U \union {NullNode}
      <4>1. table \in [0 .. TableSize -> Entry]
              /\ \A j \in 0 .. TableSize : table[j].result \in U \union {NullNode}
        BY <1>1 DEF StoreTyped, U
      <4> DEFINE entry == [table[i] EXCEPT !.result = NullNode]
      <4>2. entry \in Entry /\ entry.result = NullNode
        BY <1>2, <2>3, <4>1 DEF Entry
      <4>3. table' = [table EXCEPT ![i] = entry]
        BY <3>1
      <4> HIDE DEF entry
      <4>4. table' \in [0 .. TableSize -> Entry]
        BY <4>1, <4>2, <4>3
      <4>5. \A j \in 0 .. TableSize : table'[j] = IF j = i THEN entry ELSE table[j]
        BY <4>1, <4>3
      <4> QED
        BY <4>1, <4>2, <4>4, <4>5
    <3>6. StoreTyped(memory', allocated', table')
      <4>1. {False, True} \subseteq allocated' /\ allocated' \subseteq U
        BY <1>1, <3>1, <3>2 DEF StoreTyped, U
      <4> QED
        BY <3>1, <3>4, <3>5, <4>1 DEF StoreTyped
    <3> QED
      BY <1>1, <2>4, <2>5, <3>1, <3>4, <3>6 DEF TypeInv
  <2> QED
    BY <2>7, <2>8
<1> QED
  BY <1>3, <1>4

LEMMA StepTyped ==
  ASSUME TypeInv, [Next]_vars
  PROVE  TypeInv'
<1>1. CASE Next
  BY <1>1, EntersTyped, LowTyped, HighTyped, ClientSteps, SweepSteps DEF Next, Recursion
<1>2. CASE UNCHANGED vars
  BY <1>2 DEF vars, TypeInv, StoreTyped, RunTyped, ClientTyped
<1> QED
  BY <1>1, <1>2

(* Every node, entry, frame and count keeps its type: what a call opens,   *)
(* makes or remembers names slots that were used, also those released      *)
(* (ROBDD.cpp, findOrAddUnique and garbageCollect).                        *)
THEOREM TypeCorrect == Spec => []TypeOK
<1>1. Init => TypeInv
  BY InitTyped
<1>2. TypeInv /\ [Next]_vars => TypeInv'
  BY StepTyped
<1>3. TypeInv => TypeOK
  BY TypeInvTypes
<1> QED
  BY <1>1, <1>2, <1>3, PTL DEF Spec


-----------------------------------------------------------------------------
(* What the diagrams say, while nothing is released.                       *)

Semantics ==
  /\ Diagram(memory, allocated)
  /\ TableSound(memory, allocated, table)
  /\ held \subseteq allocated \union {NullNode}
  /\ Stacked(memory, allocated, frames, call)
  /\ Answered(memory, allocated, frames, call, value)

LEMMA SameSub ==
  ASSUME NEW mem, NEW f \in Frame, NEW g \in Frame, SameCall(f, g)
  PROVE  /\ \A high : SubOn(mem, f, high) = SubOn(mem, g, high)
         /\ Recurses(mem, f) <=> Recurses(mem, g)
         /\ SplitVar(mem, f) = SplitVar(mem, g)
<1>1. ASSUME NEW high
      PROVE  SubOn(mem, f, high) = SubOn(mem, g, high)
  BY DEF SubOn, Frame, SameCall
<1> QED
  BY <1>1 DEF SameCall, Recurses, SplitVar

LEMMA SafeFrames ==
  ASSUME TypeInv
  PROVE  /\ memory \in Memory /\ table \in [0 .. TableSize -> Entry]
         /\ frames \in Seq(Frame) /\ value \in Node
         /\ frames # << >> => Top \in Frame
BY TypeInvTypes, BelowShape DEF TypeOK, Memory, Top

LEMMA SafeReturn ==
  ASSUME TypeInv, Semantics, frames # << >>, NEW mem, NEW D, NEW T,
         Diagram(mem, D), Grown(memory, allocated, mem, D), TableSound(mem, D, T),
         NEW n, Right(mem, D, Top, n), Return(n),
         memory' = mem, allocated' = D, table' = T
  PROVE  Semantics'
<1>1. frames \in Seq(Frame)
  BY SafeFrames
<1>2. Stacked(mem, D, frames, call)
  BY <1>1, StackStays DEF Semantics
<1>3. Stacked(mem, D, Below, call) /\ Answered(mem, D, Below, call, n)
  BY <1>1, <1>2, Returns DEF Top, Below
<1>4. held' \subseteq D \union {NullNode}
  <2>1. n \in D \union {NullNode}
    BY DEF Right
  <2> QED
    BY <2>1 DEF Return, Semantics, Grown
<1> QED
  BY <1>3, <1>4 DEF Semantics, Return

LEMMA SafeInvoke ==
  ASSUME TypeInv, Semantics, frames # << >>, NEW f \in Frame, SameCall(Top, f),
         Proper(memory, allocated, f), f.stage # "enter",
         Invoke(f, SubCall(Top, f.stage = "high"))
  PROVE  Semantics'
<1> DEFINE g == SubOn(memory, f, f.stage = "high")
           s == Append(Append(Below, f), g)
<1>1. frames \in Seq(Frame) /\ Top \in Frame
  BY SafeFrames
<1>2. SubCall(Top, f.stage = "high") = g
  <2>1. \A high : SubCall(Top, high) = SubOn(memory, Top, high)
    BY SubOnIsSubCall
  <2>2. \A high : SubOn(memory, Top, high) = SubOn(memory, f, high)
    <3>1. Top \in Frame /\ f \in Frame /\ SameCall(Top, f)
      BY <1>1
    <3> DEFINE t == Top
    <3> HIDE DEF g, s, t
    <3>2. t \in Frame /\ f \in Frame /\ SameCall(t, f)
      BY <3>1 DEF t
    <3>3. \A high : SubOn(memory, t, high) = SubOn(memory, f, high)
      BY <3>2, SameSub
    <3> QED
      BY <3>3 DEF t
  <2> QED
    BY <2>1, <2>2, Zenon
<1>3. s \in Seq(Frame) /\ s # << >> /\ s[Len(s)] = g /\ Stacked(memory, allocated, s, call)
  BY <1>1, CallsOn DEF Semantics, Below, Top
<1>4. g.stage = "enter"
  BY SubCalls DEF Semantics, Proper
<1>5. UNCHANGED <<store, value, held, call>>
  BY DEF Invoke, client
<1>6. CASE frames' = frames
  BY <1>5, <1>6 DEF Semantics, store
<1>7. CASE frames' = s
  <2> HIDE DEF s, g
  <2>1. Answered(memory, allocated, s, call, value)
    BY <1>3, <1>4 DEF Answered
  <2> QED
    BY <1>3, <1>5, <1>7, <2>1 DEF Semantics, store
<1> QED
  BY <1>2, <1>6, <1>7 DEF Invoke

LEMMA TopProper ==
  ASSUME TypeInv, Semantics, frames # << >>
  PROVE  /\ Top \in Frame /\ Proper(memory, allocated, Top)
         /\ Top.a \in allocated /\ Top.b \in allocated
         /\ Top.stage # "enter" =>
              Right(memory, allocated, SubOn(memory, Top, Top.stage = "high"), value)
<1>1. frames \in Seq(Frame) /\ Len(frames) \in 1 .. Len(frames)
  BY SafeFrames, BelowShape
<1>2. Proper(memory, allocated, Top)
  BY <1>1 DEF Semantics, Stacked, Top
<1>3. Top.stage # "enter" => Right(memory, allocated, SubOn(memory, Top, Top.stage = "high"), value)
  BY DEF Semantics, Answered, Top
<1> QED
  BY <1>2, <1>3, SafeFrames DEF Proper

LEMMA Combines ==
  ASSUME NEW op, NEW x \in BOOLEAN, NEW y \in BOOLEAN
  PROVE  /\ Combine(op, x, y) \in BOOLEAN
         /\ op \in {"AND", "OR"} => Combine(op, x, x) = x
BY DEF Combine


LEMMA SafeApplies ==
  ASSUME TypeInv, Semantics, ApplyTerminals \/ ApplyLookup
  PROVE  Semantics'
<1>1. frames # << >> /\ Top.kind = "apply" /\ Top.stage = "enter"
  BY DEF ApplyTerminals, ApplyLookup, Running
<1>2. /\ Top \in Frame /\ Proper(memory, allocated, Top)
      /\ Top.a \in allocated /\ Top.b \in allocated
  BY <1>1, TopProper
<1>3. /\ Diagram(memory, allocated) /\ TableSound(memory, allocated, table)
      /\ Grown(memory, allocated, memory, allocated)
      /\ memory \in Memory /\ table \in [0 .. TableSize -> Entry]
  BY SafeFrames DEF Semantics, Grown
<1>4. CASE ApplyTerminals
  <2> DEFINE n == Terminal(Combine(Top.op, Top.a = True, Top.b = True))
  <2>1. IsTerminal(Top.a) /\ IsTerminal(Top.b) /\ Return(n) /\ UNCHANGED store
    BY <1>4 DEF ApplyTerminals
  <2>2. n \in allocated /\ IsTerminal(n)
          /\ (n = True <=> Combine(Top.op, Top.a = True, Top.b = True))
    BY <1>3, DiagramShape DEF Terminal, IsTerminal, True, False
  <2> HIDE DEF n
  <2>3. \A s : Val(memory, allocated, n, s) = Combine(Top.op, Val(memory, allocated, Top.a, s),
                                                              Val(memory, allocated, Top.b, s))
    <3> TAKE s
    <3>1. /\ Val(memory, allocated, n, s) = (n = True)
          /\ Val(memory, allocated, Top.a, s) = (Top.a = True)
          /\ Val(memory, allocated, Top.b, s) = (Top.b = True)
      BY <1>2, <1>3, <2>1, <2>2, ValEquation
    <3>2. (n = True) = Combine(Top.op, Top.a = True, Top.b = True)
      BY <2>2, Combines
    <3> QED
      BY <3>1, <3>2
  <2>4. Right(memory, allocated, Top, n)
    BY <1>1, <1>2, <2>2, <2>3 DEF Right
  <2> QED
    BY <1>1, <1>3, <2>1, <2>4, SafeReturn DEF store
<1>5. CASE ApplyLookup
  <2> DEFINE e == table[ComputedAt(Top.a, Top.b, Top.op)]
             f == [Top EXCEPT !.stage = "low"]
  <2>1. CASE Invoke(f, SubCall(Top, FALSE))
    <3>1. /\ f \in Frame /\ f.stage = "low" /\ SameCall(Top, f) /\ f.a = Top.a /\ f.b = Top.b
          /\ f.kind = Top.kind /\ f.op = Top.op
      BY <1>2 DEF Frame, SameCall
    <3>2. Recurses(memory, Top)
      BY <1>1, <1>5 DEF ApplyLookup, Recurses
    <3> HIDE DEF f
    <3>3. Recurses(memory, f)
      BY <1>2, <3>1, <3>2, SameSub
    <3>4. Proper(memory, allocated, f)
      BY <1>2, <3>1, <3>3 DEF Proper
    <3>5. (f.stage = "high") = FALSE
      BY <3>1
    <3> QED
      BY <1>1, <2>1, <3>1, <3>4, <3>5, SafeInvoke
  <2>2. CASE /\ e.result # NullNode /\ Matches(e, OpCode(Top.op), Top.a, Top.b)
             /\ memory' = AddRef(memory, e.result, 1) /\ Return(e.result)
             /\ UNCHANGED <<allocated, table>>
    <3>1. ComputedAt(Top.a, Top.b, Top.op) \in 0 .. TableSize
      <4>1. Top.op \in Ops \union {"AND", "OR"} /\ Top.a \in Node /\ Top.b \in Node
        BY <1>2 DEF Frame, Operation, Node
      <4>2. ComputedBucket(Top.a, Top.b, Top.op) \in Bucket
        BY <4>1, ROBDDAssumption
      <4>3. \A i \in Bucket : i + 1 \in 0 .. TableSize
        BY ROBDDAssumption DEF Bucket
      <4> QED
        BY <4>2, <4>3 DEF ComputedAt
    <3>2. EntrySound(memory, allocated, e)
      BY <1>3, <3>1 DEF TableSound
    <3> HIDE DEF e
    <3>3. Right(memory, allocated, Top, e.result)
      BY <1>1, <1>2, <2>2, <3>2 DEF Right, EntrySound, Matches, Frame
    <3>4. e.result \in Node /\ 1 \in Int
      BY <1>3, <2>2, <3>2, DiagramShape DEF EntrySound, Node
    <3> DEFINE mem == AddRef(memory, e.result, 1)
    <3>5. Diagram(mem, allocated) /\ Grown(memory, allocated, mem, allocated)
      BY <1>3, <3>4, CountChanges
    <3> HIDE DEF mem
    <3>6. TableSound(mem, allocated, table) /\ Right(mem, allocated, Top, e.result)
      BY <1>3, <3>3, <3>5, TableStays, RightStays
    <3>7. memory' = mem /\ Return(e.result) /\ allocated' = allocated /\ table' = table
      BY <2>2 DEF mem
    <3> QED
      BY <1>1, <3>5, <3>6, <3>7, SafeReturn
  <2>3. CASE Crash
    BY <2>3 DEF Crash, Semantics, store, client
  <2> QED
    BY <1>5, <2>1, <2>2, <2>3 DEF ApplyLookup
<1> QED
  BY <1>4, <1>5

LEMMA SafeKeep ==
  ASSUME TypeInv, Semantics, frames # << >>, NEW n \in allocated,
         Right(memory, allocated, Top, n), memory' = AddRef(memory, n, 1), Return(n),
         UNCHANGED <<allocated, table>>
  PROVE  Semantics'
<1> DEFINE mem == AddRef(memory, n, 1)
<1>1. /\ Diagram(memory, allocated) /\ TableSound(memory, allocated, table)
      /\ memory \in Memory
  BY SafeFrames DEF Semantics
<1>2. n \in Node /\ 1 \in Int
  BY <1>1, DiagramShape DEF Node
<1>3. Diagram(mem, allocated) /\ Grown(memory, allocated, mem, allocated)
  BY <1>1, <1>2, CountChanges
<1> HIDE DEF mem
<1>4. TableSound(mem, allocated, table) /\ Right(mem, allocated, Top, n)
  BY <1>1, <1>3, TableStays, RightStays
<1>5. memory' = mem /\ allocated' = allocated /\ table' = table
  BY DEF mem
<1> QED
  BY <1>3, <1>4, <1>5, SafeReturn

LEMMA SafeRestricts ==
  ASSUME TypeInv, Semantics, RestrictEnter
  PROVE  Semantics'
<1>1. frames # << >> /\ Top.kind = "restrict" /\ Top.stage = "enter"
  BY DEF RestrictEnter, Running
<1>2. /\ Top \in Frame /\ Proper(memory, allocated, Top)
      /\ Top.a \in allocated /\ Top.b \in allocated
  BY <1>1, TopProper
<1>3. Diagram(memory, allocated)
  BY DEF Semantics
<1>4. CASE ~IsTerminal(Top.a) /\ Var(Top.a) # Top.var
  <2> DEFINE f == [Top EXCEPT !.stage = "low"]
  <2>1. /\ f \in Frame /\ f.stage = "low" /\ SameCall(Top, f) /\ f.a = Top.a /\ f.b = Top.b
        /\ f.kind = Top.kind /\ f.op = Top.op
    BY <1>2 DEF Frame, SameCall
  <2>2. Recurses(memory, Top)
    BY <1>1, <1>4 DEF Recurses, Var
  <2>3. Invoke(f, SubCall(Top, FALSE))
    BY <1>4 DEF RestrictEnter
  <2> HIDE DEF f
  <2>4. Recurses(memory, f)
    BY <1>2, <2>1, <2>2, SameSub
  <2>5. Proper(memory, allocated, f)
    BY <1>2, <2>1, <2>4 DEF Proper
  <2>6. (f.stage = "high") = FALSE
    BY <2>1
  <2> QED
    BY <1>1, <2>1, <2>3, <2>5, <2>6, SafeInvoke
<1>5. CASE ~(~IsTerminal(Top.a) /\ Var(Top.a) # Top.var)
  <2> DEFINE n == IF IsTerminal(Top.a) THEN Top.a ELSE Side(Top.a, Top.bit)
  <2>1. memory' = AddRef(memory, n, 1) /\ Return(n) /\ UNCHANGED <<allocated, table>>
    BY <1>5 DEF RestrictEnter
  <2>2. n \in allocated
    BY <1>2, <1>3, DiagramShape DEF Side
  <2>3. ASSUME Ordered(memory, allocated, Top.a), NEW s
        PROVE  Val(memory, allocated, n, s) = Val(memory, allocated, Top.a, With(s, Top.var, Top.bit))
    <3>1. CASE IsTerminal(Top.a)
      BY <1>2, <1>3, <3>1, ValEquation
    <3>2. CASE ~IsTerminal(Top.a)
      <4>1. Var(Top.a) = Top.var /\ n = Down(memory, Top.a, Top.bit) /\ Top.var \in Nat
        BY <1>2, <1>5, <3>2 DEF Side, Down, Frame
      <4>2. GrowsOn(memory, Top.a) /\ Ordered(memory, allocated, n)
        BY <1>2, <1>3, <2>3, <3>2, <4>1, OrderEquation DEF Down
      <4>3. IsTerminal(n) \/ Top.var < memory[n].var
        BY <1>2, <4>1, <4>2 DEF GrowsOn, Var, Frame
      <4> HIDE DEF n
      <4>4. Val(memory, allocated, n, With(s, Top.var, Top.bit)) = Val(memory, allocated, n, s)
        BY <1>3, <2>2, <4>1, <4>2, <4>3, OrderIgnores
      <4>5. Top.var \in With(s, Top.var, Top.bit) <=> Top.bit
        BY <1>2 DEF With, Frame
      <4>6. \A t : Val(memory, allocated, Top.a, t)
                     = Val(memory, allocated, Down(memory, Top.a, Top.var \in t), t)
        BY <1>2, <1>3, <3>2, <4>1, ValEquation DEF Var
      <4>7. Val(memory, allocated, Top.a, With(s, Top.var, Top.bit))
              = Val(memory, allocated, n, With(s, Top.var, Top.bit))
        BY <4>1, <4>5, <4>6 DEF Down
      <4> QED
        BY <4>4, <4>7
    <3> QED
      BY <3>1, <3>2
  <2>4. Right(memory, allocated, Top, n)
    <3> HIDE DEF n
    <3> QED
      BY <1>1, <1>2, <2>2, <2>3 DEF Right
  <2> HIDE DEF n
  <2> QED
    BY <1>1, <2>1, <2>2, <2>4, SafeKeep
<1> QED
  BY <1>4, <1>5


LEMMA SafeAbstracts ==
  ASSUME TypeInv, Semantics, AbstractEnter
  PROVE  Semantics'
<1>1. frames # << >> /\ Top.kind = "abstract" /\ Top.stage = "enter"
  BY DEF AbstractEnter, Running
<1>2. /\ Top \in Frame /\ Proper(memory, allocated, Top)
      /\ Top.a \in allocated /\ Top.b \in allocated /\ Top.op \in {"AND", "OR"}
      /\ Top.var \in Nat
  BY <1>1, TopProper DEF Proper, Frame
<1>3. Diagram(memory, allocated) /\ Stacked(memory, allocated, frames, call)
  BY DEF Semantics
<1>4. CASE /\ Beyond(Top.a, Top.var) /\ memory' = AddRef(memory, Top.a, 1) /\ Return(Top.a)
           /\ UNCHANGED <<allocated, table>>
  <2>1. ASSUME Ordered(memory, allocated, Top.a), NEW s
        PROVE  Val(memory, allocated, Top.a, s) =
                 Combine(Top.op, Val(memory, allocated, Top.a, With(s, Top.var, FALSE)),
                                 Val(memory, allocated, Top.a, With(s, Top.var, TRUE)))
    <3>1. IsTerminal(Top.a) \/ Top.var < memory[Top.a].var
      <4>1. ~IsTerminal(Top.a) => memory[Top.a].var \in Nat
        BY <1>2, <1>3, DiagramShape, ROBDDAssumption DEF Variable
      <4> QED
        BY <1>2, <1>4, <4>1 DEF Beyond, Var
    <3>2. \A bit : Val(memory, allocated, Top.a, With(s, Top.var, bit))
                     = Val(memory, allocated, Top.a, s)
      BY <1>2, <1>3, <2>1, <3>1, OrderIgnores
    <3>3. Val(memory, allocated, Top.a, s) \in BOOLEAN
      BY <1>2, <1>3, ValEquation
    <3>4. Combine(Top.op, Val(memory, allocated, Top.a, s), Val(memory, allocated, Top.a, s))
            = Val(memory, allocated, Top.a, s)
      BY <1>2, <3>3, Combines
    <3> QED
      BY <3>2, <3>4, Zenon
  <2>2. Right(memory, allocated, Top, Top.a)
    BY <1>1, <1>2, <2>1 DEF Right
  <2> QED
    BY <1>1, <1>2, <1>4, <2>2, SafeKeep
<1>5. CASE /\ ~Beyond(Top.a, Top.var) /\ Var(Top.a) = Top.var
           /\ frames' = Append(Below, [Top EXCEPT !.kind = "apply", !.a = Side(Top.a, FALSE),
                                                  !.b = Side(Top.a, TRUE)])
           /\ UNCHANGED <<store, value, cursor, outcome, client>>
  <2> DEFINE f == [Top EXCEPT !.kind = "apply", !.a = Side(Top.a, FALSE), !.b = Side(Top.a, TRUE)]
             s == Append(Below, f)
  <2>1. ~IsTerminal(Top.a) /\ memory[Top.a].var = Top.var
    BY <1>5 DEF Beyond, Var
  <2>2. /\ memory[Top.a].low \in allocated /\ memory[Top.a].high \in allocated
        /\ allocated \subseteq Slot
    BY <1>2, <1>3, <2>1, DiagramShape
  <2>3. /\ f.kind = "apply" /\ f.a = memory[Top.a].low /\ f.b = memory[Top.a].high
        /\ f.op = Top.op /\ f.stage = "enter" /\ f \in Frame
    BY <1>1, <1>2, <2>2 DEF Frame, Kind, Side
  <2> HIDE DEF f
  <2>4. Proper(memory, allocated, f)
    BY <2>2, <2>3 DEF Proper
  <2>5. ASSUME NEW x, Stands(memory, x, Top)
        PROVE  Stands(memory, x, f)
    <3>1. SameCall(x, Top)
      BY <1>1, <2>5 DEF Stands
    <3> QED
      BY <1>1, <2>1, <2>3, <3>1 DEF Stands, SameCall
  <2>6. s # << >> /\ s[Len(s)] = f /\ Stacked(memory, allocated, s, call)
    <3>1. frames \in Seq(Frame)
      BY SafeFrames
    <3> QED
      BY <1>1, <1>3, <2>3, <2>4, <2>5, <3>1, GoesOn DEF Below, Top
  <2>7. frames' = s
    BY <1>5 DEF f
  <2> HIDE DEF s
  <2>8. Answered(memory, allocated, s, call, value)
    BY <2>3, <2>6 DEF Answered
  <2> QED
    BY <1>5, <2>6, <2>7, <2>8 DEF Semantics, store, client
<1>6. CASE /\ ~Beyond(Top.a, Top.var) /\ Var(Top.a) # Top.var
           /\ Invoke([Top EXCEPT !.stage = "low"], SubCall(Top, FALSE))
  <2> DEFINE f == [Top EXCEPT !.stage = "low"]
  <2>1. /\ f \in Frame /\ f.stage = "low" /\ SameCall(Top, f) /\ f.a = Top.a /\ f.b = Top.b
        /\ f.kind = Top.kind /\ f.op = Top.op
    BY <1>2 DEF Frame, SameCall
  <2>2. Recurses(memory, Top)
    <3>1. ~IsTerminal(Top.a) /\ memory[Top.a].var # Top.var /\ ~(memory[Top.a].var > Top.var)
      BY <1>6 DEF Beyond, Var
    <3>2. memory[Top.a].var \in Nat
      BY <1>2, <1>3, <3>1, DiagramShape, ROBDDAssumption DEF Variable
    <3> QED
      BY <1>1, <1>2, <3>1, <3>2 DEF Recurses
  <2> HIDE DEF f
  <2>3. Recurses(memory, f)
    BY <1>2, <2>1, <2>2, SameSub
  <2>4. Proper(memory, allocated, f)
    BY <1>2, <2>1, <2>3 DEF Proper
  <2>5. (f.stage = "high") = FALSE
    BY <2>1
  <2> QED
    BY <1>1, <1>6, <2>1, <2>4, <2>5, SafeInvoke DEF f
<1> QED
  BY <1>4, <1>5, <1>6 DEF AbstractEnter

LEMMA SafeLow ==
  ASSUME TypeInv, Semantics, LowDone
  PROVE  Semantics'
<1> DEFINE f == [Top EXCEPT !.stage = "high", !.low = value]
<1>1. frames # << >> /\ Top.stage = "low" /\ Invoke(f, SubCall(Top, TRUE))
  BY DEF LowDone, Running
<1>2. /\ Top \in Frame /\ Proper(memory, allocated, Top)
      /\ Right(memory, allocated, SubOn(memory, Top, FALSE), value)
  <2>1. (Top.stage = "high") = FALSE
    BY <1>1
  <2> QED
    BY <1>1, <2>1, TopProper
<1>3. /\ f \in Frame /\ f.stage = "high" /\ SameCall(Top, f) /\ f.a = Top.a /\ f.b = Top.b
      /\ f.kind = Top.kind /\ f.op = Top.op /\ f.low = value
  BY <1>2, SafeFrames DEF Frame, SameCall
<1> HIDE DEF f
<1>4. Recurses(memory, f) /\ SubOn(memory, f, FALSE) = SubOn(memory, Top, FALSE)
  <2> DEFINE t == Top
  <2>1. t \in Frame /\ SameCall(t, f)
    BY <1>2, <1>3
  <2> HIDE DEF t
  <2>2. \A high : SubOn(memory, t, high) = SubOn(memory, f, high)
    BY <1>3, <2>1, SameSub
  <2>3. Recurses(memory, t) <=> Recurses(memory, f)
    BY <1>3, <2>1, SameSub
  <2>4. Recurses(memory, Top)
    BY <1>1, <1>2 DEF Proper
  <2> QED
    BY <2>2, <2>3, <2>4 DEF t
<1>5. Proper(memory, allocated, f)
  BY <1>2, <1>3, <1>4 DEF Proper
<1>6. (f.stage = "high") = TRUE
  BY <1>3
<1> QED
  BY <1>1, <1>3, <1>5, <1>6, SafeInvoke

LEMMA SafeHigh ==
  ASSUME TypeInv, Semantics, HighDone
  PROVE  Semantics'
<1> DEFINE v == IF Top.kind = "apply" THEN TopVar(Top.a, Top.b) ELSE Var(Top.a)
           new == findOrAddUnique(v, Top.low, value)
<1>1. frames # << >> /\ Top.stage = "high"
  BY DEF HighDone, Running
<1>2. /\ Top \in Frame /\ Proper(memory, allocated, Top)
      /\ Top.a \in allocated /\ Top.b \in allocated
      /\ Recurses(memory, Top)
      /\ Right(memory, allocated, SubOn(memory, Top, FALSE), Top.low)
      /\ Right(memory, allocated, SubOn(memory, Top, TRUE), value)
  <2>1. (Top.stage = "high") = TRUE
    BY <1>1
  <2> QED
    BY <1>1, <2>1, TopProper DEF Proper
<1>3. /\ Diagram(memory, allocated) /\ TableSound(memory, allocated, table)
      /\ memory \in Memory /\ table \in [0 .. TableSize -> Entry]
  BY SafeFrames DEF Semantics
<1>4. v = SplitVar(memory, Top) /\ v \in Plain
  <2>1. v = SplitVar(memory, Top)
    BY SubOnIsSubCall DEF SplitVar, Var
  <2>2. SplitVar(memory, Top) \in Plain
    BY <1>2, <1>3, SubCalls
  <2> QED
    BY <2>1, <2>2
<1>5. Top.low \in allocated \union {NullNode} /\ value \in allocated \union {NullNode}
  BY <1>2 DEF Right
<1>6. CASE ~new.ok
  BY <1>6 DEF HighDone, Crash, Semantics, store, client
<1>7. CASE new.ok
  <2> DEFINE one == AddRef(new.memory, Top.low, -1)
             letGo == AddRef(one, value, -1)
             at == ComputedAt(Top.a, Top.b, Top.op)
             entry == [key |-> OpCode(Top.op), low |-> Top.a, high |-> Top.b, result |-> new.node]
  <2>1. /\ allocated' = new.allocated /\ Return(new.node)
        /\ Top.kind = "apply" => /\ memory' = AddRef(letGo, new.node, 1)
                                 /\ table' = [new.table EXCEPT ![at] = entry]
        /\ Top.kind # "apply" => memory' = letGo /\ table' = new.table
    BY <1>7 DEF HighDone
  <2>2. /\ new.memory \in Memory /\ new.table \in [0 .. TableSize -> Entry]
        /\ Diagram(new.memory, new.allocated)
        /\ Grown(memory, allocated, new.memory, new.allocated)
        /\ TableSound(new.memory, new.allocated, new.table)
        /\ new.node \in new.allocated \union {NullNode}
        /\ new.node # NullNode =>
             /\ Top.low # NullNode /\ value # NullNode
             /\ Chooses(new.memory, new.allocated, new.node, v, Top.low, value)
    <3> HIDE DEF v
    <3>1. /\ new.memory \in Memory /\ new.table \in [0 .. TableSize -> Entry]
          /\ Diagram(new.memory, new.allocated)
          /\ Grown(memory, allocated, new.memory, new.allocated)
          /\ TableSound(new.memory, new.allocated, new.table)
          /\ new.node \in new.allocated \union {NullNode}
      BY <1>3, <1>4, <1>5, NodeFound
    <3>2. new.ok /\ new.node # NullNode =>
            /\ Top.low # NullNode /\ value # NullNode
            /\ Chooses(new.memory, new.allocated, new.node, v, Top.low, value)
      <4> DEFINE l == Top.low
      <4>1. v \in Plain /\ l \in allocated \union {NullNode}
        BY <1>4, <1>5
      <4> HIDE DEF l
      <4>2. findOrAddUnique(v, l, value).ok /\ findOrAddUnique(v, l, value).node # NullNode =>
              /\ l # NullNode /\ value # NullNode
              /\ Chooses(findOrAddUnique(v, l, value).memory, findOrAddUnique(v, l, value).allocated,
                         findOrAddUnique(v, l, value).node, v, l, value)
        BY <1>3, <1>5, <4>1, NodeFound, ZenonT(60)
      <4> QED
        BY <4>2 DEF l
    <3> QED
      BY <1>7, <3>1, <3>2
  <2> HIDE DEF new, v
  <2>3. Right(new.memory, new.allocated, Top, new.node)
    <3>1. CASE new.node = NullNode
      BY <3>1 DEF Right
    <3>2. CASE new.node # NullNode
      <4> DEFINE t == Top
      <4>1. /\ \A high : SubOn(new.memory, t, high) = SubOn(memory, t, high)
            /\ Recurses(new.memory, t) /\ t.a \in new.allocated /\ t.b \in new.allocated
        <5>1. /\ \A high : SubOn(new.memory, t, high) = SubOn(memory, t, high)
              /\ Recurses(new.memory, t) <=> Recurses(memory, t)
          <6> HIDE DEF t
          <6>1. t.a \in allocated /\ t.b \in allocated
            BY <1>2 DEF t
          <6> QED
            BY <2>2, <6>1, SubStays
        <5> QED
          BY <1>2, <2>2, <5>1 DEF Grown
      <4>2. SplitVar(new.memory, t) = SplitVar(memory, t)
        <5>1. \A n \in {t.a, t.b} : new.memory[n].var = memory[n].var
          BY <1>2, <2>2 DEF Grown
        <5> QED
          BY <5>1 DEF SplitVar, TopVarOn, OpensOn, ConsidersOn
      <4>3. /\ Right(new.memory, new.allocated, SubOn(memory, t, FALSE), t.low)
            /\ Right(new.memory, new.allocated, SubOn(memory, t, TRUE), value)
        BY <1>2, <1>3, <2>2, RightStays
      <4>4. t \in Frame /\ Chooses(new.memory, new.allocated, new.node, SplitVar(new.memory, t), t.low, value)
              /\ t.low # NullNode /\ value # NullNode /\ new.node \in new.allocated
        BY <1>2, <1>4, <2>2, <3>2, <4>2
      <4>5. Top = t
        OBVIOUS
      <4> HIDE DEF t
      <4>7. /\ SubOn(new.memory, t, FALSE) = SubOn(memory, t, FALSE)
            /\ SubOn(new.memory, t, TRUE) = SubOn(memory, t, TRUE)
        BY <4>1, Zenon
      <4>6. Right(new.memory, new.allocated, t, new.node)
        BY <2>2, <4>1, <4>3, <4>4, <4>7, SidesJoin
      <4> QED
        BY <4>5, <4>6
    <3> QED
      BY <3>1, <3>2
  <2>4. /\ Top.low \in Node /\ value \in Node /\ new.node \in Node /\ 1 \in Int /\ -1 \in Int
    BY <1>3, <1>5, <2>2, DiagramShape DEF Node
  <2>5. /\ one \in Memory /\ Diagram(one, new.allocated)
        /\ Grown(new.memory, new.allocated, one, new.allocated)
    BY <2>2, <2>4, CountChanges
  <2> HIDE DEF one
  <2>6. /\ letGo \in Memory /\ Diagram(letGo, new.allocated)
        /\ Grown(one, new.allocated, letGo, new.allocated)
    BY <2>4, <2>5, CountChanges
  <2> HIDE DEF letGo
  <2> DEFINE last == AddRef(letGo, new.node, 1)
  <2>7. /\ last \in Memory /\ Diagram(last, new.allocated)
        /\ Grown(letGo, new.allocated, last, new.allocated)
    BY <2>4, <2>6, CountChanges
  <2> HIDE DEF last
  <2>8. Grown(new.memory, new.allocated, letGo, new.allocated)
    BY <2>5, <2>6, GrownTwice
  <2>9. Grown(new.memory, new.allocated, last, new.allocated)
    BY <2>7, <2>8, GrownTwice
  <2>10. CASE Top.kind # "apply"
    <3>1. Grown(memory, allocated, letGo, new.allocated)
      BY <2>2, <2>8, GrownTwice
    <3>2. TableSound(letGo, new.allocated, new.table) /\ Right(letGo, new.allocated, Top, new.node)
      BY <2>2, <2>3, <2>6, <2>8, TableStays, RightStays
    <3> QED
      BY <1>1, <2>1, <2>6, <2>10, <3>1, <3>2, SafeReturn
  <2>11. CASE Top.kind = "apply"
    <3>1. Grown(memory, allocated, last, new.allocated)
      BY <2>2, <2>9, GrownTwice
    <3>2. TableSound(last, new.allocated, new.table) /\ Right(last, new.allocated, Top, new.node)
      BY <2>2, <2>3, <2>7, <2>9, TableStays, RightStays
    <3>3. EntrySound(last, new.allocated, entry)
      <4>1. Top.op \in Operation
        BY <1>2 DEF Frame
      <4>2. \A op \in Operation : OpCode(op) = OpCode(Top.op) => op = Top.op
        BY <4>1, ROBDDAssumption DEF Operation
      <4>3. OpCode(Top.op) \notin Plain
        BY <4>1 DEF Plain, OperationCodes
      <4> QED
        BY <2>11, <3>2, <4>2, <4>3 DEF EntrySound, Right
    <3>4. TableSound(last, new.allocated, [new.table EXCEPT ![at] = entry])
      <4> HIDE DEF entry, at
      <4>1. \A i \in 0 .. TableSize :
              [new.table EXCEPT ![at] = entry][i] = IF i = at THEN entry ELSE new.table[i]
        BY <2>2
      <4> QED
        BY <3>2, <3>3, <4>1 DEF TableSound
    <3>5. memory' = last /\ table' = [new.table EXCEPT ![at] = entry]
      BY <2>1, <2>11 DEF last
    <3> HIDE DEF entry, at
    <3> QED
      BY <1>1, <2>1, <2>7, <3>1, <3>2, <3>4, <3>5, SafeReturn
  <2> QED
    BY <2>10, <2>11
<1> QED
  BY <1>6, <1>7


LEMMA SafeBegin ==
  ASSUME TypeInv, Semantics, NEW kind \in Kind \ {"mkNode"}, NEW a \in held, NEW b \in held,
         NEW op \in Operation, kind = "abstract" => op \in {"AND", "OR"},
         NEW v \in Nat, NEW bit \in BOOLEAN, Begin(kind, a, b, op, v, bit)
  PROVE  Semantics'
<1> DEFINE c == [kind |-> kind, a |-> a, b |-> b, op |-> op, var |-> v, bit |-> bit]
           f == NewFrame(kind, a, b, op, v, bit)
<1>1. call' = c /\ UNCHANGED store /\ frames = << >>
  BY DEF Begin, Record, Idle
<1>2. a \in allocated \union {NullNode} /\ b \in allocated \union {NullNode}
  BY DEF Semantics
<1>3. CASE NullNode \in {a, b}
  <2>1. value' = NullNode /\ held' = held \union {NullNode} /\ frames' = << >>
    BY <1>1, <1>3 DEF Begin
  <2>2. Stacked(memory, allocated, << >>, c)
    BY DEF Stacked
  <2>3. Answered(memory, allocated, << >>, c, NullNode)
    BY DEF Answered, Right
  <2> HIDE DEF c
  <2>4. held' \subseteq allocated \union {NullNode}
    BY <2>1 DEF Semantics
  <2> QED
    BY <1>1, <2>1, <2>2, <2>3, <2>4 DEF Semantics, store
<1>4. CASE NullNode \notin {a, b}
  <2>1. frames' = <<f>> /\ UNCHANGED <<value, held>>
    BY <1>4 DEF Begin
  <2>2. /\ f.kind = kind /\ f.a = a /\ f.b = b /\ f.op = op /\ f.var = v /\ f.bit = bit
        /\ f.stage = "enter"
    BY DEF NewFrame
  <2>3. /\ c.kind = kind /\ c.a = a /\ c.b = b /\ c.op = op /\ c.var = v /\ c.bit = bit
    OBVIOUS
  <2> HIDE DEF f, c
  <2>4. a \in allocated /\ b \in allocated
    BY <1>2, <1>4
  <2>5. Proper(memory, allocated, f)
    BY <2>2, <2>4 DEF Proper
  <2>6. Stands(memory, c, f)
    BY <2>2, <2>3 DEF Stands, SameCall
  <2>7. Len(<<f>>) = 1 /\ <<f>>[1] = f /\ <<f>> # << >>
    OBVIOUS
  <2>8. Stacked(memory, allocated, <<f>>, c)
    BY <2>3, <2>4, <2>5, <2>6, <2>7 DEF Stacked
  <2>9. Answered(memory, allocated, <<f>>, c, value)
    BY <2>2, <2>7 DEF Answered
  <2> QED
    BY <1>1, <2>1, <2>8, <2>9 DEF Semantics, store
<1> QED
  BY <1>3, <1>4

LEMMA SafeMakes ==
  ASSUME TypeInv, Semantics, mkNode, "clash" \notin made'
  PROVE  Semantics'
<1>1. PICK v \in 0 .. max_variables, low \in held, high \in held :
        LET new == findOrAddUnique(v, low, high)
        IN  /\ Idle
            /\ Record([NoCall EXCEPT !.kind = "mkNode", !.a = low, !.b = high, !.var = v],
                      IF v \in OperationCodes THEN "clash" ELSE "mkNode")
            /\ IF v >= max_variables
               THEN value' = NullNode /\ UNCHANGED <<store, outcome>>
               ELSE /\ memory' = new.memory /\ allocated' = new.allocated /\ table' = new.table
                    /\ value' = IF new.ok THEN new.node ELSE NullNode
                    /\ outcome' = IF new.ok THEN outcome ELSE "crashed"
            /\ held' = held \union {value'}
            /\ UNCHANGED <<frames, cursor>>
  BY DEF mkNode
<1> DEFINE new == findOrAddUnique(v, low, high)
<1>2. frames = << >> /\ frames' = << >> /\ held' = held \union {value'} /\ call'.kind = "mkNode"
  BY <1>1 DEF Idle, Record, NoCall
<1>3. \A mem, D, n : Stacked(mem, D, << >>, call') /\ Answered(mem, D, << >>, call', n)
  BY <1>2 DEF Stacked, Answered
<1>4. /\ Diagram(memory, allocated) /\ TableSound(memory, allocated, table)
      /\ memory \in Memory /\ table \in [0 .. TableSize -> Entry]
  BY SafeFrames DEF Semantics
<1>5. CASE v >= max_variables
  <2>1. UNCHANGED store /\ value' = NullNode
    BY <1>1, <1>5
  <2>2. held' \subseteq allocated \union {NullNode}
    BY <1>2, <2>1 DEF Semantics
  <2> QED
    BY <1>2, <1>3, <1>4, <2>1, <2>2 DEF Semantics, store
<1>6. CASE ~(v >= max_variables)
  <2>1. /\ memory' = new.memory /\ allocated' = new.allocated /\ table' = new.table
        /\ value' \in {new.node, NullNode}
    BY <1>1, <1>6
  <2>2. v \in Plain /\ low \in allocated \union {NullNode} /\ high \in allocated \union {NullNode}
    <3>1. v \in Variable
      BY <1>6, ROBDDAssumption DEF Variable
    <3>2. v \notin OperationCodes
      BY <1>1 DEF Record
    <3> QED
      BY <3>1, <3>2 DEF Plain, Semantics
  <2>3. /\ Diagram(new.memory, new.allocated)
        /\ Grown(memory, allocated, new.memory, new.allocated)
        /\ TableSound(new.memory, new.allocated, new.table)
        /\ new.node \in new.allocated \union {NullNode}
    BY <1>4, <2>2, NodeFound
  <2> HIDE DEF new
  <2>4. held' \subseteq new.allocated \union {NullNode}
    BY <1>2, <2>1, <2>3 DEF Semantics, Grown
  <2> QED
    BY <1>2, <1>3, <2>1, <2>3, <2>4 DEF Semantics
<1> QED
  BY <1>5, <1>6

LEMMA SafeCollects ==
  ASSUME Semantics, \/ garbageCollect
                    \/ CollectDone
                    \/ CollectEntry /\ UNCHANGED store
  PROVE  Semantics'
<1>1. CASE garbageCollect
  <2>1. frames = << >> /\ UNCHANGED <<store, frames, value, held>> /\ call'.kind = "none"
    BY <1>1 DEF garbageCollect, Idle, NoCall
  <2>2. Stacked(memory, allocated, << >>, call') /\ Answered(memory, allocated, << >>, call', value)
    BY <2>1 DEF Stacked, Answered
  <2> QED
    BY <2>1, <2>2 DEF Semantics, store
<1>2. CASE UNCHANGED <<store, frames, value, client>>
  BY <1>2 DEF Semantics, store, client
<1> QED
  BY <1>1, <1>2 DEF CollectDone, CollectEntry

(* Every step but the release of a node.                                   *)
LEMMA SafeStep ==
  ASSUME TypeInv, Semantics, [Next]_vars, CollectEntry => UNCHANGED store,
         "clash" \notin made'
  PROVE  Semantics'
<1>1. \A v \in Variable : v \in Nat
  BY ROBDDAssumption DEF Variable
<1>2. CASE apply
  <2>1. PICK a \in held, b \in held, op \in Ops : Begin("apply", a, b, op, 0, FALSE)
    BY <1>2 DEF apply
  <2> QED
    BY <2>1, SafeBegin DEF Kind, Operation
<1>3. CASE restrict
  <2>1. PICK a \in held, v \in Variable, bit \in BOOLEAN : Begin("restrict", a, a, "AND", v, bit)
    BY <1>3 DEF restrict
  <2> QED
    BY <1>1, <2>1, SafeBegin DEF Kind, Operation
<1>4. CASE existsAbstract
  <2>1. PICK a \in held, v \in Variable : Begin("abstract", a, a, "OR", v, FALSE)
    BY <1>4 DEF existsAbstract
  <2> QED
    BY <1>1, <2>1, SafeBegin DEF Kind, Operation
<1>5. CASE forallAbstract
  <2>1. PICK a \in held, v \in Variable : Begin("abstract", a, a, "AND", v, FALSE)
    BY <1>5 DEF forallAbstract
  <2> QED
    BY <1>1, <2>1, SafeBegin DEF Kind, Operation
<1>6. CASE UNCHANGED vars
  BY <1>6 DEF vars, Semantics
<1> QED
  BY <1>2, <1>3, <1>4, <1>5, <1>6, SafeMakes, SafeCollects, SafeApplies, SafeRestricts,
     SafeAbstracts, SafeLow, SafeHigh DEF Next, Recursion

LEMMA InitSafe ==
  ASSUME Init
  PROVE  Semantics
<1>1. MaxNodes \in Nat \ {0, 1}
  BY ROBDDAssumption
<1>2. Diagram(memory, allocated)
  <2>1. allocated = 0 .. 2 - 1 /\ 2 \in 2 .. MaxNodes
    BY <1>1 DEF Init, False, True
  <2>2. memory[False].var = 0 /\ memory[True].var = 0 /\ allocated \ {False, True} = {}
    BY <1>1 DEF Init, Slot, False, True
  <2> QED
    BY <2>1, <2>2 DEF Diagram
<1>3. TableSound(memory, allocated, table)
  BY DEF Init, TableSound, EntrySound, Empty
<1>4. held \subseteq allocated \union {NullNode}
  BY DEF Init
<1>5. frames = << >> /\ call.kind = "none"
  BY DEF Init, NoCall
<1>6. Stacked(memory, allocated, << >>, call) /\ Answered(memory, allocated, << >>, call, value)
  BY <1>5 DEF Stacked, Answered
<1> QED
  BY <1>2, <1>3, <1>4, <1>5, <1>6 DEF Semantics


-----------------------------------------------------------------------------
(* References.  A client that only makes and applies never loses a node:   *)
(* each has one reference more than the calls under way will give back, a  *)
(* call the node of its low side and that of the side that returned last.  *)

Gives(f, n) == f.stage = "high" /\ f.low = n
Givers(fs, n) == { i \in 1 .. Len(fs) : Gives(fs[i], n) }
Owed(fs, v, n) ==
  Cardinality(Givers(fs, n))
    + IF fs # << >> /\ fs[Len(fs)].stage # "enter" /\ v = n THEN 1 ELSE 0

OnlyApplies == made \intersect {"restrict", "abstract"} = {}

Counted ==
  OnlyApplies =>
    /\ \A i \in 1 .. Len(frames) : frames[i].kind = "apply"
    /\ \A n \in allocated : ~IsTerminal(n) => memory[n].ref >= 1 + Owed(frames, value, n)

LEMMA GiversGrow ==
  ASSUME NEW s \in Seq(Frame), NEW t \in Seq(Frame), Len(t) = Len(s) + 1,
         \A i \in 1 .. Len(s) : t[i] = s[i], NEW n
  PROVE  /\ Cardinality(Givers(s, n)) \in Nat
         /\ Cardinality(Givers(t, n)) =
              Cardinality(Givers(s, n)) + IF Gives(t[Len(t)], n) THEN 1 ELSE 0
<1> DEFINE k == Len(s)
<1>1. k \in Nat /\ Len(t) = k + 1
  OBVIOUS
<1>2. Givers(s, n) \subseteq 1 .. k
  BY DEF Givers
<1>3. IsFiniteSet(Givers(s, n)) /\ Cardinality(Givers(s, n)) \in Nat
  <2>1. IsFiniteSet(1 .. k)
    BY <1>1, FS_Interval
  <2> QED
    BY <1>2, <2>1, FS_Subset, FS_CardinalityType
<1>4. k + 1 \notin Givers(s, n)
  BY <1>1, <1>2
<1>5. \A i : i \in 1 .. k + 1 <=> i \in 1 .. k \/ i = k + 1
  BY <1>1
<1>6. CASE Gives(t[Len(t)], n)
  <2>1. Givers(t, n) = Givers(s, n) \union {k + 1}
    BY <1>1, <1>5, <1>6 DEF Givers
  <2> QED
    BY <1>3, <1>4, <1>6, <2>1, FS_AddElement
<1>7. CASE ~Gives(t[Len(t)], n)
  <2>1. Givers(t, n) = Givers(s, n)
    BY <1>1, <1>5, <1>7 DEF Givers
  <2> QED
    BY <1>3, <1>7, <2>1
<1> QED
  BY <1>3, <1>6, <1>7

LEMMA OwedNothing ==
  \A v, n : Owed(<< >>, v, n) = 0
<1>1. \A n : Givers(<< >>, n) = {}
  BY DEF Givers
<1> QED
  BY <1>1, FS_EmptySet DEF Owed

LEMMA OwedReturns ==
  ASSUME TypeInv, frames # << >>, NEW n, NEW m
  PROVE  /\ Cardinality(Givers(Below, m)) \in Nat
         /\ Owed(frames, value, m) =
              Cardinality(Givers(Below, m)) + (IF Gives(Top, m) THEN 1 ELSE 0)
                + IF Top.stage # "enter" /\ value = m THEN 1 ELSE 0
         /\ Owed(Below, n, m) \in Nat
         /\ Owed(Below, n, m) <= Cardinality(Givers(Below, m)) + IF n = m THEN 1 ELSE 0
<1>1. /\ frames \in Seq(Frame) /\ Below \in Seq(Frame) /\ Len(frames) = Len(Below) + 1
      /\ \A i \in 1 .. Len(Below) : frames[i] = Below[i]
  <2>1. frames \in Seq(Frame)
    BY SafeFrames
  <2> DEFINE k == Len(frames)
             b == Below
  <2>2. /\ k \in Nat \ {0} /\ b \in Seq(Frame) /\ Len(b) = k - 1
        /\ \A i \in 1 .. Len(b) : b[i] = frames[i]
    BY <2>1, BelowShape DEF Below
  <2>3. k = Len(frames) /\ b = Below
    OBVIOUS
  <2> HIDE DEF k, b
  <2>4. k = Len(b) + 1
    BY <2>2
  <2> QED
    BY <2>1, <2>2, <2>3, <2>4
<1>2. /\ Cardinality(Givers(Below, m)) \in Nat
      /\ Cardinality(Givers(frames, m)) =
           Cardinality(Givers(Below, m)) + IF Gives(Top, m) THEN 1 ELSE 0
  BY <1>1, GiversGrow DEF Top
<1>3. Owed(frames, value, m) = Cardinality(Givers(frames, m))
                                 + IF Top.stage # "enter" /\ value = m THEN 1 ELSE 0
  BY DEF Owed, Top
<1>4. \/ Owed(Below, n, m) = Cardinality(Givers(Below, m))
      \/ n = m /\ Owed(Below, n, m) = Cardinality(Givers(Below, m)) + 1
  BY <1>2 DEF Owed
<1> QED
  BY <1>2, <1>3, <1>4

LEMMA OwedCalls ==
  ASSUME TypeInv, frames # << >>, NEW f \in Frame, NEW g \in Frame, g.stage = "enter", NEW m
  PROVE  Owed(Append(Append(Below, f), g), value, m) =
           Cardinality(Givers(Below, m)) + IF Gives(f, m) THEN 1 ELSE 0
<1> DEFINE s == Append(Below, f)
           t == Append(s, g)
<1>1. Below \in Seq(Frame)
  BY SafeFrames, BelowShape DEF Below
<1>2. /\ s \in Seq(Frame) /\ Len(s) = Len(Below) + 1 /\ s[Len(s)] = f
      /\ \A i \in 1 .. Len(Below) : s[i] = Below[i]
  BY <1>1, AppendProperties
<1> HIDE DEF s
<1>3. /\ t \in Seq(Frame) /\ Len(t) = Len(s) + 1 /\ t[Len(t)] = g /\ t # << >>
      /\ \A i \in 1 .. Len(s) : t[i] = s[i]
  BY <1>2, AppendProperties
<1> HIDE DEF t
<1>4. /\ Cardinality(Givers(Below, m)) \in Nat
      /\ Cardinality(Givers(s, m)) = Cardinality(Givers(Below, m)) + IF Gives(f, m) THEN 1 ELSE 0
  BY <1>1, <1>2, GiversGrow
<1>5. /\ Cardinality(Givers(s, m)) \in Nat
      /\ Cardinality(Givers(t, m)) = Cardinality(Givers(s, m)) + IF Gives(g, m) THEN 1 ELSE 0
  BY <1>2, <1>3, GiversGrow
<1>6. ~Gives(g, m)
  BY DEF Gives
<1>7. Owed(t, value, m) = Cardinality(Givers(t, m)) + 0
  BY <1>3 DEF Owed
<1>8. Owed(t, value, m) = Cardinality(Givers(Below, m)) + IF Gives(f, m) THEN 1 ELSE 0
  BY <1>4, <1>5, <1>6, <1>7
<1> QED
  BY <1>8 DEF s, t


LEMMA CountsTyped ==
  ASSUME TypeInv, Semantics
  PROVE  \A n \in allocated : n \in Slot /\ memory[n].ref \in Int
BY SafeFrames, DiagramShape DEF Semantics, Memory

LEMMA CountedReturn ==
  ASSUME TypeInv, Counted, OnlyApplies, frames # << >>, NEW n, Return(n),
         \A m \in allocated' : ~IsTerminal(m) =>
           /\ memory'[m].ref \in Int
           /\ memory'[m].ref >= (1 + Cardinality(Givers(Below, m))) + IF n = m THEN 1 ELSE 0
  PROVE  Counted'
<1>1. frames' = Below /\ value' = n
  BY DEF Return
<1>2. \A i \in 1 .. Len(Below) : Below[i].kind = "apply"
  <2>1. /\ Len(frames) \in Nat \ {0} /\ Len(Below) = Len(frames) - 1
        /\ \A i \in 1 .. Len(Below) : Below[i] = frames[i]
    BY SafeFrames, BelowShape DEF Below
  <2>2. \A i \in 1 .. Len(Below) : i \in 1 .. Len(frames)
    BY <2>1
  <2> QED
    BY <2>1, <2>2 DEF Counted
<1>3. ASSUME NEW m \in allocated', ~IsTerminal(m)
      PROVE  memory'[m].ref >= 1 + Owed(Below, n, m)
  <2>1. /\ Cardinality(Givers(Below, m)) \in Nat /\ Owed(Below, n, m) \in Nat
        /\ Owed(Below, n, m) <= Cardinality(Givers(Below, m)) + IF n = m THEN 1 ELSE 0
    BY OwedReturns
  <2>2. /\ memory'[m].ref \in Int
        /\ memory'[m].ref >= (1 + Cardinality(Givers(Below, m))) + IF n = m THEN 1 ELSE 0
    BY <1>3
  <2> QED
    BY <2>1, <2>2
<1> QED
  BY <1>1, <1>2, <1>3 DEF Counted

LEMMA CountedInvoke ==
  ASSUME TypeInv, Counted, OnlyApplies, frames # << >>, NEW f \in Frame, NEW g \in Frame,
         f.kind = "apply", g.kind = "apply", g.stage = "enter", Invoke(f, g),
         \A m : Owed(frames, value, m) = Cardinality(Givers(Below, m)) + IF Gives(f, m) THEN 1 ELSE 0
  PROVE  Counted'
<1>1. UNCHANGED <<memory, allocated, value, made>>
  BY DEF Invoke, store, client
<1>2. CASE frames' = frames
  BY <1>1, <1>2 DEF Counted, OnlyApplies
<1>3. CASE frames' = Append(Append(Below, f), g)
  <2> DEFINE s == Append(Below, f)
             t == Append(s, g)
  <2>1. /\ Below \in Seq(Frame) /\ Len(Below) = Len(frames) - 1 /\ Len(frames) \in Nat \ {0}
        /\ \A i \in 1 .. Len(Below) : Below[i] = frames[i]
    BY SafeFrames, BelowShape DEF Below
  <2>2. /\ s \in Seq(Frame) /\ Len(s) = Len(Below) + 1 /\ s[Len(Below) + 1] = f
        /\ \A i \in 1 .. Len(Below) : s[i] = Below[i]
    BY <2>1, AppendProperties
  <2>3. frames' = t
    BY <1>3
  <2>4. \A m : Owed(t, value, m) = Owed(frames, value, m)
    BY OwedCalls
  <2> HIDE DEF s
  <2>5. /\ Len(t) = Len(s) + 1 /\ t[Len(s) + 1] = g
        /\ \A i \in 1 .. Len(s) : t[i] = s[i]
    BY <2>2, AppendProperties
  <2> HIDE DEF t
  <2>6. \A i \in 1 .. Len(t) : t[i].kind = "apply"
    <3>1. \A i \in 1 .. Len(Below) : i \in 1 .. Len(frames) /\ frames[i].kind = "apply"
      BY <2>1 DEF Counted
    <3>2. \A i \in 1 .. Len(s) : s[i].kind = "apply"
      <4>1. \A i \in 1 .. Len(s) : i \in 1 .. Len(Below) \/ i = Len(Below) + 1
        BY <2>1, <2>2
      <4> QED
        BY <2>1, <2>2, <3>1, <4>1
    <3>3. \A i \in 1 .. Len(t) : i \in 1 .. Len(s) \/ i = Len(s) + 1
      BY <2>2, <2>5
    <3> QED
      BY <2>5, <3>2, <3>3
  <2> QED
    BY <1>1, <2>3, <2>4, <2>6 DEF Counted, OnlyApplies
<1> QED
  BY <1>2, <1>3 DEF Invoke

LEMMA CountedApplies ==
  ASSUME TypeInv, Semantics, Counted, OnlyApplies,
         ApplyTerminals \/ ApplyLookup
  PROVE  Counted'
<1>1. frames # << >> /\ Top.kind = "apply" /\ Top.stage = "enter"
  BY DEF ApplyTerminals, ApplyLookup, Running
<1>2. Top \in Frame /\ ~(\E m : Gives(Top, m))
  BY <1>1, SafeFrames DEF Gives
<1>3. \A m : /\ Cardinality(Givers(Below, m)) \in Nat
             /\ Owed(frames, value, m) = Cardinality(Givers(Below, m))
  <2> TAKE m
  <2>1. /\ Cardinality(Givers(Below, m)) \in Nat
        /\ Owed(frames, value, m) =
             Cardinality(Givers(Below, m)) + (IF Gives(Top, m) THEN 1 ELSE 0)
               + IF Top.stage # "enter" /\ value = m THEN 1 ELSE 0
    BY <1>1, OwedReturns
  <2> QED
    BY <1>1, <1>2, <2>1
<1>4. \A m \in allocated : ~IsTerminal(m) =>
        memory[m].ref \in Int /\ memory[m].ref >= 1 + Cardinality(Givers(Below, m))
  BY <1>3, CountsTyped DEF Counted
<1>5. CASE ApplyTerminals
  <2> DEFINE n == Terminal(Combine(Top.op, Top.a = True, Top.b = True))
  <2>1. Return(n) /\ UNCHANGED store /\ IsTerminal(n)
    BY <1>5 DEF ApplyTerminals, Terminal, IsTerminal
  <2> HIDE DEF n
  <2>2. \A m \in allocated' : ~IsTerminal(m) =>
          /\ memory'[m].ref \in Int
          /\ memory'[m].ref >= (1 + Cardinality(Givers(Below, m))) + IF n = m THEN 1 ELSE 0
    BY <1>3, <1>4, <2>1 DEF store
  <2> QED
    BY <1>1, <2>1, <2>2, CountedReturn
<1>6. CASE ApplyLookup
  <2> DEFINE e == table[ComputedAt(Top.a, Top.b, Top.op)]
             f == [Top EXCEPT !.stage = "low"]
  <2>1. CASE Invoke(f, SubCall(Top, FALSE))
    <3>1. f \in Frame /\ f.stage = "low" /\ f.kind = "apply"
      BY <1>1, <1>2 DEF Frame
    <3> HIDE DEF f
    <3>2. Recurses(memory, Top)
      BY <1>1, <1>6 DEF ApplyLookup, Recurses
    <3> DEFINE g == SubCall(Top, FALSE)
    <3>3. g \in Frame /\ g.kind = "apply" /\ g.stage = "enter"
      <4>1. Top.a \in allocated /\ Top.b \in allocated /\ Diagram(memory, allocated)
        BY <1>1, TopProper DEF Semantics
      <4>2. SubOn(memory, Top, FALSE) \in Frame /\ SubOn(memory, Top, FALSE).kind = Top.kind
              /\ SubOn(memory, Top, FALSE).stage = "enter"
        BY <1>2, <3>2, <4>1, SubCalls
      <4> QED
        BY <1>1, <4>2, SubOnIsSubCall
    <3>4. \A m : Owed(frames, value, m) =
                   Cardinality(Givers(Below, m)) + IF Gives(f, m) THEN 1 ELSE 0
      BY <1>3, <3>1 DEF Gives
    <3> HIDE DEF g
    <3>5. Invoke(f, g)
      BY <2>1 DEF g
    <3> QED
      BY <1>1, <3>1, <3>3, <3>4, <3>5, CountedInvoke
  <2>2. CASE /\ e.result # NullNode
             /\ memory' = AddRef(memory, e.result, 1) /\ Return(e.result)
             /\ UNCHANGED <<allocated, table>>
    <3> DEFINE n == e.result
    <3>1. n \in Node
      <4>1. ComputedAt(Top.a, Top.b, Top.op) \in 0 .. TableSize
        <5>1. Top.op \in Ops \union {"AND", "OR"} /\ Top.a \in Node /\ Top.b \in Node
          BY <1>2 DEF Frame, Operation, Node
        <5>2. ComputedBucket(Top.a, Top.b, Top.op) \in Bucket
          BY <5>1, ROBDDAssumption
        <5>3. \A i \in Bucket : i + 1 \in 0 .. TableSize
          BY ROBDDAssumption DEF Bucket
        <5> QED
          BY <5>2, <5>3 DEF ComputedAt
      <4> QED
        BY <4>1, SafeFrames DEF Entry
    <3> HIDE DEF e, n
    <3>2. memory' = AddRef(memory, n, 1) /\ Return(n) /\ allocated' = allocated
      BY <2>2 DEF n
    <3>3. \A m \in Slot : memory'[m].ref = memory[m].ref + IF m = n THEN 1 ELSE 0
      BY <3>1, <3>2, CountChanges, SafeFrames
    <3>4. \A m \in allocated : m \in Slot
      BY CountsTyped
    <3>5. \A m \in allocated' : ~IsTerminal(m) =>
            /\ memory'[m].ref \in Int
            /\ memory'[m].ref >= (1 + Cardinality(Givers(Below, m))) + IF n = m THEN 1 ELSE 0
      BY <1>3, <1>4, <3>2, <3>3, <3>4
    <3> QED
      BY <1>1, <3>2, <3>5, CountedReturn
  <2>3. CASE Crash
    BY <2>3 DEF Crash, Counted, OnlyApplies, store, client
  <2> QED
    BY <1>6, <2>1, <2>2, <2>3 DEF ApplyLookup
<1> QED
  BY <1>5, <1>6

LEMMA CountedLow ==
  ASSUME TypeInv, Semantics, Counted, OnlyApplies, LowDone
  PROVE  Counted'
<1> DEFINE f == [Top EXCEPT !.stage = "high", !.low = value]
           g == SubCall(Top, TRUE)
<1>1. frames # << >> /\ Top.stage = "low" /\ Invoke(f, g)
  BY DEF LowDone, Running
<1>2. /\ Top \in Frame /\ Top.a \in allocated /\ Top.b \in allocated
      /\ Recurses(memory, Top) /\ Diagram(memory, allocated)
  BY <1>1, TopProper DEF Proper, Semantics
<1>3. Top.kind = "apply"
  <2>1. Len(frames) \in 1 .. Len(frames)
    BY <1>1, SafeFrames, BelowShape
  <2> QED
    BY <2>1 DEF Counted, Top
<1>4. f \in Frame /\ f.stage = "high" /\ f.kind = "apply" /\ f.low = value
  BY <1>2, <1>3, SafeFrames DEF Frame
<1>5. g \in Frame /\ g.kind = "apply" /\ g.stage = "enter"
  <2>1. SubOn(memory, Top, TRUE) \in Frame /\ SubOn(memory, Top, TRUE).kind = Top.kind
          /\ SubOn(memory, Top, TRUE).stage = "enter"
    BY <1>2, SubCalls
  <2> QED
    BY <1>3, <2>1, SubOnIsSubCall
<1> HIDE DEF f, g
<1>6. \A m : Owed(frames, value, m) = Cardinality(Givers(Below, m)) + IF Gives(f, m) THEN 1 ELSE 0
  <2> TAKE m
  <2>1. /\ Cardinality(Givers(Below, m)) \in Nat
        /\ Owed(frames, value, m) =
             Cardinality(Givers(Below, m)) + (IF Gives(Top, m) THEN 1 ELSE 0)
               + IF Top.stage # "enter" /\ value = m THEN 1 ELSE 0
    BY <1>1, OwedReturns
  <2>2. ~Gives(Top, m) /\ (Gives(f, m) <=> value = m)
    BY <1>1, <1>4 DEF Gives
  <2> QED
    BY <1>1, <2>1, <2>2
<1> QED
  BY <1>1, <1>4, <1>5, <1>6, CountedInvoke

(* A call that waits got its low side from what is allocated.              *)
LEMMA NothingGiven ==
  ASSUME TypeInv, Semantics, frames # << >>, NEW m \in Slot, m \notin allocated
  PROVE  Cardinality(Givers(Below, m)) = 0
<1>1. ASSUME NEW i \in Givers(Below, m)
      PROVE  FALSE
  <2>1. /\ Len(frames) \in Nat \ {0} /\ Len(Below) = Len(frames) - 1
        /\ \A j \in 1 .. Len(Below) : Below[j] = frames[j]
    BY SafeFrames, BelowShape DEF Below
  <2>2. i \in 1 .. Len(Below) /\ Gives(Below[i], m)
    BY DEF Givers
  <2>3. i \in 1 .. Len(frames) /\ Gives(frames[i], m)
    BY <2>1, <2>2
  <2>4. Proper(memory, allocated, frames[i])
    BY <2>3 DEF Semantics, Stacked
  <2>5. m = NullNode \/ m \in allocated
    BY <2>3, <2>4 DEF Proper, Gives, Right
  <2> QED
    BY <2>5 DEF Slot, NullNode
<1>2. Givers(Below, m) = {}
  BY <1>1
<1> QED
  BY <1>2, FS_EmptySet

LEMMA CountedHigh ==
  ASSUME TypeInv, Semantics, Counted, OnlyApplies, HighDone
  PROVE  Counted'
<1> DEFINE v == IF Top.kind = "apply" THEN TopVar(Top.a, Top.b) ELSE Var(Top.a)
           l == Top.low
           new == findOrAddUnique(v, l, value)
           one == AddRef(new.memory, l, -1)
           letGo == AddRef(one, value, -1)
           last == AddRef(letGo, new.node, 1)
<1>1. frames # << >> /\ Top.stage = "high"
  BY DEF HighDone, Running
<1>2. /\ Top \in Frame /\ Top.a \in allocated /\ Top.b \in allocated
      /\ Recurses(memory, Top)
      /\ Right(memory, allocated, SubOn(memory, Top, FALSE), l)
      /\ Right(memory, allocated, SubOn(memory, Top, TRUE), value)
  <2>1. (Top.stage = "high") = TRUE
    BY <1>1
  <2> QED
    BY <1>1, <2>1, TopProper DEF Proper
<1>3. Top.kind = "apply"
  <2>1. Len(frames) \in 1 .. Len(frames)
    BY <1>1, SafeFrames, BelowShape
  <2> QED
    BY <2>1 DEF Counted, Top
<1>4. /\ Diagram(memory, allocated) /\ TableSound(memory, allocated, table)
      /\ memory \in Memory /\ table \in [0 .. TableSize -> Entry]
  BY SafeFrames DEF Semantics
<1>5. v \in Plain
  <2>1. v = SplitVar(memory, Top)
    BY SubOnIsSubCall DEF SplitVar, Var
  <2>2. TRUE \in BOOLEAN
    OBVIOUS
  <2>3. SplitVar(memory, Top) \in Plain
    <3> HIDE DEF v, l, new, one, letGo, last
    <3> QED
      BY <1>2, <1>4, <2>2, SubCalls
  <2> HIDE DEF v
  <2> QED
    BY <2>1, <2>3
<1>6. l \in allocated \union {NullNode} /\ value \in allocated \union {NullNode}
  BY <1>2 DEF Right
<1>7. CASE ~new.ok
  BY <1>7 DEF HighDone, Crash, Counted, OnlyApplies, store, client
<1>8. CASE new.ok
  <2>1. allocated' = new.allocated /\ Return(new.node) /\ memory' = last
    BY <1>3, <1>8 DEF HighDone
  <2>2. \A m : /\ Cardinality(Givers(Below, m)) \in Nat
               /\ Owed(frames, value, m) = Cardinality(Givers(Below, m))
                    + (IF l = m THEN 1 ELSE 0) + IF value = m THEN 1 ELSE 0
    <3> TAKE m
    <3>1. /\ Cardinality(Givers(Below, m)) \in Nat
          /\ Owed(frames, value, m) =
               Cardinality(Givers(Below, m)) + (IF Gives(Top, m) THEN 1 ELSE 0)
                 + IF Top.stage # "enter" /\ value = m THEN 1 ELSE 0
      BY <1>1, OwedReturns
    <3>2. Gives(Top, m) <=> l = m
      BY <1>1 DEF Gives
    <3> QED
      BY <1>1, <3>1, <3>2
  <2>3. \A m \in allocated : ~IsTerminal(m) =>
          /\ memory[m].ref \in Int
          /\ memory[m].ref >= 1 + Cardinality(Givers(Below, m))
                               + (IF l = m THEN 1 ELSE 0) + IF value = m THEN 1 ELSE 0
    <3> TAKE m \in allocated
    <3> HAVE ~IsTerminal(m)
    <3>1. memory[m].ref \in Int /\ memory[m].ref >= 1 + Owed(frames, value, m)
      BY CountsTyped DEF Counted
    <3> QED
      BY <2>2, <3>1
  <2>4. /\ new.memory \in Memory /\ Diagram(new.memory, new.allocated)
        /\ new.node \in new.allocated \union {NullNode}
        /\ l = value => new.node = l /\ new.memory = memory /\ new.allocated = allocated
        /\ l # value => \A n \in new.allocated :
             new.memory[n].ref >= IF n = new.node
                                  THEN IF n \in allocated THEN memory[n].ref + 1 ELSE 1
                                  ELSE memory[n].ref
        /\ \A n \in new.allocated : n \in allocated \/ n = new.node
    <3> HIDE DEF v, l
    <3> QED
      BY <1>4, <1>5, <1>6, NodeFound
  <2> HIDE DEF new, v
  <2>5. /\ l \in Node /\ value \in Node /\ new.node \in Node /\ 1 \in Int /\ -1 \in Int
        /\ new.allocated \subseteq Slot
    BY <1>4, <1>6, <2>4, DiagramShape DEF Node
  <2> HIDE DEF l
  <2>6. /\ one \in Memory
        /\ \A m \in Slot : one[m].ref = new.memory[m].ref + IF m = l THEN -1 ELSE 0
    BY <2>4, <2>5, CountChanges
  <2> HIDE DEF one
  <2>7. /\ letGo \in Memory
        /\ \A m \in Slot : letGo[m].ref = one[m].ref + IF m = value THEN -1 ELSE 0
    BY <2>5, <2>6, CountChanges
  <2> HIDE DEF letGo
  <2>8. /\ last \in Memory
        /\ \A m \in Slot : last[m].ref = letGo[m].ref + IF m = new.node THEN 1 ELSE 0
    <3>1. letGo \in Memory /\ new.node \in Node /\ 1 \in Int
      BY <2>5, <2>7
    <3> QED
      BY <3>1, CountChanges
  <2> HIDE DEF last
  <2>9. ASSUME NEW m \in new.allocated, ~IsTerminal(m)
        PROVE  /\ last[m].ref \in Int
               /\ last[m].ref >= (1 + Cardinality(Givers(Below, m)))
                                   + IF new.node = m THEN 1 ELSE 0
    <3>1. m \in Slot /\ new.memory[m].ref \in Int
      BY <2>4, <2>5, <2>9 DEF Memory
    <3>2. last[m].ref = new.memory[m].ref + (IF m = l THEN -1 ELSE 0)
                          + (IF m = value THEN -1 ELSE 0) + IF m = new.node THEN 1 ELSE 0
      BY <2>6, <2>7, <2>8, <3>1
    <3>3. Cardinality(Givers(Below, m)) \in Nat
      BY <2>2
    <3>4. CASE m \in allocated
      <4>1. /\ memory[m].ref \in Int
            /\ memory[m].ref >= 1 + Cardinality(Givers(Below, m))
                               + (IF l = m THEN 1 ELSE 0) + IF value = m THEN 1 ELSE 0
        BY <2>3, <2>9, <3>4
      <4>2. /\ l = value => new.memory[m].ref = memory[m].ref /\ new.node = l
            /\ l # value => new.memory[m].ref >= IF m = new.node THEN memory[m].ref + 1
                                                 ELSE memory[m].ref
        BY <2>4, <2>9, <3>4
      <4> QED
        BY <3>1, <3>2, <3>3, <4>1, <4>2
    <3>5. CASE m \notin allocated
      <4>1. Cardinality(Givers(Below, m)) = 0
        BY <1>1, <3>1, <3>5, NothingGiven
      <4>2. m # l /\ m # value /\ l # value /\ m = new.node
        BY <1>6, <2>4, <2>9, <3>1, <3>5 DEF Slot, NullNode
      <4>3. new.memory[m].ref >= 1
        BY <2>4, <2>9, <3>5, <4>2
      <4> QED
        BY <3>1, <3>2, <4>1, <4>2, <4>3
    <3> QED
      BY <3>4, <3>5
  <2> QED
    BY <1>1, <2>1, <2>9, CountedReturn
<1> QED
  BY <1>7, <1>8

LEMMA MadeGrows ==
  ASSUME TypeInv, [Next]_vars
  PROVE  /\ made \subseteq made'
         /\ cursor # cursor' =>
              (cursor < TableSize /\ made' = made) \/ "collect" \in made'
<1>1. CASE mkNode
  BY <1>1 DEF mkNode, Record
<1>2. CASE apply \/ restrict \/ existsAbstract \/ forallAbstract
  BY <1>2 DEF apply, restrict, existsAbstract, forallAbstract, Begin, Record
<1>3. CASE garbageCollect
  BY <1>3 DEF garbageCollect
<1>4. CASE CollectDone
  BY <1>4 DEF CollectDone, client
<1>5. CASE CollectEntry
  <2>1. \E i : i \in cursor .. TableSize - 1
    BY <1>5 DEF CollectEntry, FilledFrom
  <2>2. cursor \in 0 .. TableSize /\ TableSize \in Nat
    BY ROBDDAssumption DEF TypeInv, ClientTyped
  <2> QED
    BY <1>5, <2>1, <2>2 DEF CollectEntry, client
<1>6. CASE Recursion
  BY <1>6 DEF Recursion, ApplyTerminals, ApplyLookup, RestrictEnter, AbstractEnter, LowDone,
     HighDone, Return, Invoke, Crash, client
<1>7. CASE UNCHANGED vars
  BY <1>7 DEF vars
<1> QED
  BY <1>1, <1>2, <1>3, <1>4, <1>5, <1>6, <1>7 DEF Next

LEMMA CountedMakes ==
  ASSUME TypeInv, Semantics, Counted, OnlyApplies, mkNode, "clash" \notin made'
  PROVE  Counted'
<1>1. PICK v \in 0 .. max_variables, low \in held, high \in held :
        LET new == findOrAddUnique(v, low, high)
        IN  /\ Idle
            /\ v \in OperationCodes => "clash" \in made'
            /\ IF v >= max_variables
               THEN UNCHANGED store
               ELSE memory' = new.memory /\ allocated' = new.allocated
            /\ UNCHANGED frames
  BY DEF mkNode, Record
<1> DEFINE new == findOrAddUnique(v, low, high)
<1>2. frames = << >> /\ frames' = << >>
  BY <1>1 DEF Idle
<1>3. \A n \in allocated : ~IsTerminal(n) => memory[n].ref \in Int /\ memory[n].ref >= 1
  <2>1. \A n : Owed(frames, value, n) = 0
    BY <1>2, OwedNothing
  <2> QED
    BY <2>1, CountsTyped DEF Counted
<1>4. \A n \in allocated' : ~IsTerminal(n) => memory'[n].ref \in Int /\ memory'[n].ref >= 1
  <2>1. CASE v >= max_variables
    BY <1>1, <1>3, <2>1 DEF store
  <2>2. CASE ~(v >= max_variables)
    <3>1. /\ Diagram(memory, allocated) /\ TableSound(memory, allocated, table)
          /\ memory \in Memory /\ table \in [0 .. TableSize -> Entry]
      BY SafeFrames DEF Semantics
    <3>2. v \in Plain /\ low \in allocated \union {NullNode} /\ high \in allocated \union {NullNode}
      <4>1. v \in Variable
        BY <2>2, ROBDDAssumption DEF Variable
      <4> QED
        BY <1>1, <4>1 DEF Plain, Semantics
    <3>3. /\ new.memory \in Memory /\ Diagram(new.memory, new.allocated)
          /\ low = high => new.memory = memory /\ new.allocated = allocated
          /\ low # high => \A n \in new.allocated :
               new.memory[n].ref >= IF n = new.node
                                    THEN IF n \in allocated THEN memory[n].ref + 1 ELSE 1
                                    ELSE memory[n].ref
          /\ \A n \in new.allocated : n \in allocated \/ n = new.node
      BY <3>1, <3>2, NodeFound
    <3>4. memory' = new.memory /\ allocated' = new.allocated
      BY <1>1, <2>2
    <3> HIDE DEF new
    <3>5. \A n \in new.allocated : n \in Slot /\ new.memory[n].ref \in Int
      BY <3>3, DiagramShape DEF Memory
    <3> QED
      BY <1>3, <3>3, <3>4, <3>5
  <2> QED
    BY <2>1, <2>2
<1>5. \A n : Owed(frames', value', n) = 0
  BY <1>2, OwedNothing
<1>6. \A i \in 1 .. Len(frames') : frames'[i].kind = "apply"
  BY <1>2
<1> QED
  BY <1>4, <1>5, <1>6 DEF Counted

LEMMA CountedBegins ==
  ASSUME TypeInv, Semantics, Counted, OnlyApplies,
         NEW a \in held, NEW b \in held, NEW op \in Operation, Begin("apply", a, b, op, 0, FALSE)
  PROVE  Counted'
<1> DEFINE f == NewFrame("apply", a, b, op, 0, FALSE)
<1>1. frames = << >> /\ UNCHANGED <<memory, allocated>>
  BY DEF Begin, Idle, store
<1>2. \A n \in allocated : ~IsTerminal(n) => memory[n].ref >= 1
  <2>1. \A n : Owed(frames, value, n) = 0
    BY <1>1, OwedNothing
  <2> QED
    BY <2>1, CountsTyped DEF Counted
<1>3. frames' = << >> \/ frames' = <<f>>
  BY <1>1 DEF Begin
<1>4. f.kind = "apply" /\ f.stage = "enter"
  BY DEF NewFrame
<1> HIDE DEF f
<1>5. \A n : Owed(<<f>>, value', n) = 0
  <2> TAKE n
  <2>1. Len(<<f>>) = 1 /\ <<f>>[1] = f
    OBVIOUS
  <2>2. Givers(<<f>>, n) = {}
    BY <1>4, <2>1 DEF Givers, Gives
  <2> QED
    BY <1>4, <2>1, <2>2, FS_EmptySet DEF Owed
<1>6. \A n : Owed(frames', value', n) = 0
  BY <1>3, <1>5, OwedNothing
<1>7. \A i \in 1 .. Len(frames') : frames'[i].kind = "apply"
  BY <1>3, <1>4
<1> QED
  BY <1>1, <1>2, <1>6, <1>7 DEF Counted

LEMMA CountedStep ==
  ASSUME TypeInv, Semantics, Counted, [Next]_vars, CollectEntry => UNCHANGED store,
         "clash" \notin made'
  PROVE  Counted'
<1>1. SUFFICES ASSUME OnlyApplies' PROVE Counted'
  BY DEF Counted
<1>2. OnlyApplies
  BY <1>1, MadeGrows DEF OnlyApplies
<1>3. CASE apply
  <2>1. PICK a \in held, b \in held, op \in Ops : Begin("apply", a, b, op, 0, FALSE)
    BY <1>3 DEF apply
  <2> QED
    BY <1>2, <2>1, CountedBegins DEF Operation
<1>4. CASE restrict \/ existsAbstract \/ forallAbstract
  <2>1. \E kind \in {"restrict", "abstract"} : kind \in made'
    BY <1>4 DEF restrict, existsAbstract, forallAbstract, Begin, Record
  <2> QED
    BY <1>1, <2>1 DEF OnlyApplies
<1>5. CASE RestrictEnter \/ AbstractEnter
  <2>1. frames # << >> /\ Top.kind # "apply"
    BY <1>5 DEF RestrictEnter, AbstractEnter, Running
  <2>2. Len(frames) \in 1 .. Len(frames)
    BY <2>1, SafeFrames, BelowShape
  <2> QED
    BY <1>2, <2>1, <2>2 DEF Counted, Top
<1>6. CASE \/ garbageCollect \/ CollectDone \/ CollectEntry \/ UNCHANGED vars
  <2>1. UNCHANGED <<memory, allocated, frames, value>>
    BY <1>6 DEF garbageCollect, CollectDone, CollectEntry, vars, store
  <2> QED
    BY <1>2, <2>1 DEF Counted
<1> QED
  BY <1>2, <1>3, <1>4, <1>5, <1>6, CountedMakes, CountedApplies, CountedLow, CountedHigh
     DEF Next, Recursion

(* Counts protect what they count: the sweep of such a client releases     *)
(* nothing.                                                                *)
SafeInv ==
  /\ cursor < TableSize => "collect" \in made
  /\ SafeClient => Semantics /\ Counted

LEMMA SafeInvStep ==
  ASSUME TypeInv, SafeInv, [Next]_vars
  PROVE  SafeInv'
<1>1. cursor' < TableSize => "collect" \in made'
  BY MadeGrows DEF SafeInv
<1>2. ASSUME SafeClient'
      PROVE  Semantics' /\ Counted'
  <2>1. SafeClient
    BY <1>2, MadeGrows DEF SafeClient
  <2>2. Semantics /\ Counted
    BY <2>1 DEF SafeInv
  <2>3. ASSUME CollectEntry
        PROVE  UNCHANGED store
    <3>1. PICK i \in FilledFrom(cursor) :
            IF Uncounted(table[i].result) THEN TRUE ELSE UNCHANGED store
      BY <2>3 DEF CollectEntry
    <3>2. cursor \in 0 .. TableSize /\ i \in cursor .. TableSize - 1 /\ TableSize \in Nat
            /\ table[i].result # NullNode
      BY <3>1, ROBDDAssumption DEF FilledFrom, TypeInv, ClientTyped
    <3>3. cursor < TableSize /\ i \in 0 .. TableSize
      BY <3>2
    <3>4. OnlyApplies
      BY <2>1, <3>3 DEF SafeInv, SafeClient, OnlyApplies
    <3> DEFINE n == table[i].result
    <3>5. n \in allocated
      BY <2>2, <3>2, <3>3 DEF Semantics, TableSound, EntrySound
    <3>6. ~IsTerminal(n) => memory[n].ref >= 1 + Owed(frames, value, n)
      BY <2>2, <3>4, <3>5 DEF Counted
    <3> HIDE DEF n
    <3>7. Owed(frames, value, n) \in Nat
      <4>1. CASE frames = << >>
        BY <4>1, OwedNothing
      <4>2. CASE frames # << >>
        <5>1. /\ Cardinality(Givers(Below, n)) \in Nat
              /\ Owed(frames, value, n) =
                   Cardinality(Givers(Below, n)) + (IF Gives(Top, n) THEN 1 ELSE 0)
                     + IF Top.stage # "enter" /\ value = n THEN 1 ELSE 0
          BY <4>2, OwedReturns
        <5> QED
          BY <5>1
      <4> QED
        BY <4>1, <4>2
    <3>8. memory[n].ref \in Int
      BY <2>2, <3>5, CountsTyped
    <3>9. ~Uncounted(n)
      BY <3>6, <3>7, <3>8 DEF Uncounted
    <3> QED
      BY <3>1, <3>9 DEF n
  <2> QED
    BY <1>2, <2>2, <2>3, SafeStep, CountedStep DEF SafeClient
<1> QED
  BY <1>1, <1>2 DEF SafeInv

-----------------------------------------------------------------------------
(* Depth.  A call gets smaller with every call it makes, unless computeApply *)
(* has met an inner node left and a terminal right.                        *)

Size(f)  == IF f.kind = "apply" THEN f.a + f.b ELSE f.a + f.a
Stuck(f) == f.kind = "apply" /\ ~IsTerminal(f.a) /\ IsTerminal(f.b)
Room(f, i) == Stuck(f) \/ Size(f) + i < 2 * MaxNodes

DepthInv ==
  /\ outcome = "overflow" => frames # << >> /\ ~(Len(frames) < StackRoom)
  /\ SafeClient => \A i \in 1 .. Len(frames) : Room(frames[i], i)

LEMMA SizeShrinks ==
  ASSUME NEW mem, NEW D, Diagram(mem, D), NEW f \in Frame, f.a \in D, f.b \in D,
         Recurses(mem, f), NEW high \in BOOLEAN
  PROVE  LET g == SubOn(mem, f, high)
         IN  Stuck(g) \/ (~Stuck(f) /\ Size(g) < Size(f))
<1> DEFINE g == SubOn(mem, f, high)
<1>1. \A n \in D : ~IsTerminal(n) => Down(mem, n, high) \in Nat /\ Down(mem, n, high) < n
  BY DiagramShape DEF Down
<1>2. D \subseteq Nat
  BY DiagramShape
<1>3. /\ g.kind = f.kind
      /\ g.a = IF f.kind # "apply" \/ OpensOn(mem, f.a, f.b) THEN Down(mem, f.a, high) ELSE f.a
      /\ g.b = IF f.kind = "apply" /\ OpensSecondOn(mem, f.a, f.b)
               THEN Down(mem, f.b, high) ELSE f.b
  BY DEF SubOn, Frame
<1> HIDE DEF g
<1>4. CASE f.kind = "apply"
  <2>1. /\ OpensOn(mem, f.a, f.b) => ~IsTerminal(f.a)
        /\ OpensSecondOn(mem, f.a, f.b) => ~IsTerminal(f.b)
    BY DEF OpensOn, OpensSecondOn, ConsidersOn
  <2>2. ~OpensOn(mem, f.a, f.b) /\ ~OpensSecondOn(mem, f.a, f.b) =>
          ~IsTerminal(f.a) /\ IsTerminal(f.b)
    <3>1. \A n \in {f.a, f.b} : IF IsTerminal(n) THEN mem[n].var = 0 ELSE mem[n].var \in Plain
      BY DiagramShape DEF Diagram, IsTerminal
    <3> QED
      BY <1>4, <3>1, Opened DEF Recurses
  <2>3. Stuck(f) => ~OpensOn(mem, f.a, f.b) /\ ~OpensSecondOn(mem, f.a, f.b)
    <3>1. SUFFICES ASSUME ~IsTerminal(f.a), IsTerminal(f.b)
                   PROVE  ~OpensOn(mem, f.a, f.b) /\ ~OpensSecondOn(mem, f.a, f.b)
      BY DEF Stuck
    <3>2. mem[f.a].var \in Nat /\ mem[f.b].var = 0
      BY <3>1, DiagramShape, ROBDDAssumption DEF Diagram, IsTerminal, Plain, Variable
    <3> QED
      BY <3>1, <3>2 DEF OpensOn, OpensSecondOn, ConsidersOn
  <2>4. CASE ~OpensOn(mem, f.a, f.b) /\ ~OpensSecondOn(mem, f.a, f.b)
    <3>1. g.a = f.a /\ g.b = f.b /\ g.kind = "apply"
      BY <1>3, <1>4, <2>4
    <3>2. Stuck(g)
      BY <2>2, <2>4, <3>1 DEF Stuck
    <3> QED
      BY <3>2 DEF g
  <2>5. CASE OpensOn(mem, f.a, f.b) \/ OpensSecondOn(mem, f.a, f.b)
    <3>1. /\ f.a \in Nat /\ f.b \in Nat /\ g.a \in Nat /\ g.b \in Nat
          /\ g.a <= f.a /\ g.b <= f.b /\ (g.a < f.a \/ g.b < f.b)
      <4>1. f.a \in Nat /\ f.b \in Nat
        BY <1>2
      <4>2. /\ g.a = IF OpensOn(mem, f.a, f.b) THEN Down(mem, f.a, high) ELSE f.a
            /\ g.b = IF OpensSecondOn(mem, f.a, f.b) THEN Down(mem, f.b, high) ELSE f.b
        BY <1>3, <1>4
      <4>3. /\ OpensOn(mem, f.a, f.b) => g.a \in Nat /\ g.a < f.a
            /\ OpensSecondOn(mem, f.a, f.b) => g.b \in Nat /\ g.b < f.b
        BY <1>1, <2>1, <4>2
      <4> QED
        BY <2>5, <4>1, <4>2, <4>3
    <3>2. g.a + g.b < f.a + f.b
      BY <3>1
    <3>3. Size(g) < Size(f)
      BY <1>3, <1>4, <3>2 DEF Size
    <3> QED
      BY <2>3, <2>5, <3>3 DEF g
  <2> QED
    BY <2>4, <2>5
<1>5. CASE f.kind # "apply"
  <2>1. ~IsTerminal(f.a)
    BY <1>5 DEF Recurses
  <2>2. f.a \in Nat /\ g.a \in Nat /\ g.a < f.a
    BY <1>1, <1>2, <1>3, <1>5, <2>1
  <2>3. g.a + g.a < f.a + f.a
    BY <2>2
  <2> QED
    BY <1>3, <1>5, <2>3 DEF Size, Stuck, g
<1> QED
  BY <1>4, <1>5

LEMMA Overflows ==
  ASSUME TypeInv, DepthInv, [Next]_vars, outcome' = "overflow"
  PROVE  frames' # << >> /\ ~(Len(frames') < StackRoom)
<1>1. CASE Recursion
  <2>1. frames # << >> /\ outcome = "running"
    BY <1>1 DEF Recursion, ApplyTerminals, ApplyLookup, RestrictEnter, AbstractEnter, LowDone,
       HighDone, Running
  <2>2. \/ outcome' = outcome \/ outcome' = "crashed"
        \/ frames' = frames /\ ~(Len(frames) < StackRoom)
    BY <1>1 DEF Recursion, ApplyTerminals, ApplyLookup, RestrictEnter, AbstractEnter, LowDone,
       HighDone, Return, Invoke, Crash
  <2> QED
    BY <2>1, <2>2
<1>2. CASE UNCHANGED vars
  BY <1>2 DEF vars, DepthInv
<1>3. CASE mkNode
  BY <1>3 DEF mkNode, Idle
<1>4. CASE apply \/ restrict \/ existsAbstract \/ forallAbstract
  BY <1>4 DEF apply, restrict, existsAbstract, forallAbstract, Begin, Idle
<1>5. CASE garbageCollect \/ CollectEntry \/ CollectDone
  BY <1>5 DEF garbageCollect, CollectEntry, CollectDone, Idle
<1> QED
  BY <1>1, <1>2, <1>3, <1>4, <1>5 DEF Next

LEMMA RoomReturns ==
  ASSUME TypeInv, frames # << >>, \A i \in 1 .. Len(frames) : Room(frames[i], i),
         frames' = Below
  PROVE  \A i \in 1 .. Len(frames') : Room(frames'[i], i)
<1>1. /\ Len(frames) \in Nat \ {0} /\ Len(Below) = Len(frames) - 1
      /\ \A i \in 1 .. Len(Below) : Below[i] = frames[i]
  BY SafeFrames, BelowShape DEF Below
<1>2. \A i \in 1 .. Len(Below) : i \in 1 .. Len(frames)
  BY <1>1
<1> QED
  BY <1>1, <1>2

LEMMA RoomInvokes ==
  ASSUME TypeInv, Semantics, frames # << >>, \A i \in 1 .. Len(frames) : Room(frames[i], i),
         NEW f \in Frame, SameCall(Top, f), NEW high \in BOOLEAN, Recurses(memory, Top),
         Invoke(f, SubCall(Top, high))
  PROVE  \A i \in 1 .. Len(frames') : Room(frames'[i], i)
<1> DEFINE t == Top
           g == SubOn(memory, t, high)
           b == Below
           k == Len(b)
           s == Append(b, f)
           all == Append(s, g)
<1>1. /\ t \in Frame /\ t.a \in allocated /\ t.b \in allocated /\ Diagram(memory, allocated)
      /\ SameCall(t, f) /\ Recurses(memory, t)
  BY TopProper DEF Semantics
<1>2. Len(frames) = k + 1 /\ k \in Nat /\ b \in Seq(Frame) /\ t = frames[k + 1]
        /\ \A i \in 1 .. k : b[i] = frames[i]
  <2>1. /\ Len(frames) \in Nat \ {0} /\ Len(Below) = Len(frames) - 1 /\ Below \in Seq(Frame)
        /\ \A i \in 1 .. Len(Below) : Below[i] = frames[i]
    BY SafeFrames, BelowShape DEF Below
  <2>2. Len(frames) = Len(Below) + 1
    BY <2>1
  <2> QED
    BY <2>1, <2>2 DEF Top
<1>3. frames' = frames \/ frames' = all
  BY SubOnIsSubCall DEF Invoke
<1> HIDE DEF t
<1>4. g \in Frame
  BY <1>1, SubCalls
<1>5. Stuck(g) \/ (~Stuck(t) /\ Size(g) < Size(t))
  BY <1>1, SizeShrinks
<1>6. Size(g) \in Int /\ Size(t) \in Int /\ MaxNodes \in Int
  BY <1>1, <1>4, ROBDDAssumption DEF Size, Frame, Slot
<1> HIDE DEF g, b, k
<1>7. Room(t, k + 1) /\ \A i \in 1 .. k : Room(frames[i], i)
  <2>1. k + 1 \in 1 .. Len(frames) /\ \A i \in 1 .. k : i \in 1 .. Len(frames)
    BY <1>2
  <2> QED
    BY <1>2, <2>1
<1>8. Room(f, k + 1)
  BY <1>1, <1>7 DEF Room, Stuck, Size, SameCall
<1>9. Room(g, k + 2)
  <2>1. CASE Stuck(g)
    BY <2>1 DEF Room
  <2>2. CASE ~Stuck(t) /\ Size(g) < Size(t)
    <3>1. Size(t) + (k + 1) < 2 * MaxNodes
      BY <1>7, <2>2 DEF Room
    <3>2. Size(g) + (k + 2) < 2 * MaxNodes
      BY <1>2, <1>6, <2>2, <3>1
    <3> QED
      BY <3>2 DEF Room
  <2> QED
    BY <1>5, <2>1, <2>2
<1>10. /\ s \in Seq(Frame) /\ Len(s) = k + 1 /\ s[k + 1] = f
       /\ \A i \in 1 .. k : s[i] = b[i]
  BY <1>2, AppendProperties DEF k
<1> HIDE DEF s
<1>11. /\ Len(all) = k + 2 /\ all[k + 2] = g
       /\ \A i \in 1 .. k + 1 : all[i] = s[i]
  <2>1. /\ Len(all) = Len(s) + 1 /\ all[Len(s) + 1] = g
        /\ \A i \in 1 .. Len(s) : all[i] = s[i]
    BY <1>4, <1>10, AppendProperties
  <2>2. (k + 1) + 1 = k + 2
    BY <1>2
  <2> QED
    BY <1>10, <2>1, <2>2
<1> HIDE DEF all
<1>12. \A i \in 1 .. k + 2 : Room(all[i], i)
  <2>1. \A i \in 1 .. k + 2 : i \in 1 .. k \/ i = k + 1 \/ i = k + 2
    BY <1>2
  <2>2. k + 1 \in 1 .. k + 1 /\ \A i \in 1 .. k : i \in 1 .. k + 1
    BY <1>2
  <2> QED
    BY <1>2, <1>7, <1>8, <1>9, <1>10, <1>11, <2>1, <2>2
<1> QED
  BY <1>3, <1>11, <1>12

(* A stack whose innermost frame was changed for one that is no larger.    *)
LEMMA RoomGoesOn ==
  ASSUME TypeInv, frames # << >>, \A i \in 1 .. Len(frames) : Room(frames[i], i),
         NEW f \in Frame, \A i \in 1 .. Len(frames) : Room(Top, i) => Room(f, i),
         frames' = Append(Below, f)
  PROVE  \A i \in 1 .. Len(frames') : Room(frames'[i], i)
<1> DEFINE b == Below
           s == Append(b, f)
           k == Len(b)
<1>1. Len(frames) = k + 1 /\ k \in Nat /\ b \in Seq(Frame) /\ Top = frames[k + 1]
        /\ \A i \in 1 .. k : b[i] = frames[i]
  <2>1. /\ Len(frames) \in Nat \ {0} /\ Len(Below) = Len(frames) - 1 /\ Below \in Seq(Frame)
        /\ \A i \in 1 .. Len(Below) : Below[i] = frames[i]
    BY SafeFrames, BelowShape DEF Below
  <2>2. Len(frames) = Len(Below) + 1
    BY <2>1
  <2> QED
    BY <2>1, <2>2 DEF Top
<1>2. frames' = s
  OBVIOUS
<1> HIDE DEF b
<1>3. /\ Len(s) = k + 1 /\ s[k + 1] = f
      /\ \A i \in 1 .. k : s[i] = b[i]
  BY <1>1, AppendProperties
<1> HIDE DEF s, k
<1>4. k + 1 \in 1 .. Len(frames) /\ \A i \in 1 .. k : i \in 1 .. Len(frames)
  BY <1>1
<1>5. \A i \in 1 .. k + 1 : i \in 1 .. k \/ i = k + 1
  BY <1>1
<1> QED
  BY <1>1, <1>2, <1>3, <1>4, <1>5

LEMMA RoomStep ==
  ASSUME TypeInv, Semantics, \A i \in 1 .. Len(frames) : Room(frames[i], i), [Next]_vars
  PROVE  \A i \in 1 .. Len(frames') : Room(frames'[i], i)
<1>1. CASE frames' = frames
  BY <1>1
<1>2. CASE frames # << >> /\ frames' = Below
  BY <1>2, RoomReturns
<1>3. CASE \/ ApplyTerminals \/ ApplyLookup \/ RestrictEnter \/ LowDone \/ HighDone
  <2>1. frames # << >>
    BY <1>3 DEF ApplyTerminals, ApplyLookup, RestrictEnter, LowDone, HighDone, Running
  <2> DEFINE t == Top
             low == [Top EXCEPT !.stage = "low"]
             high == [Top EXCEPT !.stage = "high", !.low = value]
  <2>2. t \in Frame /\ Proper(memory, allocated, t)
    BY <2>1, TopProper
  <2>3. \/ frames' = Below \/ frames' = frames
        \/ Invoke(low, SubCall(Top, FALSE)) /\ Recurses(memory, t)
        \/ Invoke(high, SubCall(Top, TRUE)) /\ Recurses(memory, t)
    BY <1>3, <2>2 DEF ApplyTerminals, ApplyLookup, RestrictEnter, LowDone, HighDone, Return, Crash,
       Recurses, Proper, Var
  <2>4. low \in Frame /\ SameCall(t, low) /\ high \in Frame /\ SameCall(t, high)
    BY <2>2, SafeFrames DEF Frame, SameCall
  <2> HIDE DEF low, high
  <2>5. CASE Invoke(low, SubCall(Top, FALSE)) /\ Recurses(memory, t)
    BY <2>1, <2>4, <2>5, RoomInvokes
  <2>6. CASE Invoke(high, SubCall(Top, TRUE)) /\ Recurses(memory, t)
    BY <2>1, <2>4, <2>6, RoomInvokes
  <2> QED
    BY <1>1, <1>2, <2>1, <2>3, <2>5, <2>6
<1>4. CASE AbstractEnter
  <2>1. frames # << >> /\ Top.kind = "abstract"
    BY <1>4 DEF AbstractEnter, Running
  <2> DEFINE t == Top
             low == [Top EXCEPT !.stage = "low"]
             f == [Top EXCEPT !.kind = "apply", !.a = Side(Top.a, FALSE), !.b = Side(Top.a, TRUE)]
  <2>2. /\ t \in Frame /\ t.kind = "abstract" /\ t.a \in allocated
        /\ Diagram(memory, allocated)
    BY <2>1, TopProper DEF Semantics
  <2>3. ASSUME ~Beyond(t.a, t.var)
        PROVE  ~IsTerminal(t.a) /\ (Var(t.a) # t.var => Recurses(memory, t))
    <3>1. ~IsTerminal(t.a) /\ ~(memory[t.a].var > t.var)
      BY <2>3 DEF Beyond, Var
    <3>2. memory[t.a].var \in Nat /\ t.var \in Nat
      BY <2>2, <3>1, DiagramShape, ROBDDAssumption DEF Frame, Variable
    <3> QED
      BY <2>2, <3>1, <3>2 DEF Recurses, Var
  <2>4. \/ frames' = Below
        \/ frames' = Append(Below, f) /\ ~IsTerminal(t.a)
        \/ Invoke(low, SubCall(Top, FALSE)) /\ Recurses(memory, t)
    BY <1>4, <2>3 DEF AbstractEnter, Return
  <2>5. CASE frames' = Append(Below, f) /\ ~IsTerminal(t.a)
    <3>1. /\ memory[t.a].low \in Slot /\ memory[t.a].high \in Slot
          /\ memory[t.a].low < t.a /\ memory[t.a].high < t.a
      BY <2>2, <2>5, DiagramShape
    <3>2. /\ f \in Frame /\ f.kind = "apply"
          /\ f.a = memory[t.a].low /\ f.b = memory[t.a].high
      BY <2>2, <3>1 DEF Frame, Kind, Side
    <3> HIDE DEF f
    <3>3. \A n \in Slot : n \in Nat
      BY ROBDDAssumption DEF Slot
    <3>4. Size(f) \in Nat /\ Size(t) \in Nat /\ Size(f) <= Size(t) /\ ~Stuck(t)
      <4>1. t.a \in Nat
        BY <2>2, <3>3 DEF Frame
      <4> HIDE DEF t
      <4> QED
        BY <2>2, <3>1, <3>2, <3>3, <4>1 DEF Size, Stuck
    <3> HIDE DEF t
    <3>5. ASSUME NEW i \in 1 .. Len(frames), Room(t, i)
          PROVE  Room(f, i)
      <4>1. Size(t) + i < 2 * MaxNodes
        BY <3>4, <3>5 DEF Room
      <4>2. i \in Int /\ MaxNodes \in Int
        BY ROBDDAssumption
      <4>3. Size(f) + i < 2 * MaxNodes
        BY <3>4, <4>1, <4>2
      <4> QED
        BY <4>3 DEF Room
    <3> QED
      BY <2>1, <2>5, <3>2, <3>5, RoomGoesOn DEF t
  <2>6. CASE Invoke(low, SubCall(Top, FALSE)) /\ Recurses(memory, t)
    <3>1. low \in Frame /\ SameCall(t, low)
      BY <2>2 DEF Frame, SameCall
    <3> HIDE DEF low
    <3> QED
      BY <2>1, <2>6, <3>1, RoomInvokes
  <2> QED
    BY <1>2, <2>1, <2>4, <2>5, <2>6
<1>5. CASE apply \/ restrict \/ existsAbstract \/ forallAbstract
  <2>1. PICK kind \in Kind \ {"mkNode"}, a \in held, b \in held, op \in Operation,
              v \in Nat, bit \in BOOLEAN :
          Begin(kind, a, b, op, v, bit)
    <3>1. 0 \in Nat /\ Variable \subseteq Nat /\ FALSE \in BOOLEAN
      BY ROBDDAssumption DEF Variable
    <3>2. CASE apply
      BY <3>1, <3>2 DEF apply, Kind, Operation
    <3>3. CASE restrict
      BY <3>1, <3>3 DEF restrict, Kind, Operation
    <3>4. CASE existsAbstract
      BY <3>1, <3>4 DEF existsAbstract, Kind, Operation
    <3>5. CASE forallAbstract
      BY <3>1, <3>5 DEF forallAbstract, Kind, Operation
    <3> QED
      BY <1>5, <3>2, <3>3, <3>4, <3>5
  <2> DEFINE f == NewFrame(kind, a, b, op, v, bit)
  <2>2. frames' = frames \/ (NullNode \notin {a, b} /\ frames' = <<f>>)
    BY <2>1 DEF Begin
  <2>3. CASE NullNode \notin {a, b} /\ frames' = <<f>>
    <3>1. a \in Slot /\ b \in Slot
      BY <2>3, DiagramShape DEF Semantics
    <3>2. f.a = a /\ f.b = b
      BY DEF NewFrame
    <3> HIDE DEF f
    <3>3. Size(f) + 1 < 2 * MaxNodes
      BY <3>1, <3>2, ROBDDAssumption DEF Size, Slot
    <3>4. Len(<<f>>) = 1 /\ <<f>>[1] = f /\ \A i \in 1 .. 1 : i = 1
      OBVIOUS
    <3> QED
      BY <2>3, <3>3, <3>4 DEF Room
  <2> QED
    BY <1>1, <2>2, <2>3
<1>6. CASE mkNode \/ garbageCollect \/ CollectEntry \/ CollectDone \/ UNCHANGED vars
  <2>1. frames' = frames
    BY <1>6 DEF mkNode, garbageCollect, CollectEntry, CollectDone, vars
  <2> QED
    BY <1>1, <2>1
<1> QED
  BY <1>3, <1>4, <1>5, <1>6 DEF Next, Recursion

LEMMA DepthStep ==
  ASSUME TypeInv, SafeInv, DepthInv, [Next]_vars
  PROVE  DepthInv'
<1>1. outcome' = "overflow" => frames' # << >> /\ ~(Len(frames') < StackRoom)
  BY Overflows
<1>2. ASSUME SafeClient'
      PROVE  \A i \in 1 .. Len(frames') : Room(frames'[i], i)
  <2>1. SafeClient
    BY <1>2, MadeGrows DEF SafeClient
  <2> QED
    BY <2>1, RoomStep DEF SafeInv, DepthInv
<1> QED
  BY <1>1, <1>2 DEF DepthInv

-----------------------------------------------------------------------------
(* The properties.                                                         *)

LEMMA SafeSpec == Spec => [](TypeInv /\ SafeInv /\ DepthInv)
<1>1. ASSUME Init
      PROVE  TypeInv /\ SafeInv /\ DepthInv
  <2>1. TypeInv /\ Semantics
    BY <1>1, InitTyped, InitSafe
  <2>2. frames = << >> /\ outcome # "overflow" /\ cursor = TableSize
          /\ \A n \in allocated : IsTerminal(n)
    BY <1>1 DEF Init, IsTerminal
  <2>3. Counted
    BY <2>2 DEF Counted
  <2>4. ~(cursor < TableSize)
    BY <2>2, ROBDDAssumption
  <2> QED
    BY <2>1, <2>2, <2>3, <2>4 DEF SafeInv, DepthInv
<1>2. TypeInv /\ SafeInv /\ DepthInv /\ [Next]_vars => (TypeInv /\ SafeInv /\ DepthInv)'
  BY StepTyped, SafeInvStep, DepthStep
<1> QED
  BY <1>1, <1>2, PTL DEF Spec

(* What a node, a table entry or the client points to is not released: a   *)
(* client that makes and applies has every node counted once more than its *)
(* calls give back, and one that restricts or abstracts does not collect   *)
(* (ROBDD.cpp, garbageCollect).                                            *)
THEOREM NothingInUseReleased == Spec => []NothingDangles
<1>1. ASSUME TypeInv, SafeInv
      PROVE  NothingDangles
  <2>1. SUFFICES ASSUME Semantics
                 PROVE  /\ held \subseteq allocated \union {NullNode}
                        /\ \A n \in allocated \ {False, True} :
                             {memory[n].low, memory[n].high} \subseteq allocated
                        /\ \A i \in 0 .. TableSize : table[i].result \in allocated \union {NullNode}
    BY <1>1 DEF SafeInv, NothingDangles
  <2>2. \A n \in allocated \ {False, True} : {memory[n].low, memory[n].high} \subseteq allocated
    BY <2>1, DiagramShape DEF Semantics, IsTerminal
  <2>3. \A i \in 0 .. TableSize : table[i].result \in allocated \union {NullNode}
    BY <2>1 DEF Semantics, TableSound, EntrySound
  <2> QED
    BY <2>1, <2>2, <2>3 DEF Semantics
<1> QED
  BY <1>1, SafeSpec, PTL

(* The node a finished call returned is right for that call.               *)
LEMMA ReturnedRight ==
  ASSUME Semantics, NEW kind \in {"apply", "restrict", "abstract"}, Returned(kind)
  PROVE  Right(memory, allocated, call, value) /\ value # NullNode /\ call.kind = kind
BY DEF Semantics, Answered, Returned, Idle

(* Whatever apply returns computes its operation on its operands for every *)
(* assignment, through shared nodes, cache hits and table entries          *)
(* overwritten behind the recursion's back, and whatever the order of the  *)
(* variables in its operands.  The client makes no node whose variable has *)
(* the number of an operation it applies, or of the two the abstractions   *)
(* apply: the two tables would mistake one entry for another (ROBDD.cpp,   *)
(* computeApply).                                                          *)
THEOREM AppliesCorrectly == Spec => []ApplyComputes
<1>1. ASSUME TypeInv, SafeInv
      PROVE  ApplyComputes
  <2>1. SUFFICES ASSUME Semantics, Returned("apply"), NEW s
                 PROVE  Holds(value, s) <=> Combine(call.op, Holds(call.a, s), Holds(call.b, s))
    BY <1>1 DEF SafeInv, ApplyComputes
  <2>2. Val(memory, allocated, value, s) =
          Combine(call.op, Val(memory, allocated, call.a, s), Val(memory, allocated, call.b, s))
    BY <2>1, ReturnedRight DEF Right
  <2> QED
    BY <2>2, HoldsIsVal
<1> QED
  BY <1>1, SafeSpec, PTL

(* restrict returns the cofactor of a diagram whose variables are in order *)
(* and the abstractions its quantification over the variable (ROBDD.cpp,   *)
(* restrict, existsAbstract and forallAbstract).                           *)
THEOREM QuantifiesCorrectly == Spec => []QuantifiersCompute
<1>1. \A n, v, bit, s : Fixed(n, v, bit, s) = Val(memory, allocated, n, With(s, v, bit))
  BY HoldsIsVal DEF Fixed, With
<1>2. ASSUME TypeInv, SafeInv
      PROVE  QuantifiersCompute
  <2>1. SUFFICES ASSUME Semantics PROVE
          /\ Returned("restrict") /\ OrderedFrom(call.a) =>
               \A s \in SUBSET Variable : Holds(value, s) <=> Fixed(call.a, call.var, call.bit, s)
          /\ Returned("abstract") /\ OrderedFrom(call.a) =>
               \A s \in SUBSET Variable :
                 Holds(value, s) <=>
                   Combine(call.op, Fixed(call.a, call.var, FALSE, s),
                                    Fixed(call.a, call.var, TRUE, s))
    BY <1>2 DEF SafeInv, QuantifiersCompute
  <2>2. ASSUME Returned("restrict"), OrderedFrom(call.a), NEW s
        PROVE  Holds(value, s) <=> Fixed(call.a, call.var, call.bit, s)
    <3>1. Ordered(memory, allocated, call.a)
      BY <2>2, HoldsIsVal
    <3>2. Val(memory, allocated, value, s) =
            Val(memory, allocated, call.a, With(s, call.var, call.bit))
      BY <2>1, <2>2, <3>1, ReturnedRight DEF Right
    <3> QED
      BY <1>1, <3>2, HoldsIsVal
  <2>3. ASSUME Returned("abstract"), OrderedFrom(call.a), NEW s
        PROVE  Holds(value, s) <=>
                 Combine(call.op, Fixed(call.a, call.var, FALSE, s),
                                  Fixed(call.a, call.var, TRUE, s))
    <3>1. Ordered(memory, allocated, call.a)
      BY <2>3, HoldsIsVal
    <3>2. Val(memory, allocated, value, s) =
            Combine(call.op, Val(memory, allocated, call.a, With(s, call.var, FALSE)),
                             Val(memory, allocated, call.a, With(s, call.var, TRUE)))
      BY <2>1, <2>3, <3>1, ReturnedRight DEF Right
    <3> QED
      BY <1>1, <3>2, HoldsIsVal
  <2> QED
    BY <2>2, <2>3
<1> QED
  BY <1>2, SafeSpec, PTL

(* With stack for two calls per node, a call runs out of it only where     *)
(* computeApply met an inner node left and a terminal right: every other   *)
(* call makes smaller ones (ROBDD.cpp, the cofactors of computeApply).     *)
THEOREM RecursionIsBounded == Spec => []RecursionShrinks
<1>1. ASSUME TypeInv, DepthInv
      PROVE  RecursionShrinks
  <2>1. SUFFICES ASSUME SafeClient, StackRoom >= 2 * MaxNodes, outcome = "overflow"
                 PROVE  Top.kind = "apply" /\ ~IsTerminal(Top.a) /\ IsTerminal(Top.b)
    BY DEF RecursionShrinks
  <2>2. frames # << >> /\ ~(Len(frames) < StackRoom)
    BY <1>1, <2>1 DEF DepthInv
  <2>3. Len(frames) \in Nat \ {0} /\ Len(frames) \in 1 .. Len(frames) /\ Top \in Frame
    BY <1>1, <2>2, SafeFrames, BelowShape
  <2>4. Room(Top, Len(frames))
    BY <1>1, <2>1, <2>3 DEF DepthInv, Top
  <2>5. Size(Top) \in Nat
    <3> DEFINE t == Top
    <3>1. t.a \in Nat /\ t.b \in Nat
      BY <2>3, ROBDDAssumption DEF Frame, Slot
    <3> HIDE DEF t
    <3>2. Size(t) \in Nat
      BY <3>1 DEF Size
    <3> QED
      BY <3>2 DEF t
  <2>6. ~(Size(Top) + Len(frames) < 2 * MaxNodes)
    BY <2>1, <2>2, <2>3, <2>5, ROBDDAssumption
  <2> QED
    BY <2>4, <2>6 DEF Room, Stuck
<1> QED
  BY <1>1, SafeSpec, PTL

=============================================================================
