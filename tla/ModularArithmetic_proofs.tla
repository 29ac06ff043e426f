---------------------- MODULE ModularArithmetic_proofs ----------------------
(***************************************************************************)
(* Proofs about the arithmetic circuits, for every width, every set of     *)
(* builders and any room.                                                  *)
(*                                                                         *)
(* First the scripts alone: no call of a builder reads a variable that     *)
(* nothing has set, but for one array of the multiplier, whose unset part  *)
(* is read as it stands.  That makes TypeOK inductive.                     *)
(*                                                                         *)
(* Then a view of the circuit, which shows on each variable the signal of  *)
(* its pin, and what a script does to views, whatever circuit it builds:   *)
(* call by call, bit by bit, number by number.  The adder is exact only    *)
(* where OR gates show their disjunctions; an inverter shows 0.            *)
(*                                                                         *)
(* Last the circuit: while it has room, what its variables show is reached *)
(* by the calls made so far, from the client's numbers (ResultsInv).       *)
(***************************************************************************)
EXTENDS ModularArithmetic, Counting, SequenceTheorems

-----------------------------------------------------------------------------
(* Scripts. *)

(* The variables of the code, by name, iteration and bit.                  *)
Names ==
  {"nullptr", "a", "b", "m", "out", "ab", "ac", "bc", "ab_or_ac", "a_xor_b", "s", "c", "carry",
   "not_b", "gt", "eq", "a_gt_b", "a_ne_b", "a_eq_b", "eq_and_gt", "t1", "t2", "not_cmp",
   "not_sel", "sum", "diff", "product", "shifted"}

Variable == Names \X Nat \X Nat

(* The array that holds entries nothing sets.                              *)
Stacked == { v \in Variable : v[1] = "shifted" }

Kinds    == {"pin", "constant", "garbage", "gate", "drive"}

Call ==
  { made \in [kind : Kinds, arg : Byte, from : Variable \X Variable, to : Variable] :
      made.kind = "constant" => made.arg \in Bit }

(* The variables set before the k-th call of a script begun with D.        *)
Before(D, s, k) == D \union { s[j].to : j \in 1 .. k - 1 }

(* Begun with D, a script reads nothing that is not set, and leaves E; it  *)
(* takes what the stack held in one array only, and drives nothing there.  *)
Runs(D, s, E) ==
  /\ s \in Seq(Call)
  /\ \A k \in 1 .. Len(s) :
       /\ s[k].from[1] \in Before(D, s, k)
       /\ s[k].from[2] \in Before(D, s, k)
       /\ s[k].kind = "drive" => s[k].to \in Before(D, s, k) \ Stacked
       /\ s[k].kind = "garbage" => s[k].to \in Stacked
  /\ E \subseteq Before(D, s, Len(s) + 1)

LEMMA RunsNothing ==
  ASSUME NEW D, NEW E, E \subseteq D
  PROVE  Runs(D, << >>, E)
<1>1. << >> \in Seq(Call) /\ Len(<< >>) = 0
  OBVIOUS
<1>2. 1 .. 0 = {}
  OBVIOUS
<1> QED
  BY <1>1, <1>2 DEF Runs, Before

LEMMA RunsOne ==
  ASSUME NEW D, NEW made \in Call, made.from[1] \in D, made.from[2] \in D,
         made.kind = "drive" => made.to \in D \ Stacked, made.kind = "garbage" => made.to \in Stacked
  PROVE  Runs(D, <<made>>, D \union {made.to})
<1>1. <<made>> \in Seq(Call) /\ Len(<<made>>) = 1 /\ <<made>>[1] = made
  OBVIOUS
<1>2. \A k \in 1 .. 1 : k = 1
  OBVIOUS
<1>3. Before(D, <<made>>, 1) = D
  BY DEF Before
<1>4. Before(D, <<made>>, 1 + 1) = D \union {made.to}
  BY <1>1, <1>2 DEF Before
<1> HIDE DEF Before
<1> QED
  BY <1>1, <1>2, <1>3, <1>4 DEF Runs

(* A script that needs less and leaves more will do.                       *)
LEMMA RunsMore ==
  ASSUME NEW D, NEW E, NEW s, Runs(D, s, E), NEW F, NEW G, D \subseteq F, G \subseteq F \union E
  PROVE  Runs(F, s, G)
<1>1. \A k : Before(D, s, k) \subseteq Before(F, s, k)
  BY DEF Before
<1>2. F \subseteq Before(F, s, Len(s) + 1)
  BY DEF Before
<1> HIDE DEF Before
<1> QED
  BY <1>1, <1>2 DEF Runs

(* One script after another.                                               *)
LEMMA RunsThen ==
  ASSUME NEW D, NEW E, NEW F, NEW s, NEW t, Runs(D, s, E), Runs(E, t, F)
  PROVE  Runs(D, s \o t, F)
<1> DEFINE r == s \o t
<1>1. /\ s \in Seq(Call) /\ t \in Seq(Call) /\ r \in Seq(Call)
      /\ Len(s) \in Nat /\ Len(t) \in Nat /\ Len(r) = Len(s) + Len(t)
      /\ \A k \in 1 .. Len(s) : r[k] = s[k]
      /\ \A k \in 1 .. Len(t) : r[Len(s) + k] = t[k]
  BY DEF Runs
<1> HIDE DEF r
<1>2. ASSUME NEW k \in 1 .. Len(s) + 1
      PROVE  Before(D, s, k) = Before(D, r, k)
  <2>1. \A j \in 1 .. k - 1 : j \in 1 .. Len(s) /\ r[j] = s[j]
    BY <1>1
  <2> QED
    BY <2>1 DEF Before
<1>3. ASSUME NEW k \in 1 .. Len(t) + 1
      PROVE  Before(E, t, k) \subseteq Before(D, r, Len(s) + k)
  <2>1. ASSUME NEW j \in 1 .. k - 1
        PROVE  t[j].to \in Before(D, r, Len(s) + k)
    <3>1. Len(s) + j \in 1 .. (Len(s) + k) - 1 /\ r[Len(s) + j] = t[j]
      BY <1>1
    <3> QED
      BY <3>1 DEF Before
  <2>2. E \subseteq Before(D, r, Len(s) + 1)
    <3>1. E \subseteq Before(D, s, Len(s) + 1) /\ Len(s) + 1 \in 1 .. Len(s) + 1
      BY <1>1 DEF Runs
    <3> QED
      BY <3>1, <1>2
  <2>3. Before(D, r, Len(s) + 1) \subseteq Before(D, r, Len(s) + k)
    BY <1>1 DEF Before
  <2> QED
    BY <2>1, <2>2, <2>3 DEF Before
<1>4. ASSUME NEW k \in 1 .. Len(r)
      PROVE  /\ r[k].from[1] \in Before(D, r, k)
             /\ r[k].from[2] \in Before(D, r, k)
             /\ r[k].kind = "drive" => r[k].to \in Before(D, r, k) \ Stacked
             /\ r[k].kind = "garbage" => r[k].to \in Stacked
  <2>1. CASE k \in 1 .. Len(s)
    <3>1. k \in 1 .. Len(s) + 1
      BY <2>1, <1>1
    <3>2. Before(D, s, k) = Before(D, r, k) /\ r[k] = s[k]
      BY <3>1, <2>1, <1>1, <1>2
    <3> QED
      BY <3>2, <2>1 DEF Runs
  <2>2. CASE k \notin 1 .. Len(s)
    <3> DEFINE j == k - Len(s)
    <3>1. j \in 1 .. Len(t) /\ j \in 1 .. Len(t) + 1 /\ Len(s) + j = k
      BY <2>2, <1>1
    <3> HIDE DEF j
    <3>2. Before(E, t, j) \subseteq Before(D, r, k) /\ r[k] = t[j]
      BY <3>1, <1>1, <1>3
    <3> QED
      BY <3>1, <3>2 DEF Runs
  <2> QED
    BY <2>1, <2>2
<1>5. F \subseteq Before(D, r, Len(r) + 1)
  <2>1. F \subseteq Before(E, t, Len(t) + 1) /\ Len(t) + 1 \in 1 .. Len(t) + 1
    BY <1>1 DEF Runs
  <2>2. Len(s) + (Len(t) + 1) = Len(r) + 1
    BY <1>1
  <2> QED
    BY <2>1, <2>2, <1>3
<1>6. Runs(D, r, F)
  BY <1>1, <1>4, <1>5 DEF Runs
<1> QED
  BY <1>6 DEF r

-----------------------------------------------------------------------------
(* Scripts strung together. *)

Flattens(g, ss) ==
  g = [i \in 1 .. Len(ss) |-> IF i = 1 THEN ss[i] ELSE g[i - 1] \o ss[i]]

FlatOf(ss) == CHOOSE g : Flattens(g, ss)

(* The joined prefixes of a sequence of scripts exist.                     *)
LEMMA FlattenExists ==
  ASSUME NEW ss, Len(ss) \in Nat
  PROVE  Flattens(FlatOf(ss), ss)
<1> DEFINE n == Len(ss)
           Good(g, k) ==
             \A i \in 1 .. n : i <= k => g[i] = IF i = 1 THEN ss[i] ELSE g[i - 1] \o ss[i]
           T == { k \in 0 .. n : \E g : DOMAIN g = 1 .. n /\ Good(g, k) }
<1>1. 0 \in T
  <2> DEFINE h == [i \in 1 .. n |-> ss]
  <2>1. DOMAIN h = 1 .. n
    OBVIOUS
  <2> HIDE DEF h
  <2>2. \A i \in 1 .. n : ~(i <= 0)
    OBVIOUS
  <2>3. Good(h, 0)
    BY <2>2
  <2> QED
    BY <2>1, <2>3
<1>2. ASSUME NEW k \in T, k < n
      PROVE  k + 1 \in T
  <2>1. PICK g : DOMAIN g = 1 .. n /\ Good(g, k)
    OBVIOUS
  <2> DEFINE h == [i \in 1 .. n |-> IF i = k + 1
                                     THEN IF i = 1 THEN ss[i] ELSE g[i - 1] \o ss[i]
                                     ELSE g[i]]
  <2>2. ASSUME NEW i \in 1 .. n, i <= k + 1
        PROVE  h[i] = IF i = 1 THEN ss[i] ELSE h[i - 1] \o ss[i]
    <3>1. CASE i = k + 1
      <4>1. i # 1 => i - 1 \in 1 .. n /\ i - 1 # k + 1
        BY <3>1
      <4> QED
        BY <3>1, <4>1
    <3>2. CASE i # k + 1
      <4>1. i <= k /\ i - 1 # k + 1 /\ (i # 1 => i - 1 \in 1 .. n)
        BY <3>2, <2>2
      <4>2. h[i] = g[i] /\ (i # 1 => h[i - 1] = g[i - 1])
        BY <4>1, <3>2
      <4> QED
        BY <4>1, <4>2, <2>1
    <3> QED
      BY <3>1, <3>2
  <2>3. DOMAIN h = 1 .. n /\ Good(h, k + 1)
    BY <2>2
  <2> HIDE DEF h
  <2>4. k + 1 \in 0 .. n
    BY <1>2
  <2> QED
    BY <2>3, <2>4
<1>3. n \in T
  <2>1. T \subseteq 0 .. n
    OBVIOUS
  <2> HIDE DEF T
  <2>2. T = 0 .. n
    BY <1>1, <1>2, <2>1, AllReached
  <2> QED
    BY <2>2
<1>4. PICK g : DOMAIN g = 1 .. n /\ Good(g, n)
  BY <1>3
<1>5. Flattens([i \in 1 .. n |-> IF i = 1 THEN ss[i] ELSE g[i - 1] \o ss[i]], ss)
  <2> DEFINE h == [i \in 1 .. n |-> IF i = 1 THEN ss[i] ELSE g[i - 1] \o ss[i]]
  <2>1. ASSUME NEW i \in 1 .. n
        PROVE  h[i] = g[i]
    <3>1. i <= n
      OBVIOUS
    <3> QED
      BY <1>4, <3>1
  <2>2. \A i \in 1 .. n : i # 1 => i - 1 \in 1 .. n
    OBVIOUS
  <2> DEFINE by(f, i) == IF i = 1 THEN ss[i] ELSE f[i - 1] \o ss[i]
  <2>3. h = [i \in 1 .. n |-> by(h, i)]
    <3>1. h = [i \in 1 .. n |-> by(g, i)]
      OBVIOUS
    <3> HIDE DEF h
    <3>2. \A i \in 1 .. n : by(h, i) = by(g, i)
      BY <2>1, <2>2
    <3> HIDE DEF by
    <3> QED
      BY <3>1, <3>2
  <2> QED
    BY <2>3 DEF Flattens
<1> QED
  BY <1>5 DEF FlatOf

LEMMA FlatSteps ==
  ASSUME NEW ss, Len(ss) \in Nat, Len(ss) # 0
  PROVE  /\ FlattenSeq(ss) = FlatOf(ss)[Len(ss)]
         /\ FlatOf(ss)[1] = ss[1]
         /\ \A i \in 1 .. Len(ss) - 1 : FlatOf(ss)[i + 1] = FlatOf(ss)[i] \o ss[i + 1]
<1>1. FlattenSeq(ss) = FlatOf(ss)[Len(ss)]
  BY DEF FlattenSeq, FlatOf, Flattens
<1> DEFINE g == FlatOf(ss)
<1>2. Flattens(g, ss)
  BY FlattenExists
<1> HIDE DEF g
<1>3. \A i \in 1 .. Len(ss) : g[i] = IF i = 1 THEN ss[i] ELSE g[i - 1] \o ss[i]
  BY <1>2 DEF Flattens
<1>4. ASSUME NEW i \in 1 .. Len(ss) - 1
      PROVE  g[i + 1] = g[i] \o ss[i + 1]
  <2>1. i + 1 \in 1 .. Len(ss) /\ i + 1 # 1 /\ (i + 1) - 1 = i
    OBVIOUS
  <2> QED
    BY <2>1, <1>3
<1>5. g[1] = ss[1]
  BY <1>3
<1> QED
  BY <1>1, <1>4, <1>5 DEF g

(* A loop, from what every turn finds to what it leaves.                   *)
LEMMA RunsLoop ==
  ASSUME NEW n \in Nat, NEW ss, Len(ss) = n, n = 0 => ss = << >>, NEW I,
         \A k \in 1 .. n : Runs(I[k - 1], ss[k], I[k])
  PROVE  Runs(I[0], FlattenSeq(ss), I[n])
<1>1. CASE n = 0
  <2>1. FlattenSeq(ss) = << >>
    BY <1>1 DEF FlattenSeq
  <2> QED
    BY <1>1, <2>1, RunsNothing
<1>2. CASE n # 0
  <2> DEFINE g == FlatOf(ss)
             T == { k \in 0 .. n : k = 0 \/ Runs(I[0], g[k], I[k]) }
  <2>1. /\ FlattenSeq(ss) = g[n]
        /\ g[1] = ss[1]
        /\ \A i \in 1 .. n - 1 : g[i + 1] = g[i] \o ss[i + 1]
    BY <1>2, FlatSteps
  <2> HIDE DEF g
  <2>2. 0 \in T
    OBVIOUS
  <2>3. ASSUME NEW k \in T, k < n
        PROVE  k + 1 \in T
    <3>1. Runs(I[k], ss[k + 1], I[k + 1])
      <4>1. k + 1 \in 1 .. n /\ (k + 1) - 1 = k
        BY <2>3
      <4> QED
        BY <4>1
    <3>2. Runs(I[0], g[k + 1], I[k + 1])
      <4>1. CASE k = 0
        BY <4>1, <3>1, <2>1
      <4>2. CASE k # 0
        <5>1. k \in 1 .. n - 1
          BY <4>2, <2>3
        <5>2. g[k + 1] = g[k] \o ss[k + 1]
          BY <5>1, <2>1
        <5>3. Runs(I[0], g[k], I[k])
          BY <4>2
        <5> QED
          BY <5>2, <5>3, <3>1, RunsThen
      <4> QED
        BY <4>1, <4>2
    <3>3. k + 1 \in 0 .. n
      BY <2>3
    <3> QED
      BY <3>2, <3>3
  <2>4. T \subseteq 0 .. n
    OBVIOUS
  <2> HIDE DEF T
  <2>5. n \in T
    <3>1. T = 0 .. n
      BY <2>2, <2>3, <2>4, AllReached
    <3> QED
      BY <3>1
  <2> QED
    BY <2>5, <2>1, <1>2 DEF T
<1> QED
  BY <1>1, <1>2

Numbers == Names \X Nat
BitsOf(number, n) == { Bits(number, i) : i \in 1 .. n }

(* Every variable the builders name is one.                                *)
LEMMA VariableTypes ==
  /\ Null \in Variable
  /\ \A name \in Names : Local(name) \in Variable /\ Number(name) \in Numbers
  /\ \A i \in Nat : Carry(i) \in Variable /\ Product(i) \in Numbers /\ Shifted(i) \in Numbers
  /\ \A number \in Numbers, i \in Nat : Bits(number, i) \in Variable
  BY DEF Variable, Names, Numbers, Null, Local, Number, Carry, Product, Shifted, Bits

LEMMA StackedAre ==
  /\ \A i \in Nat : Carry(i) \in Variable \ Stacked
  /\ \A n, i \in Nat : Bits(Shifted(n), i) \in Stacked
  BY DEF Variable, Stacked, Names, Carry, Shifted, Bits

LEMMA ByteTypes ==
  /\ TRUTH_AND \in Byte /\ TRUTH_OR \in Byte /\ TRUTH_XOR \in Byte /\ TRUTH_INVERT \in Byte
  /\ Bit \subseteq Byte /\ 0 \in Byte
  BY DEF TRUTH_AND, TRUTH_OR, TRUTH_XOR, TRUTH_INVERT, Byte, Bit

(* A call and its fields.                                                  *)
LEMMA EmissionTypes ==
  ASSUME NEW kind \in Kinds, NEW arg \in Byte, NEW a \in Variable, NEW b \in Variable,
         NEW to \in Variable, kind = "constant" => arg \in Bit
  PROVE  /\ Emission(kind, arg, <<a, b>>, to) \in Call
         /\ Emission(kind, arg, <<a, b>>, to).kind = kind
         /\ Emission(kind, arg, <<a, b>>, to).arg = arg
         /\ Emission(kind, arg, <<a, b>>, to).from[1] = a
         /\ Emission(kind, arg, <<a, b>>, to).from[2] = b
         /\ Emission(kind, arg, <<a, b>>, to).to = to
  BY DEF Emission, Call

(* The single calls.                                                       *)
LEMMA RunsSingle ==
  ASSUME NEW D, NEW to \in Variable, Null \in D
  PROVE  /\ Runs(D, temp(to), D \union {to})
         /\ to \in Stacked => Runs(D, garbage(to), D \union {to})
         /\ \A v \in Bit : Runs(D, constPin(v, to), D \union {to})
         /\ \A byte \in Byte, a, b \in Variable \intersect D :
              Runs(D, gate(byte, a, b, to), D \union {to})
         /\ \A byte \in Byte, a, b \in Variable \intersect D :
              to \in D \ Stacked => Runs(D, drive(byte, a, b, to), D \union {to})
<1>1. Null \in Variable
  BY VariableTypes
<1>2. "pin" \in Kinds /\ "garbage" \in Kinds /\ "constant" \in Kinds /\ "gate" \in Kinds /\ "drive" \in Kinds
  BY DEF Kinds
<1>3. Bit \subseteq Byte /\ 0 \in Byte
  BY ByteTypes
<1>4. Runs(D, temp(to), D \union {to})
  <2> DEFINE made == Emission("pin", 0, <<Null, Null>>, to)
  <2>1. made \in Call /\ made.kind = "pin" /\ made.from[1] = Null /\ made.from[2] = Null /\ made.to = to
    BY <1>1, <1>2, <1>3, EmissionTypes
  <2> HIDE DEF made
  <2>2. Runs(D, <<made>>, D \union {made.to})
    BY <2>1, RunsOne
  <2> QED
    BY <2>1, <2>2 DEF temp, made
<1>5. ASSUME to \in Stacked
      PROVE  Runs(D, garbage(to), D \union {to})
  <2> DEFINE made == Emission("garbage", 0, <<Null, Null>>, to)
  <2>1. /\ made \in Call /\ made.kind = "garbage"
        /\ made.from[1] = Null /\ made.from[2] = Null /\ made.to = to
    BY <1>1, <1>2, <1>3, EmissionTypes
  <2> HIDE DEF made
  <2>2. Runs(D, <<made>>, D \union {made.to})
    BY <2>1, <1>5, RunsOne
  <2> QED
    BY <2>1, <2>2 DEF garbage, made
<1>6. ASSUME NEW v \in Bit
      PROVE  Runs(D, constPin(v, to), D \union {to})
  <2> DEFINE made == Emission("constant", v, <<Null, Null>>, to)
  <2>1. /\ made \in Call /\ made.kind = "constant"
        /\ made.from[1] = Null /\ made.from[2] = Null /\ made.to = to
    BY <1>1, <1>2, <1>3, EmissionTypes
  <2> HIDE DEF made
  <2>2. Runs(D, <<made>>, D \union {made.to})
    BY <2>1, RunsOne
  <2> QED
    BY <2>1, <2>2 DEF constPin, made
<1>7. ASSUME NEW byte \in Byte, NEW a \in Variable \intersect D, NEW b \in Variable \intersect D
      PROVE  Runs(D, gate(byte, a, b, to), D \union {to})
  <2> DEFINE made == Emission("gate", byte, <<a, b>>, to)
  <2>1. /\ made \in Call /\ made.kind = "gate"
        /\ made.from[1] = a /\ made.from[2] = b /\ made.to = to
    BY <1>1, <1>2, <1>3, EmissionTypes
  <2> HIDE DEF made
  <2>2. Runs(D, <<made>>, D \union {made.to})
    BY <2>1, RunsOne
  <2> QED
    BY <2>1, <2>2 DEF gate, made
<1>8. ASSUME NEW byte \in Byte, NEW a \in Variable \intersect D, NEW b \in Variable \intersect D,
             to \in D \ Stacked
      PROVE  Runs(D, drive(byte, a, b, to), D \union {to})
  <2> DEFINE made == Emission("drive", byte, <<a, b>>, to)
  <2>1. /\ made \in Call /\ made.kind = "drive"
        /\ made.from[1] = a /\ made.from[2] = b /\ made.to = to
    BY <1>1, <1>2, <1>3, EmissionTypes
  <2> HIDE DEF made
  <2>2. Runs(D, <<made>>, D \union {made.to})
    BY <2>1, <1>8, RunsOne
  <2> QED
    BY <2>1, <2>2 DEF drive, made
<1> QED
  BY <1>4, <1>5, <1>6, <1>7, <1>8

LEMMA RunsGates ==
  ASSUME NEW D, NEW to \in Variable, Null \in D,
         NEW a \in Variable, NEW b \in Variable, a \in D, b \in D
  PROVE  /\ Runs(D, andGate(a, b, to), D \union {to})
         /\ Runs(D, xorGate(a, b, to), D \union {to})
         /\ Runs(D, orGate(a, b, to), D \union {to})
         /\ Runs(D, notGate(a, to), D \union {to})
  BY RunsSingle, ByteTypes, VariableTypes DEF andGate, xorGate, orGate, notGate

-----------------------------------------------------------------------------
(* The adder. *)

(* The majority of three pins (majGate).                                   *)
LEMMA RunsMaj ==
  ASSUME NEW D, Null \in D, NEW a \in Variable, NEW b \in Variable, NEW c \in Variable,
         NEW to \in Variable \ Stacked, a \in D, b \in D, c \in D
  PROVE  Runs(D, majGate(a, b, c, to), D \union {to})
<1> DEFINE ab == Local("ab")
           ac == Local("ac")
           bc == Local("bc")
           or == Local("ab_or_ac")
           D1 == D \union {to}
           D2 == D1 \union {ab}
           D3 == D2 \union {ac}
           D4 == D3 \union {bc}
           D5 == D4 \union {or}
<1>1. ab \in Variable /\ ac \in Variable /\ bc \in Variable /\ or \in Variable
  BY VariableTypes DEF Names
<1>2. majGate(a, b, c, to) =
        temp(to) \o andGate(a, b, ab) \o andGate(a, c, ac) \o andGate(b, c, bc)
          \o orGate(ab, ac, or) \o drive(TRUTH_OR, or, bc, to)
  BY DEF majGate
<1> HIDE DEF ab, ac, bc, or
<1>3. Runs(D, temp(to), D1)
  BY RunsSingle
<1>4. Runs(D1, andGate(a, b, ab), D2)
  BY <1>1, RunsGates
<1>5. Runs(D2, andGate(a, c, ac), D3)
  BY <1>1, RunsGates
<1>6. Runs(D3, andGate(b, c, bc), D4)
  BY <1>1, RunsGates
<1>7. Runs(D4, orGate(ab, ac, or), D5)
  BY <1>1, RunsGates
<1>8. Runs(D5, drive(TRUTH_OR, or, bc, to), D5 \union {to})
  BY <1>1, RunsSingle, ByteTypes
<1>9. D \union {to} \subseteq D5 \union {to}
  OBVIOUS
<1> HIDE DEF D1, D2, D3, D4, D5
<1>10. Runs(D, majGate(a, b, c, to), D5 \union {to})
  <2>1. Runs(D, temp(to) \o andGate(a, b, ab) \o andGate(a, c, ac), D3)
    BY <1>3, <1>4, <1>5, RunsThen
  <2>2. Runs(D, temp(to) \o andGate(a, b, ab) \o andGate(a, c, ac) \o andGate(b, c, bc)
                  \o orGate(ab, ac, or), D5)
    BY <2>1, <1>6, <1>7, RunsThen
  <2> QED
    BY <2>2, <1>8, <1>2, RunsThen
<1> QED
  BY <1>9, <1>10, RunsMore

(* One bit of a sum (fullAdder).                                           *)
LEMMA RunsFullAdder ==
  ASSUME NEW D, Null \in D, NEW a \in Variable, NEW b \in Variable, NEW cin \in Variable,
         NEW sum \in Variable, NEW cout \in Variable \ Stacked, a \in D, b \in D, cin \in D
  PROVE  Runs(D, fullAdder(a, b, cin, sum, cout), D \union {sum, cout})
<1> DEFINE axb == Local("a_xor_b")
           D1 == D \union {axb}
           D2 == D1 \union {sum}
           D3 == D2 \union {cout}
<1>1. axb \in Variable
  BY VariableTypes DEF Names
<1>2. fullAdder(a, b, cin, sum, cout) =
        xorGate(a, b, axb) \o xorGate(axb, cin, sum) \o majGate(a, b, cin, cout)
  BY DEF fullAdder
<1> HIDE DEF axb
<1>3. Runs(D, xorGate(a, b, axb), D1)
  BY <1>1, RunsGates
<1>4. Runs(D1, xorGate(axb, cin, sum), D2)
  BY <1>1, RunsGates
<1>5. Runs(D2, majGate(a, b, cin, cout), D3)
  BY RunsMaj
<1>6. D \union {sum, cout} \subseteq D3
  OBVIOUS
<1> HIDE DEF D1, D2, D3
<1>7. Runs(D, fullAdder(a, b, cin, sum, cout), D3)
  BY <1>2, <1>3, <1>4, <1>5, RunsThen
<1> QED
  BY <1>6, <1>7, RunsMore

(* One bit of the adder.                                                   *)
AddBit(a, b, sum, i) ==
  temp(Local("s")) \o temp(Local("c"))
    \o fullAdder(Bits(a, i), Bits(b, i), Carry(i - 1), Bits(sum, i), Carry(i))

LEMMA AddIsBits ==
  ASSUME NEW a, NEW b, NEW sum, NEW bits \in Nat
  PROVE  add(a, b, sum, bits) = FlattenSeq([k \in 1 .. bits |-> AddBit(a, b, sum, k)])
  BY DEF add, InTurn, AddBit

(* The adder needs both numbers and its first carry, and leaves the sum.   *)
LEMMA RunsAdd ==
  ASSUME NEW a \in Numbers, NEW b \in Numbers, NEW sum \in Numbers, NEW bits \in Nat, NEW D,
         Null \in D, Carry(0) \in D, BitsOf(a, bits) \subseteq D, BitsOf(b, bits) \subseteq D
  PROVE  Runs(D, add(a, b, sum, bits), D \union BitsOf(sum, bits) \union { Carry(i) : i \in 0 .. bits })
<1> DEFINE ss == [k \in 1 .. bits |-> AddBit(a, b, sum, k)]
           I == [k \in 0 .. bits |-> D \union BitsOf(sum, k) \union { Carry(i) : i \in 0 .. k }]
<1>1. ASSUME NEW k \in 1 .. bits
      PROVE  Runs(I[k - 1], ss[k], I[k])
  <2> DEFINE E == I[k - 1]
             s == Local("s")
             c == Local("c")
             E1 == E \union {s}
             E2 == E1 \union {c}
             E3 == E2 \union {Bits(sum, k), Carry(k)}
  <2>1. /\ s \in Variable /\ c \in Variable
        /\ Bits(a, k) \in Variable /\ Bits(b, k) \in Variable /\ Bits(sum, k) \in Variable
        /\ Carry(k) \in Variable \ Stacked /\ Carry(k - 1) \in Variable
    BY VariableTypes, StackedAre DEF Names
  <2>2. k - 1 \in 0 .. bits /\ k \in 0 .. bits /\ k - 1 \in 0 .. k - 1
    OBVIOUS
  <2>3. Null \in E /\ Bits(a, k) \in E /\ Bits(b, k) \in E /\ Carry(k - 1) \in E
    BY <2>2 DEF BitsOf
  <2>4. I[k] \subseteq E3
    <3>1. \A i \in 1 .. k : i \in 1 .. k - 1 \/ i = k
      OBVIOUS
    <3>2. \A i \in 0 .. k : i \in 0 .. k - 1 \/ i = k
      OBVIOUS
    <3>3. BitsOf(sum, k) \subseteq BitsOf(sum, k - 1) \union {Bits(sum, k)}
      BY <3>1 DEF BitsOf
    <3>4. { Carry(i) : i \in 0 .. k } \subseteq { Carry(i) : i \in 0 .. k - 1 } \union {Carry(k)}
      BY <3>2
    <3> QED
      BY <3>3, <3>4, <2>2
  <2>5. ss[k] = temp(s) \o temp(c)
                  \o fullAdder(Bits(a, k), Bits(b, k), Carry(k - 1), Bits(sum, k), Carry(k))
    BY DEF AddBit
  <2> HIDE DEF E, I, ss, s, c
  <2>6. Runs(E, temp(s), E1)
    BY <2>1, <2>3, RunsSingle
  <2>7. Runs(E1, temp(c), E2)
    BY <2>1, <2>3, RunsSingle
  <2>8. Runs(E2, fullAdder(Bits(a, k), Bits(b, k), Carry(k - 1), Bits(sum, k), Carry(k)), E3)
    BY <2>1, <2>3, RunsFullAdder
  <2> HIDE DEF E1, E2, E3
  <2>9. Runs(E, ss[k], E3)
    BY <2>5, <2>6, <2>7, <2>8, RunsThen
  <2>10. Runs(E, ss[k], I[k])
    BY <2>4, <2>9, RunsMore
  <2> QED
    BY <2>10 DEF E
<1>2. Len(ss) = bits /\ (bits = 0 => ss = << >>)
  OBVIOUS
<1>3. I[0] \subseteq D
  <2>1. BitsOf(sum, 0) = {}
    BY DEF BitsOf
  <2>2. { Carry(i) : i \in 0 .. 0 } \subseteq {Carry(0)}
    OBVIOUS
  <2> QED
    BY <2>1, <2>2
<1>4. I[bits] = D \union BitsOf(sum, bits) \union { Carry(i) : i \in 0 .. bits }
  OBVIOUS
<1>5. add(a, b, sum, bits) = FlattenSeq(ss)
  BY AddIsBits
<1> HIDE DEF ss, I
<1>6. Runs(I[0], FlattenSeq(ss), I[bits])
  BY <1>1, <1>2, RunsLoop
<1> QED
  BY <1>3, <1>4, <1>5, <1>6, RunsMore

(* A loop whose turns read nothing of one another.                         *)
LEMMA RunsEach ==
  ASSUME NEW n \in Nat, NEW ss, Len(ss) = n, n = 0 => ss = << >>, NEW D, NEW v,
         \A k \in 1 .. n : Runs(D, ss[k], D \union {v[k]})
  PROVE  Runs(D, FlattenSeq(ss), D \union { v[k] : k \in 1 .. n })
<1> DEFINE I == [k \in 0 .. n |-> D \union { v[j] : j \in 1 .. k }]
<1>1. ASSUME NEW k \in 1 .. n
      PROVE  Runs(I[k - 1], ss[k], I[k])
  <2>1. k - 1 \in 0 .. n /\ k \in 0 .. n
    OBVIOUS
  <2>2. D \subseteq I[k - 1]
    BY <2>1
  <2>3. I[k] \subseteq I[k - 1] \union (D \union {v[k]})
    <3>1. \A j \in 1 .. k : j \in 1 .. k - 1 \/ j = k
      OBVIOUS
    <3> QED
      BY <3>1, <2>1
  <2> HIDE DEF I
  <2> QED
    BY <2>2, <2>3, RunsMore
<1>2. I[0] \subseteq D
  <2>1. \A j \in 1 .. 0 : FALSE
    OBVIOUS
  <2> QED
    BY <2>1
<1>3. I[n] = D \union { v[k] : k \in 1 .. n }
  OBVIOUS
<1> HIDE DEF I
<1>4. Runs(I[0], FlattenSeq(ss), I[n])
  BY <1>1, RunsLoop
<1> QED
  BY <1>2, <1>3, <1>4, RunsMore

-----------------------------------------------------------------------------
(* The turns of the loops. *)

Negated(i) == <<"not_b", 0, i>>

LEMMA SubIs ==
  ASSUME NEW a, NEW b, NEW diff, NEW bits \in Nat
  PROVE  sub(a, b, diff, bits) =
           FlattenSeq([k \in 1 .. bits |-> notGate(Bits(b, k), Negated(k))]) \o constPin(1, Carry(0))
             \o add(a, Number("not_b"), diff, bits)
  BY DEF sub, InTurn, Negated

GreaterAt(i) == <<"gt", 0, i>>
EqualAt(i)   == <<"eq", 0, i>>

CompareBit(a, b, i) ==
  notGate(Bits(b, i), Local("not_b"))
    \o andGate(Bits(a, i), Local("not_b"), Local("a_gt_b"))
    \o xorGate(Bits(a, i), Bits(b, i), Local("a_ne_b"))
    \o notGate(Local("a_ne_b"), Local("a_eq_b"))
    \o andGate(EqualAt(i + 1), GreaterAt(i + 1), Local("eq_and_gt"))
    \o orGate(Local("a_gt_b"), Local("eq_and_gt"), GreaterAt(i))
    \o andGate(EqualAt(i + 1), Local("a_eq_b"), EqualAt(i))

LEMMA CompareIs ==
  ASSUME NEW a, NEW b, NEW bits \in Nat
  PROVE  cmpLT(a, b, bits) =
           constPin(0, GreaterAt(bits + 1)) \o constPin(1, EqualAt(bits + 1))
             \o FlattenSeq([k \in 1 .. bits |-> CompareBit(a, b, bits + 1 - k)])
  BY DEF cmpLT, InTurn, CompareBit, GreaterAt, EqualAt

ChooseBit(x, y, i) ==
  notGate(Compared, Local("not_cmp")) \o choose(Compared, Local("not_cmp"), x, y, i)

LEMMA ChooseIs ==
  ASSUME NEW x, NEW y, NEW bits \in Nat
  PROVE  chooseCompared(x, y, bits) = FlattenSeq([k \in 1 .. bits |-> ChooseBit(x, y, k)])
  BY DEF chooseCompared, InTurn, ChooseBit

MulRow(x, y, bits, n) ==
  FlattenSeq([j \in 1 .. bits |-> andGate(Bits(x, n + 1), Bits(y, j), Bits(Shifted(n + 1), n + j))])
    \o FlattenSeq([k \in 1 .. n |-> constPin(0, Bits(Shifted(n + 1), k))])
    \o FlattenSeq([k \in 1 .. bits - n |-> garbage(Bits(Shifted(n + 1), n + bits + k))])
    \o constPin(0, Carry(0))
    \o add(Product(n), Shifted(n + 1), Product(n + 1), 2 * bits)

LEMMA MulIs ==
  ASSUME NEW x, NEW y, NEW bits \in Nat
  PROVE  buildModMul(x, y, bits) =
           FlattenSeq([k \in 1 .. 2 * bits |-> constPin(0, Bits(Product(1), k))])
             \o FlattenSeq([j \in 1 .. bits |-> andGate(Bits(x, 1), Bits(y, j), Bits(Product(1), j))])
             \o FlattenSeq([n \in 1 .. bits - 1 |-> MulRow(x, y, bits, n)])
  BY DEF buildModMul, InTurn, firstPartial, MulRow

LEMMA ModCompareIs ==
  ASSUME NEW bits \in Nat
  PROVE  buildModCompare(bits) =
           cmpLT(A, B, bits) \o FlattenSeq([k \in 1 .. bits - 1 |-> constPin(0, Bits(Out, k + 1))])
  BY DEF buildModCompare, InTurn

SelectBit(i) == choose(Bits(M, 1), Local("not_sel"), A, B, i)

LEMMA SelectIs ==
  ASSUME NEW bits \in Nat
  PROVE  buildSelect(bits) =
           notGate(Bits(M, 1), Local("not_sel")) \o FlattenSeq([k \in 1 .. bits |-> SelectBit(k)])
  BY DEF buildSelect, InTurn, SelectBit

-----------------------------------------------------------------------------
(* What the parts of the builders read is set. *)

(* The subtraction sets its own first carry.                               *)
LEMMA RunsSub ==
  ASSUME NEW a \in Numbers, NEW b \in Numbers, NEW diff \in Numbers, NEW bits \in Nat, NEW D,
         Null \in D, BitsOf(a, bits) \subseteq D, BitsOf(b, bits) \subseteq D
  PROVE  Runs(D, sub(a, b, diff, bits), D \union BitsOf(diff, bits))
<1> DEFINE ss == [k \in 1 .. bits |-> notGate(Bits(b, k), Negated(k))]
           v == [k \in 1 .. bits |-> Negated(k)]
           D1 == D \union { v[k] : k \in 1 .. bits }
           D2 == D1 \union {Carry(0)}
           not_b == Number("not_b")
<1>1. ASSUME NEW k \in 1 .. bits
      PROVE  Runs(D, ss[k], D \union {v[k]})
  <2>1. Bits(b, k) \in D /\ Bits(b, k) \in Variable /\ Negated(k) \in Variable
    <3>1. Bits(b, k) \in D
      BY DEF BitsOf
    <3>2. k \in Nat /\ Bits(b, k) \in Variable
      BY VariableTypes
    <3>3. Negated(k) \in Variable
      BY <3>2 DEF Negated, Variable, Names
    <3> QED
      BY <3>1, <3>2, <3>3
  <2>2. Runs(D, notGate(Bits(b, k), Negated(k)), D \union {Negated(k)})
    BY <2>1, RunsGates
  <2> QED
    BY <2>2
<1>2. Len(ss) = bits /\ (bits = 0 => ss = << >>)
  OBVIOUS
<1>3. sub(a, b, diff, bits) = FlattenSeq(ss) \o constPin(1, Carry(0)) \o add(a, not_b, diff, bits)
  BY SubIs
<1>4. BitsOf(not_b, bits) \subseteq D1 /\ not_b \in Numbers
  BY VariableTypes DEF BitsOf, Bits, Negated, Number, Names
<1>5. Null \in D1 /\ Null \in D2 /\ Carry(0) \in D2 /\ Carry(0) \in Variable /\ 1 \in Bit
  BY VariableTypes DEF Bit
<1>6. D1 = D \union { v[k] : k \in 1 .. bits } /\ D \subseteq D1 /\ D1 \subseteq D2
  OBVIOUS
<1>7. D2 = D1 \union {Carry(0)}
  OBVIOUS
<1> HIDE DEF ss, v, D1, D2, not_b
<1>8. Runs(D, FlattenSeq(ss), D1)
  BY <1>1, <1>2, <1>6, RunsEach
<1>9. Runs(D1, constPin(1, Carry(0)), D2)
  BY <1>5, <1>7, RunsSingle
<1>10. Runs(D2, add(a, not_b, diff, bits), D2 \union BitsOf(diff, bits) \union { Carry(i) : i \in 0 .. bits })
  BY <1>4, <1>5, <1>6, RunsAdd
<1>11. Runs(D, sub(a, b, diff, bits), D2 \union BitsOf(diff, bits) \union { Carry(i) : i \in 0 .. bits })
  BY <1>3, <1>8, <1>9, <1>10, RunsThen
<1> QED
  BY <1>11, <1>6, RunsMore

LEMMA RunsCompareBit ==
  ASSUME NEW a \in Numbers, NEW b \in Numbers, NEW i \in Nat, NEW D, Null \in D,
         Bits(a, i) \in D, Bits(b, i) \in D, GreaterAt(i + 1) \in D, EqualAt(i + 1) \in D
  PROVE  Runs(D, CompareBit(a, b, i), D \union {GreaterAt(i), EqualAt(i)})
<1> DEFINE nb == Local("not_b")
           agb == Local("a_gt_b")
           anb == Local("a_ne_b")
           aeb == Local("a_eq_b")
           eag == Local("eq_and_gt")
           D1 == D \union {nb}
           D2 == D1 \union {agb}
           D3 == D2 \union {anb}
           D4 == D3 \union {aeb}
           D5 == D4 \union {eag}
           D6 == D5 \union {GreaterAt(i)}
           D7 == D6 \union {EqualAt(i)}
           ai == Bits(a, i)
           bi == Bits(b, i)
           gi == GreaterAt(i)
           ei == EqualAt(i)
           gh == GreaterAt(i + 1)
           eh == EqualAt(i + 1)
<1>1. /\ nb \in Variable /\ agb \in Variable /\ anb \in Variable /\ aeb \in Variable /\ eag \in Variable
      /\ ai \in Variable /\ bi \in Variable
  BY VariableTypes DEF Names
<1>2. gi \in Variable /\ ei \in Variable /\ gh \in Variable /\ eh \in Variable
  BY DEF GreaterAt, EqualAt, Variable, Names
<1>3. CompareBit(a, b, i) =
        notGate(bi, nb) \o andGate(ai, nb, agb) \o xorGate(ai, bi, anb) \o notGate(anb, aeb)
          \o andGate(eh, gh, eag) \o orGate(agb, eag, gi) \o andGate(eh, aeb, ei)
  BY DEF CompareBit
<1>4. ai \in D /\ bi \in D /\ gh \in D /\ eh \in D
  OBVIOUS
<1> HIDE DEF nb, agb, anb, aeb, eag, ai, bi, gi, ei, gh, eh
<1>5. Runs(D, notGate(bi, nb), D1)
  BY <1>1, <1>4, RunsGates
<1>6. Runs(D1, andGate(ai, nb, agb), D2)
  BY <1>1, <1>4, RunsGates
<1>7. Runs(D2, xorGate(ai, bi, anb), D3)
  BY <1>1, <1>4, RunsGates
<1>8. Runs(D3, notGate(anb, aeb), D4)
  BY <1>1, RunsGates
<1>9. Runs(D4, andGate(eh, gh, eag), D5)
  BY <1>1, <1>2, <1>4, RunsGates
<1>10. Runs(D5, orGate(agb, eag, gi), D6)
  BY <1>1, <1>2, RunsGates DEF gi
<1>11. Runs(D6, andGate(eh, aeb, ei), D7)
  BY <1>1, <1>2, <1>4, RunsGates DEF ei
<1>12. D \union {GreaterAt(i), EqualAt(i)} \subseteq D7
  OBVIOUS
<1> HIDE DEF D1, D2, D3, D4, D5, D6, D7
<1>13. Runs(D, notGate(bi, nb) \o andGate(ai, nb, agb) \o xorGate(ai, bi, anb), D3)
  BY <1>5, <1>6, <1>7, RunsThen
<1>14. Runs(D, notGate(bi, nb) \o andGate(ai, nb, agb) \o xorGate(ai, bi, anb) \o notGate(anb, aeb)
                 \o andGate(eh, gh, eag), D5)
  BY <1>13, <1>8, <1>9, RunsThen
<1>15. Runs(D, CompareBit(a, b, i), D7)
  BY <1>3, <1>14, <1>10, <1>11, RunsThen
<1> QED
  BY <1>12, <1>15, RunsMore

(* The comparison leaves its verdict.                                      *)
LEMMA RunsCompare ==
  ASSUME NEW a \in Numbers, NEW b \in Numbers, NEW bits \in Nat \ {0}, NEW D,
         Null \in D, BitsOf(a, bits) \subseteq D, BitsOf(b, bits) \subseteq D
  PROVE  Runs(D, cmpLT(a, b, bits), D \union {Compared})
<1> DEFINE ss == [k \in 1 .. bits |-> CompareBit(a, b, bits + 1 - k)]
           E == D \union {GreaterAt(bits + 1)}
           I == [k \in 0 .. bits |-> D \union {GreaterAt(bits + 1 - k), EqualAt(bits + 1 - k)}]
<1>1. ASSUME NEW k \in 1 .. bits
      PROVE  Runs(I[k - 1], ss[k], I[k])
  <2> DEFINE i == bits + 1 - k
  <2>1. k - 1 \in 0 .. bits /\ k \in 0 .. bits /\ i \in 1 .. bits /\ i \in Nat /\ bits + 1 - (k - 1) = i + 1
    OBVIOUS
  <2>2. /\ ss[k] = CompareBit(a, b, i)
        /\ I[k] = D \union {GreaterAt(i), EqualAt(i)}
        /\ I[k - 1] = D \union {GreaterAt(i + 1), EqualAt(i + 1)}
    BY <2>1
  <2> HIDE DEF i, ss, I
  <2> DEFINE F == D \union {GreaterAt(i + 1), EqualAt(i + 1)}
  <2>3. Null \in F /\ Bits(a, i) \in F /\ Bits(b, i) \in F /\ GreaterAt(i + 1) \in F /\ EqualAt(i + 1) \in F
    BY <2>1 DEF BitsOf
  <2>4. D \union {GreaterAt(i), EqualAt(i)} \subseteq F \union {GreaterAt(i), EqualAt(i)}
    OBVIOUS
  <2> HIDE DEF F
  <2>5. Runs(F, CompareBit(a, b, i), F \union {GreaterAt(i), EqualAt(i)})
    BY <2>1, <2>3, RunsCompareBit
  <2>6. Runs(F, CompareBit(a, b, i), D \union {GreaterAt(i), EqualAt(i)})
    BY <2>4, <2>5, RunsMore
  <2> QED
    BY <2>2, <2>6 DEF F
<1>2. Len(ss) = bits /\ (bits = 0 => ss = << >>)
  OBVIOUS
<1>3. I[0] = E \union {EqualAt(bits + 1)}
  OBVIOUS
<1>4. D \union {Compared} \subseteq I[bits]
  <2>1. bits + 1 - bits = 1 /\ bits \in 0 .. bits
    OBVIOUS
  <2>2. Compared = GreaterAt(1)
    BY DEF Compared, GreaterAt
  <2> QED
    BY <2>1, <2>2
<1>5. cmpLT(a, b, bits) =
        constPin(0, GreaterAt(bits + 1)) \o constPin(1, EqualAt(bits + 1)) \o FlattenSeq(ss)
  BY CompareIs
<1>6. GreaterAt(bits + 1) \in Variable /\ EqualAt(bits + 1) \in Variable /\ 0 \in Bit /\ 1 \in Bit
  BY DEF GreaterAt, EqualAt, Variable, Names, Bit
<1> HIDE DEF ss, I
<1>7. Runs(D, constPin(0, GreaterAt(bits + 1)), E)
  BY <1>6, RunsSingle
<1>8. Runs(E, constPin(1, EqualAt(bits + 1)), E \union {EqualAt(bits + 1)})
  BY <1>6, RunsSingle
<1> HIDE DEF E
<1>9. Runs(I[0], FlattenSeq(ss), I[bits])
  BY <1>1, <1>2, RunsLoop
<1>10. Runs(D, cmpLT(a, b, bits), I[bits])
  BY <1>3, <1>5, <1>7, <1>8, <1>9, RunsThen
<1> QED
  BY <1>4, <1>10, RunsMore

LEMMA RunsChoose ==
  ASSUME NEW sel \in Variable, NEW not_sel \in Variable, NEW x \in Numbers, NEW y \in Numbers,
         NEW i \in Nat, NEW D, Null \in D, sel \in D, not_sel \in D, Bits(x, i) \in D, Bits(y, i) \in D
  PROVE  Runs(D, choose(sel, not_sel, x, y, i), D \union {Bits(Out, i)})
<1> DEFINE t1 == Local("t1")
           t2 == Local("t2")
           xi == Bits(x, i)
           yi == Bits(y, i)
           oi == Bits(Out, i)
           D1 == D \union {t1}
           D2 == D1 \union {t2}
           D3 == D2 \union {oi}
<1>1. t1 \in Variable /\ t2 \in Variable /\ xi \in Variable /\ yi \in Variable /\ oi \in Variable
  BY VariableTypes DEF Names, Out
<1>2. choose(sel, not_sel, x, y, i) = andGate(sel, xi, t1) \o andGate(not_sel, yi, t2) \o orGate(t1, t2, oi)
  BY DEF choose
<1>3. D \union {Bits(Out, i)} \subseteq D3
  OBVIOUS
<1> HIDE DEF t1, t2, xi, oi
<1>4. Runs(D, andGate(sel, xi, t1), D1)
  BY <1>1, RunsGates DEF xi
<1>5. Runs(D1, andGate(not_sel, yi, t2), D2)
  BY <1>1, RunsGates
<1>6. Runs(D2, orGate(t1, t2, oi), D3)
  BY <1>1, RunsGates
<1> HIDE DEF D1, D2, D3, yi
<1>7. Runs(D, choose(sel, not_sel, x, y, i), D3)
  BY <1>2, <1>4, <1>5, <1>6, RunsThen
<1> QED
  BY <1>3, <1>7, RunsMore

LEMMA RunsChooseCompared ==
  ASSUME NEW x \in Numbers, NEW y \in Numbers, NEW bits \in Nat, NEW D, Null \in D, Compared \in D,
         BitsOf(x, bits) \subseteq D, BitsOf(y, bits) \subseteq D
  PROVE  Runs(D, chooseCompared(x, y, bits), D \union BitsOf(Out, bits))
<1> DEFINE ss == [k \in 1 .. bits |-> ChooseBit(x, y, k)]
           v == [k \in 1 .. bits |-> Bits(Out, k)]
           nc == Local("not_cmp")
           D1 == D \union {nc}
<1>1. ASSUME NEW k \in 1 .. bits
      PROVE  Runs(D, ss[k], D \union {v[k]})
  <2>1. nc \in Variable /\ Compared \in Variable
    BY VariableTypes DEF Names, Compared, Variable
  <2>2. ChooseBit(x, y, k) = notGate(Compared, nc) \o choose(Compared, nc, x, y, k)
    BY DEF ChooseBit
  <2>3. Bits(x, k) \in D1 /\ Bits(y, k) \in D1 /\ Null \in D1 /\ Compared \in D1 /\ nc \in D1 /\ k \in Nat
    BY DEF BitsOf
  <2> HIDE DEF nc
  <2>4. Runs(D, notGate(Compared, nc), D1)
    BY <2>1, RunsGates
  <2>5. D \subseteq D1
    OBVIOUS
  <2> HIDE DEF D1
  <2>6. Runs(D1, choose(Compared, nc, x, y, k), D1 \union {Bits(Out, k)})
    BY <2>1, <2>3, RunsChoose
  <2>7. Runs(D, ChooseBit(x, y, k), D1 \union {Bits(Out, k)})
    BY <2>2, <2>4, <2>6, RunsThen
  <2>8. Runs(D, ChooseBit(x, y, k), D \union {Bits(Out, k)})
    BY <2>5, <2>7, RunsMore
  <2> QED
    BY <2>8
<1>2. Len(ss) = bits /\ (bits = 0 => ss = << >>)
  OBVIOUS
<1>3. chooseCompared(x, y, bits) = FlattenSeq(ss)
  BY ChooseIs
<1>4. { v[k] : k \in 1 .. bits } = BitsOf(Out, bits)
  BY DEF BitsOf
<1> HIDE DEF ss, v
<1> QED
  BY <1>1, <1>2, <1>3, <1>4, RunsEach

(* One further product: the copy of y for a bit of x, zeros below it and   *)
(* anything above, and its sum with the product so far.                    *)
LEMMA RunsMulRow ==
  ASSUME NEW x \in Numbers, NEW y \in Numbers, NEW bits \in Nat, NEW n \in 1 .. bits - 1, NEW D,
         Null \in D, BitsOf(x, bits) \subseteq D, BitsOf(y, bits) \subseteq D,
         BitsOf(Product(n), 2 * bits) \subseteq D
  PROVE  Runs(D, MulRow(x, y, bits, n), D \union BitsOf(Product(n + 1), 2 * bits))
<1> DEFINE row == Shifted(n + 1)
           ands   == [j \in 1 .. bits |-> andGate(Bits(x, n + 1), Bits(y, j), Bits(row, n + j))]
           zeros  == [k \in 1 .. n |-> constPin(0, Bits(row, k))]
           others == [k \in 1 .. bits - n |-> garbage(Bits(row, n + bits + k))]
           v1 == [j \in 1 .. bits |-> Bits(row, n + j)]
           v2 == [k \in 1 .. n |-> Bits(row, k)]
           v3 == [k \in 1 .. bits - n |-> Bits(row, n + bits + k)]
           D1 == D \union { v1[k] : k \in 1 .. bits }
           D2 == D1 \union { v2[k] : k \in 1 .. n }
           D3 == D2 \union { v3[k] : k \in 1 .. bits - n }
           D4 == D3 \union {Carry(0)}
           sum == add(Product(n), row, Product(n + 1), 2 * bits)
           D5 == D4 \union BitsOf(Product(n + 1), 2 * bits) \union { Carry(i) : i \in 0 .. 2 * bits }
<1>1. MulRow(x, y, bits, n) =
        FlattenSeq(ands) \o FlattenSeq(zeros) \o FlattenSeq(others) \o constPin(0, Carry(0)) \o sum
  BY DEF MulRow
<1>2. /\ row \in Numbers /\ Product(n) \in Numbers /\ Product(n + 1) \in Numbers
      /\ bits - n \in Nat /\ 2 * bits \in Nat /\ n \in Nat
      /\ \A i \in Nat : Bits(row, i) \in Variable /\ Bits(x, i) \in Variable /\ Bits(y, i) \in Variable
  <2>1. n \in Nat /\ n + 1 \in Nat
    OBVIOUS
  <2>2. row \in Numbers /\ Product(n) \in Numbers /\ Product(n + 1) \in Numbers
    BY <2>1, VariableTypes
  <2> HIDE DEF row
  <2> QED
    BY <2>1, <2>2, VariableTypes
<1>3. Null \in D1 /\ Null \in D2 /\ Null \in D3 /\ Null \in D4 /\ Carry(0) \in D4 /\ 0 \in Bit /\ Carry(0) \in Variable
  BY VariableTypes DEF Bit
<1>4. BitsOf(row, 2 * bits) \subseteq D4
  <2>1. ASSUME NEW i \in 1 .. 2 * bits
        PROVE  Bits(row, i) \in D4
    <3>1. CASE i <= n
      <4>1. i \in 1 .. n
        BY <3>1
      <4>2. v2[i] = Bits(row, i)
        BY <4>1
      <4> QED
        BY <4>1, <4>2
    <3>2. CASE n < i /\ i <= n + bits
      <4>1. i - n \in 1 .. bits /\ n + (i - n) = i
        BY <3>2
      <4>2. v1[i - n] = Bits(row, i)
        BY <4>1
      <4> QED
        BY <4>1, <4>2
    <3>3. CASE n + bits < i
      <4>1. i - (n + bits) \in 1 .. bits - n /\ n + bits + (i - (n + bits)) = i
        BY <3>3
      <4>2. v3[i - (n + bits)] = Bits(row, i)
        BY <4>1
      <4> QED
        BY <4>1, <4>2
    <3> QED
      BY <3>1, <3>2, <3>3
  <2> QED
    BY <2>1 DEF BitsOf
<1>5. ASSUME NEW j \in 1 .. bits
      PROVE  Runs(D, ands[j], D \union {v1[j]})
  <2>1. n + 1 \in 1 .. bits /\ n + 1 \in Nat /\ j \in Nat /\ n + j \in Nat
    OBVIOUS
  <2>2. Bits(x, n + 1) \in D /\ Bits(y, j) \in D
    BY <2>1 DEF BitsOf
  <2>3. ands[j] = andGate(Bits(x, n + 1), Bits(y, j), Bits(row, n + j)) /\ v1[j] = Bits(row, n + j)
    OBVIOUS
  <2> HIDE DEF row, ands, v1
  <2> QED
    BY <1>2, <2>1, <2>2, <2>3, RunsGates
<1>6. ASSUME NEW k \in 1 .. n
      PROVE  Runs(D1, zeros[k], D1 \union {v2[k]})
  <2>1. zeros[k] = constPin(0, Bits(row, k)) /\ v2[k] = Bits(row, k) /\ k \in Nat
    OBVIOUS
  <2> HIDE DEF row, zeros, v2, D1
  <2> QED
    BY <1>2, <1>3, <2>1, RunsSingle
<1>7. ASSUME NEW k \in 1 .. bits - n
      PROVE  Runs(D2, others[k], D2 \union {v3[k]})
  <2>1. /\ others[k] = garbage(Bits(row, n + bits + k)) /\ v3[k] = Bits(row, n + bits + k)
        /\ n + bits + k \in Nat /\ n + 1 \in Nat
    OBVIOUS
  <2>2. Bits(row, n + bits + k) \in Stacked
    BY <2>1, StackedAre
  <2> HIDE DEF row, others, v3, D2
  <2> QED
    BY <1>2, <1>3, <2>1, <2>2, RunsSingle
<1>8. /\ Len(ands) = bits /\ (bits = 0 => ands = << >>)
      /\ Len(zeros) = n /\ (n = 0 => zeros = << >>)
      /\ Len(others) = bits - n /\ (bits - n = 0 => others = << >>)
  BY <1>2
<1>9. BitsOf(Product(n), 2 * bits) \subseteq D4
  OBVIOUS
<1>10. D \union BitsOf(Product(n + 1), 2 * bits) \subseteq D5
  OBVIOUS
<1> HIDE DEF row, ands, zeros, others, v1, v2, v3
<1>11. Runs(D, FlattenSeq(ands), D1)
  BY <1>5, <1>8, RunsEach, SMTT(30)
<1> HIDE DEF D1
<1>12. Runs(D1, FlattenSeq(zeros), D2)
  BY <1>2, <1>6, <1>8, RunsEach
<1> HIDE DEF D2
<1>13. Runs(D2, FlattenSeq(others), D3)
  <2> DEFINE m == bits - n
  <2>1. m \in Nat
    BY <1>2
  <2>2. \A k \in 1 .. m : Runs(D2, others[k], D2 \union {v3[k]})
    BY <1>7
  <2>3. Len(others) = m /\ (m = 0 => others = << >>)
    BY <1>8
  <2>4. D3 = D2 \union { v3[k] : k \in 1 .. m }
    OBVIOUS
  <2> HIDE DEF m, D3
  <2> QED
    BY <2>1, <2>2, <2>3, <2>4, RunsEach
<1> HIDE DEF D3
<1>14. Runs(D3, constPin(0, Carry(0)), D4)
  BY <1>3, RunsSingle
<1> HIDE DEF D4
<1>15. Runs(D4, sum, D5)
  BY <1>2, <1>3, <1>4, <1>9, RunsAdd
<1> HIDE DEF D5, sum
<1>16. Runs(D, FlattenSeq(ands) \o FlattenSeq(zeros) \o FlattenSeq(others), D3)
  BY <1>11, <1>12, <1>13, RunsThen
<1>17. Runs(D, MulRow(x, y, bits, n), D5)
  BY <1>1, <1>14, <1>15, <1>16, RunsThen
<1> QED
  BY <1>10, <1>17, RunsMore

(* The product leaves its last row of sums.                                *)
LEMMA RunsMul ==
  ASSUME NEW x \in Numbers, NEW y \in Numbers, NEW bits \in Nat \ {0}, NEW D,
         Null \in D, BitsOf(x, bits) \subseteq D, BitsOf(y, bits) \subseteq D
  PROVE  Runs(D, buildModMul(x, y, bits), D \union BitsOf(Product(bits), 2 * bits))
<1> DEFINE clear == [k \in 1 .. 2 * bits |-> constPin(0, Bits(Product(1), k))]
           first == [j \in 1 .. bits |-> andGate(Bits(x, 1), Bits(y, j), Bits(Product(1), j))]
           rows  == [n \in 1 .. bits - 1 |-> MulRow(x, y, bits, n)]
           v1 == [k \in 1 .. 2 * bits |-> Bits(Product(1), k)]
           v2 == [j \in 1 .. bits |-> Bits(Product(1), j)]
           D1 == D \union { v1[k] : k \in 1 .. 2 * bits }
           D2 == D1 \union { v2[j] : j \in 1 .. bits }
           I  == [n \in 0 .. bits - 1 |-> D2 \union BitsOf(Product(n + 1), 2 * bits)]
<1>1. buildModMul(x, y, bits) = FlattenSeq(clear) \o FlattenSeq(first) \o FlattenSeq(rows)
  BY MulIs
<1>2. 2 * bits \in Nat /\ bits \in Nat /\ bits - 1 \in Nat /\ 0 \in Bit /\ 1 \in 1 .. bits
  BY DEF Bit
<1>3. /\ Product(1) \in Numbers
      /\ \A i \in Nat : Bits(Product(1), i) \in Variable /\ Bits(x, i) \in Variable /\ Bits(y, i) \in Variable
  BY VariableTypes
<1>4. /\ Len(clear) = 2 * bits /\ (2 * bits = 0 => clear = << >>)
      /\ Len(first) = bits /\ (bits = 0 => first = << >>)
      /\ Len(rows) = bits - 1 /\ (bits - 1 = 0 => rows = << >>)
  BY <1>2
<1>5. BitsOf(Product(1), 2 * bits) \subseteq D1
  BY DEF BitsOf
<1>6. Null \in D1 /\ BitsOf(x, bits) \subseteq D1 /\ BitsOf(y, bits) \subseteq D1 /\ D1 \subseteq D2 /\ D \subseteq D2
  OBVIOUS
<1>7. ASSUME NEW k \in 1 .. 2 * bits
      PROVE  Runs(D, clear[k], D \union {v1[k]})
  <2>1. clear[k] = constPin(0, Bits(Product(1), k)) /\ v1[k] = Bits(Product(1), k) /\ k \in Nat
    OBVIOUS
  <2> HIDE DEF clear, v1
  <2> QED
    BY <2>1, <1>2, <1>3, RunsSingle
<1>8. ASSUME NEW j \in 1 .. bits
      PROVE  Runs(D1, first[j], D1 \union {v2[j]})
  <2>1. /\ first[j] = andGate(Bits(x, 1), Bits(y, j), Bits(Product(1), j))
        /\ v2[j] = Bits(Product(1), j) /\ j \in Nat
    OBVIOUS
  <2>2. Bits(x, 1) \in D1 /\ Bits(y, j) \in D1
    BY <1>6, <1>2 DEF BitsOf
  <2> HIDE DEF first, v2, D1
  <2> QED
    BY <2>1, <2>2, <1>3, <1>6, RunsGates
<1>9. ASSUME NEW n \in 1 .. bits - 1
      PROVE  Runs(I[n - 1], rows[n], I[n])
  <2> DEFINE E == D2 \union BitsOf(Product(n), 2 * bits)
  <2>1. /\ n - 1 \in 0 .. bits - 1 /\ n \in 0 .. bits - 1 /\ (n - 1) + 1 = n
        /\ rows[n] = MulRow(x, y, bits, n)
    OBVIOUS
  <2>2. I[n - 1] = E /\ I[n] = D2 \union BitsOf(Product(n + 1), 2 * bits)
    BY <2>1
  <2>3. /\ Null \in E /\ BitsOf(x, bits) \subseteq E /\ BitsOf(y, bits) \subseteq E
        /\ BitsOf(Product(n), 2 * bits) \subseteq E /\ D2 \subseteq E
    BY <1>6
  <2> HIDE DEF E, I, rows, D2
  <2>4. Runs(E, MulRow(x, y, bits, n), E \union BitsOf(Product(n + 1), 2 * bits))
    BY <2>3, <1>2, RunsMulRow
  <2>5. Runs(E, MulRow(x, y, bits, n), D2 \union BitsOf(Product(n + 1), 2 * bits))
    BY <2>3, <2>4, RunsMore
  <2> QED
    BY <2>1, <2>2, <2>5
<1>10. I[0] \subseteq D2
  <2>1. 0 \in 0 .. bits - 1 /\ 0 + 1 = 1
    BY <1>2
  <2>2. I[0] = D2 \union BitsOf(Product(1), 2 * bits)
    BY <2>1
  <2> QED
    BY <2>2, <1>5, <1>6
<1>11. D \union BitsOf(Product(bits), 2 * bits) \subseteq I[bits - 1]
  <2>1. bits - 1 \in 0 .. bits - 1 /\ (bits - 1) + 1 = bits
    BY <1>2
  <2>2. I[bits - 1] = D2 \union BitsOf(Product(bits), 2 * bits)
    BY <2>1
  <2> QED
    BY <2>2, <1>6
<1>12. D1 = D \union { v1[k] : k \in 1 .. 2 * bits } /\ D2 = D1 \union { v2[j] : j \in 1 .. bits }
  OBVIOUS
<1> HIDE DEF clear, first, rows, v1, v2, D1, D2, I
<1>13. Runs(D, FlattenSeq(clear), D1)
  BY <1>2, <1>4, <1>7, <1>12, RunsEach
<1>14. Runs(D1, FlattenSeq(first), D2)
  <2>1. Runs(D1, FlattenSeq(first), D1 \union { v2[j] : j \in 1 .. bits })
    BY <1>2, <1>4, <1>8, RunsEach, SMTT(30)
  <2> QED
    BY <2>1, <1>12
<1>15. Runs(I[0], FlattenSeq(rows), I[bits - 1])
  BY <1>2, <1>4, <1>9, RunsLoop
<1>16. Runs(D2, FlattenSeq(rows), I[bits - 1])
  BY <1>10, <1>15, RunsMore
<1>17. Runs(D, buildModMul(x, y, bits), I[bits - 1])
  BY <1>1, <1>13, <1>14, <1>16, RunsThen
<1> QED
  BY <1>11, <1>17, RunsMore

-----------------------------------------------------------------------------
(* The builders. *)

(* The client's numbers, as a builder finds them.                          *)
Inputs(builder, bits) ==
  {Null} \union { <<Operands(builder)[j], 0, i>> : j \in 1 .. Len(Operands(builder)), i \in 1 .. bits }

LEMMA InputsAre ==
  ASSUME NEW bits, NEW builder
  PROVE  /\ Null \in Inputs(builder, bits)
         /\ BitsOf(A, bits) \subseteq Inputs(builder, bits)
         /\ builder \notin {"buildModInv", "buildREDC", "buildModSquare"} =>
              BitsOf(B, bits) \subseteq Inputs(builder, bits)
         /\ builder \notin {"buildModInv", "buildREDC", "buildModSquare", "buildModMul",
                            "buildMontMul", "buildModCompare"} =>
              BitsOf(M, bits) \subseteq Inputs(builder, bits)
<1>1. BitsOf(A, bits) = { <<"a", 0, i>> : i \in 1 .. bits }
  BY DEF BitsOf, Bits, A, Number
<1>2. BitsOf(B, bits) = { <<"b", 0, i>> : i \in 1 .. bits }
  BY DEF BitsOf, Bits, B, Number
<1>3. BitsOf(M, bits) = { <<"m", 0, i>> : i \in 1 .. bits }
  BY DEF BitsOf, Bits, M, Number
<1>4. 1 \in 1 .. Len(Operands(builder)) /\ Operands(builder)[1] = "a"
  BY DEF Operands
<1>5. builder \notin {"buildModInv", "buildREDC", "buildModSquare"} =>
        2 \in 1 .. Len(Operands(builder)) /\ Operands(builder)[2] = "b"
  BY DEF Operands
<1>6. builder \notin {"buildModInv", "buildREDC", "buildModSquare", "buildModMul",
                      "buildMontMul", "buildModCompare"} =>
        3 \in 1 .. Len(Operands(builder)) /\ Operands(builder)[3] = "m"
  BY DEF Operands
<1>7. ASSUME NEW j \in 1 .. Len(Operands(builder)), NEW i \in 1 .. bits
      PROVE  <<Operands(builder)[j], 0, i>> \in Inputs(builder, bits)
  BY DEF Inputs
<1>8. BitsOf(A, bits) \subseteq Inputs(builder, bits)
  BY <1>1, <1>4, <1>7
<1>9. builder \notin {"buildModInv", "buildREDC", "buildModSquare"} =>
        BitsOf(B, bits) \subseteq Inputs(builder, bits)
  BY <1>2, <1>5, <1>7
<1>10. builder \notin {"buildModInv", "buildREDC", "buildModSquare", "buildModMul",
                      "buildMontMul", "buildModCompare"} =>
        BitsOf(M, bits) \subseteq Inputs(builder, bits)
  BY <1>3, <1>6, <1>7
<1>11. Null \in Inputs(builder, bits)
  BY DEF Inputs
<1> QED
  BY <1>8, <1>9, <1>10, <1>11

LEMMA RunsSumming ==
  ASSUME NEW bits \in Nat, NEW D, Null \in D, BitsOf(A, bits) \subseteq D, BitsOf(B, bits) \subseteq D
  PROVE  Runs(D, Summing(bits), D \union BitsOf(Number("sum"), bits))
<1>1. A \in Numbers /\ B \in Numbers /\ Number("sum") \in Numbers /\ Carry(0) \in Variable /\ 0 \in Bit
  BY VariableTypes DEF Names, A, B, Bit
<1> DEFINE D1 == D \union {Carry(0)}
           D2 == D1 \union BitsOf(Number("sum"), bits) \union { Carry(i) : i \in 0 .. bits }
<1>2. Runs(D, constPin(0, Carry(0)), D1)
  BY <1>1, RunsSingle
<1>3. Runs(D1, add(A, B, Number("sum"), bits), D2)
  BY <1>1, RunsAdd
<1>4. D \union BitsOf(Number("sum"), bits) \subseteq D2
  OBVIOUS
<1> HIDE DEF D1, D2
<1>5. Runs(D, Summing(bits), D2)
  BY <1>2, <1>3, RunsThen DEF Summing
<1> QED
  BY <1>4, <1>5, RunsMore

LEMMA RunsModAdd ==
  ASSUME NEW bits \in Nat \ {0}, NEW D, Null \in D,
         BitsOf(A, bits) \subseteq D, BitsOf(B, bits) \subseteq D, BitsOf(M, bits) \subseteq D
  PROVE  Runs(D, buildModAdd(bits), {})
<1> DEFINE sum  == Number("sum")
           diff == Number("diff")
           D1 == D \union BitsOf(sum, bits)
           D2 == D1 \union {Compared}
           D3 == D2 \union BitsOf(diff, bits)
           D4 == D3 \union BitsOf(Out, bits)
<1>1. sum \in Numbers /\ diff \in Numbers /\ M \in Numbers /\ bits \in Nat
  BY VariableTypes DEF Names, M
<1>2. buildModAdd(bits) =
        Summing(bits) \o cmpLT(M, sum, bits) \o sub(sum, M, diff, bits) \o chooseCompared(diff, sum, bits)
  BY DEF buildModAdd
<1> HIDE DEF sum, diff
<1>3. Runs(D, Summing(bits), D1)
  BY RunsSumming DEF sum
<1>4. Runs(D1, cmpLT(M, sum, bits), D2)
  BY <1>1, RunsCompare
<1>5. Runs(D2, sub(sum, M, diff, bits), D3)
  BY <1>1, RunsSub
<1>6. Runs(D3, chooseCompared(diff, sum, bits), D4)
  BY <1>1, RunsChooseCompared
<1> HIDE DEF D1, D2, D3, D4
<1>7. Runs(D, Summing(bits) \o cmpLT(M, sum, bits) \o sub(sum, M, diff, bits), D3)
  BY <1>3, <1>4, <1>5, RunsThen
<1>8. Runs(D, buildModAdd(bits), D4)
  BY <1>2, <1>6, <1>7, RunsThen
<1> QED
  BY <1>8, RunsMore

LEMMA RunsModSub ==
  ASSUME NEW bits \in Nat \ {0}, NEW D, Null \in D,
         BitsOf(A, bits) \subseteq D, BitsOf(B, bits) \subseteq D, BitsOf(M, bits) \subseteq D
  PROVE  Runs(D, buildModSub(bits), {})
<1> DEFINE sum  == Number("sum")
           diff == Number("diff")
           D1 == D \union BitsOf(diff, bits)
           D2 == D1 \union {Compared}
           D3 == D2 \union {Carry(0)}
           D4 == D3 \union BitsOf(sum, bits) \union { Carry(i) : i \in 0 .. bits }
           D5 == D4 \union BitsOf(Out, bits)
<1>1. /\ sum \in Numbers /\ diff \in Numbers /\ A \in Numbers /\ B \in Numbers /\ M \in Numbers
      /\ bits \in Nat /\ Carry(0) \in Variable /\ 0 \in Bit
  BY VariableTypes DEF Names, A, B, M, Bit
<1>2. buildModSub(bits) =
        sub(A, B, diff, bits) \o cmpLT(A, B, bits) \o constPin(0, Carry(0))
          \o add(diff, M, sum, bits) \o chooseCompared(sum, diff, bits)
  BY DEF buildModSub
<1> HIDE DEF sum, diff
<1>3. Runs(D, sub(A, B, diff, bits), D1)
  BY <1>1, RunsSub
<1>4. Runs(D1, cmpLT(A, B, bits), D2)
  BY <1>1, RunsCompare
<1>5. Runs(D2, constPin(0, Carry(0)), D3)
  BY <1>1, RunsSingle
<1>6. Runs(D3, add(diff, M, sum, bits), D4)
  BY <1>1, RunsAdd
<1>7. Runs(D4, chooseCompared(sum, diff, bits), D5)
  BY <1>1, RunsChooseCompared
<1> HIDE DEF D1, D2, D3, D4, D5
<1>8. Runs(D, sub(A, B, diff, bits) \o cmpLT(A, B, bits) \o constPin(0, Carry(0)), D3)
  BY <1>3, <1>4, <1>5, RunsThen
<1>9. Runs(D, buildModSub(bits), D5)
  BY <1>2, <1>6, <1>7, <1>8, RunsThen
<1> QED
  BY <1>9, RunsMore

LEMMA RunsModCompare ==
  ASSUME NEW bits \in Nat \ {0}, NEW D, Null \in D,
         BitsOf(A, bits) \subseteq D, BitsOf(B, bits) \subseteq D
  PROVE  Runs(D, buildModCompare(bits), {})
<1> DEFINE zeros == [k \in 1 .. bits - 1 |-> constPin(0, Bits(Out, k + 1))]
           v  == [k \in 1 .. bits - 1 |-> Bits(Out, k + 1)]
           D1 == D \union {Compared}
           D2 == D1 \union { v[k] : k \in 1 .. bits - 1 }
<1>1. A \in Numbers /\ B \in Numbers /\ bits \in Nat /\ bits - 1 \in Nat /\ 0 \in Bit /\ Out \in Numbers
  BY VariableTypes DEF Names, A, B, Out, Bit
<1>2. buildModCompare(bits) = cmpLT(A, B, bits) \o FlattenSeq(zeros)
  BY ModCompareIs
<1>3. Runs(D, cmpLT(A, B, bits), D1)
  BY <1>1, RunsCompare
<1>4. ASSUME NEW k \in 1 .. bits - 1
      PROVE  Runs(D1, zeros[k], D1 \union {v[k]})
  <2>1. zeros[k] = constPin(0, Bits(Out, k + 1)) /\ v[k] = Bits(Out, k + 1) /\ k + 1 \in Nat
    OBVIOUS
  <2>2. Bits(Out, k + 1) \in Variable
    BY <2>1, <1>1, VariableTypes
  <2> HIDE DEF zeros, v
  <2> QED
    BY <1>1, <2>1, <2>2, RunsSingle
<1>5. Len(zeros) = bits - 1 /\ (bits - 1 = 0 => zeros = << >>)
  BY <1>1
<1> HIDE DEF zeros, v, D1
<1>6. Runs(D1, FlattenSeq(zeros), D2)
  <2> DEFINE n == bits - 1
  <2>1. n \in Nat
    BY <1>1
  <2>2. \A k \in 1 .. n : Runs(D1, zeros[k], D1 \union {v[k]})
    BY <1>4
  <2>3. Len(zeros) = n /\ (n = 0 => zeros = << >>)
    BY <1>5
  <2>4. D2 = D1 \union { v[k] : k \in 1 .. n }
    OBVIOUS
  <2> HIDE DEF n, D2
  <2> QED
    BY <2>1, <2>2, <2>3, <2>4, RunsEach
<1> HIDE DEF D2
<1>7. Runs(D, buildModCompare(bits), D2)
  BY <1>2, <1>3, <1>6, RunsThen
<1> QED
  BY <1>7, RunsMore

LEMMA RunsSelect ==
  ASSUME NEW bits \in Nat \ {0}, NEW D, Null \in D,
         BitsOf(A, bits) \subseteq D, BitsOf(B, bits) \subseteq D, BitsOf(M, bits) \subseteq D
  PROVE  Runs(D, buildSelect(bits), {})
<1> DEFINE ss == [k \in 1 .. bits |-> SelectBit(k)]
           v  == [k \in 1 .. bits |-> Bits(Out, k)]
           sel == Bits(M, 1)
           ns == Local("not_sel")
           D1 == D \union {ns}
           D2 == D1 \union { v[k] : k \in 1 .. bits }
<1>1. A \in Numbers /\ B \in Numbers /\ M \in Numbers /\ bits \in Nat
  BY VariableTypes DEF Names, A, B, M
<1>2. sel \in Variable /\ ns \in Variable
  BY <1>1, VariableTypes DEF Names
<1>3. sel \in D
  <2>1. 1 \in 1 .. bits
    OBVIOUS
  <2> QED
    BY <2>1 DEF BitsOf
<1>4. buildSelect(bits) = notGate(sel, ns) \o FlattenSeq(ss)
  BY SelectIs
<1> HIDE DEF sel, ns
<1>5. Runs(D, notGate(sel, ns), D1)
  BY <1>2, <1>3, RunsGates
<1>6. ASSUME NEW k \in 1 .. bits
      PROVE  Runs(D1, ss[k], D1 \union {v[k]})
  <2>1. ss[k] = choose(sel, ns, A, B, k) /\ v[k] = Bits(Out, k) /\ k \in Nat
    BY DEF SelectBit, sel, ns
  <2>2. Bits(A, k) \in D1 /\ Bits(B, k) \in D1 /\ Null \in D1 /\ sel \in D1 /\ ns \in D1
    BY <1>3 DEF BitsOf
  <2> HIDE DEF ss, v, D1
  <2> QED
    BY <1>1, <1>2, <2>1, <2>2, RunsChoose
<1>7. Len(ss) = bits /\ (bits = 0 => ss = << >>)
  OBVIOUS
<1> HIDE DEF ss, v, D1
<1>8. Runs(D1, FlattenSeq(ss), D2)
  BY <1>1, <1>6, <1>7, RunsEach
<1> HIDE DEF D2
<1>9. Runs(D, buildSelect(bits), D2)
  BY <1>4, <1>5, <1>8, RunsThen
<1> QED
  BY <1>9, RunsMore

(* No builder reads a variable that nothing has set before.                *)
LEMMA ScriptRuns ==
  ASSUME EmissionAssumption, NEW builder \in Builders, NEW bits \in Width
  PROVE  Runs(Inputs(builder, bits), Calls[builder][bits], {})
<1> DEFINE D == Inputs(builder, bits)
<1>1. bits \in Nat \ {0}
  BY DEF EmissionAssumption
<1>2. /\ Null \in D
      /\ BitsOf(A, bits) \subseteq D
      /\ builder \notin {"buildModInv", "buildREDC", "buildModSquare"} => BitsOf(B, bits) \subseteq D
      /\ builder \notin {"buildModInv", "buildREDC", "buildModSquare", "buildModMul",
                         "buildMontMul", "buildModCompare"} => BitsOf(M, bits) \subseteq D
  BY InputsAre
<1> HIDE DEF D
<1>3. A \in Numbers /\ B \in Numbers
  BY VariableTypes DEF Names, A, B
<1>4. CASE builder = "buildModAdd"
  <2>1. Calls[builder][bits] = buildModAdd(bits)
    BY <1>4 DEF Calls
  <2> QED
    BY <2>1, <1>1, <1>2, <1>4, RunsModAdd DEF D
<1>5. CASE builder = "buildModSub"
  <2>1. Calls[builder][bits] = buildModSub(bits)
    BY <1>5 DEF Calls
  <2> QED
    BY <2>1, <1>1, <1>2, <1>5, RunsModSub DEF D
<1>6. CASE builder \in {"buildModMul", "buildMontMul"}
  <2>1. Calls[builder][bits] = buildModMul(A, B, bits)
    BY <1>6 DEF Calls
  <2>2. Runs(D, buildModMul(A, B, bits), D \union BitsOf(Product(bits), 2 * bits))
    BY <1>1, <1>2, <1>3, <1>6, RunsMul
  <2> QED
    BY <2>1, <2>2, RunsMore DEF D
<1>7. CASE builder = "buildModSquare"
  <2>1. Calls[builder][bits] = buildModMul(A, A, bits)
    BY <1>7 DEF Calls
  <2>2. Runs(D, buildModMul(A, A, bits), D \union BitsOf(Product(bits), 2 * bits))
    BY <1>1, <1>2, <1>3, <1>7, RunsMul
  <2> QED
    BY <2>1, <2>2, RunsMore DEF D
<1>8. CASE builder = "buildModCompare"
  <2>1. Calls[builder][bits] = buildModCompare(bits)
    BY <1>8 DEF Calls
  <2> QED
    BY <2>1, <1>1, <1>2, <1>8, RunsModCompare DEF D
<1>9. CASE builder = "buildSelect"
  <2>1. Calls[builder][bits] = buildSelect(bits)
    BY <1>9 DEF Calls
  <2> QED
    BY <2>1, <1>1, <1>2, <1>9, RunsSelect DEF D
<1>10. CASE builder \in {"buildModInv", "buildREDC"}
  <2>1. Calls[builder][bits] = << >>
    BY <1>10 DEF Calls
  <2> QED
    BY <2>1, RunsNothing
<1> QED
  BY <1>4, <1>5, <1>6, <1>7, <1>8, <1>9, <1>10 DEF EmissionAssumption

-----------------------------------------------------------------------------
(* Types: what a builder reads is set. *)

TypeInv ==
  /\ TypeOK
  /\ Before(Inputs(Builder, Bitwidth), Script, at) \subseteq DOMAIN pin

(* The script under way, in any state.                                     *)
LEMMA ScriptTyped ==
  ASSUME EmissionAssumption, call \in Builders \X Width
  PROVE  /\ Script \in Seq(Call)
         /\ Len(Script) \in Nat
         /\ Runs(Inputs(Builder, Bitwidth), Script, {})
         /\ Bitwidth \in Nat \ {0}
<1>1. Builder \in Builders /\ Bitwidth \in Width
  BY DEF Builder, Bitwidth
<1>2. Runs(Inputs(Builder, Bitwidth), Script, {})
  BY <1>1, ScriptRuns DEF Script
<1>3. Script \in Seq(Call)
  BY <1>2 DEF Runs
<1> QED
  BY <1>1, <1>2, <1>3 DEF EmissionAssumption

(* The bits of the client's numbers, in order.                             *)
OperandBits(builder, bits) ==
  [p \in 1 .. bits * Len(Operands(builder)) |->
    <<Operands(builder)[(p - 1) \div bits + 1], 0, ((p - 1) % bits) + 1>>]

LEMMA Division ==
  ASSUME NEW w \in Nat \ {0}, NEW q \in Nat, NEW r \in 0 .. w - 1
  PROVE  (q * w + r) \div w = q /\ (q * w + r) % w = r
  OBVIOUS

LEMMA OperandBitsAre ==
  ASSUME NEW bits \in Nat \ {0}, NEW builder
  PROVE  /\ Len(OperandBits(builder, bits)) = bits * Len(Operands(builder))
         /\ bits * Len(Operands(builder)) \in Nat
         /\ DOMAIN OperandBits(builder, bits) = 1 .. bits * Len(Operands(builder))
         /\ Inputs(builder, bits) = {Null} \union Range(OperandBits(builder, bits))
<1> DEFINE names == Operands(builder)
           n == bits * Len(names)
           f == OperandBits(builder, bits)
           in == { <<names[j], 0, i>> : j \in 1 .. Len(names), i \in 1 .. bits }
<1>1. Len(names) \in 1 .. 3
  BY DEF Operands
<1>2. n \in Nat
  BY <1>1
<1>3. DOMAIN f = 1 .. n /\ Len(f) = n
  BY <1>2 DEF OperandBits
<1>4. \A p \in 1 .. n : f[p] = <<names[(p - 1) \div bits + 1], 0, ((p - 1) % bits) + 1>>
  BY DEF OperandBits
<1> HIDE DEF f, names
<1>5. ASSUME NEW p \in 1 .. n
      PROVE  f[p] \in in
  <2>1. (p - 1) \div bits \in Nat /\ (p - 1) % bits \in 0 .. bits - 1
        /\ p - 1 = bits * ((p - 1) \div bits) + ((p - 1) % bits)
    BY <1>2
  <2>2. (p - 1) \div bits < Len(names)
    <3> DEFINE q == (p - 1) \div bits
    <3>1. q \in Nat /\ bits * q <= p - 1 /\ p - 1 < bits * Len(names)
      BY <2>1, <1>2
    <3> HIDE DEF q
    <3>2. bits * q < bits * Len(names)
      BY <3>1, <1>1
    <3>3. q < Len(names)
      BY <3>1, <3>2, <1>1
    <3> QED
      BY <3>3 DEF q
  <2> DEFINE j == (p - 1) \div bits + 1
             i == ((p - 1) % bits) + 1
  <2>3. j \in 1 .. Len(names) /\ i \in 1 .. bits
    BY <2>1, <2>2, <1>1
  <2>4. f[p] = <<names[j], 0, i>>
    BY <1>4
  <2> HIDE DEF j, i
  <2> QED
    BY <2>3, <2>4
<1>6. ASSUME NEW j \in 1 .. Len(names), NEW i \in 1 .. bits
      PROVE  \E p \in 1 .. n : f[p] = <<names[j], 0, i>>
  <2> DEFINE p == (j - 1) * bits + i
  <2>1. (j - 1) \in Nat /\ i - 1 \in 0 .. bits - 1 /\ p - 1 = (j - 1) * bits + (i - 1) /\ p \in Nat
    OBVIOUS
  <2>2. (p - 1) \div bits = j - 1 /\ (p - 1) % bits = i - 1
    BY <2>1, Division
  <2>3. p \in 1 .. n
    <3>1. CASE j = 1
      BY <3>1, <1>1
    <3>2. CASE j = 2
      BY <3>2, <1>1
    <3>3. CASE j = 3
      BY <3>3, <1>1
    <3> QED
      BY <3>1, <3>2, <3>3, <1>1
  <2> HIDE DEF p
  <2>4. f[p] = <<names[j], 0, i>>
    BY <2>2, <2>3, <1>4, SMTT(30)
  <2> QED
    BY <2>3, <2>4
<1>7. in = Range(f)
  <2>1. Range(f) \subseteq in
    <3> HIDE DEF in
    <3> QED
      BY <1>3, <1>5 DEF Range
  <2>2. \A j \in 1 .. Len(names), i \in 1 .. bits : <<names[j], 0, i>> \in Range(f)
    BY <1>3, <1>6 DEF Range
  <2>3. in \subseteq Range(f)
    BY <2>2
  <2> QED
    BY <2>1, <2>3
<1>8. Inputs(builder, bits) = {Null} \union in
  BY DEF Inputs, names
<1> QED
  BY <1>2, <1>3, <1>7, <1>8 DEF f, names

(* The client's numbers at the start: pins of the circuit, with a signal.  *)
LEMMA InitInputs ==
  ASSUME EmissionAssumption, CircuitAssumption, Init
  PROVE  /\ call \in Builders \X Width
         /\ pins \in Seq(PinRecord)
         /\ Len(pins) <= MaxPins
         /\ DOMAIN pin = Inputs(Builder, Bitwidth)
         /\ pin[Null] = NullPin
         /\ \A variable \in DOMAIN pin :
              variable # Null => pin[variable] \in PinUid /\ signal[pin[variable]] \in Bit
         /\ signal \in [PinUid -> Bit \union {Unset}]
<1> DEFINE f == OperandBits(Builder, Bitwidth)
           n == Bitwidth * Len(Operands(Builder))
<1>1. call \in Builders \X Width
  BY DEF Init
<1>2. Bitwidth \in Nat \ {0}
  BY <1>1, ScriptTyped
<1>3. /\ Len(f) = n /\ n \in Nat /\ DOMAIN f = 1 .. n
      /\ Inputs(Builder, Bitwidth) = {Null} \union Range(f)
  BY <1>2, OperandBitsAre
<1>4. /\ \E others \in OccupiedPins :
           /\ Len(f) + others <= MaxPins
           /\ pins = [p \in 1 .. Len(f) + others |-> FloatingPin]
      /\ pin = [variable \in {Null} \union Range(f) |->
                 IF variable = Null THEN NullPin ELSE AntiFunction(f)[variable]]
      /\ \E values \in [DOMAIN f -> Bit] :
           signal = [p \in PinUid |-> IF p <= Len(f) THEN values[p] ELSE Unset]
  BY DEF Init, OperandBits
<1> HIDE DEF f, n
<1>5. PICK others \in OccupiedPins : n + others <= MaxPins /\ pins = [p \in 1 .. n + others |-> FloatingPin]
  BY <1>3, <1>4
<1>6. others \in Nat /\ n + others \in Nat
  BY <1>3 DEF EmissionAssumption
<1>7. FloatingPin \in PinRecord
  BY DEF FloatingPin, PinRecord, SignalState, Bit
<1>8. pins \in Seq(PinRecord) /\ Len(pins) = n + others
  BY <1>5, <1>6, <1>7
<1>9. PICK values \in [1 .. n -> Bit] : signal = [p \in PinUid |-> IF p <= n THEN values[p] ELSE Unset]
  BY <1>3, <1>4
<1>10. \A p \in 1 .. n : p \in PinUid /\ signal[p] \in Bit
  <2>1. \A p \in 1 .. n : p \in PinUid /\ p <= n
    BY <1>3, <1>6, <1>8 DEF PinUid
  <2> QED
    BY <2>1, <1>9
<1>11. signal \in [PinUid -> Bit \union {Unset}]
  <2>1. \A p \in PinUid : p <= n => p \in 1 .. n
    BY <1>3, <1>6, <1>8 DEF PinUid
  <2> QED
    BY <2>1, <1>9
<1>12. ASSUME NEW v \in Range(f)
       PROVE  AntiFunction(f)[v] \in 1 .. n
  <2>1. \E p \in DOMAIN f : f[p] = v
    BY DEF Range
  <2>2. AntiFunction(f)[v] = CHOOSE p \in DOMAIN f : v \in Range(f) => f[p] = v
    BY DEF AntiFunction, Inverse
  <2> QED
    BY <2>1, <2>2, <1>3
<1>13. DOMAIN pin = Inputs(Builder, Bitwidth)
  BY <1>3, <1>4
<1>14. pin[Null] = NullPin
  BY <1>4
<1>15. ASSUME NEW variable \in DOMAIN pin, variable # Null
       PROVE  pin[variable] \in PinUid /\ signal[pin[variable]] \in Bit
  <2>1. variable \in Range(f)
    BY <1>3, <1>13, <1>15
  <2>2. pin[variable] = AntiFunction(f)[variable]
    BY <2>1, <1>4, <1>15
  <2> QED
    BY <2>1, <2>2, <1>10, <1>12
<1>16. Len(pins) <= MaxPins
  BY <1>5, <1>8
<1> QED
  BY <1>1, <1>8, <1>11, <1>13, <1>14, <1>15, <1>16

(* In the beginning the client has set the numbers.                        *)
LEMMA InitTypes ==
  ASSUME EmissionAssumption, CircuitAssumption, Init
  PROVE  TypeInv
<1>1. /\ call \in Builders \X Width
      /\ pins \in Seq(PinRecord)
      /\ Len(pins) <= MaxPins
      /\ DOMAIN pin = Inputs(Builder, Bitwidth)
      /\ pin[Null] = NullPin
      /\ \A variable \in DOMAIN pin :
           variable # Null => pin[variable] \in PinUid /\ signal[pin[variable]] \in Bit
      /\ signal \in [PinUid -> Bit \union {Unset}]
  BY InitInputs
<1>2. Len(Script) \in Nat /\ at = 1 /\ functional = TRUE /\ refused = FALSE
  BY <1>1, ScriptTyped DEF Init
<1>3. PICK others \in OccupiedGates :
        /\ others <= MaxGates
        /\ gates = [g \in 1 .. others |->
                     [pin |-> <<NullPin, NullPin, NullPin>>, truth_byte |-> TRUTH_UNIVERSAL_FREEDOM,
                      released |-> TRUE]]
  BY DEF Init
<1> DEFINE none == [pin |-> <<NullPin, NullPin, NullPin>>, truth_byte |-> TRUTH_UNIVERSAL_FREEDOM,
                    released |-> TRUE]
<1>4. /\ none \in GateRecord
      /\ \A i \in Position : none.pin[i] = NullPin
  <2>1. Position = {1, 2, 3}
    BY DEF Position
  <2>2. <<NullPin, NullPin, NullPin>> \in [{1, 2, 3} -> Nat]
    BY DEF NullPin
  <2>3. TRUTH_UNIVERSAL_FREEDOM \in Byte
    BY DEF TRUTH_UNIVERSAL_FREEDOM, Byte
  <2> QED
    BY <2>1, <2>2, <2>3 DEF GateRecord
<1>5. gates = [g \in 1 .. others |-> none]
  BY <1>3
<1> HIDE DEF none
<1>6. others \in Nat
  BY DEF EmissionAssumption
<1>7. gates \in Seq(GateRecord) /\ Len(gates) = others /\ \A g \in 1 .. others : gates[g] = none
  BY <1>4, <1>5, <1>6
<1>8. NullPin # WildPin /\ \A p \in PinUid : p # WildPin
  BY <1>1 DEF CircuitAssumption, PinUid, NullPin, WildPin
<1>9. \A variable \in DOMAIN pin :
        /\ pin[variable] \in PinUid \union {NullPin, WildPin}
        /\ pin[variable] = WildPin => variable[1] = "shifted"
  BY <1>1, <1>8
<1>10. at \in 1 .. Len(Script) + 1
  BY <1>2
<1>11. \A g \in 1 .. Len(gates) :
         /\ \A i \in Position : gates[g].pin[i] \in PinUid \union {NullPin, WildPin}
         /\ gates[g].pin[3] # WildPin
  BY <1>4, <1>7, <1>8 DEF Position
<1>13. TypeOK
  BY <1>1, <1>2, <1>3, <1>7, <1>9, <1>10, <1>11 DEF TypeOK
<1>12. Before(Inputs(Builder, Bitwidth), Script, at) \subseteq DOMAIN pin
  <2>1. \A j \in 1 .. at - 1 : FALSE
    BY <1>2
  <2> QED
    BY <2>1, <1>1 DEF Before
<1> QED
  BY <1>12, <1>13 DEF TypeInv

-----------------------------------------------------------------------------
(* One call. *)

(* The call under way reads pins of the circuit, null, or wild pointers.   *)
LEMMA ReadsTyped ==
  ASSUME EmissionAssumption, TypeInv, ~Done
  PROVE  /\ at \in 1 .. Len(Script)
         /\ Current \in Call
         /\ Current.from[1] \in DOMAIN pin
         /\ Current.from[2] \in DOMAIN pin
         /\ Current.kind = "drive" => Current.to \in DOMAIN pin
         /\ Current.kind = "drive" => Current.to \notin Stacked
         /\ Current.kind = "garbage" => Current.to \in Stacked
         /\ Reads[1] \in PinUid \union {NullPin, WildPin}
         /\ Reads[2] \in PinUid \union {NullPin, WildPin}
<1>1. Script \in Seq(Call) /\ Len(Script) \in Nat /\ Runs(Inputs(Builder, Bitwidth), Script, {})
  BY ScriptTyped DEF TypeInv, TypeOK
<1>2. at \in 1 .. Len(Script)
  BY <1>1 DEF TypeInv, TypeOK, Done
<1>3. Current \in Call
  BY <1>1, <1>2 DEF Current
<1>4. /\ Current.from[1] \in DOMAIN pin
      /\ Current.from[2] \in DOMAIN pin
      /\ Current.kind = "drive" => Current.to \in DOMAIN pin \ Stacked
      /\ Current.kind = "garbage" => Current.to \in Stacked
  BY <1>1, <1>2 DEF TypeInv, Current, Runs
<1>5. \A v \in DOMAIN pin : pin[v] \in PinUid \union {NullPin, WildPin}
  BY DEF TypeInv, TypeOK
<1> QED
  BY <1>2, <1>3, <1>4, <1>5 DEF Reads

LEMMA CallFields ==
  ASSUME NEW made \in Call
  PROVE  /\ made.kind \in Kinds /\ made.arg \in Byte /\ made.to \in Variable
         /\ made.from[1] \in Variable /\ made.from[2] \in Variable
         /\ made.kind = "constant" => made.arg \in Bit
  BY DEF Call

(* What a step leaves typed, part by part.                                 *)
PinsTyped ==
  /\ pins \in Seq(PinRecord)
  /\ Len(pins) <= MaxPins
  /\ \A variable \in DOMAIN pin :
       /\ pin[variable] \in 0 .. Len(pins) \union {WildPin}
       /\ pin[variable] = WildPin => variable[1] = "shifted"
  /\ signal \in [1 .. Len(pins) -> Bit \union {Unset}]

GatesTyped(list, n) ==
  /\ list \in Seq(GateRecord)
  /\ Len(list) <= MaxGates
  /\ \A g \in 1 .. Len(list) :
       /\ \A i \in Position : list[g].pin[i] \in 0 .. n \union {WildPin}
       /\ list[g].pin[3] # WildPin

LEMMA TypeParts ==
  ASSUME pins \in Seq(PinRecord)
  PROVE  TypeOK <=> /\ PinsTyped /\ GatesTyped(gates, Len(pins))
                    /\ call \in Builders \X Width
                    /\ at \in 1 .. Len(Script) + 1
                    /\ functional \in BOOLEAN
                    /\ refused \in BOOLEAN
<1>1. Len(pins) \in Nat /\ PinUid \union {NullPin, WildPin} = 0 .. Len(pins) \union {WildPin}
  BY DEF PinUid, NullPin
<1> QED
  BY <1>1 DEF TypeOK, PinsTyped, GatesTyped, PinUid

(* addPin keeps the pins, the pointers and the solution typed.             *)
LEMMA NewPinTypes ==
  ASSUME PinsTyped, MaxPins \in Nat, NEW record \in PinRecord, NEW value \in Bit \union {Unset},
         NewPin(record, value)
  PROVE  /\ PinsTyped'
         /\ DOMAIN pin' = DOMAIN pin \union {Current.to}
         /\ Len(pins) <= Len(pins')
         /\ (IF RoomForPin THEN NewUid ELSE NullPin) \in 0 .. Len(pins')
         /\ pin'[Current.to] = IF RoomForPin THEN NewUid ELSE NullPin
<1>1. Len(pins) \in Nat
  BY DEF PinsTyped
<1>2. CASE RoomForPin
  <2>1. /\ pins' = Append(pins, record) /\ signal' = Append(signal, value)
        /\ pin' = [known \in DOMAIN pin \union {Current.to} |-> IF known = Current.to THEN NewUid ELSE pin[known]]
    BY <1>2 DEF NewPin, Point
  <2>2. pins' \in Seq(PinRecord) /\ Len(pins') = Len(pins) + 1
    BY <2>1 DEF PinsTyped
  <2>3. signal \in Seq(Bit \union {Unset}) /\ Len(signal) = Len(pins)
    BY <1>1 DEF PinsTyped
  <2>4. signal' \in Seq(Bit \union {Unset}) /\ Len(signal') = Len(pins) + 1
    BY <2>1, <2>3
  <2>5. signal' \in [1 .. Len(pins') -> Bit \union {Unset}]
    BY <2>2, <2>4
  <2>6. Len(pins') <= MaxPins
    BY <1>1, <1>2, <2>2 DEF RoomForPin
  <2>7. ASSUME NEW v \in DOMAIN pin'
        PROVE  /\ pin'[v] \in 0 .. Len(pins') \union {WildPin}
               /\ pin'[v] = WildPin => v[1] = "shifted"
    <3>1. CASE v = Current.to
      BY <3>1, <2>1, <2>2, <2>6, <1>1 DEF NewUid, WildPin
    <3>2. CASE v # Current.to
      <4>1. v \in DOMAIN pin /\ pin'[v] = pin[v]
        BY <3>2, <2>1
      <4> QED
        BY <4>1, <2>2, <1>1 DEF PinsTyped
    <3> QED
      BY <3>1, <3>2
  <2>8. PinsTyped'
    BY <2>2, <2>5, <2>6, <2>7 DEF PinsTyped
  <2>9. NewUid \in 0 .. Len(pins') /\ Len(pins) <= Len(pins')
    BY <1>1, <2>2 DEF NewUid
  <2> QED
    BY <1>2, <2>1, <2>8, <2>9
<1>3. CASE ~RoomForPin
  <2>1. /\ pins' = pins /\ signal' = signal
        /\ pin' = [known \in DOMAIN pin \union {Current.to} |-> IF known = Current.to THEN NullPin ELSE pin[known]]
    BY <1>3 DEF NewPin, Point
  <2>2. ASSUME NEW v \in DOMAIN pin'
        PROVE  /\ pin'[v] \in 0 .. Len(pins) \union {WildPin}
               /\ pin'[v] = WildPin => v[1] = "shifted"
    BY <2>1, <1>1 DEF NullPin, WildPin, PinsTyped
  <2>3. PinsTyped'
    BY <2>1, <2>2 DEF PinsTyped
  <2>4. NullPin \in 0 .. Len(pins') /\ Len(pins) <= Len(pins')
    BY <1>1, <2>1 DEF NullPin
  <2> QED
    BY <1>3, <2>1, <2>3, <2>4
<1> QED
  BY <1>2, <1>3

(* A gate more.                                                            *)
LEMMA GateAppended ==
  ASSUME NEW list, NEW n \in Nat, NEW m \in Nat, n <= m, GatesTyped(list, n),
         MaxGates \in Nat, Len(list) < MaxGates,
         MaxPins \in Nat, m <= MaxPins,
         NEW p \in 0 .. n \union {WildPin}, NEW q \in 0 .. n \union {WildPin},
         NEW third \in 0 .. m, NEW byte \in Byte
  PROVE  GatesTyped(Append(list, [pin |-> <<p, q, third>>, truth_byte |-> byte, released |-> FALSE]), m)
<1> DEFINE wires == <<p, q, third>>
           added == [pin |-> wires, truth_byte |-> byte, released |-> FALSE]
           new   == Append(list, added)
<1>1. Len(list) \in Nat /\ list \in Seq(GateRecord)
  BY DEF GatesTyped
<1>2. /\ wires \in [Position -> Nat] /\ 3 \in Position
      /\ \A i \in Position : wires[i] \in 0 .. m \union {WildPin}
      /\ wires[3] # WildPin
  <2>1. Position = {1, 2, 3}
    BY DEF Position
  <2>2. p \in Nat /\ q \in Nat /\ third \in Nat /\ third # WildPin
    BY DEF WildPin
  <2>3. p \in 0 .. m \union {WildPin} /\ q \in 0 .. m \union {WildPin} /\ third \in 0 .. m
    OBVIOUS
  <2>4. wires = [i \in {1, 2, 3} |-> wires[i]] /\ wires[1] = p /\ wires[2] = q /\ wires[3] = third
    OBVIOUS
  <2> HIDE DEF wires
  <2> QED
    BY <2>1, <2>2, <2>3, <2>4
<1>3. added \in GateRecord /\ added.pin = wires
  BY <1>2 DEF GateRecord
<1> HIDE DEF added, wires
<1>4. /\ new \in Seq(GateRecord) /\ Len(new) = Len(list) + 1
      /\ \A g \in 1 .. Len(list) : new[g] = list[g]
      /\ new[Len(list) + 1] = added
  BY <1>1, <1>3
<1> HIDE DEF new
<1>5. Len(new) <= MaxGates
  BY <1>1, <1>4
<1>6. ASSUME NEW g \in 1 .. Len(new), NEW i \in Position
      PROVE  new[g].pin[i] \in 0 .. m \union {WildPin} /\ new[g].pin[3] # WildPin
  <2>1. CASE g = Len(list) + 1
    BY <2>1, <1>2, <1>3, <1>4
  <2>2. CASE g # Len(list) + 1
    <3>1. g \in 1 .. Len(list)
      BY <2>2, <1>1, <1>4
    <3>2. list[g].pin[i] \in 0 .. n \union {WildPin} /\ list[g].pin[3] # WildPin /\ new[g] = list[g]
      BY <3>1, <1>4 DEF GatesTyped
    <3> QED
      BY <3>2
  <2> QED
    BY <2>1, <2>2
<1>7. GatesTyped(new, m)
  BY <1>2, <1>4, <1>5, <1>6 DEF GatesTyped
<1> QED
  BY <1>7 DEF new, added, wires

LEMMA GatesWiden ==
  ASSUME NEW list, NEW n \in Nat, NEW m \in Nat, n <= m, GatesTyped(list, n)
  PROVE  GatesTyped(list, m)
<1>1. \A p \in 0 .. n : p \in 0 .. m
  OBVIOUS
<1> QED
  BY <1>1 DEF GatesTyped

(* Every call keeps the types and sets its variable.                       *)
LEMMA StepTypes ==
  ASSUME EmissionAssumption, CircuitAssumption, TypeInv, Emit
  PROVE  TypeInv'
<1>1. /\ at \in 1 .. Len(Script)
      /\ Current \in Call
      /\ Current.kind = "drive" => Current.to \in DOMAIN pin \ Stacked
      /\ Current.kind = "garbage" => Current.to \in Stacked
      /\ Reads[1] \in PinUid \union {NullPin, WildPin}
      /\ Reads[2] \in PinUid \union {NullPin, WildPin}
  BY ReadsTyped DEF Emit
<1>2. /\ Current.kind \in Kinds /\ Current.arg \in Byte
      /\ Current.kind = "constant" => Current.arg \in Bit
  BY <1>1, CallFields
<1>3. /\ pins \in Seq(PinRecord) /\ PinsTyped /\ GatesTyped(gates, Len(pins))
      /\ call \in Builders \X Width /\ functional \in BOOLEAN /\ refused \in BOOLEAN
  BY TypeParts DEF TypeInv, TypeOK
<1>4. MaxPins \in Nat /\ MaxGates \in Nat
  BY DEF CircuitAssumption
<1>5. /\ Script \in Seq(Call) /\ Len(Script) \in Nat
      /\ Script' = Script /\ call' = call /\ at' = at + 1 /\ Builder' = Builder /\ Bitwidth' = Bitwidth
  BY <1>3, ScriptTyped DEF Emit, Script, Builder, Bitwidth
<1>6. Len(pins) \in Nat /\ PinUid \union {NullPin} = 0 .. Len(pins) /\ PinUid = 1 .. Len(pins)
  BY <1>3 DEF PinUid, NullPin
<1>7. Reads[1] \in 0 .. Len(pins) \union {WildPin} /\ Reads[2] \in 0 .. Len(pins) \union {WildPin}
  BY <1>1, <1>6
<1>8. FloatingPin \in PinRecord /\ \A v \in Bit : LockedPin(v) \in PinRecord
  BY DEF FloatingPin, LockedPin, PinRecord, SignalState, SignalFor, Bit
<1> DEFINE Goal == /\ PinsTyped' /\ GatesTyped(gates', Len(pins'))
                   /\ functional' \in BOOLEAN /\ refused' \in BOOLEAN
                   /\ DOMAIN pin \union {Current.to} \subseteq DOMAIN pin'
<1>9. ASSUME NEW m \in Nat, Len(pins) <= m, m <= MaxPins, NEW third \in 0 .. m, AddGate(third)
       PROVE  GatesTyped(gates', m)
  <2>1. Len(gates) \in Nat
    BY <1>3 DEF GatesTyped
  <2>2. CASE RoomForGate
    <3>1. Len(gates) < MaxGates
      BY <2>2 DEF RoomForGate
    <3>2. gates' = Append(gates, [pin |-> <<Reads[1], Reads[2], third>>,
                                  truth_byte |-> Current.arg, released |-> FALSE])
      BY <1>9, <2>2 DEF AddGate
    <3>3. GatesTyped(Append(gates, [pin |-> <<Reads[1], Reads[2], third>>,
                                    truth_byte |-> Current.arg, released |-> FALSE]), m)
      BY <3>1, <1>2, <1>3, <1>4, <1>6, <1>7, <1>9, GateAppended
    <3> QED
      BY <3>2, <3>3
  <2>3. CASE ~RoomForGate
    <3>1. gates' = gates
      BY <1>9, <2>3 DEF AddGate
    <3> QED
      BY <3>1, <1>3, <1>6, <1>9, GatesWiden
  <2> QED
    BY <2>2, <2>3
<1>10. ASSUME AddPin
      PROVE  Goal
  <2>1. NewPin(FloatingPin, Unset) /\ UNCHANGED <<gates, functional>> /\ refused' = (refused \/ ~RoomForPin)
    BY <1>10 DEF AddPin
  <2>2. PinsTyped' /\ DOMAIN pin' = DOMAIN pin \union {Current.to} /\ Len(pins) <= Len(pins')
    BY <2>1, <1>3, <1>4, <1>8, NewPinTypes
  <2>3. Len(pins') \in Nat
    BY <2>2 DEF PinsTyped
  <2>4. GatesTyped(gates', Len(pins'))
    BY <2>1, <2>2, <2>3, <1>3, <1>6, GatesWiden
  <2> QED
    BY <2>1, <2>2, <2>4, <1>3
<1>11. ASSUME AddConstant
      PROVE  Goal
  <2>1. /\ NewPin(LockedPin(Current.arg), Current.arg) /\ UNCHANGED <<gates, functional>>
        /\ refused' = (refused \/ ~RoomForPin)
        /\ Current.arg \in Bit
    BY <1>11, <1>2 DEF AddConstant
  <2>2. PinsTyped' /\ DOMAIN pin' = DOMAIN pin \union {Current.to} /\ Len(pins) <= Len(pins')
    BY <2>1, <1>3, <1>4, <1>8, NewPinTypes
  <2>3. Len(pins') \in Nat
    BY <2>2 DEF PinsTyped
  <2>4. GatesTyped(gates', Len(pins'))
    BY <2>1, <2>2, <2>3, <1>3, <1>6, GatesWiden
  <2> QED
    BY <2>1, <2>2, <2>4, <1>3
<1>12. ASSUME ReadGarbage
      PROVE  Goal
  <2>1. PICK p \in { q \in PinUid : signal[q] # Unset } \union {NullPin, WildPin} : Point(Current.to, p)
    BY <1>12 DEF ReadGarbage
  <2>2. UNCHANGED <<pins, gates, signal, functional, refused>>
    BY <1>12 DEF ReadGarbage
  <2>3. p \in 0 .. Len(pins) \union {WildPin} /\ Current.to[1] = "shifted"
    BY <2>1, <1>1, <1>6, <1>12 DEF NullPin, ReadGarbage, Stacked
  <2>4. pin' = [known \in DOMAIN pin \union {Current.to} |-> IF known = Current.to THEN p ELSE pin[known]]
    BY <2>1 DEF Point
  <2>5. ASSUME NEW v \in DOMAIN pin'
        PROVE  /\ pin'[v] \in 0 .. Len(pins) \union {WildPin}
               /\ pin'[v] = WildPin => v[1] = "shifted"
    BY <2>3, <2>4, <1>3 DEF PinsTyped
  <2>6. PinsTyped'
    BY <2>2, <2>5, <1>3 DEF PinsTyped
  <2>7. GatesTyped(gates', Len(pins'))
    BY <2>2, <1>3, <1>6, GatesWiden
  <2> QED
    BY <2>2, <2>4, <2>6, <2>7, <1>3
<1>13. ASSUME AddFunction
      PROVE  Goal
  <2>1. PICK value \in Bit : NewPin(FloatingPin, value) /\ Settle(value)
    BY <1>13 DEF AddFunction
  <2>2. AddGate(IF RoomForPin THEN NewUid ELSE NullPin) /\ refused' = (refused \/ ~RoomForPin \/ ~RoomForGate)
    BY <1>13 DEF AddFunction
  <2>3. /\ PinsTyped' /\ DOMAIN pin' = DOMAIN pin \union {Current.to} /\ Len(pins) <= Len(pins')
        /\ (IF RoomForPin THEN NewUid ELSE NullPin) \in 0 .. Len(pins')
    BY <2>1, <1>3, <1>4, <1>8, NewPinTypes
  <2>4. Len(pins') \in Nat /\ Len(pins') <= MaxPins
    BY <2>3 DEF PinsTyped
  <2>5. GatesTyped(gates', Len(pins'))
    BY <2>2, <2>3, <2>4, <1>9
  <2>6. functional' \in BOOLEAN
    BY <2>1, <1>3 DEF Settle
  <2> QED
    BY <2>2, <2>3, <2>5, <2>6, <1>3
<1>14. ASSUME DrivePin
      PROVE  Goal
  <2> DEFINE third == pin[Current.to]
  <2>1. AddGate(third)
    BY <1>14 DEF DrivePin
  <2>2. PICK value \in IF third = NullPin \/ signal[third] = Unset THEN Bit ELSE {signal[third]} :
          /\ signal' = IF third = NullPin THEN signal ELSE [signal EXCEPT ![third] = value]
          /\ Settle(value)
    BY <1>14 DEF DrivePin
  <2>3. UNCHANGED <<pins, pin>> /\ refused' = (refused \/ ~RoomForGate) /\ Current.to \in DOMAIN pin \ Stacked
    BY <1>14, <1>1 DEF DrivePin
  <2>4. third \in 0 .. Len(pins)
    <3>1. Current.to \in Variable
      BY <1>1, CallFields
    <3>2. Current.to[1] # "shifted"
      BY <2>3, <3>1 DEF Stacked
    <3> QED
      BY <2>3, <3>2, <1>3 DEF PinsTyped
  <2>5. signal' \in [1 .. Len(pins) -> Bit \union {Unset}]
    <3>1. CASE third = NullPin
      BY <3>1, <2>2, <1>3 DEF PinsTyped
    <3>2. CASE third # NullPin
      <4>1. third \in 1 .. Len(pins)
        BY <3>2, <2>4, <1>6 DEF NullPin
      <4>2. signal[third] \in Bit \union {Unset}
        BY <4>1, <1>3 DEF PinsTyped
      <4>3. value \in Bit \union {Unset}
        BY <4>2, <2>2
      <4> QED
        BY <3>2, <4>3, <2>2, <1>3 DEF PinsTyped
    <3> QED
      BY <3>1, <3>2
  <2>6. PinsTyped'
    BY <2>3, <2>5, <1>3 DEF PinsTyped
  <2>7. GatesTyped(gates', Len(pins'))
    <3>1. GatesTyped(gates', Len(pins))
      BY <2>1, <2>4, <1>3, <1>6, <1>9 DEF PinsTyped
    <3> QED
      BY <3>1, <2>3
  <2>8. functional' \in BOOLEAN
    BY <2>2, <1>3 DEF Settle
  <2> QED
    BY <2>3, <2>6, <2>7, <2>8, <1>3
<1>15. Goal
  BY <1>10, <1>11, <1>12, <1>13, <1>14 DEF Emit
<1>16. at' \in 1 .. Len(Script') + 1
  BY <1>1, <1>5
<1>17. TypeOK'
  <2>1. pins' \in Seq(PinRecord)
    BY <1>15 DEF PinsTyped
  <2>2. call' \in Builders \X Width
    BY <1>3, <1>5
  <2>3. /\ Len(pins') \in Nat
        /\ (PinUid \union {NullPin, WildPin})' = 0 .. Len(pins') \union {WildPin}
    BY <2>1 DEF PinUid, NullPin, WildPin
  <2> QED
    BY <2>1, <2>2, <2>3, <1>15, <1>16 DEF TypeOK, PinsTyped, GatesTyped, PinUid
<1>18. Before(Inputs(Builder, Bitwidth), Script, at + 1) \subseteq DOMAIN pin'
  <2>1. \A j \in 1 .. (at + 1) - 1 : j \in 1 .. at - 1 \/ j = at
    BY <1>1, <1>5
  <2>2. Script[at] = Current
    BY DEF Current
  <2>3. Before(Inputs(Builder, Bitwidth), Script, at) \subseteq DOMAIN pin
    BY DEF TypeInv
  <2>4. Before(Inputs(Builder, Bitwidth), Script, at + 1)
          \subseteq Before(Inputs(Builder, Bitwidth), Script, at) \union {Current.to}
    BY <2>1, <2>2 DEF Before
  <2> QED
    BY <2>3, <2>4, <1>15
<1>19. Before(Inputs(Builder, Bitwidth), Script, at)' \subseteq DOMAIN pin'
  BY <1>18, <1>5 DEF Before, Inputs
<1> QED
  BY <1>17, <1>19 DEF TypeInv

LEMMA TypesKept ==
  ASSUME EmissionAssumption, CircuitAssumption, TypeInv, [Next]_emissionVars
  PROVE  TypeInv'
<1>1. CASE Emit
  BY <1>1, StepTypes
<1>2. CASE UNCHANGED emissionVars
  BY <1>2 DEF emissionVars, TypeInv, TypeOK, PinUid, Script, Builder, Bitwidth, Before, Inputs
<1> QED
  BY <1>1, <1>2 DEF Next

LEMMA TypesHold == Spec => []TypeInv
<1>1. Init => TypeInv
  BY InitTypes, EmissionAssumption, CircuitAssumption
<1>2. TypeInv /\ [Next]_emissionVars => TypeInv'
  BY TypesKept, EmissionAssumption, CircuitAssumption
<1> QED
  BY <1>1, <1>2, PTL DEF Spec

(* Every pointer of a builder, and every pin of a gate, is null or a pin   *)
(* of the circuit, but for one array of the multiplier: what it leaves     *)
(* unset is read as it stands and may go into gates, though never as the   *)
(* pin a gate drives.  The solution has a value or none for each pin       *)
(* (ModContext, buildModMul: nothing is checked).                          *)
THEOREM TypeCorrect == Spec => []TypeOK
<1>1. TypeInv => TypeOK
  BY DEF TypeInv
<1> QED
  BY <1>1, TypesHold, PTL

-----------------------------------------------------------------------------
(* What a script does to the signals on its variables, while the circuit   *)
(* has room: a relation between views of the circuit.                      *)

Absent == 3    \* on a variable that points to no pin

View == [on : [Variable -> 0 .. 3], functional : BOOLEAN]

(* A gate that reads what e shows may show value.                          *)
Shows(made, e, value) ==
  /\ value \in Bit
  /\ \E p, q \in Bit :
       /\ e.on[made.from[1]] # Absent => p = e.on[made.from[1]]
       /\ e.on[made.from[2]] # Absent => q = e.on[made.from[2]]
       /\ combinationAllowed(made.arg, p, q, value)

Disjunction(made, e, value) ==
  made.arg = TRUTH_OR => (value = 1 <=> e.on[made.from[1]] = 1 \/ e.on[made.from[2]] = 1)

Makes(made, e, f) ==
  /\ \A x \in Variable : x # made.to => f.on[x] = e.on[x]
  /\ f.functional => e.functional
  /\ made.kind = "pin" => f.on[made.to] = Unset
  /\ made.kind = "constant" => f.on[made.to] = made.arg
  /\ made.kind = "gate" \/ (made.kind = "drive" /\ e.on[made.to] # Absent) =>
       /\ Shows(made, e, f.on[made.to])
       /\ f.functional => Disjunction(made, e, f.on[made.to])

Traces(s, t) ==
  /\ t \in [0 .. Len(s) -> View]
  /\ \A k \in 1 .. Len(s) : Makes(s[k], t[k - 1], t[k])

Reaches(s, e, f) == \E t : Traces(s, t) /\ t[0] = e /\ t[Len(s)] = f

LEMMA ReachesViews ==
  ASSUME NEW s \in Seq(Call), NEW e, NEW f, Reaches(s, e, f)
  PROVE  e \in View /\ f \in View
<1>1. Len(s) \in Nat /\ 0 \in 0 .. Len(s) /\ Len(s) \in 0 .. Len(s)
  OBVIOUS
<1> QED
  BY <1>1 DEF Reaches, Traces

LEMMA ReachesNothing ==
  ASSUME NEW e \in View
  PROVE  Reaches(<< >>, e, e)
<1> DEFINE t == [k \in 0 .. 0 |-> e]
<1>1. Len(<< >>) = 0 /\ t \in [0 .. 0 -> View] /\ t[0] = e
  OBVIOUS
<1>2. \A k \in 1 .. 0 : FALSE
  OBVIOUS
<1> HIDE DEF t
<1>3. Traces(<< >>, t)
  BY <1>1, <1>2 DEF Traces
<1> QED
  BY <1>1, <1>3 DEF Reaches

(* One call more.                                                          *)
LEMMA ReachesMore ==
  ASSUME NEW s \in Seq(Call), NEW made \in Call, NEW e, NEW f, NEW g \in View,
         Reaches(s, e, f), Makes(made, f, g)
  PROVE  Reaches(Append(s, made), e, g)
<1>1. PICK t : Traces(s, t) /\ t[0] = e /\ t[Len(s)] = f
  BY DEF Reaches
<1> DEFINE n == Len(s)
           r == Append(s, made)
           u == [k \in 0 .. n + 1 |-> IF k = n + 1 THEN g ELSE t[k]]
<1>2. /\ n \in Nat /\ Len(r) = n + 1 /\ r[n + 1] = made
      /\ \A k \in 1 .. n : r[k] = s[k]
  OBVIOUS
<1>3. t \in [0 .. n -> View] /\ \A k \in 1 .. n : Makes(s[k], t[k - 1], t[k])
  BY <1>1 DEF Traces
<1>4. /\ u[n + 1] = g
      /\ \A k \in 0 .. n : u[k] = t[k]
      /\ DOMAIN u = 0 .. n + 1
      /\ u = [k \in 0 .. n + 1 |-> u[k]]
  BY <1>2
<1> HIDE DEF u, r, n
<1>5. \A k \in 0 .. n + 1 : u[k] \in View
  <2>1. \A k \in 0 .. n + 1 : k = n + 1 \/ k \in 0 .. n
    BY <1>2
  <2> QED
    BY <2>1, <1>3, <1>4
<1>6. ASSUME NEW k \in 1 .. n + 1
      PROVE  Makes(r[k], u[k - 1], u[k])
  <2>1. CASE k = n + 1
    <3>1. k - 1 = n /\ n \in 0 .. n
      BY <2>1, <1>2
    <3>2. u[k - 1] = f
      BY <3>1, <1>1, <1>4 DEF n
    <3> QED
      BY <2>1, <3>2, <1>2, <1>4
  <2>2. CASE k # n + 1
    <3>1. k \in 1 .. n /\ k \in 0 .. n /\ k - 1 \in 0 .. n
      BY <2>2, <1>2
    <3> QED
      BY <3>1, <1>2, <1>3, <1>4
  <2> QED
    BY <2>1, <2>2
<1>7. u \in [0 .. n + 1 -> View]
  BY <1>4, <1>5
<1>8. Traces(r, u)
  BY <1>2, <1>6, <1>7 DEF Traces
<1>9. u[0] = e /\ u[Len(r)] = g
  <2>1. 0 \in 0 .. n
    BY <1>2
  <2> QED
    BY <2>1, <1>1, <1>2, <1>4
<1> QED
  BY <1>8, <1>9 DEF Reaches, r

LEMMA ReachesOne ==
  ASSUME NEW made \in Call, NEW e, NEW f, Reaches(<<made>>, e, f)
  PROVE  Makes(made, e, f) /\ e \in View /\ f \in View
<1>1. Len(<<made>>) = 1 /\ <<made>>[1] = made /\ 1 \in 1 .. 1 /\ 1 - 1 = 0 /\ 0 \in 0 .. 1 /\ 1 \in 0 .. 1
  OBVIOUS
<1>2. PICK t : Traces(<<made>>, t) /\ t[0] = e /\ t[1] = f
  BY <1>1 DEF Reaches
<1> QED
  BY <1>1, <1>2 DEF Traces

(* Two scripts, and the view between them.                                 *)
LEMMA ReachesThen ==
  ASSUME NEW s \in Seq(Call), NEW t \in Seq(Call), NEW e, NEW g, Reaches(s \o t, e, g)
  PROVE  \E f : Reaches(s, e, f) /\ Reaches(t, f, g)
<1> DEFINE r == s \o t
           m == Len(s)
           n == Len(t)
<1>1. /\ m \in Nat /\ n \in Nat /\ Len(r) = m + n
      /\ \A k \in 1 .. m : r[k] = s[k]
      /\ \A k \in 1 .. n : r[m + k] = t[k]
  OBVIOUS
<1>2. PICK u : Traces(r, u) /\ u[0] = e /\ u[Len(r)] = g
  BY DEF Reaches
<1> HIDE DEF r, m, n
<1>3. u \in [0 .. m + n -> View] /\ \A k \in 1 .. m + n : Makes(r[k], u[k - 1], u[k])
  BY <1>1, <1>2 DEF Traces
<1> DEFINE v == [k \in 0 .. m |-> u[k]]
           w == [k \in 0 .. n |-> u[m + k]]
<1>4. Reaches(s, e, u[m])
  <2>1. \A k \in 0 .. m : k \in 0 .. m + n
    BY <1>1
  <2>2. v \in [0 .. m -> View] /\ v[0] = e /\ v[m] = u[m]
    BY <2>1, <1>1, <1>2, <1>3
  <2>3. ASSUME NEW k \in 1 .. m
        PROVE  Makes(s[k], v[k - 1], v[k])
    <3>1. k \in 1 .. m + n /\ k \in 0 .. m /\ k - 1 \in 0 .. m
      BY <1>1
    <3> QED
      BY <3>1, <1>1, <1>3
  <2> HIDE DEF v
  <2>4. Traces(s, v)
    BY <2>2, <2>3 DEF Traces, m
  <2> QED
    BY <2>2, <2>4 DEF Reaches, m
<1>5. Reaches(t, u[m], g)
  <2>1. \A k \in 0 .. n : m + k \in 0 .. m + n
    BY <1>1
  <2>2. w \in [0 .. n -> View] /\ w[0] = u[m] /\ w[n] = g
    <3>1. w \in [0 .. n -> View]
      BY <2>1, <1>3
    <3>2. 0 \in 0 .. n /\ n \in 0 .. n /\ m + 0 = m
      BY <1>1
    <3> QED
      BY <3>1, <3>2, <1>1, <1>2
  <2>3. ASSUME NEW k \in 1 .. n
        PROVE  Makes(t[k], w[k - 1], w[k])
    <3>1. m + k \in 1 .. m + n /\ k \in 0 .. n /\ k - 1 \in 0 .. n /\ (m + k) - 1 = m + (k - 1)
      BY <1>1
    <3>2. w[k - 1] = u[(m + k) - 1] /\ w[k] = u[m + k]
      BY <3>1
    <3> HIDE DEF w
    <3> QED
      BY <3>1, <3>2, <1>1, <1>3
  <2> HIDE DEF w
  <2>4. Traces(t, w)
    BY <2>2, <2>3 DEF Traces, n
  <2> QED
    BY <2>2, <2>4 DEF Reaches, n
<1> QED
  BY <1>4, <1>5

(* A loop: what every turn hands on to the next.                           *)
LEMMA ReachesLoop ==
  ASSUME NEW n \in Nat, NEW ss, Len(ss) = n, n = 0 => ss = << >>,
         \A k \in 1 .. n : ss[k] \in Seq(Call),
         NEW J, NEW e, NEW f, Reaches(FlattenSeq(ss), e, f), e \in J[0],
         \A k \in 1 .. n : \A u, v : u \in J[k - 1] /\ Reaches(ss[k], u, v) => v \in J[k]
  PROVE  f \in J[n]
<1>1. CASE n = 0
  <2>1. FlattenSeq(ss) = << >>
    BY <1>1 DEF FlattenSeq
  <2>2. PICK t : Traces(<< >>, t) /\ t[0] = e /\ t[0] = f
    BY <2>1 DEF Reaches
  <2> QED
    BY <1>1, <2>2
<1>2. CASE n # 0
  <2> DEFINE g == FlatOf(ss)
             T == { k \in 0 .. n : k = 0 \/ (g[k] \in Seq(Call) /\ \A h : Reaches(g[k], e, h) => h \in J[k]) }
  <2>1. /\ FlattenSeq(ss) = g[n]
        /\ g[1] = ss[1]
        /\ \A i \in 1 .. n - 1 : g[i + 1] = g[i] \o ss[i + 1]
    BY <1>2, FlatSteps
  <2> HIDE DEF g
  <2>2. 0 \in T
    OBVIOUS
  <2>3. ASSUME NEW k \in T, k < n
        PROVE  k + 1 \in T
    <3>1. /\ k + 1 \in 1 .. n /\ (k + 1) - 1 = k /\ k + 1 \in 0 .. n
          /\ ss[k + 1] \in Seq(Call)
          /\ \A u, v : u \in J[k] /\ Reaches(ss[k + 1], u, v) => v \in J[k + 1]
      <4>1. k + 1 \in 1 .. n /\ (k + 1) - 1 = k /\ k + 1 \in 0 .. n
        BY <2>3
      <4> QED
        BY <4>1
    <3>2. g[k + 1] \in Seq(Call) /\ \A h : Reaches(g[k + 1], e, h) => h \in J[k + 1]
      <4>1. CASE k = 0
        BY <4>1, <3>1, <2>1
      <4>2. CASE k # 0
        <5>1. k \in 1 .. n - 1
          BY <4>2, <2>3
        <5>2. g[k + 1] = g[k] \o ss[k + 1]
          BY <5>1, <2>1
        <5>3. g[k] \in Seq(Call) /\ \A h : Reaches(g[k], e, h) => h \in J[k]
          BY <4>2
        <5>4. g[k] \o ss[k + 1] \in Seq(Call)
          BY <5>3, <3>1
        <5>5. ASSUME NEW h, Reaches(g[k] \o ss[k + 1], e, h)
              PROVE  h \in J[k + 1]
          <6>1. PICK u : Reaches(g[k], e, u) /\ Reaches(ss[k + 1], u, h)
            BY <5>3, <5>5, <3>1, ReachesThen
          <6> QED
            BY <6>1, <5>3, <3>1
        <5> QED
          BY <5>2, <5>4, <5>5
      <4> QED
        BY <4>1, <4>2
    <3> QED
      BY <3>1, <3>2
  <2>4. T \subseteq 0 .. n
    OBVIOUS
  <2> HIDE DEF T
  <2>5. n \in T
    <3>1. T = 0 .. n
      BY <2>2, <2>3, <2>4, AllReached
    <3> QED
      BY <3>1
  <2> QED
    BY <2>5, <2>1, <1>2 DEF T
<1> QED
  BY <1>1, <1>2

-----------------------------------------------------------------------------
(* The single calls. *)

(* TRUTH_OR forbids one row only; an inverter without a second pin shows 0. *)
LEMMA RowsAllowed ==
  ASSUME NEW p \in Bit, NEW q \in Bit, NEW v \in Bit
  PROVE  /\ combinationAllowed(TRUTH_AND, p, q, v) => (v = 1 <=> p = 1 /\ q = 1)
         /\ combinationAllowed(TRUTH_XOR, p, q, v) => (v = 1 <=> p # q)
         /\ combinationAllowed(TRUTH_OR, p, q, v) => (v = 1 => p = 1 \/ q = 1)
         /\ combinationAllowed(TRUTH_INVERT, p, q, v) => v = 0
<1>1. p \in {0, 1} /\ q \in {0, 1} /\ v \in {0, 1}
  BY DEF Bit
<1>2. combinationAllowed(135, p, q, v) => (v = 1 <=> p = 1 /\ q = 1)
  <2>1. ~combinationAllowed(135, 1, 1, 0)
    BY DEF combinationAllowed, CombinationIndex, BitWeight
  <2>2. ~combinationAllowed(135, 0, 0, 1)
    BY DEF combinationAllowed, CombinationIndex, BitWeight
  <2>3. ~combinationAllowed(135, 1, 0, 1)
    BY DEF combinationAllowed, CombinationIndex, BitWeight
  <2>4. ~combinationAllowed(135, 0, 1, 1)
    BY DEF combinationAllowed, CombinationIndex, BitWeight
  <2> QED
    BY <1>1, <2>1, <2>2, <2>3, <2>4
<1>3. combinationAllowed(105, p, q, v) => (v = 1 <=> p # q)
  <2>1. ~combinationAllowed(105, 1, 0, 0)
    BY DEF combinationAllowed, CombinationIndex, BitWeight
  <2>2. ~combinationAllowed(105, 0, 1, 0)
    BY DEF combinationAllowed, CombinationIndex, BitWeight
  <2>3. ~combinationAllowed(105, 0, 0, 1)
    BY DEF combinationAllowed, CombinationIndex, BitWeight
  <2>4. ~combinationAllowed(105, 1, 1, 1)
    BY DEF combinationAllowed, CombinationIndex, BitWeight
  <2> QED
    BY <1>1, <2>1, <2>2, <2>3, <2>4
<1>4. combinationAllowed(239, p, q, v) => (v = 1 => p = 1 \/ q = 1)
  <2>1. ~combinationAllowed(239, 0, 0, 1)
    BY DEF combinationAllowed, CombinationIndex, BitWeight
  <2> QED
    BY <1>1, <2>1
<1>5. combinationAllowed(6, p, q, v) => v = 0
  <2>1. ~combinationAllowed(6, 0, 0, 1)
    BY DEF combinationAllowed, CombinationIndex, BitWeight
  <2>2. ~combinationAllowed(6, 1, 0, 1)
    BY DEF combinationAllowed, CombinationIndex, BitWeight
  <2>3. ~combinationAllowed(6, 0, 1, 1)
    BY DEF combinationAllowed, CombinationIndex, BitWeight
  <2>4. ~combinationAllowed(6, 1, 1, 1)
    BY DEF combinationAllowed, CombinationIndex, BitWeight
  <2> QED
    BY <1>1, <2>1, <2>2, <2>3, <2>4
<1> QED
  BY <1>2, <1>3, <1>4, <1>5 DEF TRUTH_AND, TRUTH_XOR, TRUTH_OR, TRUTH_INVERT

(* What may differ between two views.                                      *)
Only(e, f, changed) ==
  /\ e \in View /\ f \in View
  /\ \A x \in Variable \ changed : f.on[x] = e.on[x]
  /\ f.functional => e.functional

LEMMA OnlyThen ==
  ASSUME NEW e, NEW f, NEW g, NEW V, NEW W, NEW U, Only(e, f, V), Only(f, g, W), V \union W \subseteq U
  PROVE  Only(e, g, U)
  BY DEF Only

LEMMA OnlyMore ==
  ASSUME NEW e, NEW f, NEW V, NEW U, Only(e, f, V), V \subseteq U
  PROVE  Only(e, f, U)
  BY DEF Only

LEMMA OnTypes ==
  ASSUME NEW e \in View, NEW x \in Variable
  PROVE  e.on[x] \in 0 .. 3
  BY DEF View

(* A gate may show value over what it reads.                               *)
Allowed(byte, on_a, on_b, value) ==
  \E p, q \in Bit :
    /\ on_a # Absent => p = on_a
    /\ on_b # Absent => q = on_b
    /\ combinationAllowed(byte, p, q, value)

(* An OR gate, where all show their disjunctions.                          *)
Exactly(byte, on_a, on_b, value, functions) ==
  functions /\ byte = TRUTH_OR => (value = 1 <=> on_a = 1 \/ on_b = 1)

(* A pin added, a constant, a pointer read.                                *)
LEMMA CallsShow ==
  ASSUME NEW kind \in Kinds, NEW arg \in Byte, NEW a \in Variable, NEW b \in Variable,
         NEW to \in Variable, kind = "constant" => arg \in Bit, NEW e, NEW f,
         Reaches(<< Emission(kind, arg, <<a, b>>, to) >>, e, f)
  PROVE  /\ Only(e, f, {to})
         /\ kind = "pin" => f.on[to] = Unset
         /\ kind = "constant" => f.on[to] = arg
<1> DEFINE made == Emission(kind, arg, <<a, b>>, to)
<1>1. made \in Call /\ made.kind = kind /\ made.arg = arg /\ made.to = to
  BY EmissionTypes
<1> HIDE DEF made
<1>2. Makes(made, e, f) /\ e \in View /\ f \in View
  BY <1>1, ReachesOne DEF made
<1>3. Only(e, f, {to})
  BY <1>1, <1>2 DEF Makes, Only
<1>4. (kind = "pin" => f.on[to] = Unset) /\ (kind = "constant" => f.on[to] = arg)
  BY <1>1, <1>2 DEF Makes
<1> QED
  BY <1>3, <1>4

(* A gate decides its third pin by what the two others show.               *)
LEMMA GatesShow ==
  ASSUME NEW kind \in {"gate", "drive"}, NEW byte \in Byte, NEW a \in Variable, NEW b \in Variable,
         NEW to \in Variable, NEW e, NEW f, kind = "drive" => e.on[to] # Absent,
         Reaches(<< Emission(kind, byte, <<a, b>>, to) >>, e, f)
  PROVE  /\ Only(e, f, {to})
         /\ f.on[to] \in Bit
         /\ Allowed(byte, e.on[a], e.on[b], f.on[to])
         /\ Exactly(byte, e.on[a], e.on[b], f.on[to], f.functional)
<1> DEFINE made == Emission(kind, byte, <<a, b>>, to)
<1>0. kind \in Kinds /\ kind # "constant"
  BY DEF Kinds
<1>1. /\ made \in Call /\ made.kind = kind /\ made.arg = byte
      /\ made.from[1] = a /\ made.from[2] = b /\ made.to = to
  BY <1>0, EmissionTypes
<1> HIDE DEF made
<1>2. Makes(made, e, f) /\ e \in View /\ f \in View
  BY <1>1, ReachesOne DEF made
<1>3. Only(e, f, {to})
  BY <1>1, <1>2 DEF Makes, Only
<1>4. Shows(made, e, f.on[to]) /\ (f.functional => Disjunction(made, e, f.on[to]))
  BY <1>1, <1>2 DEF Makes
<1>5. f.on[to] \in Bit
  BY <1>4 DEF Shows
<1>6. Allowed(byte, e.on[a], e.on[b], f.on[to])
  BY <1>1, <1>4 DEF Shows, Allowed
<1>7. Exactly(byte, e.on[a], e.on[b], f.on[to], f.functional)
  BY <1>1, <1>4 DEF Disjunction, Exactly
<1> QED
  BY <1>3, <1>5, <1>6, <1>7

LEMMA TempShows ==
  ASSUME NEW to \in Variable, NEW e, NEW f, Reaches(temp(to), e, f)
  PROVE  Only(e, f, {to}) /\ f.on[to] = Unset
<1>1. "pin" \in Kinds /\ Null \in Variable /\ 0 \in Byte
  BY VariableTypes, ByteTypes DEF Kinds
<1>2. Reaches(<< Emission("pin", 0, <<Null, Null>>, to) >>, e, f)
  BY DEF temp
<1> QED
  BY <1>1, <1>2, CallsShow

LEMMA ConstantShows ==
  ASSUME NEW v \in Bit, NEW to \in Variable, NEW e, NEW f, Reaches(constPin(v, to), e, f)
  PROVE  Only(e, f, {to}) /\ f.on[to] = v
<1>1. "constant" \in Kinds /\ Null \in Variable /\ v \in Byte
  BY VariableTypes, ByteTypes DEF Kinds
<1>2. Reaches(<< Emission("constant", v, <<Null, Null>>, to) >>, e, f)
  BY DEF constPin
<1> QED
  BY <1>1, <1>2, CallsShow

LEMMA GarbageShows ==
  ASSUME NEW to \in Variable, NEW e, NEW f, Reaches(garbage(to), e, f)
  PROVE  Only(e, f, {to})
<1>1. "garbage" \in Kinds /\ Null \in Variable /\ 0 \in Byte
  BY VariableTypes, ByteTypes DEF Kinds
<1>2. Reaches(<< Emission("garbage", 0, <<Null, Null>>, to) >>, e, f)
  BY DEF garbage
<1> QED
  BY <1>1, <1>2, CallsShow

(* The gates of the builders, each by its truth byte.                      *)
LEMMA AndShows ==
  ASSUME NEW a \in Variable, NEW b \in Variable, NEW to \in Variable, NEW e, NEW f,
         Reaches(andGate(a, b, to), e, f)
  PROVE  /\ Only(e, f, {to})
         /\ f.on[to] \in Bit
         /\ e.on[a] = 0 \/ e.on[b] = 0 => f.on[to] = 0
         /\ e.on[a] \in Bit /\ e.on[b] \in Bit => (f.on[to] = 1 <=> e.on[a] = 1 /\ e.on[b] = 1)
<1>1. "gate" \in {"gate", "drive"} /\ "gate" # "drive" /\ TRUTH_AND \in Byte
  BY ByteTypes
<1>2. Reaches(<< Emission("gate", TRUTH_AND, <<a, b>>, to) >>, e, f)
  BY DEF andGate, gate
<1>3. Only(e, f, {to}) /\ f.on[to] \in Bit
  BY <1>1, <1>2, GatesShow
<1>4. PICK p, q \in Bit :
        /\ e.on[a] # Absent => p = e.on[a]
        /\ e.on[b] # Absent => q = e.on[b]
        /\ combinationAllowed(TRUTH_AND, p, q, f.on[to])
  <2>1. Allowed(TRUTH_AND, e.on[a], e.on[b], f.on[to])
    BY <1>1, <1>2, GatesShow
  <2> QED
    BY <2>1 DEF Allowed
<1>5. f.on[to] = 1 <=> p = 1 /\ q = 1
  BY <1>3, <1>4, RowsAllowed
<1> QED
  BY <1>3, <1>4, <1>5 DEF Absent, Bit

LEMMA XorShows ==
  ASSUME NEW a \in Variable, NEW b \in Variable, NEW to \in Variable, NEW e, NEW f,
         Reaches(xorGate(a, b, to), e, f)
  PROVE  /\ Only(e, f, {to})
         /\ f.on[to] \in Bit
         /\ e.on[a] \in Bit /\ e.on[b] \in Bit => (f.on[to] = 1 <=> e.on[a] # e.on[b])
<1>1. "gate" \in {"gate", "drive"} /\ "gate" # "drive" /\ TRUTH_XOR \in Byte
  BY ByteTypes
<1>2. Reaches(<< Emission("gate", TRUTH_XOR, <<a, b>>, to) >>, e, f)
  BY DEF xorGate, gate
<1>3. Only(e, f, {to}) /\ f.on[to] \in Bit
  BY <1>1, <1>2, GatesShow
<1>4. PICK p, q \in Bit :
        /\ e.on[a] # Absent => p = e.on[a]
        /\ e.on[b] # Absent => q = e.on[b]
        /\ combinationAllowed(TRUTH_XOR, p, q, f.on[to])
  <2>1. Allowed(TRUTH_XOR, e.on[a], e.on[b], f.on[to])
    BY <1>1, <1>2, GatesShow
  <2> QED
    BY <2>1 DEF Allowed
<1>5. f.on[to] = 1 <=> p # q
  BY <1>3, <1>4, RowsAllowed
<1> QED
  BY <1>3, <1>4, <1>5 DEF Absent, Bit

Disjoins(e, f, a, b, to) ==
  /\ Only(e, f, {to})
  /\ f.on[to] \in Bit
  /\ e.on[a] \in Bit /\ e.on[b] \in Bit /\ f.on[to] = 1 => e.on[a] = 1 \/ e.on[b] = 1
  /\ f.functional => (f.on[to] = 1 <=> e.on[a] = 1 \/ e.on[b] = 1)

(* What an OR gate adds, and what the majority's own pin is driven with.   *)
LEMMA DisjunctionShows ==
  ASSUME NEW a \in Variable, NEW b \in Variable, NEW to \in Variable, NEW e, NEW f,
         NEW kind \in {"gate", "drive"}, kind = "drive" => e.on[to] # Absent,
         Reaches(<< Emission(kind, TRUTH_OR, <<a, b>>, to) >>, e, f)
  PROVE  Disjoins(e, f, a, b, to)
<1>2. TRUTH_OR \in Byte
  BY ByteTypes
<1>3. /\ Only(e, f, {to})
      /\ f.on[to] \in Bit
      /\ f.functional => (f.on[to] = 1 <=> e.on[a] = 1 \/ e.on[b] = 1)
  <2>1. Only(e, f, {to})
    BY <1>2, GatesShow
  <2>2. f.on[to] \in Bit
    BY <1>2, GatesShow
  <2>3. Exactly(TRUTH_OR, e.on[a], e.on[b], f.on[to], f.functional)
    BY <1>2, GatesShow
  <2>4. f.functional => (f.on[to] = 1 <=> e.on[a] = 1 \/ e.on[b] = 1)
    BY <2>3 DEF Exactly
  <2> QED
    BY <2>1, <2>2, <2>4
<1>4. PICK p, q \in Bit :
        /\ e.on[a] # Absent => p = e.on[a]
        /\ e.on[b] # Absent => q = e.on[b]
        /\ combinationAllowed(TRUTH_OR, p, q, f.on[to])
  <2>1. Allowed(TRUTH_OR, e.on[a], e.on[b], f.on[to])
    <3>1. CASE kind = "gate"
      BY <3>1, <1>2, GatesShow
    <3>2. CASE kind = "drive"
      BY <3>2, <1>2, GatesShow
    <3> QED
      BY <3>1, <3>2
  <2> QED
    BY <2>1 DEF Allowed
<1>5. f.on[to] = 1 => p = 1 \/ q = 1
  BY <1>3, <1>4, RowsAllowed
<1> QED
  BY <1>3, <1>4, <1>5 DEF Disjoins, Absent, Bit

LEMMA OrShows ==
  ASSUME NEW a \in Variable, NEW b \in Variable, NEW to \in Variable, NEW e, NEW f,
         Reaches(orGate(a, b, to), e, f)
  PROVE  /\ Only(e, f, {to})
         /\ f.on[to] \in Bit
         /\ e.on[a] \in Bit /\ e.on[b] \in Bit /\ f.on[to] = 1 => e.on[a] = 1 \/ e.on[b] = 1
         /\ f.functional => (f.on[to] = 1 <=> e.on[a] = 1 \/ e.on[b] = 1)
<1>1. Reaches(<< Emission("gate", TRUTH_OR, <<a, b>>, to) >>, e, f) /\ "gate" \in {"gate", "drive"}
  BY DEF orGate, gate, drive
<1>2. "gate" = "drive" => e.on[to] # Absent
  OBVIOUS
<1>3. Disjoins(e, f, a, b, to)
  BY <1>1, <1>2, DisjunctionShows
<1> QED
  BY <1>3 DEF Disjoins

LEMMA DriveShows ==
  ASSUME NEW a \in Variable, NEW b \in Variable, NEW to \in Variable, NEW e, NEW f,
         Reaches(drive(TRUTH_OR, a, b, to), e, f), e.on[to] # Absent
  PROVE  /\ Only(e, f, {to})
         /\ f.on[to] \in Bit
         /\ e.on[a] \in Bit /\ e.on[b] \in Bit /\ f.on[to] = 1 => e.on[a] = 1 \/ e.on[b] = 1
         /\ f.functional => (f.on[to] = 1 <=> e.on[a] = 1 \/ e.on[b] = 1)
<1>1. Reaches(<< Emission("drive", TRUTH_OR, <<a, b>>, to) >>, e, f) /\ "drive" \in {"gate", "drive"}
  BY DEF orGate, gate, drive
<1>2. "drive" = "drive" => e.on[to] # Absent
  OBVIOUS
<1>3. Disjoins(e, f, a, b, to)
  BY <1>1, <1>2, DisjunctionShows
<1> QED
  BY <1>3 DEF Disjoins

LEMMA InverterShows ==
  ASSUME NEW a \in Variable, NEW to \in Variable, NEW e, NEW f, Reaches(notGate(a, to), e, f)
  PROVE  Only(e, f, {to}) /\ f.on[to] = 0
<1>1. "gate" \in {"gate", "drive"} /\ "gate" # "drive" /\ TRUTH_INVERT \in Byte /\ Null \in Variable
  BY ByteTypes, VariableTypes
<1>2. Reaches(<< Emission("gate", TRUTH_INVERT, <<a, Null>>, to) >>, e, f)
  BY DEF notGate, gate
<1>3. Only(e, f, {to}) /\ f.on[to] \in Bit
  BY <1>1, <1>2, GatesShow
<1>4. PICK p, q \in Bit : combinationAllowed(TRUTH_INVERT, p, q, f.on[to])
  <2>1. Allowed(TRUTH_INVERT, e.on[a], e.on[Null], f.on[to])
    BY <1>1, <1>2, GatesShow
  <2> QED
    BY <2>1 DEF Allowed
<1> QED
  BY <1>3, <1>4, RowsAllowed

LEMMA SinglesTyped ==
  ASSUME NEW to \in Variable
  PROVE  /\ temp(to) \in Seq(Call) /\ garbage(to) \in Seq(Call)
         /\ \A v \in Bit : constPin(v, to) \in Seq(Call)
         /\ \A a, b \in Variable :
              /\ andGate(a, b, to) \in Seq(Call) /\ xorGate(a, b, to) \in Seq(Call)
              /\ orGate(a, b, to) \in Seq(Call) /\ notGate(a, to) \in Seq(Call)
              /\ drive(TRUTH_OR, a, b, to) \in Seq(Call)
<1>1. Null \in Variable
  BY VariableTypes
<1>2. /\ Runs(Variable, temp(to), Variable \union {to})
      /\ \A v \in Bit : Runs(Variable, constPin(v, to), Variable \union {to})
  BY <1>1, RunsSingle
<1>3. ASSUME NEW a \in Variable, NEW b \in Variable
      PROVE  /\ Runs(Variable, andGate(a, b, to), Variable \union {to})
             /\ Runs(Variable, xorGate(a, b, to), Variable \union {to})
             /\ Runs(Variable, orGate(a, b, to), Variable \union {to})
             /\ Runs(Variable, notGate(a, to), Variable \union {to})
  BY <1>1, RunsGates
<1>4. "garbage" \in Kinds /\ "drive" \in Kinds
  BY DEF Kinds
<1>5. garbage(to) \in Seq(Call)
  BY <1>1, <1>4, EmissionTypes, ByteTypes DEF garbage
<1>6. ASSUME NEW a \in Variable, NEW b \in Variable
      PROVE  drive(TRUTH_OR, a, b, to) \in Seq(Call)
  BY <1>4, EmissionTypes, ByteTypes DEF drive
<1> QED
  BY <1>2, <1>3, <1>5, <1>6 DEF Runs

LEMMA Joined ==
  ASSUME NEW s \in Seq(Call), NEW t \in Seq(Call)
  PROVE  s \o t \in Seq(Call)
  OBVIOUS

-----------------------------------------------------------------------------
(* The majority and the full adder. *)

MajScratch == {Local("ab"), Local("ac"), Local("bc"), Local("ab_or_ac")}

(* At least two of three, never more than that (majGate).                  *)
LEMMA MajShows ==
  ASSUME NEW a \in Variable \ MajScratch, NEW b \in Variable \ MajScratch,
         NEW c \in Variable \ MajScratch, NEW to \in Variable \ MajScratch, to \notin {a, b, c},
         NEW e, NEW g, Reaches(majGate(a, b, c, to), e, g)
  PROVE  /\ Only(e, g, MajScratch \union {to})
         /\ g.on[to] \in Bit
         /\ e.on[a] \in Bit /\ e.on[b] \in Bit /\ e.on[c] \in Bit =>
              /\ g.on[to] = 1 => e.on[a] + e.on[b] + e.on[c] >= 2
              /\ g.functional => (g.on[to] = 1 <=> e.on[a] + e.on[b] + e.on[c] >= 2)
<1> DEFINE ab == Local("ab")
           ac == Local("ac")
           bc == Local("bc")
           or == Local("ab_or_ac")
           s1 == temp(to)
           s2 == andGate(a, b, ab)
           s3 == andGate(a, c, ac)
           s4 == andGate(b, c, bc)
           s5 == orGate(ab, ac, or)
           s6 == drive(TRUTH_OR, or, bc, to)
           U  == MajScratch \union {to}
<1>1. ab \in Variable /\ ac \in Variable /\ bc \in Variable /\ or \in Variable
  BY VariableTypes DEF Names
<1>2. /\ ab # ac /\ ab # bc /\ ab # or /\ ac # bc /\ ac # or /\ bc # or
      /\ MajScratch = {ab, ac, bc, or}
  BY DEF Local, MajScratch
<1>3. majGate(a, b, c, to) = s1 \o s2 \o s3 \o s4 \o s5 \o s6
  BY DEF majGate
<1> HIDE DEF ab, ac, bc, or
<1>4. /\ s1 \in Seq(Call) /\ s2 \in Seq(Call) /\ s3 \in Seq(Call)
      /\ s4 \in Seq(Call) /\ s5 \in Seq(Call) /\ s6 \in Seq(Call)
  BY <1>1, SinglesTyped
<1> HIDE DEF s1, s2, s3, s4, s5, s6
<1>5. /\ s1 \o s2 \in Seq(Call) /\ s1 \o s2 \o s3 \in Seq(Call)
      /\ s1 \o s2 \o s3 \o s4 \in Seq(Call) /\ s1 \o s2 \o s3 \o s4 \o s5 \in Seq(Call)
  BY <1>4, Joined
<1>6. PICK e5 : Reaches(s1 \o s2 \o s3 \o s4 \o s5, e, e5) /\ Reaches(s6, e5, g)
  BY <1>3, <1>4, <1>5, ReachesThen
<1>7. PICK e4 : Reaches(s1 \o s2 \o s3 \o s4, e, e4) /\ Reaches(s5, e4, e5)
  BY <1>4, <1>5, <1>6, ReachesThen
<1>8. PICK e3 : Reaches(s1 \o s2 \o s3, e, e3) /\ Reaches(s4, e3, e4)
  BY <1>4, <1>5, <1>7, ReachesThen
<1>9. PICK e2 : Reaches(s1 \o s2, e, e2) /\ Reaches(s3, e2, e3)
  BY <1>4, <1>5, <1>8, ReachesThen
<1>10. PICK e1 : Reaches(s1, e, e1) /\ Reaches(s2, e1, e2)
  BY <1>4, <1>5, <1>9, ReachesThen
<1>11. Only(e, e1, {to}) /\ e1.on[to] = Unset
  BY <1>10, TempShows DEF s1
<1>12. /\ Only(e1, e2, {ab})
       /\ e1.on[a] \in Bit /\ e1.on[b] \in Bit => (e2.on[ab] = 1 <=> e1.on[a] = 1 /\ e1.on[b] = 1)
       /\ e2.on[ab] \in Bit
  BY <1>1, <1>10, AndShows DEF s2
<1>13. /\ Only(e2, e3, {ac})
       /\ e2.on[a] \in Bit /\ e2.on[c] \in Bit => (e3.on[ac] = 1 <=> e2.on[a] = 1 /\ e2.on[c] = 1)
       /\ e3.on[ac] \in Bit
  BY <1>1, <1>9, AndShows DEF s3
<1>14. /\ Only(e3, e4, {bc})
       /\ e3.on[b] \in Bit /\ e3.on[c] \in Bit => (e4.on[bc] = 1 <=> e3.on[b] = 1 /\ e3.on[c] = 1)
       /\ e4.on[bc] \in Bit
  BY <1>1, <1>8, AndShows DEF s4
<1>15. /\ Only(e4, e5, {or})
       /\ e5.on[or] \in Bit
       /\ e4.on[ab] \in Bit /\ e4.on[ac] \in Bit /\ e5.on[or] = 1 => e4.on[ab] = 1 \/ e4.on[ac] = 1
       /\ e5.functional => (e5.on[or] = 1 <=> e4.on[ab] = 1 \/ e4.on[ac] = 1)
  BY <1>1, <1>7, OrShows DEF s5
<1>16. e5.on[to] = Unset
  BY <1>2, <1>11, <1>12, <1>13, <1>14, <1>15 DEF Only
<1>17. /\ Only(e5, g, {to})
       /\ g.on[to] \in Bit
       /\ e5.on[or] \in Bit /\ e5.on[bc] \in Bit /\ g.on[to] = 1 => e5.on[or] = 1 \/ e5.on[bc] = 1
       /\ g.functional => (g.on[to] = 1 <=> e5.on[or] = 1 \/ e5.on[bc] = 1)
  <2>1. Reaches(drive(TRUTH_OR, or, bc, to), e5, g) /\ e5.on[to] # Absent
    BY <1>6, <1>16 DEF s6, Unset, Absent
  <2> QED
    BY <1>1, <2>1, DriveShows
<1>18. Only(e, g, U)
  <2>1. Only(e, e2, U)
    BY <1>2, <1>11, <1>12, OnlyThen
  <2>2. Only(e2, e4, U)
    BY <1>2, <1>13, <1>14, OnlyThen
  <2>3. Only(e4, g, U)
    BY <1>2, <1>15, <1>17, OnlyThen
  <2>4. Only(e, e4, U)
    BY <2>1, <2>2, OnlyThen
  <2> QED
    BY <2>3, <2>4, OnlyThen
<1>19. ASSUME e.on[a] \in Bit, e.on[b] \in Bit, e.on[c] \in Bit
       PROVE  /\ g.on[to] = 1 => e.on[a] + e.on[b] + e.on[c] >= 2
              /\ g.functional => (g.on[to] = 1 <=> e.on[a] + e.on[b] + e.on[c] >= 2)
  <2>1. /\ e1.on[a] = e.on[a] /\ e1.on[b] = e.on[b] /\ e2.on[a] = e.on[a] /\ e2.on[c] = e.on[c]
        /\ e3.on[b] = e.on[b] /\ e3.on[c] = e.on[c]
    BY <1>1, <1>2, <1>11, <1>12, <1>13 DEF Only
  <2>2. e4.on[ab] = e2.on[ab] /\ e4.on[ac] = e3.on[ac] /\ e5.on[bc] = e4.on[bc]
    BY <1>1, <1>2, <1>13, <1>14, <1>15 DEF Only
  <2>3. /\ e4.on[ab] = 1 <=> e.on[a] = 1 /\ e.on[b] = 1
        /\ e4.on[ac] = 1 <=> e.on[a] = 1 /\ e.on[c] = 1
        /\ e5.on[bc] = 1 <=> e.on[b] = 1 /\ e.on[c] = 1
    BY <1>12, <1>13, <1>14, <1>19, <2>1, <2>2
  <2>4. g.functional => e5.functional
    BY <1>17 DEF Only
  <2>5. e4.on[ab] \in Bit /\ e4.on[ac] \in Bit /\ e5.on[bc] \in Bit
    BY <1>12, <1>13, <1>14, <2>2
  <2>6. /\ (e.on[a] + e.on[b] + e.on[c] >= 2) <=>
             e4.on[ab] = 1 \/ e4.on[ac] = 1 \/ e5.on[bc] = 1
    BY <1>19, <2>3 DEF Bit
  <2>7. g.on[to] = 1 => e4.on[ab] = 1 \/ e4.on[ac] = 1 \/ e5.on[bc] = 1
    BY <1>15, <1>17, <2>5
  <2>8. g.functional => (g.on[to] = 1 <=> e4.on[ab] = 1 \/ e4.on[ac] = 1 \/ e5.on[bc] = 1)
    BY <1>15, <1>17, <2>4
  <2> QED
    BY <2>6, <2>7, <2>8
<1> QED
  BY <1>17, <1>18, <1>19

AdderScratch == MajScratch \union {Local("a_xor_b")}

(* What is shown never exceeds the sum of the three inputs.                *)
LEMMA FullAdderShows ==
  ASSUME NEW a \in Variable \ AdderScratch, NEW b \in Variable \ AdderScratch,
         NEW cin \in Variable \ AdderScratch, NEW sum \in Variable \ AdderScratch,
         NEW cout \in Variable \ AdderScratch,
         sum \notin {a, b, cin}, cout \notin {a, b, cin, sum},
         NEW e, NEW g, Reaches(fullAdder(a, b, cin, sum, cout), e, g)
  PROVE  /\ Only(e, g, AdderScratch \union {sum, cout})
         /\ g.on[sum] \in Bit
         /\ g.on[cout] \in Bit
         /\ e.on[a] \in Bit /\ e.on[b] \in Bit /\ e.on[cin] \in Bit =>
              /\ g.on[sum] + 2 * g.on[cout] <= e.on[a] + e.on[b] + e.on[cin]
              /\ g.functional => g.on[sum] + 2 * g.on[cout] = e.on[a] + e.on[b] + e.on[cin]
<1> DEFINE axb == Local("a_xor_b")
           s1 == xorGate(a, b, axb)
           s2 == xorGate(axb, cin, sum)
           s3 == majGate(a, b, cin, cout)
           U  == AdderScratch \union {sum, cout}
<1>1. axb \in Variable
  BY VariableTypes DEF Names
<1>2. fullAdder(a, b, cin, sum, cout) = s1 \o s2 \o s3
  BY DEF fullAdder
<1>3. AdderScratch = MajScratch \union {axb} /\ axb \notin MajScratch
  BY DEF AdderScratch, MajScratch, Local
<1> HIDE DEF axb
<1>4. s1 \in Seq(Call) /\ s2 \in Seq(Call)
  BY <1>1, SinglesTyped
<1>5. s3 \in Seq(Call)
  <2>1. /\ temp(cout) \in Seq(Call)
        /\ andGate(a, b, Local("ab")) \in Seq(Call)
        /\ andGate(a, cin, Local("ac")) \in Seq(Call)
        /\ andGate(b, cin, Local("bc")) \in Seq(Call)
        /\ orGate(Local("ab"), Local("ac"), Local("ab_or_ac")) \in Seq(Call)
        /\ drive(TRUTH_OR, Local("ab_or_ac"), Local("bc"), cout) \in Seq(Call)
    BY VariableTypes, SinglesTyped DEF Names
  <2> QED
    BY <2>1, Joined DEF majGate
<1> HIDE DEF s1, s2, s3
<1>6. s1 \o s2 \in Seq(Call)
  BY <1>4, Joined
<1>7. PICK e2 : Reaches(s1 \o s2, e, e2) /\ Reaches(s3, e2, g)
  BY <1>2, <1>5, <1>6, ReachesThen
<1>8. PICK e1 : Reaches(s1, e, e1) /\ Reaches(s2, e1, e2)
  BY <1>4, <1>7, ReachesThen
<1>9. /\ Only(e, e1, {axb})
      /\ e1.on[axb] \in Bit
      /\ e.on[a] \in Bit /\ e.on[b] \in Bit => (e1.on[axb] = 1 <=> e.on[a] # e.on[b])
  BY <1>1, <1>8, XorShows DEF s1
<1>10. /\ Only(e1, e2, {sum})
       /\ e2.on[sum] \in Bit
       /\ e1.on[axb] \in Bit /\ e1.on[cin] \in Bit => (e2.on[sum] = 1 <=> e1.on[axb] # e1.on[cin])
  BY <1>1, <1>8, XorShows DEF s2
<1>11. /\ a \in Variable \ MajScratch /\ b \in Variable \ MajScratch /\ cin \in Variable \ MajScratch
       /\ cout \in Variable \ MajScratch /\ sum \in Variable \ MajScratch
       /\ cout \notin {a, b, cin} /\ a # axb /\ b # axb /\ cin # axb /\ sum # axb
  BY <1>3
<1>12. /\ Only(e2, g, MajScratch \union {cout})
       /\ g.on[cout] \in Bit
       /\ e2.on[a] \in Bit /\ e2.on[b] \in Bit /\ e2.on[cin] \in Bit =>
            /\ g.on[cout] = 1 => e2.on[a] + e2.on[b] + e2.on[cin] >= 2
            /\ g.functional => (g.on[cout] = 1 <=> e2.on[a] + e2.on[b] + e2.on[cin] >= 2)
  BY <1>7, <1>11, MajShows DEF s3
<1>13. Only(e, g, U)
  <2>1. Only(e, e2, U) /\ Only(e2, g, U)
    BY <1>3, <1>9, <1>10, <1>12, OnlyThen, OnlyMore
  <2> QED
    BY <2>1, OnlyThen
<1>14. g.on[sum] = e2.on[sum]
  BY <1>11, <1>12 DEF Only
<1>15. ASSUME e.on[a] \in Bit, e.on[b] \in Bit, e.on[cin] \in Bit
       PROVE  /\ g.on[sum] + 2 * g.on[cout] <= e.on[a] + e.on[b] + e.on[cin]
              /\ g.functional => g.on[sum] + 2 * g.on[cout] = e.on[a] + e.on[b] + e.on[cin]
  <2>1. /\ e1.on[cin] = e.on[cin]
        /\ e2.on[a] = e.on[a] /\ e2.on[b] = e.on[b] /\ e2.on[cin] = e.on[cin]
    BY <1>9, <1>10, <1>11 DEF Only
  <2>2. /\ g.on[sum] \in {0, 1} /\ g.on[cout] \in {0, 1} /\ e1.on[axb] \in {0, 1}
        /\ e.on[a] \in {0, 1} /\ e.on[b] \in {0, 1} /\ e.on[cin] \in {0, 1}
    BY <1>9, <1>10, <1>12, <1>14, <1>15 DEF Bit
  <2>3. /\ e1.on[axb] = 1 <=> e.on[a] # e.on[b]
        /\ g.on[sum] = 1 <=> e1.on[axb] # e.on[cin]
    BY <1>9, <1>10, <1>14, <1>15, <2>1
  <2>4. g.on[cout] = 1 => e.on[a] + e.on[b] + e.on[cin] >= 2
    BY <1>12, <1>15, <2>1
  <2>5. g.functional => (g.on[cout] = 1 <=> e.on[a] + e.on[b] + e.on[cin] >= 2)
    BY <1>12, <1>15, <2>1
  <2> QED
    BY <2>2, <2>3, <2>4, <2>5
<1> QED
  BY <1>10, <1>12, <1>13, <1>14, <1>15

-----------------------------------------------------------------------------
(* Weights and the numbers on views. *)

Doubles(w, n) ==
  /\ DOMAIN w = 0 .. n
  /\ \A i \in 0 .. n : w[i] = IF i = 0 THEN 1 ELSE 2 * w[i - 1]

DoublesTo(n) == CHOOSE w : Doubles(w, n)

LEMMA DoublesExist ==
  ASSUME NEW n \in Nat
  PROVE  Doubles(DoublesTo(n), n)
<1> DEFINE T == { k \in 0 .. n : \E w : Doubles(w, k) }
<1>1. 0 \in T
  <2> DEFINE w == [i \in 0 .. 0 |-> 1]
  <2>1. DOMAIN w = 0 .. 0 /\ \A i \in 0 .. 0 : i = 0 /\ w[i] = 1
    OBVIOUS
  <2> HIDE DEF w
  <2>2. Doubles(w, 0)
    BY <2>1 DEF Doubles
  <2> QED
    BY <2>2
<1>2. ASSUME NEW k \in T, k < n
      PROVE  k + 1 \in T
  <2>1. PICK w : Doubles(w, k)
    OBVIOUS
  <2> DEFINE v == [i \in 0 .. k + 1 |-> IF i = k + 1 THEN 2 * w[k] ELSE w[i]]
  <2>2. ASSUME NEW i \in 0 .. k + 1
        PROVE  v[i] = IF i = 0 THEN 1 ELSE 2 * v[i - 1]
    <3>1. CASE i = k + 1
      <4>1. i # 0 /\ i - 1 = k /\ k \in 0 .. k + 1 /\ k # k + 1
        BY <3>1
      <4>2. v[i] = 2 * w[k] /\ v[k] = w[k]
        BY <3>1, <4>1
      <4> QED
        BY <4>1, <4>2
    <3>2. CASE i # k + 1
      <4>1. i \in 0 .. k /\ (i # 0 => i - 1 \in 0 .. k + 1 /\ i - 1 # k + 1)
        BY <3>2
      <4>2. v[i] = w[i] /\ (i # 0 => v[i - 1] = w[i - 1])
        BY <3>2, <4>1
      <4> HIDE DEF v
      <4> QED
        BY <4>1, <4>2, <2>1 DEF Doubles
    <3> QED
      BY <3>1, <3>2
  <2>3. DOMAIN v = 0 .. k + 1
    OBVIOUS
  <2> HIDE DEF v
  <2>4. Doubles(v, k + 1)
    BY <2>2, <2>3 DEF Doubles
  <2>5. k + 1 \in 0 .. n
    BY <1>2
  <2> QED
    BY <2>4, <2>5
<1>3. T \subseteq 0 .. n
  OBVIOUS
<1> HIDE DEF T
<1>4. n \in T
  <2>1. T = 0 .. n
    BY <1>1, <1>2, <1>3, AllReached
  <2> QED
    BY <2>1
<1> QED
  BY <1>4 DEF T, DoublesTo

LEMMA DoublesAgree ==
  ASSUME NEW n \in Nat, NEW m \in Nat, n <= m, NEW v, NEW w, Doubles(v, n), Doubles(w, m)
  PROVE  v[n] = w[n]
<1> DEFINE T == { k \in 0 .. n : v[k] = w[k] }
<1>1. 0 \in T
  BY DEF Doubles
<1>2. ASSUME NEW k \in T, k < n
      PROVE  k + 1 \in T
  <2>1. /\ k + 1 \in 0 .. n /\ k + 1 \in 0 .. m /\ k + 1 # 0 /\ (k + 1) - 1 = k
        /\ v[k] = w[k]
    BY <1>2
  <2>2. v[k + 1] = 2 * v[k] /\ w[k + 1] = 2 * w[k]
    BY <2>1 DEF Doubles
  <2> QED
    BY <2>1, <2>2
<1>3. T \subseteq 0 .. n
  OBVIOUS
<1> HIDE DEF T
<1>4. T = 0 .. n
  BY <1>1, <1>2, <1>3, AllReached
<1>5. n \in 0 .. n
  OBVIOUS
<1> QED
  BY <1>4, <1>5 DEF T

(* Weight is the recursive function it is defined to be.                   *)
LEMMA WeightIs ==
  Weight = [i \in Nat |-> IF i = 0 THEN 1 ELSE 2 * Weight[i - 1]]
<1> DEFINE w == [i \in Nat |-> DoublesTo(i)[i]]
           by(f, i) == IF i = 0 THEN 1 ELSE 2 * f[i - 1]
<1>1. ASSUME NEW i \in Nat
      PROVE  w[i] = by(w, i)
  <2>1. i \in 0 .. i /\ Doubles(DoublesTo(i), i)
    BY DoublesExist
  <2>2. CASE i = 0
    BY <2>1, <2>2 DEF Doubles
  <2>3. CASE i # 0
    <3>1. i - 1 \in Nat /\ i - 1 <= i
      BY <2>3
    <3>2. Doubles(DoublesTo(i - 1), i - 1)
      BY <3>1, DoublesExist
    <3>3. DoublesTo(i - 1)[i - 1] = DoublesTo(i)[i - 1]
      BY <2>1, <3>1, <3>2, DoublesAgree
    <3>4. DoublesTo(i)[i] = 2 * DoublesTo(i)[i - 1]
      BY <2>1, <2>3 DEF Doubles
    <3> QED
      BY <3>1, <3>3, <3>4, <2>3
  <2> QED
    BY <2>2, <2>3
<1>2. w = [i \in Nat |-> by(w, i)]
  <2>1. w = [i \in Nat |-> w[i]]
    OBVIOUS
  <2> HIDE DEF w, by
  <2> QED
    BY <2>1, <1>1
<1>3. \E v : v = [i \in Nat |-> IF i = 0 THEN 1 ELSE 2 * v[i - 1]]
  <2> HIDE DEF w
  <2> QED
    BY <1>2
<1> QED
  BY <1>3 DEF Weight

LEMMA Weights ==
  /\ Weight[0] = 1
  /\ \A n \in Nat : Weight[n + 1] = 2 * Weight[n]
<1>1. Weight[0] = 1
  BY WeightIs
<1>2. ASSUME NEW n \in Nat
      PROVE  Weight[n + 1] = 2 * Weight[n]
  <2>1. n + 1 \in Nat /\ n + 1 # 0 /\ (n + 1) - 1 = n
    OBVIOUS
  <2> QED
    BY <2>1, WeightIs
<1> QED
  BY <1>1, <1>2

LEMMA WeightPositive ==
  ASSUME NEW n \in Nat
  PROVE  Weight[n] \in Nat \ {0}
<1> DEFINE T == { k \in 0 .. n : Weight[k] \in Nat \ {0} }
<1>1. 0 \in T
  BY Weights
<1>2. ASSUME NEW k \in T, k < n
      PROVE  k + 1 \in T
  BY <1>2, Weights
<1>3. T \subseteq 0 .. n
  OBVIOUS
<1> HIDE DEF T
<1>4. T = 0 .. n
  BY <1>1, <1>2, <1>3, AllReached
<1>5. n \in 0 .. n
  OBVIOUS
<1> QED
  BY <1>4, <1>5 DEF T

LEMMA Products ==
  ASSUME NEW x \in Nat, NEW y \in Nat, NEW z \in Nat
  PROVE  /\ x * y \in Nat
         /\ x * (2 * y) = 2 * (x * y)
         /\ (x * y) * z = x * (y * z)
         /\ x * (y + z) = x * y + x * z
         /\ x * y = y * x
         /\ x * 0 = 0 /\ x * 1 = x
  OBVIOUS

(* Weights multiply as powers do.                                          *)
LEMMA WeightsMultiply ==
  ASSUME NEW n \in Nat, NEW m \in Nat
  PROVE  Weight[n + m] = Weight[n] * Weight[m]
<1> DEFINE T == { k \in 0 .. m : Weight[n + k] = Weight[n] * Weight[k] }
<1>1. 0 \in T
  <2>1. n + 0 = n /\ Weight[n] \in Nat
    BY WeightPositive
  <2> QED
    BY <2>1, Weights, Products
<1>2. ASSUME NEW k \in T, k < m
      PROVE  k + 1 \in T
  <2>1. /\ k + 1 \in 0 .. m /\ k \in Nat /\ n + k \in Nat /\ n + (k + 1) = (n + k) + 1
        /\ Weight[n + k] = Weight[n] * Weight[k]
    BY <1>2
  <2>2. /\ Weight[k] \in Nat /\ Weight[n] \in Nat
        /\ Weight[k + 1] = 2 * Weight[k]
        /\ Weight[n + (k + 1)] = 2 * Weight[n + k]
    BY <2>1, Weights, WeightPositive
  <2>3. Weight[n] * (2 * Weight[k]) = 2 * (Weight[n] * Weight[k])
    BY <2>2, Products
  <2> QED
    BY <2>1, <2>2, <2>3
<1>3. T \subseteq 0 .. m
  OBVIOUS
<1> HIDE DEF T
<1>4. T = 0 .. m
  BY <1>1, <1>2, <1>3, AllReached
<1>5. m \in 0 .. m
  OBVIOUS
<1> QED
  BY <1>4, <1>5 DEF T

(* The amount the first n bits of a number are worth.                      *)
Worth(bit, n)  == [i \in 1 .. n |-> Weight[i - 1] * bit[i]]
Amount(bit, n) == Total(Worth(bit, n))

LEMMA WorthTypes ==
  ASSUME NEW n \in Nat, NEW bit, \A i \in 1 .. n : bit[i] \in Nat
  PROVE  /\ DOMAIN Worth(bit, n) = 1 .. n
         /\ IsFiniteSet(1 .. n)
         /\ \A i \in 1 .. n : Worth(bit, n)[i] = Weight[i - 1] * bit[i] /\ Worth(bit, n)[i] \in Nat
<1>1. DOMAIN Worth(bit, n) = 1 .. n /\ \A i \in 1 .. n : Worth(bit, n)[i] = Weight[i - 1] * bit[i]
  BY DEF Worth
<1>2. IsFiniteSet(1 .. n)
  BY FS_Interval
<1>3. ASSUME NEW i \in 1 .. n
      PROVE  Weight[i - 1] * bit[i] \in Nat
  <2>1. i - 1 \in Nat /\ Weight[i - 1] \in Nat /\ bit[i] \in Nat
    BY WeightPositive
  <2> QED
    BY <2>1, Products
<1> QED
  BY <1>1, <1>2, <1>3

LEMMA AmountType ==
  ASSUME NEW n \in Nat, NEW bit, \A i \in 1 .. n : bit[i] \in Nat
  PROVE  Amount(bit, n) \in Nat
<1> DEFINE F == Worth(bit, n)
<1>1. IsFiniteSet(DOMAIN F) /\ \A i \in DOMAIN F : F[i] \in Nat /\ F[i] \in Int
  BY WorthTypes
<1> HIDE DEF F
<1>2. Total(F) \in Nat
  BY <1>1, TotalType
<1> QED
  BY <1>2 DEF F, Amount

LEMMA AmountNone ==
  ASSUME NEW bit
  PROVE  Amount(bit, 0) = 0
<1>1. DOMAIN Worth(bit, 0) = {}
  BY DEF Worth
<1> QED
  BY <1>1, TotalEmpty DEF Amount

(* One bit more.                                                           *)
LEMMA AmountStep ==
  ASSUME NEW n \in Nat, NEW bit, \A i \in 1 .. n + 1 : bit[i] \in Nat
  PROVE  Amount(bit, n + 1) = Amount(bit, n) + Weight[n] * bit[n + 1]
<1> DEFINE F == Worth(bit, n)
           G == Worth(bit, n + 1)
           y == n + 1
<1>1. y \in Nat /\ y \in 1 .. n + 1 /\ y - 1 = n /\ 1 .. n + 1 = (1 .. n) \union {y} /\ y \notin 1 .. n
  OBVIOUS
<1>2. \A i \in 1 .. n : bit[i] \in Nat
  OBVIOUS
<1>3. DOMAIN F = 1 .. n /\ IsFiniteSet(1 .. n) /\ \A i \in 1 .. n : F[i] = Weight[i - 1] * bit[i]
  BY <1>2, WorthTypes
<1>4. /\ DOMAIN G = 1 .. n + 1
      /\ \A i \in 1 .. n + 1 : G[i] = Weight[i - 1] * bit[i] /\ G[i] \in Int
  BY <1>1, WorthTypes
<1>5. G[y] = Weight[n] * bit[n + 1]
  BY <1>1, <1>4
<1> HIDE DEF F, G, y
<1>6. \A i \in DOMAIN F : F[i] = G[i]
  BY <1>1, <1>3, <1>4
<1>7. Total(G) = Total(F) + G[y]
  BY <1>1, <1>3, <1>4, <1>6, TotalExtends, SMTT(30)
<1> QED
  BY <1>5, <1>7 DEF F, G, Amount

LEMMA AmountSame ==
  ASSUME NEW n \in Nat, NEW bit, NEW other, \A i \in 1 .. n : bit[i] = other[i]
  PROVE  Amount(bit, n) = Amount(other, n)
<1>1. Worth(bit, n) = Worth(other, n)
  BY DEF Worth
<1> QED
  BY <1>1 DEF Amount

(* A number of n bits is below the weight of the next.                     *)
LEMMA AmountBounded ==
  ASSUME NEW n \in Nat, NEW bit, \A i \in 1 .. n : bit[i] \in Bit
  PROVE  Amount(bit, n) \in 0 .. Weight[n] - 1
<1> DEFINE T == { k \in 0 .. n : Amount(bit, k) < Weight[k] }
<1>0. \A i \in 1 .. n : bit[i] \in Nat
  BY DEF Bit
<1>1. 0 \in T
  BY AmountNone, Weights
<1>2. ASSUME NEW k \in T, k < n
      PROVE  k + 1 \in T
  <2>1. /\ k + 1 \in 0 .. n /\ k \in Nat /\ k + 1 \in 1 .. n
        /\ \A i \in 1 .. k + 1 : i \in 1 .. n /\ bit[i] \in Nat
        /\ \A i \in 1 .. k : bit[i] \in Nat
        /\ Amount(bit, k) < Weight[k]
    BY <1>0, <1>2
  <2>2. Amount(bit, k + 1) = Amount(bit, k) + Weight[k] * bit[k + 1]
    BY <2>1, AmountStep
  <2>3. Amount(bit, k) \in Nat /\ Weight[k] \in Nat /\ Weight[k + 1] = 2 * Weight[k]
    BY <2>1, AmountType, WeightPositive, Weights
  <2>4. Weight[k] * bit[k + 1] <= Weight[k]
    <3>1. bit[k + 1] = 0 \/ bit[k + 1] = 1
      BY <2>1 DEF Bit
    <3> QED
      BY <3>1, <2>3, Products
  <2>5. Weight[k] * bit[k + 1] \in Nat
    BY <2>1, <2>3, Products
  <2> QED
    BY <2>1, <2>2, <2>3, <2>4, <2>5
<1>3. T \subseteq 0 .. n
  OBVIOUS
<1> HIDE DEF T
<1>4. T = 0 .. n
  BY <1>1, <1>2, <1>3, AllReached
<1>5. n \in 0 .. n
  OBVIOUS
<1>6. Amount(bit, n) < Weight[n]
  BY <1>4, <1>5 DEF T
<1> QED
  BY <1>0, <1>6, AmountType, WeightPositive

(* What the higher bits are worth is a multiple.                           *)
Splits(bit, n, m) == \E r \in Nat : Amount(bit, n + m) = Amount(bit, n) + Weight[n] * r

(* The upper bits are worth a multiple of the weight below them.           *)
LEMMA AmountSplits ==
  ASSUME NEW n \in Nat, NEW m \in Nat, NEW bit, \A i \in 1 .. n + m : bit[i] \in Nat
  PROVE  Splits(bit, n, m)
<1> DEFINE T == { k \in 0 .. m : \E r \in Nat : Amount(bit, n + k) = Amount(bit, n) + Weight[n] * r }
<1>0. Weight[n] \in Nat /\ Amount(bit, n) \in Nat
  BY WeightPositive, AmountType
<1>1. 0 \in T
  <2>1. n + 0 = n /\ Weight[n] * 0 = 0
    BY <1>0, Products
  <2>2. Amount(bit, n + 0) = Amount(bit, n) + Weight[n] * 0
    BY <1>0, <2>1
  <2> QED
    BY <2>2
<1>2. ASSUME NEW k \in T, k < m
      PROVE  k + 1 \in T
  <2>1. /\ k + 1 \in 0 .. m /\ k \in Nat /\ n + k \in Nat /\ n + (k + 1) = (n + k) + 1
        /\ \A i \in 1 .. (n + k) + 1 : bit[i] \in Nat
    BY <1>2
  <2>2. PICK r \in Nat : Amount(bit, n + k) = Amount(bit, n) + Weight[n] * r
    OBVIOUS
  <2>3. Amount(bit, (n + k) + 1) = Amount(bit, n + k) + Weight[n + k] * bit[(n + k) + 1]
    BY <2>1, AmountStep
  <2> DEFINE b == bit[(n + k) + 1]
             q == r + Weight[k] * b
  <2>4. b \in Nat /\ Weight[k] \in Nat
    BY <2>1, WeightPositive
  <2>5. Weight[k] * b \in Nat /\ q \in Nat
    BY <2>4, Products
  <2>6. Weight[n + k] * b = Weight[n] * (Weight[k] * b)
    <3>1. Weight[n + k] = Weight[n] * Weight[k]
      BY <2>1, WeightsMultiply
    <3> HIDE DEF b
    <3> QED
      BY <3>1, <1>0, <2>4, Products
  <2>7. Weight[n] * q = Weight[n] * r + Weight[n] * (Weight[k] * b)
    BY <1>0, <2>5, Products
  <2>8. Weight[n] * r \in Nat /\ Weight[n] * (Weight[k] * b) \in Nat
    BY <1>0, <2>5, Products
  <2> HIDE DEF q
  <2>9. Amount(bit, n + (k + 1)) = Amount(bit, n) + Weight[n] * q
    BY <1>0, <2>1, <2>2, <2>3, <2>6, <2>7, <2>8
  <2> QED
    BY <2>1, <2>5, <2>9
<1>3. T \subseteq 0 .. m
  OBVIOUS
<1> HIDE DEF T
<1>4. T = 0 .. m
  BY <1>1, <1>2, <1>3, AllReached
<1>5. m \in 0 .. m
  OBVIOUS
<1> QED
  BY <1>4, <1>5 DEF T, Splits

(* A shifted copy, or nothing, as x says.                                  *)
LEMMA AmountShifts ==
  ASSUME NEW n \in Nat, NEW m \in Nat, NEW bit, NEW x \in Nat, NEW copy,
         \A j \in 1 .. m : bit[j] \in Nat /\ copy[n + j] = x * bit[j],
         \A k \in 1 .. n : copy[k] = 0
  PROVE  Amount(copy, n + m) = Weight[n] * (x * Amount(bit, m))
<1>1. Amount(copy, n) = 0
  <2> DEFINE T == { k \in 0 .. n : Amount(copy, k) = 0 }
  <2>1. 0 \in T
    BY AmountNone
  <2>2. ASSUME NEW k \in T, k < n
        PROVE  k + 1 \in T
    <3>1. k + 1 \in 0 .. n /\ k \in Nat /\ k + 1 \in 1 .. n /\ \A i \in 1 .. k + 1 : copy[i] \in Nat
      BY <2>2
    <3>2. Amount(copy, k + 1) = Amount(copy, k) + Weight[k] * copy[k + 1]
      BY <3>1, AmountStep
    <3>3. copy[k + 1] = 0 /\ Weight[k] \in Nat /\ Weight[k] * 0 = 0
      BY <3>1, WeightPositive, Products
    <3> QED
      BY <3>1, <3>2, <3>3
  <2>3. T \subseteq 0 .. n
    OBVIOUS
  <2> HIDE DEF T
  <2>4. T = 0 .. n
    BY <2>1, <2>2, <2>3, AllReached
  <2>5. n \in 0 .. n
    OBVIOUS
  <2> QED
    BY <2>4, <2>5 DEF T
<1> DEFINE T == { k \in 0 .. m : Amount(copy, n + k) = Weight[n] * (x * Amount(bit, k)) }
<1>2. 0 \in T
  <2>1. n + 0 = n /\ Amount(bit, 0) = 0 /\ x * 0 = 0 /\ Weight[n] \in Nat /\ Weight[n] * 0 = 0
    BY AmountNone, WeightPositive, Products
  <2> QED
    BY <1>1, <2>1
<1>3. ASSUME NEW i \in 1 .. n + m
      PROVE  copy[i] \in Nat
  <2>1. CASE i <= n
    BY <2>1
  <2>2. CASE n < i
    <3>1. i - n \in 1 .. m /\ n + (i - n) = i
      BY <2>2
    <3> HIDE <2>2
    <3>2. copy[i] = x * bit[i - n] /\ bit[i - n] \in Nat
      BY <3>1
    <3> QED
      BY <3>2, Products
  <2> QED
    BY <2>1, <2>2
<1>4. ASSUME NEW k \in T, k < m
      PROVE  k + 1 \in T
  <2>1. /\ k + 1 \in 0 .. m /\ k \in Nat /\ n + k \in Nat /\ n + (k + 1) = (n + k) + 1
        /\ k + 1 \in 1 .. m
        /\ \A i \in 1 .. (n + k) + 1 : i \in 1 .. n + m
        /\ \A i \in 1 .. k + 1 : i \in 1 .. m /\ bit[i] \in Nat
        /\ \A i \in 1 .. k : bit[i] \in Nat
        /\ Amount(copy, n + k) = Weight[n] * (x * Amount(bit, k))
    BY <1>4
  <2> DEFINE b == bit[k + 1]
             u == Amount(bit, k)
  <2>2. Amount(copy, (n + k) + 1) = Amount(copy, n + k) + Weight[n + k] * copy[(n + k) + 1]
    BY <1>3, <2>1, AmountStep
  <2>3. copy[(n + k) + 1] = x * b /\ b \in Nat
    BY <2>1
  <2>4. Amount(bit, k + 1) = u + Weight[k] * b
    BY <2>1, AmountStep
  <2>5. Weight[n] \in Nat /\ Weight[k] \in Nat /\ u \in Nat /\ Weight[n + k] = Weight[n] * Weight[k]
    BY <2>1, AmountType, WeightPositive, WeightsMultiply
  <2> HIDE DEF b, u
  <2>6. /\ x * b \in Nat /\ Weight[k] * b \in Nat /\ x * u \in Nat /\ x * (Weight[k] * b) \in Nat
    BY <2>3, <2>5, Products
  <2>7. Weight[n + k] * (x * b) = Weight[n] * (Weight[k] * (x * b))
    BY <2>5, <2>6, Products
  <2>8. Weight[k] * (x * b) = x * (Weight[k] * b)
    <3>1. Weight[k] * (x * b) = (Weight[k] * x) * b /\ Weight[k] * x = x * Weight[k]
      BY <2>3, <2>5, Products
    <3>2. (x * Weight[k]) * b = x * (Weight[k] * b)
      BY <2>3, <2>5, Products
    <3> QED
      BY <3>1, <3>2
  <2>9. x * (u + Weight[k] * b) = x * u + x * (Weight[k] * b)
    BY <2>5, <2>6, Products
  <2>10. Weight[n] * (x * u + x * (Weight[k] * b)) = Weight[n] * (x * u) + Weight[n] * (x * (Weight[k] * b))
    BY <2>5, <2>6, Products
  <2>11. Amount(copy, n + (k + 1)) = Weight[n] * (x * u) + Weight[n] * (x * (Weight[k] * b))
    BY <2>1, <2>2, <2>3, <2>7, <2>8 DEF u
  <2>12. Amount(copy, n + (k + 1)) = Weight[n] * (x * Amount(bit, k + 1))
    BY <2>4, <2>9, <2>10, <2>11
  <2> QED
    BY <2>1, <2>12
<1>5. T \subseteq 0 .. m
  OBVIOUS
<1> HIDE DEF T
<1>6. T = 0 .. m
  BY <1>2, <1>4, <1>5, AllReached
<1>7. m \in 0 .. m
  OBVIOUS
<1> QED
  BY <1>6, <1>7 DEF T

(* The variables of some numbers.                                          *)
OfNumbers(numbers) == { x \in Variable : <<x[1], x[2]>> \in numbers }

BitsOn(e, number) == [i \in Nat |-> e.on[Bits(number, i)]]

(* Variables of two numbers, or two bits of one, are not the same.         *)
LEMMA BitsDiffer ==
  /\ \A number \in Numbers, i \in Nat : \A numbers :
       Bits(number, i) \in OfNumbers(numbers) <=> number \in numbers
  /\ \A number, other \in Numbers, i, j \in Nat :
       Bits(number, i) = Bits(other, j) <=> number = other /\ i = j
  /\ \A name \in Names : Local(name) = Bits(Number(name), 0)
  /\ \A i \in Nat : Carry(i) = Bits(Number("carry"), i)
  /\ \A i \in Nat : GreaterAt(i) = Bits(Number("gt"), i) /\ EqualAt(i) = Bits(Number("eq"), i)
  /\ \A i \in Nat : Negated(i) = Bits(Number("not_b"), i)
  /\ Compared = Bits(Number("gt"), 1)
<1>1. ASSUME NEW number \in Numbers
      PROVE  number = <<number[1], number[2]>>
  BY DEF Numbers
<1>2. ASSUME NEW number \in Numbers, NEW i \in Nat
      PROVE  <<Bits(number, i)[1], Bits(number, i)[2]>> = number /\ Bits(number, i)[3] = i
  BY <1>1 DEF Bits
<1>3. \A number \in Numbers, i \in Nat : Bits(number, i) \in Variable
  BY VariableTypes
<1>4. ASSUME NEW number \in Numbers, NEW i \in Nat, NEW numbers
      PROVE  Bits(number, i) \in OfNumbers(numbers) <=> number \in numbers
  BY <1>2, <1>3 DEF OfNumbers
<1>5. ASSUME NEW number \in Numbers, NEW other \in Numbers, NEW i \in Nat, NEW j \in Nat
      PROVE  Bits(number, i) = Bits(other, j) <=> number = other /\ i = j
  BY <1>2
<1>6. /\ \A name \in Names : Local(name) = Bits(Number(name), 0)
      /\ \A i \in Nat : Carry(i) = Bits(Number("carry"), i)
      /\ \A i \in Nat : GreaterAt(i) = Bits(Number("gt"), i) /\ EqualAt(i) = Bits(Number("eq"), i)
      /\ \A i \in Nat : Negated(i) = Bits(Number("not_b"), i)
      /\ Compared = Bits(Number("gt"), 1)
  BY DEF Local, Number, Bits, Carry, GreaterAt, EqualAt, Negated, Compared
<1> QED
  BY <1>4, <1>5, <1>6

AdderNumbers ==
  {Number("s"), Number("c"), Number("carry"), Number("ab"), Number("ac"), Number("bc"),
   Number("ab_or_ac"), Number("a_xor_b")}

AddBitChanges(sum, k) == AdderScratch \union {Local("s"), Local("c"), Bits(sum, k), Carry(k)}

(* The adder's own variables: none of a's, b's or sum's.                   *)
LEMMA AdderVariables ==
  /\ AdderNumbers \subseteq Numbers
  /\ AdderScratch \union {Local("s"), Local("c")} \subseteq
       { Bits(number, 0) : number \in AdderNumbers \ {Number("carry")} }
  /\ \A number \in Numbers \ AdderNumbers, i \in Nat :
       Bits(number, i) \in Variable \ (AdderScratch \union {Local("s"), Local("c")})
  /\ \A i \in Nat : Carry(i) \in Variable \ (AdderScratch \union {Local("s"), Local("c")})
<1> DEFINE own == AdderScratch \union {Local("s"), Local("c")}
<1>1. AdderNumbers \subseteq Numbers
  BY VariableTypes DEF AdderNumbers, Names
<1>2. own \subseteq { Bits(number, 0) : number \in AdderNumbers \ {Number("carry")} }
  <2>1. own = { Local("ab"), Local("ac"), Local("bc"), Local("ab_or_ac"), Local("a_xor_b"), Local("s"), Local("c") }
    BY DEF AdderScratch, MajScratch
  <2>2. \A x \in own : \E name \in {"ab", "ac", "bc", "ab_or_ac", "a_xor_b", "s", "c"} : x = Local(name)
    BY <2>1
  <2>3. ASSUME NEW name \in {"ab", "ac", "bc", "ab_or_ac", "a_xor_b", "s", "c"}
        PROVE  /\ Local(name) = Bits(Number(name), 0)
               /\ Number(name) \in AdderNumbers \ {Number("carry")}
    <3>1. name \in Names
      BY DEF Names
    <3>2. Number(name) \in AdderNumbers
      BY DEF AdderNumbers
    <3>3. Number(name) # Number("carry")
      BY DEF Number
    <3> QED
      BY <3>1, <3>2, <3>3, BitsDiffer
  <2> HIDE DEF own
  <2> QED
    BY <2>2, <2>3
<1> HIDE DEF own
<1>3. ASSUME NEW number \in Numbers, NEW i \in Nat, number \notin AdderNumbers \ {Number("carry")}
      PROVE  Bits(number, i) \in Variable \ own
  <2>1. \A other \in AdderNumbers : other \in Numbers
    BY <1>1
  <2>2. ASSUME NEW other \in AdderNumbers \ {Number("carry")}
        PROVE  Bits(number, i) # Bits(other, 0)
    BY <2>1, <1>3, BitsDiffer
  <2> QED
    BY <1>2, <2>2, VariableTypes
<1>4. ASSUME NEW i \in Nat
      PROVE  Carry(i) \in Variable \ own
  <2>1. Number("carry") \in Numbers
    BY <1>1 DEF AdderNumbers
  <2> QED
    BY <2>1, <1>3, BitsDiffer
<1> QED
  BY <1>1, <1>2, <1>3, <1>4 DEF own

(* One bit of the adder: the sum and the carry out are worth at most the   *)
(* bits and the carry in, and exactly as much where OR gates show their    *)
(* disjunctions.                                                           *)
LEMMA AddBitShows ==
  ASSUME NEW a \in Numbers \ AdderNumbers, NEW b \in Numbers \ AdderNumbers,
         NEW sum \in Numbers \ AdderNumbers, sum # a, sum # b, NEW k \in Nat \ {0},
         NEW e, NEW g, Reaches(AddBit(a, b, sum, k), e, g)
  PROVE  /\ Only(e, g, AddBitChanges(sum, k))
         /\ g.on[Bits(sum, k)] \in Bit
         /\ g.on[Carry(k)] \in Bit
         /\ e.on[Bits(a, k)] \in Bit /\ e.on[Bits(b, k)] \in Bit /\ e.on[Carry(k - 1)] \in Bit =>
              /\ g.on[Bits(sum, k)] + 2 * g.on[Carry(k)]
                   <= e.on[Bits(a, k)] + e.on[Bits(b, k)] + e.on[Carry(k - 1)]
              /\ g.functional =>
                   g.on[Bits(sum, k)] + 2 * g.on[Carry(k)]
                     = e.on[Bits(a, k)] + e.on[Bits(b, k)] + e.on[Carry(k - 1)]
<1> DEFINE own == AdderScratch \union {Local("s"), Local("c")}
           x == Bits(a, k)
           y == Bits(b, k)
           c0 == Carry(k - 1)
           c1 == Carry(k)
           z == Bits(sum, k)
           s1 == temp(Local("s"))
           s2 == temp(Local("c"))
           s3 == fullAdder(x, y, c0, z, c1)
           U  == AddBitChanges(sum, k)
<1>1. k \in Nat /\ k - 1 \in Nat /\ k - 1 # k
  OBVIOUS
<1>2. /\ x \in Variable \ own /\ y \in Variable \ own /\ c0 \in Variable \ own
      /\ z \in Variable \ own /\ c1 \in Variable \ own
  BY <1>1, AdderVariables
<1>3. z \notin {x, y, c0} /\ c1 \notin {x, y, c0, z}
  <2>1. Number("carry") \in Numbers /\ Number("carry") \in AdderNumbers
    BY AdderVariables DEF AdderNumbers
  <2>2. c0 = Bits(Number("carry"), k - 1) /\ c1 = Bits(Number("carry"), k)
    BY <1>1, BitsDiffer
  <2> QED
    BY <1>1, <2>1, <2>2, BitsDiffer
<1>4. AddBit(a, b, sum, k) = s1 \o s2 \o s3
  BY DEF AddBit
<1>5. Local("s") \in Variable /\ Local("c") \in Variable
  BY VariableTypes DEF Names
<1>6. s1 \in Seq(Call) /\ s2 \in Seq(Call)
  BY <1>5, SinglesTyped
<1>7. s3 \in Seq(Call)
  <2>1. Runs(Variable, s3, Variable \union {z, c1})
    BY <1>1, <1>2, RunsFullAdder, VariableTypes, StackedAre
  <2> QED
    BY <2>1 DEF Runs
<1> HIDE DEF s1, s2, s3, x, y, z, c0, c1
<1>8. s1 \o s2 \in Seq(Call)
  BY <1>6, Joined
<1>9. PICK e2 : Reaches(s1 \o s2, e, e2) /\ Reaches(s3, e2, g)
  BY <1>4, <1>7, <1>8, ReachesThen
<1>10. PICK e1 : Reaches(s1, e, e1) /\ Reaches(s2, e1, e2)
  BY <1>6, <1>9, ReachesThen
<1>11. Only(e, e1, {Local("s")})
  BY <1>5, <1>10, TempShows DEF s1
<1>12. Only(e1, e2, {Local("c")})
  BY <1>5, <1>10, TempShows DEF s2
<1>13. Only(e, e2, {Local("s"), Local("c")})
  BY <1>11, <1>12, OnlyThen
<1>14. /\ Only(e2, g, AdderScratch \union {z, c1})
       /\ g.on[z] \in Bit
       /\ g.on[c1] \in Bit
       /\ e2.on[x] \in Bit /\ e2.on[y] \in Bit /\ e2.on[c0] \in Bit =>
            /\ g.on[z] + 2 * g.on[c1] <= e2.on[x] + e2.on[y] + e2.on[c0]
            /\ g.functional => g.on[z] + 2 * g.on[c1] = e2.on[x] + e2.on[y] + e2.on[c0]
  BY <1>2, <1>3, <1>9, FullAdderShows DEF s3
<1>15. Only(e, g, U)
  <2>1. {Local("s"), Local("c")} \union (AdderScratch \union {z, c1}) \subseteq U
    BY DEF AddBitChanges, z, c1
  <2> QED
    BY <2>1, <1>13, <1>14, OnlyThen
<1>16. e2.on[x] = e.on[x] /\ e2.on[y] = e.on[y] /\ e2.on[c0] = e.on[c0]
  BY <1>2, <1>13 DEF Only
<1> QED
  BY <1>14, <1>15, <1>16 DEF x, y, z, c0, c1

-----------------------------------------------------------------------------
(* The adder. *)

Adds(e, f, a, b, sum, n) ==
  LET shown == Amount(BitsOn(f, sum), n) + Weight[n] * f.on[Carry(n)]
      due   == Amount(BitsOn(e, a), n) + Amount(BitsOn(e, b), n) + e.on[Carry(0)]
  IN /\ f.on[Carry(n)] \in Bit
     /\ shown <= due
     /\ f.functional => shown = due

(* One bit more.                                                           *)
Grows(w, s, x, y, c0, p, q, c, z, d) ==
  /\ s + w * c <= x + y + c0 /\ z + 2 * d <= p + q + c =>
       (s + w * z) + (2 * w) * d <= (x + w * p) + (y + w * q) + c0
  /\ s + w * c = x + y + c0 /\ z + 2 * d = p + q + c =>
       (s + w * z) + (2 * w) * d = (x + w * p) + (y + w * q) + c0

(* What is shown of the sum, one bit further.                              *)
LEMMA SumGrows ==
  ASSUME NEW w \in Nat, NEW s \in Nat, NEW x \in Nat, NEW y \in Nat, NEW c0 \in Nat,
         NEW p \in Bit, NEW q \in Bit, NEW c \in Bit, NEW z \in Bit, NEW d \in Bit
  PROVE  Grows(w, s, x, y, c0, p, q, c, z, d)
<1>1. \A t \in Bit : w * t = IF t = 1 THEN w ELSE 0
  BY DEF Bit
<1>2. (2 * w) * d = IF d = 1 THEN 2 * w ELSE 0
  BY DEF Bit
<1> DEFINE wz == w * z
           wp == w * p
           wq == w * q
           wc == w * c
           wd == (2 * w) * d
<1>3. /\ wz = (IF z = 1 THEN w ELSE 0) /\ wp = (IF p = 1 THEN w ELSE 0)
      /\ wq = (IF q = 1 THEN w ELSE 0) /\ wc = (IF c = 1 THEN w ELSE 0)
      /\ wd = (IF d = 1 THEN 2 * w ELSE 0)
  BY <1>1, <1>2
<1> HIDE DEF wz, wp, wq, wc, wd
<1>4. z \in {0, 1} /\ d \in {0, 1} /\ p \in {0, 1} /\ q \in {0, 1} /\ c \in {0, 1}
  BY DEF Bit
<1>5. s + wc <= x + y + c0 /\ z + 2 * d <= p + q + c =>
        (s + wz) + wd <= (x + wp) + (y + wq) + c0
  BY <1>3, <1>4
<1>6. s + wc = x + y + c0 /\ z + 2 * d = p + q + c =>
        (s + wz) + wd = (x + wp) + (y + wq) + c0
  BY <1>3, <1>4
<1> QED
  BY <1>5, <1>6 DEF Grows, wz, wp, wq, wc, wd

(* What adder and turn leave alone.                                        *)
LEMMA AddBitKeeps ==
  ASSUME NEW sum \in Numbers \ AdderNumbers, NEW k \in Nat \ {0}
  PROVE  /\ AddBitChanges(sum, k) \subseteq OfNumbers(AdderNumbers \union {sum})
         /\ \A i \in Nat : i # k => Bits(sum, i) \in Variable \ AddBitChanges(sum, k)
         /\ \A i \in Nat : i # k => Carry(i) \in Variable \ AddBitChanges(sum, k)
         /\ \A number \in Numbers \ (AdderNumbers \union {sum}), i \in Nat :
              Bits(number, i) \in Variable \ OfNumbers(AdderNumbers \union {sum})
<1> DEFINE own == AdderScratch \union {Local("s"), Local("c")}
           carry == Number("carry")
           N == AdderNumbers \union {sum}
<1>1. k \in Nat /\ carry \in Numbers /\ carry \in AdderNumbers /\ sum # carry /\ AdderNumbers \subseteq Numbers
  BY AdderVariables DEF AdderNumbers
<1>2. AddBitChanges(sum, k) = own \union {Bits(sum, k), Bits(carry, k)}
  BY <1>1, BitsDiffer DEF AddBitChanges
<1>3. own \subseteq OfNumbers(N)
  <2>1. \A x \in own : \E number \in AdderNumbers : x = Bits(number, 0)
    BY AdderVariables
  <2>2. \A number \in AdderNumbers : Bits(number, 0) \in OfNumbers(N)
    BY <1>1, BitsDiffer
  <2> QED
    BY <2>1, <2>2
<1>4. \A i \in Nat : Bits(sum, i) \in Variable \ own /\ Bits(carry, i) \in Variable \ own
  BY <1>1, AdderVariables, BitsDiffer
<1> HIDE DEF own, carry
<1>5. Bits(sum, k) \in OfNumbers(N) /\ Bits(carry, k) \in OfNumbers(N)
  BY <1>1, BitsDiffer
<1>6. ASSUME NEW i \in Nat, i # k
      PROVE  Bits(sum, i) \in Variable \ AddBitChanges(sum, k)
  <2>1. Bits(sum, i) # Bits(sum, k) /\ Bits(sum, i) # Bits(carry, k)
    BY <1>1, <1>6, BitsDiffer
  <2> QED
    BY <2>1, <1>2, <1>4
<1>7. ASSUME NEW i \in Nat, i # k
      PROVE  Carry(i) \in Variable \ AddBitChanges(sum, k)
  <2>1. Bits(carry, i) # Bits(sum, k) /\ Bits(carry, i) # Bits(carry, k)
    BY <1>1, <1>7, BitsDiffer
  <2>2. Carry(i) = Bits(carry, i)
    BY BitsDiffer DEF carry
  <2> QED
    BY <2>1, <2>2, <1>2, <1>4
<1>8. ASSUME NEW number \in Numbers \ N, NEW i \in Nat
      PROVE  Bits(number, i) \in Variable \ OfNumbers(N)
  BY BitsDiffer, VariableTypes
<1> HIDE DEF N
<1> QED
  BY <1>2, <1>3, <1>5, <1>6, <1>7, <1>8 DEF N

(* After k of its turns, where w bits of a and b are known.                *)
AddedTo(e, a, b, sum, w, k) ==
  { f \in View :
      /\ Only(e, f, OfNumbers(AdderNumbers \union {sum}))
      /\ \A i \in 1 .. k : f.on[Bits(sum, i)] \in Bit
      /\ \A n \in 0 .. k : n <= w => Adds(e, f, a, b, sum, n) }

LEMMA AddTurns ==
  ASSUME NEW a \in Numbers \ AdderNumbers, NEW b \in Numbers \ AdderNumbers,
         NEW sum \in Numbers \ AdderNumbers, sum # a, sum # b, NEW w \in Nat, NEW k \in Nat \ {0},
         NEW e, e.on[Carry(0)] \in Bit,
         \A i \in 1 .. w : e.on[Bits(a, i)] \in Bit /\ e.on[Bits(b, i)] \in Bit,
         NEW u \in AddedTo(e, a, b, sum, w, k - 1), NEW v, Reaches(AddBit(a, b, sum, k), u, v)
  PROVE  v \in AddedTo(e, a, b, sum, w, k)
<1> DEFINE U == OfNumbers(AdderNumbers \union {sum})
<1>1. /\ Only(e, u, U)
      /\ \A i \in 1 .. k - 1 : u.on[Bits(sum, i)] \in Bit
      /\ \A n \in 0 .. k - 1 : n <= w => Adds(e, u, a, b, sum, n)
  BY DEF AddedTo
<1>2. /\ Only(u, v, AddBitChanges(sum, k))
      /\ v.on[Bits(sum, k)] \in Bit
      /\ v.on[Carry(k)] \in Bit
  BY AddBitShows
<1>3. Only(e, v, U)
  <2>1. AddBitChanges(sum, k) \subseteq U
    BY AddBitKeeps
  <2> QED
    BY <1>1, <1>2, <2>1, OnlyThen
<1>4. /\ v.functional => u.functional
      /\ v \in View
      /\ \A x \in Variable \ AddBitChanges(sum, k) : v.on[x] = u.on[x]
  BY <1>2 DEF Only
<1>5. \A i \in Nat : i # k => v.on[Bits(sum, i)] = u.on[Bits(sum, i)] /\ v.on[Carry(i)] = u.on[Carry(i)]
  BY <1>4, AddBitKeeps
<1>6. \A i \in 1 .. k : v.on[Bits(sum, i)] \in Bit
  <2>1. \A i \in 1 .. k : i = k \/ (i \in 1 .. k - 1 /\ i \in Nat /\ i # k)
    OBVIOUS
  <2> QED
    BY <1>1, <1>2, <1>5, <2>1
<1>7. ASSUME NEW n \in 0 .. k - 1, n <= w
      PROVE  Adds(e, v, a, b, sum, n)
  <2>1. \A i \in 1 .. n : BitsOn(v, sum)[i] = BitsOn(u, sum)[i]
    <3>1. \A i \in 1 .. n : i \in Nat /\ i # k
      BY <1>7
    <3> QED
      BY <3>1, <1>5 DEF BitsOn
  <2>2. n \in Nat /\ n # k
    OBVIOUS
  <2>3. Amount(BitsOn(v, sum), n) = Amount(BitsOn(u, sum), n)
    BY <2>1, <2>2, AmountSame
  <2>4. v.on[Carry(n)] = u.on[Carry(n)]
    BY <2>2, <1>5
  <2>5. Adds(e, u, a, b, sum, n)
    BY <1>1, <1>7
  <2> QED
    BY <2>3, <2>4, <2>5, <1>4 DEF Adds
<1>8. ASSUME k <= w
      PROVE  Adds(e, v, a, b, sum, k)
  <2> DEFINE n == k - 1
             W == Weight[n]
             s == Amount(BitsOn(u, sum), n)
             x == Amount(BitsOn(e, a), n)
             y == Amount(BitsOn(e, b), n)
             c0 == e.on[Carry(0)]
             p == e.on[Bits(a, k)]
             q == e.on[Bits(b, k)]
             c == u.on[Carry(n)]
             z == v.on[Bits(sum, k)]
             d == v.on[Carry(k)]
  <2>1. n \in Nat /\ n + 1 = k /\ n <= w /\ n \in 0 .. k - 1 /\ k \in 1 .. w /\ k \in Nat
    BY <1>8
  <2>2. p \in Bit /\ q \in Bit
    BY <2>1
  <2>3. u.on[Bits(a, k)] = p /\ u.on[Bits(b, k)] = q
    <3>1. a \in Numbers \ (AdderNumbers \union {sum}) /\ b \in Numbers \ (AdderNumbers \union {sum})
      OBVIOUS
    <3>2. Bits(a, k) \in Variable \ U /\ Bits(b, k) \in Variable \ U
      BY <3>1, <2>1, AddBitKeeps
    <3> QED
      BY <3>2, <1>1 DEF Only
  <2>4. Adds(e, u, a, b, sum, n)
    BY <2>1, <1>1
  <2>5. /\ c \in Bit
        /\ s + W * c <= x + y + c0
        /\ u.functional => s + W * c = x + y + c0
    BY <2>4 DEF Adds
  <2>6. /\ z \in Bit /\ d \in Bit
        /\ z + 2 * d <= p + q + c
        /\ v.functional => z + 2 * d = p + q + c
    BY <1>2, <2>2, <2>3, <2>5, AddBitShows
  <2>7. /\ \A i \in 1 .. n : u.on[Bits(sum, i)] = v.on[Bits(sum, i)]
        /\ \A i \in 1 .. k : i \in Nat /\ i \in 1 .. w
        /\ \A i \in 1 .. n : i \in Nat /\ i \in 1 .. w
    <3>1. \A i \in 1 .. n : i \in Nat /\ i # k /\ i \in 1 .. w
      BY <2>1
    <3>2. \A i \in 1 .. k : i \in Nat /\ i \in 1 .. w
      BY <1>8
    <3> QED
      BY <3>1, <3>2, <1>5
  <2>8. /\ \A i \in 1 .. k : /\ BitsOn(v, sum)[i] \in Nat
                             /\ BitsOn(e, a)[i] \in Nat
                             /\ BitsOn(e, b)[i] \in Nat
        /\ \A i \in 1 .. n : /\ BitsOn(v, sum)[i] \in Nat
                             /\ BitsOn(e, a)[i] \in Nat
                             /\ BitsOn(e, b)[i] \in Nat
    <3>1. Bit \subseteq Nat
      BY DEF Bit
    <3>2. \A i \in 1 .. n : i \in 1 .. k
      BY <2>1
    <3>3. \A i \in 1 .. k : /\ BitsOn(v, sum)[i] \in Nat
                            /\ BitsOn(e, a)[i] \in Nat
                            /\ BitsOn(e, b)[i] \in Nat
      BY <3>1, <2>7, <1>6 DEF BitsOn
    <3> QED
      BY <3>2, <3>3
  <2>9. Amount(BitsOn(v, sum), n) = s
    BY <2>1, <2>7, AmountSame DEF BitsOn
  <2>10. s \in Nat /\ x \in Nat /\ y \in Nat /\ W \in Nat /\ Weight[k] = 2 * W
    BY <2>1, <2>8, <2>9, AmountType, WeightPositive, Weights
  <2>11. /\ Amount(BitsOn(v, sum), k) = s + W * z
         /\ Amount(BitsOn(e, a), k) = x + W * p
         /\ Amount(BitsOn(e, b), k) = y + W * q
    <3>1. BitsOn(v, sum)[k] = z /\ BitsOn(e, a)[k] = p /\ BitsOn(e, b)[k] = q
      BY <2>1 DEF BitsOn
    <3>2. /\ Amount(BitsOn(v, sum), n + 1) = Amount(BitsOn(v, sum), n) + W * BitsOn(v, sum)[n + 1]
          /\ Amount(BitsOn(e, a), n + 1) = x + W * BitsOn(e, a)[n + 1]
          /\ Amount(BitsOn(e, b), n + 1) = y + W * BitsOn(e, b)[n + 1]
      BY <2>1, <2>8, AmountStep
    <3> QED
      BY <3>1, <3>2, <2>1, <2>9
  <2>12. c0 \in Nat
    BY DEF Bit
  <2> HIDE DEF n, W, s, x, y, c0, p, q, c, z, d
  <2>13. Grows(W, s, x, y, c0, p, q, c, z, d)
    BY <2>2, <2>5, <2>6, <2>10, <2>12, SumGrows
  <2>14. (s + W * z) + (2 * W) * d <= (x + W * p) + (y + W * q) + c0
    BY <2>5, <2>6, <2>13 DEF Grows
  <2>15. v.functional => (s + W * z) + (2 * W) * d = (x + W * p) + (y + W * q) + c0
    BY <2>5, <2>6, <2>13, <1>4 DEF Grows
  <2> QED
    BY <2>6, <2>10, <2>11, <2>14, <2>15 DEF Adds, d, c0
<1>9. \A n \in 0 .. k : n <= w => Adds(e, v, a, b, sum, n)
  <2>1. \A n \in 0 .. k : n = k \/ n \in 0 .. k - 1
    OBVIOUS
  <2> QED
    BY <1>7, <1>8, <2>1
<1> QED
  BY <1>3, <1>4, <1>6, <1>9 DEF AddedTo

(* Where w bits of a and b are known the adder shows their sum, or less.   *)
LEMMA AddShows ==
  ASSUME NEW a \in Numbers \ AdderNumbers, NEW b \in Numbers \ AdderNumbers,
         NEW sum \in Numbers \ AdderNumbers, sum # a, sum # b, NEW bits \in Nat, NEW w \in 0 .. bits,
         NEW e, e.on[Carry(0)] \in Bit,
         \A i \in 1 .. w : e.on[Bits(a, i)] \in Bit /\ e.on[Bits(b, i)] \in Bit,
         NEW g, Reaches(add(a, b, sum, bits), e, g)
  PROVE  /\ Only(e, g, OfNumbers(AdderNumbers \union {sum}))
         /\ \A i \in 1 .. bits : g.on[Bits(sum, i)] \in Bit
         /\ Adds(e, g, a, b, sum, w)
<1> DEFINE ss == [k \in 1 .. bits |-> AddBit(a, b, sum, k)]
           J == [k \in 0 .. bits |-> AddedTo(e, a, b, sum, w, k)]
<1>1. add(a, b, sum, bits) = FlattenSeq(ss)
  BY AddIsBits
<1>2. Len(ss) = bits /\ (bits = 0 => ss = << >>)
  OBVIOUS
<1>3. ASSUME NEW k \in 1 .. bits
      PROVE  ss[k] \in Seq(Call)
  <2>1. /\ Bits(a, k) \in Variable /\ Bits(b, k) \in Variable /\ Bits(sum, k) \in Variable
        /\ Carry(k - 1) \in Variable /\ Carry(k) \in Variable \ Stacked
        /\ Local("s") \in Variable /\ Local("c") \in Variable
    <3>1. k \in Nat /\ k - 1 \in Nat
      OBVIOUS
    <3> QED
      BY <3>1, VariableTypes, StackedAre DEF Names
  <2>2. temp(Local("s")) \in Seq(Call) /\ temp(Local("c")) \in Seq(Call)
    BY <2>1, SinglesTyped
  <2>3. fullAdder(Bits(a, k), Bits(b, k), Carry(k - 1), Bits(sum, k), Carry(k)) \in Seq(Call)
    <3>1. Runs(Variable, fullAdder(Bits(a, k), Bits(b, k), Carry(k - 1), Bits(sum, k), Carry(k)),
               Variable \union {Bits(sum, k), Carry(k)})
      BY <2>1, RunsFullAdder, VariableTypes
    <3> QED
      BY <3>1 DEF Runs
  <2>4. AddBit(a, b, sum, k) \in Seq(Call)
    BY <2>2, <2>3, Joined DEF AddBit
  <2> QED
    BY <2>4
<1>4. e \in AddedTo(e, a, b, sum, w, 0)
  <2>1. FlattenSeq(ss) \in Seq(Call)
    <3>1. /\ BitsOf(a, bits) \subseteq Variable /\ BitsOf(b, bits) \subseteq Variable
          /\ Carry(0) \in Variable /\ Null \in Variable
      BY VariableTypes DEF BitsOf
    <3>2. Runs(Variable, add(a, b, sum, bits), Variable \union BitsOf(sum, bits) \union { Carry(i) : i \in 0 .. bits })
      BY <3>1, RunsAdd
    <3> QED
      BY <3>2, <1>1 DEF Runs
  <2>2. e \in View
    BY <2>1, <1>1, ReachesViews
  <2>3. Adds(e, e, a, b, sum, 0)
    <3>1. e.on[Carry(0)] \in Nat
      BY DEF Bit
    <3>2. Weight[0] * e.on[Carry(0)] = e.on[Carry(0)]
      BY <3>1, Weights
    <3> QED
      BY <3>1, <3>2, AmountNone DEF Adds
  <2>4. \A n \in 0 .. 0 : n = 0
    OBVIOUS
  <2>5. \A i \in 1 .. 0 : FALSE
    OBVIOUS
  <2> QED
    BY <2>2, <2>3, <2>4, <2>5 DEF AddedTo, Only
<1>5. ASSUME NEW k \in 1 .. bits, NEW u \in J[k - 1], NEW v, Reaches(ss[k], u, v)
      PROVE  v \in J[k]
  <2>1. k \in Nat \ {0} /\ k - 1 \in 0 .. bits /\ k \in 0 .. bits /\ w \in Nat
    OBVIOUS
  <2>2. u \in AddedTo(e, a, b, sum, w, k - 1) /\ J[k] = AddedTo(e, a, b, sum, w, k)
    BY <2>1
  <2>3. Reaches(AddBit(a, b, sum, k), u, v)
    BY <1>5
  <2> HIDE DEF J, ss
  <2>4. v \in AddedTo(e, a, b, sum, w, k)
    BY <2>1, <2>2, <2>3, AddTurns
  <2> QED
    BY <2>2, <2>4
<1>6. J[0] = AddedTo(e, a, b, sum, w, 0) /\ J[bits] = AddedTo(e, a, b, sum, w, bits)
  OBVIOUS
<1> HIDE DEF J, ss
<1>7. g \in AddedTo(e, a, b, sum, w, bits)
  <2>1. Reaches(FlattenSeq(ss), e, g) /\ e \in J[0]
    BY <1>1, <1>4, <1>6
  <2>2. g \in J[bits]
    BY <1>2, <1>3, <1>5, <2>1, ReachesLoop
  <2> QED
    BY <2>2, <1>6
<1> QED
  BY <1>7 DEF AddedTo

(* Turns that set a variable each, next to scratch: V is what each shows,  *)
(* W what it shows where all OR gates show their disjunctions.             *)
TurnsSet(n, ss, S, x, V, W, e) ==
  \A k \in 1 .. n : \A u, v :
    Only(e, u, S \union { x[j] : j \in 1 .. n }) /\ Reaches(ss[k], u, v) =>
      /\ Only(u, v, S \union {x[k]})
      /\ v.on[x[k]] \in V[k]
      /\ v.functional => v.on[x[k]] \in W[k]

AllSet(n, S, x, V, W, e, f) ==
  /\ Only(e, f, S \union { x[j] : j \in 1 .. n })
  /\ \A k \in 1 .. n : f.on[x[k]] \in V[k] /\ (f.functional => f.on[x[k]] \in W[k])

(* A loop that decides one variable in each turn.                          *)
LEMMA EachShows ==
  ASSUME NEW n \in Nat, NEW ss, Len(ss) = n, n = 0 => ss = << >>, \A k \in 1 .. n : ss[k] \in Seq(Call),
         NEW S, NEW x, \A k \in 1 .. n : x[k] \in Variable \ S,
         \A j, k \in 1 .. n : x[j] = x[k] => j = k,
         NEW V, NEW W, NEW e \in View, NEW f, Reaches(FlattenSeq(ss), e, f),
         TurnsSet(n, ss, S, x, V, W, e)
  PROVE  AllSet(n, S, x, V, W, e, f)
<1> DEFINE U == S \union { x[j] : j \in 1 .. n }
           After(k) == { g \in View :
                           /\ Only(e, g, U)
                           /\ \A j \in 1 .. k : g.on[x[j]] \in V[j] /\ (g.functional => g.on[x[j]] \in W[j]) }
           J == [k \in 0 .. n |-> After(k)]
<1>1. e \in After(0)
  <2>1. \A j \in 1 .. 0 : FALSE
    OBVIOUS
  <2>2. Only(e, e, U)
    BY DEF Only
  <2> HIDE DEF U
  <2> QED
    BY <2>1, <2>2
<1>2. ASSUME NEW k \in 1 .. n, NEW u \in After(k - 1), NEW v, Reaches(ss[k], u, v)
      PROVE  v \in After(k)
  <2>1. /\ Only(e, u, U)
        /\ \A j \in 1 .. k - 1 : u.on[x[j]] \in V[j] /\ (u.functional => u.on[x[j]] \in W[j])
    OBVIOUS
  <2>2. /\ Only(u, v, S \union {x[k]})
        /\ v.on[x[k]] \in V[k]
        /\ v.functional => v.on[x[k]] \in W[k]
    BY <2>1, <1>2 DEF TurnsSet
  <2>3. Only(e, v, U)
    <3>1. S \union {x[k]} \subseteq U
      OBVIOUS
    <3> HIDE DEF U
    <3> QED
      BY <3>1, <2>1, <2>2, OnlyThen
  <2>4. v \in View /\ (v.functional => u.functional)
    BY <2>2 DEF Only
  <2>5. ASSUME NEW j \in 1 .. k
        PROVE  v.on[x[j]] \in V[j] /\ (v.functional => v.on[x[j]] \in W[j])
    <3>1. CASE j = k
      BY <3>1, <2>2
    <3>2. CASE j # k
      <4>1. j \in 1 .. k - 1 /\ j \in 1 .. n
        BY <3>2
      <4>2. x[j] \in Variable \ (S \union {x[k]})
        BY <4>1, <3>2
      <4>3. v.on[x[j]] = u.on[x[j]]
        BY <4>2, <2>2 DEF Only
      <4> QED
        BY <4>1, <4>3, <2>1, <2>4
    <3> QED
      BY <3>1, <3>2
  <2> HIDE DEF U
  <2> QED
    BY <2>3, <2>4, <2>5
<1>3. J[0] = After(0) /\ J[n] = After(n) /\ \A k \in 1 .. n : J[k - 1] = After(k - 1) /\ J[k] = After(k)
  OBVIOUS
<1> HIDE DEF J, After
<1>4. f \in J[n]
  <2>1. e \in J[0]
    BY <1>1, <1>3
  <2>2. ASSUME NEW k \in 1 .. n, NEW u, NEW v, u \in J[k - 1], Reaches(ss[k], u, v)
        PROVE  v \in J[k]
    BY <2>2, <1>2, <1>3
  <2>3. \A k \in 1 .. n : \A u, v : u \in J[k - 1] /\ Reaches(ss[k], u, v) => v \in J[k]
    BY <2>2
  <2> QED
    BY <2>1, <2>3, ReachesLoop
<1> QED
  BY <1>3, <1>4 DEF After, AllSet

-----------------------------------------------------------------------------
(* Loops of calls. *)

LEMMA LoopTyped ==
  ASSUME NEW n \in Nat, NEW ss, Len(ss) = n, n = 0 => ss = << >>, \A k \in 1 .. n : ss[k] \in Seq(Call)
  PROVE  FlattenSeq(ss) \in Seq(Call)
<1>1. CASE n = 0
  <2>1. FlattenSeq(ss) = << >>
    BY <1>1 DEF FlattenSeq
  <2> QED
    BY <2>1
<1>2. CASE n # 0
  <2> DEFINE g == FlatOf(ss)
             T == { k \in 0 .. n : k = 0 \/ g[k] \in Seq(Call) }
  <2>1. /\ FlattenSeq(ss) = g[n]
        /\ g[1] = ss[1]
        /\ \A i \in 1 .. n - 1 : g[i + 1] = g[i] \o ss[i + 1]
    BY <1>2, FlatSteps
  <2> HIDE DEF g
  <2>2. 0 \in T
    OBVIOUS
  <2>3. ASSUME NEW k \in T, k < n
        PROVE  k + 1 \in T
    <3>1. ss[k + 1] \in Seq(Call) /\ k + 1 \in 0 .. n
      BY <2>3
    <3>2. g[k + 1] \in Seq(Call)
      <4>1. CASE k = 0
        BY <4>1, <3>1, <2>1
      <4>2. CASE k # 0
        <5>1. k \in 1 .. n - 1 /\ g[k] \in Seq(Call)
          BY <4>2, <2>3
        <5>2. g[k + 1] = g[k] \o ss[k + 1]
          BY <5>1, <2>1
        <5> QED
          BY <5>1, <5>2, <3>1, Joined
      <4> QED
        BY <4>1, <4>2
    <3> QED
      BY <3>1, <3>2
  <2>4. T \subseteq 0 .. n
    OBVIOUS
  <2> HIDE DEF T
  <2>5. n \in T
    <3>1. T = 0 .. n
      BY <2>2, <2>3, <2>4, AllReached
    <3> QED
      BY <3>1
  <2> QED
    BY <2>5, <2>1, <1>2 DEF T
<1> QED
  BY <1>1, <1>2

-----------------------------------------------------------------------------
(* A choice by two selectors of which the second is 0.                     *)

ChoiceNumbers == {Number("t1"), Number("t2"), Number("not_cmp"), Out}

(* One bit of a choice: the first alternative, if anything.                *)
LEMMA ChooseShows ==
  ASSUME NEW sel \in Variable \ {Local("t1"), Local("t2")},
         NEW not_sel \in Variable \ {Local("t1"), Local("t2")},
         NEW x \in Numbers, NEW y \in Numbers, x \notin ChoiceNumbers, NEW i \in Nat,
         NEW e, NEW g, e.on[not_sel] = 0, Reaches(choose(sel, not_sel, x, y, i), e, g)
  PROVE  /\ Only(e, g, {Local("t1"), Local("t2"), Bits(Out, i)})
         /\ g.on[Bits(Out, i)] \in Bit
         /\ e.on[sel] = 0 => g.on[Bits(Out, i)] = 0
         /\ e.on[sel] \in Bit /\ e.on[Bits(x, i)] \in Bit =>
              /\ g.on[Bits(Out, i)] <= e.on[sel] * e.on[Bits(x, i)]
              /\ g.functional => g.on[Bits(Out, i)] = e.on[sel] * e.on[Bits(x, i)]
<1> DEFINE t1 == Local("t1")
           t2 == Local("t2")
           xi == Bits(x, i)
           yi == Bits(y, i)
           oi == Bits(Out, i)
           s1 == andGate(sel, xi, t1)
           s2 == andGate(not_sel, yi, t2)
           s3 == orGate(t1, t2, oi)
           U  == {t1, t2, oi}
<1>1. t1 \in Variable /\ t2 \in Variable /\ xi \in Variable /\ yi \in Variable /\ oi \in Variable
  BY VariableTypes DEF Names, Out
<1>2. t1 # t2
  BY DEF Local
<1>3. choose(sel, not_sel, x, y, i) = s1 \o s2 \o s3
  BY DEF choose
<1> HIDE DEF t1, t2, xi, yi, oi
<1>4. s1 \in Seq(Call) /\ s2 \in Seq(Call) /\ s3 \in Seq(Call)
  BY <1>1, SinglesTyped
<1> HIDE DEF s1, s2, s3
<1>5. s1 \o s2 \in Seq(Call)
  BY <1>4, Joined
<1>6. PICK e2 : Reaches(s1 \o s2, e, e2) /\ Reaches(s3, e2, g)
  BY <1>3, <1>4, <1>5, ReachesThen
<1>7. PICK e1 : Reaches(s1, e, e1) /\ Reaches(s2, e1, e2)
  BY <1>4, <1>6, ReachesThen
<1>8. /\ Only(e, e1, {t1}) /\ e1.on[t1] \in Bit
      /\ e.on[sel] = 0 => e1.on[t1] = 0
      /\ e.on[sel] \in Bit /\ e.on[xi] \in Bit => (e1.on[t1] = 1 <=> e.on[sel] = 1 /\ e.on[xi] = 1)
  BY <1>1, <1>7, AndShows DEF s1
<1>9. Only(e1, e2, {t2}) /\ (e1.on[not_sel] = 0 => e2.on[t2] = 0)
  BY <1>1, <1>7, AndShows DEF s2
<1>10. /\ Only(e2, g, {oi}) /\ g.on[oi] \in Bit
       /\ e2.on[t1] \in Bit /\ e2.on[t2] \in Bit /\ g.on[oi] = 1 => e2.on[t1] = 1 \/ e2.on[t2] = 1
       /\ g.functional => (g.on[oi] = 1 <=> e2.on[t1] = 1 \/ e2.on[t2] = 1)
  BY <1>1, <1>6, OrShows DEF s3
<1>11. e1.on[not_sel] = 0 /\ e2.on[t1] = e1.on[t1]
  BY <1>1, <1>2, <1>8, <1>9 DEF Only, t1
<1>12. e2.on[t2] = 0
  BY <1>9, <1>11
<1>13. Only(e, g, U)
  <2>1. Only(e, e2, U)
    BY <1>8, <1>9, OnlyThen
  <2> QED
    BY <2>1, <1>10, OnlyThen
<1>14. /\ g.on[oi] = 1 => e1.on[t1] = 1
       /\ g.functional => (g.on[oi] = 1 <=> e1.on[t1] = 1)
  BY <1>8, <1>10, <1>11, <1>12 DEF Bit
<1>15. e.on[sel] = 0 => g.on[oi] = 0
  BY <1>8, <1>10, <1>14 DEF Bit
<1>16. ASSUME e.on[sel] \in Bit, e.on[xi] \in Bit
       PROVE  /\ g.on[oi] <= e.on[sel] * e.on[xi]
              /\ g.functional => g.on[oi] = e.on[sel] * e.on[xi]
  <2>1. g.on[oi] \in {0, 1} /\ e.on[sel] \in {0, 1} /\ e.on[xi] \in {0, 1} /\ e1.on[t1] \in {0, 1}
    BY <1>8, <1>10, <1>16 DEF Bit
  <2>2. e.on[sel] * e.on[xi] = IF e.on[sel] = 1 /\ e.on[xi] = 1 THEN 1 ELSE 0
    BY <2>1
  <2>3. e1.on[t1] = 1 <=> e.on[sel] = 1 /\ e.on[xi] = 1
    BY <1>8, <1>16
  <2> QED
    BY <2>1, <2>2, <2>3, <1>14
<1> QED
  BY <1>10, <1>13, <1>15, <1>16 DEF t1, t2, xi, oi

LEMMA ChoiceVariables ==
  /\ \A name \in {"t1", "t2", "not_cmp", "not_sel"} : Local(name) \in Variable
  /\ \A i \in Nat : Bits(Out, i) \in Variable \ {Local("t1"), Local("t2"), Local("not_cmp"), Local("not_sel")}
  /\ \A i, j \in Nat : Bits(Out, i) = Bits(Out, j) => i = j
  /\ Compared \in Variable \ {Local("t1"), Local("t2"), Local("not_cmp")}
  /\ \A i \in Nat : Compared # Bits(Out, i)
<1>1. \A name \in {"t1", "t2", "not_cmp", "not_sel"} : Local(name) \in Variable
  BY VariableTypes DEF Names
<1>2. Out \in Numbers /\ \A name \in {"t1", "t2", "not_cmp", "not_sel"} : Out # Number(name)
  BY VariableTypes DEF Out, Number, Names
<1>3. ASSUME NEW i \in Nat
      PROVE  Bits(Out, i) \in Variable \ {Local("t1"), Local("t2"), Local("not_cmp"), Local("not_sel")}
  <2>1. Bits(Out, i) \in Variable
    BY <1>2, VariableTypes
  <2>2. ASSUME NEW name \in {"t1", "t2", "not_cmp", "not_sel"}
        PROVE  Bits(Out, i) # Local(name)
    BY DEF Bits, Out, Number, Local
  <2> QED
    BY <2>1, <2>2
<1>4. \A i, j \in Nat : Bits(Out, i) = Bits(Out, j) => i = j
  BY <1>2, BitsDiffer
<1>5. Compared \in Variable /\ Compared \notin {Local("t1"), Local("t2"), Local("not_cmp")}
  BY DEF Compared, Local, Variable, Names
<1>6. \A i \in Nat : Compared # Bits(Out, i)
  BY DEF Compared, Bits, Out, Number
<1> QED
  BY <1>1, <1>3, <1>4, <1>5, <1>6

-----------------------------------------------------------------------------
(* The parts of the builders. *)

LEMMA PartsTyped ==
  ASSUME NEW a \in Numbers, NEW b \in Numbers, NEW c \in Numbers, NEW bits \in Nat
  PROVE  /\ add(a, b, c, bits) \in Seq(Call)
         /\ sub(a, b, c, bits) \in Seq(Call)
         /\ bits # 0 => cmpLT(a, b, bits) \in Seq(Call)
         /\ chooseCompared(a, b, bits) \in Seq(Call)
<1>1. /\ Null \in Variable /\ Carry(0) \in Variable /\ Compared \in Variable
      /\ BitsOf(a, bits) \subseteq Variable /\ BitsOf(b, bits) \subseteq Variable
  <2>1. Null \in Variable /\ Carry(0) \in Variable
    BY VariableTypes
  <2>2. Compared \in Variable
    BY ChoiceVariables
  <2>3. BitsOf(a, bits) \subseteq Variable /\ BitsOf(b, bits) \subseteq Variable
    BY VariableTypes DEF BitsOf
  <2> QED
    BY <2>1, <2>2, <2>3
<1>2. Runs(Variable, add(a, b, c, bits), Variable \union BitsOf(c, bits) \union { Carry(i) : i \in 0 .. bits })
  BY <1>1, RunsAdd
<1>3. Runs(Variable, sub(a, b, c, bits), Variable \union BitsOf(c, bits))
  BY <1>1, RunsSub
<1>4. bits # 0 => Runs(Variable, cmpLT(a, b, bits), Variable \union {Compared})
  BY <1>1, RunsCompare
<1>5. Runs(Variable, chooseCompared(a, b, bits), Variable \union BitsOf(Out, bits))
  BY <1>1, RunsChooseCompared
<1> QED
  BY <1>2, <1>3, <1>4, <1>5 DEF Runs

(* The sum, where a's and b's bits are known.                              *)
SumsUp(e, g, a, b, sum, n) ==
  LET shown == Amount(BitsOn(g, sum), n) + Weight[n] * g.on[Carry(n)]
      due   == Amount(BitsOn(e, a), n) + Amount(BitsOn(e, b), n)
  IN /\ g.on[Carry(n)] \in Bit
     /\ shown <= due
     /\ g.functional => shown = due

(* From a cleared carry the adder never shows more than the sum, and shows *)
(* the sum where OR gates show their disjunctions.                         *)
LEMMA ClearSumShows ==
  ASSUME NEW a \in Numbers \ AdderNumbers, NEW b \in Numbers \ AdderNumbers,
         NEW sum \in Numbers \ AdderNumbers, sum # a, sum # b, NEW bits \in Nat, NEW w \in 0 .. bits,
         NEW e, \A i \in 1 .. w : e.on[Bits(a, i)] \in Bit /\ e.on[Bits(b, i)] \in Bit,
         NEW e1, Reaches(constPin(0, Carry(0)), e, e1), NEW g, Reaches(add(a, b, sum, bits), e1, g)
  PROVE  /\ Only(e, g, OfNumbers(AdderNumbers \union {sum}))
         /\ \A i \in 1 .. bits : g.on[Bits(sum, i)] \in Bit
         /\ SumsUp(e, g, a, b, sum, w)
<1> DEFINE U == OfNumbers(AdderNumbers \union {sum})
<1>1. Carry(0) \in Variable /\ 0 \in Bit /\ 1 \in Bit /\ w \in Nat
  BY VariableTypes DEF Bit
<1>3. Carry(0) \in U
  <2>1. Number("carry") \in Numbers /\ Number("carry") \in AdderNumbers \union {sum}
    BY AdderVariables DEF AdderNumbers
  <2> QED
    BY <2>1, BitsDiffer
<1>4. \A i \in 1 .. w : Bits(a, i) \in Variable \ {Carry(0)} /\ Bits(b, i) \in Variable \ {Carry(0)}
  <2>1. \A i \in 1 .. w : i \in Nat
    OBVIOUS
  <2>2. \A number \in Numbers \ (AdderNumbers \union {sum}), i \in Nat : Bits(number, i) \in Variable \ U
    BY BitsDiffer, VariableTypes
  <2> QED
    BY <2>1, <2>2, <1>3
<1> HIDE DEF U
<1>6. Only(e, e1, {Carry(0)}) /\ e1.on[Carry(0)] = 0
  BY <1>1, ConstantShows
<1>7. \A i \in 1 .. w : e1.on[Bits(a, i)] = e.on[Bits(a, i)] /\ e1.on[Bits(b, i)] = e.on[Bits(b, i)]
  BY <1>4, <1>6 DEF Only
<1>8. \A i \in 1 .. w : e1.on[Bits(a, i)] \in Bit /\ e1.on[Bits(b, i)] \in Bit
  BY <1>7
<1>9. /\ Only(e1, g, OfNumbers(AdderNumbers \union {sum}))
      /\ \A i \in 1 .. bits : g.on[Bits(sum, i)] \in Bit
      /\ Adds(e1, g, a, b, sum, w)
  <2>1. Reaches(add(a, b, sum, bits), e1, g) /\ e1.on[Carry(0)] \in Bit
    BY <1>1, <1>6
  <2> QED
    BY <2>1, <1>8, AddShows
<1>10. Only(e, g, U)
  BY <1>3, <1>6, <1>9, OnlyThen DEF U
<1>11. Amount(BitsOn(e1, a), w) = Amount(BitsOn(e, a), w) /\ Amount(BitsOn(e1, b), w) = Amount(BitsOn(e, b), w)
  <2>1. \A i \in 1 .. w : BitsOn(e1, a)[i] = BitsOn(e, a)[i] /\ BitsOn(e1, b)[i] = BitsOn(e, b)[i]
    <3>1. \A i \in 1 .. w : i \in Nat
      OBVIOUS
    <3> QED
      BY <3>1, <1>7 DEF BitsOn
  <2> QED
    BY <1>1, <2>1, AmountSame
<1>12. Amount(BitsOn(e, a), w) \in Nat /\ Amount(BitsOn(e, b), w) \in Nat
  <2>1. \A i \in 1 .. w : BitsOn(e, a)[i] \in Nat /\ BitsOn(e, b)[i] \in Nat
    <3>1. \A i \in 1 .. w : i \in Nat
      OBVIOUS
    <3>2. Bit \subseteq Nat
      BY DEF Bit
    <3> QED
      BY <3>1, <3>2 DEF BitsOn
  <2> QED
    BY <1>1, <2>1, AmountType
<1>13. SumsUp(e, g, a, b, sum, w)
  <2> DEFINE x == Amount(BitsOn(e, a), w)
             y == Amount(BitsOn(e, b), w)
  <2>1. x + y + 0 = x + y
    BY <1>12
  <2> HIDE DEF x, y
  <2> QED
    BY <2>1, <1>6, <1>9, <1>11 DEF Adds, SumsUp, x, y
<1> QED
  BY <1>9, <1>10, <1>13 DEF U

(* What the builders work on beside the client's numbers.                  *)
LEMMA WorkNumbers ==
  /\ A \in Numbers /\ B \in Numbers /\ M \in Numbers
  /\ \A number \in {A, B, M} : number \notin AdderNumbers /\ number \notin ChoiceNumbers
                                 /\ number # Number("not_sel")
  /\ \A name \in {"sum", "diff"} :
       /\ Number(name) \in Numbers \ AdderNumbers
       /\ Number(name) \notin ChoiceNumbers
       /\ Number(name) \notin {A, B, M, Number("not_b")}
  /\ Number("sum") # Number("diff")
<1>1. A \in Numbers /\ B \in Numbers /\ M \in Numbers
  BY VariableTypes DEF A, B, M, Names
<1>2. \A number \in {A, B, M} : number \notin AdderNumbers /\ number \notin ChoiceNumbers
                                  /\ number # Number("not_sel")
  BY DEF A, B, M, AdderNumbers, ChoiceNumbers, Number, Out
<1>3. \A name \in {"sum", "diff"} : Number(name) \in Numbers
  BY VariableTypes DEF Names
<1>4. \A name \in {"sum", "diff"} :
        Number(name) \notin AdderNumbers /\ Number(name) \notin ChoiceNumbers
          /\ Number(name) \notin {A, B, M, Number("not_b")}
  BY DEF A, B, M, AdderNumbers, ChoiceNumbers, Number, Out
<1>5. Number("sum") # Number("diff")
  BY DEF Number
<1> QED
  BY <1>1, <1>2, <1>3, <1>4, <1>5

LEMMA SummingTyped ==
  ASSUME NEW bits \in Nat
  PROVE  Summing(bits) \in Seq(Call)
<1>1. constPin(0, Carry(0)) \in Seq(Call)
  BY VariableTypes, SinglesTyped DEF Bit
<1>2. add(A, B, Number("sum"), bits) \in Seq(Call)
  BY WorkNumbers, PartsTyped
<1> QED
  BY <1>1, <1>2, Joined DEF Summing

SelectNumbers == {Number("t1"), Number("t2"), Number("not_sel"), Out}

(* A selection, where the selector and the first alternative are known.    *)
Selects(e, g, bits) ==
  \A i \in 1 .. bits :
    /\ g.on[Bits(Out, i)] \in Bit
    /\ g.on[Bits(Out, i)] <= e.on[Bits(M, 1)] * e.on[Bits(A, i)]
    /\ g.functional => g.on[Bits(Out, i)] = e.on[Bits(M, 1)] * e.on[Bits(A, i)]

(* buildSelect hands back its first alternative or less.                   *)
LEMMA SelectShows ==
  ASSUME NEW bits \in Nat \ {0}, NEW e, NEW g, Reaches(buildSelect(bits), e, g),
         e.on[Bits(M, 1)] \in Bit, \A i \in 1 .. bits : e.on[Bits(A, i)] \in Bit
  PROVE  Only(e, g, OfNumbers(SelectNumbers)) /\ Selects(e, g, bits)
<1> DEFINE ss  == [k \in 1 .. bits |-> SelectBit(k)]
           S   == {Local("t1"), Local("t2")}
           out == [k \in 1 .. bits |-> Bits(Out, k)]
           sel == Bits(M, 1)
           ns  == Local("not_sel")
           p   == e.on[sel]
           W   == [k \in 1 .. bits |-> {p * e.on[Bits(A, k)]}]
           V   == [k \in 1 .. bits |-> { v \in Bit : v <= p * e.on[Bits(A, k)] }]
           s1  == notGate(sel, ns)
           s2  == FlattenSeq(ss)
           U   == S \union { out[j] : j \in 1 .. bits }
           N   == OfNumbers(SelectNumbers)
<1>1. buildSelect(bits) = s1 \o s2
  BY SelectIs
<1>2. Len(ss) = bits /\ (bits = 0 => ss = << >>)
  OBVIOUS
<1>3. \A k \in 1 .. bits : /\ out[k] = Bits(Out, k) /\ k \in Nat /\ ss[k] = choose(sel, ns, A, B, k)
                           /\ W[k] = {p * e.on[Bits(A, k)]}
                           /\ V[k] = { v \in Bit : v <= p * e.on[Bits(A, k)] }
  BY DEF SelectBit
<1>4. /\ M \in Numbers /\ A \in Numbers /\ B \in Numbers /\ A \notin ChoiceNumbers
      /\ M \notin SelectNumbers /\ A \notin SelectNumbers
  <2>1. M \notin SelectNumbers /\ A \notin SelectNumbers
    BY DEF A, M, SelectNumbers, Number, Out
  <2> QED
    BY <2>1, WorkNumbers
<1>5. sel \in Variable \ S /\ sel # ns /\ \A i \in Nat : sel # Bits(Out, i)
  <2>1. sel \in Variable
    BY <1>4, VariableTypes
  <2>2. \A name \in {"t1", "t2", "not_sel"} : sel # Local(name)
    BY DEF M, Bits, Number, Local
  <2>3. \A i \in Nat : sel # Bits(Out, i)
    BY DEF M, Bits, Number, Out
  <2> QED
    BY <2>1, <2>2, <2>3
<1>6. ns \in Variable \ S /\ \A i \in Nat : ns # Bits(Out, i)
  <2>1. ns \notin S
    BY DEF Local
  <2> QED
    BY <2>1, ChoiceVariables
<1>7. \A k \in 1 .. bits : out[k] \in Variable \ S /\ out[k] \in Variable
  BY ChoiceVariables
<1>8. \A j, k \in 1 .. bits : out[j] = out[k] => j = k
  BY ChoiceVariables
<1>9. \A k \in 1 .. bits : Bits(A, k) \in Variable \ (U \union {ns})
  <2>1. ASSUME NEW k \in 1 .. bits, NEW i \in Nat
        PROVE  Bits(A, k) # Bits(Out, i)
    BY DEF A, Bits, Number, Out
  <2>2. ASSUME NEW k \in 1 .. bits, NEW name \in {"t1", "t2", "not_sel"}
        PROVE  Bits(A, k) # Local(name)
    BY DEF A, Bits, Number, Local
  <2>3. \A k \in 1 .. bits : Bits(A, k) \in Variable
    BY <1>3, <1>4, VariableTypes
  <2> QED
    BY <2>1, <2>2, <2>3, <1>3
<1>10. U \union {ns} \subseteq N
  <2>1. \A name \in {"t1", "t2", "not_sel"} :
          Local(name) = Bits(Number(name), 0) /\ Number(name) \in Numbers /\ Number(name) \in SelectNumbers
    BY VariableTypes, BitsDiffer DEF Names, SelectNumbers
  <2>2. \A name \in {"t1", "t2", "not_sel"} : Local(name) \in N
    BY <2>1, BitsDiffer
  <2>3. Out \in Numbers /\ Out \in SelectNumbers
    BY VariableTypes DEF Out, Names, SelectNumbers
  <2>4. \A i \in Nat : Bits(Out, i) \in N
    BY <2>3, BitsDiffer
  <2> HIDE DEF N
  <2> QED
    BY <2>2, <2>4
<1> HIDE DEF ss, out, W, V, N, sel, ns
<1>11. \A k \in 1 .. bits : ss[k] \in Seq(Call)
  <2>1. ASSUME NEW k \in 1 .. bits
        PROVE  ss[k] \in Seq(Call)
    <3>1. /\ Bits(A, k) \in Variable /\ Bits(B, k) \in Variable /\ Null \in Variable
          /\ sel \in Variable /\ ns \in Variable /\ k \in Nat
      BY <1>3, <1>4, <1>5, <1>6, VariableTypes
    <3>2. Runs(Variable, choose(sel, ns, A, B, k), Variable \union {Bits(Out, k)})
      BY <3>1, <1>4, RunsChoose
    <3> QED
      BY <3>2, <1>3 DEF Runs
  <2> QED
    BY <2>1
<1>12. s1 \in Seq(Call) /\ s2 \in Seq(Call)
  <2>1. s1 \in Seq(Call)
    BY <1>5, <1>6, SinglesTyped
  <2>2. s2 \in Seq(Call)
    BY <1>2, <1>11, LoopTyped
  <2> QED
    BY <2>1, <2>2
<1> HIDE DEF s1, s2
<1>13. PICK e1 : Reaches(s1, e, e1) /\ Reaches(s2, e1, g)
  BY <1>1, <1>12, ReachesThen
<1>14. Only(e, e1, {ns}) /\ e1.on[ns] = 0
  BY <1>5, <1>6, <1>13, InverterShows DEF s1
<1>15. e1 \in View /\ e1.on[sel] = p
  BY <1>5, <1>14 DEF Only
<1>16. \A k \in 1 .. bits : e1.on[Bits(A, k)] = e.on[Bits(A, k)]
  BY <1>9, <1>14 DEF Only
<1>17. TurnsSet(bits, ss, S, out, V, W, e1)
  <2>1. ASSUME NEW k \in 1 .. bits, NEW u, NEW v, Only(e1, u, U), Reaches(ss[k], u, v)
        PROVE  /\ Only(u, v, S \union {out[k]})
               /\ v.on[out[k]] \in V[k]
               /\ v.functional => v.on[out[k]] \in W[k]
    <3>1. sel \in Variable \ U /\ ns \in Variable \ U
      <4>1. \A j \in 1 .. bits : sel # out[j] /\ ns # out[j]
        BY <1>3, <1>5, <1>6
      <4> QED
        BY <4>1, <1>5, <1>6
    <3>2. u.on[sel] = p /\ u.on[ns] = 0 /\ u.on[Bits(A, k)] = e.on[Bits(A, k)]
      BY <2>1, <3>1, <1>9, <1>14, <1>15, <1>16 DEF Only
    <3> DEFINE x == e.on[Bits(A, k)]
               o == v.on[Bits(Out, k)]
    <3>3. p \in Bit /\ x \in Bit
      BY DEF sel
    <3>4. Reaches(choose(sel, ns, A, B, k), u, v)
      BY <2>1, <1>3
    <3> HIDE DEF p
    <3>5. /\ Only(u, v, {Local("t1"), Local("t2"), Bits(Out, k)})
          /\ o \in Bit
          /\ u.on[sel] \in Bit /\ u.on[Bits(A, k)] \in Bit =>
              /\ o <= u.on[sel] * u.on[Bits(A, k)]
              /\ v.functional => o = u.on[sel] * u.on[Bits(A, k)]
      BY <3>2, <3>4, <1>3, <1>4, <1>5, <1>6, ChooseShows
    <3>6. o <= p * x /\ (v.functional => o = p * x)
      BY <3>2, <3>3, <3>5
    <3>7. S \union {out[k]} = {Local("t1"), Local("t2"), Bits(Out, k)}
      BY <1>3
    <3>8. V[k] = { y \in Bit : y <= p * x } /\ W[k] = {p * x} /\ v.on[out[k]] = o
      BY <1>3
    <3> HIDE DEF x, o, S
    <3> QED
      BY <3>5, <3>6, <3>7, <3>8
  <2>2. U = S \union { out[j] : j \in 1 .. bits }
    OBVIOUS
  <2> HIDE DEF U, S
  <2> QED
    BY <2>1, <2>2 DEF TurnsSet
<1>18. AllSet(bits, S, out, V, W, e1, g)
  <2> HIDE DEF S, U
  <2> QED
    BY <1>2, <1>7, <1>8, <1>11, <1>13, <1>15, <1>17, EachShows DEF s2
<1>19. Only(e, g, N)
  <2>1. Only(e1, g, U)
    BY <1>18 DEF AllSet
  <2>2. {ns} \union U \subseteq N
    BY <1>10
  <2> HIDE DEF U
  <2> QED
    BY <2>1, <2>2, <1>14, OnlyThen
<1>20. Selects(e, g, bits)
  <2>1. ASSUME NEW k \in 1 .. bits
        PROVE  /\ g.on[Bits(Out, k)] \in Bit
               /\ g.on[Bits(Out, k)] <= p * e.on[Bits(A, k)]
               /\ g.functional => g.on[Bits(Out, k)] = p * e.on[Bits(A, k)]
    <3>1. g.on[out[k]] \in V[k] /\ (g.functional => g.on[out[k]] \in W[k])
      BY <1>18 DEF AllSet
    <3> HIDE DEF p
    <3> QED
      BY <3>1, <1>3
  <2> QED
    BY <2>1 DEF Selects, sel
<1> QED
  BY <1>19, <1>20 DEF N

(* All bits times the selector.                                            *)
LEMMA SelectedAmount ==
  ASSUME NEW n \in Nat, NEW bit, NEW p \in Bit, NEW copy,
         \A i \in 1 .. n : bit[i] \in Nat /\ copy[i] = p * bit[i]
  PROVE  Amount(copy, n) = IF p = 1 THEN Amount(bit, n) ELSE 0
<1>1. \A j \in 1 .. n : bit[j] \in Nat /\ copy[0 + j] = p * bit[j]
  <2>1. \A j \in 1 .. n : 0 + j = j
    OBVIOUS
  <2> QED
    BY <2>1
<1>2. \A k \in 1 .. 0 : copy[k] = 0
  OBVIOUS
<1>3. p \in Nat /\ 0 \in Nat /\ 0 + n = n
  BY DEF Bit
<1>4. Amount(copy, 0 + n) = Weight[0] * (p * Amount(bit, n))
  BY <1>1, <1>2, <1>3, AmountShifts, SMTT(30)
<1>5. Amount(bit, n) \in Nat /\ Weight[0] = 1
  BY AmountType, Weights
<1>6. p = 0 \/ p = 1
  BY DEF Bit
<1> QED
  BY <1>3, <1>4, <1>5, <1>6, Products

-----------------------------------------------------------------------------
(* Products. *)

MulNumbers == AdderNumbers \union { Product(n) : n \in Nat } \union { Shifted(n) : n \in Nat }

(* The rows of the product are numbers of their own.                       *)
LEMMA MulVariables ==
  /\ \A n \in Nat : Product(n) \in Numbers /\ Shifted(n) \in Numbers
  /\ \A n \in Nat : Product(n) \in MulNumbers /\ Shifted(n) \in MulNumbers
  /\ \A n \in Nat : Product(n) \notin AdderNumbers /\ Shifted(n) \notin AdderNumbers
  /\ \A n, m \in Nat : Product(n) # Shifted(m) /\ (Product(n) = Product(m) => n = m)
  /\ AdderNumbers \subseteq MulNumbers
  /\ \A n, i \in Nat : Bits(Product(n), i) \in Variable /\ Bits(Shifted(n), i) \in Variable
  /\ \A n, i \in Nat : /\ Bits(Product(n), i) \in OfNumbers(MulNumbers)
                       /\ Bits(Shifted(n), i) \in OfNumbers(MulNumbers)
<1>1. \A n \in Nat : Product(n) \in Numbers /\ Shifted(n) \in Numbers
  BY VariableTypes
<1>2. \A n \in Nat : Product(n) \in MulNumbers /\ Shifted(n) \in MulNumbers
  BY DEF MulNumbers
<1>3. \A n \in Nat : Product(n) \notin AdderNumbers /\ Shifted(n) \notin AdderNumbers
  BY DEF Product, Shifted, AdderNumbers, Number
<1>4. \A n, m \in Nat : Product(n) # Shifted(m) /\ (Product(n) = Product(m) => n = m)
  BY DEF Product, Shifted
<1>5. AdderNumbers \subseteq MulNumbers
  BY DEF MulNumbers
<1>6. \A n, i \in Nat : Bits(Product(n), i) \in Variable /\ Bits(Shifted(n), i) \in Variable
  BY <1>1, VariableTypes
<1>7. \A n, i \in Nat : /\ Bits(Product(n), i) \in OfNumbers(MulNumbers)
                        /\ Bits(Shifted(n), i) \in OfNumbers(MulNumbers)
  BY <1>1, <1>2, BitsDiffer
<1> QED
  BY <1>1, <1>2, <1>3, <1>4, <1>5, <1>6, <1>7

(* Constants, one per turn.                                                *)
Zeros(number, n) == FlattenSeq([k \in 1 .. n |-> constPin(0, Bits(number, k))])

LEMMA ZerosTyped ==
  ASSUME NEW number \in Numbers, NEW n \in Nat
  PROVE  Zeros(number, n) \in Seq(Call)
<1> DEFINE ss == [k \in 1 .. n |-> constPin(0, Bits(number, k))]
<1>1. Len(ss) = n /\ (n = 0 => ss = << >>)
  OBVIOUS
<1>2. \A k \in 1 .. n : ss[k] \in Seq(Call)
  <2>1. \A k \in 1 .. n : ss[k] = constPin(0, Bits(number, k)) /\ k \in Nat
    OBVIOUS
  <2>2. \A k \in 1 .. n : Bits(number, k) \in Variable
    BY VariableTypes
  <2> HIDE DEF ss
  <2> QED
    BY <2>1, <2>2, SinglesTyped DEF Bit
<1> HIDE DEF ss
<1>3. FlattenSeq(ss) \in Seq(Call)
  BY <1>1, <1>2, LoopTyped
<1> QED
  BY <1>3 DEF ss, Zeros

(* The constants a row begins with.                                        *)
LEMMA ZerosShow ==
  ASSUME NEW number \in Numbers, NEW n \in Nat, NEW e \in View, NEW g, Reaches(Zeros(number, n), e, g)
  PROVE  /\ Only(e, g, BitsOf(number, n))
         /\ \A i \in 1 .. n : g.on[Bits(number, i)] = 0
<1> DEFINE ss  == [k \in 1 .. n |-> constPin(0, Bits(number, k))]
           out == [k \in 1 .. n |-> Bits(number, k)]
           V   == [k \in 1 .. n |-> {0}]
<1>1. Len(ss) = n /\ (n = 0 => ss = << >>)
  OBVIOUS
<1>2. \A k \in 1 .. n : out[k] = Bits(number, k) /\ k \in Nat /\ ss[k] = constPin(0, out[k]) /\ V[k] = {0}
  OBVIOUS
<1>3. {} \union { out[j] : j \in 1 .. n } = BitsOf(number, n)
  BY DEF BitsOf
<1>4. Reaches(FlattenSeq(ss), e, g)
  BY DEF Zeros
<1> HIDE DEF out, V, ss
<1>5. \A k \in 1 .. n : out[k] \in Variable \ {} /\ out[k] \in Variable
  BY <1>2, VariableTypes
<1>6. \A j, k \in 1 .. n : out[j] = out[k] => j = k
  BY <1>2, BitsDiffer
<1>7. \A k \in 1 .. n : ss[k] \in Seq(Call)
  BY <1>2, <1>5, SinglesTyped DEF Bit
<1>8. TurnsSet(n, ss, {}, out, V, V, e)
  <2>1. ASSUME NEW k \in 1 .. n, NEW u, NEW v, Reaches(ss[k], u, v)
        PROVE  Only(u, v, {} \union {out[k]}) /\ v.on[out[k]] \in V[k]
    <3>0. Reaches(constPin(0, out[k]), u, v) /\ 0 \in Bit /\ out[k] \in Variable
      BY <2>1, <1>2, <1>5 DEF Bit
    <3>1. Only(u, v, {out[k]}) /\ v.on[out[k]] = 0
      BY <3>0, ConstantShows
    <3>2. {} \union {out[k]} = {out[k]}
      OBVIOUS
    <3> QED
      BY <3>1, <3>2, <1>2
  <2> QED
    BY <2>1 DEF TurnsSet
<1>9. AllSet(n, {}, out, V, V, e, g)
  BY <1>1, <1>4, <1>5, <1>6, <1>7, <1>8, EachShows
<1>11. Only(e, g, BitsOf(number, n))
  BY <1>3, <1>9 DEF AllSet
<1>12. \A k \in 1 .. n : g.on[Bits(number, k)] = 0
  BY <1>2, <1>9 DEF AllSet
<1> QED
  BY <1>11, <1>12

BitsAbove(number, from, n) == { Bits(number, from + k) : k \in 1 .. n }

(* A bit of x over all of y: exact, for an AND gate shows its conjunction. *)
PartialSums(a, y, number, n, bits) ==
  FlattenSeq([j \in 1 .. bits |-> andGate(a, Bits(y, j), Bits(number, n + j))])

LEMMA PartialsTyped ==
  ASSUME NEW a \in Variable, NEW y \in Numbers, NEW number \in Numbers, NEW n \in Nat, NEW bits \in Nat
  PROVE  PartialSums(a, y, number, n, bits) \in Seq(Call)
<1> DEFINE ss == [j \in 1 .. bits |-> andGate(a, Bits(y, j), Bits(number, n + j))]
<1>1. Len(ss) = bits /\ (bits = 0 => ss = << >>)
  OBVIOUS
<1>2. \A j \in 1 .. bits : ss[j] \in Seq(Call)
  <2>1. \A j \in 1 .. bits : ss[j] = andGate(a, Bits(y, j), Bits(number, n + j)) /\ j \in Nat /\ n + j \in Nat
    OBVIOUS
  <2> HIDE DEF ss
  <2>2. \A j \in 1 .. bits : Bits(y, j) \in Variable /\ Bits(number, n + j) \in Variable
    BY <2>1, VariableTypes
  <2> QED
    BY <2>1, <2>2, SinglesTyped
<1> HIDE DEF ss
<1>3. FlattenSeq(ss) \in Seq(Call)
  BY <1>1, <1>2, LoopTyped
<1> QED
  BY <1>3 DEF ss, PartialSums

(* A row's products: y where the bit of x is 1.                            *)
LEMMA PartialsShow ==
  ASSUME NEW a \in Variable, NEW y \in Numbers, NEW number \in Numbers, y # number,
         a \notin OfNumbers({number}), NEW n \in Nat, NEW bits \in Nat, NEW e \in View, NEW g,
         Reaches(PartialSums(a, y, number, n, bits), e, g),
         e.on[a] \in Bit, \A j \in 1 .. bits : e.on[Bits(y, j)] \in Bit
  PROVE  /\ Only(e, g, BitsAbove(number, n, bits))
         /\ \A j \in 1 .. bits : g.on[Bits(number, n + j)] = e.on[a] * e.on[Bits(y, j)]
<1> DEFINE ss  == [j \in 1 .. bits |-> andGate(a, Bits(y, j), Bits(number, n + j))]
           out == [j \in 1 .. bits |-> Bits(number, n + j)]
           p   == e.on[a]
           V   == [j \in 1 .. bits |-> {p * e.on[Bits(y, j)]}]
           U   == {} \union { out[j] : j \in 1 .. bits }
<1>1. Len(ss) = bits /\ (bits = 0 => ss = << >>)
  OBVIOUS
<1>2. \A j \in 1 .. bits : /\ out[j] = Bits(number, n + j) /\ j \in Nat /\ n + j \in Nat
                           /\ ss[j] = andGate(a, Bits(y, j), out[j])
                           /\ V[j] = {p * e.on[Bits(y, j)]}
  OBVIOUS
<1>3. U = BitsAbove(number, n, bits)
  BY DEF BitsAbove
<1>4. Reaches(FlattenSeq(ss), e, g)
  BY DEF PartialSums
<1> HIDE DEF out, V, ss
<1>5. \A j \in 1 .. bits : out[j] \in Variable \ {} /\ out[j] \in Variable /\ Bits(y, j) \in Variable
  BY <1>2, VariableTypes
<1>6. \A j, k \in 1 .. bits : out[j] = out[k] => j = k
  <2>1. \A j, k \in 1 .. bits : n + j = n + k => j = k
    OBVIOUS
  <2> QED
    BY <2>1, <1>2, BitsDiffer
<1>7. \A j \in 1 .. bits : ss[j] \in Seq(Call)
  <2>1. ASSUME NEW j \in 1 .. bits
        PROVE  ss[j] \in Seq(Call)
    <3>1. ss[j] = andGate(a, Bits(y, j), out[j]) /\ Bits(y, j) \in Variable /\ out[j] \in Variable
      BY <1>2, <1>5
    <3> QED
      BY <3>1, SinglesTyped
  <2> QED
    BY <2>1
<1>8. a \in Variable \ U /\ \A j \in 1 .. bits : Bits(y, j) \in Variable \ U
  <2>1. \A j \in 1 .. bits : out[j] \in OfNumbers({number})
    BY <1>2, BitsDiffer
  <2>2. \A j, k \in 1 .. bits : Bits(y, j) # out[k]
    BY <1>2, BitsDiffer
  <2> QED
    BY <2>1, <2>2, <1>5
<1>9. TurnsSet(bits, ss, {}, out, V, V, e)
  <2>1. ASSUME NEW k \in 1 .. bits, NEW u, NEW v, Only(e, u, U), Reaches(ss[k], u, v)
        PROVE  Only(u, v, {} \union {out[k]}) /\ v.on[out[k]] \in V[k]
    <3> DEFINE q == e.on[Bits(y, k)]
               o == v.on[out[k]]
    <3>1. u.on[a] = p /\ u.on[Bits(y, k)] = q
      BY <1>8, <2>1 DEF Only
    <3>2. p \in Bit /\ q \in Bit
      OBVIOUS
    <3>3. Reaches(andGate(a, Bits(y, k), out[k]), u, v)
      BY <2>1, <1>2
    <3>4. /\ Only(u, v, {out[k]}) /\ o \in Bit
          /\ u.on[a] \in Bit /\ u.on[Bits(y, k)] \in Bit => (o = 1 <=> u.on[a] = 1 /\ u.on[Bits(y, k)] = 1)
      BY <3>3, <1>5, AndShows
    <3>5. V[k] = {p * q}
      BY <1>2
    <3>6. {} \union {out[k]} = {out[k]}
      OBVIOUS
    <3> HIDE DEF p, q, o
    <3>7. o = 1 <=> p = 1 /\ q = 1
      BY <3>1, <3>2, <3>4
    <3>8. o = p * q
      <4>1. p \in {0, 1} /\ q \in {0, 1} /\ o \in {0, 1}
        BY <3>2, <3>4 DEF Bit
      <4>2. p * q = IF p = 1 /\ q = 1 THEN 1 ELSE 0
        BY <4>1
      <4> QED
        BY <4>1, <4>2, <3>7
    <3> QED
      BY <3>4, <3>5, <3>6, <3>8 DEF o
  <2>2. U = {} \union { out[j] : j \in 1 .. bits }
    OBVIOUS
  <2> HIDE DEF U
  <2> QED
    BY <2>1, <2>2 DEF TurnsSet
<1>10. AllSet(bits, {}, out, V, V, e, g)
  BY <1>1, <1>4, <1>5, <1>6, <1>7, <1>9, EachShows
<1>11. Only(e, g, BitsAbove(number, n, bits))
  BY <1>3, <1>10 DEF AllSet
<1>12. \A k \in 1 .. bits : g.on[Bits(number, n + k)] = p * e.on[Bits(y, k)]
  BY <1>2, <1>10 DEF AllSet
<1> QED
  BY <1>11, <1>12

(* What lies above a copy is not known.                                    *)
Above(number, from, n) == FlattenSeq([k \in 1 .. n |-> garbage(Bits(number, from + k))])

LEMMA AboveTyped ==
  ASSUME NEW number \in Numbers, NEW from \in Nat, NEW n \in Nat
  PROVE  Above(number, from, n) \in Seq(Call)
<1> DEFINE ss == [k \in 1 .. n |-> garbage(Bits(number, from + k))]
<1>1. Len(ss) = n /\ (n = 0 => ss = << >>)
  OBVIOUS
<1>2. \A k \in 1 .. n : ss[k] \in Seq(Call)
  <2>1. \A k \in 1 .. n : ss[k] = garbage(Bits(number, from + k)) /\ from + k \in Nat
    OBVIOUS
  <2> HIDE DEF ss
  <2>2. \A k \in 1 .. n : Bits(number, from + k) \in Variable
    BY <2>1, VariableTypes
  <2> QED
    BY <2>1, <2>2, SinglesTyped
<1> HIDE DEF ss
<1>3. FlattenSeq(ss) \in Seq(Call)
  BY <1>1, <1>2, LoopTyped
<1> QED
  BY <1>3 DEF ss, Above

(* What the stack held stays above the copy of y.                          *)
LEMMA AboveShows ==
  ASSUME NEW number \in Numbers, NEW from \in Nat, NEW n \in Nat, NEW e \in View, NEW g,
         Reaches(Above(number, from, n), e, g)
  PROVE  Only(e, g, BitsAbove(number, from, n))
<1> DEFINE ss  == [k \in 1 .. n |-> garbage(Bits(number, from + k))]
           out == [k \in 1 .. n |-> Bits(number, from + k)]
           V   == [k \in 1 .. n |-> 0 .. 3]
<1>1. Len(ss) = n /\ (n = 0 => ss = << >>)
  OBVIOUS
<1>2. \A k \in 1 .. n : /\ out[k] = Bits(number, from + k) /\ k \in Nat /\ from + k \in Nat
                        /\ ss[k] = garbage(out[k]) /\ V[k] = 0 .. 3
  OBVIOUS
<1>3. {} \union { out[j] : j \in 1 .. n } = { Bits(number, from + k) : k \in 1 .. n }
  OBVIOUS
<1>4. Above(number, from, n) = FlattenSeq(ss)
  BY DEF Above
<1> HIDE DEF out, V, ss
<1>5. \A k \in 1 .. n : out[k] \in Variable \ {} /\ out[k] \in Variable
  BY <1>2, VariableTypes
<1>6. \A j, k \in 1 .. n : out[j] = out[k] => j = k
  <2>1. \A j, k \in 1 .. n : from + j = from + k => j = k
    OBVIOUS
  <2> QED
    BY <2>1, <1>2, BitsDiffer
<1>7. \A k \in 1 .. n : ss[k] \in Seq(Call)
  BY <1>2, <1>5, SinglesTyped
<1>8. TurnsSet(n, ss, {}, out, V, V, e)
  <2>1. ASSUME NEW k \in 1 .. n, NEW u, NEW v, Reaches(ss[k], u, v)
        PROVE  Only(u, v, {} \union {out[k]}) /\ v.on[out[k]] \in V[k]
    <3>1. Reaches(garbage(out[k]), u, v) /\ out[k] \in Variable
      BY <2>1, <1>2, <1>5
    <3>2. Only(u, v, {out[k]})
      BY <3>1, GarbageShows
    <3>3. {} \union {out[k]} = {out[k]}
      OBVIOUS
    <3>4. v.on[out[k]] \in 0 .. 3
      BY <3>1, <3>2, OnTypes DEF Only
    <3> QED
      BY <3>2, <3>3, <3>4, <1>2
  <2> QED
    BY <2>1 DEF TurnsSet
<1>9. AllSet(n, {}, out, V, V, e, g)
  BY <1>1, <1>4, <1>5, <1>6, <1>7, <1>8, EachShows, SMTT(30)
<1> QED
  BY <1>3, <1>9 DEF AllSet, BitsAbove

(* The product of n bits of x with all of y, but for a multiple of what    *)
(* the bits beyond the width are worth.                                    *)
Row(e, x, y, bits, n) ==
  { f \in View :
      /\ Only(e, f, OfNumbers(MulNumbers))
      /\ \A i \in 1 .. 2 * bits : f.on[Bits(Product(n), i)] \in Bit
      /\ f.functional =>
           \E q \in Nat : Amount(BitsOn(f, Product(n)), bits) + Weight[bits] * q
                            = Amount(BitsOn(e, x), n) * Amount(BitsOn(e, y), bits) }

(* The copy of y for a bit of x: zeros below it.                           *)
Copies(f, g, a, y, number, n, bits) ==
  /\ Only(f, g, OfNumbers({number}))
  /\ \A j \in 1 .. bits : g.on[Bits(number, n + j)] = f.on[a] * f.on[Bits(y, j)]
  /\ \A k \in 1 .. n : g.on[Bits(number, k)] = 0

(* The row is y times a bit of x, shifted by its position.                 *)
LEMMA CopyShows ==
  ASSUME NEW a \in Variable, NEW y \in Numbers, NEW number \in Numbers, y # number,
         a \notin OfNumbers({number}), NEW n \in Nat, NEW bits \in Nat, n <= bits,
         NEW f, f.on[a] \in Bit, \A j \in 1 .. bits : f.on[Bits(y, j)] \in Bit,
         NEW g, Reaches(PartialSums(a, y, number, n, bits) \o Zeros(number, n)
                          \o Above(number, n + bits, bits - n), f, g)
  PROVE  Copies(f, g, a, y, number, n, bits)
<1> DEFINE s1 == PartialSums(a, y, number, n, bits)
           s2 == Zeros(number, n)
           s3 == Above(number, n + bits, bits - n)
           U1 == BitsAbove(number, n, bits)
           U2 == BitsOf(number, n)
           U3 == BitsAbove(number, n + bits, bits - n)
           U  == OfNumbers({number})
<1>1. n + bits \in Nat /\ bits - n \in Nat
  OBVIOUS
<1>2. s1 \in Seq(Call) /\ s2 \in Seq(Call) /\ s3 \in Seq(Call)
  <2>1. s3 \in Seq(Call)
    <3> HIDE DEF s3
    <3>1. Above(number, n + bits, bits - n) \in Seq(Call)
      BY <1>1, AboveTyped
    <3> QED
      BY <3>1 DEF s3
  <2> QED
    BY <2>1, PartialsTyped, ZerosTyped
<1>3. U1 \subseteq U /\ U2 \subseteq U /\ U3 \subseteq U
  <2>1. \A i \in Nat : Bits(number, i) \in U
    BY BitsDiffer
  <2>2. \A j \in 1 .. bits : n + j \in Nat
    OBVIOUS
  <2>3. \A i \in 1 .. n : i \in Nat
    OBVIOUS
  <2>4. \A k \in 1 .. bits - n : (n + bits) + k \in Nat
    OBVIOUS
  <2> HIDE DEF U
  <2> QED
    BY <2>1, <2>2, <2>3, <2>4 DEF BitsAbove, BitsOf
<1>4. \A j \in 1 .. bits : Bits(number, n + j) \in Variable \ (U2 \union U3)
  <2>1. ASSUME NEW j \in 1 .. bits
        PROVE  /\ n + j \in Nat
               /\ \A i \in 1 .. n : i \in Nat /\ i # n + j
               /\ \A k \in 1 .. bits - n : (n + bits) + k \in Nat /\ (n + bits) + k # n + j
    OBVIOUS
  <2>2. ASSUME NEW j \in 1 .. bits
        PROVE  Bits(number, n + j) \in Variable \ (U2 \union U3)
    <3>1. Bits(number, n + j) \in Variable
      BY <2>1, VariableTypes
    <3>2. \A i \in 1 .. n : Bits(number, i) # Bits(number, n + j)
      BY <2>1, BitsDiffer
    <3>3. \A k \in 1 .. bits - n : Bits(number, (n + bits) + k) # Bits(number, n + j)
      BY <2>1, BitsDiffer
    <3> QED
      BY <3>1, <3>2, <3>3 DEF BitsAbove, BitsOf
  <2> QED
    BY <2>2
<1>5. \A i \in 1 .. n : Bits(number, i) \in Variable \ U3
  <2>1. ASSUME NEW i \in 1 .. n
        PROVE  Bits(number, i) \in Variable \ U3
    <3>1. i \in Nat /\ \A k \in 1 .. bits - n : (n + bits) + k \in Nat /\ (n + bits) + k # i
      OBVIOUS
    <3>2. \A k \in 1 .. bits - n : Bits(number, (n + bits) + k) # Bits(number, i)
      BY <3>1, BitsDiffer
    <3> QED
      BY <3>1, <3>2, VariableTypes DEF BitsAbove
  <2> QED
    BY <2>1
<1> HIDE DEF s1, s2, s3, U
<1>6. s1 \o s2 \in Seq(Call)
  BY <1>2, Joined
<1>7. PICK f2 : Reaches(s1 \o s2, f, f2) /\ Reaches(s3, f2, g)
  BY <1>2, <1>6, ReachesThen DEF s1, s2, s3
<1>8. PICK f1 : Reaches(s1, f, f1) /\ Reaches(s2, f1, f2)
  BY <1>2, <1>7, ReachesThen
<1>9. f \in View /\ f1 \in View /\ f2 \in View
  <2>1. f \in View /\ f1 \in View
    BY <1>2, <1>8, ReachesViews
  <2>2. f2 \in View
    BY <1>2, <1>7, ReachesViews
  <2> QED
    BY <2>1, <2>2
<1>10. /\ Only(f, f1, U1)
       /\ \A j \in 1 .. bits : f1.on[Bits(number, n + j)] = f.on[a] * f.on[Bits(y, j)]
  <2>1. Reaches(PartialSums(a, y, number, n, bits), f, f1)
    BY <1>8 DEF s1
  <2> QED
    BY <2>1, <1>9, PartialsShow
<1>11. Only(f1, f2, U2) /\ \A i \in 1 .. n : f2.on[Bits(number, i)] = 0
  <2>1. Reaches(Zeros(number, n), f1, f2)
    BY <1>8 DEF s2
  <2> QED
    BY <2>1, <1>9, ZerosShow
<1>12. Only(f2, g, U3)
  <2>1. Reaches(Above(number, n + bits, bits - n), f2, g)
    BY <1>7 DEF s3
  <2>2. Only(f2, g, BitsAbove(number, n + bits, bits - n))
    BY <2>1, <1>1, <1>9, AboveShows
  <2> QED
    BY <2>2
<1> HIDE DEF U1, U2, U3
<1>13. Only(f, g, U)
  <2>1. Only(f, f2, U)
    BY <1>3, <1>10, <1>11, OnlyThen
  <2> QED
    BY <2>1, <1>3, <1>12, OnlyThen
<1>14. \A j \in 1 .. bits : g.on[Bits(number, n + j)] = f.on[a] * f.on[Bits(y, j)]
  BY <1>4, <1>10, <1>11, <1>12 DEF Only
<1>15. \A i \in 1 .. n : g.on[Bits(number, i)] = 0
  BY <1>5, <1>11, <1>12 DEF Only
<1> QED
  BY <1>13, <1>14, <1>15 DEF Copies, U

(* One row more of a product.                                              *)
LEMMA RowAdds ==
  ASSUME NEW W \in Nat, NEW wn \in Nat, NEW x1 \in Nat, NEW Y \in Nat, NEW X \in Nat,
         NEW P \in Nat, NEW Q \in Nat, NEW S \in Nat, NEW c \in Nat, NEW q \in Nat, NEW r \in Nat,
         Q + W * c = P + S, P + W * q = X * Y, S + W * r = wn * (x1 * Y)
  PROVE  Q + W * (c + (q + r)) = (X + wn * x1) * Y
<1>1. W * (c + (q + r)) = W * c + W * (q + r)
  BY Products
<1>2. W * (q + r) = W * q + W * r
  BY Products
<1>3. (X + wn * x1) * Y = X * Y + (wn * x1) * Y
  <2> DEFINE z == wn * x1
  <2>1. z \in Nat
    BY Products
  <2> HIDE DEF z
  <2>2. X + z \in Nat
    BY <2>1
  <2>3. (X + z) * Y = Y * (X + z) /\ Y * (X + z) = Y * X + Y * z
    BY <2>1, <2>2, Products
  <2>4. Y * X = X * Y /\ Y * z = z * Y
    BY <2>1, Products
  <2>5. (X + z) * Y = X * Y + z * Y
    BY <2>3, <2>4
  <2> QED
    BY <2>5 DEF z
<1>4. (wn * x1) * Y = wn * (x1 * Y)
  BY Products
<1> DEFINE wc == W * c
           wq == W * q
           wr == W * r
           xy == X * Y
           sy == wn * (x1 * Y)
<1>5. wc \in Nat /\ wq \in Nat /\ wr \in Nat /\ xy \in Nat /\ sy \in Nat
  BY Products
<1>6. Q + wc = P + S /\ P + wq = xy /\ S + wr = sy
  OBVIOUS
<1>7. W * (c + (q + r)) = wc + (wq + wr) /\ (X + wn * x1) * Y = xy + sy
  BY <1>1, <1>2, <1>3, <1>4
<1> HIDE DEF wc, wq, wr, xy, sy
<1>8. Q + (wc + (wq + wr)) = xy + sy
  BY <1>5, <1>6
<1> QED
  BY <1>7, <1>8

LEMMA MulRowTyped ==
  ASSUME NEW x \in Numbers, NEW y \in Numbers, NEW bits \in Nat, NEW n \in 1 .. bits - 1
  PROVE  MulRow(x, y, bits, n) \in Seq(Call)
<1>1. /\ Null \in Variable /\ BitsOf(x, bits) \subseteq Variable /\ BitsOf(y, bits) \subseteq Variable
      /\ BitsOf(Product(n), 2 * bits) \subseteq Variable
  <2>1. Null \in Variable /\ Product(n) \in Numbers
    BY VariableTypes
  <2> QED
    BY <2>1, VariableTypes DEF BitsOf
<1>2. Runs(Variable, MulRow(x, y, bits, n), Variable \union BitsOf(Product(n + 1), 2 * bits))
  BY <1>1, RunsMulRow
<1> QED
  BY <1>2 DEF Runs

(* The four parts of a turn.                                               *)
LEMMA MulRowParts ==
  ASSUME NEW x \in Numbers, NEW y \in Numbers, NEW bits \in Nat, NEW n \in 1 .. bits - 1,
         NEW f, NEW g, Reaches(MulRow(x, y, bits, n), f, g)
  PROVE  \E f1, f2 :
           /\ Reaches(PartialSums(Bits(x, n + 1), y, Shifted(n + 1), n, bits) \o Zeros(Shifted(n + 1), n)
                        \o Above(Shifted(n + 1), n + bits, bits - n), f, f1)
           /\ Reaches(constPin(0, Carry(0)), f1, f2)
           /\ Reaches(add(Product(n), Shifted(n + 1), Product(n + 1), 2 * bits), f2, g)
<1> DEFINE number == Shifted(n + 1)
           s1 == PartialSums(Bits(x, n + 1), y, number, n, bits)
           s2 == Zeros(number, n)
           s3 == Above(number, n + bits, bits - n)
           s4 == constPin(0, Carry(0))
           s5 == add(Product(n), number, Product(n + 1), 2 * bits)
<1>1. MulRow(x, y, bits, n) = s1 \o s2 \o s3 \o s4 \o s5
  BY DEF MulRow, PartialSums, Zeros, Above
<1>2. /\ number \in Numbers /\ Product(n) \in Numbers /\ Product(n + 1) \in Numbers
      /\ n \in Nat /\ n + 1 \in Nat /\ n + bits \in Nat /\ bits - n \in Nat /\ 2 * bits \in Nat
  <2>1. n \in Nat /\ n + 1 \in Nat /\ n + bits \in Nat /\ bits - n \in Nat /\ 2 * bits \in Nat
    OBVIOUS
  <2> QED
    BY <2>1, MulVariables
<1>3. Bits(x, n + 1) \in Variable
  BY <1>2, VariableTypes
<1> HIDE DEF number
<1>4. s1 \in Seq(Call) /\ s2 \in Seq(Call)
  BY <1>2, <1>3, PartialsTyped, ZerosTyped
<1>5. s3 \in Seq(Call)
  BY <1>2, AboveTyped
<1>6. s4 \in Seq(Call)
  BY VariableTypes, SinglesTyped DEF Bit
<1>7. s5 \in Seq(Call)
  BY <1>2, PartsTyped
<1> HIDE DEF s1, s2, s3, s4, s5
<1>8. s1 \o s2 \in Seq(Call) /\ s1 \o s2 \o s3 \in Seq(Call) /\ s1 \o s2 \o s3 \o s4 \in Seq(Call)
  BY <1>4, <1>5, <1>6, Joined
<1>9. PICK f2 : Reaches(s1 \o s2 \o s3 \o s4, f, f2) /\ Reaches(s5, f2, g)
  BY <1>1, <1>7, <1>8, ReachesThen
<1>10. PICK f1 : Reaches(s1 \o s2 \o s3, f, f1) /\ Reaches(s4, f1, f2)
  BY <1>6, <1>8, <1>9, ReachesThen
<1> QED
  BY <1>9, <1>10 DEF s1, s2, s3, s4, s5, number

(* A row more: the low bits are worth the product with one bit more of x.  *)
LEMMA MulRowShows ==
  ASSUME NEW x \in Numbers \ MulNumbers, NEW y \in Numbers \ MulNumbers, NEW bits \in Nat,
         NEW n \in 1 .. bits - 1, NEW e,
         \A i \in 1 .. bits : e.on[Bits(x, i)] \in Bit /\ e.on[Bits(y, i)] \in Bit,
         NEW f \in Row(e, x, y, bits, n), NEW g, Reaches(MulRow(x, y, bits, n), f, g)
  PROVE  g \in Row(e, x, y, bits, n + 1)
<1> DEFINE number == Shifted(n + 1)
           P0 == Product(n)
           P1 == Product(n + 1)
           a  == Bits(x, n + 1)
           U  == OfNumbers(MulNumbers)
<1>1. /\ n \in Nat /\ n + 1 \in Nat /\ n <= bits /\ n + 1 \in 1 .. bits /\ bits \in 0 .. 2 * bits
      /\ 2 * bits \in Nat /\ n # n + 1
  OBVIOUS
<1>2. /\ number \in Numbers \ AdderNumbers /\ P0 \in Numbers \ AdderNumbers
      /\ P1 \in Numbers \ AdderNumbers /\ P1 # P0 /\ P1 # number /\ P0 # number
      /\ number \in MulNumbers /\ P0 \in MulNumbers /\ P1 \in MulNumbers
  BY <1>1, MulVariables
<1>3. /\ Only(e, f, U)
      /\ \A i \in 1 .. 2 * bits : f.on[Bits(P0, i)] \in Bit
      /\ f.functional =>
           \E q \in Nat : Amount(BitsOn(f, P0), bits) + Weight[bits] * q
                            = Amount(BitsOn(e, x), n) * Amount(BitsOn(e, y), bits)
  BY DEF Row
<1>4. PICK f1, f2 :
        /\ Reaches(PartialSums(a, y, number, n, bits) \o Zeros(number, n)
                     \o Above(number, n + bits, bits - n), f, f1)
        /\ Reaches(constPin(0, Carry(0)), f1, f2)
        /\ Reaches(add(P0, number, P1, 2 * bits), f2, g)
  BY MulRowParts
<1>5. \A i \in Nat : Bits(x, i) \in Variable \ U /\ Bits(y, i) \in Variable \ U
  BY VariableTypes, BitsDiffer
<1>6. \A i \in 1 .. bits : f.on[Bits(x, i)] = e.on[Bits(x, i)] /\ f.on[Bits(y, i)] = e.on[Bits(y, i)]
  <2>1. \A i \in 1 .. bits : i \in Nat
    OBVIOUS
  <2> QED
    BY <2>1, <1>3, <1>5 DEF Only
<1>7. Copies(f, f1, a, y, number, n, bits)
  <2>1. a \in Variable /\ a \notin OfNumbers({number})
    <3>1. x # number
      BY <1>2
    <3> QED
      BY <3>1, <1>1, VariableTypes, BitsDiffer
  <2>2. f.on[a] \in Bit /\ \A j \in 1 .. bits : f.on[Bits(y, j)] \in Bit
    BY <1>1, <1>6
  <2>3. y # number
    BY <1>2
  <2> HIDE DEF a, number
  <2> QED
    BY <2>1, <2>2, <2>3, <1>1, <1>2, <1>4, CopyShows
<1> DEFINE copy == BitsOn(f1, number)
           x1 == e.on[a]
<1>8. /\ Only(f, f1, OfNumbers({number}))
      /\ \A j \in 1 .. bits : f1.on[Bits(number, n + j)] = x1 * e.on[Bits(y, j)]
      /\ \A k \in 1 .. n : f1.on[Bits(number, k)] = 0
  BY <1>1, <1>6, <1>7 DEF Copies
<1>9. /\ x1 \in Nat /\ x1 \in Bit
      /\ \A j \in 1 .. bits : BitsOn(e, y)[j] \in Nat /\ copy[n + j] = x1 * BitsOn(e, y)[j]
      /\ \A k \in 1 .. n : copy[k] = 0
  <2>1. \A j \in 1 .. bits : j \in Nat /\ n + j \in Nat
    OBVIOUS
  <2>2. \A k \in 1 .. n : k \in Nat
    OBVIOUS
  <2>3. Bit \subseteq Nat /\ x1 \in Bit
    BY <1>1 DEF Bit
  <2> HIDE DEF x1
  <2> QED
    BY <2>1, <2>2, <2>3, <1>8 DEF BitsOn
<1>10. \A i \in 1 .. n + bits : copy[i] \in Bit
  <2>1. ASSUME NEW i \in 1 .. n + bits
        PROVE  copy[i] \in Bit
    <3>1. CASE i <= n
      BY <3>1, <1>9 DEF Bit
    <3>2. CASE n < i
      <4>1. i - n \in 1 .. bits /\ n + (i - n) = i /\ i - n \in Nat
        BY <3>2
      <4>2. copy[i] = x1 * BitsOn(e, y)[i - n]
        BY <4>1, <1>9
      <4>3. BitsOn(e, y)[i - n] \in Bit
        BY <4>1 DEF BitsOn
      <4> HIDE DEF x1, copy
      <4>4. x1 \in {0, 1} /\ BitsOn(e, y)[i - n] \in {0, 1}
        BY <4>3, <1>9 DEF Bit
      <4> QED
        BY <4>2, <4>4 DEF Bit
    <3> QED
      BY <3>1, <3>2
  <2> QED
    BY <2>1
<1>11. \A i \in Nat : f1.on[Bits(P0, i)] = f.on[Bits(P0, i)]
  <2>1. \A i \in Nat : Bits(P0, i) \in Variable \ OfNumbers({number})
    BY <1>2, VariableTypes, BitsDiffer
  <2> QED
    BY <2>1, <1>8 DEF Only
<1>12. \A i \in 1 .. bits : f1.on[Bits(P0, i)] \in Bit /\ f1.on[Bits(number, i)] \in Bit
  <2>1. \A i \in 1 .. bits : i \in Nat /\ i \in 1 .. 2 * bits /\ i \in 1 .. n + bits
    OBVIOUS
  <2>2. \A i \in 1 .. bits : copy[i] = f1.on[Bits(number, i)]
    BY <2>1 DEF BitsOn
  <2> HIDE DEF copy
  <2> QED
    BY <2>1, <2>2, <1>3, <1>10, <1>11
<1> HIDE DEF number, P0, P1, a, x1, copy
<1>13. /\ Only(f1, g, OfNumbers(AdderNumbers \union {P1}))
       /\ \A i \in 1 .. 2 * bits : g.on[Bits(P1, i)] \in Bit
       /\ SumsUp(f1, g, P0, number, P1, bits)
  BY <1>1, <1>2, <1>4, <1>12, ClearSumShows
<1>14. Only(e, g, U)
  <2>1. OfNumbers({number}) \subseteq U /\ OfNumbers(AdderNumbers \union {P1}) \subseteq U
    <3>1. AdderNumbers \union {P1} \subseteq MulNumbers /\ {number} \subseteq MulNumbers
      BY <1>2, MulVariables
    <3> QED
      BY <3>1 DEF OfNumbers
  <2> HIDE DEF U
  <2>2. Only(e, f1, U)
    BY <2>1, <1>3, <1>8, OnlyThen
  <2> QED
    BY <2>1, <2>2, <1>13, OnlyThen
<1>15. ASSUME g.functional
       PROVE  \E q \in Nat : Amount(BitsOn(g, P1), bits) + Weight[bits] * q
                               = Amount(BitsOn(e, x), n + 1) * Amount(BitsOn(e, y), bits)
  <2>1. f1.functional /\ f.functional
    BY <1>8, <1>13, <1>15 DEF Only
  <2>2. PICK q \in Nat : Amount(BitsOn(f, P0), bits) + Weight[bits] * q
                           = Amount(BitsOn(e, x), n) * Amount(BitsOn(e, y), bits)
    BY <2>1, <1>3
  <2>3. PICK r \in Nat : Amount(copy, bits + n) = Amount(copy, bits) + Weight[bits] * r
    <3>1. \A i \in 1 .. bits + n : copy[i] \in Nat
      <4>1. \A i \in 1 .. bits + n : i \in 1 .. n + bits
        OBVIOUS
      <4> QED
        BY <4>1, <1>10 DEF Bit
    <3>2. n \in Nat
      OBVIOUS
    <3>3. Splits(copy, bits, n)
      BY <3>1, <3>2, AmountSplits
    <3> QED
      BY <3>3 DEF Splits
  <2>4. Amount(copy, n + bits) = Weight[n] * (x1 * Amount(BitsOn(e, y), bits))
    BY <1>1, <1>9, AmountShifts, SMTT(30)
  <2> DEFINE W == Weight[bits]
             wn == Weight[n]
             Y  == Amount(BitsOn(e, y), bits)
             X  == Amount(BitsOn(e, x), n)
             P  == Amount(BitsOn(f, P0), bits)
             Q  == Amount(BitsOn(g, P1), bits)
             S  == Amount(copy, bits)
             c  == g.on[Carry(bits)]
  <2>5. /\ \A i \in 1 .. bits : /\ BitsOn(e, y)[i] \in Nat /\ BitsOn(e, x)[i] \in Nat
                                /\ BitsOn(f, P0)[i] \in Nat /\ BitsOn(g, P1)[i] \in Nat
                                /\ copy[i] \in Nat
        /\ \A i \in 1 .. n + 1 : BitsOn(e, x)[i] \in Nat
        /\ \A i \in 1 .. n : BitsOn(e, x)[i] \in Nat
    <3>1. Bit \subseteq Nat
      BY DEF Bit
    <3>2. \A i \in 1 .. bits : i \in Nat /\ i \in 1 .. 2 * bits /\ i \in 1 .. n + bits
      OBVIOUS
    <3>3. \A i \in 1 .. bits : /\ BitsOn(e, y)[i] \in Nat /\ BitsOn(e, x)[i] \in Nat
                               /\ BitsOn(f, P0)[i] \in Nat /\ BitsOn(g, P1)[i] \in Nat
                               /\ copy[i] \in Nat
      BY <3>1, <3>2, <1>3, <1>10, <1>13 DEF BitsOn
    <3>4. \A i \in 1 .. n + 1 : i \in 1 .. bits
      BY <1>1
    <3>5. \A i \in 1 .. n : i \in 1 .. bits
      BY <1>1
    <3> QED
      BY <3>3, <3>4, <3>5
  <2>6. /\ W \in Nat /\ wn \in Nat /\ Y \in Nat /\ X \in Nat /\ P \in Nat /\ Q \in Nat /\ S \in Nat
    BY <1>1, <2>5, AmountType, WeightPositive
  <2>7. c \in Nat
    BY <1>13 DEF SumsUp, Bit
  <2>8. Q + W * c = P + S
    <3>1. Amount(BitsOn(f1, P0), bits) = P
      <4>1. \A i \in 1 .. bits : BitsOn(f1, P0)[i] = BitsOn(f, P0)[i]
        <5>1. \A i \in 1 .. bits : i \in Nat
          OBVIOUS
        <5> QED
          BY <5>1, <1>11 DEF BitsOn
      <4> QED
        BY <4>1, AmountSame
    <3>2. Amount(BitsOn(f1, number), bits) = S
      BY DEF copy
    <3> QED
      BY <3>1, <3>2, <1>13, <1>15 DEF SumsUp
  <2>9. S + W * r = wn * (x1 * Y)
    <3>1. bits + n = n + bits
      BY <1>1
    <3> QED
      BY <3>1, <2>3, <2>4
  <2>10. P + W * q = X * Y
    BY <2>2
  <2>11. Amount(BitsOn(e, x), n + 1) = X + wn * x1
    <3>1. BitsOn(e, x)[n + 1] = x1
      BY <1>1 DEF BitsOn, x1, a
    <3>2. Amount(BitsOn(e, x), n + 1) = Amount(BitsOn(e, x), n) + Weight[n] * BitsOn(e, x)[n + 1]
      <4>1. n \in Nat /\ \A i \in 1 .. n + 1 : BitsOn(e, x)[i] \in Nat
        BY <1>1, <2>5
      <4> HIDE DEF X, wn, Y, W, P, Q, S, c
      <4> QED
        BY <4>1, AmountStep
    <3> QED
      BY <3>1, <3>2
  <2> HIDE DEF W, wn, Y, X, P, Q, S, c
  <2>12. Q + W * (c + (q + r)) = (X + wn * x1) * Y
    BY <1>9, <2>6, <2>7, <2>8, <2>9, <2>10, RowAdds
  <2>13. c + (q + r) \in Nat
    BY <2>7
  <2> QED
    BY <2>11, <2>12, <2>13 DEF Q, W, Y
<1>16. g \in View
  BY <1>14 DEF Only
<1> QED
  BY <1>13, <1>14, <1>15, <1>16 DEF Row, P1

(* The constants, and the first copy in their place.                       *)
LEMMA FirstRowShows ==
  ASSUME NEW x \in Numbers \ MulNumbers, NEW y \in Numbers \ MulNumbers, NEW bits \in Nat \ {0}, NEW e,
         \A i \in 1 .. bits : e.on[Bits(x, i)] \in Bit /\ e.on[Bits(y, i)] \in Bit,
         NEW g, Reaches(Zeros(Product(1), 2 * bits) \o PartialSums(Bits(x, 1), y, Product(1), 0, bits), e, g)
  PROVE  g \in Row(e, x, y, bits, 1)
<1> DEFINE number == Product(1)
           a  == Bits(x, 1)
           s1 == Zeros(number, 2 * bits)
           s2 == PartialSums(a, y, number, 0, bits)
           U  == OfNumbers(MulNumbers)
<1>1. /\ 1 \in Nat /\ 0 \in Nat /\ 2 * bits \in Nat /\ bits \in Nat /\ 1 \in 1 .. bits
      /\ \A i \in 1 .. bits : i \in Nat /\ i \in 1 .. 2 * bits /\ 0 + i = i
      /\ \A i \in 1 .. 2 * bits : i \in Nat
  OBVIOUS
<1>2. number \in Numbers /\ number \in MulNumbers /\ x # number /\ y # number
  BY <1>1, MulVariables
<1>3. a \in Variable /\ a \notin OfNumbers({number})
  BY <1>1, <1>2, VariableTypes, BitsDiffer
<1> HIDE DEF number
<1>4. s1 \in Seq(Call) /\ s2 \in Seq(Call)
  BY <1>1, <1>2, <1>3, ZerosTyped, PartialsTyped
<1>5. BitsOf(number, 2 * bits) \subseteq OfNumbers({number}) /\ BitsAbove(number, 0, bits) \subseteq OfNumbers({number})
  <2>1. \A i \in Nat : Bits(number, i) \in OfNumbers({number})
    BY <1>2, BitsDiffer
  <2>2. \A k \in 1 .. bits : 0 + k \in Nat
    OBVIOUS
  <2> QED
    BY <1>1, <2>1, <2>2 DEF BitsOf, BitsAbove
<1>6. \A i \in 1 .. 2 * bits : i \notin 1 .. bits => Bits(number, i) \in Variable \ BitsAbove(number, 0, bits)
  <2>1. ASSUME NEW i \in 1 .. 2 * bits, i \notin 1 .. bits
        PROVE  Bits(number, i) \in Variable \ BitsAbove(number, 0, bits)
    <3>1. i \in Nat /\ \A k \in 1 .. bits : 0 + k \in Nat /\ 0 + k # i
      BY <2>1
    <3>2. \A k \in 1 .. bits : Bits(number, 0 + k) # Bits(number, i)
      BY <3>1, <1>2, BitsDiffer
    <3>3. Bits(number, i) \in Variable
      BY <3>1, <1>2, VariableTypes
    <3> QED
      BY <3>2, <3>3 DEF BitsAbove
  <2> QED
    BY <2>1
<1>7. \A i \in 1 .. bits : Bits(x, i) \in Variable \ OfNumbers({number}) /\ Bits(y, i) \in Variable \ OfNumbers({number})
  BY <1>1, <1>2, VariableTypes, BitsDiffer
<1> HIDE DEF s1, s2, a
<1>8. PICK f : Reaches(s1, e, f) /\ Reaches(s2, f, g)
  BY <1>4, ReachesThen DEF s1, s2, a, number
<1>9. e \in View /\ f \in View
  BY <1>4, <1>8, ReachesViews
<1>10. Only(e, f, BitsOf(number, 2 * bits)) /\ \A i \in 1 .. 2 * bits : f.on[Bits(number, i)] = 0
  <2>1. Reaches(Zeros(number, 2 * bits), e, f)
    BY <1>8 DEF s1
  <2> DEFINE m == 2 * bits
  <2> HIDE DEF m
  <2>2. m \in Nat /\ Reaches(Zeros(number, m), e, f)
    BY <2>1, <1>1 DEF m
  <2>3. Only(e, f, BitsOf(number, m)) /\ \A i \in 1 .. m : f.on[Bits(number, i)] = 0
    BY <2>2, <1>2, <1>9, ZerosShow
  <2> QED
    BY <2>3 DEF m
<1>11. \A i \in 1 .. bits : f.on[Bits(x, i)] = e.on[Bits(x, i)] /\ f.on[Bits(y, i)] = e.on[Bits(y, i)]
  BY <1>5, <1>7, <1>10 DEF Only
<1>12. f.on[a] = e.on[a] /\ e.on[a] \in Bit
  BY <1>1, <1>11 DEF a
<1>13. /\ Only(f, g, BitsAbove(number, 0, bits))
       /\ \A j \in 1 .. bits : g.on[Bits(number, 0 + j)] = f.on[a] * f.on[Bits(y, j)]
  <2>1. f.on[a] \in Bit /\ \A j \in 1 .. bits : f.on[Bits(y, j)] \in Bit
    BY <1>11, <1>12
  <2>2. Reaches(PartialSums(a, y, number, 0, bits), f, g)
    BY <1>8 DEF s2
  <2> QED
    BY <2>1, <2>2, <1>1, <1>2, <1>3, <1>9, PartialsShow
<1> DEFINE x1 == e.on[a]
<1>14. \A j \in 1 .. bits : g.on[Bits(number, j)] = x1 * e.on[Bits(y, j)]
  BY <1>1, <1>11, <1>12, <1>13
<1>15. Only(e, g, U)
  <2>1. OfNumbers({number}) \subseteq U
    BY <1>2 DEF OfNumbers
  <2> HIDE DEF U
  <2>2. BitsOf(number, 2 * bits) \union BitsAbove(number, 0, bits) \subseteq U
    BY <2>1, <1>5
  <2> QED
    BY <2>2, <1>10, <1>13, OnlyThen
<1>16. \A i \in 1 .. 2 * bits : g.on[Bits(number, i)] \in Bit
  <2>1. ASSUME NEW i \in 1 .. 2 * bits, i \in 1 .. bits
        PROVE  g.on[Bits(number, i)] \in Bit
    <3> DEFINE y1 == e.on[Bits(y, i)]
    <3>1. g.on[Bits(number, i)] = x1 * y1 /\ x1 \in Bit /\ y1 \in Bit
      BY <2>1, <1>12, <1>14
    <3> HIDE DEF x1, y1
    <3>2. x1 \in {0, 1} /\ y1 \in {0, 1}
      BY <3>1 DEF Bit
    <3> QED
      BY <3>1, <3>2 DEF Bit
  <2>2. ASSUME NEW i \in 1 .. 2 * bits, i \notin 1 .. bits
        PROVE  g.on[Bits(number, i)] \in Bit
    <3>1. f.on[Bits(number, i)] = 0
      BY <1>10
    <3>2. Bits(number, i) \in Variable \ BitsAbove(number, 0, bits)
      BY <1>6, <2>2
    <3> QED
      BY <3>1, <3>2, <1>13 DEF Only, Bit
  <2> QED
    BY <2>1, <2>2
<1>17. \E q \in Nat : Amount(BitsOn(g, number), bits) + Weight[bits] * q
                        = Amount(BitsOn(e, x), 1) * Amount(BitsOn(e, y), bits)
  <2> DEFINE Y == Amount(BitsOn(e, y), bits)
  <2>1. \A i \in 1 .. bits : BitsOn(e, y)[i] \in Nat /\ BitsOn(g, number)[i] = x1 * BitsOn(e, y)[i]
    <3>1. Bit \subseteq Nat
      BY DEF Bit
    <3> QED
      BY <3>1, <1>1, <1>14 DEF BitsOn
  <2>2. x1 \in Bit
    BY <1>12
  <2>3. Amount(BitsOn(e, x), 1) = x1
    <3>1. \A i \in 1 .. 0 + 1 : BitsOn(e, x)[i] \in Nat
      <4>1. \A i \in 1 .. 0 + 1 : i \in 1 .. bits /\ i \in Nat
        OBVIOUS
      <4>2. Bit \subseteq Nat
        BY DEF Bit
      <4> QED
        BY <4>1, <4>2 DEF BitsOn
    <3>2. Amount(BitsOn(e, x), 0 + 1) = Amount(BitsOn(e, x), 0) + Weight[0] * BitsOn(e, x)[0 + 1]
      BY <3>1, AmountStep
    <3>3. BitsOn(e, x)[0 + 1] = x1 /\ x1 \in Nat
      BY <2>2 DEF BitsOn, a, Bit
    <3>4. Amount(BitsOn(e, x), 0) = 0 /\ Weight[0] = 1
      BY AmountNone, Weights
    <3> HIDE DEF x1
    <3> QED
      BY <3>2, <3>3, <3>4
  <2> HIDE DEF x1
  <2>4. Amount(BitsOn(g, number), bits) = IF x1 = 1 THEN Y ELSE 0
    BY <2>1, <2>2, SelectedAmount
  <2>5. Y \in Nat /\ Weight[bits] \in Nat
    BY <2>1, AmountType, WeightPositive
  <2> HIDE DEF Y
  <2>6. (IF x1 = 1 THEN Y ELSE 0) + Weight[bits] * 0 = x1 * Y
    BY <2>2, <2>5 DEF Bit
  <2> QED
    BY <2>3, <2>4, <2>6 DEF Y
<1>18. g \in View
  BY <1>15 DEF Only
<1> QED
  BY <1>15, <1>16, <1>17, <1>18 DEF Row, number

LEMMA MulParts ==
  ASSUME NEW x \in Numbers, NEW y \in Numbers, NEW bits \in Nat \ {0},
         NEW e, NEW g, Reaches(buildModMul(x, y, bits), e, g)
  PROVE  \E f : /\ Reaches(Zeros(Product(1), 2 * bits) \o PartialSums(Bits(x, 1), y, Product(1), 0, bits), e, f)
                /\ Reaches(FlattenSeq([n \in 1 .. bits - 1 |-> MulRow(x, y, bits, n)]), f, g)
<1> DEFINE s1 == Zeros(Product(1), 2 * bits)
           s2 == PartialSums(Bits(x, 1), y, Product(1), 0, bits)
           ss == [n \in 1 .. bits - 1 |-> MulRow(x, y, bits, n)]
           s3 == FlattenSeq(ss)
           by(j) == andGate(Bits(x, 1), Bits(y, j), Bits(Product(1), j))
           by0(j) == andGate(Bits(x, 1), Bits(y, j), Bits(Product(1), 0 + j))
<1>1. \A j \in 1 .. bits : 0 + j = j
  OBVIOUS
<1>2. \A j \in 1 .. bits : by(j) = by0(j)
  BY <1>1
<1> HIDE DEF by, by0
<1>3. [j \in 1 .. bits |-> by(j)] = [j \in 1 .. bits |-> by0(j)]
  BY <1>2
<1>4. s2 = FlattenSeq([j \in 1 .. bits |-> by(j)])
  BY <1>3 DEF by0, PartialSums
<1>5. buildModMul(x, y, bits) = s1 \o s2 \o s3
  BY <1>4, MulIs DEF by, Zeros
<1>6. s1 \in Seq(Call) /\ s2 \in Seq(Call)
  <2>1. Product(1) \in Numbers /\ Bits(x, 1) \in Variable /\ 2 * bits \in Nat
    BY MulVariables, VariableTypes
  <2> QED
    BY <2>1, ZerosTyped, PartialsTyped
<1>7. s3 \in Seq(Call)
  <2>1. bits - 1 \in Nat /\ Len(ss) = bits - 1 /\ (bits - 1 = 0 => ss = << >>)
    OBVIOUS
  <2>2. \A n \in 1 .. bits - 1 : ss[n] \in Seq(Call)
    BY MulRowTyped
  <2> HIDE DEF ss
  <2> QED
    BY <2>1, <2>2, LoopTyped
<1> HIDE DEF s1, s2, s3
<1>8. s1 \o s2 \in Seq(Call)
  BY <1>6, Joined
<1>9. PICK f : Reaches(s1 \o s2, e, f) /\ Reaches(s3, f, g)
  BY <1>5, <1>7, <1>8, ReachesThen
<1> QED
  BY <1>9 DEF s1, s2, s3

(* Cut to the width, the last row is the product.                          *)
Multiplies(e, g, x, y, bits) ==
  /\ Only(e, g, OfNumbers(MulNumbers))
  /\ \A i \in 1 .. bits : g.on[Bits(Product(bits), i)] \in Bit
  /\ g.functional =>
       Amount(BitsOn(g, Product(bits)), bits)
         = (Amount(BitsOn(e, x), bits) * Amount(BitsOn(e, y), bits)) % Weight[bits]

(* The product, cut to its width (buildModMul).                            *)
LEMMA MulShows ==
  ASSUME NEW x \in Numbers \ MulNumbers, NEW y \in Numbers \ MulNumbers, NEW bits \in Nat \ {0}, NEW e,
         \A i \in 1 .. bits : e.on[Bits(x, i)] \in Bit /\ e.on[Bits(y, i)] \in Bit,
         NEW g, Reaches(buildModMul(x, y, bits), e, g)
  PROVE  Multiplies(e, g, x, y, bits)
<1> DEFINE m  == bits - 1
           ss == [n \in 1 .. m |-> MulRow(x, y, bits, n)]
           J  == [k \in 0 .. m |-> Row(e, x, y, bits, k + 1)]
<1>1. PICK f : /\ Reaches(Zeros(Product(1), 2 * bits) \o PartialSums(Bits(x, 1), y, Product(1), 0, bits), e, f)
               /\ Reaches(FlattenSeq(ss), f, g)
  BY MulParts
<1>2. f \in Row(e, x, y, bits, 1)
  BY <1>1, FirstRowShows
<1>3. m \in Nat /\ m + 1 = bits /\ Len(ss) = m /\ (m = 0 => ss = << >>)
  OBVIOUS
<1>4. \A k \in 1 .. m : ss[k] \in Seq(Call)
  BY MulRowTyped
<1>5. ASSUME NEW k \in 1 .. m, NEW u, NEW v, u \in J[k - 1], Reaches(ss[k], u, v)
      PROVE  v \in J[k]
  <2>1. k - 1 \in 0 .. m /\ k \in 0 .. m /\ (k - 1) + 1 = k /\ k \in 1 .. bits - 1 /\ bits \in Nat
    OBVIOUS
  <2>2. J[k - 1] = Row(e, x, y, bits, (k - 1) + 1) /\ J[k] = Row(e, x, y, bits, k + 1)
    BY <2>1
  <2>3. u \in Row(e, x, y, bits, k)
    BY <1>5, <2>1, <2>2
  <2>4. Reaches(MulRow(x, y, bits, k), u, v)
    BY <1>5
  <2> HIDE DEF J, ss, m
  <2>5. v \in Row(e, x, y, bits, k + 1)
    BY <2>1, <2>3, <2>4, MulRowShows
  <2> QED
    BY <2>2, <2>5
<1>6. J[0] = Row(e, x, y, bits, 0 + 1) /\ J[m] = Row(e, x, y, bits, m + 1) /\ 0 + 1 = 1
  <2>1. 0 \in 0 .. m /\ m \in 0 .. m
    OBVIOUS
  <2> QED
    BY <2>1
<1> HIDE DEF J, ss, m
<1>7. g \in J[m]
  <2>1. \A k \in 1 .. m : \A u, v : u \in J[k - 1] /\ Reaches(ss[k], u, v) => v \in J[k]
    BY <1>5
  <2>2. f \in J[0]
    BY <1>2, <1>6
  <2> QED
    BY <2>1, <2>2, <1>1, <1>3, <1>4, ReachesLoop
<1>8. g \in Row(e, x, y, bits, bits)
  BY <1>3, <1>6, <1>7
<1>9. /\ Only(e, g, OfNumbers(MulNumbers))
      /\ \A i \in 1 .. 2 * bits : g.on[Bits(Product(bits), i)] \in Bit
      /\ g.functional =>
           \E q \in Nat : Amount(BitsOn(g, Product(bits)), bits) + Weight[bits] * q
                            = Amount(BitsOn(e, x), bits) * Amount(BitsOn(e, y), bits)
  BY <1>8 DEF Row
<1>10. \A i \in 1 .. bits : i \in Nat /\ i \in 1 .. 2 * bits
  OBVIOUS
<1>11. \A i \in 1 .. bits : BitsOn(g, Product(bits))[i] \in Bit
  BY <1>9, <1>10 DEF BitsOn
<1>12. Amount(BitsOn(g, Product(bits)), bits) \in 0 .. Weight[bits] - 1
  BY <1>11, AmountBounded
<1>13. ASSUME g.functional
       PROVE  Amount(BitsOn(g, Product(bits)), bits)
                = (Amount(BitsOn(e, x), bits) * Amount(BitsOn(e, y), bits)) % Weight[bits]
  <2> DEFINE P == Amount(BitsOn(g, Product(bits)), bits)
             W == Weight[bits]
             xy == Amount(BitsOn(e, x), bits) * Amount(BitsOn(e, y), bits)
  <2>1. PICK q \in Nat : P + W * q = xy
    BY <1>9, <1>13
  <2>2. W \in Nat \ {0}
    BY WeightPositive
  <2>3. P \in 0 .. W - 1
    BY <1>12
  <2> HIDE DEF P, W, xy
  <2>4. (q * W + P) % W = P
    BY <2>2, <2>3, Division
  <2>5. P + W * q = q * W + P
    <3>1. W * q = q * W /\ q * W \in Nat
      BY <2>2, Products
    <3> QED
      BY <3>1, <2>3
  <2> QED
    BY <2>1, <2>4, <2>5 DEF P, W, xy
<1> QED
  BY <1>9, <1>10, <1>13 DEF Multiplies

-----------------------------------------------------------------------------
(* The circuit as a view.  Several variables may point to one pin, but not *)
(* to one that is still undecided.                                         *)

NoPin == {NullPin, WildPin}

OnVariable(p, s, v) ==
  IF v \in DOMAIN p THEN IF p[v] \in NoPin THEN Absent ELSE s[p[v]] ELSE Unset

Viewed(p, s, functions) ==
  [on |-> [v \in Variable |-> OnVariable(p, s, v)], functional |-> functions]

Shown == Viewed(pin, signal, functional)

Apart(p, s) ==
  \A u, v \in DOMAIN p : u # v /\ p[u] = p[v] /\ p[u] \notin NoPin => s[p[u]] # Unset

(* What a call does to the variables it does not assign.                   *)
Keeps(p, s, p2, s2, to) ==
  /\ Apart(p2, s2)
  /\ \A v \in Variable : v # to => OnVariable(p2, s2, v) = OnVariable(p, s, v)

(* A circuit seen through its variables is a view.                         *)
LEMMA ViewTyped ==
  ASSUME NEW n \in Nat, NEW p, NEW s, NEW functions \in BOOLEAN,
         \A v \in DOMAIN p : p[v] \in 0 .. n \union NoPin, s \in [1 .. n -> Bit \union {Unset}]
  PROVE  /\ Viewed(p, s, functions) \in View
         /\ Viewed(p, s, functions).functional = functions
         /\ \A v \in Variable : Viewed(p, s, functions).on[v] = OnVariable(p, s, v)
<1>1. ASSUME NEW v \in Variable
      PROVE  OnVariable(p, s, v) \in 0 .. 3
  <2>1. CASE v \in DOMAIN p /\ p[v] \notin NoPin
    <3>1. p[v] \in 1 .. n
      BY <2>1 DEF NoPin, NullPin
    <3>2. s[p[v]] \in Bit \union {Unset}
      BY <3>1
    <3> QED
      BY <2>1, <3>2 DEF OnVariable, Bit, Unset
  <2>2. CASE ~(v \in DOMAIN p /\ p[v] \notin NoPin)
    BY <2>2 DEF OnVariable, Absent, Unset
  <2> QED
    BY <2>1, <2>2
<1>2. [v \in Variable |-> OnVariable(p, s, v)] \in [Variable -> 0 .. 3]
  BY <1>1
<1> QED
  BY <1>2 DEF Viewed, View

(* A variable pointed to a new pin, a decided one or null: the others show *)
(* what they did.                                                          *)
LEMMA PointKeeps ==
  ASSUME NEW n \in Nat, NEW p, NEW s, NEW s2, NEW to, NEW q,
         \A v \in DOMAIN p : p[v] \in 0 .. n \union NoPin, Apart(p, s),
         \A i \in 1 .. n : s2[i] = s[i],
         q \in NoPin \/ q = n + 1 \/ (q \in 1 .. n /\ s[q] # Unset),
         NEW p2, DOMAIN p2 = DOMAIN p \union {to}, p2[to] = q,
         \A v \in DOMAIN p : v # to => p2[v] = p[v]
  PROVE  /\ Keeps(p, s, p2, s2, to)
         /\ q \notin NoPin => OnVariable(p2, s2, to) = s2[q]
<1>1. DOMAIN p2 = DOMAIN p \union {to} /\ p2[to] = q
  OBVIOUS
<1>2. \A v \in DOMAIN p : p[v] \notin NoPin => s2[p[v]] = s[p[v]] /\ p[v] \in 1 .. n
  BY DEF NoPin, NullPin
<1>3. ASSUME NEW v \in Variable, v # to
      PROVE  OnVariable(p2, s2, v) = OnVariable(p, s, v)
  BY <1>1, <1>2, <1>3 DEF OnVariable
<1>4. ASSUME NEW u \in DOMAIN p2, NEW v \in DOMAIN p2, u # v, p2[u] = p2[v], p2[u] \notin NoPin
      PROVE  s2[p2[u]] # Unset
  <2>1. CASE u # to /\ v # to
    <3>1. u \in DOMAIN p /\ v \in DOMAIN p /\ p2[u] = p[u] /\ p2[v] = p[v]
      BY <2>1, <1>1
    <3>2. s[p[u]] # Unset
      BY <3>1, <1>4 DEF Apart
    <3> QED
      BY <3>1, <3>2, <1>2, <1>4
  <2>2. ASSUME NEW w \in DOMAIN p, w # to, p[w] = q, q \notin NoPin
        PROVE  s2[q] # Unset
    <3>1. q \in 1 .. n
      BY <2>2, <1>2
    <3>2. q # n + 1
      BY <3>1
    <3> QED
      BY <3>1, <3>2, <2>2
  <2>3. CASE u = to
    <3>1. v \in DOMAIN p /\ v # to /\ p[v] = q /\ q \notin NoPin
      BY <2>3, <1>1, <1>4
    <3>2. s2[q] # Unset
      BY <3>1, <2>2
    <3> QED
      BY <3>2, <2>3, <1>1
  <2>4. CASE v = to
    <3>1. u \in DOMAIN p /\ u # to /\ p[u] = q /\ q \notin NoPin
      BY <2>4, <1>1, <1>4
    <3>2. s2[q] # Unset
      BY <3>1, <2>2
    <3> QED
      BY <3>2, <2>4, <1>1, <1>4
  <2> QED
    BY <2>1, <2>3, <2>4
<1>5. Apart(p2, s2)
  BY <1>4 DEF Apart
<1>6. q \notin NoPin => OnVariable(p2, s2, to) = s2[q]
  BY <1>1 DEF OnVariable
<1>7. Keeps(p, s, p2, s2, to)
  BY <1>3, <1>5 DEF Keeps
<1> QED
  BY <1>6, <1>7

(* A pin driven for the first time has one variable only.                  *)
LEMMA DriveKeeps ==
  ASSUME NEW n \in Nat, NEW p, NEW s, NEW s2, NEW to, NEW value, to \in DOMAIN p,
         \A v \in DOMAIN p : p[v] \in 0 .. n \union NoPin, Apart(p, s), p[to] \notin NoPin,
         value # Unset, s[p[to]] # Unset => value = s[p[to]], s2[p[to]] = value, \A i \in 1 .. n : i # p[to] => s2[i] = s[i]
  PROVE  Keeps(p, s, p, s2, to) /\ OnVariable(p, s2, to) = value
<1> DEFINE third == p[to]
<1>1. third \in 1 .. n
  BY DEF NoPin, NullPin
<1>2. s2[third] = value /\ \A i \in 1 .. n : i # third => s2[i] = s[i]
  OBVIOUS
<1>3. ASSUME NEW v \in Variable, v # to
      PROVE  OnVariable(p, s2, v) = OnVariable(p, s, v)
  <2>1. CASE v \in DOMAIN p /\ p[v] \notin NoPin
    <3>1. p[v] \in 1 .. n
      BY <2>1 DEF NoPin, NullPin
    <3>2. CASE p[v] = third
      <4>1. s[third] # Unset
        BY <1>3, <2>1, <3>2 DEF Apart
      <4> QED
        BY <4>1, <1>2, <2>1, <3>2 DEF OnVariable
    <3>3. CASE p[v] # third
      BY <3>1, <3>3, <1>2, <2>1 DEF OnVariable
    <3> QED
      BY <3>2, <3>3
  <2>2. CASE ~(v \in DOMAIN p /\ p[v] \notin NoPin)
    BY <2>2 DEF OnVariable
  <2> QED
    BY <2>1, <2>2
<1>4. ASSUME NEW u \in DOMAIN p, NEW v \in DOMAIN p, u # v, p[u] = p[v], p[u] \notin NoPin
      PROVE  s2[p[u]] # Unset
  <2>1. s[p[u]] # Unset /\ p[u] \in 1 .. n
    BY <1>4 DEF Apart, NoPin, NullPin
  <2> QED
    BY <2>1, <1>2
<1>5. Apart(p, s2)
  BY <1>4 DEF Apart
<1>6. OnVariable(p, s2, to) = value
  BY <1>2 DEF OnVariable
<1> QED
  BY <1>3, <1>5, <1>6 DEF Keeps

(* addPin, seen through the variables.                                     *)
LEMMA NewPinShows ==
  ASSUME PinsTyped, MaxPins \in Nat, Apart(pin, signal), NEW record, NEW value \in Bit \union {Unset}, NewPin(record, value)
  PROVE  /\ Keeps(pin, signal, pin', signal', Current.to)
         /\ RoomForPin => OnVariable(pin', signal', Current.to) = value
<1> DEFINE n == Len(pins)
           q == IF RoomForPin THEN NewUid ELSE NullPin
<1>1. n \in Nat /\ \A v \in DOMAIN pin : pin[v] \in 0 .. n \union NoPin
  BY DEF PinsTyped, NoPin
<1>2. /\ DOMAIN pin' = DOMAIN pin \union {Current.to} /\ pin'[Current.to] = q
      /\ \A v \in DOMAIN pin : v # Current.to => pin'[v] = pin[v]
  BY DEF NewPin, Point
<1>3. signal \in Seq(Bit \union {Unset}) /\ Len(signal) = n
  BY <1>1 DEF PinsTyped
<1>4. /\ \A i \in 1 .. n : signal'[i] = signal[i]
      /\ RoomForPin => signal'[n + 1] = value
  <2>1. CASE RoomForPin
    <3>1. signal' = Append(signal, value)
      BY <2>1 DEF NewPin
    <3> QED
      BY <3>1, <1>3
  <2>2. CASE ~RoomForPin
    <3>1. signal' = signal
      BY <2>2 DEF NewPin
    <3> QED
      BY <3>1, <2>2
  <2> QED
    BY <2>1, <2>2
<1>5. q \in NoPin \/ q = n + 1 \/ (q \in 1 .. n /\ signal[q] # Unset)
  BY DEF NewUid, NoPin
<1>6. RoomForPin => q \notin NoPin /\ q = n + 1
  BY <1>1 DEF NewUid, NoPin, NullPin, WildPin, RoomForPin
<1> HIDE DEF q, n
<1>7. Keeps(pin, signal, pin', signal', Current.to)
  BY <1>1, <1>2, <1>4, <1>5, PointKeeps
<1>8. q \notin NoPin => OnVariable(pin', signal', Current.to) = signal'[q]
  BY <1>2 DEF OnVariable
<1> QED
  BY <1>4, <1>6, <1>7, <1>8

(* A gate, seen through the variables.                                     *)
LEMMA SettleShows ==
  ASSUME PinsTyped, MaxPins \in Nat, functional \in BOOLEAN, Current \in Call,
         Current.from[1] \in DOMAIN pin, Current.from[2] \in DOMAIN pin,
         NEW value \in Bit, Settle(value), RoomForGate
  PROVE  /\ Shows(Current, Shown, value)
         /\ functional' => functional /\ Disjunction(Current, Shown, value)
<1> DEFINE a == Current.from[1]
           b == Current.from[2]
<1>1. a \in Variable /\ b \in Variable
  BY CallFields
<1>2. Shown.on[a] = OnVariable(pin, signal, a) /\ Shown.on[b] = OnVariable(pin, signal, b)
  <2>1. \A v \in Variable : Shown.on[v] = OnVariable(pin, signal, v)
    BY DEF Shown, Viewed
  <2> QED
    BY <1>1, <2>1
<1>3. /\ Shown.on[a] = IF Reads[1] \in NoPin THEN Absent ELSE signal[Reads[1]]
      /\ Shown.on[b] = IF Reads[2] \in NoPin THEN Absent ELSE signal[Reads[2]]
  BY <1>2 DEF OnVariable, Reads
<1>4. /\ Reads[1] \in PinUid <=> Reads[1] \notin NoPin
      /\ Reads[2] \in PinUid <=> Reads[2] \notin NoPin
  <2>1. /\ Len(pins) \in Nat /\ Len(pins) <= MaxPins
        /\ \A v \in DOMAIN pin : pin[v] \in 0 .. Len(pins) \union {WildPin}
    BY DEF PinsTyped
  <2>2. \A q \in 0 .. Len(pins) \union {WildPin} : q \in PinUid <=> q \notin NoPin
    BY <2>1 DEF PinUid, NoPin, NullPin, WildPin
  <2> QED
    BY <2>1, <2>2 DEF Reads
<1>10. PICK seen \in [1 .. 2 -> Bit] :
         /\ \A i \in 1 .. 2 : Reads[i] \in PinUid => seen[i] = signal[Reads[i]]
         /\ combinationAllowed(Current.arg, seen[1], seen[2], value)
  BY DEF Settle, Leaves
<1>5. seen[1] \in Bit /\ seen[2] \in Bit /\ 1 \in 1 .. 2 /\ 2 \in 1 .. 2
  BY <1>10
<1>6. (Shown.on[a] # Absent => seen[1] = Shown.on[a]) /\ (Shown.on[b] # Absent => seen[2] = Shown.on[b])
  BY <1>3, <1>4, <1>5, <1>10
<1>7. Shows(Current, Shown, value)
  BY <1>5, <1>6, <1>10 DEF Shows
<1>8. IsDisjunction(value) => (value = 1 <=> Shown.on[a] = 1 \/ Shown.on[b] = 1)
  <2>1. (\E i \in 1 .. 2 : Reads[i] \in PinUid /\ signal[Reads[i]] = 1)
          <=> (Reads[1] \in PinUid /\ signal[Reads[1]] = 1) \/ (Reads[2] \in PinUid /\ signal[Reads[2]] = 1)
    <3>1. \A i \in 1 .. 2 : i = 1 \/ i = 2
      OBVIOUS
    <3> QED
      BY <3>1, <1>5
  <2>2. Absent # 1
    BY DEF Absent
  <2> QED
    BY <2>1, <2>2, <1>3, <1>4 DEF IsDisjunction
<1>9. functional' => functional /\ Disjunction(Current, Shown, value)
  <2>1. functional' = (functional /\ (Current.arg = TRUTH_OR => IsDisjunction(value)))
    BY DEF Settle
  <2> QED
    BY <2>1, <1>8 DEF Disjunction
<1> QED
  BY <1>7, <1>9

(* While there is room, a call changes the view as the call is said to.    *)
StepIs ==
  /\ Apart(pin', signal')
  /\ ~refused' => ~refused /\ Makes(Current, Shown, Shown')

(* Every call of the circuit is one of the view.                           *)
LEMMA StepShows ==
  ASSUME EmissionAssumption, CircuitAssumption, TypeInv, Apart(pin, signal), Emit
  PROVE  StepIs
<1> DEFINE to == Current.to
<1>1. /\ Current \in Call /\ Current.from[1] \in DOMAIN pin /\ Current.from[2] \in DOMAIN pin
      /\ Current.kind = "drive" => Current.to \in DOMAIN pin /\ Current.to \notin Stacked
  BY ReadsTyped DEF Emit
<1>2. /\ to \in Variable /\ Current.arg \in Byte
      /\ Current.kind = "constant" => Current.arg \in Bit
  BY <1>1, CallFields
<1>3. PinsTyped /\ functional \in BOOLEAN /\ refused \in BOOLEAN /\ MaxPins \in Nat
  BY TypeParts DEF TypeInv, TypeOK, CircuitAssumption
<1>4. /\ \A v \in Variable : Shown.on[v] = OnVariable(pin, signal, v)
      /\ \A v \in Variable : Shown'.on[v] = OnVariable(pin', signal', v)
      /\ Shown.functional = functional /\ Shown'.functional = functional'
  BY DEF Shown, Viewed
<1>5. ASSUME Keeps(pin, signal, pin', signal', to)
      PROVE  Apart(pin', signal') /\ \A v \in Variable : v # to => Shown'.on[v] = Shown.on[v]
  BY <1>4, <1>5 DEF Keeps
<1>6. CASE AddPin
  <2>1. /\ Current.kind = "pin" /\ NewPin(FloatingPin, Unset) /\ functional' = functional
        /\ refused' = (refused \/ ~RoomForPin)
    BY <1>6 DEF AddPin
  <2>2. Unset \in Bit \union {Unset}
    OBVIOUS
  <2>3. Keeps(pin, signal, pin', signal', to) /\ (RoomForPin => OnVariable(pin', signal', to) = Unset)
    BY <2>1, <2>2, <1>3, NewPinShows
  <2> QED
    BY <2>1, <2>3, <1>2, <1>3, <1>4, <1>5 DEF StepIs, Makes
<1>7. CASE AddConstant
  <2>1. /\ Current.kind = "constant" /\ NewPin(LockedPin(Current.arg), Current.arg) /\ functional' = functional
        /\ refused' = (refused \/ ~RoomForPin)
    BY <1>7 DEF AddConstant
  <2>2. Current.arg \in Bit \union {Unset}
    BY <2>1, <1>2
  <2>3. Keeps(pin, signal, pin', signal', to) /\ (RoomForPin => OnVariable(pin', signal', to) = Current.arg)
    BY <2>1, <2>2, <1>3, NewPinShows
  <2> QED
    BY <2>1, <2>3, <1>2, <1>3, <1>4, <1>5 DEF StepIs, Makes
<1>8. CASE ReadGarbage
  <2>1. Current.kind = "garbage" /\ UNCHANGED <<pins, signal, functional, refused>>
    BY <1>8 DEF ReadGarbage
  <2>2. PICK p \in { q \in PinUid : signal[q] # Unset } \union {NullPin, WildPin} : Point(to, p)
    BY <1>8 DEF ReadGarbage
  <2> DEFINE n == Len(pins)
  <2>3. /\ DOMAIN pin' = DOMAIN pin \union {to} /\ pin'[to] = p
        /\ \A v \in DOMAIN pin : v # to => pin'[v] = pin[v]
    BY <2>2 DEF Point
  <2>4. n \in Nat /\ \A v \in DOMAIN pin : pin[v] \in 0 .. n \union NoPin
    BY <1>3 DEF PinsTyped, NoPin
  <2>5. p \in NoPin \/ p = n + 1 \/ (p \in 1 .. n /\ signal[p] # Unset)
    BY <2>2 DEF PinUid, NoPin
  <2>6. \A i \in 1 .. n : signal'[i] = signal[i]
    BY <2>1
  <2> HIDE DEF n, to
  <2>8. Keeps(pin, signal, pin', signal', to)
    BY <1>3, <2>3, <2>4, <2>5, <2>6, PointKeeps
  <2> USE DEF to
  <2> QED
    BY <2>1, <2>8, <1>2, <1>3, <1>4, <1>5 DEF StepIs, Makes
<1>9. CASE AddFunction
  <2>1. PICK value \in Bit : NewPin(FloatingPin, value) /\ Settle(value)
    BY <1>9 DEF AddFunction
  <2>2. Current.kind = "gate" /\ refused' = (refused \/ ~RoomForPin \/ ~RoomForGate)
    BY <1>9 DEF AddFunction
  <2>3. Keeps(pin, signal, pin', signal', to) /\ (RoomForPin => OnVariable(pin', signal', to) = value)
    BY <2>1, <1>3, NewPinShows
  <2>4. RoomForGate => Shows(Current, Shown, value) /\ (functional' => functional /\ Disjunction(Current, Shown, value))
    BY <2>1, <1>1, <1>3, SettleShows
  <2> QED
    BY <2>2, <2>3, <2>4, <1>2, <1>3, <1>4, <1>5 DEF StepIs, Makes
<1>10. CASE DrivePin
  <2> DEFINE third == pin[to]
             n == Len(pins)
  <2>1. PICK value \in IF third = NullPin \/ signal[third] = Unset THEN Bit ELSE {signal[third]} :
          /\ signal' = IF third = NullPin THEN signal ELSE [signal EXCEPT ![third] = value]
          /\ Settle(value)
    BY <1>10 DEF DrivePin
  <2>2. /\ Current.kind = "drive" /\ pin' = pin /\ refused' = (refused \/ ~RoomForGate)
        /\ to \in DOMAIN pin /\ to[1] # "shifted"
    BY <1>10, <1>1, <1>2 DEF DrivePin, Stacked
  <2>3. /\ n \in Nat /\ (\A v \in DOMAIN pin : pin[v] \in 0 .. n \union NoPin)
        /\ signal \in [1 .. n -> Bit \union {Unset}]
        /\ third \in 0 .. n /\ third # WildPin
    BY <1>3, <2>2 DEF PinsTyped, NoPin
  <2>4. value \in Bit /\ value # Unset
    <3>1. third = NullPin \/ third \in 1 .. n
      BY <2>2, <2>3 DEF NullPin
    <3>2. third # NullPin => signal[third] \in Bit \union {Unset}
      BY <2>3, <3>1
    <3> QED
      BY <2>1, <3>2 DEF Bit, Unset
  <2>5. RoomForGate => Shows(Current, Shown, value) /\ (functional' => functional /\ Disjunction(Current, Shown, value))
    BY <2>1, <2>4, <1>1, <1>3, SettleShows
  <2>6. functional' => functional
    BY <2>1 DEF Settle
  <2>7. CASE third = NullPin
    <3>1. signal' = signal
      BY <2>1, <2>7
    <3>2. Shown.on[to] = Absent
      BY <2>2, <2>7, <1>2, <1>4 DEF OnVariable, NoPin
    <3>3. Apart(pin', signal') /\ \A v \in Variable : Shown'.on[v] = Shown.on[v]
      BY <3>1, <2>2, <1>4 DEF Apart
    <3> QED
      BY <2>2, <2>6, <3>2, <3>3, <1>3, <1>4 DEF StepIs, Makes
  <2>8. CASE third # NullPin
    <3>1. signal' = [signal EXCEPT ![third] = value] /\ (signal[third] # Unset => value = signal[third])
      BY <2>1, <2>8
    <3>2. signal'[pin[to]] = value /\ \A i \in 1 .. n : i # pin[to] => signal'[i] = signal[i]
      <4>1. third \in 1 .. n
        BY <2>2, <2>3, <2>8 DEF NullPin
      <4> QED
        BY <3>1, <4>1, <2>3
    <3>3. Keeps(pin, signal, pin', signal', to)
      <4> HIDE DEF n, to
      <4>1. /\ to \in DOMAIN pin /\ pin[to] \notin NoPin /\ pin' = pin
            /\ (signal[pin[to]] # Unset => value = signal[pin[to]])
        BY <2>2, <2>3, <2>8, <3>1 DEF NoPin
      <4>2. n \in Nat /\ (\A v \in DOMAIN pin : pin[v] \in 0 .. n \union NoPin) /\ Apart(pin, signal) /\ value # Unset
        BY <2>3, <2>4
      <4> HIDE DEF third
      <4>3. Keeps(pin, signal, pin, signal', to)
        BY <4>1, <4>2, <3>2, DriveKeeps
      <4> QED
        BY <4>1, <4>3
    <3>4. OnVariable(pin', signal', to) = value
      BY <2>2, <2>3, <2>8, <3>2 DEF OnVariable, NoPin
    <3> QED
      BY <2>2, <2>5, <3>3, <3>4, <1>2, <1>3, <1>4, <1>5 DEF StepIs, Makes
  <2> QED
    BY <2>7, <2>8
<1> QED
  BY <1>6, <1>7, <1>8, <1>9, <1>10 DEF Emit

Prefix(s, n) == [k \in 1 .. n |-> s[k]]

LEMMA PrefixNothing ==
  ASSUME NEW s
  PROVE  Prefix(s, 0) = << >>
  BY DEF Prefix

(* The calls made so far, and one more.                                    *)
LEMMA PrefixMore ==
  ASSUME NEW s \in Seq(Call), NEW n \in Nat, n < Len(s)
  PROVE  Prefix(s, n) \in Seq(Call) /\ Prefix(s, n + 1) = Append(Prefix(s, n), s[n + 1])
<1> DEFINE p == Prefix(s, n)
           q == Append(p, s[n + 1])
<1>1. \A k \in 1 .. n + 1 : k \in 1 .. Len(s) /\ s[k] \in Call
  OBVIOUS
<1>2. p \in Seq(Call) /\ Len(p) = n /\ \A k \in 1 .. n : p[k] = s[k]
  BY <1>1 DEF Prefix
<1> HIDE DEF p
<1>3. q \in Seq(Call) /\ Len(q) = n + 1
  BY <1>1, <1>2
<1>4. \A k \in 1 .. n + 1 : q[k] = s[k]
  BY <1>2
<1> HIDE DEF q
<1>5. q = [k \in 1 .. n + 1 |-> q[k]]
  BY <1>3
<1>6. q = Prefix(s, n + 1)
  BY <1>4, <1>5 DEF Prefix
<1> QED
  BY <1>2, <1>6 DEF p, q

LEMMA PrefixWhole ==
  ASSUME NEW s \in Seq(Call), NEW t \in Seq(Call)
  PROVE  Prefix(s \o t, Len(s)) = s /\ Prefix(s, Len(s)) = s
<1>1. s = [k \in 1 .. Len(s) |-> s[k]]
  OBVIOUS
<1>2. \A k \in 1 .. Len(s) : (s \o t)[k] = s[k]
  OBVIOUS
<1> QED
  BY <1>1, <1>2 DEF Prefix

-----------------------------------------------------------------------------
(* As long as there was room, the view is one the calls so far reach from  *)
(* a view that shows the client's numbers.                                 *)

Given(e) == \A variable \in Inputs(Builder, Bitwidth) : variable # Null => e.on[variable] \in Bit

Explained(script, view) == \E e : Given(e) /\ Reaches(script, e, view)

ResultsInv ==
  /\ TypeInv
  /\ Apart(pin, signal)
  /\ ~refused => Explained(Prefix(Script, at - 1), Shown)

LEMMA InputsTyped ==
  ASSUME NEW builder, NEW bits \in Nat
  PROVE  Inputs(builder, bits) \subseteq Variable
<1>1. \A j \in 1 .. Len(Operands(builder)) : Operands(builder)[j] \in Names
  BY DEF Operands, Names
<1>2. Null \in Variable
  BY VariableTypes
<1>3. ASSUME NEW j \in 1 .. Len(Operands(builder)), NEW i \in 1 .. bits
      PROVE  <<Operands(builder)[j], 0, i>> \in Variable
  BY <1>1 DEF Variable
<1> QED
  BY <1>2, <1>3 DEF Inputs

(* In the beginning the view shows the client's numbers and no call is made. *)
LEMMA InitExplained ==
  ASSUME EmissionAssumption, CircuitAssumption, Init
  PROVE  ResultsInv
<1>1. TypeInv
  BY InitTypes
<1>2. PinsTyped /\ functional \in BOOLEAN
  BY <1>1, TypeParts DEF TypeInv, TypeOK
<1>3. /\ DOMAIN pin = Inputs(Builder, Bitwidth)
      /\ pin[Null] = NullPin
      /\ \A variable \in DOMAIN pin :
           variable # Null => pin[variable] \in PinUid /\ signal[pin[variable]] \in Bit
  BY InitInputs
<1>4. Bitwidth \in Nat
  BY <1>1, ScriptTyped DEF TypeInv, TypeOK
<1>5. Apart(pin, signal)
  <2>1. \A v \in DOMAIN pin : pin[v] \notin NoPin => signal[pin[v]] # Unset
    BY <1>3 DEF Bit, Unset, NoPin
  <2> QED
    BY <2>1 DEF Apart
<1>6. Shown \in View /\ \A v \in Variable : Shown.on[v] = OnVariable(pin, signal, v)
  <2>1. \A v \in DOMAIN pin : pin[v] \in 0 .. Len(pins) \union NoPin
    BY <1>2 DEF PinsTyped, NoPin
  <2> QED
    BY <1>2, <2>1, ViewTyped DEF PinsTyped, Shown
<1>7. Given(Shown)
  <2>1. ASSUME NEW v \in Inputs(Builder, Bitwidth), v # Null
        PROVE  Shown.on[v] \in Bit
    <3>1. v \in Variable /\ v \in DOMAIN pin
      BY <1>3, <1>4, InputsTyped
    <3>2. pin[v] \notin NoPin /\ signal[pin[v]] \in Bit
      BY <3>1, <2>1, <1>2, <1>3 DEF PinsTyped, PinUid, NoPin, NullPin, WildPin, CircuitAssumption
    <3> QED
      BY <3>1, <3>2, <1>6 DEF OnVariable
  <2> QED
    BY <2>1 DEF Given
<1>8. Prefix(Script, at - 1) = << >>
  <2>1. at - 1 = 0
    BY DEF Init
  <2> QED
    BY <2>1, PrefixNothing
<1>9. Reaches(<< >>, Shown, Shown)
  BY <1>6, ReachesNothing
<1>10. Explained(Prefix(Script, at - 1), Shown)
  BY <1>7, <1>8, <1>9 DEF Explained
<1> QED
  BY <1>1, <1>5, <1>10 DEF ResultsInv

(* Each call adds one to the script that explains the view.                *)
LEMMA StepExplained ==
  ASSUME EmissionAssumption, CircuitAssumption, ResultsInv, Emit
  PROVE  ResultsInv'
<1>1. TypeInv' /\ StepIs
  BY StepTypes, StepShows DEF ResultsInv
<1>2. /\ at \in 1 .. Len(Script) /\ Current \in Call /\ Current = Script[at]
  BY ReadsTyped DEF ResultsInv, Emit, Current
<1>3. /\ Script \in Seq(Call) /\ Len(Script) \in Nat
      /\ Script' = Script /\ at' = at + 1 /\ Builder' = Builder /\ Bitwidth' = Bitwidth
  <2>1. call \in Builders \X Width
    BY DEF ResultsInv, TypeInv, TypeOK
  <2> QED
    BY <2>1, ScriptTyped DEF Emit, Script, Builder, Bitwidth
<1>4. ASSUME ~refused'
      PROVE  Explained(Prefix(Script, at - 1), Shown)'
  <2>1. Makes(Current, Shown, Shown') /\ Explained(Prefix(Script, at - 1), Shown)
    BY <1>1, <1>4 DEF StepIs, ResultsInv
  <2>2. PICK e : Given(e) /\ Reaches(Prefix(Script, at - 1), e, Shown)
    BY <2>1 DEF Explained
  <2>3. /\ Prefix(Script, at - 1) \in Seq(Call)
        /\ Prefix(Script, at) = Append(Prefix(Script, at - 1), Current)
    <3>1. at - 1 \in Nat /\ at - 1 < Len(Script) /\ (at - 1) + 1 = at
      BY <1>2, <1>3
    <3> QED
      BY <3>1, <1>2, <1>3, PrefixMore
  <2>4. Shown' \in View
    <3>1. /\ Len(pins') \in Nat
          /\ functional' \in BOOLEAN
          /\ \A v \in DOMAIN pin' : pin'[v] \in 0 .. Len(pins') \union NoPin
          /\ signal' \in [1 .. Len(pins') -> Bit \union {Unset}]
      BY <1>1 DEF TypeInv, TypeOK, PinUid, NoPin, NullPin, WildPin
    <3>2. Viewed(pin', signal', functional') \in View
      BY <3>1, ViewTyped
    <3> QED
      BY <3>2 DEF Shown
  <2>5. Reaches(Prefix(Script, at), e, Shown')
    BY <2>1, <2>2, <2>3, <2>4, <1>2, ReachesMore
  <2>6. Prefix(Script, at - 1)' = Prefix(Script, at)
    <3>1. (at + 1) - 1 = at
      BY <1>2
    <3> QED
      BY <3>1, <1>3
  <2>7. Given(e)'
    BY <2>2, <1>3 DEF Given
  <2> QED
    BY <2>5, <2>6, <2>7 DEF Explained
<1> QED
  BY <1>1, <1>4 DEF ResultsInv, StepIs

LEMMA ResultsKept ==
  ASSUME EmissionAssumption, CircuitAssumption, ResultsInv, [Next]_emissionVars
  PROVE  ResultsInv'
<1>1. CASE Emit
  BY <1>1, StepExplained
<1>2. CASE UNCHANGED emissionVars
  <2>1. TypeInv'
    BY <1>2, TypesKept DEF ResultsInv
  <2>2. /\ pin' = pin /\ signal' = signal /\ functional' = functional /\ at' = at /\ refused' = refused
        /\ Script' = Script /\ Builder' = Builder /\ Bitwidth' = Bitwidth
    BY <1>2 DEF emissionVars, Script, Builder, Bitwidth
  <2>3. Shown' = Shown /\ Prefix(Script, at - 1)' = Prefix(Script, at - 1)
    BY <2>2 DEF Shown
  <2>4. Explained(Prefix(Script, at - 1), Shown) => Explained(Prefix(Script, at - 1), Shown)'
    BY <2>2, <2>3 DEF Explained, Given
  <2> QED
    BY <2>1, <2>2, <2>4 DEF ResultsInv
<1> QED
  BY <1>1, <1>2 DEF Next

LEMMA ResultsExplained == Spec => []ResultsInv
<1>1. Init => ResultsInv
  BY InitExplained, EmissionAssumption, CircuitAssumption
<1>2. ResultsInv /\ [Next]_emissionVars => ResultsInv'
  BY ResultsKept, EmissionAssumption, CircuitAssumption
<1> QED
  BY <1>1, <1>2, PTL DEF Spec

-----------------------------------------------------------------------------
(* From the view back to the signals of the circuit. *)

LEMMA ResultsTyped ==
  ASSUME EmissionAssumption, ResultsInv
  PROVE  /\ PinsTyped
         /\ functional \in BOOLEAN
         /\ Builder \in Builders /\ Bitwidth \in Width /\ Bitwidth \in Nat \ {0}
         /\ Script \in Seq(Call) /\ Len(Script) \in Nat
         /\ at \in 1 .. Len(Script) + 1
<1>1. PinsTyped /\ functional \in BOOLEAN /\ call \in Builders \X Width /\ at \in 1 .. Len(Script) + 1
  BY TypeParts DEF ResultsInv, TypeInv, TypeOK
<1>2. Builder \in Builders /\ Bitwidth \in Width
  BY <1>1 DEF Builder, Bitwidth
<1> QED
  BY <1>1, <1>2, ScriptTyped

(* What the view shows on a variable is the solution's value of its pin.   *)
LEMMA ShownSignals ==
  ASSUME PinsTyped, NEW v \in Variable, Shown.on[v] \in Bit
  PROVE  signal[pin[v]] = Shown.on[v]
<1>1. Shown.on[v] = OnVariable(pin, signal, v)
  BY DEF Shown, Viewed
<1>2. v \in DOMAIN pin /\ pin[v] \notin NoPin
  BY <1>1 DEF OnVariable, Absent, Unset, Bit
<1> QED
  BY <1>1, <1>2 DEF OnVariable

BitsKnown(e, number, n) == \A i \in 1 .. n : e.on[Bits(number, i)] \in Bit

(* A number of the solution is the amount its bits show.                   *)
LEMMA NumberShown ==
  ASSUME PinsTyped, NEW number \in Numbers, NEW n \in Nat, BitsKnown(Shown, number, n)
  PROVE  /\ NumberOn([i \in 1 .. n |-> Bits(number, i)]) = Amount(BitsOn(Shown, number), n)
         /\ \A i \in 1 .. n : signal[pin[Bits(number, i)]] = Shown.on[Bits(number, i)]
<1> DEFINE variables == [i \in 1 .. n |-> Bits(number, i)]
           F == [i \in DOMAIN variables |-> Weight[i - 1] * signal[pin[variables[i]]]]
<1>1. ASSUME NEW i \in 1 .. n
      PROVE  signal[pin[Bits(number, i)]] = Shown.on[Bits(number, i)]
  BY VariableTypes, ShownSignals DEF BitsKnown
<1>2. \A i \in 1 .. n : Weight[i - 1] * signal[pin[variables[i]]] = Weight[i - 1] * BitsOn(Shown, number)[i]
  BY <1>1 DEF BitsOn
<1>3. F = Worth(BitsOn(Shown, number), n)
  BY <1>2 DEF Worth
<1>4. NumberOn(variables) = SumFunction(F)
  BY DEF NumberOn
<1>5. SumFunction(F) = Total(F)
  BY SumIsTotal
<1> QED
  BY <1>1, <1>3, <1>4, <1>5 DEF Amount

(* All bits of the client's numbers are decided.                           *)
LEMMA InputsKnown ==
  ASSUME EmissionAssumption, ResultsInv, NEW e, Given(e)
  PROVE  /\ BitsKnown(e, A, Bitwidth)
         /\ Builder \notin {"buildModInv", "buildREDC", "buildModSquare"} => BitsKnown(e, B, Bitwidth)
         /\ Builder \notin {"buildModInv", "buildREDC", "buildModSquare", "buildModMul",
                            "buildMontMul", "buildModCompare"} => BitsKnown(e, M, Bitwidth)
<1>1. \A number \in {A, B, M}, i \in 1 .. Bitwidth : Bits(number, i) # Null
  BY DEF Bits, A, B, M, Number, Null
<1>2. ASSUME NEW number \in {A, B, M}, BitsOf(number, Bitwidth) \subseteq Inputs(Builder, Bitwidth)
      PROVE  BitsKnown(e, number, Bitwidth)
  BY <1>1, <1>2 DEF BitsKnown, Given, BitsOf
<1> QED
  BY <1>2, InputsAre

(* A number that a script does not work on is worth what it was.           *)
LEMMA NumberKept ==
  ASSUME NEW e, NEW g, NEW numbers, Only(e, g, OfNumbers(numbers)),
         NEW number \in Numbers, number \notin numbers, NEW n \in Nat
  PROVE  /\ BitsKnown(e, number, n) => BitsKnown(g, number, n)
         /\ \A i \in 1 .. n : g.on[Bits(number, i)] = e.on[Bits(number, i)]
         /\ Amount(BitsOn(g, number), n) = Amount(BitsOn(e, number), n)
<1>1. ASSUME NEW i \in 1 .. n
      PROVE  g.on[Bits(number, i)] = e.on[Bits(number, i)]
  <2>1. Bits(number, i) \in Variable /\ Bits(number, i) \notin OfNumbers(numbers)
    BY VariableTypes, BitsDiffer
  <2> QED
    BY <2>1 DEF Only
<1>2. Amount(BitsOn(g, number), n) = Amount(BitsOn(e, number), n)
  <2>1. \A i \in 1 .. n : BitsOn(g, number)[i] = BitsOn(e, number)[i]
    BY <1>1 DEF BitsOn
  <2> QED
    BY <2>1, AmountSame
<1> QED
  BY <1>1, <1>2 DEF BitsKnown

-----------------------------------------------------------------------------
(* The sum, on the way. *)

LEMMA PrefixEarlier ==
  ASSUME NEW s \in Seq(Call), NEW t \in Seq(Call), NEW n \in Nat, n <= Len(s)
  PROVE  Prefix(s \o t, n) = Prefix(s, n)
<1>1. \A k \in 1 .. n : (s \o t)[k] = s[k]
  OBVIOUS
<1> QED
  BY <1>1 DEF Prefix

LEMMA SummingFirst ==
  ASSUME NEW bits \in Nat \ {0}
  PROVE  Prefix(buildModAdd(bits), Len(Summing(bits))) = Summing(bits) /\ Len(Summing(bits)) \in Nat
<1> DEFINE sum  == Number("sum")
           diff == Number("diff")
           s1 == Summing(bits)
           s2 == cmpLT(M, sum, bits)
           s3 == sub(sum, M, diff, bits)
           s4 == chooseCompared(diff, sum, bits)
           n  == Len(s1)
<1>1. buildModAdd(bits) = s1 \o s2 \o s3 \o s4
  BY DEF buildModAdd
<1>2. s1 \in Seq(Call) /\ s2 \in Seq(Call) /\ s3 \in Seq(Call) /\ s4 \in Seq(Call)
  <2>1. M \in Numbers /\ sum \in Numbers /\ diff \in Numbers
    BY WorkNumbers
  <2> HIDE DEF sum, diff
  <2> QED
    BY <2>1, SummingTyped, PartsTyped
<1> HIDE DEF s1, s2, s3, s4
<1>3. /\ s1 \o s2 \in Seq(Call) /\ s1 \o s2 \o s3 \in Seq(Call)
      /\ n \in Nat /\ n <= Len(s1 \o s2) /\ n <= Len(s1 \o s2 \o s3)
  BY <1>2
<1>4. Prefix(s1 \o s2 \o s3 \o s4, n) = Prefix(s1 \o s2 \o s3, n)
  <2> DEFINE r == s1 \o s2 \o s3
  <2>1. r \in Seq(Call) /\ n <= Len(r)
    BY <1>3
  <2> HIDE DEF r, n
  <2>2. Prefix(r \o s4, n) = Prefix(r, n)
    BY <2>1, <1>2, <1>3, PrefixEarlier
  <2> QED
    BY <2>2 DEF r
<1>5. Prefix(s1 \o s2 \o s3, n) = Prefix(s1 \o s2, n)
  <2> DEFINE r == s1 \o s2
  <2>1. r \in Seq(Call) /\ n <= Len(r)
    BY <1>3
  <2> HIDE DEF r, n
  <2>2. Prefix(r \o s3, n) = Prefix(r, n)
    BY <2>1, <1>2, <1>3, PrefixEarlier
  <2> QED
    BY <2>2 DEF r
<1>6. Prefix(s1 \o s2, n) = s1
  BY <1>2, PrefixWhole
<1> QED
  BY <1>1, <1>3, <1>4, <1>5, <1>6 DEF s1

(* The sum within buildModAdd is bounded by the sum, and is it where OR    *)
(* gates show their disjunctions.                                          *)
LEMMA SumsHold ==
  ASSUME EmissionAssumption, ResultsInv
  PROVE  SumsBounded
<1> SUFFICES ASSUME Builder = "buildModAdd", at = Len(Summing(Bitwidth)) + 1, ~refused
             PROVE  LET shown == Value(Number("sum")) + Weight[Bitwidth] * signal[pin[Carry(Bitwidth)]]
                    IN /\ shown <= Value(A) + Value(B)
                       /\ functional => shown = Value(A) + Value(B)
  BY DEF SumsBounded
<1> DEFINE n == Bitwidth
           sum == Number("sum")
<1>1. PinsTyped /\ Builder \in Builders /\ n \in Width /\ n \in Nat \ {0}
  BY ResultsTyped
<1>2. Script = buildModAdd(n)
  BY <1>1 DEF Script, Calls
<1>3. Prefix(Script, at - 1) = Summing(n)
  <2>1. at - 1 = Len(Summing(n))
    BY <1>1, SummingFirst
  <2> QED
    BY <2>1, <1>1, <1>2, SummingFirst
<1>4. PICK e : Given(e) /\ Reaches(Summing(n), e, Shown)
  BY <1>3 DEF ResultsInv, Explained
<1>5. BitsKnown(e, A, n) /\ BitsKnown(e, B, n)
  BY <1>4, InputsKnown
<1>6. /\ A \in Numbers \ AdderNumbers /\ B \in Numbers \ AdderNumbers /\ sum \in Numbers \ AdderNumbers
      /\ sum # A /\ sum # B
  BY WorkNumbers
<1>7. PICK f : Reaches(constPin(0, Carry(0)), e, f) /\ Reaches(add(A, B, sum, n), f, Shown)
  <2>1. constPin(0, Carry(0)) \in Seq(Call) /\ add(A, B, sum, n) \in Seq(Call)
    BY <1>1, <1>6, VariableTypes, SinglesTyped, PartsTyped DEF Bit
  <2>2. Reaches(constPin(0, Carry(0)) \o add(A, B, sum, n), e, Shown)
    BY <1>4 DEF Summing
  <2> QED
    BY <2>1, <2>2, ReachesThen
<1> HIDE DEF sum, n
<1>8. n \in Nat /\ n \in 0 .. n
  BY <1>1
<1>9. \A i \in 1 .. n : e.on[Bits(A, i)] \in Bit /\ e.on[Bits(B, i)] \in Bit
  BY <1>5 DEF BitsKnown
<1>10. /\ Only(e, Shown, OfNumbers(AdderNumbers \union {sum}))
       /\ \A i \in 1 .. n : Shown.on[Bits(sum, i)] \in Bit
       /\ SumsUp(e, Shown, A, B, sum, n)
  BY <1>6, <1>7, <1>8, <1>9, ClearSumShows
<1>11. BitsKnown(Shown, A, n) /\ BitsKnown(Shown, B, n) /\ BitsKnown(Shown, sum, n)
  <2>1. A \notin AdderNumbers \union {sum} /\ B \notin AdderNumbers \union {sum}
    BY <1>6
  <2>2. BitsKnown(Shown, A, n) /\ BitsKnown(Shown, B, n)
    BY <2>1, <1>5, <1>6, <1>8, <1>10, NumberKept
  <2> QED
    BY <2>2, <1>10 DEF BitsKnown
<1>12. /\ Amount(BitsOn(Shown, A), n) = Amount(BitsOn(e, A), n)
       /\ Amount(BitsOn(Shown, B), n) = Amount(BitsOn(e, B), n)
  <2>1. A \notin AdderNumbers \union {sum} /\ B \notin AdderNumbers \union {sum}
    BY <1>6
  <2> QED
    BY <2>1, <1>6, <1>8, <1>10, NumberKept
<1>13. /\ Value(A) = Amount(BitsOn(Shown, A), n) /\ Value(B) = Amount(BitsOn(Shown, B), n)
       /\ Value(sum) = Amount(BitsOn(Shown, sum), n)
  BY <1>1, <1>6, <1>8, <1>11, NumberShown DEF Value, n
<1>14. signal[pin[Carry(n)]] = Shown.on[Carry(n)]
  <2>1. Shown.on[Carry(n)] \in Bit /\ Carry(n) \in Variable
    BY <1>8, <1>10, VariableTypes DEF SumsUp
  <2> QED
    BY <2>1, <1>1, ShownSignals
<1>15. Shown.functional = functional
  BY DEF Shown, Viewed
<1> QED
  BY <1>10, <1>12, <1>13, <1>14, <1>15 DEF SumsUp, n, sum

-----------------------------------------------------------------------------
(* What the builders hand back. *)

(* What the last call leaves.                                              *)
LEMMA BuilderDone ==
  ASSUME EmissionAssumption, ResultsInv, Done, ~refused
  PROVE  Explained(Script, Shown)
<1>1. Script \in Seq(Call) /\ Len(Script) \in Nat /\ at \in 1 .. Len(Script) + 1
  BY ResultsTyped
<1>2. at - 1 = Len(Script)
  BY <1>1 DEF Done
<1>3. Prefix(Script, at - 1) = Script
  <2>1. << >> \in Seq(Call)
    OBVIOUS
  <2> QED
    BY <2>1, <1>1, <1>2, PrefixWhole
<1> QED
  BY <1>3 DEF ResultsInv

(* The first alternative, where the selector is high.                      *)
LEMMA SelectOutcome ==
  ASSUME EmissionAssumption, ResultsInv, Done, ~refused, Builder = "buildSelect",
         signal[pin[Bits(M, 1)]] = 1
  PROVE  /\ \A i \in 1 .. Bitwidth : signal[pin[Bits(Out, i)]] <= signal[pin[Bits(A, i)]]
         /\ functional => Outcome = Value(A)
<1> DEFINE n == Bitwidth
           p == signal[pin[Bits(M, 1)]]
<1>1. PinsTyped /\ Builder \in Builders /\ n \in Width /\ n \in Nat \ {0}
  BY ResultsTyped
<1>2. Script = buildSelect(n) /\ Result(Builder, n) = [i \in 1 .. n |-> Bits(Out, i)]
  BY <1>1 DEF Script, Calls, Result
<1>3. PICK e : Given(e) /\ Reaches(buildSelect(n), e, Shown)
  BY <1>2, BuilderDone DEF Explained
<1>4. BitsKnown(e, A, n) /\ BitsKnown(e, M, n)
  BY <1>3, InputsKnown
<1>5. /\ A \in Numbers /\ M \in Numbers /\ Out \in Numbers
      /\ A \notin SelectNumbers /\ M \notin SelectNumbers
  BY VariableTypes DEF Names, A, M, Out, Number, SelectNumbers
<1> HIDE DEF n
<1>6. n \in Nat /\ 1 \in 1 .. n
  BY <1>1
<1>7. Only(e, Shown, OfNumbers(SelectNumbers)) /\ Selects(e, Shown, n)
  <2>1. e.on[Bits(M, 1)] \in Bit /\ \A i \in 1 .. n : e.on[Bits(A, i)] \in Bit
    BY <1>4, <1>6 DEF BitsKnown
  <2> QED
    BY <2>1, <1>1, <1>3, SelectShows
<1>8. /\ BitsKnown(Shown, A, n) /\ BitsKnown(Shown, M, n)
      /\ \A i \in 1 .. n : /\ Shown.on[Bits(A, i)] = e.on[Bits(A, i)]
                           /\ Shown.on[Bits(M, i)] = e.on[Bits(M, i)]
  BY <1>4, <1>5, <1>6, <1>7, NumberKept
<1>9. BitsKnown(Shown, Out, n)
  BY <1>7 DEF Selects, BitsKnown
<1>10. /\ Value(A) = Amount(BitsOn(Shown, A), n)
       /\ \A i \in 1 .. n : /\ signal[pin[Bits(A, i)]] = Shown.on[Bits(A, i)]
                            /\ signal[pin[Bits(M, i)]] = Shown.on[Bits(M, i)]
                            /\ signal[pin[Bits(Out, i)]] = Shown.on[Bits(Out, i)]
  BY <1>1, <1>5, <1>6, <1>8, <1>9, NumberShown DEF Value, n
<1>11. Outcome = Amount(BitsOn(Shown, Out), n)
  BY <1>1, <1>2, <1>5, <1>6, <1>9, NumberShown DEF Outcome, n
<1>12. p = Shown.on[Bits(M, 1)] /\ p = e.on[Bits(M, 1)] /\ p \in Bit
  BY <1>6, <1>8, <1>10 DEF BitsKnown
<1>15. p = 1
  OBVIOUS
<1> HIDE DEF p
<1>13. ASSUME NEW i \in 1 .. n
       PROVE  signal[pin[Bits(Out, i)]] <= signal[pin[Bits(A, i)]]
  <2>1. Shown.on[Bits(Out, i)] <= p * Shown.on[Bits(A, i)]
    BY <1>7, <1>8, <1>12 DEF Selects
  <2>2. Shown.on[Bits(A, i)] \in Nat /\ p = 1
    BY <1>8, <1>15 DEF BitsKnown, Bit
  <2> QED
    BY <2>1, <2>2, <1>10
<1>14. ASSUME functional
       PROVE  Outcome = Value(A)
  <2>1. Shown.functional
    BY <1>14 DEF Shown, Viewed
  <2>2. \A i \in 1 .. n : Shown.on[Bits(Out, i)] = p * Shown.on[Bits(A, i)]
    BY <2>1, <1>7, <1>8, <1>12 DEF Selects
  <2>3. \A i \in 1 .. n : Shown.on[Bits(A, i)] \in Nat
    BY <1>8 DEF BitsKnown, Bit
  <2>4. \A i \in 1 .. n : BitsOn(Shown, A)[i] \in Nat /\ BitsOn(Shown, Out)[i] = p * BitsOn(Shown, A)[i]
    BY <2>2, <2>3 DEF BitsOn
  <2>5. Amount(BitsOn(Shown, Out), n) = IF p = 1 THEN Amount(BitsOn(Shown, A), n) ELSE 0
    BY <2>4, <1>6, <1>12, SelectedAmount
  <2> QED
    BY <2>5, <1>10, <1>11, <1>15
<1> QED
  BY <1>13, <1>14 DEF n

(* The product, cut to its width.                                          *)
LEMMA MulOutcome ==
  ASSUME EmissionAssumption, ResultsInv, Done, ~refused,
         Builder \in {"buildModMul", "buildMontMul", "buildModSquare"}, functional
  PROVE  LET y == IF Builder = "buildModSquare" THEN A ELSE B
         IN  Outcome = (Value(A) * Value(y)) % Weight[Bitwidth]
<1> DEFINE n == Bitwidth
           y == IF Builder = "buildModSquare" THEN A ELSE B
<1>1. PinsTyped /\ Builder \in Builders /\ n \in Width /\ n \in Nat \ {0}
  BY ResultsTyped
<1>2. Script = buildModMul(A, y, n) /\ Result(Builder, n) = [i \in 1 .. n |-> Bits(Product(n), i)]
  BY <1>1 DEF Script, Calls, Result
<1>3. PICK e : Given(e) /\ Reaches(buildModMul(A, y, n), e, Shown)
  BY <1>2, BuilderDone DEF Explained
<1>4. BitsKnown(e, A, n) /\ BitsKnown(e, y, n)
  BY <1>3, InputsKnown
<1>5. A \in Numbers \ MulNumbers /\ y \in Numbers \ MulNumbers
  <2>1. A \in Numbers \ AdderNumbers /\ B \in Numbers \ AdderNumbers
    BY WorkNumbers
  <2>2. \A m \in Nat : A # Product(m) /\ A # Shifted(m) /\ B # Product(m) /\ B # Shifted(m)
    BY DEF A, B, Number, Product, Shifted
  <2> QED
    BY <2>1, <2>2 DEF MulNumbers
<1> HIDE DEF n, y
<1>6. n \in Nat /\ Product(n) \in Numbers
  BY <1>1, VariableTypes
<1>7. Multiplies(e, Shown, A, y, n)
  <2>1. \A i \in 1 .. n : e.on[Bits(A, i)] \in Bit /\ e.on[Bits(y, i)] \in Bit
    BY <1>4 DEF BitsKnown
  <2> QED
    BY <2>1, <1>1, <1>3, <1>5, MulShows
<1>8. /\ Only(e, Shown, OfNumbers(MulNumbers))
      /\ BitsKnown(Shown, Product(n), n)
      /\ Shown.functional =>
           Amount(BitsOn(Shown, Product(n)), n)
             = (Amount(BitsOn(e, A), n) * Amount(BitsOn(e, y), n)) % Weight[n]
  BY <1>7 DEF Multiplies, BitsKnown
<1>9. Shown.functional
  BY DEF Shown, Viewed
<1>10. /\ BitsKnown(Shown, A, n) /\ BitsKnown(Shown, y, n)
       /\ Amount(BitsOn(Shown, A), n) = Amount(BitsOn(e, A), n)
       /\ Amount(BitsOn(Shown, y), n) = Amount(BitsOn(e, y), n)
  BY <1>4, <1>5, <1>6, <1>8, NumberKept
<1>11. /\ Value(A) = Amount(BitsOn(Shown, A), n) /\ Value(y) = Amount(BitsOn(Shown, y), n)
       /\ Outcome = Amount(BitsOn(Shown, Product(n)), n)
  BY <1>1, <1>2, <1>5, <1>6, <1>8, <1>10, NumberShown DEF Value, Outcome, n
<1>12. Outcome = (Value(A) * Value(y)) % Weight[n]
  BY <1>8, <1>9, <1>10, <1>11
<1> QED
  BY <1>12 DEF n, y

(* Every builder, by its case.                                             *)
LEMMA OutcomeHolds ==
  ASSUME EmissionAssumption, ResultsInv
  PROVE  OutcomeKnown
<1> SUFFICES ASSUME Done, ~refused
             PROVE  /\ Builder \in {"buildModMul", "buildMontMul"} /\ functional =>
                         Outcome = (Value(A) * Value(B)) % Weight[Bitwidth]
                    /\ Builder = "buildModSquare" /\ functional =>
                         Outcome = (Value(A) * Value(A)) % Weight[Bitwidth]
                    /\ Builder = "buildSelect" /\ signal[pin[Bits(M, 1)]] = 1 =>
                         /\ \A i \in 1 .. Bitwidth : signal[pin[Bits(Out, i)]] <= signal[pin[Bits(A, i)]]
                         /\ functional => Outcome = Value(A)
  BY DEF OutcomeKnown
<1>1. ASSUME Builder \in {"buildModMul", "buildMontMul"}, functional
      PROVE  Outcome = (Value(A) * Value(B)) % Weight[Bitwidth]
  BY <1>1, MulOutcome
<1>2. ASSUME Builder = "buildModSquare", functional
      PROVE  Outcome = (Value(A) * Value(A)) % Weight[Bitwidth]
  BY <1>2, MulOutcome
<1>3. ASSUME Builder = "buildSelect", signal[pin[Bits(M, 1)]] = 1
      PROVE  /\ \A i \in 1 .. Bitwidth : signal[pin[Bits(Out, i)]] <= signal[pin[Bits(A, i)]]
             /\ functional => Outcome = Value(A)
  BY <1>3, SelectOutcome
<1> QED
  BY <1>1, <1>2, <1>3

(* For every width, every client and every solution of a circuit that had  *)
(* room: the adder shows at most the sum, and the sum where its OR gates   *)
(* show their disjunctions; then a product is the product cut to its width *)
(* and a high selector hands its first alternative through (ModContext::   *)
(* add, buildModMul, buildModSquare, buildMontMul, buildSelect).           *)
THEOREM ResultsHold == Spec => []ResultsKnown
<1>1. ResultsInv => ResultsKnown
  BY SumsHold, OutcomeHolds, EmissionAssumption DEF ResultsKnown
<1> QED
  BY <1>1, ResultsExplained, PTL

=============================================================================
