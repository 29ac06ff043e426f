------------------------- MODULE ModularArithmetic -------------------------
(***************************************************************************)
(* The circuits ModularArithmetic builds over pins of its client.  What a  *)
(* builder does depends on the width alone: no call of addPin, lockPin or  *)
(* addGate is looked at, so a builder is the sequence of its calls, and an *)
(* action executes one.  Where the circuit has no room left a call returns *)
(* a null pin or adds no gate, and the builder goes on with that.          *)
(*                                                                         *)
(* Along with the circuit grows one of its solutions, chosen pin by pin:   *)
(* over all behaviours "signal" is every solution of what is built.  The   *)
(* solver derives of an output what all solutions agree on.                *)
(*                                                                         *)
(* Bits are numbered from 1.  Builders are the calls a client may make,    *)
(* Width the widths, OccupiedPins and OccupiedGates what a circuit may     *)
(* hold already; a width beyond the arrays of the code (65536) is left     *)
(* out.                                                                    *)
(***************************************************************************)
EXTENDS CircuitTopology, FiniteSets, SequencesExt

CONSTANTS Builders, Width, OccupiedPins, OccupiedGates

ASSUME EmissionAssumption ==
  /\ Builders \subseteq {"buildModAdd", "buildModSub", "buildModMul", "buildModSquare",
                         "buildMontMul", "buildModInv", "buildREDC", "buildModCompare",
                         "buildSelect"}
  /\ Width \subseteq Nat \ {0}
  /\ OccupiedPins \union OccupiedGates \subseteq Nat

VARIABLES
  call,        \* the builder under way and its width
  at,          \* the calls it has made, plus one
  pin,         \* the pins its variables point to
  signal,      \* a solution of the circuit so far, Unset where nothing decides a pin
  functional,  \* history: every OR gate so far has its disjunction for a signal
  refused      \* history: the circuit had no room for a pin or a gate

emissionVars == <<pins, gates, call, at, pin, signal, functional, refused>>

Unset == 2

(* What an entry of a local array points to that nobody has set, where it  *)
(* is not null and no pin of the circuit: no uid is ever as high.          *)
WildPin == MaxPins + 1

FloatingPin  == [state |-> "FLOATING", locked |-> FALSE, value |-> 0]
LockedPin(v) == [state |-> SignalFor(v), locked |-> TRUE, value |-> v]

-----------------------------------------------------------------------------
(* The calls.  A variable of the code is a triple of its name, the         *)
(* iteration of the loop it is assigned in and its bit; to is the variable *)
(* that receives the pin, from the two a gate reads.                       *)

Null == <<"nullptr", 0, 0>>

Emission(kind, arg, from, to) == [kind |-> kind, arg |-> arg, from |-> from, to |-> to]

temp(to)        == << Emission("pin", 0, <<Null, Null>>, to) >>
constPin(v, to) == << Emission("constant", v, <<Null, Null>>, to) >>
garbage(to)     == << Emission("garbage", 0, <<Null, Null>>, to) >>

gate(byte, a, b, to)  == << Emission("gate", byte, <<a, b>>, to) >>
drive(byte, a, b, to) == << Emission("drive", byte, <<a, b>>, to) >>

andGate(a, b, to) == gate(TRUTH_AND, a, b, to)
xorGate(a, b, to) == gate(TRUTH_XOR, a, b, to)
orGate(a, b, to)  == gate(TRUTH_OR, a, b, to)
notGate(a, to)    == gate(TRUTH_INVERT, a, Null, to)

InTurn(calls(_), n) == FlattenSeq([k \in 1 .. n |-> calls(k)])

Local(name) == <<name, 0, 0>>

(* The majority's own pin comes first and is driven last.                  *)
majGate(a, b, c, to) ==
  temp(to) \o andGate(a, b, Local("ab")) \o andGate(a, c, Local("ac"))
    \o andGate(b, c, Local("bc")) \o orGate(Local("ab"), Local("ac"), Local("ab_or_ac"))
    \o drive(TRUTH_OR, Local("ab_or_ac"), Local("bc"), to)

(* Fault: the second half of the sum leaves out the carry.                 *)
fullAdderFault(a, b, cin, sum, cout) ==
  xorGate(a, b, Local("a_xor_b")) \o xorGate(Local("a_xor_b"), b, sum)
    \o majGate(a, b, cin, cout)

fullAdder(a, b, cin, sum, cout) ==
  xorGate(a, b, Local("a_xor_b")) \o xorGate(Local("a_xor_b"), cin, sum)
    \o majGate(a, b, cin, cout)

Carry(i) == <<"carry", 0, i>>

(* A number is the name and iteration of its bits; the carry into bit i is *)
(* Carry(i - 1).  Two pins per bit are added for nothing.                  *)
Bits(number, i) == <<number[1], number[2], i>>

add(a, b, sum, bits) ==
  LET bit(i) == temp(Local("s")) \o temp(Local("c"))
                  \o fullAdder(Bits(a, i), Bits(b, i), Carry(i - 1), Bits(sum, i), Carry(i))
  IN InTurn(bit, bits)

Number(name) == <<name, 0>>

sub(a, b, diff, bits) ==
  LET complement(i) == notGate(Bits(b, i), <<"not_b", 0, i>>)
  IN InTurn(complement, bits) \o constPin(1, Carry(0))
       \o add(a, Number("not_b"), diff, bits)

(* From the highest bit down; the verdict is Compared.                     *)
Compared == <<"gt", 0, 1>>

cmpLT(a, b, bits) ==
  LET gt(i) == <<"gt", 0, i>>
      eq(i) == <<"eq", 0, i>>
      bit(k) ==
        LET i == bits + 1 - k
        IN notGate(Bits(b, i), Local("not_b"))
             \o andGate(Bits(a, i), Local("not_b"), Local("a_gt_b"))
             \o xorGate(Bits(a, i), Bits(b, i), Local("a_ne_b"))
             \o notGate(Local("a_ne_b"), Local("a_eq_b"))
             \o andGate(eq(i + 1), gt(i + 1), Local("eq_and_gt"))
             \o orGate(Local("a_gt_b"), Local("eq_and_gt"), gt(i))
             \o andGate(eq(i + 1), Local("a_eq_b"), eq(i))
  IN constPin(0, gt(bits + 1)) \o constPin(1, eq(bits + 1)) \o InTurn(bit, bits)

-----------------------------------------------------------------------------
(* The builders, over the client's numbers a, b and m. *)

A == Number("a")
B == Number("b")
M == Number("m")
Out == Number("out")

(* Fault: the second alternative is let through by the wrong side.         *)
chooseFault(sel, not_sel, x, y, i) ==
  andGate(sel, Bits(x, i), Local("t1")) \o andGate(sel, Bits(y, i), Local("t2"))
    \o orGate(Local("t1"), Local("t2"), Bits(Out, i))

choose(sel, not_sel, x, y, i) ==
  andGate(sel, Bits(x, i), Local("t1")) \o andGate(not_sel, Bits(y, i), Local("t2"))
    \o orGate(Local("t1"), Local("t2"), Bits(Out, i))

chooseCompared(x, y, bits) ==
  LET bit(i) == notGate(Compared, Local("not_cmp")) \o choose(Compared, Local("not_cmp"), x, y, i)
  IN InTurn(bit, bits)

Summing(bits) == constPin(0, Carry(0)) \o add(A, B, Number("sum"), bits)

buildModAdd(bits) ==
  Summing(bits) \o cmpLT(M, Number("sum"), bits)
    \o sub(Number("sum"), M, Number("diff"), bits)
    \o chooseCompared(Number("diff"), Number("sum"), bits)

buildModSub(bits) ==
  sub(A, B, Number("diff"), bits) \o cmpLT(A, B, bits) \o constPin(0, Carry(0))
    \o add(Number("diff"), M, Number("sum"), bits)
    \o chooseCompared(Number("sum"), Number("diff"), bits)

Product(i) == <<"product", i>>
Shifted(i) == <<"shifted", i>>

(* Fault: the first products are driven onto the constants already there.  *)
firstPartialFault(x, y, j) == drive(TRUTH_AND, Bits(x, 1), Bits(y, j), Bits(Product(1), j))

(* The first products take the place of the constants.                     *)
firstPartial(x, y, j) == andGate(Bits(x, 1), Bits(y, j), Bits(Product(1), j))

(* Each bit of x adds a shifted copy of y; above that copy the array holds *)
(* what the stack held.                                                    *)
buildModMul(x, y, bits) ==
  LET clear(k)     == constPin(0, Bits(Product(1), k))
      first(j)     == firstPartial(x, y, j)
      further(n)   ==
        LET i == n + 1
            partial(j) == andGate(Bits(x, i), Bits(y, j), Bits(Shifted(i), n + j))
            below(k)   == constPin(0, Bits(Shifted(i), k))
            above(k)   == garbage(Bits(Shifted(i), n + bits + k))
        IN InTurn(partial, bits) \o InTurn(below, n)
             \o InTurn(above, bits - n) \o constPin(0, Carry(0))
             \o add(Product(n), Shifted(i), Product(i), 2 * bits)
  IN InTurn(clear, 2 * bits) \o InTurn(first, bits) \o InTurn(further, bits - 1)

buildModCompare(bits) ==
  LET zero(k) == constPin(0, Bits(Out, k + 1))
  IN cmpLT(A, B, bits) \o InTurn(zero, bits - 1)

(* The first bit of m is the selector.                                     *)
buildSelect(bits) ==
  LET bit(i) == choose(Bits(M, 1), Local("not_sel"), A, B, i)
  IN notGate(Bits(M, 1), Local("not_sel")) \o InTurn(bit, bits)

(* buildModInv and buildREDC hand back their operand.                      *)
Calls ==
  [builder \in Builders |-> [bits \in Width |->
     CASE builder = "buildModAdd"     -> buildModAdd(bits)
       [] builder = "buildModSub"     -> buildModSub(bits)
       [] builder \in {"buildModMul", "buildMontMul"} -> buildModMul(A, B, bits)
       [] builder = "buildModSquare"  -> buildModMul(A, A, bits)
       [] builder = "buildModCompare" -> buildModCompare(bits)
       [] builder = "buildSelect"     -> buildSelect(bits)
       [] OTHER                       -> << >>]]

(* The pins handed back, lowest bit first.                                 *)
Result(builder, bits) ==
  CASE builder \in {"buildModInv", "buildREDC"} -> [i \in 1 .. bits |-> Bits(A, i)]
    [] builder \in {"buildModMul", "buildModSquare", "buildMontMul"} ->
         [i \in 1 .. bits |-> Bits(Product(bits), i)]
    [] builder = "buildModCompare" -> [i \in 1 .. bits |-> IF i = 1 THEN Compared ELSE Bits(Out, i)]
    [] OTHER -> [i \in 1 .. bits |-> Bits(Out, i)]

-----------------------------------------------------------------------------
Builder == call[1]
Bitwidth == call[2]

Script  == Calls[Builder][Bitwidth]
Done    == at > Len(Script)
Current == Script[at]

(* Pointers are followed unchecked: those of the builders are null or lead *)
(* to a pin, and so do those of their gates, except for the part of the    *)
(* array of shifted products that nothing sets and for gates that read it. *)
TypeOK ==
  /\ pins \in Seq(PinRecord)
  /\ gates \in Seq(GateRecord)
  /\ Len(pins) <= MaxPins
  /\ Len(gates) <= MaxGates
  /\ \A g \in 1 .. Len(gates) :
       /\ \A i \in Position : gates[g].pin[i] \in PinUid \union {NullPin, WildPin}
       /\ gates[g].pin[3] # WildPin
  /\ call \in Builders \X Width
  /\ at \in 1 .. Len(Script) + 1
  /\ \A variable \in DOMAIN pin :
       /\ pin[variable] \in PinUid \union {NullPin, WildPin}
       /\ pin[variable] = WildPin => variable[1] = "shifted"
  /\ signal \in [PinUid -> Bit \union {Unset}]
  /\ functional \in BOOLEAN
  /\ refused \in BOOLEAN

Operands(builder) ==
  CASE builder \in {"buildModInv", "buildREDC", "buildModSquare"} -> <<"a">>
    [] builder \in {"buildModMul", "buildMontMul", "buildModCompare"} -> <<"a", "b">>
    [] OTHER -> <<"a", "b", "m">>

(* The client's numbers, bit by bit, are pins of the circuit, which may    *)
(* hold others and gates of its own.                                       *)
Init ==
  /\ call \in Builders \X Width
  /\ at = 1
  /\ LET operand == [p \in 1 .. Bitwidth * Len(Operands(Builder)) |->
                      <<Operands(Builder)[(p - 1) \div Bitwidth + 1], 0, ((p - 1) % Bitwidth) + 1>>]
     IN /\ \E others \in OccupiedPins :
             /\ Len(operand) + others <= MaxPins
             /\ pins = [p \in 1 .. Len(operand) + others |-> FloatingPin]
        /\ pin = [variable \in {Null} \union Range(operand) |->
                    IF variable = Null THEN NullPin ELSE AntiFunction(operand)[variable]]
        /\ \E values \in [DOMAIN operand -> Bit] :
             signal = [p \in PinUid |-> IF p <= Len(operand) THEN values[p] ELSE Unset]
  /\ \E others \in OccupiedGates :
       /\ others <= MaxGates
       /\ gates = [g \in 1 .. others |->
                    [pin |-> <<NullPin, NullPin, NullPin>>, truth_byte |-> TRUTH_UNIVERSAL_FREEDOM,
                     released |-> TRUE]]
  /\ functional = TRUE
  /\ refused = FALSE

-----------------------------------------------------------------------------
RoomForPin  == Len(pins) < MaxPins
RoomForGate == Len(gates) < MaxGates

Point(variable, p) ==
  pin' = [known \in DOMAIN pin \union {variable} |-> IF known = variable THEN p ELSE pin[known]]

(* Fault: the variable is left pointing behind the last pin.               *)
NewUidFault == Len(pins) + 2

NewUid == Len(pins) + 1

(* addPin: its pin goes to the variable of the call, null without room.    *)
NewPin(record, value) ==
  IF RoomForPin
  THEN /\ pins' = Append(pins, record)
       /\ signal' = Append(signal, value)
       /\ Point(Current.to, NewUid)
  ELSE /\ Point(Current.to, NullPin)
       /\ UNCHANGED <<pins, signal>>

AddPin ==
  /\ Current.kind = "pin"
  /\ NewPin(FloatingPin, Unset)
  /\ refused' = (refused \/ ~RoomForPin)
  /\ UNCHANGED <<gates, functional>>

AddConstant ==
  /\ Current.kind = "constant"
  /\ NewPin(LockedPin(Current.arg), Current.arg)
  /\ refused' = (refused \/ ~RoomForPin)
  /\ UNCHANGED <<gates, functional>>

(* A pointer nobody has set: null, a pin the circuit has, or wild.  A pin  *)
(* it gets only later is among the wild ones too.                          *)
ReadGarbage ==
  /\ Current.kind = "garbage"
  /\ \E p \in { q \in PinUid : signal[q] # Unset } \union {NullPin, WildPin} : Point(Current.to, p)
  /\ UNCHANGED <<pins, gates, signal, functional, refused>>

(* The two pins the gate reads.                                            *)
Reads == << pin[Current.from[1]], pin[Current.from[2]] >>

(* addGate, and a signal it leaves to its third pin: any, without a gate.  *)
AddGate(third) ==
  IF RoomForGate
  THEN gates' = Append(gates, [pin |-> <<Reads[1], Reads[2], third>>,
                               truth_byte |-> Current.arg, released |-> FALSE])
  ELSE UNCHANGED gates

(* Of a pointer that leads to no pin any signal may be read.               *)
Leaves(value) ==
  RoomForGate =>
    \E seen \in [1 .. 2 -> Bit] :
      /\ \A i \in 1 .. 2 : Reads[i] \in PinUid => seen[i] = signal[Reads[i]]
      /\ combinationAllowed(Current.arg, seen[1], seen[2], value)

IsDisjunction(value) ==
  value = 1 <=> \E i \in 1 .. 2 : Reads[i] \in PinUid /\ signal[Reads[i]] = 1

Settle(value) ==
  /\ Leaves(value)
  /\ functional' = (functional /\ (Current.arg = TRUTH_OR => IsDisjunction(value)))

AddFunction ==
  /\ Current.kind = "gate"
  /\ AddGate(IF RoomForPin THEN NewUid ELSE NullPin)
  /\ \E value \in Bit : NewPin(FloatingPin, value) /\ Settle(value)
  /\ refused' = (refused \/ ~RoomForPin \/ ~RoomForGate)

(* A gate over a third pin that is there already; had there been no room   *)
(* for it the gate tries for another and finds none either.                *)
DrivePin ==
  /\ Current.kind = "drive"
  /\ LET third == pin[Current.to]
         undecided == third = NullPin \/ signal[third] = Unset
     IN /\ AddGate(third)
        /\ \E value \in IF undecided THEN Bit ELSE {signal[third]} :
             /\ signal' = IF third = NullPin THEN signal ELSE [signal EXCEPT ![third] = value]
             /\ Settle(value)
  /\ refused' = (refused \/ ~RoomForGate)
  /\ UNCHANGED <<pins, pin>>

Emit ==
  /\ ~Done
  /\ AddPin \/ AddConstant \/ ReadGarbage \/ AddFunction \/ DrivePin
  /\ at' = at + 1
  /\ UNCHANGED call

Next == Emit

Spec == Init /\ [][Next]_emissionVars

(* A builder is straight code.                                             *)
FairSpec == Spec /\ WF_emissionVars(Emit)

-----------------------------------------------------------------------------
(* What a client can rely on. *)

(* What a bit is worth: 2 ^ i.                                             *)
Weight[i \in Nat] == IF i = 0 THEN 1 ELSE 2 * Weight[i - 1]

(* The number on a sequence of variables, lowest bit first.                *)
NumberOn(variables) ==
  SumFunction([i \in DOMAIN variables |-> Weight[i - 1] * signal[pin[variables[i]]]])

Value(number) == NumberOn([i \in 1 .. Bitwidth |-> Bits(number, i)])
Outcome       == NumberOn(Result(Builder, Bitwidth))

(* Every solution of a circuit without a gate more has a solution with it, *)
(* whatever has run out on the way: no builder, given any numbers, ends in *)
(* a contradiction (ModContext's gates, the results of temp and constPin   *)
(* unchecked).                                                             *)
BuildsEnd == <>Done

(* The adder never shows more than the sum, and shows the sum where its OR *)
(* gates, which do not have to, show their disjunctions: TRUTH_OR forbids  *)
(* one row only (ModContext::add, fullAdder, majGate).                     *)
SumsBounded ==
  Builder = "buildModAdd" /\ at = Len(Summing(Bitwidth)) + 1 /\ ~refused =>
    LET shown == Value(Number("sum")) + Weight[Bitwidth] * signal[pin[Carry(Bitwidth)]]
    IN /\ shown <= Value(A) + Value(B)
       /\ functional => shown = Value(A) + Value(B)

(* What a builder that had room hands back.  A product is cut to its width *)
(* before the entries that nothing has set can disturb it, and a selector  *)
(* that is high lets its first alternative through.                        *)
OutcomeKnown ==
  Done /\ ~refused =>
    /\ Builder \in {"buildModMul", "buildMontMul"} /\ functional =>
         Outcome = (Value(A) * Value(B)) % Weight[Bitwidth]
    /\ Builder = "buildModSquare" /\ functional => Outcome = (Value(A) * Value(A)) % Weight[Bitwidth]
    /\ Builder = "buildSelect" /\ signal[pin[Bits(M, 1)]] = 1 =>
         /\ \A i \in 1 .. Bitwidth : signal[pin[Bits(Out, i)]] <= signal[pin[Bits(A, i)]]
         /\ functional => Outcome = Value(A)

(* Both: what is known of the sum on the way and of the result.            *)
ResultsKnown == SumsBounded /\ OutcomeKnown

-----------------------------------------------------------------------------
(* What the interface promises and the code does not do.                   *)

(* Operands below the modulus, as the arithmetic of a field has them.      *)
Reduced == Value(A) < Value(M) /\ Value(B) < Value(M)

(* "out = (a + b) mod m" (ModularArithmetic.hpp, buildModAdd), where every *)
(* gate has had room and every OR gate shows its disjunction.  The choice  *)
(* between the sum and what is left of it without m goes by inverters that *)
(* show 0.                                                                 *)
SumsReduced ==
  Builder = "buildModAdd" /\ Done /\ ~refused /\ functional /\ Reduced =>
    Outcome = (Value(A) + Value(B)) % Value(M)

=============================================================================
