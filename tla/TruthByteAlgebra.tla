-------------------------- MODULE TruthByteAlgebra --------------------------
(***************************************************************************)
(* Zero-cost inversion: instead of an inverter on a pin, the gate's truth  *)
(* byte is permuted by invertPinA, invertPinB and invertPinC.  A behaviour *)
(* starts from any byte and applies any sequence of inversions; the byte   *)
(* must at every moment be the relation of a gate with inverters on just   *)
(* the pins that were inverted an odd number of times.                     *)
(***************************************************************************)
EXTENDS Virtual3PinGate

VARIABLES
  original,    \* the byte the gate was configured with
  permuted,    \* the byte after the inversions so far
  inverted     \* history: the pins inverted an odd number of times

algebraVars == <<original, permuted, inverted>>

MASK_A      == 85    \* 0x55
MASK_B      == 51    \* 0x33
MASK_EVEN_A == 170   \* 0xAA
MASK_EVEN_B == 204   \* 0xCC

ToByte(n) == n % 256

(* The lowest twelve bits of an int: a byte shifted left by four has no    *)
(* more.                                                                   *)
Weight == <<1, 2, 4, 8, 16, 32, 64, 128, 256, 512, 1024, 2048>>

BitOf(n, i) == (n \div Weight[i]) % 2

(* The number that twelve bits stand for, four to a hexadecimal digit.     *)
HexDigit(a, b, c, d) == a + (2 * b) + (4 * c) + (8 * d)
HexNumber(x, y, z) == x + (16 * y) + (256 * z)

FromBits(bit) ==
  HexNumber(HexDigit(bit[1], bit[2], bit[3], bit[4]),
            HexDigit(bit[5], bit[6], bit[7], bit[8]),
            HexDigit(bit[9], bit[10], bit[11], bit[12]))

(* The operators & and | of the language.                                  *)
BitAnd(x, y) ==
  FromBits([i \in DOMAIN Weight |-> IF BitOf(x, i) = 1 /\ BitOf(y, i) = 1 THEN 1 ELSE 0])
BitOr(x, y) ==
  FromBits([i \in DOMAIN Weight |-> IF BitOf(x, i) = 1 \/ BitOf(y, i) = 1 THEN 1 ELSE 0])

invertPinA(byte) == ToByte(BitOr(BitAnd(byte, MASK_EVEN_A) \div 2, BitAnd(byte, MASK_A) * 2))

(* Fault: the mask of pin A is used for pin B.                             *)
invertPinBFault(byte) ==
  ToByte(BitOr(BitAnd(byte, MASK_EVEN_B) \div 4, BitAnd(byte, MASK_A) * 4))

invertPinB(byte) == ToByte(BitOr(BitAnd(byte, MASK_EVEN_B) \div 4, BitAnd(byte, MASK_B) * 4))
invertPinC(byte) == ToByte(BitOr(byte \div 16, byte * 16))

Toggle(S, x) == IF x \in S THEN S \ {x} ELSE S \union {x}

AlgebraInit ==
  /\ original \in Byte
  /\ permuted = original
  /\ inverted = {}

InvertA ==
  /\ permuted' = invertPinA(permuted)
  /\ inverted' = Toggle(inverted, "A")
  /\ UNCHANGED original

InvertB ==
  /\ permuted' = invertPinB(permuted)
  /\ inverted' = Toggle(inverted, "B")
  /\ UNCHANGED original

InvertC ==
  /\ permuted' = invertPinC(permuted)
  /\ inverted' = Toggle(inverted, "C")
  /\ UNCHANGED original

AlgebraNext == InvertA \/ InvertB \/ InvertC

AlgebraSpec == AlgebraInit /\ [][AlgebraNext]_algebraVars

(* The value an inverter on pin p, if there is one, turns v into. *)
Through(p, v) == IF p \in inverted THEN 1 - v ELSE v

(* Any sequence of invertPinA/B/C, in any order and with repetitions, gives *)
(* the truth byte of the original gate behind inverters on exactly the pins *)
(* inverted an odd number of times: no permutation disturbs another pin or  *)
(* loses a row of the table (Virtual3PinGate.cpp, invertPinA/B/C).          *)
InversionIsExact ==
  \A a, b, c \in Bit :
    combinationAllowed(permuted, a, b, c)
      <=> combinationAllowed(original, Through("A", a), Through("B", b), Through("C", c))

=============================================================================
