-------------------------- MODULE Virtual3PinGate --------------------------
(***************************************************************************)
(* The one primitive every circuit is built from: a gate of up to three    *)
(* pins whose 8-bit truth byte says which combinations of pin values are   *)
(* legal.  Bit 4c + 2b + a of the byte is the verdict on the combination   *)
(* (a, b, c); signal values are 0 and 1.                                   *)
(***************************************************************************)
EXTENDS Integers

Bit  == {0, 1}
Byte == 0 .. 255

(* The named truth bytes. *)
TRUTH_AND    == 135  \* 0x87
TRUTH_XOR    == 105  \* 0x69
TRUTH_OR     == 239  \* 0xEF
TRUTH_EQUAL  == 150  \* 0x96
TRUTH_BUFFER == 9    \* 0x09
TRUTH_INVERT == 6    \* 0x06
TRUTH_UNIVERSAL_FREEDOM       == 255
TRUTH_UNIVERSAL_CONTRADICTION == 0

CombinationIndex(a, b, c) == 4 * c + 2 * b + a

(* 1U << index *)
BitWeight == <<1, 2, 4, 8, 16, 32, 64, 128>>

combinationAllowed(truth_byte, a, b, c) ==
  (truth_byte \div BitWeight[CombinationIndex(a, b, c) + 1]) % 2 = 1

(* The truth byte the synthesis layer takes for a math operation; every    *)
(* operation without a byte of its own falls back to TRUTH_XOR.            *)
truthByteFor(operation) ==
  CASE operation \in {"AND", "BAND"}       -> TRUTH_AND
    [] operation \in {"XOR", "BXOR", "NE"} -> TRUTH_XOR
    [] operation \in {"OR", "BOR"}         -> TRUTH_OR
    [] operation = "EQ"                    -> TRUTH_EQUAL
    [] operation = "NOT"                   -> TRUTH_INVERT
    [] OTHER                               -> TRUTH_XOR

=============================================================================
