------------------------------ MODULE MCROBDD ------------------------------
(* The manager of decision diagrams on a small table: hash functions and   *)
(* operation numbers of the code, slot numbers for node addresses.         *)
EXTENDS ROBDD, Bitwise

Address(n) == n + 1
MCOpCode(op) == CASE op = "AND" -> 11 [] op = "OR" -> 12 [] op = "XOR" -> 13
MCUniqueBucket(v, l, h) == ((v * 31 + Address(l)) * 31 + Address(h)) % TableSize
MCComputedBucket(a, b, op) == ((Address(a) * 31 + Address(b)) ^^ MCOpCode(op)) % TableSize

=============================================================================
