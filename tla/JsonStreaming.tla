--------------------------- MODULE JsonStreaming ---------------------------
(***************************************************************************)
(* JsonWriter as the text a call emits, JsonReader as a position in a text *)
(* with two flags: eof_, raised by reading past the end, and ok_, lowered  *)
(* for good by the first error.                                            *)
(*                                                                         *)
(* A text is a sequence of symbols: a mark, a word, a number or the whole  *)
(* inside of a string.  The inside of a string may itself look like a mark *)
(* (a name may be a bracket).  Names without quotation marks pass escaping *)
(* and unescaping unchanged, the writer emits no white space, and where    *)
(* the reader's buffer is refilled cannot be seen from outside.            *)
(*                                                                         *)
(* Symbol is all that may stand in a text or be read from one, MaxNumber   *)
(* the largest number that has a symbol.                                   *)
(***************************************************************************)
EXTENDS Integers, Sequences, SequencesExt

CONSTANTS Symbol, MaxNumber

VARIABLES file, reader

Quote  == "\""
End    == "\\0"    \* what the reader returns when it has nothing

Number   == 0 .. MaxNumber
Numeral  == [n \in Number |-> ToString(n)]
Numerals == { Numeral[n] : n \in Number }

(* What is neither a number, a key nor a name.                             *)
Mark == {"{", "}", "[", "]", ",", ":", Quote, End, "true", "false", "", "no name"}

ASSUME SymbolAssumption ==
  /\ MaxNumber \in Nat
  /\ Numeral \in [Number -> Symbol]
  /\ Mark \subseteq Symbol \ Numerals

Reader == [pos : Nat \ {0}, eof : BOOLEAN, ok : BOOLEAN]

JsonTypeOK ==
  /\ file \in Seq(Symbol)
  /\ reader \in Reader

-----------------------------------------------------------------------------
(* JsonWriter *)

writeNumber(value) == <<Numeral[value]>>
writeString(text)  == <<Quote, text, Quote>>
writeBool(value)   == <<IF value THEN "true" ELSE "false">>
writeKey(key)      == <<Quote, key, Quote, ":">>

(* The loops of the writers: a skipped element is an empty text, and the   *)
(* comma depends on the position of an element, not on what was written.   *)
Listed(open, elements, close) ==
  LET Add(text, i) ==
        LET element == elements[i]
        IN  text \o IF i = 1 \/ element = << >> THEN element ELSE <<",">> \o element
  IN  <<open>> \o FoldLeftDomain(Add, << >>, elements) \o <<close>>

-----------------------------------------------------------------------------
(* JsonReader: an operation takes the reader it is called on to the reader *)
(* it leaves.                                                              *)

Fresh == [pos |-> 1, eof |-> FALSE, ok |-> TRUE]

HasMore(r)  == r.ok /\ r.pos <= Len(file)
refill(r)   == [r EXCEPT !.eof = @ \/ (r.ok /\ ~HasMore(r))]
setError(r) == [r EXCEPT !.ok = FALSE]

peek == [r \in Reader |-> IF HasMore(r) THEN file[r.pos] ELSE End]
get  == [r \in Reader |-> IF HasMore(r) THEN [r EXCEPT !.pos = @ + 1] ELSE refill(r)]

consume(r, expected) == IF peek[r] = expected THEN get[r] ELSE refill(r)

(* The reader at the next of the marks at or after "from", or at the end.  *)
Seek(r, from, marks) ==
  LET found[p \in Nat] ==
        IF p > Len(file) \/ file[p] \in marks
        THEN [r EXCEPT !.pos = p, !.eof = p > Len(file)]
        ELSE found[p + 1]
  IN  found[from]

readString == [r \in Reader |->
  IF peek[r] # Quote THEN setError(refill(r))
  ELSE LET closing == Seek(r, r.pos + 1, {Quote})
       IN  IF closing.eof THEN setError(closing) ELSE get[closing]]

(* What readString puts into a destination that was empty: an unterminated *)
(* string leaves what there was of it.  Text between two strings, met only *)
(* by a reader that has lost its place, is no name and no key.             *)
stringAt == [r \in Reader |->
  IF peek[r] # Quote \/ r.pos = Len(file) THEN ""
  ELSE IF r.pos + 2 > Len(file) \/ file[r.pos + 2] = Quote THEN file[r.pos + 1] ELSE "no name"]

readUnsigned == [r \in Reader |-> IF peek[r] \in Numerals THEN get[r] ELSE setError(refill(r))]
unsignedAt   == [r \in Reader |-> CHOOSE n \in Number : Numeral[n] = file[r.pos]]

(* Anything but "true" is an error before "false" is looked for.           *)
readBool == [r \in Reader |-> IF peek[r] = "true" THEN get[r] ELSE setError(get[r])]

(* Fault: a loop does not look for the end of the file.                    *)
LoopsUntilFault(r, close) == peek[r] # close

(* A loop "while (peek() != close && !eof())" goes on.                     *)
LoopsUntil(r, close) == peek[r] # close /\ ~refill(r).eof

(* Past the mark that balances the one under the reader, counting marks    *)
(* only: those inside strings count like any other.                        *)
PastBalance(r, open, close) ==
  LET Depth(p, depth) ==
        CASE file[p] = open  -> depth + 1
          [] file[p] = close -> depth - 1
          [] OTHER           -> depth
      past[p \in Nat] ==
        [depth \in Nat |->
           IF depth = 0 \/ p > Len(file)
           THEN [r EXCEPT !.pos = p, !.eof = depth # 0]
           ELSE past[p + 1][Depth(p, depth)]]
  IN  past[r.pos + 1][1]

skipValue == [r \in Reader |->
  CASE peek[r] = "{"   -> PastBalance(r, "{", "}")
    [] peek[r] = "["   -> PastBalance(r, "[", "]")
    [] peek[r] = Quote -> readString[r]
    [] peek[r] = End   -> refill(r)
    [] OTHER           -> Seek(r, r.pos, {",", "}", "]"})]

=============================================================================
