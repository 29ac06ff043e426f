---------------------------- MODULE SessionState ----------------------------
(***************************************************************************)
(* Saving a workspace to a file and loading it back, over the lives of     *)
(* several processes.  A save writes the text of the workspace and may     *)
(* stop anywhere (the disk is full, the process dies); a load goes through *)
(* the file member by member and adds what it reads to the workspace of    *)
(* the process, one action per turn of one of its loops.  A process that   *)
(* is restarted has an empty workspace and the file its predecessor left.  *)
(*                                                                         *)
(* The bit index of a pin travels with its variable uid and is left out,   *)
(* and so are the constants and equations of a model: the file has them    *)
(* without their contents and a load skips them.                           *)
(*                                                                         *)
(* MaxVariables, MaxPins and MaxGates are the room there is for each in a  *)
(* workspace, MaxRegistered bounds the models and the circuits of one      *)
(* process (the last of each is the current one), Rooms what a disk may have room for when a save begins, in   *)
(* symbols.  MaxEdits bounds the edits of all processes together; once     *)
(* there is a file, MaxLateEdits does.                                     *)
(***************************************************************************)
EXTENDS JsonStreaming

CONSTANTS
  Names, ItemNames, Widths, Wirings, TruthBytes, Seeds,
  MaxVariables, MaxPins, MaxGates, MaxRegistered, Rooms, MaxEdits, MaxLateEdits

NullPin  == 0
Position == 1 .. 3
Bit      == {0, 1}

(* The keys of a session, and the name of what a new process has.          *)
Keyword ==
  {"registries", "models", "circuits", "model", "circuit", "prng", "allocator", "diagnostics",
   "variables", "constants", "equations", "pins", "gates", "buses", "uid", "name", "bits", "state",
   "locked", "value", "var_uid", "truth", "pin_a", "pin_b", "pin_c", "seed", "s0", "page_count",
   "error_flag", "default"}

ASSUME SessionAssumption ==
  /\ Keyword \subseteq Symbol
  /\ Names \union ItemNames \subseteq Symbol \ ({"", Quote} \union Numerals)
  /\ Widths \subseteq Number \ {0}
  /\ {MaxVariables, MaxPins, MaxGates, MaxRegistered, 255} \subseteq Number
  /\ {MaxEdits, MaxLateEdits} \subseteq Nat /\ MaxRegistered # 0 /\ MaxLateEdits <= MaxEdits
  /\ Wirings \subseteq [Position -> Nat]
  /\ TruthBytes \subseteq 0 .. 255
  /\ Seeds \subseteq Number
  /\ Rooms \subseteq Nat

VARIABLES
  workspace,  \* the names in the two registries, the current model's variables,
              \*   the current circuit, the PRNG's seed
  pc,         \* the loop a load is in: an object, an array or a record; "idle" outside
  fields,     \* what has been read of that record
  complete,   \* what the last save returned
  result,     \* history: how the last load ended, "none" once anything else happens
  saved,      \* history: the workspace of the last save
  before,     \* history: the workspace when the last load began, or now if something
              \*   else has happened since
  edits       \* history: edits so far

store == <<file, complete, saved>>
vars  == <<workspace, file, reader, pc, fields, complete, result, saved, before, edits>>

FLOATING == 0
ZERO     == 1
ONE      == 2

Object == {"session", "model", "circuit"}
Array  == {"variables", "pins", "gates"}
Record == {"variable", "pin", "gate", "prng"}

(* What may be read inside what.  Any other key is skipped over.           *)
Objects  == [session |-> {"model", "circuit", "prng"}, model |-> {}, circuit |-> {}]
Arrays   == [session |-> {}, model |-> {"variables"}, circuit |-> {"pins", "gates"}]
Element  == [variables |-> "variable", pins |-> "pin", gates |-> "gate"]
Parent   == [model |-> "session", circuit |-> "session", prng |-> "session",
             variables |-> "model", pins |-> "circuit", gates |-> "circuit",
             variable |-> "variables", pin |-> "pins", gate |-> "gates"]
Numbers  == [variable |-> {"uid", "bits"}, pin |-> {"uid", "state", "var_uid"},
             gate |-> {"uid", "truth", "pin_a", "pin_b", "pin_c"},
             prng |-> {"seed", "counter", "s0", "s1", "s2", "s3"}]
Strings  == [variable |-> {"name"}, pin |-> {"name"}, gate |-> {}, prng |-> {}]
Booleans == [variable |-> {}, pin |-> {"locked", "value"}, gate |-> {}, prng |-> {}]

NumberKey == UNION { Numbers[r] : r \in Record }

NoFields ==
  [number |-> [k \in NumberKey |-> 0], name |-> "", locked |-> FALSE, value |-> FALSE]

PinRecord ==
  [uid : Number, name : Symbol, state : Number, locked : BOOLEAN, value : BOOLEAN,
   var_uid : Number]
GateRecord ==
  [uid : Number, truth : 0 .. 255, pin : [Position -> 0 .. MaxPins], released : BOOLEAN]

Workspace ==
  [models : Seq(Symbol), circuits : Seq(Symbol),
   variables : Seq([name : Symbol, bits : Number \ {0}]),
   pins : Seq(PinRecord), gates : Seq(GateRecord), seed : Number]

(* A shell seeds its generator before anything else, other programs do     *)
(* when they please: seedPrng.                                             *)
NewProcess ==
  [models |-> <<"default">>, circuits |-> <<"default">>,
   variables |-> << >>, pins |-> << >>, gates |-> << >>, seed |-> 0]

TypeOK ==
  /\ JsonTypeOK
  /\ {workspace, saved, before} \subseteq Workspace
  /\ Len(workspace.variables) <= MaxVariables
  /\ Len(workspace.pins) <= MaxPins
  /\ Len(workspace.gates) <= MaxGates
  /\ pc \in {"idle"} \union Object \union Array \union Record
  /\ fields \in [number : [NumberKey -> Number], name : Symbol, locked : BOOLEAN, value : BOOLEAN]
  /\ complete \in BOOLEAN
  /\ result \in {"none", "loaded", "refused", "rejected"}
  /\ edits \in 0 .. MaxEdits

Init ==
  /\ workspace = NewProcess
  /\ file = << >>
  /\ reader = Fresh
  /\ pc = "idle"
  /\ fields = NoFields
  /\ complete = FALSE
  /\ result = "none"
  /\ saved = workspace
  /\ before = workspace
  /\ edits = 0

-----------------------------------------------------------------------------
(* What the rest of the program does to the workspace. *)

WithVariable(w, name, bits) ==
  [w EXCEPT !.variables = Append(@, [name |-> name, bits |-> bits])]

NewPin(w, name, var_uid) ==
  [uid |-> Len(w.pins) + 1, name |-> name, state |-> FLOATING, locked |-> FALSE,
   value |-> FALSE, var_uid |-> var_uid]

NewGate(w, wiring, truth) ==
  [uid |-> Len(w.gates) + 1, truth |-> truth, pin |-> wiring, released |-> FALSE]

addVariable(name, bits) ==
  /\ Len(workspace.variables) < MaxVariables
  /\ workspace' = WithVariable(workspace, name, bits)

addPin(name, var_uid) ==
  /\ Len(workspace.pins) < MaxPins
  /\ workspace' = [workspace EXCEPT !.pins = Append(@, NewPin(workspace, name, var_uid))]

lockPin(p, v) ==
  workspace' = [workspace EXCEPT !.pins[p] =
    [@ EXCEPT !.locked = TRUE, !.value = (v = 1), !.state = IF v = 1 THEN ONE ELSE ZERO]]

unlockPin(p) ==
  workspace' = [workspace EXCEPT !.pins[p] = [@ EXCEPT !.locked = FALSE, !.state = FLOATING]]

addGate(wiring, truth) ==
  /\ Len(workspace.gates) < MaxGates
  /\ \A i \in Position : wiring[i] <= Len(workspace.pins)
  /\ workspace' = [workspace EXCEPT !.gates = Append(@, NewGate(workspace, wiring, truth))]

markReleased(g) ==
  workspace' = [workspace EXCEPT !.gates[g] = [@ EXCEPT !.released = TRUE, !.truth = 255]]

newModel(name) ==
  /\ Len(workspace.models) < MaxRegistered
  /\ workspace' = [workspace EXCEPT !.models = Append(@, name), !.variables = << >>]

newCircuit(name) ==
  /\ Len(workspace.circuits) < MaxRegistered
  /\ workspace' = [workspace EXCEPT !.circuits = Append(@, name), !.pins = << >>, !.gates = << >>]

seedPrng(value) == workspace' = [workspace EXCEPT !.seed = value]

Edit ==
  /\ pc = "idle"
  /\ edits < IF file = << >> THEN MaxEdits ELSE MaxLateEdits
  /\ \/ \E name \in ItemNames, bits \in Widths : addVariable(name, bits)
     \/ \E name \in ItemNames, var_uid \in 0 .. Len(workspace.variables) : addPin(name, var_uid)
     \/ \E p \in DOMAIN workspace.pins : unlockPin(p) \/ \E v \in Bit : lockPin(p, v)
     \/ \E wiring \in Wirings, truth \in TruthBytes : addGate(wiring, truth)
     \/ \E g \in DOMAIN workspace.gates : markReleased(g)
     \/ \E value \in Seeds : seedPrng(value)
     \/ \E name \in Names : newModel(name) \/ newCircuit(name)
  /\ edits' = edits + 1
  /\ result' = "none"
  /\ before' = workspace'
  /\ UNCHANGED <<store, reader, pc, fields>>

(* The process ends, in the middle of a load if need be; the next one      *)
(* starts with an empty model and an empty circuit.                        *)
Restart ==
  /\ workspace' = NewProcess
  /\ pc' = "idle"
  /\ reader' = Fresh
  /\ fields' = NoFields
  /\ result' = "none"
  /\ before' = workspace'
  /\ UNCHANGED <<store, edits>>

-----------------------------------------------------------------------------
(* saveSession *)

object(members) == Listed("{", members, "}")
array(elements) == Listed("[", elements, "]")
number(key, value) == writeKey(key) \o writeNumber(value)
string(key, text)  == writeKey(key) \o writeString(text)
bool(key, value)   == writeKey(key) \o writeBool(value)
member(key, value) == writeKey(key) \o value

writeRegistries(w) ==
  LET items(names) ==
        array([i \in DOMAIN names |-> object(<<number("uid", i), string("name", names[i])>>)])
  IN  member("registries",
        object(<<member("models", items(w.models)), member("circuits", items(w.circuits))>>))

writeModel(w) ==
  member("model", object(<<
    number("uid", Len(w.models)),
    string("name", Last(w.models)),
    member("variables", array([i \in DOMAIN w.variables |-> object(<<
      number("uid", i),
      string("name", w.variables[i].name),
      number("bits", w.variables[i].bits)>>)])),
    member("constants", array(<< >>)),
    member("equations", array(<< >>))>>))

writePin(pin) == object(<<
  number("uid", pin.uid), string("name", pin.name), number("state", pin.state),
  bool("locked", pin.locked), bool("value", pin.value), number("var_uid", pin.var_uid)>>)

UidOf(w, p) == IF p = NullPin THEN 0 ELSE w.pins[p].uid

writeGate(w, gate) == object(<<
  number("uid", gate.uid), number("truth", gate.truth),
  number("pin_a", UidOf(w, gate.pin[1])),
  number("pin_b", UidOf(w, gate.pin[2])),
  number("pin_c", UidOf(w, gate.pin[3]))>>)

(* Fault: released gates are written too.                                  *)
writeCircuitFault(w) ==
  member("circuit", object(<<
    number("uid", Len(w.circuits)),
    string("name", Last(w.circuits)),
    member("pins", array([i \in DOMAIN w.pins |-> writePin(w.pins[i])])),
    member("gates", array([i \in DOMAIN w.gates |-> writeGate(w, w.gates[i])])),
    member("buses", array(<< >>))>>))

writeCircuit(w) ==
  member("circuit", object(<<
    number("uid", Len(w.circuits)),
    string("name", Last(w.circuits)),
    member("pins", array([i \in DOMAIN w.pins |-> writePin(w.pins[i])])),
    member("gates", array([i \in DOMAIN w.gates |->
      IF w.gates[i].released THEN << >> ELSE writeGate(w, w.gates[i])])),
    member("buses", array(<< >>))>>))

(* Of the counter and the four words of the generator's state only one     *)
(* stands in the text: each is read into a local variable and dropped.     *)
writePRNG(w) == member("prng", object(<<number("seed", w.seed), number("s0", 0)>>))

(* Of the figures of the allocator and the diagnostics one each: a load    *)
(* skips both objects whole.                                               *)
writeAllocator   == member("allocator", object(<<number("page_count", 1)>>))
writeDiagnostics == member("diagnostics", object(<<bool("error_flag", FALSE)>>))

sessionText(w) ==
  object(<<writeRegistries(w), writeModel(w), writeCircuit(w), writePRNG(w),
           writeAllocator, writeDiagnostics>>)

FirstOf(s, n) == SubSeq(s, 1, IF n < Len(s) THEN n ELSE Len(s))

(* Each piece of text is handed to the write callback, which may fail and  *)
(* so end the save: "room" is how much got through.                        *)
saveSession ==
  /\ pc = "idle"
  /\ LET text == sessionText(workspace) IN
     \E room \in Rooms : /\ file' = FirstOf(text, room)
                         /\ complete' = (Len(text) <= room)
  /\ saved' = workspace
  /\ result' = "none"
  /\ before' = workspace
  /\ UNCHANGED <<workspace, reader, pc, fields, edits>>

-----------------------------------------------------------------------------
(* loadSession *)

Return(how) ==
  /\ pc' = "idle"
  /\ result' = how
  /\ reader' = Fresh
  /\ fields' = NoFields

(* The opening of the session object, from where the caller's reader is.   *)
Begin(r, refusal) ==
  /\ IF peek[r] = "{"
     THEN /\ pc' = "session"
          /\ reader' = get[r]
          /\ result' = "none"
          /\ UNCHANGED fields
     ELSE Return(refusal)
  /\ before' = workspace
  /\ UNCHANGED <<workspace, store, edits>>

loadSession ==
  /\ pc = "idle"
  /\ Begin(Fresh, "refused")

(* The shell's command takes the opening brace before it calls loadSession. *)
commandLoad ==
  /\ pc = "idle"
  /\ Begin(consume(Fresh, "{"), "rejected")

Loading == UNCHANGED <<store, before, edits>>

(* The members of an object.  Unlike the inner loops these check the key:  *)
(* an object with a member that is not one is refused.                     *)
Key   == stringAt[reader]
Keyed == readString[reader]       \* after the key
Value == consume(Keyed, ":")      \* after the colon

InMembers  == pc \in Object /\ LoopsUntil(reader, "}")
WellKeyed  == Keyed.ok /\ peek[Keyed] = ":"
OpenedBy(key) == IF key \in Objects[pc] THEN "{" ELSE "["

RefuseMember ==
  /\ InMembers
  /\ ~WellKeyed
  /\ Return("refused")
  /\ UNCHANGED workspace
  /\ Loading

OpenMember ==
  /\ InMembers
  /\ WellKeyed
  /\ Key \in Objects[pc] \union Arrays[pc]
  /\ IF peek[Value] = OpenedBy(Key)
     THEN /\ pc' = Key
          /\ reader' = get[Value]
          /\ fields' = NoFields
          /\ UNCHANGED result
     ELSE Return("refused")
  /\ UNCHANGED workspace
  /\ Loading

(* Only the outermost loop looks at what skipping returns.                 *)
SkipMember ==
  /\ InMembers
  /\ WellKeyed
  /\ Key \notin Objects[pc] \union Arrays[pc]
  /\ IF pc = "session" /\ ~skipValue[Value].ok
     THEN Return("refused")
     ELSE /\ reader' = consume(skipValue[Value], ",")
          /\ UNCHANGED <<pc, fields, result>>
  /\ UNCHANGED workspace
  /\ Loading

(* Fault: the closing brace of the session is not looked for.              *)
EndMembersFault ==
  /\ pc \in Object
  /\ ~LoopsUntil(reader, "}")
  /\ IF pc = "session" THEN Return("loaded")
     ELSE IF peek[reader] # "}" THEN Return("refused")
     ELSE /\ pc' = Parent[pc]
          /\ reader' = consume(get[reader], ",")
          /\ UNCHANGED <<fields, result>>
  /\ UNCHANGED workspace
  /\ Loading

EndMembers ==
  /\ pc \in Object
  /\ ~LoopsUntil(reader, "}")
  /\ IF peek[reader] # "}" THEN Return("refused")
     ELSE IF pc = "session" THEN Return("loaded")
     ELSE /\ pc' = Parent[pc]
          /\ reader' = consume(get[reader], ",")
          /\ UNCHANGED <<fields, result>>
  /\ UNCHANGED workspace
  /\ Loading

(* The elements of an array.  A turn that finds neither an object nor a    *)
(* comma changes nothing, and neither does the next.                       *)
NextElement ==
  /\ pc \in Array
  /\ LoopsUntil(reader, "]")
  /\ IF peek[reader] = "{"
     THEN /\ pc' = Element[pc]
          /\ reader' = get[reader]
          /\ fields' = NoFields
     ELSE /\ reader' = consume(reader, ",")
          /\ UNCHANGED <<pc, fields>>
  /\ UNCHANGED <<workspace, result>>
  /\ Loading

EndElements ==
  /\ pc \in Array
  /\ ~LoopsUntil(reader, "]")
  /\ pc' = Parent[pc]
  /\ reader' = consume(consume(reader, "]"), ",")
  /\ UNCHANGED <<workspace, fields, result>>
  /\ Loading

(* The fields of a record.  No error ends this loop.  A key that cannot be *)
(* read is an uninitialized buffer; whatever is in it, nothing can be read *)
(* after it either.                                                        *)
ReadField(value, end) ==
  /\ pc \in Record
  /\ LoopsUntil(reader, "}")
  /\ fields' = value
  /\ reader' = consume(end, ",")
  /\ UNCHANGED <<workspace, pc, result>>
  /\ Loading

ReadNumber ==
  /\ pc \in Record
  /\ Key \in Numbers[pc]
  /\ ReadField(IF peek[Value] \in Numerals
               THEN [fields EXCEPT !.number[Key] = unsignedAt[Value]] ELSE fields,
               readUnsigned[Value])

ReadName ==
  /\ pc \in Record
  /\ Key \in Strings[pc]
  /\ ReadField(IF peek[Value] = Quote
               THEN [fields EXCEPT !.name = stringAt[Value]] ELSE fields,
               readString[Value])

ReadBoolean ==
  /\ pc \in Record
  /\ Key \in Booleans[pc]
  /\ ReadField(IF peek[Value] = "true"
               THEN IF Key = "locked" THEN [fields EXCEPT !.locked = TRUE]
                                      ELSE [fields EXCEPT !.value = TRUE]
               ELSE fields,
               readBool[Value])

SkipField ==
  /\ pc \in Record
  /\ Key \notin Numbers[pc] \union Strings[pc] \union Booleans[pc]
  /\ ReadField(fields, skipValue[Value])

(* The end of a record, for whatever reason, takes what has been read.     *)
EndRecord(record) ==
  /\ pc = record
  /\ ~LoopsUntil(reader, "}")
  /\ pc' = Parent[pc]
  /\ reader' = consume(consume(reader, "}"), ",")
  /\ UNCHANGED <<fields, result>>
  /\ Loading

Read == fields.number

EndVariable ==
  /\ EndRecord("variable")
  /\ IF Read.uid # 0 /\ fields.name # "" /\ Read.bits # 0 /\ Len(workspace.variables) < MaxVariables
     THEN workspace' = WithVariable(workspace, fields.name, Read.bits)
     ELSE UNCHANGED workspace

LoadedPin ==
  [uid |-> Read.uid, name |-> fields.name, state |-> Read.state, locked |-> fields.locked,
   value |-> fields.value, var_uid |-> Read.var_uid]

(* Fault: the allocator is taken never to fail.                            *)
EndPinRoomFault ==
  /\ EndRecord("pin")
  /\ IF fields.name # ""
     THEN workspace' = [workspace EXCEPT !.pins = Append(@, LoadedPin)]
     ELSE UNCHANGED workspace

(* Fault: a pin of the same uid is overwritten.                            *)
EndPinMergeFault ==
  /\ EndRecord("pin")
  /\ IF Read.uid \in DOMAIN workspace.pins
     THEN workspace' = [workspace EXCEPT !.pins[Read.uid] = LoadedPin]
     ELSE IF fields.name # "" /\ Len(workspace.pins) < MaxPins
     THEN workspace' = [workspace EXCEPT !.pins = Append(@, LoadedPin)]
     ELSE UNCHANGED workspace

EndPin ==
  /\ EndRecord("pin")
  /\ IF fields.name # "" /\ Len(workspace.pins) < MaxPins
     THEN workspace' = [workspace EXCEPT !.pins = Append(@, LoadedPin)]
     ELSE UNCHANGED workspace

(* The first pin of that uid, be it older than the load.                   *)
pinByUid(uid) ==
  LET bearing == { p \in DOMAIN workspace.pins : workspace.pins[p].uid = uid }
  IN  IF uid = 0 \/ bearing = {} THEN NullPin ELSE Min(bearing)

LoadedWiring == <<pinByUid(Read.pin_a), pinByUid(Read.pin_b), pinByUid(Read.pin_c)>>

EndGate ==
  /\ EndRecord("gate")
  /\ IF (\E i \in Position : LoadedWiring[i] # NullPin) /\ Len(workspace.gates) < MaxGates
     THEN workspace' = [workspace EXCEPT !.gates = Append(@,
            [NewGate(workspace, LoadedWiring, Read.truth % 256) EXCEPT !.uid = Read.uid])]
     ELSE UNCHANGED workspace

EndPrng ==
  /\ EndRecord("prng")
  /\ workspace' = IF Read.seed # 0 THEN [workspace EXCEPT !.seed = Read.seed] ELSE workspace

LoadStep ==
  \/ RefuseMember \/ OpenMember \/ SkipMember \/ EndMembers
  \/ NextElement \/ EndElements
  \/ ReadNumber \/ ReadName \/ ReadBoolean \/ SkipField
  \/ EndVariable \/ EndPin \/ EndGate \/ EndPrng

-----------------------------------------------------------------------------
Next == Edit \/ Restart \/ saveSession \/ loadSession \/ commandLoad \/ LoadStep

(* A load that has begun goes on: nothing else runs in its process.        *)
Spec == Init /\ [][Next]_vars /\ WF_vars(LoadStep)

-----------------------------------------------------------------------------
(* The text of the registries is skipped by counting braces; one in a name *)
(* counts too.                                                             *)
PlainlyNamed(w) == {"{", "}"} \cap (ToSet(w.models) \union ToSet(w.circuits)) = {}

(* A file that a save did not finish is never reported as loaded, however  *)
(* tolerant the loops, and a complete one is refused only if a name in the *)
(* registries is a brace (loadSession, skipValue).                         *)
ResultTellsFile ==
  /\ result = "loaded" => complete
  /\ result = "refused" /\ PlainlyNamed(saved) => ~complete

(* What there is after a load, seen from what there was before it and what *)
(* was saved: appended as far as there is room; the gates restored to an   *)
(* empty circuit are the ones that were in use, on the same pins.          *)
ContentsRestored ==
  /\ workspace.variables = before.variables
       \o FirstOf(saved.variables, MaxVariables - Len(before.variables))
  /\ workspace.pins = before.pins \o FirstOf(saved.pins, MaxPins - Len(before.pins))
  /\ workspace.seed = IF saved.seed = 0 THEN before.seed ELSE saved.seed
  /\ before.pins = << >> /\ before.gates = << >>
       /\ (\A p, q \in DOMAIN saved.pins : saved.pins[p].uid = saved.pins[q].uid => p = q)
     => workspace.gates =
          SelectSeq(saved.gates, LAMBDA g : ~g.released /\ \E i \in Position : g.pin[i] # NullPin)

(* A load that returns true has restored what was saved.  Commas lost or   *)
(* doubled around what is skipped do not matter, nor do braces in the      *)
(* names of variables and pins; one in the registries makes the load skip  *)
(* what follows (writeCircuit, loadModel, loadCircuit, loadPRNG).          *)
Restored == result = "loaded" /\ PlainlyNamed(saved) => ContentsRestored

(* A load, whether it succeeds, fails or is cut short, takes nothing away: *)
(* it appends to the variables, the pins and the gates, registers nothing  *)
(* and does not write the file.  Only the seed of the generator is         *)
(* replaced, by what a record of it in the file says, as soon as that      *)
(* record ends; a load that is refused later leaves it replaced            *)
(* (loadModel, loadCircuit, loadPRNG).                                     *)
LoadsAppend ==
  [][LoadStep =>
       /\ file' = file
       /\ IsPrefix(before.variables, workspace'.variables)
       /\ IsPrefix(before.pins, workspace'.pins)
       /\ IsPrefix(before.gates, workspace'.gates)
       /\ workspace'.models = workspace.models
       /\ workspace'.circuits = workspace.circuits
       /\ workspace'.seed # workspace.seed =>
            pc = "prng" /\ workspace'.seed = Read.seed /\ Read.seed # 0]_workspace

AllPinsHigh == \A p \in DOMAIN saved.pins : saved.pins[p].locked /\ saved.pins[p].value

(* A load of a file, complete or not, in which every pin is locked to 1    *)
(* comes to an end: none of the loops that ignore errors is left spinning  *)
(* on a text cut short (loadSession).  A pin that is not makes a load spin: *)
(* "false" is an error to readBool, and the loop over the fields of the pin *)
(* finds neither its brace nor the end of the file.                        *)
LoadsReturn == (pc # "idle" /\ AllPinsHigh) ~> (pc = "idle")

=============================================================================
