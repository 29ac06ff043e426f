------------------------- MODULE SessionState_proofs -------------------------
(***************************************************************************)
(* Proofs about SessionState, for files and workspaces of any size.  In    *)
(* the first half what is read is taken to be anything at all; the second  *)
(* shows what types it has.                                                *)
(***************************************************************************)
EXTENDS SessionState, Counting, SequenceTheorems

-----------------------------------------------------------------------------
(* Sequences of anything, and prefixes of them. *)

IsSequence(s) == \E S : s \in Seq(S)

LEMMA Numbered ==
  ASSUME NEW s, IsSequence(s)
  PROVE  Len(s) \in Nat /\ DOMAIN s = 1 .. Len(s)
<1>1. PICK S : s \in Seq(S)
  BY DEF IsSequence
<1> QED
  BY <1>1

LEMMA Appended ==
  ASSUME NEW s, IsSequence(s), NEW e
  PROVE  /\ IsSequence(Append(s, e))
         /\ Len(Append(s, e)) = Len(s) + 1
         /\ Append(s, e)[Len(s) + 1] = e
         /\ \A i \in 1 .. Len(s) : Append(s, e)[i] = s[i]
<1>1. PICK S : s \in Seq(S)
  BY DEF IsSequence
<1>2. s \in Seq(S \union {e}) /\ e \in S \union {e}
  BY <1>1
<1>3. Append(s, e) \in Seq(S \union {e})
  BY <1>2
<1> QED
  BY <1>2, <1>3 DEF IsSequence

LEMMA Replaced ==
  ASSUME NEW s, IsSequence(s), NEW k \in DOMAIN s, NEW e
  PROVE  /\ IsSequence([s EXCEPT ![k] = e])
         /\ Len([s EXCEPT ![k] = e]) = Len(s)
<1>1. PICK S : s \in Seq(S)
  BY DEF IsSequence
<1>2. s \in Seq(S \union {e}) /\ e \in S \union {e} /\ k \in 1 .. Len(s)
  BY <1>1
<1>3. /\ [s EXCEPT ![k] = e] \in Seq(S \union {e})
      /\ Len([s EXCEPT ![k] = e]) = Len(s)
  BY <1>2, ExceptSeq
<1> QED
  BY <1>3 DEF IsSequence

LEMMA PrefixByElements ==
  ASSUME NEW s, IsSequence(s), NEW t, IsSequence(t)
  PROVE  IsPrefix(s, t) <=> /\ Len(s) <= Len(t)
                            /\ \A i \in 1 .. Len(s) : t[i] = s[i]
<1>1. PICK S : s \in Seq(S)
  BY DEF IsSequence
<1>2. PICK T : t \in Seq(T)
  BY DEF IsSequence
<1>3. Len(s) \in Nat /\ Len(t) \in Nat
  BY <1>1, <1>2
<1>4. ASSUME Len(s) <= Len(t)
      PROVE  /\ SubSeq(t, 1, Len(s)) \in Seq(T)
             /\ Len(SubSeq(t, 1, Len(s))) = Len(s)
             /\ \A i \in 1 .. Len(s) : SubSeq(t, 1, Len(s))[i] = t[i]
  BY <1>2, <1>3, <1>4, SubSeqProperties
<1>5. SubSeq(s, 1, Len(s)) = s
  BY <1>1, SubSeqFull
<1>6. s \in Seq(S \union T)
  BY <1>1
<1>7. ASSUME Len(s) <= Len(t), \A i \in 1 .. Len(s) : t[i] = s[i]
      PROVE  s = SubSeq(t, 1, Len(s))
  <2>1. SubSeq(t, 1, Len(s)) \in Seq(S \union T)
    BY <1>4, <1>7
  <2> QED
    BY <1>4, <1>6, <1>7, <2>1, SeqEqual
<1> QED
  BY <1>4, <1>5, <1>7 DEF IsPrefix

LEMMA PrefixItself ==
  ASSUME NEW s, IsSequence(s)
  PROVE  IsPrefix(s, s)
<1>1. Len(s) \in Nat
  BY DEF IsSequence
<1> QED
  BY <1>1, PrefixByElements

LEMMA PrefixAppended ==
  ASSUME NEW s, IsSequence(s), NEW t, IsSequence(t), IsPrefix(s, t), NEW e
  PROVE  IsPrefix(s, Append(t, e))
<1>1. Len(s) \in Nat /\ Len(t) \in Nat
  BY DEF IsSequence
<1>2. Len(s) <= Len(t) /\ \A i \in 1 .. Len(s) : t[i] = s[i]
  BY PrefixByElements
<1>3. /\ IsSequence(Append(t, e))
      /\ Len(Append(t, e)) = Len(t) + 1
      /\ \A i \in 1 .. Len(t) : Append(t, e)[i] = t[i]
  BY Appended
<1>4. Len(s) <= Len(Append(t, e)) /\ \A i \in 1 .. Len(s) : Append(t, e)[i] = s[i]
  BY <1>1, <1>2, <1>3
<1> QED
  BY <1>3, <1>4, PrefixByElements

LEMMA EmptySequence == IsSequence(<< >>) /\ Len(<< >>) = 0
  BY EmptySeq DEF IsSequence

LEMMA SmallestOf ==
  ASSUME NEW S, S \subseteq Nat, S # {}
  PROVE  Min(S) \in S
<1>1. \E x \in S : \A y \in S : x <= y
  BY LeastExists
<1> QED
  BY <1>1 DEF Min

-----------------------------------------------------------------------------
(* A workspace holds sequences, whatever is in them, and every gate of it  *)
(* is wired to pins there are or to none.                                  *)

Shaped(w) ==
  /\ w = [models |-> w.models, circuits |-> w.circuits, variables |-> w.variables,
          pins |-> w.pins, gates |-> w.gates, seed |-> w.seed]
  /\ IsSequence(w.variables)
  /\ IsSequence(w.pins)
  /\ IsSequence(w.gates)

WiredWithin(gate, n) ==
  /\ "pin" \in DOMAIN gate
  /\ \A i \in Position : gate.pin[i] \in 0 .. n

LEMMA NewWired ==
  ASSUME NEW uid, NEW truth, NEW wiring, NEW n, \A i \in Position : wiring[i] \in 0 .. n
  PROVE  WiredWithin([uid |-> uid, truth |-> truth, pin |-> wiring, released |-> FALSE], n)
  BY DEF WiredWithin

LEMMA ReleasedWired ==
  ASSUME NEW gate, NEW n, WiredWithin(gate, n)
  PROVE  WiredWithin([gate EXCEPT !.released = TRUE, !.truth = 255], n)
  BY DEF WiredWithin

LEMMA LoadedWired ==
  ASSUME NEW gate, NEW n, WiredWithin(gate, n), NEW uid
  PROVE  WiredWithin([gate EXCEPT !.uid = uid], n)
  BY DEF WiredWithin

GatesWired == \A g \in 1 .. Len(workspace.gates) : WiredWithin(workspace.gates[g], Len(workspace.pins))

Added ==
  /\ IsPrefix(before.variables, workspace.variables)
  /\ IsPrefix(before.pins, workspace.pins)
  /\ IsPrefix(before.gates, workspace.gates)

Inv == Shaped(workspace) /\ Shaped(before) /\ GatesWired /\ Added

LEMMA AddedNothing ==
  ASSUME Shaped(workspace), before = workspace
  PROVE  Added
  BY PrefixItself DEF Shaped, Added

LEMMA VariableAdded ==
  ASSUME Inv, NEW v, workspace' = [workspace EXCEPT !.variables = Append(@, v)]
  PROVE  Shaped(workspace') /\ GatesWired' /\ (before' = before => Inv')
<1>1. /\ workspace'.variables = Append(workspace.variables, v)
      /\ workspace'.pins = workspace.pins
      /\ workspace'.gates = workspace.gates
      /\ Shaped(workspace') <=> IsSequence(Append(workspace.variables, v))
  BY DEF Inv, Shaped
<1>2. Shaped(workspace')
  BY <1>1, Appended DEF Inv, Shaped
<1>3. GatesWired'
  BY <1>1 DEF Inv, GatesWired
<1>4. IsPrefix(before.variables, Append(workspace.variables, v))
  BY PrefixAppended DEF Inv, Shaped, Added
<1> QED
  BY <1>1, <1>2, <1>3, <1>4 DEF Inv, Added

LEMMA PinAdded ==
  ASSUME Inv, NEW p, workspace' = [workspace EXCEPT !.pins = Append(@, p)]
  PROVE  Shaped(workspace') /\ GatesWired' /\ (before' = before => Inv')
<1>1. /\ workspace'.pins = Append(workspace.pins, p)
      /\ workspace'.variables = workspace.variables
      /\ workspace'.gates = workspace.gates
      /\ Shaped(workspace') <=> IsSequence(Append(workspace.pins, p))
  BY DEF Inv, Shaped
<1>2. IsSequence(Append(workspace.pins, p)) /\ Len(Append(workspace.pins, p)) = Len(workspace.pins) + 1
  BY Appended DEF Inv, Shaped
<1>3. Len(workspace.pins) \in Nat
  BY DEF Inv, Shaped, IsSequence
<1>4. GatesWired'
  BY <1>1, <1>2, <1>3 DEF Inv, GatesWired, WiredWithin
<1>5. IsPrefix(before.pins, Append(workspace.pins, p))
  BY PrefixAppended DEF Inv, Shaped, Added
<1> QED
  BY <1>1, <1>2, <1>4, <1>5 DEF Inv, Added

LEMMA GateAdded ==
  ASSUME Inv, NEW gate, WiredWithin(gate, Len(workspace.pins)),
         workspace' = [workspace EXCEPT !.gates = Append(@, gate)]
  PROVE  Shaped(workspace') /\ GatesWired' /\ (before' = before => Inv')
<1>1. /\ workspace'.gates = Append(workspace.gates, gate)
      /\ workspace'.variables = workspace.variables
      /\ workspace'.pins = workspace.pins
      /\ Shaped(workspace') <=> IsSequence(Append(workspace.gates, gate))
  BY DEF Inv, Shaped
<1>2. /\ IsSequence(Append(workspace.gates, gate))
      /\ Len(Append(workspace.gates, gate)) = Len(workspace.gates) + 1
      /\ Append(workspace.gates, gate)[Len(workspace.gates) + 1] = gate
      /\ \A g \in 1 .. Len(workspace.gates) : Append(workspace.gates, gate)[g] = workspace.gates[g]
  BY Appended DEF Inv, Shaped
<1>3. Len(workspace.gates) \in Nat
  BY DEF Inv, Shaped, IsSequence
<1>4. \A g \in 1 .. Len(workspace.gates) + 1 :
        g \in 1 .. Len(workspace.gates) \/ g = Len(workspace.gates) + 1
  BY <1>3
<1>5. GatesWired'
  BY <1>1, <1>2, <1>4 DEF Inv, GatesWired
<1>6. IsPrefix(before.gates, Append(workspace.gates, gate))
  BY PrefixAppended DEF Inv, Shaped, Added
<1> QED
  BY <1>1, <1>2, <1>5, <1>6 DEF Inv, Added

-----------------------------------------------------------------------------
(* Between loads. *)

LEMMA WiringTypes ==
  ASSUME NEW wiring \in Wirings, NEW i \in Position
  PROVE  wiring[i] \in Nat
  BY SessionAssumption DEF SessionAssumption

LEMMA EditKeeps ==
  ASSUME Inv, Edit
  PROVE  Inv'
<1>1. before' = workspace'
  BY DEF Edit
<1>2. /\ Len(workspace.pins) \in Nat /\ Len(workspace.gates) \in Nat
      /\ DOMAIN workspace.pins = 1 .. Len(workspace.pins)
      /\ DOMAIN workspace.gates = 1 .. Len(workspace.gates)
  BY Numbered DEF Inv, Shaped
<1>3. SUFFICES Shaped(workspace') /\ GatesWired'
  BY <1>1, PrefixItself DEF Inv, Shaped, Added
<1>4. ASSUME NEW name \in ItemNames, NEW bits \in Widths, addVariable(name, bits)
      PROVE  Shaped(workspace') /\ GatesWired'
  BY <1>4, VariableAdded DEF addVariable, WithVariable
<1>5. ASSUME NEW name \in ItemNames, NEW var_uid \in 0 .. Len(workspace.variables), addPin(name, var_uid)
      PROVE  Shaped(workspace') /\ GatesWired'
  BY <1>5, PinAdded DEF addPin
<1>6. ASSUME NEW p \in DOMAIN workspace.pins, NEW pin,
             workspace' = [workspace EXCEPT !.pins[p] = pin]
      PROVE  Shaped(workspace') /\ GatesWired'
  <2>1. /\ workspace'.pins = [workspace.pins EXCEPT ![p] = pin]
        /\ workspace'.variables = workspace.variables
        /\ workspace'.gates = workspace.gates
        /\ Shaped(workspace') <=> IsSequence([workspace.pins EXCEPT ![p] = pin])
    BY <1>6 DEF Inv, Shaped
  <2>2. IsSequence([workspace.pins EXCEPT ![p] = pin])
        /\ Len([workspace.pins EXCEPT ![p] = pin]) = Len(workspace.pins)
    BY Replaced DEF Inv, Shaped
  <2> QED
    BY <2>1, <2>2 DEF Inv, GatesWired
<1>7. ASSUME NEW p \in DOMAIN workspace.pins, unlockPin(p) \/ \E v \in Bit : lockPin(p, v)
      PROVE  Shaped(workspace') /\ GatesWired'
  <2>1. \E pin : workspace' = [workspace EXCEPT !.pins[p] = pin]
    BY <1>7 DEF unlockPin, lockPin
  <2> QED
    BY <1>6, <2>1
<1>8. ASSUME NEW wiring \in Wirings, NEW truth \in TruthBytes, addGate(wiring, truth)
      PROVE  Shaped(workspace') /\ GatesWired'
  <2>1. \A i \in Position : wiring[i] \in 0 .. Len(workspace.pins)
    <3>1. \A i \in Position : wiring[i] \in Nat /\ wiring[i] <= Len(workspace.pins)
      BY <1>8, WiringTypes DEF addGate
    <3>2. \A k \in Nat, n \in Nat : k <= n => k \in 0 .. n
      OBVIOUS
    <3> QED
      BY <1>2, <3>1, <3>2
  <2>2. WiredWithin(NewGate(workspace, wiring, truth), Len(workspace.pins))
    BY <2>1, NewWired DEF NewGate
  <2> QED
    BY <1>8, <2>2, GateAdded DEF addGate
<1>9. ASSUME NEW k \in DOMAIN workspace.gates, markReleased(k)
      PROVE  Shaped(workspace') /\ GatesWired'
  <2> DEFINE gate == [workspace.gates[k] EXCEPT !.released = TRUE, !.truth = 255]
  <2>1. workspace' = [workspace EXCEPT !.gates[k] = gate]
    BY <1>9 DEF markReleased
  <2>2. WiredWithin(gate, Len(workspace.pins))
    BY <1>2, ReleasedWired DEF Inv, GatesWired
  <2> HIDE DEF gate
  <2>3. /\ workspace'.gates = [workspace.gates EXCEPT ![k] = gate]
        /\ workspace'.variables = workspace.variables
        /\ workspace'.pins = workspace.pins
        /\ Shaped(workspace') <=> IsSequence([workspace.gates EXCEPT ![k] = gate])
    BY <2>1 DEF Inv, Shaped
  <2>4. /\ IsSequence([workspace.gates EXCEPT ![k] = gate])
        /\ Len([workspace.gates EXCEPT ![k] = gate]) = Len(workspace.gates)
    BY Replaced DEF Inv, Shaped
  <2>5. \A g \in 1 .. Len(workspace.gates) :
          [workspace.gates EXCEPT ![k] = gate][g] = IF g = k THEN gate ELSE workspace.gates[g]
    BY <1>2
  <2> QED
    <3>1. \A g \in 1 .. Len(workspace.gates) : WiredWithin(workspace.gates[g], Len(workspace.pins))
      BY DEF Inv, GatesWired
    <3>2. \A g \in 1 .. Len(workspace.gates) :
            WiredWithin([workspace.gates EXCEPT ![k] = gate][g], Len(workspace.pins))
      BY <2>2, <2>5, <3>1
    <3>3. \A g \in 1 .. Len(workspace'.gates) : WiredWithin(workspace'.gates[g], Len(workspace'.pins))
      BY <2>3, <2>4, <3>2
    <3> QED
      BY <2>3, <2>4, <3>3 DEF GatesWired
<1>10. ASSUME NEW value \in Seeds, seedPrng(value)
       PROVE  Shaped(workspace') /\ GatesWired'
  BY <1>10 DEF seedPrng, Inv, Shaped, GatesWired
<1>11. ASSUME NEW name \in Names, newModel(name)
       PROVE  Shaped(workspace') /\ GatesWired'
  BY <1>11, EmptySequence DEF newModel, Inv, Shaped, GatesWired
<1>12. ASSUME NEW name \in Names, newCircuit(name)
       PROVE  Shaped(workspace') /\ GatesWired'
  <2>1. /\ workspace'.gates = << >>
        /\ workspace'.pins = << >>
        /\ workspace'.variables = workspace.variables
        /\ Shaped(workspace') <=> IsSequence(<< >>)
    BY <1>12 DEF newCircuit, Inv, Shaped
  <2> QED
    <3>1. 1 .. Len(workspace'.gates) = {}
      <4>1. Len(workspace'.gates) = 0
        BY <2>1, EmptySequence
      <4> QED
        BY <4>1
    <3>2. GatesWired'
      BY <3>1 DEF GatesWired
    <3> QED
      BY <2>1, <3>2, EmptySequence
<1> QED
  BY <1>4, <1>5, <1>7, <1>8, <1>9, <1>10, <1>11, <1>12 DEF Edit

LEMMA NewProcessFits ==
  ASSUME workspace = NewProcess, before = workspace
  PROVE  Inv
  BY EmptySequence, AddedNothing DEF NewProcess, Inv, Shaped, GatesWired

-----------------------------------------------------------------------------
(* A load. *)

LEMMA LoadedWiringFits ==
  ASSUME Inv, NEW uid
  PROVE  pinByUid(uid) \in 0 .. Len(workspace.pins)
<1> DEFINE bearing == { p \in DOMAIN workspace.pins : workspace.pins[p].uid = uid }
<1>1. Len(workspace.pins) \in Nat /\ DOMAIN workspace.pins = 1 .. Len(workspace.pins)
  BY Numbered DEF Inv, Shaped
<1>2. CASE uid = 0 \/ bearing = {}
  BY <1>1, <1>2 DEF pinByUid, NullPin
<1>3. CASE ~(uid = 0 \/ bearing = {})
  <2>1. bearing \subseteq Nat /\ bearing # {}
    BY <1>1, <1>3
  <2>2. Min(bearing) \in bearing
    <3> HIDE DEF bearing
    <3> QED
      BY <2>1, SmallestOf
  <2>3. pinByUid(uid) = Min(bearing)
    BY <1>3 DEF pinByUid
  <2>4. bearing \subseteq 0 .. Len(workspace.pins)
    BY <1>1
  <2> QED
    BY <2>2, <2>3, <2>4
<1> QED
  BY <1>2, <1>3

LEMMA LoadKeeps ==
  ASSUME Inv, LoadStep
  PROVE  /\ Inv'
         /\ before' = before
         /\ file' = file
<1>1. before' = before /\ file' = file
  BY DEF LoadStep, RefuseMember, OpenMember, SkipMember, EndMembers, NextElement, EndElements,
         ReadNumber, ReadName, ReadBoolean, SkipField, ReadField, EndVariable, EndPin, EndGate,
         EndPrng, EndRecord, Loading, store
<1>2. ASSUME workspace' = workspace
      PROVE  Inv'
  BY <1>1, <1>2 DEF Inv, Shaped, GatesWired, Added
<1>3. CASE \/ RefuseMember \/ OpenMember \/ SkipMember \/ EndMembers \/ NextElement \/ EndElements
           \/ ReadNumber \/ ReadName \/ ReadBoolean \/ SkipField
  <2>1. CASE RefuseMember \/ OpenMember \/ SkipMember \/ EndMembers \/ NextElement \/ EndElements
    BY <1>1, <1>2, <2>1 DEF RefuseMember, OpenMember, SkipMember, EndMembers, NextElement, EndElements
  <2>2. CASE ReadNumber
    BY <1>1, <1>2, <2>2 DEF ReadNumber, ReadField
  <2>3. CASE ReadName
    BY <1>1, <1>2, <2>3 DEF ReadName, ReadField
  <2>4. CASE ReadBoolean
    BY <1>1, <1>2, <2>4 DEF ReadBoolean, ReadField
  <2>5. CASE SkipField
    BY <1>1, <1>2, <2>5 DEF SkipField, ReadField
  <2> QED
    BY <1>3, <2>1, <2>2, <2>3, <2>4, <2>5
<1>4. CASE EndVariable
  BY <1>1, <1>2, <1>4, VariableAdded DEF EndVariable, WithVariable
<1>5. CASE EndPin
  <2>1. \/ workspace' = workspace
        \/ workspace' = [workspace EXCEPT !.pins = Append(@, LoadedPin)]
    BY <1>5 DEF EndPin
  <2> QED
    BY <1>1, <1>2, <2>1, PinAdded
<1>6. CASE EndGate
  <2> DEFINE gate == [NewGate(workspace, LoadedWiring, Read.truth % 256) EXCEPT !.uid = Read.uid]
  <2>1. WiredWithin(gate, Len(workspace.pins))
    <3>1. \A i \in Position : LoadedWiring[i] \in 0 .. Len(workspace.pins)
      BY LoadedWiringFits DEF LoadedWiring, Position
    <3>2. WiredWithin(NewGate(workspace, LoadedWiring, Read.truth % 256), Len(workspace.pins))
      BY <3>1, NewWired DEF NewGate
    <3> QED
      BY <3>2, LoadedWired
  <2>2. \/ workspace' = workspace
        \/ workspace' = [workspace EXCEPT !.gates = Append(@, gate)]
    BY <1>6 DEF EndGate
  <2> HIDE DEF gate
  <2> QED
    BY <1>1, <1>2, <2>1, <2>2, GateAdded
<1>7. CASE EndPrng
  BY <1>1, <1>2, <1>7 DEF EndPrng, Inv, Shaped, GatesWired, Added
<1> QED
  BY <1>1, <1>3, <1>4, <1>5, <1>6, <1>7 DEF LoadStep

-----------------------------------------------------------------------------
LEMMA Invariant == Spec => []Inv
<1>1. Init => Inv
  BY NewProcessFits DEF Init
<1>2. Inv /\ [Next]_vars => Inv'
  <2> SUFFICES ASSUME Inv, [Next]_vars
               PROVE  Inv'
    OBVIOUS
  <2>1. CASE Edit
    BY <2>1, EditKeeps
  <2>2. CASE Restart
    BY <2>2, EmptySequence, PrefixItself
    DEF Restart, NewProcess, Inv, Shaped, GatesWired, Added
  <2>3. CASE saveSession \/ loadSession \/ commandLoad
    <3>1. workspace' = workspace /\ before' = workspace
      BY <2>3 DEF saveSession, loadSession, commandLoad, Begin
    <3> QED
      BY <3>1, PrefixItself DEF Inv, Shaped, GatesWired, Added
  <2>4. CASE LoadStep
    BY <2>4, LoadKeeps
  <2>5. CASE UNCHANGED vars
    BY <2>5 DEF vars, Inv, Shaped, GatesWired, Added
  <2> QED
    BY <2>1, <2>2, <2>3, <2>4, <2>5 DEF Next
<1> QED
  BY <1>1, <1>2, PTL DEF Spec

LEMMA LoadingLeaves ==
  ASSUME Inv, LoadStep
  PROVE  /\ workspace'.models = workspace.models
         /\ workspace'.circuits = workspace.circuits
         /\ workspace'.seed # workspace.seed =>
              pc = "prng" /\ workspace'.seed = Read.seed /\ Read.seed # 0
<1>1. CASE workspace' = workspace
  BY <1>1
<1>2. CASE \/ RefuseMember \/ OpenMember \/ SkipMember \/ EndMembers \/ NextElement \/ EndElements
  BY <1>1, <1>2
  DEF RefuseMember, OpenMember, SkipMember, EndMembers, NextElement, EndElements
<1>3. CASE ReadNumber \/ ReadName \/ ReadBoolean \/ SkipField
  BY <1>1, <1>3 DEF ReadNumber, ReadName, ReadBoolean, SkipField, ReadField
<1>4. CASE EndVariable
  <2>1. \/ workspace' = workspace
        \/ workspace' = [workspace EXCEPT !.variables =
                            Append(@, [name |-> fields.name, bits |-> Read.bits])]
    BY <1>4 DEF EndVariable, WithVariable
  <2> QED
    BY <2>1 DEF Inv, Shaped
<1>5. CASE EndPin
  <2>1. \/ workspace' = workspace
        \/ workspace' = [workspace EXCEPT !.pins = Append(@, LoadedPin)]
    BY <1>5 DEF EndPin
  <2> QED
    BY <2>1 DEF Inv, Shaped
<1>6. CASE EndGate
  <2> DEFINE gate == [NewGate(workspace, LoadedWiring, Read.truth % 256) EXCEPT !.uid = Read.uid]
  <2>1. \/ workspace' = workspace
        \/ workspace' = [workspace EXCEPT !.gates = Append(@, gate)]
    BY <1>6 DEF EndGate
  <2> HIDE DEF gate
  <2> QED
    BY <2>1 DEF Inv, Shaped
<1>7. CASE EndPrng
  <2>1. /\ pc = "prng"
        /\ \/ workspace' = workspace
           \/ Read.seed # 0 /\ workspace' = [workspace EXCEPT !.seed = Read.seed]
    BY <1>7 DEF EndPrng, EndRecord
  <2>2. CASE workspace' = workspace
    BY <2>2
  <2>3. CASE Read.seed # 0 /\ workspace' = [workspace EXCEPT !.seed = Read.seed]
    <3>1. /\ workspace'.models = workspace.models
          /\ workspace'.circuits = workspace.circuits
      BY <2>3 DEF Inv, Shaped
    <3>2. workspace'.seed = workspace.seed \/ workspace'.seed = Read.seed
      BY <2>3 DEF Inv, Shaped
    <3> QED
      BY <2>1, <2>3, <3>1, <3>2
  <2> QED
    BY <2>1, <2>2, <2>3
<1> QED
  BY <1>2, <1>3, <1>4, <1>5, <1>6, <1>7 DEF LoadStep

(* A load, of any file and however it ends, takes nothing away: it appends *)
(* to variables, pins and gates, leaves the registries and the file alone  *)
(* and replaces only the seed, by that of a record in the file that it has *)
(* come to the end of (loadModel, loadCircuit, loadPRNG).                  *)
THEOREM LoadingAppends == Spec => LoadsAppend
<1>1. Inv /\ LoadStep =>
        /\ file' = file
        /\ IsPrefix(before.variables, workspace'.variables)
        /\ IsPrefix(before.pins, workspace'.pins)
        /\ IsPrefix(before.gates, workspace'.gates)
        /\ workspace'.models = workspace.models
        /\ workspace'.circuits = workspace.circuits
        /\ workspace'.seed # workspace.seed =>
             pc = "prng" /\ workspace'.seed = Read.seed /\ Read.seed # 0
  <2> SUFFICES ASSUME Inv, LoadStep
               PROVE  /\ file' = file
                      /\ IsPrefix(before.variables, workspace'.variables)
                      /\ IsPrefix(before.pins, workspace'.pins)
                      /\ IsPrefix(before.gates, workspace'.gates)
    BY LoadingLeaves
  <2>1. Inv' /\ before' = before /\ file' = file
    BY LoadKeeps
  <2> QED
    BY <2>1 DEF Inv, Added
<1> QED
  BY <1>1, Invariant, PTL DEF LoadsAppend

(* A gate, loaded or added, points to pins of its circuit or to none,      *)
(* whatever uids the file gives (loadGate, pinByUid).                      *)
THEOREM GatesStayWired == Spec => []GatesWired
<1>1. Inv => GatesWired
  BY DEF Inv
<1> QED
  BY <1>1, Invariant, PTL

-----------------------------------------------------------------------------
(* A text is joined from its pieces one after the other. *)

Text == Seq(Symbol)

Joins(g, n, piece) ==
  g = [s \in SUBSET (1 .. n) |->
         IF s = {} THEN << >> ELSE g[s \ {Max(s)}] \o piece[Max(s)]]

LEMMA MarksAreSymbols ==
  /\ "{" \in Symbol /\ "}" \in Symbol /\ "[" \in Symbol /\ "]" \in Symbol
  /\ "," \in Symbol /\ ":" \in Symbol /\ Quote \in Symbol /\ End \in Symbol
  /\ "true" \in Symbol /\ "false" \in Symbol /\ "" \in Symbol /\ "no name" \in Symbol
  BY SymbolAssumption DEF Mark

LEMMA TextsJoin ==
  /\ << >> \in Text
  /\ \A a \in Symbol : <<a>> \in Text
  /\ \A x, y \in Text : x \o y \in Text
<1>1. << >> \in Text
  BY DEF Text
<1>2. \A a \in Symbol : <<a>> \in Text
  BY DEF Text
<1>3. \A x, y \in Text : x \o y \in Text
  BY ConcatProperties DEF Text
<1> QED
  BY <1>1, <1>2, <1>3

LEMMA LargestOf ==
  ASSUME NEW n \in Nat, NEW s, s \subseteq 1 .. n, s # {}
  PROVE  Max(s) \in s /\ \A x \in s : x <= Max(s)
<1> DEFINE T == { n - x : x \in s }
<1>1. T \subseteq Nat
  OBVIOUS
<1>2. PICK d \in T : \A e \in T : d <= e
  <2>1. T # {}
    OBVIOUS
  <2> HIDE DEF T
  <2> QED
    BY <1>1, <2>1, LeastExists
<1>3. PICK x \in s : d = n - x
  OBVIOUS
<1>4. ASSUME NEW y \in s
      PROVE  y <= x
  <2>1. n - y \in T
    OBVIOUS
  <2>2. n - x <= n - y
    BY <1>2, <1>3, <2>1
  <2>3. n \in Int /\ x \in Int /\ y \in Int
    OBVIOUS
  <2> QED
    BY <2>2, <2>3
<1> QED
  BY <1>3, <1>4 DEF Max

(* The text joined from a set of the pieces, smaller sets first.           *)
LEMMA JoinExists ==
  ASSUME NEW n \in Nat, NEW piece \in [1 .. n -> Text]
  PROVE  \E g \in [SUBSET (1 .. n) -> Text] : Joins(g, n, piece)
<1> DEFINE D == 1 .. n
           Small(k) == { s \in SUBSET D : Cardinality(s) <= k }
           Joined(g, s) == IF s = {} THEN << >> ELSE g[s \ {Max(s)}] \o piece[Max(s)]
           Good(g, k) == g \in [Small(k) -> Text] /\ \A s \in Small(k) : g[s] = Joined(g, s)
           T == { k \in 0 .. n : \E g : Good(g, k) }
<1>1. \A s \in SUBSET D : IsFiniteSet(s) /\ Cardinality(s) \in Nat /\ Cardinality(s) <= n
  <2>1. IsFiniteSet(1 .. n) /\ Cardinality(1 .. n) = n - 1 + 1
    BY FS_Interval
  <2>2. IsFiniteSet(D) /\ Cardinality(D) = n
    BY <2>1
  <2> HIDE DEF D
  <2>3. ASSUME NEW s \in SUBSET D
        PROVE  IsFiniteSet(s) /\ Cardinality(s) <= n
    BY <2>2, FS_Subset
  <2> QED
    BY <2>3, FS_CardinalityType
<1>2. << >> \in Text /\ \A x, y \in Text : x \o y \in Text
  BY TextsJoin
<1>3. 0 \in T
  <2> DEFINE g == [s \in Small(0) |-> << >>]
  <2>1. \A s \in Small(0) : s = {}
    BY <1>1, FS_EmptySet
  <2>2. g \in [Small(0) -> Text]
    BY <1>2
  <2>3. Good(g, 0)
    BY <2>1, <2>2
  <2> HIDE DEF Good
  <2> QED
    BY <2>3
<1>4. ASSUME NEW k \in T, k < n
      PROVE  k + 1 \in T
  <2>1. PICK g : Good(g, k)
    OBVIOUS
  <2> DEFINE h == [s \in Small(k + 1) |-> Joined(g, s)]
  <2>2. ASSUME NEW s \in Small(k + 1), s # {}
        PROVE  s \ {Max(s)} \in Small(k) /\ Max(s) \in D
    <3>1. Max(s) \in s
      BY <2>2, LargestOf
    <3>2. Cardinality(s \ {Max(s)}) = Cardinality(s) - 1
      BY <1>1, <3>1, FS_RemoveElement
    <3>3. Cardinality(s) \in Nat /\ Cardinality(s) <= k + 1 /\ k \in Nat
      BY <1>1
    <3>4. Cardinality(s \ {Max(s)}) <= k
      BY <3>2, <3>3
    <3>5. s \ {Max(s)} \in SUBSET D /\ Max(s) \in D
      BY <3>1
    <3> HIDE DEF D
    <3> QED
      BY <3>4, <3>5
  <2>3. ASSUME NEW s \in Small(k)
        PROVE  s \in Small(k + 1) /\ h[s] = g[s]
    <3>1. Cardinality(s) \in Nat /\ Cardinality(s) <= k /\ k \in Nat
      BY <1>1
    <3>2. Cardinality(s) <= k + 1
      BY <3>1
    <3>3. s \in Small(k + 1)
      BY <3>2
    <3>4. g[s] = Joined(g, s)
      BY <2>1
    <3> HIDE DEF Joined, Small
    <3> QED
      BY <3>3, <3>4
  <2>4. \A s \in Small(k + 1) : h[s] = Joined(g, s) /\ Joined(h, s) = Joined(g, s)
    <3>1. \A s \in Small(k + 1) : s # {} => h[s \ {Max(s)}] = g[s \ {Max(s)}]
      BY <2>2, <2>3
    <3>2. \A s \in Small(k + 1) : Joined(h, s) = Joined(g, s)
      <4> HIDE DEF h, Small
      <4> QED
        BY <3>1
    <3> HIDE DEF Joined, Small
    <3> QED
      BY <3>2
  <2>5. ASSUME NEW s \in Small(k + 1)
        PROVE  Joined(g, s) \in Text
    <3>1. CASE s = {}
      BY <1>2, <3>1
    <3>2. CASE s # {}
      BY <1>2, <2>1, <2>2, <3>2
    <3> QED
      BY <3>1, <3>2
  <2>6. h \in [Small(k + 1) -> Text]
    <3> HIDE DEF Joined, Small
    <3> QED
      BY <2>5
  <2>7. Good(h, k + 1)
    <3> HIDE DEF Joined, Small, h
    <3> QED
      BY <2>4, <2>6
  <2> HIDE DEF Good
  <2> QED
    BY <1>4, <2>7
<1>5. T = 0 .. n
  <2> HIDE DEF T
  <2>1. T \subseteq 0 .. n
    BY DEF T
  <2> QED
    BY <1>3, <1>4, <2>1, AllReached
<1>6. PICK g : Good(g, n)
  <2>1. n \in T
    <3> HIDE DEF T
    <3> QED
      BY <1>5
  <2> HIDE DEF Good
  <2> QED
    BY <2>1
<1>7. Small(n) = SUBSET D
  BY <1>1
<1>8. g \in [SUBSET D -> Text] /\ Joins(g, n, piece)
  <2>1. g \in [SUBSET D -> Text] /\ \A s \in SUBSET D : g[s] = Joined(g, s)
    BY <1>6, <1>7
  <2> HIDE DEF Joined
  <2>2. g = [s \in SUBSET D |-> Joined(g, s)]
    BY <2>1
  <2> QED
    BY <2>1, <2>2 DEF Joins, Joined
<1> QED
  BY <1>8

(* The fold of a list of elements: the text of each with its comma.        *)
Folds(g, elements) ==
  LET seq == [i \in DOMAIN elements |-> i]
      Add(text, i) ==
        LET element == elements[i]
        IN  text \o IF i = 1 \/ element = << >> THEN element ELSE <<",">> \o element
  IN  g = [s \in SUBSET DOMAIN seq |->
             IF s = {} THEN << >> ELSE LET x == Max(s) IN Add(g[s \ {x}], seq[x])]

FoldOf(elements) == CHOOSE g : Folds(g, elements)

Piece(elements) ==
  [i \in DOMAIN elements |->
     IF i = 1 \/ elements[i] = << >> THEN elements[i] ELSE <<",">> \o elements[i]]

LEMMA FoldJoins ==
  ASSUME NEW n \in Nat, NEW elements, DOMAIN elements = 1 .. n,
         \A i \in 1 .. n : elements[i] \in Text
  PROVE  /\ Piece(elements) \in [1 .. n -> Text]
         /\ Joins(FoldOf(elements), n, Piece(elements))
<1> DEFINE piece == Piece(elements)
           seq == [i \in DOMAIN elements |-> i]
           Add(text, i) ==
             LET element == elements[i]
             IN  text \o IF i = 1 \/ element = << >> THEN element ELSE <<",">> \o element
           One(g, s) == IF s = {} THEN << >> ELSE LET x == Max(s) IN Add(g[s \ {x}], seq[x])
           Other(g, s) == IF s = {} THEN << >> ELSE g[s \ {Max(s)}] \o piece[Max(s)]
<1>1. piece \in [1 .. n -> Text]
  <2>1. <<",">> \in Text
    <3>1. "," \in Symbol
      BY MarksAreSymbols
    <3> QED
      BY <3>1, TextsJoin
  <2>2. \A i \in 1 .. n : piece[i] \in Text
    BY <2>1, TextsJoin DEF Piece
  <2> QED
    BY <2>2 DEF Piece
<1>2. ASSUME NEW g, NEW s \in SUBSET (1 .. n), s # {}
      PROVE  One(g, s) = Other(g, s)
  <2>1. Max(s) \in 1 .. n
    BY <1>2, LargestOf
  <2>2. seq[Max(s)] = Max(s)
    BY <2>1
  <2>3. \A text : Add(text, Max(s)) = text \o piece[Max(s)]
    BY <2>1 DEF Piece
  <2> HIDE DEF seq, Add, piece
  <2> QED
    BY <1>2, <2>2, <2>3
<1>3. DOMAIN seq = 1 .. n
  OBVIOUS
<1>4. ASSUME NEW g
      PROVE  Folds(g, elements) <=> Joins(g, n, piece)
  <2>1. Folds(g, elements) <=> g = [s \in SUBSET (1 .. n) |-> One(g, s)]
    BY <1>3 DEF Folds
  <2>2. Joins(g, n, piece) <=> g = [s \in SUBSET (1 .. n) |-> Other(g, s)]
    BY DEF Joins
  <2>3. \A s \in SUBSET (1 .. n) : One(g, s) = Other(g, s)
    BY <1>2
  <2> HIDE DEF One, Other, piece
  <2>4. [s \in SUBSET (1 .. n) |-> One(g, s)] = [s \in SUBSET (1 .. n) |-> Other(g, s)]
    BY <2>3
  <2> QED
    BY <2>1, <2>2, <2>4
<1>5. \E g : Joins(g, n, piece)
  <2> HIDE DEF piece
  <2> QED
    BY <1>1, JoinExists
<1>6. Folds(FoldOf(elements), elements)
  BY <1>4, <1>5 DEF FoldOf
<1> QED
  BY <1>1, <1>4, <1>6

(* What joins pieces of text makes texts of them.                          *)
LEMMA JoinIsText ==
  ASSUME NEW n \in Nat, NEW piece \in [1 .. n -> Text], NEW g, Joins(g, n, piece)
  PROVE  /\ g[{}] = << >>
         /\ \A k \in 1 .. n : g[1 .. k] = g[1 .. k - 1] \o piece[k]
         /\ \A k \in 0 .. n : g[1 .. k] \in Text
<1> DEFINE T == { k \in 0 .. n : g[1 .. k] \in Text }
<1>1. g[{}] = << >>
  BY DEF Joins
<1>2. ASSUME NEW k \in 1 .. n
      PROVE  g[1 .. k] = g[1 .. k - 1] \o piece[k]
  <2>1. /\ 1 .. k \in SUBSET (1 .. n)
        /\ 1 .. k # {}
        /\ k \in 1 .. k
    OBVIOUS
  <2>2. Max(1 .. k) \in 1 .. k /\ k <= Max(1 .. k)
    BY <2>1, LargestOf
  <2>3. Max(1 .. k) = k
    BY <2>2
  <2>4. (1 .. k) \ {k} = 1 .. k - 1
    OBVIOUS
  <2>5. g[1 .. k] = g[(1 .. k) \ {Max(1 .. k)}] \o piece[Max(1 .. k)]
    BY <2>1 DEF Joins
  <2> QED
    BY <2>3, <2>4, <2>5
<1>3. 0 \in T
  <2>1. 1 .. 0 = {}
    OBVIOUS
  <2>2. g[1 .. 0] \in Text
    BY <1>1, <2>1, TextsJoin
  <2> QED
    BY <2>2
<1>4. ASSUME NEW k \in T, k < n
      PROVE  k + 1 \in T
  <2>1. k + 1 \in 1 .. n /\ (k + 1) - 1 = k /\ k + 1 \in 0 .. n
    BY <1>4
  <2>2. g[1 .. k] \in Text /\ piece[k + 1] \in Text
    BY <2>1
  <2>3. g[1 .. k + 1] = g[1 .. k] \o piece[k + 1]
    BY <1>2, <2>1
  <2>4. g[1 .. k + 1] \in Text
    BY <2>2, <2>3, TextsJoin
  <2> QED
    BY <2>1, <2>4
<1>5. T = 0 .. n
  <2> HIDE DEF T
  <2>1. T \subseteq 0 .. n
    BY DEF T
  <2> QED
    BY <1>3, <1>4, <2>1, AllReached
<1> QED
  BY <1>1, <1>2, <1>5

LEMMA ListedIsText ==
  ASSUME NEW n \in Nat, NEW elements, DOMAIN elements = 1 .. n,
         \A i \in 1 .. n : elements[i] \in Text, NEW open \in Symbol, NEW close \in Symbol
  PROVE  Listed(open, elements, close) \in Text
<1> DEFINE all == FoldOf(elements)[1 .. n]
<1>1. n \in 0 .. n
  OBVIOUS
<1>2. all \in Text
  BY <1>1, FoldJoins, JoinIsText
<1>3. Listed(open, elements, close) =
        <<open>> \o FoldOf(elements)[DOMAIN [i \in DOMAIN elements |-> i]] \o <<close>>
  BY DEF Listed, FoldLeftDomain, FoldLeft, MapThenFoldSet, FoldOf, Folds
<1>4. DOMAIN [i \in DOMAIN elements |-> i] = 1 .. n
  OBVIOUS
<1>5. <<open>> \in Text /\ <<close>> \in Text
  BY TextsJoin
<1>6. Listed(open, elements, close) = <<open>> \o all \o <<close>>
  BY <1>3, <1>4
<1> HIDE DEF all
<1> QED
  BY <1>2, <1>5, <1>6, TextsJoin

-----------------------------------------------------------------------------
(* What a save writes is a text. *)

LEMMA WritersWrite ==
  /\ \A k \in Number : writeNumber(k) \in Text
  /\ \A s \in Symbol : writeString(s) \in Text /\ writeKey(s) \in Text
  /\ \A b \in BOOLEAN : writeBool(b) \in Text
<1>1. \A k \in Number : writeNumber(k) \in Text
  <2>1. \A k \in Number : Numeral[k] \in Symbol
    BY SymbolAssumption
  <2> QED
    BY <2>1, TextsJoin DEF writeNumber
<1>2. ASSUME NEW s \in Symbol
      PROVE  writeString(s) \in Text /\ writeKey(s) \in Text
  <2>1. \A a, b, c, d \in Symbol : <<a, b, c>> \in Text /\ <<a, b, c, d>> \in Text
    BY DEF Text
  <2> QED
    BY <1>2, <2>1, MarksAreSymbols DEF writeString, writeKey
<1>3. \A b \in BOOLEAN : writeBool(b) \in Text
  <2>1. \A b \in BOOLEAN : (IF b THEN "true" ELSE "false") \in Symbol
    BY MarksAreSymbols
  <2> QED
    BY <2>1, TextsJoin DEF writeBool
<1> QED
  BY <1>1, <1>2, <1>3

LEMMA MembersWrite ==
  ASSUME NEW key \in Symbol
  PROVE  /\ \A k \in Number : number(key, k) \in Text
         /\ \A s \in Symbol : string(key, s) \in Text
         /\ \A b \in BOOLEAN : bool(key, b) \in Text
         /\ \A t \in Text : member(key, t) \in Text
  BY WritersWrite, TextsJoin DEF number, string, bool, member

LEMMA ListsWrite ==
  ASSUME NEW n \in Nat, NEW elements, DOMAIN elements = 1 .. n,
         \A i \in 1 .. n : elements[i] \in Text
  PROVE  object(elements) \in Text /\ array(elements) \in Text
  BY MarksAreSymbols, ListedIsText DEF object, array

LEMMA ObjectWrites ==
  /\ object(<< >>) \in Text /\ array(<< >>) \in Text
  /\ \A a \in Text : object(<<a>>) \in Text
  /\ \A a, b \in Text : object(<<a, b>>) \in Text
  /\ \A a, b, c \in Text : object(<<a, b, c>>) \in Text
  /\ \A a, b, c, d, e \in Text : object(<<a, b, c, d, e>>) \in Text
  /\ \A a, b, c, d, e, f \in Text : object(<<a, b, c, d, e, f>>) \in Text
<1>1. object(<< >>) \in Text /\ array(<< >>) \in Text
  <2>1. DOMAIN << >> = 1 .. 0 /\ 0 \in Nat /\ \A i \in 1 .. 0 : FALSE
    OBVIOUS
  <2> QED
    BY <2>1, ListsWrite
<1>2. ASSUME NEW a \in Text
      PROVE  object(<<a>>) \in Text
  <2>1. DOMAIN <<a>> = 1 .. 1 /\ 1 \in Nat /\ \A i \in 1 .. 1 : <<a>>[i] \in Text
    OBVIOUS
  <2> QED
    BY <2>1, ListsWrite
<1>3. ASSUME NEW a \in Text, NEW b \in Text
      PROVE  object(<<a, b>>) \in Text
  <2>1. DOMAIN <<a, b>> = 1 .. 2 /\ 2 \in Nat /\ \A i \in 1 .. 2 : <<a, b>>[i] \in Text
    OBVIOUS
  <2> QED
    BY <2>1, ListsWrite
<1>4. ASSUME NEW a \in Text, NEW b \in Text, NEW c \in Text
      PROVE  object(<<a, b, c>>) \in Text
  <2>1. DOMAIN <<a, b, c>> = 1 .. 3 /\ 3 \in Nat /\ \A i \in 1 .. 3 : <<a, b, c>>[i] \in Text
    OBVIOUS
  <2> QED
    BY <2>1, ListsWrite
<1>5. ASSUME NEW a \in Text, NEW b \in Text, NEW c \in Text, NEW d \in Text, NEW e \in Text
      PROVE  object(<<a, b, c, d, e>>) \in Text
  <2> DEFINE t == <<a, b, c, d, e>>
  <2>1. DOMAIN t = 1 .. 5 /\ 5 \in Nat /\ \A i \in 1 .. 5 : t[i] \in Text
    OBVIOUS
  <2> HIDE DEF t
  <2>2. object(t) \in Text
    BY <2>1, ListsWrite
  <2> QED
    BY <2>2 DEF t
<1>6. ASSUME NEW a \in Text, NEW b \in Text, NEW c \in Text, NEW d \in Text, NEW e \in Text,
             NEW f \in Text
      PROVE  object(<<a, b, c, d, e, f>>) \in Text
  <2> DEFINE t == <<a, b, c, d, e, f>>
  <2>1. DOMAIN t = 1 .. 6 /\ 6 \in Nat /\ \A i \in 1 .. 6 : t[i] \in Text
    OBVIOUS
  <2> HIDE DEF t
  <2>2. object(t) \in Text
    BY <2>1, ListsWrite
  <2> QED
    BY <2>2 DEF t
<1> QED
  BY <1>1, <1>2, <1>3, <1>4, <1>5, <1>6

(* What a workspace holds, bounds on its size included.                    *)
Sized(w) ==
  /\ w \in Workspace
  /\ Len(w.models) \in 1 .. MaxRegistered /\ Len(w.circuits) \in 1 .. MaxRegistered
  /\ Len(w.variables) <= MaxVariables
  /\ Len(w.pins) <= MaxPins
  /\ Len(w.gates) <= MaxGates

LEMMA KeywordsAreSymbols ==
  /\ "registries" \in Symbol /\ "models" \in Symbol /\ "circuits" \in Symbol
  /\ "model" \in Symbol /\ "circuit" \in Symbol /\ "prng" \in Symbol
  /\ "allocator" \in Symbol /\ "diagnostics" \in Symbol /\ "variables" \in Symbol
  /\ "constants" \in Symbol /\ "equations" \in Symbol /\ "pins" \in Symbol
  /\ "gates" \in Symbol /\ "buses" \in Symbol /\ "uid" \in Symbol
  /\ "name" \in Symbol /\ "bits" \in Symbol /\ "state" \in Symbol
  /\ "locked" \in Symbol /\ "value" \in Symbol /\ "var_uid" \in Symbol
  /\ "truth" \in Symbol /\ "pin_a" \in Symbol /\ "pin_b" \in Symbol
  /\ "pin_c" \in Symbol /\ "seed" \in Symbol /\ "s0" \in Symbol
  /\ "page_count" \in Symbol /\ "error_flag" \in Symbol /\ "default" \in Symbol
<1>1. \A k \in Keyword : k \in Symbol
  BY SessionAssumption
<1>2. /\ "registries" \in Symbol /\ "models" \in Symbol /\ "circuits" \in Symbol
      /\ "model" \in Symbol /\ "circuit" \in Symbol /\ "prng" \in Symbol
  BY <1>1 DEF Keyword
<1>3. /\ "allocator" \in Symbol /\ "diagnostics" \in Symbol /\ "variables" \in Symbol
      /\ "constants" \in Symbol /\ "equations" \in Symbol /\ "pins" \in Symbol
  BY <1>1 DEF Keyword
<1>4. /\ "gates" \in Symbol /\ "buses" \in Symbol /\ "uid" \in Symbol
      /\ "name" \in Symbol /\ "bits" \in Symbol /\ "state" \in Symbol
  BY <1>1 DEF Keyword
<1>5. /\ "locked" \in Symbol /\ "value" \in Symbol /\ "var_uid" \in Symbol
      /\ "truth" \in Symbol /\ "pin_a" \in Symbol /\ "pin_b" \in Symbol
  BY <1>1 DEF Keyword
<1>6. /\ "pin_c" \in Symbol /\ "seed" \in Symbol /\ "s0" \in Symbol
      /\ "page_count" \in Symbol /\ "error_flag" \in Symbol /\ "default" \in Symbol
  BY <1>1 DEF Keyword
<1> QED
  BY <1>2, <1>3, <1>4, <1>5, <1>6

LEMMA SizesAreNumbers ==
  /\ MaxVariables \in Number /\ MaxPins \in Number /\ MaxGates \in Number
  /\ MaxRegistered \in Number /\ MaxRegistered # 0
  /\ MaxNumber \in Nat /\ 255 <= MaxNumber /\ Number \subseteq Nat
  /\ 0 .. 255 \subseteq Number
  /\ \A m \in Number, k \in Nat : k <= m => k \in Number
<1>1. MaxNumber \in Nat /\ Number = 0 .. MaxNumber
  BY SymbolAssumption DEF Number
<1>2. /\ MaxVariables \in Number /\ MaxPins \in Number /\ MaxGates \in Number
      /\ MaxRegistered \in Number /\ 255 \in Number /\ MaxRegistered # 0
  BY SessionAssumption
<1>3. 255 <= MaxNumber /\ Number \subseteq Nat
  BY <1>1, <1>2
<1>4. 0 .. 255 \subseteq Number
  BY <1>1, <1>3
<1>5. \A m \in Number, k \in Nat : k <= m => k \in Number
  BY <1>1
<1> QED
  BY <1>1, <1>2, <1>3, <1>4, <1>5

LEMMA RegistriesWrite ==
  ASSUME NEW w, Sized(w)
  PROVE  writeRegistries(w) \in Text
<1> DEFINE items(names) ==
             array([i \in DOMAIN names |-> object(<<number("uid", i), string("name", names[i])>>)])
<1>1. ASSUME NEW names \in Seq(Symbol), Len(names) <= MaxRegistered
      PROVE  items(names) \in Text
  <2> DEFINE n == Len(names)
             each == [i \in DOMAIN names |-> object(<<number("uid", i), string("name", names[i])>>)]
  <2>1. n \in Nat /\ DOMAIN names = 1 .. n /\ \A i \in 1 .. n : names[i] \in Symbol
    OBVIOUS
  <2>2. ASSUME NEW i \in 1 .. n
        PROVE  object(<<number("uid", i), string("name", names[i])>>) \in Text
    <3>1. i \in Nat /\ i <= MaxRegistered
      BY <1>1, <2>1, SizesAreNumbers
    <3>2. i \in Number
      BY <3>1, SizesAreNumbers
    <3>3. number("uid", i) \in Text /\ string("name", names[i]) \in Text
      BY <2>1, <3>2, KeywordsAreSymbols, MembersWrite
    <3> QED
      BY <3>3, ObjectWrites
  <2>3. DOMAIN each = 1 .. n /\ \A i \in 1 .. n : each[i] \in Text
    BY <2>1, <2>2
  <2> HIDE DEF each
  <2>4. array(each) \in Text
    BY <2>1, <2>3, ListsWrite
  <2> QED
    BY <2>4 DEF each
<1>2. items(w.models) \in Text /\ items(w.circuits) \in Text
  <2>1. /\ w.models \in Seq(Symbol) /\ w.circuits \in Seq(Symbol)
        /\ Len(w.models) <= MaxRegistered /\ Len(w.circuits) <= MaxRegistered
    BY SizesAreNumbers DEF Sized, Workspace
  <2> HIDE DEF items
  <2> QED
    BY <1>1, <2>1
<1>3. writeRegistries(w) =
        member("registries",
          object(<<member("models", items(w.models)), member("circuits", items(w.circuits))>>))
  BY DEF writeRegistries
<1> HIDE DEF items
<1>4. member("models", items(w.models)) \in Text /\ member("circuits", items(w.circuits)) \in Text
  BY <1>2, KeywordsAreSymbols, MembersWrite
<1>5. object(<<member("models", items(w.models)), member("circuits", items(w.circuits))>>) \in Text
  BY <1>4, ObjectWrites
<1> QED
  BY <1>3, <1>5, KeywordsAreSymbols, MembersWrite

LEMMA WorkspaceParts ==
  ASSUME NEW w, Sized(w)
  PROVE  /\ w.models \in Seq(Symbol) /\ w.circuits \in Seq(Symbol)
         /\ Len(w.models) \in 1 .. MaxRegistered /\ Len(w.circuits) \in 1 .. MaxRegistered
         /\ Last(w.models) \in Symbol /\ Last(w.circuits) \in Symbol
         /\ Len(w.models) \in Number /\ Len(w.circuits) \in Number
         /\ Len(w.variables) \in Nat /\ Len(w.pins) \in Nat /\ Len(w.gates) \in Nat
         /\ DOMAIN w.variables = 1 .. Len(w.variables)
         /\ DOMAIN w.pins = 1 .. Len(w.pins) /\ DOMAIN w.gates = 1 .. Len(w.gates)
         /\ \A i \in 1 .. Len(w.variables) :
              i \in Number /\ w.variables[i] \in [name : Symbol, bits : Number \ {0}]
         /\ \A i \in 1 .. Len(w.pins) : w.pins[i] \in PinRecord
         /\ \A i \in 1 .. Len(w.gates) : w.gates[i] \in GateRecord
         /\ w.seed \in Number
<1>1. /\ w.models \in Seq(Symbol) /\ w.circuits \in Seq(Symbol) /\ w.seed \in Number
      /\ w.variables \in Seq([name : Symbol, bits : Number \ {0}])
      /\ w.pins \in Seq(PinRecord) /\ w.gates \in Seq(GateRecord)
      /\ Len(w.models) \in 1 .. MaxRegistered /\ Len(w.circuits) \in 1 .. MaxRegistered
      /\ Len(w.variables) <= MaxVariables
  BY DEF Sized, Workspace
<1>2. ASSUME NEW s \in Seq(Symbol), Len(s) \in 1 .. MaxRegistered
      PROVE  Last(s) \in Symbol /\ Len(s) \in Number
  <2>1. Len(s) \in Nat /\ Len(s) \in 1 .. Len(s) /\ Len(s) <= MaxRegistered
    BY <1>2, SizesAreNumbers
  <2>2. s[Len(s)] \in Symbol
    BY <2>1
  <2> QED
    BY <2>1, <2>2, SizesAreNumbers DEF Last
<1>3. \A i \in 1 .. Len(w.variables) :
        i \in Number /\ w.variables[i] \in [name : Symbol, bits : Number \ {0}]
  <2>1. ASSUME NEW i \in 1 .. Len(w.variables)
        PROVE  i \in Number
    <3>1. MaxVariables \in Nat
      BY SizesAreNumbers
    <3>2. Len(w.variables) \in Nat /\ Len(w.variables) <= MaxVariables
      BY <1>1
    <3>3. i \in Nat /\ i <= MaxVariables
      BY <3>1, <3>2
    <3> QED
      BY <3>3, SizesAreNumbers
  <2> DEFINE V == [name : Symbol, bits : Number \ {0}]
  <2>2. \A i \in 1 .. Len(w.variables) : w.variables[i] \in V
    <3>1. w.variables \in Seq(V)
      BY <1>1
    <3> HIDE DEF V
    <3> QED
      BY <3>1, ElementOfSeq
  <2> QED
    BY <2>1, <2>2
<1>4. \A i \in 1 .. Len(w.pins) : w.pins[i] \in PinRecord
  BY <1>1
<1>5. \A i \in 1 .. Len(w.gates) : w.gates[i] \in GateRecord
  BY <1>1
<1> QED
  BY <1>1, <1>2, <1>3, <1>4, <1>5

LEMMA ModelWrites ==
  ASSUME NEW w, Sized(w)
  PROVE  writeModel(w) \in Text
<1> DEFINE One(i) == object(<<number("uid", i), string("name", w.variables[i].name),
                              number("bits", w.variables[i].bits)>>)
           each == [i \in DOMAIN w.variables |-> One(i)]
           a == number("uid", Len(w.models))
           b == string("name", Last(w.models))
           c == member("variables", array(each))
           d == member("constants", array(<< >>))
           e == member("equations", array(<< >>))
<1>1. writeModel(w) = member("model", object(<<a, b, c, d, e>>))
  BY DEF writeModel
<1>2. ASSUME NEW i \in 1 .. Len(w.variables)
      PROVE  One(i) \in Text
  <2>1. i \in Number /\ w.variables[i].name \in Symbol /\ w.variables[i].bits \in Number
    BY WorkspaceParts
  <2>2. /\ number("uid", i) \in Text /\ string("name", w.variables[i].name) \in Text
        /\ number("bits", w.variables[i].bits) \in Text
    BY <2>1, KeywordsAreSymbols, MembersWrite
  <2> QED
    BY <2>2, ObjectWrites
<1> HIDE DEF One
<1>3. DOMAIN each = 1 .. Len(w.variables) /\ \A i \in 1 .. Len(w.variables) : each[i] \in Text
  BY <1>2, WorkspaceParts
<1> HIDE DEF each
<1>4. array(each) \in Text
  BY <1>3, WorkspaceParts, ListsWrite
<1>5. a \in Text /\ b \in Text
  BY WorkspaceParts, KeywordsAreSymbols, MembersWrite
<1>6. c \in Text /\ d \in Text /\ e \in Text
  BY <1>4, KeywordsAreSymbols, MembersWrite, ObjectWrites
<1> HIDE DEF a, b, c, d, e
<1>7. object(<<a, b, c, d, e>>) \in Text
  BY <1>5, <1>6, ObjectWrites
<1> QED
  BY <1>1, <1>7, KeywordsAreSymbols, MembersWrite

LEMMA PinWrites ==
  ASSUME NEW pin \in PinRecord
  PROVE  writePin(pin) \in Text
<1> DEFINE a == number("uid", pin.uid)
           b == string("name", pin.name)
           c == number("state", pin.state)
           d == bool("locked", pin.locked)
           e == bool("value", pin.value)
           f == number("var_uid", pin.var_uid)
<1>1. /\ pin.uid \in Number /\ pin.name \in Symbol /\ pin.state \in Number
      /\ pin.locked \in BOOLEAN /\ pin.value \in BOOLEAN /\ pin.var_uid \in Number
  BY DEF PinRecord
<1>2. a \in Text /\ b \in Text /\ c \in Text
  BY <1>1, KeywordsAreSymbols, MembersWrite
<1>3. d \in Text /\ e \in Text /\ f \in Text
  BY <1>1, KeywordsAreSymbols, MembersWrite
<1>4. writePin(pin) = object(<<a, b, c, d, e, f>>)
  BY DEF writePin
<1> HIDE DEF a, b, c, d, e, f
<1>5. \A t1, t2, t3, t4, t5, t6 \in Text : object(<<t1, t2, t3, t4, t5, t6>>) \in Text
  BY ObjectWrites
<1>6. object(<<a, b, c, d, e, f>>) \in Text
  BY <1>2, <1>3, <1>5
<1> QED
  BY <1>4, <1>6

LEMMA GateWrites ==
  ASSUME NEW w, Sized(w), NEW gate \in GateRecord, \A i \in Position : gate.pin[i] \in 0 .. Len(w.pins)
  PROVE  writeGate(w, gate) \in Text
<1> DEFINE a == number("uid", gate.uid)
           b == number("truth", gate.truth)
           c == number("pin_a", UidOf(w, gate.pin[1]))
           d == number("pin_b", UidOf(w, gate.pin[2]))
           e == number("pin_c", UidOf(w, gate.pin[3]))
<1>1. \A p \in 0 .. Len(w.pins) : UidOf(w, p) \in Number
  <2>1. ASSUME NEW p \in 0 .. Len(w.pins), p # 0
        PROVE  w.pins[p].uid \in Number
    <3>1. p \in 1 .. Len(w.pins)
      BY <2>1, WorkspaceParts
    <3>2. w.pins[p] \in PinRecord
      BY <3>1, WorkspaceParts
    <3> QED
      BY <3>2 DEF PinRecord
  <2>2. 0 \in Number
    BY SizesAreNumbers
  <2> QED
    BY <2>1, <2>2 DEF UidOf, NullPin
<1>2. gate.uid \in Number /\ gate.truth \in Number
  <2>1. gate.uid \in Number /\ gate.truth \in 0 .. 255
    BY DEF GateRecord
  <2> QED
    BY <2>1, SizesAreNumbers
<1>3. /\ UidOf(w, gate.pin[1]) \in Number /\ UidOf(w, gate.pin[2]) \in Number
      /\ UidOf(w, gate.pin[3]) \in Number
  <2>1. 1 \in Position /\ 2 \in Position /\ 3 \in Position
    BY DEF Position
  <2> QED
    BY <1>1, <2>1
<1>4. a \in Text /\ b \in Text
  BY <1>2, KeywordsAreSymbols, MembersWrite
<1>5. c \in Text /\ d \in Text /\ e \in Text
  BY <1>3, KeywordsAreSymbols, MembersWrite
<1>6. writeGate(w, gate) = object(<<a, b, c, d, e>>)
  BY DEF writeGate
<1> HIDE DEF a, b, c, d, e
<1> QED
  BY <1>4, <1>5, <1>6, ObjectWrites

LEMMA CircuitWrites ==
  ASSUME NEW w, Sized(w), \A g \in 1 .. Len(w.gates) : WiredWithin(w.gates[g], Len(w.pins))
  PROVE  writeCircuit(w) \in Text
<1> DEFINE OfPin(i) == writePin(w.pins[i])
           OfGate(i) == IF w.gates[i].released THEN << >> ELSE writeGate(w, w.gates[i])
           each == [i \in DOMAIN w.pins |-> OfPin(i)]
           every == [i \in DOMAIN w.gates |-> OfGate(i)]
           a == number("uid", Len(w.circuits))
           b == string("name", Last(w.circuits))
           c == member("pins", array(each))
           d == member("gates", array(every))
           e == member("buses", array(<< >>))
<1>1. writeCircuit(w) = member("circuit", object(<<a, b, c, d, e>>))
  BY DEF writeCircuit
<1>2. \A i \in 1 .. Len(w.pins) : OfPin(i) \in Text
  BY WorkspaceParts, PinWrites
<1>3. ASSUME NEW i \in 1 .. Len(w.gates)
      PROVE  OfGate(i) \in Text
  <2>1. w.gates[i] \in GateRecord
    BY WorkspaceParts
  <2>2. \A k \in Position : w.gates[i].pin[k] \in 0 .. Len(w.pins)
    BY DEF WiredWithin
  <2>3. writeGate(w, w.gates[i]) \in Text
    BY <2>1, <2>2, GateWrites
  <2> QED
    BY <2>3, TextsJoin
<1> HIDE DEF OfPin, OfGate
<1>4. DOMAIN each = 1 .. Len(w.pins) /\ \A i \in 1 .. Len(w.pins) : each[i] \in Text
  BY <1>2, WorkspaceParts
<1>5. DOMAIN every = 1 .. Len(w.gates) /\ \A i \in 1 .. Len(w.gates) : every[i] \in Text
  BY <1>3, WorkspaceParts
<1> HIDE DEF each, every
<1>6. array(each) \in Text /\ array(every) \in Text
  BY <1>4, <1>5, WorkspaceParts, ListsWrite
<1>7. a \in Text /\ b \in Text
  BY WorkspaceParts, KeywordsAreSymbols, MembersWrite
<1>8. c \in Text /\ d \in Text /\ e \in Text
  BY <1>6, KeywordsAreSymbols, MembersWrite, ObjectWrites
<1> HIDE DEF a, b, c, d, e
<1>9. object(<<a, b, c, d, e>>) \in Text
  BY <1>7, <1>8, ObjectWrites
<1> QED
  BY <1>1, <1>9, KeywordsAreSymbols, MembersWrite

LEMMA SessionWrites ==
  ASSUME NEW w, Sized(w), \A g \in 1 .. Len(w.gates) : WiredWithin(w.gates[g], Len(w.pins))
  PROVE  sessionText(w) \in Text
<1>1. 0 \in Number /\ 1 \in Number
  BY SizesAreNumbers
<1>2. writePRNG(w) \in Text
  <2>1. number("seed", w.seed) \in Text /\ number("s0", 0) \in Text
    BY <1>1, WorkspaceParts, KeywordsAreSymbols, MembersWrite
  <2>2. object(<<number("seed", w.seed), number("s0", 0)>>) \in Text
    BY <2>1, ObjectWrites
  <2> QED
    BY <2>2, KeywordsAreSymbols, MembersWrite DEF writePRNG
<1>3. writeAllocator \in Text
  <2>1. object(<<number("page_count", 1)>>) \in Text
    BY <1>1, KeywordsAreSymbols, MembersWrite, ObjectWrites
  <2> QED
    BY <2>1, KeywordsAreSymbols, MembersWrite DEF writeAllocator
<1>4. writeDiagnostics \in Text
  <2>1. object(<<bool("error_flag", FALSE)>>) \in Text
    BY KeywordsAreSymbols, MembersWrite, ObjectWrites
  <2> QED
    BY <2>1, KeywordsAreSymbols, MembersWrite DEF writeDiagnostics
<1> QED
  BY <1>2, <1>3, <1>4, RegistriesWrite, ModelWrites, CircuitWrites, ObjectWrites DEF sessionText

(* Of a text a save may have written any part.                             *)
LEMMA PartOfText ==
  ASSUME NEW S, NEW s \in Seq(S), NEW k \in Nat
  PROVE  FirstOf(s, k) \in Seq(S)
<1> DEFINE m == IF k < Len(s) THEN k ELSE Len(s)
<1>1. Len(s) \in Nat /\ m \in Int /\ m <= Len(s)
  OBVIOUS
<1>2. \A i \in 1 .. m : s[i] \in S
  BY <1>1
<1> HIDE DEF m
<1>3. SubSeq(s, 1, m) \in Seq(S)
  BY <1>1, <1>2, SubSeqProperties
<1> QED
  BY <1>3 DEF FirstOf, m

-----------------------------------------------------------------------------
(* The reader. *)

(* What follows is about a file that is a text.                            *)
LEMMA ReaderFields ==
  ASSUME NEW r \in Reader
  PROVE  /\ r = [pos |-> r.pos, eof |-> r.eof, ok |-> r.ok]
         /\ r.pos \in Nat \ {0} /\ r.eof \in BOOLEAN /\ r.ok \in BOOLEAN
         /\ \A p \in Nat \ {0}, e \in BOOLEAN : [r EXCEPT !.pos = p, !.eof = e] \in Reader
         /\ \A p \in Nat \ {0} : [r EXCEPT !.pos = p] \in Reader
         /\ \A e \in BOOLEAN : [r EXCEPT !.eof = e] \in Reader /\ [r EXCEPT !.ok = e] \in Reader
  BY DEF Reader

LEMMA ReaderSteps ==
  ASSUME NEW r \in Reader, file \in Text
  PROVE  /\ HasMore(r) \in BOOLEAN
         /\ refill(r) \in Reader /\ setError(r) \in Reader /\ setError(refill(r)) \in Reader
         /\ peek[r] \in Symbol
         /\ get[r] \in Reader
         /\ setError(get[r]) \in Reader
<1>0. r.pos \in Nat \ {0} /\ r.eof \in BOOLEAN /\ r.ok \in BOOLEAN
  BY DEF Reader
<1>1. HasMore(r) \in BOOLEAN
  BY DEF HasMore
<1>2. \A x \in Reader : setError(x) \in Reader
  BY ReaderFields DEF setError
<1>3. refill(r) \in Reader
  <2>1. (r.eof \/ (r.ok /\ ~HasMore(r))) \in BOOLEAN
    OBVIOUS
  <2> QED
    BY <2>1, ReaderFields DEF refill
<1>4. HasMore(r) => file[r.pos] \in Symbol
  <2>1. HasMore(r) => r.pos \in 1 .. Len(file)
    BY <1>0 DEF HasMore, Text
  <2> QED
    BY <2>1 DEF Text
<1>5. peek[r] \in Symbol
  BY <1>4, MarksAreSymbols DEF peek
<1>6. get[r] \in Reader
  <2>1. r.pos + 1 \in Nat \ {0}
    BY <1>0
  <2>2. [r EXCEPT !.pos = @ + 1] \in Reader
    BY <2>1, ReaderFields
  <2> QED
    BY <1>3, <2>2 DEF get
<1> QED
  BY <1>1, <1>2, <1>3, <1>5, <1>6

LEMMA ConsumeSteps ==
  ASSUME NEW r \in Reader, NEW s \in Symbol, file \in Text
  PROVE  consume(r, s) \in Reader
  BY ReaderSteps DEF consume

(* A search ends at the first mark, or behind the text.                    *)
LEMMA SeekEnds ==
  ASSUME NEW r \in Reader, file \in Text, NEW from \in Nat \ {0}, NEW marks
  PROVE  \E q \in Nat :
           /\ from <= q
           /\ q > Len(file) \/ file[q] \in marks
           /\ \A i \in from .. q - 1 : i <= Len(file) /\ file[i] \notin marks
           /\ Seek(r, from, marks) = [r EXCEPT !.pos = q, !.eof = q > Len(file)]
<1> DEFINE N == Len(file)
           Ends(p) == p > N \/ file[p] \in marks
           Places(p) == { q \in Nat : p <= q /\ Ends(q) }
           Stop(p) == CHOOSE q \in Places(p) : \A y \in Places(p) : q <= y
           At(p) == [r EXCEPT !.pos = p, !.eof = p > N]
           Sought(f) == f = [p \in Nat |-> IF Ends(p) THEN At(p) ELSE f[p + 1]]
           g == [p \in Nat |-> At(Stop(p))]
           found == CHOOSE f : Sought(f)
           T == { k \in 0 .. N : found[N - k] = g[N - k] }
<1>1. N \in Nat
  BY DEF Text
<1>2. ASSUME NEW p \in Nat
      PROVE  Stop(p) \in Places(p) /\ \A y \in Places(p) : Stop(p) <= y
  <2>1. Places(p) \subseteq Nat
    OBVIOUS
  <2>2. p + N + 1 \in Places(p)
    BY <1>1
  <2> HIDE DEF Places
  <2>3. \E q \in Places(p) : \A y \in Places(p) : q <= y
    BY <2>1, <2>2, LeastExists
  <2> QED
    BY <2>3
<1>3. ASSUME NEW p \in Nat, Ends(p)
      PROVE  Stop(p) = p
  <2>1. p \in Places(p) /\ \A y \in Places(p) : y \in Nat /\ p <= y
    BY <1>3
  <2> HIDE DEF Places, Ends
  <2>2. Stop(p) <= p /\ p <= Stop(p) /\ Stop(p) \in Nat
    BY <1>2, <2>1
  <2> HIDE DEF Stop
  <2> QED
    BY <2>2
<1>4. ASSUME NEW p \in Nat, ~Ends(p)
      PROVE  Stop(p) = Stop(p + 1)
  <2>1. \A q \in Nat : p <= q /\ q # p <=> p + 1 <= q
    OBVIOUS
  <2>2. \A q \in Nat : p <= q /\ Ends(q) <=> p + 1 <= q /\ Ends(q)
    <3> HIDE DEF Ends
    <3> QED
      BY <1>4, <2>1
  <2>3. Places(p) = Places(p + 1)
    <3> HIDE DEF Ends
    <3> QED
      BY <2>2
  <2> HIDE DEF Places
  <2> QED
    BY <2>3
<1>5. Sought(g)
  <2>1. \A p \in Nat : g[p] = IF Ends(p) THEN At(p) ELSE g[p + 1]
    <3>1. \A p \in Nat : p + 1 \in Nat
      OBVIOUS
    <3> HIDE DEF At, Stop, Ends
    <3> QED
      BY <1>3, <1>4, <3>1
  <2> HIDE DEF At, Stop, Ends
  <2> QED
    BY <2>1
<1>6. Sought(found)
  <2> HIDE DEF Sought, g
  <2> QED
    BY <1>5
<1> HIDE DEF found, At, Stop, Places
<1>7. \A p \in Nat : /\ found[p] = IF Ends(p) THEN At(p) ELSE found[p + 1]
                     /\ g[p] = IF Ends(p) THEN At(p) ELSE g[p + 1]
  <2> HIDE DEF Ends, g
  <2> QED
    BY <1>5, <1>6
<1> HIDE DEF g, Sought
<1>8. \A p \in Nat : p > N => Ends(p)
  OBVIOUS
<1> HIDE DEF Ends
<1>9. 0 \in T
  <2>1. N \in Nat /\ N + 1 \in Nat /\ N + 1 > N /\ N - 0 = N
    BY <1>1
  <2>2. found[N + 1] = g[N + 1]
    BY <1>7, <1>8, <2>1
  <2>3. found[N] = g[N]
    BY <1>7, <2>1, <2>2
  <2>4. found[N - 0] = g[N - 0] /\ 0 \in 0 .. N
    BY <2>1, <2>3
  <2> QED
    BY <2>4
<1>10. ASSUME NEW k \in T, k < N
       PROVE  k + 1 \in T
  <2>1. N - (k + 1) \in Nat /\ N - (k + 1) + 1 = N - k /\ k + 1 \in 0 .. N
    BY <1>1, <1>10
  <2>2. found[N - k] = g[N - k]
    OBVIOUS
  <2>3. found[N - (k + 1)] = g[N - (k + 1)]
    BY <1>7, <2>1, <2>2
  <2> QED
    BY <2>1, <2>3
<1>11. T = 0 .. N
  <2> HIDE DEF T
  <2>1. T \subseteq 0 .. N
    BY DEF T
  <2> QED
    BY <1>1, <1>9, <1>10, <2>1, AllReached
<1>12. ASSUME NEW p \in Nat
       PROVE  found[p] = g[p]
  <2>1. CASE p > N
    BY <1>7, <1>8, <2>1
  <2>2. CASE ~(p > N)
    <3>1. N - p \in 0 .. N /\ N - (N - p) = p
      BY <1>1, <2>2
    <3>2. N - p \in T
      BY <1>11, <3>1
    <3>3. found[N - (N - p)] = g[N - (N - p)]
      BY <3>2
    <3> QED
      BY <3>1, <3>3
  <2> QED
    BY <2>1, <2>2
<1>13. Seek(r, from, marks) = found[from]
  BY DEF Seek, found, Sought, At, Ends
<1>14. found[from] = At(Stop(from))
  BY <1>12 DEF g
<1>15. /\ Stop(from) \in Nat /\ from <= Stop(from) /\ Ends(Stop(from))
       /\ \A i \in Nat : from <= i /\ Ends(i) => Stop(from) <= i
  BY <1>2 DEF Places
<1>16. \A i \in from .. Stop(from) - 1 : ~Ends(i)
  <2>1. \A i \in from .. Stop(from) - 1 : i \in Nat /\ from <= i /\ ~(Stop(from) <= i)
    BY <1>15
  <2> QED
    BY <1>15, <2>1
<1>17. \A i \in from .. Stop(from) - 1 : i <= N /\ file[i] \notin marks
  <2>1. \A i \in from .. Stop(from) - 1 : i \in Nat
    BY <1>15
  <2> QED
    BY <1>1, <1>16, <2>1 DEF Ends
<1> QED
  BY <1>13, <1>14, <1>15, <1>17 DEF At, Ends

(* Past the balancing mark, wherever it is.                                *)
LEMMA PastBalanceReads ==
  ASSUME NEW r \in Reader, file \in Text, NEW open, NEW close
  PROVE  PastBalance(r, open, close) \in Reader
<1> DEFINE N == Len(file)
           Depth(p, depth) ==
             CASE file[p] = open  -> depth + 1
               [] file[p] = close -> depth - 1
               [] OTHER           -> depth
           Stop(p, depth) == depth = 0 \/ p > N
           At(p, depth) == [r EXCEPT !.pos = p, !.eof = depth # 0]
           Turn(f, p) == [depth \in Nat |->
                            IF Stop(p, depth) THEN At(p, depth) ELSE f[p + 1][Depth(p, depth)]]
           Past(f) == f = [p \in Nat |-> Turn(f, p)]
           past == CHOOSE f : Past(f)
           From(k) == { p \in Nat : p + k > N }
           Good(f, k) == f = [p \in From(k) |-> Turn(f, p)]
           T == { k \in 0 .. N + 1 : \E f : Good(f, k) }
<1>1. N \in Nat
  BY DEF Text
<1>2. 0 \in T
  <2> DEFINE f == [p \in From(0) |-> [depth \in Nat |-> At(p, depth)]]
  <2>1. ASSUME NEW p \in From(0), NEW g
        PROVE  Turn(g, p) = [depth \in Nat |-> At(p, depth)]
    <3>1. p > N
      BY <1>1, <2>1
    <3>2. \A depth \in Nat : Stop(p, depth)
      BY <3>1
    <3> HIDE DEF Stop, At, Depth
    <3> QED
      BY <3>2
  <2>3. Good(f, 0)
    <3>1. \A p \in From(0) : Turn(f, p) = [depth \in Nat |-> At(p, depth)]
      <4> HIDE DEF f, Turn, From, At
      <4> QED
        BY <2>1
    <3> HIDE DEF Turn, From, At
    <3> QED
      BY <3>1
  <2>4. 0 \in 0 .. N + 1
    BY <1>1
  <2> HIDE DEF Good
  <2> QED
    BY <2>3, <2>4
<1>3. ASSUME NEW k \in T, k < N + 1
      PROVE  k + 1 \in T
  <2>1. PICK f : Good(f, k)
    OBVIOUS
  <2> DEFINE h == [p \in From(k + 1) |-> Turn(f, p)]
  <2>0. k \in Nat /\ k + 1 \in 0 .. N + 1
    <3>1. k \in 0 .. N + 1
      <4> HIDE DEF Good
      <4> QED
        OBVIOUS
    <3> HIDE DEF T
    <3> QED
      BY <1>1, <1>3, <3>1
  <2>2. \A p \in From(k + 1) : p + 1 \in From(k)
    <3> HIDE DEF T
    <3> QED
      BY <1>1, <2>0
  <2>3. \A p \in From(k) : p \in From(k + 1)
    <3> HIDE DEF T
    <3> QED
      BY <1>1, <2>0
  <2>4. \A p \in From(k) : h[p] = f[p]
    <3> HIDE DEF Turn, From
    <3> QED
      BY <2>1, <2>3
  <2>5. \A p \in From(k + 1) : Turn(h, p) = Turn(f, p)
    <3>1. \A p \in From(k + 1) : h[p + 1] = f[p + 1]
      BY <2>2, <2>4
    <3> HIDE DEF h, Stop, At, Depth, From
    <3> QED
      BY <3>1
  <2>6. Good(h, k + 1)
    <3> HIDE DEF Turn, From
    <3> QED
      BY <2>5
  <2> HIDE DEF Good
  <2> QED
    BY <2>0, <2>6
<1>4. T = 0 .. N + 1
  <2> HIDE DEF T
  <2>1. T \subseteq 0 .. N + 1
    BY DEF T
  <2>2. N + 1 \in Nat
    BY <1>1
  <2> QED
    BY <1>2, <1>3, <2>1, <2>2, AllReached
<1>5. PICK f : Good(f, N + 1)
  <2>1. N + 1 \in T
    <3>1. N + 1 \in 0 .. N + 1
      BY <1>1
    <3> HIDE DEF T
    <3> QED
      BY <1>4, <3>1
  <2> HIDE DEF Good
  <2> QED
    BY <2>1
<1>6. From(N + 1) = Nat
  BY <1>1
<1>7. Past(f)
  <2> HIDE DEF Turn, From
  <2> QED
    BY <1>5, <1>6
<1>8. Past(past)
  <2> HIDE DEF Past
  <2> QED
    BY <1>7
<1>9. \A p \in Nat : past[p] = Turn(past, p)
  <2> HIDE DEF past, Turn
  <2> QED
    BY <1>8
<1>10. ASSUME NEW p \in Nat, NEW depth \in Nat
       PROVE  past[p][depth] = IF Stop(p, depth) THEN At(p, depth) ELSE past[p + 1][Depth(p, depth)]
  <2> HIDE DEF past, Stop, At, Depth
  <2>1. past[p] = Turn(past, p)
    BY <1>9
  <2>2. Turn(past, p)[depth]
          = IF Stop(p, depth) THEN At(p, depth) ELSE past[p + 1][Depth(p, depth)]
    OBVIOUS
  <2> HIDE DEF Turn
  <2> QED
    BY <2>1, <2>2
<1> HIDE DEF past
<1>11. ASSUME NEW p \in Nat \ {0}, NEW depth \in Nat
       PROVE  At(p, depth) \in Reader
  <2>1. (depth # 0) \in BOOLEAN
    OBVIOUS
  <2> QED
    BY <2>1, ReaderFields
<1>12. ASSUME NEW p \in Nat, NEW depth \in Nat, ~Stop(p, depth)
       PROVE  Depth(p, depth) \in Nat
  BY <1>12
<1> DEFINE Typed(p) == \A depth \in Nat : past[p][depth] \in Reader
           U == { k \in 0 .. N : Typed(N + 1 - k) }
<1>13. ASSUME NEW p \in Nat \ {0}, p > N
       PROVE  Typed(p)
  <2>1. p \in Nat
    OBVIOUS
  <2>2. \A depth \in Nat : Stop(p, depth)
    BY <1>13
  <2> HIDE DEF Stop, At, Depth
  <2> QED
    BY <1>10, <1>11, <2>1, <2>2
<1>14. ASSUME NEW p \in Nat \ {0}, Typed(p + 1)
       PROVE  Typed(p)
  <2> SUFFICES ASSUME NEW depth \in Nat
               PROVE  past[p][depth] \in Reader
    OBVIOUS
  <2>1. p \in Nat
    OBVIOUS
  <2> HIDE DEF Stop, At, Depth
  <2>2. CASE Stop(p, depth)
    BY <1>10, <1>11, <2>1, <2>2
  <2>3. CASE ~Stop(p, depth)
    <3>1. Depth(p, depth) \in Nat
      BY <1>12, <2>1, <2>3
    <3>2. past[p + 1][Depth(p, depth)] \in Reader
      BY <1>14, <3>1
    <3> QED
      BY <1>10, <2>1, <2>3, <3>2
  <2> QED
    BY <2>2, <2>3
<1> HIDE DEF Typed, Stop, At, Depth
<1>15. 0 \in U
  <2>1. N + 1 \in Nat \ {0} /\ N + 1 > N /\ N + 1 - 0 = N + 1 /\ 0 \in 0 .. N
    BY <1>1
  <2> QED
    BY <1>13, <2>1
<1>16. ASSUME NEW k \in U, k < N
       PROVE  k + 1 \in U
  <2>1. /\ N + 1 - (k + 1) \in Nat \ {0}
        /\ N + 1 - (k + 1) + 1 = N + 1 - k
        /\ k + 1 \in 0 .. N
    BY <1>1, <1>16
  <2>2. Typed(N + 1 - k)
    OBVIOUS
  <2>3. Typed(N + 1 - (k + 1))
    BY <1>14, <2>1, <2>2
  <2> QED
    BY <2>1, <2>3
<1>17. U = 0 .. N
  <2> HIDE DEF U
  <2>1. U \subseteq 0 .. N
    BY DEF U
  <2> QED
    BY <1>1, <1>15, <1>16, <2>1, AllReached
<1>18. ASSUME NEW p \in Nat \ {0}
       PROVE  Typed(p)
  <2>1. CASE p > N
    BY <1>13, <2>1
  <2>2. CASE ~(p > N)
    <3>1. N + 1 - p \in 0 .. N /\ N + 1 - (N + 1 - p) = p
      BY <1>1, <2>2
    <3>2. N + 1 - p \in U
      BY <1>17, <3>1
    <3>3. Typed(N + 1 - (N + 1 - p))
      BY <3>2
    <3> QED
      BY <3>1, <3>3
  <2> QED
    BY <2>1, <2>2
<1>19. PastBalance(r, open, close) = past[r.pos + 1][1]
  BY DEF PastBalance, past, Past, Turn, Stop, At, Depth
<1>20. r.pos + 1 \in Nat \ {0} /\ 1 \in Nat
  <2>1. r.pos \in Nat \ {0}
    BY ReaderFields
  <2> QED
    BY <2>1
<1> QED
  BY <1>18, <1>19, <1>20 DEF Typed

LEMMA SeekReads ==
  ASSUME NEW r \in Reader, file \in Text, NEW from \in Nat \ {0}, NEW marks
  PROVE  Seek(r, from, marks) \in Reader
<1>1. PICK q \in Nat :
        /\ from <= q
        /\ q > Len(file) \/ file[q] \in marks
        /\ \A i \in from .. q - 1 : i <= Len(file) /\ file[i] \notin marks
        /\ Seek(r, from, marks) = [r EXCEPT !.pos = q, !.eof = q > Len(file)]
  BY SeekEnds
<1> DEFINE e == q > Len(file)
<1>2. q \in Nat \ {0} /\ e \in BOOLEAN
  BY <1>1
<1> HIDE DEF e
<1>3. [r EXCEPT !.pos = q, !.eof = e] \in Reader
  BY <1>2, ReaderFields
<1> QED
  BY <1>1, <1>3 DEF e

(* Every operation of the reader leaves a reader, and what it reads is a   *)
(* symbol or a number.                                                     *)
LEMMA ReaderReads ==
  ASSUME NEW r \in Reader, file \in Text
  PROVE  /\ readString[r] \in Reader
         /\ stringAt[r] \in Symbol
         /\ readUnsigned[r] \in Reader
         /\ peek[r] \in Numerals => unsignedAt[r] \in Number
         /\ readBool[r] \in Reader
         /\ skipValue[r] \in Reader
<1>0. r.pos \in Nat \ {0} /\ r.pos + 1 \in Nat \ {0} /\ Len(file) \in Nat
  BY DEF Reader, Text
<1>1. readString[r] \in Reader
  <2>1. Seek(r, r.pos + 1, {Quote}) \in Reader
    BY <1>0, SeekReads
  <2>2. ASSUME NEW c \in Reader
        PROVE  (IF c.eof THEN setError(c) ELSE get[c]) \in Reader
    BY ReaderSteps
  <2>3. setError(refill(r)) \in Reader
    BY ReaderSteps
  <2> QED
    BY <2>1, <2>2, <2>3 DEF readString
<1>2. stringAt[r] \in Symbol
  <2>1. peek[r] = Quote => r.pos \in 1 .. Len(file)
    <3>1. Quote # End
      BY DEF Quote, End
    <3> QED
      BY <1>0, <3>1 DEF peek, HasMore
  <2>2. ASSUME peek[r] = Quote, r.pos # Len(file)
        PROVE  file[r.pos + 1] \in Symbol
    <3>1. r.pos + 1 \in 1 .. Len(file)
      BY <1>0, <2>1, <2>2
    <3> QED
      BY <3>1, ElementOfSeq DEF Text
  <2>3. "" \in Symbol /\ "no name" \in Symbol
    BY MarksAreSymbols
  <2>4. \/ stringAt[r] = "" \/ stringAt[r] = "no name"
        \/ peek[r] = Quote /\ r.pos # Len(file) /\ stringAt[r] = file[r.pos + 1]
    BY DEF stringAt
  <2> QED
    BY <2>2, <2>3, <2>4
<1>3. readUnsigned[r] \in Reader /\ readBool[r] \in Reader
  BY ReaderSteps DEF readUnsigned, readBool
<1>4. ASSUME peek[r] \in Numerals
      PROVE  unsignedAt[r] \in Number
  <2>1. End \notin Numerals
    BY SymbolAssumption DEF Mark
  <2>2. file[r.pos] \in Numerals
    BY <1>4, <2>1 DEF peek
  <2>3. \E n \in Number : Numeral[n] = file[r.pos]
    BY <2>2 DEF Numerals
  <2> QED
    BY <2>3 DEF unsignedAt
<1>5. skipValue[r] \in Reader
  <2>1. PastBalance(r, "{", "}") \in Reader /\ PastBalance(r, "[", "]") \in Reader
    BY PastBalanceReads
  <2>2. refill(r) \in Reader
    BY ReaderSteps
  <2>3. Seek(r, r.pos, {",", "}", "]"}) \in Reader
    BY <1>0, SeekReads
  <2> QED
    BY <1>1, <2>1, <2>2, <2>3 DEF skipValue
<1> QED
  BY <1>1, <1>2, <1>3, <1>4, <1>5

-----------------------------------------------------------------------------
(* The types of the state. *)

Fields == [number : [NumberKey -> Number], name : Symbol, locked : BOOLEAN, value : BOOLEAN]
Place  == {"idle"} \union Object \union Array \union Record
Ending == {"none", "loaded", "refused", "rejected"}

StoreTyped == file \in Text /\ complete \in BOOLEAN /\ edits \in 0 .. MaxEdits
HeldTyped  == Sized(workspace) /\ saved \in Workspace /\ before \in Workspace
LoadTyped  == reader \in Reader /\ pc \in Place /\ fields \in Fields /\ result \in Ending

TypeInv == StoreTyped /\ HeldTyped /\ LoadTyped

LEMMA Places ==
  /\ \A o \in Object : /\ Objects[o] \union Arrays[o] \subseteq Place
                       /\ o # "session" => Parent[o] \in Place
  /\ \A a \in Array : Element[a] \in Place /\ Parent[a] \in Place
  /\ \A r \in Record : Parent[r] \in Place /\ Numbers[r] \subseteq NumberKey
<1>1. ASSUME NEW o \in Object
      PROVE  /\ Objects[o] \union Arrays[o] \subseteq Place
             /\ o # "session" => Parent[o] \in Place
  <2>1. CASE o = "session"
    BY <2>1 DEF Objects, Arrays, Place, Object, Array, Record
  <2>2. CASE o = "model"
    BY <2>2 DEF Objects, Arrays, Parent, Place, Object, Array, Record
  <2>3. CASE o = "circuit"
    BY <2>3 DEF Objects, Arrays, Parent, Place, Object, Array, Record
  <2> QED
    BY <2>1, <2>2, <2>3 DEF Object
<1>2. ASSUME NEW a \in Array
      PROVE  Element[a] \in Place /\ Parent[a] \in Place
  BY DEF Array, Element, Parent, Place, Object, Record
<1>3. ASSUME NEW r \in Record
      PROVE  Parent[r] \in Place
  BY DEF Record, Parent, Place, Object, Array
<1>4. \A r \in Record : Numbers[r] \subseteq NumberKey
  BY DEF NumberKey
<1> QED
  BY <1>1, <1>2, <1>3, <1>4

LEMMA ItemsAreSymbols ==
  /\ Names \subseteq Symbol /\ ItemNames \subseteq Symbol
  /\ Widths \subseteq Number \ {0} /\ Seeds \subseteq Number /\ TruthBytes \subseteq 0 .. 255
  /\ Rooms \subseteq Nat
  BY SessionAssumption

LEMMA FieldsTyped ==
  ASSUME NEW f \in Fields
  PROVE  /\ f.name \in Symbol /\ f.locked \in BOOLEAN /\ f.value \in BOOLEAN
         /\ f.number.uid \in Number /\ f.number.bits \in Number /\ f.number.state \in Number
         /\ f.number.var_uid \in Number /\ f.number.truth \in Number /\ f.number.seed \in Number
<1>1. /\ f.name \in Symbol /\ f.locked \in BOOLEAN /\ f.value \in BOOLEAN
      /\ f.number \in [NumberKey -> Number]
  BY DEF Fields
<1>2. "uid" \in NumberKey /\ "bits" \in NumberKey
  <2>1. "variable" \in Record /\ Numbers["variable"] = {"uid", "bits"}
    BY DEF Record, Numbers
  <2> QED
    BY <2>1 DEF NumberKey
<1>3. "state" \in NumberKey /\ "var_uid" \in NumberKey
  <2>1. "pin" \in Record /\ Numbers["pin"] = {"uid", "state", "var_uid"}
    BY DEF Record, Numbers
  <2> QED
    BY <2>1 DEF NumberKey
<1>4. "truth" \in NumberKey
  <2>1. "gate" \in Record /\ "truth" \in Numbers["gate"]
    BY DEF Record, Numbers
  <2> QED
    BY <2>1 DEF NumberKey
<1>5. "seed" \in NumberKey
  <2>1. "prng" \in Record /\ "seed" \in Numbers["prng"]
    BY DEF Record, Numbers
  <2> QED
    BY <2>1 DEF NumberKey
<1> QED
  BY <1>1, <1>2, <1>3, <1>4, <1>5

LEMMA NoFieldsTyped == NoFields \in Fields
<1>0. 0 \in Number
  BY SizesAreNumbers
<1>1. 0 \in Number /\ "" \in Symbol
  BY <1>0, MarksAreSymbols
<1>2. NoFields.number \in [NumberKey -> Number]
  BY <1>1 DEF NoFields
<1> QED
  BY <1>1, <1>2 DEF NoFields, Fields

LEMMA FieldRead ==
  ASSUME NEW f \in Fields
  PROVE  /\ \A k \in NumberKey, n \in Number : [f EXCEPT !.number[k] = n] \in Fields
         /\ \A s \in Symbol : [f EXCEPT !.name = s] \in Fields
         /\ [f EXCEPT !.locked = TRUE] \in Fields
         /\ [f EXCEPT !.value = TRUE] \in Fields
  BY DEF Fields

LEMMA FreshReads == Fresh \in Reader
  BY DEF Fresh, Reader

(* What a workspace may become, field by field.                            *)
LEMMA WorkspaceFields ==
  ASSUME NEW w \in Workspace
  PROVE  /\ \A s \in Seq(Symbol) : [w EXCEPT !.models = s] \in Workspace
         /\ \A s \in Seq(Symbol) : [w EXCEPT !.circuits = s] \in Workspace
         /\ \A s \in Seq([name : Symbol, bits : Number \ {0}]) : [w EXCEPT !.variables = s] \in Workspace
         /\ \A s \in Seq(PinRecord) : [w EXCEPT !.pins = s] \in Workspace
         /\ \A s \in Seq(GateRecord) : [w EXCEPT !.gates = s] \in Workspace
         /\ \A n \in Number : [w EXCEPT !.seed = n] \in Workspace
  BY DEF Workspace

LEMMA AppendFits ==
  ASSUME NEW S, NEW s \in Seq(S), NEW e \in S, NEW n \in Nat, Len(s) < n
  PROVE  Append(s, e) \in Seq(S) /\ Len(Append(s, e)) <= n /\ Len(Append(s, e)) = Len(s) + 1
<1>1. Append(s, e) \in Seq(S) /\ Len(Append(s, e)) = Len(s) + 1
  BY AppendProperties
<1>2. Len(s) \in Nat
  OBVIOUS
<1> QED
  BY <1>1, <1>2

(* A workspace with one more variable, pin or gate, where there is room.   *)
LEMMA SizedAppends ==
  ASSUME NEW w, Sized(w)
  PROVE  /\ \A e \in [name : Symbol, bits : Number \ {0}] :
              Len(w.variables) < MaxVariables => Sized([w EXCEPT !.variables = Append(@, e)])
         /\ \A e \in PinRecord :
              Len(w.pins) < MaxPins => Sized([w EXCEPT !.pins = Append(@, e)])
         /\ \A e \in GateRecord :
              Len(w.gates) < MaxGates => Sized([w EXCEPT !.gates = Append(@, e)])
<1> DEFINE V == [name : Symbol, bits : Number \ {0}]
<1>1. /\ w \in Workspace /\ w.variables \in Seq(V) /\ w.pins \in Seq(PinRecord)
      /\ w.gates \in Seq(GateRecord)
      /\ MaxVariables \in Nat /\ MaxPins \in Nat /\ MaxGates \in Nat
  BY SizesAreNumbers DEF Sized, Workspace
<1> HIDE DEF V
<1>2. ASSUME NEW e \in V, Len(w.variables) < MaxVariables
      PROVE  Sized([w EXCEPT !.variables = Append(@, e)])
  <2>1. Append(w.variables, e) \in Seq(V) /\ Len(Append(w.variables, e)) <= MaxVariables
    BY <1>1, <1>2, AppendFits
  <2>2. [w EXCEPT !.variables = Append(w.variables, e)] \in Workspace
    BY <1>1, <2>1, WorkspaceFields DEF V
  <2> QED
    BY <2>1, <2>2 DEF Sized, Workspace
<1>3. ASSUME NEW e \in PinRecord, Len(w.pins) < MaxPins
      PROVE  Sized([w EXCEPT !.pins = Append(@, e)])
  <2>1. Append(w.pins, e) \in Seq(PinRecord) /\ Len(Append(w.pins, e)) <= MaxPins
    BY <1>1, <1>3, AppendFits
  <2>2. [w EXCEPT !.pins = Append(w.pins, e)] \in Workspace
    BY <1>1, <2>1, WorkspaceFields
  <2> QED
    BY <2>1, <2>2 DEF Sized, Workspace
<1>4. ASSUME NEW e \in GateRecord, Len(w.gates) < MaxGates
      PROVE  Sized([w EXCEPT !.gates = Append(@, e)])
  <2>1. Append(w.gates, e) \in Seq(GateRecord) /\ Len(Append(w.gates, e)) <= MaxGates
    BY <1>1, <1>4, AppendFits
  <2>2. [w EXCEPT !.gates = Append(w.gates, e)] \in Workspace
    BY <1>1, <2>1, WorkspaceFields
  <2> QED
    BY <2>1, <2>2 DEF Sized, Workspace
<1> QED
  BY <1>2, <1>3, <1>4 DEF V

LEMMA NewProcessTyped ==
  /\ Sized(NewProcess)
  /\ NewProcess \in Workspace
<1>1. "default" \in Symbol /\ 0 \in Number
  BY KeywordsAreSymbols, SizesAreNumbers
<1>2. /\ <<"default">> \in Seq(Symbol) /\ Len(<<"default">>) = 1 /\ Len(<< >>) = 0
      /\ << >> \in Seq([name : Symbol, bits : Number \ {0}])
      /\ << >> \in Seq(PinRecord) /\ << >> \in Seq(GateRecord)
  BY <1>1
<1>3. NewProcess \in Workspace
  BY <1>1, <1>2 DEF NewProcess, Workspace
<1>4. /\ MaxRegistered \in Nat \ {0} /\ MaxVariables \in Nat /\ MaxPins \in Nat /\ MaxGates \in Nat
  BY SizesAreNumbers
<1>5. 1 \in 1 .. MaxRegistered
  BY <1>4
<1>6. Len(NewProcess.models) = 1 /\ Len(NewProcess.circuits) = 1 /\ Len(NewProcess.variables) = 0
      /\ Len(NewProcess.pins) = 0 /\ Len(NewProcess.gates) = 0
  BY <1>2 DEF NewProcess
<1> QED
  BY <1>3, <1>4, <1>5, <1>6 DEF Sized

(* Any edit leaves the workspace within its bounds.                        *)
LEMMA EditSizes ==
  ASSUME Sized(workspace), Edit
  PROVE  Sized(workspace')
<1>0. /\ workspace \in Workspace
      /\ workspace.models \in Seq(Symbol) /\ workspace.circuits \in Seq(Symbol)
      /\ workspace.pins \in Seq(PinRecord) /\ workspace.gates \in Seq(GateRecord)
      /\ DOMAIN workspace.pins = 1 .. Len(workspace.pins)
      /\ DOMAIN workspace.gates = 1 .. Len(workspace.gates)
      /\ Len(workspace.variables) \in Nat /\ Len(workspace.pins) \in Nat /\ Len(workspace.gates) \in Nat
  BY WorkspaceParts DEF Sized, Workspace
<1>1. MaxVariables \in Number /\ MaxPins \in Number /\ MaxGates \in Number /\ MaxRegistered \in Number
  BY SizesAreNumbers
<1>2. MaxVariables \in Nat /\ MaxPins \in Nat /\ MaxGates \in Nat /\ MaxRegistered \in Nat
  BY SizesAreNumbers
<1>3. ASSUME NEW name \in ItemNames, NEW bits \in Widths, addVariable(name, bits)
      PROVE  Sized(workspace')
  <2>1. [name |-> name, bits |-> bits] \in [name : Symbol, bits : Number \ {0}]
    BY ItemsAreSymbols
  <2> QED
    BY <1>3, <2>1, SizedAppends DEF addVariable, WithVariable
<1>4. ASSUME NEW name \in ItemNames, NEW var_uid \in 0 .. Len(workspace.variables), addPin(name, var_uid)
      PROVE  Sized(workspace')
  <2>1. Len(workspace.pins) < MaxPins
    BY <1>4 DEF addPin
  <2>2. Len(workspace.pins) + 1 \in Number
    <3>1. Len(workspace.pins) + 1 \in Nat /\ Len(workspace.pins) + 1 <= MaxPins
      BY <1>0, <1>2, <2>1
    <3> QED
      BY <1>1, <3>1, SizesAreNumbers
  <2>3. var_uid \in Number
    <3>1. var_uid \in Nat /\ var_uid <= MaxVariables
      <4>1. Len(workspace.variables) <= MaxVariables
        BY DEF Sized
      <4> QED
        BY <1>0, <1>2, <4>1
    <3> QED
      BY <1>1, <3>1, SizesAreNumbers
  <2>4. FLOATING \in Number
    BY SizesAreNumbers DEF FLOATING
  <2>5. NewPin(workspace, name, var_uid) \in PinRecord
    BY <2>2, <2>3, <2>4, ItemsAreSymbols DEF NewPin, PinRecord
  <2> QED
    BY <1>4, <2>1, <2>5, SizedAppends DEF addPin
<1>5. ASSUME NEW p \in DOMAIN workspace.pins, NEW pin \in PinRecord,
             workspace' = [workspace EXCEPT !.pins[p] = pin]
      PROVE  Sized(workspace')
  <2>1. /\ [workspace.pins EXCEPT ![p] = pin] \in Seq(PinRecord)
        /\ Len([workspace.pins EXCEPT ![p] = pin]) = Len(workspace.pins)
    BY <1>0, ExceptSeq
  <2>2. workspace' = [workspace EXCEPT !.pins = [workspace.pins EXCEPT ![p] = pin]]
    BY <1>5
  <2>3. workspace' \in Workspace
    BY <1>0, <2>1, <2>2, WorkspaceFields
  <2> QED
    BY <1>0, <2>1, <2>2, <2>3 DEF Sized, Workspace
<1>6. ASSUME NEW p \in DOMAIN workspace.pins, unlockPin(p) \/ \E v \in Bit : lockPin(p, v)
      PROVE  Sized(workspace')
  <2>1. workspace.pins[p] \in PinRecord
    BY WorkspaceParts
  <2>2. FLOATING \in Number /\ ZERO \in Number /\ ONE \in Number
    BY SizesAreNumbers DEF FLOATING, ZERO, ONE
  <2>3. [workspace.pins[p] EXCEPT !.locked = FALSE, !.state = FLOATING] \in PinRecord
    BY <2>1, <2>2 DEF PinRecord
  <2>4. \A v \in Bit : [workspace.pins[p] EXCEPT !.locked = TRUE, !.value = (v = 1),
                          !.state = IF v = 1 THEN ONE ELSE ZERO] \in PinRecord
    BY <2>1, <2>2 DEF PinRecord
  <2>5. CASE unlockPin(p)
    BY <1>5, <2>3, <2>5 DEF unlockPin
  <2>6. ASSUME NEW v \in Bit, lockPin(p, v)
        PROVE  Sized(workspace')
    BY <1>5, <2>4, <2>6 DEF lockPin
  <2> QED
    BY <1>6, <2>5, <2>6
<1>7. ASSUME NEW wiring \in Wirings, NEW truth \in TruthBytes, addGate(wiring, truth)
      PROVE  Sized(workspace')
  <2>1. Len(workspace.gates) < MaxGates
    BY <1>7 DEF addGate
  <2>2. Len(workspace.gates) + 1 \in Number
    <3>1. Len(workspace.gates) + 1 \in Nat /\ Len(workspace.gates) + 1 <= MaxGates
      BY <1>0, <1>2, <2>1
    <3> QED
      BY <1>1, <3>1, SizesAreNumbers
  <2>3. wiring \in [Position -> 0 .. MaxPins]
    <3>1. wiring \in [Position -> Nat]
      BY SessionAssumption
    <3>2. \A i \in Position : wiring[i] <= Len(workspace.pins)
      BY <1>7 DEF addGate
    <3>3. Len(workspace.pins) <= MaxPins
      BY DEF Sized
    <3>4. \A i \in Position : wiring[i] \in Nat
      BY <3>1
    <3>5. \A i \in Position : wiring[i] \in 0 .. MaxPins
      <4>1. \A k \in Nat, n \in Nat, m \in Nat : k <= n /\ n <= m => k \in 0 .. m
        OBVIOUS
      <4> QED
        BY <1>0, <1>2, <3>2, <3>3, <3>4, <4>1
    <3> QED
      BY <3>1, <3>5
  <2>4. NewGate(workspace, wiring, truth) \in GateRecord
    BY <2>2, <2>3, ItemsAreSymbols DEF NewGate, GateRecord
  <2> QED
    BY <1>7, <2>1, <2>4, SizedAppends DEF addGate
<1>8. ASSUME NEW g \in DOMAIN workspace.gates, markReleased(g)
      PROVE  Sized(workspace')
  <2> DEFINE gate == [workspace.gates[g] EXCEPT !.released = TRUE, !.truth = 255]
  <2>1. gate \in GateRecord
    <3>1. workspace.gates[g] \in GateRecord
      BY WorkspaceParts
    <3>2. 255 \in 0 .. 255
      OBVIOUS
    <3> QED
      BY <3>1, <3>2 DEF GateRecord
  <2>2. workspace' = [workspace EXCEPT !.gates[g] = gate]
    BY <1>8 DEF markReleased
  <2> HIDE DEF gate
  <2>3. /\ [workspace.gates EXCEPT ![g] = gate] \in Seq(GateRecord)
        /\ Len([workspace.gates EXCEPT ![g] = gate]) = Len(workspace.gates)
    BY <1>0, <2>1, ExceptSeq
  <2>4. workspace' = [workspace EXCEPT !.gates = [workspace.gates EXCEPT ![g] = gate]]
    BY <2>2
  <2>5. workspace' \in Workspace
    BY <1>0, <2>3, <2>4, WorkspaceFields
  <2> QED
    BY <1>0, <2>3, <2>4, <2>5 DEF Sized, Workspace
<1>9. ASSUME NEW value \in Seeds, seedPrng(value)
      PROVE  Sized(workspace')
  <2>1. workspace' = [workspace EXCEPT !.seed = value] /\ value \in Number
    BY <1>9, ItemsAreSymbols DEF seedPrng
  <2>2. workspace' \in Workspace
    BY <1>0, <2>1, WorkspaceFields
  <2> QED
    BY <1>0, <2>1, <2>2 DEF Sized, Workspace
<1>10. /\ Len(<< >>) = 0
       /\ << >> \in Seq([name : Symbol, bits : Number \ {0}])
       /\ << >> \in Seq(PinRecord) /\ << >> \in Seq(GateRecord)
  OBVIOUS
<1>11. ASSUME NEW s \in Seq(Symbol), NEW name \in Symbol, Len(s) \in 1 .. MaxRegistered, Len(s) < MaxRegistered
       PROVE  Append(s, name) \in Seq(Symbol) /\ Len(Append(s, name)) \in 1 .. MaxRegistered
  <2>1. Append(s, name) \in Seq(Symbol) /\ Len(Append(s, name)) = Len(s) + 1
    BY AppendProperties
  <2> QED
    BY <1>2, <1>11, <2>1
<1>12. ASSUME NEW name \in Names, newModel(name)
       PROVE  Sized(workspace')
  <2> DEFINE s == Append(workspace.models, name)
  <2>1. Len(workspace.models) \in 1 .. MaxRegistered /\ Len(workspace.models) < MaxRegistered /\ name \in Symbol
    BY <1>12, ItemsAreSymbols DEF newModel, Sized
  <2>2. s \in Seq(Symbol) /\ Len(s) \in 1 .. MaxRegistered
    BY <1>0, <1>11, <2>1
  <2>3. workspace' = [[workspace EXCEPT !.models = s] EXCEPT !.variables = << >>]
    BY <1>12 DEF newModel
  <2> HIDE DEF s
  <2>4. workspace' \in Workspace
    BY <1>0, <1>10, <2>2, <2>3, WorkspaceFields
  <2> QED
    BY <1>0, <1>2, <1>10, <2>2, <2>3, <2>4 DEF Sized, Workspace
<1>13. ASSUME NEW name \in Names, newCircuit(name)
       PROVE  Sized(workspace')
  <2> DEFINE s == Append(workspace.circuits, name)
  <2>1. Len(workspace.circuits) \in 1 .. MaxRegistered /\ Len(workspace.circuits) < MaxRegistered /\ name \in Symbol
    BY <1>13, ItemsAreSymbols DEF newCircuit, Sized
  <2>2. s \in Seq(Symbol) /\ Len(s) \in 1 .. MaxRegistered
    BY <1>0, <1>11, <2>1
  <2>3. workspace' = [[[workspace EXCEPT !.circuits = s] EXCEPT !.pins = << >>] EXCEPT !.gates = << >>]
    BY <1>13 DEF newCircuit
  <2> HIDE DEF s
  <2>4. workspace' \in Workspace
    <3>1. [workspace EXCEPT !.circuits = s] \in Workspace
      BY <1>0, <2>2, WorkspaceFields
    <3>2. [[workspace EXCEPT !.circuits = s] EXCEPT !.pins = << >>] \in Workspace
      BY <1>10, <3>1, WorkspaceFields
    <3> QED
      BY <1>10, <2>3, <3>2, WorkspaceFields
  <2> QED
    BY <1>0, <1>2, <1>10, <2>2, <2>3, <2>4 DEF Sized, Workspace
<1> QED
  BY <1>3, <1>4, <1>6, <1>7, <1>8, <1>9, <1>12, <1>13 DEF Edit

(* A load that returns or never began.                                     *)
LEMMA ReturnTyped ==
  ASSUME NEW how \in Ending, Return(how)
  PROVE  LoadTyped'
  BY FreshReads, NoFieldsTyped DEF Return, LoadTyped, Place

LEMMA BeginTyped ==
  ASSUME TypeInv, NEW r \in Reader, NEW refusal \in Ending, Begin(r, refusal)
  PROVE  TypeInv'
<1>1. file \in Text
  BY DEF TypeInv, StoreTyped
<1>2. LoadTyped'
  <2>1. CASE peek[r] = "{"
    <3>1. pc' = "session" /\ reader' = get[r] /\ result' = "none" /\ fields' = fields
      BY <2>1 DEF Begin
    <3>2. "session" \in Place /\ "none" \in Ending
      BY DEF Place, Object, Ending
    <3> QED
      BY <1>1, <3>1, <3>2, ReaderSteps DEF LoadTyped, TypeInv
  <2>2. CASE peek[r] # "{"
    BY <2>2, ReturnTyped DEF Begin
  <2> QED
    BY <2>1, <2>2
<1>3. StoreTyped' /\ HeldTyped'
  BY DEF Begin, TypeInv, StoreTyped, HeldTyped, Sized, store
<1> QED
  BY <1>2, <1>3 DEF TypeInv

LEMMA SaveTyped ==
  ASSUME TypeInv, GatesWired, saveSession
  PROVE  TypeInv'
<1>1. sessionText(workspace) \in Text
  BY SessionWrites DEF TypeInv, HeldTyped, GatesWired
<1>2. PICK room \in Rooms : /\ file' = FirstOf(sessionText(workspace), room)
                            /\ complete' = (Len(sessionText(workspace)) <= room)
  BY DEF saveSession
<1>3. file' \in Text
  BY <1>1, <1>2, PartOfText, ItemsAreSymbols DEF Text
<1>4. complete' \in BOOLEAN
  BY <1>2
<1>5. edits' \in 0 .. MaxEdits
  BY DEF saveSession, TypeInv, StoreTyped
<1>6. HeldTyped'
  BY DEF saveSession, TypeInv, HeldTyped, Sized
<1>7. LoadTyped'
  BY DEF saveSession, TypeInv, LoadTyped, Ending
<1> QED
  BY <1>3, <1>4, <1>5, <1>6, <1>7 DEF TypeInv, StoreTyped

LEMMA EditTyped ==
  ASSUME TypeInv, Edit
  PROVE  TypeInv'
<1>1. Sized(workspace')
  BY EditSizes DEF TypeInv, HeldTyped
<1>2. HeldTyped'
  BY <1>1 DEF Edit, store, TypeInv, HeldTyped, Sized
<1>3. LoadTyped'
  BY DEF Edit, TypeInv, LoadTyped, Ending
<1>4. edits' \in 0 .. MaxEdits
  <2>1. MaxEdits \in Nat /\ MaxLateEdits \in Nat /\ MaxLateEdits <= MaxEdits
    BY SessionAssumption
  <2>2. edits \in 0 .. MaxEdits /\ edits' = edits + 1
    BY DEF Edit, TypeInv, StoreTyped
  <2>3. edits < MaxEdits \/ edits < MaxLateEdits
    BY DEF Edit
  <2> QED
    BY <2>1, <2>2, <2>3
<1>5. file' = file /\ complete' = complete
  BY DEF Edit, store
<1> QED
  BY <1>2, <1>3, <1>4, <1>5 DEF TypeInv, StoreTyped

LEMMA RestartTyped ==
  ASSUME TypeInv, Restart
  PROVE  TypeInv'
<1>1. HeldTyped'
  BY NewProcessTyped DEF Restart, store, TypeInv, HeldTyped
<1>2. LoadTyped'
  BY FreshReads, NoFieldsTyped DEF Restart, LoadTyped, Place, Ending
<1>3. StoreTyped'
  BY DEF Restart, store, TypeInv, StoreTyped
<1> QED
  BY <1>1, <1>2, <1>3 DEF TypeInv

-----------------------------------------------------------------------------
(* A turn of a load. *)

LEMMA KeyReads ==
  ASSUME TypeInv
  PROVE  /\ Keyed \in Reader
         /\ Value \in Reader
         /\ file \in Text
         /\ reader \in Reader
<1>1. file \in Text /\ reader \in Reader
  BY DEF TypeInv, StoreTyped, LoadTyped
<1>2. Keyed \in Reader
  BY <1>1, ReaderReads DEF Keyed
<1>3. Value \in Reader
  BY <1>1, <1>2, ConsumeSteps, MarksAreSymbols DEF Value
<1> QED
  BY <1>1, <1>2, <1>3

(* What is left to show of a turn that reads.                              *)
LEMMA TurnTyped ==
  ASSUME TypeInv, Loading, LoadTyped',
         \/ workspace' = workspace
         \/ Sized(workspace')
  PROVE  TypeInv'
<1>1. StoreTyped'
  BY DEF Loading, store, TypeInv, StoreTyped
<1>2. Sized(workspace')
  BY DEF TypeInv, HeldTyped
<1>3. HeldTyped'
  BY <1>2 DEF Loading, store, TypeInv, HeldTyped
<1> QED
  BY <1>1, <1>3 DEF TypeInv

LEMMA MembersTyped ==
  ASSUME TypeInv, RefuseMember \/ OpenMember \/ SkipMember \/ EndMembers
  PROVE  TypeInv'
<1>0. /\ Keyed \in Reader /\ Value \in Reader /\ file \in Text /\ reader \in Reader
      /\ pc \in Place /\ fields \in Fields /\ result \in Ending
  BY KeyReads DEF TypeInv, LoadTyped
<1>1. Loading /\ workspace' = workspace
  BY DEF RefuseMember, OpenMember, SkipMember, EndMembers
<1>2. "refused" \in Ending /\ "loaded" \in Ending
  BY DEF Ending
<1>3. CASE RefuseMember
  <2>1. LoadTyped'
    BY <1>2, <1>3, ReturnTyped DEF RefuseMember
  <2> QED
    BY <1>1, <2>1, TurnTyped
<1>4. CASE OpenMember
  <2>1. CASE peek[Value] = OpenedBy(Key)
    <3>1. /\ pc \in Object /\ Key \in Objects[pc] \union Arrays[pc]
          /\ pc' = Key /\ reader' = get[Value] /\ fields' = NoFields /\ result' = result
      BY <1>4, <2>1 DEF OpenMember, InMembers
    <3>2. pc' \in Place
      BY <3>1, Places
    <3>3. reader' \in Reader
      BY <1>0, <3>1, ReaderSteps
    <3> QED
      BY <1>0, <1>1, <3>1, <3>2, <3>3, NoFieldsTyped, TurnTyped DEF LoadTyped
  <2>2. CASE peek[Value] # OpenedBy(Key)
    <3>1. LoadTyped'
      BY <1>2, <1>4, <2>2, ReturnTyped DEF OpenMember
    <3> QED
      BY <1>1, <3>1, TurnTyped
  <2> QED
    BY <2>1, <2>2
<1>5. CASE SkipMember
  <2>1. CASE Return("refused")
    <3>1. LoadTyped'
      BY <1>2, <2>1, ReturnTyped
    <3> QED
      BY <1>1, <3>1, TurnTyped
  <2>2. CASE /\ reader' = consume(skipValue[Value], ",")
             /\ UNCHANGED <<pc, fields, result>>
    <3>1. reader' \in Reader
      BY <1>0, <2>2, ReaderReads, ConsumeSteps, MarksAreSymbols
    <3> QED
      BY <1>0, <1>1, <2>2, <3>1, TurnTyped DEF LoadTyped
  <2> QED
    BY <1>5, <2>1, <2>2 DEF SkipMember
<1>6. CASE EndMembers
  <2>1. CASE Return("refused") \/ Return("loaded")
    <3>1. LoadTyped'
      BY <1>2, <2>1, ReturnTyped
    <3> QED
      BY <1>1, <3>1, TurnTyped
  <2>2. CASE /\ pc # "session"
             /\ pc' = Parent[pc]
             /\ reader' = consume(get[reader], ",")
             /\ UNCHANGED <<fields, result>>
    <3>1. reader' \in Reader
      BY <1>0, <2>2, ReaderSteps, ConsumeSteps, MarksAreSymbols
    <3>2. pc' \in Place
      BY <1>6, <2>2, Places DEF EndMembers
    <3> QED
      BY <1>0, <1>1, <2>2, <3>1, <3>2, TurnTyped DEF LoadTyped
  <2> QED
    BY <1>6, <2>1, <2>2 DEF EndMembers
<1> QED
  BY <1>3, <1>4, <1>5, <1>6

LEMMA ElementsTyped ==
  ASSUME TypeInv, NextElement \/ EndElements
  PROVE  TypeInv'
<1>0. /\ file \in Text /\ reader \in Reader
      /\ pc \in Place /\ fields \in Fields /\ result \in Ending
  BY KeyReads DEF TypeInv, LoadTyped
<1>1. Loading /\ workspace' = workspace /\ result' = result /\ pc \in Array
  BY DEF NextElement, EndElements
<1>2. CASE NextElement
  <2>1. CASE peek[reader] = "{"
    <3>1. pc' = Element[pc] /\ reader' = get[reader] /\ fields' = NoFields
      BY <1>2, <2>1 DEF NextElement
    <3>2. pc' \in Place /\ reader' \in Reader
      BY <1>0, <1>1, <3>1, Places, ReaderSteps
    <3> QED
      BY <1>0, <1>1, <3>1, <3>2, NoFieldsTyped, TurnTyped DEF LoadTyped
  <2>2. CASE peek[reader] # "{"
    <3>1. pc' = pc /\ reader' = consume(reader, ",") /\ fields' = fields
      BY <1>2, <2>2 DEF NextElement
    <3>2. reader' \in Reader
      BY <1>0, <3>1, ConsumeSteps, MarksAreSymbols
    <3> QED
      BY <1>0, <1>1, <3>1, <3>2, TurnTyped DEF LoadTyped
  <2> QED
    BY <2>1, <2>2
<1>3. CASE EndElements
  <2>1. pc' = Parent[pc] /\ reader' = consume(consume(reader, "]"), ",") /\ fields' = fields
    BY <1>3 DEF EndElements
  <2>2. pc' \in Place
    BY <1>1, <2>1, Places
  <2>3. reader' \in Reader
    BY <1>0, <2>1, ConsumeSteps, MarksAreSymbols
  <2> QED
    BY <1>0, <1>1, <2>1, <2>2, <2>3, TurnTyped DEF LoadTyped
<1> QED
  BY <1>2, <1>3

LEMMA FieldTyped ==
  ASSUME TypeInv, NEW value \in Fields, NEW end \in Reader, ReadField(value, end)
  PROVE  TypeInv'
<1>0. /\ file \in Text /\ pc \in Place /\ result \in Ending
  BY KeyReads DEF TypeInv, LoadTyped
<1>1. /\ Loading /\ workspace' = workspace /\ result' = result /\ pc' = pc
      /\ fields' = value /\ reader' = consume(end, ",")
  BY DEF ReadField
<1>2. reader' \in Reader
  BY <1>0, <1>1, ConsumeSteps, MarksAreSymbols
<1> QED
  BY <1>0, <1>1, <1>2, TurnTyped DEF LoadTyped

LEMMA FieldsRead ==
  ASSUME TypeInv, ReadNumber \/ ReadName \/ ReadBoolean \/ SkipField
  PROVE  TypeInv'
<1>0. Value \in Reader /\ file \in Text /\ fields \in Fields
  BY KeyReads DEF TypeInv, LoadTyped
<1>1. CASE ReadNumber
  <2> DEFINE value == IF peek[Value] \in Numerals
                      THEN [fields EXCEPT !.number[Key] = unsignedAt[Value]] ELSE fields
  <2>1. ReadField(value, readUnsigned[Value])
    BY <1>1 DEF ReadNumber
  <2>2. Key \in NumberKey
    BY <1>1, Places DEF ReadNumber
  <2>3. value \in Fields
    <3>1. CASE peek[Value] \in Numerals
      <4>1. unsignedAt[Value] \in Number
        BY <1>0, <3>1, ReaderReads
      <4> QED
        BY <1>0, <2>2, <3>1, <4>1, FieldRead
    <3>2. CASE peek[Value] \notin Numerals
      BY <1>0, <3>2
    <3> QED
      BY <3>1, <3>2
  <2>4. readUnsigned[Value] \in Reader
    BY <1>0, ReaderReads
  <2> HIDE DEF value
  <2> QED
    BY <2>1, <2>3, <2>4, FieldTyped
<1>2. CASE ReadName
  <2> DEFINE value == IF peek[Value] = Quote THEN [fields EXCEPT !.name = stringAt[Value]] ELSE fields
  <2>1. ReadField(value, readString[Value])
    BY <1>2 DEF ReadName
  <2>2. stringAt[Value] \in Symbol /\ readString[Value] \in Reader
    BY <1>0, ReaderReads
  <2>3. value \in Fields
    BY <1>0, <2>2, FieldRead
  <2> HIDE DEF value
  <2> QED
    BY <2>1, <2>2, <2>3, FieldTyped
<1>3. CASE ReadBoolean
  <2> DEFINE value == IF peek[Value] = "true"
                      THEN IF Key = "locked" THEN [fields EXCEPT !.locked = TRUE]
                                             ELSE [fields EXCEPT !.value = TRUE]
                      ELSE fields
  <2>1. ReadField(value, readBool[Value])
    BY <1>3 DEF ReadBoolean
  <2>2. readBool[Value] \in Reader
    BY <1>0, ReaderReads
  <2>3. value \in Fields
    BY <1>0, FieldRead
  <2> HIDE DEF value
  <2> QED
    BY <2>1, <2>2, <2>3, FieldTyped
<1>4. CASE SkipField
  <2>1. ReadField(fields, skipValue[Value])
    BY <1>4 DEF SkipField
  <2>2. skipValue[Value] \in Reader
    BY <1>0, ReaderReads
  <2> QED
    BY <1>0, <2>1, <2>2, FieldTyped
<1> QED
  BY <1>1, <1>2, <1>3, <1>4

(* The end of a record, with whatever it does to the workspace.            *)
LEMMA RecordTyped ==
  ASSUME TypeInv, NEW record \in Record, EndRecord(record),
         \/ workspace' = workspace
         \/ Sized(workspace')
  PROVE  TypeInv'
<1>0. /\ file \in Text /\ reader \in Reader /\ fields \in Fields /\ result \in Ending
  BY KeyReads DEF TypeInv, LoadTyped
<1>1. /\ Loading /\ pc' = Parent[record] /\ fields' = fields /\ result' = result
      /\ reader' = consume(consume(reader, "}"), ",")
  BY DEF EndRecord
<1>2. pc' \in Place
  BY <1>1, Places
<1>3. reader' \in Reader
  BY <1>0, <1>1, ConsumeSteps, MarksAreSymbols
<1>4. LoadTyped'
  BY <1>0, <1>1, <1>2, <1>3 DEF LoadTyped
<1> QED
  BY <1>1, <1>4, TurnTyped

LEMMA GateTyped ==
  ASSUME NEW w, NEW wiring \in [Position -> 0 .. MaxPins], NEW truth \in 0 .. 255,
         NEW uid \in Number
  PROVE  [NewGate(w, wiring, truth) EXCEPT !.uid = uid] \in GateRecord
  BY DEF NewGate, GateRecord

LEMMA RecordsTyped ==
  ASSUME TypeInv, Inv, EndVariable \/ EndPin \/ EndGate \/ EndPrng
  PROVE  TypeInv'
<1>0. Sized(workspace) /\ fields \in Fields /\ workspace \in Workspace
  BY DEF TypeInv, HeldTyped, LoadTyped, Sized
<1>1. CASE EndVariable
  <2>1. \/ workspace' = workspace
        \/ /\ Read.bits # 0 /\ Len(workspace.variables) < MaxVariables
           /\ workspace' = WithVariable(workspace, fields.name, Read.bits)
    BY <1>1 DEF EndVariable
  <2>2. Read.bits # 0 => [name |-> fields.name, bits |-> Read.bits] \in [name : Symbol, bits : Number \ {0}]
    BY <1>0, FieldsTyped DEF Read
  <2>3. workspace' = workspace \/ Sized(workspace')
    BY <1>0, <2>1, <2>2, SizedAppends DEF WithVariable
  <2>4. EndRecord("variable") /\ "variable" \in Record
    BY <1>1 DEF EndVariable, Record
  <2> QED
    BY <2>3, <2>4, RecordTyped
<1>2. CASE EndPin
  <2>1. \/ workspace' = workspace
        \/ /\ Len(workspace.pins) < MaxPins
           /\ workspace' = [workspace EXCEPT !.pins = Append(@, LoadedPin)]
    BY <1>2 DEF EndPin
  <2>2. LoadedPin \in PinRecord
    BY <1>0, FieldsTyped DEF Read, LoadedPin, PinRecord
  <2>3. workspace' = workspace \/ Sized(workspace')
    BY <1>0, <2>1, <2>2, SizedAppends
  <2>4. EndRecord("pin") /\ "pin" \in Record
    BY <1>2 DEF EndPin, Record
  <2> QED
    BY <2>3, <2>4, RecordTyped
<1>3. CASE EndGate
  <2> DEFINE truth == Read.truth % 256
             gate == [NewGate(workspace, LoadedWiring, truth) EXCEPT !.uid = Read.uid]
  <2>1. \/ workspace' = workspace
        \/ /\ Len(workspace.gates) < MaxGates
           /\ workspace' = [workspace EXCEPT !.gates = Append(@, gate)]
    BY <1>3 DEF EndGate
  <2>2. truth \in 0 .. 255
    <3>1. Read.truth \in Nat
      BY <1>0, FieldsTyped, SizesAreNumbers DEF Read
    <3> QED
      BY <3>1
  <2>3. LoadedWiring \in [Position -> 0 .. MaxPins]
    <3>1. Len(workspace.pins) \in Nat /\ MaxPins \in Nat /\ Len(workspace.pins) <= MaxPins
      <4>1. MaxPins \in Nat
        BY SizesAreNumbers
      <4> QED
        BY <1>0, <4>1, WorkspaceParts DEF Sized
    <3>2. \A k \in 0 .. Len(workspace.pins) : k \in 0 .. MaxPins
      BY <3>1
    <3>3. \A uid : pinByUid(uid) \in 0 .. MaxPins
      BY <3>2, LoadedWiringFits
    <3> QED
      BY <3>3 DEF LoadedWiring, Position
  <2>4. gate \in GateRecord
    <3>1. Read.uid \in Number
      BY <1>0, FieldsTyped DEF Read
    <3> HIDE DEF truth
    <3> QED
      BY <2>2, <2>3, <3>1, GateTyped
  <2>5. workspace' = workspace \/ Sized(workspace')
    <3> HIDE DEF gate
    <3> QED
      BY <1>0, <2>1, <2>4, SizedAppends
  <2>6. EndRecord("gate") /\ "gate" \in Record
    BY <1>3 DEF EndGate, Record
  <2> QED
    BY <2>5, <2>6, RecordTyped
<1>4. CASE EndPrng
  <2>1. workspace' = workspace \/ workspace' = [workspace EXCEPT !.seed = Read.seed]
    BY <1>4 DEF EndPrng
  <2>2. Read.seed \in Number
    BY <1>0, FieldsTyped DEF Read
  <2>3. [workspace EXCEPT !.seed = Read.seed] \in Workspace
    BY <1>0, <2>2, WorkspaceFields
  <2>4. workspace' = workspace \/ Sized(workspace')
    BY <1>0, <2>1, <2>3 DEF Sized, Workspace
  <2>5. EndRecord("prng") /\ "prng" \in Record
    BY <1>4 DEF EndPrng, Record
  <2> QED
    BY <2>4, <2>5, RecordTyped
<1> QED
  BY <1>1, <1>2, <1>3, <1>4

LEMMA Typed == Spec => []TypeInv
<1>1. Init => TypeInv
  <2> SUFFICES ASSUME Init
               PROVE  TypeInv
    OBVIOUS
  <2>1. StoreTyped
    <3>1. MaxEdits \in Nat
      BY SessionAssumption
    <3> QED
      <4>1. file \in Text
        BY TextsJoin DEF Init
      <4>2. 0 \in 0 .. MaxEdits
        BY <3>1
      <4>3. complete \in BOOLEAN /\ edits = 0
        BY DEF Init
      <4> QED
        BY <4>1, <4>2, <4>3 DEF StoreTyped
  <2>2. HeldTyped
    BY NewProcessTyped DEF Init, HeldTyped
  <2>3. LoadTyped
    BY FreshReads, NoFieldsTyped DEF Init, LoadTyped, Place, Ending
  <2> QED
    BY <2>1, <2>2, <2>3 DEF TypeInv
<1>2. TypeInv /\ Inv /\ [Next]_vars => TypeInv'
  <2> SUFFICES ASSUME TypeInv, Inv, [Next]_vars
               PROVE  TypeInv'
    OBVIOUS
  <2>1. CASE Edit
    BY <2>1, EditTyped
  <2>2. CASE Restart
    BY <2>2, RestartTyped
  <2>3. CASE saveSession
    BY <2>3, SaveTyped DEF Inv
  <2>4. CASE loadSession \/ commandLoad
    <3>1. Fresh \in Reader /\ file \in Text
      BY FreshReads DEF TypeInv, StoreTyped
    <3>2. consume(Fresh, "{") \in Reader
      BY <3>1, ConsumeSteps, MarksAreSymbols
    <3>3. "refused" \in Ending /\ "rejected" \in Ending
      BY DEF Ending
    <3> QED
      BY <2>4, <3>1, <3>2, <3>3, BeginTyped DEF loadSession, commandLoad
  <2>5. CASE LoadStep
    BY <2>5, MembersTyped, ElementsTyped, FieldsRead, RecordsTyped DEF LoadStep
  <2>6. CASE UNCHANGED vars
    BY <2>6 DEF vars, TypeInv, StoreTyped, HeldTyped, Sized, LoadTyped
  <2> QED
    BY <2>1, <2>2, <2>3, <2>4, <2>5, <2>6 DEF Next
<1> QED
  BY <1>1, <1>2, Invariant, PTL DEF Spec

(* Whatever a file holds and wherever it ends, reading it back leaves      *)
(* fields of their types and a workspace within its room: a save writes    *)
(* nothing the reader could not read, and a load adds nothing past the     *)
(* limits (loadSession, saveSession, JsonReader).                          *)
THEOREM TypeCorrect == Spec => []TypeOK
<1>1. TypeInv => TypeOK
  BY DEF TypeInv, StoreTyped, HeldTyped, LoadTyped, TypeOK, JsonTypeOK, Text, Sized, Place,
         Fields, Ending
<1> QED
  BY <1>1, Typed, PTL

=============================================================================
