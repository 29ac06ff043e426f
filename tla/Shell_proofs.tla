---------------------------- MODULE Shell_proofs ----------------------------
(***************************************************************************)
(* Proofs about Shell, for any names, pages, limits and number of          *)
(* commands.                                                               *)
(***************************************************************************)
EXTENDS Shell, Counting, SequenceTheorems

-----------------------------------------------------------------------------
(* Registries. *)

LEMMA AddType ==
  ASSUME NEW Name, NEW items \in Seq(RegistryItem(Name)), NEW uid \in Nat, NEW name \in Name,
         MAX_REGISTRY_ITEMS \in Nat, Len(items) <= MAX_REGISTRY_ITEMS
  PROVE  /\ add(items, uid, name) \in Seq(RegistryItem(Name))
         /\ Len(add(items, uid, name)) <= MAX_REGISTRY_ITEMS
<1> DEFINE same == { i \in 1 .. Len(items) : items[i].uid = uid }
           k    == CHOOSE i \in same : \A j \in same : i <= j
<1>1. Item(uid, name) \in RegistryItem(Name)
  BY DEF Item, RegistryItem
<1>2. CASE Len(items) >= MAX_REGISTRY_ITEMS
  BY <1>2 DEF add
<1>3. CASE ~(Len(items) >= MAX_REGISTRY_ITEMS) /\ same = {}
  <2>1. add(items, uid, name) = Append(items, Item(uid, name))
    BY <1>3 DEF add
  <2> QED
    BY <1>1, <1>3, <2>1, AppendProperties, LenProperties
<1>4. CASE ~(Len(items) >= MAX_REGISTRY_ITEMS) /\ same # {}
  <2>1. add(items, uid, name) = [items EXCEPT ![k] = Item(uid, name)]
    BY <1>4 DEF add
  <2> HIDE DEF k
  <2>2. /\ [items EXCEPT ![k] = Item(uid, name)] \in Seq(RegistryItem(Name))
        /\ Len([items EXCEPT ![k] = Item(uid, name)]) = Len(items)
    <3>1. CASE k \in 1 .. Len(items)
      BY <1>1, <3>1, ExceptSeq
    <3>2. CASE k \notin 1 .. Len(items)
      <4>1. [items EXCEPT ![k] = Item(uid, name)] = items
        BY <3>2, LenProperties
      <4> QED
        BY <4>1
    <3> QED
      BY <3>1, <3>2
  <2> QED
    BY <2>1, <2>2
<1> QED
  BY <1>2, <1>3, <1>4

(* What is new and finds room goes to the end.                             *)
LEMMA AddListed ==
  ASSUME NEW Name, NEW items \in Seq(RegistryItem(Name)), NEW name,
         Len(items) < MAX_REGISTRY_ITEMS, MAX_REGISTRY_ITEMS \in Nat,
         \A i \in 1 .. Len(items) : items[i].uid = i
  PROVE  add(items, Len(items) + 1, name) = Append(items, Item(Len(items) + 1, name))
<1>1. Len(items) \in Nat
  BY LenProperties
<1>2. { i \in 1 .. Len(items) : items[i].uid = Len(items) + 1 } = {}
  BY <1>1
<1>3. ~(Len(items) >= MAX_REGISTRY_ITEMS)
  BY <1>1
<1> QED
  BY <1>2, <1>3 DEF add

-----------------------------------------------------------------------------
(* Type correctness. *)

LEMMA Basics ==
  ASSUME TypeOK
  PROVE  /\ Len(models) \in Nat /\ Len(circuits) \in Nat
         /\ Len(modelRegistry) \in Nat /\ Len(circuitRegistry) \in Nat
         /\ models[currentModel] \in Model
         /\ circuits[currentCircuit] \in Circuit
         /\ Pins \in Seq(Pin) /\ Len(Pins) \in Nat
<1>1. Len(models) \in Nat /\ Len(circuits) \in Nat
      /\ Len(modelRegistry) \in Nat /\ Len(circuitRegistry) \in Nat
  BY LenProperties DEF TypeOK
<1>2. models[currentModel] \in Model /\ circuits[currentCircuit] \in Circuit
  BY ElementOfSeq DEF TypeOK
<1>3. Pins \in Seq(Pin)
  BY <1>2 DEF Pins, Circuit
<1> QED
  BY <1>1, <1>2, <1>3, LenProperties

THEOREM InitType ==
  ASSUME ShellAssumption, Init
  PROVE  TypeOK
<1>1. models[1] \in Model /\ circuits[1] \in Circuit
  BY EmptySeq DEF Init, Model, Circuit, ItemName
<1>2. /\ models \in Seq(Model) /\ Len(models) = 1
      /\ circuits \in Seq(Circuit) /\ Len(circuits) = 1
  BY <1>1 DEF Init
<1>3. /\ << >> \in Seq(RegistryItem(ItemName)) /\ Len(<< >>) = 0
      /\ "default" \in ItemName
  BY EmptySeq DEF ItemName
<1>4. \A registry \in {modelRegistry, circuitRegistry} :
        registry \in Seq(RegistryItem(ItemName)) /\ Len(registry) <= MAX_REGISTRY_ITEMS
  <2>1. MAX_REGISTRY_ITEMS \in Nat /\ 1 \in Nat
    BY DEF ShellAssumption
  <2>2. Len(<< >>) <= MAX_REGISTRY_ITEMS
    BY <1>3, <2>1
  <2>3. /\ add(<< >>, 1, "default") \in Seq(RegistryItem(ItemName))
        /\ Len(add(<< >>, 1, "default")) <= MAX_REGISTRY_ITEMS
    BY <1>3, <2>1, <2>2, AddType
  <2> QED
    BY <2>3 DEF Init
<1>5. \A m \in 1 .. Len(models) : models[m].variables <= MAX_VARIABLES_PER_MODEL
  BY <1>2 DEF Init, ShellAssumption
<1> QED
  BY <1>2, <1>4, <1>5 DEF Init, TypeOK, ShellAssumption

(* Appending a pin to the current circuit, in its last page or a new one.  *)
LEMMA AppendPinType ==
  ASSUME ShellAssumption, TypeOK, NEW name \in Names, NEW locked \in BOOLEAN, AppendPin(name, locked)
  PROVE  /\ circuits' \in Seq(Circuit)
         /\ Len(circuits') = Len(circuits)
         /\ usedPages' \in 2 .. TotalPages
<1> DEFINE new == [name |-> name, locked |-> locked]
           now == [circuits[currentCircuit] EXCEPT !.pins = Append(@, new)]
<1>1. new \in Pin
  BY DEF Pin
<1>2. Append(Pins, new) \in Seq(Pin)
  BY <1>1, Basics, AppendProperties
<1>3. now \in Circuit
  BY <1>2, Basics DEF Circuit, Pins
<1>4. circuits' = [circuits EXCEPT ![currentCircuit] = now]
  BY DEF AppendPin
<1>5. circuits' \in Seq(Circuit) /\ Len(circuits') = Len(circuits)
  <2> HIDE DEF now
  <2> QED
    BY <1>3, <1>4, ExceptSeq DEF TypeOK
<1>6. usedPages' \in 2 .. TotalPages
  BY DEF AppendPin, RoomForPin, RoomForPage, TypeOK, ShellAssumption
<1> QED
  BY <1>5, <1>6

LEMMA RefuseType ==
  ASSUME ShellAssumption, TypeOK, Execute, Refuse
  PROVE  TypeOK'
  BY DEF TypeOK, ShellAssumption, Execute, Refuse, Fail, objects, registries

LEMMA EndsType ==
  ASSUME ShellAssumption, TypeOK, Execute, Succeed \/ Fail \/ Killed
  PROVE  /\ shell' \in {"prompt", "line", "ended"}
         /\ exit' \in {0, 1, Signal}
         /\ interactive' \in BOOLEAN
         /\ commands' \in 0 .. MaxCommands
  BY DEF TypeOK, ShellAssumption, Execute, Succeed, Fail, Killed, Signal

LEMMA MayTakePageType ==
  ASSUME ShellAssumption, TypeOK, MayTakePage
  PROVE  usedPages' \in 2 .. TotalPages
  BY DEF MayTakePage, RoomForPage, TypeOK, ShellAssumption

LEMMA VariablesType ==
  ASSUME ShellAssumption, TypeOK, NEW n \in 0 .. MAX_VARIABLES_PER_MODEL,
         models' = [models EXCEPT ![currentModel].variables = n]
  PROVE  /\ models' \in Seq(Model)
         /\ Len(models') = Len(models)
         /\ \A m \in 1 .. Len(models') : models'[m].variables <= MAX_VARIABLES_PER_MODEL
<1> DEFINE now == [models[currentModel] EXCEPT !.variables = n]
<1>1. n \in Nat /\ n <= MAX_VARIABLES_PER_MODEL
  BY DEF ShellAssumption
<1>2. now \in Model /\ now.variables = n
  <2>1. models[currentModel] \in Model
    BY Basics
  <2> QED
    BY <1>1, <2>1 DEF Model
<1>3. models' = [models EXCEPT ![currentModel] = now]
  OBVIOUS
<1> HIDE DEF now
<1>4. models \in Seq(Model) /\ currentModel \in 1 .. Len(models)
  BY DEF TypeOK
<1>5. /\ models' \in Seq(Model)
      /\ Len(models') = Len(models)
      /\ models'[currentModel] = now
      /\ \A m \in 1 .. Len(models) : m # currentModel => models'[m] = models[m]
  BY <1>2, <1>3, <1>4, ExceptSeq
<1>6. ASSUME NEW m \in 1 .. Len(models')
      PROVE  models'[m].variables <= MAX_VARIABLES_PER_MODEL
  <2>1. CASE m = currentModel
    BY <1>1, <1>2, <1>5, <2>1
  <2>2. CASE m # currentModel
    BY <1>5, <2>2 DEF TypeOK
  <2> QED
    BY <2>1, <2>2
<1> QED
  BY <1>5, <1>6

LEMMA StepType ==
  ASSUME ShellAssumption, TypeOK, [Next]_vars
  PROVE  TypeOK'
<1>0. /\ MAX_REGISTRY_ITEMS \in Nat /\ MAX_VARIABLES_PER_MODEL \in Nat /\ TotalPages \in Nat
      /\ \A name \in Names : name \in ItemName
  BY DEF ShellAssumption, ItemName
<1>1. ASSUME NEW name \in Names, commandModel(name)
      PROVE  TypeOK'
  <2>1. CASE ~RoomForPage /\ Refuse
    BY <1>1, <2>1, RefuseType DEF commandModel
  <2>2. CASE ~(~RoomForPage /\ Refuse)
    <3> DEFINE uid == nextUid(modelRegistry)
               new == [uid |-> uid, name |-> name, variables |-> 0]
    <3>1. /\ RoomForPage /\ Execute /\ Succeed
          /\ models' = Append(models, new)
          /\ currentModel' = Len(models) + 1
          /\ modelRegistry' = add(modelRegistry, uid, name)
          /\ usedPages' = usedPages + 1
          /\ UNCHANGED <<circuits, circuitRegistry, currentCircuit>>
      BY <1>1, <2>2 DEF commandModel
    <3>2. uid \in Nat /\ new \in Model /\ new.variables = 0
      BY <1>0, Basics DEF nextUid, Model
    <3> HIDE DEF uid, new
    <3>3. /\ models' \in Seq(Model)
          /\ Len(models') = Len(models) + 1
          /\ models'[Len(models) + 1] = new
          /\ \A m \in 1 .. Len(models) : models'[m] = models[m]
      BY <3>1, <3>2, AppendProperties, Basics DEF TypeOK
    <3>4. \A m \in 1 .. Len(models') : models'[m].variables <= MAX_VARIABLES_PER_MODEL
      <4>1. ASSUME NEW m \in 1 .. Len(models')
            PROVE  models'[m].variables <= MAX_VARIABLES_PER_MODEL
        <5>1. CASE m \in 1 .. Len(models)
          BY <3>3, <5>1 DEF TypeOK
        <5>2. CASE m = Len(models) + 1
          BY <1>0, <3>2, <3>3, <5>2
        <5> QED
          BY <3>3, <5>1, <5>2, Basics
      <4> QED
        BY <4>1
    <3>5. /\ modelRegistry' \in Seq(RegistryItem(ItemName))
          /\ Len(modelRegistry') <= MAX_REGISTRY_ITEMS
      BY <1>0, <3>1, <3>2, AddType DEF TypeOK
    <3>6. usedPages' \in 2 .. TotalPages
      BY <1>0, <3>1 DEF RoomForPage, TypeOK
    <3> QED
      BY <3>1, <3>3, <3>4, <3>5, <3>6, EndsType, Basics, SMTT(30) DEF TypeOK
  <2> QED
    BY <2>1, <2>2
<1>2. ASSUME NEW name \in Names, commandCircuit(name)
      PROVE  TypeOK'
  <2>1. CASE ~RoomForPage /\ Refuse
    BY <1>2, <2>1, RefuseType DEF commandCircuit
  <2>2. CASE ~(~RoomForPage /\ Refuse)
    <3> DEFINE uid == nextUid(circuitRegistry)
               new == [uid |-> uid, name |-> name, pins |-> << >>]
    <3>1. /\ RoomForPage /\ Execute /\ Succeed
          /\ circuits' = Append(circuits, new)
          /\ currentCircuit' = Len(circuits) + 1
          /\ circuitRegistry' = add(circuitRegistry, uid, name)
          /\ usedPages' = usedPages + 1
          /\ UNCHANGED <<models, modelRegistry, currentModel>>
      BY <1>2, <2>2 DEF commandCircuit
    <3>2. uid \in Nat /\ new \in Circuit
      BY <1>0, Basics, EmptySeq DEF nextUid, Circuit
    <3> HIDE DEF uid, new
    <3>3. circuits' \in Seq(Circuit) /\ Len(circuits') = Len(circuits) + 1
      BY <3>1, <3>2, AppendProperties, Basics DEF TypeOK
    <3>4. /\ circuitRegistry' \in Seq(RegistryItem(ItemName))
          /\ Len(circuitRegistry') <= MAX_REGISTRY_ITEMS
      BY <1>0, <3>1, <3>2, AddType DEF TypeOK
    <3>5. usedPages' \in 2 .. TotalPages
      BY <1>0, <3>1 DEF RoomForPage, TypeOK
    <3> QED
      BY <3>1, <3>3, <3>4, <3>5, EndsType, Basics DEF TypeOK
  <2> QED
    BY <2>1, <2>2
<1>3. CASE commandVariable
  <2>1. CASE models[currentModel].variables >= MAX_VARIABLES_PER_MODEL /\ Refuse
    BY <1>3, <2>1, RefuseType DEF commandVariable
  <2>2. CASE ~(models[currentModel].variables >= MAX_VARIABLES_PER_MODEL /\ Refuse)
    <3>1. /\ Execute /\ Succeed
          /\ models[currentModel].variables < MAX_VARIABLES_PER_MODEL
          /\ models' = [models EXCEPT ![currentModel].variables = @ + 1]
          /\ UNCHANGED <<circuits, usedPages, registries>>
      BY <1>3, <2>2 DEF commandVariable
    <3>2. models[currentModel].variables + 1 \in 0 .. MAX_VARIABLES_PER_MODEL
      BY <1>0, <3>1, Basics, SMTT(30) DEF Model
    <3>3. models' = [models EXCEPT ![currentModel].variables = models[currentModel].variables + 1]
      BY <3>1
    <3>4. /\ models' \in Seq(Model)
          /\ Len(models') = Len(models)
          /\ \A m \in 1 .. Len(models') : models'[m].variables <= MAX_VARIABLES_PER_MODEL
      BY <3>2, <3>3, VariablesType
    <3> QED
      BY <3>1, <3>4, EndsType DEF TypeOK, registries
  <2> QED
    BY <2>1, <2>2
<1>4. ASSUME NEW name \in Names, commandPin(name)
      PROVE  TypeOK'
  <2>1. CASE Refuse
    BY <1>4, <2>1, RefuseType DEF commandPin
  <2>2. CASE AppendPin(name, FALSE) /\ Succeed /\ UNCHANGED <<models, registries>>
    <3>1. Execute
      BY <1>4 DEF commandPin
    <3> QED
      BY <2>2, <3>1, AppendPinType, EndsType DEF TypeOK, registries
  <2> QED
    BY <1>4, <2>1, <2>2 DEF commandPin
<1>5. ASSUME NEW name \in Names, NEW locked \in BOOLEAN, SetPin(name, locked)
      PROVE  TypeOK'
  <2>1. CASE Refuse
    BY <1>5, <2>1, RefuseType DEF SetPin
  <2>2. CASE ~Refuse
    <3> DEFINE p    == findPin(name)
               now  == [circuits[currentCircuit] EXCEPT !.pins[p].locked = locked]
    <3>1. /\ Execute /\ Succeed
          /\ circuits' = [circuits EXCEPT ![currentCircuit].pins[p].locked = locked]
          /\ UNCHANGED <<models, usedPages, registries>>
      BY <1>5, <2>2 DEF SetPin
    <3>2. circuits' = [circuits EXCEPT ![currentCircuit] = now]
      BY <3>1
    <3>3. now \in Circuit
      <4> HIDE DEF p
      <4>1. now = [circuits[currentCircuit] EXCEPT !.pins = [Pins EXCEPT ![p] = [Pins[p] EXCEPT !.locked = locked]]]
        BY Basics DEF Circuit, Pins
      <4>2. [Pins EXCEPT ![p] = [Pins[p] EXCEPT !.locked = locked]] \in Seq(Pin)
        <5>1. CASE p \in 1 .. Len(Pins)
          <6>1. [Pins[p] EXCEPT !.locked = locked] \in Pin
            <7>1. Pins[p] \in Pin
              BY <5>1, Basics, ElementOfSeq
            <7> QED
              BY <7>1 DEF Pin
          <6> QED
            BY <5>1, <6>1, Basics, ExceptSeq
        <5>2. CASE p \notin 1 .. Len(Pins)
          <6>1. [Pins EXCEPT ![p] = [Pins[p] EXCEPT !.locked = locked]] = Pins
            BY <5>2, Basics, LenProperties
          <6> QED
            BY <6>1, Basics
        <5> QED
          BY <5>1, <5>2
      <4> QED
        BY <4>1, <4>2, Basics DEF Circuit
    <3> HIDE DEF now, p
    <3>4. circuits' \in Seq(Circuit) /\ Len(circuits') = Len(circuits)
      BY <3>2, <3>3, ExceptSeq DEF TypeOK
    <3> QED
      BY <3>1, <3>4, EndsType DEF TypeOK, registries
  <2> QED
    BY <2>1, <2>2
<1>6. CASE CommandThatFails
  BY <1>6, RefuseType DEF CommandThatFails
<1>7. CASE CommandThatShows
  BY <1>7, EndsType DEF CommandThatShows, TypeOK, objects, registries
<1>8. CASE Parse /\ (Succeed \/ Fail \/ Killed)
  <2>1. PICK n \in models[currentModel].variables .. MAX_VARIABLES_PER_MODEL :
          models' = [models EXCEPT ![currentModel].variables = n]
    BY <1>8 DEF Parse
  <2>2. n \in 0 .. MAX_VARIABLES_PER_MODEL
    BY <1>0, Basics DEF Model
  <2>3. /\ models' \in Seq(Model)
        /\ Len(models') = Len(models)
        /\ \A m \in 1 .. Len(models') : models'[m].variables <= MAX_VARIABLES_PER_MODEL
    BY <2>1, <2>2, VariablesType
  <2>4. Execute /\ MayTakePage /\ UNCHANGED <<circuits, registries>>
    BY <1>8 DEF Parse
  <2> QED
    BY <1>8, <2>3, <2>4, EndsType, MayTakePageType DEF TypeOK, registries
<1>9. CASE EmitCircuit
  <2>1. Execute /\ (Succeed \/ Fail) /\ UNCHANGED <<models, registries>>
    BY <1>9 DEF EmitCircuit
  <2>2. /\ circuits' \in Seq(Circuit)
        /\ Len(circuits') = Len(circuits)
        /\ usedPages' \in 2 .. TotalPages
    <3>1. CASE MayTakePage /\ UNCHANGED circuits
      BY <3>1, MayTakePageType DEF TypeOK
    <3>2. ASSUME NEW name \in Names, NEW locked \in BOOLEAN, AppendPin(name, locked)
          PROVE  /\ circuits' \in Seq(Circuit)
                 /\ Len(circuits') = Len(circuits)
                 /\ usedPages' \in 2 .. TotalPages
      BY <3>2, AppendPinType
    <3> QED
      BY <1>9, <3>1, <3>2 DEF EmitCircuit
  <2> QED
    BY <2>1, <2>2, EndsType DEF TypeOK, registries
<1>10. CASE CommandElsewhere
  BY <1>10, EndsType, MayTakePageType DEF CommandElsewhere, TypeOK, registries
<1>11. CASE EndLine \/ EndInput
  BY <1>11 DEF EndLine, EndInput, TypeOK, objects, registries
<1>12. CASE UNCHANGED vars
  BY <1>12 DEF vars, objects, registries, TypeOK
<1> QED
  BY <1>1, <1>2, <1>3, <1>4, <1>5, <1>6, <1>7, <1>8, <1>9, <1>10, <1>11, <1>12
  DEF Next, commandLock, commandUnlock, commandEquation, commandFunction, commandInequality,
      commandCompile, commandCrypto

(* The shell works on a model and a circuit it has, within the pages there *)
(* are and the limits of its registries and models.                        *)
THEOREM TypeCorrect ==
  ASSUME ShellAssumption
  PROVE  Spec => []TypeOK
<1>1. Init => TypeOK
  BY InitType
<1>2. TypeOK /\ [Next]_vars => TypeOK'
  BY StepType
<1> QED
  BY <1>1, <1>2, PTL DEF Spec

-----------------------------------------------------------------------------
(* What a step does to the objects and the registries: one object is made  *)
(* and listed, or each object stays but for the current ones.              *)

MakesModel(name) ==
  LET uid == nextUid(modelRegistry)
  IN /\ RoomForPage
     /\ models' = Append(models, [uid |-> uid, name |-> name, variables |-> 0])
     /\ modelRegistry' = add(modelRegistry, uid, name)
     /\ currentModel' = Len(models) + 1
     /\ usedPages' = usedPages + 1
     /\ UNCHANGED <<circuits, circuitRegistry, currentCircuit>>

MakesCircuit(name) ==
  LET uid == nextUid(circuitRegistry)
  IN /\ RoomForPage
     /\ circuits' = Append(circuits, [uid |-> uid, name |-> name, pins |-> << >>])
     /\ circuitRegistry' = add(circuitRegistry, uid, name)
     /\ currentCircuit' = Len(circuits) + 1
     /\ usedPages' = usedPages + 1
     /\ UNCHANGED <<models, modelRegistry, currentModel>>

ModelsStay ==
  \/ UNCHANGED models
  \/ \E n \in Nat : models' = [models EXCEPT ![currentModel].variables = n]

CircuitsStay ==
  \/ UNCHANGED circuits
  \/ \E name \in Names, locked \in BOOLEAN : AppendPin(name, locked)
  \/ \E name \in Names, locked \in BOOLEAN :
       /\ Named(name) # {}
       /\ circuits' = [circuits EXCEPT ![currentCircuit].pins[findPin(name)].locked = locked]

ObjectsStay ==
  /\ ModelsStay /\ CircuitsStay
  /\ usedPages' >= usedPages
  /\ UNCHANGED registries

LEMMA Effect ==
  ASSUME ShellAssumption, TypeOK, [Next]_vars
  PROVE  \/ \E name \in Names : MakesModel(name) \/ MakesCircuit(name)
         \/ ObjectsStay
<1>0. usedPages \in Nat /\ models[currentModel].variables \in Nat /\ MAX_VARIABLES_PER_MODEL \in Nat
  <2>1. models[currentModel].variables \in Nat
    BY Basics DEF Model
  <2> QED
    BY <2>1 DEF TypeOK, ShellAssumption
<1>1. ASSUME Refuse
      PROVE  ObjectsStay
  BY <1>0, <1>1 DEF Refuse, objects, ObjectsStay, ModelsStay, CircuitsStay
<1>2. ASSUME MayTakePage
      PROVE  usedPages' >= usedPages
  BY <1>0, <1>2 DEF MayTakePage
<1>3. ASSUME NEW name \in Names, NEW locked \in BOOLEAN, AppendPin(name, locked)
      PROVE  usedPages' >= usedPages
  BY <1>0, <1>3 DEF AppendPin
<1>4. ASSUME NEW name \in Names, commandModel(name)
      PROVE  MakesModel(name) \/ ObjectsStay
  BY <1>1, <1>4 DEF commandModel, MakesModel
<1>5. ASSUME NEW name \in Names, commandCircuit(name)
      PROVE  MakesCircuit(name) \/ ObjectsStay
  BY <1>1, <1>5 DEF commandCircuit, MakesCircuit
<1>6. ASSUME NEW name \in Names, commandPin(name)
      PROVE  ObjectsStay
  BY <1>1, <1>3, <1>6 DEF commandPin, ObjectsStay, ModelsStay, CircuitsStay
<1>7. ASSUME NEW name \in Names, NEW locked \in BOOLEAN, SetPin(name, locked)
      PROVE  ObjectsStay
  <2>1. CASE Refuse
    BY <1>1, <2>1
  <2>2. CASE ~Refuse
    <3>1. /\ Named(name) # {}
          /\ circuits' = [circuits EXCEPT ![currentCircuit].pins[findPin(name)].locked = locked]
          /\ UNCHANGED <<models, usedPages, registries>>
      BY <1>7, <2>2 DEF SetPin
    <3>2. CircuitsStay
      BY <3>1 DEF CircuitsStay
    <3> QED
      BY <1>0, <3>1, <3>2 DEF ObjectsStay, ModelsStay
  <2> QED
    BY <2>1, <2>2
<1>8. CASE commandVariable
  <2>1. CASE Refuse
    BY <1>1, <2>1
  <2>2. CASE ~Refuse
    <3>1. /\ models' = [models EXCEPT ![currentModel].variables = @ + 1]
          /\ UNCHANGED <<circuits, usedPages, registries>>
      BY <1>8, <2>2 DEF commandVariable
    <3>2. models' = [models EXCEPT ![currentModel].variables = models[currentModel].variables + 1]
      BY <3>1
    <3>3. ModelsStay
      <4> DEFINE n == models[currentModel].variables + 1
      <4>1. n \in Nat /\ models' = [models EXCEPT ![currentModel].variables = n]
        BY <1>0, <3>2
      <4> HIDE DEF n
      <4> QED
        BY <4>1 DEF ModelsStay
    <3> QED
      BY <1>0, <3>1, <3>3 DEF ObjectsStay, CircuitsStay
  <2> QED
    BY <2>1, <2>2
<1>9. CASE CommandThatFails \/ CommandThatShows \/ EndLine \/ EndInput \/ UNCHANGED vars
  <2>1. UNCHANGED <<objects, registries>>
    BY <1>9 DEF CommandThatFails, CommandThatShows, EndLine, EndInput, vars, Refuse
  <2> QED
    BY <1>0, <2>1 DEF objects, ObjectsStay, ModelsStay, CircuitsStay
<1>10. CASE Parse
  <2>1. PICK n \in models[currentModel].variables .. MAX_VARIABLES_PER_MODEL :
          models' = [models EXCEPT ![currentModel].variables = n]
    BY <1>10 DEF Parse
  <2>2. n \in Nat
    BY <1>0
  <2> QED
    BY <1>2, <1>10, <2>1, <2>2 DEF Parse, ObjectsStay, ModelsStay, CircuitsStay
<1>11. CASE EmitCircuit
  <2>1. usedPages' >= usedPages /\ CircuitsStay
    BY <1>2, <1>3, <1>11 DEF EmitCircuit, CircuitsStay
  <2> QED
    BY <1>11, <2>1 DEF EmitCircuit, ObjectsStay, ModelsStay
<1>12. CASE CommandElsewhere
  BY <1>2, <1>12 DEF CommandElsewhere, ObjectsStay, ModelsStay, CircuitsStay
<1> QED
  BY <1>4, <1>5, <1>6, <1>7, <1>8, <1>9, <1>10, <1>11, <1>12
  DEF Next, commandLock, commandUnlock, commandEquation, commandFunction, commandInequality,
      commandCompile, commandCrypto

-----------------------------------------------------------------------------
(* What list shows. *)

LEMMA StaysListed ==
  ASSUME NEW registry, NEW made, NEW later, Listed(registry, made),
         Len(later) = Len(made),
         \A i \in 1 .. Len(made) : later[i].uid = made[i].uid /\ later[i].name = made[i].name
  PROVE  Listed(registry, later)
  BY DEF Listed

LEMMA NewListed ==
  ASSUME NEW registry \in Seq(RegistryItem(ItemName)), NEW T, NEW made \in Seq(T), NEW new \in T,
         MAX_REGISTRY_ITEMS \in Nat, Len(registry) < MAX_REGISTRY_ITEMS,
         Listed(registry, made), new.uid = nextUid(registry)
  PROVE  Listed(add(registry, new.uid, new.name), Append(made, new))
<1> DEFINE item == Item(new.uid, new.name)
<1>1. Len(registry) \in Nat /\ Len(made) = Len(registry)
  BY LenProperties DEF Listed
<1>2. ASSUME NEW i \in 1 .. Len(registry)
      PROVE  registry[i].uid = i
  <2>1. registry[i] = Item(made[i].uid, made[i].name) /\ made[i].uid = i
    BY <1>1 DEF Listed
  <2> QED
    BY <2>1 DEF Item
<1>3. add(registry, new.uid, new.name) = Append(registry, item)
  <2>1. add(registry, Len(registry) + 1, new.name)
          = Append(registry, Item(Len(registry) + 1, new.name))
    BY <1>2, AddListed
  <2> QED
    BY <2>1 DEF nextUid
<1> HIDE DEF item
<1>4. /\ Len(Append(registry, item)) = Len(registry) + 1
      /\ Append(registry, item)[Len(registry) + 1] = item
      /\ \A i \in 1 .. Len(registry) : Append(registry, item)[i] = registry[i]
  <2>1. registry \in Seq(RegistryItem(ItemName) \union {item})
    BY SeqMonotonic
  <2> QED
    BY <2>1, AppendProperties
<1>5. /\ Len(Append(made, new)) = Len(made) + 1
      /\ Append(made, new)[Len(made) + 1] = new
      /\ \A i \in 1 .. Len(made) : Append(made, new)[i] = made[i]
  BY AppendProperties
<1>6. ASSUME NEW i \in 1 .. Len(made) + 1
      PROVE  /\ Append(registry, item)[i] = Item(Append(made, new)[i].uid, Append(made, new)[i].name)
             /\ Append(made, new)[i].uid = i
  <2>1. CASE i \in 1 .. Len(made)
    BY <1>1, <1>4, <1>5, <2>1 DEF Listed
  <2>2. CASE i = Len(made) + 1
    BY <1>1, <1>4, <1>5, <2>2 DEF nextUid, item
  <2> QED
    BY <1>1, <2>1, <2>2
<1> QED
  BY <1>1, <1>3, <1>4, <1>5, <1>6 DEF Listed

(* An object takes a page, so there are no more objects than pages.        *)
PagesForObjects == Len(models) + Len(circuits) <= usedPages

ListInv == PagesForObjects /\ ListTellsTruth

LEMMA InitList ==
  ASSUME ShellAssumption, Init
  PROVE  ListInv
<1>1. Len(models) = 1 /\ Len(circuits) = 1 /\ usedPages = 2
  BY DEF Init
<1>2. PagesForObjects
  BY <1>1 DEF PagesForObjects
<1>3. ASSUME TotalPages <= MAX_REGISTRY_ITEMS
      PROVE  add(<< >>, 1, "default") = << Item(1, "default") >>
  <2>1. Len(<< >>) = 0 /\ ~(0 >= MAX_REGISTRY_ITEMS)
    BY <1>3 DEF ShellAssumption
  <2>2. { i \in 1 .. 0 : (<< >>)[i].uid = 1 } = {}
    OBVIOUS
  <2> QED
    BY <2>1, <2>2 DEF add
<1>4. ListTellsTruth
  BY <1>1, <1>3 DEF Init, ListTellsTruth, Listed
<1> QED
  BY <1>2, <1>4 DEF ListInv

LEMMA ModelsKeepIdentity ==
  ASSUME TypeOK, ModelsStay
  PROVE  /\ Len(models') = Len(models)
         /\ \A m \in 1 .. Len(models) :
              models'[m].uid = models[m].uid /\ models'[m].name = models[m].name
<1>1. CASE UNCHANGED models
  BY <1>1
<1>2. ASSUME NEW n \in Nat, models' = [models EXCEPT ![currentModel].variables = n]
      PROVE  /\ Len(models') = Len(models)
             /\ \A m \in 1 .. Len(models) :
                  models'[m].uid = models[m].uid /\ models'[m].name = models[m].name
  <2> DEFINE now == [models[currentModel] EXCEPT !.variables = n]
  <2>1. models[currentModel] \in Model
    BY Basics
  <2>2. now \in Model /\ now.uid = models[currentModel].uid /\ now.name = models[currentModel].name
    BY <2>1 DEF Model
  <2>3. models' = [models EXCEPT ![currentModel] = now]
    BY <1>2
  <2> HIDE DEF now
  <2>4. models \in Seq(Model) /\ currentModel \in 1 .. Len(models)
    BY DEF TypeOK
  <2> QED
    BY <2>2, <2>3, <2>4, ExceptSeq
<1> QED
  BY <1>1, <1>2 DEF ModelsStay

LEMMA CircuitsKeepIdentity ==
  ASSUME TypeOK, CircuitsStay
  PROVE  /\ Len(circuits') = Len(circuits)
         /\ \A c \in 1 .. Len(circuits) :
              circuits'[c].uid = circuits[c].uid /\ circuits'[c].name = circuits[c].name
<1>0. circuits \in Seq(Circuit) /\ currentCircuit \in 1 .. Len(circuits)
  BY DEF TypeOK
<1>1. ASSUME NEW some, circuits' = [circuits EXCEPT ![currentCircuit].pins = some]
      PROVE  /\ Len(circuits') = Len(circuits)
             /\ \A c \in 1 .. Len(circuits) :
                  circuits'[c].uid = circuits[c].uid /\ circuits'[c].name = circuits[c].name
  <2> DEFINE now == [circuits[currentCircuit] EXCEPT !.pins = some]
  <2>1. circuits[currentCircuit] \in Circuit
    BY Basics
  <2>2. now.uid = circuits[currentCircuit].uid /\ now.name = circuits[currentCircuit].name
    BY <2>1 DEF Circuit
  <2>3. circuits' = [circuits EXCEPT ![currentCircuit] = now]
    BY <1>1
  <2> HIDE DEF now
  <2>4. Len(circuits') = Len(circuits)
    BY <1>0, <2>3, LenProperties
  <2> QED
    BY <1>0, <2>2, <2>3, <2>4, LenProperties
<1>2. ASSUME NEW name \in Names, NEW locked \in BOOLEAN, AppendPin(name, locked)
      PROVE  \E some : circuits' = [circuits EXCEPT ![currentCircuit].pins = some]
  <2>1. circuits' = [circuits EXCEPT ![currentCircuit].pins = Append(Pins, [name |-> name, locked |-> locked])]
    BY <1>2 DEF AppendPin, Pins
  <2> QED
    BY <2>1
<1>3. ASSUME NEW p, NEW locked,
             circuits' = [circuits EXCEPT ![currentCircuit].pins[p].locked = locked]
      PROVE  \E some : circuits' = [circuits EXCEPT ![currentCircuit].pins = some]
  <2>1. circuits' = [circuits EXCEPT ![currentCircuit].pins = [Pins EXCEPT ![p].locked = locked]]
    BY <1>3 DEF Pins
  <2> QED
    BY <2>1
<1> QED
  BY <1>1, <1>2, <1>3 DEF CircuitsStay

LEMMA StepList ==
  ASSUME ShellAssumption, TypeOK, ListInv, [Next]_vars
  PROVE  ListInv'
<1>0. /\ TotalPages \in Nat /\ MAX_REGISTRY_ITEMS \in Nat /\ usedPages \in Nat
      /\ Names \subseteq ItemName
      /\ modelRegistry \in Seq(RegistryItem(ItemName))
      /\ circuitRegistry \in Seq(RegistryItem(ItemName))
      /\ models \in Seq(Model) /\ circuits \in Seq(Circuit)
      /\ Len(models) >= 1 /\ Len(circuits) >= 1
  BY Basics DEF ShellAssumption, TypeOK, ItemName
<1>1. ASSUME NEW name \in Names, MakesModel(name)
      PROVE  ListInv'
  <2> DEFINE new == [uid |-> nextUid(modelRegistry), name |-> name, variables |-> 0]
  <2>1. new \in Model
    BY <1>0, Basics DEF Model, nextUid
  <2>2. /\ models' = Append(models, new)
        /\ modelRegistry' = add(modelRegistry, new.uid, new.name)
        /\ usedPages < TotalPages /\ usedPages' = usedPages + 1
        /\ UNCHANGED <<circuits, circuitRegistry>>
    BY <1>1 DEF MakesModel, RoomForPage
  <2>3. new.uid = nextUid(modelRegistry)
    OBVIOUS
  <2> HIDE DEF new
  <2>4. Len(models') = Len(models) + 1
    BY <1>0, <2>1, <2>2, AppendProperties
  <2>5. PagesForObjects'
    BY <1>0, <2>2, <2>4, Basics DEF PagesForObjects, ListInv
  <2>6. ASSUME TotalPages <= MAX_REGISTRY_ITEMS
        PROVE  Listed(modelRegistry', models') /\ Listed(circuitRegistry', circuits')
    <3>1. Listed(modelRegistry, models) /\ Listed(circuitRegistry, circuits)
      BY <2>6 DEF ListInv, ListTellsTruth
    <3>2. Len(modelRegistry) < MAX_REGISTRY_ITEMS
      <4>1. Len(modelRegistry) = Len(models)
        BY <3>1 DEF Listed
      <4> QED
        BY <1>0, <2>2, <2>6, <4>1, Basics DEF ListInv, PagesForObjects
    <3>3. Listed(modelRegistry', models')
      BY <1>0, <2>1, <2>2, <2>3, <3>1, <3>2, NewListed
    <3> QED
      BY <2>2, <3>1, <3>3
  <2> QED
    BY <2>5, <2>6 DEF ListInv, ListTellsTruth
<1>2. ASSUME NEW name \in Names, MakesCircuit(name)
      PROVE  ListInv'
  <2> DEFINE new == [uid |-> nextUid(circuitRegistry), name |-> name, pins |-> << >>]
  <2>1. new \in Circuit
    BY <1>0, Basics, EmptySeq DEF Circuit, nextUid
  <2>2. /\ circuits' = Append(circuits, new)
        /\ circuitRegistry' = add(circuitRegistry, new.uid, new.name)
        /\ usedPages < TotalPages /\ usedPages' = usedPages + 1
        /\ UNCHANGED <<models, modelRegistry>>
    BY <1>2 DEF MakesCircuit, RoomForPage
  <2>3. new.uid = nextUid(circuitRegistry)
    OBVIOUS
  <2> HIDE DEF new
  <2>4. Len(circuits') = Len(circuits) + 1
    BY <1>0, <2>1, <2>2, AppendProperties
  <2>5. PagesForObjects'
    BY <1>0, <2>2, <2>4, Basics DEF PagesForObjects, ListInv
  <2>6. ASSUME TotalPages <= MAX_REGISTRY_ITEMS
        PROVE  Listed(modelRegistry', models') /\ Listed(circuitRegistry', circuits')
    <3>1. Listed(modelRegistry, models) /\ Listed(circuitRegistry, circuits)
      BY <2>6 DEF ListInv, ListTellsTruth
    <3>2. Len(circuitRegistry) < MAX_REGISTRY_ITEMS
      <4>1. Len(circuitRegistry) = Len(circuits)
        BY <3>1 DEF Listed
      <4> QED
        BY <1>0, <2>2, <2>6, <4>1, Basics DEF ListInv, PagesForObjects
    <3>3. Listed(circuitRegistry', circuits')
      BY <1>0, <2>1, <2>2, <2>3, <3>1, <3>2, NewListed
    <3> QED
      BY <2>2, <3>1, <3>3
  <2> QED
    BY <2>5, <2>6 DEF ListInv, ListTellsTruth
<1>3. CASE ObjectsStay
  <2>1. ModelsStay /\ CircuitsStay /\ usedPages' >= usedPages
        /\ UNCHANGED <<modelRegistry, circuitRegistry>>
    BY <1>3 DEF ObjectsStay, registries
  <2>2. /\ Len(models') = Len(models)
        /\ \A m \in 1 .. Len(models) :
             models'[m].uid = models[m].uid /\ models'[m].name = models[m].name
    BY <2>1, ModelsKeepIdentity
  <2>3. /\ Len(circuits') = Len(circuits)
        /\ \A c \in 1 .. Len(circuits) :
             circuits'[c].uid = circuits[c].uid /\ circuits'[c].name = circuits[c].name
    BY <2>1, CircuitsKeepIdentity
  <2>4. PagesForObjects'
    <3>1. usedPages' \in Nat
      <4>1. TypeOK'
        BY StepType
      <4> QED
        BY <4>1 DEF TypeOK, ShellAssumption
    <3> QED
      BY <1>0, <2>1, <2>2, <2>3, <3>1, Basics DEF ListInv, PagesForObjects
  <2>5. ASSUME TotalPages <= MAX_REGISTRY_ITEMS
        PROVE  Listed(modelRegistry', models') /\ Listed(circuitRegistry', circuits')
    BY <2>1, <2>2, <2>3, <2>5, StaysListed DEF ListInv, ListTellsTruth
  <2> QED
    BY <2>4, <2>5 DEF ListInv, ListTellsTruth
<1> QED
  BY <1>1, <1>2, <1>3, Effect

(* As long as there are no more pages than items in a registry, what is    *)
(* listed is what there is, whatever the commands were (commandModel,      *)
(* commandCircuit, which ignore what add returns).                         *)
THEOREM ListCorrect ==
  ASSUME ShellAssumption
  PROVE  Spec => []ListTellsTruth
<1>1. Init => TypeOK /\ ListInv
  BY InitType, InitList
<1>2. TypeOK /\ ListInv /\ [Next]_vars => TypeOK' /\ ListInv'
  BY StepType, StepList
<1>3. ListInv => ListTellsTruth
  BY DEF ListInv
<1> QED
  BY <1>1, <1>2, <1>3, PTL DEF Spec

-----------------------------------------------------------------------------
(* What a command reaches. *)

(* findPin stops at the first pin of the name.                             *)
LEMMA FirstOfName ==
  ASSUME TypeOK, NEW name, Named(name) # {}
  PROVE  /\ findPin(name) \in 1 .. Len(Pins)
         /\ \A q \in 1 .. findPin(name) - 1 : Pins[q].name # Pins[findPin(name)].name
<1>1. Named(name) \subseteq Nat
  BY Basics DEF Named
<1>2. \E p \in Named(name) : \A q \in Named(name) : p <= q
  BY <1>1, LeastExists
<1>3. findPin(name) \in Named(name) /\ \A q \in Named(name) : findPin(name) <= q
  BY <1>2 DEF findPin
<1> HIDE DEF findPin
<1>4. findPin(name) \in 1 .. Len(Pins) /\ Pins[findPin(name)].name = name
  BY <1>3 DEF Named
<1>5. ASSUME NEW q \in 1 .. findPin(name) - 1
      PROVE  Pins[q].name # name
  <2>1. q \in 1 .. Len(Pins) /\ ~(findPin(name) <= q)
    BY <1>4, Basics
  <2> QED
    BY <1>3, <2>1 DEF Named
<1> QED
  BY <1>4, <1>5

(* The property of a step whose pins are those of the current circuit.     *)
Reaches ==
  \A c \in 1 .. Len(circuits) :
    /\ circuits'[c] # circuits[c] => c = currentCircuit
    /\ \A p \in 1 .. Len(circuits[c].pins) :
         circuits'[c].pins[p] # circuits[c].pins[p] =>
           \A q \in 1 .. p - 1 : circuits[c].pins[q].name # circuits[c].pins[p].name

LEMMA CircuitsReached ==
  ASSUME TypeOK, CircuitsStay
  PROVE  Reaches
<1>0. circuits \in Seq(Circuit) /\ currentCircuit \in 1 .. Len(circuits)
  BY DEF TypeOK
<1>1. CASE UNCHANGED circuits
  BY <1>1 DEF Reaches
<1>2. ASSUME NEW some, circuits' = [circuits EXCEPT ![currentCircuit].pins = some],
             \A p \in 1 .. Len(Pins) :
               some[p] # Pins[p] => \A q \in 1 .. p - 1 : Pins[q].name # Pins[p].name
      PROVE  Reaches
  <2> DEFINE now == [circuits[currentCircuit] EXCEPT !.pins = some]
  <2>1. circuits' = [circuits EXCEPT ![currentCircuit] = now]
    BY <1>2
  <2>2. now.pins = some
    <3>1. circuits[currentCircuit] \in Circuit
      BY Basics
    <3> QED
      BY <3>1 DEF Circuit
  <2> HIDE DEF now
  <2>3. /\ circuits'[currentCircuit] = now
        /\ \A c \in 1 .. Len(circuits) : c # currentCircuit => circuits'[c] = circuits[c]
    BY <1>0, <2>1, LenProperties
  <2>4. ASSUME NEW c \in 1 .. Len(circuits), NEW p \in 1 .. Len(circuits[c].pins),
               circuits'[c].pins[p] # circuits[c].pins[p]
        PROVE  \A q \in 1 .. p - 1 : circuits[c].pins[q].name # circuits[c].pins[p].name
    <3>1. c = currentCircuit
      BY <2>3, <2>4
    <3> QED
      BY <1>2, <2>2, <2>3, <2>4, <3>1 DEF Pins
  <2> QED
    BY <2>3, <2>4 DEF Reaches
<1>3. ASSUME NEW name \in Names, NEW locked \in BOOLEAN, AppendPin(name, locked)
      PROVE  Reaches
  <2> DEFINE new  == [name |-> name, locked |-> locked]
             some == Append(Pins, new)
  <2>1. circuits' = [circuits EXCEPT ![currentCircuit].pins = some]
    BY <1>3 DEF AppendPin, Pins
  <2>2. \A p \in 1 .. Len(Pins) : some[p] = Pins[p]
    <3>1. new \in Pin
      BY DEF Pin
    <3> QED
      BY <3>1, Basics, AppendProperties
  <2> HIDE DEF some
  <2> QED
    BY <1>2, <2>1, <2>2
<1>4. ASSUME NEW name \in Names, NEW locked \in BOOLEAN, Named(name) # {},
             circuits' = [circuits EXCEPT ![currentCircuit].pins[findPin(name)].locked = locked]
      PROVE  Reaches
  <2> DEFINE k    == findPin(name)
             some == [Pins EXCEPT ![k].locked = locked]
  <2>1. circuits' = [circuits EXCEPT ![currentCircuit].pins = some]
    BY <1>4 DEF Pins
  <2>2. /\ k \in 1 .. Len(Pins)
        /\ \A q \in 1 .. k - 1 : Pins[q].name # Pins[k].name
    BY <1>4, FirstOfName
  <2>3. \A p \in 1 .. Len(Pins) : some[p] # Pins[p] => p = k
    BY Basics, LenProperties
  <2> HIDE DEF some, k
  <2> QED
    BY <1>2, <2>1, <2>2, <2>3
<1> QED
  BY <1>1, <1>3, <1>4 DEF CircuitsStay

LEMMA ModelsReached ==
  ASSUME TypeOK, ModelsStay
  PROVE  \A m \in 1 .. Len(models) : models'[m] # models[m] => m = currentModel
<1>1. models \in Seq(Model) /\ DOMAIN models = 1 .. Len(models)
  BY LenProperties DEF TypeOK
<1> QED
  BY <1>1 DEF ModelsStay

(* Appended objects leave those before them alone.                         *)
LEMMA AppendLeaves ==
  ASSUME NEW T, NEW made \in Seq(T), NEW new \in T
  PROVE  \A i \in 1 .. Len(made) : Append(made, new)[i] = made[i]
  BY AppendProperties

LEMMA StepReaches ==
  ASSUME ShellAssumption, TypeOK, [Next]_vars
  PROVE  /\ \A m \in 1 .. Len(models) : models'[m] # models[m] => m = currentModel
         /\ Reaches
<1>0. models \in Seq(Model) /\ circuits \in Seq(Circuit)
  BY DEF TypeOK
<1>1. ASSUME NEW name \in Names, MakesModel(name)
      PROVE  /\ \A m \in 1 .. Len(models) : models'[m] = models[m]
             /\ UNCHANGED circuits
  <2> DEFINE new == [uid |-> nextUid(modelRegistry), name |-> name, variables |-> 0]
  <2>1. new \in Model
    BY Basics DEF Model, nextUid, ItemName
  <2>2. /\ models' = Append(models, new)
        /\ UNCHANGED circuits
    BY <1>1 DEF MakesModel
  <2> HIDE DEF new
  <2> QED
    BY <1>0, <2>1, <2>2, AppendLeaves
<1>2. ASSUME NEW name \in Names, MakesCircuit(name)
      PROVE  /\ \A c \in 1 .. Len(circuits) : circuits'[c] = circuits[c]
             /\ UNCHANGED models
  <2> DEFINE new == [uid |-> nextUid(circuitRegistry), name |-> name, pins |-> << >>]
  <2>1. new \in Circuit
    BY Basics, EmptySeq DEF Circuit, nextUid, ItemName
  <2>2. /\ circuits' = Append(circuits, new)
        /\ UNCHANGED models
    BY <1>2 DEF MakesCircuit
  <2> HIDE DEF new
  <2> QED
    BY <1>0, <2>1, <2>2, AppendLeaves
<1>3. CASE ObjectsStay
  BY <1>3, CircuitsReached, ModelsReached DEF ObjectsStay
<1>4. ASSUME NEW name \in Names, MakesModel(name) \/ MakesCircuit(name)
      PROVE  Reaches /\ \A m \in 1 .. Len(models) : models'[m] = models[m]
  BY <1>1, <1>2, <1>4 DEF Reaches
<1> QED
  BY <1>3, <1>4, Effect

(* Whatever a step does to names, variables and locks, it does to the      *)
(* current model, to the current circuit and to the first pin of a name    *)
(* (findPin, SetPin).                                                      *)
THEOREM OnlyTheCurrentReached ==
  ASSUME ShellAssumption
  PROVE  Spec => OnlyTheCurrent
<1> DEFINE Kept ==
      /\ \A m \in 1 .. Len(models) : models'[m] # models[m] => m = currentModel
      /\ \A c \in 1 .. Len(circuits) :
           /\ circuits'[c] # circuits[c] => c = currentCircuit
           /\ \A p \in 1 .. Len(circuits[c].pins) :
                circuits'[c].pins[p] # circuits[c].pins[p] =>
                  \A q \in 1 .. p - 1 : circuits[c].pins[q].name # circuits[c].pins[p].name
<1>1. TypeOK /\ [Next]_vars => [Kept]_vars
  BY StepReaches DEF Reaches
<1>2. Spec => []TypeOK
  BY TypeCorrect
<1> QED
  BY <1>1, <1>2, PTL DEF Spec, OnlyTheCurrent

=============================================================================
