-------------------------------- MODULE Shell --------------------------------
(***************************************************************************)
(* The command shell: one process, two registries, and the model and the   *)
(* circuit that its commands work on.  A line is a sequence of commands,   *)
(* read from the terminal or, once, from the arguments of the process.     *)
(* The first command that fails ends its line and the shell with it.       *)
(*                                                                         *)
(* Models and circuits share the pages of one allocator with the pins of   *)
(* the circuits and with everything else: a model or a circuit fills a     *)
(* page, PinsPerPage pins of one circuit do.  What the parser, the         *)
(* synthesizer, the solver and the session do for a command is modelled in *)
(* their own modules; here it is whatever they can do to models, circuits  *)
(* and pages.  The signals of pins and the history of lines are left out.  *)
(* Names are what a user may type, MaxCommands bounds the commands of a    *)
(* shell.                                                                  *)
(***************************************************************************)
EXTENDS Registry

CONSTANTS Names, TotalPages, PinsPerPage, MAX_VARIABLES_PER_MODEL, MaxCommands

ASSUME ShellAssumption ==
  /\ Names \subseteq STRING
  /\ TotalPages \in Nat /\ TotalPages >= 2
  /\ PinsPerPage \in Nat \ {0}
  /\ {MAX_REGISTRY_ITEMS, MAX_VARIABLES_PER_MODEL, MaxCommands} \subseteq Nat

VARIABLES
  models,           \* every model allocated so far
  circuits,         \* every circuit
  modelRegistry, circuitRegistry,
  currentModel,     \* what commands work on
  currentCircuit,
  usedPages,        \* pages of the allocator in use
  interactive,      \* whether the shell prompts for lines
  shell,            \* "prompt", "line" (a command has been executed) or "ended"
  exit,             \* what the process returned, Signal if it was killed
  commands          \* history: commands executed so far

objects    == <<models, circuits, usedPages>>
registries == <<modelRegistry, circuitRegistry, currentModel, currentCircuit>>
vars       == <<objects, registries, interactive, shell, exit, commands>>

Signal == 2

ItemName == Names \union {"default"}

Pin     == [name : Names, locked : BOOLEAN]
Model   == [uid : Nat, name : ItemName, variables : Nat]
Circuit == [uid : Nat, name : ItemName, pins : Seq(Pin)]

RoomForPage == usedPages < TotalPages

TypeOK ==
  /\ models \in Seq(Model)
  /\ circuits \in Seq(Circuit)
  /\ {modelRegistry, circuitRegistry} \subseteq Seq(RegistryItem(ItemName))
  /\ Len(modelRegistry) <= MAX_REGISTRY_ITEMS
  /\ Len(circuitRegistry) <= MAX_REGISTRY_ITEMS
  /\ currentModel \in 1 .. Len(models)
  /\ currentCircuit \in 1 .. Len(circuits)
  /\ \A m \in 1 .. Len(models) : models[m].variables <= MAX_VARIABLES_PER_MODEL
  /\ usedPages \in 2 .. TotalPages
  /\ interactive \in BOOLEAN
  /\ shell \in {"prompt", "line", "ended"}
  /\ exit \in {0, 1, Signal}
  /\ commands \in 0 .. MaxCommands

(* The constructor makes the default objects (ensureDefaultObjects, which  *)
(* every later command calls in vain).                                     *)
Init ==
  /\ models = << [uid |-> 1, name |-> "default", variables |-> 0] >>
  /\ circuits = << [uid |-> 1, name |-> "default", pins |-> << >>] >>
  /\ modelRegistry = add(<< >>, 1, "default")
  /\ circuitRegistry = add(<< >>, 1, "default")
  /\ currentModel = 1
  /\ currentCircuit = 1
  /\ usedPages = 2
  /\ interactive \in BOOLEAN
  /\ shell = "prompt"
  /\ exit = 0
  /\ commands = 0

-----------------------------------------------------------------------------
(* How a command ends.                                                     *)

Execute ==
  /\ shell # "ended"
  /\ commands < MaxCommands
  /\ commands' = commands + 1
  /\ UNCHANGED interactive

Succeed ==
  /\ shell' = "line"
  /\ UNCHANGED exit

Fail ==
  /\ shell' = "ended"
  /\ exit' = IF interactive THEN 0 ELSE 1

Killed ==
  /\ shell' = "ended"
  /\ exit' = Signal

Refuse == Fail /\ UNCHANGED <<objects, registries>>

-----------------------------------------------------------------------------
(* The commands. *)

(* Fault: the uid is the number of items.                                  *)
nextUidFault(registry) == Len(registry)

nextUid(registry) == Len(registry) + 1

commandModel(name) ==
  /\ Execute
  /\ \/ /\ RoomForPage
        /\ models' = Append(models, [uid |-> nextUid(modelRegistry), name |-> name, variables |-> 0])
        /\ currentModel' = Len(models) + 1
        /\ modelRegistry' = add(modelRegistry, nextUid(modelRegistry), name)
        /\ usedPages' = usedPages + 1
        /\ Succeed
        /\ UNCHANGED <<circuits, circuitRegistry, currentCircuit>>
     \/ ~RoomForPage /\ Refuse

commandCircuit(name) ==
  /\ Execute
  /\ \/ /\ RoomForPage
        /\ circuits' = Append(circuits, [uid |-> nextUid(circuitRegistry), name |-> name,
                                         pins |-> << >>])
        /\ currentCircuit' = Len(circuits) + 1
        /\ circuitRegistry' = add(circuitRegistry, nextUid(circuitRegistry), name)
        /\ usedPages' = usedPages + 1
        /\ Succeed
        /\ UNCHANGED <<models, modelRegistry, currentModel>>
     \/ ~RoomForPage /\ Refuse

commandVariable ==
  /\ Execute
  /\ \/ /\ models[currentModel].variables < MAX_VARIABLES_PER_MODEL
        /\ models' = [models EXCEPT ![currentModel].variables = @ + 1]
        /\ Succeed
        /\ UNCHANGED <<circuits, usedPages, registries>>
     \/ /\ models[currentModel].variables >= MAX_VARIABLES_PER_MODEL
        /\ Refuse

Pins == circuits[currentCircuit].pins

NewPageNeeded == Len(Pins) % PinsPerPage = 0

(* Fault: every page is taken to have room for one pin more.               *)
RoomForPinFault == TRUE

(* In the last page of this circuit's pins, or in a new one.               *)
RoomForPin == ~NewPageNeeded \/ RoomForPage

AppendPin(name, locked) ==
  /\ RoomForPin
  /\ circuits' = [circuits EXCEPT ![currentCircuit].pins =
                    Append(@, [name |-> name, locked |-> locked])]
  /\ usedPages' = IF NewPageNeeded THEN usedPages + 1 ELSE usedPages

commandPin(name) ==
  /\ Execute
  /\ \/ /\ AppendPin(name, FALSE)
        /\ Succeed
        /\ UNCHANGED <<models, registries>>
     \/ ~RoomForPin /\ Refuse

Named(name) == { p \in 1 .. Len(Pins) : Pins[p].name = name }

(* Fault: the last pin of that name is taken.                              *)
findPinFault(name) == CHOOSE p \in Named(name) : \A q \in Named(name) : q <= p

(* The first pin of that name.                                             *)
findPin(name) == CHOOSE p \in Named(name) : \A q \in Named(name) : p <= q

SetPin(name, locked) ==
  /\ Execute
  /\ \/ /\ Named(name) # {}
        /\ circuits' = [circuits EXCEPT ![currentCircuit].pins[findPin(name)].locked = locked]
        /\ Succeed
        /\ UNCHANGED <<models, usedPages, registries>>
     \/ Named(name) = {} /\ Refuse

commandLock(name)   == SetPin(name, TRUE)
commandUnlock(name) == SetPin(name, FALSE)

(* A bus is larger than a page, the search for a blueprint is not written, *)
(* and load takes the brace that loadSession asks for, so that no file a   *)
(* save wrote loads: these three fail.  So does any command without the    *)
(* arguments it needs, and quit, which is how it ends the shell.           *)
CommandThatFails == Execute /\ Refuse

(* help, list, stats and the like, and a word that is no command.          *)
CommandThatShows ==
  /\ Execute
  /\ Succeed
  /\ UNCHANGED <<objects, registries>>

(* The rest take pages, as far as there are any, and may fail after that.  *)
MayTakePage ==
  \/ RoomForPage /\ usedPages' = usedPages + 1
  \/ UNCHANGED usedPages

(* Variables that a text names first are added as it is read.              *)
Parse ==
  /\ Execute
  /\ MayTakePage
  /\ \E variables \in models[currentModel].variables .. MAX_VARIABLES_PER_MODEL :
       models' = [models EXCEPT ![currentModel].variables = variables]
  /\ UNCHANGED <<circuits, registries>>

commandEquation == Parse /\ (Succeed \/ Fail)
commandFunction == Parse /\ (Succeed \/ Fail)

(* Of three arguments it reads a fourth: whatever lies behind the array    *)
(* passes for a text, or for none, or ends the process.                    *)
commandInequality == Parse /\ (Succeed \/ Fail \/ Killed)

(* Compilations and ciphers add pins and gates, and lock the pins that     *)
(* show a constant; a name may be one a user knows.  Several pins in a row *)
(* are several of these.  A cipher has run out of pins before it           *)
(* dereferences the bus it was refused.                                    *)
EmitCircuit ==
  /\ Execute
  /\ \/ MayTakePage /\ UNCHANGED circuits
     \/ \E name \in Names, locked \in BOOLEAN : AppendPin(name, locked)
  /\ Succeed \/ Fail
  /\ UNCHANGED <<models, registries>>

commandCompile == EmitCircuit
commandCrypto  == EmitCircuit

(* solve, save, const and prng.                                            *)
CommandElsewhere ==
  /\ Execute
  /\ MayTakePage
  /\ Succeed \/ Fail
  /\ UNCHANGED <<models, circuits, registries>>

-----------------------------------------------------------------------------
(* The end of a line: an interactive shell asks for another one.           *)
EndLine ==
  /\ shell = "line"
  /\ shell' = IF interactive THEN "prompt" ELSE "ended"
  /\ UNCHANGED <<objects, registries, interactive, exit, commands>>

(* The end of the input.                                                   *)
EndInput ==
  /\ shell = "prompt"
  /\ shell' = "ended"
  /\ UNCHANGED <<objects, registries, interactive, exit, commands>>

Next ==
  \/ \E name \in Names :
       \/ commandModel(name) \/ commandCircuit(name)
       \/ commandPin(name) \/ commandLock(name) \/ commandUnlock(name)
  \/ commandVariable \/ commandEquation \/ commandFunction \/ commandInequality
  \/ commandCompile \/ commandCrypto
  \/ CommandThatFails \/ CommandThatShows \/ CommandElsewhere
  \/ EndLine \/ EndInput

Spec == Init /\ [][Next]_vars

-----------------------------------------------------------------------------
(* What list shows is what there is: item i of a registry is object i,     *)
(* under its uid and name, and so the uids are unique.  The commands       *)
(* ignore what add returns and take the number of items for a uid, which   *)
(* is safe as long as pages run out before the registry does               *)
(* (commandModel, commandCircuit; Registry.cpp, add).                      *)
Listed(registry, made) ==
  /\ Len(registry) = Len(made)
  /\ \A i \in 1 .. Len(made) : registry[i] = Item(made[i].uid, made[i].name) /\ made[i].uid = i

ListTellsTruth ==
  TotalPages <= MAX_REGISTRY_ITEMS =>
    /\ Listed(modelRegistry, models)
    /\ Listed(circuitRegistry, circuits)

(* Names, variables and locks change in the current objects only, and of   *)
(* pins with one name only in the first: a pin that a compilation has made *)
(* behind one of its name is out of lock's reach (findPin, SetPin).  Of    *)
(* the signals, which solve sets on every pin, this says nothing.          *)
OnlyTheCurrent ==
  [][ /\ \A m \in 1 .. Len(models) : models'[m] # models[m] => m = currentModel
      /\ \A c \in 1 .. Len(circuits) :
           /\ circuits'[c] # circuits[c] => c = currentCircuit
           /\ \A p \in 1 .. Len(circuits[c].pins) :
                circuits'[c].pins[p] # circuits[c].pins[p] =>
                  \A q \in 1 .. p - 1 : circuits[c].pins[q].name # circuits[c].pins[p].name ]_vars

=============================================================================
