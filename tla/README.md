# A TLA+ verification project for semon

semon is a C++11 circuit simulator. Mathematical models are parsed and
synthesised into circuits of three-pin gates; a solver propagates signal values
through them in whichever direction the gates allow. Everything persistent
lives in a paged allocator of its own. The program is one thread; what makes it
hard is not scheduling but long sequences of legal calls: values derived from
inputs that have since been removed, raw pointers into pages that are
compacted, hooks that stop a computation half way, counters that are not reset,
capacities that are reached.

Paths below are relative to the repository.

## 1. Inventory

| Component | State | Operations | Interacts with | What makes it correct |
|---|---|---|---|---|
| Gate algebra, `src/circuit/Virtual3PinGate.cpp` | none | `combinationAllowed`, `truthByteFor`, `invertPinA/B/C` | solver, synthesizer | the byte read as a relation; inversion is exact |
| Circuit topology, `src/circuit/CircuitTopology.cpp` | lists of pins, gates, buses, instances; uids | `addPin`, `addGate`, `lockPin`, `unlockPin`, `connect`, `disconnect`, `addBus`, `addSubcircuitInstance` | allocator (storage), solver, synthesizer, session | every gate refers to pins of the circuit; bus and pin agree on who is connected |
| Solver, `src/circuit/Solver.cpp` | none of its own; writes pins | `propagate` | client hooks (callbacks), diagnostics | derivations are forced, contradictions real, result independent of the gate order, termination |
| Diagnostics, `src/diagnostics/Diagnostics.cpp` | error flag, last record, loop counter (globals) | `set`, `clear`, `enterLoop` | everyone who fails | a failure is recorded with its reason; the watchdog stops what runs away |
| Allocator, `src/core/PagedAllocator.cpp` | chains, pages with free masks, counters | `initialize`, `shutdown`, `allocate`, `release`, `compact`, `compactAll` | every component holds raw pointers into it | no two live objects share memory; counts agree with masks; objects of one kind per page |
| Registries, `src/core/Registry.cpp` | two arrays of (uid, name, active) | `add`, `remove`, `find`, `clear` | shell, session | one item per uid; what is listed is what there is |
| Shell, `src/core/Shell.cpp` | current model and circuit, two registries, a history of lines | commands, several to a line | everything | the current objects are live and registered; a command reaches nothing else |
| Math model, `src/math/MathModel.cpp` | arrays of variables, constants, equations, ... | `add...`, `parseAndAddEquation`, `make...Node` | parser, synthesizer | uids identify; capacity respected; an equation means its text |
| Parser, `src/math/ExpressionParser.cpp` | cursor in the text | `parse` | model (nodes) | precedence and associativity; no partial tree on error |
| Synthesizer, `src/math/Synthesizer.cpp` | none | `compileModelToCircuit` | model, circuit | the circuit has the solutions of the model |
| ROBDD, `src/math/ROBDD.cpp` | nodes with reference counts, unique table, computed cache | `mkNode`, `apply`, `restrict`, quantifiers, `garbageCollect` | allocator | canonicity, correct functions, no use of freed nodes |
| ESOP, `src/math/ESOP.cpp` | lists of product terms | `addTerm`, xor, and, not | allocator | the lists denote the right functions |
| Modular arithmetic, `src/math/ModularArithmetic.cpp` | none | builders of adders, comparators, ... | circuit | the emitted circuit computes the function |
| Crypto builders, `src/math/CryptoBuiltins.cpp` | none | MD5, SHA, AES, ... | circuit | as above, at sizes beyond a model checker |
| PRNG, `src/core/DeterministicPrng.cpp` | 256-bit state, seed, counter | `seed`, `next...` | session | equal seeds give equal sequences |
| JSON streaming, `src/persistence/JsonStreaming.cpp` | buffer, position, sticky error | `read...`, `write...` | session | what is written is read back; errors end the reading |
| Session, `src/persistence/SessionState.cpp` | none | `saveSession`, `loadSession` | everything | load after save restores the session |

Hard behaviours, in the order in which they are worth a model: the solver's
interplay of pass order, hooks, locks and conflicts; the allocator's slot reuse,
stale pointers and compaction; the synthesizer's partial results and meaning;
the decision diagrams' tables and collection; save and load; builders that never
look at what their calls return; the shell's objects and registries as pages run
out.
`PROJECT.json` lists each hazard at its line.

## 2. The modules

| Module | Models | Composes |
|---|---|---|
| `Virtual3PinGate` | the named truth bytes, which combinations a byte allows, the byte of an operation | – |
| `TruthByteAlgebra` | `invertPinA/B/C` as bit permutations of a byte | `Virtual3PinGate` |
| `CircuitTopology` | pins, gates, locks, soft deletion; what a circuit means (`Solutions`) | `Virtual3PinGate` |
| `Solver` | `Solver::propagate` with both hooks, between edits of the circuit | `CircuitTopology`, `SystemSettings` |
| `Diagnostics` | `Diagnostics::set`, `clear`, `enterLoop` | `SystemSettings` |
| `SolverDiagnostics` | solver and diagnostics together, and fairness | `Solver`, `Diagnostics` |
| `ObjectHeap` | abstract: what a client may expect of an allocator | – |
| `PageLayout` | one page: slots, free mask, contents, what packing it means | – |
| `PagedAllocator` | the allocator and its clients' raw pointers; implements `ObjectHeap` | `PageLayout`, `ObjectHeap` |
| `PageCompaction` | the loop of `compact` slot by slot; shown to be `Packed` of `PageLayout` | `PageLayout` |
| `MathModel` | variables, equations, expression nodes, the parser's effect on them | – |
| `Synthesizer` | `compileModelToCircuit` on a circuit | `MathModel`, `CircuitTopology` |
| `JsonStreaming` | the writer's text and the reader's position, end-of-file and error flags | – |
| `SessionState` | `saveSession`, `loadSession` and the shell's two commands over several processes | `JsonStreaming` |
| `ROBDD` | the manager of decision diagrams, recursive call by recursive call | – |
| `ModularArithmetic` | the nine builders, call by call, and a solution of what they build | `CircuitTopology` |
| `Registry` | `add` of the two registries | – |
| `Shell` | the commands over models, circuits, registries and pages | `Registry` |
| `Solver_proofs` | the theorems on the solver, alone and with its diagnostics | `SolverDiagnostics`, `Counting` |
| `PagedAllocator_proofs` | the theorems on the allocator and on the loop of its compaction | `PagedAllocator`, `PageCompaction`, `Counting` |
| `Synthesizer_proofs` | the theorems on the synthesizer and on the inversion of truth bytes | `Synthesizer`, `TruthByteAlgebra`, `Counting` |
| `Shell_proofs`, `SessionState_proofs`, `ROBDD_proofs`, `ModularArithmetic_proofs` | the theorems | the module they name, most of them `Counting` |
| `Counting` | lemmas on least numbers, sums over finite sets and ranks | – |
| `MCSolver`, `MCSolverDiagnostics`, `MCSessionState`, `MCROBDD` | values of constants for TLC | the module they name |
| `MCPagedAllocator` | the same, and the loop of compaction beside the allocator | `PagedAllocator`, `PageCompaction` |
| `MCSynthesizer` | inversions of bytes beside the compiler of gates | `Synthesizer`, `TruthByteAlgebra` |

An operator named `...Fault` is a plausible bug in the operator it stands
before, kept with it: put in its place, it breaks the property it was written
for. No specification uses one.

### Circuit and solver

`pins` and `gates` are the circuit's two linked lists; a pin's uid is its
position, as `next_pin_uid_` only counts up and nothing removes a pin. A gate is
three pin uids (`NullPin` for a null pointer), its byte and its released flag.
`Solutions(given)` is what the circuit says, with no solver in it: the
assignments every gate admits that agree with the pins known in `given`.

`Solver` has one action per decision of the loop body: which gate is skipped,
examined or ends the call (`SkipGate`, `ExamineGate`, `UniversalContradiction`),
and for each of its three positions whether the pin is skipped, assigned, vetoed
by the diagnostic hook or put in conflict (`SkipTarget`, `AssignTarget`,
`VetoAssignment`, `MarkConflict`). `known_pins` and `possible` are the locals the
code computes once per gate and uses while it changes pins. `VetoPass`,
`LocalContradiction`, `Stabilised` and `NextPass` are the end of a pass, the
propagation hook first. A hook that says yes is no step; one that says no may do
so at every point where it is asked. Between calls the client may add pins and
gates, lock, unlock and release (`Edit`). `start` and `outcome` are history: the
circuit the call was given and how it ended.

`SolverDiagnostics` adds the process-wide flag, record and loop counter, each
step of the solver with the diagnostic it sets, and a client that may clear. The
counter runs on past its limit as it does in the code; `MaxCycleCount` bounds when a
call may begin, not what the counter reaches.

### Allocator

`pages` are the pages mapped so far, `chains` the chains with their statistics,
`held` the pointers clients hold (page and slot). `AllocateFromPage`,
`AllocateFromNewPage` and `AllocateNoPage` are the three ways through
`allocate`; `release` acts on whatever lives at the address held, also when a
compaction has moved something else there, and `ReleaseRefused` is a slot found
free. `compact` and `compactAll` rewrite pages and masks and leave `held` alone,
as the code does. A client that initialises again or shuts down drops its
pointers; a client drops a pointer it has released. A slot's content is the
object last written there, over all the slots its size covers, so that an object
written over another is visible as such. Classes map to types by `TypeOf`, several to
one type as in the program, where models, circuits and their tables all are METADATA.

Three variables are history and record what has gone wrong for the holders of
pointers: `moved` the objects a compaction has taken from under their pointer,
`misled` the pages on which somebody has released by such a pointer, `overrun` that an
object has been put in a slot too small for it.

`ObjectHeap` is a set of (object, page, slot). `ImplementsHeap` maps the
allocator to it by reading the contents of the occupied slots. An overrun is the end
of that heap until `initialize`: from there on no set of objects describes the bytes.

### Models and their compilation

`nodes` is the arena of expression nodes, `stack` the trees the parser's calls
hold: recursive descent finishes subexpressions in postfix order, so a text is a
sequence of reductions (`parseNumber`, `parseBinary`, ...) ended by
`parseAndAddEquation`, or by an error at any point. What stays of a text that
fails, its new variables and its nodes, is what the code leaves.

`Synthesizer` turns the recursion of `emitExpression` into `frames`, one action
per call, return and branch. `phase` and `variable` are the loop being run.
`output` is the out-parameter, which the code leaves null for the result of a NOT
or of a binary operation. `RoomForPin` and `RoomForGate` are false once the
allocator would answer null. Calls through which nothing returns are unwound by
`Return("failed")`, which leaves pins and gates alone.

### Saving and loading

A file is a sequence of symbols: marks, words, numbers and the insides of
strings. `JsonReader` is a record of its position and of the two flags that
decide how loops end: `eof`, raised by reading past the end, and `ok`, lowered
for good by the first error, after which `peek` returns nothing and `eof` can no
longer be raised. Each of its operations takes a reader to the reader it
leaves. `Symbol` is the set of all symbols, in the run every string; the numbers
that have one go up to `MaxNumber`.

`workspace` is what the shell's globals hold: the two registries' names, the
variables of the current model, the pins and gates of the current circuit, the
seed. `saveSession` writes `sessionText` as far as the disk has `Rooms` for it.
`loadSession` begins a load, and from there on each action is one turn of one of
the nested loops: `pc` is the loop, `fields` the locals of the record being
read. `RefuseMember`, `OpenMember`, `SkipMember` and `EndMembers` are the loops over
the members of the session, the model and the circuit, which stop at errors;
`NextElement` and `EndElements` those over arrays; `ReadNumber`, `ReadName`,
`ReadBoolean` and `SkipField` those over the fields of a record, which do not, and
`EndVariable`, `EndPin`, `EndGate`, `EndPrng` what is done with what was read.
`commandLoad` is the shell's command, whose reader has already taken the opening
brace. `Restart` may come at any moment and leaves the file. `saved`, `before`,
`result` and `edits` are history. `src/persistence/SessionState.cpp` does not compile
as it stands (32-bit targets for `readUnsigned`, a private `uid_`); the model
reads it as it is meant. A constant or an equation is written without its
contents and skipped by a load, as are the figures of the allocator and of the
diagnostics, of which the text keeps one each.

### Decision diagrams

`memory` are the node slots, of which `allocated` are in use; a released slot keeps
its contents, as the allocator leaves them. `initialize` asks the allocator for one
entry per table and uses 4096: the process ends, or it happens to own what lies
behind them. Both entries come from one page and have one size, so in the second
case the tables overlap, shifted by one entry; `table` is that memory, and
`UniqueAt` and `ComputedAt` are where either table finds an entry. A recursive
call is a stack of `frames`, each at its `stage`; `ApplyTerminals`, `ApplyLookup`,
`RestrictEnter` and `AbstractEnter` are the ways through the first statements, `LowDone`
and `HighDone` what follows a return. A bucket that holds another key is a `Crash`,
since the walk follows a null pointer, and more nested calls than `StackRoom` an
overflow. `mkNode` takes any variable and any two nodes the client holds, in order or
not. `garbageCollect` sweeps entry by entry (`CollectEntry`). `held` and `made` are
history: the nodes the client was given and the kinds of its calls, with `"clash"` for
a node whose variable has the number of an operation.

### Arithmetic circuits

A builder looks at nothing its calls return, so what it does is a sequence of calls that
depends on the width alone: `Calls`, and `Script` for the builder under way. An action
executes the one `at` is at: `AddPin`, `AddConstant`, `AddFunction` (a gate with a pin
of its own for its result), `DrivePin` (a gate over three pins there already) and
`ReadGarbage`, the entries of `shifted` in `buildModMul` that nothing sets: null, a pin
there is, or `WildPin`, a pointer to anything else. `pin` is what the builder's
variables point to. Where the circuit has no room, a call returns null or adds no gate
and the builder goes on. Beside the circuit grows `signal`, one solution of it, chosen
pin by pin; over all behaviours it is every solution, and the solver shows of a result
what all agree on. `functional` and `refused` are history: whether every OR gate so far
shows its disjunction in this solution (it does not have to), and whether room ran out.
A gate that reads a wild pin may show anything its byte allows for some value of it, so
that `ResultsKnown` holds whatever lies there. A left-over pointer to a slot that is
made a pin only later is one of the wild ones: such a gate would constrain a pin added
after it, which `BuildsEnd` does not cover. What the solver does when it follows a wild
pointer is not modelled.

### The shell

`models` and `circuits` are all objects allocated so far, in the order they were made;
`modelRegistry` and `circuitRegistry` what the shell lists; `currentModel` and
`currentCircuit` what its commands work on. `shell` is `"prompt"` where a line is
awaited, `"line"` after a command that succeeded, `"ended"` for good; a shell that is
not `interactive` executes the arguments of the process as its one line. `usedPages`
counts the pages of the native allocator: a model and a circuit share a chain with its
table of pages and the stride of the first object in it, so that each takes a page, as
do `PinsPerPage` pins of one circuit. What the parser, the synthesizer, the ciphers, the
solver and the session do for a command is any of what they can do to these objects:
`Parse`, `EmitCircuit` and `CommandElsewhere` take pages while there are any, add
variables or pins, locked (constants) or not, and end either way. A compilation that
adds several pins is several of these steps. `ineq` with three arguments reads a fourth
behind the array and may end the process (`Killed`); the ciphers run out of pages before
they come to dereference the bus they were refused, and so fail like the others.

## 3. What is checked

Passing runs:

| Run | Instance | Shows |
|---|---|---|
| `solver_core` | up to 3 pins, 2 gates of 3 wirings and 4 bytes, limit 2 | `DerivationsSound`, `ContradictionSound`, `StartKept`, `FixpointReached`, `OrderIndependent` |
| `solver_diagnostics` | the same size on links listed against the signal, calls until 3 passes are counted | `AlarmTells`, `OutcomeExplained`, `PassesBounded`, `NeverExhausted`, `Terminates` |
| `allocator_core` | 2 pages, 2 chains, 3 objects, 3 classes of 2 types, 2 parents, 3 releases; every page of up to 3 slots, 4 contents | `CountersAgree`, `PagesOwned`, `HandlesIntact`, `ImplementsHeap`; `LoopPacks`, `NoLiveOverwrite` |
| `synthesis` | 1 variable of up to 2 bits, 2 equations, 5 nodes, 6 pins, 3 gates, AND and `!=`; all 256 bytes, any sequence of inversions | `TreesDisjoint`, `NoOperandLost`, `FeedForward`, `Conservative`; `InversionIsExact` |
| `robdd` | 2 variables, 8 nodes, 16 entries, 4 calls, XOR, 16 nested calls | `ApplyComputes`, `QuantifiersCompute`, `RecursionShrinks`, `NothingDangles` |
| `circuits` | all 9 builders at widths 1 and 2, circuits with and without room | `ResultsKnown`, `BuildsEnd` |
| `shell` | 2 names, 5 pages, 2 pins to the page, 5 items, 1 variable, 7 commands | `ListTellsTruth`, `OnlyTheCurrent` |
| `session` | 1 variable, 2 pins, 2 gates, 2 models and circuits per process, 5 edits (2 once something has been saved), 3 sizes of disk | `ResultTellsFile`, `Restored`, `LoadsAppend`, `LoadsReturn` |

Each also checks the type invariant of its module, but for `solver_diagnostics`, whose
part of the solver `solver_core` checks. Two runs have a pure algorithm beside a
component that takes it for granted: `allocator_core` the loop of a compaction, which
the allocator makes in one step, and `synthesis` the inversions of a truth byte. The
two share no state; one moves only where the other is where it began, so that the
states of the run are those of both and not their product.

Why the instances are large enough:

- Three pins and two gates are the least with which a gate already passed gains
  from a later one, two gates disagree about a pin, and a gate is wired twice to
  one pin. The wirings contain a null third pin and a doubled pin; the bytes
  contain a function, a one-sided relation and the two constants the code treats
  apart. The circuit is edited and propagated without a bound on the number of
  calls. The limit 2 is reached in `solver_diagnostics`, where a value needs a
  pass per link, and `NeverExhausted` then says why. Calls begin until three passes
  are counted (`MaxCycleCount`), so that there are calls begun below the watchdog's
  limit that pass it, and calls begun beyond it.
- Two pages and two chains let chains compete for the last page and leave a chain
  without one; pages of three slots, of two and of one fill up, are reused out of order
  and are compacted around holes. Circuits and models share a type and differ in size,
  pins have a type of their own: a model on a page of circuits is an overrun, a circuit
  on a page of models is none. Three objects with three releases suffice for a stale
  pointer to release another's object. `released_object_count` bounds the releases since
  `initialize`; initialising again starts over.
- Three slots have a hole before, between and after live ones, two of them together
  included; the theorems of section 5 remove the bound.
- Five nodes hold two equations, or one over a nested operation, and are
  exhausted half way through texts; six pins and three gates let one compilation
  succeed and run out in a second. AND stands for the operations that are not
  relations, `!=` for the relations: beyond that distinction the synthesizer
  asks only for the byte, and every byte it can get leaves, for each pair of
  inputs, some value of the result (proved as lemma `ResultExists`).
- Numbers up to 255 (`MaxNumber`) are all a session of that size holds, a truth byte
  being the largest. Two pins and two gates let a load run out of room, meet pins of
  equal uid and write a released gate before one in use. Five edits (`MaxEdits`) reach
  two pins with a gate, locked or not, and three elements with a released gate; once a
  file has been written, edits go on up to two in all (`MaxLateEdits`), which fill the
  workspace that is loaded into. The smaller `Rooms` cut the text after 90 symbols (in
  the record of a variable, or between two arrays) and after 174 (one short of the whole
  of an empty session, otherwise in the record of a pin, of a gate or of the generator).
  Names other than the default are braces, the marks that `skipValue` counts.
- Two variables and four calls combine both variables in either order, the one that
  `computeApply` opens wrongly included, go on from the result and collect in between;
  eight nodes run out. The hash functions are the code's, with slot numbers for
  addresses; 16 entries leave collisions and overwritten entries among the reachable
  keys. Of the operations `apply` is given XOR, which no terminal operand decides; the
  abstractions call it for AND and OR. `StackRoom` 16 is two calls per node, from where
  on `RecursionShrinks` says something (`StackRoom >= 2 * MaxNodes`). What four calls
  cannot reach, a sweep that takes a node the client still holds, is why the properties
  of diagrams are stated for a `SafeClient` (section 5).
- Width 2 has a carry between bits, a shifted copy and pointers nothing has set;
  width 1 is where loops run once. A circuit that holds 50 of its 80 pins, or 3 of
  its 52 gates, runs out in the larger builders, pins and gates apart or together.
- Seven commands make two objects beside the default ones, give pins of equal name
  to each and run out of pages on the way; five items are as many as there are pages,
  the least for which `ListTellsTruth` says something. In the program it is 64 pages
  against 256 items.

Capacities of pins, gates and nodes are separate constants. In the program they
share the pages of one allocator, so which of them runs out first depends on the
others; every combination of running out is covered by the guards, which one
compilation meets is not predicted.

The refuted runs, one property each, are in section 6.

### Fairness

`Terminates` is checked under weak fairness of `Call`, the steps of a call under way.
`propagate` is a straight loop in one thread; nothing else can run between two of its
statements, so a call that has a next step takes it. Hooks return. Nothing is assumed of
the client: it may never call, edit or clear. `LoadsReturn` is checked under weak
fairness of `LoadStep`, for the same reason: a load is one call in one thread and a loop
with a turn to take takes it. A turn that changes nothing is no step, so that a loop
that spins shows as a load that stays where it is. `BuildsEnd` is checked under weak
fairness of `Emit`: a builder is straight code. What it could be stuck at is a gate that
no value of its result satisfies, and there is none. All other properties are safety and
need no fairness.

## 4. The properties that matter most

- **A derivation is forced** (`DerivationsSound`), at every moment of a call and
  however it ends: the locals computed on arrival at a gate are used while the
  call itself changes pins under them.
- **A reported contradiction is real** (`ContradictionSound`); the converse is
  false, see section 6.
- **Success is a fixpoint** (`FixpointReached`) and **does not depend on the
  order of the gate list** (`OrderIndependent`, compared with `Closure`, which
  applies all gates at once to the pins of the round before).
- **The damage stays where it was done** (`HandlesIntact`): a pointer that no
  compaction has left behind leads to its own object, and an object left behind is
  alive on its page, except on pages where somebody has released by a pointer left
  behind; classes of one type and several sizes included, until one overruns its slot.
  Up to then the memory as a whole **behaves as a heap** (`ImplementsHeap`), releases by
  stale pointers included.
- **Counts agree with masks** (`CountersAgree`) through releases by stale
  pointers and compactions: all of them but `free_objects`, which does not (section 6).
- **The record says LIMIT exactly when the passes counted are past the limit**
  (`AlarmTells`), after any call that did not give up by itself, over any number of
  calls and clears.
- **Compiling is conservative** (`Conservative`): whatever a compilation adds, and
  wherever it fails, each solution of the circuit as it was extends to one of the
  circuit as it is.
- **No success over a lost operand** (`NoOperandLost`): the result pin of an operation
  is handed to nobody, and where a definition by structure says that an equation
  misses one, no compilation reports success. That such equations are refused at all
  is a disagreement of its own (`NestedExpressionsCompile`, section 6).
- **A load tells the truth about the file** (`ResultTellsFile`): a save that
  stopped anywhere is never loaded with success, although no inner loop minds the
  end of the file.
- **What was saved is restored** (`Restored`), uids rewired, commas of skipped
  elements notwithstanding; **a load appends** (`LoadsAppend`), however it ends, and
  replaces nothing but the seed, which it does even if it is refused later.
- **A load ends** if every pin in the file is locked to 1 (`LoadsReturn`); otherwise
  it does not, see section 6.
- **`apply` computes its operation** (`ApplyComputes`), through shared nodes, cache
  hits, table entries overwritten behind the recursion's back and diagrams out of
  order, and **restriction and quantification compute theirs** on diagrams in order
  (`QuantifiersCompute`), both where they return: a call may end the process instead
  (section 6). A recursion that does not end has met **one known pair of
  operands** (`RecursionShrinks`), and **no collection takes a node in use**
  (`NothingDangles`). All four are stated for clients that collect nothing once they
  restrict or abstract, and whose variables do not have the number of an operation
  (`SafeClient`); for the others they are false.
- **What the builders' circuits show** (`ResultsKnown`): an adder never more than the
  sum, and the sum exactly where its OR gates show their disjunctions; then a product
  is the product cut to its width, whatever the entries nothing has set lead to, and a
  high selector hands its first alternative through. What the header promises beyond
  that is refuted (section 6).
- **No builder ends in a contradiction** (`BuildsEnd`), whatever its operands and
  wherever the circuit runs out of room.
- **What `list` shows is what there is** (`ListTellsTruth`), although the shell ignores
  refusals of the registry, because pages run out first; **names, variables and locks
  change in the current objects only, and of pins with one name only in the first**
  (`OnlyTheCurrent`), though compilations add pins under names a user knows.

## 5. What is proved

All theorems hold for every value of the constants that satisfies the `ASSUME`s
of the modules, and are checked by TLAPS to the last leaf.

| Theorem | Module | Inductive invariant |
|---|---|---|
| `TypeCorrect` | `Solver_proofs` | `TypeOK` itself |
| `DerivationsAreSound`, `ContradictionsAreReal`, `StartIsKept` | `Solver_proofs` | `SoundInv` |
| `FixpointIsReached` | `Solver_proofs` | `FixpointInv` |
| `PassesAreBounded`, `LimitIsNeverReached` | `Solver_proofs` | `PassInv` |
| `ResultIsOrderIndependent` | `Solver_proofs` | `OrderInv`, with `SoundInv` and `FixpointInv` |
| `AlarmIsTrue` | `Solver_proofs` | `AlarmInv`, with the types of both (`TogetherTypeCorrect`) |
| `FailuresAreExplained` | `Solver_proofs` | `ExplainedInv` |
| `TypeCorrect`, `CountersCorrect`, `OwnershipCorrect`, `HandlesCorrect` | `PagedAllocator_proofs` | `IInv` |
| `HeapImplemented` | `PagedAllocator_proofs` | `IInv`, with `Taken`, `GivenBack`, `Compacted` |
| `CompactionPacks`, `MovesAreSafe` | `PagedAllocator_proofs` | `LoopInv` |
| `TypeCorrect` | `Synthesizer_proofs` | `TypeOK` itself |
| `SignalsFlowForward`, `CompilingConserves` | `Synthesizer_proofs` | `TypeOK`, with `CircuitSteps` |
| `NoOperandIsLost` | `Synthesizer_proofs` | `ShapeInv` |
| `ExpressionsAreTrees` | `Synthesizer_proofs` | `TreeInv` |
| `InversionsAreExact` | `Synthesizer_proofs` | `InversionInv` |
| `TypeCorrect` | `Shell_proofs` | `TypeOK` itself |
| `ListCorrect` | `Shell_proofs` | `ListInv` |
| `OnlyTheCurrentReached` | `Shell_proofs` | `TypeOK`, with `Effect` |
| `LoadingAppends`, `GatesStayWired` | `SessionState_proofs` | `Inv` |
| `TypeCorrect` | `SessionState_proofs` | `TypeInv`, with `Inv` |
| `TypeCorrect` | `ROBDD_proofs` | `TypeInv` |
| `AppliesCorrectly`, `QuantifiesCorrectly`, `NothingInUseReleased` | `ROBDD_proofs` | `SafeInv` (`Semantics` and `Counted`), with `TypeInv` |
| `RecursionIsBounded` | `ROBDD_proofs` | `DepthInv`, with `SafeInv` and `TypeInv` |
| `TypeCorrect` | `ModularArithmetic_proofs` | `TypeInv` |
| `ResultsHold` | `ModularArithmetic_proofs` | `ResultsInv`, with `TypeInv` |

- `SoundInv` adds to the three properties what the cursor knows
  (`CursorSound`): at the gate under examination, a pin known at the start is
  among `known_pins`, and every solution takes at each other position a value
  still `possible`. Without it the assignment of the second or third position
  has nothing to rest on, since the pins have changed since the sets were
  computed. `FlagSound` carries a conflict from the position where it was marked
  to the end of the pass.
- `FixpointInv` says that as long as a pass has changed nothing, every gate behind
  the cursor is settled and the locals of the current gate are still those of
  its pins. A change anywhere voids it, which is exactly what the flag is for.
- `PassInv` counts: a completed pass has derived a pin. At the positions of one
  gate the count must exclude `Fresh`, the gate's own pins not known on arrival:
  on a doubled pin an assignment can be followed by a conflict that takes the
  derivation back.
- `ResultIsOrderIndependent` compares what a call derives, gate by gate and pin by pin,
  with `Closure`, in two directions. Nothing derived is beyond the closure: call a
  knowledge `Closed` if it covers the start, every gate applied to it adds nothing, and
  it agrees with all solutions. `OrderInv` says that at every moment of a call the pins
  known are known to every closed knowledge, which, quantifying over all of them, is
  preserved by an assignment without a word about rounds. The closure is closed, since
  a round that is not the last adds a pin and there are as many rounds as pins
  (`RoundsGrow`). Nothing in the closure is missing: at a fixpoint one more application
  of all gates reaches only pins that are known (`FixpointCovers`), so no round is the
  first to go beyond. `OrderInv` also needs that a locked pin is always known
  (`LockedKnown`), or a gate could be settled because a pin it forces is locked.
  Both inductions over rounds are by a least counterexample (`AllReached`).
- `ExplainedInv` adds that a call under way has no outcome yet, so that what the watchdog
  records during a call cannot belie one.
- `AlarmInv` ties the record to the counter. In a pass, and after a call that ended in
  one, LIMIT stands exactly beyond the limit. Before the first pass of a call a record
  LIMIT may be left of an earlier call that ran into the limit itself; then the
  counter is at the limit at least, and the pass about to begin takes it past.
- For the session, `Inv` says that what was in the workspace when a load began is a
  prefix of what is in it, and that every gate is wired to pins there are. Nothing is
  assumed of what the file yields: names, numbers and truth bytes may be anything.
- `TypeInv` of the session needs `Inv`: a gate is written by the uids of its pins, so
  that what is written is a text only if the gate is wired to pins there are
  (`GateWrites`, `SessionWrites`). A list of texts is joined by a fold of the community
  modules, which is opened once (`FoldJoins`), and its length counted up (`JoinIsText`).
  The reader's two loops end because each turn is nearer to the end of the text
  (`SeekEnds`, `PastBalanceReads`): from the end backwards, by `AllReached`, every
  position has a result, and it is a reader. The bounds `MaxVariables`, `MaxPins` and
  `MaxGates` are part of it: a record is dropped, not added, when there is no room.
- For the allocator, `IInv` joins types, the shape of pages (`PagesSized`), `PagesOwned`,
  `CountInv` and `HandleInv`. `CountInv` says of every counter that it is a sum over
  pages of occupied slots; `CountersAgree` follows because the pages of two chains
  have nothing in common, and a step has only to be followed on the one page it
  changes. The sums are those of the community modules, whose recursion
  `Counting` opens once: its induction is a counterexample of least cardinality,
  as the library's induction theorems are out of reach. `HandleInv` says that as long
  as nothing has overrun its slot every object fits one (`Fits`), and that on a page where
  nobody has released by a pointer left behind an object held lies in some slot of the
  page, in that of its pointer unless it was moved (`Sound`). Two objects held cannot
  then lie in one slot, so that a release by a pointer that was not left behind frees
  its own object and no other, whatever the sizes of the classes and however often
  other pages were compacted.
- `HeapImplemented` reduces each operation to an effect on the occupied slots: one taken
  (`Taken`), one given back (`GivenBack`), the same objects elsewhere (`Compacted`),
  none left, or none touched; and a step that overruns a slot to the end of the heap.
  `Compacted` needs of `Packed` that ranks are a bijection between the slots in use
  before and after.
- `LoopInv` gives the page in terms of the original: `write_slot` is the rank of
  `read_slot`, what has been read stands in front in order, and from `write_slot`
  on no content has changed.
- For the synthesizer, `CircuitSteps` reduces every step to one of three effects
  on the circuit: a pin alone, a pin driven by a gate, or an equality gate
  without a third pin. `FeedForward` is preserved by each. `CompilingConserves`
  extends an assignment by a value the new gate admits; it rests on every byte
  in use admitting some value of its third pin whatever the first two are
  (`BytesAreOpen`).
- `InversionInv` adds to `InversionIsExact` only that the two bytes are bytes; what takes
  the work is each inversion by itself. `&` and `|` are written out over the lowest twelve
  bits of an int, which are told apart again one hexadecimal digit at a time
  (`HexDigits`, `DigitsApart`, `BitsAssembled`); shifts and the truncation to a byte are
  followed bit by bit (`Shifted1`, `Shifted2`, `Shifted4`, `LowByte`), so that each
  inversion is a permutation of rows (`InvertedA`, `InvertedB`, `InvertedC`) and an
  inverter on one pin (`InversionsInvert`).
- `ShapeInv`, from which `NoOperandIsLost` follows, ties the stack of calls to the
  structure of the equation: each call is for the operand its caller is at, and of every
  operand already emitted it knows that it can be emitted, and whether the pin handed
  back for it is a pin at all. A missing pin must then be blamed on the equation: an
  expression that cannot be emitted has no pin either, so that none of the calls up to
  the bottom frame can be (`BlameGoesUp`). That `HasPin` and `Emits` satisfy their own
  recursive equations is proved first, from operands being older than their operators
  (`HasPinExists`, `EmitsExists`).
- `TreeInv` says more than `TreesDisjoint` where the parser relies on it: a node has at
  most one parent ever, the roots on the stack have none and stand in no equation
  (`RootsFree`), and a parent of a side of an equation is a relation that nothing else
  uses (`SidesFree`). A step either lets the youngest new node take roots off the
  stack (`GrownTrees`) or turns the last root, or its operands, into sides
  (`EquationTrees`).
- `ListInv` adds to `ListTellsTruth` that every object has a page (`PagesForObjects`): no
  more models and circuits than pages in use. With pages no more than items, a
  registry that lists what there is has room for the next object while a page can
  be had for it, so that the refusal nobody looks at does not happen.
- For the shell's steps, `Effect` says that each leaves the objects alone, appends one
  and makes it current, or changes the current ones; `FirstOfName` that `findPin` takes
  the first pin of a name.

- `TypeInv` of the diagram manager speaks of the slots that were ever made a node
  (`Used`), not of those allocated: a released node keeps its contents, and a frame, a
  table entry or a client may still name it.
- `Semantics` is what the results rest on. `Diagram` says that while nothing was
  released a node is younger than its two sides; from that follows that what is defined
  by recursion over a diagram exists (`RecursionBelow`), so that `Holds` and
  `OrderedFrom` satisfy their own equations (`ValEquation`, `OrderEquation`) and do not
  change when nodes are added (`DiagramStays`). `EntrySound` says of a table entry that
  under the key of a variable it finds that node and under the key of an operation a
  node that computes it: as long as no variable has the number of an operation
  (`SafeClient`), the keys of the two tables are different, and it does not matter that
  they share their memory. `Proper` says of a frame that the node of its low side is
  right for the call it made there, `Answered` that the node returned last is, and
  `SidesJoin` puts the two together. `Right` speaks of one call, not of the operands the
  recursion began with, so that `apply` needs no order of the variables: whichever
  operands it opens, both sides agree with the operand under the assignments that choose
  them (`Agrees`), and that is all. The quantifiers stop at their variable and need the
  order (`OrderIgnores`).
- `Counted` says that each node has one reference more than the calls under way will
  give back (`Owed`): that of each waiting call's low side, and that of the side that
  returned last. The one more is never given back, as the manager offers no way to do
  so. A sweep therefore finds nothing to release, and `Semantics` survives it. For
  `restrict` and the abstractions `Counted` is false: where both sides come out the
  same, `findOrAddUnique` returns the node without counting it and both counts are taken
  back.
- `DepthInv` adds the depth of a frame to the slot numbers of its operands. A call opens
  an operand, whose sides are older, or is `Stuck` at an inner node and a terminal; a
  stuck call makes a stuck one.

- `TypeInv` of the arithmetic circuits adds to `TypeOK` that `pin` has a pointer for
  every variable the calls made so far have set. `TypeOK` alone is not inductive: a gate
  would take its pins from variables of which nothing is known. It allows wild pointers,
  but only in the array of shifted products, which no gate drives. That every call finds
  what it reads is a property of the scripts alone (`Runs`, `ScriptRuns`), proved bit by
  bit and row by row for every width; loops of loops are sequences joined by the fold of
  the community modules, whose recursion is opened once, and followed from turn to turn
  by a least counterexample.
- `ResultsInv` is about the circuit as the builder sees it, the signal on the pin of
  each of its variables (`Shown`). It says that as long as there was room, what is shown
  is reached by the calls made so far from the numbers the client gave (`Explained`),
  and that a pin two variables point to has a signal already (`Apart`): a call that
  settles the signal of a pin then changes the variable it sets and no other.
  `ResultsKnown` speaks of two moments only, the end of the summation and the end of the
  builder, and says nothing of the way there. What a script reaches is again a matter of
  scripts, apart from any circuit (`Reaches`): a full adder shows at most the sum of its
  bits, and the sum where its OR gates show their disjunctions; `add` adds up to its
  last carry (`AddShows`), a selection lets through what its selector does
  (`SelectShows`), and a product is one `add` per row over a partial product shifted by
  the row, of which only the bits below the width are kept (`MulShows`). The bits above
  come from entries of `shifted` that nothing sets; carries go up only, so that they
  cannot reach what is kept.

The preconditions of the diagrams' properties come from these proofs. Without them they
held in every run of four calls and were not inductive: five nodes, five applications,
a restriction and a collection release a node that the client holds, whose slot may then
become another node. With `SafeClient` the theorems cover what a client can do and be
safe.

Only model-checked: `Terminates`, `LoadsReturn` and `BuildsEnd` (liveness), and
`ResultTellsFile` and `Restored`: they are about the whole text of a file, read
back by recursion along the text.

## 6. Where the code and its documents disagree

Each of these runs checks one property, which states what a document or a comment of
the repository says, and is refuted:

- `v_ContradictionsDetected` (the solver's duties, `docs/specification.md:1374`): a gate
  all of whose pins are known is never tested, so a violated one does not stop
  `propagate` from returning true.
- `v_EquationsEnforced` (`docs/synthesis-logic.txt:7`): the gate of an equation has no
  third pin, and its byte then allows every pair of values: an equation constrains
  nothing.
- `v_NestedExpressionsCompile` (`docs/specification.md:887`, "deeply nested
  expressions"): the result of an operation is not handed back, and an operation over
  it does not compile, with room for all of it.
- `v_SumsReduced` (`include/math/ModularArithmetic.hpp:15`;
  `test/integration_test.cpp:100` expects 5 + 7 mod 13 = 12): an inverter is a gate
  without a second pin and shows 0 whatever it reads, so that a modular sum shows 0.

Met while modelling and not given a run:

- Differences, comparisons and selections go by the same inverters and are no more
  what the header says; a product (line 27) is cut to its width and not reduced,
  which `ResultsKnown` states as what the code does and no more.
- After `unlockPin`, values derived from the lock stay and feed the next call
  (`docs/specification.md:1138`, "depends only on which pins or buses are locked").
  `DerivationsSound` and `StartKept` take what is known when a call begins as given.
- The watchdog's counter runs over all calls and is never reset; past its limit it
  records LIMIT and the call goes on to succeed (`docs/specification.md:1405` asks for
  an abort). `AlarmTells` says when the record is there.
- A chain's `free_objects` subtracts every object ever released from its pages and so
  wraps below zero after enough reuse (`src/core/PagedAllocator.cpp:365`; the shell
  prints it as free slots). `CountersAgree` is about all the other counts.
- Compaction leaves raw pointers behind (`docs/specification.md:609`, "directly patched
  and remapped"). `HandlesIntact` says what remains true of them.
- Pages are not homogeneous (`docs/specification.md:484`): chains go by `ObjectType`,
  under which C++ types of different size are allocated, and the slot stride is that of
  the first. An object too large for its slot overlaps the next (`overrun`).
- A model or circuit named `{` makes a load skip the whole session with its registries
  and, if an item further on is named `}`, return true with nothing restored, as
  `skipValue` counts braces inside strings. `Restored` says what holds without them.
- A load of any pin not locked to 1 never ends. `readBool` tries "true" first, and its
  failure sets the reader's error for good; the loop over the pin's fields then waits
  for a brace or an end of file that never comes. `LoadsReturn` says which loads end.
- The shell's `load` takes the opening brace that `loadSession` expects, and so refuses
  every file its `save` wrote (`commandLoad`, result "rejected").
- `model` and `circuit` with a name that exists make another object of that name, and no
  command goes back to the first, though their help says create or select
  (`src/core/Shell.cpp:567`). No property of the shell's run takes either side.
- Where the right operand has the smaller variable, `computeApply` opens the left one
  first: `apply(x1, x0, AND)` is out of order and not the node `apply(x0, x1, AND)` is
  (`docs/specification.md:1014`, "canonical logic representation").
- Where two keys meet in a bucket, `apply` follows a null pointer. Which keys do depends
  on where the page of the nodes is mapped, so that `test/crypto_test.cpp:64` to `:66`
  pass at most addresses and end the process at others.
- Of an inner node left and a terminal right `computeApply` opens nothing and calls itself
  with the same pair (`RecursionShrinks` says that nothing else does). `restrict` and the
  abstractions drop a reference too many where both sides come out the same, after which
  a collection takes nodes in use. For a client that calls neither, a collection
  releases nothing at all: every node keeps the reference it was made with, and nothing
  gives it back. `initialize` uses 4096 entries of tables it asked one entry for; the
  tables overlap, and a node whose variable has the number of an operation (11 for
  AND) is found under the key of that operation.
- A pin whose name has more than 63 characters is not found under it.
- A load of a generator keeps the seed only, not its position in the sequence
  (`src/persistence/SessionState.cpp:392`), and a load into a circuit that is not empty
  attaches gates to the first pin of that uid, which may be one that was there.
- `src/core/Shell.cpp`, `src/persistence/SessionState.cpp` and
  `src/math/CryptoBuiltins.cpp` do not compile as they stand (a `Bus*` assigned to a
  `Pin*`, an undeclared `zero`, lambdas without the captures they use). The models read
  them as they are meant.
- A released first gate, skipped, leaves a comma at the head of the array: the
  text is not JSON, though `loadCircuit` accepts it.
- A false hook leaves the assignments made so far
  (`docs/specification.md:1432` asks for a roll back): `VetoAssignment` and `VetoPass`
  keep `pins`, and `DerivationsSound` says that what is left is still forced.
- Every relation at the root of a text becomes an equation of its operands,
  `!=` and `<` too (`src/math/MathModel.cpp:189`).
- A NOT is wired (input, null, result) with byte 0x06, which forces the result
  to 0 whatever the input; its result, like that of every operation, is not
  handed back.
- Each use of a variable gets a pin of its own, tied to no other pin of that
  variable; a slice compiles to bit 0.
- `TRUTH_OR` (0xEF) forbids only (0, 0, 1): it is an implication, not the table of
  a disjunction.

## 7. What is not modelled

Of the parts modelled: names and other text, the byte telemetry of pages, buses
and subcircuit instances (as compiled they are larger than a page and `addBus` and
`addSubcircuitInstance` can only fail, so nothing of them is reachable), constants,
inequalities and functions of a model (nothing in the synthesizer reads them), node
types the parser does not build, other clients of a circuit while it is compiled
into; `remove`, `find` and `clear` of the registries, which have no caller; the shell's
file of past lines, its completion and its display.

Of the components:

- **Cryptographic builders** emit thousands of gates over 32- and 64-bit words with
  the helpers whose circuits `ModularArithmetic` has at small width. On the native
  allocator every one of them runs out of pages: `Shell` has that effect and that
  ending. MODEXP and point addition are placeholders, point multiplication and
  ECDSA return false.
- **ESOP**: its terms of 40 bytes are written into slots whose stride is 16, so that
  each overlaps the next ones and nothing read back can be relied on; `synthesize`
  is empty. The algebra of lists as it is meant is not what the code runs.
- **PRNG**: a 256-bit state with no interesting smaller version; its seed is part of
  `SessionState`.
- **Self-tests and build** are evidence of what is expected, not behaviour.

## 8. Plan

What is left, in order of what it is worth:

1. **Session proofs**: that a load that returns true has reached the closing brace of
   the session.
2. **Parser over tokens**: the tree of a text against a grammar by precedence.
