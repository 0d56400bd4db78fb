# A TLA+ verification of the ZJS engine

ZJS is an embeddable JavaScript engine. Most of it is written in Z
(`engine/*.zs`, `engine/builtins/*.zs`); its ABI has a C shim
(`shim/zjs_shim.c`), and its regular expressions are compiled and matched in C
(`engine/native/`). This directory holds TLA+ models of the parts of it whose
correctness lies in the order of steps, often of several actors, or in the
invariants of a data structure through long sequences of operations: parts that
tests reach badly. TLC checks the models on small instances; TLAPS proves most
of what TLC checks, for instances of any size.

Paths below are relative to the repository's root.

| module | what it is |
|---|---|
| `Collector`, `CollectorInv` | the generational collector and the program it serves; its inductive invariants |
| `Collector_proofs` | the proofs: safety, then exactness |
| `MCCollector` | its instances |
| `ContextTable`, `Contexts` | what the C ABI promises of contexts and handles; the registry, the locks and the references that do it |
| `Contexts_proofs` | the proofs, of the refinement too |
| `AsyncGenerators`, `AsyncGenerators_proofs` | an async generator, its queue of requests, its driver; the proofs |
| `FifoJobs`, `JobQueue` | what the job queue promises; the array with a cursor that does it |
| `Promises`, `Promises_proofs` | promises, async functions, their jobs, evaluations that may be stopped; the proofs |
| `Modules`, `MCModules`, `Modules_proofs` | the evaluation of module graphs; its instances; the proofs |
| `Storage`, `StorageInv` | the handle table, the arenas of slots and bytes, the buffers of strings; their inductive invariant |
| `Storage_proofs` | the proofs |
| `Probing` | open addressing, as all the engine's tables do it |
| `LiveEntries`, `EntryTable` | what a Map promises; the table that does it |
| `WeakMapping`, `WeakEntries` | what a WeakMap promises; the record that does it |
| `Interning`, `AtomTable` | what interning promises; the atom table |
| `MCTables`, `Tables_proofs` | the three tables' instances; the proofs |
| `CharRanges`, `RegExpCompiler`, `RegExpMatcher` | sets of characters, the compiler from patterns to programs, the backtracking matcher |
| `RegExpSemantics`, `RegExp`, `MCRegExp` | what a pattern means; the comparison; its instances |
| `RegExpObjects`, `RegExpExec` | what a regular expression object promises; tickets, cache and scratch buffer |
| `MCRegExpExec` | their instances |
| `RegExp_proofs` | the proofs: backtracking in any well-formed program, then executions |

## 1. The system

A host process holds *contexts*, each a whole engine: a runtime with its heap,
its globals, its job queue and its loaded modules. Host threads may call into
any context by its handle. One call at a time is inside a context (a mutex), so
within a context everything is sequential; what makes it hard there is
re-entrancy (the engine calls the program in the middle of its own work),
deferred work (jobs), and the collector, which may run at any safe point.

| component | state | operations | interacts with | what makes it correct |
|---|---|---|---|---|
| **Collector** (`engine/heap.zs`, `runtime.zs` 5255-5659) | mark bits, remembered set, mark stack, pending ephemerons, weak records, dead atoms | `beginMajor`/`beginMinor`, `markRoots`, `drainMarks`, `traceRemembered`, `markEphemerons`, `clearDeadWeakEntries`, `rebuildAtoms`, `sweep`, `sweepYoung`, `finishMinor`; the barriers in `setSlot`, `setLink`, `setObjectProto`, tables, `weakPut` | every store of the program; the atom table | frees nothing that is reachable or referred to; keeps nothing else in a full collection; weak entries go with their keys |
| **Contexts and handles** (`engine/lib.zs`, `shim/zjs_shim.c`) | registry of slots, generations, free slots; the shim's ready flag; a mutex per context | create, install, evaluate, free, each by handle, from any thread | the runtime of a context, under its lock | a handle names one context for its life and nothing afterwards; a context outlives the calls admitted to it, and is then destroyed, outside the locks |
| **Async generators** (`runtime.zs` 4086-4278, 6684-7034) | state, suspension kind, request queue and cursor | `next`/`throw`/`return`, the driver, the reactions | promises, jobs, program code run by property reads | requests answered in order, once; the body driven by one request at a time; nobody forgotten |
| **Promises, jobs, async functions** (`runtime.zs` 6325-6808, `builtins/promise.zs`) | state, value and reactions of a promise; the flag a pair of resolving functions shares; the queue and its cursor | settle, resolve, attach, await, run | async generators, modules, thenables of the program | settles once; every reaction runs once, in order |
| **Interrupts** (`runtime.zs` 8030-8089) | `terminating`, a countdown | poll, terminate, end | every loop and call; the job queue | a terminated evaluation runs no more of the program, and the context is usable afterwards |
| **Module graph** (`modules.zs`, `module_files.zs`) | a record per module: status, DFS numbers, pending count, parents | load, link, evaluate, fulfil, reject, import | promises, jobs, the host's loader | each module evaluates once, after what it needs; one outcome for all importers |
| **Storage and strings** (`heap.zs` 399-431, 626-1118, 2550-3000) | free handles, the table's extent, slot and byte arenas, buffers | allocate, grow, concatenate, slide, trim | the sweeps | a handle is in use or free, not both; ranges never overlap; an append never changes another string |
| **Map, Set, weak tables** (`heap.zs` 1650-2325, `builtins/collections.zs`) | keys and values by position, an index, deleted markers | put, delete, clear, iterate while these happen; compaction | the collector | iteration sees each live entry once; the index agrees with the entries; searches end |
| **Atom table** (`runtime.zs` 1134-1275, 5606-5659) | open-addressed array of string cells | intern, remove one, rebuild | the collector | one cell for one spelling, always found |
| **Regular expressions** (`engine/native/quickjs/libregexp.c`, `libunicode.c`, `engine/regex.zs`, `builtins/regexp.zs`) | programs, the matcher's stack, a cache of programs with tickets, a scratch buffer, `lastIndex` | compile, match, back up, execute, evict | the allocator, the host's interrupt, the program (`lastIndex` may be an object) | the standard's match; every backtrack restores what it left; an execution is of the object's own pattern |
| Sync generators (`runtime.zs` 4115-4278) | state, saved frame | resume, suspend, complete | the interpreter | never resumed while running |
| Properties (`heap.zs`, `runtime.zs`) | hidden classes, dictionaries, attributes | get, define, delete | inline caches | order, attributes and lookups agree |
| Front end, bytecode files, interpreter, builtins library | — | — | — | sequential translations of data, checked in the repository against an oracle and test262 |

## 2. The plan

1. `Collector`: everything rests on it. **Done, proved.**
2. `Contexts` over the abstract `ContextTable`: the one place with threads. **Done, proved.**
3. `AsyncGenerators`: the deepest re-entrancy. **Done, proved.**
4. `Promises` over `JobQueue`, which implements `FifoJobs`, with a termination at
   any point. **Done, proved** but for liveness.
5. `Storage`: the free list with the extent's trimming, slides of ranges, shared
   runs of bytes. **Done, proved.**
6. `Modules`: the walk, asynchronous completion in any order, several
   evaluations, failures. **Done, proved** but for liveness. Loading is left.
7. Small structures: `EntryTable`, `WeakEntries`, `AtomTable` over their
   abstract specifications. **Done, proved.**
8. Regular expressions: `RegExpCompiler` and `RegExpMatcher` against
   `RegExpSemantics` (**done**; that backtracking restores is **proved**, the
   rest is TLC's, section 5); `RegExpExec` over `RegExpObjects` (**done,
   proved**).

Left: the loading of modules, the Set operations, sync generators, the storage
of properties.

## 3. The models

### Collector

*State.* A cell is its tag, its link (prototype, parent environment, bag), its
slots, and, for Map/Set tables and weak records, its entries. `marked` is the
mark bit, and outside a collection it tells old from young, as in the code.
`young` is the set of cells allocated since the last collection (the code
derives it from two numbers, `cycleFreeCount` and `cycleExtent`).
`remembered` has the listed cells and the listed places. `phase` says where
`collectNow` is.

*Actions.* The program's: allocation, loads, stores with their barriers
(`SetSlot`, `SetLink`, `TableAdd`, `SetTableValue`, `WeakPut`), removals,
interning; it reads and writes what it holds in `roots` and nothing else. The
collection's: one action per step of `collectNow`, and within marking one per
root, cell, weak entry, listed cell and listed place. The mark stack is a set,
so TLC and the proofs cover any order of taking cells off it; the code's
last-in first-out is one of them.

*Abstractions.* Positions in tables are replaced by keys. Whether a holder is
large, hence listed by place or as a whole, is a choice. A weak record and its
two private arrays are one cell whose arrays are listed apart: the three are
allocated together and nothing else ever refers to the arrays. Collections may
start at any moment, which includes whatever `shouldCollect` and `majorDue`
decide. Handles are reused: allocation takes any free one.

*Not modelled here.* Where things are: storage is `Storage`, the tables of
atoms, entries and weak keys are the modules below. Numbers kept for reports and
for the policy.

### Contexts and ContextTable

*State.* The registry as in `lib.zs` 127-134; the shim's flag; one lock per
context; per thread the place of its call, its handle and the reference it
holds. References are counted by the language's runtime: `destroyed` grows in
the step that leaves a context without one.

*Actions.* A thread's step lasts to the next point where another may get in: a
critical section of the registry (`Register`, `Retain`), the taking and leaving
of a context's lock, the drop of a reference. The critical section of
`zjs_z_free_context` is two steps, `TakeCopy` and `Detach`, so that threads
that drop their references meanwhile are interleaved with it.

*Abstractions.* An evaluation is the stay inside the lock. The calls that look
a handle up (evaluate, install, query) are alike. The host passes handles it
has been given, freed or not. A thread is in one call at a time: there are no
host callbacks (`docs/lifecycle.md`, Reentrancy and callbacks), and `zjs.h`
forbids an interrupt handler to call back.

`ContextTable` knows no slots, generations or locks: `names` says which handle
names which context, `issued` which handles were ever given out, `asks` which
handle a call was given. A call may be given a stale handle; it is admitted to
the context its handle names at that moment, and refused only if there is none.
`Contexts` implements it with `names` computed from slots and generations,
`issued` extended by the handles about to be returned, and `asks` read off the
threads' places and targets.

### AsyncGenerators

*State.* The record's state, suspension kind and queue; how many reactions of
each kind are outstanding; `stack`, the driver's activations: where it is when
it runs the program in its middle. `answers` and `drives` are histories.

*Actions.* `Request` (a call of the program, wherever the program can run);
`ResumeNext` (a turn of `asyncGeneratorResumeNext`'s loop); the ways out of the
body (`Suspend`, `Delegate`, `BodyReturns`, `BodyThrows`); the ways on after
the reading of `constructor` and `then`; `RunReaction`, a job.

*Abstractions.* Values and the frames themselves are left out. A job runs when
nothing else does (`runJobs` starts with no frame). The program's own jobs are
`Request`s between jobs. Awaited values settle in either way.

### JobQueue, FifoJobs and Promises

*State.* `promises`, `reactions`, `shareds` (the record a pair of resolving
functions shares), `asyncs`, all by number; `queue`, the array with its cursor
and end (`JobQueue`); `stack`, the calls under way, innermost last, by what the
engine goes on with when each returns; `phase` and `terminating`.

*Actions.* What the program may do in any call (`Program`: make a promise, call
`then`, call a resolving function it was given, call an async function), the
ends of its calls (`ProgramEnds`, `BodyEnds`), and what the engine does by
itself (`Engine`: take the next job and run it, attach an await, drain). The
interrupt handler may stop the evaluation wherever the program runs; the error
paths of every native caller then do what they do in the code, and the end of
the evaluation drops what is queued. Taking a pending throw does not clear a
termination (`takePending`, 1385; `StillRaised`): when the reading of an awaited
object's `then` is stopped, `resolvePromise` takes it (6427), rejects the new
promise and returns, and `asyncStep` (6798) finds it pending all the same,
unwinds the body and attaches nothing (`AwaitStopped`).

*Abstractions.* A value is plain, an object with any `then`, or a promise.
Reading `then` and `constructor` of an object may run the program. A place of
the queue is one job, where the code has four values. The promise that
`adoptPromise`'s internal `then` derives is left out: nothing can see it.

`FifoJobs` is a sequence to which jobs are added behind and from which they are
taken in front, all of them dropped only when an evaluation is being stopped.
`JobQueue` implements it with `Waiting(queue)`, the places from the cursor to
the end.

### Modules

*State.* The record of each module (status, error, the two depth-first numbers,
`asyncEvaluation`, `pendingAsync`, `asyncParents`, `cycleRoot`, the promise);
`frames` and `stack`, evaluateFrom's calls and the walk's stack; `gathering`,
gatherAncestors' calls; `ready`, what is left of the list asyncModuleFulfilled
made, a set whose next is the one of the least `asyncOrder`, as the code sorts;
`running`, the awaiting bodies; `jobs`.

*Actions.* `Start` (an evaluation of any module, by the host or by `import()`);
one step of the walk per request (`WalkInto`, `Require`) and per return
(`TurnAsync`, `Execute`); `BodyEnds` for an awaiting body, in either way;
`ModuleFulfilled`, with a step of gatherAncestors per parent and per return
(`CountParent`, `ParentsCounted`), `ModuleRejected`, `RunReady`. A walk is not
interrupted: a job runs, and an evaluation starts, when the engine runs nothing
else.

*Abstractions.* Graphs are given, and link. The order within `asyncParents` and
the recursion of gatherAncestors are as in the code. graphMembers and
asyncModuleRejected visit what can be come to along requests, or along
`asyncParents`, through modules that are new, or have not failed: `From` is
that set, the least with the first module that no edge leaves.

### Storage

*State.* The header table with the free list's array and count; the slot arena
with the log of grown ranges; the byte arena; the buffers with their counts and
free list; `cycle`, the tops the last collection left. `text` is each string's
text as it was made, a history; a slot's value tells whose it is.

*Actions.* `Allocate`, `Grow`, `AllocateString`, `Concatenate` (in the arena, in
place at the arena's top, over a buffer extended in place, over a new one);
`MinorCollection` and `FullCollection`, each a whole sweep with its slides, its
list of the dead and the cut of the table.

*Abstractions.* Which cells survive is `Collector`'s matter: any may here, save
that a minor collection keeps the old ones. Capacities and the rebuilding of
storage in a smaller one change no content. The side tables' indices are listed
free as the buffers' are.

### Probing, EntryTable, WeakEntries, AtomTable

`Probing` has what the three share: a slot's home is its hash modulo the
capacity, a search goes up from there and round the end to the first slot that
holds one of some things (`Found`).

`EntryTable` keeps keys and values by position; a removed entry keeps its
position, with the deleted marker, and a mark in the index. `walks` holds the
position each iterator or forEach has come to, and any operation may come
between two steps of one, which is what a callback of forEach can do.
`LiveEntries` knows no positions: an ordered map, and for each walk the entries
still ahead of it.

`WeakEntries` is a record with two arrays of its own. A compaction, by an
insertion or by a collection, moves entries down; `young` and `listed` are the
collector's remembered places, which moves could leave behind. A full
collection finds any of the present keys dead. `WeakMapping` is a map that
loses the entries of dead keys. In `Collector` the same record is a set of
entries named by keys: `WeakEntries` is why it may be.

`AtomTable` holds string cells, with no marks: a minor collection closes the gap
of each dead atom (`Removed`, step by step of `removeAtom`), in any order, and a
full one builds the table anew. `Interning` promises that a text has at most one
atom, and which calls give it.

Left out: that -0 is stored as +0, and what makes two keys the same, are data;
so are hashes, which are any function of the key.

### Regular expressions

`RegExpCompiler` takes the tree of a pattern (parsing is left out) to the
program that lre_compile emits, instruction by instruction; a jump counts
instructions where the code's counts bytes. `CharRanges` has its sets of
characters. `RegExpMatcher` is lre_exec_backtrack, one instruction a step: the
text's position, the captures and registers, the stack of frames and of what
must be undone, the allocator and the host that may refuse. A frame carries, in
the model only, the captures of the moment it was pushed (`was`), to say what a
backtrack must restore. `CallsAssumption` is what the matcher relies on its
programs for: jumps stay in the program and in the body of each lookahead, which
its own kind of match ends (`WellFormed`). TLC evaluates it on what the compiler
makes of every pattern of the run. `RegExpSemantics` is the standard's meaning of the same
tree, and `RegExp` compares.

`RegExpExec` is what surrounds a match: the cache of compiled patterns, which
evicts the least recently used, the objects' tickets, the scratch buffer that
takes patterns and texts in turn, `lastIndex` and the class in which it is known
to be writable. What the matcher finds is given (`MatchEnd`).
`RegExpObjects` has only the objects: an execution is of the object's pattern as
it is when `lastIndex` has been read, on the text it was given.

## 4. What is checked

| run | instance | distinct states | question |
|---|---|---|---|
| `collector` | 3 cells: linked cells and strings, or plain cells, tables and weak records | 840 000 | barrier, sweeps, atoms, weak entries |
| `collector_chains` | 4 cells, one weak record, full collections | 301 000 | ephemeron chains |
| `contexts` | 2 threads, 3 contexts, 3 slots, 2 generations, 3 calls each | 91 000 | refinement, accounts, every call returns |
| `asyncgenerators` | 4 requests, 3 stops | 9 300 | order, single driver, answers |
| `asyncgenerators_then` | 2 requests, 1 stop, a `then` accessor | stops at 9 steps | the first finding of section 6 |
| `promises` | 3 promises, 2 reactions, 2 pairs, 1 async function, 2 evaluations | 470 000 | one settler, order, termination, the queue |
| `modules` | 3-module graphs up to renaming, four of 4 modules, any of them awaiting; 2 evaluations | 220 000 | order, one outcome, every evaluation settles |
| `storage` | 3 handles, 6 slots, 4 bytes, 2 collections | 579 000 | contents, accounts, the inductive invariant |
| `tables` | 4 positions and 3 keys of two colliding hashes; 4 string cells | 76 000 | three refinements, searches end |
| `regexp` | some two thousand matches | 80 000 | the standard's match, backtracking |
| `regexpexec` | 2 objects, 2 patterns, 1 slot of cache, 2 strings | 65 000 | refinement, the cache's account |
| `regexpexec_frozen` | the same, with freezing in the middle of an execution | stops | the second finding |

### The properties

*Collector.* `NoDangling`: nothing left refers to a freed cell, old garbage
included. `OldToYoungListed`: the barrier's promise. `MinorCollectionExact`: a
minor collection promotes the least set it must; `FullCollectionExact`: a full
one keeps the least set, with ephemerons in its definition. `AtomTableExact`:
flags and table agree. `PendingComplete`: the pending index finds everything, so
that the verification scan of `markEphemerons` is only that (its comment claims
so). `LiveEntriesKept`, `DeadEntriesDropped`: a weak entry lives exactly as long
as its record and key.

*Contexts.* `ImplementsTable`: the contract of `include/zjs.h` and
`docs/lifecycle.md`. `RegistryExact`: the registry's free list and counters.
`PublishedBeforeUse`: nobody overtakes the initialization.
`DestroyedOutsideRegistry`: nobody destroys a runtime under the registry's
lock. `CallsReturn`, `FreedIsDestroyed`: liveness.

*AsyncGenerators.* `AnsweredInOrder`: answered in the order made, each once,
none dropped. `DrivenOnce`: no request drives the body twice. `OneWaker`: a
generator that waits has exactly one reaction, of the right kind, and one that
does not has no request left. `EveryRequestAnswered`: liveness.

*Promises.* `OneSettler`: at most one pair, job, reaction or call can still
settle a pending promise, and none a settled one, so that the test in
settlePromise never decides anything. `ReactionsRunInOrder`: a promise's
reactions run in the order they were attached, each once, with its outcome.
`NothingEnteredOnceStopped`: once an evaluation is being stopped, the engine only
leaves calls and rejects promises: it enters no code, begins no job, attaches no
reaction and fulfils no promise until the embedder has control. Its mutant
clears the termination when it is taken: an await then goes on and attaches. `ImplementsFifo`: the queue.
`EveryReactionRuns`: liveness.

*Modules.* `DependenciesFirst`: a body begins once, and after everything its
requests reach that does not wait for it in turn. `SettledTruly`: an
evaluation's promise is fulfilled only when its whole graph has been evaluated,
rejected only with what a module of the graph threw. `EveryEvaluationSettles`:
liveness.

*Storage.* `ContentsKept`: every cell reads what was written in it, whatever
slid since and whoever shares its bytes. `TablesExact`: each handle is in use or
listed free, once; a buffer counts the strings over it; the handles
taken since the last collection are the young cells. `Inv`: what the slides rely
on, the invariant of the proofs.

*Tables.* `ImplementsLiveEntries`, `ImplementsWeakMapping`,
`ImplementsInterning`: the abstract structures. `YoungEntriesListed`: a young
cell in a weak entry is remembered at the position the entry is at now.
`SearchesEnd`: no index fills up, marks of the removed included.

*Regular expressions.* `MatchIsSpecified`: the standard's first match with its
captures. `UndoRestores`: a backtrack restores the captures and registers of its
frame. `ChoicesDiffer`: no choice is open twice in one state, whence
termination and a bounded stack; `Terminates`. `CompiledAreCached`: no compiled
pattern leaks or is freed too early. `ImplementsRegExpObjects`: tickets,
eviction and the shared scratch buffer are invisible.

Each property has a mutant in `PROJECT.json`: a small change of the code's
model, such as a barrier left out or a generation not compared, under which TLC
finds the property violated. The operators marked "Variant" in the modules are
those changes; the specifications do not use them.

### Bounds, and why they are enough

* *Collector.* A violation of the barrier takes an old holder, a young target
  and a root: three cells. A chain of ephemerons takes a record, a key, a value
  that is the next key, and its value: four. `LinksOrEntries` explores cells
  that refer by links or slots and cells with entries apart, and
  `OneRecordFullOnly` keeps the chains to one record and full collections; the
  theorems have neither.
* *Contexts.* Two threads are a free and a call it races, or a creation that
  takes the slot over. `LastGeneration = 1` gives each slot two lives, so that
  reuse and retirement both happen. `MaxSlots` stands for the 2^32 - 1 indices
  of a handle; `MaxCalls` bounds the host.
* *AsyncGenerators.* `MaxRequests = 4` is an answered request, the driving one
  and two queued; `MaxStops = 3` gives each way of stopping a successor.
* *Promises.* Two reactions on one promise have an order; two pairs nest a
  thenable in a thenable; two evaluations show what a stopped one leaves.
  `CompactAt = 2` and `StorageKept = 2` make compaction and the giving up of
  storage happen within three jobs. `MaxMade` bounds promises and pairs
  together.
* *Modules.* Three modules have every cycle and two ways into it. The four
  larger graphs have what takes four: a cycle that waits at two places, a
  module over two members of a cycle, two cycles sharing a module, a diamond.
* *Storage.* Three handles are a run of shared bytes with a sharer and a cell
  between them; two collections make a cell young, old and slid again.
  `SmallStringBytes`, `CutAt` and `CutFactor` are 2, so that large strings and
  cuts happen.
* *Tables.* `FirstCapacity = 2` and four positions give growth twice; the two
  keys that collide have the last slot of every index as their home, the third
  follows them round the end. A `subject` picks the structure.
* *RegExp.* The patterns are built by kind over an alphabet with a letter that
  folds in each mode, surrogates and the last code units, and nest every
  quantifier in every group. `regexpexec`: one slot of cache makes every
  compilation an eviction.

`CHECK_DEADLOCK FALSE` stands where a bound ends the behaviour: the host has
made its calls, the program its requests, the match its steps. `Collector` and
`tables` have no such end.

### Fairness

`Contexts`: weak fairness of each thread inside the engine, which is the
scheduler's, and an evaluation that returns. A context's lock needs no strong
fairness in the run: threads make finitely many calls, so no thread is
overtaken for ever. In a host that calls for ever the result holds for a fair
mutex. `AsyncGenerators`: the driver goes on (it is sequential code); the body
stops or ends whenever it runs, and the awaited values settle. The last two are
the program's to do: a body that loops, or awaits what never settles, is not
answered, and should not be. `Promises`: the engine goes on and every call of
the program ends; a body that is resumed again and again is left at last
(strong fairness of `BodyEnds`). `Modules`: the engine goes on, and each body
that awaits ends. `RegExp`: the matcher's loop goes on.

## 5. What is proved

All theorems hold for every value of the constants allowed by the assumptions:
no assumption bounds the number of cells, slots, threads, contexts, requests,
promises, reactions, modules, keys, positions, patterns or texts, and hash functions are
any functions. The bounds that the modules name are parameters of the theorems.

**Collector** (`Collector_proofs`). `Spec => []IInv` gives `TypeOK`,
`NoDangling`, `OldToYoungListed`, `AtomTableExact`, and that what the program
can reach stays allocated (`NothingReachableFreed`).
None of them is inductive alone: that a sweep frees nothing referred to
depends on what marking has done, which depends on where it stands. `IInv`
states it reference by reference: between collections each old-to-young
reference has its own listing (`RunInv`); in a minor collection each unmarked
referent of an old cell still has a place yet to trace, and each traced young
cell has marked referents only (`MinorInv`); in a full one each traced cell has
marked strong referents (`MajorInv`); after the ephemerons and the clearing,
marked cells have marked referents only (`ClearInv`, `SweepInv`).

**Exactness** (`Collector_proofs`, second part). The converse, that marking marks no
more than it must: `EInv` adds that whatever has been marked lies in every set
closed under the collection's definition of live (`MajorExact`, `MinorExact`),
and that each unmarked value of a reached entry is to be registered or waits
for its key (`Queued`). With `IInv`, the marked set is itself closed at the end
of marking, so it is the least one: `FullCollectionExact`,
`MinorCollectionExact`. `PendingComplete`, `LiveEntriesKept` and
`DeadEntriesDropped` follow.

**Contexts** (`Contexts_proofs`). `Inv` says who holds a reference or the
registry's lock where (`ControlInv`), that a handle given out is of no
generation after its slot's and strictly before once the slot is empty
(`HandleInv`), and that a context is destroyed exactly when nothing refers to
it (`ReferenceInv`). From it `RegistryExact`, `PublishedBeforeUse`,
`DestroyedOutsideRegistry`, and the refinement: each step of `Contexts` is a
step of `ContextTable` or changes nothing there. The case that needs `HandleInv`
is a registration: its handle must be one never issued. A lookup is the other:
the slot's test must hold exactly when the pair is in `names`.

**AsyncGenerators** (`AsyncGenerators_proofs`). Under `~ThenCalls`, the
assumption that no accessor runs at the reading of an answer's `then`: the
driver is never entered twice, so a stack has at most one activation, and the
state tells what it is (`DriverInv`); answered and queued requests number the
requests made (`QueueInv`); no request at the front has driven the body when
the driver is about to look at it (`DrivesInv`). Section 6 is what happens
without the assumption.

**Promises** (`Promises_proofs`). `IInv` has four parts, each stated of the
promises, reactions, pairs, functions, queue and stack one could be in the
middle of a step with, so that the primitives (a settlement, a `then`, a new
pair, a resolution) have one lemma each of what they keep, and an action is the
composition of its primitives. `QueueInv`: cursor and end lie in the array and
the cleared places behind the cursor. `Typed`. `Lines`: each reaction not yet
run is on exactly the line it stands in, its promise's while that is pending
and the queue afterwards, in order. `Sole`: at most one agent can settle a
pending promise, none a settled one. From them `OneSettler`,
`ReactionsRunInOrder`, `NothingEnteredOnceStopped` and the refinement of
`FifoJobs`, for which a compaction must keep `Waiting(queue)` and no job added
may equal one that waits.

**Tables** (`Tables_proofs`). What a loop leaves is a recursive function in the
model; its values come from an induction by a least counterexample (`UpTo`,
`Recursion`). Open addressing is `InOrder`: each thing held is in one slot, and
no slot before it on its probe is empty. `Found` ends and is right in such an
array while a slot is empty, and one is since at most three quarters are used,
marks included (half, for atoms). `EntryTable` keeps it through additions,
marks, clears and growth; its refinement relates each walk's position to the
entries ahead of it. A weak record does not keep its entries' hashes, so its
invariant (`WeakFits`) says that there are some; a compaction keeps each
remaining position once, in order, and lists what it moved
(`YoungEntriesListed`). The atom table is the hard one: while `removeAtom` goes
up from the hole, the array with the hole empty is in order but for things the
hole may cut off, all of which lie beyond the place it has come to (`Closing`);
at the end nothing does. So any number of atoms removed in any order, and the
table grown or built anew, leaves it in order.

**Storage** (`Storage_proofs`). `Inv` (`StorageInv`): a handle is in use or
listed free (`Accounts`); the ranges of live holders are apart and hold what was
written in them; the ranges no collection has moved lie in the order in which
the sweep walks them, and the log has the grown ones in the order of the arena;
strings are apart or share a start, and a buffer counts the strings over it. A
collection slides ranges one at a time, in place, over what lay below. One lemma
says when that loses nothing: the range moved is the lowest of those left, and
its new place begins no higher than its old. The merge of the walk with the log
and the walk over the bytes each visit the ranges in that order; their loops are
recursive functions, and what holds after each turn is proved by an induction
over the turns. The cut of the table and its free list is a permutation of what
is left. `ContentsKept` and `TablesExact` are parts of `Inv`, for every size of
the table and the arenas.

**Modules** (`Modules_proofs`). That a body begins after what its module needs
rests on every part of the evaluation at once, so `IInv` has a part for each.
`StackInv`, `FramesInv`: the stack has the modules being walked in the order of
their indexes, and each call of the walk stands at its request of the next.
`ReachInv`, `LowInv`: what the walk's two numbers say. A call reaches all that
was come to since, and is reached by all that was come to before the next call;
a module's lowest index is that of one it reaches, and no higher than those of
the modules it has seen; so a module whose two numbers agree at its end is the
root of what lies above it on the stack (`RootInv`). `RequestInv`: what an ended
module requests is in its own cycle, or done, or waited for by way of its
cycle's root. `WaitInv`: what waits turned async later than what it waits for,
and has failed if that has. `TurnInv`: each asynchronous module of a cycle, but
for the root, is waited for by one of the cycle that was come to before it, so
that the cycle is done when its root is. `CountInv` is the delicate one: the
places of a module among the parents of others that are not yet counted are no
more than its `pendingAsync`, also while gatherAncestors stands in the middle of
several lists; hence a module whose count is 0 waits only for what is done, or
stands in the list before it (`GatherInv`, `JobInv`). `OutcomeInv` has the
errors and promises. `DependenciesFirst` and `SettledTruly` follow, for every
graph, any bodies awaiting or throwing, and any number of evaluations. What is
reached is defined by closed sets, not by recursion, so that an argument by
reachability is the choice of a closed set (`ReachesLeast`).

**The matcher** (`RegExp_proofs`). That undoing to the top frame restores
its captures does not survive a failure that goes to a frame below, nor the end
of a lookahead, which drops frames and keeps what was to be undone. `MInv` says
it of every frame: undoing everything above it gives the captures it was pushed
with (`Logged`), whichever entries `SAVE_CAPTURE_CHECK` found unnecessary, since
the oldest entry of a place is the one that counts. It also says that an
instruction in a lookahead's body has that lookahead's kind of frame to go back
to, and so has each frame below (`Within`), which is what `lookahead_match` and
`negative_lookahead_match` take for granted when they pop without a test. It
holds for every program that is `WellFormed`, every text, and with the stack or
the host refusing at any point.

**RegExpExec** (`RegExp_proofs`, second part). `IInv`: each slot's clock is in the order
of uses once and generations are never given twice (`BackendInv`); an object's
ticket is a generation its pattern was compiled in, if it is still anyone's
(`ObjectsInv`); the tag of the scratch buffer names a string whose text the
buffer holds, or one of an earlier collection (`TagHolds`); executions that
wait keep their strings (`WaitingInv`). `CompiledAreCached` follows for every
`CacheLimit`, and the refinement under `~FreezesInside`, because of the second
finding.

**Only model-checked.** Liveness (`CallsReturn`, `FreedIsDestroyed`,
`EveryRequestAnswered`, `EveryReactionRuns`, `EveryEvaluationSettles`,
`Terminates`): out of the prover's reach. `MatchIsSpecified`: compiler and
semantics are recursive operators on trees, and what they compute is an
induction over data. `ChoicesDiffer` depends on the registers and tests that the
compiler puts into loops, so on the same operators; `WellFormed` is checked, not
proved, of what it emits.

## 6. Findings

**An async generator drops a request.** The driver of an async generator
resolves the front request's promise and then
removes the request from its queue (`runtime.zs` 6701-6715, 6735-6745,
6944-6949, 6982-6992, 6998-7007). Resolving reads the answer's `then`
(`resolvePromise` 6424-6425). If the program has defined an accessor `then` on
`Object.prototype`, it runs here, with the answered request still in front and
the state such that a new request is served at once. Calling the generator from
it makes the nested driver answer the same request again, and of the two
removals the second drops the new request: its promise never settles.
`asyncgenerators_then` finds this in nine steps: a `next()` that completes the
body, and a `return()` from the accessor. The comment at `runtime.zs` 6823-6827
has the front request driving the body, and `tests/expect/async-generator-return.js`
4-5 expects queued requests to settle "in order, each once". Removing the request
before resolving its promise, which is what ECMA-262 does, restores it.

**A read-only lastIndex is written.** `builtinMatch` (`builtins/regexp.zs`
159-191) decides whether the object is of the class in which `lastIndex` is a
writable data property, and then reads `lastIndex`, whose conversion to a number
may call the program. If that freezes the object, the execution still stores
into the known slot: a read-only property changes and no TypeError is thrown.
`regexpexec_frozen` finds it (`ReadOnlyKept`). The comments at 147-148 and
157-158 say otherwise, and `tests/expect/regexp-fast-paths.js` (4, 24) compares
these paths with node. Testing the class after the reading restores it.

Smaller divergences met while modelling, which the models leave out:

* A named back reference emits only the groups of that name parsed before it
  when there are any (`find_group_name`, `libregexp.c` 1759-1783).
* A class with strings in a lookbehind steps back one character whichever string
  it is to match.
* `cr_regexp_canonicalize` does not look at whether `cr_add_interval` failed.
* A terminated evaluation of modules leaves them failed with "interrupted".
  Those that wait on such a module's body stay pending.
* Builtin constructors take any object as `this` for a construction, so that
  `RegExp.call(rx, p)` gives `rx` another pattern (comment, `regexp.zs` 440).

## 7. What is not modelled, and why

* *Promises*: capabilities of foreign constructors, the combinators, `finally`,
  contexts without Promise: sequences of what is modelled, with more calls of the
  program between. The reactions of async generators are `AsyncGenerators`'.
* *Modules*: loading, linking errors, the resolution of exports and namespaces,
  termination. Within a cycle a body may begin before what another member of
  the cycle requests, as in the standard; `DependenciesFirst` says no more.
* *Storage*: capacities and the side tables, above.
* *Regular expressions*: the text of patterns, the Unicode tables, the methods
  built on exec.
* *Tables*: the constructors' loops, groupBy, the Set operations (of which
  `difference` walks the live set where ECMA-262 copies it first); a large
  holder remembered as a whole, which is in `Collector`.
* The front end, bytecode files, property storage, the interpreter's opcodes and
  the rest of the builtins library are sequential functions on data, with an
  oracle and test262 in the repository; a model would be a second
  implementation. That no value lives across a safe point in a local of the
  engine alone is a fact about each call site, not about a protocol.
