# Verification of the efto interpreter

efto is a bytecode interpreter in C: a scanner, a single-pass compiler, a stack
machine with closures, classes, exceptions and natives that call back into the
program, a mark-and-sweep collector, and a library of builtins. It is
single-threaded. What makes it hard is not parallelism but *re-entrance*: a
native, an operator method or a type pattern starts a second `run()` on top of
the first, a collection can start inside any allocation, and an exception has to
cross all of it and find every stack the way it expects.

This directory holds TLA+ models of those parts, the TLC configurations that
check them, and TLAPS proofs. Paths below are relative to the repository
(`src/src/vm.c` is the virtual machine).

## Inventory

| Part | Source | State | Operations | Correct means | Modelled in |
|---|---|---|---|---|---|
| Control transfer | `vm.c`, `vm.h` | `frames`, `stackTop`, `exceptionHandlers`, `pendingUnwind`, the `run()` invocations on the C stack | call, tail call, return, throw, land, propagate, hard error | every exception and return goes where the text of the program says; heights and handlers match the live frames | `Unwind`, `Machine` |
| Structured statements | `compiler_stmt.c`, `compiler.c` | `currentLoop`, `currentFinally`, local counts | emit try, loops, break, continue, return | a finally block is never skipped; a local has the slot the compiler gave it | `Compiler`, `Unwind` |
| Expressions and bytecode | `compiler.c` | code of the function in progress, `lastEmittedCall` | one parselet for each form | the instructions compute what the tree means | `Compiler`, `Machine` |
| Compiler scopes | `compiler.c` | locals with depths, upvalue lists | begin/end scope, resolve, capture | compile-time slot = run-time height (except in finally bodies, see "What the code does not keep") | `Compiler` |
| Argument binding | `vm.c` | arguments on the stack | positional, rest, optional, keyword | every parameter gets its argument or its default | `Stack`, `Machine` |
| Upvalues | `vm.c` | sorted list of open upvalues | capture, close, set, get | closures of one variable share it, before and after it leaves the stack | `Stack`, `Machine`, `Heap` |
| Imports | `vm.c`, `compiler_stmt.c` | import cache with a "loading" mark, global tables | import, circular import, failure | a module runs once; a failure leaves no half-loaded module | `Machine` |
| Integer arithmetic | `vm.c` | none | the operators, with their overflow tests | exact, or an error | `Values`, `Machine` |
| Collector | `memory.c` | marks, grey stack, object list, `nextGC`, `gcInhibit` | mark, trace, sweep at any allocation | nothing reachable is freed, garbage is | `Heap` |
| String tables, interning | `table.c`, `object.c` | keys compared by pointer; `vm.strings` is weak | find, intern, remove white | one object per string content; no dangling key | `Heap` |
| Value tables | `value_table.c` | entries, count, liveCount, capacity | get, set, delete, rehash, iterate | behaves as a dictionary; every probe ends | `ValueTable`, `TableIteration` |
| Natives with callbacks | `builtins.c` | temporaries on the value stack | map, filter, reduce, sort, forEach ... | the native finds its temporaries after each callback | `Unwind`, `TableIteration` |
| Regular expressions | `regex_engine.c`, `builtins.c` | none across calls | parse, match, find, replace, split | agrees with the backtracking meaning of patterns | `Regex`, `RegexSearch` |
| REPL / script | `main.c` | input buffer, the machine across lines | read, interpret | a failed line leaves nothing behind | `Unwind`, `Machine` |
| Scanner, JSON, encodings, library, disassembler | `scanner.c`, `json.c`, `encoding.c`, `builtins.c`, `debug.c` | positions only | scan, parse, encode ... | agrees with a reference definition | not modelled |

The parts meet in these places: the compiler's idea of heights and open
constructs is what the machine's handlers restore; `vmCallValue` and `callMagic*`
connect C code to `run()`; every allocation may collect, so every C function that
holds an object must have it on the value stack; `interpret()` connects one REPL
line to the next.

## Control transfer: `Unwind`, `StructuredControl`, `UnwindRefinement` and their proofs

### State

| Variable | Code |
|---|---|
| `frames` | `vm.frames[0..frameCount-1]`; a frame has its `slots` (a height), the number of `locals` the compiler counts at its program point and `ctx`, the constructs that enclose that point |
| `stackTop` | `vm.stackTop - vm.stack` |
| `handlers` | `vm.exceptionHandlers`; `handlerIp` is the construct it points into |
| `runs` | the `run()` invocations on the C stack: who called it, its `baseFrame`, the `savedTop` of the caller |
| `mode` | what the C code on top does: executing (`exec`), in `tryLandUnwind` (`unwind`), in a native between two callbacks (`native`), returning after `runtimeError` (`error`), between two programs (`idle`), gone (`exited`), or in undefined behaviour (`wild`) |
| `pendingUnwind` | `vm.pendingUnwind` |

The program is not fixed: at each statement any statement the compiler accepts at
that point can follow. An action is one statement, that is, what the compiler
emits for it as executed by `run()`; `Land`, `Propagate`, `ErrorReturn` and the
native's steps are the C code between statements. `map` in `PROJECT.json` names
the lines of each definition.

Abstractions. Values are not modelled, only how many there are. A statement is
atomic and starts with no temporaries on the stack, so an exception in the middle
of an expression is represented by one at a statement; what handlers restore is a
height recorded at a statement. while and for are one loop. A native pushes
`NativeTemps` cells (receiver and callback) above its `NativeArgs` (receiver and
argument), as `mapForEach` does. Imports are left out: the compiler only accepts
them at top level. `wild` means C undefined behaviour: from there nothing is
claimed.

Four kinds of C code call `run()` (`Calls`): natives, operator methods, type patterns
with a validator, and `stringify`, which asks an instance's `__toString__`. The last two
take a failure for an answer (`Swallows`): "no match", or "X instance". They drop the frames
of the callee and let the statement go on, with `pendingUnwind` still set until some
later landing, failed dispatch or error finds it (`EqualityTest`).

`Forms` and `Calls` let a run include or exclude delicate statement forms
(`catchReturn`, `nestedReturn`, `finallyReturn`, `callbackReturn`, `breakTry`) and
the callers of `run()`. `Forms = {}` is the fragment in which the code does what
its comments promise. What each form breaks is told under "What the code does not
keep".

### Abstract specification

`StructuredControl` has no handlers, heights or `run()`: a call stack is a
sequence of contexts, an exception looks at the text of the program and is at once
at the innermost construct that takes it. `UnwindRefinement` maps `Unwind` to it;
while an exception is in flight the mapping already shows it where the top handler
points, so landing and propagating are stuttering steps.

### Runs

Bounds, unless stated: 3 frames, 3 handlers, 2 locals per frame, 2 constructs open
in all frames, 24 stack cells. Three frames and two constructs are enough for an
exception to cross a frame and a native, for a try inside a try, a try inside a
loop and a loop inside a try, and for the handler and frame limits to be hit in the
middle of every statement. 24 cells cannot be filled by these frames; the stack
limit is exercised in `unwind_any_form`, with 8.

| Run | Shows |
|---|---|
| `unwind_script` | In safe programs: `StackLayout` (frames abut, no cell too many or too few), `HandlersMatchTries` (the handler stack is exactly what the live frames own), `StaysDefined`, `FinallyNotSkipped`, `CatchNotSkipped`, `UnwindingEnds`; and they implement `StructuredControl` (`ImplementsStructuredControl`) |
| `unwind_repl` | Natives, operator methods and `__toString__` in a REPL (2 handlers, so that a for-each finds none left): `OnlySwallowedUnwindsStay` (a statement begins with an unwind pending only where one was swallowed), `LinesEndClean` (however a line ends, no frame, handler or value is left) |
| `unwind_any_form` | With every form and the swallowing callers allowed and 2 frames, 2 handlers, 1 local, 8 cells: types and the nesting of `run()` |

`LinesEndClean` says what the code keeps and no more. A hard error resets the stack and then
each native it passes drops its two temporaries, so after an error the stack may
end *below* its start; the next line then pushes there (`Interpret`, `wild`). An unwind that
was swallowed and met nothing since stays pending into the next line.

The runs that may stop (a script exits, undefined behaviour) do not check deadlock.
`UnwindingEnds` assumes weak fairness of `Land` and `Propagate` only: they are
straight-line C code that nothing can suspend.

Two runs end in a counterexample, a disagreement with a comment of the repository
(quoted in `PROJECT.json`, `findings`):

| Run | What happens |
|---|---|
| `catch_return` | `return` in a try body with a catch pops the catch handler, the finally handler outlives the call |
| `break_try` | `break` / `continue` out of a try skip its finally block and leave its handlers |

### Proofs

`UnwindProofs` proves, for all values of the constants (any stack sizes, any
subset of forms and callers):

- `TypeCorrect`: `Spec => []TypeOK`
- `RunsNest`: `Spec => []RunNesting`
- `PendingStaysWhereSwallowed`: `Spec => OnlySwallowedUnwindsStay`

The inductive invariant of the first two is `TypeOK /\ RunNesting` itself: types
need the nesting (a frame to read at `Len(frames)`, a run whose base is below it),
the nesting needs the types (bases are numbers). Its heart is the chain of strictly
growing bases (`RunStack`, kept by `RunPopped` and `RunPushed`): it makes
`frameCount > base` hold again for the caller whenever a `run()` is left. There is
one lemma per action and one per step that several actions share (`SameRun`,
`HardErrorStep`, `RaiseStep`, `ReturnFromRunStep`, `RunLeft` ...). `PendingStaysWhereSwallowed` goes through the
actions: all but `Propagate` into a caller that swallows keep the flag, clear it, or set
it and unwind. The only assumption is `ConstantsAssumption`.

`UnwindHandlers` and `UnwindRefinementProofs` prove the rest, for any stack sizes and, but
for two theorems, for any callers of `run()`. All need `Forms = {}`: what the forms break is
shown by `catch_return` and `break_try` or told under "What the code does not keep". Two
need more (`PlainPrograms`): no caller that swallows, because an exception taken for an
answer goes where no text says and a hard error under it leaves `run()` in a frame that is
gone; and in a REPL no natives with callbacks, because a native that returns after a hard
error pops its temporaries from a stack that is already reset, which a script does not
live to see.

| Theorem | Property | Programs |
|---|---|---|
| `FramesFit` | `StackLayout` | `Forms = {}` |
| `HandlersAreTries` | `HandlersMatchTries` | `Forms = {}` |
| `EveryLineEndsClean` | `LinesEndClean` | `Forms = {}` |
| `EveryFinallyRuns` | `FinallyNotSkipped` | `Forms = {}` |
| `CatchComesFirst` | `CatchNotSkipped` | `Forms = {}` |
| `AlwaysDefined` | `StaysDefined` | `PlainPrograms` |
| `FollowsTheText` | `ImplementsStructuredControl` | `PlainPrograms` |

The inductive invariant is `SafeInv`, with `TypeOK` and `RunNesting` (`SoundInv`). Under
`PlainPrograms` it is joined by `PendInv` (an unwind is pending only in flight) and
`TameInv` (nothing is `wild`, and a REPL line starts at height 0): `AllInv`. While the
program runs, `handlers` is `AllHandlers(frames)`, the concatenation of what every
construct of every frame owns, and each frame starts at the height where the one below
it stops (`FramesOK`). That alone is not kept by every
step, so `FrameOK` and `RestInv` add:

- `WellFormed`: a for-each between two rounds is the innermost construct of its frame,
  and a return that passes through a finally block has no other try to go through
  (otherwise `OP_END_FINALLY` would leave handlers behind);
- `Returning(...) => i - 1 \notin bases`: such a return is in a frame that was not called
  through C, where `OP_END_FINALLY` would pop a cell too many;
- `Waiting(...) => i \notin bases`: a frame that waits for `__next__` has not called
  through C, so a return into it pops the handler of its own for-each;
- `RoundStart`: between two rounds the iterator is the newest local, which is why the
  handler of a for-each may drop one cell;
- after an error the handlers are gone and nothing was pushed since.

Handlers are sequences built by `FlattenSeq`, a recursion. The library's induction
theorem takes an operator, so the lemmas about flattening use induction over a *set*
of numbers (`LeastNumbers!EveryNumber`, from the least number that is not in it), and the
lemmas on prefixes and on the last owner (`CtxUpTo`, `AllUpTo`, `HandlerOnTop`) are all the
other proofs cite. `HandlerOnTop` is the centre: the handler on top belongs to the innermost
construct that owns any, and what is below it is what stays after landing there.

For the refinement this construct has to be the one `StructuredControl` finds in the
text (`TakesOwns`, `HandlerFollowsText`). A throw is then the abstract throw at once
(`Throws`), and `Land` and `Propagate` change nothing the mapping shows. The action
properties follow from the same lemmas: a frame above the base of the `run()` that is
left owns nothing, hence has no finally block to come (`OwnsNoneSettled`).

Two things the proofs brought to light in the models: a push on a full value stack ends
the process inside any try, which `FinallyNotSkipped` has to except and `StructuredControl`
to allow (`Exhaust`); and a try in its body carries no completion yet, which `Construct`
now says.

Liveness (`UnwindingEnds`) is outside the prover's reach.

## Value tables: `Dictionary`, `ValueTable`, `ValueTableRefinement`, `TableIteration`, `ValueTableProofs`

Maps and sets are one hash table (`value_table.c`): linear probing over a power of
two, deletions that leave tombstones, and a rehash into twice the space when
`count`, occupied entries *and* tombstones, would pass three quarters. findEntry
has no bound on its loop: it ends only because some entry is always empty.

### State and actions

| Variable | Code |
|---|---|
| `entries`, `capacity`, `count`, `liveCount` | the fields of `ValueTable` |
| `fresh`, `next` | the array `adjustCapacity` fills and its loop index |
| `pending` | the arguments of the `valueTableSet` in progress |
| `pc` | `idle` between two calls, `rehash` in the loop of `adjustCapacity`, `store` after it, `probing` in a findEntry that never returns |
| `reply` | found or not, and the value |

`Get`, `Delete` and `Clear` are the calls; `valueTableSet` is `Set` (test for room),
`Rehash` (a round of the loop), `Replace` and `Store`. findEntry is an operator: the
probe at distance `d` is `Probe`, the distances at which the loop stops are `Stops`.
If there is none, the step is `ProbeForever`.

`Hash` and `Class` (keys equal by `valuesEqual`) are constants with one assumption,
equal keys have equal hashes. `Hash` is the low 31 bits of `hashValue`: a capacity is
a positive int, so the mask never reaches bit 31, in which alone `0.0` and `-0.0`
differ. Allocation failure and collections inside `ALLOCATE` are left to the
collector.

`Dictionary` is what the table promises. `ValueTableRefinement` maps the array to
the set of its entries, and a call to the step in which it answers.

`TableIteration` adds one walk: a for-each loop (`Iterate`, between rounds the body)
or a native (`Scan`, the callback, `Resume`). Body and callback are the table's own
actions. `lasting` and `visits` are history: which keys have been in the table since
the walk began, and how often each has been handed out.

### Runs

| Run | Shows |
|---|---|
| `value_table` | `TypeOK`, `CountsExact`, `ProbesEnd`, `Findable` (no entry hidden, none doubled), `SizeExact`, `ImplementsDictionary` |
| `table_iteration` | for-each and natives over a table that changes: `EachLastingEntryOnce`, `StoredUnderItsKey`, `ReadsInBounds` |

`MIN_CAPACITY` is 4 instead of 8 and `MAX_CAPACITY` 8: arrays of 4 and 8 entries hold
3 and 6, so a few keys reach the load limit, wrap around, collide in one array and not
in the other, reuse tombstones, and are rehashed by a table that is mostly
tombstones. Two keys are equal (`1` and `1.0`); storing under one replaces the other.
One is NaN, whose entries accumulate because no probe finds them, and fill the table
by themselves (in `value_table`; `table_iteration` has no NaN, whose entries cannot be
told apart by key).

What the iteration run says is what the code guarantees and no more. While no rehash
or clear replaces the array, every key that stays is handed out exactly once and
`map()` stores its result under it. A callback that deletes the entry it was called
for makes `map()` store under nil, and one that causes a rehash under whatever is at
the same index then; even overwriting an existing key can rehash, at the load limit.
`ReadsInBounds` holds only because maps have no `clear()`: the natives that read the
entry again after the callback are methods of maps.

### Proofs

`ValueTableProofs` proves, for every set of keys and values, every hash function that
agrees with equality, every capacity and NaN keys included:

- `TableTypes`, `CountersExact`, `EveryProbeEnds`, `NoEntryHidden`: `TypeOK`,
  `CountsExact`, `ProbesEnd` and `Findable` always hold;
- `TableIsDictionary`: `Spec => ImplementsDictionary`;
- `SizeIsExact`: `Spec => []SizeExact`.

The inductive invariant `IInv` adds to the first three that the array is `Sound`: no
entry lies behind an empty one on the way from the home of its key (`Reachable`), and
no two occupied entries have equal keys (`NoTwoEqual`). Reachability is why findEntry
may give up at the first empty entry (`NotFound`); it survives a deletion because a
tombstone is not empty, and an insertion because findEntry passed no empty entry to
get there (`FindEntryReturns`, `StoreSound`, `DeleteSound`). During a rehash `RehashInv`
says that the new array holds exactly the entries already passed and no tombstone,
so that `Replace` changes the array and not its contents (`AllMoved`). That a probe
stops follows from counting: at most three quarters of the entries are used
(`EmptyEntry`), and a probe looks at every index (`ProbeBijective`).

The assumptions are `ConstantsAssumption` and `HashAssumption`.

`ValueTableProofs` continues with the walks of `TableIteration`: `NativesReadInBounds`
(`ReadsInBounds`), and, if `NaNs = {}`, `LastingEntriesHandedOnce` (`EachLastingEntryOnce`)
and `ResultsUnderTheirKeys` (`StoredUnderItsKey`). `WalkInv` says that among the entries that last, those before the
cursor have been handed out once and those after it have not (`VisitsInv`); it holds
because a key that stays does not move while the array is not replaced
(`StaysInPlace`, where a rehash is seen to take a larger array). Entries are counted
by key, so NaN is excluded: all entries under it would count as one. The bounds need only
that the array of a map never shrinks.

## Compiler and machine: `Compiler`, `Machine`, `Stack`, `Values`, and what they are checked against

This is the whole path of a program, from its tree to the lines it prints.

| Module | What it is |
|---|---|
| `Syntax` | the trees: one constructor for each form the parse functions have a branch for |
| `Compiler` | `compiler.c` and `compiler_stmt.c`: trees to the instructions of functions |
| `Machine` | `vm.c`: one action for each instruction (or group of instructions with one case), and `interpret()` |
| `Stack` | pushing and popping, upvalues, the binding of arguments; what the instructions must keep to |
| `Objects` | the objects of `object.h` that instructions make |
| `Values` | values, integers of `IntBits` bits, the texts of `print` |
| `Meaning` | what a tree means, with no stack, code or handlers: cells in lexical environments, outcomes, completions |
| `Rules` | which programs the language accepts, said on the tree |
| `Transcript` | the abstract specification: lines are shown one after the other and are, at the end, those the program means |
| `Corpus`, `Samples` | the programs; `MCCompiled` joins everything |

`Meaning`, `Rules` and `Transcript` are reference definitions and are not in `map`:
they were written from what the language promises, so that a mistake the code makes
is not repeated in them.

### How the code is followed

A parse function emits instructions and calls the parse functions of its parts. The
operator of the same name in `Compiler` returns, in that order, a sequence of
*pieces*: trees (a parse function called), instructions, jumps to be patched and the
places they are patched to, hidden locals, and changes of the compiler's state that
emit nothing. `AfterPiece`, `Acted` and `ActedOn` say what a piece does to the
compiler; `Compiled`, the only recursion besides the resolution of upvalues, executes
a sequence. What a C function keeps in its local variables (a slot, a loop start, a
list of jumps) is in `kept`, by label. A compiler in progress is the record described
at the head of the module. Jumps hold the index of their target and a constant stands
in its instruction: byte offsets, the limits of 16-bit jumps and of the constant pool,
and `synchronize()` after an error are left out. Nothing after an error is compiled.

`Machine`'s variable `vm` is the C structure: `frames` with `depth`, `stack` with
`top`, where slots above the top keep their old values (an upvalue may still point
there), `upvalues` and the list `open`, `handlers`, `runs` (the activations of `run()`
and what the C caller does with the result: an operator method, a text, or an import),
`pending` (the exception of `pendingUnwind`), the import `cache`, the global tables, all objects, and
`out`. A caller of `run()` in C is a continuation stored with the run it waits for, so
`Operator method throws` or `module fails` go through the same steps as in the code.

Left out of `Machine`: natives written in C (they are in `Unwind`, as a protocol),
type descriptors and their validators, doubles, and the limit of the value stack.
An object keeps its place; when it is freed is `Heap`'s question.

Texts. `OP_STRINGIFY`, `OP_PRINT` and the report of an uncaught exception show an
instance as its `__toString__` says, in a `run()` of its own (`AskInstance`); the run keeps
what is still to be printed (`todo`, `PrintRest`), so that an array is shown element by
element and counted anew after each. A line is a sequence of pieces in `out`, cut where a
call interrupts it. If the method gives no string the class is shown. An exception it does
not catch is swallowed (`Swallow`): the line goes on, the exception stays in `pending`.
What a hard error in it does is not followed (`"wild"`); no program of the run has either.
Error classes, whose `__toString__` is native, are shown by their names, and maps as
`<map>`, their order being the hash table's.

An index is narrowed to half its bits before it is compared (`ToInt`), as `(int)` does.

### Run `compiled`

5,861 programs, each compiled and executed to its end (284,883 states):

- *nest*: each of nine leaves (print, return, throw, break, continue, capture, a fault,
  a call that throws, a tail call) in every pair of constructs: blocks, loops, for-each
  over arrays and instances, switch, match, the five shapes of try, functions, arrows,
  methods, operator methods called by C, and finally bodies (`section`). Excluded are the
  forms listed as `Lost`, and in finally bodies those that leave them or have a local there
  (`OffItsSlot`): a body holds print, throw, faults and calls, and in `if`, nested tries
  with a finally, and arrow functions, of which those may hold anything. See "What the
  code does not keep";
- *call*: lists of parameters (positional, optional, rest, patterns) against lists of
  arguments (positional, spread, named), through functions, methods, bound methods,
  classes and tail calls;
- *operate*, *one*, *update*: every operator on pairs of operands, and on every kind of
  assignment target. Integers have 8 bits, so that every overflow test is reached;
- *sample*: programs for what needs a text of its own: upvalues shared before and after
  they are closed, super calls, modules (circular, failing, not compiling, imported
  twice, imported by each other), `__toString__` in prints, interpolations, nested arrays and
  uncaught exceptions, with methods that print, catch and change the array being printed,
  REPL sessions in which lines fail, programs the compiler rejects, recursion without end and as a tail call.

Bounds: 6 frames, 16 handlers, 16 locals in a function. Frames run out only in the
programs written for it, and `Meaning` counts calls the same way. Handlers and locals
do not run out; what happens when handlers do is checked in `Unwind`.

| Property | Says |
|---|---|
| `ShowsWhatItMeans` | `Transcript!Spec` by refinement: the lines are those of the meaning, a program is rejected exactly when it breaks a rule |
| `StackMatchesLocals` | where a statement starts the stack is as high as the compiler counts, plus two cells for each finally section around it, and no local lies above such cells, where the compiler would look for it two slots too low |
| `UpvaluesOrdered` | the open list is strictly sorted and points into the stack, also after an error has reset it |
| `HandlersLive` | no handler of a frame that has returned, none that would cut the stack above its top |
| `ArgumentsBound` | a function starts with exactly one cell for each parameter |
| `KeepsVariables` | the machine implements `StackSpec` (next chapter): only an assignment writes over a captured variable |
| `LoadedOnce` | a loaded module stays, its globals are never set up again |
| `ComesToItsEnd` | every program ends |

`ComesToItsEnd` needs weak fairness of the machine's steps: `run()` is a loop in one
thread. `MCSpec` states it of a variable `turn` that every such step flips, which TLC
evaluates without executing the step; it is the fairness of `Machine!Spec`.

`optional_rest` is the same composition on programs that leave out an optional
parameter before a rest parameter: `bindCallArgs` then leaves one slot too few, against
the comment above it.

## The stack and the upvalues: `Stack`, `StackProofs`

`Stack` has what `Machine`'s actions are built from: `Push`, `Drop`, `Capture`
(`captureUpvalue`), `CloseUpvalues` (`closeUpvalues`), `BindCallArgs` and so on, as
operators on the record `vm`. The walk of the open list is `FirstBelow`, the first place
whose slot is low enough.

`StackSpec` is what closures rely on, said of those four fields alone. A step is

- `Move`: pushing and popping that neither gives up nor overwrites a captured slot;
- `AssignSlot`, `AssignClosed`: one variable gets a value;
- `Close`: the upvalues from some slot up are closed, *then* the stack may be cut to it
  and a result pushed (end of a scope, return, tail call, landing of a throw);
- `CaptureSlots`: a closure captures any slots in any order (`OP_CLOSURE`);
- `Reset`: `resetStack` drops the list and closes nothing.

That compiled programs keep to it is `KeepsVariables`, checked by run `compiled` on every
step of all programs. A return that closes one slot too few (`BugReturnFrom`) breaks it.
What follows from it is proved, for stacks and lists of any size and any sequence of steps:

- `ListInvariant`, `UpvaluesInOrder`: the open list stays strictly sorted, without a slot
  twice, within the stack (`UpvaluesOrdered`, which the run checks as well);
- `OnlyAssignmentChanges` (`VariablesKept`): a closed upvalue stays closed, and a step
  changes the value of one captured variable at most, and then neither the height of the
  stack nor the list. Closing, returning, capturing and pushing change none. The
  upvalues `resetStack` left behind are excepted (`Live`);
- `ClosuresShare`: captured again, a slot gives the same upvalue and the list stays as it is;
- `ArgumentSlots`: `bindCallArgs` for any function and any number of arguments. It goes on
  exactly if the arguments suffice and fit, leaves the callee and the arguments where they
  are, fills what is left out with `Missing`, and ends with one cell for each
  parameter *unless* there is a rest parameter and an optional one before it is left out.
  That exception is what `optional_rest` shows.

The inductive invariant is `Listed`: the list in order and within the stack, and upvalues
of the right shape. Order is what the walk needs (`WalkEnds`: everything before the place
where it stops is above the slot, everything from there on below), and what inserting
there and cutting there keep (`Captures`, `Closes`). `CaptureSlots` is a recursion over the
slots, taken apart by induction over a set of numbers (`CapturedListed`). That no value
changes needs one more thing than the order: each slot is listed once, so that what is
assigned through one upvalue is not seen through another.

What stays with TLC here is that the instructions keep to `StackSpec`: it depends on what the
compiler emits. `AssignSlot` does not tell a statement's assignment from the store with
which a match expression delivers its result (`compiler.c:236`, see "What the code does not
keep").

## Objects: `Heap`, `HeapProofs`

A C routine that allocates is a sequence of steps (`at`), and a collection can start
before any of them (`Collect`). The collector is four actions: `Trace` (one object),
`StartSweep` (which first drops unreached strings from the table), `Sweep` (one object)
and `EndCollection`. Fields are those of `object.h` (`Fields`); which of them
`blackenObject` marks is written down separately (`Blackened`), from `memory.c`. The
string table is probed with tombstones and grows entry by entry; the routines are
`copyString`, the constructors, storing into a container, capturing and closing
upvalues, reading and dropping.

`NothingDangles`: what the program or the routine in progress can reach is allocated.
`Interned`: a string is found again under its text, whatever died on the way of the
probe. `FreesAllGarbage`: an object left marked would be skipped by the next
collection. `CollectionEnds` holds by weak fairness of the collector alone, which is
straight C code.

Three addresses, a stack of two and two texts whose probes collide are enough for a
cycle, for a string dying while another enters the table, for a table that grows
over a tombstone, and for an upvalue closed while its closure waits. The run may stop
when no address is free, so it does not check deadlock.

`Appends` says how a value is stored: `"guarded"`, on the stack until it is stored, or
`"popped"` first, as `OP_ARRAY_APPEND` and `OP_SPREAD_ARRAY` (`vm.c:2134`) and some natives
(`builtins.c:483`) do before they grow the container. The run has both. A popped value may be
freed in between, which `NothingDangles` allows, and of nothing else; the model does not
follow the store of a freed value. The run has 247,380 states.

`HeapProofs` proves `OnlyThePoppedAreLost`, `Spec => []NothingDangles`, for every set of
addresses, texts, hashes, types of container and both ways of storing. `IInv` adds to the types that while marking, the roots are marked and a
marked object that is not gray has marked children (`PhaseInv`); that while sweeping,
the marked and the already swept objects (`Alive`) contain the roots and are closed
(`AliveInv`); and what the routine in progress holds is allocated. There is one lemma
for each action, and `RoutineMustKeep` reduces those of the routines to what happens
outside a collection. `AllFieldsMarked` is where `blackenObject` and `object.h` meet.

`AllGarbageFreed` is the converse, `FreesAllGarbage`: while marking and sweeping, what is
marked is reachable (`NeededInv`), since an object is marked from the roots or from a
field of a marked one and the program does not run in between.

It also proves `EqualStringsAreOne`, `Spec => []Interned`, for every hash function. `InternInv` says that every live string is in
the table once, at an index a probe from its home reaches over used entries and
tombstones; that a string being interned is on the stack and not in the table; and that
while the table grows the new array holds the strings of the entries passed
(`MoveInv`). A collection may drop strings at any of these points: it turns their entries
into tombstones, which no probe stops at.

`CollectionEnds` is liveness and only model-checked.

## Regular expressions: `Regex`, `Backtracking`, `RegexSearch`, `RegexSearchProofs`

`Regex` follows `regex_engine.c`: the recursive descent over tokens (a class, or the
opening of a group, is one token), the nodes it builds, the matcher with its
special treatment of quantifiers (`matchRepeatBT`, the concatenation whose left side is
optional), captures and the search. `RegexSearch` has the natives that call it: `find`,
`findAll`, `replace`, `replaceAll` and `split`, one step per call of `regexExec`, with the
match it returns as a parameter. `Backtracking` says what a pattern means: the list of all
ways it can match, in the order of preference.

`regex` asks every pattern of up to four tokens (up to five for `find`) on every text of
up to two or three characters, every combination of flags over borders and lines, and
some longer patterns with named groups. `ParsesThePattern` says the tree is the only
one with the usual precedence that reads as the pattern does, and that exactly the
well-formed patterns are accepted. `MatchIsAWay` and `MovesOn` hold for every pattern;
`BacktracksWhereTried` and `EveryMatchOnce` for those whose choices the engine tries in
full (`ChoicesTried`). `ReplacingByItself` is about matches without characters; `EveryMatchOnce` asks `findAll` and
`split` only for matches with characters, for the reasons in the table below.
The limits `MAX_REPEAT` and `MAX_DEPTH` are those of the code and are not reached;
`MAX_REGEX_GROUPS` is 2. `SearchEnds` assumes that the native runs.

`unmatched_group` shows a group that has no part in the match and still reports
characters, against a test of the repository.

`SearchSpec` is the natives with a matcher of which only this is known: a match lies in the
text and not before the place it was looked for, and so do its captures (`InText`).
`StaysInText` says that the engine is such a matcher; the run checks it, since the engine
is recursive over patterns. `RegexSearchProofs` proves the loops for any such
matcher, hence for patterns and texts of any size:

- `ReplacingKeepsText`: `SearchSpec => []ReplacingByItself`;
- `FoundInOrder`: what `findAll` returns is in the order of the text, without overlaps, and
  no longer than the text has places (`MatchesInOrder`);
- `SearchesMoveOn`: `SearchSpec => MovesOn`.

The inductive invariant says where the loop stands (`PlaceInv`), that `replaceAll` has
written exactly the text up to `copied` and that `copied` is where the next search starts,
or the end of the text when the last match was empty there (`WrittenInv`), and that
`findAll` has at most one match for each place passed, all of which end before it
(`OrderInv`).

## What the code does not keep

The passing runs leave out what the following sentences say, by the constants or sets of
programs named, or their properties allow it.
The first four are also runs that end in a counterexample.

| What | Left out, or allowed, by | Run |
|---|---|---|
| `return` in a try with a catch leaves the finally handler behind | `Forms`, `Lost` | `catch_return` |
| `break` and `continue` do not run the finally block they leave | `Forms`, `Lost` | `break_try` |
| an optional parameter missing before a rest parameter | not in `CallPrograms` | `optional_rest` |
| a group given up keeps what it captured | `ChoicesTried` | `unmatched_group` |
| `return` in nested tries runs the inner finally block only; inside a finally block its jump is never patched (`nestedReturn`, `finallyReturn`) | `Forms`, `Lost` | |
| a callback that returns out of a try leaves the height of the native's stack wrong (`callbackReturn`) | `Forms`, `Lost` | |
| an exception in the validator of a type pattern, or in `__toString__`, is taken for an answer: execution goes on with it pending, and a later `==` or failed dispatch throws it (`vm.c:352`, `:1511`) | `Calls` of `unwind_script`, not in `Samples`; `OnlySwallowedUnwindsStay` allows it | |
| a hard error in either leaves `run()` in a frame that is gone; the report of an uncaught instance whose `__toString__` fails is made twice (`vm.c:205`) | `Calls` of `unwind_script`, not in `Samples`; `LinesEndClean` is about lines that end | |
| after a hard error, a native pops its temporaries from a stack already reset: in a REPL the next line starts below the stack (`builtins.c:443`) | `LinesEndClean` allows it | |
| a value popped before the array or map that stores it grows may be freed (`vm.c:2134`, `:2140`, `builtins.c:483`) | `NothingDangles` allows it | |
| a local, for-each, catch, switch or match in a finally body is addressed two slots too low: the compiler does not count the completion below it (`compiler_stmt.c:1236`) | `OffItsSlot`; `StackMatchesLocals` fails without it | |
| a module that failed keeps its loading mark: a later import calls it circular (`vm.c:1314`) | not in `Samples` | |
| an index is narrowed to `int`: 2^32 is taken for 0 (`vm.c:1176`, `:1230`) | not in `Corpus`, `Samples` | |
| `findAll` returns an empty match found further on than it looked twice (`builtins.c:3901`), `split` drops characters at empty matches (`builtins.c:4071`) | `EveryMatchOnce` | |
| a choice inside the left side of a concatenation is not taken back, so some matches are missed | `ChoicesTried` | |
| a closure over the first variable of a match arm sees the result of the arm | not in `Samples` | |
| `super.m(...xs)`: the mark of a spread is taken for 255 arguments (`vm.c:2093`) | not in `CallPrograms` | |
| a match expression under a temporary takes the wrong slot for its scrutinee | not in `Samples` | |

## Proved and model-checked

| Proved for all constants | Only model-checked |
|---|---|
| `Unwind`: every invariant and action property of its runs, and that it implements `StructuredControl` | `UnwindingEnds` |
| `ValueTable`: all invariants, and that it implements `Dictionary` | |
| `TableIteration`: all invariants | |
| `Heap`: `NothingDangles`, `Interned`, `FreesAllGarbage` | `CollectionEnds` |
| `Stack`: the open list, captured variables, `bindCallArgs` | that the machine implements `StackSpec` (`KeepsVariables`) |
| `RegexSearch`: the loops of the natives, with any matcher that keeps to the text | that the engine does (`StaysInText`), `SearchEnds` |
| | `ParsesThePattern`, `MatchIsAWay`, `BacktracksWhereTried`, `EveryMatchOnce`: the engine and `Backtracking` are recursive over patterns |
| | `ShowsWhatItMeans`, `StackMatchesLocals`, `HandlersLive`, `ArgumentsBound` on whole programs, `LoadedOnce`, `ComesToItsEnd`: `Compiler` and `Machine` are recursive over trees and code, which the provers cannot induct over |

Assumptions on the constants, besides the named `ASSUME`s: `Forms = {}` for the seven
theorems of `UnwindHandlers` and `UnwindRefinementProofs`, for two of them
`PlainPrograms`, and `NaNs = {}` for the two theorems on walks. In each case the table
above, or a sentence of the chapter, says what the code does without it.

Liveness under fairness is out of the prover's reach and stays with TLC.

## Plan

Done: control transfer, value tables and iteration, the collector with interning,
compiler and machine with scopes, upvalues, arguments, imports and integers, regular
expressions; the proofs of everything that is not recursive over data. Left:

1. Array natives with callbacks that change the array (sort, map, reduce).
2. Type descriptors and their validators in `Machine`.
3. `HandlersLive` as a discipline of its own, as `StackSpec` is for upvalues: handlers
   of the machine on compiled code. `HandlersAreTries` proves it of `Unwind`.

## Not modelled

- *Scanner*: programs are trees here. Its state is a position and the depth of
  interpolations; `Compiler`'s look-ahead (arrow functions, named arguments) is a
  scan that is undone.
- *JSON, text encodings*: recursive descent and byte formats over characters, with no
  state across calls.
- *Builtin library*: sequential computations on strings, numbers and dates, and calls of
  the operating system.
- *Doubles*: integers that meet doubles, and the equality and hash of both.
- *takeString, tableDelete*, and byte counts that decide when a collection starts.
- *Reading the input*: when the REPL takes a line for complete, how a module's file is
  found.
- *Disassembler*: output for debugging.
