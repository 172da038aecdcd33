# A TLA+ development of the Pynter VM

Pynter is a bytecode virtual machine for Python §3 programs, written in C for
devices with little memory. It runs one program at a time, in one thread, on a
heap of fixed size with reference counts and a mark-and-sweep collector, and on
one array for operands and frames. This directory holds TLA+ models of it, the
TLC configurations that check them, and proofs for TLAPS.

Everything is translated from the C sources under `src/`; `PROJECT.json` maps
each definition to its lines. A finding is a place where the code and what its
comments, assertions or documents say of it disagree.

## 1. The system

| Part | Source | State | Operations |
|---|---|---|---|
| Heap blocks | `heap.h`, `memory.c` | the heap array; per block `prev_node`, `size`, `type`; free list | `siheap_init`, `siheap_malloc` (find, split), `siheap_mfree_inner`, `siheap_mrealloc` |
| Reference counts and collector | `heap.h`, `memory.c`, `heap_obj.h` | `refcount`, `flag_marked`, `flag_destroying` | `siheap_ref`, `siheap_deref`, `siheap_mdestroy`, `siheap_mark`, `siheap_sweep` |
| Operand stack and frames | `stack.h` | `sistack`, `sistack_bottom/limit/top` | `sistack_push/pop/new/destroy` |
| Main loop | `vm.c`, `opcode.h`, `program.h` | `sistate` (`pc`, `env`, `program`, `running`) | one case per opcode; `siexec`; `sistop` |
| Values | `nanbox.h` | none (a 64-bit NaN-box; 32 bits with `PYNTER_NANBOX32`, as on AVR) | packing and unpacking, `NANBOX_WRAP_INT` |
| Heap objects | `heap_obj.h` | environments, arrays, strings, functions, continuations, iterators, frames | `*_new`, `*_get`, `*_put`, destructors |
| Strings | `heap_obj.h`, `memory.c:196-293`, `vm.c:219-283` | constants, pairs of strings, texts; a pair is flattened in place when it is read | `sistrpair_new`, `sistrpair_flatten`, `op_add_g`, comparisons, subscripts, `str`, `repr` |
| Library | `primitives.c` | none of its own | 135 functions; some run closures through `siexec` and continuations |
| Life cycle | `main.c`, `fault.c` | the handlers, the fault and its `jmp_buf` | `pynter_run`, `pynter_stop`, `pynter_setup_heap`, `sifault` |
| Display | `display.h`, `primitives.c:45-61, 295-449` | `flag_displayed` of arrays | `print`, `error`, `print_llist`: a text piece by piece, then a flush |
| Runner, devices | `runner/`, `devices/` | `display_buf`, its index, `display_buf_fragmented`; the embedder's functions | read a program, run it, print; WebAssembly, ESP32, EV3, Arduino |
| Debugging aids | `debug*.c` | none | traces, `debug_memorycheck` |

**How the parts interact.** `pynter_run` resets heap and stack and calls `siexec`
on the entry function. The main loop executes instructions; one that needs
memory calls `siheap_malloc`, which may run the collector, which looks for
references in two places only: the entries below `sistack_top`, and
`sistate.env`. Overwriting or popping a reference calls `siheap_deref`, which
may run destructors, nested as deep as the data. A call instruction moves
references from the operand stack to an environment and pushes a frame. A
library function that takes a function calls `siexec`, which runs another main
loop inside the C function. A fault leaves all of them with `longjmp`, and the
next run starts from nothing. `pynter_stop` is the only thing that happens
asynchronously (an interrupt handler or another thread).

**What is hard.**

- Blocks are merged and split under the feet of whoever walks over them: the
  sweep frees blocks and their neighbours while it stands on one. It may free the
  very block that is being moved.
- Destructors free objects inside destructors, inside assignments, and inside
  the sweep, in cycles. The elements of an array are in a block of their own, which the
  sweep may reach before the array.
- A collection may happen at any allocation, also between two allocations of one
  instruction, when C variables hold objects that no root leads to.
- Calls, tail calls, library calls and nested main loops share one stack and are
  undone in any order that the program likes.
- Library functions run functions of the program in the middle of a list or
  stream, holding references in C variables; a stream is a chain of
  continuations, each of which owns what it needs for the next element.
- A string is changed in place by whoever reads it first, while others share it.
- The state of the runner's buffer outlives the line.
- Everything is finite: heap, stack, 16-bit counts, 32-bit integers, the display
  buffer.

**What correctness means.**

- *Blocks*: they tile the heap, the back pointers and the free list agree with
  them, free neighbours are merged; a request fails only if no gap is large
  enough; a block that moves keeps its data; a search ends.
- *Counts and collector*: counts tally with references; nothing that the program
  can reach is freed, and after a collection nothing else is left; destructors,
  marking and sweep end.
- *Calls*: a caller finds its operands, environment and place again; the
  arguments arrive; a main loop ends with the function it was started for; a
  return finds room for its result; the stack array is not overrun.
- *Numbers*: Python's results, and no overflow in C on the way to them.
- *Life cycle*: a stop ends the run, starts nothing more, and does not reach
  the next run.
- *Lists and streams*: functions give Python's results, run the program's
  functions on the right elements, in order, and as often as the definition says
  (those of a stream only when an element is asked for); they
  use nothing that has been freed and give back every reference once.
- *Strings*: a sum has the text of its parts, whoever reads which part
  first; subscripts count code points; order is that of the code points.
- *Display*: what the program prints arrives, as one line.

## 2. Modules

| Module | Models | Composed of |
|---|---|---|
| `HeapBlocks` | a heap as one value, and the routines of `heap.h` as functions on it | |
| `Allocator` | `siheap_malloc`, `mfree`, `mrealloc` and the sweep's walk, step by step | extends `HeapBlocks` |
| `Arena` | what an allocator promises: disjoint extents, refusals only when nothing fits | implemented by `Allocator` |
| `RefHeap` | reference counts, destructors, marking, sweep, and what instructions do with references | |
| `ObjectGraph` | what the heap promises: a graph of objects in a memory without end | implemented by `RefHeap` |
| `CallStack` | operand stack, frames, calls, returns, `siexec` | |
| `Calls` | what calls promise: a stack of activations | implemented by `CallStack` |
| `CallRooting` | one call instruction, allocation by allocation, with the collector in between | |
| `Numbers` | the integer arithmetic of instructions and library functions | |
| `Stopping` | the life of a run, with `pynter_stop` at any moment | |
| `CStrings` | `strlen` and `strcmp` on sequences of bytes | |
| `Cells` | objects with their counts, arrays, equality, `debug_memorycheck`, as operators on a machine | extends `CStrings` |
| `Library` | the functions on pairs, lists and streams, and `siexec_nanbox` | extends `Cells` |
| `LibraryMeaning` | what these functions promise, without memory | extends `Cells` |
| `LibraryCalls` | a program that calls them, one after the other | `Library` against `LibraryMeaning` |
| `Strings` | string objects, flattening, and the instructions and functions on strings | extends `Cells` |
| `Display` | the pieces that `print`, `error`, `print_llist` hand to the host | extends `Strings` |
| `Runner` | the printer of the command line runner: its buffer, fragments and flushes | extends `CStrings` |
| `Printing` | a program that makes, compares and prints strings and lists | `Display` and `Runner`, by joint actions |
| `HeapBlocks_proof`, `Allocator_proof` | theorems about the allocator | `Allocator` implements `Arena` |
| `RefHeap_proof` | theorems about counts, destructors and the collector | `RefHeap` implements `ObjectGraph` |
| `Stopping_proof` | theorems about the life of a run | |
| `CallStack_proof` | theorems about frames, stretches and nested main loops | |
| `CallStackCalls_proof` | the refinement | `CallStack` implements `Calls` |
| `Numbers_proof` | theorems about integer instructions and functions | |
| `Runner_proof` | theorems about the printer | |
| `MC...` | definitions for TLC | |

The heap is modelled twice, at two grains. `Allocator` knows sizes and addresses
and takes what the collector marked as an input; `RefHeap` knows references and
takes an address as a number. They meet in `siheap_mfree` (`Free` there,
`DestroyEnd` here) and in the sweep: `SweepExact` of `Allocator` says that the
sweep frees what is unmarked whatever the marks, and `MarksReachable` of
`RefHeap` says which marks these are.

### HeapBlocks and Allocator

`heap` is a record: `starts`, the addresses of the blocks; `size`; `prev`
(`prev_node`); `used` (type other than `sitype_free`); `first`, `nf`, `pf`, the
free list. A unit stands for 8 bytes of address space. The C code writes through
pointers; here `MallocSplit`, `MFreeInner` (its four cases: both neighbours
free, the one before, the one after, none) and `GrowInPlace` give the heap after
the call. The walk over the free list (`FindStep`, `FindHit`, `FindMiss`) and
the sweep (`SweepKeep`, `SweepFree`, `SweepDestroy`, `SweepEnd`) are steps of
`Allocator`, since their cursor stays across changes of the heap. `SweepDestroy` is what
destructors do to the walk: they free unmarked blocks ahead of it. (A block
behind the cursor was kept; its count cannot become zero by references from
garbage, which `RefHeap` shows.)

What the collector marks is any set of used blocks, and so need not contain the one
that `siheap_mrealloc` holds: `stream_reverse` (`primitives.c:2324-2335`) has its array
in a C variable only, since `siheap_intref` is for debug builds. When the sweep frees that
block, `lost` is set, and when the search then succeeds, the code frees the block a second
time (`memory.c:348`). This is `FreeTwice`; the model ends there, in the mode `"broken"`
(until the next run, which starts with an empty heap), since what a heap with a ring in
its free list does next is not the specification of anything. Section 6 has the finding.

### RefHeap

A location is a root (an entry of the stack, `sistate.env`) or a field of an
object; `ref` says what it refers to. Objects have one shape, `Fields`; the
destructors of `memory.c` differ only in how many fields they have and take them
in order. Any object may be an array. Its elements are in a block of their own
(`sitype_array_data`), which the sweep may free before the array; the two words that
link a free block then lie over `data[0]` and `data[1]`, the fields `Overlaid`. The step
`Overwrite` takes such an element away from the destructor that would have given it up:
the count of what it referred to stays one too high. `missed` is the history of these.
`destroying` is the C stack of destructors, `left` the fields that each
has still to dereference, `put` and `value` an assignment in progress (the old
value is dereferenced before the new one is stored). The program's actions are
what instructions do with references: `New`, `Load` (copy, one more count),
`Move` (no change of count), `Pop`, `Put`; `Collect` stands for an allocation that found no
block.

### CallStack and Calls

The code that runs is arbitrary: `Operate`, `Branch` and `Scope` stand for
all instructions that are not calls, by what they take from and leave on
the stack. `Call`, `CallInternal`, `Ret`, `InternalReturn`, `Siexec`,
`SiexecEnd` and `Run` are the code of the call and return instructions,
`do_internal_function`, `siexec` and `pynter_run`. `cstack` is the C stack:
internal functions in progress and main loops they started. `Calls` has neither
frames nor stack pointers nor nested loops; the refinement mapping
(`ActivationView`) reads each activation out of the frame above it and the
`siexec` that waits for it.

### CallRooting

The objects of one scene (environments of the caller and below, the closure, an
argument), the roots, and `held`: what C variables hold and the code will use
again. Each allocation may collect what no root leads to.

### Numbers

A job is one instruction or library function with its arguments; loops are taken
one iteration a step. The ranges of `int32_t`, `int64_t`, of NaN-boxed integers
and of integers that a `double` represents exactly are parameters, as are the
jobs. Floats are not modelled: a result that leaves the integers is either
`FLOAT` or the exact integer.

### Stopping

`pynter_stop` is called "by an external kill/interrupt hook" and clears
`sistate` while the VM is in the middle of an instruction. `Stopping` therefore
takes the VM from one access to these registers to the next: the test of
`running`, the fetch through `pc`, the instruction's reads of `pc` and `env`,
the assignments in a call, in a return and in `siexec`. `at` is the place in the
code, `loops` the nested main loops with the number of frames of each and what
`siexec` saved. A pointer is NULL or not. The handler is one step: it runs to its end
before the VM goes on, as an interrupt does. `pynter_run` itself is taken
one assignment at a time (`Run`, `ResetReason`, `LoadProgram`, `SetRunning`, `Clear`): each
of them may undo what a stop has just done. `Library` is a library function at work, which calls
functions of the program, faults, returns, or does not. Where the VM reads through NULL (`Astray`) the
C program is undefined; the model takes the outcome that devices with memory protection
have, a crash and a restart, after which the next run starts. What
`CallStack` knows of operands and arguments is left out.

A debug build compares `pc` with `program_end` before the fetch, and faults
where a release build reads through NULL; `Fetch` has both outcomes.

### Cells, Library, LibraryMeaning, LibraryCalls

A library function is one C function, and nothing happens between its statements
but what it does itself. So it is an operator on a machine `m`: the objects with
their counts, what the stack holds, the value returned, whether there was a fault,
whether a freed object was used (`stale`), and what functions of the program
have seen (`log`). A C statement after another is `Then`. `siexec_nanbox` and the
continuations make these operators recursive. References are given up as in
the code, by destructors that free objects at once, so a missing
`siheap_refbox` shows as `stale`, and a missing `siheap_derefbox` in the tally.

`Closure` is a function of the program. There are five: `same`, `tag`, `isOne`,
`cons`, and `later`, which returns a stream that it was made with; each is logged
with its arguments, and runs `debug_memorycheck` as each instruction does
in a debug build. `Executed` is the call of a library function by an instruction.

`LibraryMeaning` has no memory. A stream is a script: its elements, what runs to
get each of them, and how it ends. `stream_map` maps scripts to scripts; `map` is
the same with everything run at once. A function without a result means `Nothing`.
`LibraryCalls` keeps in `meaning` what each variable of the program stands for, and
compares. Its program also changes pairs (`Mutate`): `set_head` and
`set_tail` on a pair that several lists share change the meaning of all of them
(`SharedByLists`, `Changed`).

### Strings, Display, Runner, Printing

`Strings` is written the same way. A text is a sequence of bytes (`CString` cuts
it at a NUL, as `strcmp` and `strlen` do); words that the C code spells out, such
as `None`, are one symbol. `sistrpair_flatten` changes the object in place.
`Display` appends the pieces of a line to `m.log`.

`Runner` is a specification of its own: `display` is the static state of `runner.c`
and the messages of the line, `line` what was to be printed. A step is a call of
`pynter_printer_string` (`PrintPiece`), one of `pynter_printer_flush` (`EndLine`), or a
new process (`Restart`). A piece is any text without a NUL. Pieces between two
flushes have the same type (the guard of `PrintPiece` and `EndLine`), as the library
functions flush before they return; the run `printing`, which checks for deadlock,
shows that this never keeps a piece from being printed.

`Printing` composes them with a program. A step that prints leaves its pieces in
`queue`, from where `HandPiece` and `HandFlush` hand them to the runner, each together with
a step of `Runner`; no other step of `Printing` but a new run changes `display` and
`line`, so its behaviours satisfy `RunnerSpec`, and what is proved of that holds of them.
`meaning` and `lists` are what Python says: texts of code points, and lists with an
identity, which may contain themselves.

## 3. What the runs check

Passing runs, with their state spaces:

| Run | Instance | Properties | States |
|---|---|---|---|
| `allocator` | heap of 20 units, smallest block 4, requests 3, 5, 9 | `TypeOK`, `HeapOK`, `SweepExact`, `ImplementsArena`, `SearchEnds` | 51 705 |
| `refheap` | 3 objects of 2 fields, 2 roots, one overwritten reference to each object | `TypeOK`, `RefcountExact`, `NoDangling`, `MarksReachable`, `NoOrphan`, `CollectionComplete` | 4 157 272 |
| `refheap_graph` | 3 objects of 1 field, 2 roots | `ImplementsGraph`, `Settles` | 15 619 |
| `callstack` | `main` and `f` of one argument, internal functions and numbers as values, 3 frames | `TypeOK`, `Stretches`, `LoopsMatchFrames`, `Limits` | 1 695 672 |
| `call_scopes` | `main` and `h` (a parameter and a rest), up to 2 arguments, one block scope, 2 frames | `ImplementsCalls` | 127 499 |
| `numbers` | `int32_t` of 4 bits, `int64_t` of 8 | `DivModExact`, `SubscriptExact`, `GcdLcmExact`, `IsqrtExact`, `CombExact`, `NoOverflow`, `RangeExact`, `LoopsEnd` | 100 623 |
| `stopping` | 2 stops, 3 main loops deep, 2 frames in each, any number of runs | `TypeOK`, `Undisturbed`, `NothingStarts`, `StopEnds` | 7 997 |
| `library` | 3 calls of any list or stream function, 2 results kept | `ContentsExact`, `AsDefined`, `NoStale`, `Tallies` | 55 648 |
| `printing` | 4 steps, 2 results kept, a buffer of 6 bytes | `TextsExact`, `HeapChecks`, `AnswersExact`, `Delivered`, `WithinBuffer` | 152 802 |

Runs in which TLC finds the property violated by what the code does:

| Run | Property | What happens |
|---|---|---|
| `allocator_move` | `MoveKeepsData` | `siheap_mrealloc`, when it frees first, overwrites data that it has still to move |
| `call_rooting` | `NothingLost` | a collection during a call takes the caller's environment |
| `display_lost` | `WholeLines` | a line longer than the buffer loses its end; `print()` sends the previous line again |

What the less obvious properties say:

- `HeapOK` is the invariant that every routine of `heap.h` relies on; one stale
  `prev_node` breaks it, and shows in the program many operations later. It holds
  until a block is freed twice (`FreeTwice`).
- `ImplementsArena` gives it a meaning for the caller: extents never overlap, and
  a request is refused only when, after a collection, no gap is large enough.
  This needs merging to be complete and every free block to be on the list. The one
  step that is none of an arena's is `FreeTwice`, and the property names it.
- `SweepExact`: the sweep's cursor never falls inside a block that was merged
  under it, and every unmarked block behind it is gone.
- `RefcountExact`: a count is the number of references, counting what destructors
  have not yet given up, plus those that the sweep has overwritten (`missed`). It holds also inside
  destructors and assignments, for all objects not being destroyed. So a count is never too
  low, and the sweep of array data is the only reason for one that is too high.
  `debug_memorycheck` wants the counts without this term; that is `CountsTally` (section 6).
- `MarksReachable`, `CollectionComplete` and `NoOrphan` together: the collector
  frees exactly what the program cannot reach, and between collections the only
  garbage is cyclic, or an object whose count the sweep has left too high.
- `ImplementsGraph`: no collection, destructor or reuse of an address shows in
  what the program can read.
- `Stretches` says that the frames partition the stack array. `LoopsMatchFrames`
  says that nested main loops and frames made by `siexec` correspond one to
  one, whatever mix of tail calls led there. `Limits` says that the one entry by
  which `siexec` raises the limit is enough, and taken back.
- `Undisturbed`, `NothingStarts` and `StopEnds` say what a stop does: nothing to
  a later run; no instruction is started after it, although main loops that it
  cut short return into `siexec` and library functions, which put old
  values of `pc` and `env` back; and the run ends, whatever the instruction in
  progress makes of `pc`, unless a library function goes on for ever. A stop that comes
  before `pynter_run` has set `running` is not among these: it is lost (section 6). What they do not say is *how* the run ends: with
  the fault `stopped`, by reading through NULL, or as if it had succeeded
  (section 6).
- `ContentsExact` looks at every variable after every call, not only at the
  result: what one call shares with its arguments, the next may change or free. A
  stream is watched: its tails are run on a copy of the machine, and must give the
  elements and run the functions that its script says. `Tallies` says that doing
  so leaves no trace.
  It says nothing of whether a function without a result returns `None` or `undefined`:
  `NothingIsNone` does (section 6).
- `AsDefined` says what is run and when: `stream_map` runs its function for the
  first element only, `stream_filter` as far as the first that it keeps.
- `TextsExact` holds whichever string was flattened first; `HeapChecks` has the
  checks of `debug_memorycheck.c:193-237`, of which the one that a flattened pair
  has a text of the right size is the interesting one.
- `AnswersExact` says, of a step that prints, that what it hands to the runner is the
  text that is due: of a value that is no list, Python's; of a list, one after `display.h`, which
  shows strings in it without quotes and `...<circular>` for a list within itself, and not
  Python's.
- `Delivered` says of a line that it arrives in order, with its type, and that its last
  message, and no other, ends it; if it fits the buffer it is whole, and if it is longer
  it lacks less than a buffer at its end. It is what the code does; `WholeLines` says
  what `print` promises, and does not hold.
- `RangeExact` and `LoopsEnd` exclude ranges whose step from the last value
  leaves `int32_t`, and so say nothing of what happens when it does; `RangeInside` does
  (section 6).

`mutants` in `PROJECT.json` names, for each property, a change of the model like
a plausible bug, with which TLC finds the property violated. The operators with
a suffix (`FreePush_Unlinked`) are these changes; no specification uses them.

## 4. Bounds

- *Heap of 20 units.* Up to five blocks. All four cases of `siheap_mfree_inner`,
  split or take all, growth in place and movement with and without freeing
  first, and refusal by fragmentation need at most five (a block to free, two free
  neighbours, two used ones that stop the merging). Request 3 is below the
  smallest block, 5 cannot be split off a block of 8, 9 asks for more than two
  small blocks. The proofs cover all sizes.
- *The run `allocator_move`* uses 34 units and requests 6 and 10, the smallest
  sizes with the proportions of the code's structures.
- *Three objects.* Enough for a cycle of two referred to by garbage, for a
  destructor inside a destructor inside the sweep, and for an object referred to
  from both. Two fields give it two references to one object. The first of them
  is `Overlaid`, so that the other is an element that is given up as ever; `MaxMissed = 1`
  overwritten reference to each object is enough for an orphan, and for one that refers to
  another. The roots are
  interchangeable, and reduced by symmetry where only safety is checked.
  `RcMod` is 100, out of reach: the runs are about programs that hold fewer than
  65536 references to an object (see section 6).
- *Three frames* (`MaxFrames`): main, a function, and one called by it or by a library function
  that it called, and so calls after returns of all kinds. `Last = 1`: two
  instructions are enough, as `Branch` may go back. `MaxScope`, `MaxArgs` bound
  the scopes and the arguments.
- *Words of 4 bits.* All pairs of divisors, all triples for gcd and lcm, which
  overflow as the real ones do; `ExactMax` stands for 2^53 and lies between the
  two integer types, as it does in the default layout. (On AVR a `double` is a `float`,
  `vm.c:339-342`, and exact up to 2^24 only.) `MaxOut` bounds the recorded
  values of a range.
- *Two stops, three main loops, two frames in each* (`MaxStops`, `MaxLoops`,
  `MaxFrames`): one stop in a run and one in the next, or two in one; a stop in
  a loop inside a loop inside a loop; a return to a frame of the same
  loop and one that leaves it. The number of runs has no bound.

- *Three calls, two results* (`MaxCalls`, `Size`): one call makes a list or a
  stream, one a second or derives one from it, and the third combines, forces,
  changes or gives up. `MCLists` has equal elements, elements that are equal but
  not identical (`True` and 1), and a string, whose count shows; `MaxLen = 4`
  bounds what `append` makes. `Horizon = 3` elements are known of an endless
  stream. `FirstSize = 1` (4 in the code) makes the array of `stream_reverse` grow at
  its second element.
- *Four steps, a buffer of six bytes* (`MaxSteps`, `BufSize`): two constants,
  a sum or a list of them, and a line; two lines with one kept in between. The
  texts are empty, one byte, and a code point of two bytes followed by a quote,
  so that lines end before, at and after the boundary of the buffer, pieces
  fit it but for the NUL, and are longer than it (`repr` of a sum). `Wide` stands
  for 2^32 (2^16 with small pointers) and is out of reach.

## 5. Fairness

- `Allocator!Fairness`: the walk and the sweep are loops in C functions that
  nothing interrupts.
- `RefHeap!FairSpec`: `Memory`, that is destructors, marking, sweep and the end of an
  assignment, runs to its end inside one instruction. The program itself has no
  fairness.
- `Stopping!Spec`: weak fairness of `VM`. The handler returns to the VM, which
  goes on. `Library` is not part of `VM` and has no fairness: `stream_length` of an endless
  stream (`primitives.c:2103-2110`), and `is_list` and `length` of a circular list
  (`1327-1344`), loop in C and do not look at `running`. So `StopEnds` has the premise
  that no library function goes on for ever. Without the stop the program may run for
  ever: `Work` may repeat. `Host` and `Stop` have no fairness.
- `Numbers!FairSpec`: the loop of a job goes on.

Deadlock is checked in all passing runs. The runs that turn it off look for one
violation in a model that may stop.

## 6. Findings and known differences

`findings` in `PROJECT.json` quotes for each violated property what the code's
comments, assertions or README say. Five more properties of this kind are defined beside
the others, and no cfg lists them. TLC finds each violated when it stands in the named cfg
in place of its properties (as an invariant):

| Property | cfg | The code | What it says of itself |
|---|---|---|---|
| `Allocator!NoRing` | `MCAllocator.cfg`, with `Requests = {5, 9}`, `Spec`, no check for deadlock | `siarray_put` grows an array that only a C variable of `stream_reverse` holds (`primitives.c:2324-2335`); the sweep frees the old block and `memory.c:348` frees it again: it becomes its own successor in the free list, or lies inside the block just allocated | `heap.h:338`: `assert(entf->next_free != entf)` |
| `RefHeap!CountsTally` | `MCRefHeap.cfg` | the sweep frees the data of an array before the array, and the links (`heap.h:309-310`, `336-337`) overwrite `data[0]` and `data[1]`; `siarray_destroy` (`heap_obj.h:427-432`) gives up what it finds there, and what was there keeps its count | `impl.md:53-54`, `debug_memorycheck.c:250`: counts tally |
| `Stopping!StopHeeded` | `Stopping.cfg` | a stop after `pynter_run` was called and before it has set `running` (`main.c:109`) is overwritten, and the run goes on | `README.md:125`: the host cancelled the run |
| `LibraryCalls!NothingIsNone` | `MCLibrary.cfg` | `for_each` and `stream_for_each` (`primitives.c:2090`) return `undefined` | `primitives.c:1290-1293`: no program should observe it |
| `Numbers!RangeInside` | `MCNumbers.cfg` | `op_for_iter` adds the step with wrap-around and compares the wrapped value (`vm.c:1409`): `range(INT32_MAX - 1, INT32_MAX, 2)` goes on from `INT32_MIN` | `README.md:24`: an integer that overflows becomes a float |

More disagreements are in the models, or known and left out of them:

- `refcount` is an `uint16_t` and is incremented without a check (`heap.h:107`).
  With 65537 references to one object it is one, and giving up any of them
  frees the object. `RefHeap` computes modulo `RcMod`; with
  `RcMod = 4` and six locations TLC finds `RefcountExact` violated.
- A call of a value that is neither a pointer nor an internal function leaves
  `op_call` without a fault and without advancing `pc` (`vm.c:1433-1437`, `1566-1567`): the VM
  executes the call for ever. `CallStack!CallAgain` models it.
- A stop between the test of `running` and the fetch, or between the fetch and the
  operands, makes the VM read through NULL (`vm.c:412`, `335-337`): the run ends,
  but not with the fault that `README.md:125` lists. `Stopping!Astray` models it.
- `siexec` compares the number of arguments with `env_size` only
  (`vm.c:1668`). A function of two parameters that a library function calls with one runs,
  and a rest parameter gets the bare argument, not an array (`program.h:46-52`).
  `Siexec` models this; the arguments of `Calls!LibCalls` are left open.
- Growing in place splits off less than a free block, and the header of the
  new free block overlaps the old one's links: the assertions of
  `siheap_malloc_split` (`heap.h:232-234`), which read them afterwards, fail in a
  debug build. `GrowInPlace` models the outcome, in which the heap is well formed.
- Frames and limits are not compared with the end of the stack array
  (`stack.h:75-87`); `README.md:116` of the repository names a fault for it, which
  `sistack_push` and `pop` raise for the limits of the frame only. In `CallStack` the
  stack has no end.
- A stop between a return's `sistack_destroy` and its test of `pc` for NULL
  (`vm.c:1598`) ends the loop as if `main` had returned: `pynter_run` then reports
  success (`README.md:125` lists the fault). `Stopping!Back` models it.
- In the mode for sling, what the runner prints of a result that is a list stays in
  the buffer, as no flush follows. `Printing!End` models it.
- `print_llist` of a list that ends in itself, and `==` of two circular lists, do
  not end (`primitives.c:307-312`, `vm.c:89-173`). `Printing` excludes them.
- `stream_length` of an endless stream, and `length` and `is_list` of a circular list, do
  not end (`primitives.c:2103-2110`, `1327-1344`), and a stop does not end them.
  `Stopping!Library` may stay where it is; `LibraryCalls` excludes such arguments.
- After the second free of a block (`FreeTwice`) the heap is no longer well formed, and
  the model has no more steps in this run. When the block has been merged into the one
  before it, what the second free does depends on the bytes over its header, which are not
  modelled.
- A list within a list is printed with its strings bare, and as `...<circular>` when it
  contains itself (`display.h`); Python prints `'a'` and `[...]`. `Printing` takes the
  text of lists from `display.h`.
- A continuation that is itself passed as a function, as in `map(tail(s), xs)`, is
  run with its own arguments, and those it is given are not given up
  (`vm.h:60-64`): a leak. A library function passed as the function of a stream
  function, which runs closures itself (`map(stream_tail, ss)`), makes
  `debug_memorycheck` find counts that do not tally, in debug builds.
- A function that cuts the list that `map`, `filter` or `for_each` walks, by
  `set_tail`, frees the pair that the loop stands on (`primitives.c:1522, 1618-1620, 1884`).
  The functions in `Closure` change nothing; `Mutate` changes pairs between calls only,
  but shared ones too.
- The size of a sum of strings is an `address_t` and wraps (`memory.c:205`). With a
  small `Wide`, TLC finds `HeapChecks` violated.
- A text with a NUL in it is cut by comparisons, subscripts and `str`. The texts of
  the run have none.
- `op_add_g`, comparisons and `set_result` allocate when their operands are no
  longer on the stack; `Strings` has no collector.
- With `siarray_new` in a call with a rest parameter the arguments and the array
  are lost as the caller's environment is: other traces of `call_rooting`.

## 7. Proofs

All theorems are checked by TLAPS to the last leaf.

Assumptions: `SizeAssumption` (heap and smallest block are natural numbers, the
block is not empty and fits), `RequestsAssumption` (requests are natural
numbers), `HeaderAssumption` (the header and two links make the smallest block),
`ObjAssumption`, `FieldAssumption`, `OverlaidAssumption`, `RootAssumption`, `RcAssumption`
(objects, fields and roots are finite in number, some fields are overlaid by links, roots
are no fields, a count goes beyond 2), `MissedAssumption` (the bound on overwritten
references is a natural number), `FnAssumption`, `PlainAssumption` (functions have sizes, and a rest
parameter is one of their parameters; values have one of five kinds),
`RangeAssumption` (the widths of the integers are in the order they have in C, and
two words multiplied fit into a wide one), `ExactAssumption` (a NaN-box integer times a
number whose square is a NaN-box integer is exact as a double, as 2^20 * 2^10 < 2^53 is),
`JobsAssumption` (a job is one of those named, with integers for arguments),
`BufSizeAssumption` (the buffer of the runner is not empty), `FromSlingAssumption` (sling or not),
`BoundAssumption` (the bounds of `Stopping` and of `CallStack` are natural numbers) and one
`NullAssumption` each (NULL is no address, object, location, register value or
program counter; in `CallStack` also no list of arguments and no call of an internal
function, `NullValueAssumption`). No bound on the size of the heap, on requests, on objects, on the
nesting of loops, on the depth of calls or the size of stacks, on the width of
integers or on the number of arguments, on the size of the printer's buffer or on the
length of a piece.

### Allocator

Theorems (`Allocator_proof`):

| Theorem | Statement |
|---|---|
| `AllocatorInvariant` | `Spec => []Inv` |
| `AllocatorTypes` | `Spec => []TypeOK` |
| `HeapAlwaysOK` | `Spec => []HeapOK` |
| `SweepAlwaysExact` | `Spec => []SweepExact` |
| `HeapIsArena` | `Spec => ImplementsArena` |

The collector may mark what it likes; the block being moved may be swept. `HeapOK` holds until
a block is freed twice, and `ImplementsArena` says of each step that it is an arena's
or `FreeTwice`: the theorems say exactly how far the code keeps its heap well formed,
and which step ends it.

`HeapOK` is not inductive alone. `Inv` adds the types; `SweepExact`, for a
sweep that stood inside a block would free something that is none; and
`FindOK`, that the cursor of the walk is a free block and that what is looked for
is a block's size, for a split of a used block would break the list.

The argument has two layers. `HeapBlocks_proof` is about heaps as values, with
no state: three lemmas say that unlinking, replacing and pushing keep a doubly
linked list of a set of blocks (`UnlinkedOK`, `ReplacedOK`, `PushedOK`); two
that splitting a block and merging two keep a tiling with back pointers
(`SplitLayout`, `MergeLayout`); and one per case of allocation, free and growth
combines them (`SplitBlockOK`, `TakeBlockOK`, `FreeAloneOK`, `FreeAfterFreeOK`,
`FreeBeforeFreeOK`, `FreeBetweenOK`, `GrowInPlaceOK`). Allocation and growth
leave a heap that is well formed up to two free neighbours (`Loose`), as the
code does for a moment, and `NoSliver` says when there are none.
`Allocator_proof` has a lemma for each action and combines them in `NextOK`.

That every free block is on the list is an inductive notion, stated without
induction: of every non-empty set of free blocks, at least one has its predecessor outside
the set (`ListComplete`), so that no ring of free blocks exists beside the list
that starts at `first`. In this form each lemma on the list keeps it by
choosing a block of the old list.

`Arena` refuses a request only if no gap is long enough. For that the proof of
`HeapIsArena` needs to know what the walk over the free list has seen: `WalkOK`,
invariant on top of `Inv`, says that some set of free blocks lies between the head
of the list and the cursor, each one smaller than what is looked for. When the cursor
is past the end this set is all free blocks (`PassedAll`), and as free neighbours
are merged, every gap between extents lies in one free block (`VacantInFree`).

### Counts and collector

Theorems (`RefHeap_proof`), under the hypothesis `CountsFit`, that locations and overwritten
references to an object (`MaxMissed`) are together fewer than the values of a count. It is needed: `refcount` has 16 bits and
`siheap_ref` does not test it, so the count of an object with 65536 references is
0, and one more reference and one dereference free it while it is in use.

| Theorem | Statement |
|---|---|
| `RefHeapInvariant` | `CountsFit => (Spec => []Inv)` |
| `RefHeapTypes` | `CountsFit => (Spec => []TypeOK)` |
| `CountsExact` | `CountsFit => (Spec => []RefcountExact)` |
| `NeverDangling` | `CountsFit => (Spec => []NoDangling)` |
| `MarkingExact` | `CountsFit => (Spec => []MarksReachable)` |
| `NeverOrphan` | `CountsFit => (Spec => []NoOrphan)` |
| `CollectsAll` | `CountsFit => (Spec => CollectionComplete)` |
| `HeapIsGraph` | `CountsFit => (Spec => ImplementsGraph)` |

The sweep may overwrite elements of arrays that it is going to free (`Overwrite`). So
`CountsExact` says that a count is the number of references *and* of those overwritten:
never too low, which is what `NeverDangling` and the collector need, and too high for
no other reason. `NeverOrphan` has the same exception, and `CollectsAll` none, since the next
collection does not look at counts.

None of the properties is inductive alone: that counts are exact needs that
nothing refers to an object that is being destroyed, and that needs exact counts. `Inv` says
of objects whose destructor is not running (`Alive`) that their counts tally, with what
was overwritten, and are not zero, and of all others that their count is zero (`CountsOK`); of
destructors, that none runs twice (`DestroyOK`); of an assignment in progress,
that another root holds the object it writes to (`PutOK`); of references, that they lead to
objects that are alive (`RefsOK`). During a sweep the last is false, for garbage
refers to garbage that has gone. What is true then is in `SweepOK`: the kept
objects lead to kept ones only, and each of them is referred to by a root or a
kept one, so no destructor of garbage can take its last reference. `MarkOK` is
the same while marking, with the gray objects.

The step that gives up a reference is the same in a pop, an assignment and a
destructor (`DerefOK`): an object whose destructor starts was referred to
from this one location. Counts are cardinalities of sets of locations, to which a
step adds one, from which it takes one, or in which it replaces one (`MoreCounts`,
`Removed`, `Replaced`). Reachability is the least closed set
(`ReachClosed`, `ReachLeast`), which needs no induction.

For the refinement, `MovedView`, `DroppedView`, `CopiedView`, `MadeEmpty` and
`MadeLinked` say for graphs as values what each instruction does to the part in
sight; `SeenStep` maps each step to a step of `ObjectGraph` or to none.

### Life of a run

Theorems (`Stopping_proof`):

| Theorem | Statement |
|---|---|
| `StoppingInvariant` | `Spec => []Inv` |
| `StoppingTypes` | `Spec => []TypeOK` |
| `AlwaysUndisturbed` | `Spec => []Undisturbed` |
| `NothingEverStarts` | `Spec => NothingStarts` |

`Inv` says which of the nested main loops can have lost its last frame: the
innermost, and then it is about to end (`Shape`); that a stop
between the test of `running` and the fetch has cleared `pc` (`FetchOK`); and, as
long as nobody has stopped the run, that the registers and what `siexec` has
saved of the outer loops are set (`Registers`, `Saved`). A stop of an earlier run
leaves values behind that `pynter_run` overwrites on its way; the proof goes through
that way point by point, with a stop possible between any two.

### Calls

Theorems (`CallStack_proof`), for any functions and any code:

| Theorem | Statement |
|---|---|
| `CallTypes` | `Spec => []TypeOK` |
| `StretchesDisjoint` | `Spec => []Stretches` |
| `LoopsNest` | `Spec => []LoopsMatchFrames` |
| `ResultsFindRoom` | `Spec => []Limits` |

The four are one invariant, `Inv`, for none is inductive without the others: a
return trusts the frame for the stretch, the place and the environment that it goes
back to, so what `Limits` says of the running activation has to be said of every
activation that waits. `FramesOK` says of each frame that it describes the stretch below it
(`Stretch`), and that a frame of a call instruction holds a place, an environment and
a limit that belong to the same function (`Called`). Where siexec made the frame these
are not in it but in the C stack: the j-th frame with the return address NULL agrees
with the call of siexec at `2j - 1`, and the internal function at `2j - 2` still finds what
it is going to pop (`BaseOK`, `Suspended`). `LoopsOK` is the shape of the C stack, and
`TopOK` the same as `Called` and `Suspended` for the activation on top, with its two
forms: it runs, or it has just returned to siexec and its frame has gone.
`PushedFramesOK` and `CutFramesOK` say what pushing and popping a frame do, once
for all calls and all returns; a tail call is a cut followed by a push. `GoesOn` is for
all steps that leave the frames alone.

`CallStackCalls_proof` proves the refinement, `CallsImplemented`:
`Spec => ImplementsCalls`. It needs one more invariant, `EnvOK`: when a main loop has
ended, the register holds the environment that siexec is about to restore (the frame and
the C stack agree). The activations of `Calls` are read off the
frames in the order in which they lie on the stack, so the first step is that the frames
can be counted (`CountFacts`, `CountOnto`), that the activation below a frame depends
only on the stack below it and on the C stack of its siexec (`LowerKept`), and
that therefore a step can do three things to the sequence: change the last activation
(`TopMoves`), add one (`FrameComes`) or take one away (`FrameGoes`). Each action of
`CallStack` is then an action of `Calls` (`WorkCalls`, `TailCallCalls`, `CallCalls`,
`BeginCalls`, `SiexecCalls`, `ReturnCalls`, `InternalReturnCalls`), or, for the end of
a nested main loop and for a call that is executed again, none (`SiexecEndCalls`,
`SameActs`).

### Integers

Theorems (`Numbers_proof`), for all widths and all arguments: `DivModAlwaysExact`,
`SubscriptAlwaysExact`, `IsqrtAlwaysExact`, `GcdLcmAlwaysExact`, `CombAlwaysExact`,
`RangeAlwaysExact`, `NothingOverflows`, each `Spec => []` of the property of its name.

Each loop has its invariant. *isqrt*: the root lies between `low` and `high`. *gcd*: what
divides the two registers is what divides the arguments so far (`GcdState`), which
a step of Euclid's algorithm keeps. *lcm*: the result divides every common multiple
of the arguments so far (`LcmState`); at the end of a gcd, that `res / g * m` does needs that
g is a combination of the two, `Combined`, another invariant of the inner loop. *comb*:
the result is `Binomial[n][i]` (`CombOK`): each product is divisible by the divisor that follows
(`Absorption`), and if the last result fits a NaN-box integer then no product before it
was too large for a double (`Growth`, `AtLeastSquare`, `ExactProducts`). *range*:
what was yielded is the start of Python's range, and the register is the value after it,
for only the step from the last value can leave int32_t (`StepsOut`), and all others
are unchanged by the wrap-around (`WrapInside`).

What a recursive *function* computes for all arguments is proved with the
least-number principle on sets, which needs no theorem with an operator for a
parameter: were there a counterexample there would be a least one (`LeastNat`).

### The printer

Theorems (`Runner_proof`), for a buffer of any size, with sling and without, and
for any pieces in any order:

| Theorem | Statement |
|---|---|
| `RunnerInvariant` | `RunnerSpec => []Inv` |
| `BufferNeverOverrun` | `RunnerSpec => []WithinBuffer` |
| `PrintedIsDelivered` | `RunnerSpec => []Delivered` |

`Delivered` speaks of messages only, and a piece is mostly not sent but collected. So
`Inv` says where the text of an open line is: what the messages hold, followed by the
first `index` bytes of the buffer, is what has been printed (`Holding`). For this to
be kept when the buffer is sent, which goes as far as the first NUL, none of these bytes
is NUL (`Solid`), and the byte behind them is one (`Terminated`); the bytes of earlier
lines that follow do not matter. There are messages of an open line only if it was too
long, and the flag says so. A line that has ended left nothing in the printer (`Clear`),
its messages are `Complete`, and `Reported` says which of its text they hold.
`vsnprintf` is the step that all depends on: `WrittenPart` says what it does to the
buffer for any text, `Written` for one that fits. `FragmentOK`, `FittingPiece`,
`NextFragment` and `SentPiece` are the ways through `printf_buf`, `FlushOK` and `BlankOK` those
through `print_flush`.

The text of all messages is `FlattenSeq` of theirs, a recursive function.
`GrowsExists` shows, by the principle of the least counterexample again, that there is
such a function, and `FlattenAppend` that one more message adds its text at the end;
nothing else is needed of it. `CString` is the beginning up to the least position of a
NUL (`CStringUpTo`).

That `Printing` takes only steps of `RunnerSpec` is by the form of its actions; it
is not a theorem, as `Printing` has recursive operators.

### Only model-checked

Liveness (`SearchEnds`, `Settles`, `LoopsEnd`, `StopEnds`), which is out of the
prover's reach; what `CallRooting` checks; the four properties of `LibraryCalls`, and
`TextsExact`, `HeapChecks` and `AnswersExact` of `Printing`. These seven compare recursive
operators on objects with recursive definitions of what they stand for, and the
prover takes no module with such operators.

## 8. Not modelled

- *Floating point, complex numbers, formatting and parsing*: no control of
  interest; TLC has no floats.
- *The encoding of NaN-boxes*: values are records with a kind.
- *C stack depth*: `siheap_mark` and `siheap_mdestroy` recurse as deep as the
  data.
- *Devices*: input and output on hardware, user interfaces.
- *Bytecode validation*: a program is assumed to be what the compiler emits.
- *The collector inside library functions and string instructions*: `Library` and
  `Strings` count references; what a collection would take while C variables hold
  objects is modelled for one instruction (`CallRooting`). The modules of lists and
  strings are recursive operators, so no proofs are about them.
- *Functions of the program that change a list while it is walked*, and those
  that call the library again (section 6).
- *Complex numbers, `parse`, `llist_to_string` and the like*: formatting.
- *WebAssembly, ESP32, EV3, Arduino*: wrappers of `pynter_run`, and hardware.

## 9. Plan

Done: A allocator with proofs; B counts and collector; C calls; D one call and
the collector; E integers; F the life of a run and `pynter_stop`; G lists and
streams; H strings, display and the runner; proofs about the allocator, counts and
collector, calls, integers, the life of a run, and the printer.

Next, in this order:

1. *Rooting of other instructions and of library functions.* As `CallRooting`:
   `siarray_new`, `op_add_g` and comparisons (operands popped before the result is
   allocated), `siexec` (`argv`, the old environment), lists built while
   closures run. Abstract specification: nothing held is collected.
2. *Proofs.* The recursive operators of `Cells`, `Strings` and `Library` as recursive
   functions or folds, so that theorems can be stated about the modules that use them:
   first that a string keeps its text when a part of it is flattened (`TextsExact`), and
   that counts tally after each function (`Tallies`).
