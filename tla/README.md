# A verification project for antic and the Anti runtime

The repository holds `antic`, a compiler for the Anti language (C11, `src/`),
its runtime (`rt/`), the standard library written in Anti (`std/anti/`) and the
book that explains them. This directory holds TLA+ models of the parts of it
that are hard to get right and hard to test, the TLC runs that check them, and
the theorems TLAPS proves about them.

Paths below are those of the repository root.

## The system

A build is a pipeline. `driver.c` reads the options and finds the modules,
`lexer.c` and `parser.c` build a tree, `sema.c` checks it (with `types.c` and
`layout.c`), `lower.c` turns it into IR (`ir.c`, checked by `ir_verify.c`),
`optimize.c` rewrites the IR, `select.c` with `arm64.c` or `x86_64.c` gives
machine code over virtual registers, `regalloc.c` gives each of them a register
or a stack slot, `emit.c` prints assembly, and `process.c` and `linker.c` call
the assembler and the linker. A library leaves a `.antl` file (`antl.c`) that a
later build reads. The compiler has one thread and keeps no state between
builds; what it hands from stage to stage is a data structure that the next
stage trusts.

A compiled program runs with `rt/`: a pool of threads behind `parallel`,
`dispatch` and `join` (`threads.c`), objects with descriptors, copies and owned
fields (`object.c`), atomics and signals, and thin wrappers of files, time and
text.

### Inventory

| component | state | operations | what is hard | what makes it correct |
|---|---|---|---|---|
| worker pool, `rt/threads.c` | queue of jobs, in-flight list, the active `parallel` and its counters, two condition variables, job records on the heap | `start_pool`, `worker_main`, `anti_rt_parallel`, `anti_rt_dispatch`, `anti_rt_join`, `anti_rt_join_all` | threads, wake-ups, frees, nested calls from workers | an object has one worker, a job runs once, join gives its result, calls return, nothing freed is touched |
| register allocation, `src/regalloc.c` | intervals, fixed ranges, registers, slots, the rewritten code | constants, liveness, intervals, linear scan, rewriting, frame layout | loops, spilling, fixed registers, scratch registers, callee-saved registers | the allocated code computes what the code before it does; no register or slot is shared |
| object runtime, `rt/object.c` | heap objects, owned fields | copy, dup, destroy, delete, equals, hash, serialize | who frees what after a copy | each owned block is freed once |
| atomics and signals, `rt/atomic.c`, `rt/signal.c` | one pending signal, a handler table, a pipe | store, swap, register a handler | a signal handler and a reader thread against the program | a signal is reported; no torn access |
| optimizer, `src/optimize.c` | the IR of a function, the call graph | constant folding, copies, dead code, inlining, store forwarding, splitting of slots, dead functions | the passes repeat until nothing changes and feed each other | the IR computes the same; the loop ends |
| IR, `src/ir.c`, `src/ir_verify.c` | functions, blocks, temporaries | building, verifying | | what the verifier accepts is what later stages need |
| instruction selection, `src/select.c`, `src/mach.c`, `src/arm64.c`, `src/x86_64.c` | use counts, the machine code | folding of addresses and compares, calls | values used once, argument registers | the machine code computes what the IR does |
| lowering, `src/lower.c` | scopes, deferred statements | one function per construct | the order of defers at every exit | each defer runs once, in reverse order |
| semantic analysis, `src/sema.c`, `src/types.c`, `src/layout.c` | symbols, types, constants | imports, layouts, checks | cycles, order of declarations | layouts are finite, constants do not overflow |
| lexer and parser, `src/lexer.c`, `src/parser.c` | position, panic mode, doc comments taken | next token, one function per production | recovery after an error | a tree is read back, a mistake stays local, no doc vanishes |
| library files, `src/antl.c`, `src/header.c` | a reader over bytes | write, read | truncated or damaged files | no read past the end, a file read back is the file written |
| build driver, `src/driver.c`, `src/process.c`, `src/linker.c` | files on disk, child processes | the stages of a build | a stage fails in the middle | a failed build does not look like a good one |
| standard library, `std/anti/*.anti` | hash tables, log files, random state | collection and log operations | growth of tables, rotation | a key that was put is found |

`PROJECT.json` lists every component with its files and its state of modelling,
and under "hazards" what can go wrong in each, at its line.

## Modules

| module | what it is |
|---|---|
| `ThreadPool` | `rt/threads.c`, one action per critical section |
| `JobBoard` | what the pool promises, without threads, locks or lists |
| `MCThreadPool` | which bodies call the runtime, for TLC |
| `ThreadPoolSafety` | type correctness of the pool, the inductive invariant of a job's life, and the theorems from them |
| `ThreadPoolRefinement` | the inductive invariant of a `parallel` call, and the proof that the pool implements `JobBoard` |
| `LinearScan` | `linear_scan` of `src/regalloc.c`, over any intervals |
| `RegAlloc` | all of `regalloc_function` around `LinearScan`, and the allocated code run in step with the code before allocation |
| `MCRegAlloc` | small functions to allocate, for TLC |
| `RegAllocProofs` | linear scan over any intervals; liveness, saved registers and frame layout, for every function |
| `RegAllocSimulation` | the proof that a program never sees its allocation |
| `Objects` | `dup`, `destroy` and `delete` of `rt/object.c`, and a program that uses them |
| `MCObjects` | a chain of classes with own fields, for TLC |
| `ObjectsProofs` | the inductive invariant of ownership and the theorems from it |
| `IR`, `Machine` | functions of IR with every rule of `src/ir_verify.c`, and a machine that runs them |
| `Meaning` | what a checked program means, independent of the compiler |
| `Lowering` | `src/lower.c`: the blocks, slots and temporaries it makes of a program |
| `Optimizer` | the passes of `src/optimize.c` |
| `Compile`, `MCCompile` | one compile: lowering, then pass after pass; the programs for TLC |
| `CommandLine` | the options of `src/main.c` |
| `Libraries` | module names, the search for library files, their load order, the notice |
| `Linker` | the link and archive commands of `src/linker.c` and the targets of `src/target.c` |
| `Build`, `MCBuild` | `src/driver.c` with `src/process.c`: commands, files, tools, crashes; the commands for TLC |
| `Loops` | induction and recursion up to a bound, for the loops written as recursive functions |
| `LibrariesProofs` | the search for libraries, their load order and the notice, for any files |
| `BuildProofs` | the invariants of a build and the theorems from them |
| `Lexer`, `Parser` | `src/lexer.c` and `src/parser.c` over bytes |
| `Grammar` | the grammar, as a writer of trees, with a table of levels of its own |
| `LibraryFile` | the types of `src/types.c`, the interface of a module, and the writer of `src/antl.c` |
| `LibraryReader`, `LibraryIr` | the reader of `src/antl.c`: header, types and items; the IR |
| `Interfaces` | what a library file promises, told by names instead of indices |
| `FrontEnd`, `MCFrontEnd`, `MCLibraryFile` | lexing, parsing and loading of libraries in one compile; sources and modules for TLC |

### The worker pool

The unit of `ThreadPool` is a *body*: one execution of program code, which is
main, the worker of one job, or the worker of one chunk. A thread can run
several bodies on its stack, because a `join` may run the job it waits for and
a `parallel` runs chunks itself; the innermost body is the one that blocks. A
body's `at` says where it is in the runtime. One action is what happens between
`hold` and `release` of the pool's mutex, or a step outside it that touches only
the body's own state. `pthread_cond_wait` puts the body into the set of waiters
as it leaves the mutex; `pthread_cond_signal` takes any one waiter out,
`broadcast` all of them, and a spurious wake-up may take any out at any time.

| state | code |
|---|---|
| `queued`, `queued_last` | the singly linked list and its end pointer; `Link` is the write through `queued_last->next`, so a stale pointer would cut or lose the list |
| `in_flight` | the list that `dispatch` searches for the object |
| `active`, `taken`, `finished` | the fields of the pool that belong to one `parallel` |
| `handle`, `done`, `result`, `object` | the job record: a handle is `null` after a refused dispatch, `ended` when `join` has freed the record |
| `work_ready`, `work_done` | the waiters of the two condition variables |
| `call`, `count`, `chunks` | `struct jobs`, which lies in the frame of the caller of `parallel` |
| `worker` | pool threads; `start_pool` creates any number of them from none to all, since each `pthread_create` may fail |

A refused dispatch (object in flight) gives a null handle. Memory that runs out
in `anti_rt_dispatch` ends the process in the code and is not followed. Threads
of the program's own do not exist in Anti: every body runs in main's thread or
in a pool thread.

`ImplementsBoard` says that the pool implements `JobBoard` under the mapping at
the end of `ThreadPool`: a job is pending, running, returned, done, joined; a
chunk is idle, running, ran; all lists, threads and condition variables are
hidden.

### Register allocation

`regalloc_function` runs its passes in a fixed order, and `RegAlloc` has one
action for each: `Rematerialise` (constants that need no register),
`LiveBlock` (one block of one sweep of the liveness iteration),
`BuildIntervals` (intervals, fixed ranges, hints), `Scan` (a turn of
`linear_scan`, from `LinearScan`), `LayoutFrame` (slots, saves, alignment).
Then the function *runs*: `RunCopy`, `RunInst` and `RunRet` step through the
rewritten code, with its loads, scratch registers, dropped moves and stores,
beside the code before allocation. A value is the position that wrote it with
the parity of the loop turn (`turn`), so a register that still holds the value
of the turn before does not pass for the new one. Values of data are otherwise
abstracted: an instruction is what it reads, writes and destroys.

The model's input is machine code as selection produces it: definition, reads,
reads inside an address, registers it names, registers it destroys, successors.
`ProgramAssumption` says what is taken for granted of it: at most four operands,
targets that are blocks of the function, two of them at most for one block
(`successors` keeps no more; a block ends in one branch and one jump), and no
write of a callee-saved register
(selection names argument and result registers, `rax`, `rcx` and `rdx`, and what
a call overwrites, none of which is callee-saved in any of the tables of
`src/x86_64.c` and `src/arm64.c`). `ConventionAssumption` is read off the same
tables: scratch registers are caller-saved, and so is what `scratch[2]` reads,
the byte after the array (`shadow_space`, 0 or 32, or `fp_save_size`, 8 or 16).
`VRegs` has to have room for the copies of constants, which in the code is an
array that grows. The four scratch registers of a convention differ and none of
them is allocatable.

`WellSelected` is not an assumption of the model: it says which functions the
allocator treats well, and is the hypothesis of one theorem. An instruction reads
at most two registers of one class; virtual register 0 is not set to a constant; a
register that one instruction sets to a constant is not the base or index of an
address; nothing is defined after a jump in its block; and a physical register
that an instruction reads was written before in the same block, is a parameter in
a block that is entered once, or is one that nothing writes. Selection keeps
these except for the first two, and the functions of `RegAllocThreeReads.cfg`
and `RegAllocConstant.cfg` are the counterexamples without them. TLC evaluates
`WellSelected` on every function of the passing run, in `MCRegAlloc`.

`ReadsMatch` compares the two runs at every read of an instruction, of virtual
registers and of the physical registers it names. A virtual register that no
instruction on the way has written holds `Undefined`, and so does a physical one
into which a move has copied it: there the code before allocation has no value to
agree with.

### Objects

`Objects` is a heap of blocks. An object's block has a class (`table`), a size
(`extent`, the class whose size it was allocated with) and for each pointer or
slice field a pointer and a length; other memory has only a size in bytes. A
class is what its descriptor says of it: its chain, the fields each level
declares, for each field the `own` bit, the kind and the class it names, and
whether the level has a destruct body. Pointers into an interface sub-object are
taken for pointers to the object, which is what `anti_rt_object_of` does first in
every operation.

| action | code |
|---|---|
| `dup` | `anti_rt_dup` with the root's `copy`: the bytes of the object, then a new block for each own field that `owned_at` gives a size; each of these mallocs may fail |
| `destroy(p, free)` | entry of `anti_rt_destroy`; `free` when `anti_rt_delete` called it |
| `NextBody` | the next level of the chain, whose destruct body is program code |
| `FreeOwned` | the walk that frees and clears the own fields, then `free` of the object for `delete` |
| `AllocObject`, `AllocRaw`, `FreeRaw`, `GiveOwn`, `TakeOwn`, `Borrow` | what the program does: `alloc`, `free` and assignments to fields |

Calls nest: while a destruct body runs, the program may do anything it can do in
main, destroying other objects included (`stack`). The language states that
ownership is a tree and leaves it to the program (`docs/anti-object-model.md`);
`GiveOwn` follows this rule, so that what is checked is the runtime's share: a
program that owns a tree still owns a tree after `dup` and `destroy`. `frees`
counts the frees of each block; addresses are not reused, so a second free shows.

`Flat` names the classes of which the field list says enough for `copy`: an own
class pointer names a class without own fields, any other own field is a slice
of bytes, and no block is empty. Outside it `copy` differs from the docs, in
ways that follow from `rt/object.c:268`-`:318`: a slice of wider elements is cut
(a run shows it); an own pointer that names no class, and a slice of length
zero with memory behind it, are skipped, so both objects own the block; the own
fields of an owned object are copied as addresses; an owned object of a subclass
is cut to the class of the field. Besides, a slice field whose malloc failed
keeps its length beside the null pointer, and with `--no-reflect` there is no
field list, so that nothing owned is copied or freed.

### Compilation

`Meaning` says what a program does as the language description does: operands
from left to right, a handler for each failing call, deferred statements at
every exit of their block. A program is what `sema.c` leaves: a tree in which
every expression has its type. `Lowering` makes IR of it with the operators of
`lower.c` under their names, and `Machine` runs IR. What a program *shows* is
its calls of extern functions with their arguments, its result and how it stops;
an undefined operation or a run that takes more than `Fuel` steps is compared
with nothing. Integers keep a width (`Bits`), of 3 and 4 bits for TLC, so that
wrapping, shifts and extension happen within small numbers. A byte offset is the
number of a field.

`Compile` has one action for each step of `ir_optimize_function` in its order,
preceded by `Lower` and `DropAsserts` and followed by `RenumberTemps` and
`RemoveUnusedFunctions`. A pass is an operator from function to function, and
the flag `changed` is the question whether they differ. Lowering and the meaning
of a program are parameters of `Compile` (`LowerModule`, `MeaningOf`), which
every configuration sets to `lower_module` and `Meaning`: TLC's action coverage
expands every operator an action reaches at each place of use, which for
mutually recursive operators has no end, and it does not look behind a
constant. The turns and sections of `FrontEnd` are parameters for the same
reason.

### The build

A path maps to what the file holds, and the content of a file is where it comes
from: an assembly file has the version of the source and the libraries compiled
into it, an object the assembly file it was made of, an archive its members.
`Partial` is a file whose writer did not finish. A command is first read as
`main.c` does (`CommandLine`), compiles in memory (`compile`, with `Libraries`)
and then works through its steps in the order of `driver_run`: files it writes,
files it removes, tools it runs (`Linker` puts their commands together). A tool
is a child process that writes to a pipe of `PipeSize` bytes and exits; the
parent reads and waits as `process_capture` does. A write or a tool may fail and
the command may be killed at every step, the file in hand is then `Partial` or
what the tool left; the next command finds the files as they are. Sources change
between commands (`Edit`).

The archive of an earlier build is removed before `llvm-ar` makes the new one,
and nobody looks whether that worked (`src/driver.c:1450`). `RemoveFile` ends
the command when it did not: `llvm-ar` replaces the archive by a rename within
its directory, and where a file cannot be removed the rename onto it fails as
well. That is an assumption about the file system; without it the members of
the old archive would stay. The licence text of the runtime is the constant
`RuntimeLicence`, the empty text when antic cannot read `licenses/anti_rt.txt`
and goes on without it (`src/driver.c:977`); the theorems hold for any text.

### The front end

A source is bytes. `LexOne` is one turn of the loop of `lex`, `ParseOneImport` and
`ParseOneItem` one turn of the loops of `parse`; within an item the rules of the
parser are operators under their C names, on the parser `p`: the position, the
flag `no_struct_literal`, panic mode and messages. A rule that only reads parts
one after the other is a sequence of *steps* (`X`, `Q`, `O`, `L`), which stand
for `expect`, `accept`, an optional part and a list. A tree node is a kind, a
text and its parts.

Library files are loaded after parsing. `HeaderSection`, `TypesSection`,
`ItemsSection` and `IrSection` are the sections of `antl_read`; `OpenLibrary`
hands it the next file in the load order, which `Build` checks. The reader has `data`, `pos` and
`failed` of `struct reader`; the types of the process (`heap`) and the program
go on from file to file. Numbers of 64 bits at or above 2^31 are two values:
`NO`, all bits set, and `LARGE`.

`Grammar` and `Interfaces` are references. The first writes any tree as words
and lays them out with blanks, lines or comments between; the second describes
types, constants and IR by names, so that the module that wrote a file and the
process that read it can be compared.

## Runs

| run | question | bounds | distinct states |
|---|---|---|---|
| `pool_liveness` | do `join`, `parallel` and unjoined jobs end when only main calls the runtime | 2 jobs, 1 call, 2 pool threads, arrays up to 3 | 54,782 |
| `pool_jobs` | the life of jobs, with workers that dispatch and join themselves | 3 jobs, 2 objects, 2 pool threads | 182,170 |
| `pool_calls` | `parallel` calls beside a job, with chunks that call the runtime | 2 calls, 1 job, 2 pool threads, arrays up to 3 | 281,120 |
| `pool_lost_wakeup` | does every `join` return with nested joins | 2 jobs, 2 pool threads | violation |
| `regalloc` | does the allocated code compute what the code before it does | 3,304 functions | 90,507 |
| `regalloc_three_reads` | the same for an instruction with three spilled reads | one shape | violation |
| `objects` | has every block one owner, its size and one free | 4 blocks, 4 classes, destruct bodies 2 deep | 331,113 |
| `objects_wide_slice` | the same size for a slice of pointers | 4 blocks | violation |
| `compile` | does the IR do what the program means after lowering and after every pass | 1,504 programs, 5 runs of each | 31,276 |
| `compile_read_twice` | the same for a field read twice around a change of the variable | one program | violation |
| `build` | what is on disk when a command ends | 2 commands in a row, 1 edit, every graph of 3 library files | 110,411 |
| `frontend` | is a tree read back, does a mistake stay local, is an interface kept | 88 trees, 41 of them in 3 layouts and with each word dropped in turn, 74 spellings, 2 library files whole, cut and damaged | 102,463 |

**Bounds.** Two pool threads and main are the fewest for which a signal can
wake the wrong waiter; three jobs are the fewest for which one is taken from the
middle of the queue; two objects make one dispatch refused and another accepted;
two calls make a `parallel` meet a busy pool, or follow another one over the
same counters; arrays up to 3 in 2 or 3 chunks give chunks of unequal length and
fewer elements than chunks. Jobs and calls are identities of executions, so
their number is also the bound on how long a program runs. The proofs need none
of these bounds.

The allocator runs with two integer registers, one of them callee-saved, and one
float register, so three live values spill. `mc_Programs` holds a loop and a
function with a call, each with four places that are filled with every
instruction of a small set: constants, moves, two- and three-address forms,
loads with two address registers, float code. `frame_limit` is 64 bytes.
Functions end, so `CHECK_DEADLOCK` is off there, and in the pool because main
returns and the process ends.

Four blocks are the fewest for an object with one owned block and its whole
copy; with less the copy always meets a malloc that failed. `Box` inherits its
own `child` from `Node` and declares its own `label`, so that a walk over one
level is not enough; the destruct body belongs to the middle level. Two nested
calls let a body delete another object, whose body runs before the first goes
on. When the blocks are used up and freed the program can only stop, so
`CHECK_DEADLOCK` is off. A program without a restriction like `Flat` is outside
the run, as is a class that replaces `copy`.

`MCPrograms` of `MCCompile` has every pair of some thirty statements, each
statement inside every kind of block, and every operator on constants and on a
constant and a variable. The runs of a program differ in the values extern
functions give and in the call that fails. Compiling ends, so `CHECK_DEADLOCK`
is off. The programs leave out what the observations below name: a second read
of a field after its variable has changed, a defer in a body that an error
leaves for an enclosing handler, a local in memory declared where
`reserve_slots` does not look, and ranges that reach the ends of their type.

`build` runs two commands in a row on a program and on a library, since what one
leaves the next may take for its own; three library files are the fewest for a
cycle beside a file outside it; a pipe of one byte blocks a child that writes
two. After its last command the system stops, so `CHECK_DEADLOCK` is off.

`frontend` has every rule of the grammar in at least one tree and all
combinations of a binary operator with any other on its left and on its right, so
that a level or an associativity that differs from the table of `Grammar` shows
in `ReadBack`; dropping each word in
turn gives 1,572 mistakes. `UINT64_MAX` is 1000, so that literals at the
limit and above it are short. The two modules of `MCLibraryFile` share a struct, a class
inherits from the other module's, IR names globals and functions of the other,
and every index of the second file differs from its place in the program. Their
files are 1,595 and 818 bytes; a cut at every ninth and a change of every fifth
byte fall on each byte of a number somewhere. A text is read to its end or
refused, so `CHECK_DEADLOCK` is off.

**Fairness** (`FairSpec`). A pool thread that can take a step takes it, as does
a body inside a runtime call: the operating system schedules every runnable
thread, and no runtime step waits for anything but the mutex and the two
condition variables. A worker function terminates, which is the meaning of
waiting for it; main need not. No fairness is given to spurious wake-ups: POSIX
allows them and promises none.

`Build` gives weak fairness to `Work`: antic, its child and the operating system
go on when they can, a tool that runs ends. Nothing is assumed of commands,
edits and crashes.

### What the runs show

*The pool.* An object never has two workers, no record is touched after `join`
has freed it, `queued_last` is always the end of the list, also after a join has
taken a job out of the middle or the last one; a `parallel` returns when each of
its chunks has run once, and the record in its frame outlives every chunk. The
pool implements `JobBoard`. When only main calls the runtime everything ends.

*Finding: a join may wait for ever.* `pool_lost_wakeup` reaches a state in which
a worker's `join` waits for a job that is done. `finish_one` sends one
`pthread_cond_signal` on `work_done` (`rt/threads.c:90`), on which joins of
different jobs wait. When a worker and main both wait in `join`, the signal for
one job may wake the other, which goes back to sleep. `JoinReturns` fails under
`FairSpec`; it holds in `pool_liveness`, where one body at most waits.

*Register allocation.* Over all functions of the run, every read of the
allocated code sees the value the code before it saw (`ReadsMatch`), the
caller's callee-saved registers are back at the return (`CalleeKept`), frame
areas neither overlap nor leave the frame (`FrameDisjoint`), and liveness is
exact at its fixed point (`LiveExact`).

*Finding: three spilled reads.* There are two scratch registers of each class,
and the counter that hands them out is not bounded (`src/regalloc.c:714`). An
instruction with three spilled reads takes the third from beyond the array. The
ARM64 `msub` reads three registers; stores were given a form that reads two.

*Objects.* After any sequence of calls from main and from destruct bodies, every
live block has one owner: the program, a call of `destroy`, or one own field
(`OneOwner`, `NoLeak`); no block is freed twice (`FreedOnce`); what is owned
lives and is as large as its type says (`OwnedIsWhole`). A malloc that fails in
`copy` leaves null in the field and never the original's pointer.

*Finding: the copy of an own slice is cut.* `owned_at` takes the length of the
slice as a number of bytes (`rt/object.c:285`). The comment above says that for
wider elements "the copy is shallow", the object model that own fields get "a
copy of their contents"; the code does neither: the copy of n pointers is n
bytes. `List` of `std/anti/collection.anti` has such a field.

*Compilation.* For every program of the run the IR shows what the program means
after lowering and after each pass (`SameBehaviour`), the verifier accepts it
at every point (`Verified`), and the passes reach a round without a change
(`PassesEnd`).

*Finding: a forwarded load.* `forward_stores` remembers the temporary that a
load wrote as the value of the address (`src/optimize.c:981`) and does not
forget it when the temporary is written. After `x = s.f; x = x + 1; y = s.f;`
the variable `y` gets the changed `x`.

*The build.* Exit status 0 means that every file the command is for holds what
this command made of the sources as they are; nothing of an earlier, failed or
killed command is part of it (`ExitZeroMeansBuilt`). An error before the first
step leaves every file alone (`ErrorsTouchNothing`). Libraries are accepted
exactly when each module has one file, every import is there and there is no
cycle, and are loaded after what they import (`LibrariesResolved`). A binary
carries the licence of everything in it (`NoticeComplete`), no command line
outgrows its array (`CommandsFit`), and every command ends (`CommandEnds`).

*The front end.* A tree that the grammar writes is read back as that tree in any
layout, and what is accepted after a word was lost is a tree that the grammar
writes (`ReadBack`). Tokens, doc comments among them, lie one after the other
with only white space and plain comments between, and line and column of each
are where its bytes are (`TokensTile`). A doc comment of an accepted module is
in the tree or its loss is reported, unless it stands before the base of a class
(`OtherDocsKept`; see the observations for that one). A lost word costs no item
but its own (`MistakesStayLocal`). What a module shows is what an importing
compile reads, across two files with their own indices (`InterfaceKept`); a file
that lost its end is refused, and no damaged byte makes the reader look past the
end or leave an index that leads nowhere (`DamageRefused`).

### Observations

Met while modelling; no run of the list is about them. Four configurations beside
the runs reproduce the first four with TLC and end in a violation.

- *A lost constant* (`RegAllocConstant.cfg`, module `MCRegAlloc`, `ReadsMatch`).
  The pass over constants writes `definition[v]` for every instruction, and `v`
  is 0 when the instruction sets no constant (`src/regalloc.c:390`). A constant
  in virtual register 0 is then unknown at its uses, which keep the register,
  while its definition is dropped (`:432`). A temporary never holds such a
  constant, since the optimizer has replaced it; but in a function without
  parameters and temporaries the first register that selection makes is number
  0, and a constant argument that goes to the stack of a call is put into it.
  The comment at `:395` says "Give every use a definition of its own".
- *Deferred statements of a `try` block* (`CompileDeferInTry.cfg`, `MCCompile`,
  `SameBehaviour`). A call that fails in `try { }` jumps to the handler without
  the deferred statements of the scopes it leaves (`src/lower.c:3780`), and so
  does `yield` in a handler (`:4011`). `docs/anti-object-model.md:282` says that
  the error "abandons the rest of the block and runs `defer` statements on the
  way out", and so does the comment at `src/lower.c:4033`.
- *The doc comment of a base* (`FrontEndBaseDoc.cfg`, `MCFrontEnd`, `DocsKept`).
  The loop over the entries of a class takes the doc comment before it looks at
  the word (`src/parser.c:1530`), and at `inherits` stores it nowhere; having
  been taken, it is not reported either. `docs/decisions.md:183` calls
  documentation "that vanishes without a word" the "one failure a doc tool must
  not have". `DocsKept` says this without an exception; `OtherDocsKept`, which
  the run checks on the same text, leaves out the comments before a base and no
  others.
- *A second message* (`FrontEndMessages.cfg`, `MCFrontEnd`, `OneMessage`). The
  recovery of a statement stops past the first semicolon, also inside a block of
  the statement it gave up (`src/parser.c:198`). After `if { a(); }` with its
  condition lost, the closing brace of the block ends the function and the one
  of the function is reported as no item. The comment at `src/parser.c:11` says
  "one mistake produces one message". A lost brace may bring more than one
  message without contradicting it, and is not counted.
- `reserve_slots` (`src/lower.c:4277`) does not look into switch arms, `try`
  bodies, handlers and deferred blocks, and nothing else gives a local its slot,
  so a local in memory declared there has none of its own.
- A `for` range compares its counter as a signed value whatever its type is, and
  adds the stride before it compares (`src/lower.c:3502`): a stride that leads
  past the largest value wraps and the loop goes on.
- `split_slots` takes the first `ptradd` that defines an address for its only
  one (`src/optimize.c:1192`).
- `simplify` rewrites products and quotients of types whose width is the
  target's, which the comment at `src/optimize.c:312` excludes.
- `bundle` and `build_c_library` start `llvm-ar` by its bare name
  (`src/driver.c:1290`, `:1452`), although an installed antic "finds llvm-mc and
  llvm-ar beside itself" (`:1225`).
- `--dev --lib` on a module without `main` ends with 0 and leaves an object and no
  library. The read loop of `process_capture` stops at an interrupted read, the
  wait does not.
- The lexer steps over an unexpected character by the length of its UTF-8
  sequence (`src/lexer.c:1129`). After an unterminated character literal with an
  escape of a multi-byte character it stands inside one, the length is 0, and it
  never ends. Texts with such a literal are not among those of the run.
- `sync_item` starts at depth 0 also inside a class body, so a mistake in a member
  can bring a second message, and it stops at no `class`, `enum`, `worker` or
  `internal`. `MistakesStayLocal` speaks of items that open with a word it stops
  at.
- `let n = try f() catch { }` is accepted and `try` ignored.
- The reader of library files makes a new type of an enum of another module
  (`src/antl.c:1140`), where a struct is looked up; the modules of the run have
  no such enum. The depth of nested constants is bounded in the reader and not
  in the writer.

Two comments disagree with the code without consequence for a run. "A constant
never spills" (`src/regalloc.c:334`, `:880`): the short range of a re-emitted
constant still spills when every register is taken by ranges of a higher weight. "`join` of one writes
nothing" (`rt/threads.c:390`): `join` of a null handle sets the result to zero.

## Proofs

TLAPS proves the following for every value of the constants, from
`PoolAssumption` (the identities of main, jobs and chunks are distinct and none
is the null pointer; there are finitely many pool threads),
`RegisterAssumption` (registers are natural numbers, finitely many virtual
ones), `ProgramAssumption` and `ConventionAssumption` (see "Register
allocation"), `ObjectAssumption` (the types of the class tables) and
`BuildAssumption` (files that antic did not make have the content of their kind,
arguments are words and paths, antic runs on a target it knows). TLC evaluates
them in the runs.

*Type correctness of the pool* (`TypeCorrect`). `TypeInv` adds to `TypeOK` what
the types rest on: a body in `join` or `help` deals with a job and one in `own`
or `inline` with a chunk (`ArgOK`); the call that owns the pool is open, has at
least as many chunks as were taken and belongs to the body that waits for it
(`ActiveOK`). Lemmas say that `Link` and `Unlink` give lists of jobs and that
the number of chunks is at most the number of elements.

*The life of a job* (`ObjectsExclusive`, `QueueIntact`, `QueuedNotStarted`,
`FreedIsUnreachable`, `JoinGivesResult`). None of these is inductive alone.
`JobInv` joins them with the facts that carry them: jobs in flight are live, not
done, and have different objects, and every job whose worker runs is in flight
(`FlightOK`); a handle that is being joined is held by the body that joins it,
so two joins never free one record (`JoinOK`); a thread that runs a job is the
only one, and so is a join that helps (`RunnerOK`); a worker has run once when
it has left idle, and its result is there at its end (`OnceOK`); what `join`
wrote (`AnswerOK`). The steps of `parallel` and of threads leave jobs alone and
are dealt with once (`QuietStep`); the other actions have a lemma each.

*A `parallel` call* (`RecordOutlivesChunks`, `ChunksRunOnce`, `SlicesPartition`).
The record of a call lies on the stack of its caller, so the question is whether
a pool thread can still be at a chunk when the caller finds `finished` equal to
the number of chunks. `ChunkInv` joins `JobInv` with what answers it: pool
threads hold only chunks of the active call that are taken (`HolderOK`); the
counters `taken` and `finished` differ by exactly the threads that have still to
count and the caller when it runs a chunk itself (`CountOK`), so equal counters
mean that nobody is left; the caller of an open call is inside it (`CallOK`); a
chunk that runs is run by somebody (`HeldOK`); and which chunks have started and
ended is a matter of the counters, or of the position of the loop for a call
that runs inline (`ProgressOK`). There is a lemma for every action that touches a
call; the others are one lemma (`Aside`). `SlicesPartition` is arithmetic:
`SlicesInOrder` and `SlicesCover` show for every length and every number of
chunks that slices lie side by side and cover the array.

*The pool implements the board* (`PoolImplementsBoard`). The abstraction at the
end of `ThreadPool` reads a job's state off its record and its phase, and a
chunk's off its phase. `PoolInv` adds to `ChunkInv` that a dispatched job that is
not done is in the list of jobs in flight (`LiveOK`), without which the pool
could dispatch an object the board has not given back, and that a call not yet
made has no chunks (`FreshOK`). Then every action is mapped: taking a job by a
pool thread and by a join that helps are both the start of a worker on the board,
`finish_one` on either side is its end, both ways out of `join` are a join, a
chunk taken by a thread, by the caller and by the inline loop is the start of a
chunk, and threads that start, wait, wake and count are stutters.

*Linear scan* (`ScanNoSharing`, `ScanRespectsFixed`, `ScanPlacesOnce`): for any
intervals, fixed ranges and register sets, two intervals that overlap never
share a register or a slot, no interval holds a register across a range in which
the machine code names it, and every interval that has been dealt with has one
place. `ScanInv` adds that intervals still to come have no place (`LeftOK`), that
no two active intervals hold one register (`ActiveOK`), that an interval that
keeps its register and has left the active set ends before every interval to
come (`PassedOK`), and that a new slot is above every slot in use (`SlotOK`).
Without `PassedOK` a step could hand out the register of an interval that the
new one overlaps, which is why `NoSharing` is not inductive alone.

*Liveness is exact* (`LivenessExact`): for every control flow graph,
`compute_liveness` ends with the registers that some path reads before it writes
them, no more and no fewer. `LiveInv` says that what has been found is live at
any time, and that a sweep that has changed nothing so far has the dataflow
equations at every block it has passed, since they are stated in sets the sweep
did not change. So a sweep without a change ends in a solution, and a solution
within the live registers is the live registers: the blocks where a register is
not in the solution cannot be left without writing it (`SolutionExact`). The
search that defines the live registers stops after as many turns as there are
blocks, because a turn that does not end it finds a new one (`SearchCloses`).

*The whole allocator* (`AllocationNoSharing`, `AllocationRespectsFixed`,
`AllocationPlacesOnce`): the scan's theorems again, for `AllocSpec`, where the
intervals, fixed ranges and the order of the scan are what `BuildIntervals` makes
of the code. `PlaceInv` carries the invariant of the scan and of liveness together
with what was built: an interval covers every position where its register is
written, read or alive at an end of a block (`Covers`), and a fixed range covers
the stretch from each write of a physical register to its last read
(`FixedCovers`).

*The allocation is not seen* (`AllocationUnseen`): for every function that is
`WellSelected`, `ReadsMatch` holds at every step of its run, whatever was spilled,
dropped or copied. `SimInv` is the simulation. `Needs(b, x, v)` and
`NeedsFixed(b, x, r)` say that from position `x` of block `b` a register is read
before it is written, and `Agree` that each of these has one value in both runs,
`v` in the register or slot where the scan put it. A step keeps `Agree` for
three reasons. What an instruction reads arrives: its
reloads go to scratch registers that differ from each other and that it does not
name (`ReloadsApart`, which needs at most two reads of a class). What it does not
touch stays: two registers that are needed at one position have intervals that
overlap there, so they have different places (`OtherKept`), and no fixed range
meets them. And a jump lands where liveness says
(`Leaving`, `Landing`; blocks without instructions are passed through). A constant
whose definition was dropped is never needed from a register (`DroppedUnneeded`):
each of its reads has a copy of its own in front of it, made in the order of the
operands (`CopiesHold`, `MadeApart`). `Standing` carries what no position needs:
registers that nothing writes, and that a dropped constant has only one value.

*Callee-saved registers* (`CallerRegistersKept`): the rewritten code writes
scratch registers, registers the machine code names and registers the scan
handed out, and the last are saved when they are callee-saved. `SavesInv` is
that statement about the code at every position, which needs that the copies of
constants are instructions of the function with registers of their own
(`RebuiltFits`, over the loop of `rematerialise_constants`).

*The frame* (`FramePartsDisjoint`): what the two loops of `layout_frame` compute,
for any sizes and alignments of slots and any set of saved registers of 8 and 16
bytes. The loops are recursive functions; that they have values at all is proved
by induction over the turns (`UpTo`, `LoopExists`), from the well-foundedness of
the natural numbers and without the library's induction theorems, and the order
and alignment of the parts by the same induction (`SlotsInOrder`,
`SavesInOrder`).

*Ownership* (`SpecOneOwner`, `SpecFreedOnce`, `SpecNoLeak`, `SpecOwnedIsWhole`):
for any classes that are `Flat`, any number of blocks and any depth of destruct
bodies. `OwnInv` puts the four together, since none is inductive alone: a block
is freed once because it has one owner, and it has one owner because the blocks
of a copy are new. It adds that a block malloc has not given is untouched
(`FreshOK`), that live memory without an object is not empty (`RawOK`), so that
`copy` never skips an owned slice, and that an own field refers to a block of
the class of the field (`RefOK`). With `Flat` the last gives
`OwnedOwnsNothing`: what is owned owns nothing, which is why one level of copies
and frees is enough. There is a lemma for each action; the counting of `FreeOwned` rests on
`FreedCount`, that at most one own field refers to a block.

*Libraries are resolved* (`Resolved`): for any files, imports and search roots.
The loops of `find_libraries` and `load_libraries` are recursive functions, each
with a lemma that they have values (`LoopExists`, `UpTo`) and one for what a turn
keeps. The search ends, because a round that does not end it adds a file that is
there and not yet found (`RoundsEnd`), and every import is then answered
(`FindIs`). The load ends with every file, a damaged one, or files that are stuck
(`LoadFromIs`). When they are stuck, each of them imports another that is stuck,
so one of them reaches itself: the one whose reach is smallest (`Circle`).
The other way round, files in an order after what they import are in no cycle
(`OrderedIsSound`). `LoadIs` puts the two together: the load accepts exactly
the loadable sets. `ResolvedIn` carries this from the files a command starts with
through its steps.

*A build and its files* (`Untouched`, `NoOverflow`). `BuildInv` says that the
options are typed, that a child runs only for a step that starts one, that every
command line still to be run fits (`StepsFit`), and that a command which compile
refuses has only to fail. `FilesFit` says that sources and library files can be
read. Together they are `Builds`. `Fits` is shown for every target and linker
from the argument lists of `Linker`, over any number of objects and members.

*Exit status 0 means built* (`Built`). `ExitZeroMeansBuilt` says nothing before
the end of a command, so the invariant is about what is left to do. `Left` is
`todo` without the step whose child has already done its part. `D` gives every
path the content it is to hold; `Flow(D, L, f, goal)` says that the steps `L`,
run from the files `f`, make exactly that: what a step makes of the contents in
`D` is in `D`, what a tool reads was made by an earlier step or already holds what
`D` says, and an archive is removed right before `llvm-ar` makes it. `Whole` adds
that no file of the goal stays missing. Both pass from `L` and `f` to the tail of
`L` and the files after its head (`FlowStep`, `WholeStep`), which is the whole of the
induction over a command. A listing of the runtime's members stands for steps that
are not known before it is read; `Stands` relates the steps to those they come to,
and `Keeps` that what was read, what is in the pipe and what the child still has
to write are the members, in their order. So the last state has the files of
`Wanted`. What remains is that the first state has the promise: `StepsPromise` goes
through `driver_run`, output by output. It rests on the paths of one build being
different (`SidesAre`, `BetweenLast`), which is where the suffixes count, and on
`Apart`, the hypothesis of the property: `-o` and the objects of the command line
name no file that the build writes on the way. A step that must fail for want of
the host's files or of a sysroot makes the promise void (`Doomed`), and the
command does not reach status 0.

*Every binary carries its notices* (`Carried`). `NoticeComplete` is about all
binaries at all times, those of earlier commands and of commands that were killed
included. `NoticeIs` says what `build_notice` and `notice_text` make of any list
of packages: each name once, and each text with the name of every package of
that text, if packages of one name have one text, as the
hypothesis of `Noticed` says. `PackagesAre` has it that the packages of the load
order are those of the files found, which is where `LoadIs` is needed, and
`Due` that what compile leaves to be linked carries its notice. The invariant
`Notices` says that every binary on disk does (`AllCarry`) and that at most one of
the steps that are left links, reads the object of this unit first, and that the steps
before it make this object (`Linking`). This holds without `Apart`: the
assembly file and the object are distinct from the header, the `.def` file and each
other whatever `-o` is (`Core`), and no other step before the link writes to the
first two. A killed linker leaves a file that is no binary.

*Only model-checked.* Liveness (`JoinReturns`, `ParallelReturns`, `JobsFinish`,
`CommandEnds`) is outside the prover. So are the properties of `Compile`
(`SameBehaviour`, `Verified`, `PassesEnd`) and `FrontEnd` (`ReadBack`,
`TokensTile`, `OtherDocsKept`, `MistakesStayLocal`, `InterfaceKept`, `DamageRefused`):
their operators are recursive over trees, code and bytes, as the code is, and
what they say needs induction over that data.

## Not modelled

Memory that runs out ends the process in the compiler and in the pool, and is
left out there; in `dup` it is modelled. The reading operations of `rt/object.c`
(`equals`, `hash`, `serialize`, `to_text`) change nothing. `ANTI_THREADS` and the
number of processors only choose how many pool threads there are, which is a
constant. The Windows variants of lock, condition variable and process promise
what the POSIX ones do. The epilogue's text, register names and instruction
spelling belong to the back ends.

Of the modelled parts: `lower.c` without descriptors and method tables, texts and
slices, `parallel` and `dispatch`, and the lifting of initialisers;
`ir_optimize_module`, which drops the bodies of libraries; floats, atomics and
bit fields of the IR machine; the dumps of the driver. The cached layout state of
types and the wording of messages are left out of the front end.

`sema.c` is the largest part that is not modelled: it accepts or refuses a tree
and annotates it. It has no steps and no state beyond its tables, and a model of
its rules would repeat them. The components with status `not_modelled` in
`PROJECT.json` are not modelled yet or, for wrappers of system calls, printing
and support code, keep no state that a model would show anything about.

## Plan

1. The rest of `rt/`: own fields outside `Flat` and replaced `copy` entries in
   `Objects`; `rt/signal.c` and `rt/atomic.c`.
2. `Selection` and calling conventions: use counts, folding, argument places,
   against `Machine`.
3. `Layout`: offsets and alignment as operators against a reference definition.
4. Import order, cycles and constants of `sema.c`.
5. The hash table of `anti.collection` and the rotation of `anti.log`.
