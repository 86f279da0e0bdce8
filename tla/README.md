# A TLA+ model of Cilk 5.4.3

This directory holds TLA+ models of Cilk 5.4.3, its runtime system and its
compiler `cilk2c`, the TLC configurations that check them on small instances,
and TLAPS proofs about the runtime's protocols. It is meant to be read beside
`src/runtime` and `src/cilk2c`. Line numbers below are those of the sources.

1. [The system and its parts](#1-the-system-and-its-parts)
2. [The modules](#2-the-modules)
3. [What each run checks](#3-what-each-run-checks)
4. [Fairness](#4-fairness)
5. [What is proved](#5-what-is-proved)
6. [Disagreements found](#6-disagreements-found)
7. [What is only model-checked, and what is not modelled](#7-what-is-only-model-checked-and-what-is-not-modelled)
8. [Plan](#8-plan)
9. [Running](#9-running)

## 1. The system and its parts

Cilk is C with `spawn`, `sync`, `inlet` and `abort`. The compiler `cilk2c`
turns every Cilk procedure into a *fast* clone, which runs like a C function,
and a *slow* clone, which resumes from a frame after a theft. The runtime
schedules the frames on a fixed set of workers by work stealing. `PROTOCOLS`
(in `src/runtime`) describes the closures' states and the rules of locking; the
long comments of `sched.c` describe the T/H/E protocol and aborts.

| Part | Source | State | Operations |
|---|---|---|---|
| T/H/E protocol | `sched.c`, `cilk-cilk2c-pre.h` | per worker a stack of frame pointers and head, tail and exception pointers into it | `init_frame`, `before_return`, `pop_check`, `Cilk_exception_handler`, the Dekker part of `Closure_steal`, `signal_immediate_exception` |
| Closures and ready deques | `sched.c` | the closure tree with join counters and two lists of children per closure; a deque of closures and its lock per worker | `Closure_steal`, `promote_child`, `finish_promote`, `Closure_return`, `Closure_suspend`, `provably_good_steal_maybe`, `Cilk_sync`, `Cilk_set_result`, `do_what_it_says`, `Cilk_scheduler` |
| Inlets and abort | `sched.c` | `complete_list` and `abort_status` per closure | `apply_inlet`, `poll_inlets`, `signal_abort_from_inlet`, `recursively_signal_abort`, `Cilk_abort_slow`, `abort_ready_closure` |
| Start and end of a computation | `invoke-main.c`, `sched.c` | the `invoke_main` closure, `done` | `invoke_main_slow`, `Cilk_create_initial_thread`, `Cilk_remove_and_free_closure_and_frame`, `Cilk_exit` |
| Worker pool | `workers.c`, `cilk.c` | a mutex, condition variables, four flags and counters | `Cilk_wakeup_workers`, `Cilk_worker_wait_for_invocation`, `Cilk_worker_is_done`, `Cilk_terminate_children` |
| Internal malloc | `internal-malloc.c`, `cilk-cilk2c-pre.h` | free lists with counts, global and per worker; a pool; a lock | `Cilk_internal_malloc`, `Cilk_internal_free`, `im_allocate_batch`, `im_free_batch`, `global_im_alloc` |
| Barrier | `barrier.c` | counter, release flag and lock; a direction per worker | `Cilk_barrier` |
| Mutex | `mutex.c` | one word, or a posix mutex | wait, try, signal |
| Critical path and work | `cilk-cilk2c-pre.h`, `sched.c` | `cp`, `mycp`, `work` of frames and closures, `cp_hack`, `work_hack` of workers | one update at each spawn, return and sync |
| Time accounting, statistics | `timing.c`, `stats.c` | a stack of states and counters per worker | enter and exit a state, count an event |
| Command line | `cmdline.c` | options, `argv` | parse |
| Syntax trees | `cilk2c/ast.c`, `ANSI-C.y`, `container.c` | a heap of nodes, with links from jumps to what they leave or reach | one constructor per node |
| Data flow | `cilk2c/dataflow.c` | a flow value; a confluence point per loop, switch, label and procedure | `IterateDataFlow`: sweeps until nothing changes |
| Analyses | `cilk2c/analyze.c` | live and dirty variables of each spawn, sync and return; what may be returned; children that may be outstanding | transfer functions and meets |
| Transformation | `cilk2c/transform.c` | the clones and the linkage table of a procedure | one routine per statement and clone |
| Symbol tables | `cilk2c/symbol.c` | hash chains with symbols of open and closed scopes; level and versions | enter and exit a scope, insert, find, rename, delete |
| Types and constants | `cilk2c/type.c`, `conversions.c`, `sem-check.c`, `constexpr.c`, `c4.l` | the type and the constant of each expression | specifiers, conversions, one check per operator |
| Lexer, parser, printer | `cilk2c/c4.l`, `ANSI-C.y`, `complex-types.c`, `output.c`, `verify-parse.c` | the stack of the parser; open declarators; the output column | one action per production, declarators and declarations, one routine of the printer per node |
| Passes | `cilk2c/elide.c`, `simplify.c`, `profile.c`, `sideeffects.c` | the tree, rewritten from the leaves up | elide Cilk, simplify GNU C, insert calls of the access profiler |
| Tree patterns | `cilk2c/astEquals.c`, `astModify.c`, `wildcardTable.c`, `stringParse.c` | a table from wildcards to trees | compare, match, fill in, replace all |
| Initializers | `cilk2c/initializer.c` | what is left of a list, shared by nested calls | walk a list along a type |
| Other parts of `cilk2c` | `cilk2c/sue.c`, `atmTransform.c`, `hint.c`, ... | | check tags, transactions, hints |
| `cilkc`, documents, examples | `src/support`, `src/doc`, `src/FAQ`, `src/examples` | | |

**How the parts meet.** `Cilk_start` puts the `invoke_main` closure into worker
0's deque and wakes the pool; every worker runs `Cilk_scheduler` until `done`.
A worker runs fast clones on its frame stack, without any lock: it stores the
frame, raises T, and on return lowers T and compares it with E. Everybody else
who wants something from a running closure takes the deque's and the closure's
lock and moves H (a thief) or sets E to infinity (a child that returned, an
abort). The owner notices at its next return, and only then takes locks.
A theft splits a closure: the stolen parent gets a closure of its own for what
is left, with a join counter; returning children put an inlet on the parent's
`complete_list` or, if nobody runs the parent, apply it themselves. Frames and
closures come from the internal allocator, in whose lists they migrate from
worker to worker.

**What is hard.** Loads and stores race without locks, on machines that reorder
them (T/H/E, the barrier). A step of a thief, a returning child, an abort and
the owner can meet at one closure in any order, with locks that are released
and retaken in between; closures are freed while others may hold pointers to
them. Nothing may sleep with work left (suspended closures, sleeping workers,
inlets nobody polls). A lock may be needed by someone who holds it
(`global_im_lock`). In the compiler the difficulty is a protocol of another kind: fast clone,
slow clone and linkage table must agree on what is where at each point where a
frame can be stolen, and the analyses that decide it share bit vectors, go
round loops in sweeps, and see the tree in an order that must be the one the
generated code runs in. The hazards, each at its line, are listed in
`PROJECT.json`.

**What makes each part correct.**

- *T/H/E*: every frame is run on by exactly one of its worker and a thief; a
  signal sent to a running closure is seen by its worker.
- *Closures*: each closure is in one place; the join counter counts what has
  not returned; each result is used once, by a procedure that still waits for
  it; a sync waits for all children; nobody sleeps for ever.
- *Abort*: it reaches the whole subtree, no result of it is used afterwards, and
  nothing outside of it is lost.
- *Pool*: a call that starts a computation returns when it is over, not before,
  and then no worker is near it; all threads end.
- *Allocator*: a block has one owner; blocks do not overlap; counts are true;
  the holder of the lock does not wait for it.
- *Barrier*: a rendezvous, again and again.
- *Critical path*: the numbers printed are the work and the span of the dag,
  whatever the schedule.
- *Data flow and transformation*: whenever a frame is stolen, the slow clone finds
  in it the value of every variable it goes on to read, and the child's result
  goes where the source says; every clone returns with no child outstanding.
- *Symbols*: a name means its innermost declaration.
- *Types and constants*: those C gives the expression.
- *Initializers*: with the braces put in that the program left out, every part of an
  object has the value it had.
- *Printer and parser*: what is printed is read back as the same tree.
- *Passes*: the program they make does what the given one does, and the profiler is
  told of every access.
- *Patterns*: a match says that the trees are the same but for the wildcards, and one
  wildcard stands for one tree.
- *Mutex*: exclusion, and memory ordered around it. (Planned, section 8.)

## 2. The modules

| Module | What it is |
|---|---|
| `WorkDeque` | abstract: the frames a worker owns, and those stolen from it |
| `THE` | the T/H/E protocol, one shared-memory step per action; implements `WorkDeque` |
| `Scheduler` | closures, deques, inlets, aborts, start and end of a computation |
| `Workers` | the pool of threads around computations |
| `InternalMalloc` | the allocator |
| `Rendezvous` | abstract: what a barrier promises |
| `Barrier` | the barrier, down to the order of its stores; implements `Rendezvous` |
| `CriticalPath` | the measurement of work and critical path on a given dag |
| `SyntaxTree` | terms, and the heap of nodes they are stored in |
| `DataFlow` | the data-flow framework, parameterised by meet and transfer function |
| `Analyze` | the four analyses as instances of `DataFlow`, one sweep a step |
| `Transform` | the clones, linkage and inlets of an analysed procedure |
| `Clones` | the generated code run under every pattern of steals |
| `Scoping` | abstract: what a symbol table promises |
| `SymbolTable` | the hash chains and their stale symbols; implements `Scoping` |
| `CArithmetic` | what C says of integer types, conversions and operators |
| `Expressions` | what `cilk2c` makes of them |
| `Initializers` | the walk of an initializer along a type, and what the initializer means in C |
| `Nodes` | the syntax trees with all their fields, and their constructors |
| `Lexer` | words and punctuation, the longest match |
| `Declarators` | types and declarations as they are put together |
| `Parser` | the productions of the grammar with their actions, and `VerifyParse` |
| `Printer` | the printer, with and without room for white space |
| `Trees` | trees that grow node by node |
| `Passes` | elision, simplification, side effects |
| `Profile` | the calls of the access profiler |
| `Meaning` | reference: what a tree does when it is evaluated |
| `Patterns` | equality of trees, patterns with wildcards, replacement |
| `Rewrites` | the trees of `Trees`, of memory and of Cilk, and the properties of all of these |
| `MC...` | instances for TLC, where a model needs more than constants; `THE`, `Scheduler`, `Workers`, `InternalMalloc` and `Barrier` are checked as they are |
| `THEProofs`, `WorkersProofs`, `InternalMallocProofs`, `BarrierProofs` | theorems and proofs |
| `SchedulerInvariant` | the inductive invariant of `Scheduler`, and what each operation does, as lemmas |
| `SchedulerFrames`, `SchedulerProofs` | that its steps keep the invariant; where closures are |
| `SchedulerTree` | the invariants of the tree of closures, of inlets and aborts, and of frames and their results, and the theorems that follow |

Definitions keep the source's names. A definition with the comment *mutant* is
a plausible slip in the definition below it; no action uses it. It documents
which property would catch the slip.

### THE

One worker, the *victim*, whose stack others steal from; `Thief`s that run
`Closure_steal` against it; `Signaler`s that send exceptions. The variables `H`,
`E`, `T` are `cache.head`, `cache.exception` and `cache.tail` as indices into
`slots`, the frame stack. The victim's stores to the stack and to T go through a
store buffer: `T` and `slots` are its own view, `Tm` and `mem` what others see,
`DrainTail` and `DrainSlots` let stores reach memory in either order, and the
fences `StoreStore` and `StoreLoad` wait for them as
`Cilk_membar_StoreStore` and `Cilk_membar_StoreLoad` do. `SpawnStore` and
`SpawnPublish` are the two stores of `Cilk_cilk2c_init_frame`; `ReturnFast`,
`PopFence` and `PopCheck` are `before_return` and `pop_check`; the `Handler...`
actions are `Cilk_exception_handler`; `SlowReturnLock` and `SetResult`,
`SyncLock`, `SyncSuspend` and `SyncPass` are the slow clone's return and sync
as far as they touch the protocol; `DekkerRaise`, `DekkerLose` and `DekkerWin`
are `do_dekker_on` with `promote_child` inside the locks. Frames are numbered
in the order of their creation and each number is used once, so that "the same
frame" means something.

The refinement: `WorkDeque!frames` is the slots from H to T, with one more as
long as a return is undecided (T lowered, E not yet compared): who gets the last
frame is decided when the victim compares or the thief does, not before.

### Scheduler

Several workers run a nondeterministic program: in any running procedure, any
of spawn, return, sync, abort or `Cilk_exit` may come next, so a run covers
every program with at most `MaxProc` procedure instances. A closure has the
number of its frame. Each step that takes a lock, and each stretch of code
between a lock taken and the next, is an action; `pc[w]` names the place. The
Dekker race is one step here (it is the subject of `THE`): E is either H or
infinity (`signalled`), and a thief's E++, test and H++ are atomic.
`recursively_signal_abort` keeps its stack of closures in `walk[w]`, one entry
per level with the children still to visit, because it locks each child while
it holds the parent, and other workers return and steal in between. `out[f]`
records what became of a procedure's result (pending, delivered, discarded), a
history variable for `ResultOnce` and `SyncWaits`. `ReturnLockParent` is one step where
the code locks and unlocks the returning child (`do_what_it_says`, sched.c:1561 and 1599)
before it locks the parent (1178): only the walk of an abort can want the child's lock in
between, and it holds the parent's while it waits. The step therefore asks that the
child be unlocked, which is the first part of `RuleD` at that place.

### Workers

The main thread and the threads of `Cilk_create_children`. `workers_mutex` is
held through one action at most, so each action is a critical section.
Condition waits can return spuriously. `done` is set by any worker in the
scheduler once the closure has been taken up. `DoneLeftSet` and the other
mutants drop the resets in `Cilk_start` and `Cilk_wakeup_workers`.

### InternalMalloc

`free[<<owner, size>>]` and `count[...]` are the descriptors; the owner is a
worker or `Global`. A call is an action if the worker's own list serves it
(`Malloc`, `Free`); otherwise the worker takes `global_im_lock`
(`AllocateBatch`, `FreeBatch`) and moves half a batch, block by block
(`AllocateOne`, `FreeOne`), as `im_allocate_batch` and `im_free_batch` do by
calling `Cilk_internal_free` and `Cilk_internal_malloc`. The pool is the latest
chunk with its cut; a block is its chunk, offset and size.

### Barrier

`Cilk_barrier` statement by statement. The last worker to arrive stores to
`barrier_counter` and `barrier_release` without a fence in between: its stores
are in `pending` until the machine performs them, in order if `InOrder`,
else in any order. Its next atomic exchange waits for them.

### CriticalPath

The program is a constant: for each procedure the spawns and syncs it makes and
the cost of the strands between them. A worker has a stack of frames and the
time since its last look at the clock; a step is a hook of `cilk-cilk2c-pre.h`
with what it does to `cp`, `mycp` and `work` of the frame and to `cp_hack` and
`work_hack` of the worker, or a theft, a return to a stolen parent, a suspension
or a resumption with what they do to the closure. The deque and the closures
are atomic, as in the abstract view `Scheduler` justifies.

### SyntaxTree, DataFlow, Analyze, Transform, Clones

A procedure is written as a nested term and stored as a sequence of nodes in
preorder; the index of a node is its identity, as the address is in the
compiler, and the analyses hang their results on it. Every node of a procedure
that the source's `DataFlow...` functions treat is there; types are not.

`DataFlow` keeps all that a sweep changes in one record: the tree, the chunk of
variables, the flow value, the confluence points, the flag `changed` and the
results. Each `DataFlow...` function of the source is an operator from such a
record to the next. `Analyze` is a machine whose step is one sweep: over each
chunk of `MAX_BITVECTOR_LENGTH` variables first live, then dirty variables, then
the return flow and the sync flow, with the confluence points kept from one to
the next as the code keeps them.

`Transform` gives a clone as the sequence of the *accesses* the generated C makes:
reads and writes of a variable in its register or in the frame, saves and
restores, the store to `header.entry`, calls, syncs, returns and labels; this is
all that the protocol with the runtime depends on. `Clones` runs it. A thief may
take the frame at any spawn; the slow clone then starts with registers that
hold nothing; children return at any time, to the frame or to the queue of
inlets. An inlet makes all the accesses of its branches (`RunInlet`); what the inlets of
the procedures in the run write in a branch they read before it, so that no write hides a
stale copy. `inReg` and `inFrame` say which copies of a variable are current.

### Scoping and SymbolTable

`SymbolTable` keeps, as the code does, symbols of scopes that are over in the
chains: level and version say that they are stale, and operations free them
when they come across them. The refinement: the scopes are the symbols that are
not stale.

### CArithmetic and Expressions

`Expressions` is the value stack of a parser. A step pushes a constant of the
lexer, a variable or a type specifier, or builds an expression from the top of
the stack, checks it as `sem-check.c` does, converts as `conversions.c` does and
folds as `constexpr.c` does. An expression on the stack is its type and its
constant, all that the rules look at, so that expressions of any size are
reached, and beside it the operand C says it is, by `CArithmetic`, which states
types by rank and range where the code has a case for each pair. Integers have
the widths of `Width`. What is known to differ (section 6) is kept out by
guards named `Known...`.

### Initializers

The state is a declaration that grows: its type from the inside, then its list
item by item; the last items are put in braces, labelled, or made a compound
literal. `SemCheckInitList` is the walk of `initializer.c`. In the code nested calls
eat up one list that they share; here the rest of the list is part of what each
returns. `CInit` states C99 6.7.8 another way, with a cursor over the scalars of an
object and no descent into the type, and gives the value of each scalar. The ways
on which the code is known to go astray (section 6) make the cursor lose its
flag `plain`. `MCExpressions` runs `Expressions` and `Initializers` beside each
other, each while the other is at rest.

### Nodes, Lexer, Declarators, Parser, Printer, Trees

`Nodes` has the trees of `ast.h` whole: a node has its type, one datum, its
qualifiers and its children in the order of `ASTWALK`; `SyntaxTree` is the
abstraction of them that the analyses need. A step of `Trees` is one constructor:
it puts the tree into one more node, at each place where the node has a child of
that kind, as the parser and the transformations do; the other children are
leaves. The tree is then put into a program and printed. A text is a sequence of
pieces; the printer leaves white space to the columns of the source, so `Printer`
has the constant `Room`, which says whether there is any. `Lexer` cuts a run of
characters into its longest tokens, wherever the pieces end. `Parser` is the
grammar by recursive descent: for each nonterminal an operator from a position to
the node that the actions of its productions build, and the next position; the
levels of binary operators are one operator with a precedence. `Declarators` has what
the actions call: chains of pointers, arrays and functions with an open end, set
later, and qualifiers that move to the declaration.

### Passes, Profile, Meaning, Patterns, Rewrites

The passes are operators from trees to trees, one case per node as in the
`switch`es of the source; `NodeDataType` gives the types that the checker has
annotated, from the declarations in `Scope` and `Fields`. `Meaning` evaluates a tree to
the sequence of its stores, calls and jumps, on values that are terms; accesses to
memory and what the profiler is told are kept apart in a log, in their order and with
the number of events before each. An assignment, `op=` or `++` is one access, when its
place is known, and a bit-field stands for its struct, as `profile.c` has it. It evaluates operands from left to right, of
which C leaves the order open: a pass that changes the order of two effects is
taken to change the program.

`Patterns` walks two trees side by side as the macros of `astEquals.c` do, with
the table of wildcards as state, and gives the answer and the table. `Rewrites` adds to
`Trees` the trees that access memory through variables of known types, and the Cilk
statements for elision.

## 3. What each run checks

Distinct states are those TLC finds; every passing run explores all of them.

| Run | Instance | States | What it checks |
|---|---|---|---|
| `the_protocol` | `THE.cfg`: 2 thieves, 1 signaler, 4 slots, 6 frames | 186,957 | `IInv`, the inductive invariant of the proofs; `NoFrameRunTwice`: the worker's frame was not stolen; `SignalNotLost`: E set to infinity stays so until the handler or a new closure; `TakenOnce`; `DequeSpec`: `THE` implements `WorkDeque` |
| `scheduler` | `Scheduler.cfg`: 3 workers, 4 procedures, 1 abort | 1,134,174 | where closures are (`OnePlace`), the tree (`JoinCountsChildren`), freeing (`RuleD`), the assertions of `sched.c` (`Assertions`), wake-ups (`NobodyForgotten`), aborts (`AbortReaches`), results (`ResultOnce`: each is used once, and without an abort none is lost; `SyncWaits`), the end (`DoneIsDone`), and no deadlock |
| `completion` | `Scheduler_live.cfg`: 2 workers, 4 procedures, 2 aborts | 49,749 | `Completes`: the computation ends and all workers leave the scheduler |
| `workers` | `Workers.cfg`: 3 threads, 2 computations | 1,695 | `MainAlone`: no worker near the scheduler while main resets or frees its data; `IInv`; `ReturnsWhenDone`: `Cilk_start` does not return too soon; `CallsReturn`: it returns, and after `Cilk_terminate` all threads have ended |
| `malloc` | `InternalMalloc.cfg`: 2 workers, 1 size, batch 4, chunk 5 | 232,921 | `IInv` (a block is in one place, counts are true, blocks do not overlap); `NeverNeedsOwnLock`; `BooksBalance`: the leak check is exact; `NoBlowup`: idle memory is bounded by batches; `Returns` |
| `barrier` | `Barrier.cfg`: 3 workers, 3 rounds, stores in order | 4,610 | `Rendezvous`: implements the abstract rendezvous; `Reusable`: every round ends for everybody |
| `critical_path` | `MCCriticalPath.cfg`: 3 workers, a dag of 8 procedures | 7,067 | `MeasuresAreExact`: what is published at the end is the span and the work of the dag, and on the way nothing is lost or counted twice |
| `clones` | `MCClones.cfg`: 6 procedures, bit vectors of 2 variables, 2 children | 2,615 | `ReadsFresh`: no access to a copy of a variable that is not current; `ReturnsSynched`; `EntryNamesTheSpawn`: the entry in the frame, the label in the slow clone and the row of the linkage table are the same spawn's; `AnalysesSettle`: the analyses give what they would with one long bit vector (`ChunksDoNotMatter`), and each sweep moves a confluence point up or is the last (`SweepsAdd`) |
| `inlet_args` | `MCClones_args.cfg`: an inlet call with a side effect | violation | `ReadsFresh`, section 6 |
| `symbols` | `MCSymbolTable.cfg`: 2 names in one bucket, 3 symbols, 3 levels, 2 scopes a level | 10,359 | `TablesAreScopes`: the chains are sound (`ChainsSound`) and `SymbolTable` implements `Scoping` (`ImplementsScoping`) |
| `constants` | `MCExpressions.cfg`: char of 2 bits, int of 3, long of 5; 5 specifiers; stack of 2; types of 2 layers, initializers of 5 nodes | 234,010 | `FoldedIsC`: type and value of every expression; `DeclaredType`: the type of every list of specifiers, and which lists are errors; `InitializersMeanTheSame`: but for the ways of section 6, every initializer C accepts is accepted and keeps its values, an array without a length gets the right one, and of constants in braces nothing is accepted that C refuses |
| `trees` | `MCTrees.cfg`: trees of 2 nodes around a leaf, 3 around `int`, 4 around a variable's name (3 for printing and patterns); one operator of each precedence | 66,246 | `AllReadBack`: source, simplified and elided programs are printed and read back as the same trees; `AllWordsApart`: so they are without white space, `do` and `xbegin` apart; `PassesKeepMeaning`: simplification (but for section 6) and elision keep all effects, and what may be evaluated twice has none; `AccessesReported`: a profiled program does the same; each of its accesses is reported once, in advance, with nothing done in between (`Announced`); and the reports are the accesses of the simplified program in their order, each as often as it was made, with no repetition but the one of section 6; `MatchesAreExact`: matching at any two places of a tree, filling in, and replacing all |

Each property has a mutant in `PROJECT.json`: a slip in a modelled definition
with which TLC finds the property violated in the same run.

Configurations beside the runs:

| Configuration | Module | What it shows |
|---|---|---|
| `THE_giveup.cfg` | `THE` | `GiveUpOnlyWhenEmpty` is violated, section 6 |
| `Scheduler_ready.cfg` | `Scheduler` | `ReadyHasNoChildren` is violated, section 6 |
| `Barrier_weak.cfg` | `Barrier` | `Reusable` is violated if stores are reordered, section 6 |
| `MCClones_args.cfg` with `Programs <- LabelGotos` | `MCClones` | `ReadsFresh` is violated where a goto follows its label, section 6 |
| `MCClones_args.cfg` with `Programs <- InletReads` | `MCClones` | `ReadsFresh` is violated by an inlet's read, section 6 |
| `MCTrees.cfg` with `INVARIANTS KeepsCounts` | `MCTrees` | `KeepsCounts` is violated by an assignment to a cast, section 6 |
| `MCTrees.cfg` with `INVARIANTS ReportedOnce` | `MCTrees` | `ReportedOnce` is violated where a field is read, section 6 |
| `InternalMalloc_sizes.cfg` | `InternalMalloc` | `NoOverlap` holds for blocks of two sizes in shared chunks (20,233 states) |

**Why the bounds are enough.**

- `THE`: two thieves compete for the locks while one of them is at each point of
  its steal; one signaler is enough because signals are idempotent (E becomes
  infinity). On four slots a thief can steal twice from one stack while the
  victim pushes and pops around it, and with six frames the stack is abandoned
  and reused by a second closure with new frames. The proofs are for all sizes.
- `Scheduler`: with four procedures there is a root (`invoke_main`), a child, and
  either two grandchildren, so that the last two children of a closure race, or
  a chain of depth four, so that an abort walks two levels. Three workers let a
  thief, a returning child and the owner meet at one closure. Two aborts are in
  the second configuration, with two workers.
- `Workers`: with three threads one can be late, one inside and one done; with
  two computations flags can be left over from the first.
- `InternalMalloc`: batches of four and two, so that half batches are two and one
  (the code's least batch is eight);
  chunks of five bytes, which no size divides, so that chunks end inside a
  batch. The proofs are for all.
- `Barrier`: three rounds, because the sense repeats after two.
- `CriticalPath`: the dag has two children that race, a sync after which more are
  spawned, a nested procedure with the same, strands of no length, and costs
  such that the longest path changes sides with each mistake in a maximum; one
  worker can be stolen from twice and a thief be stolen from.
- `Clones`: the six procedures have between them every statement, jump and form of
  spawn; each has more variables than a chunk holds, so that bits mean
  different variables in the next chunk; with two children one can return before
  and one after the parent's next step.
- `SymbolTable`: two names that collide, and one symbol more than names, so that
  one shadows; each level is entered twice, so that a version differs.
- `Expressions`: signed and unsigned types of three widths, long of no power of
  two times int, so that every conversion narrows, widens or changes the sign;
  all values of each type. As the stack holds results and not trees, two
  entries are enough for all binary operators on all reachable operands (the
  ternary needs three and keeps its condition apart).
- `Initializers`: two layers of array, structure and union around a scalar, with a
  field before or behind, so that a list may leave out braces inside of
  something that has them; five nodes are two values more than the least object
  that can be begun and not ended. With three layers, and with six nodes, nothing
  else is found (1.5 and 1.3 million states).
- `Trees`: whether the printer needs parentheses depends on a node, its child and
  the side; whether two words touch, on two neighbours; what the passes do with a
  node, on it and its children, and on the node below in `a->b = ...` under another
  operator: hence two nodes (`MaxWraps`), three where one of them is the access to
  memory (`MaxPrintedWraps`) or a declarator, which needs a third to be wound around
  two others (`MaxTypeWraps`). An assignment through a cast to something with a side
  effect needs four (the side effect, a comma, the cast, the assignment): hence
  `MaxMemoryWraps` is four, where fields are also selected three pointers away.

All configurations check for deadlock, except those of modules that may stop:
nobody need call the barrier again, and trees are grown to a bound. `Scheduler` and `Workers` have an explicit
stuttering step for the state in which everything has ended.

## 4. Fairness

- `Scheduler!FairSpec` assumes strong fairness of every worker's step. Weak
  fairness is not enough, because the locks are test-and-set loops: a worker
  whose lock is free again and again may still never get it. That no worker is
  unlucky for ever is an assumption about the machine and the operating system,
  which the code relies on without saying so. It also stands for the random
  choice of a victim: the runtime picks one at random, hence every one again
  and again.
- `Workers!FairSpec`: weak fairness of the main thread and of each worker; a
  thread that can run does. Posix wakes a waiting thread only if somebody
  signals, and nothing is promised of spurious wakeups (they have no fairness).
- `InternalMalloc!FairSpec`: strong fairness of a call's steps, for the lock.
- `Barrier!FairSpec`: weak fairness of a call's steps and of the machine's
  stores, strong fairness of the lock. Nobody need call the barrier.

## 5. What is proved

All proofs are for every value of the constants that satisfies the named
assumptions, which say what the code does: the scheduler starts with at
least two stack slots, the batch is at least two (the option parser keeps it at
eight), a request fits some bucket, sets of workers are finite and not empty
(`cmdline.c` insists on `nproc` above zero).

**`THEProofs`.** `Invariance` proves `IInv` for any number of thieves, signalers,
slots and frames. `NoFrameRunTwice` is not inductive: that the victim may use
the frame below T after `PopCheck` depends on what thieves have announced in E,
what they may have read of T, and who holds the locks. `IInv` adds: each lock
is held by the process whose place says so (`LockInv`); how far H and T may be
apart at each place of the victim (`PlaceInv`); that memory never shows a T
above the frame being decided about, and shows the current T once a fence has
passed (`BufferInv`); that E is at least H, and more while a theft is announced
(`ExceptionInv`); and that frames on the stack are in the order of their
creation, all younger than the stolen ones (`StackInv`). From it:
`TypeCorrect`, `Exclusion` (no frame run twice), `ExceptionsSeen`,
`PromotionReadsCurrentFrame`, `ClosureStaysPut` (rule D), and the action
properties `SignalsKept` and `EachFrameTakenOnce`.
`Refinement` proves that `THE` implements `WorkDeque`: the owned frames are the
slice of the stack from H to `Top`, which counts the slot just left as long as a return
is undecided. The lemmas on slices say what moving an end does to the sequence;
then one lemma per abstract action: `Setup` is `Start`, `SpawnPublish` is `Push`
(the frame it publishes is the newest, `NewestInv`), the decision after a return or
in the exception handler is `Pop` or `Leave`, `DekkerWin` is `Steal` (what a thief can
read of T is at most `Top`, so it leaves a frame), and all other steps change
nothing the mapping reads.

**`SchedulerInvariant`, `SchedulerFrames`, `SchedulerProofs`.** `Invariant` proves `IInv`
for any number of workers, procedures and aborts. None of the properties of the
run is inductive: where a closure is depends on who has which lock at which
place in the code. The parts of `IInv` are: the locks of deques and closures are
held by the workers whose places say so (`DequeLocks`, `ClosureLocks`); the path
of an abort signal visits no closure twice and never has `Root` below another
(`WalkInv`); `Root` is never returned, and a closure is marked `ALMOST_NO_ABORT` only
while it is polled (`RootInv`, `AlmostInv`), which is why a returning closure has a
parent to return to; a closure whose worker runs frames above it, or that is not
promoted, has no join counted, no result and no promoted child (`FreshInv`); the
frames of a stack are a chain of children, those above the next to promote have
no closure, and are on no other stack (`StackInv`, `StacksApart`, `ChildApart`);
the closure a worker works on is at the bottom of its deque and is that of the
frame at its head pointer, or of the one popped last (`CurrentInv`); what lies above
is ready (`DequeInv`); what is in hand has the status that its place in the code needs
(`InHandInv`); and a closure is in one place, if it is to be run, runs or is to be
returned (`PlacesApart`, `Placed`). The argument, over all 38 actions: a status changes
only of a closure in a place that the worker holds, of a parent that is locked, or
of a frame that gets its closure; and a deque is changed by its owner when nobody
else has its lock, or by the thief that has it. To keep 38 actions times 17 parts
readable, each action has a predicate `...Does` with its effect, proved once from the
handler's definition, and each part of the invariant a lemma that goes through the
actions. From it `OnePlaceHolds`, by counting the places.

**`SchedulerTree`.** `TreeInvariant` adds a second invariant, kept because the first
is: what is on the lists of children, and what is counted, is the live children but
for the one that comes or goes, of which there is one at most as its parent is
locked (`ListInv`, `CountInv`); a closure that is returned or destroyed has nothing
counted, hence no child left, so a parent outlives its children and `Root` is last
(`JoinInv`, `LiveInv`); abort signals walk on the lists (`WalkTree`); the frame popped
last is that of the closure at hand if the head pointer has passed it (`PoppedInv`);
the frames that may run are there (`AliveInv`), since the frame removed is nobody
else's. From both: `TypeCorrect`; `JoinCountsHolds`; `RuleDHolds`, rule D of
`PROTOCOLS`; and `AssertionsHold`, that no assertion of `sched.c` fails.
`ResultInvariant` adds a third, on what is to be told to whom. A child of a closure
marked by an abort is marked too, or on the path the signal still has to go
(`ReachInv`: a closure gets no new child while it is aborted, as it is locked, and what
a thief promotes is not marked). Inlets wait only where somebody will poll them: a
closure past its sync has none, nor has one that the handler has polled, since a child
that could return an inlet would still be counted (`CompleteInv`). A worker whose
closure is marked, or has inlets waiting, has been told, or its frame is stolen
(`SignalInv`: `signalled` is reset only where the closure is polled). From the three:
`NobodyForgottenHolds`, that no suspended closure and no inlet is forgotten, and
`AbortReachesHolds`, that an abort has reached whatever runs below.
`OutcomeInvariant` adds a fourth, on frames and results. A frame that is there has no
result yet, and is that of a live closure or on a stack above those of closures
(`FrameInv`). A result that is not settled is with its frame, with the worker that has
popped it, with the closure that is returned, or with an inlet that waits
(`PendingInv`); an inlet waits once, at the parent, for a child that has returned
(`EntryInv`); on its way a result is not settled, unless it was discarded because its
closure is being aborted, which its worker will see (`WayInv`); a frame that is gone
waits for none (`GoneInv`, as it goes only when it has no promoted child, no inlet, and
nothing popped above it: `NoneLeft`). Without an abort nothing is discarded, marked or
visited (`QuietInv`), and the worker that sets `done` is past the sync of `invoke_main`
(`DoneInv`). From all four: `SyncWaitsHolds`, that nobody passes a sync, or goes, before
the results of its children are settled; `ResultOnceHolds`, that each is settled once,
and delivered only to a parent that is there; and `DoneIsDoneHolds`, that nothing is
left when `done` is set.
Most handlers leave most variables alone, so from `JoinInv` on the parts are proved from
lemmas that say what any step may do to one variable, and in which places: `status`
(`Lives`), `join`, `stack`, `alive`, `complete`, `out`, `abort`, `walk`, `signalled`, and that
a step leaves alone what others work on (`OthersStay`, `WorkStays`). `Kinds` says that a step
touches frames and results in one of eleven ways, or not at all.

**`WorkersProofs`.** `Invariance` proves `IInv`: the counter is the number of
workers that passed the wait and did not sign off; while main rests all workers
wait or end; while a computation is under way its closure is there to be taken,
and `done` implies that it has been. From it `Counting`, `Alone`,
`DoneBeforeTerminating` and the action property `Returns`.

**`InternalMallocProofs`.** `Invariance`: besides the place and count of each
block the invariant has what the holder of the lock still has to do of its half
batch against the count of its own list (`LockInv`, the reason why the inner
calls never need the lock), and that all blocks lie below the pool's cut
(`PoolInv`, the reason why new ones do not overlap). From it `OnePlace`,
`Disjoint`, `Consistent` and `NoSelfDeadlock`. `Bounded` is `NoBlowup`: a block of a
size is cut only by a worker in `im_allocate_batch` when the global list of that size is
empty (`CutBound`); then what exists lies with the program, which has room for the
block the worker waits for (`HeldInv`), in the worker's own list, less than half a batch,
or with the others, each with a list of a batch at most, since no count falls below
zero (`Countdown`), and a block in hand. `Balanced` is `BooksBalance`. What a sum
over a finite set is, and what it becomes when a summand comes or goes, is proved
without induction: a set for which it fails would contain a smallest one (`Smallest`).

**`BarrierProofs`.** Under `InOrder`, `Invariance`: between releases everybody is
settled in a round or arriving at the next with a number of its own from the
counter (`Between`); while the last worker's stores are on their way everybody
else is bound to leave and cannot touch the counter (`Releasing`). From it
`AlwaysTogether` and `IsRendezvous`: each step of the barrier is a step of
`Rendezvous` or leaves it unchanged.

## 6. Disagreements found

*The run that expects a violation.*

- `inlet_args`: `TransformInletCall` evaluates the inlet's other arguments before
  the spawn, as the manual says (`lanref.tex`:270), but the data flow visits the
  spawn first, and records its dirty variables before those arguments change
  them: in `catch(spawn f(), x++)` the new `x` is not saved.

*Configurations that show more.*

- `LabelGotos` in `MCClones_args`: a goto before its label makes a node for the label, a later
  definition another; `label_conflict` redirects the gotos so far (procedure.c:606),
  but the symbol table keeps the first node (symbol.c:289) and `BuildLabel`
  drops the result (procedure.c:593). A goto after the label then points to a
  node that is not in the tree, the loop it closes does not exist for the
  analyses, and a variable live round it is not saved.
- `InletReads` in `MCClones_args`: an inlet reads a variable of its procedure when the child
  returns; analyze.c:292 makes it live at the call only, so a write between the
  call and the sync need not reach the frame, although lanref.tex:227 lets an
  inlet use the variables of the procedure.
- `KeepsCounts` in `MCTrees`: `(T)Y op= Z` becomes `(T)(Y = (typeof Y)(T)((T)Y op Z))`,
  "but without the side effects of doing x twice" (simplify.c:34, and 133), but
  `RemoveSideEffectsNode`, which should see to it, is a stub ("This is not right", simplify.c:91):
  `((long)(++i, p)) -= i` increments `i` twice. `CopiesSideeffects` keeps these trees
  out of `PassesKeepMeaning`: those in which the place under the cast has a side effect,
  and no others.
- `ReportedOnce` in `MCTrees`: a load is one report by the comment at the beginning of
  `profile.c` (lines 30 to 53). To read a field, `ProfileBinop` copies what names the
  struct, when it has no side effects, after it has been profiled (profile.c:440, 486-491;
  for bit-fields 452-467): for `p->x` the load of `p` is made and reported twice. `Meaning`
  logs the copies as such, and `AccessesReported` asks for these repetitions exactly.
- `THE_giveup`: the comment on the Dekker protocol lets a thief give up only
  if H >= T; the code (`head + 1 >= tail`) gives up one frame earlier. The
  worker's last frame is never stolen.
- `Scheduler_ready`: `PROTOCOLS` defines READY as suspended with a join counter
  of zero; `finish_promote` makes the stolen parent READY with the promoted
  child counted.
- `Barrier_weak`: `barrier.c` says that the barrier can be safely reused. On
  a machine that performs the stores of lines 56 and 57 out of order a released
  worker can count on from the old counter; the next round then never ends.
  Nothing in the runtime calls the barrier any more.

*Seen while modelling, and kept out by a guard or not modelled.* Constants:
`(char)300` folds to 300; unary `-` and `+` do not promote; the sum of an unsigned
long and a long long has the wrong type; the condition of a ternary is cut to an
int (constexpr.c:236); `%` by a constant zero divides in the compiler; an
enumerator initialised with a long fails an assertion; hexadecimal and octal
constants are always unsigned; decimal ones above the greatest unsigned int fail
an assertion; `sizeof` is an unsigned int; case labels are not converted.
Analyses: a spawn that cannot be reached at the end of a procedure fails the
assertion of analyze.c:475; in `while (c) L: body;` the parser takes the label
alone for the loop's body, so the analyses put `body` after the loop.
Declarations: of the declarators of one declaration only the first keeps `cilk` and
`inlet` (complex-types.c:540), which `AppendDecl`'s comment does not say: in
`cilk int f(int a), f2(int b);` `f2` is a C function. The constant
`TQ_STANDALONE_INLET` is that of a slow inlet (typequal.h:115).

Initializers: a union whose braces are left out does not take its value from the list, which
goes to the next field as well: `struct {union {int a;} u; int c;} x = {1};` becomes
`{{1},1}`, with one more value the compiler loops, and in an array without a length it
always does. A list without braces of its own takes the labels that follow for its own: in
`struct {struct {int b; int c;} a; int b;} x = {1,2,.b=3};` the inner `b` becomes 3. The labels
of elements are not looked at: `int a[2][2] = {[1]=1,2}` becomes `{{[1]=1,2}}`, `{[2]=5,[0]=1,2,3}` has too
many values for `int c[3]`, and a list behind such a label ends in an assertion or an internal
error. A label in a union is handed on to the field: `{.a=1}` becomes `{{.a=1}}` if `a` is an array.
A compound literal of a structure as an element of an array is taken for its first
field. `int i = {}` and `union u = {}` fail an assertion (list.c:46). From reading: bit-fields
align like bytes in `StructCheckFields`, and `UnionCheckFields` does not round the size of a union.

Printing: once the columns of the source are exceeded tokens run together: `a - -b`
becomes `a--b`, `x - --b` becomes `x---b`, `x / *p` opens a comment, `do x++;`
becomes `dox++;` (the `Tight` printer leaves punctuation and `do` out for this
reason); a basic `__asm__` is printed with empty operands; the statement
`(T){1};` ends in an internal error (output.c:1418), `__builtin_va_arg(ap, int);` in
an assertion (verify-parse.c:613); skipping the attribute `nocheck` can leave a
comma behind.

Passes: `-elide` loses `inline`, for it clears the complement of its mask
(typequal.c:225), and does not look into `xbegin` blocks. `-simplify` turns `++(i, (long)j)` into `(i, ++(long)j)`, which is not in the grammar,
and leaves `((T)x)++` alone, although its comment has no casts on lvalues left.
`Sideeffects` takes neither `va_arg` nor an `asm` without outputs for a side effect
and stops at `[]=`. `-profile` takes the address of a bit-field that is incremented,
stops at `((long)i)++`, at an assignment to a cast, which `SimplifyBinop` gives no type, and at a field of
an assigned struct, and does not report the loads in the arguments of a call whose
result a field is selected of.

Patterns: a list walk passes over a pair in which one element is missing; struct
types are compared by their qualifiers alone; character and pointer constants are
not equal to themselves; the result type of a function is compared without an
early exit, so that a pattern that has the same `%t` there can set the answer back to TRUE;
a wildcard that met no tree at all is not in the table when it is filled in;
constructors and `va_arg` are not walked. `ContainsAST` starts its answer afresh at an
empty list. The atomic transformations drop a transformed right side
(atmTransform.c:607) and use the wrong member of a union (atmTransform.c:651); the
pattern for `op=` repeats what its left side does. These are from reading.

One more place needs a careful reader of `PROTOCOLS`: it has every RUNNING
closure at the bottom of a ready deque, but `do_what_it_says` makes it RUNNING,
unlocks it, and only then adds it. For a moment it is in no deque (`THE`'s place
`add`), which is harmless, because nobody else can reach it then.

## 7. What is only model-checked, and what is not modelled

*Only model-checked*: liveness (`Completes`, `CallsReturn`, `Returns`,
`Reusable`, the fairness part of `Rendezvous`), which is out of reach of the
proof system used; the refinement of `Scoping` by `SymbolTable`; everything
about `cilk2c` and the critical path, whose definitions recur over trees.

*Left out of the modules*: the race inside a steal, in `Scheduler` (it is `THE`'s);
aborts polled in the handler, in `THE` (they are `Scheduler`'s); the bytes of
results and arguments; the size of requests above the allocator's threshold;
statistics; the Nondeterminator's build (`CILK_ND`) and its analyses. Locks are
atomic and order memory in all modules. In `Clones` all variables are scalars. In
the modules of whole trees: attributes, `typeof`, the `__extension__` mark, old-style
definitions, declarators that redeclare a typedef name, lines and columns; the
automata of flex and bison, which are taken for the grammar and the longest match;
what `asm` accesses; profiled programs are not printed; the types of implicit casts
in patterns, compared by address. A comma among arguments or in a list of initializers
is always in parentheses, as the parser makes it and the passes keep it: that the printer
would lose it otherwise (`OutputCommaList` prints the elements with precedence 0,
output.c:527-552; profile.c:63 calls it Bug 68) is not reached. The cases of section 6
are excluded by `CopiesSideeffects`, `NotProfiled`, `NoStatement`, `CastIncremented`, `Unnoticed` and `NotWalked`, and by
`plain` in `Initializers`, where values are only constants, strings and compound literals.

*Not modelled*: see the components in `PROJECT.json`. `stats.c`, `hooks.c`,
`sysdep.c`, `debug.c`, `cilkc.c` are I/O and system calls.

## 8. Plan

1. `Mutex`: the memory lock with fast and slow path and its fences; implements an
   abstract lock.
2. Pointer types, their equality and conversions; tags and layout; constant initializers; statements' checks;
   `ContainsAST` and the parsing of patterns.
3. `Timing`: the enter and exit calls along every path of the scheduler.
4. `CommandLine` and alloca.
5. Proofs: `CriticalPath` without thefts.

Abstract specifications worth stating: a lock, a fork-join computation that
`Scheduler` implements (each procedure runs, syncs after its children, returns
once).

## 9. Running

    tlc -workers 2 -config THE.cfg THE
    tlapm THEProofs.tla

The proofs of `Scheduler` take about ten minutes for each of the four modules, the
others less than two; the longest run is `scheduler`.
