# Verification of TaskSanitizer

TaskSanitizer finds *determinacy races* in OpenMP task programs: two accesses of
one address by tasks that no construct orders, of which one writes, such that
the order of the two can change the result. A compiler pass instruments loads
and stores, callbacks of the OpenMP runtime (OMPT) report what tasks do, and an
online checker compares every access with recent accesses of the same address.

This directory holds TLA+ models of the parts that decide what is reported, the
TLC configurations that check them and TLAPS proofs about all of them.
Paths below are relative to `src/src/`.

## 1. The system

| Component | Source | State | Operations |
|---|---|---|---|
| Determinacy checker | `detector/determinacy/checker.cc` | `graph` (in- and out-edges of task IDs), `serial_bags` (the set HB of tasks that happened before), `writes` (up to five accesses per address), `conflictTable` | `onTaskCreate`, `saveHappensBeforeEdge`, `detectRaceOnMem`/`saveTaskActions`, `reportConflicts` |
| Commutativity checker | `detector/commutativity/` | the critical sections of the program, the operation set | `parseTasksIR`, `insert`, `find`, `isCommutative` |
| IIR logger | `instrumentor/pass/IIRlogger.h`, `tasksan` | the `.iir` file, lock depth | `logTaskBody` |
| Event logger INS | `instrumentor/eventlogger/Logger.h` | `guardLock`, ID counter, `idMap` of tokens, its own HB, the names and IDs of functions | `TaskBeginLog`, `TaskSendTokenLog`, `TaskReceiveTokenLog`, `saveChildHBs`, `RegisterFunction`, `Read`, `Write`, `Finalize` |
| Task metadata | `eventlogger/TaskInfo.h`, `Util.h` | one `TaskInfo` per running segment: ID, active flag, IDs of children, functions met | `createNewTaskMetadata`, `endThisTask`, `disguiseToTewTask` |
| OMPT callbacks | `instrumentor/callbacks/OMPTCallbacks.h` | none of their own (`ompt_data_t::ptr`) | implicit task, task create, dependences, schedule, sync region |
| Instrumentation callbacks | `instrumentor/callbacks/InstrumentationCallbacks.cc` | none | `INS_MemRead`, `INS_MemWrite`, atomics |
| Instrumentation pass | `instrumentor/pass/TaskSanitizer.cc` | lists of chosen instructions | `runOnFunction`, `chooseInstructionsToInstrument`, `instrumentLoadOrStore` |

How they interact. The OpenMP runtime calls the OMPT callbacks on the thread of
the task concerned. A callback changes `TaskInfo` objects without a lock (each
belongs to one task) and calls INS, which takes `guardLock`, calls the checker
and releases the lock. Callbacks of different tasks therefore interleave between
two calls of INS but not inside one. Instrumented code calls `INS_MemRead` and
`INS_MemWrite`, which log the access under the current ID of the task. When two
writes conflict the checker asks the commutativity checker, which has read the
`.iir` file before `main` did anything else.

What is hard here:

* an order is *transported*: from a callback to a token, to an edge, to a bag
  that is computed once. A lost or late step makes the checker report races
  that do not exist; one too many makes it silent about real ones;
* a task changes its ID whenever it creates a task or returns from a taskwait,
  and hands its children over to the next ID;
* tokens are keyed by addresses of objects that are freed;
* the history of an address and the slots of the conflict table are bounded;
* `guardLock` is taken twice by one access, and what is looked up before the first
  acquisition is used after it;
* callbacks meet tasks without metadata, and dereference null pointers;
* the critical sections reach the checker through a file written by another
  process at another time.

## 2. Modules

| Module | Models | Kind |
|---|---|---|
| `DeterminacyChecker` | checker: graph, bags, histories, conflict table | specification with the assumptions on its client |
| `DeterminacyChecker_proofs` | - | TLAPS proofs about it |
| `TaskRuntime` | OMPT callbacks, metadata, INS, driving the checker | detailed specification; contains `Checker == INSTANCE DeterminacyChecker WITH creating <- SetUp` |
| `EventLogger` | INS and the checker under `guardLock`, statement by statement, with several threads; the report | detailed specification with fairness; implements `DeterminacyChecker!Spec` through `Checker == INSTANCE DeterminacyChecker WITH nodes <- committed.nodes, ...` |
| `EventLogger_proofs`, `EventLogger_report` | - | TLAPS proofs about it: the registry and the refinement of the checker, the report |
| `TaskRuntime_proofs`, `TaskRuntime_complete`, `TaskRuntime_refinement` | - | TLAPS proofs about `TaskRuntime`: what holds of all programs, that the order of tasks is sound and when it is complete, the refinement of the checker |
| `Commutativity` | IIR logger, parser, section table, verdict | file pipeline and pure algorithms |
| `Commutativity_proofs` | - | TLAPS proofs about the way of critical sections from the source to the table |
| `Instrumentation` | the pass and the callbacks for loads, stores and atomic instructions | specification of the pass and of concurrent runs of its result |
| `Instrumentation_proofs` | - | TLAPS proofs about it |
| `MCDeterminacyChecker`, `MCTaskRuntime`, `MCEventLogger`, `MCCommutativity`, `MCInstrumentation` | - | instances for TLC |

### DeterminacyChecker

One action per call of the logger: `TaskBegin` (`onTaskCreate`), `OrderAfter`
(one or more `saveHappensBeforeEdge` under one acquisition of the lock),
`Access` (`detectRaceOnMem`). `edges` stands for `inEdges` and `outEdges`, which
the code always changes together. The bag of a task is the function `HB`,
`bagged` says whose bag exists. Values and lines are kept, because the code
compares them; function IDs are not, because they only reach the printed report
(`EventLogger` has them).
The operations are operators (`onTaskCreate`, `saveHappensBeforeEdges`,
`saveTaskActions`), so `TaskRuntime` and `EventLogger` use the very same definitions.

The client is the environment. `creating` are the tasks that may still get
incoming edges. Two rules describe a proper client: edges go from tasks that are
set up into tasks that are not, and no access is logged by a task that is ordered
before one which has already made an access. That the runtime obeys
both rules is not assumed but checked and proved: `CheckerSpec` in `TaskRuntime`.
`accesses` is a history variable, the accesses of an address without the bound.

### TaskRuntime

Each OpenMP task has a `pc` that says where it is in its program or in a
callback; `frame` holds the locals of the callback. A step is one acquisition of
`guardLock` with the thread-local work next to it, so the interleavings are
those of the code. Creating a task takes six steps: `TaskCreate` (new TaskInfo
of the child), `SendToChild`, `ChildReceives`, `Rename`, `Adopt`, and `Depend`
once per token. Taskwait takes `TaskwaitEnd`, `Rename`, `Adopt`,
`SaveChildren`.

`Infos` are the addresses of TaskInfo objects. With `Reuse` the allocator may
return any free address; without, every object has its own.

The OpenMP program is nondeterministic: which task creates, with which depend
clauses, when it accesses memory, waits and ends. The order OpenMP guarantees is
the history variable `before`: creator before child, segment before next
segment, predecessor (by depend clauses) before successor, children before what
follows the taskwait. The properties compare it with the bags.

The task that runs `main` (`InitialTasks`) has no TaskInfo: nothing creates one for
it. Parallel regions follow one another (`Regions`, the implicit tasks of each):
`ImplicitBegin`, `Join`, `ImplicitEnd`. `Barrier` and `TaskgroupEnd` change the
order that OpenMP guarantees and nothing else, because their callbacks do nothing.
An untied task gets its TaskInfo in `TaskSchedule` only. A callback that
dereferences the TaskInfo of a task without one ends the program: `pc` becomes
`"crashed"` (`TaskCreateByUnknown`, `DependOfUnknown`, `TaskwaitOfUnknown`).

Constants select the programs: who creates (`Producers`), waits (`Waiters`) and
has depend clauses (`Dependents`), and whether barriers and taskgroups occur
(`IgnoredSyncs`).

### EventLogger

`TaskRuntime` takes each acquisition of `guardLock` for one step. This module looks
inside. A thread is idle or in a call of INS (`call`); the steps of a call are
the statements between which another thread can come: `LockRegistry`,
`FindFunction`, `AddFunction`, `UnlockRegistry` are `RegisterFunction`; then
`Lock`, the work under the lock, `Unlock`. Under the lock an access is compared
with one entry of the history per step (`Compare`) before it is kept (`Save`),
edges are added one per step (`saveHappensBeforeEdge`), and `Finalize` prints
the report (`reportConflicts`). That a function is unknown to the task is found
out in `ReadOrWrite`, before the lock is taken.

`committed` is a history variable: the checker as it was when the lock was last
released. Under it the module implements the checker's specification
(`CheckerSpec`): a call that takes many steps is one step for everybody else.
`made` and `accesses` remember what the program did, and the report is compared
with them. `asHex` is what happens to an address on its way: it is printed in
base ten and read in base sixteen.

The environment is a proper client in the sense of `DeterminacyChecker`; that
`TaskRuntime` is one is checked there. It calls `saveChildHBs` only to add an
edge, which bounds the number of calls; a call that adds none does nothing.

### Commutativity

`Compile`, `CompileSource`, `Built` are the launcher and a compiler process per source
file. In each, the pass goes over the functions one instruction at a time (`LogLock`,
`LogUnlock`, `LogStatement`, `FunctionDone`, `SourceDone`), with `depth` for
`in_critical_section`. `StartProgram` and `Parse...` are the start of the program, which
reads the `.iir` file of the source that defines `main`. `isCommutative` and what it
calls are operators, with `isSafe` a recursive function that returns its answer and the
operation set, which the code shares between calls. The field `oper` of an
instruction the parser does not know is never set: the model chooses any value. The same
holds of the default instruction that `involveSimpleOperations` reads when a section has
no instruction of the line, so its answer is a set, and `isCommutative` is true if it
may be. The lines of a conflict are those the pass has cast to eight bits (`LoggedLine`).
Names stand for the text of operands; that one name may be part of another
(`%1` in `%10`) is left out. Integer division is an instruction the parser does
not know; `fdiv` is modelled in the verdict but occurs in no instance.
What the critical sections of a function *are* is defined apart from the pass, by
counting locks: `Held(f, k)` is how many more `f` has taken than given back after `k`
instructions, a section starts where a lock is taken while none is held
(`SectionStarts`) and goes on while `Held` stays above what it was before
(`HeldSince`). Unlocks that belong to another function make `Held` negative and are
no end of a section. The meaning of sections (`Execute`, `Commute`) is defined on
words of `Word` values.

### Instrumentation

First the pass visits a function: `VisitLoadOrStore`, `VisitAtomic`,
`VisitCall`, `EndOfBlock` are the cases of the loop of `runOnFunction`, and the
function is any sequence of instructions up to `MaxLength`. `Local`, `All` and
`AtomicAccesses` are the lists of the code, as sets of positions;
`chooseInstructionsToInstrument` says which accesses of a run are kept. Then
every task runs the function (`LoadOrStore`, `Atomic`, `Memset`, `Call`,
`Branch`). What is known of an address (captured or not, constant, its size and
alignment, ...) is given by constant sets. A call may be a scheduling point, so
it starts a new segment of the task; a branch ends a block and may skip the rest.

Three histories tell what should have been: `accesses` are the loads and stores
that really happened, `ownMem` and `ownReg` what memory and registers would be
without instrumentation. `log` is what reaches `INS::Read` and `INS::Write`.
`AccessesCovered` compares `log` with `accesses` segment by segment, for any
order between segments that the rest of the system may find.

The callback comes right before its instruction and the model executes both in
one step. Nothing depends on the order of entries in `log`, which is a set. All
tasks have an active TaskInfo or none, chosen at the start. Values of floating
point type are counted in halves, since their callbacks convert them to
integers. Orderings of atomic instructions are left out: the code passes them to
callbacks that ignore them.

## 3. What is checked

Passing runs.

| Run | Instance | Shows |
|---|---|---|
| `MCRaces` | 3 tasks, 1 address, 2 values, 2 lines, history 2, 4 accesses | bags form a strict order and are never stale; every report is a race; every race within the history has an entry; the history is bounded |
| `MCFlat` | 1 creator, 3 tasks, 2 variables, up to 2 in/inout dependences, taskwait, 7 IDs | the bags contain exactly what OpenMP orders (`NoSpuriousOrder`, `NoMissingOrder`); INS::HB claims nothing the bags do not have |
| `MCFlatReuse` | 1 creator, 2 tasks, all dependence types, 2 accesses, 6 IDs, 4 TaskInfo addresses for 6 objects | with reuse of addresses no two tasks share a TaskInfo, none points to a freed one, no order is invented, and the runtime implements `DeterminacyChecker!Spec` |
| `MCNested` | 7 tasks: the one that runs `main`, two parallel regions with teams of two and one, 3 explicit tasks of which one is untied; all but the teams wait, all create; barriers and taskgroups; 7 IDs | no order is invented; every ID in a token or child list has a bag; callbacks crash only for the task that runs `main` and for depend clauses of an untied task |
| `MCLogger` | 2 threads, 3 tasks, 2 functions, 2 variables, 2 accesses per variable, history 1, one address shown per pair of lines | threads see each call as one step of the checker (`CheckerSpec`); the registry stays consistent although tasks look up functions before they lock; no assertion, `exit` or `at` ends the program; the report is true and shows every race within the history or enough others of its lines; every call returns |
| `MCUpdates` | 2 source files, one with 2 functions and critical sections from templates (updates, chains of two operations, calls, nested and unbalanced locks, conversions, empty and backward sections), one with a section of its own; up to two runs of `tasksan`; words of 4 values | every section of the file of `main` is known as compiled; accepted writes commute; the program starts unless a section has no numbered line or runs backwards |
| `MCInstrumented` | 2 tasks, functions of 3 out of 16 instructions, 9 addresses of all kinds | leaving out reads hides no pair of segments that touch one address (`AccessesCovered`); the program computes what it computed without instrumentation, if it uses only atomic loads, 32-bit additions and operations the pass leaves alone (`Transparent`) |

Runs that show where the code does something else than its comments, tests or
documentation say.

| Run | Property | What happens |
|---|---|---|
| `MCNestedWait` | `NoMissingOrder` | a child that created a task was renamed; taskwait orders only its first ID, so what it did later is unordered with what follows the taskwait |
| `MCNestedReuse` | `NoSpuriousOrder` | a task freed its TaskInfo; another task gets the address, finds the old token and is ordered after a task that is concurrent with it |
| `MCPlainWrites` | `AcceptedWritesCommute` | `x = x + 1` and `x = 3` are taken to commute |
| `MCLostUpdate` | `ConflictsCovered` | two tasks increment a variable; both read the same value, the reads are not logged and the writes store the same value, so nothing is reported |
| `MCAtomicUpdates` | `Transparent` | an atomic store is replaced by a callback that does not store |

Further disagreements have no run of their own. Changing the instance as said
makes TLC show them.

* `MCFlat` with `AntiDeps = TRUE`: `NoMissingOrder` fails. A task that writes a
  variable is not ordered after an earlier sibling that reads it, although OpenMP
  makes it wait (`OMPTCallbacks.h:174`).
* `MCFlat` with `IgnoredSyncs` not empty or two regions: `NoMissingOrder` fails.
  What follows a barrier, a taskgroup or a parallel region is not ordered after
  the tasks these wait for (`OMPTCallbacks.h:208,243,52`).
* A task created outside a parallel region, or a taskwait there, dereferences a null
  pointer (`OMPTCallbacks.h:132,229`), though line 100 tests for it ("valid parent
  task"). `MCNested` has these crashes; `CrashesOnlyForUnknown` says they are the only
  ones.
* `MCInstrumented` with an access on line 256: `AccessesCovered` fails. Line numbers
  are cast to eight bits (`TaskSanitizer.cc:582`), and 0 means no line.
* `TaskSanitizer.cc:614-618` says that calls of `memset` and its like "are then
  intercepted by the run-time"; there is no interceptor, so what they write is not
  logged.
* `MCPlainWrites` with `InToolHome = FALSE`: `SectionsKnown` fails. The launcher
  deletes `.iir` files only under its own directory (`tasksan:42`), so a second
  compilation elsewhere appends to the old file.
* `MCUpdates` with `Commands = {{main}, {other}}`: `SectionsKnown` fails. Compiling
  another source deletes the `.iir` file of the source of `main`.
* `MCUpdates` with lines of the other file that are also lines of sections in the
  file of `main`: `AcceptedWritesCommute` fails. Sections are found by line number
  alone.
* `MCUpdates` with sections on lines 256 apart, one of which adds and one of which
  multiplies: `AcceptedWritesCommute` fails, because both are found as the same line.
* `MCUpdates` with a section `x = 3 - x`: `AcceptedWritesCommute` fails next to
  `x = x + 1`. `isSafe` follows both operands of a subtraction alike
  (`CommutativityChecker.cc:152-154`).
* The conflict table keeps one pair of tasks per address and pair of lines
  (`conflict.h:43`), though the comment at `checker.cc:191` says "per pair of
  concurrent tasks"; and the report calls the number of line pairs "task pairs"
  (`checker.cc:293-294`).

Bounds, and why they are enough. A report relates two accesses and a third task
is needed for transitive order; the history is full after two accesses, and four
accesses push out two. In the runtime, three tasks make chains of dependences on
two variables (a before b before c); seven IDs allow three creations, or two and
a taskwait. An ID is used once, so `TaskIDs` bounds the number of creations and
taskwaits together. Address reuse needs as many addresses as objects that are
alive at once, which is four for two explicit tasks (`MCFlatReuse`): the creator
has two while it is renamed. `MCFlat` and `MCNested` give each object its own address.
Two variations of `MCFlat` that reuse addresses keep `NoMissingOrder` and are not part of
the regular runs: two explicit tasks on the four addresses `Heap4` (189,800 states), and
four tasks on `Heap5` that all may create, where none waits or has dependences (2,483
states, `NoSpuriousOrder` too). The commutativity search goes back through one section; sections of
one and two statements reach all its branches but `alloca`, `bitcast` and
`fdiv`. Whether an access is chosen depends on one other access and what lies
between, which is three instructions; functions of four give the same result
(5.2 million states, five minutes) and are not part of the regular runs. In the
logger, two threads are enough for a race for the lock and for a double
registration; two functions and two variables give a pair of lines that conflicts on
two addresses, of which the report shows one, and a history of one drops the
first access of a variable when the second is made. Every instance stops when its
bounds are used up, so deadlock is not checked as such; `EveryCallReturns` says
instead that no thread is stuck inside the logger.

Symmetry is used for tasks, variables and, where the allocator reuses addresses,
for addresses of TaskInfo objects, which the models only compare.

Fairness. `EventLogger` asks for weak fairness of the steps of every thread inside a
call: a thread that holds the lock, or finds it free and goes on finding it free, goes
on. A `std::mutex` promises no order among those who wait, so a waiting thread
could be passed over again and again; but a program makes finitely many calls in the
model, and in between nobody holds the lock for ever. Nothing is assumed of the
program: it may stop calling at any time, and tasks may never run, which is the
business of the OpenMP runtime. All other properties are safety properties and
the other modules have no fairness.

## 4. What is proved

The theorems hold for every value of the constants that satisfies the named
assumptions of the modules (`CheckerAssumption`, `LoggerAssumption`, ...): any number of
tasks, threads, addresses, IDs, accesses.

### The checker

`DeterminacyChecker_proofs` proves

* `TypeCorrect`: `Spec => []TypeOK`;
* `OrderCorrect`: `Spec => []HappensBeforeIsOrder`;
* `BagsNeverStale`: `Spec => []BagsCurrent`;
* `ReportsCorrect`: `Spec => []ReportsAreRaces`;
* `ReportsComplete`: `Spec => []RecentRacesReported`.

The argument. `OrderInv` strengthens the claims on the order: besides being
transitive and irreflexive, every bag is what its in-edges give, members of bags
are not in `creating`, and tasks without a bag have no edges. A step changes the
bag of one task that is in `creating`, which therefore nobody has inherited.
`RaceInv` relates the history kept to all accesses: `writes[a]` is the end of
`accesses[a]`, of length the smaller of `HistoryBound` and the number of
accesses (`EndOf`, `HistoryKept`), and tasks that made an access are settled.
So an access meets every earlier one within the bound, and since its task is not
ordered before any task that made an access, not finding the earlier task in its
bag means that the two are unordered both ways. That an entry is there at all
needs the first reportable access of a slot to exist, which `LeastNat` (well-
founded induction over the naturals) gives.

Assumptions: `HistoryBound` is a positive natural number, lines are natural
numbers, commuting lines are pairs of lines. Lemmas on sequences come from
`SequenceTheorems`.

### The logger

`EventLogger_proofs` proves

* `RegistryCorrect`: `Spec => []RegistryConsistent`, with mutual exclusion as a part;
* `NoAbort`: `Spec => []NeverAborts`.

The argument. Neither property is inductive: that an access never comes with ID 0
depends on what its call found in the function table several steps before, and that
the report finds every name depends on the IDs of all accesses kept. `IInv` adds the
shape of the calls (`Typed`), that `funcNames` and `functions` are inverses of each
other (`Registered`), what a call knows of its function at each step (`Resolved`: a
name that is about to be added is still unknown, because the table was searched
under the same hold of the lock; later the call has the ID of the table, which
never changes once it is not 0), and that histories and conflicts have registered IDs
only (`Printable`). `CallStep` and `UnderLock` say once what a step of one thread
preserves; each action then shows that the new call is a proper one. Assumptions:
`LoggerAssumption`, on the bounds, the program's accesses and its threads; no fairness
is used.

The second part of the module proves

* `Refinement`: `Spec => CheckerSpec`, that is, threads that work statement by statement
  implement the checker whose calls are single steps.

The argument. Only the step that releases the lock changes `committed`; it must be one
step of `DeterminacyChecker` from the state committed before. So the invariant says, for
the thread inside the lock, what has become of `committed` by its statements so far: the
edges added are those of a prefix of its list and the bag is that of these edges; the
conflicts found are those with a prefix of the history; what is kept is what
`saveTaskActions` keeps. `Unlock` finds the prefix complete. All other steps leave
`committed` alone and are stuttering steps. The theorems of the checker then hold of what
threads see between calls.

`EventLogger_report` proves

* `ReportIsFaithful`: `Spec => []ReportFaithful`: every line of the report is about two
  accesses that different tasks made, each in the function whose name is printed;
* `RacesAreShown`: `Spec => []RacesShown`: every race within the history has its pair of
  lines in the report, with its address or with as many others as are shown.

The argument for `ReportIsFaithful`. A history keeps an access without the name of its function, and the report
gets the name from an ID. `FaithInv` therefore attributes every access that is kept,
compared or in the conflict table to an access that was made, or is under way, in the
function that has its ID now (`Attributed`; names never change, `NamesStay`), and places
both accesses of a conflict in the sequence of all accesses (`InOrder`). It extends the
invariant of the refinement, which relates the histories to that sequence.

The argument for `RacesAreShown`. A race is known to the checker when the lock is
released, which is a fact about `committed`: `HistoryKept` and `RacesKnown` are carried
over from step to step of the checker, as in `ReportsComplete`. While the report is
printed, the conflicts that are left and those that were printed make up the table
(`Ending`); a pair of lines drops conflicts only when the slots for addresses are full, and
then as many different addresses were shown as there are slots (`ShownOrCrowded`, on
cardinalities). Different addresses must stay different when they are printed in base
ten and read in base sixteen: `asHex` is a recursive function, which exists and is
unique because there is no least number where it is not (`HexExists`, `HexUnique`).

### The pass

`Instrumentation_proofs` proves

* `Typed`: `Spec => []TypeOK`;
* `InstrumentationTransparent`: if `AtomicsKeepMeaning`, `Spec => []Transparent`;
* `LeftOutIsCovered`: if `LinesLogged`, `Spec => []AccessesCovered`.

`AtomicsKeepMeaning` says that the only atomic instructions that the pass replaces are
atomic loads and additions on addresses of a size whose callback adds in that size;
`MCAtomicUpdates` shows what happens otherwise. `LinesLogged` says that no access is on a
line whose number is 0 modulo 256 (see above). `MCInstrumented` satisfies both.

The argument for `LeftOutIsCovered`. That an access which is left out has a partner that
is logged is not true at every moment: the partner of a read is a *later* store to the
same address. The invariant says of each unlogged access of a segment either that a
logged access of the segment stands for it, or that its task is still in the same
block and will come to an instrumented store (`StoreAhead`) before any call or branch
(`Straight`) that could end the segment. The choice made by the pass
(`chooseInstructionsToInstrument`, position by position) is related to what a task
meets when it runs.

### The runtime

`TaskRuntime_proofs` proves

* `Typed`: `Spec => []TypeOK`: no two tasks share a TaskInfo and none points to a freed one;
* `CrashesAreKnown`: `Spec => []CrashesOnlyForUnknown`;
* `BagsExist`: `Spec => []TokensHaveBags`;
* `LoggerClaimsNothing`: `Spec => []TokenOrderKnown`.

The argument. `FrameInv` says, for each place in a callback, which locals are set and what
the task they name is doing: a child whose creation is under way is `"born"`, belongs to
one creator, and the old TaskInfo is alive until `Adopt`. Since each action needs that of
its own task only, and a step changes the frame of one task, the lemmas say once what the
step of one task leaves to the others. IDs that are handed out have bags
because they are below `taskIDSeed` and drawn by `createNewTaskMetadata`.

The second part of the module proves

* `NoFalseOrder`: if `OwnAddresses` and `OwnTokens`,
  `Spec /\ []SiblingsDepend => []NoSpuriousOrder`: a bag holds nothing that OpenMP does not
  order before the segment; no race is hidden.

The hypotheses. `OwnAddresses`: no TaskInfo has the address of a variable in a depend
clause. `OwnTokens` is about addresses that are given out again, and with them the tokens
left there (`Util.h:48`): if that happens, no task receives a token at its TaskInfo address
but the only one that sends any. So either nobody waits and no task is untied, or one task
creates the others and nobody else waits. Without reuse `OwnTokens` holds. `SiblingsDepend`:
all tasks that name a variable in depend clauses were created by the same task. The last two
cannot be dropped. Without `OwnTokens`, `MCNestedReuse` is a counterexample. Without
`SiblingsDepend`, a task that creates a task with `depend(in: x)`, next to a sibling of its
own that had `depend(out: x)`, makes the checker order the two although OpenMP orders only
siblings.
Every creator may otherwise create, wait and end as it likes.

The argument. A task that has not started has an ID that may get edges from predecessors
which have not finished, so for it the bag is *not* within `before`. `Precedes(x, t)` says
that the segment `x` is in the past of `t` or will be when `t` starts: every set of tasks
that is closed under waiting and holds all tasks with `x` in their past holds `t`. (A set
instead of a recursive definition of reachability, which could not be reasoned about.)
The invariant `ProgramOrderInv` says for some `o`, which gives the task that owns
each ID: the IDs in the child list of a TaskInfo were given to tasks it has created
(`CallbackInv`), a token at the address of a TaskInfo is an ID of a creator that had a
TaskInfo there, what a task may receive there is its own (`ReceivesOwn`), a token
of a variable was sent by a writer of it (`TokenInv`), and every edge and every member of a
bag precedes the task that owns the ID (`GraphInv`). A step of the program
only adds to what precedes (`OrderGrows`, `PrecedesStays`); an edge is added only
from an ID that precedes its target (`ReceiveOrders`, `GraphOrders`).

`TaskRuntime_complete` proves the other direction, that no order is missed and so no race
is reported that does not exist:

* `NoOrderMissed`: if `OwnAddresses`, `OwnTokens` and `PlainProgram`,
  `Spec /\ []FlowProgram => []NoMissingOrder`;
* `FlatOrderExact`: if `OwnAddresses`, `PlainProgram`, one task of the team creates all others
  and is the only one to wait (`OneCreator`), and no variable is written after an older
  sibling read it, nor by an `out` (`ReadsFirst`),
  `Spec => [](NoMissingOrder /\ NoSpuriousOrder)`. Here nothing is assumed of
  the run, and addresses may be reused, since `OneCreator` implies `OwnTokens`. `MCFlat` is
  an instance.

The hypotheses name what the callbacks lose. `PlainProgram`: a single
parallel region, because nothing orders what follows a region (`OMPTCallbacks.h:52`);
neither barriers nor taskgroups, whose callbacks do nothing; no untied tasks, whose
creation leaves no metadata. `FlowProgram` has three parts. `SiblingsDepend` is that of
`NoFalseOrder`. `FlowDependences`: a task waits for another only because it reads (`in`,
`inout`) what that one writes, in its first clause on the variable. A reader sends no token,
so a writer that waits for it receives none; an `out` receives none at all; and after a clause
that writes, the token of the variable is the task's own. `ChangingUnawaited`: nobody waits
for an explicit task that creates or waits itself. Such a task gets a new ID with each
creation, and the IDs it gets after it was created reach neither its parent's list of children
nor the token of a variable: in `MCNestedWait` a taskwait for a child that creates misses what
that child does later. Nesting is thus allowed only where nobody waits for the
creators. The other failures are listed in section 3.

The argument. The past of a task is in its bag only between callbacks. Within one it is
in the bag of another ID, behind the token of the old segment, or behind the IDs of
children that have yet to be handed on; `SegmentSeen` says which, at each `pc`.
`CreationsSeen` follows the new task: which clauses the callback of its creator has handled,
which tokens it has sent and received, and what came with them. `ChildrenKept` says that a
task that waits has the IDs of its children in its list, or has them behind it.
`TokensCover` is the heart: what comes with the token of a variable covers *all* tasks that
wrote the variable, although it names only the last, since each writer received the token
of the one before; it fails while a writer is half created (`InProgress`), which is
harmless because its creator is the only task that could create another reader.
`TokenOrderKnown`, proved before, turns the logger's own order into that of the bags.

`TaskRuntime_refinement` proves

* `ContractKept`: if `OwnAddresses` and `OwnTokens`,
  `Spec /\ []SiblingsDepend => CheckerSpec`: however
  callbacks interleave, they call the checker as `DeterminacyChecker!Spec` asks, so that what
  is proved of the checker (an order, no stale bags, true and complete reports) holds of the
  checker that the run-time drives. (That last step is made here and not by the prover,
  which cannot use the theorems of an instantiated module.)

The hypotheses are those of `NoFalseOrder`: a token that reaches a wrong task can come from
an ID that still gets edges. `MCFlatReuse`, where addresses are reused and one task
creates, satisfies them.

The argument. Each action is a step of the checker or none (`RefinesStep`), with
`creating <- SetUp`, the IDs that callbacks in progress work on. `SetsUp(p, n)` splits `SetUp`
by callback: no two work on one ID (`SetUpByOne`), and a step changes what one callback
works on (`Rests`, `SetUpGains`, `SetUpLoses`). An edge comes from an ID that nobody
works on because the edge is sound (`SoundEdge`) and IDs worked on are open (`SetUpIsOpen`).
That a task which accesses memory is ordered before no task that has done so
(`AccessInOrder`) is more: `StartedInv` says that tasks that have logged an
access have started, so that what is in the bag is in their past (`PrecedesStarted`), that
a segment in the past of a task is one its own task has left for good (`SegmentsLeft`, from
`Course`, which says how a step moves tasks), and that a task has the latest of its IDs
(`LatestID`).

### The critical sections

`Commutativity_proofs` proves, for any number of source files with any functions, compiled
in any order and by any number of commands,

* `ProgramsStart`: if `InToolHome`, `Spec => []StartsUnlessDegenerate`;
* `SectionsAreKnown`: if `InToolHome`, every command compiles the file of `main`, and
  `LinesApart` holds of it in every program, `Spec => []SectionsKnown`.

The hypotheses. `InToolHome`: the launcher deletes old files only there, and otherwise a
second compilation appends. That each command compiles the file of `main` is needed because
the launcher deletes the `.iir` files of all sources; a program may start with none.
`LinesApart`: sections of the file of `main` that have lines do not share any, and the lines
of a section are between its first and its last; otherwise `insert` drops a section,
or `find`, which goes by line, returns another. Sections that are empty or end before they
start are exempt: with one of them the program dies (`ProgramsStart`) before `SectionsKnown`
says anything. `MCCommutativity` assumes `LinesApart` of its instances, so TLC checks that
they meet it; their sections are nested, unbalanced, open at the end, empty and backwards.

The argument. While the pass runs, `depth` is how many more locks are held than
before the section started (`DepthIs`), stray unlocks or not. `Logged(P, L, F, Q, k, i)` says of the lines `L`
written so far what each is for: line `j` for instruction `Q[j]` of function `F[j]`. They
are in the order of the code, each is what its instruction calls for (`Entry`), and none
that must be there is missing (`Marked`); an end may be there for an unlock
that ends nothing. `BuildInv` says this of the file of `main` until the program starts.
`Reading(L, u, b, h)` says that of the `u` lines read the last start is line `b`, and that
instruction `n` of `currentTask` is that of line `h[n]`. Between a start and the next end are the statements of
one section, all of them (`SectionLines`, by `OneSection`), so at an end the parser holds a
copy of it (`SectionCopied`), whether the end is its own or a stray one that comes later. Then
the program dies only if the section is degenerate, and what is inserted is a section
(`Table`); if it is not inserted, the section around its lines is itself (`Known`).
At the end of the file every closed section has had its end (`ClosedIsKnown`).

### Only model-checked

* `EveryCallReturns`: liveness under fairness is out of the prover's reach;
* `AcceptedWritesCommute`: the search of `isSafe` and the evaluation of sections are
  recursive functions over instructions, and what they compute for all inputs needs
  induction over data. It cannot hold of all inputs either (`MCPlainWrites`).

## 5. What is not modelled

* fences, exchange and bitwise atomic operations, whose callbacks behave like
  `fetch_sub`; loops, and with them compare-and-swap loops, which the callback
  for `cmpxchg` keeps from ending;
* calls at function entry and exit: the former are empty and of the latter only the
  one at the end of `main` does something (`Finalize`). A program that leaves `main`
  by `exit` gets no report;
* `__tasksan_init`, whose call is never inserted; the runtime is initialised once, when
  OMPT starts it;
* the wording and layout of the report;
* `checkCommutativeOperations`, `addTaskNode`, `testing`, the lists of actions in
  `TaskInfo`, and `lastReader` and `lastWriter`, which nobody uses;
* branches inside critical sections: the logger follows the layout of the code;
  functions that are inlined from headers, whose file name may differ;
* the class `FunctionEngine`, which is unused, and the scripts other than `tasksan`.

With several tasks that create tasks with dependences, `NoSpuriousOrder` does
not hold (tokens reach tasks that are not siblings) and bags can be stale (the
callback publishes a token before it has received all). Both are recorded as
hazards; the runs give dependences to the children of one task.

## 6. Plan

1. Core: checker, runtime, first proofs (done); commutativity (done).
2. `Instrumentation`: the pass and its callbacks (done).
3. `TaskRuntime`: barriers and taskgroups, the initial task without metadata,
   several parallel regions (done).
4. `EventLogger`: the lock, the registry of functions, the report, liveness
   (done).
5. Proofs for `EventLogger`: mutual exclusion, `RegistryConsistent`,
   `NeverAborts`, the refinement of the checker, `ReportFaithful`, `RacesShown` (done).
6. Proofs for `TaskRuntime`: type correctness, crashes, `TokensHaveBags`,
   `TokenOrderKnown`, `NoSpuriousOrder`, the refinement `CheckerSpec`, `NoMissingOrder` where
   it holds (done).
7. Proofs for `Instrumentation`: type correctness, `Transparent` and
   `AccessesCovered` (done).
8. Proofs for `Commutativity`: the part that is not recursive, the writer and the reader
   of the `.iir` file (`SectionsKnown`, `StartsUnlessDegenerate`) (done).
