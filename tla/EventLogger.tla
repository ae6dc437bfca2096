----------------------------- MODULE EventLogger -----------------------------
(***************************************************************************)
(* The logger INS (src/instrumentor/eventlogger/Logger.h) under guardLock, *)
(* statement by statement: what several threads do at once when they       *)
(* announce tasks, order them, log accesses and register functions, and    *)
(* the report that the checker prints when main returns                    *)
(* (src/detector/determinacy/checker.cc).                                  *)
(*                                                                         *)
(* A thread is in at most one call of the logger.  Inside a call the       *)
(* checker is changed in several steps: the history of an address is       *)
(* compared access by access, edges are added one by one.  `committed` is  *)
(* the checker as it was when the lock was last released; with it the      *)
(* module implements DeterminacyChecker, whose operations are one step.    *)
(*                                                                         *)
(* The OpenMP program is the environment: it decides which thread works    *)
(* for which task, and runs a task when those ordered before it are over.  *)
(***************************************************************************)
EXTENDS Integers, Sequences, FiniteSets

CONSTANTS
  Threads,        \* threads of the OpenMP runtime
  Main,           \* the one that runs main
  Nobody,         \* no thread
  Names,          \* function names: pointers to string constants
  TaskIDs,        \* bound of the model: the IDs that are drawn, from 0
  Code,           \* the instrumented loads and stores each task may execute
  MaxAccesses,    \* bound of the model: accesses per address
  MaxShown,       \* addresses shown for a pair of lines (10 in the code)
  HistoryBound, CommutingLines \* see DeterminacyChecker

Statement ==
  [addr : Nat, isWrite : BOOLEAN, value : Nat, line : Nat, name : Names]

ASSUME LoggerAssumption ==
  /\ Main \in Threads /\ Nobody \notin Threads /\ IsFiniteSet(Threads)
  /\ TaskIDs \subseteq Nat
  /\ Code \in [TaskIDs -> SUBSET { s \in Statement : s.isWrite \/ s.value = 0 }]
  /\ MaxShown \in Nat \ {0} /\ HistoryBound \in Nat \ {0}
  /\ MaxAccesses \in Nat

VARIABLES
  guardLock,      \* the thread that holds INS::guardLock, or Nobody
  taskIDSeed,     \* INS::taskIDSeed
  funcNames,      \* INS::funcNames; 0 for names it does not hold
  funcIDSeed,     \* INS::funcIDSeed
  functions,      \* Checker::functions
  known,          \* TaskInfo::functions of every task; 0 likewise
  nodes, edges, bagged, HB, writes, conflictTable, \* the checker
  call,           \* the call a thread is in
  shown,          \* what reportConflicts has printed
  phase,          \* "run", "ending", "reported", or "aborted"
  creating, done, \* the program: tasks being set up, tasks that are over
  accesses,       \* history: all accesses of every address, as in the checker
  made,           \* history: what the program did, a set of [task, stmt]
  committed       \* history: the checker when guardLock was last released

checkerVars  == <<nodes, edges, bagged, HB, writes, conflictTable>>
registryVars == <<funcNames, funcIDSeed, functions, known>>
programVars  == <<creating, done>>
historyVars  == <<accesses, made, committed>>
vars == <<guardLock, taskIDSeed, registryVars, checkerVars, call, shown, phase,
          programVars, historyVars>>

-----------------------------------------------------------------------------
(* What the checker is told of an access.                                  *)

\* INS::Read and INS::Write print an address in base ten, and the checker reads
\* the digits in base sixteen.
asHex[n \in Nat] == IF n < 10 THEN n ELSE 16 * asHex[n \div 10] + (n % 10)

Statements    == UNION { Code[t] : t \in TaskIDs }
RealAddresses == { s.addr : s \in Statements }
AsRead        == [a \in RealAddresses |-> asHex[a]]
Addresses     == { AsRead[a] : a \in RealAddresses }

\* constructMemoryAction: the access as the checker keeps it.
constructMemoryAction(t, s, funcID) ==
  [task |-> t, addr |-> AsRead[s.addr], value |-> s.value, line |-> s.line,
   isWrite |-> s.isWrite, func |-> funcID]

\* DeterminacyChecker has no function IDs.
Bare(act) == [task |-> act.task, addr |-> act.addr, value |-> act.value,
              line |-> act.line, isWrite |-> act.isWrite]
BareSeq(s) == [i \in DOMAIN s |-> Bare(s[i])]
BareReport(r) == [lines |-> r.lines, addr |-> r.addr,
                  action1 |-> Bare(r.action1), action2 |-> Bare(r.action2)]
BareReports(T) == { BareReport(r) : r \in T }
BareAccess(e) == Bare(constructMemoryAction(e.task, e.stmt, 0))

Lines  == { s.line : s \in Statements }
Values == { s.value : s \in Statements } \cup {0}

\* The operations of the checker on its state as it is in the middle of a call.
Detector == INSTANCE DeterminacyChecker

\* The checker between calls.
Checker == INSTANCE DeterminacyChecker
  WITH nodes <- committed.nodes, edges <- committed.edges,
       bagged <- committed.bagged, HB <- committed.HB,
       writes <- committed.writes, conflictTable <- committed.conflictTable

\* What is committed when the lock is released.
CheckerState ==
  [nodes |-> nodes, edges |-> edges, bagged |-> bagged, HB |-> HB,
   writes |-> [x \in Addresses |-> BareSeq(writes[x])],
   conflictTable |-> BareReports(conflictTable)]

-----------------------------------------------------------------------------
(* The program calls the logger.                                           *)

Idle == [pc |-> "idle", op |-> "none"]
IsIdle(th) == call[th].pc = "idle"

\* A task is worked for by one thread at a time.
Busy(t) == \E th \in Threads :
             call[th].op \in {"begin", "order", "access"} /\ call[th].task = t

\* Accesses to an address of the checker that are on their way.
Pending(x) ==
  { th \in Threads : call[th].op = "access" /\ AsRead[call[th].stmt.addr] = x }

\* A task runs when it is set up and the tasks ordered before it are over.
MayRun(t) == /\ t \in committed.bagged \ (creating \cup done)
             /\ ~Busy(t)
             /\ committed.HB[t] \subseteq done

Enter(th, c) == /\ phase = "run" /\ IsIdle(th)
                /\ call' = [call EXCEPT ![th] = c]
                /\ UNCHANGED <<guardLock, registryVars, checkerVars, shown, phase,
                               historyVars>>

\* A TaskInfo is created: INS::GenTaskID, then INS::TaskBeginLog.
TaskBeginLog(th) ==
  /\ taskIDSeed \in TaskIDs
  /\ Enter(th, [pc |-> "lock", op |-> "begin", task |-> taskIDSeed])
  /\ taskIDSeed' = taskIDSeed + 1
  /\ UNCHANGED programVars

\* INS::TaskReceiveTokenLog for one predecessor, INS::saveChildHBs for several.
\* Some order is new (a bound of the model: there are finitely many calls).
saveChildHBs(th, t, P) ==
  /\ t \in creating /\ ~Busy(t)
  /\ P \subseteq committed.bagged \ creating
  /\ ~ P \subseteq Detector!inEdges(committed.edges, t)
  /\ Enter(th, [pc |-> "lock", op |-> "order", task |-> t, uncles |-> P])
  /\ UNCHANGED <<taskIDSeed, programVars>>

\* What a call of INS::Read or INS::Write holds at its beginning.
AccessCall(t, s, pc) == [pc |-> pc, op |-> "access", task |-> t, stmt |-> s,
                         funcID |-> known[t][s.name], next |-> 1]

HasRoom(x) == Len(accesses[x]) + Cardinality(Pending(x)) < MaxAccesses

\* Mutant of ReadOrWrite: the lock is taken before the function is looked up.
LockThenRegister(th, t, s) ==
  /\ MayRun(t) /\ HasRoom(AsRead[s.addr])
  /\ guardLock = Nobody /\ guardLock' = th
  /\ phase = "run" /\ IsIdle(th)
  /\ call' = [call EXCEPT ![th] =
       AccessCall(t, s, IF known[t][s.name] = 0 THEN "lockRegistry" ELSE "access")]
  /\ UNCHANGED <<registryVars, checkerVars, shown, phase, historyVars, taskIDSeed,
                 programVars>>

\* INS::Read and INS::Write look the function up in the TaskInfo, without the
\* lock; an ID of 0 means that the task has not met the function yet.
ReadOrWrite(th, t, s) ==
  /\ MayRun(t) /\ HasRoom(AsRead[s.addr])
  /\ Enter(th, AccessCall(t, s, IF known[t][s.name] = 0
                                  THEN "lockRegistry" ELSE "lock"))
  /\ UNCHANGED <<taskIDSeed, programVars>>

\* INS::Finalize, when main returns: the parallel regions are over.
Finalize ==
  /\ phase = "run" /\ phase' = "ending"
  /\ \A th \in Threads : IsIdle(th)
  /\ committed.bagged \subseteq done
  /\ call' = [call EXCEPT ![Main] = [pc |-> "lock", op |-> "report"]]
  /\ UNCHANGED <<guardLock, taskIDSeed, registryVars, checkerVars, shown,
                 programVars, historyVars>>

TaskReady(t) ==
  /\ phase = "run" /\ t \in creating /\ ~Busy(t)
  /\ creating' = creating \ {t}
  /\ UNCHANGED <<guardLock, taskIDSeed, registryVars, checkerVars, call, shown,
                 phase, done, historyVars>>

TaskOver(t) ==
  /\ phase = "run" /\ MayRun(t)
  /\ done' = done \cup {t}
  /\ UNCHANGED <<guardLock, taskIDSeed, registryVars, checkerVars, call, shown,
                 phase, creating, historyVars>>

-----------------------------------------------------------------------------
(* INS::RegisterFunction.                                                  *)

\* Steps of a call change its locals and nothing of the program.
Local == UNCHANGED <<taskIDSeed, shown, programVars, historyVars>>

\* Mutant of LockRegistry: the lock is not taken.
EnterRegistry(th) ==
  /\ call[th].pc = "lockRegistry"
  /\ call' = [call EXCEPT ![th].pc = "find"]
  /\ UNCHANGED <<guardLock, registryVars, checkerVars, phase>> /\ Local

LockRegistry(th) ==
  /\ call[th].pc = "lockRegistry" /\ guardLock = Nobody
  /\ guardLock' = th
  /\ call' = [call EXCEPT ![th].pc = "find"]
  /\ UNCHANGED <<registryVars, checkerVars, phase>> /\ Local

\* Another task may have registered the function in the meantime.
FindFunction(th) ==
  LET id == funcNames[call[th].stmt.name]
  IN  /\ call[th].pc = "find"
      /\ call' = [call EXCEPT ![th].pc = IF id = 0 THEN "add" ELSE "unlockRegistry",
                              ![th].funcID = id]
      /\ UNCHANGED <<guardLock, registryVars, checkerVars, phase>> /\ Local

\* Mutant of AddFunction: the counter is not advanced.
AddSameID(th) ==
  /\ call[th].pc = "add"
  /\ call' = [call EXCEPT ![th].pc = "unlockRegistry", ![th].funcID = funcIDSeed]
  /\ funcNames' = [funcNames EXCEPT ![call[th].stmt.name] = funcIDSeed]
  /\ functions' = [i \in DOMAIN functions \cup {funcIDSeed} |->
                     IF i = funcIDSeed THEN call[th].stmt.name ELSE functions[i]]
  /\ phase' = IF funcIDSeed \in DOMAIN functions THEN "aborted" ELSE phase
  /\ UNCHANGED <<guardLock, funcIDSeed, known, checkerVars>> /\ Local

\* A new name gets the next ID, which must be new to the checker
\* (Checker::registerFuncSignature asserts it).
AddFunction(th) ==
  /\ call[th].pc = "add"
  /\ call' = [call EXCEPT ![th].pc = "unlockRegistry", ![th].funcID = funcIDSeed]
  /\ funcIDSeed' = funcIDSeed + 1
  /\ funcNames' = [funcNames EXCEPT ![call[th].stmt.name] = funcIDSeed]
  /\ functions' = [i \in DOMAIN functions \cup {funcIDSeed} |->
                     IF i = funcIDSeed THEN call[th].stmt.name ELSE functions[i]]
  /\ phase' = IF funcIDSeed \in DOMAIN functions THEN "aborted" ELSE phase
  /\ UNCHANGED <<guardLock, known, checkerVars>> /\ Local

\* Mutant of UnlockRegistry: the TaskInfo keeps one ID for all functions.
RememberLast(th) ==
  /\ call[th].pc = "unlockRegistry"
  /\ guardLock' = Nobody
  /\ known' = [known EXCEPT ![call[th].task] = [n \in Names |-> call[th].funcID]]
  /\ call' = [call EXCEPT ![th].pc = "lock"]
  /\ UNCHANGED <<funcNames, funcIDSeed, functions, checkerVars, phase>> /\ Local

\* The lock is released, and TaskInfo::registerFunction remembers the ID.
UnlockRegistry(th) ==
  /\ call[th].pc = "unlockRegistry"
  /\ guardLock' = Nobody
  /\ known' = [known EXCEPT ![call[th].task][call[th].stmt.name] = call[th].funcID]
  /\ call' = [call EXCEPT ![th].pc = "lock"]
  /\ UNCHANGED <<funcNames, funcIDSeed, functions, checkerVars, phase>> /\ Local

-----------------------------------------------------------------------------
(* The calls of the checker, under the lock.                               *)

\* Mutant of Lock: the lock is not waited for.
LockAnyway(th) ==
  /\ call[th].pc = "lock"
  /\ guardLock' = th
  /\ call' = [call EXCEPT ![th].pc = call[th].op]
  /\ UNCHANGED <<registryVars, checkerVars, phase>> /\ Local

Lock(th) ==
  /\ call[th].pc = "lock" /\ guardLock = Nobody
  /\ guardLock' = th
  /\ call' = [call EXCEPT ![th].pc = call[th].op]
  /\ UNCHANGED <<registryVars, checkerVars, phase>> /\ Local

onTaskCreate(th) ==
  /\ call[th].pc = "begin"
  /\ Detector!onTaskCreate(call[th].task)
  /\ call' = [call EXCEPT ![th].pc = "unlock"]
  /\ UNCHANGED <<guardLock, registryVars, writes, conflictTable, phase>> /\ Local

\* One edge after another; which comes first does not matter to the result.
saveHappensBeforeEdge(th) ==
  /\ call[th].pc = "order"
  /\ \E p \in call[th].uncles :
       /\ Detector!saveHappensBeforeEdges({p}, call[th].task)
       /\ call' = [call EXCEPT ![th].uncles = @ \ {p},
                               ![th].pc = IF call[th].uncles = {p}
                                            THEN "unlock" ELSE "order"]
  /\ UNCHANGED <<guardLock, registryVars, writes, conflictTable, phase>> /\ Local

TheAction(th) ==
  constructMemoryAction(call[th].task, call[th].stmt, call[th].funcID)

\* An access in a function without ID ends the program, with the lock held.
detectRaceOnMem(th) ==
  /\ call[th].pc = "access"
  /\ phase' = IF call[th].funcID = 0 THEN "aborted" ELSE phase
  /\ call' = [call EXCEPT ![th].pc = "compare", ![th].next = 1]
  /\ UNCHANGED <<guardLock, registryVars, checkerVars>> /\ Local

\* One pass of the loop of Checker::saveTaskActions; the first conflict of a slot
\* of the table stays.
Compare(th) ==
  LET act == TheAction(th)
      i   == call[th].next
      new == Detector!Report(act, writes[act.addr][i])
  IN  /\ call[th].pc = "compare" /\ i <= Len(writes[act.addr])
      /\ conflictTable' =
           IF /\ Detector!Reportable(act, writes[act.addr][i])
              /\ \A r \in conflictTable : ~Detector!SameSlot(r, new)
             THEN conflictTable \cup {new} ELSE conflictTable
      /\ call' = [call EXCEPT ![th].next = i + 1]
      /\ UNCHANGED <<guardLock, registryVars, nodes, edges, bagged, HB, writes,
                     phase>> /\ Local

\* After the loop the access enters the history.
Save(th) ==
  LET act == TheAction(th)
  IN  /\ call[th].pc = "compare" /\ call[th].next > Len(writes[act.addr])
      /\ writes' = [writes EXCEPT ![act.addr] =
                      Append(Detector!MakeRoom(@), act)]
      /\ call' = [call EXCEPT ![th].pc = "unlock"]
      /\ UNCHANGED <<guardLock, registryVars, nodes, edges, bagged, HB,
                     conflictTable, phase>> /\ Local

\* The conflicts of a pair of lines are kept, and printed, in the order of their
\* addresses.
Before(r) == { q \in conflictTable : q.lines = r.lines /\ q.addr < r.addr }

\* Mutant of FirstConflicts: the loop ends one address too early.
FirstButOne == { r \in conflictTable : Cardinality(Before(r)) < MaxShown - 1 }

FirstConflicts == { r \in conflictTable : Cardinality(Before(r)) < MaxShown }

\* Checker::reportConflicts; functions.at throws for an ID without a name.
reportConflicts(th) ==
  /\ call[th].pc = "report"
  /\ IF \A r \in FirstConflicts :
          {r.action1.func, r.action2.func} \subseteq DOMAIN functions
       THEN /\ shown' = { [conflict |-> r, name1 |-> functions[r.action1.func],
                           name2 |-> functions[r.action2.func]] :
                          r \in FirstConflicts }
            /\ UNCHANGED phase
       ELSE phase' = "aborted" /\ UNCHANGED shown
  /\ call' = [call EXCEPT ![th].pc = "unlock"]
  /\ UNCHANGED <<guardLock, taskIDSeed, registryVars, checkerVars, programVars,
                 historyVars>>

\* The call is over; the checker is seen by others from now on.
Unlock(th) ==
  LET c == call[th]
  IN  /\ c.pc = "unlock"
      /\ guardLock' = Nobody
      /\ committed' = CheckerState
      /\ call' = [call EXCEPT ![th] = Idle]
      /\ creating' = IF c.op = "begin" THEN creating \cup {c.task} ELSE creating
      /\ accesses' = IF c.op = "access"
                       THEN [accesses EXCEPT ![AsRead[c.stmt.addr]] =
                               Append(@, BareAccess(c))]
                       ELSE accesses
      /\ made' = IF c.op = "access" THEN made \cup {[task |-> c.task, stmt |-> c.stmt]}
                                    ELSE made
      /\ phase' = IF c.op = "report" THEN "reported" ELSE phase
      /\ UNCHANGED <<taskIDSeed, registryVars, checkerVars, shown, done>>

-----------------------------------------------------------------------------

Init ==
  /\ guardLock = Nobody
  /\ taskIDSeed = 0
  /\ funcNames = [n \in Names |-> 0] /\ funcIDSeed = 1
  /\ functions = << >>
  /\ known = [t \in TaskIDs |-> [n \in Names |-> 0]]
  /\ nodes = {} /\ edges = {} /\ bagged = {}
  /\ HB = [t \in TaskIDs |-> {}]
  /\ writes = [x \in Addresses |-> << >>]
  /\ conflictTable = {}
  /\ call = [th \in Threads |-> Idle]
  /\ shown = {} /\ phase = "run"
  /\ creating = {} /\ done = {}
  /\ accesses = [x \in Addresses |-> << >>] /\ made = {}
  /\ committed = CheckerState

\* What a thread does inside a call.
Step(th) ==
  \/ LockRegistry(th) \/ FindFunction(th) \/ AddFunction(th) \/ UnlockRegistry(th)
  \/ Lock(th) \/ Unlock(th)
  \/ onTaskCreate(th) \/ saveHappensBeforeEdge(th) \/ reportConflicts(th)
  \/ detectRaceOnMem(th) \/ Compare(th) \/ Save(th)

Next ==
  /\ phase # "aborted"
  /\ \/ \E th \in Threads :
          \/ TaskBeginLog(th)
          \/ \E t \in TaskIDs : \/ \E P \in SUBSET TaskIDs : saveChildHBs(th, t, P)
                              \/ \E s \in Code[t] : ReadOrWrite(th, t, s)
          \/ Step(th)
     \/ Finalize
     \/ \E t \in TaskIDs : TaskReady(t) \/ TaskOver(t)

\* A thread that can go on inside a call does, and gets the lock when it is free
\* for good.  Nothing is assumed of the program: it may stop calling.
Spec == Init /\ [][Next]_vars /\ \A th \in Threads : WF_vars(Step(th))

-----------------------------------------------------------------------------
(* Properties.                                                             *)

Holds(th) == call[th].pc \in {"find", "add", "unlockRegistry", "begin", "order",
                              "access", "compare", "report", "unlock"}

\* A name has one ID and an ID one name, though tasks look names up before they
\* take the lock and two tasks may register one at once (Logger.h:95-111,186-192);
\* and who is inside the lock is alone there.
RegistryConsistent ==
  /\ \A th \in Threads : Holds(th) => guardLock = th
  /\ DOMAIN functions = 1 .. funcIDSeed - 1
  /\ guardLock = Nobody =>
       \A i \in DOMAIN functions : funcNames[functions[i]] = i
  /\ \A t \in TaskIDs : \A n \in Names : known[t][n] \in {0, funcNames[n]}

\* Neither the assertion on a function ID (checker.cc:23), nor the exit on ID 0
\* (checker.cc:119), nor functions.at of the report (checker.cc:312) ends the program.
NeverAborts == phase # "aborted"

\* An access of the report is one the program made, in the function printed.
Describes(act, name) ==
  \E e \in made : BareAccess(e) = Bare(act) /\ e.stmt.name = name

\* Every conflict printed is about two accesses that were made, by different
\* tasks, the second one first, each in the function printed with it; the
\* names went through two tables and the TaskInfo (checker.cc:309-320).
ReportFaithful ==
  \A e \in shown :
    LET r    == e.conflict
        past == accesses[r.addr]
    IN  /\ Describes(r.action1, e.name1) /\ Describes(r.action2, e.name2)
        /\ \E i, j \in DOMAIN past :
             /\ i < j /\ past[i].task # past[j].task
             /\ past[i] = Bare(r.action2) /\ past[j] = Bare(r.action1)

ShownAt(lines) == { e \in shown : e.conflict.lines = lines }

\* When the report is out, every race within the history shows: its lines are
\* printed, with its address or with as many other addresses as are shown.
RacesShown ==
  phase = "reported" =>
    \A x \in Addresses : \A i, j \in DOMAIN accesses[x] :
      LET first  == accesses[x][i]
          second == accesses[x][j]
          here   == ShownAt(Checker!LinePair(first.line, second.line))
      IN  /\ i < j /\ j - i <= HistoryBound
          /\ Checker!Race(first, second)
          => \/ \E e \in here : e.conflict.addr = x
             \/ Cardinality(here) >= MaxShown

\* Threads see the checker change as its specification says, one operation at
\* a time: guardLock makes each call one step (Logger.h:65-67).
CheckerSpec == Checker!Spec

\* Every call returns: nobody waits for the lock for ever, nor for himself
\* (Read and Write take it twice, Logger.h:186-200).
EveryCallReturns == \A th \in Threads : ~IsIdle(th) ~> IsIdle(th)
=============================================================================
