------------------------- MODULE DeterminacyChecker -------------------------
(***************************************************************************)
(* The online determinacy race checker of TaskSanitizer                    *)
(* (src/detector/determinacy/checker.cc): the happens-before graph of task *)
(* IDs, the serial bag of every task, the bounded access history of every  *)
(* memory address and the table of reported conflicts.                     *)
(*                                                                         *)
(* Every operation runs under the global guardLock of the logger, so an    *)
(* operation is one step.  The client of the checker is the logger;        *)
(* the actions below state what it owes the checker: a task gets all its   *)
(* incoming edges before another task may depend on it, and a task stops   *)
(* accessing memory before a task ordered after it starts to.  The module  *)
(* TaskRuntime models the client that the code really has.                 *)
(***************************************************************************)
EXTENDS Integers, Sequences

CONSTANTS
  TaskIDs,        \* the IDs the logger gives to tasks
  Addresses,      \* memory addresses
  Values,         \* values written to memory; reads are recorded with 0
  Lines,          \* source line numbers
  HistoryBound,   \* accesses kept per address (CONC_THREASHOLD, 5 in the code)
  CommutingLines, \* pairs <<line of the access, line of the earlier one>> of
                  \* writes that the CommutativityChecker accepts
  MaxAccesses     \* bound of the model: accesses per address

ASSUME HistoryBoundAssumption == HistoryBound \in Nat \ {0}
ASSUME LinesAssumption == Lines \subseteq Nat
ASSUME CommutingLinesAssumption == CommutingLines \subseteq Lines \X Lines

VARIABLES
  nodes,          \* keys of `graph`
  edges,          \* inEdges and outEdges of `graph`, which mirror each other
  bagged,         \* keys of `serial_bags`
  HB,             \* serial_bags[t]->HB, empty when t has no bag
  writes,         \* `writes`: the latest accesses of every address
  conflictTable,  \* `conflictTable`
  creating,       \* client: tasks that still receive incoming edges
  accesses        \* history: all accesses of every address, in order

graphVars  == <<nodes, edges, bagged, HB>>
accessVars == <<writes, conflictTable, accesses>>
vars       == <<nodes, edges, bagged, HB, writes, conflictTable, creating, accesses>>

\* An access to memory, as a MemoryActions object keeps it.
Action == [task : TaskIDs, addr : Addresses, value : Values, line : Lines,
           isWrite : BOOLEAN]

-----------------------------------------------------------------------------
(* The happens-before graph and the serial bags.                           *)

inEdges(E, t) == { p \in TaskIDs : <<p, t>> \in E }

\* Mutant of InheritedHB: the bags of the predecessors are not merged.
DirectHB(E, bags, t) == inEdges(E, t)

\* The bag a task with incoming edges gets: its predecessors and the bags they
\* have at this moment.
InheritedHB(E, bags, t) ==
  inEdges(E, t) \cup UNION { bags[p] : p \in inEdges(E, t) }

\* A task without incoming edges gets an empty bag unless it has a bag; any
\* other task gets a new bag, inherited from its predecessors.
onTaskCreate(t) ==
  /\ nodes'  = nodes \cup {t}
  /\ bagged' = bagged \cup {t}
  /\ HB'     = IF inEdges(edges, t) = {}
                 THEN HB
                 ELSE [HB EXCEPT ![t] = InheritedHB(edges, HB, t)]
  /\ UNCHANGED edges

\* Mutant of saveHappensBeforeEdges: a bag that exists is not rebuilt.
saveEdgesKeepBag(P, t) ==
  /\ nodes'  = nodes \cup P \cup {t}
  /\ edges'  = edges \cup (P \X {t})
  /\ bagged' = bagged \cup {t}
  /\ UNCHANGED HB

\* Records that every task of P happens before t, and rebuilds the bag of t.
saveHappensBeforeEdges(P, t) ==
  LET newEdges == edges \cup (P \X {t})
  IN  /\ nodes'  = nodes \cup P \cup {t}
      /\ edges'  = newEdges
      /\ bagged' = bagged \cup {t}
      /\ HB'     = [HB EXCEPT ![t] = InheritedHB(newEdges, HB, t)]

-----------------------------------------------------------------------------
(* Race detection on a memory access.                                      *)

\* Mutant of Parallel: only the edges of the graph are consulted.
NoEdgeBetween(cur, prev) ==
  /\ cur.task # prev.task
  /\ prev.task \notin inEdges(edges, cur.task)

\* The two accesses are by different tasks and the checker's order does not
\* place the earlier one before the current one.
Parallel(cur, prev) ==
  /\ cur.task # prev.task
  /\ prev.task \notin HB[cur.task]

\* A write and a read, or two writes of different values.
Conflicting(cur, prev) ==
  \/ cur.isWrite # prev.isWrite
  \/ cur.isWrite /\ prev.isWrite /\ cur.value # prev.value

\* Only two writes can commute.
isCommutative(cur, prev) ==
  /\ cur.isWrite = prev.isWrite
  /\ <<cur.line, prev.line>> \in CommutingLines

Reportable(cur, prev) ==
  /\ Parallel(cur, prev)
  /\ Conflicting(cur, prev)
  /\ ~isCommutative(cur, prev)

LinePair(m, n) == IF m <= n THEN <<m, n>> ELSE <<n, m>>

\* The entry of the conflict table for a race: its lines are the key.
Report(cur, prev) ==
  [lines |-> LinePair(cur.line, prev.line), addr |-> cur.addr,
   action1 |-> cur, action2 |-> prev]

\* Entries with the same key are kept in a set ordered by address alone.
SameSlot(r, s) == r.lines = s.lines /\ r.addr = s.addr

\* The entries an access adds: the races with the past accesses whose slot is
\* not taken, by an older entry or by an entry this access adds earlier.
NewReports(cur, past) ==
  { Report(cur, past[i]) :
      i \in { k \in DOMAIN past :
                /\ Reportable(cur, past[k])
                /\ \A r \in conflictTable : ~SameSlot(r, Report(cur, past[k]))
                /\ \A j \in 1 .. k - 1 :
                     Reportable(cur, past[j]) =>
                       ~SameSlot(Report(cur, past[j]), Report(cur, past[k])) } }

\* Mutants of MakeRoom: room is made one access too late, or too early.
MakeRoomLate(past)  == IF Len(past) > HistoryBound THEN Tail(past) ELSE past
MakeRoomEarly(past) == IF Len(past) >= HistoryBound - 1 THEN Tail(past) ELSE past

\* The oldest access makes room when the history of the address is full.
MakeRoom(past) == IF Len(past) >= HistoryBound THEN Tail(past) ELSE past

saveTaskActions(act) ==
  LET past == writes[act.addr]
  IN  /\ conflictTable' = conflictTable \cup NewReports(act, past)
      /\ writes' = [writes EXCEPT ![act.addr] = Append(MakeRoom(past), act)]

-----------------------------------------------------------------------------
(* The calls the logger makes.                                             *)

Started == { t \in TaskIDs :
               \E a \in Addresses :
                 \E i \in DOMAIN accesses[a] : accesses[a][i].task = t }

Init ==
  /\ nodes = {} /\ edges = {} /\ bagged = {}
  /\ HB = [t \in TaskIDs |-> {}]
  /\ writes = [a \in Addresses |-> << >>]
  /\ conflictTable = {}
  /\ creating = {}
  /\ accesses = [a \in Addresses |-> << >>]

\* INS::TaskBeginLog: a task ID the checker has not seen.  The task is ready at
\* once when it gets no edges.
TaskBegin(t) ==
  /\ t \notin bagged
  /\ onTaskCreate(t)
  /\ creating' \in { creating, creating \cup {t} }
  /\ UNCHANGED accessVars

\* INS::TaskReceiveTokenLog and INS::saveChildHBs: t is ordered after P.
OrderAfter(P, t) ==
  /\ t \in creating
  /\ P # {}
  /\ saveHappensBeforeEdges(P, t)
  /\ creating' \in { creating, creating \ {t} }
  /\ UNCHANGED accessVars

\* The task is set up and may run, and be depended on.
TaskReady(t) ==
  /\ t \in creating
  /\ creating' = creating \ {t}
  /\ UNCHANGED <<graphVars, accessVars>>

\* INS::Read and INS::Write.
Access(act) ==
  /\ act.task \in bagged \ creating
  /\ \A s \in Started : act.task \notin HB[s]
  /\ Len(accesses[act.addr]) < MaxAccesses
  /\ saveTaskActions(act)
  /\ accesses' = [accesses EXCEPT ![act.addr] = Append(@, act)]
  /\ UNCHANGED <<graphVars, creating>>

Next ==
  \/ \E t \in TaskIDs :
       \/ TaskBegin(t)
       \/ \E P \in SUBSET (bagged \ creating) : OrderAfter(P, t)
       \/ TaskReady(t)
  \/ \E act \in Action : (act.isWrite \/ act.value = 0) /\ Access(act)

Spec == Init /\ [][Next]_vars

-----------------------------------------------------------------------------
(* Properties.                                                             *)

\* The shape of the checker's state; in particular the history of an address
\* never outgrows CONC_THREASHOLD (checker.cc:184-188).
TypeOK ==
  /\ nodes \subseteq TaskIDs /\ edges \subseteq TaskIDs \X TaskIDs
  /\ bagged \subseteq TaskIDs /\ creating \subseteq TaskIDs
  /\ HB \in [TaskIDs -> SUBSET TaskIDs]
  /\ writes \in [Addresses -> Seq(Action)]
  /\ \A a \in Addresses : Len(writes[a]) <= HistoryBound
  /\ conflictTable \subseteq [lines : Lines \X Lines, addr : Addresses,
                              action1 : Action, action2 : Action]
  /\ accesses \in [Addresses -> Seq(Action)]

\* The bags describe a strict partial order of the tasks, although each is
\* computed once, from the bags its predecessors had then (checker.cc:76-80).
HappensBeforeIsOrder ==
  /\ \A t \in TaskIDs : t \notin HB[t]
  /\ \A t \in TaskIDs : \A p \in HB[t] : HB[p] \subseteq HB[t]

\* No bag is stale: rebuilding the bag of any task from the graph as it is now
\* would give the bag it has (the merge of checker.cc:76-80 done again).
BagsCurrent == \A t \in TaskIDs : HB[t] = InheritedHB(edges, HB, t)

\* Two accesses that the order leaves unordered both ways and that do not
\* give the same result in either order.
Race(a, b) ==
  /\ a.task # b.task
  /\ a.addr = b.addr
  /\ a.task \notin HB[b.task] /\ b.task \notin HB[a.task]
  /\ Conflicting(a, b) /\ ~isCommutative(b, a)

\* Whatever the table reports are two accesses that happened, the second one
\* first, and that are unordered in both directions although the code only
\* looks into the bag of the current task (checker.cc:160-162).
ReportsAreRaces ==
  \A r \in conflictTable :
    /\ Race(r.action2, r.action1)
    /\ \E i, j \in DOMAIN accesses[r.addr] :
         /\ i < j
         /\ accesses[r.addr][i] = r.action2
         /\ accesses[r.addr][j] = r.action1

ReportedAtLines(a, b) ==
  \E r \in conflictTable :
    r.addr = a.addr /\ r.lines = LinePair(a.line, b.line)

\* A race between two accesses of an address that are at most HistoryBound
\* accesses of it apart is in the table: the loop misses none of the kept
\* accesses, and pop_front drops only the oldest (checker.cc:155-188).
RecentRacesReported ==
  \A x \in Addresses : \A i, j \in DOMAIN accesses[x] :
    /\ i < j /\ j - i <= HistoryBound
    /\ Race(accesses[x][i], accesses[x][j])
    => ReportedAtLines(accesses[x][i], accesses[x][j])
=============================================================================
