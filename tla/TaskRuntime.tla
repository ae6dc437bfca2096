---------------------------- MODULE TaskRuntime ----------------------------
(***************************************************************************)
(* The runtime of TaskSanitizer: the OMPT callbacks                        *)
(* (src/instrumentor/callbacks/OMPTCallbacks.h), the task metadata they    *)
(* keep (eventlogger/Util.h, TaskInfo.h) and the logger INS                *)
(* (eventlogger/Logger.h), on top of the checker of DeterminacyChecker.    *)
(*                                                                         *)
(* An OpenMP task is split into segments: whenever it creates a task or    *)
(* returns from a taskwait it is given a new TaskInfo with a new ID.  The  *)
(* callbacks of different tasks interleave; a step is what a thread does   *)
(* under one acquisition of guardLock, with the thread-local work next to  *)
(* it.  Making a TaskInfo, drawing its ID and announcing the ID to the     *)
(* checker is one step: nobody else knows the ID yet.                      *)
(*                                                                         *)
(* The OpenMP program and the OpenMP runtime are the environment.  They    *)
(* decide which tasks exist and when they run, and they define the order   *)
(* that really holds between segments, kept in the history variable        *)
(* `before`.                                                               *)
(***************************************************************************)
EXTENDS Integers, Sequences

CONSTANTS
  Tasks,          \* OpenMP tasks
  InitialTasks,   \* the task that runs main, which has no TaskInfo
  Regions,        \* the implicit tasks of the parallel regions, in order
  UntiedTasks,    \* those whose creation is not of type ompt_task_explicit
  Producers,      \* the tasks that create tasks
  Waiters,        \* the tasks that execute taskwait
  IgnoredSyncs,   \* constructs in use whose callbacks do nothing, of "barrier"
                  \* and "taskgroup"
  Dependents,     \* the tasks created with depend clauses
  DepAddrs,       \* variables named in depend clauses
  DepTypes,       \* dependence types in use, of "in", "out" and "inout"
  MaxDeps,        \* bound of the model: dependences per task
  AntiDeps,       \* whether a variable is written after siblings read it
  Infos,          \* addresses of TaskInfo objects
  Reuse,          \* whether the allocator gives out a freed address again
  NoTask,         \* no OpenMP task
  TaskIDs, Addresses, Values, Lines, HistoryBound, CommutingLines, MaxAccesses

NoID   == -1      \* the parentID of a token nobody sent
NoInfo == -1      \* a null pointer

ImplicitTasks == UNION { Regions[k] : k \in DOMAIN Regions }
ExplicitTasks == Tasks \ (ImplicitTasks \cup InitialTasks)

ASSUME TasksAssumption ==
  /\ Regions \in Seq(SUBSET Tasks) /\ InitialTasks \subseteq Tasks \ ImplicitTasks
  /\ \A j, k \in DOMAIN Regions : j # k => Regions[j] \cap Regions[k] = {}
  /\ UntiedTasks \subseteq ExplicitTasks
  /\ IgnoredSyncs \subseteq {"barrier", "taskgroup"}
  /\ NoTask \notin Tasks
  /\ TaskIDs \subseteq Nat /\ 0 \in TaskIDs
  /\ NoInfo \notin Infos /\ (Reuse \/ Infos \subseteq Nat)
  /\ DepTypes \subseteq {"in", "out", "inout"} /\ MaxDeps \in Nat

VARIABLES
  nodes, edges, bagged, HB, writes, conflictTable, accesses, \* the checker
  taskIDSeed,     \* INS::taskIDSeed
  idMap,          \* INS::idMap; key and value of a token are the same address
  tokenHB,        \* INS::HB
  live, info,     \* the TaskInfo objects that exist, and their contents
  ptr,            \* the TaskInfo an OpenMP task points to (ompt_data_t::ptr)
  pc,             \* where a task is, in the program or in a callback
  frame,          \* locals of the callback: new task, old TaskInfo, dependences
  parent, depsOf, preds, \* the program: creator, depend clauses, predecessors
  before          \* history: segments ordered before what the task does now

checkerVars == <<nodes, edges, bagged, HB, writes, conflictTable, accesses>>
graphVars   == <<nodes, edges, bagged, HB>>
logVars     == <<writes, conflictTable, accesses>>
insVars     == <<taskIDSeed, idMap, tokenHB>>
infoVars    == <<live, info, ptr>>
programVars == <<parent, depsOf, preds>>
vars == <<checkerVars, insVars, infoVars, pc, frame, programVars, before>>

Keys == DepAddrs \cup Infos
Dep  == [addr : DepAddrs, type : DepTypes]

ID(t) == info[ptr[t]].taskID
Idle  == [child |-> NoTask, old |-> NoInfo, deps |-> << >>]

\* The IDs that may still get incoming edges: of a task until its creation
\* callbacks are over, of a segment until it has received its tokens.
SetUp ==
  { ID(frame[p].child) : p \in { q \in Tasks :
      /\ frame[q].child \notin {NoTask} \cup UntiedTasks
      /\ pc[q] \in {"send", "receive"} \/ frame[q].deps # << >> } }
  \cup { ID(p) : p \in { q \in Tasks : pc[q] \in {"adopt", "saveChildren"} } }

Checker == INSTANCE DeterminacyChecker WITH creating <- SetUp

-----------------------------------------------------------------------------
(* The logger INS.                                                         *)

\* INS::TaskSendTokenLog
TaskSendTokenLog(id, key) ==
  /\ idMap' = [idMap EXCEPT ![key] = id]
  /\ UNCHANGED <<taskIDSeed, tokenHB, graphVars>>

\* Mutant of TaskReceiveTokenLog: the logger's own order is updated first.
RecordTokenFirst(id, key) ==
  LET parentID == idMap[key]
  IN  /\ IF parentID \in {NoID, id}
           THEN UNCHANGED graphVars
           ELSE Checker!saveHappensBeforeEdges({parentID}, id)
      /\ tokenHB' = IF parentID = NoID THEN tokenHB
                      ELSE [tokenHB EXCEPT
                              ![id] = @ \cup {parentID} \cup tokenHB[parentID]]
      /\ UNCHANGED <<taskIDSeed, idMap>>

\* INS::TaskReceiveTokenLog: nothing happens without a token, or with a token
\* the task sent itself.
TaskReceiveTokenLog(id, key) ==
  LET parentID == idMap[key]
  IN  /\ IF parentID \in {NoID, id}
           THEN UNCHANGED <<graphVars, tokenHB>>
           ELSE /\ Checker!saveHappensBeforeEdges({parentID}, id)
                /\ tokenHB' = [tokenHB EXCEPT
                                 ![id] = @ \cup {parentID} \cup tokenHB[parentID]]
      /\ UNCHANGED <<taskIDSeed, idMap>>

\* INS::saveChildHBs
saveChildHBs(t) ==
  /\ IF info[ptr[t]].childrenIDs = {}
       THEN UNCHANGED graphVars
       ELSE Checker!saveHappensBeforeEdges(info[ptr[t]].childrenIDs, ID(t))
  /\ info' = [info EXCEPT ![ptr[t]].childrenIDs = {}]
  /\ UNCHANGED insVars

-----------------------------------------------------------------------------
(* Task metadata.                                                          *)

\* Where `new TaskInfo` may place the object.
Free == IF Reuse THEN Infos \ live ELSE {taskIDSeed} \cap Infos

\* Mutant of createNewTaskMetadata: the children are not taken over.
ForgetChildren(t) ==
  /\ taskIDSeed \in TaskIDs
  /\ \E i \in Free :
       /\ live' = live \cup {i}
       /\ info' = [info EXCEPT ![i] = [taskID |-> taskIDSeed, active |-> TRUE,
                                      childrenIDs |-> {}]]
       /\ ptr' = [ptr EXCEPT ![t] = i]
  /\ Checker!onTaskCreate(taskIDSeed)
  /\ taskIDSeed' = taskIDSeed + 1
  /\ UNCHANGED <<idMap, tokenHB>>

\* Mutant of createNewTaskMetadata: INS::TaskBeginLog is not called.
NoTaskBegin(t) ==
  /\ taskIDSeed \in TaskIDs
  /\ \E i \in Free :
       /\ live' = live \cup {i}
       /\ info' = [info EXCEPT ![i] =
                     [taskID |-> taskIDSeed, active |-> TRUE,
                      childrenIDs |-> IF ptr[t] = NoInfo
                                        THEN {} ELSE info[ptr[t]].childrenIDs]]
       /\ ptr' = [ptr EXCEPT ![t] = i]
  /\ taskIDSeed' = taskIDSeed + 1
  /\ UNCHANGED <<graphVars, idMap, tokenHB>>

\* The first half of UTIL::createNewTaskMetadata: a new TaskInfo that takes
\* over the children of the old one, a new ID, and INS::TaskBeginLog.
createNewTaskMetadata(t) ==
  /\ taskIDSeed \in TaskIDs
  /\ \E i \in Free :
       /\ live' = live \cup {i}
       /\ info' = [info EXCEPT ![i] =
                     [taskID |-> taskIDSeed, active |-> TRUE,
                      childrenIDs |-> IF ptr[t] = NoInfo
                                        THEN {} ELSE info[ptr[t]].childrenIDs]]
       /\ ptr' = [ptr EXCEPT ![t] = i]
  /\ Checker!onTaskCreate(taskIDSeed)
  /\ taskIDSeed' = taskIDSeed + 1
  /\ UNCHANGED <<idMap, tokenHB>>

\* TaskInfo::addChild and UTIL::markEndOfTask on the TaskInfo of t.
addChildAndEnd(t, ids) ==
  info' = [info EXCEPT ![ptr[t]].childrenIDs = @ \cup ids,
                       ![ptr[t]].active = FALSE]

-----------------------------------------------------------------------------
(* on_ompt_callback_task_create and on_ompt_callback_task_dependences, in  *)
(* the context of the creating task p.                                     *)

\* The depend clauses of the task a program may create next: no write after a
\* sibling's read unless AntiDeps.
Clauses(p, c) ==
  { ds \in UNION { [1 .. n -> Dep] : n \in 0 .. IF c \in Dependents THEN MaxDeps ELSE 0 } :
      /\ AntiDeps \/ \A i \in DOMAIN ds : \A s \in Tasks :
           \A k \in DOMAIN depsOf[s] :
             ~ /\ parent[s] = p
               /\ depsOf[s][k] = [addr |-> ds[i].addr, type |-> "in"]
               /\ ds[i].type # "in" }

\* The earlier siblings that OpenMP makes the new task wait for: both name a
\* variable, and one of them writes it.
Predecessors(p, ds) ==
  { s \in Tasks : /\ parent[s] = p
                  /\ \E i \in DOMAIN ds : \E k \in DOMAIN depsOf[s] :
                       /\ ds[i].addr = depsOf[s][k].addr
                       /\ ds[i].type # "in" \/ depsOf[s][k].type # "in" }

Known(t) == ptr[t] # NoInfo

\* The segment a task is in, if the tool knows the task.
Segment(t) == IF Known(t) THEN {ID(t)} ELSE {}

\* The task that runs main goes on between the parallel regions.
Active(t) == /\ pc[t] = "run"
             /\ t \in InitialTasks =>
                  \A s \in ImplicitTasks : pc[s] \in {"unborn", "done"}

MayCreate(p, c) == /\ Active(p) /\ p \in Producers
                   /\ pc[c] = "unborn" /\ c \in ExplicitTasks

\* The program creates task c.
Generate(p, c, ds) ==
  /\ parent' = [parent EXCEPT ![c] = p]
  /\ depsOf' = [depsOf EXCEPT ![c] = ds]
  /\ preds'  = [preds  EXCEPT ![c] = Predecessors(p, ds)]
  /\ before' = [before EXCEPT ![c] = before[p] \cup Segment(p)]
  /\ frame'  = [frame  EXCEPT ![p] =
                  [child |-> c, old |-> ptr[p], deps |-> ds]]

\* A task of type ompt_task_explicit gets its metadata.
TaskCreate(p, c) ==
  /\ MayCreate(p, c) /\ Known(p) /\ c \notin UntiedTasks
  /\ \E ds \in Clauses(p, c) : Generate(p, c, ds)
  /\ createNewTaskMetadata(c)
  /\ pc' = [pc EXCEPT ![p] = "send", ![c] = "born"]
  /\ UNCHANGED logVars

\* For any other type of task only the creator is renamed.
TaskCreateUntied(p, c) ==
  /\ MayCreate(p, c) /\ Known(p) /\ c \in UntiedTasks
  /\ \E ds \in Clauses(p, c) : Generate(p, c, ds)
  /\ addChildAndEnd(p, {})
  /\ pc' = [pc EXCEPT ![p] = "rename", ![c] = "born"]
  /\ UNCHANGED <<checkerVars, insVars, live, ptr>>

\* A creator without TaskInfo sends no token, but UTIL::markEndOfTask
\* dereferences the null pointer.
TaskCreateByUnknown(p, c) ==
  /\ MayCreate(p, c) /\ ~Known(p)
  /\ Generate(p, c, << >>)
  /\ IF c \in UntiedTasks THEN UNCHANGED <<graphVars, insVars, infoVars>>
                          ELSE createNewTaskMetadata(c)
  /\ pc' = [pc EXCEPT ![p] = "crashed", ![c] = "born"]
  /\ UNCHANGED logVars

\* The creator sends a token keyed by the address of its TaskInfo ...
SendToChild(p) ==
  /\ pc[p] = "send"
  /\ TaskSendTokenLog(ID(p), ptr[p])
  /\ pc' = [pc EXCEPT ![p] = "receive"]
  /\ UNCHANGED <<logVars, infoVars, frame, programVars, before>>

\* ... the child receives it, and the creator's segment ends.
ChildReceives(p) ==
  /\ pc[p] = "receive"
  /\ TaskReceiveTokenLog(ID(frame[p].child), ptr[p])
  /\ addChildAndEnd(p, {ID(frame[p].child)})
  /\ pc' = [pc EXCEPT ![p] = "rename"]
  /\ UNCHANGED <<logVars, live, ptr, frame, programVars, before>>

\* UTIL::disguiseToTewTask: a new TaskInfo for the rest of the task ...
Rename(p) ==
  /\ pc[p] = "rename"
  /\ createNewTaskMetadata(p)
  /\ before' = [before EXCEPT ![p] = @ \cup {ID(p)}]
  /\ pc' = [pc EXCEPT ![p] = "adopt"]
  /\ UNCHANGED <<logVars, frame, programVars>>

\* Mutant of Adopt: the new TaskInfo is deleted.
AdoptDeletesNew(p) ==
  /\ pc[p] = "adopt"
  /\ TaskReceiveTokenLog(ID(p), frame[p].old)
  /\ live' = live \ {ptr[p]}
  /\ pc' = [pc EXCEPT ![p] = IF frame[p].child = NoTask
                               THEN "saveChildren" ELSE "depend"]
  /\ UNCHANGED <<logVars, info, ptr, frame, programVars, before>>

\* Mutant of Adopt: the edges of a taskwait are saved after a creation too.
AdoptSavesChildren(p) ==
  /\ pc[p] = "adopt"
  /\ TaskReceiveTokenLog(ID(p), frame[p].old)
  /\ live' = live \ {frame[p].old}
  /\ pc' = [pc EXCEPT ![p] = "saveChildren"]
  /\ UNCHANGED <<logVars, info, ptr, frame, programVars, before>>

\* ... which receives the token of the old TaskInfo, deleted after that.
Adopt(p) ==
  /\ pc[p] = "adopt"
  /\ TaskReceiveTokenLog(ID(p), frame[p].old)
  /\ live' = live \ {frame[p].old}
  /\ pc' = [pc EXCEPT ![p] = IF frame[p].child = NoTask
                               THEN "saveChildren" ELSE "depend"]
  /\ UNCHANGED <<logVars, info, ptr, frame, programVars, before>>

\* Mutant of Depend: a reader of a variable passes the token on.
DependReadersSend(p) ==
  LET d    == Head(frame[p].deps)
      id   == ID(frame[p].child)
      rest == Tail(frame[p].deps)
  IN  /\ pc[p] = "depend" /\ frame[p].deps # << >> /\ Known(frame[p].child)
      /\ \/ /\ d.type = "out"
            /\ TaskSendTokenLog(id, d.addr)
            /\ frame' = [frame EXCEPT ![p].deps = rest]
         \/ /\ d.type \in {"in", "inout"}
            /\ TaskReceiveTokenLog(id, d.addr)
            /\ frame' = [frame EXCEPT ![p].deps =
                           << [d EXCEPT !.type = "out"] >> \o rest]
      /\ UNCHANGED <<logVars, infoVars, pc, programVars, before>>

\* on_ompt_callback_task_dependences, one acquisition of the lock at a time:
\* a task receives the tokens of the variables it reads, and sends those of
\* the variables it writes.
Depend(p) ==
  LET d    == Head(frame[p].deps)
      id   == ID(frame[p].child)
      rest == Tail(frame[p].deps)
  IN  /\ pc[p] = "depend" /\ frame[p].deps # << >> /\ Known(frame[p].child)
      /\ \/ /\ d.type = "out"
            /\ TaskSendTokenLog(id, d.addr)
            /\ frame' = [frame EXCEPT ![p].deps = rest]
         \/ /\ d.type = "in"
            /\ TaskReceiveTokenLog(id, d.addr)
            /\ frame' = [frame EXCEPT ![p].deps = rest]
         \/ /\ d.type = "inout"
            /\ TaskReceiveTokenLog(id, d.addr)
            /\ frame' = [frame EXCEPT ![p].deps =
                           << [d EXCEPT !.type = "out"] >> \o rest]
      /\ UNCHANGED <<logVars, infoVars, pc, programVars, before>>

\* The TaskInfo of the new task is dereferenced, though an untied task has none.
DependOfUnknown(p) ==
  /\ pc[p] = "depend" /\ frame[p].deps # << >> /\ ~Known(frame[p].child)
  /\ pc' = [pc EXCEPT ![p] = "crashed"]
  /\ UNCHANGED <<checkerVars, insVars, infoVars, frame, programVars, before>>

\* The callbacks are over: the OpenMP runtime may schedule the new task.
Created(p) ==
  /\ pc[p] = "depend" /\ frame[p].deps = << >>
  /\ pc' = [pc EXCEPT ![p] = "run", ![frame[p].child] = "created"]
  /\ frame' = [frame EXCEPT ![p] = Idle]
  /\ UNCHANGED <<checkerVars, insVars, infoVars, programVars, before>>

-----------------------------------------------------------------------------
(* Running, waiting and ending.                                            *)

\* What is over when a finished task is.
Past(t) == before[t] \cup Segment(t)
PastOf(ts) == UNION { Past(t) : t \in ts }

Children(t) == { c \in Tasks : parent[c] = t }

\* The tasks created by t, by the tasks it created, and so on.
Descendants(t) ==
  LET ancestors[c \in Tasks] ==
        IF parent[c] = NoTask THEN {} ELSE {parent[c]} \cup ancestors[parent[c]]
  IN  { c \in Tasks : t \in ancestors[c] }

\* The tasks of the regions before the k-th: the teams and what they created.
Earlier(k) ==
  LET teams == UNION { Regions[j] : j \in 1 .. k - 1 }
  IN  teams \cup UNION { Descendants(t) : t \in teams }

\* on_ompt_callback_implicit_task, ompt_scope_begin, in the k-th region.
ImplicitBegin(t, k) ==
  /\ t \in Regions[k] /\ pc[t] = "unborn"
  /\ \A s \in Earlier(k) : pc[s] = "done"
  /\ createNewTaskMetadata(t)
  /\ before' = [before EXCEPT ![t] = PastOf(Earlier(k))]
  /\ pc' = [pc EXCEPT ![t] = "run"]
  /\ UNCHANGED <<logVars, frame, programVars>>

\* The team has arrived at a barrier and no task is pending.
AtBarrier(k) ==
  /\ \A t \in Regions[k] : pc[t] = "run"
  /\ \A s \in ExplicitTasks : pc[s] \in {"unborn", "done"}

\* on_ompt_callback_sync_region, ompt_sync_region_barrier: nothing is done.  The
\* tasks and the earlier segments of the team are over; the segments that the
\* team is in go on.
Barrier(k) ==
  LET over == PastOf({ s \in ExplicitTasks : pc[s] = "done" })
              \cup UNION { before[t] : t \in Regions[k] }
  IN  /\ "barrier" \in IgnoredSyncs /\ AtBarrier(k)
      /\ before' = [t \in Tasks |-> IF t \in Regions[k] THEN over ELSE before[t]]
      /\ UNCHANGED <<checkerVars, insVars, infoVars, pc, frame, programVars>>

\* The barrier that ends the region.
Join(k) ==
  /\ AtBarrier(k)
  /\ pc' = [t \in Tasks |-> IF t \in Regions[k] THEN "joined" ELSE pc[t]]
  /\ UNCHANGED <<checkerVars, insVars, infoVars, frame, programVars, before>>

\* on_ompt_callback_implicit_task, ompt_scope_end
ImplicitEnd(t) ==
  /\ pc[t] = "joined"
  /\ info' = [info EXCEPT ![ptr[t]].active = FALSE]
  /\ pc' = [pc EXCEPT ![t] = "done"]
  /\ UNCHANGED <<checkerVars, insVars, live, ptr, frame, programVars, before>>

\* Mutant of TaskSchedule: only the creation of a task gives it metadata.
ScheduleOnly(t) ==
  /\ pc[t] = "created"
  /\ \A s \in preds[t] : pc[s] = "done"
  /\ before' = [before EXCEPT ![t] = @ \cup PastOf(preds[t])]
  /\ pc' = [pc EXCEPT ![t] = "run"]
  /\ UNCHANGED <<checkerVars, insVars, infoVars, frame, programVars>>

\* on_ompt_callback_task_schedule: a task whose predecessors are done starts;
\* it gets its metadata now if it has none.
TaskSchedule(t) ==
  /\ pc[t] = "created"
  /\ \A s \in preds[t] : pc[s] = "done"
  /\ before' = [before EXCEPT ![t] = @ \cup PastOf(preds[t])]
  /\ pc' = [pc EXCEPT ![t] = "run"]
  /\ IF ~Known(t)
       THEN createNewTaskMetadata(t)
       ELSE UNCHANGED <<graphVars, insVars, infoVars>>
  /\ UNCHANGED <<logVars, frame, programVars>>

\* INS_MemRead and INS_MemWrite: the access is logged under the current ID.
Access(t) ==
  /\ pc[t] = "run" /\ Known(t) /\ info[ptr[t]].active
  /\ \E act \in Checker!Action :
       /\ act.task = ID(t)
       /\ act.isWrite \/ act.value = 0
       /\ Len(accesses[act.addr]) < MaxAccesses
       /\ Checker!saveTaskActions(act)
       /\ accesses' = [accesses EXCEPT ![act.addr] = Append(@, act)]
  /\ UNCHANGED <<graphVars, insVars, infoVars, pc, frame, programVars, before>>

\* An explicit task ends: no callback does anything.
Finish(t) ==
  /\ t \in ExplicitTasks /\ pc[t] = "run"
  /\ pc' = [pc EXCEPT ![t] = "done"]
  /\ UNCHANGED <<checkerVars, insVars, infoVars, frame, programVars, before>>

\* on_ompt_callback_sync_region, ompt_sync_region_taskgroup: nothing is done when
\* the tasks created in the group, and their descendants, are over.
TaskgroupEnd(t) ==
  /\ "taskgroup" \in IgnoredSyncs /\ Active(t)
  /\ \A c \in Descendants(t) : pc[c] = "done"
  /\ before' = [before EXCEPT ![t] = @ \cup PastOf(Descendants(t))]
  /\ UNCHANGED <<checkerVars, insVars, infoVars, pc, frame, programVars>>

\* Taskwait is left when all children are done; the callback at its end
\* (on_ompt_callback_sync_region, ompt_scope_end) renames the task ...
TaskwaitEnd(t) ==
  /\ pc[t] = "run" /\ t \in Waiters /\ Known(t)
  /\ \A c \in Children(t) : pc[c] = "done"
  /\ before' = [before EXCEPT ![t] = @ \cup PastOf(Children(t))]
  /\ addChildAndEnd(t, {ID(t)})
  /\ frame' = [frame EXCEPT ![t].old = ptr[t]]
  /\ pc' = [pc EXCEPT ![t] = "rename"]
  /\ UNCHANGED <<checkerVars, insVars, live, ptr, programVars>>

\* ... or dereferences the null pointer of a task without TaskInfo.
TaskwaitOfUnknown(t) ==
  /\ Active(t) /\ t \in Waiters /\ ~Known(t)
  /\ pc' = [pc EXCEPT ![t] = "crashed"]
  /\ UNCHANGED <<checkerVars, insVars, infoVars, frame, programVars, before>>

\* ... and orders the new segment after the IDs its children were created with.
SaveChildren(t) ==
  /\ pc[t] = "saveChildren"
  /\ saveChildHBs(t)
  /\ frame' = [frame EXCEPT ![t] = Idle]
  /\ pc' = [pc EXCEPT ![t] = "run"]
  /\ UNCHANGED <<logVars, live, ptr, programVars, before>>

-----------------------------------------------------------------------------

Init ==
  /\ nodes = {} /\ edges = {} /\ bagged = {}
  /\ HB = [i \in TaskIDs |-> {}]
  /\ writes = [a \in Addresses |-> << >>]
  /\ conflictTable = {}
  /\ accesses = [a \in Addresses |-> << >>]
  /\ taskIDSeed = 0
  /\ idMap = [k \in Keys |-> NoID]
  /\ tokenHB = [i \in TaskIDs |-> {}]
  /\ live = {}
  /\ info = [i \in Infos |->
               [taskID |-> 0, active |-> FALSE, childrenIDs |-> {}]]
  /\ ptr = [t \in Tasks |-> NoInfo]
  /\ pc = [t \in Tasks |-> IF t \in InitialTasks THEN "run" ELSE "unborn"]
  /\ frame = [t \in Tasks |-> Idle]
  /\ parent = [t \in Tasks |-> NoTask]
  /\ depsOf = [t \in Tasks |-> << >>]
  /\ preds = [t \in Tasks |-> {}]
  /\ before = [t \in Tasks |-> {}]

Next ==
  /\ \A t \in Tasks : pc[t] # "crashed"
  /\ \/ \E t \in Tasks :
          \/ \E c \in Tasks : \/ TaskCreate(t, c) \/ TaskCreateUntied(t, c)
                              \/ TaskCreateByUnknown(t, c)
          \/ SendToChild(t) \/ ChildReceives(t) \/ Rename(t) \/ Adopt(t)
          \/ Depend(t) \/ DependOfUnknown(t) \/ Created(t)
          \/ TaskSchedule(t) \/ Access(t) \/ Finish(t)
          \/ TaskwaitEnd(t) \/ TaskwaitOfUnknown(t) \/ SaveChildren(t)
          \/ TaskgroupEnd(t)
          \/ ImplicitEnd(t)
     \/ \E k \in DOMAIN Regions :
          \/ \E t \in Regions[k] : ImplicitBegin(t, k)
          \/ Barrier(k) \/ Join(k)

Spec == Init /\ [][Next]_vars

-----------------------------------------------------------------------------
(* Properties.                                                             *)

\* The shape of the logger's state; no two tasks share a TaskInfo, and no task
\* points to one that was deleted (Util.h:32-48).
TypeOK ==
  /\ taskIDSeed \in Nat
  /\ idMap \in [Keys -> TaskIDs \cup {NoID}]
  /\ tokenHB \in [TaskIDs -> SUBSET TaskIDs]
  /\ live \subseteq Infos
  /\ info \in [Infos -> [taskID : TaskIDs, active : BOOLEAN,
                         childrenIDs : SUBSET TaskIDs]]
  /\ ptr \in [Tasks -> live \cup {NoInfo}]
  /\ \A s, t \in Tasks : s # t /\ ptr[s] = ptr[t] => ptr[s] = NoInfo
  /\ before \in [Tasks -> SUBSET TaskIDs]

Running(t) == pc[t] = "run" /\ Known(t)

\* The checker never orders a running segment after one that OpenMP does not
\* order before it: an order that does not exist would hide races.
NoSpuriousOrder ==
  \A t \in Tasks : Running(t) => HB[ID(t)] \subseteq before[t]

\* Everything OpenMP orders before a running segment is in its bag: an order
\* that is missed would make the checker report false races.
NoMissingOrder ==
  \A t \in Tasks : Running(t) => before[t] \subseteq HB[ID(t)]

\* Every ID that a token or a taskwait may hand to the checker has a bag: the
\* checker dereferences serial_bags[id] without a test (checker.cc:78).
TokensHaveBags ==
  /\ \A k \in Keys : idMap[k] \in bagged \cup {NoID}
  /\ \A t \in Tasks : ptr[t] # NoInfo => info[ptr[t]].childrenIDs \subseteq bagged

\* The logger keeps a happens-before relation of its own (Logger.h:149-159); it
\* never claims an order that the checker does not know.
TokenOrderKnown == \A i \in TaskIDs : tokenHB[i] \subseteq HB[i]

\* A callback meets a task without TaskInfo only in the program's main task or in
\* the depend clauses of an untied task: an untied task that runs has got its
\* TaskInfo, whoever created it (OMPTCallbacks.h:132,142,159,229).
CrashesOnlyForUnknown ==
  \A t \in Tasks : pc[t] = "crashed" =>
    \/ t \in InitialTasks
    \/ frame[t].child \in UntiedTasks /\ frame[t].deps # << >>

\* The runtime drives the checker as the checker's specification asks.
CheckerSpec == Checker!Spec
=============================================================================
