-------------------------- MODULE TaskRuntime_proofs --------------------------
(***************************************************************************)
(* Proofs about the callbacks and the task metadata, for any number of     *)
(* OpenMP tasks and regions and any order in which they run: what the      *)
(* callbacks dereference exists, but for the cases the model names, and    *)
(* the order that the logger keeps beside the checker claims nothing that  *)
(* the checker does not know.                                              *)
(*                                                                         *)
(* Then the order of tasks: the callbacks never tell the checker of an     *)
(* order that OpenMP does not guarantee, for tasks that create and wait    *)
(* for tasks in any way, if no variable of a depend clause lies where a    *)
(* TaskInfo does, if a freed address is given out again only where the     *)
(* task that sends tokens is the only one that may find one there, and if  *)
(* no two tasks name a variable in depend clauses unless one task created  *)
(* both.  The last two are needed: MCNestedReuse refutes the property when *)
(* another task finds the token of a freed TaskInfo, and a variable can    *)
(* pass a token to a task that is not a sibling and waits for nobody.      *)
(***************************************************************************)
EXTENDS TaskRuntime, SequenceTheorems, TLAPS

USE TasksAssumption

-----------------------------------------------------------------------------
(* The inductive invariant.                                                *)

PCs == {"unborn", "born", "created", "run", "send", "receive", "rename", "adopt",
        "depend", "saveChildren", "joined", "done", "crashed"}

AnyDep   == [addr : DepAddrs, type : {"in", "out", "inout"}]
AnyFrame == [child : Tasks \cup {NoTask}, old : Infos \cup {NoInfo}, deps : Seq(AnyDep)]

\* The logger, ...
INSTyped ==
  /\ taskIDSeed \in Nat
  /\ idMap \in [Keys -> TaskIDs \cup {NoID}]
  /\ tokenHB \in [TaskIDs -> SUBSET TaskIDs]
  /\ HB \in [TaskIDs -> SUBSET TaskIDs]

\* ... the TaskInfo objects, which lie below the next address when none is reused, ...
InfoTyped ==
  /\ live \subseteq Infos
  /\ info \in [Infos -> [taskID : TaskIDs, active : BOOLEAN,
                         childrenIDs : SUBSET TaskIDs]]
  /\ ptr \in [Tasks -> live \cup {NoInfo}]
  /\ \A s, t \in Tasks : s # t /\ ptr[s] = ptr[t] => ptr[s] = NoInfo
  /\ ~Reuse => \A i \in live : i < taskIDSeed

\* ... and the program.
ProgramTyped ==
  /\ pc \in [Tasks -> PCs]
  /\ frame \in [Tasks -> AnyFrame]
  /\ parent \in [Tasks -> Tasks \cup {NoTask}]
  /\ depsOf \in [Tasks -> Seq(Dep)]
  /\ preds \in [Tasks -> SUBSET Tasks]
  /\ before \in [Tasks -> SUBSET TaskIDs]

\* A callback in progress holds what it will dereference: the new task exists and
\* has a TaskInfo unless it is untied, and nobody else is about to delete it; the
\* old TaskInfo exists until it is adopted, and no task points to it any more.
Framed(p) ==
  LET c == frame[p].child
      o == frame[p].old
  IN  /\ c # NoTask => /\ pc[c] = "born" /\ parent[c] = p
                       /\ c \notin UntiedTasks => Known(c)
      /\ pc[p] \in {"unborn", "born", "created", "run", "joined", "done"}
           => frame[p] = Idle
      /\ pc[p] \in {"send", "receive"} => c # NoTask /\ c \notin UntiedTasks
      /\ pc[p] = "depend" => c # NoTask
      /\ pc[p] = "saveChildren" => c = NoTask
      /\ pc[p] \in {"send", "receive", "rename", "adopt", "depend", "saveChildren"}
           => Known(p)
      /\ pc[p] \in {"send", "receive", "rename"} => o = ptr[p]
      /\ pc[p] = "adopt" => o \in live /\ \A t \in Tasks : ptr[t] # o
      /\ pc[p] = "run" => Known(p) \/ p \in InitialTasks

\* Two tasks never delete one TaskInfo.
OldsDiffer ==
  \A p, q \in Tasks : /\ pc[p] = "adopt" /\ pc[q] = "adopt"
                      /\ frame[p].old = frame[q].old
                      => p = q

FrameInv == /\ INSTyped /\ InfoTyped /\ ProgramTyped
            /\ (\A p \in Tasks : Framed(p)) /\ OldsDiffer
            /\ CrashesOnlyForUnknown

NoCrash == \A t \in Tasks : pc[t] # "crashed"

\* Every ID that a task has, or may hand to the checker, was announced.
BagInv == /\ TokensHaveBags
          /\ \A t \in Tasks : Known(t) => ID(t) \in bagged

\* A bag holds nothing that the edges do not give it, and rebuilding it from
\* the edges loses nothing.
BagsGrow == \A i \in TaskIDs : HB[i] \subseteq Checker!InheritedHB(edges, HB, i)

OrderInv == BagsGrow /\ TokenOrderKnown

-----------------------------------------------------------------------------
(* The operations of the logger and of the metadata.                       *)

\* The bags stay sets of IDs.
LEMMA InheritedTyped ==
  ASSUME INSTyped, NEW E, NEW t \in TaskIDs
  PROVE  /\ Checker!InheritedHB(E, HB, t) \subseteq TaskIDs
         /\ [HB EXCEPT ![t] = Checker!InheritedHB(E, HB, t)]
              \in [TaskIDs -> SUBSET TaskIDs]
<1>1. Checker!InheritedHB(E, HB, t) \subseteq TaskIDs
  BY DEF INSTyped, Checker!InheritedHB, Checker!inEdges
<1> QED
  BY <1>1 DEF INSTyped

\* Edges into a task with an ID leave bags that are sets of IDs.
LEMMA EdgesTyped ==
  ASSUME INSTyped, NEW P, NEW t \in TaskIDs, Checker!saveHappensBeforeEdges(P, t)
  PROVE  HB' \in [TaskIDs -> SUBSET TaskIDs]
BY InheritedTyped DEF Checker!saveHappensBeforeEdges

\* A token is sent.
LEMMA SendTyped ==
  ASSUME INSTyped, NEW id \in TaskIDs, NEW key, TaskSendTokenLog(id, key)
  PROVE  INSTyped'
BY DEF INSTyped, TaskSendTokenLog, graphVars

\* A token is received.
LEMMA ReceiveTyped ==
  ASSUME INSTyped, NEW id \in TaskIDs, NEW key \in Keys, TaskReceiveTokenLog(id, key)
  PROVE  INSTyped'
<1> DEFINE parentID == idMap[key]
<1>1. UNCHANGED <<taskIDSeed, idMap>> /\ parentID \in TaskIDs \cup {NoID}
  BY DEF INSTyped, TaskReceiveTokenLog
<1>2. CASE parentID \in {NoID, id}
  BY <1>2 DEF INSTyped, TaskReceiveTokenLog, graphVars
<1>3. CASE parentID \notin {NoID, id}
  <2>1. /\ Checker!saveHappensBeforeEdges({parentID}, id)
        /\ tokenHB' = [tokenHB EXCEPT ![id] = @ \cup {parentID} \cup tokenHB[parentID]]
    BY <1>3 DEF TaskReceiveTokenLog
  <2>2. HB' \in [TaskIDs -> SUBSET TaskIDs]
    BY <2>1, EdgesTyped
  <2>3. tokenHB' \in [TaskIDs -> SUBSET TaskIDs]
    BY <1>1, <1>3, <2>1 DEF INSTyped
  <2> QED
    BY <1>1, <2>2, <2>3 DEF INSTyped
<1> QED
  BY <1>2, <1>3

\* A task with a TaskInfo has an ID.
LEMMA KnownID ==
  ASSUME InfoTyped, NEW t \in Tasks, Known(t)
  PROVE  /\ ptr[t] \in live /\ ptr[t] \in Infos
         /\ ID(t) \in TaskIDs
         /\ info[ptr[t]].childrenIDs \subseteq TaskIDs
BY DEF InfoTyped, Known, ID

\* The segment of a task, and what is over with it, are IDs.
LEMMA PastTyped ==
  ASSUME InfoTyped, ProgramTyped
  PROVE  /\ \A t \in Tasks : Segment(t) \subseteq TaskIDs /\ Past(t) \subseteq TaskIDs
         /\ \A T \in SUBSET Tasks : PastOf(T) \subseteq TaskIDs
<1>1. \A t \in Tasks : Segment(t) \subseteq TaskIDs
  BY KnownID DEF Segment
<1>2. \A t \in Tasks : Past(t) \subseteq TaskIDs
  BY <1>1 DEF Past, ProgramTyped
<1>3. \A T \in SUBSET Tasks : PastOf(T) \subseteq TaskIDs
  BY <1>2 DEF PastOf
<1> QED
  BY <1>1, <1>2, <1>3

\* The children of a taskwait are handed over.
LEMMA SaveChildrenTyped ==
  ASSUME INSTyped, InfoTyped, NEW t \in Tasks, Known(t), saveChildHBs(t),
         UNCHANGED <<live, ptr>>
  PROVE  INSTyped' /\ InfoTyped'
<1>1. UNCHANGED <<taskIDSeed, idMap, tokenHB>>
  BY DEF saveChildHBs, insVars
<1>2. HB' \in [TaskIDs -> SUBSET TaskIDs]
  BY KnownID, EdgesTyped DEF saveChildHBs, INSTyped, graphVars
<1>3. INSTyped'
  BY <1>1, <1>2 DEF INSTyped
<1>4. InfoTyped'
  BY <1>1 DEF saveChildHBs, InfoTyped
<1> QED
  BY <1>3, <1>4

\* A child is recorded and a segment ends.
LEMMA AddChildTyped ==
  ASSUME InfoTyped, NEW t \in Tasks, NEW ids \in SUBSET TaskIDs, addChildAndEnd(t, ids),
         UNCHANGED <<live, ptr, taskIDSeed>>
  PROVE  InfoTyped'
<1> PICK i, R : /\ i = ptr[t]
                /\ R = [taskID : TaskIDs, active : BOOLEAN, childrenIDs : SUBSET TaskIDs]
  OBVIOUS
<1>1. info' = [[info EXCEPT ![i].childrenIDs = @ \cup ids] EXCEPT ![i].active = FALSE]
  BY DEF addChildAndEnd
<1>2. info \in [Infos -> R]
  BY DEF InfoTyped
<1>3. PICK r : r = [[info[i] EXCEPT !.childrenIDs = @ \cup ids] EXCEPT !.active = FALSE]
  OBVIOUS
<1>4. i \in Infos => r \in R
  BY <1>2, <1>3
<1>5. info' = [info EXCEPT ![i] = r]
  BY <1>1, <1>2, <1>3
<1>6. info' \in [Infos -> R]
  BY <1>2, <1>4, <1>5
<1> QED
  BY <1>6 DEF InfoTyped

\* A new TaskInfo lies at an address that no task points to.
LEMMA NewInfoTyped ==
  ASSUME INSTyped, InfoTyped, NEW t \in Tasks, createNewTaskMetadata(t)
  PROVE  /\ INSTyped' /\ InfoTyped'
         /\ live \subseteq live' /\ ptr'[t] \in Infos \ live
         /\ \A s \in Tasks : s # t => ptr'[s] = ptr[s]
<1>1. /\ taskIDSeed \in TaskIDs /\ taskIDSeed' = taskIDSeed + 1
      /\ UNCHANGED <<idMap, tokenHB>> /\ Checker!onTaskCreate(taskIDSeed)
  BY DEF createNewTaskMetadata
<1> DEFINE C == IF ptr[t] = NoInfo THEN {} ELSE info[ptr[t]].childrenIDs
<1>2. PICK i \in Free :
        /\ live' = live \cup {i} /\ ptr' = [ptr EXCEPT ![t] = i]
        /\ info' = [info EXCEPT ![i] = [taskID |-> taskIDSeed, active |-> TRUE,
                                        childrenIDs |-> C]]
  BY DEF createNewTaskMetadata
<1>3. C \subseteq TaskIDs
  BY KnownID DEF Known
<1>4. i \in Infos /\ i \notin live /\ (~Reuse => i = taskIDSeed)
  BY DEF Free, InfoTyped, INSTyped
<1>5. INSTyped'
  <2>1. HB' \in [TaskIDs -> SUBSET TaskIDs]
    BY <1>1, InheritedTyped DEF Checker!onTaskCreate, INSTyped
  <2> QED
    BY <1>1, <2>1 DEF INSTyped
<1>6. info' \in [Infos -> [taskID : TaskIDs, active : BOOLEAN,
                           childrenIDs : SUBSET TaskIDs]]
  <2>1. [taskID |-> taskIDSeed, active |-> TRUE, childrenIDs |-> C]
          \in [taskID : TaskIDs, active : BOOLEAN, childrenIDs : SUBSET TaskIDs]
    BY <1>1, <1>3
  <2> QED
    BY <1>2, <2>1 DEF InfoTyped
<1>7. /\ ptr' \in [Tasks -> live' \cup {NoInfo}]
      /\ \A s \in Tasks : ptr'[s] = IF s = t THEN i ELSE ptr[s]
  BY <1>2 DEF InfoTyped
<1>8. \A s \in Tasks : ptr[s] # i
  BY <1>4 DEF InfoTyped
<1>9. ~Reuse => \A j \in live' : j < taskIDSeed'
  <2> SUFFICES ASSUME ~Reuse, NEW j \in live'
               PROVE  j < taskIDSeed'
    OBVIOUS
  <2>1. taskIDSeed \in Nat /\ (j \in live => j < taskIDSeed /\ j \in Nat)
    BY DEF InfoTyped, INSTyped
  <2> QED
    BY <1>1, <1>2, <1>4, <2>1
<1>10. InfoTyped'
  <2>1. live' \subseteq Infos
    BY <1>2, <1>4 DEF InfoTyped
  <2>2. \A s, u \in Tasks : s # u /\ ptr'[s] = ptr'[u] => ptr'[s] = NoInfo
    BY <1>7, <1>8 DEF InfoTyped
  <2> QED
    BY <1>6, <1>7, <1>9, <2>1, <2>2 DEF InfoTyped
<1> QED
  BY <1>2, <1>4, <1>5, <1>7, <1>10

-----------------------------------------------------------------------------
(* What a step owes the tasks that it is not about.                        *)

\* No TaskInfo is deleted, and pointers change to new ones only.
PtrsFresh == /\ live \subseteq live'
             /\ \A t \in Tasks : ptr'[t] = ptr[t] \/ ptr'[t] \in Infos \ live

\* A task in a callback that another task does not disturb.
LEMMA Undisturbed ==
  ASSUME FrameInv, PtrsFresh, NEW q \in Tasks,
         frame'[q] = frame[q], pc'[q] = pc[q], ptr'[q] = ptr[q],
         \A c \in Tasks : pc[c] = "born" /\ parent[c] = q
                            => pc'[c] = "born" /\ parent'[c] = q
  PROVE  Framed(q)'
<1>1. Framed(q) /\ frame[q] \in AnyFrame
  BY DEF FrameInv, ProgramTyped
<1>2. \A t \in Tasks : Known(t) => Known(t)'
  BY DEF PtrsFresh, Known, FrameInv, InfoTyped
<1>3. \A t \in Tasks : frame[q].old \in live /\ ptr[t] # frame[q].old
                         => ptr'[t] # frame[q].old
  BY DEF PtrsFresh
<1> QED
  BY <1>1, <1>2, <1>3 DEF Framed, AnyFrame, PtrsFresh

\* No new task is about to delete a TaskInfo.
LEMMA OldsStay ==
  ASSUME FrameInv,
         \A q \in Tasks : pc'[q] = "adopt" => pc[q] = "adopt" /\ frame'[q] = frame[q]
  PROVE  OldsDiffer'
BY DEF FrameInv, OldsDiffer

\* No callback crashes.
LEMMA NobodyCrashes ==
  ASSUME NoCrash, \A q \in Tasks : pc'[q] # "crashed" \/ pc'[q] = pc[q]
  PROVE  CrashesOnlyForUnknown'
BY DEF NoCrash, CrashesOnlyForUnknown

-----------------------------------------------------------------------------
(* Creating tasks.                                                         *)

\* The depend clauses of a new task are dependences.
LEMMA ClausesTyped ==
  ASSUME NEW p, NEW c, NEW ds \in Clauses(p, c)
  PROVE  ds \in Seq(Dep) /\ ds \in Seq(AnyDep)
<1>1. PICK n \in 0 .. (IF c \in Dependents THEN MaxDeps ELSE 0) : ds \in [1 .. n -> Dep]
  BY DEF Clauses
<1>2. n \in Nat
  BY <1>1
<1>3. Dep \subseteq AnyDep
  BY DEF Dep, AnyDep
<1>4. ds \in Seq(Dep)
  BY <1>1, <1>2, SeqDef
<1> QED
  BY <1>3, <1>4, SeqMonotonic

\* Only the creator p and the new task c move, only the callback of p has locals,
\* and only c gets a parent.
CreatedBy(p, c) ==
  /\ p # c
  /\ \A q \in Tasks : /\ q # p /\ q # c => pc'[q] = pc[q]
                      /\ q # p => frame'[q] = frame[q]
                      /\ q # c => parent'[q] = parent[q]
  /\ pc'[c] = "born" /\ parent'[c] = p

\* The program creates a task.
LEMMA GenerateTyped ==
  ASSUME FrameInv, NEW p \in Tasks, NEW c \in Tasks, NEW ds \in Seq(Dep),
         ds \in Seq(AnyDep), pc[p] = "run", pc[c] = "unborn", Generate(p, c, ds),
         NEW k \in PCs, pc' = [pc EXCEPT ![p] = k, ![c] = "born"]
  PROVE  /\ ProgramTyped'
         /\ CreatedBy(p, c) /\ pc'[p] = k
         /\ frame'[p] = [child |-> c, old |-> ptr[p], deps |-> ds]
<1>1. /\ pc \in [Tasks -> PCs] /\ frame \in [Tasks -> AnyFrame]
      /\ parent \in [Tasks -> Tasks \cup {NoTask}]
      /\ depsOf \in [Tasks -> Seq(Dep)] /\ preds \in [Tasks -> SUBSET Tasks]
      /\ before \in [Tasks -> SUBSET TaskIDs]
  BY DEF FrameInv, ProgramTyped
<1>2. /\ parent' = [parent EXCEPT ![c] = p]
      /\ depsOf' = [depsOf EXCEPT ![c] = ds]
      /\ preds' = [preds EXCEPT ![c] = Predecessors(p, ds)]
      /\ before' = [before EXCEPT ![c] = before[p] \cup Segment(p)]
      /\ frame' = [frame EXCEPT ![p] = [child |-> c, old |-> ptr[p], deps |-> ds]]
  BY DEF Generate
<1>3. [child |-> c, old |-> ptr[p], deps |-> ds] \in AnyFrame
  BY DEF AnyFrame, FrameInv, InfoTyped
<1>4. Predecessors(p, ds) \subseteq Tasks
  BY DEF Predecessors
<1>5. before[p] \cup Segment(p) \subseteq TaskIDs
  BY <1>1, PastTyped DEF FrameInv
<1>6. /\ parent' \in [Tasks -> Tasks \cup {NoTask}] /\ frame' \in [Tasks -> AnyFrame]
      /\ depsOf' \in [Tasks -> Seq(Dep)] /\ preds' \in [Tasks -> SUBSET Tasks]
      /\ before' \in [Tasks -> SUBSET TaskIDs]
  BY <1>1, <1>2, <1>3, <1>4, <1>5
<1>7. pc' \in [Tasks -> PCs]
  BY <1>1 DEF PCs
<1> QED
  BY <1>1, <1>2, <1>6, <1>7, ZenonT(60) DEF ProgramTyped, CreatedBy

\* A task of any type is created: tasks other than the two are as they were.
LEMMA CreationFramed ==
  ASSUME FrameInv, PtrsFresh, NEW p \in Tasks, NEW c \in Tasks,
         pc[p] = "run", pc[c] = "unborn", CreatedBy(p, c),
         \A q \in Tasks : q # c => ptr'[q] = ptr[q]
  PROVE  \A q \in Tasks \ {p} : Framed(q)'
<1> SUFFICES ASSUME NEW q \in Tasks, q # p
             PROVE  Framed(q)'
  OBVIOUS
<1>1. \A b \in Tasks : pc[b] = "born" => pc'[b] = "born" /\ parent'[b] = parent[b]
  BY DEF CreatedBy
<1>2. CASE q = c
  <2>1. frame[c] = Idle
    BY DEF FrameInv, Framed
  <2>2. frame'[c] = Idle /\ pc'[c] = "born"
    BY <1>2, <2>1 DEF CreatedBy
  <2> QED
    BY <1>2, <2>2 DEF Framed, Idle
<1>3. CASE q # c
  <2>1. frame'[q] = frame[q] /\ pc'[q] = pc[q] /\ ptr'[q] = ptr[q]
    BY <1>3 DEF CreatedBy
  <2> QED
    BY <1>1, <2>1, Undisturbed
<1> QED
  BY <1>2, <1>3

\* A task of type ompt_task_explicit is created.
LEMMA TaskCreateFrame ==
  ASSUME FrameInv, NoCrash, NEW p \in Tasks, NEW c \in Tasks, TaskCreate(p, c)
  PROVE  FrameInv'
<1>1. /\ pc[p] = "run" /\ pc[c] = "unborn" /\ Known(p) /\ c \notin UntiedTasks
      /\ createNewTaskMetadata(c)
      /\ pc' = [pc EXCEPT ![p] = "send", ![c] = "born"]
  BY DEF TaskCreate, MayCreate, Active
<1>2. PICK ds \in Clauses(p, c) : Generate(p, c, ds)
  BY DEF TaskCreate
<1>3. ds \in Seq(Dep) /\ ds \in Seq(AnyDep)
  BY ClausesTyped
<1>4. /\ ProgramTyped' /\ CreatedBy(p, c) /\ pc'[p] = "send"
      /\ frame'[p] = [child |-> c, old |-> ptr[p], deps |-> ds]
  <2>1. "send" \in PCs
    BY DEF PCs
  <2> QED
    BY <2>1, <1>1, <1>2, <1>3, GenerateTyped, ZenonT(60)
<1>5. /\ INSTyped' /\ InfoTyped'
      /\ live \subseteq live' /\ ptr'[c] \in Infos \ live
      /\ \A s \in Tasks : s # c => ptr'[s] = ptr[s]
  BY <1>1, NewInfoTyped DEF FrameInv
<1>6. PtrsFresh
  BY <1>5 DEF PtrsFresh
<1>7. \A q \in Tasks \ {p} : Framed(q)'
  BY <1>1, <1>4, <1>5, <1>6, CreationFramed
<1>8. Framed(p)'
  <2>1. Known(c)' /\ Known(p)' /\ ptr'[p] = ptr[p]
    BY <1>1, <1>4, <1>5 DEF Known, InfoTyped, CreatedBy
  <2>2. frame'[p].child = c /\ frame'[p].old = ptr[p]
    BY <1>4
  <2> QED
    BY <1>1, <1>4, <2>1, <2>2 DEF Framed, CreatedBy
<1>9. OldsDiffer' /\ CrashesOnlyForUnknown'
  BY <1>4, OldsStay, NobodyCrashes DEF CreatedBy
<1> QED
  BY <1>4, <1>5, <1>7, <1>8, <1>9 DEF FrameInv

\* A task of another type is created.
LEMMA TaskCreateUntiedFrame ==
  ASSUME FrameInv, NoCrash, NEW p \in Tasks, NEW c \in Tasks, TaskCreateUntied(p, c)
  PROVE  FrameInv'
<1>1. /\ pc[p] = "run" /\ pc[c] = "unborn" /\ Known(p) /\ c \in UntiedTasks
      /\ addChildAndEnd(p, {}) /\ UNCHANGED <<checkerVars, insVars, live, ptr>>
      /\ pc' = [pc EXCEPT ![p] = "rename", ![c] = "born"]
  BY DEF TaskCreateUntied, MayCreate, Active
<1>2. PICK ds \in Clauses(p, c) : Generate(p, c, ds)
  BY DEF TaskCreateUntied
<1>3. ds \in Seq(Dep) /\ ds \in Seq(AnyDep)
  BY ClausesTyped
<1>4. /\ ProgramTyped' /\ CreatedBy(p, c) /\ pc'[p] = "rename"
      /\ frame'[p] = [child |-> c, old |-> ptr[p], deps |-> ds]
  <2>1. "rename" \in PCs
    BY DEF PCs
  <2> QED
    BY <2>1, <1>1, <1>2, <1>3, GenerateTyped, ZenonT(60)
<1>5. INSTyped' /\ InfoTyped'
  <2>1. UNCHANGED <<taskIDSeed, idMap, tokenHB, HB>>
    BY <1>1 DEF insVars, checkerVars
  <2>2. InfoTyped'
    BY <1>1, <2>1, AddChildTyped DEF FrameInv
  <2> QED
    BY <2>1, <2>2 DEF FrameInv, INSTyped
<1>6. PtrsFresh
  BY <1>1 DEF PtrsFresh
<1>7. \A q \in Tasks \ {p} : Framed(q)'
  BY <1>1, <1>4, <1>6, CreationFramed
<1>8. Framed(p)'
  <2>1. Known(p)' /\ ptr'[p] = ptr[p]
    BY <1>1 DEF Known
  <2>2. frame'[p].child = c /\ frame'[p].old = ptr[p]
    BY <1>4
  <2> QED
    BY <1>1, <1>4, <2>1, <2>2 DEF Framed, CreatedBy
<1>9. OldsDiffer' /\ CrashesOnlyForUnknown'
  BY <1>4, OldsStay, NobodyCrashes DEF CreatedBy
<1> QED
  BY <1>4, <1>5, <1>7, <1>8, <1>9 DEF FrameInv

\* The creator has no TaskInfo: only the task that runs main can be meant.
LEMMA TaskCreateByUnknownFrame ==
  ASSUME FrameInv, NoCrash, NEW p \in Tasks, NEW c \in Tasks, TaskCreateByUnknown(p, c)
  PROVE  FrameInv'
<1>1. /\ pc[p] = "run" /\ pc[c] = "unborn" /\ ~Known(p) /\ Generate(p, c, << >>)
      /\ pc' = [pc EXCEPT ![p] = "crashed", ![c] = "born"]
  BY DEF TaskCreateByUnknown, MayCreate, Active
<1>2. << >> \in Seq(Dep) /\ << >> \in Seq(AnyDep)
  BY EmptySeq
<1>3. /\ ProgramTyped' /\ CreatedBy(p, c) /\ pc'[p] = "crashed"
      /\ frame'[p] = [child |-> c, old |-> ptr[p], deps |-> << >>]
  <2>1. "crashed" \in PCs
    BY DEF PCs
  <2> QED
    BY <2>1, <1>1, <1>2, GenerateTyped, ZenonT(60)
<1>4. /\ INSTyped' /\ InfoTyped' /\ PtrsFresh
      /\ \A s \in Tasks : s # c => ptr'[s] = ptr[s]
      /\ c \notin UntiedTasks => Known(c)'
  <2>1. CASE c \in UntiedTasks
    <3>1. UNCHANGED <<taskIDSeed, idMap, tokenHB, HB, live, info, ptr>>
      BY <2>1 DEF TaskCreateByUnknown, insVars, infoVars, graphVars
    <3> QED
      BY <2>1, <3>1 DEF FrameInv, INSTyped, InfoTyped, PtrsFresh
  <2>2. CASE c \notin UntiedTasks
    <3>1. createNewTaskMetadata(c)
      BY <2>2 DEF TaskCreateByUnknown
    <3>2. /\ INSTyped' /\ InfoTyped' /\ live \subseteq live' /\ ptr'[c] \in Infos \ live
          /\ \A s \in Tasks : s # c => ptr'[s] = ptr[s]
      BY <3>1, NewInfoTyped DEF FrameInv
    <3> QED
      BY <3>2 DEF PtrsFresh, Known, InfoTyped
  <2> QED
    BY <2>1, <2>2
<1>5. \A q \in Tasks \ {p} : Framed(q)'
  BY <1>1, <1>3, <1>4, CreationFramed
<1>6. Framed(p)'
  <2>1. frame'[p].child = c
    BY <1>3
  <2> QED
    BY <1>3, <1>4, <2>1 DEF Framed, CreatedBy
<1>7. OldsDiffer'
  BY <1>3, OldsStay DEF CreatedBy
<1>8. CrashesOnlyForUnknown'
  <2>1. p \in InitialTasks
    BY <1>1 DEF FrameInv, Framed
  <2> QED
    BY <1>3, <2>1 DEF CrashesOnlyForUnknown, NoCrash, CreatedBy
<1> QED
  BY <1>3, <1>4, <1>5, <1>6, <1>7, <1>8 DEF FrameInv

-----------------------------------------------------------------------------
(* The steps of a callback and of the program.                             *)

\* Only p moves, and nobody gets a parent.
Moves(p, k) ==
  /\ k \in PCs /\ pc' = [pc EXCEPT ![p] = k]
  /\ \A q \in Tasks : q # p => frame'[q] = frame[q]
  /\ UNCHANGED programVars

\* A task that is not being created moves: the others are as they were.
LEMMA MoveFramed ==
  ASSUME FrameInv, PtrsFresh, NEW p \in Tasks, NEW k, Moves(p, k), pc[p] # "born",
         \A q \in Tasks : q # p => ptr'[q] = ptr[q]
  PROVE  \A q \in Tasks \ {p} : Framed(q)'
<1> SUFFICES ASSUME NEW q \in Tasks, q # p
             PROVE  Framed(q)'
  OBVIOUS
<1>1. \A s \in Tasks : s # p => pc'[s] = pc[s]
  BY DEF Moves, FrameInv, ProgramTyped
<1>2. \A b \in Tasks : pc[b] = "born" => pc'[b] = "born" /\ parent'[b] = parent[b]
  BY <1>1 DEF Moves, programVars
<1>3. frame'[q] = frame[q] /\ pc'[q] = pc[q] /\ ptr'[q] = ptr[q]
  BY <1>1 DEF Moves
<1> QED
  BY <1>2, <1>3, Undisturbed

\* What is left to show of a step in which one task moves.
LEMMA MoveInv ==
  ASSUME FrameInv, NoCrash, NEW p \in Tasks, NEW k, Moves(p, k),
         INSTyped', InfoTyped', frame' \in [Tasks -> AnyFrame],
         before' \in [Tasks -> SUBSET TaskIDs],
         \A q \in Tasks \ {p} : Framed(q)', Framed(p)',
         k = "adopt" => \A q \in Tasks : pc[q] = "adopt" => frame[q].old # frame'[p].old,
         k = "crashed" => \/ p \in InitialTasks
                          \/ frame'[p].child \in UntiedTasks /\ frame'[p].deps # << >>
  PROVE  FrameInv'
<1>1. pc' \in [Tasks -> PCs] /\ pc'[p] = k /\ \A s \in Tasks : s # p => pc'[s] = pc[s]
  BY DEF Moves, FrameInv, ProgramTyped
<1>2. ProgramTyped'
  BY <1>1 DEF ProgramTyped, FrameInv, Moves, programVars
<1>3. OldsDiffer'
  <2>1. \A q \in Tasks : q # p => frame'[q] = frame[q] /\ pc'[q] = pc[q]
    BY <1>1 DEF Moves
  <2> QED
    BY <1>1, <2>1 DEF OldsDiffer, FrameInv
<1>4. CrashesOnlyForUnknown'
  BY <1>1 DEF CrashesOnlyForUnknown, NoCrash
<1>5. \A q \in Tasks : Framed(q)'
  OBVIOUS
<1> QED
  BY <1>2, <1>3, <1>4, <1>5 DEF FrameInv

\* The creator sends the token of the new task.
LEMMA SendToChildFrame ==
  ASSUME FrameInv, NoCrash, NEW p \in Tasks, SendToChild(p)
  PROVE  FrameInv'
<1>1. /\ pc[p] = "send" /\ TaskSendTokenLog(ID(p), ptr[p])
      /\ UNCHANGED <<live, info, ptr, frame, programVars, before>>
      /\ Moves(p, "receive")
  <2>1. "receive" \in PCs
    BY DEF PCs
  <2> QED
    BY <2>1 DEF SendToChild, Moves, infoVars
<1>2. Framed(p) /\ Known(p)
  BY <1>1 DEF FrameInv, Framed
<1>3. INSTyped'
  BY <1>1, <1>2, KnownID, SendTyped DEF FrameInv
<1>4. InfoTyped' /\ PtrsFresh
  BY <1>1 DEF FrameInv, InfoTyped, TaskSendTokenLog, PtrsFresh
<1>5. \A q \in Tasks \ {p} : Framed(q)'
  BY <1>1, <1>4, MoveFramed
<1>6. Framed(p)'
  <2>1. pc'[p] = "receive" /\ \A q \in Tasks : pc[q] = "born" => pc'[q] = "born"
    BY <1>1 DEF Moves, FrameInv, ProgramTyped
  <2>2. frame[p] \in AnyFrame
    BY DEF FrameInv, ProgramTyped
  <2> QED
    BY <1>1, <1>2, <2>1, <2>2 DEF Framed, Known, AnyFrame, programVars
<1> QED
  BY <1>1, <1>3, <1>4, <1>5, <1>6, MoveInv DEF FrameInv, ProgramTyped

\* The new task receives it, and the creator's segment ends.
LEMMA ChildReceivesFrame ==
  ASSUME FrameInv, NoCrash, NEW p \in Tasks, ChildReceives(p)
  PROVE  FrameInv'
<1> DEFINE c == frame[p].child
<1>1. /\ pc[p] = "receive" /\ TaskReceiveTokenLog(ID(c), ptr[p])
      /\ addChildAndEnd(p, {ID(c)})
      /\ UNCHANGED <<live, ptr, frame, programVars, before>>
      /\ Moves(p, "rename")
  <2>1. "rename" \in PCs
    BY DEF PCs
  <2> QED
    BY <2>1 DEF ChildReceives, Moves
<1>2. Framed(p) /\ Known(p) /\ Known(c) /\ c \in Tasks
  <2>1. frame[p] \in AnyFrame
    BY DEF FrameInv, ProgramTyped
  <2> QED
    BY <1>1, <2>1 DEF FrameInv, Framed, AnyFrame
<1>3. ID(c) \in TaskIDs /\ ptr[p] \in Keys
  BY <1>2, KnownID DEF FrameInv, Keys
<1>4. INSTyped'
  BY <1>1, <1>3, ReceiveTyped DEF FrameInv
<1>5. InfoTyped' /\ PtrsFresh
  <2>1. UNCHANGED <<live, ptr, taskIDSeed>>
    BY <1>1 DEF TaskReceiveTokenLog
  <2> QED
    BY <1>1, <1>3, <2>1, AddChildTyped DEF FrameInv, PtrsFresh
<1>6. \A q \in Tasks \ {p} : Framed(q)'
  BY <1>1, <1>5, MoveFramed
<1>7. Framed(p)'
  <2>1. pc'[p] = "rename" /\ \A q \in Tasks : pc[q] = "born" => pc'[q] = "born"
    BY <1>1 DEF Moves, FrameInv, ProgramTyped
  <2> QED
    BY <1>1, <1>2, <2>1 DEF Framed, Known, programVars
<1> QED
  BY <1>1, <1>4, <1>5, <1>6, <1>7, MoveInv DEF FrameInv, ProgramTyped

\* The rest of a task gets a new TaskInfo.
LEMMA RenameFrame ==
  ASSUME FrameInv, NoCrash, NEW p \in Tasks, Rename(p)
  PROVE  FrameInv'
<1>1. /\ pc[p] = "rename" /\ createNewTaskMetadata(p)
      /\ before' = [before EXCEPT ![p] = @ \cup {ID(p)}]
      /\ UNCHANGED <<frame, programVars>>
      /\ Moves(p, "adopt")
  <2>1. "adopt" \in PCs
    BY DEF PCs
  <2> QED
    BY <2>1 DEF Rename, Moves
<1>2. Framed(p) /\ Known(p) /\ frame[p].old = ptr[p]
  BY <1>1 DEF FrameInv, Framed
<1>3. before' \in [Tasks -> SUBSET TaskIDs]
  BY <1>1, <1>2, KnownID DEF FrameInv, ProgramTyped
<1>4. /\ INSTyped' /\ InfoTyped' /\ live \subseteq live' /\ ptr'[p] \in Infos \ live
      /\ \A s \in Tasks : s # p => ptr'[s] = ptr[s]
  BY <1>1, NewInfoTyped DEF FrameInv
<1>5. PtrsFresh
  BY <1>4 DEF PtrsFresh
<1>6. \A q \in Tasks \ {p} : Framed(q)'
  BY <1>1, <1>4, <1>5, MoveFramed
<1>7. Framed(p)'
  <2>1. pc'[p] = "adopt" /\ \A q \in Tasks : pc[q] = "born" => pc'[q] = "born"
    BY <1>1 DEF Moves, FrameInv, ProgramTyped
  <2>2. Known(p)' /\ frame'[p].old \in live' /\ \A t \in Tasks : ptr'[t] # frame'[p].old
    <3>1. frame'[p].old = ptr[p] /\ ptr[p] \in live
      BY <1>1, <1>2, KnownID DEF FrameInv
    <3>2. \A t \in Tasks : ptr'[t] # ptr[p]
      BY <1>2, <1>4, <3>1, ZenonT(60) DEF FrameInv, InfoTyped, Known
    <3> QED
      BY <1>4, <3>1, <3>2 DEF Known, InfoTyped
  <2>3. \A t \in Tasks : Known(t) => Known(t)'
    BY <1>5 DEF PtrsFresh, Known, FrameInv, InfoTyped
  <2>4. frame[p] \in AnyFrame
    BY DEF FrameInv, ProgramTyped
  <2> QED
    BY <1>1, <1>2, <2>1, <2>2, <2>3, <2>4 DEF Framed, AnyFrame, programVars
<1>8. \A q \in Tasks : pc[q] = "adopt" => frame[q].old # frame'[p].old
  BY <1>1, <1>2 DEF FrameInv, Framed
<1> QED
  BY <1>1, <1>3, <1>4, <1>6, <1>7, <1>8, MoveInv DEF FrameInv, ProgramTyped

\* The token of the old TaskInfo is received and the TaskInfo deleted.
LEMMA AdoptFrame ==
  ASSUME FrameInv, NoCrash, NEW p \in Tasks, Adopt(p)
  PROVE  FrameInv'
<1> DEFINE o == frame[p].old
           k == IF frame[p].child = NoTask THEN "saveChildren" ELSE "depend"
<1>1. /\ pc[p] = "adopt" /\ TaskReceiveTokenLog(ID(p), o)
      /\ live' = live \ {o}
      /\ UNCHANGED <<info, ptr, frame, programVars, before>>
      /\ Moves(p, k)
  <2>1. k \in PCs
    BY DEF PCs
  <2> QED
    BY <2>1 DEF Adopt, Moves
<1>2. Framed(p) /\ Known(p) /\ o \in live /\ \A t \in Tasks : ptr[t] # o
  BY <1>1 DEF FrameInv, Framed
<1>3. ID(p) \in TaskIDs /\ o \in Keys
  BY <1>2, KnownID DEF FrameInv, InfoTyped, Keys
<1>4. INSTyped'
  BY <1>1, <1>3, ReceiveTyped DEF FrameInv
<1>5. InfoTyped'
  <2>1. taskIDSeed' = taskIDSeed
    BY <1>1 DEF TaskReceiveTokenLog
  <2>2. ptr' \in [Tasks -> live' \cup {NoInfo}]
    BY <1>1, <1>2 DEF FrameInv, InfoTyped
  <2> QED
    BY <1>1, <2>1, <2>2 DEF FrameInv, InfoTyped
<1>6. pc'[p] = k /\ \A q \in Tasks : /\ q # p => pc'[q] = pc[q]
                                     /\ pc[q] = "born" => pc'[q] = "born"
  BY <1>1 DEF Moves, FrameInv, ProgramTyped
<1>7. \A q \in Tasks \ {p} : Framed(q)'
  <2> SUFFICES ASSUME NEW q \in Tasks, q # p
               PROVE  Framed(q)'
    OBVIOUS
  <2>1. Framed(q) /\ frame[q] \in AnyFrame
    BY DEF FrameInv, ProgramTyped
  <2>2. pc[q] = "adopt" => frame[q].old # o
    BY <1>1 DEF FrameInv, OldsDiffer
  <2> QED
    BY <1>1, <1>6, <2>1, <2>2 DEF Framed, AnyFrame, Known, programVars
<1>8. Framed(p)'
  <2>1. frame[p] \in AnyFrame
    BY DEF FrameInv, ProgramTyped
  <2> QED
    BY <1>1, <1>2, <1>6, <2>1 DEF Framed, AnyFrame, Known, programVars
<1> QED
  BY <1>1, <1>4, <1>5, <1>7, <1>8, MoveInv DEF FrameInv, ProgramTyped

\* A dependence is handled, by a token received or sent.
LEMMA DependFrame ==
  ASSUME FrameInv, NoCrash, NEW p \in Tasks, Depend(p)
  PROVE  FrameInv'
<1> DEFINE c == frame[p].child
           ds == frame[p].deps
           d == Head(ds)
<1>1. /\ pc[p] = "depend" /\ ds # << >> /\ Known(c)
      /\ UNCHANGED <<live, info, ptr, pc, programVars, before>>
  BY DEF Depend, infoVars
<1>2. frame[p] \in AnyFrame /\ Framed(p) /\ c \in Tasks
  BY <1>1 DEF FrameInv, ProgramTyped, Framed, AnyFrame
<1>3. d \in AnyDep /\ Tail(ds) \in Seq(AnyDep) /\ d.addr \in Keys
  <2>1. ds \in Seq(AnyDep)
    BY <1>2 DEF AnyFrame
  <2>2. d \in AnyDep /\ Tail(ds) \in Seq(AnyDep)
    BY <1>1, <2>1, HeadTailProperties
  <2> QED
    BY <2>2 DEF AnyDep, Keys
<1>4. [d EXCEPT !.type = "out"] \in AnyDep
  BY <1>3 DEF AnyDep
<1>5. << [d EXCEPT !.type = "out"] >> \o Tail(ds) \in Seq(AnyDep)
  BY <1>3, <1>4
<1>6. \E rest \in Seq(AnyDep) : frame' = [frame EXCEPT ![p].deps = rest]
  BY <1>3, <1>5 DEF Depend
<1>7. INSTyped'
  <2>1. ID(c) \in TaskIDs
    BY <1>1, <1>2, KnownID DEF FrameInv
  <2>2. TaskSendTokenLog(ID(c), d.addr) \/ TaskReceiveTokenLog(ID(c), d.addr)
    BY DEF Depend
  <2> QED
    BY <1>3, <2>1, <2>2, SendTyped, ReceiveTyped DEF FrameInv
<1>8. InfoTyped' /\ PtrsFresh
  <2>1. taskIDSeed' = taskIDSeed
    BY DEF Depend, TaskSendTokenLog, TaskReceiveTokenLog
  <2> QED
    BY <1>1, <2>1 DEF FrameInv, InfoTyped, PtrsFresh
<1>9. Moves(p, "depend") /\ frame' \in [Tasks -> AnyFrame] /\ frame'[p].child = c
  <2>1. "depend" \in PCs /\ frame \in [Tasks -> AnyFrame] /\ pc \in [Tasks -> PCs]
    BY DEF PCs, FrameInv, ProgramTyped
  <2>2. PICK rest \in Seq(AnyDep) : frame' = [frame EXCEPT ![p].deps = rest]
    BY <1>6
  <2>3. [frame[p] EXCEPT !.deps = rest] \in AnyFrame
    BY <1>2 DEF AnyFrame
  <2> QED
    BY <1>1, <1>2, <2>1, <2>2, <2>3 DEF Moves, AnyFrame
<1>10. \A q \in Tasks \ {p} : Framed(q)'
  BY <1>1, <1>8, <1>9, MoveFramed
<1>11. Framed(p)'
  BY <1>1, <1>2, <1>9 DEF Framed, Known, programVars
<1> QED
  BY <1>1, <1>7, <1>8, <1>9, <1>10, <1>11, MoveInv DEF FrameInv, ProgramTyped

\* An untied task with depend clauses has no TaskInfo to dereference.
LEMMA DependOfUnknownFrame ==
  ASSUME FrameInv, NoCrash, NEW p \in Tasks, DependOfUnknown(p)
  PROVE  FrameInv'
<1>1. /\ pc[p] = "depend" /\ frame[p].deps # << >> /\ ~Known(frame[p].child)
      /\ UNCHANGED <<taskIDSeed, idMap, tokenHB, HB, live, info, ptr, frame,
                     programVars, before>>
      /\ Moves(p, "crashed")
  <2>1. "crashed" \in PCs
    BY DEF PCs
  <2> QED
    BY <2>1 DEF DependOfUnknown, Moves, infoVars, insVars, checkerVars
<1>2. Framed(p) /\ frame[p] \in AnyFrame
  BY DEF FrameInv, ProgramTyped
<1>3. INSTyped' /\ InfoTyped' /\ PtrsFresh
  BY <1>1 DEF FrameInv, INSTyped, InfoTyped, PtrsFresh
<1>4. \A q \in Tasks \ {p} : Framed(q)'
  BY <1>1, <1>3, MoveFramed
<1>5. Framed(p)'
  <2>1. pc'[p] = "crashed" /\ \A q \in Tasks : pc[q] = "born" => pc'[q] = "born"
    BY <1>1 DEF Moves, FrameInv, ProgramTyped
  <2> QED
    BY <1>1, <1>2, <2>1 DEF Framed, Known, AnyFrame, programVars
<1>6. frame'[p].child \in UntiedTasks /\ frame'[p].deps # << >>
  BY <1>1, <1>2 DEF Framed
<1> QED
  BY <1>1, <1>3, <1>4, <1>5, <1>6, MoveInv DEF FrameInv, ProgramTyped

\* The callbacks of a creation are over.
LEMMA CreatedFrame ==
  ASSUME FrameInv, NoCrash, NEW p \in Tasks, Created(p)
  PROVE  FrameInv'
<1> DEFINE c == frame[p].child
<1>1. /\ pc[p] = "depend" /\ pc' = [pc EXCEPT ![p] = "run", ![c] = "created"]
      /\ frame' = [frame EXCEPT ![p] = Idle]
      /\ UNCHANGED <<taskIDSeed, idMap, tokenHB, HB, live, info, ptr, programVars,
                     before>>
  BY DEF Created, infoVars, insVars, checkerVars
<1>2. /\ Framed(p) /\ Known(p) /\ c \in Tasks /\ c # p /\ pc[c] = "born"
      /\ parent[c] = p
  <2>1. frame[p] \in AnyFrame
    BY DEF FrameInv, ProgramTyped
  <2> QED
    BY <1>1, <2>1 DEF FrameInv, Framed, AnyFrame
<1>3. INSTyped' /\ InfoTyped' /\ PtrsFresh
  BY <1>1 DEF FrameInv, INSTyped, InfoTyped, PtrsFresh
<1>4. /\ pc'[p] = "run" /\ pc'[c] = "created"
      /\ \A q \in Tasks : q # p /\ q # c => pc'[q] = pc[q]
      /\ frame'[p] = Idle /\ \A q \in Tasks : q # p => frame'[q] = frame[q]
  BY <1>1, <1>2 DEF FrameInv, ProgramTyped
<1>5. ProgramTyped'
  <2>1. "run" \in PCs /\ "created" \in PCs
    BY DEF PCs
  <2>2. Idle \in AnyFrame
    BY EmptySeq DEF Idle, AnyFrame
  <2> QED
    BY <1>1, <2>1, <2>2 DEF FrameInv, ProgramTyped, programVars
<1>6. \A q \in Tasks : Framed(q)'
  <2> SUFFICES ASSUME NEW q \in Tasks
               PROVE  Framed(q)'
    OBVIOUS
  <2>1. CASE q = p
    BY <1>1, <1>2, <1>4, <2>1 DEF Framed, Idle, Known
  <2>2. CASE q = c
    <3>1. frame'[q] = Idle
      BY <1>2, <1>4, <2>2 DEF FrameInv, Framed
    <3> QED
      BY <1>4, <2>2, <3>1 DEF Framed, Idle
  <2>3. CASE q # p /\ q # c
    <3>1. \A b \in Tasks : pc[b] = "born" /\ parent[b] = q
                             => pc'[b] = "born" /\ parent'[b] = q
      BY <1>1, <1>2, <1>4, <2>3 DEF programVars
    <3>2. frame'[q] = frame[q] /\ pc'[q] = pc[q] /\ ptr'[q] = ptr[q]
      BY <1>1, <1>4, <2>3
    <3> QED
      BY <1>3, <3>1, <3>2, Undisturbed
  <2> QED
    BY <2>1, <2>2, <2>3
<1>7. OldsDiffer' /\ CrashesOnlyForUnknown'
  <2>1. \A q \in Tasks : pc'[q] = "adopt" => pc[q] = "adopt" /\ frame'[q] = frame[q]
    BY <1>4
  <2>2. \A q \in Tasks : pc'[q] # "crashed" \/ pc'[q] = pc[q]
    BY <1>4
  <2> QED
    BY <2>1, <2>2, OldsStay, NobodyCrashes
<1> QED
  BY <1>3, <1>5, <1>6, <1>7 DEF FrameInv

-----------------------------------------------------------------------------
(* Running, waiting and ending.                                            *)

\* A task that is in no callback, before and after a step.
LEMMA IdleMoves ==
  ASSUME FrameInv, NEW p \in Tasks, NEW k, Moves(p, k), frame' = frame,
         pc[p] \in {"unborn", "created", "run", "joined"},
         k \in {"run", "joined", "done", "crashed"},
         k = "run" => Known(p)'
  PROVE  Framed(p)' /\ frame' \in [Tasks -> AnyFrame]
<1>1. frame'[p] = Idle /\ pc'[p] = k /\ frame' \in [Tasks -> AnyFrame]
  BY DEF FrameInv, Framed, Moves, ProgramTyped
<1> QED
  BY <1>1 DEF Framed, Idle

\* A step in which nobody moves.
LEMMA NobodyMoves ==
  ASSUME FrameInv, UNCHANGED <<pc, frame, programVars, live, ptr>>,
         INSTyped', InfoTyped', before' \in [Tasks -> SUBSET TaskIDs]
  PROVE  FrameInv'
<1>1. ProgramTyped' /\ OldsDiffer' /\ CrashesOnlyForUnknown'
  BY DEF FrameInv, ProgramTyped, OldsDiffer, CrashesOnlyForUnknown, programVars
<1>2. \A q \in Tasks : Framed(q)'
  BY DEF FrameInv, Framed, Known, programVars
<1> QED
  BY <1>1, <1>2 DEF FrameInv

\* Regions come after tasks.
LEMMA EarlierTasks ==
  ASSUME NEW k \in DOMAIN Regions
  PROVE  Earlier(k) \in SUBSET Tasks
<1>1. \A j \in 1 .. k - 1 : j \in DOMAIN Regions
  OBVIOUS
<1>2. UNION { Regions[j] : j \in 1 .. k - 1 } \subseteq Tasks
  BY <1>1
<1> QED
  BY <1>2 DEF Earlier, Descendants

\* An implicit task begins.
LEMMA ImplicitBeginFrame ==
  ASSUME FrameInv, NoCrash, NEW k \in DOMAIN Regions, NEW t \in Regions[k],
         ImplicitBegin(t, k)
  PROVE  FrameInv'
<1>1. t \in Tasks /\ Earlier(k) \in SUBSET Tasks
  BY EarlierTasks
<1>2. /\ pc[t] = "unborn" /\ createNewTaskMetadata(t) /\ frame' = frame
      /\ before' = [before EXCEPT ![t] = PastOf(Earlier(k))]
      /\ Moves(t, "run")
  <2>1. "run" \in PCs
    BY DEF PCs
  <2> QED
    BY <2>1 DEF ImplicitBegin, Moves
<1>3. /\ INSTyped' /\ InfoTyped' /\ live \subseteq live' /\ ptr'[t] \in Infos \ live
      /\ \A s \in Tasks : s # t => ptr'[s] = ptr[s]
  BY <1>1, <1>2, NewInfoTyped DEF FrameInv
<1>4. PtrsFresh /\ Known(t)'
  BY <1>3 DEF PtrsFresh, Known
<1>5. before' \in [Tasks -> SUBSET TaskIDs]
  <2>1. PastOf(Earlier(k)) \subseteq TaskIDs
    BY <1>1, PastTyped DEF FrameInv
  <2> QED
    BY <1>2, <2>1 DEF FrameInv, ProgramTyped
<1>6. \A q \in Tasks \ {t} : Framed(q)'
  BY <1>1, <1>2, <1>3, <1>4, MoveFramed
<1>7. Framed(t)' /\ frame' \in [Tasks -> AnyFrame]
  BY <1>1, <1>2, <1>4, IdleMoves
<1> QED
  BY <1>1, <1>2, <1>3, <1>5, <1>6, <1>7, MoveInv

\* The team waits at a barrier.
LEMMA BarrierFrame ==
  ASSUME FrameInv, NoCrash, NEW k \in DOMAIN Regions, Barrier(k)
  PROVE  FrameInv'
<1> DEFINE over == PastOf({ s \in ExplicitTasks : pc[s] = "done" })
                   \cup UNION { before[t] : t \in Regions[k] }
<1>1. /\ UNCHANGED <<taskIDSeed, idMap, tokenHB, HB, live, info, ptr, pc, frame,
                     programVars>>
      /\ before' = [t \in Tasks |-> IF t \in Regions[k] THEN over ELSE before[t]]
  BY DEF Barrier, checkerVars, insVars, infoVars
<1>2. INSTyped' /\ InfoTyped'
  BY <1>1 DEF FrameInv, INSTyped, InfoTyped
<1>3. over \subseteq TaskIDs
  <2>1. PastOf({ s \in ExplicitTasks : pc[s] = "done" }) \subseteq TaskIDs
    BY PastTyped DEF FrameInv, ExplicitTasks
  <2>2. UNION { before[t] : t \in Regions[k] } \subseteq TaskIDs
    BY DEF FrameInv, ProgramTyped
  <2> QED
    BY <2>1, <2>2
<1>4. before' \in [Tasks -> SUBSET TaskIDs]
  BY <1>1, <1>3 DEF FrameInv, ProgramTyped
<1> QED
  BY <1>1, <1>2, <1>4, NobodyMoves

\* The region ends.
LEMMA JoinFrame ==
  ASSUME FrameInv, NoCrash, NEW k \in DOMAIN Regions, Join(k)
  PROVE  FrameInv'
<1>1. /\ UNCHANGED <<taskIDSeed, idMap, tokenHB, HB, live, info, ptr, frame,
                     programVars, before>>
      /\ pc' = [t \in Tasks |-> IF t \in Regions[k] THEN "joined" ELSE pc[t]]
      /\ \A t \in Regions[k] : pc[t] = "run"
  BY DEF Join, AtBarrier, checkerVars, insVars, infoVars
<1>2. INSTyped' /\ InfoTyped' /\ PtrsFresh
  BY <1>1 DEF FrameInv, INSTyped, InfoTyped, PtrsFresh
<1>3. ProgramTyped'
  <2>1. pc' \in [Tasks -> PCs]
    BY <1>1 DEF PCs, FrameInv, ProgramTyped
  <2> QED
    BY <1>1, <2>1 DEF FrameInv, ProgramTyped, programVars
<1>4. \A q \in Tasks : Framed(q)'
  <2> SUFFICES ASSUME NEW q \in Tasks
               PROVE  Framed(q)'
    OBVIOUS
  <2>1. CASE q \in Regions[k]
    <3>1. frame'[q] = Idle /\ pc'[q] = "joined"
      BY <1>1, <2>1 DEF FrameInv, Framed
    <3> QED
      BY <3>1 DEF Framed, Idle
  <2>2. CASE q \notin Regions[k]
    <3>1. \A b \in Tasks : pc[b] = "born" /\ parent[b] = q
                             => pc'[b] = "born" /\ parent'[b] = q
      BY <1>1 DEF programVars
    <3>2. frame'[q] = frame[q] /\ pc'[q] = pc[q] /\ ptr'[q] = ptr[q]
      BY <1>1, <2>2
    <3> QED
      BY <1>2, <3>1, <3>2, Undisturbed
  <2> QED
    BY <2>1, <2>2
<1>5. OldsDiffer' /\ CrashesOnlyForUnknown'
  <2>1. \A q \in Tasks : pc'[q] = "joined" \/ pc'[q] = pc[q]
    BY <1>1
  <2>2. frame' = frame
    BY <1>1
  <2> QED
    BY <2>1, <2>2, OldsStay, NobodyCrashes
<1> QED
  BY <1>2, <1>3, <1>4, <1>5 DEF FrameInv

\* An implicit task ends.
LEMMA ImplicitEndFrame ==
  ASSUME FrameInv, NoCrash, NEW t \in Tasks, ImplicitEnd(t)
  PROVE  FrameInv'
<1>1. /\ pc[t] = "joined" /\ info' = [info EXCEPT ![ptr[t]].active = FALSE]
      /\ UNCHANGED <<taskIDSeed, idMap, tokenHB, HB, live, ptr, frame, programVars,
                     before>>
      /\ Moves(t, "done")
  <2>1. "done" \in PCs
    BY DEF PCs
  <2> QED
    BY <2>1 DEF ImplicitEnd, Moves, insVars, checkerVars
<1>2. INSTyped'
  BY <1>1 DEF FrameInv, INSTyped
<1>3. InfoTyped' /\ PtrsFresh
  BY <1>1, ZenonT(60) DEF FrameInv, InfoTyped, PtrsFresh
<1>4. \A q \in Tasks \ {t} : Framed(q)'
  BY <1>1, <1>3, MoveFramed
<1>5. Framed(t)' /\ frame' \in [Tasks -> AnyFrame]
  BY <1>1, IdleMoves
<1> QED
  BY <1>1, <1>2, <1>3, <1>4, <1>5, MoveInv DEF FrameInv, ProgramTyped

\* A task starts.
LEMMA TaskScheduleFrame ==
  ASSUME FrameInv, NoCrash, NEW t \in Tasks, TaskSchedule(t)
  PROVE  FrameInv'
<1>1. /\ pc[t] = "created" /\ before' = [before EXCEPT ![t] = @ \cup PastOf(preds[t])]
      /\ frame' = frame /\ Moves(t, "run")
  <2>1. "run" \in PCs
    BY DEF PCs
  <2> QED
    BY <2>1 DEF TaskSchedule, Moves
<1>2. /\ INSTyped' /\ InfoTyped' /\ PtrsFresh /\ Known(t)'
      /\ \A s \in Tasks : s # t => ptr'[s] = ptr[s]
  <2>1. CASE Known(t)
    <3>1. UNCHANGED <<taskIDSeed, idMap, tokenHB, HB, live, info, ptr>>
      BY <2>1 DEF TaskSchedule, insVars, infoVars, graphVars
    <3> QED
      BY <2>1, <3>1 DEF FrameInv, INSTyped, InfoTyped, PtrsFresh, Known
  <2>2. CASE ~Known(t)
    <3>1. /\ INSTyped' /\ InfoTyped' /\ live \subseteq live' /\ ptr'[t] \in Infos \ live
          /\ \A s \in Tasks : s # t => ptr'[s] = ptr[s]
      BY <2>2, NewInfoTyped DEF FrameInv, TaskSchedule
    <3> QED
      BY <3>1 DEF PtrsFresh, Known
  <2> QED
    BY <2>1, <2>2
<1>3. before' \in [Tasks -> SUBSET TaskIDs]
  <2>1. PastOf(preds[t]) \subseteq TaskIDs
    BY PastTyped DEF FrameInv, ProgramTyped
  <2> QED
    BY <1>1, <2>1 DEF FrameInv, ProgramTyped
<1>4. \A q \in Tasks \ {t} : Framed(q)'
  BY <1>1, <1>2, MoveFramed
<1>5. Framed(t)' /\ frame' \in [Tasks -> AnyFrame]
  BY <1>1, <1>2, IdleMoves
<1> QED
  BY <1>1, <1>2, <1>3, <1>4, <1>5, MoveInv

\* A task makes an access.
LEMMA AccessFrame ==
  ASSUME FrameInv, NoCrash, NEW t \in Tasks, Access(t)
  PROVE  FrameInv'
<1>1. UNCHANGED <<taskIDSeed, idMap, tokenHB, HB, live, info, ptr, pc, frame,
                  programVars, before>>
  BY DEF Access, insVars, infoVars, graphVars
<1>2. INSTyped' /\ InfoTyped'
  BY <1>1 DEF FrameInv, INSTyped, InfoTyped
<1> QED
  BY <1>1, <1>2, NobodyMoves DEF FrameInv, ProgramTyped

\* An explicit task ends.
LEMMA FinishFrame ==
  ASSUME FrameInv, NoCrash, NEW t \in Tasks, Finish(t)
  PROVE  FrameInv'
<1>1. /\ pc[t] = "run"
      /\ UNCHANGED <<taskIDSeed, idMap, tokenHB, HB, live, info, ptr, frame, programVars,
                     before>>
      /\ Moves(t, "done")
  <2>1. "done" \in PCs
    BY DEF PCs
  <2> QED
    BY <2>1 DEF Finish, Moves, insVars, checkerVars, infoVars
<1>2. INSTyped' /\ InfoTyped' /\ PtrsFresh
  BY <1>1 DEF FrameInv, INSTyped, InfoTyped, PtrsFresh
<1>3. \A q \in Tasks \ {t} : Framed(q)'
  BY <1>1, <1>2, MoveFramed
<1>4. Framed(t)' /\ frame' \in [Tasks -> AnyFrame]
  BY <1>1, IdleMoves
<1> QED
  BY <1>1, <1>2, <1>3, <1>4, MoveInv DEF FrameInv, ProgramTyped

\* A taskgroup is left.
LEMMA TaskgroupEndFrame ==
  ASSUME FrameInv, NoCrash, NEW t \in Tasks, TaskgroupEnd(t)
  PROVE  FrameInv'
<1>1. /\ UNCHANGED <<taskIDSeed, idMap, tokenHB, HB, live, info, ptr, pc, frame,
                     programVars>>
      /\ before' = [before EXCEPT ![t] = @ \cup PastOf(Descendants(t))]
  BY DEF TaskgroupEnd, checkerVars, insVars, infoVars
<1>2. INSTyped' /\ InfoTyped'
  BY <1>1 DEF FrameInv, INSTyped, InfoTyped
<1>3. before' \in [Tasks -> SUBSET TaskIDs]
  <2>1. Descendants(t) \subseteq Tasks
    BY DEF Descendants
  <2>2. PastOf(Descendants(t)) \subseteq TaskIDs
    BY <2>1, PastTyped DEF FrameInv
  <2> QED
    BY <1>1, <2>2 DEF FrameInv, ProgramTyped
<1> QED
  BY <1>1, <1>2, <1>3, NobodyMoves

\* A taskwait is left.
LEMMA TaskwaitEndFrame ==
  ASSUME FrameInv, NoCrash, NEW t \in Tasks, TaskwaitEnd(t)
  PROVE  FrameInv'
<1>1. /\ pc[t] = "run" /\ Known(t) /\ addChildAndEnd(t, {ID(t)})
      /\ UNCHANGED <<taskIDSeed, idMap, tokenHB, HB, live, ptr, programVars>>
      /\ before' = [before EXCEPT ![t] = @ \cup PastOf(Children(t))]
      /\ frame' = [frame EXCEPT ![t].old = ptr[t]]
  BY DEF TaskwaitEnd, insVars, checkerVars
<1>2. Moves(t, "rename") /\ frame'[t] = [child |-> NoTask, old |-> ptr[t], deps |-> << >>]
  <2>1. "rename" \in PCs /\ frame[t] = Idle /\ frame \in [Tasks -> AnyFrame]
    BY <1>1 DEF PCs, FrameInv, Framed, ProgramTyped
  <2> QED
    BY <1>1, <2>1 DEF TaskwaitEnd, Moves, Idle
<1>3. INSTyped'
  BY <1>1 DEF FrameInv, INSTyped
<1>4. InfoTyped' /\ PtrsFresh
  BY <1>1, KnownID, AddChildTyped DEF FrameInv, PtrsFresh
<1>5. before' \in [Tasks -> SUBSET TaskIDs]
  <2>1. PastOf(Children(t)) \subseteq TaskIDs
    BY PastTyped DEF FrameInv, Children
  <2> QED
    BY <1>1, <2>1 DEF FrameInv, ProgramTyped
<1>6. frame' \in [Tasks -> AnyFrame]
  <2>1. [child |-> NoTask, old |-> ptr[t], deps |-> << >>] \in AnyFrame
    BY EmptySeq, <1>1, KnownID DEF AnyFrame, FrameInv
  <2>2. frame \in [Tasks -> AnyFrame] /\ DOMAIN frame' = DOMAIN frame
    BY <1>1 DEF FrameInv, ProgramTyped
  <2>3. frame' = [q \in Tasks |-> frame'[q]]
    BY <1>1, <2>2
  <2>4. \A q \in Tasks : frame'[q] \in AnyFrame
    BY <1>2, <2>1, <2>2 DEF Moves
  <2> QED
    BY <2>3, <2>4
<1>7. \A q \in Tasks \ {t} : Framed(q)'
  BY <1>1, <1>2, <1>4, MoveFramed
<1>8. Framed(t)'
  <2>1. pc'[t] = "rename" /\ Known(t)'
    BY <1>1, <1>2 DEF Moves, FrameInv, ProgramTyped, Known
  <2>2. frame'[t].child = NoTask /\ frame'[t].old = ptr'[t]
    BY <1>1, <1>2
  <2> QED
    BY <2>1, <2>2 DEF Framed
<1> QED
  BY <1>2, <1>3, <1>4, <1>5, <1>6, <1>7, <1>8, MoveInv

\* A taskwait of the task that runs main.
LEMMA TaskwaitOfUnknownFrame ==
  ASSUME FrameInv, NoCrash, NEW t \in Tasks, TaskwaitOfUnknown(t)
  PROVE  FrameInv'
<1>1. /\ pc[t] = "run" /\ ~Known(t)
      /\ UNCHANGED <<taskIDSeed, idMap, tokenHB, HB, live, info, ptr, frame, programVars,
                     before>>
      /\ Moves(t, "crashed")
  <2>1. "crashed" \in PCs
    BY DEF PCs
  <2> QED
    BY <2>1 DEF TaskwaitOfUnknown, Active, Moves, insVars, checkerVars, infoVars
<1>2. INSTyped' /\ InfoTyped' /\ PtrsFresh
  BY <1>1 DEF FrameInv, INSTyped, InfoTyped, PtrsFresh
<1>3. \A q \in Tasks \ {t} : Framed(q)'
  BY <1>1, <1>2, MoveFramed
<1>4. Framed(t)' /\ frame' \in [Tasks -> AnyFrame]
  BY <1>1, IdleMoves
<1>5. t \in InitialTasks
  BY <1>1 DEF FrameInv, Framed
<1> QED
  BY <1>1, <1>2, <1>3, <1>4, <1>5, MoveInv DEF FrameInv, ProgramTyped

\* The children of a taskwait are handed over.
LEMMA SaveChildrenFrame ==
  ASSUME FrameInv, NoCrash, NEW t \in Tasks, SaveChildren(t)
  PROVE  FrameInv'
<1>1. /\ pc[t] = "saveChildren" /\ saveChildHBs(t)
      /\ frame' = [frame EXCEPT ![t] = Idle]
      /\ UNCHANGED <<live, ptr, programVars, before>>
  BY DEF SaveChildren
<1>2. Moves(t, "run") /\ frame'[t] = Idle /\ frame' \in [Tasks -> AnyFrame]
  <2>1. "run" \in PCs /\ frame \in [Tasks -> AnyFrame] /\ Idle \in AnyFrame
    BY EmptySeq DEF PCs, FrameInv, ProgramTyped, Idle, AnyFrame
  <2> QED
    BY <1>1, <2>1 DEF SaveChildren, Moves
<1>3. Known(t)
  BY <1>1 DEF FrameInv, Framed
<1>4. INSTyped' /\ InfoTyped' /\ PtrsFresh
  BY <1>1, <1>3, SaveChildrenTyped DEF FrameInv, PtrsFresh
<1>5. \A q \in Tasks \ {t} : Framed(q)'
  BY <1>1, <1>2, <1>4, MoveFramed
<1>6. Framed(t)'
  BY <1>1, <1>2, <1>3 DEF Framed, Idle, Known, Moves, FrameInv, ProgramTyped
<1> QED
  BY <1>1, <1>2, <1>4, <1>5, <1>6, MoveInv DEF FrameInv, ProgramTyped

-----------------------------------------------------------------------------
(* The first results.                                                      *)

\* Nothing has happened yet.
LEMMA InitFrameInv == Init => FrameInv
<1> SUFFICES ASSUME Init PROVE FrameInv
  OBVIOUS
<1>1. INSTyped
  BY DEF Init, INSTyped
<1>2. InfoTyped
  <2>1. [taskID |-> 0, active |-> FALSE, childrenIDs |-> {}]
          \in [taskID : TaskIDs, active : BOOLEAN, childrenIDs : SUBSET TaskIDs]
    OBVIOUS
  <2>2. /\ live = {} /\ ptr = [t \in Tasks |-> NoInfo]
        /\ info = [i \in Infos |-> [taskID |-> 0, active |-> FALSE, childrenIDs |-> {}]]
    BY DEF Init
  <2> QED
    BY <2>1, <2>2 DEF InfoTyped
<1>3. /\ pc = [t \in Tasks |-> IF t \in InitialTasks THEN "run" ELSE "unborn"]
      /\ frame = [t \in Tasks |-> Idle]
  BY DEF Init
<1>4. ProgramTyped
  <2>1. Idle \in AnyFrame /\ << >> \in Seq(Dep)
    BY EmptySeq DEF Idle, AnyFrame
  <2>2. pc \in [Tasks -> PCs]
    BY <1>3 DEF PCs
  <2> QED
    BY <1>3, <2>1, <2>2 DEF Init, ProgramTyped
<1>5. (\A p \in Tasks : Framed(p)) /\ OldsDiffer /\ CrashesOnlyForUnknown
  BY <1>3 DEF Framed, Idle, OldsDiffer, CrashesOnlyForUnknown
<1> QED
  BY <1>1, <1>2, <1>4, <1>5 DEF FrameInv

\* Every step leaves every callback with what it will dereference.
LEMMA NextFrameInv == FrameInv /\ [Next]_vars => FrameInv'
<1> SUFFICES ASSUME FrameInv, [Next]_vars PROVE FrameInv'
  OBVIOUS
<1>1. CASE Next
  <2>1. NoCrash
    BY <1>1 DEF Next, NoCrash
  <2>2. ASSUME NEW t \in Tasks, NEW c \in Tasks,
               TaskCreate(t, c) \/ TaskCreateUntied(t, c) \/ TaskCreateByUnknown(t, c)
        PROVE  FrameInv'
    BY <2>1, <2>2, TaskCreateFrame, TaskCreateUntiedFrame, TaskCreateByUnknownFrame
  <2>3. ASSUME NEW t \in Tasks,
               \/ SendToChild(t) \/ ChildReceives(t) \/ Rename(t) \/ Adopt(t)
               \/ Depend(t) \/ DependOfUnknown(t) \/ Created(t)
        PROVE  FrameInv'
    BY <2>1, <2>3, SendToChildFrame, ChildReceivesFrame, RenameFrame, AdoptFrame,
       DependFrame, DependOfUnknownFrame, CreatedFrame
  <2>4. ASSUME NEW t \in Tasks,
               \/ TaskSchedule(t) \/ Access(t) \/ Finish(t) \/ TaskwaitEnd(t)
               \/ TaskwaitOfUnknown(t) \/ SaveChildren(t) \/ TaskgroupEnd(t)
               \/ ImplicitEnd(t)
        PROVE  FrameInv'
    BY <2>1, <2>4, TaskScheduleFrame, AccessFrame, FinishFrame, TaskwaitEndFrame,
       TaskwaitOfUnknownFrame, SaveChildrenFrame, TaskgroupEndFrame, ImplicitEndFrame
  <2>5. ASSUME NEW k \in DOMAIN Regions,
               \/ \E t \in Regions[k] : ImplicitBegin(t, k)
               \/ Barrier(k) \/ Join(k)
        PROVE  FrameInv'
    BY <2>1, <2>5, ImplicitBeginFrame, BarrierFrame, JoinFrame
  <2> QED
    BY <1>1, <2>2, <2>3, <2>4, <2>5 DEF Next
<1>2. CASE UNCHANGED vars
  <2>1. UNCHANGED <<taskIDSeed, idMap, tokenHB, HB, live, info, ptr, pc, frame,
                    programVars, before>>
    BY <1>2 DEF vars, checkerVars, insVars, infoVars
  <2>2. INSTyped' /\ InfoTyped'
    BY <2>1 DEF FrameInv, INSTyped, InfoTyped
  <2> QED
    BY <2>1, <2>2, NobodyMoves DEF FrameInv, ProgramTyped
<1> QED
  BY <1>1, <1>2

\* Whatever tasks a program creates and however they run, no two tasks share a
\* TaskInfo, no task points to one that was deleted, and the logger's maps stay maps
\* from IDs and addresses to IDs (Util.h:32-48).
THEOREM Typed == Spec => []TypeOK
<1>1. FrameInv => TypeOK
  BY DEF FrameInv, INSTyped, InfoTyped, ProgramTyped, TypeOK
<1> QED
  BY <1>1, InitFrameInv, NextFrameInv, PTL DEF Spec

\* Only the task that runs main and the depend clauses of an untied task make a
\* callback dereference a null TaskInfo (OMPTCallbacks.h:132,142,159,229).
THEOREM CrashesAreKnown == Spec => []CrashesOnlyForUnknown
<1>1. FrameInv => CrashesOnlyForUnknown
  BY DEF FrameInv
<1> QED
  BY <1>1, InitFrameInv, NextFrameInv, PTL DEF Spec

-----------------------------------------------------------------------------
(* What a step does to the logger and to the checker's graph.              *)

\* The IDs a task may be handed at the end of a segment: its own, and its children's.
Family(t) == { ID(s) : s \in { u \in Tasks : Known(u) /\ (u = t \/ parent[u] = t) } }

\* Tasks keep their IDs, and are handed IDs of their family only.
HandsOver ==
  \A t \in Tasks : Known(t) =>
    /\ info'[ptr[t]].taskID = ID(t)
    /\ info'[ptr[t]].childrenIDs \subseteq info[ptr[t]].childrenIDs
         \cup (IF pc'[t] = "rename" THEN Family(t) ELSE {})

Creates  == \E t \in Tasks : createNewTaskMetadata(t)
Sends    == \E t \in Tasks, key \in Keys :
              Known(t) /\ TaskSendTokenLog(ID(t), key) /\ UNCHANGED <<info, ptr>>
Receives == \E t \in Tasks, key \in Keys :
              Known(t) /\ TaskReceiveTokenLog(ID(t), key) /\ ptr' = ptr /\ HandsOver
Saves    == \E t \in Tasks : Known(t) /\ saveChildHBs(t) /\ ptr' = ptr
Quiet    == UNCHANGED <<graphVars, insVars, ptr>> /\ HandsOver

\* A child is handed over, if it is a task with an ID, and nothing else changes.
LEMMA AddChildHandsOver ==
  ASSUME InfoTyped, NEW p \in Tasks, Known(p), NEW ids, addChildAndEnd(p, ids),
         ids \subseteq Family(p), pc'[p] = "rename"
  PROVE  HandsOver
<1> SUFFICES ASSUME NEW t \in Tasks, Known(t)
             PROVE  /\ info'[ptr[t]].taskID = ID(t)
                    /\ info'[ptr[t]].childrenIDs
                         \subseteq info[ptr[t]].childrenIDs \cup (IF t = p THEN ids ELSE {})
  BY DEF HandsOver
<1>1. ptr[t] \in Infos /\ ptr[p] \in Infos /\ (t # p => ptr[t] # ptr[p])
  BY KnownID DEF InfoTyped, Known
<1> QED
  BY <1>1 DEF addChildAndEnd, InfoTyped, ID

\* Every step is one of five kinds.
LEMMA StepKinds ==
  ASSUME FrameInv, [Next]_vars
  PROVE  Creates \/ Sends \/ Receives \/ Saves \/ Quiet
<1> USE DEF FrameInv
<1>1. ASSUME UNCHANGED <<graphVars, insVars, ptr, info>> PROVE Quiet
  BY <1>1 DEF Quiet, HandsOver, ID
<1>2. ASSUME UNCHANGED vars PROVE Quiet
  BY <1>1, <1>2 DEF vars, checkerVars, graphVars, insVars, infoVars
<1>3. ASSUME NEW t \in Tasks, NEW c \in Tasks,
             TaskCreate(t, c) \/ TaskCreateUntied(t, c) \/ TaskCreateByUnknown(t, c)
      PROVE  Creates \/ Quiet
  <2>1. CASE TaskCreate(t, c)
    BY <2>1 DEF TaskCreate, Creates
  <2>2. CASE TaskCreateUntied(t, c)
    <3>1. Known(t) /\ addChildAndEnd(t, {}) /\ UNCHANGED <<graphVars, insVars, ptr>>
      BY <2>2 DEF TaskCreateUntied, checkerVars, graphVars
    <3>2. pc'[t] = "rename"
      BY <2>2 DEF TaskCreateUntied, MayCreate, Active, ProgramTyped
    <3> QED
      BY <3>1, <3>2, AddChildHandsOver DEF Quiet
  <2>3. CASE TaskCreateByUnknown(t, c)
    BY <1>1, <2>3 DEF TaskCreateByUnknown, Creates, infoVars
  <2> QED
    BY <1>3, <2>1, <2>2, <2>3
<1>4. ASSUME NEW t \in Tasks, SendToChild(t) PROVE Sends
  <2>1. Known(t) /\ TaskSendTokenLog(ID(t), ptr[t]) /\ UNCHANGED <<info, ptr>>
    BY <1>4 DEF SendToChild, Framed, infoVars
  <2>2. ptr[t] \in Keys
    BY <2>1, KnownID DEF Keys
  <2> QED
    BY <2>1, <2>2 DEF Sends
<1>5. ASSUME NEW t \in Tasks, ChildReceives(t) PROVE Receives
  <2> DEFINE c == frame[t].child
  <2>1. /\ TaskReceiveTokenLog(ID(c), ptr[t]) /\ ptr' = ptr
        /\ addChildAndEnd(t, {ID(c)})
    BY <1>5 DEF ChildReceives
  <2>2. Known(t) /\ Known(c) /\ c \in Tasks /\ parent[c] = t
    <3>1. frame[t] \in AnyFrame /\ Framed(t) /\ pc[t] = "receive"
      BY <1>5 DEF ProgramTyped, ChildReceives
    <3> QED
      BY <3>1 DEF Framed, AnyFrame
  <2>3. HandsOver
    <3>1. {ID(c)} \subseteq Family(t)
      BY <2>2 DEF Family
    <3>2. pc'[t] = "rename"
      BY <1>5 DEF ChildReceives, ProgramTyped
    <3> QED
      BY <2>1, <2>2, <3>1, <3>2, AddChildHandsOver
  <2>4. ptr[t] \in Keys
    BY <2>2, KnownID DEF Keys
  <2> QED
    BY <2>1, <2>2, <2>3, <2>4 DEF Receives
<1>6. ASSUME NEW t \in Tasks, Rename(t) PROVE Creates
  BY <1>6 DEF Rename, Creates
<1>7. ASSUME NEW t \in Tasks, Adopt(t) PROVE Receives
  <2>1. /\ Known(t) /\ frame[t].old \in Keys /\ UNCHANGED <<info, ptr>>
        /\ TaskReceiveTokenLog(ID(t), frame[t].old)
    BY <1>7 DEF Adopt, Framed, InfoTyped, Keys
  <2>2. HandsOver
    BY <2>1 DEF HandsOver, ID
  <2> QED
    BY <2>1, <2>2 DEF Receives
<1>8. ASSUME NEW t \in Tasks, Depend(t) PROVE Sends \/ Receives
  <2> DEFINE c == frame[t].child
             key == Head(frame[t].deps).addr
  <2>1. /\ Known(c) /\ UNCHANGED <<info, ptr>>
        /\ TaskSendTokenLog(ID(c), key) \/ TaskReceiveTokenLog(ID(c), key)
    BY <1>8 DEF Depend, infoVars
  <2>2. c \in Tasks /\ key \in Keys
    <3>1. frame[t] \in AnyFrame /\ Framed(t) /\ pc[t] = "depend" /\ frame[t].deps # << >>
      BY <1>8 DEF ProgramTyped, Depend
    <3>2. c \in Tasks /\ frame[t].deps \in Seq(AnyDep)
      BY <3>1 DEF Framed, AnyFrame
    <3>3. Head(frame[t].deps) \in AnyDep
      BY <3>1, <3>2, HeadTailProperties
    <3> QED
      BY <3>2, <3>3 DEF AnyDep, Keys
  <2>3. HandsOver
    BY <2>1 DEF HandsOver, ID
  <2> QED
    BY <2>1, <2>2, <2>3 DEF Sends, Receives
<1>9. ASSUME NEW t \in Tasks, SaveChildren(t) PROVE Saves
  BY <1>9 DEF SaveChildren, Saves, Framed
<1>10. ASSUME NEW t \in Tasks, TaskSchedule(t) PROVE Creates \/ Quiet
  BY <1>1, <1>10 DEF TaskSchedule, Creates, infoVars
<1>11. ASSUME NEW t \in Tasks, TaskwaitEnd(t) PROVE Quiet
  <2>1. /\ Known(t) /\ addChildAndEnd(t, {ID(t)})
        /\ UNCHANGED <<graphVars, insVars, ptr>>
    BY <1>11 DEF TaskwaitEnd, checkerVars, graphVars
  <2>2. {ID(t)} \subseteq Family(t)
    BY <2>1 DEF Family
  <2>3. pc'[t] = "rename"
    BY <1>11 DEF TaskwaitEnd, ProgramTyped
  <2> QED
    BY <2>1, <2>2, <2>3, AddChildHandsOver DEF Quiet
<1>12. ASSUME NEW t \in Tasks, ImplicitEnd(t) PROVE Quiet
  <2>1. /\ info' = [info EXCEPT ![ptr[t]].active = FALSE]
        /\ UNCHANGED <<graphVars, insVars, ptr>>
    BY <1>12 DEF ImplicitEnd, checkerVars, graphVars
  <2>2. HandsOver
    BY <2>1, KnownID DEF HandsOver, ID, InfoTyped
  <2> QED
    BY <2>1, <2>2 DEF Quiet
<1>13. ASSUME NEW t \in Tasks,
              \/ DependOfUnknown(t) \/ Created(t) \/ Access(t) \/ Finish(t)
              \/ TaskwaitOfUnknown(t) \/ TaskgroupEnd(t)
       PROVE  Quiet
  <2>1. UNCHANGED <<graphVars, insVars, ptr, info>>
    BY <1>13 DEF DependOfUnknown, Created, Access, Finish, TaskwaitOfUnknown,
       TaskgroupEnd, checkerVars, graphVars, infoVars
  <2> QED
    BY <1>1, <2>1
<1>14. ASSUME NEW k \in DOMAIN Regions, Barrier(k) \/ Join(k) PROVE Quiet
  <2>1. UNCHANGED <<graphVars, insVars, ptr, info>>
    BY <1>14 DEF Barrier, Join, checkerVars, graphVars, infoVars
  <2> QED
    BY <1>1, <2>1
<1>15. ASSUME NEW k \in DOMAIN Regions, NEW t \in Regions[k], ImplicitBegin(t, k)
       PROVE  Creates
  BY <1>15 DEF ImplicitBegin, Creates
<1> HIDE DEF FrameInv
<1>16. CASE Next
  BY <1>3, <1>4, <1>5, <1>6, <1>7, <1>8, <1>9, <1>10, <1>11, <1>12, <1>13, <1>14,
     <1>15, <1>16 DEF Next
<1> QED
  BY <1>2, <1>16

-----------------------------------------------------------------------------
(* Every ID in use has a bag.                                              *)

\* No task has an ID or a token before it was announced.
LEMMA InitBagInv == Init => BagInv
<1> SUFFICES ASSUME Init PROVE BagInv
  OBVIOUS
<1>1. /\ idMap = [k \in Keys |-> NoID] /\ ptr = [t \in Tasks |-> NoInfo]
  BY DEF Init
<1> QED
  BY <1>1 DEF BagInv, TokensHaveBags, Known

\* Bags are never taken away, and IDs are handed on from task to task only.
LEMMA NextBagInv ==
  ASSUME FrameInv, BagInv, Creates \/ Sends \/ Receives \/ Saves \/ Quiet
  PROVE  BagInv'
<1> USE DEF FrameInv
<1>1. CASE Creates
  <2>1. PICK t \in Tasks : createNewTaskMetadata(t)
    BY <1>1 DEF Creates
  <2> DEFINE C == IF ptr[t] = NoInfo THEN {} ELSE info[ptr[t]].childrenIDs
  <2>2. /\ idMap' = idMap /\ bagged' = bagged \cup {taskIDSeed}
    BY <2>1 DEF createNewTaskMetadata, Checker!onTaskCreate
  <2>3. PICK i \in Free :
          /\ ptr' = [ptr EXCEPT ![t] = i]
          /\ info' = [info EXCEPT ![i] = [taskID |-> taskIDSeed, active |-> TRUE,
                                          childrenIDs |-> C]]
    BY <2>1 DEF createNewTaskMetadata
  <2>4. i \in Infos /\ i \notin live
    BY DEF Free, InfoTyped, INSTyped
  <2>5. C \subseteq bagged
    BY DEF BagInv, TokensHaveBags
  <2>6. info'[i].taskID = taskIDSeed /\ info'[i].childrenIDs = C
    BY <2>3, <2>4 DEF InfoTyped
  <2>7. \A s \in Tasks : s # t =>
          ptr'[s] = ptr[s] /\ (Known(s) => info'[ptr[s]] = info[ptr[s]])
    BY <2>3, <2>4, KnownID DEF InfoTyped
  <2>8. ptr'[t] = i
    BY <2>3 DEF InfoTyped
  <2>9. \A s \in Tasks : Known(s)' => /\ info'[ptr'[s]].taskID \in bagged'
                                      /\ info'[ptr'[s]].childrenIDs \subseteq bagged'
    BY <2>2, <2>5, <2>6, <2>7, <2>8 DEF BagInv, TokensHaveBags, Known, ID
  <2> QED
    BY <2>2, <2>9 DEF BagInv, TokensHaveBags, Known, ID
<1>2. CASE Sends
  <2>1. PICK t \in Tasks, key \in Keys :
          Known(t) /\ TaskSendTokenLog(ID(t), key) /\ UNCHANGED <<info, ptr>>
    BY <1>2 DEF Sends
  <2>2. idMap' = [idMap EXCEPT ![key] = ID(t)] /\ bagged' = bagged
    BY <2>1 DEF TaskSendTokenLog, graphVars
  <2>3. \A k \in Keys : idMap'[k] \in bagged' \cup {NoID}
    BY <2>1, <2>2 DEF BagInv, TokensHaveBags, INSTyped
  <2> QED
    BY <2>1, <2>2, <2>3 DEF BagInv, TokensHaveBags, Known, ID
<1>3. ASSUME HandsOver, ptr' = ptr, bagged \subseteq bagged', idMap' = idMap
      PROVE  BagInv'
  <2>1. \A t \in Tasks : Known(t) => /\ info'[ptr[t]].taskID \in bagged'
                                     /\ info'[ptr[t]].childrenIDs \subseteq bagged'
    BY <1>3 DEF HandsOver, Family, BagInv, TokensHaveBags, Known, ID
  <2> QED
    BY <1>3, <2>1 DEF BagInv, TokensHaveBags, Known, ID
<1>4. CASE Receives
  <2>1. HandsOver /\ ptr' = ptr /\ idMap' = idMap /\ bagged \subseteq bagged'
    BY <1>4 DEF Receives, TaskReceiveTokenLog, Checker!saveHappensBeforeEdges, graphVars
  <2> QED
    BY <1>3, <2>1
<1>5. CASE Saves
  <2>1. PICK t \in Tasks : Known(t) /\ saveChildHBs(t) /\ ptr' = ptr
    BY <1>5 DEF Saves
  <2>2. /\ idMap' = idMap /\ bagged \subseteq bagged'
        /\ info' = [info EXCEPT ![ptr[t]].childrenIDs = {}]
    BY <2>1 DEF saveChildHBs, Checker!saveHappensBeforeEdges, graphVars, insVars
  <2>3. HandsOver
    BY <2>2, KnownID DEF HandsOver, InfoTyped, ID
  <2> QED
    BY <1>3, <2>1, <2>2, <2>3
<1>6. CASE Quiet
  BY <1>3, <1>6 DEF Quiet, graphVars, insVars
<1> QED
  BY <1>1, <1>2, <1>4, <1>5, <1>6

\* Every ID that a token or a taskwait hands to the checker has a bag
\* (checker.cc:78 dereferences it without a test).
THEOREM BagsExist == Spec => []TokensHaveBags
<1>1. Init => FrameInv /\ BagInv
  BY InitFrameInv, InitBagInv
<1>2. FrameInv /\ BagInv /\ [Next]_vars => FrameInv' /\ BagInv'
  BY NextFrameInv, StepKinds, NextBagInv
<1>3. BagInv => TokensHaveBags
  BY DEF BagInv
<1> QED
  BY <1>1, <1>2, <1>3, PTL DEF Spec

-----------------------------------------------------------------------------
(* The order the logger keeps beside the checker.                          *)

\* More edges and larger bags make larger bags.
LEMMA InheritedGrows ==
  ASSUME NEW D, NEW E, D \subseteq E, NEW A, NEW B,
         \A s \in TaskIDs : A[s] \subseteq B[s], NEW i \in TaskIDs
  PROVE  Checker!InheritedHB(D, A, i) \subseteq Checker!InheritedHB(E, B, i)
BY DEF Checker!InheritedHB, Checker!inEdges

\* A bag that is rebuilt from more edges is at least what it was.
LEMMA RebuiltBag ==
  ASSUME INSTyped, BagsGrow, NEW E, edges \subseteq E, edges' = E, NEW n \in TaskIDs,
         HB' = [HB EXCEPT ![n] = Checker!InheritedHB(E, HB, n)]
  PROVE  BagsGrow' /\ \A i \in TaskIDs : HB[i] \subseteq HB'[i]
<1>1. /\ HB'[n] = Checker!InheritedHB(E, HB, n)
      /\ \A i \in TaskIDs : i # n => HB'[i] = HB[i]
  BY DEF INSTyped
<1>2. \A i \in TaskIDs : HB[i] \subseteq Checker!InheritedHB(E, HB, i)
  <2> SUFFICES ASSUME NEW i \in TaskIDs
               PROVE  HB[i] \subseteq Checker!InheritedHB(E, HB, i)
    OBVIOUS
  <2>1. Checker!InheritedHB(edges, HB, i) \subseteq Checker!InheritedHB(E, HB, i)
    BY InheritedGrows
  <2> QED
    BY <2>1 DEF BagsGrow
<1>3. \A i \in TaskIDs : HB[i] \subseteq HB'[i]
  BY <1>1, <1>2
<1>4. \A i \in TaskIDs : HB'[i] \subseteq Checker!InheritedHB(E, HB', i)
  <2> SUFFICES ASSUME NEW i \in TaskIDs
               PROVE  HB'[i] \subseteq Checker!InheritedHB(E, HB', i)
    OBVIOUS
  <2>1. Checker!InheritedHB(E, HB, i) \subseteq Checker!InheritedHB(E, HB', i)
    BY <1>3 DEF Checker!InheritedHB, Checker!inEdges
  <2>2. HB'[i] \subseteq Checker!InheritedHB(E, HB, i)
    BY <1>1, <1>2
  <2> QED
    BY <2>1, <2>2
<1> QED
  BY <1>3, <1>4 DEF BagsGrow

\* Nothing is ordered yet.
LEMMA InitOrderInv == Init => OrderInv
<1> SUFFICES ASSUME Init PROVE OrderInv
  OBVIOUS
<1>1. HB = [i \in TaskIDs |-> {}] /\ tokenHB = [i \in TaskIDs |-> {}]
  BY DEF Init
<1> QED
  BY <1>1 DEF OrderInv, BagsGrow, TokenOrderKnown

\* A token received is an edge before it is an order of the logger.
LEMMA NextOrderInv ==
  ASSUME FrameInv, OrderInv, Creates \/ Sends \/ Receives \/ Saves \/ Quiet
  PROVE  OrderInv'
<1> USE DEF FrameInv, OrderInv
<1>1. ASSUME UNCHANGED <<edges, HB, tokenHB>> PROVE OrderInv'
  BY <1>1 DEF BagsGrow, TokenOrderKnown
<1>2. ASSUME BagsGrow', \A i \in TaskIDs : HB[i] \subseteq HB'[i], tokenHB' = tokenHB
      PROVE  OrderInv'
  BY <1>2 DEF TokenOrderKnown
<1>3. CASE Creates
  <2>1. /\ taskIDSeed \in TaskIDs /\ edges' = edges /\ tokenHB' = tokenHB
        /\ \/ HB' = HB
           \/ HB' = [HB EXCEPT ![taskIDSeed] =
                       Checker!InheritedHB(edges, HB, taskIDSeed)]
    BY <1>3 DEF Creates, createNewTaskMetadata, Checker!onTaskCreate
  <2> QED
    BY <1>1, <1>2, <2>1, RebuiltBag
<1>4. CASE Sends
  <2>1. UNCHANGED <<edges, HB, tokenHB>>
    BY <1>4 DEF Sends, TaskSendTokenLog, graphVars
  <2> QED
    BY <1>1, <2>1
<1>5. CASE Receives
  <2>1. PICK t \in Tasks, key \in Keys : Known(t) /\ TaskReceiveTokenLog(ID(t), key)
    BY <1>5 DEF Receives
  <2>2. ID(t) \in TaskIDs
    BY <2>1, KnownID
  <2> DEFINE id == ID(t)
             parentID == idMap[key]
             E == edges \cup ({parentID} \X {id})
  <2>3. CASE parentID \in {NoID, id}
    BY <1>1, <2>1, <2>3 DEF TaskReceiveTokenLog, graphVars
  <2>4. CASE parentID \notin {NoID, id}
    <3>1. /\ parentID \in TaskIDs /\ edges' = E
          /\ HB' = [HB EXCEPT ![id] = Checker!InheritedHB(E, HB, id)]
          /\ tokenHB' = [tokenHB EXCEPT ![id] = @ \cup {parentID} \cup tokenHB[parentID]]
      BY <2>1, <2>4 DEF TaskReceiveTokenLog, Checker!saveHappensBeforeEdges, INSTyped
    <3>2. BagsGrow' /\ \A i \in TaskIDs : HB[i] \subseteq HB'[i]
      <4>1. edges \subseteq E
        OBVIOUS
      <4> QED
        BY <2>2, <3>1, <4>1, RebuiltBag
    <3>3. parentID \in HB'[id] /\ HB[parentID] \subseteq HB'[id]
      <4>1. HB'[id] = Checker!InheritedHB(E, HB, id)
        BY <2>2, <3>1 DEF INSTyped
      <4>2. /\ parentID \in Checker!InheritedHB(E, HB, id)
            /\ HB[parentID] \subseteq Checker!InheritedHB(E, HB, id)
        <5>1. <<parentID, id>> \in E
          OBVIOUS
        <5> HIDE DEF E, parentID, id
        <5> QED
          BY <2>2, <3>1, <5>1 DEF Checker!InheritedHB, Checker!inEdges
      <4> QED
        BY <4>1, <4>2
    <3>4. TokenOrderKnown'
      <4>1. /\ tokenHB'[id] = tokenHB[id] \cup {parentID} \cup tokenHB[parentID]
            /\ \A i \in TaskIDs : i # id => tokenHB'[i] = tokenHB[i]
        BY <2>2, <3>1 DEF INSTyped
      <4>2. tokenHB'[id] \subseteq HB'[id]
        BY <2>2, <3>1, <3>2, <3>3, <4>1 DEF TokenOrderKnown
      <4> QED
        BY <3>2, <4>1, <4>2 DEF TokenOrderKnown
    <3> QED
      BY <3>2, <3>4
  <2> QED
    BY <2>3, <2>4
<1>6. CASE Saves
  <2>1. PICK t \in Tasks : Known(t) /\ saveChildHBs(t)
    BY <1>6 DEF Saves
  <2>2. ID(t) \in TaskIDs /\ tokenHB' = tokenHB
    BY <2>1, KnownID DEF saveChildHBs, insVars
  <2>3. CASE UNCHANGED graphVars
    BY <1>1, <2>2, <2>3 DEF graphVars
  <2>4. CASE Checker!saveHappensBeforeEdges(info[ptr[t]].childrenIDs, ID(t))
    <3> DEFINE E == edges \cup (info[ptr[t]].childrenIDs \X {ID(t)})
    <3>1. /\ edges \subseteq E /\ edges' = E
          /\ HB' = [HB EXCEPT ![ID(t)] = Checker!InheritedHB(E, HB, ID(t))]
      BY <2>4 DEF Checker!saveHappensBeforeEdges
    <3> HIDE DEF E
    <3> QED
      BY <1>2, <2>2, <3>1, RebuiltBag
  <2> QED
    BY <2>1, <2>3, <2>4 DEF saveChildHBs
<1>7. CASE Quiet
  BY <1>1, <1>7 DEF Quiet, graphVars, insVars
<1> QED
  BY <1>3, <1>4, <1>5, <1>6, <1>7

\* The happens-before relation that the logger keeps (Logger.h:149-159) never claims
\* an order that the checker does not know.
THEOREM LoggerClaimsNothing == Spec => []TokenOrderKnown
<1>1. Init => FrameInv /\ OrderInv
  BY InitFrameInv, InitOrderInv
<1>2. FrameInv /\ OrderInv /\ [Next]_vars => FrameInv' /\ OrderInv'
  BY NextFrameInv, StepKinds, NextOrderInv
<1>3. OrderInv => TokenOrderKnown
  BY DEF OrderInv
<1> QED
  BY <1>1, <1>2, <1>3, PTL DEF Spec

-----------------------------------------------------------------------------
(* The hypotheses of the theorem about the order of tasks.                 *)

\* No variable that tasks depend on has the address of a TaskInfo; ...
OwnAddresses == DepAddrs \cap Infos = {}

\* ... if a freed address is given out again, and with it the token left there, no task
\* but the one that sends tokens receives such a token: tasks receive what they have not
\* just sent at the end of a taskwait and after the creation of an untied task; ...
Receivers == Waiters \cup IF UntiedTasks = {} THEN {} ELSE Producers
OwnTokens == Reuse => \A p \in Producers, t \in Receivers : p = t

\* ... and a variable that tasks depend on is named by siblings only.
SiblingsDepend ==
  \A s, t \in Tasks : \A j \in DOMAIN depsOf[s], k \in DOMAIN depsOf[t] :
    depsOf[s][j].addr = depsOf[t][k].addr => parent[s] = parent[t]

-----------------------------------------------------------------------------
(* What will be over when a task starts.                                   *)

Waits(t) == pc[t] \in {"unborn", "born", "created"}

\* The tasks of S are all that come after x, for all the program knows so far: x is
\* in the past of a task, or a task waits for one that comes after x.
Heirs(x, S) ==
  \A t \in Tasks : x \in Past(t) \/ (Waits(t) /\ preds[t] \cap S # {}) => t \in S

\* x is over before t goes on, or will be when t starts.
Precedes(x, t) == \A S \in SUBSET Tasks : Heirs(x, S) => t \in S

\* The past of a task precedes it.
LEMMA PastPrecedes ==
  ASSUME NEW t \in Tasks, NEW x \in Past(t)
  PROVE  Precedes(x, t)
BY DEF Precedes, Heirs

\* What precedes a predecessor precedes the task that waits for it.
LEMMA PredecessorPrecedes ==
  ASSUME NEW t \in Tasks, Waits(t), NEW u \in preds[t], NEW x, Precedes(x, u)
  PROVE  Precedes(x, t)
BY DEF Precedes, Heirs

\* What precedes a task that has started is in its past.
LEMMA PrecedesStarted ==
  ASSUME NEW t \in Tasks, ~Waits(t), NEW x, Precedes(x, t)
  PROVE  x \in Past(t)
<1> DEFINE S == { s \in Tasks : Waits(s) \/ x \in Past(s) }
<1>1. Heirs(x, S)
  BY DEF Heirs
<1>2. t \in S
  BY <1>1 DEF Precedes
<1> QED
  BY <1>2

\* How the program's order grows in a step: no past is lost, a task that waits goes
\* on waiting for the same tasks or starts with their pasts.
OrderGrows ==
  /\ \A t \in Tasks : Past(t) \subseteq Past(t)'
  /\ \A t \in Tasks : Waits(t) /\ Waits(t)' => preds[t] \subseteq preds'[t]
  /\ \A t \in Tasks : Waits(t) /\ ~Waits(t)' =>
       \A u \in preds[t] : u \in Tasks /\ ~Waits(u) /\ Past(u)' \subseteq Past(t)'

\* What precedes a task goes on preceding it.
LEMMA PrecedesStays ==
  ASSUME OrderGrows, NEW t \in Tasks, NEW x, Precedes(x, t)
  PROVE  Precedes(x, t)'
<1> SUFFICES ASSUME NEW S \in SUBSET Tasks, Heirs(x, S)'
             PROVE  t \in S
  BY DEF Precedes
<1> DEFINE R == { s \in S : Waits(s) \/ x \in Past(s)' }
<1>1. Heirs(x, R)
  <2> SUFFICES ASSUME NEW s \in Tasks,
                      x \in Past(s) \/ (Waits(s) /\ preds[s] \cap R # {})
               PROVE  s \in R
    BY DEF Heirs
  <2>1. x \in Past(s)' => s \in S
    BY DEF Heirs
  <2>2. CASE x \in Past(s)
    BY <2>1, <2>2 DEF OrderGrows
  <2>3. CASE Waits(s) /\ preds[s] \cap R # {}
    <3>1. PICK u \in preds[s] : u \in R
      BY <2>3
    <3>2. CASE Waits(s)'
      <4>1. u \in preds'[s] \cap S
        BY <2>3, <3>1, <3>2 DEF OrderGrows
      <4>2. s \in S
        BY <3>2, <4>1 DEF Heirs
      <4> QED
        BY <2>3, <4>2
    <3>3. CASE ~Waits(s)'
      <4>1. ~Waits(u) /\ Past(u)' \subseteq Past(s)'
        BY <2>3, <3>3 DEF OrderGrows
      <4> QED
        BY <2>1, <3>1, <4>1
    <3> QED
      BY <3>2, <3>3
  <2> QED
    BY <2>2, <2>3
<1>2. t \in R
  <2>1. R \in SUBSET Tasks
    OBVIOUS
  <2> QED
    BY <1>1, <2>1 DEF Precedes
<1> QED
  BY <1>2

-----------------------------------------------------------------------------
(* The shape of a step.                                                    *)

\* Nothing is known of a task before it begins.
Unborn ==
  \A t \in Tasks : pc[t] = "unborn" =>
    ~Known(t) /\ before[t] = {} /\ preds[t] = {} /\ parent[t] = NoTask

\* The IDs that may still get edges belong to tasks that are here.
OpenPCs == {"born", "adopt", "saveChildren"}

\* What is over for a task stays over; a task whose TaskInfo is replaced has its
\* segment behind it.
PastKept ==
  \A t \in Tasks : /\ before[t] \subseteq before'[t]
                   /\ ptr'[t] = ptr[t] \/ Segment(t) \subseteq before'[t]

\* The program that has been generated does not change.
Settled ==
  \A t \in Tasks : pc[t] # "unborn" =>
    /\ pc'[t] # "unborn"
    /\ parent'[t] = parent[t] /\ depsOf'[t] = depsOf[t] /\ preds'[t] = preds[t]

StillUnborn ==
  \A t \in Tasks : pc'[t] = "unborn" =>
    /\ pc[t] = "unborn" /\ ptr'[t] = ptr[t] /\ before'[t] = before[t]
    /\ preds'[t] = preds[t] /\ parent'[t] = parent[t]

DoneStays ==
  \A t \in Tasks : pc[t] = "done" =>
    pc'[t] = "done" /\ before'[t] = before[t] /\ ptr'[t] = ptr[t]

\* A task starts when its predecessors are over, and with their pasts.
StartsAfter ==
  \A t \in Tasks : pc[t] \in {"born", "created"} /\ pc'[t] \notin {"born", "created"} =>
    \A u \in preds[t] : pc[u] = "done" /\ Past(u) \subseteq before'[t]

\* An ID is open from its beginning, or not at all.
OpensNew ==
  \A t \in Tasks :
    /\ pc'[t] \in {"adopt", "saveChildren"} =>
         ptr'[t] # ptr[t] \/ pc[t] \in {"adopt", "saveChildren"}
    /\ pc'[t] = "born" => \/ pc[t] = "born" /\ ptr'[t] = ptr[t]
                          \/ pc[t] = "unborn" /\ (Known(t)' => ptr'[t] # ptr[t])

\* Task p creates task c.
Generated(p, c) ==
  /\ pc[p] = "run" /\ pc[c] = "unborn" /\ pc'[c] = "born" /\ parent'[c] = p
  /\ frame'[p].child = c
  /\ preds'[c] = Predecessors(p, depsOf'[c])
  /\ frame'[p].deps = depsOf'[c]
  /\ before'[c] = before[p] \cup Segment(p)
  /\ ptr'[p] = ptr[p] /\ before'[p] = before[p]
  /\ \A u \in Tasks : u # c => parent'[u] = parent[u] /\ depsOf'[u] = depsOf[u]

\* The new task of a callback is the one it was, unless one is created now.
CallbackStep ==
  \A p, c \in Tasks : frame'[p].child = c => Generated(p, c) \/ frame[p].child = c

NewParents ==
  \A p, c \in Tasks : parent'[c] = p => Generated(p, c) \/ parent[c] = p

\* A task is born when another one creates it, and the callback keeps hold of it
\* until its creation is over.
BornByCreation ==
  \A t \in Tasks : pc'[t] = "born" => pc[t] = "born" \/ \E p \in Tasks : Generated(p, t)

KeepsChild ==
  \A p, c \in Tasks : frame[p].child = c /\ pc'[c] = "born" => frame'[p].child = c

\* The dependences that are left are some of those there were, and a write among them
\* was one.  (inout becomes out when the token has been received.)
Weaker(es, ds) ==
  \A j \in DOMAIN es : \E k \in DOMAIN ds :
    es[j].addr = ds[k].addr /\ (es[j].type # "in" => ds[k].type # "in")

DepsStep ==
  \A p \in Tasks : \/ \E c \in Tasks : Generated(p, c)
                   \/ frame'[p].child = NoTask \/ frame'[p].deps = frame[p].deps
                   \/ Weaker(frame'[p].deps, frame[p].deps)

\* The steps of a callback come one after the other.
Stays(p) == frame'[p] = frame[p] /\ before'[p] = before[p] /\ ptr'[p] = ptr[p]

Goes(p) ==
  \/ pc'[p] = pc[p] /\ Stays(p)
  \/ /\ pc'[p] = "send" /\ Known(p) /\ p \in Producers
     /\ \E c \in Tasks : Generated(p, c) /\ Known(c)'
  \/ pc'[p] = "receive" /\ pc[p] = "send" /\ Stays(p)
  \/ pc'[p] = "rename" /\ pc[p] = "receive" /\ Stays(p)
  \/ /\ pc'[p] = "rename" /\ frame'[p].child # NoTask
     /\ p \in Receivers /\ ptr'[p] = ptr[p]
  \/ /\ pc'[p] = "rename" /\ frame'[p].child = NoTask
     /\ p \in Receivers /\ ptr'[p] = ptr[p]
     /\ \A c \in Tasks : parent'[c] = p => pc[c] = "done" /\ Past(c) \subseteq before'[p]
  \/ /\ pc'[p] = "adopt" /\ pc[p] = "rename"
     /\ frame'[p] = frame[p] /\ ptr'[p] # ptr[p]
  \/ pc'[p] = "saveChildren" /\ pc[p] = "adopt" /\ Stays(p) /\ frame[p].child = NoTask

CallbackPCs == {"send", "receive", "rename", "adopt", "saveChildren"}
CallbacksGo == \A p \in Tasks : pc'[p] \in CallbackPCs => Goes(p)

Shape == /\ PastKept /\ Settled /\ StillUnborn /\ DoneStays /\ StartsAfter
         /\ OpensNew /\ CallbackStep /\ NewParents /\ CallbacksGo
         /\ BornByCreation /\ KeepsChild /\ DepsStep

\* One task moves, and none is created.
LEMMA MoveShape ==
  ASSUME FrameInv, NEW p \in Tasks, NEW k, Moves(p, k),
         pc[p] # "done", k \notin {"unborn", "born", "created"},
         NEW B, before[p] \subseteq B, before' = [before EXCEPT ![p] = B],
         \A q \in Tasks : q # p => ptr'[q] = ptr[q],
         ptr'[p] = ptr[p] \/ Segment(p) \subseteq B,
         frame'[p].child = frame[p].child,
         \/ frame'[p].child = NoTask \/ frame'[p].deps = frame[p].deps
         \/ Weaker(frame'[p].deps, frame[p].deps),
         k \in {"adopt", "saveChildren"} =>
           ptr'[p] # ptr[p] \/ pc[p] \in {"adopt", "saveChildren"},
         k \in CallbackPCs => Goes(p),
         pc[p] \in {"born", "created"} =>
           \A u \in preds[p] : pc[u] = "done" /\ Past(u) \subseteq B
  PROVE  Shape
<1>1. /\ pc'[p] = k /\ \A q \in Tasks : q # p => pc'[q] = pc[q]
      /\ before'[p] = B /\ \A q \in Tasks : q # p => before'[q] = before[q]
      /\ \A q \in Tasks : q # p => frame'[q] = frame[q]
      /\ UNCHANGED <<parent, depsOf, preds>>
  BY DEF Moves, FrameInv, ProgramTyped, programVars
<1>2. PastKept
  BY <1>1 DEF PastKept
<1>3. Settled /\ StillUnborn /\ DoneStays
  BY <1>1 DEF Settled, StillUnborn, DoneStays
<1>4. StartsAfter
  BY <1>1 DEF StartsAfter
<1>5. OpensNew
  <2>1. \A q \in Tasks : ptr'[q] = ptr[q] \/ q = p
    OBVIOUS
  <2> QED
    BY <1>1, <2>1 DEF OpensNew
<1>6. CallbackStep /\ NewParents
  BY <1>1 DEF CallbackStep, NewParents
<1>7. CallbacksGo
  <2>1. \A q \in Tasks : q # p => pc'[q] = pc[q] /\ Stays(q)
    BY <1>1 DEF Stays
  <2> QED
    BY <1>1, <2>1 DEF CallbacksGo, Goes
<1>8. BornByCreation /\ KeepsChild /\ DepsStep
  BY <1>1 DEF BornByCreation, KeepsChild, DepsStep
<1> QED
  BY <1>2, <1>3, <1>4, <1>5, <1>6, <1>7, <1>8 DEF Shape

\* A task is created, with or without metadata.
LEMMA CreationShape ==
  ASSUME FrameInv, Unborn, NEW p \in Tasks, NEW c \in Tasks, NEW ds, Generate(p, c, ds),
         pc[p] = "run", pc[c] = "unborn",
         NEW k \in {"send", "rename", "crashed"}, k = "rename" => p \in Receivers,
         k = "send" => Known(p) /\ p \in Producers /\ Known(c)',
         pc' = [pc EXCEPT ![p] = k, ![c] = "born"],
         \A q \in Tasks : q # c => ptr'[q] = ptr[q],
         Known(c)' => ptr'[c] # ptr[c]
  PROVE  Shape
<1>1. /\ p # c /\ pc'[p] = k /\ pc'[c] = "born"
      /\ \A q \in Tasks : q # p /\ q # c => pc'[q] = pc[q]
  BY DEF FrameInv, ProgramTyped
<1>2. /\ parent'[c] = p /\ depsOf'[c] = ds /\ preds'[c] = Predecessors(p, ds)
      /\ before'[c] = before[p] \cup Segment(p)
      /\ \A q \in Tasks : q # c => /\ parent'[q] = parent[q] /\ depsOf'[q] = depsOf[q]
                                   /\ preds'[q] = preds[q] /\ before'[q] = before[q]
  BY DEF Generate, FrameInv, ProgramTyped
<1>3. /\ frame'[p].child = c /\ frame'[p].deps = ds
      /\ \A q \in Tasks : q # p => frame'[q] = frame[q]
  BY DEF Generate, FrameInv, ProgramTyped
<1>4. PastKept
  BY <1>2 DEF PastKept, Unborn, Segment
<1>5. Settled /\ StillUnborn /\ DoneStays
  BY <1>1, <1>2 DEF Settled, StillUnborn, DoneStays
<1>6. StartsAfter /\ OpensNew
  BY <1>1 DEF StartsAfter, OpensNew
<1>7. Generated(p, c)
  BY <1>1, <1>2, <1>3 DEF Generated
<1>8. CallbackStep
  BY <1>3, <1>7 DEF CallbackStep
<1>9. NewParents
  BY <1>2, <1>7 DEF NewParents
<1>10. CallbacksGo
  <2>1. \A q \in Tasks : q # p /\ q # c => pc'[q] = pc[q] /\ Stays(q)
    BY <1>1, <1>2, <1>3 DEF Stays
  <2>2. c # NoTask
    OBVIOUS
  <2>3. k \in CallbackPCs => Goes(p)
    BY <1>1, <1>3, <1>7, <2>2 DEF Goes, CallbackPCs
  <2>4. \A q \in Tasks : q # p /\ q # c => Goes(q)
    BY <2>1 DEF Goes
  <2> QED
    BY <1>1, <2>3, <2>4 DEF CallbacksGo, CallbackPCs
<1>11. BornByCreation /\ DepsStep
  <2>1. BornByCreation
    BY <1>1, <1>7 DEF BornByCreation
  <2>2. \A q \in Tasks : q # p => frame'[q].deps = frame[q].deps
    BY <1>3
  <2> QED
    BY <1>7, <2>1, <2>2 DEF DepsStep
<1>12. KeepsChild
  <2>1. frame[p] = Idle
    BY DEF FrameInv, Framed
  <2> QED
    BY <1>3, <2>1 DEF KeepsChild, Idle
<1> QED
  BY <1>4, <1>5, <1>6, <1>8, <1>9, <1>10, <1>11, <1>12 DEF Shape

\* A new TaskInfo is at a new address.
LEMMA NewAddress ==
  ASSUME FrameInv, NEW t \in Tasks, createNewTaskMetadata(t)
  PROVE  ptr'[t] # ptr[t] /\ Known(t)' /\ \A q \in Tasks : q # t => ptr'[q] = ptr[q]
BY NewInfoTyped DEF FrameInv, InfoTyped, Known

\* The creation of a task.
LEMMA TaskCreateShape ==
  ASSUME FrameInv, Unborn, NEW p \in Tasks, NEW c \in Tasks,
         TaskCreate(p, c) \/ TaskCreateUntied(p, c) \/ TaskCreateByUnknown(p, c)
  PROVE  Shape
<1>1. pc[p] = "run" /\ pc[c] = "unborn" /\ ptr[c] = NoInfo /\ p \in Producers
  BY DEF TaskCreate, TaskCreateUntied, TaskCreateByUnknown, MayCreate, Active, Unborn, Known
<1>2. \E ds : Generate(p, c, ds)
  BY DEF TaskCreate, TaskCreateUntied, TaskCreateByUnknown
<1>3. CASE TaskCreate(p, c)
  <2>1. createNewTaskMetadata(c) /\ pc' = [pc EXCEPT ![p] = "send", ![c] = "born"]
    BY <1>3 DEF TaskCreate
  <2>2. Known(p)
    BY <1>3 DEF TaskCreate
  <2> QED
    BY <1>1, <1>2, <2>1, <2>2, NewAddress, CreationShape
<1>4. CASE TaskCreateUntied(p, c)
  <2>1. ptr' = ptr /\ pc' = [pc EXCEPT ![p] = "rename", ![c] = "born"]
    BY <1>4 DEF TaskCreateUntied
  <2>2. ~Known(c)' /\ p \in Receivers
    BY <1>1, <1>4, <2>1 DEF Known, TaskCreateUntied, Receivers
  <2> QED
    BY <1>1, <1>2, <2>1, <2>2, CreationShape
<1>5. CASE TaskCreateByUnknown(p, c)
  <2>1. pc' = [pc EXCEPT ![p] = "crashed", ![c] = "born"]
    BY <1>5 DEF TaskCreateByUnknown
  <2>2. /\ \A q \in Tasks : q # c => ptr'[q] = ptr[q]
        /\ Known(c)' => ptr'[c] # ptr[c]
    BY <1>1, <1>5, NewAddress DEF TaskCreateByUnknown, Known, infoVars
  <2> QED
    BY <1>1, <1>2, <2>1, <2>2, CreationShape
<1> QED
  BY <1>3, <1>4, <1>5

\* A list of dependences whose first one, and no other, is replaced.
LEMMA ReplaceHead ==
  ASSUME NEW ds \in Seq(AnyDep), ds # << >>, NEW e \in AnyDep, e.addr = Head(ds).addr,
         Head(ds).type # "in"
  PROVE  Weaker(<< e >> \o Tail(ds), ds)
<1>1. /\ Tail(ds) \in Seq(AnyDep) /\ Len(Tail(ds)) = Len(ds) - 1 /\ Len(ds) \in Nat \ {0}
      /\ \A j \in 1 .. Len(Tail(ds)) : Tail(ds)[j] = ds[j + 1]
      /\ Head(ds) = ds[1] /\ DOMAIN ds = 1 .. Len(ds)
  BY HeadTailProperties
<1>2. PICK rest : rest = << e >> \o Tail(ds)
  OBVIOUS
<1>3. /\ DOMAIN rest = 1 .. Len(ds) /\ rest[1] = e
      /\ \A j \in 2 .. Len(ds) : rest[j] = Tail(ds)[j - 1]
  BY <1>1, <1>2
<1>4. \A j \in 2 .. Len(ds) : rest[j] = ds[j]
  BY <1>1, <1>3
<1>5. \A j \in 1 .. Len(ds) : \E k \in DOMAIN ds :
        rest[j].addr = ds[k].addr /\ (rest[j].type # "in" => ds[k].type # "in")
  <2> SUFFICES ASSUME NEW j \in 1 .. Len(ds)
               PROVE  \E k \in DOMAIN ds :
                  rest[j].addr = ds[k].addr /\ (rest[j].type # "in" => ds[k].type # "in")
    OBVIOUS
  <2>1. CASE j = 1
    <3>1. 1 \in DOMAIN ds /\ rest[j].addr = ds[1].addr /\ ds[1].type # "in"
      BY <1>1, <1>3, <2>1
    <3> QED
      BY <3>1
  <2>2. CASE j # 1
    <3>1. j \in DOMAIN ds /\ rest[j] = ds[j]
      BY <1>1, <1>4, <2>2
    <3>2. rest[j].type # "in" => ds[j].type # "in"
      BY <3>1
    <3> QED
      BY <3>1, <3>2
  <2> QED
    BY <2>1, <2>2
<1>6. Weaker(rest, ds)
  BY <1>3, <1>5 DEF Weaker
<1> QED
  BY <1>2, <1>6

\* A list of dependences without its first one.
LEMMA DropHead ==
  ASSUME NEW ds \in Seq(AnyDep), ds # << >>
  PROVE  Weaker(Tail(ds), ds)
<1>1. PICK rest : rest = Tail(ds)
  OBVIOUS
<1>2. /\ DOMAIN rest = 1 .. (Len(ds) - 1) /\ Len(ds) \in Nat /\ DOMAIN ds = 1 .. Len(ds)
      /\ \A j \in 1 .. (Len(ds) - 1) : rest[j] = ds[j + 1]
  BY <1>1, HeadTailProperties
<1>3. \A j \in DOMAIN rest : \E k \in DOMAIN ds :
        rest[j].addr = ds[k].addr /\ (rest[j].type # "in" => ds[k].type # "in")
  <2> SUFFICES ASSUME NEW j \in 1 .. (Len(ds) - 1)
               PROVE  \E k \in DOMAIN ds :
                  rest[j].addr = ds[k].addr /\ (rest[j].type # "in" => ds[k].type # "in")
    BY <1>2
  <2>1. rest[j] = ds[j + 1] /\ j + 1 \in DOMAIN ds
    BY <1>2
  <2>2. rest[j].type # "in" => ds[j + 1].type # "in"
    BY <2>1
  <2> QED
    BY <2>1, <2>2
<1>4. Weaker(rest, ds)
  BY <1>3 DEF Weaker
<1> QED
  BY <1>1, <1>4

\* The dependences that are left to handle.
LEMMA DependWeakens ==
  ASSUME FrameInv, NEW p \in Tasks, Depend(p)
  PROVE  Weaker(frame'[p].deps, frame[p].deps)
<1> DEFINE ds == frame[p].deps
           d  == Head(ds)
<1>1. /\ frame \in [Tasks -> AnyFrame] /\ ds \in Seq(AnyDep) /\ ds # << >>
  BY DEF Depend, FrameInv, ProgramTyped, AnyFrame
<1>2. /\ Tail(ds) \in Seq(AnyDep) /\ Len(Tail(ds)) = Len(ds) - 1 /\ Len(ds) \in Nat \ {0}
      /\ \A j \in 1 .. Len(Tail(ds)) : Tail(ds)[j] = ds[j + 1] /\ j + 1 \in DOMAIN ds
      /\ d = ds[1] /\ 1 \in DOMAIN ds /\ d \in AnyDep
  BY <1>1, HeadTailProperties
<1>3. CASE frame'[p].deps = Tail(ds)
  BY <1>1, <1>3, DropHead
<1>4. CASE d.type = "inout" /\ frame'[p].deps = << [d EXCEPT !.type = "out"] >> \o Tail(ds)
  <2>1. [d EXCEPT !.type = "out"] \in AnyDep /\ [d EXCEPT !.type = "out"].addr = d.addr
    BY <1>2 DEF AnyDep
  <2> QED
    BY <1>1, <1>4, <2>1, ReplaceHead
<1>5. \/ frame' = [frame EXCEPT ![p].deps = Tail(ds)]
      \/ /\ d.type = "inout"
         /\ frame' = [frame EXCEPT ![p].deps = << [d EXCEPT !.type = "out"] >> \o Tail(ds)]
  BY DEF Depend
<1>6. \A r : frame' = [frame EXCEPT ![p].deps = r] => frame'[p].deps = r
  BY <1>1 DEF AnyFrame
<1>7. \/ frame'[p].deps = Tail(ds)
      \/ d.type = "inout" /\ frame'[p].deps = << [d EXCEPT !.type = "out"] >> \o Tail(ds)
  BY <1>5, <1>6
<1> QED
  BY <1>3, <1>4, <1>7

\* The other steps of a callback.
LEMMA CallbackShape ==
  ASSUME FrameInv, NEW p \in Tasks,
         \/ SendToChild(p) \/ ChildReceives(p) \/ Rename(p) \/ Adopt(p)
         \/ Depend(p) \/ DependOfUnknown(p)
  PROVE  Shape
<1>0. /\ frame \in [Tasks -> AnyFrame] /\ pc \in [Tasks -> PCs]
      /\ before \in [Tasks -> SUBSET TaskIDs] /\ Framed(p)
  BY DEF FrameInv, ProgramTyped
<1>1. CASE SendToChild(p) \/ ChildReceives(p) \/ DependOfUnknown(p)
  <2>1. /\ pc[p] \in {"send", "receive", "depend"}
        /\ UNCHANGED <<ptr, frame, before, programVars>>
        /\ \E k \in {"receive", "rename", "crashed"} :
             /\ pc' = [pc EXCEPT ![p] = k]
             /\ k = "receive" => pc[p] = "send"
             /\ k = "rename" => pc[p] = "receive"
    BY <1>1 DEF SendToChild, ChildReceives, DependOfUnknown, infoVars
  <2>2. PICK k \in {"receive", "rename", "crashed"} :
             /\ pc' = [pc EXCEPT ![p] = k]
             /\ k = "receive" => pc[p] = "send"
             /\ k = "rename" => pc[p] = "receive"
    BY <2>1
  <2>3. Moves(p, k) /\ before' = [before EXCEPT ![p] = before[p]]
    BY <1>0, <2>1, <2>2 DEF Moves, PCs
  <2>4. k \in CallbackPCs => Goes(p)
    BY <1>0, <2>1, <2>2 DEF CallbackPCs, Goes, Stays
  <2> QED
    BY <2>1, <2>3, <2>4, MoveShape
<1>2. CASE Rename(p)
  <2>1. /\ pc[p] = "rename" /\ createNewTaskMetadata(p) /\ UNCHANGED <<frame, programVars>>
        /\ pc' = [pc EXCEPT ![p] = "adopt"]
        /\ before' = [before EXCEPT ![p] = before[p] \cup {ID(p)}]
    BY <1>2 DEF Rename
  <2>2. Moves(p, "adopt")
    BY <2>1 DEF Moves, PCs
  <2>3. Segment(p) \subseteq before[p] \cup {ID(p)}
    BY DEF Segment
  <2>4. Goes(p)
    BY <1>0, <2>1, NewAddress DEF Goes
  <2> QED
    BY <2>1, <2>2, <2>3, <2>4, NewAddress, MoveShape
<1>3. CASE Adopt(p)
  <2> DEFINE k == IF frame[p].child = NoTask THEN "saveChildren" ELSE "depend"
  <2>1. /\ pc[p] = "adopt" /\ UNCHANGED <<ptr, frame, before, programVars>>
        /\ pc' = [pc EXCEPT ![p] = k]
    BY <1>3 DEF Adopt
  <2>2. Moves(p, k) /\ before' = [before EXCEPT ![p] = before[p]]
    BY <1>0, <2>1 DEF Moves, PCs
  <2>3. k \notin {"unborn", "born", "created"} /\ (k \in CallbackPCs => Goes(p))
    BY <1>0, <2>1 DEF CallbackPCs, Goes, Stays
  <2> HIDE DEF k
  <2> QED
    BY <2>1, <2>2, <2>3, MoveShape
<1>4. CASE Depend(p)
  <2>1. /\ pc[p] = "depend" /\ UNCHANGED <<ptr, pc, before, programVars>>
        /\ \E rest : frame' = [frame EXCEPT ![p].deps = rest]
    BY <1>4 DEF Depend, infoVars
  <2>2. PICK rest : frame' = [frame EXCEPT ![p].deps = rest]
    BY <2>1
  <2>3. /\ frame'[p].child = frame[p].child
        /\ \A q \in Tasks : q # p => frame'[q] = frame[q]
    BY <1>0, <2>2 DEF AnyFrame
  <2>4. Moves(p, "depend") /\ before' = [before EXCEPT ![p] = before[p]]
    BY <1>0, <2>1, <2>3 DEF Moves, PCs
  <2>5. "depend" \notin CallbackPCs
    BY DEF CallbackPCs
  <2>6. Weaker(frame'[p].deps, frame[p].deps)
    BY <1>4, DependWeakens
  <2> QED
    BY <2>1, <2>3, <2>4, <2>5, <2>6, MoveShape
<1> QED
  BY <1>1, <1>2, <1>3, <1>4

\* The callbacks of a creation are over.
LEMMA CreatedShape ==
  ASSUME FrameInv, NEW p \in Tasks, Created(p)
  PROVE  Shape
<1> DEFINE c == frame[p].child
<1>1. /\ pc[p] = "depend" /\ UNCHANGED <<ptr, before, programVars>>
      /\ pc' = [pc EXCEPT ![p] = "run", ![c] = "created"]
      /\ frame' = [frame EXCEPT ![p] = Idle]
  BY DEF Created, infoVars
<1>2. c \in Tasks /\ c # p /\ pc[c] = "born"
  <2>1. frame[p] \in AnyFrame /\ Framed(p)
    BY DEF FrameInv, ProgramTyped
  <2> QED
    BY <1>1, <2>1 DEF Framed, AnyFrame
<1>3. /\ pc'[p] = "run" /\ pc'[c] = "created"
      /\ \A q \in Tasks : q # p /\ q # c => pc'[q] = pc[q]
      /\ frame'[p] = Idle /\ \A q \in Tasks : q # p => frame'[q] = frame[q]
  BY <1>1, <1>2 DEF FrameInv, ProgramTyped
<1>4. PastKept /\ CallbackStep /\ NewParents
  BY <1>1, <1>3 DEF PastKept, CallbackStep, NewParents, Idle, programVars
<1>5. Settled /\ StillUnborn /\ DoneStays /\ StartsAfter /\ OpensNew
  BY <1>1, <1>2, <1>3
     DEF Settled, StillUnborn, DoneStays, StartsAfter, OpensNew, programVars
<1>6. CallbacksGo
  BY <1>1, <1>2, <1>3 DEF CallbacksGo, CallbackPCs, Goes, Stays
<1>7. BornByCreation /\ KeepsChild
  BY <1>2, <1>3 DEF BornByCreation, KeepsChild
<1>8. DepsStep
  BY <1>3 DEF DepsStep, Idle
<1> QED
  BY <1>4, <1>5, <1>6, <1>7, <1>8 DEF Shape

\* A task begins, goes on or ends.
LEMMA RunShape ==
  ASSUME FrameInv, NEW p \in Tasks,
         \/ TaskSchedule(p) \/ TaskwaitEnd(p) \/ TaskgroupEnd(p) \/ Finish(p)
         \/ TaskwaitOfUnknown(p) \/ ImplicitEnd(p) \/ SaveChildren(p) \/ Access(p)
  PROVE  Shape
<1>0. /\ frame \in [Tasks -> AnyFrame] /\ pc \in [Tasks -> PCs]
      /\ before \in [Tasks -> SUBSET TaskIDs]
  BY DEF FrameInv, ProgramTyped
<1>1. CASE TaskSchedule(p)
  <2> DEFINE B == before[p] \cup PastOf(preds[p])
  <2>1. /\ pc[p] = "created" /\ UNCHANGED <<frame, programVars>>
        /\ pc' = [pc EXCEPT ![p] = "run"] /\ before' = [before EXCEPT ![p] = B]
        /\ \A u \in preds[p] : pc[u] = "done"
    BY <1>1 DEF TaskSchedule
  <2>2. Moves(p, "run")
    BY <2>1 DEF Moves, PCs
  <2>3. \A q \in Tasks : q # p => ptr'[q] = ptr[q]
    BY <1>1, NewAddress DEF TaskSchedule, infoVars
  <2>4. ptr'[p] = ptr[p] \/ Segment(p) \subseteq B
    BY <1>1 DEF TaskSchedule, infoVars, Segment
  <2>5. \A u \in preds[p] : Past(u) \subseteq B
    BY DEF PastOf
  <2>6. "run" \notin CallbackPCs
    BY DEF CallbackPCs
  <2> HIDE DEF B
  <2>7. before[p] \subseteq B
    BY DEF B
  <2> QED
    BY <2>1, <2>2, <2>3, <2>4, <2>5, <2>6, <2>7, MoveShape
<1>2. CASE TaskwaitEnd(p)
  <2> DEFINE B == before[p] \cup PastOf(Children(p))
  <2>1. /\ pc[p] = "run" /\ UNCHANGED <<ptr, programVars>>
        /\ pc' = [pc EXCEPT ![p] = "rename"]
        /\ frame' = [frame EXCEPT ![p].old = ptr[p]]
        /\ before' = [before EXCEPT ![p] = B]
    BY <1>2 DEF TaskwaitEnd
  <2>2. /\ frame'[p].child = frame[p].child /\ frame'[p].deps = frame[p].deps
        /\ \A q \in Tasks : q # p => frame'[q] = frame[q]
    BY <1>0, <2>1 DEF AnyFrame
  <2>3. Moves(p, "rename")
    BY <2>1, <2>2 DEF Moves, PCs
  <2>4. before[p] \subseteq B
    OBVIOUS
  <2>5. Goes(p)
    <3>1. \A c \in Tasks : parent'[c] = p => pc[c] = "done" /\ Past(c) \subseteq B
      BY <1>2, <2>1 DEF TaskwaitEnd, Children, PastOf, programVars
    <3>2. pc'[p] = "rename" /\ frame'[p].child = NoTask /\ before'[p] = B
      BY <1>0, <2>1, <2>2 DEF FrameInv, Framed, Idle
    <3>3. p \in Receivers
      BY <1>2 DEF TaskwaitEnd, Receivers
    <3> QED
      BY <2>1, <3>1, <3>2, <3>3 DEF Goes
  <2>6. /\ pc[p] \notin {"done", "born", "created"} /\ \A q \in Tasks : ptr'[q] = ptr[q]
        /\ before' = [before EXCEPT ![p] = B]
    BY <2>1
  <2> HIDE DEF B
  <2>7. /\ frame'[p].child = frame[p].child /\ frame'[p].deps = frame[p].deps
        /\ "rename" \notin {"unborn", "born", "created", "adopt", "saveChildren"}
    BY <2>2
  <2> QED
    BY <2>3, <2>4, <2>5, <2>6, <2>7, MoveShape
<1>3. CASE TaskgroupEnd(p)
  <2> DEFINE B == before[p] \cup PastOf(Descendants(p))
  <2>1. /\ pc[p] = "run" /\ UNCHANGED <<ptr, pc, frame, programVars>>
        /\ before' = [before EXCEPT ![p] = B]
    BY <1>3 DEF TaskgroupEnd, Active, infoVars
  <2>2. Moves(p, "run") /\ "run" \notin CallbackPCs
    BY <1>0, <2>1 DEF Moves, PCs, CallbackPCs
  <2>3. before[p] \subseteq B
    OBVIOUS
  <2> HIDE DEF B
  <2> QED
    BY <2>1, <2>2, <2>3, MoveShape
<1>4. CASE Finish(p) \/ TaskwaitOfUnknown(p) \/ ImplicitEnd(p) \/ Access(p)
  <2>1. /\ pc[p] \in {"run", "joined"} /\ UNCHANGED <<ptr, frame, before, programVars>>
        /\ \E k \in {"run", "done", "crashed"} : pc' = [pc EXCEPT ![p] = k]
    BY <1>0, <1>4 DEF Finish, TaskwaitOfUnknown, ImplicitEnd, Access, Active, infoVars
  <2>2. PICK k \in {"run", "done", "crashed"} : pc' = [pc EXCEPT ![p] = k]
    BY <2>1
  <2>3. Moves(p, k) /\ before' = [before EXCEPT ![p] = before[p]]
    BY <1>0, <2>1, <2>2 DEF Moves, PCs
  <2>4. k \notin {"unborn", "born", "created"} /\ k \notin CallbackPCs
    BY DEF CallbackPCs
  <2> QED
    BY <2>1, <2>3, <2>4, MoveShape
<1>5. CASE SaveChildren(p)
  <2>1. /\ pc[p] = "saveChildren" /\ UNCHANGED <<ptr, before, programVars>>
        /\ pc' = [pc EXCEPT ![p] = "run"] /\ frame' = [frame EXCEPT ![p] = Idle]
    BY <1>5 DEF SaveChildren
  <2>2. /\ Moves(p, "run") /\ before' = [before EXCEPT ![p] = before[p]]
        /\ frame'[p].child = NoTask /\ "run" \notin CallbackPCs
    BY <1>0, <2>1 DEF Moves, PCs, CallbackPCs, Idle
  <2>3. frame[p].child = NoTask
    BY <2>1 DEF FrameInv, Framed
  <2> QED
    BY <2>1, <2>2, <2>3, MoveShape
<1> QED
  BY <1>1, <1>2, <1>3, <1>4, <1>5

\* An implicit task begins.
LEMMA ImplicitBeginShape ==
  ASSUME FrameInv, Unborn, NEW k \in DOMAIN Regions, NEW t \in Regions[k],
         ImplicitBegin(t, k)
  PROVE  Shape
<1> DEFINE B == PastOf(Earlier(k))
<1>1. /\ t \in Tasks /\ pc[t] = "unborn" /\ createNewTaskMetadata(t)
      /\ UNCHANGED <<frame, programVars>> /\ pc' = [pc EXCEPT ![t] = "run"]
      /\ before' = [before EXCEPT ![t] = B]
  BY DEF ImplicitBegin
<1>2. Moves(t, "run") /\ "run" \notin CallbackPCs
  BY <1>1 DEF Moves, PCs, CallbackPCs
<1>3. before[t] = {} /\ Segment(t) = {}
  BY <1>1 DEF Unborn, Segment
<1> HIDE DEF B
<1>4. before[t] \subseteq B /\ Segment(t) \subseteq B
  BY <1>3
<1> QED
  BY <1>1, <1>2, <1>4, NewAddress, MoveShape

\* A region goes on or ends.
LEMMA RegionShape ==
  ASSUME FrameInv, NEW k \in DOMAIN Regions, Barrier(k) \/ Join(k)
  PROVE  Shape
<1>1. /\ \A t \in Regions[k] : pc[t] = "run"
      /\ UNCHANGED <<ptr, frame, programVars>>
  BY DEF Barrier, Join, AtBarrier, infoVars
<1>2. \A t \in Tasks : pc'[t] = pc[t] \/ (t \in Regions[k] /\ pc'[t] = "joined")
  BY DEF Barrier, Join
<1>3. \A t \in Tasks : /\ before[t] \subseteq before'[t]
                       /\ t \notin Regions[k] => before'[t] = before[t]
  <2>1. CASE Barrier(k)
    BY <2>1 DEF Barrier
  <2>2. CASE Join(k)
    BY <2>2 DEF Join
  <2> QED
    BY <2>1, <2>2
<1>4. PastKept /\ CallbackStep /\ NewParents /\ BornByCreation /\ KeepsChild /\ DepsStep
  BY <1>1, <1>2, <1>3 DEF PastKept, CallbackStep, NewParents, programVars,
     BornByCreation, KeepsChild, DepsStep
<1>5. Settled /\ StillUnborn /\ DoneStays /\ StartsAfter /\ OpensNew
  BY <1>1, <1>2, <1>3
     DEF Settled, StillUnborn, DoneStays, StartsAfter, OpensNew, programVars
<1>6. CallbacksGo
  BY <1>1, <1>2, <1>3 DEF CallbacksGo, CallbackPCs, Goes, Stays
<1> QED
  BY <1>4, <1>5, <1>6 DEF Shape

\* Every step has this shape.
LEMMA StepShape ==
  ASSUME FrameInv, Unborn, [Next]_vars
  PROVE  Shape
<1>1. CASE Next
  <2>1. ASSUME NEW t \in Tasks, NEW c \in Tasks,
               TaskCreate(t, c) \/ TaskCreateUntied(t, c) \/ TaskCreateByUnknown(t, c)
        PROVE  Shape
    BY <2>1, TaskCreateShape
  <2>2. ASSUME NEW t \in Tasks,
               \/ SendToChild(t) \/ ChildReceives(t) \/ Rename(t) \/ Adopt(t)
               \/ Depend(t) \/ DependOfUnknown(t)
        PROVE  Shape
    BY <2>2, CallbackShape
  <2>3. ASSUME NEW t \in Tasks,
               \/ TaskSchedule(t) \/ TaskwaitEnd(t) \/ TaskgroupEnd(t) \/ Finish(t)
               \/ TaskwaitOfUnknown(t) \/ ImplicitEnd(t) \/ SaveChildren(t) \/ Access(t)
        PROVE  Shape
    BY <2>3, RunShape
  <2> QED
    BY <1>1, <2>1, <2>2, <2>3, CreatedShape, ImplicitBeginShape, RegionShape DEF Next
<1>2. CASE UNCHANGED vars
  <2>1. UNCHANGED <<ptr, pc, frame, programVars, before>>
    BY <1>2 DEF vars, infoVars
  <2> QED
    BY <2>1 DEF Shape, PastKept, Settled, StillUnborn, DoneStays, StartsAfter, OpensNew,
       CallbackStep, NewParents, CallbacksGo, Goes, Stays, BornByCreation, KeepsChild,
       DepsStep, programVars
<1> QED
  BY <1>1, <1>2

-----------------------------------------------------------------------------
(* IDs and the tasks they were given to.                                   *)

\* A step leaves a task its TaskInfo and its ID, or it gives it a new one.
IDStep ==
  \A t \in Tasks :
    \/ ptr'[t] = ptr[t] /\ (Known(t)' <=> Known(t)) /\ (Known(t) => ID(t)' = ID(t))
    \/ /\ ptr'[t] # ptr[t] /\ Known(t)' /\ ID(t)' = taskIDSeed
       /\ taskIDSeed' = taskIDSeed + 1 /\ (~Reuse => ptr'[t] = taskIDSeed)
       /\ createNewTaskMetadata(t)

\* Every step does.
LEMMA StepIDs ==
  ASSUME FrameInv, [Next]_vars
  PROVE  IDStep /\ (taskIDSeed' = taskIDSeed \/ Creates)
<1> USE DEF FrameInv
<1>1. CASE Creates
  <2>1. PICK t \in Tasks : createNewTaskMetadata(t)
    BY <1>1 DEF Creates
  <2> DEFINE C == IF ptr[t] = NoInfo THEN {} ELSE info[ptr[t]].childrenIDs
  <2>2. PICK i \in Free :
          /\ ptr' = [ptr EXCEPT ![t] = i]
          /\ info' = [info EXCEPT ![i] = [taskID |-> taskIDSeed, active |-> TRUE,
                                          childrenIDs |-> C]]
    BY <2>1 DEF createNewTaskMetadata
  <2>3. i \in Infos /\ i \notin live /\ (~Reuse => i = taskIDSeed) /\ i # NoInfo
    BY DEF Free, InfoTyped, INSTyped
  <2>4. info'[i].taskID = taskIDSeed
    BY <2>2, <2>3 DEF InfoTyped
  <2>5. \A s \in Tasks : s # t =>
          ptr'[s] = ptr[s] /\ (Known(s) => info'[ptr[s]] = info[ptr[s]])
    BY <2>2, <2>3, KnownID DEF InfoTyped
  <2>6. ptr'[t] = i /\ ptr[t] # i
    BY <2>2, <2>3 DEF InfoTyped
  <2>7. taskIDSeed' = taskIDSeed + 1
    BY <2>1 DEF createNewTaskMetadata
  <2> QED
    BY <1>1, <2>1, <2>3, <2>4, <2>5, <2>6, <2>7 DEF IDStep, Known, ID
<1>2. ASSUME ptr' = ptr, taskIDSeed' = taskIDSeed,
             \A t \in Tasks : Known(t) => info'[ptr[t]].taskID = ID(t)
      PROVE  IDStep /\ taskIDSeed' = taskIDSeed
  BY <1>2 DEF IDStep, Known, ID
<1>3. CASE Sends
  <2>1. UNCHANGED <<ptr, info, taskIDSeed>>
    BY <1>3 DEF Sends, TaskSendTokenLog
  <2> QED
    BY <1>2, <2>1 DEF ID
<1>4. CASE Receives
  BY <1>2, <1>4 DEF Receives, TaskReceiveTokenLog, HandsOver
<1>5. CASE Saves
  <2>1. PICK t \in Tasks : Known(t) /\ saveChildHBs(t) /\ ptr' = ptr
    BY <1>5 DEF Saves
  <2>2. taskIDSeed' = taskIDSeed /\ info' = [info EXCEPT ![ptr[t]].childrenIDs = {}]
    BY <2>1 DEF saveChildHBs, insVars
  <2>3. \A s \in Tasks : Known(s) => info'[ptr[s]].taskID = ID(s)
    BY <2>1, <2>2, KnownID DEF InfoTyped, ID
  <2> QED
    BY <1>2, <2>1, <2>2, <2>3
<1>6. CASE Quiet
  BY <1>2, <1>6 DEF Quiet, HandsOver, insVars
<1> QED
  BY <1>1, <1>3, <1>4, <1>5, <1>6, StepKinds

\* The order of the program grows in every step.
LEMMA StepGrows ==
  ASSUME FrameInv, Unborn, Shape, IDStep
  PROVE  OrderGrows
<1>1. \A t \in Tasks : Past(t) \subseteq Past(t)'
  <2> SUFFICES ASSUME NEW t \in Tasks
               PROVE  Past(t) \subseteq Past(t)'
    OBVIOUS
  <2>1. before[t] \subseteq before'[t] /\ (ptr'[t] = ptr[t] \/ Segment(t) \subseteq before'[t])
    BY DEF Shape, PastKept
  <2>2. ptr'[t] = ptr[t] => Segment(t)' = Segment(t)
    BY DEF IDStep, Segment
  <2> QED
    BY <2>1, <2>2 DEF Past
<1>2. \A t \in Tasks : Waits(t) /\ Waits(t)' => preds[t] \subseteq preds'[t]
  BY DEF Shape, Settled, Unborn
<1>3. ASSUME NEW t \in Tasks, Waits(t), ~Waits(t)', NEW u \in preds[t]
      PROVE  u \in Tasks /\ ~Waits(u) /\ Past(u)' \subseteq Past(t)'
  <2>1. u \in Tasks
    BY DEF FrameInv, ProgramTyped
  <2>2. pc[t] # "unborn"
    BY DEF Unborn
  <2>3. pc[u] = "done" /\ Past(u) \subseteq before'[t]
    BY <1>3, <2>2 DEF Shape, StartsAfter, Waits
  <2>4. before'[u] = before[u] /\ ptr'[u] = ptr[u]
    BY <2>1, <2>3 DEF Shape, DoneStays
  <2>5. Past(u)' = Past(u)
    BY <2>1, <2>4 DEF IDStep, Segment, Past
  <2> QED
    BY <2>1, <2>3, <2>5 DEF Waits, Past
<1> QED
  BY <1>1, <1>2, <1>3 DEF OrderGrows

\* An unborn task stays what it is, until it is created or begins.
LEMMA StepUnborn ==
  ASSUME Unborn, Shape
  PROVE  Unborn'
BY DEF Unborn, Shape, StillUnborn, Known

\* Each ID that was announced belongs to a task, which had it or has it.
Owners(o) ==
  /\ o \in [TaskIDs -> Tasks \cup {NoTask}]
  /\ \A t \in Tasks : Known(t) => o[ID(t)] = t /\ ID(t) < taskIDSeed
  /\ \A n \in TaskIDs : n < taskIDSeed => o[n] \in Tasks /\ n \in Past(o[n])

\* The owners after a step: only a new ID gets an owner.
Extends(o, w) ==
  /\ w \in [TaskIDs -> Tasks \cup {NoTask}]
  /\ \A n \in TaskIDs : n < taskIDSeed => w[n] = o[n]

\* A step gives the new ID, if there is one, to the task that gets it.
LEMMA StepOwners ==
  ASSUME FrameInv, Unborn, [Next]_vars, NEW o, Owners(o)
  PROVE  \E w : Extends(o, w) /\ Owners(w)'
<1> USE DEF FrameInv, INSTyped
<1>1. IDStep /\ OrderGrows /\ (taskIDSeed' = taskIDSeed \/ Creates)
  BY StepShape, StepIDs, StepGrows
<1>2. CASE taskIDSeed' = taskIDSeed
  <2>1. \A t \in Tasks : Known(t)' => Known(t) /\ ID(t)' = ID(t)
    BY <1>1, <1>2 DEF IDStep
  <2>2. Extends(o, o)
    BY DEF Extends, Owners
  <2>3. Owners(o)'
    BY <1>1, <1>2, <2>1 DEF Owners, OrderGrows
  <2> QED
    BY <2>2, <2>3
<1>3. CASE Creates
  <2>1. PICK t \in Tasks : createNewTaskMetadata(t)
    BY <1>3 DEF Creates
  <2>2. /\ ptr'[t] # ptr[t] /\ \A s \in Tasks : s # t => ptr'[s] = ptr[s]
        /\ taskIDSeed \in TaskIDs /\ taskIDSeed' = taskIDSeed + 1 /\ taskIDSeed \in Nat
    BY <2>1, NewAddress DEF createNewTaskMetadata
  <2>3. PICK w : w = [o EXCEPT ![taskIDSeed] = t]
    OBVIOUS
  <2>4. /\ w \in [TaskIDs -> Tasks \cup {NoTask}] /\ w[taskIDSeed] = t
        /\ \A n \in TaskIDs : n # taskIDSeed => w[n] = o[n]
    BY <2>2, <2>3 DEF Owners
  <2>5. Extends(o, w)
    <3>1. \A n \in TaskIDs : n < taskIDSeed => n # taskIDSeed
      BY <2>2
    <3> QED
      BY <2>4, <3>1 DEF Extends
  <2>6. /\ Known(t)' /\ ID(t)' = taskIDSeed
        /\ \A s \in Tasks : s # t /\ Known(s)' => Known(s) /\ ID(s)' = ID(s)
    BY <1>1, <2>2 DEF IDStep
  <2>7. \A s \in Tasks : Known(s)' => w[ID(s)'] = s /\ ID(s)' < taskIDSeed'
    <3> SUFFICES ASSUME NEW s \in Tasks, Known(s)'
                 PROVE  w[ID(s)'] = s /\ ID(s)' < taskIDSeed'
      OBVIOUS
    <3>1. CASE s = t
      BY <2>2, <2>4, <2>6, <3>1
    <3>2. CASE s # t
      <4>1. Known(s) /\ ID(s)' = ID(s) /\ ID(s) \in TaskIDs /\ ID(s) \in Nat
        BY <2>6, <3>2, KnownID
      <4>2. o[ID(s)] = s /\ ID(s) < taskIDSeed
        BY <4>1 DEF Owners
      <4> QED
        BY <2>2, <2>4, <4>1, <4>2
    <3> QED
      BY <3>1, <3>2
  <2>8. \A n \in TaskIDs : n < taskIDSeed' => w[n] \in Tasks /\ n \in Past(w[n])'
    <3> SUFFICES ASSUME NEW n \in TaskIDs, n < taskIDSeed'
                 PROVE  w[n] \in Tasks /\ n \in Past(w[n])'
      OBVIOUS
    <3>1. CASE n = taskIDSeed
      <4>1. w[n] = t /\ n \in Past(t)'
        BY <2>4, <2>6, <3>1 DEF Past, Segment
      <4> QED
        BY <4>1
    <3>2. CASE n # taskIDSeed
      <4>1. n < taskIDSeed /\ w[n] = o[n]
        BY <2>2, <2>4, <3>2
      <4>2. o[n] \in Tasks /\ n \in Past(o[n])
        BY <4>1 DEF Owners
      <4> QED
        BY <1>1, <4>1, <4>2 DEF OrderGrows
    <3> QED
      BY <3>1, <3>2
  <2>9. Owners(w)'
    BY <2>4, <2>7, <2>8 DEF Owners
  <2> QED
    BY <2>5, <2>9
<1> QED
  BY <1>1, <1>2, <1>3

\* The children a task is handed down: those it had, and at the end of a segment its
\* own ID and those of its children.
HandsDown ==
  \A t \in Tasks : Known(t)' =>
    info'[ptr'[t]].childrenIDs
      \subseteq (IF Known(t) THEN info[ptr[t]].childrenIDs ELSE {})
                \cup (IF pc'[t] = "rename" THEN Family(t) ELSE {})

\* Every step hands down no more.
LEMMA StepHandsDown ==
  ASSUME FrameInv, [Next]_vars
  PROVE  HandsDown
<1> USE DEF FrameInv
<1>1. CASE Creates
  <2>1. PICK t \in Tasks : createNewTaskMetadata(t)
    BY <1>1 DEF Creates
  <2> DEFINE C == IF ptr[t] = NoInfo THEN {} ELSE info[ptr[t]].childrenIDs
  <2>2. PICK i \in Free :
          /\ ptr' = [ptr EXCEPT ![t] = i]
          /\ info' = [info EXCEPT ![i] = [taskID |-> taskIDSeed, active |-> TRUE,
                                          childrenIDs |-> C]]
    BY <2>1 DEF createNewTaskMetadata
  <2>3. i \in Infos /\ i \notin live
    BY DEF Free, InfoTyped, INSTyped
  <2>4. info'[i].childrenIDs = C /\ ptr'[t] = i
    BY <2>2, <2>3 DEF InfoTyped
  <2>5. \A s \in Tasks : s # t =>
          ptr'[s] = ptr[s] /\ (Known(s) => info'[ptr[s]] = info[ptr[s]])
    BY <2>2, <2>3, KnownID DEF InfoTyped
  <2> QED
    BY <2>4, <2>5 DEF HandsDown, Known
<1>2. CASE Sends
  BY <1>2 DEF Sends, HandsDown, Known
<1>3. ASSUME ptr' = ptr, HandsOver
      PROVE  HandsDown
  BY <1>3 DEF HandsOver, HandsDown, Known
<1>4. CASE Receives
  BY <1>3, <1>4 DEF Receives
<1>5. CASE Saves
  <2>1. PICK t \in Tasks : Known(t) /\ saveChildHBs(t) /\ ptr' = ptr
    BY <1>5 DEF Saves
  <2>2. info' = [info EXCEPT ![ptr[t]].childrenIDs = {}]
    BY <2>1 DEF saveChildHBs
  <2>3. \A s \in Tasks : Known(s) =>
          info'[ptr[s]].childrenIDs \subseteq info[ptr[s]].childrenIDs
    BY <2>1, <2>2, KnownID DEF InfoTyped
  <2> QED
    BY <2>1, <2>3 DEF HandsDown, Known
<1>6. CASE Quiet
  BY <1>3, <1>6 DEF Quiet
<1> QED
  BY <1>1, <1>2, <1>4, <1>5, <1>6, StepKinds

-----------------------------------------------------------------------------
(* What a callback in progress knows of the program.                       *)

\* Two lists of dependences name a variable that one of them writes.
Clash(ds, es) ==
  \E i \in DOMAIN ds, k \in DOMAIN es :
    ds[i].addr = es[k].addr /\ (ds[i].type # "in" \/ es[k].type # "in")

\* The new task of a callback waits for its siblings that it clashes with; ...
WaitsForSiblings ==
  \A p, c \in Tasks : frame[p].child = c =>
    \A u \in Tasks : parent[u] = p /\ u # c /\ Clash(depsOf[c], depsOf[u]) => u \in preds[c]

\* ... the dependences that the callback has left are its own; ...
DepsLeft == \A p, c \in Tasks : frame[p].child = c => Weaker(frame[p].deps, depsOf[c])

\* ... and it comes after what its creator has done so far.
ComesAfterCreator ==
  \A p, c \in Tasks : frame[p].child = c /\ pc[p] \in {"send", "receive"} =>
    Past(p) \subseteq before[c] /\ ID(p) < ID(c)

\* A task is born while the callback that creates it is in progress.
BornInCallback ==
  \A t \in Tasks : pc[t] = "born" => parent[t] \in Tasks /\ frame[parent[t]].child = t

\* After a taskwait the children of the task are over.
ChildrenOver ==
  \A p \in Tasks : pc[p] \in {"rename", "adopt", "saveChildren"} /\ frame[p].child = NoTask =>
    \A c \in Tasks : parent[c] = p => pc[c] = "done" /\ Past(c) \subseteq before[p]

\* The IDs that a task keeps as its children's are theirs, or were its own.
ChildIDsOwned(o) ==
  \A p \in Tasks : Known(p) => \A n \in info[ptr[p]].childrenIDs :
    /\ n < taskIDSeed
    /\ o[n] = p \/ parent[o[n]] = p
    /\ pc[p] \in {"adopt", "saveChildren"} => n < ID(p)

CallbackInv(o) ==
  /\ WaitsForSiblings /\ DepsLeft /\ ComesAfterCreator /\ BornInCallback
  /\ ChildrenOver /\ ChildIDsOwned(o)

\* Nothing is known of the program at first.
LEMMA InitCallbackInv ==
  ASSUME Init, NEW o
  PROVE  CallbackInv(o)
<1>1. /\ \A t \in Tasks : pc[t] \in {"run", "unborn"} /\ frame[t].child = NoTask /\ ~Known(t)
      /\ NoTask \notin Tasks
  BY DEF Init, Idle, Known
<1> QED
  BY <1>1 DEF CallbackInv, WaitsForSiblings, DepsLeft, ComesAfterCreator, BornInCallback,
     ChildrenOver, ChildIDsOwned

\* A new ID is above those that are in use.
LEMMA NewIDs ==
  ASSUME FrameInv, IDStep, NEW o, Owners(o)
  PROVE  \A t \in Tasks : Known(t)' =>
           \/ Known(t) /\ ID(t)' = ID(t) /\ ptr'[t] = ptr[t]
           \/ /\ ptr'[t] # ptr[t] /\ ID(t)' = taskIDSeed
              /\ \A s \in Tasks : Known(s) => ID(s) < ID(t)'
BY DEF IDStep, Owners

\* What is generated of a task stays.
LEMMA StepWaitsForSiblings ==
  ASSUME FrameInv, Unborn, Shape, WaitsForSiblings
  PROVE  WaitsForSiblings'
<1> SUFFICES ASSUME NEW p \in Tasks, NEW c \in Tasks, frame'[p].child = c,
                    NEW u \in Tasks, parent'[u] = p, u # c, Clash(depsOf'[c], depsOf'[u])
             PROVE  u \in preds'[c]
  BY DEF WaitsForSiblings
<1>1. parent[u] = p
  BY DEF Shape, NewParents, Generated
<1>2. depsOf'[u] = depsOf[u]
  BY <1>1 DEF Unborn, Shape, Settled
<1>3. CASE Generated(p, c)
  BY <1>1, <1>2, <1>3 DEF Generated, Predecessors, Clash
<1>4. CASE frame[p].child = c
  <2>1. pc[c] = "born"
    BY <1>4 DEF FrameInv, Framed
  <2>2. depsOf'[c] = depsOf[c] /\ preds'[c] = preds[c]
    BY <2>1 DEF Shape, Settled
  <2> QED
    BY <1>1, <1>2, <1>4, <2>2 DEF WaitsForSiblings
<1> QED
  BY <1>3, <1>4 DEF Shape, CallbackStep

\* The dependences that are left are some of the task's.
LEMMA StepDepsLeft ==
  ASSUME FrameInv, Shape, DepsLeft
  PROVE  DepsLeft'
<1> SUFFICES ASSUME NEW p \in Tasks, NEW c \in Tasks, frame'[p].child = c
             PROVE  Weaker(frame'[p].deps, depsOf'[c])
  BY DEF DepsLeft
<1>1. CASE \E d \in Tasks : Generated(p, d)
  <2>1. frame'[p].deps = depsOf'[c]
    BY <1>1 DEF Generated
  <2>2. \A ds : Weaker(ds, ds)
    BY DEF Weaker
  <2> QED
    BY <2>1, <2>2
<1>2. CASE ~\E d \in Tasks : Generated(p, d)
  <2>1. frame[p].child = c
    BY <1>2 DEF Shape, CallbackStep
  <2>2. pc[c] = "born"
    BY <2>1 DEF FrameInv, Framed
  <2>3. depsOf'[c] = depsOf[c] /\ Weaker(frame[p].deps, depsOf[c])
    BY <2>1, <2>2 DEF Shape, Settled, DepsLeft
  <2>4. frame'[p].deps = frame[p].deps \/ Weaker(frame'[p].deps, frame[p].deps)
    BY <1>2 DEF Shape, DepsStep
  <2>5. \A ds, es, fs : Weaker(fs, es) /\ Weaker(es, ds) => Weaker(fs, ds)
    BY DEF Weaker
  <2> QED
    BY <2>3, <2>4, <2>5
<1> QED
  BY <1>1, <1>2

\* The new task comes after its creator until the creator goes on.
LEMMA StepComesAfterCreator ==
  ASSUME FrameInv, Unborn, Shape, IDStep, NEW o, Owners(o), ComesAfterCreator
  PROVE  ComesAfterCreator'
<1> SUFFICES ASSUME NEW p \in Tasks, NEW c \in Tasks, frame'[p].child = c,
                    pc'[p] \in {"send", "receive"}
             PROVE  Past(p)' \subseteq before'[c] /\ ID(p)' < ID(c)'
  BY DEF ComesAfterCreator
<1>1. Goes(p)
  BY DEF Shape, CallbacksGo, CallbackPCs
<1>2. CASE pc[p] \in {"send", "receive"} /\ Stays(p)
  <2>1. frame[p].child = c /\ c \notin UntiedTasks /\ pc[c] = "born" /\ Known(c) /\ Known(p)
    BY <1>2 DEF Stays, FrameInv, Framed
  <2>2. Past(p) \subseteq before[c] /\ ID(p) < ID(c)
    BY <1>2, <2>1 DEF ComesAfterCreator
  <2>3. Known(p)' /\ ID(p)' = ID(p) /\ Past(p)' = Past(p)
    BY <1>2, <2>1 DEF Stays, IDStep, Past, Segment
  <2>4. before[c] \subseteq before'[c]
    BY DEF Shape, PastKept
  <2>5. ID(p) < ID(c)'
    BY <2>1, <2>2, NewIDs DEF IDStep
  <2> QED
    BY <2>2, <2>3, <2>4, <2>5
<1>3. CASE pc'[p] = "send" /\ Known(p) /\ \E d \in Tasks : Generated(p, d) /\ Known(d)'
  <2>1. Generated(p, c) /\ Known(c)'
    BY <1>3 DEF Generated
  <2>2. ptr'[p] = ptr[p] /\ before'[p] = before[p] /\ before'[c] = before[p] \cup Segment(p)
    BY <2>1 DEF Generated
  <2>3. ID(p)' = ID(p) /\ Past(p)' = Past(p)
    BY <1>3, <2>2 DEF IDStep, Past, Segment
  <2>4. ~Known(c)
    BY <2>1 DEF Generated, Unborn
  <2>5. ID(p) < ID(c)'
    BY <1>3, <2>1, <2>4, NewIDs
  <2> QED
    BY <2>2, <2>3, <2>5 DEF Past
<1> QED
  BY <1>1, <1>2, <1>3 DEF Goes

\* The creator keeps hold of the new task.
LEMMA StepBornInCallback ==
  ASSUME FrameInv, Shape, BornInCallback
  PROVE  BornInCallback'
<1> SUFFICES ASSUME NEW t \in Tasks, pc'[t] = "born"
             PROVE  parent'[t] \in Tasks /\ frame'[parent'[t]].child = t
  BY DEF BornInCallback
<1>1. CASE pc[t] = "born"
  <2>1. parent[t] \in Tasks /\ frame[parent[t]].child = t /\ parent'[t] = parent[t]
    BY <1>1 DEF BornInCallback, Shape, Settled
  <2> QED
    BY <2>1 DEF Shape, KeepsChild
<1>2. CASE \E p \in Tasks : Generated(p, t)
  BY <1>2 DEF Generated
<1> QED
  BY <1>1, <1>2 DEF Shape, BornByCreation

\* The children that are waited for stay over.
LEMMA StepChildrenOver ==
  ASSUME FrameInv, Shape, IDStep, ChildrenOver
  PROVE  ChildrenOver'
<1> SUFFICES ASSUME NEW p \in Tasks, pc'[p] \in {"rename", "adopt", "saveChildren"},
                    frame'[p].child = NoTask, NEW c \in Tasks, parent'[c] = p
             PROVE  pc'[c] = "done" /\ Past(c)' \subseteq before'[p]
  BY DEF ChildrenOver
<1>1. Goes(p)
  BY DEF Shape, CallbacksGo, CallbackPCs
<1>2. pc[c] = "done" /\ Past(c) \subseteq before'[p] =>
        pc'[c] = "done" /\ Past(c)' \subseteq before'[p]
  BY DEF Shape, DoneStays, IDStep, Past, Segment
<1>3. before[p] \subseteq before'[p]
  BY DEF Shape, PastKept
<1>4. CASE pc[p] \in {"rename", "adopt", "saveChildren"} /\ frame'[p] = frame[p]
  <2>1. parent[c] = p
    BY <1>4 DEF Shape, NewParents, Generated
  <2>2. pc[c] = "done" /\ Past(c) \subseteq before[p]
    BY <1>4, <2>1 DEF ChildrenOver
  <2> QED
    BY <1>2, <1>3, <2>2
<1>5. CASE \A d \in Tasks : parent'[d] = p => pc[d] = "done" /\ Past(d) \subseteq before'[p]
  BY <1>2, <1>5
<1>6. pc[p] = "receive" => frame[p].child # NoTask
  BY DEF FrameInv, Framed
<1> QED
  BY <1>1, <1>4, <1>5, <1>6 DEF Goes, Stays

\* The children's IDs are handed down within the family.
LEMMA StepChildIDsOwned ==
  ASSUME FrameInv, Unborn, Shape, IDStep, HandsDown,
         taskIDSeed' = taskIDSeed \/ taskIDSeed' = taskIDSeed + 1,
         NEW o, Owners(o), NEW w, Extends(o, w), ChildIDsOwned(o)
  PROVE  ChildIDsOwned(w)'
<1> SUFFICES ASSUME NEW p \in Tasks, Known(p)', NEW n \in info'[ptr'[p]].childrenIDs
             PROVE  /\ n < taskIDSeed'
                    /\ w[n] = p \/ parent'[w[n]] = p
                    /\ pc'[p] \in {"adopt", "saveChildren"} => n < ID(p)'
  BY DEF ChildIDsOwned
<1>0. taskIDSeed \in Nat
  BY DEF FrameInv, INSTyped
<1>1. ASSUME n \in TaskIDs, n < taskIDSeed, o[n] = p \/ parent[o[n]] = p
      PROVE  n < taskIDSeed' /\ (w[n] = p \/ parent'[w[n]] = p)
  <2>1. w[n] = o[n] /\ o[n] \in Tasks
    BY <1>1 DEF Extends, Owners
  <2>2. parent[o[n]] = p => parent'[o[n]] = p
    BY <2>1 DEF Unborn, Shape, Settled
  <2>3. n < taskIDSeed'
    BY <1>0, <1>1
  <2> QED
    BY <1>1, <2>1, <2>2, <2>3
<1>2. CASE Known(p) /\ n \in info[ptr[p]].childrenIDs
  <2>1. /\ n \in TaskIDs /\ n < taskIDSeed /\ (o[n] = p \/ parent[o[n]] = p)
        /\ pc[p] \in {"adopt", "saveChildren"} => n < ID(p)
    BY <1>2, KnownID DEF ChildIDsOwned, FrameInv
  <2>2. pc'[p] \in {"adopt", "saveChildren"} => n < ID(p)'
    BY <1>2, <2>1 DEF Shape, OpensNew, IDStep
  <2> QED
    BY <1>1, <2>1, <2>2
<1>3. CASE n \in Family(p) /\ pc'[p] = "rename"
  <2>1. PICK u \in Tasks : Known(u) /\ (u = p \/ parent[u] = p) /\ n = ID(u)
    BY <1>3 DEF Family
  <2>2. n \in TaskIDs /\ n < taskIDSeed /\ o[n] = u
    BY <2>1, KnownID DEF Owners, FrameInv
  <2> QED
    BY <1>1, <1>3, <2>1, <2>2
<1> QED
  BY <1>2, <1>3 DEF HandsDown

\* What the callbacks know stays true.
LEMMA NextCallbackInv ==
  ASSUME FrameInv, Unborn, Shape, IDStep, HandsDown,
         taskIDSeed' = taskIDSeed \/ taskIDSeed' = taskIDSeed + 1,
         NEW o, Owners(o), NEW w, Extends(o, w), CallbackInv(o)
  PROVE  CallbackInv(w)'
BY StepWaitsForSiblings, StepDepsLeft, StepComesAfterCreator, StepBornInCallback,
   StepChildrenOver, StepChildIDsOwned DEF CallbackInv

-----------------------------------------------------------------------------
(* Tokens.                                                                 *)

\* The steps that move a token or give the checker an edge.
Calls(p) == SendToChild(p) \/ ChildReceives(p) \/ Adopt(p) \/ Depend(p) \/ SaveChildren(p)

\* Other steps leave tokens and edges alone, or give a task a new TaskInfo.
LEMMA StepCalls ==
  ASSUME [Next]_vars
  PROVE  \/ UNCHANGED <<idMap, edges, HB>> \/ Creates \/ \E p \in Tasks : Calls(p)
<1>1. ASSUME NEW t \in Tasks, NEW c \in Tasks,
             TaskCreate(t, c) \/ TaskCreateUntied(t, c) \/ TaskCreateByUnknown(t, c)
      PROVE  UNCHANGED <<idMap, edges, HB>> \/ Creates
  BY <1>1 DEF TaskCreate, TaskCreateUntied, TaskCreateByUnknown, Creates, checkerVars,
     graphVars, insVars
<1>2. ASSUME NEW t \in Tasks, Rename(t) \/ TaskSchedule(t)
      PROVE  UNCHANGED <<idMap, edges, HB>> \/ Creates
  BY <1>2 DEF Rename, TaskSchedule, Creates, graphVars, insVars
<1>3. ASSUME NEW t \in Tasks,
             \/ DependOfUnknown(t) \/ Created(t) \/ Access(t) \/ Finish(t) \/ TaskwaitEnd(t)
             \/ TaskwaitOfUnknown(t) \/ TaskgroupEnd(t) \/ ImplicitEnd(t)
      PROVE  UNCHANGED <<idMap, edges, HB>>
  BY <1>3 DEF DependOfUnknown, Created, Access, Finish, TaskwaitEnd, TaskwaitOfUnknown,
     TaskgroupEnd, ImplicitEnd, checkerVars, graphVars, insVars
<1>4. ASSUME NEW k \in DOMAIN Regions, NEW t \in Regions[k], ImplicitBegin(t, k)
      PROVE  Creates
  BY <1>4 DEF ImplicitBegin, Creates
<1>5. ASSUME NEW k \in DOMAIN Regions, Barrier(k) \/ Join(k)
      PROVE  UNCHANGED <<idMap, edges, HB>>
  BY <1>5 DEF Barrier, Join, checkerVars, insVars
<1>6. CASE Next
  BY <1>1, <1>2, <1>3, <1>4, <1>5, <1>6 DEF Next, Calls
<1>7. CASE UNCHANGED vars
  BY <1>7 DEF vars, checkerVars, insVars
<1> QED
  BY <1>6, <1>7

\* The token at the address of a TaskInfo is the ID of a task that creates tasks, which had
\* a TaskInfo there; ...
InfoTokens(o) ==
  \A k \in Infos : idMap[k] # NoID =>
    idMap[k] < taskIDSeed /\ o[idMap[k]] \in Producers /\ (~Reuse => k < taskIDSeed)

SendersCreate == \A p \in Tasks : pc[p] = "send" => p \in Producers

\* ... those that a task may receive when it goes on, or its new child, are its own; ...
SentBy(o, p, k) == idMap[k] # NoID => o[idMap[k]] = p /\ idMap[k] <= ID(p)

ReceivesOwn(o) ==
  \A p \in Tasks :
    /\ Known(p) /\ (p \in Receivers \/ pc[p] \in {"receive", "rename"}) => SentBy(o, p, ptr[p])
    /\ pc[p] = "adopt" => SentBy(o, p, frame[p].old)

\* ... that of a variable is of a task that writes it, which sent it while it was
\* created, before any younger sibling was.
TokenFrom(o, a) ==
  LET n == idMap[a]
      u == o[n]
  IN  n # NoID =>
        /\ n < taskIDSeed
        /\ \E k \in DOMAIN depsOf[u] : depsOf[u][k].addr = a /\ depsOf[u][k].type # "in"
        /\ Known(u) /\ ID(u) = n => pc[u] \notin {"adopt", "saveChildren"}
        /\ pc[u] = "born" => Known(u) /\ ID(u) = n
        /\ \A p, c \in Tasks :
             frame[p].child = c /\ Known(c) /\ parent[u] = p /\ ID(c) # n => n < ID(c)

TokenInv(o) == /\ InfoTokens(o) /\ SendersCreate /\ ReceivesOwn(o)
               /\ \A a \in DepAddrs : TokenFrom(o, a)

\* There is no token at first.
LEMMA InitTokenInv ==
  ASSUME Init, NEW o
  PROVE  TokenInv(o)
<1>1. /\ \A k \in Keys : idMap[k] = NoID
      /\ \A p \in Tasks : pc[p] \in {"run", "unborn"} /\ ~Known(p)
  BY DEF Init, Known
<1> QED
  BY <1>1 DEF TokenInv, InfoTokens, SendersCreate, ReceivesOwn, TokenFrom, Keys

\* A creator puts its ID at the address of its TaskInfo; nobody else puts one there.
InfoTokenStep ==
  /\ \A k \in Infos : \/ idMap'[k] = idMap[k]
                      \/ \E p \in Tasks : /\ pc[p] = "send" /\ Known(p)
                                          /\ k = ptr[p] /\ idMap'[k] = ID(p)
  /\ \A p \in Tasks : pc[p] = "send" /\ pc'[p] = "receive" => idMap'[ptr[p]] = ID(p)

\* The tokens at the addresses of TaskInfos go on to be of creators.
LEMMA StepInfoTokens ==
  ASSUME FrameInv, taskIDSeed' = taskIDSeed \/ taskIDSeed' = taskIDSeed + 1,
         NEW o, Owners(o), NEW w, Extends(o, w), InfoTokenStep,
         InfoTokens(o), SendersCreate
  PROVE  InfoTokens(w)'
<1> SUFFICES ASSUME NEW k \in Infos, idMap'[k] # NoID
             PROVE  /\ idMap'[k] < taskIDSeed' /\ w[idMap'[k]] \in Producers
                    /\ (~Reuse => k < taskIDSeed')
  BY DEF InfoTokens
<1> PICK n : n = idMap'[k]
  OBVIOUS
<1>1. taskIDSeed \in Nat /\ (~Reuse => k \in Nat)
  BY DEF FrameInv, INSTyped
<1>2. n \in TaskIDs /\ n < taskIDSeed /\ o[n] \in Producers /\ (~Reuse => k < taskIDSeed)
  <2>1. CASE idMap'[k] = idMap[k]
    BY <2>1 DEF InfoTokens, FrameInv, INSTyped, Keys
  <2>2. CASE \E p \in Tasks : pc[p] = "send" /\ Known(p) /\ k = ptr[p] /\ idMap'[k] = ID(p)
    <3> PICK p \in Tasks : pc[p] = "send" /\ Known(p) /\ k = ptr[p] /\ n = ID(p)
      BY <2>2
    <3>1. n \in TaskIDs /\ n < taskIDSeed /\ o[n] = p
      BY KnownID DEF Owners, FrameInv
    <3>2. p \in Producers /\ (~Reuse => k < taskIDSeed)
      BY DEF SendersCreate, FrameInv, InfoTyped, Known
    <3> QED
      BY <3>1, <3>2
  <2> QED
    BY <2>1, <2>2 DEF InfoTokenStep
<1>3. w[n] = o[n] /\ n \in Nat
  BY <1>2 DEF Extends
<1> QED
  BY <1>1, <1>2, <1>3

\* Tasks that send tokens go on to be creators.
LEMMA StepSendersCreate ==
  ASSUME Shape, SendersCreate
  PROVE  SendersCreate'
BY DEF Shape, CallbacksGo, CallbackPCs, Goes, SendersCreate

\* A task goes on to receive none but its own tokens.
LEMMA StepReceivesOwn ==
  ASSUME OwnTokens, FrameInv, Shape, IDStep,
         NEW o, Owners(o), NEW w, Extends(o, w), InfoTokenStep,
         InfoTokens(o), ReceivesOwn(o)
  PROVE  ReceivesOwn(w)'
<1>0. taskIDSeed \in Nat /\ idMap \in [Keys -> TaskIDs \cup {NoID}] /\ Infos \subseteq Keys
  BY DEF FrameInv, INSTyped, Keys
<1>1. ASSUME NEW p \in Tasks, Known(p), NEW k \in Infos, SentBy(o, p, k),
             idMap'[k] = idMap[k], ptr'[p] = ptr[p] \/ ID(p)' = taskIDSeed
      PROVE  SentBy(w, p, k)'
  <2> SUFFICES ASSUME idMap[k] # NoID
               PROVE  w[idMap[k]] = p /\ idMap[k] <= ID(p)'
    BY <1>1 DEF SentBy
  <2> PICK n : n = idMap[k]
    OBVIOUS
  <2>1. n \in TaskIDs /\ n < taskIDSeed /\ o[n] = p /\ n <= ID(p)
    BY <1>0, <1>1 DEF SentBy, InfoTokens
  <2>2. w[n] = o[n] /\ n \in Nat
    BY <2>1 DEF Extends
  <2>3. n <= ID(p)'
    BY <1>0, <1>1, <2>1, <2>2 DEF IDStep
  <2> QED
    BY <2>1, <2>2, <2>3
<1>2. ASSUME NEW p \in Tasks, Known(p)', p \in Receivers \/ pc'[p] \in {"receive", "rename"}
      PROVE  SentBy(w, p, ptr[p])'
  <2>1. pc'[p] \in {"receive", "rename"} => Goes(p)
    BY DEF Shape, CallbacksGo, CallbackPCs
  <2>2. CASE ptr'[p] = ptr[p]
    <3>1. Known(p) /\ ID(p)' = ID(p) /\ ptr[p] \in Infos
      BY <1>2, <2>2, KnownID DEF IDStep, FrameInv
    <3>2. CASE idMap'[ptr[p]] = ID(p)
      <4>1. w[ID(p)] = p /\ ID(p) \in Nat
        BY <3>1, KnownID DEF Owners, Extends, FrameInv
      <4> QED
        BY <2>2, <3>1, <3>2, <4>1 DEF SentBy
    <3>3. CASE idMap'[ptr[p]] # ID(p)
      <4>1. idMap'[ptr[p]] = idMap[ptr[p]]
        <5>1. \A q \in Tasks : ptr[q] = ptr[p] => q = p
          BY <3>1 DEF FrameInv, InfoTyped, Known
        <5> QED
          BY <3>1, <3>3, <5>1 DEF InfoTokenStep
      <4>2. p \in Receivers \/ pc[p] \in {"receive", "rename"}
        BY <1>2, <2>1, <3>3 DEF Goes, InfoTokenStep
      <4>3. SentBy(o, p, ptr[p])
        BY <3>1, <4>2 DEF ReceivesOwn
      <4> PICK k : k = ptr[p]
        OBVIOUS
      <4>4. SentBy(w, p, k)'
        BY <1>1, <2>2, <3>1, <4>1, <4>3
      <4> QED
        BY <2>2, <4>4 DEF SentBy
    <3> QED
      BY <3>2, <3>3
  <2>3. CASE ptr'[p] # ptr[p]
    <3>1. p \in Receivers
      BY <1>2, <2>1, <2>3 DEF Goes, Stays
    <3>2. /\ createNewTaskMetadata(p) /\ ID(p)' = taskIDSeed
          /\ (~Reuse => ptr'[p] = taskIDSeed)
      BY <2>3 DEF IDStep
    <3>3. idMap' = idMap /\ ptr'[p] \in Infos
      BY <3>2 DEF createNewTaskMetadata, Free, FrameInv, InfoTyped
    <3> PICK k, n : k = ptr'[p] /\ n = idMap[k]
      OBVIOUS
    <3>4. ASSUME n # NoID
          PROVE  w[n] = p /\ n <= taskIDSeed
      <4>1. n \in TaskIDs /\ n < taskIDSeed /\ o[n] \in Producers /\ (~Reuse => k < taskIDSeed)
        BY <1>0, <3>3, <3>4 DEF InfoTokens
      <4>2. Reuse
        BY <1>0, <3>2, <4>1
      <4>3. o[n] = p
        BY <3>1, <4>1, <4>2 DEF OwnTokens
      <4>4. w[n] = o[n] /\ n \in Nat
        BY <4>1 DEF Extends
      <4> QED
        BY <1>0, <4>1, <4>3, <4>4
    <3> QED
      BY <3>2, <3>3, <3>4 DEF SentBy
  <2> QED
    BY <2>2, <2>3
<1>3. ASSUME NEW p \in Tasks, pc'[p] = "adopt"
      PROVE  SentBy(w, p, frame[p].old)'
  <2>1. Goes(p)
    BY <1>3 DEF Shape, CallbacksGo, CallbackPCs
  <2>2. CASE pc[p] = "adopt" /\ Stays(p)
    <3>1. /\ Known(p) /\ frame[p].old \in Infos /\ \A t \in Tasks : ptr[t] # frame[p].old
          /\ SentBy(o, p, frame[p].old)
      BY <2>2 DEF FrameInv, Framed, InfoTyped, ReceivesOwn
    <3>2. idMap'[frame[p].old] = idMap[frame[p].old]
      BY <3>1 DEF InfoTokenStep
    <3> PICK k : k = frame[p].old
      OBVIOUS
    <3>3. SentBy(w, p, k)'
      BY <1>1, <2>2, <3>1, <3>2 DEF Stays
    <3> QED
      BY <2>2, <3>3 DEF Stays, SentBy
  <2>3. CASE pc[p] = "rename" /\ frame'[p] = frame[p] /\ ptr'[p] # ptr[p]
    <3>1. Known(p) /\ frame[p].old = ptr[p] /\ ptr[p] \in Infos /\ SentBy(o, p, ptr[p])
      BY <2>3, KnownID DEF FrameInv, Framed, ReceivesOwn
    <3>2. createNewTaskMetadata(p) /\ ID(p)' = taskIDSeed
      BY <2>3 DEF IDStep
    <3>3. idMap' = idMap
      BY <3>2 DEF createNewTaskMetadata
    <3> PICK k : k = ptr[p]
      OBVIOUS
    <3>4. SentBy(w, p, k)'
      BY <1>1, <3>1, <3>2, <3>3
    <3> QED
      BY <2>3, <3>1, <3>4 DEF SentBy
  <2> QED
    BY <1>3, <2>1, <2>2, <2>3 DEF Goes
<1> QED
  BY <1>2, <1>3 DEF ReceivesOwn

\* A token that is not sent again is what it was.
LEMMA TokenStays ==
  ASSUME FrameInv, Unborn, Shape, IDStep,
         taskIDSeed' = taskIDSeed \/ taskIDSeed' = taskIDSeed + 1,
         NEW o, Owners(o), NEW w, Extends(o, w),
         NEW a \in DepAddrs, TokenFrom(o, a), idMap'[a] = idMap[a]
  PROVE  TokenFrom(w, a)'
<1> PICK n, u : n = idMap[a] /\ n = idMap'[a] /\ u = o[n]
  OBVIOUS
<1>1. CASE n = NoID
  BY <1>1 DEF TokenFrom
<1>2. CASE n # NoID
  <2>1. /\ n \in TaskIDs /\ n < taskIDSeed
        /\ \E k \in DOMAIN depsOf[u] : depsOf[u][k].addr = a /\ depsOf[u][k].type # "in"
        /\ Known(u) /\ ID(u) = n => pc[u] \notin {"adopt", "saveChildren"}
        /\ pc[u] = "born" => Known(u) /\ ID(u) = n
        /\ \A p, c \in Tasks :
             frame[p].child = c /\ Known(c) /\ parent[u] = p /\ ID(c) # n => n < ID(c)
    BY <1>2 DEF TokenFrom, FrameInv, INSTyped, Keys
  <2>2. u \in Tasks /\ n \in Past(u) /\ w[n] = u /\ taskIDSeed \in Nat /\ n \in Nat
    BY <2>1 DEF Owners, Extends, FrameInv, INSTyped
  <2>3. pc[u] # "unborn"
    BY <2>2 DEF Unborn, Past, Segment
  <2>4. depsOf'[u] = depsOf[u] /\ parent'[u] = parent[u]
    BY <2>2, <2>3 DEF Shape, Settled
  <2>5. Known(u)' /\ ID(u)' = n => pc'[u] \notin {"adopt", "saveChildren"}
    BY <2>1, <2>2 DEF Shape, OpensNew, IDStep
  <2>6. pc'[u] = "born" => Known(u)' /\ ID(u)' = n
    BY <2>1, <2>2, <2>3 DEF Shape, OpensNew, IDStep
  <2>7. ASSUME NEW p \in Tasks, NEW c \in Tasks, frame'[p].child = c, Known(c)',
               parent[u] = p, ID(c)' # n
        PROVE  n < ID(c)'
    <3>1. CASE ID(c)' = taskIDSeed
      BY <2>1, <3>1
    <3>2. CASE Known(c) /\ ID(c)' = ID(c) /\ ptr'[c] = ptr[c]
      <4>1. ~Generated(p, c)
        BY <3>2 DEF Unborn, Generated
      <4>2. frame[p].child = c
        BY <2>7, <4>1 DEF Shape, CallbackStep
      <4> QED
        BY <2>1, <2>7, <3>2, <4>2
    <3> QED
      BY <2>7, <3>1, <3>2, NewIDs
  <2>8. n < taskIDSeed'
    BY <2>1, <2>2
  <2>9. idMap'[a] = n /\ w[idMap'[a]] = u
    BY <2>2
  <2>10. \A p, c \in Tasks :
           frame'[p].child = c /\ Known(c)' /\ parent'[u] = p /\ ID(c)' # n => n < ID(c)'
    BY <2>4, <2>7
  <2>11. \E k \in DOMAIN depsOf'[u] : depsOf'[u][k].addr = a /\ depsOf'[u][k].type # "in"
    BY <2>1, <2>4
  <2> QED
    BY <2>5, <2>6, <2>8, <2>9, <2>10, <2>11 DEF TokenFrom
<1> QED
  BY <1>1, <1>2

\* The callback's next dependence is one of the new task's clauses.
LEMMA HeadOfDeps ==
  ASSUME FrameInv, DepsLeft, NEW p \in Tasks, Depend(p)
  PROVE  LET c == frame[p].child
             d == Head(frame[p].deps)
         IN  /\ c \in Tasks /\ pc[p] = "depend" /\ pc[c] = "born" /\ parent[c] = p
             /\ Known(c) /\ d \in AnyDep
             /\ \E k \in DOMAIN depsOf[c] : depsOf[c][k].addr = d.addr
                  /\ (d.type # "in" => depsOf[c][k].type # "in")
<1> DEFINE ds == frame[p].deps
           c  == frame[p].child
<1>1. /\ frame[p] \in AnyFrame /\ Framed(p) /\ pc[p] = "depend" /\ ds # << >> /\ Known(c)
  BY DEF Depend, FrameInv, ProgramTyped
<1>2. c \in Tasks /\ pc[c] = "born" /\ parent[c] = p /\ ds \in Seq(AnyDep)
  BY <1>1 DEF Framed, AnyFrame
<1>3. Head(ds) = ds[1] /\ 1 \in DOMAIN ds /\ Head(ds) \in AnyDep
  BY <1>1, <1>2, HeadTailProperties
<1>4. Weaker(ds, depsOf[c])
  BY <1>2 DEF DepsLeft
<1>5. \E k \in DOMAIN depsOf[c] :
        ds[1].addr = depsOf[c][k].addr /\ (ds[1].type # "in" => depsOf[c][k].type # "in")
  BY <1>3, <1>4 DEF Weaker
<1> QED
  BY <1>1, <1>2, <1>3, <1>5

\* The task that is created sends its token for a variable it writes.
LEMMA DependSends ==
  ASSUME FrameInv, Shape, IDStep, DepsLeft, NEW p \in Tasks, Depend(p),
         NEW o, Owners(o), NEW w, Extends(o, w), NEW a \in DepAddrs, idMap'[a] # idMap[a]
  PROVE  TokenFrom(w, a)'
<1> PICK c, d : c = frame[p].child /\ d = Head(frame[p].deps)
  OBVIOUS
<1>1. /\ c \in Tasks /\ pc[p] = "depend" /\ pc[c] = "born" /\ parent[c] = p
      /\ Known(c) /\ d \in AnyDep
      /\ \E k \in DOMAIN depsOf[c] : depsOf[c][k].addr = d.addr
           /\ (d.type # "in" => depsOf[c][k].type # "in")
  BY HeadOfDeps
<1>2. d.type = "out" /\ idMap' = [idMap EXCEPT ![d.addr] = ID(c)] /\ taskIDSeed' = taskIDSeed
  <2>1. (d.type = "out" /\ TaskSendTokenLog(ID(c), d.addr)) \/ idMap' = idMap
    BY DEF Depend, TaskReceiveTokenLog
  <2> QED
    BY <2>1 DEF TaskSendTokenLog
<1>3. a = d.addr /\ idMap'[a] = ID(c)
  BY <1>2 DEF FrameInv, INSTyped, Keys
<1>4. /\ UNCHANGED <<ptr, pc, depsOf, parent>>
  BY DEF Depend, infoVars, programVars
<1>5. ID(c) \in TaskIDs /\ ID(c) < taskIDSeed /\ o[ID(c)] = c
  BY <1>1, KnownID DEF Owners, FrameInv
<1>6. Known(c)' /\ ID(c)' = ID(c) /\ w[ID(c)] = c
  BY <1>1, <1>4, <1>5 DEF Known, IDStep, Extends
<1>7. ASSUME NEW q \in Tasks, NEW e \in Tasks, frame'[q].child = e, parent'[c] = q
      PROVE  e = c
  <2>1. q = p
    BY <1>1, <1>4, <1>7
  <2>2. ~Generated(p, e)
    BY <1>1 DEF Generated
  <2> QED
    BY <1>7, <2>1, <2>2 DEF Shape, CallbackStep
<1>8. PICK n : n = ID(c)
  OBVIOUS
<1>9. idMap'[a] = n /\ w[idMap'[a]] = c /\ ID(c)' = n
  BY <1>3, <1>6, <1>8
<1>10. \A q, e \in Tasks : frame'[q].child = e /\ Known(e)' /\ parent'[c] = q /\ ID(e)' # n
                            => n < ID(e)'
  BY <1>7, <1>9
<1>11. n < taskIDSeed' /\ pc'[c] = "born"
  BY <1>1, <1>2, <1>4, <1>5, <1>8
<1>12. \E k \in DOMAIN depsOf'[c] : depsOf'[c][k].addr = a /\ depsOf'[c][k].type # "in"
  <2>1. d.type # "in"
    BY <1>2
  <2>2. PICK k \in DOMAIN depsOf[c] :
          depsOf[c][k].addr = d.addr /\ (d.type # "in" => depsOf[c][k].type # "in")
    BY <1>1
  <2>3. depsOf[c][k].addr = a /\ depsOf[c][k].type # "in"
    BY <1>3, <2>1, <2>2
  <2> QED
    BY <1>4, <2>2, <2>3
<1> QED
  BY <1>6, <1>9, <1>10, <1>11, <1>12 DEF TokenFrom

\* A creator that goes on to let its child receive has sent its token.
LEMMA SendsToken ==
  ASSUME FrameInv, [Next]_vars, NEW p \in Tasks, pc[p] = "send", pc'[p] = "receive"
  PROVE  idMap'[ptr[p]] = ID(p)
<1>1. pc \in [Tasks -> PCs] /\ ptr[p] \in Keys /\ idMap \in [Keys -> TaskIDs \cup {NoID}]
  BY KnownID DEF FrameInv, ProgramTyped, INSTyped, Framed, Keys
<1>2. ASSUME NEW t \in Tasks, SendToChild(t)
      PROVE  idMap'[ptr[p]] = ID(p)
  <2>1. pc' = [pc EXCEPT ![t] = "receive"] /\ idMap' = [idMap EXCEPT ![ptr[t]] = ID(t)]
    BY <1>2 DEF SendToChild, TaskSendTokenLog
  <2> QED
    BY <1>1, <2>1
<1>3. ASSUME NEW t \in Tasks, NEW k, pc' = [pc EXCEPT ![t] = k], k # "receive"
      PROVE  FALSE
  BY <1>1, <1>3
<1>4. ASSUME NEW t \in Tasks, NEW c \in Tasks,
             TaskCreate(t, c) \/ TaskCreateUntied(t, c) \/ TaskCreateByUnknown(t, c)
      PROVE  FALSE
  <2>1. PICK k \in {"send", "rename", "crashed"} : pc' = [pc EXCEPT ![t] = k, ![c] = "born"]
    BY <1>4 DEF TaskCreate, TaskCreateUntied, TaskCreateByUnknown
  <2> QED
    BY <1>1, <2>1
<1>5. ASSUME NEW t \in Tasks, Created(t)
      PROVE  FALSE
  <2>1. pc' = [pc EXCEPT ![t] = "run", ![frame[t].child] = "created"]
    BY <1>5 DEF Created
  <2> QED
    BY <1>1, <2>1
<1>6. ASSUME NEW t \in Tasks,
             \/ ChildReceives(t) \/ Rename(t) \/ Adopt(t) \/ DependOfUnknown(t)
             \/ TaskSchedule(t) \/ Finish(t) \/ TaskwaitEnd(t) \/ TaskwaitOfUnknown(t)
             \/ SaveChildren(t) \/ ImplicitEnd(t)
      PROVE  FALSE
  <2>1. PICK k : k # "receive" /\ pc' = [pc EXCEPT ![t] = k]
    BY <1>6 DEF ChildReceives, Rename, Adopt, DependOfUnknown, TaskSchedule, Finish,
       TaskwaitEnd, TaskwaitOfUnknown, SaveChildren, ImplicitEnd
  <2> QED
    BY <1>3, <2>1
<1>7. ASSUME NEW k \in DOMAIN Regions, NEW t \in Regions[k], ImplicitBegin(t, k)
      PROVE  FALSE
  BY <1>1, <1>7 DEF ImplicitBegin
<1>8. ASSUME NEW k \in DOMAIN Regions, Join(k)
      PROVE  FALSE
  BY <1>1, <1>8 DEF Join
<1>9. pc' # pc
  OBVIOUS
<1>10. ASSUME NEW t \in Tasks, Depend(t) \/ Access(t) \/ TaskgroupEnd(t)
       PROVE  FALSE
  BY <1>9, <1>10 DEF Depend, Access, TaskgroupEnd
<1>11. ASSUME NEW k \in DOMAIN Regions, Barrier(k)
       PROVE  FALSE
  BY <1>9, <1>11 DEF Barrier
<1> QED
  BY <1>2, <1>4, <1>5, <1>6, <1>7, <1>8, <1>9, <1>10, <1>11 DEF Next, vars

\* How a step changes the tokens.
LEMMA StepTokens ==
  ASSUME OwnAddresses, FrameInv, Unborn, Shape, IDStep, DepsLeft, [Next]_vars,
         taskIDSeed' = taskIDSeed \/ taskIDSeed' = taskIDSeed + 1,
         \/ UNCHANGED <<idMap, edges, HB>> \/ Creates \/ \E p \in Tasks : Calls(p),
         NEW o, Owners(o), NEW w, Extends(o, w), \A a \in DepAddrs : TokenFrom(o, a)
  PROVE  InfoTokenStep /\ \A a \in DepAddrs : TokenFrom(w, a)'
<1>0. \A p \in Tasks : pc[p] = "send" /\ pc'[p] = "receive" => idMap'[ptr[p]] = ID(p)
  BY SendsToken DEF FrameInv
<1>1. ASSUME idMap' = idMap
      PROVE  InfoTokenStep /\ \A a \in DepAddrs : TokenFrom(w, a)'
  BY <1>0, <1>1, TokenStays DEF InfoTokenStep
<1>2. ASSUME NEW p \in Tasks, SendToChild(p)
      PROVE  InfoTokenStep /\ \A a \in DepAddrs : TokenFrom(w, a)'
  <2>1. pc[p] = "send" /\ Known(p) /\ idMap' = [idMap EXCEPT ![ptr[p]] = ID(p)]
    BY <1>2 DEF SendToChild, TaskSendTokenLog, FrameInv, Framed
  <2>2. ptr[p] \in Infos
    BY <2>1, KnownID DEF FrameInv
  <2>3. InfoTokenStep
    BY <1>0, <2>1, <2>2 DEF InfoTokenStep, FrameInv, INSTyped, Keys
  <2>4. \A a \in DepAddrs : idMap'[a] = idMap[a]
    BY <2>1, <2>2 DEF OwnAddresses, FrameInv, INSTyped, Keys
  <2> QED
    BY <2>3, <2>4, TokenStays
<1>3. ASSUME NEW p \in Tasks, Depend(p)
      PROVE  InfoTokenStep /\ \A a \in DepAddrs : TokenFrom(w, a)'
  <2> PICK c, d : c = frame[p].child /\ d = Head(frame[p].deps)
    OBVIOUS
  <2>1. idMap' = [idMap EXCEPT ![d.addr] = ID(c)] \/ idMap' = idMap
    BY <1>3 DEF Depend, TaskReceiveTokenLog, TaskSendTokenLog
  <2>2. d \in AnyDep
    BY <1>3, HeadOfDeps
  <2>3. d.addr \in DepAddrs
    BY <2>2 DEF AnyDep
  <2>4. \A k \in Infos : idMap'[k] = idMap[k]
    BY <2>1, <2>3 DEF OwnAddresses, FrameInv, INSTyped, Keys
  <2>5. \A a \in DepAddrs : TokenFrom(w, a)'
    BY <1>3, DependSends, TokenStays
  <2> QED
    BY <1>0, <2>4, <2>5 DEF InfoTokenStep
<1>4. Creates => idMap' = idMap
  BY DEF Creates, createNewTaskMetadata
<1>5. \A p \in Tasks : ChildReceives(p) \/ Adopt(p) \/ SaveChildren(p) => idMap' = idMap
  BY DEF ChildReceives, Adopt, SaveChildren, saveChildHBs, TaskReceiveTokenLog, insVars
<1> QED
  BY <1>1, <1>2, <1>3, <1>4, <1>5 DEF Calls

\* A step keeps what is known of the tokens.
LEMMA NextTokenInv ==
  ASSUME OwnAddresses, OwnTokens, FrameInv, Unborn, Shape, IDStep, [Next]_vars,
         taskIDSeed' = taskIDSeed \/ taskIDSeed' = taskIDSeed + 1,
         \/ UNCHANGED <<idMap, edges, HB>> \/ Creates \/ \E p \in Tasks : Calls(p),
         NEW o, Owners(o), NEW w, Extends(o, w), DepsLeft, TokenInv(o)
  PROVE  TokenInv(w)'
<1>1. InfoTokenStep /\ \A a \in DepAddrs : TokenFrom(w, a)'
  BY StepTokens DEF TokenInv
<1> QED
  BY <1>1, StepInfoTokens, StepSendersCreate, StepReceivesOwn DEF TokenInv

-----------------------------------------------------------------------------
(* The checker's graph.                                                    *)

\* An ID that may still get edges belongs to a task that has it.
Open(n) == \E t \in Tasks : Known(t) /\ pc[t] \in OpenPCs /\ ID(t) = n

\* Whatever is behind an edge precedes the owner of its head.
EdgesOwned(o) ==
  \A m, n \in TaskIDs : <<m, n>> \in edges =>
    /\ m < n /\ n < taskIDSeed
    /\ Precedes(m, o[n]) /\ \A x \in HB[m] : Precedes(x, o[n])

BagsOwned(o) ==
  \A n \in TaskIDs : \A x \in HB[n] : x < n /\ n < taskIDSeed /\ Precedes(x, o[n])

\* No bag is handed on before it is complete.
NoEdgeFromOpen == \A m, n \in TaskIDs : <<m, n>> \in edges => ~Open(m)

GraphInv(o) == EdgesOwned(o) /\ BagsOwned(o) /\ NoEdgeFromOpen

\* There are no edges at first.
LEMMA InitGraphInv ==
  ASSUME Init, NEW o
  PROVE  GraphInv(o)
<1>1. edges = {} /\ HB = [i \in TaskIDs |-> {}]
  BY DEF Init
<1> QED
  BY <1>1 DEF GraphInv, EdgesOwned, BagsOwned, NoEdgeFromOpen

\* An ID that is open was open before, or is new.
LEMMA OpenAgain ==
  ASSUME FrameInv, Unborn, Shape, IDStep, NEW m, Open(m)'
  PROVE  Open(m) \/ m = taskIDSeed
<1>1. PICK t \in Tasks : Known(t)' /\ pc'[t] \in OpenPCs /\ ID(t)' = m
  BY DEF Open
<1>2. CASE ptr'[t] # ptr[t]
  BY <1>1, <1>2 DEF IDStep
<1>3. CASE ptr'[t] = ptr[t]
  <2>1. Known(t) /\ ID(t) = m
    BY <1>1, <1>3 DEF IDStep
  <2>2. pc[t] \in OpenPCs
    BY <1>1, <1>3, <2>1 DEF Shape, OpensNew, OpenPCs, Unborn
  <2> QED
    BY <2>1, <2>2 DEF Open
<1> QED
  BY <1>2, <1>3

\* What precedes the owner of an ID goes on preceding it.
LEMMA OwnersFollow ==
  ASSUME OrderGrows, NEW o, Owners(o), NEW w, Extends(o, w),
         NEW n \in TaskIDs, n < taskIDSeed, NEW x, Precedes(x, o[n])
  PROVE  Precedes(x, w[n])'
<1>1. w[n] = o[n] /\ o[n] \in Tasks
  BY DEF Extends, Owners
<1>2. PICK t \in Tasks : t = o[n]
  BY <1>1
<1>3. Precedes(x, t)'
  BY <1>2, PrecedesStays
<1> QED
  BY <1>1, <1>2, <1>3

\* A step that leaves the graph alone.
LEMMA GraphStays ==
  ASSUME FrameInv, Unborn, Shape, IDStep, OrderGrows,
         taskIDSeed' = taskIDSeed \/ taskIDSeed' = taskIDSeed + 1,
         NEW o, Owners(o), NEW w, Extends(o, w), GraphInv(o), UNCHANGED <<edges, HB>>
  PROVE  GraphInv(w)'
<1>0. taskIDSeed \in Nat
  BY DEF FrameInv, INSTyped
<1>1. ASSUME NEW m \in TaskIDs, NEW n \in TaskIDs, <<m, n>> \in edges
      PROVE  /\ m < n /\ n < taskIDSeed' /\ ~Open(m)'
             /\ Precedes(m, w[n])' /\ \A x \in HB[m] : Precedes(x, w[n])'
  <2>1. m < n /\ n < taskIDSeed /\ ~Open(m)
        /\ Precedes(m, o[n]) /\ \A x \in HB[m] : Precedes(x, o[n])
    BY <1>1 DEF GraphInv, EdgesOwned, NoEdgeFromOpen
  <2>2. Precedes(m, w[n])' /\ \A x \in HB[m] : Precedes(x, w[n])'
    BY <2>1, OwnersFollow
  <2>3. m # taskIDSeed /\ n < taskIDSeed'
    <3>1. m \in Nat /\ n \in Nat
      OBVIOUS
    <3>2. m < n /\ n < taskIDSeed
      BY <2>1
    <3> QED
      BY <1>0, <3>1, <3>2
  <2> QED
    BY <2>1, <2>2, <2>3, OpenAgain
<1>2. ASSUME NEW n \in TaskIDs, NEW x \in HB[n]
      PROVE  x < n /\ n < taskIDSeed' /\ Precedes(x, w[n])'
  <2>1. x < n /\ n < taskIDSeed /\ Precedes(x, o[n])
    BY DEF GraphInv, BagsOwned
  <2>2. n < taskIDSeed'
    BY <1>0, <2>1
  <2> QED
    BY <2>1, <2>2, OwnersFollow
<1> QED
  BY <1>1, <1>2 DEF GraphInv, EdgesOwned, BagsOwned, NoEdgeFromOpen

\* A segment that is over for t may get an edge to t.
SoundEdge(o, m, t) ==
  m < ID(t) /\ ~Open(m) /\ \A x \in TaskIDs : Precedes(x, o[m]) => Precedes(x, t)

\* Edges from such segments keep the graph in the program's order.
LEMMA GraphOrders ==
  ASSUME FrameInv, Unborn, Shape, IDStep, OrderGrows, taskIDSeed' = taskIDSeed,
         NEW o, Owners(o), NEW w, Extends(o, w), GraphInv(o),
         NEW t \in Tasks, Known(t), pc[t] \in OpenPCs, NEW P \in SUBSET TaskIDs,
         Checker!saveHappensBeforeEdges(P, ID(t)), \A m \in P : SoundEdge(o, m, t)
  PROVE  GraphInv(w)'
<1> PICK i : i = ID(t)
  OBVIOUS
<1> PICK E : E = edges \cup (P \X {i})
  OBVIOUS
<1>1. i \in TaskIDs /\ i < taskIDSeed /\ o[i] = t /\ Open(i) /\ taskIDSeed \in Nat
  BY KnownID DEF Owners, FrameInv, INSTyped, Open
<1>2. edges' = E /\ HB' = [HB EXCEPT ![i] = Checker!InheritedHB(E, HB, i)]
  BY DEF Checker!saveHappensBeforeEdges
<1>3. HB \in [TaskIDs -> SUBSET TaskIDs] /\ HB'[i] = Checker!InheritedHB(E, HB, i)
  BY <1>1, <1>2 DEF FrameInv, INSTyped
<1>4. ASSUME NEW m \in TaskIDs, NEW n \in TaskIDs, <<m, n>> \in E
      PROVE  /\ m < n /\ n < taskIDSeed /\ ~Open(m)
             /\ Precedes(m, o[n]) /\ \A x \in HB[m] : Precedes(x, o[n])
  <2>1. CASE <<m, n>> \in edges
    BY <2>1 DEF GraphInv, EdgesOwned, NoEdgeFromOpen
  <2>2. CASE m \in P /\ n = i
    <3>1. m < i /\ ~Open(m) /\ \A x \in TaskIDs : Precedes(x, o[m]) => Precedes(x, t)
      BY <2>2 DEF SoundEdge
    <3>2. m < taskIDSeed
      <4>1. m \in Nat /\ i \in Nat
        BY <1>1
      <4> QED
        BY <1>1, <3>1, <4>1
    <3>3. o[m] \in Tasks /\ m \in Past(o[m])
      BY <3>2 DEF Owners
    <3>4. Precedes(m, o[m])
      BY <3>3, PastPrecedes
    <3>5. \A x \in HB[m] : x \in TaskIDs /\ Precedes(x, o[m])
      BY <1>3 DEF GraphInv, BagsOwned
    <3> QED
      BY <1>1, <2>2, <3>1, <3>4, <3>5
  <2> QED
    BY <1>4, <2>1, <2>2
<1>5. ASSUME NEW n \in TaskIDs, NEW x \in HB'[n]
      PROVE  x < n /\ n < taskIDSeed /\ Precedes(x, o[n])
  <2>1. CASE n # i
    <3>1. x \in HB[n]
      BY <1>2, <1>3, <2>1
    <3> QED
      BY <3>1 DEF GraphInv, BagsOwned
  <2>2. CASE n = i
    <3>1. CASE x \in TaskIDs /\ <<x, i>> \in E
      BY <1>1, <1>4, <2>2, <3>1
    <3>2. CASE \E m \in TaskIDs : <<m, i>> \in E /\ x \in HB[m]
      <4>1. PICK m \in TaskIDs : <<m, i>> \in E /\ x \in HB[m]
        BY <3>2
      <4>2. m < i /\ Precedes(x, o[i])
        BY <1>1, <1>4, <4>1
      <4>3. x < m /\ x \in TaskIDs
        BY <1>3, <4>1 DEF GraphInv, BagsOwned
      <4>4. x \in Nat /\ m \in Nat /\ i \in Nat
        BY <1>1, <4>3
      <4> QED
        BY <1>1, <2>2, <4>2, <4>3, <4>4
    <3>3. x \in Checker!InheritedHB(E, HB, i)
      BY <1>3, <2>2
    <3>4. x \in Checker!inEdges(E, i) \/ \E m \in Checker!inEdges(E, i) : x \in HB[m]
      BY <3>3 DEF Checker!InheritedHB
    <3>5. \A m : m \in Checker!inEdges(E, i) <=> m \in TaskIDs /\ <<m, i>> \in E
      BY DEF Checker!inEdges
    <3> QED
      BY <3>1, <3>2, <3>4, <3>5
  <2> QED
    BY <2>1, <2>2
<1>6. ASSUME NEW m \in TaskIDs, NEW n \in TaskIDs, <<m, n>> \in E
      PROVE  /\ m < n /\ n < taskIDSeed' /\ ~Open(m)'
             /\ Precedes(m, w[n])' /\ \A x \in HB'[m] : Precedes(x, w[n])'
  <2>1. /\ m < n /\ n < taskIDSeed /\ ~Open(m)
        /\ Precedes(m, o[n]) /\ \A x \in HB[m] : Precedes(x, o[n])
    BY <1>4, <1>6
  <2>2. HB'[m] = HB[m]
    BY <1>1, <1>2, <1>3, <2>1
  <2>3. Precedes(m, w[n])' /\ \A x \in HB'[m] : Precedes(x, w[n])'
    BY <2>1, <2>2, OwnersFollow
  <2>4. m # taskIDSeed
    <3>1. m \in Nat /\ n \in Nat
      OBVIOUS
    <3>2. m < n /\ n < taskIDSeed
      BY <2>1
    <3> QED
      BY <1>1, <3>1, <3>2
  <2> QED
    BY <2>1, <2>3, <2>4, OpenAgain
<1>7. EdgesOwned(w)' /\ NoEdgeFromOpen'
  BY <1>2, <1>6 DEF EdgesOwned, NoEdgeFromOpen
<1>8. BagsOwned(w)'
  BY <1>5, OwnersFollow DEF BagsOwned
<1> QED
  BY <1>7, <1>8 DEF GraphInv

\* What precedes a task that runs precedes every task that has its past.
LEMMA PastCarries ==
  ASSUME NEW u \in Tasks, ~Waits(u), NEW t \in Tasks, Past(u) \subseteq Past(t),
         NEW x, Precedes(x, u)
  PROVE  Precedes(x, t)
BY PrecedesStarted, PastPrecedes

\* An ID is open if its owner has it and is about to get edges.
LEMMA OpenOwner ==
  ASSUME NEW o, Owners(o), NEW m, Open(m)
  PROVE  o[m] \in Tasks /\ Known(o[m]) /\ pc[o[m]] \in OpenPCs /\ ID(o[m]) = m
BY DEF Open, Owners

\* A child comes after the segment that created it.
LEMMA ChildReceivesSound ==
  ASSUME FrameInv, ComesAfterCreator, NEW o, Owners(o), ReceivesOwn(o),
         NEW p \in Tasks, ChildReceives(p), idMap[ptr[p]] # NoID
  PROVE  SoundEdge(o, idMap[ptr[p]], frame[p].child)
<1> PICK c, m : c = frame[p].child /\ m = idMap[ptr[p]]
  OBVIOUS
<1>1. c \in Tasks /\ pc[p] = "receive" /\ Known(p) /\ Known(c)
  <2>1. frame[p] \in AnyFrame /\ Framed(p) /\ pc[p] = "receive"
    BY DEF ChildReceives, FrameInv, ProgramTyped
  <2> QED
    BY <2>1 DEF Framed, AnyFrame
<1>2. o[m] = p /\ m <= ID(p)
  BY <1>1 DEF ReceivesOwn, SentBy
<1>3. Past(p) \subseteq before[c] /\ m < ID(c)
  <2>1. Past(p) \subseteq before[c] /\ ID(p) < ID(c)
    BY <1>1 DEF ComesAfterCreator
  <2>2. m \in Nat /\ ID(p) \in Nat /\ ID(c) \in Nat
    BY <1>1, KnownID DEF FrameInv, INSTyped, Keys
  <2> QED
    BY <1>2, <2>1, <2>2
<1>4. ~Open(m)
  BY <1>1, <1>2, OpenOwner DEF OpenPCs
<1>5. \A x \in TaskIDs : Precedes(x, p) => Precedes(x, c)
  <2>1. ~Waits(p) /\ Past(p) \subseteq Past(c)
    BY <1>1, <1>3 DEF Waits, Past
  <2> QED
    BY <1>1, <2>1, PastCarries
<1> QED
  BY <1>2, <1>3, <1>4, <1>5 DEF SoundEdge

\* A segment comes after those the task was in before.
LEMMA AdoptSound ==
  ASSUME FrameInv, NEW o, Owners(o), ReceivesOwn(o),
         NEW p \in Tasks, Adopt(p), idMap[frame[p].old] \notin {NoID, ID(p)}
  PROVE  SoundEdge(o, idMap[frame[p].old], p)
<1> PICK m : m = idMap[frame[p].old]
  OBVIOUS
<1>1. pc[p] = "adopt" /\ Known(p) /\ frame[p].old \in Infos
  BY DEF Adopt, FrameInv, Framed, InfoTyped
<1>2. o[m] = p /\ m < ID(p)
  <2>1. o[m] = p /\ m <= ID(p) /\ m # ID(p)
    BY <1>1 DEF ReceivesOwn, SentBy
  <2>2. m \in Nat /\ ID(p) \in Nat
    BY <1>1, KnownID DEF FrameInv, INSTyped, Keys
  <2> QED
    BY <2>1, <2>2
<1>3. ~Open(m)
  BY <1>2, OpenOwner
<1> QED
  BY <1>2, <1>3 DEF SoundEdge

\* Tasks that name a variable have one creator.
LEMMA SameVariable ==
  ASSUME SiblingsDepend, NEW s \in Tasks, NEW t \in Tasks,
         NEW j \in DOMAIN depsOf[s], NEW k \in DOMAIN depsOf[t],
         depsOf[s][j].addr = depsOf[t][k].addr
  PROVE  parent[s] = parent[t]
BY DEF SiblingsDepend

\* A task comes after the siblings that write what it reads or writes.
LEMMA DependSound ==
  ASSUME FrameInv, Unborn, SiblingsDepend, WaitsForSiblings, DepsLeft, BornInCallback,
         NEW o, Owners(o), NEW p \in Tasks, Depend(p),
         NEW a, a = Head(frame[p].deps).addr, TokenFrom(o, a),
         idMap[a] \notin {NoID, ID(frame[p].child)}
  PROVE  SoundEdge(o, idMap[a], frame[p].child)
<1>0. PICK c, d, m, u : c = frame[p].child /\ d = Head(frame[p].deps) /\ m = idMap[a] /\ u = o[m]
  OBVIOUS
<1>1. /\ c \in Tasks /\ pc[c] = "born" /\ parent[c] = p /\ Known(c) /\ d \in AnyDep
      /\ \E k \in DOMAIN depsOf[c] : depsOf[c][k].addr = d.addr
  BY <1>0, HeadOfDeps
<1>2. /\ m < taskIDSeed /\ m \in TaskIDs
      /\ \E k \in DOMAIN depsOf[u] : depsOf[u][k].addr = a /\ depsOf[u][k].type # "in"
      /\ Known(u) /\ ID(u) = m => pc[u] \notin {"adopt", "saveChildren"}
      /\ pc[u] = "born" => Known(u) /\ ID(u) = m
      /\ \A q, e \in Tasks :
           frame[q].child = e /\ Known(e) /\ parent[u] = q /\ ID(e) # m => m < ID(e)
  <2>1. a \in DepAddrs
    BY <1>0, <1>1 DEF AnyDep
  <2>2. m \in TaskIDs
    BY <1>0, <2>1 DEF FrameInv, INSTyped, Keys
  <2> QED
    BY <1>0, <2>2 DEF TokenFrom
<1>3. u \in Tasks
  BY <1>0, <1>2 DEF Owners
<1>9. PICK j \in DOMAIN depsOf[c] : depsOf[c][j].addr = a
  BY <1>0, <1>1
<1>10. PICK k \in DOMAIN depsOf[u] : depsOf[u][k].addr = a /\ depsOf[u][k].type # "in"
  BY <1>2
<1>4. parent[u] = p /\ u # c
  <2>1. parent[u] = parent[c]
    BY <1>1, <1>3, <1>9, <1>10, SameVariable
  <2>2. u # c
    BY <1>0, <1>1, <1>2
  <2> QED
    BY <1>1, <2>1, <2>2
<1>5. u \in preds[c]
  <2>1. Clash(depsOf[c], depsOf[u])
    BY <1>9, <1>10 DEF Clash
  <2> QED
    BY <1>0, <1>1, <1>3, <1>4, <2>1 DEF WaitsForSiblings
<1>6. m < ID(c)
  BY <1>0, <1>1, <1>2, <1>4
<1>7. ~Open(m)
  <2>1. pc[u] # "born"
    BY <1>0, <1>3, <1>4 DEF BornInCallback
  <2> SUFFICES ASSUME Open(m) PROVE FALSE
    OBVIOUS
  <2>2. Known(u) /\ pc[u] \in OpenPCs /\ ID(u) = m
    BY <1>0, OpenOwner
  <2> QED
    BY <1>2, <2>1, <2>2 DEF OpenPCs
<1>8. \A x \in TaskIDs : Precedes(x, u) => Precedes(x, c)
  BY <1>1, <1>5, PredecessorPrecedes DEF Waits
<1> QED
  BY <1>0, <1>6, <1>7, <1>8 DEF SoundEdge

\* After a taskwait a task comes after its children.
LEMMA SaveChildrenSound ==
  ASSUME FrameInv, ChildrenOver, NEW o, Owners(o), ChildIDsOwned(o),
         NEW t \in Tasks, SaveChildren(t), NEW m \in info[ptr[t]].childrenIDs
  PROVE  SoundEdge(o, m, t)
<1>1. pc[t] = "saveChildren" /\ Known(t) /\ frame[t].child = NoTask
  BY DEF SaveChildren, FrameInv, Framed
<1>2. /\ m \in TaskIDs /\ m < taskIDSeed /\ m < ID(t) /\ m \in Nat
      /\ o[m] = t \/ parent[o[m]] = t
  BY <1>1, KnownID DEF ChildIDsOwned, FrameInv
<1>3. CASE o[m] = t
  <2>1. ~Open(m)
    BY <1>2, <1>3, OpenOwner
  <2> QED
    BY <1>2, <1>3, <2>1 DEF SoundEdge
<1>4. CASE parent[o[m]] = t
  <2> PICK u : u = o[m]
    OBVIOUS
  <2>1. u \in Tasks
    BY <1>2 DEF Owners
  <2>2. pc[u] = "done" /\ Past(u) \subseteq before[t]
    BY <1>1, <1>4, <2>1 DEF ChildrenOver
  <2>3. ~Open(m)
    BY <2>2, OpenOwner DEF OpenPCs
  <2>4. \A x \in TaskIDs : Precedes(x, u) => Precedes(x, t)
    <3>1. ~Waits(u) /\ Past(u) \subseteq Past(t)
      BY <2>2 DEF Waits, Past
    <3> QED
      BY <2>1, <3>1, PastCarries
  <2> QED
    BY <1>2, <2>3, <2>4 DEF SoundEdge
<1> QED
  BY <1>2, <1>3, <1>4

\* A token received gives an edge from the segment that sent it, or none.
LEMMA ReceiveOrders ==
  ASSUME FrameInv, Unborn, Shape, IDStep, OrderGrows,
         NEW o, Owners(o), NEW w, Extends(o, w), GraphInv(o),
         NEW t \in Tasks, Known(t), pc[t] \in OpenPCs, NEW key \in Keys,
         TaskReceiveTokenLog(ID(t), key),
         idMap[key] \notin {NoID, ID(t)} => SoundEdge(o, idMap[key], t)
  PROVE  GraphInv(w)'
<1> PICK m : m = idMap[key]
  OBVIOUS
<1>1. taskIDSeed' = taskIDSeed
  BY DEF TaskReceiveTokenLog
<1>2. CASE m \in {NoID, ID(t)}
  <2>1. UNCHANGED <<edges, HB>>
    BY <1>2 DEF TaskReceiveTokenLog, graphVars
  <2> QED
    BY <1>1, <2>1, GraphStays
<1>3. CASE m \notin {NoID, ID(t)}
  <2>1. Checker!saveHappensBeforeEdges({m}, ID(t)) /\ SoundEdge(o, m, t)
    BY <1>3 DEF TaskReceiveTokenLog
  <2>2. m \in TaskIDs
    BY <1>3 DEF FrameInv, INSTyped
  <2>3. {m} \in SUBSET TaskIDs /\ \A n \in {m} : SoundEdge(o, n, t)
    BY <2>1, <2>2
  <2> QED
    BY <1>1, <2>1, <2>3, GraphOrders
<1> QED
  BY <1>2, <1>3

\* A step keeps the graph in the program's order.
LEMMA NextGraphInv ==
  ASSUME FrameInv, Unborn, Shape, IDStep, OrderGrows, SiblingsDepend,
         taskIDSeed' = taskIDSeed \/ taskIDSeed' = taskIDSeed + 1,
         \/ UNCHANGED <<idMap, edges, HB>> \/ Creates \/ \E p \in Tasks : Calls(p),
         NEW o, Owners(o), NEW w, Extends(o, w),
         CallbackInv(o), TokenInv(o), GraphInv(o)
  PROVE  GraphInv(w)'
<1>1. ASSUME UNCHANGED <<edges, HB>> PROVE GraphInv(w)'
  BY <1>1, GraphStays
<1>2. CASE Creates
  <2>1. taskIDSeed \in TaskIDs /\ Checker!onTaskCreate(taskIDSeed)
    BY <1>2 DEF Creates, createNewTaskMetadata
  <2>2. taskIDSeed \in Nat
    BY DEF FrameInv, INSTyped
  <2>3. Checker!inEdges(edges, taskIDSeed) = {}
    <3>1. \A m \in TaskIDs : <<m, taskIDSeed>> \in edges => taskIDSeed < taskIDSeed
      BY <2>1 DEF GraphInv, EdgesOwned
    <3>2. ~(taskIDSeed < taskIDSeed)
      BY <2>2
    <3>3. \A m \in TaskIDs : <<m, taskIDSeed>> \notin edges
      BY <3>1, <3>2
    <3> QED
      BY <3>3 DEF Checker!inEdges
  <2> QED
    BY <1>1, <2>1, <2>3 DEF Checker!onTaskCreate
<1>3. ASSUME NEW p \in Tasks, SendToChild(p) PROVE GraphInv(w)'
  <2>1. UNCHANGED <<edges, HB>>
    BY <1>3 DEF SendToChild, TaskSendTokenLog, graphVars
  <2> QED
    BY <1>1, <2>1
<1>4. ASSUME NEW p \in Tasks, ChildReceives(p) PROVE GraphInv(w)'
  <2>1. PICK c : c = frame[p].child
    OBVIOUS
  <2>2. c \in Tasks /\ pc[c] = "born" /\ Known(c) /\ Known(p)
    <3>1. frame[p] \in AnyFrame /\ Framed(p) /\ pc[p] = "receive"
      BY <1>4 DEF ChildReceives, FrameInv, ProgramTyped
    <3> QED
      BY <2>1, <3>1 DEF Framed, AnyFrame
  <2>3. ptr[p] \in Keys /\ TaskReceiveTokenLog(ID(c), ptr[p])
    BY <1>4, <2>1, <2>2, KnownID DEF ChildReceives, Keys, FrameInv
  <2>4. idMap[ptr[p]] # NoID => SoundEdge(o, idMap[ptr[p]], c)
    BY <1>4, <2>1, ChildReceivesSound DEF CallbackInv, TokenInv
  <2>5. pc[c] \in OpenPCs
    BY <2>2 DEF OpenPCs
  <2> QED
    BY <2>2, <2>3, <2>4, <2>5, ReceiveOrders
<1>5. ASSUME NEW p \in Tasks, Adopt(p) PROVE GraphInv(w)'
  <2>1. /\ pc[p] \in OpenPCs /\ Known(p) /\ frame[p].old \in Keys
        /\ TaskReceiveTokenLog(ID(p), frame[p].old)
    BY <1>5 DEF Adopt, OpenPCs, FrameInv, Framed, InfoTyped, Keys
  <2>2. idMap[frame[p].old] \notin {NoID, ID(p)} => SoundEdge(o, idMap[frame[p].old], p)
    BY <1>5, AdoptSound DEF TokenInv
  <2> QED
    BY <2>1, <2>2, ReceiveOrders
<1>6. ASSUME NEW p \in Tasks, Depend(p) PROVE GraphInv(w)'
  <2>1. PICK c, a : c = frame[p].child /\ a = Head(frame[p].deps).addr
    OBVIOUS
  <2>2. c \in Tasks /\ pc[c] = "born" /\ Known(c) /\ a \in DepAddrs
    <3>1. Head(frame[p].deps) \in AnyDep
      BY <1>6, HeadOfDeps DEF CallbackInv
    <3>2. a \in DepAddrs
      BY <2>1, <3>1 DEF AnyDep
    <3> QED
      BY <1>6, <2>1, <3>2, HeadOfDeps DEF CallbackInv
  <2>3. CASE TaskSendTokenLog(ID(c), a)
    BY <1>1, <2>3 DEF TaskSendTokenLog, graphVars
  <2>4. CASE TaskReceiveTokenLog(ID(c), a)
    <3>1. idMap[a] \notin {NoID, ID(c)} => SoundEdge(o, idMap[a], c)
      <4>1. TokenFrom(o, a)
        BY <2>2 DEF TokenInv
      <4> QED
        BY <1>6, <2>1, <4>1, DependSound DEF CallbackInv
    <3>2. pc[c] \in OpenPCs /\ a \in Keys
      BY <2>2 DEF OpenPCs, Keys
    <3> QED
      BY <2>2, <2>4, <3>1, <3>2, ReceiveOrders
  <2> QED
    BY <1>6, <2>1, <2>3, <2>4 DEF Depend
<1>7. ASSUME NEW p \in Tasks, SaveChildren(p) PROVE GraphInv(w)'
  <2>1. pc[p] \in OpenPCs /\ Known(p) /\ saveChildHBs(p)
    BY <1>7 DEF SaveChildren, OpenPCs, FrameInv, Framed
  <2>2. PICK P : P = info[ptr[p]].childrenIDs
    OBVIOUS
  <2>3. CASE P = {}
    BY <1>1, <2>1, <2>2, <2>3 DEF saveChildHBs, graphVars
  <2>4. CASE P # {}
    <3>1. Checker!saveHappensBeforeEdges(P, ID(p)) /\ taskIDSeed' = taskIDSeed
      BY <2>1, <2>2, <2>4 DEF saveChildHBs, insVars
    <3>2. P \in SUBSET TaskIDs
      BY <2>1, <2>2, KnownID DEF FrameInv
    <3>3. \A m \in P : SoundEdge(o, m, p)
      BY <1>7, <2>2, SaveChildrenSound DEF CallbackInv
    <3> QED
      BY <2>1, <3>1, <3>2, <3>3, GraphOrders
  <2> QED
    BY <2>3, <2>4
<1> QED
  BY <1>1, <1>2, <1>3, <1>4, <1>5, <1>6, <1>7 DEF Calls

-----------------------------------------------------------------------------
(* No order that OpenMP does not guarantee.                                *)

\* Whose the IDs are, and what follows for callbacks, tokens and edges.
OwnedInv(o) == Owners(o) /\ CallbackInv(o) /\ TokenInv(o) /\ GraphInv(o)

ProgramOrderInv == FrameInv /\ Unborn /\ \E o : OwnedInv(o)

\* Nobody has an ID at first.
LEMMA InitProgramOrder == Init => ProgramOrderInv
<1> SUFFICES ASSUME Init PROVE ProgramOrderInv
  OBVIOUS
<1>1. /\ taskIDSeed = 0 /\ \A t \in Tasks : ~Known(t)
      /\ \A t \in Tasks : before[t] = {} /\ preds[t] = {} /\ parent[t] = NoTask
  BY DEF Init, Known
<1>2. PICK o : o = [n \in TaskIDs |-> NoTask]
  OBVIOUS
<1>3. \A n \in TaskIDs : ~(n < taskIDSeed)
  BY <1>1
<1>4. Owners(o)
  BY <1>1, <1>2, <1>3 DEF Owners
<1>5. OwnedInv(o)
  BY <1>4, InitCallbackInv, InitTokenInv, InitGraphInv DEF OwnedInv
<1>6. Unborn
  BY <1>1 DEF Unborn
<1> QED
  BY <1>5, <1>6, InitFrameInv DEF ProgramOrderInv

\* Every step keeps the checker's order within the program's.
LEMMA NextOwned ==
  ASSUME OwnAddresses, OwnTokens, SiblingsDepend, FrameInv, Unborn, [Next]_vars,
         NEW o, OwnedInv(o)
  PROVE  \E w : Extends(o, w) /\ OwnedInv(w)'
<1>1. Owners(o) /\ CallbackInv(o) /\ TokenInv(o) /\ GraphInv(o)
  BY DEF OwnedInv
<1>2. Shape /\ IDStep /\ HandsDown
  BY StepShape, StepIDs, StepHandsDown
<1>3. OrderGrows
  BY <1>2, StepGrows
<1>4. PICK w : Extends(o, w) /\ Owners(w)'
  BY <1>1, StepOwners
<1>5. taskIDSeed' = taskIDSeed \/ taskIDSeed' = taskIDSeed + 1
  BY StepIDs DEF Creates, createNewTaskMetadata
<1>6. UNCHANGED <<idMap, edges, HB>> \/ Creates \/ \E p \in Tasks : Calls(p)
  BY StepCalls
<1>7. CallbackInv(w)'
  BY <1>1, <1>2, <1>4, <1>5, NextCallbackInv
<1>8. TokenInv(w)'
  BY <1>1, <1>2, <1>4, <1>5, <1>6, NextTokenInv DEF CallbackInv
<1>9. GraphInv(w)'
  BY <1>1, <1>2, <1>3, <1>4, <1>5, <1>6, NextGraphInv
<1> QED
  BY <1>4, <1>7, <1>8, <1>9 DEF OwnedInv

\* What does not depend on the owners stays as well.
LEMMA NextUnowned ==
  ASSUME FrameInv, Unborn, [Next]_vars
  PROVE  FrameInv' /\ Unborn'
BY StepShape, NextFrameInv, StepUnborn

\* So the invariant is inductive.
LEMMA NextProgramOrder ==
  ASSUME OwnAddresses, OwnTokens, SiblingsDepend, ProgramOrderInv, [Next]_vars
  PROVE  ProgramOrderInv'
<1>1. FrameInv /\ Unborn
  BY DEF ProgramOrderInv
<1>2. PICK o : OwnedInv(o)
  BY DEF ProgramOrderInv
<1>3. PICK w : OwnedInv(w)'
  BY <1>1, <1>2, NextOwned
<1>4. FrameInv' /\ Unborn'
  BY <1>1, NextUnowned
<1> QED
  BY <1>3, <1>4 DEF ProgramOrderInv

\* A task that runs has what is in its bag behind it.
LEMMA BagsArePast == ProgramOrderInv => NoSpuriousOrder
<1> SUFFICES ASSUME ProgramOrderInv, NEW t \in Tasks, Running(t), NEW x \in HB[ID(t)]
             PROVE  x \in before[t]
  BY DEF NoSpuriousOrder
<1>1. PICK o : OwnedInv(o)
  BY DEF ProgramOrderInv
<1>2. pc[t] = "run" /\ Known(t) /\ ID(t) \in TaskIDs /\ o[ID(t)] = t
  BY <1>1, KnownID DEF Running, ProgramOrderInv, OwnedInv, Owners, FrameInv
<1>3. x < ID(t) /\ Precedes(x, t)
  BY <1>1, <1>2 DEF OwnedInv, GraphInv, BagsOwned
<1>4. x \in Past(t)
  BY <1>2, <1>3, PrecedesStarted DEF Waits
<1>5. x # ID(t)
  <2>1. ID(t) \in Nat
    BY <1>2
  <2> QED
    BY <1>3, <2>1
<1> QED
  BY <1>4, <1>5 DEF Past, Segment

\* The checker never orders a running segment after one that OpenMP does not order
\* before it (OMPTCallbacks.h:115-249 with Logger.h:113-177), in every run in which only
\* siblings name one variable in depend clauses; no TaskInfo has the address of such a
\* variable; and where freed TaskInfo addresses are given out again (Util.h:31, 48), either
\* no task waits and none is untied, or one task creates all others and no other task waits.
THEOREM NoFalseOrder ==
  ASSUME OwnAddresses, OwnTokens
  PROVE  Spec /\ []SiblingsDepend => []NoSpuriousOrder
<1>1. Init => ProgramOrderInv
  BY InitProgramOrder
<1>2. ProgramOrderInv /\ SiblingsDepend /\ [Next]_vars => ProgramOrderInv'
  BY NextProgramOrder
<1>3. ProgramOrderInv => NoSpuriousOrder
  BY BagsArePast
<1> QED
  BY <1>1, <1>2, <1>3, PTL DEF Spec
=============================================================================
