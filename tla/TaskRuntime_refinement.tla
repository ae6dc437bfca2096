------------------------ MODULE TaskRuntime_refinement ------------------------
(***************************************************************************)
(* Proof that the callbacks, as they interleave, drive the checker as the  *)
(* specification of the checker asks: an edge goes from an ID whose bag is *)
(* complete into one that is still being set up, an ID is announced once,  *)
(* and no access is logged under an ID that is ordered before one that has *)
(* already logged an access.  The hypotheses are those of NoFalseOrder;    *)
(* without them bags can be handed on before they are complete.            *)
(***************************************************************************)
EXTENDS TaskRuntime_proofs

USE TasksAssumption

-----------------------------------------------------------------------------
(* The course of a task.                                                   *)

\* A task that is done, or that will not go on in the segment it is in.
Leaving == {"send", "receive", "rename", "done", "crashed"}

\* Only a task that begins, is scheduled or is renamed gets a TaskInfo.
InfoWhen == \A t \in Tasks : ptr'[t] # ptr[t] => pc[t] \in {"unborn", "created", "rename"}

\* A task starts once.
StartsOnce == \A t \in Tasks : ~Waits(t) => ~Waits(t)'

\* A task that leaves its segment does not go back.
KeepsLeaving ==
  \A t \in Tasks : pc[t] \in Leaving => pc'[t] \in Leaving \/ ptr'[t] # ptr[t]

\* A task that has a TaskInfo when it is created is tied.
TiedWhenBorn ==
  \A t \in Tasks : pc'[t] = "born" /\ Known(t)' => pc[t] = "born" \/ t \notin UntiedTasks

\* A segment that some task has behind it, or that its task leaves in this step.
Left(n) ==
  \/ \E u \in Tasks : n \in before[u]
  \/ \E s \in Tasks : Known(s) /\ n = ID(s) /\ (pc'[s] \in Leaving \/ ptr'[s] # ptr[s])

\* A task comes after segments that are left.
PastLeft == \A u \in Tasks : \A n \in before'[u] : Left(n)

Course == InfoWhen /\ StartsOnce /\ KeepsLeaving /\ TiedWhenBorn /\ PastLeft

\* What is over with tasks that are done is left.
LEMMA DoneLeft ==
  ASSUME NEW T \in SUBSET Tasks, \A s \in T : pc'[s] \in Leaving
  PROVE  \A n \in PastOf(T) : Left(n)
BY DEF PastOf, Past, Segment, Left

\* One task moves, and none is created.
LEMMA MoveCourse ==
  ASSUME FrameInv, NEW p \in Tasks, NEW k, Moves(p, k),
         k \notin {"unborn", "born", "created"},
         NEW B, before' = [before EXCEPT ![p] = B], \A n \in B : Left(n),
         \A q \in Tasks : q # p => ptr'[q] = ptr[q],
         ptr'[p] = ptr[p] \/ pc[p] \in {"unborn", "created", "rename"},
         pc[p] \in Leaving => k \in Leaving \/ ptr'[p] # ptr[p]
  PROVE  Course
<1>1. /\ pc'[p] = k /\ \A q \in Tasks : q # p => pc'[q] = pc[q]
      /\ before'[p] = B /\ \A q \in Tasks : q # p => before'[q] = before[q]
  BY DEF Moves, FrameInv, ProgramTyped
<1>2. InfoWhen /\ StartsOnce /\ KeepsLeaving /\ TiedWhenBorn
  BY <1>1 DEF InfoWhen, StartsOnce, KeepsLeaving, TiedWhenBorn, Waits
<1>3. \A q \in Tasks : \A n \in before[q] : Left(n)
  BY DEF Left
<1>4. PastLeft
  BY <1>1, <1>3 DEF PastLeft
<1> QED
  BY <1>2, <1>4 DEF Course

\* A task is created, with or without metadata.
LEMMA TaskCreateCourse ==
  ASSUME FrameInv, Unborn, NEW p \in Tasks, NEW c \in Tasks,
         TaskCreate(p, c) \/ TaskCreateUntied(p, c) \/ TaskCreateByUnknown(p, c)
  PROVE  Course
<1>1. pc[p] = "run" /\ pc[c] = "unborn" /\ ~Known(c) /\ p # c
  BY DEF TaskCreate, TaskCreateUntied, TaskCreateByUnknown, MayCreate, Active, Unborn
<1>2. PICK k \in {"send", "rename", "crashed"} : pc' = [pc EXCEPT ![p] = k, ![c] = "born"]
  BY DEF TaskCreate, TaskCreateUntied, TaskCreateByUnknown
<1>3. /\ pc'[p] = k /\ pc'[c] = "born"
      /\ \A q \in Tasks : q # p /\ q # c => pc'[q] = pc[q]
  BY <1>1, <1>2 DEF FrameInv, ProgramTyped
<1>4. PICK ds : Generate(p, c, ds)
  BY DEF TaskCreate, TaskCreateUntied, TaskCreateByUnknown
<1>5. /\ before'[c] = before[p] \cup Segment(p)
      /\ \A q \in Tasks : q # c => before'[q] = before[q]
  BY <1>4 DEF Generate, FrameInv, ProgramTyped
<1>6. /\ \A q \in Tasks : q # c => ptr'[q] = ptr[q]
      /\ Known(c)' => c \notin UntiedTasks
  <2>1. CASE TaskCreate(p, c)
    BY <2>1, NewAddress DEF TaskCreate
  <2>2. CASE TaskCreateUntied(p, c)
    BY <1>1, <2>2 DEF TaskCreateUntied, Known
  <2>3. CASE TaskCreateByUnknown(p, c)
    BY <1>1, <2>3, NewAddress DEF TaskCreateByUnknown, infoVars, Known
  <2> QED
    BY <2>1, <2>2, <2>3
<1>7. InfoWhen /\ StartsOnce /\ KeepsLeaving /\ TiedWhenBorn
  BY <1>1, <1>3, <1>6 DEF InfoWhen, StartsOnce, KeepsLeaving, TiedWhenBorn, Waits, Leaving
<1>8. PastLeft
  BY <1>3, <1>5 DEF PastLeft, Left, Segment, Leaving
<1> QED
  BY <1>7, <1>8 DEF Course

\* The other steps of a callback.
LEMMA CallbackCourse ==
  ASSUME FrameInv, NEW p \in Tasks,
         \/ SendToChild(p) \/ ChildReceives(p) \/ Rename(p) \/ Adopt(p)
         \/ Depend(p) \/ DependOfUnknown(p) \/ SaveChildren(p)
  PROVE  Course
<1>0. /\ frame \in [Tasks -> AnyFrame] /\ pc \in [Tasks -> PCs]
      /\ before \in [Tasks -> SUBSET TaskIDs] /\ Framed(p)
  BY DEF FrameInv, ProgramTyped
<1>1. \A n \in before[p] : Left(n)
  BY DEF Left
<1>2. CASE Rename(p)
  <2>1. /\ pc[p] = "rename" /\ createNewTaskMetadata(p)
        /\ UNCHANGED <<frame, programVars>>
        /\ pc' = [pc EXCEPT ![p] = "adopt"]
        /\ before' = [before EXCEPT ![p] = before[p] \cup {ID(p)}]
    BY <1>2 DEF Rename
  <2>2. /\ Moves(p, "adopt") /\ ptr'[p] # ptr[p]
        /\ \A q \in Tasks : q # p => ptr'[q] = ptr[q]
    BY <2>1, NewAddress DEF Moves, PCs
  <2>3. Left(ID(p))
    BY <1>0, <2>1, <2>2 DEF Left, Framed
  <2>4. PICK B : B = before[p] \cup {ID(p)}
    OBVIOUS
  <2>5. before' = [before EXCEPT ![p] = B] /\ \A n \in B : Left(n)
    BY <1>1, <2>1, <2>3, <2>4
  <2> QED
    BY <2>1, <2>2, <2>5, MoveCourse
<1>3. CASE ~Rename(p)
  <2>1. /\ UNCHANGED <<ptr, before, programVars>>
        /\ \A q \in Tasks : q # p => frame'[q] = frame[q]
    <3>1. \A e : frame' = [frame EXCEPT ![p] = e]
            => \A q \in Tasks : q # p => frame'[q] = frame[q]
      BY <1>0
    <3>2. \/ UNCHANGED frame
          \/ \E r : frame' = [frame EXCEPT ![p].deps = r]
          \/ frame' = [frame EXCEPT ![p] = Idle]
      BY <1>3 DEF SendToChild, ChildReceives, Adopt, Depend, DependOfUnknown, SaveChildren
    <3> QED
      BY <1>0, <1>3, <3>1, <3>2
         DEF SendToChild, ChildReceives, Adopt, Depend, DependOfUnknown, SaveChildren,
             infoVars
  <2>2. PICK k \in {"receive", "rename", "saveChildren", "depend", "run", "crashed"} :
          /\ pc' = [pc EXCEPT ![p] = k]
          /\ pc[p] \in Leaving => k \in Leaving
    BY <1>0, <1>3
       DEF SendToChild, ChildReceives, Adopt, Depend, DependOfUnknown, SaveChildren,
           Leaving
  <2>3. Moves(p, k) /\ before' = [before EXCEPT ![p] = before[p]]
    BY <1>0, <2>1, <2>2 DEF Moves, PCs
  <2> QED
    BY <1>1, <2>1, <2>2, <2>3, MoveCourse
<1> QED
  BY <1>2, <1>3

\* The callbacks of a creation are over.
LEMMA CreatedCourse ==
  ASSUME FrameInv, NEW p \in Tasks, Created(p)
  PROVE  Course
<1> PICK c : c = frame[p].child
  OBVIOUS
<1>1. /\ pc[p] = "depend" /\ UNCHANGED <<ptr, before>>
      /\ pc' = [pc EXCEPT ![p] = "run", ![c] = "created"]
  BY DEF Created, infoVars
<1>2. c \in Tasks /\ c # p /\ pc[c] = "born"
  <2>1. frame[p] \in AnyFrame /\ Framed(p)
    BY DEF FrameInv, ProgramTyped
  <2> QED
    BY <1>1, <2>1 DEF Framed, AnyFrame
<1>3. /\ pc'[p] = "run" /\ pc'[c] = "created"
      /\ \A q \in Tasks : q # p /\ q # c => pc'[q] = pc[q]
  BY <1>1, <1>2 DEF FrameInv, ProgramTyped
<1>4. InfoWhen /\ StartsOnce /\ KeepsLeaving /\ TiedWhenBorn
  BY <1>1, <1>2, <1>3 DEF InfoWhen, StartsOnce, KeepsLeaving, TiedWhenBorn, Waits, Leaving
<1>5. PastLeft
  BY <1>1 DEF PastLeft, Left
<1> QED
  BY <1>4, <1>5 DEF Course

\* A task begins, goes on or ends.
LEMMA RunCourse ==
  ASSUME FrameInv, NEW p \in Tasks,
         \/ TaskSchedule(p) \/ TaskwaitEnd(p) \/ TaskgroupEnd(p) \/ Finish(p)
         \/ TaskwaitOfUnknown(p) \/ ImplicitEnd(p) \/ Access(p)
  PROVE  Course
<1>0. /\ frame \in [Tasks -> AnyFrame] /\ pc \in [Tasks -> PCs]
      /\ before \in [Tasks -> SUBSET TaskIDs] /\ preds[p] \subseteq Tasks
  BY DEF FrameInv, ProgramTyped
<1>1. \A n \in before[p] : Left(n)
  BY DEF Left
<1>2. ASSUME NEW T \in SUBSET Tasks, \A s \in T : pc[s] = "done",
             NEW k, Moves(p, k), k \notin {"unborn", "born", "created"},
             before' = [before EXCEPT ![p] = before[p] \cup PastOf(T)],
             pc[p] \in {"run", "created"},
             \A q \in Tasks : q # p => ptr'[q] = ptr[q],
             ptr'[p] = ptr[p] \/ pc[p] = "created"
      PROVE  Course
  <2>1. \A s \in T : pc'[s] \in Leaving
    BY <1>0, <1>2 DEF Moves, Leaving
  <2>2. PICK B : B = before[p] \cup PastOf(T)
    OBVIOUS
  <2>3. before' = [before EXCEPT ![p] = B] /\ \A n \in B : Left(n)
    BY <1>1, <1>2, <2>1, <2>2, DoneLeft
  <2>4. pc[p] \notin Leaving
    BY <1>2 DEF Leaving
  <2> QED
    BY <1>2, <2>3, <2>4, MoveCourse
<1>3. CASE TaskSchedule(p)
  <2>1. /\ pc[p] = "created" /\ UNCHANGED <<frame, programVars>>
        /\ pc' = [pc EXCEPT ![p] = "run"]
        /\ before' = [before EXCEPT ![p] = before[p] \cup PastOf(preds[p])]
        /\ \A u \in preds[p] : pc[u] = "done"
    BY <1>3 DEF TaskSchedule
  <2>2. Moves(p, "run")
    BY <2>1 DEF Moves, PCs
  <2>3. \A q \in Tasks : q # p => ptr'[q] = ptr[q]
    BY <1>3, NewAddress DEF TaskSchedule, infoVars
  <2> QED
    BY <1>0, <1>2, <2>1, <2>2, <2>3
<1>4. CASE TaskwaitEnd(p)
  <2>1. /\ pc[p] = "run" /\ UNCHANGED <<ptr, programVars>>
        /\ pc' = [pc EXCEPT ![p] = "rename"]
        /\ frame' = [frame EXCEPT ![p].old = ptr[p]]
        /\ before' = [before EXCEPT ![p] = before[p] \cup PastOf(Children(p))]
        /\ \A u \in Children(p) : pc[u] = "done"
    BY <1>4 DEF TaskwaitEnd
  <2>2. Moves(p, "rename")
    BY <1>0, <2>1 DEF Moves, PCs
  <2>3. Children(p) \in SUBSET Tasks
    BY DEF Children
  <2> QED
    BY <1>2, <2>1, <2>2, <2>3
<1>5. CASE TaskgroupEnd(p)
  <2>1. /\ pc[p] = "run" /\ UNCHANGED <<ptr, pc, frame, programVars>>
        /\ before' = [before EXCEPT ![p] = before[p] \cup PastOf(Descendants(p))]
        /\ \A u \in Descendants(p) : pc[u] = "done"
    BY <1>5 DEF TaskgroupEnd, Active, infoVars
  <2>2. Moves(p, "run")
    BY <1>0, <2>1 DEF Moves, PCs
  <2>3. Descendants(p) \in SUBSET Tasks
    BY DEF Descendants
  <2> QED
    BY <1>2, <2>1, <2>2, <2>3
<1>6. CASE Finish(p) \/ TaskwaitOfUnknown(p) \/ ImplicitEnd(p) \/ Access(p)
  <2>1. /\ pc[p] \in {"run", "joined"} /\ UNCHANGED <<ptr, frame, before, programVars>>
        /\ \E k \in {"run", "done", "crashed"} : pc' = [pc EXCEPT ![p] = k]
    BY <1>0, <1>6 DEF Finish, TaskwaitOfUnknown, ImplicitEnd, Access, Active, infoVars
  <2>2. PICK k \in {"run", "done", "crashed"} : pc' = [pc EXCEPT ![p] = k]
    BY <2>1
  <2>3. Moves(p, k) /\ before' = [before EXCEPT ![p] = before[p]]
    BY <1>0, <2>1, <2>2 DEF Moves, PCs
  <2>4. pc[p] \notin Leaving
    BY <2>1 DEF Leaving
  <2> QED
    BY <1>1, <2>1, <2>3, <2>4, MoveCourse
<1> QED
  BY <1>3, <1>4, <1>5, <1>6

\* An implicit task begins when the regions before its own are over.
LEMMA ImplicitBeginCourse ==
  ASSUME FrameInv, NEW k \in DOMAIN Regions, NEW t \in Regions[k], ImplicitBegin(t, k)
  PROVE  Course
<1> PICK T : T = Earlier(k)
  OBVIOUS
<1> PICK B : B = PastOf(T)
  OBVIOUS
<1>1. /\ t \in Tasks /\ pc[t] = "unborn" /\ createNewTaskMetadata(t)
      /\ UNCHANGED <<frame, programVars>> /\ pc' = [pc EXCEPT ![t] = "run"]
      /\ before' = [before EXCEPT ![t] = B] /\ \A s \in T : pc[s] = "done"
  BY DEF ImplicitBegin
<1>2. Moves(t, "run") /\ pc[t] \notin Leaving
  BY <1>1 DEF Moves, PCs, Leaving
<1>3. T \in SUBSET Tasks
  BY EarlierTasks
<1>4. \A s \in T : s \in Tasks /\ pc'[s] \in Leaving
  BY <1>1, <1>3 DEF FrameInv, ProgramTyped, Leaving
<1>5. \A n \in B : Left(n)
  BY <1>3, <1>4, DoneLeft
<1> QED
  BY <1>1, <1>2, <1>5, NewAddress, MoveCourse

\* A region goes on or ends.
LEMMA RegionCourse ==
  ASSUME FrameInv, NEW k \in DOMAIN Regions, Barrier(k) \/ Join(k)
  PROVE  Course
<1>1. ptr' = ptr /\ \A t \in Regions[k] : pc[t] = "run"
  BY DEF Barrier, Join, AtBarrier, infoVars
<1>2. \A t \in Tasks : pc'[t] = pc[t] \/ (pc[t] = "run" /\ pc'[t] = "joined")
  BY <1>1 DEF Barrier, Join
<1>3. InfoWhen /\ StartsOnce /\ KeepsLeaving /\ TiedWhenBorn
  BY <1>1, <1>2 DEF InfoWhen, StartsOnce, KeepsLeaving, TiedWhenBorn, Waits, Leaving
<1>4. \A t \in Tasks : \A n \in before[t] : Left(n)
  BY DEF Left
<1>5. PastLeft
  <2>1. CASE Join(k)
    BY <1>4, <2>1 DEF Join, PastLeft
  <2>2. CASE Barrier(k)
    <3>1. PICK T : T = { s \in ExplicitTasks : pc[s] = "done" }
      OBVIOUS
    <3>2. T \in SUBSET Tasks /\ \A s \in T : pc[s] = "done"
      BY <3>1 DEF ExplicitTasks
    <3>3. \A s \in T : pc'[s] \in Leaving
      BY <1>2, <3>2 DEF Leaving
    <3>4. \A n \in PastOf(T) : Left(n)
      BY <3>2, <3>3, DoneLeft
    <3>5. \A t \in Tasks : \A n \in before'[t] :
            n \in before[t] \/ n \in PastOf(T) \/ \E s \in Regions[k] : n \in before[s]
      BY <2>2, <3>1 DEF Barrier
    <3>6. Regions[k] \subseteq Tasks
      OBVIOUS
    <3> QED
      BY <1>4, <3>4, <3>5, <3>6 DEF PastLeft
  <2> QED
    BY <2>1, <2>2
<1> QED
  BY <1>3, <1>5 DEF Course

\* In every step tasks keep their course.
LEMMA StepCourse ==
  ASSUME FrameInv, Unborn, [Next]_vars
  PROVE  Course
<1>1. CASE Next
  <2>1. ASSUME NEW t \in Tasks, NEW c \in Tasks,
               TaskCreate(t, c) \/ TaskCreateUntied(t, c) \/ TaskCreateByUnknown(t, c)
        PROVE  Course
    BY <2>1, TaskCreateCourse
  <2>2. ASSUME NEW t \in Tasks,
               \/ SendToChild(t) \/ ChildReceives(t) \/ Rename(t) \/ Adopt(t)
               \/ Depend(t) \/ DependOfUnknown(t) \/ SaveChildren(t)
        PROVE  Course
    BY <2>2, CallbackCourse
  <2>3. ASSUME NEW t \in Tasks,
               \/ TaskSchedule(t) \/ TaskwaitEnd(t) \/ TaskgroupEnd(t) \/ Finish(t)
               \/ TaskwaitOfUnknown(t) \/ ImplicitEnd(t) \/ Access(t)
        PROVE  Course
    BY <2>3, RunCourse
  <2> QED
    BY <1>1, <2>1, <2>2, <2>3, CreatedCourse, ImplicitBeginCourse, RegionCourse DEF Next
<1>2. CASE UNCHANGED vars
  <2>1. UNCHANGED <<ptr, pc, before>>
    BY <1>2 DEF vars, infoVars
  <2> QED
    BY <2>1
       DEF Course, InfoWhen, StartsOnce, KeepsLeaving, TiedWhenBorn, PastLeft, Left, Waits
<1> QED
  BY <1>1, <1>2

-----------------------------------------------------------------------------
(* IDs that are in use, and tasks that log accesses.                       *)

\* Every ID that the checker, or the order of the program, knows was drawn.
IDsDrawn ==
  /\ \A n \in bagged : n \in TaskIDs /\ n < taskIDSeed
  /\ \A t \in Tasks : \A n \in before[t] : n < taskIDSeed

\* A task leaves the segments that others have behind them.
SegmentsLeft ==
  \A t, u \in Tasks : Known(t) /\ ID(t) \in before[u] => pc[t] \in Leaving

\* A task that is being created with a TaskInfo is tied.
BornTied == \A t \in Tasks : pc[t] = "born" /\ Known(t) => t \notin UntiedTasks

\* The ID a task has is the last one it was given.
LatestID(o) == \A n \in TaskIDs : n < taskIDSeed /\ Known(o[n]) => n <= ID(o[n])

\* Accesses are logged by tasks that have started.
Logged(o) ==
  /\ accesses \in [Addresses -> Seq(Checker!Action)]
  /\ \A s \in Checker!Started : s < taskIDSeed /\ ~Waits(o[s])

StartedInv(o) == IDsDrawn /\ SegmentsLeft /\ BornTied /\ LatestID(o) /\ Logged(o)

\* Nothing is in use at first.
LEMMA InitStartedInv ==
  ASSUME Init, NEW o
  PROVE  StartedInv(o)
<1>1. /\ bagged = {} /\ taskIDSeed = 0 /\ \A t \in Tasks : before[t] = {} /\ ~Known(t)
      /\ accesses = [a \in Addresses |-> << >>]
  BY DEF Init, Known
<1>2. \A n \in TaskIDs : ~(n < taskIDSeed)
  <2>1. taskIDSeed = 0
    BY <1>1
  <2> QED
    BY <2>1
<1>3. Checker!Started = {}
  BY <1>1 DEF Checker!Started
<1>4. accesses \in [Addresses -> Seq(Checker!Action)]
  BY <1>1
<1> QED
  BY <1>1, <1>2, <1>3, <1>4
     DEF StartedInv, IDsDrawn, SegmentsLeft, BornTied, LatestID, Logged

\* The checker hears of IDs that were drawn.
LEMMA StepIDsDrawn ==
  ASSUME FrameInv, [Next]_vars, PastLeft, NEW o, Owners(o), IDsDrawn
  PROVE  IDsDrawn'
<1>0. taskIDSeed \in Nat
  BY DEF FrameInv, INSTyped
<1>1. taskIDSeed' = taskIDSeed \/ taskIDSeed' = taskIDSeed + 1
  BY StepIDs DEF Creates, createNewTaskMetadata
<1>2. \A n \in TaskIDs : n < taskIDSeed => n < taskIDSeed'
  BY <1>0, <1>1
<1>3. \A t \in Tasks : Known(t) => ID(t) \in TaskIDs /\ ID(t) < taskIDSeed
  BY KnownID DEF Owners, FrameInv
<1>4. \A n \in bagged' : n \in bagged \/ (n = taskIDSeed /\ Creates)
                         \/ \E t \in Tasks : Known(t) /\ n = ID(t)
  <2>1. CASE Creates
    BY <2>1 DEF Creates, createNewTaskMetadata, Checker!onTaskCreate
  <2>2. CASE Sends \/ Quiet
    BY <2>2 DEF Sends, Quiet, TaskSendTokenLog, graphVars
  <2>3. CASE Receives
    BY <2>3 DEF Receives, TaskReceiveTokenLog, graphVars, Checker!saveHappensBeforeEdges
  <2>4. CASE Saves
    BY <2>4 DEF Saves, saveChildHBs, graphVars, Checker!saveHappensBeforeEdges
  <2> QED
    BY <2>1, <2>2, <2>3, <2>4, StepKinds
<1>5. Creates => taskIDSeed \in TaskIDs /\ taskIDSeed < taskIDSeed'
  BY <1>0 DEF Creates, createNewTaskMetadata
<1>6. \A n \in bagged' : n \in TaskIDs /\ n < taskIDSeed'
  BY <1>2, <1>3, <1>4, <1>5 DEF IDsDrawn
<1>7. \A t \in Tasks : \A n \in before'[t] : n < taskIDSeed'
  <2>1. \A t \in Tasks : before[t] \subseteq TaskIDs
    BY DEF FrameInv, ProgramTyped
  <2>2. \A n : Left(n) => n \in TaskIDs /\ n < taskIDSeed
    BY <1>3, <2>1 DEF Left, IDsDrawn
  <2> QED
    BY <1>2, <2>2 DEF PastLeft
<1> QED
  BY <1>6, <1>7 DEF IDsDrawn

\* Segments that are over stay so.
LEMMA StepSegmentsLeft ==
  ASSUME FrameInv, IDStep, Course, NEW o, Owners(o), IDsDrawn, SegmentsLeft
  PROVE  SegmentsLeft'
<1> SUFFICES ASSUME NEW t \in Tasks, NEW u \in Tasks, Known(t)', ID(t)' \in before'[u]
             PROVE  pc'[t] \in Leaving
  BY DEF SegmentsLeft, Leaving
<1>1. Left(ID(t)')
  BY DEF Course, PastLeft
<1>2. CASE ptr'[t] = ptr[t]
  <2>1. Known(t) /\ ID(t)' = ID(t)
    BY <1>2 DEF IDStep
  <2>2. CASE \E v \in Tasks : ID(t) \in before[v]
    BY <1>2, <2>1, <2>2 DEF SegmentsLeft, Course, KeepsLeaving
  <2>3. CASE \E s \in Tasks : Known(s) /\ ID(t) = ID(s)
                              /\ (pc'[s] \in Leaving \/ ptr'[s] # ptr[s])
    <3>1. PICK s \in Tasks : Known(s) /\ ID(t) = ID(s)
                             /\ (pc'[s] \in Leaving \/ ptr'[s] # ptr[s])
      BY <2>3
    <3>2. s = t
      BY <2>1, <3>1 DEF Owners
    <3> QED
      BY <1>2, <3>1, <3>2
  <2> QED
    BY <1>1, <2>1, <2>2, <2>3 DEF Left
<1>3. CASE ptr'[t] # ptr[t]
  <2>1. ID(t)' = taskIDSeed
    BY <1>3 DEF IDStep
  <2>2. taskIDSeed \in Nat /\ ~(taskIDSeed < taskIDSeed)
    BY DEF FrameInv, INSTyped
  <2>3. \A n : Left(n) => n < taskIDSeed
    BY DEF Left, IDsDrawn, Owners
  <2> QED
    BY <1>1, <2>1, <2>2, <2>3
<1> QED
  BY <1>2, <1>3

\* Tasks stay tied.
LEMMA StepBornTied ==
  ASSUME Shape, IDStep, Course, BornTied
  PROVE  BornTied'
<1> SUFFICES ASSUME NEW t \in Tasks, pc'[t] = "born", Known(t)'
             PROVE  t \notin UntiedTasks
  BY DEF BornTied
<1>1. CASE pc[t] = "born"
  BY <1>1 DEF Shape, OpensNew, IDStep, BornTied
<1>2. CASE pc[t] # "born"
  BY <1>2 DEF Course, TiedWhenBorn
<1> QED
  BY <1>1, <1>2

\* A new ID is the last one.
LEMMA StepLatestID ==
  ASSUME FrameInv, IDStep, taskIDSeed' = taskIDSeed \/ Creates,
         NEW o, Owners(o), NEW w, Extends(o, w), Owners(w)', LatestID(o)
  PROVE  LatestID(w)'
<1> SUFFICES ASSUME NEW n \in TaskIDs, n < taskIDSeed', Known(w[n])'
             PROVE  n <= ID(w[n])'
  BY DEF LatestID
<1>0. taskIDSeed \in Nat /\ (taskIDSeed' = taskIDSeed \/ taskIDSeed' = taskIDSeed + 1)
  BY DEF FrameInv, INSTyped, Creates, createNewTaskMetadata
<1>1. PICK t \in Tasks : t = w[n]
  BY DEF Owners
<1>2. CASE n < taskIDSeed
  <2>1. o[n] = t
    BY <1>1, <1>2 DEF Extends
  <2>2. CASE ptr'[t] = ptr[t]
    BY <1>1, <1>2, <2>1, <2>2 DEF IDStep, LatestID
  <2>3. CASE ptr'[t] # ptr[t]
    BY <1>0, <1>1, <1>2, <2>3 DEF IDStep
  <2> QED
    BY <2>2, <2>3
<1>3. CASE ~(n < taskIDSeed)
  <2>1. n = taskIDSeed /\ taskIDSeed' # taskIDSeed
    BY <1>0, <1>3
  <2>2. PICK s \in Tasks : createNewTaskMetadata(s)
    BY <2>1 DEF Creates
  <2>3. Known(s)' /\ ID(s)' = taskIDSeed
    BY <2>2, NewAddress DEF IDStep
  <2>4. s = t
    BY <1>1, <2>1, <2>3 DEF Owners
  <2> QED
    BY <1>0, <1>1, <2>1, <2>3, <2>4
<1> QED
  BY <1>2, <1>3

\* Only an access is logged.
LEMMA StepLogs ==
  ASSUME [Next]_vars
  PROVE  UNCHANGED logVars \/ \E t \in Tasks : Access(t)
<1>1. ASSUME NEW t \in Tasks, NEW c \in Tasks,
             TaskCreate(t, c) \/ TaskCreateUntied(t, c) \/ TaskCreateByUnknown(t, c)
      PROVE  UNCHANGED logVars
  BY <1>1 DEF TaskCreate, TaskCreateUntied, TaskCreateByUnknown, checkerVars, logVars
<1>2. ASSUME NEW t \in Tasks,
             \/ SendToChild(t) \/ ChildReceives(t) \/ Rename(t) \/ Adopt(t) \/ Depend(t)
             \/ DependOfUnknown(t) \/ Created(t) \/ SaveChildren(t)
      PROVE  UNCHANGED logVars
  BY <1>2 DEF SendToChild, ChildReceives, Rename, Adopt, Depend, DependOfUnknown, Created,
     SaveChildren, checkerVars, logVars
<1>3. ASSUME NEW t \in Tasks,
             \/ TaskSchedule(t) \/ Finish(t) \/ TaskwaitEnd(t) \/ TaskwaitOfUnknown(t)
             \/ TaskgroupEnd(t) \/ ImplicitEnd(t)
      PROVE  UNCHANGED logVars
  BY <1>3 DEF TaskSchedule, Finish, TaskwaitEnd, TaskwaitOfUnknown, TaskgroupEnd,
     ImplicitEnd, checkerVars, logVars
<1>4. ASSUME NEW k \in DOMAIN Regions, NEW t \in Regions[k], ImplicitBegin(t, k)
      PROVE  UNCHANGED logVars
  BY <1>4 DEF ImplicitBegin
<1>5. ASSUME NEW k \in DOMAIN Regions, Barrier(k) \/ Join(k)
      PROVE  UNCHANGED logVars
  BY <1>5 DEF Barrier, Join, checkerVars, logVars
<1>6. CASE UNCHANGED vars
  BY <1>6 DEF vars, checkerVars, logVars
<1> QED
  BY <1>1, <1>2, <1>3, <1>4, <1>5, <1>6 DEF Next

\* An access is logged under the ID its task has.
LEMMA AccessLogs ==
  ASSUME FrameInv, accesses \in [Addresses -> Seq(Checker!Action)],
         NEW t \in Tasks, Access(t)
  PROVE  /\ accesses' \in [Addresses -> Seq(Checker!Action)]
         /\ \A s \in Checker!Started' : s \in Checker!Started \/ s = ID(t)
<1>1. PICK act \in Checker!Action :
        /\ act.task = ID(t)
        /\ accesses' = [accesses EXCEPT ![act.addr] = Append(@, act)]
  BY DEF Access
<1>2. act.addr \in Addresses
  BY DEF Checker!Action
<1>3. PICK s : s = accesses[act.addr]
  OBVIOUS
<1>4. /\ s \in Seq(Checker!Action) /\ Append(s, act) \in Seq(Checker!Action)
      /\ Len(Append(s, act)) = Len(s) + 1
      /\ DOMAIN s = 1 .. Len(s) /\ DOMAIN Append(s, act) = 1 .. Len(s) + 1
      /\ Len(s) \in Nat
      /\ \A i \in 1 .. Len(s) : Append(s, act)[i] = s[i]
      /\ Append(s, act)[Len(s) + 1] = act
  <2>1. s \in Seq(Checker!Action)
    BY <1>2, <1>3
  <2> QED
    BY <2>1, AppendProperties, LenProperties
<1>5. /\ accesses'[act.addr] = Append(s, act)
      /\ \A a \in Addresses : a # act.addr => accesses'[a] = accesses[a]
  BY <1>1, <1>2, <1>3
<1>6. \A a \in Addresses : \A i \in DOMAIN accesses[a] : accesses[a][i].task \in TaskIDs
  <2> SUFFICES ASSUME NEW a \in Addresses, NEW i \in DOMAIN accesses[a]
               PROVE  accesses[a][i].task \in TaskIDs
    OBVIOUS
  <2>1. accesses[a] \in Seq(Checker!Action)
    OBVIOUS
  <2>2. accesses[a][i] \in Checker!Action
    BY <2>1, LenProperties, ElementOfSeq
  <2> QED
    BY <2>2 DEF Checker!Action
<1>7. accesses' \in [Addresses -> Seq(Checker!Action)]
  BY <1>1, <1>3, <1>4
<1>8. ASSUME NEW a \in Addresses, NEW i \in DOMAIN accesses'[a]
      PROVE  accesses'[a][i].task \in Checker!Started \/ accesses'[a][i].task = ID(t)
  <2>1. CASE a # act.addr
    <3>1. accesses'[a][i] = accesses[a][i] /\ i \in DOMAIN accesses[a]
      BY <1>5, <1>8, <2>1
    <3> QED
      BY <1>6, <3>1 DEF Checker!Started
  <2>2. CASE a = act.addr /\ i \in DOMAIN s
    <3>1. accesses'[a][i] = accesses[a][i] /\ i \in DOMAIN accesses[a]
      BY <1>3, <1>4, <1>5, <2>2
    <3> QED
      BY <1>6, <3>1 DEF Checker!Started
  <2>3. CASE a = act.addr /\ i \notin DOMAIN s
    <3>1. i = Len(s) + 1
      BY <1>4, <1>5, <1>8, <2>3
    <3> QED
      BY <1>1, <1>4, <1>5, <2>3, <3>1
  <2> QED
    BY <2>1, <2>2, <2>3
<1>9. \A s1 \in Checker!Started' : \E a \in Addresses : \E i \in DOMAIN accesses'[a] :
        accesses'[a][i].task = s1
  BY DEF Checker!Started
<1> QED
  BY <1>7, <1>8, <1>9

\* Tasks that have logged an access have started.
LEMMA StepLogged ==
  ASSUME FrameInv, [Next]_vars, IDStep, Course, NEW o, Owners(o), NEW w, Extends(o, w),
         Logged(o)
  PROVE  Logged(w)'
<1>0. /\ taskIDSeed \in Nat
      /\ taskIDSeed' = taskIDSeed \/ taskIDSeed' = taskIDSeed + 1
  BY StepIDs DEF FrameInv, INSTyped, Creates, createNewTaskMetadata
<1>1. Checker!Started \subseteq TaskIDs
  BY DEF Checker!Started
<1>2. \A s \in Checker!Started : s < taskIDSeed' /\ ~Waits(w[s])'
  <2> SUFFICES ASSUME NEW s \in Checker!Started
               PROVE  s < taskIDSeed' /\ ~Waits(w[s])'
    OBVIOUS
  <2>1. s \in TaskIDs /\ s < taskIDSeed /\ ~Waits(o[s])
    BY <1>1 DEF Logged
  <2>2. PICK u \in Tasks : u = o[s]
    BY <2>1 DEF Owners
  <2>3. w[s] = u /\ ~Waits(u)'
    BY <2>1, <2>2 DEF Extends, Course, StartsOnce
  <2>4. s < taskIDSeed'
    BY <1>0, <2>1
  <2> QED
    BY <2>3, <2>4
<1>3. CASE UNCHANGED logVars
  <2>1. accesses' = accesses /\ Checker!Started' = Checker!Started
    BY <1>3 DEF logVars, Checker!Started
  <2> QED
    BY <1>2, <2>1 DEF Logged
<1>4. CASE \E t \in Tasks : Access(t)
  <2>1. PICK t \in Tasks : Access(t)
    BY <1>4
  <2> PICK n : n = ID(t)
    OBVIOUS
  <2>2. Known(t) /\ pc'[t] = "run" /\ taskIDSeed' = taskIDSeed
    BY <2>1 DEF Access, insVars
  <2>3. o[n] = t /\ n < taskIDSeed /\ n \in TaskIDs
    BY <2>2, KnownID DEF Owners, FrameInv
  <2>4. w[n] = t /\ ~Waits(t)'
    BY <2>2, <2>3 DEF Extends, Waits
  <2>5. n < taskIDSeed' /\ ~Waits(w[n])'
    BY <2>2, <2>3, <2>4
  <2>6. /\ accesses' \in [Addresses -> Seq(Checker!Action)]
        /\ \A s \in Checker!Started' : s \in Checker!Started \/ s = n
    BY <2>1, AccessLogs DEF Logged
  <2> QED
    BY <1>2, <2>5, <2>6 DEF Logged
<1> QED
  BY <1>3, <1>4, StepLogs

\* What is known of IDs and accesses stays true.
LEMMA NextStartedInv ==
  ASSUME FrameInv, Unborn, [Next]_vars, NEW o, Owners(o), NEW w, Extends(o, w),
         Owners(w)', StartedInv(o)
  PROVE  StartedInv(w)'
<1>1. Shape /\ IDStep /\ Course /\ PastLeft /\ (taskIDSeed' = taskIDSeed \/ Creates)
  BY StepShape, StepIDs, StepCourse DEF Course
<1> QED
  BY <1>1, StepIDsDrawn, StepSegmentsLeft, StepBornTied, StepLatestID, StepLogged
     DEF StartedInv

\* No task that has logged an access comes after a segment that is going on.
LEMMA AccessInOrder ==
  ASSUME FrameInv, NEW o, Owners(o), BagsOwned(o), StartedInv(o),
         NEW t \in Tasks, Known(t), pc[t] = "run", NEW s \in Checker!Started
  PROVE  ID(t) \notin HB[s]
<1> SUFFICES ASSUME ID(t) \in HB[s]
             PROVE  FALSE
  OBVIOUS
<1> PICK n : n = ID(t)
  OBVIOUS
<1>1. n \in TaskIDs /\ s \in TaskIDs /\ n < taskIDSeed /\ o[n] = t
  BY KnownID DEF Owners, FrameInv, Checker!Started
<1>2. s < taskIDSeed /\ ~Waits(o[s])
  BY DEF StartedInv, Logged
<1>3. PICK u \in Tasks : u = o[s]
  BY <1>1, <1>2 DEF Owners
<1>4. n < s /\ Precedes(n, u)
  BY <1>1, <1>3 DEF BagsOwned
<1>5. n \in Past(u)
  BY <1>2, <1>3, <1>4, PrecedesStarted
<1>6. n \notin before[u]
  BY DEF StartedInv, SegmentsLeft, Leaving
<1>7. Known(u) /\ ID(u) = n
  BY <1>5, <1>6 DEF Past, Segment
<1>8. u = t
  BY <1>1, <1>7 DEF Owners
<1>9. s <= n
  BY <1>1, <1>2, <1>3, <1>7 DEF StartedInv, LatestID
<1>10. n \in Nat /\ s \in Nat
  BY <1>1
<1> QED
  BY <1>4, <1>9, <1>10

-----------------------------------------------------------------------------
(* IDs that are being set up.                                              *)

\* The callback of p sets up the ID n: that of the new task, or its own.
ForChild(p) == /\ frame[p].child \notin {NoTask} \cup UntiedTasks
               /\ pc[p] \in {"send", "receive"} \/ frame[p].deps # << >>
ForItself(p) == pc[p] \in {"adopt", "saveChildren"}

SetsUp(p, n) == \/ ForChild(p) /\ n = ID(frame[p].child)
                \/ ForItself(p) /\ n = ID(p)

\* Every ID that is set up is set up by a callback.
LEMMA SetUpBySomebody == \A n : n \in SetUp <=> \E p \in Tasks : SetsUp(p, n)
BY DEF SetUp, SetsUp, ForChild, ForItself

\* The child of a callback.
LEMMA ChildOf ==
  ASSUME FrameInv, NEW p \in Tasks, frame[p].child # NoTask
  PROVE  /\ frame[p].child \in Tasks /\ pc[frame[p].child] = "born"
         /\ parent[frame[p].child] = p
         /\ frame[p].child \notin UntiedTasks => Known(frame[p].child)
<1>1. frame[p] \in AnyFrame /\ Framed(p)
  BY DEF FrameInv, ProgramTyped
<1> QED
  BY <1>1 DEF Framed, AnyFrame

\* An ID that is set up belongs to a task that may get edges.
LEMMA SetUpIsOpen ==
  ASSUME FrameInv, NEW n \in SetUp
  PROVE  Open(n)
<1>1. PICK p \in Tasks : SetsUp(p, n)
  BY SetUpBySomebody
<1>2. CASE ForChild(p) /\ n = ID(frame[p].child)
  BY <1>2, ChildOf DEF ForChild, Open, OpenPCs
<1>3. CASE ForItself(p) /\ n = ID(p)
  BY <1>3 DEF ForItself, FrameInv, Framed, Open, OpenPCs
<1> QED
  BY <1>1, <1>2, <1>3 DEF SetsUp

\* Two callbacks do not set up one ID, and none sets up two at once.
LEMMA SetUpByOne ==
  ASSUME FrameInv, NEW o, Owners(o), NEW p \in Tasks, NEW q \in Tasks, NEW n,
         SetsUp(p, n), SetsUp(q, n)
  PROVE  p = q /\ (ForChild(p) /\ n = ID(frame[p].child) <=> ~(ForItself(p) /\ n = ID(p)))
<1>1. \A s, t \in Tasks : Known(s) /\ Known(t) /\ ID(s) = ID(t) => s = t
  BY DEF Owners
<1>2. \A s \in Tasks : ForChild(s) =>
        /\ frame[s].child \in Tasks /\ Known(frame[s].child)
        /\ pc[frame[s].child] = "born" /\ parent[frame[s].child] = s
  BY ChildOf DEF ForChild
<1>3. \A s \in Tasks : ForItself(s) => Known(s) /\ pc[s] # "born"
  BY DEF ForItself, FrameInv, Framed
<1>4. \A s, t \in Tasks : ~(/\ ForChild(s) /\ n = ID(frame[s].child)
                            /\ ForItself(t) /\ n = ID(t))
  BY <1>1, <1>2, <1>3
<1>5. CASE ForChild(p) /\ n = ID(frame[p].child)
  BY <1>1, <1>2, <1>4, <1>5 DEF SetsUp
<1>6. CASE ForItself(p) /\ n = ID(p)
  BY <1>1, <1>3, <1>4, <1>6 DEF SetsUp
<1> QED
  BY <1>5, <1>6 DEF SetsUp

\* A callback that rests sets up what it did.
LEMMA RestSetsUp ==
  ASSUME FrameInv, IDStep, Course, NEW q \in Tasks, frame'[q] = frame[q], pc'[q] = pc[q]
  PROVE  \A n : SetsUp(q, n)' <=> SetsUp(q, n)
<1>1. ASSUME NEW t \in Tasks, Known(t), pc[t] \in {"born", "adopt", "saveChildren"}
      PROVE  ID(t)' = ID(t)
  BY <1>1 DEF IDStep, Course, InfoWhen
<1>2. ForChild(q)' <=> ForChild(q)
  BY DEF ForChild
<1>3. ForItself(q)' <=> ForItself(q)
  BY DEF ForItself
<1>4. ForItself(q) => ID(q)' = ID(q)
  BY <1>1 DEF ForItself, FrameInv, Framed
<1>5. ForChild(q) => ID(frame[q].child)' = ID(frame[q].child)
  <2> PICK c : c = frame[q].child
    OBVIOUS
  <2>1. ForChild(q) => c \in Tasks /\ Known(c) /\ pc[c] = "born"
    BY ChildOf DEF ForChild
  <2>2. ForChild(q) => ID(c)' = ID(c)
    BY <1>1, <2>1
  <2> QED
    BY <2>2
<1> QED
  BY <1>2, <1>3, <1>4, <1>5 DEF SetsUp

\* A task without a callback in progress sets up nothing.
LEMMA NothingSetUp ==
  ASSUME NEW q \in Tasks, frame[q].child \in {NoTask} \cup UntiedTasks,
         pc[q] \notin {"adopt", "saveChildren"}
  PROVE  \A n : ~SetsUp(q, n)
BY DEF SetsUp, ForChild, ForItself

\* All callbacks rest.
LEMMA SetUpRests ==
  ASSUME \A q \in Tasks : \A n : SetsUp(q, n)' <=> SetsUp(q, n)
  PROVE  SetUp' = SetUp
<1>1. \A n : n \in SetUp' <=> \E p \in Tasks : SetsUp(p, n)'
  BY DEF SetUp, SetsUp, ForChild, ForItself
<1> QED
  BY <1>1, SetUpBySomebody

\* One callback begins to set up an ID.
LEMMA SetUpGains ==
  ASSUME NEW p \in Tasks, NEW i, \A n : SetsUp(p, n)' <=> SetsUp(p, n) \/ n = i,
         \A q \in Tasks : q # p => \A n : SetsUp(q, n)' <=> SetsUp(q, n)
  PROVE  SetUp' = SetUp \cup {i}
<1>1. \A n : n \in SetUp' <=> \E q \in Tasks : SetsUp(q, n)'
  BY DEF SetUp, SetsUp, ForChild, ForItself
<1> QED
  BY <1>1, SetUpBySomebody

\* One callback is ready with an ID.
LEMMA SetUpLoses ==
  ASSUME FrameInv, NEW o, Owners(o), NEW p \in Tasks, NEW i, SetsUp(p, i),
         \A n : SetsUp(p, n)' <=> SetsUp(p, n) /\ n # i,
         \A q \in Tasks : q # p => \A n : SetsUp(q, n)' <=> SetsUp(q, n)
  PROVE  SetUp' = SetUp \ {i}
<1>1. \A n : n \in SetUp' <=> \E q \in Tasks : SetsUp(q, n)'
  BY DEF SetUp, SetsUp, ForChild, ForItself
<1>2. \A q \in Tasks : q # p => ~SetsUp(q, i)
  BY SetUpByOne
<1> QED
  BY <1>1, <1>2, SetUpBySomebody

\* A callback that sets up in this step what it set up before, or nothing as before.
Rests(q) ==
  \/ frame'[q] = frame[q] /\ pc'[q] = pc[q]
  \/ ~ForChild(q) /\ ~ForItself(q) /\ ~ForChild(q)' /\ ~ForItself(q)'

\* It sets up what it did.
LEMMA RestsSame ==
  ASSUME FrameInv, IDStep, Course, NEW q \in Tasks, Rests(q)
  PROVE  \A n : SetsUp(q, n)' <=> SetsUp(q, n)
<1>1. CASE frame'[q] = frame[q] /\ pc'[q] = pc[q]
  BY <1>1, RestSetsUp
<1>2. CASE ~ForChild(q) /\ ~ForItself(q) /\ ~ForChild(q)' /\ ~ForItself(q)'
  BY <1>2 DEF SetsUp
<1> QED
  BY <1>1, <1>2 DEF Rests

\* A task that is in no callback.
LEMMA OutsideCallback ==
  ASSUME FrameInv, NEW q \in Tasks,
         pc[q] \in {"unborn", "born", "created", "run", "joined", "done"}
  PROVE  frame[q] = Idle /\ ~ForChild(q) /\ ~ForItself(q)
BY DEF FrameInv, Framed, Idle, ForChild, ForItself

\* A task whose callback is over, or that is in none.
LEMMA OutsideCallbackNext ==
  ASSUME NEW q \in Tasks, frame'[q] = Idle \/ frame'[q].child = NoTask,
         pc'[q] \notin {"adopt", "saveChildren"}
  PROVE  ~ForChild(q)' /\ ~ForItself(q)'
BY DEF Idle, ForChild, ForItself

-----------------------------------------------------------------------------
(* The steps of the checker.                                               *)

CheckerStep == [Checker!Next]_(Checker!vars)

\* Nothing happens.
LEMMA Stutters ==
  ASSUME UNCHANGED checkerVars, SetUp' = SetUp
  PROVE  CheckerStep
BY DEF CheckerStep, Checker!vars, checkerVars

\* An ID is announced.
LEMMA Begins ==
  ASSUME FrameInv, IDsDrawn, NEW t \in Tasks, createNewTaskMetadata(t), UNCHANGED logVars,
         SetUp' \in { SetUp, SetUp \cup {taskIDSeed} }
  PROVE  CheckerStep
<1>1. taskIDSeed \in TaskIDs /\ Checker!onTaskCreate(taskIDSeed)
  BY DEF createNewTaskMetadata
<1>2. taskIDSeed \notin bagged
  <2>1. taskIDSeed \in Nat /\ ~(taskIDSeed < taskIDSeed)
    BY DEF FrameInv, INSTyped
  <2> QED
    BY <2>1 DEF IDsDrawn
<1>3. Checker!TaskBegin(taskIDSeed)
  BY <1>1, <1>2 DEF Checker!TaskBegin, Checker!accessVars, logVars
<1> QED
  BY <1>1, <1>3 DEF CheckerStep, Checker!Next

\* An ID is set up.
LEMMA Readies ==
  ASSUME UNCHANGED checkerVars, NEW i \in TaskIDs, i \in SetUp,
         SetUp' \in { SetUp, SetUp \ {i} }
  PROVE  CheckerStep
<1>1. CASE SetUp' = SetUp
  BY <1>1, Stutters
<1>2. CASE SetUp' = SetUp \ {i}
  <2>1. Checker!TaskReady(i)
    BY <1>2 DEF Checker!TaskReady, Checker!graphVars, Checker!accessVars, checkerVars
  <2> QED
    BY <2>1 DEF CheckerStep, Checker!Next
<1> QED
  BY <1>1, <1>2

\* An ID gets edges.
LEMMA Orders ==
  ASSUME FrameInv, UNCHANGED logVars, NEW i \in TaskIDs, i \in SetUp,
         SetUp' \in { SetUp, SetUp \ {i} },
         NEW P \in SUBSET bagged, P # {}, \A m \in P : ~Open(m),
         Checker!saveHappensBeforeEdges(P, i)
  PROVE  CheckerStep
<1>1. P \in SUBSET (bagged \ SetUp)
  BY SetUpIsOpen
<1>2. Checker!OrderAfter(P, i)
  BY DEF Checker!OrderAfter, Checker!accessVars, logVars
<1> QED
  BY <1>1, <1>2 DEF CheckerStep, Checker!Next

\* A token gives an edge, or none.
LEMMA ReceiveSteps ==
  ASSUME FrameInv, BagInv, UNCHANGED logVars, NEW i \in TaskIDs, i \in SetUp,
         SetUp' \in { SetUp, SetUp \ {i} },
         NEW key \in Keys, TaskReceiveTokenLog(i, key),
         idMap[key] \notin {NoID, i} => ~Open(idMap[key])
  PROVE  CheckerStep
<1>1. CASE idMap[key] \in {NoID, i}
  <2>1. UNCHANGED checkerVars
    BY <1>1 DEF TaskReceiveTokenLog, checkerVars, graphVars, logVars
  <2> QED
    BY <2>1, Readies
<1>2. CASE idMap[key] \notin {NoID, i}
  <2>1. PICK P : P = {idMap[key]}
    OBVIOUS
  <2>2. P \in SUBSET bagged /\ P # {} /\ \A m \in P : ~Open(m)
    BY <1>2, <2>1 DEF BagInv, TokensHaveBags
  <2>3. Checker!saveHappensBeforeEdges(P, i)
    BY <1>2, <2>1 DEF TaskReceiveTokenLog
  <2> QED
    BY <2>2, <2>3, Orders
<1> QED
  BY <1>1, <1>2

-----------------------------------------------------------------------------
(* What every step sets up.                                                *)

\* All callbacks rest.
LEMMA AllRest ==
  ASSUME FrameInv, IDStep, Course, \A q \in Tasks : Rests(q)
  PROVE  SetUp' = SetUp
BY RestsSame, SetUpRests

\* One task moves, outside of callbacks.
LEMMA MoveRests ==
  ASSUME FrameInv, NEW p \in Tasks, NEW k, pc' = [pc EXCEPT ![p] = k],
         \A q \in Tasks : q # p => frame'[q] = frame[q]
  PROVE  pc'[p] = k /\ \A q \in Tasks : q # p => Rests(q)
BY DEF FrameInv, ProgramTyped, Rests

\* A task is created.
LEMMA CreateRests ==
  ASSUME FrameInv, NEW p \in Tasks, NEW c \in Tasks, pc[p] = "run", pc[c] = "unborn",
         NEW k, pc' = [pc EXCEPT ![p] = k, ![c] = "born"], NEW ds, Generate(p, c, ds)
  PROVE  /\ pc'[p] = k /\ frame'[p] = [child |-> c, old |-> ptr[p], deps |-> ds]
         /\ ~ForChild(p) /\ ~ForItself(p)
         /\ \A q \in Tasks : q # p => Rests(q)
<1>1. p # c /\ frame[c] = Idle /\ ~ForChild(c) /\ ~ForItself(c)
  BY OutsideCallback
<1>2. /\ frame'[p] = [child |-> c, old |-> ptr[p], deps |-> ds]
      /\ \A q \in Tasks : q # p => frame'[q] = frame[q]
  BY DEF Generate, FrameInv, ProgramTyped
<1>3. pc'[p] = k /\ pc'[c] = "born" /\ \A q \in Tasks : q # p /\ q # c => pc'[q] = pc[q]
  BY <1>1 DEF FrameInv, ProgramTyped
<1>4. Rests(c)
  BY <1>1, <1>2, <1>3, OutsideCallbackNext DEF Rests
<1>5. \A q \in Tasks : q # p => Rests(q)
  BY <1>2, <1>3, <1>4 DEF Rests
<1> QED
  BY <1>2, <1>3, <1>5, OutsideCallback

\* The steps of one task that the checker does not hear of.
LEMMA SilentSteps ==
  ASSUME FrameInv, IDStep, Course, NEW p \in Tasks,
         \/ \E c \in Tasks : TaskCreateUntied(p, c)
         \/ DependOfUnknown(p) \/ Created(p) \/ Finish(p) \/ TaskwaitEnd(p)
         \/ TaskwaitOfUnknown(p) \/ TaskgroupEnd(p) \/ ImplicitEnd(p)
  PROVE  CheckerStep
<1>0. frame \in [Tasks -> AnyFrame] /\ pc \in [Tasks -> PCs] /\ Framed(p)
  BY DEF FrameInv, ProgramTyped
<1>1. UNCHANGED checkerVars
  BY DEF TaskCreateUntied, DependOfUnknown, Created, Finish, TaskwaitEnd,
         TaskwaitOfUnknown, TaskgroupEnd, ImplicitEnd
<1>2. ASSUME NEW c \in Tasks, TaskCreateUntied(p, c)
      PROVE  \A q \in Tasks : Rests(q)
  <2>1. /\ pc[p] = "run" /\ pc[c] = "unborn" /\ c \in UntiedTasks
        /\ pc' = [pc EXCEPT ![p] = "rename", ![c] = "born"]
    BY <1>2 DEF TaskCreateUntied, MayCreate, Active
  <2>2. PICK ds : Generate(p, c, ds)
    BY <1>2 DEF TaskCreateUntied
  <2>3. /\ ~ForChild(p) /\ ~ForItself(p) /\ \A q \in Tasks : q # p => Rests(q)
        /\ pc'[p] = "rename" /\ frame'[p] = [child |-> c, old |-> ptr[p], deps |-> ds]
    BY <2>1, <2>2, CreateRests
  <2>4. frame'[p].child = c
    BY <2>3
  <2>5. ~ForChild(p)' /\ ~ForItself(p)'
    BY <2>1, <2>3, <2>4 DEF ForChild, ForItself
  <2> QED
    BY <2>3, <2>5 DEF Rests
<1>3. ASSUME DependOfUnknown(p)
      PROVE  \A q \in Tasks : Rests(q)
  <2>1. frame[p].child \in UntiedTasks /\ pc[p] = "depend"
    BY <1>0, <1>3 DEF DependOfUnknown, Framed
  <2>2. pc' = [pc EXCEPT ![p] = "crashed"] /\ UNCHANGED frame
    BY <1>3 DEF DependOfUnknown
  <2>3. pc'[p] = "crashed" /\ \A q \in Tasks : q # p => Rests(q)
    BY <2>2, MoveRests
  <2>4. Rests(p)
    BY <2>1, <2>2, <2>3 DEF Rests, ForChild, ForItself
  <2> QED
    BY <2>3, <2>4
<1>4. ASSUME Created(p)
      PROVE  \A q \in Tasks : Rests(q)
  <2>1. PICK c : c = frame[p].child
    OBVIOUS
  <2>2. /\ pc[p] = "depend" /\ frame[p].deps = << >>
        /\ frame' = [frame EXCEPT ![p] = Idle]
        /\ pc' = [pc EXCEPT ![p] = "run", ![c] = "created"]
    BY <1>4, <2>1 DEF Created
  <2>3. c \in Tasks /\ pc[c] = "born" /\ c # p
    BY <1>0, <2>1, <2>2 DEF Framed, AnyFrame
  <2>4. /\ pc'[p] = "run" /\ pc'[c] = "created" /\ frame'[p] = Idle
        /\ \A q \in Tasks : q # p => frame'[q] = frame[q] /\ (q # c => pc'[q] = pc[q])
    BY <1>0, <2>2, <2>3
  <2>5. Rests(p)
    BY <2>2, <2>4, OutsideCallbackNext DEF Rests, ForChild, ForItself
  <2>6. Rests(c)
    BY <2>3, <2>4, OutsideCallback, OutsideCallbackNext DEF Rests
  <2> QED
    BY <2>4, <2>5, <2>6 DEF Rests
<1>5. ASSUME \/ Finish(p) \/ TaskwaitEnd(p) \/ TaskwaitOfUnknown(p) \/ TaskgroupEnd(p)
             \/ ImplicitEnd(p)
      PROVE  \A q \in Tasks : Rests(q)
  <2>1. pc[p] \in {"run", "joined"}
    BY <1>5 DEF Finish, TaskwaitEnd, TaskwaitOfUnknown, TaskgroupEnd, ImplicitEnd, Active
  <2>2. frame[p] = Idle /\ ~ForChild(p) /\ ~ForItself(p)
    BY <2>1, OutsideCallback
  <2>3. PICK k \in {"run", "done", "crashed", "rename"} : pc' = [pc EXCEPT ![p] = k]
    BY <1>0, <1>5, <2>1
       DEF Finish, TaskwaitEnd, TaskwaitOfUnknown, TaskgroupEnd, ImplicitEnd, Active
  <2>4. UNCHANGED frame \/ \E a : frame' = [frame EXCEPT ![p].old = a]
    BY <1>5 DEF Finish, TaskwaitEnd, TaskwaitOfUnknown, TaskgroupEnd, ImplicitEnd
  <2>5. frame'[p].child = NoTask /\ \A q \in Tasks : q # p => frame'[q] = frame[q]
    BY <1>0, <2>2, <2>4 DEF Idle
  <2>6. pc'[p] = k /\ \A q \in Tasks : q # p => Rests(q)
    BY <2>3, <2>5, MoveRests
  <2>7. Rests(p)
    BY <2>2, <2>5, <2>6, OutsideCallbackNext DEF Rests
  <2> QED
    BY <2>6, <2>7
<1>6. \A q \in Tasks : Rests(q)
  BY <1>2, <1>3, <1>4, <1>5
<1> QED
  BY <1>1, <1>6, AllRest, Stutters

\* The steps of a region that the checker does not hear of.
LEMMA RegionSteps ==
  ASSUME FrameInv, IDStep, Course, NEW k \in DOMAIN Regions, Barrier(k) \/ Join(k)
  PROVE  CheckerStep
<1>1. UNCHANGED <<checkerVars, frame>> /\ \A t \in Regions[k] : pc[t] = "run"
  BY DEF Barrier, Join, AtBarrier
<1>2. \A t \in Tasks : pc'[t] = pc[t] \/ (pc[t] = "run" /\ pc'[t] = "joined")
  BY <1>1 DEF Barrier, Join
<1>3. \A q \in Tasks : pc[q] = "run" /\ pc'[q] = "joined" => Rests(q)
  BY <1>1, OutsideCallback, OutsideCallbackNext DEF Rests
<1>4. \A q \in Tasks : Rests(q)
  BY <1>1, <1>2, <1>3 DEF Rests
<1> QED
  BY <1>1, <1>4, AllRest, Stutters

-----------------------------------------------------------------------------
(* Announcing an ID.                                                       *)

\* The task that gets a TaskInfo gets the next ID.
LEMMA NewID ==
  ASSUME FrameInv, IDStep, NEW t \in Tasks, createNewTaskMetadata(t)
  PROVE  ID(t)' = taskIDSeed
BY NewAddress DEF IDStep

\* The ID of a tied task is set up by the callbacks of its creation.
LEMMA TaskCreateSteps ==
  ASSUME FrameInv, IDStep, Course, IDsDrawn, NEW p \in Tasks, NEW c \in Tasks,
         TaskCreate(p, c)
  PROVE  CheckerStep
<1>1. /\ pc[p] = "run" /\ pc[c] = "unborn" /\ c \notin UntiedTasks
      /\ pc' = [pc EXCEPT ![p] = "send", ![c] = "born"]
      /\ createNewTaskMetadata(c) /\ UNCHANGED logVars
  BY DEF TaskCreate, MayCreate, Active
<1>2. PICK ds : Generate(p, c, ds)
  BY DEF TaskCreate
<1>3. /\ ~ForChild(p) /\ ~ForItself(p) /\ \A q \in Tasks : q # p => Rests(q)
      /\ pc'[p] = "send" /\ frame'[p] = [child |-> c, old |-> ptr[p], deps |-> ds]
  BY <1>1, <1>2, CreateRests
<1>4. frame'[p].child = c /\ c # NoTask
  BY <1>3
<1>5. ForChild(p)' /\ ~ForItself(p)'
  BY <1>1, <1>3, <1>4 DEF ForChild, ForItself
<1>6. PICK i : i = taskIDSeed
  OBVIOUS
<1>7. ID(c)' = i
  BY <1>1, <1>6, NewID
<1>8. \A n : SetsUp(p, n)' <=> SetsUp(p, n) \/ n = i
  BY <1>3, <1>4, <1>5, <1>7 DEF SetsUp
<1>9. \A q \in Tasks : q # p => \A n : SetsUp(q, n)' <=> SetsUp(q, n)
  BY <1>3, RestsSame
<1>10. SetUp' = SetUp \cup {i}
  BY <1>8, <1>9, SetUpGains
<1> QED
  BY <1>1, <1>6, <1>10, Begins

\* That of a task whose creator is unknown is not: the program crashes.
LEMMA TaskCreateByUnknownSteps ==
  ASSUME FrameInv, IDStep, Course, IDsDrawn, NEW p \in Tasks, NEW c \in Tasks,
         TaskCreateByUnknown(p, c)
  PROVE  CheckerStep
<1>1. /\ pc[p] = "run" /\ pc[c] = "unborn" /\ Generate(p, c, << >>) /\ UNCHANGED logVars
      /\ pc' = [pc EXCEPT ![p] = "crashed", ![c] = "born"]
  BY DEF TaskCreateByUnknown, MayCreate, Active
<1>2. /\ ~ForChild(p) /\ ~ForItself(p) /\ \A q \in Tasks : q # p => Rests(q)
      /\ pc'[p] = "crashed" /\ frame'[p] = [child |-> c, old |-> ptr[p], deps |-> << >>]
  BY <1>1, CreateRests
<1>3. ~ForChild(p)' /\ ~ForItself(p)'
  BY <1>2 DEF ForChild, ForItself
<1>4. SetUp' = SetUp
  BY <1>2, <1>3, AllRest DEF Rests
<1>5. CASE c \in UntiedTasks
  <2>1. UNCHANGED checkerVars
    BY <1>1, <1>5 DEF TaskCreateByUnknown, checkerVars, graphVars, logVars
  <2> QED
    BY <1>4, <2>1, Stutters
<1>6. CASE c \notin UntiedTasks
  <2>1. createNewTaskMetadata(c)
    BY <1>6 DEF TaskCreateByUnknown
  <2> QED
    BY <1>1, <1>4, <2>1, Begins
<1> QED
  BY <1>5, <1>6

\* The new ID of a segment is set up by the callback.
LEMMA RenameSteps ==
  ASSUME FrameInv, IDStep, Course, IDsDrawn, NEW p \in Tasks, Rename(p)
  PROVE  CheckerStep
<1>1. /\ pc[p] = "rename" /\ pc' = [pc EXCEPT ![p] = "adopt"]
      /\ UNCHANGED <<frame, logVars>> /\ createNewTaskMetadata(p)
  BY DEF Rename
<1>2. pc'[p] = "adopt" /\ \A q \in Tasks : q # p => Rests(q)
  BY <1>1, MoveRests
<1>3. PICK c, i : c = frame[p].child /\ i = taskIDSeed
  OBVIOUS
<1>4. ID(p)' = i
  BY <1>1, <1>3, NewID
<1>5. ForChild(p) => ID(c)' = ID(c)
  <2>1. ForChild(p) => c \in Tasks /\ pc[c] = "born" /\ Known(c)
    BY <1>3, ChildOf DEF ForChild
  <2>2. ForChild(p) => ptr'[c] = ptr[c]
    BY <2>1 DEF Course, InfoWhen
  <2> QED
    BY <2>1, <2>2 DEF IDStep
<1>6. (ForChild(p)' <=> ForChild(p)) /\ ForItself(p)' /\ ~ForItself(p)
  BY <1>1, <1>2 DEF ForChild, ForItself
<1>7. \A n : SetsUp(p, n)' <=> SetsUp(p, n) \/ n = i
  <2>1. frame'[p].child = c
    BY <1>1, <1>3
  <2> QED
    BY <1>3, <1>4, <1>5, <1>6, <2>1 DEF SetsUp
<1>8. \A q \in Tasks : q # p => \A n : SetsUp(q, n)' <=> SetsUp(q, n)
  BY <1>2, RestsSame
<1>9. SetUp' = SetUp \cup {i}
  BY <1>7, <1>8, SetUpGains
<1> QED
  BY <1>1, <1>3, <1>9, Begins

\* A task that begins to run has an ID that gets no edges.
LEMMA BeginSteps ==
  ASSUME FrameInv, IDStep, Course, IDsDrawn, NEW p \in Tasks,
         TaskSchedule(p) \/ \E k \in DOMAIN Regions : ImplicitBegin(p, k)
  PROVE  CheckerStep
<1>1. /\ pc[p] \in {"created", "unborn"} /\ pc' = [pc EXCEPT ![p] = "run"]
      /\ UNCHANGED <<frame, logVars>>
      /\ createNewTaskMetadata(p) \/ UNCHANGED graphVars
  BY DEF TaskSchedule, ImplicitBegin
<1>2. pc'[p] = "run" /\ \A q \in Tasks : q # p => Rests(q)
  BY <1>1, MoveRests
<1>3. frame'[p] = Idle /\ ~ForChild(p) /\ ~ForItself(p)
  BY <1>1, OutsideCallback
<1>4. Rests(p)
  BY <1>2, <1>3, OutsideCallbackNext DEF Rests
<1>5. SetUp' = SetUp
  BY <1>2, <1>4, AllRest
<1>6. CASE createNewTaskMetadata(p)
  BY <1>1, <1>5, <1>6, Begins
<1>7. CASE UNCHANGED graphVars
  BY <1>1, <1>5, <1>7, Stutters DEF checkerVars, graphVars, logVars
<1> QED
  BY <1>1, <1>6, <1>7

-----------------------------------------------------------------------------
(* Setting up an ID.                                                       *)

\* A callback goes on with an ID, or is ready with it.
LEMMA LosesOrNot ==
  ASSUME FrameInv, IDStep, Course, NEW o, Owners(o), NEW p \in Tasks, NEW i, SetsUp(p, i),
         \/ \A n : SetsUp(p, n)' <=> SetsUp(p, n)
         \/ \A n : SetsUp(p, n)' <=> SetsUp(p, n) /\ n # i,
         \A q \in Tasks : q # p => Rests(q)
  PROVE  i \in SetUp /\ SetUp' \in { SetUp, SetUp \ {i} }
<1>1. i \in SetUp
  BY SetUpBySomebody
<1>2. \A q \in Tasks : q # p => \A n : SetsUp(q, n)' <=> SetsUp(q, n)
  BY RestsSame
<1>3. CASE \A n : SetsUp(p, n)' <=> SetsUp(p, n)
  <2>1. \A q \in Tasks : \A n : SetsUp(q, n)' <=> SetsUp(q, n)
    BY <1>2, <1>3
  <2>2. SetUp' = SetUp
    BY <2>1, SetUpRests
  <2> QED
    BY <1>1, <2>2
<1>4. CASE \A n : SetsUp(p, n)' <=> SetsUp(p, n) /\ n # i
  <2>1. SetUp' = SetUp \ {i}
    BY <1>2, <1>4, SetUpLoses
  <2> QED
    BY <1>1, <2>1
<1> QED
  BY <1>3, <1>4

\* The creator sends its token.
LEMMA SendToChildSteps ==
  ASSUME FrameInv, IDStep, Course, NEW p \in Tasks, SendToChild(p)
  PROVE  CheckerStep
<1>1. /\ pc[p] = "send" /\ pc' = [pc EXCEPT ![p] = "receive"]
      /\ UNCHANGED <<info, ptr, frame>> /\ UNCHANGED checkerVars
  BY DEF SendToChild, TaskSendTokenLog, graphVars, logVars, infoVars, checkerVars
<1>2. pc'[p] = "receive" /\ \A q \in Tasks : q # p => Rests(q)
  BY <1>1, MoveRests
<1>3. \A q \in Tasks : q # p => \A n : SetsUp(q, n)' <=> SetsUp(q, n)
  BY <1>2, RestsSame
<1>4. \A n : SetsUp(p, n)' <=> SetsUp(p, n)
  BY <1>1, <1>2 DEF SetsUp, ForChild, ForItself, ID
<1>5. SetUp' = SetUp
  BY <1>3, <1>4, SetUpRests
<1> QED
  BY <1>1, <1>5, Stutters

\* The child receives it, and is ready unless it has dependences.
LEMMA ChildReceivesSteps ==
  ASSUME FrameInv, IDStep, Course, BagInv, NEW o, OwnedInv(o),
         NEW p \in Tasks, ChildReceives(p)
  PROVE  CheckerStep
<1> PICK c : c = frame[p].child
  OBVIOUS
<1> PICK i : i = ID(c)
  OBVIOUS
<1>0. Owners(o) /\ CallbackInv(o) /\ ReceivesOwn(o)
  BY DEF OwnedInv, TokenInv
<1>1. /\ pc[p] = "receive" /\ pc' = [pc EXCEPT ![p] = "rename"]
      /\ UNCHANGED <<frame, ptr, logVars>> /\ TaskReceiveTokenLog(i, ptr[p])
  BY DEF ChildReceives
<1>2. /\ c \in Tasks /\ c \notin UntiedTasks /\ c # NoTask
      /\ Known(c) /\ Known(p) /\ i \in TaskIDs
  <2>1. frame[p] \in AnyFrame /\ Framed(p)
    BY DEF FrameInv, ProgramTyped
  <2>2. c \in Tasks /\ c \notin UntiedTasks /\ c # NoTask /\ Known(c) /\ Known(p)
    BY <1>1, <2>1 DEF Framed, AnyFrame
  <2> QED
    BY <2>2, KnownID DEF FrameInv
<1>3. pc'[p] = "rename" /\ \A q \in Tasks : q # p => Rests(q)
  BY <1>1, MoveRests
<1>4. ID(c)' = i /\ frame'[p] = frame[p] /\ frame'[p].child = c
  BY <1>1, <1>2 DEF IDStep
<1>5. ForChild(p) /\ ~ForItself(p) /\ ~ForItself(p)'
  BY <1>1, <1>2, <1>3 DEF ForChild, ForItself
<1>6. \A n : SetsUp(p, n) <=> n = i
  BY <1>5 DEF SetsUp
<1>7. \A n : SetsUp(p, n)' <=> ForChild(p)' /\ n = i
  BY <1>4, <1>5 DEF SetsUp
<1>8. i \in SetUp /\ SetUp' \in { SetUp, SetUp \ {i} }
  BY <1>0, <1>3, <1>6, <1>7, LosesOrNot
<1>9. idMap[ptr[p]] \notin {NoID, i} => ~Open(idMap[ptr[p]])
  BY <1>0, ChildReceivesSound DEF CallbackInv, SoundEdge
<1>10. ptr[p] \in Keys
  BY <1>2, KnownID DEF FrameInv, Keys
<1> QED
  BY <1>1, <1>2, <1>8, <1>9, <1>10, ReceiveSteps

\* A segment is ordered after the one it continues, and is ready unless it follows a
\* taskwait.
LEMMA AdoptSteps ==
  ASSUME FrameInv, IDStep, Course, BagInv, NEW o, OwnedInv(o), NEW p \in Tasks, Adopt(p)
  PROVE  CheckerStep
<1> PICK c : c = frame[p].child
  OBVIOUS
<1> PICK i : i = ID(p)
  OBVIOUS
<1>0. Owners(o) /\ ReceivesOwn(o)
  BY DEF OwnedInv, TokenInv
<1>1. /\ pc[p] = "adopt" /\ UNCHANGED <<frame, ptr, info, logVars>>
      /\ pc' = [pc EXCEPT ![p] = IF c = NoTask THEN "saveChildren" ELSE "depend"]
      /\ TaskReceiveTokenLog(i, frame[p].old)
  BY DEF Adopt
<1>2. Known(p) /\ i \in TaskIDs /\ frame[p].old \in Keys
  BY <1>1, KnownID DEF FrameInv, Framed, InfoTyped, Keys
<1>3. /\ pc'[p] = (IF c = NoTask THEN "saveChildren" ELSE "depend")
      /\ \A q \in Tasks : q # p => Rests(q)
  BY <1>1, MoveRests
<1>4. /\ ID(c)' = ID(c) /\ ID(p)' = i /\ frame'[p] = frame[p] /\ frame'[p].child = c
      /\ ForItself(p) /\ (ForItself(p)' <=> c = NoTask) /\ (ForChild(p)' <=> ForChild(p))
  BY <1>1, <1>3 DEF ForItself, ForChild, ID
<1>5. ForChild(p) => ID(c) # i
  <2>1. ForChild(p) => c \in Tasks /\ Known(c) /\ pc[c] = "born"
    BY ChildOf DEF ForChild
  <2> QED
    BY <1>0, <1>1, <1>2, <2>1 DEF Owners
<1>6. \A n : SetsUp(p, n) <=> (ForChild(p) /\ n = ID(c)) \/ n = i
  BY <1>4 DEF SetsUp
<1>7. \A n : SetsUp(p, n)' <=> (ForChild(p) /\ n = ID(c)) \/ (c = NoTask /\ n = i)
  BY <1>4 DEF SetsUp
<1>8. i \in SetUp /\ SetUp' \in { SetUp, SetUp \ {i} }
  <2>1. SetsUp(p, i)
    BY <1>6
  <2>2. \/ \A n : SetsUp(p, n)' <=> SetsUp(p, n)
        \/ \A n : SetsUp(p, n)' <=> SetsUp(p, n) /\ n # i
    BY <1>5, <1>6, <1>7
  <2> QED
    BY <1>0, <1>3, <2>1, <2>2, LosesOrNot
<1>9. idMap[frame[p].old] \notin {NoID, i} => ~Open(idMap[frame[p].old])
  BY <1>0, AdoptSound DEF SoundEdge
<1> QED
  BY <1>1, <1>2, <1>8, <1>9, ReceiveSteps

\* A new task sends and receives tokens, and is ready after the last one.
LEMMA DependSteps ==
  ASSUME FrameInv, Unborn, IDStep, Course, BagInv, BornTied, SiblingsDepend,
         NEW o, OwnedInv(o), NEW p \in Tasks, Depend(p)
  PROVE  CheckerStep
<1> PICK c, a : c = frame[p].child /\ a = Head(frame[p].deps).addr
  OBVIOUS
<1> PICK i : i = ID(c)
  OBVIOUS
<1>0. Owners(o) /\ CallbackInv(o) /\ TokenInv(o) /\ DepsLeft
  BY DEF OwnedInv, CallbackInv
<1>1. /\ pc[p] = "depend" /\ frame[p].deps # << >> /\ UNCHANGED <<pc, ptr, info, logVars>>
      /\ \E r : frame' = [frame EXCEPT ![p].deps = r]
      /\ TaskSendTokenLog(i, a) \/ TaskReceiveTokenLog(i, a)
  BY DEF Depend, infoVars
<1>2. c \in Tasks /\ pc[c] = "born" /\ Known(c) /\ a \in Keys /\ a \in DepAddrs
  <2>1. Head(frame[p].deps) \in AnyDep
    BY <1>0, HeadOfDeps
  <2>2. a \in DepAddrs
    BY <2>1 DEF AnyDep
  <2> QED
    BY <1>0, <2>2, HeadOfDeps DEF Keys
<1>3. i \in TaskIDs /\ c \notin UntiedTasks /\ c # NoTask
  BY <1>2, KnownID DEF FrameInv, BornTied
<1>4. /\ frame'[p].child = c /\ \A q \in Tasks : q # p => frame'[q] = frame[q]
  BY <1>1 DEF FrameInv, ProgramTyped, AnyFrame
<1>5. \A q \in Tasks : q # p => Rests(q)
  BY <1>1, <1>4 DEF Rests
<1>6. ForChild(p) /\ ~ForItself(p) /\ ~ForItself(p)' /\ ID(c)' = i
  BY <1>1, <1>3 DEF ForChild, ForItself, ID
<1>7. \A n : SetsUp(p, n) <=> n = i
  BY <1>6 DEF SetsUp
<1>8. \A n : SetsUp(p, n)' <=> ForChild(p)' /\ n = i
  BY <1>4, <1>6 DEF SetsUp
<1>9. i \in SetUp /\ SetUp' \in { SetUp, SetUp \ {i} }
  BY <1>0, <1>5, <1>7, <1>8, LosesOrNot
<1>10. CASE TaskSendTokenLog(i, a)
  <2>1. UNCHANGED checkerVars
    BY <1>1, <1>10 DEF TaskSendTokenLog, graphVars, logVars, checkerVars
  <2> QED
    BY <1>3, <1>9, <2>1, Readies
<1>11. CASE TaskReceiveTokenLog(i, a)
  <2>1. TokenFrom(o, a)
    BY <1>0, <1>2 DEF TokenInv
  <2>2. idMap[a] \notin {NoID, i} => ~Open(idMap[a])
    BY <1>0, <2>1, DependSound DEF CallbackInv, SoundEdge
  <2> QED
    BY <1>1, <1>2, <1>3, <1>9, <1>11, <2>2, ReceiveSteps
<1> QED
  BY <1>1, <1>10, <1>11

\* After a taskwait a segment is ordered after the children, and is ready.
LEMMA SaveChildrenSteps ==
  ASSUME FrameInv, IDStep, Course, BagInv, NEW o, OwnedInv(o), NEW p \in Tasks,
         SaveChildren(p)
  PROVE  CheckerStep
<1> PICK i : i = ID(p)
  OBVIOUS
<1> PICK P : P = info[ptr[p]].childrenIDs
  OBVIOUS
<1>0. Owners(o) /\ ChildrenOver /\ ChildIDsOwned(o)
  BY DEF OwnedInv, CallbackInv
<1>1. /\ pc[p] = "saveChildren" /\ saveChildHBs(p) /\ UNCHANGED logVars
      /\ frame' = [frame EXCEPT ![p] = Idle] /\ pc' = [pc EXCEPT ![p] = "run"]
  BY DEF SaveChildren
<1>2. Known(p) /\ frame[p].child = NoTask /\ i \in TaskIDs /\ P \in SUBSET bagged
  BY <1>1, KnownID DEF FrameInv, Framed, BagInv, TokensHaveBags, Known
<1>3. frame'[p] = Idle /\ \A q \in Tasks : q # p => frame'[q] = frame[q]
  BY <1>1 DEF FrameInv, ProgramTyped
<1>4. pc'[p] = "run" /\ \A q \in Tasks : q # p => Rests(q)
  BY <1>1, <1>3, MoveRests
<1>5. ForItself(p) /\ ~ForChild(p) /\ ~ForItself(p)' /\ ~ForChild(p)'
  BY <1>1, <1>2, <1>3, <1>4, OutsideCallbackNext DEF ForItself, ForChild
<1>6. SetsUp(p, i) /\ \A n : SetsUp(p, n)' <=> SetsUp(p, n) /\ n # i
  BY <1>5 DEF SetsUp
<1>7. i \in SetUp /\ SetUp' \in { SetUp, SetUp \ {i} }
  BY <1>0, <1>4, <1>6, LosesOrNot
<1>8. CASE P = {}
  <2>1. UNCHANGED checkerVars
    BY <1>1, <1>8 DEF saveChildHBs, graphVars, logVars, checkerVars
  <2> QED
    BY <1>2, <1>7, <2>1, Readies
<1>9. CASE P # {}
  <2>1. Checker!saveHappensBeforeEdges(P, i)
    BY <1>1, <1>9 DEF saveChildHBs
  <2>2. \A m \in P : ~Open(m)
    BY <1>0, SaveChildrenSound DEF SoundEdge
  <2> QED
    BY <1>1, <1>2, <1>7, <1>9, <2>1, <2>2, Orders
<1> QED
  BY <1>8, <1>9

-----------------------------------------------------------------------------
(* Accesses.                                                               *)

\* An access is logged under an ID that is ready and precedes none that was used.
LEMMA AccessSteps ==
  ASSUME FrameInv, IDStep, Course, BagInv, NEW o, OwnedInv(o), StartedInv(o),
         NEW p \in Tasks, Access(p)
  PROVE  CheckerStep
<1> PICK i : i = ID(p)
  OBVIOUS
<1>0. Owners(o) /\ BagsOwned(o)
  BY DEF OwnedInv, GraphInv
<1>1. pc[p] = "run" /\ Known(p) /\ UNCHANGED <<graphVars, pc, frame>>
  BY DEF Access
<1>2. SetUp' = SetUp
  BY <1>1, AllRest DEF Rests
<1>3. i \in bagged
  BY <1>1 DEF BagInv
<1>4. i \notin SetUp
  <2>1. o[i] = p
    BY <1>0, <1>1 DEF Owners
  <2>2. ~Open(i)
    BY <1>0, <1>1, <2>1, OpenOwner DEF OpenPCs
  <2> QED
    BY <2>2, SetUpIsOpen
<1>5. \A s \in Checker!Started : i \notin HB[s]
  BY <1>0, <1>1, AccessInOrder
<1>6. PICK act \in Checker!Action :
        /\ act.task = i /\ (act.isWrite \/ act.value = 0)
        /\ Len(accesses[act.addr]) < MaxAccesses
        /\ Checker!saveTaskActions(act)
        /\ accesses' = [accesses EXCEPT ![act.addr] = Append(@, act)]
  BY DEF Access
<1>7. Checker!Access(act)
  BY <1>1, <1>2, <1>3, <1>4, <1>5, <1>6 DEF Checker!Access, Checker!graphVars, graphVars
<1> QED
  BY <1>6, <1>7 DEF CheckerStep, Checker!Next

-----------------------------------------------------------------------------
(* The callbacks keep the checker's contract.                              *)

\* Whose the IDs are, which have started, and what has a bag.
ContractInv ==
  FrameInv /\ Unborn /\ BagInv /\ \E o : OwnedInv(o) /\ StartedInv(o)

\* It holds at first.
LEMMA InitContract == Init => ContractInv
<1> SUFFICES ASSUME Init PROVE ContractInv
  OBVIOUS
<1>1. ProgramOrderInv /\ BagInv
  BY InitProgramOrder, InitBagInv
<1>2. PICK o : OwnedInv(o)
  BY <1>1 DEF ProgramOrderInv
<1>3. StartedInv(o)
  BY InitStartedInv
<1> QED
  BY <1>1, <1>2, <1>3 DEF ContractInv, ProgramOrderInv

\* It is inductive.
LEMMA NextContract ==
  ASSUME OwnAddresses, OwnTokens, SiblingsDepend, ContractInv, [Next]_vars
  PROVE  ContractInv'
<1>1. FrameInv /\ Unborn /\ BagInv
  BY DEF ContractInv
<1>2. PICK o : OwnedInv(o) /\ StartedInv(o)
  BY DEF ContractInv
<1>3. PICK w : Extends(o, w) /\ OwnedInv(w)'
  BY <1>1, <1>2, NextOwned
<1>4. Owners(o) /\ Owners(w)'
  BY <1>2, <1>3 DEF OwnedInv
<1>5. StartedInv(w)'
  BY <1>1, <1>2, <1>3, <1>4, NextStartedInv
<1>6. FrameInv' /\ Unborn'
  BY <1>1, NextUnowned
<1>7. BagInv'
  BY <1>1, StepKinds, NextBagInv
<1> QED
  BY <1>3, <1>5, <1>6, <1>7 DEF ContractInv

\* The checker begins as it should, ...
LEMMA RefinesInit == Init => Checker!Init
<1> SUFFICES ASSUME Init PROVE Checker!Init
  OBVIOUS
<1>1. \A p \in Tasks : frame[p] = Idle /\ pc[p] \in {"run", "unborn"}
  BY DEF Init
<1>2. \A p \in Tasks : \A n : ~SetsUp(p, n)
  BY <1>1 DEF SetsUp, ForChild, ForItself, Idle
<1>3. SetUp = {}
  BY <1>2, SetUpBySomebody
<1> QED
  BY <1>3 DEF Init, Checker!Init

\* ... and every step of the program is a step of the checker, or none.
LEMMA RefinesStep ==
  ASSUME SiblingsDepend, ContractInv, [Next]_vars
  PROVE  CheckerStep
<1>1. FrameInv /\ Unborn /\ BagInv
  BY DEF ContractInv
<1>2. PICK o : OwnedInv(o) /\ StartedInv(o)
  BY DEF ContractInv
<1>3. IDsDrawn /\ BornTied
  BY <1>2 DEF StartedInv
<1>4. IDStep /\ Course
  BY <1>1, StepIDs, StepCourse
<1>5. ASSUME NEW t \in Tasks, NEW c \in Tasks,
             TaskCreate(t, c) \/ TaskCreateUntied(t, c) \/ TaskCreateByUnknown(t, c)
      PROVE  CheckerStep
  BY <1>1, <1>3, <1>4, <1>5, TaskCreateSteps, SilentSteps, TaskCreateByUnknownSteps
<1>6. ASSUME NEW t \in Tasks,
             \/ SendToChild(t) \/ ChildReceives(t) \/ Rename(t) \/ Adopt(t)
             \/ Depend(t) \/ SaveChildren(t)
      PROVE  CheckerStep
  BY <1>1, <1>2, <1>3, <1>4, <1>6, SendToChildSteps, ChildReceivesSteps, RenameSteps,
     AdoptSteps, DependSteps, SaveChildrenSteps
<1>7. ASSUME NEW t \in Tasks,
             \/ DependOfUnknown(t) \/ Created(t) \/ Finish(t) \/ TaskwaitEnd(t)
             \/ TaskwaitOfUnknown(t) \/ TaskgroupEnd(t) \/ ImplicitEnd(t)
      PROVE  CheckerStep
  BY <1>1, <1>4, <1>7, SilentSteps
<1>8. ASSUME NEW t \in Tasks, TaskSchedule(t)
      PROVE  CheckerStep
  BY <1>1, <1>3, <1>4, <1>8, BeginSteps
<1>9. ASSUME NEW t \in Tasks, Access(t)
      PROVE  CheckerStep
  BY <1>1, <1>2, <1>4, <1>9, AccessSteps
<1>10. ASSUME NEW k \in DOMAIN Regions, NEW t \in Regions[k], ImplicitBegin(t, k)
       PROVE  CheckerStep
  <2>1. t \in Tasks
    OBVIOUS
  <2> QED
    BY <1>1, <1>3, <1>4, <1>10, <2>1, BeginSteps
<1>11. ASSUME NEW k \in DOMAIN Regions, Barrier(k) \/ Join(k)
       PROVE  CheckerStep
  BY <1>1, <1>4, <1>11, RegionSteps
<1>12. CASE UNCHANGED vars
  <2>1. UNCHANGED checkerVars /\ \A q \in Tasks : Rests(q)
    BY <1>12 DEF vars, Rests
  <2> QED
    BY <1>1, <1>4, <2>1, AllRest, Stutters
<1> QED
  BY <1>5, <1>6, <1>7, <1>8, <1>9, <1>10, <1>11, <1>12 DEF Next

\* The run-time drives the checker as the checker's specification asks, however the
\* callbacks interleave (OMPTCallbacks.h:115-249 with Logger.h:113-177 and Util.h:20-50):
\* under the hypotheses of NoFalseOrder.
THEOREM ContractKept ==
  ASSUME OwnAddresses, OwnTokens
  PROVE  Spec /\ []SiblingsDepend => CheckerSpec
<1>1. Init => ContractInv /\ Checker!Init
  BY InitContract, RefinesInit
<1>2. ContractInv /\ SiblingsDepend /\ [Next]_vars => ContractInv'
  BY NextContract
<1>3. ContractInv /\ SiblingsDepend /\ [Next]_vars => [Checker!Next]_(Checker!vars)
  BY RefinesStep DEF CheckerStep
<1> QED
  BY <1>1, <1>2, <1>3, PTL DEF Spec, CheckerSpec, Checker!Spec
=============================================================================
