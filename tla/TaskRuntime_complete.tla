------------------------- MODULE TaskRuntime_complete -------------------------
(***************************************************************************)
(* Proof that the order the checker knows is complete: everything OpenMP   *)
(* orders before a running segment is in its bag, so no race is reported   *)
(* that does not exist.                                                    *)
(*                                                                         *)
(* The hypotheses leave out what the callbacks lose: barriers, taskgroups, *)
(* further parallel regions and untied tasks (PlainProgram); dependences   *)
(* of a writer on readers, or through a pure `out` (FlowDependences); and  *)
(* waiting, by taskwait or by a dependence, for a task that creates tasks  *)
(* or waits itself (ChangingUnawaited), as MCNestedWait shows.  They leave *)
(* out too what the proof of soundness cannot do without: stray tokens at  *)
(* addresses given out again (OwnAddresses, OwnTokens) and variables in    *)
(* the depend clauses of tasks that are not siblings (SiblingsDepend).     *)
(***************************************************************************)
EXTENDS TaskRuntime_proofs, WellFoundedInduction

USE TasksAssumption

-----------------------------------------------------------------------------
(* The hypotheses.                                                         *)

\* There is one parallel region, its only synchronisation is by taskwait and
\* dependences, and every task gets its metadata when it is created.
PlainProgram == DOMAIN Regions \subseteq {1} /\ IgnoredSyncs = {} /\ UntiedTasks = {}

\* The i-th clause of task c is its first one on a variable, which it reads, and which
\* task s writes.
FlowClause(s, c, i) ==
  /\ depsOf[c][i].type # "out"
  /\ \A j \in 1 .. i - 1 : depsOf[c][j].addr # depsOf[c][i].addr
  /\ \E k \in DOMAIN depsOf[s] :
       depsOf[s][k].addr = depsOf[c][i].addr /\ depsOf[s][k].type # "in"

\* A task waits only for tasks that write what it reads.
FlowDependences ==
  \A c \in Tasks : \A s \in preds[c] : \E i \in DOMAIN depsOf[c] : FlowClause(s, c, i)

\* The tasks that may get a second ID, ...
Changing == Producers \cup Waiters

\* ... and nobody waits for one of them, by taskwait or by a dependence.
ChangingUnawaited ==
  \A c \in ExplicitTasks \cap Changing :
    parent[c] \notin Waiters /\ \A s \in Tasks : c \notin preds[s]

FlowProgram == SiblingsDepend /\ FlowDependences /\ ChangingUnawaited

-----------------------------------------------------------------------------
(* The invariant.                                                          *)

\* What comes before a segment that is ordered after n.
Behind(n) == {n} \cup HB[n]
Kids(t)   == UNION { Behind(n) : n \in info[ptr[t]].childrenIDs }

\* A task that has been created and keeps its ID.
Ready(s) == s \in ExplicitTasks \ Changing /\ pc[s] \notin {"unborn", "born"}

\* Only explicit tasks are created, by tasks that have started, and after the tasks
\* they wait for.
Generations ==
  /\ \A t \in Tasks : /\ pc[t] # "unborn" /\ t \notin InitialTasks => Known(t)
                      /\ pc[t] \in {"born", "created"} => t \in ExplicitTasks
  /\ \A c \in Tasks : parent[c] # NoTask => c \in ExplicitTasks /\ ~Waits(parent[c])
  /\ \A c \in Tasks : \A s \in preds[c] : s \in ExplicitTasks
                                          /\ pc[s] \notin {"unborn", "born"}

CreatePCs == {"send", "receive", "rename", "adopt", "depend"}
WaitPCs   == {"rename", "adopt", "saveChildren"}
RestPCs   == {"created", "run", "send", "receive", "depend", "joined", "done"}

\* The past of a task is in its bag; while it changes its ID after a creation, behind
\* the token of its old segment; after a taskwait, in the bag and behind its children.
SegmentSeen(t) ==
  /\ pc[t] \in CreatePCs \cup WaitPCs => t \in Changing
  /\ pc[t] \in RestPCs /\ Known(t) => before[t] \subseteq HB[ID(t)]
  /\ frame[t].child # NoTask =>
       /\ pc[t] = "rename" => before[t] \subseteq HB[ID(t)]
       /\ pc[t] \in {"receive", "rename"} => idMap[ptr[t]] = ID(t)
       /\ pc[t] = "adopt" => /\ idMap[frame[t].old] \notin {NoID, ID(t)}
                             /\ before[t] \subseteq Behind(idMap[frame[t].old])
  /\ pc[t] \in WaitPCs /\ frame[t].child = NoTask =>
       /\ t \in Waiters /\ before[t] \subseteq HB[ID(t)] \cup Kids(t)
       /\ pc[t] = "rename" => ID(t) \in info[ptr[t]].childrenIDs

\* The callback of p has handled the first of the clauses of c; of the next one, an
\* inout, it may have received the token.
HandledBy(p, c) == Len(depsOf[c]) - Len(frame[p].deps)

Received(p, c) ==
  LET m == HandledBy(p, c)
  IN  /\ frame[p].deps # << >> /\ frame[p].deps[1] # depsOf[c][m + 1]
      /\ frame[p].deps[1].addr = depsOf[c][m + 1].addr
      /\ frame[p].deps[1].type = "out" /\ depsOf[c][m + 1].type = "inout"

ClausesLeft(p, c) ==
  LET m == HandledBy(p, c)
  IN  /\ m \in 0 .. Len(depsOf[c])
      /\ \A j \in DOMAIN frame[p].deps :
           frame[p].deps[j] = depsOf[c][m + j] \/ (j = 1 /\ Received(p, c))
      /\ pc[p] # "depend" => m = 0 /\ ~Received(p, c)

\* The tokens of c are those of the clauses handled that write, ...
TokensSent(p, c) ==
  LET m == HandledBy(p, c)
  IN  /\ \A j \in 1 .. m : depsOf[c][j].type # "in" => idMap[depsOf[c][j].addr] = ID(c)
      /\ \A x \in DepAddrs :
           idMap[x] = ID(c) => \E j \in 1 .. m : depsOf[c][j].addr = x

\* ... and the bag of c has what came with the tokens received.
TokensReceived(p, c) ==
  \A s \in preds[c] : \A i \in DOMAIN depsOf[c] :
    /\ FlowClause(s, c, i)
    /\ i <= HandledBy(p, c) \/ (i = HandledBy(p, c) + 1 /\ Received(p, c))
    => Behind(ID(s)) \subseteq HB[ID(c)]

\* What the creator has behind it is in the bag of the new task, once that has received
\* the creator's token.
CreationSeen(p, c) ==
  /\ pc[p] \in {"send", "receive"} => before[c] \subseteq before[p] \cup {ID(p)}
  /\ pc[p] \in {"rename", "adopt", "depend"} => before[c] \subseteq HB[ID(c)]
  /\ pc[p] \in CreatePCs => ClausesLeft(p, c) /\ TokensSent(p, c) /\ TokensReceived(p, c)

CreationsSeen == \A p, c \in Tasks : frame[p].child = c => CreationSeen(p, c)

\* A task that waits has the IDs of its children, or has them behind it.
ChildrenKept ==
  \A t, c \in Tasks : parent[c] = t /\ t \in Waiters /\ Known(t) =>
    \/ frame[t].child = c /\ pc[t] \in {"send", "receive"}
    \/ ID(c) \in info[ptr[t]].childrenIDs
    \/ pc[c] = "done" /\ Past(c) \subseteq before[t]

\* What comes with the token of a variable has all that wrote the variable, unless the
\* sender is still being created.
InProgress(x) == \E l \in Tasks : pc[l] = "born" /\ Known(l) /\ idMap[x] = ID(l)

WritersCovered(x) ==
  \A s \in Tasks : \A k \in DOMAIN depsOf[s] :
    Ready(s) /\ depsOf[s][k].addr = x /\ depsOf[s][k].type # "in" =>
      idMap[x] # NoID /\ Behind(ID(s)) \subseteq Behind(idMap[x])

TokensCover == \A x \in DepAddrs : InProgress(x) \/ WritersCovered(x)

\* A task that waits for others has them in its bag.
PredsSeen ==
  \A c \in Tasks : pc[c] = "created" => \A s \in preds[c] : Behind(ID(s)) \subseteq HB[ID(c)]

SeenInv == /\ Generations /\ (\A t \in Tasks : SegmentSeen(t)) /\ CreationsSeen
           /\ ChildrenKept /\ TokensCover /\ PredsSeen

-----------------------------------------------------------------------------
(* What a step does to the bags.                                           *)

\* No bag shrinks, and only that of n grows.
BagStep(n) ==
  \A i \in TaskIDs : HB[i] \subseteq HB'[i] /\ (i # n => HB'[i] = HB[i])

\* A new ID is announced.
LEMMA CreateBag ==
  ASSUME INSTyped, BagsGrow, NEW t \in Tasks, createNewTaskMetadata(t)
  PROVE  BagStep(taskIDSeed) /\ idMap' = idMap
<1>1. taskIDSeed \in TaskIDs /\ Checker!onTaskCreate(taskIDSeed) /\ idMap' = idMap
  BY DEF createNewTaskMetadata
<1>2. HB' = HB \/ HB' = [HB EXCEPT ![taskIDSeed] =
                           Checker!InheritedHB(edges, HB, taskIDSeed)]
  BY <1>1 DEF Checker!onTaskCreate
<1> QED
  BY <1>1, <1>2 DEF BagStep, BagsGrow, INSTyped

\* Edges into n bring what is behind them into its bag.
LEMMA EdgesBag ==
  ASSUME INSTyped, BagsGrow, NEW n \in TaskIDs, NEW P \in SUBSET TaskIDs,
         Checker!saveHappensBeforeEdges(P, n)
  PROVE  BagStep(n) /\ \A m \in P : Behind(m) \subseteq HB'[n]
<1> PICK E : E = edges \cup (P \X {n})
  OBVIOUS
<1>1. HB' = [HB EXCEPT ![n] = Checker!InheritedHB(E, HB, n)]
  BY DEF Checker!saveHappensBeforeEdges
<1>2. Checker!InheritedHB(edges, HB, n) \subseteq Checker!InheritedHB(E, HB, n)
  BY InheritedGrows
<1>3. \A m \in P : m \in Checker!inEdges(E, n)
  BY DEF Checker!inEdges
<1>4. ASSUME NEW m \in P
      PROVE  Behind(m) \subseteq Checker!InheritedHB(E, HB, n)
  <2>1. m \in Checker!inEdges(E, n)
    BY <1>3
  <2>2. HB[m] \subseteq UNION { HB[p] : p \in Checker!inEdges(E, n) }
    BY <2>1
  <2> QED
    BY <2>1, <2>2 DEF Checker!InheritedHB, Behind
<1> QED
  BY <1>1, <1>2, <1>4 DEF BagStep, BagsGrow, INSTyped

\* A token brings what is behind its sender.
LEMMA ReceiveBag ==
  ASSUME INSTyped, BagsGrow, NEW n \in TaskIDs, NEW key \in Keys,
         TaskReceiveTokenLog(n, key)
  PROVE  /\ BagStep(n) /\ idMap' = idMap
         /\ idMap[key] \notin {NoID, n} => Behind(idMap[key]) \subseteq HB'[n]
<1>1. idMap' = idMap
  BY DEF TaskReceiveTokenLog
<1>2. CASE idMap[key] \in {NoID, n}
  <2>1. HB' = HB
    BY <1>2 DEF TaskReceiveTokenLog, graphVars
  <2> QED
    BY <1>1, <1>2, <2>1 DEF BagStep
<1>3. CASE idMap[key] \notin {NoID, n}
  <2>1. Checker!saveHappensBeforeEdges({idMap[key]}, n)
    BY <1>3 DEF TaskReceiveTokenLog
  <2>2. {idMap[key]} \in SUBSET TaskIDs
    BY <1>3 DEF INSTyped
  <2> QED
    BY <1>1, <2>1, <2>2, EdgesBag
<1> QED
  BY <1>2, <1>3

\* After a taskwait the children bring what is behind them.
LEMMA SaveBag ==
  ASSUME INSTyped, InfoTyped, BagsGrow, NEW t \in Tasks, Known(t), saveChildHBs(t)
  PROVE  BagStep(ID(t)) /\ idMap' = idMap /\ Kids(t) \subseteq HB'[ID(t)]
<1>1. idMap' = idMap
  BY DEF saveChildHBs, insVars
<1>2. ID(t) \in TaskIDs /\ info[ptr[t]].childrenIDs \subseteq TaskIDs
  BY KnownID
<1>3. CASE info[ptr[t]].childrenIDs = {}
  <2>1. HB' = HB
    BY <1>3 DEF saveChildHBs, graphVars
  <2> QED
    BY <1>1, <1>3, <2>1 DEF BagStep, Kids
<1>4. CASE info[ptr[t]].childrenIDs # {}
  <2>1. Checker!saveHappensBeforeEdges(info[ptr[t]].childrenIDs, ID(t))
    BY <1>4 DEF saveChildHBs
  <2> QED
    BY <1>1, <1>2, <2>1, EdgesBag DEF Kids
<1> QED
  BY <1>3, <1>4

\* What is behind an ID stays there.
LEMMA BehindGrows ==
  ASSUME NEW n, BagStep(n)
  PROVE  \A m \in TaskIDs : Behind(m) \subseteq Behind(m)' /\ (m # n => Behind(m)' = Behind(m))
BY DEF BagStep, Behind

-----------------------------------------------------------------------------
(* What a step leaves alone.                                               *)

\* A step changes the bag of a new ID, of a task that is born, or of one that may
\* change its ID, and only new tasks and such get new IDs.
Local(n) ==
  /\ BagStep(n)
  /\ \/ n = taskIDSeed
     \/ \E q \in Tasks : Known(q) /\ n = ID(q) /\ (pc[q] = "born" \/ q \in Changing)
  /\ \A t \in Tasks : \/ ptr'[t] = ptr[t] /\ (Known(t) => ID(t)' = ID(t))
                      \/ pc[t] = "unborn" \/ t \in Changing

\* So the tasks that have been created and keep their ID, keep their bag.
LEMMA ReadyStays ==
  ASSUME FrameInv, Generations, Shape, NEW o, Owners(o), NEW n, Local(n),
         NEW s \in Tasks, Ready(s)
  PROVE  /\ Ready(s)' /\ Known(s) /\ ID(s) \in TaskIDs
         /\ ID(s)' = ID(s) /\ HB'[ID(s)] = HB[ID(s)] /\ depsOf'[s] = depsOf[s]
<1>1. Known(s) /\ ID(s) \in TaskIDs /\ pc[s] \notin {"unborn", "born"}
  BY KnownID DEF Ready, Generations, FrameInv, ExplicitTasks
<1>2. ID(s)' = ID(s)
  BY <1>1 DEF Local, Ready
<1>3. n # ID(s)
  <2>1. ID(s) < taskIDSeed /\ taskIDSeed \in Nat /\ ID(s) \in Nat
    BY <1>1 DEF Owners, FrameInv, INSTyped
  <2>2. \A q \in Tasks : Known(q) /\ ID(q) = ID(s) => q = s
    BY <1>1 DEF Owners
  <2> QED
    BY <1>1, <2>1, <2>2 DEF Local, Ready
<1>4. HB'[ID(s)] = HB[ID(s)]
  BY <1>1, <1>3 DEF Local, BagStep
<1>5. pc'[s] \notin {"unborn", "born"} /\ depsOf'[s] = depsOf[s]
  BY <1>1 DEF Shape, Settled, BornByCreation, Generated
<1> QED
  BY <1>1, <1>2, <1>4, <1>5 DEF Ready

\* Task t stays where it is.
Stands(t) ==
  /\ pc'[t] = pc[t] /\ frame'[t] = frame[t] /\ ptr'[t] = ptr[t] /\ before'[t] = before[t]
  /\ Known(t) => /\ ID(t)' = ID(t)
                 /\ info'[ptr[t]].childrenIDs = info[ptr[t]].childrenIDs

\* The token of the segment that a task leaves, if there is one, is an ID.
LEMMA OldIsID ==
  ASSUME FrameInv, NEW p \in Tasks, pc[p] = "adopt", idMap[frame[p].old] # NoID
  PROVE  idMap[frame[p].old] \in TaskIDs
BY DEF FrameInv, Framed, InfoTyped, INSTyped, Keys

\* What is behind the children of a task stays there.
LEMMA KidsGrow ==
  ASSUME FrameInv, NEW n, BagStep(n), NEW t \in Tasks, Known(t),
         info[ptr[t]].childrenIDs \subseteq info'[ptr'[t]].childrenIDs
  PROVE  Kids(t) \subseteq Kids(t)'
<1>1. info[ptr[t]].childrenIDs \subseteq TaskIDs
  BY KnownID DEF FrameInv
<1>2. \A m \in info[ptr[t]].childrenIDs :
        Behind(m) \subseteq Behind(m)' /\ m \in info'[ptr'[t]].childrenIDs
  BY <1>1, BehindGrows
<1> QED
  BY <1>2 DEF Kids

\* A task that others do not disturb.
LEMMA SegmentStays ==
  ASSUME FrameInv, NEW n, BagStep(n), NEW t \in Tasks, Stands(t),
         SegmentSeen(t), Known(t) => idMap'[ptr[t]] = idMap[ptr[t]],
         pc[t] = "adopt" => idMap'[frame[t].old] = idMap[frame[t].old]
  PROVE  SegmentSeen(t)'
<1>1. pc[t] \in CreatePCs \cup WaitPCs => Known(t)
  BY DEF FrameInv, Framed, CreatePCs, WaitPCs
<1>2. Known(t)' <=> Known(t)
  BY DEF Stands, Known
<1>3. Known(t) => ID(t) \in TaskIDs /\ HB[ID(t)] \subseteq HB'[ID(t)'] /\ Kids(t) \subseteq Kids(t)'
  BY KnownID, KidsGrow DEF FrameInv, Stands, BagStep
<1>4. pc[t] \in CreatePCs \cup WaitPCs => t \in Changing
  BY DEF SegmentSeen
<1>5. pc[t] \in RestPCs /\ Known(t) => before[t] \subseteq HB'[ID(t)']
  BY <1>3 DEF SegmentSeen
<1>6. frame[t].child # NoTask =>
        /\ pc[t] = "rename" => before[t] \subseteq HB'[ID(t)']
        /\ pc[t] \in {"receive", "rename"} => idMap'[ptr[t]] = ID(t)'
        /\ pc[t] = "adopt" => /\ idMap'[frame[t].old] \notin {NoID, ID(t)'}
                              /\ before[t] \subseteq Behind(idMap[frame[t].old])'
  <2>1. ASSUME frame[t].child # NoTask, pc[t] = "rename"
        PROVE  before[t] \subseteq HB'[ID(t)']
    BY <1>1, <1>3, <2>1 DEF SegmentSeen, WaitPCs
  <2>2. ASSUME frame[t].child # NoTask, pc[t] \in {"receive", "rename"}
        PROVE  idMap'[ptr[t]] = ID(t)'
    BY <1>1, <2>2 DEF SegmentSeen, CreatePCs, Stands
  <2>3. ASSUME frame[t].child # NoTask, pc[t] = "adopt"
        PROVE  /\ idMap'[frame[t].old] \notin {NoID, ID(t)'}
               /\ before[t] \subseteq Behind(idMap[frame[t].old])'
    <3> PICK m : m = idMap[frame[t].old]
      OBVIOUS
    <3>1. m \notin {NoID, ID(t)} /\ before[t] \subseteq Behind(m)
      BY <2>3 DEF SegmentSeen
    <3>2. Behind(m) \subseteq Behind(m)'
      BY <2>3, <3>1, OldIsID, BehindGrows
    <3>3. idMap'[frame[t].old] = m /\ frame'[t].old = frame[t].old /\ ID(t)' = ID(t)
      BY <1>1, <2>3 DEF Stands, CreatePCs
    <3>4. Behind(m)' = Behind(idMap[frame[t].old])'
      BY <3>3 DEF Behind
    <3> QED
      BY <3>1, <3>2, <3>3, <3>4
  <2> QED
    BY <2>1, <2>2, <2>3
<1>7. pc[t] \in WaitPCs /\ frame[t].child = NoTask =>
        /\ t \in Waiters /\ before[t] \subseteq HB'[ID(t)'] \cup Kids(t)'
        /\ pc[t] = "rename" => ID(t)' \in info'[ptr'[t]].childrenIDs
  BY <1>1, <1>3 DEF SegmentSeen, Stands
<1> QED
  BY <1>2, <1>4, <1>5, <1>6, <1>7 DEF SegmentSeen, Stands

\* The tasks that a task waits for have been created and keep their ID.
LEMMA PredsReady ==
  ASSUME Generations, ChangingUnawaited, NEW c \in Tasks, NEW s \in preds[c],
         preds[c] \subseteq Tasks
  PROVE  s \in Tasks /\ Ready(s)
BY DEF Generations, ChangingUnawaited, Ready

\* The step does not touch the creation of c by p.
Apart(p, c) ==
  /\ frame'[p] = frame[p] /\ pc'[p] = pc[p] /\ before'[p] = before[p]
  /\ before'[c] = before[c]
  /\ Known(p) => ID(p)' = ID(p)
  /\ Known(c) => ID(c)' = ID(c)
  /\ \A x \in DepAddrs : \/ idMap'[x] = idMap[x]
                         \/ /\ idMap'[x] # ID(c)
                            /\ \A j \in DOMAIN depsOf[c] : depsOf[c][j].addr # x

\* A task that is being created keeps its clauses, and those it waits for keep their bags.
LEMMA ClausesStay ==
  ASSUME FrameInv, Generations, ChangingUnawaited, Shape, NEW o, Owners(o),
         NEW n, Local(n), NEW p \in Tasks, NEW c \in Tasks, frame[p].child = c
  PROVE  /\ depsOf'[c] = depsOf[c] /\ preds'[c] = preds[c] /\ depsOf[c] \in Seq(Dep)
         /\ \A s \in preds[c] : Behind(ID(s))' = Behind(ID(s)) /\ ID(s) \in TaskIDs
         /\ \A s \in preds[c] : \A i : FlowClause(s, c, i)' <=> FlowClause(s, c, i)
<1>1. pc[c] = "born" /\ preds[c] \subseteq Tasks /\ depsOf[c] \in Seq(Dep)
  BY DEF FrameInv, Framed, ProgramTyped
<1>2. depsOf'[c] = depsOf[c] /\ preds'[c] = preds[c]
  BY <1>1 DEF Shape, Settled
<1>3. ASSUME NEW s \in preds[c]
      PROVE  /\ ID(s)' = ID(s) /\ HB'[ID(s)] = HB[ID(s)] /\ ID(s) \in TaskIDs
             /\ depsOf'[s] = depsOf[s]
  BY <1>1, PredsReady, ReadyStays
<1>4. ASSUME NEW s \in preds[c]
      PROVE  Behind(ID(s))' = Behind(ID(s))
  BY <1>3 DEF Behind
<1>5. ASSUME NEW s \in preds[c], NEW i
      PROVE  FlowClause(s, c, i)' <=> FlowClause(s, c, i)
  BY <1>2, <1>3 DEF FlowClause
<1> QED
  BY <1>1, <1>2, <1>3, <1>4, <1>5

\* A callback that goes on with other things keeps what it has done of the clauses.
LEMMA HandledStays ==
  ASSUME FrameInv, Generations, ChangingUnawaited, Shape,
         NEW o, Owners(o), NEW n, Local(n), NEW p \in Tasks, NEW c \in Tasks,
         frame[p].child = c, frame'[p] = frame[p], Known(c), ID(c)' = ID(c),
         pc[p] = "depend" => pc'[p] = "depend",
         \A x \in DepAddrs : \/ idMap'[x] = idMap[x]
                             \/ /\ idMap'[x] # ID(c)
                                /\ \A j \in DOMAIN depsOf[c] : depsOf[c][j].addr # x,
         ClausesLeft(p, c) /\ TokensSent(p, c) /\ TokensReceived(p, c)
  PROVE  ClausesLeft(p, c)' /\ TokensSent(p, c)' /\ TokensReceived(p, c)'
<1>1. /\ depsOf'[c] = depsOf[c] /\ preds'[c] = preds[c] /\ depsOf[c] \in Seq(Dep)
      /\ \A s \in preds[c] : Behind(ID(s))' = Behind(ID(s)) /\ ID(s) \in TaskIDs
      /\ \A s \in preds[c] : \A i : FlowClause(s, c, i)' <=> FlowClause(s, c, i)
  BY ClausesStay
<1>2. HB[ID(c)] \subseteq HB'[ID(c)']
  BY KnownID DEF FrameInv, Local, BagStep
<1>3. HandledBy(p, c)' = HandledBy(p, c) /\ (Received(p, c)' <=> Received(p, c))
  BY <1>1 DEF HandledBy, Received
<1>4. ClausesLeft(p, c)'
  BY <1>1, <1>3 DEF ClausesLeft
<1>5. TokensSent(p, c)'
  <2>1. HandledBy(p, c) \in 0 .. Len(depsOf[c])
    BY DEF ClausesLeft
  <2>2. \A j \in 1 .. HandledBy(p, c) : j \in DOMAIN depsOf[c] /\ depsOf[c][j].addr \in DepAddrs
    <3>1. \A j \in 1 .. Len(depsOf[c]) : j \in DOMAIN depsOf[c] /\ depsOf[c][j] \in Dep
      BY <1>1
    <3>2. Len(depsOf[c]) \in Nat
      BY <1>1
    <3> QED
      BY <2>1, <3>1, <3>2 DEF Dep
  <2>3. \A x \in DepAddrs : idMap'[x] = ID(c) => idMap[x] = ID(c)
    OBVIOUS
  <2>4. \A j \in 1 .. HandledBy(p, c) :
          depsOf[c][j].type # "in" => idMap'[depsOf[c][j].addr] = ID(c)
    BY <2>2 DEF TokensSent
  <2> QED
    BY <1>1, <1>3, <2>3, <2>4 DEF TokensSent
<1>6. TokensReceived(p, c)'
  BY <1>1, <1>2, <1>3 DEF TokensReceived
<1> QED
  BY <1>4, <1>5, <1>6

\* A creation that is not touched.
LEMMA CreationStays ==
  ASSUME FrameInv, PlainProgram, Generations, ChangingUnawaited, Shape,
         NEW o, Owners(o), NEW n, Local(n), NEW p \in Tasks, NEW c \in Tasks,
         frame[p].child = c, CreationSeen(p, c), Apart(p, c)
  PROVE  CreationSeen(p, c)'
<1>1. /\ Known(c) /\ ID(c)' = ID(c) /\ HB[ID(c)] \subseteq HB'[ID(c)]
      /\ pc[p] \in CreatePCs => Known(p) /\ ID(p)' = ID(p)
  <2>1. Known(c) /\ (pc[p] \in CreatePCs => Known(p))
    BY DEF FrameInv, Framed, PlainProgram, CreatePCs
  <2>2. ID(c) \in TaskIDs
    BY <2>1, KnownID DEF FrameInv
  <2> QED
    BY <2>1, <2>2 DEF Apart, Local, BagStep
<1>2. pc[p] \in {"send", "receive"} => before'[c] \subseteq before'[p] \cup {ID(p)'}
  BY <1>1 DEF CreationSeen, Apart, CreatePCs
<1>3. pc[p] \in {"rename", "adopt", "depend"} => before'[c] \subseteq HB'[ID(c)']
  BY <1>1 DEF CreationSeen, Apart
<1>4. pc[p] \in CreatePCs => ClausesLeft(p, c)' /\ TokensSent(p, c)' /\ TokensReceived(p, c)'
  BY <1>1, HandledStays DEF CreationSeen, Apart
<1> QED
  BY <1>2, <1>3, <1>4 DEF CreationSeen, Apart

\* A token that is not sent again brings all writers, when none gets ready.
LEMMA CoverStays ==
  ASSUME FrameInv, Generations, Shape, NEW o, Owners(o), NEW n, Local(n),
         NEW x \in DepAddrs, InProgress(x) \/ WritersCovered(x), idMap'[x] = idMap[x],
         \A l \in Tasks : pc[l] = "born" /\ Known(l) =>
           pc'[l] = "born" /\ Known(l)' /\ ID(l)' = ID(l),
         \A s \in Tasks : Ready(s)' => Ready(s)
  PROVE  InProgress(x)' \/ WritersCovered(x)'
<1>1. CASE InProgress(x)
  BY <1>1 DEF InProgress
<1>2. CASE WritersCovered(x)
  <2>1. idMap[x] # NoID => Behind(idMap[x]) \subseteq Behind(idMap[x])'
    <3>1. PICK m : m = idMap[x]
      OBVIOUS
    <3>2. m # NoID => m \in TaskIDs
      BY <3>1 DEF FrameInv, INSTyped, Keys
    <3>3. m # NoID => Behind(m) \subseteq Behind(m)'
      BY <3>2, BehindGrows DEF Local
    <3> QED
      BY <3>1, <3>3 DEF Behind
  <2>2. ASSUME NEW s \in Tasks, NEW k \in DOMAIN depsOf'[s], Ready(s)',
               depsOf'[s][k].addr = x, depsOf'[s][k].type # "in"
        PROVE  idMap'[x] # NoID /\ Behind(ID(s))' \subseteq Behind(idMap[x])'
    <3>1. /\ Ready(s) /\ ID(s)' = ID(s) /\ HB'[ID(s)] = HB[ID(s)]
          /\ depsOf'[s] = depsOf[s]
      BY <2>2, ReadyStays
    <3>2. Behind(ID(s))' = Behind(ID(s))
      BY <3>1 DEF Behind
    <3>3. idMap[x] # NoID /\ Behind(ID(s)) \subseteq Behind(idMap[x])
      BY <1>2, <2>2, <3>1 DEF WritersCovered
    <3> QED
      BY <2>1, <3>2, <3>3
  <2> QED
    BY <2>2 DEF WritersCovered
<1> QED
  BY <1>1, <1>2

\* A task that waits for others goes on having them in its bag.
LEMMA PredsSeenStay ==
  ASSUME FrameInv, Generations, ChangingUnawaited, Shape, IDStep, NEW o, Owners(o),
         NEW n, Local(n), PredsSeen, 
         \A c \in Tasks : pc'[c] = "created" => pc[c] = "created" /\ ptr'[c] = ptr[c]
  PROVE  PredsSeen'
<1> SUFFICES ASSUME NEW c \in Tasks, pc'[c] = "created", NEW s \in preds'[c]
             PROVE  Behind(ID(s))' \subseteq HB'[ID(c)']
  BY DEF PredsSeen
<1>1. pc[c] = "created" /\ ptr'[c] = ptr[c] /\ preds'[c] = preds[c] /\ preds[c] \subseteq Tasks
  BY DEF Shape, Settled, FrameInv, ProgramTyped
<1>2. /\ ID(s)' = ID(s) /\ HB'[ID(s)] = HB[ID(s)]
  BY <1>1, PredsReady, ReadyStays
<1>3. Behind(ID(s))' = Behind(ID(s))
  BY <1>2 DEF Behind
<1>4. s \in ExplicitTasks
  BY <1>1 DEF Generations
<1>5. CASE Known(c)
  <2>1. ID(c)' = ID(c) /\ ID(c) \in TaskIDs
    BY <1>1, <1>5, KnownID DEF IDStep, FrameInv
  <2>2. HB[ID(c)] \subseteq HB'[ID(c)]
    BY <2>1 DEF Local, BagStep
  <2>3. Behind(ID(s)) \subseteq HB[ID(c)]
    BY <1>1 DEF PredsSeen
  <2> QED
    BY <1>3, <2>1, <2>2, <2>3
<1>6. CASE ~Known(c)
  BY <1>1, <1>6 DEF Generations, ExplicitTasks
<1> QED
  BY <1>5, <1>6

\* A task goes on having its children's IDs, or having its children behind it.
LEMMA ChildrenStay ==
  ASSUME FrameInv, Unborn, Generations, ChangingUnawaited, Shape, IDStep,
         NEW n, Local(n), ChildrenKept,
         \A t \in Tasks : ~Waits(t) /\ Known(t)' => Known(t),
         \A t \in Tasks : ~Waits(t) /\ Known(t) =>
           \/ info[ptr[t]].childrenIDs \subseteq info'[ptr'[t]].childrenIDs
           \/ \A c \in Tasks : parent[c] = t => pc[c] = "done" /\ Past(c) \subseteq before[t],
         \A p, c \in Tasks : frame[p].child = c /\ pc[p] \in {"send", "receive"} =>
           \/ frame'[p].child = c /\ pc'[p] \in {"send", "receive"}
           \/ ID(c) \in info'[ptr'[p]].childrenIDs,
         \A p, c \in Tasks : parent'[c] = p =>
           parent[c] = p \/ (frame'[p].child = c /\ pc'[p] = "send") \/ ~Known(p)'
  PROVE  ChildrenKept'
<1> SUFFICES ASSUME NEW t \in Tasks, NEW c \in Tasks, parent'[c] = t, t \in Waiters, Known(t)'
             PROVE  \/ frame'[t].child = c /\ pc'[t] \in {"send", "receive"}
                    \/ ID(c)' \in info'[ptr'[t]].childrenIDs
                    \/ pc'[c] = "done" /\ Past(c)' \subseteq before'[t]
  BY DEF ChildrenKept
<1>1. CASE parent[c] # t
  BY <1>1
<1>2. CASE parent[c] = t
  <2>1. ~Waits(t) /\ c \in ExplicitTasks \ Changing /\ pc[c] # "unborn"
    BY <1>2 DEF Generations, ChangingUnawaited, Unborn
  <2>2. Known(t) /\ Known(c)
    BY <2>1 DEF Generations, ExplicitTasks
  <2>3. ptr'[c] = ptr[c] /\ ID(c)' = ID(c)
    BY <2>1, <2>2 DEF Local, IDStep
  <2>4. ASSUME pc[c] = "done", Past(c) \subseteq before[t]
        PROVE  pc'[c] = "done" /\ Past(c)' \subseteq before'[t]
    <3>1. pc'[c] = "done" /\ before'[c] = before[c] /\ before[t] \subseteq before'[t]
      BY <2>4 DEF Shape, DoneStays, PastKept
    <3>2. Past(c)' = Past(c)
      BY <2>2, <2>3, <3>1 DEF Past, Segment, Known
    <3> QED
      BY <2>4, <3>1, <3>2
  <2>5. CASE frame[t].child = c /\ pc[t] \in {"send", "receive"}
    BY <2>3, <2>5
  <2>6. CASE ID(c) \in info[ptr[t]].childrenIDs
    BY <1>2, <2>1, <2>2, <2>3, <2>4, <2>6
  <2>7. CASE pc[c] = "done" /\ Past(c) \subseteq before[t]
    BY <2>4, <2>7
  <2> QED
    BY <1>2, <2>2, <2>5, <2>6, <2>7 DEF ChildrenKept
<1> QED
  BY <1>1, <1>2

-----------------------------------------------------------------------------
(* Who has been created.                                                   *)

\* How tasks begin.
LEMMA Births ==
  ASSUME FrameInv, PlainProgram, [Next]_vars, NEW t \in Tasks
  PROVE  /\ pc[t] = "unborn" /\ pc'[t] # "unborn" =>
              /\ createNewTaskMetadata(t)
              /\ \/ pc'[t] = "born" /\ t \in ExplicitTasks
                 \/ pc'[t] = "run" /\ preds'[t] = preds[t]
         /\ pc'[t] = "created" => pc[t] \in {"born", "created"}
<1> USE DEF FrameInv, ProgramTyped
<1>1. ASSUME NEW p \in Tasks, NEW c \in Tasks,
             TaskCreate(p, c) \/ TaskCreateUntied(p, c) \/ TaskCreateByUnknown(p, c)
      PROVE  /\ pc[p] = "run" /\ pc[c] = "unborn" /\ c \in ExplicitTasks
             /\ \E k \in {"send", "rename", "crashed"} : pc' = [pc EXCEPT ![p] = k, ![c] = "born"]
             /\ createNewTaskMetadata(c)
  BY <1>1 DEF TaskCreate, TaskCreateUntied, TaskCreateByUnknown, MayCreate, Active,
              PlainProgram
<1>2. ASSUME NEW p \in Tasks, Created(p)
      PROVE  pc[p] = "depend" /\ pc[frame[p].child] = "born" /\ frame[p].child \in Tasks
             /\ pc' = [pc EXCEPT ![p] = "run", ![frame[p].child] = "created"]
  BY <1>2 DEF Created, Framed, AnyFrame
<1>3. ASSUME NEW p \in Tasks, \/ SendToChild(p) \/ ChildReceives(p) \/ Rename(p) \/ Adopt(p)
                              \/ Depend(p) \/ DependOfUnknown(p) \/ TaskSchedule(p)
                              \/ Access(p) \/ Finish(p) \/ TaskwaitEnd(p)
                              \/ TaskwaitOfUnknown(p) \/ SaveChildren(p) \/ TaskgroupEnd(p)
                              \/ ImplicitEnd(p)
      PROVE  pc' = pc \/ \E k : /\ pc' = [pc EXCEPT ![p] = k] /\ pc[p] # "unborn"
                                /\ k \notin {"unborn", "born", "created"}
  BY <1>3 DEF SendToChild, ChildReceives, Rename, Adopt, Depend, DependOfUnknown,
     TaskSchedule, Access, Finish, TaskwaitEnd, TaskwaitOfUnknown, SaveChildren,
     TaskgroupEnd, ImplicitEnd, Active
<1>4. ASSUME NEW k \in DOMAIN Regions, NEW p \in Regions[k], ImplicitBegin(p, k)
      PROVE  /\ p \in Tasks /\ createNewTaskMetadata(p) /\ pc' = [pc EXCEPT ![p] = "run"]
             /\ preds' = preds
  BY <1>4 DEF ImplicitBegin, programVars
<1>5. ASSUME NEW k \in DOMAIN Regions, Barrier(k) \/ Join(k)
      PROVE  \A s \in Tasks : pc'[s] = pc[s] \/ (pc[s] # "unborn" /\ pc'[s] = "joined")
  BY <1>5 DEF Barrier, Join, AtBarrier
<1>6. CASE UNCHANGED vars
  BY <1>6 DEF vars
<1>7. CASE Next
  <2>1. CASE \E p, c \in Tasks :
               TaskCreate(p, c) \/ TaskCreateUntied(p, c) \/ TaskCreateByUnknown(p, c)
    <3> PICK p \in Tasks, c \in Tasks :
               TaskCreate(p, c) \/ TaskCreateUntied(p, c) \/ TaskCreateByUnknown(p, c)
      BY <2>1
    <3>1. /\ pc[p] = "run" /\ pc[c] = "unborn" /\ c \in ExplicitTasks
          /\ createNewTaskMetadata(c)
      BY <1>1
    <3>2. PICK k \in {"send", "rename", "crashed"} : pc' = [pc EXCEPT ![p] = k, ![c] = "born"]
      BY <1>1
    <3>3. /\ pc[t] = "unborn" /\ pc'[t] # "unborn" => t = c /\ pc'[t] = "born"
          /\ pc'[t] # "created" \/ pc'[t] = pc[t]
      BY <3>1, <3>2
    <3> QED
      BY <3>1, <3>3
  <2>2. CASE \E p \in Tasks : Created(p)
    <3> PICK p \in Tasks : Created(p)
      BY <2>2
    <3>1. /\ pc[p] = "depend" /\ pc[frame[p].child] = "born" /\ frame[p].child \in Tasks
          /\ pc' = [pc EXCEPT ![p] = "run", ![frame[p].child] = "created"]
      BY <1>2
    <3>2. /\ pc'[t] # "unborn" => pc[t] # "unborn"
          /\ pc'[t] = "created" => pc[t] \in {"born", "created"}
      BY <3>1
    <3> QED
      BY <3>2
  <2>3. CASE \E p \in Tasks : \/ SendToChild(p) \/ ChildReceives(p) \/ Rename(p) \/ Adopt(p)
                              \/ Depend(p) \/ DependOfUnknown(p) \/ TaskSchedule(p)
                              \/ Access(p) \/ Finish(p) \/ TaskwaitEnd(p)
                              \/ TaskwaitOfUnknown(p) \/ SaveChildren(p) \/ TaskgroupEnd(p)
                              \/ ImplicitEnd(p)
    BY <1>3, <2>3
  <2>4. CASE \E k \in DOMAIN Regions : \E p \in Regions[k] : ImplicitBegin(p, k)
    <3> PICK k \in DOMAIN Regions : \E p \in Regions[k] : ImplicitBegin(p, k)
      BY <2>4
    <3> PICK p \in Regions[k] : ImplicitBegin(p, k)
      OBVIOUS
    <3>1. /\ p \in Tasks /\ createNewTaskMetadata(p) /\ pc' = [pc EXCEPT ![p] = "run"]
          /\ preds' = preds
      BY <1>4
    <3> QED
      BY <3>1
  <2>5. CASE \E k \in DOMAIN Regions : Barrier(k) \/ Join(k)
    BY <1>5, <2>5
  <2> QED
    BY <1>7, <2>1, <2>2, <2>3, <2>4, <2>5 DEF Next
<1> QED
  BY <1>6, <1>7

\* Tasks go on having been created as they should.
LEMMA NextGenerations ==
  ASSUME FrameInv, FrameInv', PlainProgram, Unborn, BornInCallback, Shape, IDStep,
         [Next]_vars, Generations
  PROVE  Generations'
<1>1. ASSUME NEW t \in Tasks, pc[t] \notin {"unborn", "born"}
      PROVE  pc'[t] \notin {"unborn", "born"}
  BY <1>1 DEF Shape, Settled, BornByCreation, Generated
<1>2. ASSUME NEW t \in Tasks, ~Waits(t)
      PROVE  ~Waits(t)'
  BY <1>1, <1>2, Births DEF Waits
<1>3. ASSUME NEW t \in Tasks
      PROVE  /\ pc'[t] # "unborn" /\ t \notin InitialTasks => Known(t)'
             /\ pc'[t] \in {"born", "created"} => t \in ExplicitTasks
  <2>1. CASE pc[t] = "unborn"
    BY <2>1, Births, NewAddress
  <2>2. CASE pc[t] # "unborn"
    <3>1. t \notin InitialTasks => Known(t)'
      BY <2>2 DEF Generations, IDStep
    <3>2. pc'[t] = "born" => pc[t] = "born"
      BY <1>1, <2>2
    <3>3. pc'[t] \in {"born", "created"} => t \in ExplicitTasks
      BY <3>2, Births DEF Generations
    <3> QED
      BY <3>1, <3>3
  <2> QED
    BY <2>1, <2>2
<1>4. ASSUME NEW c \in Tasks, parent'[c] # NoTask
      PROVE  c \in ExplicitTasks /\ ~Waits(parent[c])'
  <2> PICK p \in Tasks : parent'[c] = p
    BY <1>4 DEF FrameInv, ProgramTyped
  <2>1. CASE Generated(p, c)
    <3>1. pc[p] = "run" /\ pc'[c] = "born"
      BY <2>1 DEF Generated
    <3> QED
      BY <1>2, <1>3, <3>1 DEF Waits
  <2>2. CASE parent[c] = p
    <3>1. c \in ExplicitTasks /\ ~Waits(p)
      BY <2>2 DEF Generations
    <3> QED
      BY <1>2, <3>1 DEF Waits
  <2> QED
    BY <2>1, <2>2 DEF Shape, NewParents
<1>5. ASSUME NEW c \in Tasks, NEW s \in preds'[c]
      PROVE  s \in ExplicitTasks /\ pc'[s] \notin {"unborn", "born"}
  <2>1. s \in Tasks
    BY DEF FrameInv, ProgramTyped
  <2>2. CASE preds'[c] = preds[c]
    BY <1>1, <2>1, <2>2 DEF Generations
  <2>3. CASE \E p \in Tasks : Generated(p, c)
    <3> PICK p \in Tasks : Generated(p, c)
      BY <2>3
    <3>1. pc[p] = "run" /\ s \in Predecessors(p, depsOf'[c])
      BY DEF Generated
    <3>2. parent[s] = p
      BY <3>1 DEF Predecessors
    <3>3. s \in ExplicitTasks /\ pc[s] # "unborn"
      BY <2>1, <3>2 DEF Generations, Unborn
    <3>4. pc[s] # "born"
      <4>1. frame[p] = Idle
        BY <3>1 DEF FrameInv, Framed
      <4> QED
        BY <2>1, <3>2, <4>1 DEF BornInCallback, Idle
    <3> QED
      BY <1>1, <2>1, <3>3, <3>4
  <2>4. preds'[c] = preds[c] \/ \E p \in Tasks : Generated(p, c)
    <3>1. CASE pc[c] # "unborn"
      BY <3>1 DEF Shape, Settled
    <3>2. CASE pc'[c] = "unborn"
      BY <3>2 DEF Shape, StillUnborn
    <3>3. CASE pc[c] = "unborn" /\ pc'[c] # "unborn"
      BY <3>3, Births DEF Shape, BornByCreation
    <3> QED
      BY <3>1, <3>2, <3>3
  <2> QED
    BY <2>2, <2>3, <2>4
<1> QED
  BY <1>3, <1>4, <1>5 DEF Generations

-----------------------------------------------------------------------------
(* Steps of one task.                                                      *)

\* What holds of the program, the checker and the callbacks, with the owners of the IDs.
CompleteInv(o) == /\ FrameInv /\ Unborn /\ BagsGrow
                  /\ OwnedInv(o) /\ SeenInv

\* The parts of the invariant that a step can disturb.
OrderSeen == /\ (\A t \in Tasks : SegmentSeen(t)) /\ CreationsSeen
             /\ ChildrenKept /\ TokensCover /\ PredsSeen

Alone(p) == \A t \in Tasks : t # p => Stands(t)

\* A step of p sends no token that concerns the other callbacks.
TokensApart(p) ==
  /\ \A key \in Infos : idMap'[key] = idMap[key] \/ (Known(p) /\ key = ptr[p])
  /\ \A q, c \in Tasks : q # p /\ frame[q].child = c => \A x \in DepAddrs :
       idMap'[x] = idMap[x]
       \/ (idMap'[x] # ID(c) /\ \A j \in DOMAIN depsOf[c] : depsOf[c][j].addr # x)

\* A task p that goes on hands over what it has of its children's IDs, or has its
\* children behind it.
HandsOn(p) ==
  /\ ~Waits(p) => \/ info[ptr[p]].childrenIDs \subseteq info'[ptr'[p]].childrenIDs
                  \/ \A c \in Tasks : parent[c] = p => pc[c] = "done" /\ Past(c) \subseteq before[p]
  /\ \A c \in Tasks : frame[p].child = c /\ pc[p] \in {"send", "receive"} =>
       \/ frame'[p].child = c /\ pc'[p] \in {"send", "receive"}
       \/ ID(c) \in info'[ptr'[p]].childrenIDs

\* The tasks that stand still see what they saw.
LEMMA MoveSeen ==
  ASSUME OwnAddresses, PlainProgram, FlowProgram, NEW o, CompleteInv(o), Shape, IDStep,
         NEW n, Local(n), NEW p \in Tasks, Alone(p), parent' = parent,
         pc[p] # "born", pc'[p] # "created", Known(p) \/ Waits(p),
         TokensApart(p), HandsOn(p), SegmentSeen(p)', TokensCover',
         \A c \in Tasks : frame'[p].child = c => CreationSeen(p, c)'
  PROVE  OrderSeen'
<1>0. /\ FrameInv /\ Unborn /\ Owners(o) /\ Generations /\ ChangingUnawaited
      /\ CreationsSeen /\ ChildrenKept /\ PredsSeen /\ BagStep(n)
  BY DEF CompleteInv, OwnedInv, SeenInv, FlowProgram, Local
<1>1. ASSUME NEW t \in Tasks
      PROVE  SegmentSeen(t)'
  <2>1. CASE t = p
    BY <2>1
  <2>2. CASE t # p
    <3>1. SegmentSeen(t) /\ Stands(t)
      BY <2>2 DEF CompleteInv, SeenInv, Alone
    <3>2. Known(t) => ptr[t] \in Infos /\ (Known(p) => ptr[t] # ptr[p])
      BY <1>0, <2>2, KnownID DEF FrameInv, InfoTyped, Known
    <3>3. pc[t] = "adopt" => frame[t].old \in Infos /\ frame[t].old # ptr[p]
      BY <1>0 DEF FrameInv, Framed, InfoTyped
    <3>4. /\ Known(t) => idMap'[ptr[t]] = idMap[ptr[t]]
          /\ pc[t] = "adopt" => idMap'[frame[t].old] = idMap[frame[t].old]
      BY <3>2, <3>3 DEF TokensApart
    <3> QED
      BY <1>0, <3>1, <3>4, SegmentStays
  <2> QED
    BY <2>1, <2>2
<1>2. CreationsSeen'
  <2> SUFFICES ASSUME NEW q \in Tasks, NEW c \in Tasks, frame'[q].child = c
               PROVE  CreationSeen(q, c)'
    BY DEF CreationsSeen
  <2>1. CASE q = p
    BY <2>1
  <2>2. CASE q # p
    <3>1. Stands(q) /\ frame[q].child = c
      BY <2>2 DEF Alone, Stands
    <3>2. pc[c] = "born"
      BY <1>0, <3>1 DEF FrameInv, Framed
    <3>3. c # p /\ Stands(c)
      BY <3>2 DEF Alone
    <3>4. Apart(q, c)
      BY <2>2, <3>1, <3>3 DEF Apart, Stands, TokensApart
    <3> QED
      BY <1>0, <3>1, <3>4, CreationStays DEF CreationsSeen
  <2> QED
    BY <2>1, <2>2
<1>3. ChildrenKept'
  <2>1. ASSUME NEW t \in Tasks, ~Waits(t), Known(t)'
        PROVE  Known(t)
    BY <2>1 DEF Alone, Stands, Known
  <2>2. ASSUME NEW t \in Tasks, ~Waits(t), Known(t)
        PROVE  \/ info[ptr[t]].childrenIDs \subseteq info'[ptr'[t]].childrenIDs
               \/ \A c \in Tasks : parent[c] = t => pc[c] = "done" /\ Past(c) \subseteq before[t]
    BY <2>2 DEF Alone, Stands, HandsOn
  <2>3. ASSUME NEW q \in Tasks, NEW c \in Tasks, frame[q].child = c,
               pc[q] \in {"send", "receive"}
        PROVE  \/ frame'[q].child = c /\ pc'[q] \in {"send", "receive"}
               \/ ID(c) \in info'[ptr'[q]].childrenIDs
    BY <2>3 DEF Alone, Stands, HandsOn
  <2> QED
    BY <1>0, <2>1, <2>2, <2>3, ChildrenStay
<1>4. PredsSeen'
  <2>1. \A c \in Tasks : pc'[c] = "created" => pc[c] = "created" /\ ptr'[c] = ptr[c]
    BY DEF Alone, Stands
  <2> QED
    BY <1>0, <2>1, PredsSeenStay
<1> QED
  BY <1>1, <1>2, <1>3, <1>4 DEF OrderSeen

\* A step that sends no token of a variable.
LEMMA MoveCovers ==
  ASSUME NEW o, CompleteInv(o), Shape, NEW n, Local(n), NEW p \in Tasks, Alone(p),
         pc[p] # "born", Ready(p)' => Ready(p), \A x \in DepAddrs : idMap'[x] = idMap[x]
  PROVE  TokensCover'
<1>0. FrameInv /\ Owners(o) /\ Generations /\ TokensCover
  BY DEF CompleteInv, OwnedInv, SeenInv
<1>1. ASSUME NEW l \in Tasks, pc[l] = "born", Known(l)
      PROVE  pc'[l] = "born" /\ Known(l)' /\ ID(l)' = ID(l)
  BY <1>1 DEF Alone, Stands, Known
<1>2. ASSUME NEW s \in Tasks, Ready(s)'
      PROVE  Ready(s)
  BY <1>2 DEF Alone, Stands, Ready
<1> QED
  BY <1>0, <1>1, <1>2, CoverStays DEF TokensCover

\* A step changes one TaskInfo, or makes one.
LEMMA InfoAlone ==
  ASSUME FrameInv, IDStep, NEW p \in Tasks,
         \A t \in Tasks : t # p => /\ pc'[t] = pc[t] /\ frame'[t] = frame[t]
                                   /\ ptr'[t] = ptr[t] /\ before'[t] = before[t],
         \/ info' = info
         \/ Known(p) /\ \A i \in Infos : i # ptr[p] => info'[i] = info[i]
         \/ createNewTaskMetadata(p)
  PROVE  Alone(p)
<1> SUFFICES ASSUME NEW t \in Tasks, t # p, Known(t)
             PROVE  info'[ptr[t]].childrenIDs = info[ptr[t]].childrenIDs
  BY DEF Alone, Stands, IDStep
<1>1. ptr[t] \in live /\ ptr[t] \in Infos /\ (Known(p) => ptr[t] # ptr[p])
  BY KnownID DEF FrameInv, InfoTyped, Known
<1>2. CASE createNewTaskMetadata(p)
  <2>1. PICK i \in Free : info' = [info EXCEPT ![i] =
                     [taskID |-> taskIDSeed, active |-> TRUE,
                      childrenIDs |-> IF ptr[p] = NoInfo
                                        THEN {} ELSE info[ptr[p]].childrenIDs]]
                          /\ ptr' = [ptr EXCEPT ![p] = i]
    BY <1>2 DEF createNewTaskMetadata
  <2>2. ptr'[p] \notin live
    BY <1>2, NewInfoTyped DEF FrameInv
  <2>3. i # ptr[t]
    BY <1>1, <2>1, <2>2 DEF FrameInv, InfoTyped
  <2> QED
    BY <1>1, <2>1, <2>3 DEF FrameInv, InfoTyped
<1> QED
  BY <1>1, <1>2

\* Tasks end, or nothing happens.
LEMMA StillSeen ==
  ASSUME OwnAddresses, PlainProgram, FlowProgram, NEW o, CompleteInv(o), Shape, IDStep,
         UNCHANGED <<HB, idMap, ptr, frame, parent, before>>,
         \A t \in Tasks : Known(t) => info'[ptr[t]].childrenIDs = info[ptr[t]].childrenIDs,
         \A t \in Tasks : \/ pc'[t] = pc[t]
                          \/ /\ pc[t] \in {"run", "joined"}
                             /\ pc'[t] \in {"joined", "done", "crashed"}
  PROVE  OrderSeen'
<1>0. /\ FrameInv /\ Unborn /\ Owners(o) /\ Generations /\ ChangingUnawaited
      /\ CreationsSeen /\ ChildrenKept /\ PredsSeen /\ TokensCover
  BY DEF CompleteInv, OwnedInv, SeenInv, FlowProgram
<1>1. \A t \in Tasks : (Known(t)' <=> Known(t)) /\ (Known(t) => ID(t)' = ID(t))
  BY DEF IDStep, Known
<1>2. PICK n : n = taskIDSeed
  OBVIOUS
<1>3. Local(n) /\ BagStep(n)
  BY <1>1, <1>2 DEF Local, BagStep
<1>4. \A t \in Tasks : pc'[t] = pc[t] => Stands(t)
  BY <1>1 DEF Stands
<1>5. \A t \in Tasks : pc'[t] # pc[t] => frame[t].child = NoTask
  BY <1>0 DEF FrameInv, Framed, Idle
<1>6. ASSUME NEW t \in Tasks
      PROVE  SegmentSeen(t)'
  <2>0. SegmentSeen(t)
    BY DEF CompleteInv, SeenInv
  <2>1. CASE pc'[t] = pc[t]
    BY <1>0, <1>3, <1>4, <2>0, <2>1, SegmentStays
  <2>2. CASE pc'[t] # pc[t]
    <3>1. pc'[t] \in {"joined", "done", "crashed"} /\ pc[t] \in RestPCs
      BY <2>2 DEF RestPCs
    <3>2. Known(t)' => before'[t] \subseteq HB'[ID(t)']
      BY <1>1, <2>0, <3>1 DEF SegmentSeen
    <3> QED
      BY <3>1, <3>2 DEF SegmentSeen, CreatePCs, WaitPCs
  <2> QED
    BY <2>1, <2>2
<1>7. CreationsSeen'
  <2> SUFFICES ASSUME NEW q \in Tasks, NEW c \in Tasks, frame'[q].child = c
               PROVE  CreationSeen(q, c)'
    BY DEF CreationsSeen
  <2>1. frame[q].child = c /\ c # NoTask
    OBVIOUS
  <2>2. pc'[q] = pc[q]
    BY <1>5, <2>1
  <2>3. Apart(q, c)
    BY <1>1, <2>2 DEF Apart
  <2> QED
    BY <1>0, <1>3, <2>1, <2>3, CreationStays DEF CreationsSeen
<1>8. ChildrenKept'
  <2>1. \A q, c \in Tasks : frame[q].child = c /\ pc[q] \in {"send", "receive"} =>
           frame'[q].child = c /\ pc'[q] \in {"send", "receive"}
    BY <1>5
  <2>2. \A t \in Tasks : Known(t) =>
          info[ptr[t]].childrenIDs \subseteq info'[ptr'[t]].childrenIDs
    OBVIOUS
  <2> QED
    BY <1>0, <1>1, <1>3, <2>1, <2>2, ChildrenStay
<1>9. TokensCover'
  <2>1. \A s \in Tasks : Ready(s)' => Ready(s)
    BY DEF Ready
  <2>2. \A l \in Tasks : pc[l] = "born" /\ Known(l) =>
           pc'[l] = "born" /\ Known(l)' /\ ID(l)' = ID(l)
    BY <1>1
  <2> QED
    BY <1>0, <1>3, <2>1, <2>2, CoverStays DEF TokensCover
<1>10. PredsSeen'
  <2>1. \A c \in Tasks : pc'[c] = "created" => pc[c] = "created" /\ ptr'[c] = ptr[c]
    OBVIOUS
  <2> QED
    BY <1>0, <1>3, <2>1, PredsSeenStay
<1> QED
  BY <1>6, <1>7, <1>8, <1>9, <1>10 DEF OrderSeen

\* Accesses and the ends of tasks.
LEMMA StillSteps ==
  ASSUME OwnAddresses, PlainProgram, FlowProgram, NEW o, CompleteInv(o), Shape, IDStep,
         \/ UNCHANGED vars \/ \E k \in DOMAIN Regions : Join(k)
         \/ \E t \in Tasks : Access(t) \/ Finish(t) \/ TaskwaitOfUnknown(t) \/ ImplicitEnd(t)
  PROVE  OrderSeen'
<1> USE DEF checkerVars, graphVars, logVars, insVars, infoVars, programVars
<1>0. ProgramTyped /\ InfoTyped
  BY DEF CompleteInv, FrameInv
<1>1. CASE UNCHANGED vars
  BY <1>1, StillSeen DEF vars
<1>2. CASE \E k \in DOMAIN Regions : Join(k)
  <2> PICK k \in DOMAIN Regions : Join(k)
    BY <1>2
  <2>1. UNCHANGED <<HB, idMap, ptr, frame, parent, before, info>>
    BY DEF Join
  <2>2. \A t \in Tasks : pc'[t] = pc[t] \/ (pc[t] = "run" /\ pc'[t] = "joined")
    BY DEF Join, AtBarrier
  <2> QED
    BY <2>1, <2>2, StillSeen
<1>3. ASSUME NEW t \in Tasks, Access(t) \/ Finish(t) \/ TaskwaitOfUnknown(t) \/ ImplicitEnd(t)
      PROVE  OrderSeen'
  <2>1. UNCHANGED <<HB, idMap, ptr, frame, parent, before>>
    BY <1>3 DEF Access, Finish, TaskwaitOfUnknown, ImplicitEnd
  <2>2. info' = info \/ info' = [info EXCEPT ![ptr[t]].active = FALSE]
    BY <1>3 DEF Access, Finish, TaskwaitOfUnknown, ImplicitEnd
  <2>3. \A s \in Tasks : Known(s) => info'[ptr[s]].childrenIDs = info[ptr[s]].childrenIDs
    BY <1>0, <2>2, KnownID DEF InfoTyped
  <2>4. \A s \in Tasks : \/ pc'[s] = pc[s]
                         \/ /\ pc[s] \in {"run", "joined"}
                            /\ pc'[s] \in {"joined", "done", "crashed"}
    BY <1>0, <1>3 DEF Access, Finish, TaskwaitOfUnknown, ImplicitEnd, Active, ProgramTyped
  <2> QED
    BY <2>1, <2>3, <2>4, StillSeen
<1> QED
  BY <1>1, <1>2, <1>3

\* A token is sent to the new task.
LEMMA SendToChildSeen ==
  ASSUME OwnAddresses, PlainProgram, FlowProgram, NEW o, CompleteInv(o), Shape, IDStep,
         NEW p \in Tasks, SendToChild(p)
  PROVE  OrderSeen'
<1>0. /\ FrameInv /\ CreationsSeen /\ SegmentSeen(p) /\ DepAddrs \cap Infos = {}
      /\ TokenInv(o)
  BY DEF CompleteInv, SeenInv, OwnedInv, OwnAddresses
<1>1. /\ pc[p] = "send" /\ pc' = [pc EXCEPT ![p] = "receive"]
      /\ idMap' = [idMap EXCEPT ![ptr[p]] = ID(p)]
      /\ UNCHANGED <<HB, taskIDSeed, info, ptr, frame, parent, before>>
  BY DEF SendToChild, TaskSendTokenLog, graphVars, infoVars, programVars
<1>2. /\ Known(p) /\ ptr[p] \in Infos /\ frame[p] \in AnyFrame
      /\ frame[p].child \in Tasks
  BY <1>0, <1>1, KnownID DEF FrameInv, Framed, ProgramTyped, AnyFrame
<1>3. \A key \in Keys : idMap'[key] = IF key = ptr[p] THEN ID(p) ELSE idMap[key]
  BY <1>0, <1>1, <1>2 DEF FrameInv, INSTyped, Keys
<1>4. /\ \A x \in DepAddrs : idMap'[x] = idMap[x]
      /\ \A key \in Infos : idMap'[key] = idMap[key] \/ key = ptr[p]
      /\ idMap'[ptr[p]] = ID(p)
  BY <1>0, <1>2, <1>3 DEF Keys
<1>5. PICK n : n = taskIDSeed
  OBVIOUS
<1>6. Local(n)
  BY <1>1, <1>5 DEF Local, BagStep, ID
<1>7. /\ Alone(p) /\ parent' = parent /\ pc'[p] = "receive"
      /\ Known(p)' /\ ID(p)' = ID(p)
  BY <1>0, <1>1, <1>2 DEF FrameInv, ProgramTyped, Alone, Stands, ID, Known
<1>8. TokensApart(p) /\ HandsOn(p)
  BY <1>1, <1>2, <1>4, <1>7 DEF TokensApart, HandsOn
<1>9. SegmentSeen(p)'
  BY <1>0, <1>1, <1>2, <1>4, <1>7 DEF SegmentSeen, CreatePCs, WaitPCs, RestPCs
<1>10. TokensCover'
  BY <1>1, <1>4, <1>6, <1>7, MoveCovers DEF Ready
<1>11. ASSUME NEW c \in Tasks, frame'[p].child = c
       PROVE  CreationSeen(p, c)'
  <2>1. CreationSeen(p, c) /\ frame[p].child = c
    BY <1>0, <1>1, <1>11 DEF CreationsSeen
  <2>2. pc[p] = "send" /\ pc'[p] = "receive"
    BY <1>1, <1>7
  <2>3. before[c] \subseteq before[p] \cup {ID(p)}
        /\ ClausesLeft(p, c) /\ TokensSent(p, c) /\ TokensReceived(p, c)
    BY <2>1, <2>2 DEF CreationSeen, CreatePCs
  <2>4. Known(c) /\ ID(c)' = ID(c) /\ c # p
    BY <1>0, <1>1, <2>1 DEF FrameInv, Framed, PlainProgram, ID
  <2>5. ClausesLeft(p, c)' /\ TokensSent(p, c)' /\ TokensReceived(p, c)'
    BY <1>0, <1>1, <1>4, <1>6, <2>1, <2>3, <2>4, HandledStays
       DEF CompleteInv, SeenInv, OwnedInv, FlowProgram
  <2> QED
    BY <1>1, <1>7, <2>2, <2>3, <2>5 DEF CreationSeen
<1> QED
  BY <1>1, <1>2, <1>6, <1>7, <1>8, <1>9, <1>10, <1>11, MoveSeen

\* The new task receives it.
LEMMA ChildReceivesSeen ==
  ASSUME OwnAddresses, PlainProgram, FlowProgram, NEW o, CompleteInv(o), Shape, IDStep,
         NEW p \in Tasks, ChildReceives(p)
  PROVE  OrderSeen'
<1>0. /\ FrameInv /\ CreationsSeen /\ SegmentSeen(p) /\ Owners(o) /\ ComesAfterCreator
      /\ BagsGrow /\ Generations /\ ChangingUnawaited
  BY DEF CompleteInv, SeenInv, OwnedInv, CallbackInv, FlowProgram
<1> PICK c : c = frame[p].child
  OBVIOUS
<1>1. /\ pc[p] = "receive" /\ pc' = [pc EXCEPT ![p] = "rename"]
      /\ TaskReceiveTokenLog(ID(c), ptr[p])
      /\ addChildAndEnd(p, {ID(c)})
      /\ UNCHANGED <<taskIDSeed, live, ptr, frame, parent, before>>
  BY DEF ChildReceives, TaskReceiveTokenLog, programVars
<1>2. /\ Known(p) /\ ptr[p] \in Infos /\ ID(p) \in TaskIDs /\ frame[p] \in AnyFrame
      /\ c \in Tasks /\ pc[c] = "born" /\ Known(c) /\ ID(c) \in TaskIDs
  BY <1>0, <1>1, KnownID DEF FrameInv, Framed, ProgramTyped, AnyFrame, PlainProgram
<1>3. /\ BagStep(ID(c)) /\ idMap' = idMap
      /\ idMap[ptr[p]] \notin {NoID, ID(c)} => Behind(idMap[ptr[p]]) \subseteq HB'[ID(c)]
  BY <1>0, <1>1, <1>2, ReceiveBag DEF FrameInv, Keys
<1>4. idMap[ptr[p]] = ID(p) /\ ID(p) < ID(c)
  BY <1>0, <1>1, <1>2 DEF SegmentSeen, ComesAfterCreator
<1>5. Behind(ID(p)) \subseteq HB'[ID(c)]
  <2>1. ID(p) # NoID /\ ID(p) # ID(c)
    <3>1. ID(p) \in Nat /\ ID(c) \in Nat
      BY <1>2
    <3> QED
      BY <1>4, <3>1 DEF NoID
  <2> QED
    BY <1>3, <1>4, <2>1
<1>6. /\ \A i \in Infos : i # ptr[p] => info'[i] = info[i]
      /\ info'[ptr[p]].childrenIDs = info[ptr[p]].childrenIDs \cup {ID(c)}
  BY <1>0, <1>1, <1>2 DEF addChildAndEnd, FrameInv, InfoTyped
<1>7. \A t \in Tasks : Known(t) => Known(t)' /\ ID(t)' = ID(t)
  BY <1>1 DEF IDStep, Known
<1>8. PICK n : n = ID(c)
  OBVIOUS
<1>9. Local(n)
  BY <1>1, <1>2, <1>3, <1>7, <1>8 DEF Local
<1>10. parent' = parent /\ pc'[p] = "rename" /\ Alone(p)
  <2>1. pc'[p] = "rename" /\ \A t \in Tasks : t # p => pc'[t] = pc[t]
    BY <1>0, <1>1 DEF FrameInv, ProgramTyped
  <2> QED
    BY <1>0, <1>1, <1>2, <1>6, <2>1, InfoAlone
<1>11. TokensApart(p) /\ HandsOn(p)
  BY <1>1, <1>3, <1>6 DEF TokensApart, HandsOn
<1>12. HB[ID(p)] \subseteq HB'[ID(p)']
  BY <1>2, <1>3, <1>7 DEF BagStep
<1>13. SegmentSeen(p)'
  <2>1. p \in Changing /\ before[p] \subseteq HB[ID(p)] /\ frame[p].child # NoTask
    BY <1>0, <1>1, <1>2 DEF SegmentSeen, CreatePCs, RestPCs
  <2> QED
    BY <1>1, <1>2, <1>3, <1>4, <1>7, <1>10, <1>12, <2>1 DEF SegmentSeen, RestPCs, WaitPCs
<1>14. TokensCover'
  BY <1>1, <1>3, <1>9, <1>10, MoveCovers DEF Ready
<1>15. ASSUME NEW d \in Tasks, frame'[p].child = d
       PROVE  CreationSeen(p, d)'
  <2>1. d = c /\ CreationSeen(p, c)
    BY <1>0, <1>1, <1>2, <1>15 DEF CreationsSeen
  <2>2. before[c] \subseteq before[p] \cup {ID(p)} /\ before[p] \subseteq HB[ID(p)]
        /\ ClausesLeft(p, c) /\ TokensSent(p, c) /\ TokensReceived(p, c)
    BY <1>0, <1>1, <1>2, <2>1 DEF CreationSeen, CreatePCs, SegmentSeen, RestPCs
  <2>3. before'[c] \subseteq HB'[ID(c)']
    BY <1>1, <1>2, <1>5, <1>7, <2>2 DEF Behind
  <2>4. ClausesLeft(p, c)' /\ TokensSent(p, c)' /\ TokensReceived(p, c)'
    BY <1>0, <1>1, <1>2, <1>3, <1>7, <1>9, <2>2, HandledStays
  <2> QED
    BY <1>10, <2>1, <2>3, <2>4 DEF CreationSeen
<1> QED
  BY <1>1, <1>2, <1>9, <1>10, <1>11, <1>13, <1>14, <1>15, MoveSeen

\* A task that changes its ID goes on with its segment behind it.
LEMMA RenameSeen ==
  ASSUME OwnAddresses, PlainProgram, FlowProgram, NEW o, CompleteInv(o), Shape, IDStep,
         NEW p \in Tasks, Rename(p)
  PROVE  OrderSeen'
<1>0. /\ FrameInv /\ CreationsSeen /\ SegmentSeen(p) /\ Owners(o)
      /\ BagsGrow /\ Generations /\ ChangingUnawaited
  BY DEF CompleteInv, SeenInv, OwnedInv, FlowProgram
<1>1. /\ pc[p] = "rename" /\ pc' = [pc EXCEPT ![p] = "adopt"]
      /\ createNewTaskMetadata(p)
      /\ before' = [before EXCEPT ![p] = @ \cup {ID(p)}]
      /\ UNCHANGED <<frame, parent>>
  BY DEF Rename, programVars
<1>2. /\ Known(p) /\ ptr[p] \in Infos /\ ID(p) \in TaskIDs /\ frame[p].old = ptr[p]
      /\ p \in Changing /\ ID(p) # taskIDSeed
  <2>1. Known(p) /\ frame[p].old = ptr[p] /\ p \in Changing
    BY <1>0, <1>1 DEF FrameInv, Framed, SegmentSeen, WaitPCs
  <2>2. ptr[p] \in Infos /\ ID(p) \in TaskIDs
    BY <1>0, <2>1, KnownID DEF FrameInv
  <2>3. ID(p) < taskIDSeed /\ ID(p) \in Nat /\ taskIDSeed \in Nat
    BY <1>0, <2>1, <2>2 DEF Owners, FrameInv, INSTyped
  <2> QED
    BY <2>1, <2>2, <2>3
<1>3. BagStep(taskIDSeed) /\ idMap' = idMap
  BY <1>0, <1>1, CreateBag DEF FrameInv
<1>4. \A t \in Tasks : t # p => ptr'[t] = ptr[t] /\ pc'[t] = pc[t] /\ before'[t] = before[t]
                                /\ (Known(t) => Known(t)' /\ ID(t)' = ID(t))
  BY <1>0, <1>1, NewAddress DEF FrameInv, ProgramTyped, IDStep
<1>5. /\ ID(p)' = taskIDSeed /\ Known(p)' /\ pc'[p] = "adopt"
      /\ before'[p] = before[p] \cup {ID(p)}
  BY <1>0, <1>1, NewAddress DEF FrameInv, ProgramTyped, IDStep
<1>6. info'[ptr'[p]].childrenIDs = info[ptr[p]].childrenIDs
  <2>1. PICK i \in Free : info' = [info EXCEPT ![i] =
                     [taskID |-> taskIDSeed, active |-> TRUE,
                      childrenIDs |-> IF ptr[p] = NoInfo
                                        THEN {} ELSE info[ptr[p]].childrenIDs]]
                          /\ ptr' = [ptr EXCEPT ![p] = i]
    BY <1>1 DEF createNewTaskMetadata
  <2>2. i \in Infos /\ ptr'[p] = i
    BY <1>0, <1>1, <2>1, NewInfoTyped DEF FrameInv, InfoTyped
  <2> QED
    BY <1>0, <1>2, <2>1, <2>2 DEF FrameInv, InfoTyped, Known
<1>7. PICK n : n = taskIDSeed
  OBVIOUS
<1>8. Local(n)
  BY <1>2, <1>3, <1>4, <1>7 DEF Local
<1>9. Alone(p) /\ parent' = parent
  BY <1>0, <1>1, <1>4, InfoAlone
<1>10. TokensApart(p) /\ HandsOn(p)
  BY <1>1, <1>3, <1>6 DEF TokensApart, HandsOn
<1>11. PICK m : m = ID(p)
  OBVIOUS
<1>12. m \in TaskIDs /\ Behind(m) \subseteq Behind(m)' /\ HB[m] \subseteq HB'[m]
       /\ before'[p] = before[p] \cup {m}
  BY <1>2, <1>3, <1>5, <1>11, BehindGrows DEF BagStep
<1>13. SegmentSeen(p)'
  <2>1. ASSUME frame[p].child # NoTask
        PROVE  /\ idMap'[frame'[p].old] \notin {NoID, ID(p)'}
               /\ before'[p] \subseteq Behind(idMap[frame[p].old])'
    <3>1. before[p] \subseteq HB[m] /\ idMap'[frame'[p].old] = m
      BY <1>0, <1>1, <1>2, <1>3, <1>11, <2>1 DEF SegmentSeen
    <3>2. before'[p] \subseteq Behind(m)'
      BY <1>12, <3>1 DEF Behind
    <3>3. Behind(idMap[frame[p].old])' = Behind(m)'
      BY <3>1 DEF Behind
    <3>4. m # NoID /\ m # ID(p)'
      BY <1>2, <1>5, <1>11 DEF NoID
    <3> QED
      BY <3>1, <3>2, <3>3, <3>4
  <2>2. ASSUME frame[p].child = NoTask
        PROVE  p \in Waiters /\ before'[p] \subseteq HB'[ID(p)'] \cup Kids(p)'
    <3>1. /\ p \in Waiters /\ before[p] \subseteq HB[m] \cup Kids(p)
          /\ m \in info[ptr[p]].childrenIDs
      BY <1>0, <1>1, <1>11, <2>2 DEF SegmentSeen, WaitPCs
    <3>2. Kids(p) \subseteq Kids(p)'
      BY <1>0, <1>2, <1>3, <1>6, KidsGrow
    <3>3. Behind(m)' \subseteq Kids(p)'
      BY <1>6, <3>1 DEF Kids
    <3>4. {m} \cup HB'[m] \subseteq Kids(p)'
      BY <3>3 DEF Behind
    <3> QED
      BY <1>12, <3>1, <3>2, <3>4
  <2> QED
    BY <1>1, <1>2, <1>5, <2>1, <2>2 DEF SegmentSeen, CreatePCs, RestPCs, WaitPCs
<1>14. TokensCover'
  BY <1>1, <1>3, <1>5, <1>8, <1>9, MoveCovers DEF Ready
<1>15. ASSUME NEW c \in Tasks, frame'[p].child = c
       PROVE  CreationSeen(p, c)'
  <2>1. CreationSeen(p, c) /\ frame[p].child = c /\ pc[c] = "born" /\ Known(c) /\ c # p
    BY <1>0, <1>1, <1>15 DEF CreationsSeen, FrameInv, Framed, PlainProgram
  <2>2. /\ before[c] \subseteq HB[ID(c)]
        /\ ClausesLeft(p, c) /\ TokensSent(p, c) /\ TokensReceived(p, c)
    BY <1>1, <2>1 DEF CreationSeen, CreatePCs
  <2>3. ID(c)' = ID(c) /\ before'[c] = before[c]
    BY <1>4, <2>1
  <2>4. before'[c] \subseteq HB'[ID(c)']
    BY <1>0, <1>3, <2>1, <2>2, <2>3, KnownID DEF BagStep, FrameInv
  <2>5. ClausesLeft(p, c)' /\ TokensSent(p, c)' /\ TokensReceived(p, c)'
    BY <1>0, <1>1, <1>3, <1>8, <2>1, <2>2, <2>3, HandledStays
  <2> QED
    BY <1>5, <2>4, <2>5 DEF CreationSeen
<1> QED
  BY <1>1, <1>2, <1>5, <1>8, <1>9, <1>10, <1>13, <1>14, <1>15, MoveSeen

\* The new segment receives the token of the old one.
LEMMA AdoptSeen ==
  ASSUME OwnAddresses, PlainProgram, FlowProgram, NEW o, CompleteInv(o), Shape, IDStep,
         NEW p \in Tasks, Adopt(p)
  PROVE  OrderSeen'
<1>0. /\ FrameInv /\ CreationsSeen /\ SegmentSeen(p) /\ Owners(o)
      /\ BagsGrow /\ Generations /\ ChangingUnawaited
  BY DEF CompleteInv, SeenInv, OwnedInv, FlowProgram
<1> PICK i : i = frame[p].old
  OBVIOUS
<1>1. /\ pc[p] = "adopt"
      /\ pc' = [pc EXCEPT ![p] = IF frame[p].child = NoTask THEN "saveChildren" ELSE "depend"]
      /\ TaskReceiveTokenLog(ID(p), i)
      /\ UNCHANGED <<taskIDSeed, info, ptr, frame, parent, before>>
  BY DEF Adopt, TaskReceiveTokenLog, programVars
<1>2. /\ Known(p) /\ ptr[p] \in Infos /\ ID(p) \in TaskIDs /\ p \in Changing
      /\ i \in Infos
  BY <1>0, <1>1, KnownID DEF FrameInv, Framed, InfoTyped, SegmentSeen, WaitPCs
<1>3. /\ BagStep(ID(p)) /\ idMap' = idMap
      /\ idMap[i] \notin {NoID, ID(p)} => Behind(idMap[i]) \subseteq HB'[ID(p)]
  BY <1>0, <1>1, <1>2, ReceiveBag DEF FrameInv, Keys
<1>4. \A t \in Tasks : ID(t)' = ID(t) /\ (Known(t)' <=> Known(t))
  BY <1>1 DEF ID, Known
<1>5. PICK n : n = ID(p)
  OBVIOUS
<1>6. Local(n)
  BY <1>1, <1>2, <1>3, <1>4, <1>5 DEF Local
<1>7. /\ \A t \in Tasks : t # p => pc'[t] = pc[t]
      /\ pc'[p] = IF frame[p].child = NoTask THEN "saveChildren" ELSE "depend"
  BY <1>0, <1>1 DEF FrameInv, ProgramTyped
<1>8. Alone(p) /\ parent' = parent
  BY <1>1, <1>4, <1>7 DEF Alone, Stands
<1>9. TokensApart(p) /\ HandsOn(p)
  BY <1>1, <1>3 DEF TokensApart, HandsOn
<1>10. HB[ID(p)] \subseteq HB'[ID(p)']
  BY <1>2, <1>3, <1>4 DEF BagStep
<1>11. SegmentSeen(p)'
  <2>1. CASE frame[p].child # NoTask
    <3>1. before[p] \subseteq HB'[ID(p)']
      BY <1>0, <1>1, <1>3, <1>4, <2>1 DEF SegmentSeen
    <3> QED
      BY <1>1, <1>2, <1>7, <2>1, <3>1 DEF SegmentSeen, WaitPCs
  <2>2. CASE frame[p].child = NoTask
    <3>1. p \in Waiters /\ before[p] \subseteq HB[ID(p)] \cup Kids(p)
      BY <1>0, <1>1, <2>2 DEF SegmentSeen, WaitPCs
    <3>2. Kids(p) \subseteq Kids(p)'
      BY <1>0, <1>1, <1>2, <1>3, KidsGrow
    <3> QED
      BY <1>1, <1>2, <1>7, <1>10, <2>2, <3>1, <3>2 DEF SegmentSeen, CreatePCs, RestPCs
  <2> QED
    BY <2>1, <2>2
<1>12. TokensCover'
  BY <1>1, <1>3, <1>6, <1>7, <1>8, MoveCovers DEF Ready
<1>13. ASSUME NEW c \in Tasks, frame'[p].child = c
       PROVE  CreationSeen(p, c)'
  <2>1. CreationSeen(p, c) /\ frame[p].child = c /\ Known(c) /\ c # NoTask
    BY <1>0, <1>1, <1>13 DEF CreationsSeen, FrameInv, Framed, PlainProgram
  <2>2. /\ before[c] \subseteq HB[ID(c)]
        /\ ClausesLeft(p, c) /\ TokensSent(p, c) /\ TokensReceived(p, c)
    BY <1>1, <2>1 DEF CreationSeen, CreatePCs
  <2>3. before'[c] \subseteq HB'[ID(c)']
    BY <1>0, <1>1, <1>3, <1>4, <2>1, <2>2, KnownID DEF BagStep, FrameInv
  <2>4. ClausesLeft(p, c)' /\ TokensSent(p, c)' /\ TokensReceived(p, c)'
    BY <1>0, <1>1, <1>3, <1>4, <1>6, <2>1, <2>2, HandledStays
  <2> QED
    BY <1>7, <2>1, <2>3, <2>4 DEF CreationSeen
<1> QED
  BY <1>1, <1>2, <1>6, <1>7, <1>8, <1>9, <1>11, <1>12, <1>13, MoveSeen

\* A task that has waited comes after its children.
LEMMA SaveChildrenSeen ==
  ASSUME OwnAddresses, PlainProgram, FlowProgram, NEW o, CompleteInv(o), Shape, IDStep,
         NEW p \in Tasks, SaveChildren(p)
  PROVE  OrderSeen'
<1>0. /\ FrameInv /\ SegmentSeen(p) /\ ChildrenOver /\ BagsGrow
  BY DEF CompleteInv, SeenInv, OwnedInv, CallbackInv
<1>1. /\ pc[p] = "saveChildren" /\ pc' = [pc EXCEPT ![p] = "run"]
      /\ frame' = [frame EXCEPT ![p] = Idle] /\ saveChildHBs(p)
      /\ info' = [info EXCEPT ![ptr[p]].childrenIDs = {}]
      /\ UNCHANGED <<ptr, parent, before, idMap>>
  BY DEF SaveChildren, saveChildHBs, programVars, insVars
<1>2. /\ Known(p) /\ ptr[p] \in Infos /\ ID(p) \in TaskIDs /\ frame[p].child = NoTask
      /\ p \in Changing
  BY <1>0, <1>1, KnownID DEF FrameInv, Framed, SegmentSeen, WaitPCs
<1>3. BagStep(ID(p)) /\ Kids(p) \subseteq HB'[ID(p)]
  BY <1>0, <1>1, <1>2, SaveBag DEF FrameInv
<1>4. \A t \in Tasks : Known(t) => Known(t)' /\ ID(t)' = ID(t)
  BY <1>1 DEF IDStep, Known
<1>5. PICK n : n = ID(p)
  OBVIOUS
<1>6. Local(n)
  BY <1>1, <1>2, <1>3, <1>4, <1>5 DEF Local
<1>7. /\ \A t \in Tasks : t # p => pc'[t] = pc[t] /\ frame'[t] = frame[t]
      /\ pc'[p] = "run" /\ frame'[p] = Idle
  BY <1>0, <1>1 DEF FrameInv, ProgramTyped
<1>8. Alone(p) /\ parent' = parent
  <2>1. \A i \in Infos : i # ptr[p] => info'[i] = info[i]
    BY <1>0, <1>1 DEF FrameInv, InfoTyped
  <2> QED
    BY <1>0, <1>1, <1>2, <1>7, <2>1, InfoAlone
<1>9. TokensApart(p)
  BY <1>1 DEF TokensApart
<1>10. HandsOn(p)
  <2>1. \A c \in Tasks : parent[c] = p => pc[c] = "done" /\ Past(c) \subseteq before[p]
    BY <1>0, <1>1, <1>2 DEF ChildrenOver
  <2> QED
    BY <1>1, <2>1 DEF HandsOn
<1>11. SegmentSeen(p)'
  <2>1. before[p] \subseteq HB[ID(p)] \cup Kids(p)
    BY <1>0, <1>1, <1>2 DEF SegmentSeen, WaitPCs
  <2>2. before'[p] \subseteq HB'[ID(p)']
    BY <1>1, <1>2, <1>3, <1>4, <2>1 DEF BagStep
  <2> QED
    BY <1>7, <2>2 DEF SegmentSeen, CreatePCs, WaitPCs, Idle
<1>12. TokensCover'
  BY <1>1, <1>6, <1>7, <1>8, MoveCovers DEF Ready
<1>13. \A c \in Tasks : frame'[p].child # c
  BY <1>7 DEF Idle
<1> QED
  BY <1>1, <1>2, <1>6, <1>7, <1>8, <1>9, <1>10, <1>11, <1>12, <1>13, MoveSeen

\* Taskwait is left: the children are over, and the task has their IDs.
LEMMA TaskwaitEndSeen ==
  ASSUME OwnAddresses, PlainProgram, FlowProgram, NEW o, CompleteInv(o), Shape, IDStep,
         NEW p \in Tasks, TaskwaitEnd(p)
  PROVE  OrderSeen'
<1>0. /\ FrameInv /\ SegmentSeen(p) /\ ChildrenKept /\ BagsGrow /\ ChangingUnawaited
      /\ Generations /\ Owners(o)
  BY DEF CompleteInv, SeenInv, OwnedInv, FlowProgram
<1>1. /\ pc[p] = "run" /\ p \in Waiters /\ Known(p)
      /\ \A c \in Children(p) : pc[c] = "done"
      /\ before' = [before EXCEPT ![p] = @ \cup PastOf(Children(p))]
      /\ addChildAndEnd(p, {ID(p)})
      /\ frame' = [frame EXCEPT ![p].old = ptr[p]]
      /\ pc' = [pc EXCEPT ![p] = "rename"]
      /\ UNCHANGED <<HB, idMap, ptr, parent>>
  BY DEF TaskwaitEnd, programVars, checkerVars, insVars
<1>2. /\ ptr[p] \in Infos /\ ID(p) \in TaskIDs /\ frame[p].child = NoTask /\ p \in Changing
  BY <1>0, <1>1, KnownID DEF FrameInv, Framed, Idle, Changing
<1>3. \A t \in Tasks : Known(t) => Known(t)' /\ ID(t)' = ID(t)
  BY <1>1 DEF IDStep, Known
<1>4. PICK n : n = ID(p)
  OBVIOUS
<1>5. BagStep(n) /\ Local(n)
  BY <1>1, <1>2, <1>3, <1>4 DEF Local, BagStep
<1>6. /\ \A t \in Tasks : t # p => /\ pc'[t] = pc[t] /\ frame'[t] = frame[t]
                                   /\ before'[t] = before[t]
      /\ pc'[p] = "rename" /\ frame'[p].child = NoTask
      /\ before'[p] = before[p] \cup PastOf(Children(p))
  BY <1>0, <1>1, <1>2 DEF FrameInv, ProgramTyped, AnyFrame
<1>7. /\ \A i \in Infos : i # ptr[p] => info'[i] = info[i]
      /\ info'[ptr[p]].childrenIDs = info[ptr[p]].childrenIDs \cup {ID(p)}
  BY <1>0, <1>1, <1>2 DEF addChildAndEnd, FrameInv, InfoTyped
<1>8. Alone(p) /\ parent' = parent
  BY <1>0, <1>1, <1>6, <1>7, InfoAlone
<1>9. TokensApart(p) /\ HandsOn(p)
  BY <1>1, <1>2, <1>7 DEF TokensApart, HandsOn
<1>10. Kids(p) \subseteq Kids(p)'
  BY <1>0, <1>1, <1>5, <1>7, KidsGrow
<1>11. ASSUME NEW c \in Children(p)
       PROVE  Past(c) \subseteq before[p] \cup Kids(p)
  <2>1. c \in Tasks /\ parent[c] = p /\ pc[c] = "done" /\ c \in ExplicitTasks /\ Known(c)
    BY <1>0, <1>1 DEF Children, Generations, ExplicitTasks
  <2>2. CASE ID(c) \in info[ptr[p]].childrenIDs
    <3>1. before[c] \subseteq HB[ID(c)]
      BY <2>1 DEF CompleteInv, SeenInv, SegmentSeen, RestPCs
    <3>2. Past(c) \subseteq Behind(ID(c))
      BY <3>1 DEF Past, Segment, Behind
    <3> QED
      BY <2>2, <3>2 DEF Kids
  <2>3. CASE pc[c] = "done" /\ Past(c) \subseteq before[p]
    BY <2>3
  <2> QED
    BY <1>0, <1>1, <2>1, <2>2, <2>3 DEF ChildrenKept
<1>12. SegmentSeen(p)'
  <2>1. before[p] \subseteq HB[ID(p)]
    BY <1>0, <1>1 DEF SegmentSeen, RestPCs
  <2>2. PastOf(Children(p)) \subseteq before[p] \cup Kids(p)
    BY <1>11 DEF PastOf
  <2>3. before'[p] \subseteq HB'[ID(p)'] \cup Kids(p)'
    BY <1>1, <1>3, <1>6, <1>10, <2>1, <2>2
  <2>4. ID(p)' \in info'[ptr'[p]].childrenIDs
    BY <1>1, <1>3, <1>7
  <2> QED
    BY <1>1, <1>2, <1>6, <2>3, <2>4 DEF SegmentSeen, RestPCs
<1>13. TokensCover'
  BY <1>1, <1>5, <1>6, <1>8, MoveCovers DEF Ready
<1>14. \A c \in Tasks : frame'[p].child # c
  BY <1>6
<1> QED
  BY <1>1, <1>5, <1>6, <1>8, <1>9, <1>12, <1>13, <1>14, MoveSeen

\* A created task starts, with all it waited for in its bag.
LEMMA TaskScheduleSeen ==
  ASSUME OwnAddresses, PlainProgram, FlowProgram, NEW o, CompleteInv(o), Shape, IDStep,
         NEW p \in Tasks, TaskSchedule(p)
  PROVE  OrderSeen'
<1>0. /\ FrameInv /\ SegmentSeen(p) /\ Generations /\ PredsSeen
  BY DEF CompleteInv, SeenInv
<1>1. /\ pc[p] = "created" /\ pc' = [pc EXCEPT ![p] = "run"]
      /\ \A s \in preds[p] : pc[s] = "done"
      /\ before' = [before EXCEPT ![p] = @ \cup PastOf(preds[p])]
      /\ UNCHANGED <<frame, parent>>
  BY DEF TaskSchedule, programVars
<1>2. Known(p) /\ ID(p) \in TaskIDs
  BY <1>0, <1>1, KnownID DEF Generations, ExplicitTasks, FrameInv
<1>3. UNCHANGED <<HB, idMap, info, ptr>>
  BY <1>2 DEF TaskSchedule, graphVars, insVars, infoVars
<1>4. \A t \in Tasks : ID(t)' = ID(t) /\ (Known(t)' <=> Known(t))
  BY <1>3 DEF ID, Known
<1>5. PICK n : n = taskIDSeed
  OBVIOUS
<1>6. Local(n)
  BY <1>3, <1>4, <1>5 DEF Local, BagStep
<1>7. /\ \A t \in Tasks : t # p => pc'[t] = pc[t] /\ before'[t] = before[t]
      /\ pc'[p] = "run" /\ before'[p] = before[p] \cup PastOf(preds[p])
  BY <1>0, <1>1 DEF FrameInv, ProgramTyped
<1>8. Alone(p) /\ parent' = parent
  BY <1>1, <1>3, <1>4, <1>7 DEF Alone, Stands
<1>9. frame[p].child = NoTask
  BY <1>0, <1>1 DEF FrameInv, Framed, Idle
<1>10. TokensApart(p) /\ HandsOn(p)
  BY <1>1, <1>3, <1>9 DEF TokensApart, HandsOn, Waits
<1>11. SegmentSeen(p)'
  <2>1. before[p] \subseteq HB[ID(p)]
    BY <1>0, <1>1, <1>2 DEF SegmentSeen, RestPCs
  <2>2. ASSUME NEW s \in preds[p]
        PROVE  Past(s) \subseteq HB[ID(p)]
    <3>1. s \in Tasks /\ pc[s] = "done"
      BY <1>0, <1>1 DEF FrameInv, ProgramTyped
    <3>2. Known(s) => before[s] \subseteq HB[ID(s)]
      BY <3>1 DEF CompleteInv, SeenInv, SegmentSeen, RestPCs
    <3>3. Known(s)
      BY <1>0, <3>1 DEF Generations, ExplicitTasks
    <3>4. Past(s) \subseteq Behind(ID(s))
      BY <3>2, <3>3 DEF Past, Segment, Behind
    <3> QED
      BY <1>0, <1>1, <3>4 DEF PredsSeen
  <2>3. before'[p] \subseteq HB[ID(p)]
    BY <1>7, <2>1, <2>2 DEF PastOf
  <2> QED
    BY <1>1, <1>3, <1>4, <1>7, <1>9, <2>3 DEF SegmentSeen, CreatePCs, WaitPCs
<1>12. TokensCover'
  BY <1>1, <1>3, <1>6, <1>7, <1>8, MoveCovers DEF Ready
<1>13. \A c \in Tasks : frame'[p].child # c
  BY <1>1, <1>9
<1> QED
  BY <1>1, <1>2, <1>6, <1>7, <1>8, <1>10, <1>11, <1>12, <1>13, MoveSeen

\* A task of the team begins, and nothing is before it.
LEMMA ImplicitBeginSeen ==
  ASSUME OwnAddresses, PlainProgram, FlowProgram, NEW o, CompleteInv(o), Shape, IDStep,
         NEW k \in DOMAIN Regions, NEW p \in Regions[k], ImplicitBegin(p, k)
  PROVE  OrderSeen'
<1>0. FrameInv /\ BagsGrow
  BY DEF CompleteInv
<1>1. /\ p \in ImplicitTasks /\ p \in Tasks /\ p \notin ExplicitTasks
      /\ pc[p] = "unborn" /\ pc' = [pc EXCEPT ![p] = "run"]
      /\ createNewTaskMetadata(p)
      /\ before' = [before EXCEPT ![p] = PastOf(Earlier(k))]
      /\ UNCHANGED <<frame, parent>>
  BY DEF ImplicitBegin, programVars, ImplicitTasks, ExplicitTasks
<1>2. PastOf(Earlier(k)) = {}
  <2>1. k = 1
    BY DEF PlainProgram
  <2>2. \A j : j \notin 1 .. k - 1
    BY <2>1
  <2> QED
    BY <2>2 DEF Earlier, PastOf
<1>3. BagStep(taskIDSeed) /\ idMap' = idMap
  BY <1>0, <1>1, CreateBag DEF FrameInv
<1>4. \A t \in Tasks : t # p => ptr'[t] = ptr[t] /\ pc'[t] = pc[t] /\ before'[t] = before[t]
                                /\ (Known(t) => Known(t)' /\ ID(t)' = ID(t))
  BY <1>0, <1>1, NewAddress DEF FrameInv, ProgramTyped, IDStep
<1>5. pc'[p] = "run" /\ before'[p] = {} /\ frame[p].child = NoTask
  BY <1>0, <1>1, <1>2 DEF FrameInv, ProgramTyped, Framed, Idle
<1>6. PICK n : n = taskIDSeed
  OBVIOUS
<1>7. Local(n)
  BY <1>1, <1>3, <1>4, <1>6 DEF Local
<1>8. Alone(p) /\ parent' = parent
  BY <1>0, <1>1, <1>4, InfoAlone
<1>9. TokensApart(p) /\ HandsOn(p)
  BY <1>1, <1>3, <1>5 DEF TokensApart, HandsOn, Waits
<1>10. SegmentSeen(p)'
  BY <1>1, <1>5 DEF SegmentSeen, CreatePCs, WaitPCs
<1>11. TokensCover'
  BY <1>1, <1>3, <1>7, <1>8, MoveCovers DEF Ready
<1>12. \A c \in Tasks : frame'[p].child # c
  BY <1>1, <1>5
<1> QED
  BY <1>1, <1>5, <1>7, <1>8, <1>9, <1>10, <1>11, <1>12, MoveSeen DEF Waits

\* Once the callback has handled all clauses, the new task has all it waits for in its bag.
LEMMA AllReceived ==
  ASSUME FlowProgram, FrameInv, NEW p \in Tasks, NEW c \in Tasks, frame[p].child = c,
         frame[p].deps = << >>, TokensReceived(p, c)
  PROVE  /\ \A s \in preds[c] : Behind(ID(s)) \subseteq HB[ID(c)]
         /\ HandledBy(p, c) = Len(depsOf[c])
<1>1. depsOf[c] \in Seq(Dep) /\ Len(depsOf[c]) \in Nat /\ preds[c] \subseteq Tasks
  BY DEF FrameInv, ProgramTyped
<1>2. HandledBy(p, c) = Len(depsOf[c])
  BY <1>1 DEF HandledBy
<1>3. ASSUME NEW s \in preds[c]
      PROVE  Behind(ID(s)) \subseteq HB[ID(c)]
  <2>1. PICK i \in DOMAIN depsOf[c] : FlowClause(s, c, i)
    BY <1>1 DEF FlowProgram, FlowDependences
  <2>2. i <= HandledBy(p, c)
    BY <1>1, <1>2, <2>1
  <2> QED
    BY <2>1, <2>2 DEF TokensReceived
<1> QED
  BY <1>2, <1>3

\* The callbacks of a creation are over.
LEMMA CreatedSeen ==
  ASSUME OwnAddresses, PlainProgram, FlowProgram, NEW o, CompleteInv(o), Shape, IDStep,
         NEW p \in Tasks, Created(p)
  PROVE  OrderSeen'
<1>0. /\ FrameInv /\ Unborn /\ Owners(o) /\ Generations /\ ChangingUnawaited /\ SiblingsDepend
      /\ CreationsSeen /\ ChildrenKept /\ PredsSeen /\ TokensCover /\ WaitsForSiblings
  BY DEF CompleteInv, OwnedInv, SeenInv, FlowProgram, CallbackInv
<1> PICK c : c = frame[p].child
  OBVIOUS
<1>1. /\ pc[p] = "depend" /\ frame[p].deps = << >>
      /\ pc' = [pc EXCEPT ![p] = "run", ![c] = "created"]
      /\ frame' = [frame EXCEPT ![p] = Idle]
      /\ UNCHANGED <<HB, idMap, info, ptr, parent, depsOf, preds, before>>
  BY DEF Created, checkerVars, insVars, infoVars, programVars
<1>2. /\ c \in Tasks /\ c # p /\ pc[c] = "born" /\ Known(c) /\ Known(p) /\ parent[c] = p
      /\ frame[c] = Idle /\ ID(c) \in TaskIDs
  BY <1>0, <1>1, KnownID DEF FrameInv, Framed, ProgramTyped, AnyFrame, PlainProgram
<1>3. /\ \A t \in Tasks : ID(t)' = ID(t) /\ (Known(t)' <=> Known(t))
      /\ \A t \in Tasks : Behind(ID(t))' = Behind(ID(t))
  BY <1>1 DEF ID, Known, Behind
<1>4. /\ \A t \in Tasks : t # p /\ t # c => pc'[t] = pc[t]
      /\ \A t \in Tasks : t # p => frame'[t] = frame[t]
      /\ pc'[p] = "run" /\ pc'[c] = "created" /\ frame'[p] = Idle
  BY <1>0, <1>1, <1>2 DEF FrameInv, ProgramTyped
<1>5. PICK n : n = taskIDSeed
  OBVIOUS
<1>6. Local(n) /\ BagStep(n)
  BY <1>1, <1>3, <1>5 DEF Local, BagStep
<1>7. /\ before[c] \subseteq HB[ID(c)]
      /\ TokensSent(p, c) /\ TokensReceived(p, c)
  BY <1>0, <1>1, <1>2 DEF CreationsSeen, CreationSeen, CreatePCs
<1>8. /\ \A s \in preds[c] : Behind(ID(s)) \subseteq HB[ID(c)]
      /\ HandledBy(p, c) = Len(depsOf[c])
  BY <1>0, <1>1, <1>2, <1>7, AllReceived
<1>9. ASSUME NEW t \in Tasks
      PROVE  SegmentSeen(t)'
  <2>0. SegmentSeen(t)
    BY DEF CompleteInv, SeenInv
  <2>1. CASE t # p /\ t # c
    <3>1. Stands(t)
      BY <1>1, <1>3, <1>4, <2>1 DEF Stands
    <3> QED
      BY <1>0, <1>1, <1>6, <2>0, <3>1, SegmentStays
  <2>2. CASE t = p
    BY <1>1, <1>2, <1>3, <1>4, <2>0, <2>2 DEF SegmentSeen, Idle, RestPCs, CreatePCs, WaitPCs
  <2>3. CASE t = c
    BY <1>1, <1>2, <1>3, <1>4, <1>7, <2>3 DEF SegmentSeen, Idle, CreatePCs, WaitPCs
  <2> QED
    BY <2>1, <2>2, <2>3
<1>10. CreationsSeen'
  <2> SUFFICES ASSUME NEW q \in Tasks, NEW d \in Tasks, frame'[q].child = d
               PROVE  CreationSeen(q, d)'
    BY DEF CreationsSeen
  <2>1. q # p /\ frame[q].child = d
    BY <1>4 DEF Idle
  <2>2. pc[d] = "born" /\ parent[d] = q /\ d # NoTask
    BY <1>0, <2>1 DEF FrameInv, Framed
  <2>3. q # c
    BY <1>2, <2>1, <2>2 DEF Idle
  <2>4. Apart(q, d)
    BY <1>1, <1>2, <1>3, <1>4, <2>1, <2>2, <2>3 DEF Apart
  <2> QED
    BY <1>0, <1>6, <2>1, <2>4, CreationStays DEF CreationsSeen
<1>11. ChildrenKept'
  <2>1. \A q, d \in Tasks : frame[q].child = d /\ pc[q] \in {"send", "receive"} =>
           frame'[q].child = d /\ pc'[q] \in {"send", "receive"}
    BY <1>1, <1>2, <1>4
  <2> QED
    BY <1>0, <1>1, <1>3, <1>6, <2>1, ChildrenStay
<1>12. ASSUME NEW x \in DepAddrs
       PROVE  InProgress(x)' \/ WritersCovered(x)'
  <2>1. CASE idMap[x] = ID(c)
    <3>1. PICK j \in DOMAIN depsOf[c] : depsOf[c][j].addr = x
      <4>1. depsOf[c] \in Seq(Dep)
        BY <1>0, <1>2 DEF FrameInv, ProgramTyped
      <4> QED
        BY <1>7, <1>8, <2>1, <4>1 DEF TokensSent
    <3>2. ASSUME NEW s \in Tasks, NEW k \in DOMAIN depsOf[s], s # c,
                 depsOf[s][k].addr = x, depsOf[s][k].type # "in"
          PROVE  Behind(ID(s)) \subseteq Behind(ID(c))
      <4>1. parent[s] = p
        BY <1>0, <1>2, <3>1, <3>2 DEF SiblingsDepend
      <4>2. Clash(depsOf[c], depsOf[s])
        BY <3>1, <3>2 DEF Clash
      <4>3. s \in preds[c]
        BY <1>0, <1>2, <3>2, <4>1, <4>2 DEF WaitsForSiblings
      <4> QED
        BY <1>8, <4>3 DEF Behind
    <3>3. ID(c) # NoID
      <4>1. ID(c) \in Nat
        BY <1>2
      <4> QED
        BY <4>1 DEF NoID
    <3>4. \A s \in Tasks : \A k \in DOMAIN depsOf[s] :
            depsOf[s][k].addr = x /\ depsOf[s][k].type # "in" =>
              Behind(ID(s)) \subseteq Behind(ID(c))
      BY <3>2
    <3>5. Behind(idMap[x])' = Behind(ID(c))
      BY <1>1, <2>1 DEF Behind
    <3> QED
      BY <1>1, <1>3, <2>1, <3>3, <3>4, <3>5 DEF WritersCovered
  <2>2. CASE idMap[x] # ID(c)
    <3>1. CASE InProgress(x)
      BY <1>1, <1>2, <1>3, <1>4, <2>2, <3>1 DEF InProgress
    <3>2. CASE WritersCovered(x)
      <4>1. ASSUME NEW s \in Tasks, NEW k \in DOMAIN depsOf[s], Ready(s)',
                   depsOf[s][k].addr = x, depsOf[s][k].type # "in"
            PROVE  Ready(s)
        <5>1. CASE s = c
          <6>1. depsOf[c] \in Seq(Dep)
            BY <1>0, <1>2 DEF FrameInv, ProgramTyped
          <6> QED
            BY <1>7, <1>8, <2>2, <4>1, <5>1, <6>1 DEF TokensSent
        <5>2. CASE s # c
          BY <1>1, <1>4, <4>1, <5>2 DEF Ready
        <5> QED
          BY <5>1, <5>2
      <4>2. Behind(idMap[x])' = Behind(idMap[x])
        BY <1>1 DEF Behind
      <4> QED
        BY <1>1, <1>3, <3>2, <4>1, <4>2 DEF WritersCovered
    <3> QED
      BY <1>0, <3>1, <3>2 DEF TokensCover
  <2> QED
    BY <2>1, <2>2
<1>13. PredsSeen'
  <2> SUFFICES ASSUME NEW d \in Tasks, pc'[d] = "created", NEW s \in preds[d]
               PROVE  Behind(ID(s)) \subseteq HB[ID(d)]
    <3>1. \A d \in Tasks : preds[d] \subseteq Tasks
      BY <1>0 DEF FrameInv, ProgramTyped
    <3> QED
      BY <1>1, <1>3, <3>1 DEF PredsSeen
  <2>1. CASE d = c
    BY <1>8, <2>1
  <2>2. CASE d # c
    BY <1>0, <1>4, <2>2 DEF PredsSeen
  <2> QED
    BY <2>1, <2>2
<1> QED
  BY <1>9, <1>10, <1>11, <1>12, <1>13 DEF OrderSeen, TokensCover

-----------------------------------------------------------------------------
(* The depend clauses of a new task.                                       *)

\* Of x clauses y are left.
LEMMA Remaining ==
  ASSUME NEW x \in Nat, NEW y \in Nat
  PROVE  /\ x - (y - 1) = (x - y) + 1
         /\ y > 0 /\ x - y \in 0 .. x => x - y \in Nat /\ (x - y) + 1 \in 1 .. x
OBVIOUS

\* What the callback handles next is a clause of the new task, or the rest of one.
LEMMA NextClause ==
  ASSUME FrameInv, NEW p \in Tasks, NEW c \in Tasks, c = frame[p].child, Depend(p),
         NEW m, m = HandledBy(p, c), ClausesLeft(p, c), NEW d, d = Head(frame[p].deps)
  PROVE  /\ m \in Nat /\ Len(depsOf[c]) \in Nat /\ m + 1 \in 1 .. Len(depsOf[c])
         /\ depsOf[c] \in Seq(Dep) /\ d.addr \in DepAddrs /\ d \in AnyDep
         /\ depsOf[c][m + 1].addr = d.addr
         /\ d = depsOf[c][m + 1] \/ (Received(p, c) /\ d.type = "out")
<1>1. /\ frame[p].deps \in Seq(AnyDep) /\ frame[p].deps # << >> /\ depsOf[c] \in Seq(Dep)
  BY DEF FrameInv, ProgramTyped, AnyFrame, Depend
<1>2. /\ d = frame[p].deps[1] /\ 1 \in DOMAIN frame[p].deps /\ Len(frame[p].deps) > 0
      /\ Len(frame[p].deps) \in Nat /\ Len(depsOf[c]) \in Nat /\ d \in AnyDep
  BY <1>1, HeadTailProperties
<1>3. m \in 0 .. Len(depsOf[c]) /\ (d = depsOf[c][m + 1] \/ Received(p, c))
  BY <1>2 DEF ClausesLeft
<1>4. m = Len(depsOf[c]) - Len(frame[p].deps)
  BY DEF HandledBy
<1>5. m \in Nat /\ m + 1 \in 1 .. Len(depsOf[c])
  <2> PICK x, y : x = Len(depsOf[c]) /\ y = Len(frame[p].deps)
    OBVIOUS
  <2>1. x \in Nat /\ y \in Nat /\ y > 0 /\ m = x - y
    BY <1>2, <1>4
  <2>2. x - y \in 0 .. x
    BY <1>3, <2>1
  <2>3. x - y \in Nat /\ (x - y) + 1 \in 1 .. x
    BY <2>1, <2>2, Remaining
  <2> QED
    BY <2>1, <2>3
<1>6. Received(p, c) => depsOf[c][m + 1].addr = d.addr /\ d.type = "out"
  BY <1>2 DEF Received
<1> QED
  BY <1>1, <1>2, <1>3, <1>5, <1>6 DEF AnyDep

\* A token that is received brings what is behind the tasks that sent it before.
LEMMA DependReceives ==
  ASSUME OwnAddresses, PlainProgram, FlowProgram, NEW o, CompleteInv(o),
         NEW p \in Tasks, NEW c \in Tasks, c = frame[p].child, Depend(p),
         ClausesLeft(p, c), TokensSent(p, c),
         NEW a, a = Head(frame[p].deps).addr, TaskReceiveTokenLog(ID(c), a),
         NEW s \in preds[c], FlowClause(s, c, HandledBy(p, c) + 1)
  PROVE  Behind(ID(s)) \subseteq HB'[ID(c)]
<1>0. /\ FrameInv /\ Owners(o) /\ Generations /\ ChangingUnawaited /\ SiblingsDepend
      /\ TokensCover /\ BornInCallback /\ TokenInv(o) /\ BagsGrow
  BY DEF CompleteInv, OwnedInv, SeenInv, FlowProgram, CallbackInv
<1> PICK m, i : m = HandledBy(p, c) /\ i = m + 1
  OBVIOUS
<1>1. /\ m \in Nat /\ i \in DOMAIN depsOf[c] /\ a \in DepAddrs /\ depsOf[c][i].addr = a
  <2>1. depsOf[c] \in Seq(Dep) /\ m \in Nat /\ m + 1 \in 1 .. Len(depsOf[c])
        /\ a \in DepAddrs /\ depsOf[c][m + 1].addr = a
    BY <1>0, NextClause
  <2> QED
    BY <2>1
<1>2. /\ \A j \in 1 .. m : depsOf[c][j].addr # a
      /\ \E k \in DOMAIN depsOf[s] : depsOf[s][k].addr = a /\ depsOf[s][k].type # "in"
  BY <1>1 DEF FlowClause
<1>3. idMap[a] # ID(c)
  BY <1>1, <1>2 DEF TokensSent
<1>4. /\ pc[c] = "born" /\ parent[c] = p /\ Known(c) /\ ID(c) \in TaskIDs
      /\ s \in Tasks /\ Ready(s)
  <2>1. pc[c] = "born" /\ parent[c] = p /\ Known(c)
    BY <1>0 DEF FrameInv, Framed, PlainProgram
  <2>2. preds[c] \subseteq Tasks
    BY <1>0 DEF FrameInv, ProgramTyped
  <2> QED
    BY <1>0, <2>1, <2>2, KnownID, PredsReady DEF FrameInv
<1>5. ~InProgress(a)
  <2> SUFFICES ASSUME NEW l \in Tasks, pc[l] = "born", Known(l), idMap[a] = ID(l)
               PROVE  FALSE
    BY DEF InProgress
  <2>1. ID(l) \in TaskIDs /\ o[ID(l)] = l /\ ID(l) \in Nat
    BY <1>0, KnownID DEF FrameInv, Owners
  <2>2. idMap[a] # NoID
    BY <2>1 DEF NoID
  <2>3. \E k \in DOMAIN depsOf[l] : depsOf[l][k].addr = a
    BY <1>0, <1>1, <2>1, <2>2 DEF TokenInv, TokenFrom
  <2>4. parent[l] = p
    BY <1>0, <1>1, <1>4, <2>3 DEF SiblingsDepend
  <2>5. l = c
    BY <1>0, <2>4 DEF BornInCallback
  <2> QED
    BY <1>3, <2>5
<1>6. idMap[a] # NoID /\ Behind(ID(s)) \subseteq Behind(idMap[a])
  BY <1>0, <1>1, <1>2, <1>4, <1>5 DEF TokensCover, WritersCovered
<1>7. Behind(idMap[a]) \subseteq HB'[ID(c)]
  BY <1>0, <1>1, <1>3, <1>4, <1>6, ReceiveBag DEF FrameInv, Keys
<1> QED
  BY <1>6, <1>7

\* The clauses that are left when one has been handled, ...
LEMMA ClauseHandled ==
  ASSUME FrameInv, NEW p \in Tasks, NEW c \in Tasks, c = frame[p].child, Depend(p),
         NEW m, m = HandledBy(p, c), ClausesLeft(p, c), depsOf'[c] = depsOf[c],
         pc'[p] = "depend", frame' = [frame EXCEPT ![p].deps = Tail(frame[p].deps)]
  PROVE  ClausesLeft(p, c)' /\ HandledBy(p, c)' = m + 1 /\ ~Received(p, c)'
<1> PICK ds, es : ds = frame[p].deps /\ es = Tail(ds)
  OBVIOUS
<1>1. /\ m \in Nat /\ Len(depsOf[c]) \in Nat /\ m + 1 \in 1 .. Len(depsOf[c])
      /\ ds \in Seq(AnyDep) /\ ds # << >>
  BY NextClause DEF FrameInv, ProgramTyped, AnyFrame, Depend
<1>2. /\ es \in Seq(AnyDep) /\ Len(es) = Len(ds) - 1 /\ Len(ds) \in Nat
      /\ \A j \in 1 .. Len(es) : es[j] = ds[j + 1] /\ j + 1 \in DOMAIN ds
  BY <1>1, HeadTailProperties
<1>3. frame'[p].deps = es /\ frame \in [Tasks -> AnyFrame]
  BY DEF FrameInv, ProgramTyped, AnyFrame
<1>4. m = Len(depsOf[c]) - Len(ds)
  BY DEF HandledBy
<1>5. HandledBy(p, c)' = m + 1
  <2> PICK x, y, z : x = Len(depsOf[c]) /\ y = Len(ds) /\ z = Len(es)
    OBVIOUS
  <2>1. HandledBy(p, c)' = x - z
    BY <1>3 DEF HandledBy
  <2>2. x \in Nat /\ y \in Nat /\ z = y - 1 /\ m = x - y
    BY <1>1, <1>2, <1>4
  <2>3. x - (y - 1) = (x - y) + 1
    BY <2>2, Remaining
  <2> QED
    BY <2>1, <2>2, <2>3
<1>6. \A j \in 1 .. Len(es) : es[j] = depsOf[c][(m + 1) + j]
  <2> SUFFICES ASSUME NEW j \in 1 .. Len(es)
               PROVE  es[j] = depsOf[c][(m + 1) + j]
    OBVIOUS
  <2>1. es[j] = ds[j + 1] /\ j + 1 \in DOMAIN ds /\ j + 1 # 1
    BY <1>2
  <2>2. ds[j + 1] = depsOf[c][m + (j + 1)]
    BY <2>1 DEF ClausesLeft
  <2>3. m + (j + 1) = (m + 1) + j
    BY <1>1
  <2> QED
    BY <2>1, <2>2, <2>3
<1>7. es # << >> => es[1] = depsOf[c][(m + 1) + 1]
  <2>1. es # << >> => 1 \in 1 .. Len(es)
    BY <1>2
  <2> QED
    BY <1>6, <2>1
<1>8. ~Received(p, c)'
  BY <1>3, <1>5, <1>7 DEF Received
<1>9. ClausesLeft(p, c)'
  <2>1. m + 1 \in 0 .. Len(depsOf[c]) /\ DOMAIN es = 1 .. Len(es)
    BY <1>1, <1>2
  <2> QED
    BY <1>3, <1>5, <1>6, <2>1 DEF ClausesLeft
<1> QED
  BY <1>5, <1>8, <1>9

\* ... and when the token of an inout has been received.
LEMMA ClauseReceived ==
  ASSUME FrameInv, NEW p \in Tasks, NEW c \in Tasks, c = frame[p].child, Depend(p),
         NEW m, m = HandledBy(p, c), ClausesLeft(p, c), depsOf'[c] = depsOf[c],
         pc'[p] = "depend", NEW d, d = Head(frame[p].deps), d.type = "inout",
         frame' = [frame EXCEPT ![p].deps =
                     << [d EXCEPT !.type = "out"] >> \o Tail(frame[p].deps)]
  PROVE  ClausesLeft(p, c)' /\ HandledBy(p, c)' = m /\ Received(p, c)'
<1> PICK ds, e, es : ds = frame[p].deps /\ e = [d EXCEPT !.type = "out"]
                     /\ es = << e >> \o Tail(ds)
  OBVIOUS
<1>1. /\ m \in Nat /\ Len(depsOf[c]) \in Nat /\ m + 1 \in 1 .. Len(depsOf[c])
      /\ d = depsOf[c][m + 1] /\ d \in AnyDep
  BY NextClause
<1>2. ds \in Seq(AnyDep) /\ ds # << >>
  BY DEF FrameInv, ProgramTyped, AnyFrame, Depend
<1>3. /\ Tail(ds) \in Seq(AnyDep) /\ Len(Tail(ds)) = Len(ds) - 1 /\ Len(ds) \in Nat
      /\ \A j \in 1 .. Len(Tail(ds)) : Tail(ds)[j] = ds[j + 1] /\ j + 1 \in DOMAIN ds
  BY <1>2, HeadTailProperties
<1>4. e \in AnyDep /\ e.addr = d.addr /\ e.type = "out" /\ e # d
  BY <1>1 DEF AnyDep
<1>5. << e >> \in Seq(AnyDep) /\ Len(<< e >>) = 1
  BY <1>4
<1>6. /\ Len(es) = Len(ds) /\ es[1] = e /\ es # << >>
      /\ \A j \in 2 .. Len(es) : es[j] = ds[j]
  <2>1. /\ es \in Seq(AnyDep) /\ Len(es) = 1 + Len(Tail(ds))
        /\ \A j \in 1 .. Len(es) : es[j] = IF j <= 1 THEN << e >>[j] ELSE Tail(ds)[j - 1]
    BY <1>3, <1>5, ConcatProperties
  <2>2. Len(es) = Len(ds) /\ Len(ds) >= 1
    BY <1>2, <1>3, <2>1
  <2>3. \A j \in 2 .. Len(es) : es[j] = ds[j]
    <3> SUFFICES ASSUME NEW j \in 2 .. Len(es)
                 PROVE  es[j] = ds[j]
      OBVIOUS
    <3>1. j - 1 \in 1 .. Len(Tail(ds)) /\ es[j] = Tail(ds)[j - 1] /\ (j - 1) + 1 = j
      BY <1>3, <2>1
    <3> QED
      BY <1>3, <3>1
  <2>4. es[1] = e
    BY <2>1, <2>2
  <2> QED
    BY <2>1, <2>2, <2>3, <2>4
<1>7. frame'[p].deps = es /\ DOMAIN es = 1 .. Len(es)
  <2>1. frame'[p].deps = es
    BY DEF FrameInv, ProgramTyped, AnyFrame
  <2>2. es \in Seq(AnyDep)
    BY <1>3, <1>5, ConcatProperties
  <2>3. DOMAIN es = 1 .. Len(es)
    BY <2>2
  <2> QED
    BY <2>1, <2>3
<1>8. m = Len(depsOf[c]) - Len(ds)
  BY DEF HandledBy
<1>9. HandledBy(p, c)' = m
  BY <1>6, <1>7, <1>8 DEF HandledBy
<1>10. Received(p, c)'
  BY <1>1, <1>4, <1>6, <1>7, <1>9 DEF Received
<1>11. \A j \in DOMAIN es : es[j] = depsOf[c][m + j] \/ j = 1
  <2> SUFFICES ASSUME NEW j \in DOMAIN es, j # 1
               PROVE  es[j] = depsOf[c][m + j]
    OBVIOUS
  <2>1. j \in 2 .. Len(es) /\ j \in DOMAIN ds
    BY <1>2, <1>3, <1>6, <1>7
  <2> QED
    BY <1>6, <2>1 DEF ClausesLeft
<1>12. ClausesLeft(p, c)'
  <2>1. m \in 0 .. Len(depsOf[c])
    BY <1>1
  <2> QED
    BY <1>7, <1>9, <1>10, <1>11, <2>1 DEF ClausesLeft
<1> QED
  BY <1>9, <1>10, <1>12

\* The next clause of the new task is handled.
LEMMA DependSeen ==
  ASSUME OwnAddresses, PlainProgram, FlowProgram, NEW o, CompleteInv(o), Shape, IDStep,
         NEW p \in Tasks, Depend(p)
  PROVE  OrderSeen'
<1>0. /\ FrameInv /\ Owners(o) /\ Generations /\ ChangingUnawaited /\ SiblingsDepend
      /\ CreationsSeen /\ TokensCover /\ BagsGrow /\ SegmentSeen(p)
      /\ DepAddrs \cap Infos = {}
  BY DEF CompleteInv, OwnedInv, SeenInv, FlowProgram, OwnAddresses
<1> PICK c, d, m : c = frame[p].child /\ d = Head(frame[p].deps) /\ m = HandledBy(p, c)
  OBVIOUS
<1>1. /\ pc[p] = "depend" /\ UNCHANGED <<pc, info, ptr, parent, depsOf, preds, before>>
      /\ \/ /\ d.type = "out" /\ TaskSendTokenLog(ID(c), d.addr)
            /\ frame' = [frame EXCEPT ![p].deps = Tail(frame[p].deps)]
         \/ /\ d.type = "in" /\ TaskReceiveTokenLog(ID(c), d.addr)
            /\ frame' = [frame EXCEPT ![p].deps = Tail(frame[p].deps)]
         \/ /\ d.type = "inout" /\ TaskReceiveTokenLog(ID(c), d.addr)
            /\ frame' = [frame EXCEPT ![p].deps =
                           << [d EXCEPT !.type = "out"] >> \o Tail(frame[p].deps)]
  BY DEF Depend, infoVars, programVars
<1>2. /\ c \in Tasks /\ pc[c] = "born" /\ parent[c] = p /\ Known(c) /\ ID(c) \in TaskIDs
      /\ Known(p) /\ ID(p) \in TaskIDs /\ ID(c) # NoID
  <2>1. /\ c \in Tasks /\ pc[c] = "born" /\ parent[c] = p /\ Known(c) /\ Known(p)
    BY <1>0, <1>1 DEF FrameInv, Framed, ProgramTyped, AnyFrame, PlainProgram
  <2>2. ID(c) \in TaskIDs /\ ID(p) \in TaskIDs /\ ID(c) \in Nat
    BY <1>0, <2>1, KnownID DEF FrameInv
  <2> QED
    BY <2>1, <2>2 DEF NoID
<1>3. /\ before[c] \subseteq HB[ID(c)]
      /\ ClausesLeft(p, c) /\ TokensSent(p, c) /\ TokensReceived(p, c)
  BY <1>0, <1>1, <1>2 DEF CreationsSeen, CreationSeen, CreatePCs
<1>4. /\ m \in Nat /\ Len(depsOf[c]) \in Nat /\ m + 1 \in 1 .. Len(depsOf[c])
      /\ depsOf[c] \in Seq(Dep) /\ d.addr \in DepAddrs /\ d \in AnyDep
      /\ depsOf[c][m + 1].addr = d.addr
      /\ d = depsOf[c][m + 1] \/ (Received(p, c) /\ d.type = "out")
  BY <1>0, <1>2, <1>3, NextClause
<1>5. /\ \A t \in Tasks : ID(t)' = ID(t) /\ (Known(t)' <=> Known(t))
      /\ \A t \in Tasks : t # p => frame'[t] = frame[t]
      /\ frame'[p].child = c
  BY <1>0, <1>1 DEF ID, Known, FrameInv, ProgramTyped, AnyFrame
<1>6. /\ BagStep(ID(c))
      /\ \/ idMap' = idMap /\ d.type # "out"
         \/ idMap' = [idMap EXCEPT ![d.addr] = ID(c)] /\ d.type = "out"
  <2>1. CASE d.type = "out"
    <3>1. HB' = HB /\ idMap' = [idMap EXCEPT ![d.addr] = ID(c)]
      BY <1>1, <2>1 DEF TaskSendTokenLog, graphVars
    <3> QED
      BY <2>1, <3>1 DEF BagStep
  <2>2. CASE d.type # "out"
    <3>1. TaskReceiveTokenLog(ID(c), d.addr) /\ d.addr \in Keys
      BY <1>1, <1>4, <2>2 DEF Keys
    <3> QED
      BY <1>0, <1>2, <2>2, <3>1, ReceiveBag DEF FrameInv
  <2> QED
    BY <2>1, <2>2
<1>7. /\ \A key \in Infos : idMap'[key] = idMap[key]
      /\ \A x \in DepAddrs : \/ idMap'[x] = idMap[x]
                             \/ x = d.addr /\ idMap'[x] = ID(c) /\ d.type = "out"
      /\ d.type = "out" => idMap'[d.addr] = ID(c)
  BY <1>0, <1>4, <1>6 DEF FrameInv, INSTyped, Keys
<1>8. PICK n : n = ID(c)
  OBVIOUS
<1>9. Local(n)
  BY <1>1, <1>2, <1>5, <1>6, <1>8 DEF Local
<1>10. Alone(p) /\ parent' = parent
  BY <1>1, <1>5 DEF Alone, Stands
<1>11. HandsOn(p)
  BY <1>1 DEF HandsOn
<1>12. TokensApart(p)
  <2>1. ASSUME NEW q \in Tasks, NEW e \in Tasks, q # p, frame[q].child = e,
               NEW x \in DepAddrs, idMap'[x] # idMap[x]
        PROVE  idMap'[x] # ID(e) /\ \A j \in DOMAIN depsOf[e] : depsOf[e][j].addr # x
    <3>1. parent[e] = q /\ Known(e) /\ e # c
      BY <1>0, <1>2, <2>1 DEF FrameInv, Framed, PlainProgram
    <3>2. x = d.addr /\ idMap'[x] = ID(c)
      BY <1>7, <2>1
    <3>3. ID(e) # ID(c)
      BY <1>0, <1>2, <3>1 DEF Owners
    <3>4. m + 1 \in DOMAIN depsOf[c]
      BY <1>4
    <3>5. \A j \in DOMAIN depsOf[e] : depsOf[e][j].addr # x
      BY <1>0, <1>2, <1>4, <2>1, <3>1, <3>2, <3>4 DEF SiblingsDepend
    <3> QED
      BY <3>2, <3>3, <3>5
  <2>2. \A q, e \in Tasks : q # p /\ frame[q].child = e => \A x \in DepAddrs :
          idMap'[x] = idMap[x]
          \/ (idMap'[x] # ID(e) /\ \A j \in DOMAIN depsOf[e] : depsOf[e][j].addr # x)
    BY <2>1
  <2>3. \A key \in Infos : idMap'[key] = idMap[key]
    BY <1>7
  <2> QED
    BY <2>2, <2>3, Zenon DEF TokensApart
<1>13. SegmentSeen(p)'
  <2>1. before[p] \subseteq HB[ID(p)] /\ p \in Changing
    BY <1>0, <1>1, <1>2 DEF SegmentSeen, RestPCs, CreatePCs
  <2>2. before'[p] \subseteq HB'[ID(p)']
    BY <1>1, <1>2, <1>5, <1>6, <2>1 DEF BagStep
  <2> QED
    BY <1>1, <2>1, <2>2 DEF SegmentSeen, WaitPCs
<1>14. TokensCover'
  <2> SUFFICES ASSUME NEW x \in DepAddrs
               PROVE  InProgress(x)' \/ WritersCovered(x)'
    BY DEF TokensCover
  <2>1. CASE idMap'[x] = idMap[x]
    <3>1. \A s \in Tasks : Ready(s)' => Ready(s)
      BY <1>1 DEF Ready
    <3> QED
      BY <1>0, <1>1, <1>5, <1>9, <2>1, <3>1, CoverStays DEF TokensCover
  <2>2. CASE idMap'[x] # idMap[x]
    BY <1>1, <1>2, <1>5, <1>7, <2>2 DEF InProgress
  <2> QED
    BY <2>1, <2>2
<1>15. ASSUME NEW s \in preds[c], NEW i, i = m + 1, FlowClause(s, c, i),
              d.type # "out"
       PROVE  Behind(ID(s)) \subseteq HB'[ID(c)]
  <2>1. TaskReceiveTokenLog(ID(c), d.addr) /\ FlowClause(s, c, HandledBy(p, c) + 1)
    BY <1>1, <1>15
  <2> QED
    BY <1>2, <1>3, <2>1, DependReceives
<1>16. /\ \A s \in preds[c] : Behind(ID(s))' = Behind(ID(s)) /\ ID(s) \in TaskIDs
       /\ \A s \in preds[c] : \A i : FlowClause(s, c, i)' <=> FlowClause(s, c, i)
  BY <1>0, <1>2, <1>9, ClausesStay
<1>17. ASSUME NEW s \in preds[c], NEW i \in DOMAIN depsOf[c], FlowClause(s, c, i),
              i <= m \/ (i = m + 1 /\ Received(p, c)) \/ (i = m + 1 /\ d.type # "out")
       PROVE  Behind(ID(s))' \subseteq HB'[ID(c)']
  <2>1. Behind(ID(s)) \subseteq HB'[ID(c)]
    <3>1. CASE i <= m \/ (i = m + 1 /\ Received(p, c))
      <4>1. Behind(ID(s)) \subseteq HB[ID(c)]
        BY <1>3, <1>17, <3>1 DEF TokensReceived
      <4> QED
        BY <1>2, <1>6, <4>1 DEF BagStep
    <3>2. CASE i = m + 1 /\ d.type # "out"
      BY <1>15, <1>17, <3>2
    <3> QED
      BY <1>17, <3>1, <3>2
  <2> QED
    BY <1>2, <1>5, <1>16, <2>1
<1>18. ClausesLeft(p, c)' /\ TokensSent(p, c)' /\ TokensReceived(p, c)'
  <2>1. CASE d.type # "inout"
    <3>1. ClausesLeft(p, c)' /\ HandledBy(p, c)' = m + 1 /\ ~Received(p, c)'
      <4>1. frame' = [frame EXCEPT ![p].deps = Tail(frame[p].deps)]
        BY <1>1, <2>1
      <4>2. depsOf'[c] = depsOf[c] /\ pc'[p] = "depend"
        BY <1>1
      <4> QED
        BY <1>0, <1>2, <1>3, <4>1, <4>2, ClauseHandled
    <3>2. \A j \in 1 .. m + 1 : j \in 1 .. m \/ j = m + 1
      BY <1>4
    <3>3. \A j \in 1 .. m : j \in 1 .. m + 1 /\ depsOf[c][j].addr \in DepAddrs
      <4>1. \A j \in 1 .. Len(depsOf[c]) : depsOf[c][j] \in Dep
        BY <1>4
      <4>2. \A j \in 1 .. m : j \in 1 .. m + 1 /\ j \in 1 .. Len(depsOf[c])
        BY <1>4
      <4> QED
        BY <4>1, <4>2 DEF Dep
    <3>4. depsOf[c][m + 1].type # "in" => d.type = "out"
      BY <1>4, <2>1 DEF AnyDep
    <3>5. TokensSent(p, c)'
      <4>1. \A j \in 1 .. m + 1 :
              depsOf[c][j].type # "in" => idMap'[depsOf[c][j].addr] = ID(c)
        BY <1>3, <1>4, <1>7, <3>2, <3>3, <3>4 DEF TokensSent
      <4>2. \A x \in DepAddrs :
              idMap'[x] = ID(c) => \E j \in 1 .. m + 1 : depsOf[c][j].addr = x
        <5>1. m + 1 \in 1 .. m + 1
          BY <1>4
        <5> QED
          BY <1>3, <1>4, <1>7, <3>3, <5>1 DEF TokensSent
      <4> QED
        BY <1>1, <1>2, <1>5, <3>1, <4>1, <4>2 DEF TokensSent
    <3>6. TokensReceived(p, c)'
      <4>1. ASSUME NEW s \in preds[c], NEW i \in DOMAIN depsOf[c], FlowClause(s, c, i),
                   i <= m + 1
            PROVE  Behind(ID(s))' \subseteq HB'[ID(c)']
        <5>1. i \in Nat
          BY <1>4
        <5>2. i <= m \/ i = m + 1
          BY <1>4, <4>1, <5>1
        <5>3. i = m + 1 => Received(p, c) \/ d.type # "out"
          BY <1>4, <4>1 DEF FlowClause
        <5> QED
          BY <1>17, <4>1, <5>2, <5>3
      <4> QED
        BY <1>1, <1>16, <3>1, <4>1 DEF TokensReceived
    <3> QED
      BY <3>1, <3>5, <3>6
  <2>2. CASE d.type = "inout"
    <3>1. ClausesLeft(p, c)' /\ HandledBy(p, c)' = m /\ Received(p, c)'
      <4>1. frame' = [frame EXCEPT ![p].deps =
                        << [d EXCEPT !.type = "out"] >> \o Tail(frame[p].deps)]
        BY <1>1, <2>2
      <4>2. depsOf'[c] = depsOf[c] /\ pc'[p] = "depend"
        BY <1>1
      <4> QED
        BY <1>0, <1>2, <1>3, <2>2, <4>1, <4>2, ClauseReceived, ZenonT(60)
    <3>2. TokensSent(p, c)'
      <4>1. idMap' = idMap /\ depsOf'[c] = depsOf[c] /\ ID(c)' = ID(c)
        BY <1>1, <1>2, <1>5, <1>6, <2>2
      <4> QED
        BY <1>3, <3>1, <4>1 DEF TokensSent
    <3>3. TokensReceived(p, c)'
      BY <1>1, <1>16, <1>17, <2>2, <3>1 DEF TokensReceived
    <3> QED
      BY <3>1, <3>2, <3>3
  <2> QED
    BY <2>1, <2>2
<1>19. ASSUME NEW e \in Tasks, frame'[p].child = e
       PROVE  CreationSeen(p, e)'
  <2>1. before'[c] \subseteq HB'[ID(c)']
    BY <1>1, <1>2, <1>3, <1>5, <1>6 DEF BagStep
  <2> QED
    BY <1>1, <1>5, <1>18, <1>19, <2>1 DEF CreationSeen
<1> QED
  BY <1>1, <1>2, <1>9, <1>10, <1>11, <1>12, <1>13, <1>14, <1>19, MoveSeen

-----------------------------------------------------------------------------
(* Creations.                                                              *)

\* What holds of task c, which p creates with the clauses ds.
Begins(p, c, ds, k) ==
  /\ pc[p] = "run" /\ p \in Producers /\ pc[c] = "unborn" /\ c # p
  /\ createNewTaskMetadata(c)
  /\ pc' = [pc EXCEPT ![p] = k, ![c] = "born"]
  /\ ds \in Seq(Dep) /\ Generate(p, c, ds)
  /\ IF Known(p) THEN k = "send" ELSE k = "crashed"

\* Both ways to create a task begin so.
LEMMA CreationBegins ==
  ASSUME PlainProgram, NEW p \in Tasks, NEW c \in Tasks,
         TaskCreate(p, c) \/ TaskCreateByUnknown(p, c)
  PROVE  \E ds, k : Begins(p, c, ds, k)
<1>1. pc[p] = "run" /\ p \in Producers /\ pc[c] = "unborn" /\ c # p
  BY DEF TaskCreate, TaskCreateByUnknown, MayCreate, Active
<1>2. CASE TaskCreate(p, c)
  <2>1. PICK ds \in Clauses(p, c) : Generate(p, c, ds)
    BY <1>2 DEF TaskCreate
  <2>2. ds \in Seq(Dep)
    BY ClausesTyped
  <2>3. Begins(p, c, ds, "send")
    BY <1>1, <1>2, <2>1, <2>2 DEF TaskCreate, Begins
  <2> QED
    BY <2>3
<1>3. CASE TaskCreateByUnknown(p, c)
  <2>1. << >> \in Seq(Dep) /\ c \notin UntiedTasks
    BY DEF PlainProgram
  <2>2. Begins(p, c, << >>, "crashed")
    BY <1>1, <1>3, <2>1 DEF TaskCreateByUnknown, Begins
  <2> QED
    BY <2>2
<1> QED
  BY <1>2, <1>3

\* A task is created.
LEMMA CreationSteps ==
  ASSUME OwnAddresses, PlainProgram, FlowProgram, NEW o, CompleteInv(o), Shape, IDStep,
         NEW p \in Tasks, NEW c \in Tasks, NEW ds, NEW k, Begins(p, c, ds, k)
  PROVE  OrderSeen'
<1>0. /\ FrameInv /\ Unborn /\ Owners(o) /\ Generations /\ ChangingUnawaited
      /\ CreationsSeen /\ ChildrenKept /\ PredsSeen /\ TokensCover /\ TokenInv(o)
      /\ BagsGrow
  BY DEF CompleteInv, OwnedInv, SeenInv, FlowProgram
<1>1. /\ pc[p] = "run" /\ p \in Changing /\ pc[c] = "unborn" /\ c # p /\ ~Known(c)
      /\ createNewTaskMetadata(c)
      /\ ds \in Seq(Dep) /\ Generate(p, c, ds)
      /\ frame[p] = Idle /\ frame[c] = Idle
      /\ (k = "send" /\ Known(p)) \/ (k = "crashed" /\ ~Known(p))
  <2>1. /\ pc[p] = "run" /\ p \in Producers /\ pc[c] = "unborn" /\ c # p
        /\ createNewTaskMetadata(c) /\ ds \in Seq(Dep) /\ Generate(p, c, ds)
        /\ IF Known(p) THEN k = "send" ELSE k = "crashed"
    BY DEF Begins
  <2>2. frame[p] = Idle /\ frame[c] = Idle
    BY <1>0, <2>1 DEF FrameInv, Framed
  <2> QED
    BY <1>0, <2>1, <2>2 DEF Changing, Unborn
<1>2. /\ \A t \in Tasks : t # c => /\ ptr'[t] = ptr[t] /\ parent'[t] = parent[t]
                                   /\ before'[t] = before[t]
                                   /\ (Known(t)' <=> Known(t))
                                   /\ (Known(t) => ID(t)' = ID(t))
      /\ \A t \in Tasks : t # c /\ t # p => pc'[t] = pc[t]
      /\ \A t \in Tasks : t # p => frame'[t] = frame[t]
      /\ pc'[p] = k /\ pc'[c] = "born" /\ parent'[c] = p /\ depsOf'[c] = ds
      /\ frame'[p].child = c /\ frame'[p].deps = ds
      /\ before'[c] = before[p] \cup Segment(p)
      /\ Known(c)' /\ ID(c)' = taskIDSeed
  <2>1. /\ ptr'[c] # ptr[c] /\ Known(c)' /\ \A q \in Tasks : q # c => ptr'[q] = ptr[q]
    BY <1>0, <1>1, NewAddress
  <2>2. ID(c)' = taskIDSeed
    BY <2>1 DEF IDStep
  <2>3. \A t \in Tasks : t # c => (Known(t)' <=> Known(t)) /\ (Known(t) => ID(t)' = ID(t))
    BY <2>1 DEF IDStep
  <2>4. /\ \A t \in Tasks : t # c /\ t # p => pc'[t] = pc[t]
        /\ pc'[p] = k /\ pc'[c] = "born"
    BY <1>0, <1>1 DEF Begins, FrameInv, ProgramTyped
  <2> QED
    BY <1>0, <1>1, <2>1, <2>2, <2>3, <2>4 DEF Generate, FrameInv, ProgramTyped
<1>3. BagStep(taskIDSeed) /\ idMap' = idMap
  BY <1>0, <1>1, CreateBag DEF FrameInv
<1>4. \A t \in Tasks : Known(t) => info'[ptr[t]].childrenIDs = info[ptr[t]].childrenIDs
  <2>1. PICK i \in Free :
          /\ info' = [info EXCEPT ![i] =
                     [taskID |-> taskIDSeed, active |-> TRUE,
                      childrenIDs |-> IF ptr[c] = NoInfo
                                        THEN {} ELSE info[ptr[c]].childrenIDs]]
          /\ ptr' = [ptr EXCEPT ![c] = i]
    BY <1>1 DEF createNewTaskMetadata
  <2>2. ptr'[c] = i /\ i \notin live
    BY <1>0, <1>1, <2>1, NewInfoTyped DEF FrameInv, InfoTyped
  <2> QED
    BY <1>0, <2>1, <2>2, KnownID DEF FrameInv, InfoTyped
<1>5. PICK n : n = taskIDSeed
  OBVIOUS
<1>6. Local(n) /\ BagStep(n)
  BY <1>1, <1>2, <1>3, <1>5 DEF Local
<1>7. ASSUME NEW t \in Tasks
      PROVE  SegmentSeen(t)'
  <2>0. SegmentSeen(t)
    BY DEF CompleteInv, SeenInv
  <2>1. CASE t # p /\ t # c
    <3>1. Stands(t)
      BY <1>2, <1>4, <2>1 DEF Stands
    <3> QED
      BY <1>0, <1>3, <1>6, <2>0, <3>1, SegmentStays
  <2>2. CASE t = p
    <3>1. Known(p) => before'[p] \subseteq HB'[ID(p)']
      <4> SUFFICES ASSUME Known(p) PROVE before'[p] \subseteq HB'[ID(p)']
        OBVIOUS
      <4>1. before[p] \subseteq HB[ID(p)] /\ ID(p) \in TaskIDs
        BY <1>0, <1>1, <2>0, <2>2, KnownID DEF SegmentSeen, RestPCs, FrameInv
      <4> QED
        BY <1>1, <1>2, <1>6, <4>1 DEF BagStep
    <3> QED
      BY <1>1, <1>2, <2>2, <3>1 DEF SegmentSeen, CreatePCs, WaitPCs, RestPCs
  <2>3. CASE t = c
    BY <1>1, <1>2, <2>3 DEF SegmentSeen, CreatePCs, WaitPCs, RestPCs, Idle
  <2> QED
    BY <2>1, <2>2, <2>3
<1>8. CreationSeen(p, c)'
  <2>1. HandledBy(p, c)' = 0 /\ ~Received(p, c)'
    <3>1. HandledBy(p, c)' = Len(ds) - Len(ds) /\ Len(ds) \in Nat
      BY <1>1, <1>2 DEF HandledBy
    <3>2. HandledBy(p, c)' = 0
      BY <3>1
    <3> QED
      BY <1>2, <3>2 DEF Received
  <2>2. Len(ds) \in Nat /\ DOMAIN ds = 1 .. Len(ds)
    BY <1>1
  <2>3. ClausesLeft(p, c)'
    <3>1. \A j \in DOMAIN ds : ds[j] = ds[0 + j]
      BY <2>2
    <3> QED
      BY <1>2, <2>1, <2>2, <3>1 DEF ClausesLeft
  <2>4. TokensSent(p, c)'
    <3>1. \A x \in DepAddrs : idMap[x] # taskIDSeed
      <4> SUFFICES ASSUME NEW x \in DepAddrs, idMap[x] = taskIDSeed
                   PROVE  FALSE
        OBVIOUS
      <4>1. taskIDSeed \in Nat
        BY <1>0 DEF FrameInv, INSTyped
      <4>2. idMap[x] # NoID
        BY <4>1 DEF NoID
      <4>3. idMap[x] < taskIDSeed
        BY <1>0, <4>2 DEF TokenInv, TokenFrom
      <4> QED
        BY <4>1, <4>3
    <3>2. \A j : j \notin 1 .. 0
      OBVIOUS
    <3> QED
      BY <1>2, <1>3, <2>1, <3>1, <3>2 DEF TokensSent
  <2>5. TokensReceived(p, c)'
    <3>1. \A i \in DOMAIN ds : ~(i <= 0)
      BY <2>2
    <3> QED
      BY <1>2, <2>1, <3>1 DEF TokensReceived
  <2>6. Known(p) => before'[c] \subseteq before'[p] \cup {ID(p)'}
    BY <1>1, <1>2 DEF Segment
  <2> QED
    BY <1>1, <1>2, <2>3, <2>4, <2>5, <2>6 DEF CreationSeen, CreatePCs
<1>9. CreationsSeen'
  <2> SUFFICES ASSUME NEW q \in Tasks, NEW e \in Tasks, frame'[q].child = e
               PROVE  CreationSeen(q, e)'
    BY DEF CreationsSeen
  <2>1. CASE q = p
    BY <1>2, <1>8, <2>1
  <2>2. CASE q # p
    <3>1. frame[q].child = e /\ pc[e] = "born" /\ e # NoTask
      BY <1>0, <1>2, <2>2 DEF FrameInv, Framed
    <3>2. q # c /\ e # c /\ e # p
      BY <1>1, <3>1 DEF Idle
    <3>3. Apart(q, e)
      BY <1>2, <1>3, <2>2, <3>1, <3>2 DEF Apart
    <3> QED
      BY <1>0, <1>6, <3>1, <3>3, CreationStays DEF CreationsSeen
  <2> QED
    BY <2>1, <2>2
<1>10. ChildrenKept'
  <2>1. \A t \in Tasks : ~Waits(t) => t # c
    BY <1>1 DEF Waits
  <2>2. \A q, e \in Tasks : frame[q].child = e /\ pc[q] \in {"send", "receive"} =>
           frame'[q].child = e /\ pc'[q] \in {"send", "receive"}
    BY <1>1, <1>2
  <2>3. \A q, e \in Tasks : parent'[e] = q =>
           parent[e] = q \/ (frame'[q].child = e /\ pc'[q] = "send") \/ ~Known(q)'
    BY <1>1, <1>2
  <2>4. \A t \in Tasks : ~Waits(t) /\ Known(t)' => Known(t)
    BY <1>2, <2>1
  <2>5. \A t \in Tasks : ~Waits(t) /\ Known(t) =>
           info[ptr[t]].childrenIDs \subseteq info'[ptr'[t]].childrenIDs
    BY <1>2, <1>4, <2>1
  <2> QED
    BY <1>0, <1>6, <2>2, <2>3, <2>4, <2>5, ChildrenStay
<1>11. TokensCover'
  <2>1. \A s \in Tasks : Ready(s)' => Ready(s)
    BY <1>1, <1>2 DEF Ready
  <2>2. \A l \in Tasks : pc[l] = "born" /\ Known(l) =>
           pc'[l] = "born" /\ Known(l)' /\ ID(l)' = ID(l)
    BY <1>1, <1>2
  <2> QED
    BY <1>0, <1>3, <1>6, <2>1, <2>2, CoverStays DEF TokensCover
<1>12. PredsSeen'
  <2>1. \A t \in Tasks : pc'[t] = "created" => pc[t] = "created" /\ ptr'[t] = ptr[t]
    BY <1>1, <1>2
  <2> QED
    BY <1>0, <1>6, <2>1, PredsSeenStay
<1> QED
  BY <1>7, <1>9, <1>10, <1>11, <1>12 DEF OrderSeen

-----------------------------------------------------------------------------
(* No order is missed.                                                     *)

\* Every step keeps what the tasks see.
LEMMA NextSeen ==
  ASSUME OwnAddresses, PlainProgram, FlowProgram, NEW o, CompleteInv(o), Shape, IDStep,
         [Next]_vars
  PROVE  OrderSeen'
<1>1. ASSUME NEW p \in Tasks, NEW c \in Tasks,
             TaskCreate(p, c) \/ TaskCreateUntied(p, c) \/ TaskCreateByUnknown(p, c)
      PROVE  OrderSeen'
  <2>1. ~TaskCreateUntied(p, c)
    BY DEF TaskCreateUntied, PlainProgram
  <2> QED
    BY <1>1, <2>1, CreationBegins, CreationSteps
<1>2. ASSUME NEW p \in Tasks,
             \/ SendToChild(p) \/ ChildReceives(p) \/ Rename(p) \/ Adopt(p) \/ Depend(p)
             \/ Created(p) \/ TaskSchedule(p) \/ TaskwaitEnd(p) \/ SaveChildren(p)
      PROVE  OrderSeen'
  BY <1>2, SendToChildSeen, ChildReceivesSeen, RenameSeen, AdoptSeen, DependSeen,
     CreatedSeen, TaskScheduleSeen, TaskwaitEndSeen, SaveChildrenSeen
<1>3. ASSUME NEW p \in Tasks
      PROVE  ~DependOfUnknown(p) /\ ~TaskgroupEnd(p)
  BY DEF DependOfUnknown, TaskgroupEnd, PlainProgram, CompleteInv, FrameInv, Framed
<1>4. ASSUME NEW k \in DOMAIN Regions, NEW p \in Regions[k], ImplicitBegin(p, k)
      PROVE  OrderSeen'
  BY <1>4, ImplicitBeginSeen
<1>5. ASSUME NEW k \in DOMAIN Regions
      PROVE  ~Barrier(k)
  BY DEF Barrier, PlainProgram
<1> QED
  BY <1>1, <1>2, <1>3, <1>4, <1>5, StillSteps DEF Next

\* Nothing is known at first.
LEMMA InitComplete == Init => \E o : CompleteInv(o)
<1> SUFFICES ASSUME Init PROVE \E o : CompleteInv(o)
  OBVIOUS
<1>1. /\ \A t \in Tasks : pc[t] = "unborn" \/ (pc[t] = "run" /\ t \in InitialTasks)
      /\ \A t \in Tasks : /\ ~Known(t) /\ frame[t].child = NoTask
                          /\ parent[t] = NoTask /\ preds[t] = {}
      /\ InitialTasks \cap ExplicitTasks = {}
  BY DEF Init, Known, Idle, ExplicitTasks
<1>2. Generations
  BY <1>1 DEF Generations
<1>3. \A t \in Tasks : SegmentSeen(t)
  BY <1>1 DEF SegmentSeen, CreatePCs, WaitPCs
<1>4. CreationsSeen /\ ChildrenKept /\ PredsSeen
  BY <1>1 DEF CreationsSeen, ChildrenKept, PredsSeen
<1>5. TokensCover
  BY <1>1 DEF TokensCover, WritersCovered, Ready
<1>6. BagsGrow /\ FrameInv /\ Unborn
  BY InitOrderInv, InitProgramOrder DEF OrderInv, ProgramOrderInv
<1>7. PICK o : OwnedInv(o)
  BY InitProgramOrder DEF ProgramOrderInv
<1> QED
  BY <1>2, <1>3, <1>4, <1>5, <1>6, <1>7 DEF CompleteInv, SeenInv

\* The invariant is inductive, ...
LEMMA NextComplete ==
  ASSUME OwnAddresses, OwnTokens, PlainProgram, FlowProgram, TokenOrderKnown,
         NEW o, CompleteInv(o), [Next]_vars
  PROVE  \E w : CompleteInv(w)'
<1>0. /\ FrameInv /\ Unborn /\ BagsGrow /\ OwnedInv(o)
      /\ SiblingsDepend /\ Generations /\ BornInCallback
  BY DEF CompleteInv, OwnedInv, CallbackInv, SeenInv, FlowProgram
<1>1. Shape /\ IDStep
  BY <1>0, StepShape, StepIDs
<1>2. FrameInv' /\ Unborn'
  BY <1>0, NextUnowned
<1>3. PICK w : OwnedInv(w)'
  BY <1>0, NextOwned
<1>4. BagsGrow'
  BY <1>0, StepKinds, NextOrderInv DEF OrderInv
<1>5. Generations'
  BY <1>0, <1>1, <1>2, NextGenerations
<1>6. OrderSeen'
  BY <1>1, NextSeen
<1>7. SeenInv'
  BY <1>5, <1>6 DEF SeenInv, OrderSeen
<1> QED
  BY <1>2, <1>3, <1>4, <1>7 DEF CompleteInv

\* ... and a task that runs has its past in its bag.
LEMMA BagsAreComplete ==
  ASSUME NEW o, CompleteInv(o)
  PROVE  NoMissingOrder
BY DEF CompleteInv, SeenInv, SegmentSeen, RestPCs, NoMissingOrder, Running

OrderComplete == \E o : CompleteInv(o)

\* Everything OpenMP orders before a running segment is in its bag (OMPTCallbacks.h:115-249
\* with Logger.h:113-177 and checker.cc:60-98), so the checker reports no race between
\* segments that are ordered.  This is so in a run of a program of one parallel region
\* without barriers, taskgroups and untied tasks in which siblings alone share the variables
\* of depend clauses, a dependence is always that of a reader on a writer through the first
\* clause on the variable, and nobody waits, by taskwait or by a dependence, for an explicit
\* task that creates tasks or waits itself.  TaskInfo objects have addresses that no
\* variable of a depend clause has; an address is given out again only if the one task that
\* creates tasks is also the only one that waits.
THEOREM NoOrderMissed ==
  ASSUME OwnAddresses, OwnTokens, PlainProgram
  PROVE  Spec /\ []FlowProgram => []NoMissingOrder
<1>1. Init => OrderComplete
  BY InitComplete DEF OrderComplete
<1>2. OrderComplete /\ TokenOrderKnown /\ FlowProgram /\ [Next]_vars => OrderComplete'
  BY NextComplete DEF OrderComplete
<1>3. OrderComplete => NoMissingOrder
  BY BagsAreComplete DEF OrderComplete
<1>4. Spec => []TokenOrderKnown
  BY LoggerClaimsNothing
<1> QED
  BY <1>1, <1>2, <1>3, <1>4, PTL DEF Spec

-----------------------------------------------------------------------------
(* Programs of one creator.                                                *)

\* One task, of the team, creates all tasks and waits for them, and no variable is
\* written after it was read, or by a pure "out": so much can be read off the program.
OneCreator(r) == r \in Tasks \ ExplicitTasks /\ Producers \cup Waiters \subseteq {r}
ReadsFirst    == ~AntiDeps /\ DepTypes \subseteq {"in", "inout"}

\* The tasks with clauses are created by that task, and those a task waits for are created.
Generated1(r) ==
  /\ \A c \in Tasks : depsOf[c] # << >> => parent[c] = r
  /\ \A c \in Tasks : \A s \in preds[c] : parent[s] # NoTask

\* A non-empty set of natural numbers has a least element.
LEMMA LeastNat ==
  ASSUME NEW T \in SUBSET Nat, T # {}
  PROVE  \E m \in T : \A n \in T : m <= n
<1>1. PICK m \in T : \A n \in T : <<n, m>> \notin OpToRel(<, Nat)
  BY NatLessThanWellFounded, WFMin
<1>2. \A n \in T : ~(n < m)
  BY <1>1 DEF OpToRel
<1> QED
  BY <1>2

\* A list of clauses that names a variable has a first one that does.
LEMMA FirstClause ==
  ASSUME NEW ds \in Seq(Dep), NEW k \in DOMAIN ds
  PROVE  \E i \in DOMAIN ds : /\ ds[i].addr = ds[k].addr
                              /\ \A j \in 1 .. i - 1 : ds[j].addr # ds[i].addr
<1> PICK a : a = ds[k].addr
  OBVIOUS
<1> DEFINE T == { i \in DOMAIN ds : ds[i].addr = a }
<1>1. DOMAIN ds = 1 .. Len(ds) /\ Len(ds) \in Nat
  OBVIOUS
<1>2. T \in SUBSET Nat /\ T # {}
  BY <1>1
<1>3. PICK i \in T : \A j \in T : i <= j
  BY <1>2, LeastNat
<1>4. \A j \in 1 .. i - 1 : j \in DOMAIN ds /\ ~(i <= j)
  BY <1>1, <1>3
<1> QED
  BY <1>3, <1>4

\* Steps generate tasks, or leave the program alone.
LEMMA StepGenerates ==
  ASSUME PlainProgram, [Next]_vars
  PROVE  \/ UNCHANGED programVars
         \/ \E p, c \in Tasks : \E ds \in {<< >>} \cup Clauses(p, c) :
              p \in Producers /\ pc[c] = "unborn" /\ Generate(p, c, ds)
<1>1. ASSUME NEW p \in Tasks, NEW c \in Tasks,
             TaskCreate(p, c) \/ TaskCreateUntied(p, c) \/ TaskCreateByUnknown(p, c)
      PROVE  \E ds \in {<< >>} \cup Clauses(p, c) :
               p \in Producers /\ pc[c] = "unborn" /\ Generate(p, c, ds)
  BY <1>1 DEF TaskCreate, TaskCreateUntied, TaskCreateByUnknown, MayCreate
<1>2. ASSUME NEW p \in Tasks, \/ SendToChild(p) \/ ChildReceives(p) \/ Rename(p) \/ Adopt(p)
                              \/ Depend(p) \/ DependOfUnknown(p) \/ Created(p)
                              \/ TaskSchedule(p) \/ Access(p) \/ Finish(p) \/ TaskwaitEnd(p)
                              \/ TaskwaitOfUnknown(p) \/ SaveChildren(p) \/ TaskgroupEnd(p)
                              \/ ImplicitEnd(p)
      PROVE  UNCHANGED programVars
  BY <1>2 DEF SendToChild, ChildReceives, Rename, Adopt, Depend, DependOfUnknown, Created,
     TaskSchedule, Access, Finish, TaskwaitEnd, TaskwaitOfUnknown, SaveChildren,
     TaskgroupEnd, ImplicitEnd
<1>3. ASSUME NEW k \in DOMAIN Regions, NEW p \in Regions[k], ImplicitBegin(p, k)
      PROVE  UNCHANGED programVars
  BY <1>3 DEF ImplicitBegin
<1>4. ASSUME NEW k \in DOMAIN Regions, Barrier(k) \/ Join(k)
      PROVE  UNCHANGED programVars
  BY <1>4 DEF Barrier, Join
<1>5. CASE UNCHANGED vars
  BY <1>5 DEF vars
<1>6. CASE Next
  BY <1>1, <1>2, <1>3, <1>4, <1>6 DEF Next
<1> QED
  BY <1>5, <1>6

\* Such a program goes on to depend on what it reads.
LEMMA NextFlow ==
  ASSUME PlainProgram, NEW r, OneCreator(r), ReadsFirst, FrameInv, Unborn, [Next]_vars,
         Generated1(r), FlowDependences
  PROVE  Generated1(r)' /\ FlowDependences'
<1>1. CASE UNCHANGED programVars
  BY <1>1 DEF programVars, Generated1, FlowDependences, FlowClause
<1>2. ASSUME NEW p \in Tasks, NEW c \in Tasks, NEW ds \in {<< >>} \cup Clauses(p, c),
             p \in Producers, pc[c] = "unborn", Generate(p, c, ds)
      PROVE  Generated1(r)' /\ FlowDependences'
  <2>1. p = r /\ parent[c] = NoTask /\ ds \in Seq(Dep)
    <3>1. p = r
      BY <1>2 DEF OneCreator
    <3>2. parent[c] = NoTask
      BY <1>2 DEF Unborn
    <3>3. << >> \in Seq(Dep) /\ (ds \in Clauses(p, c) => ds \in Seq(Dep))
      BY ClausesTyped
    <3> QED
      BY <3>1, <3>2, <3>3
  <2>2. /\ \A t \in Tasks : t # c => /\ parent'[t] = parent[t] /\ depsOf'[t] = depsOf[t]
                                     /\ preds'[t] = preds[t]
        /\ parent'[c] = p /\ depsOf'[c] = ds /\ preds'[c] = Predecessors(p, ds)
    BY <1>2 DEF Generate, FrameInv, ProgramTyped
  <2>3. \A t \in Tasks : preds[t] \subseteq Tasks /\ depsOf[t] \in Seq(Dep)
    BY DEF FrameInv, ProgramTyped
  <2>4. \A s \in Predecessors(p, ds) : s \in Tasks /\ parent[s] = p /\ s # c /\ s # NoTask
    BY <2>1 DEF Predecessors
  <2>5. Generated1(r)'
    <3>1. \A t \in Tasks : \A s \in preds'[t] : parent'[s] # NoTask
      BY <2>2, <2>3, <2>4 DEF Generated1
    <3> QED
      BY <2>1, <2>2, <3>1 DEF Generated1
  <2>6. ASSUME NEW t \in Tasks, NEW s \in preds'[t]
        PROVE  \E i \in DOMAIN depsOf'[t] : FlowClause(s, t, i)'
    <3>1. CASE t # c
      <4>1. s \in preds[t] /\ s \in Tasks /\ s # c
        BY <2>1, <2>2, <2>3, <3>1 DEF Generated1
      <4>2. PICK i \in DOMAIN depsOf[t] : FlowClause(s, t, i)
        BY <4>1 DEF FlowDependences
      <4> QED
        BY <2>2, <3>1, <4>1, <4>2 DEF FlowClause
    <3>2. CASE t = c
      <4>1. s \in Predecessors(p, ds)
        BY <2>2, <3>2
      <4>2. PICK j \in DOMAIN ds, k \in DOMAIN depsOf[s] :
              /\ ds[j].addr = depsOf[s][k].addr
              /\ ds[j].type # "in" \/ depsOf[s][k].type # "in"
        BY <4>1 DEF Predecessors
      <4>3. depsOf[s][k].type # "in"
        <5> SUFFICES ASSUME depsOf[s][k].type = "in"
                     PROVE  FALSE
          OBVIOUS
        <5>1. depsOf[s][k] \in Dep /\ s \in Tasks /\ parent[s] = p
          BY <2>3, <2>4, <4>1
        <5>2. depsOf[s][k] = [addr |-> ds[j].addr, type |-> "in"] /\ ds[j].type # "in"
          BY <4>2, <5>1 DEF Dep
        <5>3. ds \in Clauses(p, c)
          BY <4>2
        <5> QED
          BY <5>1, <5>2, <5>3 DEF Clauses, ReadsFirst
      <4>4. PICK i \in DOMAIN ds : /\ ds[i].addr = ds[j].addr
                                   /\ \A h \in 1 .. i - 1 : ds[h].addr # ds[i].addr
        BY <2>1, FirstClause
      <4>5. ds[i].type # "out"
        <5>1. ds[i] \in Dep
          BY <2>1
        <5>2. DepTypes \subseteq {"in", "inout"}
          BY DEF ReadsFirst
        <5> QED
          BY <5>1, <5>2 DEF Dep
      <4>6. depsOf'[s] = depsOf[s]
        BY <2>2, <2>4, <4>1
      <4> QED
        BY <2>2, <3>2, <4>2, <4>3, <4>4, <4>5, <4>6 DEF FlowClause
    <3> QED
      BY <3>1, <3>2
  <2> QED
    BY <2>5, <2>6 DEF FlowDependences
<1> QED
  BY <1>1, <1>2, StepGenerates

\* In such a program all depends on what it reads.
LEMMA FlatFlows ==
  ASSUME NEW r, OneCreator(r), Generated1(r), FlowDependences
  PROVE  FlowProgram
<1>1. SiblingsDepend
  BY DEF SiblingsDepend, Generated1
<1>2. ExplicitTasks \cap Changing = {}
  BY DEF OneCreator, Changing
<1> QED
  BY <1>1, <1>2 DEF FlowProgram, ChangingUnawaited

\* The only task that receives tokens is the one that sends them.
LEMMA OneCreatorOwnTokens ==
  ASSUME PlainProgram, NEW r, OneCreator(r)
  PROVE  OwnTokens
BY DEF PlainProgram, OneCreator, OwnTokens, Receivers

\* The checker knows exactly the order that OpenMP guarantees (OMPTCallbacks.h:115-249 with
\* Logger.h:113-177 and checker.cc:60-98), in every run of a program of one parallel region
\* without barriers, taskgroups and untied tasks, in which one task of the team creates all
\* explicit tasks and is the only one to wait, no variable is written by a task created after
\* a sibling that reads it, and dependences are in or inout, never a pure out.  Nothing is
\* assumed of the run, and freed TaskInfo addresses may be given out again, but a TaskInfo
\* never has the address of a variable of a depend clause.
THEOREM FlatOrderExact ==
  ASSUME OwnAddresses, PlainProgram, NEW r, OneCreator(r), ReadsFirst
  PROVE  Spec => [](NoMissingOrder /\ NoSpuriousOrder)
<1>0. OwnTokens
  BY OneCreatorOwnTokens
<1>1. Init => FrameInv /\ Unborn /\ Generated1(r) /\ FlowDependences
  <2>1. Init => Generated1(r) /\ FlowDependences
    BY DEF Init, Generated1, FlowDependences
  <2> QED
    BY <2>1, InitProgramOrder DEF ProgramOrderInv
<1>2. FrameInv /\ Unborn /\ Generated1(r) /\ FlowDependences /\ [Next]_vars
        => (FrameInv /\ Unborn /\ Generated1(r) /\ FlowDependences)'
  BY NextFlow, NextFrameInv, StepShape, StepUnborn
<1>3. Generated1(r) /\ FlowDependences => FlowProgram /\ SiblingsDepend
  BY FlatFlows DEF FlowProgram
<1>4. Spec /\ []FlowProgram => []NoMissingOrder
  BY <1>0, NoOrderMissed
<1>5. Spec /\ []SiblingsDepend => []NoSpuriousOrder
  BY <1>0, NoFalseOrder
<1> QED
  BY <1>1, <1>2, <1>3, <1>4, <1>5, PTL DEF Spec
=============================================================================
