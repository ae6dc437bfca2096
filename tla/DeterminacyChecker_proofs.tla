--------------------- MODULE DeterminacyChecker_proofs ---------------------
(***************************************************************************)
(* Proofs about the determinacy race checker, for every set of tasks,      *)
(* addresses, values and lines, every bound of the histories and every     *)
(* answer of the commutativity checker.                                    *)
(***************************************************************************)
EXTENDS DeterminacyChecker, SequenceTheorems, WellFoundedInduction, TLAPS

USE HistoryBoundAssumption, LinesAssumption, CommutingLinesAssumption

-----------------------------------------------------------------------------
(* Facts about the operators.                                              *)

\* The pair of lines that keys the conflict table consists of lines.
LEMMA LinePairType ==
  ASSUME NEW m \in Lines, NEW n \in Lines
  PROVE  LinePair(m, n) \in Lines \X Lines
BY DEF LinePair

\* Making room in a history leaves space for one more access.
LEMMA MakeRoomType ==
  ASSUME NEW s \in Seq(Action), Len(s) <= HistoryBound
  PROVE  /\ MakeRoom(s) \in Seq(Action)
         /\ Len(MakeRoom(s)) \in Nat
         /\ Len(MakeRoom(s)) + 1 <= HistoryBound
<1>1. CASE Len(s) >= HistoryBound
  <2>1. s # << >>
    BY <1>1
  <2>2. Tail(s) \in Seq(Action) /\ Len(Tail(s)) = Len(s) - 1
    BY <2>1, HeadTailProperties
  <2> QED
    BY <1>1, <2>2 DEF MakeRoom
<1>2. CASE ~(Len(s) >= HistoryBound)
  BY <1>2 DEF MakeRoom
<1> QED
  BY <1>1, <1>2

\* A report is an entry of the conflict table.
LEMMA NewReportsType ==
  ASSUME NEW cur \in Action, NEW past \in Seq(Action)
  PROVE  NewReports(cur, past)
           \subseteq [lines : Lines \X Lines, addr : Addresses,
                      action1 : Action, action2 : Action]
<1> SUFFICES ASSUME NEW k \in DOMAIN past
             PROVE  Report(cur, past[k])
                      \in [lines : Lines \X Lines, addr : Addresses,
                           action1 : Action, action2 : Action]
  BY DEF NewReports
<1>1. past[k] \in Action
  BY ElementOfSeq
<1>2. LinePair(cur.line, past[k].line) \in Lines \X Lines
  BY <1>1, LinePairType DEF Action
<1> QED
  BY <1>1, <1>2 DEF Report, Action

-----------------------------------------------------------------------------
(* Type correctness.                                                       *)

\* Rebuilding a bag keeps the bags sets of tasks.
LEMMA InheritedHBType ==
  ASSUME NEW E, NEW bags \in [TaskIDs -> SUBSET TaskIDs], NEW t \in TaskIDs
  PROVE  /\ InheritedHB(E, bags, t) \subseteq TaskIDs
         /\ [bags EXCEPT ![t] = InheritedHB(E, bags, t)]
              \in [TaskIDs -> SUBSET TaskIDs]
<1>1. InheritedHB(E, bags, t) \subseteq TaskIDs
  BY DEF InheritedHB, inEdges
<1> QED
  BY <1>1

\* The state of the checker keeps its shape, and the history of an address
\* stays within CONC_THREASHOLD, whatever the logger calls.
THEOREM TypeCorrect == Spec => []TypeOK
<1>1. Init => TypeOK
  BY EmptySeq DEF Init, TypeOK
<1>2. TypeOK /\ [Next]_vars => TypeOK'
  <2> SUFFICES ASSUME TypeOK, [Next]_vars
               PROVE  TypeOK'
    OBVIOUS
  <2>1. ASSUME NEW t \in TaskIDs, TaskBegin(t)
        PROVE  TypeOK'
    <3>1. HB' \in [TaskIDs -> SUBSET TaskIDs]
      BY <2>1, InheritedHBType DEF TaskBegin, onTaskCreate, TypeOK
    <3> QED
      BY <2>1, <3>1 DEF TaskBegin, onTaskCreate, TypeOK, accessVars
  <2>2. ASSUME NEW t \in TaskIDs, NEW P \in SUBSET (bagged \ creating),
               OrderAfter(P, t)
        PROVE  TypeOK'
    <3>1. HB' \in [TaskIDs -> SUBSET TaskIDs]
      BY <2>2, InheritedHBType DEF OrderAfter, saveHappensBeforeEdges, TypeOK
    <3>2. P \subseteq TaskIDs
      BY DEF TypeOK
    <3> QED
      BY <2>2, <3>1, <3>2
      DEF OrderAfter, saveHappensBeforeEdges, TypeOK, accessVars
  <2>3. ASSUME NEW t \in TaskIDs, TaskReady(t)
        PROVE  TypeOK'
    BY <2>3 DEF TaskReady, TypeOK, graphVars, accessVars
  <2>4. ASSUME NEW act \in Action, Access(act)
        PROVE  TypeOK'
    <3>1. act.addr \in Addresses
      BY DEF Action
    <3>2. /\ writes[act.addr] \in Seq(Action)
          /\ Len(writes[act.addr]) <= HistoryBound
          /\ accesses[act.addr] \in Seq(Action)
      BY <3>1 DEF TypeOK
    <3> DEFINE w == Append(MakeRoom(writes[act.addr]), act)
    <3>3. w \in Seq(Action) /\ Len(w) <= HistoryBound
      BY <3>2, MakeRoomType
    <3>4. writes' = [writes EXCEPT ![act.addr] = w]
      BY <2>4 DEF Access, saveTaskActions
    <3>5. /\ writes' \in [Addresses -> Seq(Action)]
          /\ \A a \in Addresses : Len(writes'[a]) <= HistoryBound
      BY <3>1, <3>3, <3>4 DEF TypeOK
    <3>6. accesses' \in [Addresses -> Seq(Action)]
      BY <2>4, <3>1, <3>2 DEF Access, TypeOK
    <3>7. conflictTable' \subseteq [lines : Lines \X Lines, addr : Addresses,
                                    action1 : Action, action2 : Action]
      BY <2>4, <3>2, NewReportsType DEF Access, saveTaskActions, TypeOK
    <3> QED
      BY <2>4, <3>5, <3>6, <3>7 DEF Access, TypeOK, graphVars
  <2>5. CASE UNCHANGED vars
    BY <2>5 DEF vars, TypeOK
  <2> QED
    BY <2>1, <2>2, <2>3, <2>4, <2>5 DEF Next
<1> QED
  BY <1>1, <1>2, PTL DEF Spec

-----------------------------------------------------------------------------
(* The order of the tasks.                                                 *)

\* The invariant behind the order: edges start at, and bags hold, only tasks
\* whose set-up is over, so no later edge can change a bag that was merged.
BagsSettled ==
  /\ creating \subseteq bagged
  /\ \A t \in TaskIDs : HB[t] \subseteq bagged \ creating
  /\ \A t \in TaskIDs : inEdges(edges, t) \subseteq bagged \ creating
  /\ \A t \in TaskIDs : t \notin bagged => inEdges(edges, t) = {}

OrderInv == TypeOK /\ BagsSettled /\ BagsCurrent /\ HappensBeforeIsOrder

\* Beginning a task that the checker has not seen leaves edges and bags alone.
LEMMA TaskBeginKeepsBags ==
  ASSUME OrderInv, NEW t \in TaskIDs, TaskBegin(t)
  PROVE  /\ t \notin bagged
         /\ edges' = edges /\ HB' = HB
         /\ bagged \ creating \subseteq bagged' \ creating'
         /\ creating' \subseteq bagged'
         /\ bagged \subseteq bagged'
BY DEF OrderInv, BagsSettled, TaskBegin, onTaskCreate

\* An edge into a task that is being set up changes the bag of this task alone.
LEMMA OrderAfterKeepsBags ==
  ASSUME OrderInv, NEW t \in TaskIDs, NEW P \in SUBSET (bagged \ creating),
         OrderAfter(P, t)
  PROVE  /\ t \in creating
         /\ \A s \in TaskIDs \ {t} : /\ inEdges(edges', s) = inEdges(edges, s)
                                     /\ HB'[s] = HB[s]
         /\ inEdges(edges', t) = inEdges(edges, t) \cup P
         /\ HB'[t] = InheritedHB(edges', HB, t)
         /\ bagged' = bagged
         /\ creating' \subseteq creating
<1>1. t \in creating /\ t \in bagged
  BY DEF OrderAfter, OrderInv, BagsSettled
<1>2. edges' = edges \cup (P \X {t})
  BY DEF OrderAfter, saveHappensBeforeEdges
<1>3. \A s \in TaskIDs \ {t} : inEdges(edges', s) = inEdges(edges, s)
  BY <1>2 DEF inEdges
<1>4. P \subseteq TaskIDs
  BY DEF OrderInv, TypeOK
<1>5. inEdges(edges', t) = inEdges(edges, t) \cup P
  BY <1>2, <1>4 DEF inEdges
<1>6. HB' = [HB EXCEPT ![t] = InheritedHB(edges', HB, t)]
  BY <1>2 DEF OrderAfter, saveHappensBeforeEdges
<1> QED
  BY <1>1, <1>3, <1>5, <1>6
  DEF OrderAfter, saveHappensBeforeEdges, OrderInv, TypeOK

\* Two tasks with the same predecessors, whose bags did not change, inherit
\* the same bag.
LEMMA InheritedHBSame ==
  ASSUME NEW E, NEW F, NEW b, NEW c, NEW t,
         inEdges(E, t) = inEdges(F, t),
         \A p \in inEdges(E, t) : b[p] = c[p]
  PROVE  InheritedHB(E, b, t) = InheritedHB(F, c, t)
BY DEF InheritedHB

\* The order invariant is inductive.
LEMMA OrderInvStep ==
  ASSUME OrderInv, TypeOK', [Next]_vars
  PROVE  OrderInv'
<1> USE DEF OrderInv
<1>1. ASSUME NEW t \in TaskIDs, TaskBegin(t)
      PROVE  OrderInv'
  <2>1. /\ t \notin bagged
        /\ edges' = edges /\ HB' = HB
        /\ bagged \ creating \subseteq bagged' \ creating'
        /\ creating' \subseteq bagged'
        /\ bagged \subseteq bagged'
    BY <1>1, TaskBeginKeepsBags
  <2>2. BagsSettled'
    BY <2>1 DEF BagsSettled
  <2>3. BagsCurrent' /\ HappensBeforeIsOrder'
    BY <2>1 DEF BagsCurrent, HappensBeforeIsOrder
  <2> QED
    BY <2>2, <2>3
<1>2. ASSUME NEW t \in TaskIDs, NEW P \in SUBSET (bagged \ creating),
             OrderAfter(P, t)
      PROVE  OrderInv'
  <2>1. /\ t \in creating
        /\ \A s \in TaskIDs \ {t} : /\ inEdges(edges', s) = inEdges(edges, s)
                                    /\ HB'[s] = HB[s]
        /\ inEdges(edges', t) = inEdges(edges, t) \cup P
        /\ HB'[t] = InheritedHB(edges', HB, t)
        /\ bagged' = bagged
        /\ creating' \subseteq creating
    BY <1>2, OrderAfterKeepsBags
  <2>2. \A s \in TaskIDs : /\ HB[s] \subseteq bagged \ creating
                           /\ inEdges(edges, s) \subseteq bagged \ creating
    BY DEF BagsSettled
  <2>3. \A s \in TaskIDs : inEdges(edges', s) \subseteq bagged \ creating
    BY <2>1, <2>2
  <2>4. inEdges(edges', t) \subseteq TaskIDs
    BY DEF inEdges
  <2>5. HB'[t] \subseteq bagged \ creating
    BY <2>1, <2>2, <2>3, <2>4 DEF InheritedHB
  <2>6. \A s \in TaskIDs : HB'[s] \subseteq bagged \ creating
    BY <2>1, <2>2, <2>5
  <2>7. BagsSettled'
    BY <2>1, <2>3, <2>6 DEF BagsSettled
  <2>8. ASSUME NEW s \in TaskIDs
        PROVE  HB'[s] = InheritedHB(edges', HB', s)
    <3>1. \A p \in inEdges(edges', s) : HB'[p] = HB[p]
      BY <2>1, <2>3 DEF inEdges
    <3>2. CASE s = t
      BY <2>1, <3>1, <3>2, InheritedHBSame
    <3>3. CASE s # t
      <4>1. HB'[s] = InheritedHB(edges, HB, s)
        BY <2>1, <3>3 DEF BagsCurrent
      <4>2. inEdges(edges', s) = inEdges(edges, s)
        BY <2>1, <3>3
      <4> QED
        BY <3>1, <4>1, <4>2, InheritedHBSame
    <3> QED
      BY <3>2, <3>3
  <2>9. \A s \in TaskIDs : s \notin HB'[s]
    BY <2>1, <2>5 DEF HappensBeforeIsOrder
  <2>10. ASSUME NEW s \in TaskIDs, NEW p \in HB'[s]
         PROVE  HB'[p] \subseteq HB'[s]
    <3>1. p \in TaskIDs /\ p # t /\ HB'[p] = HB[p]
      BY <2>1, <2>6 DEF TypeOK
    <3>2. CASE s # t
      BY <2>1, <3>1, <3>2 DEF HappensBeforeIsOrder
    <3>3. CASE s = t
      <4>1. CASE p \in inEdges(edges', t)
        BY <2>1, <3>1, <3>3, <4>1 DEF InheritedHB
      <4>2. CASE \E q \in inEdges(edges', t) : p \in HB[q]
        <5>1. PICK q \in inEdges(edges', t) : p \in HB[q]
          BY <4>2
        <5>2. HB[p] \subseteq HB[q]
          BY <2>4, <5>1 DEF HappensBeforeIsOrder
        <5> QED
          BY <2>1, <3>1, <3>3, <5>1, <5>2 DEF InheritedHB
      <4> QED
        BY <2>1, <3>3, <4>1, <4>2 DEF InheritedHB
    <3> QED
      BY <3>2, <3>3
  <2> QED
    BY <2>7, <2>8, <2>9, <2>10 DEF BagsCurrent, HappensBeforeIsOrder
<1>3. ASSUME NEW t \in TaskIDs, TaskReady(t)
      PROVE  OrderInv'
  BY <1>3 DEF TaskReady, graphVars, BagsSettled, BagsCurrent,
              HappensBeforeIsOrder
<1>4. ASSUME NEW act \in Action, Access(act)
      PROVE  OrderInv'
  BY <1>4 DEF Access, graphVars, BagsSettled, BagsCurrent, HappensBeforeIsOrder
<1>5. CASE UNCHANGED vars
  BY <1>5 DEF vars, BagsSettled, BagsCurrent, HappensBeforeIsOrder
<1> QED
  BY <1>1, <1>2, <1>3, <1>4, <1>5 DEF Next

\* The order invariant holds throughout.
LEMMA OrderInvariant == Spec => []OrderInv
<1>1. Init => OrderInv
  <2> SUFFICES ASSUME Init PROVE OrderInv
    OBVIOUS
  <2>1. TypeOK
    BY EmptySeq DEF Init, TypeOK
  <2>2. \A t \in TaskIDs : inEdges(edges, t) = {} /\ HB[t] = {}
    BY DEF Init, inEdges
  <2> QED
    BY <2>1, <2>2
    DEF Init, OrderInv, BagsSettled, BagsCurrent, InheritedHB,
        HappensBeforeIsOrder
<1>2. OrderInv /\ TypeOK' /\ [Next]_vars => OrderInv'
  BY OrderInvStep
<1> QED
  BY <1>1, <1>2, TypeCorrect, PTL DEF Spec

\* The bags always describe a strict partial order of the tasks.
THEOREM OrderCorrect == Spec => []HappensBeforeIsOrder
<1>1. OrderInv => HappensBeforeIsOrder
  BY DEF OrderInv
<1> QED
  BY <1>1, OrderInvariant, PTL

\* No bag is ever stale: it always is the merge of its predecessors' bags as
\* they are now.
THEOREM BagsNeverStale == Spec => []BagsCurrent
<1>1. OrderInv => BagsCurrent
  BY DEF OrderInv
<1> QED
  BY <1>1, OrderInvariant, PTL

-----------------------------------------------------------------------------
(* The conflict table.                                                     *)

\* What the invariant says of the past: accesses are by tasks that are set up,
\* and the kept history is the end of the full one.
AccessesSettled ==
  \A a \in Addresses : \A i \in DOMAIN accesses[a] :
    /\ accesses[a][i].addr = a
    /\ accesses[a][i].task \in bagged \ creating

EndOf(w, h) ==
  /\ Len(w) = IF Len(h) <= HistoryBound THEN Len(h) ELSE HistoryBound
  /\ \A i \in 1 .. Len(w) : w[i] = h[Len(h) - Len(w) + i]

HistoryKept == \A a \in Addresses : EndOf(writes[a], accesses[a])

RaceInv == AccessesSettled /\ HistoryKept /\ ReportsAreRaces
                           /\ RecentRacesReported

\* A non-empty set of natural numbers has a least element.
LEMMA LeastNat ==
  ASSUME NEW T \in SUBSET Nat, T # {}
  PROVE  \E m \in T : \A n \in T : m <= n
<1>1. PICK m \in T : \A n \in T : <<n, m>> \notin OpToRel(<, Nat)
  BY NatLessThanWellFounded, WFMin
<1>2. \A n \in T : ~(n < m)
  BY <1>1 DEF OpToRel
<1> QED
  BY <1>2

\* The order of the two lines does not matter for the key of the table.
LEMMA LinePairCommutes ==
  ASSUME NEW m \in Lines, NEW n \in Lines
  PROVE  LinePair(m, n) = LinePair(n, m)
BY DEF LinePair

\* After an access, the slot of every race it has with the kept accesses is
\* taken, by an older entry or by one it adds.
LEMMA SlotTaken ==
  ASSUME NEW cur, NEW past \in Seq(Action), NEW k \in DOMAIN past,
         Reportable(cur, past[k])
  PROVE  \E r \in conflictTable \cup NewReports(cur, past) :
           SameSlot(r, Report(cur, past[k]))
<1> DEFINE T == { j \in DOMAIN past :
                    /\ Reportable(cur, past[j])
                    /\ SameSlot(Report(cur, past[j]), Report(cur, past[k])) }
<1>1. T \in SUBSET Nat /\ T # {}
  BY DEF SameSlot
<1>2. PICK m \in T : \A n \in T : m <= n
  BY <1>1, LeastNat
<1>3. CASE \E r \in conflictTable : SameSlot(r, Report(cur, past[m]))
  BY <1>2, <1>3 DEF SameSlot
<1>4. CASE \A r \in conflictTable : ~SameSlot(r, Report(cur, past[m]))
  <2>1. m \in DOMAIN past /\ Reportable(cur, past[m])
    BY <1>2
  <2>2. SameSlot(Report(cur, past[m]), Report(cur, past[k]))
    BY <1>2
  <2>3. ASSUME NEW j \in 1 .. m - 1, Reportable(cur, past[j]),
               SameSlot(Report(cur, past[j]), Report(cur, past[m]))
        PROVE  FALSE
    <3>1. j \in DOMAIN past /\ j < m
      BY <2>1
    <3>2. SameSlot(Report(cur, past[j]), Report(cur, past[k]))
      BY <2>2, <2>3 DEF SameSlot
    <3> QED
      BY <1>2, <2>3, <3>1, <3>2
  <2>4. Report(cur, past[m]) \in NewReports(cur, past)
    BY <1>4, <2>1, <2>3 DEF NewReports
  <2> QED
    BY <2>2, <2>4
<1> QED
  BY <1>3, <1>4

\* A task that is set up stays set up and keeps its bag.
LEMMA ReadyBagsStable ==
  ASSUME OrderInv, [Next]_vars, NEW s \in bagged \ creating
  PROVE  s \in bagged' \ creating' /\ HB'[s] = HB[s]
<1>0. s \in TaskIDs
  BY DEF OrderInv, TypeOK
<1>1. ASSUME NEW t \in TaskIDs, TaskBegin(t)
      PROVE  s \in bagged' \ creating' /\ HB'[s] = HB[s]
  BY <1>1, TaskBeginKeepsBags
<1>2. ASSUME NEW t \in TaskIDs, NEW P \in SUBSET (bagged \ creating),
             OrderAfter(P, t)
      PROVE  s \in bagged' \ creating' /\ HB'[s] = HB[s]
  BY <1>0, <1>2, OrderAfterKeepsBags
<1>3. ASSUME NEW t \in TaskIDs, TaskReady(t)
      PROVE  s \in bagged' \ creating' /\ HB'[s] = HB[s]
  BY <1>3 DEF TaskReady, graphVars
<1>4. ASSUME NEW act \in Action, Access(act)
      PROVE  s \in bagged' \ creating' /\ HB'[s] = HB[s]
  BY <1>4 DEF Access, graphVars
<1>5. CASE UNCHANGED vars
  BY <1>5 DEF vars
<1> QED
  BY <1>1, <1>2, <1>3, <1>4, <1>5 DEF Next

\* Steps that are no access change neither the past, nor the table, nor the
\* bags that the past depends on.
LEMMA RaceInvNoAccess ==
  ASSUME OrderInv, RaceInv, [Next]_vars, UNCHANGED accessVars
  PROVE  RaceInv'
<1>1. /\ accesses' = accesses /\ writes' = writes
      /\ conflictTable' = conflictTable
  BY DEF accessVars
<1>2. AccessesSettled'
  <2> SUFFICES ASSUME NEW a \in Addresses, NEW i \in DOMAIN accesses[a]
               PROVE  /\ accesses[a][i].addr = a
                      /\ accesses[a][i].task \in bagged' \ creating'
    BY <1>1 DEF AccessesSettled
  <2> QED
    BY ReadyBagsStable DEF RaceInv, AccessesSettled
<1>3. HistoryKept'
  BY <1>1 DEF RaceInv, HistoryKept
<1>4. ASSUME NEW a \in Addresses,
             NEW i \in DOMAIN accesses[a], NEW j \in DOMAIN accesses[a]
      PROVE  Race(accesses[a][i], accesses[a][j])'
               <=> Race(accesses[a][i], accesses[a][j])
  <2>1. /\ accesses[a][i].task \in bagged \ creating
        /\ accesses[a][j].task \in bagged \ creating
    BY DEF RaceInv, AccessesSettled
  <2>2. /\ HB'[accesses[a][i].task] = HB[accesses[a][i].task]
        /\ HB'[accesses[a][j].task] = HB[accesses[a][j].task]
    BY <2>1, ReadyBagsStable
  <2> QED
    BY <1>1, <2>2 DEF Race, Conflicting, isCommutative
<1>5. ReportsAreRaces'
  <2> SUFFICES ASSUME NEW r \in conflictTable
               PROVE  /\ Race(r.action2, r.action1)'
                      /\ \E i, j \in DOMAIN accesses[r.addr] :
                           /\ i < j
                           /\ accesses[r.addr][i] = r.action2
                           /\ accesses[r.addr][j] = r.action1
    BY <1>1 DEF ReportsAreRaces
  <2>1. /\ Race(r.action2, r.action1)
        /\ \E i, j \in DOMAIN accesses[r.addr] :
             /\ i < j
             /\ accesses[r.addr][i] = r.action2
             /\ accesses[r.addr][j] = r.action1
    BY DEF RaceInv, ReportsAreRaces
  <2>2. r.addr \in Addresses
    BY DEF OrderInv, TypeOK
  <2>3. PICK i, j \in DOMAIN accesses[r.addr] :
          /\ i < j
          /\ accesses[r.addr][i] = r.action2
          /\ accesses[r.addr][j] = r.action1
    BY <2>1
  <2>4. /\ r.action2.task \in bagged \ creating
        /\ r.action1.task \in bagged \ creating
    BY <2>2, <2>3 DEF RaceInv, AccessesSettled
  <2>5. /\ HB'[r.action2.task] = HB[r.action2.task]
        /\ HB'[r.action1.task] = HB[r.action1.task]
    BY <2>4, ReadyBagsStable
  <2>6. Race(r.action2, r.action1)'
    BY <2>1, <2>5 DEF Race, Conflicting, isCommutative
  <2> QED
    BY <2>1, <2>6
<1>6. RecentRacesReported'
  <2> SUFFICES ASSUME NEW a \in Addresses,
                      NEW i \in DOMAIN accesses[a], NEW j \in DOMAIN accesses[a],
                      i < j, j - i <= HistoryBound,
                      Race(accesses[a][i], accesses[a][j])'
               PROVE  ReportedAtLines(accesses[a][i], accesses[a][j])'
    BY <1>1 DEF RecentRacesReported
  <2>1. Race(accesses[a][i], accesses[a][j])
    BY <1>4
  <2>2. ReportedAtLines(accesses[a][i], accesses[a][j])
    BY <2>1 DEF RaceInv, RecentRacesReported
  <2> QED
    BY <1>1, <2>2 DEF ReportedAtLines
<1> QED
  BY <1>2, <1>3, <1>5, <1>6 DEF RaceInv

\* Positions counted from the end of a history, before and after an access.
LEMMA Positions ==
  ASSUME NEW m \in Nat, NEW n \in Nat, m <= n
  PROVE  /\ \A i \in 1 .. m - 1 : /\ i + 1 \in 1 .. m
                                  /\ n - m + (i + 1) \in 1 .. n
                                  /\ (n + 1) - m + i = n - m + (i + 1)
         /\ (n + 1) - m + m = n + 1
OBVIOUS

\* What a kept history is after one more access.
LEMMA KeptAfterAppend ==
  ASSUME NEW w \in Seq(Action), NEW h \in Seq(Action), NEW act \in Action,
         EndOf(w, h),
         NEW v, v = Append(MakeRoom(w), act),
         NEW g, g = Append(h, act)
  PROVE  EndOf(v, g)
<1> USE DEF EndOf
<1>1. Len(w) \in Nat /\ Len(h) \in Nat /\ Len(w) <= Len(h)
  OBVIOUS
<1>2. /\ Len(g) = Len(h) + 1
      /\ \A i \in 1 .. Len(h) : g[i] = h[i]
      /\ g[Len(h) + 1] = act
  BY AppendProperties
<1>3. CASE Len(w) >= HistoryBound
  <2>1. w # << >> /\ Len(w) = HistoryBound /\ Len(h) >= HistoryBound
    BY <1>3
  <2>2. /\ MakeRoom(w) \in Seq(Action)
        /\ Len(MakeRoom(w)) = Len(w) - 1
        /\ \A i \in 1 .. Len(w) - 1 : MakeRoom(w)[i] = w[i + 1]
    BY <1>3, <2>1, HeadTailProperties DEF MakeRoom
  <2>3. /\ Len(v) = Len(w)
        /\ \A i \in 1 .. Len(w) - 1 : v[i] = w[i + 1]
        /\ v[Len(w)] = act
    BY <2>1, <2>2, AppendProperties
  <2>4. ASSUME NEW i \in 1 .. Len(w) - 1
        PROVE  v[i] = g[Len(g) - Len(v) + i]
    <3>1. v[i] = w[i + 1]
      BY <2>3
    <3>2. /\ i + 1 \in 1 .. Len(w)
          /\ Len(h) - Len(w) + (i + 1) \in 1 .. Len(h)
          /\ Len(g) - Len(v) + i = Len(h) - Len(w) + (i + 1)
      BY <1>1, <1>2, <2>3, Positions
    <3>3. w[i + 1] = h[Len(h) - Len(w) + (i + 1)]
      BY <3>2
    <3> QED
      BY <1>2, <3>1, <3>2, <3>3
  <2>5. v[Len(v)] = g[Len(g) - Len(v) + Len(v)]
    BY <1>1, <1>2, <2>3, Positions
  <2>6. ASSUME NEW i \in 1 .. Len(v)
        PROVE  v[i] = g[Len(g) - Len(v) + i]
    <3>1. i = Len(v) \/ i \in 1 .. Len(w) - 1
      BY <1>1, <2>3
    <3> QED
      BY <2>4, <2>5, <3>1
  <2>7. Len(v) = HistoryBound /\ ~(Len(g) <= HistoryBound)
    BY <1>1, <1>2, <2>1, <2>3
  <2> QED
    BY <2>6, <2>7
<1>4. CASE ~(Len(w) >= HistoryBound)
  <2>1. /\ MakeRoom(w) = w /\ Len(w) = Len(h)
        /\ Len(h) + 1 <= HistoryBound
    BY <1>4 DEF MakeRoom
  <2>2. v = g
    <3>1. ASSUME NEW i \in 1 .. Len(w)
          PROVE  w[i] = h[i]
      <4>1. Len(h) - Len(w) + i = i
        BY <1>1, <2>1
      <4> QED
        BY <4>1
    <3>2. w = h
      BY <2>1, <3>1, SeqEqual
    <3> QED
      BY <2>1, <3>2
  <2>3. ASSUME NEW i \in 1 .. Len(v)
        PROVE  v[i] = g[Len(g) - Len(v) + i]
    <3>1. Len(g) - Len(v) + i = i
      BY <1>1, <1>2, <2>2
    <3> QED
      BY <2>2, <3>1
  <2>4. Len(g) <= HistoryBound
    BY <1>1, <1>2, <2>1
  <2> QED
    BY <2>2, <2>3, <2>4
<1> QED
  BY <1>3, <1>4

\* An access keeps the race invariant: what it reports are races, and it
\* reports its races with all accesses that are still kept.
LEMMA RaceInvAccess ==
  ASSUME OrderInv, RaceInv, NEW act \in Action, Access(act)
  PROVE  RaceInv'
<1> DEFINE x    == act.addr
           past == writes[x]
           h    == accesses[x]
<1>1. /\ x \in Addresses /\ act.task \in TaskIDs /\ act.line \in Lines
      /\ past \in Seq(Action) /\ h \in Seq(Action)
  BY DEF Action, OrderInv, TypeOK
<1>2. /\ HB' = HB /\ bagged' = bagged /\ creating' = creating
      /\ act.task \in bagged \ creating
      /\ \A s \in Started : act.task \notin HB[s]
      /\ accesses' = [accesses EXCEPT ![x] = Append(h, act)]
      /\ writes' = [writes EXCEPT ![x] = Append(MakeRoom(past), act)]
      /\ conflictTable' = conflictTable \cup NewReports(act, past)
  BY DEF Access, saveTaskActions, graphVars
<1>3. /\ accesses'[x] = Append(h, act) /\ writes'[x] = Append(MakeRoom(past), act)
      /\ \A a \in Addresses \ {x} : /\ accesses'[a] = accesses[a]
                                    /\ writes'[a] = writes[a]
  BY <1>1, <1>2 DEF OrderInv, TypeOK
<1>4. /\ Len(accesses'[x]) = Len(h) + 1
      /\ DOMAIN accesses'[x] = 1 .. Len(h) + 1
      /\ DOMAIN h = 1 .. Len(h) /\ Len(h) \in Nat
      /\ \A i \in 1 .. Len(h) : accesses'[x][i] = h[i]
      /\ accesses'[x][Len(h) + 1] = act
  BY <1>1, <1>3, AppendProperties
<1>5. \A i \in DOMAIN h : /\ h[i] \in Action
                          /\ h[i].addr = x
                          /\ h[i].task \in bagged \ creating
                          /\ h[i].task \in Started
  BY <1>1 DEF RaceInv, AccessesSettled, Started, OrderInv, TypeOK
<1> HIDE DEF x, past, h
<1>6. \A a, b : Race(a, b)' <=> Race(a, b)
  BY <1>2 DEF Race, Conflicting, isCommutative
<1>7. AccessesSettled'
  <2> SUFFICES ASSUME NEW a \in Addresses, NEW i \in DOMAIN accesses'[a]
               PROVE  /\ accesses'[a][i].addr = a
                      /\ accesses'[a][i].task \in bagged \ creating
    BY <1>2 DEF AccessesSettled
  <2>1. CASE a # x
    BY <1>3, <2>1 DEF RaceInv, AccessesSettled
  <2>2. CASE a = x /\ i \in 1 .. Len(h)
    BY <1>4, <1>5, <2>2
  <2>3. CASE a = x /\ i = Len(h) + 1
    BY <1>2, <1>4, <2>3 DEF x
  <2> QED
    BY <1>4, <2>1, <2>2, <2>3
<1>8. /\ Len(past) = (IF Len(h) <= HistoryBound THEN Len(h) ELSE HistoryBound)
      /\ \A i \in 1 .. Len(past) : past[i] = h[Len(h) - Len(past) + i]
  BY <1>1 DEF RaceInv, HistoryKept, EndOf, past, h
<1>9. HistoryKept'
  <2>1. EndOf(past, h)
    BY <1>1 DEF RaceInv, HistoryKept, past, h
  <2>2. EndOf(writes'[x], accesses'[x])
    BY <1>1, <1>3, <2>1, KeptAfterAppend
  <2> SUFFICES ASSUME NEW a \in Addresses
               PROVE  EndOf(writes'[a], accesses'[a])
    BY DEF HistoryKept
  <2>3. CASE a = x
    BY <2>2, <2>3
  <2>4. CASE a # x
    <3>1. accesses'[a] = accesses[a] /\ writes'[a] = writes[a]
      BY <1>3, <2>4
    <3> QED
      BY <3>1 DEF RaceInv, HistoryKept
  <2> QED
    BY <2>3, <2>4
<1>10. ReportsAreRaces'
  <2> SUFFICES ASSUME NEW r \in conflictTable'
               PROVE  /\ Race(r.action2, r.action1)
                      /\ \E i, j \in DOMAIN accesses'[r.addr] :
                           /\ i < j
                           /\ accesses'[r.addr][i] = r.action2
                           /\ accesses'[r.addr][j] = r.action1
    BY <1>6 DEF ReportsAreRaces
  <2>1. CASE r \in conflictTable
    <3>1. Race(r.action2, r.action1)
      BY <2>1 DEF RaceInv, ReportsAreRaces
    <3>2. PICK i, j \in DOMAIN accesses[r.addr] :
            /\ i < j
            /\ accesses[r.addr][i] = r.action2
            /\ accesses[r.addr][j] = r.action1
      BY <2>1 DEF RaceInv, ReportsAreRaces
    <3>3. r.addr \in Addresses
      BY <2>1 DEF OrderInv, TypeOK
    <3>4. CASE r.addr = x
      <4>1. i \in 1 .. Len(h) /\ j \in 1 .. Len(h) /\ h[i] = r.action2
            /\ h[j] = r.action1
        BY <1>4, <3>2, <3>4 DEF h
      <4> QED
        BY <1>4, <3>1, <3>2, <3>4, <4>1
    <3>5. CASE r.addr # x
      BY <1>3, <3>1, <3>2, <3>3, <3>5
    <3> QED
      BY <3>4, <3>5
  <2>2. CASE r \in NewReports(act, past)
    <3>1. PICK k \in DOMAIN past : /\ Reportable(act, past[k])
                                   /\ r = Report(act, past[k])
      BY <2>2 DEF NewReports
    <3>2. r.addr = x /\ r.action1 = act /\ r.action2 = past[k]
      BY <3>1 DEF Report, x
    <3>3. /\ k \in 1 .. Len(past)
          /\ Len(h) - Len(past) + k \in 1 .. Len(h)
      BY <1>1, <1>4, <1>8, <3>1
    <3>4. past[k] = h[Len(h) - Len(past) + k]
      BY <1>8, <3>3
    <3>5. /\ past[k].addr = x
          /\ act.task \notin HB[past[k].task]
      BY <1>2, <1>4, <1>5, <3>3, <3>4
    <3>6. Race(past[k], act)
      BY <3>1, <3>5 DEF Reportable, Parallel, Conflicting, isCommutative,
                        Race, x
    <3>7. /\ Len(h) - Len(past) + k \in DOMAIN accesses'[x]
          /\ Len(h) + 1 \in DOMAIN accesses'[x]
          /\ Len(h) - Len(past) + k < Len(h) + 1
          /\ accesses'[x][Len(h) - Len(past) + k] = past[k]
          /\ accesses'[x][Len(h) + 1] = act
      BY <1>4, <3>3, <3>4
    <3> QED
      BY <3>2, <3>6, <3>7
  <2> QED
    BY <1>2, <2>1, <2>2
<1>11. RecentRacesReported'
  <2> SUFFICES ASSUME NEW a \in Addresses,
                      NEW i \in DOMAIN accesses'[a],
                      NEW j \in DOMAIN accesses'[a],
                      i < j, j - i <= HistoryBound,
                      Race(accesses'[a][i], accesses'[a][j])
               PROVE  \E r \in conflictTable' :
                        /\ r.addr = accesses'[a][i].addr
                        /\ r.lines = LinePair(accesses'[a][i].line,
                                              accesses'[a][j].line)
    BY <1>2, SMTT(30) DEF RecentRacesReported, ReportedAtLines, Race
  <2>1. ASSUME NEW m \in DOMAIN accesses[a], NEW n \in DOMAIN accesses[a],
               m < n, n - m <= HistoryBound,
               Race(accesses[a][m], accesses[a][n])
        PROVE  \E r \in conflictTable' :
                 /\ r.addr = accesses[a][m].addr
                 /\ r.lines = LinePair(accesses[a][m].line,
                                       accesses[a][n].line)
    BY <1>2, <2>1 DEF RaceInv, RecentRacesReported, ReportedAtLines
  <2>2. CASE a # x
    BY <1>3, <2>1, <2>2
  <2>3. CASE a = x /\ j # Len(h) + 1
    <3>1. /\ i \in DOMAIN h /\ j \in DOMAIN h
          /\ accesses'[a][i] = h[i] /\ accesses'[a][j] = h[j]
      BY <1>4, <2>3
    <3> QED
      BY <2>1, <2>3, <3>1 DEF h
  <2>4. CASE a = x /\ j = Len(h) + 1
    <3>1. /\ i \in 1 .. Len(h) /\ accesses'[a][i] = h[i]
          /\ accesses'[a][j] = act
      BY <1>4, <2>4
    <3>2. PICK k \in 1 .. Len(past) : Len(h) - Len(past) + k = i
      <4>1. i - (Len(h) - Len(past)) \in 1 .. Len(past)
        BY <1>1, <1>4, <1>8, <2>4, <3>1
      <4>2. Len(h) - Len(past) + (i - (Len(h) - Len(past))) = i
        BY <1>1, <1>4, <3>1
      <4> QED
        BY <4>1, <4>2
    <3>3. past[k] = h[i]
      BY <1>8, <3>2
    <3>4. k \in DOMAIN past
      BY <1>1
    <3>5. Race(past[k], act)
      BY <3>1, <3>3
    <3>6. Reportable(act, past[k])
      BY <3>5 DEF Race, Reportable, Parallel, Conflicting, isCommutative
    <3>7. PICK r \in conflictTable' : SameSlot(r, Report(act, past[k]))
      BY <1>1, <1>2, <3>4, <3>6, SlotTaken
    <3>8. r.addr = x /\ r.lines = LinePair(act.line, h[i].line)
      BY <3>3, <3>7 DEF SameSlot, Report, x
    <3>9. h[i].line \in Lines /\ h[i].addr = x
      BY <1>4, <1>5, <3>1 DEF Action
    <3>10. r.lines = LinePair(h[i].line, act.line)
      BY <1>1, <3>8, <3>9, LinePairCommutes
    <3> QED
      BY <3>1, <3>8, <3>9, <3>10
  <2> QED
    BY <2>2, <2>3, <2>4
<1> QED
  BY <1>7, <1>9, <1>10, <1>11 DEF RaceInv

\* The race invariant holds throughout.
LEMMA RaceInvariant == Spec => []RaceInv
<1>1. Init => RaceInv
  BY HistoryBoundAssumption, EmptySeq
  DEF Init, RaceInv, AccessesSettled, HistoryKept, EndOf, ReportsAreRaces,
      RecentRacesReported
<1>2. OrderInv /\ RaceInv /\ [Next]_vars => RaceInv'
  <2> SUFFICES ASSUME OrderInv, RaceInv, [Next]_vars
               PROVE  RaceInv'
    OBVIOUS
  <2>1. CASE UNCHANGED accessVars
    BY <2>1, RaceInvNoAccess
  <2>2. CASE \E act \in Action : Access(act)
    BY <2>2, RaceInvAccess
  <2> QED
    BY <2>1, <2>2
    DEF Next, vars, accessVars, TaskBegin, OrderAfter, TaskReady
<1> QED
  BY <1>1, <1>2, OrderInvariant, PTL DEF Spec

\* Everything in the conflict table is a race: two accesses that happened and
\* that the final order leaves unordered in both directions.
THEOREM ReportsCorrect == Spec => []ReportsAreRaces
<1>1. RaceInv => ReportsAreRaces
  BY DEF RaceInv
<1> QED
  BY <1>1, RaceInvariant, PTL

\* No race between accesses at most HistoryBound apart is missed.
THEOREM ReportsComplete == Spec => []RecentRacesReported
<1>1. RaceInv => RecentRacesReported
  BY DEF RaceInv
<1> QED
  BY <1>1, RaceInvariant, PTL
=============================================================================
