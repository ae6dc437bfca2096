-------------------------- MODULE EventLogger_report --------------------------
(***************************************************************************)
(* Proofs about the report that is printed when main returns: what it says *)
(* of two accesses is true of two accesses that the program made, and no   *)
(* race within the history goes unmentioned.                               *)
(***************************************************************************)
EXTENDS EventLogger_proofs

USE LoggerAssumption

-----------------------------------------------------------------------------
(* The invariant.                                                          *)

Event(c) == [task |-> c.task, stmt |-> c.stmt]

\* What the checker may know of: accesses that were made, and those that are being
\* compared with the history or are about to leave the lock.
Comparers == { th \in Threads : call[th].op = "access"
                                /\ call[th].pc \in {"compare", "unlock"} }
Known == made \cup { Event(call[th]) : th \in Comparers }

\* A kept access is one of these, under the ID of its own function.
Attributed(act) ==
  \E e \in Known : BareAccess(e) = Bare(act) /\ e.stmt.name = functions[act.func]

KeptAttributed ==
  /\ \A x \in Addresses : \A i \in DOMAIN writes[x] : Attributed(writes[x][i])
  /\ \A r \in conflictTable : Attributed(r.action1) /\ Attributed(r.action2)

\* Between calls, the checker keeps accesses that were logged, ...
KeptLogged ==
  \A x \in Addresses : \A i \in DOMAIN committed.writes[x] :
    \E k \in DOMAIN accesses[x] : committed.writes[x][i] = accesses[x][k]

\* ... and every conflict is between two of them.
InOrder(r) ==
  /\ r.addr \in Addresses
  /\ \E i, j \in DOMAIN accesses[r.addr] :
       /\ i < j /\ accesses[r.addr][i].task # accesses[r.addr][j].task
       /\ accesses[r.addr][i] = r.action2 /\ accesses[r.addr][j] = r.action1

ConflictsInOrder == \A r \in committed.conflictTable : InOrder(r)

ShownAddresses == \A e \in shown : e.conflict.addr \in Addresses

FaithInv == /\ RInv /\ KeptAttributed /\ KeptLogged /\ ConflictsInOrder
            /\ ShownAddresses /\ ReportFaithful

-----------------------------------------------------------------------------
(* What is known stays known.                                              *)

\* Functions keep their names.
LEMMA NamesStay ==
  ASSUME RInv, [Next]_vars
  PROVE  \A k \in 1 .. funcIDSeed - 1 : functions'[k] = functions[k]
<1>1. CASE UNCHANGED functions
  BY <1>1
<1>2. CASE \E th \in Threads : AddFunction(th)
  <2>1. DOMAIN functions = 1 .. funcIDSeed - 1 /\ funcIDSeed \in Nat
    BY DEF RInv, IInv, Registered, Typed
  <2>2. \A k \in DOMAIN functions : k # funcIDSeed => functions'[k] = functions[k]
    BY <1>2 DEF AddFunction
  <2>3. \A k \in 1 .. funcIDSeed - 1 : k # funcIDSeed
    BY <2>1
  <2> QED
    BY <2>1, <2>2, <2>3
<1>3. UNCHANGED functions \/ \E th \in Threads : AddFunction(th)
  <2>1. CASE ProgramStep
    BY <2>1 DEF ProgramStep, Finalize, TaskReady, TaskOver, TaskBeginLog, saveChildHBs,
                ReadOrWrite, Enter, registryVars
  <2>2. CASE \E th \in Threads : Unlock(th)
    BY <2>2 DEF Unlock, registryVars
  <2>3. CASE \E th \in Threads : Inside(th)
    BY <2>3 DEF Inside, LockRegistry, FindFunction, UnlockRegistry, Lock, onTaskCreate,
                saveHappensBeforeEdge, reportConflicts, detectRaceOnMem, Compare, Save,
                registryVars
  <2>4. CASE UNCHANGED vars
    BY <2>4 DEF vars, registryVars
  <2> QED
    BY <2>1, <2>2, <2>3, <2>4, StepKinds
<1> QED
  BY <1>1, <1>2, <1>3

\* A thread that compares goes on until its access is made.
LEMMA ComparerGoesOn ==
  ASSUME RInv, [Next]_vars, NEW o \in Comparers
  PROVE  Event(call[o]) \in Known'
<1>1. /\ o \in Threads /\ call[o].op = "access" /\ call[o].pc \in {"compare", "unlock"}
      /\ call \in [Threads -> AnyCall]
  BY DEF Comparers, RInv, IInv, Typed
<1>2. ASSUME call'[o] = call[o]
      PROVE  Event(call[o]) \in Known'
  BY <1>1, <1>2 DEF Known, Comparers
<1>3. CASE ProgramStep
  <2>1. UNCHANGED call
        \/ \E th \in Threads : \E c : IsIdle(th) /\ call' = [call EXCEPT ![th] = c]
    BY <1>3 DEF ProgramStep, Finalize, TaskReady, TaskOver, TaskBeginLog,
                saveChildHBs, ReadOrWrite, Enter
  <2>2. call'[o] = call[o]
    BY <1>1, <2>1 DEF IsIdle
  <2> QED
    BY <1>2, <2>2
<1>4. ASSUME NEW th \in Threads, th # o, Inside(th) \/ Unlock(th)
      PROVE  Event(call[o]) \in Known'
  <2>1. CASE Unlock(th)
    BY <1>1, <1>2, <1>4, <2>1 DEF Unlock
  <2>2. CASE \/ LockRegistry(th) \/ FindFunction(th) \/ AddFunction(th)
             \/ UnlockRegistry(th) \/ Lock(th)
    BY <1>1, <1>2, <1>4, <2>2 DEF LockRegistry, FindFunction, AddFunction,
       UnlockRegistry, Lock
  <2>3. CASE \/ onTaskCreate(th) \/ reportConflicts(th) \/ detectRaceOnMem(th)
             \/ Compare(th) \/ Save(th)
    BY <1>1, <1>2, <1>4, <2>3 DEF onTaskCreate, reportConflicts, detectRaceOnMem,
       Compare, Save
  <2>4. CASE saveHappensBeforeEdge(th)
    BY <1>1, <1>2, <1>4, <2>4 DEF saveHappensBeforeEdge
  <2> QED
    BY <1>4, <2>1, <2>2, <2>3, <2>4 DEF Inside
<1>5. CASE Unlock(o)
  BY <1>1, <1>5 DEF Unlock, Known, Event
<1>6. CASE Inside(o)
  <2>1. call[o] \in MemoryCall
    BY <1>1, ShapeOfOp DEF RInv
  <2>2. /\ call'[o].op = call[o].op /\ call'[o].pc \in {"compare", "unlock"}
        /\ call'[o].task = call[o].task /\ call'[o].stmt = call[o].stmt
    <3>1. Compare(o) \/ Save(o)
      BY <1>1, <1>6, <2>1 DEF MemoryCall, Inside, LockRegistry, FindFunction,
         AddFunction, UnlockRegistry, Lock, onTaskCreate, saveHappensBeforeEdge,
         reportConflicts, detectRaceOnMem
    <3>2. CASE Compare(o)
      BY <1>1, <2>1, <3>2 DEF Compare, RInv, IInv, Typed, MemoryCall
    <3>3. CASE Save(o)
      BY <1>1, <2>1, <3>3 DEF Save, RInv, IInv, Typed, MemoryCall
    <3> QED
      BY <3>1, <3>2, <3>3
  <2>3. o \in Comparers' /\ Event(call'[o]) = Event(call[o])
    BY <1>1, <2>2 DEF Comparers, Event
  <2> QED
    BY <2>3 DEF Known
<1>7. CASE UNCHANGED vars
  BY <1>2, <1>7 DEF vars
<1> QED
  BY <1>1, <1>3, <1>4, <1>5, <1>6, <1>7, StepKinds

\* What is made is not undone.
LEMMA MadeGrows == [Next]_vars => made \subseteq made'
<1> SUFFICES ASSUME [Next]_vars
             PROVE  made \subseteq made'
  OBVIOUS
<1>1. CASE ProgramStep
  BY <1>1 DEF ProgramStep, Finalize, TaskReady, TaskOver, TaskBeginLog, saveChildHBs,
              ReadOrWrite, Enter, historyVars
<1>2. CASE \E th \in Threads : Unlock(th)
  BY <1>2 DEF Unlock
<1>3. CASE \E th \in Threads : Inside(th)
  BY <1>3 DEF Inside, LockRegistry, FindFunction, AddFunction, UnlockRegistry, Lock,
              onTaskCreate, saveHappensBeforeEdge, reportConflicts, detectRaceOnMem,
              Compare, Save, Local, historyVars
<1>4. CASE UNCHANGED vars
  BY <1>4 DEF vars, historyVars
<1> QED
  BY <1>1, <1>2, <1>3, <1>4, StepKinds

\* A kept access stays attributed to what it was attributed to.
LEMMA AttributedStays ==
  ASSUME RInv, [Next]_vars, NEW act, act.func \in 1 .. funcIDSeed - 1, Attributed(act)
  PROVE  Attributed(act)'
<1>1. PICK e \in Known : BareAccess(e) = Bare(act) /\ e.stmt.name = functions[act.func]
  BY DEF Attributed
<1>2. e \in Known'
  <2>1. CASE e \in made
    BY <2>1, MadeGrows DEF Known
  <2>2. CASE \E o \in Comparers : e = Event(call[o])
    BY <2>2, ComparerGoesOn
  <2> QED
    BY <2>1, <2>2 DEF Known
<1>3. functions'[act.func] = functions[act.func]
  BY NamesStay
<1>4. (BareAccess(e) = Bare(act))'
  BY <1>1
<1> QED
  BY <1>1, <1>2, <1>3, <1>4 DEF Attributed

-----------------------------------------------------------------------------
(* What is kept is attributed.                                             *)

\* A new history holds the new access and old ones.
LEMMA RoomElements ==
  ASSUME NEW S, NEW w \in Seq(S), NEW act \in S,
         NEW v, v = Append(Detector!MakeRoom(w), act)
  PROVE  \A i \in DOMAIN v : v[i] = act \/ \E k \in DOMAIN w : v[i] = w[k]
<1> DEFINE u == Detector!MakeRoom(w)
<1>1. u \in Seq(S)
  BY RoomTyped
<1>2. \A i \in DOMAIN u : \E k \in DOMAIN w : u[i] = w[k]
  <2>1. CASE Len(w) >= HistoryBound
    <3>1. w # << >> /\ u = Tail(w)
      BY <2>1, EmptySeq DEF Detector!MakeRoom
    <3>2. /\ Tail(w) \in Seq(S) /\ Len(Tail(w)) = Len(w) - 1
          /\ \A i \in 1 .. Len(Tail(w)) : Tail(w)[i] = w[i + 1]
      BY <3>1, HeadTailProperties
    <3>3. Len(w) \in Nat /\ DOMAIN w = 1 .. Len(w) /\ DOMAIN Tail(w) = 1 .. Len(w) - 1
      BY <3>2, LenProperties
    <3>4. \A i \in 1 .. Len(w) - 1 : i + 1 \in DOMAIN w
      BY <3>3
    <3> QED
      BY <3>1, <3>2, <3>3, <3>4
  <2>2. CASE ~(Len(w) >= HistoryBound)
    BY <2>2 DEF Detector!MakeRoom
  <2> QED
    BY <2>1, <2>2
<1> HIDE DEF u
<1>3. \A i \in DOMAIN Append(u, act) :
        Append(u, act)[i] = act \/ (i \in DOMAIN u /\ Append(u, act)[i] = u[i])
  <2>1. /\ Append(u, act) \in Seq(S) /\ Len(Append(u, act)) = Len(u) + 1
        /\ \A i \in 1 .. Len(u) : Append(u, act)[i] = u[i]
        /\ Append(u, act)[Len(u) + 1] = act
    BY <1>1, AppendProperties
  <2>2. /\ Len(u) \in Nat /\ DOMAIN u = 1 .. Len(u)
        /\ DOMAIN Append(u, act) = 1 .. Len(u) + 1
    BY <1>1, <2>1, LenProperties
  <2>3. \A i \in 1 .. Len(u) + 1 : i \in 1 .. Len(u) \/ i = Len(u) + 1
    BY <2>2
  <2> QED
    BY <2>1, <2>2, <2>3
<1>4. v = Append(u, act)
  BY DEF u
<1> QED
  BY <1>2, <1>3, <1>4

\* The access of a call in comparison is attributed to the call.
LEMMA ComparedAttributed ==
  ASSUME RInv, NEW th \in Threads, call[th].pc = "compare"
  PROVE  Attributed(TheAction(th)) /\ TheAction(th) \in Kept(funcIDSeed - 1)
<1> DEFINE c == call[th]
<1>1. /\ c \in MemoryCall /\ c.op = "access" /\ TheAction(th) \in Kept(funcIDSeed - 1)
  BY ActionKept DEF RInv, MemoryCall
<1>2. c.stmt.name \in Names
  BY <1>1, StatementsTyped DEF MemoryCall, Statement
<1>3. c.funcID # 0 /\ c.funcID = funcNames[c.stmt.name]
  BY <1>1 DEF RInv, IInv, Resolved
<1>4. functions[c.funcID] = c.stmt.name
  BY <1>2, <1>3 DEF RInv, IInv, Registered
<1>5. Event(c) \in Known
  BY <1>1 DEF Known, Comparers
<1>6. /\ BareAccess(Event(c)) = Bare(TheAction(th))
      /\ Event(c).stmt.name = functions[TheAction(th).func]
  BY <1>4 DEF Event, BareAccess, Bare, TheAction, constructMemoryAction
<1> QED
  BY <1>1, <1>5, <1>6 DEF Attributed

\* What is in a history or in the table has an ID of the registry.
LEMMA KeptIDs ==
  ASSUME RInv
  PROVE  /\ \A x \in Addresses : \A i \in DOMAIN writes[x] :
              writes[x][i].func \in 1 .. funcIDSeed - 1
         /\ \A r \in conflictTable : /\ r.action1.func \in 1 .. funcIDSeed - 1
                                     /\ r.action2.func \in 1 .. funcIDSeed - 1
<1>1. \A x \in Addresses : writes[x] \in Seq(Kept(funcIDSeed - 1))
  BY DEF RInv, IInv, Printable
<1>2. \A x \in Addresses : \A i \in DOMAIN writes[x] :
        writes[x][i] \in Kept(funcIDSeed - 1)
  BY <1>1, ElementOfSeq, LenProperties
<1>3. \A r \in conflictTable : r \in Conflicts(funcIDSeed - 1)
  BY DEF RInv, IInv, Printable
<1> QED
  BY <1>2, <1>3 DEF Kept, Conflicts, Detector!Report

\* Only a comparison adds a conflict, and only the end of one adds to a history.
LEMMA KeptChanges ==
  ASSUME [Next]_vars
  PROVE  /\ UNCHANGED writes \/ \E th \in Threads : Save(th)
         /\ UNCHANGED conflictTable \/ \E th \in Threads : Compare(th)
<1>1. CASE ProgramStep
  BY <1>1 DEF ProgramStep, Finalize, TaskReady, TaskOver, TaskBeginLog, saveChildHBs,
              ReadOrWrite, Enter, checkerVars
<1>2. CASE \E th \in Threads : Unlock(th)
  BY <1>2 DEF Unlock, checkerVars
<1>3. CASE \E th \in Threads : Inside(th)
  BY <1>3 DEF Inside, LockRegistry, FindFunction, AddFunction, UnlockRegistry, Lock,
              onTaskCreate, saveHappensBeforeEdge, reportConflicts, detectRaceOnMem,
              Compare, Save, checkerVars
<1>4. CASE UNCHANGED vars
  BY <1>4 DEF vars, checkerVars
<1> QED
  BY <1>1, <1>2, <1>3, <1>4, StepKinds

\* Kept accesses are attributed in every state.
LEMMA KeptAttributedStep ==
  ASSUME RInv, KeptAttributed, [Next]_vars
  PROVE  KeptAttributed'
<1>1. ASSUME NEW x \in Addresses, NEW i \in DOMAIN writes[x]
      PROVE  Attributed(writes[x][i]) /\ writes[x][i].func \in 1 .. funcIDSeed - 1
  BY KeptIDs DEF KeptAttributed
<1>2. ASSUME NEW r \in conflictTable
      PROVE  /\ Attributed(r.action1) /\ r.action1.func \in 1 .. funcIDSeed - 1
             /\ Attributed(r.action2) /\ r.action2.func \in 1 .. funcIDSeed - 1
  BY KeptIDs DEF KeptAttributed
<1>3. ASSUME NEW act, act.func \in 1 .. funcIDSeed - 1, Attributed(act)
      PROVE  Attributed(act)'
  BY <1>3, AttributedStays
<1>4. ASSUME NEW x \in Addresses, NEW i \in DOMAIN writes'[x]
      PROVE  \E act : /\ act = writes'[x][i] /\ Attributed(act)
                      /\ act.func \in 1 .. funcIDSeed - 1
  <2>1. CASE UNCHANGED writes
    BY <1>1, <2>1
  <2>2. ASSUME NEW th \in Threads, Save(th)
        PROVE  \E act : /\ act = writes'[x][i] /\ Attributed(act)
                        /\ act.func \in 1 .. funcIDSeed - 1
    <3> DEFINE new == TheAction(th)
               S == Kept(funcIDSeed - 1)
    <3>1. Attributed(new) /\ new \in S /\ new.func \in 1 .. funcIDSeed - 1
      BY <2>2, ComparedAttributed DEF Save, Kept
    <3>2. writes \in [Addresses -> Seq(S)]
      BY DEF RInv, IInv, Printable
    <3>3. CASE new.addr = x
      <4>1. writes'[x] = Append(Detector!MakeRoom(writes[x]), new)
        BY <2>2, <3>2, <3>3 DEF Save
      <4>2. writes[x] \in Seq(S)
        BY <3>2
      <4> HIDE DEF new, S
      <4>3. writes'[x][i] = new \/ \E k \in DOMAIN writes[x] : writes'[x][i] = writes[x][k]
        BY <3>1, <4>1, <4>2, RoomElements
      <4> QED
        BY <1>1, <3>1, <4>3
    <3>4. CASE new.addr # x
      <4>1. writes'[x] = writes[x]
        BY <2>2, <3>2, <3>4 DEF Save
      <4> QED
        BY <1>1, <4>1
    <3> QED
      BY <3>3, <3>4
  <2> QED
    BY <2>1, <2>2, KeptChanges
<1>5. ASSUME NEW r \in conflictTable'
      PROVE  \E a, b : /\ a = r.action1 /\ Attributed(a) /\ a.func \in 1 .. funcIDSeed - 1
                       /\ b = r.action2 /\ Attributed(b) /\ b.func \in 1 .. funcIDSeed - 1
  <2>1. CASE r \in conflictTable
    BY <1>2, <2>1
  <2>2. ASSUME NEW th \in Threads, Compare(th), r \notin conflictTable
        PROVE  \E a, b : /\ a = r.action1 /\ Attributed(a) /\ a.func \in 1 .. funcIDSeed - 1
                         /\ b = r.action2 /\ Attributed(b) /\ b.func \in 1 .. funcIDSeed - 1
    <3> DEFINE act == TheAction(th)
               i == call[th].next
    <3>1. Attributed(act) /\ act \in Kept(funcIDSeed - 1)
      BY <2>2, ComparedAttributed DEF Compare
    <3>2. act.addr \in Addresses /\ i \in DOMAIN writes[act.addr]
      <4>1. call[th] \in MemoryCall /\ call[th].pc = "compare"
        BY <2>2, Shape DEF Compare, RInv
      <4>2. act.addr \in Addresses /\ writes[act.addr] \in Seq(Kept(funcIDSeed - 1))
        BY <3>1 DEF Kept, RInv, IInv, Printable
      <4> QED
        BY <2>2, <4>1, <4>2, LenProperties DEF Compare, MemoryCall
    <3>3. r = Detector!Report(act, writes[act.addr][i])
      BY <2>2 DEF Compare
    <3>4. r.action1 = act /\ r.action2 = writes[act.addr][i]
      BY <3>3 DEF Detector!Report
    <3>5. act.func \in 1 .. funcIDSeed - 1
      BY <3>1 DEF Kept
    <3> QED
      BY <1>1, <3>1, <3>2, <3>4, <3>5
  <2> QED
    BY <2>1, <2>2, KeptChanges
<1>6. ASSUME NEW x \in Addresses, NEW i \in DOMAIN writes'[x]
      PROVE  Attributed(writes[x][i])'
  <2>1. PICK act : /\ act = writes'[x][i] /\ Attributed(act)
                   /\ act.func \in 1 .. funcIDSeed - 1
    BY <1>4
  <2>2. Attributed(act)'
    BY <1>3, <2>1
  <2> QED
    BY <2>1, <2>2
<1>7. ASSUME NEW r \in conflictTable'
      PROVE  Attributed(r.action1)' /\ Attributed(r.action2)'
  <2>1. PICK a, b : /\ a = r.action1 /\ Attributed(a) /\ a.func \in 1 .. funcIDSeed - 1
                    /\ b = r.action2 /\ Attributed(b) /\ b.func \in 1 .. funcIDSeed - 1
    BY <1>5
  <2>2. Attributed(a)' /\ Attributed(b)'
    BY <1>3, <2>1
  <2> QED
    BY <2>1, <2>2
<1> QED
  BY <1>6, <1>7 DEF KeptAttributed

-----------------------------------------------------------------------------
(* The checker between calls.                                              *)

\* Only the end of an access changes what was logged, as one step of the checker.
LEMMA LogChanges ==
  ASSUME RInv, [Next]_vars
  PROVE  \/ UNCHANGED <<committed.writes, committed.conflictTable, accesses>>
         \/ \E b \in BareAction : Checker!Access(b)
<1>1. CASE ProgramStep
  BY <1>1 DEF ProgramStep, Finalize, TaskReady, TaskOver, TaskBeginLog, saveChildHBs,
              ReadOrWrite, Enter, historyVars
<1>2. CASE \E th \in Threads : Inside(th)
  BY <1>2, SMTT(30)
     DEF Inside, LockRegistry, FindFunction, AddFunction, UnlockRegistry, Lock, onTaskCreate,
         saveHappensBeforeEdge, reportConflicts, detectRaceOnMem, Compare, Save, Local,
         historyVars
<1>3. ASSUME NEW th \in Threads, Unlock(th)
      PROVE  \/ UNCHANGED <<committed.writes, committed.conflictTable, accesses>>
             \/ \E b \in BareAction : Checker!Access(b)
  <2>1. CASE call[th].op = "begin"
    BY <1>3, <2>1, UnlockBegin DEF Checker!TaskBegin, Checker!accessVars
  <2>2. CASE call[th].op = "order"
    BY <1>3, <2>2, UnlockOrder DEF Checker!OrderAfter, Checker!accessVars
  <2>3. CASE call[th].op = "access"
    BY <1>3, <2>3, UnlockAccess
  <2>4. CASE call[th].op = "report"
    BY <1>3, <2>4, UnlockReport DEF Checker!vars
  <2> QED
    BY <1>3, <2>1, <2>2, <2>3, <2>4, Unlocked
<1>4. CASE UNCHANGED vars
  BY <1>4 DEF vars, historyVars
<1> QED
  BY <1>1, <1>2, <1>3, <1>4, StepKinds

\* An access is logged after all others of its address.
LEMMA LoggedLast ==
  ASSUME RInv, NEW b \in BareAction, Checker!Access(b)
  PROVE  /\ accesses' \in [Addresses -> Seq(BareAction)]
         /\ b.addr \in Addresses
         /\ Len(accesses[b.addr]) \in Nat
         /\ \A x \in Addresses :
              /\ DOMAIN accesses[x] = 1 .. Len(accesses[x])
              /\ x # b.addr => accesses'[x] = accesses[x]
         /\ DOMAIN accesses'[b.addr] = 1 .. Len(accesses[b.addr]) + 1
         /\ accesses'[b.addr][Len(accesses[b.addr]) + 1] = b
         /\ \A k \in 1 .. Len(accesses[b.addr]) :
              accesses'[b.addr][k] = accesses[b.addr][k]
<1> DEFINE x == b.addr
<1>1. x \in Addresses
  BY DEF BareAction, Checker!Action
<1>2. accesses \in [Addresses -> Seq(BareAction)]
  BY DEF RInv, Client, CommittedTyped
<1>3. /\ accesses'[x] = Append(accesses[x], b)
      /\ \A y \in Addresses : y # x => accesses'[y] = accesses[y]
      /\ accesses' \in [Addresses -> Seq(BareAction)]
  <2>1. accesses' = [accesses EXCEPT ![x] = Append(@, b)]
    BY DEF Checker!Access
  <2>2. Append(accesses[x], b) \in Seq(BareAction)
    BY <1>1, <1>2, AppendProperties
  <2> QED
    BY <1>1, <1>2, <2>1, <2>2
<1>4. accesses[x] \in Seq(BareAction)
  BY <1>1, <1>2
<1>5. /\ Len(accesses'[x]) = Len(accesses[x]) + 1
      /\ accesses'[x][Len(accesses[x]) + 1] = b
      /\ \A k \in 1 .. Len(accesses[x]) : accesses'[x][k] = accesses[x][k]
  BY <1>3, <1>4, AppendProperties
<1>6. \A y \in Addresses : /\ DOMAIN accesses[y] = 1 .. Len(accesses[y])
                           /\ Len(accesses[y]) \in Nat
                           /\ DOMAIN accesses'[y] = 1 .. Len(accesses'[y])
  BY <1>2, <1>3, LenProperties
<1> QED
  BY <1>1, <1>3, <1>5, <1>6

\* What was logged stays where it is.
LEMMA LoggedStays ==
  ASSUME RInv, [Next]_vars, NEW x \in Addresses, NEW k \in DOMAIN accesses[x]
  PROVE  k \in DOMAIN accesses'[x] /\ accesses'[x][k] = accesses[x][k]
<1>1. CASE UNCHANGED accesses
  BY <1>1
<1>2. ASSUME NEW b \in BareAction, Checker!Access(b)
      PROVE  k \in DOMAIN accesses'[x] /\ accesses'[x][k] = accesses[x][k]
  <2>1. k \in 1 .. Len(accesses[x])
    BY <1>2, LoggedLast
  <2>2. CASE x = b.addr
    <3>1. k \in 1 .. Len(accesses[x]) + 1
      BY <1>2, <2>1, <2>2, LoggedLast
    <3> QED
      BY <1>2, <2>1, <2>2, <3>1, LoggedLast
  <2>3. CASE x # b.addr
    BY <1>2, <2>3, LoggedLast
  <2> QED
    BY <2>2, <2>3
<1> QED
  BY <1>1, <1>2, LogChanges

\* Accesses in order stay in order.
LEMMA InOrderStays ==
  ASSUME RInv, [Next]_vars, NEW r, InOrder(r)
  PROVE  InOrder(r)'
<1>1. r.addr \in Addresses
  BY DEF InOrder
<1>2. PICK i, j \in DOMAIN accesses[r.addr] :
        /\ i < j /\ accesses[r.addr][i].task # accesses[r.addr][j].task
        /\ accesses[r.addr][i] = r.action2 /\ accesses[r.addr][j] = r.action1
  BY DEF InOrder
<1>3. \A k \in DOMAIN accesses[r.addr] :
        k \in DOMAIN accesses'[r.addr] /\ accesses'[r.addr][k] = accesses[r.addr][k]
  BY <1>1, LoggedStays
<1> QED
  BY <1>1, <1>2, <1>3 DEF InOrder

\* The checker keeps what was logged.
LEMMA KeptLoggedStep ==
  ASSUME RInv, KeptLogged, [Next]_vars
  PROVE  KeptLogged'
<1> SUFFICES ASSUME NEW x \in Addresses, NEW i \in DOMAIN committed'.writes[x]
             PROVE  \E k \in DOMAIN accesses'[x] :
                      committed'.writes[x][i] = accesses'[x][k]
  BY DEF KeptLogged
<1>1. ASSUME NEW j \in DOMAIN committed.writes[x]
      PROVE  \E k \in DOMAIN accesses'[x] : committed.writes[x][j] = accesses'[x][k]
  BY LoggedStays DEF KeptLogged
<1>2. CASE UNCHANGED <<committed.writes, committed.conflictTable, accesses>>
  BY <1>1, <1>2
<1>3. ASSUME NEW b \in BareAction, Checker!Access(b)
      PROVE  \E k \in DOMAIN accesses'[x] : committed'.writes[x][i] = accesses'[x][k]
  <2>1. committed.writes \in [Addresses -> Seq(BareAction)]
    BY DEF RInv, Client, CommittedTyped
  <2>2. committed'.writes = [committed.writes EXCEPT ![b.addr] =
                               Append(Checker!MakeRoom(committed.writes[b.addr]), b)]
    BY <1>3 DEF Checker!Access, Checker!saveTaskActions
  <2>3. CASE x = b.addr
    <3>1. committed'.writes[x] = Append(Detector!MakeRoom(committed.writes[x]), b)
      BY <2>1, <2>2, <2>3 DEF Checker!MakeRoom, Detector!MakeRoom
    <3>2. committed.writes[x] \in Seq(BareAction)
      BY <2>1
    <3>3. \/ committed'.writes[x][i] = b
          \/ \E k \in DOMAIN committed.writes[x] :
               committed'.writes[x][i] = committed.writes[x][k]
      BY <3>1, <3>2, RoomElements
    <3>4. Len(accesses[x]) + 1 \in DOMAIN accesses'[x]
          /\ accesses'[x][Len(accesses[x]) + 1] = b
      BY <1>3, <2>3, LoggedLast
    <3> QED
      BY <1>1, <3>3, <3>4
  <2>4. CASE x # b.addr
    BY <1>1, <2>1, <2>2, <2>4
  <2> QED
    BY <2>3, <2>4
<1> QED
  BY <1>2, <1>3, LogChanges

\* Every conflict is between two accesses that were logged, in this order.
LEMMA ConflictsInOrderStep ==
  ASSUME RInv, KeptLogged, ConflictsInOrder, [Next]_vars
  PROVE  ConflictsInOrder'
<1> SUFFICES ASSUME NEW r \in committed'.conflictTable
             PROVE  InOrder(r)'
  BY DEF ConflictsInOrder
<1>1. CASE r \in committed.conflictTable
  BY <1>1, InOrderStays DEF ConflictsInOrder
<1>2. ASSUME NEW b \in BareAction, Checker!Access(b), r \notin committed.conflictTable
      PROVE  InOrder(r)'
  <2> DEFINE x == b.addr
             past == committed.writes[x]
  <2>1. r \in Checker!NewReports(b, past)
    BY <1>2 DEF Checker!Access, Checker!saveTaskActions
  <2>2. PICK k \in DOMAIN past : /\ r = Checker!Report(b, past[k])
                                 /\ Checker!Reportable(b, past[k])
    BY <2>1 DEF Checker!NewReports
  <2>3. past[k].task # b.task
    BY <2>2 DEF Checker!Reportable, Checker!Parallel
  <2>4. r.addr = x /\ r.action1 = b /\ r.action2 = past[k]
    BY <2>2 DEF Checker!Report
  <2>5. x \in Addresses
    BY <1>2, LoggedLast
  <2>6. PICK i \in DOMAIN accesses[x] : past[k] = accesses[x][i]
    BY <2>5 DEF KeptLogged
  <2>7. i \in 1 .. Len(accesses[x]) /\ Len(accesses[x]) \in Nat
    BY <1>2, <2>5, LoggedLast
  <2> DEFINE j == Len(accesses[x]) + 1
  <2>8. i < j /\ i \in 1 .. j /\ j \in 1 .. j
    BY <2>7
  <2>9. DOMAIN accesses'[x] = 1 .. j /\ accesses'[x][j] = b
        /\ accesses'[x][i] = past[k]
    BY <1>2, <2>6, <2>7, LoggedLast
  <2> HIDE DEF x, j, past
  <2> QED
    BY <2>3, <2>4, <2>5, <2>8, <2>9 DEF InOrder
<1> QED
  BY <1>1, <1>2, LogChanges

-----------------------------------------------------------------------------
(* The report.                                                             *)

\* What ReportFaithful says of one conflict.
Faithful(e) ==
  /\ Describes(e.conflict.action1, e.name1)
  /\ Describes(e.conflict.action2, e.name2)
  /\ \E i, j \in DOMAIN accesses[e.conflict.addr] :
       /\ i < j
       /\ accesses[e.conflict.addr][i].task # accesses[e.conflict.addr][j].task
       /\ accesses[e.conflict.addr][i] = Bare(e.conflict.action2)
       /\ accesses[e.conflict.addr][j] = Bare(e.conflict.action1)

\* What the report says goes on being true.
LEMMA FaithfulStays ==
  ASSUME RInv, [Next]_vars, NEW e, e.conflict.addr \in Addresses, Faithful(e)
  PROVE  Faithful(e)'
<1> DEFINE x == e.conflict.addr
<1>1. made \subseteq made'
  BY MadeGrows
<1>2. /\ Describes(e.conflict.action1, e.name1)'
      /\ Describes(e.conflict.action2, e.name2)'
  BY <1>1 DEF Faithful, Describes
<1>3. \A k \in DOMAIN accesses[x] :
        k \in DOMAIN accesses'[x] /\ accesses'[x][k] = accesses[x][k]
  BY LoggedStays
<1> QED
  BY <1>2, <1>3 DEF Faithful

\* Nobody else is inside the lock while the report is printed, so what the checker
\* keeps is what was made and logged.
LEMMA NewlyShown ==
  ASSUME RInv, KeptAttributed, ConflictsInOrder, NEW th \in Threads,
         reportConflicts(th), NEW e \in shown', e \notin shown
  PROVE  e.conflict.addr \in Addresses /\ Faithful(e)'
<1>1. call[th] \in ReportCall /\ call[th].pc = "report" /\ guardLock = th
  BY Shape DEF reportConflicts, RInv, IInv, Exclusion, Holds
<1>2. Comparers = {}
  BY <1>1 DEF Comparers, RInv, IInv, Exclusion, Holds, ReportCall
<1>3. Known = made
  BY <1>2 DEF Known
<1>4. BareTable = committed.conflictTable
  BY <1>1 DEF RInv, Progress, ProgressOf, Holds, SameLog
<1>5. PICK r \in FirstConflicts :
        e = [conflict |-> r, name1 |-> functions[r.action1.func],
             name2 |-> functions[r.action2.func]]
  BY DEF reportConflicts
<1>6. r \in conflictTable
  BY DEF FirstConflicts
<1>7. BareReport(r) \in BareTable
  BY <1>6 DEF BareTable, BareReports
<1>8. InOrder(BareReport(r))
  BY <1>4, <1>7 DEF ConflictsInOrder
<1>9. /\ BareReport(r).addr = r.addr /\ BareReport(r).action1 = Bare(r.action1)
      /\ BareReport(r).action2 = Bare(r.action2)
  BY DEF BareReport
<1>10. /\ e.conflict = r /\ e.name1 = functions[r.action1.func]
       /\ e.name2 = functions[r.action2.func]
  BY <1>5
<1>11. Describes(r.action1, e.name1) /\ Describes(r.action2, e.name2)
  BY <1>3, <1>6, <1>10 DEF KeptAttributed, Attributed, Describes
<1>12. Faithful(e) /\ r.addr \in Addresses
  BY <1>8, <1>9, <1>10, <1>11 DEF InOrder, Faithful
<1>13. UNCHANGED <<made, accesses>>
  BY DEF reportConflicts, historyVars
<1> QED
  BY <1>10, <1>12, <1>13 DEF Faithful, Describes

\* What is printed is true, and stays so.
LEMMA ReportStep ==
  ASSUME FaithInv, [Next]_vars
  PROVE  ShownAddresses' /\ ReportFaithful'
<1>1. ASSUME NEW e \in shown
      PROVE  e.conflict.addr \in Addresses /\ Faithful(e)'
  <2>1. e.conflict.addr \in Addresses /\ Faithful(e)
    BY DEF FaithInv, ShownAddresses, ReportFaithful, Faithful
  <2> QED
    BY <2>1, FaithfulStays DEF FaithInv
<1>2. shown' = shown \/ \E th \in Threads : reportConflicts(th)
  <2>1. CASE ProgramStep
    BY <2>1 DEF ProgramStep, Finalize, TaskReady, TaskOver, TaskBeginLog, saveChildHBs,
                ReadOrWrite, Enter
  <2>2. CASE \E th \in Threads : Unlock(th)
    BY <2>2 DEF Unlock
  <2>3. CASE \E th \in Threads : Inside(th)
    BY <2>3 DEF Inside, LockRegistry, FindFunction, AddFunction, UnlockRegistry, Lock,
                onTaskCreate, saveHappensBeforeEdge, detectRaceOnMem, Compare, Save,
                Local
  <2>4. CASE UNCHANGED vars
    BY <2>4 DEF vars
  <2> QED
    BY <2>1, <2>2, <2>3, <2>4, StepKinds
<1>3. ASSUME NEW e \in shown'
      PROVE  e.conflict.addr \in Addresses /\ Faithful(e)'
  BY <1>1, <1>2, NewlyShown DEF FaithInv
<1>4. \A e \in shown' : Faithful(e)'
  BY <1>3
<1> QED
  BY <1>3, <1>4 DEF ShownAddresses, ReportFaithful, Faithful

\* Nothing is kept or printed at first.
LEMMA InitFaithInv == Init => FaithInv
<1> SUFFICES ASSUME Init
             PROVE  FaithInv
  OBVIOUS
<1>1. RInv
  BY InitRInv
<1>2. /\ \A x \in Addresses : DOMAIN writes[x] = {}
      /\ conflictTable = {} /\ shown = {}
  BY DEF Init
<1>3. committed.conflictTable = {}
  BY DEF Init, CheckerState, BareReports
<1>4. \A x \in Addresses : DOMAIN committed.writes[x] = {}
  BY <1>2 DEF Init, CheckerState, BareSeq
<1> QED
  BY <1>1, <1>2, <1>3, <1>4 DEF FaithInv, KeptAttributed, KeptLogged, ConflictsInOrder,
                                ShownAddresses, ReportFaithful

\* Every step preserves the invariant.
LEMMA NextFaithInv == FaithInv /\ [Next]_vars => FaithInv'
<1> SUFFICES ASSUME FaithInv, [Next]_vars
             PROVE  FaithInv'
  OBVIOUS
<1>1. RInv'
  BY NextRInv DEF FaithInv
<1>2. KeptAttributed' /\ KeptLogged' /\ ConflictsInOrder'
  BY KeptAttributedStep, KeptLoggedStep, ConflictsInOrderStep DEF FaithInv
<1>3. ShownAddresses' /\ ReportFaithful'
  BY ReportStep
<1> QED
  BY <1>1, <1>2, <1>3 DEF FaithInv

\* Whatever the threads do, every conflict printed is about two accesses that the
\* program made, by different tasks, the second one first, each in the function
\* that is printed with it (checker.cc:309-320).
THEOREM ReportIsFaithful == Spec => []ReportFaithful
<1>1. Init => FaithInv
  BY InitFaithInv
<1>2. FaithInv /\ [Next]_vars => FaithInv'
  BY NextFaithInv
<1>3. FaithInv => ReportFaithful
  BY DEF FaithInv
<1> QED
  BY <1>1, <1>2, <1>3, PTL DEF Spec

-----------------------------------------------------------------------------
(* Addresses are numbers.                                                  *)

\* A function that obeys the recursion of asHex up to n.
HexUpTo(g, n) ==
  /\ g \in [0 .. n -> Nat]
  /\ \A m \in 0 .. n : g[m] = IF m < 10 THEN m ELSE 16 * g[m \div 10] + (m % 10)

\* Dividing leads to smaller numbers.
LEMMA Divided ==
  ASSUME NEW m \in Nat, ~(m < 10)
  PROVE  m \div 10 \in 0 .. m - 1 /\ m % 10 \in Nat /\ m > 0
OBVIOUS

\* There is such a function for every bound ...
LEMMA HexExists ==
  ASSUME NEW n \in Nat
  PROVE  \E g : HexUpTo(g, n)
<1> DEFINE T == { k \in Nat : ~\E g : HexUpTo(g, k) }
<1> SUFFICES ASSUME T # {}
             PROVE  FALSE
  OBVIOUS
<1>1. PICK m \in T : \A k \in T : m <= k
  BY LeastNat
<1>2. m \in Nat /\ \A g : ~HexUpTo(g, m)
  OBVIOUS
<1>3. CASE m = 0
  <2>1. HexUpTo([k \in 0 .. 0 |-> 0], 0)
    BY DEF HexUpTo
  <2> QED
    BY <1>2, <1>3, <2>1
<1>4. CASE m # 0
  <2>1. m - 1 \in Nat /\ ~(m <= m - 1)
    BY <1>2, <1>4
  <2>2. PICK g : HexUpTo(g, m - 1)
    BY <1>1, <2>1
  <2> DEFINE last == IF m < 10 THEN m ELSE 16 * g[m \div 10] + (m % 10)
             h    == [k \in 0 .. m |-> IF k = m THEN last ELSE g[k]]
  <2>3. last \in Nat
    <3>1. CASE m < 10
      BY <1>2, <3>1
    <3>2. CASE ~(m < 10)
      <4>1. m \div 10 \in 0 .. m - 1 /\ m % 10 \in Nat
        BY <1>2, <3>2, Divided
      <4>2. g[m \div 10] \in Nat
        BY <2>2, <4>1 DEF HexUpTo
      <4> QED
        BY <3>2, <4>1, <4>2
    <3> QED
      BY <3>1, <3>2
  <2>4. \A k \in 0 .. m : k # m => k \in 0 .. m - 1
    BY <1>2
  <2>5. h \in [0 .. m -> Nat]
    BY <2>2, <2>3, <2>4 DEF HexUpTo
  <2>6. ASSUME NEW k \in 0 .. m
        PROVE  h[k] = IF k < 10 THEN k ELSE 16 * h[k \div 10] + (k % 10)
    <3>1. ~(k < 10) => k \div 10 \in 0 .. m - 1 /\ k \div 10 # m /\ k \div 10 \in 0 .. m
      BY <1>2, Divided
    <3>2. ~(k < 10) => h[k \div 10] = g[k \div 10]
      BY <3>1
    <3>3. h[k] = IF k < 10 THEN k ELSE 16 * g[k \div 10] + (k % 10)
      <4>1. CASE k = m
        BY <4>1
      <4>2. CASE k # m
        <5>1. k \in 0 .. m - 1 /\ h[k] = g[k]
          BY <2>4, <4>2
        <5> QED
          BY <2>2, <5>1 DEF HexUpTo
      <4> QED
        BY <4>1, <4>2
    <3> HIDE DEF h
    <3> QED
      BY <3>2, <3>3
  <2>7. HexUpTo(h, m)
    BY <2>5, <2>6 DEF HexUpTo
  <2> QED
    BY <1>2, <2>7
<1> QED
  BY <1>3, <1>4

\* ... and two of them agree.
LEMMA HexUnique ==
  ASSUME NEW n \in Nat, NEW p \in Nat, NEW g, NEW h, HexUpTo(g, n), HexUpTo(h, p),
         NEW k \in 0 .. n, k <= p
  PROVE  g[k] = h[k]
<1> DEFINE T == { j \in 0 .. n : j <= p /\ g[j] # h[j] }
<1> SUFFICES ASSUME T # {}
             PROVE  FALSE
  OBVIOUS
<1>1. T \subseteq Nat
  OBVIOUS
<1>2. PICK m \in T : \A j \in T : m <= j
  BY <1>1, LeastNat
<1>3. m \in 0 .. n /\ m \in 0 .. p /\ m \in Nat /\ g[m] # h[m]
  OBVIOUS
<1>4. ~(m < 10)
  BY <1>3 DEF HexUpTo
<1>5. m \div 10 \in 0 .. m - 1
  BY <1>3, <1>4, Divided
<1>6. m \div 10 \in 0 .. n /\ m \div 10 <= p /\ ~(m <= m \div 10)
  BY <1>3, <1>5
<1>7. g[m \div 10] = h[m \div 10]
  BY <1>2, <1>6
<1> QED
  BY <1>3, <1>4, <1>7 DEF HexUpTo

\* So the recursion defines a function, of numbers.
LEMMA HexTyped == asHex \in [Nat -> Nat]
<1> DEFINE G(n) == CHOOSE g : HexUpTo(g, n)
           f    == [n \in Nat |-> G(n)[n]]
<1>1. \A n \in Nat : HexUpTo(G(n), n)
  BY HexExists
<1> HIDE DEF G
<1>2. ASSUME NEW n \in Nat
      PROVE  f[n] = IF n < 10 THEN n ELSE 16 * f[n \div 10] + (n % 10)
  <2>1. f[n] = IF n < 10 THEN n ELSE 16 * G(n)[n \div 10] + (n % 10)
    BY <1>1 DEF HexUpTo
  <2>2. ASSUME ~(n < 10)
        PROVE  G(n)[n \div 10] = f[n \div 10]
    <3>1. n \div 10 \in Nat /\ n \div 10 \in 0 .. n /\ n \div 10 <= n \div 10
      BY <2>2, Divided
    <3>2. HexUpTo(G(n), n) /\ HexUpTo(G(n \div 10), n \div 10)
      BY <1>1, <3>1
    <3>3. G(n)[n \div 10] = G(n \div 10)[n \div 10]
      BY <3>1, <3>2, HexUnique
    <3> QED
      BY <3>1, <3>3
  <2> HIDE DEF f
  <2> QED
    BY <2>1, <2>2
<1>3. f = [n \in Nat |-> IF n < 10 THEN n ELSE 16 * f[n \div 10] + (n % 10)]
  BY <1>2
<1>4. asHex = CHOOSE h : h = [n \in Nat |-> IF n < 10 THEN n
                                             ELSE 16 * h[n \div 10] + (n % 10)]
  BY DEF asHex
<1> HIDE DEF f
<1>5. asHex = [n \in Nat |-> IF n < 10 THEN n ELSE 16 * asHex[n \div 10] + (n % 10)]
  BY <1>3, <1>4, Zenon
<1> DEFINE T == { n \in Nat : asHex[n] \notin Nat }
<1>6. T = {}
  <2> SUFFICES ASSUME T # {}
               PROVE  FALSE
    OBVIOUS
  <2>1. PICK m \in T : \A j \in T : m <= j
    BY LeastNat
  <2>2. m \in Nat /\ asHex[m] \notin Nat
    OBVIOUS
  <2>3. asHex[m] = IF m < 10 THEN m ELSE 16 * asHex[m \div 10] + (m % 10)
    BY <1>5, <2>2
  <2>4. ~(m < 10)
    BY <2>2, <2>3
  <2>5. m \div 10 \in Nat /\ ~(m <= m \div 10) /\ m % 10 \in Nat
    BY <2>2, <2>4, Divided
  <2>6. asHex[m \div 10] \in Nat
    BY <2>1, <2>5
  <2> QED
    BY <2>2, <2>3, <2>4, <2>5, <2>6
<1> QED
  BY <1>5, <1>6

\* The addresses of the checker are numbers.
LEMMA AddressesNat == Addresses \subseteq Nat
<1>1. \A s \in Statements : s.addr \in Nat
  BY StatementsTyped DEF Statement
<1>2. \A a \in RealAddresses : a \in Nat
  BY <1>1 DEF RealAddresses
<1> QED
  BY <1>2, HexTyped DEF Addresses, AsRead

-----------------------------------------------------------------------------
(* The checker between calls knows every race within the history.          *)

\* A kept history is the end of the full one.
EndOf(w, h) ==
  /\ Len(w) = IF Len(h) <= HistoryBound THEN Len(h) ELSE HistoryBound
  /\ \A i \in 1 .. Len(w) : w[i] = h[Len(h) - Len(w) + i]

HistoryKept == \A x \in Addresses : EndOf(committed.writes[x], accesses[x])

\* Positions counted from the end of a history, before and after an access.
LEMMA Positions ==
  ASSUME NEW m \in Nat, NEW n \in Nat, m <= n
  PROVE  /\ \A i \in 1 .. m - 1 : /\ i + 1 \in 1 .. m
                                  /\ n - m + (i + 1) \in 1 .. n
                                  /\ (n + 1) - m + i = n - m + (i + 1)
         /\ (n + 1) - m + m = n + 1
OBVIOUS

\* One more access: the oldest one goes when there is no room, the others move up.
LEMMA EndAfterAppend ==
  ASSUME NEW S, NEW w \in Seq(S), NEW h \in Seq(S), NEW b \in S, EndOf(w, h),
         NEW v, v = Append(Checker!MakeRoom(w), b), NEW g, g = Append(h, b)
  PROVE  EndOf(v, g)
<1> USE DEF EndOf
<1>1. Len(w) \in Nat /\ Len(h) \in Nat /\ Len(w) <= Len(h)
  OBVIOUS
<1>2. /\ Len(g) = Len(h) + 1
      /\ \A i \in 1 .. Len(h) : g[i] = h[i]
      /\ g[Len(h) + 1] = b
  BY AppendProperties
<1>3. CASE Len(w) >= HistoryBound
  <2>1. w # << >> /\ Len(w) = HistoryBound /\ Len(h) >= HistoryBound
    BY <1>3
  <2>2. /\ Checker!MakeRoom(w) \in Seq(S)
        /\ Len(Checker!MakeRoom(w)) = Len(w) - 1
        /\ \A i \in 1 .. Len(w) - 1 : Checker!MakeRoom(w)[i] = w[i + 1]
    BY <1>3, <2>1, HeadTailProperties DEF Checker!MakeRoom
  <2>3. /\ Len(v) = Len(w)
        /\ \A i \in 1 .. Len(w) - 1 : v[i] = w[i + 1]
        /\ v[Len(w)] = b
    BY <2>1, <2>2, AppendProperties
  <2>4. ASSUME NEW i \in 1 .. Len(w) - 1
        PROVE  v[i] = g[Len(g) - Len(v) + i]
    <3>1. v[i] = w[i + 1]
      BY <2>3
    <3>2. /\ i + 1 \in 1 .. Len(w)
          /\ Len(h) - Len(w) + (i + 1) \in 1 .. Len(h)
          /\ Len(g) - Len(v) + i = Len(h) - Len(w) + (i + 1)
      BY <1>1, <1>2, <2>3, Positions
    <3>3. w[i + 1] = h[Len(h) - Len(w) + (i + 1)]
      BY <3>2
    <3> QED
      BY <1>2, <3>1, <3>2, <3>3
  <2>5. v[Len(v)] = g[Len(g) - Len(v) + Len(v)]
    BY <1>1, <1>2, <2>3, Positions
  <2>6. ASSUME NEW i \in 1 .. Len(v)
        PROVE  v[i] = g[Len(g) - Len(v) + i]
    <3>1. i = Len(v) \/ i \in 1 .. Len(w) - 1
      BY <1>1, <2>3
    <3> QED
      BY <2>4, <2>5, <3>1
  <2>7. Len(v) = HistoryBound /\ ~(Len(g) <= HistoryBound)
    BY <1>1, <1>2, <2>1, <2>3
  <2> QED
    BY <2>6, <2>7
<1>4. CASE ~(Len(w) >= HistoryBound)
  <2>1. /\ Checker!MakeRoom(w) = w /\ Len(w) = Len(h) /\ Len(h) + 1 <= HistoryBound
    BY <1>4 DEF Checker!MakeRoom
  <2>2. v = g
    <3>1. ASSUME NEW i \in 1 .. Len(w)
          PROVE  w[i] = h[i]
      <4>1. Len(h) - Len(w) + i = i
        BY <1>1, <2>1
      <4> QED
        BY <4>1
    <3>2. w = h
      BY <2>1, <3>1, SeqEqual
    <3> QED
      BY <2>1, <3>2
  <2>3. ASSUME NEW i \in 1 .. Len(v)
        PROVE  v[i] = g[Len(g) - Len(v) + i]
    <3>1. Len(g) - Len(v) + i = i
      BY <1>1, <1>2, <2>2
    <3> QED
      BY <2>2, <3>1
  <2>4. Len(g) <= HistoryBound
    BY <1>1, <1>2, <2>1
  <2> QED
    BY <2>2, <2>3, <2>4
<1> QED
  BY <1>3, <1>4

\* After an access, the slot of every race it has with the kept accesses is taken,
\* by an older entry or by one it adds.
LEMMA SlotTaken ==
  ASSUME NEW b, NEW S, NEW past \in Seq(S), NEW k \in DOMAIN past,
         Checker!Reportable(b, past[k])
  PROVE  \E r \in committed.conflictTable \cup Checker!NewReports(b, past) :
           Checker!SameSlot(r, Checker!Report(b, past[k]))
<1> DEFINE T == { j \in DOMAIN past :
                    /\ Checker!Reportable(b, past[j])
                    /\ Checker!SameSlot(Checker!Report(b, past[j]),
                                        Checker!Report(b, past[k])) }
<1>1. T \in SUBSET Nat /\ T # {}
  BY DEF Checker!SameSlot
<1>2. PICK m \in T : \A n \in T : m <= n
  BY <1>1, LeastNat
<1>3. CASE \E r \in committed.conflictTable :
             Checker!SameSlot(r, Checker!Report(b, past[m]))
  BY <1>2, <1>3 DEF Checker!SameSlot
<1>4. CASE \A r \in committed.conflictTable :
             ~Checker!SameSlot(r, Checker!Report(b, past[m]))
  <2>1. m \in DOMAIN past /\ Checker!Reportable(b, past[m])
    BY <1>2
  <2>2. Checker!SameSlot(Checker!Report(b, past[m]), Checker!Report(b, past[k]))
    BY <1>2
  <2>3. ASSUME NEW j \in 1 .. m - 1, Checker!Reportable(b, past[j]),
               Checker!SameSlot(Checker!Report(b, past[j]), Checker!Report(b, past[m]))
        PROVE  FALSE
    <3>1. j \in DOMAIN past /\ j < m
      BY <2>1
    <3>2. Checker!SameSlot(Checker!Report(b, past[j]), Checker!Report(b, past[k]))
      BY <2>2, <2>3 DEF Checker!SameSlot
    <3> QED
      BY <1>2, <2>3, <3>1, <3>2
  <2>4. Checker!Report(b, past[m]) \in Checker!NewReports(b, past)
    BY <1>4, <2>1, <2>3 DEF Checker!NewReports
  <2> QED
    BY <2>2, <2>4
<1> QED
  BY <1>3, <1>4

\* The order of the two lines does not matter for the key of the table.
LEMMA LinePairCommutes ==
  ASSUME NEW m \in Nat, NEW n \in Nat
  PROVE  Checker!LinePair(m, n) = Checker!LinePair(n, m)
BY DEF Checker!LinePair

\* A conflict of the table has the lines and the address of the two accesses.
KnownRace(x, a, b) ==
  \E r \in committed.conflictTable :
    r.addr = x /\ r.lines = Checker!LinePair(a.line, b.line)

\* Two accesses that are a race and not too far apart are in the table.
RacesKnown ==
  \A x \in Addresses : \A i, j \in DOMAIN accesses[x] :
    /\ i < j /\ j - i <= HistoryBound
    /\ Checker!Race(accesses[x][i], accesses[x][j])
    => KnownRace(x, accesses[x][i], accesses[x][j])

AddressesRight == \A x \in Addresses : \A i \in DOMAIN accesses[x] : accesses[x][i].addr = x

\* An access adds its races with what is kept.
LEMMA RacesKnownAccess ==
  ASSUME RInv, HistoryKept, RacesKnown, AddressesRight,
         NEW b \in BareAction, Checker!Access(b)
  PROVE  HistoryKept' /\ RacesKnown' /\ AddressesRight'
<1> DEFINE y    == b.addr
           past == committed.writes[y]
           h    == accesses[y]
           n    == Len(h)
<1>1. /\ y \in Addresses /\ n \in Nat /\ b.line \in Lines
      /\ accesses' \in [Addresses -> Seq(BareAction)]
      /\ \A x \in Addresses : /\ DOMAIN accesses[x] = 1 .. Len(accesses[x])
                              /\ x # y => accesses'[x] = accesses[x]
      /\ DOMAIN accesses'[y] = 1 .. n + 1 /\ accesses'[y][n + 1] = b
      /\ \A k \in 1 .. n : accesses'[y][k] = h[k]
  BY LoggedLast DEF BareAction, Checker!Action
<1>2. /\ past \in Seq(BareAction) /\ h \in Seq(BareAction)
      /\ committed.writes \in [Addresses -> Seq(BareAction)]
      /\ accesses \in [Addresses -> Seq(BareAction)]
  BY <1>1 DEF RInv, Client, CommittedTyped
<1>3. /\ committed'.writes = [committed.writes EXCEPT ![y] = Append(Checker!MakeRoom(past), b)]
      /\ accesses' = [accesses EXCEPT ![y] = Append(h, b)]
      /\ committed'.conflictTable
           = committed.conflictTable \cup Checker!NewReports(b, past)
      /\ committed'.HB = committed.HB
  BY DEF Checker!Access, Checker!saveTaskActions, Checker!graphVars
<1>4. EndOf(past, h)
  BY <1>1 DEF HistoryKept
<1>5. HistoryKept'
  <2> SUFFICES ASSUME NEW x \in Addresses
               PROVE  EndOf(committed'.writes[x], accesses'[x])
    BY DEF HistoryKept, EndOf
  <2>1. CASE x = y
    <3>1. /\ committed'.writes[x] = Append(Checker!MakeRoom(past), b)
          /\ accesses'[x] = Append(h, b)
      BY <1>1, <1>2, <1>3, <2>1
    <3> HIDE DEF past, h
    <3> QED
      BY <1>2, <1>4, <3>1, EndAfterAppend
  <2>2. CASE x # y
    BY <1>2, <1>3, <2>2 DEF HistoryKept
  <2> QED
    BY <2>1, <2>2
<1>6. AddressesRight'
  <2> SUFFICES ASSUME NEW x \in Addresses, NEW i \in DOMAIN accesses'[x]
               PROVE  accesses'[x][i].addr = x
    BY DEF AddressesRight
  <2>1. CASE x # y
    BY <1>1, <2>1 DEF AddressesRight
  <2>2. CASE x = y /\ i = n + 1
    BY <1>1, <2>2
  <2>3. CASE x = y /\ i \in 1 .. n
    BY <1>1, <2>3 DEF AddressesRight
  <2> QED
    BY <1>1, <2>1, <2>2, <2>3
<1>7. \A i \in 1 .. n : h[i] \in BareAction /\ h[i].addr = y
  BY <1>1, <1>2, ElementOfSeq DEF AddressesRight
<1>8. \A e, f : Checker!Race(e, f)' <=> Checker!Race(e, f)
  BY <1>3 DEF Checker!Race, Checker!Conflicting, Checker!isCommutative
<1>9. \A x, e, f : KnownRace(x, e, f) =>
        \E r \in committed'.conflictTable :
          r.addr = x /\ r.lines = Checker!LinePair(e.line, f.line)
  BY <1>3 DEF KnownRace
<1> HIDE DEF y, past, h, n
<1>10. RacesKnown'
  <2> SUFFICES ASSUME NEW x \in Addresses,
                      NEW i \in DOMAIN accesses'[x], NEW j \in DOMAIN accesses'[x],
                      i < j, j - i <= HistoryBound,
                      Checker!Race(accesses'[x][i], accesses'[x][j])
               PROVE  \E r \in committed'.conflictTable :
                        /\ r.addr = x
                        /\ r.lines = Checker!LinePair(accesses'[x][i].line,
                                                     accesses'[x][j].line)
    BY <1>8 DEF RacesKnown, KnownRace, Checker!LinePair
  <2>1. CASE x # y
    <3>1. KnownRace(x, accesses[x][i], accesses[x][j]) /\ accesses'[x] = accesses[x]
      BY <1>1, <2>1 DEF RacesKnown
    <3> QED
      BY <1>9, <3>1
  <2>2. CASE x = y /\ j # n + 1
    <3>1. /\ i \in 1 .. n /\ j \in 1 .. n
          /\ accesses'[x][i] = h[i] /\ accesses'[x][j] = h[j]
      BY <1>1, <2>2
    <3>2. i \in DOMAIN accesses[x] /\ j \in DOMAIN accesses[x] /\ h = accesses[x]
      BY <1>1, <2>2, <3>1 DEF h, n
    <3>3. Checker!Race(accesses[x][i], accesses[x][j])
      BY <3>1, <3>2
    <3>4. KnownRace(x, accesses[x][i], accesses[x][j])
      BY <3>2, <3>3 DEF RacesKnown
    <3> QED
      BY <1>9, <3>1, <3>2, <3>4
  <2>3. CASE x = y /\ j = n + 1
    <3>1. i \in 1 .. n /\ accesses'[x][i] = h[i] /\ accesses'[x][j] = b
      BY <1>1, <2>3
    <3>2. /\ Len(past) \in Nat /\ DOMAIN past = 1 .. Len(past)
          /\ Len(past) = (IF n <= HistoryBound THEN n ELSE HistoryBound)
          /\ \A k \in 1 .. Len(past) : past[k] = h[n - Len(past) + k]
      BY <1>2, <1>4, LenProperties DEF EndOf, n
    <3>3. PICK k \in 1 .. Len(past) : n - Len(past) + k = i
      <4>1. i - (n - Len(past)) \in 1 .. Len(past)
        BY <1>1, <2>3, <3>1, <3>2
      <4>2. n - Len(past) + (i - (n - Len(past))) = i
        BY <1>1, <3>1, <3>2
      <4> QED
        BY <4>1, <4>2
    <3>4. past[k] = h[i] /\ k \in DOMAIN past
      BY <3>2, <3>3
    <3>5. Checker!Race(past[k], b)
      BY <3>1, <3>4
    <3>6. Checker!Reportable(b, past[k])
      BY <3>5 DEF Checker!Race, Checker!Reportable, Checker!Parallel,
                  Checker!Conflicting, Checker!isCommutative
    <3>7. PICK r \in committed'.conflictTable :
            Checker!SameSlot(r, Checker!Report(b, past[k]))
      BY <1>2, <1>3, <3>4, <3>6, SlotTaken
    <3>8. r.addr = y /\ r.lines = Checker!LinePair(b.line, h[i].line)
      BY <3>4, <3>7 DEF Checker!SameSlot, Checker!Report, y
    <3>9. b.line \in Nat /\ h[i].line \in Nat
      <4>1. Lines \subseteq Nat
        BY StatementsTyped DEF Lines, Statement
      <4> QED
        BY <1>1, <1>7, <3>1, <4>1 DEF BareAction, Checker!Action
    <3>10. r.lines = Checker!LinePair(h[i].line, b.line)
      BY <3>8, <3>9, LinePairCommutes
    <3> QED
      BY <2>3, <3>1, <3>7, <3>8, <3>10
  <2> QED
    BY <2>1, <2>2, <2>3
<1> QED
  BY <1>5, <1>6, <1>10

\* Other steps change no bag of a task that has accessed memory.
LEMMA RacesKnownStep ==
  ASSUME RInv, HistoryKept, RacesKnown, AddressesRight, [Next]_vars
  PROVE  HistoryKept' /\ RacesKnown' /\ AddressesRight'
<1>1. CASE UNCHANGED <<committed.writes, committed.conflictTable, accesses>>
  <2>1. HistoryKept' /\ AddressesRight'
    BY <1>1 DEF HistoryKept, AddressesRight, EndOf
  <2>2. ASSUME NEW s \in committed.bagged \ creating
        PROVE  committed'.HB[s] = committed.HB[s]
    <3>1. CASE UNCHANGED committed
      BY <3>1
    <3>2. CASE \E th \in Threads : Unlock(th)
      BY <3>2, UnlockGraph
    <3>3. UNCHANGED committed \/ \E th \in Threads : Unlock(th)
      <4>1. CASE ProgramStep
        BY <4>1 DEF ProgramStep, Finalize, TaskReady, TaskOver, TaskBeginLog,
                    saveChildHBs, ReadOrWrite, Enter, historyVars
      <4>2. CASE \E th \in Threads : Inside(th)
        BY <4>2, SMTT(30)
           DEF Inside, LockRegistry, FindFunction, AddFunction, UnlockRegistry, Lock,
               onTaskCreate, saveHappensBeforeEdge, reportConflicts, detectRaceOnMem,
               Compare, Save, Local, historyVars
      <4>3. CASE UNCHANGED vars
        BY <4>3 DEF vars, historyVars
      <4> QED
        BY <4>1, <4>2, <4>3, StepKinds
    <3> QED
      BY <3>1, <3>2, <3>3
  <2>3. ASSUME NEW x \in Addresses, NEW i \in DOMAIN accesses[x], NEW j \in DOMAIN accesses[x],
               i < j, j - i <= HistoryBound, Checker!Race(accesses[x][i], accesses[x][j])'
        PROVE  KnownRace(x, accesses[x][i], accesses[x][j])'
    <3>1. /\ accesses[x][i].task \in committed.bagged \ creating
          /\ accesses[x][j].task \in committed.bagged \ creating
      BY DEF RInv, Client, StartedInOrder
    <3>2. /\ committed'.HB[accesses[x][i].task] = committed.HB[accesses[x][i].task]
          /\ committed'.HB[accesses[x][j].task] = committed.HB[accesses[x][j].task]
      BY <2>2, <3>1
    <3>3. Checker!Race(accesses[x][i], accesses[x][j])
      BY <1>1, <2>3, <3>2 DEF Checker!Race, Checker!Conflicting, Checker!isCommutative
    <3>4. KnownRace(x, accesses[x][i], accesses[x][j])
      BY <2>3, <3>3 DEF RacesKnown
    <3> QED
      BY <1>1, <3>4 DEF KnownRace, Checker!LinePair
  <2>4. RacesKnown'
    BY <1>1, <2>3 DEF RacesKnown
  <2> QED
    BY <2>1, <2>4
<1>2. CASE \E b \in BareAction : Checker!Access(b)
  BY <1>2, RacesKnownAccess
<1> QED
  BY <1>1, <1>2, LogChanges

-----------------------------------------------------------------------------
(* What is printed when main returns.                                      *)

\* The report shows the first conflicts of every pair of lines, by address.
Printed == \A r \in FirstConflicts : \E e \in shown : e.conflict = r

\* While main ends nobody else is in a call, and nothing happens after the report.
Ending ==
  /\ \A th \in Threads : call[th].op = "report" => phase = "ending" /\ th = Main
  /\ phase = "ending"   => \A th \in Threads \ {Main} : IsIdle(th)
  /\ phase = "reported" => guardLock = Nobody /\ \A th \in Threads : IsIdle(th)
  /\ \A th \in Threads : call[th].op = "report" /\ call[th].pc = "unlock" => Printed
  /\ phase = "reported" => Printed

FiniteReport == IsFiniteSet(conflictTable) /\ IsFiniteSet(shown)

ShownInv == /\ RInv /\ HistoryKept /\ RacesKnown /\ AddressesRight
            /\ FiniteReport /\ Ending

\* What is printed depends on the table alone.
LEMMA PrintedStays ==
  ASSUME UNCHANGED conflictTable, UNCHANGED shown
  PROVE  Printed <=> Printed'
BY DEF Printed, FirstConflicts, Before

\* The table grows by one conflict at a time, and the report is a part of it.
LEMMA FiniteReportStep ==
  ASSUME RInv, FiniteReport, [Next]_vars
  PROVE  FiniteReport'
<1>1. IsFiniteSet(conflictTable')
  <2>1. CASE UNCHANGED conflictTable
    BY <2>1 DEF FiniteReport
  <2>2. ASSUME NEW th \in Threads, Compare(th)
        PROVE  IsFiniteSet(conflictTable')
    <3>1. \E new : conflictTable' \in { conflictTable, conflictTable \cup {new} }
      BY <2>2 DEF Compare
    <3> QED
      BY <3>1, FS_AddElement DEF FiniteReport
  <2> QED
    BY <2>1, <2>2, KeptChanges
<1>2. IsFiniteSet(shown')
  <2>1. CASE UNCHANGED shown
    BY <2>1 DEF FiniteReport
  <2>2. ASSUME NEW th \in Threads, reportConflicts(th), ~UNCHANGED shown
        PROVE  IsFiniteSet(shown')
    <3> DEFINE E(r) == [conflict |-> r, name1 |-> functions[r.action1.func],
                        name2 |-> functions[r.action2.func]]
               f    == [r \in FirstConflicts |-> E(r)]
    <3>1. shown' = { E(r) : r \in FirstConflicts }
      BY <2>2 DEF reportConflicts
    <3>2. IsFiniteSet(FirstConflicts)
      <4>1. FirstConflicts \in SUBSET conflictTable
        BY DEF FirstConflicts
      <4> QED
        BY <4>1, FS_Subset DEF FiniteReport
    <3> HIDE DEF E
    <3>3. f \in Surjection(FirstConflicts, shown')
      BY <3>1 DEF Surjection
    <3> QED
      BY <3>2, <3>3, FS_Surjection
  <2>3. UNCHANGED shown \/ \E th \in Threads : reportConflicts(th)
    <3>1. CASE ProgramStep
      BY <3>1 DEF ProgramStep, Finalize, TaskReady, TaskOver, TaskBeginLog,
                  saveChildHBs, ReadOrWrite, Enter
    <3>2. CASE \E th \in Threads : Unlock(th)
      BY <3>2 DEF Unlock
    <3>3. CASE \E th \in Threads : Inside(th)
      BY <3>3 DEF Inside, LockRegistry, FindFunction, AddFunction, UnlockRegistry, Lock,
                  onTaskCreate, saveHappensBeforeEdge, detectRaceOnMem, Compare, Save,
                  Local
    <3>4. CASE UNCHANGED vars
      BY <3>4 DEF vars
    <3> QED
      BY <3>1, <3>2, <3>3, <3>4, StepKinds
  <2> QED
    BY <2>1, <2>2, <2>3
<1> QED
  BY <1>1, <1>2 DEF FiniteReport

\* The program does nothing while main ends, and main ends when nobody is in a call.
LEMMA EndingProgram ==
  ASSUME RInv, Ending, ProgramStep
  PROVE  Ending'
<1>1. phase = "run" /\ UNCHANGED <<conflictTable, shown>>
  BY DEF ProgramStep, Finalize, TaskReady, TaskOver, TaskBeginLog, saveChildHBs,
         ReadOrWrite, Enter, checkerVars
<1>2. \A th \in Threads : call[th].op # "report"
  BY <1>1 DEF Ending
<1>3. call \in [Threads -> AnyCall]
  BY DEF RInv, IInv, Typed
<1>4. CASE Finalize
  <2>1. /\ phase' = "ending" /\ \A th \in Threads : IsIdle(th)
        /\ call' = [call EXCEPT ![Main] = [pc |-> "lock", op |-> "report"]]
    BY <1>4 DEF Finalize
  <2>2. \A th \in Threads \ {Main} : call'[th] = call[th]
    BY <1>3, <2>1
  <2>3. call'[Main] = [pc |-> "lock", op |-> "report"]
    BY <1>3, <2>1
  <2> QED
    BY <1>2, <2>1, <2>2, <2>3 DEF Ending, IsIdle
<1>5. CASE UNCHANGED call /\ phase' = phase
  BY <1>1, <1>2, <1>5 DEF Ending, IsIdle
<1>6. ASSUME NEW th \in Threads, NEW c, Enter(th, c), c.op # "report"
      PROVE  Ending'
  <2>1. phase' = phase /\ call' = [call EXCEPT ![th] = c]
    BY <1>6 DEF Enter
  <2>2. \A o \in Threads : call'[o].op # "report"
    BY <1>2, <1>3, <1>6, <2>1
  <2> QED
    BY <1>1, <2>1, <2>2 DEF Ending
<1>7. \/ Finalize \/ (UNCHANGED call /\ phase' = phase)
      \/ \E th \in Threads : \E c : Enter(th, c) /\ c.op # "report"
  <2>1. ASSUME NEW th \in Threads, TaskBeginLog(th)
        PROVE  \E c : Enter(th, c) /\ c.op # "report"
    BY <2>1 DEF TaskBeginLog
  <2>2. ASSUME NEW th \in Threads, NEW t \in TaskIDs, NEW P \in SUBSET TaskIDs,
               saveChildHBs(th, t, P)
        PROVE  \E c : Enter(th, c) /\ c.op # "report"
    BY <2>2 DEF saveChildHBs
  <2>3. ASSUME NEW th \in Threads, NEW t \in TaskIDs, NEW s \in Code[t],
               ReadOrWrite(th, t, s)
        PROVE  \E c : Enter(th, c) /\ c.op # "report"
    BY <2>3 DEF ReadOrWrite, AccessCall
  <2> QED
    BY <2>1, <2>2, <2>3 DEF ProgramStep, TaskReady, TaskOver
<1> QED
  BY <1>4, <1>5, <1>6, <1>7

\* Inside the lock, main prints what there is; others are not there while it ends.
LEMMA EndingInside ==
  ASSUME RInv, RInv', Ending, NEW th \in Threads, Inside(th)
  PROVE  Ending'
<1>1. /\ call[th] \in AnyCall /\ ~IsIdle(th)
      /\ \E c : call' = [call EXCEPT ![th] = c] /\ c.op = call[th].op
  <2>1. call[th] \in AnyCall /\ call \in [Threads -> AnyCall]
    BY DEF RInv, IInv, Typed
  <2>2. ~IsIdle(th)
    BY DEF Inside, LockRegistry, FindFunction, AddFunction, UnlockRegistry, Lock,
           onTaskCreate, saveHappensBeforeEdge, reportConflicts, detectRaceOnMem, Compare,
           Save, IsIdle
  <2>3. \E c : call' = [call EXCEPT ![th] = c] /\ c.op = call[th].op
    <3>1. CASE LockRegistry(th) \/ Lock(th) \/ onTaskCreate(th) \/ reportConflicts(th)
      BY <2>1, <3>1 DEF LockRegistry, Lock, onTaskCreate, reportConflicts, AnyCall,
         IdleCall, BeginCall, OrderCall, MemoryCall, ReportCall
    <3>2. CASE FindFunction(th) \/ AddFunction(th) \/ UnlockRegistry(th)
      BY <2>1, <3>2 DEF FindFunction, AddFunction, UnlockRegistry, AnyCall,
         IdleCall, BeginCall, OrderCall, MemoryCall, ReportCall
    <3>3. CASE detectRaceOnMem(th) \/ Compare(th) \/ Save(th)
      BY <2>1, <3>3 DEF detectRaceOnMem, Compare, Save, AnyCall,
         IdleCall, BeginCall, OrderCall, MemoryCall, ReportCall
    <3>4. CASE saveHappensBeforeEdge(th)
      <4>1. PICK p \in call[th].uncles :
              call' = [call EXCEPT ![th].uncles = @ \ {p},
                                   ![th].pc = IF call[th].uncles = {p}
                                                THEN "unlock" ELSE "order"]
        BY <3>4 DEF saveHappensBeforeEdge
      <4> DEFINE d == [call[th] EXCEPT !.uncles = @ \ {p},
                                       !.pc = IF call[th].uncles = {p}
                                                THEN "unlock" ELSE "order"]
      <4>2. call' = [call EXCEPT ![th] = d]
        BY <2>1, <4>1
      <4>3. d.op = call[th].op
        BY <2>1 DEF AnyCall, IdleCall, BeginCall, OrderCall, MemoryCall, ReportCall
      <4> QED
        BY <4>2, <4>3
    <3> QED
      BY <3>1, <3>2, <3>3, <3>4 DEF Inside
  <2> QED
    BY <2>1, <2>2, <2>3
<1>2. /\ \A o \in Threads \ {th} : call'[o] = call[o]
      /\ call'[th].op = call[th].op
  BY <1>1 DEF RInv, IInv, Typed
<1>3. phase' = phase
  <2>1. phase' # "aborted"
    BY DEF RInv, IInv, NeverAborts
  <2> QED
    BY <2>1 DEF Inside, LockRegistry, FindFunction, AddFunction, UnlockRegistry, Lock,
           onTaskCreate, saveHappensBeforeEdge, reportConflicts, detectRaceOnMem, Compare,
           Save, Local
<1>4. phase # "reported"
  BY <1>1 DEF Ending
<1>5. /\ \A o \in Threads : call'[o].op = "report" => phase' = "ending" /\ o = Main
      /\ phase' = "ending" => \A o \in Threads \ {Main} : call'[o].pc = "idle"
  BY <1>1, <1>2, <1>3 DEF Ending, IsIdle
<1>6. ASSUME NEW o \in Threads, call'[o].op = "report", call'[o].pc = "unlock"
      PROVE  Printed'
  <2>1. o = th
    <3>1. phase = "ending" /\ o = Main
      BY <1>3, <1>5, <1>6
    <3> QED
      BY <1>1, <3>1 DEF Ending
  <2>2. call[th] \in ReportCall
    BY <1>2, <1>6, <2>1, ShapeOfOp DEF RInv
  <2>3. Lock(th) \/ reportConflicts(th)
    BY <2>2 DEF Inside, LockRegistry, FindFunction, AddFunction, UnlockRegistry,
       onTaskCreate, saveHappensBeforeEdge, detectRaceOnMem, Compare, Save, ReportCall
  <2>4. ~Lock(th)
    BY <1>6, <2>1, <2>2 DEF Lock, ReportCall, RInv, IInv, Typed
  <2>5. reportConflicts(th) /\ phase' # "aborted"
    BY <2>3, <2>4 DEF RInv, IInv, NeverAborts
  <2>6. shown' = { [conflict |-> r, name1 |-> functions[r.action1.func],
                    name2 |-> functions[r.action2.func]] : r \in FirstConflicts }
        /\ conflictTable' = conflictTable
    BY <2>5 DEF reportConflicts, checkerVars
  <2>7. FirstConflicts' = FirstConflicts
    BY <2>6 DEF FirstConflicts, Before
  <2>8. ASSUME NEW r \in FirstConflicts
        PROVE  \E e \in shown' : e.conflict = r
    <3>1. [conflict |-> r, name1 |-> functions[r.action1.func],
           name2 |-> functions[r.action2.func]] \in shown'
      BY <2>6
    <3> QED
      BY <3>1
  <2> QED
    BY <2>7, <2>8 DEF Printed
<1> QED
  BY <1>3, <1>4, <1>5, <1>6 DEF Ending, IsIdle

\* With the end of its call the report is out.
LEMMA EndingUnlock ==
  ASSUME RInv, Ending, NEW th \in Threads, Unlock(th)
  PROVE  Ending'
<1>1. /\ call[th].pc = "unlock"
      /\ \A o \in Threads : call'[o] = IF o = th THEN Idle ELSE call[o]
      /\ UNCHANGED <<conflictTable, shown>>
      /\ phase' = IF call[th].op = "report" THEN "reported" ELSE phase
      /\ guardLock' = Nobody
  BY Unlocked DEF Unlock
<1>2. Printed <=> Printed'
  BY <1>1, PrintedStays
<1>3. phase # "reported"
  BY <1>1 DEF Ending, IsIdle
<1>4. CASE call[th].op = "report"
  <2>1. phase = "ending" /\ th = Main /\ Printed
    BY <1>1, <1>4 DEF Ending
  <2>2. \A o \in Threads : call'[o].pc = "idle" /\ call'[o].op # "report"
    BY <1>1, <2>1, ShapeOfOp DEF Ending, IsIdle, Idle, RInv
  <2> QED
    BY <1>1, <1>2, <1>4, <2>1, <2>2 DEF Ending, IsIdle
<1>5. CASE call[th].op # "report"
  <2>1. /\ phase' = phase
        /\ \A o \in Threads : call'[o].op = "report" => call'[o] = call[o]
        /\ \A o \in Threads : call[o].pc = "idle" => call'[o].pc = "idle"
    BY <1>1, <1>5 DEF Idle
  <2> QED
    BY <1>2, <1>3, <2>1 DEF Ending, IsIdle
<1> QED
  BY <1>4, <1>5

\* Every step preserves the invariant.
LEMMA NextShownInv == ShownInv /\ [Next]_vars => ShownInv'
<1> SUFFICES ASSUME ShownInv, [Next]_vars
             PROVE  ShownInv'
  OBVIOUS
<1>1. RInv' /\ RInv
  BY NextRInv DEF ShownInv
<1>2. HistoryKept' /\ RacesKnown' /\ AddressesRight' /\ FiniteReport'
  BY RacesKnownStep, FiniteReportStep DEF ShownInv
<1>3. Ending'
  <2>1. CASE UNCHANGED vars
    BY <2>1, PrintedStays DEF vars, checkerVars, ShownInv, Ending, IsIdle
  <2>2. CASE Next
    BY <1>1, <2>2, StepKinds, EndingProgram, EndingInside, EndingUnlock DEF ShownInv
  <2> QED
    BY <2>1, <2>2
<1> QED
  BY <1>1, <1>2, <1>3 DEF ShownInv

\* It holds at first.
LEMMA InitShownInv == Init => ShownInv
<1> SUFFICES ASSUME Init
             PROVE  ShownInv
  OBVIOUS
<1>1. RInv
  BY InitRInv
<1>2. \A x \in Addresses : /\ accesses[x] = << >>
                           /\ committed.writes[x] = << >>
  <2>1. \A x \in Addresses : writes[x] = << >>
    BY DEF Init
  <2>2. BareSeq(<< >>) = << >>
    BY DEF BareSeq
  <2> QED
    BY <2>1, <2>2 DEF Init, CheckerState
<1>3. HistoryKept /\ RacesKnown /\ AddressesRight
  <2>1. EndOf(<< >>, << >>)
    BY DEF EndOf
  <2>2. \A x \in Addresses : DOMAIN accesses[x] = {}
    BY <1>2
  <2> QED
    BY <1>2, <2>1, <2>2 DEF HistoryKept, RacesKnown, AddressesRight
<1>4. FiniteReport
  BY FS_EmptySet DEF Init, FiniteReport
<1>5. Ending
  BY DEF Init, Ending, Idle, IsIdle
<1> QED
  BY <1>1, <1>3, <1>4, <1>5 DEF ShownInv

\* A conflict is among the first of its lines, or there are as many others before
\* it as are shown, and those are shown: the ones before the first that is not.
LEMMA ShownOrCrowded ==
  ASSUME RInv, FiniteReport, Printed, NEW r \in conflictTable
  PROVE  \/ \E e \in ShownAt(r.lines) : e.conflict = r
         \/ Cardinality(ShownAt(r.lines)) >= MaxShown
<1>1. \A q \in conflictTable : q.addr \in Nat
  <2>1. \A q \in conflictTable : q.addr \in Addresses
    BY DEF RInv, IInv, Printable, Conflicts, Detector!Report, Kept
  <2> QED
    BY <2>1, AddressesNat
<1>2. \A q \in conflictTable : Cardinality(Before(q)) \in Nat /\ IsFiniteSet(Before(q))
  <2> SUFFICES ASSUME NEW q \in conflictTable
               PROVE  Cardinality(Before(q)) \in Nat /\ IsFiniteSet(Before(q))
    OBVIOUS
  <2>1. Before(q) \in SUBSET conflictTable
    BY DEF Before
  <2>2. IsFiniteSet(Before(q))
    BY <2>1, FS_Subset DEF FiniteReport
  <2> QED
    BY <2>2, FS_CardinalityType
<1>3. CASE r \in FirstConflicts
  BY <1>3 DEF Printed, ShownAt
<1>4. CASE r \notin FirstConflicts
  <2> DEFINE Late == { q \in conflictTable : q.lines = r.lines /\ q \notin FirstConflicts }
             T    == { q.addr : q \in Late }
  <2>1. T \in SUBSET Nat /\ T # {}
    BY <1>1, <1>4
  <2>2. PICK a \in T : \A b \in T : a <= b
    BY <2>1, LeastNat
  <2>3. PICK m \in Late : m.addr = a
    OBVIOUS
  <2>4. ASSUME NEW q \in Before(m)
        PROVE  q \in FirstConflicts /\ q.lines = r.lines
    <3>1. q \in conflictTable /\ q.lines = r.lines /\ q.addr < m.addr
      BY <2>3 DEF Before
    <3>2. q \notin Late
      <4> SUFFICES ASSUME q \in Late
                   PROVE  FALSE
        OBVIOUS
      <4>1. a <= q.addr
        BY <2>2
      <4> QED
        BY <1>1, <2>3, <3>1, <4>1
    <3> QED
      BY <3>1, <3>2
  <2>5. Cardinality(Before(m)) >= MaxShown
    BY <1>2, <2>3 DEF FirstConflicts
  <2> DEFINE here == ShownAt(r.lines)
             f    == [q \in Before(m) |-> CHOOSE e \in here : e.conflict = q]
  <2>6. ASSUME NEW q \in Before(m)
        PROVE  f[q] \in here /\ f[q].conflict = q
    <3>1. \E e \in here : e.conflict = q
      BY <2>4 DEF Printed, ShownAt
    <3> QED
      BY <3>1
  <2> HIDE DEF f
  <2>7. f \in Injection(Before(m), here)
    <3>1. f \in [Before(m) -> here]
      <4>1. f = [q \in Before(m) |-> CHOOSE e \in here : e.conflict = q]
        BY DEF f
      <4> QED
        BY <2>6, <4>1
    <3>2. \A p, q \in Before(m) : f[p] = f[q] => p = q
      BY <2>6
    <3> QED
      BY <3>1, <3>2 DEF Injection, IsInjective
  <2>8. IsFiniteSet(here)
    <3>1. here \in SUBSET shown
      BY DEF ShownAt
    <3> QED
      BY <3>1, FS_Subset DEF FiniteReport
  <2>9. Cardinality(Before(m)) <= Cardinality(here)
    BY <2>7, <2>8, FS_Injection
  <2>10. Cardinality(here) \in Nat /\ Cardinality(Before(m)) \in Nat
    BY <1>2, <2>3, <2>8, FS_CardinalityType
  <2> QED
    BY <2>5, <2>9, <2>10
<1> QED
  BY <1>3, <1>4

\* The invariant says what the property says.
LEMMA ShownInvSuffices == ShownInv => RacesShown
<1> SUFFICES ASSUME ShownInv, phase = "reported",
                    NEW x \in Addresses, NEW i \in DOMAIN accesses[x], NEW j \in DOMAIN accesses[x],
                    i < j, j - i <= HistoryBound,
                    Checker!Race(accesses[x][i], accesses[x][j]),
                    NEW here, here = ShownAt(Checker!LinePair(accesses[x][i].line,
                                                              accesses[x][j].line))
             PROVE  \/ \E e \in here : e.conflict.addr = x
                    \/ Cardinality(here) >= MaxShown
  BY DEF RacesShown
<1>1. PICK s \in committed.conflictTable :
        s.addr = x /\ s.lines = Checker!LinePair(accesses[x][i].line, accesses[x][j].line)
  BY DEF ShownInv, RacesKnown, KnownRace
<1>2. guardLock = Nobody
  BY DEF ShownInv, Ending
<1>3. BareTable = committed.conflictTable
  BY <1>2 DEF ShownInv, RInv, Progress, SameLog
<1>4. PICK r \in conflictTable : r.addr = x /\ r.lines = s.lines
  BY <1>1, <1>3 DEF BareTable, BareReports, BareReport
<1>5. \/ \E e \in here : e.conflict = r
      \/ Cardinality(here) >= MaxShown
  BY <1>1, <1>4, ShownOrCrowded DEF ShownInv, Ending
<1> QED
  BY <1>4, <1>5

\* Whatever the threads do, the report shows every race between accesses that are
\* not too far apart, or has shown as many of the same lines as it shows of any
\* (checker.cc:300-330).
THEOREM RacesAreShown == Spec => []RacesShown
<1>1. Init => ShownInv
  BY InitShownInv
<1>2. ShownInv /\ [Next]_vars => ShownInv'
  BY NextShownInv
<1>3. ShownInv => RacesShown
  BY ShownInvSuffices
<1> QED
  BY <1>1, <1>2, <1>3, PTL DEF Spec
=============================================================================
