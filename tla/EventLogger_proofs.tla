------------------------- MODULE EventLogger_proofs -------------------------
(***************************************************************************)
(* Proofs about the logger, for any number of threads, tasks, functions    *)
(* and accesses: guardLock excludes, names and IDs of functions correspond *)
(* one to one, and no assertion, exit or table lookup ends the program.    *)
(* Then the refinement: in spite of calls that change the checker in many  *)
(* steps, threads see every call happen at once, when it gives guardLock   *)
(* back, as the specification of the checker has it.                       *)
(***************************************************************************)
EXTENDS EventLogger, SequenceTheorems, FiniteSetTheorems, WellFoundedInduction, TLAPS

USE LoggerAssumption

-----------------------------------------------------------------------------
(* The inductive invariant.                                                *)

\* What a call is, at each of its steps.
IdleCall     == [pc : {"idle"}, op : {"none"}]
BeginCall    == [pc : {"lock", "begin", "unlock"}, op : {"begin"}, task : TaskIDs]
OrderCall    == [pc : {"lock", "order", "unlock"}, op : {"order"}, task : TaskIDs,
                 uncles : SUBSET TaskIDs]
MemoryCall   == [pc : {"lockRegistry", "find", "add", "unlockRegistry", "lock",
                       "access", "compare", "unlock"},
                 op : {"access"}, task : TaskIDs, stmt : Statements,
                 funcID : Nat, next : Nat \ {0}]
ReportCall   == [pc : {"lock", "report", "unlock"}, op : {"report"}]
AnyCall      == IdleCall \cup BeginCall \cup OrderCall \cup MemoryCall \cup ReportCall

Typed ==
  /\ guardLock \in Threads \cup {Nobody}
  /\ call \in [Threads -> AnyCall]
  /\ funcNames \in [Names -> Nat]
  /\ funcIDSeed \in Nat \ {0}
  /\ known \in [TaskIDs -> [Names -> Nat]]

Exclusion == \A th \in Threads : Holds(th) => guardLock = th

\* The tables funcNames and functions are inverses of each other, and a task
\* remembers nothing else.
Registered ==
  /\ DOMAIN functions = 1 .. funcIDSeed - 1
  /\ \A i \in 1 .. funcIDSeed - 1 :
       functions[i] \in Names /\ funcNames[functions[i]] = i
  /\ \A n \in Names : funcNames[n] # 0 =>
       funcNames[n] \in 1 .. funcIDSeed - 1 /\ functions[funcNames[n]] = n
  /\ \A t \in TaskIDs : \A n \in Names : known[t][n] \in {0, funcNames[n]}

\* What a call knows of its function: while it adds the name nobody else did, and
\* once it is through it has the ID.
Resolved(c) ==
  /\ c.pc = "add" => funcNames[c.stmt.name] = 0
  /\ /\ c.op = "access"
     /\ c.pc \in {"unlockRegistry", "lock", "access", "compare"}
     => c.funcID # 0 /\ c.funcID = funcNames[c.stmt.name]

\* An access as the checker keeps it, with one of the first k function IDs.
Kept(k) == [task : TaskIDs, addr : Addresses, value : Nat, line : Nat,
            isWrite : BOOLEAN, func : 1 .. k]

\* A conflict between two of them.
Conflicts(k) == { Detector!Report(act, prev) : act, prev \in Kept(k) }

\* Whatever the checker keeps, and may print, has an ID that functions.at finds.
Printable ==
  /\ writes \in [Addresses -> Seq(Kept(funcIDSeed - 1))]
  /\ conflictTable \subseteq Conflicts(funcIDSeed - 1)

IInv ==
  /\ Typed /\ Exclusion /\ Registered
  /\ \A th \in Threads : Resolved(call[th])
  /\ Printable
  /\ NeverAborts

-----------------------------------------------------------------------------
(* Facts about the operators.                                              *)

\* The statements of the program have the fields of an access.
LEMMA StatementsTyped == Statements \subseteq Statement
BY DEF Statements

\* What constructMemoryAction makes of an access is kept as it is.
LEMMA ActionTyped ==
  ASSUME NEW t \in TaskIDs, NEW s \in Statements, NEW k \in Nat, NEW f \in 1 .. k
  PROVE  constructMemoryAction(t, s, f) \in Kept(k)
<1>1. AsRead[s.addr] \in Addresses
  BY DEF Addresses, AsRead, RealAddresses
<1> QED
  BY <1>1, StatementsTyped DEF constructMemoryAction, Kept, Statement

\* A history stays one when IDs are added.
LEMMA KeptGrows ==
  ASSUME NEW k \in Nat, NEW w \in Seq(Kept(k))
  PROVE  w \in Seq(Kept(k + 1))
<1>1. Kept(k) \subseteq Kept(k + 1)
  BY DEF Kept
<1> QED
  BY <1>1, SeqMonotonic

\* Making room in a history leaves a history.
LEMMA RoomTyped ==
  ASSUME NEW S, NEW w \in Seq(S)
  PROVE  Detector!MakeRoom(w) \in Seq(S)
<1>1. CASE Len(w) >= HistoryBound
  <2>1. w # << >>
    BY <1>1
  <2> QED
    BY <1>1, <2>1, HeadTailProperties DEF Detector!MakeRoom
<1>2. CASE ~(Len(w) >= HistoryBound)
  BY <1>2 DEF Detector!MakeRoom
<1> QED
  BY <1>1, <1>2

-----------------------------------------------------------------------------
(* Steps.                                                                  *)

\* A step that gives one thread another call and registers nothing, but for what a
\* task remembers: the thread holds the lock afterwards if the call says so, and it
\* took the lock from nobody.
LEMMA CallStep ==
  ASSUME IInv, NEW th \in Threads, NEW c \in AnyCall,
         call' = [call EXCEPT ![th] = c], Resolved(c),
         UNCHANGED <<funcNames, funcIDSeed, functions>>,
         \/ UNCHANGED known
         \/ \E t \in TaskIDs, n \in Names :
              known' = [known EXCEPT ![t][n] = funcNames[n]],
         guardLock' \in Threads \cup {Nobody},
         \A o \in Threads \ {th} : guardLock = o => guardLock' = o,
         Holds(th)' => guardLock' = th
  PROVE  /\ Typed' /\ Exclusion' /\ Registered'
         /\ \A o \in Threads : Resolved(call[o])'
<1>1. \A o \in Threads : call'[o] = IF o = th THEN c ELSE call[o]
  BY DEF IInv, Typed
<1>2. Typed'
  BY DEF IInv, Typed
<1>3. Exclusion'
  <2> SUFFICES ASSUME NEW o \in Threads, Holds(o)'
               PROVE  guardLock' = o
    BY DEF Exclusion
  <2>1. CASE o = th
    BY <2>1
  <2>2. CASE o # th
    BY <2>2, <1>1 DEF IInv, Exclusion, Holds
  <2> QED
    BY <2>1, <2>2
<1>4. \A t \in TaskIDs, n \in Names : known'[t][n] \in {0, funcNames[n]}
  <2>1. \A t \in TaskIDs, n \in Names : known[t][n] \in {0, funcNames[n]}
    BY DEF IInv, Registered
  <2>2. ASSUME NEW u \in TaskIDs, NEW m \in Names,
               known' = [known EXCEPT ![u][m] = funcNames[m]],
               NEW t \in TaskIDs, NEW n \in Names
        PROVE  known'[t][n] \in {0, funcNames[n]}
    <3>1. known[t] \in [Names -> Nat]
      BY DEF IInv, Typed
    <3>2. known'[t][n] = IF t = u /\ n = m THEN funcNames[m] ELSE known[t][n]
      BY <2>2, <3>1 DEF IInv, Typed
    <3> QED
      BY <2>1, <3>2
  <2> QED
    BY <2>1, <2>2
<1>5. Registered'
  BY <1>4 DEF IInv, Registered
<1>6. ASSUME NEW o \in Threads
      PROVE  Resolved(call[o])'
  BY <1>1 DEF IInv, Resolved
<1> QED
  BY <1>2, <1>3, <1>5, <1>6

\* A step that touches neither what the checker keeps nor the registry of IDs.
LEMMA PrintableStep ==
  ASSUME IInv, UNCHANGED <<funcIDSeed, writes, conflictTable>>
  PROVE  Printable'
BY DEF IInv, Printable

\* The step of a thread says which call it is in.
LEMMA Shape ==
  ASSUME IInv, NEW th \in Threads
  PROVE  /\ call[th].pc \in {"lockRegistry", "find", "add", "unlockRegistry",
                             "access", "compare"}
              => call[th] \in MemoryCall
         /\ call[th].pc = "begin"  => call[th] \in BeginCall
         /\ call[th].pc = "order"  => call[th] \in OrderCall
         /\ call[th].pc = "report" => call[th] \in ReportCall
         /\ call[th].pc \in {"lock", "unlock"} => call[th] \in AnyCall \ IdleCall
<1>1. call[th] \in AnyCall
  BY DEF IInv, Typed
<1> QED
  BY <1>1 DEF AnyCall, IdleCall, BeginCall, OrderCall, MemoryCall, ReportCall

\* The program calls the logger.
LEMMA EnterStep ==
  ASSUME IInv, NEW th \in Threads, NEW c \in AnyCall,
         c.pc \in {"lock", "lockRegistry"}, Resolved(c), Enter(th, c)
  PROVE  IInv'
<1>1. /\ call' = [call EXCEPT ![th] = c]
      /\ UNCHANGED <<funcNames, funcIDSeed, functions, known, guardLock>>
  BY DEF Enter, registryVars
<1>2. call'[th] = c
  BY <1>1 DEF IInv, Typed
<1>3. ~Holds(th)'
  BY <1>2 DEF Holds
<1>4. guardLock' \in Threads \cup {Nobody}
  BY <1>1 DEF IInv, Typed
<1>5. /\ Typed' /\ Exclusion' /\ Registered'
      /\ \A o \in Threads : Resolved(call[o])'
  BY <1>1, <1>3, <1>4, CallStep
<1>6. Printable'
  BY <1>1, PrintableStep DEF Enter, checkerVars
<1>7. NeverAborts'
  BY DEF Enter, IInv, NeverAborts
<1> QED
  BY <1>5, <1>6, <1>7 DEF IInv

\* A task is announced under the next ID.
LEMMA TaskBeginLogStep ==
  ASSUME IInv, NEW th \in Threads, TaskBeginLog(th)
  PROVE  IInv'
<1> DEFINE c == [pc |-> "lock", op |-> "begin", task |-> taskIDSeed]
<1>1. c \in AnyCall
  BY DEF TaskBeginLog, AnyCall, BeginCall
<1>2. Resolved(c)
  BY DEF Resolved
<1> QED
  BY <1>1, <1>2, EnterStep DEF TaskBeginLog

\* Predecessors of a task are announced.
LEMMA SaveChildHBsStep ==
  ASSUME IInv, NEW th \in Threads, NEW t \in TaskIDs, NEW P \in SUBSET TaskIDs,
         saveChildHBs(th, t, P)
  PROVE  IInv'
<1> DEFINE c == [pc |-> "lock", op |-> "order", task |-> t, uncles |-> P]
<1>1. c \in AnyCall
  BY DEF AnyCall, OrderCall
<1>2. Resolved(c)
  BY DEF Resolved
<1> QED
  BY <1>1, <1>2, EnterStep DEF saveChildHBs

\* An access goes straight to the lock only with the ID of its function: what the
\* task remembers is never the ID of another function.
LEMMA ReadOrWriteStep ==
  ASSUME IInv, NEW th \in Threads, NEW t \in TaskIDs, NEW s \in Code[t],
         ReadOrWrite(th, t, s)
  PROVE  IInv'
<1> DEFINE pc == IF known[t][s.name] = 0 THEN "lockRegistry" ELSE "lock"
           c  == AccessCall(t, s, pc)
<1>1. s \in Statements /\ s.name \in Names
  BY StatementsTyped DEF Statements, Statement
<1>2. known[t][s.name] \in Nat /\ known[t][s.name] \in {0, funcNames[s.name]}
  BY <1>1 DEF IInv, Typed, Registered
<1>3. c \in AnyCall
  BY <1>1, <1>2 DEF AccessCall, AnyCall, MemoryCall
<1>4. Resolved(c)
  BY <1>2 DEF Resolved, AccessCall
<1>5. c.pc \in {"lock", "lockRegistry"}
  BY DEF AccessCall
<1> QED
  BY <1>3, <1>4, <1>5, EnterStep DEF ReadOrWrite

\* Finalize takes the call that reports.
LEMMA FinalizeStep ==
  ASSUME IInv, Finalize
  PROVE  IInv'
<1> DEFINE c == [pc |-> "lock", op |-> "report"]
<1>1. c \in AnyCall
  BY DEF AnyCall, ReportCall
<1>2. Resolved(c)
  BY DEF Resolved
<1>3. /\ call' = [call EXCEPT ![Main] = c]
      /\ UNCHANGED <<funcNames, funcIDSeed, functions, known, guardLock>>
  BY DEF Finalize, registryVars
<1>4. ~Holds(Main)'
  BY <1>3 DEF IInv, Typed, Holds
<1>5. guardLock' \in Threads \cup {Nobody}
  BY <1>3 DEF IInv, Typed
<1>6. /\ Typed' /\ Exclusion' /\ Registered'
      /\ \A o \in Threads : Resolved(call[o])'
  BY <1>1, <1>2, <1>3, <1>4, <1>5, CallStep
<1>7. Printable'
  BY <1>3, PrintableStep DEF Finalize, checkerVars
<1>8. NeverAborts'
  BY DEF Finalize, NeverAborts
<1> QED
  BY <1>6, <1>7, <1>8 DEF IInv

\* A thread takes the lock: it was free, so no other thread is inside.
LEMMA TakeLock ==
  ASSUME IInv, NEW th \in Threads, NEW c \in AnyCall,
         call' = [call EXCEPT ![th] = c], Resolved(c),
         guardLock = Nobody, guardLock' = th,
         UNCHANGED <<registryVars, checkerVars, phase>>
  PROVE  IInv'
<1>1. UNCHANGED <<funcNames, funcIDSeed, functions, known, writes, conflictTable>>
  BY DEF registryVars, checkerVars
<1>2. \A o \in Threads \ {th} : guardLock = o => guardLock' = o
  OBVIOUS
<1>3. /\ Typed' /\ Exclusion' /\ Registered'
      /\ \A o \in Threads : Resolved(call[o])'
  BY <1>1, <1>2, CallStep
<1>4. Printable'
  BY <1>1, PrintableStep
<1>5. NeverAborts'
  BY DEF IInv, NeverAborts
<1> QED
  BY <1>3, <1>4, <1>5 DEF IInv

\* RegisterFunction takes the lock that was free.
LEMMA LockRegistryStep ==
  ASSUME IInv, NEW th \in Threads, LockRegistry(th)
  PROVE  IInv'
<1> DEFINE c == [call[th] EXCEPT !.pc = "find"]
<1>1. call[th] \in MemoryCall
  BY Shape DEF LockRegistry
<1>2. c \in AnyCall /\ c.pc = "find"
  BY <1>1 DEF MemoryCall, AnyCall
<1>3. Resolved(c)
  BY <1>2 DEF Resolved
<1>4. call' = [call EXCEPT ![th] = c]
  BY DEF LockRegistry
<1> QED
  BY <1>2, <1>3, <1>4, TakeLock DEF LockRegistry

\* A call of the checker begins under the lock that was free.
LEMMA LockStep ==
  ASSUME IInv, NEW th \in Threads, Lock(th)
  PROVE  IInv'
<1> DEFINE c == [call[th] EXCEPT !.pc = call[th].op]
<1>1. call[th] \in AnyCall \ IdleCall /\ call[th].pc = "lock"
  BY Shape DEF Lock
<1>2. c \in AnyCall
  BY <1>1 DEF AnyCall, IdleCall, BeginCall, OrderCall, MemoryCall, ReportCall
<1>3. Resolved(c)
  <2>1. CASE call[th] \in MemoryCall
    BY <1>1, <2>1 DEF IInv, Resolved, MemoryCall
  <2>2. CASE call[th] \in BeginCall \cup OrderCall \cup ReportCall
    BY <1>1, <2>2 DEF Resolved, BeginCall, OrderCall, ReportCall
  <2> QED
    BY <1>1, <2>1, <2>2 DEF AnyCall
<1>4. call' = [call EXCEPT ![th] = c]
  BY DEF Lock
<1> QED
  BY <1>2, <1>3, <1>4, TakeLock DEF Lock

\* A thread goes on inside the lock.
LEMMA UnderLock ==
  ASSUME IInv, NEW th \in Threads, NEW c \in AnyCall, Holds(th),
         call' = [call EXCEPT ![th] = c], Resolved(c),
         UNCHANGED <<registryVars, guardLock>>
  PROVE  /\ Typed' /\ Exclusion' /\ Registered'
         /\ \A o \in Threads : Resolved(call[o])'
<1>1. UNCHANGED <<funcNames, funcIDSeed, functions, known>>
  BY DEF registryVars
<1>2. guardLock' = th
  BY DEF IInv, Exclusion
<1>3. \A o \in Threads \ {th} : guardLock = o => guardLock' = o
  BY <1>2
<1> QED
  BY <1>1, <1>2, <1>3, CallStep

\* The table is searched under the lock: what it says of the name still holds when
\* the name is added.
LEMMA FindFunctionStep ==
  ASSUME IInv, NEW th \in Threads, FindFunction(th)
  PROVE  IInv'
<1> DEFINE id == funcNames[call[th].stmt.name]
           c  == [call[th] EXCEPT
                    !.pc = IF id = 0 THEN "add" ELSE "unlockRegistry", !.funcID = id]
<1>1. call[th] \in MemoryCall
  BY Shape DEF FindFunction
<1>2. id \in Nat
  BY <1>1, StatementsTyped DEF MemoryCall, Statement, IInv, Typed
<1>3. /\ c \in AnyCall /\ c.funcID = id /\ c.stmt = call[th].stmt
      /\ c.pc = IF id = 0 THEN "add" ELSE "unlockRegistry"
  BY <1>1, <1>2 DEF MemoryCall, AnyCall
<1>4. Resolved(c)
  BY <1>3 DEF Resolved
<1>5. call' = [call EXCEPT ![th] = c]
  BY DEF FindFunction
<1>6. Holds(th)
  BY DEF FindFunction, Holds
<1>7. /\ Typed' /\ Exclusion' /\ Registered'
      /\ \A o \in Threads : Resolved(call[o])'
  BY <1>3, <1>4, <1>5, <1>6, UnderLock DEF FindFunction
<1>8. Printable'
  BY PrintableStep DEF FindFunction, registryVars, checkerVars
<1>9. NeverAborts'
  BY DEF FindFunction, IInv, NeverAborts
<1> QED
  BY <1>7, <1>8, <1>9 DEF IInv

\* The steps of a call that neither register nor keep anything, or that may end the
\* program only through a check that the invariant answers.
LEMMA QuietStep ==
  ASSUME IInv, NEW th \in Threads, NEW c \in AnyCall, Holds(th),
         call' = [call EXCEPT ![th] = c], Resolved(c),
         UNCHANGED <<registryVars, guardLock, writes, conflictTable>>,
         phase' = phase
  PROVE  IInv'
<1>1. /\ Typed' /\ Exclusion' /\ Registered'
      /\ \A o \in Threads : Resolved(call[o])'
  BY UnderLock
<1>2. Printable'
  BY PrintableStep DEF registryVars
<1>3. NeverAborts'
  BY DEF IInv, NeverAborts
<1> QED
  BY <1>1, <1>2, <1>3 DEF IInv

\* A new task of the checker registers and keeps nothing.
LEMMA OnTaskCreateStep ==
  ASSUME IInv, NEW th \in Threads, onTaskCreate(th)
  PROVE  IInv'
<1> DEFINE c == [call[th] EXCEPT !.pc = "unlock"]
<1>1. call[th] \in BeginCall
  BY Shape DEF onTaskCreate
<1>2. c \in AnyCall /\ c.pc = "unlock"
  BY <1>1 DEF BeginCall, AnyCall
<1>3. Resolved(c)
  BY <1>2 DEF Resolved
<1>4. call' = [call EXCEPT ![th] = c] /\ Holds(th)
  BY DEF onTaskCreate, Holds
<1> QED
  BY <1>2, <1>3, <1>4, QuietStep DEF onTaskCreate

\* A new edge registers and keeps nothing.
LEMMA SaveHappensBeforeEdgeStep ==
  ASSUME IInv, NEW th \in Threads, saveHappensBeforeEdge(th)
  PROVE  IInv'
<1>1. PICK p \in call[th].uncles :
        call' = [call EXCEPT ![th].uncles = @ \ {p},
                             ![th].pc = IF call[th].uncles = {p}
                                          THEN "unlock" ELSE "order"]
  BY DEF saveHappensBeforeEdge
<1> DEFINE c == [call[th] EXCEPT !.uncles = @ \ {p},
                                 !.pc = IF call[th].uncles = {p}
                                          THEN "unlock" ELSE "order"]
<1>2. call[th] \in OrderCall
  BY Shape DEF saveHappensBeforeEdge
<1>3. c \in AnyCall /\ c.pc \in {"unlock", "order"} /\ c.op = "order"
  BY <1>2 DEF OrderCall, AnyCall
<1>4. Resolved(c)
  BY <1>3 DEF Resolved
<1>5. call' = [call EXCEPT ![th] = c] /\ Holds(th)
  BY <1>1 DEF saveHappensBeforeEdge, Holds
<1> QED
  BY <1>3, <1>4, <1>5, QuietStep DEF saveHappensBeforeEdge

\* An access has the ID of its function, so the test for ID 0 never fires.
LEMMA DetectRaceOnMemStep ==
  ASSUME IInv, NEW th \in Threads, detectRaceOnMem(th)
  PROVE  IInv'
<1> DEFINE c == [call[th] EXCEPT !.pc = "compare", !.next = 1]
<1>1. call[th] \in MemoryCall /\ call[th].pc = "access"
  BY Shape DEF detectRaceOnMem
<1>2. call[th].funcID # 0 /\ call[th].funcID = funcNames[call[th].stmt.name]
  BY <1>1 DEF IInv, Resolved, MemoryCall
<1>3. /\ c \in AnyCall /\ c.pc = "compare" /\ c.op = "access"
      /\ c.funcID = call[th].funcID /\ c.stmt = call[th].stmt
  <2>1. 1 \in Nat \ {0}
    OBVIOUS
  <2>2. c \in MemoryCall
    BY <1>1, <2>1 DEF MemoryCall
  <2>3. /\ c.pc = "compare" /\ c.op = "access"
        /\ c.funcID = call[th].funcID /\ c.stmt = call[th].stmt
    BY <1>1 DEF MemoryCall
  <2> QED
    BY <2>2, <2>3 DEF AnyCall
<1>4. Resolved(c)
  BY <1>2, <1>3 DEF Resolved
<1>5. call' = [call EXCEPT ![th] = c] /\ Holds(th)
  BY DEF detectRaceOnMem, Holds
<1>6. phase' = phase
  BY <1>2 DEF detectRaceOnMem
<1> QED
  BY <1>3, <1>4, <1>5, <1>6, QuietStep DEF detectRaceOnMem, checkerVars

\* An access in comparison is one the checker may keep.
LEMMA ActionKept ==
  ASSUME IInv, NEW th \in Threads, call[th].pc = "compare"
  PROVE  /\ call[th] \in MemoryCall
         /\ TheAction(th) \in Kept(funcIDSeed - 1)
<1>1. call[th] \in MemoryCall
  BY Shape
<1>2. call[th].funcID # 0 /\ call[th].funcID = funcNames[call[th].stmt.name]
  BY <1>1 DEF IInv, Resolved, MemoryCall
<1>3. call[th].stmt.name \in Names
  BY <1>1, StatementsTyped DEF MemoryCall, Statement
<1>4. call[th].funcID \in 1 .. funcIDSeed - 1
  BY <1>2, <1>3 DEF IInv, Registered
<1>5. funcIDSeed - 1 \in Nat
  BY DEF IInv, Typed
<1>6. call[th].task \in TaskIDs /\ call[th].stmt \in Statements
  BY <1>1 DEF MemoryCall
<1>7. TheAction(th) \in Kept(funcIDSeed - 1)
  BY <1>4, <1>5, <1>6, ActionTyped DEF TheAction
<1> QED
  BY <1>1, <1>7

\* A conflict is between two accesses whose functions have IDs.
LEMMA CompareStep ==
  ASSUME IInv, NEW th \in Threads, Compare(th)
  PROVE  IInv'
<1> DEFINE act == TheAction(th)
           i   == call[th].next
           old == writes[act.addr][i]
           new == Detector!Report(act, old)
           c   == [call[th] EXCEPT !.next = i + 1]
<1>1. /\ call[th] \in MemoryCall /\ call[th].pc = "compare"
      /\ act \in Kept(funcIDSeed - 1)
  BY ActionKept DEF Compare
<1>2. /\ c \in AnyCall /\ c.pc = "compare" /\ c.op = "access"
      /\ c.funcID = call[th].funcID /\ c.stmt = call[th].stmt
  BY <1>1 DEF MemoryCall, AnyCall
<1>3. Resolved(c)
  BY <1>1, <1>2 DEF IInv, Resolved, MemoryCall
<1>4. call' = [call EXCEPT ![th] = c] /\ Holds(th)
  BY DEF Compare, Holds
<1>5. /\ Typed' /\ Exclusion' /\ Registered'
      /\ \A o \in Threads : Resolved(call[o])'
  BY <1>2, <1>3, <1>4, UnderLock DEF Compare
<1>6. Printable'
  <2>1. writes[act.addr] \in Seq(Kept(funcIDSeed - 1))
    BY <1>1 DEF Kept, IInv, Printable
  <2>2. i \in 1 .. Len(writes[act.addr])
    BY <1>1, <2>1, LenProperties DEF Compare, MemoryCall
  <2>3. old \in Kept(funcIDSeed - 1)
    BY <2>1, <2>2, ElementOfSeq
  <2>4. new \in Conflicts(funcIDSeed - 1)
    BY <1>1, <2>3 DEF Conflicts
  <2>5. conflictTable' \subseteq conflictTable \cup {new}
    BY DEF Compare
  <2>6. UNCHANGED <<writes, funcIDSeed>>
    BY DEF Compare, registryVars
  <2> QED
    BY <2>4, <2>5, <2>6 DEF IInv, Printable
<1>7. NeverAborts'
  BY DEF Compare, IInv, NeverAborts
<1> QED
  BY <1>5, <1>6, <1>7 DEF IInv

\* The access that enters a history has the ID of its function.
LEMMA SaveStep ==
  ASSUME IInv, NEW th \in Threads, Save(th)
  PROVE  IInv'
<1> DEFINE act == TheAction(th)
           S   == Kept(funcIDSeed - 1)
           w   == Append(Detector!MakeRoom(writes[act.addr]), act)
           c   == [call[th] EXCEPT !.pc = "unlock"]
<1>1. /\ call[th] \in MemoryCall /\ call[th].pc = "compare"
      /\ act \in S
  BY ActionKept DEF Save
<1>2. c \in AnyCall /\ c.pc = "unlock"
  BY <1>1 DEF MemoryCall, AnyCall
<1>3. Resolved(c)
  BY <1>2 DEF Resolved
<1>4. call' = [call EXCEPT ![th] = c] /\ Holds(th)
  BY DEF Save, Holds
<1>5. /\ Typed' /\ Exclusion' /\ Registered'
      /\ \A o \in Threads : Resolved(call[o])'
  BY <1>2, <1>3, <1>4, UnderLock DEF Save
<1>6. Printable'
  <2>1. act.addr \in Addresses /\ writes \in [Addresses -> Seq(S)]
    BY <1>1 DEF Kept, IInv, Printable
  <2>2. Detector!MakeRoom(writes[act.addr]) \in Seq(S)
    BY <2>1, RoomTyped
  <2>3. w \in Seq(S)
    BY <1>1, <2>2, AppendProperties
  <2>4. writes' = [writes EXCEPT ![act.addr] = w]
    BY DEF Save
  <2>5. writes' \in [Addresses -> Seq(S)]
    BY <2>1, <2>3, <2>4
  <2>6. UNCHANGED <<conflictTable, funcIDSeed>>
    BY DEF Save, registryVars
  <2> QED
    BY <2>5, <2>6 DEF IInv, Printable
<1>7. NeverAborts'
  BY DEF Save, IInv, NeverAborts
<1> QED
  BY <1>5, <1>6, <1>7 DEF IInv

\* Every ID in the conflict table has a name, so functions.at finds it.
LEMMA ReportConflictsStep ==
  ASSUME IInv, NEW th \in Threads, reportConflicts(th)
  PROVE  IInv'
<1> DEFINE c == [call[th] EXCEPT !.pc = "unlock"]
<1>1. call[th] \in ReportCall
  BY Shape DEF reportConflicts
<1>2. c \in AnyCall /\ c.pc = "unlock"
  BY <1>1 DEF ReportCall, AnyCall
<1>3. Resolved(c)
  BY <1>2 DEF Resolved
<1>4. call' = [call EXCEPT ![th] = c] /\ Holds(th)
  BY DEF reportConflicts, Holds
<1>5. \A r \in FirstConflicts :
         {r.action1.func, r.action2.func} \subseteq DOMAIN functions
  BY DEF FirstConflicts, IInv, Printable, Registered, Conflicts, Detector!Report, Kept
<1>6. phase' = phase
  BY <1>5 DEF reportConflicts
<1> QED
  BY <1>2, <1>3, <1>4, <1>6, QuietStep DEF reportConflicts, checkerVars

\* A new name gets a new ID: nobody else adds the name, nor has it as an ID.
LEMMA AddFunctionStep ==
  ASSUME IInv, NEW th \in Threads, AddFunction(th)
  PROVE  IInv'
<1> DEFINE n == call[th].stmt.name
           k == funcIDSeed
           c == [call[th] EXCEPT !.pc = "unlockRegistry", !.funcID = k]
<1>1. call[th] \in MemoryCall /\ call[th].pc = "add"
  BY Shape DEF AddFunction
<1>2. n \in Names /\ funcNames[n] = 0 /\ k \in Nat \ {0}
  BY <1>1, StatementsTyped DEF MemoryCall, Statement, IInv, Typed, Resolved
<1>3. /\ c \in AnyCall /\ c.pc = "unlockRegistry" /\ c.funcID = k
      /\ c.stmt = call[th].stmt
  BY <1>1, <1>2 DEF MemoryCall, AnyCall
<1>4. /\ call' = [call EXCEPT ![th] = c]
      /\ funcIDSeed' = k + 1
      /\ funcNames' = [funcNames EXCEPT ![n] = k]
      /\ functions' = [i \in DOMAIN functions \cup {k} |->
                         IF i = k THEN n ELSE functions[i]]
      /\ UNCHANGED <<guardLock, known, writes, conflictTable>>
  BY DEF AddFunction, checkerVars
<1>5. \A o \in Threads : call'[o] = IF o = th THEN c ELSE call[o]
  BY <1>4 DEF IInv, Typed
<1>6. \A m \in Names : funcNames'[m] = IF m = n THEN k ELSE funcNames[m]
  BY <1>4 DEF IInv, Typed
<1>7. guardLock = th
  BY <1>1 DEF IInv, Exclusion, Holds
<1>8. Typed'
  BY <1>2, <1>3, <1>4 DEF IInv, Typed
<1>9. Exclusion'
  BY <1>4, <1>5, <1>7 DEF IInv, Exclusion, Holds
<1>10. Registered'
  <2>1. DOMAIN functions = 1 .. k - 1
    BY DEF IInv, Registered
  <2>2. DOMAIN functions' = 1 .. funcIDSeed' - 1
    BY <1>2, <1>4, <2>1
  <2>3. ASSUME NEW i \in 1 .. funcIDSeed' - 1
        PROVE  functions'[i] \in Names /\ funcNames'[functions'[i]] = i
    <3>1. CASE i = k
      BY <1>2, <1>4, <1>6, <2>1, <3>1
    <3>2. CASE i # k
      <4>1. i \in 1 .. k - 1 /\ functions'[i] = functions[i]
        BY <1>2, <1>4, <2>1, <3>2
      <4>2. functions[i] \in Names /\ funcNames[functions[i]] = i
        BY <4>1 DEF IInv, Registered
      <4>3. functions[i] # n
        BY <1>2, <4>1, <4>2
      <4> QED
        BY <1>4, <4>1, <4>2, <4>3 DEF IInv, Typed
    <3> QED
      BY <3>1, <3>2
  <2>4. ASSUME NEW m \in Names, funcNames'[m] # 0
        PROVE  /\ funcNames'[m] \in 1 .. funcIDSeed' - 1
               /\ functions'[funcNames'[m]] = m
    <3>1. CASE m = n
      BY <1>2, <1>4, <1>6, <2>1, <3>1
    <3>2. CASE m # n
      <4>1. funcNames'[m] = funcNames[m] /\ funcNames[m] # 0
        BY <1>6, <2>4, <3>2
      <4>2. funcNames[m] \in 1 .. k - 1 /\ functions[funcNames[m]] = m
        BY <4>1 DEF IInv, Registered
      <4> QED
        BY <1>2, <1>4, <2>1, <4>1, <4>2
    <3> QED
      BY <3>1, <3>2
  <2>5. ASSUME NEW t \in TaskIDs, NEW m \in Names
        PROVE  known'[t][m] \in {0, funcNames'[m]}
    BY <1>2, <1>4, <1>6 DEF IInv, Registered
  <2> QED
    BY <2>2, <2>3, <2>4, <2>5 DEF Registered
<1>11. ASSUME NEW o \in Threads
       PROVE  Resolved(call[o])'
  <2>1. CASE o = th
    BY <1>2, <1>3, <1>5, <1>6, <2>1 DEF Resolved
  <2>2. CASE o # th
    <3>1. call'[o] = call[o] /\ Resolved(call[o])
      BY <1>5, <2>2 DEF IInv
    <3>2. call[o].pc # "add"
      BY <1>7, <2>2 DEF IInv, Exclusion, Holds
    <3>3. ASSUME call[o].op = "access",
                 call[o].pc \in {"unlockRegistry", "lock", "access", "compare"}
          PROVE  /\ call[o].funcID # 0
                 /\ call[o].funcID = funcNames'[call[o].stmt.name]
      <4>1. call[o].funcID # 0 /\ call[o].funcID = funcNames[call[o].stmt.name]
        BY <3>1, <3>3 DEF Resolved
      <4>2. call[o] \in MemoryCall
        BY <3>3 DEF IInv, Typed, AnyCall, IdleCall, BeginCall, OrderCall, ReportCall
      <4>3. call[o].stmt.name \in Names
        BY <4>2, StatementsTyped DEF MemoryCall, Statement
      <4> QED
        BY <1>2, <1>6, <4>1, <4>3
    <3> QED
      BY <3>1, <3>2, <3>3 DEF Resolved
  <2> QED
    BY <2>1, <2>2
<1>12. Printable'
  <2>1. ASSUME NEW x \in Addresses
        PROVE  writes[x] \in Seq(Kept(funcIDSeed' - 1))
    <3>1. writes[x] \in Seq(Kept(k - 1)) /\ k - 1 \in Nat
      BY <1>2 DEF IInv, Printable
    <3>2. writes[x] \in Seq(Kept((k - 1) + 1))
      BY <3>1, KeptGrows
    <3> QED
      BY <1>2, <1>4, <3>2
  <2>2. writes' \in [Addresses -> Seq(Kept(funcIDSeed' - 1))]
    BY <1>4, <2>1 DEF IInv, Printable
  <2>3. Kept(k - 1) \subseteq Kept(funcIDSeed' - 1)
    BY <1>2, <1>4 DEF Kept
  <2>4. Conflicts(k - 1) \subseteq Conflicts(funcIDSeed' - 1)
    BY <2>3 DEF Conflicts
  <2> QED
    BY <1>4, <2>2, <2>4 DEF IInv, Printable
<1>13. NeverAborts'
  BY <1>2 DEF AddFunction, IInv, Registered, NeverAborts
<1> QED
  BY <1>8, <1>9, <1>10, <1>11, <1>12, <1>13 DEF IInv

\* The lock is released and the task remembers the ID that the table has.
LEMMA UnlockRegistryStep ==
  ASSUME IInv, NEW th \in Threads, UnlockRegistry(th)
  PROVE  IInv'
<1> DEFINE n == call[th].stmt.name
           t == call[th].task
           c == [call[th] EXCEPT !.pc = "lock"]
<1>1. /\ call[th] \in MemoryCall /\ call[th].pc = "unlockRegistry"
      /\ call[th].op = "access"
  BY Shape DEF UnlockRegistry, MemoryCall
<1>2. n \in Names /\ t \in TaskIDs
  BY <1>1, StatementsTyped DEF MemoryCall, Statement
<1>3. call[th].funcID # 0 /\ call[th].funcID = funcNames[n]
  BY <1>1 DEF IInv, Resolved
<1>4. /\ c \in AnyCall /\ c.pc = "lock" /\ c.op = "access"
      /\ c.funcID = call[th].funcID /\ c.stmt = call[th].stmt
  BY <1>1 DEF MemoryCall, AnyCall
<1>5. Resolved(c)
  BY <1>3, <1>4 DEF Resolved
<1>6. /\ call' = [call EXCEPT ![th] = c] /\ guardLock' = Nobody
      /\ UNCHANGED <<funcNames, funcIDSeed, functions>>
      /\ known' = [known EXCEPT ![t][n] = funcNames[n]]
  BY <1>3 DEF UnlockRegistry
<1>7. guardLock = th
  BY <1>1 DEF IInv, Exclusion, Holds
<1>8. ~Holds(th)'
  BY <1>4, <1>6 DEF IInv, Typed, Holds
<1>9. \A o \in Threads \ {th} : guardLock = o => guardLock' = o
  BY <1>7
<1>10. \E u \in TaskIDs, m \in Names :
         known' = [known EXCEPT ![u][m] = funcNames[m]]
  BY <1>2, <1>6
<1>11. /\ Typed' /\ Exclusion' /\ Registered'
       /\ \A o \in Threads : Resolved(call[o])'
  BY <1>4, <1>5, <1>6, <1>8, <1>9, <1>10, CallStep
<1>12. Printable'
  BY PrintableStep DEF UnlockRegistry, checkerVars
<1>13. NeverAborts'
  BY DEF UnlockRegistry, IInv, NeverAborts
<1> QED
  BY <1>11, <1>12, <1>13 DEF IInv

\* The call is over: its thread had the lock, so nobody else is inside.
LEMMA UnlockStep ==
  ASSUME IInv, NEW th \in Threads, Unlock(th)
  PROVE  IInv'
<1>1. /\ call' = [call EXCEPT ![th] = Idle] /\ guardLock' = Nobody
      /\ UNCHANGED <<funcNames, funcIDSeed, functions, known, writes, conflictTable>>
  BY DEF Unlock, registryVars, checkerVars
<1>2. Idle \in AnyCall /\ Idle.pc = "idle" /\ Idle.op = "none"
  BY DEF Idle, AnyCall, IdleCall
<1>3. Resolved(Idle)
  BY <1>2 DEF Resolved
<1>4. guardLock = th
  BY DEF Unlock, IInv, Exclusion, Holds
<1>5. ~Holds(th)'
  BY <1>1, <1>2 DEF IInv, Typed, Holds
<1>6. \A o \in Threads \ {th} : guardLock = o => guardLock' = o
  BY <1>4
<1>7. /\ Typed' /\ Exclusion' /\ Registered'
      /\ \A o \in Threads : Resolved(call[o])'
  BY <1>1, <1>2, <1>3, <1>5, <1>6, CallStep
<1>8. Printable'
  BY <1>1, PrintableStep
<1>9. NeverAborts'
  BY DEF Unlock, IInv, NeverAborts
<1> QED
  BY <1>7, <1>8, <1>9 DEF IInv

\* A step that changes nothing the invariant speaks of.
LEMMA UntouchedStep ==
  ASSUME IInv,
         UNCHANGED <<guardLock, registryVars, checkerVars, call, phase>>
  PROVE  IInv'
<1>1. /\ UNCHANGED <<guardLock, call, phase, funcNames, funcIDSeed, functions, known>>
      /\ UNCHANGED <<writes, conflictTable>>
  BY DEF registryVars, checkerVars
<1>2. Typed' /\ Registered'
  BY <1>1 DEF IInv, Typed, Registered
<1>3. Exclusion'
  BY <1>1 DEF IInv, Exclusion, Holds
<1>4. ASSUME NEW o \in Threads
      PROVE  Resolved(call[o])'
  BY <1>1 DEF IInv, Resolved
<1>5. Printable'
  BY <1>1, PrintableStep
<1>6. NeverAborts'
  BY <1>1 DEF IInv, NeverAborts
<1> QED
  BY <1>2, <1>3, <1>4, <1>5, <1>6 DEF IInv

-----------------------------------------------------------------------------
(* The theorems.                                                           *)

\* Before the first call nothing is registered, kept or held.
LEMMA InitIInv == Init => IInv
<1> SUFFICES ASSUME Init
             PROVE  IInv
  OBVIOUS
<1>1. Typed
  BY DEF Init, Typed, Idle, AnyCall, IdleCall
<1>2. Exclusion
  BY DEF Init, Exclusion, Holds, Idle
<1>3. Registered
  BY DEF Init, Registered
<1>4. ASSUME NEW th \in Threads
      PROVE  Resolved(call[th])
  BY DEF Init, Resolved, Idle
<1>5. Printable
  BY EmptySeq DEF Init, Printable
<1>6. NeverAborts
  BY DEF Init, NeverAborts
<1> QED
  BY <1>1, <1>2, <1>3, <1>4, <1>5, <1>6 DEF IInv

\* A step of a thread inside a call preserves the invariant.
LEMMA ThreadStep ==
  ASSUME IInv, NEW th \in Threads, Step(th)
  PROVE  IInv'
BY LockRegistryStep, FindFunctionStep, AddFunctionStep, UnlockRegistryStep,
   LockStep, UnlockStep, OnTaskCreateStep, SaveHappensBeforeEdgeStep,
   ReportConflictsStep, DetectRaceOnMemStep, CompareStep, SaveStep
   DEF Step

\* Every step of the logger and of the program preserves the invariant.
LEMMA NextIInv == IInv /\ [Next]_vars => IInv'
<1> SUFFICES ASSUME IInv, [Next]_vars
             PROVE  IInv'
  OBVIOUS
<1>1. CASE \E th \in Threads : TaskBeginLog(th)
  BY <1>1, TaskBeginLogStep
<1>2. CASE \E th \in Threads, t \in TaskIDs : \E P \in SUBSET TaskIDs :
             saveChildHBs(th, t, P)
  BY <1>2, SaveChildHBsStep
<1>3. CASE \E th \in Threads, t \in TaskIDs : \E s \in Code[t] : ReadOrWrite(th, t, s)
  BY <1>3, ReadOrWriteStep
<1>4. CASE \E th \in Threads : Step(th)
  BY <1>4, ThreadStep
<1>5. CASE Finalize
  BY <1>5, FinalizeStep
<1>6. CASE \E t \in TaskIDs : TaskReady(t) \/ TaskOver(t)
  BY <1>6, UntouchedStep DEF TaskReady, TaskOver
<1>7. CASE UNCHANGED vars
  BY <1>7, UntouchedStep DEF vars
<1> QED
  BY <1>1, <1>2, <1>3, <1>4, <1>5, <1>6, <1>7 DEF Next

\* The invariant holds throughout.
LEMMA Invariance == Spec => []IInv
<1>1. Init => IInv
  BY InitIInv
<1>2. IInv /\ [Next]_vars => IInv'
  BY NextIInv
<1> QED
  BY <1>1, <1>2, PTL DEF Spec

\* Function names and function IDs correspond one to one, in the logger, in the
\* checker and in what tasks remember, although a task looks a name up before it
\* takes guardLock (Logger.h:95-111,186-192); and whoever is inside the lock is alone.
THEOREM RegistryCorrect == Spec => []RegistryConsistent
<1>1. IInv => RegistryConsistent
  BY DEF IInv, Exclusion, Registered, RegistryConsistent
<1> QED
  BY <1>1, Invariance, PTL

\* The program never ends in the logger or the checker: the assertion that a
\* function ID is new (checker.cc:23) holds, no access comes with ID 0
\* (checker.cc:119), and the report finds every function (checker.cc:312).
THEOREM NoAbort == Spec => []NeverAborts
<1>1. IInv => NeverAborts
  BY DEF IInv
<1> QED
  BY <1>1, Invariance, PTL

-----------------------------------------------------------------------------
(* How far the call inside guardLock has come, as seen from `committed`.   *)

BareWrites == [x \in Addresses |-> BareSeq(writes[x])]
BareTable  == BareReports(conflictTable)

SameGraph == /\ nodes = committed.nodes /\ edges = committed.edges
             /\ bagged = committed.bagged /\ HB = committed.HB
SameLog   == BareWrites = committed.writes /\ BareTable = committed.conflictTable

\* The task is announced.
Begun(t) ==
  /\ nodes = committed.nodes \cup {t} /\ edges = committed.edges
  /\ bagged = committed.bagged \cup {t}
  /\ HB = IF Detector!inEdges(committed.edges, t) = {}
            THEN committed.HB
            ELSE [committed.HB EXCEPT
                    ![t] = Detector!InheritedHB(committed.edges, committed.HB, t)]

\* The edges from Q are there, and the bag is the one that all of Q gives.
Linked(Q, t) ==
  /\ nodes = committed.nodes \cup Q \cup {t}
  /\ edges = committed.edges \cup (Q \X {t})
  /\ bagged = committed.bagged \cup {t}
  /\ HB = [committed.HB EXCEPT
             ![t] = Detector!InheritedHB(committed.edges \cup (Q \X {t}),
                                         committed.HB, t)]

\* The first k accesses of the history have been compared with the new one.
Compared(b, k) ==
  BareTable = committed.conflictTable
                \cup Checker!NewReports(b, SubSeq(committed.writes[b.addr], 1, k))

\* The new access is in the history.
Saved(b) ==
  BareWrites = [committed.writes EXCEPT
                  ![b.addr] = Append(Checker!MakeRoom(committed.writes[b.addr]), b)]

ProgressOf(c) ==
  /\ c.pc \in {"find", "add", "unlockRegistry", "begin", "access", "report"}
       => SameGraph /\ SameLog
  /\ c.pc = "order" =>
       /\ SameLog
       /\ \/ SameGraph
          \/ \E Q \in SUBSET (committed.bagged \ creating) :
               Q # {} /\ Linked(Q, c.task)
  /\ c.pc = "compare" =>
       /\ SameGraph /\ BareWrites = committed.writes
       /\ c.next - 1 <= Len(committed.writes[BareAccess(c).addr])
       /\ Compared(BareAccess(c), c.next - 1)
  /\ c.pc = "unlock" =>
       /\ c.op = "begin"  => SameLog /\ Begun(c.task)
       /\ c.op = "order"  =>
            /\ SameLog
            /\ \E Q \in SUBSET (committed.bagged \ creating) :
                 Q # {} /\ Linked(Q, c.task)
       /\ c.op = "access" =>
            /\ SameGraph /\ Saved(BareAccess(c))
            /\ Compared(BareAccess(c), Len(committed.writes[BareAccess(c).addr]))
       /\ c.op = "report" => SameGraph /\ SameLog

\* Between calls `committed` is the checker; inside a call it lags behind.
Progress ==
  /\ guardLock = Nobody => SameGraph /\ SameLog
  /\ \A th \in Threads : Holds(th) => ProgressOf(call[th])

-----------------------------------------------------------------------------
(* What the program and the calls under way owe the checker.               *)

BareAction == Checker!Action

CommittedTyped ==
  /\ committed.bagged \subseteq TaskIDs
  /\ committed.HB \in [TaskIDs -> SUBSET TaskIDs]
  /\ committed.writes \in [Addresses -> Seq(BareAction)]
  /\ accesses \in [Addresses -> Seq(BareAction)]
  /\ taskIDSeed \in Nat

\* No edge comes from a task that is being set up, so a new edge into such a task
\* changes no bag but its own.
EdgesSettled ==
  \A p, t \in TaskIDs : <<p, t>> \in committed.edges =>
    p \in committed.bagged \ creating

\* IDs are drawn in order, and only the thread that drew one announces it.
IDsFresh ==
  /\ creating \subseteq committed.bagged
  /\ \A t \in committed.bagged : t < taskIDSeed
  /\ \A th \in Threads : call[th].op = "begin" =>
       call[th].task \notin committed.bagged /\ call[th].task < taskIDSeed

Working(c) == c.op \in {"begin", "order", "access"}

\* A task is worked for by one thread at a time.
OneThreadPerTask ==
  \A th, o \in Threads :
    Working(call[th]) /\ Working(call[o]) /\ call[th].task = call[o].task => th = o

\* A task has started only when those ordered before it were over.
StartedInOrder ==
  \A x \in Addresses : \A i \in DOMAIN accesses[x] :
    LET s == accesses[x][i].task
    IN  s \in committed.bagged \ creating /\ committed.HB[s] \subseteq done

\* What the guards of the program promised a call still holds.
Promised(c) ==
  /\ c.op = "order"  => /\ c.task \in creating
                        /\ c.uncles \subseteq committed.bagged \ creating
  /\ c.op = "access" => /\ c.task \in committed.bagged \ (creating \cup done)
                        /\ committed.HB[c.task] \subseteq done

RoomLeft ==
  \A x \in Addresses : Len(accesses[x]) + Cardinality(Pending(x)) <= MaxAccesses

Client ==
  /\ CommittedTyped /\ EdgesSettled /\ IDsFresh /\ OneThreadPerTask
  /\ StartedInOrder /\ RoomLeft
  /\ \A th \in Threads : Promised(call[th])

RInv == IInv /\ Client /\ Progress
-----------------------------------------------------------------------------
(* The program's promises.                                                 *)

\* An access of the program is one of the checker's.
LEMMA BareAccessTyped ==
  ASSUME NEW c, c.task \in TaskIDs, c.stmt \in Statements
  PROVE  BareAccess(c) \in BareAction
<1>1. AsRead[c.stmt.addr] \in Addresses
  BY DEF Addresses, AsRead, RealAddresses
<1>2. c.stmt.value \in Values /\ c.stmt.line \in Lines /\ c.stmt.isWrite \in BOOLEAN
  BY StatementsTyped DEF Values, Lines, Statement
<1> QED
  BY <1>1, <1>2 DEF BareAccess, Bare, constructMemoryAction, BareAction, Checker!Action

\* The operation of a call gives its shape.
LEMMA ShapeOfOp ==
  ASSUME IInv, NEW th \in Threads
  PROVE  /\ call[th].op = "begin"  => call[th] \in BeginCall
         /\ call[th].op = "order"  => call[th] \in OrderCall
         /\ call[th].op = "access" => call[th] \in MemoryCall
         /\ call[th].op = "report" => call[th] \in ReportCall
         /\ call[th].op = "none" <=> call[th].pc = "idle"
<1>1. call[th] \in AnyCall
  BY DEF IInv, Typed
<1> QED
  BY <1>1 DEF AnyCall, IdleCall, BeginCall, OrderCall, MemoryCall, ReportCall

\* The fields that the promises speak of.
SameErrand(c, d) ==
  /\ Working(c) \/ Working(d) => c.op = d.op
  /\ Working(c) => c.task = d.task
  /\ c.op = "order" => c.uncles \subseteq d.uncles
  /\ c.op = "access" => c.stmt = d.stmt

\* A thread that goes on with its call keeps all promises.
LEMMA GoesOn ==
  ASSUME RInv, NEW th \in Threads, NEW c,
         call' = [call EXCEPT ![th] = c], SameErrand(c, call[th]),
         UNCHANGED <<taskIDSeed, programVars, historyVars>>
  PROVE  Client'
<1>1. UNCHANGED <<taskIDSeed, creating, done, accesses, committed>>
  BY DEF programVars, historyVars
<1>2. \A o \in Threads : call'[o] = IF o = th THEN c ELSE call[o]
  BY DEF RInv, IInv, Typed
<1>3. \A o \in Threads : SameErrand(call'[o], call[o])
  BY <1>2 DEF SameErrand
<1>4. CommittedTyped' /\ EdgesSettled' /\ StartedInOrder'
  BY <1>1 DEF RInv, Client, CommittedTyped, EdgesSettled, StartedInOrder
<1>5. IDsFresh'
  BY <1>1, <1>3 DEF RInv, Client, IDsFresh, SameErrand, Working
<1>6. OneThreadPerTask'
  BY <1>3 DEF RInv, Client, OneThreadPerTask, SameErrand, Working
<1>7. \A x : Pending(x)' = Pending(x)
  BY <1>3 DEF Pending, SameErrand, Working
<1>8. RoomLeft'
  BY <1>1, <1>7 DEF RInv, Client, RoomLeft
<1>9. \A o \in Threads : Promised(call[o])'
  BY <1>1, <1>3 DEF RInv, Client, Promised, SameErrand, Working
<1> QED
  BY <1>4, <1>5, <1>6, <1>8, <1>9 DEF Client

\* A call begins: what it promises was true when it was made.
LEMMA CallBegins ==
  ASSUME RInv, NEW th \in Threads, NEW c \in AnyCall, Enter(th, c),
         UNCHANGED programVars,
         taskIDSeed' \in Nat, taskIDSeed <= taskIDSeed',
         Working(c), \A o \in Threads : Working(call[o]) => call[o].task # c.task,
         c.op = "begin" => c.task \notin committed.bagged /\ c.task < taskIDSeed',
         Promised(c),
         c.op = "access" => HasRoom(AsRead[c.stmt.addr])
  PROVE  Client'
<1>1. UNCHANGED <<creating, done, accesses, committed>>
  BY DEF programVars, historyVars, Enter
<1>2. \A o \in Threads : call'[o] = IF o = th THEN c ELSE call[o]
  BY DEF Enter, RInv, IInv, Typed
<1>3. CommittedTyped' /\ EdgesSettled' /\ StartedInOrder'
  BY <1>1 DEF RInv, Client, CommittedTyped, EdgesSettled, StartedInOrder
<1>4. IDsFresh'
  <2>1. \A t \in committed.bagged : t \in Nat /\ t < taskIDSeed
    BY DEF RInv, Client, CommittedTyped, IDsFresh
  <2>2. ASSUME NEW o \in Threads, call'[o].op = "begin"
        PROVE  call'[o].task \notin committed.bagged /\ call'[o].task < taskIDSeed'
    <3>1. CASE o = th
      BY <1>2, <2>2, <3>1
    <3>2. CASE o # th
      <4>1. /\ call'[o] = call[o] /\ call[o].op = "begin"
            /\ call[o].task \notin committed.bagged /\ call[o].task < taskIDSeed
        BY <1>2, <2>2, <3>2 DEF RInv, Client, IDsFresh
      <4>2. call[o].task \in Nat
        BY <4>1, ShapeOfOp DEF RInv, BeginCall
      <4> QED
        BY <4>1, <4>2 DEF RInv, Client, CommittedTyped
    <3> QED
      BY <3>1, <3>2
  <2> QED
    BY <1>1, <2>1, <2>2 DEF RInv, Client, CommittedTyped, IDsFresh
<1>5. OneThreadPerTask'
  BY <1>2 DEF RInv, Client, OneThreadPerTask
<1>6. \A o \in Threads : Promised(call[o])'
  BY <1>1, <1>2 DEF RInv, Client, Promised
<1>7. RoomLeft'
  <2> SUFFICES ASSUME NEW x \in Addresses
               PROVE  Len(accesses[x]) + Cardinality(Pending(x)') <= MaxAccesses
    BY <1>1 DEF RoomLeft
  <2>1. IsFiniteSet(Pending(x)) /\ th \notin Pending(x)
    <3>1. Pending(x) \in SUBSET Threads /\ IsFiniteSet(Threads)
      BY DEF Pending
    <3>2. th \notin Pending(x)
      BY ShapeOfOp DEF Pending, Enter, IsIdle, RInv
    <3>3. IsFiniteSet(Pending(x))
      BY ONLY <3>1, FS_Subset
    <3> QED
      BY <3>2, <3>3
  <2>2. Cardinality(Pending(x)) \in Nat
    BY <2>1, FS_CardinalityType
  <2>3. Len(accesses[x]) \in Nat
    BY DEF RInv, Client, CommittedTyped
  <2>4. Len(accesses[x]) + Cardinality(Pending(x)) <= MaxAccesses
    BY DEF RInv, Client, RoomLeft
  <2>5. CASE c.op = "access" /\ AsRead[c.stmt.addr] = x
    <3>1. Pending(x)' = Pending(x) \cup {th}
      BY <1>2, <2>5 DEF Pending
    <3>2. Cardinality(Pending(x)') = Cardinality(Pending(x)) + 1
      BY <2>1, <3>1, FS_AddElement
    <3>3. Len(accesses[x]) + Cardinality(Pending(x)) < MaxAccesses
      BY <2>5 DEF HasRoom
    <3> QED
      BY <2>2, <2>3, <3>2, <3>3
  <2>6. CASE ~(c.op = "access" /\ AsRead[c.stmt.addr] = x)
    <3>1. Pending(x)' = Pending(x)
      BY <1>2, <2>1, <2>6 DEF Pending
    <3> QED
      BY <2>4, <3>1
  <2> QED
    BY <2>5, <2>6
<1> QED
  BY <1>3, <1>4, <1>5, <1>6, <1>7 DEF Client

\* An announced task has an ID that no call works for yet.
LEMMA TaskBeginLogClient ==
  ASSUME RInv, NEW th \in Threads, TaskBeginLog(th)
  PROVE  Client'
<1> DEFINE c == [pc |-> "lock", op |-> "begin", task |-> taskIDSeed]
<1>1. c \in AnyCall
  BY DEF TaskBeginLog, AnyCall, BeginCall
<1>2. \A t \in committed.bagged : t \in Nat /\ t < taskIDSeed
  BY DEF RInv, Client, CommittedTyped, IDsFresh
<1>3. ASSUME NEW o \in Threads, Working(call[o])
      PROVE  call[o].task # taskIDSeed
  BY <1>2, <1>3 DEF RInv, Client, CommittedTyped, IDsFresh, Promised, Working
<1>4. taskIDSeed \in Nat /\ taskIDSeed' = taskIDSeed + 1
  BY DEF TaskBeginLog, RInv, Client, CommittedTyped
<1>5. c.task \notin committed.bagged
  BY <1>2, <1>4
<1>6. Enter(th, c) /\ UNCHANGED programVars
  BY DEF TaskBeginLog
<1> QED
  BY <1>1, <1>3, <1>4, <1>5, <1>6, CallBegins DEF Working, Promised

\* A task is ordered by the one thread that sets it up.
LEMMA SaveChildHBsClient ==
  ASSUME RInv, NEW th \in Threads, NEW t \in TaskIDs, NEW P \in SUBSET TaskIDs,
         saveChildHBs(th, t, P)
  PROVE  Client'
<1> DEFINE c == [pc |-> "lock", op |-> "order", task |-> t, uncles |-> P]
<1>1. c \in AnyCall
  BY DEF AnyCall, OrderCall
<1>2. \A o \in Threads : Working(call[o]) => call[o].task # t
  BY DEF saveChildHBs, Busy, Working
<1>3. taskIDSeed \in Nat /\ taskIDSeed' = taskIDSeed
  BY DEF saveChildHBs, RInv, Client, CommittedTyped
<1>4. Promised(c)
  BY DEF saveChildHBs, Promised
<1>5. Enter(th, c) /\ UNCHANGED programVars
  BY DEF saveChildHBs
<1> QED
  BY <1>1, <1>2, <1>3, <1>4, <1>5, CallBegins DEF Working

\* A task accesses memory while it runs.
LEMMA ReadOrWriteClient ==
  ASSUME RInv, NEW th \in Threads, NEW t \in TaskIDs, NEW s \in Code[t],
         ReadOrWrite(th, t, s)
  PROVE  Client'
<1> DEFINE pc == IF known[t][s.name] = 0 THEN "lockRegistry" ELSE "lock"
           c  == AccessCall(t, s, pc)
<1>1. s \in Statements /\ s.name \in Names
  BY StatementsTyped DEF Statements, Statement
<1>2. known[t][s.name] \in Nat
  BY <1>1 DEF RInv, IInv, Typed
<1>3. c \in AnyCall /\ c.task = t /\ c.stmt = s /\ c.op = "access"
  BY <1>1, <1>2 DEF AccessCall, AnyCall, MemoryCall
<1>4. \A o \in Threads : Working(call[o]) => call[o].task # t
  BY DEF ReadOrWrite, MayRun, Busy, Working
<1>5. taskIDSeed \in Nat /\ taskIDSeed' = taskIDSeed
  BY DEF ReadOrWrite, RInv, Client, CommittedTyped
<1>6. Promised(c)
  BY <1>3 DEF ReadOrWrite, MayRun, Promised
<1>7. Enter(th, c) /\ UNCHANGED programVars /\ HasRoom(AsRead[c.stmt.addr])
  BY <1>3 DEF ReadOrWrite
<1> QED
  BY <1>3, <1>4, <1>5, <1>6, <1>7, CallBegins DEF Working

\* The call that reports works for no task.
LEMMA FinalizeClient ==
  ASSUME RInv, Finalize
  PROVE  Client'
<1> DEFINE c == [pc |-> "lock", op |-> "report"]
<1>1. call[Main].op = "none"
  BY ShapeOfOp DEF Finalize, IsIdle, RInv
<1>2. SameErrand(c, call[Main])
  BY <1>1 DEF SameErrand, Working
<1>3. /\ call' = [call EXCEPT ![Main] = c]
      /\ UNCHANGED <<taskIDSeed, programVars, historyVars>>
  BY DEF Finalize
<1> QED
  BY <1>2, <1>3, GoesOn

\* A task becomes ready when no call works for it.
LEMMA TaskReadyClient ==
  ASSUME RInv, NEW t \in TaskIDs, TaskReady(t)
  PROVE  Client'
<1>1. /\ UNCHANGED <<call, taskIDSeed, done, accesses, committed>>
      /\ creating' = creating \ {t}
  BY DEF TaskReady, historyVars
<1>2. \A o \in Threads : Working(call[o]) => call[o].task # t
  BY DEF TaskReady, Busy, Working
<1>3. CommittedTyped' /\ EdgesSettled' /\ IDsFresh' /\ OneThreadPerTask' /\ StartedInOrder'
  BY <1>1 DEF RInv, Client, CommittedTyped, EdgesSettled, IDsFresh,
              OneThreadPerTask, StartedInOrder
<1>4. RoomLeft'
  BY <1>1 DEF RInv, Client, RoomLeft, Pending
<1>5. ASSUME NEW o \in Threads
      PROVE  Promised(call[o])'
  BY <1>1, <1>2 DEF RInv, Client, Promised, Working
<1> QED
  BY <1>3, <1>4, <1>5 DEF Client

\* A task is over when no call works for it.
LEMMA TaskOverClient ==
  ASSUME RInv, NEW t \in TaskIDs, TaskOver(t)
  PROVE  Client'
<1>1. /\ UNCHANGED <<call, taskIDSeed, creating, accesses, committed>>
      /\ done' = done \cup {t}
  BY DEF TaskOver, historyVars
<1>2. \A o \in Threads : Working(call[o]) => call[o].task # t
  BY DEF TaskOver, MayRun, Busy, Working
<1>3. CommittedTyped' /\ EdgesSettled' /\ IDsFresh' /\ OneThreadPerTask' /\ StartedInOrder'
  BY <1>1 DEF RInv, Client, CommittedTyped, EdgesSettled, IDsFresh,
              OneThreadPerTask, StartedInOrder
<1>4. RoomLeft'
  BY <1>1 DEF RInv, Client, RoomLeft, Pending
<1>5. ASSUME NEW o \in Threads
      PROVE  Promised(call[o])'
  BY <1>1, <1>2 DEF RInv, Client, Promised, Working
<1> QED
  BY <1>3, <1>4, <1>5 DEF Client

\* A step inside a call, before the lock is given back.
Inside(th) ==
  \/ LockRegistry(th) \/ FindFunction(th) \/ AddFunction(th) \/ UnlockRegistry(th)
  \/ Lock(th)
  \/ onTaskCreate(th) \/ saveHappensBeforeEdge(th) \/ reportConflicts(th)
  \/ detectRaceOnMem(th) \/ Compare(th) \/ Save(th)

\* Inside a call nothing changes for the program.
LEMMA InsideClient ==
  ASSUME RInv, NEW th \in Threads, Inside(th)
  PROVE  Client'
<1>1. UNCHANGED <<taskIDSeed, programVars, historyVars>>
  BY DEF Inside, LockRegistry, FindFunction, AddFunction, UnlockRegistry, Lock,
         onTaskCreate, saveHappensBeforeEdge, reportConflicts, detectRaceOnMem,
         Compare, Save, Local
<1>2. call[th] \in AnyCall
  BY DEF RInv, IInv, Typed
<1>3. call[th] \in MemoryCall =>
        \A pc, id, k :
          /\ SameErrand([call[th] EXCEPT !.pc = pc], call[th])
          /\ SameErrand([call[th] EXCEPT !.pc = pc, !.funcID = id], call[th])
          /\ SameErrand([call[th] EXCEPT !.pc = pc, !.next = k], call[th])
          /\ SameErrand([call[th] EXCEPT !.next = k], call[th])
  BY DEF MemoryCall, SameErrand, Working
<1>4. \A pc : SameErrand([call[th] EXCEPT !.pc = pc], call[th])
  BY <1>2 DEF AnyCall, IdleCall, BeginCall, OrderCall, MemoryCall, ReportCall,
              SameErrand, Working
<1>5. call[th] \in OrderCall =>
        \A pc, p : SameErrand([call[th] EXCEPT !.uncles = @ \ {p}, !.pc = pc], call[th])
  BY DEF OrderCall, SameErrand, Working
<1>6. CASE LockRegistry(th)
  <2> DEFINE c == [call[th] EXCEPT !.pc = "find"]
  <2>1. call' = [call EXCEPT ![th] = c] /\ SameErrand(c, call[th])
    BY <1>4, <1>6 DEF LockRegistry
  <2> HIDE DEF c
  <2> QED
    BY <1>1, <2>1, GoesOn
<1>7. CASE FindFunction(th)
  <2> DEFINE id == funcNames[call[th].stmt.name]
             pc == IF id = 0 THEN "add" ELSE "unlockRegistry"
             c  == [call[th] EXCEPT !.pc = pc, !.funcID = id]
  <2>1. call' = [call EXCEPT ![th] = c]
    BY <1>7 DEF FindFunction
  <2>2. call[th] \in MemoryCall
    BY <1>7, Shape DEF FindFunction, RInv
  <2> HIDE DEF id, pc
  <2>3. SameErrand(c, call[th])
    BY <1>3, <2>2
  <2> HIDE DEF c
  <2> QED
    BY <1>1, <2>1, <2>3, GoesOn
<1>8. CASE AddFunction(th)
  <2> DEFINE c == [call[th] EXCEPT !.pc = "unlockRegistry", !.funcID = funcIDSeed]
  <2>1. call[th] \in MemoryCall
    BY <1>8, Shape DEF AddFunction, RInv
  <2>2. call' = [call EXCEPT ![th] = c] /\ SameErrand(c, call[th])
    BY <1>3, <1>8, <2>1 DEF AddFunction
  <2> HIDE DEF c
  <2> QED
    BY <1>1, <2>2, GoesOn
<1>9. CASE UnlockRegistry(th)
  BY <1>1, <1>4, <1>9, GoesOn DEF UnlockRegistry
<1>10. CASE Lock(th)
  BY <1>1, <1>4, <1>10, GoesOn DEF Lock
<1>11. CASE onTaskCreate(th)
  <2> DEFINE c == [call[th] EXCEPT !.pc = "unlock"]
  <2>1. call' = [call EXCEPT ![th] = c] /\ SameErrand(c, call[th])
    BY <1>4, <1>11 DEF onTaskCreate
  <2> HIDE DEF c
  <2> QED
    BY <1>1, <2>1, GoesOn
<1>12. CASE saveHappensBeforeEdge(th)
  <2>1. call[th] \in OrderCall
    BY <1>12, Shape DEF saveHappensBeforeEdge, RInv
  <2>2. PICK p : call' = [call EXCEPT ![th] =
             [call[th] EXCEPT !.uncles = @ \ {p},
                              !.pc = IF call[th].uncles = {p}
                                       THEN "unlock" ELSE "order"]]
    BY <1>12 DEF saveHappensBeforeEdge
  <2> DEFINE pc == IF call[th].uncles = {p} THEN "unlock" ELSE "order"
             c  == [call[th] EXCEPT !.uncles = @ \ {p}, !.pc = pc]
  <2>3. call' = [call EXCEPT ![th] = c]
    BY <2>2
  <2> HIDE DEF pc
  <2>4. SameErrand(c, call[th])
    BY <1>5, <2>1
  <2> HIDE DEF c
  <2> QED
    BY <1>1, <2>3, <2>4, GoesOn
<1>13. CASE reportConflicts(th)
  <2> DEFINE c == [call[th] EXCEPT !.pc = "unlock"]
  <2>1. call' = [call EXCEPT ![th] = c] /\ SameErrand(c, call[th])
    BY <1>4, <1>13 DEF reportConflicts
  <2> HIDE DEF c
  <2> QED
    BY <1>1, <2>1, GoesOn
<1>14. CASE detectRaceOnMem(th)
  <2> DEFINE c == [call[th] EXCEPT !.pc = "compare", !.next = 1]
  <2>1. call[th] \in MemoryCall
    BY <1>14, Shape DEF detectRaceOnMem, RInv
  <2>2. call' = [call EXCEPT ![th] = c] /\ SameErrand(c, call[th])
    BY <1>3, <1>14, <2>1 DEF detectRaceOnMem
  <2> HIDE DEF c
  <2> QED
    BY <1>1, <2>2, GoesOn
<1>15. CASE Compare(th)
  BY <1>1, <1>3, <1>15, Shape, GoesOn DEF Compare, RInv
<1>16. CASE Save(th)
  BY <1>1, <1>4, <1>16, GoesOn DEF Save
<1> QED
  BY <1>6, <1>7, <1>8, <1>9, <1>10, <1>11, <1>12, <1>13, <1>14, <1>15, <1>16
     DEF Inside

-----------------------------------------------------------------------------
(* The lock is given back.                                                 *)

\* A bag holds tasks.
LEMMA InheritedTyped ==
  ASSUME NEW E, NEW bags \in [TaskIDs -> SUBSET TaskIDs], NEW t
  PROVE  Detector!InheritedHB(E, bags, t) \subseteq TaskIDs
<1>1. Detector!inEdges(E, t) \subseteq TaskIDs
  BY DEF Detector!inEdges
<1> QED
  BY <1>1 DEF Detector!InheritedHB

\* What is committed is the checker as it is.
LEMMA Unlocked ==
  ASSUME RInv, NEW th \in Threads, Unlock(th)
  PROVE  /\ guardLock = th /\ guardLock' = Nobody
         /\ call[th].pc = "unlock" /\ ProgressOf(call[th])
         /\ call[th].op \in {"begin", "order", "access", "report"}
         /\ \A o \in Threads : call'[o] = IF o = th THEN Idle ELSE call[o]
         /\ UNCHANGED <<nodes, edges, bagged, HB, writes, conflictTable,
                        taskIDSeed, done>>
         /\ committed'.nodes = nodes /\ committed'.edges = edges
         /\ committed'.bagged = bagged /\ committed'.HB = HB
         /\ committed'.writes = BareWrites /\ committed'.conflictTable = BareTable
<1>1. call[th].pc = "unlock" /\ Holds(th)
  BY DEF Unlock, Holds
<1>2. guardLock = th /\ ProgressOf(call[th])
  BY <1>1 DEF RInv, IInv, Exclusion, Progress
<1>3. call[th].op \in {"begin", "order", "access", "report"}
  BY <1>1, Shape DEF RInv, AnyCall, IdleCall, BeginCall, OrderCall, MemoryCall, ReportCall
<1>4. \A o \in Threads : call'[o] = IF o = th THEN Idle ELSE call[o]
  BY DEF Unlock, RInv, IInv, Typed
<1>5. committed' = CheckerState
  BY DEF Unlock
<1> QED
  BY <1>1, <1>2, <1>3, <1>4, <1>5
     DEF Unlock, CheckerState, checkerVars, BareWrites, BareTable

\* The bags of the tasks that are set up stay what they are, and edges go on to
\* come from such tasks only.
LEMMA UnlockGraph ==
  ASSUME RInv, NEW th \in Threads, Unlock(th)
  PROVE  /\ committed'.bagged \subseteq TaskIDs
         /\ committed'.HB \in [TaskIDs -> SUBSET TaskIDs]
         /\ \A s \in committed.bagged \ creating :
              s \in committed'.bagged \ creating' /\ committed'.HB[s] = committed.HB[s]
         /\ creating \subseteq creating' /\ creating' \subseteq committed'.bagged
         /\ call[th].op # "begin" => committed'.bagged \subseteq committed.bagged
         /\ call[th].op = "begin" =>
              committed'.bagged \subseteq committed.bagged \cup {call[th].task}
         /\ EdgesSettled'
<1> DEFINE c == call[th]
           t == call[th].task
<1>1. /\ committed.bagged \subseteq TaskIDs /\ creating \subseteq committed.bagged
      /\ committed.HB \in [TaskIDs -> SUBSET TaskIDs]
      /\ EdgesSettled
  BY DEF RInv, Client, CommittedTyped, IDsFresh
<1>2. CASE c.op = "begin"
  <2>1. t \in TaskIDs /\ t \notin committed.bagged
    BY <1>2, ShapeOfOp DEF RInv, BeginCall, Client, IDsFresh
  <2>2. Begun(t) /\ creating' = creating \cup {t}
    BY <1>2, Unlocked DEF ProgressOf, Unlock
  <2>3. Detector!InheritedHB(committed.edges, committed.HB, t) \subseteq TaskIDs
    BY <1>1, InheritedTyped
  <2>4. /\ committed'.bagged = committed.bagged \cup {t}
        /\ committed'.edges = committed.edges
        /\ committed'.HB \in {committed.HB,
             [committed.HB EXCEPT
                ![t] = Detector!InheritedHB(committed.edges, committed.HB, t)]}
    BY <2>2, Unlocked DEF Begun
  <2>5. EdgesSettled'
    BY <1>1, <2>1, <2>2, <2>4 DEF EdgesSettled
  <2> HIDE DEF c
  <2> QED
    BY <1>1, <1>2, <2>1, <2>2, <2>3, <2>4, <2>5 DEF c
<1>3. CASE c.op = "order"
  <2>1. t \in TaskIDs /\ t \in creating
    BY <1>3, ShapeOfOp DEF RInv, OrderCall, Client, Promised
  <2>2. creating' = creating
    BY <1>3 DEF Unlock
  <2>3. PICK Q \in SUBSET (committed.bagged \ creating) : Q # {} /\ Linked(Q, t)
    BY <1>3, Unlocked DEF ProgressOf
  <2>4. Detector!InheritedHB(committed.edges \cup (Q \X {t}), committed.HB, t)
          \subseteq TaskIDs
    BY <1>1, InheritedTyped
  <2>5. /\ committed'.bagged = committed.bagged
        /\ committed'.edges = committed.edges \cup (Q \X {t})
        /\ committed'.HB = [committed.HB EXCEPT
             ![t] = Detector!InheritedHB(committed.edges \cup (Q \X {t}),
                                         committed.HB, t)]
    <3>1. committed.bagged \cup {t} = committed.bagged
      BY <1>1, <2>1
    <3> QED
      BY <2>3, <3>1, Unlocked DEF Linked
  <2>6. EdgesSettled'
    BY <1>1, <2>1, <2>2, <2>3, <2>5 DEF EdgesSettled
  <2> HIDE DEF c
  <2> QED
    BY <1>1, <1>3, <2>1, <2>2, <2>4, <2>5, <2>6 DEF c
<1>4. CASE c.op \in {"access", "report"}
  <2>1. /\ committed'.bagged = committed.bagged /\ committed'.edges = committed.edges
        /\ committed'.HB = committed.HB
    BY <1>4, Unlocked DEF ProgressOf, SameGraph
  <2>2. creating' = creating
    BY <1>4 DEF Unlock
  <2> QED
    BY <1>1, <1>4, <2>1, <2>2 DEF EdgesSettled
<1> QED
  BY <1>2, <1>3, <1>4, Unlocked

\* Making room means the same inside and outside of calls.
LEMMA SameRoom == \A w : Checker!MakeRoom(w) = Detector!MakeRoom(w)
BY DEF Checker!MakeRoom, Detector!MakeRoom

\* The access of a call is one of its address.
LEMMA CallAccess ==
  ASSUME IInv, NEW th \in Threads, call[th].op = "access"
  PROVE  /\ call[th].task \in TaskIDs /\ call[th].stmt \in Statements
         /\ BareAccess(call[th]) \in BareAction
         /\ BareAccess(call[th]).addr = AsRead[call[th].stmt.addr]
         /\ BareAccess(call[th]).addr \in Addresses
         /\ BareAccess(call[th]).task = call[th].task
<1>1. call[th].task \in TaskIDs /\ call[th].stmt \in Statements
  BY ShapeOfOp DEF MemoryCall
<1>2. BareAccess(call[th]) \in BareAction
  BY <1>1, BareAccessTyped
<1> QED
  BY <1>1, <1>2 DEF BareAccess, Bare, constructMemoryAction, BareAction, Checker!Action

\* The histories remain histories.
LEMMA UnlockHistories ==
  ASSUME RInv, NEW th \in Threads, Unlock(th)
  PROVE  /\ committed'.writes \in [Addresses -> Seq(BareAction)]
         /\ accesses' \in [Addresses -> Seq(BareAction)]
<1> DEFINE b == BareAccess(call[th])
           x == b.addr
<1>1. /\ committed.writes \in [Addresses -> Seq(BareAction)]
      /\ accesses \in [Addresses -> Seq(BareAction)]
  BY DEF RInv, Client, CommittedTyped
<1>2. CASE call[th].op = "access"
  <2>1. x \in Addresses /\ b \in BareAction /\ x = AsRead[call[th].stmt.addr]
    BY <1>2, CallAccess DEF RInv
  <2>2. Checker!MakeRoom(committed.writes[x]) \in Seq(BareAction)
    BY <1>1, <2>1, RoomTyped, SameRoom
  <2>3. committed'.writes = [committed.writes EXCEPT
                               ![x] = Append(Checker!MakeRoom(committed.writes[x]), b)]
    BY <1>2, Unlocked DEF ProgressOf, Saved
  <2>4. accesses' = [accesses EXCEPT ![x] = Append(@, b)]
    BY <1>2, <2>1 DEF Unlock
  <2> HIDE DEF b, x
  <2>5. /\ Append(Checker!MakeRoom(committed.writes[x]), b) \in Seq(BareAction)
        /\ Append(accesses[x], b) \in Seq(BareAction)
    BY <1>1, <2>1, <2>2, AppendProperties
  <2> HIDE DEF BareAction
  <2>6. committed'.writes \in [Addresses -> Seq(BareAction)]
    BY <1>1, <2>1, <2>3, <2>5
  <2>7. accesses' \in [Addresses -> Seq(BareAction)]
    BY <1>1, <2>1, <2>4, <2>5
  <2> QED
    BY <2>6, <2>7
<1>3. CASE call[th].op # "access"
  <2>1. accesses' = accesses
    BY <1>3 DEF Unlock
  <2>2. committed'.writes = committed.writes
    BY <1>3, Unlocked DEF ProgressOf, SameLog
  <2> QED
    BY <1>1, <2>1, <2>2
<1> QED
  BY <1>2, <1>3

\* The program is owed what it was owed, but for what the call brought about.
LEMMA UnlockClient ==
  ASSUME RInv, NEW th \in Threads, Unlock(th)
  PROVE  Client'
<1> DEFINE c == call[th]
           b == BareAccess(call[th])
           x == b.addr
<1>1. \A o \in Threads : call'[o] = IF o = th THEN Idle ELSE call[o]
  BY Unlocked
<1>2. ~Working(Idle) /\ Promised(Idle)
  BY DEF Idle, Working, Promised
<1>3. CommittedTyped'
  BY UnlockGraph, UnlockHistories, Unlocked DEF CommittedTyped, RInv, Client, BareAction
<1>4. OneThreadPerTask'
  BY <1>1, <1>2 DEF RInv, Client, OneThreadPerTask
<1>5. IDsFresh'
  <2>1. taskIDSeed' = taskIDSeed
    BY Unlocked
  <2>2. ASSUME NEW o \in Threads, call'[o].op = "begin"
        PROVE  call'[o].task \notin committed'.bagged /\ call'[o].task < taskIDSeed
    <3>1. o # th /\ call'[o] = call[o]
      BY <1>1, <1>2, <2>2 DEF Working
    <3>2. call[o].task \notin committed.bagged /\ call[o].task < taskIDSeed
      BY <2>2, <3>1 DEF RInv, Client, IDsFresh
    <3>3. call[th].op = "begin" => call[o].task # call[th].task
      BY <2>2, <3>1 DEF RInv, Client, OneThreadPerTask, Working
    <3> QED
      BY <3>1, <3>2, <3>3, UnlockGraph
  <2>3. ASSUME NEW t \in committed'.bagged
        PROVE  t < taskIDSeed
    BY UnlockGraph DEF RInv, Client, IDsFresh
  <2> QED
    BY <2>1, <2>2, <2>3, UnlockGraph DEF IDsFresh
<1>6. StartedInOrder'
  <2>1. done' = done
    BY Unlocked
  <2> SUFFICES ASSUME NEW y \in Addresses, NEW i \in DOMAIN accesses'[y]
               PROVE  /\ accesses'[y][i].task \in committed.bagged \ creating
                      /\ committed.HB[accesses'[y][i].task] \subseteq done
    BY <2>1, UnlockGraph DEF StartedInOrder
  <2>2. ASSUME NEW j \in DOMAIN accesses[y]
        PROVE  /\ accesses[y][j].task \in committed.bagged \ creating
               /\ committed.HB[accesses[y][j].task] \subseteq done
    BY DEF RInv, Client, StartedInOrder
  <2>3. CASE c.op = "access" /\ y = x
    <3>1. x \in Addresses /\ b \in BareAction /\ x = AsRead[c.stmt.addr] /\ b.task = c.task
      BY <2>3, CallAccess DEF RInv
    <3>2. accesses'[y] = Append(accesses[y], b)
      BY <2>3, <3>1 DEF Unlock, RInv, Client, CommittedTyped
    <3>3. accesses[y] \in Seq(BareAction)
      BY DEF RInv, Client, CommittedTyped
    <3>4. /\ c.task \in committed.bagged \ creating
          /\ committed.HB[c.task] \subseteq done
      BY <2>3 DEF RInv, Client, Promised
    <3> HIDE DEF b, x, c
    <3>5. accesses'[y][i] = b \/ (i \in DOMAIN accesses[y] /\ accesses'[y][i] = accesses[y][i])
      BY <3>1, <3>2, <3>3, AppendProperties
    <3> QED
      BY <2>2, <3>1, <3>4, <3>5
  <2>4. CASE ~(c.op = "access" /\ y = x)
    <3>1. accesses'[y] = accesses[y]
      BY <2>4, CallAccess DEF Unlock, RInv, Client, CommittedTyped
    <3> QED
      BY <2>2, <3>1
  <2> QED
    BY <2>3, <2>4
<1>7. RoomLeft'
  <2> SUFFICES ASSUME NEW y \in Addresses
               PROVE  Len(accesses'[y]) + Cardinality(Pending(y)') <= MaxAccesses
    BY DEF RoomLeft
  <2>1. Pending(y)' = Pending(y) \ {th}
    BY <1>1, <1>2 DEF Pending, Working
  <2>2. Pending(y) \subseteq Threads
    BY DEF Pending
  <2>3. IsFiniteSet(Pending(y))
    BY <2>2, FS_Subset
  <2>4. Cardinality(Pending(y)) \in Nat /\ Len(accesses[y]) \in Nat
    BY <2>3, FS_CardinalityType DEF RInv, Client, CommittedTyped
  <2>5. Len(accesses[y]) + Cardinality(Pending(y)) <= MaxAccesses
    BY DEF RInv, Client, RoomLeft
  <2>6. CASE c.op = "access" /\ y = x
    <3>1. x \in Addresses /\ b \in BareAction /\ x = AsRead[c.stmt.addr]
      BY <2>6, CallAccess DEF RInv
    <3>2. accesses'[y] = Append(accesses[y], b)
      BY <2>6, <3>1 DEF Unlock, RInv, Client, CommittedTyped
    <3>3. accesses[y] \in Seq(BareAction)
      BY DEF RInv, Client, CommittedTyped
    <3>4. th \in Pending(y)
      BY <2>6, <3>1 DEF Pending
    <3> HIDE DEF b, x, c
    <3>5. Len(accesses'[y]) = Len(accesses[y]) + 1
      BY <3>1, <3>2, <3>3, AppendProperties
    <3>6. Cardinality(Pending(y) \ {th}) = Cardinality(Pending(y)) - 1
      BY <2>3, <3>4, FS_RemoveElement
    <3> QED
      BY <2>1, <2>4, <2>5, <3>5, <3>6
  <2>7. CASE ~(c.op = "access" /\ y = x)
    <3>1. accesses'[y] = accesses[y]
      BY <2>7, CallAccess DEF Unlock, RInv, Client, CommittedTyped
    <3>2. th \notin Pending(y)
      BY <2>7, CallAccess DEF Pending, RInv
    <3> QED
      BY <2>1, <2>5, <3>1, <3>2
  <2> QED
    BY <2>6, <2>7
<1>8. ASSUME NEW o \in Threads
      PROVE  Promised(call[o])'
  <2>1. CASE o = th
    BY <1>1, <1>2, <2>1 DEF Promised, Idle
  <2>2. CASE o # th
    <3>1. call'[o] = call[o] /\ Promised(call[o])
      BY <1>1, <2>2 DEF RInv, Client
    <3>2. creating \subseteq creating' /\ done' = done
      BY UnlockGraph, Unlocked
    <3> QED
      BY <3>1, <3>2, UnlockGraph DEF Promised
  <2> QED
    BY <2>1, <2>2
<1> QED
  BY <1>3, <1>4, <1>5, <1>6, <1>7, <1>8, UnlockGraph DEF Client

-----------------------------------------------------------------------------
(* How far a call has come.                                                *)

\* Whoever holds the lock is the only one whose progress matters.
LEMMA ProgressInside ==
  ASSUME IInv', NEW th \in Threads, guardLock' = th, ProgressOf(call[th])'
  PROVE  Progress'
<1>1. \A o \in Threads : Holds(o)' => o = th
  BY DEF IInv, Exclusion
<1> QED
  BY <1>1 DEF Progress

\* Outside the lock the checker stays what was committed.
LEMMA ProgressOutside ==
  ASSUME RInv, UNCHANGED <<guardLock, checkerVars, committed>>,
         creating' \subseteq creating,
         \A o \in Threads : Holds(o)' => call'[o] = call[o]
  PROVE  Progress'
<1>1. UNCHANGED <<nodes, edges, bagged, HB, writes, conflictTable>>
  BY DEF checkerVars
<1>2. (SameGraph => SameGraph') /\ (SameLog => SameLog')
  BY <1>1 DEF SameGraph, SameLog, BareWrites, BareTable
<1>3. ASSUME NEW o \in Threads, Holds(o)'
      PROVE  ProgressOf(call[o])'
  <2>1. call'[o] = call[o] /\ ProgressOf(call[o])
    BY <1>3 DEF RInv, Progress, Holds
  <2>2. \A t : Begun(t) => Begun(t)'
    BY <1>1 DEF Begun
  <2>3. \A Q, t : Linked(Q, t) => Linked(Q, t)'
    BY <1>1 DEF Linked
  <2>4. \A b, k : Compared(b, k) => Compared(b, k)'
    BY <1>1 DEF Compared, BareTable, Checker!NewReports, Checker!Reportable,
                Checker!Parallel, Checker!SameSlot
  <2>5. \A b : Saved(b) => Saved(b)'
    BY <1>1 DEF Saved, BareWrites
  <2>6. BareWrites' = BareWrites
    BY <1>1 DEF BareWrites
  <2>7. \A Q : Q \in SUBSET (committed.bagged \ creating)
                 => Q \in SUBSET (committed'.bagged \ creating')
    OBVIOUS
  <2> QED
    BY <1>2, <2>1, <2>2, <2>3, <2>4, <2>5, <2>6, <2>7 DEF ProgressOf
<1> QED
  BY <1>2, <1>3 DEF RInv, Progress

\* A thread inside the lock goes on to a step at which nothing is changed yet.
LEMMA ProgressSame ==
  ASSUME IInv', NEW th \in Threads, guardLock' = th, SameGraph, SameLog,
         UNCHANGED <<checkerVars, committed>>,
         call'[th].pc \in {"find", "add", "unlockRegistry", "begin", "order",
                           "access", "report"}
         \/ (call'[th].pc = "unlock" /\ call'[th].op = "report")
  PROVE  Progress'
<1>1. SameGraph' /\ SameLog'
  BY DEF SameGraph, SameLog, BareWrites, BareTable, checkerVars
<1>2. ProgressOf(call[th])'
  BY <1>1 DEF ProgressOf
<1> QED
  BY <1>2, ProgressInside

\* Calls of the program do not reach the checker before they have the lock.
LEMMA EnterProgress ==
  ASSUME RInv, NEW th \in Threads, NEW c, Enter(th, c),
         c.pc \in {"lock", "lockRegistry"}, UNCHANGED creating
  PROVE  Progress'
<1>1. \A o \in Threads : call'[o] = IF o = th THEN c ELSE call[o]
  BY DEF Enter, RInv, IInv, Typed
<1>2. \A o \in Threads : Holds(o)' => call'[o] = call[o]
  BY <1>1 DEF Holds
<1>3. UNCHANGED <<guardLock, checkerVars, committed>>
  BY DEF Enter, historyVars
<1> QED
  BY <1>2, <1>3, ProgressOutside

\* Neither do the program's own steps.
LEMMA ProgramProgress ==
  ASSUME RInv,
         \/ Finalize
         \/ \E t \in TaskIDs : TaskReady(t) \/ TaskOver(t)
         \/ \E th \in Threads :
              \/ TaskBeginLog(th)
              \/ \E t \in TaskIDs : \/ \E P \in SUBSET TaskIDs : saveChildHBs(th, t, P)
                                  \/ \E s \in Code[t] : ReadOrWrite(th, t, s)
  PROVE  Progress'
<1>1. CASE Finalize
  <2>1. \A o \in Threads : call'[o] = call[o] \/ call'[o].pc = "lock"
    BY <1>1 DEF Finalize, RInv, IInv, Typed
  <2> QED
    BY <1>1, <2>1, ProgressOutside DEF Finalize, Holds, programVars, historyVars
<1>2. CASE \E t \in TaskIDs : TaskReady(t) \/ TaskOver(t)
  BY <1>2, ProgressOutside DEF TaskReady, TaskOver, historyVars
<1>3. CASE \E th \in Threads : TaskBeginLog(th)
  BY <1>3, EnterProgress DEF TaskBeginLog, programVars
<1>4. CASE \E th \in Threads, t \in TaskIDs, P \in SUBSET TaskIDs : saveChildHBs(th, t, P)
  BY <1>4, EnterProgress DEF saveChildHBs, programVars
<1>5. CASE \E th \in Threads, t \in TaskIDs : \E s \in Code[t] : ReadOrWrite(th, t, s)
  BY <1>5, EnterProgress DEF ReadOrWrite, AccessCall, programVars
<1> QED
  BY <1>1, <1>2, <1>3, <1>4, <1>5

\* The registry is not the checker.
LEMMA RegistryProgress ==
  ASSUME RInv, IInv', NEW th \in Threads,
         LockRegistry(th) \/ FindFunction(th) \/ AddFunction(th) \/ UnlockRegistry(th)
         \/ Lock(th) \/ reportConflicts(th)
  PROVE  Progress'
<1>1. UNCHANGED <<checkerVars, committed>>
  BY DEF LockRegistry, FindFunction, AddFunction, UnlockRegistry, Lock,
         reportConflicts, Local, historyVars
<1>2. call[th] \in AnyCall
  BY DEF RInv, IInv, Typed
<1>3. guardLock = Nobody => SameGraph /\ SameLog
  BY DEF RInv, Progress
<1>4. Holds(th) => guardLock = th /\ ProgressOf(call[th])
  BY DEF RInv, IInv, Exclusion, Progress
<1>5. CASE LockRegistry(th)
  <2>1. call'[th].pc = "find" /\ guardLock' = th
    BY <1>5, Shape DEF LockRegistry, RInv, IInv, Typed, MemoryCall
  <2> QED
    BY <1>1, <1>3, <1>5, <2>1, ProgressSame DEF LockRegistry
<1>6. CASE FindFunction(th)
  <2>1. call'[th].pc \in {"add", "unlockRegistry"} /\ guardLock' = guardLock
    BY <1>6, Shape DEF FindFunction, RInv, IInv, Typed, MemoryCall
  <2> QED
    BY <1>1, <1>4, <1>6, <2>1, ProgressSame DEF FindFunction, Holds, ProgressOf
<1>7. CASE AddFunction(th)
  <2>1. call'[th].pc = "unlockRegistry" /\ guardLock' = guardLock
    BY <1>7, Shape DEF AddFunction, RInv, IInv, Typed, MemoryCall
  <2> QED
    BY <1>1, <1>4, <1>7, <2>1, ProgressSame DEF AddFunction, Holds, ProgressOf
<1>8. CASE UnlockRegistry(th)
  <2>1. SameGraph /\ SameLog
    BY <1>4, <1>8 DEF UnlockRegistry, Holds, ProgressOf
  <2>2. SameGraph' /\ SameLog'
    BY <1>1, <2>1 DEF SameGraph, SameLog, BareWrites, BareTable, checkerVars
  <2>3. \A o \in Threads : ~Holds(o)'
    BY <1>8 DEF UnlockRegistry, IInv, Exclusion
  <2> QED
    BY <2>2, <2>3 DEF Progress
<1>9. CASE Lock(th)
  <2>1. call'[th].pc \in {"begin", "order", "access", "report"} /\ guardLock' = th
    BY <1>9, Shape DEF Lock, RInv, IInv, Typed, AnyCall, IdleCall, BeginCall,
                       OrderCall, MemoryCall, ReportCall
  <2> QED
    BY <1>1, <1>3, <1>9, <2>1, ProgressSame DEF Lock
<1>10. CASE reportConflicts(th)
  <2>1. /\ call'[th].pc = "unlock" /\ call'[th].op = "report"
        /\ guardLock' = guardLock
    BY <1>10, Shape DEF reportConflicts, RInv, IInv, Typed, ReportCall
  <2> QED
    BY <1>1, <1>4, <1>10, <2>1, ProgressSame DEF reportConflicts, Holds, ProgressOf
<1> QED
  BY <1>5, <1>6, <1>7, <1>8, <1>9, <1>10

\* A task is announced in one go.
LEMMA OnTaskCreateProgress ==
  ASSUME RInv, IInv', NEW th \in Threads, onTaskCreate(th)
  PROVE  Progress'
<1>1. call[th] \in BeginCall /\ call[th].pc = "begin"
  BY Shape DEF RInv, onTaskCreate
<1>2. guardLock = th /\ SameGraph /\ SameLog
  BY <1>1 DEF RInv, IInv, Exclusion, Progress, ProgressOf, Holds
<1>3. /\ call'[th].pc = "unlock" /\ call'[th].op = "begin"
      /\ call'[th].task = call[th].task
  BY <1>1 DEF onTaskCreate, RInv, IInv, Typed, BeginCall
<1>4. guardLock' = th /\ UNCHANGED <<writes, conflictTable, committed>>
  BY <1>2 DEF onTaskCreate, Local, historyVars
<1>5. SameLog'
  BY <1>2, <1>4 DEF SameLog, BareWrites, BareTable
<1>6. Begun(call[th].task)'
  BY <1>2, <1>3, <1>4 DEF onTaskCreate, Detector!onTaskCreate, SameGraph, Begun
<1>7. ProgressOf(call[th])'
  BY <1>3, <1>5, <1>6 DEF ProgressOf
<1> QED
  BY <1>4, <1>7, ProgressInside

\* Rebuilding the bag of a task after each new edge into it gives, in the end, the
\* bag of all its edges: none of them comes from the task itself, so the bags it
\* inherits are not touched on the way.
LEMMA OneMoreEdge ==
  ASSUME NEW E, NEW bags, NEW t \in TaskIDs,
         NEW Q \in SUBSET TaskIDs, NEW p \in TaskIDs, t \notin Q \cup {p},
         <<t, t>> \notin E,
         NEW old, \A q \in TaskIDs \ {t} : old[q] = bags[q]
  PROVE  Detector!InheritedHB(E \cup ((Q \cup {p}) \X {t}), old, t)
         = Detector!InheritedHB(E \cup ((Q \cup {p}) \X {t}), bags, t)
<1> DEFINE F == E \cup ((Q \cup {p}) \X {t})
           I == Detector!inEdges(F, t)
<1>1. I \subseteq TaskIDs /\ t \notin I
  BY DEF Detector!inEdges
<1>2. \A q \in I : old[q] = bags[q]
  BY <1>1
<1> HIDE DEF F, I
<1>3. UNION { old[q] : q \in I } = UNION { bags[q] : q \in I }
  BY <1>2
<1>4. Detector!InheritedHB(F, old, t) = Detector!InheritedHB(F, bags, t)
  BY <1>3 DEF Detector!InheritedHB, I
<1> QED
  BY <1>4 DEF F

\* Edge by edge the call comes nearer to having recorded all of them.
LEMMA SaveHappensBeforeEdgeProgress ==
  ASSUME RInv, IInv', NEW th \in Threads, saveHappensBeforeEdge(th)
  PROVE  Progress'
<1> DEFINE t == call[th].task
           S == committed.bagged \ creating
<1>1. call[th] \in OrderCall /\ call[th].pc = "order" /\ call[th].op = "order"
  BY Shape DEF RInv, saveHappensBeforeEdge, OrderCall
<1>2. guardLock = th /\ ProgressOf(call[th])
  BY <1>1 DEF RInv, IInv, Exclusion, Progress, Holds
<1>3. PICK p \in call[th].uncles :
        /\ Detector!saveHappensBeforeEdges({p}, t)
        /\ call' = [call EXCEPT ![th].uncles = @ \ {p},
                                ![th].pc = IF call[th].uncles = {p}
                                             THEN "unlock" ELSE "order"]
  BY DEF saveHappensBeforeEdge
<1>4. /\ call'[th].pc \in {"unlock", "order"} /\ call'[th].op = "order"
      /\ call'[th].task = t
  BY <1>1, <1>3 DEF RInv, IInv, Typed, OrderCall
<1>5. /\ guardLock' = th /\ UNCHANGED <<writes, conflictTable, committed, creating>>
  BY <1>2 DEF saveHappensBeforeEdge, Local, historyVars, programVars
<1>6. SameLog'
  BY <1>1, <1>2, <1>5 DEF ProgressOf, SameLog, BareWrites, BareTable
<1>7. /\ t \in creating /\ t \in TaskIDs /\ p \in S /\ S \subseteq TaskIDs
      /\ committed.HB \in [TaskIDs -> SUBSET TaskIDs]
      /\ <<t, t>> \notin committed.edges
  BY <1>1 DEF RInv, Client, Promised, CommittedTyped, EdgesSettled, OrderCall
<1>8. \E Q \in SUBSET S : Q # {} /\ Linked(Q, t)'
  <2>1. CASE SameGraph
    <3>1. Linked({p}, t)'
      BY <1>3, <1>4, <1>5, <2>1 DEF SameGraph, Linked, Detector!saveHappensBeforeEdges
    <3> QED
      BY <1>7, <3>1
  <2>2. ASSUME NEW Q \in SUBSET S, Q # {}, Linked(Q, t)
        PROVE  Linked(Q \cup {p}, t)'
    <3> DEFINE cE == committed.edges
               cB == committed.HB
               B  == Detector!InheritedHB(cE \cup (Q \X {t}), cB, t)
               R  == Q \cup {p}
    <3>1. /\ nodes = committed.nodes \cup Q \cup {t}
          /\ edges = cE \cup (Q \X {t})
          /\ bagged = committed.bagged \cup {t}
          /\ HB = [cB EXCEPT ![t] = B]
      BY <2>2 DEF Linked
    <3>2. /\ nodes' = nodes \cup {p} \cup {t}
          /\ edges' = edges \cup ({p} \X {t})
          /\ bagged' = bagged \cup {t}
          /\ HB' = [HB EXCEPT ![t] =
                      Detector!InheritedHB(edges \cup ({p} \X {t}), HB, t)]
      BY <1>3 DEF Detector!saveHappensBeforeEdges
    <3> HIDE DEF B
    <3>3. /\ edges \cup ({p} \X {t}) = cE \cup (R \X {t})
          /\ Detector!InheritedHB(edges \cup ({p} \X {t}), HB, t)
             = Detector!InheritedHB(cE \cup (R \X {t}), cB, t)
      <4>1. /\ t \notin R /\ Q \in SUBSET TaskIDs /\ p \in TaskIDs
            /\ t \in TaskIDs /\ <<t, t>> \notin cE
            /\ \A q \in TaskIDs \ {t} : HB[q] = cB[q]
        BY <1>7, <2>2, <3>1
      <4>2. edges \cup ({p} \X {t}) = cE \cup (R \X {t})
        BY <3>1
      <4> HIDE DEF cE, cB, t
      <4>3. Detector!InheritedHB(cE \cup (R \X {t}), HB, t)
            = Detector!InheritedHB(cE \cup (R \X {t}), cB, t)
        BY <4>1, OneMoreEdge
      <4> QED
        BY <4>2, <4>3
    <3>4. HB' = [cB EXCEPT ![t] = Detector!InheritedHB(cE \cup (R \X {t}), cB, t)]
      <4> DEFINE N == Detector!InheritedHB(cE \cup (R \X {t}), cB, t)
      <4>1. HB' = [HB EXCEPT ![t] = N]
        BY <3>2, <3>3
      <4> HIDE DEF N
      <4>2. HB' = [cB EXCEPT ![t] = N]
        BY <1>7, <3>1, <4>1
      <4> QED
        BY <4>2 DEF N
    <3>5. nodes' = committed.nodes \cup R \cup {t} /\ bagged' = committed.bagged \cup {t}
      BY <3>1, <3>2
    <3>6. edges' = cE \cup (R \X {t})
      BY <3>2, <3>3
    <3> QED
      BY <1>4, <1>5, <3>4, <3>5, <3>6 DEF Linked
  <2>3. SameGraph \/ \E Q \in SUBSET S : Q # {} /\ Linked(Q, t)
    BY <1>1, <1>2 DEF ProgressOf
  <2> QED
    BY <1>7, <2>1, <2>2, <2>3
<1>9. ProgressOf(call[th])'
  BY <1>4, <1>5, <1>6, <1>8 DEF ProgressOf
<1> QED
  BY <1>5, <1>9, ProgressInside

-----------------------------------------------------------------------------
(* Comparing with one access of the history after the other.               *)

\* A non-empty set of natural numbers has a least element.
LEMMA LeastNat ==
  ASSUME NEW T \in SUBSET Nat, T # {}
  PROVE  \E m \in T : \A n \in T : m <= n
<1>1. PICK m \in T : \A n \in T : <<n, m>> \notin OpToRel(<, Nat)
  BY NatLessThanWellFounded, WFMin
<1>2. \A n \in T : ~(n < m)
  BY <1>1 DEF OpToRel
<1> QED
  BY <1>2

\* The k-th access of the past gives a report that is new.
GivesReport(b, past, k) ==
  /\ Checker!Reportable(b, past[k])
  /\ \A r \in committed.conflictTable : ~Checker!SameSlot(r, Checker!Report(b, past[k]))
  /\ \A j \in 1 .. k - 1 :
       Checker!Reportable(b, past[j]) =>
         ~Checker!SameSlot(Checker!Report(b, past[j]), Checker!Report(b, past[k]))

\* The reports against the beginning of a history.
LEMMA ReportsUpTo ==
  ASSUME NEW b, NEW S, NEW past \in Seq(S), NEW n \in 0 .. Len(past)
  PROVE  Checker!NewReports(b, SubSeq(past, 1, n))
         = { Checker!Report(b, past[k]) : k \in { i \in 1 .. n : GivesReport(b, past, i) } }
<1> DEFINE w == SubSeq(past, 1, n)
<1>1. DOMAIN w = 1 .. n /\ \A k \in 1 .. n : w[k] = past[k]
  <2>1. \A i \in 1 .. n : past[i] \in S
    BY ElementOfSeq, LenProperties
  <2> QED
    BY <2>1, SubSeqProperties, LenProperties
<1>2. \A k \in 1 .. n : 1 .. k - 1 \subseteq 1 .. n
  BY LenProperties
<1> HIDE DEF w
<1>3. \A k \in 1 .. n :
        ( /\ Checker!Reportable(b, w[k])
          /\ \A r \in committed.conflictTable : ~Checker!SameSlot(r, Checker!Report(b, w[k]))
          /\ \A j \in 1 .. k - 1 : Checker!Reportable(b, w[j]) =>
               ~Checker!SameSlot(Checker!Report(b, w[j]), Checker!Report(b, w[k])) )
        <=> GivesReport(b, past, k)
  BY <1>1, <1>2 DEF GivesReport
<1>4. Checker!NewReports(b, w)
      = { Checker!Report(b, w[k]) : k \in { i \in 1 .. n : GivesReport(b, past, i) } }
  BY <1>1, <1>3 DEF Checker!NewReports
<1>5. Checker!NewReports(b, w)
      = { Checker!Report(b, past[k]) : k \in { i \in 1 .. n : GivesReport(b, past, i) } }
  BY <1>1, <1>4
<1> QED
  BY <1>5 DEF w

\* One pass of the loop adds what the access it looks at gives: an earlier access
\* that conflicts in the same slot has filled it, itself or through a third one.
LEMMA OneMoreReport ==
  ASSUME NEW b, NEW S, NEW past \in Seq(S), NEW i \in 1 .. Len(past)
  PROVE  Checker!NewReports(b, SubSeq(past, 1, i))
         = IF /\ Checker!Reportable(b, past[i])
              /\ \A r \in committed.conflictTable
                            \cup Checker!NewReports(b, SubSeq(past, 1, i - 1)) :
                   ~Checker!SameSlot(r, Checker!Report(b, past[i]))
           THEN Checker!NewReports(b, SubSeq(past, 1, i - 1))
                  \cup {Checker!Report(b, past[i])}
           ELSE Checker!NewReports(b, SubSeq(past, 1, i - 1))
<1> DEFINE old == Checker!NewReports(b, SubSeq(past, 1, i - 1))
           new == Checker!Report(b, past[i])
           Rep(k) == Checker!Report(b, past[k])
<1>1. i - 1 \in 0 .. Len(past) /\ i \in 0 .. Len(past) /\ i \in Nat /\ i - 1 \in Nat
  BY LenProperties
<1>2. old = { Rep(k) : k \in { j \in 1 .. i - 1 : GivesReport(b, past, j) } }
  <2> DEFINE n == i - 1
  <2>1. n \in 0 .. Len(past)
    BY <1>1
  <2> HIDE DEF n
  <2>2. Checker!NewReports(b, SubSeq(past, 1, n))
        = { Checker!Report(b, past[k]) : k \in { j \in 1 .. n : GivesReport(b, past, j) } }
    BY <2>1, ReportsUpTo, SMTT(30)
  <2> QED
    BY <2>2 DEF n
<1>3. Checker!NewReports(b, SubSeq(past, 1, i))
      = { Rep(k) : k \in { j \in 1 .. i : GivesReport(b, past, j) } }
  BY <1>1, ReportsUpTo
<1>4. { j \in 1 .. i : GivesReport(b, past, j) }
      = { j \in 1 .. i - 1 : GivesReport(b, past, j) }
          \cup (IF GivesReport(b, past, i) THEN {i} ELSE {})
  <2>1. 1 .. i = (1 .. i - 1) \cup {i}
    BY <1>1
  <2> QED
    BY <2>1
<1>5. GivesReport(b, past, i)
      <=> /\ Checker!Reportable(b, past[i])
          /\ \A r \in committed.conflictTable \cup old : ~Checker!SameSlot(r, new)
  <2>1. ASSUME GivesReport(b, past, i), NEW r \in old
        PROVE  ~Checker!SameSlot(r, new)
    <3>1. PICK j \in 1 .. i - 1 : GivesReport(b, past, j) /\ r = Rep(j)
      BY <1>2, <2>1
    <3> QED
      BY <2>1, <3>1 DEF GivesReport
  <2>2. ASSUME Checker!Reportable(b, past[i]),
               \A r \in committed.conflictTable \cup old : ~Checker!SameSlot(r, new),
               NEW k \in 1 .. i - 1, Checker!Reportable(b, past[k]),
               Checker!SameSlot(Rep(k), new)
        PROVE  FALSE
    <3> DEFINE T == { j \in 1 .. i - 1 : /\ Checker!Reportable(b, past[j])
                                         /\ Checker!SameSlot(Rep(j), new) }
    <3>1. T \in SUBSET Nat /\ T # {}
      BY <1>1, <2>2
    <3>2. PICK m \in T : \A n \in T : m <= n
      BY <3>1, LeastNat
    <3>3. m \in 1 .. i - 1 /\ Checker!Reportable(b, past[m]) /\ Checker!SameSlot(Rep(m), new)
      BY <3>2
    <3>4. ASSUME NEW j \in 1 .. m - 1, Checker!Reportable(b, past[j]),
                 Checker!SameSlot(Rep(j), Rep(m))
          PROVE  FALSE
      <4>1. j \in 1 .. i - 1 /\ ~(m <= j)
        BY <1>1, <3>3
      <4>2. Checker!SameSlot(Rep(j), new)
        BY <3>3, <3>4 DEF Checker!SameSlot
      <4> QED
        BY <3>2, <3>4, <4>1, <4>2
    <3>5. \A r \in committed.conflictTable : ~Checker!SameSlot(r, Rep(m))
      BY <2>2, <3>3 DEF Checker!SameSlot
    <3>6. GivesReport(b, past, m)
      BY <3>3, <3>4, <3>5 DEF GivesReport
    <3>7. Rep(m) \in old
      BY <1>2, <3>3, <3>6
    <3> QED
      BY <2>2, <3>3, <3>7
  <2> QED
    BY <2>1, <2>2 DEF GivesReport
<1> QED
  BY <1>2, <1>3, <1>4, <1>5

\* Function IDs have no part in the detection of races.
LEMMA BareDetection ==
  ASSUME SameGraph, NEW k, NEW act \in Kept(k), NEW prev \in Kept(k)
  PROVE  /\ Detector!Reportable(act, prev) <=> Checker!Reportable(Bare(act), Bare(prev))
         /\ BareReport(Detector!Report(act, prev)) = Checker!Report(Bare(act), Bare(prev))
         /\ \A r \in Conflicts(k) :
              Detector!SameSlot(r, Detector!Report(act, prev))
              <=> Checker!SameSlot(BareReport(r), Checker!Report(Bare(act), Bare(prev)))
<1>1. Detector!Reportable(act, prev) <=> Checker!Reportable(Bare(act), Bare(prev))
  BY DEF SameGraph, Bare, Detector!Reportable, Checker!Reportable, Detector!Parallel,
         Checker!Parallel, Detector!Conflicting, Checker!Conflicting,
         Detector!isCommutative, Checker!isCommutative
<1>2. \A a, p : /\ BareReport(Detector!Report(a, p)).lines = Detector!LinePair(a.line, p.line)
                /\ BareReport(Detector!Report(a, p)).addr = a.addr
                /\ BareReport(Detector!Report(a, p)).action1 = Bare(a)
                /\ BareReport(Detector!Report(a, p)).action2 = Bare(p)
                /\ Detector!Report(a, p).lines = Detector!LinePair(a.line, p.line)
                /\ Detector!Report(a, p).addr = a.addr
  BY DEF BareReport, Detector!Report
<1>3. BareReport(Detector!Report(act, prev)) = Checker!Report(Bare(act), Bare(prev))
  BY DEF BareReport, Detector!Report, Bare, Checker!Report, Detector!LinePair,
         Checker!LinePair
<1>4. ASSUME NEW a \in Kept(k), NEW p \in Kept(k)
      PROVE  Detector!SameSlot(Detector!Report(a, p), Detector!Report(act, prev))
             <=> Checker!SameSlot(BareReport(Detector!Report(a, p)),
                                  BareReport(Detector!Report(act, prev)))
  BY <1>2 DEF Detector!SameSlot, Checker!SameSlot
<1>5. ASSUME NEW r \in Conflicts(k)
      PROVE  Detector!SameSlot(r, Detector!Report(act, prev))
             <=> Checker!SameSlot(BareReport(r), Checker!Report(Bare(act), Bare(prev)))
  BY <1>3, <1>4 DEF Conflicts
<1> QED
  BY <1>1, <1>3, <1>5

\* An access under way is, but for the function ID, the one of the checker.
LEMMA BareTheAction ==
  ASSUME NEW th
  PROVE  Bare(TheAction(th)) = BareAccess(call[th])
BY DEF TheAction, BareAccess, Bare, constructMemoryAction

\* The comparison begins with nothing compared.
LEMMA DetectRaceOnMemProgress ==
  ASSUME RInv, IInv', NEW th \in Threads, detectRaceOnMem(th)
  PROVE  Progress'
<1> DEFINE b == BareAccess(call[th])
<1>1. call[th] \in MemoryCall /\ call[th].pc = "access"
  BY Shape DEF RInv, detectRaceOnMem
<1>2. guardLock = th /\ SameGraph /\ SameLog
  BY <1>1 DEF RInv, IInv, Exclusion, Progress, ProgressOf, Holds
<1>3. /\ call'[th].pc = "compare" /\ call'[th].op = "access" /\ call'[th].next = 1
      /\ call'[th].task = call[th].task /\ call'[th].stmt = call[th].stmt
  BY <1>1 DEF detectRaceOnMem, RInv, IInv, Typed, MemoryCall
<1>4. guardLock' = th /\ UNCHANGED <<checkerVars, committed>>
  BY <1>2 DEF detectRaceOnMem, Local, historyVars
<1>5. SameGraph' /\ SameLog'
  BY <1>2, <1>4 DEF SameGraph, SameLog, BareWrites, BareTable, checkerVars
<1>6. ASSUME NEW d
      PROVE  Compared(d, 0)'
  <2>1. SubSeq(committed'.writes[d.addr], 1, 0) = << >>
    BY SubSeqEmpty
  <2>2. DOMAIN SubSeq(committed'.writes[d.addr], 1, 0) = {}
    BY <2>1
  <2>3. Checker!NewReports(d, SubSeq(committed.writes[d.addr], 1, 0))' = {}
    BY <2>2 DEF Checker!NewReports
  <2> QED
    BY <1>5, <2>3 DEF Compared, SameLog
<1>7. call'[th].next - 1 = 0
  BY <1>3
<1>8. 0 <= Len(committed.writes[b.addr])
  BY <1>1, CallAccess, LenProperties DEF RInv, Client, CommittedTyped, MemoryCall
<1>9. BareAccess(call[th])' = b
  BY <1>3 DEF BareAccess, Bare, constructMemoryAction
<1>10. ProgressOf(call[th])'
  BY <1>3, <1>4, <1>5, <1>6, <1>7, <1>8, <1>9 DEF ProgressOf, SameLog
<1> QED
  BY <1>4, <1>10, ProgressInside

\* What a call in comparison has before it.
LEMMA Comparing ==
  ASSUME RInv, NEW th \in Threads, call[th].pc = "compare"
  PROVE  LET b == BareAccess(call[th])
             x == TheAction(th).addr
         IN  /\ call[th] \in MemoryCall /\ call[th].op = "access" /\ guardLock = th
             /\ TheAction(th) \in Kept(funcIDSeed - 1)
             /\ x \in Addresses /\ b.addr = x /\ b \in BareAction
             /\ writes[x] \in Seq(Kept(funcIDSeed - 1))
             /\ committed.writes[x] = BareSeq(writes[x])
             /\ committed.writes[x] \in Seq(BareAction)
             /\ Len(committed.writes[x]) = Len(writes[x])
             /\ SameGraph /\ BareWrites = committed.writes
             /\ call[th].next - 1 <= Len(committed.writes[x])
             /\ Compared(b, call[th].next - 1)
<1> DEFINE x == TheAction(th).addr
<1>1. /\ call[th] \in MemoryCall /\ call[th].op = "access"
      /\ TheAction(th) \in Kept(funcIDSeed - 1)
  BY ActionKept DEF RInv, MemoryCall
<1>2. guardLock = th /\ ProgressOf(call[th])
  BY DEF RInv, IInv, Exclusion, Progress, Holds
<1>3. /\ SameGraph /\ BareWrites = committed.writes
      /\ call[th].next - 1 <= Len(committed.writes[BareAccess(call[th]).addr])
      /\ Compared(BareAccess(call[th]), call[th].next - 1)
  BY <1>2 DEF ProgressOf
<1>4. BareAccess(call[th]).addr = x
  BY DEF TheAction, BareAccess, Bare, constructMemoryAction
<1>5. x \in Addresses /\ BareAccess(call[th]) \in BareAction
  BY <1>1, <1>4, CallAccess DEF RInv
<1>6. writes[x] \in Seq(Kept(funcIDSeed - 1))
  BY <1>5 DEF RInv, IInv, Printable
<1>7. committed.writes[x] = BareSeq(writes[x]) /\ committed.writes[x] \in Seq(BareAction)
  BY <1>3, <1>5 DEF BareWrites, RInv, Client, CommittedTyped
<1>8. Len(committed.writes[x]) = Len(writes[x])
  <2>1. DOMAIN writes[x] = 1 .. Len(writes[x]) /\ Len(writes[x]) \in Nat
    BY <1>6, LenProperties
  <2>2. DOMAIN committed.writes[x] = 1 .. Len(writes[x])
    BY <1>7, <2>1 DEF BareSeq
  <2>3. /\ DOMAIN committed.writes[x] = 1 .. Len(committed.writes[x])
        /\ Len(committed.writes[x]) \in Nat
    BY <1>7, LenProperties
  <2> QED
    BY <2>1, <2>2, <2>3
<1> QED
  BY <1>1, <1>2, <1>3, <1>4, <1>5, <1>6, <1>7, <1>8

\* One pass of the loop.
LEMMA CompareProgress ==
  ASSUME RInv, IInv', NEW th \in Threads, Compare(th)
  PROVE  Progress'
<1> DEFINE act == TheAction(th)
           k   == funcIDSeed - 1
           b   == BareAccess(call[th])
           x   == act.addr
           i   == call[th].next
           prev == writes[x][i]
           past == committed.writes[x]
           new == Detector!Report(act, prev)
           bnew == Checker!Report(b, past[i])
           T0  == committed.conflictTable
<1>1. call[th].pc = "compare"
  BY DEF Compare
<1>2. /\ call[th] \in MemoryCall /\ call[th].op = "access" /\ guardLock = th
      /\ act \in Kept(k) /\ x \in Addresses /\ b.addr = x
      /\ writes[x] \in Seq(Kept(k))
      /\ past = BareSeq(writes[x]) /\ past \in Seq(BareAction)
      /\ Len(past) = Len(writes[x])
      /\ SameGraph /\ BareWrites = committed.writes
      /\ Compared(b, i - 1)
  BY <1>1, Comparing
<1>3. i \in Nat \ {0} /\ i \in 1 .. Len(past)
  <2>1. i \in Nat \ {0} /\ i <= Len(past)
    BY <1>2 DEF Compare, MemoryCall
  <2> QED
    BY <1>2, <2>1, LenProperties
<1>4. prev \in Kept(k) /\ past[i] = Bare(prev) /\ Bare(act) = b
  <2>1. prev \in Kept(k)
    BY <1>2, <1>3, ElementOfSeq
  <2>2. i \in DOMAIN writes[x]
    BY <1>2, <1>3, LenProperties
  <2>3. past[i] = Bare(prev)
    BY <1>2, <2>2 DEF BareSeq
  <2> QED
    BY <2>1, <2>3, BareTheAction
<1>5. /\ Detector!Reportable(act, prev) <=> Checker!Reportable(b, past[i])
      /\ BareReport(new) = bnew
      /\ \A r \in Conflicts(k) :
           Detector!SameSlot(r, new) <=> Checker!SameSlot(BareReport(r), bnew)
  BY <1>2, <1>4, BareDetection
<1>6. conflictTable \subseteq Conflicts(k)
  BY DEF RInv, IInv, Printable
<1>7. BareTable = { BareReport(r) : r \in conflictTable }
      /\ BareTable' = { BareReport(r) : r \in conflictTable' }
  BY DEF BareTable, BareReports
<1>8. (\A r \in conflictTable : ~Detector!SameSlot(r, new))
      <=> (\A r \in BareTable : ~Checker!SameSlot(r, bnew))
  BY <1>5, <1>6, <1>7
<1>9. conflictTable' = IF /\ Detector!Reportable(act, prev)
                          /\ \A r \in conflictTable : ~Detector!SameSlot(r, new)
                         THEN conflictTable \cup {new} ELSE conflictTable
  BY DEF Compare
<1>10. BareTable' = IF /\ Checker!Reportable(b, past[i])
                       /\ \A r \in BareTable : ~Checker!SameSlot(r, bnew)
                      THEN BareTable \cup {bnew} ELSE BareTable
  BY <1>5, <1>7, <1>8, <1>9
<1>11. BareTable = T0 \cup Checker!NewReports(b, SubSeq(past, 1, i - 1))
  BY <1>2 DEF Compared
<1>12. BareTable' = T0 \cup Checker!NewReports(b, SubSeq(past, 1, i))
  <2> HIDE DEF act, k, b, x, i, past
  <2>1. Checker!NewReports(b, SubSeq(past, 1, i))
        = IF /\ Checker!Reportable(b, past[i])
             /\ \A r \in T0 \cup Checker!NewReports(b, SubSeq(past, 1, i - 1)) :
                  ~Checker!SameSlot(r, bnew)
          THEN Checker!NewReports(b, SubSeq(past, 1, i - 1)) \cup {bnew}
          ELSE Checker!NewReports(b, SubSeq(past, 1, i - 1))
    <3>1. past \in Seq(BareAction) /\ i \in 1 .. Len(past)
      BY <1>2, <1>3
    <3> HIDE DEF bnew, T0
    <3> QED
      BY <3>1, OneMoreReport DEF bnew, T0
  <2> QED
    BY <1>10, <1>11, <2>1
<1>13. /\ call'[th].pc = "compare" /\ call'[th].op = "access" /\ call'[th].next = i + 1
       /\ call'[th].task = call[th].task /\ call'[th].stmt = call[th].stmt
  BY <1>1, <1>2 DEF Compare, RInv, IInv, Typed, MemoryCall
<1>14. /\ guardLock' = th
       /\ UNCHANGED <<nodes, edges, bagged, HB, writes, committed>>
  BY <1>2 DEF Compare, Local, historyVars
<1>15. SameGraph' /\ BareWrites' = committed'.writes
  BY <1>2, <1>14 DEF SameGraph, BareWrites
<1>16. BareAccess(call[th])' = b
  BY <1>13 DEF BareAccess, Bare, constructMemoryAction
<1>17. call'[th].next - 1 = i
  BY <1>3, <1>13
<1>18. Compared(BareAccess(call[th]), call[th].next - 1)'
  BY <1>2, <1>12, <1>14, <1>16, <1>17
     DEF Compared, Checker!NewReports, Checker!Reportable, Checker!Parallel
<1>19. (call[th].next - 1 <= Len(committed.writes[BareAccess(call[th]).addr]))'
  BY <1>2, <1>3, <1>14, <1>16, <1>17
<1>20. ProgressOf(call[th])'
  BY <1>13, <1>15, <1>18, <1>19 DEF ProgressOf
<1> QED
  BY <1>14, <1>20, ProgressInside

\* Leaving function IDs out commutes with what is done to a history.
LEMMA BareHistory ==
  ASSUME NEW S, NEW w \in Seq(S), NEW act \in S
  PROVE  /\ BareSeq(w) \in Seq({ Bare(a) : a \in S }) /\ Len(BareSeq(w)) = Len(w)
         /\ BareSeq(Append(w, act)) = Append(BareSeq(w), Bare(act))
         /\ w # << >> => BareSeq(Tail(w)) = Tail(BareSeq(w))
<1> DEFINE T == { Bare(a) : a \in S }
<1>1. ASSUME NEW v \in Seq(S)
      PROVE  /\ BareSeq(v) \in Seq(T) /\ Len(BareSeq(v)) = Len(v)
             /\ \A i \in 1 .. Len(v) : BareSeq(v)[i] = Bare(v[i])
  <2>1. /\ Len(v) \in Nat /\ DOMAIN v = 1 .. Len(v)
        /\ \A i \in 1 .. Len(v) : v[i] \in S
    BY LenProperties, ElementOfSeq
  <2>2. BareSeq(v) = [i \in 1 .. Len(v) |-> Bare(v[i])]
    BY <2>1 DEF BareSeq
  <2>3. BareSeq(v) \in [1 .. Len(v) -> T]
    BY <2>1, <2>2
  <2>4. BareSeq(v) \in Seq(T)
    BY <2>1, <2>3, SeqDef
  <2> QED
    BY <2>1, <2>2, <2>4, LenProperties
<1>2. BareSeq(Append(w, act)) = Append(BareSeq(w), Bare(act))
  <2>1. /\ Append(w, act) \in Seq(S) /\ Len(Append(w, act)) = Len(w) + 1
        /\ \A i \in 1 .. Len(w) : Append(w, act)[i] = w[i]
        /\ Append(w, act)[Len(w) + 1] = act
    BY AppendProperties
  <2>2. /\ BareSeq(w) \in Seq(T) /\ Len(BareSeq(w)) = Len(w)
        /\ \A i \in 1 .. Len(w) : BareSeq(w)[i] = Bare(w[i])
    BY <1>1
  <2>3. Bare(act) \in T
    OBVIOUS
  <2> HIDE DEF T
  <2>4. /\ Append(BareSeq(w), Bare(act)) \in Seq(T)
        /\ Len(Append(BareSeq(w), Bare(act))) = Len(w) + 1
        /\ \A i \in 1 .. Len(w) : Append(BareSeq(w), Bare(act))[i] = BareSeq(w)[i]
        /\ Append(BareSeq(w), Bare(act))[Len(w) + 1] = Bare(act)
    BY <2>2, <2>3, AppendProperties
  <2>5. /\ BareSeq(Append(w, act)) \in Seq(T)
        /\ Len(BareSeq(Append(w, act))) = Len(w) + 1
        /\ \A i \in 1 .. Len(w) + 1 : BareSeq(Append(w, act))[i] = Bare(Append(w, act)[i])
    BY <1>1, <2>1
  <2>6. Len(w) \in Nat
    BY LenProperties
  <2>7. \A i \in 1 .. Len(w) + 1 :
          BareSeq(Append(w, act))[i] = Append(BareSeq(w), Bare(act))[i]
    <3> SUFFICES ASSUME NEW i \in 1 .. Len(w) + 1
                 PROVE  BareSeq(Append(w, act))[i] = Append(BareSeq(w), Bare(act))[i]
      OBVIOUS
    <3>1. CASE i = Len(w) + 1
      BY <2>1, <2>4, <2>5, <3>1
    <3>2. CASE i \in 1 .. Len(w)
      BY <2>1, <2>2, <2>4, <2>5, <3>2
    <3>3. i = Len(w) + 1 \/ i \in 1 .. Len(w)
      BY <2>6
    <3> QED
      BY <3>1, <3>2, <3>3
  <2> QED
    BY <2>4, <2>5, <2>7, SeqEqual
<1>3. ASSUME w # << >>
      PROVE  BareSeq(Tail(w)) = Tail(BareSeq(w))
  <2>1. Len(w) \in Nat /\ Len(w) # 0
    BY <1>3, LenProperties, EmptySeq
  <2>2. /\ Tail(w) \in Seq(S) /\ Len(Tail(w)) = Len(w) - 1
        /\ \A i \in 1 .. Len(Tail(w)) : Tail(w)[i] = w[i + 1]
    BY <1>3, HeadTailProperties
  <2>3. /\ BareSeq(w) \in Seq(T) /\ Len(BareSeq(w)) = Len(w)
        /\ \A i \in 1 .. Len(w) : BareSeq(w)[i] = Bare(w[i])
    BY <1>1
  <2>4. BareSeq(w) # << >>
    BY <2>1, <2>3
  <2> HIDE DEF T
  <2>5. /\ Tail(BareSeq(w)) \in Seq(T) /\ Len(Tail(BareSeq(w))) = Len(w) - 1
        /\ \A i \in 1 .. Len(Tail(BareSeq(w))) : Tail(BareSeq(w))[i] = BareSeq(w)[i + 1]
    BY <2>3, <2>4, HeadTailProperties
  <2>6. /\ BareSeq(Tail(w)) \in Seq(T) /\ Len(BareSeq(Tail(w))) = Len(w) - 1
        /\ \A i \in 1 .. Len(w) - 1 : BareSeq(Tail(w))[i] = Bare(Tail(w)[i])
    BY <1>1, <2>2
  <2>7. \A i \in 1 .. Len(w) - 1 : BareSeq(Tail(w))[i] = Tail(BareSeq(w))[i]
    <3> SUFFICES ASSUME NEW i \in 1 .. Len(w) - 1
                 PROVE  BareSeq(Tail(w))[i] = Tail(BareSeq(w))[i]
      OBVIOUS
    <3>1. i + 1 \in 1 .. Len(w)
      BY <2>1
    <3> QED
      BY <2>2, <2>3, <2>5, <2>6, <3>1
  <2> QED
    BY <2>5, <2>6, <2>7, SeqEqual
<1> QED
  BY <1>1, <1>2, <1>3

\* The access enters the history after the loop, as in the specification.
LEMMA SaveProgress ==
  ASSUME RInv, IInv', NEW th \in Threads, Save(th)
  PROVE  Progress'
<1> DEFINE act == TheAction(th)
           S   == Kept(funcIDSeed - 1)
           b   == BareAccess(call[th])
           x   == act.addr
           i   == call[th].next
           w   == writes[x]
           past == committed.writes[x]
<1>1. call[th].pc = "compare"
  BY DEF Save
<1>2. /\ call[th] \in MemoryCall /\ call[th].op = "access" /\ guardLock = th
      /\ act \in S /\ x \in Addresses /\ b.addr = x /\ w \in Seq(S)
      /\ past = BareSeq(w) /\ past \in Seq(BareAction) /\ Len(past) = Len(w)
      /\ SameGraph /\ BareWrites = committed.writes
      /\ i - 1 <= Len(past) /\ Compared(b, i - 1)
  BY <1>1, Comparing
<1>3. i - 1 = Len(past)
  BY <1>2, LenProperties DEF Save, MemoryCall
<1>4. BareSeq(Append(Detector!MakeRoom(w), act)) = Append(Checker!MakeRoom(past), b)
  <2>1. Detector!MakeRoom(w) \in Seq(S)
    BY <1>2, RoomTyped
  <2>2. Bare(act) = b
    BY BareTheAction
  <2> HIDE DEF S, act, w, past
  <2>3. BareSeq(Detector!MakeRoom(w)) = Checker!MakeRoom(past)
    <3>1. CASE Len(w) >= HistoryBound
      <4>1. w # << >>
        BY <1>2, <3>1, EmptySeq
      <4>2. BareSeq(Tail(w)) = Tail(past)
        BY <1>2, <4>1, BareHistory
      <4> QED
        BY <1>2, <3>1, <4>2 DEF Detector!MakeRoom, Checker!MakeRoom
    <3>2. CASE ~(Len(w) >= HistoryBound)
      BY <1>2, <3>2 DEF Detector!MakeRoom, Checker!MakeRoom
    <3> QED
      BY <3>1, <3>2
  <2>4. BareSeq(Append(Detector!MakeRoom(w), act))
        = Append(BareSeq(Detector!MakeRoom(w)), Bare(act))
    BY <1>2, <2>1, BareHistory
  <2> QED
    BY <2>2, <2>3, <2>4
<1>5. writes' = [writes EXCEPT ![x] = Append(Detector!MakeRoom(w), act)]
  BY DEF Save
<1>6. BareWrites' = [committed.writes EXCEPT ![x] = Append(Checker!MakeRoom(past), b)]
  <2> DEFINE v == Append(Detector!MakeRoom(w), act)
  <2>1. \A y \in Addresses : writes'[y] = IF y = x THEN v ELSE writes[y]
    BY <1>5 DEF RInv, IInv, Printable
  <2>2. BareSeq(v) = Append(Checker!MakeRoom(past), b)
    BY <1>4
  <2> HIDE DEF v, b, past, x
  <2>3. BareWrites' = [y \in Addresses |->
                         IF y = x THEN Append(Checker!MakeRoom(past), b)
                                  ELSE BareSeq(writes[y])]
    BY <2>1, <2>2 DEF BareWrites
  <2>4. committed.writes = [y \in Addresses |-> BareSeq(writes[y])]
    BY <1>2 DEF BareWrites
  <2> QED
    BY <2>3, <2>4
<1>7. /\ call'[th].pc = "unlock" /\ call'[th].op = "access"
      /\ call'[th].task = call[th].task /\ call'[th].stmt = call[th].stmt
  BY <1>1, <1>2 DEF Save, RInv, IInv, Typed, MemoryCall
<1>8. /\ guardLock' = th
      /\ UNCHANGED <<nodes, edges, bagged, HB, conflictTable, committed>>
  BY <1>2 DEF Save, Local, historyVars
<1>9. SameGraph' /\ BareTable' = BareTable
  BY <1>2, <1>8 DEF SameGraph, BareTable
<1>10. BareAccess(call[th])' = b
  BY <1>7 DEF BareAccess, Bare, constructMemoryAction
<1>11. Saved(BareAccess(call[th]))'
  BY <1>2, <1>6, <1>8, <1>10 DEF Saved
<1>12. Compared(BareAccess(call[th]), Len(committed.writes[BareAccess(call[th]).addr]))'
  BY <1>2, <1>3, <1>8, <1>9, <1>10
     DEF Compared, Checker!NewReports, Checker!Reportable, Checker!Parallel
<1>13. ProgressOf(call[th])'
  BY <1>7, <1>9, <1>11, <1>12 DEF ProgressOf
<1> QED
  BY <1>8, <1>13, ProgressInside

\* What is committed when the lock is given back is the checker.
LEMMA UnlockProgress ==
  ASSUME RInv, IInv', NEW th \in Threads, Unlock(th)
  PROVE  Progress'
<1>1. \A o \in Threads : ~Holds(o)'
  BY Unlocked DEF IInv, Exclusion
<1>2. SameGraph' /\ SameLog'
  BY Unlocked DEF SameGraph, SameLog, BareWrites, BareTable
<1> QED
  BY <1>1, <1>2 DEF Progress

-----------------------------------------------------------------------------
(* The invariant.                                                          *)

\* Nothing has begun.
LEMMA InitRInv == Init => RInv
<1> SUFFICES ASSUME Init
             PROVE  RInv
  OBVIOUS
<1>1. IInv
  BY InitIInv
<1>2. /\ committed.nodes = nodes /\ committed.edges = edges
      /\ committed.bagged = bagged /\ committed.HB = HB
      /\ committed.writes = BareWrites /\ committed.conflictTable = BareTable
  BY DEF Init, CheckerState, BareWrites, BareTable
<1>3. SameGraph /\ SameLog
  BY <1>2 DEF SameGraph, SameLog
<1>4. \A th \in Threads : ~Holds(th)
  BY DEF Init, Idle, Holds
<1>5. Progress
  BY <1>3, <1>4 DEF Progress
<1>6. \A x \in Addresses : BareWrites[x] = << >>
  BY DEF Init, BareWrites, BareSeq
<1>7. CommittedTyped
  <2>1. BareWrites \in [Addresses -> Seq(BareAction)]
    BY <1>6, EmptySeq DEF BareWrites
  <2> QED
    BY <1>2, <2>1, EmptySeq DEF Init, CommittedTyped
<1>8. EdgesSettled /\ IDsFresh /\ StartedInOrder
  BY <1>2 DEF Init, Idle, EdgesSettled, IDsFresh, StartedInOrder
<1>9. OneThreadPerTask
  BY DEF Init, Idle, OneThreadPerTask, Working
<1>10. RoomLeft
  <2> SUFFICES ASSUME NEW x \in Addresses
               PROVE  Len(accesses[x]) + Cardinality(Pending(x)) <= MaxAccesses
    BY DEF RoomLeft
  <2>1. Pending(x) = {}
    BY DEF Init, Idle, Pending
  <2>2. Cardinality({}) = 0 /\ Len(accesses[x]) = 0
    BY FS_EmptySet, EmptySeq DEF Init
  <2> QED
    BY <2>1, <2>2
<1>11. \A th \in Threads : Promised(call[th])
  BY DEF Init, Idle, Promised
<1> QED
  BY <1>1, <1>5, <1>7, <1>8, <1>9, <1>10, <1>11 DEF RInv, Client

\* What the program does keeps the promises and leaves the checker alone.
ProgramStep ==
  \/ Finalize
  \/ \E t \in TaskIDs : TaskReady(t) \/ TaskOver(t)
  \/ \E th \in Threads :
       \/ TaskBeginLog(th)
       \/ \E t \in TaskIDs : \/ \E P \in SUBSET TaskIDs : saveChildHBs(th, t, P)
                           \/ \E s \in Code[t] : ReadOrWrite(th, t, s)

\* Every step is one of the program, one inside a call, or the end of a call.
LEMMA StepKinds ==
  ASSUME Next
  PROVE  ProgramStep \/ \E th \in Threads : Inside(th) \/ Unlock(th)
BY DEF Next, Step, ProgramStep, Inside

\* Every step preserves the invariant.
LEMMA NextRInv == RInv /\ [Next]_vars => RInv'
<1> SUFFICES ASSUME RInv, [Next]_vars
             PROVE  RInv'
  OBVIOUS
<1>1. IInv'
  BY NextIInv DEF RInv
<1>2. CASE ProgramStep
  <2>1. Client'
    BY <1>2, FinalizeClient, TaskReadyClient, TaskOverClient, TaskBeginLogClient,
       SaveChildHBsClient, ReadOrWriteClient DEF ProgramStep
  <2>2. Progress'
    BY <1>2, ProgramProgress DEF ProgramStep
  <2> QED
    BY <1>1, <2>1, <2>2 DEF RInv
<1>3. ASSUME NEW th \in Threads, Inside(th)
      PROVE  RInv'
  <2>1. Client'
    BY <1>3, InsideClient
  <2>2. Progress'
    BY <1>1, <1>3, RegistryProgress, OnTaskCreateProgress,
       SaveHappensBeforeEdgeProgress, DetectRaceOnMemProgress, CompareProgress,
       SaveProgress DEF Inside
  <2> QED
    BY <1>1, <2>1, <2>2 DEF RInv
<1>4. ASSUME NEW th \in Threads, Unlock(th)
      PROVE  RInv'
  BY <1>1, <1>4, UnlockClient, UnlockProgress DEF RInv
<1>5. CASE UNCHANGED vars
  <2>1. /\ UNCHANGED <<guardLock, checkerVars, committed, creating, call, taskIDSeed,
                       done, accesses>>
    BY <1>5 DEF vars, programVars, historyVars
  <2>2. Progress'
    BY <2>1, ProgressOutside
  <2>3. Client'
    BY <2>1 DEF RInv, Client, CommittedTyped, EdgesSettled, IDsFresh,
                OneThreadPerTask, StartedInOrder, RoomLeft, Pending, Promised
  <2> QED
    BY <1>1, <2>2, <2>3 DEF RInv
<1> QED
  BY <1>2, <1>3, <1>4, <1>5, StepKinds

-----------------------------------------------------------------------------
(* The refinement.                                                         *)

\* A call that announces a task ends as one step of the checker.
LEMMA UnlockBegin ==
  ASSUME RInv, NEW th \in Threads, Unlock(th), call[th].op = "begin"
  PROVE  Checker!TaskBegin(call[th].task)
<1> DEFINE t == call[th].task
<1>1. t \in TaskIDs /\ t \notin committed.bagged
  BY ShapeOfOp DEF RInv, BeginCall, Client, IDsFresh
<1>2. SameLog /\ Begun(t) /\ creating' = creating \cup {t}
  BY Unlocked DEF ProgressOf, Unlock
<1>3. Detector!inEdges(committed.edges, t) = Checker!inEdges(committed.edges, t)
  BY DEF Detector!inEdges, Checker!inEdges
<1>4. Detector!InheritedHB(committed.edges, committed.HB, t)
      = Checker!InheritedHB(committed.edges, committed.HB, t)
  BY DEF Detector!InheritedHB, Checker!InheritedHB, Detector!inEdges, Checker!inEdges
<1>5. Checker!onTaskCreate(t)
  BY <1>2, <1>3, <1>4, Unlocked DEF Begun, Checker!onTaskCreate
<1>6. UNCHANGED Checker!accessVars
  BY <1>2, Unlocked DEF SameLog, Checker!accessVars, Unlock
<1> QED
  BY <1>1, <1>2, <1>5, <1>6 DEF Checker!TaskBegin

\* A call that orders a task ends as one step of the checker, however many edges
\* it added.
LEMMA UnlockOrder ==
  ASSUME RInv, NEW th \in Threads, Unlock(th), call[th].op = "order"
  PROVE  \E Q \in SUBSET (committed.bagged \ creating) :
           Checker!OrderAfter(Q, call[th].task)
<1> DEFINE t == call[th].task
<1>1. t \in TaskIDs /\ t \in creating
  BY ShapeOfOp DEF RInv, OrderCall, Client, Promised
<1>2. SameLog
  BY Unlocked DEF ProgressOf
<1>3. PICK Q \in SUBSET (committed.bagged \ creating) : Q # {} /\ Linked(Q, t)
  BY Unlocked DEF ProgressOf
<1>4. \A E : Detector!InheritedHB(E, committed.HB, t)
             = Checker!InheritedHB(E, committed.HB, t)
  BY DEF Detector!InheritedHB, Checker!InheritedHB, Detector!inEdges, Checker!inEdges
<1>5. Checker!saveHappensBeforeEdges(Q, t)
  BY <1>3, <1>4, Unlocked DEF Linked, Checker!saveHappensBeforeEdges
<1>6. creating' = creating /\ UNCHANGED Checker!accessVars
  BY <1>2, Unlocked DEF SameLog, Checker!accessVars, Unlock
<1>7. Checker!OrderAfter(Q, t)
  BY <1>1, <1>3, <1>5, <1>6 DEF Checker!OrderAfter
<1> QED
  BY <1>7

\* A call that logs an access ends as one step of the checker, in which all of the
\* history is compared at once.
LEMMA UnlockAccess ==
  ASSUME RInv, NEW th \in Threads, Unlock(th), call[th].op = "access"
  PROVE  LET b == BareAccess(call[th])
         IN  /\ b \in BareAction /\ (b.isWrite \/ b.value = 0)
             /\ Checker!Access(b)
<1> DEFINE c == call[th]
           b == BareAccess(c)
           x == b.addr
           past == committed.writes[x]
<1>1. /\ c.stmt \in Statements /\ b \in BareAction /\ x = AsRead[c.stmt.addr]
      /\ x \in Addresses /\ b.task = c.task
  BY CallAccess DEF RInv
<1>2. b.isWrite \/ b.value = 0
  <2>1. c.stmt.isWrite \/ c.stmt.value = 0
    BY <1>1 DEF Statements
  <2> QED
    BY <2>1 DEF BareAccess, Bare, constructMemoryAction
<1>3. /\ c.task \in committed.bagged \ (creating \cup done)
      /\ committed.HB[c.task] \subseteq done
  BY DEF RInv, Client, Promised
<1>4. \A s \in Checker!Started : b.task \notin committed.HB[s]
  BY <1>1, <1>3 DEF Checker!Started, RInv, Client, StartedInOrder
<1>5. Len(accesses[x]) < MaxAccesses
  <2>1. th \in Pending(x)
    BY <1>1 DEF Pending
  <2>2. Pending(x) \subseteq Threads
    BY DEF Pending
  <2>3. IsFiniteSet(Pending(x))
    BY <2>2, FS_Subset
  <2>4. Cardinality(Pending(x)) \in Nat /\ Cardinality(Pending(x)) # 0
    BY <2>1, <2>3, FS_CardinalityType, FS_EmptySet
  <2>5. Len(accesses[x]) \in Nat
    BY <1>1, LenProperties DEF RInv, Client, CommittedTyped
  <2>6. Len(accesses[x]) + Cardinality(Pending(x)) <= MaxAccesses
    BY <1>1 DEF RInv, Client, RoomLeft
  <2> QED
    BY <2>4, <2>5, <2>6
<1>6. SameGraph /\ Saved(b) /\ Compared(b, Len(past))
  BY Unlocked DEF ProgressOf
<1>7. SubSeq(past, 1, Len(past)) = past
  BY <1>1, SubSeqFull DEF RInv, Client, CommittedTyped
<1>8. committed'.conflictTable
        = committed.conflictTable \cup Checker!NewReports(b, past)
  BY <1>6, <1>7, Unlocked DEF Compared
<1>9. committed'.writes = [committed.writes EXCEPT
                             ![x] = Append(Checker!MakeRoom(past), b)]
  BY <1>6, Unlocked DEF Saved
<1>10. Checker!saveTaskActions(b)
  BY <1>8, <1>9 DEF Checker!saveTaskActions
<1>11. accesses' = [accesses EXCEPT ![x] = Append(@, b)] /\ creating' = creating
  BY <1>1 DEF Unlock
<1>12. UNCHANGED Checker!graphVars
  BY <1>6, Unlocked DEF SameGraph, Checker!graphVars
<1>13. Checker!Access(b)
  BY <1>1, <1>3, <1>4, <1>5, <1>10, <1>11, <1>12 DEF Checker!Access
<1> QED
  BY <1>1, <1>2, <1>13

\* The call that reports changes nothing.
LEMMA UnlockReport ==
  ASSUME RInv, NEW th \in Threads, Unlock(th), call[th].op = "report"
  PROVE  UNCHANGED Checker!vars
<1>1. SameGraph /\ SameLog
  BY Unlocked DEF ProgressOf
<1> QED
  BY <1>1, Unlocked DEF SameGraph, SameLog, Unlock, Checker!vars

\* Every step is a step of the checker's specification, or none.
LEMMA RefinesStep == RInv /\ [Next]_vars => [Checker!Next]_(Checker!vars)
<1> SUFFICES ASSUME RInv, [Next]_vars
             PROVE  Checker!Next \/ UNCHANGED Checker!vars
  OBVIOUS
<1>1. CASE ProgramStep
  <2>1. CASE \E t \in TaskIDs : TaskReady(t)
    <3>1. PICK t \in TaskIDs : TaskReady(t)
      BY <2>1
    <3>2. Checker!TaskReady(t)
      BY <3>1 DEF TaskReady, historyVars, Checker!TaskReady, Checker!graphVars,
                  Checker!accessVars
    <3> QED
      BY <3>2 DEF Checker!Next
  <2>2. CASE ~ \E t \in TaskIDs : TaskReady(t)
    <3>1. UNCHANGED <<committed, creating, accesses>>
      BY <1>1, <2>2 DEF ProgramStep, Finalize, TaskOver, TaskBeginLog, saveChildHBs,
                        ReadOrWrite, Enter, programVars, historyVars
    <3> QED
      BY <3>1 DEF Checker!vars
  <2> QED
    BY <2>1, <2>2
<1>2. ASSUME NEW th \in Threads, Inside(th)
      PROVE  UNCHANGED Checker!vars
  <2>1. UNCHANGED <<committed, creating, accesses>>
    BY <1>2 DEF Inside, LockRegistry, FindFunction, AddFunction, UnlockRegistry, Lock,
                onTaskCreate, saveHappensBeforeEdge, reportConflicts,
                detectRaceOnMem, Compare, Save, Local, programVars, historyVars
  <2> QED
    BY <2>1 DEF Checker!vars
<1>3. ASSUME NEW th \in Threads, Unlock(th)
      PROVE  Checker!Next \/ UNCHANGED Checker!vars
  <2>1. CASE call[th].op = "begin"
    <3>1. Checker!TaskBegin(call[th].task) /\ call[th].task \in TaskIDs
      BY <1>3, <2>1, UnlockBegin, ShapeOfOp DEF RInv, BeginCall
    <3> QED
      BY <3>1 DEF Checker!Next
  <2>2. CASE call[th].op = "order"
    <3>1. /\ \E Q \in SUBSET (committed.bagged \ creating) :
               Checker!OrderAfter(Q, call[th].task)
          /\ call[th].task \in TaskIDs
      BY <1>3, <2>2, UnlockOrder, ShapeOfOp DEF RInv, OrderCall
    <3> QED
      BY <3>1 DEF Checker!Next
  <2>3. CASE call[th].op = "access"
    BY <1>3, <2>3, UnlockAccess DEF Checker!Next, BareAction
  <2>4. CASE call[th].op = "report"
    BY <1>3, <2>4, UnlockReport
  <2> QED
    BY <1>3, <2>1, <2>2, <2>3, <2>4, Unlocked
<1>4. CASE UNCHANGED vars
  BY <1>4 DEF vars, programVars, historyVars, Checker!vars
<1> QED
  BY <1>1, <1>2, <1>3, <1>4, StepKinds

\* The first state is one of the checker's specification.
LEMMA RefinesInit == Init => Checker!Init
<1> SUFFICES ASSUME Init
             PROVE  Checker!Init
  OBVIOUS
<1>1. \A x \in Addresses : BareSeq(writes[x]) = << >>
  BY DEF Init, BareSeq
<1>2. committed.writes = [x \in Addresses |-> << >>]
  BY <1>1 DEF Init, CheckerState
<1>3. committed.conflictTable = {}
  BY DEF Init, CheckerState, BareReports
<1> QED
  BY <1>2, <1>3 DEF Init, CheckerState, Checker!Init

\* For any number of threads and tasks and any program, threads see the checker
\* change as its specification says, one operation at a time, although every
\* operation takes many steps: guardLock makes each call one step (Logger.h:65-67).
THEOREM Refinement == Spec => CheckerSpec
<1>1. Init => RInv
  BY InitRInv
<1>2. RInv /\ [Next]_vars => RInv'
  BY NextRInv
<1>3. Init => Checker!Init
  BY RefinesInit
<1>4. RInv /\ [Next]_vars => [Checker!Next]_(Checker!vars)
  BY RefinesStep
<1> QED
  BY <1>1, <1>2, <1>3, <1>4, PTL DEF Spec, CheckerSpec, Checker!Spec
=============================================================================
