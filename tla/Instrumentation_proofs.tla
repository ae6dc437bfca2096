------------------------ MODULE Instrumentation_proofs ------------------------
(***************************************************************************)
(* Proofs about the pass and the calls it inserts, for any function, any   *)
(* number of tasks and any way they interleave: when instrumentation does  *)
(* not change what the function computes, and that the accesses that the   *)
(* pass leaves out hide no race.                                           *)
(***************************************************************************)
EXTENDS Instrumentation, SequenceTheorems, TLAPS

USE ProgramAssumption

-----------------------------------------------------------------------------
(* The hypotheses.                                                         *)

\* Atomic instructions whose callbacks do what the instructions did.
KeepsMeaning(i) == \/ i.op = "atomic load"
                   \/ i.op = "fetch_add" /\ i.addr \in Words

\* The function has no other atomic instruction that is replaced.
AtomicsKeepMeaning ==
  \A i \in Instructions :
    i.op \in Replaceable /\ getMemoryAccessFuncIndex(i.addr) >= 0 => KeepsMeaning(i)

\* No load or store is on a line whose number becomes 0 in the i8 that is passed.
LinesLogged ==
  \A i \in Instructions : i.op \in Accesses => i.line % LineField # 0

-----------------------------------------------------------------------------
(* The inductive invariant.                                                *)

\* No call and no end of a block from k to m: what is at k and at m is executed
\* in one segment, the one after the other.
Straight(k, m) == \A n \in k .. m : body[n].op \notin Calls \cup {Terminator}

\* A store to address a that is instrumented follows before the next call or branch.
StoreAhead(k, a) ==
  \E m \in All : /\ m >= k /\ body[m].op = "store" /\ body[m].addr = a
                 /\ Straight(k, m)

\* Why an access at k need not be a candidate any more.
Settled(k) ==
  LET a == body[k].addr
  IN  \/ k \in All
      \/ a \in Foreign \cup Private
      \/ body[k].op = "load" /\ (a \in ConstantData \/ StoreAhead(k, a))

\* The candidates lie in one straight run, and other accesses are settled.
Chosen ==
  /\ \A k \in Local : Straight(k, Len(body))
  /\ \A k \in DOMAIN body : body[k].op \in Accesses => k \in Local \/ Settled(k)

\* The log stands for the access, or will before the segment is over.
Covered(e) == \E d \in StandIn(e) : e.isWrite => d.isWrite
Awaited(e) == e.segment = segment[e.task] /\ StoreAhead(pc[e.task], e.addr)

Recorded ==
  /\ phase = "scan" => accesses = {}
  /\ \A e \in accesses :
       /\ e.task \in Tasks
       /\ e.isWrite => e.addr \notin ConstantData
       /\ taskInfo[e.task] /\ Checked(e.addr) =>
            e.addr \in ConstantData \/ Covered(e) \/ Awaited(e)

-----------------------------------------------------------------------------
(* Type correctness.                                                       *)

\* The positions of a body that is visited further.
LEMMA VisitBody ==
  ASSUME TypeOK, NEW i \in Instructions, Visit(i)
  PROVE  /\ body' \in Seq(Instructions)
         /\ Len(body) \in Nat
         /\ DOMAIN body = 1 .. Len(body)
         /\ Len(body') = Len(body) + 1
         /\ DOMAIN body' = 1 .. Len(body) + 1
         /\ \A k \in DOMAIN body : k \in DOMAIN body' /\ body'[k] = body[k]
         /\ body'[Len(body) + 1] = i
         /\ Len(body) + 1 \notin DOMAIN body
<1>1. body \in Seq(Instructions) /\ body' = Append(body, i)
  BY DEF TypeOK, Visit
<1>2. /\ body' \in Seq(Instructions) /\ Len(body') = Len(body) + 1
      /\ \A k \in 1 .. Len(body) : body'[k] = body[k]
      /\ body'[Len(body) + 1] = i
  BY <1>1, AppendProperties
<1>3. /\ Len(body) \in Nat /\ DOMAIN body = 1 .. Len(body)
      /\ DOMAIN body' = 1 .. Len(body')
  BY <1>1, <1>2, LenProperties
<1> QED
  BY <1>2, <1>3

\* Only accesses are chosen, and they are candidates.
LEMMA ChosenAreCandidates == chooseInstructionsToInstrument(Local) \subseteq Local
BY DEF chooseInstructionsToInstrument

\* An instruction is visited.
LEMMA VisitTyped ==
  ASSUME TypeOK, NEW i \in Instructions,
         \/ VisitAtomic(i) \/ VisitLoadOrStore(i) \/ VisitCall(i) \/ EndOfBlock(i)
  PROVE  TypeOK'
<1>1. Visit(i) /\ phase = "scan" /\ UNCHANGED <<phase, pc>>
  BY DEF VisitAtomic, VisitLoadOrStore, VisitCall, EndOfBlock, Visit
<1>2. /\ body' \in Seq(Instructions)
      /\ Len(body) \in Nat /\ DOMAIN body = 1 .. Len(body)
      /\ Len(body') = Len(body) + 1 /\ DOMAIN body' = 1 .. Len(body) + 1
      /\ \A k \in DOMAIN body : k \in DOMAIN body' /\ body'[k] = body[k]
      /\ body'[Len(body) + 1] = i /\ Len(body) + 1 \notin DOMAIN body
  BY <1>1, VisitBody
<1>3. pc' \in [Tasks -> 1 .. Len(body') + 1]
  <2>1. pc \in [Tasks -> 1 .. Len(body) + 1]
    BY DEF TypeOK
  <2>2. 1 .. Len(body) + 1 \subseteq 1 .. Len(body') + 1
    BY <1>2
  <2> QED
    BY <1>1, <2>1, <2>2
<1>4. /\ Local' \subseteq DOMAIN body' /\ All' \subseteq DOMAIN body'
      /\ AtomicAccesses' \subseteq DOMAIN body'
      /\ \A k \in Local' \cup All' : body'[k].op \in Accesses
      /\ Local' \cap All' = {}
  <2>1. Len(body) + 1 \in DOMAIN body'
    BY <1>2
  <2>2. CASE VisitAtomic(i)
    BY <1>2, <2>1, <2>2 DEF TypeOK, VisitAtomic
  <2>3. CASE VisitLoadOrStore(i)
    BY <1>2, <2>1, <2>3 DEF TypeOK, VisitLoadOrStore
  <2>4. CASE VisitCall(i) \/ EndOfBlock(i)
    BY <1>2, <2>4, ChosenAreCandidates DEF TypeOK, VisitCall, EndOfBlock, Flush
  <2> QED
    BY <2>2, <2>3, <2>4
<1> QED
  BY <1>1, <1>2, <1>3, <1>4 DEF TypeOK

\* A task stays inside the function.
LEMMA AdvanceTyped ==
  ASSUME TypeOK, NEW t \in Tasks, pc[t] \in DOMAIN body,
         NEW k \in {pc[t] + 1, Len(body) + 1}, pc' = [pc EXCEPT ![t] = k],
         UNCHANGED <<phase, passVars>>
  PROVE  TypeOK'
<1>1. Len(body) \in Nat /\ DOMAIN body = 1 .. Len(body)
  BY LenProperties DEF TypeOK
<1>2. k \in 1 .. Len(body) + 1
  BY <1>1
<1>3. UNCHANGED <<phase, body, Local, All, AtomicAccesses>>
  BY DEF passVars
<1>4. pc' \in [Tasks -> 1 .. Len(body) + 1]
  BY <1>2 DEF TypeOK
<1> QED
  BY <1>3, <1>4 DEF TypeOK

\* What a task does is one of these.
Executes(t) == LoadOrStore(t) \/ Atomic(t) \/ Memset(t) \/ Call(t) \/ Branch(t)

\* A step of a task moves it on and changes nothing of the pass.
LEMMA ExecutesMoves ==
  ASSUME NEW t \in Tasks, Executes(t)
  PROVE  /\ phase = "run" /\ pc[t] \in DOMAIN body
         /\ \E k \in {pc[t] + 1, Len(body) + 1} : pc' = [pc EXCEPT ![t] = k]
         /\ UNCHANGED <<phase, passVars, taskInfo>>
<1>1. CASE LoadOrStore(t) \/ Atomic(t) \/ Memset(t) \/ Call(t)
  BY <1>1 DEF LoadOrStore, Atomic, Memset, Call, At
<1>2. CASE Branch(t)
  BY <1>2 DEF Branch, At
<1> QED
  BY <1>1, <1>2 DEF Executes

\* Every step keeps the types.
LEMMA NextTyped == TypeOK /\ [Next]_vars => TypeOK'
<1> SUFFICES ASSUME TypeOK, [Next]_vars
             PROVE  TypeOK'
  OBVIOUS
<1>1. ASSUME NEW i \in Instructions,
             \/ VisitAtomic(i) \/ VisitLoadOrStore(i) \/ VisitCall(i) \/ EndOfBlock(i)
      PROVE  TypeOK'
  BY <1>1, VisitTyped
<1>2. CASE EndOfFunction
  BY <1>2, ChosenAreCandidates DEF TypeOK, EndOfFunction, Flush
<1>3. ASSUME NEW t \in Tasks, Executes(t)
      PROVE  TypeOK'
  BY <1>3, ExecutesMoves, AdvanceTyped
<1>4. CASE UNCHANGED vars
  BY <1>4 DEF vars, passVars, TypeOK
<1> QED
  BY <1>1, <1>2, <1>3, <1>4 DEF Next, Executes

\* At first nothing has been visited.
LEMMA InitTyped == Init => TypeOK
<1> SUFFICES ASSUME Init
             PROVE  TypeOK
  OBVIOUS
<1>1. body = << >> /\ body \in Seq(Instructions) /\ Len(body) = 0 /\ DOMAIN body = {}
  BY EmptySeq DEF Init
<1>2. pc \in [Tasks -> 1 .. Len(body) + 1]
  BY <1>1 DEF Init
<1> QED
  BY <1>1, <1>2 DEF Init, TypeOK

\* The lists of the pass hold positions of instructions of the right kind whatever
\* function it is given: no access is in two of them, and none is left over when
\* the function ends (TaskSanitizer.cc:343-390).
THEOREM Typed == Spec => []TypeOK
BY InitTyped, NextTyped, PTL DEF Spec

-----------------------------------------------------------------------------
(* The instrumented function computes what the function does.              *)

\* The callbacks of these instructions do what the instructions did ...
LEMMA MeaningKept ==
  ASSUME NEW i, KeepsMeaning(i), NEW old, NEW r
  PROVE  AtomicCallback(i, old, r) = Native(i, old, r)
BY DEF KeepsMeaning, AtomicCallback, Native, Operand

\* ... and those of the others do not, for some memory and register.
LEMMA MeaningLost ==
  ASSUME NEW i \in Instruction, i.op \in Replaceable, ~KeepsMeaning(i)
  PROVE  \E old, r \in Int : AtomicCallback(i, old, r) # Native(i, old, r)
<1> DEFINE v == Operand(i, 0)
<1>1. v \in Int
  BY DEF Operand, Instruction
<1>2. AtomicCallback(i, v + 1, 0) # Native(i, v + 1, 0)
  <2>1. CASE i.op = "atomic store"
    <3>1. AtomicCallback(i, v + 1, 0).mem = v + 1
      BY <2>1 DEF AtomicCallback
    <3>2. Native(i, v + 1, 0).mem = v
      BY <2>1 DEF Native
    <3> QED
      BY <1>1, <3>1, <3>2
  <2>2. CASE i.op \in {"fetch_add", "fetch_sub", "cmpxchg"}
    <3>1. AtomicCallback(i, v + 1, 0).reg = v
      BY <1>1, <2>2 DEF AtomicCallback, ReturnOperand, KeepsMeaning
    <3>2. Native(i, v + 1, 0).reg = v + 1
      BY <1>1, <2>2 DEF Native
    <3> QED
      BY <1>1, <3>1, <3>2
  <2> QED
    BY <2>1, <2>2 DEF Replaceable, KeepsMeaning
<1> QED
  BY <1>1, <1>2

\* An instruction takes effect as in the original function.
LEMMA ExecuteTransparent ==
  ASSUME Transparent, NEW t \in Tasks, NEW replaced,
         replaced => KeepsMeaning(Here(t)), Execute(t, replaced)
  PROVE  Transparent'
<1> DEFINE i == Here(t)
           p == Place(t, i.addr)
<1>1. AtomicCallback(i, mem[p], reg[t]) = Native(i, mem[p], reg[t]) \/ ~replaced
  BY MeaningKept
<1> QED
  BY <1>1 DEF Execute, Transparent

\* Every step keeps memory and registers equal to those of the original function.
LEMMA NextTransparent ==
  AtomicsKeepMeaning /\ TypeOK /\ Transparent /\ [Next]_vars => Transparent'
<1> SUFFICES ASSUME AtomicsKeepMeaning, TypeOK, Transparent, [Next]_vars
             PROVE  Transparent'
  OBVIOUS
<1>1. ASSUME NEW t \in Tasks, LoadOrStore(t) \/ Memset(t)
      PROVE  Transparent'
  BY <1>1, ExecuteTransparent DEF LoadOrStore, Memset
<1>2. ASSUME NEW t \in Tasks, Atomic(t)
      PROVE  Transparent'
  <2>1. Here(t) \in Instructions
    BY <1>2, ElementOfSeq, LenProperties DEF TypeOK, Atomic, At, Here
  <2>2. instrumentAtomic(pc[t]) => KeepsMeaning(Here(t))
    BY <2>1 DEF AtomicsKeepMeaning, instrumentAtomic, Here
  <2> QED
    BY <1>2, <2>2, ExecuteTransparent DEF Atomic
<1>3. ASSUME UNCHANGED dataVars
      PROVE  Transparent'
  BY <1>3 DEF dataVars, Transparent
<1>4. CASE \E i \in Instructions : \/ VisitAtomic(i) \/ VisitLoadOrStore(i)
                                   \/ VisitCall(i) \/ EndOfBlock(i)
  BY <1>3, <1>4 DEF VisitAtomic, VisitLoadOrStore, VisitCall, EndOfBlock, Visit
<1>5. CASE EndOfFunction \/ \E t \in Tasks : Call(t) \/ Branch(t)
  BY <1>3, <1>5 DEF EndOfFunction, Call, Branch
<1>6. CASE UNCHANGED vars
  BY <1>3, <1>6 DEF vars
<1> QED
  BY <1>1, <1>2, <1>4, <1>5, <1>6 DEF Next

\* A function without atomics other than those that keep their meaning computes
\* what it computed before it was instrumented, whatever other tasks do; the
\* callbacks for loads and stores change nothing.  By MeaningLost the callback of
\* any other atomic instruction differs from the instruction in some state.
THEOREM InstrumentationTransparent ==
  ASSUME AtomicsKeepMeaning
  PROVE  Spec => []Transparent
<1>1. Init => Transparent
  BY DEF Init, Transparent
<1> QED
  BY <1>1, InitTyped, NextTyped, NextTransparent, PTL DEF Spec

-----------------------------------------------------------------------------
(* Accesses that are left out.                                             *)

\* The body so far is kept, and so are the positions that were chosen.
Extends == /\ \A k \in DOMAIN body : k \in DOMAIN body' /\ body'[k] = body[k]
           /\ All \subseteq All'

\* Straight runs stay straight.
LEMMA StraightStays ==
  ASSUME TypeOK, Extends, NEW k \in DOMAIN body, NEW m \in DOMAIN body, Straight(k, m)
  PROVE  Straight(k, m)'
<1>1. DOMAIN body = 1 .. Len(body) /\ Len(body) \in Nat
  BY LenProperties DEF TypeOK
<1>2. \A n \in k .. m : n \in DOMAIN body
  BY <1>1
<1> QED
  BY <1>2 DEF Straight, Extends

\* What is settled stays settled.
LEMMA SettledStays ==
  ASSUME TypeOK, Extends, NEW k \in DOMAIN body, Settled(k)
  PROVE  Settled(k)'
<1>1. body'[k] = body[k]
  BY DEF Extends
<1>2. ASSUME NEW a, StoreAhead(k, a)
      PROVE  StoreAhead(k, a)'
  <2>1. PICK m \in All : /\ m >= k /\ body[m].op = "store" /\ body[m].addr = a
                         /\ Straight(k, m)
    BY <1>2 DEF StoreAhead
  <2>2. m \in DOMAIN body
    BY DEF TypeOK
  <2>3. m \in All' /\ body'[m] = body[m] /\ Straight(k, m)'
    BY <2>1, <2>2, StraightStays DEF Extends
  <2> QED
    BY <2>1, <2>3 DEF StoreAhead
<1> QED
  BY <1>1, <1>2 DEF Settled, Extends

\* What the pass chooses settles all candidates: a load that is left out has a store
\* to its address after it in its run, which is chosen.
LEMMA FlushSettles ==
  ASSUME TypeOK, Chosen, Flush, Extends, NEW k \in Local
  PROVE  Settled(k)'
<1> DEFINE a == body[k].addr
<1>1. /\ k \in DOMAIN body /\ body[k].op \in Accesses /\ body'[k] = body[k]
      /\ All' = All \cup chooseInstructionsToInstrument(Local)
  BY DEF TypeOK, Flush, Extends
<1>2. CASE k \in chooseInstructionsToInstrument(Local)
  BY <1>1, <1>2 DEF Settled
<1>3. CASE a \in Foreign \cup Private
  BY <1>1, <1>3 DEF Settled
<1>4. CASE body[k].op = "load" /\ a \in ConstantData
  BY <1>1, <1>4 DEF Settled
<1>5. CASE body[k].op = "load" /\ WrittenLater(k, Local) /\ a \notin Foreign \cup Private
  <2>1. PICK m \in Local : /\ m > k /\ body[m].op = "store" /\ body[m].addr = a
                           /\ shouldInstrumentReadWriteFromAddress(a)
    BY <1>5 DEF WrittenLater
  <2>2. m \in chooseInstructionsToInstrument(Local)
    BY <1>5, <2>1 DEF chooseInstructionsToInstrument
  <2>3. m \in DOMAIN body /\ DOMAIN body = 1 .. Len(body) /\ Len(body) \in Nat
    BY LenProperties DEF TypeOK
  <2>4. Straight(k, m)
    <3>1. Straight(k, Len(body))
      BY DEF Chosen
    <3> QED
      BY <1>1, <2>3, <3>1 DEF Straight
  <2>5. /\ m \in All' /\ m >= k /\ body'[m] = body[m] /\ Straight(k, m)'
    BY <1>1, <2>1, <2>2, <2>3, <2>4, StraightStays DEF Extends
  <2>6. StoreAhead(k, a)'
    BY <1>1, <2>1, <2>5 DEF StoreAhead
  <2> QED
    BY <1>1, <1>5, <2>6 DEF Settled
<1> QED
  BY <1>1, <1>2, <1>3, <1>4, <1>5
     DEF chooseInstructionsToInstrument, shouldInstrumentReadWriteFromAddress,
         addrPointsToConstantData, Accesses

\* A call, the end of a block and the end of the function leave no candidate.
LEMMA FlushChosen ==
  ASSUME TypeOK, Chosen, Flush, Extends,
         \A k \in DOMAIN body' : k \in DOMAIN body \/ body'[k].op \notin Accesses
  PROVE  Chosen'
<1>1. \A k \in Local' : Straight(k, Len(body))'
  BY DEF Flush
<1>2. ASSUME NEW k \in DOMAIN body', body'[k].op \in Accesses
      PROVE  Settled(k)'
  <2>1. k \in DOMAIN body /\ body[k].op \in Accesses
    BY <1>2 DEF Extends
  <2>2. CASE k \in Local
    BY <2>2, FlushSettles
  <2>3. CASE k \notin Local
    BY <2>1, <2>3, SettledStays DEF Chosen
  <2> QED
    BY <2>2, <2>3
<1> QED
  BY <1>1, <1>2 DEF Chosen

\* An access or an atomic instruction does not end the run.
LEMMA RunGoesOn ==
  ASSUME TypeOK, Chosen, NEW i \in Instructions, Visit(i), UNCHANGED All,
         i.op \in Accesses \cup Atomics,
         Local' = IF i.op \in Accesses THEN Local \cup {Len(body) + 1} ELSE Local
  PROVE  Chosen'
<1>1. /\ Len(body) \in Nat /\ DOMAIN body = 1 .. Len(body)
      /\ Len(body') = Len(body) + 1 /\ DOMAIN body' = 1 .. Len(body) + 1
      /\ body'[Len(body) + 1] = i
  BY VisitBody
<1>2. Extends
  BY VisitBody DEF Extends
<1>3. ASSUME NEW k \in Local'
      PROVE  Straight(k, Len(body))'
  <2>1. i.op \notin Calls \cup {Terminator}
    BY DEF Accesses, Atomics, Calls, Terminator
  <2>2. CASE k \in Local
    <3>1. k \in DOMAIN body /\ Straight(k, Len(body)) /\ Len(body) \in DOMAIN body
      BY <1>1, <2>2 DEF Chosen, TypeOK
    <3>2. \A n \in k .. Len(body) : body'[n].op \notin Calls \cup {Terminator}
      BY <1>2, <3>1, StraightStays, <1>1 DEF Straight, Extends
    <3>3. \A n \in k .. Len(body) + 1 : n \in k .. Len(body) \/ n = Len(body) + 1
      BY <1>1, <3>1
    <3> QED
      BY <1>1, <2>1, <3>2, <3>3 DEF Straight
  <2>3. CASE k = Len(body) + 1
    <3>1. \A n \in k .. Len(body') : n = Len(body) + 1
      BY <1>1, <2>3
    <3> QED
      BY <1>1, <2>1, <3>1 DEF Straight
  <2> QED
    BY <2>2, <2>3
<1>4. ASSUME NEW k \in DOMAIN body', body'[k].op \in Accesses
      PROVE  k \in Local' \/ Settled(k)'
  <2>1. CASE k \in DOMAIN body
    <3>1. k \in Local \/ Settled(k)
      BY <1>2, <1>4, <2>1 DEF Chosen, Extends
    <3> QED
      BY <1>2, <2>1, <3>1, SettledStays
  <2>2. CASE k = Len(body) + 1
    BY <1>1, <1>4, <2>2
  <2> QED
    BY <1>1, <2>1, <2>2
<1> QED
  BY <1>3, <1>4 DEF Chosen

\* Every step of the pass keeps account of all accesses.
LEMMA NextChosen == TypeOK /\ Chosen /\ [Next]_vars => Chosen'
<1> SUFFICES ASSUME TypeOK, Chosen, [Next]_vars
             PROVE  Chosen'
  OBVIOUS
<1>1. ASSUME NEW i \in Instructions, VisitAtomic(i) \/ VisitLoadOrStore(i)
      PROVE  Chosen'
  <2>1. CASE VisitAtomic(i)
    BY <2>1, RunGoesOn DEF VisitAtomic, Accesses, Atomics
  <2>2. CASE VisitLoadOrStore(i)
    BY <2>2, RunGoesOn DEF VisitLoadOrStore
  <2> QED
    BY <1>1, <2>1, <2>2
<1>2. ASSUME NEW i \in Instructions, VisitCall(i) \/ EndOfBlock(i)
      PROVE  Chosen'
  <2>1. Visit(i) /\ Flush /\ i.op \notin Accesses
    BY <1>2 DEF VisitCall, EndOfBlock, Accesses, Calls, Terminator
  <2>2. Extends
    BY <2>1, VisitBody DEF Extends, Flush
  <2>3. \A k \in DOMAIN body' : k \in DOMAIN body \/ body'[k].op \notin Accesses
    BY <2>1, VisitBody
  <2> QED
    BY <2>1, <2>2, <2>3, FlushChosen
<1>3. CASE EndOfFunction
  <2>1. Flush /\ UNCHANGED body
    BY <1>3 DEF EndOfFunction
  <2>2. Extends
    BY <2>1 DEF Extends, Flush
  <2> QED
    BY <2>1, <2>2, FlushChosen
<1>4. CASE UNCHANGED passVars
  BY <1>4 DEF passVars, Chosen, Settled, StoreAhead, Straight
<1> QED
  BY <1>1, <1>2, <1>3, <1>4, ExecutesMoves DEF Next, Executes, vars

-----------------------------------------------------------------------------
(* The log covers what was executed.                                       *)

\* The log only grows, and so does the number of a segment's end.
LEMMA CoveredStays ==
  ASSUME NEW e, log \subseteq log', Covered(e)
  PROVE  Covered(e)'
BY DEF Covered, StandIn

\* An access that is awaited before a step of another task still is.
LEMMA OthersAwait ==
  ASSUME NEW e, UNCHANGED <<body, All>>, pc'[e.task] = pc[e.task],
         segment'[e.task] = segment[e.task], Awaited(e)
  PROVE  Awaited(e)'
BY DEF Awaited, StoreAhead, Straight

\* At a call or a branch nothing is awaited.
LEMMA NothingAwaited ==
  ASSUME TypeOK, NEW e, e.task \in Tasks, At(e.task, Calls \cup {Terminator})
  PROVE  ~Awaited(e)
<1> DEFINE k == pc[e.task]
<1>1. /\ k \in DOMAIN body /\ body[k].op \in Calls \cup {Terminator}
      /\ DOMAIN body = 1 .. Len(body) /\ Len(body) \in Nat /\ All \subseteq DOMAIN body
  BY LenProperties DEF At, Here, TypeOK
<1>2. ASSUME NEW m \in All, m >= k
      PROVE  ~Straight(k, m)
  BY <1>1, <1>2 DEF Straight
<1> QED
  BY <1>2 DEF Awaited, StoreAhead

\* A task goes on to the next instruction: what it waited for is here or still ahead.
LEMMA GoesOnAwaiting ==
  ASSUME TypeOK, NEW e, e.task \in Tasks, pc[e.task] \in DOMAIN body, Awaited(e),
         UNCHANGED <<body, All, segment>>, pc'[e.task] = pc[e.task] + 1
  PROVE  \/ Awaited(e)'
         \/ /\ pc[e.task] \in All /\ body[pc[e.task]].op = "store"
            /\ body[pc[e.task]].addr = e.addr
<1> DEFINE k == pc[e.task]
<1>1. DOMAIN body = 1 .. Len(body) /\ Len(body) \in Nat /\ All \subseteq DOMAIN body
  BY LenProperties DEF TypeOK
<1>2. PICK m \in All : /\ m >= k /\ body[m].op = "store" /\ body[m].addr = e.addr
                       /\ Straight(k, m)
  BY DEF Awaited, StoreAhead
<1>3. CASE m = k
  BY <1>2, <1>3
<1>4. CASE m # k
  <2>1. m >= k + 1 /\ \A n \in k + 1 .. m : n \in k .. m
    BY <1>1, <1>2, <1>4
  <2>2. Straight(k + 1, m)
    BY <1>2, <2>1 DEF Straight
  <2>3. StoreAhead(k + 1, e.addr)
    BY <1>2, <2>1, <2>2 DEF StoreAhead
  <2> QED
    BY <2>3 DEF Awaited, StoreAhead, Straight
<1> QED
  BY <1>3, <1>4

\* An instrumented access to a checked address is logged by a task with a TaskInfo.
LEMMA ChosenIsLogged ==
  ASSUME LinesLogged, NEW i \in Instructions, i.op \in Accesses, Checked(i.addr),
         NEW t \in Tasks, taskInfo[t], NEW v
  PROVE  \E d \in Logged(t, i, v) :
           /\ d.task = t /\ d.segment = segment[t] /\ d.addr = i.addr
           /\ d.isWrite = (i.op = "store")
<1>1. OnAccessFunc(i) \in LoggingCallbacks
  BY DEF OnAccessFunc, LoggingCallbacks, Checked, getMemoryAccessFuncIndex
<1>2. i.line % LineField # 0
  BY DEF LinesLogged
<1>3. Logged(t, i, v) = { Event(t, i, i.line % LineField, lint(i.addr, v)) }
  BY <1>1, <1>2 DEF Logged, getTaskInfo
<1> DEFINE d == Event(t, i, i.line % LineField, lint(i.addr, v))
<1>4. /\ d.task = t /\ d.segment = segment[t] /\ d.addr = i.addr
      /\ d.isWrite = (i.op = "store")
  BY DEF Event
<1> QED
  BY <1>3, <1>4

\* A load or store is executed.
LEMMA LoadOrStoreRecorded ==
  ASSUME LinesLogged, TypeOK, Chosen, Recorded, NEW t \in Tasks, LoadOrStore(t)
  PROVE  Recorded'
<1> DEFINE k == pc[t]
           i == Here(t)
           v == Operand(i, reg[t])
           new == Event(t, i, i.line, v)
<1>1. /\ phase = "run" /\ phase' = "run" /\ k \in DOMAIN body /\ i = body[k]
      /\ i.op \in Accesses /\ UNCHANGED <<body, Local, All, taskInfo, segment>>
  BY DEF LoadOrStore, At, Here, passVars
<1>2. i \in Instructions /\ Local = {}
  BY <1>1, ElementOfSeq, LenProperties DEF TypeOK
<1>3. pc' = [pc EXCEPT ![t] = k + 1] /\ pc \in [Tasks -> 1 .. Len(body) + 1]
  BY DEF LoadOrStore, TypeOK
<1>4. log' = IF k \in All THEN log \cup Logged(t, i, v) ELSE log
  BY DEF LoadOrStore
<1>5. accesses' = IF i.addr \in Private THEN accesses ELSE accesses \cup {new}
  BY DEF LoadOrStore
<1>6. log \subseteq log'
  BY <1>4
<1>7. ASSUME NEW e, e.task = t, e.segment = segment[t], e.addr = i.addr,
             taskInfo[t], Checked(i.addr), k \in All,
             e.isWrite => i.op = "store"
      PROVE  Covered(e)'
  <2>1. PICK d \in Logged(t, i, v) :
          /\ d.task = t /\ d.segment = segment[t] /\ d.addr = i.addr
          /\ d.isWrite = (i.op = "store")
    BY <1>1, <1>2, <1>7, ChosenIsLogged
  <2>2. d \in log'
    BY <1>4, <1>7
  <2> QED
    BY <1>7, <2>1, <2>2 DEF Covered, StandIn
<1>8. ASSUME NEW e \in accesses
      PROVE  /\ e.task \in Tasks
             /\ e.isWrite => e.addr \notin ConstantData
             /\ taskInfo[e.task] /\ Checked(e.addr) =>
                  e.addr \in ConstantData \/ Covered(e)' \/ Awaited(e)'
  <2>1. /\ e.task \in Tasks
        /\ e.isWrite => e.addr \notin ConstantData
        /\ taskInfo[e.task] /\ Checked(e.addr) =>
             e.addr \in ConstantData \/ Covered(e) \/ Awaited(e)
    BY DEF Recorded
  <2>2. ASSUME Covered(e)
        PROVE  Covered(e)'
    BY <1>6, <2>2, CoveredStays
  <2>3. ASSUME Awaited(e), e.task # t
        PROVE  Awaited(e)'
    BY <1>1, <1>3, <2>1, <2>3, OthersAwait
  <2>4. ASSUME Awaited(e), e.task = t, taskInfo[t], Checked(e.addr)
        PROVE  Covered(e)' \/ Awaited(e)'
    <3>1. pc'[t] = k + 1
      BY <1>3
    <3>2. \/ Awaited(e)'
          \/ k \in All /\ i.op = "store" /\ i.addr = e.addr
      BY <1>1, <2>1, <2>4, <3>1, GoesOnAwaiting
    <3>3. e.segment = segment[t]
      BY <2>4 DEF Awaited
    <3> QED
      BY <1>7, <2>4, <3>2, <3>3
  <2> QED
    BY <2>1, <2>2, <2>3, <2>4
<1>9. ASSUME NEW e, e = new, i.addr \notin Private, taskInfo[t], Checked(i.addr),
             i.addr \notin ConstantData
      PROVE  Covered(e)' \/ Awaited(e)'
  <2>1. /\ e.task = t /\ e.segment = segment[t] /\ e.addr = i.addr
        /\ e.isWrite = (i.op = "store")
    BY <1>9 DEF Event
  <2>2. Settled(k)
    BY <1>1, <1>2 DEF Chosen
  <2>3. CASE k \in All
    BY <1>7, <1>9, <2>1, <2>3
  <2>4. CASE i.op = "load" /\ StoreAhead(k, i.addr)
    <3>1. Awaited(e)
      BY <2>1, <2>4 DEF Awaited
    <3>2. pc'[t] = k + 1
      BY <1>3
    <3>3. Awaited(e)' \/ (k \in All /\ i.op = "store")
      BY <1>1, <2>1, <3>1, <3>2, GoesOnAwaiting
    <3> QED
      BY <2>4, <3>3
  <2> QED
    BY <1>1, <1>9, <2>2, <2>3, <2>4 DEF Settled, Checked
<1>10. new.task \in Tasks /\ (new.isWrite => new.addr \notin ConstantData)
  BY <1>2 DEF Event
<1>11. new.task = t /\ new.addr = i.addr
  BY DEF Event
<1>12. ASSUME NEW e \in accesses'
       PROVE  /\ e.task \in Tasks
              /\ e.isWrite => e.addr \notin ConstantData
              /\ taskInfo'[e.task] /\ Checked(e.addr) =>
                   e.addr \in ConstantData \/ Covered(e)' \/ Awaited(e)'
  <2>1. CASE e \in accesses
    BY <1>1, <1>8, <2>1
  <2>2. CASE e = new /\ i.addr \notin Private
    BY <1>1, <1>9, <1>10, <1>11, <2>2
  <2> QED
    BY <1>5, <2>1, <2>2
<1> QED
  BY <1>1, <1>12 DEF Recorded

\* Any other step of a task: what it waited for is ahead of it, or there is none.
LEMMA OtherRecorded ==
  ASSUME TypeOK, Recorded, segment \in [Tasks -> Nat], NEW t \in Tasks,
         Atomic(t) \/ Memset(t) \/ Call(t) \/ Branch(t)
  PROVE  Recorded'
<1>1. /\ phase = "run" /\ phase' = "run" /\ pc[t] \in DOMAIN body
      /\ UNCHANGED <<body, All, taskInfo, accesses, log>>
      /\ \A o \in Tasks \ {t} : pc'[o] = pc[o] /\ segment'[o] = segment[o]
  <2>1. pc \in [Tasks -> 1 .. Len(body) + 1]
    BY DEF TypeOK
  <2>2. /\ phase = "run" /\ phase' = "run" /\ pc[t] \in DOMAIN body
        /\ UNCHANGED <<body, All, taskInfo>>
        /\ \A o \in Tasks \ {t} : pc'[o] = pc[o]
    BY <2>1, ExecutesMoves DEF Executes, passVars
  <2>3. UNCHANGED <<accesses, log>> /\ \A o \in Tasks \ {t} : segment'[o] = segment[o]
    BY DEF Atomic, Memset, Call, Branch
  <2> QED
    BY <2>2, <2>3
<1>2. ASSUME NEW e \in accesses, Awaited(e)
      PROVE  Awaited(e)'
  <2>1. e.task \in Tasks
    BY DEF Recorded
  <2>2. CASE e.task # t
    BY <1>1, <1>2, <2>1, <2>2, OthersAwait
  <2>3. CASE e.task = t /\ Atomic(t)
    <3>1. UNCHANGED segment /\ pc'[t] = pc[t] + 1
      BY <2>3 DEF Atomic, TypeOK
    <3>2. body[pc[t]].op # "store"
      BY <2>3 DEF Atomic, At, Here, Atomics
    <3> QED
      BY <1>1, <1>2, <2>1, <2>3, <3>1, <3>2, GoesOnAwaiting
  <2>4. CASE e.task = t /\ (Memset(t) \/ Call(t) \/ Branch(t))
    <3>1. At(t, Calls \cup {Terminator})
      BY <2>4 DEF Memset, Call, Branch, At, Calls
    <3> QED
      BY <1>2, <2>1, <2>4, <3>1, NothingAwaited
  <2> QED
    BY <2>2, <2>3, <2>4
<1>3. \A e : Covered(e) => Covered(e)'
  BY <1>1, CoveredStays
<1> QED
  BY <1>1, <1>2, <1>3 DEF Recorded

\* Every step keeps account of what was executed.
LEMMA NextRecorded ==
  /\ LinesLogged /\ TypeOK /\ Chosen /\ Recorded /\ segment \in [Tasks -> Nat]
  /\ [Next]_vars
  => Recorded'
<1> SUFFICES ASSUME LinesLogged, TypeOK, Chosen, Recorded, segment \in [Tasks -> Nat],
                    [Next]_vars
             PROVE  Recorded'
  OBVIOUS
<1>1. ASSUME NEW i \in Instructions, Visit(i)
      PROVE  Recorded'
  BY <1>1 DEF Visit, Recorded
<1>2. CASE EndOfFunction
  BY <1>2 DEF EndOfFunction, Recorded
<1>3. ASSUME NEW t \in Tasks, Executes(t)
      PROVE  Recorded'
  BY <1>3, LoadOrStoreRecorded, OtherRecorded DEF Executes
<1>4. CASE UNCHANGED vars
  BY <1>4 DEF vars, passVars, Recorded, Covered, StandIn, Awaited, StoreAhead, Straight
<1> QED
  BY <1>1, <1>2, <1>3, <1>4
     DEF Next, Executes, VisitAtomic, VisitLoadOrStore, VisitCall, EndOfBlock

\* What a task awaits it has not passed.
LEMMA FinishedIsCovered ==
  ASSUME TypeOK, NEW e, e.task \in Tasks, segment[e.task] \in Nat, Finished(e)
  PROVE  ~Awaited(e)
<1>1. DOMAIN body = 1 .. Len(body) /\ Len(body) \in Nat /\ All \subseteq DOMAIN body
  BY LenProperties DEF TypeOK
<1> QED
  BY <1>1 DEF Finished, Awaited, StoreAhead

\* The conflict of two accesses is one of what the log holds for them.
LEMMA RecordedCovers ==
  ASSUME TypeOK, Recorded, segment \in [Tasks -> Nat]
  PROVE  AccessesCovered
<1> SUFFICES ASSUME NEW e \in accesses, NEW f \in accesses, Meet(e, f), Conflict(e, f)
             PROVE  \E d \in StandIn(e), g \in StandIn(f) : Conflict(d, g)
  BY DEF AccessesCovered
<1>1. e.task \in Tasks /\ f.task \in Tasks
  BY DEF Recorded
<1>2. e.addr \notin ConstantData /\ f.addr \notin ConstantData
  BY DEF Recorded, Meet, Conflict
<1>3. ~Awaited(e) /\ ~Awaited(f)
  BY <1>1, FinishedIsCovered DEF Meet
<1>4. Covered(e) /\ Covered(f)
  BY <1>1, <1>2, <1>3 DEF Recorded, Meet
<1> QED
  BY <1>4 DEF Covered, Conflict

\* Segments are counted.
LEMMA SegmentsCounted ==
  segment \in [Tasks -> Nat] /\ [Next]_vars => (segment \in [Tasks -> Nat])'
<1> SUFFICES ASSUME segment \in [Tasks -> Nat], [Next]_vars
             PROVE  segment' \in [Tasks -> Nat]
  OBVIOUS
<1>1. CASE UNCHANGED segment
  BY <1>1
<1>2. ASSUME NEW t \in Tasks, Memset(t) \/ Call(t)
      PROVE  segment' \in [Tasks -> Nat]
  <2>1. segment' = [segment EXCEPT ![t] = segment[t] + 1]
    BY <1>2 DEF Memset, Call
  <2> QED
    BY <2>1
<1>3. UNCHANGED segment \/ \E t \in Tasks : Memset(t) \/ Call(t)
  BY DEF Next, vars, VisitAtomic, VisitLoadOrStore, VisitCall, EndOfBlock, Visit,
         EndOfFunction, LoadOrStore, Atomic, Branch
<1> QED
  BY <1>1, <1>2, <1>3

\* Leaving out accesses loses no pair of segments: when two tasks with a TaskInfo
\* have touched one address in two finished segments and one of them has written
\* it, the same holds for what they have logged, for any function whose accesses
\* are on lines that do not vanish in an i8 (TaskSanitizer.cc:343-390).
THEOREM LeftOutIsCovered ==
  ASSUME LinesLogged
  PROVE  Spec => []AccessesCovered
<1> DEFINE Inv == TypeOK /\ Chosen /\ Recorded /\ segment \in [Tasks -> Nat]
<1>1. Init => Inv
  <2> SUFFICES ASSUME Init
               PROVE  Inv
    OBVIOUS
  <2>1. DOMAIN body = {}
    BY EmptySeq DEF Init
  <2> QED
    BY <2>1, InitTyped DEF Init, Chosen, Recorded
<1>2. Inv /\ [Next]_vars => Inv'
  BY NextTyped, NextChosen, NextRecorded, SegmentsCounted
<1>3. Inv => AccessesCovered
  BY RecordedCovers
<1> QED
  BY <1>1, <1>2, <1>3, PTL DEF Spec
=============================================================================
