--------------------------- MODULE Instrumentation ---------------------------
(***************************************************************************)
(* The compiler pass (src/instrumentor/pass/TaskSanitizer.cc) and the      *)
(* functions that instrumented code calls                                  *)
(* (src/instrumentor/callbacks/InstrumentationCallbacks.cc).               *)
(*                                                                         *)
(* The pass visits the instructions of one function in order and chooses   *)
(* those to instrument; the compiler may hand it any function.  Then the   *)
(* tasks run the function concurrently.  A call may be a scheduling point  *)
(* (taskwait, creation of a task), so it begins a new segment of the task: *)
(* what is ordered before or after it may differ.  A basic block may be    *)
(* left by a branch at its end only.                                       *)
(*                                                                         *)
(* A step executes one instruction with the callback inserted before it.   *)
(* The callback of a load or store only adds to `log`, which is unordered  *)
(* here, so nobody can tell whether another task runs between the two.     *)
(***************************************************************************)
EXTENDS Integers, Sequences

CONSTANTS
  Tasks,         \* OpenMP tasks that execute the function
  Everyone,      \* the owner of a location that all tasks share
  Addrs,         \* pointer operands; what the pass can know of one:
  Private,       \* - stack variables that are not captured
  ConstantData,  \* - constant globals and vtables
  Foreign,       \* - other address spaces, profiling counters
  OddSized,      \* - not of 1, 2, 4, 8 or 16 bytes
  Words,         \* - of 4 bytes
  Misaligned,    \* - aligned to less than their size
  VTablePtrs,    \* - vtable pointers
  Floats,        \* - of type float or double, whose values count in halves
  Instructions,  \* the instructions the compiler may use
  MaxLength      \* bound of the model: instructions in a function

Accesses   == {"load", "store"}
Atomics    == {"atomic load", "atomic store", "fetch_add", "fetch_sub",
               "fetch_max", "cmpxchg"}
Calls      == {"call", "memset"}
Terminator == "br"

\* An instruction writes `value`, or the task's register plus `value`.
Instruction ==
  [op : Accesses \cup Atomics \cup Calls \cup {Terminator}, addr : Addrs,
   line : Nat, value : Nat, relative : BOOLEAN]

ASSUME ProgramAssumption ==
  /\ Instructions \subseteq Instruction
  /\ Everyone \notin Tasks
  /\ Private \cup ConstantData \cup Foreign \cup OddSized \cup Words
       \cup Misaligned \cup VTablePtrs \cup Floats \subseteq Addrs
  /\ \A i \in Instructions : i.op = "store" => i.addr \notin ConstantData

VARIABLES
  phase,          \* "scan" or "run"
  body,           \* the instructions of the function visited so far
  Local,          \* LocalLoadsAndStores: positions since the last call or block
  All,            \* AllLoadsAndStores: positions of accesses to instrument
  AtomicAccesses, \* positions of atomic instructions
  taskInfo,       \* whether a task has an active TaskInfo
  pc,             \* position of a task in the body
  segment,        \* how many scheduling points a task has passed
  mem, reg,       \* memory; what a task got from its last load
  ownMem, ownReg, \* history: the same, had the function not been instrumented
  accesses,       \* history: shared loads and stores that were executed
  log             \* accesses handed to INS::Read and INS::Write

passVars == <<body, Local, All, AtomicAccesses>>
dataVars == <<mem, reg, ownMem, ownReg>>
vars == <<phase, passVars, taskInfo, pc, segment, dataVars, accesses, log>>

-----------------------------------------------------------------------------
(* The pass.                                                               *)

shouldInstrumentReadWriteFromAddress(a) == a \notin Foreign
addrPointsToConstantData(a) == a \in ConstantData

\* WriteTargets when the pass, going backwards, has come to position k.
WrittenLater(k, local) ==
  \E m \in local : /\ m > k /\ body[m].op = "store"
                   /\ body[m].addr = body[k].addr
                   /\ shouldInstrumentReadWriteFromAddress(body[m].addr)

\* Those of a run of loads and stores that are instrumented: not a load that a
\* store to the same address follows, nor one that cannot race.
chooseInstructionsToInstrument(local) ==
  { k \in local :
      LET a == body[k].addr
      IN  /\ shouldInstrumentReadWriteFromAddress(a)
          /\ a \notin Private
          /\ body[k].op = "load" =>
               ~WrittenLater(k, local) /\ ~addrPointsToConstantData(a) }

\* Mutant of Flush: the list of candidates is not cleared.
FlushKeepsLocal ==
  /\ All' = All \cup chooseInstructionsToInstrument(Local)
  /\ UNCHANGED Local

\* The accesses seen since the last call or block are over: choose from them.
Flush ==
  /\ All' = All \cup chooseInstructionsToInstrument(Local)
  /\ Local' = {}

Visit(i) ==
  /\ phase = "scan" /\ Len(body) < MaxLength
  /\ body' = Append(body, i)
  /\ UNCHANGED <<phase, taskInfo, pc, segment, dataVars, accesses, log>>

VisitAtomic(i) ==
  /\ i.op \in Atomics /\ Visit(i)
  /\ AtomicAccesses' = AtomicAccesses \cup {Len(body) + 1}
  /\ UNCHANGED <<Local, All>>

VisitLoadOrStore(i) ==
  /\ i.op \in Accesses /\ Visit(i)
  /\ Local' = Local \cup {Len(body) + 1}
  /\ UNCHANGED <<All, AtomicAccesses>>

\* Mutant of VisitCall: a call does not end a run of loads and stores.
VisitCallOnly(i) ==
  /\ i.op \in Calls /\ Visit(i)
  /\ UNCHANGED <<Local, All, AtomicAccesses>>

\* A memory intrinsic becomes a call of the library function.
VisitCall(i) ==
  /\ i.op \in Calls /\ Visit(i)
  /\ Flush
  /\ UNCHANGED AtomicAccesses

EndOfBlock(i) ==
  /\ i.op = Terminator /\ Visit(i)
  /\ Flush
  /\ UNCHANGED AtomicAccesses

\* The last block ends.
EndOfFunction ==
  /\ phase = "scan"
  /\ phase' = "run"
  /\ Flush
  /\ UNCHANGED <<body, AtomicAccesses, taskInfo, pc, segment, dataVars,
                 accesses, log>>

-----------------------------------------------------------------------------
(* What the inserted calls do.                                             *)

\* instrumentLoadOrStore passes the line in an i8.
LineField == 256

\* There are callbacks for accesses of 1, 2, 4, 8 and 16 bytes.
getMemoryAccessFuncIndex(a) == IF a \in OddSized THEN -1 ELSE 0

\* The callback that instrumentLoadOrStore calls, if any.
OnAccessFunc(i) ==
  CASE getMemoryAccessFuncIndex(i.addr) < 0 -> "none"
    [] i.addr \in VTablePtrs -> "vptr"
    [] i.op = "store" /\ i.addr \in Floats -> "write"
    [] i.addr \in Misaligned -> "unaligned"
    [] OTHER -> IF i.op = "store" THEN "write" ELSE "read"

\* The callbacks that pass the access on; the others print a debug message.
LoggingCallbacks == {"read", "write"}

getTaskInfo(t) == taskInfo[t]

\* __tasksan_write_double converts the value to an integer.
lint(a, v) == IF a \in Floats THEN v \div 2 ELSE v

\* An access, as it happens or as it is logged.
Event(t, i, line, v) ==
  [task |-> t, segment |-> segment[t], addr |-> i.addr,
   isWrite |-> i.op = "store", line |-> line,
   value |-> IF i.op = "store" THEN v ELSE 0]

\* INS_MemRead and INS_MemWrite drop accesses without a line or a task.
Logged(t, i, v) ==
  IF /\ OnAccessFunc(i) \in LoggingCallbacks
     /\ i.line % LineField # 0
     /\ getTaskInfo(t)
    THEN { Event(t, i, i.line % LineField, lint(i.addr, v)) }
    ELSE {}

Place(t, a) == <<a, IF a \in Private THEN t ELSE Everyone>>

Operand(i, r) == IF i.relative THEN r + i.value ELSE i.value

\* What an instruction does to a location that holds `old` and to register r.
Native(i, old, r) ==
  LET v == Operand(i, r)
  IN  CASE i.op \in {"load", "atomic load"} -> [mem |-> old, reg |-> old]
        [] i.op \in {"store", "atomic store", "memset"} -> [mem |-> v, reg |-> r]
        [] i.op = "fetch_add" -> [mem |-> old + v, reg |-> old]
        [] i.op = "fetch_sub" -> [mem |-> old - v, reg |-> old]
        [] i.op = "fetch_max" -> [mem |-> IF v > old THEN v ELSE old, reg |-> old]
        [] i.op = "cmpxchg" -> [mem |-> IF old = r THEN v ELSE old, reg |-> old]

\* Most callbacks for atomic instructions leave memory alone and return their
\* operand.
ReturnOperand(i, old, r) == [mem |-> old, reg |-> Operand(i, r)]

\* Mutant of AtomicCallback: the 32-bit fetch_add is like the others.
NoFetchAdd(i, old, r) ==
  CASE i.op = "atomic load" -> [mem |-> old, reg |-> old]
    [] i.op = "atomic store" -> [mem |-> old, reg |-> r]
    [] OTHER -> ReturnOperand(i, old, r)

\* What the callback that takes the place of an atomic instruction does.
AtomicCallback(i, old, r) ==
  CASE i.op = "atomic load" -> [mem |-> old, reg |-> old]
    [] i.op = "atomic store" -> [mem |-> old, reg |-> r]
    [] i.op = "fetch_add" /\ i.addr \in Words ->
         [mem |-> old + Operand(i, r), reg |-> old]
    [] OTHER -> ReturnOperand(i, old, r)

\* The operations that initializeCallbacks finds callbacks for.
Replaceable == {"atomic load", "atomic store", "fetch_add", "fetch_sub", "cmpxchg"}

\* instrumentAtomic leaves the others alone.
instrumentAtomic(k) ==
  /\ k \in AtomicAccesses
  /\ body[k].op \in Replaceable
  /\ getMemoryAccessFuncIndex(body[k].addr) >= 0

-----------------------------------------------------------------------------
(* Execution.                                                              *)

Here(t) == body[pc[t]]
At(t, ops) == phase = "run" /\ pc[t] \in DOMAIN body /\ Here(t).op \in ops

\* The instruction at pc[t] takes effect, or the callback that replaces it, and
\* the instruction in the original function.
Execute(t, replaced) ==
  LET i    == Here(t)
      p    == Place(t, i.addr)
      new  == IF replaced THEN AtomicCallback(i, mem[p], reg[t])
                ELSE Native(i, mem[p], reg[t])
      own  == Native(i, ownMem[p], ownReg[t])
  IN  /\ mem' = [mem EXCEPT ![p] = new.mem]
      /\ reg' = [reg EXCEPT ![t] = new.reg]
      /\ ownMem' = [ownMem EXCEPT ![p] = own.mem]
      /\ ownReg' = [ownReg EXCEPT ![t] = own.reg]

LoadOrStore(t) ==
  /\ At(t, Accesses)
  /\ LET i == Here(t)
         v == Operand(i, reg[t])
     IN  /\ log' = IF pc[t] \in All THEN log \cup Logged(t, i, v) ELSE log
         /\ accesses' = IF i.addr \in Private THEN accesses
                          ELSE accesses \cup {Event(t, i, i.line, v)}
  /\ Execute(t, FALSE)
  /\ pc' = [pc EXCEPT ![t] = @ + 1]
  /\ UNCHANGED <<phase, passVars, taskInfo, segment>>

Atomic(t) ==
  /\ At(t, Atomics)
  /\ Execute(t, instrumentAtomic(pc[t]))
  /\ pc' = [pc EXCEPT ![t] = @ + 1]
  /\ UNCHANGED <<phase, passVars, taskInfo, segment, accesses, log>>

\* The library's memset: the runtime does not intercept it.
Memset(t) ==
  /\ At(t, {"memset"})
  /\ Execute(t, FALSE)
  /\ pc' = [pc EXCEPT ![t] = @ + 1]
  /\ segment' = [segment EXCEPT ![t] = @ + 1]
  /\ UNCHANGED <<phase, passVars, taskInfo, accesses, log>>

Call(t) ==
  /\ At(t, {"call"})
  /\ pc' = [pc EXCEPT ![t] = @ + 1]
  /\ segment' = [segment EXCEPT ![t] = @ + 1]
  /\ UNCHANGED <<phase, passVars, taskInfo, dataVars, accesses, log>>

\* On to the next block, or to the end of the function.
Branch(t) ==
  /\ At(t, {Terminator})
  /\ \E target \in {pc[t] + 1, Len(body) + 1} : pc' = [pc EXCEPT ![t] = target]
  /\ UNCHANGED <<phase, passVars, taskInfo, segment, dataVars, accesses, log>>

-----------------------------------------------------------------------------
Places == Addrs \X (Tasks \cup {Everyone})

Init ==
  /\ phase = "scan"
  /\ body = << >> /\ Local = {} /\ All = {} /\ AtomicAccesses = {}
  /\ taskInfo \in [Tasks -> BOOLEAN]
  /\ pc = [t \in Tasks |-> 1] /\ segment = [t \in Tasks |-> 0]
  /\ mem = [p \in Places |-> 0] /\ ownMem = mem
  /\ reg = [t \in Tasks |-> 0] /\ ownReg = reg
  /\ accesses = {} /\ log = {}

Next ==
  \/ \E i \in Instructions : \/ VisitAtomic(i) \/ VisitLoadOrStore(i)
                             \/ VisitCall(i) \/ EndOfBlock(i)
  \/ EndOfFunction
  \/ \E t \in Tasks : \/ LoadOrStore(t) \/ Atomic(t) \/ Memset(t)
                      \/ Call(t) \/ Branch(t)

Spec == Init /\ [][Next]_vars

-----------------------------------------------------------------------------
(* Properties.                                                             *)

\* The lists of the pass hold positions of instructions of the right kind, and
\* no candidate is left when the function has been visited.
TypeOK ==
  /\ phase \in {"scan", "run"}
  /\ body \in Seq(Instructions)
  /\ Local \subseteq DOMAIN body /\ All \subseteq DOMAIN body
  /\ AtomicAccesses \subseteq DOMAIN body
  /\ \A k \in Local \cup All : body[k].op \in Accesses
  /\ Local \cap All = {}
  /\ phase = "run" => Local = {}
  /\ pc \in [Tasks -> 1 .. Len(body) + 1]

\* The instrumented function computes what the function itself does.
Transparent == mem = ownMem /\ reg = ownReg

\* Accesses that the callbacks are meant to log.
Checked(a) ==
  a \notin Foreign \cup OddSized \cup Misaligned \cup VTablePtrs

Finished(e) ==
  \/ e.segment < segment[e.task]
  \/ pc[e.task] = Len(body) + 1

Conflict(e, f) == e.isWrite \/ f.isWrite
Conflicting(e, f) ==
  \/ e.isWrite # f.isWrite
  \/ e.isWrite /\ f.isWrite /\ e.value # f.value

\* Accesses d of the log that stand for the access e.
StandIn(e) ==
  { d \in log : d.task = e.task /\ d.segment = e.segment /\ d.addr = e.addr }

\* Two accesses of different tasks.
Meet(e, f) ==
  /\ e.task # f.task /\ taskInfo[e.task] /\ taskInfo[f.task]
  /\ e.addr = f.addr /\ Checked(e.addr)
  /\ Finished(e) /\ Finished(f)

\* Leaving out reads loses no pair of segments: where two segments touch one
\* address and one of them writes it, the same holds for what they log
\* (TaskSanitizer.cc:343-390: "proven redundant").
AccessesCovered ==
  \A e, f \in accesses :
    Meet(e, f) /\ Conflict(e, f) =>
      \E d \in StandIn(e), g \in StandIn(f) : Conflict(d, g)

\* ... and the checker takes what they log for a conflict as well.
ConflictsCovered ==
  \A e, f \in accesses :
    Meet(e, f) /\ Conflicting(e, f) =>
      \E d \in StandIn(e), g \in StandIn(f) : Conflicting(d, g)
=============================================================================
