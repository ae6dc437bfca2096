--------------------------- MODULE Commutativity ---------------------------
(***************************************************************************)
(* What TaskSanitizer knows about critical sections, from the compiler to  *)
(* the verdict of the checker.  The instrumentation pass writes the        *)
(* instructions of every critical section to an .iir file                  *)
(* (instrumentor/pass/IIRlogger.h); the instrumented program reads the     *)
(* file when it starts, and when two writes conflict the                   *)
(* CommutativityChecker (detector/commutativity) looks the sections up and *)
(* decides whether the order of the writes matters.                        *)
(*                                                                         *)
(* A program has several source files.  Each has an .iir file of its own,  *)
(* which the compiler process of that source appends to; the program reads *)
(* the one of the source that defines main.  A function is the sequence of *)
(* its instructions in layout order.  Names of registers, variables and    *)
(* literals are strings; an instruction keeps the ones it mentions instead *)
(* of its text.                                                            *)
(***************************************************************************)
EXTENDS Integers, Sequences, FiniteSets, SequencesExt

CONSTANTS
  Sources,     \* the source files of the program
  MainSource,  \* the one that defines main
  Programs,    \* what the files may hold: sequences of functions
  Commands,    \* the files that one run of tasksan may compile
  Names,       \* every name in them, and NoName
  Variables,   \* names of shared variables
  Literal,     \* the values of the names of literals
  Word,        \* bound of the model: values are integers below Word
  InToolHome,  \* whether the files lie under the directory tasksan cleans
  MaxCompiles  \* bound of the model: runs of tasksan

NoName == ""

\* enum OPERATION, as far as isSafe tells its values apart.
Operations == {"ALLOCA", "BITCAST", "CALL", "STORE", "LOAD",
               "ADD", "SUB", "MUL", "DIV", "SHL"}

\* An instruction of a source file; its line is 0 when it has none.
SourceInstr == [code : STRING, line : Nat, dest : Names, op1 : Names, op2 : Names]

ASSUME SourcesAssumption ==
  MainSource \in Sources /\ Commands \subseteq SUBSET Sources
ASSUME NamesAssumption ==
  NoName \in Names /\ Variables \subseteq Names /\ DOMAIN Literal \subseteq Names
ASSUME ProgramsAssumption ==
  \A p \in Programs : \A f \in Sources : p[f] \in Seq(Seq(SourceInstr))
ASSUME WordAssumption == Word \in Nat \ {0} /\ Range(Literal) \subseteq 0 .. Word - 1
ASSUME MaxCompilesAssumption == MaxCompiles \in Nat

VARIABLES
  program,     \* the source files as they are now
  compiles,    \* how many times tasksan has run
  compiled,    \* the files for which there is an object file
  queue,       \* the files that the current run has still to compile
  source,      \* the file it is compiling
  function,    \* the function that the pass visits there, ...
  position,    \* ... how many of its instructions it has passed, ...
  depth,       \* ... and in_critical_section, the number of locks held then
  log,         \* lines of the .iir file of every source file
  logOpen,     \* IIRlog::logFile.is_open()
  unread,      \* lines that parseTasksIR has still to read
  currentTask, \* its local of that name
  Tasks,       \* the CriticalSections of the checker
  phase        \* "source", "compile", "pass", "built", "parse", "run" or "aborted"

passVars  == <<function, position, depth, log, logOpen>>
buildVars == <<program, compiles, compiled, queue, source, passVars>>
runVars   == <<unread, currentTask, Tasks>>
vars      == <<buildVars, runVars, phase>>

-----------------------------------------------------------------------------
(* Writing the .iir file.                                                  *)

Marker(kind) == [kind |-> kind]
Statement(i) == [kind |-> "statement", instr |-> i]

isLock(i)      == i.code = "lock"
isUnlock(i)    == i.code = "unlock"
isStatement(i) == ~isLock(i) /\ ~isUnlock(i)

\* The tasksan script: old .iir files are deleted, whatever source they belong
\* to, then the compiler starts.
Compile ==
  /\ phase \in {"source", "built"} /\ compiles < MaxCompiles
  /\ compiles' = compiles + 1
  /\ \E p \in Programs, files \in Commands :
       /\ program' = [f \in Sources |-> IF f \in files THEN p[f] ELSE program[f]]
       /\ queue' = files
  /\ log' = IF InToolHome THEN [f \in Sources |-> << >>] ELSE log
  /\ phase' = "compile"
  /\ UNCHANGED <<compiled, source, function, position, depth, logOpen, runVars>>

\* A compiler process of its own for every file, in any order.
CompileSource(f) ==
  /\ phase = "compile" /\ f \in queue
  /\ source' = f /\ queue' = queue \ {f}
  /\ function' = 1 /\ position' = 0 /\ depth' = 0
  /\ logOpen' = FALSE
  /\ compiled' = compiled \cup {f}
  /\ phase' = "pass"
  /\ UNCHANGED <<program, compiles, log, runVars>>

\* IIRlog::logTaskBody, called by the pass for every function, takes the next
\* instruction.
Instr == program[source][function][position + 1]

TakeInstr ==
  /\ phase = "pass" /\ function \in DOMAIN program[source]
  /\ position < Len(program[source][function])
  /\ position' = position + 1
  /\ UNCHANGED <<program, compiles, compiled, queue, source, function, runVars, phase>>

Write(line) == log' = [log EXCEPT ![source] = Append(@, line)]

\* Locks nest, and only the outermost pair is marked.
LogLock ==
  /\ TakeInstr /\ isLock(Instr)
  /\ logOpen' = TRUE /\ depth' = depth + 1
  /\ IF depth = 0 THEN Write(Marker("begin")) ELSE UNCHANGED log

\* Mutant of LogUnlock: the inner unlock of nested locks ends the section.
LogFirstUnlock ==
  /\ TakeInstr /\ isUnlock(Instr)
  /\ depth' = 0
  /\ IF logOpen THEN Write(Marker("end")) ELSE UNCHANGED log
  /\ UNCHANGED logOpen

\* Nothing is written until the first lock has opened the file.
LogUnlock ==
  /\ TakeInstr /\ isUnlock(Instr)
  /\ depth' = IF depth > 0 THEN depth - 1 ELSE 0
  /\ IF depth <= 1 /\ logOpen THEN Write(Marker("end")) ELSE UNCHANGED log
  /\ UNCHANGED logOpen

LogStatement ==
  /\ TakeInstr /\ isStatement(Instr)
  /\ IF depth > 0 THEN Write(Statement(Instr)) ELSE UNCHANGED log
  /\ UNCHANGED <<logOpen, depth>>

\* The next function starts without locks.
FunctionDone ==
  /\ phase = "pass" /\ function \in DOMAIN program[source]
  /\ position = Len(program[source][function])
  /\ function' = function + 1 /\ position' = 0 /\ depth' = 0
  /\ UNCHANGED <<program, compiles, compiled, queue, source, log, logOpen, runVars, phase>>

SourceDone ==
  /\ phase = "pass" /\ function > Len(program[source])
  /\ phase' = "compile"
  /\ UNCHANGED <<buildVars, runVars>>

Built ==
  /\ phase = "compile" /\ queue = {}
  /\ phase' = "built"
  /\ UNCHANGED <<buildVars, runVars>>

-----------------------------------------------------------------------------
(* Reading it: parseTasksIR.                                               *)

Operation == [store |-> "STORE", load |-> "LOAD", add |-> "ADD", sub |-> "SUB",
              mul |-> "MUL", fdiv |-> "DIV", shl |-> "SHL", alloca |-> "ALLOCA",
              bitcast |-> "BITCAST", call |-> "CALL"]

Mentioned(i) == {i.dest, i.op1, i.op2}

\* The constructor of Instruction.  A call keeps its text only; an instruction
\* it does not know keeps, besides, whatever its field `oper` happened to hold.
Instruction(i, garbage) ==
  LET known == i.code \in DOMAIN Operation
      bare  == ~known \/ i.code = "call"
  IN  [line |-> i.line,
       oper |-> IF known THEN Operation[i.code] ELSE garbage,
       dest |-> IF bare THEN NoName ELSE i.dest,
       op1  |-> IF bare THEN NoName ELSE i.op1,
       op2  |-> IF bare THEN NoName ELSE i.op2,
       raw  |-> Mentioned(i) \cup {NoName}]

\* CriticalSections::find: of the sections around a line, the first one in the
\* map, which is ordered by the start line.
Around(line) == { s \in Tasks : s.start <= line /\ line <= s.end }
find(line)   == CHOOSE s \in Around(line) : \A r \in Around(line) : s.start <= r.start

\* CriticalSections::insert: a section that starts or ends inside a known one
\* is dropped.
insert(s) ==
  IF Around(s.start) = {} /\ Around(s.end) = {} THEN Tasks \cup {s} ELSE Tasks

\* __tasksan_register_iir_file, which the pass puts into main.
StartProgram ==
  /\ phase = "built" /\ compiled = Sources
  /\ unread' = log[MainSource]
  /\ phase' = "parse"
  /\ UNCHANGED <<buildVars, currentTask, Tasks>>

\* Instructions without a line number are skipped.
ParseStatement ==
  /\ phase = "parse" /\ unread # << >> /\ Head(unread).kind = "statement"
  /\ IF Head(unread).instr.line <= 0
       THEN UNCHANGED currentTask
       ELSE \E garbage \in Operations :
              currentTask' = Append(currentTask,
                                    Instruction(Head(unread).instr, garbage))
  /\ unread' = Tail(unread)
  /\ UNCHANGED <<buildVars, Tasks, phase>>

ParseBegin ==
  /\ phase = "parse" /\ unread # << >> /\ Head(unread).kind = "begin"
  /\ currentTask' = << >>
  /\ unread' = Tail(unread)
  /\ UNCHANGED <<buildVars, Tasks, phase>>

\* Mutant of ParseEnd: a section must end on a later line than it starts.
ParseEndLater ==
  /\ phase = "parse" /\ unread # << >> /\ Head(unread).kind = "end"
  /\ unread' = Tail(unread)
  /\ IF currentTask # << >> /\ Last(currentTask).line > Head(currentTask).line
       THEN /\ Tasks' = insert([start |-> Head(currentTask).line,
                                end   |-> Last(currentTask).line,
                                body  |-> currentTask])
            /\ UNCHANGED phase
       ELSE /\ phase' = "aborted"
            /\ UNCHANGED Tasks
  /\ UNCHANGED <<buildVars, currentTask>>

\* A section is inserted.  The program dies when it has no instruction (an
\* exception nobody catches) or ends before it starts (an assertion).
ParseEnd ==
  /\ phase = "parse" /\ unread # << >> /\ Head(unread).kind = "end"
  /\ unread' = Tail(unread)
  /\ IF currentTask # << >> /\ Last(currentTask).line >= Head(currentTask).line
       THEN /\ Tasks' = insert([start |-> Head(currentTask).line,
                                end   |-> Last(currentTask).line,
                                body  |-> currentTask])
            /\ UNCHANGED phase
       ELSE /\ phase' = "aborted"
            /\ UNCHANGED Tasks
  /\ UNCHANGED <<buildVars, currentTask>>

ParseDone ==
  /\ phase = "parse" /\ unread = << >>
  /\ phase' = "run"
  /\ UNCHANGED <<buildVars, unread, currentTask, Tasks>>

-----------------------------------------------------------------------------
(* The verdict.                                                            *)

Arithmetic == {"ADD", "SUB", "MUL", "DIV"}

\* Mutant of Together: multiplications go with additions.
TogetherAlways(op, other) == {op, other} \subseteq Arithmetic

\* OperationSet::isCommutative, for two operations.
Together(op, other) ==
  {op, other} \subseteq {"ADD", "SUB"} \/ {op, other} \subseteq {"MUL", "DIV"}

\* isSafe: follows an operand backwards from instruction `loc` of a section and
\* collects the operations it goes through.  The operation set is shared by
\* all the calls for one conflict, so it is handed on with each answer.
isSafe(body, from, name, opset) ==
  LET f[loc \in 0 .. Len(body), operand \in Names, ops \in SUBSET Arithmetic] ==
        IF loc = 0
          THEN [safe |-> ops # {} /\ \A o, p \in ops : Together(o, p), ops |-> ops]
          ELSE
        LET i == body[loc]
        IN  CASE i.oper = "ALLOCA" /\ i.dest = operand -> [safe |-> TRUE, ops |-> ops]
              [] i.oper = "CALL" /\ operand \in i.raw  -> [safe |-> FALSE, ops |-> ops]
              [] i.oper \in {"BITCAST", "STORE", "LOAD"} /\ i.dest = operand ->
                   f[loc - 1, i.op1, ops]
              [] i.oper \in Arithmetic /\ i.dest = operand ->
                   IF \E o \in ops : ~Together(i.oper, o)
                     THEN [safe |-> FALSE, ops |-> ops]
                     ELSE LET t1 == f[loc - 1, i.op1, ops \cup {i.oper}]
                              t2 == f[loc - 1, i.op2, t1.ops]
                          IN  [safe |-> t1.safe /\ t2.safe, ops |-> t2.ops]
              [] OTHER -> f[loc - 1, operand, ops]
  IN  f[from, name, opset]

\* involveSimpleOperations: the last instruction of the line must be a store; the
\* search starts before the first instruction of a later line.  The operation of a
\* default Instruction, which is read when the section has no instruction of the line,
\* is whatever that field happens to hold, so there is a set of answers.
involveSimpleOperations(line, ops) ==
  LET body   == find(line).body
      prefix == SelectInSeq(body, LAMBDA i : i.line > line)
      index  == IF prefix = 0 THEN Len(body) ELSE prefix - 1
      ofLine == { k \in 1 .. index : body[k].line = line }
      last   == body[Max(ofLine)]
      instrs == IF ofLine = {} THEN [oper : Operations, op1 : {NoName}]
                                ELSE { [oper |-> last.oper, op1 |-> last.op1] }
      unsafe == [safe |-> FALSE, ops |-> ops]
  IN  IF Around(line) = {} THEN {unsafe}
      ELSE { IF i.oper = "STORE" THEN isSafe(body, index, i.op1, ops) ELSE unsafe :
               i \in instrs }

\* isCommutative, for writes at two lines: whether the answer may be yes.  The set of
\* operations is cleared once, and the second line is judged with those of the first.
isCommutative(line1, line2) ==
  \E first \in involveSimpleOperations(line1, {}) :
    first.safe /\ \E second \in involveSimpleOperations(line2, first.ops) : second.safe

\* The pass hands on eight bits of a line number.
LoggedLine(line) == line % 256

-----------------------------------------------------------------------------

Init ==
  /\ program = [f \in Sources |-> << >>] /\ compiles = 0 /\ compiled = {}
  /\ queue = {} /\ source = MainSource
  /\ function = 1 /\ position = 0 /\ depth = 0
  /\ log = program /\ logOpen = FALSE
  /\ unread = << >> /\ currentTask = << >>
  /\ Tasks = {}
  /\ phase = "source"

Next ==
  \/ Compile \/ (\E f \in Sources : CompileSource(f))
  \/ LogLock \/ LogUnlock \/ LogStatement
  \/ FunctionDone \/ SourceDone \/ Built
  \/ StartProgram \/ ParseBegin \/ ParseStatement \/ ParseEnd \/ ParseDone

Spec == Init /\ [][Next]_vars

-----------------------------------------------------------------------------
(* The critical sections of the program and what they do.                  *)

\* How many locks function f has taken, beyond those it has given back, after its
\* instruction k, ...
Held(f, k) == Cardinality({ j \in 1 .. k : isLock(f[j]) })
                - Cardinality({ j \in 1 .. k : isUnlock(f[j]) })

\* ... whether the one it took at p is still held then, ...
HeldSince(f, p, k) ==
  p <= k /\ isLock(f[p]) /\ \A j \in p .. k : Held(f, j) > Held(f, p - 1)

\* ... and whether any is.
Critical(f, k) == \E p \in 1 .. k : HeldSince(f, p, k)

\* Sections start where a lock is taken while none is held, and hold the code up to
\* where that lock is given back, if it is.
SectionStarts(f) == { p \in DOMAIN f : isLock(f[p]) /\ ~Critical(f, p - 1) }
Closed(f, p)     == ~HeldSince(f, p, Len(f))
Numbered(f, p)   ==
  { k \in DOMAIN f : HeldSince(f, p, k) /\ isStatement(f[k]) /\ f[k].line > 0 }

\* The code of the sections.
SectionsOf(f) ==
  { SelectSeq(SubSeq(f, p, Max({ k \in DOMAIN f : HeldSince(f, p, k) })), isStatement) :
      p \in { q \in SectionStarts(f) : Closed(f, q) } }
Sections ==
  UNION { UNION { SectionsOf(f) : f \in Range(program[file]) } : file \in Sources }

\* One instruction of a section on a memory that maps names to values.
Execute(mem, i) ==
  LET a == mem[i.op1]
      b == mem[i.op2]
  IN  IF i.code = "call" THEN mem
      ELSE [mem EXCEPT ![i.dest] =
              CASE i.code = "add" -> (a + b) % Word
                [] i.code = "sub" -> (a - b) % Word
                [] i.code = "mul" -> (a * b) % Word
                [] i.code = "shl" -> (a * 2 ^ b) % Word
                [] OTHER -> a]

Memories ==
  { [n \in Names |-> IF n \in Variables THEN v[n]
                      ELSE IF n \in DOMAIN Literal THEN Literal[n] ELSE 0] :
      v \in [Variables -> 0 .. Word - 1] }

\* Two tasks that execute the sections s and t, in either order, leave the
\* same value in variable x.
Commute(s, t, x) ==
  \A mem \in Memories :
    FoldLeft(Execute, FoldLeft(Execute, mem, s), t)[x]
      = FoldLeft(Execute, FoldLeft(Execute, mem, t), s)[x]

-----------------------------------------------------------------------------
(* Properties.                                                             *)

\* A body holds the instructions of f at the positions in S, in this order.
IsCopy(body, f, S) ==
  /\ DOMAIN body = 1 .. Cardinality(S)
  /\ \A k \in S : LET i == body[Cardinality({ j \in S : j <= k })]
                  IN  i.line = f[k].line /\ i.raw = Mentioned(f[k]) \cup {NoName}

\* A running program finds, for every line of the critical sections in the file
\* of main, the section around the line, complete and as it was compiled: the way
\* from logTaskBody (IIRlogger.h:113-146) over parseTasksIR to find loses nothing.
SectionsKnown ==
  phase = "run" =>
    \A f \in Range(program[MainSource]) : \A p \in SectionStarts(f) :
      Closed(f, p) =>
        \A k \in Numbered(f, p) :
          /\ Around(f[k].line) # {}
          /\ IsCopy(find(f[k].line).body, f, Numbered(f, p))

\* No instruction of a section has a line, or the last line is before the first.
Degenerate(f, p) ==
  LET S == Numbered(f, p)
  IN  S = {} \/ f[Max(S)].line < f[Min(S)].line

\* Two sections of a file are the same, or one ends on a line before the other starts;
\* and no line of a section is outside of its first and last.  (Of sections whose last
\* line is before the first nothing is asked.)
LinesApart(file) ==
  \A n, m \in DOMAIN file :
    \A p \in SectionStarts(file[n]), q \in SectionStarts(file[m]) :
      LET S == Numbered(file[n], p)
          T == Numbered(file[m], q)
          first(R, f) == f[Min(R)].line
          last(R, f)  == f[Max(R)].line
      IN  ~Degenerate(file[n], p) /\ ~Degenerate(file[m], q) =>
            /\ \A k \in S : /\ first(S, file[n]) <= file[n][k].line
                            /\ file[n][k].line <= last(S, file[n])
            /\ \/ n = m /\ p = q
               \/ last(S, file[n]) < first(T, file[m])
               \/ last(T, file[m]) < first(S, file[n])

\* A program dies while it starts only if one of the critical sections in the file of
\* main has no numbered line or ends on a line before its first
\* (CriticalSectionBody.h:41,49): not because of a marker without partner, of locks
\* held across functions or of nested locks (IIRlogger.h:113-146).
StartsUnlessDegenerate ==
  phase = "aborted" =>
    \E f \in Range(program[MainSource]) : \E p \in SectionStarts(f) : Degenerate(f, p)

\* A write without a line is not logged.
Stores(s) == { k \in DOMAIN s : s[k].code = "store" /\ LoggedLine(s[k].line) > 0 }

\* When the checker drops a conflict of two writes of a variable as commutative
\* (checker.cc:197-198), the sections that contain them leave the same value in
\* the variable in either order; dropping any other conflict hides a race.
AcceptedWritesCommute ==
  phase = "run" =>
    \A s, t \in Sections : \A j \in Stores(s), k \in Stores(t) :
      /\ s[j].dest = t[k].dest
      /\ isCommutative(LoggedLine(s[j].line), LoggedLine(t[k].line))
      => Commute(s, t, s[j].dest)
=============================================================================
