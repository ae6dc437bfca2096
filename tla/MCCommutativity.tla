-------------------------- MODULE MCCommutativity --------------------------
(* Instances of Commutativity for TLC: a file with two functions, each with *)
(* one critical section made from the templates below, and another file     *)
(* with one.                                                                *)
EXTENDS Commutativity

CONSTANTS main, other

NamesUsed  == {NoName, "x", "y", "r1", "r2", "r3", "r4", "1", "3"}
Shared     == {"x", "y"}
LiteralMap == "1" :> 1 @@ "3" :> 3

Ins(code, line, dest, op1, op2) ==
  [code |-> code, line |-> line, dest |-> dest, op1 |-> op1, op2 |-> op2]
Lock   == Ins("lock", 0, NoName, NoName, NoName)
Unlock == Ins("unlock", 0, NoName, NoName, NoName)
Locked(s) == <<Lock>> \o s \o <<Unlock>>

\* v = v op c
Update(v, op, c, line) ==
  << Ins("load", line, "r1", v, NoName),
     Ins(op, line, "r2", "r1", c),
     Ins("store", line, v, "r2", NoName) >>

\* v = (v op1 1) op2 3
Chain(v, o1, o2, line) ==
  << Ins("load", line, "r1", v, NoName),
     Ins(o1, line, "r2", "r1", "1"),
     Ins(o2, line, "r3", "r2", "3"),
     Ins("store", line, v, "r3", NoName) >>

\* v = (conversion of v) op c; the conversion is an instruction that the
\* parser does not know, and the first instruction has no line number.
Converted(v, op, c, line) ==
  << Ins("call", 0, NoName, v, NoName),
     Ins("load", line, "r1", v, NoName),
     Ins("sext", line, "r2", "r1", NoName),
     Ins(op, line, "r3", "r2", c),
     Ins("store", line, v, "r3", NoName) >>

\* A call before the update.
Called(v, op, c, line) ==
  << Ins("call", line, "r4", "y", NoName) >> \o Update(v, op, c, line + 1)

\* v = c
Assign(v, c, line) == << Ins("store", line, v, c, NoName) >>

Ops == {"add", "sub", "mul"}

\* Sections that only update the variables they load.
UpdateSections(line) ==
  { Locked(Update("x", op, c, line)) : op \in Ops, c \in {"1", "3"} }
  \cup { Locked(Chain("x", o1, o2, line)) : o1, o2 \in Ops }
  \cup { Locked(Called("x", "add", "3", line)) }
  \cup { Locked(Update("x", op, "1", line) \o Update("y", "mul", "3", line + 1)) : op \in {"add", "mul"} }
  \* nested locks, and a lock taken or given back in another function
  \cup { Locked(Locked(Update("y", "add", "1", line)) \o Update("x", "mul", "3", line + 1)),
         <<Lock>> \o Update("y", "sub", "1", line),
         << Lock, Ins("call", 0, NoName, "y", NoName) >>,
         <<Unlock>> \o Locked(Update("x", "add", "3", line)),
         Locked(Converted("x", "add", "3", line)) }
  \* nothing but a call without line, and lines in another order than the layout
  \cup { Locked(<< Ins("call", 0, NoName, "y", NoName) >>),
         Locked(Update("x", "add", "1", line + 1) \o Update("y", "add", "1", line)) }

PlainSections(line) ==
  { Locked(Update("x", "add", "1", line)), Locked(Assign("x", "3", line)) }

\* Critical sections of the other file, on a line that is logged as 30; the file of main
\* has no code on either.
OtherSections == { Locked(Update("x", op, "3", 286)) : op \in {"add", "mul"} }

Files(mainFiles, others) ==
  { main :> f @@ other :> <<g>> : f \in mainFiles, g \in others }

UpdatePrograms ==
  Files({ <<f, g>> : f \in UpdateSections(10), g \in UpdateSections(20) }, OtherSections)
PlainPrograms ==
  { main :> <<f, g>> : f \in PlainSections(10), g \in PlainSections(20) }

\* The instances meet the hypothesis of SectionsAreKnown.
ASSUME ApartAssumption == \A p \in Programs : LinesApart(p[MainSource])
=============================================================================
