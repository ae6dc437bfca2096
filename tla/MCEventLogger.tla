--------------------------- MODULE MCEventLogger ---------------------------
(* Instances of EventLogger for TLC.                                       *)
EXTENDS EventLogger

CONSTANTS main, worker, f, g

Two == {main, worker}

\* Task 0 calls f, which writes two variables; task 1 calls f and g, which read
\* them: a pair of lines conflicts on two addresses, and both tasks register f.
\* Task 2 only takes part in the order.
Stmt(n, l, w, v, a) ==
  [addr |-> a, isWrite |-> w, value |-> v, line |-> l, name |-> n]
Program ==
  [t \in 0 .. 2 |->
     CASE t = 0 -> {Stmt(f, 1, TRUE, 1, 8), Stmt(f, 1, TRUE, 1, 16)}
       [] t = 1 -> {Stmt(f, 2, FALSE, 0, 8), Stmt(g, 2, FALSE, 0, 16)}
       [] t = 2 -> {}]
=============================================================================
