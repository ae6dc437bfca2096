-------------------------- MODULE MCInstrumentation --------------------------
(* Instances of Instrumentation for TLC. *)
EXTENDS Instrumentation, TLC

CONSTANTS t1, t2, int, long, double, stack, literal, packed, odd, far, vptr

Symmetry == Permutations({t1, t2})

Op(op, addr, line) ==
  [op |-> op, addr |-> addr, line |-> line, value |-> 1, relative |-> FALSE]
Increment(addr, line) == [Op("store", addr, line) EXCEPT !.relative = TRUE]

\* x += 1 in its two halves.
Increments == { Op("load", int, 1), Increment(int, 1) }

\* Atomic instructions of which the runtime implements only the first.
AtomicOps ==
  { Op("fetch_add", int, 1), Op("fetch_sub", int, 2), Op("atomic store", int, 3),
    Op("atomic load", int, 4), Op("cmpxchg", int, 4), Op("fetch_add", long, 5) }

\* Accesses of every kind of address, and the atomics that keep their meaning.
AllKinds ==
  { Op("load", int, 1), Increment(int, 255), Op("store", double, 200),
    Op("load", literal, 4), Op("load", stack, 5), Op("store", stack, 5), Op("store", packed, 6),
    Op("store", vptr, 8), Op("store", far, 9), Op("fetch_add", int, 10),
    Op("atomic load", int, 11), Op("fetch_max", int, 12), Op("fetch_sub", odd, 13),
    Op("memset", int, 14), Op("call", int, 15), Op("br", int, 16) }
=============================================================================
