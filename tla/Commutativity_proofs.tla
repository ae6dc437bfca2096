------------------------- MODULE Commutativity_proofs -------------------------
(***************************************************************************)
(* Proofs about the way of critical sections from the source files of a    *)
(* program, over the .iir file of the one that defines main, to the table  *)
(* of the checker: why a program dies while it reads the file, and when    *)
(* the table holds every section as it was compiled.                       *)
(***************************************************************************)
EXTENDS Commutativity, FiniteSetTheorems, FunctionTheorems, WellFoundedInduction, TLAPS

-----------------------------------------------------------------------------
(* Locks that are held.                                                    *)

\* Counting the elements of a set up to a number.
LEMMA CountStep ==
  ASSUME NEW P, NEW k \in Nat
  PROVE  /\ IsFiniteSet((1 .. k) \cap P) /\ Cardinality((1 .. k) \cap P) \in Nat
         /\ Cardinality((1 .. (k + 1)) \cap P) =
              Cardinality((1 .. k) \cap P) + (IF k + 1 \in P THEN 1 ELSE 0)
         /\ Cardinality((1 .. 0) \cap P) = 0
<1>1. IsFiniteSet(1 .. k)
  BY FS_Interval
<1>2. IsFiniteSet((1 .. k) \cap P)
  BY <1>1, FS_Subset
<1>3. Cardinality((1 .. k) \cap P) \in Nat
  BY <1>2, FS_CardinalityType
<1>4. Cardinality((1 .. 0) \cap P) = 0
  <2>1. (1 .. 0) \cap P = {}
    OBVIOUS
  <2> QED
    BY <2>1, FS_EmptySet
<1>5. CASE k + 1 \in P
  <2>1. (1 .. (k + 1)) \cap P = ((1 .. k) \cap P) \cup {k + 1}
    BY <1>5
  <2>2. k + 1 \notin (1 .. k) \cap P
    OBVIOUS
  <2> QED
    BY <1>2, <1>3, <1>4, <1>5, <2>1, <2>2, FS_AddElement
<1>6. CASE k + 1 \notin P
  <2>1. (1 .. (k + 1)) \cap P = (1 .. k) \cap P
    BY <1>6
  <2>2. Cardinality((1 .. (k + 1)) \cap P) = Cardinality((1 .. k) \cap P)
    BY <2>1
  <2>3. PICK c \in Nat : c = Cardinality((1 .. k) \cap P)
    BY <1>3
  <2> QED
    BY <1>2, <1>4, <1>6, <2>2, <2>3
<1> QED
  BY <1>5, <1>6

\* What an instruction does to the number of locks held.
LEMMA HeldStep ==
  ASSUME NEW f, NEW k \in Nat
  PROVE  /\ Held(f, k) \in Int /\ Held(f, 0) = 0
         /\ isLock(f[k + 1]) => Held(f, k + 1) = Held(f, k) + 1
         /\ isUnlock(f[k + 1]) => Held(f, k + 1) = Held(f, k) - 1
         /\ isStatement(f[k + 1]) => Held(f, k + 1) = Held(f, k)
<1> DEFINE P == { j \in Nat : isLock(f[j]) }
           Q == { j \in Nat : isUnlock(f[j]) }
<1>1. \A n \in Nat : Held(f, n) = Cardinality((1 .. n) \cap P) - Cardinality((1 .. n) \cap Q)
  <2>1. ASSUME NEW n \in Nat
        PROVE  /\ { j \in 1 .. n : isLock(f[j]) } = (1 .. n) \cap P
               /\ { j \in 1 .. n : isUnlock(f[j]) } = (1 .. n) \cap Q
    OBVIOUS
  <2> QED
    BY <2>1 DEF Held
<1>2. /\ k + 1 \in P <=> isLock(f[k + 1])
      /\ k + 1 \in Q <=> isUnlock(f[k + 1])
  OBVIOUS
<1>3. ~(isLock(f[k + 1]) /\ isUnlock(f[k + 1]))
  BY DEF isLock, isUnlock
<1> HIDE DEF P, Q
<1> DEFINE p(n) == Cardinality((1 .. n) \cap P)
           q(n) == Cardinality((1 .. n) \cap Q)
<1>4. /\ p(k) \in Nat /\ p(0) = 0 /\ p(k + 1) = p(k) + (IF k + 1 \in P THEN 1 ELSE 0)
      /\ q(k) \in Nat /\ q(0) = 0 /\ q(k + 1) = q(k) + (IF k + 1 \in Q THEN 1 ELSE 0)
  BY CountStep
<1>5. /\ Held(f, k) = p(k) - q(k) /\ Held(f, 0) = p(0) - q(0)
      /\ Held(f, k + 1) = p(k + 1) - q(k + 1)
  BY <1>1
<1> HIDE DEF p, q
<1> QED
  BY <1>2, <1>3, <1>4, <1>5 DEF isStatement

\* The least of the numbers in a set.
LEMMA LeastNat ==
  ASSUME NEW T \in SUBSET Nat, T # {}
  PROVE  \E m \in T : \A n \in T : m <= n
<1>1. PICK m \in T : \A n \in T : <<n, m>> \notin OpToRel(<, Nat)
  BY NatLessThanWellFounded, WFMin
<1>2. \A n \in T : ~(n < m)
  BY <1>1 DEF OpToRel
<1> QED
  BY <1>2

\* A lock is held by the instruction that takes it, and in between.
LEMMA HeldBetween ==
  ASSUME NEW f, NEW p \in Nat \ {0}
  PROVE  /\ isLock(f[p]) => HeldSince(f, p, p)
         /\ \A j, k \in Nat : HeldSince(f, p, k) /\ p <= j /\ j <= k => HeldSince(f, p, j)
<1>1. isLock(f[p]) => Held(f, p) = Held(f, p - 1) + 1 /\ Held(f, p - 1) \in Int
  <2>1. p - 1 \in Nat /\ (p - 1) + 1 = p
    OBVIOUS
  <2> QED
    BY <2>1, HeldStep
<1>2. isLock(f[p]) => HeldSince(f, p, p)
  BY <1>1 DEF HeldSince
<1> QED
  BY <1>2 DEF HeldSince

\* A section that started is the only one, and has the whole stretch of code in which
\* a lock is held.
LEMMA OneSection ==
  ASSUME NEW f, NEW k \in Nat
  PROVE  /\ \A p, q \in SectionStarts(f) :
              p \in Nat \ {0} /\ q \in Nat \ {0} /\ HeldSince(f, p, k) /\ HeldSince(f, q, k) => p = q
         /\ k <= Len(f) /\ DOMAIN f = 1 .. Len(f) /\ Len(f) \in Nat /\ Critical(f, k)
              => \E p \in SectionStarts(f) : HeldSince(f, p, k)
<1>1. ASSUME NEW p \in SectionStarts(f), NEW q \in SectionStarts(f),
             p \in Nat \ {0}, q \in Nat \ {0}, HeldSince(f, p, k), HeldSince(f, q, k), p < q
      PROVE  FALSE
  <2>1. HeldSince(f, p, q - 1) /\ p \in 1 .. q - 1
    BY <1>1, HeldBetween DEF HeldSince
  <2> QED
    BY <2>1 DEF SectionStarts, Critical
<1>2. ASSUME k <= Len(f), DOMAIN f = 1 .. Len(f), Len(f) \in Nat, Critical(f, k)
      PROVE  \E p \in SectionStarts(f) : HeldSince(f, p, k)
  <2> DEFINE T == { p \in 1 .. k : HeldSince(f, p, k) }
  <2>1. T \in SUBSET Nat /\ T # {}
    BY <1>2 DEF Critical
  <2>2. PICK p \in T : \A q \in T : p <= q
    BY <2>1, LeastNat
  <2>3. ASSUME NEW q \in 1 .. p - 1, HeldSince(f, q, p - 1)
        PROVE  FALSE
    <3>1. \A j \in Nat : Held(f, j) \in Int
      BY HeldStep
    <3>2. Held(f, p - 1) > Held(f, q - 1)
      BY <2>3 DEF HeldSince
    <3>3. \A j \in q .. k : Held(f, j) > Held(f, q - 1)
      BY <2>2, <2>3, <3>1, <3>2 DEF HeldSince
    <3>4. HeldSince(f, q, k)
      BY <2>2, <2>3, <3>3 DEF HeldSince
    <3> QED
      BY <2>2, <2>3, <3>4
  <2>4. p \in DOMAIN f /\ isLock(f[p]) /\ HeldSince(f, p, k)
    BY <1>2, <2>2 DEF HeldSince
  <2>5. p \in SectionStarts(f)
    BY <2>3, <2>4 DEF SectionStarts, Critical
  <2> QED
    BY <2>4, <2>5
<1> QED
  BY <1>1, <1>2

\* A section that is closed ends with an unlock after which no lock is held.
LEMMA SectionEnds ==
  ASSUME NEW f, DOMAIN f = 1 .. Len(f), Len(f) \in Nat, NEW p \in SectionStarts(f), Closed(f, p)
  PROVE  \E n \in p + 1 .. Len(f) : /\ isUnlock(f[n]) /\ HeldSince(f, p, n - 1)
                                    /\ ~Critical(f, n)
<1>1. p \in 1 .. Len(f) /\ isLock(f[p]) /\ \A q \in 1 .. p - 1 : ~HeldSince(f, q, p - 1)
  BY DEF SectionStarts, Critical
<1> DEFINE T == { n \in p .. Len(f) : ~HeldSince(f, p, n) }
<1>2. T \in SUBSET Nat /\ T # {}
  BY <1>1 DEF Closed
<1>3. PICK n \in T : \A m \in T : n <= m
  BY <1>2, LeastNat
<1>4. HeldSince(f, p, p)
  BY <1>1, HeldBetween
<1>5. n \in p + 1 .. Len(f) /\ HeldSince(f, p, n - 1)
  BY <1>1, <1>3, <1>4
<1>6. \A j \in Nat : Held(f, j) \in Int
  BY HeldStep
<1>7. Held(f, n) <= Held(f, p - 1) /\ Held(f, n - 1) > Held(f, p - 1)
  BY <1>1, <1>3, <1>5, <1>6 DEF HeldSince
<1>8. isUnlock(f[n]) /\ Held(f, n) = Held(f, n - 1) - 1
  <2>1. n - 1 \in Nat /\ (n - 1) + 1 = n
    BY <1>1, <1>5
  <2>2. /\ isLock(f[n]) => Held(f, n) = Held(f, n - 1) + 1
        /\ isUnlock(f[n]) => Held(f, n) = Held(f, n - 1) - 1
        /\ isStatement(f[n]) => Held(f, n) = Held(f, n - 1)
    BY <2>1, HeldStep
  <2>3. /\ Held(f, n) \in Int /\ Held(f, n - 1) \in Int /\ Held(f, p - 1) \in Int
    BY <1>1, <1>5, <1>6
  <2> QED
    BY <1>7, <2>2, <2>3 DEF isStatement
<1>9. ASSUME NEW q \in 1 .. n, HeldSince(f, q, n)
      PROVE  FALSE
  <2>1. CASE q < p
    BY <1>1, <1>5, <1>9, <2>1, HeldBetween DEF HeldSince
  <2>2. CASE q = p
    BY <1>3, <1>9, <2>2
  <2>3. CASE q > p
    <3>1. Held(f, n) > Held(f, q - 1)
      BY <1>9 DEF HeldSince
    <3>2. Held(f, q - 1) > Held(f, p - 1)
      BY <1>1, <1>5, <2>3 DEF HeldSince
    <3> QED
      BY <1>1, <1>5, <1>6, <1>7, <1>8, <3>1, <3>2
  <2> QED
    BY <1>1, <1>5, <2>1, <2>2, <2>3
<1> QED
  BY <1>5, <1>8, <1>9 DEF Critical

-----------------------------------------------------------------------------
(* The counter of the pass.                                                *)

\* in_critical_section after k instructions of f: the locks held beyond the section.
DepthIs(f, k, d) ==
  /\ d \in Nat
  /\ d = 0 => ~Critical(f, k)
  /\ d > 0 => \E p \in SectionStarts(f) : HeldSince(f, p, k) /\ Held(f, k) = Held(f, p - 1) + d

\* It is positive within sections.
LEMMA DepthCritical ==
  ASSUME NEW f, DOMAIN f = 1 .. Len(f), NEW k, NEW d, DepthIs(f, k, d)
  PROVE  Critical(f, k) <=> d > 0
<1>1. d > 0 => Critical(f, k)
  BY DEF DepthIs, Critical, HeldSince, SectionStarts
<1> QED
  BY <1>1 DEF DepthIs

\* One more instruction.
LEMMA SinceStep ==
  ASSUME NEW f, NEW k \in Nat, NEW p \in 1 .. k
  PROVE  HeldSince(f, p, k + 1) <=> HeldSince(f, p, k) /\ Held(f, k + 1) > Held(f, p - 1)
<1>1. p .. k + 1 = (p .. k) \cup {k + 1}
  OBVIOUS
<1> QED
  BY <1>1 DEF HeldSince

\* The counter follows the code.
LEMMA DepthStep ==
  ASSUME NEW f, DOMAIN f = 1 .. Len(f), Len(f) \in Nat, NEW k \in Nat, k < Len(f),
         NEW d, DepthIs(f, k, d)
  PROVE  /\ isLock(f[k + 1]) => /\ DepthIs(f, k + 1, d + 1)
                                /\ k + 1 \in SectionStarts(f) <=> d = 0
         /\ isUnlock(f[k + 1]) => DepthIs(f, k + 1, IF d > 0 THEN d - 1 ELSE 0)
         /\ isStatement(f[k + 1]) => DepthIs(f, k + 1, d)
<1>1. d \in Nat /\ \A j \in Nat : Held(f, j) \in Int
  BY HeldStep DEF DepthIs
<1>2. Critical(f, k) <=> d > 0
  BY DepthCritical
<1>3. /\ isLock(f[k + 1]) => Held(f, k + 1) = Held(f, k) + 1
      /\ isUnlock(f[k + 1]) => Held(f, k + 1) = Held(f, k) - 1
      /\ isStatement(f[k + 1]) => Held(f, k + 1) = Held(f, k)
  BY HeldStep
<1>4. k + 1 \in DOMAIN f /\ (k + 1) - 1 = k
  OBVIOUS
<1>5. ASSUME isLock(f[k + 1])
      PROVE  k + 1 \in SectionStarts(f) <=> d = 0
  BY <1>1, <1>2, <1>4, <1>5 DEF SectionStarts
<1>6. ASSUME d = 0, isLock(f[k + 1])
      PROVE  DepthIs(f, k + 1, d + 1)
  <2>1. k + 1 \in SectionStarts(f) /\ HeldSince(f, k + 1, k + 1)
    BY <1>5, <1>6, HeldBetween
  <2> QED
    BY <1>1, <1>3, <1>4, <1>6, <2>1 DEF DepthIs
<1>7. ASSUME d = 0, ~isLock(f[k + 1])
      PROVE  ~Critical(f, k + 1)
  <2>1. ASSUME NEW p \in 1 .. k + 1, HeldSince(f, p, k + 1)
        PROVE  FALSE
    <3>1. p \in 1 .. k
      BY <1>7, <2>1 DEF HeldSince
    <3>2. HeldSince(f, p, k)
      BY <2>1, <3>1, SinceStep
    <3>3. ~Critical(f, k)
      BY <1>2, <1>7
    <3> QED
      BY <3>1, <3>2, <3>3 DEF Critical
  <2> QED
    BY <2>1 DEF Critical
<1>8. ASSUME d > 0
      PROVE  /\ isLock(f[k + 1]) => DepthIs(f, k + 1, d + 1)
             /\ isUnlock(f[k + 1]) => DepthIs(f, k + 1, d - 1)
             /\ isStatement(f[k + 1]) => DepthIs(f, k + 1, d)
  <2>1. PICK p \in SectionStarts(f) : HeldSince(f, p, k) /\ Held(f, k) = Held(f, p - 1) + d
    BY <1>8 DEF DepthIs
  <2>2. p \in 1 .. k
    BY <2>1 DEF HeldSince, SectionStarts
  <2>3. HeldSince(f, p, k + 1) <=> Held(f, k + 1) > Held(f, p - 1)
    BY <2>1, <2>2, SinceStep
  <2>4. Held(f, p - 1) \in Int /\ Held(f, k) \in Int /\ Held(f, k + 1) \in Int
    BY <1>1, <2>2
  <2>5. ASSUME NEW e \in Nat \ {0}, Held(f, k + 1) = Held(f, p - 1) + e
        PROVE  DepthIs(f, k + 1, e)
    BY <2>3, <2>4, <2>5 DEF DepthIs
  <2>6. ASSUME Held(f, k + 1) = Held(f, p - 1)
        PROVE  DepthIs(f, k + 1, 0)
    <3>1. ASSUME NEW q \in 1 .. k + 1, HeldSince(f, q, k + 1)
          PROVE  FALSE
      <4>1. CASE q < p
        BY <2>2, <3>1, <4>1, HeldBetween DEF SectionStarts, Critical
      <4>2. CASE q = p
        BY <2>3, <2>4, <2>6, <3>1, <4>2
      <4>3. CASE q > p
        <5>1. Held(f, k + 1) > Held(f, q - 1)
          BY <3>1 DEF HeldSince
        <5>2. Held(f, q - 1) > Held(f, p - 1) /\ Held(f, q - 1) \in Int
          BY <1>1, <2>1, <2>2, <4>3 DEF HeldSince
        <5> QED
          BY <2>4, <2>6, <5>1, <5>2
      <4> QED
        BY <2>2, <4>1, <4>2, <4>3
    <3> QED
      BY <3>1 DEF DepthIs, Critical
  <2>7. isLock(f[k + 1]) => Held(f, k + 1) = Held(f, p - 1) + (d + 1)
    BY <1>1, <1>3, <2>1, <2>4
  <2>8. isUnlock(f[k + 1]) => Held(f, k + 1) = Held(f, p - 1) + (d - 1)
    BY <1>1, <1>3, <2>1, <2>4
  <2>9. isStatement(f[k + 1]) => Held(f, k + 1) = Held(f, p - 1) + d
    BY <1>1, <1>3, <2>1, <2>4
  <2> QED
    BY <1>1, <1>8, <2>4, <2>5, <2>6, <2>7, <2>8, <2>9
<1>9. ~(isLock(f[k + 1]) /\ isUnlock(f[k + 1])) /\ ~(isLock(f[k + 1]) /\ isStatement(f[k + 1]))
  BY DEF isLock, isUnlock, isStatement
<1>10. ASSUME d = 0, ~isLock(f[k + 1])
       PROVE  DepthIs(f, k + 1, 0)
  BY <1>7, <1>10 DEF DepthIs
<1> QED
  BY <1>1, <1>5, <1>6, <1>8, <1>9, <1>10

-----------------------------------------------------------------------------
(* The .iir file of the source of main.                                    *)

LogLine == {Marker("begin"), Marker("end")} \cup { Statement(i) : i \in SourceInstr }

\* Instruction n of function m comes before instruction i of function k.
Before(m, n, k, i) == m < k \/ (m = k /\ n < i)

\* A line may have been written for instruction n of f, ...
Entry(line, f, n) ==
  \/ line = Marker("begin") /\ n \in SectionStarts(f)
  \/ line = Marker("end") /\ isUnlock(f[n]) /\ ~Critical(f, n)
  \/ line = Statement(f[n]) /\ isStatement(f[n]) /\ Critical(f, n)

\* ... or must have been.
Marked(f, n) ==
  \/ n \in SectionStarts(f)
  \/ isUnlock(f[n]) /\ Critical(f, n - 1) /\ ~Critical(f, n)
  \/ isStatement(f[n]) /\ Critical(f, n)

\* The lines L are those of the functions P up to instruction i of function k: line j is
\* for instruction Q[j] of function F[j].
Logged(P, L, F, Q, k, i) ==
  /\ L \in Seq(LogLine) /\ (L # << >> => L[1] = Marker("begin"))
  /\ F \in [DOMAIN L -> Nat] /\ Q \in [DOMAIN L -> Nat]
  /\ \A j \in DOMAIN L : /\ F[j] \in DOMAIN P /\ Q[j] \in DOMAIN P[F[j]]
                         /\ Before(F[j], Q[j], k, i) /\ Entry(L[j], P[F[j]], Q[j])
  /\ \A j, l \in DOMAIN L : j < l => Before(F[j], Q[j], F[l], Q[l])
  /\ \A m \in DOMAIN P : \A n \in DOMAIN P[m] :
       Before(m, n, k, i) /\ Marked(P[m], n) => \E j \in DOMAIN L : F[j] = m /\ Q[j] = n

LoggedTo(P, L, k, i) == \E F, Q : Logged(P, L, F, Q, k, i)

\* At first nothing is written.
LEMMA LogStarts ==
  ASSUME NEW P \in Seq(Seq(SourceInstr))
  PROVE  LoggedTo(P, << >>, 1, 1)
<1> DEFINE F == [j \in {} |-> 0]
<1>1. << >> \in Seq(LogLine) /\ DOMAIN << >> = {}
  OBVIOUS
<1>2. F \in [{} -> Nat]
  OBVIOUS
<1>3. \A m \in DOMAIN P : \A n \in DOMAIN P[m] : ~Before(m, n, 1, 1)
  <2>1. ASSUME NEW m \in DOMAIN P, NEW n \in DOMAIN P[m]
        PROVE  m \in Nat \ {0} /\ n \in Nat \ {0}
    <3>1. P[m] \in Seq(SourceInstr) /\ m \in Nat \ {0}
      BY <2>1
    <3> QED
      BY <2>1, <3>1
  <2> QED
    BY <2>1 DEF Before
<1> HIDE DEF F
<1>4. Logged(P, << >>, F, F, 1, 1)
  BY <1>1, <1>2, <1>3 DEF Logged
<1> QED
  BY <1>4 DEF LoggedTo

\* A line is written, for the next instruction.
LEMMA LogGrows ==
  ASSUME NEW P \in Seq(Seq(SourceInstr)), NEW L, NEW k \in DOMAIN P, NEW i \in DOMAIN P[k],
         LoggedTo(P, L, k, i), NEW line \in LogLine, Entry(line, P[k], i),
         L = << >> => line = Marker("begin")
  PROVE  LoggedTo(P, Append(L, line), k, i + 1)
<1>1. PICK F, Q : Logged(P, L, F, Q, k, i)
  BY DEF LoggedTo
<1>2. L \in Seq(LogLine) /\ k \in Nat /\ P[k] \in Seq(SourceInstr)
  BY <1>1 DEF Logged
<1>3. i \in Nat /\ DOMAIN L = 1 .. Len(L) /\ Len(L) \in Nat
  BY <1>2
<1> DEFINE n  == Len(L) + 1
           F2 == [j \in 1 .. n |-> IF j = n THEN k ELSE F[j]]
           Q2 == [j \in 1 .. n |-> IF j = n THEN i ELSE Q[j]]
           M  == Append(L, line)
<1>4. /\ M \in Seq(LogLine) /\ DOMAIN M = 1 .. n /\ M[n] = line
      /\ \A j \in DOMAIN L : M[j] = L[j]
  BY <1>2, <1>3
<1>5. M[1] = Marker("begin")
  BY <1>1, <1>2, <1>3, <1>4 DEF Logged
<1>6. /\ F2 \in [1 .. n -> Nat] /\ Q2 \in [1 .. n -> Nat] /\ F2[n] = k /\ Q2[n] = i
      /\ \A j \in DOMAIN L : F2[j] = F[j] /\ Q2[j] = Q[j]
      /\ \A j \in 1 .. n : j # n => j \in DOMAIN L
  BY <1>1, <1>2, <1>3, SMTT(30) DEF Logged
<1> HIDE DEF n, F2, Q2, M
<1>7. \A a, b \in Nat : Before(a, b, k, i) => Before(a, b, k, i + 1)
  BY <1>2, <1>3 DEF Before
<1>8. Before(k, i, k, i + 1)
  BY <1>3 DEF Before
<1>9. \A j \in DOMAIN L : /\ F[j] \in Nat /\ Q[j] \in Nat
  BY <1>1 DEF Logged
<1>10. ASSUME NEW j \in 1 .. n
       PROVE  /\ F2[j] \in DOMAIN P /\ Q2[j] \in DOMAIN P[F2[j]]
              /\ Before(F2[j], Q2[j], k, i + 1) /\ Entry(M[j], P[F2[j]], Q2[j])
  <2>1. CASE j = n
    BY <1>4, <1>6, <1>8, <2>1
  <2>2. CASE j # n
    BY <1>1, <1>4, <1>6, <1>7, <1>9, <2>2 DEF Logged
  <2> QED
    BY <2>1, <2>2
<1>11. ASSUME NEW j \in 1 .. n, NEW l \in 1 .. n, j < l
       PROVE  Before(F2[j], Q2[j], F2[l], Q2[l])
  <2>1. j \in DOMAIN L
    BY <1>3, <1>11 DEF n
  <2>2. CASE l = n
    BY <1>1, <1>6, <2>1, <2>2 DEF Logged
  <2>3. CASE l # n
    BY <1>1, <1>6, <1>11, <2>1, <2>3 DEF Logged
  <2> QED
    BY <2>2, <2>3
<1>12. ASSUME NEW m \in DOMAIN P, NEW q \in DOMAIN P[m], Before(m, q, k, i + 1), Marked(P[m], q)
       PROVE  \E j \in 1 .. n : F2[j] = m /\ Q2[j] = q
  <2>1. m \in Nat /\ q \in Nat
    <3>1. P[m] \in Seq(SourceInstr)
      BY <1>12
    <3> QED
      BY <1>12, <3>1
  <2>2. Before(m, q, k, i) \/ (m = k /\ q = i)
    BY <1>2, <1>3, <1>12, <2>1 DEF Before
  <2>3. n \in 1 .. n /\ DOMAIN L \subseteq 1 .. n
    BY <1>3 DEF n
  <2>4. CASE Before(m, q, k, i)
    <3>1. PICK j \in DOMAIN L : F[j] = m /\ Q[j] = q
      BY <1>1, <1>12, <2>4 DEF Logged
    <3> QED
      BY <1>6, <2>3, <3>1
  <2> QED
    BY <1>6, <2>2, <2>3, <2>4
<1>13. Logged(P, M, F2, Q2, k, i + 1)
  <2>1. F2 \in [DOMAIN M -> Nat] /\ Q2 \in [DOMAIN M -> Nat]
    BY <1>4, <1>6
  <2>2. \A j \in DOMAIN M : /\ F2[j] \in DOMAIN P /\ Q2[j] \in DOMAIN P[F2[j]]
                             /\ Before(F2[j], Q2[j], k, i + 1)
                             /\ Entry(M[j], P[F2[j]], Q2[j])
    BY <1>4, <1>10
  <2>3. \A j, l \in DOMAIN M : j < l => Before(F2[j], Q2[j], F2[l], Q2[l])
    BY <1>4, <1>11
  <2>4. ASSUME NEW m \in DOMAIN P, NEW q \in DOMAIN P[m], Before(m, q, k, i + 1), Marked(P[m], q)
        PROVE  \E j \in DOMAIN M : F2[j] = m /\ Q2[j] = q
    <3>1. PICK j \in 1 .. n : F2[j] = m /\ Q2[j] = q
      BY <1>12, <2>4
    <3> QED
      BY <1>4, <3>1
  <2> QED
    BY <1>4, <1>5, <2>1, <2>2, <2>3, <2>4 DEF Logged
<1> QED
  BY <1>13 DEF LoggedTo, M

\* No line is written, for the next instruction, ...
LEMMA LogStays ==
  ASSUME NEW P \in Seq(Seq(SourceInstr)), NEW L, NEW k \in DOMAIN P, NEW i \in DOMAIN P[k],
         LoggedTo(P, L, k, i), ~Marked(P[k], i)
  PROVE  LoggedTo(P, L, k, i + 1)
<1>1. PICK F, Q : Logged(P, L, F, Q, k, i)
  BY DEF LoggedTo
<1>2. k \in Nat /\ P[k] \in Seq(SourceInstr) /\ i \in Nat
  <2>1. P[k] \in Seq(SourceInstr)
    OBVIOUS
  <2> QED
    BY <2>1
<1>3. \A a, b \in Nat : Before(a, b, k, i + 1) <=> Before(a, b, k, i) \/ (a = k /\ b = i)
  BY <1>2 DEF Before
<1>4. \A j \in DOMAIN L : F[j] \in Nat /\ Q[j] \in Nat
  BY <1>1 DEF Logged
<1>5. \A m \in DOMAIN P : \A q \in DOMAIN P[m] : m \in Nat /\ q \in Nat
  <2>1. ASSUME NEW m \in DOMAIN P
        PROVE  P[m] \in Seq(SourceInstr)
    OBVIOUS
  <2> QED
    BY <2>1
<1>6. \A j \in DOMAIN L : Before(F[j], Q[j], k, i + 1)
  BY <1>1, <1>3, <1>4 DEF Logged
<1>7. ASSUME NEW m \in DOMAIN P, NEW q \in DOMAIN P[m], Before(m, q, k, i + 1), Marked(P[m], q)
      PROVE  \E j \in DOMAIN L : F[j] = m /\ Q[j] = q
  <2>1. Before(m, q, k, i)
    BY <1>3, <1>5, <1>7
  <2> QED
    BY <1>1, <1>7, <2>1 DEF Logged
<1>8. Logged(P, L, F, Q, k, i + 1)
  BY <1>1, <1>6, <1>7 DEF Logged
<1> QED
  BY <1>8 DEF LoggedTo

\* ... or for the end of a function.
LEMMA LogTurns ==
  ASSUME NEW P \in Seq(Seq(SourceInstr)), NEW L, NEW k \in DOMAIN P,
         LoggedTo(P, L, k, Len(P[k]) + 1)
  PROVE  LoggedTo(P, L, k + 1, 1)
<1> PICK i : i = Len(P[k]) + 1
  OBVIOUS
<1>1. PICK F, Q : Logged(P, L, F, Q, k, i)
  BY DEF LoggedTo
<1>2. ASSUME NEW m \in DOMAIN P, NEW q \in DOMAIN P[m]
      PROVE  Before(m, q, k, i) <=> Before(m, q, k + 1, 1)
  <2>1. P[m] \in Seq(SourceInstr) /\ m \in Nat /\ k \in Nat
    OBVIOUS
  <2>2. q \in 1 .. Len(P[m]) /\ Len(P[m]) \in Nat
    BY <2>1
  <2>3. m = k => q < i
    BY <2>2
  <2> QED
    BY <2>1, <2>2, <2>3 DEF Before
<1>3. \A j \in DOMAIN L : Before(F[j], Q[j], k + 1, 1)
  BY <1>1, <1>2 DEF Logged
<1>4. \A m \in DOMAIN P : \A q \in DOMAIN P[m] :
        Before(m, q, k + 1, 1) /\ Marked(P[m], q) => \E j \in DOMAIN L : F[j] = m /\ Q[j] = q
  BY <1>1, <1>2 DEF Logged
<1>5. Logged(P, L, F, Q, k + 1, 1)
  BY <1>1, <1>3, <1>4 DEF Logged
<1> QED
  BY <1>5 DEF LoggedTo

-----------------------------------------------------------------------------
(* Building the program.                                                   *)

Typed ==
  /\ program \in [Sources -> Seq(Seq(SourceInstr))] /\ log \in [Sources -> Seq(LogLine)]
  /\ source \in Sources /\ queue \subseteq Sources

\* Where the pass is: its counter is that of the code, and the lines of the file of main
\* are those of the instructions it has passed.
PassAt(P, k, i, d) ==
  /\ k \in 1 .. Len(P) + 1 /\ i \in Nat
  /\ k \in DOMAIN P => i <= Len(P[k]) /\ DepthIs(P[k], i, d)
  /\ k \notin DOMAIN P => i = 0

PassInv ==
  phase = "pass" =>
    /\ source \notin queue
    /\ PassAt(program[source], function, position, depth)
    /\ depth > 0 => logOpen
    /\ source = MainSource =>
         /\ LoggedTo(program[MainSource], log[MainSource], function, position + 1)
         /\ logOpen => log[MainSource] # << >>

\* The file of main is complete, or empty because main was not compiled.
Complete ==
  \/ LoggedTo(program[MainSource], log[MainSource], Len(program[MainSource]) + 1, 1)
  \/ log[MainSource] = << >> /\ \E files \in Commands : MainSource \notin files

MainInv ==
  /\ phase \in {"compile", "pass"} /\ MainSource \in queue => log[MainSource] = << >>
  /\ phase \in {"compile", "pass"} /\ MainSource \notin queue =>
       Complete \/ (phase = "pass" /\ source = MainSource)
  /\ phase \in {"built", "parse", "run", "aborted"} => Complete

BuildInv == Typed /\ PassInv /\ MainInv

\* A new command of tasksan.
LEMMA CompileBuilds ==
  ASSUME InToolHome, BuildInv, Compile
  PROVE  BuildInv'
<1>1. PICK p \in Programs, files \in Commands :
        /\ program' = [f \in Sources |-> IF f \in files THEN p[f] ELSE program[f]]
        /\ queue' = files
  BY DEF Compile
<1>2. log' = [f \in Sources |-> << >>] /\ source' = source /\ phase' = "compile"
  BY DEF Compile
<1>3. Typed'
  <2>1. \A f \in Sources : p[f] \in Seq(Seq(SourceInstr)) /\ program[f] \in Seq(Seq(SourceInstr))
    BY ProgramsAssumption DEF BuildInv, Typed
  <2>2. files \subseteq Sources /\ << >> \in Seq(LogLine)
    BY SourcesAssumption
  <2> QED
    BY <1>1, <1>2, <2>1, <2>2 DEF BuildInv, Typed
<1>4. log'[MainSource] = << >>
  BY <1>2, SourcesAssumption
<1> QED
  BY <1>1, <1>2, <1>3, <1>4 DEF BuildInv, PassInv, MainInv, Complete

\* The compiler starts on a source.
LEMMA CompileSourceBuilds ==
  ASSUME BuildInv, NEW f \in Sources, CompileSource(f)
  PROVE  BuildInv'
<1>1. /\ phase = "compile" /\ f \in queue /\ phase' = "pass" /\ source' = f
      /\ queue' = queue \ {f} /\ function' = 1 /\ position' = 0 /\ depth' = 0
      /\ logOpen' = FALSE /\ program' = program /\ log' = log
  BY DEF CompileSource
<1>2. Typed'
  BY <1>1 DEF BuildInv, Typed
<1>3. /\ program[f] \in Seq(Seq(SourceInstr)) /\ MainSource \in Sources
      /\ program[MainSource] \in Seq(Seq(SourceInstr))
  BY SourcesAssumption DEF BuildInv, Typed
<1>4. PassAt(program[f], 1, 0, 0)
  <2>1. 1 \in DOMAIN program[f] => program[f][1] \in Seq(SourceInstr)
    BY <1>3
  <2>2. 1 \in DOMAIN program[f] => Len(program[f][1]) \in Nat
    BY <2>1
  <2>3. \A g : DepthIs(g, 0, 0)
    BY DEF DepthIs, Critical
  <2>4. Len(program[f]) \in Nat
    BY <1>3
  <2> QED
    BY <2>2, <2>3, <2>4 DEF PassAt
<1>5. f = MainSource => LoggedTo(program[MainSource], log[MainSource], 1, 1)
  <2>1. f = MainSource => log[MainSource] = << >>
    BY <1>1 DEF BuildInv, MainInv
  <2> QED
    BY <1>3, <2>1, LogStarts
<1>6. PassInv'
  BY <1>1, <1>4, <1>5 DEF PassInv
<1>7. MainInv'
  BY <1>1 DEF BuildInv, MainInv, Complete
<1> QED
  BY <1>2, <1>6, <1>7 DEF BuildInv

\* The pass takes an instruction, and may write a line.
LEMMA TakeBuilds ==
  ASSUME BuildInv, TakeInstr, NEW f, f = program[source][function],
         \/ log' = log
         \/ \E line \in LogLine : log' = [log EXCEPT ![source] = Append(@, line)],
         DepthIs(f, position + 1, depth'), depth' > 0 => logOpen',
         source = MainSource =>
           /\ LoggedTo(program[MainSource], log'[MainSource], function, position + 2)
           /\ logOpen' => log'[MainSource] # << >>
  PROVE  BuildInv'
<1>1. /\ phase = "pass" /\ phase' = "pass" /\ source' = source /\ queue' = queue
      /\ program' = program /\ function' = function /\ position' = position + 1
      /\ function \in DOMAIN program[source] /\ position < Len(f)
  BY DEF TakeInstr
<1>2. /\ source \in Sources /\ program[source] \in Seq(Seq(SourceInstr))
      /\ source \notin queue /\ position \in Nat
      /\ function \in 1 .. Len(program[source]) + 1
  BY <1>1 DEF BuildInv, Typed, PassInv, PassAt
<1>3. f \in Seq(SourceInstr)
  BY <1>1, <1>2
<1>4. Len(f) \in Nat
  BY <1>3
<1>5. log' \in [Sources -> Seq(LogLine)] /\ (source # MainSource => log'[MainSource] = log[MainSource])
  <2>1. log \in [Sources -> Seq(LogLine)] /\ MainSource \in Sources
    BY SourcesAssumption DEF BuildInv, Typed
  <2>2. ASSUME NEW line \in LogLine, log' = [log EXCEPT ![source] = Append(@, line)]
        PROVE  /\ log' \in [Sources -> Seq(LogLine)]
               /\ source # MainSource => log'[MainSource] = log[MainSource]
    <3>1. Append(log[source], line) \in Seq(LogLine)
      BY <1>2, <2>1
    <3> QED
      BY <1>2, <2>1, <2>2, <3>1
  <2> QED
    BY <2>1, <2>2
<1>6. PassAt(program[source], function, position + 1, depth')
  BY <1>1, <1>2, <1>4 DEF PassAt
<1>7. (position + 1) + 1 = position + 2
  BY <1>2
<1>8. PassInv'
  BY <1>1, <1>2, <1>6, <1>7 DEF PassInv
<1>9. MainInv'
  BY <1>1, <1>2, <1>5 DEF BuildInv, MainInv, Complete
<1> QED
  BY <1>1, <1>5, <1>8, <1>9 DEF BuildInv, Typed

\* Where it takes it from.
LEMMA TakesFrom ==
  ASSUME BuildInv, TakeInstr
  PROVE  \E f \in Seq(SourceInstr) :
           /\ f = program[source][function] /\ DOMAIN f = 1 .. Len(f) /\ Len(f) \in Nat
           /\ position \in Nat /\ position + 1 \in DOMAIN f /\ position < Len(f)
           /\ Instr = f[position + 1] /\ Instr \in SourceInstr
           /\ DepthIs(f, position, depth) /\ depth \in Nat /\ (depth > 0 => logOpen)
           /\ function \in DOMAIN program[source]
           /\ log[source] \in Seq(LogLine) /\ source \in Sources
           /\ source = MainSource =>
                /\ program[MainSource] \in Seq(Seq(SourceInstr))
                /\ LoggedTo(program[MainSource], log[MainSource], function, position + 1)
                /\ logOpen => log[MainSource] # << >>
<1>1. /\ phase = "pass" /\ function \in DOMAIN program[source]
      /\ position < Len(program[source][function])
  BY DEF TakeInstr
<1>2. /\ source \in Sources /\ program[source] \in Seq(Seq(SourceInstr)) /\ position \in Nat
      /\ log[source] \in Seq(LogLine)
  BY <1>1 DEF BuildInv, Typed, PassInv, PassAt
<1> PICK f : f = program[source][function]
  OBVIOUS
<1>3. f \in Seq(SourceInstr)
  BY <1>1, <1>2
<1>4. DOMAIN f = 1 .. Len(f) /\ Len(f) \in Nat
  BY <1>3
<1>5. position + 1 \in DOMAIN f /\ Instr = f[position + 1]
  BY <1>1, <1>2, <1>4 DEF Instr
<1>6. Instr \in SourceInstr
  BY <1>3, <1>5
<1>7. DepthIs(f, position, depth) /\ (depth > 0 => logOpen)
  BY <1>1 DEF BuildInv, PassInv, PassAt
<1>8. depth \in Nat
  BY <1>7 DEF DepthIs
<1>9. source = MainSource =>
        /\ LoggedTo(program[MainSource], log[MainSource], function, position + 1)
        /\ logOpen => log[MainSource] # << >>
  BY <1>1 DEF BuildInv, PassInv
<1> QED
  BY <1>1, <1>2, <1>3, <1>4, <1>5, <1>6, <1>7, <1>8, <1>9

\* The pass writes a line for an instruction of the file of main, ...
LEMMA WritesMain ==
  ASSUME BuildInv, TakeInstr, source = MainSource, NEW line \in LogLine, Write(line),
         Entry(line, program[source][function], position + 1),
         log[MainSource] = << >> => line = Marker("begin")
  PROVE  /\ LoggedTo(program[MainSource], log'[MainSource], function, position + 2)
         /\ log'[MainSource] # << >>
<1>1. PICK f \in Seq(SourceInstr) :
        /\ f = program[source][function] /\ position \in Nat /\ position + 1 \in DOMAIN f
        /\ function \in DOMAIN program[source] /\ log[source] \in Seq(LogLine)
        /\ program[MainSource] \in Seq(Seq(SourceInstr))
        /\ LoggedTo(program[MainSource], log[MainSource], function, position + 1)
  BY TakesFrom
<1>2. log'[MainSource] = Append(log[MainSource], line)
  BY SourcesAssumption DEF BuildInv, Typed, Write
<1>3. LoggedTo(program[MainSource], Append(log[MainSource], line), function, (position + 1) + 1)
  BY <1>1, LogGrows
<1>4. (position + 1) + 1 = position + 2
  BY <1>1
<1>5. Append(log[MainSource], line) # << >>
  <2>1. log[MainSource] \in Seq(LogLine)
    BY <1>1
  <2> QED
    BY <2>1
<1> QED
  BY <1>2, <1>3, <1>4, <1>5

\* ... or none.
LEMMA SkipsMain ==
  ASSUME BuildInv, TakeInstr, source = MainSource, log' = log,
         ~Marked(program[source][function], position + 1)
  PROVE  LoggedTo(program[MainSource], log'[MainSource], function, position + 2)
<1>1. PICK f \in Seq(SourceInstr) :
        /\ f = program[source][function] /\ position \in Nat /\ position + 1 \in DOMAIN f
        /\ function \in DOMAIN program[source]
        /\ program[MainSource] \in Seq(Seq(SourceInstr))
        /\ LoggedTo(program[MainSource], log[MainSource], function, position + 1)
  BY TakesFrom
<1>2. LoggedTo(program[MainSource], log[MainSource], function, (position + 1) + 1)
  BY <1>1, LogStays
<1>3. (position + 1) + 1 = position + 2
  BY <1>1
<1> QED
  BY <1>2, <1>3

\* A lock is taken.
LEMMA LogLockBuilds ==
  ASSUME BuildInv, LogLock
  PROVE  BuildInv'
<1>1. PICK f \in Seq(SourceInstr) :
        /\ f = program[source][function] /\ DOMAIN f = 1 .. Len(f) /\ Len(f) \in Nat
        /\ position \in Nat /\ position + 1 \in DOMAIN f /\ position < Len(f)
        /\ Instr = f[position + 1]
        /\ DepthIs(f, position, depth) /\ depth \in Nat /\ (depth > 0 => logOpen)
        /\ source = MainSource => (logOpen => log[MainSource] # << >>)
  BY TakesFrom DEF LogLock
<1>2. /\ TakeInstr /\ isLock(f[position + 1]) /\ logOpen' = TRUE /\ depth' = depth + 1
      /\ depth = 0 => Write(Marker("begin"))
      /\ depth # 0 => log' = log
  BY <1>1 DEF LogLock
<1>3. /\ DepthIs(f, position + 1, depth')
      /\ position + 1 \in SectionStarts(f) <=> depth = 0
  BY <1>1, <1>2, DepthStep
<1>4. Marker("begin") \in LogLine
  BY DEF LogLine
<1>5. ~isUnlock(f[position + 1]) /\ ~isStatement(f[position + 1])
  BY <1>2 DEF isLock, isUnlock, isStatement
<1>6. source = MainSource =>
        /\ LoggedTo(program[MainSource], log'[MainSource], function, position + 2)
        /\ log'[MainSource] # << >>
  <2>1. CASE depth = 0
    BY <1>1, <1>2, <1>3, <1>4, <2>1, WritesMain DEF Entry
  <2>2. CASE depth # 0
    BY <1>1, <1>2, <1>3, <1>5, <2>2, SkipsMain DEF Marked
  <2> QED
    BY <2>1, <2>2
<1>7. \/ log' = log
      \/ \E line \in LogLine : log' = [log EXCEPT ![source] = Append(@, line)]
  BY <1>2, <1>4 DEF Write
<1> QED
  BY <1>1, <1>2, <1>3, <1>6, <1>7, TakeBuilds

\* A lock is given back.
LEMMA LogUnlockBuilds ==
  ASSUME BuildInv, LogUnlock
  PROVE  BuildInv'
<1>1. PICK f \in Seq(SourceInstr) :
        /\ f = program[source][function] /\ DOMAIN f = 1 .. Len(f) /\ Len(f) \in Nat
        /\ position \in Nat /\ position + 1 \in DOMAIN f /\ position < Len(f)
        /\ Instr = f[position + 1]
        /\ DepthIs(f, position, depth) /\ depth \in Nat /\ (depth > 0 => logOpen)
        /\ source = MainSource => (logOpen => log[MainSource] # << >>)
  BY TakesFrom DEF LogUnlock
<1>2. /\ TakeInstr /\ isUnlock(f[position + 1]) /\ logOpen' = logOpen
      /\ depth' = IF depth > 0 THEN depth - 1 ELSE 0
      /\ depth <= 1 /\ logOpen => Write(Marker("end"))
      /\ ~(depth <= 1 /\ logOpen) => log' = log
  BY <1>1 DEF LogUnlock
<1>3. DepthIs(f, position + 1, depth') /\ depth' \in Nat
  BY <1>1, <1>2, DepthStep
<1>4. /\ Critical(f, position + 1) <=> depth' > 0
      /\ Critical(f, position) <=> depth > 0
  BY <1>1, <1>3, DepthCritical
<1>5. Marker("end") \in LogLine
  BY DEF LogLine
<1>6. ~isLock(f[position + 1]) /\ ~isStatement(f[position + 1])
  BY <1>2 DEF isLock, isUnlock, isStatement
<1>7. source = MainSource =>
        /\ LoggedTo(program[MainSource], log'[MainSource], function, position + 2)
        /\ logOpen' => log'[MainSource] # << >>
  <2>1. CASE depth <= 1 /\ logOpen
    <3>1. Entry(Marker("end"), f, position + 1)
      BY <1>1, <1>2, <1>3, <1>4, <2>1 DEF Entry
    <3> QED
      BY <1>1, <1>2, <1>5, <2>1, <3>1, WritesMain
  <2>2. CASE ~(depth <= 1 /\ logOpen)
    <3>1. (position + 1) - 1 = position
      BY <1>1
    <3>2. depth = 0 \/ depth' > 0
      BY <1>1, <1>2, <2>2
    <3>3. ~Marked(f, position + 1)
      BY <1>1, <1>2, <1>4, <1>6, <3>1, <3>2 DEF Marked, SectionStarts
    <3> QED
      BY <1>1, <1>2, <2>2, <3>3, SkipsMain
  <2> QED
    BY <2>1, <2>2
<1>8. \/ log' = log
      \/ \E line \in LogLine : log' = [log EXCEPT ![source] = Append(@, line)]
  BY <1>2, <1>5 DEF Write
<1>9. depth' > 0 => logOpen'
  BY <1>1, <1>2
<1> QED
  BY <1>1, <1>2, <1>3, <1>7, <1>8, <1>9, TakeBuilds

\* The pass goes over a statement.
LEMMA LogStatementBuilds ==
  ASSUME BuildInv, LogStatement
  PROVE  BuildInv'
<1>1. PICK f \in Seq(SourceInstr) :
        /\ f = program[source][function] /\ DOMAIN f = 1 .. Len(f) /\ Len(f) \in Nat
        /\ position \in Nat /\ position + 1 \in DOMAIN f /\ position < Len(f)
        /\ Instr = f[position + 1] /\ Instr \in SourceInstr
        /\ DepthIs(f, position, depth) /\ depth \in Nat /\ (depth > 0 => logOpen)
        /\ source = MainSource => (logOpen => log[MainSource] # << >>)
  BY TakesFrom DEF LogStatement
<1>2. /\ TakeInstr /\ isStatement(f[position + 1]) /\ logOpen' = logOpen /\ depth' = depth
      /\ depth > 0 => Write(Statement(f[position + 1]))
      /\ ~(depth > 0) => log' = log
  BY <1>1 DEF LogStatement
<1>3. DepthIs(f, position + 1, depth)
  BY <1>1, <1>2, DepthStep
<1>4. Critical(f, position + 1) <=> depth > 0
  BY <1>1, <1>3, DepthCritical
<1>5. Statement(f[position + 1]) \in LogLine
  BY <1>1 DEF LogLine
<1>6. ~isLock(f[position + 1]) /\ ~isUnlock(f[position + 1])
  BY <1>2 DEF isStatement
<1>7. source = MainSource =>
        /\ LoggedTo(program[MainSource], log'[MainSource], function, position + 2)
        /\ logOpen' => log'[MainSource] # << >>
  <2>1. CASE depth > 0
    <3>1. Entry(Statement(f[position + 1]), f, position + 1)
      BY <1>2, <1>4, <2>1 DEF Entry
    <3> QED
      BY <1>1, <1>2, <1>5, <2>1, <3>1, WritesMain
  <2>2. CASE ~(depth > 0)
    <3>1. ~Marked(f, position + 1)
      BY <1>2, <1>4, <1>6, <2>2 DEF Marked, SectionStarts
    <3> QED
      BY <1>1, <1>2, <2>2, <3>1, SkipsMain
  <2> QED
    BY <2>1, <2>2
<1>8. \/ log' = log
      \/ \E line \in LogLine : log' = [log EXCEPT ![source] = Append(@, line)]
  BY <1>2, <1>5 DEF Write
<1> QED
  BY <1>1, <1>2, <1>3, <1>7, <1>8, TakeBuilds

\* The pass goes on to the next function.
LEMMA FunctionDoneBuilds ==
  ASSUME BuildInv, FunctionDone
  PROVE  BuildInv'
<1>1. /\ phase = "pass" /\ phase' = "pass" /\ source' = source /\ queue' = queue
      /\ program' = program /\ log' = log /\ logOpen' = logOpen
      /\ function \in DOMAIN program[source] /\ position = Len(program[source][function])
      /\ function' = function + 1 /\ position' = 0 /\ depth' = 0
  BY DEF FunctionDone
<1>2. /\ source \in Sources /\ program[source] \in Seq(Seq(SourceInstr)) /\ source \notin queue
  BY <1>1 DEF BuildInv, Typed, PassInv
<1>3. PassAt(program[source], function + 1, 0, 0)
  <2>1. Len(program[source]) \in Nat /\ function \in 1 .. Len(program[source])
    BY <1>1, <1>2
  <2>2. function + 1 \in DOMAIN program[source] => program[source][function + 1] \in Seq(SourceInstr)
    BY <1>2
  <2>3. function + 1 \in DOMAIN program[source] => Len(program[source][function + 1]) \in Nat
    BY <2>2
  <2>4. \A g : DepthIs(g, 0, 0)
    BY DEF DepthIs, Critical
  <2> QED
    BY <2>1, <2>3, <2>4 DEF PassAt
<1>4. source = MainSource =>
        /\ LoggedTo(program[MainSource], log[MainSource], function + 1, 0 + 1)
        /\ logOpen => log[MainSource] # << >>
  BY <1>1, <1>2, LogTurns DEF BuildInv, PassInv
<1>5. PassInv'
  BY <1>1, <1>2, <1>3, <1>4 DEF PassInv
<1>6. MainInv'
  BY <1>1, <1>2 DEF BuildInv, MainInv, Complete
<1> QED
  BY <1>1, <1>5, <1>6 DEF BuildInv, Typed

\* The compiler is done with a source.
LEMMA SourceDoneBuilds ==
  ASSUME BuildInv, SourceDone
  PROVE  BuildInv'
<1>1. /\ phase = "pass" /\ phase' = "compile" /\ UNCHANGED buildVars
      /\ function > Len(program[source])
  BY DEF SourceDone
<1>2. /\ source \in Sources /\ program[source] \in Seq(Seq(SourceInstr))
      /\ function \in 1 .. Len(program[source]) + 1
      /\ function \notin DOMAIN program[source] => position = 0
  BY <1>1 DEF BuildInv, Typed, PassInv, PassAt
<1>3. function = Len(program[source]) + 1 /\ position + 1 = 1
  BY <1>1, <1>2
<1>4. source = MainSource => Complete
  BY <1>1, <1>3 DEF BuildInv, PassInv, Complete
<1> QED
  BY <1>1, <1>4 DEF BuildInv, Typed, PassInv, MainInv, Complete, buildVars, passVars

\* The other steps leave the files alone.
LEMMA NextBuilds ==
  ASSUME InToolHome, BuildInv, [Next]_vars
  PROVE  BuildInv'
<1>1. CASE Compile
  BY <1>1, CompileBuilds
<1>2. CASE \E f \in Sources : CompileSource(f)
  BY <1>2, CompileSourceBuilds
<1>3. CASE LogLock \/ LogUnlock \/ LogStatement
  BY <1>3, LogLockBuilds, LogUnlockBuilds, LogStatementBuilds
<1>4. CASE FunctionDone \/ SourceDone
  BY <1>4, FunctionDoneBuilds, SourceDoneBuilds
<1>5. CASE Built
  <2>1. /\ phase = "compile" /\ queue = {} /\ phase' = "built" /\ UNCHANGED buildVars
    BY <1>5 DEF Built
  <2> QED
    BY <2>1 DEF BuildInv, Typed, PassInv, MainInv, Complete, buildVars, passVars
<1>6. CASE \/ StartProgram \/ ParseBegin \/ ParseStatement \/ ParseEnd \/ ParseDone
           \/ UNCHANGED vars
  <2>1. /\ UNCHANGED buildVars
        /\ phase' = phase \/ (phase \in {"built", "parse"} /\ phase' \in {"parse", "run", "aborted"})
    BY <1>6 DEF StartProgram, ParseBegin, ParseStatement, ParseEnd, ParseDone, vars
  <2> QED
    BY <2>1 DEF BuildInv, Typed, PassInv, MainInv, Complete, buildVars, passVars
<1> QED
  BY <1>1, <1>2, <1>3, <1>4, <1>5, <1>6 DEF Next

-----------------------------------------------------------------------------
(* Sections and copies of them.                                            *)

\* An increasing sequence has as many elements as its length, ...
LEMMA CountIncreasing ==
  ASSUME NEW n \in Nat, NEW e \in [1 .. n -> Nat],
         \A a, c \in 1 .. n : a < c => e[a] < e[c]
  PROVE  Cardinality({ e[a] : a \in 1 .. n }) = n
<1> DEFINE S == { e[a] : a \in 1 .. n }
<1>1. \A a, c \in 1 .. n : e[a] = e[c] => a = c
  <2>1. ASSUME NEW a \in 1 .. n, NEW c \in 1 .. n, e[a] = e[c], a # c
        PROVE  FALSE
    <3>1. a < c \/ c < a
      BY <2>1
    <3>2. e[a] \in Nat /\ e[c] \in Nat
      BY <2>1
    <3> QED
      BY <2>1, <3>1, <3>2
  <2> QED
    BY <2>1
<1>2. e \in Bijection(1 .. n, S)
  BY <1>1, Fun_IsBij
<1>3. ExistsBijection(1 .. n, S)
  BY <1>2 DEF ExistsBijection
<1>4. IsFiniteSet(1 .. n) /\ Cardinality(1 .. n) = n
  BY FS_Interval
<1> QED
  BY <1>3, <1>4, FS_Bijection

Increasing(n, e) == \A a, c \in 1 .. n : a < c => e[a] < e[c]
Elements(n, e)   == { e[a] : a \in 1 .. n }
UpTo(S, k)       == { j \in S : j <= k }

\* ... and each element is preceded by those of smaller index.
LEMMA RankIncreasing ==
  ASSUME NEW n \in Nat, NEW e \in [1 .. n -> Nat], Increasing(n, e)
  PROVE  /\ Cardinality(Elements(n, e)) = n
         /\ \A a \in 1 .. n : Cardinality(UpTo(Elements(n, e), e[a])) = a
         /\ n > 0 => Min(Elements(n, e)) = e[1] /\ Max(Elements(n, e)) = e[n]
<1> PICK S : S = Elements(n, e)
  OBVIOUS
<1> USE DEF Increasing, Elements, UpTo
<1>1. Cardinality(S) = n
  BY CountIncreasing
<1>2. \A a \in 1 .. n : e[a] \in Nat
  OBVIOUS
<1>3. ASSUME NEW a \in 1 .. n
      PROVE  Cardinality({ j \in S : j <= e[a] }) = a
  <2> DEFINE d == [c \in 1 .. a |-> e[c]]
  <2>1. d \in [1 .. a -> Nat] /\ a \in Nat /\ \A c \in 1 .. a : d[c] = e[c] /\ c \in 1 .. n
    BY <1>2, <1>3
  <2> HIDE DEF d
  <2>2. \A b, c \in 1 .. a : b < c => d[b] < d[c]
    BY <2>1
  <2>3. Cardinality({ d[c] : c \in 1 .. a }) = a
    BY <2>1, <2>2, CountIncreasing
  <2>4. \A c \in 1 .. n : e[c] <= e[a] <=> c \in 1 .. a
    <3>1. ASSUME NEW c \in 1 .. n
          PROVE  e[c] <= e[a] <=> c \in 1 .. a
      <4>1. e[c] \in Nat /\ e[a] \in Nat /\ (c < a => e[c] < e[a]) /\ (a < c => e[a] < e[c])
        BY <1>2, <3>1
      <4> QED
        BY <4>1
    <3> QED
      BY <3>1
  <2>5. { j \in S : j <= e[a] } = { d[c] : c \in 1 .. a }
    BY <2>1, <2>4
  <2> QED
    BY <2>3, <2>5
<1>4. ASSUME n > 0
      PROVE  Min(S) = e[1] /\ Max(S) = e[n]
  <2>1. 1 \in 1 .. n /\ n \in 1 .. n
    BY <1>4
  <2>2. \A a \in 1 .. n : e[1] <= e[a] /\ e[a] <= e[n]
    <3>1. ASSUME NEW a \in 1 .. n
          PROVE  e[1] <= e[a] /\ e[a] <= e[n]
      <4>1. /\ e[1] \in Nat /\ e[n] \in Nat /\ e[a] \in Nat
            /\ 1 < a => e[1] < e[a]
            /\ a < n => e[a] < e[n]
        BY <1>2, <2>1, <3>1
      <4> QED
        BY <4>1
    <3> QED
      BY <3>1
  <2>3. e[1] \in S /\ (\A x \in S : e[1] <= x) /\ e[n] \in S /\ (\A x \in S : x <= e[n])
    BY <2>1, <2>2
  <2>4. S \subseteq Nat
    BY <1>2
  <2>5. ASSUME NEW x \in S, \A y \in S : x <= y
        PROVE  x = e[1]
    BY <2>3, <2>4, <2>5
  <2>6. ASSUME NEW x \in S, \A y \in S : x >= y
        PROVE  x = e[n]
    BY <2>3, <2>4, <2>6
  <2> QED
    BY <2>3, <2>4, <2>5, <2>6 DEF Min, Max
<1> QED
  BY <1>1, <1>3, <1>4

NoBegin(L, b, e) == \A j \in b + 1 .. e - 1 : L[j] # Marker("begin")

\* Between lines b and e are the statements of section p of f, which is function m.
HoldsSection(f, m, p, L, F, Q, b, e) ==
  /\ \A k \in DOMAIN f : HeldSince(f, p, k) /\ isStatement(f[k]) =>
       \E l \in b + 1 .. e - 1 : L[l] = Statement(f[k]) /\ F[l] = m /\ Q[l] = k
  /\ \A l \in b + 1 .. e - 1 : \A i : L[l] = Statement(i) =>
       /\ Q[l] \in DOMAIN f /\ i = f[Q[l]] /\ F[l] = m
       /\ HeldSince(f, p, Q[l]) /\ isStatement(f[Q[l]])

\* What is written between the start of a section and the next end.
LEMMA SectionLines ==
  ASSUME NEW P \in Seq(Seq(SourceInstr)), NEW L, NEW F, NEW Q,
         Logged(P, L, F, Q, Len(P) + 1, 1),
         NEW b \in DOMAIN L, NEW e \in DOMAIN L, b < e,
         L[b] = Marker("begin"), L[e] = Marker("end"),
         NoBegin(L, b, e)
  PROVE  /\ F[b] \in DOMAIN P /\ Q[b] \in SectionStarts(P[F[b]])
         /\ HoldsSection(P[F[b]], F[b], Q[b], L, F, Q, b, e)
<1> PICK f, p : f = P[F[b]] /\ p = Q[b]
  OBVIOUS
<1>1. /\ Marker("begin") # Marker("end")
      /\ \A i : Statement(i) # Marker("begin") /\ Statement(i) # Marker("end")
      /\ \A i, j : Statement(i) = Statement(j) => i = j
  <2>1. Marker("begin").kind = "begin" /\ Marker("end").kind = "end"
    BY DEF Marker
  <2>2. \A i : Statement(i).kind = "statement" /\ Statement(i).instr = i
    BY DEF Statement
  <2>3. "begin" # "end" /\ "statement" # "begin" /\ "statement" # "end"
    OBVIOUS
  <2> QED
    BY <2>1, <2>2, <2>3
<1>2. L \in Seq(LogLine)
  BY DEF Logged
<1>3. DOMAIN L = 1 .. Len(L) /\ Len(L) \in Nat
  BY <1>2
<1>4. \A l \in DOMAIN L : /\ F[l] \in DOMAIN P /\ Q[l] \in DOMAIN P[F[l]]
                          /\ F[l] \in Nat /\ Q[l] \in Nat /\ Entry(L[l], P[F[l]], Q[l])
  BY DEF Logged
<1>5. p \in SectionStarts(f) /\ F[b] \in DOMAIN P /\ p \in Nat /\ f \in Seq(SourceInstr)
  <2>1. p \in SectionStarts(f)
    BY <1>1, <1>4 DEF Entry
  <2>2. f \in Seq(SourceInstr)
    BY <1>4
  <2> QED
    BY <1>4, <2>1, <2>2
<1>6. DOMAIN f = 1 .. Len(f) /\ Len(f) \in Nat
  BY <1>5
<1>7. \A l, m \in DOMAIN L : l < m => Before(F[l], Q[l], F[m], Q[m])
  BY DEF Logged
<1>8. \A m \in DOMAIN P : \A n \in DOMAIN P[m] : Marked(P[m], n) =>
        \E l \in DOMAIN L : F[l] = m /\ Q[l] = n
  <2>1. ASSUME NEW m \in DOMAIN P, NEW n \in DOMAIN P[m]
        PROVE  Before(m, n, Len(P) + 1, 1)
    BY DEF Before
  <2> QED
    BY <2>1 DEF Logged
<1>9. ASSUME NEW k \in DOMAIN f, HeldSince(f, p, k), isStatement(f[k])
      PROVE  \E l \in b + 1 .. e - 1 : L[l] = Statement(f[k]) /\ F[l] = F[b] /\ Q[l] = k
  <2>1. p \in 1 .. k /\ Critical(f, k) /\ Marked(f, k)
    <3>1. p \in DOMAIN f /\ p <= k
      BY <1>5, <1>9 DEF SectionStarts, HeldSince
    <3>2. p \in 1 .. k
      BY <1>6, <3>1
    <3> QED
      BY <1>9, <3>2 DEF Critical, Marked
  <2>2. PICK l \in DOMAIN L : F[l] = F[b] /\ Q[l] = k
    BY <1>5, <1>8, <1>9, <2>1
  <2>3. L[l] = Statement(f[k])
    <3>1. ~isLock(f[k]) /\ ~isUnlock(f[k])
      BY <1>9 DEF isStatement
    <3> QED
      BY <1>4, <2>2, <3>1 DEF Entry, SectionStarts
  <2>4. p # k
    BY <1>5, <1>9 DEF SectionStarts, isStatement
  <2>5. b < l
    <3>1. ~Before(F[b], k, F[b], p)
      BY <1>4, <2>1, <2>2, <2>4, SMTT(30) DEF Before
    <3>2. ~(l < b)
      BY <1>7, <2>2, <3>1
    <3>3. l # b
      BY <2>2, <2>4
    <3> QED
      BY <1>3, <3>2, <3>3
  <2>6. l < e
    <3>1. l # e
      BY <1>1, <2>3
    <3>2. CASE e < l
      <4>1. Before(F[b], p, F[e], Q[e]) /\ Before(F[e], Q[e], F[b], k)
        BY <1>7, <2>2, <3>2
      <4>2. F[e] = F[b] /\ p < Q[e] /\ Q[e] < k
        BY <1>4, <4>1 DEF Before
      <4>3. ~Critical(f, Q[e])
        BY <1>1, <1>4, <4>2 DEF Entry
      <4>4. HeldSince(f, p, Q[e])
        BY <1>4, <1>9, <2>1, <4>2, HeldBetween, SMTT(30)
      <4> QED
        BY <1>4, <2>1, <4>2, <4>3, <4>4, SMTT(30) DEF Critical
    <3> QED
      BY <1>3, <3>1, <3>2
  <2>7. l \in b + 1 .. e - 1
    BY <1>3, <2>5, <2>6
  <2> QED
    BY <2>2, <2>3, <2>7
<1>10. ASSUME NEW l \in b + 1 .. e - 1, NEW i, L[l] = Statement(i)
       PROVE  /\ Q[l] \in DOMAIN f /\ i = f[Q[l]] /\ F[l] = F[b]
              /\ HeldSince(f, p, Q[l]) /\ isStatement(f[Q[l]])
  <2>1. l \in DOMAIN L
    BY <1>3, <1>10
  <2> PICK g, k : g = P[F[l]] /\ k = Q[l]
    OBVIOUS
  <2>2. i = g[k] /\ isStatement(g[k]) /\ Critical(g, k) /\ k \in DOMAIN g /\ k \in Nat
    BY <1>1, <1>4, <1>10, <2>1 DEF Entry
  <2>3. g \in Seq(SourceInstr)
    BY <1>4, <2>1
  <2>4. DOMAIN g = 1 .. Len(g) /\ Len(g) \in Nat
    BY <2>3
  <2>5. PICK q \in SectionStarts(g) : HeldSince(g, q, k)
    BY <2>2, <2>4, OneSection
  <2>6. q \in DOMAIN g /\ Marked(g, q) /\ isLock(g[q]) /\ q <= k
    BY <2>5 DEF SectionStarts, Marked, HeldSince
  <2>7. PICK c \in DOMAIN L : F[c] = F[l] /\ Q[c] = q
    BY <1>4, <1>8, <2>1, <2>6, ZenonT(30)
  <2>8. L[c] = Marker("begin")
    <3>1. ~isUnlock(g[q]) /\ ~isStatement(g[q])
      BY <2>6 DEF isLock, isUnlock, isStatement
    <3> QED
      BY <1>4, <2>7, <3>1 DEF Entry
  <2>9. q < k
    BY <2>2, <2>4, <2>6 DEF isLock, isStatement
  <2>10. c < l
    <3>1. ~(l < c)
      <4>1. F[l] \in Nat /\ q \in Nat
        BY <1>4, <2>1, <2>4, <2>6
      <4>2. ~Before(F[l], k, F[l], q)
        BY <2>2, <2>9, <4>1 DEF Before
      <4> QED
        BY <1>7, <2>1, <2>7, <4>2
    <3>2. c # l
      BY <2>7, <2>9, <2>4, <2>6
    <3> QED
      BY <1>3, <1>10, <3>1, <3>2
  <2>11. c <= b
    <3>1. c \notin b + 1 .. e - 1
      BY <2>8 DEF NoBegin
    <3> QED
      BY <1>3, <1>10, <2>10, <3>1
  <2>12. c = b
    <3>1. CASE c < b
      <4>1. Before(F[l], q, F[b], p) /\ Before(F[b], p, F[l], k)
        <5>1. b < l
          BY <1>3, <1>10
        <5>2. Before(F[c], Q[c], F[b], Q[b]) /\ Before(F[b], Q[b], F[l], Q[l])
          BY <1>7, <2>1, <2>7, <3>1, <5>1
        <5> QED
          BY <2>7, <5>2
      <4>2. F[b] = F[l] /\ q < p /\ p < k
        BY <1>4, <1>5, <2>1, <2>4, <2>6, <4>1 DEF Before
      <4>3. HeldSince(f, q, p - 1) /\ q \in 1 .. p - 1
        BY <1>5, <2>2, <2>4, <2>5, <2>6, <4>2, HeldBetween, SMTT(30)
      <4> QED
        BY <1>5, <4>3 DEF SectionStarts, Critical
    <3> QED
      BY <1>3, <2>11, <3>1
  <2> QED
    BY <2>2, <2>5, <2>7, <2>12
<1> QED
  BY <1>5, <1>9, <1>10 DEF HoldsSection

-----------------------------------------------------------------------------
(* Reading the file.                                                       *)

ParsedInstr == { Instruction(i, garbage) : i \in SourceInstr, garbage \in Operations }

\* Of the lines L the first u are read; the last section begins at line b of them, and
\* instruction n of currentTask is that of line h[n].
Reading(L, u, b, h) ==
  /\ u \in 0 .. Len(L) /\ unread \in Seq(LogLine) /\ Len(unread) = Len(L) - u
  /\ \A n \in 1 .. Len(unread) : unread[n] = L[u + n]
  /\ b \in 0 .. u /\ (u > 0 => b > 0 /\ L[b] = Marker("begin"))
  /\ \A j \in b + 1 .. u : L[j] # Marker("begin")
  /\ currentTask \in Seq(ParsedInstr)
  /\ h \in [1 .. Len(currentTask) -> b + 1 .. u]
  /\ \A n, m \in 1 .. Len(currentTask) : n < m => h[n] < h[m]
  /\ \A n \in 1 .. Len(currentTask) : \E i \in SourceInstr :
       /\ L[h[n]] = Statement(i) /\ i.line > 0
       /\ currentTask[n].line = i.line /\ currentTask[n].raw = Mentioned(i) \cup {NoName}
  /\ \A j \in b + 1 .. u : \A i \in SourceInstr :
       L[j] = Statement(i) /\ i.line > 0 => \E n \in 1 .. Len(currentTask) : h[n] = j

\* The parser has section p of f.
HoldsCopy(f, p) ==
  LET S == Numbered(f, p)
  IN  /\ currentTask = << >> <=> S = {}
      /\ currentTask # << >> => /\ Head(currentTask).line = f[Min(S)].line
                                /\ Last(currentTask).line = f[Max(S)].line
                                /\ IsCopy(currentTask, f, S)

\* What the parser has at the end of a section is a copy of it.
LEMMA SectionCopied ==
  ASSUME NEW P \in Seq(Seq(SourceInstr)), NEW L, NEW F, NEW Q,
         Logged(P, L, F, Q, Len(P) + 1, 1),
         NEW u, NEW b, NEW h, Reading(L, u, b, h),
         u + 1 \in DOMAIN L, L[u + 1] = Marker("end")
  PROVE  /\ b \in DOMAIN L /\ F[b] \in DOMAIN P /\ Q[b] \in SectionStarts(P[F[b]])
         /\ HoldsCopy(P[F[b]], Q[b])
<1> PICK f, p, S : f = P[F[b]] /\ p = Q[b] /\ S = Numbered(f, p)
  OBVIOUS
<1>1. L \in Seq(LogLine) /\ u \in Nat
  BY DEF Logged, Reading
<1>2. DOMAIN L = 1 .. Len(L) /\ Len(L) \in Nat
  BY <1>1
<1>3. u > 0
  <2>1. L # << >> => L[1] = Marker("begin")
    BY DEF Logged
  <2>2. L[1] = Marker("begin")
    BY <1>2, <2>1
  <2>3. Marker("begin").kind = "begin" /\ Marker("end").kind = "end"
    BY DEF Marker
  <2>4. u # 0
    BY <1>1, <2>2, <2>3
  <2> QED
    BY <1>1, <2>4
<1>4. b \in DOMAIN L /\ L[b] = Marker("begin") /\ b < u + 1 /\ b \in Nat
  BY <1>1, <1>2, <1>3, SMTT(30) DEF Reading
<1> PICK e : e = u + 1
  OBVIOUS
<1>5. e - 1 = u /\ e \in DOMAIN L /\ b < e /\ L[e] = Marker("end")
  BY <1>1, <1>4
<1>6. NoBegin(L, b, e)
  BY <1>5 DEF Reading, NoBegin
<1>7. /\ F[b] \in DOMAIN P /\ p \in SectionStarts(f)
      /\ \A k \in DOMAIN f : HeldSince(f, p, k) /\ isStatement(f[k]) =>
           \E l \in b + 1 .. u : L[l] = Statement(f[k]) /\ F[l] = F[b] /\ Q[l] = k
      /\ \A l \in b + 1 .. u : \A i : L[l] = Statement(i) =>
           /\ Q[l] \in DOMAIN f /\ i = f[Q[l]] /\ F[l] = F[b]
           /\ HeldSince(f, p, Q[l]) /\ isStatement(f[Q[l]])
  <2>1. /\ F[b] \in DOMAIN P /\ Q[b] \in SectionStarts(P[F[b]])
        /\ HoldsSection(P[F[b]], F[b], Q[b], L, F, Q, b, e)
    BY <1>4, <1>5, <1>6, SectionLines
  <2> QED
    BY <1>5, <2>1 DEF HoldsSection
<1>8. f \in Seq(SourceInstr)
  BY <1>7
<1>9. DOMAIN f \subseteq Nat /\ \A k \in DOMAIN f : f[k] \in SourceInstr
  BY <1>8
<1> PICK n : n = Len(currentTask)
  OBVIOUS
<1>10. currentTask \in Seq(ParsedInstr) /\ n \in Nat /\ DOMAIN currentTask = 1 .. n
  BY DEF Reading
<1>11. \A a \in 1 .. n : h[a] \in b + 1 .. u
  BY DEF Reading
<1>12. ASSUME NEW a \in 1 .. n
       PROVE  /\ Q[h[a]] \in S /\ F[h[a]] = F[b]
              /\ currentTask[a].line = f[Q[h[a]]].line
              /\ currentTask[a].raw = Mentioned(f[Q[h[a]]]) \cup {NoName}
  <2>1. PICK i \in SourceInstr :
          /\ L[h[a]] = Statement(i) /\ i.line > 0
          /\ currentTask[a].line = i.line /\ currentTask[a].raw = Mentioned(i) \cup {NoName}
    BY DEF Reading
  <2> QED
    BY <1>7, <1>11, <2>1, SMTT(30) DEF Numbered
<1>13. ASSUME NEW k \in S
       PROVE  \E a \in 1 .. n : Q[h[a]] = k
  <2>1. k \in DOMAIN f /\ HeldSince(f, p, k) /\ isStatement(f[k]) /\ f[k].line > 0
    BY DEF Numbered
  <2>2. PICK l \in b + 1 .. u : L[l] = Statement(f[k]) /\ Q[l] = k
    BY <1>7, <2>1
  <2>3. PICK a \in 1 .. n : h[a] = l
    BY <1>9, <2>1, <2>2 DEF Reading
  <2> QED
    BY <2>2, <2>3
<1> PICK d : d = [a \in 1 .. n |-> Q[h[a]]]
  OBVIOUS
<1>14. S \subseteq Nat
  BY <1>9 DEF Numbered
<1>15. d \in [1 .. n -> Nat] /\ \A a \in 1 .. n : d[a] = Q[h[a]]
  BY <1>12, <1>14
<1>16. ASSUME NEW a \in 1 .. n, NEW c \in 1 .. n, a < c
       PROVE  d[a] < d[c]
  <2>1. h[a] < h[c] /\ h[a] \in DOMAIN L /\ h[c] \in DOMAIN L
    <3>1. h[a] < h[c]
      BY <1>16 DEF Reading
    <3>2. \A j \in b + 1 .. u : j \in DOMAIN L
      BY <1>1, <1>2, <1>4, SMTT(30)
    <3> QED
      BY <1>11, <3>1, <3>2
  <2>2. Before(F[h[a]], Q[h[a]], F[h[c]], Q[h[c]])
    BY <2>1 DEF Logged
  <2>3. F[b] \in Nat
    BY <1>7
  <2> QED
    BY <1>12, <1>15, <2>2, <2>3 DEF Before
<1>17. S = Elements(n, d)
  <2>1. \A a \in 1 .. n : d[a] \in S
    BY <1>12, <1>15
  <2>2. \A k \in S : \E a \in 1 .. n : d[a] = k
    BY <1>13, <1>15
  <2> QED
    BY <2>1, <2>2, ZenonT(30) DEF Elements
<1>18. /\ Cardinality(S) = n
       /\ \A a \in 1 .. n : Cardinality(UpTo(S, d[a])) = a
       /\ n > 0 => Min(S) = d[1] /\ Max(S) = d[n]
  <2>1. Increasing(n, d)
    BY <1>16 DEF Increasing
  <2>2. n \in Nat /\ d \in [1 .. n -> Nat]
    BY <1>10, <1>15
  <2> QED
    <3>1. /\ Cardinality(Elements(n, d)) = n
          /\ \A a \in 1 .. n : Cardinality(UpTo(Elements(n, d), d[a])) = a
          /\ n > 0 => Min(Elements(n, d)) = d[1] /\ Max(Elements(n, d)) = d[n]
      BY <2>1, <2>2, RankIncreasing
    <3> QED
      BY <1>17, <3>1
<1>19. IsCopy(currentTask, f, S)
  <2>1. ASSUME NEW k \in S
        PROVE  /\ currentTask[Cardinality({ j \in S : j <= k })].line = f[k].line
               /\ currentTask[Cardinality({ j \in S : j <= k })].raw = Mentioned(f[k]) \cup {NoName}
    <3>1. PICK a \in 1 .. n : k = d[a]
      BY <1>17 DEF Elements
    <3>2. Cardinality({ j \in S : j <= k }) = a
      BY <1>18, <3>1 DEF UpTo
    <3> QED
      BY <1>12, <1>15, <3>1, <3>2
  <2> QED
    BY <1>10, <1>18, <2>1 DEF IsCopy
<1>20. currentTask = << >> <=> n = 0
  BY <1>10
<1>21. S = {} <=> n = 0
  <2>1. n # 0 => 1 \in 1 .. n
    BY <1>10
  <2>2. n = 0 => 1 .. n = {}
    OBVIOUS
  <2> QED
    BY <1>17, <2>1, <2>2 DEF Elements
<1>22. n > 0 => Head(currentTask).line = f[Min(S)].line /\ Last(currentTask).line = f[Max(S)].line
  <2>1. n > 0 => /\ Head(currentTask) = currentTask[1] /\ Last(currentTask) = currentTask[n]
                 /\ 1 \in 1 .. n /\ n \in 1 .. n
    BY <1>10 DEF Last
  <2>2. n > 0 => Min(S) = Q[h[1]] /\ Max(S) = Q[h[n]]
    BY <1>15, <1>18, <2>1
  <2> QED
    BY <1>12, <2>1, <2>2
<1> QED
  BY <1>4, <1>7, <1>10, <1>19, <1>20, <1>21, <1>22 DEF HoldsCopy

\* s is section p of f, complete and as it was compiled.
SectionOf(s, f, p) ==
  LET S == Numbered(f, p)
  IN  /\ ~Degenerate(f, p) /\ s.start \in Nat /\ s.end \in Nat
      /\ s.start = f[Min(S)].line /\ s.end = f[Max(S)].line /\ IsCopy(s.body, f, S)

\* The table holds sections of the functions P, ...
Table(P) ==
  \A s \in Tasks : \E m \in DOMAIN P : \E p \in SectionStarts(P[m]) : SectionOf(s, P[m], p)

\* ... every one whose end is among the first u lines.
Known(P, L, F, Q, u) ==
  \A b \in DOMAIN L, e \in 1 .. u :
    b < e /\ L[b] = Marker("begin") /\ L[e] = Marker("end") /\ NoBegin(L, b, e) =>
      \E s \in Tasks : SectionOf(s, P[F[b]], Q[b])

\* The lines are those of P, or main was not compiled.
FromFile(P, L, F, Q) ==
  /\ P \in Seq(Seq(SourceInstr))
  /\ \/ Logged(P, L, F, Q, Len(P) + 1, 1)
     \/ L = << >> /\ \E files \in Commands : MainSource \notin files

Progress(P, L, F, Q, u, b, h) ==
  Reading(L, u, b, h) /\ Table(P) /\ (LinesApart(P) => Known(P, L, F, Q, u))

ReadInv ==
  /\ phase \in {"source", "compile", "pass", "built"} => Tasks = {} /\ currentTask = << >>
  /\ phase \in {"parse", "run"} =>
       \E F, Q, u, b, h :
         /\ FromFile(program[MainSource], log[MainSource], F, Q)
         /\ Progress(program[MainSource], log[MainSource], F, Q, u, b, h)
         /\ phase = "run" => u = Len(log[MainSource])
  /\ StartsUnlessDegenerate

\* The program starts to read.
LEMMA StartReads ==
  ASSUME BuildInv, ReadInv, StartProgram
  PROVE  ReadInv'
<1> PICK P, L : P = program[MainSource] /\ L = log[MainSource]
  OBVIOUS
<1>1. /\ phase = "built" /\ phase' = "parse" /\ unread' = L /\ program'[MainSource] = P
      /\ log'[MainSource] = L /\ currentTask' = currentTask /\ Tasks' = Tasks
  BY DEF StartProgram, buildVars, passVars
<1>2. P \in Seq(Seq(SourceInstr)) /\ L \in Seq(LogLine)
  BY SourcesAssumption DEF BuildInv, Typed
<1>3. Tasks' = {} /\ currentTask' = << >>
  BY <1>1 DEF ReadInv
<1>4. \E F, Q : FromFile(P, L, F, Q)
  BY <1>1, <1>2 DEF BuildInv, MainInv, Complete, LoggedTo, FromFile
<1>5. PICK F, Q : FromFile(P, L, F, Q)
  BY <1>4
<1> PICK h : h = [n \in {} |-> 0]
  OBVIOUS
<1>6. Reading(L, 0, 0, h)'
  <2>1. 1 .. 0 = {} /\ 0 + 1 .. 0 = {} /\ Len(<< >>) = 0 /\ << >> \in Seq(ParsedInstr)
    OBVIOUS
  <2>2. h \in [{} -> {}] /\ 0 \in 0 .. 0
    OBVIOUS
  <2>3. Len(L) \in Nat /\ Len(L) = Len(L) - 0 /\ 0 \in 0 .. Len(L)
    BY <1>2
  <2>4. \A n \in 1 .. Len(L) : L[n] = L[0 + n]
    BY <2>3
  <2> QED
    BY <1>1, <1>2, <1>3, <2>1, <2>2, <2>3, <2>4 DEF Reading
<1>7. Progress(P, L, F, Q, 0, 0, h)'
  BY <1>3, <1>6 DEF Progress, Table, Known
<1>8. FromFile(P, L, F, Q)'
  BY <1>5 DEF FromFile
<1>9. StartsUnlessDegenerate'
  BY <1>1 DEF StartsUnlessDegenerate
<1> QED
  BY <1>1, <1>5, <1>7, <1>9 DEF ReadInv

\* What the next line is.
LEMMA NextLine ==
  ASSUME NEW L \in Seq(LogLine), NEW u, NEW b, NEW h, Reading(L, u, b, h),
         unread # << >>, unread' = Tail(unread)
  PROVE  /\ u \in Nat /\ u + 1 \in DOMAIN L /\ Head(unread) = L[u + 1]
         /\ unread' \in Seq(LogLine) /\ Len(unread') = Len(L) - (u + 1)
         /\ \A n \in 1 .. Len(unread') : unread'[n] = L[(u + 1) + n]
         /\ Head(unread).kind = "begin" => L[u + 1] = Marker("begin")
         /\ Head(unread).kind = "end" => L[u + 1] = Marker("end")
         /\ Head(unread).kind = "statement" =>
              L[u + 1] = Statement(Head(unread).instr) /\ Head(unread).instr \in SourceInstr
<1> PICK n, l : n = Len(unread) /\ l = Len(L)
  OBVIOUS
<1>1. /\ u \in 0 .. l /\ unread \in Seq(LogLine) /\ n = l - u
      /\ \A a \in 1 .. n : unread[a] = L[u + a]
  BY DEF Reading
<1>2. l \in Nat /\ DOMAIN L = 1 .. l /\ u \in Nat /\ n \in Nat
  BY <1>1
<1>3. n # 0
  <2>1. \A r \in Seq(LogLine) : r # << >> => Len(r) # 0
    OBVIOUS
  <2> QED
    BY <1>1, <2>1
<1>4. u + 1 \in DOMAIN L /\ 1 \in 1 .. n
  BY <1>1, <1>2, <1>3
<1>5. Head(unread) = L[u + 1] /\ L[u + 1] \in LogLine
  BY <1>1, <1>4
<1>6. /\ unread' \in Seq(LogLine) /\ Len(unread') = n - 1
      /\ \A a \in 1 .. n - 1 : unread'[a] = unread[a + 1]
  <2>1. \A r \in Seq(LogLine) : r # << >> =>
          /\ Tail(r) \in Seq(LogLine) /\ Len(Tail(r)) = Len(r) - 1
          /\ \A a \in 1 .. Len(r) - 1 : Tail(r)[a] = r[a + 1]
    OBVIOUS
  <2> QED
    BY <1>1, <2>1
<1>7. n - 1 = l - (u + 1)
  BY <1>1, <1>2
<1>8. \A a \in 1 .. n - 1 : unread'[a] = L[(u + 1) + a]
  <2>1. ASSUME NEW a \in 1 .. n - 1
        PROVE  unread'[a] = L[(u + 1) + a]
    <3>1. a + 1 \in 1 .. n /\ u + (a + 1) = (u + 1) + a
      BY <1>2
    <3> QED
      BY <1>1, <1>6, <3>1
  <2> QED
    BY <2>1
<1>9. /\ Marker("begin").kind = "begin" /\ Marker("end").kind = "end"
      /\ \A i : Statement(i).kind = "statement" /\ Statement(i).instr = i
      /\ "begin" # "end" /\ "begin" # "statement" /\ "end" # "statement"
  BY DEF Marker, Statement
<1>10. \/ L[u + 1] = Marker("begin") \/ L[u + 1] = Marker("end")
       \/ \E i \in SourceInstr : L[u + 1] = Statement(i)
  BY <1>5 DEF LogLine
<1>11. /\ u \in Nat /\ u + 1 \in DOMAIN L /\ Head(unread) = L[u + 1]
       /\ unread' \in Seq(LogLine)
  BY <1>2, <1>4, <1>5, <1>6
<1>12. Len(unread') = Len(L) - (u + 1) /\ \A a \in 1 .. Len(unread') : unread'[a] = L[(u + 1) + a]
  BY <1>6, <1>7, <1>8
<1>13. /\ Head(unread).kind = "begin" => L[u + 1] = Marker("begin")
       /\ Head(unread).kind = "end" => L[u + 1] = Marker("end")
  BY <1>5, <1>9, <1>10
<1>14. Head(unread).kind = "statement" =>
         L[u + 1] = Statement(Head(unread).instr) /\ Head(unread).instr \in SourceInstr
  BY <1>5, <1>9, <1>10
<1> QED
  BY <1>11, <1>12, <1>13, <1>14

\* A section is begun.
LEMMA BeginReads ==
  ASSUME NEW P, NEW L \in Seq(LogLine), NEW F, NEW Q, NEW u, NEW b, NEW h,
         Progress(P, L, F, Q, u, b, h), ParseBegin
  PROVE  \E c, g : Progress(P, L, F, Q, u + 1, c, g)'
<1>1. /\ unread # << >> /\ unread' = Tail(unread) /\ Head(unread).kind = "begin"
      /\ currentTask' = << >> /\ Tasks' = Tasks
  BY DEF ParseBegin
<1>2. Reading(L, u, b, h)
  BY DEF Progress
<1>3. /\ u \in Nat /\ u + 1 \in DOMAIN L /\ L[u + 1] = Marker("begin")
      /\ unread' \in Seq(LogLine) /\ Len(unread') = Len(L) - (u + 1)
      /\ \A n \in 1 .. Len(unread') : unread'[n] = L[(u + 1) + n]
  BY <1>1, <1>2, NextLine
<1> PICK g : g = [n \in {} |-> 0]
  OBVIOUS
<1> PICK v : v = u + 1
  OBVIOUS
<1>4. v \in 0 .. Len(L) /\ v \in 0 .. v /\ v > 0 /\ v + 1 .. v = {}
  BY <1>3
<1>5. Reading(L, v, v, g)'
  <2>1. 1 .. 0 = {} /\ Len(<< >>) = 0 /\ << >> \in Seq(ParsedInstr) /\ g \in [{} -> {}]
    OBVIOUS
  <2> QED
    BY <1>1, <1>3, <1>4, <2>1 DEF Reading
<1>6. Known(P, L, F, Q, u) => Known(P, L, F, Q, v)'
  <2>1. L[v] # Marker("end")
    <3>1. Marker("begin").kind = "begin" /\ Marker("end").kind = "end"
      BY DEF Marker
    <3> QED
      BY <1>3, <3>1
  <2>2. \A e \in 1 .. v : e # v => e \in 1 .. u
    BY <1>3
  <2> QED
    BY <1>1, <2>1, <2>2 DEF Known
<1>7. Progress(P, L, F, Q, v, v, g)'
  BY <1>1, <1>5, <1>6 DEF Progress, Table
<1> QED
  BY <1>7

\* A statement of a section is read.
LEMMA StatementReads ==
  ASSUME NEW P, NEW L \in Seq(LogLine), L # << >> => L[1] = Marker("begin"),
         NEW F, NEW Q, NEW u, NEW b, NEW h,
         Progress(P, L, F, Q, u, b, h), ParseStatement
  PROVE  \E c, g : Progress(P, L, F, Q, u + 1, c, g)'
<1> PICK i, v, n : i = Head(unread).instr /\ v = u + 1 /\ n = Len(currentTask)
  OBVIOUS
<1>1. /\ unread # << >> /\ unread' = Tail(unread) /\ Head(unread).kind = "statement"
      /\ Tasks' = Tasks
      /\ IF i.line <= 0 THEN currentTask' = currentTask
           ELSE \E garbage \in Operations :
                  currentTask' = Append(currentTask, Instruction(i, garbage))
  BY DEF ParseStatement
<1>2. Reading(L, u, b, h)
  BY DEF Progress
<1>3. /\ u \in Nat /\ v \in DOMAIN L /\ L[v] = Statement(i) /\ i \in SourceInstr
      /\ unread' \in Seq(LogLine) /\ Len(unread') = Len(L) - v
      /\ \A a \in 1 .. Len(unread') : unread'[a] = L[v + a]
  BY <1>1, <1>2, NextLine
<1>4. L[v] # Marker("begin") /\ L[v] # Marker("end") /\ \A j : Statement(i) = Statement(j) => i = j
  <2>1. /\ Marker("begin").kind = "begin" /\ Marker("end").kind = "end"
        /\ \A j : Statement(j).kind = "statement" /\ Statement(j).instr = j
    BY DEF Marker, Statement
  <2> QED
    BY <1>3, <2>1
<1>5. u > 0
  <2>1. L # << >>
    BY <1>3
  <2>2. u # 0
    BY <1>4, <2>1
  <2> QED
    BY <1>3, <2>2
<1>6. /\ b \in 0 .. u /\ b \in 0 .. v /\ b > 0 /\ L[b] = Marker("begin")
      /\ v \in 0 .. Len(L) /\ v > 0 /\ b + 1 .. v = (b + 1 .. u) \cup {v} /\ v \notin b + 1 .. u
  BY <1>2, <1>3, <1>5 DEF Reading
<1>7. \A j \in b + 1 .. v : L[j] # Marker("begin")
  BY <1>2, <1>4, <1>6 DEF Reading
<1>8. /\ currentTask \in Seq(ParsedInstr) /\ n \in Nat /\ h \in [1 .. n -> b + 1 .. u]
      /\ \A a, c \in 1 .. n : a < c => h[a] < h[c]
      /\ \A a \in 1 .. n : \E j \in SourceInstr :
           /\ L[h[a]] = Statement(j) /\ j.line > 0
           /\ currentTask[a].line = j.line /\ currentTask[a].raw = Mentioned(j) \cup {NoName}
      /\ \A c \in b + 1 .. u : \A j \in SourceInstr :
           L[c] = Statement(j) /\ j.line > 0 => \E a \in 1 .. n : h[a] = c
  <2>1. /\ currentTask \in Seq(ParsedInstr) /\ n \in Nat /\ h \in [1 .. n -> b + 1 .. u]
        /\ \A a, c \in 1 .. n : a < c => h[a] < h[c]
    BY <1>2 DEF Reading
  <2>2. \A a \in 1 .. Len(currentTask) : \E j \in SourceInstr :
          /\ L[h[a]] = Statement(j) /\ j.line > 0
          /\ currentTask[a].line = j.line /\ currentTask[a].raw = Mentioned(j) \cup {NoName}
    BY <1>2 DEF Reading
  <2>3. \A c \in b + 1 .. u : \A j \in SourceInstr :
          L[c] = Statement(j) /\ j.line > 0 => \E a \in 1 .. Len(currentTask) : h[a] = c
    BY <1>2 DEF Reading
  <2> QED
    BY <2>1, <2>2, <2>3
<1>9. ASSUME i.line <= 0
      PROVE  \E g : Reading(L, v, b, g)'
  <2>1. currentTask' = currentTask /\ ~(i.line > 0)
    BY <1>1, <1>3, <1>9 DEF SourceInstr
  <2>2. ASSUME NEW c \in b + 1 .. v, NEW j \in SourceInstr, L[c] = Statement(j), j.line > 0
        PROVE  \E a \in 1 .. n : h[a] = c
    <3>1. c # v
      BY <1>3, <1>4, <2>1, <2>2
    <3> QED
      BY <1>6, <1>8, <2>2, <3>1
  <2>3. h \in [1 .. n -> b + 1 .. v]
    BY <1>6, <1>8
  <2>4. Reading(L, v, b, h)'
    BY <1>3, <1>6, <1>7, <1>8, <2>1, <2>2, <2>3 DEF Reading
  <2> QED
    BY <2>4
<1>10. ASSUME i.line > 0
       PROVE  \E g : Reading(L, v, b, g)'
  <2>1. PICK garbage \in Operations : currentTask' = Append(currentTask, Instruction(i, garbage))
    BY <1>1, <1>3, <1>10 DEF SourceInstr
  <2> PICK x, m : x = Instruction(i, garbage) /\ m = n + 1
    OBVIOUS
  <2>2. x \in ParsedInstr /\ x.line = i.line /\ x.raw = Mentioned(i) \cup {NoName}
    <3>1. x \in ParsedInstr
      BY <1>3 DEF ParsedInstr
    <3>2. x.line = i.line /\ x.raw = Mentioned(i) \cup {NoName}
      BY DEF Instruction
    <3> QED
      BY <3>1, <3>2
  <2>3. /\ currentTask' \in Seq(ParsedInstr) /\ Len(currentTask') = m /\ m \in Nat
        /\ currentTask'[m] = x /\ \A a \in 1 .. n : currentTask'[a] = currentTask[a]
    BY <1>8, <2>1, <2>2
  <2> PICK g : g = [a \in 1 .. m |-> IF a = m THEN v ELSE h[a]]
    OBVIOUS
  <2>4. /\ 1 .. m = (1 .. n) \cup {m} /\ m \notin 1 .. n
        /\ g[m] = v /\ \A a \in 1 .. n : g[a] = h[a]
    BY <1>8
  <2>5. g \in [1 .. m -> b + 1 .. v]
    BY <1>6, <1>8, <2>4
  <2>6. ASSUME NEW a \in 1 .. m, NEW c \in 1 .. m, a < c
        PROVE  g[a] < g[c]
    <3>1. CASE c \in 1 .. n
      <4>1. a \in 1 .. n
        BY <1>8, <2>6, <3>1
      <4> QED
        BY <1>8, <2>4, <2>6, <3>1, <4>1
    <3>2. CASE c = m
      <4>1. a \in 1 .. n
        BY <1>8, <2>6, <3>2
      <4>2. h[a] \in b + 1 .. u
        BY <1>8, <4>1
      <4> QED
        BY <1>3, <1>6, <2>4, <3>2, <4>1, <4>2
    <3> QED
      BY <2>4, <3>1, <3>2
  <2>7. \A a \in 1 .. m : \E j \in SourceInstr :
          /\ L[g[a]] = Statement(j) /\ j.line > 0
          /\ currentTask'[a].line = j.line /\ currentTask'[a].raw = Mentioned(j) \cup {NoName}
    <3>1. ASSUME NEW a \in 1 .. n
          PROVE  \E j \in SourceInstr :
                   /\ L[g[a]] = Statement(j) /\ j.line > 0
                   /\ currentTask'[a].line = j.line
                   /\ currentTask'[a].raw = Mentioned(j) \cup {NoName}
      <4>1. PICK j \in SourceInstr :
              /\ L[h[a]] = Statement(j) /\ j.line > 0
              /\ currentTask[a].line = j.line /\ currentTask[a].raw = Mentioned(j) \cup {NoName}
        BY <1>8, <3>1
      <4>2. g[a] = h[a] /\ currentTask'[a] = currentTask[a]
        BY <2>3, <2>4, <3>1
      <4> QED
        BY <4>1, <4>2
    <3>2. /\ L[g[m]] = Statement(i) /\ i.line > 0
          /\ currentTask'[m].line = i.line /\ currentTask'[m].raw = Mentioned(i) \cup {NoName}
      BY <1>3, <1>10, <2>2, <2>3, <2>4
    <3> QED
      BY <1>3, <2>4, <3>1, <3>2
  <2>8. \A c \in b + 1 .. v : \A j \in SourceInstr :
          L[c] = Statement(j) /\ j.line > 0 => \E a \in 1 .. m : g[a] = c
    BY <1>6, <1>8, <2>4
  <2>9. Reading(L, v, b, g)'
    BY <1>3, <1>6, <1>7, <2>3, <2>5, <2>6, <2>7, <2>8 DEF Reading
  <2> QED
    BY <2>9
<1>11. \E g : Reading(L, v, b, g)'
  BY <1>3, <1>9, <1>10 DEF SourceInstr
<1>12. Known(P, L, F, Q, u) => Known(P, L, F, Q, v)'
  <2>1. \A e \in 1 .. v : e # v => e \in 1 .. u
    BY <1>3
  <2> QED
    BY <1>1, <1>4, <2>1 DEF Known
<1> QED
  BY <1>1, <1>11, <1>12 DEF Progress, Table

\* A section is ended.  What is inserted is the section, and if it is not inserted then
\* because it is known.
LEMMA EndReads ==
  ASSUME NEW P \in Seq(Seq(SourceInstr)), NEW L, NEW F, NEW Q, Logged(P, L, F, Q, Len(P) + 1, 1),
         NEW u, NEW b, NEW h, Progress(P, L, F, Q, u, b, h), ParseEnd
  PROVE  /\ phase' \in {"parse", "aborted"}
         /\ phase' = "parse" => Progress(P, L, F, Q, u + 1, b, h)'
         /\ phase' = "aborted" => \E m \in DOMAIN P : \E p \in SectionStarts(P[m]) : Degenerate(P[m], p)
<1> PICK v, n, f, p, S : /\ v = u + 1 /\ n = Len(currentTask) /\ f = P[F[b]] /\ p = Q[b]
                         /\ S = Numbered(f, p)
  OBVIOUS
<1>1. /\ unread # << >> /\ unread' = Tail(unread) /\ Head(unread).kind = "end"
      /\ phase = "parse" /\ currentTask' = currentTask
      /\ IF currentTask # << >> /\ Last(currentTask).line >= Head(currentTask).line
           THEN /\ Tasks' = insert([start |-> Head(currentTask).line,
                                    end   |-> Last(currentTask).line,
                                    body  |-> currentTask])
                /\ phase' = phase
           ELSE phase' = "aborted" /\ Tasks' = Tasks
  BY DEF ParseEnd
<1>2. Reading(L, u, b, h) /\ L \in Seq(LogLine)
  BY DEF Progress, Logged
<1>3. /\ u \in Nat /\ v \in DOMAIN L /\ L[v] = Marker("end")
      /\ unread' \in Seq(LogLine) /\ Len(unread') = Len(L) - v
      /\ \A a \in 1 .. Len(unread') : unread'[a] = L[v + a]
  BY <1>1, <1>2, NextLine
<1>4. /\ b \in DOMAIN L /\ F[b] \in DOMAIN P /\ p \in SectionStarts(f)
      /\ currentTask = << >> <=> S = {}
      /\ currentTask # << >> => /\ Head(currentTask).line = f[Min(S)].line
                                /\ Last(currentTask).line = f[Max(S)].line
                                /\ IsCopy(currentTask, f, S)
  <2>1. u + 1 \in DOMAIN L /\ L[u + 1] = Marker("end")
    BY <1>3
  <2>2. /\ b \in DOMAIN L /\ F[b] \in DOMAIN P /\ Q[b] \in SectionStarts(P[F[b]])
        /\ HoldsCopy(P[F[b]], Q[b])
    BY <1>2, <2>1, SectionCopied
  <2> QED
    BY <2>2 DEF HoldsCopy
<1>5. currentTask # << >> =>
        Head(currentTask).line \in Nat /\ Last(currentTask).line \in Nat
  <2>1. \A a \in 1 .. Len(currentTask) : currentTask[a].line \in Nat
    BY <1>2 DEF Reading, SourceInstr
  <2>2. currentTask \in Seq(ParsedInstr)
    BY <1>2 DEF Reading
  <2>3. \A t \in Seq(ParsedInstr) : t # << >> =>
          Head(t) = t[1] /\ 1 \in 1 .. Len(t) /\ Len(t) \in 1 .. Len(t)
    OBVIOUS
  <2> QED
    BY <2>1, <2>2, <2>3 DEF Last
<1>6. CASE ~(currentTask # << >> /\ Last(currentTask).line >= Head(currentTask).line)
  <2>1. Degenerate(f, p)
    BY <1>4, <1>5, <1>6 DEF Degenerate
  <2> QED
    BY <1>1, <1>4, <1>6, <2>1
<1>7. CASE currentTask # << >> /\ Last(currentTask).line >= Head(currentTask).line
  <2> PICK s : s = [start |-> Head(currentTask).line, end |-> Last(currentTask).line,
                    body |-> currentTask]
    OBVIOUS
  <2>1. Tasks' = insert(s) /\ phase' = "parse"
    BY <1>1, <1>7
  <2>2. SectionOf(s, f, p) /\ s.start \in Nat /\ s.end \in Nat /\ s.start <= s.end
    <3>1. ~Degenerate(f, p)
      BY <1>4, <1>5, <1>7 DEF Degenerate
    <3>2. s.start = Head(currentTask).line /\ s.end = Last(currentTask).line /\ s.body = currentTask
      OBVIOUS
    <3> QED
      BY <1>4, <1>5, <1>7, <3>1, <3>2 DEF SectionOf
  <2>3. Tasks \subseteq Tasks' /\ Tasks' \subseteq Tasks \cup {s}
    BY <2>1 DEF insert
  <2>4. Table(P)'
    <3>1. Table(P)
      BY DEF Progress
    <3>2. \A t \in Tasks' : \E m \in DOMAIN P : \E q \in SectionStarts(P[m]) : SectionOf(t, P[m], q)
      BY <1>4, <2>2, <2>3, <3>1 DEF Table
    <3> QED
      BY <3>2 DEF Table
  <2>5. Reading(L, v, b, h)'
    <3>1. /\ L[v] # Marker("begin") /\ \A i : L[v] # Statement(i)
      <4>1. /\ Marker("begin").kind = "begin" /\ Marker("end").kind = "end"
            /\ \A j : Statement(j).kind = "statement"
        BY DEF Marker, Statement
      <4> QED
        BY <1>3, <4>1
    <3>2. /\ v \in 0 .. Len(L) /\ b \in 0 .. v /\ b > 0
          /\ b + 1 .. v = (b + 1 .. u) \cup {v}
      <4>1. DOMAIN L = 1 .. Len(L) /\ Len(L) \in Nat
        BY <1>2
      <4>2. b \in 0 .. u
        BY <1>2 DEF Reading
      <4> QED
        BY <1>3, <1>4, <4>1, <4>2, SMTT(30)
    <3>3. L[b] = Marker("begin") /\ \A j \in b + 1 .. v : L[j] # Marker("begin")
      <4>1. u > 0
        <5>1. b \in 0 .. u
          BY <1>2 DEF Reading
        <5> QED
          BY <1>3, <3>2, <5>1
      <4> QED
        BY <1>2, <3>1, <3>2, <4>1 DEF Reading
    <3>4. h \in [1 .. n -> b + 1 .. v]
      <4>1. h \in [1 .. n -> b + 1 .. u]
        BY <1>2 DEF Reading
      <4> QED
        BY <3>2, <4>1
    <3>5. \A j \in b + 1 .. v : \A i \in SourceInstr :
            L[j] = Statement(i) /\ i.line > 0 => \E a \in 1 .. Len(currentTask) : h[a] = j
      BY <1>2, <3>1, <3>2 DEF Reading
    <3> QED
      BY <1>1, <1>2, <1>3, <3>2, <3>3, <3>4, <3>5 DEF Reading
  <2>6. ASSUME LinesApart(P)
        PROVE  Known(P, L, F, Q, v)'
    <3>1. Known(P, L, F, Q, u)
      BY <2>6 DEF Progress
    <3>2. \E t \in Tasks' : SectionOf(t, f, p)
      <4>1. CASE s \in Tasks'
        BY <2>2, <4>1
      <4>2. CASE s \notin Tasks'
        <5>1. PICK t \in Tasks, x \in {s.start, s.end} : t.start <= x /\ x <= t.end
          BY <2>1, <4>2 DEF insert, Around
        <5>2. PICK m \in DOMAIN P : \E q \in SectionStarts(P[m]) : SectionOf(t, P[m], q)
          BY DEF Progress, Table
        <5>3. PICK q \in SectionStarts(P[m]) : SectionOf(t, P[m], q)
          BY <5>2
        <5>4. \/ m = F[b] /\ q = p
              \/ t.end < s.start
              \/ s.end < t.start
          BY <1>4, <2>2, <2>6, <5>3, SMTT(30) DEF LinesApart, SectionOf
        <5>5. t.start \in Nat /\ t.end \in Nat
          BY <5>3 DEF SectionOf
        <5> QED
          BY <2>2, <2>3, <5>1, <5>3, <5>4, <5>5, SMTT(30)
      <4> QED
        BY <4>1, <4>2
    <3>3. ASSUME NEW c \in DOMAIN L, NEW e \in 1 .. v, c < e, L[c] = Marker("begin"),
                 L[e] = Marker("end"), NoBegin(L, c, e)
          PROVE  \E t \in Tasks' : SectionOf(t, P[F[c]], Q[c])
      <4>1. CASE e \in 1 .. u
        BY <2>3, <3>1, <3>3, <4>1 DEF Known
      <4>2. CASE e = v
        <5>1. c \in Nat /\ b \in Nat /\ b > 0
          BY <1>2, <1>4
        <5>2. ~(c < b)
          BY <1>2, <1>3, <3>3, <4>2, <5>1 DEF NoBegin, Reading
        <5>3. ~(b < c)
          BY <1>2, <1>3, <3>3, <4>2, <5>1, SMTT(30) DEF Reading
        <5>4. c = b
          BY <5>1, <5>2, <5>3
        <5> QED
          BY <3>2, <5>4
      <4> QED
        BY <1>3, <4>1, <4>2
    <3> QED
      BY <3>3 DEF Known
  <2> QED
    BY <2>1, <2>4, <2>5, <2>6 DEF Progress
<1> QED
  BY <1>6, <1>7

\* Reading a line of an .iir file.
LEMMA LineReads ==
  ASSUME BuildInv, ReadInv, ParseBegin \/ ParseStatement \/ ParseEnd
  PROVE  ReadInv'
<1> PICK P, L : P = program[MainSource] /\ L = log[MainSource]
  OBVIOUS
<1>1. /\ phase = "parse" /\ unread # << >> /\ program'[MainSource] = P /\ log'[MainSource] = L
      /\ phase' \in {"parse", "aborted"}
  BY DEF ParseBegin, ParseStatement, ParseEnd, buildVars, passVars
<1>2. PICK F, Q, u, b, h : FromFile(P, L, F, Q) /\ Progress(P, L, F, Q, u, b, h)
  BY <1>1 DEF ReadInv
<1>3. L \in Seq(LogLine) /\ P \in Seq(Seq(SourceInstr))
  BY SourcesAssumption DEF BuildInv, Typed
<1>4. L # << >>
  <2>1. Reading(L, u, b, h) /\ unread' = Tail(unread)
    BY <1>2 DEF Progress, ParseBegin, ParseStatement, ParseEnd
  <2>2. u + 1 \in DOMAIN L
    BY <1>1, <1>3, <2>1, NextLine
  <2> QED
    BY <2>2
<1>5. Logged(P, L, F, Q, Len(P) + 1, 1)
  BY <1>2, <1>4 DEF FromFile
<1>6. L[1] = Marker("begin")
  BY <1>4, <1>5 DEF Logged
<1>7. ASSUME NEW v, NEW c, NEW g, Progress(P, L, F, Q, v, c, g)', phase' = "parse"
      PROVE  ReadInv'
  <2>1. StartsUnlessDegenerate'
    BY <1>7 DEF StartsUnlessDegenerate
  <2> QED
    BY <1>1, <1>2, <1>7, <2>1 DEF ReadInv
<1>8. CASE ParseBegin
  <2>1. PICK c, g : Progress(P, L, F, Q, u + 1, c, g)'
    BY <1>2, <1>3, <1>8, BeginReads
  <2>2. phase' = "parse"
    BY <1>8 DEF ParseBegin
  <2> QED
    BY <1>7, <2>1, <2>2
<1>9. CASE ParseStatement
  <2>1. PICK c, g : Progress(P, L, F, Q, u + 1, c, g)'
    BY <1>2, <1>3, <1>6, <1>9, StatementReads
  <2>2. phase' = "parse"
    BY <1>9 DEF ParseStatement
  <2> QED
    BY <1>7, <2>1, <2>2
<1>10. CASE ParseEnd
  <2>1. /\ phase' = "parse" => Progress(P, L, F, Q, u + 1, b, h)'
        /\ phase' = "aborted" => \E m \in DOMAIN P : \E p \in SectionStarts(P[m]) : Degenerate(P[m], p)
    BY <1>2, <1>3, <1>5, <1>10, EndReads
  <2>2. CASE phase' = "parse"
    BY <1>7, <2>1, <2>2
  <2>3. CASE phase' = "aborted"
    <3>1. \E f \in Range(P) : \E p \in SectionStarts(f) : Degenerate(f, p)
      BY <2>1, <2>3 DEF Range
    <3> QED
      BY <1>1, <2>3, <3>1 DEF ReadInv, StartsUnlessDegenerate
  <2> QED
    BY <1>1, <2>2, <2>3
<1> QED
  BY <1>8, <1>9, <1>10

\* The other steps.
LEMMA NextReads ==
  ASSUME BuildInv, ReadInv, [Next]_vars
  PROVE  ReadInv'
<1>1. CASE \/ Compile \/ (\E f \in Sources : CompileSource(f))
           \/ LogLock \/ LogUnlock \/ LogStatement \/ FunctionDone \/ SourceDone \/ Built
  <2>1. /\ UNCHANGED runVars /\ phase \in {"source", "compile", "pass", "built"}
        /\ phase' \in {"compile", "pass", "built"}
    BY <1>1 DEF Compile, CompileSource, LogLock, LogUnlock, LogStatement, TakeInstr,
                FunctionDone, SourceDone, Built
  <2> QED
    BY <2>1 DEF ReadInv, StartsUnlessDegenerate, runVars
<1>2. CASE StartProgram
  BY <1>2, StartReads
<1>3. CASE ParseBegin \/ ParseStatement \/ ParseEnd
  BY <1>3, LineReads
<1>4. CASE ParseDone
  <2>1. /\ phase = "parse" /\ unread = << >> /\ phase' = "run" /\ UNCHANGED <<buildVars, runVars>>
    BY <1>4 DEF ParseDone, runVars
  <2> PICK P, L : P = program[MainSource] /\ L = log[MainSource]
    OBVIOUS
  <2>2. PICK F, Q, u, b, h : FromFile(P, L, F, Q) /\ Progress(P, L, F, Q, u, b, h)
    BY <2>1 DEF ReadInv
  <2>3. u = Len(L)
    <3>1. u \in 0 .. Len(L) /\ Len(unread) = Len(L) - u
      BY <2>2 DEF Progress, Reading
    <3>2. Len(unread) = 0
      BY <2>1
    <3>3. Len(L) \in Nat
      BY SourcesAssumption DEF BuildInv, Typed
    <3> QED
      BY <3>1, <3>2, <3>3
  <2>4. Progress(P, L, F, Q, u, b, h)'
    BY <2>1, <2>2 DEF Progress, Reading, Table, Known, runVars
  <2>5. program'[MainSource] = P /\ log'[MainSource] = L
    BY <2>1 DEF buildVars, passVars
  <2>6. StartsUnlessDegenerate'
    BY <2>1 DEF StartsUnlessDegenerate
  <2> QED
    BY <2>1, <2>2, <2>3, <2>4, <2>5, <2>6 DEF ReadInv
<1>5. CASE UNCHANGED vars
  <2>1. UNCHANGED <<program, log, unread, currentTask, Tasks, phase>>
    BY <1>5 DEF vars, buildVars, passVars, runVars
  <2>2. ASSUME NEW P, NEW L, NEW F, NEW Q, NEW u, NEW b, NEW h, Progress(P, L, F, Q, u, b, h)
        PROVE  Progress(P, L, F, Q, u, b, h)'
    BY <2>1, <2>2 DEF Progress, Reading, Table, Known
  <2>3. StartsUnlessDegenerate'
    BY <2>1 DEF ReadInv, StartsUnlessDegenerate
  <2> QED
    BY <2>1, <2>2, <2>3 DEF ReadInv
<1> QED
  BY <1>1, <1>2, <1>3, <1>4, <1>5 DEF Next

-----------------------------------------------------------------------------
(* The theorems.                                                           *)

\* At first.
LEMMA InitBuilds ==
  ASSUME Init
  PROVE  BuildInv /\ ReadInv
<1>1. << >> \in Seq(Seq(SourceInstr)) /\ << >> \in Seq(LogLine)
  OBVIOUS
<1> QED
  BY <1>1, SourcesAssumption DEF Init, BuildInv, Typed, PassInv, MainInv, ReadInv,
                                 StartsUnlessDegenerate

\* The inductive invariant: where the pass is, what the .iir file of main holds by then,
\* and how far the program has read it.
LEMMA Reached ==
  ASSUME InToolHome
  PROVE  Spec => [](BuildInv /\ ReadInv)
<1>1. Init => BuildInv /\ ReadInv
  BY InitBuilds
<1>2. BuildInv /\ ReadInv /\ [Next]_vars => (BuildInv /\ ReadInv)'
  BY NextBuilds, NextReads
<1> QED
  BY <1>1, <1>2, PTL DEF Spec

\* StartsUnlessDegenerate, for any number and content of source files: what
\* IIRlogger.h:113-146 writes never makes parseTasksIR fail, unless a section has no
\* numbered line or ends before it starts.
THEOREM ProgramsStart ==
  ASSUME InToolHome
  PROVE  Spec => []StartsUnlessDegenerate
<1>1. BuildInv /\ ReadInv => StartsUnlessDegenerate
  BY DEF ReadInv
<1> QED
  BY <1>1, Reached, PTL

\* The file of main is one of those in Programs, or not there yet.
FilesApart == LinesApart(program[MainSource])

\* FilesApart is invariant.
LEMMA StayApart ==
  ASSUME \A p \in Programs : LinesApart(p[MainSource])
  PROVE  Spec => []FilesApart
<1>1. Init => FilesApart
  BY SourcesAssumption DEF Init, FilesApart, LinesApart
<1>2. ASSUME FilesApart, [Next]_vars
      PROVE  FilesApart'
  <2>1. CASE Compile
    <3>1. PICK p \in Programs, files \in Commands :
            program' = [f \in Sources |-> IF f \in files THEN p[f] ELSE program[f]]
      BY <2>1 DEF Compile
    <3>2. program'[MainSource] = p[MainSource] \/ program'[MainSource] = program[MainSource]
      BY <3>1, SourcesAssumption
    <3> QED
      BY <1>2, <3>1, <3>2 DEF FilesApart
  <2>2. CASE ~Compile
    <3>1. program' = program
      BY <1>2, <2>2 DEF Next, vars, buildVars, passVars, CompileSource, LogLock, LogUnlock,
           LogStatement, TakeInstr, FunctionDone, SourceDone, Built, StartProgram, ParseBegin,
           ParseStatement, ParseEnd, ParseDone
    <3> QED
      BY <1>2, <3>1 DEF FilesApart
  <2> QED
    BY <2>1, <2>2
<1> QED
  BY <1>1, <1>2, PTL DEF Spec

\* When the whole file is read every section that is closed is in the table.
LEMMA ClosedIsKnown ==
  ASSUME NEW P \in Seq(Seq(SourceInstr)), NEW L, NEW F, NEW Q, Logged(P, L, F, Q, Len(P) + 1, 1),
         Known(P, L, F, Q, Len(L)), NEW m \in DOMAIN P,
         NEW p \in SectionStarts(P[m]), Closed(P[m], p)
  PROVE  \E s \in Tasks : SectionOf(s, P[m], p)
<1> PICK f : f = P[m]
  OBVIOUS
<1>1. f \in Seq(SourceInstr) /\ L \in Seq(LogLine)
  BY DEF Logged
<1>2. /\ DOMAIN f = 1 .. Len(f) /\ Len(f) \in Nat /\ DOMAIN L = 1 .. Len(L) /\ Len(L) \in Nat
      /\ m \in 1 .. Len(P) /\ Len(P) \in Nat
  BY <1>1
<1>3. PICK n \in p + 1 .. Len(f) : isUnlock(f[n]) /\ HeldSince(f, p, n - 1) /\ ~Critical(f, n)
  BY <1>2, SectionEnds
<1>4. p \in DOMAIN f /\ isLock(f[p]) /\ p \in Nat /\ p > 0 /\ n \in DOMAIN f /\ p < n /\ n \in Nat
  BY <1>2, <1>3 DEF SectionStarts
<1>5. \A x, y \in Nat : 0 < x /\ x < y => x \in 1 .. y - 1 /\ y - 1 \in Nat
  OBVIOUS
<1>6. Marked(f, p) /\ Marked(f, n)
  <2>1. p \in 1 .. n - 1
    BY <1>4, <1>5
  <2>2. Critical(f, n - 1)
    BY <1>3, <2>1 DEF Critical
  <2> QED
    BY <1>3, <2>2 DEF Marked
<1>7. \A i \in DOMAIN f : Before(m, i, Len(P) + 1, 1)
  BY <1>2 DEF Before
<1>8. PICK b \in DOMAIN L, e \in DOMAIN L : F[b] = m /\ Q[b] = p /\ F[e] = m /\ Q[e] = n
  BY <1>4, <1>6, <1>7 DEF Logged
<1>9. \A l \in DOMAIN L : F[l] \in Nat /\ Q[l] \in Nat /\ Entry(L[l], P[F[l]], Q[l])
  BY DEF Logged
<1>10. \A j, l \in DOMAIN L : j < l => Before(F[j], Q[j], F[l], Q[l])
  BY DEF Logged
<1>11. L[b] = Marker("begin")
  BY <1>4, <1>8, <1>9 DEF Entry, isLock, isUnlock, isStatement
<1>12. L[e] = Marker("end")
  BY <1>3, <1>8, <1>9 DEF Entry, isStatement, SectionStarts, isLock, isUnlock
<1>13. b < e
  <2>1. ~Before(m, n, m, p)
    BY <1>2, <1>4 DEF Before
  <2>2. ~(e < b)
    BY <1>8, <1>10, <2>1
  <2>3. b # e
    BY <1>4, <1>8
  <2> QED
    BY <1>2, <2>2, <2>3
<1>14. ASSUME NEW j \in b + 1 .. e - 1, L[j] = Marker("begin")
       PROVE  FALSE
  <2>1. j \in DOMAIN L /\ b < j /\ j < e
    BY <1>2, <1>14
  <2> PICK q : q = Q[j]
    OBVIOUS
  <2>2. F[j] = m /\ p < q /\ q < n /\ q \in Nat
    <3>1. Before(m, p, F[j], q) /\ Before(F[j], q, m, n)
      BY <1>8, <1>10, <2>1
    <3> QED
      BY <1>2, <1>4, <1>9, <2>1, <3>1, SMTT(30) DEF Before
  <2>3. q \in SectionStarts(f)
    <3>1. /\ Marker("begin").kind = "begin" /\ Marker("end").kind = "end"
          /\ \A i : Statement(i).kind = "statement"
      BY DEF Marker, Statement
    <3> QED
      BY <1>9, <1>14, <2>1, <2>2, <3>1 DEF Entry
  <2>4. p \in 1 .. q - 1 /\ q - 1 \in Nat
    BY <1>4, <1>5, <2>2
  <2>5. HeldSince(f, p, q - 1)
    <3>1. \A x, y, z \in Nat : x < y /\ y < z => x <= y - 1 /\ y - 1 <= z - 1 /\ z - 1 \in Nat
      OBVIOUS
    <3>2. p <= q - 1 /\ q - 1 <= n - 1 /\ n - 1 \in Nat
      BY <1>4, <2>2, <3>1
    <3>3. p \in Nat \ {0}
      BY <1>4
    <3> QED
      BY <1>3, <2>4, <3>2, <3>3, HeldBetween
  <2> QED
    BY <2>3, <2>4, <2>5 DEF SectionStarts, Critical
<1> QED
  BY <1>2, <1>8, <1>11, <1>12, <1>13, <1>14 DEF Known, NoBegin

\* What is in the table is found.
LEMMA KnownIsFound ==
  ASSUME NEW P \in Seq(Seq(SourceInstr)), LinesApart(P), Table(P), NEW m \in DOMAIN P, NEW p \in SectionStarts(P[m]),
         NEW s \in Tasks, SectionOf(s, P[m], p), NEW k \in Numbered(P[m], p)
  PROVE  /\ Around(P[m][k].line) # {}
         /\ IsCopy(find(P[m][k].line).body, P[m], Numbered(P[m], p))
<1> PICK f, line : f = P[m] /\ line = f[k].line
  OBVIOUS
<1>1. s.start <= line /\ line <= s.end
  BY DEF SectionOf, LinesApart
<1>2. s \in Around(line)
  BY <1>1 DEF Around
<1>3. ASSUME NEW r \in Around(line)
      PROVE  SectionOf(r, f, p)
  <2>1. r \in Tasks /\ r.start <= line /\ line <= r.end
    BY DEF Around
  <2>2. PICK n \in DOMAIN P : \E q \in SectionStarts(P[n]) : SectionOf(r, P[n], q)
    BY <2>1 DEF Table
  <2>3. PICK q \in SectionStarts(P[n]) : SectionOf(r, P[n], q)
    BY <2>2
  <2>4. (n = m /\ q = p) \/ r.end < s.start \/ s.end < r.start
    BY <2>3 DEF LinesApart, SectionOf
  <2>5. r.start \in Nat /\ r.end \in Nat /\ s.start \in Nat /\ s.end \in Nat /\ line \in Nat
    <3>1. f \in Seq(SourceInstr)
      OBVIOUS
    <3>2. k \in DOMAIN f
      BY DEF Numbered
    <3>3. f[k] \in SourceInstr
      BY <3>1, <3>2
    <3>4. line \in Nat
      BY <3>3 DEF SourceInstr
    <3> QED
      BY <2>3, <3>4 DEF SectionOf
  <2>6. CASE n = m /\ q = p
    BY <2>3, <2>6
  <2>7. CASE r.end < s.start \/ s.end < r.start
    BY <1>1, <2>1, <2>5, <2>7, SMTT(30)
  <2> QED
    BY <2>4, <2>6, <2>7
<1>4. \A r \in Around(line) : s.start <= r.start
  BY <1>3 DEF SectionOf
<1>5. find(line) \in Around(line)
  BY <1>2, <1>4 DEF find
<1>6. SectionOf(find(line), f, p)
  BY <1>3, <1>5
<1> QED
  BY <1>2, <1>6 DEF SectionOf

\* SectionsKnown, for any number and content of source files: when every command compiles
\* the file of main and the lines of its sections are apart, the table holds them as they
\* are in that file.
THEOREM SectionsAreKnown ==
  ASSUME InToolHome,
         \A files \in Commands : MainSource \in files,
         \A p \in Programs : LinesApart(p[MainSource])
  PROVE  Spec => []SectionsKnown
<1>1. ASSUME BuildInv, ReadInv, FilesApart
      PROVE  SectionsKnown
  <2> PICK P, L : P = program[MainSource] /\ L = log[MainSource]
    OBVIOUS
  <2>1. ASSUME phase = "run", NEW m \in DOMAIN P, NEW p \in SectionStarts(P[m]), Closed(P[m], p),
               NEW k \in Numbered(P[m], p)
        PROVE  /\ Around(P[m][k].line) # {}
               /\ IsCopy(find(P[m][k].line).body, P[m], Numbered(P[m], p))
    <3>1. PICK F, Q, u, b, h : /\ FromFile(P, L, F, Q) /\ Progress(P, L, F, Q, u, b, h)
                               /\ u = Len(L)
      BY <1>1, <2>1 DEF ReadInv
    <3>2. /\ LinesApart(P) /\ P \in Seq(Seq(SourceInstr)) /\ Logged(P, L, F, Q, Len(P) + 1, 1)
          /\ Table(P) /\ Known(P, L, F, Q, Len(L))
      BY <1>1, <3>1 DEF FilesApart, FromFile, Progress
    <3>3. PICK s \in Tasks : SectionOf(s, P[m], p)
      BY <2>1, <3>2, ClosedIsKnown
    <3> QED
      BY <2>1, <3>2, <3>3, KnownIsFound
  <2> QED
    BY <2>1 DEF SectionsKnown, Range
<1> QED
  BY <1>1, Reached, StayApart, PTL
=============================================================================
