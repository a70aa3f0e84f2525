------------------------------ MODULE FoldFacts ------------------------------
(***************************************************************************)
(* FoldLeft of the community modules, for any operator it may fold: a      *)
(* module that folds takes an instance of this one for each operator.      *)
(***************************************************************************)
EXTENDS Integers, Sequences, SequencesExt, FiniteSetsExt, Functions, FiniteSetTheorems,
        SequenceTheorems, TLAPS

CONSTANT Op(_, _)

Fold(base, seq) == FoldLeft(Op, base, seq)

-----------------------------------------------------------------------------
(* Induction. *)

(* A family of subsets of a finite set has a smallest one.                  *)
HasMinimal(F) == \E T \in F : \A U \in F : U \subseteq T => U = T

LEMMA MinimalSubset ==
  ASSUME NEW S, IsFiniteSet(S), NEW F \in SUBSET SUBSET S, F # {}
  PROVE  HasMinimal(F)
<1>1. F \subseteq FiniteSubsetsOf(S)
  BY FS_FiniteSubsetsOfFinite
<1>2. \E T \in F : \A U \in F : ~ (<<U, T>> \in StrictSubsetOrdering(S))
  BY <1>1, FS_StrictSubsetOrderingWellFounded, WFMin, Zenon
<1>3. \A U, T \in F : U \subseteq T /\ U # T => <<U, T>> \in StrictSubsetOrdering(S)
  BY DEF StrictSubsetOrdering
<1> QED
  BY <1>2, <1>3 DEF HasMinimal

LEMMA LeastOne ==
  ASSUME NEW S \in SUBSET Nat, S # {}
  PROVE  \E m \in S : \A n \in S : m <= n
<1>1. PICK k \in S : TRUE
  OBVIOUS
<1>2. PICK F : F = {0..n : n \in {i \in S : i <= k}}
  OBVIOUS
<1>3. IsFiniteSet(0..k)
  BY FS_Interval
<1>4. F \in SUBSET SUBSET (0..k) /\ F # {}
  BY <1>1, <1>2
<1>5. PICK T \in F : \A U \in F : U \subseteq T => U = T
  <2>1. HasMinimal(F)
    BY <1>3, <1>4, MinimalSubset, Zenon
  <2> QED
    BY <2>1 DEF HasMinimal
<1>6. PICK m \in S : m <= k /\ T = 0..m
  BY <1>2, <1>5
<1>7. ASSUME NEW n \in S, n < m
      PROVE  FALSE
  <2>1. 0..n \in F /\ 0..n \subseteq 0..m
    BY <1>2, <1>6, <1>7
  <2>2. m \in 0..m /\ m \notin 0..n
    BY <1>7
  <2> QED
    BY <1>5, <1>6, <2>1, <2>2
<1> QED
  BY <1>6, <1>7

(* A set of numbers that has 0, and n + 1 with every n, has them all.       *)
LEMMA AllOfNat ==
  ASSUME NEW S \in SUBSET Nat, 0 \in S, \A n \in S : n + 1 \in S
  PROVE  S = Nat
<1>1. SUFFICES ASSUME Nat \ S # {} PROVE FALSE
  OBVIOUS
<1>2. PICK m \in Nat \ S : \A n \in Nat \ S : m <= n
  BY <1>1, LeastOne
<1>3. m - 1 \in Nat /\ (m - 1) + 1 = m
  BY <1>2
<1> QED
  BY <1>2, <1>3

-----------------------------------------------------------------------------
(* The recursion over the subsets of the domain by which FoldLeft is        *)
(* defined, each without its largest element.                               *)

Step(base, seq, h, s) == IF s = {} THEN base ELSE Op(h[s \ {Max(s)}], seq[Max(s)])
Solves(base, seq, h, n) == h = [s \in SUBSET (1..n) |-> Step(base, seq, h, s)]

LEMMA MaxOfTop ==
  ASSUME NEW n \in Nat, NEW s \in SUBSET (1..n), n \in s
  PROVE  Max(s) = n
<1>1. n \in s /\ \A y \in s : n >= y
  OBVIOUS
<1>2. \A x \in s : (\A y \in s : x >= y) => x = n
  OBVIOUS
<1>3. Max(s) \in s /\ \A y \in s : Max(s) >= y
  BY <1>1 DEF Max
<1> QED
  BY <1>2, <1>3

LEMMA TopOfInterval ==
  ASSUME NEW n \in Nat
  PROVE  Max(1..(n + 1)) = n + 1 /\ (1..(n + 1)) \ {n + 1} = 1..n /\ 1..(n + 1) # {}
<1>1. n + 1 \in Nat /\ n + 1 \in 1..(n + 1) /\ 1..(n + 1) \in SUBSET (1..(n + 1))
  OBVIOUS
<1>2. Max(1..(n + 1)) = n + 1
  BY <1>1, MaxOfTop
<1> QED
  BY <1>1, <1>2

(* It can be solved for any length.                                         *)
LEMMA SolutionExists ==
  ASSUME NEW n \in Nat, NEW base, NEW seq
  PROVE  \E h : Solves(base, seq, h, n)
<1>1. PICK S : S = {k \in Nat : \E h : Solves(base, seq, h, k)}
  OBVIOUS
<1>2. 0 \in S
  <2>1. PICK h : h = [s \in SUBSET (1..0) |-> base]
    OBVIOUS
  <2>2. \A s \in SUBSET (1..0) : s = {}
    OBVIOUS
  <2>3. Solves(base, seq, h, 0)
    BY <2>1, <2>2 DEF Solves, Step
  <2> QED
    BY <1>1, <2>3
<1>3. ASSUME NEW k \in S
      PROVE  k + 1 \in S
  <2>0. k \in Nat /\ k + 1 \in Nat
    BY <1>1
  <2>1. PICK h : Solves(base, seq, h, k)
    BY <1>1
  <2>2. PICK g : g = [s \in SUBSET (1..(k + 1)) |->
                        IF k + 1 \in s THEN Op(h[s \ {k + 1}], seq[k + 1]) ELSE h[s]]
    OBVIOUS
  <2>3. ASSUME NEW s \in SUBSET (1..(k + 1))
        PROVE  g[s] = Step(base, seq, g, s)
    <3>1. CASE k + 1 \in s
      <4>1. Max(s) = k + 1
        BY <2>0, <3>1, MaxOfTop
      <4>2. s \ {k + 1} \in SUBSET (1..(k + 1)) /\ k + 1 \notin s \ {k + 1}
        OBVIOUS
      <4>3. g[s \ {k + 1}] = h[s \ {k + 1}]
        BY <2>2, <4>2
      <4> QED
        BY <2>2, <3>1, <4>1, <4>3 DEF Step
    <3>2. CASE k + 1 \notin s
      <4>1. s \in SUBSET (1..k)
        BY <2>0, <3>2
      <4>2. h[s] = Step(base, seq, h, s)
        BY <2>1, <4>1 DEF Solves
      <4>3. g[s] = h[s]
        BY <2>2, <3>2
      <4>4. g[s \ {Max(s)}] = h[s \ {Max(s)}]
        <5>1. s \ {Max(s)} \in SUBSET (1..(k + 1)) /\ k + 1 \notin s \ {Max(s)}
          BY <3>2
        <5> QED
          BY <2>2, <5>1
      <4> QED
        BY <4>2, <4>3, <4>4 DEF Step
    <3> QED
      BY <3>1, <3>2
  <2>4. Solves(base, seq, g, k + 1)
    BY <2>2, <2>3 DEF Solves
  <2> QED
    BY <1>1, <2>0, <2>4
<1> QED
  BY <1>1, <1>2, <1>3, AllOfNat

(* And what it says of a prefix depends on nothing but the prefix.          *)
LEMMA SolutionsAgree ==
  ASSUME NEW base, NEW seq, NEW h, NEW n \in Nat, Solves(base, seq, h, n),
         NEW other, NEW g, NEW m \in Nat, Solves(base, other, g, m),
         n <= m, \A i \in 1..n : seq[i] = other[i]
  PROVE  h[1..n] = g[1..n]
<1>1. PICK S : S = {k \in Nat : k <= n => h[1..k] = g[1..k]}
  OBVIOUS
<1>2. 0 \in S
  <2>1. h[{}] = base /\ g[{}] = base
    BY DEF Solves, Step
  <2>2. 1..0 = {}
    OBVIOUS
  <2> QED
    BY <1>1, <2>1, <2>2
<1>3. ASSUME NEW k \in S
      PROVE  k + 1 \in S
  <2>0. k \in Nat
    BY <1>1
  <2> SUFFICES ASSUME k + 1 <= n
               PROVE  h[1..(k + 1)] = g[1..(k + 1)]
    BY <1>1, <2>0
  <2>1. Max(1..(k + 1)) = k + 1 /\ (1..(k + 1)) \ {k + 1} = 1..k /\ 1..(k + 1) # {}
    BY <2>0, TopOfInterval
  <2>2. 1..(k + 1) \in SUBSET (1..n) /\ 1..(k + 1) \in SUBSET (1..m)
    BY <2>0
  <2>s. h[1..(k + 1)] = Step(base, seq, h, 1..(k + 1))
    BY <2>2 DEF Solves
  <2>3. h[1..(k + 1)] = Op(h[1..k], seq[k + 1])
    BY <2>1, <2>s DEF Step
  <2>4. g[1..(k + 1)] = Op(g[1..k], other[k + 1])
    BY <2>1, <2>2 DEF Solves, Step
  <2>5. h[1..k] = g[1..k]
    BY <1>1, <2>0
  <2>6. seq[k + 1] = other[k + 1]
    BY <2>0
  <2> QED
    BY <2>3, <2>4, <2>5, <2>6
<1> QED
  BY <1>1, <1>2, <1>3, AllOfNat

LEMMA FoldIsSolution ==
  ASSUME NEW S, NEW base, NEW seq \in Seq(S)
  PROVE  \E h : Solves(base, seq, h, Len(seq)) /\ Fold(base, seq) = h[1..Len(seq)]
<1>1. DOMAIN seq = 1..Len(seq) /\ Len(seq) \in Nat
  OBVIOUS
<1>2. Fold(base, seq) = (CHOOSE h : Solves(base, seq, h, Len(seq)))[1..Len(seq)]
  BY <1>1 DEF Fold, FoldLeft, MapThenFoldSet, Solves, Step
<1>3. \E h : Solves(base, seq, h, Len(seq))
  BY <1>1, SolutionExists
<1> QED
  BY <1>2, <1>3

-----------------------------------------------------------------------------
(* The fold of nothing is where it starts; one element more is one step     *)
(* more.                                                                    *)
LEMMA FoldNothing ==
  ASSUME NEW base
  PROVE  Fold(base, <<>>) = base
<1>0. <<>> \in Seq({}) /\ Len(<<>>) = 0
  OBVIOUS
<1>1. PICK h : Solves(base, <<>>, h, 0) /\ Fold(base, <<>>) = h[1..0]
  BY <1>0, FoldIsSolution
<1>2. 1..0 = {}
  OBVIOUS
<1> QED
  BY <1>1, <1>2 DEF Solves, Step

LEMMA FoldOneMore ==
  ASSUME NEW S, NEW base, NEW seq \in Seq(S), NEW x \in S
  PROVE  Fold(base, Append(seq, x)) = Op(Fold(base, seq), x)
<1>1. PICK n \in Nat : n = Len(seq)
  OBVIOUS
<1>2. PICK more : more = Append(seq, x)
  OBVIOUS
<1>3. /\ more \in Seq(S) /\ Len(more) = n + 1
      /\ \A i \in 1..n : seq[i] = more[i]
      /\ more[n + 1] = x
  BY <1>1, <1>2
<1>4. PICK h : Solves(base, seq, h, n) /\ Fold(base, seq) = h[1..n]
  BY <1>1, FoldIsSolution
<1>5. PICK g : Solves(base, more, g, n + 1) /\ Fold(base, more) = g[1..(n + 1)]
  BY <1>3, FoldIsSolution
<1>6. h[1..n] = g[1..n]
  BY <1>3, <1>4, <1>5, SolutionsAgree
<1>7. Max(1..(n + 1)) = n + 1 /\ (1..(n + 1)) \ {n + 1} = 1..n /\ 1..(n + 1) # {}
  BY TopOfInterval
<1>8. g[1..(n + 1)] = Op(g[1..n], more[n + 1])
  BY <1>5, <1>7 DEF Solves, Step
<1> QED
  BY <1>2, <1>3, <1>4, <1>5, <1>6, <1>8

(* A sequence that is not empty is one that was appended to.                *)
LEMMA LastOfSeq ==
  ASSUME NEW S, NEW seq \in Seq(S), NEW n \in Nat, Len(seq) = n + 1
  PROVE  /\ SubSeq(seq, 1, n) \in Seq(S) /\ Len(SubSeq(seq, 1, n)) = n
         /\ seq[n + 1] \in S
         /\ seq = Append(SubSeq(seq, 1, n), seq[n + 1])
OBVIOUS

(* What every step keeps holds of the fold.                                 *)
LEMMA FoldKeeps ==
  ASSUME NEW S, NEW T, NEW base \in T, \A t \in T, x \in S : Op(t, x) \in T,
         NEW seq \in Seq(S)
  PROVE  Fold(base, seq) \in T
<1>1. PICK N : N = {n \in Nat : \A s \in Seq(S) : Len(s) = n => Fold(base, s) \in T}
  OBVIOUS
<1>2. 0 \in N
  <2>1. \A s \in Seq(S) : Len(s) = 0 => s = <<>>
    OBVIOUS
  <2> QED
    BY <1>1, <2>1, FoldNothing
<1>3. ASSUME NEW n \in N
      PROVE  n + 1 \in N
  <2>0. n \in Nat
    BY <1>1
  <2>1. ASSUME NEW s \in Seq(S), Len(s) = n + 1
        PROVE  Fold(base, s) \in T
    <3>0. PICK r : r = SubSeq(s, 1, n)
      OBVIOUS
    <3>1. PICK x : r \in Seq(S) /\ Len(r) = n /\ x \in S /\ s = Append(r, x)
      BY <2>0, <2>1, <3>0, LastOfSeq
    <3>2. Fold(base, s) = Op(Fold(base, r), x)
      BY <3>1, FoldOneMore
    <3> QED
      BY <1>1, <3>1, <3>2
  <2> QED
    BY <1>1, <2>0, <2>1
<1>4. Len(seq) \in N
  <2>1. N = Nat
    BY <1>1, <1>2, <1>3, AllOfNat
  <2> QED
    BY <2>1
<1> QED
  BY <1>1, <1>4

(* A fold over one sequence after another.                                  *)
LEMMA FoldConcat ==
  ASSUME NEW S, NEW base, NEW s \in Seq(S), NEW r \in Seq(S)
  PROVE  Fold(base, s \o r) = Fold(Fold(base, s), r)
<1>1. PICK N : N = {n \in Nat : \A q \in Seq(S) : Len(q) = n =>
                                 Fold(base, s \o q) = Fold(Fold(base, s), q)}
  OBVIOUS
<1>2. 0 \in N
  <2>1. \A q \in Seq(S) : Len(q) = 0 => q = <<>> /\ s \o q = s
    OBVIOUS
  <2> QED
    BY <1>1, <2>1, FoldNothing
<1>3. ASSUME NEW n \in N
      PROVE  n + 1 \in N
  <2>0. n \in Nat
    BY <1>1
  <2>1. ASSUME NEW q \in Seq(S), Len(q) = n + 1
        PROVE  Fold(base, s \o q) = Fold(Fold(base, s), q)
    <3>0. PICK p : p = SubSeq(q, 1, n)
      OBVIOUS
    <3>1. PICK x : p \in Seq(S) /\ Len(p) = n /\ x \in S /\ q = Append(p, x)
      BY <2>0, <2>1, <3>0, LastOfSeq
    <3>2. PICK u : u = s \o p
      OBVIOUS
    <3>u. u \in Seq(S) /\ s \o q = Append(u, x)
      BY <3>1, <3>2
    <3>3. Fold(base, s \o q) = Op(Fold(base, u), x)
      BY <3>1, <3>u, FoldOneMore
    <3>4. Fold(Fold(base, s), q) = Op(Fold(Fold(base, s), p), x)
      BY <3>1, FoldOneMore
    <3> QED
      BY <1>1, <3>1, <3>2, <3>3, <3>4
  <2> QED
    BY <1>1, <2>0, <2>1
<1>4. Len(r) \in N
  <2>1. N = Nat
    BY <1>1, <1>2, <1>3, AllOfNat
  <2> QED
    BY <2>1
<1> QED
  BY <1>1, <1>4

-----------------------------------------------------------------------------
(* Min and sums of FiniteSetsExt and Functions.                             *)

LEMMA MinIsLeast ==
  ASSUME NEW S \in SUBSET Nat, S # {}
  PROVE  Min(S) \in S /\ \A n \in S : Min(S) <= n
BY LeastOne DEF Min

(* What SumFunctionOnSet comes to is a number.                              *)
Add(f, h, s) == IF s = {} THEN 0
                ELSE LET x == CHOOSE x \in s : TRUE IN f[x] + h[s \ {x}]

LEMMA SumIsNatural ==
  ASSUME NEW S, IsFiniteSet(S), NEW f \in [S -> Nat]
  PROVE  SumFunctionOnSet(f, S) \in Nat
<1> DEFINE Right(n, h) ==
      /\ h \in [SUBSET S -> Nat]
      /\ \A s \in SUBSET S : Cardinality(s) <= n => h[s] = Add(f, h, s)
<1>fin. \A s \in SUBSET S : IsFiniteSet(s) /\ Cardinality(s) \in Nat
                              /\ Cardinality(s) <= Cardinality(S)
  BY FS_Subset, FS_CardinalityType
<1>n. PICK N : N = {n \in Nat : \E h : Right(n, h)}
  OBVIOUS
<1>1. 0 \in N
  <2>1. PICK h : h = [s \in SUBSET S |-> 0]
    OBVIOUS
  <2>2. ASSUME NEW s \in SUBSET S, Cardinality(s) <= 0
        PROVE  h[s] = Add(f, h, s)
    <3>1. s = {}
      BY <1>fin, <2>2, FS_EmptySet
    <3> QED
      BY <2>1, <3>1 DEF Add
  <2> QED
    BY <1>n, <2>1, <2>2
<1>2. ASSUME NEW n \in N
      PROVE  n + 1 \in N
  <2>0. n \in Nat
    BY <1>n
  <2>g. PICK g : Right(n, g)
    BY <1>n
  <2>1. PICK h : h = [s \in SUBSET S |-> Add(f, g, s)]
    OBVIOUS
  <2>t. h \in [SUBSET S -> Nat]
    <3>1. SUFFICES ASSUME NEW s \in SUBSET S PROVE Add(f, g, s) \in Nat
      BY <2>1
    <3>2. CASE s = {}
      BY <3>2 DEF Add
    <3>3. CASE s # {}
      <4>1. (CHOOSE x \in s : TRUE) \in s
        BY <3>3
      <4> QED
        BY <2>g, <3>3, <4>1 DEF Add
    <3> QED
      BY <3>2, <3>3
  <2>2. ASSUME NEW s \in SUBSET S, Cardinality(s) <= n + 1, s # {}
        PROVE  h[s] = Add(f, h, s)
    <3> DEFINE x == CHOOSE x \in s : TRUE
    <3>1. x \in s /\ s \ {x} \in SUBSET S
      BY <2>2
    <3>2. Cardinality(s \ {x}) <= n
      <4>1. Cardinality(s \ {x}) = Cardinality(s) - 1
        BY <1>fin, <3>1, FS_RemoveElement
      <4> QED
        BY <1>fin, <2>0, <2>2, <4>1
    <3>3. h[s \ {x}] = g[s \ {x}]
      BY <2>g, <2>1, <3>1, <3>2
    <3> QED
      BY <2>1, <3>3 DEF Add
  <2>3. ASSUME NEW s \in SUBSET S, s = {}
        PROVE  h[s] = Add(f, h, s)
    BY <2>1, <2>3 DEF Add
  <2>4. Right(n + 1, h)
    BY <2>t, <2>2, <2>3
  <2> QED
    BY <1>n, <2>0, <2>4
<1>3. PICK h : Right(Cardinality(S), h)
  <2> HIDE DEF Right
  <2>1. N = Nat
    BY <1>n, <1>1, <1>2, AllOfNat
  <2> QED
    BY <1>fin, <1>n, <2>1
<1>4. h = [s \in SUBSET S |-> Add(f, h, s)]
  BY <1>3, <1>fin
<1>5. PICK c : c = (CHOOSE k : k = [s \in SUBSET S |-> Add(f, k, s)])
  OBVIOUS
<1>6. c = [s \in SUBSET S |-> Add(f, c, s)]
  BY <1>4, <1>5
<1>7. SumFunctionOnSet(f, S) = c[S]
  BY <1>5 DEF SumFunctionOnSet, FoldFunctionOnSet, MapThenFoldSet, Add
<1>8. PICK M : M = {n \in Nat : \A s \in SUBSET S : Cardinality(s) = n => c[s] \in Nat}
  OBVIOUS
<1>9. 0 \in M
  <2>1. ASSUME NEW s \in SUBSET S, Cardinality(s) = 0
        PROVE  c[s] \in Nat
    <3>1. s = {}
      BY <1>fin, <2>1, FS_EmptySet
    <3> QED
      BY <1>6, <3>1 DEF Add
  <2> QED
    BY <1>8, <2>1
<1>10. ASSUME NEW n \in M
       PROVE  n + 1 \in M
  <2>0. n \in Nat
    BY <1>8
  <2>1. ASSUME NEW s \in SUBSET S, Cardinality(s) = n + 1
        PROVE  c[s] \in Nat
    <3> DEFINE x == CHOOSE x \in s : TRUE
    <3>1. s # {}
      BY <2>0, <2>1, FS_EmptySet
    <3>2. x \in s /\ s \ {x} \in SUBSET S
      BY <3>1
    <3>3. Cardinality(s \ {x}) = n
      <4>1. Cardinality(s \ {x}) = Cardinality(s) - 1
        BY <1>fin, <3>2, FS_RemoveElement
      <4> QED
        BY <1>fin, <2>0, <2>1, <4>1
    <3>4. c[s \ {x}] \in Nat /\ f[x] \in Nat
      BY <1>8, <3>2, <3>3
    <3>5. c[s] = f[x] + c[s \ {x}]
      BY <1>6, <3>1 DEF Add
    <3> QED
      BY <3>4, <3>5
  <2> QED
    BY <1>8, <2>0, <2>1
<1>11. Cardinality(S) \in M
  <2>1. M = Nat
    BY <1>8, <1>9, <1>10, AllOfNat
  <2> QED
    BY <1>fin, <2>1
<1> QED
  BY <1>7, <1>8, <1>11
=============================================================================
