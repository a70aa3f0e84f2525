---------------------------- MODULE StreamProofs ----------------------------
(***************************************************************************)
(* Proofs about Stream: however the bytes are cut into reads, what is sent *)
(* and what is held back are the text so far, rewritten, and a stream that *)
(* closes has carried all of it.                                           *)
(*                                                                         *)
(* The replacement of a rule, and the matches the cut keeps clear of, are  *)
(* recursive functions over a text: what is needed of them (Rewrites,      *)
(* Looks) is shown from the end of the text backwards (Downward).  For any *)
(* list of rules the text is rewritten piece by piece, in order (InPieces);*)
(* that a text may be cut where SafeCut cuts it (CutsCompose), so that the *)
(* pieces are the rewriting of the whole, is shown of at most one rule.    *)
(* The frames' places in the bytes (Layout) tell which frame an event is.  *)
(***************************************************************************)
EXTENDS Stream, FiniteSetTheorems, SequenceTheorems, TLAPS

-----------------------------------------------------------------------------
(* Induction, from the end of an interval to its beginning.                 *)
Naturally == INSTANCE FoldFacts WITH Op <- LAMBDA x, y : x

LEMMA Downward ==
  ASSUME NEW n \in Nat, NEW S,
         \A i \in 1..n : (\A j \in 1..n : j > i => j \in S) => i \in S
  PROVE  \A i \in 1..n : i \in S
<1> DEFINE N == {k \in Nat : \A i \in 1..n : i > n - k => i \in S}
<1>1. 0 \in N
  OBVIOUS
<1>2. ASSUME NEW k \in N
      PROVE  k + 1 \in N
  <2>1. SUFFICES ASSUME NEW i \in 1..n, i > n - (k + 1)
                 PROVE  i \in S
    OBVIOUS
  <2>2. \A j \in 1..n : j > i => j > n - k
    BY <2>1
  <2> QED
    BY <2>1, <2>2
<1>3. N = Nat
  BY <1>1, <1>2, Naturally!AllOfNat
<1>4. \A i \in 1..n : i > n - n
  OBVIOUS
<1> QED
  BY <1>3, <1>4

Text == Seq(Chars)
IsRule(rule) == rule \in [pattern : Text, replacement : Text] /\ Len(rule.pattern) \in Nat \ {0}

(* A pattern matches where each of its characters does.                     *)
LEMMA MatchesAt ==
  ASSUME NEW S, NEW text \in Seq(S), NEW p \in Seq(S), NEW i \in Nat \ {0}
  PROVE  Matches(text, p, i) <=> /\ i + Len(p) - 1 <= Len(text)
                                 /\ \A k \in 1..Len(p) : text[i + k - 1] = p[k]
<1>1. SUFFICES ASSUME i + Len(p) - 1 <= Len(text)
               PROVE  SubSeq(text, i, i + Len(p) - 1) = p
                        <=> \A k \in 1..Len(p) : text[i + k - 1] = p[k]
  BY DEF Matches
<1> DEFINE q == SubSeq(text, i, i + Len(p) - 1)
<1>2. Len(q) = Len(p) /\ q \in Seq(S) /\ \A k \in 1..Len(p) : q[k] = text[i + k - 1]
  BY <1>1
<1>3. q = p <=> \A k \in 1..Len(p) : q[k] = p[k]
  BY <1>2
<1> QED
  BY <1>2, <1>3

-----------------------------------------------------------------------------
(* The recursion of Replace.                                                *)
Reach(text, p) == 1 .. Len(text) + Len(p)
Rewriting(text, rule, h, i) ==
  IF i > Len(text) THEN <<>>
  ELSE IF Matches(text, rule.pattern, i)
       THEN rule.replacement \o h[i + Len(rule.pattern)]
       ELSE <<text[i]>> \o h[i + 1]
Rewrites(text, rule, h) ==
  h = [i \in Reach(text, rule.pattern) |-> Rewriting(text, rule, h, i)]

LEMMA RewritesExists ==
  ASSUME NEW text \in Text, NEW rule, IsRule(rule)
  PROVE  \E h : Rewrites(text, rule, h)
<1>1. PICK M : M = Len(text) + Len(rule.pattern) /\ M \in Nat
  BY DEF Text, IsRule
<1>0. PICK m : m = Len(text) /\ m \in Nat
  BY DEF Text
<1>l. PICK L : L = Len(rule.pattern) /\ L \in Nat \ {0} /\ M = m + L
  BY <1>0, <1>1 DEF IsRule
<1> DEFINE Upto(h, k) == /\ h = [i \in 1..M |-> h[i]]
                         /\ \A i \in 1..M : i > M - k => h[i] = Rewriting(text, rule, h, i)
           N == {k \in Nat : \E h : Upto(h, k)}
<1>2. 0 \in N
  <2>1. Upto([i \in 1..M |-> 0], 0)
    BY <1>1
  <2> QED
    BY <2>1
<1>3. ASSUME NEW k \in N
      PROVE  k + 1 \in N
  <2>0. k \in Nat /\ k + 1 \in Nat
    OBVIOUS
  <2>1. PICK h : Upto(h, k)
    OBVIOUS
  <2>2. PICK j : j = M - k /\ j \in Int
    BY <2>0, <1>1
  <2>3. PICK v : v = Rewriting(text, rule, h, j)
    OBVIOUS
  <2>4. PICK g : g = [i \in 1..M |-> IF i = j THEN v ELSE h[i]]
    OBVIOUS
  <2>5. ASSUME NEW i \in 1..M, i > M - (k + 1)
        PROVE  g[i] = Rewriting(text, rule, g, i)
    <3>1. i >= j
      BY <2>0, <2>2, <2>5, <1>1
    <3>2. Rewriting(text, rule, g, i) = Rewriting(text, rule, h, i)
      <4>1. CASE i > m
        BY <4>1, <1>0 DEF Rewriting
      <4>2. CASE i <= m
        <5>1. i + L \in 1..M /\ i + 1 \in 1..M /\ i + L # j /\ i + 1 # j
          BY <4>2, <1>0, <1>l, <3>1, <2>2
        <5>2. g[i + L] = h[i + L] /\ g[i + 1] = h[i + 1]
          BY <5>1, <2>4
        <5> QED
          BY <5>2, <1>l DEF Rewriting
      <4> QED
        BY <4>1, <4>2, <1>0
    <3>3. CASE i = j
      BY <3>2, <3>3, <2>3, <2>4
    <3>4. CASE i # j
      <4>1. i > M - k
        BY <3>1, <3>4, <2>2
      <4> QED
        BY <4>1, <3>2, <3>4, <2>1, <2>4
    <3> QED
      BY <3>3, <3>4
  <2>6. Upto(g, k + 1)
    BY <2>4, <2>5
  <2>7. \E f : Upto(f, k + 1)
    <3> HIDE DEF Upto
    <3> QED BY <2>6
  <2> QED
    BY <2>0, <2>7
<1>4. N = Nat
  <2> HIDE DEF N
  <2>1. N \in SUBSET Nat
    BY DEF N
  <2> QED
    BY <2>1, <1>2, <1>3, Naturally!AllOfNat
<1>5. PICK h : Upto(h, M)
  BY <1>1, <1>4
<1>6. \A i \in 1..M : h[i] = Rewriting(text, rule, h, i)
  BY <1>5, <1>1
<1> QED
  BY <1>5, <1>6, <1>1 DEF Rewrites, Reach

LEMMA ReplaceRewrites ==
  ASSUME NEW text \in Text, NEW rule, IsRule(rule)
  PROVE  \E h : Rewrites(text, rule, h) /\ Replace(text, rule) = h[1]
<1>1. Replace(text, rule) = (CHOOSE h : Rewrites(text, rule, h))[1]
  BY DEF Replace, Rewrites, Rewriting, Reach
<1> QED
  BY <1>1, RewritesExists

(* What it gives at each place.                                             *)
LEMMA RewritesAt ==
  ASSUME NEW text, NEW rule, NEW h, Rewrites(text, rule, h),
         NEW i \in Reach(text, rule.pattern)
  PROVE  h[i] = Rewriting(text, rule, h, i)
BY DEF Rewrites

LEMMA RewritesType ==
  ASSUME NEW text \in Text, NEW rule, IsRule(rule), NEW h, Rewrites(text, rule, h),
         NEW i \in Reach(text, rule.pattern)
  PROVE  h[i] \in Text
<1>0. PICK m : m = Len(text) /\ m \in Nat
  BY DEF Text
<1>l. PICK L : L = Len(rule.pattern) /\ L \in Nat \ {0}
  BY DEF IsRule
<1>1. PICK M : M = m + L /\ M \in Nat /\ Reach(text, rule.pattern) = 1..M
  BY <1>0, <1>l DEF Reach
<1>2. PICK S : S = {j \in 1..M : h[j] \in Text}
  OBVIOUS
<1>3. ASSUME NEW j \in 1..M, \A k \in 1..M : k > j => k \in S
      PROVE  j \in S
  <2>1. h[j] = Rewriting(text, rule, h, j)
    BY <1>1, RewritesAt
  <2>2. CASE j > m
    <3>1. h[j] = <<>>
      BY <2>1, <2>2, <1>0 DEF Rewriting
    <3>2. <<>> \in Text
      BY DEF Text
    <3> QED
      BY <3>1, <3>2, <1>2
  <2>3. CASE j <= m
    <3>1. j + L \in S /\ j + 1 \in S
      BY <2>3, <1>0, <1>l, <1>1, <1>3
    <3>2. h[j + L] \in Text /\ h[j + 1] \in Text
      BY <3>1, <1>2
    <3>3. rule.replacement \in Text /\ <<text[j]>> \in Text
      BY <2>3, <1>0 DEF IsRule, Text
    <3>4. rule.replacement \o h[j + L] \in Text /\ <<text[j]>> \o h[j + 1] \in Text
      BY <3>2, <3>3 DEF Text
    <3> QED
      BY <2>1, <3>4, <1>0, <1>l, <1>2, <2>3 DEF Rewriting
  <2> QED
    BY <2>2, <2>3, <1>0, <1>1
<1>4. \A j \in 1..M : j \in S
  BY <1>1, <1>3, Downward
<1> QED
  BY <1>1, <1>2, <1>4

LEMMA ReplaceType ==
  ASSUME NEW text \in Text, NEW rule, IsRule(rule)
  PROVE  Replace(text, rule) \in Text
<1>1. PICK h : Rewrites(text, rule, h) /\ Replace(text, rule) = h[1]
  BY ReplaceRewrites
<1>2. 1 \in Reach(text, rule.pattern)
  BY DEF Reach, IsRule, Text
<1> QED
  BY <1>1, <1>2, RewritesType

-----------------------------------------------------------------------------
(* The recursion of Starts.                                                 *)
Looking(text, p, h, i) ==
  IF i > Len(text) THEN {}
  ELSE IF Matches(text, p, i) THEN {i} \union h[i + Len(p)]
  ELSE h[i + 1]
Looks(text, p, h) == h = [i \in Reach(text, p) |-> Looking(text, p, h, i)]

LEMMA LooksExists ==
  ASSUME NEW text \in Text, NEW p \in Text, p # <<>>
  PROVE  \E h : Looks(text, p, h)
<1>1. PICK M : M = Len(text) + Len(p) /\ M \in Nat
  BY DEF Text
<1>0. PICK m : m = Len(text) /\ m \in Nat
  BY DEF Text
<1>l. PICK L : L = Len(p) /\ L \in Nat \ {0} /\ M = m + L
  BY <1>0, <1>1 DEF Text
<1> DEFINE Upto(h, k) == /\ h = [i \in 1..M |-> h[i]]
                         /\ \A i \in 1..M : i > M - k => h[i] = Looking(text, p, h, i)
           N == {k \in Nat : \E h : Upto(h, k)}
<1>2. 0 \in N
  <2>1. Upto([i \in 1..M |-> 0], 0)
    BY <1>1
  <2> QED
    BY <2>1
<1>3. ASSUME NEW k \in N
      PROVE  k + 1 \in N
  <2>0. k \in Nat /\ k + 1 \in Nat
    OBVIOUS
  <2>1. PICK h : Upto(h, k)
    OBVIOUS
  <2>2. PICK j : j = M - k /\ j \in Int
    BY <2>0, <1>1
  <2>3. PICK v : v = Looking(text, p, h, j)
    OBVIOUS
  <2>4. PICK g : g = [i \in 1..M |-> IF i = j THEN v ELSE h[i]]
    OBVIOUS
  <2>5. ASSUME NEW i \in 1..M, i > M - (k + 1)
        PROVE  g[i] = Looking(text, p, g, i)
    <3>1. i >= j
      BY <2>0, <2>2, <2>5, <1>1
    <3>2. Looking(text, p, g, i) = Looking(text, p, h, i)
      <4>1. CASE i > m
        BY <4>1, <1>0 DEF Looking
      <4>2. CASE i <= m
        <5>1. i + L \in 1..M /\ i + 1 \in 1..M /\ i + L # j /\ i + 1 # j
          BY <4>2, <1>0, <1>l, <3>1, <2>2
        <5>2. g[i + L] = h[i + L] /\ g[i + 1] = h[i + 1]
          BY <5>1, <2>4
        <5> QED
          BY <5>2, <1>l DEF Looking
      <4> QED
        BY <4>1, <4>2, <1>0
    <3>3. CASE i = j
      BY <3>2, <3>3, <2>3, <2>4
    <3>4. CASE i # j
      <4>1. i > M - k
        BY <3>1, <3>4, <2>2
      <4> QED
        BY <4>1, <3>2, <3>4, <2>1, <2>4
    <3> QED
      BY <3>3, <3>4
  <2>6. Upto(g, k + 1)
    BY <2>4, <2>5
  <2>7. \E f : Upto(f, k + 1)
    <3> HIDE DEF Upto
    <3> QED BY <2>6
  <2> QED
    BY <2>0, <2>7
<1>4. N = Nat
  <2> HIDE DEF N
  <2>1. N \in SUBSET Nat
    BY DEF N
  <2> QED
    BY <2>1, <1>2, <1>3, Naturally!AllOfNat
<1>5. PICK h : Upto(h, M)
  BY <1>1, <1>4
<1>6. \A i \in 1..M : h[i] = Looking(text, p, h, i)
  BY <1>5, <1>1
<1> QED
  BY <1>5, <1>6, <1>1 DEF Looks, Reach

LEMMA StartsLooks ==
  ASSUME NEW text \in Text, NEW p \in Text, p # <<>>
  PROVE  \E h : Looks(text, p, h) /\ Starts(text, p) = h[1]
<1>1. Starts(text, p) = (CHOOSE h : Looks(text, p, h))[1]
  BY DEF Starts, Looks, Looking, Reach
<1> QED
  BY <1>1, LooksExists

LEMMA LooksAt ==
  ASSUME NEW text, NEW p, NEW h, Looks(text, p, h), NEW i \in Reach(text, p)
  PROVE  h[i] = Looking(text, p, h, i)
BY DEF Looks

(* They are matches, none overlapping the one before it.                    *)
Apart(text, p, S) ==
  /\ \A s \in S : Matches(text, p, s)
  /\ \A s, t \in S : s < t => s + Len(p) <= t

LEMMA LooksApart ==
  ASSUME NEW text \in Text, NEW p \in Text, p # <<>>, NEW h, Looks(text, p, h),
         NEW i \in Reach(text, p)
  PROVE  h[i] \subseteq i..Len(text) /\ Apart(text, p, h[i])
<1>0. PICK m : m = Len(text) /\ m \in Nat
  BY DEF Text
<1>l. PICK L : L = Len(p) /\ L \in Nat \ {0}
  BY DEF Text
<1>1. PICK M : M = m + L /\ M \in Nat /\ Reach(text, p) = 1..M
  BY <1>0, <1>l DEF Reach
<1>2. PICK S : S = {j \in 1..M : h[j] \subseteq j..m /\ Apart(text, p, h[j])}
  OBVIOUS
<1>3. ASSUME NEW j \in 1..M, \A k \in 1..M : k > j => k \in S
      PROVE  j \in S
  <2>1. h[j] = Looking(text, p, h, j)
    BY <1>1, LooksAt
  <2>2. CASE j > m
    <3>1. h[j] = {}
      BY <2>1, <2>2, <1>0 DEF Looking
    <3> QED
      BY <3>1, <1>2 DEF Apart
  <2>3. CASE j <= m /\ Matches(text, p, j)
    <3>1. h[j] = {j} \union h[j + L]
      BY <2>1, <2>3, <1>0, <1>l DEF Looking
    <3>2. j + L \in S
      BY <2>3, <1>0, <1>l, <1>1, <1>3
    <3>3. h[j + L] \subseteq (j + L)..m /\ Apart(text, p, h[j + L])
      BY <3>2, <1>2
    <3>4. h[j] \subseteq j..m
      BY <3>1, <3>3, <2>3, <1>0, <1>l, <1>1
    <3>5. \A s \in h[j] : Matches(text, p, s)
      BY <3>1, <3>3, <2>3 DEF Apart
    <3>6. ASSUME NEW s \in h[j], NEW t \in h[j], s < t
          PROVE  s + L <= t
      <4>1. CASE s = j
        <5>1. t \in h[j + L]
          BY <3>1, <3>6, <4>1
        <5> QED
          BY <5>1, <4>1, <3>3, <1>l, <1>0
      <4>2. CASE s # j /\ t # j
        BY <4>2, <3>1, <3>3, <3>6, <1>l DEF Apart
      <4>3. CASE s # j /\ t = j
        <5>1. s \in (j + L)..m
          BY <4>3, <3>1, <3>3
        <5> QED
          BY <5>1, <4>3, <3>6, <1>l, <1>0
      <4> QED
        BY <4>1, <4>2, <4>3
    <3>7. Apart(text, p, h[j])
      BY <3>5, <3>6, <1>l DEF Apart
    <3> QED
      BY <3>4, <3>7, <1>2
  <2>4. CASE j <= m /\ ~Matches(text, p, j)
    <3>1. h[j] = h[j + 1]
      BY <2>1, <2>4, <1>0 DEF Looking
    <3>2. j + 1 \in S
      BY <2>4, <1>0, <1>l, <1>1, <1>3
    <3>3. h[j] \subseteq (j + 1)..m /\ Apart(text, p, h[j])
      BY <3>1, <3>2, <1>2
    <3>4. h[j] \subseteq j..m
      BY <3>3, <1>0, <1>1
    <3> QED
      BY <3>3, <3>4, <1>2
  <2> QED
    BY <2>2, <2>3, <2>4, <1>0, <1>1
<1>4. \A j \in 1..M : j \in S
  BY <1>1, <1>3, Downward
<1> QED
  BY <1>0, <1>1, <1>2, <1>4

-----------------------------------------------------------------------------
(* A sequence is its two parts, one after the other.                        *)
LEMMA Parts ==
  ASSUME NEW S, NEW s \in Seq(S), NEW n \in 0..Len(s)
  PROVE  /\ Len(s) \in Nat /\ n \in Nat
         /\ SubSeq(s, 1, n) \in Seq(S) /\ Len(SubSeq(s, 1, n)) = n
         /\ \A k \in 1..n : SubSeq(s, 1, n)[k] = s[k]
         /\ SubSeq(s, n + 1, Len(s)) \in Seq(S) /\ Len(SubSeq(s, n + 1, Len(s))) = Len(s) - n
         /\ \A k \in 1..(Len(s) - n) : SubSeq(s, n + 1, Len(s))[k] = s[n + k]
         /\ s = SubSeq(s, 1, n) \o SubSeq(s, n + 1, Len(s))
<1>0. PICK m : m = Len(s)
  OBVIOUS
<1>1. m \in Nat /\ n \in Nat /\ n <= m
  BY <1>0
<1>2. \A k \in 1..m : s[k] \in S
  BY <1>0
<1>3. /\ SubSeq(s, 1, n) \in Seq(S) /\ Len(SubSeq(s, 1, n)) = n
      /\ \A k \in 1..n : SubSeq(s, 1, n)[k] = s[k]
  BY <1>1, <1>2
<1>4. /\ SubSeq(s, n + 1, m) \in Seq(S) /\ Len(SubSeq(s, n + 1, m)) = m - n
      /\ \A k \in 1..(m - n) : SubSeq(s, n + 1, m)[k] = s[n + k]
  BY <1>1, <1>2
<1>5. 1 \in 1..(Len(s) + 1) /\ n \in (1 - 1)..Len(s) /\ m \in n..Len(s)
  BY <1>0, <1>1
<1>6. SubSeq(s, 1, n) \o SubSeq(s, n + 1, m) = SubSeq(s, 1, m)
  BY <1>5, ConcatAdjacentSubSeq
<1>7. SubSeq(s, 1, m) = s
  BY <1>0, SubSeqFull
<1> QED
  BY <1>0, <1>1, <1>3, <1>4, <1>6, <1>7

LEMMA TextParts ==
  \A text \in Text : \A n \in 0..Len(text) :
     /\ SubSeq(text, 1, n) \in Text /\ Len(SubSeq(text, 1, n)) = n
     /\ \A k \in 1..n : SubSeq(text, 1, n)[k] = text[k]
     /\ SubSeq(text, n + 1, Len(text)) \in Text
     /\ text = SubSeq(text, 1, n) \o SubSeq(text, n + 1, Len(text))
<1>1. SUFFICES ASSUME NEW text \in Seq(Chars), NEW n \in 0..Len(text)
               PROVE  /\ SubSeq(text, 1, n) \in Seq(Chars) /\ Len(SubSeq(text, 1, n)) = n
                      /\ \A k \in 1..n : SubSeq(text, 1, n)[k] = text[k]
                      /\ SubSeq(text, n + 1, Len(text)) \in Seq(Chars)
                      /\ text = SubSeq(text, 1, n) \o SubSeq(text, n + 1, Len(text))
  BY DEF Text
<1> QED
  BY Parts, Zenon

(* One text after another. *)
LEMMA Joins ==
  ASSUME NEW P \in Text, NEW Q \in Text
  PROVE  /\ P \o Q \in Text /\ Len(P \o Q) = Len(P) + Len(Q)
         /\ \A i \in 1..Len(P) : (P \o Q)[i] = P[i]
         /\ \A j \in 1..Len(Q) : (P \o Q)[Len(P) + j] = Q[j]
BY DEF Text

LEMMA Associates ==
  ASSUME NEW P \in Text, NEW Q \in Text, NEW R \in Text
  PROVE  (P \o Q) \o R = P \o (Q \o R)
BY ConcatAssociative DEF Text

Consists(T, P, Q) == T = P \o Q

(* From a place on, a text is rewritten as if it began there.               *)
LEMMA Shift ==
  ASSUME NEW rule, IsRule(rule), NEW P \in Text, NEW Q \in Text,
         NEW T, Consists(T, P, Q), NEW g, Rewrites(T, rule, g), NEW h, Rewrites(Q, rule, h),
         NEW i \in Reach(Q, rule.pattern)
  PROVE  g[Len(P) + i] = h[i]
<1>c. PICK c : c = Len(P) /\ c \in Nat
  BY DEF Text
<1>m. PICK m : m = Len(Q) /\ m \in Nat
  BY DEF Text
<1>0. c = Len(P) /\ m = Len(Q) /\ c \in Nat /\ m \in Nat
  BY <1>c, <1>m
<1>t. T \in Text /\ Len(T) = c + m /\ \A j \in 1..m : T[c + j] = Q[j]
  BY <1>0, Joins DEF Consists
<1>l. PICK L : L = Len(rule.pattern) /\ L \in Nat \ {0}
  BY DEF IsRule
<1>M. PICK M : M = m + L /\ M \in Nat
  BY <1>m, <1>l
<1>n. c \in Nat /\ m \in Nat /\ L \in Nat /\ L >= 1 /\ M = m + L /\ M \in Nat
  BY <1>c, <1>m, <1>l, <1>M
<1>a. (c + m) + L = c + M
  BY <1>n
<1>1. M = m + L /\ M \in Nat /\ Reach(Q, rule.pattern) = 1..M
       /\ Reach(T, rule.pattern) = 1..(c + M)
  BY <1>0, <1>t, <1>l, <1>a, <1>M DEF Reach
<1>2. PICK S : S = {j \in 1..M : g[c + j] = h[j]}
  OBVIOUS
<1>3. ASSUME NEW j \in 1..M, \A k \in 1..M : k > j => k \in S
      PROVE  j \in S
  <2>0. c + j \in 1..(c + M) /\ c + j \in Nat \ {0} /\ j \in Nat \ {0}
    BY <1>n
  <2>1. g[c + j] = Rewriting(T, rule, g, c + j) /\ h[j] = Rewriting(Q, rule, h, j)
    BY <1>1, <2>0, RewritesAt
  <2>2. CASE j > m
    <3>0. c + j > c + m
      BY <2>2, <1>n
    <3>1. g[c + j] = <<>>
      BY <2>1, <3>0, <1>t DEF Rewriting
    <3>2. h[j] = <<>>
      BY <2>1, <2>2, <1>m DEF Rewriting
    <3> QED
      BY <3>1, <3>2, <1>2
  <2>3. CASE j <= m
    <3>0. PICK p : p = rule.pattern /\ p \in Text
      BY DEF IsRule
    <3>1. Matches(T, p, c + j) <=> Matches(Q, p, j)
      <4>1. /\ Matches(T, p, c + j) <=>
                 /\ c + j + L - 1 <= c + m
                 /\ \A k \in 1..L : T[c + j + k - 1] = p[k]
            /\ Matches(Q, p, j) <=> j + L - 1 <= m /\ \A k \in 1..L : Q[j + k - 1] = p[k]
        <5>1. Len(p) = L /\ Len(T) = c + m /\ Len(Q) = m
          BY <3>0, <1>l, <1>t, <1>m
        <5>2. T \in Seq(Chars) /\ Q \in Seq(Chars) /\ p \in Seq(Chars)
          BY <3>0, <1>t DEF Text
        <5>3. Matches(T, p, c + j) <=>
                 /\ c + j + Len(p) - 1 <= Len(T)
                 /\ \A k \in 1..Len(p) : T[c + j + k - 1] = p[k]
          <6>1. PICK n : n = c + j
            OBVIOUS
          <6>2. n \in Nat \ {0}
            BY <6>1, <2>0
          <6>3. Matches(T, p, n) <=>
                 /\ n + Len(p) - 1 <= Len(T)
                 /\ \A k \in 1..Len(p) : T[n + k - 1] = p[k]
            BY <5>2, <6>2, MatchesAt
          <6> QED
            BY <6>1, <6>3
        <5>4. Matches(Q, p, j) <=>
                 /\ j + Len(p) - 1 <= Len(Q)
                 /\ \A k \in 1..Len(p) : Q[j + k - 1] = p[k]
          BY <5>2, <2>0, MatchesAt
        <5> QED
          BY <5>1, <5>3, <5>4
      <4>2. ASSUME j + L - 1 <= m
            PROVE  \A k \in 1..L : T[c + j + k - 1] = Q[j + k - 1]
        <5>1. SUFFICES ASSUME NEW k \in 1..L
                       PROVE  T[c + j + k - 1] = Q[j + k - 1]
          OBVIOUS
        <5>2. PICK n : n = j + k - 1 /\ n \in 1..m /\ c + j + k - 1 = c + n
          BY <4>2, <1>n
        <5> QED
          BY <5>2, <1>t
      <4>3. c + j + L - 1 <= c + m <=> j + L - 1 <= m
        BY <1>n
      <4> QED
        BY <4>1, <4>2, <4>3
    <3>2. T[c + j] = Q[j]
      BY <2>3, <1>t, <1>1, <1>0
    <3>3. j + L \in S /\ j + 1 \in S
      BY <2>3, <1>0, <1>l, <1>1, <1>3
    <3>4. g[c + j + L] = h[j + L] /\ g[c + j + 1] = h[j + 1]
      <4>1. c + (j + L) = c + j + L /\ c + (j + 1) = c + j + 1
        BY <1>n
      <4> QED
        BY <4>1, <3>3, <1>2
    <3>5. ~(c + j > Len(T)) /\ ~(j > Len(Q))
      BY <2>3, <1>0, <1>t, <1>1
    <3> QED
      BY <2>1, <3>0, <3>1, <3>2, <3>4, <3>5, <1>l, <1>2 DEF Rewriting
  <2> QED
    BY <2>2, <2>3, <1>0, <1>1
<1>4. \A j \in 1..M : j \in S
  BY <1>1, <1>3, Downward
<1> QED
  BY <1>0, <1>1, <1>2, <1>4

-----------------------------------------------------------------------------
(* Two texts put together, and the matches that lie on one side.            *)

(* A match is a matter of the characters it is made of.                     *)
LEMMA Inside ==
  ASSUME NEW U \in Text, NEW V \in Text, NEW p \in Text, NEW n \in Nat,
         n <= Len(U), n <= Len(V), \A k \in 1..n : U[k] = V[k],
         NEW j \in Nat \ {0}, j + Len(p) - 1 <= n
  PROVE  Matches(U, p, j) <=> Matches(V, p, j)
<1>1. U \in Seq(Chars) /\ V \in Seq(Chars) /\ p \in Seq(Chars)
  BY DEF Text
<1>2. PICK L : L = Len(p) /\ L \in Nat
  BY <1>1
<1>3. Len(U) \in Nat /\ Len(V) \in Nat
  BY <1>1
<1>4. j + L - 1 <= Len(U) /\ j + L - 1 <= Len(V)
  BY <1>2, <1>3
<1>5. Matches(U, p, j) <=> \A k \in 1..L : U[j + k - 1] = p[k]
  BY <1>1, <1>2, <1>4, MatchesAt
<1>6. Matches(V, p, j) <=> \A k \in 1..L : V[j + k - 1] = p[k]
  BY <1>1, <1>2, <1>4, MatchesAt
<1>7. ASSUME NEW k \in 1..L
      PROVE  U[j + k - 1] = V[j + k - 1]
  <2>1. j + k - 1 \in 1..n
    <3>1. L \in Nat /\ j + L - 1 <= n
      BY <1>2
    <3> QED
      BY <3>1
  <2> QED
    BY <2>1
<1> QED
  BY <1>5, <1>6, <1>7

LEMMA Outside ==
  ASSUME NEW U \in Text, NEW p \in Text, NEW j \in Nat \ {0}, j + Len(p) - 1 > Len(U)
  PROVE  ~Matches(U, p, j)
<1>1. U \in Seq(Chars) /\ p \in Seq(Chars)
  BY DEF Text
<1>2. Len(U) \in Nat /\ Len(p) \in Nat
  BY <1>1
<1>3. ~(j + Len(p) - 1 <= Len(U))
  BY <1>2
<1> QED
  BY <1>1, <1>3, MatchesAt

Straddles(s, c, L) == s <= c /\ s + L - 1 > c

Clear(S, c, L)   == \A s \in S : ~Straddles(s, c, L)
Agree(U, V, n)   == Len(U) >= n /\ \A k \in 1..n : U[k] = V[k]

Joinable(rule, text, T, P, c, f, g, h) ==
  /\ IsRule(rule) /\ text \in Text /\ T \in Text /\ P \in Text
  /\ c \in Nat /\ Len(P) = c /\ Agree(P, text, c) /\ Agree(T, text, Len(text))
  /\ c = 0 \/ c + Len(rule.pattern) <= Len(text)
  /\ Looks(text, rule.pattern, f) /\ Rewrites(T, rule, g) /\ Rewrites(P, rule, h)
JoinsAt(g, h, c, i) == g[i] = h[i] \o g[c + 1]

(* Up to a place no match straddles, a text is rewritten as if it ended     *)
(* there.                                                                   *)
LEMMA Joining ==
  ASSUME NEW rule, NEW text, NEW T, NEW P, NEW c, NEW f, NEW g, NEW h,
         Joinable(rule, text, T, P, c, f, g, h),
         NEW i \in 1..(c + 1), Clear(f[i], c, Len(rule.pattern))
  PROVE  JoinsAt(g, h, c, i)
<1>m. PICK m : m = Len(text) /\ m \in Nat
  BY DEF Joinable, Text
<1>j. /\ IsRule(rule) /\ text \in Text /\ T \in Text /\ P \in Text
      /\ c \in Nat /\ Len(P) = c /\ Agree(P, text, c) /\ Agree(T, text, m)
      /\ c = 0 \/ c + Len(rule.pattern) <= m
      /\ Looks(text, rule.pattern, f) /\ Rewrites(T, rule, g) /\ Rewrites(P, rule, h)
  BY <1>m DEF Joinable
<1> USE <1>m, <1>j
<1>p. PICK p : p = rule.pattern /\ p \in Text
  BY DEF IsRule
<1>l. PICK L : L = Len(p) /\ L = Len(rule.pattern) /\ L \in Nat /\ L >= 1
  BY <1>p DEF IsRule
<1>a. /\ \A k \in 1..c : P[k] = text[k]
      /\ Len(T) >= m /\ \A k \in 1..m : T[k] = text[k]
  BY DEF Agree
<1>t. PICK t : t = Len(T) /\ t \in Nat /\ t >= m
  BY <1>a DEF Text
<1>1. c \in Nat /\ m \in Nat /\ L \in Nat /\ L >= 1 /\ (c = 0 \/ c + L <= m)
      /\ t \in Nat /\ t >= m
  BY <1>l, <1>t
<1>2. Reach(text, p) = 1..(m + L) /\ Reach(P, p) = 1..(c + L) /\ Reach(T, p) = 1..(t + L)
  BY <1>l, <1>t DEF Reach
<1>3. g[c + 1] \in Text
  <2>1. c + 1 \in 1..(t + L)
    BY <1>1
  <2> QED
    BY <1>2, <1>p, <2>1, RewritesType
<1>4. PICK S : S = {j \in 1..(c + 1) : Clear(f[j], c, L) => g[j] = h[j] \o g[c + 1]}
  OBVIOUS
<1>5. ASSUME NEW j \in 1..(c + 1), \A k \in 1..(c + 1) : k > j => k \in S
      PROVE  j \in S
  <2>0. j \in 1..(c + L) /\ j \in 1..(t + L) /\ j \in Nat \ {0}
    BY <1>1
  <2>h. h[j] = Rewriting(P, rule, h, j) /\ g[j] = Rewriting(T, rule, g, j)
    <3>1. j \in Reach(P, rule.pattern) /\ j \in Reach(T, rule.pattern)
      BY <1>2, <1>p, <2>0
    <3> QED
      BY <3>1, RewritesAt
  <2>1. CASE j = c + 1
    <3>1. h[j] = <<>>
      <4>1. j > Len(P)
        BY <2>1
      <4> QED
        BY <4>1, <2>h DEF Rewriting
    <3>2. <<>> \o g[c + 1] = g[c + 1]
      BY <1>3 DEF Text
    <3> QED
      BY <1>4, <2>1, <3>1, <3>2
  <2>2. CASE j <= c
    <3> SUFFICES ASSUME Clear(f[j], c, L)
                 PROVE  g[j] = h[j] \o g[c + 1]
      BY <1>4
    <3>0. j + L <= m /\ j <= t /\ j <= m /\ j \in 1..(m + L)
      BY <2>2, <1>1
    <3>f. f[j] = Looking(text, p, f, j)
      <4>1. j \in Reach(text, p) /\ Looks(text, p, f)
        BY <1>2, <1>p, <3>0
      <4> QED
        BY <4>1, LooksAt
    <3>1. Matches(T, p, j) <=> Matches(text, p, j)
      <4>1. j + Len(p) - 1 <= m
        <5>1. j + L - 1 <= m
          BY <3>0, <2>0, <1>1
        <5> QED
          BY <5>1, <1>l
      <4>2. m <= Len(T) /\ m <= Len(text) /\ \A k \in 1..m : T[k] = text[k]
        BY <1>t, <1>a
      <4> QED
        BY <4>1, <4>2, <1>p, <2>0, Inside
    <3>2. T[j] = text[j] /\ P[j] = text[j]
      BY <3>0, <2>2, <1>a
    <3>3. CASE Matches(text, p, j)
      <4>1. f[j] = {j} \union f[j + L]
        BY <3>f, <3>0, <3>3, <1>l DEF Looking
      <4>2. j + L <= c + 1
        <5>1. ~Straddles(j, c, L)
          BY <4>1 DEF Clear
        <5> QED
          BY <5>1, <2>2, <1>1 DEF Straddles
      <4>3. Matches(P, p, j)
        <5>1. j + Len(p) - 1 <= c
          BY <4>2, <1>l
        <5>2. c <= m
          BY <1>1
        <5>3. \A k \in 1..c : P[k] = text[k]
          BY <1>a
        <5>4. P \in Text /\ text \in Text /\ c <= Len(P) /\ c <= Len(text)
          BY <5>2
        <5> QED
          BY <5>1, <5>3, <5>4, <3>3, <1>p, <2>0, Inside, Zenon
      <4>4. j + L \in S /\ Clear(f[j + L], c, L)
        <5>1. j + L \in 1..(c + 1) /\ j + L > j
          BY <4>2, <1>1
        <5> QED
          BY <5>1, <4>1, <1>5 DEF Clear
      <4>5. g[j + L] = h[j + L] \o g[c + 1]
        BY <4>4, <1>4
      <4>6. g[j] = rule.replacement \o g[j + L] /\ h[j] = rule.replacement \o h[j + L]
        <5>1. ~(j > Len(T)) /\ ~(j > Len(P))
          BY <3>0, <2>2, <1>t
        <5> QED
          BY <5>1, <2>h, <4>3, <3>1, <3>3, <1>p, <1>l DEF Rewriting
      <4>7. rule.replacement \in Text
        BY DEF IsRule
      <4>8. h[j + L] \in Text
        <5>1. j + L \in 1..(c + L)
          BY <4>2, <1>1
        <5> QED
          BY <5>1, <1>2, <1>p, RewritesType
      <4>9. PICK x, y : x = h[j + L] /\ y = g[c + 1]
        OBVIOUS
      <4>10. (rule.replacement \o x) \o y = rule.replacement \o (x \o y)
        BY <4>7, <4>8, <4>9, <1>3, Associates
      <4> QED
        BY <4>5, <4>6, <4>9, <4>10
    <3>4. CASE ~Matches(text, p, j)
      <4>1. f[j] = f[j + 1]
        BY <3>f, <3>0, <3>4 DEF Looking
      <4>3. ~Matches(P, p, j)
        <5>1. CASE j + L - 1 <= c
          <6>2. j + Len(p) - 1 <= c /\ c <= m
            BY <5>1, <1>l, <1>1
          <6>3. \A k \in 1..c : P[k] = text[k]
            BY <1>a
          <6>4. P \in Text /\ text \in Text /\ c <= Len(P) /\ c <= Len(text)
            BY <6>2
          <6> QED
            BY <6>2, <6>3, <6>4, <3>4, <1>p, <2>0, Inside, Zenon
        <5>2. CASE j + L - 1 > c
          <6>1. j + Len(p) - 1 > Len(P)
            BY <5>2, <1>l
          <6> QED
            BY <6>1, <1>p, <2>0, Outside
        <5> QED
          BY <5>1, <5>2, <1>1, <2>0
      <4>4. j + 1 \in S /\ Clear(f[j + 1], c, L)
        <5>1. j + 1 \in 1..(c + 1) /\ j + 1 > j
          BY <2>2, <1>1
        <5> QED
          BY <5>1, <4>1, <1>5 DEF Clear
      <4>5. g[j + 1] = h[j + 1] \o g[c + 1]
        BY <4>4, <1>4
      <4>6. g[j] = <<text[j]>> \o g[j + 1] /\ h[j] = <<text[j]>> \o h[j + 1]
        <5>1. ~(j > Len(T)) /\ ~(j > Len(P))
          BY <3>0, <2>2, <1>t
        <5> QED
          BY <5>1, <2>h, <4>3, <3>1, <3>2, <3>4, <1>p DEF Rewriting
      <4>7. <<text[j]>> \in Text
        BY <3>0 DEF Text
      <4>8. h[j + 1] \in Text
        <5>1. j + 1 \in 1..(c + L)
          BY <2>2, <1>1
        <5> QED
          BY <5>1, <1>2, <1>p, RewritesType
      <4>9. PICK w, x, y : w = <<text[j]>> /\ x = h[j + 1] /\ y = g[c + 1]
        OBVIOUS
      <4>10. (w \o x) \o y = w \o (x \o y)
        BY <4>7, <4>8, <4>9, <1>3, Associates
      <4> QED
        BY <4>5, <4>6, <4>9, <4>10
    <3> QED
      BY <3>3, <3>4
  <2> QED
    BY <2>1, <2>2, <1>1
<1>6. \A j \in 1..(c + 1) : j \in S
  <2>1. c + 1 \in Nat
    OBVIOUS
  <2> QED
    BY <2>1, <1>5, Downward
<1>7. Clear(f[i], c, L)
  BY <1>l
<1> QED
  BY <1>4, <1>6, <1>7 DEF JoinsAt

-----------------------------------------------------------------------------
(* Where a text is cut behind the matches of a rule, the rule composes.     *)

LEMMA StartsInside ==
  ASSUME NEW text \in Text, NEW p \in Text, p # <<>>
  PROVE  Starts(text, p) \subseteq 1..Len(text) /\ Apart(text, p, Starts(text, p))
<1>1. PICK h : Looks(text, p, h) /\ Starts(text, p) = h[1]
  BY StartsLooks
<1>l. PICK L : L = Len(p) /\ L \in Nat /\ L >= 1
  BY DEF Text
<1>m. PICK m : m = Len(text) /\ m \in Nat
  BY DEF Text
<1>2. 1 \in Reach(text, p)
  <2>1. Reach(text, p) = 1..(m + L)
    BY <1>l, <1>m DEF Reach
  <2>2. m \in Nat /\ L \in Nat /\ L >= 1
    BY <1>l, <1>m
  <2> QED
    BY <2>1, <2>2
<1> QED
  BY <1>1, <1>2, LooksApart

(* Pulled back, the cut lies in no match.                                   *)
LEMMA BehindIsClear ==
  ASSUME NEW text \in Text, NEW p \in Text, p # <<>>, NEW b \in Nat,
         NEW c, c = Behind(text, b, p)
  PROVE  c \in 0..b /\ Clear(Starts(text, p), c, Len(p))
<1>l. PICK L : L = Len(p) /\ L \in Nat /\ L >= 1
  BY DEF Text
<1>m. PICK m : m = Len(text) /\ m \in Nat
  BY DEF Text
<1>3. PICK S : S = Starts(text, p)
  OBVIOUS
<1>4. S \subseteq 1..m /\ \A s, t \in S : s < t => s + L <= t
  BY <1>3, <1>l, <1>m, StartsInside DEF Apart
<1>5. PICK R : R = {i \in S : i <= b /\ i + L - 1 > b}
  OBVIOUS
<1>6. c = IF R = {} THEN b ELSE Min(R) - 1
  BY <1>3, <1>5, <1>l DEF Behind
<1>7. L \in Nat /\ L >= 1 /\ m \in Nat
  BY <1>l, <1>m
<1>8. CASE R = {}
  BY <1>3, <1>4, <1>5, <1>6, <1>7, <1>8, <1>l DEF Clear, Straddles
<1>9. CASE R # {}
  <2>0. R \subseteq 1..m
    BY <1>4, <1>5
  <2>1. R \in SUBSET Nat
    BY <2>0, <1>7
  <2>2. PICK a : a = Min(R)
    OBVIOUS
  <2>3. a \in R /\ \A s \in R : a <= s
    BY <2>1, <2>2, <1>9, Naturally!MinIsLeast DEF Min, Naturally!Min
  <2>4. a \in S /\ a \in 1..m /\ a <= b /\ a + L - 1 > b
    BY <2>3, <1>4, <1>5
  <2>5. c = a - 1
    BY <1>6, <1>9, <2>2
  <2>6. c \in 0..b
    BY <2>4, <2>5, <1>7
  <2>7. ASSUME NEW s \in S, Straddles(s, c, L)
        PROVE  FALSE
    <3>1. s \in 1..m /\ s <= a - 1 /\ s + L - 1 > a - 1
      BY <2>5, <2>7, <1>4 DEF Straddles
    <3>2. s < a
      BY <3>1, <2>4, <1>7
    <3>3. s + L <= a
      BY <3>2, <2>4, <1>4
    <3> QED
      BY <3>1, <3>3, <2>4, <1>7
  <2> QED
    BY <2>6, <2>7, <1>3, <1>l DEF Clear
<1> QED
  BY <1>8, <1>9

(* A text cut there is rewritten as its parts are, whatever comes after it. *)
LEMMA CutOfRule ==
  ASSUME NEW text \in Text, NEW more \in Text, NEW rule, IsRule(rule),
         NEW c \in 0..Len(text), c = 0 \/ c + Len(rule.pattern) <= Len(text),
         Clear(Starts(text, rule.pattern), c, Len(rule.pattern))
  PROVE  Replace(text \o more, rule)
           = Replace(SubSeq(text, 1, c), rule)
               \o Replace(SubSeq(text, c + 1, Len(text)) \o more, rule)
<1>0. PICK p : p = rule.pattern /\ p \in Text
  BY DEF IsRule
<1>l. PICK L : L = Len(p) /\ L = Len(rule.pattern) /\ L \in Nat /\ L >= 1 /\ p # <<>>
  BY <1>0 DEF IsRule
<1>m. PICK m : m = Len(text) /\ m \in Nat
  BY DEF Text
<1>c. c \in Nat /\ c <= m /\ L \in Nat /\ L >= 1 /\ m \in Nat
  BY <1>m, <1>l
<1>1. PICK P : P = SubSeq(text, 1, c)
  OBVIOUS
<1>2. PICK R : R = SubSeq(text, c + 1, m)
  OBVIOUS
<1>3. /\ P \in Text /\ Len(P) = c /\ \A k \in 1..c : P[k] = text[k]
      /\ R \in Text /\ text = P \o R
  <2>1. c \in 0..m
    BY <1>m
  <2> QED
    BY <2>1, <1>1, <1>2, <1>m, TextParts, Zenon
<1>4. R \in Text /\ text = P \o R
  BY <1>3
<1>5. PICK Q : Q = R \o more
  OBVIOUS
<1>6. PICK T : T = text \o more
  OBVIOUS
<1>7. Q \in Text /\ T \in Text
  BY <1>4, <1>5, <1>6, Joins
<1>8. T = P \o Q
  BY <1>3, <1>4, <1>5, <1>6, Associates
<1>9. Len(T) >= m /\ \A k \in 1..m : T[k] = text[k]
  <2>1. PICK n : n = Len(more) /\ n \in Nat
    BY DEF Text
  <2>2. Len(T) = m + n
    BY <2>1, <1>6, <1>m, Joins
  <2>3. m + n >= m
    BY <2>1, <1>c
  <2> QED
    BY <2>2, <2>3, <1>6, <1>m, Joins
<1>10. PICK f : Looks(text, p, f) /\ Starts(text, p) = f[1]
  BY <1>l, <1>0, StartsLooks
<1>11. PICK g : Rewrites(T, rule, g) /\ Replace(T, rule) = g[1]
  BY <1>7, ReplaceRewrites
<1>12. PICK h : Rewrites(P, rule, h) /\ Replace(P, rule) = h[1]
  BY <1>3, ReplaceRewrites
<1>13. PICK q : Rewrites(Q, rule, q) /\ Replace(Q, rule) = q[1]
  BY <1>7, ReplaceRewrites
<1>14. g[1] = h[1] \o g[c + 1]
  <2>1. 1 \in 1..(c + 1)
    BY <1>c
  <2>2. Looks(text, rule.pattern, f) /\ Clear(f[1], c, Len(rule.pattern))
    BY <1>10, <1>0
  <2>3. Agree(T, text, Len(text)) /\ Agree(P, text, c)
    <3>1. Agree(T, text, Len(text))
      BY <1>9, <1>m DEF Agree
    <3>2. c >= c
      BY <1>c
    <3> QED
      BY <1>3, <3>1, <3>2 DEF Agree
  <2>4. Joinable(rule, text, T, P, c, f, g, h)
    BY <2>2, <2>3, <1>3, <1>7, <1>11, <1>12, <1>c DEF Joinable
  <2> QED
    <3>1. JoinsAt(g, h, c, 1)
      BY <2>1, <2>2, <2>4, Joining
    <3> QED
      BY <3>1 DEF JoinsAt
<1>15. g[c + 1] = q[1]
  <2>1. 1 \in Reach(Q, rule.pattern)
    <3>1. PICK n : n = Len(Q) /\ n \in Nat
      BY <1>7 DEF Text
    <3>2. Reach(Q, rule.pattern) = 1..(n + L)
      BY <3>1, <1>l DEF Reach
    <3> QED
      BY <3>1, <3>2, <1>c
  <2>2. Consists(T, P, Q)
    BY <1>8 DEF Consists
  <2>3. g[Len(P) + 1] = q[1]
    BY <2>1, <2>2, <1>3, <1>7, <1>11, <1>13, Shift
  <2> QED
    BY <2>3, <1>3
<1> QED
  BY <1>1, <1>2, <1>5, <1>6, <1>11, <1>12, <1>13, <1>14, <1>15, <1>m

-----------------------------------------------------------------------------
(* What the theorems ask of the rules: a text that is rewritten in two      *)
(* parts, parted where the rewriter cuts it, is rewritten as one.           *)
CutsCompose ==
  \A text, more \in Text :
    /\ Cut(text) \in 0..Len(text)
    /\ Apply(text \o more) = Apply(SubSeq(text, 1, Cut(text)))
                               \o Apply(SubSeq(text, Cut(text) + 1, Len(text)) \o more)

Applied == INSTANCE FoldFacts WITH Op <- Replace

LEMMA ApplyFolds == \A text : Apply(text) = Applied!Fold(text, Rules)
BY DEF Apply, Applied!Fold, FoldLeft, Applied!FoldLeft, MapThenFoldSet, Applied!MapThenFoldSet,
       Max, Applied!Max

RuleRecord == [pattern : Text, replacement : Text]

LEMMA RulesAreRules == Rules \in Seq(RuleRecord) /\ \A i \in DOMAIN Rules : IsRule(Rules[i])
<1>1. Rules \in Seq(RuleRecord)
  BY StreamAssumption DEF RuleRecord, Text
<1>2. ASSUME NEW i \in DOMAIN Rules
      PROVE  IsRule(Rules[i])
  <2>1. Rules[i] \in RuleRecord
    BY <1>1, <1>2
  <2>2. Len(Rules[i].pattern) \in 1..Lookbehind /\ Lookbehind \in Nat
    BY StreamAssumption
  <2> QED
    BY <2>1, <2>2 DEF IsRule, RuleRecord
<1> QED
  BY <1>1, <1>2

LEMMA ApplyOne ==
  ASSUME Len(Rules) = 1, NEW text
  PROVE  Apply(text) = Replace(text, Rules[1])
<1>0. PICK none, rule : none = <<>> /\ rule = Rules[1]
  OBVIOUS
<1>1. none \in Seq(RuleRecord) /\ rule \in RuleRecord /\ Rules = Append(none, rule)
  BY <1>0, RulesAreRules
<1>2. Applied!Fold(text, Append(none, rule)) = Replace(Applied!Fold(text, none), rule)
  BY <1>1, Applied!FoldOneMore
<1> QED
  BY <1>0, <1>1, <1>2, ApplyFolds, Applied!FoldNothing

LEMMA ApplyNone ==
  ASSUME Rules = <<>>, NEW text
  PROVE  Apply(text) = text
BY ApplyFolds, Applied!FoldNothing

-----------------------------------------------------------------------------
(* safe_cut, of one rule.                                                   *)
Pull(text, cut, rule) == IF cut = 0 THEN 0 ELSE Behind(text, cut, rule.pattern)
Uncut(text)           == Max({0, Len(text) - Lookbehind})
Pulls(text, h) ==
  h = [s \in SUBSET DOMAIN Rules |->
         IF s = {} THEN Uncut(text) ELSE Pull(text, h[s \ {Max(s)}], Rules[Max(s)])]

LEMMA SafeCutOne ==
  ASSUME Len(Rules) = 1, NEW text
  PROVE  SafeCut(text) = Pull(text, Uncut(text), Rules[1])
<1>0. DOMAIN Rules = {1}
  BY RulesAreRules
<1>1. SafeCut(text) = (CHOOSE h : Pulls(text, h))[DOMAIN Rules]
  BY DEF SafeCut, FoldLeft, MapThenFoldSet, Pulls, Pull, Uncut
<1>2. Max({1}) = 1
  BY DEF Max
<1>3. PICK a, b : a = Uncut(text) /\ b = Pull(text, Uncut(text), Rules[1])
  OBVIOUS
<1>4. PICK g : g = [s \in SUBSET {1} |-> IF s = {} THEN a ELSE b]
  OBVIOUS
<1>5. \A s \in SUBSET {1} : s = {} \/ s = {1}
  OBVIOUS
<1>6. g[{}] = a /\ g[{1}] = b /\ {1} \ {1} = {} /\ {} \in SUBSET {1} /\ {1} \in SUBSET {1}
  BY <1>4
<1>7. \A s \in SUBSET {1} : g[s] = IF s = {} THEN Uncut(text)
                                   ELSE Pull(text, g[s \ {Max(s)}], Rules[Max(s)])
  BY <1>2, <1>3, <1>5, <1>6
<1>8. Pulls(text, g)
  BY <1>0, <1>4, <1>7 DEF Pulls
<1>9. PICK h : Pulls(text, h) /\ SafeCut(text) = h[{1}]
  BY <1>0, <1>1, <1>8
<1>10. h[{}] = a
  BY <1>0, <1>3, <1>6, <1>9 DEF Pulls
<1>11. h[{1}] = Pull(text, h[{1} \ {Max({1})}], Rules[Max({1})])
  BY <1>0, <1>6, <1>9 DEF Pulls
<1> QED
  BY <1>2, <1>3, <1>6, <1>9, <1>10, <1>11

LEMMA UncutType ==
  ASSUME NEW text \in Text
  PROVE  /\ Uncut(text) \in Nat
         /\ Uncut(text) = 0 \/ Uncut(text) + Lookbehind <= Len(text)
<1>1. PICK m, n, a : m = Len(text) /\ n = Lookbehind /\ a = Uncut(text)
  OBVIOUS
<1>2. m \in Nat /\ n \in Nat
  BY <1>1, StreamAssumption DEF Text
<1>3. a = Max({0, m - n})
  BY <1>1 DEF Uncut
<1>4. \E x \in {0, m - n} : \A y \in {0, m - n} : x >= y
  BY <1>2
<1>5. a \in {0, m - n} /\ \A y \in {0, m - n} : a >= y
  BY <1>3, <1>4 DEF Max
<1> QED
  BY <1>1, <1>2, <1>5

(* safe_cut, of any number of rules: each one pulls every text's cut back.  *)
Pullers == INSTANCE FoldFacts WITH
  Op <- LAMBDA cuts, rule : [text \in Text |-> Pull(text, cuts[text], rule)]

LEMMA PullType ==
  ASSUME NEW text \in Text, NEW c \in 0..Len(text), NEW i \in DOMAIN Rules
  PROVE  Pull(text, c, Rules[i]) \in 0..Len(text)
<1>1. PICK p, m, d : p = Rules[i].pattern /\ m = Len(text) /\ d = Behind(text, c, p)
  OBVIOUS
<1>2. p \in Text /\ p # <<>> /\ m \in Nat /\ c \in Nat /\ c <= m
  BY <1>1, RulesAreRules DEF IsRule, Text
<1>3. d \in 0..c
  BY <1>1, <1>2, BehindIsClear
<1> QED
  BY <1>1, <1>2, <1>3 DEF Pull

LEMMA SafeCutInside ==
  ASSUME NEW text \in Text
  PROVE  SafeCut(text) \in 0..Len(text)
<1>0. PICK n : n = Len(Rules) /\ n \in Nat /\ DOMAIN Rules = 1..n
  BY RulesAreRules
<1>1. SafeCut(text) = (CHOOSE h : Pulls(text, h))[1..n]
  BY <1>0 DEF SafeCut, FoldLeft, MapThenFoldSet, Pulls, Pull, Uncut
<1>2. PICK base : base = [t \in Text |-> Uncut(t)]
  OBVIOUS
<1>3. PICK H : Pullers!Solves(base, Rules, H, n)
  BY <1>0, Pullers!SolutionExists
<1>4. PICK g : g = [s \in SUBSET (1..n) |-> H[s][text]]
  OBVIOUS
<1>5. ASSUME NEW s \in SUBSET (1..n)
      PROVE  g[s] = IF s = {} THEN Uncut(text) ELSE Pull(text, g[s \ {Max(s)}], Rules[Max(s)])
  <2>1. H[s] = IF s = {} THEN base
               ELSE [t \in Text |-> Pull(t, H[s \ {Max(s)}][t], Rules[Max(s)])]
    BY <1>3 DEF Pullers!Solves, Pullers!Step, Pullers!Max, Max
  <2>2. s \ {Max(s)} \in SUBSET (1..n)
    OBVIOUS
  <2> QED
    BY <1>2, <1>4, <2>1, <2>2
<1>6. Pulls(text, g)
  BY <1>0, <1>4, <1>5 DEF Pulls
<1>7. PICK h : Pulls(text, h) /\ SafeCut(text) = h[1..n]
  BY <1>1, <1>6
<1>8. PICK m : m = Len(text) /\ m \in Nat
  BY DEF Text
<1>9. PICK K : K = {k \in Nat : k <= n => h[1..k] \in 0..m}
  OBVIOUS
<1>10. 0 \in K
  <2>1. 1..0 = {} /\ {} \in SUBSET (1..n)
    OBVIOUS
  <2>2. h[{}] = Uncut(text)
    BY <1>0, <1>7, <2>1 DEF Pulls
  <2>3. Uncut(text) \in 0..m
    <3>1. PICK u, w : u = Uncut(text) /\ w = Lookbehind
      OBVIOUS
    <3>2. u \in Nat /\ w \in Nat /\ (u = 0 \/ u + w <= m)
      BY <1>8, <3>1, UncutType, StreamAssumption
    <3>3. u \in 0..m
      BY ONLY <1>8, <3>2
    <3> QED
      BY <3>1, <3>3
  <2> QED
    BY <1>9, <2>1, <2>2, <2>3
<1>11. ASSUME NEW k \in K
       PROVE  k + 1 \in K
  <2>0. k \in Nat
    BY <1>9
  <2>1. CASE k + 1 <= n
    <3>1. 1..(k + 1) \in SUBSET (1..n) /\ k + 1 \in DOMAIN Rules /\ k <= n
      BY <1>0, <2>0, <2>1
    <3>2. Max(1..(k + 1)) = k + 1 /\ (1..(k + 1)) \ {k + 1} = 1..k /\ 1..(k + 1) # {}
      BY <2>0, Pullers!TopOfInterval DEF Max, Pullers!Max
    <3>3. h[1..(k + 1)] = Pull(text, h[1..k], Rules[k + 1])
      BY <1>0, <1>7, <3>1, <3>2 DEF Pulls
    <3>4. h[1..k] \in 0..m
      BY <1>9, <3>1
    <3> QED
      BY <1>8, <1>9, <2>0, <3>1, <3>3, <3>4, PullType
  <2>2. CASE ~(k + 1 <= n)
    BY <1>9, <2>0, <2>2
  <2> QED
    BY <2>1, <2>2
<1>12. K = Nat
  BY <1>9, <1>10, <1>11, Pullers!AllOfNat
<1> QED
  BY <1>0, <1>7, <1>8, <1>9, <1>12

(* Any rules are cut inside the text.                                       *)
LEMMA CutInside ==
  ASSUME NEW text \in Text
  PROVE  Cut(text) \in 0..Len(text)
<1>1. Len(text) \in Nat
  BY DEF Text
<1> QED
  BY <1>1, SafeCutInside DEF Cut

(* One rule is cut where it composes, and so is none.                       *)
LEMMA FewRulesCompose == Len(Rules) <= 1 => CutsCompose
<1>0. Len(Rules) \in Nat
  BY RulesAreRules
<1>1. CASE Len(Rules) = 0
  <2>1. Rules = <<>>
    BY <1>1, RulesAreRules
  <2>2. ASSUME NEW text \in Text, NEW more \in Text
        PROVE  /\ Cut(text) \in 0..Len(text)
               /\ Apply(text \o more)
                    = Apply(SubSeq(text, 1, Cut(text)))
                        \o Apply(SubSeq(text, Cut(text) + 1, Len(text)) \o more)
    <3>1. PICK m : m = Len(text) /\ m \in Nat
      BY DEF Text
    <3>2. Cut(text) = m /\ m \in 0..m
      BY <2>1, <3>1 DEF Cut
    <3>3. SubSeq(text, 1, m) = text /\ SubSeq(text, m + 1, m) \o more = more
      <4>1. text \in Seq(Chars) /\ more \in Seq(Chars)
        BY DEF Text
      <4>2. SubSeq(text, m + 1, m) = <<>>
        BY <3>1
      <4> QED
        BY <4>1, <4>2, <3>1
    <3> QED
      BY <3>1, <3>2, <3>3, <2>1, ApplyNone
  <2> QED
    BY <2>2 DEF CutsCompose
<1>2. CASE Len(Rules) = 1
  <2>0. PICK rule, p, L : rule = Rules[1] /\ p = rule.pattern /\ L = Len(p)
    OBVIOUS
  <2>1. IsRule(rule) /\ L \in 1..Lookbehind /\ Rules # <<>>
    <3>1. 1 \in DOMAIN Rules
      BY <1>2, RulesAreRules
    <3> QED
      <4>1. IsRule(Rules[1]) /\ Len(Rules[1].pattern) \in 1..Lookbehind
        BY <3>1, RulesAreRules, StreamAssumption
      <4>2. Rules # <<>>
        BY <1>2
      <4> QED
        BY <2>0, <4>1, <4>2
  <2>2. p \in Text /\ p # <<>> /\ L \in Nat /\ Lookbehind \in Nat /\ L <= Lookbehind
    BY <2>0, <2>1, StreamAssumption DEF IsRule
  <2>3. ASSUME NEW text \in Text, NEW more \in Text
        PROVE  /\ Cut(text) \in 0..Len(text)
               /\ Apply(text \o more)
                    = Apply(SubSeq(text, 1, Cut(text)))
                        \o Apply(SubSeq(text, Cut(text) + 1, Len(text)) \o more)
    <3>1. PICK c, b, m : c = Cut(text) /\ b = Uncut(text) /\ m = Len(text)
      OBVIOUS
    <3>2. m \in Nat /\ b \in Nat /\ (b = 0 \/ b + Lookbehind <= m)
      BY <3>1, UncutType DEF Text
    <3>3. c = IF b = 0 THEN 0 ELSE Behind(text, b, p)
      BY <3>1, <2>0, <2>1, <1>2, SafeCutOne DEF Cut, Pull
    <3>4. PICK S : S = Starts(text, p)
      OBVIOUS
    <3>5. c \in 0..b /\ Clear(S, c, L)
      <4>1. CASE b = 0
        <5>1. S \subseteq 1..m
          BY <2>2, <3>1, <3>4, StartsInside
        <5> QED
          BY <3>3, <4>1, <5>1, <3>2 DEF Clear, Straddles
      <4>2. CASE b # 0
        BY <3>3, <3>4, <4>2, <3>2, <2>0, <2>2, BehindIsClear
      <4> QED
        BY <4>1, <4>2
    <3>6. c \in 0..m /\ (c = 0 \/ c + L <= m)
      BY <3>2, <3>5, <2>2
    <3>7. Replace(text \o more, rule)
            = Replace(SubSeq(text, 1, c), rule)
                \o Replace(SubSeq(text, c + 1, Len(text)) \o more, rule)
      BY <3>1, <3>4, <3>5, <3>6, <2>0, <2>1, CutOfRule
    <3>8. \A any : Apply(any) = Replace(any, rule)
      BY <2>0, <1>2, ApplyOne
    <3>9. Apply(text \o more)
            = Apply(SubSeq(text, 1, c)) \o Apply(SubSeq(text, c + 1, Len(text)) \o more)
      BY <3>7, <3>8
    <3> QED
      BY <3>1, <3>6, <3>9
  <2> QED
    BY <2>3 DEF CutsCompose
<1>3. ASSUME NEW n \in Nat, n <= 1
      PROVE  n = 0 \/ n = 1
  BY <1>3
<1> QED
  BY <1>0, <1>1, <1>2, <1>3

(* What is rewritten is a text.                                             *)
LEMMA ApplyType == \A text \in Text : Apply(text) \in Text
<1>1. PICK R : R = {rule \in RuleRecord : IsRule(rule)}
  OBVIOUS
<1>2. Rules \in Seq(R)
  <2>1. Rules \in Seq(RuleRecord)
    BY RulesAreRules
  <2>2. \A i \in 1..Len(Rules) : Rules[i] \in R
    <3>1. ASSUME NEW i \in 1..Len(Rules)
          PROVE  Rules[i] \in R
      <4>1. i \in DOMAIN Rules /\ Rules[i] \in RuleRecord
        BY <2>1
      <4>2. IsRule(Rules[i])
        BY <4>1, RulesAreRules
      <4> QED
        BY <4>1, <4>2, <1>1
    <3> QED
      BY <3>1
  <2> QED
    BY <2>1, <2>2
<1>3. \A t \in Text, x \in R : Replace(t, x) \in Text
  BY <1>1, ReplaceType
<1> QED
  BY <1>2, <1>3, ApplyFolds, Applied!FoldKeeps

-----------------------------------------------------------------------------
(* What frames say, put together.                                           *)
Told == INSTANCE FoldFacts WITH Op <- LAMBDA t, f : t \o f.content

LEMMA TextsFolds == \A s : Texts(s) = Told!Fold(<<>>, s)
BY DEF Texts, Told!Fold, FoldLeft, Told!FoldLeft, MapThenFoldSet, Told!MapThenFoldSet,
       Max, Told!Max

LEMMA TextsOfNone == Texts(<<>>) = <<>>
BY TextsFolds, Told!FoldNothing

Telling(S) == \A x \in S : x.content \in Text

LEMMA TextsMore ==
  ASSUME NEW S, NEW s \in Seq(S), NEW x \in S
  PROVE  Texts(Append(s, x)) = Texts(s) \o x.content
<1>1. Told!Fold(<<>>, Append(s, x)) = Told!Fold(<<>>, s) \o x.content
  BY Told!FoldOneMore
<1> QED
  BY <1>1, TextsFolds

LEMMA TextsType ==
  ASSUME NEW S, Telling(S), NEW s \in Seq(S)
  PROVE  Texts(s) \in Text
<1>1. \A t \in Text, x \in S : t \o x.content \in Text
  BY Joins DEF Telling
<1>2. <<>> \in Text
  BY DEF Text
<1> QED
  BY <1>1, <1>2, TextsFolds, Told!FoldKeeps

-----------------------------------------------------------------------------
(* A text that is rewritten piece by piece, none left out, none twice and   *)
(* each in its turn.                                                        *)
Flat   == INSTANCE FoldFacts WITH Op <- LAMBDA w, p : w \o p
Remade == INSTANCE FoldFacts WITH Op <- LAMBDA t, p : t \o Apply(p)

Joined(pieces)    == Flat!Fold(<<>>, pieces)
Rewritten(pieces) == Remade!Fold(<<>>, pieces)
InPieces(text, out) ==
  \E pieces \in Seq(Text) : Joined(pieces) = text /\ Rewritten(pieces) = out

LEMMA FlatMore ==
  ASSUME NEW S, NEW s \in Seq(S), NEW x \in S
  PROVE  Flat!Fold(<<>>, Append(s, x)) = Flat!Fold(<<>>, s) \o x
BY Flat!FoldOneMore

LEMMA RemadeMore ==
  ASSUME NEW S, NEW s \in Seq(S), NEW x \in S
  PROVE  Remade!Fold(<<>>, Append(s, x)) = Remade!Fold(<<>>, s) \o Apply(x)
BY Remade!FoldOneMore

LEMMA NoPieces == InPieces(<<>>, <<>>)
<1>0. <<>> \in Seq(Text)
  OBVIOUS
<1>1. PICK none : none = <<>> /\ none \in Seq(Text)
  BY <1>0, Zenon
<1>2. Joined(none) = <<>> /\ Rewritten(none) = <<>>
  BY <1>1, Flat!FoldNothing, Remade!FoldNothing DEF Joined, Rewritten
<1> QED
  BY <1>1, <1>2 DEF InPieces

LEMMA OnePieceMore ==
  ASSUME NEW text, NEW out, InPieces(text, out), NEW x \in Text
  PROVE  InPieces(text \o x, out \o Apply(x))
<1>1. PICK pieces \in Seq(Text) : Joined(pieces) = text /\ Rewritten(pieces) = out
  BY DEF InPieces
<1>2. PICK more : more = Append(pieces, x)
  OBVIOUS
<1>3. more \in Seq(Text)
  BY <1>2
<1>4. Joined(more) = text \o x /\ Rewritten(more) = out \o Apply(x)
  BY <1>1, <1>2, FlatMore, RemadeMore DEF Joined, Rewritten
<1> QED
  BY <1>3, <1>4 DEF InPieces

-----------------------------------------------------------------------------
(* What has been said, and what of it has been sent.                        *)
Spoken == (IF prefixed THEN Prefix ELSE <<>>) \o said

StreamType ==
  /\ script \in Scripts
  /\ pending \in Text /\ said \in Text
  /\ sent \in Seq(Frame)
  /\ {prefixed, error, disconnected, gone} \subseteq BOOLEAN

(* Of any rules: the text is in two, and the first was sent piece by piece. *)
(* Of rules whose cuts compose, as if it had been one.                      *)
Composes(W, t, p) == \A more \in Text : Apply(W \o more) = t \o Apply(p \o more)
Renders(W, t, p) ==
  /\ \E front \in Text : W = front \o p /\ InPieces(front, t)
  /\ CutsCompose => Composes(W, t, p)
Sent == Renders(Spoken, Texts(sent), pending)
(* Nobody is found gone who is not, and no event is dealt with after it.    *)
Listening ==
  /\ disconnected => gone
  /\ pc = "read" => ~disconnected
RewriteInv ==
  /\ StreamType /\ Listening
  /\ ~prefixed => said = <<>> /\ pending = <<>>
  /\ pc \in {"read", "flush"} /\ ~disconnected => Sent

ScriptFrame == [content : Text, finish : BOOLEAN, usage : BOOLEAN]
LEMMA ScriptType ==
  ASSUME script \in Scripts
  PROVE  script \in Seq(ScriptFrame) /\ Telling(ScriptFrame)
BY StreamAssumption DEF ScriptFrame, Telling, Text

LEMMA FrameTells == Telling(Frame)
BY DEF Frame, Telling, Text

LEMMA Empties ==
  <<>> \in Text /\ \A t \in Text : t \o <<>> = t /\ <<>> \o t = t
BY DEF Text

LEMMA SpokenType ==
  ASSUME StreamType
  PROVE  Spoken \in Text
<1>1. Prefix \in Text /\ <<>> \in Text
  BY StreamAssumption DEF Text
<1> QED
  BY <1>1, Joins DEF Spoken, StreamType

LEMMA RewriteInit == Init => RewriteInv
<1> SUFFICES ASSUME Init
             PROVE  RewriteInv
  OBVIOUS
<1>1. StreamType
  <2>1. <<>> \in Text /\ <<>> \in Seq(Frame)
    BY Empties
  <2> QED
    BY <2>1 DEF Init, StreamType
<1>2. Spoken = <<>> /\ Texts(sent) = <<>> /\ pending = <<>>
  BY TextsOfNone, Empties DEF Init, Spoken
<1>3. \A more \in Text : Apply(more) \in Text
  BY ApplyType
<1>4. Sent
  <2>1. CutsCompose => Composes(<<>>, <<>>, <<>>)
    BY <1>3, Empties DEF Composes
  <2> QED
    BY <1>2, <2>1, NoPieces, Empties DEF Sent, Renders
<1> QED
  BY <1>1, <1>4 DEF RewriteInv, Init, Listening

(* A step that speaks.                                                      *)
LEMMA SpeakStep ==
  ASSUME NEW frame \in Frame, Speak(frame), sent \in Seq(Frame),
         {disconnected, gone} \subseteq BOOLEAN
  PROVE  /\ sent' \in Seq(Frame) /\ disconnected' \in BOOLEAN
         /\ gone => disconnected' /\ sent' = sent
         /\ ~gone => /\ sent' = Append(sent, frame) /\ disconnected' = disconnected
                     /\ Texts(sent') = Texts(sent) \o frame.content
<1>1. CASE gone
  BY <1>1 DEF Speak
<1>2. CASE ~gone
  <2>1. sent' = Append(sent, frame) /\ disconnected' = disconnected
    BY <1>2 DEF Speak
  <2> QED
    BY <1>2, <2>1, TextsMore
<1> QED
  BY <1>1, <1>2

Pushed(p, ext, safe, rest) ==
  /\ safe = Apply(SubSeq(p \o ext, 1, Cut(p \o ext)))
  /\ rest = SubSeq(p \o ext, Cut(p \o ext) + 1, Len(p \o ext))

(* The rewriter takes in more, and lets go of what it may.                  *)
LEMMA PushKeeps ==
  ASSUME NEW W \in Text, NEW t \in Text, NEW p \in Text,
         Renders(W, t, p),
         NEW ext \in Text, NEW safe, NEW rest, Pushed(p, ext, safe, rest)
  PROVE  /\ safe \in Text /\ rest \in Text
         /\ Renders(W \o ext, t \o safe, rest)
<1>0. PICK text : text = p \o ext
  OBVIOUS
<1>c. PICK c : c = Cut(text)
  OBVIOUS
<1>p. safe = Apply(SubSeq(text, 1, c)) /\ rest = SubSeq(text, c + 1, Len(text))
  BY <1>0, <1>c DEF Pushed
<1>1. text \in Text
  BY <1>0, Joins
<1>2. c \in 0..Len(text)
  BY <1>1, <1>c, CutInside
<1>3. SubSeq(text, 1, c) \in Text /\ rest \in Text
  BY <1>1, <1>2, <1>p, TextParts, Zenon
<1>4. safe \in Text
  BY <1>3, <1>p, ApplyType
<1>5. ASSUME CutsCompose, NEW more \in Text
      PROVE  Apply((W \o ext) \o more) = (t \o safe) \o Apply(rest \o more)
  <2>1. PICK e : e = ext \o more /\ e \in Text
    BY Joins
  <2>2. (W \o ext) \o more = W \o e /\ text \o more = p \o e
    <3>1. (W \o ext) \o more = W \o (ext \o more)
      BY Associates, Zenon
    <3>2. (p \o ext) \o more = p \o (ext \o more)
      BY Associates, Zenon
    <3> QED
      BY <1>0, <2>1, <3>1, <3>2
  <2>3. Apply(W \o e) = t \o Apply(p \o e)
    BY <1>5, <2>1 DEF Renders, Composes
  <2>4. Apply(text \o more) = safe \o Apply(rest \o more)
    BY <1>1, <1>5, <1>c, <1>p DEF CutsCompose
  <2>5. PICK a : a = Apply(rest \o more) /\ a \in Text
    BY <1>3, ApplyType, Joins
  <2>6. (t \o safe) \o a = t \o (safe \o a)
    <3>1. PICK u : u = safe
      OBVIOUS
    <3>2. u \in Text /\ a \in Text /\ t \in Text
      BY <1>4, <2>5, <3>1
    <3>3. (t \o u) \o a = t \o (u \o a)
      BY ONLY <3>2, Associates
    <3> QED
      BY <3>1, <3>3
  <2> QED
    BY <2>2, <2>3, <2>4, <2>5, <2>6
<1>6. \E front \in Text : W \o ext = front \o rest /\ InPieces(front, t \o safe)
  <2>1. PICK front \in Text : W = front \o p /\ InPieces(front, t)
    BY DEF Renders
  <2>2. PICK piece, end : /\ piece = SubSeq(text, 1, c) /\ end = rest
                          /\ piece \in Text /\ end \in Text
    BY <1>3
  <2>3. text = piece \o end
    BY <1>1, <1>2, <1>p, <2>2, TextParts
  <2>4. W \o ext = front \o text
    <3>1. (front \o p) \o ext = front \o (p \o ext)
      BY ONLY front \in Text, p \in Text, ext \in Text, Associates
    <3> QED
      BY <1>0, <2>1, <3>1
  <2>5. front \o (piece \o end) = (front \o piece) \o end
    BY ONLY <2>2, front \in Text, Associates
  <2>6. InPieces(front \o piece, t \o safe) /\ front \o piece \in Text
    BY <1>p, <2>1, <2>2, OnePieceMore, Joins
  <2> QED
    BY <2>2, <2>3, <2>4, <2>5, <2>6
<1> QED
  BY <1>3, <1>4, <1>5, <1>6 DEF Renders, Composes

LEMMA DeltaType ==
  ASSUME NEW text \in Text, NEW finish \in BOOLEAN
  PROVE  Delta(text, finish) \in Frame /\ Delta(text, finish).content = text
         /\ Delta(text, finish).kind = "delta"
BY DEF Delta, Frame, Text

LEMMA ClosingType ==
  ASSUME NEW kind \in {"usage", "error", "done"}
  PROVE  Closing(kind) \in Frame /\ Closing(kind).content = <<>> /\ Closing(kind).kind = kind
BY DEF Closing, Frame

LEMMA ShapeStep ==
  ASSUME RewriteInv, pc = "read", script' = script, gone' = gone,
         NEW f \in ScriptFrame, Shape(f)
  PROVE  RewriteInv'
<1>0. PICK ext : ext = (IF prefixed THEN <<>> ELSE Prefix) \o f.content
  OBVIOUS
<1>f. f.content \in Text /\ f.finish \in BOOLEAN
  BY DEF ScriptFrame
<1>s. StreamType /\ Sent /\ Spoken \in Text /\ Texts(sent) \in Text /\ pending \in Text
      /\ said \in Text /\ ~disconnected
  BY SpokenType, TextsType, FrameTells DEF RewriteInv, StreamType, Listening
<1>p. Prefix \in Text
  BY StreamAssumption DEF Text
<1>e. ext \in Text
  BY <1>0, <1>f, <1>p, Joins, Empties
<1>1. said' = said \o f.content /\ said' \in Text /\ error' = error
  BY <1>f, <1>s, Joins DEF Shape
<1>2. CASE f.content # <<>>
  <2>1. Content(f)
    BY <1>2 DEF Shape
  <2>2. PICK text, c, safe : /\ text = pending \o (IF prefixed THEN <<>> ELSE Prefix) \o f.content
                             /\ c = Cut(text) /\ safe = Apply(SubSeq(text, 1, c))
                             /\ prefixed' = TRUE
                             /\ pending' = SubSeq(text, c + 1, Len(text))
                             /\ IF safe = <<>>
                                THEN UNCHANGED <<disconnected, load, sent, pc>>
                                ELSE Speak(Delta(safe, f.finish)) /\ ReadOn
    BY <2>1 DEF Content
  <2>3. text = pending \o ext
    BY <1>0, <1>f, <1>p, <1>s, <2>2, Associates, Empties
  <2>4. Spoken' = Spoken \o ext
    <3>1. Spoken' = Prefix \o (said \o f.content)
      BY <1>1, <2>2 DEF Spoken
    <3>2. CASE prefixed
      <4>1. (Prefix \o said) \o f.content = Prefix \o (said \o f.content)
        BY <1>f, <1>p, <1>s, Associates, Zenon
      <4>2. ext = f.content
        BY <3>2, <1>0, <1>f, Empties
      <4> QED
        BY <3>1, <3>2, <4>1, <4>2 DEF Spoken
    <3>3. CASE ~prefixed
      <4>1. said = <<>> /\ ext = Prefix \o f.content
        BY <3>3, <1>0 DEF RewriteInv
      <4>2. Spoken = <<>> /\ <<>> \o f.content = f.content /\ <<>> \o ext = ext
        BY <3>3, <4>1, <1>f, <1>e, Empties DEF Spoken
      <4> QED
        BY <3>1, <4>1, <4>2
    <3> QED
      BY <3>2, <3>3
  <2>5. /\ safe \in Text /\ pending' \in Text
        /\ Renders(Spoken \o ext, Texts(sent) \o safe, pending')
    <3>1. PICK W, t, p, rest : /\ W = Spoken /\ t = Texts(sent) /\ p = pending
                               /\ rest = SubSeq(text, c + 1, Len(text))
      OBVIOUS
    <3>2. Renders(W, t, p)
      BY <1>s, <3>1 DEF Sent
    <3>3. safe \in Text /\ rest \in Text /\ Renders(W \o ext, t \o safe, rest)
      <4>1. W \in Text /\ t \in Text /\ p \in Text
        BY <1>s, <3>1
      <4>2. Pushed(p, ext, safe, rest)
        BY <2>2, <2>3, <3>1 DEF Pushed
      <4> QED
        BY <1>e, <3>2, <4>1, <4>2, PushKeeps
    <3> QED
      BY <2>2, <3>1, <3>3
  <2>6. CASE safe = <<>>
    <3>1. Texts(sent) \o safe = Texts(sent) /\ sent' = sent /\ disconnected' = disconnected
      BY <1>s, <2>2, <2>6, Empties
    <3>2. StreamType'
      BY <1>1, <1>s, <2>2, <2>5, <3>1 DEF StreamType
    <3>3. Sent'
      BY <2>4, <2>5, <3>1 DEF Sent
    <3>4. Listening'
      BY <1>s, <2>2, <2>6 DEF Listening
    <3> QED
      BY <2>2, <3>2, <3>3, <3>4 DEF RewriteInv
  <2>7. CASE safe # <<>>
    <3>1. Speak(Delta(safe, f.finish)) /\ Delta(safe, f.finish) \in Frame
          /\ Delta(safe, f.finish).content = safe
      BY <1>f, <2>2, <2>5, <2>7, DeltaType
    <3>2. /\ sent' \in Seq(Frame) /\ disconnected' \in BOOLEAN
          /\ gone => disconnected'
          /\ ~gone => Texts(sent') = Texts(sent) \o safe /\ disconnected' = disconnected
      BY <1>s, <3>1, SpeakStep DEF StreamType
    <3>3. StreamType'
      BY <1>1, <1>s, <2>2, <2>5, <3>2 DEF StreamType
    <3>4. ~disconnected' => Sent'
      BY <2>4, <2>5, <3>2, <1>s DEF Sent, StreamType
    <3>5. Listening'
      BY <1>s, <2>2, <2>7, <3>2 DEF Listening, ReadOn, StreamType
    <3> QED
      BY <2>2, <3>3, <3>4, <3>5 DEF RewriteInv
  <2> QED
    BY <2>6, <2>7
<1>3. CASE f.content = <<>>
  <2>1. Speak(Delta(<<>>, f.finish)) /\ ReadOn /\ pending' = pending /\ prefixed' = prefixed
    BY <1>3 DEF Shape
  <2>2. Delta(<<>>, f.finish) \in Frame /\ Delta(<<>>, f.finish).content = <<>>
    BY <1>f, Empties, DeltaType
  <2>3. /\ sent' \in Seq(Frame) /\ disconnected' \in BOOLEAN
        /\ gone => disconnected'
        /\ ~gone => Texts(sent') = Texts(sent) \o <<>> /\ disconnected' = disconnected
    BY <1>s, <2>1, <2>2, SpeakStep DEF StreamType
  <2>4. said' = said
    BY <1>1, <1>3, <1>s, Empties
  <2>5. StreamType'
    BY <1>1, <1>s, <2>1, <2>3 DEF StreamType
  <2>6. ~disconnected' => Sent'
    BY <1>s, <2>1, <2>3, <2>4, Empties DEF Sent, Spoken, StreamType
  <2>7. Listening'
    BY <1>s, <2>1, <2>3 DEF Listening, ReadOn, StreamType
  <2> QED
    BY <2>1, <2>4, <2>5, <2>6, <2>7 DEF RewriteInv
<1> QED
  BY <1>2, <1>3

-----------------------------------------------------------------------------
(* What has been sent and what is held back are all that was said, rewritten. *)

LEMMA RewriteStep ==
  ASSUME RewriteInv, [Next]_vars
  PROVE  RewriteInv'
<1>1. StreamType /\ Listening /\ (~prefixed => said = <<>> /\ pending = <<>>)
  BY DEF RewriteInv
<1>2. ASSUME UNCHANGED <<script, pending, prefixed, said, error, disconnected, sent>>,
             gone' \in BOOLEAN, disconnected => gone',
             pc' = "read" => pc = "read",
             pc' = "flush" => pc \in {"read", "flush"}
      PROVE  RewriteInv'
  <2>1. StreamType' /\ Listening'
    BY <1>1, <1>2 DEF StreamType, Listening
  <2>2. Sent <=> Sent'
    BY <1>2 DEF Sent, Spoken
  <2> QED
    BY <1>1, <1>2, <2>1, <2>2 DEF RewriteInv
<1>3. CASE \E n \in 1..MaxChunk : Read(n)
  BY <1>1, <1>2, <1>3 DEF Read, pumped, caller, StreamType, Listening
<1>4. CASE EndOfWire
  <2>1. error' \in BOOLEAN /\ pc = "read" /\ pc' = "flush"
        /\ UNCHANGED <<script, pending, prefixed, said, disconnected, sent, gone>>
    BY <1>4 DEF EndOfWire, input, caller
  <2>2. StreamType' /\ Listening'
    BY <1>1, <2>1 DEF StreamType, Listening
  <2>3. Sent <=> Sent'
    BY <2>1 DEF Sent, Spoken
  <2> QED
    BY <1>1, <2>1, <2>2, <2>3 DEF RewriteInv
<1>5. CASE Quiet
  <2>1. /\ UNCHANGED <<script, pending, prefixed, said, error, sent, gone>>
        /\ pc = "read" /\ pc' = IF gone THEN "flush" ELSE pc
        /\ disconnected' = IF gone THEN TRUE ELSE disconnected
    BY <1>5 DEF Quiet, ReadOn, input
  <2>2. StreamType' /\ Listening'
    BY <1>1, <2>1 DEF StreamType, Listening
  <2>3. Sent <=> Sent'
    BY <2>1 DEF Sent, Spoken
  <2> QED
    BY <1>1, <2>1, <2>2, <2>3 DEF RewriteInv
<1>6. CASE Event
  <2>1. pc = "read" /\ script' = script /\ gone' = gone
    BY <1>6 DEF Event
  <2>2. \/ UNCHANGED <<pumped, pc, load, sent>>
        \/ \E f \in DOMAIN script : Shape(script[f])
    BY <1>6 DEF Event, Events
  <2>3. CASE UNCHANGED <<pumped, pc, load, sent>>
    BY <1>1, <1>2, <2>1, <2>3 DEF pumped, StreamType, Listening
  <2>4. CASE \E f \in DOMAIN script : Shape(script[f])
    <3>1. script \in Seq(ScriptFrame)
      BY <1>1, ScriptType DEF StreamType
    <3>2. PICK f \in ScriptFrame : Shape(f)
      BY <2>4, <3>1
    <3> QED
      BY <2>1, <3>2, ShapeStep
  <2> QED
    BY <2>2, <2>3, <2>4
<1>7. CASE Flush
  <2>0. pending \in Text /\ Held \in Text
    BY <1>1, ApplyType, Joins, StreamAssumption DEF Held, StreamType, Text
  <2>1. /\ UNCHANGED <<script, prefixed, said, error, gone>>
        /\ pc' \in {"record", "usage"}
    BY <1>7 DEF Flush
  <2>2. pending' \in Text /\ (pending = <<>> => pending' = <<>>)
    BY <1>7, <2>0, Empties DEF Flush
  <2>3. sent' \in Seq(Frame) /\ disconnected' \in BOOLEAN /\ (disconnected' => gone)
    <3>1. CASE disconnected \/ Held = <<>>
      BY <1>1, <1>7, <3>1 DEF Flush, StreamType, Listening
    <3>2. CASE ~(disconnected \/ Held = <<>>)
      <4>1. Speak(Delta(Held, FALSE)) /\ Delta(Held, FALSE) \in Frame
        BY <1>7, <2>0, <3>2, DeltaType DEF Flush
      <4> QED
        BY <1>1, <3>2, <4>1, SpeakStep DEF StreamType
    <3> QED
      BY <3>1, <3>2
  <2>4. StreamType' /\ Listening'
    BY <1>1, <2>1, <2>2, <2>3 DEF StreamType, Listening
  <2> QED
    BY <1>1, <2>1, <2>2, <2>4 DEF RewriteInv
<1>8. ASSUME NEW here \in {"usage", "error", "done"}, NEW there \in {"error", "done", "record"},
             Close(here, Closing(here), there)
      PROVE  RewriteInv'
  <2>1. UNCHANGED <<script, pending, prefixed, said, error, gone>> /\ pc' = there
        /\ Speak(Closing(here))
    BY <1>8 DEF Close, input
  <2>2. Closing(here) \in Frame
    BY ClosingType
  <2>3. sent' \in Seq(Frame) /\ disconnected' \in BOOLEAN /\ (disconnected' => gone)
    BY <1>1, <2>1, <2>2, SpeakStep DEF StreamType, Listening
  <2>4. StreamType' /\ Listening'
    BY <1>1, <2>1, <2>3 DEF StreamType, Listening
  <2> QED
    BY <1>1, <2>1, <2>4 DEF RewriteInv
<1>9. CASE CloseUsage
  BY <1>8, <1>9 DEF CloseUsage
<1>10. CASE CloseError
  BY <1>8, <1>10 DEF CloseError
<1>11. CASE CloseDone
  BY <1>8, <1>11 DEF CloseDone
<1>12. CASE Record
  BY <1>1, <1>2, <1>12 DEF Record, input, pumped, caller, StreamType, Listening
<1>13. CASE Receive
  BY <1>1, <1>2, <1>13 DEF Receive, input, pumped, StreamType, Listening
<1>14. CASE HangUp
  BY <1>1, <1>2, <1>14 DEF HangUp, input, pumped, StreamType, Listening
<1>15. CASE UNCHANGED vars
  BY <1>1, <1>2, <1>15 DEF vars, input, pumped, caller, StreamType, Listening
<1> QED
  BY <1>3, <1>4, <1>5, <1>6, <1>7, <1>9, <1>10, <1>11, <1>12, <1>13, <1>14, <1>15
     DEF Next, Pump

LEMMA WholeOfInv == CutsCompose /\ RewriteInv => RewrittenWhole
<1> SUFFICES ASSUME CutsCompose, RewriteInv, pc = "read", ~disconnected
             PROVE  Apply(Spoken) = Texts(sent) \o Apply(pending)
  BY DEF RewrittenWhole, Spoken
<1>1. Sent /\ Spoken \in Text /\ pending \in Text
  BY SpokenType DEF RewriteInv, StreamType
<1>2. Apply(Spoken \o <<>>) = Texts(sent) \o Apply(pending \o <<>>)
  BY <1>1, Empties DEF Sent, Renders, Composes
<1> QED
  BY <1>1, <1>2, Empties

LEMMA RewriteAlways == Spec => []RewriteInv
<1>1. RewriteInv /\ [Next]_vars => RewriteInv'
  BY RewriteStep
<1> QED
  BY <1>1, RewriteInit, PTL DEF Spec

(* While it is pumped, what has been said is what was sent, piece by piece, *)
(* and what is held back.                                                   *)
SentInOrder ==
  pc = "read" /\ ~disconnected =>
    \E front \in Text : Spoken = front \o pending /\ InPieces(front, Texts(sent))

(* "without letting a pattern that straddles two chunks slip through": at  *)
(* every moment, of any text in any reads and under any list of rules, the *)
(* text so far is what has gone to the caller, rewritten in consecutive    *)
(* pieces with nothing lost, doubled or moved, and then what is held back  *)
(* (StreamRewriter, relay/sse.rs).  Under one rule or none the pieces do   *)
(* not show: what was sent and what is held back, rewritten, are the text  *)
(* rewritten as a whole.  (Under several they can: safe_cut passes over    *)
(* the rules once, and matches of two rules may touch.)                    *)
THEOREM StreamRewritten ==
  Spec => []SentInOrder /\ (Len(Rules) <= 1 => []RewrittenWhole)
<1>1. RewriteInv => SentInOrder
  BY DEF RewriteInv, Sent, Renders, SentInOrder
<1>2. Spec => []SentInOrder
  BY <1>1, RewriteAlways, PTL
<1>3. Len(Rules) <= 1 /\ Spec => []RewrittenWhole
  <2>1. CASE CutsCompose
    <3>1. RewriteInv => RewrittenWhole
      BY <2>1, WholeOfInv
    <3> QED
      BY <3>1, RewriteAlways, PTL
  <2>2. CASE ~CutsCompose
    BY <2>2, FewRulesCompose
  <2> QED
    BY <2>1, <2>2
<1> QED
  BY <1>2, <1>3

-----------------------------------------------------------------------------
(* The frames a stream is closed with.                                      *)
Deltas(frames) == \A i \in DOMAIN frames : frames[i].kind = "delta"
ClosedWith(place, broken) ==
  CASE place = "usage" -> <<>>
    [] place = "error" -> <<Closing("usage")>>
    [] place = "done"  -> IF broken THEN <<Closing("usage"), Closing("error")>>
                                    ELSE <<Closing("usage")>>
    [] OTHER -> IF broken THEN <<Closing("usage"), Closing("error"), Closing("done")>>
                         ELSE <<Closing("usage"), Closing("done")>>
(* All of a text, rewritten, and the suffix.                                *)
Ended(text, told) ==
  \E out \in Text : /\ told = out \o Suffix
                    /\ InPieces(text, out)
                    /\ CutsCompose => out = Apply(text)
Body(frames, text) ==
  frames \in Seq(Frame) /\ Deltas(frames) /\ Ended(text, Texts(frames))
Outcome == IF disconnected THEN 499 ELSE IF error THEN 502 ELSE 200

ClosingInv ==
  /\ pc \in PCs
  /\ pc \in {"read", "flush"} => Deltas(sent)
  /\ pc \notin {"read", "flush"} /\ ~disconnected =>
       \E body : Body(body, Spoken) /\ sent = body \o ClosedWith(pc, error)
  /\ pc = "error" => error
  /\ pc = "over" => status = Outcome

LEMMA ClosingInit == Init => ClosingInv
BY DEF Init, ClosingInv, PCs, Deltas

LEMMA DeltasMore ==
  ASSUME NEW s \in Seq(Frame), Deltas(s), NEW x \in Frame, x.kind = "delta"
  PROVE  Deltas(Append(s, x))
BY DEF Deltas

(* A delta more, or none.                                                   *)
LEMMA DeltaStep ==
  ASSUME StreamType, Deltas(sent), NEW text \in Text, NEW finish \in BOOLEAN,
         Speak(Delta(text, finish))
  PROVE  Deltas(sent')
<1>1. Delta(text, finish) \in Frame /\ Delta(text, finish).kind = "delta"
  BY DeltaType
<1>2. sent' = sent \/ sent' = Append(sent, Delta(text, finish))
  BY DEF Speak
<1>3. sent \in Seq(Frame)
  BY DEF StreamType
<1> QED
  BY <1>1, <1>2, <1>3, DeltasMore

LEMMA AppendOne ==
  \A s \in Seq(Frame), x \in Frame : Append(s, x) = s \o <<x>>
OBVIOUS
LEMMA AppendTwo ==
  \A s \in Seq(Frame), x, y \in Frame : Append(s \o <<x>>, y) = s \o <<x, y>>
OBVIOUS
LEMMA AppendThree ==
  \A s \in Seq(Frame), x, y, z \in Frame : Append(s \o <<x, y>>, z) = s \o <<x, y, z>>
OBVIOUS

LEMMA CloseStep ==
  ASSUME RewriteInv, ClosingInv,
         NEW here \in {"usage", "error", "done"}, NEW there \in {"error", "done", "record"},
         Close(here, Closing(here), there),
         here = "usage" => there = IF error THEN "error" ELSE "done",
         here = "error" => there = "done", here = "done" => there = "record"
  PROVE  ClosingInv'
<1>1. /\ pc = here /\ pc' = there /\ Speak(Closing(here))
      /\ UNCHANGED <<prefixed, said, error, gone, status>>
  BY DEF Close
<1>2. sent \in Seq(Frame) /\ {disconnected, gone, error} \subseteq BOOLEAN /\ Closing(here) \in Frame
  BY ClosingType DEF RewriteInv, StreamType
<1>3. /\ gone => disconnected'
      /\ ~gone => sent' = Append(sent, Closing(here)) /\ disconnected' = disconnected
  BY <1>1, <1>2, SpeakStep
<1>4. there = "error" => error
  BY <1>2
<1>5. ASSUME ~disconnected'
      PROVE  \E body : Body(body, Spoken) /\ sent' = body \o ClosedWith(there, error)
  <2>1. ~gone /\ ~disconnected /\ sent' = Append(sent, Closing(here))
    BY <1>2, <1>3, <1>5
  <2>2. PICK body : Body(body, Spoken) /\ sent = body \o ClosedWith(here, error)
    BY <1>1, <2>1 DEF ClosingInv
  <2>4. PICK u, e, d : /\ u = Closing("usage") /\ e = Closing("error") /\ d = Closing("done")
    OBVIOUS
  <2>5. u \in Frame /\ e \in Frame /\ d \in Frame /\ body \in Seq(Frame)
    BY <2>2, <2>4, ClosingType DEF Body
  <2>6. sent' = body \o ClosedWith(there, error)
    <3>1. CASE here = "usage"
      <4>1. sent' = Append(body, u) /\ body \o <<>> = body
        BY <2>1, <2>2, <2>4, <2>5, <3>1 DEF ClosedWith
      <4>2. ClosedWith(there, error) = <<u>>
        BY <1>1, <1>2, <2>4, <3>1 DEF ClosedWith, Closing
      <4> QED
        BY <4>1, <4>2, <2>5, AppendOne
    <3>2. CASE here = "error"
      <4>1. error
        BY <1>1, <3>2 DEF ClosingInv
      <4>2. sent' = Append(body \o <<u>>, e)
        BY <2>1, <2>2, <2>4, <3>2 DEF ClosedWith
      <4>3. ClosedWith(there, error) = <<u, e>>
        BY <4>1, <2>4, <3>2 DEF ClosedWith, Closing
      <4> QED
        BY <4>2, <4>3, <2>5, AppendTwo
    <3>3. CASE here = "done" /\ error
      <4>2. sent' = Append(body \o <<u, e>>, d)
        BY <2>1, <2>2, <2>4, <3>3 DEF ClosedWith
      <4>3. ClosedWith(there, error) = <<u, e, d>>
        BY <1>1, <2>4, <3>3 DEF ClosedWith, Closing
      <4> QED
        BY <4>2, <4>3, <2>5, AppendThree
    <3>4. CASE here = "done" /\ ~error
      <4>2. sent' = Append(body \o <<u>>, d)
        BY <2>1, <2>2, <2>4, <3>4 DEF ClosedWith
      <4>3. ClosedWith(there, error) = <<u, d>>
        BY <1>1, <2>4, <3>4 DEF ClosedWith, Closing
      <4> QED
        BY <4>2, <4>3, <2>5, AppendTwo
    <3> QED
      BY <3>1, <3>2, <3>3, <3>4
  <2> QED
    BY <2>2, <2>6
<1>6. Spoken' = Spoken /\ error' = error
  BY <1>1 DEF Spoken
<1> QED
  BY <1>1, <1>4, <1>5, <1>6 DEF ClosingInv, PCs

LEMMA FlushCloses ==
  ASSUME RewriteInv, ClosingInv, Flush
  PROVE  ClosingInv'
<1>1. /\ pc = "flush" /\ pc' = IF disconnected' THEN "record" ELSE "usage"
      /\ UNCHANGED <<prefixed, said, error, gone, status>>
      /\ IF disconnected \/ Held = <<>>
         THEN UNCHANGED <<disconnected, sent>>
         ELSE Speak(Delta(Held, FALSE))
  BY DEF Flush
<1>2. /\ sent \in Seq(Frame) /\ {disconnected, gone, error} \subseteq BOOLEAN
      /\ pending \in Text /\ Spoken \in Text /\ Texts(sent) \in Text /\ Suffix \in Text
  BY SpokenType, TextsType, FrameTells, StreamAssumption DEF RewriteInv, StreamType, Text
<1>3. Held \in Text /\ Apply(pending) \in Text
  BY <1>2, ApplyType, Joins DEF Held
<1>4. Deltas(sent)
  BY <1>1 DEF ClosingInv
<1>5. ASSUME ~disconnected'
      PROVE  Body(sent', Spoken)
  <2>1. ~disconnected
    BY <1>1, <1>2, <1>5 DEF Speak
  <2>r. PICK a, b, W : /\ a = Apply(pending) /\ b = Texts(sent) /\ W = Spoken
                       /\ a \in Text /\ b \in Text
    BY <1>2, <1>3
  <2>w. Renders(W, b, pending)
    BY <1>1, <2>1, <2>r DEF RewriteInv, Sent
  <2>2. InPieces(W, b \o a)
    <3>1. PICK front \in Text : W = front \o pending /\ InPieces(front, b)
      BY <2>w DEF Renders
    <3> QED
      BY <1>2, <2>r, <3>1, OnePieceMore
  <2>c. CutsCompose => b \o a = Apply(W)
    <3>1. CutsCompose => Apply(W \o <<>>) = b \o Apply(pending \o <<>>)
      BY <2>w, Empties DEF Renders, Composes
    <3>2. W \o <<>> = W /\ pending \o <<>> = pending
      BY <1>2, <2>r, Empties
    <3> QED
      BY <2>r, <3>1, <3>2
  <2>3. Ended(Spoken, Texts(sent) \o Held)
    <3>0. Suffix \in Text
      BY <1>2
    <3>1. b \o a \in Text /\ (b \o a) \o Suffix = b \o (a \o Suffix)
      <4>1. b \o a \in Text
        BY <2>r, Joins
      <4>2. (b \o a) \o Suffix = b \o (a \o Suffix)
        BY <2>r, <3>0, Associates, Zenon
      <4> QED
        BY <4>1, <4>2, Zenon
    <3> QED
      BY <2>2, <2>c, <2>r, <3>1 DEF Ended, Held
  <2>4. sent' \in Seq(Frame) /\ Deltas(sent') /\ Texts(sent') = Texts(sent) \o Held
    <3>1. CASE Held = <<>>
      BY <1>1, <1>2, <1>4, <3>1, Empties
    <3>2. CASE Held # <<>>
      <4>1. Speak(Delta(Held, FALSE)) /\ Delta(Held, FALSE) \in Frame
            /\ Delta(Held, FALSE).content = Held
        BY <1>1, <1>3, <2>1, <3>2, DeltaType
      <4>2. ~gone
        BY <1>5, <4>1 DEF Speak
      <4>3. sent' \in Seq(Frame) /\ Texts(sent') = Texts(sent) \o Held
        BY <1>2, <4>1, <4>2, SpeakStep
      <4>4. Deltas(sent')
        BY <1>3, <1>4, <4>1, DeltaStep DEF RewriteInv
      <4> QED
        BY <4>3, <4>4
    <3> QED
      BY <3>1, <3>2
  <2> QED
    BY <2>3, <2>4 DEF Body
<1>6. ASSUME ~disconnected'
      PROVE  \E body : Body(body, Spoken) /\ sent' = body \o ClosedWith("usage", error)
  <2>1. Body(sent', Spoken) /\ sent' \o <<>> = sent'
    BY <1>5, <1>6 DEF Body
  <2>2. ClosedWith("usage", error) = <<>>
    BY DEF ClosedWith
  <2> QED
    BY <2>1, <2>2
<1>7. Spoken' = Spoken /\ error' = error
  BY <1>1 DEF Spoken
<1>8. CASE disconnected'
  BY <1>1, <1>8 DEF ClosingInv, PCs
<1>9. CASE ~disconnected'
  BY <1>1, <1>6, <1>7, <1>9 DEF ClosingInv, PCs
<1> QED
  BY <1>8, <1>9

LEMMA ClosingStep ==
  ASSUME RewriteInv, ClosingInv, [Next]_vars
  PROVE  ClosingInv'
<1>1. ASSUME UNCHANGED <<prefixed, said, error, disconnected, pc, sent, status>>
      PROVE  ClosingInv'
  <2>1. Spoken' = Spoken /\ Outcome' = Outcome
    BY <1>1 DEF Spoken, Outcome
  <2> QED
    BY <1>1, <2>1 DEF ClosingInv, PCs
<1>2. ASSUME pc = "read", pc' \in {"read", "flush"}, Deltas(sent')
      PROVE  ClosingInv'
  BY <1>2 DEF ClosingInv, PCs
<1>3. pc = "read" => Deltas(sent)
  BY DEF ClosingInv
<1>4. CASE \E n \in 1..MaxChunk : Read(n)
  BY <1>1, <1>4 DEF Read, pumped, caller
<1>5. CASE EndOfWire
  BY <1>2, <1>3, <1>5 DEF EndOfWire, caller
<1>6. CASE Quiet
  BY <1>2, <1>3, <1>6 DEF Quiet, ReadOn
<1>7. CASE Event
  <2>1. pc = "read"
    BY <1>7 DEF Event
  <2>2. \/ UNCHANGED <<pumped, pc, load, sent>>
        \/ \E f \in DOMAIN script : Shape(script[f])
    BY <1>7 DEF Event, Events
  <2>3. CASE UNCHANGED <<pumped, pc, load, sent>>
    BY <1>2, <1>3, <2>1, <2>3
  <2>4. CASE \E f \in DOMAIN script : Shape(script[f])
    <3>1. StreamType /\ script \in Seq(ScriptFrame)
      BY ScriptType DEF RewriteInv, StreamType
    <3>2. PICK f \in ScriptFrame : Shape(f)
      BY <2>4, <3>1
    <3>3. f.content \in Text /\ f.finish \in BOOLEAN
      BY DEF ScriptFrame
    <3>4. CASE f.content = <<>>
      <4>1. Speak(Delta(<<>>, f.finish)) /\ ReadOn
        BY <3>2, <3>4 DEF Shape
      <4>2. Deltas(sent')
        BY <1>3, <2>1, <3>1, <3>3, <4>1, Empties, DeltaStep
      <4> QED
        BY <1>2, <2>1, <4>1, <4>2 DEF ReadOn
    <3>5. CASE f.content # <<>>
      <4>1. Content(f)
        BY <3>2, <3>5 DEF Shape
      <4>2. PICK text, cut, safe :
              /\ text = pending \o (IF prefixed THEN <<>> ELSE Prefix) \o f.content
              /\ cut = Cut(text) /\ safe = Apply(SubSeq(text, 1, cut))
              /\ IF safe = <<>>
                 THEN UNCHANGED <<disconnected, load, sent, pc>>
                 ELSE Speak(Delta(safe, f.finish)) /\ ReadOn
        BY <4>1 DEF Content
      <4>3. CASE safe = <<>>
        BY <1>2, <1>3, <2>1, <4>2, <4>3
      <4>4. CASE safe # <<>>
        <5>1. Speak(Delta(safe, f.finish)) /\ ReadOn
          BY <4>2, <4>4
        <5>2. Deltas(sent')
          <6>1. Delta(safe, f.finish).kind = "delta"
            BY DEF Delta
          <6>2. sent' = sent \/ sent' = Append(sent, Delta(safe, f.finish))
            BY <5>1 DEF Speak
          <6>3. sent \in Seq(Frame) /\ Deltas(sent)
            BY <1>3, <2>1, <3>1 DEF StreamType
          <6> QED
            BY <6>1, <6>2, <6>3 DEF Deltas
        <5> QED
          BY <1>2, <2>1, <5>1, <5>2 DEF ReadOn
      <4> QED
        BY <4>3, <4>4
    <3> QED
      BY <3>4, <3>5
  <2> QED
    BY <2>2, <2>3, <2>4
<1>8. CASE Flush
  BY <1>8, FlushCloses
<1>9. error \in BOOLEAN
  BY DEF RewriteInv, StreamType
<1>10. CASE CloseUsage
  BY <1>9, <1>10, CloseStep DEF CloseUsage
<1>11. CASE CloseError
  BY <1>11, CloseStep DEF CloseError
<1>12. CASE CloseDone
  BY <1>12, CloseStep DEF CloseDone
<1>13. CASE Record
  <2>1. /\ pc = "record" /\ pc' = "over" /\ status' = Outcome
        /\ UNCHANGED <<prefixed, said, error, disconnected, sent>>
    BY <1>13 DEF Record, pumped, caller, Outcome
  <2>2. Spoken' = Spoken
    BY <2>1 DEF Spoken
  <2>3. ClosedWith("over", error) = ClosedWith("record", error) /\ Outcome' = Outcome
    BY <2>1 DEF ClosedWith, Outcome
  <2> QED
    BY <2>1, <2>2, <2>3 DEF ClosingInv, PCs
<1>14. CASE Receive
  BY <1>1, <1>14 DEF Receive, pumped
<1>15. CASE HangUp
  BY <1>1, <1>15 DEF HangUp, pumped
<1>16. CASE UNCHANGED vars
  BY <1>1, <1>16 DEF vars, pumped, caller
<1> QED
  BY <1>4, <1>5, <1>6, <1>7, <1>8, <1>10, <1>11, <1>12, <1>13, <1>14, <1>15, <1>16
     DEF Next, Pump

-----------------------------------------------------------------------------
(* The bytes of the wire.                                                   *)
Byte == [frame : Nat, half : {1, 2, 3}]
First(g)  == [frame |-> g, half |-> 1]
Second(g) == [frame |-> g, half |-> 2]

LEMMA ByteTypes ==
  /\ CR \in Byte /\ NL \in Byte /\ CR.frame = 0 /\ NL.frame = 0
  /\ CR.half # 1 /\ NL.half # 1
  /\ \A g \in Nat : /\ First(g) \in Byte /\ Second(g) \in Byte /\ Whole(g) = <<First(g), Second(g)>>
                    /\ First(g).frame = g /\ Second(g).frame = g
                    /\ First(g).half = 1 /\ Second(g).half = 2
BY DEF CR, NL, Byte, First, Second, Whole

LEMMA PairAt ==
  ASSUME NEW W \in Seq(Byte), NEW a \in Byte, NEW b \in Byte, NEW i \in Nat \ {0}
  PROVE  Matches(W, <<a, b>>, i) <=> i + 1 <= Len(W) /\ W[i] = a /\ W[i + 1] = b
<1>1. \A p \in Seq(Byte) : Matches(W, p, i) <=> /\ i + Len(p) - 1 <= Len(W)
                                              /\ \A k \in 1..Len(p) : W[i + k - 1] = p[k]
  BY MatchesAt
<1>2. <<a, b>> \in Seq(Byte) /\ Len(<<a, b>>) = 2 /\ <<a, b>>[1] = a /\ <<a, b>>[2] = b
  OBVIOUS
<1>3. PICK p : p = <<a, b>>
  OBVIOUS
<1>4. p \in Seq(Byte) /\ Len(p) = 2 /\ p[1] = a /\ p[2] = b
  BY <1>2, <1>3
<1>5. Matches(W, p, i) <=> i + Len(p) - 1 <= Len(W) /\ \A k \in 1..Len(p) : W[i + k - 1] = p[k]
  BY <1>1, <1>4, Zenon
<1>6. i + 2 - 1 = i + 1 /\ i + 1 - 1 = i /\ 1..2 = {1, 2}
  OBVIOUS
<1>7. Matches(W, p, i) <=> i + 1 <= Len(W) /\ \A k \in {1, 2} : W[i + k - 1] = p[k]
  BY <1>4, <1>5, <1>6
<1> QED
  BY <1>3, <1>4, <1>6, <1>7

Two(W, s)  == s + 1 <= Len(W) /\ W[s] = NL /\ W[s + 1] = NL
Four(W, s) == s + 3 <= Len(W) /\ W[s] = CR /\ W[s + 1] = NL /\ W[s + 2] = CR /\ W[s + 3] = NL

LEMMA SeparatorAt ==
  ASSUME NEW W \in Seq(Byte), NEW s \in Nat \ {0}
  PROVE  Separator(W, s) = IF Two(W, s) THEN 2 ELSE IF Four(W, s) THEN 4 ELSE 0
<1>1. Matches(W, <<NL, NL>>, s) <=> Two(W, s)
  BY PairAt, ByteTypes DEF Two
<1>2. Matches(W, <<CR, NL, CR, NL>>, s) <=> Four(W, s)
  <2>1. \A p \in Seq(Byte) : Matches(W, p, s) <=> /\ s + Len(p) - 1 <= Len(W)
                                                /\ \A k \in 1..Len(p) : W[s + k - 1] = p[k]
    BY MatchesAt
  <2>2. \A a, b \in Byte : LET q == <<a, b, a, b>>
                           IN  /\ q \in Seq(Byte) /\ Len(q) = 4
                                /\ q[1] = a /\ q[2] = b /\ q[3] = a /\ q[4] = b
    OBVIOUS
  <2>3. PICK p : p = <<CR, NL, CR, NL>>
    OBVIOUS
  <2>4. p \in Seq(Byte) /\ Len(p) = 4 /\ p[1] = CR /\ p[2] = NL /\ p[3] = CR /\ p[4] = NL
    BY <2>2, <2>3, ByteTypes
  <2>5. Matches(W, p, s) <=> s + Len(p) - 1 <= Len(W) /\ \A k \in 1..Len(p) : W[s + k - 1] = p[k]
    BY <2>1, <2>4, Zenon
  <2>6. /\ s + 4 - 1 = s + 3 /\ s + 1 - 1 = s /\ s + 2 - 1 = s + 1 /\ s + 3 - 1 = s + 2
        /\ 1..4 = {1, 2, 3, 4}
    OBVIOUS
  <2>7. Matches(W, p, s) <=> s + 3 <= Len(W) /\ \A k \in {1, 2, 3, 4} : W[s + k - 1] = p[k]
    BY <2>4, <2>5, <2>6
  <2> QED
    BY <2>3, <2>4, <2>6, <2>7 DEF Four
<1> QED
  BY <1>1, <1>2 DEF Separator

(* How long a separator is, and of what it is made.                         *)
LEMMA SeparatorIs ==
  ASSUME NEW W \in Seq(Byte), NEW s \in Nat \ {0}, Separator(W, s) > 0
  PROVE  /\ Separator(W, s) \in {2, 4} /\ s + Separator(W, s) - 1 <= Len(W)
         /\ \A j \in s..(s + Separator(W, s) - 1) : W[j].frame = 0
<1>1. CASE Two(W, s)
  <2>1. Separator(W, s) = 2 /\ s + 2 - 1 = s + 1
    BY <1>1, SeparatorAt
  <2>2. \A j \in s..(s + 1) : j = s \/ j = s + 1
    OBVIOUS
  <2> QED
    BY <1>1, <2>1, <2>2, ByteTypes DEF Two
<1>2. CASE ~Two(W, s) /\ Four(W, s)
  <2>1. Separator(W, s) = 4 /\ s + 4 - 1 = s + 3
    BY <1>2, SeparatorAt
  <2>2. \A j \in s..(s + 3) : j = s \/ j = s + 1 \/ j = s + 2 \/ j = s + 3
    OBVIOUS
  <2> QED
    BY <1>2, <2>1, <2>2, ByteTypes DEF Four
<1>3. CASE ~Two(W, s) /\ ~Four(W, s)
  BY <1>3, SeparatorAt
<1> QED
  BY <1>1, <1>2, <1>3

(* A part of the bytes has the separators that are inside it.               *)
LEMMA SeparatorInside ==
  ASSUME NEW W \in Seq(Byte), NEW B \in Seq(Byte), NEW pos \in Nat,
         pos + Len(B) <= Len(W), \A i \in 1..Len(B) : B[i] = W[pos + i],
         NEW j \in Nat \ {0}, Separator(W, pos + j) > 0, j + Separator(W, pos + j) - 1 <= Len(B)
  PROVE  j \in Ends(B)
<1>1. PICK m : m = Len(B) /\ m \in Nat
  OBVIOUS
<1>2. PICK s : s = pos + j /\ s \in Nat \ {0}
  OBVIOUS
<1>3. Separator(W, s) = IF Two(W, s) THEN 2 ELSE IF Four(W, s) THEN 4 ELSE 0
  BY <1>2, SeparatorAt
<1>4. Separator(B, j) = IF Two(B, j) THEN 2 ELSE IF Four(B, j) THEN 4 ELSE 0
  BY SeparatorAt
<1>5. Separator(W, s) > 0 /\ j + Separator(W, s) - 1 <= m
  BY <1>1, <1>2
<1>6. CASE Two(W, s)
  <2>1. j + 1 <= m
    BY <1>3, <1>5, <1>6, <1>1
  <2>2. B[j] = W[s] /\ B[j + 1] = W[s + 1]
    <3>1. j \in 1..m /\ j + 1 \in 1..m /\ pos + (j + 1) = s + 1
      BY <2>1, <1>1, <1>2
    <3> QED
      BY <3>1, <1>1, <1>2
  <2> QED
    BY <1>1, <1>4, <1>6, <2>1, <2>2 DEF Two, Ends
<1>7. CASE ~Two(W, s) /\ Four(W, s)
  <2>1. j + 3 <= m
    BY <1>3, <1>5, <1>7, <1>1
  <2>2. B[j] = W[s] /\ B[j + 1] = W[s + 1] /\ B[j + 2] = W[s + 2] /\ B[j + 3] = W[s + 3]
    <3>1. /\ j \in 1..m /\ j + 1 \in 1..m /\ j + 2 \in 1..m /\ j + 3 \in 1..m
          /\ pos + (j + 1) = s + 1 /\ pos + (j + 2) = s + 2 /\ pos + (j + 3) = s + 3
      BY <2>1, <1>1, <1>2
    <3> QED
      BY <3>1, <1>1, <1>2
  <2> QED
    BY <1>1, <1>4, <1>7, <2>1, <2>2 DEF Four, Ends
<1> QED
  BY <1>3, <1>5, <1>6, <1>7

-----------------------------------------------------------------------------
(* Where the frames are: n of them, in order, each with its two bytes       *)
(* together, and a separator between any two.                               *)
Whereabouts(at, n, W) == \A g \in 1..n : at[g] \in Nat \ {0} /\ at[g] + 1 <= Len(W)
Alone(at, n, W) ==
  \A g \in 1..n : /\ W[at[g] + 1] = Second(g)
                  /\ \A q \in 1..Len(W) : W[q] = First(g) <=> q = at[g]
Divides(W, s, from, to) ==
  s \in Nat /\ from + 2 <= s /\ Separator(W, s) > 0 /\ s + Separator(W, s) <= to
Divided(at, n, W) ==
  \A g, h \in 1..n : g < h => \E s : Divides(W, s, at[g], at[h])
Layout(W, at, n) ==
  /\ n \in Nat /\ W \in Seq(Byte)
  /\ Whereabouts(at, n, W) /\ Alone(at, n, W) /\ Divided(at, n, W)

(* After pos bytes, the frames up to but not f are behind.                  *)
Before(at, n, pos, f) ==
  \A g \in 1..n : /\ g < f => at[g] + 1 <= pos
                  /\ g >= f => pos < at[g]

(* The bytes of W after the first pos, or the first of them.                *)
Follows(B, W, pos) ==
  B \in Seq(Byte) /\ pos \in Nat /\ pos + Len(B) <= Len(W) /\ \A i \in 1..Len(B) : B[i] = W[pos + i]

Holds(block, g) == \E i \in DOMAIN block : Matches(block, Whole(g), i)

LEMMA HoldsWhere ==
  ASSUME NEW W, NEW at, NEW n, Layout(W, at, n), NEW B, NEW pos, Follows(B, W, pos),
         NEW k \in 1..Len(B), NEW g \in 1..n
  PROVE  Holds(SubSeq(B, 1, k - 1), g) <=> pos < at[g] /\ at[g] + 1 < pos + k
<1>0. /\ W \in Seq(Byte) /\ B \in Seq(Byte) /\ pos \in Nat /\ k \in Nat \ {0} /\ g \in Nat
      /\ at[g] \in Nat \ {0}
  BY DEF Layout, Follows, Whereabouts
<1>1. PICK a : a = at[g] /\ a \in Nat \ {0}
  BY <1>0
<1>2. PICK C : C = SubSeq(B, 1, k - 1)
  OBVIOUS
<1>3. k - 1 \in 0..Len(B)
  BY <1>0
<1>4. C \in Seq(Byte) /\ Len(C) = k - 1 /\ \A i \in 1..(k - 1) : C[i] = B[i]
  BY <1>0, <1>2, <1>3, Parts, Zenon
<1>5. \A i \in 1..(k - 1) : C[i] = W[pos + i]
  BY <1>0, <1>4 DEF Follows
<1>6. \A i \in 1..(k - 1) : pos + i \in 1..Len(W)
  BY <1>0 DEF Follows
<1>7. ASSUME NEW i \in 1..(k - 1)
      PROVE  Matches(C, Whole(g), i) <=> i + 1 <= k - 1 /\ C[i] = First(g) /\ C[i + 1] = Second(g)
  <2>1. Whole(g) = <<First(g), Second(g)>> /\ First(g) \in Byte /\ Second(g) \in Byte
    BY <1>0, ByteTypes
  <2>2. PICK x, y : x = First(g) /\ y = Second(g)
    OBVIOUS
  <2>3. x \in Byte /\ y \in Byte /\ i \in Nat \ {0}
    BY <2>1, <2>2
  <2>4. Matches(C, <<x, y>>, i) <=> i + 1 <= Len(C) /\ C[i] = x /\ C[i + 1] = y
    BY <1>4, <2>3, PairAt, Zenon
  <2> QED
    BY <1>4, <2>1, <2>2, <2>4
<1>8. \A q \in 1..Len(W) : W[q] = First(g) <=> q = a
  BY <1>1 DEF Layout, Alone
<1>9. W[a + 1] = Second(g)
  BY <1>1 DEF Layout, Alone
<1>10. ASSUME Holds(C, g)
       PROVE  pos < a /\ a + 1 < pos + k
  <2>1. PICK i \in 1..(k - 1) : Matches(C, Whole(g), i)
    BY <1>4, <1>10 DEF Holds
  <2>2. i + 1 <= k - 1 /\ W[pos + i] = First(g)
    BY <1>5, <1>7, <2>1
  <2>3. pos + i = a
    BY <1>6, <1>8, <2>2
  <2> QED
    BY <2>2, <2>3, <1>0
<1>11. ASSUME pos < a, a + 1 < pos + k
       PROVE  Holds(C, g)
  <2>0. PICK i : i = a - pos
    OBVIOUS
  <2>1. i \in 1..(k - 1) /\ i + 1 \in 1..(k - 1) /\ pos + i = a /\ pos + (i + 1) = a + 1
    <3>1. pos \in Nat /\ k \in Nat /\ a \in Nat
      BY <1>0, <1>1
    <3> QED
      BY <1>11, <2>0, <3>1
  <2>2. C[i] = W[a] /\ C[i + 1] = W[a + 1]
    BY <1>5, <2>1
  <2>3. a \in 1..Len(W)
    BY <1>6, <2>1
  <2>4. Matches(C, Whole(g), i)
    <3>1. C[i] = First(g) /\ C[i + 1] = Second(g)
      BY <1>8, <1>9, <2>2, <2>3
    <3>2. i + 1 <= k - 1
      BY <2>1
    <3> QED
      BY <1>7, <2>1, <3>1, <3>2
  <2> QED
    BY <1>4, <2>1, <2>4 DEF Holds
<1> QED
  BY <1>1, <1>2, <1>10, <1>11

(* No byte of a frame is part of a separator.                               *)
LEMMA Beside ==
  ASSUME NEW W, NEW at, NEW n, Layout(W, at, n), NEW B, NEW pos, Follows(B, W, pos),
         NEW k \in 1..Len(B), Separator(B, k) > 0, NEW g \in 1..n
  PROVE  /\ Separator(B, k) \in {2, 4} /\ k + Separator(B, k) - 1 <= Len(B)
         /\ at[g] + 1 < pos + k \/ at[g] > pos + k + Separator(B, k) - 1
<1>0. /\ W \in Seq(Byte) /\ B \in Seq(Byte) /\ pos \in Nat /\ k \in Nat \ {0} /\ g \in Nat \ {0}
      /\ at[g] \in Nat \ {0} /\ at[g] + 1 <= Len(W)
  BY DEF Layout, Follows, Whereabouts
<1>1. PICK l : l = Separator(B, k)
  OBVIOUS
<1>2. l \in {2, 4} /\ k + l - 1 <= Len(B) /\ \A j \in k..(k + l - 1) : B[j].frame = 0
  BY <1>0, <1>1, SeparatorIs, Zenon
<1>3. PICK a : a = at[g] /\ a \in Nat \ {0} /\ a + 1 <= Len(W)
  BY <1>0
<1>4. \A j \in 1..Len(B) : B[j] = W[pos + j]
  BY DEF Follows
<1>5. W[a].frame = g /\ W[a + 1].frame = g
  <2>1. W[a] = First(g) /\ W[a + 1] = Second(g)
    BY <1>0, <1>3 DEF Layout, Alone
  <2> QED
    BY <1>0, <2>1, ByteTypes
<1>6. ASSUME NEW q \in {a, a + 1}, pos + k <= q, q <= pos + k + l - 1
      PROVE  FALSE
  <2>1. PICK j : j = q - pos /\ j \in k..(k + l - 1) /\ pos + j = q
    BY <1>0, <1>2, <1>3, <1>6
  <2>2. j \in 1..Len(B)
    BY <1>0, <1>2, <2>1
  <2>3. W[q].frame = 0
    BY <1>2, <1>4, <2>1, <2>2
  <2> QED
    BY <1>0, <1>5, <2>3
<1>7. a + 1 < pos + k \/ a > pos + k + l - 1
  BY <1>0, <1>2, <1>3, <1>6
<1> QED
  BY <1>1, <1>2, <1>3, <1>7

(* What comes with the first event, and what is behind it then.             *)
Dispatch(at, n, B, pos, k, l, f) ==
  /\ l \in {2, 4} /\ k \in 1..Len(B) /\ k + l - 1 <= Len(B)
  /\ \/ /\ \A g \in 1..n : ~Holds(SubSeq(B, 1, k - 1), g)
        /\ Before(at, n, pos + k + l - 1, f)
     \/ /\ f \in 1..n /\ \A g \in 1..n : Holds(SubSeq(B, 1, k - 1), g) <=> g = f
        /\ Before(at, n, pos + k + l - 1, f + 1)

LEMMA EventPlace ==
  ASSUME NEW W, NEW at, NEW n, Layout(W, at, n), NEW B, NEW pos, Follows(B, W, pos),
         NEW k \in Ends(B), \A j \in Ends(B) : k <= j,
         NEW f \in 1..(n + 1), Before(at, n, pos, f),
         NEW l, l = Separator(B, k)
  PROVE  Dispatch(at, n, B, pos, k, l, f)
<1>0. /\ W \in Seq(Byte) /\ B \in Seq(Byte) /\ pos \in Nat /\ n \in Nat
      /\ \A g \in 1..n : at[g] \in Nat \ {0}
  BY DEF Layout, Follows, Whereabouts
<1>k. k \in 1..Len(B) /\ k \in Nat \ {0} /\ Separator(B, k) > 0
  BY <1>0 DEF Ends
<1>l. l \in {2, 4} /\ k + l - 1 <= Len(B)
  BY <1>0, <1>k, SeparatorIs, Zenon
<1> DEFINE In(g) == Holds(SubSeq(B, 1, k - 1), g)
<1>1. \A g \in 1..n : In(g) <=> pos < at[g] /\ at[g] + 1 < pos + k
  BY <1>k, HoldsWhere, Zenon
<1>2. \A g \in 1..n : at[g] + 1 < pos + k \/ at[g] > pos + k + l - 1
  BY <1>k, Beside, Zenon
<1> HIDE DEF In
<1>3. ASSUME NEW g \in 1..n, NEW h \in 1..n, g < h, In(g), In(h)
      PROVE  FALSE
  <2>1. PICK s : Divides(W, s, at[g], at[h])
    BY <1>3 DEF Layout, Divided
  <2>2. PICK d : d = Separator(W, s)
    OBVIOUS
  <2>a. PICK a, b : a = at[g] /\ b = at[h]
    OBVIOUS
  <2>3. /\ s \in Nat /\ a \in Nat /\ b \in Nat /\ a + 2 <= s /\ d > 0 /\ s + d <= b
        /\ pos < a /\ b + 1 < pos + k
    BY <1>0, <1>1, <1>3, <2>1, <2>2, <2>a DEF Divides
  <2>d. d \in {2, 4}
    <3>1. s \in Nat \ {0} /\ Separator(W, s) > 0
      BY <2>2, <2>3
    <3> QED
      BY <1>0, <2>2, <3>1, SeparatorIs, Zenon
  <2>m. PICK m : m = Len(B) /\ m \in Nat /\ k <= m
    BY <1>0, <1>k
  <2>4. PICK j : j = s - pos /\ j \in Nat \ {0} /\ pos + j = s /\ j < k /\ j + d - 1 <= m
    BY <1>0, <1>k, <2>3, <2>d, <2>m
  <2>5. Separator(W, pos + j) > 0 /\ j + Separator(W, pos + j) - 1 <= Len(B)
    BY <2>2, <2>3, <2>4, <2>m
  <2>6. pos + Len(B) <= Len(W) /\ \A i \in 1..Len(B) : B[i] = W[pos + i]
    BY DEF Follows
  <2>7. j \in Ends(B)
    BY <1>0, <2>4, <2>5, <2>6, SeparatorInside, Zenon
  <2>8. k <= j
    BY <2>7
  <2> QED
    BY <1>k, <2>4, <2>8
<1>4. \A g \in 1..n : (g < f => at[g] + 1 <= pos) /\ (g >= f => pos < at[g])
  BY DEF Before
<1>5. CASE \A g \in 1..n : ~In(g)
  <2>1. Before(at, n, pos + k + l - 1, f)
    <3>1. ASSUME NEW g \in 1..n
          PROVE  /\ g < f => at[g] + 1 <= pos + k + l - 1
                 /\ g >= f => pos + k + l - 1 < at[g]
      <4>1. PICK a : a = at[g] /\ a \in Nat
        BY <1>0
      <4>2. /\ a + 1 < pos + k \/ a > pos + k + l - 1
            /\ ~(pos < a /\ a + 1 < pos + k)
            /\ g < f => a + 1 <= pos
            /\ g >= f => pos < a
        BY <1>1, <1>2, <1>4, <1>5, <4>1
      <4>3. g < f => a + 1 <= pos + k + l - 1
        BY <1>0, <1>k, <1>l, <4>1, <4>2
      <4>4. g >= f => pos + k + l - 1 < a
        BY <1>0, <1>k, <1>l, <4>1, <4>2
      <4> QED
        BY <4>1, <4>3, <4>4
    <3> QED
      BY <3>1 DEF Before
  <2> QED
    BY <1>k, <1>l, <1>5, <2>1 DEF In, Dispatch
<1>6. CASE \E g \in 1..n : In(g)
  <2>1. PICK h \in 1..n : In(h)
    BY <1>6
  <2>2. h >= f
    <3>1. PICK a : a = at[h] /\ a \in Nat
      BY <1>0
    <3>2. pos < a /\ (h < f => a + 1 <= pos)
      BY <1>1, <1>4, <2>1, <3>1
    <3> QED
      BY <1>0, <3>1, <3>2
  <2>3. f \in 1..n
    BY <1>0, <2>2
  <2>4. In(f)
    <3>1. CASE h = f
      BY <2>1, <3>1
    <3>2. CASE h # f
      <4>1. f < h
        BY <2>2, <2>3, <3>2
      <4>2. PICK s : Divides(W, s, at[f], at[h])
        BY <2>3, <4>1 DEF Layout, Divided
      <4>3. PICK a, b : a = at[f] /\ b = at[h]
        OBVIOUS
      <4>4. PICK d : d = Separator(W, s)
        OBVIOUS
      <4>5. /\ a \in Nat /\ b \in Nat /\ s \in Nat /\ a + 2 <= s /\ d > 0 /\ s + d <= b
            /\ b + 1 < pos + k /\ pos < a
        BY <1>0, <1>1, <1>4, <2>1, <2>3, <4>2, <4>3, <4>4 DEF Divides
      <4>d. d \in {2, 4}
        <5>1. s \in Nat \ {0} /\ Separator(W, s) > 0
          BY <4>4, <4>5
        <5> QED
          BY <1>0, <4>4, <5>1, SeparatorIs, Zenon
      <4>6. a + 1 < pos + k
        BY <1>0, <1>k, <4>5, <4>d
      <4> QED
        BY <1>1, <2>3, <4>3, <4>5, <4>6
    <3> QED
      BY <3>1, <3>2
  <2>5. \A g \in 1..n : In(g) <=> g = f
    BY <1>3, <2>3, <2>4
  <2>6. Before(at, n, pos + k + l - 1, f + 1)
    <3>1. ASSUME NEW g \in 1..n
          PROVE  /\ g < f + 1 => at[g] + 1 <= pos + k + l - 1
                 /\ g >= f + 1 => pos + k + l - 1 < at[g]
      <4>1. PICK a : a = at[g] /\ a \in Nat
        BY <1>0
      <4>2. /\ a + 1 < pos + k \/ a > pos + k + l - 1
            /\ (pos < a /\ a + 1 < pos + k) <=> g = f
            /\ g < f => a + 1 <= pos
            /\ g >= f => pos < a
        BY <1>1, <1>2, <1>4, <2>5, <4>1
      <4>3. g < f + 1 => a + 1 <= pos + k + l - 1
        BY <1>0, <1>k, <1>l, <4>1, <4>2
      <4>4. g >= f + 1 => pos + k + l - 1 < a
        BY <1>0, <1>k, <1>l, <4>1, <4>2
      <4> QED
        BY <4>1, <4>3, <4>4
    <3> QED
      BY <3>1 DEF Before
  <2> QED
    BY <1>k, <1>l, <2>3, <2>5, <2>6 DEF In, Dispatch
<1> QED
  BY <1>5, <1>6

-----------------------------------------------------------------------------
(* Bytes cut in two, and put together.                                      *)
LEMMA Lengths == \A s \in Seq(Byte) : Len(s) \in Nat
OBVIOUS

LEMMA FollowsParts ==
  ASSUME NEW B, NEW W, NEW pos, Follows(B, W, pos), NEW n \in 0..Len(B)
  PROVE  /\ Follows(SubSeq(B, 1, n), W, pos) /\ Len(SubSeq(B, 1, n)) = n
         /\ Follows(SubSeq(B, n + 1, Len(B)), W, pos + n)
         /\ Len(SubSeq(B, n + 1, Len(B))) = Len(B) - n
<1>1. B \in Seq(Byte) /\ pos \in Nat /\ pos + Len(B) <= Len(W) /\ \A i \in 1..Len(B) : B[i] = W[pos + i]
  BY DEF Follows
<1>2. PICK m : m = Len(B) /\ m \in Nat
  BY <1>1
<1>3. PICK L, R : L = SubSeq(B, 1, n) /\ R = SubSeq(B, n + 1, m)
  OBVIOUS
<1>4. /\ L \in Seq(Byte) /\ Len(L) = n /\ \A k \in 1..n : L[k] = B[k]
      /\ R \in Seq(Byte) /\ Len(R) = m - n /\ \A k \in 1..(m - n) : R[k] = B[n + k]
  BY <1>1, <1>2, <1>3, Parts, Zenon
<1>5. PICK M : M = Len(W) /\ pos + m <= M
  BY <1>1, <1>2
<1>6. n \in Nat /\ n <= m
  BY <1>2
<1>7. Follows(L, W, pos)
  <2>1. pos + n <= M
    <3>1. ASSUME M \in Int
          PROVE  pos + n <= M
      BY <1>1, <1>2, <1>5, <1>6, <3>1
    <3>2. CASE n = m
      BY <1>5, <3>2
    <3> QED
      BY <1>1, <1>2, <1>5, <1>6
  <2>2. \A i \in 1..n : L[i] = W[pos + i]
    <3>1. \A i \in 1..n : i \in 1..m
      BY <1>2, <1>6
    <3> QED
      BY <1>1, <1>2, <1>4, <3>1
  <2> QED
    BY <1>1, <1>4, <1>5, <2>1, <2>2 DEF Follows
<1>8. Follows(R, W, pos + n)
  <2>1. pos + n \in Nat /\ (pos + n) + (m - n) = pos + m
    BY <1>1, <1>2, <1>6
  <2>2. ASSUME NEW i \in 1..(m - n)
        PROVE  R[i] = W[(pos + n) + i]
    <3>1. n + i \in 1..m /\ pos + (n + i) = (pos + n) + i
      BY <1>1, <1>2, <1>6
    <3> QED
      BY <1>1, <1>2, <1>4, <3>1
  <2> QED
    BY <1>4, <1>5, <2>1, <2>2 DEF Follows
<1> QED
  BY <1>2, <1>3, <1>4, <1>7, <1>8

LEMMA FollowsJoins ==
  ASSUME NEW A, NEW B, NEW W, NEW pos, Follows(A, W, pos), Follows(B, W, pos + Len(A))
  PROVE  Follows(A \o B, W, pos) /\ Len(A \o B) = Len(A) + Len(B)
<1>1. /\ A \in Seq(Byte) /\ B \in Seq(Byte) /\ pos \in Nat
      /\ \A i \in 1..Len(A) : A[i] = W[pos + i]
      /\ \A i \in 1..Len(B) : B[i] = W[(pos + Len(A)) + i]
      /\ (pos + Len(A)) + Len(B) <= Len(W)
  BY DEF Follows
<1>2. PICK a : a = Len(A) /\ a \in Nat
  BY <1>1, Lengths
<1>3. PICK b : b = Len(B) /\ b \in Nat
  BY <1>1, Lengths
<1>4. /\ A \o B \in Seq(Byte) /\ Len(A \o B) = a + b
      /\ \A i \in 1..a : (A \o B)[i] = A[i]
      /\ \A i \in 1..b : (A \o B)[a + i] = B[i]
  BY <1>1, <1>2, <1>3
<1>5. ASSUME NEW i \in 1..(a + b)
      PROVE  (A \o B)[i] = W[pos + i]
  <2>1. CASE i <= a
    BY <1>1, <1>2, <1>4, <2>1
  <2>2. CASE i > a
    <3>0. PICK j : j = i - a
      OBVIOUS
    <3>1. j \in 1..b /\ i = a + j /\ (pos + a) + j = pos + i
      BY <1>1, <1>2, <1>3, <2>2, <3>0
    <3> QED
      BY <1>1, <1>2, <1>3, <1>4, <3>1
  <2> QED
    BY <1>2, <1>3, <2>1, <2>2
<1>6. pos + (a + b) = (pos + a) + b
  BY <1>1, <1>2, <1>3
<1> QED
  BY <1>1, <1>2, <1>3, <1>4, <1>5, <1>6 DEF Follows

(* How far the pump is: what it has of the bytes W, what is still to come,  *)
(* and the frames it has dealt with.                                        *)
Received(b, p, w, W, pos) ==
  /\ Follows(b, W, pos) /\ Follows(p, W, pos + Len(b)) /\ Follows(w, W, pos + Len(b) + Len(p))
  /\ pos + Len(b) + Len(p) + Len(w) = Len(W)
  /\ p = <<>> \/ (Len(p) = 1 /\ p[1].half = 1)
Dealt(W, at, pos, f, s, t) ==
  /\ Layout(W, at, Len(s)) /\ (W # <<>> => W[Len(W)].half # 1)
  /\ f \in 1..(Len(s) + 1) /\ Before(at, Len(s), pos, f)
  /\ t = Texts(SubSeq(s, 1, f - 1))

Complete(t, s) == t \in {Texts(s), Texts(Front(s))}
ParserInv ==
  /\ pc = "read" => \E W, at, pos, f : Received(buf, partial, wire, W, pos)
                                       /\ Dealt(W, at, pos, f, script, said)
  /\ pc # "read" /\ ~error /\ ~disconnected => Complete(said, script)

(* A read: what of it is not decoded is the first half of a character.      *)
LEMMA DecodedParts ==
  ASSUME NEW bytes \in Seq(Byte)
  PROVE  \E m \in 0..Len(bytes) :
           /\ Decoded(bytes) = SubSeq(bytes, 1, m) /\ Len(Decoded(bytes)) = m
           /\ m = Len(bytes) \/ (m = Len(bytes) - 1 /\ bytes[m + 1].half = 1)
<1>1. PICK m : m = Len(bytes) /\ m \in Nat
  OBVIOUS
<1>2. CASE bytes # <<>> /\ Last(bytes).half = 1
  <2>1. m \in Nat \ {0} /\ bytes[m].half = 1 /\ Decoded(bytes) = SubSeq(bytes, 1, m - 1)
    BY <1>1, <1>2 DEF Decoded, Front, Last
  <2>2. m - 1 \in 0..Len(bytes) /\ (m - 1) + 1 = m
    BY <1>1, <2>1
  <2>3. Len(SubSeq(bytes, 1, m - 1)) = m - 1
    BY <2>2, Parts, Zenon
  <2> QED
    BY <1>1, <2>1, <2>2, <2>3
<1>3. CASE ~(bytes # <<>> /\ Last(bytes).half = 1)
  <2>1. Decoded(bytes) = bytes /\ SubSeq(bytes, 1, m) = bytes /\ m \in 0..Len(bytes)
    BY <1>1, <1>3 DEF Decoded
  <2> QED
    BY <1>1, <2>1
<1> QED
  BY <1>2, <1>3

LEMMA ReadKeeps ==
  ASSUME NEW b, NEW p, NEW w, NEW W, NEW pos, Received(b, p, w, W, pos), Len(W) \in Nat,
         NEW n \in Nat, n <= Len(w),
         NEW bytes, bytes = p \o SubSeq(w, 1, n), NEW text, text = Decoded(bytes)
  PROVE  Received(b \o text, SubSeq(bytes, Len(text) + 1, Len(bytes)),
                  SubSeq(w, n + 1, Len(w)), W, pos)
<1>0. /\ Follows(b, W, pos) /\ Follows(p, W, pos + Len(b)) /\ Follows(w, W, pos + Len(b) + Len(p))
      /\ pos + Len(b) + Len(p) + Len(w) = Len(W) /\ pos \in Nat
      /\ b \in Seq(Byte) /\ p \in Seq(Byte) /\ w \in Seq(Byte)
  BY DEF Received, Follows
<1>l. PICK lb : lb = Len(b) /\ lb \in Nat
  BY <1>0, Lengths
<1>m. PICK lp : lp = Len(p) /\ lp \in Nat
  BY <1>0, Lengths
<1>n. PICK lw : lw = Len(w) /\ lw \in Nat /\ n \in 0..lw
  BY <1>0, Lengths
<1>1. /\ Follows(SubSeq(w, 1, n), W, pos + lb + lp) /\ Len(SubSeq(w, 1, n)) = n
      /\ Follows(SubSeq(w, n + 1, lw), W, (pos + lb + lp) + n)
      /\ Len(SubSeq(w, n + 1, lw)) = lw - n
  BY <1>0, <1>l, <1>m, <1>n, FollowsParts, Zenon
<1>2. Follows(bytes, W, pos + lb) /\ Len(bytes) = lp + n
  <2>1. Follows(SubSeq(w, 1, n), W, (pos + lb) + Len(p))
    BY <1>1, <1>m
  <2> QED
    BY <1>0, <1>1, <1>l, <1>m, <2>1, FollowsJoins
<1>3. bytes \in Seq(Byte)
  BY <1>2 DEF Follows
<1>4. PICK m \in 0..Len(bytes) :
           /\ text = SubSeq(bytes, 1, m) /\ Len(text) = m
           /\ m = Len(bytes) \/ (m = Len(bytes) - 1 /\ bytes[m + 1].half = 1)
  BY <1>3, DecodedParts
<1>5. /\ Follows(text, W, pos + lb)
      /\ Follows(SubSeq(bytes, m + 1, Len(bytes)), W, (pos + lb) + m)
      /\ Len(SubSeq(bytes, m + 1, Len(bytes))) = Len(bytes) - m
  BY <1>2, <1>4, FollowsParts, Zenon
<1>6. Follows(b \o text, W, pos) /\ Len(b \o text) = lb + m
  BY <1>0, <1>4, <1>5, <1>l, FollowsJoins
<1>7. PICK r : r = SubSeq(bytes, m + 1, Len(bytes))
  OBVIOUS
<1>8. Len(r) = (lp + n) - m /\ m \in 0..(lp + n) /\ r \in Seq(Byte)
  BY <1>2, <1>4, <1>5, <1>7 DEF Follows
<1>9. r = <<>> \/ (Len(r) = 1 /\ r[1].half = 1)
  <2>1. CASE m = lp + n
    <3>1. Len(r) = 0
      BY <1>8, <1>m, <2>1
    <3> QED
      BY <1>8, <3>1
  <2>2. CASE m = (lp + n) - 1 /\ bytes[m + 1].half = 1
    <3>1. Len(r) = 1
      BY <1>8, <1>m, <2>2
    <3>2. \A i \in 1..(Len(bytes) - m) : SubSeq(bytes, m + 1, Len(bytes))[i] = bytes[m + i]
      BY <1>3, <1>4, Parts, Zenon
    <3>3. 1 \in 1..(Len(bytes) - m)
      BY <1>2, <1>4, <1>m, <2>2
    <3>4. r[1] = bytes[m + 1]
      BY <1>7, <3>2, <3>3
    <3> QED
      BY <2>2, <3>1, <3>4
  <2> QED
    BY <1>2, <1>4, <2>1, <2>2
<1>10. /\ (pos + lb) + m = pos + (lb + m)
       /\ (pos + lb + lp) + n = pos + (lb + m) + ((lp + n) - m)
       /\ pos + (lb + m) + ((lp + n) - m) + (lw - n) = pos + lb + lp + lw
  <2>1. /\ pos \in Nat /\ lb \in Nat /\ lp \in Nat /\ lw \in Nat /\ n \in Nat /\ m \in Nat
    BY <1>0, <1>l, <1>m, <1>n, <1>4
  <2> QED
    BY ONLY <2>1
<1>11. Follows(r, W, pos + Len(b \o text))
  BY <1>5, <1>6, <1>7, <1>10
<1>12. Follows(SubSeq(w, n + 1, lw), W, pos + Len(b \o text) + Len(r))
  BY <1>1, <1>6, <1>8, <1>10
<1>13. pos + Len(b \o text) + Len(r) + Len(SubSeq(w, n + 1, lw)) = Len(W)
  BY <1>0, <1>1, <1>6, <1>8, <1>10, <1>l, <1>m, <1>n
<1> QED
  BY <1>4, <1>6, <1>7, <1>9, <1>11, <1>12, <1>13, <1>n DEF Received

-----------------------------------------------------------------------------
(* What an event, and the end of the socket, come to.                       *)

(* An event: the frame that is next has been dealt with, or none.           *)
EventDealt(W, at, f, s, t, E, rest, p, w) ==
  \E q : /\ Received(rest, p, w, W, q)
         /\ \/ E = {} /\ Dealt(W, at, q, f, s, t)
            \/ E = {f} /\ f \in DOMAIN s /\ Dealt(W, at, q, f + 1, s, t \o s[f].content)

LEMMA EventDeals ==
  ASSUME NEW b, NEW p, NEW w, NEW W, NEW pos, Received(b, p, w, W, pos),
         NEW at, NEW f, NEW s \in Seq(ScriptFrame), NEW t, Dealt(W, at, pos, f, s, t),
         NEW k \in Ends(b), \A j \in Ends(b) : k <= j,
         NEW rest, rest = SubSeq(b, k + Separator(b, k), Len(b)),
         NEW E, E = {g \in DOMAIN s : Holds(SubSeq(b, 1, k - 1), g)}
  PROVE  EventDealt(W, at, f, s, t, E, rest, p, w)
<1>0. /\ Follows(b, W, pos) /\ Follows(p, W, pos + Len(b)) /\ Follows(w, W, pos + Len(b) + Len(p))
      /\ pos + Len(b) + Len(p) + Len(w) = Len(W) /\ pos \in Nat
      /\ b \in Seq(Byte) /\ p \in Seq(Byte) /\ w \in Seq(Byte)
      /\ p = <<>> \/ (Len(p) = 1 /\ p[1].half = 1)
  BY DEF Received, Follows
<1>1. PICK n : n = Len(s) /\ n \in Nat /\ DOMAIN s = 1..n
  OBVIOUS
<1>2. PICK l : l = Separator(b, k)
  OBVIOUS
<1>d. /\ Layout(W, at, n) /\ (W # <<>> => W[Len(W)].half # 1)
      /\ f \in 1..(n + 1) /\ Before(at, n, pos, f)
      /\ t = Texts(SubSeq(s, 1, f - 1))
  BY <1>1 DEF Dealt
<1>e. Dispatch(at, n, b, pos, k, l, f)
  <2>1. Layout(W, at, n) /\ Follows(b, W, pos) /\ f \in 1..(n + 1) /\ Before(at, n, pos, f)
    BY <1>0, <1>d
  <2> QED
    BY <2>1, <1>2, EventPlace
<1> DEFINE In(g) == Holds(SubSeq(b, 1, k - 1), g)
<1>3. /\ l \in {2, 4} /\ k \in 1..Len(b) /\ k + l - 1 <= Len(b)
      /\ \/ (\A g \in 1..n : ~In(g)) /\ Before(at, n, pos + k + l - 1, f)
         \/ /\ f \in 1..n /\ \A g \in 1..n : In(g) <=> g = f
            /\ Before(at, n, pos + k + l - 1, f + 1)
  BY <1>e DEF Dispatch
<1>h. E = {g \in 1..n : In(g)}
  BY <1>1
<1> HIDE DEF In
<1>4. PICK q : q = pos + k + l - 1
  OBVIOUS
<1>5. Received(rest, p, w, W, q)
  <2>1. PICK lb : lb = Len(b) /\ lb \in Nat
    BY <1>0, Lengths
  <2>2. PICK c : c = k + l - 1 /\ c \in 0..lb /\ c + 1 = k + l
    <3>1. k \in Nat /\ l \in Nat /\ k + l - 1 <= lb /\ k >= 1 /\ l >= 2
      BY <1>3, <2>1
    <3>2. k + l - 1 \in 0..lb /\ (k + l - 1) + 1 = k + l
      BY <2>1, <3>1
    <3> QED
      BY <3>2
  <2>3. rest = SubSeq(b, c + 1, lb)
    BY <1>2, <2>1, <2>2
  <2>4. Follows(rest, W, pos + c) /\ Len(rest) = lb - c
    <3>1. Follows(b, W, pos) /\ c \in 0..Len(b)
      BY <1>0, <2>1, <2>2
    <3>2. Follows(SubSeq(b, c + 1, Len(b)), W, pos + c) /\ Len(SubSeq(b, c + 1, Len(b))) = Len(b) - c
      BY <3>1, FollowsParts, Zenon
    <3> QED
      BY <2>1, <2>3, <3>2
  <2>5. q = pos + c /\ (pos + c) + (lb - c) = pos + lb
    <3>1. pos \in Nat /\ k \in Nat /\ l \in Nat /\ c \in Nat /\ lb \in Nat
      BY <1>0, <1>3, <2>1, <2>2, SMTT(30)
    <3>2. c = k + l - 1 /\ q = pos + k + l - 1
      BY <1>4, <2>2, Zenon
    <3> QED
      BY <3>1, <3>2, SMTT(30)
  <2> QED
    BY <1>0, <2>1, <2>4, <2>5 DEF Received
<1>6. CASE (\A g \in 1..n : ~In(g)) /\ Before(at, n, q, f)
  <2>1. E = {}
    BY <1>6, <1>h
  <2>2. Dealt(W, at, q, f, s, t)
    BY <1>1, <1>d, <1>6 DEF Dealt
  <2> QED
    BY <1>5, <2>1, <2>2 DEF EventDealt
<1>7. CASE f \in 1..n /\ (\A g \in 1..n : In(g) <=> g = f) /\ Before(at, n, q, f + 1)
  <2>1. E = {f} /\ f \in DOMAIN s
    BY <1>1, <1>7, <1>h
  <2>2. t \o s[f].content = Texts(SubSeq(s, 1, f))
    <3>1. PICK x : x = SubSeq(s, 1, f - 1)
      OBVIOUS
    <3>2. f - 1 \in 0..Len(s) /\ f \in 0..Len(s) /\ f \in Nat
      BY <1>1, <1>7
    <3>3. x \in Seq(ScriptFrame) /\ Len(x) = f - 1 /\ \A i \in 1..(f - 1) : x[i] = s[i]
      BY <3>1, <3>2, Parts, Zenon
    <3>4. PICK y : y = SubSeq(s, 1, f)
      OBVIOUS
    <3>5. y \in Seq(ScriptFrame) /\ Len(y) = f /\ \A i \in 1..f : y[i] = s[i]
      BY <3>2, <3>4, Parts, Zenon
    <3>6. s[f] \in ScriptFrame
      BY <2>1
    <3>7. PICK z : z = s[f] /\ z \in ScriptFrame
      BY <3>6
    <3>8. Append(x, z) = y
      <4>1. Append(x, z) \in Seq(ScriptFrame) /\ Len(Append(x, z)) = f
        BY <3>2, <3>3, <3>7
      <4>2. \A i \in 1..f : Append(x, z)[i] = y[i]
        BY <3>2, <3>3, <3>5, <3>7
      <4> QED
        BY <3>5, <4>1, <4>2, SeqEqual
    <3> QED
      BY <1>d, <3>1, <3>3, <3>4, <3>7, <3>8, TextsMore
  <2>3. (f + 1) - 1 = f /\ f + 1 \in 1..(n + 1)
    BY <1>1, <1>7
  <2>4. Dealt(W, at, q, f + 1, s, t \o s[f].content)
    BY <1>1, <1>d, <1>7, <2>2, <2>3 DEF Dealt
  <2> QED
    BY <1>5, <2>1, <2>4 DEF EventDealt
<1> QED
  BY <1>3, <1>4, <1>6, <1>7

(* The socket is at its end: what has been dealt with is all of it, or all  *)
(* but the last frame.                                                      *)
LEMMA EndDeals ==
  ASSUME NEW b, NEW p, NEW W, NEW pos, Received(b, p, <<>>, W, pos),
         NEW at, NEW f, NEW s \in Seq(ScriptFrame), NEW t, Dealt(W, at, pos, f, s, t),
         Ends(b) = {}
  PROVE  Complete(t, s)
<1>0. /\ Follows(b, W, pos) /\ Follows(p, W, pos + Len(b))
      /\ pos + Len(b) + Len(p) + 0 = Len(W) /\ pos \in Nat
      /\ b \in Seq(Byte) /\ p \in Seq(Byte)
      /\ p = <<>> \/ (Len(p) = 1 /\ p[1].half = 1)
  BY DEF Received, Follows
<1>1. PICK n : n = Len(s) /\ n \in Nat /\ DOMAIN s = 1..n
  OBVIOUS
<1>d. /\ Layout(W, at, n) /\ (W # <<>> => W[Len(W)].half # 1) /\ W \in Seq(Byte)
      /\ f \in 1..(n + 1) /\ Before(at, n, pos, f)
      /\ t = Texts(SubSeq(s, 1, f - 1))
  BY <1>1 DEF Dealt, Layout
<1>b. PICK lb : lb = Len(b) /\ lb \in Nat
  BY <1>0, Lengths
<1>w. PICK lw : lw = Len(W) /\ lw \in Nat
  BY <1>d, Lengths
<1>2. p = <<>> /\ lw = pos + lb
  <2>1. ASSUME Len(p) = 1, p[1].half = 1
        PROVE  FALSE
    <3>1. lw = (pos + lb) + 1
      BY <1>0, <1>b, <1>w, <2>1
    <3>2. p[1] = W[(pos + lb) + 1]
      BY <1>0, <1>b, <2>1 DEF Follows
    <3>3. W # <<>>
      <4>1. lw # 0
        BY <1>0, <1>b, <3>1
      <4>2. Len(<<>>) = 0
        OBVIOUS
      <4> QED
        BY <1>w, <4>1, <4>2
    <3> QED
      BY <1>d, <1>w, <2>1, <3>1, <3>2, <3>3
  <2>2. p = <<>>
    BY <1>0, <2>1
  <2>3. Len(p) = 0
    BY <2>2
  <2> QED
    BY <1>0, <1>b, <1>w, <2>2, <2>3
<1>3. f \in {n, n + 1}
  <2>1. SUFFICES ASSUME f < n
                 PROVE  FALSE
    BY <1>1, <1>d
  <2>2. f \in 1..n /\ n \in 1..n
    BY <1>1, <1>d, <2>1
  <2>3. PICK v : Divides(W, v, at[f], at[n])
    BY <1>d, <2>1, <2>2 DEF Layout, Divided
  <2>4. PICK d : d = Separator(W, v)
    OBVIOUS
  <2>5. PICK a, c : a = at[f] /\ c = at[n]
    OBVIOUS
  <2>6. a \in Nat /\ c \in Nat /\ c + 1 <= lw /\ pos < a
    BY <1>d, <1>w, <2>2, <2>5 DEF Layout, Whereabouts, Before
  <2>7. v \in Nat \ {0} /\ a + 2 <= v /\ d > 0 /\ v + d <= c
    BY <2>3, <2>4, <2>5, <2>6 DEF Divides
  <2>8. d \in {2, 4}
    BY <1>d, <2>4, <2>7, SeparatorIs
  <2>9. PICK j : j = v - pos
    OBVIOUS
  <2>10. j \in Nat \ {0} /\ pos + j = v /\ j + d - 1 <= lb
    <3>1. pos \in Nat /\ a \in Nat /\ c \in Nat /\ v \in Nat /\ d \in Nat /\ lb \in Nat
      BY <1>0, <1>b, <2>6, <2>7, <2>8
    <3>2. pos < a /\ a + 2 <= v /\ v + d <= c /\ c + 1 <= pos + lb
      BY <1>2, <2>6, <2>7
    <3> QED
      BY <2>9, <3>1, <3>2
  <2>11. Separator(W, pos + j) > 0 /\ j + Separator(W, pos + j) - 1 <= Len(b)
    BY <1>b, <2>4, <2>7, <2>10
  <2>12. pos + Len(b) <= Len(W) /\ \A i \in 1..Len(b) : b[i] = W[pos + i]
    BY <1>0 DEF Follows
  <2>13. j \in Ends(b)
    BY <1>0, <1>d, <2>10, <2>11, <2>12, SeparatorInside, Zenon
  <2> QED
    BY <2>13
<1>4. CASE f = n + 1
  <2>1. f - 1 = n /\ SubSeq(s, 1, n) = s
    BY <1>1, <1>4
  <2> QED
    BY <1>d, <2>1 DEF Complete
<1>5. CASE f = n
  BY <1>1, <1>d, <1>5 DEF Complete, Front
<1> QED
  BY <1>3, <1>4, <1>5

-----------------------------------------------------------------------------
(* The bytes of a script, frame by frame.                                   *)
Piece(p, g) ==
  /\ p \in Seq(Byte) /\ Len(p) >= 2 /\ p[1] = First(g) /\ p[2] = Second(g)
  /\ \A i \in 3..Len(p) : p[i].frame = 0 /\ p[i].half # 1
Parting(p) == \E s \in 3..Len(p) : Separator(p, s) > 0

Ordered(W, at, n) ==
  /\ Layout(W, at, n) /\ (W # <<>> => W[Len(W)].half # 1)
  /\ \A q \in 1..Len(W) : W[q].frame \in 0..n
Open(W, at, n) == \A g \in 1..n : \E s : Divides(W, s, at[g], Len(W) + 1)

(* What is a separator in a part is one in the whole.                       *)
LEMMA SeparatorOutside ==
  ASSUME NEW W \in Seq(Byte), NEW B, NEW pos, Follows(B, W, pos),
         NEW j \in Nat \ {0}, Separator(B, j) > 0
  PROVE  Separator(W, pos + j) = Separator(B, j)
<1>0. B \in Seq(Byte) /\ pos \in Nat /\ pos + Len(B) <= Len(W) /\ \A i \in 1..Len(B) : B[i] = W[pos + i]
  BY DEF Follows
<1>1. PICK m : m = Len(B) /\ m \in Nat
  BY <1>0, Lengths
<1>m. PICK M : M = Len(W) /\ M \in Nat /\ pos + m <= M
  BY <1>0, <1>1, Lengths
<1>2. PICK s : s = pos + j /\ s \in Nat \ {0}
  BY <1>0
<1>3. Separator(W, s) = IF Two(W, s) THEN 2 ELSE IF Four(W, s) THEN 4 ELSE 0
  BY <1>2, SeparatorAt
<1>4. Separator(B, j) = IF Two(B, j) THEN 2 ELSE IF Four(B, j) THEN 4 ELSE 0
  BY <1>0, SeparatorAt
<1>6. CASE Two(B, j)
  <2>1. j + 1 <= m
    BY <1>1, <1>6 DEF Two
  <2>2. j \in 1..m /\ j + 1 \in 1..m /\ pos + (j + 1) = s + 1 /\ s + 1 <= M
    BY <1>0, <1>1, <1>m, <1>2, <2>1
  <2>3. B[j] = W[s] /\ B[j + 1] = W[s + 1]
    BY <1>0, <1>1, <1>2, <2>2
  <2> QED
    BY <1>2, <1>3, <1>4, <1>6, <1>m, <2>2, <2>3 DEF Two
<1>7. CASE ~Two(B, j) /\ Four(B, j)
  <2>1. j + 3 <= m
    BY <1>1, <1>7 DEF Four
  <2>2. /\ j \in 1..m /\ j + 1 \in 1..m /\ j + 2 \in 1..m /\ j + 3 \in 1..m
        /\ pos + (j + 1) = s + 1 /\ pos + (j + 2) = s + 2 /\ pos + (j + 3) = s + 3
        /\ s + 3 <= M
    BY <1>0, <1>1, <1>m, <1>2, <2>1
  <2>3. B[j] = W[s] /\ B[j + 1] = W[s + 1] /\ B[j + 2] = W[s + 2] /\ B[j + 3] = W[s + 3]
    BY <1>0, <1>1, <1>2, <2>2
  <2>4. CR # NL
    BY DEF CR, NL
  <2> QED
    BY <1>2, <1>3, <1>4, <1>7, <1>m, <2>2, <2>3, <2>4 DEF Two, Four
<1> QED
  BY <1>4, <1>6, <1>7

LEMMA FollowsBoth ==
  ASSUME NEW V \in Seq(Byte), NEW p \in Seq(Byte), NEW W, W = V \o p
  PROVE  /\ W \in Seq(Byte) /\ Len(W) = Len(V) + Len(p)
         /\ Follows(V, W, 0) /\ Follows(p, W, Len(V))
<1>1. PICK v : v = Len(V) /\ v \in Nat
  BY Lengths
<1>2. PICK m : m = Len(p) /\ m \in Nat
  BY Lengths
<1>3. /\ W \in Seq(Byte) /\ Len(W) = v + m /\ \A i \in 1..v : W[i] = V[i]
      /\ \A i \in 1..m : W[v + i] = p[i]
  BY <1>1, <1>2
<1>4. 0 + v <= v + m /\ v + m <= v + m /\ \A i \in 1..v : 0 + i = i
  BY <1>1, <1>2
<1> QED
  BY <1>1, <1>2, <1>3, <1>4 DEF Follows

(* One frame more.                                                          *)
LEMMA LayoutMore ==
  ASSUME NEW V, NEW at, NEW j, Ordered(V, at, j), Open(V, at, j),
         NEW p, Piece(p, j + 1), NEW W, W = V \o p
  PROVE  \E more : Ordered(W, more, j + 1) /\ (Parting(p) => Open(W, more, j + 1))
<1>0. V \in Seq(Byte) /\ j \in Nat /\ p \in Seq(Byte)
  BY DEF Ordered, Layout, Piece
<1>1. PICK v : v = Len(V) /\ v \in Nat
  BY <1>0, Lengths
<1>2. PICK m : m = Len(p) /\ m \in Nat /\ m >= 2
  BY <1>0, Lengths DEF Piece
<1>3. /\ W \in Seq(Byte) /\ Len(W) = v + m
      /\ Follows(V, W, 0) /\ Follows(p, W, v)
  BY <1>0, <1>1, <1>2, FollowsBoth
<1>4. \A i \in 1..v : W[i] = V[i]
  BY <1>1, <1>3 DEF Follows
<1>5. \A i \in 1..m : W[v + i] = p[i]
  BY <1>2, <1>3 DEF Follows
<1>g. PICK g : g = j + 1 /\ g \in Nat \ {0}
  BY <1>0
<1>6. PICK more : more = [i \in 1..g |-> IF i = g THEN v + 1 ELSE at[i]]
  OBVIOUS
<1>7. more[g] = v + 1 /\ \A i \in 1..j : i # g /\ more[i] = at[i]
  BY <1>0, <1>6, <1>g
<1>8. \A i \in 1..g : i = g \/ i \in 1..j
  BY <1>0, <1>g
<1>9. \A i \in 1..j : at[i] \in Nat \ {0} /\ at[i] + 1 <= v
  BY <1>1 DEF Ordered, Layout, Whereabouts
<1>p. /\ p[1] = First(g) /\ p[2] = Second(g) /\ \A i \in 3..m : p[i].frame = 0 /\ p[i].half # 1
  BY <1>2, <1>g DEF Piece
<1>w. W[v + 1] = First(g) /\ W[v + 2] = Second(g)
  <2>1. 1 \in 1..m /\ 2 \in 1..m
    BY <1>2
  <2> QED
    BY <1>5, <1>p, <2>1
<1>10. \A q \in 1..(v + m) : q \in 1..v \/ q = v + 1 \/ q = v + 2 \/ \E i \in 3..m : i \in 1..m /\ q = v + i
  <2>1. ASSUME NEW q \in 1..(v + m), q \notin 1..v, q # v + 1, q # v + 2
        PROVE  q - v \in 3..m /\ q - v \in 1..m /\ q = v + (q - v)
    BY <1>1, <1>2, <2>1
  <2> QED
    BY <2>1
<1>11. Whereabouts(more, g, W)
  <2>1. \A i \in 1..j : at[i] + 1 <= v + m
    BY <1>1, <1>2, <1>9
  <2>2. v + 1 \in Nat \ {0} /\ (v + 1) + 1 <= v + m
    BY <1>1, <1>2
  <2> QED
    BY <1>3, <1>7, <1>8, <1>9, <2>1, <2>2 DEF Whereabouts
<1>12. /\ First(g).frame = g /\ Second(g).frame = g /\ Second(g).half = 2 /\ First(g).half = 1
       /\ \A i \in 1..j : First(i).frame = i
  BY <1>0, <1>g, ByteTypes
<1>x. W[v + 1].frame = g /\ W[v + 2].frame = g /\ W[v + 2].half = 2
  BY <1>12, <1>w, Zenon
<1>y. \A i \in 3..m : W[v + i].frame = 0 /\ W[v + i].half # 1
  <2>1. \A i \in 3..m : i \in 1..m
    OBVIOUS
  <2>2. \A i \in 3..m : W[v + i] = p[i]
    BY <1>5, <2>1
  <2> QED
    BY <1>p, <2>2, Zenon
<1>z. ASSUME NEW q \in 1..(v + m), q \notin 1..v
      PROVE  W[q].frame = g \/ W[q].frame = 0
  BY <1>10, <1>x, <1>y, <1>z, Zenon
<1>13. Alone(more, g, W)
  <2>1. ASSUME NEW i \in 1..j
        PROVE  /\ W[more[i] + 1] = Second(i)
               /\ \A q \in 1..(v + m) : W[q] = First(i) <=> q = more[i]
    <3>1. PICK a : a = at[i] /\ a \in 1..v /\ a + 1 \in 1..v /\ a = more[i]
      BY <1>1, <1>7, <1>9
    <3>2. V[a + 1] = Second(i) /\ \A q \in 1..v : V[q] = First(i) <=> q = a
      BY <1>1, <3>1 DEF Ordered, Layout, Alone
    <3>3. ASSUME NEW q \in 1..(v + m), q \notin 1..v
          PROVE  W[q] # First(i)
      <4>1. i # g /\ i # 0
        BY <1>7
      <4>2. W[q].frame = g \/ W[q].frame = 0
        BY <1>z, <3>3
      <4>3. First(i).frame = i
        BY <1>12
      <4> QED
        BY <4>1, <4>2, <4>3, Zenon
    <3> QED
      BY <1>4, <3>1, <3>2, <3>3
  <2>2. ASSUME NEW q \in 1..(v + m), W[q] = First(g)
        PROVE  q = v + 1
    <3>1. ASSUME q \in 1..v
          PROVE  FALSE
      <4>1. V[q].frame \in 0..j
        BY <1>1, <3>1 DEF Ordered
      <4>2. V[q] = W[q]
        BY <1>4, <3>1
      <4>3. V[q].frame = g
        BY <1>12, <2>2, <4>2, Zenon
      <4> QED
        BY <1>0, <1>g, <4>1, <4>3
    <3>2. q # v + 2
      <4>1. 2 # 1
        OBVIOUS
      <4> QED
        BY <1>12, <1>w, <2>2, <4>1, Zenon
    <3>3. ASSUME NEW i \in 3..m, i \in 1..m, q = v + i
          PROVE  FALSE
      <4>1. W[q].frame = 0
        BY <1>y, <3>3, Zenon
      <4>2. W[q].frame = g
        BY <1>12, <2>2, Zenon
      <4> QED
        BY <1>g, <4>1, <4>2
    <3> QED
      BY <1>10, <3>1, <3>2, <3>3
  <2>3. (v + 1) + 1 = v + 2
    BY <1>1
  <2> QED
    BY <1>3, <1>7, <1>8, <1>w, <2>1, <2>2, <2>3 DEF Alone
<1>14. ASSUME NEW s, NEW a \in Nat, NEW b \in Nat, Divides(V, s, a, b)
       PROVE  Divides(W, s, a, b)
  <2>1. s \in Nat \ {0} /\ Separator(V, s) > 0 /\ 0 + s = s
    BY <1>14 DEF Divides
  <2>2. Separator(W, s) = Separator(V, s)
    <3>1. PICK z : z = 0
      OBVIOUS
    <3>2. W \in Seq(Byte) /\ Follows(V, W, z) /\ s \in Nat \ {0} /\ Separator(V, s) > 0
      BY <1>3, <2>1, <3>1
    <3>3. Separator(W, z + s) = Separator(V, s)
      BY ONLY <3>2, SeparatorOutside
    <3>4. z + s = s
      BY <2>1, <3>1
    <3> QED
      BY <3>3, <3>4
  <2> QED
    BY <1>14, <2>1, <2>2 DEF Divides
<1>15. Divided(more, g, W)
  <2>1. ASSUME NEW i \in 1..g, NEW h \in 1..g, i < h
        PROVE  \E s : Divides(W, s, more[i], more[h])
    <3>1. i \in 1..j
      BY <1>0, <1>g, <2>1
    <3>2. CASE h = g
      <4>1. PICK s : Divides(V, s, at[i], v + 1)
        BY <1>1, <3>1 DEF Open
      <4>2. Divides(W, s, at[i], v + 1)
        <5>1. at[i] \in Nat /\ v + 1 \in Nat
          BY <1>1, <1>9, <3>1
        <5> QED
          BY <1>14, <4>1, <5>1
      <4> QED
        BY <1>7, <3>1, <3>2, <4>2
    <3>3. CASE h \in 1..j
      <4>1. PICK s : Divides(V, s, at[i], at[h])
        BY <2>1, <3>1, <3>3 DEF Ordered, Layout, Divided
      <4>2. Divides(W, s, at[i], at[h])
        <5>1. at[i] \in Nat /\ at[h] \in Nat
          BY <1>9, <3>1, <3>3
        <5> QED
          BY <1>14, <4>1, <5>1
      <4> QED
        BY <1>7, <3>1, <3>3, <4>2
    <3> QED
      BY <1>8, <3>2, <3>3
  <2> QED
    BY <2>1 DEF Divided
<1>16. W[Len(W)].half # 1
  <2>1. CASE m = 2
    <3>1. W[Len(W)].half = 2
      BY <1>3, <1>x, <2>1, Zenon
    <3> QED
      BY <3>1
  <2>2. CASE m # 2
    <3>1. m \in 3..m /\ m \in 1..m
      BY <1>2, <2>2
    <3> QED
      BY <1>3, <1>y, <3>1, Zenon
  <2> QED
    BY <2>1, <2>2
<1>17. \A q \in 1..(v + m) : W[q].frame \in 0..g
  <2>1. ASSUME NEW q \in 1..(v + m)
        PROVE  W[q].frame \in 0..g
    <3>1. CASE q \in 1..v
      <4>1. V[q].frame \in 0..j
        BY <1>1, <3>1 DEF Ordered
      <4>2. V[q] = W[q]
        BY <1>4, <3>1
      <4>3. V[q].frame \in 0..g
        BY <1>0, <1>g, <4>1
      <4> QED
        BY <4>2, <4>3, Zenon
    <3>2. CASE q \notin 1..v
      <4>2. W[q].frame = g \/ W[q].frame = 0
        BY <1>z, <3>2
      <4>3. g \in 0..g /\ 0 \in 0..g
        BY <1>g
      <4> QED
        BY <4>2, <4>3, Zenon
    <3> QED
      BY <3>1, <3>2
  <2> QED
    BY <2>1
<1>18. Ordered(W, more, g)
  BY <1>3, <1>g, <1>11, <1>13, <1>15, <1>16, <1>17 DEF Ordered, Layout
<1>19. ASSUME Parting(p)
       PROVE  Open(W, more, g)
  <2>1. PICK u \in 3..m : Separator(p, u) > 0
    BY <1>2, <1>19 DEF Parting
  <2>2. PICK d : d = Separator(p, u)
    OBVIOUS
  <2>3. d \in {2, 4} /\ u + d - 1 <= m /\ u \in Nat \ {0}
    <3>1. u \in Nat \ {0}
      OBVIOUS
    <3> QED
      BY <1>0, <1>2, <2>1, <2>2, <3>1, SeparatorIs
  <2>4. Separator(W, v + u) = d
    BY <1>3, <2>1, <2>2, <2>3, SeparatorOutside
  <2>5. ASSUME NEW i \in 1..g
        PROVE  Divides(W, v + u, more[i], Len(W) + 1)
    <3>1. PICK a : a = more[i] /\ a \in Nat /\ a <= v + 1
      <4>1. CASE i = g
        BY <1>1, <1>7, <4>1
      <4>2. CASE i \in 1..j
        <5>1. at[i] \in Nat /\ at[i] <= v + 1
          BY <1>1, <1>9, <4>2
        <5> QED
          BY <1>7, <4>2, <5>1
      <4> QED
        BY <1>8, <4>1, <4>2
    <3>2. v + u \in Nat /\ a + 2 <= v + u /\ d > 0 /\ (v + u) + d <= (v + m) + 1
      <4>1. v \in Nat /\ u \in Nat /\ u >= 3 /\ m \in Nat /\ d \in Nat /\ d > 0 /\ u + d - 1 <= m
        BY <1>1, <1>2, <2>3
      <4> QED
        BY <3>1, <4>1
    <3> QED
      BY <1>3, <2>4, <3>1, <3>2 DEF Divides
  <2> QED
    BY <2>5 DEF Open
<1> QED
  BY <1>18, <1>19, <1>g

-----------------------------------------------------------------------------
LEMMA WireFolds ==
  \A frames, break, last :
    OnTheWire(frames, break, last)
      = Flat!Fold(<<>>, [f \in DOMAIN frames |-> Whole(f) \o IF f = Len(frames) THEN last ELSE break])
BY DEF OnTheWire, Flat!Fold, FoldLeft, Flat!FoldLeft, MapThenFoldSet, Flat!MapThenFoldSet,
       Max, Flat!Max

(* Frames one after another, all but the last with a blank line after them. *)
Pieces(s) ==
  /\ s \in Seq(Seq(Byte))
  /\ \A i \in 1..Len(s) : Piece(s[i], i)
  /\ \A i \in 1..Len(s) : i < Len(s) => Parting(s[i])
Arranged(s) ==
  \E at : /\ Ordered(Flat!Fold(<<>>, s), at, Len(s))
          /\ (\A i \in 1..Len(s) : Parting(s[i])) => Open(Flat!Fold(<<>>, s), at, Len(s))

LEMMA PiecesArranged ==
  ASSUME NEW s, Pieces(s)
  PROVE  Arranged(s)
<1>1. PICK N : N = {n \in Nat : \A t : Pieces(t) /\ Len(t) = n => Arranged(t)}
  OBVIOUS
<1>2. 0 \in N
  <2>1. ASSUME NEW t, Pieces(t), Len(t) = 0
        PROVE  Arranged(t)
    <3>1. t = <<>>
      BY <2>1 DEF Pieces
    <3>2. Flat!Fold(<<>>, t) = <<>>
      BY <3>1, Flat!FoldNothing
    <3>3. Ordered(<<>>, <<>>, 0) /\ Open(<<>>, <<>>, 0)
      BY DEF Ordered, Layout, Whereabouts, Alone, Divided, Open
    <3> QED
      BY <2>1, <3>2, <3>3 DEF Arranged
  <2> QED
    BY <1>1, <2>1
<1>3. ASSUME NEW n \in N
      PROVE  n + 1 \in N
  <2>0. n \in Nat
    BY <1>1
  <2>1. ASSUME NEW t, Pieces(t), Len(t) = n + 1
        PROVE  Arranged(t)
    <3>0. PICK r : r = SubSeq(t, 1, n)
      OBVIOUS
    <3>t. t \in Seq(Seq(Byte))
      BY <2>1 DEF Pieces
    <3>1. PICK x : r \in Seq(Seq(Byte)) /\ Len(r) = n /\ x \in Seq(Byte) /\ x = t[n + 1]
                   /\ t = Append(r, x)
      BY <2>0, <2>1, <3>0, <3>t, Flat!LastOfSeq
    <3>2. \A i \in 1..n : r[i] = t[i] /\ i \in 1..(n + 1) /\ i < n + 1
      BY <2>0, <3>0, <3>t, <2>1
    <3>3. Pieces(r)
      BY <2>1, <3>1, <3>2 DEF Pieces
    <3>4. \A i \in 1..n : Parting(r[i])
      BY <2>1, <3>2 DEF Pieces
    <3>5. Piece(x, n + 1)
      <4>1. n + 1 \in 1..(n + 1)
        BY <2>0
      <4>2. \A i \in 1..(n + 1) : Piece(t[i], i)
        BY <2>1 DEF Pieces
      <4>3. Piece(t[n + 1], n + 1)
        BY <4>1, <4>2, Zenon
      <4> QED
        BY <3>1, <4>3
    <3>6. Arranged(r)
      BY <1>1, <3>1, <3>3
    <3>7. PICK at : Ordered(Flat!Fold(<<>>, r), at, n) /\ Open(Flat!Fold(<<>>, r), at, n)
      BY <3>1, <3>4, <3>6 DEF Arranged
    <3>8. Flat!Fold(<<>>, t) = Flat!Fold(<<>>, r) \o x
      <4>1. Flat!Fold(<<>>, Append(r, x)) = Flat!Fold(<<>>, r) \o x
        BY <3>1, FlatMore
      <4> QED
        BY <3>1, <4>1
    <3>9. PICK more : /\ Ordered(Flat!Fold(<<>>, t), more, n + 1)
                      /\ Parting(x) => Open(Flat!Fold(<<>>, t), more, n + 1)
      BY <3>5, <3>7, <3>8, LayoutMore
    <3>10. n + 1 \in 1..(n + 1)
      BY <2>0
    <3> QED
      BY <2>1, <3>1, <3>9, <3>10 DEF Arranged
  <2> QED
    BY <1>1, <2>0, <2>1
<1>4. Len(s) \in N
  <2>1. N = Nat
    BY <1>1, <1>2, <1>3, Flat!AllOfNat
  <2>2. Len(s) \in Nat
    BY DEF Pieces
  <2> QED
    BY <2>1, <2>2
<1> QED
  BY <1>1, <1>4

(* A frame's line with what comes after it.                                 *)
LEMMA BreakTypes ==
  ASSUME NEW b, b \in Breaks \/ b = <<>>
  PROVE  /\ b \in Seq(Byte) /\ \A i \in 1..Len(b) : b[i].frame = 0 /\ b[i].half # 1
         /\ b \in Breaks => \E i \in 1..Len(b) : Separator(b, i) > 0
<1>1. CASE b \in Breaks
  <2>1. b \in Seq({CR, NL})
    BY <1>1, BreaksAssumption
  <2>2. b \in Seq(Byte)
    BY <2>1, ByteTypes
  <2>3. \A i \in 1..Len(b) : b[i] = CR \/ b[i] = NL
    BY <2>1
  <2>4. \A i \in 1..Len(b) : b[i].frame = 0 /\ b[i].half # 1
    BY <2>3, ByteTypes
  <2>5. Ends(b) # {}
    BY <1>1, BreaksAssumption
  <2>6. \E i \in 1..Len(b) : Separator(b, i) > 0
    BY <2>2, <2>5 DEF Ends
  <2> QED
    BY <2>2, <2>4, <2>6
<1>2. CASE b \notin Breaks
  <2>1. b = <<>>
    BY <1>2
  <2>2. <<>> \in Seq(Byte) /\ Len(<<>>) = 0
    OBVIOUS
  <2>3. b \in Seq(Byte) /\ Len(b) = 0
    BY <2>1, <2>2
  <2>4. \A i \in 1..Len(b) : FALSE
    BY <2>3
  <2> QED
    BY <1>2, <2>3, <2>4
<1> QED
  BY <1>1, <1>2

LEMMA LineIsPiece ==
  ASSUME NEW g \in Nat, NEW b, b \in Breaks \/ b = <<>>, NEW p, p = Whole(g) \o b
  PROVE  Piece(p, g) /\ (b \in Breaks => Parting(p))
<1>1. /\ b \in Seq(Byte) /\ \A i \in 1..Len(b) : b[i].frame = 0 /\ b[i].half # 1
      /\ b \in Breaks => \E i \in 1..Len(b) : Separator(b, i) > 0
  BY BreakTypes
<1>2. PICK x, y : x = First(g) /\ y = Second(g)
  OBVIOUS
<1>3. x \in Byte /\ y \in Byte /\ Whole(g) = <<x, y>>
  BY <1>2, ByteTypes
<1>4. PICK h : h = <<x, y>> /\ h \in Seq(Byte) /\ Len(h) = 2 /\ h[1] = x /\ h[2] = y
  <2>1. <<x, y>> \in Seq(Byte) /\ Len(<<x, y>>) = 2 /\ <<x, y>>[1] = x /\ <<x, y>>[2] = y
    BY <1>3
  <2> QED
    BY <2>1, Zenon
<1>5. p = h \o b
  BY <1>3, <1>4
<1>6. PICK m : m = Len(b) /\ m \in Nat
  BY <1>1, Lengths
<1>7. p \in Seq(Byte) /\ Len(p) = 2 + m /\ Follows(b, p, 2)
  BY <1>1, <1>4, <1>5, <1>6, FollowsBoth
<1>8. p[1] = x /\ p[2] = y /\ \A i \in 1..m : p[2 + i] = b[i]
  <2>1. \A i \in 1..m : p[2 + i] = b[i]
    BY <1>6, <1>7 DEF Follows
  <2>2. p[1] = h[1] /\ p[2] = h[2]
    BY <1>1, <1>4, <1>5, <1>6
  <2> QED
    BY <1>4, <2>1, <2>2
<1>9. \A i \in 3..(2 + m) : p[i].frame = 0 /\ p[i].half # 1
  <2>1. ASSUME NEW i \in 3..(2 + m)
        PROVE  p[i].frame = 0 /\ p[i].half # 1
    <3>1. PICK k : k = i - 2
      OBVIOUS
    <3>2. k \in 1..m /\ 2 + k = i
      BY <1>6, <3>1
    <3>3. p[i] = b[k]
      BY <1>8, <3>2
    <3> QED
      BY <1>1, <1>6, <3>2, <3>3, Zenon
  <2> QED
    BY <2>1
<1>10. Piece(p, g)
  BY <1>2, <1>6, <1>7, <1>8, <1>9 DEF Piece
<1>11. ASSUME b \in Breaks
       PROVE  Parting(p)
  <2>1. PICK i \in 1..m : Separator(b, i) > 0
    BY <1>1, <1>6, <1>11
  <2>2. Separator(p, 2 + i) = Separator(b, i)
    <3>1. i \in Nat \ {0}
      OBVIOUS
    <3> QED
      BY <1>7, <2>1, <3>1, SeparatorOutside
  <2>3. 2 + i \in 3..(2 + m)
    BY <1>6
  <2> QED
    BY <1>7, <2>1, <2>2, <2>3 DEF Parting
<1> QED
  BY <1>10, <1>11

LEMMA WireIsOrdered ==
  ASSUME NEW frames \in Seq(ScriptFrame), NEW break \in Breaks, NEW last \in Breaks \union {<<>>}
  PROVE  \E at : Ordered(OnTheWire(frames, break, last), at, Len(frames))
<1>1. PICK n : n = Len(frames) /\ n \in Nat /\ DOMAIN frames = 1..n
  OBVIOUS
<1>2. PICK s : s = [f \in DOMAIN frames |-> Whole(f) \o IF f = Len(frames) THEN last ELSE break]
  OBVIOUS
<1>3. s = [f \in 1..n |-> Whole(f) \o IF f = n THEN last ELSE break]
  BY <1>1, <1>2
<1>l. \A b : b \in Breaks \/ b = <<>> =>
              \A g \in Nat : Piece(Whole(g) \o b, g) /\ (b \in Breaks => Parting(Whole(g) \o b))
  BY LineIsPiece
<1>m. /\ last \in Breaks \/ last = <<>>
      /\ \A f \in 1..n : f \in Nat
  OBVIOUS
<1>4. ASSUME NEW f \in 1..n
      PROVE  Piece(s[f], f) /\ (f < n => Parting(s[f]))
  <2>1. CASE f = n
    <3>1. s[f] = Whole(f) \o last
      BY <1>3, <2>1
    <3>2. Piece(s[f], f)
      BY <1>l, <1>m, <3>1, Zenon
    <3>3. ~(f < n)
      BY <1>1, <2>1
    <3> QED
      BY <3>2, <3>3
  <2>2. CASE f # n
    <3>1. s[f] = Whole(f) \o break
      BY <1>3, <2>2
    <3>2. Piece(s[f], f) /\ Parting(s[f])
      BY <1>l, <1>m, <3>1, Zenon
    <3> QED
      BY <3>2
  <2> QED
    BY <2>1, <2>2
<1>5. s \in Seq(Seq(Byte)) /\ Len(s) = n
  <2>1. \A f \in 1..n : s[f] \in Seq(Byte)
    BY <1>4 DEF Piece
  <2> QED
    BY <1>1, <1>3, <2>1
<1>6. Arranged(s)
  BY <1>4, <1>5, PiecesArranged DEF Pieces
<1>7. OnTheWire(frames, break, last) = Flat!Fold(<<>>, s)
  BY <1>2, WireFolds
<1> QED
  BY <1>1, <1>5, <1>6, <1>7 DEF Arranged

-----------------------------------------------------------------------------
(* The parser's invariant.                                                  *)

LEMMA ParserInit == Init => ParserInv
<1> SUFFICES ASSUME Init
             PROVE  ParserInv
  OBVIOUS
<1>1. /\ script \in Seq(ScriptFrame) /\ pc = "read" /\ buf = <<>> /\ partial = <<>> /\ said = <<>>
  BY ScriptType DEF Init
<1>2. PICK break \in Breaks, last \in Breaks \union {<<>>} : wire = OnTheWire(script, break, last)
  BY DEF Init
<1>3. PICK n : n = Len(script) /\ n \in Nat
  BY <1>1
<1>4. PICK at : Ordered(wire, at, n)
  BY <1>1, <1>2, <1>3, WireIsOrdered
<1>5. wire \in Seq(Byte) /\ Layout(wire, at, n)
  BY <1>4 DEF Ordered, Layout
<1>6. Received(buf, partial, wire, wire, 0)
  <2>1. Len(<<>>) = 0 /\ <<>> \in Seq(Byte)
    OBVIOUS
  <2>2. PICK v : v = Len(wire) /\ v \in Nat
    BY <1>5, Lengths
  <2>3. PICK e : e = <<>>
    OBVIOUS
  <2>4. e \in Seq(Byte) /\ Len(e) = 0 /\ buf = e /\ partial = e
    BY <1>1, <2>1, <2>3
  <2>5. 0 + 0 <= v /\ 0 + 0 + 0 + v = v /\ \A i \in 1..0 : FALSE
    BY <2>2
  <2>6. Follows(e, wire, 0)
    BY <2>2, <2>4, <2>5 DEF Follows
  <2>7. Follows(wire, wire, 0)
    BY <1>5, <2>2 DEF Follows
  <2>8. 0 + Len(e) = 0 /\ 0 + Len(e) + Len(e) = 0 /\ 0 + Len(e) + Len(e) + Len(wire) = Len(wire)
    BY <2>2, <2>4
  <2> QED
    BY <2>3, <2>4, <2>6, <2>7, <2>8 DEF Received
<1>7. Dealt(wire, at, 0, 1, script, said)
  <2>1. Before(at, n, 0, 1)
    BY <1>3, <1>5 DEF Before, Layout, Whereabouts
  <2>2. SubSeq(script, 1, 1 - 1) = <<>>
    BY <1>1
  <2>3. 1 \in 1..(n + 1)
    BY <1>3
  <2> QED
    BY <1>1, <1>3, <1>4, <1>5, <2>1, <2>2, <2>3, TextsOfNone DEF Dealt, Ordered
<1> QED
  BY <1>1, <1>6, <1>7 DEF ParserInv

(* The first of the ends.                                                   *)
LEMMA FirstEnd ==
  ASSUME NEW b \in Seq(Byte), Ends(b) # {}
  PROVE  Min(Ends(b)) \in Ends(b) /\ \A j \in Ends(b) : Min(Ends(b)) <= j
<1>1. Ends(b) \in SUBSET Nat
  BY DEF Ends
<1>2. PICK S : S = Ends(b) /\ S \in SUBSET Nat /\ S # {}
  BY <1>1
<1> QED
  BY <1>2, Naturally!LeastOne DEF Min

LEMMA ParserEvent ==
  ASSUME RewriteInv, ParserInv, Event
  PROVE  ParserInv'
<1>1. pc = "read" /\ UNCHANGED <<script, wire, partial, gone>> /\ Ends(buf) # {}
      /\ script \in Seq(ScriptFrame)
  BY ScriptType DEF Event, RewriteInv, StreamType
<1>2. PICK W, at, pos, f : Received(buf, partial, wire, W, pos) /\ Dealt(W, at, pos, f, script, said)
  BY <1>1 DEF ParserInv
<1>3. PICK k : /\ k = Min(Ends(buf))
               /\ buf' = SubSeq(buf, k + Separator(buf, k), Len(buf))
               /\ \/ Events(SubSeq(buf, 1, k - 1)) = {} /\ UNCHANGED <<pumped, pc, load, sent>>
                  \/ \E g \in Events(SubSeq(buf, 1, k - 1)) : Shape(script[g])
  BY DEF Event
<1>4. k \in Ends(buf) /\ \A j \in Ends(buf) : k <= j
  BY <1>1, <1>2, <1>3, FirstEnd DEF Received, Follows
<1>5. PICK E : E = Events(SubSeq(buf, 1, k - 1))
  OBVIOUS
<1>6. E = {g \in DOMAIN script : Holds(SubSeq(buf, 1, k - 1), g)}
  BY <1>5 DEF Events, Holds
<1>7. PICK q : /\ Received(buf', partial, wire, W, q)
               /\ \/ E = {} /\ Dealt(W, at, q, f, script, said)
                  \/ E = {f} /\ f \in DOMAIN script
                     /\ Dealt(W, at, q, f + 1, script, said \o script[f].content)
  <2>1. PICK rest : rest = SubSeq(buf, k + Separator(buf, k), Len(buf))
    OBVIOUS
  <2>2. EventDealt(W, at, f, script, said, E, rest, partial, wire)
    BY <1>1, <1>2, <1>4, <1>6, <2>1, EventDeals
  <2> QED
    BY <1>3, <2>1, <2>2 DEF EventDealt
<1>8. CASE E = {}
  <2>1. UNCHANGED <<said, pc, error, disconnected>>
    BY <1>3, <1>5, <1>8 DEF pumped
  <2>2. Dealt(W, at, q, f, script, said)
    BY <1>7, <1>8
  <2> QED
    BY <1>1, <1>7, <2>1, <2>2 DEF ParserInv
<1>9. CASE E # {}
  <2>1. E = {f} /\ Dealt(W, at, q, f + 1, script, said \o script[f].content)
    BY <1>7, <1>9
  <2>2. Shape(script[f])
    BY <1>3, <1>5, <2>1
  <2>3. said' = said \o script[f].content
    BY <2>2 DEF Shape
  <2>4. pc' # "read" => disconnected'
    <3>1. \/ UNCHANGED <<disconnected, pc>>
          \/ \E frame : Speak(frame) /\ ReadOn
      <4>1. PICK g : g = script[f]
        OBVIOUS
      <4>2. CASE g.content = <<>>
        BY <2>2, <4>1, <4>2 DEF Shape
      <4>3. CASE g.content # <<>>
        <5>1. Content(g)
          BY <2>2, <4>1, <4>3 DEF Shape
        <5> QED
          BY <5>1 DEF Content
      <4> QED
        BY <4>2, <4>3
    <3> QED
      BY <1>1, <3>1 DEF Speak, ReadOn
  <2> QED
    BY <1>1, <1>7, <2>1, <2>3, <2>4 DEF ParserInv
<1> QED
  BY <1>8, <1>9

LEMMA ParserRead ==
  ASSUME ParserInv, NEW n \in 1..MaxChunk, Read(n)
  PROVE  ParserInv'
<1>1. /\ pc = "read" /\ n <= Len(wire) /\ n \in Nat
      /\ UNCHANGED <<script, said, error, disconnected, pc>>
      /\ wire' = SubSeq(wire, n + 1, Len(wire))
  BY StreamAssumption DEF Read, pumped
<1>2. PICK bytes, text : /\ bytes = partial \o SubSeq(wire, 1, n) /\ text = Decoded(bytes)
                         /\ partial' = SubSeq(bytes, Len(text) + 1, Len(bytes))
                         /\ buf' = buf \o text
  BY DEF Read
<1>3. PICK W, at, pos, f : Received(buf, partial, wire, W, pos) /\ Dealt(W, at, pos, f, script, said)
  BY <1>1 DEF ParserInv
<1>4. Len(W) \in Nat
  BY <1>3, Lengths DEF Dealt, Layout
<1>5. Received(buf', partial', wire', W, pos)
  BY <1>1, <1>2, <1>3, <1>4, ReadKeeps
<1>6. Dealt(W, at, pos, f, script', said')
  BY <1>1, <1>3
<1> QED
  BY <1>1, <1>5, <1>6 DEF ParserInv

LEMMA ParserEnd ==
  ASSUME RewriteInv, ParserInv, EndOfWire
  PROVE  ParserInv'
<1>1. /\ pc = "read" /\ pc' = "flush" /\ Ends(buf) = {} /\ error' \in {wire # <<>>, TRUE}
      /\ UNCHANGED <<script, said>> /\ script \in Seq(ScriptFrame)
  BY ScriptType DEF EndOfWire, input, RewriteInv, StreamType
<1>2. PICK W, at, pos, f : Received(buf, partial, wire, W, pos) /\ Dealt(W, at, pos, f, script, said)
  BY <1>1 DEF ParserInv
<1>3. ASSUME ~error'
      PROVE  Complete(said, script)
  <2>1. wire = <<>>
    BY <1>1, <1>3
  <2>2. Received(buf, partial, <<>>, W, pos)
    BY <1>2, <2>1
  <2> QED
    BY <1>1, <1>2, <2>2, EndDeals
<1> QED
  BY <1>1, <1>3 DEF ParserInv

LEMMA ParserStep ==
  ASSUME RewriteInv, ParserInv, [Next]_vars
  PROVE  ParserInv'
<1>1. ASSUME UNCHANGED <<script, said, error>>, pc # "read", pc' # "read",
             disconnected => disconnected'
      PROVE  ParserInv'
  BY <1>1 DEF ParserInv
<1>2. ASSUME UNCHANGED <<input, said, error, disconnected, pc>>
      PROVE  ParserInv'
  BY <1>2 DEF ParserInv, input
<1>3. disconnected \in BOOLEAN
  BY DEF RewriteInv, StreamType
<1>4. CASE \E n \in 1..MaxChunk : Read(n)
  BY <1>4, ParserRead
<1>5. CASE EndOfWire
  BY <1>5, ParserEnd
<1>6. CASE Quiet
  <2>1. /\ UNCHANGED <<script, wire, partial, buf, said, error>> /\ pc = "read"
        /\ pc' # "read" => disconnected'
    BY <1>6 DEF Quiet, ReadOn, input
  <2> QED
    BY <2>1 DEF ParserInv
<1>7. CASE Event
  BY <1>7, ParserEvent
<1>8. CASE Flush
  BY <1>1, <1>3, <1>8 DEF Flush, Speak
<1>9. ASSUME NEW here \in {"usage", "error", "done"}, NEW there \in {"error", "done", "record"},
             Close(here, Closing(here), there)
      PROVE  ParserInv'
  BY <1>1, <1>3, <1>9 DEF Close, Speak, input
<1>10. CASE CloseUsage
  BY <1>9, <1>10 DEF CloseUsage
<1>11. CASE CloseError
  BY <1>9, <1>11 DEF CloseError
<1>12. CASE CloseDone
  BY <1>9, <1>12 DEF CloseDone
<1>13. CASE Record
  BY <1>1, <1>13 DEF Record, input, pumped
<1>14. CASE Receive
  BY <1>2, <1>14 DEF Receive, pumped
<1>15. CASE HangUp
  BY <1>2, <1>15 DEF HangUp, pumped
<1>16. CASE UNCHANGED vars
  BY <1>2, <1>16 DEF vars, pumped
<1> QED
  BY <1>4, <1>5, <1>6, <1>7, <1>8, <1>10, <1>11, <1>12, <1>13, <1>14, <1>15, <1>16
     DEF Next, Pump

-----------------------------------------------------------------------------
LEMMA JoinedEnd ==
  ASSUME NEW body \in Seq(Frame), NEW tail \in Seq(Frame), NEW s, s = body \o tail
  PROVE  /\ SubSeq(s, 1, Len(s) - Len(tail)) = body
         /\ \A i \in DOMAIN tail : s[Len(s) - Len(tail) + i] = tail[i]
<1>1. PICK b : b = Len(body) /\ b \in Nat
  OBVIOUS
<1>2. PICK m : m = Len(tail) /\ m \in Nat /\ DOMAIN tail = 1..m
  OBVIOUS
<1>3. /\ s \in Seq(Frame) /\ Len(s) = b + m
      /\ \A i \in 1..b : s[i] = body[i]
      /\ \A i \in 1..m : s[b + i] = tail[i]
  BY <1>1, <1>2
<1>4. (b + m) - m = b /\ b \in 0..(b + m)
  BY <1>1, <1>2
<1>5. PICK h : h = SubSeq(s, 1, b)
  OBVIOUS
<1>6. h \in Seq(Frame) /\ Len(h) = b /\ \A i \in 1..b : h[i] = s[i]
  <2>1. s \in Seq(Frame) /\ b \in 0..Len(s)
    BY <1>3, <1>4
  <2> QED
    BY <2>1, <1>5, Parts, Zenon
<1>7. h = body
  BY <1>1, <1>3, <1>6, SeqEqual
<1> QED
  BY <1>2, <1>3, <1>4, <1>5, <1>7

(* ClosedInFull, with the text sent piece by piece.                         *)
ClosedInOrder ==
  pc = "over" =>
    /\ status # 499 =>
         LET n    == Len(sent)
             tail == IF status = 200 THEN <<"usage", "done">> ELSE <<"usage", "error", "done">>
             body == SubSeq(sent, 1, n - Len(tail))
         IN  /\ \A i \in DOMAIN tail : sent[n - Len(tail) + i].kind = tail[i]
             /\ Kinds(body) \subseteq {"delta"}
             /\ \E out \in Text : Texts(body) = out \o Suffix /\ InPieces(Spoken, out)
    /\ status = 499 => gone
    /\ status = 200 => said \in {Texts(script), Texts(Front(script))}

LEMMA ClosedOfInv ==
  ASSUME RewriteInv, ClosingInv, ParserInv
  PROVE  ClosedInOrder /\ (CutsCompose => ClosedInFull)
<1> SUFFICES ASSUME pc = "over"
             PROVE  /\ status # 499 =>
                       LET n    == Len(sent)
                           tail == IF status = 200 THEN <<"usage", "done">>
                                                   ELSE <<"usage", "error", "done">>
                           body == SubSeq(sent, 1, n - Len(tail))
                       IN  /\ \A i \in DOMAIN tail : sent[n - Len(tail) + i].kind = tail[i]
                           /\ Kinds(body) \subseteq {"delta"}
                           /\ \E out \in Text : Texts(body) = out \o Suffix /\ InPieces(Spoken, out)
                           /\ CutsCompose => Texts(body) = Apply(Spoken) \o Suffix
                    /\ status = 499 => gone
                    /\ status = 200 => said \in {Texts(script), Texts(Front(script))}
  BY DEF ClosedInOrder, ClosedInFull, Spoken
<1>1. status = Outcome /\ {error, disconnected} \subseteq BOOLEAN /\ (disconnected => gone)
  BY DEF ClosingInv, RewriteInv, StreamType, Listening
<1>2. /\ status = 499 <=> disconnected
      /\ status = 200 <=> ~disconnected /\ ~error
  BY <1>1 DEF Outcome
<1>3. status = 499 => gone
  BY <1>1, <1>2
<1>4. status = 200 => said \in {Texts(script), Texts(Front(script))}
  BY <1>2 DEF ParserInv, Complete
<1> DEFINE tail == IF status = 200 THEN <<"usage", "done">> ELSE <<"usage", "error", "done">>
           part == SubSeq(sent, 1, Len(sent) - Len(tail))
<1>t. /\ status = 200 => tail = <<"usage", "done">>
      /\ status # 200 => tail = <<"usage", "error", "done">>
  OBVIOUS
<1>p. part = SubSeq(sent, 1, Len(sent) - Len(tail))
  OBVIOUS
<1> HIDE DEF tail, part
<1>5. ASSUME ~disconnected
      PROVE  /\ \A i \in DOMAIN tail : sent[Len(sent) - Len(tail) + i].kind = tail[i]
             /\ Kinds(part) \subseteq {"delta"}
             /\ \E out \in Text : Texts(part) = out \o Suffix /\ InPieces(Spoken, out)
             /\ CutsCompose => Texts(part) = Apply(Spoken) \o Suffix
  <2>1. PICK body : Body(body, Spoken) /\ sent = body \o ClosedWith("over", error)
    BY <1>5 DEF ClosingInv
  <2>2. PICK end : end = ClosedWith("over", error)
    OBVIOUS
  <2>3. /\ Closing("usage") \in Frame /\ Closing("error") \in Frame /\ Closing("done") \in Frame
        /\ Closing("usage").kind = "usage" /\ Closing("error").kind = "error"
        /\ Closing("done").kind = "done"
    BY ClosingType
  <2>4. PICK u, e, d : u = Closing("usage") /\ e = Closing("error") /\ d = Closing("done")
    OBVIOUS
  <2>5. u \in Frame /\ e \in Frame /\ d \in Frame
        /\ u.kind = "usage" /\ e.kind = "error" /\ d.kind = "done"
    BY <2>3, <2>4, Zenon
  <2>6. /\ end \in Seq(Frame) /\ Len(end) = Len(tail) /\ DOMAIN end = DOMAIN tail
        /\ \A i \in DOMAIN tail : end[i].kind = tail[i]
    <3>1. CASE error
      <4>1. end = <<u, e, d>>
        BY <2>2, <2>4, <3>1 DEF ClosedWith
      <4>2. tail = <<"usage", "error", "done">>
        BY <1>2, <1>5, <1>t, <3>1
      <4>3. /\ <<u, e, d>> \in Seq(Frame) /\ Len(<<u, e, d>>) = 3 /\ DOMAIN <<u, e, d>> = 1..3
            /\ <<u, e, d>>[1] = u /\ <<u, e, d>>[2] = e /\ <<u, e, d>>[3] = d
        BY <2>5
      <4>4. /\ Len(tail) = 3 /\ DOMAIN tail = 1..3
            /\ tail[1] = "usage" /\ tail[2] = "error" /\ tail[3] = "done"
        BY <4>2
      <4>5. 1..3 = {1, 2, 3}
        OBVIOUS
      <4>6. \A i \in {1, 2, 3} : end[i].kind = tail[i]
        BY <2>5, <4>1, <4>3, <4>4, Zenon
      <4> QED
        BY <4>1, <4>3, <4>4, <4>5, <4>6
    <3>2. CASE ~error
      <4>1. end = <<u, d>>
        BY <2>2, <2>4, <3>2 DEF ClosedWith
      <4>2. tail = <<"usage", "done">>
        BY <1>2, <1>5, <1>t, <3>2
      <4>3. /\ <<u, d>> \in Seq(Frame) /\ Len(<<u, d>>) = 2 /\ DOMAIN <<u, d>> = 1..2
            /\ <<u, d>>[1] = u /\ <<u, d>>[2] = d
        BY <2>5
      <4>4. /\ Len(tail) = 2 /\ DOMAIN tail = 1..2
            /\ tail[1] = "usage" /\ tail[2] = "done"
        BY <4>2
      <4>5. 1..2 = {1, 2}
        OBVIOUS
      <4>6. \A i \in {1, 2} : end[i].kind = tail[i]
        BY <2>5, <4>1, <4>3, <4>4, Zenon
      <4> QED
        BY <4>1, <4>3, <4>4, <4>5, <4>6
    <3> QED
      BY <1>1, <3>1, <3>2
  <2>7. body \in Seq(Frame) /\ Deltas(body) /\ Ended(Spoken, Texts(body))
    BY <2>1 DEF Body
  <2>8. /\ SubSeq(sent, 1, Len(sent) - Len(end)) = body
        /\ \A i \in DOMAIN end : sent[Len(sent) - Len(end) + i] = end[i]
    BY <2>1, <2>2, <2>6, <2>7, JoinedEnd
  <2>9. part = body
    BY <1>p, <2>6, <2>8
  <2>10. \A i \in DOMAIN tail : sent[Len(sent) - Len(tail) + i].kind = tail[i]
    BY <2>6, <2>8, Zenon
  <2>11. Kinds(part) \subseteq {"delta"}
    BY <2>7, <2>9 DEF Kinds, Deltas
  <2>12. /\ \E out \in Text : Texts(part) = out \o Suffix /\ InPieces(Spoken, out)
         /\ CutsCompose => Texts(part) = Apply(Spoken) \o Suffix
    BY <2>7, <2>9 DEF Ended
  <2> QED
    BY <2>10, <2>11, <2>12
<1> QED
  BY <1>2, <1>3, <1>4, <1>5, Zenon DEF tail, part

LEMMA ClosedAlways == Spec => [](RewriteInv /\ ClosingInv /\ ParserInv)
<1>2. Init => RewriteInv /\ ClosingInv /\ ParserInv
  BY RewriteInit, ClosingInit, ParserInit
<1>3. (RewriteInv /\ ClosingInv /\ ParserInv) /\ [Next]_vars
        => (RewriteInv /\ ClosingInv /\ ParserInv)'
  BY RewriteStep, ClosingStep, ParserStep
<1> QED
  BY <1>2, <1>3, PTL DEF Spec

(* A stream recorded as 200 carried all the backend sent (its last frame   *)
(* may want a blank line), rewritten in consecutive pieces, between prefix *)
(* and suffix, and then its usage and [DONE], each once; one the backend   *)
(* broke off says so before [DONE]; 499 is recorded only of a caller that  *)
(* hung up (pump, pipe_stream).  Any scripts, reads, blank lines, hang-ups *)
(* and failures, and any list of rules; under one rule or none the text is *)
(* rewritten as a whole.                                                   *)
THEOREM StreamClosed ==
  Spec => []ClosedInOrder /\ (Len(Rules) <= 1 => []ClosedInFull)
<1>1. RewriteInv /\ ClosingInv /\ ParserInv => ClosedInOrder
  BY ClosedOfInv
<1>2. Spec => []ClosedInOrder
  BY <1>1, ClosedAlways, PTL
<1>3. Len(Rules) <= 1 /\ Spec => []ClosedInFull
  <2>1. CASE CutsCompose
    <3>1. RewriteInv /\ ClosingInv /\ ParserInv => ClosedInFull
      BY <2>1, ClosedOfInv
    <3> QED
      BY <3>1, ClosedAlways, PTL
  <2>2. CASE ~CutsCompose
    BY <2>2, FewRulesCompose
  <2> QED
    BY <2>1, <2>2
<1> QED
  BY <1>2, <1>3
=============================================================================
