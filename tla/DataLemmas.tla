------------------------------ MODULE DataLemmas ------------------------------
(***************************************************************************)
(* Facts about natural numbers and sequences that the proofs about the     *)
(* components cite: least and greatest elements, the beginning of a        *)
(* sequence, a sequence without one of its elements or with one more, the  *)
(* function that a fold is, and what is in the sequence of the elements of *)
(* others.                                                                 *)
(***************************************************************************)
EXTENDS Naturals, Sequences, SequencesExt, FiniteSets, SequenceTheorems,
        FiniteSetTheorems, TLAPS

\* A set of natural numbers has a least element: the intervals 1 .. n are finite
\* sets, and strict inclusion of finite sets is well founded.  A property of all
\* the numbers follows from it by the least counterexample.
LEMMA LeastNat ==
    ASSUME NEW T, T \subseteq Nat, T # {}
    PROVE  \E x \in T : \A y \in T : x <= y
<1>. DEFINE Q == {1..n : n \in T}
<1>1. Q \subseteq FiniteSubsetsOf(Nat) /\ Q # {}
  <2>1. ASSUME NEW n \in T PROVE 1..n \in FiniteSubsetsOf(Nat)
    <3>1. n \in Nat /\ 1..n \subseteq Nat
      OBVIOUS
    <3>2. IsFiniteSet(1..n)
      BY <3>1, FS_Interval
    <3>. QED
      BY <3>1, <3>2 DEF FiniteSubsetsOf
  <2>. QED
    BY <2>1
<1>. HIDE DEF Q
<1>2. PICK X \in Q : \A Y \in Q : ~(<<Y,X>> \in StrictSubsetOrdering(Nat))
  <2>1. IsWellFoundedOn(StrictSubsetOrdering(Nat), FiniteSubsetsOf(Nat))
     BY FS_StrictSubsetOrderingWellFounded
  <2>. QED
    BY <2>1, <1>1, WFMin
<1>3. PICK x \in T : X = 1..x
  BY <1>2 DEF Q
<1>4. ASSUME NEW y \in T, ~(x <= y) PROVE FALSE
  <2>1. x \in Nat /\ y \in Nat /\ y < x
    BY <1>4
  <2>2. 1..y \in Q /\ 1..y \subseteq 1..x /\ x \in 1..x /\ x \notin 1..y
    BY <2>1 DEF Q
  <2>3. <<1..y, 1..x>> \in StrictSubsetOrdering(Nat)
    BY <2>1, <2>2 DEF StrictSubsetOrdering
  <2>. QED
    BY <2>2, <2>3, <1>2, <1>3
<1>. QED
  BY <1>4

\* A bounded set of positive numbers has a greatest element, which Max finds.
LEMMA GreatestOf ==
    ASSUME NEW T, NEW n \in Nat, T \subseteq 1 .. n, T # {}
    PROVE  Max(T) \in T /\ \A x \in T : x <= Max(T)
<1>. DEFINE U == {n - x : x \in T}
<1>1. U \subseteq Nat /\ U # {}
  <2>1. \A x \in T : n - x \in Nat
    OBVIOUS
  <2>. QED
    BY <2>1
<1>2. PICK u \in U : \A v \in U : u <= v
  <2>. HIDE DEF U
  <2>. QED
    BY <1>1, LeastNat
<1>3. PICK m \in T : u = n - m
  OBVIOUS
<1>4. \A x \in T : m >= x
  <2>1. \A x \in T : n - m <= n - x /\ x \in 1 .. n
    BY <1>2, <1>3
  <2>. QED
    BY <1>3, <2>1
<1>5. Max(T) \in T /\ \A x \in T : Max(T) >= x
  BY <1>3, <1>4 DEF Max
<1>6. \A x \in T : x \in Nat
  OBVIOUS
<1>. QED
  BY <1>5, <1>6

\* The first n elements of a sequence.
LEMMA FirstOnes ==
    ASSUME NEW S, NEW l \in Seq(S), NEW n \in 0 .. Len(l)
    PROVE  /\ SubSeq(l, 1, n) \in Seq(S)
           /\ Len(SubSeq(l, 1, n)) = n
           /\ \A x \in 1 .. n : SubSeq(l, 1, n)[x] = l[x]
<1>1. Len(l) \in Nat /\ n \in Nat /\ n <= Len(l)
  BY LenProperties
<1>2. \A x \in 1 .. n : l[x] \in S
  BY <1>1, ElementOfSeq
<1>. QED
  BY <1>1, <1>2, SubSeqProperties

\* A sequence without its r-th element.
LEMMA RemovedAt ==
    ASSUME NEW S, NEW s \in Seq(S), NEW r \in 1 .. Len(s)
    PROVE  /\ RemoveAt(s, r) \in Seq(S)
           /\ Len(RemoveAt(s, r)) = Len(s) - 1
           /\ \A j \in 1 .. Len(s) - 1 :
                 RemoveAt(s, r)[j] = IF j < r THEN s[j] ELSE s[j + 1]
<1>. DEFINE a == SubSeq(s, 1, r - 1)
            b == SubSeq(s, r + 1, Len(s))
<1>1. Len(s) \in Nat /\ \A i \in 1 .. Len(s) : s[i] \in S
  BY LenProperties, ElementOfSeq
<1>2. a \in Seq(S) /\ Len(a) = r - 1 /\ \A i \in 1 .. r - 1 : a[i] = s[i]
  BY <1>1, FirstOnes
<1>3. /\ b \in Seq(S) /\ Len(b) = Len(s) - r
      /\ \A i \in 1 .. Len(s) - r : b[i] = s[r + i]
  <2>1. r + 1 \in Int /\ Len(s) \in Int /\ \A i \in r + 1 .. Len(s) : s[i] \in S
    BY <1>1
  <2>2. /\ b \in Seq(S)
        /\ Len(b) = IF r + 1 <= Len(s) THEN Len(s) - (r + 1) + 1 ELSE 0
        /\ \A i \in 1 .. Len(s) - (r + 1) + 1 : b[i] = s[(r + 1) + i - 1]
    BY <2>1, SubSeqProperties
  <2>. QED
    BY <1>1, <2>2
<1>. HIDE DEF a, b
<1>4. /\ a \o b \in Seq(S) /\ Len(a \o b) = Len(a) + Len(b)
      /\ \A i \in 1 .. Len(a) + Len(b) :
            (a \o b)[i] = IF i <= Len(a) THEN a[i] ELSE b[i - Len(a)]
  BY <1>2, <1>3, ConcatProperties
<1>5. RemoveAt(s, r) = a \o b
  BY DEF RemoveAt, a, b
<1>6. ASSUME NEW j \in 1 .. Len(s) - 1
      PROVE  (a \o b)[j] = IF j < r THEN s[j] ELSE s[j + 1]
  <2>1. CASE j < r
    BY <1>1, <1>2, <1>3, <1>4, <2>1
  <2>2. CASE ~(j < r)
    <3>1. j - (r - 1) \in 1 .. Len(s) - r /\ r + (j - (r - 1)) = j + 1
      BY <1>1, <2>2
    <3>2. (a \o b)[j] = b[j - (r - 1)]
      BY <1>1, <1>2, <1>3, <1>4, <2>2
    <3>. QED
      BY <1>3, <2>2, <3>1, <3>2
  <2>. QED
    BY <2>1, <2>2
<1>. QED
  BY <1>1, <1>2, <1>3, <1>4, <1>5, <1>6

\* What Max gives for a set of numbers of which the greatest is known.
LEMMA MaxIs ==
    ASSUME NEW T, NEW m \in T, \A x \in T : m >= x, \A x \in T : x \in Nat
    PROVE  Max(T) = m
  BY DEF Max

\* The function by which the community modules define the fold of a sequence:
\* from each set of its indexes to what folding the elements there gives.
FoldOf(g, A, f, base, s, n) ==
    /\ g \in [SUBSET (1 .. n) -> A]
    /\ \A t \in SUBSET (1 .. n) :
          g[t] = IF t = {} THEN base ELSE f[<<g[t \ {Max(t)}], s[Max(t)]>>]

\* There is such a function: by the least length for which there is none.
LEMMA FoldGraph ==
    ASSUME NEW A, NEW B, NEW f \in [A \X B -> A], NEW base \in A,
           NEW n \in Nat, NEW s, \A i \in 1 .. n : s[i] \in B
    PROVE  \E g : FoldOf(g, A, f, base, s, n)
<1>. DEFINE P(m, g) == FoldOf(g, A, f, base, s, m)
            Bad == {m \in 0 .. n : ~\E g : P(m, g)}
<1>1. \E g : P(0, g)
  <2>1. 1 .. 0 = {} /\ SUBSET {} = {{}}
    OBVIOUS
  <2>2. P(0, [t \in {{}} |-> base])
    BY <2>1 DEF FoldOf
  <2>. QED
    BY <2>2
<1>2. ASSUME NEW m \in 0 .. n, m # n, NEW g, P(m, g)
      PROVE  \E h : P(m + 1, h)
  <2>. DEFINE h == [t \in SUBSET (1 .. m + 1) |->
                      IF m + 1 \in t THEN f[<<g[t \ {m + 1}], s[m + 1]>>] ELSE g[t]]
  <2>1. s[m + 1] \in B
    <3>1. m + 1 \in 1 .. n
      BY <1>2
    <3>. QED
      BY <3>1
  <2>2. ASSUME NEW t \in SUBSET (1 .. m + 1)
        PROVE  t \ {m + 1} \in SUBSET (1 .. m)
    OBVIOUS
  <2>3. g \in [SUBSET (1 .. m) -> A]
    BY <1>2 DEF FoldOf
  <2>4. h \in [SUBSET (1 .. m + 1) -> A]
    <3>1. ASSUME NEW t \in SUBSET (1 .. m + 1)
          PROVE  (IF m + 1 \in t THEN f[<<g[t \ {m + 1}], s[m + 1]>>] ELSE g[t]) \in A
      <4>1. g[t \ {m + 1}] \in A
        BY <2>2, <2>3
      <4>2. CASE m + 1 \in t
        BY <2>1, <4>1, <4>2
      <4>3. CASE m + 1 \notin t
        <5>1. t \ {m + 1} = t
          BY <4>3
        <5>. QED
          BY <4>1, <4>3, <5>1
      <4>. QED
        BY <4>2, <4>3
    <3>. QED
      BY <3>1
  <2>5. ASSUME NEW t \in SUBSET (1 .. m + 1)
        PROVE  h[t] = IF t = {} THEN base ELSE f[<<h[t \ {Max(t)}], s[Max(t)]>>]
    <3>1. CASE m + 1 \in t
      <4>1. Max(t) = m + 1
        <5>1. \A x \in t : m + 1 >= x /\ x \in Nat
          OBVIOUS
        <5>. QED
          BY <3>1, <5>1, MaxIs
      <4>2. h[t \ {m + 1}] = g[t \ {m + 1}]
        BY <2>2
      <4>3. h[t] = f[<<g[t \ {m + 1}], s[m + 1]>>]
        BY <3>1
      <4>. QED
        BY <3>1, <4>1, <4>2, <4>3
    <3>2. CASE m + 1 \notin t
      <4>1. t \in SUBSET (1 .. m)
        BY <3>2
      <4>2. h[t] = g[t] /\ h[t \ {Max(t)}] = g[t \ {Max(t)}]
        BY <3>2
      <4>3. g[t] = IF t = {} THEN base ELSE f[<<g[t \ {Max(t)}], s[Max(t)]>>]
        BY <1>2, <4>1 DEF FoldOf
      <4>. QED
        BY <4>2, <4>3
    <3>. QED
      BY <3>1, <3>2
  <2>6. P(m + 1, h)
    BY <2>4, <2>5 DEF FoldOf
  <2>. QED
    BY <2>6
<1>3. Bad = {}
  <2>1. SUFFICES ASSUME Bad # {} PROVE FALSE
    OBVIOUS
  <2>2. PICK m \in Bad : \A y \in Bad : m <= y
    <3>1. Bad \subseteq Nat
      OBVIOUS
    <3>. HIDE DEF Bad
    <3>. QED
      BY <2>1, <3>1, LeastNat
  <2>3. m \in 0 .. n /\ ~\E g : P(m, g)
    BY <2>2
  <2>4. m # 0
    BY <1>1, <2>3
  <2>5. m - 1 \in 0 .. n /\ m - 1 # n /\ (m - 1) + 1 = m
    BY <2>3, <2>4
  <2>6. m - 1 \notin Bad
    <3>. HIDE DEF Bad
    <3>. QED
      BY <2>2, <2>3, <2>5
  <2>7. PICK g : P(m - 1, g)
    <3>. HIDE DEF P
    <3>. QED
      BY <2>5, <2>6
  <2>8. \E h : P((m - 1) + 1, h)
    <3>. HIDE DEF P
    <3>. QED
      BY <1>2, <2>5, <2>7
  <2>. QED
    <3>. HIDE DEF P
    <3>. QED
      BY <2>3, <2>5, <2>8
<1>4. \E g : P(n, g)
  <2>. HIDE DEF P
  <2>. QED
    BY <1>3
<1>. QED
  BY <1>4

\* The sequence of all the elements of n sequences is what is reached by taking
\* them one after the other.
LEMMA FlattenStages ==
    ASSUME NEW S, NEW n \in Nat, NEW seqs \in [1 .. n -> Seq(S)]
    PROVE  \E h : /\ h \in [0 .. n -> Seq(S)]
                  /\ h[0] = <<>>
                  /\ \A i \in 1 .. n : h[i] = h[i - 1] \o seqs[i]
                  /\ FlattenSeq(seqs) = h[n]
<1>. DEFINE A == Seq(S)
            f == [p \in A \X A |-> p[1] \o p[2]]
            empty == << >>
            flatten == CHOOSE flatten : flatten = [i \in 1 .. Len(seqs) |->
                          IF i = 1 THEN seqs[i] ELSE flatten[i - 1] \o seqs[i]]
            Unfolds(g) == g = [i \in 1 .. n |-> IF i = 1 THEN seqs[i] ELSE g[i - 1] \o seqs[i]]
<1>1. Len(seqs) = n /\ \A i \in 1 .. n : seqs[i] \in A
  OBVIOUS
<1>2. f \in [A \X A -> A] /\ empty \in A
  OBVIOUS
<1>3. PICK g : FoldOf(g, A, f, empty, seqs, n)
  <2>. HIDE DEF f, A, empty
  <2>. QED
    BY <1>1, <1>2, FoldGraph
<1>. DEFINE h == [i \in 0 .. n |-> g[1 .. i]]
<1>4. h \in [0 .. n -> A]
  <2>1. \A i \in 0 .. n : 1 .. i \in SUBSET (1 .. n)
    OBVIOUS
  <2>. QED
    BY <1>3, <2>1 DEF FoldOf
<1>5. h[0] = empty
  <2>1. 1 .. 0 = {} /\ {} \in SUBSET (1 .. n)
    OBVIOUS
  <2>2. h[0] = g[{}]
    <3>. HIDE DEF empty
    <3>. QED
      BY <2>1
  <2>. QED
    BY <1>3, <2>1, <2>2 DEF FoldOf
<1>6. ASSUME NEW i \in 1 .. n PROVE h[i] = h[i - 1] \o seqs[i]
  <2>1. 1 .. i \in SUBSET (1 .. n) /\ 1 .. i # {}
    <3>1. i \in 1 .. i /\ 1 .. i \subseteq 1 .. n
      OBVIOUS
    <3>. QED
      BY <3>1
  <2>2. Max(1 .. i) = i
    <3>1. i \in 1 .. i /\ \A x \in 1 .. i : i >= x /\ x \in Nat
      OBVIOUS
    <3>. QED
      BY <3>1, MaxIs
  <2>3. (1 .. i) \ {i} = 1 .. i - 1
    OBVIOUS
  <2>4. g[1 .. i] = f[<<g[1 .. i - 1], seqs[i]>>]
    <3>. HIDE DEF f
    <3>. QED
      BY <1>3, <2>1, <2>2, <2>3 DEF FoldOf
  <2>5. h[i] = g[1 .. i] /\ h[i - 1] = g[1 .. i - 1] /\ h[i - 1] \in A
    BY <1>4
  <2>. HIDE DEF h
  <2>. QED
    BY <1>1, <2>4, <2>5
<1>. HIDE DEF h, A, empty
<1>9. ASSUME n # 0 PROVE h[1] = empty \o seqs[1]
  <2>1. 1 \in 1 .. n /\ 1 - 1 = 0
    BY <1>9
  <2>. QED
    BY <1>5, <1>6, <2>1
<1>7. CASE n = 0
  <2>1. seqs = empty
    BY <1>1, <1>7 DEF empty
  <2>2. FlattenSeq(seqs) = seqs
    BY <1>1, <1>7 DEF FlattenSeq
  <2>. QED
    BY <1>4, <1>5, <1>6, <1>7, <2>1, <2>2 DEF A, empty
<1>8. CASE n # 0
  <2>1. FlattenSeq(seqs) = flatten[n]
    BY <1>1, <1>8 DEF FlattenSeq
  <2>. DEFINE k == [i \in 1 .. n |-> h[i]]
  <2>2. Unfolds(k)
    <3>1. ASSUME NEW i \in 1 .. n
          PROVE  k[i] = IF i = 1 THEN seqs[i] ELSE k[i - 1] \o seqs[i]
      <4>1. CASE i = 1
        <5>1. h[1] = empty \o seqs[1]
          BY <1>8, <1>9
        <5>. QED
          BY <1>1, <4>1, <5>1 DEF A, empty
      <4>2. CASE i # 1
        <5>1. i - 1 \in 1 .. n
          BY <4>2
        <5>. QED
          BY <1>6, <4>2, <5>1
      <4>. QED
        BY <4>1, <4>2
    <3>. HIDE DEF k
    <3>2. k = [i \in 1 .. n |-> k[i]]
      BY DEF k
    <3>. QED
      BY <3>1, <3>2
  <2>. HIDE DEF k
  <2>3. Unfolds(flatten)
    BY <1>1, <2>2, Zenon
  <2>. HIDE DEF flatten
  <2>4. \A i \in 1 .. n : flatten[i] = IF i = 1 THEN seqs[i] ELSE flatten[i - 1] \o seqs[i]
    BY <2>3
  <2>. DEFINE Bad == {i \in 1 .. n : flatten[i] # h[i]}
  <2>5. Bad = {}
    <3>1. SUFFICES ASSUME Bad # {} PROVE FALSE
      OBVIOUS
    <3>2. PICK i \in Bad : \A y \in Bad : i <= y
      <4>1. Bad \subseteq Nat
        OBVIOUS
      <4>. HIDE DEF Bad
      <4>. QED
        BY <3>1, <4>1, LeastNat
    <3>3. i \in 1 .. n /\ flatten[i] # h[i]
      BY <3>2
    <3>4. CASE i = 1
      <4>1. h[1] = empty \o seqs[1] /\ flatten[1] = seqs[1]
        BY <1>8, <1>9, <2>4, <3>3, <3>4
      <4>. QED
        BY <1>1, <3>3, <3>4, <4>1 DEF A, empty
    <3>5. CASE i # 1
      <4>1. i - 1 \in 1 .. n /\ ~(i <= i - 1)
        BY <3>3, <3>5
      <4>2. i - 1 \notin Bad
        <5>. HIDE DEF Bad
        <5>. QED
          BY <3>2, <4>1
      <4>3. flatten[i - 1] = h[i - 1]
        BY <4>1, <4>2
      <4>. QED
        BY <1>6, <2>4, <3>3, <3>5, <4>1, <4>3
    <3>. QED
      BY <3>4, <3>5
  <2>6. flatten[n] = h[n]
    <3>1. n \in 1 .. n
      BY <1>8
    <3>. QED
      BY <2>5, <3>1
  <2>. QED
    BY <1>4, <1>5, <1>6, <2>1, <2>6 DEF A, empty
<1>. QED
  BY <1>7, <1>8

\* What is in two sequences put together.
LEMMA RangeOfBoth ==
    ASSUME NEW S, NEW a \in Seq(S), NEW b \in Seq(S)
    PROVE  a \o b \in Seq(S) /\ Range(a \o b) = Range(a) \cup Range(b)
<1>1. /\ a \o b \in Seq(S) /\ Len(a \o b) = Len(a) + Len(b)
      /\ \A i \in 1 .. Len(a) + Len(b) :
            (a \o b)[i] = IF i <= Len(a) THEN a[i] ELSE b[i - Len(a)]
  BY ConcatProperties
<1>2. Len(a) \in Nat /\ Len(b) \in Nat
  OBVIOUS
<1>3. DOMAIN a = 1 .. Len(a) /\ DOMAIN b = 1 .. Len(b)
      /\ DOMAIN (a \o b) = 1 .. Len(a) + Len(b)
  BY <1>1
<1>. DEFINE c == a \o b
<1>. HIDE DEF c
<1>4. ASSUME NEW x \in Range(c) PROVE x \in Range(a) \cup Range(b)
  <2>1. PICK i \in 1 .. Len(a) + Len(b) : x = c[i]
    BY <1>3 DEF Range, c
  <2>2. CASE i <= Len(a)
    <3>1. i \in DOMAIN a /\ x = a[i]
      BY <1>1, <1>2, <1>3, <2>1, <2>2 DEF c
    <3>. QED
      BY <3>1 DEF Range
  <2>3. CASE ~(i <= Len(a))
    <3>1. i - Len(a) \in DOMAIN b /\ x = b[i - Len(a)]
      BY <1>1, <1>2, <1>3, <2>1, <2>3 DEF c
    <3>. QED
      BY <3>1 DEF Range
  <2>. QED
    BY <2>2, <2>3
<1>5. ASSUME NEW i \in DOMAIN a PROVE a[i] \in Range(c)
  <2>1. i \in DOMAIN c /\ c[i] = a[i]
    BY <1>1, <1>2, <1>3 DEF c
  <2>. QED
    BY <2>1 DEF Range
<1>6. ASSUME NEW i \in DOMAIN b PROVE b[i] \in Range(c)
  <2>1. i + Len(a) \in 1 .. Len(a) + Len(b) /\ ~(i + Len(a) <= Len(a)) /\ (i + Len(a)) - Len(a) = i
    BY <1>2, <1>3
  <2>2. i + Len(a) \in DOMAIN c /\ c[i + Len(a)] = b[i]
    BY <1>1, <1>3, <2>1 DEF c
  <2>. QED
    BY <2>2 DEF Range
<1>7. Range(c) = Range(a) \cup Range(b)
  BY <1>4, <1>5, <1>6 DEF Range
<1>. QED
  BY <1>1, <1>7 DEF c

\* What is in the sequence of all the elements of n sequences.
LEMMA RangeOfAll ==
    ASSUME NEW S, NEW n \in Nat, NEW seqs \in [1 .. n -> Seq(S)]
    PROVE  /\ FlattenSeq(seqs) \in Seq(S)
           /\ Range(FlattenSeq(seqs)) = UNION {Range(seqs[i]) : i \in 1 .. n}
<1>1. PICK h : /\ h \in [0 .. n -> Seq(S)]
               /\ h[0] = <<>>
               /\ \A i \in 1 .. n : h[i] = h[i - 1] \o seqs[i]
               /\ FlattenSeq(seqs) = h[n]
  BY FlattenStages
<1>. DEFINE All(m) == UNION {Range(seqs[i]) : i \in 1 .. m}
            Bad == {m \in 0 .. n : Range(h[m]) # All(m)}
<1>2. Range(h[0]) = All(0)
  <2>1. 1 .. 0 = {}
    OBVIOUS
  <2>. QED
    BY <1>1, <2>1 DEF Range
<1>3. ASSUME NEW m \in 1 .. n, Range(h[m - 1]) = All(m - 1) PROVE Range(h[m]) = All(m)
  <2>1. Range(h[m]) = Range(h[m - 1]) \cup Range(seqs[m])
    <3>1. m - 1 \in 0 .. n
      OBVIOUS
    <3>2. h[m - 1] \in Seq(S) /\ seqs[m] \in Seq(S) /\ h[m] = h[m - 1] \o seqs[m]
      BY <1>1, <3>1
    <3>. HIDE DEF Bad
    <3>. QED
      BY <3>2, RangeOfBoth
  <2>2. 1 .. m = (1 .. m - 1) \cup {m}
    OBVIOUS
  <2>. QED
    BY <1>3, <2>1, <2>2
<1>4. Bad = {}
  <2>1. SUFFICES ASSUME Bad # {} PROVE FALSE
    OBVIOUS
  <2>2. PICK m \in Bad : \A y \in Bad : m <= y
    <3>1. Bad \subseteq Nat
      OBVIOUS
    <3>. HIDE DEF Bad
    <3>. QED
      BY <2>1, <3>1, LeastNat
  <2>3. m \in 0 .. n /\ Range(h[m]) # All(m)
    BY <2>2
  <2>4. m \in 1 .. n /\ m - 1 \in 0 .. n /\ ~(m <= m - 1)
    <3>1. m # 0
      BY <1>2, <2>3
    <3>. QED
      BY <2>3, <3>1
  <2>5. Range(h[m - 1]) = All(m - 1)
    <3>1. m - 1 \notin Bad
      <4>. HIDE DEF Bad
      <4>. QED
        BY <2>2, <2>4
    <3>. QED
      BY <2>4, <3>1
  <2>. QED
    <3>. HIDE DEF All
    <3>. QED
      BY <1>3, <2>3, <2>4, <2>5
<1>5. Range(h[n]) = All(n)
  <2>1. n \in 0 .. n
    OBVIOUS
  <2>. QED
    BY <1>4, <2>1
<1>. QED
  BY <1>1, <1>5

\* What comes up to a number.
LEMMA UpTo ==
    ASSUME NEW n \in Nat, NEW i \in 1 .. n
    PROVE  /\ 1 .. i \in SUBSET (1 .. n) /\ 1 .. i # {}
           /\ Max(1 .. i) = i /\ (1 .. i) \ {i} = 1 .. i - 1
<1>1. i \in 1 .. i /\ 1 .. i \subseteq 1 .. n /\ (1 .. i) \ {i} = 1 .. i - 1
  OBVIOUS
<1>2. \A x \in 1 .. i : i >= x /\ x \in Nat
  OBVIOUS
<1>3. Max(1 .. i) = i
  BY <1>1, <1>2, MaxIs
<1>. QED
  BY <1>1, <1>3

\* What holds of the first stage, and of each one when it holds of the one before it.
LEMMA StagesIn ==
    ASSUME NEW A, NEW n \in Nat, NEW h, h[0] \in A,
           \A i \in 1 .. n : h[i - 1] \in A => h[i] \in A
    PROVE  h[n] \in A
<1>. DEFINE Bad == {i \in 0 .. n : h[i] \notin A}
<1>1. SUFFICES ASSUME h[n] \notin A PROVE FALSE
  OBVIOUS
<1>2. n \in Bad /\ Bad \subseteq Nat
  BY <1>1
<1>3. PICK i \in Bad : \A k \in Bad : i <= k
  <2>. HIDE DEF Bad
  <2>. QED
    BY <1>2, LeastNat
<1>4. i \in 1 .. n /\ i - 1 \in 0 .. n /\ ~(i <= i - 1)
  <2>1. i \in 0 .. n /\ i # 0
    BY <1>3
  <2>. QED
    BY <2>1
<1>5. i - 1 \notin Bad
  <2>. HIDE DEF Bad
  <2>. QED
    BY <1>3, <1>4
<1>. QED
  BY <1>3, <1>4, <1>5

\* A sequence with one more element.
LEMMA InsertedAt ==
    ASSUME NEW S, NEW s \in Seq(S), NEW e \in S, NEW r \in 1 .. Len(s) + 1
    PROVE  /\ InsertAt(s, r, e) \in Seq(S)
           /\ Len(InsertAt(s, r, e)) = Len(s) + 1
           /\ \A j \in 1 .. Len(s) + 1 :
                 InsertAt(s, r, e)[j] = IF j < r THEN s[j] ELSE IF j = r THEN e ELSE s[j - 1]
<1>. DEFINE a == SubSeq(s, 1, r - 1)
            b == SubSeq(s, r, Len(s))
            m == a \o <<e>>
<1>1. Len(s) \in Nat /\ r \in 1 .. Len(s) + 1 /\ \A i \in 1 .. Len(s) : s[i] \in S
  BY LenProperties, ElementOfSeq
<1>2. a \in Seq(S) /\ Len(a) = r - 1 /\ \A i \in 1 .. r - 1 : a[i] = s[i]
  BY <1>1, FirstOnes
<1>3. /\ b \in Seq(S) /\ Len(b) = Len(s) - r + 1
      /\ \A i \in 1 .. Len(s) - r + 1 : b[i] = s[r + i - 1]
  <2>1. r \in Int /\ Len(s) \in Int /\ \A i \in r .. Len(s) : s[i] \in S
    BY <1>1
  <2>2. /\ b \in Seq(S)
        /\ Len(b) = IF r <= Len(s) THEN Len(s) - r + 1 ELSE 0
        /\ \A i \in 1 .. Len(s) - r + 1 : b[i] = s[r + i - 1]
    BY <2>1, SubSeqProperties
  <2>. QED
    BY <1>1, <2>2
<1>4. InsertAt(s, r, e) = m \o b
  BY DEF InsertAt
<1>. HIDE DEF a, b
<1>5. /\ m \in Seq(S) /\ Len(m) = r
      /\ \A i \in 1 .. r : m[i] = IF i < r THEN s[i] ELSE e
  <2>1. <<e>> \in Seq(S) /\ Len(<<e>>) = 1 /\ <<e>>[1] = e
    OBVIOUS
  <2>2. /\ m \in Seq(S) /\ Len(m) = Len(a) + 1
        /\ \A i \in 1 .. Len(a) + 1 : m[i] = IF i <= Len(a) THEN a[i] ELSE <<e>>[i - Len(a)]
    BY <1>2, <2>1, ConcatProperties
  <2>3. Len(a) + 1 = r /\ r \in Nat
    BY <1>1, <1>2
  <2>4. ASSUME NEW i \in 1 .. r PROVE m[i] = IF i < r THEN s[i] ELSE e
    <3>1. CASE i < r
      <4>1. i <= Len(a) /\ i \in 1 .. r - 1
        BY <1>1, <2>3, <3>1
      <4>. QED
        BY <1>2, <2>2, <2>3, <3>1, <4>1
    <3>2. CASE ~(i < r)
      <4>1. ~(i <= Len(a)) /\ i - Len(a) = 1
        BY <1>1, <2>3, <3>2
      <4>. QED
        BY <2>1, <2>2, <2>3, <3>2, <4>1
    <3>. QED
      BY <3>1, <3>2
  <2>. QED
    BY <2>2, <2>3, <2>4
<1>. HIDE DEF m
<1>6. /\ m \o b \in Seq(S) /\ Len(m \o b) = Len(m) + Len(b)
      /\ \A i \in 1 .. Len(m) + Len(b) :
            (m \o b)[i] = IF i <= Len(m) THEN m[i] ELSE b[i - Len(m)]
  BY <1>3, <1>5, ConcatProperties
<1>7. Len(m) + Len(b) = Len(s) + 1
  BY <1>1, <1>3, <1>5
<1>8. ASSUME NEW j \in 1 .. Len(s) + 1
      PROVE  (m \o b)[j] = IF j < r THEN s[j] ELSE IF j = r THEN e ELSE s[j - 1]
  <2>1. CASE j <= r
    BY <1>1, <1>5, <1>6, <1>7, <2>1
  <2>2. CASE ~(j <= r)
    <3>1. j - r \in 1 .. Len(s) - r + 1 /\ r + (j - r) - 1 = j - 1
      BY <1>1, <2>2
    <3>2. (m \o b)[j] = b[j - r]
      BY <1>1, <1>5, <1>6, <1>7, <2>2
    <3>. QED
      BY <1>1, <1>3, <2>2, <3>1, <3>2
  <2>. QED
    BY <1>1, <2>1, <2>2
<1>. QED
  BY <1>4, <1>6, <1>7, <1>8

\* The same thing d times, between two sequences.
LEMMA Between ==
    ASSUME NEW S, NEW a \in Seq(S), NEW b \in Seq(S), NEW c \in Seq(S), NEW d, d = Len(c),
           NEW e, \A i \in 1 .. Len(c) : c[i] = e
    PROVE  /\ a \o c \o b \in Seq(S) /\ Len(a \o c \o b) = Len(a) + d + Len(b)
           /\ \A k \in 1 .. Len(a) + d + Len(b) :
                 (a \o c \o b)[k] = IF k <= Len(a) THEN a[k]
                                    ELSE IF k <= Len(a) + d THEN e ELSE b[k - (Len(a) + d)]
<1>1. \A k \in 1 .. Len(a) + d + Len(b) :
          ~(k <= Len(a)) /\ k <= Len(a) + d => k - Len(a) \in 1 .. Len(c)
  BY LenProperties
<1>2. /\ a \o c \o b \in Seq(S) /\ Len(a \o c \o b) = Len(a) + Len(c) + Len(b)
      /\ \A k \in 1 .. Len(a) + Len(c) + Len(b) :
            (a \o c \o b)[k] = IF k <= Len(a) THEN a[k]
                               ELSE IF k <= Len(a) + Len(c) THEN c[k - Len(a)]
                               ELSE b[k - (Len(a) + Len(c))]
  OBVIOUS
<1>. QED
  BY <1>1, <1>2

\* The steps of a commit: variables, a loader for each device, menu, move, bootfs.

================================================================================
