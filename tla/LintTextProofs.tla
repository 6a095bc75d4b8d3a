--------------------------- MODULE LintTextProofs ----------------------------
(***************************************************************************)
(* Proofs about LintText for any documents, rules and tokens: what a pass  *)
(* reports, and what its fixes do.                                         *)
(***************************************************************************)
EXTENDS LintText, SequenceTheorems, FiniteSetTheorems, WellFoundedInduction, TLAPS

----------------------------------------------------------------------------
(* Numbers and sequences.                                                  *)

\* A nonempty set of numbers has a least one.
LEMMA Least ==
  ASSUME NEW S, S \subseteq Nat, S # {}
  PROVE  \E k \in S : \A j \in S : k <= j
<1>1. PICK k \in S : \A j \in S : ~ (<<j, k>> \in OpToRel(<, Nat))
  <2>1. \E k \in S : \A j \in S : ~ (<<j, k>> \in OpToRel(<, Nat))
    BY WFMin, NatLessThanWellFounded
  <2>2. QED
    BY <2>1
<1>2. ASSUME NEW j \in S PROVE k <= j
  <2>1. j \in Nat /\ k \in Nat
    OBVIOUS
  <2>2. ~ (j < k)
    BY <1>1, <2>1 DEF OpToRel
  <2>3. QED
    BY <2>1, <2>2
<1>3. QED
  BY <1>2

\* Induction, for a set G of the numbers that are good.
LEMMA Climb ==
  ASSUME NEW n \in Nat, NEW G, 0 \in G,
         \A i \in 0..(n - 1) : i \in G => i + 1 \in G
  PROVE  \A i \in 0..n : i \in G
<1> DEFINE Bad == {i \in 0..n : i \notin G}
<1> SUFFICES ASSUME Bad # {} PROVE FALSE
  OBVIOUS
<1>1. Bad \subseteq Nat
  OBVIOUS
<1>2. PICK k \in Bad : \A j \in Bad : k <= j
  <2> HIDE DEF Bad
  <2>1. QED
    BY <1>1, Least
<1>3. k \in 1..n
  OBVIOUS
<1>4. k - 1 \in 0..(n - 1) /\ k - 1 \notin Bad
  BY <1>2, <1>3
<1>5. k - 1 + 1 = k
  BY <1>3
<1>6. QED
  BY <1>4, <1>5

\* A function on 1..n is a sequence.
LEMMA FunctionIsSeq ==
  ASSUME NEW S, NEW n \in Nat, NEW f \in [1..n -> S]
  PROVE  f \in Seq(S) /\ Len(f) = n
<1>1. f \in Seq(S)
  BY SeqDef
<1>2. QED
  BY <1>1, LenProperties

\* The values that a step function goes through, from a base.
Paths(S, base, n, step) ==
  {f \in [0..n -> S] : f[0] = base /\ \A i \in 1..n : f[i] = step[<<i, f[i - 1]>>]}

\* There are such values.
LEMMA Iterate ==
  ASSUME NEW S, NEW base \in S, NEW n \in Nat, NEW step,
         \A i \in 1..n, x \in S : step[<<i, x>>] \in S
  PROVE  Paths(S, base, n, step) # {}
<1> DEFINE IsWalk(f, m) == /\ f \in [0..m -> S] /\ f[0] = base
                           /\ \A i \in 1..m : f[i] = step[<<i, f[i - 1]>>]
           G == {m \in 0..n : \E f : IsWalk(f, m)}
<1>1. 0 \in G
  <2>1. IsWalk([i \in 0..0 |-> base], 0)
    OBVIOUS
  <2> HIDE DEF IsWalk
  <2>2. QED
    BY <2>1
<1>2. ASSUME NEW m \in 0..(n - 1), m \in G PROVE m + 1 \in G
  <2>1. PICK f : IsWalk(f, m)
    BY <1>2
  <2> DEFINE g == [i \in 0..(m + 1) |-> IF i <= m THEN f[i] ELSE step[<<m + 1, f[m]>>]]
  <2>2. m \in Nat /\ m + 1 \in 1..n /\ f[m] \in S
    BY <2>1
  <2>3. step[<<m + 1, f[m]>>] \in S
    BY <2>2
  <2>4. g \in [0..(m + 1) -> S] /\ g[0] = base
    BY <2>1, <2>2, <2>3
  <2>5. ASSUME NEW i \in 1..(m + 1) PROVE g[i] = step[<<i, g[i - 1]>>]
    <3>1. CASE i <= m
      BY <2>1, <2>2, <3>1
    <3>2. CASE i = m + 1
      <4>1. g[i] = step[<<m + 1, f[m]>>] /\ i - 1 = m /\ g[m] = f[m]
        BY <2>2, <3>2
      <4>2. QED
        BY <3>2, <4>1
    <3>3. QED
      BY <2>2, <3>1, <3>2
  <2>6. IsWalk(g, m + 1)
    BY <2>4, <2>5
  <2> HIDE DEF IsWalk, g
  <2>7. QED
    BY <2>2, <2>6
<1>3. \A i \in 0..n : i \in G
  <2> HIDE DEF G
  <2>1. QED
    BY <1>1, <1>2, Climb
<1>4. n \in G
  BY <1>3
<1>5. PICK f : IsWalk(f, n)
  BY <1>4
<1>6. QED
  BY <1>5 DEF Paths

----------------------------------------------------------------------------
(* FlattenSeq: the pieces of a sequence one after the other.               *)

\* FlattenSeq appends the pieces in turn.
LEMMA FlatBySteps ==
  ASSUME NEW S, NEW ss \in Seq(Seq(S))
  PROVE  \E f \in [0..Len(ss) -> Seq(S)] :
           /\ f[0] = <<>>
           /\ \A i \in 1..Len(ss) : f[i] = f[i - 1] \o ss[i]
           /\ f[Len(ss)] = FlattenSeq(ss)
<1> DEFINE n == Len(ss)
           step == [p \in (1..n) \X Seq(S) |-> p[2] \o ss[p[1]]]
           IsWalk(g) == g = [i \in 1..n |-> IF i = 1 THEN ss[i] ELSE g[i - 1] \o ss[i]]
           flat == CHOOSE g : IsWalk(g)
<1>1. n \in Nat /\ ss \in [1..n -> Seq(S)] /\ <<>> \in Seq(S)
  BY LenProperties, EmptySeq
<1>2. \A i \in 1..n, t \in Seq(S) : step[<<i, t>>] = t \o ss[i] /\ step[<<i, t>>] \in Seq(S)
  <2>1. ASSUME NEW i \in 1..n, NEW t \in Seq(S)
        PROVE  step[<<i, t>>] = t \o ss[i] /\ step[<<i, t>>] \in Seq(S)
    <3>1. step[<<i, t>>] = t \o ss[i] /\ ss[i] \in Seq(S)
      BY <1>1
    <3>2. QED
      BY <3>1, ConcatProperties
  <2>2. QED
    BY <2>1
<1>3. PICK f \in [0..n -> Seq(S)] : f[0] = <<>> /\ \A i \in 1..n : f[i] = step[<<i, f[i - 1]>>]
  <2> HIDE DEF step, n
  <2>1. PICK T : T = Seq(S)
    OBVIOUS
  <2>2. PICK m, st, e : m = n /\ st = step /\ e = <<>>
    OBVIOUS
  <2>3. e \in T /\ m \in Nat /\ \A i \in 1..m, t \in T : st[<<i, t>>] \in T
    BY <1>1, <1>2, <2>1, <2>2
  <2>4. Paths(T, e, m, st) # {}
    BY ONLY <2>3, Iterate
  <2>5. PICK f \in Paths(T, e, m, st) : TRUE
    BY <2>4
  <2>6. QED
    BY <2>1, <2>2, <2>5 DEF Paths
<1>4. \A i \in 1..n : f[i] = f[i - 1] \o ss[i]
  <2>1. ASSUME NEW i \in 1..n PROVE f[i] = f[i - 1] \o ss[i]
    <3>1. <<i, f[i - 1]>> \in (1..n) \X Seq(S)
      <4>1. i - 1 \in 0..n
        BY <1>1
      <4>2. QED
        BY <1>3, <4>1
    <3>2. QED
      BY <1>3, <3>1
  <2>2. QED
    BY <2>1
<1>5. CASE n = 0
  <2>1. FlattenSeq(ss) = ss
    BY <1>5 DEF FlattenSeq
  <2>2. ss = <<>>
    BY <1>5, EmptySeq
  <2>3. QED
    BY <1>3, <1>4, <1>5, <2>1, <2>2
<1>6. CASE n # 0
  <2> DEFINE g == [i \in 1..n |-> f[i]]
  <2>1. IsWalk(g)
    <3>1. ASSUME NEW i \in 1..n
          PROVE  f[i] = IF i = 1 THEN ss[i] ELSE g[i - 1] \o ss[i]
      <4>1. CASE i = 1
        <5>1. f[1] = <<>> \o ss[1] /\ ss[1] \in Seq(S)
          <6>1. 1 \in 1..n /\ 1 - 1 = 0
            BY <4>1
          <6>2. f[1] = f[1 - 1] \o ss[1] /\ ss[1] \in Seq(S)
            BY <1>1, <1>4, <6>1
          <6>3. QED
            BY <1>3, <6>1, <6>2
        <5>2. <<>> \o ss[1] = ss[1]
          BY <5>1, ConcatEmptySeq
        <5>3. QED
          BY <4>1, <5>1, <5>2
      <4>2. CASE i # 1
        <5>1. i - 1 \in 1..n
          BY <1>1, <4>2
        <5>2. QED
          BY <1>4, <4>2, <5>1
      <4>3. QED
        BY <4>1, <4>2
    <3>2. QED
      BY <3>1
  <2>2. IsWalk(flat)
    <3> HIDE DEF IsWalk, g
    <3>1. QED
      BY <2>1
  <2>3. \A i \in 1..n : flat[i] = IF i = 1 THEN ss[i] ELSE flat[i - 1] \o ss[i]
    <3> HIDE DEF flat
    <3>1. QED
      BY <2>2
  <2>4. FlattenSeq(ss) = flat[n]
    BY <1>6 DEF FlattenSeq
  <2> DEFINE G == {i \in 0..n : i = 0 \/ flat[i] = f[i]}
  <2>5. \A i \in 0..n : i \in G
    <3>1. 0 \in G
      BY <1>1
    <3>2. ASSUME NEW i \in 0..(n - 1), i \in G PROVE i + 1 \in G
      <4>1. i + 1 \in 1..n /\ i + 1 - 1 = i
        BY <1>1
      <4>2. flat[i + 1] = IF i + 1 = 1 THEN ss[i + 1] ELSE flat[i] \o ss[i + 1]
        <5> HIDE DEF flat
        <5>1. QED
          BY <2>3, <4>1
      <4>3. f[i + 1] = f[i] \o ss[i + 1]
        <5>1. f[i + 1] = f[(i + 1) - 1] \o ss[i + 1]
          <6> HIDE DEF flat, n
          <6>1. QED
            BY <1>4, <4>1, Zenon
        <5>2. (i + 1) - 1 = i
          BY <4>1
        <5>3. QED
          <6> HIDE DEF flat, n
          <6>1. QED
            BY <5>1, <5>2, Zenon
      <4>4. CASE i = 0
        <5>1. f[1] = <<>> \o ss[1] /\ ss[1] \in Seq(S)
          BY <1>1, <1>3, <4>1, <4>3, <4>4, SMTT(30)
        <5>2. f[1] = ss[1]
          BY <5>1, ConcatEmptySeq
        <5>3. QED
          BY <4>1, <4>2, <4>4, <5>2
      <4>5. CASE i # 0
        <5>1. flat[i] = f[i]
          BY <3>2, <4>5
        <5>2. i + 1 # 1
          BY <4>5
        <5>3. flat[i + 1] = f[i + 1]
          <6> HIDE DEF flat
          <6>1. QED
            BY <4>2, <4>3, <5>1, <5>2
        <5>4. QED
          BY <4>1, <5>3
      <4>6. QED
        BY <4>4, <4>5
    <3> HIDE DEF G
    <3>3. QED
      BY <1>1, <3>1, <3>2, Climb
  <2>6. flat[n] = f[n]
    <3>1. n \in 0..n /\ n # 0
      BY <1>1, <1>6
    <3> HIDE DEF flat
    <3>2. QED
      BY <2>5, <3>1
  <2>7. QED
    BY <1>3, <1>4, <2>4, <2>6
<1>7. QED
  BY <1>5, <1>6

\* ... so it has what the pieces have.
LEMMA FlatType ==
  ASSUME NEW S, NEW ss \in Seq(Seq(S))
  PROVE  FlattenSeq(ss) \in Seq(S)
<1>1. PICK f \in [0..Len(ss) -> Seq(S)] : f[Len(ss)] = FlattenSeq(ss)
  BY FlatBySteps
<1>2. Len(ss) \in 0..Len(ss)
  BY LenProperties
<1>3. QED
  BY <1>1, <1>2

\* ... nothing when there is none.
LEMMA FlatEmpty == FlattenSeq(<<>>) = <<>>
BY EmptySeq DEF FlattenSeq

\* What a concatenation has.
LEMMA ConcatHas ==
  ASSUME NEW S, NEW s \in Seq(S), NEW t \in Seq(S), NEW x
  PROVE  x \in Range(s \o t) <=> x \in Range(s) \/ x \in Range(t)
<1> DEFINE m == Len(s)
           n == Len(t)
<1>1. m \in Nat /\ n \in Nat /\ DOMAIN s = 1..m /\ DOMAIN t = 1..n /\ DOMAIN (s \o t) = 1..(m + n)
  BY LenProperties, ConcatProperties
<1>2. \A i \in 1..(m + n) : (s \o t)[i] = IF i <= m THEN s[i] ELSE t[i - m]
  BY ConcatProperties
<1> HIDE DEF m, n
<1>3. ASSUME x \in Range(s \o t) PROVE x \in Range(s) \/ x \in Range(t)
  <2>1. PICK i \in 1..(m + n) : x = (s \o t)[i]
    BY <1>1, <1>3 DEF Range
  <2>2. CASE i <= m
    <3>1. i \in DOMAIN s /\ x = s[i]
      BY <1>1, <1>2, <2>1, <2>2
    <3>2. QED
      BY <3>1 DEF Range
  <2>3. CASE ~(i <= m)
    <3>1. i - m \in DOMAIN t /\ x = t[i - m]
      BY <1>1, <1>2, <2>1, <2>3
    <3>2. QED
      BY <3>1 DEF Range
  <2>4. QED
    BY <2>2, <2>3
<1>4. ASSUME x \in Range(s) PROVE x \in Range(s \o t)
  <2>1. PICK i \in 1..m : x = s[i]
    BY <1>1, <1>4 DEF Range
  <2>2. i \in 1..(m + n) /\ (s \o t)[i] = x
    BY <1>1, <1>2, <2>1
  <2>3. QED
    BY <1>1, <2>2 DEF Range
<1>5. ASSUME x \in Range(t) PROVE x \in Range(s \o t)
  <2>1. PICK i \in 1..n : x = t[i]
    BY <1>1, <1>5 DEF Range
  <2>2. m + i \in 1..(m + n) /\ ~(m + i <= m) /\ (m + i) - m = i
    BY <1>1
  <2>3. (s \o t)[m + i] = x
    BY <1>2, <2>1, <2>2
  <2>4. QED
    BY <1>1, <2>2, <2>3 DEF Range
<1>6. QED
  BY <1>3, <1>4, <1>5

\* What FlattenSeq has is in one of the pieces.
LEMMA FlatHas ==
  ASSUME NEW S, NEW ss \in Seq(Seq(S)), NEW x
  PROVE  x \in Range(FlattenSeq(ss)) <=> \E k \in 1..Len(ss) : x \in Range(ss[k])
<1> DEFINE n == Len(ss)
<1>1. n \in Nat /\ ss \in [1..n -> Seq(S)]
  BY LenProperties
<1>2. PICK f \in [0..n -> Seq(S)] : /\ f[0] = <<>>
                                    /\ \A i \in 1..n : f[i] = f[i - 1] \o ss[i]
                                    /\ f[n] = FlattenSeq(ss)
  BY FlatBySteps
<1> HIDE DEF n
<1> DEFINE G == {i \in 0..n : x \in Range(f[i]) <=> \E k \in 1..i : x \in Range(ss[k])}
<1>3. 0 \in G
  <2>1. Range(<<>>) = {}
    BY DEF Range
  <2>2. QED
    BY <1>1, <1>2, <2>1
<1>4. ASSUME NEW i \in 0..(n - 1), i \in G PROVE i + 1 \in G
  <2>1. i + 1 \in 1..n /\ (i + 1) - 1 = i /\ i \in 0..n
    BY <1>1
  <2>2. f[i + 1] = f[i] \o ss[i + 1] /\ f[i] \in Seq(S) /\ ss[i + 1] \in Seq(S)
    BY <1>1, <1>2, <2>1
  <2>3. x \in Range(f[i + 1]) <=> x \in Range(f[i]) \/ x \in Range(ss[i + 1])
    BY <2>2, ConcatHas
  <2>4. \A k \in 1..(i + 1) : k \in 1..i \/ k = i + 1
    BY <2>1
  <2>5. \A k \in 1..i : k \in 1..(i + 1)
    BY <2>1
  <2>6. i + 1 \in 1..(i + 1)
    BY <2>1
  <2>7. QED
    BY <1>4, <2>1, <2>3, <2>4, <2>5, <2>6
<1>5. \A i \in 0..n : i \in G
  <2> HIDE DEF G
  <2>1. QED
    BY <1>1, <1>3, <1>4, Climb
<1>6. n \in G
  BY <1>1, <1>5
<1>7. QED
  BY <1>2, <1>6 DEF n

----------------------------------------------------------------------------
(* Total: what a function adds up to along a sequence.                     *)

Totals(s, g) == Paths(Nat, 0, Len(s), [p \in (1..Len(s)) \X Nat |-> p[2] + g[s[p[1]]]])
Total(s, g) == (CHOOSE f \in Totals(s, g) : TRUE)[Len(s)]

\* A total is reached step by step.
LEMMA TotalBySteps ==
  ASSUME NEW S, NEW s \in Seq(S), NEW g \in [S -> Nat]
  PROVE  \E f \in [0..Len(s) -> Nat] :
           f[0] = 0 /\ (\A i \in 1..Len(s) : f[i] = f[i - 1] + g[s[i]]) /\ f[Len(s)] = Total(s, g)
<1> DEFINE n == Len(s)
           step == [p \in (1..n) \X Nat |-> p[2] + g[s[p[1]]]]
<1>1. n \in Nat /\ s \in [1..n -> S]
  BY LenProperties
<1>2. \A i \in 1..n, t \in Nat : step[<<i, t>>] = t + g[s[i]] /\ step[<<i, t>>] \in Nat
  <2>1. ASSUME NEW i \in 1..n, NEW t \in Nat
        PROVE  step[<<i, t>>] = t + g[s[i]] /\ step[<<i, t>>] \in Nat
    <3>1. step[<<i, t>>] = t + g[s[i]] /\ g[s[i]] \in Nat
      BY <1>1
    <3>2. QED
      BY <3>1
  <2>2. QED
    BY <2>1
<1>3. Totals(s, g) # {}
  <2>1. Totals(s, g) = Paths(Nat, 0, n, step)
    BY DEF Totals
  <2> HIDE DEF step, n
  <2>2. QED
    BY <1>1, <1>2, <2>1, Iterate
<1>4. PICK f \in Totals(s, g) : f[n] = Total(s, g)
  BY <1>3 DEF Total
<1>5. f \in [0..n -> Nat] /\ f[0] = 0 /\ \A i \in 1..n : f[i] = step[<<i, f[i - 1]>>]
  BY <1>4 DEF Totals, Paths
<1>6. ASSUME NEW i \in 1..n PROVE f[i] = f[i - 1] + g[s[i]]
  <2>1. i - 1 \in 0..n
    BY <1>1
  <2>2. f[i - 1] \in Nat
    BY <1>5, <2>1
  <2> HIDE DEF step
  <2>3. QED
    BY <1>2, <1>5, <2>2
<1>7. QED
  BY <1>4, <1>5, <1>6

\* A total is a number.
LEMMA TotalType ==
  ASSUME NEW S, NEW s \in Seq(S), NEW g \in [S -> Nat]
  PROVE  Total(s, g) \in Nat
<1>1. PICK f \in [0..Len(s) -> Nat] : f[Len(s)] = Total(s, g)
  BY TotalBySteps
<1>2. Len(s) \in 0..Len(s)
  BY LenProperties
<1>3. QED
  BY <1>1, <1>2

\* The total of nothing is 0.
LEMMA TotalEmpty ==
  ASSUME NEW S, NEW g \in [S -> Nat]
  PROVE  Total(<<>>, g) = 0
<1>1. <<>> \in Seq(S) /\ Len(<<>>) = 0
  BY EmptySeq
<1>2. PICK f \in [0..Len(<<>>) -> Nat] : f[0] = 0 /\ f[Len(<<>>)] = Total(<<>>, g)
  BY <1>1, TotalBySteps
<1>3. QED
  BY <1>1, <1>2

\* The total of one element is its value.
LEMMA TotalOne ==
  ASSUME NEW S, NEW x \in S, NEW g \in [S -> Nat]
  PROVE  Total(<<x>>, g) = g[x]
<1>1. <<x>> \in Seq(S) /\ Len(<<x>>) = 1 /\ <<x>>[1] = x
  OBVIOUS
<1>2. PICK f \in [0..Len(<<x>>) -> Nat] :
        f[0] = 0 /\ (\A i \in 1..Len(<<x>>) : f[i] = f[i - 1] + g[<<x>>[i]])
        /\ f[Len(<<x>>)] = Total(<<x>>, g)
  BY <1>1, TotalBySteps
<1>3. 1 \in 1..Len(<<x>>)
  BY <1>1
<1>4. f[1] = f[0] + g[x]
  BY <1>1, <1>2, <1>3
<1>5. QED
  BY <1>1, <1>2, <1>4

\* Two sequences of equal values have equal totals.
SameValues(s, g, t, h) == Len(s) = Len(t) /\ \A i \in 1..Len(s) : g[s[i]] = h[t[i]]

LEMMA TotalSame ==
  ASSUME NEW S, NEW s \in Seq(S), NEW g \in [S -> Nat],
         NEW T, NEW t \in Seq(T), NEW h \in [T -> Nat],
         SameValues(s, g, t, h)
  PROVE  Total(s, g) = Total(t, h)
<1> USE DEF SameValues
<1> DEFINE n == Len(s)
<1>1. n \in Nat
  BY LenProperties
<1>2. PICK f \in [0..Len(s) -> Nat] :
        f[0] = 0 /\ (\A i \in 1..Len(s) : f[i] = f[i - 1] + g[s[i]]) /\ f[Len(s)] = Total(s, g)
  BY TotalBySteps
<1>3. PICK e \in [0..Len(t) -> Nat] :
        e[0] = 0 /\ (\A i \in 1..Len(t) : e[i] = e[i - 1] + h[t[i]]) /\ e[Len(t)] = Total(t, h)
  BY TotalBySteps
<1> DEFINE G == {i \in 0..n : e[i] = f[i]}
<1>4. 0 \in G
  BY <1>1, <1>2, <1>3
<1>5. ASSUME NEW i \in 0..(n - 1), i \in G PROVE i + 1 \in G
  <2>1. i + 1 \in 1..n /\ (i + 1) - 1 = i
    BY <1>1
  <2>2. f[i + 1] = f[(i + 1) - 1] + g[s[i + 1]]
    BY <1>2, <2>1
  <2>3. e[i + 1] = e[(i + 1) - 1] + h[t[i + 1]]
    BY <1>3, <2>1
  <2>4. QED
    BY <1>1, <1>5, <2>1, <2>2, <2>3
<1>6. \A i \in 0..n : i \in G
  <2> HIDE DEF G, n
  <2>1. QED
    BY <1>1, <1>4, <1>5, Climb
<1>7. e[n] = f[n]
  BY <1>1, <1>6
<1>8. QED
  BY <1>2, <1>3, <1>7

\* A total is 0 when every value is.
LEMMA TotalZero ==
  ASSUME NEW S, NEW s \in Seq(S), NEW g \in [S -> Nat],
         \A i \in 1..Len(s) : g[s[i]] = 0
  PROVE  Total(s, g) = 0
<1> DEFINE n == Len(s)
<1>1. n \in Nat
  BY LenProperties
<1>2. PICK f \in [0..Len(s) -> Nat] :
        f[0] = 0 /\ (\A i \in 1..Len(s) : f[i] = f[i - 1] + g[s[i]]) /\ f[Len(s)] = Total(s, g)
  BY TotalBySteps
<1> DEFINE G == {i \in 0..n : f[i] = 0}
<1>3. 0 \in G
  BY <1>1, <1>2
<1>4. ASSUME NEW i \in 0..(n - 1), i \in G PROVE i + 1 \in G
  <2>1. i + 1 \in 1..n /\ (i + 1) - 1 = i
    BY <1>1
  <2>2. f[i + 1] = f[(i + 1) - 1] + g[s[i + 1]]
    BY <1>2, <2>1
  <2>3. QED
    BY <1>1, <1>4, <2>1, <2>2
<1>5. \A i \in 0..n : i \in G
  <2> HIDE DEF G, n
  <2>1. QED
    BY <1>1, <1>3, <1>4, Climb
<1>6. f[n] = 0
  BY <1>1, <1>5
<1>7. QED
  BY <1>2, <1>6

\* Totals of two sequences add up.
LEMMA TotalConcat ==
  ASSUME NEW S, NEW s \in Seq(S), NEW t \in Seq(S), NEW g \in [S -> Nat]
  PROVE  Total(s \o t, g) = Total(s, g) + Total(t, g)
<1>1. PICK m \in Nat, n \in Nat : m = Len(s) /\ n = Len(t)
  BY LenProperties
<1>2. s \o t \in Seq(S) /\ Len(s \o t) = m + n
      /\ \A i \in 1..(m + n) : (s \o t)[i] = IF i <= m THEN s[i] ELSE t[i - m]
  BY <1>1, ConcatProperties
<1>3. PICK f \in [0..m -> Nat] :
        f[0] = 0 /\ (\A i \in 1..m : f[i] = f[i - 1] + g[s[i]]) /\ f[m] = Total(s, g)
  BY <1>1, TotalBySteps
<1>4. PICK e \in [0..n -> Nat] :
        e[0] = 0 /\ (\A i \in 1..n : e[i] = e[i - 1] + g[t[i]]) /\ e[n] = Total(t, g)
  BY <1>1, TotalBySteps
<1>5. PICK d \in [0..(m + n) -> Nat] :
        d[0] = 0 /\ (\A i \in 1..(m + n) : d[i] = d[i - 1] + g[(s \o t)[i]])
        /\ d[m + n] = Total(s \o t, g)
  <2>1. PICK st : st = s \o t
    OBVIOUS
  <2>2. QED
    BY <1>2, <2>1, TotalBySteps, ZenonT(30)
<1> DEFINE G == {i \in 0..m : d[i] = f[i]}
<1>6. \A i \in 0..m : i \in G
  <2>1. 0 \in G
    BY <1>3, <1>5
  <2>2. ASSUME NEW i \in 0..(m - 1), i \in G PROVE i + 1 \in G
    <3>1. i + 1 \in 1..m /\ (i + 1) - 1 = i /\ i + 1 \in 1..(m + n) /\ i + 1 <= m
      OBVIOUS
    <3>2. f[i + 1] = f[(i + 1) - 1] + g[s[i + 1]]
      BY <1>3, <3>1
    <3>3. d[i + 1] = d[(i + 1) - 1] + g[(s \o t)[i + 1]]
      BY <1>5, <3>1
    <3>4. (s \o t)[i + 1] = s[i + 1]
      BY <1>2, <3>1
    <3>5. d[(i + 1) - 1] = f[(i + 1) - 1]
      BY <2>2, <3>1
    <3>6. d[i + 1] = f[i + 1]
      BY <3>2, <3>3, <3>4, <3>5, Zenon
    <3>7. QED
      BY <3>1, <3>6
  <2> HIDE DEF G
  <2>3. QED
    BY <2>1, <2>2, Climb
<1>7. d[m] = f[m]
  BY <1>6
<1> DEFINE H == {i \in 0..n : d[m + i] = f[m] + e[i]}
<1>8. \A i \in 0..n : i \in H
  <2>1. 0 \in H
    BY <1>3, <1>4, <1>7
  <2>2. ASSUME NEW i \in 0..(n - 1), i \in H PROVE i + 1 \in H
    <3>1. /\ i + 1 \in 1..n /\ (i + 1) - 1 = i /\ m + (i + 1) \in 1..(m + n)
          /\ (m + (i + 1)) - 1 = m + i /\ ~(m + (i + 1) <= m) /\ (m + (i + 1)) - m = i + 1
      OBVIOUS
    <3>2. e[i + 1] = e[(i + 1) - 1] + g[t[i + 1]]
      BY <1>4, <3>1
    <3>3. d[m + (i + 1)] = d[(m + (i + 1)) - 1] + g[(s \o t)[m + (i + 1)]]
      BY <1>5, <3>1
    <3>4. (s \o t)[m + (i + 1)] = t[i + 1]
      BY <1>2, <3>1
    <3>5. t[i + 1] \in S
      BY <1>1, <3>1, ElementOfSeq
    <3>10. e[i] \in Nat /\ f[m] \in Nat /\ e[(i + 1) - 1] = e[i]
      <4>1. i \in 0..n /\ m \in 0..m
        OBVIOUS
      <4>2. QED
        BY <1>3, <1>4, <3>1, <4>1
    <3>6. d[m + (i + 1)] = (f[m] + e[i]) + g[t[i + 1]]
      BY <2>2, <3>1, <3>3, <3>4
    <3>7. g[t[i + 1]] \in Nat
      BY <3>5
    <3>8. d[m + (i + 1)] = f[m] + e[i + 1]
      <4>1. e[i + 1] = e[i] + g[t[i + 1]]
        BY <3>2, <3>10
      <4>2. PICK a \in Nat, b \in Nat, c \in Nat : a = f[m] /\ b = e[i] /\ c = g[t[i + 1]]
        BY <3>7, <3>10
      <4>3. (a + b) + c = a + (b + c)
        OBVIOUS
      <4>4. QED
        BY <3>6, <4>1, <4>2, <4>3
    <3>9. QED
      BY <3>1, <3>8
  <2> HIDE DEF H
  <2>3. QED
    BY <2>1, <2>2, Climb
<1>9. d[m + n] = f[m] + e[n]
  BY <1>8
<1>10. QED
  BY <1>3, <1>4, <1>5, <1>9

\* A total has only the value that is not 0.
LEMMA TotalOnly ==
  ASSUME NEW S, NEW s \in Seq(S), NEW g \in [S -> Nat], NEW k \in 1..Len(s),
         \A i \in 1..Len(s) : i # k => g[s[i]] = 0
  PROVE  Total(s, g) = g[s[k]]
<1> DEFINE n == Len(s)
<1>1. n \in Nat /\ k \in Nat
  BY LenProperties
<1>2. PICK f \in [0..Len(s) -> Nat] :
        f[0] = 0 /\ (\A i \in 1..Len(s) : f[i] = f[i - 1] + g[s[i]]) /\ f[Len(s)] = Total(s, g)
  BY TotalBySteps
<1>3. g[s[k]] \in Nat
  BY ElementOfSeq
<1> DEFINE G == {i \in 0..n : f[i] = IF i < k THEN 0 ELSE g[s[k]]}
<1>4. 0 \in G
  BY <1>1, <1>2
<1>5. ASSUME NEW i \in 0..(n - 1), i \in G PROVE i + 1 \in G
  <2>1. i + 1 \in 1..n /\ (i + 1) - 1 = i
    BY <1>1
  <2>2. f[i + 1] = f[i] + g[s[i + 1]]
    BY <1>2, <2>1
  <2>3. CASE i + 1 = k
    BY <1>1, <1>3, <1>5, <2>1, <2>2, <2>3
  <2>4. CASE i + 1 # k
    BY <1>1, <1>3, <1>5, <2>1, <2>2, <2>4
  <2>5. QED
    BY <2>3, <2>4
<1>6. \A i \in 0..n : i \in G
  <2> HIDE DEF G, n
  <2>1. QED
    BY <1>1, <1>4, <1>5, Climb
<1>7. f[n] = g[s[k]]
  BY <1>1, <1>6
<1>8. QED
  BY <1>2, <1>7

\* A total that counts is the number of places counted.
Marks(g, S, A) == \A x \in S : g[x] = IF x \in A THEN 1 ELSE 0
Marked(s, A) == {k \in DOMAIN s : s[k] \in A}

\* A sum that weighs the members of a set as one and all else as zero counts places.
LEMMA TotalCount ==
  ASSUME NEW S, NEW s \in Seq(S), NEW A, NEW g \in [S -> Nat], Marks(g, S, A)
  PROVE  IsFiniteSet(Marked(s, A)) /\ Total(s, g) = Cardinality(Marked(s, A))
<1> USE DEF Marks, Marked
<1> DEFINE n == Len(s)
           At(i) == {k \in 1..i : s[k] \in A}
<1>1. n \in Nat /\ DOMAIN s = 1..n
  BY LenProperties
<1>2. PICK f \in [0..Len(s) -> Nat] :
        f[0] = 0 /\ (\A i \in 1..Len(s) : f[i] = f[i - 1] + g[s[i]]) /\ f[Len(s)] = Total(s, g)
  BY TotalBySteps
<1> DEFINE G == {i \in 0..n : IsFiniteSet(At(i)) /\ f[i] = Cardinality(At(i))}
<1>3. 0 \in G
  <2>1. At(0) = {}
    OBVIOUS
  <2>2. QED
    BY <1>1, <1>2, <2>1, FS_EmptySet
<1>4. ASSUME NEW i \in 0..(n - 1), i \in G PROVE i + 1 \in G
  <2>1. i + 1 \in 1..n /\ (i + 1) - 1 = i /\ i \in Nat
    BY <1>1
  <2>2. f[i + 1] = f[i] + g[s[i + 1]]
    BY <1>2, <2>1
  <2>3. s[i + 1] \in S
    BY <2>1, ElementOfSeq
  <2>4. CASE s[i + 1] \in A
    <3>1. At(i + 1) = At(i) \cup {i + 1} /\ i + 1 \notin At(i)
      BY <2>1, <2>4
    <3>2. IsFiniteSet(At(i)) /\ f[i] = Cardinality(At(i))
      BY <1>4
    <3>3. f[i + 1] = f[i] + 1
      BY <2>2, <2>3, <2>4
    <3> HIDE DEF At
    <3>4. IsFiniteSet(At(i + 1)) /\ Cardinality(At(i + 1)) = Cardinality(At(i)) + 1
      BY <3>1, <3>2, FS_AddElement
    <3>5. QED
      BY <2>1, <3>2, <3>3, <3>4
  <2>5. CASE s[i + 1] \notin A
    <3>1. At(i + 1) = At(i)
      BY <2>1, <2>5
    <3>2. IsFiniteSet(At(i)) /\ f[i] = Cardinality(At(i))
      BY <1>4
    <3>3. f[i] \in Nat
      BY <2>1
    <3>4. f[i + 1] = f[i]
      BY <2>2, <2>3, <2>5, <3>3
    <3> HIDE DEF At
    <3>5. QED
      BY <2>1, <3>1, <3>2, <3>4
  <2>6. QED
    BY <2>4, <2>5
<1>5. \A i \in 0..n : i \in G
  <2> HIDE DEF G, n
  <2>1. QED
    BY <1>1, <1>3, <1>4, Climb
<1>6. n \in G /\ At(n) = {k \in DOMAIN s : s[k] \in A}
  BY <1>1, <1>5
<1>7. QED
  BY <1>2, <1>6

\* The total of the pieces together is that of their totals.
LEMMA TotalFlat ==
  ASSUME NEW S, NEW ss \in Seq(Seq(S)), NEW g \in [S -> Nat]
  PROVE  /\ [t \in Seq(S) |-> Total(t, g)] \in [Seq(S) -> Nat]
         /\ Total(FlattenSeq(ss), g) = Total(ss, [t \in Seq(S) |-> Total(t, g)])
<1> DEFINE n == Len(ss)
           h == [t \in Seq(S) |-> Total(t, g)]
<1>1. n \in Nat /\ ss \in [1..n -> Seq(S)]
  BY LenProperties
<1>2. h \in [Seq(S) -> Nat]
  BY TotalType
<1>3. PICK f \in [0..n -> Seq(S)] : /\ f[0] = <<>>
                                    /\ \A i \in 1..n : f[i] = f[i - 1] \o ss[i]
                                    /\ f[n] = FlattenSeq(ss)
  BY FlatBySteps
<1>4. PICK e \in [0..n -> Nat] :
        e[0] = 0 /\ (\A i \in 1..n : e[i] = e[i - 1] + h[ss[i]]) /\ e[n] = Total(ss, h)
  <2> HIDE DEF h
  <2>1. PICK T : T = Seq(S)
    OBVIOUS
  <2>2. ss \in Seq(T) /\ h \in [T -> Nat]
    BY <1>2, <2>1
  <2>3. QED
    BY <2>2, TotalBySteps
<1> HIDE DEF n
<1> DEFINE G == {i \in 0..n : e[i] = Total(f[i], g)}
<1>5. 0 \in G
  BY <1>1, <1>3, <1>4, TotalEmpty
<1>6. ASSUME NEW i \in 0..(n - 1), i \in G PROVE i + 1 \in G
  <2>1. i + 1 \in 1..n /\ (i + 1) - 1 = i /\ i \in 0..n
    BY <1>1
  <2>2. f[i + 1] = f[i] \o ss[i + 1] /\ e[i + 1] = e[i] + h[ss[i + 1]]
    BY <1>3, <1>4, <2>1
  <2>3. f[i] \in Seq(S) /\ ss[i + 1] \in Seq(S)
    BY <1>1, <2>1
  <2>4. Total(f[i + 1], g) = Total(f[i], g) + Total(ss[i + 1], g)
    BY <2>2, <2>3, TotalConcat
  <2>5. h[ss[i + 1]] = Total(ss[i + 1], g)
    BY <2>3
  <2>6. e[i + 1] = Total(f[i + 1], g)
    <3> HIDE DEF h
    <3>1. QED
      BY <1>6, <2>2, <2>4, <2>5
  <2>7. QED
    BY <2>1, <2>6
<1>7. \A i \in 0..n : i \in G
  <2> HIDE DEF G
  <2>1. QED
    BY <1>1, <1>5, <1>6, Climb
<1>8. e[n] = Total(f[n], g)
  BY <1>1, <1>7
<1>9. QED
  BY <1>2, <1>3, <1>4, <1>8

\* A total of ones is a length.
LEMMA TotalOnes ==
  ASSUME NEW S, NEW s \in Seq(S), NEW g \in [S -> Nat],
         \A i \in 1..Len(s) : g[s[i]] = 1
  PROVE  Total(s, g) = Len(s)
<1> DEFINE n == Len(s)
<1>1. n \in Nat
  BY LenProperties
<1>2. PICK f \in [0..Len(s) -> Nat] :
        f[0] = 0 /\ (\A i \in 1..Len(s) : f[i] = f[i - 1] + g[s[i]]) /\ f[Len(s)] = Total(s, g)
  BY TotalBySteps
<1> DEFINE G == {i \in 0..n : f[i] = i}
<1>3. 0 \in G
  BY <1>1, <1>2
<1>4. ASSUME NEW i \in 0..(n - 1), i \in G PROVE i + 1 \in G
  <2>1. i + 1 \in 1..n /\ (i + 1) - 1 = i
    BY <1>1
  <2>2. f[i + 1] = f[(i + 1) - 1] + g[s[i + 1]]
    BY <1>2, <2>1
  <2>3. QED
    BY <1>1, <1>4, <2>1, <2>2
<1>5. \A i \in 0..n : i \in G
  <2> HIDE DEF G, n
  <2>1. QED
    BY <1>1, <1>3, <1>4, Climb
<1>6. f[n] = n
  BY <1>1, <1>5
<1>7. QED
  BY <1>2, <1>6

----------------------------------------------------------------------------
(* What the rules report: fixes within the value, with something to put    *)
(* there.                                                                  *)

Offer(n) == {g \in [from : 1..n, to : 1..n, with : Value \ {<<>>}] : g.from <= g.to}
Offers(n) == {NoFix} \cup {<<g>> : g \in Offer(n)}

\* The pieces of some sets together.
LEMMA PiecesType ==
  ASSUME NEW S, NEW n \in Nat, NEW ss \in [1..n -> Seq(S)]
  PROVE  ss \in Seq(Seq(S)) /\ Len(ss) = n /\ FlattenSeq(ss) \in Seq(S)
<1>1. ss \in Seq(Seq(S)) /\ Len(ss) = n
  <2>1. PICK T : T = Seq(S)
    OBVIOUS
  <2>2. PICK t : t = ss
    OBVIOUS
  <2>3. t \in [1..n -> T]
    BY <2>1, <2>2
  <2>4. t \in Seq(T) /\ Len(t) = n
    BY <2>3, FunctionIsSeq
  <2>5. QED
    BY <2>1, <2>2, <2>4
<1>2. QED
  BY <1>1, FlatType

\* A piece that is there under a condition.
LEMMA WhenType ==
  ASSUME NEW S, NEW x, NEW test, test => x \in S
  PROVE  When(test, x) \in Seq(S)
<1>1. CASE test
  BY <1>1 DEF When
<1>2. CASE ~test
  BY <1>2, EmptySeq DEF When
<1>3. QED
  BY <1>1, <1>2

\* A variable or a name is a value.
LEMMA NamesAreValues ==
  ASSUME NEW s \in STRING
  PROVE  VarOf(s) \in Value \ {<<>>} /\ <<Name(s)>> \in Value \ {<<>>}
<1>1. Name(s) \in Cell /\ Open("var") \in Cell /\ Close \in Cell
  <2>1. Name(s) \in [w : {"name", "fn"}, s : STRING]
    BY DEF Name
  <2>2. QED
    BY <2>1 DEF Cell
<1>2. PICK a \in Cell, b \in Cell, c \in Cell : a = Open("var") /\ b = Name(s) /\ c = Close
  BY <1>1
<1>3. <<a, b, c>> \in Seq(Cell) /\ <<b>> \in Seq(Cell) /\ <<a, b, c>> # <<>> /\ <<b>> # <<>>
  OBVIOUS
<1>4. QED
  BY <1>2, <1>3 DEF VarOf, Value

\* A fix in a value is on offer.
LEMMA FixByType ==
  ASSUME NEW n \in Nat, NEW a \in 1..n, NEW b \in 1..n, a <= b, NEW w \in Value \ {<<>>}
  PROVE  FixBy(a, b, w) \in Offers(n)
<1>1. [from |-> a, to |-> b, with |-> w] \in Offer(n)
  BY DEF Offer
<1>2. QED
  BY <1>1 DEF FixBy, Offers

\* The tokens have a last one.
LEMMA LastOfType ==
  ASSUME NEW ts, ts \subseteq Tokens, ts # {}
  PROVE  LastOf(ts) \in ts /\ \A u \in ts : u.rank <= LastOf(ts).rank
<1> DEFINE top == Cardinality(Tokens)
           R == {top - t.rank : t \in ts}
<1>1. top \in Nat
  BY TokensAssumption, FS_CardinalityType
<1>2. \A t \in ts : t.rank \in 1..top
  BY TokensAssumption
<1>3. R \subseteq Nat /\ R # {}
  BY <1>1, <1>2
<1>4. PICK k \in R : \A j \in R : k <= j
  <2> HIDE DEF R
  <2>1. QED
    BY <1>3, Least
<1>5. PICK t \in ts : k = top - t.rank
  BY <1>4
<1>6. ASSUME NEW u \in ts PROVE u.rank <= t.rank
  <2>1. top - u.rank \in R
    OBVIOUS
  <2>2. top - t.rank <= top - u.rank
    BY <1>4, <1>5, <2>1
  <2>3. QED
    BY <1>1, <1>2, <2>2
<1>7. QED
  BY <1>6 DEF LastOf

\* Of the composite tokens of one value, too.
LEMMA LastCompositeType ==
  ASSUME NEW v, Composite(v) # {}
  PROVE  LastComposite(v) \in Composite(v)
<1> DEFINE C == Composite(v)
<1>1. \A t \in C : t \in Tokens /\ TypeRank(t) \in 1..4
  <2>1. ASSUME NEW t \in C PROVE t \in Tokens /\ TypeRank(t) \in 1..4
    <3>1. DOMAIN CompositeTypes = 1..4
      BY DEF CompositeTypes
    <3>2. t \in Tokens /\ \E k \in DOMAIN CompositeTypes : CompositeTypes[k] = t.type
      BY DEF Composite
    <3>3. TypeRank(t) \in DOMAIN CompositeTypes
      BY <3>2 DEF TypeRank
    <3>4. QED
      BY <3>1, <3>2, <3>3
  <2>2. QED
    BY <2>1
<1>2. C # {}
  OBVIOUS
<1> HIDE DEF C
<1> DEFINE R == {4 - TypeRank(t) : t \in C}
<1>3. R \subseteq Nat /\ R # {}
  BY <1>1, <1>2
<1>4. PICK k \in R : \A j \in R : k <= j
  <2> HIDE DEF R
  <2>1. QED
    BY <1>3, Least
<1> DEFINE top == {t \in C : 4 - TypeRank(t) = k}
<1>5. top \subseteq Tokens /\ top # {}
  BY <1>1, <1>4
<1>6. LastOf(top) \in top /\ \A u \in top : u.rank <= LastOf(top).rank
  <2> HIDE DEF top
  <2>1. QED
    BY <1>5, LastOfType
<1>7. PICK t \in top : \A u \in top : u.rank <= t.rank
  <2> HIDE DEF top
  <2>1. QED
    BY <1>6
<1>8. ASSUME NEW u \in C
      PROVE  TypeRank(u) < TypeRank(t) \/ (TypeRank(u) = TypeRank(t) /\ u.rank <= t.rank)
  <2>1. 4 - TypeRank(u) \in R /\ 4 - TypeRank(t) = k /\ t \in C
    OBVIOUS
  <2>2. 4 - TypeRank(t) <= 4 - TypeRank(u)
    BY <1>4, <2>1
  <2>3. TypeRank(u) \in 1..4 /\ TypeRank(t) \in 1..4
    BY <1>1, <2>1
  <2>4. CASE TypeRank(u) = TypeRank(t)
    BY <1>7, <2>1, <2>4
  <2>5. CASE TypeRank(u) # TypeRank(t)
    BY <2>2, <2>3, <2>5
  <2>6. QED
    BY <2>4, <2>5
<1>9. QED
  BY <1>8 DEF LastComposite, C

\* A rule with a report for each offending word: a fix for a color, if any.
LEMMA ColorReportsType ==
  ASSUME NEW v \in Value
  PROVE  ColorReports(v) \in Seq(Offers(Len(v)))
<1>1. Len(v) \in Nat /\ DOMAIN v = 1..Len(v)
  BY LenProperties DEF Value
<1>2. ASSUME NEW i \in 1..Len(v) PROVE ColorFix(v, i) \in Offers(Len(v))
  <2> DEFINE same == {t \in TokensOf("color") : t.value = <<v[i]>>}
  <2>1. CASE same = {}
    BY <2>1 DEF ColorFix, Offers
  <2>2. CASE same # {}
    <3>1. same \subseteq Tokens
      BY DEF TokensOf
    <3>2. LastOf(same) \in Tokens
      <4> HIDE DEF same
      <4>1. QED
        BY <2>2, <3>1, LastOfType
    <3>3. LastOf(same).var \in STRING
      <4> HIDE DEF same
      <4>1. QED
        BY <3>2, TokensAssumption
    <3>4. VarOf(LastOf(same).var) \in Value \ {<<>>}
      <4> HIDE DEF same
      <4>1. QED
        BY <3>3, NamesAreValues
    <3>5. FixBy(i, i, VarOf(LastOf(same).var)) \in Offers(Len(v))
      <4> HIDE DEF same
      <4>1. i <= i
        BY <1>1
      <4>2. QED
        BY <1>1, <3>4, <4>1, FixByType
    <3>6. QED
      BY <2>2, <3>5 DEF ColorFix
  <2>3. QED
    BY <2>1, <2>2
<1> DEFINE ss == [i \in 1..Len(v) |-> When(RawColor(v, i), ColorFix(v, i))]
<1>3. ss \in [1..Len(v) -> Seq(Offers(Len(v)))]
  BY <1>2, WhenType
<1>4. FlattenSeq(ss) \in Seq(Offers(Len(v)))
  <2> HIDE DEF ss
  <2>1. QED
    BY <1>1, <1>3, PiecesType
<1>5. ColorReports(v) = FlattenSeq(ss)
  BY <1>1 DEF ColorReports, EachOf
<1>6. QED
  BY <1>4, <1>5

\* The reports without a fix.
LEMMA NoFixesType ==
  ASSUME NEW n
  PROVE  NoFix \in Offers(n) /\ \A bad : OneIf(bad) \in Seq(Offers(n))
<1>1. NoFix \in Offers(n)
  BY DEF Offers
<1>2. QED
  BY <1>1, WhenType DEF OneIf

\* What border-color reports of a declaration are offers within its value.
LEMMA BorderColorReportsType ==
  ASSUME NEW d, d.value \in Value
  PROVE  BorderColorReports(d) \in Seq(Offers(Len(d.value)))
<1> DEFINE n == Len(d.value)
           bad(i) == /\ Is(d.value[i], "name") /\ d.value[i].s \in Colors
                     /\ d.value[i] \notin BorderColors
           ss == [i \in 1..n |-> When(bad(i), NoFix)]
<1>1. n \in Nat /\ DOMAIN d.value = 1..n
  BY LenProperties DEF Value
<1>2. ss \in [1..n -> Seq(Offers(n))]
  <2> HIDE DEF n
  <2>1. QED
    BY NoFixesType, WhenType
<1>3. FlattenSeq(ss) \in Seq(Offers(n))
  <2> HIDE DEF ss, n
  <2>1. QED
    BY <1>1, <1>2, PiecesType
<1>4. CASE d.prop # "border-color"
  BY <1>4, EmptySeq DEF BorderColorReports
<1>5. CASE d.prop = "border-color"
  <2>1. BorderColorReports(d) = FlattenSeq(ss)
    BY <1>1, <1>5 DEF BorderColorReports, EachOf
  <2>2. QED
    BY <1>3, <2>1
<1>6. QED
  BY <1>4, <1>5

\* What easing reports of a declaration are offers within its value.
LEMMA EasingReportsType ==
  ASSUME NEW d, d.value \in Value
  PROVE  EasingReports(d) \in Seq(Offers(Len(d.value)))
<1> DEFINE n == Len(d.value)
           bad(i) == /\ Is(d.value[i], "name") /\ d.value[i].s \in Easings
                     /\ <<d.value[i]>> \notin Curves
           ss == [i \in 1..n |-> When(bad(i), NoFix)]
           other == d.prop \notin {"animation-timing-function", "transition-timing-function", "animation"}
<1>1. n \in Nat /\ DOMAIN d.value = 1..n
  BY LenProperties DEF Value
<1>2. ss \in [1..n -> Seq(Offers(n))]
  <2> HIDE DEF n
  <2>1. QED
    BY NoFixesType, WhenType
<1>3. FlattenSeq(ss) \in Seq(Offers(n))
  <2> HIDE DEF ss, n
  <2>1. QED
    BY <1>1, <1>2, PiecesType
<1>4. CASE other
  BY <1>4, EmptySeq DEF EasingReports
<1>5. CASE ~other
  <2>1. EasingReports(d) = FlattenSeq(ss)
    BY <1>1, <1>5 DEF EasingReports, EachOf
  <2>2. QED
    BY <1>3, <2>1
<1>6. QED
  BY <1>4, <1>5

\* What token-provenance reports of a declaration are offers within its value.
LEMMA ProvenanceReportsType ==
  ASSUME NEW d, d.value \in Value
  PROVE  ProvenanceReports(d) \in Seq(Offers(Len(d.value)))
<1> DEFINE n == Len(d.value)
           bad(i) == /\ i > 1 /\ d.value[i - 1] = Open("var") /\ Is(d.value[i], "name")
                     /\ d.value[i].s \notin {t.var : t \in Tokens}
           ss == [i \in 1..n |-> When(bad(i), NoFix)]
<1>1. n \in Nat /\ DOMAIN d.value = 1..n
  BY LenProperties DEF Value
<1>2. ss \in [1..n -> Seq(Offers(n))]
  <2> HIDE DEF n
  <2>1. QED
    BY NoFixesType, WhenType
<1>3. FlattenSeq(ss) \in Seq(Offers(n))
  <2> HIDE DEF ss, n
  <2>1. QED
    BY <1>1, <1>2, PiecesType
<1>4. ProvenanceReports(d) = FlattenSeq(ss)
  BY <1>1 DEF ProvenanceReports, EachOf
<1>5. QED
  BY <1>3, <1>4

\* What composite-equivalence reports are offers within the value.
LEMMA CompositeReportsType ==
  ASSUME NEW d, d.value \in Value
  PROVE  CompositeReports(d) \in Seq(Offers(Len(d.value)))
<1> DEFINE n == Len(d.value)
<1>1. n \in Nat
  BY LenProperties DEF Value
<1>2. CASE Composite(d.value) = {}
  BY <1>2, EmptySeq DEF CompositeReports
<1>3. CASE Composite(d.value) # {}
  <2>1. LastComposite(d.value) \in Composite(d.value)
    BY <1>3, LastCompositeType
  <2>2. PICK t \in Tokens : t = LastComposite(d.value) /\ t.value = d.value
    BY <2>1 DEF Composite
  <2>3. t.var \in STRING /\ t.value # <<>>
    BY TokensAssumption
  <2>4. n >= 1
    BY <1>1, <2>2, <2>3, EmptySeq DEF Value
  <2>5. VarOf(t.var) \in Value \ {<<>>}
    BY <2>3, NamesAreValues
  <2>6. FixBy(1, n, VarOf(t.var)) \in Offers(n)
    <3> HIDE DEF n
    <3>1. 1 \in 1..n /\ n \in 1..n
      BY <1>1, <2>4
    <3>2. QED
      BY <1>1, <2>4, <2>5, <3>1, FixByType
  <2>7. CompositeReports(d) = <<FixBy(1, n, VarOf(t.var))>>
    BY <1>3, <2>2 DEF CompositeReports
  <2>8. QED
    BY <2>6, <2>7
<1>4. QED
  BY <1>2, <1>3

\* What deprecation reports of a value are offers within it.
LEMMA DeprecatedReportsType ==
  ASSUME NEW v \in Value, NEW fixable
  PROVE  DeprecatedReports(v, fixable) \in Seq(Offers(Len(v)))
<1> DEFINE none == Len(v) # 1 \/ ~Is(v[1], "name") \/ Deprecated(v[1].s) = {}
           s == Suggestion(LastOf(Deprecated(v[1].s)))
<1>1. CASE none
  BY <1>1, EmptySeq DEF DeprecatedReports
<1>2. CASE ~none
  <2>1. DeprecatedReports(v, fixable) =
          <<IF fixable /\ s # "" THEN FixBy(1, 1, <<Name(s)>>) ELSE NoFix>>
    BY <1>2 DEF DeprecatedReports
  <2>2. Deprecated(v[1].s) \subseteq Tokens /\ Deprecated(v[1].s) # {}
    BY <1>2 DEF Deprecated
  <2>3. LastOf(Deprecated(v[1].s)) \in Tokens
    BY <2>2, LastOfType
  <2>4. s \in STRING
    BY <2>3, TokensAssumption DEF Suggestion
  <2>5. FixBy(1, 1, <<Name(s)>>) \in Offers(1)
    <3> HIDE DEF s
    <3>1. <<Name(s)>> \in Value \ {<<>>}
      BY <2>4, NamesAreValues
    <3>2. PICK w \in Value \ {<<>>} : w = <<Name(s)>>
      BY <3>1
    <3>3. 1 \in Nat /\ 1 \in 1..1 /\ 1 <= 1
      OBVIOUS
    <3>4. FixBy(1, 1, w) \in Offers(1)
      BY <3>3, FixByType
    <3>5. QED
      BY <3>2, <3>4
  <2>6. NoFix \in Offers(1)
    BY NoFixesType
  <2>7. Len(v) = 1
    BY <1>2
  <2> HIDE DEF s
  <2>8. PICK f \in Offers(1) : f = IF fixable /\ s # "" THEN FixBy(1, 1, <<Name(s)>>) ELSE NoFix
    BY <2>5, <2>6
  <2>9. <<f>> \in Seq(Offers(1))
    OBVIOUS
  <2>10. QED
    BY <2>1, <2>7, <2>8, <2>9
<1>3. QED
  BY <1>1, <1>2

\* The reports on a declaration, whatever it is.
LEMMA OnDeclarationType ==
  ASSUME NEW r, NEW d, d.value \in Value
  PROVE  OnDeclaration(r, d) \in Seq(Offers(Len(d.value)))
<1> DEFINE S == Seq(Offers(Len(d.value)))
<1>1. EasingReports(d) \in S /\ BorderColorReports(d) \in S /\ ProvenanceReports(d) \in S
  BY EasingReportsType, BorderColorReportsType, ProvenanceReportsType
<1>2. ColorReports(d.value) \in S /\ CompositeReports(d) \in S
      /\ DeprecatedReports(d.value, FALSE) \in S
  BY ColorReportsType, CompositeReportsType, DeprecatedReportsType
<1>3. <<NoFix>> \in S /\ <<>> \in S
  BY NoFixesType, EmptySeq
<1>4. \A bad : OneIf(bad) \in S
  BY NoFixesType
<1> HIDE DEF S
<1>5. OnDeclaration(r, d) \in S
  BY <1>1, <1>2, <1>3, <1>4 DEF OnDeclaration
<1>6. QED
  BY <1>5 DEF S

\* What any rule reports of an entry are offers within its value.
LEMMA OnEntryType ==
  ASSUME NEW r, NEW e, e.value \in Value
  PROVE  OnEntry(r, e) \in Seq(Offers(Len(e.value)))
<1> DEFINE S == Seq(Offers(Len(e.value)))
<1>1. ColorReports(e.value) \in S /\ DeprecatedReports(e.value, TRUE) \in S /\ <<>> \in S
  BY ColorReportsType, DeprecatedReportsType, EmptySeq
<1>2. \A bad : OneIf(bad) \in S
  BY NoFixesType
<1> HIDE DEF S
<1>3. OnEntry(r, e) \in S
  BY <1>1, <1>2 DEF OnEntry
<1>4. QED
  BY <1>3 DEF S

\* What any rule reports of a tag are offers within its name.
LEMMA OnTagType ==
  ASSUME NEW r, NEW t, NEW imported, NEW imports, NEW scope,
         t.value \in Value, t.value # <<>>, IsFiniteSet(t.attrs)
  PROVE  OnTag(r, t, imported, imports, scope) \in Seq(Offers(Len(t.value)))
<1> DEFINE n == Len(t.value)
           S == Offers(n)
<1>1. n \in Nat /\ 1 \in 1..n /\ 1 <= 1
  <2>1. n \in Nat /\ n # 0
    BY EmptySeq, LenProperties DEF Value
  <2>2. QED
    BY <2>1
<1>2. \A bad : OneIf(bad) \in Seq(S)
  BY NoFixesType
<1>3. NoFix \in S /\ <<>> \in Seq(S)
  BY NoFixesType, EmptySeq
<1>4. ASSUME NEW name \in STRING PROVE FixBy(1, 1, <<Name(name)>>) \in S
  <2>1. PICK w \in Value \ {<<>>} : w = <<Name(name)>>
    BY NamesAreValues
  <2>2. FixBy(1, 1, w) \in Offers(n)
    <3> HIDE DEF n
    <3>1. QED
      BY <1>1, FixByType
  <2>3. QED
    BY <2>1, <2>2
<1>5. ASSUME NEW name \in STRING PROVE RenameFix(name, scope) \in S
  BY <1>3, <1>4 DEF RenameFix
<1>6. ASSUME MissingPrefix(t, imported, imports) PROVE PrefixFix(t) \in S
  <2>1. CASE Tag(t) \in {d.name : d \in Dotted}
    BY <1>3, <2>1 DEF PrefixFix
  <2>2. CASE Tag(t) \notin {d.name : d \in Dotted}
    <3>1. Tag(t) \in Pascal \cup Dashed
      BY <1>6, <2>2 DEF MissingPrefix, Component
    <3>2. Prefixed[Tag(t)] \in STRING
      BY <3>1, OptionsAssumption
    <3>3. QED
      BY <1>4, <2>2, <3>2 DEF PrefixFix
  <2>3. QED
    BY <2>1, <2>2
<1>7. ASSUME RawIcon(t) PROVE RenameFix(IconFor[Tag(t)], scope) \in S
  <2>1. Tag(t) \in DOMAIN IconFor
    BY <1>7 DEF RawIcon
  <2>2. IconFor[Tag(t)] \in STRING
    BY <2>1, OptionsAssumption
  <2>3. QED
    BY <1>5, <2>2
<1>8. ASSUME Replacement(t, imports) # "" PROVE RenameFix(Replacement(t, imports), scope) \in S
  <2>1. Replacement(t, imports) \in STRING
    BY <1>8, OptionsAssumption DEF Replacement
  <2>2. QED
    BY <1>5, <2>1
<1>9. [a \in 1..Cardinality(t.attrs) |-> NoFix] \in Seq(S)
  <2>1. Cardinality(t.attrs) \in Nat
    BY FS_CardinalityType
  <2>2. PICK m \in Nat : m = Cardinality(t.attrs)
    BY <2>1
  <2>3. [a \in 1..m |-> NoFix] \in [1..m -> S]
    BY <1>3
  <2>4. PICK f \in [1..m -> S] : f = [a \in 1..m |-> NoFix]
    BY <2>3
  <2>5. f \in Seq(S)
    BY FunctionIsSeq
  <2>6. QED
    BY <2>2, <2>4, <2>5
<1> SUFFICES OnTag(r, t, imported, imports, scope) \in Seq(S)
  OBVIOUS
<1> HIDE DEF S
<1>10. ASSUME NEW x \in S PROVE <<x>> \in Seq(S)
  OBVIOUS
<1>11. CASE r = "component-prefix"
  BY <1>3, <1>6, <1>10, <1>11 DEF OnTag
<1>12. CASE r = "icon-usage"
  BY <1>3, <1>7, <1>10, <1>12 DEF OnTag
<1>13. CASE r = "component-usage"
  BY <1>3, <1>8, <1>10, <1>13 DEF OnTag
<1>14. CASE r = "no-inline-styles"
  BY <1>3, <1>9, <1>14 DEF OnTag
<1>15. CASE r \in {"variant-prop", "plugin"}
  BY <1>2, <1>3, <1>10, <1>15 DEF OnTag
<1>16. CASE r \notin {"component-prefix", "icon-usage", "component-usage", "no-inline-styles",
                      "variant-prop", "plugin"}
  BY <1>3, <1>16 DEF OnTag
<1>17. QED
  BY <1>11, <1>12, <1>13, <1>14, <1>15, <1>16 DEF S

\* The reports on a node, whatever was imported before it.
LEMMA OnNodeType ==
  ASSUME NEW r, NEW as, NEW item, NEW imported, NEW imports, NEW scope,
         item.value \in Value,
         as = "tag" => item.value # <<>> /\ IsFiniteSet(item.attrs)
  PROVE  OnNode(r, as, item, imported, imports, scope) \in Seq(Offers(Len(item.value)))
<1> DEFINE S == Seq(Offers(Len(item.value)))
<1>1. OnEntry(r, item) \in S /\ DeprecatedReports(item.value, TRUE) \in S /\ <<>> \in S
  BY OnEntryType, DeprecatedReportsType, EmptySeq
<1>2. as = "tag" => OnTag(r, item, imported, imports, scope) \in S
  BY OnTagType
<1>3. \A bad : OneIf(bad) \in S
  BY NoFixesType
<1> HIDE DEF S
<1>4. OnNode(r, as, item, imported, imports, scope) \in S
  BY <1>1, <1>2, <1>3 DEF OnNode
<1>5. QED
  BY <1>4 DEF S

----------------------------------------------------------------------------
(* Texts, visits and messages.                                             *)

Dirs == [d : {"none", "next", "line", "disable", "enable"}, rules : SUBSET STRING]
Spoilt == [kind |-> "spoiled", value |-> <<>>]
AnyLine == [item : Items \cup {Spoilt}, dir : Dirs]
Suited(lines) == job.type \in {"css", "ts"} =>
  \A a \in Range(job.areas) : \A i \in a.first..a.last :
    lines[i].item = Spoilt \/ Suits(lines[i].item, job.type, a.kind)
IsText(lines) == lines \in Seq(AnyLine) /\ Len(lines) = Len(job.lines) /\ Suited(lines)

Visited == {v \in [hook : {"onNode", "onCSSDeclaration", "error"},
                   as : {"declaration", "entry", "attribute", "string", "tag", "import", "error"},
                   item : Items, line : Nat, off : Nat] :
              /\ Len(v.item.value) < Width
              /\ v.hook = CASE v.as = "declaration" -> "onCSSDeclaration"
                            [] v.as = "error" -> "error"
                            [] OTHER -> "onNode"
              /\ v.as \in {"tag", "import", "entry", "string"} => v.item.kind = v.as}

Placed == {g \in [start : Nat, end : Nat, with : Value \ {<<>>}] :
             /\ g.start \div Width >= 1 /\ g.start % Width >= 1 /\ g.start < g.end
             /\ (g.end - 1) \div Width = g.start \div Width
             /\ g.start % Width <= (g.end - 1) % Width}
MsgRules == STRING \cup {"parse-error", "runtime-error", "parser"}
Msg == [rule : MsgRules, of : MsgRules, line : Nat, fix : {NoFix} \cup {<<g>> : g \in Placed}]

\* What every item has.
LEMMA ItemFacts ==
  ASSUME NEW item \in Items
  PROVE  /\ item.value \in Value
         /\ item.kind \in {"declaration", "entry", "string", "tag", "import", "local", "blank", "broken"}
         /\ item.kind = "tag" => item.value # <<>> /\ IsFiniteSet(item.attrs)
         /\ item.kind \in {"import", "local", "blank", "broken"} => item.value = <<>>
<1>1. <<>> \in Value
  BY EmptySeq DEF Value
<1>2. QED
  BY <1>1 DEF Items

\* An item keeps its kind when its value is replaced.
LEMMA ItemWith ==
  ASSUME NEW item \in Items, item.value # <<>>, NEW v \in Value \ {<<>>}
  PROVE  /\ [item EXCEPT !.value = v] \in Items
         /\ [item EXCEPT !.value = v].kind = item.kind
         /\ [item EXCEPT !.value = v].value = v
         /\ item.kind = "entry" => [item EXCEPT !.value = v].place = item.place
<1>1. CASE item \in [kind : {"declaration"}, prop : STRING, value : Value]
  BY <1>1 DEF Items
<1>2. CASE item \in [kind : {"entry"}, place : STRING, prop : STRING, form : STRING, value : Value]
  BY <1>2 DEF Items
<1>3. CASE item \in [kind : {"string"}, place : STRING, value : Value]
  BY <1>3 DEF Items
<1>4. CASE item \in {t \in [kind : {"tag"}, form : STRING, value : Value, mate : Nat,
                            attrs : SUBSET STRING, variant : STRING] :
                       t.value # <<>> /\ IsFiniteSet(t.attrs)}
  <2> DEFINE new == [item EXCEPT !.value = v]
  <2>1. new \in [kind : {"tag"}, form : STRING, value : Value, mate : Nat,
                 attrs : SUBSET STRING, variant : STRING]
    BY <1>4
  <2>2. new.attrs = item.attrs /\ new.value = v /\ new.kind = item.kind /\ item.kind = "tag"
    BY <1>4
  <2>3. new \in Items
    BY <1>4, <2>1, <2>2 DEF Items
  <2>4. QED
    BY <2>2, <2>3
<1>5. item \notin [kind : {"import"}, form : STRING, local : STRING, imported : STRING,
                   from : STRING, value : {<<>>}]
      /\ item \notin [kind : {"local"}, name : STRING, value : {<<>>}]
      /\ item \notin [kind : {"blank", "broken"}, value : {<<>>}]
  OBVIOUS
<1>6. QED
  BY <1>1, <1>2, <1>3, <1>4, <1>5 DEF Items

\* Where a fix falls in the offsets.
LEMMA PlaceFacts ==
  ASSUME NEW off \in Nat \ {0}, NEW a \in 1..(Width - 1), NEW b \in 1..(Width - 1), a <= b
  PROVE  /\ Place(off, a) \in Nat /\ Place(off, b) + 1 \in Nat /\ Place(off, a) < Place(off, b) + 1
         /\ Place(off, a) \div Width = off /\ Place(off, a) % Width = a
         /\ ((Place(off, b) + 1) - 1) \div Width = off /\ ((Place(off, b) + 1) - 1) % Width = b
<1>1. Width \in Nat \ {0} /\ a \in 0..(Width - 1) /\ b \in 0..(Width - 1)
  BY WidthAssumption
<1>2. PICK p \in Nat : p = off * Width
  BY <1>1
<1>3. Place(off, a) = p + a /\ Place(off, b) = p + b
  BY <1>2 DEF Place
<1>4. (off * Width + a) \div Width = off /\ (off * Width + a) % Width = a
  BY ONLY <1>1, off \in Nat
<1>5. (off * Width + b) \div Width = off /\ (off * Width + b) % Width = b
  BY ONLY <1>1, off \in Nat
<1>6. (Place(off, b) + 1) - 1 = Place(off, b)
  BY <1>3
<1>7. Place(off, a) \in Nat /\ Place(off, b) + 1 \in Nat /\ Place(off, a) < Place(off, b) + 1
  BY <1>3
<1>8. Place(off, a) \div Width = off /\ Place(off, a) % Width = a
  BY <1>4 DEF Place
<1>9. Place(off, b) \div Width = off /\ Place(off, b) % Width = b
  BY <1>5 DEF Place
<1>10. QED
  BY <1>6, <1>7, <1>8, <1>9

\* A fix on offer has its place.
LEMMA FixAtType ==
  ASSUME NEW off \in Nat, NEW n \in Nat, n < Width, NEW f \in Offers(n)
  PROVE  FixAt(off, f) \in {NoFix} \cup {<<g>> : g \in Placed}
<1>1. CASE off = 0 \/ f = NoFix
  BY <1>1 DEF FixAt
<1>2. CASE ~(off = 0 \/ f = NoFix)
  <2>1. PICK g \in Offer(n) : f = <<g>>
    BY <1>2 DEF Offers
  <2>2. g.from \in 1..(Width - 1) /\ g.to \in 1..(Width - 1) /\ g.from <= g.to
        /\ g.with \in Value \ {<<>>}
    BY <2>1, WidthAssumption DEF Offer
  <2> DEFINE h == [start |-> Place(off, g.from), end |-> Place(off, g.to) + 1, with |-> g.with]
  <2>3. h \in Placed
    <3>1. PICK a \in 1..(Width - 1), b \in 1..(Width - 1) : a = g.from /\ b = g.to /\ a <= b
      BY <2>2
    <3>2. /\ Place(off, a) \in Nat /\ Place(off, b) + 1 \in Nat /\ Place(off, a) < Place(off, b) + 1
          /\ Place(off, a) \div Width = off /\ Place(off, a) % Width = a
          /\ ((Place(off, b) + 1) - 1) \div Width = off /\ ((Place(off, b) + 1) - 1) % Width = b
      BY <1>2, <3>1, PlaceFacts
    <3>3. h.start = Place(off, a) /\ h.end = Place(off, b) + 1 /\ h.with = g.with
      BY <3>1
    <3>4. h \in [start : Nat, end : Nat, with : Value \ {<<>>}]
      BY <2>2, <3>1, <3>2
    <3> HIDE DEF h
    <3>5. QED
      BY <1>2, <3>1, <3>2, <3>3, <3>4 DEF Placed
  <2>4. FixAt(off, f) = <<h>>
    BY <1>2, <2>1 DEF FixAt
  <2>5. QED
    BY <2>3, <2>4
<1>3. QED
  BY <1>1, <1>2

----------------------------------------------------------------------------
(* What the parsers visit.                                                 *)

Readable == job \in Jobs /\ text \in Seq(Line) /\ Len(text) = Len(job.lines)

\* The lines and areas of a text that can be read.
LEMMA ReadableFacts ==
  ASSUME Readable
  PROVE  /\ Lines = 1..Len(text) /\ Len(text) \in Nat
         /\ \A i \in Lines : Item(i) \in Items /\ Len(Item(i).value) < Width
         /\ job.areas \in Seq(Area) /\ Len(job.areas) \in Nat /\ DOMAIN job.areas = 1..Len(job.areas)
         /\ \A a \in Range(job.areas) :
              /\ a \in Area /\ a.first \in Nat \ {0} /\ a.last \in Nat /\ a.first <= a.last
              /\ a.first..a.last \subseteq Lines
<1>1. Lines = 1..Len(text) /\ Len(text) \in Nat
  BY LenProperties DEF Readable, Lines
<1>2. ASSUME NEW i \in Lines PROVE Item(i) \in Items /\ Len(Item(i).value) < Width
  <2>1. text[i] \in Line
    BY <1>1, ElementOfSeq DEF Readable
  <2>2. QED
    BY <2>1 DEF Line, Item
<1>3. job.areas \in Seq(Area) /\ \A a \in Range(job.areas) : a.last <= Len(job.lines)
  BY JobsAssumption DEF Readable
<1>4. Len(job.areas) \in Nat /\ DOMAIN job.areas = 1..Len(job.areas)
  BY <1>3, LenProperties
<1>5. ASSUME NEW a \in Range(job.areas)
      PROVE  /\ a \in Area /\ a.first \in Nat \ {0} /\ a.last \in Nat /\ a.first <= a.last
             /\ a.first..a.last \subseteq Lines
  <2>1. PICK k \in 1..Len(job.areas) : a = job.areas[k]
    BY <1>4 DEF Range
  <2>2. a \in Area
    BY <1>3, <2>1, ElementOfSeq
  <2>3. a.first \in Nat \ {0} /\ a.last \in Nat /\ a.first <= a.last
    BY <2>2 DEF Area
  <2>4. a.last <= Len(text)
    BY <1>3 DEF Readable
  <2>5. QED
    BY <1>1, <2>2, <2>3, <2>4
<1>6. QED
  BY <1>1, <1>2, <1>3, <1>4, <1>5

\* A line is visited as a declaration or as a node.
LEMMA VisitType ==
  ASSUME Readable, NEW i \in Lines, NEW line \in Nat, NEW off \in Nat
  PROVE  /\ Declare(i, line, off) \in Visited
         /\ Item(i).kind \in {"entry", "string", "tag", "import"} => Node(i, line) \in Visited
         /\ AsAttribute(i, line) \in Visited
<1>1. PICK item \in Items : item = Item(i) /\ Len(item.value) < Width
  BY ReadableFacts
<1>2. Declare(i, line, off) \in Visited
  BY <1>1 DEF Declare, Visit, Visited
<1>3. AsAttribute(i, line) \in Visited
  BY <1>1 DEF AsAttribute, Visit, Visited
<1>4. ASSUME Item(i).kind \in {"entry", "string", "tag", "import"} PROVE Node(i, line) \in Visited
  BY <1>1, <1>4 DEF Node, Visit, Visited
<1>5. QED
  BY <1>2, <1>3, <1>4

\* The message of a parser that gives up is a visit like the others.
LEMMA ParseErrorType ==
  ASSUME NEW line \in Nat
  PROVE  ParseError(line) \in Visited
<1> DEFINE blank == [kind |-> "blank", value |-> <<>>]
<1>1. blank \in Items
  BY DEF Items
<1>2. Len(blank.value) < Width
  BY EmptySeq, WidthAssumption
<1>3. ParseError(line) = [hook |-> "error", as |-> "error", item |-> blank, line |-> line, off |-> 0]
  BY DEF ParseError
<1> HIDE DEF blank
<1>4. QED
  BY <1>1, <1>2, <1>3 DEF Visited

\* The visits of an area by line, and the areas' one after the other.
Along(a, op) == FlattenSeq([k \in 1..(a.last - a.first + 1) |-> op[a.first + k - 1]])
Across(op) == FlattenSeq([k \in DOMAIN job.areas |-> op[job.areas[k]]])

SheetAt(a, above, before) ==
  [i \in a.first..a.last |-> When(IsDecl(i), Declare(i, i - above, i - before))]
AttributeAt(a) == [i \in a.first..a.last |-> When(OfAttribute(i), AsAttribute(i, i))]
LiteralAt(a) == [i \in a.first..a.last |->
                   When(OfAttribute(i) /\ Literal(Item(i)), Declare(i, i, 0))]
UnconsumedAt(a) == [i \in a.first..a.last |->
                      When(OfAttribute(i) /\ ~Consumed(Item(i)), Node(i, i))]
NodeAt(a) == [i \in a.first..a.last |->
                When(Item(i).kind \in {"entry", "string", "tag", "import"}, Node(i, i))]
NodesOfAt(a, shift) == [i \in a.first..a.last |->
  CASE Item(i).kind \in {"string", "tag", "import"} -> <<Node(i, i - a.first + shift)>>
    [] IsEntry(i) -> <<AsAttribute(i, i - a.first + shift), Node(i, i - a.first + shift)>>
    [] OTHER -> <<>>]
StyleAt(a) == [i \in a.first..a.last |-> When(Static(i), Declare(i, i, 0))]

\* Visits taken line by line are visits.
LEMMA AlongType ==
  ASSUME NEW S, NEW a \in Area, NEW op, \A i \in a.first..a.last : op[i] \in Seq(S)
  PROVE  Along(a, op) \in Seq(S)
<1>1. PICK n \in Nat : n = a.last - a.first + 1
  BY DEF Area
<1>2. \A k \in 1..n : a.first + k - 1 \in a.first..a.last
  BY <1>1 DEF Area
<1>3. [k \in 1..n |-> op[a.first + k - 1]] \in [1..n -> Seq(S)]
  BY <1>2
<1>4. PICK ss \in [1..n -> Seq(S)] : ss = [k \in 1..n |-> op[a.first + k - 1]]
  BY <1>3
<1>5. FlattenSeq(ss) \in Seq(S)
  BY PiecesType
<1>6. QED
  BY <1>1, <1>4, <1>5 DEF Along

\* Visits taken area by area are visits.
LEMMA AcrossType ==
  ASSUME Readable, NEW S, NEW op, \A a \in Range(job.areas) : op[a] \in Seq(S)
  PROVE  Across(op) \in Seq(S)
<1>1. PICK n \in Nat : n = Len(job.areas) /\ DOMAIN job.areas = 1..n
  BY ReadableFacts
<1>2. \A k \in 1..n : job.areas[k] \in Range(job.areas)
  BY <1>1 DEF Range
<1>3. [k \in 1..n |-> op[job.areas[k]]] \in [1..n -> Seq(S)]
  BY <1>2
<1>4. PICK ss \in [1..n -> Seq(S)] : ss = [k \in 1..n |-> op[job.areas[k]]]
  BY <1>3
<1>5. FlattenSeq(ss) \in Seq(S)
  BY PiecesType
<1>6. QED
  BY <1>1, <1>4, <1>5 DEF Across

\* The parts of a text as the definitions give them.
LEMMA PartsAre ==
  ASSUME NEW a \in Area, NEW above, NEW before, NEW shift
  PROVE  /\ PerLine(a, LAMBDA i : When(IsDecl(i), Declare(i, i - above, i - before)))
              = Along(a, SheetAt(a, above, before))
         /\ StyleObject(a) = Along(a, AttributeAt(a)) \o Along(a, LiteralAt(a))
                             \o Along(a, UnconsumedAt(a))
         /\ Nodes(a) = Along(a, NodeAt(a))
         /\ NodesOf(a, shift) = Along(a, NodesOfAt(a, shift))
         /\ StylesOf(a) = Along(a, StyleAt(a))
<1> DEFINE K == 1..(a.last - a.first + 1)
           L(k) == a.first + k - 1
<1>1. \A k \in K : L(k) \in a.first..a.last
  BY DEF Area
<1>2. PerLine(a, LAMBDA i : When(IsDecl(i), Declare(i, i - above, i - before)))
        = Along(a, SheetAt(a, above, before))
  <2>1. [k \in K |-> When(IsDecl(L(k)), Declare(L(k), L(k) - above, L(k) - before))]
          = [k \in K |-> SheetAt(a, above, before)[L(k)]]
    BY <1>1 DEF SheetAt
  <2>2. QED
    BY <2>1 DEF PerLine, Along
<1>3. PerLine(a, LAMBDA i : When(OfAttribute(i), AsAttribute(i, i))) = Along(a, AttributeAt(a))
  <2>1. [k \in K |-> When(OfAttribute(L(k)), AsAttribute(L(k), L(k)))]
          = [k \in K |-> AttributeAt(a)[L(k)]]
    BY <1>1 DEF AttributeAt
  <2>2. QED
    BY <2>1 DEF PerLine, Along
<1>4. PerLine(a, LAMBDA i : When(OfAttribute(i) /\ Literal(Item(i)), Declare(i, i, 0)))
        = Along(a, LiteralAt(a))
  <2>1. [k \in K |-> When(OfAttribute(L(k)) /\ Literal(Item(L(k))), Declare(L(k), L(k), 0))]
          = [k \in K |-> LiteralAt(a)[L(k)]]
    BY <1>1 DEF LiteralAt
  <2>2. QED
    BY <2>1 DEF PerLine, Along
<1>5. PerLine(a, LAMBDA i : When(OfAttribute(i) /\ ~Consumed(Item(i)), Node(i, i)))
        = Along(a, UnconsumedAt(a))
  <2>1. [k \in K |-> When(OfAttribute(L(k)) /\ ~Consumed(Item(L(k))), Node(L(k), L(k)))]
          = [k \in K |-> UnconsumedAt(a)[L(k)]]
    BY <1>1 DEF UnconsumedAt
  <2>2. QED
    BY <2>1 DEF PerLine, Along
<1>6. Nodes(a) = Along(a, NodeAt(a))
  <2>1. [k \in K |-> When(Item(L(k)).kind \in {"entry", "string", "tag", "import"}, Node(L(k), L(k)))]
          = [k \in K |-> NodeAt(a)[L(k)]]
    BY <1>1 DEF NodeAt
  <2>2. QED
    BY <2>1 DEF Nodes, PerLine, Along
<1>7. NodesOf(a, shift) = Along(a, NodesOfAt(a, shift))
  <2>1. [k \in K |->
           CASE Item(L(k)).kind \in {"string", "tag", "import"} -> <<Node(L(k), L(k) - a.first + shift)>>
             [] IsEntry(L(k)) -> <<AsAttribute(L(k), L(k) - a.first + shift),
                                   Node(L(k), L(k) - a.first + shift)>>
             [] OTHER -> <<>>]
          = [k \in K |-> NodesOfAt(a, shift)[L(k)]]
    BY <1>1 DEF NodesOfAt
  <2>2. QED
    BY <2>1 DEF NodesOf, PerLine, Along
<1>8. StylesOf(a) = Along(a, StyleAt(a))
  <2>1. [k \in K |-> When(Static(L(k)), Declare(L(k), L(k), 0))] = [k \in K |-> StyleAt(a)[L(k)]]
    BY <1>1 DEF StyleAt
  <2>2. QED
    BY <2>1 DEF StylesOf, PerLine, Along
<1>9. StyleObject(a) = Along(a, AttributeAt(a)) \o Along(a, LiteralAt(a)) \o Along(a, UnconsumedAt(a))
  BY <1>3, <1>4, <1>5 DEF StyleObject
<1>10. QED
  BY <1>2, <1>6, <1>7, <1>8, <1>9

\* The parts are sequences of visits.
LEMMA PartsType ==
  ASSUME Readable, NEW a \in Range(job.areas), NEW above \in Nat, NEW before \in Nat,
         above <= a.first, before <= a.first, NEW shift \in Nat
  PROVE  /\ Along(a, SheetAt(a, above, before)) \in Seq(Visited)
         /\ StyleObject(a) \in Seq(Visited)
         /\ Nodes(a) \in Seq(Visited)
         /\ NodesOf(a, shift) \in Seq(Visited)
         /\ StylesOf(a) \in Seq(Visited)
<1>1. a \in Area /\ a.first \in Nat \ {0} /\ a.last \in Nat /\ a.first..a.last \subseteq Lines
      /\ Lines \subseteq Nat
  BY ReadableFacts
<1>2. ASSUME NEW i \in a.first..a.last
      PROVE  /\ SheetAt(a, above, before)[i] \in Seq(Visited)
             /\ AttributeAt(a)[i] \in Seq(Visited)
             /\ LiteralAt(a)[i] \in Seq(Visited)
             /\ UnconsumedAt(a)[i] \in Seq(Visited)
             /\ NodeAt(a)[i] \in Seq(Visited)
             /\ NodesOfAt(a, shift)[i] \in Seq(Visited)
             /\ StyleAt(a)[i] \in Seq(Visited)
  <2>1. i \in Lines /\ i \in Nat /\ i - above \in Nat /\ i - before \in Nat
        /\ i - a.first + shift \in Nat
    BY <1>1
  <2>2. Declare(i, i - above, i - before) \in Visited /\ Declare(i, i, 0) \in Visited
    BY <2>1, VisitType
  <2>3. AsAttribute(i, i) \in Visited /\ AsAttribute(i, i - a.first + shift) \in Visited
    BY <2>1, VisitType
  <2>4. Item(i).kind \in {"entry", "string", "tag", "import"} =>
          Node(i, i) \in Visited /\ Node(i, i - a.first + shift) \in Visited
    BY <2>1, VisitType
  <2>5. OfAttribute(i) => Item(i).kind = "entry"
    BY DEF OfAttribute, IsEntry
  <2>6. SheetAt(a, above, before)[i] \in Seq(Visited)
    BY <2>2, WhenType DEF SheetAt
  <2>7. AttributeAt(a)[i] \in Seq(Visited)
    BY <2>3, WhenType DEF AttributeAt
  <2>8. LiteralAt(a)[i] \in Seq(Visited)
    BY <2>2, WhenType DEF LiteralAt
  <2>9. UnconsumedAt(a)[i] \in Seq(Visited)
    BY <2>4, <2>5, WhenType DEF UnconsumedAt
  <2>10. NodeAt(a)[i] \in Seq(Visited)
    BY <2>4, WhenType DEF NodeAt
  <2>11. StyleAt(a)[i] \in Seq(Visited)
    BY <2>2, WhenType DEF StyleAt
  <2>12. NodesOfAt(a, shift)[i] \in Seq(Visited)
    <3> DEFINE v == Node(i, i - a.first + shift)
               w == AsAttribute(i, i - a.first + shift)
    <3>1. w \in Visited /\ (Item(i).kind \in {"entry", "string", "tag", "import"} => v \in Visited)
      BY <2>3, <2>4
    <3>2. NodesOfAt(a, shift)[i] = CASE Item(i).kind \in {"string", "tag", "import"} -> <<v>>
                                     [] IsEntry(i) -> <<w, v>>
                                     [] OTHER -> <<>>
      BY DEF NodesOfAt
    <3>3. <<>> \in Seq(Visited)
      BY EmptySeq
    <3> HIDE DEF v, w
    <3>4. CASE Item(i).kind \in {"string", "tag", "import"}
      <4>1. <<v>> \in Seq(Visited)
        BY <3>1, <3>4
      <4>2. ~IsEntry(i)
        BY <3>4 DEF IsEntry
      <4>3. QED
        BY <3>2, <3>4, <4>1, <4>2
    <3>5. CASE IsEntry(i)
      <4>1. <<w, v>> \in Seq(Visited) /\ Item(i).kind = "entry"
        BY <3>1, <3>5 DEF IsEntry
      <4>2. QED
        BY <3>2, <3>5, <4>1
    <3>6. QED
      BY <3>2, <3>3, <3>4, <3>5
  <2>13. QED
    BY <2>6, <2>7, <2>8, <2>9, <2>10, <2>11, <2>12
<1>3. Along(a, SheetAt(a, above, before)) \in Seq(Visited)
  BY <1>1, <1>2, AlongType
<1>4. /\ Along(a, AttributeAt(a)) \in Seq(Visited)
      /\ Along(a, LiteralAt(a)) \in Seq(Visited)
      /\ Along(a, UnconsumedAt(a)) \in Seq(Visited)
  BY <1>1, <1>2, AlongType
<1>5. StyleObject(a) \in Seq(Visited)
  <2>1. PICK x \in Seq(Visited), y \in Seq(Visited), z \in Seq(Visited) :
          x = Along(a, AttributeAt(a)) /\ y = Along(a, LiteralAt(a)) /\ z = Along(a, UnconsumedAt(a))
    BY <1>4
  <2>2. StyleObject(a) = x \o y \o z
    BY <1>1, <2>1, PartsAre
  <2>3. x \o y \in Seq(Visited)
    BY ConcatProperties
  <2>4. x \o y \o z \in Seq(Visited)
    BY <2>3, ConcatProperties
  <2>5. QED
    BY <2>2, <2>4
<1>6. Nodes(a) \in Seq(Visited)
  BY <1>1, <1>2, AlongType, PartsAre
<1>7. NodesOf(a, shift) \in Seq(Visited)
  BY <1>1, <1>2, AlongType, PartsAre
<1>8. StylesOf(a) \in Seq(Visited)
  BY <1>1, <1>2, AlongType, PartsAre
<1>9. QED
  BY <1>3, <1>5, <1>6, <1>7, <1>8

\* A sheet is visited as declarations, or as one error.
LEMMA ParseCSSIs ==
  ASSUME Readable, NEW a \in Range(job.areas), NEW above \in Nat, NEW before
  PROVE  IF Parses(a)
         THEN ParseCSS(a, above, before) = Along(a, SheetAt(a, above, before))
         ELSE \E i \in a.first..a.last : ParseCSS(a, above, before) = <<ParseError(i - above)>>
<1>1. a \in Area /\ a.first \in Nat \ {0} /\ a.last \in Nat /\ a.first <= a.last
  BY ReadableFacts
<1>2. CASE a.lang = "sass"
  <2>1. ParseCSS(a, above, before) = <<ParseError(a.first - above)>> /\ ~Parses(a)
    BY <1>2 DEF ParseCSS, Parses
  <2>2. a.first \in a.first..a.last
    BY <1>1
  <2>3. QED
    BY <2>1, <2>2
<1>3. CASE a.lang # "sass" /\ \E i \in a.first..a.last : Item(i).kind = "broken"
  <2> DEFINE B == {i \in a.first..a.last : Item(i).kind = "broken"}
             First(i) == Item(i).kind = "broken" /\ \A j \in a.first..(i - 1) : Item(j).kind # "broken"
             c == CHOOSE i \in a.first..a.last : First(i)
  <2>1. B \subseteq Nat /\ B # {}
    BY <1>1, <1>3
  <2>2. PICK k \in B : \A j \in B : k <= j
    <3> HIDE DEF B
    <3>1. QED
      BY <2>1, Least
  <2>3. First(k)
    BY <1>1, <2>2
  <2>4. c \in a.first..a.last
    <3>1. k \in a.first..a.last
      OBVIOUS
    <3> HIDE DEF First
    <3>2. QED
      BY <2>3, <3>1
  <2>5. ParseCSS(a, above, before) = <<ParseError(c - above)>> /\ ~Parses(a)
    BY <1>3 DEF ParseCSS, Parses
  <2>6. QED
    BY <2>4, <2>5
<1>4. CASE a.lang # "sass" /\ ~\E i \in a.first..a.last : Item(i).kind = "broken"
  <2>1. Parses(a)
    BY <1>4 DEF Parses
  <2>2. ParseCSS(a, above, before)
          = PerLine(a, LAMBDA i : When(IsDecl(i), Declare(i, i - above, i - before)))
    BY <1>4 DEF ParseCSS
  <2>3. QED
    BY <1>1, <2>1, <2>2, PartsAre
<1>5. QED
  BY <1>2, <1>3, <1>4

\* A style sheet is parsed into visits.
LEMMA ParseCSSType ==
  ASSUME Readable, NEW a \in Range(job.areas), NEW above \in Nat, NEW before \in Nat,
         above <= a.first, before <= a.first
  PROVE  ParseCSS(a, above, before) \in Seq(Visited)
<1>1. a.first \in Nat \ {0} /\ a.last \in Nat
  BY ReadableFacts
<1>2. CASE Parses(a)
  BY <1>2, ParseCSSIs, PartsType
<1>3. CASE ~Parses(a)
  <2>1. PICK i \in a.first..a.last : ParseCSS(a, above, before) = <<ParseError(i - above)>>
    BY <1>3, ParseCSSIs
  <2>2. PICK v \in Visited : v = ParseError(i - above)
    <3>1. i - above \in Nat
      BY <1>1
    <3>2. QED
      BY <3>1, ParseErrorType
  <2>3. <<v>> \in Seq(Visited)
    OBVIOUS
  <2>4. QED
    BY <2>1, <2>2, <2>3
<1>4. QED
  BY <1>2, <1>3

----------------------------------------------------------------------------
(* The visits of whole documents.                                          *)

SheetsOf == [a \in Range(job.areas) |-> ParseCSS(a, 0, 0)]
ModulesOf == [a \in Range(job.areas) |-> CASE a.kind = "literal" -> Literals(a)
                                           [] a.kind = "object" -> StyleObject(a)
                                           [] OTHER -> Nodes(a)]

\* The visits of a style sheet and of a module, area by area.
LEMMA VisitsAre ==
  ASSUME Readable
  PROVE  VisitCSS = Across(SheetsOf) /\ VisitTS = Across(ModulesOf)
<1> DEFINE A(k) == job.areas[k]
<1>1. \A k \in DOMAIN job.areas : A(k) \in Range(job.areas)
  BY DEF Range
<1>2. VisitCSS = Across(SheetsOf)
  <2>1. [k \in DOMAIN job.areas |-> ParseCSS(A(k), 0, 0)] = [k \in DOMAIN job.areas |-> SheetsOf[A(k)]]
    BY <1>1 DEF SheetsOf
  <2>2. QED
    BY <2>1 DEF VisitCSS, PerArea, Each, Across
<1>3. VisitTS = Across(ModulesOf)
  <2>1. [k \in DOMAIN job.areas |-> CASE A(k).kind = "literal" -> Literals(A(k))
                                      [] A(k).kind = "object" -> StyleObject(A(k))
                                      [] OTHER -> Nodes(A(k))]
          = [k \in DOMAIN job.areas |-> ModulesOf[A(k)]]
    BY <1>1 DEF ModulesOf
  <2>2. QED
    BY <2>1 DEF VisitTS, PerArea, Each, Across
<1>4. QED
  BY <1>2, <1>3

\* The visits of a style sheet are visits.
LEMMA VisitCSSType ==
  ASSUME Readable
  PROVE  VisitCSS \in Seq(Visited)
<1>1. ASSUME NEW a \in Range(job.areas) PROVE SheetsOf[a] \in Seq(Visited)
  <2>1. 0 \in Nat /\ 0 <= a.first
    BY ReadableFacts
  <2>2. ParseCSS(a, 0, 0) \in Seq(Visited)
    BY <2>1, ParseCSSType
  <2>3. QED
    BY <2>2 DEF SheetsOf
<1>2. QED
  BY <1>1, AcrossType, VisitsAre

\* The visits of a module are visits.
LEMMA VisitTSType ==
  ASSUME Readable
  PROVE  VisitTS \in Seq(Visited)
<1>1. ASSUME NEW a \in Range(job.areas) PROVE ModulesOf[a] \in Seq(Visited)
  <2>1. 0 \in Nat /\ 0 <= a.first
    BY ReadableFacts
  <2>2. StyleObject(a) \in Seq(Visited) /\ Nodes(a) \in Seq(Visited)
    BY <2>1, PartsType
  <2>3. Literals(a) \in Seq(Visited)
    <3>1. PICK f \in Nat \ {0} : f = a.first
      BY ReadableFacts
    <3>2. 1 \in Nat /\ f - 1 \in Nat /\ 1 <= f /\ f - 1 <= f
      OBVIOUS
    <3>3. ParseCSS(a, 1, f - 1) \in Seq(Visited)
      BY <3>1, <3>2, ParseCSSType
    <3>4. QED
      BY <3>1, <3>3 DEF Literals
  <2>4. QED
    BY <2>2, <2>3 DEF ModulesOf
<1>2. QED
  BY <1>1, AcrossType, VisitsAre

\* The areas of one kind.
AcrossKind(kind, op) ==
  FlattenSeq([k \in DOMAIN job.areas |-> IF job.areas[k].kind = kind THEN op[job.areas[k]] ELSE <<>>])

\* Visits taken from the areas of one kind are visits.
LEMMA AcrossKindType ==
  ASSUME Readable, NEW S, NEW kind, NEW op,
         \A a \in Range(job.areas) : op[a] \in Seq(S)
  PROVE  AcrossKind(kind, op) \in Seq(S)
<1> DEFINE ss == [k \in DOMAIN job.areas |-> IF job.areas[k].kind = kind THEN op[job.areas[k]] ELSE <<>>]
<1>1. PICK n \in Nat : n = Len(job.areas) /\ DOMAIN job.areas = 1..n
  BY ReadableFacts
<1>2. \A k \in 1..n : job.areas[k] \in Range(job.areas)
  BY <1>1 DEF Range
<1>3. <<>> \in Seq(S)
  BY EmptySeq
<1>4. ss \in [1..n -> Seq(S)]
  BY <1>1, <1>2, <1>3
<1>5. FlattenSeq(ss) \in Seq(S)
  <2> HIDE DEF ss
  <2>1. QED
    BY <1>4, PiecesType
<1>6. AcrossKind(kind, op) = FlattenSeq(ss)
  BY DEF AcrossKind
<1>7. QED
  BY <1>5, <1>6

\* The styles and the nodes of the templates, and the blocks of styles.
LEMMA TemplateType ==
  ASSUME Readable, NEW height \in Nat, NEW script \in Seq(Visited)
  PROVE  /\ TemplateStyles \in Seq(Visited)
         /\ Combined(height, script) \in Seq(Visited)
         /\ StyleBlocks \in Seq(Visited)
<1> DEFINE As == Range(job.areas)
           A(k) == job.areas[k]
           D == DOMAIN job.areas
<1>1. \A k \in D : A(k) \in As
  BY DEF Range
<1>2. ASSUME NEW a \in As
      PROVE  /\ StylesOf(a) \in Seq(Visited) /\ NodesOf(a, height + 2) \in Seq(Visited)
             /\ ParseCSS(a, a.first - 1, a.first - 1) \in Seq(Visited)
  <2>1. PICK f \in Nat \ {0} : f = a.first
    BY ReadableFacts
  <2>2. 0 \in Nat /\ 0 <= f /\ f - 1 \in Nat /\ f - 1 <= f /\ height + 2 \in Nat
    OBVIOUS
  <2>3. StylesOf(a) \in Seq(Visited) /\ NodesOf(a, height + 2) \in Seq(Visited)
    <3>1. PICK h \in Nat : h = height + 2
      BY <2>2
    <3>2. StylesOf(a) \in Seq(Visited) /\ NodesOf(a, h) \in Seq(Visited)
      BY <2>1, <2>2, PartsType
    <3>3. QED
      BY <3>1, <3>2
  <2>4. ParseCSS(a, f - 1, f - 1) \in Seq(Visited)
    BY <2>1, <2>2, ParseCSSType
  <2>5. QED
    BY <2>1, <2>3, <2>4
<1>3. TemplateStyles \in Seq(Visited)
  <2> DEFINE op == [a \in As |-> StylesOf(a)]
  <2>1. TemplateStyles = AcrossKind("template", op)
    <3>1. [k \in D |-> IF A(k).kind = "template" THEN StylesOf(A(k)) ELSE <<>>]
            = [k \in D |-> IF A(k).kind = "template" THEN op[A(k)] ELSE <<>>]
      BY <1>1
    <3>2. QED
      BY <3>1 DEF TemplateStyles, InAreas, PerArea, Each, AcrossKind
  <2>2. \A a \in As : op[a] \in Seq(Visited)
    BY <1>2
  <2> HIDE DEF op
  <2>3. QED
    BY <2>1, <2>2, AcrossKindType
<1>4. Combined(height, script) \in Seq(Visited)
  <2> DEFINE op == [a \in As |-> NodesOf(a, height + 2)]
  <2>1. Combined(height, script) = script \o AcrossKind("template", op)
    <3>1. [k \in D |-> IF A(k).kind = "template" THEN NodesOf(A(k), height + 2) ELSE <<>>]
            = [k \in D |-> IF A(k).kind = "template" THEN op[A(k)] ELSE <<>>]
      BY <1>1
    <3>2. QED
      BY <3>1 DEF Combined, InAreas, PerArea, Each, AcrossKind
  <2>2. \A a \in As : op[a] \in Seq(Visited)
    BY <1>2
  <2> HIDE DEF op
  <2>3. PICK t \in Seq(Visited) : t = AcrossKind("template", op)
    BY <2>2, AcrossKindType
  <2>4. script \o t \in Seq(Visited)
    BY ConcatProperties
  <2>5. QED
    BY <2>1, <2>3, <2>4
<1>5. StyleBlocks \in Seq(Visited)
  <2> DEFINE op == [a \in As |-> ParseCSS(a, a.first - 1, a.first - 1)]
  <2>1. StyleBlocks = AcrossKind("style", op)
    <3>1. [k \in D |-> IF A(k).kind = "style" THEN ParseCSS(A(k), A(k).first - 1, A(k).first - 1) ELSE <<>>]
            = [k \in D |-> IF A(k).kind = "style" THEN op[A(k)] ELSE <<>>]
      BY <1>1
    <3>2. QED
      BY <3>1 DEF StyleBlocks, InAreas, PerArea, Each, AcrossKind
  <2>2. \A a \in As : op[a] \in Seq(Visited)
    BY <1>2
  <2> HIDE DEF op
  <2>3. QED
    BY <2>1, <2>2, AcrossKindType
<1>6. QED
  BY <1>3, <1>4, <1>5

\* The scripts of a component file are parsed into visits.
LEMMA ScriptsType ==
  ASSUME Readable
  PROVE  Scripts \in Seq(Visited)
<1> DEFINE As == Range(job.areas)
           A(k) == job.areas[k]
           D == DOMAIN job.areas
           op == [a \in As |-> Combined(a.last - a.first, NodesOf(a, 1))]
<1>1. \A k \in D : A(k) \in As
  BY DEF Range
<1>2. ASSUME NEW a \in As PROVE op[a] \in Seq(Visited)
  <2>1. PICK h \in Nat : h = a.last - a.first
    BY ReadableFacts
  <2>2. NodesOf(a, 1) \in Seq(Visited)
    <3>1. 0 \in Nat /\ 0 <= a.first /\ 1 \in Nat
      BY ReadableFacts
    <3>2. QED
      BY <3>1, PartsType
  <2>3. PICK s \in Seq(Visited) : s = NodesOf(a, 1)
    BY <2>2
  <2>4. Combined(h, s) \in Seq(Visited)
    BY TemplateType
  <2>5. QED
    BY <2>1, <2>3, <2>4
<1>3. InAreas("script", LAMBDA a : Combined(a.last - a.first, NodesOf(a, 1))) = AcrossKind("script", op)
  <2>1. [k \in D |-> IF A(k).kind = "script"
                     THEN Combined(A(k).last - A(k).first, NodesOf(A(k), 1)) ELSE <<>>]
          = [k \in D |-> IF A(k).kind = "script" THEN op[A(k)] ELSE <<>>]
    BY <1>1
  <2>2. QED
    BY <2>1 DEF InAreas, PerArea, Each, AcrossKind
<1>4. AcrossKind("script", op) \in Seq(Visited)
  <2> HIDE DEF op
  <2>1. QED
    BY <1>2, AcrossKindType
<1>5. Combined(0, <<>>) \in Seq(Visited)
  BY EmptySeq, TemplateType
<1>6. QED
  BY <1>3, <1>4, <1>5 DEF Scripts

\* Keep leaves some of a sequence.
LEMMA WithoutEntriesType ==
  ASSUME NEW visits \in Seq(Visited)
  PROVE  WithoutEntries(visits) \in Seq(Visited)
<1>1. PICK n \in Nat : n = Len(visits) /\ DOMAIN visits = 1..n /\ visits \in [1..n -> Visited]
  BY LenProperties
<1> DEFINE ss == [k \in 1..n |-> When(visits[k].as \notin {"entry", "attribute"}, visits[k])]
<1>2. ss \in [1..n -> Seq(Visited)]
  BY <1>1, WhenType
<1>3. FlattenSeq(ss) \in Seq(Visited)
  <2> HIDE DEF ss
  <2>1. QED
    BY <1>2, PiecesType
<1>4. WithoutEntries(visits) = FlattenSeq(ss)
  BY <1>1 DEF WithoutEntries, Keep, Each
<1>5. QED
  BY <1>3, <1>4

\* Whatever the document, the parser visits lines of it.
LEMMA VisitsType ==
  ASSUME Readable
  PROVE  Visits \in Seq(Visited)
<1>1. VisitCSS \in Seq(Visited) /\ VisitTS \in Seq(Visited)
  BY VisitCSSType, VisitTSType
<1>2. PICK t \in Seq(Visited), s \in Seq(Visited), b \in Seq(Visited) :
        t = TemplateStyles /\ s = Scripts /\ b = StyleBlocks
  <2>1. 0 \in Nat /\ <<>> \in Seq(Visited)
    BY EmptySeq
  <2>2. QED
    BY <2>1, TemplateType, ScriptsType
<1>3. VisitVue \in Seq(Visited)
  <2>1. t \o s \in Seq(Visited)
    BY ConcatProperties
  <2>2. t \o s \o b \in Seq(Visited)
    BY <2>1, ConcatProperties
  <2>3. QED
    BY <1>2, <2>2 DEF VisitVue
<1>4. VisitSvelte \in Seq(Visited)
  <2>1. PICK w \in Seq(Visited) : w = WithoutEntries(s)
    BY WithoutEntriesType
  <2>2. w \o t \in Seq(Visited)
    BY ConcatProperties
  <2>3. w \o t \o b \in Seq(Visited)
    BY <2>2, ConcatProperties
  <2>4. QED
    BY <1>2, <2>1, <2>3 DEF VisitSvelte, SvelteStyles
<1>5. <<ParseError(1)>> \in Seq(Visited)
  <2>1. PICK v \in Visited : v = ParseError(1)
    BY ParseErrorType
  <2>2. <<v>> \in Seq(Visited)
    OBVIOUS
  <2>3. QED
    BY <2>1, <2>2
<1>6. QED
  BY <1>1, <1>3, <1>4, <1>5 DEF Visits

----------------------------------------------------------------------------
(* Messages.                                                               *)

\* What a rule reports on a visit has the type of reports.
LEMMA ReportsType ==
  ASSUME NEW v \in Visited, v.hook # "error", NEW r
  PROVE  Reports(r, v) \in Seq(Offers(Len(v.item.value)))
<1>1. v.item \in Items
  BY DEF Visited
<1>2. v.item.value \in Value /\ (v.as = "tag" => v.item.value # <<>> /\ IsFiniteSet(v.item.attrs))
  BY <1>1, ItemFacts DEF Visited
<1>3. OnNode(r, v.as, v.item, seen, Imports, Scope) \in Seq(Offers(Len(v.item.value)))
  BY <1>2, OnNodeType
<1>4. OnDeclaration(r, v.item) \in Seq(Offers(Len(v.item.value)))
  BY <1>2, OnDeclarationType
<1>5. <<>> \in Seq(Offers(Len(v.item.value)))
  BY EmptySeq
<1>6. QED
  BY <1>3, <1>4, <1>5 DEF Reports

\* ... and becomes messages of the rule under the line of the visit.
LEMMA ReportedType ==
  ASSUME NEW v \in Visited, v.hook # "error", NEW r \in STRING
  PROVE  /\ Reported(r, v) \in Seq(Msg)
         /\ Len(Reported(r, v)) = Len(Reports(r, v))
         /\ \A k \in 1..Len(Reports(r, v)) :
              Reported(r, v)[k] = Message(r, r, v.line, FixAt(v.off, Reports(r, v)[k]))
<1>1. PICK n \in Nat : n = Len(v.item.value) /\ n < Width
  <2>1. v.item.value \in Value /\ Len(v.item.value) < Width
    BY ItemFacts DEF Visited
  <2>2. QED
    BY <2>1, LenProperties DEF Value
<1>2. PICK rs \in Seq(Offers(n)) : rs = Reports(r, v)
  BY <1>1, ReportsType
<1>3. PICK m \in Nat : m = Len(rs) /\ DOMAIN rs = 1..m
  BY LenProperties
<1> DEFINE ms == [k \in 1..m |-> Message(r, r, v.line, FixAt(v.off, rs[k]))]
<1>4. ASSUME NEW k \in 1..m PROVE ms[k] \in Msg
  <2>1. rs[k] \in Offers(n)
    BY <1>3, ElementOfSeq
  <2>2. v.off \in Nat /\ v.line \in Nat
    BY DEF Visited
  <2>3. FixAt(v.off, rs[k]) \in {NoFix} \cup {<<g>> : g \in Placed}
    BY <1>1, <2>1, <2>2, FixAtType
  <2>4. ms[k] = Message(r, r, v.line, FixAt(v.off, rs[k]))
    OBVIOUS
  <2>5. QED
    BY <2>2, <2>3, <2>4 DEF Message, Msg, MsgRules
<1>5. ms \in [1..m -> Msg]
  BY <1>4
<1>6. ms \in Seq(Msg) /\ Len(ms) = m
  <2> HIDE DEF ms
  <2>1. QED
    BY <1>5, FunctionIsSeq
<1>7. Reported(r, v) = ms
  BY <1>2, <1>3 DEF Reported, Each
<1>8. \A k \in 1..m : ms[k] = Message(r, r, v.line, FixAt(v.off, rs[k]))
  OBVIOUS
<1> HIDE DEF ms
<1>9. QED
  BY <1>2, <1>3, <1>6, <1>7, <1>8

\* What one listener adds at a visit, and what all of them do.
Heard(v, throwing, late, r) ==
  IF <<r, v.hook>> \in failed THEN <<>>
  ELSE IF r \in throwing
  THEN (IF late THEN Reported(r, v) ELSE <<>>) \o <<RuntimeError(r, v.line)>>
  ELSE Reported(r, v)

\* The message for a listener that threw is a message.
LEMMA RuntimeErrorType ==
  ASSUME NEW r \in STRING, NEW line \in Nat
  PROVE  RuntimeError(r, line) \in Msg
BY DEF RuntimeError, Message, Msg, MsgRules

\* What one listener adds at a visit are messages.
LEMMA HeardType ==
  ASSUME NEW v \in Visited, v.hook # "error", NEW throwing, NEW late, NEW r \in STRING
  PROVE  Heard(v, throwing, late, r) \in Seq(Msg)
<1>1. PICK s \in Seq(Msg) : s = Reported(r, v)
  BY ReportedType
<1>2. PICK e \in Msg : e = RuntimeError(r, v.line)
  BY RuntimeErrorType DEF Visited
<1>3. <<>> \in Seq(Msg) /\ <<e>> \in Seq(Msg)
  BY EmptySeq
<1>4. s \o <<e>> \in Seq(Msg) /\ <<>> \o <<e>> \in Seq(Msg)
  BY <1>3, ConcatProperties
<1>5. QED
  BY <1>1, <1>2, <1>3, <1>4 DEF Heard

\* What all listeners add at a visit are messages, listener by listener.
LEMMA DispatchedType ==
  ASSUME NEW v \in Visited, v.hook # "error", NEW throwing, NEW late, listeners \in Seq(STRING)
  PROVE  /\ Dispatched(v, throwing, late)
              = FlattenSeq([k \in 1..Len(listeners) |-> Heard(v, throwing, late, listeners[k])])
         /\ [k \in 1..Len(listeners) |-> Heard(v, throwing, late, listeners[k])]
              \in [1..Len(listeners) -> Seq(Msg)]
         /\ Dispatched(v, throwing, late) \in Seq(Msg)
<1> DEFINE n == Len(listeners)
           ss == [k \in 1..n |-> Heard(v, throwing, late, listeners[k])]
<1>1. n \in Nat /\ DOMAIN listeners = 1..n /\ \A k \in 1..n : listeners[k] \in STRING
  BY LenProperties
<1>2. ss \in [1..n -> Seq(Msg)]
  BY <1>1, HeardType
<1>3. FlattenSeq(ss) \in Seq(Msg)
  <2> HIDE DEF ss, n
  <2>1. QED
    BY <1>1, <1>2, PiecesType
<1>4. Dispatched(v, throwing, late) = FlattenSeq(ss)
  BY <1>1 DEF Dispatched, Each, Heard
<1>5. QED
  BY <1>2, <1>3, <1>4

----------------------------------------------------------------------------
(* Order in sequences, and their parts.                                    *)

Ordered(s, R) == \A i, j \in DOMAIN s : i < j => <<s[i], s[j]>> \in R
KeepIn(s, A) == FlattenSeq([k \in DOMAIN s |-> When(s[k] \in A, s[k])])

\* Two ordered sequences, the second behind the first.
LEMMA OrderedConcat ==
  ASSUME NEW S, NEW s \in Seq(S), NEW t \in Seq(S), NEW R, Ordered(s, R), Ordered(t, R),
         \A x \in Range(s), y \in Range(t) : <<x, y>> \in R
  PROVE  Ordered(s \o t, R)
<1>1. PICK m \in Nat, n \in Nat : m = Len(s) /\ n = Len(t)
  BY LenProperties
<1>2. /\ DOMAIN s = 1..m /\ DOMAIN t = 1..n /\ DOMAIN (s \o t) = 1..(m + n)
      /\ \A i \in 1..(m + n) : (s \o t)[i] = IF i <= m THEN s[i] ELSE t[i - m]
  BY <1>1, LenProperties, ConcatProperties
<1>3. ASSUME NEW i \in 1..(m + n), NEW j \in 1..(m + n), i < j
      PROVE  <<(s \o t)[i], (s \o t)[j]>> \in R
  <2>1. CASE j <= m
    <3>1. i \in 1..m /\ j \in 1..m /\ (s \o t)[i] = s[i] /\ (s \o t)[j] = s[j]
      BY <1>2, <1>3, <2>1
    <3>2. QED
      BY <1>2, <1>3, <3>1 DEF Ordered
  <2>2. CASE i <= m /\ ~(j <= m)
    <3>1. i \in 1..m /\ j - m \in 1..n /\ (s \o t)[i] = s[i] /\ (s \o t)[j] = t[j - m]
      BY <1>2, <1>3, <2>2
    <3>2. s[i] \in Range(s) /\ t[j - m] \in Range(t)
      BY <1>2, <3>1 DEF Range
    <3>3. QED
      BY <3>1, <3>2
  <2>3. CASE ~(i <= m)
    <3>1. /\ i - m \in 1..n /\ j - m \in 1..n /\ i - m < j - m
          /\ (s \o t)[i] = t[i - m] /\ (s \o t)[j] = t[j - m]
      BY <1>2, <1>3, <2>3
    <3>2. QED
      BY <1>2, <3>1 DEF Ordered
  <2>4. QED
    BY <1>3, <2>1, <2>2, <2>3
<1>4. QED
  BY <1>2, <1>3 DEF Ordered

\* Ordered pieces, each behind those before it.
LEMMA OrderedFlat ==
  ASSUME NEW S, NEW ss \in Seq(Seq(S)), NEW R,
         \A k \in 1..Len(ss) : Ordered(ss[k], R),
         \A j, k \in 1..Len(ss) : j < k =>
           \A x \in Range(ss[j]), y \in Range(ss[k]) : <<x, y>> \in R
  PROVE  Ordered(FlattenSeq(ss), R)
<1> DEFINE n == Len(ss)
<1>1. n \in Nat /\ ss \in [1..n -> Seq(S)]
  BY LenProperties
<1>2. PICK f \in [0..n -> Seq(S)] : /\ f[0] = <<>>
                                    /\ \A i \in 1..n : f[i] = f[i - 1] \o ss[i]
                                    /\ f[n] = FlattenSeq(ss)
  BY FlatBySteps
<1> DEFINE G == {i \in 0..n : /\ Ordered(f[i], R)
                              /\ \A x \in Range(f[i]) : \E k \in 1..i : x \in Range(ss[k])}
<1>3. 0 \in G
  <2>1. Range(<<>>) = {} /\ Ordered(<<>>, R)
    BY EmptySeq DEF Range, Ordered
  <2>2. QED
    BY <1>1, <1>2, <2>1
<1>4. ASSUME NEW i \in 0..(n - 1), i \in G PROVE i + 1 \in G
  <2>1. i + 1 \in 1..n /\ (i + 1) - 1 = i /\ i \in 0..n
    BY <1>1
  <2>2. f[i + 1] = f[i] \o ss[i + 1] /\ f[i] \in Seq(S) /\ ss[i + 1] \in Seq(S)
    BY <1>1, <1>2, <2>1
  <2>3. \A x \in Range(f[i]), y \in Range(ss[i + 1]) : <<x, y>> \in R
    <3>1. ASSUME NEW x \in Range(f[i]), NEW y \in Range(ss[i + 1]) PROVE <<x, y>> \in R
      <4>1. PICK k \in 1..i : x \in Range(ss[k])
        BY <1>4
      <4>2. k \in 1..n /\ k < i + 1
        BY <2>1, <4>1
      <4>3. QED
        BY <2>1, <4>1, <4>2
    <3>2. QED
      BY <3>1
  <2>4. Ordered(f[i + 1], R)
    <3>1. Ordered(f[i], R) /\ Ordered(ss[i + 1], R)
      BY <1>4, <2>1
    <3>2. PICK a \in Seq(S), b \in Seq(S) : a = f[i] /\ b = ss[i + 1]
      BY <2>2
    <3>3. Ordered(a \o b, R)
      BY <2>3, <3>1, <3>2, OrderedConcat
    <3>4. QED
      BY <2>2, <3>2, <3>3
  <2>5. ASSUME NEW x \in Range(f[i + 1]) PROVE \E k \in 1..(i + 1) : x \in Range(ss[k])
    <3>1. x \in Range(f[i]) \/ x \in Range(ss[i + 1])
      BY <2>2, ConcatHas
    <3>2. CASE x \in Range(f[i])
      <4>1. PICK k \in 1..i : x \in Range(ss[k])
        BY <1>4, <3>2
      <4>2. k \in 1..(i + 1)
        BY <2>1
      <4>3. QED
        BY <4>1, <4>2
    <3>3. CASE x \in Range(ss[i + 1])
      <4>1. i + 1 \in 1..(i + 1)
        BY <2>1
      <4>2. QED
        BY <3>3, <4>1
    <3>4. QED
      BY <3>1, <3>2, <3>3
  <2>6. QED
    BY <2>1, <2>4, <2>5
<1>5. \A i \in 0..n : i \in G
  <2> HIDE DEF G, n
  <2>1. QED
    BY <1>1, <1>3, <1>4, Climb
<1>6. n \in G
  BY <1>1, <1>5
<1>7. QED
  BY <1>2, <1>6

\* What When has.
LEMMA WhenHas ==
  ASSUME NEW test, NEW x, NEW y
  PROVE  y \in Range(When(test, x)) <=> test /\ y = x
<1>1. CASE test
  <2>1. When(test, x) = <<x>> /\ DOMAIN <<x>> = {1} /\ <<x>>[1] = x
    BY <1>1 DEF When
  <2>2. QED
    BY <1>1, <2>1 DEF Range
<1>2. CASE ~test
  <2>1. When(test, x) = <<>> /\ DOMAIN <<>> = {}
    BY <1>2 DEF When
  <2>2. QED
    BY <1>2, <2>1 DEF Range
<1>3. QED
  BY <1>1, <1>2

\* It has one element at most.
LEMMA WhenOrdered ==
  ASSUME NEW test, NEW x, NEW R
  PROVE  Ordered(When(test, x), R)
<1>1. CASE test
  <2>1. When(test, x) = <<x>> /\ DOMAIN <<x>> = {1}
    BY <1>1 DEF When
  <2>2. QED
    BY <2>1 DEF Ordered
<1>2. CASE ~test
  <2>1. When(test, x) = <<>> /\ DOMAIN <<>> = {}
    BY <1>2 DEF When
  <2>2. QED
    BY <2>1 DEF Ordered
<1>3. QED
  BY <1>1, <1>2

\* What is kept of a sequence.
LEMMA KeepFacts ==
  ASSUME NEW S, NEW s \in Seq(S), NEW A
  PROVE  /\ KeepIn(s, A) \in Seq(S)
         /\ \A x : x \in Range(KeepIn(s, A)) <=> x \in Range(s) /\ x \in A
         /\ \A R : Ordered(s, R) => Ordered(KeepIn(s, A), R)
<1>1. PICK n \in Nat : n = Len(s) /\ DOMAIN s = 1..n /\ \A k \in 1..n : s[k] \in S
  BY LenProperties, ElementOfSeq
<1> DEFINE ss == [k \in 1..n |-> When(s[k] \in A, s[k])]
<1>2. ss \in [1..n -> Seq(S)]
  BY <1>1, WhenType
<1>3. ss \in Seq(Seq(S)) /\ Len(ss) = n /\ FlattenSeq(ss) \in Seq(S)
  <2> HIDE DEF ss
  <2>1. QED
    BY <1>2, PiecesType
<1>4. KeepIn(s, A) = FlattenSeq(ss)
  BY <1>1 DEF KeepIn
<1>5. \A k \in 1..n : ss[k] = When(s[k] \in A, s[k])
  OBVIOUS
<1> HIDE DEF ss
<1>6. ASSUME NEW x PROVE x \in Range(KeepIn(s, A)) <=> x \in Range(s) /\ x \in A
  <2>1. x \in Range(FlattenSeq(ss)) <=> \E k \in 1..n : x \in Range(ss[k])
    BY <1>3, FlatHas
  <2>2. \A k \in 1..n : x \in Range(ss[k]) <=> s[k] \in A /\ x = s[k]
    BY <1>5, WhenHas
  <2>3. QED
    BY <1>1, <1>4, <2>1, <2>2 DEF Range
<1>7. ASSUME NEW R, Ordered(s, R) PROVE Ordered(KeepIn(s, A), R)
  <2>1. \A k \in 1..n : Ordered(ss[k], R)
    BY <1>5, WhenOrdered
  <2>2. ASSUME NEW j \in 1..n, NEW k \in 1..n, j < k, NEW x \in Range(ss[j]), NEW y \in Range(ss[k])
        PROVE  <<x, y>> \in R
    <3>1. x = s[j] /\ y = s[k]
      BY <1>5, WhenHas
    <3>2. QED
      BY <1>1, <1>7, <2>2, <3>1 DEF Ordered
  <2>3. Ordered(FlattenSeq(ss), R)
    BY <1>3, <2>1, <2>2, OrderedFlat
  <2>4. QED
    BY <1>4, <2>3
<1>8. QED
  BY <1>3, <1>4, <1>6, <1>7

\* ... counts as what it is kept of, where it is kept.
LEMMA KeepTotal ==
  ASSUME NEW S, NEW s \in Seq(S), NEW A, NEW g \in [S -> Nat]
  PROVE  /\ [x \in S |-> IF x \in A THEN g[x] ELSE 0] \in [S -> Nat]
         /\ Total(KeepIn(s, A), g) = Total(s, [x \in S |-> IF x \in A THEN g[x] ELSE 0])
<1>1. PICK n \in Nat : n = Len(s) /\ DOMAIN s = 1..n /\ \A k \in 1..n : s[k] \in S
  BY LenProperties, ElementOfSeq
<1> DEFINE ss == [k \in 1..n |-> When(s[k] \in A, s[k])]
           h == [x \in S |-> IF x \in A THEN g[x] ELSE 0]
           sum == [t \in Seq(S) |-> Total(t, g)]
<1>2. ss \in [1..n -> Seq(S)]
  BY <1>1, WhenType
<1>3. ss \in Seq(Seq(S)) /\ Len(ss) = n
  <2> HIDE DEF ss
  <2>1. QED
    BY <1>2, PiecesType
<1>4. KeepIn(s, A) = FlattenSeq(ss)
  BY <1>1 DEF KeepIn
<1>5. h \in [S -> Nat]
  OBVIOUS
<1>6. sum \in [Seq(S) -> Nat] /\ Total(FlattenSeq(ss), g) = Total(ss, sum)
  <2> HIDE DEF ss
  <2>1. QED
    BY <1>3, TotalFlat
<1>7. ASSUME NEW k \in 1..n PROVE sum[ss[k]] = h[s[k]]
  <2>1. ss[k] = When(s[k] \in A, s[k]) /\ ss[k] \in Seq(S) /\ s[k] \in S
    BY <1>1, <1>2
  <2>2. sum[ss[k]] = Total(ss[k], g)
    BY <2>1
  <2>3. CASE s[k] \in A
    <3>1. ss[k] = <<s[k]>> /\ h[s[k]] = g[s[k]]
      BY <2>1, <2>3 DEF When
    <3>2. Total(<<s[k]>>, g) = g[s[k]]
      BY <2>1, TotalOne
    <3>3. QED
      BY <2>2, <3>1, <3>2
  <2>4. CASE s[k] \notin A
    <3>1. ss[k] = <<>> /\ h[s[k]] = 0
      BY <2>1, <2>4 DEF When
    <3>2. Total(<<>>, g) = 0
      BY TotalEmpty
    <3>3. QED
      BY <2>2, <3>1, <3>2
  <2>5. QED
    BY <2>3, <2>4
<1>8. Total(ss, sum) = Total(s, h)
  <2> HIDE DEF ss, sum, h
  <2>1. PICK T : T = Seq(S)
    OBVIOUS
  <2>2. ss \in Seq(T) /\ sum \in [T -> Nat]
    BY <1>3, <1>6, <2>1
  <2>3. Len(ss) = Len(s) /\ \A i \in 1..Len(ss) : sum[ss[i]] = h[s[i]]
    BY <1>1, <1>3, <1>7
  <2>4. s \in Seq(S) /\ h \in [S -> Nat]
    BY <1>5
  <2>5. PICK a, b, c : a = ss /\ b = sum /\ c = h
    OBVIOUS
  <2>6. a \in Seq(T) /\ b \in [T -> Nat] /\ s \in Seq(S) /\ c \in [S -> Nat]
    BY <2>2, <2>4, <2>5
  <2>7. SameValues(a, b, s, c)
    BY <2>3, <2>5 DEF SameValues
  <2>8. Total(a, b) = Total(s, c)
    BY ONLY <2>6, <2>7, TotalSame
  <2>9. QED
    BY <2>5, <2>8
<1>9. QED
  BY <1>4, <1>5, <1>6, <1>8

----------------------------------------------------------------------------
(* The fixes in their order, and those taken.                              *)

ByStart == {p \in Placed \X Placed : p[1].start <= p[2].start}
Apart == {p \in Placed \X Placed : p[1].end <= p[2].start}
UpTo(x) == {f \in Placed : f.start <= x.start}
Low(s, x) == FlattenSeq([k \in DOMAIN s |-> When(s[k].start <= x.start, s[k])])
High(s, x) == FlattenSeq([k \in DOMAIN s |-> When(s[k].start > x.start, s[k])])
Inserted(s, x) == Low(s, x) \o <<x>> \o High(s, x)

\* A fix is inserted where it belongs.
LEMMA InsertedFacts ==
  ASSUME NEW s \in Seq(Placed), NEW x \in Placed, Ordered(s, ByStart)
  PROVE  /\ Inserted(s, x) \in Seq(Placed)
         /\ Ordered(Inserted(s, x), ByStart)
         /\ \A y : y \in Range(Inserted(s, x)) <=> y \in Range(s) \/ y = x
<1> DEFINE low == KeepIn(s, UpTo(x))
           high == KeepIn(s, Placed \ UpTo(x))
<1>1. PICK n \in Nat : n = Len(s) /\ DOMAIN s = 1..n /\ \A k \in 1..n : s[k] \in Placed
  BY LenProperties, ElementOfSeq
<1>2. Low(s, x) = low
  <2>1. [k \in 1..n |-> When(s[k].start <= x.start, s[k])] = [k \in 1..n |-> When(s[k] \in UpTo(x), s[k])]
    BY <1>1 DEF UpTo, When
  <2>2. QED
    BY <1>1, <2>1 DEF Low, KeepIn
<1>3. High(s, x) = high
  <2>1. [k \in 1..n |-> When(s[k].start > x.start, s[k])]
          = [k \in 1..n |-> When(s[k] \in Placed \ UpTo(x), s[k])]
    BY <1>1 DEF UpTo, When, Placed
  <2>2. QED
    BY <1>1, <2>1 DEF High, KeepIn
<1>4. low \in Seq(Placed) /\ Ordered(low, ByStart) /\ \A y : y \in Range(low) <=> y \in Range(s) /\ y \in UpTo(x)
  BY KeepFacts
<1>5. high \in Seq(Placed) /\ Ordered(high, ByStart)
      /\ \A y : y \in Range(high) <=> y \in Range(s) /\ y \in Placed \ UpTo(x)
  BY KeepFacts
<1>6. <<x>> \in Seq(Placed) /\ Range(<<x>>) = {x} /\ Ordered(<<x>>, ByStart)
  <2>1. <<x>> \in Seq(Placed) /\ DOMAIN <<x>> = {1} /\ <<x>>[1] = x
    OBVIOUS
  <2>2. QED
    BY <2>1 DEF Range, Ordered
<1> HIDE DEF low, high
<1>7. PICK one \in Seq(Placed) : one = <<x>> /\ Range(one) = {x} /\ Ordered(one, ByStart)
  BY <1>6
<1>8. low \o one \in Seq(Placed) /\ Ordered(low \o one, ByStart)
      /\ \A y : y \in Range(low \o one) <=> y \in Range(low) \/ y = x
  <2>1. \A u \in Range(low), y \in Range(one) : <<u, y>> \in ByStart
    BY <1>4, <1>7 DEF UpTo, ByStart
  <2>2. low \o one \in Seq(Placed)
    BY <1>4, <1>7, ConcatProperties
  <2>3. Ordered(low \o one, ByStart)
    BY <1>4, <1>7, <2>1, OrderedConcat
  <2>4. \A y : y \in Range(low \o one) <=> y \in Range(low) \/ y \in Range(one)
    BY <1>4, <1>7, ConcatHas
  <2>5. QED
    BY <1>7, <2>2, <2>3, <2>4
<1>9. PICK both \in Seq(Placed) : both = low \o one
  BY <1>8
<1>10. both \o high \in Seq(Placed) /\ Ordered(both \o high, ByStart)
       /\ \A y : y \in Range(both \o high) <=> y \in Range(both) \/ y \in Range(high)
  <2>1. \A u \in Range(both), y \in Range(high) : <<u, y>> \in ByStart
    <3>1. \A g \in Placed : g.start \in Nat
      BY DEF Placed
    <3>2. \A u \in Range(both) : u \in Placed /\ u.start <= x.start
      BY <1>4, <1>8, <1>9, <3>1 DEF UpTo
    <3>3. \A y \in Range(high) : y \in Placed /\ ~(y.start <= x.start)
      BY <1>5 DEF UpTo
    <3>4. QED
      BY <3>1, <3>2, <3>3 DEF ByStart
  <2>2. both \o high \in Seq(Placed)
    BY <1>5, <1>9, ConcatProperties
  <2>3. Ordered(both \o high, ByStart)
    BY <1>5, <1>8, <1>9, <2>1, OrderedConcat
  <2>4. \A y : y \in Range(both \o high) <=> y \in Range(both) \/ y \in Range(high)
    BY <1>5, <1>9, ConcatHas
  <2>5. QED
    BY <2>2, <2>3, <2>4
<1>11. \A y : y \in Range(both \o high) <=> y \in Range(s) \/ y = x
  <2>1. \A y \in Range(s) : y \in Placed
    BY <1>1 DEF Range
  <2>2. QED
    BY <1>4, <1>5, <1>8, <1>9, <1>10, <2>1
<1>12. Inserted(s, x) = both \o high
  BY <1>2, <1>3, <1>7, <1>9 DEF Inserted
<1>13. QED
  BY <1>10, <1>11, <1>12

\* The fixes in order are those on offer, sorted.
LEMMA InOrderFacts ==
  ASSUME Offered \in Seq(Placed)
  PROVE  /\ InOrder \in Seq(Placed)
         /\ Ordered(InOrder, ByStart)
         /\ Range(InOrder) = Range(Offered)
<1>1. PICK n \in Nat : n = Len(Offered) /\ DOMAIN Offered = 1..n /\ \A k \in 1..n : Offered[k] \in Placed
  BY LenProperties, ElementOfSeq
<1> DEFINE S == {s \in Seq(Placed) : Ordered(s, ByStart)}
           step == [p \in (1..n) \X S |-> Inserted(p[2], Offered[p[1]])]
           body(g, k) == IF k = 0 THEN <<>> ELSE Inserted(g[k - 1], Offered[k])
           IsWalk(g) == g = [k \in 0..n |-> body(g, k)]
           sorted == CHOOSE g : IsWalk(g)
<1>2. \A k \in 1..n, s \in S : /\ step[<<k, s>>] = Inserted(s, Offered[k])
                               /\ step[<<k, s>>] \in S
                               /\ \A y : y \in Range(step[<<k, s>>]) <=> y \in Range(s) \/ y = Offered[k]
  <2>1. ASSUME NEW k \in 1..n, NEW s \in S
        PROVE  /\ Inserted(s, Offered[k]) \in S
               /\ \A y : y \in Range(Inserted(s, Offered[k])) <=> y \in Range(s) \/ y = Offered[k]
    BY <1>1, InsertedFacts
  <2>2. QED
    BY <2>1
<1>3. <<>> \in S
  BY EmptySeq DEF Ordered
<1>4. PICK f \in Paths(S, <<>>, n, step) : TRUE
  <2>1. Paths(S, <<>>, n, step) # {}
    <3> HIDE DEF S, step
    <3>1. QED
      BY <1>2, <1>3, Iterate
  <2>2. QED
    BY <2>1
<1>5. f \in [0..n -> S] /\ f[0] = <<>> /\ \A k \in 1..n : f[k] = step[<<k, f[k - 1]>>]
  BY <1>4 DEF Paths
<1>6. ASSUME NEW k \in 1..n
      PROVE  f[k] = Inserted(f[k - 1], Offered[k])
             /\ \A y : y \in Range(f[k]) <=> y \in Range(f[k - 1]) \/ y = Offered[k]
  <2>1. k - 1 \in 0..n
    OBVIOUS
  <2>2. f[k - 1] \in S
    BY <1>5, <2>1
  <2> HIDE DEF S, step
  <2>3. QED
    BY <1>2, <1>5, <2>2
<1>7. ASSUME NEW g, NEW k \in 1..n, g[k - 1] = f[k - 1]
      PROVE  body(g, k) = f[k]
  <2>1. k - 1 \in 0..n /\ k # 0
    OBVIOUS
  <2>2. QED
    BY <1>6, <1>7, <2>1
<1>8. IsWalk(f)
  <2>1. ASSUME NEW k \in 0..n PROVE f[k] = body(f, k)
    <3>1. CASE k = 0
      BY <1>5, <3>1
    <3>2. CASE k # 0
      <4>1. k \in 1..n
        BY <3>2
      <4> HIDE DEF body
      <4>2. QED
        BY <1>7, <4>1
    <3>3. QED
      BY <3>1, <3>2
  <2> HIDE DEF body
  <2>2. QED
    BY <1>5, <2>1
<1>9. IsWalk(sorted)
  <2> HIDE DEF IsWalk
  <2>1. QED
    BY <1>8
<1>10. InOrder = sorted[n]
  BY <1>1 DEF InOrder, Keep, Each, Inserted, Low, High
<1> DEFINE G == {k \in 0..n : sorted[k] = f[k] /\ \A y : y \in Range(f[k]) <=> \E j \in 1..k : y = Offered[j]}
<1>11. \A k \in 0..n : k \in G
  <2>1. \A k \in 0..n : sorted[k] = body(sorted, k)
    <3> HIDE DEF sorted, body
    <3>1. QED
      BY <1>9
  <2>2. 0 \in G
    <3>1. sorted[0] = <<>>
      <4>1. 0 \in 0..n /\ body(sorted, 0) = <<>>
        OBVIOUS
      <4> HIDE DEF sorted, body
      <4>2. QED
        BY <2>1, <4>1
    <3>2. Range(<<>>) = {}
      BY DEF Range
    <3> HIDE DEF sorted
    <3>3. QED
      BY <1>5, <3>1, <3>2
  <2>3. ASSUME NEW k \in 0..(n - 1), k \in G PROVE k + 1 \in G
    <3>1. k + 1 \in 1..n /\ (k + 1) - 1 = k /\ k + 1 \in 0..n
      OBVIOUS
    <3>2. sorted[k + 1] = f[k + 1]
      <4>1. sorted[(k + 1) - 1] = f[(k + 1) - 1]
        BY <2>3, <3>1
      <4> HIDE DEF sorted, body
      <4>2. QED
        BY <1>7, <2>1, <3>1, <4>1
    <3>3. \A y : y \in Range(f[k + 1]) <=> y \in Range(f[k]) \/ y = Offered[k + 1]
      BY <1>6, <3>1
    <3>4. \A j \in 1..(k + 1) : j \in 1..k \/ j = k + 1
      OBVIOUS
    <3>5. k + 1 \in 1..(k + 1) /\ \A j \in 1..k : j \in 1..(k + 1)
      OBVIOUS
    <3>6. \A y : y \in Range(f[k]) <=> \E j \in 1..k : y = Offered[j]
      BY <2>3
    <3>7. \A y : y \in Range(f[k + 1]) <=> \E j \in 1..(k + 1) : y = Offered[j]
      BY <3>3, <3>4, <3>5, <3>6
    <3> HIDE DEF sorted
    <3>8. QED
      BY <3>1, <3>2, <3>7
  <2> HIDE DEF G
  <2>4. QED
    BY <2>2, <2>3, Climb
<1>12. n \in G /\ n \in 0..n
  <2> HIDE DEF G
  <2>1. QED
    BY <1>11
<1> HIDE DEF sorted
<1>13. InOrder = f[n] /\ f[n] \in S
  BY <1>5, <1>10, <1>12
<1>14. \A y : y \in Range(InOrder) <=> y \in Range(Offered)
  <2>1. \A y : y \in Range(f[n]) <=> \E j \in 1..n : y = Offered[j]
    BY <1>12
  <2>2. \A y : y \in Range(Offered) <=> \E j \in 1..n : y = Offered[j]
    BY <1>1 DEF Range
  <2>3. QED
    BY <1>13, <2>1, <2>2
<1>15. QED
  BY <1>13, <1>14

\* The end of fixes that are apart is beyond them all.
LEMMA EndFacts ==
  ASSUME NEW t \in Seq(Placed), Ordered(t, Apart)
  PROVE  /\ End(t) \in Nat
         /\ \A y \in Range(t) : y.end <= End(t)
         /\ End(t) = 0 \/ \E y \in Range(t) : End(t) = y.end
<1>1. PICK n \in Nat : n = Len(t) /\ DOMAIN t = 1..n /\ \A k \in 1..n : t[k] \in Placed
  BY LenProperties, ElementOfSeq
<1>2. CASE t = <<>>
  <2>1. End(t) = 0 /\ Range(t) = {}
    BY <1>2 DEF End, Range
  <2>2. QED
    BY <2>1
<1>3. CASE t # <<>>
  <2>1. n \in 1..n /\ End(t) = t[n].end
    BY <1>1, <1>3, EmptySeq DEF End
  <2>2. t[n] \in Placed /\ t[n] \in Range(t)
    BY <1>1, <2>1 DEF Range
  <2>3. t[n].start \in Nat /\ t[n].end \in Nat /\ t[n].start < t[n].end
    BY <2>2 DEF Placed
  <2>4. ASSUME NEW y \in Range(t) PROVE y.end <= End(t)
    <3>1. PICK i \in 1..n : y = t[i]
      BY <1>1 DEF Range
    <3>2. CASE i = n
      BY <2>1, <2>3, <3>1, <3>2
    <3>3. CASE i # n
      <4>1. <<y, t[n]>> \in Apart
        BY <1>1, <2>1, <3>1, <3>3 DEF Ordered
      <4>2. y.end <= t[n].start /\ y.end \in Nat
        BY <4>1 DEF Apart, Placed
      <4>3. QED
        BY <2>1, <2>3, <4>2
    <3>4. QED
      BY <3>2, <3>3
  <2>5. QED
    BY <2>1, <2>2, <2>3, <2>4
<1>4. QED
  BY <1>2, <1>3

\* A fix behind the end is taken, another one is not.
TakenWith(t, x) == t \o When(x.start >= End(t), x)

\* Taking one more fix keeps those taken in order and apart.
LEMMA TakenWithFacts ==
  ASSUME NEW t \in Seq(Placed), NEW x \in Placed, Ordered(t, Apart)
  PROVE  /\ TakenWith(t, x) \in Seq(Placed)
         /\ Ordered(TakenWith(t, x), Apart)
         /\ \A y : y \in Range(TakenWith(t, x)) <=> y \in Range(t) \/ (x.start >= End(t) /\ y = x)
<1>1. x.start \in Nat /\ End(t) \in Nat
  BY EndFacts DEF Placed
<1>2. PICK w \in Seq(Placed) : w = When(x.start >= End(t), x)
  BY WhenType
<1>3. Ordered(w, Apart) /\ \A y : y \in Range(w) <=> (x.start >= End(t) /\ y = x)
  BY <1>2, WhenOrdered, WhenHas
<1>4. \A u \in Range(t), y \in Range(w) : <<u, y>> \in Apart
  <2>1. ASSUME NEW u \in Range(t), NEW y \in Range(w) PROVE <<u, y>> \in Apart
    <3>1. u \in Placed
      BY LenProperties, ElementOfSeq DEF Range
    <3>2. u.end <= End(t) /\ u.end \in Nat
      BY <3>1, EndFacts DEF Placed
    <3>3. y = x /\ x.start >= End(t)
      BY <1>3
    <3>4. u.end <= y.start
      BY <1>1, <3>2, <3>3
    <3>5. QED
      BY <3>1, <3>3, <3>4 DEF Apart
  <2>2. QED
    BY <2>1
<1>5. t \o w \in Seq(Placed) /\ Ordered(t \o w, Apart)
  BY <1>3, <1>4, ConcatProperties, OrderedConcat
<1>6. \A y : y \in Range(t \o w) <=> y \in Range(t) \/ y \in Range(w)
  BY ConcatHas
<1>7. QED
  BY <1>2, <1>3, <1>5, <1>6 DEF TakenWith

\* The fixes taken are apart, and every other one starts within one of them.
LEMMA TakenFacts ==
  ASSUME NEW fs \in Seq(Placed), Ordered(fs, ByStart)
  PROVE  /\ Taken(fs) \in Seq(Placed)
         /\ Ordered(Taken(fs), Apart)
         /\ Range(Taken(fs)) \subseteq Range(fs)
         /\ \A x \in Range(fs) \ Range(Taken(fs)) :
              \E y \in Range(Taken(fs)) : y.start <= x.start /\ x.start < y.end
<1>1. PICK n \in Nat : n = Len(fs) /\ DOMAIN fs = 1..n /\ \A k \in 1..n : fs[k] \in Placed
  BY LenProperties, ElementOfSeq
<1> DEFINE S == {s \in Seq(Placed) : Ordered(s, Apart)}
           step == [p \in (1..n) \X S |-> TakenWith(p[2], fs[p[1]])]
           body(g, k) == IF k = 0 THEN <<>> ELSE TakenWith(g[k - 1], fs[k])
           IsWalk(g) == g = [k \in 0..n |-> body(g, k)]
           taken == CHOOSE g : IsWalk(g)
<1>2. \A k \in 1..n, s \in S : /\ step[<<k, s>>] = TakenWith(s, fs[k])
                               /\ step[<<k, s>>] \in S
  <2>1. ASSUME NEW k \in 1..n, NEW s \in S
        PROVE  TakenWith(s, fs[k]) \in S
    BY <1>1, TakenWithFacts
  <2>2. QED
    BY <2>1
<1>3. <<>> \in S
  BY EmptySeq DEF Ordered
<1>4. PICK f \in Paths(S, <<>>, n, step) : TRUE
  <2>1. Paths(S, <<>>, n, step) # {}
    <3> HIDE DEF S, step
    <3>1. QED
      BY <1>2, <1>3, Iterate
  <2>2. QED
    BY <2>1
<1>5. f \in [0..n -> S] /\ f[0] = <<>> /\ \A k \in 1..n : f[k] = step[<<k, f[k - 1]>>]
  BY <1>4 DEF Paths
<1>6. ASSUME NEW k \in 1..n
      PROVE  f[k] = TakenWith(f[k - 1], fs[k]) /\ f[k - 1] \in S
  <2>1. k - 1 \in 0..n
    OBVIOUS
  <2>2. f[k - 1] \in S
    BY <1>5, <2>1
  <2> HIDE DEF S, step
  <2>3. QED
    BY <1>2, <1>5, <2>2
<1>7. IsWalk(f)
  <2>1. ASSUME NEW k \in 0..n PROVE f[k] = body(f, k)
    <3>1. CASE k = 0
      BY <1>5, <3>1
    <3>2. CASE k # 0
      <4>1. k \in 1..n
        BY <3>2
      <4>2. QED
        BY <1>6, <3>2, <4>1
    <3>3. QED
      BY <3>1, <3>2
  <2> HIDE DEF body
  <2>2. QED
    BY <1>5, <2>1
<1>8. IsWalk(taken)
  <2> HIDE DEF IsWalk
  <2>1. QED
    BY <1>7
<1>9. Taken(fs) = taken[n]
  BY <1>1 DEF Taken, TakenWith
<1> DEFINE Within(x, t) == \E y \in Range(t) : y.start <= x.start /\ x.start < y.end
           G == {k \in 0..n : /\ taken[k] = f[k]
                              /\ \A y \in Range(f[k]) : \E j \in 1..k : y = fs[j]
                              /\ \A j \in 1..k : fs[j] \in Range(f[k]) \/ Within(fs[j], f[k])}
<1>10. \A k \in 0..n : k \in G
  <2>1. \A k \in 0..n : taken[k] = body(taken, k)
    <3> HIDE DEF taken, body
    <3>1. QED
      BY <1>8
  <2>2. 0 \in G
    <3>1. taken[0] = <<>>
      <4>1. 0 \in 0..n /\ body(taken, 0) = <<>>
        OBVIOUS
      <4> HIDE DEF taken, body
      <4>2. QED
        BY <2>1, <4>1
    <3>2. Range(<<>>) = {}
      BY DEF Range
    <3> HIDE DEF taken
    <3>3. QED
      BY <1>5, <3>1, <3>2
  <2>3. ASSUME NEW k \in 0..(n - 1), k \in G PROVE k + 1 \in G
    <3>1. k + 1 \in 1..n /\ (k + 1) - 1 = k /\ k + 1 \in 0..n /\ k + 1 # 0
      OBVIOUS
    <3>2. PICK t \in Seq(Placed), x \in Placed : t = f[k] /\ x = fs[k + 1] /\ Ordered(t, Apart)
      BY <1>1, <1>6, <3>1
    <3>3. f[k + 1] = TakenWith(t, x)
      BY <1>6, <3>1, <3>2
    <3>4. taken[k + 1] = f[k + 1]
      <4>1. taken[k + 1] = body(taken, k + 1) /\ taken[k] = f[k]
        <5> HIDE DEF taken, body
        <5>1. QED
          BY <2>1, <2>3, <3>1
      <4>2. body(taken, k + 1) = TakenWith(taken[(k + 1) - 1], fs[k + 1])
        BY <3>1
      <4> HIDE DEF taken, body
      <4>3. QED
        BY <3>1, <3>2, <3>3, <4>1, <4>2
    <3>5. \A y : y \in Range(f[k + 1]) <=> y \in Range(t) \/ (x.start >= End(t) /\ y = x)
      BY <3>2, <3>3, TakenWithFacts
    <3>6. \A y \in Range(t) : \E j \in 1..k : y = fs[j]
      BY <2>3, <3>2
    <3>7. \A y \in Range(f[k + 1]) : \E j \in 1..(k + 1) : y = fs[j]
      <4>1. k + 1 \in 1..(k + 1) /\ \A j \in 1..k : j \in 1..(k + 1)
        OBVIOUS
      <4>2. QED
        BY <3>2, <3>5, <3>6, <4>1
    <3>8. \A j \in 1..k : fs[j] \in Range(t) \/ Within(fs[j], t)
      BY <2>3, <3>2
    <3>9. \A j \in 1..k : fs[j] \in Range(f[k + 1]) \/ Within(fs[j], f[k + 1])
      BY <3>5, <3>8
    <3>10. x \in Range(f[k + 1]) \/ Within(x, f[k + 1])
      <4>1. x.start \in Nat /\ End(t) \in Nat
        BY <3>2, EndFacts DEF Placed
      <4>2. CASE x.start >= End(t)
        BY <3>5, <4>2
      <4>3. CASE ~(x.start >= End(t))
        <5>1. End(t) # 0
          BY <4>1, <4>3
        <5>2. PICK y \in Range(t) : End(t) = y.end
          BY <3>2, <5>1, EndFacts
        <5>3. PICK j \in 1..k : y = fs[j]
          BY <3>6
        <5>4. j \in 1..n /\ k + 1 \in 1..n /\ j < k + 1
          BY <3>1
        <5>5. <<fs[j], fs[k + 1]>> \in ByStart
          BY <1>1, <5>4 DEF Ordered
        <5>6. y.start <= x.start
          BY <3>2, <5>3, <5>5 DEF ByStart
        <5>7. y \in Range(f[k + 1]) /\ x.start < y.end
          BY <3>5, <4>1, <4>3, <5>2
        <5>8. QED
          BY <5>6, <5>7
      <4>4. QED
        BY <4>2, <4>3
    <3>11. \A j \in 1..(k + 1) : j \in 1..k \/ j = k + 1
      OBVIOUS
    <3> HIDE DEF taken, Within
    <3>12. QED
      BY <3>1, <3>2, <3>4, <3>7, <3>9, <3>10, <3>11
  <2> HIDE DEF G
  <2>4. QED
    BY <2>2, <2>3, Climb
<1>11. n \in G
  <2> HIDE DEF G
  <2>1. QED
    BY <1>10
<1> HIDE DEF taken
<1>12. Taken(fs) = f[n] /\ f[n] \in S
  <2>1. n \in 0..n
    OBVIOUS
  <2>2. QED
    BY <1>5, <1>9, <1>11, <2>1
<1>13. \A y : y \in Range(fs) <=> \E j \in 1..n : y = fs[j]
  BY <1>1 DEF Range
<1>14. Range(Taken(fs)) \subseteq Range(fs)
  <2>1. \A y \in Range(f[n]) : \E j \in 1..n : y = fs[j]
    BY <1>11
  <2>2. QED
    BY <1>12, <1>13, <2>1
<1>15. ASSUME NEW x \in Range(fs) \ Range(Taken(fs))
       PROVE  \E y \in Range(Taken(fs)) : y.start <= x.start /\ x.start < y.end
  <2>1. PICK j \in 1..n : x = fs[j]
    BY <1>13
  <2>2. fs[j] \in Range(f[n]) \/ Within(fs[j], f[n])
    BY <1>11
  <2>3. QED
    BY <1>12, <2>1, <2>2
<1>16. QED
  BY <1>12, <1>14, <1>15

----------------------------------------------------------------------------
(* The fixed text.                                                         *)

Mended(value, from, to, with) ==
  SubSeq(value, 1, from - 1) \o with \o SubSeq(value, to + 1, Len(value))

\* A value with some of its cells replaced.
LEMMA MendedType ==
  ASSUME NEW value \in Value, NEW from \in Nat \ {0}, NEW to \in Nat, from <= to, to <= Len(value),
         NEW with \in Value \ {<<>>}
  PROVE  /\ value # <<>>
         /\ Mended(value, from, to, with) \in Value \ {<<>>}
         /\ Len(Mended(value, from, to, with)) = (from - 1) + Len(with) + (Len(value) - to)
         /\ \A c \in 1..(from - 1) : Mended(value, from, to, with)[c] = value[c]
         /\ \A c \in 1..Len(with) : Mended(value, from, to, with)[from - 1 + c] = with[c]
         /\ \A c \in (to + 1)..Len(value) :
              Mended(value, from, to, with)[from - 1 + Len(with) + (c - to)] = value[c]
<1>1. PICK n \in Nat, m \in Nat : n = Len(value) /\ m = Len(with) /\ m # 0
  BY LenProperties, EmptySeq DEF Value
<1>2. n # 0 /\ value # <<>>
  BY <1>1, EmptySeq
<1>3. PICK a, b : a = SubSeq(value, 1, from - 1) /\ b = SubSeq(value, to + 1, n)
  OBVIOUS
<1>4. a \in Seq(Cell) /\ Len(a) = from - 1 /\ \A c \in 1..(from - 1) : a[c] = value[c]
  <2>1. 1 \in 1..(n + 1) /\ from - 1 \in 0..n /\ 1 <= from - 1 + 1
    BY <1>1
  <2>2. QED
    BY <1>1, <1>3, <2>1, SubSeqProperties DEF Value
<1>5. b \in Seq(Cell) /\ Len(b) = n - to /\ \A c \in 1..(n - to) : b[c] = value[to + c]
  <2>1. to + 1 \in 1..(n + 1) /\ n \in 0..n /\ to + 1 <= n + 1
    BY <1>1
  <2>2. \A c \in 1..(n - to) : (to + 1) + c - 1 = to + c
    BY <1>1
  <2>3. QED
    BY <1>1, <1>3, <2>1, <2>2, SubSeqProperties DEF Value
<1>6. PICK ab \in Seq(Cell) : ab = a \o with /\ Len(ab) = (from - 1) + m
  BY <1>1, <1>4, ConcatProperties DEF Value
<1>7. \A c \in 1..((from - 1) + m) : ab[c] = IF c <= from - 1 THEN a[c] ELSE with[c - (from - 1)]
  <2>1. \A c \in 1..(Len(a) + Len(with)) :
          (a \o with)[c] = IF c <= Len(a) THEN a[c] ELSE with[c - Len(a)]
    BY <1>4, ConcatProperties DEF Value
  <2>2. QED
    BY <1>1, <1>4, <1>6, <2>1
<1>8. Mended(value, from, to, with) = ab \o b
  BY <1>1, <1>3, <1>6 DEF Mended
<1>9. ab \o b \in Seq(Cell) /\ Len(ab \o b) = (from - 1) + m + (n - to)
      /\ \A c \in 1..((from - 1) + m + (n - to)) :
           (ab \o b)[c] = IF c <= (from - 1) + m THEN ab[c] ELSE b[c - ((from - 1) + m)]
  <2>1. \A c \in 1..(Len(ab) + Len(b)) : (ab \o b)[c] = IF c <= Len(ab) THEN ab[c] ELSE b[c - Len(ab)]
    BY <1>5, ConcatProperties
  <2>2. ab \o b \in Seq(Cell) /\ Len(ab \o b) = Len(ab) + Len(b)
    BY <1>5, ConcatProperties
  <2>3. QED
    BY <1>1, <1>5, <1>6, <2>1, <2>2
<1>10. ab \o b # <<>>
  BY <1>1, <1>9, EmptySeq
<1>11. ASSUME NEW c \in 1..(from - 1) PROVE (ab \o b)[c] = value[c]
  BY <1>1, <1>4, <1>7, <1>9
<1>12. ASSUME NEW c \in 1..m PROVE (ab \o b)[from - 1 + c] = with[c]
  <2>1. PICK j : j = from - 1 + c
    OBVIOUS
  <2>2. /\ j \in 1..((from - 1) + m) /\ j \in 1..((from - 1) + m + (n - to))
        /\ j <= (from - 1) + m /\ ~(j <= from - 1) /\ j - (from - 1) = c
    BY <1>1, <2>1
  <2>3. (ab \o b)[j] = ab[j]
    BY <1>9, <2>2, Zenon
  <2>4. ab[j] = with[c]
    BY <1>7, <2>2, Zenon
  <2>5. QED
    BY <2>1, <2>3, <2>4
<1>13. ASSUME NEW c \in (to + 1)..n PROVE (ab \o b)[from - 1 + m + (c - to)] = value[c]
  <2>1. /\ from - 1 + m + (c - to) \in 1..((from - 1) + m + (n - to))
        /\ ~(from - 1 + m + (c - to) <= from - 1 + m) /\ c - to \in 1..(n - to)
        /\ (from - 1 + m + (c - to)) - ((from - 1) + m) = c - to /\ to + (c - to) = c
    BY <1>1
  <2>2. QED
    BY <1>5, <1>9, <2>1
<1>14. QED
  BY <1>1, <1>2, <1>8, <1>9, <1>10, <1>11, <1>12, <1>13 DEF Value

\* The line of a fix, and its cells there.
Row(f) == f.start \div Width
FirstOf(f) == f.start % Width
LastIn(f) == (f.end - 1) % Width
MendedItem(item, f) == [item EXCEPT !.value = Mended(@, FirstOf(f), LastIn(f), f.with)]

\* A fix changes one line, and leaves it a line of the text.
LEMMA SpliceFacts ==
  ASSUME job \in Jobs, NEW lines, IsText(lines), NEW f \in Placed
  PROVE  /\ IsText(Splice(lines, f))
         /\ \A k \in 1..Len(lines) : k # Row(f) /\ Row(f) \in 1..Len(lines) =>
              Splice(lines, f)[k] = lines[k]
         /\ Row(f) \in 1..Len(lines) /\ LastIn(f) <= Len(lines[Row(f)].item.value) =>
              /\ lines[Row(f)].item \in Items
              /\ Splice(lines, f)[Row(f)]
                   = [lines[Row(f)] EXCEPT !.item = MendedItem(@, f)]
<1>1. PICK n \in Nat : n = Len(lines) /\ lines \in [1..n -> AnyLine]
  <2>1. lines \in Seq(AnyLine)
    BY DEF IsText
  <2>2. QED
    BY <2>1, LenProperties
<1>2. PICK row \in Nat \ {0}, from \in Nat \ {0}, to \in Nat :
        row = Row(f) /\ from = FirstOf(f) /\ to = LastIn(f) /\ from <= to
  <2>1. f.start \in Nat /\ f.end \in Nat /\ f.start < f.end /\ Row(f) >= 1 /\ FirstOf(f) >= 1
        /\ FirstOf(f) <= LastIn(f)
    BY DEF Placed, Row, FirstOf, LastIn
  <2>2. Width \in Nat \ {0}
    BY WidthAssumption
  <2>3. Row(f) \in Int /\ FirstOf(f) \in Int /\ LastIn(f) \in Int
    BY <2>1, <2>2 DEF Row, FirstOf, LastIn
  <2>4. QED
    BY <2>1, <2>3
<1>3. f.with \in Value \ {<<>>}
  BY DEF Placed
<1> DEFINE i == IF row > n THEN n ELSE row
           value == lines[i].item.value
           fits == row = i /\ to <= Len(value)
           item == IF fits THEN [lines[i].item EXCEPT !.value = Mended(value, from, to, f.with)]
                   ELSE Spoilt
           line == [lines[i] EXCEPT !.item = item]
<1>4. Splice(lines, f) = [lines EXCEPT ![i].item = item]
  BY <1>1, <1>2 DEF Splice, Row, FirstOf, LastIn, Mended, Spoilt
<1>5. Splice(lines, f) = [k \in 1..n |-> IF k = i THEN line ELSE lines[k]]
  <2>1. [lines EXCEPT ![i].item = item] = [k \in 1..n |-> IF k = i THEN line ELSE lines[k]]
    <3> HIDE DEF item, i
    <3>1. QED
      BY <1>1
  <2>2. QED
    BY <1>4, <2>1
<1>6. ASSUME i \in 1..n
      PROVE  /\ line \in AnyLine
             /\ item = Spoilt \/ (/\ item.kind = lines[i].item.kind
                                  /\ item.kind = "entry" => item.place = lines[i].item.place)
             /\ fits => lines[i].item \in Items
  <2>1. lines[i] \in AnyLine
    BY <1>1, <1>6
  <2>2. lines[i].item \in Items \cup {Spoilt} /\ lines[i].dir \in Dirs
    BY <2>1 DEF AnyLine
  <2>3. CASE fits
    <3>1. value \in Value
      <4>1. Spoilt.value = <<>> /\ <<>> \in Value
        BY EmptySeq DEF Spoilt, Value
      <4>2. QED
        BY <2>2, <4>1, ItemFacts
    <3>2. to <= Len(value)
      BY <2>3
    <3>3. PICK v \in Value : v = value
      BY <3>1
    <3>4. v # <<>> /\ Mended(v, from, to, f.with) \in Value \ {<<>>}
      <4> HIDE DEF value
      <4>1. QED
        BY <1>2, <1>3, <3>2, <3>3, MendedType
    <3>5. PICK w \in Value \ {<<>>} : w = Mended(v, from, to, f.with)
      BY <3>4
    <3>6. lines[i].item \in Items
      BY <2>2, <3>3, <3>4 DEF Spoilt
    <3>7. PICK old \in Items : old = lines[i].item /\ old.value # <<>>
      BY <3>3, <3>4, <3>6
    <3>8. item = [old EXCEPT !.value = w]
      <4> HIDE DEF i
      <4>1. QED
        BY <2>3, <3>3, <3>5, <3>7
    <3>9. item \in Items /\ item.kind = old.kind /\ (old.kind = "entry" => item.place = old.place)
      <4> HIDE DEF item
      <4>1. QED
        BY <3>7, <3>8, ItemWith
    <3>10. line \in AnyLine
      <4> HIDE DEF item, i
      <4>1. QED
        BY <2>1, <3>9 DEF AnyLine
    <3> HIDE DEF item, i
    <3>11. QED
      BY <3>7, <3>9, <3>10
  <2>4. CASE ~fits
    <3>1. item = Spoilt
      BY <2>4
    <3>2. line \in AnyLine
      <4> HIDE DEF item, i
      <4>1. QED
        BY <2>1, <3>1 DEF AnyLine
    <3>3. QED
      BY <2>4, <3>1, <3>2
  <2>5. QED
    BY <2>3, <2>4
<1>7. \A k \in 1..n : Splice(lines, f)[k] = IF k = i THEN line ELSE lines[k]
  <2> HIDE DEF line, i
  <2>1. QED
    BY <1>5
<1>8. Splice(lines, f) \in [1..n -> AnyLine]
  <2> HIDE DEF line, i, fits
  <2>1. QED
    BY <1>1, <1>5, <1>6
<1>9. Splice(lines, f) \in Seq(AnyLine) /\ Len(Splice(lines, f)) = n
  BY <1>8, FunctionIsSeq
<1>10. Suited(Splice(lines, f))
  <2> SUFFICES ASSUME job.type \in {"css", "ts"}, NEW a \in Range(job.areas), NEW k \in a.first..a.last
               PROVE  Splice(lines, f)[k].item = Spoilt
                      \/ Suits(Splice(lines, f)[k].item, job.type, a.kind)
    BY DEF Suited
  <2>1. lines[k].item = Spoilt \/ Suits(lines[k].item, job.type, a.kind)
    BY DEF IsText, Suited
  <2>2. k \in 1..n
    <3>1. job.areas \in Seq(Area) /\ job.lines \in Seq(Line) /\ a.last <= Len(job.lines)
      BY JobsAssumption
    <3>2. a \in Area
      BY <3>1, LenProperties, ElementOfSeq DEF Range
    <3>3. a.first \in Nat \ {0} /\ a.last \in Nat /\ Len(job.lines) = n
      BY <1>1, <3>2 DEF Area, IsText
    <3>4. QED
      BY <3>1, <3>3
  <2>3. CASE k # i
    <3>1. Splice(lines, f)[k] = lines[k]
      <4> HIDE DEF line, i
      <4>1. QED
        BY <1>7, <2>2, <2>3
    <3>2. QED
      BY <2>1, <3>1
  <2>4. CASE k = i
    <3>1. Splice(lines, f)[k].item = item
      <4>1. lines[i] \in AnyLine /\ Splice(lines, f)[k] = line
        <5> HIDE DEF line, i
        <5>1. QED
          BY <1>1, <1>7, <2>2, <2>4
      <4> HIDE DEF item, i
      <4>2. QED
        BY <4>1 DEF AnyLine
    <3>2. item = Spoilt \/ (/\ item.kind = lines[i].item.kind
                            /\ item.kind = "entry" => item.place = lines[i].item.place)
      <4> HIDE DEF item, i, line, fits
      <4>1. QED
        BY <1>6, <2>2, <2>4
    <3>3. lines[i].item = Spoilt => item = Spoilt
      <4>1. lines[i].item = Spoilt => ~fits
        <5>1. Spoilt.value = <<>> /\ Len(<<>>) = 0 /\ ~(to <= 0)
          BY <1>2 DEF Spoilt
        <5>2. QED
          BY <5>1
      <4>2. QED
        BY <4>1
    <3>4. Suits(lines[i].item, job.type, a.kind) => item = Spoilt \/ Suits(item, job.type, a.kind)
      <4> HIDE DEF item, i
      <4>1. QED
        BY <3>2 DEF Suits
    <3> HIDE DEF item, i
    <3>5. QED
      BY <2>1, <2>4, <3>1, <3>3, <3>4
  <2>5. QED
    BY <2>3, <2>4
<1>11. IsText(Splice(lines, f))
  BY <1>1, <1>9, <1>10 DEF IsText
<1>12. ASSUME Row(f) \in 1..Len(lines) PROVE i = Row(f) /\ row = i
  BY <1>1, <1>2, <1>12
<1>13. ASSUME NEW k \in 1..Len(lines), k # Row(f), Row(f) \in 1..Len(lines)
       PROVE  Splice(lines, f)[k] = lines[k]
  <2> HIDE DEF line, i
  <2>1. QED
    BY <1>1, <1>7, <1>12, <1>13
<1>14. ASSUME Row(f) \in 1..Len(lines), LastIn(f) <= Len(lines[Row(f)].item.value)
       PROVE  /\ lines[Row(f)].item \in Items
              /\ Splice(lines, f)[Row(f)] = [lines[Row(f)] EXCEPT !.item = MendedItem(@, f)]
  <2>1. i = Row(f) /\ row = i /\ fits
    BY <1>2, <1>12, <1>14
  <2>2. Splice(lines, f)[i] = line /\ lines[i].item \in Items
    <3> HIDE DEF line, i, fits
    <3>1. QED
      BY <1>1, <1>6, <1>7, <1>14, <2>1
  <2>3. item = MendedItem(lines[i].item, f)
    BY <1>2, <2>1 DEF MendedItem
  <2> HIDE DEF item, i
  <2>4. QED
    BY <2>1, <2>2, <2>3
<1>15. QED
  BY <1>11, <1>13, <1>14

Texts == {lines \in Seq(AnyLine) : IsText(lines)}

\* The fixes are applied one by one, from the last.
LEMMA AppliedBySteps ==
  ASSUME job \in Jobs, NEW lines \in Texts, NEW fs \in Seq(Placed)
  PROVE  \E f \in [0..Len(fs) -> Texts] :
           /\ f[0] = lines
           /\ \A k \in 1..Len(fs) : f[k] = Splice(f[k - 1], fs[Len(fs) + 1 - k])
           /\ Applied(lines, fs) = f[Len(fs)]
<1>1. PICK n \in Nat : n = Len(fs) /\ DOMAIN fs = 1..n /\ \A k \in 1..n : fs[k] \in Placed
  BY LenProperties, ElementOfSeq
<1> DEFINE step == [p \in (1..n) \X Texts |-> Splice(p[2], fs[n + 1 - p[1]])]
           body(g, k) == IF k = 0 THEN lines ELSE Splice(g[k - 1], fs[n + 1 - k])
           IsWalk(g) == g = [k \in 0..n |-> body(g, k)]
           applied == CHOOSE g : IsWalk(g)
<1>2. \A k \in 1..n, s \in Texts : /\ step[<<k, s>>] = Splice(s, fs[n + 1 - k])
                                   /\ step[<<k, s>>] \in Texts
  <2>1. ASSUME NEW k \in 1..n, NEW s \in Texts
        PROVE  Splice(s, fs[n + 1 - k]) \in Texts
    <3>1. n + 1 - k \in 1..n
      OBVIOUS
    <3>2. fs[n + 1 - k] \in Placed /\ IsText(s)
      BY <1>1, <3>1 DEF Texts
    <3>3. IsText(Splice(s, fs[n + 1 - k]))
      BY <3>2, SpliceFacts
    <3>4. QED
      BY <3>3 DEF IsText, Texts
  <2>2. QED
    BY <2>1
<1>3. PICK f \in Paths(Texts, lines, n, step) : TRUE
  <2>1. Paths(Texts, lines, n, step) # {}
    <3> HIDE DEF step
    <3>1. QED
      BY <1>2, Iterate
  <2>2. QED
    BY <2>1
<1>4. f \in [0..n -> Texts] /\ f[0] = lines /\ \A k \in 1..n : f[k] = step[<<k, f[k - 1]>>]
  BY <1>3 DEF Paths
<1>5. ASSUME NEW k \in 1..n
      PROVE  f[k] = Splice(f[k - 1], fs[n + 1 - k])
  <2>1. k - 1 \in 0..n
    OBVIOUS
  <2>2. f[k - 1] \in Texts
    BY <1>4, <2>1
  <2> HIDE DEF step
  <2>3. QED
    BY <1>2, <1>4, <2>2
<1>6. IsWalk(f)
  <2>1. ASSUME NEW k \in 0..n PROVE f[k] = body(f, k)
    <3>1. CASE k = 0
      BY <1>4, <3>1
    <3>2. CASE k # 0
      <4>1. k \in 1..n
        BY <3>2
      <4>2. QED
        BY <1>5, <3>2, <4>1
    <3>3. QED
      BY <3>1, <3>2
  <2> HIDE DEF body
  <2>2. QED
    BY <1>4, <2>1
<1>7. IsWalk(applied)
  <2> HIDE DEF IsWalk
  <2>1. QED
    BY <1>6
<1>8. Applied(lines, fs) = applied[n]
  BY <1>1 DEF Applied
<1> DEFINE G == {k \in 0..n : applied[k] = f[k]}
<1>9. \A k \in 0..n : k \in G
  <2>1. \A k \in 0..n : applied[k] = body(applied, k)
    <3> HIDE DEF applied, body
    <3>1. QED
      BY <1>7
  <2>2. 0 \in G
    <3>1. applied[0] = lines
      <4>1. 0 \in 0..n /\ body(applied, 0) = lines
        OBVIOUS
      <4> HIDE DEF applied, body
      <4>2. QED
        BY <2>1, <4>1
    <3> HIDE DEF applied
    <3>2. QED
      BY <1>4, <3>1
  <2>3. ASSUME NEW k \in 0..(n - 1), k \in G PROVE k + 1 \in G
    <3>1. k + 1 \in 1..n /\ (k + 1) - 1 = k /\ k + 1 \in 0..n /\ k + 1 # 0
      OBVIOUS
    <3>2. applied[k + 1] = body(applied, k + 1) /\ applied[k] = f[k]
      <4> HIDE DEF applied, body
      <4>1. QED
        BY <2>1, <2>3, <3>1
    <3>3. body(applied, k + 1) = Splice(applied[(k + 1) - 1], fs[n + 1 - (k + 1)])
      BY <3>1
    <3> HIDE DEF applied, body
    <3>4. QED
      BY <1>5, <3>1, <3>2, <3>3
  <2> HIDE DEF G
  <2>4. QED
    BY <2>2, <2>3, Climb
<1>10. n \in 0..n /\ n \in G
  <2> HIDE DEF G
  <2>1. QED
    BY <1>9
<1> HIDE DEF applied, step
<1>11. QED
  BY <1>1, <1>4, <1>5, <1>8, <1>10

\* The fixes on offer.
LEMMA OfferedFacts ==
  ASSUME messages \in Seq(Msg)
  PROVE  /\ Offered \in Seq(Placed)
         /\ \A g : g \in Range(Offered) <=> \E m \in Range(messages) : m.fix = <<g>>
<1>1. PICK n \in Nat : n = Len(messages) /\ DOMAIN messages = 1..n /\ \A k \in 1..n : messages[k] \in Msg
  BY LenProperties, ElementOfSeq
<1> DEFINE ss == [k \in 1..n |-> messages[k].fix]
<1>2. \A k \in 1..n : messages[k].fix = <<>> \/ \E g \in Placed : messages[k].fix = <<g>>
  BY <1>1 DEF Msg, NoFix
<1>3. ASSUME NEW k \in 1..n
      PROVE  /\ messages[k].fix \in Seq(Placed)
             /\ \A g : g \in Range(messages[k].fix) <=> messages[k].fix = <<g>>
  <2>1. CASE messages[k].fix = <<>>
    <3>1. <<>> \in Seq(Placed) /\ Range(<<>>) = {}
      BY EmptySeq DEF Range
    <3>2. \A g : <<>> # <<g>>
      OBVIOUS
    <3>3. QED
      BY <2>1, <3>1, <3>2
  <2>2. CASE messages[k].fix # <<>>
    <3>1. PICK h \in Placed : messages[k].fix = <<h>>
      BY <1>2, <2>2
    <3>2. <<h>> \in Seq(Placed) /\ DOMAIN <<h>> = {1} /\ <<h>>[1] = h
      OBVIOUS
    <3>3. Range(<<h>>) = {h}
      BY <3>2 DEF Range
    <3>4. \A g : <<h>> = <<g>> <=> g = h
      OBVIOUS
    <3>5. QED
      BY <3>1, <3>2, <3>3, <3>4
  <2>3. QED
    BY <2>1, <2>2
<1>4. ss \in [1..n -> Seq(Placed)]
  BY <1>3
<1>5. Offered = FlattenSeq(ss)
  BY <1>1 DEF Offered, Each
<1>6. ss \in Seq(Seq(Placed)) /\ Len(ss) = n /\ FlattenSeq(ss) \in Seq(Placed)
  <2> HIDE DEF ss
  <2>1. QED
    BY <1>4, PiecesType
<1>7. \A k \in 1..n : ss[k] = messages[k].fix
  OBVIOUS
<1> HIDE DEF ss
<1>8. ASSUME NEW g PROVE g \in Range(FlattenSeq(ss)) <=> \E m \in Range(messages) : m.fix = <<g>>
  <2>1. g \in Range(FlattenSeq(ss)) <=> \E k \in 1..n : g \in Range(ss[k])
    BY <1>6, FlatHas
  <2>2. \A k \in 1..n : g \in Range(ss[k]) <=> messages[k].fix = <<g>>
    BY <1>3, <1>7
  <2>3. (\E m \in Range(messages) : m.fix = <<g>>) <=> \E k \in 1..n : messages[k].fix = <<g>>
    BY <1>1 DEF Range
  <2>4. QED
    BY <2>1, <2>2, <2>3
<1>9. QED
  BY <1>5, <1>6, <1>8

\* The fixed text is a text, and has lines as before unless it is spoiled.
LEMMA FixedType ==
  ASSUME job \in Jobs, IsText(text), messages \in Seq(Msg)
  PROVE  /\ IsText(Fixed)
         /\ ~Spoiled(Fixed) => Fixed \in Seq(Line)
<1>1. InOrder \in Seq(Placed) /\ Ordered(InOrder, ByStart)
  BY OfferedFacts, InOrderFacts
<1>2. PICK fs \in Seq(Placed) : fs = Taken(InOrder)
  BY <1>1, TakenFacts
<1>3. text \in Texts
  BY DEF IsText, Texts
<1>4. Len(fs) \in Nat /\ Len(fs) \in 0..Len(fs)
  BY LenProperties
<1>5. Applied(text, fs) \in Texts
  BY <1>3, <1>4, AppliedBySteps
<1>6. Fixed \in Seq(AnyLine) /\ IsText(Fixed)
  BY <1>2, <1>5 DEF Fixed, Texts
<1>7. ASSUME ~Spoiled(Fixed) PROVE Fixed \in Seq(Line)
  <2>1. PICK n \in Nat : n = Len(Fixed) /\ DOMAIN Fixed = 1..n /\ Fixed \in [1..n -> AnyLine]
    BY <1>6, LenProperties
  <2>2. ASSUME NEW i \in 1..n PROVE Fixed[i] \in Line
    <3>1. Fixed[i].item.kind # "spoiled" /\ ~(Len(Fixed[i].item.value) >= Width)
      BY <1>7, <2>1 DEF Spoiled
    <3>2. Fixed[i] \in AnyLine
      BY <2>1
    <3>3. Fixed[i].item \in Items
      BY <3>1, <3>2 DEF AnyLine, Spoilt
    <3>4. Len(Fixed[i].item.value) < Width
      <4>1. Fixed[i].item.value \in Value
        BY <3>3, ItemFacts
      <4>2. Len(Fixed[i].item.value) \in Nat
        BY <4>1, LenProperties DEF Value
      <4>3. QED
        BY <3>1, <4>2, WidthAssumption
    <3>5. QED
      BY <3>2, <3>3, <3>4 DEF AnyLine, Line, Dirs
  <2>3. Fixed \in [1..n -> Line]
    BY <2>1, <2>2
  <2>4. QED
    BY <2>3, FunctionIsSeq
<1>8. QED
  BY <1>6, <1>7

----------------------------------------------------------------------------
(* The types of a pass.                                                    *)

\* The first element of a sequence, and those behind it.
LEMMA HeadAndTail ==
  ASSUME NEW S, NEW s \in Seq(S), s # <<>>
  PROVE  /\ Head(s) \in S /\ Tail(s) \in Seq(S)
         /\ Range(s) = {Head(s)} \cup Range(Tail(s))
         /\ IsInjective(s) => IsInjective(Tail(s)) /\ Head(s) \notin Range(Tail(s))
<1>1. PICK n \in Nat : n = Len(s) /\ DOMAIN s = 1..n /\ n # 0 /\ \A k \in 1..n : s[k] \in S
  BY LenProperties, ElementOfSeq, EmptySeq
<1>2. Head(s) = s[1] /\ Tail(s) \in Seq(S) /\ Len(Tail(s)) = n - 1
      /\ \A k \in 1..(n - 1) : Tail(s)[k] = s[k + 1]
  BY <1>1, HeadTailProperties
<1>3. DOMAIN Tail(s) = 1..(n - 1)
  BY <1>2, LenProperties
<1>4. Range(s) = {Head(s)} \cup Range(Tail(s))
  <2>1. ASSUME NEW k \in 1..n PROVE s[k] \in {Head(s)} \cup Range(Tail(s))
    <3>1. CASE k = 1
      BY <1>2, <3>1
    <3>2. CASE k # 1
      <4>1. k - 1 \in 1..(n - 1) /\ (k - 1) + 1 = k
        BY <3>2
      <4>2. QED
        BY <1>2, <1>3, <4>1 DEF Range
    <3>3. QED
      BY <3>1, <3>2
  <2>2. ASSUME NEW k \in 1..(n - 1) PROVE Tail(s)[k] \in Range(s)
    <3>1. k + 1 \in 1..n
      BY <1>1
    <3>2. QED
      BY <1>1, <1>2, <3>1 DEF Range
  <2>3. Head(s) \in Range(s)
    <3>1. 1 \in 1..n
      BY <1>1
    <3>2. QED
      BY <1>1, <1>2, <3>1 DEF Range
  <2>4. QED
    BY <1>1, <1>3, <2>1, <2>2, <2>3 DEF Range
<1>5. ASSUME IsInjective(s) PROVE IsInjective(Tail(s)) /\ Head(s) \notin Range(Tail(s))
  <2>1. \A a, b \in 1..n : s[a] = s[b] => a = b
    BY <1>1, <1>5 DEF IsInjective
  <2>2. ASSUME NEW a \in 1..(n - 1), NEW b \in 1..(n - 1), Tail(s)[a] = Tail(s)[b] PROVE a = b
    <3>1. a + 1 \in 1..n /\ b + 1 \in 1..n
      BY <1>1
    <3>2. a + 1 = b + 1
      BY <1>2, <2>1, <2>2, <3>1
    <3>3. QED
      BY <3>2
  <2>3. ASSUME NEW a \in 1..(n - 1) PROVE Tail(s)[a] # Head(s)
    <3>1. a + 1 \in 1..n /\ 1 \in 1..n /\ a + 1 # 1
      BY <1>1
    <3>2. QED
      BY <1>2, <2>1, <3>1
  <2>4. QED
    BY <1>3, <2>2, <2>3 DEF IsInjective, Range
<1>6. 1 \in 1..n
  BY <1>1
<1>7. QED
  BY <1>1, <1>2, <1>4, <1>5, <1>6

\* A sequence with one more element.
LEMMA AppendHas ==
  ASSUME NEW S, NEW s \in Seq(S), NEW x \in S
  PROVE  /\ Append(s, x) \in Seq(S)
         /\ Range(Append(s, x)) = Range(s) \cup {x}
         /\ IsInjective(s) /\ x \notin Range(s) => IsInjective(Append(s, x))
<1>1. PICK n \in Nat : n = Len(s) /\ DOMAIN s = 1..n
  BY LenProperties
<1>2. /\ Append(s, x) \in Seq(S) /\ Len(Append(s, x)) = n + 1 /\ Append(s, x)[n + 1] = x
      /\ \A k \in 1..n : Append(s, x)[k] = s[k]
  BY <1>1, AppendProperties
<1>3. DOMAIN Append(s, x) = 1..(n + 1)
  BY <1>2, LenProperties
<1>4. n + 1 \in 1..(n + 1) /\ (\A k \in 1..n : k \in 1..(n + 1))
      /\ (\A k \in 1..(n + 1) : k \in 1..n \/ k = n + 1)
  OBVIOUS
<1>5. Range(Append(s, x)) = Range(s) \cup {x}
  BY <1>1, <1>2, <1>3, <1>4 DEF Range
<1>6. ASSUME IsInjective(s), x \notin Range(s) PROVE IsInjective(Append(s, x))
  BY <1>1, <1>2, <1>3, <1>4, <1>6 DEF IsInjective, Range
<1>7. QED
  BY <1>2, <1>5, <1>6

Phases == {"create", "visit", "fix", "settled", "spoiled"}
TextInv ==
  /\ job \in Jobs /\ phase \in Phases
  /\ IsText(text)
  /\ phase # "spoiled" => text \in Seq(Line)
RulesInv ==
  /\ listeners \in Seq(STRING) /\ IsInjective(listeners)
  /\ uncreated \subseteq MayThrow /\ Range(listeners) \cap uncreated = {}
  /\ phase # "create" => Range(listeners) \cup uncreated = Range(job.rules)
  /\ phase = "create" =>
       /\ due \in Seq(STRING) /\ IsInjective(due)
       /\ Range(due) \cap (Range(listeners) \cup uncreated) = {}
       /\ Range(due) \cup Range(listeners) \cup uncreated = Range(job.rules)
MessagesInv ==
  /\ messages \in Seq(Msg)
  /\ failed \subseteq MayThrow \X {"onNode", "onCSSDeclaration"}
  /\ phase # "create" => due \in Seq(Visited)
TypeInv == TextInv /\ RulesInv /\ MessagesInv

\* What the comments leave of the messages.
Heeded == {m \in Msg : ~Suppressed(m)}
\* Filtering by the comments keeps the messages that are heeded.
LEMMA KeptAre ==
  ASSUME messages \in Seq(Msg)
  PROVE  Keep(messages, LAMBDA m : ~Suppressed(m)) = KeepIn(messages, Heeded)
<1>1. PICK n \in Nat : n = Len(messages) /\ DOMAIN messages = 1..n /\ \A k \in 1..n : messages[k] \in Msg
  BY LenProperties, ElementOfSeq
<1>2. [k \in 1..n |-> When(~Suppressed(messages[k]), messages[k])]
        = [k \in 1..n |-> When(messages[k] \in Heeded, messages[k])]
  <2>1. \A k \in 1..n : messages[k] \in Heeded <=> ~Suppressed(messages[k])
    BY <1>1 DEF Heeded
  <2>2. QED
    BY <2>1 DEF When
<1>3. QED
  BY <1>1, <1>2 DEF Keep, Each, KeepIn

\* The rules of a job.
LEMMA JobFacts ==
  ASSUME NEW j \in Jobs
  PROVE  /\ j.rules \in Seq(STRING) /\ IsInjective(j.rules)
         /\ j.lines \in Seq(Line) /\ j.lines \in Seq(AnyLine)
         /\ \A r \in Range(j.rules) : r \in STRING /\ r # "parse-error" /\ r # "runtime-error"
<1>1. j.rules \in Seq(STRING) /\ IsInjective(j.rules) /\ j.lines \in Seq(Line)
      /\ Range(j.rules) \cap {"parse-error", "runtime-error"} = {}
  BY JobsAssumption
<1>2. \A r \in Range(j.rules) : r \in STRING
  <2>1. PICK n \in Nat : n = Len(j.rules) /\ DOMAIN j.rules = 1..n /\ \A k \in 1..n : j.rules[k] \in STRING
    BY <1>1, LenProperties, ElementOfSeq
  <2>2. QED
    BY <2>1 DEF Range
<1>3. j.lines \in Seq(AnyLine)
  <2>1. PICK n \in Nat : n = Len(j.lines) /\ j.lines \in [1..n -> Line]
    BY <1>1, LenProperties
  <2>2. \A l \in Line : l \in AnyLine
    BY DEF Line, AnyLine, Dirs
  <2>3. j.lines \in [1..n -> AnyLine]
    BY <2>1, <2>2
  <2>4. QED
    BY <2>3, FunctionIsSeq
<1>4. QED
  BY <1>1, <1>2, <1>3

\* The invariant of types holds at first,
LEMMA TypeInit == Init => TypeInv
<1> SUFFICES ASSUME Init PROVE TypeInv
  OBVIOUS
<1>1. job \in Jobs /\ text = job.lines /\ phase = "create" /\ due = job.rules /\ listeners = <<>>
      /\ failed = {} /\ messages = <<>> /\ uncreated = {}
  BY DEF Init
<1>2. /\ job.rules \in Seq(STRING) /\ IsInjective(job.rules)
      /\ job.lines \in Seq(Line) /\ job.lines \in Seq(AnyLine)
  BY <1>1, JobFacts
<1>3. Suited(text)
  <2> SUFFICES ASSUME job.type \in {"css", "ts"}, NEW a \in Range(job.areas), NEW i \in a.first..a.last
               PROVE  Suits(text[i].item, job.type, a.kind)
    BY DEF Suited
  <2>1. QED
    BY <1>1, JobsAssumption
<1>4. TextInv
  BY <1>1, <1>2, <1>3 DEF TextInv, IsText, Phases
<1>5. <<>> \in Seq(STRING) /\ <<>> \in Seq(Msg) /\ Range(<<>>) = {} /\ IsInjective(<<>>)
  BY EmptySeq DEF Range, IsInjective
<1>6. RulesInv /\ MessagesInv
  BY <1>1, <1>2, <1>5 DEF RulesInv, MessagesInv
<1>7. QED
  BY <1>4, <1>6 DEF TypeInv

\* every step keeps it,
LEMMA TypeStep == TypeInv /\ [Next]_vars => TypeInv'
<1> SUFFICES ASSUME TypeInv, [Next]_vars PROVE TypeInv'
  OBVIOUS
<1> USE DEF TypeInv
<1>1. CASE Create
  <2>1. PICK r \in STRING : r = Head(due) /\ due \in Seq(STRING)
    BY <1>1, HeadAndTail DEF Create, RulesInv
  <2>2. TextInv'
    BY <1>1 DEF Create, TextInv, IsText, Suited
  <2>3. RulesInv'
    <3>1. /\ due' \in Seq(STRING) /\ Range(due) = {r} \cup Range(due') /\ IsInjective(due')
          /\ r \notin Range(due')
      BY <1>1, <2>1, HeadAndTail DEF Create, RulesInv
    <3>2. /\ listeners' \in Seq(STRING) /\ Range(listeners') = Range(listeners) \cup {r}
          /\ IsInjective(listeners')
      BY <1>1, <2>1, <3>1, AppendHas DEF Create, RulesInv
    <3>3. QED
      BY <1>1, <2>1, <3>1, <3>2 DEF Create, RulesInv
  <2>4. MessagesInv'
    <3>1. Message(r, r, 1, NoFix) \in Msg
      BY DEF Message, Msg, MsgRules
    <3>2. When(Unconfigured(r), Message(r, r, 1, NoFix)) \in Seq(Msg)
      BY <3>1, WhenType
    <3>3. messages' \in Seq(Msg)
      BY <1>1, <2>1, <3>2, ConcatProperties DEF Create, MessagesInv
    <3>4. QED
      BY <1>1, <3>3 DEF Create, MessagesInv
  <2>5. QED
    BY <2>2, <2>3, <2>4
<1>2. CASE CreateThrows
  <2>1. PICK r \in STRING : r = Head(due) /\ due \in Seq(STRING)
    BY <1>2, HeadAndTail DEF CreateThrows, RulesInv
  <2>2. TextInv'
    BY <1>2 DEF CreateThrows, TextInv, IsText, Suited
  <2>3. RulesInv'
    <3>1. /\ due' \in Seq(STRING) /\ Range(due) = {r} \cup Range(due') /\ IsInjective(due')
          /\ r \notin Range(due')
      BY <1>2, <2>1, HeadAndTail DEF CreateThrows, RulesInv
    <3>2. QED
      BY <1>2, <2>1, <3>1 DEF CreateThrows, RulesInv
  <2>4. MessagesInv'
    <3>1. RuntimeError(r, 1) \in Msg
      BY RuntimeErrorType
    <3>2. messages' \in Seq(Msg)
      BY <1>2, <2>1, <3>1, AppendHas DEF CreateThrows, MessagesInv
    <3>3. QED
      BY <1>2, <3>2 DEF CreateThrows, MessagesInv
  <2>5. QED
    BY <2>2, <2>3, <2>4
<1>3. CASE Parse
  <2>1. Visits \in Seq(Visited)
    <3>1. Readable
      BY <1>3 DEF Parse, TextInv, IsText, Readable
    <3>2. QED
      BY <3>1, VisitsType
  <2>2. due' = Visits
    BY <1>3 DEF Parse
  <2>3. TextInv'
    BY <1>3 DEF Parse, TextInv, IsText, Suited, Phases
  <2>4. RulesInv'
    <3>1. Range(due) = {}
      BY <1>3 DEF Parse, Range
    <3>2. QED
      BY <1>3, <3>1 DEF Parse, RulesInv
  <2>5. MessagesInv'
    BY <1>3, <2>1, <2>2 DEF Parse, MessagesInv
  <2>6. QED
    BY <2>3, <2>4, <2>5
<1>4. CASE Dispatch
  <2>1. PICK v \in Visited : v = Head(due) /\ v.hook # "error" /\ due \in Seq(Visited)
    BY <1>4, HeadAndTail DEF Dispatch, MessagesInv
  <2>2. PICK throwing \in SUBSET {r \in Range(listeners) \cap MayThrow :
                                    <<r, Head(due).hook>> \notin failed},
             late \in BOOLEAN :
          /\ messages' = messages \o Dispatched(Head(due), throwing, late)
          /\ failed' = failed \cup {<<r, Head(due).hook>> : r \in throwing}
    BY <1>4 DEF Dispatch
  <2>3. TextInv'
    BY <1>4 DEF Dispatch, TextInv, IsText, Suited
  <2>4. RulesInv'
    BY <1>4 DEF Dispatch, RulesInv
  <2>5. MessagesInv'
    <3>1. messages' \in Seq(Msg)
      <4>1. Dispatched(v, throwing, late) \in Seq(Msg)
        BY <2>1, DispatchedType DEF RulesInv
      <4>2. QED
        BY <2>1, <2>2, <4>1, ConcatProperties DEF MessagesInv
    <3>2. Head(due).hook \in {"onNode", "onCSSDeclaration"}
      BY <2>1 DEF Visited
    <3>3. failed' \subseteq MayThrow \X {"onNode", "onCSSDeclaration"}
      BY <2>2, <3>2 DEF MessagesInv
    <3>4. due' \in Seq(Visited)
      BY <1>4, <2>1, HeadAndTail DEF Dispatch
    <3>5. QED
      BY <3>1, <3>3, <3>4 DEF MessagesInv
  <2>6. QED
    BY <2>3, <2>4, <2>5
<1>5. CASE PushParseError
  <2>1. PICK v \in Visited : v = Head(due) /\ due \in Seq(Visited)
    BY <1>5, HeadAndTail DEF PushParseError, MessagesInv
  <2>2. TextInv'
    BY <1>5 DEF PushParseError, TextInv, IsText, Suited
  <2>3. RulesInv'
    BY <1>5 DEF PushParseError, RulesInv
  <2>4. MessagesInv'
    <3>1. Message("parse-error", "parser", v.line, NoFix) \in Msg
      BY DEF Message, Msg, MsgRules, Visited
    <3>2. messages' \in Seq(Msg)
      BY <1>5, <2>1, <3>1, AppendHas DEF PushParseError, MessagesInv
    <3>3. due' \in Seq(Visited)
      BY <1>5, <2>1, HeadAndTail DEF PushParseError
    <3>4. QED
      BY <1>5, <3>2, <3>3 DEF PushParseError, MessagesInv
  <2>5. QED
    BY <2>2, <2>3, <2>4
<1>6. CASE Filter
  <2>1. messages' \in Seq(Msg)
    BY <1>6, KeptAre, KeepFacts DEF Filter, MessagesInv
  <2>2. TextInv'
    BY <1>6 DEF Filter, TextInv, IsText, Suited, Phases
  <2>3. RulesInv'
    BY <1>6 DEF Filter, RulesInv
  <2>4. MessagesInv'
    BY <1>6, <2>1 DEF Filter, MessagesInv
  <2>5. QED
    BY <2>2, <2>3, <2>4
<1>7. CASE Fix
  <2>1. text' = Fixed /\ job' = job
    BY <1>7 DEF Fix
  <2>2. IsText(Fixed) /\ (~Spoiled(Fixed) => Fixed \in Seq(Line))
    BY FixedType DEF TextInv, MessagesInv
  <2>3. CASE Spoiled(Fixed)
    <3>1. phase' = "spoiled" /\ UNCHANGED <<listeners, due, seen, failed, messages,
                                            references, uncreated, passes>>
      BY <1>7, <2>3 DEF Fix
    <3>2. TextInv'
      BY <2>1, <2>2, <3>1 DEF TextInv, IsText, Suited, Phases
    <3>3. RulesInv' /\ MessagesInv'
      BY <1>7, <2>1, <3>1 DEF Fix, RulesInv, MessagesInv
    <3>4. QED
      BY <3>2, <3>3
  <2>4. CASE ~Spoiled(Fixed)
    <3>1. /\ phase' = "create" /\ due' = job.rules /\ listeners' = <<>> /\ failed' = {}
          /\ messages' = <<>> /\ uncreated' = {}
      BY <1>7, <2>1, <2>4 DEF Fix, Begin
    <3>2. TextInv'
      BY <2>1, <2>2, <2>4, <3>1 DEF TextInv, IsText, Suited, Phases
    <3>3. <<>> \in Seq(STRING) /\ <<>> \in Seq(Msg) /\ Range(<<>>) = {} /\ IsInjective(<<>>)
      BY EmptySeq DEF Range, IsInjective
    <3>4. job.rules \in Seq(STRING) /\ IsInjective(job.rules)
      BY JobFacts DEF TextInv
    <3>5. RulesInv' /\ MessagesInv'
      BY <2>1, <3>1, <3>3, <3>4 DEF RulesInv, MessagesInv
    <3>6. QED
      BY <3>2, <3>5
  <2>5. QED
    BY <2>3, <2>4
<1>8. CASE Settle
  BY <1>8 DEF Settle, TextInv, IsText, Suited, Phases, RulesInv, MessagesInv
<1>9. CASE UNCHANGED vars
  BY <1>9 DEF vars, TextInv, IsText, Suited, RulesInv, MessagesInv
<1>10. QED
  BY <1>1, <1>2, <1>3, <1>4, <1>5, <1>6, <1>7, <1>8, <1>9 DEF Next

\* and so it holds always.
LEMMA TypeAlways == Spec => []TypeInv
BY TypeInit, TypeStep, PTL DEF Spec

\* TypeOK: the rules with a listener are rules that were created, what is
\* reported has a line, and what is to be replaced has an extent behind the
\* first column.
THEOREM LintTypes == Spec => []TypeOK
<1>1. TypeInv => TypeOK
  <2> SUFFICES ASSUME TypeInv PROVE TypeOK
    OBVIOUS
  <2>1. job \in Jobs /\ Len(text) = Len(job.lines) /\ phase \in Phases
    BY DEF TypeInv, TextInv, IsText
  <2>2. Range(listeners) \subseteq Range(job.rules) \ uncreated
    BY DEF TypeInv, RulesInv, TextInv, Phases
  <2>3. \A k \in DOMAIN messages : messages[k].line \in Nat
    <3>1. messages \in Seq(Msg)
      BY DEF TypeInv, MessagesInv
    <3>2. PICK n \in Nat : DOMAIN messages = 1..n /\ \A k \in 1..n : messages[k] \in Msg
      BY <3>1, LenProperties, ElementOfSeq
    <3>3. \A m \in Msg : m.line \in Nat
      BY DEF Msg
    <3>4. QED
      BY <3>2, <3>3
  <2>4. \A m \in Range(Offered) : m.start < m.end /\ m.start % Width # 0
    <3>1. Offered \in Seq(Placed)
      BY OfferedFacts DEF TypeInv, MessagesInv
    <3>2. \A m \in Range(Offered) : m \in Placed
      BY <3>1, LenProperties, ElementOfSeq DEF Range
    <3>3. \A m \in Placed : m.start < m.end /\ m.start % Width # 0
      BY WidthAssumption DEF Placed
    <3>4. QED
      BY <3>2, <3>3
  <2>5. QED
    BY <2>1, <2>2, <2>3, <2>4 DEF TypeOK, TypeInv, RulesInv, MessagesInv, Phases
<1>2. QED
  BY <1>1, TypeAlways, PTL

----------------------------------------------------------------------------
(* The visits of a style sheet and of a module, line by line.              *)

AtLines(a, op) ==
  \A i \in a.first..a.last : op[i] \in Seq(Visited) /\ \A v \in Range(op[i]) : v.line = i
OnlyAt(g, i) == \A v \in Visited : v.line # i => g[v] = 0

\* The pieces that the visits of an area are put together from.
LEMMA AlongPieces ==
  ASSUME NEW a \in Area, NEW op, AtLines(a, op)
  PROVE  \E ss \in Seq(Seq(Visited)) :
           /\ Along(a, op) = FlattenSeq(ss)
           /\ Len(ss) = a.last - a.first + 1
           /\ \A k \in 1..Len(ss) : a.first + k - 1 \in a.first..a.last /\ ss[k] = op[a.first + k - 1]
           /\ \A i \in a.first..a.last : i - a.first + 1 \in 1..Len(ss) /\ ss[i - a.first + 1] = op[i]
<1>1. PICK n \in Nat : n = a.last - a.first + 1
  BY DEF Area
<1> DEFINE ss == [k \in 1..n |-> op[a.first + k - 1]]
<1>2. \A k \in 1..n : a.first + k - 1 \in a.first..a.last
  BY <1>1 DEF Area
<1>3. ss \in [1..n -> Seq(Visited)]
  BY <1>2 DEF AtLines
<1>4. ss \in Seq(Seq(Visited)) /\ Len(ss) = n
  <2> HIDE DEF ss
  <2>1. QED
    BY <1>3, PiecesType
<1>5. \A i \in a.first..a.last : i - a.first + 1 \in 1..n /\ a.first + (i - a.first + 1) - 1 = i
  BY <1>1 DEF Area
<1>6. \A k \in 1..n : ss[k] = op[a.first + k - 1]
  OBVIOUS
<1>7. Along(a, op) = FlattenSeq(ss)
  BY <1>1 DEF Along
<1> HIDE DEF ss
<1>8. \A i \in a.first..a.last : ss[i - a.first + 1] = op[i]
  <2>1. ASSUME NEW i \in a.first..a.last PROVE ss[i - a.first + 1] = op[i]
    <3>1. PICK k \in 1..n : k = i - a.first + 1 /\ a.first + k - 1 = i
      BY <1>5
    <3>2. QED
      BY <1>6, <3>1
  <2>2. QED
    BY <2>1
<1>9. QED
  BY <1>1, <1>2, <1>4, <1>5, <1>6, <1>7, <1>8

\* What the lines of an area have is what the area has.
LEMMA AlongHas ==
  ASSUME NEW a \in Area, NEW op, AtLines(a, op), NEW v
  PROVE  /\ Along(a, op) \in Seq(Visited)
         /\ v \in Range(Along(a, op)) <=> \E i \in a.first..a.last : v \in Range(op[i])
<1>1. PICK ss \in Seq(Seq(Visited)) :
        /\ Along(a, op) = FlattenSeq(ss)
        /\ \A k \in 1..Len(ss) : a.first + k - 1 \in a.first..a.last /\ ss[k] = op[a.first + k - 1]
        /\ \A i \in a.first..a.last : i - a.first + 1 \in 1..Len(ss) /\ ss[i - a.first + 1] = op[i]
  BY AlongPieces
<1>2. v \in Range(FlattenSeq(ss)) <=> \E k \in 1..Len(ss) : v \in Range(ss[k])
  BY FlatHas
<1>3. FlattenSeq(ss) \in Seq(Visited)
  BY FlatType
<1>4. QED
  BY <1>1, <1>2, <1>3

\* An area counts for a line what that line counts.
LEMMA AlongTotal ==
  ASSUME NEW a \in Area, NEW op, AtLines(a, op), NEW g \in [Visited -> Nat], NEW i, OnlyAt(g, i)
  PROVE  Total(Along(a, op), g) = IF i \in a.first..a.last THEN Total(op[i], g) ELSE 0
<1>1. PICK ss \in Seq(Seq(Visited)) :
        /\ Along(a, op) = FlattenSeq(ss)
        /\ \A k \in 1..Len(ss) : a.first + k - 1 \in a.first..a.last /\ ss[k] = op[a.first + k - 1]
        /\ \A j \in a.first..a.last : j - a.first + 1 \in 1..Len(ss) /\ ss[j - a.first + 1] = op[j]
  BY AlongPieces
<1> DEFINE sum == [t \in Seq(Visited) |-> Total(t, g)]
<1>2. sum \in [Seq(Visited) -> Nat] /\ Total(FlattenSeq(ss), g) = Total(ss, sum)
  BY TotalFlat
<1>3. \A k \in 1..Len(ss) : ss[k] \in Seq(Visited) /\ sum[ss[k]] = Total(ss[k], g)
  BY ElementOfSeq
<1>4. ASSUME NEW k \in 1..Len(ss), a.first + k - 1 # i PROVE sum[ss[k]] = 0
  <2>1. PICK s \in Seq(Visited) : s = ss[k]
    BY <1>3
  <2>2. \A v \in Range(s) : v.line # i
    BY <1>1, <1>4, <2>1 DEF AtLines
  <2>3. \A j \in 1..Len(s) : s[j] \in Visited /\ s[j] \in Range(s)
    BY LenProperties, ElementOfSeq DEF Range
  <2>4. \A j \in 1..Len(s) : g[s[j]] = 0
    BY <2>2, <2>3 DEF OnlyAt
  <2>5. QED
    BY <1>3, <2>1, <2>4, TotalZero
<1> HIDE DEF sum
<1>5. PICK T : T = Seq(Visited)
  OBVIOUS
<1>6. ss \in Seq(T) /\ sum \in [T -> Nat]
  BY <1>2, <1>5
<1>7. CASE i \in a.first..a.last
  <2>1. PICK k \in 1..Len(ss) : k = i - a.first + 1 /\ ss[k] = op[i]
    BY <1>1, <1>7
  <2>2. \A j \in 1..Len(ss) : j # k => a.first + j - 1 # i
    BY <1>7, <2>1 DEF Area
  <2>3. \A j \in 1..Len(ss) : j # k => sum[ss[j]] = 0
    BY <1>4, <2>2
  <2>4. Total(ss, sum) = sum[ss[k]]
    BY <1>6, <2>3, TotalOnly
  <2>5. QED
    BY <1>1, <1>2, <1>3, <1>7, <2>1, <2>4
<1>8. CASE i \notin a.first..a.last
  <2>1. \A j \in 1..Len(ss) : sum[ss[j]] = 0
    BY <1>1, <1>4, <1>8
  <2>2. Total(ss, sum) = 0
    BY <1>6, <2>1, TotalZero
  <2>3. QED
    BY <1>1, <1>2, <1>8, <2>2
<1>9. QED
  BY <1>7, <1>8

\* An area is in order when its lines are, one before the other.
LEMMA AlongOrdered ==
  ASSUME NEW a \in Area, NEW op, AtLines(a, op), NEW R,
         \A i \in a.first..a.last : Ordered(op[i], R),
         \A v, w \in Visited : v.line < w.line => <<v, w>> \in R
  PROVE  Ordered(Along(a, op), R)
<1>1. PICK ss \in Seq(Seq(Visited)) :
        /\ Along(a, op) = FlattenSeq(ss)
        /\ \A k \in 1..Len(ss) : a.first + k - 1 \in a.first..a.last /\ ss[k] = op[a.first + k - 1]
  BY AlongPieces
<1>2. \A k \in 1..Len(ss) : Ordered(ss[k], R)
  BY <1>1
<1>3. ASSUME NEW j \in 1..Len(ss), NEW k \in 1..Len(ss), j < k, NEW x \in Range(ss[j]), NEW y \in Range(ss[k])
      PROVE  <<x, y>> \in R
  <2>1. ss[j] \in Seq(Visited) /\ ss[k] \in Seq(Visited)
    BY ElementOfSeq
  <2>2. x \in Visited /\ y \in Visited
    BY <2>1, LenProperties, ElementOfSeq DEF Range
  <2>3. x.line = a.first + j - 1 /\ y.line = a.first + k - 1
    BY <1>1 DEF AtLines
  <2>4. x.line < y.line
    BY <1>3, <2>3 DEF Area
  <2>5. QED
    BY <2>2, <2>4
<1>4. Ordered(FlattenSeq(ss), R)
  BY <1>2, <1>3, OrderedFlat
<1>5. QED
  BY <1>1, <1>4

\* The visits of an area of such a document, and of one line.
PartOf(a) == IF job.type = "css" THEN ParseCSS(a, 0, 0)
             ELSE IF a.kind = "object" THEN StyleObject(a) ELSE Nodes(a)
LineOf(a, i) == IF job.type = "css" THEN (IF Parses(a) THEN SheetAt(a, 0, 0)[i] ELSE <<>>)
                ELSE IF a.kind = "object"
                THEN AttributeAt(a)[i] \o LiteralAt(a)[i] \o UnconsumedAt(a)[i]
                ELSE NodeAt(a)[i]
NoError(g) == \A v \in Visited : v.hook = "error" => g[v] = 0

\* The fields of a visit.
LEMMA VisitFields ==
  ASSUME Readable, NEW i \in Lines
  PROVE  /\ Declare(i, i, i).line = i /\ Declare(i, i, 0).line = i
         /\ AsAttribute(i, i).line = i /\ Node(i, i).line = i
         /\ i - 0 = i /\ Declare(i, i - 0, i - 0) = Declare(i, i, i)
<1>1. i \in Nat
  BY ReadableFacts
<1>2. QED
  BY <1>1 DEF Declare, AsAttribute, Node, Visit

\* The visits of a line have its number.
LEMMA AreLines ==
  ASSUME Readable, NEW a \in Range(job.areas)
  PROVE  /\ AtLines(a, SheetAt(a, 0, 0)) /\ AtLines(a, AttributeAt(a)) /\ AtLines(a, LiteralAt(a))
         /\ AtLines(a, UnconsumedAt(a)) /\ AtLines(a, NodeAt(a))
<1>1. a.first..a.last \subseteq Lines /\ Lines \subseteq Nat
  BY ReadableFacts
<1> SUFFICES ASSUME NEW i \in a.first..a.last
             PROVE  /\ SheetAt(a, 0, 0)[i] \in Seq(Visited)
                    /\ AttributeAt(a)[i] \in Seq(Visited)
                    /\ LiteralAt(a)[i] \in Seq(Visited)
                    /\ UnconsumedAt(a)[i] \in Seq(Visited)
                    /\ NodeAt(a)[i] \in Seq(Visited)
                    /\ \A v \in Range(SheetAt(a, 0, 0)[i]) : v.line = i
                    /\ \A v \in Range(AttributeAt(a)[i]) : v.line = i
                    /\ \A v \in Range(LiteralAt(a)[i]) : v.line = i
                    /\ \A v \in Range(UnconsumedAt(a)[i]) : v.line = i
                    /\ \A v \in Range(NodeAt(a)[i]) : v.line = i
  BY DEF AtLines
<1>2. i \in Lines /\ i \in Nat /\ 0 \in Nat /\ i - 0 \in Nat
  BY <1>1
<1>3. /\ Declare(i, i, i).line = i /\ Declare(i, i, 0).line = i
      /\ AsAttribute(i, i).line = i /\ Node(i, i).line = i
      /\ Declare(i, i - 0, i - 0) = Declare(i, i, i)
  BY <1>2, VisitFields
<1>4. Declare(i, i, i) \in Visited /\ Declare(i, i, 0) \in Visited /\ AsAttribute(i, i) \in Visited
      /\ (Item(i).kind \in {"entry", "string", "tag", "import"} => Node(i, i) \in Visited)
  BY <1>2, VisitType
<1>5. OfAttribute(i) => Item(i).kind = "entry"
  BY DEF OfAttribute, IsEntry
<1>6. SheetAt(a, 0, 0)[i] = When(IsDecl(i), Declare(i, i, i))
  BY <1>3 DEF SheetAt
<1>7. AttributeAt(a)[i] = When(OfAttribute(i), AsAttribute(i, i))
  BY DEF AttributeAt
<1>8. LiteralAt(a)[i] = When(OfAttribute(i) /\ Literal(Item(i)), Declare(i, i, 0))
  BY DEF LiteralAt
<1>9. UnconsumedAt(a)[i] = When(OfAttribute(i) /\ ~Consumed(Item(i)), Node(i, i))
  BY DEF UnconsumedAt
<1>10. NodeAt(a)[i] = When(Item(i).kind \in {"entry", "string", "tag", "import"}, Node(i, i))
  BY DEF NodeAt
<1>11. SheetAt(a, 0, 0)[i] \in Seq(Visited) /\ \A v \in Range(SheetAt(a, 0, 0)[i]) : v.line = i
  BY <1>3, <1>4, <1>6, WhenType, WhenHas
<1>12. AttributeAt(a)[i] \in Seq(Visited) /\ \A v \in Range(AttributeAt(a)[i]) : v.line = i
  BY <1>3, <1>4, <1>7, WhenType, WhenHas
<1>13. LiteralAt(a)[i] \in Seq(Visited) /\ \A v \in Range(LiteralAt(a)[i]) : v.line = i
  BY <1>3, <1>4, <1>8, WhenType, WhenHas
<1>14. UnconsumedAt(a)[i] \in Seq(Visited) /\ \A v \in Range(UnconsumedAt(a)[i]) : v.line = i
  <2>1. OfAttribute(i) /\ ~Consumed(Item(i)) => Node(i, i) \in Visited
    BY <1>4, <1>5
  <2>2. PICK x, t : x = Node(i, i) /\ (t <=> OfAttribute(i) /\ ~Consumed(Item(i)))
    OBVIOUS
  <2>3. UnconsumedAt(a)[i] = When(t, x) /\ (t => x \in Visited) /\ x.line = i
    BY <1>3, <1>9, <2>1, <2>2 DEF When
  <2>4. QED
    BY <2>3, WhenType, WhenHas
<1>15. NodeAt(a)[i] \in Seq(Visited) /\ \A v \in Range(NodeAt(a)[i]) : v.line = i
  <2>1. PICK x, t : x = Node(i, i) /\ (t <=> Item(i).kind \in {"entry", "string", "tag", "import"})
    OBVIOUS
  <2>2. NodeAt(a)[i] = When(t, x) /\ (t => x \in Visited) /\ x.line = i
    BY <1>3, <1>4, <1>10, <2>1 DEF When
  <2>3. QED
    BY <2>2, WhenType, WhenHas
<1>16. QED
  BY <1>11, <1>12, <1>13, <1>14, <1>15

\* The visits of such a document are those of its areas.
LEMMA InPlaceVisits ==
  ASSUME Readable, InPlace
  PROVE  Visits = Across([a \in Range(job.areas) |-> PartOf(a)])
<1>1. CASE job.type = "css"
  <2>1. Visits = VisitCSS
    BY <1>1 DEF Visits
  <2>2. SheetsOf = [a \in Range(job.areas) |-> PartOf(a)]
    BY <1>1 DEF SheetsOf, PartOf
  <2>3. QED
    BY <2>1, <2>2, VisitsAre
<1>2. CASE job.type = "ts"
  <2>1. Visits = VisitTS
    BY <1>2 DEF Visits
  <2>2. \A a \in Range(job.areas) : a.kind # "literal"
    BY DEF InPlace, HasArea, Range
  <2>3. ModulesOf = [a \in Range(job.areas) |-> PartOf(a)]
    BY <1>2, <2>2 DEF ModulesOf, PartOf
  <2>4. QED
    BY <2>1, <2>3, VisitsAre
<1>3. QED
  BY <1>1, <1>2 DEF InPlace, Plain

\* An area counts for a line what that line counts.
LEMMA PartTotal ==
  ASSUME Readable, InPlace, NEW a \in Range(job.areas), NEW g \in [Visited -> Nat],
         NoError(g), NEW i, OnlyAt(g, i)
  PROVE  /\ PartOf(a) \in Seq(Visited)
         /\ Total(PartOf(a), g) = IF i \in a.first..a.last THEN Total(LineOf(a, i), g) ELSE 0
<1>1. a \in Area /\ a.first \in Nat \ {0} /\ a.last \in Nat /\ 0 \in Nat /\ 0 <= a.first
  BY ReadableFacts
<1>2. /\ AtLines(a, SheetAt(a, 0, 0)) /\ AtLines(a, AttributeAt(a)) /\ AtLines(a, LiteralAt(a))
      /\ AtLines(a, UnconsumedAt(a)) /\ AtLines(a, NodeAt(a))
  BY AreLines
<1>3. PartOf(a) \in Seq(Visited)
  BY <1>1, PartsType, ParseCSSType DEF PartOf
<1>4. CASE job.type = "css" /\ Parses(a)
  <2>1. PartOf(a) = Along(a, SheetAt(a, 0, 0)) /\ LineOf(a, i) = SheetAt(a, 0, 0)[i]
    BY <1>1, <1>4, ParseCSSIs DEF PartOf, LineOf
  <2>2. QED
    BY <1>1, <1>2, <1>3, <2>1, AlongTotal
<1>5. CASE job.type = "css" /\ ~Parses(a)
  <2>1. PICK j \in a.first..a.last : PartOf(a) = <<ParseError(j - 0)>>
    BY <1>1, <1>5, ParseCSSIs DEF PartOf
  <2>2. j - 0 \in Nat
    BY <1>1
  <2>3. ParseError(j - 0) \in Visited /\ ParseError(j - 0).hook = "error"
    BY <2>2, ParseErrorType DEF ParseError
  <2>4. Total(PartOf(a), g) = 0
    BY <2>1, <2>3, TotalOne DEF NoError
  <2>5. LineOf(a, i) = <<>> /\ Total(<<>>, g) = 0
    BY <1>5, TotalEmpty DEF LineOf
  <2>6. QED
    BY <1>3, <2>4, <2>5
<1>6. CASE job.type # "css" /\ a.kind = "object"
  <2>1. PICK x \in Seq(Visited), y \in Seq(Visited), z \in Seq(Visited) :
          x = Along(a, AttributeAt(a)) /\ y = Along(a, LiteralAt(a)) /\ z = Along(a, UnconsumedAt(a))
    BY <1>1, <1>2, AlongHas
  <2>2. PartOf(a) = x \o y \o z
    BY <1>1, <1>6, <2>1, PartsAre DEF PartOf
  <2>3. x \o y \in Seq(Visited) /\ Total(x \o y \o z, g) = Total(x, g) + Total(y, g) + Total(z, g)
    <3>1. PICK xy \in Seq(Visited) : xy = x \o y
      BY ConcatProperties
    <3>2. Total(xy, g) = Total(x, g) + Total(y, g) /\ Total(xy \o z, g) = Total(xy, g) + Total(z, g)
      BY <3>1, TotalConcat, ZenonT(30)
    <3>3. QED
      BY <3>1, <3>2
  <2>4. /\ Total(x, g) = IF i \in a.first..a.last THEN Total(AttributeAt(a)[i], g) ELSE 0
        /\ Total(y, g) = IF i \in a.first..a.last THEN Total(LiteralAt(a)[i], g) ELSE 0
        /\ Total(z, g) = IF i \in a.first..a.last THEN Total(UnconsumedAt(a)[i], g) ELSE 0
    <3>1. Total(x, g) = IF i \in a.first..a.last THEN Total(AttributeAt(a)[i], g) ELSE 0
      BY <1>1, <1>2, <2>1, AlongTotal
    <3>2. Total(y, g) = IF i \in a.first..a.last THEN Total(LiteralAt(a)[i], g) ELSE 0
      BY <1>1, <1>2, <2>1, AlongTotal
    <3>3. Total(z, g) = IF i \in a.first..a.last THEN Total(UnconsumedAt(a)[i], g) ELSE 0
      BY <1>1, <1>2, <2>1, AlongTotal
    <3>4. QED
      BY <3>1, <3>2, <3>3
  <2>5. CASE i \in a.first..a.last
    <3>1. PICK u \in Seq(Visited), v \in Seq(Visited), w \in Seq(Visited) :
            u = AttributeAt(a)[i] /\ v = LiteralAt(a)[i] /\ w = UnconsumedAt(a)[i]
      BY <1>2, <2>5 DEF AtLines
    <3>2. Total(u \o v \o w, g) = Total(u, g) + Total(v, g) + Total(w, g)
      <4>1. PICK uv \in Seq(Visited) : uv = u \o v
        BY ConcatProperties
      <4>2. Total(uv, g) = Total(u, g) + Total(v, g) /\ Total(uv \o w, g) = Total(uv, g) + Total(w, g)
        BY <4>1, TotalConcat, ZenonT(30)
      <4>3. QED
        BY <4>1, <4>2
    <3>3. LineOf(a, i) = u \o v \o w
      BY <1>6, <3>1 DEF LineOf
    <3>4. QED
      BY <1>3, <2>2, <2>3, <2>4, <2>5, <3>1, <3>2, <3>3
  <2>6. CASE i \notin a.first..a.last
    BY <1>3, <2>2, <2>3, <2>4, <2>6
  <2>7. QED
    BY <2>5, <2>6
<1>7. CASE job.type # "css" /\ a.kind # "object"
  <2>1. PartOf(a) = Along(a, NodeAt(a)) /\ LineOf(a, i) = NodeAt(a)[i]
    BY <1>1, <1>7, PartsAre DEF PartOf, LineOf
  <2>2. QED
    BY <1>1, <1>2, <1>3, <2>1, AlongTotal
<1>8. QED
  BY <1>4, <1>5, <1>6, <1>7

Nodal(i) == Item(i).kind \in {"entry", "string", "tag", "import"}

\* The visits of a line.
LEMMA LineHas ==
  ASSUME Readable, NEW a \in Range(job.areas), NEW i \in a.first..a.last, NEW v
  PROVE  v \in Range(LineOf(a, i)) <=>
           IF job.type = "css" THEN Parses(a) /\ IsDecl(i) /\ v = Declare(i, i, i)
           ELSE IF a.kind = "object"
           THEN /\ OfAttribute(i)
                /\ \/ v = AsAttribute(i, i)
                   \/ Literal(Item(i)) /\ v = Declare(i, i, 0)
                   \/ ~Consumed(Item(i)) /\ v = Node(i, i)
           ELSE Nodal(i) /\ v = Node(i, i)
<1>1. i \in Lines
  BY ReadableFacts
<1>2. Declare(i, i - 0, i - 0) = Declare(i, i, i)
  BY <1>1, VisitFields
<1>3. CASE job.type = "css"
  <2>1. v \in Range(SheetAt(a, 0, 0)[i]) <=> IsDecl(i) /\ v = Declare(i, i, i)
    BY <1>2, WhenHas DEF SheetAt
  <2>2. Range(<<>>) = {}
    BY DEF Range
  <2>3. QED
    BY <1>3, <2>1, <2>2 DEF LineOf
<1>4. CASE job.type # "css" /\ a.kind = "object"
  <2>1. PICK x \in Seq(Visited), y \in Seq(Visited), z \in Seq(Visited) :
          x = AttributeAt(a)[i] /\ y = LiteralAt(a)[i] /\ z = UnconsumedAt(a)[i]
    BY AreLines DEF AtLines
  <2>2. v \in Range(x) <=> OfAttribute(i) /\ v = AsAttribute(i, i)
    BY <2>1, WhenHas DEF AttributeAt
  <2>3. v \in Range(y) <=> (OfAttribute(i) /\ Literal(Item(i))) /\ v = Declare(i, i, 0)
    BY <2>1, WhenHas DEF LiteralAt
  <2>4. v \in Range(z) <=> (OfAttribute(i) /\ ~Consumed(Item(i))) /\ v = Node(i, i)
    BY <2>1, WhenHas DEF UnconsumedAt
  <2>5. PICK xy \in Seq(Visited) : xy = x \o y
    BY ConcatProperties
  <2>6. v \in Range(xy \o z) <=> v \in Range(x) \/ v \in Range(y) \/ v \in Range(z)
    BY <2>5, ConcatHas
  <2>7. LineOf(a, i) = xy \o z
    BY <1>4, <2>1, <2>5 DEF LineOf
  <2>8. QED
    BY <1>4, <2>2, <2>3, <2>4, <2>6, <2>7
<1>5. CASE job.type # "css" /\ a.kind # "object"
  <2>1. v \in Range(NodeAt(a)[i]) <=> Nodal(i) /\ v = Node(i, i)
    BY WhenHas DEF NodeAt, Nodal
  <2>2. QED
    BY <1>5, <2>1 DEF LineOf
<1>6. QED
  BY <1>3, <1>4, <1>5

\* What is visited in an area is visited on one of its lines, or an error.
LEMMA PartHas ==
  ASSUME Readable, InPlace, NEW a \in Range(job.areas), NEW v
  PROVE  /\ \A i \in a.first..a.last : v \in Range(LineOf(a, i)) => v \in Range(PartOf(a))
         /\ v \in Range(PartOf(a)) =>
              v.as = "error" \/ \E i \in a.first..a.last : v \in Range(LineOf(a, i))
<1>1. a \in Area /\ a.first \in Nat \ {0} /\ a.last \in Nat /\ 0 \in Nat /\ 0 <= a.first
  BY ReadableFacts
<1>2. /\ AtLines(a, SheetAt(a, 0, 0)) /\ AtLines(a, AttributeAt(a)) /\ AtLines(a, LiteralAt(a))
      /\ AtLines(a, UnconsumedAt(a)) /\ AtLines(a, NodeAt(a))
  BY AreLines
<1>3. CASE job.type = "css" /\ Parses(a)
  <2>1. PartOf(a) = Along(a, SheetAt(a, 0, 0)) /\ \A i : LineOf(a, i) = SheetAt(a, 0, 0)[i]
    BY <1>1, <1>3, ParseCSSIs DEF PartOf, LineOf
  <2>2. QED
    BY <1>1, <1>2, <2>1, AlongHas
<1>4. CASE job.type = "css" /\ ~Parses(a)
  <2>1. PICK j \in a.first..a.last : PartOf(a) = <<ParseError(j - 0)>>
    BY <1>1, <1>4, ParseCSSIs DEF PartOf
  <2>2. ParseError(j - 0).as = "error"
    BY DEF ParseError
  <2>3. Range(<<ParseError(j - 0)>>) = {ParseError(j - 0)}
    BY DEF Range
  <2>4. \A i : LineOf(a, i) = <<>>
    BY <1>4 DEF LineOf
  <2>5. Range(<<>>) = {}
    BY DEF Range
  <2>6. QED
    BY <2>1, <2>2, <2>3, <2>4, <2>5
<1>5. CASE job.type # "css" /\ a.kind = "object"
  <2>1. PICK x \in Seq(Visited), y \in Seq(Visited), z \in Seq(Visited) :
          x = Along(a, AttributeAt(a)) /\ y = Along(a, LiteralAt(a)) /\ z = Along(a, UnconsumedAt(a))
    BY <1>1, <1>2, AlongHas
  <2>2. PICK xy \in Seq(Visited) : xy = x \o y
    BY ConcatProperties
  <2>3. PartOf(a) = xy \o z
    BY <1>1, <1>5, <2>1, <2>2, PartsAre DEF PartOf
  <2>4. v \in Range(xy \o z) <=> v \in Range(x) \/ v \in Range(y) \/ v \in Range(z)
    BY <2>2, ConcatHas
  <2>5. /\ v \in Range(x) <=> \E i \in a.first..a.last : v \in Range(AttributeAt(a)[i])
        /\ v \in Range(y) <=> \E i \in a.first..a.last : v \in Range(LiteralAt(a)[i])
        /\ v \in Range(z) <=> \E i \in a.first..a.last : v \in Range(UnconsumedAt(a)[i])
    BY <1>1, <1>2, <2>1, AlongHas
  <2>6. ASSUME NEW i \in a.first..a.last
        PROVE  v \in Range(LineOf(a, i)) <=> \/ v \in Range(AttributeAt(a)[i])
                                             \/ v \in Range(LiteralAt(a)[i])
                                             \/ v \in Range(UnconsumedAt(a)[i])
    <3>1. PICK p \in Seq(Visited), q \in Seq(Visited), r \in Seq(Visited) :
            p = AttributeAt(a)[i] /\ q = LiteralAt(a)[i] /\ r = UnconsumedAt(a)[i]
      BY <1>2 DEF AtLines
    <3>2. PICK pq \in Seq(Visited) : pq = p \o q
      BY ConcatProperties
    <3>3. v \in Range(pq \o r) <=> v \in Range(p) \/ v \in Range(q) \/ v \in Range(r)
      BY <3>2, ConcatHas
    <3>4. LineOf(a, i) = pq \o r
      BY <1>5, <3>1, <3>2 DEF LineOf
    <3>5. QED
      BY <3>1, <3>3, <3>4
  <2>7. QED
    BY <2>3, <2>4, <2>5, <2>6
<1>6. CASE job.type # "css" /\ a.kind # "object"
  <2>1. PartOf(a) = Along(a, NodeAt(a)) /\ \A i : LineOf(a, i) = NodeAt(a)[i]
    BY <1>1, <1>6, PartsAre DEF PartOf, LineOf
  <2>2. QED
    BY <1>1, <1>2, <2>1, AlongHas
<1>7. QED
  BY <1>3, <1>4, <1>5, <1>6

Moves == {"tag", "import"}
InTurn == {p \in Visited \X Visited : p[1].as \in Moves /\ p[2].as \in Moves => p[1].line < p[2].line}

\* Imports and elements are visited in the order of their lines.
LEMMA PartOrdered ==
  ASSUME Readable, InPlace, NEW a \in Range(job.areas)
  PROVE  Ordered(PartOf(a), InTurn)
<1>1. a \in Area /\ a.first \in Nat \ {0} /\ a.last \in Nat /\ 0 \in Nat /\ 0 <= a.first
  BY ReadableFacts
<1>2. CASE job.type = "css" \/ a.kind = "object"
  <2>1. PartOf(a) \in Seq(Visited)
    BY <1>1, PartsType, ParseCSSType DEF PartOf
  <2>2. ASSUME NEW v \in Range(PartOf(a)) PROVE v.as \notin Moves
    <3>1. CASE v.as = "error"
      BY <3>1 DEF Moves
    <3>2. CASE v.as # "error"
      <4>1. PICK i \in a.first..a.last : v \in Range(LineOf(a, i))
        BY <2>2, <3>2, PartHas
      <4>2. CASE job.type = "css"
        <5>1. v = Declare(i, i, i)
          BY <4>1, <4>2, LineHas
        <5>2. QED
          BY <5>1 DEF Declare, Visit, Moves
      <4>3. CASE job.type # "css"
        <5>1. IsEntry(i) /\ (v = AsAttribute(i, i) \/ v = Declare(i, i, 0) \/ v = Node(i, i))
          BY <1>2, <4>1, <4>3, LineHas DEF OfAttribute
        <5>2. QED
          BY <5>1 DEF Declare, AsAttribute, Node, Visit, Moves, IsEntry
      <4>4. QED
        BY <4>2, <4>3
    <3>3. QED
      BY <3>1, <3>2
  <2>3. PICK n \in Nat : DOMAIN PartOf(a) = 1..n /\ \A k \in 1..n : PartOf(a)[k] \in Visited
    BY <2>1, LenProperties, ElementOfSeq
  <2>4. \A k \in 1..n : PartOf(a)[k] \in Range(PartOf(a))
    BY <2>3 DEF Range
  <2>5. QED
    BY <2>2, <2>3, <2>4 DEF Ordered, InTurn
<1>3. CASE ~(job.type = "css" \/ a.kind = "object")
  <2>1. PartOf(a) = Along(a, NodeAt(a))
    BY <1>1, <1>3, PartsAre DEF PartOf
  <2>2. AtLines(a, NodeAt(a))
    BY AreLines
  <2>3. \A i \in a.first..a.last : Ordered(NodeAt(a)[i], InTurn)
    BY WhenOrdered DEF NodeAt
  <2>4. \A v, w \in Visited : v.line < w.line => <<v, w>> \in InTurn
    BY DEF InTurn
  <2>5. QED
    BY <1>1, <2>1, <2>2, <2>3, <2>4, AlongOrdered
<1>4. QED
  BY <1>2, <1>3

\* The areas of such a document lie one behind the other, and each line is
\* in one of them.
LEMMA AreasFacts ==
  ASSUME Readable, InPlace
  PROVE  /\ \A j, k \in DOMAIN job.areas : j < k => job.areas[j].last < job.areas[k].first
         /\ \A i \in Lines : /\ AreaOf(i) \in Range(job.areas)
                             /\ i \in AreaOf(i).first..AreaOf(i).last
         /\ \A a \in Range(job.areas) : \A i \in a.first..a.last : a = AreaOf(i)
<1>1. PICK n \in Nat : n = Len(job.areas) /\ DOMAIN job.areas = 1..n
  BY ReadableFacts
<1> DEFINE first(k) == job.areas[k].first
           last(k) == job.areas[k].last
<1>2. /\ n # 0 /\ first(1) = 1 /\ last(n) = Len(text)
      /\ \A k \in 2..n : first(k) = last(k - 1) + 1
  <2>1. Divided(job.lines, job.areas)
    BY JobsAssumption DEF InPlace, Plain, Readable
  <2>2. Len(text) = Len(job.lines)
    BY DEF Readable
  <2>3. n # 0
    BY <1>1, <2>1, ReadableFacts, EmptySeq DEF Divided
  <2>4. QED
    BY <1>1, <2>1, <2>2, <2>3 DEF Divided
<1>3. \A k \in 1..n : /\ first(k) \in Nat \ {0} /\ last(k) \in Nat /\ first(k) <= last(k)
                      /\ job.areas[k] \in Range(job.areas)
  BY <1>1, ReadableFacts DEF Range
<1> DEFINE G == {m \in 0..(n - 1) :
                   /\ \A j \in 1..(m + 1) : j < m + 1 => last(j) < first(m + 1)
                   /\ \A i \in 1..last(m + 1) : \E j \in 1..(m + 1) : i \in first(j)..last(j)}
<1>4. n - 1 \in Nat
  BY <1>2
<1>5. 0 \in G
  <2>1. 0 + 1 = 1 /\ 1 \in 1..n /\ 0 \in 0..(n - 1) /\ \A j \in 1..1 : ~(j < 1)
    BY <1>4
  <2>2. \A i \in 1..last(1) : i \in first(1)..last(1) /\ 1 \in 1..1
    BY <1>2
  <2> HIDE DEF first, last
  <2>3. QED
    BY <2>1, <2>2
<1>6. ASSUME NEW m \in 0..((n - 1) - 1), m \in G PROVE m + 1 \in G
  <2>1. PICK k \in 1..n : k = m + 1 /\ k + 1 \in 2..n /\ (k + 1) - 1 = k /\ k + 1 \in 1..n
                          /\ m + 1 \in 0..(n - 1)
    BY <1>4
  <2>2. first(k + 1) = last(k) + 1 /\ first(k) <= last(k) /\ first(k) \in Nat /\ last(k) \in Nat
    <3> HIDE DEF first, last
    <3>1. QED
      BY <1>2, <1>3, <2>1
  <2>3. \A j \in 1..k : j < k => last(j) < first(k)
    BY <1>6, <2>1
  <2>4. \A i \in 1..last(k) : \E j \in 1..k : i \in first(j)..last(j)
    BY <1>6, <2>1
  <2>5. ASSUME NEW j \in 1..(k + 1), j < k + 1 PROVE last(j) < first(k + 1)
    <3>1. j \in 1..k /\ j \in 1..n
      BY <2>1, <2>5
    <3>2. last(j) \in Nat
      BY <1>3, <3>1
    <3>3. j = k \/ last(j) < first(k)
      BY <2>3, <3>1
    <3> HIDE DEF first, last
    <3>4. QED
      BY <2>2, <3>2, <3>3
  <2>6. ASSUME NEW i \in 1..last(k + 1) PROVE \E j \in 1..(k + 1) : i \in first(j)..last(j)
    <3>1. last(k + 1) \in Nat
      BY <1>3, <2>1
    <3>2. CASE i <= last(k)
      <4>1. PICK j \in 1..k : i \in first(j)..last(j)
        <5>1. i \in 1..last(k)
          BY <2>2, <3>1, <3>2
        <5>2. QED
          BY <2>4, <5>1
      <4>2. j \in 1..(k + 1)
        OBVIOUS
      <4>3. QED
        BY <4>1, <4>2
    <3>3. CASE ~(i <= last(k))
      <4>1. i \in first(k + 1)..last(k + 1) /\ k + 1 \in 1..(k + 1)
        BY <2>2, <3>1, <3>3
      <4> HIDE DEF first, last
      <4>2. QED
        BY <4>1
    <3>4. QED
      BY <3>2, <3>3
  <2> HIDE DEF first, last
  <2>7. QED
    BY <2>1, <2>5, <2>6
<1>7. \A m \in 0..(n - 1) : m \in G
  <2> HIDE DEF G
  <2>1. QED
    BY <1>4, <1>5, <1>6, Climb
<1>8. ASSUME NEW j \in 1..n, NEW k \in 1..n, j < k PROVE last(j) < first(k)
  <2>1. k - 1 \in 0..(n - 1) /\ (k - 1) + 1 = k /\ j \in 1..k
    BY <1>8
  <2>2. k - 1 \in G
    <3> HIDE DEF G
    <3>1. QED
      BY <1>7, <2>1
  <2>3. \A h \in 1..((k - 1) + 1) : h < (k - 1) + 1 => last(h) < first((k - 1) + 1)
    BY <2>2
  <2> HIDE DEF first, last
  <2>4. QED
    BY <1>8, <2>1, <2>3
<1>9. ASSUME NEW i \in Lines PROVE \E j \in 1..n : i \in first(j)..last(j)
  <2>1. n - 1 \in 0..(n - 1) /\ (n - 1) + 1 = n
    BY <1>4
  <2>2. n - 1 \in G
    <3> HIDE DEF G
    <3>1. QED
      BY <1>7, <2>1
  <2>3. \A h \in 1..last((n - 1) + 1) : \E j \in 1..((n - 1) + 1) : h \in first(j)..last(j)
    BY <2>2
  <2>4. i \in 1..Len(text)
    BY ReadableFacts
  <2> HIDE DEF first, last
  <2>5. QED
    BY <1>2, <2>1, <2>3, <2>4
<1>10. ASSUME NEW i \in Lines
       PROVE  AreaOf(i) \in Range(job.areas) /\ i \in AreaOf(i).first..AreaOf(i).last
  <2>1. PICK j \in 1..n : i \in first(j)..last(j)
    BY <1>9
  <2>2. job.areas[j] \in Range(job.areas) /\ i \in job.areas[j].first..job.areas[j].last
    BY <1>3, <2>1
  <2>3. QED
    BY <2>2 DEF AreaOf
<1>11. ASSUME NEW a \in Range(job.areas), NEW i \in a.first..a.last PROVE a = AreaOf(i)
  <2>1. i \in Lines
    BY ReadableFacts
  <2>2. PICK j \in 1..n, k \in 1..n : a = job.areas[j] /\ AreaOf(i) = job.areas[k]
    BY <1>1, <1>10, <2>1 DEF Range
  <2>3. i \in first(j)..last(j) /\ i \in first(k)..last(k)
    BY <1>10, <2>1, <2>2
  <2>4. ~(j < k) /\ ~(k < j)
    <3>1. first(j) \in Nat /\ last(j) \in Nat /\ first(k) \in Nat /\ last(k) \in Nat
      BY <1>3
    <3> HIDE DEF first, last
    <3>2. QED
      BY <1>8, <2>3, <3>1
  <2>5. QED
    BY <2>2, <2>4
<1>12. QED
  BY <1>1, <1>8, <1>10, <1>11

\* The pieces that the visits of such a document are put together from.
LEMMA VisitsPieces ==
  ASSUME Readable, InPlace
  PROVE  \E ss \in Seq(Seq(Visited)) :
           /\ Visits = FlattenSeq(ss) /\ Len(ss) = Len(job.areas)
           /\ \A k \in 1..Len(ss) : job.areas[k] \in Range(job.areas) /\ ss[k] = PartOf(job.areas[k])
<1>1. PICK n \in Nat : n = Len(job.areas) /\ DOMAIN job.areas = 1..n
  BY ReadableFacts
<1> DEFINE ss == [k \in 1..n |-> PartOf(job.areas[k])]
<1>2. \A k \in 1..n : job.areas[k] \in Range(job.areas)
  BY <1>1 DEF Range
<1>3. ASSUME NEW a \in Range(job.areas) PROVE PartOf(a) \in Seq(Visited)
  <2>1. 0 \in Nat /\ 0 <= a.first
    BY ReadableFacts
  <2>2. QED
    BY <2>1, PartsType, ParseCSSType DEF PartOf
<1>4. ss \in [1..n -> Seq(Visited)]
  BY <1>2, <1>3
<1>5. ss \in Seq(Seq(Visited)) /\ Len(ss) = n
  <2> HIDE DEF ss
  <2>1. QED
    BY <1>4, PiecesType
<1>6. Visits = FlattenSeq(ss)
  <2>1. [k \in 1..n |-> [a \in Range(job.areas) |-> PartOf(a)][job.areas[k]]] = ss
    BY <1>2
  <2> HIDE DEF ss
  <2>2. QED
    BY <1>1, <2>1, InPlaceVisits DEF Across
<1>7. \A k \in 1..n : ss[k] = PartOf(job.areas[k])
  OBVIOUS
<1> HIDE DEF ss
<1>8. QED
  BY <1>1, <1>2, <1>5, <1>6, <1>7

\* What is visited, is visited on a line, or an error.
LEMMA VisitsHave ==
  ASSUME Readable, InPlace, NEW v
  PROVE  /\ \A i \in Lines : v \in Range(LineOf(AreaOf(i), i)) => v \in Range(Visits)
         /\ v \in Range(Visits) =>
              v.as = "error" \/ \E i \in Lines : v \in Range(LineOf(AreaOf(i), i))
<1>1. PICK ss \in Seq(Seq(Visited)) :
        /\ Visits = FlattenSeq(ss) /\ Len(ss) = Len(job.areas)
        /\ \A k \in 1..Len(ss) : job.areas[k] \in Range(job.areas) /\ ss[k] = PartOf(job.areas[k])
  BY VisitsPieces
<1>2. v \in Range(Visits) <=> \E k \in 1..Len(ss) : v \in Range(ss[k])
  BY <1>1, FlatHas
<1>3. ASSUME NEW i \in Lines, v \in Range(LineOf(AreaOf(i), i)) PROVE v \in Range(Visits)
  <2>1. PICK a \in Range(job.areas) : a = AreaOf(i) /\ i \in a.first..a.last
    BY AreasFacts
  <2>2. v \in Range(PartOf(a))
    BY <1>3, <2>1, PartHas
  <2>3. PICK k \in 1..Len(ss) : a = job.areas[k]
    BY <1>1, ReadableFacts DEF Range
  <2>4. QED
    BY <1>1, <1>2, <2>2, <2>3
<1>4. ASSUME v \in Range(Visits), v.as # "error"
      PROVE  \E i \in Lines : v \in Range(LineOf(AreaOf(i), i))
  <2>1. PICK k \in 1..Len(ss) : v \in Range(ss[k])
    BY <1>2, <1>4
  <2>2. PICK a \in Range(job.areas) : a = job.areas[k] /\ v \in Range(PartOf(a))
    BY <1>1, <2>1
  <2>3. PICK i \in a.first..a.last : v \in Range(LineOf(a, i))
    BY <1>4, <2>2, PartHas
  <2>4. i \in Lines /\ a = AreaOf(i)
    BY AreasFacts, ReadableFacts
  <2>5. QED
    BY <2>3, <2>4
<1>5. QED
  BY <1>3, <1>4

\* A document counts for a line what that line counts.
LEMMA VisitsTotal ==
  ASSUME Readable, InPlace, NEW g \in [Visited -> Nat], NoError(g), NEW i \in Lines, OnlyAt(g, i)
  PROVE  Total(Visits, g) = Total(LineOf(AreaOf(i), i), g)
<1>1. PICK ss \in Seq(Seq(Visited)) :
        /\ Visits = FlattenSeq(ss) /\ Len(ss) = Len(job.areas)
        /\ \A k \in 1..Len(ss) : job.areas[k] \in Range(job.areas) /\ ss[k] = PartOf(job.areas[k])
  BY VisitsPieces
<1> DEFINE sum == [t \in Seq(Visited) |-> Total(t, g)]
<1>2. sum \in [Seq(Visited) -> Nat] /\ Total(FlattenSeq(ss), g) = Total(ss, sum)
  BY TotalFlat
<1>3. \A k \in 1..Len(ss) : sum[ss[k]] = Total(ss[k], g)
  BY ElementOfSeq
<1> HIDE DEF sum
<1>4. PICK T : T = Seq(Visited)
  OBVIOUS
<1>5. ss \in Seq(T) /\ sum \in [T -> Nat]
  BY <1>2, <1>4
<1>6. PICK k \in 1..Len(ss) : job.areas[k] = AreaOf(i)
  BY <1>1, AreasFacts, ReadableFacts DEF Range
<1>7. ASSUME NEW j \in 1..Len(ss), j # k PROVE sum[ss[j]] = 0
  <2>1. PICK a \in Range(job.areas) : a = job.areas[j] /\ ss[j] = PartOf(a)
    BY <1>1
  <2>2. i \notin a.first..a.last
    <3>1. j \in DOMAIN job.areas /\ k \in DOMAIN job.areas /\ job.areas[k] \in Range(job.areas)
      BY <1>1, ReadableFacts
    <3>2. j < k \/ k < j
      BY <1>7, <1>1, ReadableFacts
    <3>3. job.areas[j].last < job.areas[k].first \/ job.areas[k].last < job.areas[j].first
      BY <3>1, <3>2, AreasFacts
    <3>4. i \in job.areas[k].first..job.areas[k].last
      BY <1>6, AreasFacts
    <3>5. /\ job.areas[k].first \in Nat /\ job.areas[k].last \in Nat /\ a.first \in Nat /\ a.last \in Nat
          /\ i \in Nat
      BY <3>1, ReadableFacts, SMTT(30)
    <3>6. PICK b : b = job.areas[k]
      OBVIOUS
    <3>7. a.last < b.first \/ b.last < a.first
      BY <2>1, <3>3, <3>6
    <3>8. i \in b.first..b.last /\ b.first \in Nat /\ b.last \in Nat
      BY <3>4, <3>5, <3>6
    <3>9. QED
      BY <3>5, <3>7, <3>8
  <2>3. Total(PartOf(a), g) = 0
    BY <2>2, PartTotal
  <2>4. QED
    BY <1>3, <2>1, <2>3
<1>8. Total(ss, sum) = sum[ss[k]]
  BY <1>5, <1>7, TotalOnly
<1>9. PICK a \in Range(job.areas) : a = AreaOf(i) /\ ss[k] = PartOf(a) /\ i \in a.first..a.last
  BY <1>1, <1>6, AreasFacts
<1>10. Total(PartOf(a), g) = Total(LineOf(a, i), g)
  BY <1>9, PartTotal
<1>11. QED
  BY <1>1, <1>2, <1>3, <1>8, <1>9, <1>10

\* Imports and elements are visited in order.
LEMMA VisitsOrdered ==
  ASSUME Readable, InPlace
  PROVE  Ordered(Visits, InTurn)
<1>1. PICK ss \in Seq(Seq(Visited)) :
        /\ Visits = FlattenSeq(ss) /\ Len(ss) = Len(job.areas)
        /\ \A k \in 1..Len(ss) : job.areas[k] \in Range(job.areas) /\ ss[k] = PartOf(job.areas[k])
  BY VisitsPieces
<1>2. \A k \in 1..Len(ss) : Ordered(ss[k], InTurn)
  BY <1>1, PartOrdered
<1>3. ASSUME NEW j \in 1..Len(ss), NEW k \in 1..Len(ss), j < k, NEW x \in Range(ss[j]), NEW y \in Range(ss[k])
      PROVE  <<x, y>> \in InTurn
  <2>1. ss[j] \in Seq(Visited) /\ ss[k] \in Seq(Visited)
    BY ElementOfSeq
  <2>2. x \in Visited /\ y \in Visited
    BY <2>1, LenProperties, ElementOfSeq DEF Range
  <2>3. ASSUME x.as \in Moves, y.as \in Moves PROVE x.line < y.line
    <3>1. PICK a \in Range(job.areas), b \in Range(job.areas) :
            a = job.areas[j] /\ b = job.areas[k] /\ x \in Range(PartOf(a)) /\ y \in Range(PartOf(b))
      BY <1>1, <1>3
    <3>2. PICK i \in a.first..a.last, h \in b.first..b.last :
            x \in Range(LineOf(a, i)) /\ y \in Range(LineOf(b, h))
      <4>1. x.as # "error" /\ y.as # "error"
        BY <2>3 DEF Moves
      <4>2. PICK i \in a.first..a.last : x \in Range(LineOf(a, i))
        BY <3>1, <4>1, PartHas
      <4>3. PICK h \in b.first..b.last : y \in Range(LineOf(b, h))
        BY <3>1, <4>1, PartHas
      <4>4. QED
        BY <4>2, <4>3
    <3>3. x.line = i /\ y.line = h
      <4>1. i \in Lines /\ h \in Lines
        BY ReadableFacts
      <4>2. x \in {Declare(i, i, i), Declare(i, i, 0), AsAttribute(i, i), Node(i, i)}
        BY <3>2, LineHas
      <4>3. y \in {Declare(h, h, h), Declare(h, h, 0), AsAttribute(h, h), Node(h, h)}
        BY <3>2, LineHas
      <4>4. QED
        BY <4>1, <4>2, <4>3, VisitFields
    <3>4. a.last < b.first
      BY <1>1, <1>3, <3>1, AreasFacts, ReadableFacts
    <3>5. a.first \in Nat /\ a.last \in Nat /\ b.first \in Nat /\ b.last \in Nat
      BY ReadableFacts
    <3>6. QED
      BY <3>3, <3>4, <3>5
  <2>4. QED
    BY <2>2, <2>3 DEF InTurn
<1>4. Ordered(FlattenSeq(ss), InTurn)
  BY <1>2, <1>3, OrderedFlat
<1>5. QED
  BY <1>1, <1>4

----------------------------------------------------------------------------
(* What is reported on a line.                                             *)

\* What a rule says of a visit, when the imports above it are those seen.
Said(r, v) ==
  IF Unconfigured(r) THEN <<>>
  ELSE IF v.hook = "onNode" THEN OnNode(r, v.as, v.item, Before(v.line), Imports, Scope)
  ELSE OnDeclaration(r, v.item)
Expect(r, i) == [v \in Visited |-> IF v.hook = "error" \/ v.line # i THEN 0 ELSE Len(Said(r, v))]

\* What a rule says of a visit are offers within its item.
LEMMA SaidType ==
  ASSUME NEW v \in Visited, NEW r
  PROVE  Said(r, v) \in Seq(Offers(Len(v.item.value))) /\ Len(Said(r, v)) \in Nat
<1>1. v.item.value \in Value /\ (v.as = "tag" => v.item.value # <<>> /\ IsFiniteSet(v.item.attrs))
  BY ItemFacts DEF Visited
<1>2. OnNode(r, v.as, v.item, Before(v.line), Imports, Scope) \in Seq(Offers(Len(v.item.value)))
  BY <1>1, OnNodeType
<1>3. OnDeclaration(r, v.item) \in Seq(Offers(Len(v.item.value)))
  BY <1>1, OnDeclarationType
<1>4. <<>> \in Seq(Offers(Len(v.item.value)))
  BY EmptySeq
<1>5. Said(r, v) \in Seq(Offers(Len(v.item.value)))
  BY <1>2, <1>3, <1>4 DEF Said
<1>6. QED
  BY <1>5, LenProperties

\* What a rule is expected to say of a line can be summed over visits.
LEMMA ExpectType ==
  ASSUME NEW r, NEW i
  PROVE  Expect(r, i) \in [Visited -> Nat] /\ NoError(Expect(r, i)) /\ OnlyAt(Expect(r, i), i)
BY SaidType DEF Expect, NoError, OnlyAt

\* A line has what its area can have.
LEMMA LineSuits ==
  ASSUME Readable, InPlace, IsText(text), NEW i \in Lines
  PROVE  /\ job.type = "css" => Item(i).kind \in {"declaration", "blank", "broken"}
         /\ job.type # "css" /\ AreaOf(i).kind = "object" => Item(i).kind = "blank" \/ OfAttribute(i)
         /\ job.type # "css" /\ AreaOf(i).kind # "object" => Item(i).kind # "declaration"
<1>1. PICK a \in Range(job.areas) : a = AreaOf(i) /\ i \in a.first..a.last
  BY AreasFacts
<1>2. text[i].item = Spoilt \/ Suits(text[i].item, job.type, a.kind)
  BY <1>1 DEF IsText, Suited, InPlace, Plain
<1>3. text[i].item # Spoilt
  BY ReadableFacts, ItemFacts DEF Item, Spoilt
<1>4. a.kind # "literal"
  BY DEF InPlace, HasArea, Range
<1>5. QED
  BY <1>1, <1>2, <1>3, <1>4 DEF Suits, Item, OfAttribute, IsEntry

\* What the rule reports on a line of the text is what it says of the
\* visits of that line.
LEMMA LineExpect ==
  ASSUME Readable, InPlace, IsText(text), NEW i \in Lines, NEW r
  PROVE  Total(LineOf(AreaOf(i), i), Expect(r, i)) = Len(ReportsOn(r, i))
<1> DEFINE g == Expect(r, i)
           a == AreaOf(i)
           node(as) == OnNode(r, as, Item(i), Before(i), Imports, Scope)
           S == Seq(Offers(Len(Item(i).value)))
           unset == Unconfigured(r)
           d == Declare(i, i, i)
           l == Declare(i, i, 0)
           t == AsAttribute(i, i)
           n == Node(i, i)
<1>1. g \in [Visited -> Nat]
  BY ExpectType
<1>2. a \in Range(job.areas) /\ i \in a.first..a.last
  BY AreasFacts
<1>3. i \in Lines /\ i \in Nat
  BY ReadableFacts
<1>4. d \in Visited /\ l \in Visited /\ t \in Visited /\ (Nodal(i) => n \in Visited)
  BY <1>3, VisitType DEF Nodal
<1>5. /\ Said(r, d) = IF unset THEN <<>> ELSE OnDeclaration(r, Item(i))
      /\ Said(r, l) = IF unset THEN <<>> ELSE OnDeclaration(r, Item(i))
      /\ Said(r, t) = IF unset THEN <<>> ELSE node("attribute")
      /\ Said(r, n) = IF unset THEN <<>> ELSE node(Item(i).kind)
  BY DEF Said, Declare, AsAttribute, Node, Visit
<1>6. /\ g[d] = Len(Said(r, d)) /\ g[l] = Len(Said(r, l)) /\ g[t] = Len(Said(r, t))
      /\ Nodal(i) => g[n] = Len(Said(r, n))
  <2>1. d.hook # "error" /\ l.hook # "error" /\ t.hook # "error" /\ n.hook # "error"
    BY DEF Declare, AsAttribute, Node, Visit
  <2>2. d.line = i /\ l.line = i /\ t.line = i /\ n.line = i
    BY <1>3, VisitFields
  <2> HIDE DEF d, l, t, n
  <2>3. QED
    BY <1>4, <2>1, <2>2 DEF Expect
<1>7. /\ Total(<<d>>, g) = g[d] /\ Total(<<l>>, g) = g[l] /\ Total(<<t>>, g) = g[t]
      /\ Nodal(i) => Total(<<n>>, g) = g[n]
      /\ Total(<<>>, g) = 0
  <2> HIDE DEF d, l, t, n, g
  <2>1. QED
    BY <1>1, <1>4, TotalOne, TotalEmpty
<1>8. OnDeclaration(r, Item(i)) \in S /\ node("attribute") \in S /\ node("entry") \in S
  <2>1. Item(i).value \in Value
    BY <1>3, ReadableFacts, ItemFacts
  <2>2. "attribute" # "tag" /\ "entry" # "tag"
    OBVIOUS
  <2>3. QED
    BY <2>1, <2>2, OnDeclarationType, OnNodeType
<1>9. \A k \in {"local", "blank", "broken"} : node(k) = <<>>
  BY DEF OnNode
<1>10. Item(i).kind \in {"declaration", "entry", "string", "tag", "import", "local", "blank", "broken"}
  BY <1>3, ReadableFacts, ItemFacts
<1>11. Len(<<>>) = 0
  OBVIOUS
<1>12. ReportsOn(r, i) =
         IF unset THEN <<>>
         ELSE CASE IsDecl(i) -> IF Parses(a) THEN OnDeclaration(r, Item(i)) ELSE <<>>
                [] IsEntry(i) ->
                     (IF a.kind = "object" THEN node("attribute") ELSE <<>>)
                     \o (IF a.kind = "object" /\ Literal(Item(i))
                         THEN WithoutOffset(OnDeclaration(r, Item(i))) ELSE <<>>)
                     \o (IF a.kind = "object" /\ Consumed(Item(i)) THEN <<>> ELSE node("entry"))
                [] OTHER -> node(Item(i).kind)
  BY DEF ReportsOn
<1>13. /\ job.type = "css" => Item(i).kind \in {"declaration", "blank", "broken"}
       /\ job.type # "css" /\ a.kind = "object" => Item(i).kind = "blank" \/ OfAttribute(i)
       /\ job.type # "css" /\ a.kind # "object" => Item(i).kind # "declaration"
  BY LineSuits
<1>14. (IsDecl(i) <=> Item(i).kind = "declaration") /\ (IsEntry(i) <=> Item(i).kind = "entry")
       /\ (OfAttribute(i) => IsEntry(i)) /\ (IsEntry(i) => Nodal(i))
  BY DEF IsDecl, IsEntry, OfAttribute, Nodal
<1>15. CASE job.type = "css"
  <2>1. LineOf(a, i) = IF Parses(a) /\ IsDecl(i) THEN <<d>> ELSE <<>>
    BY <1>2, <1>3, <1>15, VisitFields DEF LineOf, SheetAt, When
  <2> HIDE DEF a, d, g, node, unset
  <2>2. CASE IsDecl(i)
    <3>1. g[d] = IF unset THEN 0 ELSE Len(OnDeclaration(r, Item(i)))
      BY <1>5, <1>6, <1>11
    <3>2. Total(LineOf(a, i), g) = IF Parses(a) THEN g[d] ELSE 0
      BY <1>7, <2>1, <2>2
    <3>3. ReportsOn(r, i) = IF unset THEN <<>> ELSE IF Parses(a) THEN OnDeclaration(r, Item(i)) ELSE <<>>
      BY <1>12, <1>14, <2>2
    <3>4. Total(LineOf(a, i), g) = Len(ReportsOn(r, i))
      BY <1>11, <3>1, <3>2, <3>3
    <3>5. QED
      BY <3>4 DEF a, g
  <2>3. CASE ~IsDecl(i)
    BY <1>7, <1>9, <1>11, <1>12, <1>13, <1>14, <1>15, <2>1, <2>3 DEF a, g
  <2>4. QED
    BY <2>2, <2>3 DEF a, g
<1>16. CASE job.type # "css" /\ a.kind = "object"
  <2>1. LineOf(a, i) = When(OfAttribute(i), t) \o When(OfAttribute(i) /\ Literal(Item(i)), l)
                       \o When(OfAttribute(i) /\ ~Consumed(Item(i)), n)
    BY <1>2, <1>16 DEF LineOf, AttributeAt, LiteralAt, UnconsumedAt
  <2>2. CASE ~OfAttribute(i)
    <3>1. LineOf(a, i) = <<>> \o <<>> \o <<>>
      BY <2>1, <2>2 DEF When
    <3>2. <<>> \o <<>> \o <<>> = <<>>
      OBVIOUS
    <3>3. Item(i).kind = "blank"
      BY <1>13, <1>16, <2>2
    <3> HIDE DEF a, g, node, unset
    <3>4. Len(ReportsOn(r, i)) = 0
      BY <1>9, <1>11, <1>12, <1>14, <3>3
    <3>5. QED
      BY <1>7, <3>1, <3>2, <3>4 DEF a, g
  <2>3. CASE OfAttribute(i)
    <3> DEFINE x == <<t>>
               y == IF Literal(Item(i)) THEN <<l>> ELSE <<>>
               z == IF Consumed(Item(i)) THEN <<>> ELSE <<n>>
    <3>1. LineOf(a, i) = x \o y \o z
      BY <2>1, <2>3 DEF When
    <3>2. IsEntry(i) /\ Nodal(i) /\ ~IsDecl(i) /\ Item(i).kind = "entry"
      BY <1>14, <2>3
    <3>3. x \in Seq(Visited) /\ y \in Seq(Visited) /\ z \in Seq(Visited)
      <4> HIDE DEF t, l, n
      <4>1. QED
        BY <1>4, <3>2, EmptySeq
    <3>4. Total(x \o y \o z, g) = Total(x, g) + Total(y, g) + Total(z, g)
      <4>1. PICK xy \in Seq(Visited) : xy = x \o y
        BY <3>3, ConcatProperties
      <4>2. Total(xy, g) = Total(x, g) + Total(y, g)
        <5> HIDE DEF x, y, z, g
        <5>1. QED
          BY <1>1, <3>3, <4>1, TotalConcat
      <4>3. Total(xy \o z, g) = Total(xy, g) + Total(z, g)
        <5> HIDE DEF x, y, z, g
        <5>1. QED
          BY <1>1, <3>3, <4>1, TotalConcat
      <4>4. QED
        BY <4>1, <4>2, <4>3
    <3>5. /\ Total(x, g) = g[t]
          /\ Total(y, g) = IF Literal(Item(i)) THEN g[l] ELSE 0
          /\ Total(z, g) = IF Consumed(Item(i)) THEN 0 ELSE g[n]
      <4> HIDE DEF t, l, n, g
      <4>1. QED
        BY <1>7, <3>2
    <3>6. CASE unset
      <4> HIDE DEF t, l, n, g, x, y, z, a, unset, node
      <4>1. g[t] = 0 /\ g[l] = 0 /\ g[n] = 0
        BY <1>5, <1>6, <1>11, <3>2, <3>6
      <4>2. Len(ReportsOn(r, i)) = 0
        BY <1>11, <1>12, <3>6
      <4>3. QED
        BY <3>1, <3>4, <3>5, <4>1, <4>2 DEF a, g
    <3>7. CASE ~unset
      <4> DEFINE p == node("attribute")
                 o == OnDeclaration(r, Item(i))
                 q == IF Literal(Item(i)) THEN WithoutOffset(o) ELSE <<>>
                 e == node("entry")
                 s == IF Consumed(Item(i)) THEN <<>> ELSE e
      <4>1. ReportsOn(r, i) = p \o q \o s
        <5> HIDE DEF node, a
        <5>1. QED
          BY <1>12, <1>16, <3>2, <3>7
      <4>2. p \in S /\ o \in S /\ e \in S /\ <<>> \in S
        BY <1>8, EmptySeq
      <4>3. WithoutOffset(o) \in S /\ Len(WithoutOffset(o)) = Len(o)
        <5>1. PICK m \in Nat : m = Len(o) /\ DOMAIN o = 1..m
          <6> HIDE DEF o, S
          <6>1. QED
            BY <4>2, LenProperties DEF S
        <5>2. NoFix \in Offers(Len(Item(i).value))
          BY NoFixesType
        <5>3. [k \in 1..m |-> NoFix] \in [1..m -> Offers(Len(Item(i).value))]
          BY <5>2
        <5>4. PICK f \in [1..m -> Offers(Len(Item(i).value))] : f = [k \in 1..m |-> NoFix]
          BY <5>3
        <5>5. f \in S /\ Len(f) = m
          BY FunctionIsSeq
        <5> HIDE DEF o
        <5>6. QED
          BY <5>1, <5>4, <5>5 DEF WithoutOffset
      <4>4. q \in S /\ s \in S
        <5> HIDE DEF p, o, e, S
        <5>1. QED
          BY <4>2, <4>3
      <4>5. Len(p \o q \o s) = Len(p) + Len(q) + Len(s)
        <5>1. PICK T : T = Offers(Len(Item(i).value))
          OBVIOUS
        <5>2. p \in Seq(T) /\ q \in Seq(T) /\ s \in Seq(T)
          <6> HIDE DEF p, q, s
          <6>1. QED
            BY <4>2, <4>4, <5>1
        <5> HIDE DEF p, q, s
        <5>3. p \o q \in Seq(T) /\ Len(p \o q) = Len(p) + Len(q)
          BY <5>2, ConcatProperties
        <5>4. Len((p \o q) \o s) = Len(p \o q) + Len(s)
          BY <5>2, <5>3, ConcatProperties
        <5>5. QED
          BY <5>3, <5>4
      <4>6. /\ g[t] = Len(p) /\ g[n] = Len(e) /\ g[l] = Len(o)
        <5> HIDE DEF t, l, n, g, unset
        <5>1. QED
          BY <1>5, <1>6, <3>2, <3>7
      <4>7. Len(q) = IF Literal(Item(i)) THEN Len(o) ELSE 0
        <5> HIDE DEF o
        <5>1. QED
          BY <1>11, <4>3
      <4>8. Len(s) = IF Consumed(Item(i)) THEN 0 ELSE Len(e)
        <5> HIDE DEF e
        <5>1. QED
          BY <1>11
      <4> HIDE DEF p, q, s, o, e, x, y, z, t, l, n, g, a
      <4>9. QED
        BY <3>1, <3>4, <3>5, <4>1, <4>5, <4>6, <4>7, <4>8 DEF a, g
    <3>8. QED
      BY <3>6, <3>7
  <2>4. QED
    BY <2>2, <2>3
<1>17. CASE job.type # "css" /\ a.kind # "object"
  <2>1. LineOf(a, i) = IF Nodal(i) THEN <<n>> ELSE <<>>
    BY <1>2, <1>17 DEF LineOf, NodeAt, When, Nodal
  <2>2. ~IsDecl(i)
    BY <1>13, <1>14, <1>17
  <2>3. <<>> \o <<>> \o node("entry") = node("entry")
    <3> HIDE DEF node
    <3>1. PICK e \in S : e = node("entry")
      BY <1>8
    <3>2. PICK T : T = Offers(Len(Item(i).value))
      OBVIOUS
    <3>3. e \in Seq(T)
      BY <3>1, <3>2
    <3>4. <<>> \o e = e /\ <<>> \o <<>> = <<>>
      BY <3>3
    <3>5. QED
      BY <3>1, <3>4
  <2>4. CASE unset
    <3> HIDE DEF n, g, a, unset, node
    <3>1. Nodal(i) => g[n] = 0
      BY <1>5, <1>6, <1>11, <2>4
    <3>2. Len(ReportsOn(r, i)) = 0
      BY <1>11, <1>12, <2>4
    <3>3. QED
      BY <1>7, <2>1, <3>1, <3>2 DEF a, g
  <2>5. CASE ~unset
    <3>1. ReportsOn(r, i) = node(Item(i).kind)
      <4> HIDE DEF node, a, unset
      <4>1. QED
        BY <1>12, <1>14, <1>17, <2>2, <2>3, <2>5
    <3>2. CASE Nodal(i)
      <4> HIDE DEF n, g, a, unset, node
      <4>1. g[n] = Len(node(Item(i).kind))
        BY <1>5, <1>6, <2>5, <3>2
      <4>2. QED
        BY <1>7, <2>1, <3>1, <3>2, <4>1 DEF a, g
    <3>3. CASE ~Nodal(i)
      <4>1. Item(i).kind \in {"local", "blank", "broken"}
        BY <1>10, <1>14, <2>2, <3>3 DEF Nodal
      <4> HIDE DEF n, g, a, unset, node
      <4>2. QED
        BY <1>7, <1>9, <1>11, <2>1, <3>1, <3>3, <4>1 DEF a, g
    <3>4. QED
      BY <3>2, <3>3
  <2>6. QED
    BY <2>4, <2>5
<1>18. QED
  BY <1>15, <1>16, <1>17

\* A visit on a line is of its item.
LEMMA LineVisit ==
  ASSUME Readable, InPlace, IsText(text), NEW i \in Lines, NEW v \in Range(LineOf(AreaOf(i), i))
  PROVE  /\ v.line = i /\ v.item = Item(i)
         /\ v.as \in Moves => v.as = Item(i).kind
         /\ v.as \in {"declaration", "entry", "string"} => Parsed(i)
<1>1. PICK a \in Range(job.areas) : a = AreaOf(i) /\ i \in a.first..a.last
  BY AreasFacts
<1>2. /\ Declare(i, i, i).line = i /\ Declare(i, i, 0).line = i
      /\ AsAttribute(i, i).line = i /\ Node(i, i).line = i
  BY VisitFields
<1>3. /\ Declare(i, i, i).item = Item(i) /\ Declare(i, i, 0).item = Item(i)
      /\ AsAttribute(i, i).item = Item(i) /\ Node(i, i).item = Item(i)
      /\ Declare(i, i, i).as = "declaration" /\ Declare(i, i, 0).as = "declaration"
      /\ AsAttribute(i, i).as = "attribute" /\ Node(i, i).as = Item(i).kind
  BY DEF Declare, AsAttribute, Node, Visit
<1>4. CASE job.type = "css"
  <2>1. Parses(a) /\ IsDecl(i) /\ v = Declare(i, i, i)
    BY <1>1, <1>4, LineHas
  <2>2. Parsed(i)
    BY <1>1, <2>1 DEF Parsed, IsDecl
  <2>3. QED
    BY <1>2, <1>3, <2>1, <2>2 DEF Moves
<1>5. CASE job.type # "css" /\ a.kind = "object"
  <2>1. OfAttribute(i) /\ v \in {AsAttribute(i, i), Declare(i, i, 0), Node(i, i)}
    BY <1>1, <1>5, LineHas
  <2>2. Item(i).kind = "entry" /\ Parsed(i)
    BY <2>1 DEF OfAttribute, IsEntry, Parsed, IsDecl
  <2>3. QED
    BY <1>2, <1>3, <2>1, <2>2 DEF Moves
<1>6. CASE job.type # "css" /\ a.kind # "object"
  <2>1. Nodal(i) /\ v = Node(i, i)
    BY <1>1, <1>6, LineHas
  <2>2. v.as \in {"declaration", "entry", "string"} => Parsed(i)
    BY <1>3, <2>1 DEF Parsed, IsDecl, Nodal
  <2>3. QED
    BY <1>2, <1>3, <2>1, <2>2
<1>7. QED
  BY <1>4, <1>5, <1>6

\* The references are those of every line that could be parsed.
LEMMA ReferencesAre ==
  ASSUME Readable, InPlace, IsText(text)
  PROVE  Referenced(Visits) = UNION {{<<n, i>> : n \in Mentions(Item(i).value)} :
                                       i \in {j \in Lines : Parsed(j)}}
<1> DEFINE Kinds == {"declaration", "entry", "string"}
           Of(v) == {<<n, v.line>> : n \in Mentions(v.item.value)}
           At(i) == {<<n, i>> : n \in Mentions(Item(i).value)}
<1>1. PICK n \in Nat : DOMAIN Visits = 1..n
  BY VisitsType, LenProperties
<1>2. TemplateReferences = {}
  BY DEF TemplateReferences, InPlace, Plain
<1>3. VisitReferences(Visits) = UNION {Of(Visits[k]) : k \in {j \in DOMAIN Visits : Visits[j].as \in Kinds}}
  BY DEF VisitReferences
<1>4. ASSUME NEW k \in DOMAIN Visits, Visits[k].as \in Kinds
      PROVE  \E i \in Lines : Parsed(i) /\ Of(Visits[k]) = At(i)
  <2>1. PICK v \in Range(Visits) : v = Visits[k] /\ v.as # "error"
    BY <1>4 DEF Range
  <2>2. PICK i \in Lines : v \in Range(LineOf(AreaOf(i), i))
    BY <2>1, VisitsHave
  <2>3. v.line = i /\ v.item = Item(i) /\ Parsed(i)
    BY <1>4, <2>1, <2>2, LineVisit
  <2>4. QED
    BY <2>1, <2>3
<1>5. ASSUME NEW i \in Lines, Parsed(i)
      PROVE  \E k \in DOMAIN Visits : Visits[k].as \in Kinds /\ Of(Visits[k]) = At(i)
  <2>1. PICK a \in Range(job.areas) : a = AreaOf(i) /\ i \in a.first..a.last
    BY AreasFacts
  <2>2. Item(i).kind \in Kinds /\ (Item(i).kind = "declaration" => Parses(a))
    BY <1>5, <2>1 DEF Parsed, IsDecl
  <2>3. /\ job.type = "css" => Item(i).kind \in {"declaration", "blank", "broken"}
        /\ job.type # "css" /\ a.kind = "object" => Item(i).kind = "blank" \/ OfAttribute(i)
        /\ job.type # "css" /\ a.kind # "object" => Item(i).kind # "declaration"
    BY <2>1, LineSuits
  <2>4. /\ Declare(i, i, i).as = "declaration" /\ Declare(i, i, 0).as = "declaration"
        /\ Node(i, i).as = Item(i).kind
    BY DEF Declare, Node, Visit
  <2>5. \E v : v \in Range(LineOf(a, i)) /\ v.as \in Kinds
    <3>1. CASE job.type = "css"
      <4>1. IsDecl(i) /\ Parses(a)
        BY <2>2, <2>3, <3>1 DEF IsDecl
      <4>2. Declare(i, i, i) \in Range(LineOf(a, i))
        BY <2>1, <3>1, <4>1, LineHas
      <4>3. QED
        BY <2>4, <4>2
    <3>2. CASE job.type # "css" /\ a.kind = "object"
      <4>1. OfAttribute(i) /\ Item(i).kind = "entry"
        BY <2>2, <2>3, <3>2 DEF OfAttribute, IsEntry
      <4>2. CASE Literal(Item(i))
        <5>1. Declare(i, i, 0) \in Range(LineOf(a, i))
          BY <2>1, <3>2, <4>1, <4>2, LineHas
        <5>2. QED
          BY <2>4, <5>1
      <4>3. CASE ~Literal(Item(i))
        <5>1. ~Consumed(Item(i))
          BY <4>3 DEF Consumed
        <5>2. Node(i, i) \in Range(LineOf(a, i))
          BY <2>1, <3>2, <4>1, <5>1, LineHas
        <5>3. QED
          BY <2>4, <4>1, <5>2
      <4>4. QED
        BY <4>2, <4>3
    <3>3. CASE job.type # "css" /\ a.kind # "object"
      <4>1. Nodal(i)
        BY <2>2, <2>3, <3>3 DEF Nodal
      <4>2. Node(i, i) \in Range(LineOf(a, i))
        BY <2>1, <3>3, <4>1, LineHas
      <4>3. QED
        BY <2>2, <2>4, <4>2
    <3>4. QED
      BY <3>1, <3>2, <3>3
  <2>6. PICK v : v \in Range(LineOf(AreaOf(i), i)) /\ v.as \in Kinds
    BY <2>1, <2>5
  <2>7. v \in Range(Visits) /\ v.line = i /\ v.item = Item(i)
    BY <2>6, VisitsHave, LineVisit
  <2>8. PICK k \in DOMAIN Visits : v = Visits[k]
    BY <2>7 DEF Range
  <2>9. QED
    BY <2>6, <2>7, <2>8
<1>6. VisitReferences(Visits) = UNION {At(i) : i \in {j \in Lines : Parsed(j)}}
  <2> HIDE DEF Of, At, Kinds
  <2>1. QED
    BY <1>3, <1>4, <1>5
<1>7. QED
  BY <1>2, <1>6 DEF Referenced

\* The imports visited before an element are those of the lines above it.
LEMMA SeenBefore ==
  ASSUME Readable, InPlace, IsText(text), NEW k \in DOMAIN Visits, Visits[k].as = "tag"
  PROVE  Before(Visits[k].line)
           = {Visits[j].item : j \in {h \in 1..(k - 1) : Visits[h].as = "import"}}
<1>1. PICK n \in Nat : DOMAIN Visits = 1..n /\ \A j \in 1..n : Visits[j] \in Visited
  BY VisitsType, LenProperties, ElementOfSeq
<1>2. k \in 1..n /\ \A j \in 1..n : Visits[j] \in Range(Visits)
  BY <1>1 DEF Range
<1>3. ASSUME NEW j \in 1..n, Visits[j].as \in Moves
      PROVE  \E i \in Lines : /\ Visits[j].line = i /\ Visits[j].item = Item(i)
                              /\ Visits[j].as = Item(i).kind
  <2>1. PICK v \in Range(Visits) : v = Visits[j] /\ v.as # "error"
    BY <1>2, <1>3 DEF Moves
  <2>2. PICK i \in Lines : v \in Range(LineOf(AreaOf(i), i))
    BY <2>1, VisitsHave
  <2>3. QED
    BY <1>3, <2>1, <2>2, LineVisit
<1>4. Lines \subseteq Nat \ {0}
  BY ReadableFacts
<1>5. PICK line \in Lines : Visits[k].line = line /\ Item(line).kind = "tag"
  BY <1>2, <1>3 DEF Moves
<1>6. \A i, j \in 1..n : /\ i < j /\ Visits[i].as \in Moves /\ Visits[j].as \in Moves
                         => Visits[i].line < Visits[j].line
  BY <1>1, VisitsOrdered DEF Ordered, InTurn
<1>7. ASSUME NEW m \in Before(line)
      PROVE  \E h \in 1..(k - 1) : Visits[h].as = "import" /\ Visits[h].item = m
  <2>1. PICK i \in 1..(line - 1) : Item(i) = m /\ m \in Imports
    BY <1>7 DEF Before
  <2>2. m.kind = "import"
    BY <2>1 DEF Imports
  <2>3. i \in Lines
    <3>1. line \in 1..Len(text) /\ Lines = 1..Len(text) /\ Len(text) \in Nat
      BY ReadableFacts
    <3>2. QED
      BY <3>1
  <2>4. PICK a \in Range(job.areas) : a = AreaOf(i) /\ i \in a.first..a.last
    BY <2>3, AreasFacts
  <2>5. job.type # "css" /\ a.kind # "object"
    <3>1. /\ job.type = "css" => Item(i).kind \in {"declaration", "blank", "broken"}
          /\ job.type # "css" /\ a.kind = "object" => Item(i).kind = "blank" \/ OfAttribute(i)
      BY <2>3, <2>4, LineSuits
    <3>2. QED
      BY <2>1, <2>2, <3>1 DEF OfAttribute, IsEntry
  <2>6. Node(i, i) \in Range(LineOf(AreaOf(i), i))
    BY <2>1, <2>2, <2>4, <2>5, LineHas DEF Nodal
  <2>7. PICK h \in 1..n : Visits[h] = Node(i, i)
    BY <1>1, <2>3, <2>6, VisitsHave DEF Range
  <2>8. Visits[h].as = "import" /\ Visits[h].item = m /\ Visits[h].line = i
    BY <2>1, <2>2, <2>7 DEF Node, Visit
  <2>9. h < k
    <3>1. i < line /\ i \in Nat
      BY <1>4, <2>3
    <3>2. ~(k < h)
      BY <1>2, <1>4, <1>5, <1>6, <2>8, <3>1 DEF Moves
    <3>3. h # k
      BY <2>8
    <3>4. QED
      BY <1>2, <3>2, <3>3
  <2>10. QED
    BY <1>2, <2>8, <2>9
<1>8. ASSUME NEW h \in 1..(k - 1), Visits[h].as = "import"
      PROVE  Visits[h].item \in Before(line)
  <2>1. h \in 1..n /\ h < k
    BY <1>2
  <2>2. PICK i \in Lines : Visits[h].line = i /\ Visits[h].item = Item(i) /\ Item(i).kind = "import"
    BY <1>3, <1>8, <2>1 DEF Moves
  <2>3. i < line
    BY <1>2, <1>5, <1>6, <1>8, <2>1, <2>2 DEF Moves
  <2>4. i \in 1..(line - 1)
    BY <1>4, <2>2, <2>3
  <2>5. QED
    BY <2>2, <2>4 DEF Before, Imports
<1>9. QED
  BY <1>5, <1>7, <1>8 DEF Before

----------------------------------------------------------------------------
(* The comments.                                                           *)

\* The rules that the blocks of comments disable on a line.
Opens(j, i) == /\ Directive(j).d = "disable"
               /\ \A k \in (j + 1)..i : Directive(k).d \notin {"enable", "disable"}
Under(i) == {w \in UNION {Directive(j).rules : j \in 1..i} :
               \E j \in 1..i : Opens(j, i) /\ w \in Directive(j).rules}

\* The rules in force after a line are those of a block that is still open.
LEMMA InBlockIs ==
  ASSUME NEW i \in Nat
  PROVE  \A w : w \in InBlock[i] <=> \E j \in 1..i : Opens(j, i) /\ w \in Directive(j).rules
<1> DEFINE body(g, k) == IF k = 0 THEN {}
                         ELSE CASE Directive(k).d = "disable" -> Directive(k).rules
                                [] Directive(k).d = "enable" -> {}
                                [] OTHER -> g[k - 1]
           IsWalk(g) == g = [k \in Nat |-> body(g, k)]
           under == [k \in Nat |-> Under(k)]
           block == CHOOSE g : IsWalk(g)
<1>1. \A k, w : w \in Under(k) <=> \E j \in 1..k : Opens(j, k) /\ w \in Directive(j).rules
  BY DEF Under
<1>2. ASSUME NEW k \in Nat PROVE Under(k) = body(under, k)
  <2>1. CASE k = 0
    <3>1. Under(k) = {}
      BY <2>1, <1>1
    <3>2. QED
      BY <2>1, <3>1
  <2>2. CASE k # 0
    <3>1. k \in 1..k /\ k - 1 \in Nat /\ under[k - 1] = Under(k - 1)
      BY <2>2
    <3>2. \A j \in 1..k : j = k \/ j \in 1..(k - 1)
      OBVIOUS
    <3>3. \A j \in 1..(k - 1) : j \in 1..k /\ k \in (j + 1)..k
      BY <2>2
    <3>4. ~\E h : h \in (k + 1)..k
      OBVIOUS
    <3>5. CASE Directive(k).d = "disable"
      <4>1. \A j \in 1..(k - 1) : ~Opens(j, k)
        BY <3>3, <3>5 DEF Opens
      <4>2. Opens(k, k)
        BY <3>4, <3>5 DEF Opens
      <4>3. \A w : w \in Under(k) <=> w \in Directive(k).rules
        BY <1>1, <3>1, <3>2, <4>1, <4>2
      <4>4. body(under, k) = Directive(k).rules
        BY <2>2, <3>5
      <4> HIDE DEF body
      <4>5. QED
        BY <4>3, <4>4
    <3>6. CASE Directive(k).d = "enable"
      <4>1. \A j \in 1..(k - 1) : ~Opens(j, k)
        BY <3>3, <3>6 DEF Opens
      <4>2. ~Opens(k, k)
        BY <3>6 DEF Opens
      <4>3. \A w : w \notin Under(k)
        BY <1>1, <3>2, <4>1, <4>2
      <4>4. body(under, k) = {}
        BY <2>2, <3>6
      <4> HIDE DEF body
      <4>5. QED
        BY <4>3, <4>4
    <3>7. CASE Directive(k).d \notin {"enable", "disable"}
      <4>1. ~Opens(k, k)
        BY <3>7 DEF Opens
      <4>2. \A j \in 1..(k - 1) : Opens(j, k) <=> Opens(j, k - 1)
        <5>1. ASSUME NEW j \in 1..(k - 1) PROVE Opens(j, k) <=> Opens(j, k - 1)
          <6>1. \A h \in (j + 1)..k : h = k \/ h \in (j + 1)..(k - 1)
            OBVIOUS
          <6>2. \A h \in (j + 1)..(k - 1) : h \in (j + 1)..k
            OBVIOUS
          <6>3. QED
            BY <3>7, <6>1, <6>2 DEF Opens
        <5>2. QED
          BY <5>1
      <4>3. \A w : w \in Under(k) <=> w \in Under(k - 1)
        BY <1>1, <3>2, <3>3, <4>1, <4>2
      <4>4. body(under, k) = Under(k - 1)
        BY <2>2, <3>1, <3>7
      <4> HIDE DEF body
      <4>5. QED
        BY <4>3, <4>4
    <3>8. QED
      BY <3>5, <3>6, <3>7
  <2>3. QED
    BY <2>1, <2>2
<1>3. IsWalk(under)
  <2> HIDE DEF body
  <2>1. QED
    BY <1>2
<1>4. IsWalk(block)
  <2> HIDE DEF IsWalk
  <2>1. QED
    BY <1>3
<1>5. InBlock = block
  BY DEF InBlock
<1> DEFINE G == {k \in 0..i : block[k] = Under(k)}
<1>6. \A k \in 0..i : k \in G
  <2>1. \A k \in Nat : block[k] = body(block, k)
    <3> HIDE DEF block, body
    <3>1. QED
      BY <1>4
  <2>2. 0 \in G
    <3>1. body(block, 0) = {} /\ body(under, 0) = {} /\ 0 \in 0..i /\ 0 \in Nat
      OBVIOUS
    <3> HIDE DEF block, body, under
    <3>2. QED
      BY <1>2, <2>1, <3>1
  <2>3. ASSUME NEW k \in 0..(i - 1), k \in G PROVE k + 1 \in G
    <3>1. k + 1 \in Nat /\ k + 1 # 0 /\ (k + 1) - 1 = k /\ k + 1 \in 0..i /\ k \in Nat
      OBVIOUS
    <3>2. block[k] = under[k]
      <4>1. block[k] = Under(k)
        BY <2>3
      <4> HIDE DEF block
      <4>2. QED
        BY <3>1, <4>1
    <3>3. body(block, k + 1) = body(under, k + 1)
      <4>1. /\ body(block, k + 1) = CASE Directive(k + 1).d = "disable" -> Directive(k + 1).rules
                                      [] Directive(k + 1).d = "enable" -> {}
                                      [] OTHER -> block[k]
            /\ body(under, k + 1) = CASE Directive(k + 1).d = "disable" -> Directive(k + 1).rules
                                      [] Directive(k + 1).d = "enable" -> {}
                                      [] OTHER -> under[k]
        BY <3>1
      <4> HIDE DEF block, body, under
      <4>2. QED
        BY <3>2, <4>1
    <3> HIDE DEF block, body, under
    <3>4. QED
      BY <1>2, <2>1, <3>1, <3>3
  <2> HIDE DEF G
  <2>4. QED
    BY <2>2, <2>3, Climb
<1>7. InBlock[i] = Under(i)
  <2>1. i \in 0..i
    OBVIOUS
  <2> HIDE DEF block
  <2>2. QED
    BY <1>5, <1>6, <2>1
<1>8. QED
  BY <1>1, <1>7

\* A message is left out when a comment hides its rule on its line.
LEMMA SuppressedIs ==
  ASSUME NEW m, m.line \in Nat
  PROVE  Suppressed(m) <=> HiddenBy(m.line, m.rule)
<1> DEFINE i == m.line
           Hit(s) == s \cap {"*", m.rule} # {}
<1>1. \A j : Covers(j, m.rule) <=> Hit(Directive(j).rules)
  BY DEF Covers
<1>2. \A s, t : Hit(s \cup t) <=> Hit(s) \/ Hit(t)
  OBVIOUS
<1>3. Directive(i).d = "none" =>
        (Hit(InBlock[i]) <=> \E j \in 1..(i - 1) :
           /\ Directive(j).d = "disable" /\ Covers(j, m.rule)
           /\ \A k \in (j + 1)..(i - 1) : Directive(k).d \notin {"enable", "disable"})
  <2> SUFFICES ASSUME Directive(i).d = "none"
               PROVE  Hit(InBlock[i]) <=> \E j \in 1..(i - 1) :
                        /\ Directive(j).d = "disable" /\ Covers(j, m.rule)
                        /\ \A k \in (j + 1)..(i - 1) : Directive(k).d \notin {"enable", "disable"}
    OBVIOUS
  <2>1. \A j \in 1..i : Opens(j, i) <=>
          /\ j \in 1..(i - 1) /\ Directive(j).d = "disable"
          /\ \A k \in (j + 1)..(i - 1) : Directive(k).d \notin {"enable", "disable"}
    <3>1. ASSUME NEW j \in 1..i
          PROVE  Opens(j, i) <=>
                   /\ j \in 1..(i - 1) /\ Directive(j).d = "disable"
                   /\ \A k \in (j + 1)..(i - 1) : Directive(k).d \notin {"enable", "disable"}
      <4>1. j = i \/ j \in 1..(i - 1)
        OBVIOUS
      <4>2. \A h \in (j + 1)..i : h = i \/ h \in (j + 1)..(i - 1)
        OBVIOUS
      <4>3. \A h \in (j + 1)..(i - 1) : h \in (j + 1)..i
        OBVIOUS
      <4>4. QED
        BY <4>1, <4>2, <4>3 DEF Opens
    <3>2. QED
      BY <3>1
  <2>2. \A j \in 1..(i - 1) : j \in 1..i
    OBVIOUS
  <2>3. \A w : w \in InBlock[i] <=> \E j \in 1..i : Opens(j, i) /\ w \in Directive(j).rules
    BY InBlockIs
  <2>4. Hit(InBlock[i]) <=> \E j \in 1..i : Opens(j, i) /\ Hit(Directive(j).rules)
    BY <2>3
  <2> HIDE DEF Hit
  <2>5. QED
    BY <1>1, <2>1, <2>2, <2>4
<1>4. Suppressed(m) <=> Hit(Disabled(i))
  BY DEF Suppressed
<1>5. Hit(Disabled(i)) <=> \/ Directive(i - 1).d = "next" /\ Hit(Directive(i - 1).rules)
                           \/ Directive(i).d = "line" /\ Hit(Directive(i).rules)
                           \/ Directive(i).d = "none" /\ Hit(InBlock[i])
  <2>1. ~Hit({})
    OBVIOUS
  <2> HIDE DEF Hit
  <2>2. QED
    BY <1>2, <2>1 DEF Disabled
<1> HIDE DEF Hit
<1>6. QED
  BY <1>1, <1>3, <1>4, <1>5 DEF HiddenBy

----------------------------------------------------------------------------
(* How often a rule is heard.                                              *)

MsgAt(r, i) == [m \in Msg |-> IF m.rule = r /\ m.line = i THEN 1 ELSE 0]
ErrorOf(r) == [m \in Msg |-> IF m.rule = "runtime-error" /\ m.of = r THEN 1 ELSE 0]
ARule(r) == r \in STRING /\ r # "parse-error" /\ r # "runtime-error"

\* Messages can be counted by rule and line, and by failing rule.
LEMMA WeightsType ==
  ASSUME NEW r, NEW i
  PROVE  MsgAt(r, i) \in [Msg -> Nat] /\ ErrorOf(r) \in [Msg -> Nat]
BY DEF MsgAt, ErrorOf

\* What a rule reports on a visit, counted.
LEMMA ReportedTotals ==
  ASSUME NEW v \in Visited, v.hook # "error", NEW q, ARule(q), NEW r, ARule(r), NEW i
  PROVE  /\ Total(Reported(q, v), MsgAt(r, i)) = IF q = r /\ v.line = i THEN Len(Reports(r, v)) ELSE 0
         /\ Total(Reported(q, v), ErrorOf(r)) = 0
<1>1. PICK s \in Seq(Msg), n \in Nat : s = Reported(q, v) /\ n = Len(s) /\ n = Len(Reports(q, v))
  BY ReportedType, LenProperties DEF ARule
<1>2. \A k \in 1..n : s[k] \in Msg /\ s[k].rule = q /\ s[k].line = v.line
  <2>1. \A k \in 1..n : s[k] = Message(q, q, v.line, FixAt(v.off, Reports(q, v)[k]))
    BY <1>1, ReportedType DEF ARule
  <2>2. \A k \in 1..n : s[k] \in Msg
    BY <1>1, ElementOfSeq
  <2>3. \A x : Message(q, q, v.line, x).rule = q /\ Message(q, q, v.line, x).line = v.line
    BY DEF Message
  <2>4. QED
    BY <2>1, <2>2, <2>3
<1>3. CASE q = r /\ v.line = i
  <2>1. \A k \in 1..Len(s) : MsgAt(r, i)[s[k]] = 1
    BY <1>1, <1>2, <1>3 DEF MsgAt
  <2>2. \A k \in 1..Len(s) : ErrorOf(r)[s[k]] = 0
    BY <1>1, <1>2, <1>3 DEF ErrorOf, ARule
  <2>3. QED
    BY <1>1, <1>3, <2>1, <2>2, TotalOnes, TotalZero, WeightsType, ZenonT(30)
<1>4. CASE ~(q = r /\ v.line = i)
  <2>1. \A k \in 1..Len(s) : MsgAt(r, i)[s[k]] = 0
    BY <1>1, <1>2, <1>4 DEF MsgAt
  <2>2. \A k \in 1..Len(s) : ErrorOf(r)[s[k]] = 0
    BY <1>1, <1>2 DEF ErrorOf, ARule
  <2>3. QED
    BY <1>1, <1>4, <2>1, <2>2, TotalZero, WeightsType
<1>5. QED
  BY <1>3, <1>4

\* What a listener is heard with: nothing once it failed, and no more than
\* its reports when it throws.
LEMMA HeardTotals ==
  ASSUME NEW v \in Visited, v.hook # "error", NEW q, ARule(q), NEW r, ARule(r), NEW i,
         NEW throwing, NEW late \in BOOLEAN
  PROVE  LET h == Heard(v, throwing, late, q)
             most == IF v.line = i THEN Len(Reports(r, v)) ELSE 0
         IN  /\ q # r => Total(h, MsgAt(r, i)) = 0 /\ Total(h, ErrorOf(r)) = 0
             /\ q = r => /\ Total(h, MsgAt(r, i)) <= most
                         /\ r \notin throwing /\ <<r, v.hook>> \notin failed =>
                              Total(h, MsgAt(r, i)) = most
                         /\ Total(h, ErrorOf(r))
                              = IF r \in throwing /\ <<r, v.hook>> \notin failed THEN 1 ELSE 0
<1> DEFINE h == Heard(v, throwing, late, q)
           most == IF v.line = i THEN Len(Reports(r, v)) ELSE 0
<1>1. PICK s, f, g : s = Reported(q, v) /\ f = MsgAt(r, i) /\ g = ErrorOf(r)
  OBVIOUS
<1>1a. s \in Seq(Msg)
  BY <1>1, ReportedType DEF ARule
<1>2. f \in [Msg -> Nat] /\ g \in [Msg -> Nat]
  BY <1>1, WeightsType
<1>3. Total(s, f) = (IF q = r THEN most ELSE 0) /\ Total(s, g) = 0
  BY <1>1, ReportedTotals
<1>4. most \in Nat
  BY ReportsType, LenProperties
<1>5. PICK e \in Msg : e = RuntimeError(q, v.line) /\ e.rule = "runtime-error" /\ e.of = q
  BY RuntimeErrorType DEF ARule, Visited, RuntimeError, Message
<1>6. f[e] = 0 /\ g[e] = IF q = r THEN 1 ELSE 0
  BY <1>1, <1>5 DEF MsgAt, ErrorOf, ARule
<1>7. /\ Total(<<e>>, f) = 0 /\ Total(<<e>>, g) = IF q = r THEN 1 ELSE 0
      /\ Total(<<>>, f) = 0 /\ Total(<<>>, g) = 0
  BY <1>2, <1>6, TotalOne, TotalEmpty
<1>8. <<e>> \in Seq(Msg) /\ <<>> \in Seq(Msg)
  BY EmptySeq
<1> HIDE DEF most
<1>9. CASE <<q, v.hook>> \in failed
  <2>1. h = <<>>
    BY <1>9 DEF Heard
  <2> HIDE DEF h
  <2>2. QED
    BY <1>1, <1>4, <1>7, <1>9, <2>1 DEF h, most
<1>10. CASE <<q, v.hook>> \notin failed /\ q \in throwing
  <2>1. PICK t \in Seq(Msg) : t = IF late THEN s ELSE <<>>
    BY <1>1a, <1>8
  <2>2. h = t \o <<e>>
    BY <1>1, <1>5, <1>10, <2>1 DEF Heard
  <2>3. Total(t, f) = (IF late /\ q = r THEN most ELSE 0) /\ Total(t, g) = 0
    BY <1>3, <1>7, <2>1
  <2>4. PICK o \in Seq(Msg) : o = <<e>>
    BY <1>8
  <2>5. Total(t \o o, f) = Total(t, f) + Total(o, f) /\ Total(t \o o, g) = Total(t, g) + Total(o, g)
    BY <1>2, TotalConcat
  <2> HIDE DEF h
  <2>6. Total(h, f) = (IF late /\ q = r THEN most ELSE 0) /\ Total(h, g) = IF q = r THEN 1 ELSE 0
    BY <1>4, <1>7, <2>2, <2>3, <2>4, <2>5
  <2>7. QED
    BY <1>1, <1>4, <1>10, <2>6 DEF h, most
<1>11. CASE <<q, v.hook>> \notin failed /\ q \notin throwing
  <2>1. h = s
    BY <1>1, <1>11 DEF Heard
  <2> HIDE DEF h
  <2>2. QED
    BY <1>1, <1>3, <1>4, <1>11, <2>1 DEF h, most
<1>12. QED
  BY <1>9, <1>10, <1>11

\* Of the listeners, only that of the rule is heard for it.
LEMMA DispatchedTotals ==
  ASSUME NEW v \in Visited, v.hook # "error", NEW r, ARule(r), NEW i,
         NEW throwing, NEW late \in BOOLEAN,
         listeners \in Seq(STRING), IsInjective(listeners), \A q \in Range(listeners) : ARule(q)
  PROVE  LET d == Dispatched(v, throwing, late)
             h == Heard(v, throwing, late, r)
         IN  /\ r \in Range(listeners) => /\ Total(d, MsgAt(r, i)) = Total(h, MsgAt(r, i))
                                          /\ Total(d, ErrorOf(r)) = Total(h, ErrorOf(r))
             /\ r \notin Range(listeners) => Total(d, MsgAt(r, i)) = 0 /\ Total(d, ErrorOf(r)) = 0
<1> DEFINE d == Dispatched(v, throwing, late)
<1>1. PICK n \in Nat : n = Len(listeners) /\ DOMAIN listeners = 1..n
  BY LenProperties
<1>2. PICK ss \in [1..n -> Seq(Msg)] :
        ss = [k \in 1..n |-> Heard(v, throwing, late, listeners[k])] /\ d = FlattenSeq(ss)
  BY <1>1, DispatchedType
<1>3. ss \in Seq(Seq(Msg)) /\ Len(ss) = n
  BY PiecesType
<1>4. \A k \in 1..n : /\ ss[k] = Heard(v, throwing, late, listeners[k])
                      /\ listeners[k] \in Range(listeners) /\ ARule(listeners[k])
  BY <1>1, <1>2 DEF Range
<1>5. ASSUME NEW g \in {MsgAt(r, i), ErrorOf(r)}
      PROVE  /\ r \in Range(listeners) => Total(d, g) = Total(Heard(v, throwing, late, r), g)
             /\ r \notin Range(listeners) => Total(d, g) = 0
  <2> DEFINE sum == [t \in Seq(Msg) |-> Total(t, g)]
  <2>1. g \in [Msg -> Nat]
    BY WeightsType
  <2>2. sum \in [Seq(Msg) -> Nat] /\ Total(FlattenSeq(ss), g) = Total(ss, sum)
    BY <1>3, <2>1, TotalFlat
  <2>3. ASSUME NEW k \in 1..n, listeners[k] # r PROVE sum[ss[k]] = 0
    <3>1. sum[ss[k]] = Total(ss[k], g)
      OBVIOUS
    <3>2. Total(Heard(v, throwing, late, listeners[k]), g) = 0
      <4>1. PICK q : q = listeners[k] /\ ARule(q) /\ q # r
        BY <1>4, <2>3
      <4>2. /\ Total(Heard(v, throwing, late, q), MsgAt(r, i)) = 0
            /\ Total(Heard(v, throwing, late, q), ErrorOf(r)) = 0
        BY <4>1, HeardTotals
      <4>3. QED
        BY <4>1, <4>2
    <3> HIDE DEF sum
    <3>3. QED
      BY <1>4, <3>1, <3>2
  <2>4. \A k \in 1..n : sum[ss[k]] = Total(ss[k], g)
    OBVIOUS
  <2> HIDE DEF sum
  <2>5. PICK T : T = Seq(Msg)
    OBVIOUS
  <2>6. ss \in Seq(T) /\ sum \in [T -> Nat]
    BY <1>3, <2>2, <2>5
  <2>7. ASSUME r \in Range(listeners) PROVE Total(d, g) = Total(Heard(v, throwing, late, r), g)
    <3>1. PICK k \in 1..n : listeners[k] = r
      BY <1>1, <2>7 DEF Range
    <3>2. \A j \in 1..n : j # k => listeners[j] # r
      BY <1>1, <3>1 DEF IsInjective
    <3>3. \A j \in 1..Len(ss) : j # k => sum[ss[j]] = 0
      BY <1>3, <2>3, <3>2
    <3>4. Total(ss, sum) = sum[ss[k]]
      BY <1>3, <2>6, <3>3, TotalOnly
    <3>5. QED
      BY <1>2, <1>4, <2>2, <2>4, <3>1, <3>4
  <2>8. ASSUME r \notin Range(listeners) PROVE Total(d, g) = 0
    <3>1. \A j \in 1..Len(ss) : sum[ss[j]] = 0
      BY <1>3, <1>4, <2>3, <2>8
    <3>2. Total(ss, sum) = 0
      BY <2>6, <3>1, TotalZero
    <3>3. QED
      BY <1>2, <2>2, <3>2
  <2>9. QED
    BY <2>7, <2>8
<1> HIDE DEF d
<1>6. QED
  BY <1>5 DEF d

-----------------------------------------------------------------------------
(***************************************************************************)
(* A pass, step by step: what is reported and what is still to be said.    *)
(***************************************************************************)

\* Of a sequence the head is counted, then the rest.
LEMMA TotalSplit ==
  ASSUME NEW S, NEW s \in Seq(S), s # <<>>, NEW g \in [S -> Nat]
  PROVE  Total(s, g) = g[Head(s)] + Total(Tail(s), g)
<1>1. Head(s) \in S /\ Tail(s) \in Seq(S) /\ <<Head(s)>> \in Seq(S)
  BY HeadAndTail
<1>2. s = <<Head(s)>> \o Tail(s)
  BY <1>1
<1>3. Total(s, g) = Total(<<Head(s)>>, g) + Total(Tail(s), g)
  BY <1>1, <1>2, TotalConcat, ZenonT(30)
<1>. QED
  BY <1>1, <1>3, TotalOne

\* A rule says of a visit what the line it is on makes it say: only tags are
\* read against the imports seen, and those are the ones before it.
LEMMA SaidNow ==
  ASSUME NEW v \in Visited, v.hook # "error", v.as = "tag" => seen = Before(v.line), NEW r
  PROVE  Reports(r, v) = Said(r, v)
<1>1. v.as \in {"declaration", "entry", "attribute", "string", "tag", "import", "error"}
  BY DEF Visited
<1>2. CASE v.as = "tag"
  BY <1>2 DEF Reports, Said
<1>3. CASE v.as # "tag"
  <2>1. OnNode(r, v.as, v.item, seen, Imports, Scope)
          = OnNode(r, v.as, v.item, Before(v.line), Imports, Scope)
    BY <1>1, <1>3 DEF OnNode
  <2>. QED
    BY <2>1 DEF Reports, Said
<1>. QED
  BY <1>2, <1>3

\* What a dispatch adds to the messages of a rule is what it takes from
\* those to come; it takes more when the rule does not listen, or throws.
LEMMA DispatchAccount ==
  ASSUME messages \in Seq(Msg), due \in Seq(Visited), due # <<>>, Head(due).hook # "error",
         Head(due).as = "tag" => seen = Before(Head(due).line),
         listeners \in Seq(STRING), IsInjective(listeners), \A q \in Range(listeners) : ARule(q),
         NEW r, ARule(r), NEW i, NEW throwing, NEW late \in BOOLEAN
  PROVE  LET d == Dispatched(Head(due), throwing, late)
             after == Total(messages \o d, MsgAt(r, i)) + Total(Tail(due), Expect(r, i))
             before == Total(messages, MsgAt(r, i)) + Total(due, Expect(r, i))
         IN  /\ after <= before
             /\ r \in Range(listeners) /\ r \notin throwing /\ <<r, Head(due).hook>> \notin failed
                  => after = before
<1>. DEFINE v == Head(due)
            d == Dispatched(v, throwing, late)
            h == Heard(v, throwing, late, r)
            most == IF v.line = i THEN Len(Reports(r, v)) ELSE 0
<1>1. v \in Visited /\ Tail(due) \in Seq(Visited)
  BY HeadAndTail
<1>2. v.line \in Nat
  BY <1>1 DEF Visited
<1>3. Reports(r, v) = Said(r, v) /\ Len(Said(r, v)) \in Nat
  BY <1>1, SaidNow, SaidType
<1>4. Expect(r, i)[v] = most
  BY <1>1, <1>3 DEF Expect
<1>5. most \in Nat
  BY <1>3
<1>6. Expect(r, i) \in [Visited -> Nat] /\ MsgAt(r, i) \in [Msg -> Nat]
  BY ExpectType, WeightsType
<1>7. Total(due, Expect(r, i)) = most + Total(Tail(due), Expect(r, i))
  <2>1. Total(due, Expect(r, i)) = Expect(r, i)[Head(due)] + Total(Tail(due), Expect(r, i))
    BY <1>6, TotalSplit
  <2>. QED
    BY <2>1, <1>4
<1>8. d \in Seq(Msg)
  BY <1>1, DispatchedType
<1>9. Total(messages \o d, MsgAt(r, i)) = Total(messages, MsgAt(r, i)) + Total(d, MsgAt(r, i))
  BY <1>6, <1>8, TotalConcat
<1>10. /\ Total(messages, MsgAt(r, i)) \in Nat /\ Total(d, MsgAt(r, i)) \in Nat
       /\ Total(Tail(due), Expect(r, i)) \in Nat
  <2>1. Total(messages, MsgAt(r, i)) \in Nat
    BY <1>6, TotalType
  <2>2. Total(d, MsgAt(r, i)) \in Nat
    BY <1>6, <1>8, TotalType
  <2>3. Total(Tail(due), Expect(r, i)) \in Nat
    BY <1>1, <1>6, TotalType
  <2>. QED
    BY <2>1, <2>2, <2>3
<1>11. /\ r \in Range(listeners) => Total(d, MsgAt(r, i)) = Total(h, MsgAt(r, i))
       /\ r \notin Range(listeners) => Total(d, MsgAt(r, i)) = 0
  BY <1>1, DispatchedTotals
<1>12. /\ Total(h, MsgAt(r, i)) <= most
       /\ r \notin throwing /\ <<r, v.hook>> \notin failed => Total(h, MsgAt(r, i)) = most
  BY <1>1, HeardTotals
<1>13. /\ Total(d, MsgAt(r, i)) <= most
       /\ r \in Range(listeners) /\ r \notin throwing /\ <<r, v.hook>> \notin failed
            => Total(d, MsgAt(r, i)) = most
  BY <1>5, <1>11, <1>12
<1>. HIDE DEF v, d, h, most
<1>14. /\ Total(messages \o d, MsgAt(r, i)) + Total(Tail(due), Expect(r, i))
            <= Total(messages, MsgAt(r, i)) + Total(due, Expect(r, i))
       /\ r \in Range(listeners) /\ r \notin throwing /\ <<r, v.hook>> \notin failed
            => Total(messages \o d, MsgAt(r, i)) + Total(Tail(due), Expect(r, i))
                 = Total(messages, MsgAt(r, i)) + Total(due, Expect(r, i))
  BY <1>5, <1>7, <1>9, <1>10, <1>13
<1>. QED
  BY <1>14 DEF v, d

\* The errors of a dispatch are those of the rules that threw in it.
LEMMA DispatchErrors ==
  ASSUME messages \in Seq(Msg), NEW v \in Visited, v.hook # "error",
         listeners \in Seq(STRING), IsInjective(listeners), \A q \in Range(listeners) : ARule(q),
         NEW r, ARule(r), NEW throwing, NEW late \in BOOLEAN
  PROVE  /\ Dispatched(v, throwing, late) \in Seq(Msg)
         /\ messages \o Dispatched(v, throwing, late) \in Seq(Msg)
         /\ Total(messages \o Dispatched(v, throwing, late), ErrorOf(r))
              <= Total(messages, ErrorOf(r)) + (IF r \in throwing THEN 1 ELSE 0)
<1>. DEFINE d == Dispatched(v, throwing, late)
            h == Heard(v, throwing, late, r)
<1>1. d \in Seq(Msg)
  BY DispatchedType
<1>2. ErrorOf(r) \in [Msg -> Nat]
  BY WeightsType
<1>3. Total(messages \o d, ErrorOf(r)) = Total(messages, ErrorOf(r)) + Total(d, ErrorOf(r))
  BY <1>1, <1>2, TotalConcat
<1>4. Total(messages, ErrorOf(r)) \in Nat /\ Total(d, ErrorOf(r)) \in Nat
  <2>1. Total(messages, ErrorOf(r)) \in Nat
    BY <1>2, TotalType
  <2>2. Total(d, ErrorOf(r)) \in Nat
    BY <1>1, <1>2, TotalType
  <2>. QED
    BY <2>1, <2>2
<1>5. /\ r \in Range(listeners) => Total(d, ErrorOf(r)) = Total(h, ErrorOf(r))
      /\ r \notin Range(listeners) => Total(d, ErrorOf(r)) = 0
  <2>1. PICK i : i = 0
    OBVIOUS
  <2>. QED
    BY DispatchedTotals
<1>6. Total(h, ErrorOf(r)) = IF r \in throwing /\ <<r, v.hook>> \notin failed THEN 1 ELSE 0
  <2>1. PICK i : i = 0
    OBVIOUS
  <2>2. /\ Total(h, MsgAt(r, i)) <= IF v.line = i THEN Len(Reports(r, v)) ELSE 0
        /\ Total(h, ErrorOf(r)) = IF r \in throwing /\ <<r, v.hook>> \notin failed THEN 1 ELSE 0
    BY HeardTotals, SMTT(30)
  <2>. QED
    BY <2>2
<1>7. Total(d, ErrorOf(r)) <= IF r \in throwing THEN 1 ELSE 0
  BY <1>5, <1>6
<1>8. messages \o d \in Seq(Msg)
  BY <1>1
<1>. HIDE DEF d, h
<1>9. Total(messages \o d, ErrorOf(r)) <= Total(messages, ErrorOf(r)) + (IF r \in throwing THEN 1 ELSE 0)
  BY <1>3, <1>4, <1>7
<1>. QED
  BY <1>1, <1>8, <1>9 DEF d

\* The failures of a rule can be counted.
FailuresOf(hooks, r) == Cardinality({h \in hooks : h[1] = r})
\* The failed hooks of a rule are finite in number.
LEMMA FailuresType ==
  ASSUME NEW hooks, hooks \subseteq MayThrow \X {"onNode", "onCSSDeclaration"}, NEW r
  PROVE  IsFiniteSet({h \in hooks : h[1] = r}) /\ FailuresOf(hooks, r) \in Nat
<1>. DEFINE old == {h \in hooks : h[1] = r}
<1>1. old \subseteq {<<r, "onNode">>, <<r, "onCSSDeclaration">>}
  <2>. SUFFICES ASSUME NEW h \in hooks, h[1] = r
                PROVE  h \in {<<r, "onNode">>, <<r, "onCSSDeclaration">>}
    OBVIOUS
  <2>1. PICK a \in MayThrow, b \in {"onNode", "onCSSDeclaration"} : h = <<a, b>>
    OBVIOUS
  <2>. QED
    BY <2>1
<1>2. IsFiniteSet({<<r, "onNode">>, <<r, "onCSSDeclaration">>})
  <2>1. IsFiniteSet({<<r, "onNode">>})
    BY FS_Singleton
  <2>2. IsFiniteSet({<<r, "onNode">>} \cup {<<r, "onCSSDeclaration">>})
    BY <2>1, FS_AddElement
  <2>3. {<<r, "onNode">>} \cup {<<r, "onCSSDeclaration">>} = {<<r, "onNode">>, <<r, "onCSSDeclaration">>}
    OBVIOUS
  <2>. QED
    BY <2>2, <2>3
<1>3. IsFiniteSet(old) /\ Cardinality(old) \in Nat
  BY <1>1, <1>2, FS_Subset, FS_CardinalityType
<1>. QED
  BY <1>3 DEF FailuresOf

\* A hook fails once: every rule that throws adds one to its failures.
LEMMA FailuresGrow ==
  ASSUME NEW hooks, hooks \subseteq MayThrow \X {"onNode", "onCSSDeclaration"},
         NEW hook \in {"onNode", "onCSSDeclaration"}, NEW throwing,
         \A x \in throwing : <<x, hook>> \notin hooks, NEW r
  PROVE  /\ FailuresOf(hooks, r) \in Nat
         /\ FailuresOf(hooks \cup {<<x, hook>> : x \in throwing}, r)
              = FailuresOf(hooks, r) + (IF r \in throwing THEN 1 ELSE 0)
<1>. DEFINE old == {h \in hooks : h[1] = r}
            now == {h \in hooks \cup {<<x, hook>> : x \in throwing} : h[1] = r}
<1>3. IsFiniteSet(old) /\ Cardinality(old) \in Nat
  BY FailuresType DEF FailuresOf
<1>4. CASE r \in throwing
  <2>1. now = old \cup {<<r, hook>>} /\ <<r, hook>> \notin old
    BY <1>4
  <2>. QED
    BY <2>1, <1>3, <1>4, FS_AddElement DEF FailuresOf
<1>5. CASE r \notin throwing
  <2>1. now = old
    BY <1>5
  <2>. HIDE DEF now, old
  <2>2. Cardinality(now) = Cardinality(old)
    BY <2>1
  <2>3. Cardinality(now) = Cardinality(old) + 0
    BY <2>2, <1>3
  <2>. USE DEF now, old
  <2>. QED
    BY <2>3, <1>3, <1>5 DEF FailuresOf
<1>. QED
  BY <1>4, <1>5, <1>3 DEF FailuresOf

\* A total of smaller weights is smaller.
LEMMA TotalAtMost ==
  ASSUME NEW S, NEW s \in Seq(S), NEW g \in [S -> Nat], NEW h \in [S -> Nat],
         \A x \in S : g[x] <= h[x]
  PROVE  Total(s, g) <= Total(s, h)
<1>. DEFINE n == Len(s)
<1>1. n \in Nat /\ \A i \in 1..n : s[i] \in S
  OBVIOUS
<1>2. PICK f \in [0..Len(s) -> Nat] :
        f[0] = 0 /\ (\A i \in 1..Len(s) : f[i] = f[i - 1] + g[s[i]]) /\ f[Len(s)] = Total(s, g)
  BY TotalBySteps
<1>3. PICK e \in [0..Len(s) -> Nat] :
        e[0] = 0 /\ (\A i \in 1..Len(s) : e[i] = e[i - 1] + h[s[i]]) /\ e[Len(s)] = Total(s, h)
  BY TotalBySteps
<1>. DEFINE G == {i \in 0..n : f[i] <= e[i]}
<1>4. 0 \in G
  BY <1>1, <1>2, <1>3
<1>5. ASSUME NEW i \in 0..(n - 1), i \in G PROVE i + 1 \in G
  <2>1. i + 1 \in 1..n /\ (i + 1) - 1 = i /\ i \in 0..n /\ i + 1 \in 0..n
    BY <1>1
  <2>2. f[i + 1] = f[i] + g[s[i + 1]]
    BY <1>2, <2>1
  <2>3. e[i + 1] = e[i] + h[s[i + 1]]
    BY <1>3, <2>1
  <2>4. s[i + 1] \in S
    BY <1>1, <2>1
  <2>5. g[s[i + 1]] \in Nat /\ h[s[i + 1]] \in Nat /\ g[s[i + 1]] <= h[s[i + 1]]
    BY <2>4
  <2>6. f[i] \in Nat /\ e[i] \in Nat /\ f[i] <= e[i]
    BY <1>2, <1>3, <1>5, <2>1
  <2>7. f[i + 1] <= e[i + 1]
    BY <2>2, <2>3, <2>5, <2>6
  <2>. QED
    BY <2>1, <2>7
<1>6. \A i \in 0..n : i \in G
  <2>. HIDE DEF G, n
  <2>. QED
    BY <1>1, <1>4, <1>5, Climb
<1>7. f[n] <= e[n]
  BY <1>1, <1>6
<1>. QED
  BY <1>2, <1>3, <1>7

\* One more message.
LEMMA MessageMore ==
  ASSUME messages \in Seq(Msg), NEW m \in Msg, NEW g \in [Msg -> Nat]
  PROVE  /\ Append(messages, m) = messages \o <<m>>
         /\ Total(messages \o <<m>>, g) = Total(messages, g) + g[m]
<1>1. <<m>> \in Seq(Msg)
  OBVIOUS
<1>2. Total(messages \o <<m>>, g) = Total(messages, g) + Total(<<m>>, g)
  BY <1>1, TotalConcat
<1>3. Append(messages, m) = messages \o <<m>>
  OBVIOUS
<1>. QED
  BY <1>2, <1>3, TotalOne

\* The comments hide the messages of a rule on a line, all or none, and
\* perhaps an error of the linter.
LEMMA FilteredTotals ==
  ASSUME messages \in Seq(Msg), NEW r, NEW i
  PROVE  /\ Total(KeepIn(messages, Heeded), MsgAt(r, i))
              = IF HiddenBy(i, r) THEN 0 ELSE Total(messages, MsgAt(r, i))
         /\ Total(KeepIn(messages, Heeded), ErrorOf(r)) <= Total(messages, ErrorOf(r))
<1>. DEFINE some(g) == [x \in Msg |-> IF x \in Heeded THEN g[x] ELSE 0]
<1>1. MsgAt(r, i) \in [Msg -> Nat] /\ ErrorOf(r) \in [Msg -> Nat]
  BY WeightsType
<1>2. /\ some(MsgAt(r, i)) \in [Msg -> Nat]
      /\ Total(KeepIn(messages, Heeded), MsgAt(r, i)) = Total(messages, some(MsgAt(r, i)))
  <2>1. PICK g, A : g = MsgAt(r, i) /\ A = Heeded
    OBVIOUS
  <2>2. /\ [x \in Msg |-> IF x \in A THEN g[x] ELSE 0] \in [Msg -> Nat]
        /\ Total(KeepIn(messages, A), g) = Total(messages, [x \in Msg |-> IF x \in A THEN g[x] ELSE 0])
    BY <1>1, <2>1, KeepTotal
  <2>. QED
    BY <2>1, <2>2
<1>3. /\ some(ErrorOf(r)) \in [Msg -> Nat]
      /\ Total(KeepIn(messages, Heeded), ErrorOf(r)) = Total(messages, some(ErrorOf(r)))
  <2>1. PICK g, A : g = ErrorOf(r) /\ A = Heeded
    OBVIOUS
  <2>2. /\ [x \in Msg |-> IF x \in A THEN g[x] ELSE 0] \in [Msg -> Nat]
        /\ Total(KeepIn(messages, A), g) = Total(messages, [x \in Msg |-> IF x \in A THEN g[x] ELSE 0])
    BY <1>1, <2>1, KeepTotal, SMTT(30)
  <2>. QED
    BY <2>1, <2>2
<1>4. \A x \in Msg : x.line \in Nat
  BY DEF Msg
<1>5. \A x \in Msg : x.rule = r /\ x.line = i => (x \in Heeded <=> ~HiddenBy(i, r))
  <2>. SUFFICES ASSUME NEW x \in Msg, x.rule = r, x.line = i
                PROVE  x \in Heeded <=> ~HiddenBy(i, r)
    OBVIOUS
  <2>1. Suppressed(x) <=> HiddenBy(x.line, x.rule)
    BY <1>4, SuppressedIs
  <2>. QED
    BY <2>1 DEF Heeded
<1>6. Total(KeepIn(messages, Heeded), ErrorOf(r)) <= Total(messages, ErrorOf(r))
  <2>1. \A x \in Msg : some(ErrorOf(r))[x] <= ErrorOf(r)[x]
    BY <1>1 DEF ErrorOf
  <2>2. Total(messages, some(ErrorOf(r))) <= Total(messages, ErrorOf(r))
    <3>. HIDE DEF some
    <3>. QED
      BY <1>1, <1>3, <2>1, TotalAtMost
  <2>. QED
    BY <1>3, <2>2
<1>7. CASE HiddenBy(i, r)
  <2>1. \A x \in Msg : some(MsgAt(r, i))[x] = 0
    BY <1>5, <1>7 DEF MsgAt
  <2>2. \A k \in 1..Len(messages) : some(MsgAt(r, i))[messages[k]] = 0
    BY <2>1
  <2>3. Total(messages, some(MsgAt(r, i))) = 0
    <3>. HIDE DEF some
    <3>. QED
      BY <1>2, <2>2, TotalZero
  <2>. QED
    BY <1>2, <1>7, <1>6, <2>3
<1>8. CASE ~HiddenBy(i, r)
  <2>1. \A x \in Msg : some(MsgAt(r, i))[x] = MsgAt(r, i)[x]
    BY <1>5, <1>8 DEF MsgAt
  <2>2. some(MsgAt(r, i)) = MsgAt(r, i)
    BY <1>1, <2>1
  <2>. QED
    BY <1>2, <1>8, <1>6, <2>2
<1>. QED
  BY <1>7, <1>8

\* The imports seen, and those before the k-th visit to come.
SeenBy(k) == seen \cup {due[j].item : j \in {h \in 1..(k - 1) : due[h].as = "import"}}
\* Dispatching a visit moves what later visits have seen by that visit.
LEMMA SeenMoves ==
  ASSUME due \in Seq(Visited), due # <<>>, NEW k \in DOMAIN Tail(due), NEW now,
         now = IF Head(due).as = "import" THEN seen \cup {Head(due).item} ELSE seen
  PROVE  /\ k + 1 \in DOMAIN due /\ due[k + 1] = Tail(due)[k]
         /\ now \cup {Tail(due)[j].item : j \in {h \in 1..(k - 1) : Tail(due)[h].as = "import"}}
              = SeenBy(k + 1)
<1>1. /\ Len(due) \in Nat \ {0} /\ Len(Tail(due)) = Len(due) - 1
      /\ \A j \in 1..(Len(due) - 1) : Tail(due)[j] = due[j + 1]
      /\ DOMAIN Tail(due) = 1..(Len(due) - 1)
  OBVIOUS
<1>2. k \in 1..(Len(due) - 1) /\ k + 1 \in DOMAIN due /\ due[k + 1] = Tail(due)[k] /\ (k + 1) - 1 = k
  BY <1>1
<1>3. Head(due) = due[1]
  OBVIOUS
<1>. DEFINE before == {due[j].item : j \in {h \in 1..k : due[h].as = "import"}}
            after == {Tail(due)[j].item : j \in {h \in 1..(k - 1) : Tail(due)[h].as = "import"}}
<1>4. ASSUME NEW x \in before
      PROVE  x \in after \/ (Head(due).as = "import" /\ x = Head(due).item)
  <2>1. PICK j \in 1..k : due[j].as = "import" /\ x = due[j].item
    BY <1>4
  <2>2. CASE j = 1
    BY <1>3, <2>1, <2>2
  <2>3. CASE j # 1
    <3>1. j - 1 \in 1..(k - 1) /\ j - 1 \in 1..(Len(due) - 1) /\ (j - 1) + 1 = j
      BY <1>1, <1>2, <2>1, <2>3
    <3>2. Tail(due)[j - 1] = due[j]
      BY <1>1, <3>1
    <3>. QED
      BY <2>1, <3>1, <3>2
  <2>. QED
    BY <2>2, <2>3
<1>5. ASSUME NEW x \in after
      PROVE  x \in before
  <2>1. PICK j \in 1..(k - 1) : Tail(due)[j].as = "import" /\ x = Tail(due)[j].item
    BY <1>5
  <2>2. j + 1 \in 1..k /\ j \in 1..(Len(due) - 1)
    BY <1>1, <1>2, <2>1
  <2>3. Tail(due)[j] = due[j + 1]
    BY <1>1, <2>2
  <2>. QED
    BY <2>1, <2>2, <2>3
<1>6. Head(due).as = "import" => Head(due).item \in before
  BY <1>2, <1>3
<1>7. now \cup after = seen \cup before
  <2>. HIDE DEF before, after
  <2>. QED
    BY <1>4, <1>5, <1>6
<1>8. SeenBy(k + 1) = seen \cup before
  BY <1>2 DEF SeenBy
<1>. QED
  BY <1>2, <1>7, <1>8

\* What is to be said of a text does not change within a pass.
LEMMA Unmoved ==
  ASSUME job' = job, text' = text
  PROVE  /\ (InPlace <=> InPlace') /\ Lines' = Lines
         /\ \A r, i : /\ Due(r, i)' = Due(r, i) /\ Expect(r, i)' = Expect(r, i)
                      /\ (HiddenBy(i, r)' <=> HiddenBy(i, r))
         /\ \A i : Before(i)' = Before(i) /\ (Parsed(i)' <=> Parsed(i)) /\ Item(i)' = Item(i)
<1>1. Lines' = Lines /\ (\A i : Item(i)' = Item(i)) /\ Imports' = Imports /\ Scope' = Scope
  BY DEF Lines, Item, Imports, Scope
<1>2. InPlace <=> InPlace'
  BY DEF InPlace, Plain, HasArea
<1>3. \A i : Before(i)' = Before(i) /\ AreaOf(i)' = AreaOf(i) /\ (IsDecl(i)' <=> IsDecl(i)) /\ (IsEntry(i)' <=> IsEntry(i))
  BY <1>1 DEF Before, AreaOf, IsDecl, IsEntry
<1>4. \A a : Parses(a)' <=> Parses(a)
  BY <1>1 DEF Parses
<1>5. \A i : Parsed(i)' <=> Parsed(i)
  BY <1>1, <1>3 DEF Parsed, Parses, Item
<1>6. \A i, r : HiddenBy(i, r)' <=> HiddenBy(i, r)
  BY DEF HiddenBy, Covers, Directive, Lines
<1>7. \A r, i : Due(r, i)' = Due(r, i)
  BY <1>1, <1>3 DEF Due, ReportsOn, Item, Parses, IsDecl, IsEntry, AreaOf, Before, Imports, Scope, Lines
<1>8. \A r, i : Expect(r, i)' = Expect(r, i)
  BY <1>1, <1>3 DEF Expect, Said, Before, Imports, Scope, Item, Lines
<1>. QED
  BY <1>1, <1>2, <1>3, <1>5, <1>6, <1>7, <1>8

-----------------------------------------------------------------------------
(***************************************************************************)
(* The invariant of a pass.  In a text whose offsets are its own, what a   *)
(* rule has reported on a line and what the visits still to come will make *)
(* it report are what the line makes it say, exactly when it never threw.  *)
(***************************************************************************)
Said2Come(r, i) == Total(messages, MsgAt(r, i)) + Total(due, Expect(r, i))
Named == UNION {{<<n, i>> : n \in Mentions(Item(i).value)} : i \in {j \in Lines : Parsed(j)}}

\* Before the first visit a rule has said no more than that it has no tokens.
CreateInv == phase = "create" =>
  /\ failed = {} /\ seen = {}
  /\ \A r \in Range(job.rules), i \in Lines :
       Total(messages, MsgAt(r, i))
         = IF r \in Range(listeners) /\ Unconfigured(r) /\ i = 1 THEN 1 ELSE 0
VisitInv == phase = "visit" /\ InPlace =>
  /\ \A r \in Range(job.rules), i \in Lines :
       Said2Come(r, i) <= Due(r, i) /\ (~Threw(r) => Said2Come(r, i) = Due(r, i))
  /\ \A k \in DOMAIN due : due[k].as = "tag" => Before(due[k].line) = SeenBy(k)
  /\ references = Named
FixInv == phase \in {"fix", "settled"} /\ InPlace =>
  /\ \A r \in Range(job.rules), i \in Lines :
       /\ HiddenBy(i, r) => Total(messages, MsgAt(r, i)) = 0
       /\ Total(messages, MsgAt(r, i)) <= Due(r, i)
       /\ ~HiddenBy(i, r) /\ ~Threw(r) => Total(messages, MsgAt(r, i)) = Due(r, i)
  /\ references = Named
ErrorsInv == \A r \in Range(job.rules) :
  Total(messages, ErrorOf(r)) <= FailuresOf(failed, r) + Cardinality(uncreated \cap {r})
PassInv == CreateInv /\ VisitInv /\ FixInv /\ ErrorsInv

\* What a rule is due to say of a line is a number.
LEMMA DueType ==
  ASSUME Readable, InPlace, IsText(text), NEW i \in Lines, NEW r
  PROVE  Len(ReportsOn(r, i)) \in Nat /\ Due(r, i) \in Nat
<1>1. Total(LineOf(AreaOf(i), i), Expect(r, i)) = Len(ReportsOn(r, i))
  BY LineExpect
<1>2. Expect(r, i) \in [Visited -> Nat] /\ NoError(Expect(r, i)) /\ OnlyAt(Expect(r, i), i)
  BY ExpectType
<1>3. Visits \in Seq(Visited)
  BY VisitsType
<1>4. Total(Visits, Expect(r, i)) = Total(LineOf(AreaOf(i), i), Expect(r, i))
  BY <1>2, VisitsTotal
<1>5. Total(Visits, Expect(r, i)) \in Nat
  BY <1>2, <1>3, TotalType
<1>6. Len(ReportsOn(r, i)) \in Nat
  BY <1>1, <1>4, <1>5
<1>. QED
  BY <1>6 DEF Due

\* A rule is created once, or throws once.
LEMMA OnceMore ==
  ASSUME NEW set, NEW x, x \notin set, NEW r
  PROVE  /\ Cardinality(set \cap {r}) \in Nat
         /\ Cardinality((set \cup {x}) \cap {r}) = Cardinality(set \cap {r}) + (IF x = r THEN 1 ELSE 0)
<1>1. Cardinality({}) = 0 /\ Cardinality({r}) = 1
  BY FS_EmptySet, FS_Singleton
<1>2. CASE r \in set
  <2>1. set \cap {r} = {r} /\ (set \cup {x}) \cap {r} = {r} /\ x # r
    BY <1>2
  <2>. QED
    BY <1>1, <2>1
<1>3. CASE r \notin set /\ x = r
  <2>1. set \cap {r} = {} /\ (set \cup {x}) \cap {r} = {r}
    BY <1>3
  <2>. QED
    BY <1>1, <1>3, <2>1
<1>4. CASE r \notin set /\ x # r
  <2>1. set \cap {r} = {} /\ (set \cup {x}) \cap {r} = {}
    BY <1>4
  <2>2. Cardinality(set \cap {r}) = 0
    BY <1>1, <2>1
  <2>3. Cardinality((set \cup {x}) \cap {r}) = 0
    BY <1>1, <2>1
  <2>. QED
    BY <1>4, <2>2, <2>3
<1>. QED
  BY <1>2, <1>3, <1>4

\* Nothing is said before the first rule is created.
LEMMA PassInit == Init => PassInv
<1>. SUFFICES ASSUME Init PROVE PassInv
  OBVIOUS
<1>1. messages = <<>> /\ listeners = <<>> /\ failed = {} /\ uncreated = {} /\ seen = {} /\ phase = "create"
  BY DEF Init
<1>2. \A r, i : Total(messages, MsgAt(r, i)) = 0 /\ Total(messages, ErrorOf(r)) = 0
  BY <1>1, WeightsType, TotalEmpty
<1>3. Range(listeners) = {}
  BY <1>1 DEF Range
<1>4. CreateInv
  BY <1>1, <1>2, <1>3 DEF CreateInv
<1>5. VisitInv /\ FixInv
  BY <1>1 DEF VisitInv, FixInv
<1>6. ErrorsInv
  <2>1. \A r : FailuresOf({}, r) \in Nat
    BY FailuresType
  <2>2. \A r : Cardinality({} \cap {r}) \in Nat
    <3>. TAKE r
    <3>1. {} \cap {r} = {}
      OBVIOUS
    <3>. QED
      BY <3>1, FS_EmptySet
  <2>. QED
    BY <1>1, <1>2, <2>1, <2>2 DEF ErrorsInv
<1>. QED
  BY <1>4, <1>5, <1>6 DEF PassInv

\* Creating a rule, or failing to.
LEMMA PassCreate ==
  ASSUME TypeInv, PassInv, Create \/ CreateThrows
  PROVE  PassInv'
<1>1. PICK x \in STRING : x = Head(due)
  BY HeadAndTail DEF Create, CreateThrows, TypeInv, RulesInv
<1>2. /\ phase = "create" /\ phase' = "create" /\ due # <<>> /\ due \in Seq(STRING)
      /\ messages \in Seq(Msg)
      /\ failed' = failed /\ seen' = seen /\ job' = job /\ text' = text
  BY DEF Create, CreateThrows, TypeInv, RulesInv, MessagesInv
<1>3. x \in Range(due) /\ x \notin Range(listeners) /\ x \notin uncreated /\ x \in Range(job.rules)
  <2>1. x \in Range(due)
    BY <1>1, <1>2, HeadAndTail
  <2>. QED
    BY <1>2, <2>1 DEF TypeInv, RulesInv
<1>4. job \in Jobs /\ ARule(x) /\ \A r \in Range(job.rules) : ARule(r)
  <2>1. job \in Jobs
    BY DEF TypeInv, TextInv
  <2>. QED
    BY <1>3, <2>1, JobFacts DEF ARule
<1>5. VisitInv' /\ FixInv'
  BY <1>2 DEF VisitInv, FixInv
<1>6. \A r, i : /\ MsgAt(r, i) \in [Msg -> Nat] /\ ErrorOf(r) \in [Msg -> Nat]
                /\ Total(messages, MsgAt(r, i)) \in Nat /\ Total(messages, ErrorOf(r)) \in Nat
  BY <1>2, WeightsType, TotalType
<1>7. CASE Create
  <2>. DEFINE m == Message(x, x, 1, NoFix)
  <2>1. m \in Msg
    BY DEF Message, Msg, MsgRules
  <2>2. messages' = messages \o When(Unconfigured(x), m) /\ uncreated' = uncreated
        /\ listeners' = Append(listeners, x)
    BY <1>1, <1>7 DEF Create
  <2>3. Range(listeners') = Range(listeners) \cup {x}
    BY <2>2, AppendHas DEF TypeInv, RulesInv
  <2>4. \A r : ARule(r) => ErrorOf(r)[m] = 0
    BY <2>1, <1>4 DEF ErrorOf, Message, ARule
  <2>5. \A r, i : MsgAt(r, i)[m] = IF r = x /\ i = 1 THEN 1 ELSE 0
    BY <2>1 DEF MsgAt, Message
  <2>. HIDE DEF m
  <2>6. CASE Unconfigured(x)
    <3>1. messages' = messages \o <<m>>
      BY <2>2, <2>6 DEF When
    <3>2. \A r, i : /\ Total(messages', MsgAt(r, i)) = Total(messages, MsgAt(r, i)) + MsgAt(r, i)[m]
                    /\ Total(messages', ErrorOf(r)) = Total(messages, ErrorOf(r)) + ErrorOf(r)[m]
      BY <1>2, <1>6, <2>1, <3>1, MessageMore
    <3>3. CreateInv'
      <4>. SUFFICES ASSUME NEW r \in Range(job.rules), NEW i \in Lines
                    PROVE  Total(messages', MsgAt(r, i))
                             = IF r \in Range(listeners') /\ Unconfigured(r) /\ i = 1 THEN 1 ELSE 0
        BY <1>2 DEF PassInv, CreateInv, Lines
      <4>1. Total(messages, MsgAt(r, i))
              = IF r \in Range(listeners) /\ Unconfigured(r) /\ i = 1 THEN 1 ELSE 0
        BY <1>2 DEF PassInv, CreateInv
      <4>2. Total(messages', MsgAt(r, i))
              = Total(messages, MsgAt(r, i)) + (IF r = x /\ i = 1 THEN 1 ELSE 0)
        BY <2>5, <3>2
      <4>. QED
        BY <1>3, <2>3, <2>6, <4>1, <4>2
    <3>4. ErrorsInv'
      <4>. SUFFICES ASSUME NEW r \in Range(job.rules)
                    PROVE  Total(messages', ErrorOf(r))
                             <= FailuresOf(failed, r) + Cardinality(uncreated \cap {r})
        BY <1>2, <2>2 DEF ErrorsInv
      <4>1. Total(messages', ErrorOf(r)) = Total(messages, ErrorOf(r)) + 0
        BY <1>4, <2>4, <3>2
      <4>2. Total(messages', ErrorOf(r)) = Total(messages, ErrorOf(r))
        BY <1>6, <4>1
      <4>. QED
        BY <4>2 DEF PassInv, ErrorsInv
    <3>. QED
      BY <1>5, <3>3, <3>4 DEF PassInv
  <2>7. CASE ~Unconfigured(x)
    <3>1. messages' = messages
      BY <1>2, <2>2, <2>7 DEF When
    <3>2. CreateInv'
      BY <1>2, <1>3, <2>3, <2>7, <3>1 DEF PassInv, CreateInv, Lines
    <3>3. ErrorsInv'
      BY <1>2, <2>2, <3>1 DEF PassInv, ErrorsInv
    <3>. QED
      BY <1>5, <3>2, <3>3 DEF PassInv
  <2>. QED
    BY <2>6, <2>7
<1>8. CASE CreateThrows
  <2>. DEFINE m == RuntimeError(x, 1)
  <2>1. m \in Msg
    BY RuntimeErrorType
  <2>2. /\ messages' = Append(messages, m) /\ uncreated' = uncreated \cup {x}
        /\ listeners' = listeners
    BY <1>1, <1>8 DEF CreateThrows
  <2>3. \A r : ErrorOf(r)[m] = IF x = r THEN 1 ELSE 0
    BY <2>1 DEF ErrorOf, RuntimeError, Message
  <2>4. \A r, i : ARule(r) => MsgAt(r, i)[m] = 0
    BY <2>1 DEF MsgAt, RuntimeError, Message, ARule
  <2>. HIDE DEF m
  <2>5. \A r, i : /\ Total(messages', MsgAt(r, i)) = Total(messages, MsgAt(r, i)) + MsgAt(r, i)[m]
                  /\ Total(messages', ErrorOf(r)) = Total(messages, ErrorOf(r)) + ErrorOf(r)[m]
    <3>1. messages' = messages \o <<m>>
      BY <1>2, <1>6, <2>1, <2>2, MessageMore
    <3>. QED
      BY <1>2, <1>6, <2>1, <3>1, MessageMore
  <2>6. CreateInv'
    <3>. SUFFICES ASSUME NEW r \in Range(job.rules), NEW i \in Lines
                  PROVE  Total(messages', MsgAt(r, i))
                           = IF r \in Range(listeners) /\ Unconfigured(r) /\ i = 1 THEN 1 ELSE 0
      BY <1>2, <2>2 DEF PassInv, CreateInv, Lines
    <3>1. Total(messages', MsgAt(r, i)) = Total(messages, MsgAt(r, i)) + 0
      BY <1>4, <2>4, <2>5
    <3>2. Total(messages', MsgAt(r, i)) = Total(messages, MsgAt(r, i))
      BY <1>6, <3>1
    <3>. QED
      BY <1>2, <3>2 DEF PassInv, CreateInv
  <2>7. ErrorsInv'
    <3>. SUFFICES ASSUME NEW r \in Range(job.rules)
                  PROVE  Total(messages', ErrorOf(r))
                           <= FailuresOf(failed, r) + Cardinality((uncreated \cup {x}) \cap {r})
      BY <1>2, <2>2 DEF ErrorsInv
    <3>1. Total(messages, ErrorOf(r)) <= FailuresOf(failed, r) + Cardinality(uncreated \cap {r})
      BY DEF PassInv, ErrorsInv
    <3>2. /\ Cardinality(uncreated \cap {r}) \in Nat
          /\ Cardinality((uncreated \cup {x}) \cap {r})
               = Cardinality(uncreated \cap {r}) + (IF x = r THEN 1 ELSE 0)
      BY <1>3, OnceMore
    <3>3. FailuresOf(failed, r) \in Nat
      BY <1>2, FailuresType DEF TypeInv, MessagesInv
    <3>4. Total(messages', ErrorOf(r)) = Total(messages, ErrorOf(r)) + (IF x = r THEN 1 ELSE 0)
      BY <2>3, <2>5
    <3>. QED
      BY <1>6, <3>1, <3>2, <3>3, <3>4
  <2>. QED
    BY <1>5, <2>6, <2>7 DEF PassInv
<1>. QED
  BY <1>7, <1>8

\* The text is parsed: everything is still to be said.
LEMMA PassParse ==
  ASSUME TypeInv, PassInv, Parse
  PROVE  PassInv'
<1>1. /\ phase = "create" /\ phase' = "visit" /\ due' = Visits /\ references' = Referenced(Visits)
      /\ job' = job /\ text' = text /\ seen' = seen /\ failed' = failed /\ uncreated' = uncreated
      /\ messages' = messages /\ due = <<>> /\ failed = {} /\ seen = {}
  BY DEF Parse, PassInv, CreateInv
<1>2. Readable /\ IsText(text)
  BY <1>1 DEF TypeInv, TextInv, IsText, Readable
<1>3. ErrorsInv'
  BY <1>1 DEF PassInv, ErrorsInv
<1>4. CreateInv' /\ FixInv'
  BY <1>1 DEF CreateInv, FixInv
<1>5. VisitInv'
  <2>1. SUFFICES ASSUME InPlace
                 PROVE  /\ \A r \in Range(job.rules), i \in Lines :
                             /\ Said2Come(r, i)' <= Due(r, i)
                             /\ ~Threw(r)' => Said2Come(r, i)' = Due(r, i)
                        /\ \A k \in DOMAIN Visits : Visits[k].as = "tag" => Before(Visits[k].line) = SeenBy(k)'
                        /\ references' = Named
    BY <1>1, Unmoved DEF VisitInv, Named
  <2>2. references' = Named
    BY <1>1, <1>2, <2>1, ReferencesAre DEF Named
  <2>3. \A k \in DOMAIN Visits : Visits[k].as = "tag" => Before(Visits[k].line) = SeenBy(k)'
    BY <1>1, <1>2, <2>1, SeenBefore DEF SeenBy
  <2>4. ASSUME NEW r \in Range(job.rules), NEW i \in Lines
        PROVE  /\ Said2Come(r, i)' <= Due(r, i)
               /\ ~Threw(r)' => Said2Come(r, i)' = Due(r, i)
    <3>1. Said2Come(r, i)' = Total(messages, MsgAt(r, i)) + Total(Visits, Expect(r, i))
      <4>1. Expect(r, i)' = Expect(r, i)
        BY <1>1, Unmoved
      <4>2. MsgAt(r, i)' = MsgAt(r, i)
        BY DEF MsgAt
      <4>. QED
        BY <1>1, <4>1, <4>2 DEF Said2Come
    <3>2. Total(Visits, Expect(r, i)) = Len(ReportsOn(r, i))
      <4>1. Expect(r, i) \in [Visited -> Nat] /\ NoError(Expect(r, i)) /\ OnlyAt(Expect(r, i), i)
        BY ExpectType
      <4>2. Total(Visits, Expect(r, i)) = Total(LineOf(AreaOf(i), i), Expect(r, i))
        BY <1>2, <2>1, <4>1, VisitsTotal
      <4>. QED
        BY <1>2, <2>1, <4>2, LineExpect
    <3>3. Len(ReportsOn(r, i)) \in Nat
      BY <1>2, <2>1, DueType
    <3>4. Total(messages, MsgAt(r, i)) = IF r \in Range(listeners) /\ Unconfigured(r) /\ i = 1 THEN 1 ELSE 0
      BY <1>1 DEF PassInv, CreateInv
    <3>5. ~Threw(r)' => r \in Range(listeners)
      <4>1. Range(due) = {}
        BY <1>1 DEF Range
      <4>2. r \in Range(listeners) \/ r \in uncreated
        BY <1>1, <4>1 DEF TypeInv, RulesInv
      <4>. QED
        BY <1>1, <4>2 DEF Threw
    <3>. QED
      BY <3>1, <3>2, <3>3, <3>4, <3>5 DEF Due
  <2>. QED
    BY <2>2, <2>3, <2>4
<1>. QED
  BY <1>3, <1>4, <1>5 DEF PassInv

\* The references and the imports seen go on with the visits.
LEMMA VisitsMove ==
  ASSUME due \in Seq(Visited), due # <<>>, due' = Tail(due), job' = job, text' = text,
         seen' = IF Head(due).as = "import" THEN seen \cup {Head(due).item} ELSE seen,
         \A k \in DOMAIN due : due[k].as = "tag" => Before(due[k].line) = SeenBy(k)
  PROVE  \A k \in DOMAIN due' : due'[k].as = "tag" => Before(due'[k].line) = SeenBy(k)'
<1>. SUFFICES ASSUME NEW k \in DOMAIN Tail(due), Tail(due)[k].as = "tag"
              PROVE  Before(Tail(due)[k].line) = SeenBy(k)'
  OBVIOUS
<1>1. PICK now : now = IF Head(due).as = "import" THEN seen \cup {Head(due).item} ELSE seen
  OBVIOUS
<1>2. /\ k + 1 \in DOMAIN due /\ due[k + 1] = Tail(due)[k]
      /\ now \cup {Tail(due)[j].item : j \in {h \in 1..(k - 1) : Tail(due)[h].as = "import"}}
           = SeenBy(k + 1)
  BY <1>1, SeenMoves
<1>3. SeenBy(k)' = SeenBy(k + 1)
  BY <1>1, <1>2 DEF SeenBy
<1>. QED
  BY <1>2, <1>3

\* A visit is dispatched to the rules that listen.
LEMMA PassDispatch ==
  ASSUME TypeInv, PassInv, Dispatch
  PROVE  PassInv'
<1>. DEFINE v == Head(due)
<1>1. /\ phase = "visit" /\ phase' = "visit" /\ due # <<>> /\ v.hook # "error" /\ due' = Tail(due)
      /\ job' = job /\ text' = text /\ references' = references /\ uncreated' = uncreated
      /\ listeners' = listeners
      /\ seen' = IF v.as = "import" THEN seen \cup {v.item} ELSE seen
  BY DEF Dispatch
<1>2. /\ messages \in Seq(Msg) /\ due \in Seq(Visited) /\ job \in Jobs /\ IsText(text) /\ Readable
      /\ listeners \in Seq(STRING) /\ IsInjective(listeners)
      /\ Range(listeners) \cup uncreated = Range(job.rules)
      /\ failed \subseteq MayThrow \X {"onNode", "onCSSDeclaration"}
  BY <1>1 DEF TypeInv, TextInv, RulesInv, MessagesInv, IsText, Readable
<1>3. v \in Visited /\ v.hook \in {"onNode", "onCSSDeclaration"} /\ Tail(due) \in Seq(Visited)
  <2>1. v \in Visited /\ Tail(due) \in Seq(Visited)
    BY <1>1, <1>2, HeadAndTail
  <2>. QED
    BY <1>1, <2>1 DEF Visited
<1>4. /\ \A r \in Range(job.rules) : ARule(r)
      /\ \A r \in Range(listeners) : ARule(r)
  <2>1. \A r \in Range(job.rules) : ARule(r)
    BY <1>2, JobFacts DEF ARule
  <2>. QED
    BY <1>2, <2>1
<1>5. PICK throwing \in SUBSET {r \in Range(listeners) \cap MayThrow : <<r, v.hook>> \notin failed},
           late \in BOOLEAN :
        /\ messages' = messages \o Dispatched(v, throwing, late)
        /\ failed' = failed \cup {<<r, v.hook>> : r \in throwing}
  BY DEF Dispatch
<1>6. CreateInv' /\ FixInv'
  BY <1>1 DEF CreateInv, FixInv
<1>7. ErrorsInv'
  <2>. SUFFICES ASSUME NEW r \in Range(job.rules)
                PROVE  Total(messages', ErrorOf(r)) <= FailuresOf(failed', r) + Cardinality(uncreated \cap {r})
    BY <1>1 DEF ErrorsInv
  <2>1. Total(messages', ErrorOf(r)) <= Total(messages, ErrorOf(r)) + (IF r \in throwing THEN 1 ELSE 0)
    BY <1>1, <1>2, <1>3, <1>4, <1>5, DispatchErrors
  <2>2. /\ FailuresOf(failed, r) \in Nat
        /\ FailuresOf(failed', r) = FailuresOf(failed, r) + (IF r \in throwing THEN 1 ELSE 0)
    <3>1. PICK hook \in {"onNode", "onCSSDeclaration"} : hook = v.hook
      BY <1>3
    <3>2. /\ \A x \in throwing : <<x, hook>> \notin failed
          /\ failed' = failed \cup {<<x, hook>> : x \in throwing}
      BY <1>5, <3>1
    <3>3. PICK old : old = failed
      OBVIOUS
    <3>4. PICK T : T = throwing
      OBVIOUS
    <3>5. /\ old \subseteq MayThrow \X {"onNode", "onCSSDeclaration"}
          /\ \A x \in T : <<x, hook>> \notin old
      BY <1>2, <3>2, <3>3, <3>4
    <3>6. /\ FailuresOf(old, r) \in Nat
          /\ FailuresOf(old \cup {<<x, hook>> : x \in T}, r)
               = FailuresOf(old, r) + (IF r \in T THEN 1 ELSE 0)
      BY <3>5, FailuresGrow
    <3>. QED
      BY <3>2, <3>3, <3>4, <3>6
  <2>3. Total(messages, ErrorOf(r)) <= FailuresOf(failed, r) + Cardinality(uncreated \cap {r})
    BY DEF PassInv, ErrorsInv
  <2>4. Cardinality(uncreated \cap {r}) \in Nat
    <3>1. IsFiniteSet({r})
      BY FS_Singleton
    <3>2. IsFiniteSet(uncreated \cap {r})
      BY <3>1, FS_Subset
    <3>. QED
      BY <3>2, FS_CardinalityType
  <2>5. Total(messages, ErrorOf(r)) \in Nat
    BY <1>2, WeightsType, TotalType
  <2>6. messages' \in Seq(Msg)
    BY <1>1, <1>2, <1>3, <1>4, <1>5, DispatchErrors
  <2>7. Total(messages', ErrorOf(r)) \in Nat
    BY <2>6, WeightsType, TotalType
  <2>. QED
    BY <2>1, <2>2, <2>3, <2>4, <2>5, <2>7
<1>8. VisitInv'
  <2>. SUFFICES ASSUME InPlace
                PROVE  /\ \A r \in Range(job.rules), i \in Lines :
                            /\ Said2Come(r, i)' <= Due(r, i)
                            /\ ~Threw(r)' => Said2Come(r, i)' = Due(r, i)
                       /\ \A k \in DOMAIN due' : due'[k].as = "tag" => Before(due'[k].line) = SeenBy(k)'
                       /\ references = Named
    <3>1. Named' = Named
      BY <1>1, Unmoved DEF Named
    <3>2. (InPlace <=> InPlace') /\ Lines' = Lines /\ \A r, i : Due(r, i)' = Due(r, i)
      BY <1>1, Unmoved
    <3>3. \A i : Before(i)' = Before(i)
      BY <1>1, Unmoved
    <3>. QED
      BY <1>1, <3>1, <3>2, <3>3 DEF VisitInv
  <2>1. /\ \A r \in Range(job.rules), i \in Lines :
             Said2Come(r, i) <= Due(r, i) /\ (~Threw(r) => Said2Come(r, i) = Due(r, i))
        /\ \A k \in DOMAIN due : due[k].as = "tag" => Before(due[k].line) = SeenBy(k)
        /\ references = Named
    BY <1>1 DEF PassInv, VisitInv
  <2>2. \A k \in DOMAIN due' : due'[k].as = "tag" => Before(due'[k].line) = SeenBy(k)'
    BY <1>1, <1>2, <2>1, VisitsMove
  <2>3. v.as = "tag" => seen = Before(v.line)
    <3>1. 1 \in DOMAIN due /\ v = due[1]
      BY <1>1, <1>2
    <3>2. SeenBy(1) = seen
      BY DEF SeenBy
    <3>. QED
      BY <2>1, <3>1, <3>2
  <2>4. ASSUME NEW r \in Range(job.rules), NEW i \in Lines
        PROVE  /\ Said2Come(r, i)' <= Due(r, i)
               /\ ~Threw(r)' => Said2Come(r, i)' = Due(r, i)
    <3>1. Said2Come(r, i)' = Total(messages \o Dispatched(v, throwing, late), MsgAt(r, i))
                             + Total(Tail(due), Expect(r, i))
      <4>1. Expect(r, i)' = Expect(r, i)
        BY <1>1, Unmoved
      <4>2. MsgAt(r, i)' = MsgAt(r, i)
        BY DEF MsgAt
      <4>. QED
        BY <1>1, <1>5, <4>1, <4>2 DEF Said2Come
    <3>2. /\ Said2Come(r, i)' <= Said2Come(r, i)
          /\ r \in Range(listeners) /\ r \notin throwing /\ <<r, v.hook>> \notin failed
               => Said2Come(r, i)' = Said2Come(r, i)
      <4>1. ARule(r)
        BY <1>4
      <4>. QED
        BY <1>1, <1>2, <1>4, <2>3, <3>1, <4>1, DispatchAccount DEF Said2Come
    <3>3. Said2Come(r, i) \in Nat /\ Said2Come(r, i)' \in Nat
      <4>1. MsgAt(r, i) \in [Msg -> Nat] /\ Expect(r, i) \in [Visited -> Nat]
        BY WeightsType, ExpectType
      <4>2. Total(messages, MsgAt(r, i)) \in Nat
        BY <1>2, <4>1, TotalType
      <4>3. Total(due, Expect(r, i)) \in Nat
        BY <1>2, <4>1, TotalType
      <4>4. messages \o Dispatched(v, throwing, late) \in Seq(Msg)
        BY <1>1, <1>2, <1>3, <1>4, DispatchErrors
      <4>5. Total(messages \o Dispatched(v, throwing, late), MsgAt(r, i)) \in Nat
        BY <4>1, <4>4, TotalType
      <4>6. Total(Tail(due), Expect(r, i)) \in Nat
        BY <1>3, <4>1, TotalType
      <4>. QED
        BY <3>1, <4>2, <4>3, <4>5, <4>6 DEF Said2Come
    <3>4. Due(r, i) \in Nat
      BY <1>2, DueType
    <3>5. ~Threw(r)' => /\ ~Threw(r) /\ r \in Range(listeners)
                        /\ r \notin throwing /\ <<r, v.hook>> \notin failed
      BY <1>1, <1>2, <1>3, <1>5 DEF Threw
    <3>. QED
      BY <2>1, <3>2, <3>3, <3>4, <3>5
  <2>. QED
    BY <2>1, <2>2, <2>4
<1>. QED
  BY <1>6, <1>7, <1>8 DEF PassInv

\* A parse error is nobody's message.
LEMMA PassPushParseError ==
  ASSUME TypeInv, PassInv, PushParseError
  PROVE  PassInv'
<1>. DEFINE v == Head(due)
            m == Message("parse-error", "parser", v.line, NoFix)
<1>1. /\ phase = "visit" /\ phase' = "visit" /\ due # <<>> /\ v.hook = "error" /\ due' = Tail(due)
      /\ job' = job /\ text' = text /\ references' = references /\ uncreated' = uncreated
      /\ failed' = failed /\ seen' = seen /\ messages' = Append(messages, m)
  BY DEF PushParseError
<1>2. messages \in Seq(Msg) /\ due \in Seq(Visited) /\ job \in Jobs
  BY <1>1 DEF TypeInv, TextInv, MessagesInv
<1>3. v \in Visited /\ Tail(due) \in Seq(Visited) /\ v.as # "import"
  <2>1. v \in Visited /\ Tail(due) \in Seq(Visited)
    BY <1>1, <1>2, HeadAndTail
  <2>. QED
    BY <1>1, <2>1 DEF Visited
<1>4. m \in Msg
  BY <1>3 DEF Message, Msg, MsgRules, Visited
<1>5. \A r \in Range(job.rules) : ARule(r)
  BY <1>2, JobFacts DEF ARule
<1>6. \A r : ErrorOf(r)[m] = 0
  BY <1>4 DEF ErrorOf, Message
<1>7. \A r, i : ARule(r) => MsgAt(r, i)[m] = 0
  BY <1>4 DEF MsgAt, Message, ARule
<1>. HIDE DEF m
<1>8. /\ \A r : Total(messages', ErrorOf(r)) = Total(messages, ErrorOf(r))
      /\ \A r, i : ARule(r) => Total(messages', MsgAt(r, i)) = Total(messages, MsgAt(r, i))
  <2>1. messages' = messages \o <<m>>
    BY <1>1, <1>2, <1>4, WeightsType, MessageMore
  <2>2. ASSUME NEW g \in [Msg -> Nat], g[m] = 0
        PROVE  Total(messages', g) = Total(messages, g)
    <3>1. Total(messages', g) = Total(messages, g) + g[m]
      BY <1>2, <1>4, <2>1, MessageMore
    <3>2. Total(messages, g) \in Nat
      BY <1>2, TotalType
    <3>. QED
      BY <2>2, <3>1, <3>2
  <2>3. ASSUME NEW r PROVE Total(messages', ErrorOf(r)) = Total(messages, ErrorOf(r))
    BY <1>6, <2>2, WeightsType
  <2>4. ASSUME NEW r, NEW i, ARule(r)
        PROVE  Total(messages', MsgAt(r, i)) = Total(messages, MsgAt(r, i))
    BY <1>7, <2>2, <2>4, WeightsType
  <2>. QED
    BY <2>3, <2>4
<1>9. CreateInv' /\ FixInv'
  BY <1>1 DEF CreateInv, FixInv
<1>10. ErrorsInv'
  BY <1>1, <1>8 DEF PassInv, ErrorsInv
<1>11. VisitInv'
  <2>. SUFFICES ASSUME InPlace
                PROVE  /\ \A r \in Range(job.rules), i \in Lines :
                            /\ Said2Come(r, i)' <= Due(r, i)
                            /\ ~Threw(r)' => Said2Come(r, i)' = Due(r, i)
                       /\ \A k \in DOMAIN due' : due'[k].as = "tag" => Before(due'[k].line) = SeenBy(k)'
                       /\ references = Named
    <3>1. Named' = Named
      BY <1>1, Unmoved DEF Named
    <3>2. (InPlace <=> InPlace') /\ Lines' = Lines /\ \A r, i : Due(r, i)' = Due(r, i)
      BY <1>1, Unmoved
    <3>3. \A i : Before(i)' = Before(i)
      BY <1>1, Unmoved
    <3>. QED
      BY <1>1, <3>1, <3>2, <3>3 DEF VisitInv
  <2>1. /\ \A r \in Range(job.rules), i \in Lines :
             Said2Come(r, i) <= Due(r, i) /\ (~Threw(r) => Said2Come(r, i) = Due(r, i))
        /\ \A k \in DOMAIN due : due[k].as = "tag" => Before(due[k].line) = SeenBy(k)
        /\ references = Named
    BY <1>1 DEF PassInv, VisitInv
  <2>2. \A k \in DOMAIN due' : due'[k].as = "tag" => Before(due'[k].line) = SeenBy(k)'
    BY <1>1, <1>2, <1>3, <2>1, VisitsMove
  <2>3. ASSUME NEW r \in Range(job.rules), NEW i \in Lines
        PROVE  Said2Come(r, i)' = Said2Come(r, i)
    <3>1. Expect(r, i)' = Expect(r, i)
      BY <1>1, Unmoved
    <3>2. MsgAt(r, i)' = MsgAt(r, i)
      BY DEF MsgAt
    <3>3. Total(due, Expect(r, i)) = Expect(r, i)[v] + Total(Tail(due), Expect(r, i))
      BY <1>1, <1>2, ExpectType, TotalSplit
    <3>4. Expect(r, i)[v] = 0
      BY <1>1, <1>3 DEF Expect
    <3>5. Total(Tail(due), Expect(r, i)) \in Nat
      BY <1>3, ExpectType, TotalType
    <3>6. Total(due, Expect(r, i)) = Total(due', Expect(r, i))
      BY <1>1, <3>3, <3>4, <3>5
    <3>7. Total(messages', MsgAt(r, i)) = Total(messages, MsgAt(r, i))
      BY <1>5, <1>8
    <3>. QED
      BY <3>1, <3>2, <3>6, <3>7 DEF Said2Come
  <2>4. \A r : Threw(r)' <=> Threw(r)
    BY <1>1 DEF Threw
  <2>. QED
    BY <2>1, <2>2, <2>3, <2>4
<1>. QED
  BY <1>9, <1>10, <1>11 DEF PassInv

\* The comments are heeded.
LEMMA PassFilter ==
  ASSUME TypeInv, PassInv, Filter
  PROVE  PassInv'
<1>1. /\ phase = "visit" /\ phase' = "fix" /\ due = <<>> /\ due' = due
      /\ job' = job /\ text' = text /\ references' = references /\ uncreated' = uncreated
      /\ failed' = failed
      /\ messages' = Keep(messages, LAMBDA m : ~Suppressed(m))
  BY DEF Filter
<1>2. messages \in Seq(Msg) /\ job \in Jobs /\ IsText(text) /\ Readable
  BY <1>1 DEF TypeInv, TextInv, MessagesInv, IsText, Readable
<1>3. messages' = KeepIn(messages, Heeded)
  BY <1>1, <1>2, KeptAre
<1>4. \A r, i : /\ Total(messages', MsgAt(r, i))
                     = IF HiddenBy(i, r) THEN 0 ELSE Total(messages, MsgAt(r, i))
                /\ Total(messages', ErrorOf(r)) <= Total(messages, ErrorOf(r))
  BY <1>2, <1>3, FilteredTotals
<1>5. \A r : Total(messages, ErrorOf(r)) \in Nat /\ Total(messages', ErrorOf(r)) \in Nat
  <2>1. messages' \in Seq(Msg)
    BY <1>2, <1>3, KeepFacts
  <2>. QED
    BY <1>2, <2>1, WeightsType, TotalType
<1>6. CreateInv' /\ VisitInv'
  BY <1>1 DEF CreateInv, VisitInv
<1>7. ErrorsInv'
  <2>. SUFFICES ASSUME NEW r \in Range(job.rules)
                PROVE  Total(messages', ErrorOf(r)) <= FailuresOf(failed, r) + Cardinality(uncreated \cap {r})
    BY <1>1 DEF ErrorsInv
  <2>1. Total(messages, ErrorOf(r)) <= FailuresOf(failed, r) + Cardinality(uncreated \cap {r})
    BY DEF PassInv, ErrorsInv
  <2>2. FailuresOf(failed, r) \in Nat
    BY FailuresType DEF TypeInv, MessagesInv
  <2>3. Cardinality(uncreated \cap {r}) \in Nat
    <3>1. IsFiniteSet({r})
      BY FS_Singleton
    <3>2. IsFiniteSet(uncreated \cap {r})
      BY <3>1, FS_Subset
    <3>. QED
      BY <3>2, FS_CardinalityType
  <2>. QED
    BY <1>4, <1>5, <2>1, <2>2, <2>3
<1>8. FixInv'
  <2>. SUFFICES ASSUME InPlace
                PROVE  /\ \A r \in Range(job.rules), i \in Lines :
                            /\ HiddenBy(i, r) => Total(messages', MsgAt(r, i)) = 0
                            /\ Total(messages', MsgAt(r, i)) <= Due(r, i)
                            /\ ~HiddenBy(i, r) /\ ~Threw(r) => Total(messages', MsgAt(r, i)) = Due(r, i)
                       /\ references = Named
    <3>1. Named' = Named
      BY <1>1, Unmoved DEF Named
    <3>2. (InPlace <=> InPlace') /\ Lines' = Lines /\ \A r, i : Due(r, i)' = Due(r, i)
      BY <1>1, Unmoved
    <3>3. \A r, i : HiddenBy(i, r)' <=> HiddenBy(i, r)
      BY <1>1, Unmoved
    <3>4. \A r : Threw(r)' <=> Threw(r)
      BY <1>1 DEF Threw
    <3>. QED
      BY <1>1, <3>1, <3>2, <3>3, <3>4 DEF FixInv
  <2>1. /\ \A r \in Range(job.rules), i \in Lines :
             Said2Come(r, i) <= Due(r, i) /\ (~Threw(r) => Said2Come(r, i) = Due(r, i))
        /\ references = Named
    BY <1>1 DEF PassInv, VisitInv
  <2>2. ASSUME NEW r \in Range(job.rules), NEW i \in Lines
        PROVE  /\ HiddenBy(i, r) => Total(messages', MsgAt(r, i)) = 0
               /\ Total(messages', MsgAt(r, i)) <= Due(r, i)
               /\ ~HiddenBy(i, r) /\ ~Threw(r) => Total(messages', MsgAt(r, i)) = Due(r, i)
    <3>1. Said2Come(r, i) = Total(messages, MsgAt(r, i))
      <4>1. Total(due, Expect(r, i)) = 0
        BY <1>1, ExpectType, TotalEmpty
      <4>2. Total(messages, MsgAt(r, i)) \in Nat
        BY <1>2, WeightsType, TotalType
      <4>. QED
        BY <4>1, <4>2 DEF Said2Come
    <3>2. Due(r, i) \in Nat
      BY <1>2, DueType
    <3>. QED
      BY <1>4, <2>1, <3>1, <3>2
  <2>. QED
    BY <2>1, <2>2
<1>. QED
  BY <1>6, <1>7, <1>8 DEF PassInv

\* The fixed text is linted again, from nothing, or is the end.
LEMMA PassFix ==
  ASSUME TypeInv, PassInv, Fix
  PROVE  PassInv'
<1>1. job' = job /\ phase = "fix" /\ (phase' = "spoiled" \/ phase' = "create")
  BY DEF Fix, Begin
<1>2. VisitInv' /\ FixInv'
  BY <1>1 DEF VisitInv, FixInv
<1>3. CASE phase' = "spoiled"
  <2>1. messages' = messages /\ failed' = failed /\ uncreated' = uncreated
    BY <1>3 DEF Fix, Begin
  <2>2. CreateInv'
    BY <1>3 DEF CreateInv
  <2>3. ErrorsInv'
    BY <1>1, <2>1 DEF PassInv, ErrorsInv
  <2>. QED
    BY <1>2, <2>2, <2>3 DEF PassInv
<1>4. CASE phase' = "create"
  <2>1. messages' = <<>> /\ failed' = {} /\ uncreated' = {} /\ seen' = {} /\ listeners' = <<>>
    BY <1>4 DEF Fix, Begin
  <2>2. \A r, i : Total(<<>>, MsgAt(r, i)) = 0 /\ Total(<<>>, ErrorOf(r)) = 0
    BY WeightsType, TotalEmpty
  <2>3. Range(listeners') = {}
    BY <2>1 DEF Range
  <2>4. CreateInv'
    BY <1>4, <2>1, <2>2, <2>3 DEF CreateInv
  <2>5. ErrorsInv'
    <3>1. \A r : FailuresOf({}, r) \in Nat
      BY FailuresType
    <3>2. \A r : Cardinality({} \cap {r}) \in Nat
      <4>. TAKE r
      <4>1. {} \cap {r} = {}
        OBVIOUS
      <4>. QED
        BY <4>1, FS_EmptySet
    <3>. QED
      BY <2>1, <2>2, <3>1, <3>2 DEF ErrorsInv
  <2>. QED
    BY <1>2, <2>4, <2>5 DEF PassInv
<1>. QED
  BY <1>1, <1>3, <1>4

\* A text that is not fixed, or nothing that happens.
LEMMA PassSettle ==
  ASSUME PassInv, Settle \/ UNCHANGED vars
  PROVE  PassInv'
<1>1. /\ job' = job /\ text' = text /\ listeners' = listeners /\ due' = due /\ seen' = seen
      /\ failed' = failed /\ messages' = messages /\ references' = references
      /\ uncreated' = uncreated
      /\ phase' = phase \/ (phase = "fix" /\ phase' = "settled")
  BY DEF Settle, vars
<1>2. /\ (InPlace <=> InPlace') /\ Lines' = Lines
      /\ \A r, i : /\ Due(r, i)' = Due(r, i) /\ Expect(r, i)' = Expect(r, i)
                   /\ (HiddenBy(i, r)' <=> HiddenBy(i, r))
  BY <1>1, Unmoved
<1>3. \A i : Before(i)' = Before(i)
  BY <1>1, Unmoved
<1>4. Named' = Named
  BY <1>1, Unmoved DEF Named
<1>5. \A r : Threw(r)' <=> Threw(r)
  BY <1>1 DEF Threw
<1>6. CreateInv'
  BY <1>1, <1>2 DEF PassInv, CreateInv
<1>7. VisitInv'
  <2>1. \A r, i : Said2Come(r, i)' = Said2Come(r, i)
    BY <1>1, <1>2 DEF Said2Come, MsgAt
  <2>2. \A k : SeenBy(k)' = SeenBy(k)
    BY <1>1 DEF SeenBy
  <2>3. CASE phase' = "visit"
    <3>1. phase = "visit"
      BY <1>1, <2>3
    <3>2. \A k \in DOMAIN due : Before(due[k].line)' = Before(due[k].line)
      BY <1>1 DEF Before, Imports, Item, Lines
    <3>. QED
      BY <1>1, <1>2, <1>4, <1>5, <2>1, <2>2, <3>1, <3>2 DEF PassInv, VisitInv
  <2>. QED
    BY <2>3 DEF VisitInv
<1>8. FixInv'
  BY <1>1, <1>2, <1>4, <1>5 DEF PassInv, FixInv
<1>9. ErrorsInv'
  BY <1>1 DEF PassInv, ErrorsInv
<1>. QED
  BY <1>6, <1>7, <1>8, <1>9 DEF PassInv

\* Both invariants, of types and of the pass, hold always.
LEMMA PassAlways == Spec => [](TypeInv /\ PassInv)
<1>1. Init => TypeInv /\ PassInv
  BY TypeInit, PassInit
<1>2. TypeInv /\ PassInv /\ [Next]_vars => TypeInv' /\ PassInv'
  <2>. SUFFICES ASSUME TypeInv, PassInv, [Next]_vars PROVE TypeInv' /\ PassInv'
    OBVIOUS
  <2>1. TypeInv'
    BY TypeStep
  <2>2. PassInv'
    BY PassCreate, PassParse, PassDispatch, PassPushParseError, PassFilter, PassFix, PassSettle DEF Next
  <2>. QED
    BY <2>1, <2>2
<1>. QED
  BY <1>1, <1>2, PTL DEF Spec

\* Messages are counted as they are weighed.
LEMMA Weighed ==
  ASSUME messages \in Seq(Msg), NEW r, NEW i
  PROVE  /\ Count(r, i) = Total(messages, MsgAt(r, i))
         /\ Cardinality(ErrorsOf(r)) = Total(messages, ErrorOf(r))
<1>. DEFINE A == {m \in Msg : m.rule = r /\ m.line = i}
            E == {m \in Msg : m.rule = "runtime-error" /\ m.of = r}
<1>1. MsgAt(r, i) \in [Msg -> Nat] /\ ErrorOf(r) \in [Msg -> Nat]
  BY WeightsType
<1>2. /\ \A x \in Msg : MsgAt(r, i)[x] = IF x \in A THEN 1 ELSE 0
      /\ \A x \in Msg : ErrorOf(r)[x] = IF x \in E THEN 1 ELSE 0
  BY DEF MsgAt, ErrorOf
<1>3. \A k \in DOMAIN messages : messages[k] \in Msg
  OBVIOUS
<1>4. /\ {k \in DOMAIN messages : messages[k] \in A}
           = {k \in DOMAIN messages : messages[k].rule = r /\ messages[k].line = i}
      /\ {k \in DOMAIN messages : messages[k] \in E} = ErrorsOf(r)
  BY <1>3 DEF ErrorsOf
<1>. HIDE DEF A, E
<1>5. ASSUME NEW B, NEW g \in [Msg -> Nat], \A x \in Msg : g[x] = IF x \in B THEN 1 ELSE 0
      PROVE  Total(messages, g) = Cardinality({k \in DOMAIN messages : messages[k] \in B})
  <2>1. Marks(g, Msg, B)
    BY <1>5 DEF Marks
  <2>2. Total(messages, g) = Cardinality(Marked(messages, B))
    BY <2>1, TotalCount
  <2>. QED
    BY <2>2 DEF Marked
<1>6. /\ Total(messages, MsgAt(r, i)) = Cardinality({k \in DOMAIN messages : messages[k] \in A})
      /\ Total(messages, ErrorOf(r)) = Cardinality({k \in DOMAIN messages : messages[k] \in E})
  BY <1>1, <1>2, <1>5
<1>. QED
  BY <1>4, <1>5, <1>6 DEF Count

\* Whatever else is enabled, and whichever other rules throw, a rule's
\* messages are its reports on each line that no comment hides (in a block
\* that the documentation has hide the line, perhaps none), and the
\* references are those of the whole text, in every document of every length
\* whose offsets are its own (runLinter, the dispatch of listeners and
\* filterDisabledMessages): the reports to come are a sum over the visits.
THEOREM LintPassExact == Spec => []PassExact
<1>1. TypeInv /\ PassInv => PassExact
  <2>. SUFFICES ASSUME TypeInv, PassInv, phase \in {"fix", "settled"}, InPlace
                PROVE  /\ \A r \in Range(job.rules), i \in Lines :
                            /\ HiddenBy(i, r) => Count(r, i) = 0
                            /\ Count(r, i) <= Due(r, i)
                            /\ ~HiddenBy(i, r) /\ ~Threw(r) => Count(r, i) = Due(r, i)
                       /\ \A r \in Range(job.rules) :
                            Cardinality(ErrorsOf(r)) <= Cardinality({h \in failed : h[1] = r})
                                                        + Cardinality(uncreated \cap {r})
                       /\ references = Named
    BY DEF PassExact, Named
  <2>1. messages \in Seq(Msg)
    BY DEF TypeInv, MessagesInv
  <2>2. \A r, i : /\ Count(r, i) = Total(messages, MsgAt(r, i))
                  /\ Cardinality(ErrorsOf(r)) = Total(messages, ErrorOf(r))
    BY <2>1, Weighed
  <2>. QED
    BY <2>2 DEF PassInv, FixInv, ErrorsInv, FailuresOf
<1>. QED
  BY <1>1, PassAlways, PTL

-----------------------------------------------------------------------------
(***************************************************************************)
(* The fixes a text asks for, and where they fall.                         *)
(***************************************************************************)
At(i, f) == [start |-> Place(i, f.from), end |-> Place(i, f.to) + 1, with |-> f.with]
Gives(fs, i, g) == \E f \in Range(fs) : f # NoFix /\ g = At(i, f[1])
Asked(r, i, g) == Gives(ReportsOn(r, i), i, g)
Offering(r, v, g) == v.hook # "error" /\ v.off # 0 /\ Gives(Said(r, v), v.off, g)

\* Two sequences of reports give what each of them gives.
LEMMA GivesConcat ==
  ASSUME NEW S, NEW fs \in Seq(S), NEW gs \in Seq(S), NEW i, NEW g
  PROVE  /\ Gives(fs \o gs, i, g) <=> Gives(fs, i, g) \/ Gives(gs, i, g)
         /\ ~Gives(<<>>, i, g) /\ ~Gives(WithoutOffset(fs), i, g)
<1>1. \A x : x \in Range(fs \o gs) <=> x \in Range(fs) \/ x \in Range(gs)
  BY ConcatHas
<1>2. Range(<<>>) = {}
  BY DEF Range
<1>3. \A x \in Range(WithoutOffset(fs)) : x = NoFix
  BY DEF Range, WithoutOffset
<1>. QED
  BY <1>1, <1>2, <1>3 DEF Gives

\* What a rule reports on a line is a sequence of offers of fixes in the line.
LEMMA ReportsOnType ==
  ASSUME Readable, InPlace, IsText(text), NEW i \in Lines, NEW r
  PROVE  ReportsOn(r, i) \in Seq(Offers(Len(Item(i).value)))
<1>. DEFINE node(as) == OnNode(r, as, Item(i), Before(i), Imports, Scope)
            S == Offers(Len(Item(i).value))
<1>1. Item(i) \in Items
  BY ReadableFacts
<1>2. /\ Item(i).value \in Value
      /\ Item(i).kind = "tag" => Item(i).value # <<>> /\ IsFiniteSet(Item(i).attrs)
  BY <1>1, ItemFacts
<1>3. OnDeclaration(r, Item(i)) \in Seq(S)
  BY <1>2, OnDeclarationType
<1>4. node("attribute") \in Seq(S) /\ node("entry") \in Seq(S) /\ node(Item(i).kind) \in Seq(S)
  <2>1. "attribute" # "tag" /\ "entry" # "tag"
    OBVIOUS
  <2>. QED
    BY <1>2, <2>1, OnNodeType
<1>5. NoFix \in S
  BY DEF Offers
<1>. HIDE DEF S
<1>6. WithoutOffset(OnDeclaration(r, Item(i))) \in Seq(S)
  <2>1. PICK n \in Nat : DOMAIN OnDeclaration(r, Item(i)) = 1..n
    BY <1>3, LenProperties
  <2>2. WithoutOffset(OnDeclaration(r, Item(i))) \in [1..n -> S]
    BY <1>5, <2>1 DEF WithoutOffset
  <2>. QED
    BY <2>2, FunctionIsSeq
<1>7. ReportsOn(r, i) =
         IF Unconfigured(r) THEN <<>>
         ELSE CASE IsDecl(i) -> IF Parses(AreaOf(i)) THEN OnDeclaration(r, Item(i)) ELSE <<>>
                [] IsEntry(i) ->
                     (IF AreaOf(i).kind = "object" THEN node("attribute") ELSE <<>>)
                     \o (IF AreaOf(i).kind = "object" /\ Literal(Item(i))
                         THEN WithoutOffset(OnDeclaration(r, Item(i))) ELSE <<>>)
                     \o (IF AreaOf(i).kind = "object" /\ Consumed(Item(i)) THEN <<>> ELSE node("entry"))
                [] OTHER -> node(Item(i).kind)
  BY DEF ReportsOn
<1>8. <<>> \in Seq(S)
  OBVIOUS
<1>. HIDE DEF node
<1>9. CASE IsDecl(i)
  <2>1. ~IsEntry(i)
    BY <1>9 DEF IsDecl, IsEntry
  <2>. QED
    BY <1>3, <1>7, <1>8, <1>9, <2>1 DEF S
<1>10. CASE IsEntry(i)
  <2>1. ~IsDecl(i)
    BY <1>10 DEF IsDecl, IsEntry
  <2>2. PICK a \in Seq(S), b \in Seq(S), c \in Seq(S) :
          /\ a = IF AreaOf(i).kind = "object" THEN node("attribute") ELSE <<>>
          /\ b = IF AreaOf(i).kind = "object" /\ Literal(Item(i))
                 THEN WithoutOffset(OnDeclaration(r, Item(i))) ELSE <<>>
          /\ c = IF AreaOf(i).kind = "object" /\ Consumed(Item(i)) THEN <<>> ELSE node("entry")
    BY <1>4, <1>6, <1>8 DEF node
  <2>3. a \o b \o c \in Seq(S)
    BY <2>2
  <2>4. ReportsOn(r, i) = IF Unconfigured(r) THEN <<>> ELSE a \o b \o c
    BY <1>7, <1>10, <2>1, <2>2
  <2>. QED
    BY <1>8, <2>3, <2>4 DEF S
<1>11. CASE ~IsDecl(i) /\ ~IsEntry(i)
  <2>1. node(Item(i).kind) \in Seq(S)
    BY <1>4 DEF node
  <2>2. ReportsOn(r, i) = IF Unconfigured(r) THEN <<>> ELSE node(Item(i).kind)
    BY <1>7, <1>11
  <2>. QED
    BY <1>8, <2>1, <2>2 DEF S
<1>. QED
  BY <1>9, <1>10, <1>11 DEF S

\* A line asks for the fixes that its visits offer.
LEMMA LineFixes ==
  ASSUME Readable, InPlace, IsText(text), NEW i \in Lines, NEW r, NEW g
  PROVE  Asked(r, i, g) <=> \E v \in Range(LineOf(AreaOf(i), i)) : Offering(r, v, g)
<1>. DEFINE node(as) == OnNode(r, as, Item(i), Before(i), Imports, Scope)
            S == Offers(Len(Item(i).value))
            unset == Unconfigured(r)
            d == Declare(i, i, i)
            l == Declare(i, i, 0)
            t == AsAttribute(i, i)
            n == Node(i, i)
<1>1. PICK a \in Range(job.areas) : a = AreaOf(i) /\ i \in a.first..a.last
  BY AreasFacts
<1>2. i \in Nat \ {0}
  BY ReadableFacts
<1>3. /\ Item(i).value \in Value
      /\ Item(i).kind = "tag" => Item(i).value # <<>> /\ IsFiniteSet(Item(i).attrs)
      /\ Item(i).kind \in {"declaration", "entry", "string", "tag", "import", "local", "blank", "broken"}
  BY ReadableFacts, ItemFacts
<1>4. \A e : ~Gives(<<>>, i, e)
  BY DEF Gives, Range
<1>5. /\ Offering(r, d, g) <=> ~unset /\ Gives(OnDeclaration(r, Item(i)), i, g)
      /\ ~Offering(r, l, g)
      /\ Offering(r, t, g) <=> ~unset /\ Gives(node("attribute"), i, g)
      /\ Offering(r, n, g) <=> ~unset /\ Gives(node(Item(i).kind), i, g)
  <2>1. /\ d.hook = "onCSSDeclaration" /\ d.off = i /\ d.item = Item(i)
        /\ l.off = 0
        /\ t.hook = "onNode" /\ t.off = i /\ t.item = Item(i) /\ t.as = "attribute" /\ t.line = i
        /\ n.hook = "onNode" /\ n.off = i /\ n.item = Item(i) /\ n.as = Item(i).kind /\ n.line = i
    BY DEF Declare, AsAttribute, Node, Visit
  <2>. HIDE DEF d, l, t, n
  <2>. QED
    BY <1>2, <1>4, <2>1 DEF Offering, Said
<1>6. /\ OnDeclaration(r, Item(i)) \in Seq(S)
      /\ node("attribute") \in Seq(S) /\ node("entry") \in Seq(S)
  <2>1. "attribute" # "tag" /\ "entry" # "tag"
    OBVIOUS
  <2>. QED
    BY <1>3, <2>1, OnDeclarationType, OnNodeType
<1>7. \A k \in {"local", "blank", "broken"} : node(k) = <<>>
  BY DEF OnNode
<1>8. /\ \A v : v \in Range(LineOf(a, i)) <=>
           IF job.type = "css" THEN Parses(a) /\ IsDecl(i) /\ v = d
           ELSE IF a.kind = "object"
           THEN /\ OfAttribute(i)
                /\ v = t \/ (Literal(Item(i)) /\ v = l) \/ (~Consumed(Item(i)) /\ v = n)
           ELSE Nodal(i) /\ v = n
  BY <1>1, LineHas
<1>9. /\ job.type = "css" => Item(i).kind \in {"declaration", "blank", "broken"}
      /\ job.type # "css" /\ a.kind = "object" => Item(i).kind = "blank" \/ OfAttribute(i)
      /\ job.type # "css" /\ a.kind # "object" => Item(i).kind # "declaration"
  BY <1>1, LineSuits
<1>10. /\ (IsDecl(i) <=> Item(i).kind = "declaration") /\ (IsEntry(i) <=> Item(i).kind = "entry")
       /\ (OfAttribute(i) => IsEntry(i))
       /\ (Nodal(i) <=> Item(i).kind \in {"entry", "string", "tag", "import"})
  BY DEF IsDecl, IsEntry, OfAttribute, Nodal
<1>11. ReportsOn(r, i) =
         IF unset THEN <<>>
         ELSE CASE IsDecl(i) -> IF Parses(a) THEN OnDeclaration(r, Item(i)) ELSE <<>>
                [] IsEntry(i) ->
                     (IF a.kind = "object" THEN node("attribute") ELSE <<>>)
                     \o (IF a.kind = "object" /\ Literal(Item(i))
                         THEN WithoutOffset(OnDeclaration(r, Item(i))) ELSE <<>>)
                     \o (IF a.kind = "object" /\ Consumed(Item(i)) THEN <<>> ELSE node("entry"))
                [] OTHER -> node(Item(i).kind)
  BY <1>1 DEF ReportsOn
<1>12. IsEntry(i) =>
         (Gives((IF a.kind = "object" THEN node("attribute") ELSE <<>>)
                \o (IF a.kind = "object" /\ Literal(Item(i))
                    THEN WithoutOffset(OnDeclaration(r, Item(i))) ELSE <<>>)
                \o (IF a.kind = "object" /\ Consumed(Item(i)) THEN <<>> ELSE node("entry")), i, g)
          <=> \/ a.kind = "object" /\ Gives(node("attribute"), i, g)
              \/ ~(a.kind = "object" /\ Consumed(Item(i))) /\ Gives(node("entry"), i, g))
  <2>1. NoFix \in S
    BY DEF Offers
  <2>. HIDE DEF S
  <2>2. WithoutOffset(OnDeclaration(r, Item(i))) \in Seq(S)
    <3>1. PICK k \in Nat : DOMAIN OnDeclaration(r, Item(i)) = 1..k
      BY <1>6, LenProperties
    <3>2. WithoutOffset(OnDeclaration(r, Item(i))) \in [1..k -> S]
      BY <2>1, <3>1 DEF WithoutOffset
    <3>. QED
      BY <3>2, FunctionIsSeq
  <2>3. ~Gives(WithoutOffset(OnDeclaration(r, Item(i))), i, g)
    BY DEF Gives, WithoutOffset, Range
  <2>4. PICK x \in Seq(S), y \in Seq(S), z \in Seq(S) :
          /\ x = IF a.kind = "object" THEN node("attribute") ELSE <<>>
          /\ y = IF a.kind = "object" /\ Literal(Item(i))
                 THEN WithoutOffset(OnDeclaration(r, Item(i))) ELSE <<>>
          /\ z = IF a.kind = "object" /\ Consumed(Item(i)) THEN <<>> ELSE node("entry")
    <3>. HIDE DEF node
    <3>1. <<>> \in Seq(S)
      OBVIOUS
    <3>. QED
      BY <1>6, <2>2, <3>1 DEF node
  <2>5. Gives(x \o y, i, g) <=> Gives(x, i, g) \/ Gives(y, i, g)
    BY GivesConcat
  <2>6. x \o y \in Seq(S)
    OBVIOUS
  <2>7. Gives((x \o y) \o z, i, g) <=> Gives(x \o y, i, g) \/ Gives(z, i, g)
    <3>1. PICK w \in Seq(S) : w = x \o y
      BY <2>6
    <3>2. Gives(w \o z, i, g) <=> Gives(w, i, g) \/ Gives(z, i, g)
      BY GivesConcat
    <3>. QED
      BY <3>1, <3>2
  <2>8. ~Gives(y, i, g)
    BY <1>4, <2>3, <2>4
  <2>9. /\ Gives(x, i, g) <=> a.kind = "object" /\ Gives(node("attribute"), i, g)
        /\ Gives(z, i, g) <=> ~(a.kind = "object" /\ Consumed(Item(i))) /\ Gives(node("entry"), i, g)
    <3>. HIDE DEF node
    <3>. QED
      BY <1>4, <2>4 DEF node
  <2>. HIDE DEF node
  <2>10. Gives(x \o y \o z, i, g)
           <=> \/ a.kind = "object" /\ Gives(node("attribute"), i, g)
               \/ ~(a.kind = "object" /\ Consumed(Item(i))) /\ Gives(node("entry"), i, g)
    BY <2>5, <2>7, <2>8, <2>9
  <2>. QED
    BY <2>4, <2>10
<1>. HIDE DEF node, S, unset, d, l, t, n
<1>13. CASE IsDecl(i)
  <2>1. ~IsEntry(i) /\ ~Nodal(i) /\ ~OfAttribute(i) /\ job.type = "css"
    BY <1>9, <1>10, <1>13
  <2>2. Asked(r, i, g) <=> ~unset /\ Parses(a) /\ Gives(OnDeclaration(r, Item(i)), i, g)
    BY <1>4, <1>11, <1>13, <2>1 DEF Asked
  <2>. QED
    BY <1>1, <1>5, <1>8, <1>13, <2>1, <2>2
<1>14. CASE IsEntry(i)
  <2>1. ~IsDecl(i) /\ Nodal(i) /\ job.type # "css" /\ (a.kind = "object" => OfAttribute(i))
        /\ Item(i).kind = "entry"
    BY <1>9, <1>10, <1>14
  <2>2. Asked(r, i, g)
          <=> /\ ~unset
              /\ \/ a.kind = "object" /\ Gives(node("attribute"), i, g)
                 \/ ~(a.kind = "object" /\ Consumed(Item(i))) /\ Gives(node("entry"), i, g)
    BY <1>4, <1>11, <1>12, <1>14, <2>1 DEF Asked
  <2>3. CASE a.kind = "object"
    BY <1>1, <1>5, <1>8, <2>1, <2>2, <2>3
  <2>4. CASE a.kind # "object"
    BY <1>1, <1>5, <1>8, <2>1, <2>2, <2>4
  <2>. QED
    BY <2>3, <2>4
<1>15. CASE ~IsDecl(i) /\ ~IsEntry(i)
  <2>1. ~OfAttribute(i)
    BY <1>10, <1>15
  <2>2. Asked(r, i, g) <=> ~unset /\ Gives(node(Item(i).kind), i, g)
    BY <1>4, <1>11, <1>15 DEF Asked
  <2>3. CASE job.type # "css" /\ a.kind # "object"
    <3>1. Nodal(i) \/ Item(i).kind \in {"local", "blank", "broken"}
      BY <1>3, <1>10, <1>15
    <3>2. Nodal(i) \/ ~Gives(node(Item(i).kind), i, g)
      BY <1>4, <1>7, <3>1
    <3>. QED
      BY <1>1, <1>5, <1>8, <2>2, <2>3, <3>2
  <2>4. CASE ~(job.type # "css" /\ a.kind # "object")
    <3>1. Item(i).kind \in {"blank", "broken"}
      BY <1>9, <1>10, <1>15, <2>1, <2>4
    <3>2. ~Gives(node(Item(i).kind), i, g)
      BY <1>4, <1>7, <3>1
    <3>. QED
      BY <1>1, <1>8, <1>15, <2>1, <2>2, <2>4, <3>2
  <2>. QED
    BY <2>3, <2>4
<1>. QED
  BY <1>13, <1>14, <1>15

\* The visits of a text offer, line by line, the fixes it asks for.
LEMMA VisitsFixes ==
  ASSUME Readable, InPlace, IsText(text)
  PROVE  /\ \A v \in Range(Visits) : v.hook = "error" \/ v.line \in Lines
         /\ \A r, g : \A i \in Lines :
              Asked(r, i, g) <=> \E v \in Range(Visits) : v.line = i /\ Offering(r, v, g)
<1>1. \A v \in Range(Visits) : v \in Visited
  BY VisitsType DEF Range
<1>2. \A v \in Range(Visits) : v.hook = "error" \/ \E i \in Lines : v \in Range(LineOf(AreaOf(i), i))
  <2>. SUFFICES ASSUME NEW v \in Range(Visits), v.hook # "error"
                PROVE  \E i \in Lines : v \in Range(LineOf(AreaOf(i), i))
    OBVIOUS
  <2>1. v.as # "error"
    BY <1>1 DEF Visited
  <2>. QED
    BY <2>1, VisitsHave
<1>3. \A i \in Lines : \A v \in Range(LineOf(AreaOf(i), i)) : v.line = i /\ v \in Range(Visits)
  BY LineVisit, VisitsHave
<1>4. ASSUME NEW r, NEW g, NEW i \in Lines
      PROVE  Asked(r, i, g) <=> \E v \in Range(Visits) : v.line = i /\ Offering(r, v, g)
  <2>1. Asked(r, i, g) <=> \E v \in Range(LineOf(AreaOf(i), i)) : Offering(r, v, g)
    BY LineFixes
  <2>2. ASSUME NEW v \in Range(Visits), v.line = i, Offering(r, v, g)
        PROVE  v \in Range(LineOf(AreaOf(i), i))
    <3>1. v.hook # "error"
      BY <2>2 DEF Offering
    <3>. QED
      BY <1>2, <1>3, <2>2, <3>1
  <2>. QED
    BY <1>3, <2>1, <2>2
<1>. QED
  BY <1>2, <1>3, <1>4

Carries(m, r, i, g) == m.rule = r /\ m.line = i /\ m.fix = <<g>>
Carried(r, i, g) == \E m \in Range(messages) : Carries(m, r, i, g)
ToOffer(r, i, g) == \E v \in Range(due) : v.line = i /\ Offering(r, v, g)

\* A rule's messages about a visit carry the fixes it offers there.
LEMMA ReportedFixes ==
  ASSUME NEW v \in Visited, v.hook # "error", v.as = "tag" => seen = Before(v.line),
         NEW r \in STRING
  PROVE  /\ \A m \in Range(Reported(r, v)) : m.rule = r /\ m.line = v.line
         /\ \A g : Offering(r, v, g) <=> \E m \in Range(Reported(r, v)) : Carries(m, r, v.line, g)
<1>1. PICK s : s = Said(r, v)
  OBVIOUS
<1>2. s \in Seq(Offers(Len(v.item.value))) /\ Reports(r, v) = s
  BY <1>1, SaidType, SaidNow
<1>3. PICK n \in Nat : n = Len(s) /\ DOMAIN s = 1..n
  BY <1>2, LenProperties
<1>4. PICK t \in Seq(Msg) :
        /\ t = Reported(r, v) /\ Len(t) = n
        /\ \A k \in 1..n : t[k] = Message(r, r, v.line, FixAt(v.off, s[k]))
  BY <1>2, <1>3, ReportedType
<1>5. DOMAIN t = 1..n
  BY <1>4
<1>6. \A k \in 1..n : t[k].rule = r /\ t[k].line = v.line /\ t[k].fix = FixAt(v.off, s[k])
  BY <1>4 DEF Message
<1>7. ASSUME NEW g, NEW k \in 1..n
      PROVE  t[k].fix = <<g>> <=> v.off # 0 /\ s[k] # NoFix /\ g = At(v.off, s[k][1])
  <2>1. FixAt(v.off, s[k]) = IF v.off = 0 \/ s[k] = NoFix THEN NoFix ELSE <<At(v.off, s[k][1])>>
    BY DEF FixAt, At
  <2>2. NoFix # <<g>>
    BY DEF NoFix
  <2>3. \A y : <<y>> = <<g>> <=> g = y
    OBVIOUS
  <2>. QED
    BY <1>6, <2>1, <2>2, <2>3
<1>8. \A g : Offering(r, v, g) <=> \E k \in 1..n : v.off # 0 /\ s[k] # NoFix /\ g = At(v.off, s[k][1])
  BY <1>1, <1>3 DEF Offering, Gives, Range
<1>9. Range(Reported(r, v)) = {t[k] : k \in 1..n}
  BY <1>4, <1>5 DEF Range
<1>10. \A g : (\E m \in Range(Reported(r, v)) : Carries(m, r, v.line, g)) <=> \E k \in 1..n : t[k].fix = <<g>>
  BY <1>6, <1>9 DEF Carries
<1>11. \A g : (\E k \in 1..n : t[k].fix = <<g>>) <=> Offering(r, v, g)
  BY <1>7, <1>8
<1>12. \A m \in Range(Reported(r, v)) : m.rule = r /\ m.line = v.line
  BY <1>6, <1>9
<1>. QED
  BY <1>10, <1>11, <1>12

\* What a dispatch reports are fixes that a listener offers at the visit, and
\* all of them when nobody throws.
LEMMA DispatchedFixes ==
  ASSUME NEW v \in Visited, v.hook # "error", v.as = "tag" => seen = Before(v.line),
         NEW throwing, NEW late \in BOOLEAN, listeners \in Seq(STRING)
  PROVE  /\ \A m \in Range(Dispatched(v, throwing, late)) :
              \/ m.fix = NoFix
              \/ /\ m.rule \in Range(listeners) /\ m.line = v.line
                 /\ \A g : m.fix = <<g>> => Offering(m.rule, v, g)
         /\ failed = {} /\ throwing = {} =>
              \A r \in Range(listeners) : \A g :
                Offering(r, v, g) =>
                  \E m \in Range(Dispatched(v, throwing, late)) : Carries(m, r, v.line, g)
<1>1. PICK n \in Nat : n = Len(listeners) /\ DOMAIN listeners = 1..n
  BY LenProperties
<1>2. PICK ss \in [1..n -> Seq(Msg)] :
        /\ ss = [k \in 1..n |-> Heard(v, throwing, late, listeners[k])]
        /\ Dispatched(v, throwing, late) = FlattenSeq(ss)
  BY <1>1, DispatchedType
<1>3. ss \in Seq(Seq(Msg)) /\ Len(ss) = n
  BY PiecesType
<1>4. \A k \in 1..n : ss[k] = Heard(v, throwing, late, listeners[k]) /\ listeners[k] \in STRING
  BY <1>1, <1>2
<1>5. Range(listeners) = {listeners[k] : k \in 1..n}
  BY <1>1 DEF Range
<1>6. \A m : m \in Range(Dispatched(v, throwing, late)) <=> \E k \in 1..n : m \in Range(ss[k])
  BY <1>2, <1>3, FlatHas
<1>7. ASSUME NEW k \in 1..n, NEW m \in Range(ss[k])
      PROVE  m.fix = NoFix \/ m \in Range(Reported(listeners[k], v))
  <2>1. PICK r \in STRING : r = listeners[k]
    BY <1>4
  <2>2. m \in Range(Heard(v, throwing, late, r))
    BY <1>4, <1>7, <2>1
  <2>3. Range(<<>>) = {} /\ Range(<<RuntimeError(r, v.line)>>) = {RuntimeError(r, v.line)}
    BY DEF Range
  <2>4. RuntimeError(r, v.line).fix = NoFix
    BY DEF RuntimeError, Message
  <2>5. Reported(r, v) \in Seq(Msg) /\ <<RuntimeError(r, v.line)>> \in Seq(Msg)
    <3>1. v.line \in Nat
      BY DEF Visited
    <3>. QED
      BY <3>1, ReportedType, RuntimeErrorType
  <2>6. CASE <<r, v.hook>> \in failed
    BY <2>2, <2>3, <2>6 DEF Heard
  <2>7. CASE <<r, v.hook>> \notin failed /\ r \notin throwing
    BY <2>1, <2>2, <2>7 DEF Heard
  <2>8. CASE <<r, v.hook>> \notin failed /\ r \in throwing
    <3>1. <<>> \in Seq(Msg)
      OBVIOUS
    <3>2. PICK s \in Seq(Msg), e \in Seq(Msg) :
            s = (IF late THEN Reported(r, v) ELSE <<>>) /\ e = <<RuntimeError(r, v.line)>>
      BY <2>5, <3>1
    <3>3. m \in Range(s \o e)
      BY <2>2, <2>8, <3>2 DEF Heard
    <3>4. m \in Range(s) \/ m \in Range(e)
      BY <3>3, ConcatHas
    <3>. QED
      BY <2>1, <2>3, <2>4, <3>2, <3>4
  <2>. QED
    BY <2>6, <2>7, <2>8
<1>8. \A k \in 1..n :
        /\ \A m \in Range(Reported(listeners[k], v)) : m.rule = listeners[k] /\ m.line = v.line
        /\ \A g : Offering(listeners[k], v, g)
                    <=> \E m \in Range(Reported(listeners[k], v)) : Carries(m, listeners[k], v.line, g)
  BY <1>4, ReportedFixes
<1>9. ASSUME NEW m \in Range(Dispatched(v, throwing, late)), m.fix # NoFix
      PROVE  /\ m.rule \in Range(listeners) /\ m.line = v.line
             /\ \A g : m.fix = <<g>> => Offering(m.rule, v, g)
  <2>1. PICK k \in 1..n : m \in Range(ss[k])
    BY <1>6
  <2>2. m \in Range(Reported(listeners[k], v))
    BY <1>7, <1>9, <2>1
  <2>3. m.rule = listeners[k] /\ m.line = v.line
    BY <1>8, <2>2
  <2>4. ASSUME NEW g, m.fix = <<g>> PROVE Offering(m.rule, v, g)
    <3>1. Carries(m, listeners[k], v.line, g)
      BY <2>3, <2>4 DEF Carries
    <3>. QED
      BY <1>8, <2>2, <2>3, <3>1
  <2>. QED
    BY <1>5, <2>3, <2>4
<1>10. ASSUME failed = {}, throwing = {}, NEW r \in Range(listeners), NEW g, Offering(r, v, g)
       PROVE  \E m \in Range(Dispatched(v, throwing, late)) : Carries(m, r, v.line, g)
  <2>1. PICK k \in 1..n : r = listeners[k]
    BY <1>5
  <2>2. ss[k] = Reported(r, v)
    BY <1>4, <1>10, <2>1 DEF Heard
  <2>3. PICK m \in Range(Reported(r, v)) : Carries(m, r, v.line, g)
    BY <1>8, <1>10, <2>1
  <2>. QED
    BY <1>6, <2>2, <2>3
<1>. QED
  BY <1>9, <1>10

\* What a text asks for is its own.
LEMMA UnmovedFixes ==
  ASSUME job' = job, text' = text
  PROVE  /\ \A r, i, g : Asked(r, i, g)' <=> Asked(r, i, g)
         /\ \A r, v, g : Offering(r, v, g)' <=> Offering(r, v, g)
<1>1. Lines' = Lines /\ (\A i : Item(i)' = Item(i)) /\ Imports' = Imports /\ Scope' = Scope
  BY DEF Lines, Item, Imports, Scope
<1>2. \A i : Before(i)' = Before(i) /\ AreaOf(i)' = AreaOf(i) /\ (IsDecl(i)' <=> IsDecl(i)) /\ (IsEntry(i)' <=> IsEntry(i))
  BY <1>1 DEF Before, AreaOf, IsDecl, IsEntry
<1>3. \A r, i : ReportsOn(r, i)' = ReportsOn(r, i)
  BY <1>1, <1>2 DEF ReportsOn, Item, Parses, IsDecl, IsEntry, AreaOf, Before, Imports, Scope, Lines
<1>4. \A r, v : Said(r, v)' = Said(r, v)
  BY <1>1, <1>2 DEF Said, Before, Imports, Scope, Item, Lines
<1>5. \A fs, i, g : Gives(fs, i, g)' <=> Gives(fs, i, g)
  BY DEF Gives, At, Place
<1>. QED
  BY <1>3, <1>4, <1>5 DEF Asked, Offering, Gives, At, Place

\* A message carries no fix, or one that its line asks its rule for; and
\* while no listener has failed, each fix that a line asks a listener for is
\* carried by a message or offered by a visit still to come.
Genuine(m) ==
  \/ m.fix = NoFix
  \/ /\ m.rule \in Range(listeners) /\ m.line \in Lines
     /\ \A g : m.fix = <<g>> => Asked(m.rule, m.line, g)
Shown(m) == m.fix # NoFix => ~HiddenBy(m.line, m.rule)
NoFixYet == phase = "create" => \A m \in Range(messages) : m.fix = NoFix
VisitFixes == phase = "visit" /\ InPlace =>
  /\ \A m \in Range(messages) : Genuine(m)
  /\ \A v \in Range(due) : \/ v.hook = "error"
                           \/ v.line \in Lines /\ \A r, g : Offering(r, v, g) => Asked(r, v.line, g)
  /\ failed = {} => \A r \in Range(listeners), i \in Lines : \A g :
                      Asked(r, i, g) => Carried(r, i, g) \/ ToOffer(r, i, g)
FixFixes == phase = "fix" /\ InPlace =>
  /\ \A m \in Range(messages) : Genuine(m) /\ Shown(m)
  /\ failed = {} => \A r \in Range(listeners), i \in Lines : \A g :
                      Asked(r, i, g) /\ ~HiddenBy(i, r) => Carried(r, i, g)
FixesInv == NoFixYet /\ VisitFixes /\ FixFixes

\* Before the text is parsed no message has a fix.
LEMMA FixesCreate ==
  ASSUME TypeInv, FixesInv, Create \/ CreateThrows
  PROVE  FixesInv'
<1>1. phase = "create" /\ phase' = "create" /\ messages \in Seq(Msg) /\ due \in Seq(STRING) /\ due # <<>>
  BY DEF Create, CreateThrows, TypeInv, RulesInv, MessagesInv
<1>2. PICK x \in STRING : x = Head(due)
  BY <1>1, HeadAndTail
<1>3. PICK m \in Msg, s \in Seq(Msg) :
        /\ m.fix = NoFix /\ (s = <<>> \/ s = <<m>>) /\ messages' = messages \o s
  <2>1. CASE Create
    <3>1. PICK m : m = Message(x, x, 1, NoFix)
      OBVIOUS
    <3>2. m \in Msg /\ m.fix = NoFix
      BY <3>1 DEF Message, Msg, MsgRules
    <3>3. messages' = messages \o When(Unconfigured(x), m)
      BY <1>2, <2>1, <3>1 DEF Create
    <3>4. PICK s : s = When(Unconfigured(x), m)
      OBVIOUS
    <3>5. s \in Seq(Msg)
      BY <3>2, <3>4, WhenType
    <3>6. s = <<>> \/ s = <<m>>
      BY <3>4 DEF When
    <3>. QED
      BY <3>2, <3>3, <3>4, <3>5, <3>6
  <2>2. CASE CreateThrows
    <3>1. PICK m \in Msg : m = RuntimeError(x, 1)
      BY RuntimeErrorType
    <3>2. m.fix = NoFix
      BY <3>1 DEF RuntimeError, Message
    <3>3. messages' = messages \o <<m>>
      BY <1>1, <1>2, <2>2, <3>1 DEF CreateThrows
    <3>4. <<m>> \in Seq(Msg)
      OBVIOUS
    <3>. QED
      BY <3>2, <3>3, <3>4
  <2>. QED
    BY <2>1, <2>2
<1>4. \A y : y \in Range(messages') => y \in Range(messages) \/ y \in Range(s)
  BY <1>1, <1>3, ConcatHas
<1>5. \A y \in Range(s) : y = m
  BY <1>3 DEF Range
<1>6. \A y \in Range(messages) : y.fix = NoFix
  BY <1>1 DEF FixesInv, NoFixYet
<1>7. NoFixYet'
  BY <1>3, <1>4, <1>5, <1>6 DEF NoFixYet
<1>. QED
  BY <1>1, <1>7 DEF FixesInv, VisitFixes, FixFixes

\* The text is parsed: every fix it asks for is offered by a visit to come.
LEMMA FixesParse ==
  ASSUME TypeInv, FixesInv, Parse
  PROVE  FixesInv'
<1>1. /\ phase = "create" /\ phase' = "visit" /\ due' = Visits
      /\ job' = job /\ text' = text /\ listeners' = listeners /\ messages' = messages
  BY DEF Parse
<1>2. Readable /\ IsText(text)
  BY <1>1 DEF TypeInv, TextInv, IsText, Readable
<1>3. \A m \in Range(messages) : m.fix = NoFix
  BY <1>1 DEF FixesInv, NoFixYet
<1>4. VisitFixes'
  <2>1. SUFFICES ASSUME InPlace
                 PROVE  /\ \A m \in Range(messages') : Genuine(m)'
                        /\ \A v \in Range(Visits) :
                             \/ v.hook = "error"
                             \/ v.line \in Lines /\ \A r, g : Offering(r, v, g) => Asked(r, v.line, g)
                        /\ \A r \in Range(listeners), i \in Lines : \A g :
                             Asked(r, i, g) => ToOffer(r, i, g)'
    <3>1. (InPlace <=> InPlace') /\ Lines' = Lines
      BY <1>1, Unmoved
    <3>2. /\ \A r, i, g : Asked(r, i, g)' <=> Asked(r, i, g)
          /\ \A r, v, g : Offering(r, v, g)' <=> Offering(r, v, g)
      BY <1>1, UnmovedFixes
    <3>. QED
      BY <1>1, <3>1, <3>2 DEF VisitFixes
  <2>2. /\ \A v \in Range(Visits) : v.hook = "error" \/ v.line \in Lines
        /\ \A r, g : \A i \in Lines :
             Asked(r, i, g) <=> \E v \in Range(Visits) : v.line = i /\ Offering(r, v, g)
    BY <1>2, <2>1, VisitsFixes
  <2>3. \A r, i, g : ToOffer(r, i, g)' <=> \E v \in Range(Visits) : v.line = i /\ Offering(r, v, g)
    BY <1>1, UnmovedFixes DEF ToOffer
  <2>4. \A m \in Range(messages') : Genuine(m)'
    BY <1>1, <1>3 DEF Genuine
  <2>. QED
    BY <2>2, <2>3, <2>4
<1>. QED
  BY <1>1, <1>4 DEF FixesInv, NoFixYet, FixFixes

\* A dispatch turns what its visit offers into messages.
LEMMA FixesDispatch ==
  ASSUME TypeInv, PassInv, FixesInv, Dispatch
  PROVE  FixesInv'
<1>. DEFINE v == Head(due)
<1>1. /\ phase = "visit" /\ phase' = "visit" /\ due # <<>> /\ v.hook # "error" /\ due' = Tail(due)
      /\ job' = job /\ text' = text /\ listeners' = listeners
  BY DEF Dispatch
<1>2. messages \in Seq(Msg) /\ due \in Seq(Visited) /\ listeners \in Seq(STRING)
  BY <1>1 DEF TypeInv, RulesInv, MessagesInv
<1>3. v \in Visited /\ Range(due) = {v} \cup Range(Tail(due))
  BY <1>1, <1>2, HeadAndTail
<1>4. PICK throwing \in SUBSET {r \in Range(listeners) \cap MayThrow : <<r, v.hook>> \notin failed},
           late \in BOOLEAN :
        /\ messages' = messages \o Dispatched(v, throwing, late)
        /\ failed' = failed \cup {<<r, v.hook>> : r \in throwing}
  BY DEF Dispatch
<1>5. PICK d \in Seq(Msg) : d = Dispatched(v, throwing, late)
  BY <1>1, <1>2, <1>3, DispatchedType
<1>6. \A m : m \in Range(messages') <=> m \in Range(messages) \/ m \in Range(d)
  BY <1>2, <1>4, <1>5, ConcatHas
<1>. HIDE DEF v
<1>7. VisitFixes'
  <2>1. SUFFICES ASSUME InPlace
                 PROVE  /\ \A m \in Range(messages') : Genuine(m)
                        /\ \A w \in Range(due') :
                             \/ w.hook = "error"
                             \/ w.line \in Lines /\ \A r, g : Offering(r, w, g) => Asked(r, w.line, g)
                        /\ failed' = {} => \A r \in Range(listeners), i \in Lines : \A g :
                             Asked(r, i, g) => Carried(r, i, g)' \/ ToOffer(r, i, g)'
    <3>1. (InPlace <=> InPlace') /\ Lines' = Lines
      BY <1>1, Unmoved
    <3>2. /\ \A r, i, g : Asked(r, i, g)' <=> Asked(r, i, g)
          /\ \A r, w, g : Offering(r, w, g)' <=> Offering(r, w, g)
      BY <1>1, UnmovedFixes
    <3>3. \A m : Genuine(m)' <=> Genuine(m)
      BY <1>1, <3>1, <3>2 DEF Genuine
    <3>. QED
      BY <1>1, <3>1, <3>2, <3>3 DEF VisitFixes
  <2>2. /\ \A m \in Range(messages) : Genuine(m)
        /\ \A w \in Range(due) : \/ w.hook = "error"
                                 \/ w.line \in Lines /\ \A r, g : Offering(r, w, g) => Asked(r, w.line, g)
        /\ failed = {} => \A r \in Range(listeners), i \in Lines : \A g :
                            Asked(r, i, g) => Carried(r, i, g) \/ ToOffer(r, i, g)
    BY <1>1, <2>1 DEF FixesInv, VisitFixes
  <2>3. v.as = "tag" => seen = Before(v.line)
    <3>1. 1 \in DOMAIN due /\ v = due[1]
      BY <1>1, <1>2 DEF v
    <3>2. SeenBy(1) = seen
      BY DEF SeenBy
    <3>. QED
      BY <1>1, <2>1, <3>1, <3>2 DEF PassInv, VisitInv
  <2>4. v.line \in Lines /\ \A r, g : Offering(r, v, g) => Asked(r, v.line, g)
    BY <1>1, <1>3, <2>2
  <2>5. /\ \A m \in Range(d) : \/ m.fix = NoFix
                               \/ /\ m.rule \in Range(listeners) /\ m.line = v.line
                                  /\ \A g : m.fix = <<g>> => Offering(m.rule, v, g)
        /\ failed = {} /\ throwing = {} =>
             \A r \in Range(listeners) : \A g :
               Offering(r, v, g) => \E m \in Range(d) : Carries(m, r, v.line, g)
    BY <1>1, <1>2, <1>3, <1>5, <2>3, DispatchedFixes
  <2>6. \A m \in Range(messages') : Genuine(m)
    BY <1>6, <2>2, <2>4, <2>5 DEF Genuine
  <2>7. \A w \in Range(due') : w \in Range(due)
    BY <1>1, <1>3
  <2>8. ASSUME failed' = {}, NEW r \in Range(listeners), NEW i \in Lines, NEW g, Asked(r, i, g),
               ~ToOffer(r, i, g)'
        PROVE  Carried(r, i, g)'
    <3>1. failed = {} /\ throwing = {}
      BY <1>4, <2>8
    <3>2. CASE Carried(r, i, g)
      BY <1>6, <3>2 DEF Carried
    <3>3. CASE ToOffer(r, i, g)
      <4>1. PICK w \in Range(due) : w.line = i /\ Offering(r, w, g)
        BY <3>3 DEF ToOffer
      <4>2. w \notin Range(due')
        <5>1. Offering(r, w, g)'
          BY <1>1, <4>1, UnmovedFixes
        <5>. QED
          BY <2>8, <4>1, <5>1 DEF ToOffer
      <4>3. w = v
        BY <1>1, <1>3, <4>2
      <4>4. PICK m \in Range(d) : Carries(m, r, i, g)
        BY <2>5, <3>1, <4>1, <4>3
      <4>. QED
        BY <1>6, <4>4 DEF Carried, Carries
    <3>. QED
      BY <2>2, <2>8, <3>1, <3>2, <3>3
  <2>. QED
    BY <2>2, <2>6, <2>7, <2>8
<1>. QED
  BY <1>1, <1>7 DEF FixesInv, NoFixYet, FixFixes

\* A parse error offers nothing and carries no fix.
LEMMA FixesPushParseError ==
  ASSUME TypeInv, FixesInv, PushParseError
  PROVE  FixesInv'
<1>1. /\ phase = "visit" /\ phase' = "visit" /\ due # <<>> /\ Head(due).hook = "error" /\ due' = Tail(due)
      /\ job' = job /\ text' = text /\ listeners' = listeners /\ failed' = failed
      /\ messages' = Append(messages, Message("parse-error", "parser", Head(due).line, NoFix))
  BY DEF PushParseError
<1>2. messages \in Seq(Msg) /\ due \in Seq(Visited)
  BY <1>1 DEF TypeInv, MessagesInv
<1>3. PICK v \in Visited : v = Head(due) /\ Range(due) = {v} \cup Range(Tail(due))
  BY <1>1, <1>2, HeadAndTail
<1>4. PICK e \in Msg : e.fix = NoFix /\ messages' = Append(messages, e)
  <2>1. v.line \in Nat
    BY DEF Visited
  <2>. QED
    BY <1>1, <1>3, <2>1 DEF Message, Msg, MsgRules
<1>5. Range(messages') = Range(messages) \cup {e}
  BY <1>2, <1>4, AppendHas
<1>6. VisitFixes'
  <2>1. SUFFICES ASSUME InPlace
                 PROVE  /\ \A m \in Range(messages') : Genuine(m)
                        /\ \A w \in Range(due') :
                             \/ w.hook = "error"
                             \/ w.line \in Lines /\ \A r, g : Offering(r, w, g) => Asked(r, w.line, g)
                        /\ failed = {} => \A r \in Range(listeners), i \in Lines : \A g :
                             Asked(r, i, g) => Carried(r, i, g)' \/ ToOffer(r, i, g)'
    <3>1. (InPlace <=> InPlace') /\ Lines' = Lines
      BY <1>1, Unmoved
    <3>2. /\ \A r, i, g : Asked(r, i, g)' <=> Asked(r, i, g)
          /\ \A r, w, g : Offering(r, w, g)' <=> Offering(r, w, g)
      BY <1>1, UnmovedFixes
    <3>3. \A m : Genuine(m)' <=> Genuine(m)
      BY <1>1, <3>1, <3>2 DEF Genuine
    <3>. QED
      BY <1>1, <3>1, <3>2, <3>3 DEF VisitFixes
  <2>2. /\ \A m \in Range(messages) : Genuine(m)
        /\ \A w \in Range(due) : \/ w.hook = "error"
                                 \/ w.line \in Lines /\ \A r, g : Offering(r, w, g) => Asked(r, w.line, g)
        /\ failed = {} => \A r \in Range(listeners), i \in Lines : \A g :
                            Asked(r, i, g) => Carried(r, i, g) \/ ToOffer(r, i, g)
    BY <1>1, <2>1 DEF FixesInv, VisitFixes
  <2>3. \A m \in Range(messages') : Genuine(m)
    BY <1>4, <1>5, <2>2 DEF Genuine
  <2>4. \A r, i, g : Carried(r, i, g) => Carried(r, i, g)'
    BY <1>5 DEF Carried
  <2>5. ASSUME NEW r, NEW i, NEW g, ToOffer(r, i, g) PROVE ToOffer(r, i, g)'
    <3>1. PICK w \in Range(due) : w.line = i /\ Offering(r, w, g)
      BY <2>5 DEF ToOffer
    <3>2. w \in Range(due')
      BY <1>1, <1>3, <3>1 DEF Offering
    <3>3. Offering(r, w, g)'
      BY <1>1, <3>1, UnmovedFixes
    <3>. QED
      BY <3>1, <3>2, <3>3 DEF ToOffer
  <2>6. \A w \in Range(due') : w \in Range(due)
    BY <1>1, <1>3
  <2>. QED
    BY <2>2, <2>3, <2>4, <2>5, <2>6
<1>. QED
  BY <1>1, <1>6 DEF FixesInv, NoFixYet, FixFixes

\* The comments take away the messages they hide, and no other.
LEMMA FixesFilter ==
  ASSUME TypeInv, FixesInv, Filter
  PROVE  FixesInv'
<1>1. /\ phase = "visit" /\ phase' = "fix" /\ due = <<>>
      /\ job' = job /\ text' = text /\ listeners' = listeners /\ failed' = failed
      /\ messages' = Keep(messages, LAMBDA m : ~Suppressed(m))
  BY DEF Filter
<1>2. messages \in Seq(Msg)
  BY DEF TypeInv, MessagesInv
<1>3. messages' = KeepIn(messages, Heeded)
  BY <1>1, <1>2, KeptAre
<1>4. \A m \in Range(messages) : m \in Msg
  BY <1>2 DEF Range
<1>5. \A m : m \in Range(messages') <=> m \in Range(messages) /\ m \in Heeded
  BY <1>2, <1>3, KeepFacts
<1>6. \A m \in Msg : m \in Heeded <=> ~HiddenBy(m.line, m.rule)
  <2>. SUFFICES ASSUME NEW m \in Msg PROVE m \in Heeded <=> ~HiddenBy(m.line, m.rule)
    OBVIOUS
  <2>1. m.line \in Nat
    BY DEF Msg
  <2>. QED
    BY <2>1, SuppressedIs DEF Heeded
<1>7. FixFixes'
  <2>1. SUFFICES ASSUME InPlace
                 PROVE  /\ \A m \in Range(messages') : Genuine(m) /\ Shown(m)
                        /\ failed = {} => \A r \in Range(listeners), i \in Lines : \A g :
                             Asked(r, i, g) /\ ~HiddenBy(i, r) => Carried(r, i, g)'
    <3>1. (InPlace <=> InPlace') /\ Lines' = Lines /\ \A r, i : (HiddenBy(i, r)' <=> HiddenBy(i, r))
      BY <1>1, Unmoved
    <3>2. \A r, i, g : Asked(r, i, g)' <=> Asked(r, i, g)
      BY <1>1, UnmovedFixes
    <3>3. \A m : (Genuine(m)' <=> Genuine(m)) /\ (Shown(m)' <=> Shown(m))
      BY <1>1, <3>1, <3>2 DEF Genuine, Shown
    <3>. QED
      BY <1>1, <3>1, <3>2, <3>3 DEF FixFixes
  <2>2. /\ \A m \in Range(messages) : Genuine(m)
        /\ failed = {} => \A r \in Range(listeners), i \in Lines : \A g :
                            Asked(r, i, g) => Carried(r, i, g) \/ ToOffer(r, i, g)
    BY <1>1, <2>1 DEF FixesInv, VisitFixes
  <2>3. \A m \in Range(messages') : Genuine(m) /\ Shown(m)
    BY <1>4, <1>5, <1>6, <2>2 DEF Shown
  <2>4. \A r, i, g : ~ToOffer(r, i, g)
    BY <1>1 DEF ToOffer, Range
  <2>5. ASSUME NEW r, NEW i, NEW g, Carried(r, i, g), ~HiddenBy(i, r) PROVE Carried(r, i, g)'
    <3>1. PICK m \in Range(messages) : Carries(m, r, i, g)
      BY <2>5 DEF Carried
    <3>2. m \in Heeded
      BY <1>4, <1>6, <2>5, <3>1 DEF Carries
    <3>. QED
      BY <1>5, <3>1, <3>2 DEF Carried, Carries
  <2>. QED
    BY <2>2, <2>3, <2>4, <2>5
<1>. QED
  BY <1>1, <1>7 DEF FixesInv, NoFixYet, VisitFixes

\* In every state the messages carry what the lines ask for.
LEMMA FixesAlways == Spec => [](TypeInv /\ PassInv /\ FixesInv)
<1>1. Init => FixesInv
  BY DEF Init, FixesInv, NoFixYet, VisitFixes, FixFixes, Range
<1>2. TypeInv /\ PassInv /\ FixesInv /\ [Next]_vars => FixesInv'
  <2>. SUFFICES ASSUME TypeInv, PassInv, FixesInv, [Next]_vars PROVE FixesInv'
    OBVIOUS
  <2>1. CASE Fix
    <3>1. phase' = "spoiled" \/ (phase' = "create" /\ messages' = <<>>)
      BY <2>1 DEF Fix, Begin
    <3>2. Range(<<>>) = {}
      BY DEF Range
    <3>. QED
      BY <3>1, <3>2 DEF FixesInv, NoFixYet, VisitFixes, FixFixes
  <2>2. CASE Settle
    BY <2>2 DEF Settle, FixesInv, NoFixYet, VisitFixes, FixFixes
  <2>3. CASE UNCHANGED vars
    <3>1. /\ phase' = phase /\ due' = due /\ job' = job /\ text' = text
          /\ listeners' = listeners /\ messages' = messages /\ failed' = failed
      BY <2>3 DEF vars
    <3>2. /\ (InPlace <=> InPlace') /\ Lines' = Lines /\ \A r, i : (HiddenBy(i, r)' <=> HiddenBy(i, r))
      BY <3>1, Unmoved
    <3>3. /\ \A r, i, g : Asked(r, i, g)' <=> Asked(r, i, g)
          /\ \A r, v, g : Offering(r, v, g)' <=> Offering(r, v, g)
      BY <3>1, UnmovedFixes
    <3>4. /\ \A m : (Genuine(m)' <=> Genuine(m)) /\ (Shown(m)' <=> Shown(m))
          /\ \A r, i, g : (Carried(r, i, g)' <=> Carried(r, i, g)) /\ (ToOffer(r, i, g)' <=> ToOffer(r, i, g))
      BY <3>1, <3>2, <3>3 DEF Genuine, Shown, Carried, ToOffer, Carries
    <3>. QED
      BY <3>1, <3>2, <3>3, <3>4 DEF FixesInv, NoFixYet, VisitFixes, FixFixes
  <2>. QED
    BY <2>1, <2>2, <2>3, FixesCreate, FixesParse, FixesDispatch, FixesPushParseError, FixesFilter DEF Next
<1>3. Spec => []FixesInv
  <2>1. TypeInv /\ PassInv /\ TypeInv' /\ PassInv' /\ FixesInv /\ [Next]_vars => FixesInv'
    BY <1>2
  <2>. QED
    BY <1>1, <2>1, PassAlways, PTL DEF Spec
<1>. QED
  BY <1>3, PassAlways, PTL

-----------------------------------------------------------------------------
(***************************************************************************)
(* A value with some of its fixes applied.                                 *)
(***************************************************************************)
Piece(v, s, c) ==
  IF \E f \in s : f.from = c THEN (CHOOSE f \in s : f.from = c).with
  ELSE IF \E f \in s : c \in f.from..f.to THEN <<>> ELSE <<v[c]>>
Separate(s) == \A f, g \in s : f = g \/ Disjoint(f, g)

\* A cell becomes what the fix that starts there puts, nothing when a fix
\* goes on over it, and stays itself otherwise.
LEMMA PieceFacts ==
  ASSUME NEW v \in Value, NEW n \in Nat, n = Len(v), NEW s, s \subseteq Offer(n), Separate(s),
         NEW c \in 1..n
  PROVE  /\ Piece(v, s, c) \in Value
         /\ \A f \in s : f.from = c => Piece(v, s, c) = f.with
         /\ \A f \in s : f.from < c /\ c <= f.to => Piece(v, s, c) = <<>>
         /\ (\A f \in s : c < f.from \/ f.to < c) => Piece(v, s, c) = <<v[c]>>
<1>1. \A f \in s : f.from \in Nat /\ f.to \in Nat /\ f.from <= f.to /\ f.with \in Value
  BY DEF Offer
<1>2. \A f, g \in s : f.from <= c /\ c <= f.to /\ g.from <= c /\ c <= g.to => f = g
  BY <1>1 DEF Separate, Disjoint
<1>3. ASSUME NEW f \in s, f.from = c PROVE Piece(v, s, c) = f.with
  <2>1. \A g \in s : g.from = c => g = f
    BY <1>1, <1>2, <1>3
  <2>2. (CHOOSE g \in s : g.from = c) = f
    BY <1>3, <2>1
  <2>. QED
    BY <1>3, <2>2 DEF Piece
<1>4. ASSUME NEW f \in s, f.from < c, c <= f.to PROVE Piece(v, s, c) = <<>>
  <2>1. ~\E g \in s : g.from = c
    BY <1>1, <1>2, <1>4
  <2>2. c \in f.from..f.to
    BY <1>1, <1>4
  <2>. QED
    BY <2>1, <2>2 DEF Piece
<1>5. ASSUME \A f \in s : c < f.from \/ f.to < c PROVE Piece(v, s, c) = <<v[c]>>
  <2>1. ~\E g \in s : g.from = c
    BY <1>1, <1>5
  <2>2. ~\E g \in s : c \in g.from..g.to
    BY <1>1, <1>5
  <2>. QED
    BY <2>1, <2>2 DEF Piece
<1>6. Piece(v, s, c) \in Value
  <2>1. v[c] \in Cell
    BY DEF Value
  <2>2. <<v[c]>> \in Value /\ <<>> \in Value
    BY <2>1 DEF Value
  <2>3. CASE \E f \in s : f.from = c
    BY <1>1, <1>3, <2>3
  <2>4. CASE (~\E f \in s : f.from = c) /\ \E f \in s : c \in f.from..f.to
    BY <2>2, <2>4 DEF Piece
  <2>5. CASE (~\E f \in s : f.from = c) /\ ~\E f \in s : c \in f.from..f.to
    BY <2>2, <2>5 DEF Piece
  <2>. QED
    BY <2>3, <2>4, <2>5
<1>. QED
  BY <1>3, <1>4, <1>5, <1>6

\* A value is replaced cell by cell.
LEMMA ReplacedSteps ==
  ASSUME NEW v \in Value, NEW n \in Nat, n = Len(v), NEW s, s \subseteq Offer(n), Separate(s)
  PROVE  \E p \in [0..n -> Value] :
           /\ p[0] = <<>>
           /\ \A c \in 1..n : p[c] = p[c - 1] \o Piece(v, s, c)
           /\ p[n] = Replaced(v, s)
<1>1. PICK ss : ss = [c \in 1..n |-> Piece(v, s, c)]
  OBVIOUS
<1>2. \A c \in 1..n : ss[c] = Piece(v, s, c) /\ Piece(v, s, c) \in Seq(Cell)
  BY <1>1, PieceFacts DEF Value
<1>3. ss \in [1..n -> Seq(Cell)]
  BY <1>1, <1>2
<1>4. ss \in Seq(Seq(Cell)) /\ Len(ss) = n
  BY <1>3, PiecesType
<1>5. DOMAIN v = 1..n
  BY DEF Value
<1>6. FlattenSeq(ss) = Replaced(v, s)
  BY <1>1, <1>5 DEF Replaced, Piece
<1>7. PICK p \in [0..n -> Seq(Cell)] :
        p[0] = <<>> /\ (\A c \in 1..n : p[c] = p[c - 1] \o ss[c]) /\ p[n] = FlattenSeq(ss)
  BY <1>4, FlatBySteps, ZenonT(30)
<1>. QED
  BY <1>2, <1>6, <1>7 DEF Value

\* A prefix is a shorter one and a cell.
LEMMA PrefixMore ==
  ASSUME NEW S, NEW v \in Seq(S)
  PROVE  /\ SubSeq(v, 1, 0) = <<>> /\ SubSeq(v, 1, Len(v)) = v
         /\ \A c \in 1..Len(v) : /\ SubSeq(v, 1, c) = SubSeq(v, 1, c - 1) \o <<v[c]>>
                                 /\ SubSeq(v, 1, c) \in Seq(S) /\ Len(SubSeq(v, 1, c)) = c
<1>1. SubSeq(v, 1, 0) = <<>> /\ SubSeq(v, 1, Len(v)) = v
  OBVIOUS
<1>2. ASSUME NEW c \in 1..Len(v)
      PROVE  /\ SubSeq(v, 1, c) = SubSeq(v, 1, c - 1) \o <<v[c]>>
             /\ SubSeq(v, 1, c) \in Seq(S) /\ Len(SubSeq(v, 1, c)) = c
  OBVIOUS
<1>. QED
  BY <1>1, <1>2

Continues(p, u, x, from, to, with) == Mended(u, from, to, with) = Mended(p, from, to, with) \o x

\* The rest of a sequence behind a place.
LEMMA RestOf ==
  ASSUME NEW S, NEW s, NEW n \in Nat, NEW to \in Nat, to <= n,
         \A c \in (to + 1)..n : s[c] \in S
  PROVE  /\ SubSeq(s, to + 1, n) \in Seq(S) /\ Len(SubSeq(s, to + 1, n)) = n - to
         /\ \A c \in 1..(n - to) : SubSeq(s, to + 1, n)[c] = s[to + c]
<1>1. PICK i \in Nat \ {0} : i = to + 1
  OBVIOUS
<1>2. \A c \in i..n : s[c] \in S
  BY <1>1
<1>3. /\ SubSeq(s, i, n) \in Seq(S) /\ Len(SubSeq(s, i, n)) = IF i <= n THEN n - i + 1 ELSE 0
      /\ \A c \in 1..(n - i + 1) : SubSeq(s, i, n)[c] = s[i + c - 1]
  BY <1>2, SubSeqProperties
<1>4. n - i + 1 = n - to /\ (i <= n \/ n - to = 0) /\ \A c \in 1..(n - to) : i + c - 1 = to + c
  BY <1>1
<1>5. Len(SubSeq(s, i, n)) = n - to
  BY <1>3, <1>4
<1>6. \A c \in 1..(n - to) : SubSeq(s, i, n)[c] = s[to + c]
  BY <1>3, <1>4
<1>7. QED
  BY <1>1, <1>3, <1>5, <1>6

\* What follows a mended place is left as it is.
LEMMA MendedMore ==
  ASSUME NEW p \in Value, NEW x \in Value, NEW from \in Nat \ {0}, NEW to \in Nat, from <= to,
         to <= Len(p), NEW with \in Value
  PROVE  /\ p \o x \in Value /\ to <= Len(p \o x)
         /\ Continues(p, p \o x, x, from, to, with)
<1>1. p \o x \in Value /\ Len(p \o x) = Len(p) + Len(x) /\ to <= Len(p \o x)
  BY DEF Value
<1>2. SubSeq(p \o x, 1, from - 1) = SubSeq(p, 1, from - 1)
  BY <1>1 DEF Value
<1>3. PICK m \in Nat, k \in Nat, y \in Seq(Cell) : m = Len(p) /\ k = Len(x) /\ y = p \o x /\ Len(y) = m + k
  <2>1. Len(p) \in Nat /\ Len(x) \in Nat
    BY LenProperties DEF Value
  <2>. QED
    BY <1>1, <2>1 DEF Value
<1>4. \A c \in 1..(m + k) : y[c] \in Cell /\ y[c] = IF c <= m THEN p[c] ELSE x[c - m]
  BY <1>3 DEF Value
<1>5. PICK a, b, l : /\ a = SubSeq(p, 1, from - 1) /\ b = SubSeq(p, to + 1, m)
                     /\ l = SubSeq(y, to + 1, m + k)
  OBVIOUS
<1>6. a \in Seq(Cell)
  <2>1. \A c \in 1..(from - 1) : p[c] \in Cell
    BY DEF Value
  <2>. QED
    BY <1>5, <2>1, SubSeqProperties
<1>7. b \in Seq(Cell) /\ Len(b) = m - to /\ \A c \in 1..(m - to) : b[c] = p[to + c]
  <2>1. \A c \in (to + 1)..m : p[c] \in Cell
    BY <1>3 DEF Value
  <2>2. to <= m
    BY <1>3
  <2>3. QED
    BY <1>3, <1>5, <2>1, <2>2, RestOf
<1>8. l \in Seq(Cell) /\ Len(l) = m + k - to /\ \A c \in 1..(m + k - to) : l[c] = y[to + c]
  <2>1. PICK j \in Nat : j = m + k
    BY <1>3
  <2>2. to <= j /\ \A c \in (to + 1)..j : y[c] \in Cell
    BY <1>3, <1>4, <2>1
  <2>3. QED
    BY <1>5, <2>1, <2>2, RestOf
<1>9. l = b \o x
  <2>1. /\ b \o x \in Seq(Cell) /\ Len(b \o x) = m + k - to
        /\ \A c \in 1..(m + k - to) : (b \o x)[c] = IF c <= m - to THEN b[c] ELSE x[c - (m - to)]
    <3>1. /\ b \o x \in Seq(Cell) /\ Len(b \o x) = Len(b) + Len(x)
          /\ \A c \in 1..(Len(b) + Len(x)) : (b \o x)[c] = IF c <= Len(b) THEN b[c] ELSE x[c - Len(b)]
      BY <1>7, ConcatProperties DEF Value
    <3>2. Len(b) + Len(x) = m + k - to
      BY <1>3, <1>7
    <3>. QED
      BY <1>7, <3>1, <3>2
  <2>2. ASSUME NEW c \in 1..(m + k - to) PROVE l[c] = (b \o x)[c]
    <3>1. to + c \in 1..(m + k) /\ (to + c <= m <=> c <= m - to) /\ (to + c) - m = c - (m - to)
      BY <1>3
    <3>2. l[c] = IF c <= m - to THEN p[to + c] ELSE x[c - (m - to)]
      BY <1>4, <1>8, <3>1
    <3>. QED
      BY <1>3, <1>7, <2>1, <3>2
  <2>. QED
    BY <1>8, <2>1, <2>2, SeqEqual
<1>10. (a \o with) \o (b \o x) = ((a \o with) \o b) \o x
  BY <1>6, <1>7, SMTT(30) DEF Value
<1>. QED
  BY <1>1, <1>2, <1>3, <1>5, <1>9, <1>10 DEF Mended, Continues

Spells(p, v, s) == p[0] = <<>> /\ \A c \in 1..Len(v) : p[c] = p[c - 1] \o Piece(v, s, c)
After(s, c) == \A f \in s : c < f.from
Fixing(s, v) == s \subseteq Offer(Len(v)) /\ Separate(s)

\* Up to the first fix a value is itself.
LEMMA UntouchedPrefix ==
  ASSUME NEW v \in Value, NEW s, Fixing(s, v), NEW p, Spells(p, v, s),
         NEW to \in 0..Len(v), After(s, to), NEW k \in 0..to
  PROVE  p[k] = SubSeq(v, 1, k)
<1>. PICK n \in Nat : n = Len(v) /\ s \subseteq Offer(n) /\ Separate(s)
  BY LenProperties DEF Value, Fixing
<1>. DEFINE G == {c \in 0..to : p[c] = SubSeq(v, 1, c)}
<1>1. v \in Seq(Cell)
  BY DEF Value
<1>2. 0 \in G
  <2>1. SubSeq(v, 1, 0) = <<>> /\ 0 \in 0..to
    BY SubSeqEmpty
  <2>. QED
    BY <2>1 DEF Spells
<1>3. ASSUME NEW c \in 0..(to - 1), c \in G PROVE c + 1 \in G
  <2>1. PICK e \in 1..n : e = c + 1 /\ e \in 0..to /\ e - 1 = c
    OBVIOUS
  <2>2. \A f \in s : e < f.from \/ f.to < e
    BY <2>1 DEF Offer, After
  <2>3. Piece(v, s, e) = <<v[e]>>
    BY <2>1, <2>2, PieceFacts
  <2>4. SubSeq(v, 1, e) = SubSeq(v, 1, e - 1) \o <<v[e]>>
    BY <1>1, <2>1, PrefixMore
  <2>. QED
    BY <1>3, <2>1, <2>3, <2>4 DEF Spells
<1>. HIDE DEF G
<1>. to \in Nat
  OBVIOUS
<1>4. \A c \in 0..to : c \in G
  BY <1>2, <1>3, Climb
<1>. QED
  BY <1>4 DEF G

\* Without fixes a value is itself.
LEMMA ReplacedNone ==
  ASSUME NEW v \in Value
  PROVE  Replaced(v, {}) = v
<1>1. PICK n \in Nat : n = Len(v)
  BY LenProperties DEF Value
<1>2. PICK none : none = {}
  OBVIOUS
<1>3. none \subseteq Offer(n) /\ Separate(none) /\ After(none, n) /\ Fixing(none, v)
  BY <1>1, <1>2 DEF Separate, After, Fixing
<1>4. PICK p \in [0..n -> Value] : Spells(p, v, none) /\ p[n] = Replaced(v, none)
  BY <1>1, <1>3, ReplacedSteps DEF Spells
<1>5. n \in 0..n
  OBVIOUS
<1>6. p[n] = SubSeq(v, 1, n)
  BY <1>1, <1>3, <1>4, <1>5, UntouchedPrefix
<1>7. SubSeq(v, 1, n) = v
  BY <1>1, PrefixMore DEF Value
<1>. QED
  BY <1>2, <1>4, <1>6, <1>7

\* A fix before all the others is applied to what they have made.
Ahead(f, s) == \A g \in s : f.to < g.from
LEMMA ReplacedMore ==
  ASSUME NEW v \in Value, NEW n \in Nat, n = Len(v), NEW s \in SUBSET Offer(n), Separate(s),
         NEW f \in Offer(n), Ahead(f, s)
  PROVE  /\ Separate(s \cup {f}) /\ s \cup {f} \subseteq Offer(n)
         /\ Replaced(v, s) \in Value /\ f.to <= Len(Replaced(v, s))
         /\ Replaced(v, s \cup {f}) = Mended(Replaced(v, s), f.from, f.to, f.with)
<1>1. PICK a, b, w : a = f.from /\ b = f.to /\ w = f.with
  OBVIOUS
<1>2. a \in Nat \ {0} /\ b \in Nat /\ a <= b /\ b <= n /\ w \in Value
  BY <1>1 DEF Offer
<1>3. PICK t : t = s \cup {f}
  OBVIOUS
<1>4. \A g \in s : g.from \in Nat /\ g.to \in Nat /\ g.from <= g.to /\ b < g.from
  BY <1>1 DEF Offer, Ahead
<1>5. t \subseteq Offer(n) /\ Separate(t)
  BY <1>1, <1>2, <1>3, <1>4 DEF Separate, Disjoint
<1>6. PICK p \in [0..n -> Value] :
        p[0] = <<>> /\ (\A c \in 1..n : p[c] = p[c - 1] \o Piece(v, s, c)) /\ p[n] = Replaced(v, s)
  BY ReplacedSteps
<1>7. PICK q \in [0..n -> Value] :
        q[0] = <<>> /\ (\A c \in 1..n : q[c] = q[c - 1] \o Piece(v, t, c)) /\ q[n] = Replaced(v, t)
  BY <1>5, ReplacedSteps
<1>8. v \in Seq(Cell) /\ b \in 1..n /\ b \in 0..n /\ a \in 1..n
  BY <1>2 DEF Value
<1>9. \A c \in 0..b : p[c] = SubSeq(v, 1, c)
  <2>1. After(s, b) /\ Spells(p, v, s) /\ Fixing(s, v) /\ b \in 0..Len(v)
    BY <1>4, <1>6, <1>8 DEF After, Spells, Fixing
  <2>. QED
    BY <2>1, UntouchedPrefix
<1>10. q[a - 1] = SubSeq(v, 1, a - 1)
  <2>1. PICK c \in 0..Len(v) : c = a - 1 /\ c \in 0..c /\ c < a
    BY <1>2
  <2>2. After(t, c)
    BY <1>1, <1>2, <1>3, <1>4, <2>1 DEF After
  <2>3. Spells(q, v, t) /\ Fixing(t, v)
    BY <1>5, <1>7 DEF Spells, Fixing
  <2>4. q[c] = SubSeq(v, 1, c)
    BY <2>1, <2>2, <2>3, UntouchedPrefix
  <2>. QED
    BY <2>1, <2>4
<1>. DEFINE front == SubSeq(v, 1, a - 1) \o w
<1>11. ASSUME NEW c \in a..b PROVE q[c] = front
  <2>. DEFINE G == {k \in 0..(b - a) : q[a + k] = front}
  <2>1. 0 \in G
    <3>1. a \in 1..n /\ f \in t /\ a + 0 = a
      BY <1>2, <1>3
    <3>2. Piece(v, t, a) = w
      BY <1>1, <1>5, <3>1, PieceFacts
    <3>3. q[a] = q[a - 1] \o Piece(v, t, a)
      BY <1>7, <3>1
    <3>. QED
      BY <1>2, <1>10, <3>1, <3>2, <3>3
  <2>2. ASSUME NEW k \in 0..((b - a) - 1), k \in G PROVE k + 1 \in G
    <3>1. PICK e \in 1..n : e = a + (k + 1) /\ e - 1 = a + k /\ a < e /\ e <= b
      BY <1>2
    <3>2. f \in t
      BY <1>3
    <3>3. Piece(v, t, e) = <<>>
      BY <1>1, <1>5, <3>1, <3>2, PieceFacts
    <3>4. q[e] = q[e - 1] \o <<>>
      BY <1>7, <3>1, <3>3
    <3>5. e - 1 \in 0..n
      BY <3>1
    <3>6. q[e] = q[e - 1]
      BY <1>7, <3>4, <3>5, ConcatEmptySeq DEF Value
    <3>7. k + 1 \in 0..(b - a)
      BY <1>2
    <3>. QED
      BY <2>2, <3>1, <3>6, <3>7
  <2>. HIDE DEF G
  <2>3. b - a \in Nat
    BY <1>2
  <2>4. \A k \in 0..(b - a) : k \in G
    BY <2>1, <2>2, <2>3, Climb
  <2>5. c - a \in 0..(b - a) /\ a + (c - a) = c
    BY <1>2
  <2>. QED
    BY <2>4, <2>5 DEF G
<1>12. b <= Len(p[b]) /\ q[b] = Mended(p[b], a, b, w)
  <2>1. p[b] = SubSeq(v, 1, b) /\ Len(p[b]) = b
    BY <1>8, <1>9, PrefixMore
  <2>2. q[b] = front
    BY <1>2, <1>11
  <2>3. SubSeq(p[b], 1, a - 1) = SubSeq(v, 1, a - 1)
    BY <1>2, <1>8, <2>1
  <2>4. SubSeq(p[b], b + 1, Len(p[b])) = <<>>
    BY <1>2, <2>1, SubSeqEmpty
  <2>5. PICK h \in Seq(Cell) : h = front
    BY <1>2, <1>7, <1>8, <2>2 DEF Value
  <2>6. h \o <<>> = h
    BY ConcatEmptySeq
  <2>7. Mended(p[b], a, b, w) = (SubSeq(p[b], 1, a - 1) \o w) \o SubSeq(p[b], b + 1, Len(p[b]))
    BY DEF Mended
  <2>8. b <= Len(p[b])
    BY <1>2, <2>1
  <2>. QED
    BY <2>2, <2>3, <2>4, <2>5, <2>6, <2>7, <2>8
<1>. DEFINE G == {k \in 0..(n - b) : b <= Len(p[b + k]) /\ q[b + k] = Mended(p[b + k], a, b, w)}
<1>13. 0 \in G
  <2>1. 0 \in 0..(n - b) /\ b + 0 = b
    BY <1>2
  <2>. QED
    BY <1>12, <2>1
<1>14. ASSUME NEW k \in 0..((n - b) - 1), k \in G PROVE k + 1 \in G
  <2>1. PICK e \in 1..n : e = b + (k + 1) /\ e - 1 = b + k /\ b < e /\ e - 1 \in 0..n
    BY <1>2
  <2>2. Piece(v, t, e) = Piece(v, s, e)
    <3>1. CASE \E g \in s : g.from = e
      BY <1>3, <1>5, <2>1, <3>1, PieceFacts
    <3>2. CASE \E g \in s : g.from < e /\ e <= g.to
      BY <1>3, <1>5, <2>1, <3>2, PieceFacts
    <3>3. CASE \A g \in s : g.from # e /\ ~(g.from < e /\ e <= g.to)
      <4>1. \A g \in t : e < g.from \/ g.to < e
        BY <1>1, <1>2, <1>3, <1>4, <2>1, <3>3
      <4>2. \A g \in s : e < g.from \/ g.to < e
        BY <1>3, <4>1
      <4>. QED
        BY <1>5, <2>1, <4>1, <4>2, PieceFacts
    <3>. QED
      BY <3>1, <3>2, <3>3
  <2>3. PICK x \in Value : x = Piece(v, s, e)
    BY <2>1, PieceFacts
  <2>4. p[e] = p[e - 1] \o x /\ q[e] = q[e - 1] \o x
    BY <1>6, <1>7, <2>1, <2>2, <2>3
  <2>5. PICK y \in Value : y = p[e - 1] /\ b <= Len(y) /\ q[e - 1] = Mended(y, a, b, w)
    BY <1>6, <1>14, <2>1
  <2>6. b <= Len(y \o x) /\ Mended(y \o x, a, b, w) = Mended(y, a, b, w) \o x
    <3>1. PICK from \in Nat \ {0}, to \in Nat, with \in Value :
            from = a /\ to = b /\ with = w /\ from <= to /\ to <= Len(y)
      BY <1>2, <2>5
    <3>2. y \in Value /\ x \in Value /\ from \in Nat \ {0} /\ to \in Nat /\ with \in Value
      BY <2>3, <2>5, <3>1
    <3>3. Continues(y, y \o x, x, from, to, with)
      BY <3>1, <3>2, MendedMore
    <3>4. to <= Len(y \o x)
      BY ONLY <3>1, <3>2, MendedMore
    <3>. QED
      BY <3>1, <3>3, <3>4 DEF Continues
  <2>7. k + 1 \in 0..(n - b)
    BY <1>2
  <2>. QED
    BY <2>1, <2>4, <2>5, <2>6, <2>7
<1>. HIDE DEF G, front
<1>15. n - b \in Nat /\ n - b \in 0..(n - b) /\ b + (n - b) = n
  BY <1>2
<1>16. \A k \in 0..(n - b) : k \in G
  BY <1>13, <1>14, <1>15, Climb
<1>17. b <= Len(p[n]) /\ q[n] = Mended(p[n], a, b, w)
  BY <1>15, <1>16 DEF G
<1>18. p[n] \in Value
  OBVIOUS
<1>. QED
  BY <1>1, <1>3, <1>5, <1>6, <1>7, <1>17, <1>18

-----------------------------------------------------------------------------
(***************************************************************************)
(* The lines of the fixed text.                                            *)
(***************************************************************************)

\* A fix falls on the cells of its line, and nowhere else.
LEMMA AtFacts ==
  ASSUME NEW i \in Nat \ {0}, NEW n \in Nat, n < Width, NEW f \in Offer(n)
  PROVE  /\ At(i, f) \in Placed
         /\ Row(At(i, f)) = i /\ FirstOf(At(i, f)) = f.from /\ LastIn(At(i, f)) = f.to
         /\ At(i, f).with = f.with
         /\ At(i, f).start = Place(i, f.from) /\ At(i, f).end = Place(i, f.to) + 1
         /\ f.from \in Nat /\ f.to \in Nat /\ 1 <= f.from /\ f.from <= f.to /\ f.to <= n
<1>1. /\ f.from \in Nat /\ f.to \in Nat /\ 1 <= f.from /\ f.from <= f.to /\ f.to <= n
      /\ f.with \in Value \ {<<>>}
  BY DEF Offer
<1>2. Width \in Nat \ {0}
  BY WidthAssumption
<1>3. f.from \in 1..(Width - 1) /\ f.to \in 1..(Width - 1)
  BY <1>1, <1>2
<1>4. PICK a \in 1..(Width - 1), b \in 1..(Width - 1) : a = f.from /\ b = f.to /\ a <= b
  BY <1>1, <1>3
<1>5. /\ Place(i, a) \in Nat /\ Place(i, b) + 1 \in Nat /\ Place(i, a) < Place(i, b) + 1
      /\ Place(i, a) \div Width = i /\ Place(i, a) % Width = a
      /\ ((Place(i, b) + 1) - 1) \div Width = i /\ ((Place(i, b) + 1) - 1) % Width = b
  BY <1>4, PlaceFacts
<1>6. At(i, f).start = Place(i, a) /\ At(i, f).end = Place(i, b) + 1 /\ At(i, f).with = f.with
  BY <1>4 DEF At
<1>7. At(i, f) \in [start : Nat, end : Nat, with : Value \ {<<>>}]
  BY <1>1, <1>4, <1>5 DEF At
<1>. QED
  BY <1>1, <1>4, <1>5, <1>6, <1>7 DEF Placed, Row, FirstOf, LastIn

\* Different fixes fall on different places.
LEMMA AtSame ==
  ASSUME NEW i \in Nat \ {0}, NEW n \in Nat, n < Width, NEW f \in Offer(n),
         NEW j \in Nat \ {0}, NEW m \in Nat, m < Width, NEW h \in Offer(m), At(i, f) = At(j, h)
  PROVE  i = j /\ f = h
<1>1. Row(At(i, f)) = i /\ FirstOf(At(i, f)) = f.from /\ LastIn(At(i, f)) = f.to /\ At(i, f).with = f.with
  BY AtFacts
<1>2. Row(At(j, h)) = j /\ FirstOf(At(j, h)) = h.from /\ LastIn(At(j, h)) = h.to /\ At(j, h).with = h.with
  BY AtFacts
<1>3. i = j /\ f.from = h.from /\ f.to = h.to /\ f.with = h.with
  BY <1>1, <1>2
<1>. QED
  BY <1>3 DEF Offer

\* The fixes on a line are those it asks the listeners for.
LEMMA FixesOnFacts ==
  ASSUME Readable, InPlace, IsText(text), NEW i \in Lines
  PROVE  /\ FixesOn(i) \subseteq Offer(Len(Item(i).value))
         /\ \A f \in FixesOn(i) : \E r \in Range(listeners) : ~HiddenBy(i, r) /\ Asked(r, i, At(i, f))
         /\ \A r \in Range(listeners) : \A g :
              Asked(r, i, g) /\ ~HiddenBy(i, r) => \E f \in FixesOn(i) : g = At(i, f)
<1>1. \A r : \A x \in Range(ReportsOn(r, i)) : x \in Offers(Len(Item(i).value))
  BY ReportsOnType DEF Range
<1>2. \A f : f \in FixesOn(i) <=>
        \E r \in Range(listeners) : /\ ~HiddenBy(i, r)
                                    /\ \E x \in Range(ReportsOn(r, i)) : x # NoFix /\ f = x[1]
  BY DEF FixesOn
<1>3. \A n : \A x \in Offers(n) : x # NoFix => x[1] \in Offer(n)
  BY DEF Offers
<1>4. \A r, g : Asked(r, i, g) <=> \E x \in Range(ReportsOn(r, i)) : x # NoFix /\ g = At(i, x[1])
  BY DEF Asked, Gives
<1>5. FixesOn(i) \subseteq Offer(Len(Item(i).value))
  BY <1>1, <1>2, <1>3
<1>6. \A f \in FixesOn(i) : \E r \in Range(listeners) : ~HiddenBy(i, r) /\ Asked(r, i, At(i, f))
  BY <1>2, <1>4
<1>7. ASSUME NEW r \in Range(listeners), NEW g, Asked(r, i, g), ~HiddenBy(i, r)
      PROVE  \E f \in FixesOn(i) : g = At(i, f)
  BY <1>2, <1>4, <1>7
<1>. QED
  BY <1>5, <1>6, <1>7

LineWith(l, x) == [l EXCEPT !.item.value = x]

\* A line with another value, and with yet another one.
LEMMA LineWithFacts ==
  ASSUME NEW l \in Line
  PROVE  /\ LineWith(l, l.item.value) = l
         /\ \A x, y : /\ LineWith(l, x).item.value = x
                      /\ [LineWith(l, x) EXCEPT !.item = [@ EXCEPT !.value = y]] = LineWith(l, y)
<1>1. PICK item, dir : item \in Items /\ l = [item |-> item, dir |-> dir]
  BY DEF Line
<1>2. "value" \in DOMAIN item /\ item = [k \in DOMAIN item |-> item[k]]
  BY <1>1 DEF Items
<1>3. \A x : LineWith(l, x) = [item |-> [item EXCEPT !.value = x], dir |-> dir]
  BY <1>1 DEF LineWith
<1>4. \A x, y : [[item EXCEPT !.value = x] EXCEPT !.value = y] = [item EXCEPT !.value = y]
  BY <1>2
<1>5. \A x : [item EXCEPT !.value = x].value = x
  BY <1>2
<1>6. [item EXCEPT !.value = item.value] = item
  BY <1>2
<1>7. LineWith(l, l.item.value) = l
  BY <1>1, <1>3, <1>6
<1>8. ASSUME NEW x, NEW y
      PROVE  /\ LineWith(l, x).item.value = x
             /\ [LineWith(l, x) EXCEPT !.item = [@ EXCEPT !.value = y]] = LineWith(l, y)
  <2>1. PICK a, b : a = [item EXCEPT !.value = x] /\ b = [item EXCEPT !.value = y] /\ a.value = x
                    /\ [a EXCEPT !.value = y] = b
    BY <1>4, <1>5
  <2>2. LineWith(l, x) = [item |-> a, dir |-> dir] /\ LineWith(l, y) = [item |-> b, dir |-> dir]
    BY <1>3, <2>1
  <2>3. [[item |-> a, dir |-> dir] EXCEPT !.item = [@ EXCEPT !.value = y]] = [item |-> b, dir |-> dir]
    BY <2>1
  <2>4. PICK m : m = LineWith(l, x) /\ m = [item |-> a, dir |-> dir]
    BY <2>2
  <2>5. m.item.value = x
    <3>1. m.item = a
      BY <2>4
    <3>. QED
      BY <2>1, <3>1
  <2>6. [m EXCEPT !.item = [@ EXCEPT !.value = y]] = LineWith(l, y)
    BY <2>2, <2>3, <2>4
  <2>. QED
    BY <2>4, <2>5, <2>6
<1>. QED
  BY <1>7, <1>8

\* The fixes of a line among the last k of a sequence, which are the first
\* k to be applied; every fix of the sequence is one of some line.
LateOn(i, fs, k) == {f \in FixesOn(i) : \E j \in (Len(fs) + 1 - k)..Len(fs) : At(i, f) = fs[j]}
Mixed(fs) == \A j \in 1..Len(fs) : \E i \in Lines : \E f \in FixesOn(i) : fs[j] = At(i, f)
LineAfter(i, s) == LineWith(text[i], Replaced(Item(i).value, s))

\* One more fix is applied: it is before the others of its line, and of no
\* other line.
LEMMA LateMore ==
  ASSUME Readable, InPlace, IsText(text), NEW fs \in Seq(Placed), Ordered(fs, Apart),
         NEW k \in Nat, k < Len(fs), NEW i \in Lines, NEW f \in FixesOn(i),
         fs[Len(fs) - k] = At(i, f)
  PROVE  /\ LateOn(i, fs, k + 1) = LateOn(i, fs, k) \cup {f}
         /\ \A h \in LateOn(i, fs, k) : f.to < h.from
         /\ \A j \in Lines : j # i => LateOn(j, fs, k + 1) = LateOn(j, fs, k)
<1>1. PICK n \in Nat : n = Len(fs) /\ DOMAIN fs = 1..n
  BY LenProperties
<1>2. PICK c \in 1..n : c = n - k /\ n + 1 - (k + 1) = c /\ n + 1 - k = c + 1
  BY <1>1
<1>3. \A j \in c..n : j = c \/ j \in (c + 1)..n
  BY <1>2
<1>4. c \in c..n /\ (c + 1)..n \subseteq c..n
  BY <1>2
<1>5. \A j : LateOn(j, fs, k) = {h \in FixesOn(j) : \E e \in (c + 1)..n : At(j, h) = fs[e]}
  BY <1>1, <1>2 DEF LateOn
<1>6. \A j : LateOn(j, fs, k + 1) = {h \in FixesOn(j) : \E e \in c..n : At(j, h) = fs[e]}
  BY <1>1, <1>2 DEF LateOn
<1>7. fs[c] = At(i, f)
  BY <1>1, <1>2
<1>8. \A j \in Lines : /\ j \in Nat \ {0} /\ Len(Item(j).value) \in Nat /\ Len(Item(j).value) < Width
                       /\ FixesOn(j) \subseteq Offer(Len(Item(j).value))
  <2>. SUFFICES ASSUME NEW j \in Lines
                PROVE  /\ j \in Nat \ {0} /\ Len(Item(j).value) \in Nat /\ Len(Item(j).value) < Width
                       /\ FixesOn(j) \subseteq Offer(Len(Item(j).value))
    OBVIOUS
  <2>1. Item(j) \in Items /\ Len(Item(j).value) < Width /\ j \in Nat \ {0}
    BY ReadableFacts
  <2>2. Item(j).value \in Seq(Cell)
    BY <2>1, ItemFacts DEF Value
  <2>3. Len(Item(j).value) \in Nat
    BY <2>2, LenProperties
  <2>. QED
    BY <2>1, <2>3, FixesOnFacts
<1>9. ASSUME NEW j \in Lines, NEW h \in FixesOn(j), At(j, h) = At(i, f)
      PROVE  j = i /\ h = f
  <2>1. PICK n1 \in Nat, n2 \in Nat : /\ n1 = Len(Item(j).value) /\ n2 = Len(Item(i).value)
                                      /\ n1 < Width /\ n2 < Width /\ h \in Offer(n1) /\ f \in Offer(n2)
    BY <1>8
  <2>2. i \in Nat \ {0} /\ j \in Nat \ {0}
    BY <1>8
  <2>. QED
    BY <1>9, <2>1, <2>2, AtSame
<1>10. LateOn(i, fs, k + 1) = LateOn(i, fs, k) \cup {f}
  BY <1>3, <1>4, <1>5, <1>6, <1>7, <1>9
<1>11. ASSUME NEW j \in Lines, j # i PROVE LateOn(j, fs, k + 1) = LateOn(j, fs, k)
  BY <1>3, <1>4, <1>5, <1>6, <1>7, <1>9, <1>11, ZenonT(30)
<1>12. ASSUME NEW h \in LateOn(i, fs, k) PROVE f.to < h.from
  <2>1. PICK e \in (c + 1)..n : At(i, h) = fs[e]
    BY <1>5
  <2>2. h \in FixesOn(i)
    BY <1>5
  <2>3. <<fs[c], fs[e]>> \in Apart
    <3>1. c \in DOMAIN fs /\ e \in DOMAIN fs /\ c < e
      BY <1>1, <1>2, <2>1
    <3>. QED
      BY <3>1 DEF Ordered
  <2>4. At(i, f).end <= At(i, h).start
    BY <1>7, <2>1, <2>3 DEF Apart
  <2>5. PICK m \in Nat : m < Width /\ f \in Offer(m) /\ h \in Offer(m) /\ i \in Nat \ {0}
    BY <1>8, <2>2
  <2>6. At(i, f).end = Place(i, f.to) + 1 /\ f.to \in Nat
    BY <2>5, AtFacts
  <2>7. At(i, h).start = Place(i, h.from) /\ h.from \in Nat
    BY <2>5, AtFacts
  <2>8. PICK p \in Nat : p = i * Width
    BY <2>5, WidthAssumption
  <2>9. (p + f.to) + 1 <= p + h.from
    BY <2>4, <2>6, <2>7, <2>8 DEF Place
  <2>. QED
    BY <2>6, <2>7, <2>9
<1>. QED
  BY <1>10, <1>11, <1>12

\* Fixes that stand apart are applied each in its line: a line is itself
\* with its own fixes applied.
LEMMA AppliedLines ==
  ASSUME Readable, InPlace, IsText(text), NEW fs \in Seq(Placed), Ordered(fs, Apart), Mixed(fs),
         NEW i \in Lines
  PROVE  /\ Applied(text, fs)[i] = LineAfter(i, LateOn(i, fs, Len(fs)))
         /\ Separate(LateOn(i, fs, Len(fs)))
<1>1. PICK n \in Nat : n = Len(fs) /\ DOMAIN fs = 1..n
  BY LenProperties
<1>2. job \in Jobs /\ text \in Texts /\ Lines = 1..Len(text) /\ Len(text) = Len(job.lines)
  BY ReadableFacts DEF Readable, Texts, IsText
<1>3. PICK T \in [0..n -> Texts] :
        /\ T[0] = text
        /\ \A k \in 1..n : T[k] = Splice(T[k - 1], fs[n + 1 - k])
        /\ Applied(text, fs) = T[n]
  BY <1>1, <1>2, AppliedBySteps
<1>4. \A j \in Lines : text[j] \in Line /\ Item(j) = text[j].item /\ Item(j) \in Items
                       /\ Item(j).value \in Value /\ Len(Item(j).value) \in Nat
  <2>. SUFFICES ASSUME NEW j \in Lines
                PROVE  text[j] \in Line /\ Item(j) = text[j].item /\ Item(j) \in Items
                       /\ Item(j).value \in Value /\ Len(Item(j).value) \in Nat
    OBVIOUS
  <2>1. text[j] \in Line /\ Item(j) = text[j].item
    BY <1>2 DEF Readable, Item
  <2>2. Item(j) \in Items
    BY ReadableFacts
  <2>3. Item(j).value \in Value
    BY <2>2, ItemFacts
  <2>4. Len(Item(j).value) \in Nat
    BY <2>3, LenProperties DEF Value
  <2>. QED
    BY <2>1, <2>2, <2>3, <2>4
<1>. DEFINE Good(k) == \A j \in Lines : /\ Separate(LateOn(j, fs, k))
                                        /\ T[k][j] = LineAfter(j, LateOn(j, fs, k))
            G == {k \in 0..n : Good(k)}
<1>5. 0 \in G
  <2>. SUFFICES ASSUME NEW j \in Lines
                PROVE  Separate(LateOn(j, fs, 0)) /\ T[0][j] = LineAfter(j, LateOn(j, fs, 0))
    OBVIOUS
  <2>1. (n + 1 - 0)..n = {}
    OBVIOUS
  <2>2. LateOn(j, fs, 0) = {}
    BY <1>1, <2>1 DEF LateOn
  <2>3. Replaced(Item(j).value, {}) = Item(j).value
    BY <1>4, ReplacedNone
  <2>4. LineWith(text[j], Item(j).value) = text[j]
    BY <1>4, LineWithFacts
  <2>. QED
    BY <1>3, <2>2, <2>3, <2>4 DEF LineAfter, Separate
<1>6. ASSUME NEW k \in 0..(n - 1), k \in G PROVE k + 1 \in G
  <2>1. PICK c \in 1..n : c = n - k /\ n + 1 - (k + 1) = c
    OBVIOUS
  <2>2. k \in Nat /\ k < n /\ k + 1 \in 1..n /\ k + 1 \in 0..n /\ (k + 1) - 1 = k /\ k \in 0..n
    OBVIOUS
  <2>3. PICK x \in Lines : \E f \in FixesOn(x) : fs[c] = At(x, f)
    BY <1>1 DEF Mixed
  <2>4. PICK f \in FixesOn(x) : fs[c] = At(x, f)
    BY <2>3
  <2>5. fs[c] \in Placed
    BY <1>1
  <2>6. PICK lines : lines = T[k] /\ IsText(lines) /\ T[k + 1] = Splice(lines, fs[c])
                     /\ Len(lines) = Len(text)
    BY <1>2, <1>3, <2>1, <2>2 DEF Texts, IsText
  <2>7. PICK m \in Nat : m = Len(Item(x).value) /\ m < Width /\ f \in Offer(m)
                         /\ FixesOn(x) \subseteq Offer(m) /\ x \in Nat \ {0}
    BY <1>4, FixesOnFacts, ReadableFacts
  <2>8. /\ Row(fs[c]) = x /\ FirstOf(fs[c]) = f.from /\ LastIn(fs[c]) = f.to /\ fs[c].with = f.with
        /\ f.to <= m
    BY <2>4, <2>7, AtFacts
  <2>9. /\ LateOn(x, fs, k + 1) = LateOn(x, fs, k) \cup {f}
        /\ \A h \in LateOn(x, fs, k) : f.to < h.from
        /\ \A j \in Lines : j # x => LateOn(j, fs, k + 1) = LateOn(j, fs, k)
    BY <1>1, <2>1, <2>2, <2>4, LateMore
  <2>10. PICK s, v : s = LateOn(x, fs, k) /\ v = Item(x).value
    OBVIOUS
  <2>11. s \in SUBSET Offer(m) /\ Separate(s) /\ v \in Value /\ m = Len(v) /\ Ahead(f, s)
    BY <1>4, <1>6, <2>7, <2>9, <2>10 DEF LateOn, Ahead
  <2>12. /\ Separate(s \cup {f})
         /\ Replaced(v, s) \in Value /\ f.to <= Len(Replaced(v, s))
         /\ Replaced(v, s \cup {f}) = Mended(Replaced(v, s), f.from, f.to, f.with)
    BY <2>7, <2>11, ReplacedMore
  <2>13. lines[x] = LineWith(text[x], Replaced(v, s)) /\ lines[x].item.value = Replaced(v, s)
    BY <1>4, <1>6, <2>6, <2>10, LineWithFacts DEF LineAfter
  <2>14. x \in 1..Len(lines) /\ 1..Len(lines) = Lines
    BY <1>2, <2>6
  <2>15. /\ Splice(lines, fs[c])[x] = [lines[x] EXCEPT !.item = MendedItem(@, fs[c])]
         /\ \A j \in Lines : j # x => Splice(lines, fs[c])[j] = lines[j]
    <3>1. PICK g \in Placed : g = fs[c] /\ Row(g) = x /\ Row(g) \in 1..Len(lines)
      BY <2>5, <2>8, <2>14
    <3>2. LastIn(g) <= Len(lines[Row(g)].item.value)
      BY <2>8, <2>12, <2>13, <3>1
    <3>3. Splice(lines, g)[Row(g)] = [lines[Row(g)] EXCEPT !.item = MendedItem(@, g)]
      BY <1>2, <2>6, <3>1, <3>2, SpliceFacts, ZenonT(30)
    <3>4. ASSUME NEW j \in 1..Len(lines), j # Row(g) PROVE Splice(lines, g)[j] = lines[j]
      <4>1. job \in Jobs /\ IsText(lines) /\ g \in Placed
        BY <1>2, <2>6, <3>1
      <4>2. \A k1 \in 1..Len(lines) :
              k1 # Row(g) /\ Row(g) \in 1..Len(lines) => Splice(lines, g)[k1] = lines[k1]
        BY <4>1, SpliceFacts, Zenon
      <4>. QED
        BY <3>1, <3>4, <4>2
    <3>. QED
      BY <2>14, <3>1, <3>3, <3>4
  <2>16. [lines[x] EXCEPT !.item = MendedItem(@, fs[c])] = LineWith(text[x], Replaced(v, s \cup {f}))
    <3>1. PICK l : l = lines[x]
      OBVIOUS
    <3>2. PICK y : y = Replaced(v, s \cup {f})
      OBVIOUS
    <3>3. MendedItem(l.item, fs[c]) = [l.item EXCEPT !.value = y]
      BY <2>8, <2>12, <2>13, <3>1, <3>2 DEF MendedItem
    <3>4. [l EXCEPT !.item = [@ EXCEPT !.value = y]] = LineWith(text[x], y)
      <4>1. PICK l0, z : l0 \in Line /\ l0 = text[x] /\ z = Replaced(v, s)
        BY <1>4
      <4>2. [LineWith(l0, z) EXCEPT !.item = [@ EXCEPT !.value = y]] = LineWith(l0, y)
        BY <4>1, LineWithFacts
      <4>3. l = LineWith(l0, z)
        BY <2>13, <3>1, <4>1
      <4>. QED
        BY <4>1, <4>2, <4>3
    <3>. QED
      BY <3>1, <3>2, <3>3, <3>4
  <2>17. ASSUME NEW j \in Lines
         PROVE  Separate(LateOn(j, fs, k + 1)) /\ T[k + 1][j] = LineAfter(j, LateOn(j, fs, k + 1))
    <3>1. CASE j = x
      BY <2>6, <2>9, <2>10, <2>12, <2>15, <2>16, <3>1 DEF LineAfter
    <3>2. CASE j # x
      BY <1>6, <2>6, <2>9, <2>15, <3>2
    <3>. QED
      BY <3>1, <3>2
  <2>. QED
    BY <2>2, <2>17
<1>. HIDE DEF Good, G
<1>7. n \in G
  <2>1. \A k \in 0..n : k \in G
    BY <1>5, <1>6, Climb
  <2>. QED
    BY <2>1
<1>8. Good(n)
  BY <1>7 DEF G
<1>. QED
  BY <1>1, <1>3, <1>8 DEF Good

\* A fix on offer that is not taken overlaps one of its line that is.
LEMMA ChosenOnes ==
  ASSUME Readable, InPlace, IsText(text), NEW fs \in Seq(Placed), Ordered(fs, ByStart),
         Mixed(fs), Mixed(Taken(fs)), NEW i \in Lines,
         \A f \in FixesOn(i) : At(i, f) \in Range(fs),
         NEW s, s = LateOn(i, Taken(fs), Len(Taken(fs))), Separate(s)
  PROVE  Chosen(FixesOn(i), s)
<1>1. PICK t \in Seq(Placed) : t = Taken(fs)
  BY TakenFacts
<1>2. PICK n \in Nat : n = Len(t) /\ DOMAIN t = 1..n /\ n + 1 - n = 1
  BY LenProperties
<1>3. Range(t) = {t[j] : j \in 1..n}
  BY <1>2 DEF Range
<1>4. \A f : f \in s <=> f \in FixesOn(i) /\ At(i, f) \in Range(t)
  BY <1>1, <1>2, <1>3 DEF LateOn
<1>5. \A j \in Lines : /\ j \in Nat \ {0} /\ Len(Item(j).value) \in Nat /\ Len(Item(j).value) < Width
                       /\ FixesOn(j) \subseteq Offer(Len(Item(j).value))
  <2>. SUFFICES ASSUME NEW j \in Lines
                PROVE  /\ j \in Nat \ {0} /\ Len(Item(j).value) \in Nat /\ Len(Item(j).value) < Width
                       /\ FixesOn(j) \subseteq Offer(Len(Item(j).value))
    OBVIOUS
  <2>1. Item(j) \in Items /\ Len(Item(j).value) < Width /\ j \in Nat \ {0}
    BY ReadableFacts
  <2>2. Item(j).value \in Seq(Cell)
    BY <2>1, ItemFacts DEF Value
  <2>3. Len(Item(j).value) \in Nat
    BY <2>2, LenProperties
  <2>. QED
    BY <2>1, <2>3, FixesOnFacts
<1>6. ASSUME NEW f \in FixesOn(i) \ s PROVE \E g \in s : ~Disjoint(f, g)
  <2>1. At(i, f) \in Range(fs) \ Range(t)
    BY <1>4, <1>6
  <2>2. PICK y \in Range(t) : y.start <= At(i, f).start /\ At(i, f).start < y.end
    BY <1>1, <2>1, TakenFacts
  <2>3. PICK j \in Lines : \E h \in FixesOn(j) : y = At(j, h)
    BY <1>1, <1>2, <1>3, <2>2 DEF Mixed
  <2>4. PICK h \in FixesOn(j) : y = At(j, h)
    BY <2>3
  <2>5. PICK m \in Nat : m < Width /\ f \in Offer(m) /\ i \in Nat \ {0}
    BY <1>5, <1>6
  <2>6. PICK k \in Nat : k < Width /\ h \in Offer(k) /\ j \in Nat \ {0}
    BY <1>5, <2>4
  <2>7. PICK a \in Nat, b \in Nat : a = f.from /\ b = f.to /\ 1 <= a /\ a <= b /\ b < Width
                                    /\ At(i, f).start = Place(i, a)
    BY <2>5, AtFacts, WidthAssumption
  <2>8. PICK c \in Nat, d \in Nat : c = h.from /\ d = h.to /\ 1 <= c /\ c <= d /\ d < Width
                                    /\ At(j, h).start = Place(j, c) /\ At(j, h).end = Place(j, d) + 1
    BY <2>6, AtFacts, WidthAssumption
  <2>9. Place(j, c) <= Place(i, a) /\ Place(i, a) < Place(j, d) + 1
    BY <2>2, <2>4, <2>7, <2>8
  <2>10. i = j /\ c <= a /\ a <= d
    <3>1. Width \in Nat \ {0} /\ Place(j, c) = j * Width + c /\ Place(i, a) = i * Width + a
          /\ Place(j, d) = j * Width + d
      BY WidthAssumption DEF Place
    <3>2. PICK p \in Nat, q \in Nat : p = i * Width /\ q = j * Width
      BY <2>5, <2>6, <3>1
    <3>3. q + c <= p + a /\ p + a < q + d + 1
      BY <2>9, <3>1, <3>2
    <3>4. p < q + Width /\ q < p + Width
      <4>1. PICK w \in Nat : w = Width /\ a < w /\ d < w /\ 1 <= c
        BY <2>7, <2>8, <3>1
      <4>2. p < q + w
        BY ONLY p \in Nat, q \in Nat, a \in Nat, d \in Nat, w \in Nat, <3>3, <4>1
      <4>3. q < p + w
        BY ONLY p \in Nat, q \in Nat, a \in Nat, c \in Nat, w \in Nat, <3>3, <4>1
      <4>. QED
        BY <4>1, <4>2, <4>3
    <3>5. i = j
      <4>1. CASE i < j
        <5>1. i * Width + Width <= j * Width
          <6>1. PICK u \in Nat : j = (i + 1) + u
            BY <2>5, <2>6, <4>1
          <6>2. j * Width = i * Width + Width + u * Width /\ u * Width \in Nat
            BY <2>5, <3>1, <6>1
          <6>. QED
            BY <3>1, <3>2, <6>2
        <5>. QED
          BY <3>1, <3>2, <3>4, <5>1
      <4>2. CASE j < i
        <5>1. j * Width + Width <= i * Width
          <6>1. PICK u \in Nat : i = (j + 1) + u
            BY <2>5, <2>6, <4>2
          <6>2. i * Width = j * Width + Width + u * Width /\ u * Width \in Nat
            BY <2>6, <3>1, <6>1
          <6>. QED
            BY <3>1, <3>2, <6>2
        <5>. QED
          BY <3>1, <3>2, <3>4, <5>1
      <4>. QED
        BY <2>5, <2>6, <4>1, <4>2
    <3>. QED
      BY <2>7, <2>8, <3>2, <3>3, <3>5, SMTT(30)
  <2>11. h \in s
    BY <1>4, <2>2, <2>4, <2>10
  <2>12. ~Disjoint(f, h)
    BY <2>7, <2>8, <2>10 DEF Disjoint
  <2>. QED
    BY <2>11, <2>12
<1>7. \A f, g \in s : f = g \/ Disjoint(f, g)
  BY DEF Separate
<1>. QED
  BY <1>6, <1>7 DEF Chosen

\* What a pass fixes, line by line.
LEMMA FixedLines ==
  ASSUME TypeInv, FixesInv, phase = "fix", InPlace, failed = {}, NEW i \in Lines
  PROVE  \E s \in SUBSET FixesOn(i) :
           Chosen(FixesOn(i), s) /\ Fixed[i] = [text[i] EXCEPT !.item.value = Replaced(@, s)]
<1>1. /\ Readable /\ IsText(text) /\ messages \in Seq(Msg)
      /\ \A m \in Range(messages) : Genuine(m) /\ Shown(m)
      /\ \A r \in Range(listeners), j \in Lines : \A g :
           Asked(r, j, g) /\ ~HiddenBy(j, r) => Carried(r, j, g)
  BY DEF TypeInv, TextInv, MessagesInv, Readable, IsText, FixesInv, FixFixes
<1>2. PICK fs \in Seq(Placed) : /\ fs = InOrder /\ Ordered(fs, ByStart)
                                /\ \A g : g \in Range(fs) <=> \E m \in Range(messages) : m.fix = <<g>>
  BY <1>1, OfferedFacts, InOrderFacts
<1>3. PICK t \in Seq(Placed) : t = Taken(fs) /\ Ordered(t, Apart) /\ Range(t) \subseteq Range(fs)
  BY <1>2, TakenFacts
<1>4. \A g \in Range(fs) : \E j \in Lines : \E f \in FixesOn(j) : g = At(j, f)
  <2>. SUFFICES ASSUME NEW g \in Range(fs)
                PROVE  \E j \in Lines : \E f \in FixesOn(j) : g = At(j, f)
    OBVIOUS
  <2>1. PICK m \in Range(messages) : m.fix = <<g>>
    BY <1>2
  <2>2. m.fix # NoFix
    BY <2>1 DEF NoFix
  <2>3. m.rule \in Range(listeners) /\ m.line \in Lines /\ Asked(m.rule, m.line, g)
    BY <1>1, <2>1, <2>2 DEF Genuine
  <2>4. ~HiddenBy(m.line, m.rule)
    BY <1>1, <2>1, <2>2 DEF Shown
  <2>5. \E f \in FixesOn(m.line) : g = At(m.line, f)
    BY <1>1, <2>3, <2>4, FixesOnFacts
  <2>. QED
    BY <2>3, <2>5
<1>5. Mixed(fs) /\ Mixed(t)
  <2>1. \A j \in 1..Len(fs) : fs[j] \in Range(fs)
    BY DEF Range
  <2>2. \A j \in 1..Len(t) : t[j] \in Range(fs)
    BY <1>3, SMTT(30) DEF Range
  <2>. QED
    BY <1>4, <2>1, <2>2 DEF Mixed
<1>6. ASSUME NEW f \in FixesOn(i) PROVE At(i, f) \in Range(fs)
  <2>1. PICK r \in Range(listeners) : ~HiddenBy(i, r) /\ Asked(r, i, At(i, f))
    BY <1>1, FixesOnFacts
  <2>2. Carried(r, i, At(i, f))
    BY <1>1, <2>1
  <2>. QED
    BY <1>2, <2>2 DEF Carried, Carries
<1>7. PICK s : s = LateOn(i, t, Len(t))
  OBVIOUS
<1>8. Applied(text, t)[i] = LineAfter(i, s) /\ Separate(s)
  BY <1>1, <1>3, <1>5, <1>7, AppliedLines
<1>9. Chosen(FixesOn(i), s)
  BY <1>1, <1>2, <1>3, <1>5, <1>6, <1>7, <1>8, ChosenOnes
<1>10. Fixed[i] = [text[i] EXCEPT !.item.value = Replaced(@, s)]
  BY <1>2, <1>3, <1>8 DEF Fixed, LineAfter, LineWith, Item
<1>11. s \in SUBSET FixesOn(i)
  BY <1>7 DEF LateOn
<1>. QED
  BY <1>9, <1>10, <1>11

\* In every document of every length whose offsets are its own, applying the
\* fixes of a pass in which no hook failed makes each line the line with
\* fixes its own items asked the rules for, a largest set of them that do not
\* overlap, and nothing else of the text is touched (applyFixes): the
\* messages carry exactly what the lines ask for, and a fix is spliced in
\* before the offsets of those left to apply can move.
THEOREM LintFixesExact == Spec => FixesExact
<1>1. TypeInv /\ FixesInv /\ [Next]_vars
        => [phase = "fix" /\ InPlace /\ failed = {} => FixedAsReported]_vars
  <2>. SUFFICES ASSUME TypeInv, FixesInv, Next, phase = "fix", InPlace, failed = {}
                PROVE  FixedAsReported
    OBVIOUS
  <2>1. text' = Fixed
    BY DEF Next, Create, CreateThrows, Parse, Dispatch, PushParseError, Filter, Fix, Settle
  <2>. QED
    BY <2>1, FixedLines DEF FixedAsReported
<1>. QED
  BY <1>1, FixesAlways, PTL DEF Spec, FixesExact

=============================================================================
