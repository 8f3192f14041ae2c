---------------------------- MODULE FormsProofs ----------------------------
(***************************************************************************)
(* What holds of the answers of Forms for every input: histories, outputs, *)
(* rules, diffs, requests, patterns, URLs and paths of any size.           *)
(***************************************************************************)
EXTENDS Forms, SequenceTheorems, FiniteSetTheorems, WellFoundedInduction, TLAPS

---------------------------------------------------------------------------
(* Numbers *)

\* A set of numbers has a least one; induction below is an argument from it.
LEMMA LeastNumber ==
  ASSUME NEW S, S \subseteq Nat, S # {}
  PROVE  \E m \in S : \A k \in S : m <= k
<1> DEFINE R == OpToRel(<, Nat)
<1>1. PICK m \in S : \A k \in S : <<k, m>> \notin R
  <2>1. IsWellFoundedOn(R, Nat)
    BY NatLessThanWellFounded
  <2> HIDE DEF R
  <2> QED BY <2>1, WFMin
<1>2. ASSUME NEW k \in S PROVE m <= k
  <2>1. k \in Nat /\ m \in Nat
    OBVIOUS
  <2>2. k < m => <<k, m>> \in R
    BY <2>1 DEF OpToRel
  <2>3. ~(k < m)
    <3> HIDE DEF R
    <3> QED BY <1>1, <2>2
  <2> QED BY <2>1, <2>3
<1> QED BY <1>2

\* Induction from 0 to n, on a set G of numbers.
LEMMA UpTo ==
  ASSUME NEW n \in Nat, NEW G, 0 \in G, \A k \in 1..n : k - 1 \in G => k \in G
  PROVE  \A k \in 0..n : k \in G
<1> SUFFICES ASSUME NEW q \in 0..n, q \notin G PROVE FALSE
  OBVIOUS
<1> DEFINE B == {k \in 0..n : k \notin G}
<1>1. B \subseteq Nat /\ B # {}
  OBVIOUS
<1>2. PICK m \in B : \A k \in B : m <= k
  <2> HIDE DEF B
  <2> QED BY <1>1, LeastNumber
<1>3. m \in 1..n /\ m - 1 \in 0..n /\ m - 1 < m
  BY <1>2
<1>4. m - 1 \in G
  <2> SUFFICES ASSUME m - 1 \notin G PROVE FALSE
    OBVIOUS
  <2>1. m - 1 \in B
    BY <1>3
  <2> QED BY <1>2, <1>3, <2>1
<1> QED BY <1>2, <1>3, <1>4

\* The greatest of some numbers, where there is one.
LEMMA MaxIs ==
  ASSUME NEW S, S \subseteq Int, NEW x \in S, \A y \in S : y <= x
  PROVE  Max(S) = x
<1>1. \E z \in S : \A y \in S : z >= y
  OBVIOUS
<1>2. Max(S) \in S /\ \A y \in S : Max(S) >= y
  BY <1>1 DEF Max
<1>3. Max(S) \in Int /\ x \in Int /\ Max(S) >= x /\ Max(S) <= x
  BY <1>2
<1> QED BY <1>3

LEMMA MaxOfUpTo ==
  ASSUME NEW n \in Nat, NEW s \in SUBSET (1..n), s # {}
  PROVE  /\ Max(s) \in s /\ Max(s) \in 1..n
         /\ \A y \in s : y <= Max(s)
<1> DEFINE B == {k \in Nat : \A y \in s : y <= k}
<1>1. B \subseteq Nat /\ n \in B
  OBVIOUS
<1>2. PICK m \in B : \A k \in B : m <= k
  <2> HIDE DEF B
  <2> QED BY <1>1, LeastNumber
<1>3. m \in s
  <2> SUFFICES ASSUME m \notin s PROVE FALSE
    OBVIOUS
  <2>1. PICK y \in s : TRUE
    OBVIOUS
  <2>2. m \in Nat /\ \A z \in s : z <= m
    BY <1>2
  <2>3. m > 0
    BY <2>1, <2>2
  <2>4. m - 1 \in B
    BY <2>2, <2>3
  <2> QED BY <1>2, <2>2, <2>4
<1>4. Max(s) = m
  <2>1. s \subseteq Int /\ \A y \in s : y <= m
    BY <1>2
  <2> HIDE DEF B
  <2> QED BY <2>1, <1>3, MaxIs
<1> QED BY <1>2, <1>3, <1>4

---------------------------------------------------------------------------
(* Folds *)

\* A fold is a function of the sets of positions.
IsFold(f, n, T, b, step) ==
  /\ f \in [SUBSET (1..n) -> T]
  /\ \A s \in SUBSET (1..n) : f[s] = IF s = {} THEN b ELSE step[<<f[s \ {Max(s)}], Max(s)>>]

\* It exists, whatever the values T and the step.
LEMMA FoldExists ==
  ASSUME NEW n \in Nat, NEW T, NEW b \in T, NEW step \in [T \X (1..n) -> T]
  PROVE  \E f : IsFold(f, n, T, b, step)
<1> DEFINE Is(f, m) == \A s \in SUBSET (1..m) :
                          f[s] = IF s = {} THEN b ELSE step[<<f[s \ {Max(s)}], Max(s)>>]
           G == {m \in 0..n : \E f \in [SUBSET (1..m) -> T] : Is(f, m)}
<1>1. 0 \in G
  <2> DEFINE f == [s \in SUBSET (1..0) |-> b]
  <2>1. f \in [SUBSET (1..0) -> T]
    OBVIOUS
  <2>2. \A s \in SUBSET (1..0) : s = {}
    OBVIOUS
  <2>3. Is(f, 0)
    BY <2>2
  <2> HIDE DEF f, Is
  <2>4. 0 \in 0..n
    OBVIOUS
  <2> QED BY <2>1, <2>3, <2>4
<1>2. ASSUME NEW m \in 1..n, m - 1 \in G PROVE m \in G
  <2>1. PICK f \in [SUBSET (1..(m - 1)) -> T] : Is(f, m - 1)
    BY <1>2
  <2> DEFINE g == [s \in SUBSET (1..m) |-> IF m \in s THEN step[<<f[s \ {m}], m>>] ELSE f[s]]
  <2>2. ASSUME NEW s \in SUBSET (1..m)
        PROVE  /\ g[s] \in T
               /\ g[s] = IF s = {} THEN b ELSE step[<<g[s \ {Max(s)}], Max(s)>>]
    <3>1. CASE m \in s
      <4>1. s \ {m} \in SUBSET (1..(m - 1)) /\ m \notin s \ {m} /\ s \ {m} \in SUBSET (1..m)
        OBVIOUS
      <4>2. Max(s) = m
        <5>1. s \subseteq Int /\ \A y \in s : y <= m
          OBVIOUS
        <5> QED BY <3>1, <5>1, MaxIs
      <4>3. g[s] = step[<<f[s \ {m}], m>>] /\ g[s \ {m}] = f[s \ {m}]
        BY <3>1, <4>1
      <4>4. f[s \ {m}] \in T
        BY <4>1
      <4>5. step[<<f[s \ {m}], m>>] \in T
        BY <4>4
      <4> HIDE DEF g
      <4> QED BY <3>1, <4>2, <4>3, <4>5
    <3>2. CASE m \notin s
      <4>1. s \in SUBSET (1..(m - 1))
        BY <3>2
      <4>2. g[s] = f[s]
        BY <3>2
      <4>3. CASE s = {}
        BY <2>1, <4>1, <4>2, <4>3
      <4>4. CASE s # {}
        <5>1. Max(s) \in s
          BY <4>1, <4>4, MaxOfUpTo
        <5>2. s \ {Max(s)} \in SUBSET (1..m) /\ m \notin s \ {Max(s)}
          BY <3>2
        <5>3. g[s \ {Max(s)}] = f[s \ {Max(s)}]
          BY <5>2
        <5> HIDE DEF g
        <5> QED BY <2>1, <4>1, <4>2, <4>4, <5>3
      <4> QED BY <4>3, <4>4
    <3> QED BY <3>1, <3>2
  <2>3. g \in [SUBSET (1..m) -> T]
    <3>1. \A s \in SUBSET (1..m) : g[s] \in T
      BY <2>2
    <3> QED BY <3>1
  <2>4. Is(g, m)
    <3> HIDE DEF g
    <3> QED BY <2>2
  <2> HIDE DEF g, Is
  <2> QED BY <2>3, <2>4
<1>3. n \in G
  <2> HIDE DEF G
  <2> QED BY <1>1, <1>2, UpTo
<1>4. PICK f \in [SUBSET (1..n) -> T] : Is(f, n)
  BY <1>3
<1>5. IsFold(f, n, T, b, step)
  BY <1>4 DEF IsFold
<1> QED BY <1>5

\* The sets of the first positions.
LEMMA Firsts ==
  ASSUME NEW n \in Nat
  PROVE  /\ 1..0 = {}
         /\ \A k \in 0..n : 1..k \in SUBSET (1..n)
         /\ \A k \in 1..n : 1..k # {} /\ Max(1..k) = k /\ (1..k) \ {k} = 1..(k - 1)
<1>1. 1..0 = {} /\ \A k \in 0..n : 1..k \in SUBSET (1..n)
  OBVIOUS
<1>2. ASSUME NEW k \in 1..n PROVE 1..k # {} /\ Max(1..k) = k /\ (1..k) \ {k} = 1..(k - 1)
  <2>1. k \in 1..k /\ 1..k \subseteq Int /\ \A y \in 1..k : y <= k
    OBVIOUS
  <2>2. Max(1..k) = k
    BY <2>1, MaxIs
  <2>3. (1..k) \ {k} = 1..(k - 1)
    OBVIOUS
  <2> QED BY <2>1, <2>2, <2>3
<1> QED BY <1>1, <1>2

\* A filtered sequence is built element by element.
Filters(t, seq, S) ==
  /\ t[0] = <<>>
  /\ \A k \in 1..Len(seq) : t[k] = IF seq[k] \in S THEN Append(t[k - 1], seq[k]) ELSE t[k - 1]

LEMMA FilteredTrace ==
  ASSUME NEW X, NEW seq \in Seq(X), NEW S
  PROVE  \E t \in [0..Len(seq) -> Seq(X)] : Filters(t, seq, S) /\ Filtered(seq, S) = t[Len(seq)]
<1> DEFINE n == Len(seq)
           Put(x, k) == IF seq[k] \in S THEN Append(x, seq[k]) ELSE x
           F(f) == [s \in SUBSET (1..n) |-> IF s = {} THEN <<>> ELSE Put(f[s \ {Max(s)}], Max(s))]
           step == [p \in Seq(X) \X (1..n) |-> Put(p[1], p[2])]
           it == CHOOSE f : f = F(f)
           t == [k \in 0..n |-> it[1..k]]
<1>0. n \in Nat /\ DOMAIN seq = 1..n /\ \A k \in 1..n : seq[k] \in X
  OBVIOUS
<1>1. ASSUME NEW x \in Seq(X), NEW k \in 1..n PROVE Put(x, k) \in Seq(X)
  BY <1>0, AppendProperties
<1>2. \E f : f = F(f)
  <2>1. step \in [Seq(X) \X (1..n) -> Seq(X)]
    BY <1>1
  <2>2. <<>> \in Seq(X)
    OBVIOUS
  <2>3. PICK f : IsFold(f, n, Seq(X), <<>>, step)
    <3> HIDE DEF step, n
    <3> QED BY <1>0, <2>1, <2>2, FoldExists
  <2>4. ASSUME NEW s \in SUBSET (1..n), s # {}
        PROVE  step[<<f[s \ {Max(s)}], Max(s)>>] = Put(f[s \ {Max(s)}], Max(s))
    <3>1. Max(s) \in 1..n
      BY <1>0, <2>4, MaxOfUpTo
    <3>2. f[s \ {Max(s)}] \in Seq(X)
      BY <2>3 DEF IsFold
    <3> HIDE DEF Put
    <3> QED BY <3>1, <3>2
  <2>5. ASSUME NEW s \in SUBSET (1..n) PROVE f[s] = F(f)[s]
    <3> HIDE DEF step, Put
    <3> QED BY <2>3, <2>4 DEF IsFold
  <2>6. f = F(f)
    <3>1. f = [s \in SUBSET (1..n) |-> f[s]]
      BY <2>3 DEF IsFold
    <3> HIDE DEF Put
    <3> QED BY <2>5, <3>1
  <2> QED BY <2>6
<1>3. it = F(it)
  <2> HIDE DEF F
  <2> QED BY <1>2
<1>4. Filtered(seq, S) = it[1..n]
  BY <1>0, Zenon DEF Filtered, FoldLeft, MapThenFoldSet
<1>5. t[0] = <<>>
  <2>1. it[1..0] = F(it)[1..0]
    BY <1>3
  <2> HIDE DEF it
  <2> QED BY <1>0, <2>1, Firsts
<1>6. ASSUME NEW k \in 1..n PROVE t[k] = Put(t[k - 1], k)
  <2>1. it[1..k] = F(it)[1..k]
    BY <1>3
  <2>2. F(it)[1..k] = Put(it[1..(k - 1)], k)
    <3>1. 1..k \in SUBSET (1..n) /\ 1..k # {} /\ Max(1..k) = k /\ (1..k) \ {k} = 1..(k - 1)
      BY <1>0, Firsts
    <3> HIDE DEF it, Put
    <3> QED BY <3>1
  <2>3. t[k] = it[1..k] /\ t[k - 1] = it[1..(k - 1)]
    OBVIOUS
  <2> HIDE DEF it, F, t, Put
  <2> QED BY <2>1, <2>2, <2>3
<1> HIDE DEF it, t
<1>7. \A k \in 0..n : t[k] \in Seq(X)
  <2> DEFINE G == {k \in 0..n : t[k] \in Seq(X)}
  <2>1. 0 \in G
    <3>1. 0 \in 0..n /\ <<>> \in Seq(X)
      BY <1>0
    <3> QED BY <3>1, <1>5
  <2>2. ASSUME NEW k \in 1..n, k - 1 \in G PROVE k \in G
    <3>1. k \in 0..n /\ t[k - 1] \in Seq(X)
      BY <2>2
    <3> HIDE DEF Put
    <3> QED BY <3>1, <1>1, <1>6
  <2>3. \A k \in 0..n : k \in G
    <3> HIDE DEF G
    <3> QED BY <1>0, <2>1, <2>2, UpTo
  <2> QED BY <2>3
<1>8. t \in [0..n -> Seq(X)] /\ t[n] = it[1..n]
  BY <1>0, <1>7 DEF t
<1>9. Filters(t, seq, S)
  BY <1>5, <1>6 DEF Filters
<1> QED BY <1>4, <1>8, <1>9

\* There is one way to build it.
LEMMA FilteredIs ==
  ASSUME NEW X, NEW seq \in Seq(X), NEW S, NEW t, Filters(t, seq, S)
  PROVE  Filtered(seq, S) = t[Len(seq)]
<1>1. PICK u \in [0..Len(seq) -> Seq(X)] :
        Filters(u, seq, S) /\ Filtered(seq, S) = u[Len(seq)]
  BY FilteredTrace
<1> DEFINE n == Len(seq)  G == {k \in 0..n : t[k] = u[k]}
<1>2. n \in Nat
  OBVIOUS
<1> HIDE DEF n
<1>3. 0 \in G
  BY <1>1, <1>2 DEF Filters
<1>4. ASSUME NEW k \in 1..n, k - 1 \in G PROVE k \in G
  BY <1>1, <1>2, <1>4 DEF n, Filters
<1>5. \A k \in 0..n : k \in G
  <2> HIDE DEF G
  <2> QED BY <1>2, <1>3, <1>4, UpTo
<1>6. n \in 0..n
  BY <1>2
<1> QED BY <1>1, <1>5, <1>6 DEF n

\* What it holds: elements of the sequence that are in S.
LEMMA FilteredType ==
  ASSUME NEW X, NEW seq \in Seq(X), NEW S
  PROVE  Filtered(seq, S) \in Seq(X \cap S)
<1>1. PICK u \in [0..Len(seq) -> Seq(X)] :
        Filters(u, seq, S) /\ Filtered(seq, S) = u[Len(seq)]
  BY FilteredTrace
<1> DEFINE n == Len(seq)  G == {k \in 0..n : u[k] \in Seq(X \cap S)}
<1>2. n \in Nat /\ \A k \in 1..n : seq[k] \in X
  OBVIOUS
<1> HIDE DEF n
<1>3. 0 \in G
  <2>1. 0 \in 0..n /\ <<>> \in Seq(X \cap S)
    BY <1>2
  <2> QED BY <1>1, <2>1 DEF Filters
<1>4. ASSUME NEW k \in 1..n, k - 1 \in G PROVE k \in G
  <2>1. k \in 0..n /\ u[k - 1] \in Seq(X \cap S)
    BY <1>2, <1>4
  <2>2. CASE seq[k] \in S
    <3>1. seq[k] \in X \cap S
      BY <1>2, <2>2
    <3>2. Append(u[k - 1], seq[k]) \in Seq(X \cap S)
      BY <2>1, <3>1, AppendProperties
    <3> QED BY <1>1, <2>1, <2>2, <3>2 DEF n, Filters
  <2>3. CASE seq[k] \notin S
    BY <1>1, <2>1, <2>3 DEF n, Filters
  <2> QED BY <2>2, <2>3
<1>5. \A k \in 0..n : k \in G
  <2> HIDE DEF G
  <2> QED BY <1>2, <1>3, <1>4, UpTo
<1>6. n \in 0..n
  BY <1>2
<1> QED BY <1>1, <1>5, <1>6 DEF n

\* All of it, or nothing.
LEMMA FilteredAll ==
  ASSUME NEW X, NEW seq \in Seq(X), NEW S, \A k \in 1..Len(seq) : seq[k] \in S
  PROVE  Filtered(seq, S) = seq
<1> DEFINE n == Len(seq)  t == [k \in 0..n |-> SubSeq(seq, 1, k)]
<1>1. n \in Nat /\ n \in 0..n
  OBVIOUS
<1>2. t[0] = <<>>
  <2>1. SubSeq(seq, 1, 0) = <<>>
    BY SubSeqEmpty
  <2> QED BY <1>1, <2>1
<1>3. ASSUME NEW k \in 1..n PROVE t[k] = Append(t[k - 1], seq[k])
  <2>1. SubSeq(seq, 1, k) = SubSeq(seq, 1, k - 1) \o <<seq[k]>>
    <3>1. 1 \in 1..Len(seq) /\ k \in 1..Len(seq)
      BY <1>1
    <3> QED BY <3>1, SubSeqRecursiveSecond
  <2>2. SubSeq(seq, 1, k - 1) \in Seq(X) /\ seq[k] \in X
    <3>1. \A i \in 1..(k - 1) : seq[i] \in X
      BY <1>1
    <3> QED BY <1>1, <3>1, SubSeqProperties
  <2>3. Append(SubSeq(seq, 1, k - 1), seq[k]) = SubSeq(seq, 1, k - 1) \o <<seq[k]>>
    BY <2>2, AppendIsConcat
  <2> QED BY <1>1, <2>1, <2>3
<1>4. t[n] = seq
  <2>1. SubSeq(seq, 1, Len(seq)) = seq
    BY SubSeqFull
  <2> QED BY <1>1, <2>1
<1> HIDE DEF t
<1>5. Filters(t, seq, S)
  BY <1>2, <1>3 DEF Filters
<1> QED BY <1>4, <1>5, FilteredIs

LEMMA FilteredNone ==
  ASSUME NEW X, NEW seq \in Seq(X), NEW S, \A k \in 1..Len(seq) : seq[k] \notin S
  PROVE  Filtered(seq, S) = <<>>
<1> DEFINE t == [k \in 0..Len(seq) |-> <<>>]
<1>1. t[0] = <<>> /\ t[Len(seq)] = <<>> /\ \A k \in 1..Len(seq) : t[k] = t[k - 1]
  OBVIOUS
<1> HIDE DEF t
<1>2. Filters(t, seq, S)
  BY <1>1 DEF Filters
<1> QED BY <1>1, <1>2, FilteredIs

\* Only the elements of the sequence matter.
LEMMA FilteredSame ==
  ASSUME NEW X, NEW seq \in Seq(X), NEW S, NEW V,
         \A k \in 1..Len(seq) : seq[k] \in S <=> seq[k] \in V
  PROVE  Filtered(seq, S) = Filtered(seq, V)
<1>1. PICK u \in [0..Len(seq) -> Seq(X)] :
        Filters(u, seq, S) /\ Filtered(seq, S) = u[Len(seq)]
  BY FilteredTrace
<1>2. Filters(u, seq, V)
  BY <1>1 DEF Filters
<1>3. Filtered(seq, V) = u[Len(seq)]
  BY <1>1, <1>2, FilteredIs
<1> QED BY <1>1, <1>3

\* One part after the other.
LEMMA FilteredConcat ==
  ASSUME NEW X, NEW a \in Seq(X), NEW b \in Seq(X), NEW S
  PROVE  Filtered(a \o b, S) = Filtered(a, S) \o Filtered(b, S)
<1>1. PICK u \in [0..Len(a) -> Seq(X)] :
        Filters(u, a, S) /\ Filtered(a, S) = u[Len(a)]
  BY FilteredTrace
<1>2. PICK w \in [0..Len(b) -> Seq(X)] :
        Filters(w, b, S) /\ Filtered(b, S) = w[Len(b)]
  BY FilteredTrace
<1> DEFINE m == Len(a)  n == Len(b)
           t == [k \in 0..(m + n) |-> IF k <= m THEN u[k] ELSE u[m] \o w[k - m]]
<1>3. /\ m \in Nat /\ n \in Nat /\ m \in 0..m
      /\ a \o b \in Seq(X) /\ Len(a \o b) = m + n
      /\ \A k \in 1..m : (a \o b)[k] = a[k]
      /\ \A k \in (m + 1)..(m + n) : (a \o b)[k] = b[k - m]
  BY ConcatProperties
<1> HIDE DEF m, n
<1>4. t[0] = <<>>
  BY <1>1, <1>3 DEF Filters
<1>5. ASSUME NEW k \in 1..(m + n)
      PROVE  t[k] = IF (a \o b)[k] \in S THEN Append(t[k - 1], (a \o b)[k]) ELSE t[k - 1]
  <2>1. CASE k <= m
    <3>1. t[k] = u[k] /\ t[k - 1] = u[k - 1] /\ (a \o b)[k] = a[k] /\ k \in 1..m
      BY <1>3, <2>1
    <3> HIDE DEF t
    <3> QED BY <1>1, <3>1 DEF m, Filters
  <2>2. CASE k > m
    <3>1. k - m \in 1..n /\ k - m - 1 \in 0..n /\ k - m \in 0..n /\ k \in (m + 1)..(m + n)
      BY <1>3, <2>2
    <3>2. (a \o b)[k] = b[k - m] /\ t[k] = u[m] \o w[k - m]
      <4>1. k \in 0..(m + n) /\ ~(k <= m)
        BY <1>3, <2>2
      <4> QED BY <1>3, <3>1, <4>1
    <3>3. t[k - 1] = u[m] \o w[k - m - 1]
      <4>1. CASE k - 1 <= m
        <5>1. k - 1 = m /\ k - m - 1 = 0
          BY <1>3, <2>2, <4>1
        <5>2. t[k - 1] = u[m]
          BY <1>3, <5>1
        <5>3. w[k - m - 1] = <<>> /\ u[m] \in Seq(X)
          BY <1>1, <1>2, <1>3, <5>1 DEF m, Filters
        <5>4. u[m] \o <<>> = u[m]
          BY <5>3, ConcatEmptySeq
        <5> QED BY <5>2, <5>3, <5>4
      <4>2. CASE k - 1 > m
        <5>1. k - 1 \in 0..(m + n) /\ ~(k - 1 <= m) /\ (k - 1) - m = k - m - 1
          BY <1>3, <4>2
        <5>2. t[k - 1] = u[m] \o w[(k - 1) - m]
          BY <5>1
        <5> QED BY <5>1, <5>2
      <4>3. k - 1 <= m \/ k - 1 > m
        BY <1>3
      <4> HIDE DEF t
      <4> QED BY <4>1, <4>2, <4>3
    <3> DEFINE x == b[k - m]  z == w[k - m - 1]
    <3>4. x \in X /\ z \in Seq(X) /\ u[m] \in Seq(X)
      <4>1. u \in [0..m -> Seq(X)] /\ w \in [0..n -> Seq(X)]
        BY <1>1, <1>2 DEF m, n
      <4>2. x \in X
        BY <3>1 DEF n
      <4> QED BY <1>3, <3>1, <4>1, <4>2
    <3>5. w[k - m] = IF x \in S THEN Append(z, x) ELSE z
      BY <1>2, <3>1 DEF n, Filters
    <3>6. u[m] \o Append(z, x) = Append(u[m] \o z, x)
      <4> DEFINE y == u[m]  e == <<x>>
      <4> HIDE DEF x, z, y
      <4>1. Append(z, x) = z \o e /\ y \o z \in Seq(X) /\ e \in Seq(X)
        BY <3>4, AppendIsConcat, ConcatProperties DEF y
      <4>2. Append(y \o z, x) = (y \o z) \o e
        BY <3>4, <4>1, AppendIsConcat
      <4> HIDE DEF e
      <4>3. y \in Seq(X) /\ z \in Seq(X) /\ e \in Seq(X)
        BY <3>4, <4>1 DEF y
      <4>4. (y \o z) \o e = y \o (z \o e)
        BY <4>3
      <4> QED BY <4>1, <4>2, <4>4 DEF y
    <3> HIDE DEF t, x, z
    <3>7. (a \o b)[k] = x /\ t[k - 1] = u[m] \o z
      BY <3>2, <3>3 DEF x, z
    <3> QED BY <3>2, <3>5, <3>6, <3>7
  <2> QED BY <1>3, <2>1, <2>2
<1>6. t[m + n] = u[m] \o w[n]
  <2>1. CASE n = 0
    <3>1. u[m] \in Seq(X) /\ w[n] = <<>> /\ t[m + n] = u[m]
      BY <1>1, <1>2, <1>3, <2>1 DEF m, Filters
    <3> QED BY <3>1, ConcatEmptySeq
  <2>2. CASE n # 0
    <3>1. m + n \in 0..(m + n) /\ ~(m + n <= m) /\ (m + n) - m = n
      BY <1>3, <2>2
    <3> QED BY <3>1
  <2> QED BY <2>1, <2>2
<1> HIDE DEF t
<1>7. Filtered(a \o b, S) = t[m + n]
  <2>1. Filters(t, a \o b, S)
    BY <1>3, <1>4, <1>5 DEF Filters
  <2> QED BY <1>3, <2>1, FilteredIs
<1> QED BY <1>1, <1>2, <1>6, <1>7 DEF m, n

---------------------------------------------------------------------------
(* Questions and answers *)

\* The answer there is, is the one that the code gives to the question.
Answered(about, is) == question.about = about /\ answer = Given(is)

RightlyAnswered ==
  \/ answer = Unanswered
  \/ Answered("log", ParseLogOutput(TruncateOutput(LogOutput(question.history), question.lost)))
  \/ Answered("create", ExtractSandboxName(question.lines))
  \/ LET rules == Preset(question.mode) \cup question.added
     IN  Answered("policies", [label |-> DeriveDefaultPolicy(rules),
                               rows |-> FlattenPolicyRules(rules),
                               left |-> [r \in rules |-> PolicyRemoveRule(rules, r.id)]])
  \/ \E git \in Gits(question.diff) :
       \/ Answered("scan", [git |-> git, timeout |-> FALSE,
                            findings |-> ScanCommitsInner(question.diff, git)])
       \/ Answered("scan", [git |-> git, timeout |-> TRUE,
                            findings |-> {[file |-> <<>>, pattern |-> "timeout"]}])
  \/ Answered("arguments", [create |-> SbxTakes(BuildCreateArgs(question.request)),
                            run |-> SbxTakes(RunArgs(question.request))])
  \/ LET kit == question.request
     IN  Answered("kit", BuildSpecYaml([name |-> kit.name, servers |-> kit.servers,
                                        memory |-> kit.memory], kit.container, kit.configPath))
  \/ LET told == question.told
     IN  Answered("tables", [ports |-> ParsePortOutput(<<PortLine(<<"header">>, 0, None)>>
                                                       \o PrintedPorts(told.ports)),
                             secrets |-> ParseSecretLsText(PrintedSecrets(told.secrets)),
                             templates |-> ParseTemplateLsText(PrintedTemplates(told.templates))])
  \/ Answered("branch", ValidateBranchPattern(question.word))
  \/ Answered("url", [remote |-> ValidateRemoteUrl(question.scheme, question.word),
                      mcp |-> ValidateMcpUrl(question.scheme, question.word)])
  \/ Answered("mounts", ValidateAdditionalWorkspaces(question.paths, question.primary))
  \/ Answered("upload", IF question.running /\ ValidateFilename(question.word)
                        THEN WriteFile(question.word, question.dirs)
                        ELSE [ok |-> FALSE, at |-> <<>>])

Inv == question \in Questions /\ RightlyAnswered

LEMMA InvInit == FormsInit => Inv
BY DEF FormsInit, Inv, RightlyAnswered

LEMMA InvNext == Inv /\ [FormsNext]_formsVars => Inv'
<1> SUFFICES ASSUME Inv, [FormsNext]_formsVars PROVE Inv'
  OBVIOUS
<1>1. CASE ListCommits
  BY <1>1 DEF Inv, RightlyAnswered, Answered, ListCommits
<1>2. CASE NameSandbox
  BY <1>2 DEF Inv, RightlyAnswered, Answered, NameSandbox
<1>3. CASE ShowPolicies
  BY <1>3 DEF Inv, RightlyAnswered, Answered, ShowPolicies
<1>4. CASE ScanCommits
  BY <1>4 DEF Inv, RightlyAnswered, Answered, ScanCommits
<1>5. CASE TakeArguments
  BY <1>5 DEF Inv, RightlyAnswered, Answered, TakeArguments
<1>6. CASE GenerateKit
  BY <1>6 DEF Inv, RightlyAnswered, Answered, GenerateKit
<1>7. CASE ReadTables
  BY <1>7 DEF Inv, RightlyAnswered, Answered, ReadTables
<1>8. CASE CheckBranchPattern
  BY <1>8 DEF Inv, RightlyAnswered, Answered, CheckBranchPattern
<1>9. CASE CheckUrl
  BY <1>9 DEF Inv, RightlyAnswered, Answered, CheckUrl
<1>10. CASE CheckMounts
  BY <1>10 DEF Inv, RightlyAnswered, Answered, CheckMounts
<1>11. CASE UploadFile
  BY <1>11 DEF Inv, RightlyAnswered, Answered, UploadFile
<1>12. CASE UNCHANGED formsVars
  BY <1>12 DEF Inv, RightlyAnswered, Answered, formsVars
<1> QED BY <1>1, <1>2, <1>3, <1>4, <1>5, <1>6, <1>7, <1>8, <1>9, <1>10, <1>11, <1>12
        DEF FormsNext

\* The answer given is the one the code computes from the question asked, which
\* stays the one that was asked.
LEMMA InvAlways == FormsSpec => []Inv
BY InvInit, InvNext, PTL DEF FormsSpec

\* What is asked is one of the questions, and the answer is right.
LEMMA AskedBranch ==
  ASSUME Inv, Asked("branch")
  PROVE  /\ question.word \in Words(MaxPattern) /\ question.persona \in PersonaNamed
         /\ answer.is = ValidateBranchPattern(question.word)
<1>1. question \in Questions /\ question.about = "branch"
  BY DEF Inv, Asked
<1>2. question.word \in Words(MaxPattern) /\ question.persona \in PersonaNamed
  BY <1>1 DEF Questions
<1>3. answer.is = ValidateBranchPattern(question.word)
  BY <1>1 DEF Inv, RightlyAnswered, Answered, Asked, Given, Unanswered
<1> QED BY <1>2, <1>3

LEMMA AskedUrl ==
  ASSUME Inv, Asked("url")
  PROVE  /\ question.word \in Words(MaxUrl)
         /\ answer.is = [remote |-> ValidateRemoteUrl(question.scheme, question.word),
                         mcp |-> ValidateMcpUrl(question.scheme, question.word)]
<1>1. question \in Questions /\ question.about = "url"
  BY DEF Inv, Asked
<1>2. question.word \in Words(MaxUrl)
  BY <1>1 DEF Questions
<1>3. answer.is = [remote |-> ValidateRemoteUrl(question.scheme, question.word),
                   mcp |-> ValidateMcpUrl(question.scheme, question.word)]
  BY <1>1 DEF Inv, RightlyAnswered, Answered, Asked, Given, Unanswered
<1> QED BY <1>2, <1>3

LEMMA AskedMounts ==
  ASSUME Inv, Asked("mounts")
  PROVE  /\ \E k \in 0..MaxMounts : question.paths \in [1..k -> Path]
         /\ question.primary \in Path
         /\ answer.is = ValidateAdditionalWorkspaces(question.paths, question.primary)
<1>1. question \in Questions /\ question.about = "mounts"
  BY DEF Inv, Asked
<1>2. /\ \E k \in 0..MaxMounts : question.paths \in [1..k -> Path]
      /\ question.primary \in Path
  BY <1>1 DEF Questions
<1>3. answer.is = ValidateAdditionalWorkspaces(question.paths, question.primary)
  BY <1>1 DEF Inv, RightlyAnswered, Answered, Asked, Given, Unanswered
<1> QED BY <1>2, <1>3

LEMMA AskedUpload ==
  ASSUME Inv, Asked("upload")
  PROVE  /\ question.word \in Words(MaxPattern) /\ question.running \in BOOLEAN
         /\ question.dirs \in {{}, {<<<<"a">>>>}}
         /\ answer.is = IF question.running /\ ValidateFilename(question.word)
                        THEN WriteFile(question.word, question.dirs)
                        ELSE [ok |-> FALSE, at |-> <<>>]
<1>1. question \in Questions /\ question.about = "upload"
  BY DEF Inv, Asked
<1>2. /\ question.word \in Words(MaxPattern) /\ question.running \in BOOLEAN
      /\ question.dirs \in {{}, {<<<<"a">>>>}}
  BY <1>1 DEF Questions
<1>3. answer.is = IF question.running /\ ValidateFilename(question.word)
                  THEN WriteFile(question.word, question.dirs)
                  ELSE [ok |-> FALSE, at |-> <<>>]
  <2>1. answer # Unanswered
    BY DEF Asked, Unanswered
  <2>2. Answered("upload", IF question.running /\ ValidateFilename(question.word)
                           THEN WriteFile(question.word, question.dirs)
                           ELSE [ok |-> FALSE, at |-> <<>>])
    BY <1>1, <2>1 DEF Inv, RightlyAnswered, Answered
  <2> QED BY <2>2 DEF Answered, Given
<1> QED BY <1>2, <1>3

---------------------------------------------------------------------------
(* URLs *)

LEMMA WordIsSeq ==
  ASSUME NEW n \in Nat, NEW w \in Words(n)
  PROVE  w \in Seq(Symbol) /\ Len(w) \in Nat /\ DOMAIN w = 1..Len(w)
         /\ \A i \in 1..Len(w) : w[i] \in Symbol
BY DEF Words

LEMMA UrlHolds == ASSUME Inv PROVE UrlChecked
<1> SUFFICES ASSUME Asked("url") PROVE UrlChecked
  BY DEF UrlChecked
<1> DEFINE w == question.word  s == question.scheme
<1>1. /\ w \in Seq(Symbol) /\ Len(w) \in Nat /\ DOMAIN w = 1..Len(w)
      /\ answer.is = [remote |-> ValidateRemoteUrl(s, w), mcp |-> ValidateMcpUrl(s, w)]
  BY AskedUrl, WordIsSeq, BoundsAssumption
<1>2. HostAt(w, 1) <=> w # <<>> /\ w[1] \notin {"/", ":"}
  BY <1>1 DEF HostAt
<1>3. answer.is.mcp = (s \in {"http://", "https://"} /\ HostAt(w, 1))
  BY <1>1, <1>2 DEF ValidateMcpUrl
<1>4. ASSUME RemoteForm(s, w) PROVE ValidateRemoteUrl(s, w)
  <2>1. CASE s = "https://"
    BY <1>2, <1>4, <2>1 DEF RemoteForm, ValidateRemoteUrl
  <2>2. CASE s = "git@"
    <3> DEFINE C == {i \in 2..(Len(w) - 1) : w[i] = ":"}
    <3>1. C \subseteq Nat /\ C # {}
      BY <1>1, <1>4, <2>2 DEF RemoteForm
    <3>2. PICK i \in C : \A j \in C : i <= j
      <4> HIDE DEF C
      <4> QED BY <3>1, LeastNumber
    <3>3. ASSUME NEW j \in 1..(i - 1) PROVE w[j] # ":"
      <4>1. CASE j = 1
        BY <1>2, <1>4, <4>1 DEF RemoteForm
      <4>2. CASE j # 1
        <5>1. j \in 2..(Len(w) - 1) /\ ~(i <= j)
          BY <1>1, <4>2
        <5> QED BY <3>2, <5>1
      <4> QED BY <4>1, <4>2
    <3> QED BY <1>1, <2>2, <3>2, <3>3 DEF ValidateRemoteUrl
  <2> QED BY <1>4, <2>1, <2>2 DEF RemoteForm
<1>5. ASSUME ValidateRemoteUrl(s, w) PROVE RemoteForm(s, w) \/ s = "https://" \/ w[1] = "/"
  <2> SUFFICES ASSUME s # "https://", w[1] # "/" PROVE RemoteForm(s, w)
    OBVIOUS
  <2>1. s = "git@"
    BY <1>5 DEF ValidateRemoteUrl
  <2>2. PICK i \in 2..(Len(w) - 1) : w[i] = ":" /\ \A j \in 1..(i - 1) : w[j] # ":"
    BY <1>5 DEF ValidateRemoteUrl
  <2>3. 1 \in 1..(i - 1) /\ w # <<>>
    BY <1>1, <2>2
  <2> QED BY <1>2, <2>1, <2>2, <2>3 DEF RemoteForm
<1> QED BY <1>1, <1>3, <1>4, <1>5 DEF UrlChecked

---------------------------------------------------------------------------
(* Mounts *)

LEMMA MountsHold == ASSUME Inv PROVE MountsChecked
<1> SUFFICES ASSUME Asked("mounts") PROVE MountsChecked
  BY DEF MountsChecked
<1> DEFINE paths == question.paths  main == LeadsTo[question.primary]
           led == [i \in DOMAIN paths |-> LeadsTo[paths[i]]]
           Apart == \A i, j \in DOMAIN paths : led[i] = led[j] => i = j
<1>1. PICK n \in 0..MaxMounts : paths \in [1..n -> Path]
  BY AskedMounts
<1>2. /\ n \in Nat /\ DOMAIN paths = 1..n
      /\ led \in [1..n -> Directory \cup {Nowhere}] /\ Len(led) = n
      /\ main \in Directory \cup {Nowhere}
  <2>1. n \in Nat /\ DOMAIN paths = 1..n
    BY <1>1, BoundsAssumption
  <2>2. \A i \in 1..n : LeadsTo[paths[i]] \in Directory \cup {Nowhere}
    BY <1>1, MountsAssumption DEF Path
  <2>3. led \in [1..n -> Directory \cup {Nowhere}]
    BY <2>1, <2>2
  <2>4. main \in Directory \cup {Nowhere}
    BY AskedMounts, MountsAssumption DEF Path
  <2> QED BY <2>1, <2>3, <2>4
<1>3. answer.is = [ok |-> /\ \A i \in DOMAIN paths : led[i] # Nowhere
                          /\ Apart
                          /\ \A i \in DOMAIN paths : led[i] # main,
                   mounts |-> led]
  BY AskedMounts DEF ValidateAdditionalWorkspaces
<1> HIDE DEF led, main
<1>4. Range(led) = {led[i] : i \in 1..n}
  BY <1>2 DEF Range
<1>5. Cardinality(Range(led)) = n <=> Apart
  <2>1. IsFiniteSet(1..n) /\ Cardinality(1..n) = n
    BY <1>2, FS_Interval
  <2>2. led \in Surjection(1..n, Range(led))
    BY <1>2, <1>4 DEF Surjection
  <2>3. ASSUME Apart PROVE Cardinality(Range(led)) = n
    <3>1. led \in Injection(1..n, Range(led))
      BY <1>2, <2>2, <2>3 DEF Surjection, Injection, IsInjective
    <3> QED BY <2>1, <2>2, <3>1, FS_Surjection
  <2>4. ASSUME Cardinality(Range(led)) = n PROVE Apart
    <3>1. led \in Injection(1..n, Range(led))
      BY <2>1, <2>2, <2>4, FS_Surjection
    <3> QED BY <1>2, <3>1 DEF Injection, IsInjective
  <2> QED BY <2>3, <2>4
<1>6. /\ (\A i \in 1..n : led[i] # Nowhere) /\ (\A i \in 1..n : led[i] # main)
      <=> Range(led) \subseteq Directory \ {main}
  BY <1>2, <1>4, MountsAssumption
<1>7. answer.is.ok = (/\ Cardinality(Range(led)) = Len(led)
                      /\ Range(led) \subseteq Directory \ {main})
  <2> HIDE DEF Apart
  <2> QED BY <1>2, <1>3, <1>5, <1>6
<1>8. answer.is.mounts = led
  BY <1>3
<1> QED BY <1>7, <1>8 DEF MountsChecked, led, main

---------------------------------------------------------------------------
(* Uploads *)

\* Sequences of names, one at least.
Split == Seq(Seq(Symbol)) \ {<<>>}
Cut(segs, c) == IF c = "/" THEN Append(segs, <<>>) ELSE [segs EXCEPT ![Len(segs)] = Append(@, c)]

\* A path is split character by character.
LEMMA SegmentsTrace ==
  ASSUME NEW w \in Seq(Symbol)
  PROVE  \E t \in [0..Len(w) -> Split] :
           /\ t[0] = <<<<>>>> /\ Segments(w) = t[Len(w)]
           /\ \A k \in 1..Len(w) : t[k] = Cut(t[k - 1], w[k])
<1> DEFINE n == Len(w)
           F(f) == [s \in SUBSET (1..n) |-> IF s = {} THEN <<<<>>>>
                                            ELSE Cut(f[s \ {Max(s)}], w[Max(s)])]
           step == [p \in Split \X (1..n) |-> Cut(p[1], w[p[2]])]
           it == CHOOSE f : f = F(f)
           t == [k \in 0..n |-> it[1..k]]
<1>0. n \in Nat /\ DOMAIN w = 1..n /\ \A k \in 1..n : w[k] \in Symbol
  OBVIOUS
<1>1. ASSUME NEW x \in Split, NEW k \in 1..n PROVE Cut(x, w[k]) \in Split
  <2>1. x \in Seq(Seq(Symbol)) /\ Len(x) \in 1..Len(x)
    BY DEF Split
  <2>2. CASE w[k] = "/"
    <3>1. <<>> \in Seq(Symbol)
      OBVIOUS
    <3>2. Append(x, <<>>) \in Seq(Seq(Symbol)) /\ Append(x, <<>>) # <<>>
      BY <2>1, <3>1, AppendProperties
    <3> QED BY <2>2, <3>2 DEF Cut, Split
  <2>3. CASE w[k] # "/"
    <3> DEFINE e == Append(x[Len(x)], w[k])
    <3>1. e \in Seq(Symbol)
      BY <1>0, <2>1, ElementOfSeq, AppendProperties
    <3> HIDE DEF e
    <3>2. /\ [x EXCEPT ![Len(x)] = e] \in Seq(Seq(Symbol))
          /\ Len([x EXCEPT ![Len(x)] = e]) = Len(x)
      BY <2>1, <3>1, ExceptSeq
    <3>3. [x EXCEPT ![Len(x)] = e] # <<>>
      BY <2>1, <3>2
    <3> QED BY <2>3, <3>2, <3>3 DEF Cut, Split, e
  <2> QED BY <2>2, <2>3
<1>2. \E f : f = F(f)
  <2>1. step \in [Split \X (1..n) -> Split]
    BY <1>1
  <2>2. <<<<>>>> \in Split
    BY DEF Split
  <2>3. PICK f : IsFold(f, n, Split, <<<<>>>>, step)
    <3> HIDE DEF step, n
    <3> QED BY <1>0, <2>1, <2>2, FoldExists
  <2>4. ASSUME NEW s \in SUBSET (1..n), s # {}
        PROVE  step[<<f[s \ {Max(s)}], Max(s)>>] = Cut(f[s \ {Max(s)}], w[Max(s)])
    <3>1. Max(s) \in 1..n
      BY <1>0, <2>4, MaxOfUpTo
    <3>2. f[s \ {Max(s)}] \in Split
      BY <2>3 DEF IsFold
    <3> QED BY <3>1, <3>2
  <2>5. ASSUME NEW s \in SUBSET (1..n) PROVE f[s] = F(f)[s]
    <3> HIDE DEF step
    <3> QED BY <2>3, <2>4 DEF IsFold
  <2>6. f = F(f)
    <3>1. f = [s \in SUBSET (1..n) |-> f[s]]
      BY <2>3 DEF IsFold
    <3> QED BY <2>5, <3>1
  <2> QED BY <2>6
<1>3. it = F(it)
  <2> HIDE DEF F
  <2> QED BY <1>2
<1>4. Segments(w) = it[1..n]
  BY <1>0, Zenon DEF Segments, FoldLeft, MapThenFoldSet, Cut
<1>5. t[0] = <<<<>>>>
  <2>1. it[1..0] = F(it)[1..0]
    BY <1>3
  <2> HIDE DEF it
  <2> QED BY <1>0, <2>1, Firsts
<1>6. ASSUME NEW k \in 1..n PROVE t[k] = Cut(t[k - 1], w[k])
  <2>1. it[1..k] = F(it)[1..k]
    BY <1>3
  <2>2. F(it)[1..k] = Cut(it[1..(k - 1)], w[k])
    <3>1. 1..k \in SUBSET (1..n) /\ 1..k # {} /\ Max(1..k) = k /\ (1..k) \ {k} = 1..(k - 1)
      BY <1>0, Firsts
    <3> HIDE DEF it
    <3> QED BY <3>1
  <2>3. t[k] = it[1..k] /\ t[k - 1] = it[1..(k - 1)]
    OBVIOUS
  <2> HIDE DEF it, F, t
  <2> QED BY <2>1, <2>2, <2>3
<1> HIDE DEF it, t
<1>7. \A k \in 0..n : t[k] \in Split
  <2> DEFINE G == {k \in 0..n : t[k] \in Split}
  <2>1. 0 \in G
    <3>1. 0 \in 0..n /\ <<<<>>>> \in Split
      BY <1>0 DEF Split
    <3> QED BY <3>1, <1>5
  <2>2. ASSUME NEW k \in 1..n, k - 1 \in G PROVE k \in G
    <3>1. k \in 0..n /\ t[k - 1] \in Split
      BY <2>2
    <3> QED BY <3>1, <1>1, <1>6
  <2>3. \A k \in 0..n : k \in G
    <3> HIDE DEF G
    <3> QED BY <1>0, <2>1, <2>2, UpTo
  <2> QED BY <2>3
<1>8. t \in [0..n -> Split] /\ t[n] = it[1..n]
  BY <1>0, <1>7 DEF t
<1> QED BY <1>4, <1>5, <1>6, <1>8

\* A name without a slash is one segment.
LEMMA SegmentsOfName ==
  ASSUME NEW w \in Seq(Symbol), \A k \in 1..Len(w) : w[k] # "/"
  PROVE  Segments(w) = <<w>>
<1>1. PICK t \in [0..Len(w) -> Split] :
        /\ t[0] = <<<<>>>> /\ Segments(w) = t[Len(w)]
        /\ \A k \in 1..Len(w) : t[k] = Cut(t[k - 1], w[k])
  BY SegmentsTrace
<1> DEFINE n == Len(w)  G == {k \in 0..n : t[k] = <<SubSeq(w, 1, k)>>}
<1>2. n \in Nat /\ n \in 0..n
  OBVIOUS
<1>3. 0 \in G
  <2>1. SubSeq(w, 1, 0) = <<>>
    BY SubSeqEmpty
  <2>2. t[0] = <<SubSeq(w, 1, 0)>>
    BY <1>1, <2>1
  <2> QED BY <1>2, <2>2
<1>4. ASSUME NEW k \in 1..n, k - 1 \in G PROVE k \in G
  <2> DEFINE z == SubSeq(w, 1, k - 1)
  <2>1. k \in 0..n /\ t[k - 1] = <<z>> /\ w[k] # "/" /\ w[k] \in Symbol
    BY <1>2, <1>4
  <2>2. z \in Seq(Symbol)
    <3>1. \A i \in 1..(k - 1) : w[i] \in Symbol
      BY <1>2
    <3> QED BY <1>2, <3>1, SubSeqProperties
  <2>3. Append(z, w[k]) = SubSeq(w, 1, k)
    <3>1. SubSeq(w, 1, k) = z \o <<w[k]>>
      <4>1. 1 \in 1..Len(w) /\ k \in 1..Len(w)
        BY <1>2
      <4> QED BY <4>1, SubSeqRecursiveSecond
    <3> HIDE DEF z
    <3> QED BY <2>1, <2>2, <3>1, AppendIsConcat
  <2> HIDE DEF z
  <2>4. t[k] = Cut(<<z>>, w[k])
    BY <1>1, <2>1
  <2>5. Cut(<<z>>, w[k]) = <<Append(z, w[k])>>
    BY <2>1, <2>2 DEF Cut
  <2> QED BY <2>1, <2>3, <2>4, <2>5
<1>5. \A k \in 0..n : k \in G
  <2> HIDE DEF G
  <2> QED BY <1>2, <1>3, <1>4, UpTo
<1>6. SubSeq(w, 1, n) = w
  BY SubSeqFull
<1> QED BY <1>1, <1>2, <1>5, <1>6

\* The last element stays if it is kept at all.
LEMMA FilteredLast ==
  ASSUME NEW X, NEW seq \in Seq(X), NEW S, seq # <<>>, seq[Len(seq)] \in S
  PROVE  Filtered(seq, S) # <<>> /\ Last(Filtered(seq, S)) = seq[Len(seq)]
<1>1. PICK u \in [0..Len(seq) -> Seq(X)] : Filters(u, seq, S) /\ Filtered(seq, S) = u[Len(seq)]
  BY FilteredTrace
<1> DEFINE n == Len(seq)  z == u[n - 1]
<1>2. n \in 1..n /\ n - 1 \in 0..n /\ z \in Seq(X) /\ seq[n] \in X
  <2>1. n \in 1..n /\ n - 1 \in 0..n /\ seq[n] \in X
    OBVIOUS
  <2> QED BY <1>1, <2>1
<1>3. Filtered(seq, S) = Append(z, seq[n])
  BY <1>1, <1>2 DEF Filters
<1> HIDE DEF n, z
<1> QED BY <1>2, <1>3, AppendProperties DEF Last, n

LEMMA UploadHolds == ASSUME Inv PROVE UploadChecked
<1> SUFFICES ASSUME Asked("upload") PROVE UploadChecked
  BY DEF UploadChecked
<1> DEFINE w == question.word  dirs == question.dirs  segs == Segments(w)
<1>1. /\ w \in Seq(Symbol) /\ Len(w) \in Nat /\ DOMAIN w = 1..Len(w)
      /\ question.running \in BOOLEAN /\ dirs \in {{}, {<<<<"a">>>>}}
      /\ answer.is = IF question.running /\ ValidateFilename(w)
                     THEN WriteFile(w, dirs) ELSE [ok |-> FALSE, at |-> <<>>]
  BY AskedUpload, WordIsSeq, BoundsAssumption
<1>2. segs \in Seq(Seq(Symbol)) /\ segs # <<>> /\ Len(segs) \in 1..Len(segs)
  <2>1. PICK t \in [0..Len(w) -> Split] : segs = t[Len(w)]
    BY <1>1, SegmentsTrace
  <2>2. segs \in Split
    BY <1>1, <2>1
  <2> QED BY <2>2 DEF Split
<1>3. ASSUME answer.is.ok
      PROVE  /\ question.running
             /\ Last(answer.is.at) = Last(segs)
             /\ Front(answer.is.at) \in {<<>>} \cup dirs
             /\ <<".", ".">> \notin Range(answer.is.at)
  <2> DEFINE at == Named(segs)
  <2>1. question.running /\ answer.is = WriteFile(w, dirs)
    BY <1>1, <1>3
  <2>2. /\ answer.is.at = at
        /\ segs[Len(segs)] \notin Unnamed \cup {<<".", ".">>}
        /\ Front(at) \in {<<>>} \cup dirs
    BY <1>3, <2>1 DEF WriteFile
  <2> HIDE DEF segs
  <2>3. segs[Len(segs)] \in Range(segs) \ Unnamed
    BY <1>2, <2>2, RangeEquality
  <2>4. at # <<>> /\ Last(at) = segs[Len(segs)]
    BY <1>2, <2>3, FilteredLast DEF Named
  <2>5. at \in Seq(Seq(Symbol))
    <3>1. at \in Seq(Seq(Symbol) \cap (Range(segs) \ Unnamed))
      BY <1>2, FilteredType DEF Named
    <3> QED BY <3>1, SeqMonotonic
  <2> HIDE DEF at
  <2>6. ASSUME NEW i \in 1..Len(at), at[i] = <<".", ".">> PROVE FALSE
    <3>1. i # Len(at)
      BY <2>2, <2>4, <2>6 DEF Last
    <3>2. Len(at) \in Nat /\ Len(Front(at)) = Len(at) - 1 /\ i \in 1..(Len(at) - 1)
      BY <2>5, <3>1 DEF Front
    <3>3. Front(at)[i] = at[i]
      BY <2>5, <3>2 DEF Front
    <3>4. Len(Front(at)) # 0
      BY <3>2
    <3>5. Front(at) # <<>>
      BY <3>4
    <3>6. Front(at) = <<<<"a">>>>
      BY <1>1, <2>2, <3>5
    <3>7. i = 1
      <4>1. Len(<<<<"a">>>>) = 1
        OBVIOUS
      <4>2. Len(Front(at)) = 1
        BY <3>6, <4>1
      <4>3. Len(at) - 1 = 1
        BY <3>2, <4>2
      <4>4. i \in 1..1
        BY <3>2, <4>3
      <4> QED BY <4>4
    <3> QED BY <2>6, <3>3, <3>6, <3>7
  <2>7. Last(segs) = segs[Len(segs)]
    BY DEF Last
  <2>8. <<".", ".">> \notin Range(at)
    BY <2>5, <2>6, RangeEquality
  <2> QED BY <2>1, <2>2, <2>4, <2>7, <2>8
<1>4. ASSUME question.running, w \notin Unnamed \cup {<<".", ".">>}, "/" \notin Range(w),
             ~OnDrive(w), <<w>> \notin dirs
      PROVE  answer.is.ok /\ answer.is.at = <<w>>
  <2>1. \A i \in 1..Len(w) : w[i] # "/"
    BY <1>1, <1>4 DEF Range
  <2>2. segs = <<w>>
    BY <1>1, <2>1, SegmentsOfName
  <2>3. ValidateFilename(w)
    <3>1. w # <<>> /\ w \notin {<<".">>, <<".", ".">>}
      BY <1>4 DEF Unnamed
    <3>2. ASSUME NEW i \in 1..(Len(w) - 2), SubSeq(w, i, i + 2) = <<".", ".", "/">> PROVE FALSE
      <4>1. /\ i \in Int /\ i + 2 \in Int /\ i + 2 \in 1..Len(w) /\ 3 \in 1..((i + 2) - i + 1)
            /\ \A j \in i..(i + 2) : w[j] \in Symbol
        BY <1>1
      <4>2. SubSeq(w, i, i + 2)[3] = w[i + 3 - 1]
        BY <4>1, SubSeqProperties
      <4>3. <<".", ".", "/">>[3] = "/" /\ i + 3 - 1 = i + 2
        BY <4>1
      <4> QED BY <2>1, <3>2, <4>1, <4>2, <4>3
    <3>3. w[1] # "/"
      BY <1>1, <2>1, <3>1
    <3> QED BY <1>4, <3>1, <3>2, <3>3 DEF ValidateFilename
  <2>4. answer.is = WriteFile(w, dirs)
    BY <1>1, <1>4, <2>3
  <2>5. Named(segs) = <<w>>
    <3>1. <<w>> \in Seq({w}) /\ Len(<<w>>) = 1 /\ Range(<<w>>) = {w}
      BY DEF Range
    <3>2. \A i \in 1..Len(<<w>>) : <<w>>[i] \in Range(<<w>>) \ Unnamed
      BY <1>4, <3>1
    <3>3. Filtered(<<w>>, Range(<<w>>) \ Unnamed) = <<w>>
      BY <3>1, <3>2, FilteredAll
    <3> QED BY <2>2, <3>3 DEF Named
  <2>6. Front(<<w>>) = <<>> /\ segs[Len(segs)] = w
    BY <2>2 DEF Front
  <2> QED BY <1>4, <2>4, <2>5, <2>6 DEF WriteFile
<1> QED BY <1>3, <1>4 DEF UploadChecked

---------------------------------------------------------------------------
(* Concatenations of sequences *)

\* Joined from the left, one by one.
Joins(t, seqs) == t[0] = <<>> /\ \A k \in 1..Len(seqs) : t[k] = t[k - 1] \o seqs[k]

LEMMA FlattenTrace ==
  ASSUME NEW X, NEW seqs \in Seq(Seq(X))
  PROVE  \E t \in [0..Len(seqs) -> Seq(X)] : Joins(t, seqs) /\ FlattenSeq(seqs) = t[Len(seqs)]
<1> DEFINE n == Len(seqs)
           F(f) == [i \in 1..n |-> IF i = 1 THEN seqs[i] ELSE f[i - 1] \o seqs[i]]
           it == CHOOSE f : f = F(f)
           t == [k \in 0..n |-> IF k = 0 THEN <<>> ELSE it[k]]
           Is(f, m) == \A i \in 1..m : f[i] = IF i = 1 THEN seqs[i] ELSE f[i - 1] \o seqs[i]
           G == {m \in 0..n : \E f : Is(f, m)}
<1>0. n \in Nat /\ n \in 0..n /\ \A i \in 1..n : seqs[i] \in Seq(X)
  OBVIOUS
<1>1. n \in G
  <2>1. 0 \in G
    BY <1>0
  <2>2. ASSUME NEW m \in 1..n, m - 1 \in G PROVE m \in G
    <3>1. PICK f : Is(f, m - 1)
      BY <2>2
    <3> DEFINE g == [i \in 1..m |-> IF i < m THEN f[i]
                                    ELSE IF m = 1 THEN seqs[m] ELSE f[m - 1] \o seqs[m]]
    <3>2. ASSUME NEW i \in 1..m PROVE g[i] = IF i = 1 THEN seqs[i] ELSE g[i - 1] \o seqs[i]
      <4>1. CASE i < m
        <5>1. i \in 1..(m - 1) /\ g[i] = f[i] /\ (i # 1 => g[i - 1] = f[i - 1])
          BY <1>0, <4>1
        <5> HIDE DEF g
        <5> QED BY <3>1, <5>1
      <4>2. CASE ~(i < m)
        <5>1. i = m /\ (m # 1 => g[m - 1] = f[m - 1])
          BY <1>0, <4>2
        <5> QED BY <5>1
      <4> QED BY <4>1, <4>2
    <3>3. Is(g, m)
      <4> HIDE DEF g
      <4> QED BY <3>2
    <3> HIDE DEF g, Is
    <3>4. m \in 0..n
      BY <1>0
    <3> QED BY <3>3, <3>4
  <2> HIDE DEF G
  <2> QED BY <1>0, <2>1, <2>2, UpTo
<1>2. \E f : f = F(f)
  <2>1. PICK f : Is(f, n)
    BY <1>1
  <2> DEFINE g == [i \in 1..n |-> f[i]]
  <2>2. ASSUME NEW i \in 1..n PROVE g[i] = F(g)[i]
    <3>1. g[i] = f[i] /\ (i # 1 => i - 1 \in 1..n /\ g[i - 1] = f[i - 1])
      BY <1>0
    <3>2. F(g)[i] = IF i = 1 THEN seqs[i] ELSE g[i - 1] \o seqs[i]
      OBVIOUS
    <3> HIDE DEF g, F
    <3> QED BY <2>1, <3>1, <3>2
  <2>3. g = F(g)
    BY <2>2
  <2> HIDE DEF g, F
  <2> QED BY <2>3
<1>3. it = F(it)
  <2> HIDE DEF F
  <2> QED BY <1>2
<1>4. n # 0 => FlattenSeq(seqs) = it[n]
  BY <1>0, Zenon DEF FlattenSeq
<1>5. \A i \in 1..n : it[i] = IF i = 1 THEN seqs[i] ELSE it[i - 1] \o seqs[i]
  <2> HIDE DEF it
  <2> QED BY <1>3
<1>6. FlattenSeq(seqs) = t[n]
  <2>1. CASE n = 0
    <3>1. FlattenSeq(seqs) = seqs /\ seqs = <<>>
      BY <2>1 DEF FlattenSeq
    <3> QED BY <1>0, <2>1, <3>1
  <2>2. CASE n # 0
    <3> HIDE DEF it
    <3> QED BY <1>0, <1>4, <2>2
  <2> QED BY <2>1, <2>2
<1>7. ASSUME NEW k \in 1..n PROVE t[k] = t[k - 1] \o seqs[k]
  <2>1. CASE k = 1
    <3>1. t[k] = seqs[k] /\ t[k - 1] = <<>>
      <4>1. 1 \in 0..n /\ 0 \in 0..n /\ k - 1 = 0
        BY <1>0, <2>1
      <4>2. t[1] = it[1] /\ t[0] = <<>>
        BY <4>1
      <4>3. it[1] = seqs[1]
        <5> HIDE DEF it
        <5> QED BY <1>5, <2>1
      <4> HIDE DEF t, it
      <4> QED BY <2>1, <4>1, <4>2, <4>3
    <3>2. <<>> \o seqs[k] = seqs[k]
      BY <1>0, ConcatEmptySeq
    <3> HIDE DEF t
    <3> QED BY <3>1, <3>2
  <2>2. CASE k # 1
    <3>1. t[k] = it[k] /\ t[k - 1] = it[k - 1]
      BY <1>0, <2>2
    <3> HIDE DEF t, it
    <3> QED BY <1>5, <2>2, <3>1
  <2> QED BY <2>1, <2>2
<1>8. t[0] = <<>>
  BY <1>0
<1> HIDE DEF t, it
<1>9. \A k \in 0..n : t[k] \in Seq(X)
  <2> DEFINE H == {k \in 0..n : t[k] \in Seq(X)}
  <2>1. 0 \in H
    <3>1. 0 \in 0..n /\ <<>> \in Seq(X)
      BY <1>0
    <3> QED BY <1>8, <3>1
  <2>2. ASSUME NEW k \in 1..n, k - 1 \in H PROVE k \in H
    <3>1. k \in 0..n /\ t[k - 1] \in Seq(X) /\ seqs[k] \in Seq(X)
      BY <1>0, <2>2
    <3> QED BY <1>7, <3>1, ConcatProperties
  <2>3. \A k \in 0..n : k \in H
    <3> HIDE DEF H
    <3> QED BY <1>0, <2>1, <2>2, UpTo
  <2> QED BY <2>3
<1>10. t \in [0..n -> Seq(X)]
  BY <1>9 DEF t
<1>11. Joins(t, seqs)
  BY <1>7, <1>8 DEF Joins
<1> QED BY <1>6, <1>10, <1>11

---------------------------------------------------------------------------
(* Branch patterns *)

\* A pattern that may go on, and a word that may stand for a symbol in it.
Clean(w) ==
  /\ \A i \in 1..Len(w) : w[i] # ":"
  /\ w # <<>> => w[1] \notin {".", "/"}
  /\ ~Adjacent(w, ".", ".") /\ ~Adjacent(w, "/", "/")
Stands(y, c) ==
  /\ y # <<>> /\ ~Adjacent(y, ".", ".") /\ ~Adjacent(y, "/", "/")
  /\ (\A i \in 1..Len(y) : y[i] # ":") <=> c # ":"
  /\ \A a \in {".", "/"} : (y[1] = a <=> c = a) /\ (y[Len(y)] = a <=> c = a)

\* What is new to the check when a word is added.
LEMMA AdjacentConcat ==
  ASSUME NEW X, NEW x \in Seq(X), NEW y \in Seq(X), y # <<>>, NEW a, ~Adjacent(y, a, a)
  PROVE  Adjacent(x \o y, a, a) <=> Adjacent(x, a, a) \/ (x # <<>> /\ x[Len(x)] = a /\ y[1] = a)
<1> DEFINE m == Len(x)  n == Len(y)  z == x \o y
<1>1. /\ m \in Nat /\ n \in Nat \ {0} /\ Len(z) = m + n
      /\ \A i \in 1..m : z[i] = x[i]
      /\ \A i \in (m + 1)..(m + n) : z[i] = y[i - m]
  BY ConcatProperties
<1>2. x = <<>> <=> m = 0
  OBVIOUS
<1> HIDE DEF z
<1>3. ASSUME NEW i \in 1..(m + n - 1), z[i] = a, z[i + 1] = a
      PROVE  Adjacent(x, a, a) \/ (m # 0 /\ x[m] = a /\ y[1] = a)
  <2>1. CASE i + 1 <= m
    <3>1. i \in 1..(m - 1) /\ x[i] = a /\ x[i + 1] = a
      BY <1>1, <1>3, <2>1
    <3> QED BY <3>1 DEF Adjacent
  <2>2. CASE i = m
    BY <1>1, <1>3, <2>2
  <2>3. CASE i > m
    <3>1. i - m \in 1..(n - 1) /\ y[i - m] = a /\ y[(i - m) + 1] = a
      BY <1>1, <1>3, <2>3
    <3> QED BY <3>1 DEF Adjacent
  <2> QED BY <1>1, <2>1, <2>2, <2>3
<1>4. ASSUME Adjacent(x, a, a) PROVE \E i \in 1..(m + n - 1) : z[i] = a /\ z[i + 1] = a
  <2>1. PICK i \in 1..(m - 1) : x[i] = a /\ x[i + 1] = a
    BY <1>4 DEF Adjacent
  <2>2. i \in 1..(m + n - 1) /\ z[i] = a /\ z[i + 1] = a
    BY <1>1, <2>1
  <2> QED BY <2>2
<1>5. ASSUME m # 0, x[m] = a, y[1] = a PROVE \E i \in 1..(m + n - 1) : z[i] = a /\ z[i + 1] = a
  <2>1. m \in 1..(m + n - 1) /\ z[m] = a /\ z[m + 1] = a
    BY <1>1, <1>5
  <2> QED BY <2>1
<1>6. Adjacent(z, a, a) <=> \E i \in 1..(m + n - 1) : z[i] = a /\ z[i + 1] = a
  BY <1>1 DEF Adjacent
<1> HIDE DEF m, n
<1>7. Adjacent(z, a, a) <=> Adjacent(x, a, a) \/ (m # 0 /\ x[m] = a /\ y[1] = a)
  BY <1>3, <1>4, <1>5, <1>6
<1> QED BY <1>2, <1>7 DEF m, z

LEMMA CleanConcat ==
  ASSUME NEW X, NEW x \in Seq(X), NEW y \in Seq(X), NEW c, Stands(y, c)
  PROVE  Clean(x \o y) <=> /\ Clean(x) /\ c # ":"
                           /\ x = <<>> => c \notin {".", "/"}
                           /\ x # <<>> => ~(x[Len(x)] = c /\ c \in {".", "/"})
<1> DEFINE m == Len(x)  n == Len(y)  z == x \o y
<1>1. /\ m \in Nat /\ n \in Nat \ {0} /\ Len(z) = m + n
      /\ \A i \in 1..m : z[i] = x[i]
      /\ \A i \in (m + 1)..(m + n) : z[i] = y[i - m]
  BY ConcatProperties DEF Stands
<1>2. (x = <<>> <=> m = 0) /\ z # <<>>
  BY <1>1
<1>3. /\ Adjacent(z, ".", ".") <=> Adjacent(x, ".", ".") \/ (m # 0 /\ x[m] = "." /\ c = ".")
      /\ Adjacent(z, "/", "/") <=> Adjacent(x, "/", "/") \/ (m # 0 /\ x[m] = "/" /\ c = "/")
  BY <1>2, AdjacentConcat DEF Stands
<1> HIDE DEF z
<1>4. (\A i \in 1..Len(z) : z[i] # ":") <=> (\A i \in 1..m : x[i] # ":") /\ c # ":"
  <2>1. ASSUME NEW i \in 1..n PROVE m + i \in (m + 1)..(m + n) /\ z[m + i] = y[i]
    <3>1. m + i \in (m + 1)..(m + n) /\ (m + i) - m = i
      BY <1>1
    <3> QED BY <1>1, <3>1
  <2>2. \A i \in 1..Len(z) : i \in 1..m \/ (i \in (m + 1)..(m + n) /\ i - m \in 1..n)
    BY <1>1
  <2>3. \A i \in 1..m : i \in 1..Len(z)
    BY <1>1
  <2>4. \A i \in 1..n : m + i \in 1..Len(z)
    BY <1>1
  <2>5. (\A i \in 1..n : y[i] # ":") <=> c # ":"
    BY DEF Stands
  <2> QED BY <1>1, <2>1, <2>2, <2>3, <2>4, <2>5
<1>5. z[1] = IF m = 0 THEN y[1] ELSE x[1]
  BY <1>1
<1>6. y[1] \in {".", "/"} <=> c \in {".", "/"}
  BY DEF Stands
<1> QED BY <1>2, <1>3, <1>4, <1>5, <1>6 DEF Clean, z

\* A symbol stands for itself, and a name git allows for its placeholder.
LEMMA StandsForItself ==
  ASSUME NEW c
  PROVE  Stands(<<c>>, c)
<1>1. <<c>> # <<>> /\ Len(<<c>>) = 1 /\ <<c>>[1] = c /\ 1 \in 1..1 /\ \A i \in 1..1 : i = 1
  OBVIOUS
<1>2. \A a : ~Adjacent(<<c>>, a, a)
  BY <1>1 DEF Adjacent
<1> QED BY <1>1, <1>2 DEF Stands

LEMMA StandsForPersona ==
  ASSUME NEW p, p \in Seq(Range(p)), GitAllows(p)
  PROVE  Stands(p, "<persona-name>")
<1>1. /\ p # <<>> /\ \A i \in DOMAIN p : p[i] # ":"
      /\ p[1] # "/" /\ p[1] # "." /\ p[Len(p)] # "/" /\ p[Len(p)] # "."
      /\ ~Adjacent(p, "/", "/") /\ ~Adjacent(p, ".", ".")
  BY Zenon DEF GitAllows
<1>2. DOMAIN p = 1..Len(p)
  OBVIOUS
<1> QED BY <1>1, <1>2 DEF Stands

\* The pattern is accepted when the name it resolves to is.
LEMMA ResolvedAlike ==
  ASSUME NEW X, NEW w \in Seq(X), NEW parts \in Seq(Seq(X)), Len(parts) = Len(w),
         \A i \in 1..Len(w) : Stands(parts[i], w[i])
  PROVE  ValidateBranchPattern(w) <=> ValidateBranchPattern(FlattenSeq(parts))
<1> DEFINE n == Len(w)
<1>1. n \in Nat /\ \A k \in 1..n : parts[k] \in Seq(X)
  OBVIOUS
<1>2. PICK t \in [0..n -> Seq(X)] : Joins(t, parts) /\ FlattenSeq(parts) = t[n]
  BY FlattenTrace
<1> DEFINE Pre(k) == SubSeq(w, 1, k)
           Like(k) == /\ t[k] = <<>> <=> k = 0
                      /\ Clean(t[k]) <=> Clean(Pre(k))
                      /\ k # 0 => \A a \in {".", "/"} : t[k][Len(t[k])] = a <=> w[k] = a
           G == {k \in 0..n : Like(k)}
<1>3. \A k \in 0..n : Pre(k) \in Seq(X) /\ Len(Pre(k)) = k /\ \A i \in 1..k : Pre(k)[i] = w[i]
  <2> SUFFICES ASSUME NEW k \in 0..n
               PROVE  Pre(k) \in Seq(X) /\ Len(Pre(k)) = k /\ \A i \in 1..k : Pre(k)[i] = w[i]
    OBVIOUS
  <2>1. \A i \in 1..k : w[i] \in X
    BY <1>1
  <2> QED BY <1>1, <2>1, SubSeqProperties
<1>4. 0 \in G
  <2>1. t[0] = <<>> /\ Pre(0) = <<>> /\ 0 \in 0..n
    BY <1>1, <1>2, SubSeqEmpty DEF Joins
  <2> QED BY <2>1
<1>5. ASSUME NEW k \in 1..n, k - 1 \in G PROVE k \in G
  <2> DEFINE x == t[k - 1]  y == parts[k]  c == w[k]  u == Pre(k - 1)
  <2>1. /\ x \in Seq(X) /\ y \in Seq(X) /\ u \in Seq(X) /\ c \in X /\ Stands(y, c)
        /\ Len(u) = k - 1 /\ (k # 1 => u[Len(u)] = w[k - 1]) /\ k - 1 \in 0..n /\ k \in 0..n
    <3>1. k - 1 \in 0..n /\ k \in 0..n
      BY <1>1
    <3>4. c \in X /\ x \in Seq(X)
      <4>1. w[k] \in X
        OBVIOUS
      <4>2. t[k - 1] \in Seq(X)
        BY <1>2, <3>1
      <4> QED BY <4>1, <4>2
    <3>5. y \in Seq(X) /\ Stands(y, c)
      BY <1>1
    <3>2. u \in Seq(X) /\ Len(u) = k - 1 /\ \A i \in 1..(k - 1) : u[i] = w[i]
      BY <1>3, <3>1
    <3>3. k # 1 => k - 1 \in 1..(k - 1)
      BY <1>1
    <3> HIDE DEF u
    <3> QED BY <3>1, <3>2, <3>3, <3>4, <3>5
  <2>2. /\ x = <<>> <=> k = 1
        /\ Clean(x) <=> Clean(u)
        /\ k # 1 => \A a \in {".", "/"} : x[Len(x)] = a <=> w[k - 1] = a
    <3>1. Like(k - 1)
      BY <1>5
    <3> QED BY <2>1, <3>1
  <2>3. t[k] = x \o y
    BY <1>2 DEF Joins
  <2>4. Pre(k) = u \o <<c>>
    <3>1. 1 \in 1..Len(w) /\ k \in 1..Len(w)
      BY <1>1
    <3> QED BY <3>1, SubSeqRecursiveSecond
  <2>5. u = <<>> <=> k = 1
    <3> HIDE DEF u
    <3> QED BY <2>1, EmptySeq
  <2> HIDE DEF x, y, c, u, Pre
  <2>6. Clean(x \o y) <=> /\ Clean(x) /\ c # ":"
                          /\ x = <<>> => c \notin {".", "/"}
                          /\ x # <<>> => ~(x[Len(x)] = c /\ c \in {".", "/"})
    BY <2>1, CleanConcat
  <2>7. Clean(u \o <<c>>) <=> /\ Clean(u) /\ c # ":"
                              /\ u = <<>> => c \notin {".", "/"}
                              /\ u # <<>> => ~(u[Len(u)] = c /\ c \in {".", "/"})
    <3>1. Stands(<<c>>, c) /\ <<c>> \in Seq(X)
      BY <2>1, StandsForItself
    <3> QED BY <2>1, <3>1, CleanConcat
  <2>8. Clean(x \o y) <=> Clean(u \o <<c>>)
    <3>1. k # 1 => (x[Len(x)] = c /\ c \in {".", "/"} <=> u[Len(u)] = c /\ c \in {".", "/"})
      BY <2>1, <2>2
    <3> QED BY <2>2, <2>5, <2>6, <2>7, <3>1
  <2>9. x \o y # <<>> /\ (x \o y)[Len(x \o y)] = y[Len(y)]
    <3>1. Len(y) \in Nat \ {0} /\ Len(x) \in Nat
      <4>1. y # <<>>
        BY <2>1 DEF Stands
      <4>2. x \in Seq(X) /\ y \in Seq(X)
        BY <2>1
      <4> QED BY <4>1, <4>2, EmptySeq, LenProperties
    <3>2. /\ Len(x \o y) = Len(x) + Len(y)
          /\ \A i \in (Len(x) + 1)..(Len(x) + Len(y)) : (x \o y)[i] = y[i - Len(x)]
      BY <2>1, ConcatProperties
    <3>3. /\ Len(x) + Len(y) \in (Len(x) + 1)..(Len(x) + Len(y))
          /\ (Len(x) + Len(y)) - Len(x) = Len(y)
      BY <3>1
    <3>4. Len(x \o y) # 0
      BY <3>1, <3>2
    <3> QED BY <3>2, <3>3, <3>4
  <2>10. \A a \in {".", "/"} : y[Len(y)] = a <=> c = a
    BY <2>1 DEF Stands
  <2>11. Like(k)
    BY <2>3, <2>4, <2>8, <2>9, <2>10 DEF c
  <2> HIDE DEF Like
  <2> QED BY <2>1, <2>11
<1>6. Like(n)
  <2>1. \A k \in 0..n : k \in G
    <3> HIDE DEF G
    <3> QED BY <1>1, <1>4, <1>5, UpTo
  <2>2. n \in 0..n
    BY <1>1
  <2> QED BY <2>1, <2>2
<1>7. Pre(n) = w
  BY <1>1, SubSeqFull
<1>8. \A v \in Seq(X) : ValidateBranchPattern(v)
                        <=> v # <<>> /\ Clean(v) /\ v[Len(v)] \notin {".", "/"}
  BY DEF ValidateBranchPattern, Clean
<1>9. t[n] \in Seq(X) /\ (w = <<>> <=> n = 0)
  BY <1>1
<1> HIDE DEF Pre
<1>10. w # <<>> => (w[Len(w)] \notin {".", "/"} <=> t[n][Len(t[n])] \notin {".", "/"})
  BY <1>6, <1>9
<1> QED BY <1>2, <1>6, <1>7, <1>8, <1>9, <1>10

\* Concatenation adds nothing.
LEMMA FlattenType ==
  ASSUME NEW X, NEW seqs \in Seq(Seq(X))
  PROVE  FlattenSeq(seqs) \in Seq(X)
<1>1. PICK t \in [0..Len(seqs) -> Seq(X)] : Joins(t, seqs) /\ FlattenSeq(seqs) = t[Len(seqs)]
  BY FlattenTrace
<1>2. Len(seqs) \in 0..Len(seqs)
  OBVIOUS
<1> QED BY <1>1, <1>2

\* Rules that git shares with the check of the pattern, and the one on spaces.
LEMMA GitRules ==
  ASSUME NEW w, ~Overlooked(w), \A i \in DOMAIN w : w[i] # " ", DOMAIN w = 1..Len(w)
  PROVE  GitAllows(w) <=> ValidateBranchPattern(w)
<1>1. ASSUME GitAllows(w) PROVE ValidateBranchPattern(w)
  BY <1>1, Zenon DEF GitAllows, ValidateBranchPattern
<1>2. ASSUME ValidateBranchPattern(w) PROVE GitAllows(w)
  BY <1>2, Zenon DEF GitAllows, ValidateBranchPattern, Overlooked
<1> QED BY <1>1, <1>2

LEMMA BranchHolds == ASSUME Inv PROVE BranchChecked
<1> SUFFICES ASSUME Asked("branch"), ~Overlooked(Resolved),
                    "<persona-name>" \in Range(question.word) => GitAllows(question.persona)
             PROVE  answer.is <=> GitAllows(Resolved)
  BY DEF BranchChecked
<1> DEFINE w == question.word  p == question.persona
           parts == [i \in DOMAIN w |-> IF w[i] = "<persona-name>" THEN p ELSE <<w[i]>>]
           named == "<persona-name>" \in Range(w)
           X == Symbol \cup (IF named THEN Range(p) ELSE {})
<1>1. /\ w \in Seq(Symbol) /\ DOMAIN w = 1..Len(w) /\ Len(w) \in Nat /\ p \in PersonaNamed
      /\ answer.is = ValidateBranchPattern(w)
  BY AskedBranch, WordIsSeq, BoundsAssumption
<1>2. p \in Seq(Range(p))
  BY <1>1, WordsAssumption
<1>3. ASSUME NEW i \in 1..Len(w) PROVE parts[i] \in Seq(X) /\ Stands(parts[i], w[i])
  <2>1. CASE w[i] = "<persona-name>"
    <3>1. named
      BY <1>1, <2>1 DEF Range
    <3>2. parts[i] = p /\ X = Symbol \cup Range(p)
      BY <1>1, <2>1, <3>1
    <3>3. Seq(Range(p)) \subseteq Seq(X)
      BY <3>2, SeqMonotonic
    <3>4. Stands(p, "<persona-name>")
      BY <1>2, <3>1, StandsForPersona
    <3> HIDE DEF X, parts
    <3> QED BY <1>2, <2>1, <3>2, <3>3, <3>4
  <2>2. CASE w[i] # "<persona-name>"
    <3>1. parts[i] = <<w[i]>> /\ w[i] \in Symbol
      BY <1>1, <2>2
    <3> HIDE DEF parts
    <3>2. <<w[i]>> \in Seq(X)
      BY <3>1
    <3> QED BY <3>1, <3>2, StandsForItself
  <2> QED BY <2>1, <2>2
<1>4. Len(parts) = Len(w) /\ DOMAIN parts = 1..Len(w)
  BY <1>1
<1>5. Resolved = FlattenSeq(parts)
  BY Zenon DEF Resolved
<1> HIDE DEF parts
<1>6. parts \in Seq(Seq(X)) /\ w \in Seq(X)
  <2>1. Seq(Symbol) \subseteq Seq(X)
    BY SeqMonotonic
  <2> HIDE DEF X, w
  <2>2. parts = [i \in 1..Len(w) |-> parts[i]]
    BY <1>4 DEF parts
  <2> QED BY <1>1, <1>3, <1>4, <2>1, <2>2
<1> HIDE DEF X
<1>7. ValidateBranchPattern(w) <=> ValidateBranchPattern(Resolved)
  BY <1>3, <1>4, <1>5, <1>6, ResolvedAlike
<1>8. Resolved \in Seq(X)
  BY <1>5, <1>6, FlattenType
<1>9. ASSUME NEW i \in DOMAIN Resolved PROVE Resolved[i] # " "
  <2>1. Resolved[i] \in X
    BY <1>8
  <2>2. " " \notin Symbol
    BY WordsAssumption, Zenon
  <2>3. named => " " \notin Range(p)
    BY Zenon DEF GitAllows, Range
  <2> QED BY <2>1, <2>2, <2>3, Zenon DEF X
<1>10. DOMAIN Resolved = 1..Len(Resolved)
  BY <1>8
<1>11. GitAllows(Resolved) <=> ValidateBranchPattern(Resolved)
  BY <1>9, <1>10, GitRules, Zenon
<1> QED BY <1>1, <1>7, <1>11, Zenon

\* What users enter is checked as git and the file system take it, for every
\* pattern, persona name, URL, directory and file name.
THEOREM InputsCheckedAlways == FormsSpec => []InputsChecked
<1>1. Inv => InputsChecked
  BY BranchHolds, UrlHolds, MountsHold, UploadHolds DEF InputsChecked
<1> QED BY <1>1, InvAlways, PTL

---------------------------------------------------------------------------
(* Policies *)

LEMMA AskedPolicies ==
  ASSUME Inv, Asked("policies")
  PROVE  LET rules == Preset(question.mode) \cup question.added
         IN  /\ question.mode \in {"balanced", "allow-all", "deny-all"}
             /\ question.added \subseteq UserRules
             /\ answer.is = [label |-> DeriveDefaultPolicy(rules),
                             rows |-> FlattenPolicyRules(rules),
                             left |-> [r \in rules |-> PolicyRemoveRule(rules, r.id)]]
<1> DEFINE rules == Preset(question.mode) \cup question.added
           is == [label |-> DeriveDefaultPolicy(rules), rows |-> FlattenPolicyRules(rules),
                  left |-> [r \in rules |-> PolicyRemoveRule(rules, r.id)]]
<1>1. question \in Questions /\ question.about = "policies"
  BY DEF Inv, Asked
<1>2. question.mode \in {"balanced", "allow-all", "deny-all"} /\ question.added \subseteq UserRules
  BY <1>1 DEF Questions
<1>3. answer # Unanswered
  BY DEF Asked, Unanswered
<1>4. Answered("policies", is)
  BY <1>1, <1>3 DEF Inv, RightlyAnswered, Answered
<1>5. answer.is = is
  BY <1>4 DEF Answered, Given
<1> QED BY <1>2, <1>5

LEMMA PoliciesHold == ASSUME Inv PROVE PoliciesRead
<1> SUFFICES ASSUME Asked("policies") PROVE PoliciesRead
  BY DEF PoliciesRead
<1> DEFINE mode == question.mode  added == question.added  rules == Preset(mode) \cup added
<1>1. /\ mode \in {"balanced", "allow-all", "deny-all"} /\ added \subseteq UserRules
      /\ answer.is = [label |-> DeriveDefaultPolicy(rules), rows |-> FlattenPolicyRules(rules),
                      left |-> [r \in rules |-> PolicyRemoveRule(rules, r.id)]]
  BY AskedPolicies
<1> DEFINE b == Rule(<<"default-", "1">>, "allow", "all", "network", {"registry", "forge"})
           y == Rule(<<"any">>, "allow", "all", "network", {"*"})
<1>5. /\ mode = "balanced" => Preset(mode) = {b}
      /\ mode = "allow-all" => Preset(mode) = {y}
      /\ mode = "deny-all" => Preset(mode) = {}
  BY DEF Preset
<1>6. b.id = <<"default-", "1">> /\ y.id = <<"any">> /\ GlobalAllow(y) /\ "*" \in y.resources
  BY DEF Rule, GlobalAllow
<1> HIDE DEF b, y
<1>7. /\ \A r \in added : r.id \notin {b.id, y.id} /\ r.id[1] # "default-"
      /\ b.id # y.id /\ b.id[1] = "default-" /\ y.id[1] # "default-"
  BY <1>1, <1>6, RulesAssumption
<1>2. ASSUME NEW r \in rules, NEW s \in rules, r.id = s.id PROVE r = s
  <2>1. CASE r \in added /\ s \in added
    BY <1>1, <1>2, <2>1, RulesAssumption
  <2>2. CASE r \in Preset(mode) /\ s \in Preset(mode)
    BY <1>1, <1>5, <2>2
  <2>3. \A q \in Preset(mode) : q.id \in {b.id, y.id}
    BY <1>1, <1>5, <1>6
  <2> QED BY <1>2, <1>7, <2>1, <2>2, <2>3
<1>3. answer.is.label = mode \/ (mode = "deny-all" /\ \E r \in added : GlobalAllow(r))
  <2>1. CASE mode = "balanced"
    BY <1>1, <1>5, <1>6, <2>1 DEF DeriveDefaultPolicy, IsDefault
  <2>2. \A r \in added : ~IsDefault(r)
    BY <1>7 DEF IsDefault
  <2>3. CASE mode = "allow-all"
    <3>1. \A r \in rules : ~IsDefault(r)
      BY <1>5, <1>6, <2>2, <2>3 DEF IsDefault
    <3>2. y \in rules
      BY <1>5, <2>3
    <3> QED BY <1>1, <1>6, <2>3, <3>1, <3>2 DEF DeriveDefaultPolicy
  <2>4. CASE mode = "deny-all"
    BY <1>1, <1>5, <2>2, <2>4 DEF DeriveDefaultPolicy
  <2> QED BY <1>1, <2>1, <2>3, <2>4
<1> HIDE DEF rules
<1>4. ASSUME NEW r \in rules, r.resources # {}
      PROVE  /\ \E row \in answer.is.rows : row[1] = r
             /\ answer.is.left[r] = rules \ {r}
  <2> DEFINE rows == {row \in FlattenPolicyRules(rules) : row[1].id = r.id}
  <2>1. PICK a \in r.resources : TRUE
    BY <1>4
  <2>2. <<r, a>> \in FlattenPolicyRules(rules)
    BY <2>1 DEF FlattenPolicyRules
  <2>3. <<r, a>> \in rows
    BY <2>2
  <2>4. ASSUME NEW row \in rows PROVE row[1] = r
    <3>1. row[1] \in rules
      BY DEF FlattenPolicyRules
    <3> QED BY <1>2, <3>1
  <2>5. PolicyRemoveRule(rules, r.id) = rules \ {r}
    <3> DEFINE row == CHOOSE row \in rows : TRUE
               scope(s) == IF s.appliesTo = "all" THEN "" ELSE s.appliesTo
    <3>1. row \in rows
      BY <2>3
    <3>2. row[1] = r
      <4> HIDE DEF row, rows
      <4> QED BY <2>4, <3>1
    <3>3. PolicyRemoveRule(rules, r.id) = SbxPolicyRm(rules, DeriveRemovalScope(row), r.id)
      <4>1. rows # {}
        BY <2>3
      <4> QED BY <4>1, Zenon DEF PolicyRemoveRule
    <3>4. DeriveRemovalScope(row) = scope(r)
      <4> HIDE DEF row
      <4> QED BY <3>2 DEF DeriveRemovalScope
    <3>5. SbxPolicyRm(rules, scope(r), r.id) = rules \ {r}
      BY <1>2 DEF SbxPolicyRm
    <3> QED BY <3>3, <3>4, <3>5
  <2>6. answer.is.left[r] = rules \ {r}
    BY <1>1, <2>5
  <2>7. <<r, a>> \in answer.is.rows
    BY <1>1, <2>2
  <2> QED BY <2>6, <2>7
<1> QED BY <1>3, <1>4 DEF PoliciesRead, rules

---------------------------------------------------------------------------
(* The scan of what is pushed *)

LEMMA AskedScan ==
  ASSUME Inv, Asked("scan")
  PROVE  /\ answer.is.git \in Gits(question.diff)
         /\ IF answer.is.timeout THEN answer.is.findings # {}
            ELSE answer.is.findings = ScanCommitsInner(question.diff, answer.is.git)
<1> DEFINE all(git) == [git |-> git, timeout |-> FALSE,
                        findings |-> ScanCommitsInner(question.diff, git)]
           late(git) == [git |-> git, timeout |-> TRUE,
                         findings |-> {[file |-> <<>>, pattern |-> "timeout"]}]
<1>1. question.about = "scan"
  BY DEF Asked
<1>2. answer # Unanswered
  BY DEF Asked, Unanswered
<1>3. PICK git \in Gits(question.diff) :
        Answered("scan", all(git)) \/ Answered("scan", late(git))
  BY <1>1, <1>2 DEF Inv, RightlyAnswered, Answered
<1>4. answer.is \in {all(git), late(git)}
  <2>1. \A x : Answered("scan", x) => answer.is = x
    BY DEF Answered, Given
  <2> HIDE DEF all, late
  <2> QED BY <1>3, <2>1
<1>5. /\ all(git).git = git /\ ~all(git).timeout
      /\ all(git).findings = ScanCommitsInner(question.diff, git)
  OBVIOUS
<1>6. late(git).git = git /\ late(git).timeout /\ late(git).findings # {}
  OBVIOUS
<1> HIDE DEF all, late
<1> QED BY <1>3, <1>4, <1>5, <1>6

LEMMA ScanHolds == ASSUME Inv PROVE ScanRead
<1> SUFFICES ASSUME Asked("scan") PROVE ScanRead
  BY DEF ScanRead
<1> DEFINE git == answer.is.git  diff == question.diff
           before == Base(diff, git.base)  after == diff.after
           renames == git.renames  findings == answer.is.findings
           lines == {l \in Numstat(before, after, renames) : Range(l.path) \cap git.lost = {}}
           changed == {f \in Listed(git) : before[f] # after[f]}
           found(pattern) == {f.file[1] : f \in {f \in findings :
                                                f.pattern = pattern /\ Len(f.file) = 1}}
<1>0. SUFFICES ASSUME ~answer.is.timeout, git.base # "none"
               PROVE  /\ found("name") = {f \in changed : f \in {".env", "id.key"}}
                      /\ found("content") = {f \in changed \ git.unread :
                                               after[f] = "secret" /\ before[f] # "binary"}
  BY AskedScan DEF ScanRead, ScanCommitsInner
<1>1. /\ git \in Gits(diff)
      /\ findings = NameFindings(lines) \cup ContentFindings(lines, after, git.unread)
  BY <1>0, AskedScan DEF ScanCommitsInner
<1>2. renames \in Renames(before, after) /\ DOMAIN before = DOMAIN diff.before
  BY <1>1 DEF Gits, Base
<1>3. \A p \in renames : p = <<p[1], p[2]>>
  BY <1>2 DEF Renames
<1> HIDE DEF before, after, findings
<1>4. ASSUME NEW l \in lines, Len(l.path) = 1
      PROVE  l.path[1] \in changed /\ l.binary = ("binary" \in {before[l.path[1]], after[l.path[1]]})
  <2>1. \A p \in renames : l # NumstatLine(p, after[p[2]] = "binary")
    <3> SUFFICES ASSUME NEW p \in renames, l = NumstatLine(p, after[p[2]] = "binary") PROVE FALSE
      OBVIOUS
    <3>1. l.path = <<p[1], p[2]>>
      BY <1>3 DEF NumstatLine
    <3> QED BY <1>4, <3>1
  <2>2. PICK f \in DOMAIN before :
          /\ before[f] # after[f] /\ \A p \in renames : f \notin Range(p)
          /\ l = NumstatLine(<<f>>, "binary" \in {before[f], after[f]})
    BY <2>1 DEF Numstat
  <2>3. l.path = <<f>> /\ f \notin git.lost
    <3>1. l.path = <<f>> /\ f \in Range(<<f>>)
      BY <2>2 DEF NumstatLine, Range
    <3> QED BY <3>1
  <2>4. f \in changed
    BY <1>2, <2>2, <2>3 DEF Listed
  <2> QED BY <2>2, <2>4 DEF NumstatLine
<1>5. ASSUME NEW f \in changed
      PROVE  /\ NumstatLine(<<f>>, "binary" \in {before[f], after[f]}) \in lines
             /\ <<f>>[1] = f /\ Len(<<f>>) = 1
  <2> DEFINE l == NumstatLine(<<f>>, "binary" \in {before[f], after[f]})
  <2>1. l \in Numstat(before, after, renames)
    BY <1>2 DEF Listed, Numstat
  <2>2. l.path = <<f>> /\ Range(<<f>>) = {f} /\ f \notin git.lost
    BY DEF Listed, NumstatLine, Range
  <2> HIDE DEF l
  <2>3. l \in lines
    BY <2>1, <2>2
  <2> QED BY <2>3 DEF l
<1> HIDE DEF lines, changed
<1>6. found("name") = {f \in changed : f \in {".env", "id.key"}}
  <2>1. ASSUME NEW f \in changed, f \in {".env", "id.key"} PROVE f \in found("name")
    <3> DEFINE l == NumstatLine(<<f>>, "binary" \in {before[f], after[f]})
    <3>1. l \in lines /\ l.path = <<f>> /\ Len(l.path) = 1 /\ l.path[1] = f
      BY <1>5 DEF NumstatLine
    <3> HIDE DEF l
    <3>2. [file |-> l.path, pattern |-> "name"] \in NameFindings(lines)
      BY <2>1, <3>1 DEF NameFindings, FileOnly
    <3> QED BY <1>1, <3>1, <3>2
  <2>2. ASSUME NEW g \in findings, g.pattern = "name", Len(g.file) = 1
        PROVE  g.file[1] \in changed /\ g.file[1] \in {".env", "id.key"}
    <3>1. g \in NameFindings(lines)
      BY <1>1, <2>2 DEF ContentFindings
    <3>2. PICK l \in lines : g.file = l.path /\ (Len(l.path) = 1 => FileOnly(l.path[1]))
      BY <3>1 DEF NameFindings
    <3> QED BY <1>4, <2>2, <3>2 DEF FileOnly
  <2> QED BY <2>1, <2>2
<1>7. found("content") = {f \in changed \ git.unread : after[f] = "secret" /\ before[f] # "binary"}
  <2>1. ASSUME NEW f \in changed, f \notin git.unread, after[f] = "secret", before[f] # "binary"
        PROVE  f \in found("content")
    <3> DEFINE l == NumstatLine(<<f>>, "binary" \in {before[f], after[f]})
    <3>1. l \in lines /\ l.path = <<f>> /\ Len(l.path) = 1 /\ l.path[1] = f /\ ~l.binary
      BY <1>5, <2>1 DEF NumstatLine
    <3> HIDE DEF l
    <3>2. InContent(Shown(after[l.path[1]]))
      BY <2>1, <3>1 DEF InContent, Shown
    <3>3. [file |-> l.path, pattern |-> "content"] \in ContentFindings(lines, after, git.unread)
      BY <2>1, <3>1, <3>2 DEF ContentFindings
    <3> QED BY <1>1, <3>1, <3>3
  <2>2. ASSUME NEW g \in findings, g.pattern = "content", Len(g.file) = 1
        PROVE  /\ g.file[1] \in changed /\ g.file[1] \notin git.unread
               /\ after[g.file[1]] = "secret" /\ before[g.file[1]] # "binary"
    <3>1. g \in ContentFindings(lines, after, git.unread)
      BY <1>1, <2>2 DEF NameFindings
    <3>2. PICK l \in lines : /\ g.file = l.path /\ ~l.binary /\ l.path[1] \notin git.unread
                             /\ InContent(Shown(after[l.path[1]]))
      BY <3>1 DEF ContentFindings
    <3>3. after[l.path[1]] = "secret"
      BY <3>2 DEF InContent, Shown
    <3> QED BY <1>4, <2>2, <3>2, <3>3
  <2> QED BY <2>1, <2>2
<1> QED BY <1>6, <1>7

---------------------------------------------------------------------------
(* The name of a sandbox *)

LEMMA AskedCreate ==
  ASSUME Inv, Asked("create")
  PROVE  /\ \E out \in CreateOutputs : question.lines = out.lines /\ question.name = out.name
         /\ answer.is = ExtractSandboxName(question.lines)
<1>1. question \in Questions /\ question.about = "create"
  BY DEF Inv, Asked
<1>2. \E out \in CreateOutputs : question.lines = out.lines /\ question.name = out.name
  BY <1>1 DEF Questions
<1>3. answer # Unanswered
  BY DEF Asked, Unanswered
<1>4. Answered("create", ExtractSandboxName(question.lines))
  BY <1>1, <1>3 DEF Inv, RightlyAnswered, Answered
<1> QED BY <1>2, <1>4 DEF Answered, Given

\* The first and the last of some lines are among them.
LEMMA LineOf ==
  ASSUME NEW n \in Nat, NEW S \in SUBSET (1..n), S # {}
  PROVE  Topmost(S) \in S /\ Lowest(S) \in S
<1>1. \E m \in S : \A k \in S : m <= k
  <2>1. S \subseteq Nat
    OBVIOUS
  <2> QED BY <2>1, LeastNumber
<1>2. \E m \in S : \A k \in S : m >= k
  <2>1. Max(S) \in S /\ Max(S) \in Int /\ \A k \in S : k \in Int /\ k <= Max(S)
    BY MaxOfUpTo
  <2> QED BY <2>1
<1> QED BY <1>1, <1>2 DEF Topmost, Lowest

LEMMA NameHolds == ASSUME Inv PROVE NameRead
<1> SUFFICES ASSUME Asked("create") PROVE answer.is = question.name
  BY DEF NameRead
<1> DEFINE lines == question.lines  written == Written(lines)  created == Says(lines, "created")
           hints == Says(lines, "hint") \cup Says(lines, "old hint")
           named(S) == S # {} /\ \A i \in S : lines[i].name = question.name
<1>1. /\ lines \in Seq(Range(lines))
      /\ \/ named(created)
         \/ named(hints) /\ created = {}
         \/ /\ created = {} /\ hints = {} /\ written # {}
            /\ lines[Lowest(written)].name = question.name
      /\ answer.is = ExtractSandboxName(lines)
  BY AskedCreate, CreateAssumption
<1>2. /\ created \in SUBSET (1..Len(lines)) /\ hints \in SUBSET (1..Len(lines))
      /\ written \in SUBSET (1..Len(lines)) /\ Len(lines) \in Nat
      /\ \A i \in created : i \in written /\ lines[i].says # "word"
      /\ \A i \in hints : i \in written /\ lines[i].says # "word"
      /\ \A i \in Says(lines, "word") : lines[i].says = "word"
  <2>1. \A what : \A i \in Says(lines, what) : i \in DOMAIN lines /\ lines[i].says = what
    BY DEF Says
  <2>2. DOMAIN lines = 1..Len(lines) /\ Len(lines) \in Nat
    <3>1. lines \in Seq(Range(lines))
      BY <1>1, Zenon
    <3> QED BY <3>1
  <2>3. \A i \in DOMAIN lines : lines[i].says # "blank" => i \in written
    BY DEF Written, Says
  <2>4. \A i \in created : i \in DOMAIN lines /\ lines[i].says = "created"
    BY <2>1
  <2>5. \A i \in hints : i \in DOMAIN lines /\ lines[i].says \notin {"blank", "word"}
    <3>1. "old hint" # "blank" /\ "old hint" # "word" /\ "hint" # "blank" /\ "hint" # "word"
      BY Zenon
    <3>2. ASSUME NEW i \in hints PROVE i \in Says(lines, "hint") \/ i \in Says(lines, "old hint")
      BY Zenon
    <3> QED BY <2>1, <3>1, <3>2, Zenon
  <2>6. written \subseteq DOMAIN lines
    BY DEF Written
  <2>7. created \subseteq DOMAIN lines /\ hints \subseteq DOMAIN lines
    BY <2>4, <2>5, Zenon
  <2>8. \A i \in Says(lines, "word") : lines[i].says = "word"
    BY <2>1
  <2> HIDE DEF written, created, hints
  <2> QED BY <2>2, <2>3, <2>4, <2>5, <2>6, <2>7, <2>8
<1> HIDE DEF written, created, hints
<1> DEFINE single == Cardinality(written) = 1 /\ lines[Lowest(written)].says = "word"
<1>3. ExtractSandboxName(lines) =
        IF single THEN lines[Lowest(written)].name
        ELSE IF created # {} THEN lines[Topmost(created)].name
        ELSE IF hints # {} THEN lines[Lowest(hints)].name
        ELSE IF written # {} THEN lines[Lowest(written)].name ELSE ""
  BY DEF ExtractSandboxName, written, created, hints
<1>4. ASSUME NEW i \in written, lines[i].says # "word" PROVE ~single
  <2> SUFFICES ASSUME single PROVE FALSE
    OBVIOUS
  <2>1. Lowest(written) \in written
    BY <1>2, LineOf
  <2>2. PICK a : written = {a}
    <3>1. IsFiniteSet(written)
      <4>1. IsFiniteSet(1..Len(lines))
        <5>1. 1 \in Int /\ Len(lines) \in Int
          BY <1>2
        <5> QED BY <5>1, FS_Interval
      <4> QED BY <1>2, <4>1, FS_Subset
    <3> QED BY <3>1, FS_Singleton
  <2> QED BY <1>4, <2>1, <2>2
<1>5. CASE /\ created = {} /\ hints = {} /\ written # {}
           /\ lines[Lowest(written)].name = question.name
  BY <1>1, <1>3, <1>5
<1>6. CASE named(created)
  <2>1. Topmost(created) \in created
    BY <1>2, <1>6, LineOf
  <2> QED BY <1>1, <1>2, <1>3, <1>4, <1>6, <2>1
<1>7. CASE named(hints) /\ created = {}
  <2>1. Lowest(hints) \in hints
    BY <1>2, <1>7, LineOf
  <2> QED BY <1>1, <1>2, <1>3, <1>4, <1>7, <2>1
<1> QED BY <1>1, <1>5, <1>6, <1>7

---------------------------------------------------------------------------
(* The tables of sbx *)

LEMMA AskedTables ==
  ASSUME Inv, Asked("tables")
  PROVE  LET told == question.told
         IN  /\ told \in SbxTables
             /\ answer.is = [ports |-> ParsePortOutput(<<PortLine(<<"header">>, 0, None)>>
                                                       \o PrintedPorts(told.ports)),
                             secrets |-> ParseSecretLsText(PrintedSecrets(told.secrets)),
                             templates |-> ParseTemplateLsText(PrintedTemplates(told.templates))]
<1> DEFINE told == question.told
           is == [ports |-> ParsePortOutput(<<PortLine(<<"header">>, 0, None)>>
                                            \o PrintedPorts(told.ports)),
                  secrets |-> ParseSecretLsText(PrintedSecrets(told.secrets)),
                  templates |-> ParseTemplateLsText(PrintedTemplates(told.templates))]
<1>1. question \in Questions /\ question.about = "tables"
  BY DEF Inv, Asked
<1>2. told \in SbxTables
  BY <1>1 DEF Questions
<1>3. answer # Unanswered
  BY DEF Asked, Unanswered
<1>4. Answered("tables", is)
  BY <1>1, <1>3 DEF Inv, RightlyAnswered, Answered
<1> HIDE DEF is
<1>5. answer.is = is
  BY <1>4 DEF Answered, Given
<1> QED BY <1>2, <1>5 DEF is

\* Of a table, the rows are read and the headers are not.
LEMMA HeadersDropped ==
  ASSUME NEW heads, heads \in Seq(Range(heads)), NEW rows, rows \in Seq(Range(rows)), NEW S,
         \A i \in 1..Len(heads) : heads[i] \notin S,
         \A i \in 1..Len(rows) : rows[i] \in Range(heads \o rows) => rows[i] \in S
  PROVE  Filtered(heads \o rows, S) = rows
<1> DEFINE X == Range(heads) \cup Range(rows)
<1>1. heads \in Seq(X) /\ rows \in Seq(X)
  <2>1. Seq(Range(heads)) \subseteq Seq(X) /\ Seq(Range(rows)) \subseteq Seq(X)
    BY SeqMonotonic
  <2> QED BY <2>1
<1>2. \A i \in 1..Len(rows) : rows[i] \in Range(heads \o rows)
  <2> HIDE DEF X
  <2>1. Range(heads \o rows) = Range(heads) \cup Range(rows)
    BY <1>1, RangeConcatenation
  <2>2. \A i \in 1..Len(rows) : rows[i] \in Range(rows)
    BY <1>1, RangeEquality
  <2> QED BY <2>1, <2>2
<1>3. Filtered(heads \o rows, S) = Filtered(heads, S) \o Filtered(rows, S)
  <2> HIDE DEF X
  <2> QED BY <1>1, FilteredConcat
<1>4. Filtered(heads, S) = <<>>
  BY FilteredNone
<1>5. Filtered(rows, S) = rows
  BY <1>2, FilteredAll
<1> QED BY <1>3, <1>4, <1>5, ConcatEmptySeq

LEMMA AppendParts ==
  ASSUME NEW X, NEW s \in Seq(X), NEW x
  PROVE  /\ Len(Append(s, x)) = Len(s) + 1
         /\ Front(Append(s, x)) = s /\ Last(Append(s, x)) = x
<1> DEFINE Y == X \cup {x}  t == Append(s, x)
<1>1. s \in Seq(Y) /\ x \in Y
  <2>1. Seq(X) \subseteq Seq(Y)
    BY SeqMonotonic
  <2> QED BY <2>1
<1> HIDE DEF Y
<1>2. t \in Seq(Y) /\ Len(t) = Len(s) + 1 /\ t[Len(s) + 1] = x /\ \A i \in 1..Len(s) : t[i] = s[i]
  BY <1>1, AppendProperties
<1> HIDE DEF t
<1>3. SubSeq(t, 1, Len(s)) = s
  <2>1. 1 \in Int /\ Len(s) \in Int /\ Len(s) \in Nat
    OBVIOUS
  <2>2. \A i \in 1..Len(s) : t[i] \in Y
    BY <1>2
  <2>3. /\ SubSeq(t, 1, Len(s)) \in Seq(Y) /\ Len(SubSeq(t, 1, Len(s))) = Len(s)
        /\ \A i \in 1..Len(s) : SubSeq(t, 1, Len(s))[i] = t[i]
    BY <2>1, <2>2, SubSeqProperties
  <2> HIDE DEF t
  <2> QED BY <1>1, <1>2, <2>3, SeqEqual
<1>4. (Len(s) + 1) - 1 = Len(s)
  OBVIOUS
<1> QED BY <1>2, <1>3, <1>4 DEF Front, Last, t

LEMMA PortsHold ==
  ASSUME NEW told \in SbxTables
  PROVE  ParsePortOutput(<<PortLine(<<"header">>, 0, None)>> \o PrintedPorts(told.ports)) = told.ports
<1> DEFINE ports == told.ports  heads == <<PortLine(<<"header">>, 0, None)>>
           rows == PrintedPorts(ports)  lines == heads \o rows
           S == {line \in Range(lines) : /\ Len(line.left) > 1
                                         /\ Last(line.left) > 0 /\ line.right > 0}
           good == Filtered(lines, S)
           mapping(line) ==
             [ip |-> Front(line.left), host |-> Last(line.left), box |-> line.right,
              protocol |-> IF line.protocol = None THEN "tcp" ELSE line.protocol]
<1>1. /\ ports \in Seq(Range(ports))
      /\ \A p \in Range(ports) :
             /\ p = [ip |-> p.ip, host |-> p.host, box |-> p.box, protocol |-> p.protocol]
             /\ p.ip \in Seq(Range(p.ip)) \ {<<>>} /\ p.host \in Nat \ {0} /\ p.box \in Nat \ {0}
             /\ p.protocol # None
  BY TablesAssumption
<1>2. /\ Len(ports) \in Nat /\ DOMAIN ports = 1..Len(ports)
      /\ \A i \in 1..Len(ports) : ports[i] \in Range(ports)
  BY <1>1 DEF Range
<1> HIDE DEF ports
<1>3. /\ DOMAIN rows = 1..Len(ports) /\ Len(rows) = Len(ports) /\ rows \in Seq(Range(rows))
      /\ \A i \in 1..Len(ports) :
           /\ rows[i].left = Append(ports[i].ip, ports[i].host) /\ rows[i].right = ports[i].box
           /\ rows[i].protocol = IF ports[i].protocol = "tcp" THEN None ELSE ports[i].protocol
  <2>1. /\ DOMAIN rows = 1..Len(ports)
        /\ \A i \in 1..Len(ports) :
             rows[i] = PortLine(Append(ports[i].ip, ports[i].host), ports[i].box,
                                IF ports[i].protocol = "tcp" THEN None ELSE ports[i].protocol)
        /\ rows = [i \in 1..Len(ports) |-> rows[i]]
    BY <1>2 DEF PrintedPorts
  <2> HIDE DEF rows
  <2>2. rows \in Seq(Range(rows)) /\ Len(rows) = Len(ports)
    <3>1. \A i \in 1..Len(ports) : rows[i] \in Range(rows)
      BY <2>1 DEF Range
    <3> QED BY <1>2, <2>1, <3>1
  <2>4. ASSUME NEW i \in 1..Len(ports)
        PROVE  /\ rows[i].left = Append(ports[i].ip, ports[i].host) /\ rows[i].right = ports[i].box
               /\ rows[i].protocol = IF ports[i].protocol = "tcp" THEN None ELSE ports[i].protocol
    <3> DEFINE l == Append(ports[i].ip, ports[i].host)  b == ports[i].box
               q == IF ports[i].protocol = "tcp" THEN None ELSE ports[i].protocol
    <3>1. rows[i] = PortLine(l, b, q)
      BY <2>1
    <3> HIDE DEF l, b, q
    <3>2. rows[i].left = l /\ rows[i].right = b /\ rows[i].protocol = q
      BY <3>1 DEF PortLine
    <3> QED BY <3>2 DEF l, b, q
  <2> QED BY <2>1, <2>2, <2>4
<1>4. ASSUME NEW i \in 1..Len(ports)
      PROVE  /\ Len(rows[i].left) > 1 /\ Last(rows[i].left) > 0 /\ rows[i].right > 0
             /\ mapping(rows[i]) = ports[i]
  <2> DEFINE p == ports[i]
  <2>1. p \in Range(ports)
    BY <1>2
  <2>2. /\ p = [ip |-> p.ip, host |-> p.host, box |-> p.box, protocol |-> p.protocol]
        /\ p.ip \in Seq(Range(p.ip)) /\ p.ip # <<>> /\ p.host \in Nat \ {0} /\ p.box \in Nat \ {0}
        /\ p.protocol # None
    BY <1>1, <2>1
  <2> HIDE DEF p
  <2>3. /\ rows[i].left = Append(p.ip, p.host) /\ rows[i].right = p.box
        /\ rows[i].protocol = IF p.protocol = "tcp" THEN None ELSE p.protocol
    BY <1>3 DEF p
  <2>4. /\ Len(rows[i].left) = Len(p.ip) + 1
        /\ Front(rows[i].left) = p.ip /\ Last(rows[i].left) = p.host
    BY <2>2, <2>3, AppendParts
  <2>5. Len(p.ip) \in Nat /\ Len(p.ip) # 0
    BY <2>2
  <2> HIDE DEF rows
  <2>6. Len(rows[i].left) > 1 /\ Last(rows[i].left) > 0 /\ rows[i].right > 0
    BY <2>2, <2>3, <2>4, <2>5
  <2>7. mapping(rows[i]) = p
    BY <2>2, <2>3, <2>4
  <2> QED BY <2>6, <2>7 DEF p
<1>5. heads \in Seq(Range(heads)) /\ \A i \in 1..Len(heads) : heads[i] \notin S
  BY DEF PortLine, Range
<1> HIDE DEF heads, rows
<1>6. good = rows
  <2>1. \A i \in 1..Len(rows) : rows[i] \in Range(heads \o rows) => rows[i] \in S
    BY <1>3, <1>4
  <2> HIDE DEF S
  <2> QED BY <1>3, <1>5, <2>1, HeadersDropped
<1>7. ParsePortOutput(lines) = [i \in DOMAIN good |-> mapping(good[i])]
  BY DEF ParsePortOutput
<1> HIDE DEF lines, mapping, good
<1>8. [i \in DOMAIN rows |-> mapping(rows[i])] = ports
  <2>1. ports = [i \in 1..Len(ports) |-> ports[i]]
    BY <1>1, <1>2
  <2> QED BY <1>3, <1>4, <2>1
<1> QED BY <1>6, <1>7, <1>8 DEF lines, heads, rows, ports

\* The lines of what is kept are those of the lines that are kept.
Corresponds(X, S, g, V) == \A x \in X : x \in S <=> g[x] \in V
Matched(seq, S, g, V) ==
  \E X, Z : seq \in Seq(X) /\ g \in [X -> Z] /\ Corresponds(X, S, g, V)
Mapped(g, s) == [i \in 1..Len(s) |-> g[s[i]]]
LEMMA FilteredImage ==
  ASSUME NEW seq, NEW S, NEW g, NEW V, Matched(seq, S, g, V)
  PROVE  Filtered(Mapped(g, seq), V) = Mapped(g, Filtered(seq, S))
<1>0. PICK X, Z : seq \in Seq(X) /\ g \in [X -> Z] /\ Corresponds(X, S, g, V)
  BY DEF Matched
<1> DEFINE n == Len(seq)  rows == [k \in 1..n |-> g[seq[k]]]
<1>1. PICK u \in [0..n -> Seq(X)] : Filters(u, seq, S) /\ Filtered(seq, S) = u[n]
  BY <1>0, FilteredTrace
<1> DEFINE t == [k \in 0..n |-> [i \in 1..Len(u[k]) |-> g[u[k][i]]]]
<1>2. n \in Nat /\ \A k \in 1..n : seq[k] \in X
  BY <1>0
<1> HIDE DEF n
<1>3. rows \in Seq(Z) /\ Len(rows) = n /\ \A k \in 1..n : rows[k] = g[seq[k]]
  BY <1>0, <1>2
<1> HIDE DEF rows
<1>4. ASSUME NEW k \in 0..n
      PROVE  /\ t[k] \in Seq(Z) /\ Len(t[k]) = Len(u[k])
             /\ \A i \in 1..Len(u[k]) : t[k][i] = g[u[k][i]]
  <2>1. u[k] \in Seq(X)
    BY <1>1
  <2>2. t[k] = [i \in 1..Len(u[k]) |-> g[u[k][i]]]
    OBVIOUS
  <2> HIDE DEF t
  <2> QED BY <1>0, <2>1, <2>2
<1> HIDE DEF t
<1>5. t[0] = <<>>
  <2>1. 0 \in 0..n /\ u[0] = <<>>
    BY <1>1, <1>2 DEF Filters
  <2>2. Len(t[0]) = 0 /\ t[0] \in Seq(Z)
    BY <1>4, <2>1
  <2> QED BY <2>2
<1>6. ASSUME NEW k \in 1..n
      PROVE  t[k] = IF rows[k] \in V THEN Append(t[k - 1], rows[k]) ELSE t[k - 1]
  <2>1. k \in 0..n /\ k - 1 \in 0..n /\ seq[k] \in X
    BY <1>2
  <2>2. u[k] = IF seq[k] \in S THEN Append(u[k - 1], seq[k]) ELSE u[k - 1]
    BY <1>1 DEF Filters, n
  <2>3. u[k] \in Seq(X) /\ u[k - 1] \in Seq(X)
    BY <1>1, <2>1
  <2>4. rows[k] \in V <=> seq[k] \in S
    BY <1>0, <1>3, <2>1 DEF Corresponds
  <2> DEFINE m == Len(u[k - 1])
  <2>5. /\ t[k - 1] \in Seq(Z) /\ Len(t[k - 1]) = m
        /\ \A i \in 1..m : t[k - 1][i] = g[u[k - 1][i]]
    BY <1>4, <2>1
  <2>6. /\ t[k] \in Seq(Z) /\ Len(t[k]) = Len(u[k])
        /\ \A i \in 1..Len(u[k]) : t[k][i] = g[u[k][i]]
    BY <1>4, <2>1
  <2>7. CASE seq[k] \in S
    <3>1. u[k] = Append(u[k - 1], seq[k])
      BY <2>2, <2>7
    <3>2. Len(u[k]) = m + 1 /\ u[k][m + 1] = seq[k] /\ m \in Nat
          /\ \A i \in 1..m : u[k][i] = u[k - 1][i]
      BY <2>1, <2>3, <3>1, AppendProperties
    <3>3. rows[k] \in Z /\ rows[k] = g[seq[k]]
      BY <1>3, <2>1
    <3> DEFINE a == Append(t[k - 1], rows[k])  s == t[k - 1]  e == rows[k]  b == t[k]
    <3>4. /\ a \in Seq(Z) /\ Len(a) = m + 1 /\ a[m + 1] = e /\ \A i \in 1..m : a[i] = s[i]
      <4>1. s \in Seq(Z) /\ Len(s) = m /\ e \in Z /\ a = Append(s, e)
        BY <2>5, <3>3
      <4> HIDE DEF a, s, e, m
      <4> QED BY <4>1, AppendProperties
    <3>5. b \in Seq(Z) /\ Len(b) = m + 1 /\ b[m + 1] = e /\ \A i \in 1..m : b[i] = s[i]
      <4>1. 1..(m + 1) = 1..Len(u[k]) /\ m + 1 \in 1..(m + 1)
        BY <3>2
      <4>2. \A i \in 1..m : i \in 1..(m + 1)
        BY <3>2
      <4>3. b[m + 1] = g[u[k][m + 1]] /\ Len(b) = m + 1 /\ b \in Seq(Z)
        BY <2>6, <3>2, <4>1
      <4>4. ASSUME NEW i \in 1..m PROVE b[i] = s[i]
        <5>1. b[i] = g[u[k][i]]
          BY <2>6, <4>1, <4>2
        <5>2. s[i] = g[u[k - 1][i]]
          BY <2>5
        <5> QED BY <3>2, <5>1, <5>2
      <4> QED BY <3>2, <3>3, <4>3, <4>4
    <3>6. b = a
      <4> HIDE DEF a, s, e, b, m
      <4>1. \A i \in 1..(m + 1) : i \in 1..m \/ i = m + 1
        BY <3>2
      <4>2. \A i \in 1..Len(b) : b[i] = a[i]
        BY <3>4, <3>5, <4>1
      <4> QED BY <3>4, <3>5, <4>2, SeqEqual
    <3> QED BY <2>4, <2>7, <3>6
  <2>8. CASE seq[k] \notin S
    <3>1. u[k] = u[k - 1]
      BY <2>2, <2>8
    <3>2. \A i \in 1..Len(t[k]) : t[k][i] = t[k - 1][i]
      BY <2>5, <2>6, <3>1
    <3> DEFINE s == t[k - 1]  b == t[k]
    <3>3. s \in Seq(Z) /\ b \in Seq(Z) /\ Len(b) = Len(s) /\ \A i \in 1..Len(b) : b[i] = s[i]
      BY <2>5, <2>6, <3>1, <3>2
    <3>4. b = s
      <4> HIDE DEF s, b
      <4> QED BY <3>3, SeqEqual
    <3> QED BY <2>4, <2>8, <3>4
  <2> QED BY <2>7, <2>8
<1>7. Filtered(rows, V) = t[n]
  <2>1. Filters(t, rows, V)
    BY <1>3, <1>5, <1>6 DEF Filters
  <2> QED BY <1>3, <2>1, FilteredIs
<1>8. t[n] = [i \in 1..Len(u[n]) |-> g[u[n][i]]]
  <2>1. n \in 0..n
    BY <1>2
  <2> QED BY <2>1 DEF t
<1> QED BY <1>1, <1>7, <1>8 DEF rows, n, Mapped

\* Of a table, the lines of its rows are read and the headers are not.
Foreign(heads, V) == \A i \in 1..Len(heads) : heads[i] \notin V
LEMMA RowsRead ==
  ASSUME NEW heads, heads \in Seq(Range(heads)), NEW seq, NEW g, NEW S, NEW V,
         Foreign(heads, V) /\ Matched(seq, S, g, V)
  PROVE  Filtered(heads \o Mapped(g, seq), V) = Mapped(g, Filtered(seq, S))
<1>0. PICK X, Z : seq \in Seq(X) /\ g \in [X -> Z] /\ Corresponds(X, S, g, V)
  BY DEF Matched
<1> DEFINE rows == Mapped(g, seq)  Y == Range(heads) \cup Z
           kept == Filtered(seq, S)  read == Mapped(g, kept)
<1>1. rows \in Seq(Z) /\ kept \in Seq(X \cap S)
  <2>1. Len(seq) \in Nat /\ \A k \in 1..Len(seq) : seq[k] \in X
    BY <1>0
  <2> QED BY <1>0, <2>1, FilteredType DEF Mapped
<1>2. heads \in Seq(Y) /\ rows \in Seq(Y)
  <2>1. Seq(Range(heads)) \subseteq Seq(Y) /\ Seq(Z) \subseteq Seq(Y)
    BY SeqMonotonic
  <2> QED BY <1>1, <2>1
<1>3. Filtered(rows, V) = read
  BY FilteredImage
<1>4. read \in Seq(Z)
  <2>1. Len(kept) \in Nat /\ \A i \in 1..Len(kept) : kept[i] \in X
    BY <1>1
  <2> QED BY <1>0, <2>1 DEF Mapped
<1>5. Filtered(heads, V) = <<>>
  BY FilteredNone DEF Foreign
<1> HIDE DEF rows, Y, kept, read
<1>6. Filtered(heads \o rows, V) = Filtered(heads, V) \o Filtered(rows, V)
  BY <1>2, FilteredConcat
<1>7. <<>> \o read = read
  BY <1>4, ConcatEmptySeq
<1> QED BY <1>3, <1>5, <1>6, <1>7 DEF rows, kept, read

\* The parts of a line of secrets, and of one of templates.
LEMMA SecretLineIs ==
  ASSUME NEW s, s.shown \in Seq(Range(s.shown))
  PROVE  LET line == SecretLine(s)
         IN  /\ Len(line) = 3 + Len(s.shown) /\ DOMAIN line = 1..Len(line) /\ Len(s.shown) \in Nat
             /\ line[1] = <<"(global)">> /\ line[2] = <<"service">> /\ line[3] = s.service
             /\ \A k \in 4..Len(line) : line[k] = s.shown[k - 3]
<1> DEFINE a == <<"(global)">>  b == <<"service">>  c == s.service
           Y == {a, b, c} \cup Range(s.shown)  line == SecretLine(s)
<1>1. <<a, b, c>> \in Seq(Y) /\ s.shown \in Seq(Y)
  <2>1. Seq(Range(s.shown)) \subseteq Seq(Y)
    BY SeqMonotonic
  <2> HIDE DEF a, b, c
  <2> QED BY <2>1
<1>2. line = <<a, b, c>> \o s.shown
  BY DEF SecretLine
<1> HIDE DEF Y, line, a, b, c
<1>3. /\ line \in Seq(Y) /\ Len(line) = 3 + Len(s.shown) /\ Len(s.shown) \in Nat
      /\ \A k \in 1..(3 + Len(s.shown)) :
           line[k] = IF k <= 3 THEN <<a, b, c>>[k] ELSE s.shown[k - 3]
  BY <1>1, <1>2, ConcatProperties
<1>4. line[1] = a /\ line[2] = b /\ line[3] = c
  BY <1>3
<1>5. \A k \in 4..Len(line) : line[k] = s.shown[k - 3]
  BY <1>3
<1> QED BY <1>3, <1>4, <1>5 DEF line, a, b, c

LEMMA TemplateLineIs ==
  ASSUME NEW t, t.created \in Seq(Range(t.created))
  PROVE  LET line == TemplateLine(t)
         IN  /\ Len(line) = 2 + Len(t.created) /\ DOMAIN line = 1..Len(line)
             /\ Len(t.created) \in Nat /\ line[1] = t.tag /\ line[2] = t.size
             /\ SubSeq(line, 3, Len(line)) = t.created
<1> DEFINE Y == {t.tag, t.size} \cup Range(t.created)  line == TemplateLine(t)
<1>1. <<t.tag, t.size>> \in Seq(Y) /\ t.created \in Seq(Y)
  <2>1. Seq(Range(t.created)) \subseteq Seq(Y)
    BY SeqMonotonic
  <2> QED BY <2>1
<1>2. line = <<t.tag, t.size>> \o t.created
  BY DEF TemplateLine
<1> HIDE DEF Y, line
<1>3. /\ line \in Seq(Y) /\ Len(line) = 2 + Len(t.created) /\ Len(t.created) \in Nat
      /\ line[1] = t.tag /\ line[2] = t.size
      /\ \A k \in 3..(Len(t.created) + 2) : line[k] = t.created[k - 2]
  BY <1>1, <1>2
<1>4. SubSeq(line, 3, Len(line)) = t.created
  <2> DEFINE m == Len(line)  sub == SubSeq(line, 3, m)
  <2>1. 3 \in Int /\ m \in Int /\ \A k \in 3..m : line[k] \in Y
    BY <1>3
  <2>2. /\ sub \in Seq(Y) /\ Len(sub) = IF 3 <= m THEN (m - 3) + 1 ELSE 0
        /\ \A k \in 1..((m - 3) + 1) : sub[k] = line[3 + k - 1]
    BY <2>1, SubSeqProperties
  <2> HIDE DEF sub
  <2>3. Len(sub) = Len(t.created)
    BY <1>3, <2>2
  <2>4. ASSUME NEW k \in 1..Len(sub) PROVE sub[k] = t.created[k]
    <3>1. k \in 1..((m - 3) + 1) /\ 3 + k - 1 \in 3..(Len(t.created) + 2) /\ (3 + k - 1) - 2 = k
      BY <1>3, <2>3
    <3> QED BY <1>3, <2>2, <3>1
  <2>5. sub = t.created
    BY <1>1, <2>2, <2>3, <2>4, SeqEqual
  <2> QED BY <2>5 DEF sub
<1> QED BY <1>3, <1>4 DEF line

LEMMA SecretsHold ==
  ASSUME NEW told \in SbxTables
  PROVE  LET read == ParseSecretLsText(PrintedSecrets(told.secrets))
             listed == Filtered(told.secrets,
                                {s \in Range(told.secrets) : Plain(SecretLine(s), {Ruled})})
         IN  /\ DOMAIN read = DOMAIN listed
             /\ \A i \in DOMAIN listed :
                  /\ read[i].service = listed[i].service
                  /\ \/ read[i].configured = listed[i].configured
                     \/ ~listed[i].configured /\ Holds(listed[i].shown, "configured")
<1> DEFINE secrets == told.secrets  X == Range(secrets)
           S == {s \in X : Plain(SecretLine(s), {Ruled})}
           listed == Filtered(secrets, S)
           heads == <<<<<<"SCOPE">>, <<"TYPE">>, <<"NAME">>, <<"SECRET">>>>, <<<<Ruled>>>>>>
           g == [s \in X |-> SecretLine(s)]  Z == {SecretLine(s) : s \in X}
           rows == [i \in 1..Len(secrets) |-> g[secrets[i]]]
           lines == heads \o rows
           V == {line \in Range(lines) : /\ line # <<>> /\ ~Holds(line, Ruled)
                                         /\ line[1] # <<"SCOPE">> /\ Len(line) >= 3}
           kept == Filtered(lines, V)
           secret(row) ==
             [service |-> row[3],
              configured |-> \E k \in 4..Len(row) : "configured" \in Range(row[k])]
<1>1. /\ secrets \in Seq(X)
      /\ \A s \in X : /\ s.configured \in BOOLEAN /\ s.shown \in Seq(Range(s.shown))
                      /\ s.configured => Holds(s.shown, "configured")
  BY TablesAssumption
<1>2. /\ DOMAIN secrets = 1..Len(secrets) /\ Len(secrets) \in Nat
      /\ \A i \in 1..Len(secrets) : secrets[i] \in X
  <2> HIDE DEF secrets
  <2> QED BY <1>1
<1>3. PrintedSecrets(secrets) = lines
  <2>1. [i \in DOMAIN secrets |-> SecretLine(secrets[i])] = rows
    <3> HIDE DEF secrets, X
    <3> QED BY <1>2
  <2> QED BY <2>1 DEF PrintedSecrets
<1> HIDE DEF secrets
<1>4. heads \in Seq(Range(heads)) /\ Len(heads) = 2 /\ heads[1][1] = <<"SCOPE">>
      /\ heads[2] = <<<<Ruled>>>>
  BY DEF Range
<1>5. Holds(heads[2], Ruled)
  BY <1>4 DEF Holds, Range
<1> HIDE DEF heads
<1>6. \A i \in 1..Len(heads) : heads[i] \notin V
  <2>1. \A i \in 1..2 : i = 1 \/ i = 2
    OBVIOUS
  <2> HIDE DEF lines
  <2> QED BY <1>4, <1>5, <2>1
<1>7. g \in [X -> Z]
  OBVIOUS
<1>8. ASSUME NEW s \in X
      PROVE  /\ g[s] = SecretLine(s)
             /\ g[s] # <<>> /\ g[s][1] # <<"SCOPE">> /\ Len(g[s]) >= 3
             /\ secret(g[s]).service = s.service
             /\ secret(g[s]).configured <=> Holds(s.shown, "configured")
  <2> DEFINE line == SecretLine(s)
  <2>1. /\ Len(line) = 3 + Len(s.shown) /\ DOMAIN line = 1..Len(line) /\ Len(s.shown) \in Nat
        /\ line[1] = <<"(global)">> /\ line[3] = s.service
        /\ \A k \in 4..Len(line) : line[k] = s.shown[k - 3]
        /\ s.shown \in Seq(Range(s.shown))
    BY <1>1, SecretLineIs
  <2>2. g[s] = line
    OBVIOUS
  <2> HIDE DEF line, g
  <2>3. line # <<>> /\ line[1] # <<"SCOPE">> /\ Len(line) >= 3
    BY <2>1
  <2>4. (\E k \in 4..Len(line) : "configured" \in Range(line[k])) <=> Holds(s.shown, "configured")
    <3>1. ASSUME NEW k \in 4..Len(line), "configured" \in Range(line[k])
          PROVE  Holds(s.shown, "configured")
      <4>1. k - 3 \in DOMAIN s.shown /\ line[k] = s.shown[k - 3]
        BY <2>1
      <4> QED BY <3>1, <4>1 DEF Holds
    <3>2. ASSUME NEW j \in DOMAIN s.shown, "configured" \in Range(s.shown[j])
          PROVE  \E k \in 4..Len(line) : "configured" \in Range(line[k])
      <4>1. j + 3 \in 4..Len(line) /\ (j + 3) - 3 = j
        BY <2>1
      <4>2. line[j + 3] = s.shown[j]
        BY <2>1, <4>1
      <4> QED BY <3>2, <4>1, <4>2
    <3> QED BY <3>1, <3>2 DEF Holds
  <2> QED BY <2>1, <2>2, <2>3, <2>4 DEF line
<1>9. \A s \in X : s \in S <=> g[s] \in V
  <2>1. \A s \in X : g[s] \in Range(lines)
    <3>1. rows \in Seq(Z) /\ Len(rows) = Len(secrets)
      BY <1>2
    <3>2. Range(heads \o rows) = Range(heads) \cup Range(rows)
      <4>1. Seq(Range(heads)) \subseteq Seq(Range(heads) \cup Z) /\ Seq(Z) \subseteq Seq(Range(heads) \cup Z)
        BY SeqMonotonic
      <4> HIDE DEF rows, Z
      <4> QED BY <1>4, <3>1, <4>1, RangeConcatenation
    <3>3. ASSUME NEW s \in X PROVE g[s] \in Range(rows)
      <4>1. PICK i \in 1..Len(secrets) : s = secrets[i]
        BY <1>2 DEF Range
      <4>2. i \in DOMAIN rows /\ rows[i] = g[s]
        BY <4>1
      <4> HIDE DEF rows
      <4> QED BY <4>2 DEF Range
    <3> QED BY <3>2, <3>3
  <2>2. \A s \in X : s \in S <=> ~Holds(SecretLine(s), Ruled)
    BY DEF Plain
  <2> HIDE DEF g, lines, S, secret
  <2> QED BY <1>8, <2>1, <2>2
<1>10. kept = [i \in 1..Len(listed) |-> g[listed[i]]]
  <2> HIDE DEF g, S, V, X, Z
  <2>1. Foreign(heads, V)
    BY <1>6 DEF Foreign
  <2>2. Matched(secrets, S, g, V)
    BY <1>1, <1>7, <1>9 DEF Matched, Corresponds
  <2>3. Filtered(heads \o Mapped(g, secrets), V) = Mapped(g, Filtered(secrets, S))
    <3> HIDE DEF heads
    <3> QED BY <1>4, <2>1, <2>2, RowsRead
  <2> QED BY <2>3 DEF Mapped
<1>11. listed \in Seq(X) /\ DOMAIN listed = 1..Len(listed) /\ \A i \in 1..Len(listed) : listed[i] \in X
  <2>1. listed \in Seq(X \cap S) /\ X \cap S \subseteq X
    <3> HIDE DEF S
    <3> QED BY <1>1, FilteredType
  <2> HIDE DEF listed, S
  <2> QED BY <2>1
<1>12. ParseSecretLsText(lines) = [i \in DOMAIN kept |-> secret(kept[i])]
  BY DEF ParseSecretLsText
<1> HIDE DEF kept, listed, lines, secret, g, V, rows
<1>13. ASSUME NEW i \in 1..Len(listed)
       PROVE  /\ secret(kept[i]).service = listed[i].service
              /\ \/ secret(kept[i]).configured = listed[i].configured
                 \/ ~listed[i].configured /\ Holds(listed[i].shown, "configured")
  <2>1. kept[i] = g[listed[i]] /\ listed[i] \in X
    BY <1>10, <1>11
  <2>2. secret(g[listed[i]]).configured \in BOOLEAN
    BY DEF secret
  <2> QED BY <1>1, <1>8, <2>1, <2>2
<1>14. DOMAIN kept = 1..Len(listed)
  BY <1>10
<1> QED BY <1>3, <1>11, <1>12, <1>13, <1>14 DEF secrets, listed

LEMMA TemplatesHold ==
  ASSUME NEW told \in SbxTables
  PROVE  LET plain == {t \in Range(told.templates) : Plain(TemplateLine(t), TemplateMarks)}
         IN  \E rows \in SUBSET Range(told.templates) :
               /\ plain \subseteq rows
               /\ ParseTemplateLsText(PrintedTemplates(told.templates))
                    = Filtered(told.templates, rows)
<1> DEFINE templates == told.templates  X == Range(templates)
           S == {t \in X : TemplateRow(TemplateLine(t))}
           listed == Filtered(templates, S)
           none == <<<<"No">>, <<"template", "s">>, <<"found.">>>>
           header == <<<<"TAG">>, <<"SIZE">>, <<"CREATED">>>>
           heads == IF templates = <<>> THEN <<none>> ELSE <<header>>
           g == [t \in X |-> TemplateLine(t)]  Z == {TemplateLine(t) : t \in X}
           rows == [i \in 1..Len(templates) |-> g[templates[i]]]
           lines == heads \o rows
           V == {line \in Range(lines) : TemplateRow(line)}
           kept == Filtered(lines, V)
           template(row) ==
             [tag |-> row[1], size |-> IF Len(row) < 2 THEN None ELSE row[2],
              created |-> SubSeq(row, 3, Len(row))]
<1>1. /\ templates \in Seq(X)
      /\ \A t \in X : /\ t = [tag |-> t.tag, size |-> t.size, created |-> t.created]
                      /\ t.created \in Seq(Range(t.created))
                      /\ \A w \in Range(TemplateLine(t)) : w \in Seq(Range(w)) /\ w # <<>>
  BY TablesAssumption
<1>2. /\ DOMAIN templates = 1..Len(templates) /\ Len(templates) \in Nat
      /\ \A i \in 1..Len(templates) : templates[i] \in X
  <2> HIDE DEF templates
  <2> QED BY <1>1
<1> HIDE DEF templates
<1>3. PrintedTemplates(templates) = lines
  <2>1. [i \in DOMAIN templates |-> TemplateLine(templates[i])] = rows
    <3> HIDE DEF X
    <3> QED BY <1>2
  <2>2. CASE templates = <<>>
    <3>1. rows = <<>>
      BY <2>2
    <3>2. heads \in Seq({none})
      <4> HIDE DEF none
      <4> QED BY <2>2
    <3> HIDE DEF rows, heads
    <3>3. heads \o rows = heads
      BY <3>1, <3>2, ConcatEmptySeq
    <3> QED BY <2>2, <3>3 DEF PrintedTemplates, heads
  <2>3. CASE templates # <<>>
    <3> HIDE DEF rows
    <3> QED BY <2>1, <2>3, Zenon DEF PrintedTemplates
  <2> QED BY <2>2, <2>3
<1>4. heads \in Seq(Range(heads)) /\ \A i \in 1..Len(heads) : ~TemplateRow(heads[i])
  <2>1. ~TemplateRow(none)
    <3>1. 3 \in DOMAIN none /\ none[3] = <<"found.">>
      OBVIOUS
    <3>2. "found." \in Range(<<"found.">>)
      BY DEF Range
    <3> HIDE DEF none
    <3> QED BY <3>1, <3>2 DEF TemplateRow, Holds
  <2>2. ~TemplateRow(header)
    <3>1. header[1][1] = "TAG"
      OBVIOUS
    <3> HIDE DEF header
    <3> QED BY <3>1 DEF TemplateRow
  <2> HIDE DEF none, header
  <2>3. PICK x : heads = <<x>> /\ ~TemplateRow(x)
    BY <2>1, <2>2
  <2>4. <<x>> \in Seq({x}) /\ Len(<<x>>) = 1 /\ <<x>>[1] = x /\ DOMAIN <<x>> = {1}
    OBVIOUS
  <2>5. Range(<<x>>) = {x}
    BY <2>4 DEF Range
  <2> DEFINE y == <<x>>
  <2>6. /\ heads = y /\ y \in Seq({x}) /\ Range(y) = {x} /\ Len(y) = 1 /\ y[1] = x
    BY <2>3, <2>4, <2>5
  <2> HIDE DEF y, heads
  <2> QED BY <2>3, <2>6
<1> HIDE DEF heads
<1>6. \A i \in 1..Len(heads) : heads[i] \notin V
  <2> HIDE DEF lines
  <2> QED BY <1>4
<1>7. g \in [X -> Z]
  OBVIOUS
<1>8. ASSUME NEW t \in X PROVE g[t] = TemplateLine(t) /\ template(g[t]) = t
  <2> DEFINE line == TemplateLine(t)
  <2>1. /\ Len(line) = 2 + Len(t.created) /\ Len(t.created) \in Nat
        /\ line[1] = t.tag /\ line[2] = t.size /\ SubSeq(line, 3, Len(line)) = t.created
    BY <1>1, TemplateLineIs
  <2>2. g[t] = line
    OBVIOUS
  <2> HIDE DEF line, g
  <2>3. template(line) = [tag |-> t.tag, size |-> t.size, created |-> t.created]
    <3>1. ~(Len(line) < 2)
      BY <2>1
    <3> QED BY <2>1, <3>1, Zenon
  <2>4. t = [tag |-> t.tag, size |-> t.size, created |-> t.created]
    BY <1>1
  <2> HIDE DEF template
  <2> QED BY <2>2, <2>3, <2>4 DEF line
<1>9. \A t \in X : t \in S <=> g[t] \in V
  <2>1. \A t \in X : g[t] \in Range(lines)
    <3>1. rows \in Seq(Z) /\ Len(rows) = Len(templates)
      BY <1>2
    <3>2. Range(heads \o rows) = Range(heads) \cup Range(rows)
      <4>1. Seq(Range(heads)) \subseteq Seq(Range(heads) \cup Z) /\ Seq(Z) \subseteq Seq(Range(heads) \cup Z)
        BY SeqMonotonic
      <4> HIDE DEF rows, Z
      <4> QED BY <1>4, <3>1, <4>1, RangeConcatenation
    <3>3. ASSUME NEW t \in X PROVE g[t] \in Range(rows)
      <4>1. PICK i \in 1..Len(templates) : t = templates[i]
        BY <1>2 DEF Range
      <4>2. i \in DOMAIN rows /\ rows[i] = g[t]
        BY <4>1
      <4> HIDE DEF rows
      <4> QED BY <4>2 DEF Range
    <3> QED BY <3>2, <3>3
  <2>2. \A t \in X : g[t] = TemplateLine(t)
    OBVIOUS
  <2> HIDE DEF g, lines
  <2> QED BY <2>1, <2>2
<1>10. kept = [i \in 1..Len(listed) |-> g[listed[i]]]
  <2> HIDE DEF g, S, V, X, Z
  <2>1. Foreign(heads, V)
    BY <1>6 DEF Foreign
  <2>2. Matched(templates, S, g, V)
    BY <1>1, <1>7, <1>9 DEF Matched, Corresponds
  <2>3. Filtered(heads \o Mapped(g, templates), V) = Mapped(g, Filtered(templates, S))
    <3> HIDE DEF heads
    <3> QED BY <1>4, <2>1, <2>2, RowsRead
  <2> QED BY <2>3 DEF Mapped
<1>11. listed \in Seq(X) /\ \A i \in 1..Len(listed) : listed[i] \in X
  <2>1. listed \in Seq(X \cap S) /\ X \cap S \subseteq X
    <3> HIDE DEF S
    <3> QED BY <1>1, FilteredType
  <2> HIDE DEF listed, S
  <2> QED BY <2>1
<1>12. ParseTemplateLsText(lines) = [i \in DOMAIN kept |-> template(kept[i])]
  BY DEF ParseTemplateLsText
<1>13. ASSUME NEW t \in X, Plain(TemplateLine(t), TemplateMarks) PROVE TemplateRow(TemplateLine(t))
  <2> DEFINE line == TemplateLine(t)
  <2>1. /\ DOMAIN line = 1..Len(line) /\ Len(line) \in Nat /\ Len(line) >= 2
    BY <1>1, TemplateLineIs
  <2>2. \A w \in Range(line) : w \in Seq(Range(w)) /\ w # <<>>
    BY <1>1
  <2>3. Plain(line, TemplateMarks)
    BY <1>13
  <2> HIDE DEF line
  <2>4. \A k \in 1..Len(line) : line[k] \in Range(line)
    BY <2>1 DEF Range
  <2>5. ASSUME NEW w \in Range(line)
        PROVE  w[1] \in Range(w) /\ Last(w) \in Range(w) /\ Range(w) \cap TemplateMarks = {}
    <3>1. w \in Seq(Range(w)) /\ w # <<>>
      BY <2>2
    <3>2. Len(w) \in Nat /\ Len(w) >= 1 /\ DOMAIN w = 1..Len(w)
      BY <3>1
    <3>3. 1 \in DOMAIN w /\ Len(w) \in DOMAIN w
      BY <3>2
    <3>4. Range(w) \cap TemplateMarks = {}
      <4>1. PICK k \in DOMAIN line : w = line[k]
        BY DEF Range
      <4> QED BY <2>3, <4>1 DEF Plain, Holds
    <3> QED BY <3>3, <3>4 DEF Range, Last
  <2>6. line # <<>> /\ line[1] \in Range(line) /\ Last(line) \in Range(line)
    BY <2>1, <2>4 DEF Last
  <2>7. ~Holds(line, Ruled) /\ ~Holds(line, "found.")
    BY <2>3 DEF Plain, TemplateMarks
  <2>8. line[1][1] # "TAG" /\ Last(Last(line)) # "found"
    BY <2>5, <2>6 DEF TemplateMarks
  <2>9. \A k \in 2..Len(line) : /\ Last(line[k - 1]) \notin TemplateMarks
                                /\ line[k][1] \notin TemplateMarks
    <3> SUFFICES ASSUME NEW k \in 2..Len(line)
                 PROVE  Last(line[k - 1]) \notin TemplateMarks /\ line[k][1] \notin TemplateMarks
      OBVIOUS
    <3>1. k \in 1..Len(line) /\ k - 1 \in 1..Len(line)
      BY <2>1
    <3>2. line[k] \in Range(line) /\ line[k - 1] \in Range(line)
      BY <2>4, <3>1
    <3> QED BY <2>5, <3>2
  <2>10. ~Meet(line, "No", "template") /\ ~Meet(line, "no", "template") /\ ~Meet(line, "not", "found")
    BY <2>9 DEF Meet, TemplateMarks
  <2>11. TemplateRow(line)
    BY <2>6, <2>7, <2>8, <2>10 DEF TemplateRow
  <2> QED BY <2>11 DEF line
<1> HIDE DEF kept, listed, lines, template, g, V, rows
<1>14. [i \in DOMAIN kept |-> template(kept[i])] = listed
  <2>1. DOMAIN kept = 1..Len(listed) /\ \A i \in 1..Len(listed) : kept[i] = g[listed[i]]
    BY <1>10
  <2>2. \A i \in 1..Len(listed) : template(kept[i]) = listed[i]
    BY <1>8, <1>11, <2>1
  <2>3. listed = [i \in 1..Len(listed) |-> listed[i]]
    BY <1>11
  <2> QED BY <2>1, <2>2, <2>3
<1>15. S \in SUBSET X /\ {t \in X : Plain(TemplateLine(t), TemplateMarks)} \subseteq S
  BY <1>13
<1>16. ParseTemplateLsText(PrintedTemplates(templates)) = Filtered(templates, S)
  BY <1>3, <1>12, <1>14 DEF listed
<1> HIDE DEF S
<1> QED BY <1>15, <1>16 DEF templates

LEMMA TablesHold == ASSUME Inv PROVE TablesRead
<1> SUFFICES ASSUME Asked("tables") PROVE TablesRead
  BY DEF TablesRead
<1> DEFINE told == question.told
<1>1. told \in SbxTables
  BY AskedTables
<1>2. /\ answer.is.ports = ParsePortOutput(<<PortLine(<<"header">>, 0, None)>>
                                           \o PrintedPorts(told.ports))
      /\ answer.is.secrets = ParseSecretLsText(PrintedSecrets(told.secrets))
      /\ answer.is.templates = ParseTemplateLsText(PrintedTemplates(told.templates))
  BY AskedTables
<1> HIDE DEF told
<1>3. answer.is.ports = told.ports
  BY <1>1, <1>2, PortsHold
<1> QED BY <1>1, <1>2, <1>3, SecretsHold, TemplatesHold DEF told, TablesRead

---------------------------------------------------------------------------
(* The arguments of sbx *)

\* What sbx has read, and how it reads the next argument.
Read(want, kits, name, template, places, args, ended) ==
  [want |-> want, kits |-> kits, name |-> name, template |-> template,
   places |-> places, args |-> args, ended |-> ended]
Take(read, token) ==
  CASE read.want = "--kit" -> [read EXCEPT !.want = "", !.kits = Append(@, token)]
    [] read.want = "--name" -> [read EXCEPT !.want = "", !.name = token]
    [] read.want = "-t" -> [read EXCEPT !.want = "", !.template = token]
    [] read.ended -> [read EXCEPT !.args = Append(@, token)]
    [] OTHER ->
         IF token = <<"--">> THEN [read EXCEPT !.ended = TRUE]
         ELSE IF read.places = <<>> /\ token \in {<<"--kit">>, <<"--name">>, <<"-t">>}
         THEN [read EXCEPT !.want = token[1]]
         ELSE [read EXCEPT !.places = Append(@, token)]
Nothing == [want |-> "", kits |-> <<>>, name |-> None, template |-> None,
            places |-> <<>>, args |-> <<>>, ended |-> FALSE]
Reads(X) == [want : {"", "--kit", "--name", "-t"}, kits : Seq(X), name : X \cup {None},
             template : X \cup {None}, places : Seq(X), args : Seq(X), ended : BOOLEAN]

\* How each kind of argument is read.
LEMMA TakeKit ==
  \A k, x : Take(Read("--kit", k, None, None, <<>>, <<>>, FALSE), x)
              = Read("", Append(k, x), None, None, <<>>, <<>>, FALSE)
<1> TAKE k, x
<1> QED BY DEF Take, Read

LEMMA TakeName ==
  \A k, x : Take(Read("--name", k, None, None, <<>>, <<>>, FALSE), x)
              = Read("", k, x, None, <<>>, <<>>, FALSE)
<1> TAKE k, x
<1> QED BY DEF Take, Read

LEMMA TakeTemplate ==
  \A k, n, x : Take(Read("-t", k, n, None, <<>>, <<>>, FALSE), x)
                 = Read("", k, n, x, <<>>, <<>>, FALSE)
<1> TAKE k, n, x
<1> QED BY DEF Take, Read

LEMMA TakeEnd ==
  \A k, n, t, p : Take(Read("", k, n, t, p, <<>>, FALSE), <<"--">>)
                    = Read("", k, n, t, p, <<>>, TRUE)
<1> TAKE k, n, t, p
<1> QED BY DEF Take, Read

LEMMA FlagKit ==
  \A k, n, t, a :
    Take(Read("", k, n, t, <<>>, a, FALSE), <<"--kit">>) = Read("--kit", k, n, t, <<>>, a, FALSE)
<1> TAKE k, n, t, a
<1> DEFINE z == <<"--kit">>
<1>1. z # <<"--">> /\ z \in {<<"--kit">>, <<"--name">>, <<"-t">>} /\ z[1] = "--kit"
  OBVIOUS
<1> HIDE DEF z
<1>2. Take(Read("", k, n, t, <<>>, a, FALSE), z) = Read("--kit", k, n, t, <<>>, a, FALSE)
  BY <1>1 DEF Take, Read
<1> QED BY <1>2 DEF z

LEMMA FlagName ==
  \A k, n, t, a :
    Take(Read("", k, n, t, <<>>, a, FALSE), <<"--name">>) = Read("--name", k, n, t, <<>>, a, FALSE)
<1> TAKE k, n, t, a
<1> DEFINE z == <<"--name">>
<1>1. z # <<"--">> /\ z \in {<<"--kit">>, <<"--name">>, <<"-t">>} /\ z[1] = "--name"
  OBVIOUS
<1> HIDE DEF z
<1>2. Take(Read("", k, n, t, <<>>, a, FALSE), z) = Read("--name", k, n, t, <<>>, a, FALSE)
  BY <1>1 DEF Take, Read
<1> QED BY <1>2 DEF z

LEMMA FlagTemplate ==
  \A k, n, t, a :
    Take(Read("", k, n, t, <<>>, a, FALSE), <<"-t">>) = Read("-t", k, n, t, <<>>, a, FALSE)
<1> TAKE k, n, t, a
<1> DEFINE z == <<"-t">>
<1>1. z # <<"--">> /\ z \in {<<"--kit">>, <<"--name">>, <<"-t">>} /\ z[1] = "-t"
  OBVIOUS
<1> HIDE DEF z
<1>2. Take(Read("", k, n, t, <<>>, a, FALSE), z) = Read("-t", k, n, t, <<>>, a, FALSE)
  BY <1>1 DEF Take, Read
<1> QED BY <1>2 DEF z

LEMMA TakeType ==
  ASSUME NEW X, NEW read \in Reads(X), NEW token \in X
  PROVE  Take(read, token) \in Reads(X)
<1>1. /\ Append(read.kits, token) \in Seq(X) /\ Append(read.args, token) \in Seq(X)
      /\ Append(read.places, token) \in Seq(X)
  BY AppendProperties DEF Reads
<1>2. token \in {<<"--kit">>, <<"--name">>, <<"-t">>} => token[1] \in {"--kit", "--name", "-t"}
  OBVIOUS
<1> QED BY <1>1, <1>2 DEF Take, Reads

\* From one state to another along arguments.
Runs(r, s, args) ==
  \E t : /\ t[0] = r /\ t[Len(args)] = s
         /\ \A k \in 1..Len(args) : t[k] = Take(t[k - 1], args[k])

LEMMA RunsNone == \A r : Runs(r, r, <<>>)
<1> SUFFICES ASSUME NEW r PROVE Runs(r, r, <<>>)
  OBVIOUS
<1> DEFINE t == [k \in {0} |-> r]
<1>1. t[0] = r /\ Len(<<>>) = 0 /\ 1..0 = {}
  OBVIOUS
<1> HIDE DEF t
<1> QED BY <1>1 DEF Runs

LEMMA RunsOne ==
  ASSUME NEW r, NEW x
  PROVE  Runs(r, Take(r, x), <<x>>)
<1> DEFINE t == [k \in {0, 1} |-> IF k = 0 THEN r ELSE Take(r, x)]
<1>1. t[0] = r /\ t[1] = Take(r, x) /\ Len(<<x>>) = 1 /\ <<x>>[1] = x /\ \A k \in 1..1 : k = 1
  OBVIOUS
<1> HIDE DEF t
<1> QED BY <1>1 DEF Runs

LEMMA RunsConcat ==
  ASSUME NEW X, NEW a \in Seq(X), NEW b \in Seq(X), NEW r, NEW s, NEW u,
         Runs(r, s, a), Runs(s, u, b)
  PROVE  Runs(r, u, a \o b)
<1> DEFINE m == Len(a)  n == Len(b)  z == a \o b
<1>1. PICK t : t[0] = r /\ t[m] = s /\ \A k \in 1..m : t[k] = Take(t[k - 1], a[k])
  BY DEF Runs
<1>2. PICK v : v[0] = s /\ v[n] = u /\ \A k \in 1..n : v[k] = Take(v[k - 1], b[k])
  BY DEF Runs
<1>3. /\ m \in Nat /\ n \in Nat /\ Len(z) = m + n
      /\ \A k \in 1..m : z[k] = a[k]
      /\ \A k \in (m + 1)..(m + n) : z[k] = b[k - m]
  BY ConcatProperties
<1> DEFINE w == [k \in 0..(m + n) |-> IF k <= m THEN t[k] ELSE v[k - m]]
<1> HIDE DEF m, n, z
<1>4. w[0] = r
  BY <1>1, <1>3
<1>5. w[m + n] = u
  <2>1. CASE n = 0
    <3>1. m + n = m /\ m \in 0..m
      BY <1>3, <2>1
    <3> QED BY <1>1, <1>2, <2>1, <3>1
  <2>2. CASE n # 0
    <3>1. ~(m + n <= m) /\ (m + n) - m = n /\ m + n \in 0..(m + n)
      BY <1>3, <2>2
    <3> QED BY <1>2, <3>1
  <2> QED BY <2>1, <2>2
<1>6. ASSUME NEW k \in 1..(m + n) PROVE w[k] = Take(w[k - 1], z[k])
  <2>1. CASE k <= m
    <3>1. k \in 1..m /\ w[k] = t[k] /\ w[k - 1] = t[k - 1]
      BY <1>3, <2>1
    <3> HIDE DEF w
    <3> QED BY <1>1, <1>3, <3>1
  <2>2. CASE k = m + 1
    <3>1. k - m = 1 /\ (k - m) \in 1..n /\ w[k] = v[1] /\ w[k - 1] = t[m] /\ k \in (m + 1)..(m + n)
      BY <1>3, <2>2
    <3> HIDE DEF w
    <3>2. v[1] = Take(v[0], b[1])
      BY <1>2, <3>1
    <3> QED BY <1>1, <1>2, <1>3, <3>1, <3>2
  <2>3. CASE k > m + 1
    <3>1. /\ k - m \in 1..n /\ (k - m) - 1 = (k - 1) - m /\ k \in (m + 1)..(m + n)
          /\ w[k] = v[k - m] /\ w[k - 1] = v[(k - 1) - m]
      BY <1>3, <2>3
    <3> HIDE DEF w
    <3>2. v[k - m] = Take(v[(k - m) - 1], b[k - m])
      BY <1>2, <3>1
    <3> QED BY <1>3, <3>1, <3>2
  <2> QED BY <1>3, <2>1, <2>2, <2>3
<1> HIDE DEF w
<1> QED BY <1>3, <1>4, <1>5, <1>6 DEF Runs, z

\* A sequence that takes up another, element by element.
Grown(p, s, j) == p \o SubSeq(s, 1, j)

LEMMA Growing ==
  ASSUME NEW X, NEW p \in Seq(X), NEW s \in Seq(X)
  PROVE  /\ Grown(p, s, 0) = p /\ Grown(p, s, Len(s)) = p \o s
         /\ \A j \in 0..Len(s) : Grown(p, s, j) \in Seq(X) /\ (p # <<>> => Grown(p, s, j) # <<>>)
         /\ \A j \in 1..Len(s) : Append(Grown(p, s, j - 1), s[j]) = Grown(p, s, j)
<1>1. SubSeq(s, 1, 0) = <<>> /\ p \o <<>> = p /\ SubSeq(s, 1, Len(s)) = s
  BY SubSeqEmpty, SubSeqFull, ConcatEmptySeq
<1>2. ASSUME NEW j \in 0..Len(s) PROVE SubSeq(s, 1, j) \in Seq(X)
  <2>1. \A i \in 1..j : s[i] \in X
    OBVIOUS
  <2> QED BY <2>1, SubSeqProperties
<1>3. ASSUME NEW j \in 0..Len(s)
      PROVE  p \o SubSeq(s, 1, j) \in Seq(X) /\ (p # <<>> => p \o SubSeq(s, 1, j) # <<>>)
  BY <1>2, ConcatProperties
<1>4. ASSUME NEW j \in 1..Len(s)
      PROVE  Append(p \o SubSeq(s, 1, j - 1), s[j]) = p \o SubSeq(s, 1, j)
  <2> DEFINE y == SubSeq(s, 1, j - 1)
  <2>1. j - 1 \in 0..Len(s)
    OBVIOUS
  <2>2. y \in Seq(X) /\ p \o y \in Seq(X) /\ s[j] \in X /\ <<s[j]>> \in Seq(X)
    BY <1>2, <1>3, <2>1
  <2>3. SubSeq(s, 1, j) = y \o <<s[j]>>
    <3>1. 1 \in 1..Len(s) /\ j \in 1..Len(s)
      OBVIOUS
    <3> QED BY <3>1, SubSeqRecursiveSecond
  <2> HIDE DEF y
  <2>4. Append(p \o y, s[j]) = (p \o y) \o <<s[j]>>
    BY <2>2, AppendIsConcat
  <2>5. (p \o y) \o <<s[j]>> = p \o (y \o <<s[j]>>)
    <3>1. p \in Seq(X) /\ y \in Seq(X) /\ <<s[j]>> \in Seq(X)
      BY <2>2
    <3> QED BY <3>1
  <2> QED BY <2>3, <2>4, <2>5 DEF y
<1> QED BY <1>1, <1>3, <1>4 DEF Grown

LEMMA RunsPlaces ==
  ASSUME NEW X, NEW p \in Seq(X), NEW s \in Seq(X), p # <<>>,
         \A i \in 1..Len(s) : s[i] # <<"--">>, NEW k, NEW n, NEW m, NEW a
  PROVE  Runs(Read("", k, n, m, p, a, FALSE), Read("", k, n, m, p \o s, a, FALSE), s)
<1> DEFINE q(j) == Grown(p, s, j)
           t == [j \in 0..Len(s) |-> Read("", k, n, m, q(j), a, FALSE)]
<1>1. Len(s) \in Nat /\ 0 \in 0..Len(s) /\ Len(s) \in 0..Len(s)
  OBVIOUS
<1>2. q(0) = p /\ q(Len(s)) = p \o s
  BY Growing
<1>5. \A j \in 1..Len(s) : Append(Grown(p, s, j - 1), s[j]) = Grown(p, s, j)
  BY Growing
<1>3. ASSUME NEW j \in 1..Len(s) PROVE t[j] = Take(t[j - 1], s[j])
  <2>1. j \in 0..Len(s) /\ j - 1 \in 0..Len(s)
    BY <1>1
  <2>2. Append(q(j - 1), s[j]) = q(j)
    BY <1>5
  <2>3. q(j - 1) # <<>>
    BY <2>1, Growing
  <2>4. t[j] = Read("", k, n, m, q(j), a, FALSE) /\ t[j - 1] = Read("", k, n, m, q(j - 1), a, FALSE)
    BY <2>1
  <2> HIDE DEF q, t
  <2>5. Take(Read("", k, n, m, q(j - 1), a, FALSE), s[j])
          = Read("", k, n, m, Append(q(j - 1), s[j]), a, FALSE)
    <3> DEFINE y == q(j - 1)  x == s[j]
    <3>1. x # <<"--">> /\ y # <<>>
      BY <2>3
    <3> HIDE DEF y, x
    <3>2. Take(Read("", k, n, m, y, a, FALSE), x) = Read("", k, n, m, Append(y, x), a, FALSE)
      BY <3>1 DEF Take, Read
    <3> QED BY <3>2 DEF y, x
  <2> QED BY <2>2, <2>4, <2>5
<1>4. t[0] = Read("", k, n, m, q(0), a, FALSE) /\ t[Len(s)] = Read("", k, n, m, q(Len(s)), a, FALSE)
  BY <1>1
<1> HIDE DEF q, t
<1> QED BY <1>2, <1>3, <1>4 DEF Runs

LEMMA RunsRest ==
  ASSUME NEW X, NEW p \in Seq(X), NEW s \in Seq(X), NEW k, NEW n, NEW m, NEW a
  PROVE  Runs(Read("", k, n, m, a, p, TRUE), Read("", k, n, m, a, p \o s, TRUE), s)
<1> DEFINE q(j) == Grown(p, s, j)
           t == [j \in 0..Len(s) |-> Read("", k, n, m, a, q(j), TRUE)]
<1>1. Len(s) \in Nat /\ 0 \in 0..Len(s) /\ Len(s) \in 0..Len(s)
  OBVIOUS
<1>2. q(0) = p /\ q(Len(s)) = p \o s
  BY Growing
<1>5. \A j \in 1..Len(s) : Append(Grown(p, s, j - 1), s[j]) = Grown(p, s, j)
  BY Growing
<1>3. ASSUME NEW j \in 1..Len(s) PROVE t[j] = Take(t[j - 1], s[j])
  <2>1. j \in 0..Len(s) /\ j - 1 \in 0..Len(s)
    BY <1>1
  <2>2. Append(q(j - 1), s[j]) = q(j)
    BY <1>5
  <2>4. t[j] = Read("", k, n, m, a, q(j), TRUE) /\ t[j - 1] = Read("", k, n, m, a, q(j - 1), TRUE)
    BY <2>1
  <2> HIDE DEF q, t
  <2>5. Take(Read("", k, n, m, a, q(j - 1), TRUE), s[j])
          = Read("", k, n, m, a, Append(q(j - 1), s[j]), TRUE)
    <3> DEFINE y == q(j - 1)  x == s[j]
    <3> HIDE DEF y, x
    <3>1. Take(Read("", k, n, m, a, y, TRUE), x) = Read("", k, n, m, a, Append(y, x), TRUE)
      BY DEF Take, Read
    <3> QED BY <3>1 DEF y, x
  <2> QED BY <2>2, <2>4, <2>5
<1>4. t[0] = Read("", k, n, m, a, q(0), TRUE) /\ t[Len(s)] = Read("", k, n, m, a, q(Len(s)), TRUE)
  BY <1>1
<1> HIDE DEF q, t
<1> QED BY <1>2, <1>3, <1>4 DEF Runs

LEMMA OneAndOne ==
  ASSUME NEW X, NEW a \in X, NEW b \in X
  PROVE  /\ <<a>> \in Seq(X) /\ <<b>> \in Seq(X) /\ <<a, b>> \in Seq(X)
         /\ <<a>> \o <<b>> = <<a, b>>
<1> DEFINE s == <<a>> \o <<b>>  t == <<a, b>>
<1>1. <<a>> \in Seq(X) /\ <<b>> \in Seq(X) /\ t \in Seq(X)
  OBVIOUS
<1>2. s \in Seq(X) /\ Len(s) = 2 /\ s[1] = a /\ s[2] = b
  <2>1. /\ s \in Seq(X) /\ Len(s) = 1 + 1
        /\ \A i \in 1..(1 + 1) : s[i] = IF i <= 1 THEN <<a>>[i] ELSE <<b>>[i - 1]
    BY <1>1, ConcatProperties
  <2> HIDE DEF s
  <2> QED BY <2>1
<1>3. Len(t) = 2 /\ t[1] = a /\ t[2] = b /\ \A k \in 1..2 : k = 1 \/ k = 2
  OBVIOUS
<1> HIDE DEF s, t
<1>4. \A k \in 1..Len(s) : s[k] = t[k]
  BY <1>2, <1>3
<1>5. s = t
  BY <1>1, <1>2, <1>3, <1>4, SeqEqual
<1> QED BY <1>1, <1>5 DEF s, t

\* The flags.
LEMMA RunsKits ==
  ASSUME NEW X, NEW kits \in Seq(X), <<"--kit">> \in X
  PROVE  LET pairs == [i \in DOMAIN kits |-> <<<<"--kit">>, kits[i]>>]
         IN  /\ FlattenSeq(pairs) \in Seq(X)
             /\ Runs(Nothing, Read("", kits, None, None, <<>>, <<>>, FALSE), FlattenSeq(pairs))
<1> DEFINE pairs == [i \in DOMAIN kits |-> <<<<"--kit">>, kits[i]>>]  n == Len(kits)
           R(k) == Read("", k, None, None, <<>>, <<>>, FALSE)
<1>1. n \in Nat /\ n \in 0..n /\ 0 \in 0..n /\ DOMAIN kits = 1..n /\ \A i \in 1..n : kits[i] \in X
  OBVIOUS
<1>2. pairs \in Seq(Seq(X)) /\ Len(pairs) = n
  <2>1. \A i \in 1..n : <<<<"--kit">>, kits[i]>> \in Seq(X)
    BY <1>1
  <2> QED BY <1>1, <2>1
<1>3. \A i \in 1..n : pairs[i] = <<<<"--kit">>, kits[i]>>
  BY <1>1
<1> HIDE DEF pairs, n
<1>4. PICK t \in [0..n -> Seq(X)] : Joins(t, pairs) /\ FlattenSeq(pairs) = t[n]
  <2>1. \E t \in [0..Len(pairs) -> Seq(X)] : Joins(t, pairs) /\ FlattenSeq(pairs) = t[Len(pairs)]
    BY <1>2, FlattenTrace
  <2> QED BY <1>2, <2>1
<1>5. Grown(<<>>, kits, 0) = <<>> /\ Grown(<<>>, kits, n) = kits
  <2>1. <<>> \in Seq(X) /\ <<>> \o kits = kits
    BY ConcatEmptySeq
  <2> QED BY <2>1, Growing DEF n
<1>10. \A j \in 1..n : Append(Grown(<<>>, kits, j - 1), kits[j]) = Grown(<<>>, kits, j)
  <2>1. <<>> \in Seq(X)
    OBVIOUS
  <2> QED BY <2>1, Growing DEF n
<1> DEFINE K(j) == Grown(<<>>, kits, j)
           G == {j \in 0..n : Runs(Nothing, R(K(j)), t[j])}
<1>6. 0 \in G
  <2>1. t[0] = <<>> /\ Nothing = R(<<>>)
    BY <1>4 DEF Joins, Nothing, Read
  <2>2. Runs(Nothing, R(<<>>), <<>>)
    BY <2>1, RunsNone
  <2> HIDE DEF R
  <2> QED BY <1>1, <1>5, <2>1, <2>2
<1>7. ASSUME NEW j \in 1..n, j - 1 \in G PROVE j \in G
  <2> DEFINE k == K(j - 1)
  <2>1. j \in 0..n /\ j - 1 \in 0..n /\ kits[j] \in X /\ Runs(Nothing, R(k), t[j - 1])
    <3>1. j \in 0..n /\ j - 1 \in 0..n /\ kits[j] \in X
      BY <1>1
    <3> QED BY <1>7, <3>1
  <2>2. t[j - 1] \in Seq(X) /\ t[j] = t[j - 1] \o <<<<"--kit">>, kits[j]>>
    BY <1>2, <1>3, <1>4, <2>1 DEF Joins
  <2>3. Append(k, kits[j]) = K(j)
    BY <1>10
  <2> HIDE DEF k, K
  <2>4. Runs(R(k), Read("--kit", k, None, None, <<>>, <<>>, FALSE), <<<<"--kit">>>>)
    <3>1. Take(R(k), <<"--kit">>) = Read("--kit", k, None, None, <<>>, <<>>, FALSE)
      BY FlagKit
    <3> HIDE DEF R
    <3> QED BY <3>1, RunsOne
  <2>5. Runs(Read("--kit", k, None, None, <<>>, <<>>, FALSE), R(K(j)), <<kits[j]>>)
    <3>1. Take(Read("--kit", k, None, None, <<>>, <<>>, FALSE), kits[j]) = R(Append(k, kits[j]))
      BY TakeKit
    <3> HIDE DEF R
    <3> QED BY <2>3, <3>1, RunsOne
  <2>6. /\ <<<<"--kit">>>> \in Seq(X) /\ <<kits[j]>> \in Seq(X)
        /\ <<<<"--kit">>>> \o <<kits[j]>> = <<<<"--kit">>, kits[j]>>
        /\ <<<<"--kit">>, kits[j]>> \in Seq(X)
    BY <2>1, OneAndOne
  <2> HIDE DEF R
  <2>7. Runs(R(k), R(K(j)), <<<<"--kit">>, kits[j]>>)
    BY <2>4, <2>5, <2>6, RunsConcat
  <2>8. Runs(Nothing, R(K(j)), t[j])
    BY <2>1, <2>2, <2>6, <2>7, RunsConcat
  <2> QED BY <2>1, <2>8
<1>8. Runs(Nothing, R(K(n)), t[n])
  <2>1. \A j \in 0..n : j \in G
    <3> HIDE DEF G
    <3> QED BY <1>1, <1>6, <1>7, UpTo
  <2> QED BY <1>1, <2>1
<1>9. t[n] \in Seq(X)
  BY <1>1, <1>4
<1> QED BY <1>4, <1>5, <1>8, <1>9 DEF pairs

LEMMA RunsName ==
  ASSUME NEW k, NEW name
  PROVE  Runs(Read("", k, None, None, <<>>, <<>>, FALSE),
              Read("", k, name, None, <<>>, <<>>, FALSE), Optional(<<"--name">>, name))
<1>1. CASE name = None
  BY <1>1, RunsNone DEF Optional
<1>2. CASE name # None
  <2> DEFINE r == Read("", k, None, None, <<>>, <<>>, FALSE)
             s == Read("--name", k, None, None, <<>>, <<>>, FALSE)
             u == Read("", k, name, None, <<>>, <<>>, FALSE)
  <2>1. Take(r, <<"--name">>) = s /\ Take(s, name) = u
    <3>1. Take(r, <<"--name">>) = s
      BY FlagName
    <3>2. Take(s, name) = u
      BY TakeName
    <3> QED BY <3>1, <3>2
  <2> HIDE DEF r, s, u
  <2>2. Runs(r, s, <<<<"--name">>>>) /\ Runs(s, u, <<name>>)
    BY <2>1, RunsOne
  <2>3. /\ <<<<"--name">>>> \in Seq({<<"--name">>, name}) /\ <<name>> \in Seq({<<"--name">>, name})
        /\ <<<<"--name">>>> \o <<name>> = <<<<"--name">>, name>>
    <3>1. <<"--name">> \in {<<"--name">>, name} /\ name \in {<<"--name">>, name}
      OBVIOUS
    <3> QED BY <3>1, OneAndOne
  <2>4. Runs(r, u, <<<<"--name">>, name>>)
    BY <2>2, <2>3, RunsConcat
  <2> QED BY <1>2, <2>4 DEF Optional, r, u
<1> QED BY <1>1, <1>2

LEMMA RunsTemplate ==
  ASSUME NEW k, NEW n, NEW template
  PROVE  Runs(Read("", k, n, None, <<>>, <<>>, FALSE),
              Read("", k, n, template, <<>>, <<>>, FALSE), Optional(<<"-t">>, template))
<1>1. CASE template = None
  BY <1>1, RunsNone DEF Optional
<1>2. CASE template # None
  <2> DEFINE r == Read("", k, n, None, <<>>, <<>>, FALSE)
             s == Read("-t", k, n, None, <<>>, <<>>, FALSE)
             u == Read("", k, n, template, <<>>, <<>>, FALSE)
  <2>1. Take(r, <<"-t">>) = s /\ Take(s, template) = u
    <3>1. Take(r, <<"-t">>) = s
      BY FlagTemplate
    <3>2. Take(s, template) = u
      BY TakeTemplate
    <3> QED BY <3>1, <3>2
  <2> HIDE DEF r, s, u
  <2>2. Runs(r, s, <<<<"-t">>>>) /\ Runs(s, u, <<template>>)
    BY <2>1, RunsOne
  <2>3. /\ <<<<"-t">>>> \in Seq({<<"-t">>, template}) /\ <<template>> \in Seq({<<"-t">>, template})
        /\ <<<<"-t">>>> \o <<template>> = <<<<"-t">>, template>>
    <3>1. <<"-t">> \in {<<"-t">>, template} /\ template \in {<<"-t">>, template}
      OBVIOUS
    <3> QED BY <3>1, OneAndOne
  <2>4. Runs(r, u, <<<<"-t">>, template>>)
    BY <2>2, <2>3, RunsConcat
  <2> QED BY <1>2, <2>4 DEF Optional, r, u
<1> QED BY <1>1, <1>2

\* What sbx takes is where it gets from nothing.
LEMMA TakesTrace ==
  ASSUME NEW X, NEW args \in Seq(X)
  PROVE  \E t : /\ t[0] = Nothing /\ SbxTakes(args) = t[Len(args)]
                /\ \A k \in 1..Len(args) : t[k] = Take(t[k - 1], args[k])
<1> DEFINE n == Len(args)
           F(f) == [s \in SUBSET (1..n) |-> IF s = {} THEN Nothing
                                            ELSE Take(f[s \ {Max(s)}], args[Max(s)])]
           step == [p \in Reads(X) \X (1..n) |-> Take(p[1], args[p[2]])]
           it == CHOOSE f : f = F(f)
           t == [k \in 0..n |-> it[1..k]]
<1>0. n \in Nat /\ DOMAIN args = 1..n /\ \A k \in 1..n : args[k] \in X
  OBVIOUS
<1>1. ASSUME NEW x \in Reads(X), NEW k \in 1..n PROVE Take(x, args[k]) \in Reads(X)
  BY <1>0, TakeType
<1>2. \E f : f = F(f)
  <2>1. step \in [Reads(X) \X (1..n) -> Reads(X)]
    BY <1>1
  <2>2. Nothing \in Reads(X)
    BY DEF Nothing, Reads
  <2>3. PICK f : IsFold(f, n, Reads(X), Nothing, step)
    <3> HIDE DEF step, n
    <3> QED BY <1>0, <2>1, <2>2, FoldExists
  <2>4. ASSUME NEW s \in SUBSET (1..n), s # {}
        PROVE  step[<<f[s \ {Max(s)}], Max(s)>>] = Take(f[s \ {Max(s)}], args[Max(s)])
    <3>1. Max(s) \in 1..n
      BY <1>0, <2>4, MaxOfUpTo
    <3>2. f[s \ {Max(s)}] \in Reads(X)
      BY <2>3 DEF IsFold
    <3> QED BY <3>1, <3>2
  <2>5. ASSUME NEW s \in SUBSET (1..n) PROVE f[s] = F(f)[s]
    <3> HIDE DEF step
    <3> QED BY <2>3, <2>4 DEF IsFold
  <2>6. f = F(f)
    <3>1. f = [s \in SUBSET (1..n) |-> f[s]]
      BY <2>3 DEF IsFold
    <3> QED BY <2>5, <3>1
  <2> QED BY <2>6
<1>3. it = F(it)
  <2> HIDE DEF F
  <2> QED BY <1>2
<1>4. SbxTakes(args) = it[1..n]
  BY <1>0, Zenon DEF SbxTakes, FoldLeft, MapThenFoldSet, Take, Nothing
<1>5. t[0] = Nothing
  <2>1. it[1..0] = F(it)[1..0]
    BY <1>3
  <2> HIDE DEF it
  <2> QED BY <1>0, <2>1, Firsts
<1>6. ASSUME NEW k \in 1..n PROVE t[k] = Take(t[k - 1], args[k])
  <2>1. it[1..k] = F(it)[1..k]
    BY <1>3
  <2>2. F(it)[1..k] = Take(it[1..(k - 1)], args[k])
    <3>1. 1..k \in SUBSET (1..n) /\ 1..k # {} /\ Max(1..k) = k /\ (1..k) \ {k} = 1..(k - 1)
      BY <1>0, Firsts
    <3> HIDE DEF it
    <3> QED BY <3>1
  <2>3. t[k] = it[1..k] /\ t[k - 1] = it[1..(k - 1)]
    OBVIOUS
  <2> HIDE DEF it, F, t
  <2> QED BY <2>1, <2>2, <2>3
<1>7. t[n] = it[1..n]
  BY <1>0
<1> HIDE DEF it, t
<1> QED BY <1>4, <1>5, <1>6, <1>7

LEMMA TakesIs ==
  ASSUME NEW X, NEW args \in Seq(X), NEW s, Runs(Nothing, s, args)
  PROVE  SbxTakes(args) = s
<1> DEFINE n == Len(args)
<1>1. PICK t : /\ t[0] = Nothing /\ SbxTakes(args) = t[n]
               /\ \A k \in 1..n : t[k] = Take(t[k - 1], args[k])
  BY TakesTrace
<1>2. PICK u : u[0] = Nothing /\ u[n] = s /\ \A k \in 1..n : u[k] = Take(u[k - 1], args[k])
  BY DEF Runs
<1> DEFINE G == {k \in 0..n : t[k] = u[k]}
<1>3. n \in Nat /\ n \in 0..n /\ 0 \in 0..n
  OBVIOUS
<1> HIDE DEF n
<1>4. 0 \in G
  BY <1>1, <1>2, <1>3
<1>5. ASSUME NEW k \in 1..n, k - 1 \in G PROVE k \in G
  <2>1. k \in 0..n /\ t[k - 1] = u[k - 1]
    BY <1>3, <1>5
  <2> QED BY <1>1, <1>2, <2>1
<1>6. \A k \in 0..n : k \in G
  <2> HIDE DEF G
  <2> QED BY <1>3, <1>4, <1>5, UpTo
<1> QED BY <1>1, <1>2, <1>3, <1>6

LEMMA AskedArguments ==
  ASSUME Inv, Asked("arguments")
  PROVE  /\ question.request \in SbxRequests
         /\ answer.is = [create |-> SbxTakes(BuildCreateArgs(question.request)),
                         run |-> SbxTakes(RunArgs(question.request))]
<1>1. question \in Questions /\ question.about = "arguments"
  BY DEF Inv, Asked
<1>2. question.request \in SbxRequests
  BY <1>1 DEF Questions
<1>3. answer.is = [create |-> SbxTakes(BuildCreateArgs(question.request)),
                   run |-> SbxTakes(RunArgs(question.request))]
  BY <1>1 DEF Inv, RightlyAnswered, Answered, Asked, Given, Unanswered
<1> QED BY <1>2, <1>3

\* A mount is read as it was written.
LEMMA MountRead ==
  ASSUME NEW m, m = [path |-> m.path, readOnly |-> m.readOnly], m.readOnly \in BOOLEAN,
         m.path \in Seq(Range(m.path)), m.path # <<>>, m.path # <<"--">>,
         m.path[Len(m.path)] # ReadOnly
  PROVE  SbxMounts(MountArg(m)) = m /\ MountArg(m) # <<"--">>
<1>1. CASE m.readOnly
  <2> DEFINE x == Append(m.path, ReadOnly)
  <2>1. MountArg(m) = x
    BY <1>1 DEF MountArg
  <2>2. Len(x) = Len(m.path) + 1 /\ Front(x) = m.path /\ Last(x) = ReadOnly
    BY AppendParts
  <2>3. Len(m.path) \in Nat /\ Len(m.path) # 0
    OBVIOUS
  <2> HIDE DEF x
  <2>4. Len(x) > 1 /\ x[Len(x)] = ReadOnly
    BY <2>2, <2>3 DEF Last
  <2>5. SbxMounts(x) = [path |-> m.path, readOnly |-> TRUE]
    BY <2>2, <2>4 DEF SbxMounts
  <2>6. Len(<<"--">>) = 1
    OBVIOUS
  <2> QED BY <1>1, <2>1, <2>4, <2>5, <2>6
<1>2. CASE ~m.readOnly
  BY <1>2 DEF MountArg, SbxMounts
<1> QED BY <1>1, <1>2

LEMMA RunsFlags ==
  ASSUME NEW X, NEW a, a.kits \in Seq(X), a.name \in X, a.template \in X,
         <<"--kit">> \in X, <<"--name">> \in X, <<"-t">> \in X
  PROVE  /\ Flags(a) \in Seq(X)
         /\ Runs(Nothing, Read("", a.kits, a.name, a.template, <<>>, <<>>, FALSE), Flags(a))
<1> DEFINE f == FlattenSeq([i \in DOMAIN a.kits |-> <<<<"--kit">>, a.kits[i]>>])
           g == Optional(<<"--name">>, a.name)
           h == Optional(<<"-t">>, a.template)
           r == Read("", a.kits, None, None, <<>>, <<>>, FALSE)
           s == Read("", a.kits, a.name, None, <<>>, <<>>, FALSE)
           u == Read("", a.kits, a.name, a.template, <<>>, <<>>, FALSE)
<1>1. f \in Seq(X) /\ Runs(Nothing, r, f)
  BY RunsKits
<1>2. Runs(r, s, g)
  BY RunsName
<1>3. Runs(s, u, h)
  BY RunsTemplate
<1>4. g \in Seq(X) /\ h \in Seq(X)
  BY DEF Optional
<1>5. Flags(a) = (f \o g) \o h
  BY DEF Flags
<1> HIDE DEF f, g, h, r, s, u
<1>6. f \o g \in Seq(X) /\ Runs(Nothing, s, f \o g)
  BY <1>1, <1>2, <1>4, RunsConcat, ConcatProperties
<1>7. (f \o g) \o h \in Seq(X) /\ Runs(Nothing, u, (f \o g) \o h)
  BY <1>3, <1>4, <1>6, RunsConcat, ConcatProperties
<1> QED BY <1>5, <1>7 DEF u

LEMMA RunsAgent ==
  ASSUME NEW a, a.agent \notin {<<"--kit">>, <<"--name">>, <<"-t">>, <<"--">>},
         a.workspace # <<"--">>
  PROVE  Runs(Read("", a.kits, a.name, a.template, <<>>, <<>>, FALSE),
              Read("", a.kits, a.name, a.template, <<a.agent, a.workspace>>, <<>>, FALSE),
              <<a.agent, a.workspace>>)
<1> DEFINE k == a.kits  n == a.name  t == a.template  agent == a.agent  workspace == a.workspace
           X == {agent, workspace}
           r == Read("", k, n, t, <<>>, <<>>, FALSE)
           s == Read("", k, n, t, <<agent>>, <<>>, FALSE)
           u == Read("", k, n, t, <<agent, workspace>>, <<>>, FALSE)
<1>0. agent \in X /\ workspace \in X
  OBVIOUS
<1>7. agent \notin {<<"--kit">>, <<"--name">>, <<"-t">>, <<"--">>} /\ workspace # <<"--">>
  OBVIOUS
<1> HIDE DEF k, n, t, agent, workspace
<1>5. /\ <<agent>> \in Seq(X) /\ <<workspace>> \in Seq(X)
      /\ <<agent>> \o <<workspace>> = <<agent, workspace>>
  <2> HIDE DEF X
  <2> QED BY <1>0, OneAndOne
<1>1. /\ <<agent>> # <<>> /\ Append(<<>>, agent) = <<agent>>
      /\ Append(<<agent>>, workspace) = <<agent, workspace>>
  <2>1. <<agent>> # <<>> /\ Append(<<>>, agent) = <<agent>>
    OBVIOUS
  <2> HIDE DEF X
  <2>2. Append(<<agent>>, workspace) = <<agent>> \o <<workspace>>
    BY <1>0, <1>5, AppendIsConcat
  <2> QED BY <1>5, <2>1, <2>2
<1>2. Take(r, agent) = s
  BY <1>1, <1>7 DEF Take, Read
<1>3. Take(s, workspace) = u
  <2> DEFINE y == <<agent>>
  <2>1. y # <<>> /\ Append(y, workspace) = <<agent, workspace>>
    BY <1>1
  <2> HIDE DEF y
  <2>2. Take(Read("", k, n, t, y, <<>>, FALSE), workspace)
          = Read("", k, n, t, Append(y, workspace), <<>>, FALSE)
    BY <1>7, <2>1 DEF Take, Read
  <2> QED BY <2>1, <2>2 DEF y
<1> HIDE DEF r, s, u
<1>4. Runs(r, s, <<agent>>) /\ Runs(s, u, <<workspace>>)
  BY <1>2, <1>3, RunsOne
<1>6. Runs(r, u, <<agent, workspace>>)
  BY <1>4, <1>5, RunsConcat
<1> QED BY <1>6 DEF r, u, k, n, t, agent, workspace

\* What sbx create and sbx run take.
LEMMA CreateTaken ==
  ASSUME NEW a \in SbxRequests, \A m \in Range(a.mounts) : m.path[Len(m.path)] # ReadOnly
  PROVE  LET taken == SbxTakes(BuildCreateArgs(a))
             mounts == [i \in DOMAIN a.mounts |-> MountArg(a.mounts[i])]
         IN  taken = Read("", a.kits, a.name, a.template, <<a.agent, a.workspace>> \o mounts,
                          <<>>, FALSE)
<1> DEFINE X == {<<"--kit">>, <<"--name">>, <<"-t">>, <<"--">>, a.agent, a.workspace, a.name, a.template}
                \cup Range(a.kits) \cup {MountArg(m) : m \in Range(a.mounts)}
           mounts == [i \in DOMAIN a.mounts |-> MountArg(a.mounts[i])]
           f == Flags(a)
           g == <<a.agent, a.workspace>>
           r == Read("", a.kits, a.name, a.template, <<>>, <<>>, FALSE)
           s == Read("", a.kits, a.name, a.template, g, <<>>, FALSE)
           u == Read("", a.kits, a.name, a.template, g \o mounts, <<>>, FALSE)
<1>1. /\ a.kits \in Seq(X) /\ a.name \in X /\ a.template \in X /\ a.agent \in X /\ a.workspace \in X
      /\ <<"--kit">> \in X /\ <<"--name">> \in X /\ <<"-t">> \in X
  <2>1. a.kits \in Seq(Range(a.kits)) /\ Range(a.kits) \subseteq X
    BY RequestsAssumption
  <2> HIDE DEF X
  <2>2. a.kits \in Seq(X)
    BY <2>1
  <2> QED BY <2>2 DEF X
<1>2. mounts \in Seq(X) /\ Len(mounts) = Len(a.mounts)
  <2>1. a.mounts \in Seq(Range(a.mounts))
    BY RequestsAssumption
  <2>2. \A i \in DOMAIN a.mounts : a.mounts[i] \in Range(a.mounts)
    BY DEF Range
  <2>3. \A i \in DOMAIN a.mounts : MountArg(a.mounts[i]) \in X
    BY <2>2
  <2> HIDE DEF X
  <2> QED BY <2>1, <2>3
<1>3. \A i \in 1..Len(mounts) : mounts[i] # <<"--">>
  <2>1. a.mounts \in Seq(Range(a.mounts))
    BY RequestsAssumption
  <2>2. ASSUME NEW i \in DOMAIN a.mounts PROVE MountArg(a.mounts[i]) # <<"--">>
    <3> DEFINE m == a.mounts[i]
    <3>1. m \in Range(a.mounts)
      BY DEF Range
    <3>2. /\ m = [path |-> m.path, readOnly |-> m.readOnly] /\ m.readOnly \in BOOLEAN
          /\ m.path \in Seq(Range(m.path)) /\ m.path # <<>> /\ m.path # <<"--">>
      BY <3>1, RequestsAssumption
    <3> HIDE DEF m
    <3>3. MountArg(m) # <<"--">>
      BY <3>1, <3>2, MountRead
    <3> QED BY <3>3 DEF m
  <2>3. DOMAIN a.mounts = 1..Len(mounts)
    BY <2>1, <1>2
  <2> QED BY <2>2, <2>3
<1>4. f \in Seq(X) /\ Runs(Nothing, r, f)
  <2> HIDE DEF X
  <2> QED BY <1>1, RunsFlags
<1>5. g \in Seq(X) /\ g # <<>> /\ Runs(r, s, g)
  <2>0. /\ a.agent \notin {<<"--kit">>, <<"--name">>, <<"-t">>, <<"--">>}
        /\ a.workspace # <<"--">>
    BY RequestsAssumption
  <2>1. Runs(r, s, g)
    BY <2>0, RunsAgent, Zenon
  <2>2. g # <<>>
    OBVIOUS
  <2> HIDE DEF X
  <2>3. g \in Seq(X)
    BY <1>1, OneAndOne
  <2> HIDE DEF g, r, s
  <2> QED BY <1>1, <2>1, <2>2, <2>3
<1>6. BuildCreateArgs(a) = (f \o g) \o mounts
  BY DEF BuildCreateArgs
<1> HIDE DEF X, mounts, f, g
<1>7. Runs(s, u, mounts)
  BY <1>2, <1>3, <1>5, RunsPlaces
<1> HIDE DEF r, s, u
<1>8. f \o g \in Seq(X) /\ Runs(Nothing, s, f \o g)
  BY <1>4, <1>5, RunsConcat, ConcatProperties
<1>9. (f \o g) \o mounts \in Seq(X) /\ Runs(Nothing, u, (f \o g) \o mounts)
  BY <1>2, <1>7, <1>8, RunsConcat, ConcatProperties
<1>10. SbxTakes(BuildCreateArgs(a)) = u
  BY <1>6, <1>9, TakesIs
<1> QED BY <1>10 DEF u, g, mounts

LEMMA RunTaken ==
  ASSUME NEW a \in SbxRequests
  PROVE  SbxTakes(RunArgs(a)) = Read("", a.kits, a.name, a.template, <<a.agent, a.workspace>>,
                                     a.args, a.args # <<>>)
<1> DEFINE X == {<<"--kit">>, <<"--name">>, <<"-t">>, <<"--">>, a.agent, a.workspace, a.name, a.template}
                \cup Range(a.kits) \cup Range(a.args)
           f == Flags(a)
           g == <<a.agent, a.workspace>>
           e == <<<<"--">>>>
           r == Read("", a.kits, a.name, a.template, <<>>, <<>>, FALSE)
           s == Read("", a.kits, a.name, a.template, g, <<>>, FALSE)
           v == Read("", a.kits, a.name, a.template, g, <<>>, TRUE)
           u == Read("", a.kits, a.name, a.template, g, a.args, TRUE)
<1>1. /\ a.kits \in Seq(X) /\ a.name \in X /\ a.template \in X /\ a.agent \in X /\ a.workspace \in X
      /\ <<"--kit">> \in X /\ <<"--name">> \in X /\ <<"-t">> \in X /\ a.args \in Seq(X)
      /\ <<"--">> \in X
  <2>1. /\ a.kits \in Seq(Range(a.kits)) /\ Range(a.kits) \subseteq X
        /\ a.args \in Seq(Range(a.args)) /\ Range(a.args) \subseteq X
    BY RequestsAssumption
  <2> HIDE DEF X
  <2>2. a.kits \in Seq(X) /\ a.args \in Seq(X)
    BY <2>1
  <2> QED BY <2>2 DEF X
<1>2. f \in Seq(X) /\ Runs(Nothing, r, f)
  <2> HIDE DEF X
  <2> QED BY <1>1, RunsFlags
<1>3. g \in Seq(X) /\ e \in Seq(X) /\ Runs(r, s, g)
  <2>0. /\ a.agent \notin {<<"--kit">>, <<"--name">>, <<"-t">>, <<"--">>}
        /\ a.workspace # <<"--">>
    BY RequestsAssumption
  <2>1. Runs(r, s, g)
    BY <2>0, RunsAgent, Zenon
  <2>2. g # <<>>
    OBVIOUS
  <2> HIDE DEF X
  <2>3. g \in Seq(X)
    BY <1>1, OneAndOne
  <2> HIDE DEF g, r, s
  <2> QED BY <1>1, <2>1, <2>2, <2>3
<1>4. RunArgs(a) = (f \o g) \o (IF a.args = <<>> THEN <<>> ELSE e \o a.args)
  BY DEF RunArgs
<1> HIDE DEF X, f, g
<1>5. Runs(s, v, e)
  <2>1. Take(s, <<"--">>) = v
    BY TakeEnd
  <2> HIDE DEF s, v
  <2> QED BY <2>1, RunsOne
<1>6. Runs(v, u, a.args)
  <2>1. <<>> \in Seq(X) /\ <<>> \o a.args = a.args
    BY <1>1, ConcatEmptySeq
  <2> QED BY <1>1, <2>1, RunsRest
<1> HIDE DEF r, s, u, v, e
<1>7. f \o g \in Seq(X) /\ Runs(Nothing, s, f \o g)
  BY <1>2, <1>3, RunsConcat, ConcatProperties
<1>8. CASE a.args = <<>>
  <2>1. RunArgs(a) = f \o g
    BY <1>4, <1>7, <1>8, ConcatEmptySeq
  <2>2. SbxTakes(RunArgs(a)) = s
    BY <1>7, <2>1, TakesIs
  <2> QED BY <1>8, <2>2 DEF s, g
<1>9. CASE a.args # <<>>
  <2>1. e \o a.args \in Seq(X) /\ Runs(s, u, e \o a.args)
    BY <1>1, <1>3, <1>5, <1>6, RunsConcat, ConcatProperties
  <2>2. (f \o g) \o (e \o a.args) \in Seq(X) /\ Runs(Nothing, u, (f \o g) \o (e \o a.args))
    BY <1>7, <2>1, RunsConcat, ConcatProperties
  <2>3. SbxTakes(RunArgs(a)) = u
    BY <1>4, <1>9, <2>2, TakesIs
  <2> QED BY <1>9, <2>3 DEF u, g
<1> QED BY <1>8, <1>9

LEMMA ArgumentsHold == ASSUME Inv PROVE ArgumentsTaken
<1> SUFFICES ASSUME Asked("arguments"),
                    ~\E m \in Range(question.request.mounts) : m.path[Len(m.path)] = ReadOnly
             PROVE  LET a == question.request  create == answer.is.create  run == answer.is.run
                    IN  /\ \A taken \in {create, run} :
                             /\ <<taken.kits, taken.name, taken.template>>
                                  = <<a.kits, a.name, a.template>>
                             /\ SubSeq(taken.places, 1, 2) = <<a.agent, a.workspace>>
                        /\ [i \in DOMAIN a.mounts |-> SbxMounts(create.places[i + 2])] = a.mounts
                        /\ Len(create.places) = Len(a.mounts) + 2 /\ create.args = <<>>
                        /\ Len(run.places) = 2 /\ run.args = a.args
  BY DEF ArgumentsTaken
<1> DEFINE a == question.request
           create == answer.is.create  run == answer.is.run
           g == <<a.agent, a.workspace>>
           mounts == [i \in DOMAIN a.mounts |-> MountArg(a.mounts[i])]
           n == Len(a.mounts)
<1>1. a \in SbxRequests /\ create = SbxTakes(BuildCreateArgs(a)) /\ run = SbxTakes(RunArgs(a))
  BY AskedArguments
<1>2. \A m \in Range(a.mounts) : m.path[Len(m.path)] # ReadOnly
  OBVIOUS
<1> HIDE DEF a, create, run
<1>3. create = Read("", a.kits, a.name, a.template, g \o mounts, <<>>, FALSE)
  BY <1>1, <1>2, CreateTaken
<1>4. run = Read("", a.kits, a.name, a.template, g, a.args, a.args # <<>>)
  BY <1>1, RunTaken
<1>5. a.mounts \in Seq(Range(a.mounts)) /\ n \in Nat /\ DOMAIN a.mounts = 1..n
  BY <1>1, RequestsAssumption
<1> DEFINE X == {a.agent, a.workspace} \cup {MountArg(m) : m \in Range(a.mounts)}
<1>6. mounts \in Seq(X) /\ Len(mounts) = n /\ g \in Seq(X) /\ Len(g) = 2
  <2>1. \A i \in 1..n : MountArg(a.mounts[i]) \in X
    BY <1>5 DEF Range
  <2> QED BY <1>5, <2>1
<1>7. \A i \in 1..n : SbxMounts(mounts[i]) = a.mounts[i]
  <2> TAKE i \in 1..n
  <2> DEFINE m == a.mounts[i]
  <2>1. m \in Range(a.mounts)
    BY <1>5 DEF Range
  <2>2. /\ m = [path |-> m.path, readOnly |-> m.readOnly] /\ m.readOnly \in BOOLEAN
        /\ m.path \in Seq(Range(m.path)) /\ m.path # <<>> /\ m.path # <<"--">>
    BY <1>1, <2>1, RequestsAssumption
  <2>3. m.path[Len(m.path)] # ReadOnly
    BY <1>2, <2>1
  <2>4. mounts[i] = MountArg(m)
    BY <1>5
  <2> HIDE DEF m, mounts
  <2>5. SbxMounts(MountArg(m)) = m
    BY <2>2, <2>3, MountRead
  <2> QED BY <2>4, <2>5 DEF m
<1> HIDE DEF mounts, X, n
<1>8. /\ g \o mounts \in Seq(X) /\ Len(g \o mounts) = 2 + n
      /\ \A i \in 1..(2 + n) : (g \o mounts)[i] = IF i <= 2 THEN g[i] ELSE mounts[i - 2]
  <2> HIDE DEF g
  <2>1. /\ g \o mounts \in Seq(X) /\ Len(g \o mounts) = Len(g) + Len(mounts)
        /\ \A i \in 1..(Len(g) + Len(mounts)) :
             (g \o mounts)[i] = IF i <= Len(g) THEN g[i] ELSE mounts[i - Len(g)]
    BY <1>6, ConcatProperties
  <2> QED BY <1>6, <2>1
<1>9. SubSeq(g \o mounts, 1, 2) = g /\ SubSeq(g, 1, 2) = g
  <2> DEFINE z == g \o mounts
  <2>1. z \in Seq(X) /\ Len(z) = 2 + n /\ \A i \in 1..2 : z[i] = g[i] /\ i \in 1..(2 + n)
    BY <1>5, <1>8
  <2> HIDE DEF z, g
  <2>2. SubSeq(z, 1, 2) \in Seq(X) /\ Len(SubSeq(z, 1, 2)) = 2 /\ \A i \in 1..2 : SubSeq(z, 1, 2)[i] = z[i]
    <3>1. \A i \in 1..2 : z[i] \in X
      BY <2>1
    <3>2. 2 >= 1 - 1 /\ 1 \in Int /\ 2 \in Int
      OBVIOUS
    <3> QED BY <2>1, <3>1, <3>2, SubSeqProperties
  <2>3. SubSeq(z, 1, 2) = g
    BY <1>6, <2>1, <2>2, SeqEqual
  <2>4. SubSeq(g, 1, 2) = g
    BY <1>6, SubSeqFull
  <2> QED BY <2>3, <2>4 DEF z
<1>10. [i \in DOMAIN a.mounts |-> SbxMounts((g \o mounts)[i + 2])] = a.mounts
  <2>1. \A i \in 1..n : (g \o mounts)[i + 2] = mounts[i]
    <3> TAKE i \in 1..n
    <3>1. i + 2 \in 1..(2 + n) /\ ~(i + 2 <= 2) /\ (i + 2) - 2 = i
      BY <1>5
    <3> HIDE DEF g
    <3> QED BY <1>8, <3>1
  <2> HIDE DEF g
  <2>2. \A i \in 1..n : SbxMounts((g \o mounts)[i + 2]) = a.mounts[i]
    BY <1>7, <2>1
  <2>3. a.mounts = [i \in 1..n |-> a.mounts[i]]
    BY <1>5
  <2> QED BY <1>5, <2>2, <2>3
<1>11. /\ create.kits = a.kits /\ create.name = a.name /\ create.template = a.template
       /\ create.places = g \o mounts /\ create.args = <<>>
  <2> HIDE DEF g
  <2> QED BY <1>3 DEF Read
<1>12. /\ run.kits = a.kits /\ run.name = a.name /\ run.template = a.template
       /\ run.places = g /\ run.args = a.args
  <2> HIDE DEF g
  <2> QED BY <1>4 DEF Read
<1>13. Len(g) = 2 /\ Len(g \o mounts) = n + 2
  BY <1>5, <1>6, <1>8
<1> HIDE DEF g
<1>14. /\ \A taken \in {create, run} :
            /\ <<taken.kits, taken.name, taken.template>> = <<a.kits, a.name, a.template>>
            /\ SubSeq(taken.places, 1, 2) = g
       /\ [i \in DOMAIN a.mounts |-> SbxMounts(create.places[i + 2])] = a.mounts
       /\ Len(create.places) = n + 2 /\ create.args = <<>>
       /\ Len(run.places) = 2 /\ run.args = a.args
  BY <1>9, <1>10, <1>11, <1>12, <1>13
<1> QED BY <1>14 DEF a, create, run, g, n

---------------------------------------------------------------------------
(* Kits *)

Letter == {"x", "-"}
Collapsing == [text : Seq(Letter), open : BOOLEAN]
Collapse(done, c) ==
  IF c = "-" /\ done.open THEN [text |-> done.text, open |-> FALSE]
  ELSE [text |-> Append(done.text, c), open |-> c = "-"]

\* Hyphens are collapsed character by character.
LEMMA CollapsedTrace ==
  ASSUME NEW w \in Seq(Letter)
  PROVE  \E t \in [0..Len(w) -> Collapsing] :
           /\ t[0] = [text |-> <<>>, open |-> FALSE] /\ Collapsed(w) = t[Len(w)].text
           /\ \A k \in 1..Len(w) : t[k] = Collapse(t[k - 1], w[k])
<1> DEFINE n == Len(w)
           base == [text |-> <<>>, open |-> FALSE]
           F(f) == [s \in SUBSET (1..n) |-> IF s = {} THEN base
                                            ELSE Collapse(f[s \ {Max(s)}], w[Max(s)])]
           step == [p \in Collapsing \X (1..n) |-> Collapse(p[1], w[p[2]])]
           it == CHOOSE f : f = F(f)
           t == [k \in 0..n |-> it[1..k]]
<1>0. n \in Nat /\ DOMAIN w = 1..n /\ \A k \in 1..n : w[k] \in Letter
  OBVIOUS
<1>1. ASSUME NEW x \in Collapsing, NEW k \in 1..n PROVE Collapse(x, w[k]) \in Collapsing
  <2>1. x.text \in Seq(Letter) /\ w[k] \in Letter /\ Append(x.text, w[k]) \in Seq(Letter)
    BY <1>0, AppendProperties DEF Collapsing
  <2> QED BY <2>1 DEF Collapse, Collapsing
<1>2. \E f : f = F(f)
  <2>1. step \in [Collapsing \X (1..n) -> Collapsing]
    BY <1>1
  <2>2. base \in Collapsing
    BY DEF Collapsing
  <2>3. PICK f : IsFold(f, n, Collapsing, base, step)
    <3> HIDE DEF step, n, base
    <3> QED BY <1>0, <2>1, <2>2, FoldExists
  <2>4. ASSUME NEW s \in SUBSET (1..n), s # {}
        PROVE  step[<<f[s \ {Max(s)}], Max(s)>>] = Collapse(f[s \ {Max(s)}], w[Max(s)])
    <3>1. Max(s) \in 1..n
      BY <1>0, <2>4, MaxOfUpTo
    <3>2. f[s \ {Max(s)}] \in Collapsing
      BY <2>3 DEF IsFold
    <3> QED BY <3>1, <3>2
  <2>5. ASSUME NEW s \in SUBSET (1..n) PROVE f[s] = F(f)[s]
    <3> HIDE DEF step, base
    <3> QED BY <2>3, <2>4 DEF IsFold
  <2>6. f = F(f)
    <3>1. f = [s \in SUBSET (1..n) |-> f[s]]
      BY <2>3 DEF IsFold
    <3> HIDE DEF base
    <3> QED BY <2>5, <3>1
  <2> QED BY <2>6
<1>3. it = F(it)
  <2> HIDE DEF F
  <2> QED BY <1>2
<1>4. Collapsed(w) = it[1..n].text
  BY <1>0, Zenon DEF Collapsed, FoldLeft, MapThenFoldSet, Collapse
<1>5. t[0] = base
  <2>1. it[1..0] = F(it)[1..0]
    BY <1>3
  <2> HIDE DEF it, base
  <2> QED BY <1>0, <2>1, Firsts
<1>6. ASSUME NEW k \in 1..n PROVE t[k] = Collapse(t[k - 1], w[k])
  <2>1. it[1..k] = F(it)[1..k]
    BY <1>3
  <2>2. F(it)[1..k] = Collapse(it[1..(k - 1)], w[k])
    <3>1. 1..k \in SUBSET (1..n) /\ 1..k # {} /\ Max(1..k) = k /\ (1..k) \ {k} = 1..(k - 1)
      BY <1>0, Firsts
    <3> HIDE DEF it, base
    <3> QED BY <3>1
  <2>3. t[k] = it[1..k] /\ t[k - 1] = it[1..(k - 1)]
    OBVIOUS
  <2> HIDE DEF it, F, t
  <2> QED BY <2>1, <2>2, <2>3
<1> HIDE DEF it, t
<1>7. \A k \in 0..n : t[k] \in Collapsing
  <2> DEFINE G == {k \in 0..n : t[k] \in Collapsing}
  <2>1. 0 \in G
    <3>1. 0 \in 0..n /\ base \in Collapsing
      BY <1>0 DEF Collapsing
    <3> QED BY <3>1, <1>5
  <2>2. ASSUME NEW k \in 1..n, k - 1 \in G PROVE k \in G
    <3>1. k \in 0..n /\ t[k - 1] \in Collapsing
      BY <2>2
    <3> QED BY <3>1, <1>1, <1>6
  <2>3. \A k \in 0..n : k \in G
    <3> HIDE DEF G
    <3> QED BY <1>0, <2>1, <2>2, UpTo
  <2> QED BY <2>3
<1>8. t \in [0..n -> Collapsing] /\ t[n] = it[1..n]
  BY <1>0, <1>7 DEF t
<1> QED BY <1>4, <1>5, <1>6, <1>8

\* What begins with a letter does so when its hyphens are collapsed.
LEMMA CollapsedBegins ==
  ASSUME NEW w \in Seq(Letter), w # <<>>, w[1] = "x"
  PROVE  Collapsed(w) \in Seq(Letter) /\ Collapsed(w) # <<>> /\ Collapsed(w)[1] = "x"
<1> DEFINE n == Len(w)
<1>1. PICK t \in [0..n -> Collapsing] :
        /\ t[0] = [text |-> <<>>, open |-> FALSE] /\ Collapsed(w) = t[n].text
        /\ \A k \in 1..n : t[k] = Collapse(t[k - 1], w[k])
  BY CollapsedTrace
<1>2. n \in Nat /\ n >= 1 /\ \A k \in 1..n : w[k] \in Letter
  OBVIOUS
<1> HIDE DEF n
<1> DEFINE Begins(s) == s \in Seq(Letter) /\ s # <<>> /\ s[1] = "x"
           G == {k \in 0..n : k = 0 \/ Begins(t[k].text)}
<1>3. 0 \in G
  BY <1>2
<1>4. ASSUME NEW k \in 1..n, k - 1 \in G PROVE k \in G
  <2>1. t[k - 1] \in Collapsing /\ t[k] = Collapse(t[k - 1], w[k])
    BY <1>1, <1>2
  <2>2. CASE k = 1
    <3>1. t[1] = Collapse(t[0], w[1]) /\ w[1] # "-"
      BY <2>1, <2>2
    <3>2. Append(<<>>, "x") \in Seq(Letter) /\ Append(<<>>, "x") # <<>> /\ Append(<<>>, "x")[1] = "x"
      BY DEF Letter
    <3>3. t[1].text = Append(<<>>, "x")
      BY <1>1, <3>1 DEF Collapse
    <3> QED BY <1>2, <2>2, <3>2, <3>3
  <2>3. CASE k # 1
    <3>1. Begins(t[k - 1].text) /\ w[k] \in Letter
      BY <1>2, <1>4, <2>3
    <3> DEFINE s == t[k - 1].text
    <3>2. Begins(Append(s, w[k]))
      <4>1. s \in Seq(Letter) /\ s # <<>> /\ s[1] = "x"
        BY <3>1
      <4> HIDE DEF s
      <4>2. /\ Append(s, w[k]) \in Seq(Letter) /\ Len(Append(s, w[k])) = Len(s) + 1
            /\ \A i \in 1..Len(s) : Append(s, w[k])[i] = s[i]
        BY <3>1, <4>1, AppendProperties
      <4>3. 1 \in 1..Len(s) /\ Len(s) \in Nat
        BY <4>1
      <4>4. Append(s, w[k]) # <<>>
        BY <4>2, <4>3
      <4> QED BY <4>1, <4>2, <4>3, <4>4
    <3>3. t[k].text = s \/ t[k].text = Append(s, w[k])
      BY <2>1 DEF Collapse
    <3> HIDE DEF Begins
    <3>4. Begins(t[k].text)
      BY <3>1, <3>2, <3>3
    <3> QED BY <1>2, <3>4
  <2> QED BY <2>2, <2>3
<1>5. n \in G
  <2>1. \A k \in 0..n : k \in G
    <3> HIDE DEF G
    <3> QED BY <1>2, <1>3, <1>4, UpTo
  <2> QED BY <1>2, <2>1
<1> QED BY <1>1, <1>2, <1>5

\* Hyphens at the ends are cut off, the letter stays.
LEMMA TrimmingsBegin ==
  ASSUME NEW w \in Seq(Letter), w # <<>>, w[1] = "x"
  PROVE  Trimmings(w) \in Seq(Letter) /\ Trimmings(w) # <<>>
<1> DEFINE n == Len(w)
           kept == {i \in DOMAIN w : w[i] # "-"}
           first == CHOOSE i \in kept : \A j \in kept : i <= j
           last == CHOOSE i \in kept : \A j \in kept : i >= j
<1>1. n \in Nat /\ DOMAIN w = 1..n /\ 1 \in kept /\ kept \subseteq 1..n
  OBVIOUS
<1>2. Trimmings(w) = SubSeq(w, first, last)
  BY DEF Trimmings
<1> HIDE DEF kept
<1>3. first \in kept
  <2>1. \E i \in kept : \A j \in kept : i <= j
    <3>1. kept \subseteq Nat /\ kept # {}
      BY <1>1
    <3> QED BY <3>1, LeastNumber
  <2> QED BY <2>1
<1>4. last \in kept /\ \A j \in kept : last >= j
  <2>1. \E i \in kept : \A j \in kept : i >= j
    <3>1. kept \in SUBSET (1..n) /\ kept # {}
      BY <1>1
    <3>2. Max(kept) \in kept /\ \A y \in kept : y <= Max(kept)
      BY <1>1, <3>1, MaxOfUpTo
    <3>3. \A y \in kept : Max(kept) >= y
      BY <1>1, <3>2
    <3> QED BY <3>2, <3>3
  <2> QED BY <2>1
<1> HIDE DEF first, last, n
<1>5. first \in 1..n /\ last \in 1..n /\ first <= last
  BY <1>1, <1>3, <1>4
<1>6. SubSeq(w, first, last) \in Seq(Letter) /\ Len(SubSeq(w, first, last)) = (last - first) + 1
  <2>1. \A i \in first..last : w[i] \in Letter
    BY <1>1, <1>5 DEF n
  <2>2. last >= first - 1
    BY <1>5
  <2>3. /\ SubSeq(w, first, last) \in Seq(Letter)
        /\ Len(SubSeq(w, first, last)) = IF first <= last THEN (last - first) + 1 ELSE 0
    BY <1>5, <2>1, SubSeqProperties
  <2> QED BY <1>5, <2>3
<1>7. SubSeq(w, first, last) # <<>>
  BY <1>5, <1>6
<1> QED BY <1>2, <1>6, <1>7

LEMMA KitNameHolds ==
  ASSUME NEW persona, persona \in Seq(Range(persona))
  PROVE  Len(KitName(persona)) \in 1..KitNameMax /\ Range(KitName(persona)) \subseteq Letter
<1> DEFINE X == Range(persona) \cup {"x", "-"}
           long == <<"x", "-">> \o persona
           h == Hyphened(long)
           name == Trimmings(Collapsed(h))
           m == IF Len(name) < KitNameMax THEN Len(name) ELSE KitNameMax
<1>1. long \in Seq(X) /\ long # <<>> /\ long[1] = "x"
  <2> DEFINE p == <<"x", "-">>
  <2>1. p \in Seq(X) /\ Len(p) = 2 /\ p[1] = "x" /\ persona \in Seq(X)
    OBVIOUS
  <2> HIDE DEF p, X
  <2>2. /\ p \o persona \in Seq(X) /\ Len(p \o persona) = Len(p) + Len(persona)
        /\ \A i \in 1..(Len(p) + Len(persona)) :
             (p \o persona)[i] = IF i <= Len(p) THEN p[i] ELSE persona[i - Len(p)]
    BY <2>1, ConcatProperties
  <2>3. Len(persona) \in Nat
    BY <2>1
  <2>4. 1 \in 1..(Len(p) + Len(persona)) /\ 1 <= Len(p) /\ Len(p \o persona) # 0
    BY <2>1, <2>2, <2>3
  <2>5. (p \o persona)[1] = "x"
    BY <2>1, <2>2, <2>4
  <2> QED BY <2>2, <2>4, <2>5 DEF p
<1>2. h \in Seq(Letter) /\ h # <<>> /\ h[1] = "x"
  <2> HIDE DEF long, X
  <2>1. Len(long) \in Nat /\ DOMAIN long = 1..Len(long) /\ 1 \in 1..Len(long)
    BY <1>1
  <2>2. h = [i \in 1..Len(long) |-> IF long[i] = "x" THEN "x" ELSE "-"]
    BY <2>1 DEF Hyphened
  <2> HIDE DEF h
  <2>3. h \in Seq(Letter) /\ Len(h) = Len(long) /\ h[1] = "x"
    BY <1>1, <2>1, <2>2 DEF Letter
  <2>4. h # <<>>
    BY <2>1, <2>3
  <2> QED BY <2>3, <2>4
<1>3. KitName(persona) = SubSeq(name, 1, m)
  BY DEF KitName
<1> HIDE DEF h
<1>4. name \in Seq(Letter) /\ name # <<>>
  <2>1. /\ Collapsed(h) \in Seq(Letter) /\ Collapsed(h) # <<>> /\ Collapsed(h)[1] = "x"
    BY <1>2, CollapsedBegins
  <2> QED BY <2>1, TrimmingsBegin
<1> HIDE DEF name
<1>5. m \in 1..Len(name) /\ m \in 1..KitNameMax
  BY <1>4, SbxTextAssumption
<1> HIDE DEF m
<1>6. SubSeq(name, 1, m) \in Seq(Letter) /\ Len(SubSeq(name, 1, m)) = m
  <2>1. \A i \in 1..m : name[i] \in Letter
    BY <1>4, <1>5
  <2>2. m \in Nat /\ m >= 1
    BY <1>5
  <2>3. /\ SubSeq(name, 1, m) \in Seq(Letter)
        /\ Len(SubSeq(name, 1, m)) = IF 1 <= m THEN (m - 1) + 1 ELSE 0
    BY <2>1, <2>2, SubSeqProperties
  <2> QED BY <2>2, <2>3
<1> QED BY <1>3, <1>5, <1>6 DEF Range

LEMMA AskedKit ==
  ASSUME Inv, Asked("kit")
  PROVE  /\ question.request \in KitRequests
         /\ LET k == question.request
            IN  answer.is = BuildSpecYaml([name |-> k.name, servers |-> k.servers,
                                           memory |-> k.memory], k.container, k.configPath)
<1>1. question \in Questions /\ question.about = "kit"
  BY DEF Inv, Asked
<1>2. question.request \in KitRequests
  BY <1>1 DEF Questions
<1>3. LET k == question.request
      IN  answer.is = BuildSpecYaml([name |-> k.name, servers |-> k.servers,
                                     memory |-> k.memory], k.container, k.configPath)
  BY <1>1 DEF Inv, RightlyAnswered, Answered, Asked, Given, Unanswered
<1> QED BY <1>2, <1>3

\* The configuration has every server under its name, and the memory server's
\* where none took the name.
LEMMA KitHolds == ASSUME Inv PROVE KitTaken
<1> SUFFICES ASSUME Asked("kit")
             PROVE  LET k == question.request  kit == answer.is
                        memory == k.container.status = "running"
                    IN  /\ Len(kit.name) \in 1..KitNameMax /\ Range(kit.name) \subseteq {"x", "-"}
                        /\ \A s \in Range(k.servers) :
                             kit.mcp[s.name] = [url |-> s.url, headers |-> s.headers]
                        /\ "memory" \in {s.name : s \in Range(k.servers)}
                           \/ IF memory THEN kit.mcp["memory"].headers = k.container.token
                              ELSE "memory" \notin DOMAIN kit.mcp
                        /\ DOMAIN kit.mcp \subseteq {s.name : s \in Range(k.servers)} \cup {"memory"}
  BY DEF KitTaken
<1> DEFINE k == question.request  kit == answer.is
           config == LookupMcpConfig(k.container)
           names == {s.name : s \in Range(k.servers)}
           all == names \cup (IF config = None THEN {} ELSE {"memory"})
<1>1. /\ k \in KitRequests
      /\ kit = BuildSpecYaml([name |-> k.name, servers |-> k.servers, memory |-> k.memory],
                             k.container, k.configPath)
  BY AskedKit
<1> HIDE DEF k, kit
<1>2. kit.name = KitName(k.name) /\ kit.mcp = BuildMcpJson(k.servers, config)
  BY <1>1 DEF BuildSpecYaml
<1>3. Len(kit.name) \in 1..KitNameMax /\ Range(kit.name) \subseteq {"x", "-"}
  <2>1. k.name \in Seq(Range(k.name))
    BY <1>1, KitsAssumption
  <2> QED BY <1>2, <2>1, KitNameHolds DEF Letter
<1> HIDE DEF config
<1>4. DOMAIN kit.mcp = all
  BY <1>2 DEF BuildMcpJson
<1>5. ASSUME NEW s \in Range(k.servers)
      PROVE  kit.mcp[s.name] = [url |-> s.url, headers |-> s.headers]
  <2> DEFINE named(i) == /\ k.servers[i].name = s.name
                         /\ \A j \in DOMAIN k.servers : k.servers[j].name = s.name => j <= i
             last == CHOOSE i \in DOMAIN k.servers : named(i)
  <2>1. PICK i \in DOMAIN k.servers : k.servers[i] = s
    BY DEF Range
  <2>2. DOMAIN k.servers \subseteq Nat
    <3>1. k.servers \in Seq(Range(k.servers))
      BY <1>1, KitsAssumption
    <3> QED BY <3>1
  <2>3. named(i)
    BY <1>1, <2>1, <2>2, KitsAssumption
  <2>4. last \in DOMAIN k.servers /\ named(last)
    <3> HIDE DEF named
    <3> QED BY <2>1, <2>3
  <2>5. last = i
    BY <1>1, <2>1, <2>4, KitsAssumption
  <2>6. s.name \in all /\ \E q \in Range(k.servers) : q.name = s.name
    OBVIOUS
  <2>7. kit.mcp[s.name] = [url |-> k.servers[last].url, headers |-> k.servers[last].headers]
    BY <1>2, <2>6 DEF BuildMcpJson
  <2> HIDE DEF last
  <2> QED BY <2>1, <2>5, <2>7
<1>6. "memory" \in names
      \/ IF k.container.status = "running" THEN kit.mcp["memory"].headers = k.container.token
         ELSE "memory" \notin DOMAIN kit.mcp
  <2> SUFFICES ASSUME "memory" \notin names
               PROVE  IF k.container.status = "running"
                      THEN kit.mcp["memory"].headers = k.container.token
                      ELSE "memory" \notin DOMAIN kit.mcp
    OBVIOUS
  <2>1. CASE k.container.status = "running"
    <3>1. config # None /\ config.token = k.container.token
      BY <1>1, <2>1, KitsAssumption DEF config, LookupMcpConfig
    <3>2. "memory" \in all /\ ~\E q \in Range(k.servers) : q.name = "memory"
      BY <3>1
    <3>3. kit.mcp["memory"] = [url |-> config, headers |-> config.token]
      BY <1>2, <3>2 DEF BuildMcpJson
    <3> QED BY <2>1, <3>1, <3>3
  <2>2. CASE k.container.status # "running"
    <3>1. config = None
      BY <2>2 DEF config, LookupMcpConfig
    <3> QED BY <1>4, <2>2, <3>1
  <2> QED BY <2>1, <2>2
<1>7. DOMAIN kit.mcp \subseteq names \cup {"memory"}
  BY <1>4
<1> QED BY <1>3, <1>5, <1>6, <1>7 DEF k, kit

\* What the application writes is taken as it is meant: sbx has of the arguments
\* of sbx create and run every kit, the name, the template, the mounts and the
\* agent's own arguments as they were asked for, and of the kit a name it takes
\* and the persona's servers (sbx.rs, kit_generator.rs).
THEOREM TextsTakenAlways == FormsSpec => []TextsTaken
<1>1. Inv => TextsTaken
  BY ArgumentsHold, KitHolds DEF TextsTaken
<1> QED BY <1>1, InvAlways, PTL

---------------------------------------------------------------------------
(* The log *)

\* A sequence to which others are joined one after the other.
Builds(u, pre, seqs) == u[0] = pre /\ \A k \in 1..Len(seqs) : u[k] = u[k - 1] \o seqs[k]

\* Joining is associative, named so that a step can ask for one instance.
Associate(a, b, c) == (a \o b) \o c = a \o (b \o c)

LEMMA Associative ==
  ASSUME NEW X, NEW a \in Seq(X), NEW b \in Seq(X), NEW c \in Seq(X)
  PROVE  Associate(a, b, c)
BY DEF Associate

LEMMA Built ==
  ASSUME NEW X, NEW pre \in Seq(X), NEW seqs \in Seq(Seq(X))
  PROVE  \E u \in [0..Len(seqs) -> Seq(X)] :
           Builds(u, pre, seqs) /\ u[Len(seqs)] = pre \o FlattenSeq(seqs)
<1> DEFINE n == Len(seqs)
<1>1. PICK t \in [0..n -> Seq(X)] : Joins(t, seqs) /\ FlattenSeq(seqs) = t[n]
  BY FlattenTrace
<1>2. n \in Nat /\ 0 \in 0..n /\ n \in 0..n /\ \A k \in 1..n : k \in 0..n /\ k - 1 \in 0..n
  OBVIOUS
<1>3. \A k \in 1..n : seqs[k] \in Seq(X)
  OBVIOUS
<1> DEFINE u == [k \in 0..n |-> pre \o t[k]]
<1>4. u \in [0..n -> Seq(X)]
  BY <1>1, ConcatProperties
<1>5. u[0] = pre
  BY <1>1, <1>2, ConcatEmptySeq DEF Joins
<1>6. ASSUME NEW k \in 1..n PROVE u[k] = u[k - 1] \o seqs[k]
  <2>1. t[k - 1] \in Seq(X) /\ seqs[k] \in Seq(X) /\ t[k] = t[k - 1] \o seqs[k]
    BY <1>1, <1>2, <1>3 DEF Joins
  <2>2. u[k] = pre \o t[k] /\ u[k - 1] = pre \o t[k - 1]
    BY <1>2
  <2> HIDE DEF u
  <2>3. (pre \o t[k - 1]) \o seqs[k] = pre \o (t[k - 1] \o seqs[k])
    <3>1. Associate(pre, t[k - 1], seqs[k])
      BY <2>1, Associative
    <3> QED BY <3>1 DEF Associate
  <2> QED BY <2>1, <2>2, <2>3
<1>7. u[n] = pre \o FlattenSeq(seqs)
  BY <1>1, <1>2
<1> HIDE DEF u
<1> QED BY <1>4, <1>5, <1>6, <1>7 DEF Builds

\* Each keeps its place.
Laid(u, pre, seqs, l) ==
  /\ Len(pre) <= Len(u[l])
  /\ \A j \in 1..l : /\ Len(u[j]) = Len(u[j - 1]) + Len(seqs[j]) /\ Len(u[j]) <= Len(u[l])
                     /\ \A k \in 1..Len(seqs[j]) : u[l][Len(u[j - 1]) + k] = seqs[j][k]
  /\ \A p \in 1..Len(u[l]) :
       \/ p <= Len(pre) /\ u[l][p] = pre[p]
       \/ \E j \in 1..l : \E k \in 1..Len(seqs[j]) : p = Len(u[j - 1]) + k

LEMMA BuiltParts ==
  ASSUME NEW X, NEW pre \in Seq(X), NEW seqs \in Seq(Seq(X)),
         NEW u \in [0..Len(seqs) -> Seq(X)], Builds(u, pre, seqs)
  PROVE  \A l \in 0..Len(seqs) : Laid(u, pre, seqs, l)
<1> DEFINE n == Len(seqs)
           G == {l \in 0..n : Laid(u, pre, seqs, l)}
<1>1. n \in Nat /\ Len(pre) \in Nat /\ \A k \in 0..n : Len(u[k]) \in Nat
  OBVIOUS
<1>2. \A k \in 1..n : seqs[k] \in Seq(X) /\ Len(seqs[k]) \in Nat /\ k \in 0..n /\ k - 1 \in 0..n
  OBVIOUS
<1>3. u[0] = pre /\ \A k \in 1..n : u[k] = u[k - 1] \o seqs[k]
  BY DEF Builds
<1> HIDE DEF n
<1>4. 0 \in G
  <2>1. 0 \in 0..n /\ 1..0 = {} /\ Len(pre) <= Len(pre)
    BY <1>1
  <2>2. \A p \in 1..Len(pre) : p <= Len(pre)
    BY <1>1
  <2> QED BY <1>3, <2>1, <2>2 DEF Laid
<1>5. ASSUME NEW l \in 1..n, l - 1 \in G PROVE l \in G
  <2> DEFINE a == u[l - 1]  b == seqs[l]  c == u[l]
  <2>1. l - 1 \in 0..n /\ l \in 0..n /\ Laid(u, pre, seqs, l - 1)
    BY <1>1, <1>5
  <2>2. a \in Seq(X) /\ b \in Seq(X) /\ c = a \o b
    BY <1>2, <1>3, <2>1 DEF n
  <2> HIDE DEF a, b, c
  <2>3. /\ Len(c) = Len(a) + Len(b) /\ Len(a) \in Nat /\ Len(b) \in Nat
        /\ \A i \in 1..Len(a) : c[i] = a[i]
        /\ \A i \in 1..Len(b) : c[Len(a) + i] = b[i]
    <3>1. /\ Len(c) = Len(a) + Len(b)
          /\ \A i \in 1..(Len(a) + Len(b)) : c[i] = IF i <= Len(a) THEN a[i] ELSE b[i - Len(a)]
      BY <2>2, ConcatProperties
    <3>2. Len(a) \in Nat /\ Len(b) \in Nat
      BY <2>2
    <3>3. ASSUME NEW i \in 1..Len(a) PROVE c[i] = a[i]
      BY <3>1, <3>2
    <3>4. ASSUME NEW i \in 1..Len(b) PROVE c[Len(a) + i] = b[i]
      <4>1. Len(a) + i \in 1..(Len(a) + Len(b)) /\ ~(Len(a) + i <= Len(a)) /\ (Len(a) + i) - Len(a) = i
        BY <3>2
      <4> QED BY <3>1, <4>1
    <3> QED BY <3>1, <3>2, <3>3, <3>4
  <2>4. Len(pre) <= Len(c)
    BY <1>1, <2>1, <2>3 DEF Laid, a
  <2>5. ASSUME NEW j \in 1..l
        PROVE  /\ Len(u[j]) = Len(u[j - 1]) + Len(seqs[j]) /\ Len(u[j]) <= Len(c)
               /\ \A k \in 1..Len(seqs[j]) : c[Len(u[j - 1]) + k] = seqs[j][k]
    <3>1. CASE j = l
      <4>1. Len(c) = Len(a) + Len(b) /\ Len(c) <= Len(c) /\ \A k \in 1..Len(b) : c[Len(a) + k] = b[k]
        BY <2>3
      <4>2. u[j] = c /\ u[j - 1] = a /\ seqs[j] = b
        BY <3>1 DEF a, b, c
      <4> QED BY <4>1, <4>2
    <3>2. CASE j # l
      <4>1. j \in 1..(l - 1) /\ j \in 1..n
        BY <1>1, <3>2
      <4>2. /\ Len(u[j]) = Len(u[j - 1]) + Len(seqs[j]) /\ Len(u[j]) <= Len(a)
            /\ \A k \in 1..Len(seqs[j]) : a[Len(u[j - 1]) + k] = seqs[j][k]
        BY <2>1, <4>1 DEF Laid, a
      <4>3. Len(u[j - 1]) \in Nat /\ Len(seqs[j]) \in Nat /\ Len(u[j]) \in Nat
        BY <1>1, <1>2, <4>1
      <4> DEFINE s == Len(u[j - 1])  e == Len(seqs[j])  f == Len(u[j])
                 la == Len(a)  lb == Len(b)  lc == Len(c)
      <4>4. /\ s \in Nat /\ e \in Nat /\ f \in Nat /\ la \in Nat /\ lb \in Nat
            /\ f = s + e /\ f <= la /\ lc = la + lb
        BY <2>3, <4>2, <4>3
      <4>5. /\ \A i \in 1..la : c[i] = a[i]
            /\ \A k \in 1..e : a[s + k] = seqs[j][k]
        BY <2>3, <4>2
      <4> HIDE DEF s, e, f, la, lb, lc
      <4>6. f <= lc
        BY <4>4
      <4>7. ASSUME NEW k \in 1..e PROVE c[s + k] = seqs[j][k]
        <5>1. s + k \in 1..la
          BY <4>4
        <5> QED BY <4>5, <5>1
      <4> QED BY <4>4, <4>6, <4>7 DEF s, e, f, lc
    <3> QED BY <3>1, <3>2
  <2>6. ASSUME NEW p \in 1..Len(c)
        PROVE  \/ p <= Len(pre) /\ c[p] = pre[p]
               \/ \E j \in 1..l : \E k \in 1..Len(seqs[j]) : p = Len(u[j - 1]) + k
    <3>1. CASE p <= Len(a)
      <4>1. p \in 1..Len(a) /\ c[p] = a[p]
        BY <2>3, <3>1
      <4>2. \/ p <= Len(pre) /\ a[p] = pre[p]
            \/ \E j \in 1..(l - 1) : \E k \in 1..Len(seqs[j]) : p = Len(u[j - 1]) + k
        BY <2>1, <4>1 DEF Laid, a
      <4>3. \A j \in 1..(l - 1) : j \in 1..l
        BY <1>1
      <4> QED BY <4>1, <4>2, <4>3
    <3>2. CASE p > Len(a)
      <4>1. p - Len(a) \in 1..Len(b) /\ p = Len(a) + (p - Len(a)) /\ l \in 1..l
        BY <2>3, <3>2
      <4> QED BY <4>1 DEF a, b
    <3> QED BY <2>3, <3>1, <3>2
  <2>7. Laid(u, pre, seqs, l)
    BY <2>4, <2>5, <2>6 DEF Laid, c
  <2> QED BY <2>1, <2>7
<1>6. \A l \in 0..n : l \in G
  <2> HIDE DEF G
  <2> QED BY <1>1, <1>4, <1>5, UpTo
<1> QED BY <1>6 DEF n

\* The separators, however they are enumerated in their order.
LEMMA Enumerated ==
  ASSUME NEW X, NEW out \in Seq(X), NEW q \in Seq(1..Len(out)),
         \A p \in 1..Len(q) : p < Len(q) => q[p] < q[p + 1],
         \A i \in 1..Len(out) : out[i] = Sep <=> \E p \in 1..Len(q) : i = q[p]
  PROVE  Separators(out) = q
<1> DEFINE n == Len(out)  m == Len(q)
           ids == [i \in DOMAIN out |-> i]
           S == {i \in DOMAIN out : out[i] = Sep}
<1>1. /\ n \in Nat /\ m \in Nat /\ DOMAIN out = 1..n /\ \A p \in 1..m : q[p] \in 1..n
      /\ ids \in Seq(1..n) /\ Len(ids) = n /\ \A i \in 1..n : ids[i] = i
  OBVIOUS
<1>2. PICK t \in [0..n -> Seq(1..n)] : Filters(t, ids, S) /\ Filtered(ids, S) = t[n]
  <2> HIDE DEF ids, S, n
  <2> DEFINE Y == 1..n
  <2>1. ids \in Seq(Y)
    BY <1>1
  <2>3. PICK w : w = Filtered(ids, S)
    OBVIOUS
  <2> HIDE DEF Y
  <2>2. \E t \in [0..Len(ids) -> Seq(Y)] : Filters(t, ids, S) /\ Filtered(ids, S) = t[Len(ids)]
    BY <2>1, <2>3, FilteredTrace
  <2> QED BY <1>1, <2>2 DEF Y
<1>3. Separators(out) = t[n]
  BY <1>2 DEF Separators
<1>4. \A i \in 1..n : i \in S <=> \E p \in 1..m : i = q[p]
  BY <1>1
<1>5. t[0] = <<>> /\ \A k \in 1..n : t[k] = IF k \in S THEN Append(t[k - 1], k) ELSE t[k - 1]
  <2> HIDE DEF ids, S, n
  <2> QED BY <1>1, <1>2 DEF Filters
<1> HIDE DEF ids, S, n
<1>13. \A p \in 1..m : q[p] \in Int
  BY <1>1
<1>6. \A p \in 1..m : p < m => q[p] < q[p + 1]
  OBVIOUS
<1>7. ASSUME NEW l \in 1..m PROVE \A p \in 1..m : p > l => q[l] < q[p]
  <2> DEFINE H == {p \in 0..m : p > l => q[l] < q[p]}
  <2>1. 0 \in H
    BY <1>1
  <2>2. ASSUME NEW p \in 1..m, p - 1 \in H PROVE p \in H
    <3>1. CASE p <= l
      BY <1>1, <3>1
    <3>2. CASE p = l + 1
      <4>1. q[l] < q[l + 1]
        BY <1>1, <1>6, <3>2
      <4> QED BY <1>1, <3>2, <4>1
    <3>3. CASE p > l + 1
      <4>1. p - 1 \in 1..m /\ p - 1 < m /\ (p - 1) + 1 = p /\ p - 1 > l
        <5>1. p \in Nat /\ l \in Nat /\ p <= m /\ l >= 1 /\ m \in Nat
          BY <1>1
        <5> QED BY <3>3, <5>1
      <4>2. q[l] < q[p - 1] /\ q[p - 1] < q[p]
        BY <1>6, <2>2, <4>1
      <4>3. q[l] \in Int /\ q[p - 1] \in Int /\ q[p] \in Int
        BY <1>13, <4>1
      <4> QED BY <4>2, <4>3
    <3> QED BY <1>1, <3>1, <3>2, <3>3
  <2>3. \A p \in 0..m : p \in H
    <3> HIDE DEF H
    <3> QED BY <1>1, <2>1, <2>2, UpTo
  <2> QED BY <1>1, <2>3
<1> DEFINE Upto(k, c) == /\ t[k] = SubSeq(q, 1, c)
                         /\ \A p \in 1..m : q[p] <= k <=> p <= c
           G == {k \in 0..n : \E c \in 0..m : Upto(k, c)}
<1> HIDE DEF m
<1>8. 0 \in G
  <2>1. t[0] = SubSeq(q, 1, 0)
    BY <1>5, SubSeqEmpty
  <2>2. \A p \in 1..m : ~(q[p] <= 0) /\ ~(p <= 0)
    BY <1>1
  <2>3. Upto(0, 0)
    BY <2>1, <2>2
  <2> HIDE DEF Upto
  <2> QED BY <1>1, <2>3
<1>9. ASSUME NEW k \in 1..n, k - 1 \in G PROVE k \in G
  <2>1. PICK c \in 0..m : Upto(k - 1, c)
    BY <1>9
  <2>2. t[k - 1] = SubSeq(q, 1, c) /\ \A p \in 1..m : q[p] <= k - 1 <=> p <= c
    BY <2>1
  <2>3. CASE k \in S
    <3>1. PICK p \in 1..m : k = q[p]
      BY <1>4, <2>3
    <3>2. p > c
      BY <1>1, <2>2, <3>1
    <3>3. c + 1 \in 1..m /\ q[c + 1] > k - 1
      <4>1. c + 1 \in 1..m /\ ~(c + 1 <= c)
        BY <1>1, <3>2
      <4>2. ~(q[c + 1] <= k - 1) /\ q[c + 1] \in Int
        BY <1>13, <2>2, <4>1
      <4> QED BY <4>1, <4>2
    <3>4. p = c + 1
      <4>1. p > c + 1 => q[c + 1] < q[p]
        BY <1>7, <3>3
      <4>2. q[c + 1] \in Int /\ q[p] \in Int
        BY <1>13, <3>3
      <4>3. k \in Int /\ p \in Int /\ c \in Int
        OBVIOUS
      <4> QED BY <3>1, <3>2, <3>3, <4>1, <4>2, <4>3
    <3>5. t[k] = SubSeq(q, 1, c + 1)
      <4>1. t[k] = Append(SubSeq(q, 1, c), q[c + 1])
        BY <1>5, <2>2, <2>3, <3>1, <3>4
      <4>2. <<>> \in Seq(1..n) /\ \A j \in 1..m : Append(Grown(<<>>, q, j - 1), q[j]) = Grown(<<>>, q, j)
        <5>1. <<>> \in Seq(1..n) /\ q \in Seq(1..n)
          BY DEF n
        <5> QED BY <5>1, Growing DEF m
      <4>3. ASSUME NEW j \in 0..m PROVE Grown(<<>>, q, j) = SubSeq(q, 1, j)
        <5>1. \A i \in 1..j : q[i] \in 1..n
          BY <1>1
        <5>2. SubSeq(q, 1, j) \in Seq(1..n)
          BY <1>1, <5>1, SubSeqProperties
        <5> QED BY <5>2, ConcatEmptySeq DEF Grown
      <4>4. c \in 0..m /\ c + 1 \in 0..m /\ (c + 1) - 1 = c
        BY <1>1, <3>3
      <4>5. Append(Grown(<<>>, q, c), q[c + 1]) = Grown(<<>>, q, c + 1)
        BY <3>3, <4>2, <4>4
      <4> QED BY <4>1, <4>3, <4>4, <4>5
    <3>6. ASSUME NEW j \in 1..m PROVE q[j] <= k <=> j <= c + 1
      <4>1. j > c + 1 => q[c + 1] < q[j]
        BY <1>7, <3>3
      <4>2. q[j] <= k - 1 <=> j <= c
        BY <2>2
      <4>3. q[j] \in Int /\ q[c + 1] = k /\ j \in Int /\ c \in Int /\ k \in Int
        BY <1>13, <3>1, <3>4
      <4>4. j <= c \/ j = c + 1 \/ j > c + 1
        BY <4>3
      <4>5. CASE j <= c
        BY <4>2, <4>3, <4>5
      <4>6. CASE j = c + 1
        BY <4>3, <4>6
      <4>7. CASE j > c + 1
        BY <4>1, <4>3, <4>7
      <4> QED BY <4>4, <4>5, <4>6, <4>7
    <3>7. Upto(k, c + 1) /\ c + 1 \in 0..m /\ k \in 0..n
      BY <1>1, <3>3, <3>5, <3>6
    <3> HIDE DEF Upto
    <3> QED BY <3>7
  <2>4. CASE k \notin S
    <3>1. t[k] = SubSeq(q, 1, c)
      BY <1>5, <2>2, <2>4
    <3>2. ASSUME NEW j \in 1..m PROVE q[j] <= k <=> j <= c
      <4>1. q[j] # k /\ q[j] \in Int
        BY <1>1, <1>4, <2>4
      <4>2. q[j] <= k - 1 <=> j <= c
        BY <2>2
      <4> QED BY <4>1, <4>2
    <3>3. Upto(k, c) /\ k \in 0..n
      BY <1>1, <3>1, <3>2
    <3> HIDE DEF Upto
    <3> QED BY <3>3
  <2> QED BY <2>3, <2>4
<1>10. n \in G
  <2> HIDE DEF G
  <2>1. \A k \in 0..n : k \in G
    <3>1. \A k \in 1..n : k - 1 \in G => k \in G
      BY <1>9
    <3> QED BY <1>1, <1>8, <3>1, UpTo
  <2> QED BY <1>1, <2>1
<1>11. PICK c \in 0..m : t[n] = SubSeq(q, 1, c) /\ \A p \in 1..m : q[p] <= n <=> p <= c
  BY <1>10
<1>12. c = m
  <2>1. CASE m = 0
    BY <1>1, <2>1
  <2>2. CASE m # 0
    <3>1. m \in 1..m /\ q[m] <= n
      BY <1>1, <2>2
    <3>2. m <= c
      BY <1>11, <3>1
    <3> QED BY <1>1, <3>2
  <2> QED BY <2>1, <2>2
<1> QED BY <1>3, <1>11, <1>12, SubSeqFull DEF m

\* What an entry of the log is made of.
OneLine(c) ==
  /\ c.message \in Seq(Range(c.message)) /\ Newline \notin Range(c.message)
  /\ Sep \notin Range(c.message) /\ c.files \in Seq(Range(c.files))
StatsOf(c) == {Stat(f[1], f[2]) : f \in Range(c.files)}
TokensOf(c) ==
  {Sep, Newline, Text(c.sha), Text(c.author), Text(c.date)} \cup Range(c.message) \cup StatsOf(c)
Rest(c) == IF c.files = <<>> THEN <<>> ELSE <<Newline>> \o Stats(c.files)

LEMMA TokensDiffer ==
  /\ \A x : Text(x) # Sep /\ Text(x) # Newline /\ Text(x)[1] = "text"
  /\ Newline # Sep /\ Newline[1] = "newline"
  /\ \A a, d : Stat(a, d) # Sep /\ Stat(a, d) # Newline /\ Stat(a, d)[1] = "stat"
<1>1. \A x : Text(x) # Sep /\ Text(x) # Newline /\ Text(x)[1] = "text"
  BY DEF Text, Sep, Newline
<1>2. Newline # Sep /\ Newline[1] = "newline"
  BY DEF Sep, Newline
<1>3. \A a, d : Stat(a, d) # Sep /\ Stat(a, d) # Newline /\ Stat(a, d)[1] = "stat"
  <2> TAKE a, d
  <2>1. Len(Stat(a, d)) = 3 /\ Len(Sep) = 1 /\ Len(Newline) = 1
    BY DEF Stat, Sep, Newline
  <2>2. Stat(a, d)[1] = "stat"
    BY DEF Stat
  <2> QED BY <2>1, <2>2
<1> QED BY <1>1, <1>2, <1>3

LEMMA StatsType ==
  ASSUME NEW c, OneLine(c)
  PROVE  Stats(c.files) \in Seq({Newline} \cup StatsOf(c)) /\ Rest(c) \in Seq({Newline} \cup StatsOf(c))
<1> DEFINE X == {Newline} \cup StatsOf(c)
           seqs == [i \in DOMAIN c.files |-> <<Stat(c.files[i][1], c.files[i][2]), Newline>>]
<1>1. c.files \in Seq(Range(c.files))
  BY DEF OneLine
<1>2. \A i \in DOMAIN c.files : Stat(c.files[i][1], c.files[i][2]) \in X /\ Newline \in X
  BY DEF StatsOf, Range
<1> HIDE DEF X
<1>3. \A i \in DOMAIN c.files : <<Stat(c.files[i][1], c.files[i][2]), Newline>> \in Seq(X)
  <2> TAKE i \in DOMAIN c.files
  <2> DEFINE x == Stat(c.files[i][1], c.files[i][2])
  <2>1. x \in X /\ Newline \in X
    BY <1>2
  <2> HIDE DEF x
  <2>2. <<x, Newline>> \in Seq(X)
    BY <2>1, OneAndOne
  <2> QED BY <2>2 DEF x
<1>4. seqs \in Seq(Seq(X))
  <2> DEFINE n == Len(c.files)  e(i) == <<Stat(c.files[i][1], c.files[i][2]), Newline>>
  <2>1. DOMAIN c.files = 1..n /\ n \in Nat
    BY <1>1
  <2>2. seqs = [i \in 1..n |-> e(i)] /\ \A i \in 1..n : e(i) \in Seq(X)
    BY <1>3, <2>1
  <2> HIDE DEF e, n, seqs
  <2> QED BY <2>1, <2>2
<1>5. Stats(c.files) = FlattenSeq(seqs)
  BY DEF Stats
<1> HIDE DEF seqs
<1>6. Stats(c.files) \in Seq(X)
  BY <1>4, <1>5, FlattenType
<1>7. <<Newline>> \in Seq(X) /\ <<>> \in Seq(X)
  BY DEF X
<1>8. <<Newline>> \o Stats(c.files) \in Seq(X)
  BY <1>6, <1>7, ConcatProperties
<1>9. Rest(c) \in Seq(X)
  BY <1>7, <1>8 DEF Rest
<1> QED BY <1>6, <1>9 DEF X

LEMMA EntryIs ==
  ASSUME NEW c, OneLine(c)
  PROVE  LET E == Entry(c)  m == Len(c.message)  r == Len(Rest(c))
         IN  /\ E \in Seq(TokensOf(c)) /\ m \in Nat /\ r \in Nat /\ Len(E) = 8 + m + r
             /\ E[1] = Sep /\ E[2] = Text(c.sha) /\ E[3] = Sep
             /\ \A k \in 1..m : E[3 + k] = c.message[k]
             /\ E[4 + m] = Sep /\ E[5 + m] = Text(c.author) /\ E[6 + m] = Sep
             /\ E[7 + m] = Text(c.date) /\ E[8 + m] = Newline
             /\ \A k \in 1..r : E[8 + m + k] = Rest(c)[k]
<1> DEFINE E == Entry(c)  X == TokensOf(c)
           A == <<Sep, Text(c.sha), Sep>>  M == c.message
           B == <<Sep, Text(c.author), Sep, Text(c.date), Newline>>  R == Rest(c)
           m == Len(M)  r == Len(R)  F == A \o M  G == F \o B
<1>1. E = G \o R
  BY DEF Entry, Rest
<1>2. A \in Seq(X) /\ Len(A) = 3 /\ A[1] = Sep /\ A[2] = Text(c.sha) /\ A[3] = Sep
  <2>1. Sep \in X /\ Text(c.sha) \in X
    BY DEF TokensOf
  <2> HIDE DEF X
  <2> QED BY <2>1
<1>3. /\ B \in Seq(X) /\ Len(B) = 5 /\ B[1] = Sep /\ B[2] = Text(c.author) /\ B[3] = Sep
      /\ B[4] = Text(c.date) /\ B[5] = Newline
  <2>1. Sep \in X /\ Text(c.author) \in X /\ Text(c.date) \in X /\ Newline \in X
    BY DEF TokensOf
  <2> HIDE DEF X
  <2> QED BY <2>1
<1>4. M \in Seq(X) /\ m \in Nat
  <2>1. M \in Seq(Range(M)) /\ Range(M) \subseteq X
    BY DEF OneLine, TokensOf
  <2> HIDE DEF M, X
  <2> QED BY <2>1
<1>5. R \in Seq(X) /\ r \in Nat
  <2>1. R \in Seq({Newline} \cup StatsOf(c)) /\ {Newline} \cup StatsOf(c) \subseteq X
    BY StatsType DEF TokensOf
  <2> HIDE DEF R, X
  <2> QED BY <2>1
<1> HIDE DEF E, A, B, M, R, X
<1>6. /\ F \in Seq(X) /\ Len(F) = 3 + m
      /\ \A i \in 1..(3 + m) : F[i] = IF i <= 3 THEN A[i] ELSE M[i - 3]
  <2>1. /\ F \in Seq(X) /\ Len(F) = Len(A) + m
        /\ \A i \in 1..(Len(A) + m) : F[i] = IF i <= Len(A) THEN A[i] ELSE M[i - Len(A)]
    BY <1>2, <1>4, ConcatProperties
  <2> HIDE DEF F
  <2> QED BY <1>2, <2>1
<1> HIDE DEF F
<1>7. /\ G \in Seq(X) /\ Len(G) = 8 + m
      /\ \A i \in 1..(8 + m) : G[i] = IF i <= 3 + m THEN F[i] ELSE B[i - (3 + m)]
  <2>1. /\ G \in Seq(X) /\ Len(G) = (3 + m) + 5
        /\ \A i \in 1..((3 + m) + 5) : G[i] = IF i <= 3 + m THEN F[i] ELSE B[i - (3 + m)]
    <3>1. /\ G \in Seq(X) /\ Len(G) = Len(F) + Len(B)
          /\ \A i \in 1..(Len(F) + Len(B)) : G[i] = IF i <= Len(F) THEN F[i] ELSE B[i - Len(F)]
      BY <1>3, <1>6, ConcatProperties
    <3> HIDE DEF G
    <3> QED BY <1>3, <1>6, <3>1
  <2>2. (3 + m) + 5 = 8 + m
    BY <1>4
  <2> QED BY <2>1, <2>2
<1> HIDE DEF G
<1>8. /\ E \in Seq(X) /\ Len(E) = 8 + m + r
      /\ \A i \in 1..(8 + m + r) : E[i] = IF i <= 8 + m THEN G[i] ELSE R[i - (8 + m)]
  <2>1. /\ G \o R \in Seq(X) /\ Len(G \o R) = Len(G) + r
        /\ \A i \in 1..(Len(G) + r) : (G \o R)[i] = IF i <= Len(G) THEN G[i] ELSE R[i - Len(G)]
    <3>1. G \in Seq(X) /\ R \in Seq(X)
      BY <1>5, <1>7
    <3> QED BY <3>1, ConcatProperties
  <2>2. /\ E \in Seq(X) /\ Len(E) = Len(G) + r
        /\ \A i \in 1..(Len(G) + r) : E[i] = IF i <= Len(G) THEN G[i] ELSE R[i - Len(G)]
    BY <1>1, <2>1
  <2> QED BY <1>7, <2>2
<1> HIDE DEF m, r
<1>9. \A i \in 1..(8 + m) : E[i] = G[i]
  BY <1>4, <1>5, <1>8
<1>10. \A i \in 1..(3 + m) : E[i] = F[i]
  BY <1>4, <1>7, <1>9
<1>11. E[1] = Sep /\ E[2] = Text(c.sha) /\ E[3] = Sep
  <2>1. 1 \in 1..(3 + m) /\ 2 \in 1..(3 + m) /\ 3 \in 1..(3 + m)
    BY <1>4
  <2> QED BY <1>2, <1>6, <1>10, <2>1
<1>12. ASSUME NEW k \in 1..m PROVE E[3 + k] = M[k]
  <2>1. 3 + k \in 1..(3 + m) /\ ~(3 + k <= 3) /\ (3 + k) - 3 = k
    BY <1>4
  <2> QED BY <1>6, <1>10, <2>1
<1>13. \A k \in 1..5 : E[(3 + m) + k] = B[k]
  <2> TAKE k \in 1..5
  <2>1. (3 + m) + k \in 1..(8 + m) /\ ~((3 + m) + k <= 3 + m) /\ ((3 + m) + k) - (3 + m) = k
    BY <1>4
  <2> QED BY <1>7, <1>9, <2>1
<1>14. /\ E[4 + m] = Sep /\ E[5 + m] = Text(c.author) /\ E[6 + m] = Sep
       /\ E[7 + m] = Text(c.date) /\ E[8 + m] = Newline
  <2>1. /\ (3 + m) + 1 = 4 + m /\ (3 + m) + 2 = 5 + m /\ (3 + m) + 3 = 6 + m
        /\ (3 + m) + 4 = 7 + m /\ (3 + m) + 5 = 8 + m
    BY <1>4
  <2> QED BY <1>3, <1>13, <2>1
<1>15. ASSUME NEW k \in 1..r PROVE E[8 + m + k] = R[k]
  <2>1. 8 + m + k \in 1..(8 + m + r) /\ ~(8 + m + k <= 8 + m) /\ (8 + m + k) - (8 + m) = k
    BY <1>4, <1>5
  <2> QED BY <1>8, <2>1
<1> QED BY <1>4, <1>5, <1>8, <1>11, <1>12, <1>14, <1>15 DEF E, M, R, X, m, r

LEMMA EntrySeps ==
  ASSUME NEW c, OneLine(c)
  PROVE  LET m == Len(c.message)
         IN  \A k \in 1..Len(Entry(c)) : Entry(c)[k] = Sep <=> k \in {1, 3, 4 + m, 6 + m}
<1> DEFINE E == Entry(c)  m == Len(c.message)  r == Len(Rest(c))
<1>1. /\ m \in Nat /\ r \in Nat /\ Len(E) = 8 + m + r
      /\ E[1] = Sep /\ E[2] = Text(c.sha) /\ E[3] = Sep
      /\ \A k \in 1..m : E[3 + k] = c.message[k]
      /\ E[4 + m] = Sep /\ E[5 + m] = Text(c.author) /\ E[6 + m] = Sep
      /\ E[7 + m] = Text(c.date) /\ E[8 + m] = Newline
      /\ \A k \in 1..r : E[8 + m + k] = Rest(c)[k]
  BY EntryIs
<1>2. \A k \in 1..m : c.message[k] # Sep
  BY DEF OneLine, Range
<1>3. \A k \in 1..r : Rest(c)[k] # Sep
  <2>1. Rest(c) \in Seq({Newline} \cup StatsOf(c)) /\ Sep \notin {Newline} \cup StatsOf(c)
    BY StatsType, TokensDiffer DEF StatsOf
  <2> QED BY <2>1, ElementOfSeq
<1> HIDE DEF E, m, r
<1>4. E[2] # Sep /\ E[5 + m] # Sep /\ E[7 + m] # Sep /\ E[8 + m] # Sep
  BY <1>1, TokensDiffer
<1>5. ASSUME NEW k \in 1..(8 + m + r) PROVE E[k] = Sep <=> k \in {1, 3, 4 + m, 6 + m}
  <2>1. \/ k \in {1, 3, 4 + m, 6 + m} \/ k \in {2, 5 + m, 7 + m, 8 + m}
        \/ k - 3 \in 1..m \/ k - (8 + m) \in 1..r
    BY <1>1
  <2>2. CASE k \in {1, 3, 4 + m, 6 + m}
    BY <1>1, <2>2
  <2>3. CASE k \in {2, 5 + m, 7 + m, 8 + m}
    <3>1. k \notin {1, 3, 4 + m, 6 + m}
      BY <1>1, <2>3
    <3> QED BY <1>4, <2>3, <3>1
  <2>4. CASE k - 3 \in 1..m
    <3>1. k \notin {1, 3, 4 + m, 6 + m} /\ 3 + (k - 3) = k
      BY <1>1, <2>4
    <3>2. E[3 + (k - 3)] = c.message[k - 3]
      BY <1>1, <2>4
    <3> QED BY <1>2, <2>4, <3>1, <3>2
  <2>5. CASE k - (8 + m) \in 1..r
    <3>1. k \notin {1, 3, 4 + m, 6 + m} /\ 8 + m + (k - (8 + m)) = k
      BY <1>1, <2>5
    <3>2. E[8 + m + (k - (8 + m))] = Rest(c)[k - (8 + m)]
      BY <1>1, <2>5
    <3> QED BY <1>3, <2>5, <3>1, <3>2
  <2> QED BY <2>1, <2>2, <2>3, <2>4, <2>5
<1> QED BY <1>1, <1>5 DEF E, m

\* What stands between the separators of an entry, and how it is read.
LastPart(c) == <<Text(c.date), Newline>> \o Rest(c)

LEMMA LastPartIs ==
  ASSUME NEW c, OneLine(c)
  PROVE  LET P == LastPart(c)  r == Len(Rest(c))
         IN  /\ P \in Seq(TokensOf(c)) /\ Len(P) = 2 + r /\ r \in Nat
             /\ P[1] = Text(c.date) /\ P[2] = Newline /\ \A k \in 1..r : P[2 + k] = Rest(c)[k]
<1> DEFINE X == TokensOf(c)  T == <<Text(c.date), Newline>>  R == Rest(c)  r == Len(R)  P == T \o R
<1>1. T \in Seq(X) /\ Len(T) = 2 /\ T[1] = Text(c.date) /\ T[2] = Newline
  <2>1. Text(c.date) \in X /\ Newline \in X
    BY DEF TokensOf
  <2> HIDE DEF X
  <2> QED BY <2>1
<1>2. R \in Seq(X) /\ r \in Nat
  <2>1. R \in Seq({Newline} \cup StatsOf(c)) /\ {Newline} \cup StatsOf(c) \subseteq X
    BY StatsType DEF TokensOf
  <2> HIDE DEF R, X
  <2> QED BY <2>1
<1> HIDE DEF X, T, R
<1>3. /\ P \in Seq(X) /\ Len(P) = Len(T) + r
      /\ \A i \in 1..(Len(T) + r) : P[i] = IF i <= Len(T) THEN T[i] ELSE R[i - Len(T)]
  BY <1>1, <1>2, ConcatProperties
<1> HIDE DEF P, r
<1>4. Len(P) = 2 + r /\ \A i \in 1..(2 + r) : P[i] = IF i <= 2 THEN T[i] ELSE R[i - 2]
  BY <1>1, <1>3
<1>5. P[1] = Text(c.date) /\ P[2] = Newline
  <2>1. 1 \in 1..(2 + r) /\ 2 \in 1..(2 + r)
    BY <1>2
  <2> QED BY <1>1, <1>4, <2>1
<1>6. \A k \in 1..r : P[2 + k] = R[k]
  <2> TAKE k \in 1..r
  <2>1. 2 + k \in 1..(2 + r) /\ ~(2 + k <= 2) /\ (2 + k) - 2 = k
    BY <1>2
  <2> QED BY <1>4, <2>1
<1>7. P = LastPart(c)
  BY DEF P, T, R, LastPart
<1> QED BY <1>2, <1>3, <1>4, <1>5, <1>6, <1>7 DEF X, R, r

LEMMA Single ==
  ASSUME NEW X, NEW s \in Seq(X), NEW k \in 1..Len(s)
  PROVE  SubSeq(s, k, k) = <<s[k]>>
<1>1. k \in 1..Len(s) /\ k \in k..Len(s)
  OBVIOUS
<1>2. SubSeq(s, k, k) = SubSeq(s, k, k - 1) \o <<s[k]>>
  BY <1>1, SubSeqRecursiveSecond
<1>3. SubSeq(s, k, k - 1) = <<>>
  BY <1>1, SubSeqEmpty
<1>4. <<s[k]>> \in Seq(X)
  BY <1>1
<1> QED BY <1>2, <1>3, <1>4, ConcatEmptySeq

LEMMA EntryParts ==
  ASSUME NEW c, OneLine(c)
  PROVE  LET E == Entry(c)  m == Len(c.message)
         IN  /\ SubSeq(E, 2, 2) = <<Text(c.sha)>> /\ SubSeq(E, 4, 3 + m) = c.message
             /\ SubSeq(E, 5 + m, 5 + m) = <<Text(c.author)>>
             /\ SubSeq(E, 7 + m, Len(E)) = LastPart(c)
<1> DEFINE E == Entry(c)  M == c.message  m == Len(M)  R == Rest(c)  r == Len(R)  X == TokensOf(c)
           P == LastPart(c)
<1>1. /\ E \in Seq(X) /\ m \in Nat /\ r \in Nat /\ Len(E) = 8 + m + r
      /\ E[2] = Text(c.sha) /\ \A k \in 1..m : E[3 + k] = M[k]
      /\ E[5 + m] = Text(c.author)
      /\ E[7 + m] = Text(c.date) /\ E[8 + m] = Newline
      /\ \A k \in 1..r : E[8 + m + k] = R[k]
  BY EntryIs
<1>2. /\ P \in Seq(X) /\ Len(P) = 2 + r
      /\ P[1] = Text(c.date) /\ P[2] = Newline /\ \A k \in 1..r : P[2 + k] = R[k]
  BY LastPartIs
<1>3. M \in Seq(X)
  <2>1. M \in Seq(Range(M)) /\ Range(M) \subseteq X
    BY DEF OneLine, TokensOf
  <2> HIDE DEF M, X
  <2> QED BY <2>1
<1> HIDE DEF E, M, R, X, P
<1>4. SubSeq(E, 2, 2) = <<Text(c.sha)>> /\ SubSeq(E, 5 + m, 5 + m) = <<Text(c.author)>>
  <2>1. 2 \in 1..Len(E) /\ 5 + m \in 1..Len(E) /\ E \in Seq(X)
    BY <1>1
  <2>2. SubSeq(E, 2, 2) = <<E[2]>> /\ SubSeq(E, 5 + m, 5 + m) = <<E[5 + m]>>
    BY <2>1, Single
  <2> QED BY <1>1, <2>2
<1> HIDE DEF m, r
<1>5. SubSeq(E, 4, 3 + m) = M
  <2> DEFINE s == SubSeq(E, 4, 3 + m)
  <2>1. \A i \in 4..(3 + m) : E[i] \in X
    BY <1>1
  <2>2. 4 \in Int /\ 3 + m \in Int
    BY <1>1
  <2>3. /\ s \in Seq(X) /\ Len(s) = IF 4 <= 3 + m THEN (3 + m) - 4 + 1 ELSE 0
        /\ \A i \in 1..((3 + m) - 4 + 1) : s[i] = E[4 + i - 1]
    BY <2>1, <2>2, SubSeqProperties
  <2> HIDE DEF s
  <2>4. Len(s) = m /\ (3 + m) - 4 + 1 = m
    BY <1>1, <2>3
  <2>5. \A i \in 1..m : s[i] = M[i]
    <3> TAKE i \in 1..m
    <3>1. s[i] = E[4 + i - 1] /\ 4 + i - 1 = 3 + i
      BY <1>1, <2>3, <2>4
    <3> QED BY <1>1, <3>1
  <2>6. Len(M) = m
    BY DEF m
  <2>7. s = M
    BY <1>3, <2>3, <2>4, <2>5, <2>6, SeqEqual
  <2> QED BY <2>7 DEF s
<1>6. SubSeq(E, 7 + m, Len(E)) = P
  <2> DEFINE n == 8 + m + r  s == SubSeq(E, 7 + m, n)
  <2>1. \A i \in (7 + m)..n : E[i] \in X
    BY <1>1
  <2>2. 7 + m \in Int /\ n \in Int
    BY <1>1
  <2>3. /\ s \in Seq(X) /\ Len(s) = IF 7 + m <= n THEN n - (7 + m) + 1 ELSE 0
        /\ \A i \in 1..(n - (7 + m) + 1) : s[i] = E[7 + m + i - 1]
    <3> HIDE DEF n
    <3> QED BY <2>1, <2>2, SubSeqProperties
  <2> HIDE DEF s
  <2>4. Len(s) = 2 + r /\ n - (7 + m) + 1 = 2 + r
    BY <1>1, <2>3
  <2> HIDE DEF n
  <2>5. ASSUME NEW i \in 1..(2 + r) PROVE s[i] = P[i]
    <3>1. s[i] = E[7 + m + i - 1]
      BY <2>3, <2>4
    <3>2. CASE i = 1
      <4>1. 7 + m + 1 - 1 = 7 + m
        BY <1>1
      <4> QED BY <1>1, <1>2, <3>1, <3>2, <4>1
    <3>3. CASE i = 2
      <4>1. 7 + m + 2 - 1 = 8 + m
        BY <1>1
      <4> QED BY <1>1, <1>2, <3>1, <3>3, <4>1
    <3>4. CASE i > 2
      <4> DEFINE j == i - 2
      <4>1. j \in 1..r /\ 7 + m + i - 1 = 8 + m + j /\ i = 2 + j
        BY <1>1, <3>4
      <4> HIDE DEF j
      <4>2. E[8 + m + j] = R[j] /\ P[2 + j] = R[j]
        BY <1>1, <1>2, <4>1
      <4> QED BY <3>1, <4>1, <4>2
    <3>5. i = 1 \/ i = 2 \/ i > 2
      BY <1>1
    <3> QED BY <3>2, <3>3, <3>4, <3>5
  <2>6. s = P
    BY <1>2, <2>3, <2>4, <2>5, SeqEqual
  <2>7. Len(E) = n
    BY <1>1 DEF n
  <2> QED BY <2>6, <2>7 DEF s
<1> QED BY <1>4, <1>5, <1>6 DEF E, M, m, P

LEMMA TrimmedNothing ==
  ASSUME NEW X, NEW s \in Seq(X), Newline \notin Range(s)
  PROVE  Trimmed(s) = s
<1>1. \A k \in 1..Len(s) : s[k] \in Range(s) \ {Newline}
  BY DEF Range
<1>2. Filtered(s, Range(s) \ {Newline}) = s
  BY <1>1, FilteredAll
<1> QED BY <1>2 DEF Trimmed

LEMMA LastPartRead ==
  ASSUME NEW c, OneLine(c)
  PROVE  /\ FirstLine(LastPart(c)) = <<Text(c.date)>>
         /\ Statistics(LastPart(c)) = Statistics(Stats(c.files))
<1> DEFINE P == LastPart(c)  R == Rest(c)  r == Len(R)  X == TokensOf(c)  V == StatsOf(c)
           T == <<Text(c.date), Newline>>  S == Stats(c.files)
<1>1. /\ P \in Seq(X) /\ Len(P) = 2 + r /\ r \in Nat
      /\ P[1] = Text(c.date) /\ P[2] = Newline /\ \A k \in 1..r : P[2 + k] = R[k]
  BY LastPartIs
<1>2. S \in Seq({Newline} \cup V) /\ R \in Seq({Newline} \cup V)
  BY StatsType
<1>3. P = T \o R
  BY DEF LastPart
<1>4. \A v \in V : v[1] = "stat"
  BY TokensDiffer DEF StatsOf
<1>5. Text(c.date)[1] # "stat" /\ Newline[1] # "stat" /\ Text(c.date) # Newline
  BY TokensDiffer
<1>6. Text(c.date) \notin V /\ Newline \notin V
  BY <1>4, <1>5
<1>7. T \in Seq(X) /\ T \in Seq({Text(c.date), Newline})
  <2>1. Text(c.date) \in X /\ Newline \in X
    BY DEF TokensOf
  <2> HIDE DEF X
  <2> QED BY <2>1
<1>8. S \in Seq(X) /\ R \in Seq(X)
  <2>1. {Newline} \cup V \subseteq X
    BY DEF TokensOf
  <2> HIDE DEF X, V, S, R
  <2> QED BY <1>2, <2>1
<1>9. FirstLine(P) = <<Text(c.date)>>
  <2> DEFINE ends == {i \in DOMAIN P : P[i] = Newline}
  <2>1. DOMAIN P = 1..(2 + r)
    <3> HIDE DEF P, X, r
    <3> QED BY <1>1
  <2> HIDE DEF P, r
  <2>2. 2 \in ends /\ 1 \notin ends /\ \A i \in ends : i >= 2
    BY <1>1, <1>5, <2>1
  <2>3. (CHOOSE i \in ends : \A j \in ends : i <= j) = 2
    <3>1. ends \subseteq Int
      BY <2>1
    <3> HIDE DEF ends
    <3> DEFINE x == CHOOSE i \in ends : \A j \in ends : i <= j
    <3>2. \E i \in ends : \A j \in ends : i <= j
      <4>1. \A j \in ends : 2 <= j
        BY <2>2, <3>1
      <4> QED BY <2>2, <4>1
    <3>3. x \in ends /\ \A j \in ends : x <= j
      BY <3>2
    <3> HIDE DEF x
    <3>4. x = 2
      BY <2>2, <3>1, <3>3
    <3> QED BY <3>4 DEF x
  <2>4. FirstLine(P) = SubSeq(P, 1, 2 - 1)
    <3>1. ends # {}
      BY <2>2
    <3>2. FirstLine(P) = IF ends = {} THEN P
                         ELSE SubSeq(P, 1, (CHOOSE i \in ends : \A j \in ends : i <= j) - 1)
      BY DEF FirstLine
    <3> HIDE DEF ends
    <3> QED BY <2>3, <3>1, <3>2
  <2>5. SubSeq(P, 1, 1) = <<P[1]>>
    <3>1. 1 \in 1..Len(P) /\ P \in Seq(X)
      BY <1>1
    <3> QED BY <3>1, Single
  <2> QED BY <1>1, <2>4, <2>5
<1>10. ASSUME NEW s \in Seq(X), \A k \in 1..Len(s) : s[k] \in V \cup {Text(c.date), Newline}
       PROVE  Statistics(s) = Filtered(s, V)
  <2> DEFINE U == {token \in Range(s) : token[1] = "stat"}
  <2>1. ASSUME NEW k \in 1..Len(s) PROVE s[k] \in U <=> s[k] \in V
    <3>1. s[k] \in Range(s) /\ s[k] \in V \cup {Text(c.date), Newline}
      BY <1>10 DEF Range
    <3> HIDE DEF V
    <3> QED BY <1>4, <1>5, <1>6, <3>1
  <2> HIDE DEF U, X, V
  <2>2. Filtered(s, U) = Filtered(s, V)
    BY <2>1, FilteredSame
  <2> QED BY <2>2 DEF Statistics, U
<1> HIDE DEF V
<1>11. Statistics(S) = Filtered(S, V)
  <2>1. \A k \in 1..Len(S) : S[k] \in V \cup {Text(c.date), Newline}
    <3> HIDE DEF S
    <3> QED BY <1>2
  <2> HIDE DEF S, X
  <2> QED BY <1>8, <1>10, <2>1
<1>12. Statistics(P) = Filtered(P, V)
  <2>1. \A k \in 1..Len(P) : P[k] \in V \cup {Text(c.date), Newline}
    <3> HIDE DEF P, R, X
    <3> TAKE k \in 1..Len(P)
    <3>1. k = 1 \/ k = 2 \/ (k - 2 \in 1..r /\ 2 + (k - 2) = k)
      BY <1>1
    <3>2. \A i \in 1..r : R[i] \in {Newline} \cup V
      BY <1>2
    <3> HIDE DEF r
    <3>3. CASE k - 2 \in 1..r /\ 2 + (k - 2) = k
      <4>1. P[2 + (k - 2)] = R[k - 2]
        BY <1>1, <3>3
      <4> QED BY <3>2, <3>3, <4>1
    <3> QED BY <1>1, <3>1, <3>3
  <2> HIDE DEF P, X
  <2> QED BY <1>1, <1>10, <2>1
<1> HIDE DEF X, T, R, S, P
<1>13. Filtered(P, V) = Filtered(T, V) \o Filtered(R, V)
  BY <1>3, <1>7, <1>8, FilteredConcat
<1>14. Filtered(T, V) = <<>>
  <2>1. \A k \in 1..Len(T) : T[k] \notin V
    BY <1>6, <1>7
  <2> QED BY <1>7, <2>1, FilteredNone
<1>15. Filtered(R, V) = Filtered(S, V)
  <2>1. CASE c.files = <<>>
    <3>1. R = <<>>
      BY <2>1 DEF R, Rest
    <3>2. S = <<>>
      <4>1. S = FlattenSeq(<<>>)
        BY <2>1 DEF S, Stats
      <4>2. <<>> \in Seq(Seq({})) /\ Len(<<>>) = 0
        OBVIOUS
      <4>3. PICK t : Joins(t, <<>>) /\ FlattenSeq(<<>>) = t[Len(<<>>)]
        BY <4>2, FlattenTrace
      <4> QED BY <4>1, <4>2, <4>3 DEF Joins
    <3> QED BY <3>1, <3>2
  <2>2. CASE c.files # <<>>
    <3>1. R = <<Newline>> \o S
      BY <2>2 DEF R, S, Rest
    <3>2. <<Newline>> \in Seq(X) /\ \A k \in 1..Len(<<Newline>>) : <<Newline>>[k] \notin V
      BY <1>6 DEF X, TokensOf
    <3> DEFINE W == <<Newline>>
    <3> HIDE DEF W
    <3>3. W \in Seq(X) /\ R = W \o S /\ \A k \in 1..Len(W) : W[k] \notin V
      BY <3>1, <3>2 DEF W
    <3>4. Filtered(R, V) = Filtered(W, V) \o Filtered(S, V) /\ Filtered(W, V) = <<>>
      BY <1>8, <3>3, FilteredConcat, FilteredNone
    <3>5. Filtered(S, V) \in Seq(X \cap V)
      BY <1>8, FilteredType
    <3> QED BY <3>4, <3>5, ConcatEmptySeq
  <2> QED BY <2>1, <2>2
<1>16. Filtered(S, V) \in Seq(X \cap V)
  BY <1>8, FilteredType
<1>17. Filtered(P, V) = Filtered(S, V)
  BY <1>13, <1>14, <1>15, <1>16, ConcatEmptySeq
<1> QED BY <1>9, <1>11, <1>12, <1>17 DEF P, S

LEMMA MeantAsRead ==
  ASSUME NEW c, OneLine(c)
  PROVE  LET E == Entry(c)  m == Len(c.message)
         IN  CommitInfo(Trimmed(SubSeq(E, 2, 2)), Trimmed(SubSeq(E, 4, 3 + m)),
                        Trimmed(SubSeq(E, 5 + m, 5 + m)), FirstLine(SubSeq(E, 7 + m, Len(E))),
                        Statistics(SubSeq(E, 7 + m, Len(E)))) = Meant(c)
<1> DEFINE E == Entry(c)  m == Len(c.message)  X == {Text(c.sha), Text(c.author)}
<1>1. /\ SubSeq(E, 2, 2) = <<Text(c.sha)>> /\ SubSeq(E, 4, 3 + m) = c.message
      /\ SubSeq(E, 5 + m, 5 + m) = <<Text(c.author)>> /\ SubSeq(E, 7 + m, Len(E)) = LastPart(c)
  BY EntryParts
<1>2. ASSUME NEW x \in {c.sha, c.author} PROVE Trimmed(<<Text(x)>>) = <<Text(x)>>
  <2>1. <<Text(x)>> \in Seq(X) /\ Newline \notin Range(<<Text(x)>>)
    BY TokensDiffer DEF Range
  <2> HIDE DEF X
  <2> QED BY <2>1, TrimmedNothing
<1>3. Trimmed(c.message) = c.message
  BY TrimmedNothing DEF OneLine
<1>4. /\ FirstLine(LastPart(c)) = <<Text(c.date)>>
      /\ Statistics(LastPart(c)) = Statistics(Stats(c.files))
  BY LastPartRead
<1>5. Trimmed(<<Text(c.sha)>>) = <<Text(c.sha)>> /\ Trimmed(<<Text(c.author)>>) = <<Text(c.author)>>
  BY <1>2
<1> QED BY <1>1, <1>3, <1>4, <1>5 DEF Meant

\* Four separators an entry.
LEMMA Groups ==
  ASSUME NEW n \in Nat
  PROVE  /\ (4 * n) \div 4 = n
         /\ \A p \in 1..(4 * n) : /\ (p + 3) \div 4 \in 1..n
                                  /\ p - 4 * ((p + 3) \div 4 - 1) \in 1..4
         /\ \A j \in 1..n : \A r \in 1..4 : /\ 4 * (j - 1) + r \in 1..(4 * n)
                                            /\ (4 * (j - 1) + r + 3) \div 4 = j
<1>1. (4 * n) \div 4 = n
  OBVIOUS
<1>2. ASSUME NEW p \in 1..(4 * n)
      PROVE  (p + 3) \div 4 \in 1..n /\ p - 4 * ((p + 3) \div 4 - 1) \in 1..4
  OBVIOUS
<1>3. ASSUME NEW j \in 1..n, NEW r \in 1..4
      PROVE  4 * (j - 1) + r \in 1..(4 * n) /\ (4 * (j - 1) + r + 3) \div 4 = j
  OBVIOUS
<1> QED BY <1>1, <1>2, <1>3

\* A sequence that lies in another, after the first s: so does each part of it.
LiesAt(e, out, s) ==
  s + Len(e) <= Len(out) /\ \A k \in 1..Len(e) : out[s + k] = e[k]

LEMMA Slice ==
  ASSUME NEW X, NEW out \in Seq(X), NEW e \in Seq(X), NEW s \in Nat, LiesAt(e, out, s)
  PROVE  \A a \in 1..Len(e) : \A b \in 0..Len(e) : SubSeq(out, s + a, s + b) = SubSeq(e, a, b)
<1> TAKE a \in 1..Len(e)
<1> TAKE b \in 0..Len(e)
<1> DEFINE x == SubSeq(out, s + a, s + b)  y == SubSeq(e, a, b)
<1>0. s + Len(e) <= Len(out) /\ \A k \in 1..Len(e) : out[s + k] = e[k]
  BY DEF LiesAt
<1>1. Len(e) \in Nat /\ Len(out) \in Nat
  OBVIOUS
<1>2. (\A i \in a..b : e[i] \in X) /\ (\A i \in (s + a)..(s + b) : out[i] \in X)
  <2>1. \A i \in a..b : i \in 1..Len(e)
    BY <1>1
  <2>2. \A i \in (s + a)..(s + b) : i \in 1..Len(out)
    BY <1>0, <1>1
  <2> QED BY <2>1, <2>2
<1>3. /\ y \in Seq(X) /\ Len(y) = IF a <= b THEN b - a + 1 ELSE 0
      /\ \A i \in 1..(b - a + 1) : y[i] = e[a + i - 1]
  <2>1. a \in Int /\ b \in Int
    BY <1>1
  <2> QED BY <1>2, <2>1, SubSeqProperties
<1>4. /\ x \in Seq(X) /\ Len(x) = IF s + a <= s + b THEN (s + b) - (s + a) + 1 ELSE 0
      /\ \A i \in 1..((s + b) - (s + a) + 1) : x[i] = out[s + a + i - 1]
  <2>1. s + a \in Int /\ s + b \in Int
    BY <1>1
  <2> QED BY <1>2, <2>1, SubSeqProperties
<1> HIDE DEF x, y
<1>5. Len(x) = Len(y) /\ (s + b) - (s + a) + 1 = b - a + 1
  BY <1>1, <1>3, <1>4
<1>6. ASSUME NEW i \in 1..Len(x) PROVE x[i] = y[i]
  <2>1. i \in 1..(b - a + 1)
    BY <1>1, <1>3, <1>5
  <2>2. y[i] = e[a + i - 1] /\ x[i] = out[s + a + i - 1]
    BY <1>3, <1>4, <1>5, <2>1
  <2> DEFINE k == a + i - 1
  <2>3. k \in 1..Len(e) /\ s + a + i - 1 = s + k
    BY <1>1, <2>1
  <2> HIDE DEF k
  <2>4. out[s + k] = e[k]
    BY <1>0, <2>3
  <2> QED BY <2>2, <2>3, <2>4 DEF k
<1>7. x = y
  BY <1>3, <1>4, <1>5, <1>6, SeqEqual
<1> QED BY <1>7 DEF x, y

\* The entries after anything without separators are read one by one.
LEMMA LogParsed ==
  ASSUME NEW X, NEW pre \in Seq(X), \A i \in 1..Len(pre) : pre[i] # Sep,
         NEW g, g \in Seq(Range(g)), \A c \in Range(g) : OneLine(c) /\ TokensOf(c) \subseteq X
  PROVE  ParseLogOutput(pre \o LogOutput(g)) = [j \in 1..Len(g) |-> Meant(g[j])]
<1> DEFINE n == Len(g)
           seqs == [i \in DOMAIN g |-> Entry(g[i])]
           out == pre \o LogOutput(g)
<1>1. n \in Nat /\ DOMAIN g = 1..n /\ \A i \in 1..n : OneLine(g[i]) /\ TokensOf(g[i]) \subseteq X
  BY DEF Range
<1>2. \A i \in 1..n : Entry(g[i]) \in Seq(X)
  <2> TAKE i \in 1..n
  <2>1. Entry(g[i]) \in Seq(TokensOf(g[i]))
    BY <1>1, EntryIs
  <2> QED BY <1>1, <2>1
<1>3. seqs \in Seq(Seq(X)) /\ Len(seqs) = n /\ \A i \in 1..n : seqs[i] = Entry(g[i])
  BY <1>1, <1>2
<1>4. out = pre \o FlattenSeq(seqs)
  BY DEF LogOutput
<1> HIDE DEF seqs, out
<1>5. PICK u \in [0..n -> Seq(X)] : Builds(u, pre, seqs) /\ u[n] = out
  <2>1. \E v \in [0..Len(seqs) -> Seq(X)] :
          Builds(v, pre, seqs) /\ v[Len(seqs)] = pre \o FlattenSeq(seqs)
    BY <1>3, Built
  <2> QED BY <1>3, <1>4, <2>1
<1>6. Laid(u, pre, seqs, n)
  <2>1. u \in [0..Len(seqs) -> Seq(X)] /\ n \in 0..Len(seqs)
    BY <1>1, <1>3
  <2> QED BY <1>3, <1>5, <2>1, BuiltParts
<1> DEFINE S(j) == Len(u[j - 1])  M(j) == Len(g[j].message)  L(j) == Len(seqs[j])
<1> HIDE DEF n
<1>7. \A j \in 1..n : S(j) \in Nat /\ M(j) \in Nat /\ L(j) \in Nat /\ L(j) >= 8 + M(j)
  <2> TAKE j \in 1..n
  <2>1. j - 1 \in 0..n
    BY <1>1
  <2>2. u[j - 1] \in Seq(X)
    BY <1>5, <2>1
  <2>3. OneLine(g[j]) /\ seqs[j] = Entry(g[j])
    BY <1>1, <1>3
  <2>4. /\ M(j) \in Nat /\ Len(Rest(g[j])) \in Nat
        /\ Len(Entry(g[j])) = 8 + M(j) + Len(Rest(g[j]))
    BY <2>3, EntryIs
  <2>5. S(j) \in Nat /\ L(j) = 8 + M(j) + Len(Rest(g[j]))
    BY <2>2, <2>3, <2>4
  <2> HIDE DEF S, M, L
  <2>6. L(j) \in Nat /\ L(j) >= 8 + M(j)
    BY <2>4, <2>5
  <2> QED BY <2>4, <2>5, <2>6
<1>8. /\ out \in Seq(X) /\ Len(out) \in Nat
      /\ \A j \in 1..n : Len(u[j]) = S(j) + L(j) /\ S(j) + L(j) <= Len(out)
      /\ \A j \in 1..n : \A k \in 1..L(j) : out[S(j) + k] = seqs[j][k]
  <2>1. n \in 0..n
    BY <1>1
  <2>2. out \in Seq(X)
    BY <1>5, <2>1
  <2>3. ASSUME NEW j \in 1..n
        PROVE  /\ Len(u[j]) = S(j) + L(j) /\ S(j) + L(j) <= Len(out)
               /\ \A k \in 1..L(j) : out[S(j) + k] = seqs[j][k]
    <3>1. u[n] = out
      BY <1>5
    <3>2. \A i \in 1..n : /\ Len(u[i]) = Len(u[i - 1]) + Len(seqs[i]) /\ Len(u[i]) <= Len(u[n])
                          /\ \A k \in 1..Len(seqs[i]) : u[n][Len(u[i - 1]) + k] = seqs[i][k]
      BY <1>6 DEF Laid
    <3>3. /\ Len(u[j]) = Len(u[j - 1]) + Len(seqs[j]) /\ Len(u[j]) <= Len(u[n])
          /\ \A k \in 1..Len(seqs[j]) : u[n][Len(u[j - 1]) + k] = seqs[j][k]
      BY <3>2
    <3>4. Len(u[j - 1]) = S(j) /\ Len(seqs[j]) = L(j)
      OBVIOUS
    <3> HIDE DEF S, L
    <3> QED BY <3>1, <3>3, <3>4
  <2>4. Len(out) \in Nat
    BY <2>2
  <2> HIDE DEF S, L, M
  <2>5. \A j \in 1..n : Len(u[j]) = S(j) + L(j) /\ S(j) + L(j) <= Len(out)
    BY <2>3
  <2>6. \A j \in 1..n : \A k \in 1..L(j) : out[S(j) + k] = seqs[j][k]
    BY <2>3
  <2> QED BY <2>2, <2>4, <2>5, <2>6
<1>9. \A i \in 1..Len(out) : \/ out[i] # Sep
                             \/ \E j \in 1..n : \E k \in 1..L(j) : i = S(j) + k
  <2> TAKE i \in 1..Len(out)
  <2>1. \/ i <= Len(pre) /\ out[i] = pre[i]
        \/ \E j \in 1..n : \E k \in 1..L(j) : i = S(j) + k
    BY <1>5, <1>6 DEF Laid
  <2>2. i <= Len(pre) => pre[i] # Sep
    BY <1>8
  <2> QED BY <2>1, <2>2
<1>10. \A j \in 1..n : \A k \in 1..L(j) : out[S(j) + k] = Sep <=> k \in {1, 3, 4 + M(j), 6 + M(j)}
  <2> TAKE j \in 1..n
  <2>1. OneLine(g[j]) /\ seqs[j] = Entry(g[j])
    BY <1>1, <1>3
  <2>2. \A k \in 1..L(j) : seqs[j][k] = Sep <=> k \in {1, 3, 4 + M(j), 6 + M(j)}
    BY <2>1, EntrySeps
  <2> HIDE DEF S, M, L
  <2> QED BY <1>8, <2>2
<1>11. \A j \in 1..n : j < n => S(j + 1) = S(j) + L(j)
  <2> TAKE j \in 1..n
  <2>1. (j + 1) - 1 = j
    BY <1>1
  <2>2. Len(u[j]) = S(j) + L(j)
    BY <1>8
  <2> QED BY <2>1, <2>2
<1>12. n >= 1 => Len(out) = S(n) + L(n)
  <2>1. n >= 1 => n \in 1..n
    BY <1>1
  <2> QED BY <1>5, <1>8, <2>1
<1>13. \A j \in 1..n : \A a \in 1..L(j) : \A b \in 0..L(j) :
         SubSeq(out, S(j) + a, S(j) + b) = SubSeq(Entry(g[j]), a, b)
  <2> TAKE j \in 1..n
  <2> DEFINE e == Entry(g[j])  s == S(j)
  <2>1. e \in Seq(X) /\ s \in Nat /\ Len(e) = L(j) /\ e = seqs[j]
    BY <1>2, <1>3, <1>7
  <2>2. s + Len(e) <= Len(out) /\ \A k \in 1..Len(e) : out[s + k] = e[k]
    BY <1>8, <2>1
  <2> HIDE DEF e, s
  <2>3. \A a \in 1..Len(e) : \A b \in 0..Len(e) : SubSeq(out, s + a, s + b) = SubSeq(e, a, b)
    <3>1. out \in Seq(X) /\ e \in Seq(X) /\ s \in Nat /\ LiesAt(e, out, s)
      BY <1>8, <2>1, <2>2 DEF LiesAt
    <3> QED BY <3>1, Slice
  <2> QED BY <2>1, <2>3 DEF e, s
<1> HIDE DEF S, M, L
<1> DEFINE At(j, r) == S(j) + (IF r = 1 THEN 1 ELSE IF r = 2 THEN 3 ELSE IF r = 3 THEN 4 + M(j)
                               ELSE 6 + M(j))
           Q(p) == (p + 3) \div 4
           R(p) == p - 4 * (Q(p) - 1)
           q == [p \in 1..(4 * n) |-> At(Q(p), R(p))]
<1>14. \A p \in 1..(4 * n) : Q(p) \in 1..n /\ R(p) \in 1..4
  BY <1>1, Groups
<1>15. \A j \in 1..n : \A r \in 1..4 : 4 * (j - 1) + r \in 1..(4 * n) /\ q[4 * (j - 1) + r] = At(j, r)
  <2> TAKE j \in 1..n
  <2> TAKE r \in 1..4
  <2>1. 4 * (j - 1) + r \in 1..(4 * n) /\ Q(4 * (j - 1) + r) = j
    BY <1>1, Groups
  <2>2. R(4 * (j - 1) + r) = r
    BY <1>1, <2>1
  <2> HIDE DEF Q, R, At
  <2> QED BY <2>1, <2>2
<1>16. \A j \in 1..n : \A r \in 1..4 : At(j, r) \in 1..Len(out)
  <2> TAKE j \in 1..n
  <2> TAKE r \in 1..4
  <2>1. /\ S(j) \in Nat /\ M(j) \in Nat /\ L(j) \in Nat /\ L(j) >= 8 + M(j)
        /\ S(j) + L(j) <= Len(out)
    BY <1>7, <1>8
  <2> DEFINE s == S(j)  m == M(j)  l == L(j)  z == Len(out)
  <2>5. s \in Nat /\ m \in Nat /\ l \in Nat /\ l >= 8 + m /\ s + l <= z /\ z \in Nat
    BY <1>8, <2>1
  <2>6. At(j, 1) = s + 1 /\ At(j, 2) = s + 3 /\ At(j, 3) = s + (4 + m) /\ At(j, 4) = s + (6 + m)
    OBVIOUS
  <2> HIDE DEF At, s, m, l, z
  <2>7. s + 1 \in 1..z /\ s + 3 \in 1..z /\ s + (4 + m) \in 1..z /\ s + (6 + m) \in 1..z
    BY <2>5
  <2>2. At(j, 1) \in 1..Len(out) /\ At(j, 2) \in 1..Len(out)
    BY <2>6, <2>7 DEF z
  <2>3. At(j, 3) \in 1..Len(out) /\ At(j, 4) \in 1..Len(out)
    BY <2>6, <2>7 DEF z
  <2>4. r = 1 \/ r = 2 \/ r = 3 \/ r = 4
    OBVIOUS
  <2> QED BY <2>2, <2>3, <2>4
<1>17. q \in Seq(1..Len(out)) /\ Len(q) = 4 * n
  <2>1. \A p \in 1..(4 * n) : At(Q(p), R(p)) \in 1..Len(out)
    BY <1>14, <1>16
  <2> HIDE DEF Q, R, At
  <2> QED BY <1>1, <2>1
<1>18. ASSUME NEW p \in 1..Len(q), p < Len(q) PROVE q[p] < q[p + 1]
  <2> DEFINE j == Q(p)  r == R(p)
  <2>1. p \in 1..(4 * n) /\ p + 1 \in 1..(4 * n) /\ j \in 1..n /\ r \in 1..4 /\ p = 4 * (j - 1) + r
    BY <1>1, <1>14, <1>17, <1>18
  <2> HIDE DEF j, r, Q, R, q
  <2>2. q[p] = At(j, r)
    BY <1>15, <2>1
  <2>3. S(j) \in Nat /\ M(j) \in Nat /\ L(j) \in Nat /\ L(j) >= 8 + M(j)
    BY <1>7, <2>1
  <2>4. CASE r < 4
    <3>1. r + 1 \in 1..4 /\ p + 1 = 4 * (j - 1) + (r + 1)
      BY <1>1, <2>1, <2>4
    <3>2. q[p + 1] = At(j, r + 1)
      BY <1>15, <2>1, <3>1
    <3>3. At(j, r) < At(j, r + 1)
      <4>1. At(j, 1) < At(j, 2) /\ At(j, 2) < At(j, 3) /\ At(j, 3) < At(j, 4)
        <5> DEFINE s == S(j)  m == M(j)
        <5>1. s \in Nat /\ m \in Nat
          BY <2>3
        <5>2. /\ At(j, 1) = s + 1 /\ At(j, 2) = s + 3
              /\ At(j, 3) = s + (4 + m) /\ At(j, 4) = s + (6 + m)
          OBVIOUS
        <5> HIDE DEF At, s, m
        <5>3. s + 1 < s + 3 /\ s + 3 < s + (4 + m) /\ s + (4 + m) < s + (6 + m)
          BY <5>1
        <5> QED BY <5>2, <5>3
      <4>2. (r = 1 /\ r + 1 = 2) \/ (r = 2 /\ r + 1 = 3) \/ (r = 3 /\ r + 1 = 4)
        BY <2>1, <2>4
      <4> HIDE DEF At
      <4>3. CASE r = 1 /\ r + 1 = 2
        BY <4>1, <4>3
      <4>4. CASE r = 2 /\ r + 1 = 3
        BY <4>1, <4>4
      <4>5. CASE r = 3 /\ r + 1 = 4
        BY <4>1, <4>5
      <4> QED BY <4>2, <4>3, <4>4, <4>5
    <3> QED BY <2>2, <3>2, <3>3
  <2>5. CASE r = 4
    <3>1. j < n /\ j + 1 \in 1..n /\ 1 \in 1..4 /\ p + 1 = 4 * ((j + 1) - 1) + 1
      BY <1>1, <2>1, <2>5
    <3>2. q[p + 1] = At(j + 1, 1)
      BY <1>15, <3>1
    <3>3. S(j + 1) = S(j) + L(j)
      BY <1>11, <2>1, <3>1
    <3>4. At(j, 4) < At(j + 1, 1)
      BY <2>3, <3>3
    <3> HIDE DEF At
    <3> QED BY <2>2, <2>5, <3>2, <3>4
  <2> QED BY <2>1, <2>4, <2>5
<1>19. ASSUME NEW i \in 1..Len(out) PROVE out[i] = Sep <=> \E p \in 1..Len(q) : i = q[p]
  <2>1. ASSUME out[i] = Sep PROVE \E p \in 1..Len(q) : i = q[p]
    <3>1. PICK j \in 1..n : \E k \in 1..L(j) : i = S(j) + k
      BY <1>9, <2>1
    <3>2. PICK k \in 1..L(j) : i = S(j) + k
      BY <3>1
    <3>3. k \in {1, 3, 4 + M(j), 6 + M(j)}
      BY <1>10, <2>1, <3>2
    <3>4. PICK r \in 1..4 : i = At(j, r)
      <4>1. k = 1 => i = At(j, 1)
        BY <3>2
      <4>2. k = 3 => i = At(j, 2)
        BY <3>2
      <4>3. k = 4 + M(j) => i = At(j, 3)
        BY <3>2
      <4>4. k = 6 + M(j) => i = At(j, 4)
        BY <3>2
      <4> HIDE DEF At
      <4> QED BY <3>3, <4>1, <4>2, <4>3, <4>4
    <3> HIDE DEF At, q
    <3>5. 4 * (j - 1) + r \in 1..Len(q) /\ i = q[4 * (j - 1) + r]
      BY <1>15, <1>17, <3>4
    <3> QED BY <3>5
  <2>2. ASSUME NEW p \in 1..Len(q), i = q[p] PROVE out[i] = Sep
    <3> DEFINE j == Q(p)  r == R(p)
    <3>1. p \in 1..(4 * n) /\ j \in 1..n /\ r \in 1..4
      BY <1>14, <1>17
    <3>2. i = At(j, r)
      BY <2>2, <3>1
    <3> HIDE DEF j, r, q
    <3>3. PICK k \in 1..L(j) : i = S(j) + k /\ k \in {1, 3, 4 + M(j), 6 + M(j)}
      <4>1. S(j) \in Nat /\ M(j) \in Nat /\ L(j) \in Nat /\ L(j) >= 8 + M(j)
        BY <1>7, <3>1
      <4>2. /\ 1 \in 1..L(j) /\ 3 \in 1..L(j) /\ 4 + M(j) \in 1..L(j) /\ 6 + M(j) \in 1..L(j)
        <5> DEFINE m == M(j)  l == L(j)
        <5>1. m \in Nat /\ l \in Nat /\ l >= 8 + m
          BY <4>1
        <5> HIDE DEF m, l
        <5>2. 1 \in 1..l /\ 3 \in 1..l /\ 4 + m \in 1..l /\ 6 + m \in 1..l
          BY <5>1
        <5> QED BY <5>2 DEF m, l
      <4>3. CASE r = 1
        <5>1. i = S(j) + 1
          BY <3>2, <4>3
        <5> QED BY <4>2, <5>1
      <4>4. CASE r = 2
        <5>1. i = S(j) + 3
          BY <3>2, <4>4
        <5> QED BY <4>2, <5>1
      <4>5. CASE r = 3
        <5>1. i = S(j) + (4 + M(j))
          BY <3>2, <4>5
        <5> QED BY <4>2, <5>1
      <4>6. CASE r = 4
        <5>1. i = S(j) + (6 + M(j))
          BY <3>2, <4>6
        <5> QED BY <4>2, <5>1
      <4> QED BY <3>1, <4>3, <4>4, <4>5, <4>6
    <3> QED BY <1>10, <3>1, <3>3
  <2> QED BY <2>1, <2>2
<1>20. Separators(out) = q
  <2> HIDE DEF q
  <2> QED BY <1>8, <1>17, <1>18, <1>19, Enumerated
<1>21. ASSUME NEW j \in 1..n
       PROVE  /\ Part(out, 4 * j - 3) = SubSeq(Entry(g[j]), 2, 2)
              /\ Part(out, 4 * j - 2) = SubSeq(Entry(g[j]), 4, 3 + M(j))
              /\ Part(out, 4 * j - 1) = SubSeq(Entry(g[j]), 5 + M(j), 5 + M(j))
              /\ Part(out, 4 * j) = SubSeq(Entry(g[j]), 7 + M(j), L(j))
  <2> HIDE DEF q, Q, R
  <2> DEFINE s == S(j)  m == M(j)  l == L(j)
  <2>1. s \in Nat /\ m \in Nat /\ l \in Nat /\ l >= 8 + m /\ s + l <= Len(out)
    BY <1>7, <1>8
  <2>2. \A k : Part(out, k) = SubSeq(out, q[k] + 1, IF k < 4 * n THEN q[k + 1] - 1 ELSE Len(out))
    BY <1>17, <1>20 DEF Part
  <2>3. /\ 4 * (j - 1) + 1 = 4 * j - 3 /\ 4 * (j - 1) + 2 = 4 * j - 2
        /\ 4 * (j - 1) + 3 = 4 * j - 1 /\ 4 * (j - 1) + 4 = 4 * j
        /\ (4 * j - 3) + 1 = 4 * j - 2 /\ (4 * j - 2) + 1 = 4 * j - 1 /\ (4 * j - 1) + 1 = 4 * j
        /\ 4 * j - 3 < 4 * n /\ 4 * j - 2 < 4 * n /\ 4 * j - 1 < 4 * n
    BY <1>1
  <2>4. /\ q[4 * j - 3] = s + 1 /\ q[4 * j - 2] = s + 3
        /\ q[4 * j - 1] = s + (4 + m) /\ q[4 * j] = s + (6 + m)
    <3>1. /\ q[4 * (j - 1) + 1] = At(j, 1) /\ q[4 * (j - 1) + 2] = At(j, 2)
          /\ q[4 * (j - 1) + 3] = At(j, 3) /\ q[4 * (j - 1) + 4] = At(j, 4)
      <4> HIDE DEF At
      <4> QED BY <1>15
    <3> QED BY <2>3, <3>1
  <2>5. (IF 4 * j < 4 * n THEN q[4 * j + 1] - 1 ELSE Len(out)) = s + l
    <3>1. CASE j < n
      <4>1. 4 * j < 4 * n /\ j + 1 \in 1..n /\ 4 * ((j + 1) - 1) + 1 = 4 * j + 1
        BY <1>1, <3>1
      <4>2. q[4 * j + 1] = At(j + 1, 1)
        BY <1>15, <4>1
      <4>3. S(j + 1) = s + l
        BY <1>11, <3>1
      <4>4. At(j + 1, 1) - 1 = s + l
        BY <2>1, <4>3
      <4> HIDE DEF At
      <4> QED BY <4>1, <4>2, <4>4
    <3>2. CASE ~(j < n)
      <4>1. j = n /\ n >= 1 /\ ~(4 * j < 4 * n)
        BY <1>1, <3>2
      <4> QED BY <1>12, <4>1
    <3> QED BY <3>1, <3>2
  <2> HIDE DEF At
  <2>6. /\ Part(out, 4 * j - 3) = SubSeq(out, (s + 1) + 1, (s + 3) - 1)
        /\ Part(out, 4 * j - 2) = SubSeq(out, (s + 3) + 1, (s + (4 + m)) - 1)
        /\ Part(out, 4 * j - 1) = SubSeq(out, (s + (4 + m)) + 1, (s + (6 + m)) - 1)
        /\ Part(out, 4 * j) = SubSeq(out, (s + (6 + m)) + 1, s + l)
    BY <2>2, <2>3, <2>4, <2>5
  <2>7. \A a \in 1..l : \A b \in 0..l : SubSeq(out, s + a, s + b) = SubSeq(Entry(g[j]), a, b)
    BY <1>13
  <2> HIDE DEF s, m, l
  <2>8. /\ (s + 1) + 1 = s + 2 /\ (s + 3) - 1 = s + 2
        /\ (s + 3) + 1 = s + 4 /\ (s + (4 + m)) - 1 = s + (3 + m)
        /\ (s + (4 + m)) + 1 = s + (5 + m) /\ (s + (6 + m)) - 1 = s + (5 + m)
        /\ (s + (6 + m)) + 1 = s + (7 + m)
        /\ 2 \in 1..l /\ 4 \in 1..l /\ 5 + m \in 1..l /\ 7 + m \in 1..l
        /\ 2 \in 0..l /\ 3 + m \in 0..l /\ 5 + m \in 0..l /\ l \in 0..l
    BY <2>1
  <2>9. /\ Part(out, 4 * j - 3) = SubSeq(Entry(g[j]), 2, 2)
        /\ Part(out, 4 * j - 2) = SubSeq(Entry(g[j]), 4, 3 + m)
        /\ Part(out, 4 * j - 1) = SubSeq(Entry(g[j]), 5 + m, 5 + m)
        /\ Part(out, 4 * j) = SubSeq(Entry(g[j]), 7 + m, l)
    <3>1. SubSeq(out, s + 2, s + 2) = SubSeq(Entry(g[j]), 2, 2)
      BY <2>7, <2>8
    <3>2. SubSeq(out, s + 4, s + (3 + m)) = SubSeq(Entry(g[j]), 4, 3 + m)
      BY <2>7, <2>8
    <3>3. SubSeq(out, s + (5 + m), s + (5 + m)) = SubSeq(Entry(g[j]), 5 + m, 5 + m)
      BY <2>7, <2>8
    <3>4. SubSeq(out, s + (7 + m), s + l) = SubSeq(Entry(g[j]), 7 + m, l)
      BY <2>7, <2>8
    <3> QED BY <2>6, <2>8, <3>1, <3>2, <3>3, <3>4
  <2> QED BY <2>9 DEF m, l
<1> HIDE DEF At, Q, R, q
<1>22. ASSUME NEW j \in 1..n
       PROVE  CommitInfo(Trimmed(Part(out, 4 * j - 3)), Trimmed(Part(out, 4 * j - 2)),
                         Trimmed(Part(out, 4 * j - 1)), FirstLine(Part(out, 4 * j)),
                         Statistics(Part(out, 4 * j))) = Meant(g[j])
  <2>1. M(j) = Len(g[j].message) /\ L(j) = Len(Entry(g[j])) /\ OneLine(g[j])
    BY <1>1, <1>3 DEF M, L
  <2> QED BY <1>21, <2>1, MeantAsRead
<1>23. Len(Separators(out)) \div 4 = n
  BY <1>1, <1>17, <1>20, Groups
<1> DEFINE commits == [j \in 1..n |-> Meant(g[j])]
<1>24. ParseLogOutput(out) = Identified(commits)
  BY <1>22, <1>23, Zenon DEF ParseLogOutput
<1>25. Identified(commits) = commits
  <2>1. \A j \in 1..n : Meant(g[j]).sha # <<>>
    BY DEF Meant, CommitInfo
  <2>2. n \in Nat /\ DOMAIN commits = 1..n /\ \A j \in 1..n : commits[j] = Meant(g[j])
    BY <1>1
  <2> HIDE DEF commits
  <2>3. Range(commits) = {commits[j] : j \in 1..n}
    BY <2>2 DEF Range
  <2>4. commits \in Seq(Range(commits))
    <3>1. commits = [j \in 1..n |-> Meant(g[j])]
      BY DEF commits
    <3>2. \A j \in 1..n : Meant(g[j]) \in Range(commits)
      BY <2>2, <2>3
    <3> QED BY <2>2, <3>1, <3>2
  <2>5. commits \in Seq(Range(commits)) /\ \A c \in Range(commits) : c.sha # <<>>
    BY <2>1, <2>2, <2>3, <2>4
  <2>6. \A i \in 1..Len(commits) : commits[i] \in {c \in Range(commits) : c.sha # <<>>}
    BY <2>5
  <2> QED BY <2>5, <2>6, FilteredAll DEF Identified
<1> QED BY <1>24, <1>25 DEF n, out

\* The same pieces make the same sequence.
Alike(u, v, N) ==
  u[0] = v[0] /\ \A k \in 1..N : \E e : u[k] = u[k - 1] \o e /\ v[k] = v[k - 1] \o e

LEMMA SameBuilt ==
  ASSUME NEW N \in Nat, NEW u, NEW v, Alike(u, v, N)
  PROVE  \A k \in 0..N : u[k] = v[k]
<1> DEFINE G == {k \in 0..N : u[k] = v[k]}
<1>1. 0 \in G
  BY DEF Alike
<1>2. ASSUME NEW k \in 1..N, k - 1 \in G PROVE k \in G
  <2>1. u[k - 1] = v[k - 1] /\ k \in 0..N
    BY <1>2
  <2>2. PICK e : u[k] = u[k - 1] \o e /\ v[k] = v[k - 1] \o e
    BY DEF Alike
  <2> QED BY <2>1, <2>2
<1>3. \A k \in 0..N : k \in G
  <2> HIDE DEF G
  <2> QED BY <1>1, <1>2, UpTo
<1> QED BY <1>3

\* What the first b of some sequences make, and the rest after it.
LEMMA FlattenParts ==
  ASSUME NEW X, NEW seqs \in Seq(Seq(X)), NEW t \in [0..Len(seqs) -> Seq(X)], Joins(t, seqs),
         FlattenSeq(seqs) = t[Len(seqs)], NEW b \in 0..Len(seqs)
  PROVE  /\ FlattenSeq(SubSeq(seqs, 1, b)) = t[b]
         /\ FlattenSeq(seqs) = t[b] \o FlattenSeq(SubSeq(seqs, b + 1, Len(seqs)))
<1> DEFINE n == Len(seqs)
<1>1. n \in Nat /\ b \in Nat /\ b <= n /\ n - b \in Nat
  OBVIOUS
<1>2. t[0] = <<>> /\ \A k \in 1..n : t[k] = t[k - 1] \o seqs[k]
  BY DEF Joins
<1>3. FlattenSeq(SubSeq(seqs, 1, b)) = t[b]
  <2> DEFINE p == SubSeq(seqs, 1, b)
  <2>1. p \in Seq(Seq(X)) /\ Len(p) = b /\ \A k \in 1..b : p[k] = seqs[k]
    BY <1>1, SubSeqProperties
  <2> HIDE DEF p
  <2>2. PICK u \in [0..Len(p) -> Seq(X)] : Joins(u, p) /\ FlattenSeq(p) = u[Len(p)]
    BY <2>1, FlattenTrace
  <2>3. \A k \in 1..b : \E e : u[k] = u[k - 1] \o e /\ t[k] = t[k - 1] \o e
    <3> TAKE k \in 1..b
    <3>1. k \in 1..n
      BY <1>1
    <3>2. u[k] = u[k - 1] \o p[k] /\ p[k] = seqs[k]
      BY <2>1, <2>2 DEF Joins
    <3>3. t[k] = t[k - 1] \o seqs[k]
      BY <1>2, <3>1
    <3> QED BY <3>2, <3>3
  <2>4. u[0] = t[0] /\ b \in 0..b
    BY <1>1, <1>2, <2>2 DEF Joins
  <2>5. \A k \in 0..b : u[k] = t[k]
    <3>1. Alike(u, t, b)
      BY <2>3, <2>4 DEF Alike
    <3> QED BY <1>1, <3>1, SameBuilt
  <2> QED BY <2>1, <2>2, <2>4, <2>5 DEF p
<1>4. FlattenSeq(seqs) = t[b] \o FlattenSeq(SubSeq(seqs, b + 1, n))
  <2> DEFINE q == SubSeq(seqs, b + 1, n)  v == [m \in 0..(n - b) |-> t[b + m]]
  <2>1. q \in Seq(Seq(X)) /\ Len(q) = n - b /\ \A k \in 1..(n - b) : q[k] = seqs[b + k]
    <3>1. /\ q \in Seq(Seq(X)) /\ Len(q) = IF b + 1 <= n THEN n - (b + 1) + 1 ELSE 0
          /\ \A k \in 1..(n - (b + 1) + 1) : q[k] = seqs[(b + 1) + k - 1]
      <4>1. b + 1 \in Int /\ n \in Int /\ \A i \in (b + 1)..n : seqs[i] \in Seq(X)
        BY <1>1
      <4> QED BY <4>1, SubSeqProperties
    <3> HIDE DEF q, n
    <3>2. n - (b + 1) + 1 = n - b /\ \A k \in 1..(n - b) : (b + 1) + k - 1 = b + k
      BY <1>1
    <3> QED BY <1>1, <3>1, <3>2
  <2> HIDE DEF q
  <2>2. t[b] \in Seq(X)
    OBVIOUS
  <2>3. PICK u \in [0..Len(q) -> Seq(X)] :
          Builds(u, t[b], q) /\ u[Len(q)] = t[b] \o FlattenSeq(q)
    BY <2>1, <2>2, Built
  <2>4. \A k \in 1..(n - b) : \E e : u[k] = u[k - 1] \o e /\ v[k] = v[k - 1] \o e
    <3> TAKE k \in 1..(n - b)
    <3>1. b + k \in 1..n /\ k \in 0..(n - b) /\ k - 1 \in 0..(n - b) /\ (b + k) - 1 = b + (k - 1)
      BY <1>1
    <3>2. u[k] = u[k - 1] \o q[k] /\ q[k] = seqs[b + k]
      BY <2>1, <2>3 DEF Builds
    <3>3. t[b + k] = t[b + (k - 1)] \o seqs[b + k]
      BY <1>2, <3>1
    <3>4. v[k] = t[b + k] /\ v[k - 1] = t[b + (k - 1)]
      BY <3>1
    <3> QED BY <3>2, <3>3, <3>4
  <2>5. u[0] = v[0] /\ n - b \in 0..(n - b) /\ v[n - b] = t[n]
    <3>1. 0 \in 0..(n - b) /\ n - b \in 0..(n - b) /\ b + 0 = b /\ b + (n - b) = n
      BY <1>1
    <3> QED BY <2>3, <3>1 DEF Builds
  <2> HIDE DEF v
  <2>6. \A k \in 0..(n - b) : u[k] = v[k]
    <3>1. Alike(u, v, n - b)
      BY <2>4, <2>5 DEF Alike
    <3> QED BY <1>1, <3>1, SameBuilt
  <2> QED BY <2>1, <2>3, <2>5, <2>6 DEF q
<1> QED BY <1>3, <1>4

LEMMA EntriesOf ==
  ASSUME NEW R, NEW h \in Seq(R), NEW a \in 1..(Len(h) + 1), NEW b \in 0..Len(h)
  PROVE  LogOutput(SubSeq(h, a, b)) = FlattenSeq(SubSeq([i \in DOMAIN h |-> Entry(h[i])], a, b))
<1> DEFINE X == {Entry(c) : c \in R}
           seqs == [i \in DOMAIN h |-> Entry(h[i])]
           p == SubSeq(h, a, b)
           q == SubSeq(seqs, a, b)
           s == [i \in DOMAIN p |-> Entry(p[i])]
<1>1. Len(h) \in Nat /\ DOMAIN h = 1..Len(h) /\ a \in Int /\ b \in Int /\ b - a + 1 \in Int
  OBVIOUS
<1>2. seqs \in Seq(X) /\ Len(seqs) = Len(h) /\ \A i \in 1..Len(h) : seqs[i] = Entry(h[i])
  BY <1>1
<1>3. \A i \in a..b : i \in 1..Len(h)
  BY <1>1
<1>4. /\ p \in Seq(R) /\ Len(p) = IF a <= b THEN b - a + 1 ELSE 0
      /\ \A i \in 1..(b - a + 1) : p[i] = h[a + i - 1]
  <2>1. \A i \in a..b : h[i] \in R
    BY <1>3
  <2> QED BY <1>1, <2>1, SubSeqProperties
<1> HIDE DEF seqs, X
<1>5. /\ q \in Seq(X) /\ Len(q) = IF a <= b THEN b - a + 1 ELSE 0
      /\ \A i \in 1..(b - a + 1) : q[i] = seqs[a + i - 1]
  <2>1. \A i \in a..b : seqs[i] \in X
    BY <1>2, <1>3
  <2> QED BY <1>1, <2>1, SubSeqProperties
<1> HIDE DEF p, q
<1>6. s \in Seq(X) /\ Len(s) = Len(p) /\ \A i \in 1..Len(p) : s[i] = Entry(p[i])
  BY <1>4 DEF X
<1> HIDE DEF s
<1>7. ASSUME NEW i \in 1..Len(s) PROVE s[i] = q[i]
  <2>1. i \in 1..(b - a + 1) /\ a + i - 1 \in 1..Len(h)
    BY <1>1, <1>4, <1>6
  <2> QED BY <1>2, <1>4, <1>5, <1>6, <2>1
<1>8. s = q
  BY <1>4, <1>5, <1>6, <1>7, SeqEqual
<1> QED BY <1>8 DEF LogOutput, s, p, q, seqs

\* The log entry by entry: what its first entries make, and the others.
LEMMA LogParts ==
  ASSUME NEW X, NEW h, h \in Seq(Range(h)),
         \A c \in Range(h) : OneLine(c) /\ TokensOf(c) \subseteq X
  PROVE  \E t \in [0..Len(h) -> Seq(X)] :
           /\ t[0] = <<>> /\ \A k \in 1..Len(h) : t[k] = t[k - 1] \o Entry(h[k])
           /\ \A b \in 0..Len(h) : /\ LogOutput(SubSeq(h, 1, b)) = t[b]
                                   /\ LogOutput(h) = t[b] \o LogOutput(SubSeq(h, b + 1, Len(h)))
           /\ \A l \in 0..Len(h) : \A j \in 0..l : Len(t[j]) <= Len(t[l])
<1> DEFINE n == Len(h)
           seqs == [i \in DOMAIN h |-> Entry(h[i])]
<1>1. n \in Nat /\ DOMAIN h = 1..n /\ \A i \in 1..n : OneLine(h[i]) /\ TokensOf(h[i]) \subseteq X
  BY DEF Range
<1>2. \A i \in 1..n : Entry(h[i]) \in Seq(X)
  <2> TAKE i \in 1..n
  <2>1. Entry(h[i]) \in Seq(TokensOf(h[i]))
    BY <1>1, EntryIs
  <2> QED BY <1>1, <2>1
<1>3. seqs \in Seq(Seq(X)) /\ Len(seqs) = n /\ \A i \in 1..n : seqs[i] = Entry(h[i])
  BY <1>1, <1>2
<1>4. LogOutput(h) = FlattenSeq(seqs)
  BY DEF LogOutput
<1>5. \A a \in 1..(n + 1) : \A b \in 0..n : LogOutput(SubSeq(h, a, b)) = FlattenSeq(SubSeq(seqs, a, b))
  BY EntriesOf
<1> HIDE DEF seqs, n
<1>6. PICK t \in [0..n -> Seq(X)] : Joins(t, seqs) /\ FlattenSeq(seqs) = t[n]
  <2>1. \E t \in [0..Len(seqs) -> Seq(X)] : Joins(t, seqs) /\ FlattenSeq(seqs) = t[Len(seqs)]
    BY <1>3, FlattenTrace
  <2> QED BY <1>3, <2>1
<1>7. t[0] = <<>> /\ \A k \in 1..n : t[k] = t[k - 1] \o Entry(h[k])
  BY <1>3, <1>6 DEF Joins
<1>8. ASSUME NEW b \in 0..n
      PROVE  /\ LogOutput(SubSeq(h, 1, b)) = t[b]
             /\ LogOutput(h) = t[b] \o LogOutput(SubSeq(h, b + 1, n))
  <2>1. t \in [0..Len(seqs) -> Seq(X)] /\ FlattenSeq(seqs) = t[Len(seqs)] /\ b \in 0..Len(seqs)
    BY <1>3, <1>6
  <2>2. /\ FlattenSeq(SubSeq(seqs, 1, b)) = t[b]
        /\ FlattenSeq(seqs) = t[b] \o FlattenSeq(SubSeq(seqs, b + 1, Len(seqs)))
    BY <1>3, <1>6, <2>1, FlattenParts
  <2>3. 1 \in 1..(n + 1) /\ b + 1 \in 1..(n + 1) /\ n \in 0..n
    BY <1>1
  <2>4. LogOutput(SubSeq(h, 1, b)) = FlattenSeq(SubSeq(seqs, 1, b))
    BY <1>5, <2>3
  <2>5. LogOutput(SubSeq(h, b + 1, n)) = FlattenSeq(SubSeq(seqs, b + 1, n))
    BY <1>5, <2>3
  <2> QED BY <1>3, <1>4, <2>2, <2>4, <2>5
<1>9. ASSUME NEW l \in 0..n, NEW j \in 0..l PROVE Len(t[j]) <= Len(t[l])
  <2>1. Builds(t, <<>>, seqs)
    BY <1>6 DEF Builds, Joins
  <2>2. t \in [0..Len(seqs) -> Seq(X)] /\ l \in 0..Len(seqs) /\ <<>> \in Seq(X)
    BY <1>3, <1>6
  <2>3. Laid(t, <<>>, seqs, l)
    BY <1>3, <2>1, <2>2, BuiltParts
  <2>4. Len(t[l]) \in Nat
    BY <1>6
  <2>5. CASE j = 0
    BY <1>7, <2>4, <2>5
  <2>6. CASE j # 0
    <3>1. j \in 1..l
      BY <1>1, <2>6
    <3> QED BY <2>3, <3>1 DEF Laid
  <2> QED BY <2>5, <2>6
<1> QED BY <1>6, <1>7, <1>8, <1>9 DEF n

\* The tail of two sequences that starts in the first.
LEMMA TailOfTwo ==
  ASSUME NEW X, NEW a \in Seq(X), NEW b \in Seq(X), NEW l \in 0..Len(a)
  PROVE  SubSeq(a \o b, l + 1, Len(a \o b)) = SubSeq(a, l + 1, Len(a)) \o b
<1> DEFINE m == Len(a)  k == Len(b)  c == a \o b
           x == SubSeq(c, l + 1, Len(c))  y == SubSeq(a, l + 1, m)  z == y \o b
<1>1. m \in Nat /\ k \in Nat /\ l \in Nat /\ l <= m
  OBVIOUS
<1>2. /\ c \in Seq(X) /\ Len(c) = m + k
      /\ \A i \in 1..(m + k) : c[i] = IF i <= m THEN a[i] ELSE b[i - m]
  BY ConcatProperties
<1> HIDE DEF c
<1>3. /\ x \in Seq(X) /\ Len(x) = (m + k) - l /\ \A i \in 1..((m + k) - l) : x[i] = c[l + i]
  <2> HIDE DEF m, k
  <2>1. l + 1 \in Int /\ Len(c) \in Int /\ \A i \in (l + 1)..Len(c) : c[i] \in X
    <3>1. \A i \in (l + 1)..Len(c) : i \in 1..Len(c)
      BY <1>1, <1>2
    <3> QED BY <1>1, <1>2, <3>1
  <2>2. /\ x \in Seq(X) /\ Len(x) = IF l + 1 <= Len(c) THEN Len(c) - (l + 1) + 1 ELSE 0
        /\ \A i \in 1..(Len(c) - (l + 1) + 1) : x[i] = c[(l + 1) + i - 1]
    BY <2>1, SubSeqProperties
  <2> HIDE DEF x
  <2>3. Len(c) - (l + 1) + 1 = (m + k) - l /\ \A i \in 1..((m + k) - l) : (l + 1) + i - 1 = l + i
    BY <1>1, <1>2
  <2>4. Len(x) = (m + k) - l
    BY <1>1, <1>2, <2>2
  <2> QED BY <2>2, <2>3, <2>4
<1>4. /\ y \in Seq(X) /\ Len(y) = m - l /\ \A i \in 1..(m - l) : y[i] = a[l + i]
  <2>1. l + 1 \in Int /\ m \in Int /\ \A i \in (l + 1)..m : a[i] \in X
    <3>1. \A i \in (l + 1)..m : i \in 1..Len(a)
      BY <1>1
    <3> QED BY <1>1, <3>1
  <2>2. /\ y \in Seq(X) /\ Len(y) = IF l + 1 <= m THEN m - (l + 1) + 1 ELSE 0
        /\ \A i \in 1..(m - (l + 1) + 1) : y[i] = a[(l + 1) + i - 1]
    BY <2>1, SubSeqProperties
  <2> HIDE DEF y, m
  <2>3. m - (l + 1) + 1 = m - l /\ \A i \in 1..(m - l) : (l + 1) + i - 1 = l + i
    BY <1>1
  <2>4. Len(y) = m - l
    BY <1>1, <2>2
  <2> QED BY <2>2, <2>3, <2>4
<1> HIDE DEF y, x
<1>5. /\ z \in Seq(X) /\ Len(z) = Len(y) + Len(b)
      /\ \A i \in 1..(Len(y) + Len(b)) : z[i] = IF i <= Len(y) THEN y[i] ELSE b[i - Len(y)]
  BY <1>4, ConcatProperties
<1> HIDE DEF z
<1>6. Len(z) = Len(x) /\ Len(x) = (m - l) + k
  <2> HIDE DEF m, k
  <2>1. Len(b) = k
    BY DEF k
  <2> QED BY <1>1, <1>3, <1>4, <1>5, <2>1
<1>7. ASSUME NEW i \in 1..Len(x) PROVE x[i] = z[i]
  <2>1. Len(b) = k /\ Len(a) = m
    BY DEF k, m
  <2> HIDE DEF m, k
  <2>2. /\ i \in 1..((m + k) - l) /\ l + i \in 1..(m + k) /\ i \in 1..(Len(y) + Len(b))
        /\ i \in Nat
    BY <1>1, <1>4, <1>6, <2>1
  <2>3. x[i] = c[l + i] /\ c[l + i] = IF l + i <= m THEN a[l + i] ELSE b[(l + i) - m]
    BY <1>2, <1>3, <2>2
  <2>4. z[i] = IF i <= Len(y) THEN y[i] ELSE b[i - Len(y)]
    BY <1>5, <2>2
  <2>5. (l + i <= m <=> i <= m - l) /\ (l + i) - m = i - (m - l)
    BY <1>1, <2>2
  <2>6. i <= m - l => y[i] = a[l + i]
    <3>1. i <= m - l => i \in 1..(m - l)
      BY <2>2
    <3> QED BY <1>4, <3>1
  <2> QED BY <1>4, <2>3, <2>4, <2>5, <2>6
<1>8. x = z
  BY <1>3, <1>5, <1>6, <1>7, SeqEqual
<1> QED BY <1>8 DEF x, y, z, c, m

\* The commits that begin after what is lost are the last ones.
LEMMA WholeAre ==
  ASSUME NEW h, h \in Seq(Range(h)), NEW lost \in Nat, NEW S,
         S \in [0..Len(h) -> Nat], \A i \in 1..Len(h) : StartsAt(h, i) = S[i - 1] + 1,
         \A l \in 0..Len(h) : \A j \in 0..l : S[j] <= S[l]
  PROVE  \E b \in 0..Len(h) :
           /\ b # 0 => StartsAt(h, b) <= lost
           /\ b # Len(h) => S[b] >= lost
           /\ Cardinality(Whole(h, lost)) = Len(h) - b
<1> DEFINE n == Len(h)
           B == {k \in 1..(n + 1) : k = n + 1 \/ StartsAt(h, k) > lost}
<1>1. n \in Nat /\ DOMAIN h = 1..n
  OBVIOUS
<1> HIDE DEF n
<1>2. B \subseteq Nat /\ n + 1 \in B
  BY <1>1
<1>3. PICK a \in B : \A k \in B : a <= k
  <2> HIDE DEF B
  <2> QED BY <1>2, LeastNumber
<1>4. a \in 1..(n + 1) /\ a - 1 \in 0..n /\ (a - 1) + 1 = a
  BY <1>1, <1>3
<1>5. \A i \in 1..n : i < a => StartsAt(h, i) <= lost
  <2> TAKE i \in 1..n
  <2>1. i \in 1..(n + 1) /\ (i < a => i \notin B)
    BY <1>1, <1>3, <1>4
  <2>2. i - 1 \in 0..n /\ StartsAt(h, i) \in Nat
    <3>1. i - 1 \in 0..n /\ StartsAt(h, i) = S[i - 1] + 1
      BY <1>1 DEF n
    <3>2. S[i - 1] \in Nat
      BY <3>1 DEF n
    <3> QED BY <3>1, <3>2
  <2> QED BY <2>1, <2>2
<1>6. \A i \in 1..n : i >= a => StartsAt(h, i) > lost
  <2> TAKE i \in 1..n
  <2> HAVE i >= a
  <2>1. a # n + 1 /\ a \in 1..n /\ a - 1 \in 0..(i - 1) /\ i - 1 \in 0..n
    BY <1>1, <1>4
  <2>2. StartsAt(h, a) > lost
    BY <1>3, <2>1
  <2>3. StartsAt(h, a) = S[a - 1] + 1 /\ StartsAt(h, i) = S[i - 1] + 1
    BY <2>1 DEF n
  <2>4. S[a - 1] <= S[i - 1] /\ S[a - 1] \in Nat /\ S[i - 1] \in Nat
    BY <1>4, <2>1 DEF n
  <2> QED BY <2>2, <2>3, <2>4
<1>7. Whole(h, lost) = a..n
  <2>1. ASSUME NEW i \in 1..n PROVE StartsAt(h, i) > lost <=> i >= a
    <3>1. i - 1 \in 0..n /\ StartsAt(h, i) = S[i - 1] + 1
      BY <1>1 DEF n
    <3>2. S[i - 1] \in Nat
      BY <3>1 DEF n
    <3>3. i >= a \/ i < a
      BY <1>4
    <3> QED BY <1>5, <1>6, <3>1, <3>2, <3>3
  <2>2. \A i : i \in a..n <=> i \in 1..n /\ i >= a
    BY <1>1, <1>4
  <2> QED BY <1>1, <2>1, <2>2 DEF Whole
<1>8. Cardinality(a..n) = n - (a - 1)
  <2>1. Cardinality(a..n) = IF a <= n THEN n - a + 1 ELSE 0
    BY <1>1, <1>4, FS_Interval
  <2> QED BY <1>1, <1>4, <2>1
<1>9. a - 1 # 0 => StartsAt(h, a - 1) <= lost
  <2>1. a - 1 # 0 => a - 1 \in 1..n /\ a - 1 < a
    BY <1>1, <1>4
  <2> QED BY <1>5, <2>1
<1>10. a - 1 # n => S[a - 1] >= lost
  <2> HAVE a - 1 # n
  <2>1. a \in 1..n /\ a >= a
    BY <1>1, <1>4
  <2>2. StartsAt(h, a) > lost /\ StartsAt(h, a) = S[a - 1] + 1 /\ S[a - 1] \in Nat
    BY <1>4, <1>6, <2>1 DEF n
  <2> QED BY <2>2
<1> WITNESS a - 1 \in 0..Len(h)
<1> QED BY <1>4, <1>7, <1>8, <1>9, <1>10 DEF n

\* What a cut after the fields of an entry leaves of it holds no separator.
LEMMA TailSeps ==
  ASSUME NEW X, NEW a \in Seq(X), NEW c, OneLine(c), Entry(c) \in Seq(X),
         NEW l \in 0..Len(a \o Entry(c)), l >= Len(a) + 6 + Len(c.message)
  PROVE  LET y == SubSeq(a \o Entry(c), l + 1, Len(a \o Entry(c)))
         IN  y \in Seq(X) /\ \A i \in 1..Len(y) : y[i] # Sep
<1> DEFINE e == Entry(c)  d == a \o e  m == Len(c.message)  s == Len(a)  z == Len(d)
           y == SubSeq(d, l + 1, z)
<1>0. l \in 0..z /\ l >= s + 6 + m
  OBVIOUS
<1>1. m \in Nat /\ \A k \in 1..Len(e) : e[k] = Sep <=> k \in {1, 3, 4 + m, 6 + m}
  BY EntryIs, EntrySeps
<1> HIDE DEF e
<1>2. s \in Nat /\ Len(e) \in Nat
  BY DEF e
<1>3. /\ d \in Seq(X) /\ z = s + Len(e)
      /\ \A i \in 1..(s + Len(e)) : d[i] = IF i <= s THEN a[i] ELSE e[i - s]
  BY ConcatProperties DEF e
<1> HIDE DEF d, m, s, z
<1>4. l \in Nat /\ l <= z /\ l >= s + 6 + m
  BY <1>0, <1>2, <1>3
<1>5. /\ y \in Seq(X) /\ Len(y) = z - l /\ \A i \in 1..(z - l) : y[i] = d[l + i]
  <2>0. z = Len(d)
    BY DEF z
  <2>1. l + 1 \in Int /\ z \in Int /\ \A i \in (l + 1)..z : d[i] \in X
    <3>1. \A i \in (l + 1)..z : i \in 1..Len(d)
      BY <1>2, <1>3, <1>4, <2>0
    <3> QED BY <1>2, <1>3, <1>4, <3>1
  <2>2. /\ y \in Seq(X) /\ Len(y) = IF l + 1 <= z THEN z - (l + 1) + 1 ELSE 0
        /\ \A i \in 1..(z - (l + 1) + 1) : y[i] = d[(l + 1) + i - 1]
    BY <2>1, SubSeqProperties
  <2> HIDE DEF y
  <2>3. z - (l + 1) + 1 = z - l /\ \A i \in 1..(z - l) : (l + 1) + i - 1 = l + i
    BY <1>4, <2>1
  <2>4. Len(y) = z - l
    BY <1>4, <2>1, <2>2
  <2> QED BY <2>2, <2>3, <2>4
<1> HIDE DEF y
<1>6. ASSUME NEW i \in 1..Len(y) PROVE y[i] # Sep
  <2>1. i \in 1..(z - l) /\ l + i \in 1..(s + Len(e)) /\ ~(l + i <= s)
    BY <1>1, <1>2, <1>3, <1>4, <1>5
  <2>2. y[i] = e[(l + i) - s]
    BY <1>3, <1>5, <2>1
  <2> DEFINE k == (l + i) - s
  <2>3. k \in 1..Len(e) /\ k > 6 + m
    BY <1>1, <1>2, <1>4, <2>1
  <2> HIDE DEF k
  <2>4. k \notin {1, 3, 4 + m, 6 + m}
    BY <1>1, <2>3
  <2> QED BY <1>1, <2>2, <2>3, <2>4 DEF k
<1> QED BY <1>5, <1>6 DEF y, d, e, z

\* A log that the size limit did not cut inside the fields of a commit.
LEMMA LogKept ==
  ASSUME NEW h, h \in Seq(Range(h)), \A c \in Range(h) : OneLine(c),
         NEW lost \in Nat, ~CutThrough(h, lost)
  PROVE  ParseLogOutput(TruncateOutput(LogOutput(h), lost))
           = [j \in 1..Cardinality(Whole(h, lost)) |->
                Meant(h[Len(h) - Cardinality(Whole(h, lost)) + j])]
<1> DEFINE n == Len(h)
           T == Text("truncated")
           X == (UNION {TokensOf(c) : c \in Range(h)}) \cup {T, Newline}
           out == LogOutput(h)
<1>1. n \in Nat /\ DOMAIN h = 1..n /\ \A i \in 1..n : h[i] \in Range(h)
  BY DEF Range
<1>2. \A c \in Range(h) : OneLine(c) /\ TokensOf(c) \subseteq X
  OBVIOUS
<1>3. T \in X /\ Newline \in X /\ T # Sep /\ Newline # Sep
  <2>1. T # Sep /\ Newline # Sep
    BY TokensDiffer
  <2> HIDE DEF T
  <2> QED BY <2>1
<1> HIDE DEF X, T
<1>4. PICK t \in [0..n -> Seq(X)] :
        /\ t[0] = <<>> /\ \A k \in 1..n : t[k] = t[k - 1] \o Entry(h[k])
        /\ \A b \in 0..n : /\ LogOutput(SubSeq(h, 1, b)) = t[b]
                           /\ LogOutput(h) = t[b] \o LogOutput(SubSeq(h, b + 1, n))
        /\ \A l \in 0..n : \A j \in 0..l : Len(t[j]) <= Len(t[l])
  BY <1>2, LogParts
<1> DEFINE S == [i \in 0..n |-> Len(t[i])]
<1>5. S \in [0..n -> Nat]
  BY <1>4
<1>6. \A i \in 1..n : i - 1 \in 0..n /\ StartsAt(h, i) = Len(t[i - 1]) + 1
  <2> TAKE i \in 1..n
  <2>1. i - 1 \in 0..n
    BY <1>1
  <2> QED BY <1>4, <2>1 DEF StartsAt
<1>7. PICK b \in 0..n : /\ b # 0 => StartsAt(h, b) <= lost
                        /\ b # n => Len(t[b]) >= lost
                        /\ Cardinality(Whole(h, lost)) = n - b
  <2>1. \A i \in 1..n : StartsAt(h, i) = S[i - 1] + 1
    BY <1>6
  <2>2. \A l \in 0..n : \A j \in 0..l : S[j] <= S[l]
    <3> TAKE l \in 0..n
    <3> TAKE j \in 0..l
    <3>1. j \in 0..n
      BY <1>1
    <3> QED BY <1>4, <3>1
  <2>3. \A b \in 0..n : S[b] = Len(t[b])
    OBVIOUS
  <2> HIDE DEF S
  <2>4. \E b \in 0..n : /\ b # 0 => StartsAt(h, b) <= lost
                        /\ b # n => S[b] >= lost
                        /\ Cardinality(Whole(h, lost)) = n - b
    BY <1>5, <2>1, <2>2, WholeAre
  <2> QED BY <2>3, <2>4
<1> DEFINE g == SubSeq(h, b + 1, n)  rest == LogOutput(g)
<1>8. /\ g \in Seq(Range(h)) /\ Len(g) = n - b /\ \A i \in 1..(n - b) : g[i] = h[b + i]
  <2>1. b + 1 \in Int /\ n \in Int /\ \A i \in (b + 1)..n : h[i] \in Range(h)
    BY <1>1
  <2>2. /\ g \in Seq(Range(h)) /\ Len(g) = IF b + 1 <= n THEN n - (b + 1) + 1 ELSE 0
        /\ \A i \in 1..(n - (b + 1) + 1) : g[i] = h[(b + 1) + i - 1]
    BY <2>1, SubSeqProperties
  <2> HIDE DEF g, n
  <2>3. n - (b + 1) + 1 = n - b /\ \A i \in 1..(n - b) : (b + 1) + i - 1 = b + i
    BY <1>1
  <2>4. Len(g) = n - b
    BY <1>1, <2>2
  <2> QED BY <2>2, <2>3, <2>4
<1> HIDE DEF g
<1>9. g \in Seq(Range(g)) /\ \A c \in Range(g) : OneLine(c) /\ TokensOf(c) \subseteq X
  <2>1. Range(g) \subseteq Range(h)
    <3>1. \A i \in DOMAIN g : g[i] \in Range(h)
      BY <1>8
    <3> QED BY <3>1 DEF Range
  <2>2. g \in Seq(Range(g))
    BY <1>8 DEF Range
  <2> QED BY <1>2, <2>1, <2>2
<1>10. out = t[b] \o rest /\ t[b] \in Seq(X)
  BY <1>4 DEF g
<1>11. rest \in Seq(X)
  <2>1. PICK u \in [0..Len(g) -> Seq(X)] : LogOutput(SubSeq(g, 1, Len(g))) = u[Len(g)]
    <3>1. Len(g) \in 0..Len(g)
      BY <1>8
    <3>2. \E u \in [0..Len(g) -> Seq(X)] :
            \A a \in 0..Len(g) : LogOutput(SubSeq(g, 1, a)) = u[a]
      BY <1>9, LogParts
    <3> QED BY <3>1, <3>2
  <2>2. SubSeq(g, 1, Len(g)) = g /\ Len(g) \in 0..Len(g)
    BY <1>8
  <2> QED BY <2>1, <2>2
<1> HIDE DEF rest, out
<1>12. \E pre \in Seq(X) : /\ TruncateOutput(out, lost) = pre \o rest
                           /\ \A i \in 1..Len(pre) : pre[i] # Sep
  <2>1. CASE lost = 0
    <3>1. b = 0
      <4>1. b # 0 => b \in 1..n
        BY <1>1
      <4>2. b # 0 => StartsAt(h, b) = Len(t[b - 1]) + 1 /\ Len(t[b - 1]) \in Nat
        BY <1>4, <1>6, <4>1
      <4> QED BY <1>7, <2>1, <4>2
    <3>2. TruncateOutput(out, lost) = t[b] \o rest /\ t[b] = <<>>
      BY <1>4, <1>10, <2>1, <3>1 DEF TruncateOutput
    <3>3. \A i \in 1..Len(t[b]) : t[b][i] # Sep
      BY <3>2
    <3> WITNESS t[b] \in Seq(X)
    <3> QED BY <3>2, <3>3
  <2>2. CASE lost # 0
    <3> DEFINE w == <<T, Newline>>  y == SubSeq(out, lost + 1, Len(out))
    <3>1. TruncateOutput(out, lost) = w \o y
      BY <2>2 DEF TruncateOutput, T
    <3>2. w \in Seq(X) /\ Len(w) = 2 /\ \A i \in 1..Len(w) : w[i] # Sep
      BY <1>3
    <3> HIDE DEF w
    <3>3. CASE lost <= Len(t[b]) /\ b # 0
      <4> DEFINE x == SubSeq(t[b], lost + 1, Len(t[b]))
      <4>1. lost \in 0..Len(t[b])
        BY <1>10, <3>3
      <4>2. y = x \o rest
        BY <1>10, <1>11, <4>1, TailOfTwo
      <4>3. x \in Seq(X) /\ \A i \in 1..Len(x) : x[i] # Sep
        <5>1. b \in 1..n /\ b - 1 \in 0..n
          BY <1>1, <3>3
        <5> DEFINE c == h[b]  a == t[b - 1]
        <5>2. OneLine(c) /\ a \in Seq(X) /\ t[b] = a \o Entry(c)
          BY <1>1, <1>2, <1>4, <5>1
        <5>3. Entry(c) \in Seq(X)
          <6>1. Entry(c) \in Seq(TokensOf(c)) /\ TokensOf(c) \subseteq X
            BY <1>1, <1>2, <5>1, <5>2, EntryIs
          <6> QED BY <6>1
        <5>4. lost >= Len(a) + 6 + Len(c.message)
          <6>1. StartsAt(h, b) = Len(a) + 1 /\ StartsAt(h, b) <= lost
            BY <1>6, <1>7, <3>3, <5>1
          <6>2. lost \notin StartsAt(h, b) .. (StartsAt(h, b) + 4 + Len(c.message))
            <7>1. \A i \in DOMAIN h : lost \notin StartsAt(h, i) .. (StartsAt(h, i) + 4 + Len(h[i].message))
              BY Zenon DEF CutThrough
            <7> QED BY <1>1, <5>1, <7>1
          <6>3. Len(a) \in Nat /\ Len(c.message) \in Nat
            <7> HIDE DEF a, c
            <7>1. c.message \in Seq(Range(c.message))
              BY <5>2 DEF OneLine
            <7> QED BY <5>2, <7>1
          <6> HIDE DEF a, c
          <6> QED BY <6>1, <6>2, <6>3
        <5> HIDE DEF a, c
        <5>5. lost \in 0..Len(a \o Entry(c))
          BY <4>1, <5>2
        <5> QED BY <5>2, <5>3, <5>4, <5>5, TailSeps
      <4> HIDE DEF x, y
      <4>4. Associate(w, x, rest)
        BY <1>11, <3>2, <4>3, Associative
      <4>5. TruncateOutput(out, lost) = (w \o x) \o rest
        BY <3>1, <4>2, <4>4 DEF Associate
      <4>6. w \o x \in Seq(X) /\ \A i \in 1..Len(w \o x) : (w \o x)[i] # Sep
        <5>1. /\ w \o x \in Seq(X) /\ Len(w \o x) = Len(w) + Len(x)
              /\ \A i \in 1..(Len(w) + Len(x)) :
                   (w \o x)[i] = IF i <= Len(w) THEN w[i] ELSE x[i - Len(w)]
          BY <3>2, <4>3, ConcatProperties
        <5>2. Len(x) \in Nat
          BY <4>3
        <5> DEFINE v == w \o x
        <5> HIDE DEF v
        <5>3. ASSUME NEW i \in 1..Len(v) PROVE v[i] # Sep
          <6>1. i \in 1..(2 + Len(x)) /\ v[i] = IF i <= 2 THEN w[i] ELSE x[i - 2]
            BY <3>2, <5>1 DEF v
          <6>2. i <= 2 => i \in 1..Len(w)
            BY <3>2, <6>1
          <6>3. ~(i <= 2) => i - 2 \in 1..Len(x)
            BY <5>2, <6>1
          <6> QED BY <3>2, <4>3, <6>1, <6>2, <6>3
        <5> QED BY <5>1, <5>3 DEF v
      <4> QED BY <4>5, <4>6
    <3>4. CASE ~(lost <= Len(t[b]) /\ b # 0)
      <4>1. b = n
        <5>1. Len(t[b]) \in Nat /\ (b = 0 => Len(t[b]) = 0)
          BY <1>4, <1>10
        <5> QED BY <1>7, <2>2, <3>4, <5>1
      <4>2. rest = <<>>
        <5>1. g = <<>> /\ DOMAIN g = {}
          BY <1>1, <1>8, <4>1
        <5>2. rest = FlattenSeq(<<>>)
          BY <5>1 DEF rest, LogOutput
        <5>3. <<>> \in Seq(Seq(X)) /\ Len(<<>>) = 0
          OBVIOUS
        <5> QED BY <5>2, <5>3, FlattenTrace DEF Joins
      <4>3. out = t[b] /\ Len(out) \in Nat /\ Len(out) < lost
        <5>1. out = t[b] /\ Len(out) \in Nat
          BY <1>10, <4>2, ConcatEmptySeq
        <5>2. b = 0 => Len(out) = 0
          BY <1>4, <5>1
        <5> QED BY <2>2, <3>4, <5>1, <5>2
      <4>4. y = <<>>
        BY <4>3
      <4> HIDE DEF y
      <4>5. TruncateOutput(out, lost) = w \o rest
        BY <3>1, <4>2, <4>4
      <4> QED BY <3>2, <4>5
    <3> QED BY <3>3, <3>4
  <2> QED BY <2>1, <2>2
<1>13. ParseLogOutput(TruncateOutput(out, lost)) = [j \in 1..Len(g) |-> Meant(g[j])]
  <2>1. PICK pre \in Seq(X) : /\ TruncateOutput(out, lost) = pre \o rest
                              /\ \A i \in 1..Len(pre) : pre[i] # Sep
    BY <1>12
  <2>2. ParseLogOutput(pre \o LogOutput(g)) = [j \in 1..Len(g) |-> Meant(g[j])]
    BY <1>9, <2>1, LogParsed
  <2> QED BY <2>1, <2>2 DEF rest
<1>14. \A j \in 1..(n - b) : g[j] = h[n - (n - b) + j]
  <2>1. n - (n - b) = b
    BY <1>1
  <2> QED BY <1>8, <2>1
<1> QED BY <1>7, <1>8, <1>13, <1>14 DEF out, n

LEMMA AskedLog ==
  ASSUME Inv, Asked("log")
  PROVE  /\ question.history \in Histories /\ question.lost \in Nat
         /\ answer.is = ParseLogOutput(TruncateOutput(LogOutput(question.history), question.lost))
<1>1. question \in Questions /\ question.about = "log"
  BY DEF Inv, Asked
<1>2. question.history \in Histories /\ question.lost \in 0..MaxLost
  BY <1>1 DEF Questions
<1>3. answer.is = ParseLogOutput(TruncateOutput(LogOutput(question.history), question.lost))
  BY <1>1 DEF Inv, RightlyAnswered, Answered, Asked, Given, Unanswered
<1> QED BY <1>2, <1>3, BoundsAssumption

LEMMA LogHolds == ASSUME Inv PROVE LogRead
<1> DEFINE h == question.history  lost == question.lost
<1> SUFFICES ASSUME Asked("log"), ~CutThrough(h, lost), ~\E i \in DOMAIN h : Contains(h[i].message, Sep)
             PROVE  answer.is = [j \in 1..Cardinality(Whole(h, lost)) |->
                                   Meant(h[Len(h) - Cardinality(Whole(h, lost)) + j])]
  BY DEF LogRead
<1>1. /\ h \in Histories /\ lost \in Nat
      /\ answer.is = ParseLogOutput(TruncateOutput(LogOutput(h), lost))
  BY AskedLog
<1> HIDE DEF h, lost
<1>2. h \in Seq(Range(h))
  BY <1>1, HistoriesAssumption
<1>3. ASSUME NEW c \in Range(h) PROVE OneLine(c)
  <2>1. /\ c.message \in Seq(Range(c.message)) /\ Newline \notin Range(c.message)
        /\ c.files \in Seq(Range(c.files))
    BY <1>1, HistoriesAssumption
  <2>2. PICK i \in DOMAIN h : c = h[i]
    BY DEF Range
  <2>3. ~Contains(c.message, Sep)
    BY <2>2
  <2>4. Sep \notin Range(c.message)
    BY <2>1, <2>3 DEF Contains, Range
  <2> QED BY <2>1, <2>4 DEF OneLine
<1> QED BY <1>1, <1>2, <1>3, LogKept

\* What git and sbx wrote is read as it was written, whatever the commits, the
\* outputs, the rules, the diffs and the tables: parse_log_output
\* (repo_sync_manager.rs), scan_commits_inner (secret_scanner.rs),
\* extract_sandbox_name, derive_default_policy and the tables (sbx.rs).
THEOREM OutputsReadAlways == FormsSpec => []OutputsRead
<1>1. Inv => OutputsRead
  BY LogHolds, NameHolds, PoliciesHold, TablesHold, ScanHolds DEF OutputsRead
<1> QED BY <1>1, InvAlways, PTL
=============================================================================
