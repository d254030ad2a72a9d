--------------------------- MODULE InductionLemmas ---------------------------
(***************************************************************************)
(* Induction over the natural numbers, stated about sets instead of        *)
(* predicates, so that a proof can cite it with the set of the numbers for *)
(* which something holds; and, by this induction, what the operators on    *)
(* queues return.                                                          *)
(***************************************************************************)
EXTENDS QueueOps, SequenceTheorems, WellFoundedInduction, TLAPS

\* A set that holds 0 and the successor of each of its numbers holds them all.
LEMMA NatSetInduction ==
    ASSUME NEW S, 0 \in S, \A n \in Nat : n \in S => n + 1 \in S
    PROVE  \A n \in Nat : n \in S
<1> DEFINE T == Nat \ S
<1> SUFFICES ASSUME T # {} PROVE FALSE
  OBVIOUS
<1>1. PICK n \in T : \A m \in T : ~(<<m, n>> \in OpToRel(<, Nat))
  BY NatLessThanWellFounded, WFMin, Zenon
<1>2. \A m \in T : ~(m < n)
  BY <1>1 DEF OpToRel
<1>3. n # 0
  OBVIOUS
<1>4. n - 1 \in Nat /\ n - 1 < n
  BY <1>3
<1>5. n - 1 \in S
  BY <1>2, <1>4
<1> QED
  BY <1>4, <1>5

\* The same for an interval that starts at 0.
LEMMA IntervalInduction ==
    ASSUME NEW N \in Nat, NEW S, 0 \in S, \A n \in 0..(N - 1) : n \in S => n + 1 \in S
    PROVE  \A n \in 0..N : n \in S
<1> DEFINE T == {n \in Nat : n <= N => n \in S}
<1>1. 0 \in T
  OBVIOUS
<1>2. ASSUME NEW n \in Nat, n \in T PROVE n + 1 \in T
  BY <1>2
<1>3. \A n \in Nat : n \in T
  <2> HIDE DEF T
  <2> QED
    BY <1>1, <1>2, NatSetInduction
<1> QED
  BY <1>3

\* A set of numbers has a least one.
LEMMA LeastNumber ==
    ASSUME NEW S \in SUBSET Nat, S # {}
    PROVE  \E n \in S : \A m \in S : n <= m
<1>1. PICK n \in S : \A m \in S : ~(<<m, n>> \in OpToRel(<, Nat))
  BY NatLessThanWellFounded, WFMin, Zenon
<1>2. \A m \in S : ~(m < n)
  BY <1>1 DEF OpToRel
<1> QED
  BY <1>2

\* A set of numbers up to N has a greatest one.
LEMMA GreatestNumber ==
    ASSUME NEW N \in Nat, NEW S \in SUBSET (0..N), S # {}
    PROVE  \E n \in S : \A m \in S : n >= m
<1> DEFINE T == {k \in 0..N : N - k \in S}
<1>1. T \in SUBSET Nat
  OBVIOUS
<1>2. T # {}
  <2>1. PICK m \in S : TRUE
    OBVIOUS
  <2>2. N - m \in 0..N /\ N - (N - m) = m
    OBVIOUS
  <2> QED
    BY <2>1, <2>2
<1>3. PICK k \in T : \A j \in T : k <= j
  <2> HIDE DEF T
  <2> QED
    BY <1>1, <1>2, LeastNumber
<1>4. \A m \in S : N - m \in T
  OBVIOUS
<1>5. ASSUME NEW m \in S PROVE N - k >= m
  <2>1. k <= N - m
    BY <1>3, <1>4
  <2>2. m \in 0..N /\ k \in 0..N
    OBVIOUS
  <2> HIDE DEF T
  <2> QED
    BY <2>1, <2>2
<1> QED
  BY <1>5

---------------------------------------------------------------------------
(* Queues *)

\* Keep goes over the elements of s one by one.
Sifts(f, s, S) ==
    /\ f[0] = <<>>
    /\ \A n \in 1..Len(s) : f[n] = IF s[n] \in S THEN Append(f[n - 1], s[n]) ELSE f[n - 1]

\* The recursive function of Keep exists, and Keep is its last value.
LEMMA KeepSifts ==
    ASSUME NEW s, Len(s) \in Nat, NEW S
    PROVE  \E f : Sifts(f, s, S) /\ Keep(s, S) = f[Len(s)]
<1> DEFINE N == Len(s)
           Step(r, n) == IF s[n] \in S THEN Append(r, s[n]) ELSE r
           Eq(f, m) == f = [n \in 0..m |-> IF n = 0 THEN <<>>
                                           ELSE IF s[n] \in S THEN Append(f[n - 1], s[n])
                                           ELSE f[n - 1]]
           M == {m \in Nat : \E f : Eq(f, m)}
<1>1. 0 \in M
  <2> DEFINE f == [n \in 0..0 |-> <<>>]
  <2>1. Eq(f, 0)
    OBVIOUS
  <2> QED
    BY <2>1
<1>2. ASSUME NEW m \in Nat, m \in M PROVE m + 1 \in M
  <2>1. PICK f : Eq(f, m)
    BY <1>2
  <2> DEFINE g == [n \in 0..(m + 1) |-> IF n = m + 1 THEN Step(f[m], n) ELSE f[n]]
  <2>2. \A n \in 0..m : f[n] = IF n = 0 THEN <<>> ELSE Step(f[n - 1], n)
    BY <2>1
  <2>3. \A n \in 0..(m + 1) : g[n] = IF n = 0 THEN <<>> ELSE Step(g[n - 1], n)
    <3> HIDE DEF Step
    <3> QED
      BY <2>2
  <2>4. Eq(g, m + 1)
    <3>1. g = [n \in 0..(m + 1) |-> g[n]]
      OBVIOUS
    <3>2. \A n \in 0..(m + 1) : g[n] = IF n = 0 THEN <<>>
                                       ELSE IF s[n] \in S THEN Append(g[n - 1], s[n])
                                       ELSE g[n - 1]
      BY <2>3
    <3> HIDE DEF g
    <3> QED
      BY <3>1, <3>2
  <2>5. \E h : Eq(h, m + 1)
    <3> HIDE DEF Eq, g
    <3> QED
      BY <2>4
  <2> HIDE DEF Eq
  <2> QED
    BY <2>5
<1>3. \E f : Eq(f, N)
  <2>1. N \in M
    <3> HIDE DEF M
    <3> QED
      BY <1>1, <1>2, NatSetInduction
  <2> HIDE DEF Eq
  <2> QED
    BY <2>1
<1> DEFINE h == CHOOSE f : Eq(f, N)
<1>4. Eq(h, N)
  <2> HIDE DEF Eq
  <2> QED
    BY <1>3
<1>5. Keep(s, S) = h[N]
  BY DEF Keep
<1>6. Sifts(h, s, S)
  <2> HIDE DEF h
  <2>1. \A n \in 0..N : h[n] = IF n = 0 THEN <<>> ELSE Step(h[n - 1], n)
    BY <1>4
  <2>2. h[0] = <<>>
    BY <2>1
  <2>3. ASSUME NEW n \in 1..N PROVE h[n] = Step(h[n - 1], n)
    <3>1. n \in 0..N /\ n # 0
      OBVIOUS
    <3> HIDE DEF Step
    <3> QED
      BY <2>1, <3>1
  <2> QED
    BY <2>2, <2>3 DEF Sifts
<1> QED
  BY <1>5, <1>6

\* k is the subsequence of the first n elements of s that are in S: place i of k is
\* place g[i] of s.
Selects(g, k, s, n, S) ==
    /\ g \in [1..Len(k) -> 1..n]
    /\ \A i \in 1..Len(k) : k[i] = s[g[i]] /\ k[i] \in S
    /\ \A i, j \in 1..Len(k) : i < j => g[i] < g[j]
    /\ \A m \in 1..n : s[m] \in S => \E i \in 1..Len(k) : g[i] = m

\* Keep returns the elements that are in S, all of them, in their order.
LEMMA Kept ==
    ASSUME NEW T, NEW s \in Seq(T), NEW S
    PROVE  /\ Keep(s, S) \in Seq(T)
           /\ \E g : Selects(g, Keep(s, S), s, Len(s), S)
<1>1. Len(s) \in Nat
  BY LenProperties
<1>2. PICK f : Sifts(f, s, S) /\ Keep(s, S) = f[Len(s)]
  BY <1>1, KeepSifts
<1> DEFINE M == {n \in 0..Len(s) : f[n] \in Seq(T) /\ \E g : Selects(g, f[n], s, n, S)}
<1>3. 0 \in M
  <2>1. f[0] = <<>>
    BY <1>2 DEF Sifts
  <2>2. Selects(<<>>, <<>>, s, 0, S)
    BY DEF Selects
  <2>3. f[0] \in Seq(T) /\ \E g : Selects(g, f[0], s, 0, S)
    BY <2>1, <2>2
  <2> QED
    BY <1>1, <2>3
<1>4. ASSUME NEW n \in 0..(Len(s) - 1), n \in M PROVE n + 1 \in M
  <2> DEFINE m == n + 1
  <2>1. PICK k : k = f[n]
    OBVIOUS
  <2>2. PICK g : Selects(g, k, s, n, S)
    BY <1>4, <2>1
  <2>3. /\ n \in Nat /\ m \in 1..Len(s) /\ s[m] \in T
        /\ k \in Seq(T) /\ Len(k) \in Nat
    BY <1>1, <1>4, <2>1, LenProperties, ElementOfSeq
  <2>4. f[m] = IF s[m] \in S THEN Append(k, s[m]) ELSE k
    BY <1>2, <2>1, <2>3 DEF Sifts
  <2>5. /\ g \in [1..Len(k) -> 1..n]
        /\ \A i \in 1..Len(k) : g[i] \in 1..n /\ k[i] = s[g[i]] /\ k[i] \in S
        /\ \A i, j \in 1..Len(k) : i < j => g[i] < g[j]
        /\ \A l \in 1..n : s[l] \in S => \E i \in 1..Len(k) : g[i] = l
    BY <2>2 DEF Selects
  <2>6. f[m] \in Seq(T) /\ \E h : Selects(h, f[m], s, m, S)
    <3>1. CASE s[m] \notin S
      <4>1. \A l \in 1..m : s[l] \in S => l \in 1..n
        BY <2>3, <3>1
      <4>2. g \in [1..Len(k) -> 1..m]
        BY <2>3, <2>5
      <4>3. Selects(g, k, s, m, S)
        BY <2>5, <4>1, <4>2 DEF Selects
      <4> QED
        BY <2>3, <2>4, <3>1, <4>3
    <3>2. CASE s[m] \in S
      <4>1. PICK q : q = f[m]
        OBVIOUS
      <4>2. /\ q \in Seq(T) /\ Len(q) = Len(k) + 1
            /\ \A i \in 1..Len(k) : q[i] = k[i]
            /\ q[Len(k) + 1] = s[m]
        BY <2>3, <2>4, <3>2, <4>1, AppendProperties
      <4>3. PICK h : h = [i \in 1..(Len(k) + 1) |-> IF i = Len(k) + 1 THEN m ELSE g[i]]
        OBVIOUS
      <4>4. \A i \in 1..Len(q) : i = Len(k) + 1 \/ i \in 1..Len(k)
        BY <2>3, <4>2
      <4>5. h[Len(k) + 1] = m /\ \A i \in 1..Len(k) : h[i] = g[i] /\ g[i] \in 1..n
        BY <2>3, <2>5, <4>3
      <4>6. h \in [1..Len(q) -> 1..m]
        BY <2>3, <2>5, <4>2, <4>3
      <4>7. \A i \in 1..Len(q) : q[i] = s[h[i]] /\ q[i] \in S
        BY <2>5, <3>2, <4>2, <4>4, <4>5
      <4>8. ASSUME NEW i \in 1..Len(q), NEW j \in 1..Len(q), i < j PROVE h[i] < h[j]
        <5>1. i \in 1..Len(k)
          BY <2>3, <4>2, <4>8
        <5>2. CASE j \in 1..Len(k)
          BY <2>5, <4>5, <4>8, <5>1, <5>2
        <5>3. CASE j = Len(k) + 1
          BY <2>3, <4>5, <5>1, <5>3
        <5> QED
          BY <4>4, <5>2, <5>3
      <4>9. ASSUME NEW l \in 1..m, s[l] \in S PROVE \E i \in 1..Len(q) : h[i] = l
        <5>1. CASE l = m
          BY <5>1, <2>3, <4>2, <4>5
        <5>2. CASE l # m
          <6>1. l \in 1..n
            BY <2>3, <5>2
          <6>2. PICK i \in 1..Len(k) : g[i] = l
            BY <4>9, <6>1, <2>5
          <6>3. i \in 1..Len(q)
            BY <2>3, <4>2
          <6> QED
            BY <6>2, <6>3, <4>5
        <5> QED
          BY <5>1, <5>2
      <4>10. Selects(h, q, s, m, S)
        BY <4>6, <4>7, <4>8, <4>9 DEF Selects
      <4> QED
        BY <4>1, <4>2, <4>10
    <3> QED
      BY <3>1, <3>2
  <2> QED
    BY <2>3, <2>6
<1>5. Len(s) \in M
  <2> HIDE DEF M
  <2>1. \A n \in 0..Len(s) : n \in M
    BY <1>1, <1>3, <1>4, IntervalInduction
  <2> QED
    BY <1>1, <2>1
<1> QED
  BY <1>2, <1>5

\* Cut takes the first elements.
LEMMA CutFirst ==
    ASSUME NEW T, NEW s \in Seq(T), NEW n \in Nat
    PROVE  /\ Cut(s, n) \in Seq(T) /\ Len(s) \in Nat /\ Len(Cut(s, n)) \in Nat
           /\ Len(Cut(s, n)) = IF n < Len(s) THEN n ELSE Len(s)
           /\ \A i \in 1..Len(Cut(s, n)) : i \in 1..Len(s) /\ Cut(s, n)[i] = s[i]
<1> DEFINE m == IF n < Len(s) THEN n ELSE Len(s)
<1>1. Len(s) \in Nat /\ m \in Nat /\ m <= Len(s)
  BY LenProperties
<1>2. Cut(s, n) = SubSeq(s, 1, m)
  BY <1>1 DEF Cut, Lesser
<1> HIDE DEF m
<1>3. \A i \in 1..m : s[i] \in T
  BY <1>1, ElementOfSeq
<1>4. /\ SubSeq(s, 1, m) \in Seq(T) /\ Len(SubSeq(s, 1, m)) = m
      /\ \A i \in 1..m : SubSeq(s, 1, m)[i] = s[i]
  BY <1>1, <1>3, SubSeqProperties
<1> QED
  BY <1>1, <1>2, <1>4 DEF m

=============================================================================
