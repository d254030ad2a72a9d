------------------------- MODULE PlayerQueueProofs -------------------------
(***************************************************************************)
(* Proofs about PlayerQueue, for any library, any lists, any sizes of page *)
(* and history, and any number of queue contexts.                          *)
(***************************************************************************)
EXTENDS PlayerQueue, FiniteSetTheorems, InductionLemmas

---------------------------------------------------------------------------
(* Sequences *)

\* The library is 1..n, the sizes are positive, and None is no value of the store.
LEMMA Library ==
    /\ Cardinality(Tracks) \in Nat \ {0} /\ Tracks = 1..Cardinality(Tracks)
    /\ Tracks \subseteq Nat
    /\ PageSize \in Nat \ {0} /\ HistoryLimit \in Nat \ {0} /\ FuturePersist \in Nat \ {0}
    /\ PrefetchDistance \in Nat \ {0} /\ MaxContexts \in Nat
    /\ None \notin Nat /\ None \notin Tracks /\ None \notin DOMAIN Lists
    /\ None \notin SUBSET Tracks
    /\ \A s \in DOMAIN Lists : /\ Lists[s] \in Seq(Tracks) /\ IsInjective(Lists[s])
                               /\ Len(Lists[s]) \in Nat
<1>1. Cardinality(Tracks) \in Nat /\ Tracks = 1..Cardinality(Tracks) /\ Tracks # {}
  BY FS_CardinalityType, PlayerConstants
<1>2. Cardinality(Tracks) # 0
  BY <1>1
<1>3. Tracks \subseteq Nat
  BY <1>1
<1>4. \A n \in {PageSize, HistoryLimit, FuturePersist, PrefetchDistance} : n \in Nat \ {0}
  BY PlayerConstants
<1>5. None \notin Nat /\ None \notin DOMAIN Lists /\ None \notin SUBSET Tracks
  BY PlayerConstants
<1>6. \A s \in DOMAIN Lists : Lists[s] \in Seq(Tracks) /\ IsInjective(Lists[s])
  BY PlayerConstants
<1>7. MaxContexts \in Nat
  BY PlayerConstants
<1> QED
  BY <1>1, <1>2, <1>3, <1>4, <1>5, <1>6, <1>7, LenProperties

\* A sequence by its places.
LEMMA Elements ==
    ASSUME NEW T, NEW s \in Seq(T)
    PROVE  /\ Len(s) \in Nat /\ DOMAIN s = 1..Len(s)
           /\ \A k \in 1..Len(s) : s[k] \in T /\ s[k] \in ToSet(s)
           /\ \A t \in ToSet(s) : \E k \in 1..Len(s) : s[k] = t
           /\ ToSet(s) \subseteq T
           /\ s = <<>> <=> Len(s) = 0
           /\ IsInjective(s) <=> \A i, j \in 1..Len(s) : s[i] = s[j] => i = j
<1>1. Len(s) \in Nat /\ DOMAIN s = 1..Len(s)
  BY LenProperties
<1>2. \A k \in 1..Len(s) : s[k] \in T
  BY ElementOfSeq
<1>3. s = <<>> <=> Len(s) = 0
  BY EmptySeq
<1>4. IsInjective(s) <=> \A i, j \in 1..Len(s) : s[i] = s[j] => i = j
  BY <1>1 DEF IsInjective
<1> QED
  BY <1>1, <1>2, <1>3, <1>4 DEF ToSet

\* Two sequences that are joined.
LEMMA Joined ==
    ASSUME NEW T, NEW s \in Seq(T), NEW u \in Seq(T)
    PROVE  /\ s \o u \in Seq(T) /\ Len(s \o u) = Len(s) + Len(u)
           /\ \A k \in 1..Len(s) : (s \o u)[k] = s[k]
           /\ \A k \in 1..Len(u) : (s \o u)[Len(s) + k] = u[k]
           /\ ToSet(s \o u) = ToSet(s) \cup ToSet(u)
           /\ IsInjective(s) /\ IsInjective(u) /\ ToSet(s) \cap ToSet(u) = {}
                  => IsInjective(s \o u)
<1>1. PICK q : q = s \o u
  OBVIOUS
<1>2. PICK m : m = Len(s)
  OBVIOUS
<1>3. PICK n : n = Len(u)
  OBVIOUS
<1>4. m \in Nat /\ n \in Nat
  BY <1>2, <1>3, LenProperties
<1>5. /\ q \in Seq(T) /\ Len(q) = m + n
      /\ \A k \in 1..(m + n) : q[k] = IF k <= m THEN s[k] ELSE u[k - m]
  BY <1>1, <1>2, <1>3, ConcatProperties
<1>6. \A k \in 1..m : q[k] = s[k]
  BY <1>4, <1>5
<1>7. \A k \in 1..n : q[m + k] = u[k]
  <2> TAKE k \in 1..n
  <2>1. m + k \in 1..(m + n) /\ ~(m + k <= m) /\ (m + k) - m = k
    BY <1>4
  <2> QED
    BY <1>5, <2>1
<1>8. \A k \in 1..(m + n) : k \in 1..m \/ \E j \in 1..n : k = m + j
  <2> TAKE k \in 1..(m + n)
  <2>1. k \in 1..m \/ (k - m \in 1..n /\ k = m + (k - m))
    BY <1>4
  <2> QED
    BY <2>1
<1>9. \A k \in 1..n : m + k \in 1..(m + n)
  BY <1>4
<1>10. \A k \in 1..m : k \in 1..(m + n)
  BY <1>4
<1>11. ToSet(q) = ToSet(s) \cup ToSet(u)
  <2>1. ASSUME NEW t \in ToSet(q) PROVE t \in ToSet(s) \cup ToSet(u)
    <3>1. PICK k \in 1..(m + n) : q[k] = t
      BY <1>5, Elements
    <3>2. CASE k \in 1..m
      BY <1>2, <1>6, <3>1, <3>2, Elements
    <3>3. CASE \E j \in 1..n : k = m + j
      BY <1>3, <1>7, <3>1, <3>3, Elements
    <3> QED
      BY <1>8, <3>2, <3>3
  <2>2. ASSUME NEW t \in ToSet(s) PROVE t \in ToSet(q)
    <3>1. PICK k \in 1..m : s[k] = t
      BY <1>2, Elements
    <3> QED
      BY <1>5, <1>6, <1>10, <3>1, Elements
  <2>3. ASSUME NEW t \in ToSet(u) PROVE t \in ToSet(q)
    <3>1. PICK k \in 1..n : u[k] = t
      BY <1>3, Elements
    <3> QED
      BY <1>5, <1>7, <1>9, <3>1, Elements
  <2> QED
    BY <2>1, <2>2, <2>3
<1>12. ASSUME IsInjective(s), IsInjective(u), ToSet(s) \cap ToSet(u) = {}
       PROVE  IsInjective(q)
  <2>1. \A i, j \in 1..m : s[i] = s[j] => i = j
    BY <1>2, <1>12, Elements
  <2>2. \A i, j \in 1..n : u[i] = u[j] => i = j
    BY <1>3, <1>12, Elements
  <2>3. \A i \in 1..m : s[i] \in ToSet(s)
    BY <1>2, Elements
  <2>4. \A i \in 1..n : u[i] \in ToSet(u)
    BY <1>3, Elements
  <2>5. \A i \in 1..m, j \in 1..n : s[i] # u[j]
    BY <1>12, <2>3, <2>4
  <2>6. ASSUME NEW i \in 1..(m + n), NEW j \in 1..(m + n), q[i] = q[j] PROVE i = j
    <3>1. CASE i \in 1..m /\ j \in 1..m
      BY <1>6, <2>1, <2>6, <3>1
    <3>2. CASE i \in 1..m /\ \E l \in 1..n : j = m + l
      BY <1>6, <1>7, <2>5, <2>6, <3>2
    <3>3. CASE j \in 1..m /\ \E l \in 1..n : i = m + l
      BY <1>6, <1>7, <2>5, <2>6, <3>3
    <3>4. CASE (\E l \in 1..n : i = m + l) /\ \E l \in 1..n : j = m + l
      <4>1. PICK k \in 1..n : i = m + k
        BY <3>4
      <4>2. PICK l \in 1..n : j = m + l
        BY <3>4
      <4>3. u[k] = u[l]
        BY <1>7, <2>6, <4>1, <4>2
      <4> QED
        BY <2>2, <4>1, <4>2, <4>3
    <3> QED
      BY <1>8, <3>1, <3>2, <3>3, <3>4
  <2> QED
    BY <1>5, <2>6, Elements
<1> QED
  BY <1>1, <1>2, <1>3, <1>5, <1>6, <1>7, <1>11, <1>12

\* A piece of a sequence, from one place through another.
LEMMA Piece ==
    ASSUME NEW T, NEW s \in Seq(T), NEW m \in Nat \ {0}, NEW n \in 0..Len(s), m <= n + 1
    PROVE  /\ SubSeq(s, m, n) \in Seq(T) /\ Len(SubSeq(s, m, n)) = n - m + 1
           /\ \A k \in 1..(n - m + 1) : SubSeq(s, m, n)[k] = s[m + k - 1]
           /\ \A k \in m..n : s[k] \in ToSet(SubSeq(s, m, n))
           /\ ToSet(SubSeq(s, m, n)) \subseteq ToSet(s)
           /\ IsInjective(s) => IsInjective(SubSeq(s, m, n))
<1>1. PICK q : q = SubSeq(s, m, n)
  OBVIOUS
<1>2. Len(s) \in Nat /\ n \in Nat /\ n <= Len(s)
  BY LenProperties
<1>3. \A k \in m..n : k \in 1..Len(s)
  BY <1>2
<1>4. \A k \in m..n : s[k] \in T
  BY <1>3, ElementOfSeq
<1>5. /\ q \in Seq(T) /\ Len(q) = IF m <= n THEN n - m + 1 ELSE 0
      /\ \A k \in 1..(n - m + 1) : q[k] = s[m + k - 1]
  BY <1>1, <1>2, <1>4, SubSeqProperties
<1>6. Len(q) = n - m + 1
  BY <1>2, <1>5
<1>7. \A k \in 1..(n - m + 1) : m + k - 1 \in 1..Len(s)
  BY <1>2
<1>8. ASSUME NEW k \in m..n PROVE s[k] \in ToSet(q)
  <2>1. k - m + 1 \in 1..(n - m + 1) /\ m + (k - m + 1) - 1 = k
    BY <1>2
  <2>2. q[k - m + 1] = s[k]
    BY <1>5, <2>1
  <2> QED
    BY <1>5, <1>6, <2>1, <2>2, Elements
<1>9. ASSUME NEW t \in ToSet(q) PROVE t \in ToSet(s)
  <2>1. PICK k \in 1..(n - m + 1) : q[k] = t
    BY <1>5, <1>6, Elements
  <2>2. s[m + k - 1] = t
    BY <1>5, <2>1
  <2> QED
    BY <1>7, <2>2, Elements
<1>10. ASSUME IsInjective(s) PROVE IsInjective(q)
  <2>1. \A i, j \in 1..Len(s) : s[i] = s[j] => i = j
    BY <1>10, Elements
  <2>2. ASSUME NEW i \in 1..(n - m + 1), NEW j \in 1..(n - m + 1), q[i] = q[j] PROVE i = j
    <3>1. s[m + i - 1] = s[m + j - 1]
      BY <1>5, <2>2
    <3>2. m + i - 1 = m + j - 1
      BY <1>7, <2>1, <3>1
    <3> QED
      BY <1>2, <3>2
  <2> QED
    BY <1>5, <1>6, <2>2, Elements
<1> QED
  BY <1>1, <1>5, <1>6, <1>8, <1>9, <1>10

\* What Keep leaves of a sequence.
LEMMA Sieved ==
    ASSUME NEW T, NEW s \in Seq(T), NEW S
    PROVE  /\ Keep(s, S) \in Seq(T)
           /\ ToSet(Keep(s, S)) = ToSet(s) \cap S
           /\ IsInjective(s) => IsInjective(Keep(s, S))
<1>1. PICK k : k = Keep(s, S)
  OBVIOUS
<1>2. k \in Seq(T) /\ \E g : Selects(g, k, s, Len(s), S)
  BY <1>1, Kept
<1>3. PICK g : Selects(g, k, s, Len(s), S)
  BY <1>2
<1>4. \A i \in 1..Len(k) : g[i] \in 1..Len(s) /\ k[i] = s[g[i]] /\ k[i] \in S
  BY <1>3 DEF Selects
<1>5. \A i, j \in 1..Len(k) : i < j => g[i] < g[j]
  BY <1>3 DEF Selects
<1>6. \A m \in 1..Len(s) : s[m] \in S => \E i \in 1..Len(k) : g[i] = m
  BY <1>3 DEF Selects
<1>7. Len(k) \in Nat /\ Len(s) \in Nat
  BY <1>2, LenProperties
<1>8. ASSUME NEW t \in ToSet(k) PROVE t \in ToSet(s) \cap S
  <2>1. PICK i \in 1..Len(k) : k[i] = t
    BY <1>2, Elements
  <2> QED
    BY <1>4, <2>1, Elements
<1>9. ASSUME NEW t \in ToSet(s) \cap S PROVE t \in ToSet(k)
  <2>1. PICK m \in 1..Len(s) : s[m] = t
    BY Elements
  <2>2. PICK i \in 1..Len(k) : g[i] = m
    BY <1>6, <2>1
  <2> QED
    BY <1>2, <1>4, <2>1, <2>2, Elements
<1>10. ASSUME IsInjective(s) PROVE IsInjective(k)
  <2>1. \A i, j \in 1..Len(s) : s[i] = s[j] => i = j
    BY <1>10, Elements
  <2>2. ASSUME NEW i \in 1..Len(k), NEW j \in 1..Len(k), k[i] = k[j] PROVE i = j
    <3>1. g[i] = g[j]
      BY <1>4, <2>1, <2>2
    <3>2. ~(i < j) /\ ~(j < i)
      BY <1>4, <1>5, <1>7, <3>1
    <3> QED
      BY <1>7, <3>2
  <2> QED
    BY <1>2, <2>2, Elements
<1> QED
  BY <1>1, <1>2, <1>8, <1>9, <1>10

---------------------------------------------------------------------------
(* The pages of the server *)

\* A page of a list: the tracks that follow a position, those that are gone left out,
\* without a gap up to the cursor that comes with it, or up to the end of the list.
PageOf(s, after, p) ==
    /\ p.tracks \in Seq(Tracks) /\ IsInjective(p.tracks)
    /\ p.cursor # None => p.cursor \in (after + 1)..Len(Lists[s])
    /\ \A k \in (after + 1)..(IF p.cursor # None THEN p.cursor ELSE Len(Lists[s])) :
           Lists[s][k] \in ToSet(p.tracks) \cup gone

\* A page that the server gives of a list, from a place in it.
LEMMA ListPage ==
    ASSUME NEW s \in DOMAIN Lists, NEW after \in 0..Len(Lists[s]), NEW n \in Nat \ {0}
    PROVE  PageOf(s, after, ListAfter(s, after, n))
<1>1. PICK list : list = Lists[s]
  OBVIOUS
<1>2. PICK m : m = Len(list)
  OBVIOUS
<1>3. /\ list \in Seq(Tracks) /\ IsInjective(list) /\ m \in Nat /\ after \in Nat
      /\ after <= m
  BY <1>1, <1>2, Library
<1>4. PICK q : q = SubSeq(list, after + 1, m)
  OBVIOUS
<1>5. /\ q \in Seq(Tracks) /\ Len(q) = m - after /\ IsInjective(q)
      /\ \A k \in 1..(m - after) : q[k] = list[after + k]
  <2>1. after + 1 \in Nat \ {0} /\ m \in 0..Len(list) /\ after + 1 <= m + 1
        /\ m - (after + 1) + 1 = m - after
        /\ \A k \in 1..(m - after) : (after + 1) + k - 1 = after + k
    BY <1>2, <1>3
  <2> QED
    BY <1>3, <1>4, <2>1, Piece
<1>6. PICK left : left = Keep(q, Tracks \ gone)
  OBVIOUS
<1>7. left \in Seq(Tracks) /\ IsInjective(left)
      /\ \E g : Selects(g, left, q, Len(q), Tracks \ gone)
  BY <1>5, <1>6, Kept, Sieved
<1>8. PICK g : Selects(g, left, q, Len(q), Tracks \ gone)
  BY <1>7
<1>9. /\ \A i \in 1..Len(left) : g[i] \in 1..(m - after) /\ left[i] = q[g[i]]
      /\ \A i, j \in 1..Len(left) : i < j => g[i] < g[j]
      /\ \A l \in 1..(m - after) : q[l] \in Tracks \ gone => \E i \in 1..Len(left) : g[i] = l
  BY <1>5, <1>8 DEF Selects
<1>10. PICK tracks : tracks = Cut(left, n)
  OBVIOUS
<1>11. /\ tracks \in Seq(Tracks) /\ Len(left) \in Nat /\ Len(tracks) \in Nat
       /\ Len(tracks) = IF n < Len(left) THEN n ELSE Len(left)
       /\ \A i \in 1..Len(tracks) : i \in 1..Len(left) /\ tracks[i] = left[i]
  BY <1>7, <1>10, CutFirst
<1>12. IsInjective(tracks)
  <2>1. \A i, j \in 1..Len(left) : left[i] = left[j] => i = j
    BY <1>7, Elements
  <2>2. \A i, j \in 1..Len(tracks) : tracks[i] = tracks[j] => i = j
    BY <1>11, <2>1
  <2> QED
    BY <1>11, <2>2, Elements
<1>13. PICK p : p = ListAfter(s, after, n)
  OBVIOUS
<1>14. /\ p.tracks = tracks
       /\ p.cursor = IF Len(left) > n THEN Position(s, left[n]) ELSE None
  BY <1>1, <1>2, <1>4, <1>6, <1>10, <1>13 DEF ListAfter
<1>15. \A k \in (after + 1)..m : k - after \in 1..(m - after) /\ after + (k - after) = k
  BY <1>3
<1>16. ASSUME NEW k \in (after + 1)..m, list[k] \notin gone
       PROVE  \E i \in 1..Len(left) : g[i] = k - after /\ left[i] = list[k]
  <2>1. k - after \in 1..(m - after) /\ q[k - after] = list[k]
    BY <1>5, <1>15
  <2>2. list[k] \in Tracks
    <3>1. k \in 1..Len(list)
      BY <1>2, <1>3
    <3> QED
      BY <1>3, <3>1, ElementOfSeq
  <2>3. PICK i \in 1..Len(left) : g[i] = k - after
    BY <1>9, <1>16, <2>1, <2>2
  <2> QED
    BY <1>9, <2>1, <2>3
<1>17. CASE Len(left) > n
  <2>1. n \in 1..Len(left) /\ n \in 1..Len(tracks) /\ Len(tracks) = n
    BY <1>11, <1>17
  <2>2. PICK c : c = after + g[n]
    OBVIOUS
  <2>3. g[n] \in 1..(m - after) /\ left[n] = list[c]
    BY <1>5, <1>9, <2>1, <2>2
  <2>4. c \in (after + 1)..m /\ c \in 1..m
    BY <1>3, <2>2, <2>3
  <2>5. \A i, j \in 1..m : list[i] = list[j] => i = j
    BY <1>2, <1>3, Elements
  <2>6. Position(s, left[n]) = c
    <3>1. DOMAIN list = 1..m
      BY <1>2, <1>3, LenProperties
    <3>2. \A k \in DOMAIN Lists[s] : Lists[s][k] = left[n] <=> k = c
      BY <1>1, <2>3, <2>4, <2>5, <3>1
    <3>3. c \in DOMAIN Lists[s]
      BY <1>1, <2>4, <3>1
    <3> QED
      BY <3>2, <3>3 DEF Position
  <2>7. p.cursor = c
    BY <1>14, <1>17, <2>6
  <2>8. c # None
    BY <1>3, <2>4, Library
  <2>9. ASSUME NEW k \in (after + 1)..c PROVE list[k] \in ToSet(tracks) \cup gone
    <3>1. k \in (after + 1)..m
      BY <1>3, <2>4
    <3>2. CASE list[k] \notin gone
      <4>1. PICK i \in 1..Len(left) : g[i] = k - after /\ left[i] = list[k]
        BY <1>16, <3>1, <3>2
      <4>2. g[i] <= g[n]
        <5>1. PICK a \in Nat, x \in Int : a = after /\ x = g[n]
          BY <1>3, <2>3
        <5>2. k \in (a + 1)..(a + x) /\ g[i] = k - a
          BY <2>2, <4>1, <5>1
        <5>3. k - a <= x
          BY <5>2
        <5> QED
          BY <5>1, <5>2, <5>3
      <4>3. ~(n < i)
        BY <1>3, <1>9, <2>1, <2>3, <3>1, <4>1, <4>2
      <4>4. i \in 1..Len(tracks)
        BY <1>11, <2>1, <4>3
      <4> QED
        BY <1>11, <4>1, <4>4, Elements
    <3> QED
      BY <3>2
  <2>10. PageOf(s, after, p)
    BY <1>1, <1>2, <1>11, <1>12, <1>14, <2>4, <2>7, <2>8, <2>9 DEF PageOf
  <2> QED
    BY <1>13, <2>10
<1>18. CASE ~(Len(left) > n)
  <2>1. p.cursor = None /\ Len(tracks) = Len(left)
    BY <1>11, <1>14, <1>18
  <2>2. ASSUME NEW k \in (after + 1)..m PROVE list[k] \in ToSet(tracks) \cup gone
    <3>1. CASE list[k] \notin gone
      <4>1. PICK i \in 1..Len(left) : left[i] = list[k]
        BY <1>16, <3>1
      <4> QED
        BY <1>11, <2>1, <4>1, Elements
    <3> QED
      BY <3>1
  <2>3. PageOf(s, after, p)
    BY <1>1, <1>2, <1>11, <1>12, <1>14, <2>1, <2>2 DEF PageOf
  <2> QED
    BY <1>13, <2>3
<1> QED
  BY <1>17, <1>18

\* The ring from a on: place k is k - 1 tracks away from a, and every track has a place.
LEMMA RingPlaces ==
    ASSUME NEW a \in Tracks
    PROVE  /\ RingFrom(a) \in Seq(Tracks) /\ Len(RingFrom(a)) = Cardinality(Tracks)
           /\ \A k \in Tracks : Distance(a, RingFrom(a)[k]) = k - 1
           /\ \A t \in Tracks : /\ Distance(a, t) + 1 \in Tracks
                                /\ RingFrom(a)[Distance(a, t) + 1] = t
<1>1. PICK n : n = Cardinality(Tracks)
  OBVIOUS
<1>2. n \in Nat \ {0} /\ Tracks = 1..n /\ a \in 1..n
  BY <1>1, Library
<1>3. PICK r : r = RingFrom(a)
  OBVIOUS
<1>4. r = [k \in 1..n |-> IF k <= n - a + 1 THEN a + k - 1 ELSE a + k - 1 - n]
  BY <1>1, <1>2, <1>3 DEF RingFrom
<1>5. \A k \in 1..n : IF k <= n - a + 1 THEN a + k - 1 \in 1..n ELSE a + k - 1 - n \in 1..n
  BY <1>2
<1>6. \A k \in 1..n : r[k] \in 1..n
  BY <1>4, <1>5
<1>7. r \in Seq(1..n) /\ Len(r) = n
  BY <1>2, <1>4, <1>6
<1>8. ASSUME NEW k \in 1..n PROVE Distance(a, r[k]) = k - 1
  <2>1. CASE k <= n - a + 1
    <3>1. r[k] = a + k - 1
      BY <1>4, <2>1
    <3>2. a + k - 1 >= a /\ (a + k - 1) - a = k - 1
      BY <1>2
    <3> QED
      BY <3>1, <3>2 DEF Distance
  <2>2. CASE ~(k <= n - a + 1)
    <3>1. r[k] = a + k - 1 - n
      BY <1>4, <2>2
    <3>2. ~(a + k - 1 - n >= a) /\ (a + k - 1 - n) - a + n = k - 1
      BY <1>2
    <3> QED
      BY <1>1, <3>1, <3>2 DEF Distance
  <2> QED
    BY <2>1, <2>2
<1>9. ASSUME NEW t \in 1..n
      PROVE  Distance(a, t) + 1 \in 1..n /\ r[Distance(a, t) + 1] = t
  <2>1. CASE t >= a
    <3>1. Distance(a, t) = t - a
      BY <2>1 DEF Distance
    <3>2. t - a + 1 \in 1..n /\ t - a + 1 <= n - a + 1 /\ a + (t - a + 1) - 1 = t
      BY <1>2, <2>1
    <3> QED
      BY <1>4, <3>1, <3>2
  <2>2. CASE ~(t >= a)
    <3>1. Distance(a, t) = t - a + n
      BY <1>1, <2>2 DEF Distance
    <3>2. /\ t - a + n + 1 \in 1..n /\ ~(t - a + n + 1 <= n - a + 1)
          /\ a + (t - a + n + 1) - 1 - n = t
      BY <1>2, <2>2
    <3> QED
      BY <1>4, <3>1, <3>2
  <2> QED
    BY <2>1, <2>2
<1> QED
  BY <1>1, <1>2, <1>3, <1>7, <1>8, <1>9

\* A page of the ring: of what a cycle still has to deliver, all that is as near to the
\* anchor as the new cursor, or all of it.
LEMMA RingPage ==
    ASSUME NEW c, c.anchor \in Tracks, NEW x
    PROVE  LET p    == ShufflePage(c, x)
               left == RingLeft(c, x)
           IN /\ p.tracks \in Seq(Tracks) /\ IsInjective(p.tracks)
              /\ ToSet(p.tracks) \subseteq left
              /\ p.cursor = None => left \subseteq ToSet(p.tracks)
              /\ p.cursor # None =>
                     /\ p.cursor \in [anchor: Tracks, after: Tracks]
                     /\ p.cursor.anchor = c.anchor /\ p.cursor.after \in left
                     /\ \A t \in left :
                            t \in ToSet(p.tracks)
                                <=> Distance(c.anchor, t) <= Distance(c.anchor, p.cursor.after)
<1>1. PICK a : a = c.anchor
  OBVIOUS
<1>2. PICK r : r = RingFrom(a)
  OBVIOUS
<1>3. PICK left : left = RingLeft(c, x)
  OBVIOUS
<1>4. left \subseteq Tracks
  BY <1>3 DEF RingLeft
<1>5. PICK n : n = Cardinality(Tracks)
  OBVIOUS
<1>6. n \in Nat /\ Tracks = 1..n /\ a \in Tracks /\ PageSize \in Nat \ {0}
  BY <1>1, <1>5, Library
<1>7. /\ r \in Seq(Tracks) /\ Len(r) = n
      /\ \A k \in 1..n : Distance(a, r[k]) = k - 1
      /\ \A t \in Tracks : Distance(a, t) + 1 \in 1..n /\ r[Distance(a, t) + 1] = t
  BY <1>2, <1>5, <1>6, RingPlaces
<1>8. PICK ring : ring = Keep(r, left)
  OBVIOUS
<1>9. PICK g : Selects(g, ring, r, Len(r), left)
  BY <1>7, <1>8, Kept
<1>10. /\ \A i \in 1..Len(ring) : g[i] \in 1..n /\ ring[i] = r[g[i]] /\ ring[i] \in left
       /\ \A i, j \in 1..Len(ring) : i < j => g[i] < g[j]
       /\ \A l \in 1..n : r[l] \in left => \E i \in 1..Len(ring) : g[i] = l
  BY <1>7, <1>9 DEF Selects
<1>11. ring \in Seq(Tracks) /\ ToSet(ring) = ToSet(r) \cap left
  BY <1>7, <1>8, Sieved
<1>12. \A i \in 1..Len(ring) : Distance(a, ring[i]) = g[i] - 1 /\ g[i] \in Nat
  <2> TAKE i \in 1..Len(ring)
  <2>1. PICK k \in 1..n : k = g[i]
    BY <1>10
  <2>2. ring[i] = r[k]
    BY <1>10, <2>1
  <2>3. Distance(a, r[k]) = k - 1
    BY <1>7
  <2>4. k \in Nat
    BY <1>6
  <2> QED
    BY <2>1, <2>2, <2>3, <2>4
<1>13. \A t \in left : \E i \in 1..Len(ring) : ring[i] = t
  <2> TAKE t \in left
  <2>1. PICK l \in 1..n : r[l] = t
    BY <1>4, <1>7
  <2>2. PICK i \in 1..Len(ring) : g[i] = l
    BY <1>10, <2>1
  <2> QED
    BY <1>10, <2>1, <2>2
<1>14. PICK tracks : tracks = Cut(ring, PageSize)
  OBVIOUS
<1>15. /\ tracks \in Seq(Tracks) /\ Len(ring) \in Nat /\ Len(tracks) \in Nat
       /\ Len(tracks) = IF PageSize < Len(ring) THEN PageSize ELSE Len(ring)
       /\ \A i \in 1..Len(tracks) : i \in 1..Len(ring) /\ tracks[i] = ring[i]
  BY <1>6, <1>11, <1>14, CutFirst
<1>16. \A i, j \in 1..Len(ring) : i < j => Distance(a, ring[i]) < Distance(a, ring[j])
  <2> SUFFICES ASSUME NEW i \in 1..Len(ring), NEW j \in 1..Len(ring), i < j
               PROVE  Distance(a, ring[i]) < Distance(a, ring[j])
    OBVIOUS
  <2>1. g[i] < g[j] /\ g[i] \in Nat /\ g[j] \in Nat
    BY <1>10, <1>12
  <2>2. g[i] - 1 < g[j] - 1
    BY <2>1
  <2> QED
    BY <1>12, <2>2
<1>17. \A i \in 1..Len(ring) : Distance(a, ring[i]) \in Int
  BY <1>12
<1>18. \A i, j \in 1..Len(tracks) : tracks[i] = tracks[j] => i = j
  <2> SUFFICES ASSUME NEW i \in 1..Len(tracks), NEW j \in 1..Len(tracks), i < j
               PROVE  tracks[i] # tracks[j]
    BY <1>15
  <2>1. Distance(a, ring[i]) < Distance(a, ring[j])
    BY <1>15, <1>16
  <2>2. ring[i] # ring[j]
    BY <1>15, <1>17, <2>1
  <2> QED
    BY <1>15, <2>2
<1>19. IsInjective(tracks)
  BY <1>15, <1>18, Elements
<1>20. ToSet(tracks) \subseteq left
  <2> SUFFICES ASSUME NEW t \in ToSet(tracks) PROVE t \in left
    OBVIOUS
  <2>1. PICK i \in 1..Len(tracks) : tracks[i] = t
    BY <1>15, Elements
  <2> QED
    BY <1>10, <1>15, <2>1
<1>21. PICK p : p = ShufflePage(c, x)
  OBVIOUS
<1>22. /\ p.tracks = tracks
       /\ p.cursor = IF Len(ring) > PageSize THEN [anchor |-> a, after |-> ring[PageSize]]
                     ELSE None
  BY <1>1, <1>2, <1>3, <1>8, <1>14, <1>21 DEF ShufflePage
<1>23. CASE Len(ring) > PageSize
  <2>1. PICK e : e = ring[PageSize]
    OBVIOUS
  <2>2. PageSize \in 1..Len(ring) /\ Len(tracks) = PageSize /\ PageSize \in 1..Len(tracks)
    BY <1>6, <1>15, <1>23
  <2>3. e \in left /\ e \in Tracks
    BY <1>4, <1>10, <2>1, <2>2
  <2>4. p.cursor = [anchor |-> a, after |-> e]
    BY <1>22, <1>23, <2>1
  <2>5. p.cursor \in [anchor: Tracks, after: Tracks]
    BY <1>6, <2>3, <2>4
  <2>6. p.cursor # None /\ p.cursor.anchor = a /\ p.cursor.after = e
    BY <2>4, <2>5, PlayerConstants
  <2>7. ASSUME NEW t \in left
        PROVE  t \in ToSet(tracks) <=> Distance(a, t) <= Distance(a, e)
    <3>1. PICK i \in 1..Len(ring) : ring[i] = t
      BY <1>13
    <3>2. CASE i <= PageSize
      <4>1. i \in 1..Len(tracks) /\ tracks[i] = t
        BY <1>15, <2>2, <3>1, <3>2
      <4>2. i = PageSize \/ i < PageSize
        BY <1>6, <1>15, <3>2
      <4>3. Distance(a, t) <= Distance(a, e)
        BY <1>16, <1>17, <2>1, <2>2, <3>1, <4>2
      <4> QED
        BY <1>15, <4>1, <4>3, Elements
    <3>3. CASE ~(i <= PageSize)
      <4>1. PageSize < i
        BY <1>6, <1>15, <3>3
      <4>2. Distance(a, e) < Distance(a, t)
        BY <1>16, <2>1, <2>2, <3>1, <4>1
      <4>3. ~(Distance(a, t) <= Distance(a, e))
        BY <1>17, <2>1, <2>2, <3>1, <4>2
      <4>4. t \notin ToSet(tracks)
        <5> SUFFICES ASSUME t \in ToSet(tracks) PROVE FALSE
          OBVIOUS
        <5>1. PICK j \in 1..Len(tracks) : tracks[j] = t
          BY <1>15, Elements
        <5>2. j \in 1..Len(ring) /\ ring[j] = t /\ j < i
          BY <1>6, <1>15, <2>2, <4>1, <5>1
        <5>3. Distance(a, t) < Distance(a, t)
          BY <1>16, <3>1, <5>2
        <5> QED
          BY <1>17, <3>1, <5>3
      <4> QED
        BY <4>3, <4>4
    <3> QED
      BY <3>2, <3>3
  <2> QED
    BY <1>1, <1>3, <1>15, <1>19, <1>20, <1>21, <1>22, <2>3, <2>5, <2>6, <2>7
<1>24. CASE ~(Len(ring) > PageSize)
  <2>1. p.cursor = None /\ Len(tracks) = Len(ring)
    BY <1>6, <1>15, <1>22, <1>24
  <2>2. left \subseteq ToSet(tracks)
    <3> SUFFICES ASSUME NEW t \in left PROVE t \in ToSet(tracks)
      OBVIOUS
    <3>1. PICK i \in 1..Len(ring) : ring[i] = t
      BY <1>13
    <3> QED
      BY <1>15, <2>1, <3>1, Elements
  <2> QED
    BY <1>3, <1>15, <1>19, <1>20, <1>21, <1>22, <2>1, <2>2
<1> QED
  BY <1>23, <1>24

---------------------------------------------------------------------------
(* The inductive invariant *)

Ring  == [anchor: Tracks, after: Tracks]
Cycle == [cursor: Ring \cup {None}, excluded: Tracks \cup {None}, complete: BOOLEAN,
          hasTracks: BOOLEAN]
Cont  == [source: DOMAIN Lists \cup {None}, cursor: Nat \cup {None}, hasMore: BOOLEAN,
          context: Nat \cup {None}]
Page  == [state: {"none", "sent", "waiting"}, context: Nat \cup {None}]

\* A queue q at index i, with a history h, under shuffle s.
QueueOK(q, i, h, s) ==
    /\ q \in Seq(Tracks) /\ IsInjective(q)
    /\ i \in 0..Len(q) /\ (i = 0 <=> q = <<>>)
    /\ h \in Seq(Nat)
    /\ \A k \in 1..Len(h) : h[k] = i - Len(h) + k - 1 /\ h[k] > 0
    /\ h # <<>> => s

\* A continuation has a cursor in its list while there is more.
Continues(c) ==
    /\ c \in Cont
    /\ c.hasMore => c.source # None /\ c.cursor \in 1..Len(Lists[c.source])

Flags == playing \in BOOLEAN /\ shuffle \in BOOLEAN /\ dirty \in BOOLEAN /\ gone \subseteq Tracks

\* A wait is one of this queue, at its end.
WaitAtEnd ==
    /\ context \in 0..MaxContexts
    /\ pending \in {None, context} /\ retry \in {None, context}
    /\ pending # None => idx = Len(queue) /\ idx > 0

CycleTyped == cycle \in Cycle /\ (shuffle /\ idx > 0 => cycle.excluded \in Tracks)

SavedOK ==
    /\ preQueue \in Seq(Tracks) /\ IsInjective(preQueue)
    /\ preCont # None => shuffle /\ Continues(preCont) /\ preCont.source # None

RequestsOK == RequestOK(request) /\ RequestOK(stale)

ContOK ==
    /\ Continues(cont) /\ page \in Page
    /\ cont.context # None => cont.context <= context

\* What holds while the effect of QueueContinuation does not have to run.
Asked ==
    ~dirty =>
        /\ cont.source # None =>
               /\ ~shuffle /\ cont.context = context
               /\ ShouldPrefetchQueue => page.state # "none"
        /\ page.state # "none" =>
               /\ CanWaitForQueueContinuation /\ page.context = context
               /\ ~shuffle /\ idx > 0

\* A shuffle request is one of a cycle that is not complete.
Asking == request # None => shuffle /\ idx > 0 /\ ~cycle.complete

\* WaitHasAnswer, and a wait during a shuffle is one of a cycle that is not complete.
Waiting == WaitHasAnswer /\ (pending # None /\ shuffle => ~cycle.complete)

\* What a cycle has had: nothing but the track it began with before its first page,
\* then all up to its cursor and nothing beyond.
HadUpTo(h, c, x, library) ==
    /\ \A t \in h \ {x} : Distance(c.anchor, t) <= Distance(c.anchor, c.after)
    /\ \A t \in library : Distance(c.anchor, t) <= Distance(c.anchor, c.after) => t \in h

Cycling ==
    shuffle /\ idx > 0 =>
        /\ ToSet(queue) \subseteq heard /\ heard \subseteq Tracks
        /\ cycle.excluded \in heard
        /\ cycle.complete => cycle.cursor = None /\ Tracks \ gone \subseteq heard
        /\ ~cycle.complete /\ cycle.cursor = None => heard = {cycle.excluded}
        /\ cycle.cursor # None => HadUpTo(heard, cycle.cursor, cycle.excluded, Tracks \ gone)

\* The tracks of the list of c up to its cursor, or all of them, are in S.
CoveredBy(c, S) ==
    ToSet(SubSeq(Lists[c.source], 1, IF c.hasMore THEN c.cursor ELSE Len(Lists[c.source])))
        \subseteq S

\* NothingSkipped
Unskipped ==
    /\ ~shuffle /\ cont.source # None /\ cont.context = context
           => CoveredBy(cont, ToSet(queue) \cup behind \cup gone)
    /\ preCont # None => CoveredBy(preCont, ToSet(preQueue) \cup behind \cup gone)

Inv ==
    /\ QueueOK(queue, idx, history, shuffle) /\ Flags /\ WaitAtEnd
    /\ CycleTyped /\ SavedOK /\ RequestsOK /\ ContOK
    /\ Asked /\ Asking /\ Waiting /\ Cycling /\ Unskipped

---------------------------------------------------------------------------
(* The queue *)

\* The indexes of a history that are beyond d are its last ones.
LEMMA KeptRun ==
    ASSUME NEW h \in Seq(Nat), NEW i \in Nat, NEW d \in Nat,
           \A k \in 1..Len(h) : h[k] = i - Len(h) + k - 1
    PROVE  /\ Keep(h, (d + 1)..i) \in Seq(Nat)
           /\ Len(Keep(h, (d + 1)..i)) \in 0..Len(h)
           /\ \A k \in 1..Len(Keep(h, (d + 1)..i)) :
                  /\ Keep(h, (d + 1)..i)[k] = i - Len(Keep(h, (d + 1)..i)) + k - 1
                  /\ Keep(h, (d + 1)..i)[k] > d
<1>1. PICK n : n = Len(h)
  OBVIOUS
<1>2. n \in Nat /\ \A k \in 1..n : h[k] \in Nat /\ h[k] = i - n + k - 1
  BY <1>1, LenProperties, ElementOfSeq
<1>3. PICK a : a = IF d + n - i + 1 > 0 THEN d + n - i + 1 ELSE 0
  OBVIOUS
<1>4. a \in Nat
  BY <1>2, <1>3
<1>5. ASSUME NEW k \in 1..n PROVE h[k] \in (d + 1)..i <=> k > a
  <2>1. h[k] = i - n + k - 1 /\ k <= n /\ k \in Nat
    BY <1>2
  <2>2. i - n + k - 1 \in (d + 1)..i <=> k > d + n - i + 1
    BY <1>2, <2>1
  <2>3. k > d + n - i + 1 <=> k > a
    BY <1>2, <1>3, <2>1
  <2> QED
    BY <2>1, <2>2, <2>3
<1>6. PICK f : Sifts(f, h, (d + 1)..i) /\ Keep(h, (d + 1)..i) = f[n]
  BY <1>1, <1>2, KeepSifts
<1>7. /\ f[0] = <<>>
      /\ \A k \in 1..n : f[k] = IF h[k] \in (d + 1)..i THEN Append(f[k - 1], h[k])
                               ELSE f[k - 1]
  BY <1>1, <1>6 DEF Sifts
<1> DEFINE M == {m \in 0..n : /\ f[m] \in Seq(Nat)
                              /\ Len(f[m]) = IF m <= a THEN 0 ELSE m - a
                              /\ \A k \in 1..Len(f[m]) : f[m][k] = h[a + k]}
<1>8. 0 \in M
  <2>1. f[0] \in Seq(Nat) /\ Len(f[0]) = 0
    BY <1>7
  <2> QED
    BY <1>2, <1>4, <2>1
<1>9. ASSUME NEW m \in 0..(n - 1), m \in M PROVE m + 1 \in M
  <2>1. PICK q : q = f[m]
    OBVIOUS
  <2>2. /\ q \in Seq(Nat) /\ Len(q) = IF m <= a THEN 0 ELSE m - a
        /\ \A k \in 1..Len(q) : q[k] = h[a + k]
    BY <1>9, <2>1
  <2> DEFINE l == m + 1
  <2>3. l \in 1..n /\ l - 1 = m /\ m \in Nat /\ l = m + 1
    BY <1>2
  <2> HIDE DEF l
  <2>4. PICK r : r = f[l]
    OBVIOUS
  <2>5. r = IF l > a THEN Append(q, h[l]) ELSE q
    BY <1>5, <1>7, <2>1, <2>3, <2>4
  <2>6. /\ r \in Seq(Nat) /\ Len(r) = IF l <= a THEN 0 ELSE l - a
        /\ \A k \in 1..Len(r) : r[k] = h[a + k]
    <3>1. CASE l > a
      <4>1. h[l] \in Nat
        BY <1>2, <2>3
      <4>2. Len(q) = m - a
        BY <1>4, <2>2, <2>3, <3>1
      <4>3. /\ r \in Seq(Nat) /\ Len(r) = Len(q) + 1
            /\ \A k \in 1..Len(q) : r[k] = q[k]
            /\ r[Len(q) + 1] = h[l]
        BY <2>2, <2>5, <3>1, <4>1, AppendProperties
      <4>4. Len(r) = l - a
        BY <1>4, <2>3, <4>2, <4>3
      <4>5. ~(l <= a)
        BY <1>4, <2>3, <3>1
      <4>6. ASSUME NEW k \in 1..Len(r) PROVE r[k] = h[a + k]
        <5>1. k \in 1..Len(q) \/ (k = Len(q) + 1 /\ a + k = l)
          BY <1>4, <2>3, <3>1, <4>2, <4>3
        <5> QED
          BY <2>2, <4>3, <5>1
      <4> QED
        BY <4>3, <4>4, <4>5, <4>6
    <3>2. CASE ~(l > a)
      <4>1. m <= a /\ l <= a
        BY <1>4, <2>3, <3>2
      <4> QED
        BY <2>2, <2>5, <3>2, <4>1
    <3> QED
      BY <3>1, <3>2
  <2>7. l \in 0..n
    BY <1>2, <2>3
  <2>8. l \in M
    BY <2>4, <2>6, <2>7
  <2> HIDE DEF M
  <2> QED
    BY <2>3, <2>8
<1>10. n \in M
  <2> HIDE DEF M
  <2>1. \A m \in 0..n : m \in M
    BY <1>2, <1>8, <1>9, IntervalInduction
  <2> QED
    BY <1>2, <2>1
<1>11. PICK q : q = Keep(h, (d + 1)..i)
  OBVIOUS
<1>12. /\ q \in Seq(Nat) /\ Len(q) = IF n <= a THEN 0 ELSE n - a
       /\ \A k \in 1..Len(q) : q[k] = h[a + k]
  BY <1>6, <1>10, <1>11
<1>13. Len(q) \in 0..n /\ Len(q) \in Nat
  BY <1>2, <1>4, <1>12
<1>14. ASSUME NEW k \in 1..Len(q) PROVE q[k] = i - Len(q) + k - 1 /\ q[k] > d
  <2>1. n > a /\ Len(q) = n - a
    BY <1>2, <1>4, <1>12, <1>13
  <2>2. a + k \in 1..n /\ a + k > a
    BY <1>2, <1>4, <2>1
  <2>3. h[a + k] = i - n + (a + k) - 1 /\ h[a + k] \in (d + 1)..i
    BY <1>2, <1>5, <2>2
  <2>4. i - n + (a + k) - 1 = i - Len(q) + k - 1
    BY <1>2, <1>4, <2>1
  <2>5. q[k] = h[a + k]
    BY <1>12
  <2>6. \A v \in (d + 1)..i : v > d
    OBVIOUS
  <2> QED
    BY <2>3, <2>4, <2>5, <2>6
<1> QED
  BY <1>1, <1>11, <1>12, <1>13, <1>14

\* c is a queue with q's current track and as many tracks after it, and names what it lacks.
KeepsQueue(c, q, i, s) ==
    /\ QueueOK(c.queue, c.idx, c.history, s)
    /\ ToSet(q) = c.dropped \cup ToSet(c.queue)
    /\ i > 0 => c.idx > 0 /\ c.queue[c.idx] = q[i]
    /\ Len(c.queue) - c.idx = Len(q) - i

\* Compacting a queue keeps it so.
LEMMA CompactedQueue ==
    ASSUME NEW q, NEW i, NEW h, NEW s, QueueOK(q, i, h, s)
    PROVE  KeepsQueue(Compacted(q, i, h), q, i, s)
<1>1. PICK n : n = Len(q)
  OBVIOUS
<1>2. /\ q \in Seq(Tracks) /\ IsInjective(q) /\ n \in Nat /\ i \in 0..n
      /\ (i = 0 <=> q = <<>>) /\ i \in Nat /\ (q = <<>> <=> n = 0)
  BY <1>1, Elements DEF QueueOK
<1>3. /\ h \in Seq(Nat) /\ (h # <<>> => s)
      /\ \A k \in 1..Len(h) : h[k] = i - Len(h) + k - 1 /\ h[k] > 0
  BY DEF QueueOK
<1>4. PICK d : d = Greater(0, i - 1 - HistoryLimit)
  OBVIOUS
<1>5. d \in Nat /\ (i > 0 => d < i) /\ (i = 0 => d = 0) /\ d <= n
  BY <1>2, <1>4, Library DEF Greater
<1>6. PICK u : u = SubSeq(q, d + 1, n)
  OBVIOUS
<1>7. /\ u \in Seq(Tracks) /\ Len(u) = n - d /\ IsInjective(u)
      /\ \A k \in 1..(n - d) : u[k] = q[d + k]
      /\ \A k \in (d + 1)..n : q[k] \in ToSet(u)
      /\ ToSet(u) \subseteq ToSet(q)
  <2>1. /\ d + 1 \in Nat \ {0} /\ n \in 0..Len(q) /\ d + 1 <= n + 1
        /\ n - (d + 1) + 1 = n - d
        /\ \A k \in 1..(n - d) : (d + 1) + k - 1 = d + k
    BY <1>1, <1>2, <1>5
  <2> QED
    BY <1>2, <1>6, <2>1, Piece
<1>8. PICK w : w = SubSeq(q, 1, d)
  OBVIOUS
<1>9. ToSet(w) \subseteq ToSet(q) /\ \A k \in 1..d : q[k] \in ToSet(w)
  <2>1. d \in 0..Len(q) /\ 1 <= d + 1
    BY <1>1, <1>2, <1>5
  <2> QED
    BY <1>2, <1>8, <2>1, Piece
<1>10. PICK kept : kept = Keep(h, (d + 1)..i)
  OBVIOUS
<1>11. /\ kept \in Seq(Nat) /\ Len(kept) \in 0..Len(h)
       /\ \A k \in 1..Len(kept) : kept[k] = i - Len(kept) + k - 1 /\ kept[k] > d
  BY <1>2, <1>3, <1>5, <1>10, KeptRun
<1>12. PICK m : m = Len(kept)
  OBVIOUS
<1>13. m \in Nat /\ DOMAIN kept = 1..m
  BY <1>11, <1>12, LenProperties
<1>14. PICK e : e = [k \in DOMAIN kept |-> kept[k] - d]
  OBVIOUS
<1>15. \A k \in 1..m : kept[k] \in Nat /\ kept[k] = i - m + k - 1 /\ kept[k] > d
  BY <1>11, <1>12, ElementOfSeq
<1>16. \A k \in 1..m : kept[k] - d \in Nat /\ kept[k] - d = (i - d) - m + k - 1 /\ kept[k] - d > 0
  <2> TAKE k \in 1..m
  <2>1. kept[k] \in Nat /\ kept[k] = i - m + k - 1 /\ kept[k] > d
    BY <1>15
  <2> QED
    BY <1>2, <1>5, <1>13, <2>1
<1>17. e = [k \in 1..m |-> kept[k] - d]
  BY <1>13, <1>14
<1>18. e \in Seq(Nat) /\ Len(e) = m
  BY <1>13, <1>16, <1>17
<1>19. \A k \in 1..Len(e) : e[k] = (i - d) - Len(e) + k - 1 /\ e[k] > 0
  BY <1>16, <1>17, <1>18
<1>20. e # <<>> => s
  <2> SUFFICES ASSUME e # <<>> PROVE s
    OBVIOUS
  <2>1. m # 0
    BY <1>18, EmptySeq
  <2>2. Len(h) # 0
    BY <1>3, <1>11, <1>12, <1>13, <2>1, LenProperties
  <2> QED
    BY <1>3, <2>2, EmptySeq
<1>21. PICK c : c = Compacted(q, i, h)
  OBVIOUS
<1>22. c.queue = u /\ c.idx = i - d /\ c.history = e /\ c.dropped = ToSet(w)
  BY <1>1, <1>4, <1>6, <1>8, <1>10, <1>14, <1>21 DEF Compacted
<1>23. i - d \in 0..(n - d) /\ (i - d = 0 <=> n - d = 0)
  BY <1>2, <1>5
<1>24. QueueOK(u, i - d, e, s)
  <2>1. u = <<>> <=> n - d = 0
    BY <1>7, Elements
  <2> QED
    BY <1>7, <1>18, <1>19, <1>20, <1>23, <2>1 DEF QueueOK
<1>25. ToSet(q) = ToSet(w) \cup ToSet(u)
  <2>1. ASSUME NEW t \in ToSet(q) PROVE t \in ToSet(w) \cup ToSet(u)
    <3>1. PICK k \in 1..n : q[k] = t
      BY <1>1, <1>2, Elements
    <3>2. k \in 1..d \/ k \in (d + 1)..n
      BY <1>2, <1>5
    <3> QED
      BY <1>7, <1>9, <3>1, <3>2
  <2> QED
    BY <1>7, <1>9, <2>1
<1>26. ASSUME i > 0 PROVE i - d > 0 /\ u[i - d] = q[i]
  <2>1. i - d \in 1..(n - d) /\ d + (i - d) = i /\ i - d > 0
    BY <1>2, <1>5, <1>26
  <2> QED
    BY <1>7, <2>1
<1>27. (n - d) - (i - d) = n - i
  BY <1>2, <1>5
<1>28. KeepsQueue(c, q, i, s)
  BY <1>1, <1>7, <1>22, <1>24, <1>25, <1>26, <1>27 DEF KeepsQueue
<1> QED
  BY <1>21, <1>28

\* Tracks that a queue does not have can follow it.
LEMMA Lengthened ==
    ASSUME NEW q, NEW i, NEW h, NEW s, QueueOK(q, i, h, s), i > 0,
           NEW tracks \in Seq(Tracks), IsInjective(tracks),
           ToSet(q) \cap ToSet(tracks) = {}
    PROVE  /\ QueueOK(q \o tracks, i, h, s)
           /\ Len(q \o tracks) = Len(q) + Len(tracks)
           /\ (q \o tracks)[i] = q[i]
           /\ \A k \in 1..Len(tracks) : (q \o tracks)[Len(q) + k] = tracks[k]
           /\ ToSet(q \o tracks) = ToSet(q) \cup ToSet(tracks)
<1>1. /\ q \in Seq(Tracks) /\ IsInjective(q) /\ i \in 0..Len(q)
      /\ h \in Seq(Nat) /\ (h # <<>> => s)
      /\ \A k \in 1..Len(h) : h[k] = i - Len(h) + k - 1 /\ h[k] > 0
  BY DEF QueueOK
<1>2. PICK u : u = q \o tracks
  OBVIOUS
<1>3. /\ u \in Seq(Tracks) /\ Len(u) = Len(q) + Len(tracks)
      /\ \A k \in 1..Len(q) : u[k] = q[k]
      /\ \A k \in 1..Len(tracks) : u[Len(q) + k] = tracks[k]
      /\ ToSet(u) = ToSet(q) \cup ToSet(tracks)
      /\ IsInjective(u)
  BY <1>1, <1>2, Joined
<1>4. Len(q) \in Nat /\ Len(tracks) \in Nat
  BY <1>1, LenProperties
<1>5. i \in 1..Len(q) /\ i \in 0..Len(u) /\ i # 0 /\ Len(u) # 0
  BY <1>1, <1>3, <1>4
<1>6. u # <<>>
  BY <1>5
<1>7. QueueOK(u, i, h, s)
  BY <1>1, <1>3, <1>5, <1>6 DEF QueueOK
<1> QED
  BY <1>2, <1>3, <1>5, <1>7

\* The index moves on to the next track, which is in the queue.
LEMMA Advanced ==
    ASSUME NEW q, NEW i, NEW h, NEW s, QueueOK(q, i, h, s), i > 0, i < Len(q)
    PROVE  /\ s => QueueOK(q, i + 1, Append(h, i), s)
           /\ ~s => QueueOK(q, i + 1, h, s)
<1>1. /\ q \in Seq(Tracks) /\ IsInjective(q) /\ i \in 0..Len(q)
      /\ (i = 0 <=> q = <<>>)
      /\ h \in Seq(Nat) /\ (h # <<>> => s)
      /\ \A k \in 1..Len(h) : h[k] = i - Len(h) + k - 1 /\ h[k] > 0
  BY DEF QueueOK
<1>2. Len(q) \in Nat /\ Len(h) \in Nat
  BY <1>1, LenProperties
<1>3. i \in Nat /\ i + 1 \in 0..Len(q) /\ i + 1 # 0 /\ i # 0
  BY <1>1, <1>2
<1>4. q # <<>>
  BY <1>1, <1>3
<1>5. PICK e : e = Append(h, i)
  OBVIOUS
<1>6. /\ e \in Seq(Nat) /\ Len(e) = Len(h) + 1 /\ e[Len(h) + 1] = i
      /\ \A k \in 1..Len(h) : e[k] = h[k]
  BY <1>1, <1>3, <1>5, AppendProperties
<1>7. ASSUME NEW k \in 1..Len(e) PROVE e[k] = (i + 1) - Len(e) + k - 1 /\ e[k] > 0
  <2>1. k \in 1..Len(h) \/ k = Len(h) + 1
    BY <1>2, <1>6
  <2>2. CASE k \in 1..Len(h)
    <3>1. e[k] = h[k] /\ h[k] > 0 /\ h[k] = i - Len(h) + k - 1
      BY <1>1, <1>6, <2>2
    <3>2. i - Len(h) + k - 1 = (i + 1) - (Len(h) + 1) + k - 1
      BY <1>2, <1>3
    <3> QED
      BY <1>6, <3>1, <3>2
  <2>3. CASE k = Len(h) + 1
    BY <1>2, <1>3, <1>6, <2>3
  <2> QED
    BY <2>1, <2>2, <2>3
<1>8. s => QueueOK(q, i + 1, e, s)
  BY <1>1, <1>3, <1>4, <1>6, <1>7 DEF QueueOK
<1>9. ASSUME ~s PROVE QueueOK(q, i + 1, h, s)
  <2>1. h = <<>> /\ Len(h) = 0
    BY <1>1, <1>9
  <2>2. \A k \in 1..Len(h) : FALSE
    BY <2>1
  <2> QED
    BY <1>1, <1>3, <1>4, <1>9, <2>1, <2>2 DEF QueueOK
<1> QED
  BY <1>5, <1>8, <1>9

\* The index moves back, along the history if there is one.
LEMMA MovedBack ==
    ASSUME NEW q, NEW i, NEW h, NEW s, QueueOK(q, i, h, s)
    PROVE  /\ h # <<>> => QueueOK(q, Last(h), Front(h), s)
           /\ h = <<>> /\ i > 1 => QueueOK(q, i - 1, h, s)
<1>1. /\ q \in Seq(Tracks) /\ IsInjective(q) /\ i \in 0..Len(q)
      /\ (i = 0 <=> q = <<>>)
      /\ h \in Seq(Nat) /\ (h # <<>> => s)
      /\ \A k \in 1..Len(h) : h[k] = i - Len(h) + k - 1 /\ h[k] > 0
  BY DEF QueueOK
<1>2. Len(q) \in Nat /\ Len(h) \in Nat /\ i \in Nat
  BY <1>1, LenProperties
<1>3. ASSUME h # <<>> PROVE QueueOK(q, Last(h), Front(h), s)
  <2>1. PICK n : n = Len(h)
    OBVIOUS
  <2>2. n \in Nat /\ n \in 1..Len(h)
    BY <1>1, <1>2, <1>3, <2>1, EmptySeq
  <2>3. h[n] = i - 1 /\ h[n] > 0
    <3>1. h[n] = i - n + n - 1 /\ h[n] > 0
      BY <1>1, <2>1, <2>2
    <3> QED
      BY <1>2, <2>2, <3>1
  <2>4. i - 1 \in 0..Len(q) /\ i - 1 # 0 /\ i # 0
    BY <1>1, <1>2, <2>3
  <2>5. PICK e : e = SubSeq(h, 1, n - 1)
    OBVIOUS
  <2>6. /\ e \in Seq(Nat) /\ Len(e) = n - 1
        /\ \A k \in 1..(n - 1) : e[k] = h[k]
    <3>1. n - 1 \in 0..Len(h) /\ 1 <= (n - 1) + 1 /\ (n - 1) - 1 + 1 = n - 1
          /\ \A k \in 1..(n - 1) : 1 + k - 1 = k
      BY <2>1, <2>2
    <3>2. PICK a, b : a = 1 /\ b = n - 1
      OBVIOUS
    <3>3. a \in Nat \ {0} /\ b \in 0..Len(h) /\ a <= b + 1
      BY <2>2, <3>1, <3>2
    <3>4. /\ SubSeq(h, a, b) \in Seq(Nat) /\ Len(SubSeq(h, a, b)) = b - a + 1
          /\ \A k \in 1..(b - a + 1) : SubSeq(h, a, b)[k] = h[a + k - 1]
      BY <1>1, <3>3, Piece
    <3>5. /\ e \in Seq(Nat) /\ Len(e) = (n - 1) - 1 + 1
          /\ \A k \in 1..((n - 1) - 1 + 1) : e[k] = h[1 + k - 1]
      BY <2>5, <3>2, <3>4
    <3> QED
      BY <3>1, <3>5
  <2>7. ASSUME NEW k \in 1..(n - 1) PROVE e[k] = (i - 1) - (n - 1) + k - 1 /\ e[k] > 0
    <3>1. k \in 1..Len(h)
      BY <2>1, <2>2
    <3>2. h[k] = i - n + k - 1 /\ h[k] > 0
      BY <1>1, <2>1, <3>1
    <3>3. i - n + k - 1 = (i - 1) - (n - 1) + k - 1
      BY <1>2, <2>2
    <3> QED
      BY <2>6, <3>2, <3>3
  <2>8. QueueOK(q, i - 1, e, s)
    BY <1>1, <1>3, <2>4, <2>6, <2>7 DEF QueueOK
  <2>9. Last(h) = i - 1 /\ Front(h) = e
    BY <2>1, <2>3, <2>5 DEF Last, Front
  <2> QED
    BY <2>8, <2>9
<1>4. ASSUME h = <<>>, i > 1 PROVE QueueOK(q, i - 1, h, s)
  <2>1. i - 1 \in 0..Len(q) /\ i - 1 # 0 /\ i # 0
    BY <1>1, <1>2, <1>4
  <2>2. Len(h) = 0
    BY <1>4
  <2>3. \A k \in 1..Len(h) : FALSE
    BY <2>2
  <2> QED
    BY <1>1, <1>4, <2>1, <2>3 DEF QueueOK
<1> QED
  BY <1>3, <1>4

---------------------------------------------------------------------------
(* The first state, and what several actions have in common *)

\* A player that starts with nothing satisfies the invariant.
LEMMA InitInv == ASSUME Init PROVE Inv
<1>1. None \notin Nat /\ MaxContexts \in Nat
  BY Library
<1>2. QueueOK(queue, idx, history, shuffle)
  <2>1. /\ <<>> \in Seq(Tracks) /\ <<>> \in Seq(Nat) /\ Len(<<>>) = 0
    BY EmptySeq
  <2>2. IsInjective(<<>>)
    BY DEF IsInjective
  <2>3. \A k \in 1..Len(<<>>) : FALSE
    BY <2>1
  <2>4. 0 \in 0..Len(<<>>)
    BY <2>1
  <2> QED
    BY <2>1, <2>2, <2>3, <2>4 DEF Init, QueueOK
<1>3. Flags /\ WaitAtEnd /\ RequestsOK
  <2>1. 0 \in 0..MaxContexts
    BY <1>1
  <2>2. WaitAtEnd
    BY <2>1 DEF Init, WaitAtEnd
  <2> QED
    BY <2>2 DEF Init, Flags, RequestsOK, RequestOK
<1>4. CycleTyped
  BY DEF Init, CycleTyped, Cycle, NoCycle
<1>5. SavedOK
  BY EmptySeq DEF Init, SavedOK, IsInjective
<1>6. ContOK
  BY DEF Init, ContOK, Continues, Cont, Page, Stopped, NoPage
<1>7. Asked /\ Asking /\ Waiting
  BY DEF Init, Asked, Asking, Waiting, WaitHasAnswer
<1>8. Cycling
  BY DEF Init, Cycling
<1>9. Unskipped
  BY DEF Init, Unskipped, Stopped
<1> QED
  BY <1>2, <1>3, <1>4, <1>5, <1>6, <1>7, <1>8, <1>9 DEF Inv

\* After a step that leaves the page request alone, the effect has to run if anything that
\* it reads has changed.
LEMMA Rerendered ==
    ASSUME Asked, ~dirty, Rerender, page' = page
    PROVE  Asked' /\ dirty' \in BOOLEAN
<1>1. dirty' \in BOOLEAN
  BY DEF Rerender
<1>2. ASSUME ~dirty' PROVE Asked'
  <2>1. Read' = Read
    BY <1>2 DEF Rerender
  <2>2. /\ context' = context /\ idx' = idx /\ Len(queue') = Len(queue)
        /\ shuffle' = shuffle /\ cont' = cont
    BY <2>1 DEF Read
  <2> QED
    BY <2>2 DEF Asked, ShouldPrefetchQueue, CanWaitForQueueContinuation
<1>3. ASSUME dirty' PROVE Asked'
  BY <1>3 DEF Asked
<1> QED
  BY <1>1, <1>2, <1>3

\* What is covered by a set is covered by a larger one.
LEMMA CoveredMore ==
    ASSUME NEW c, NEW S, NEW T, S \subseteq T, CoveredBy(c, S)
    PROVE  CoveredBy(c, T)
BY DEF CoveredBy

\* A cycle goes on when its queue loses tracks, or the library does.
LEMMA CycleGoesOn ==
    ASSUME Cycling, shuffle' = shuffle, cycle' = cycle, heard' = heard,
           idx' > 0 => idx > 0, ToSet(queue') \subseteq ToSet(queue), gone \subseteq gone'
    PROVE  Cycling'
<1> SUFFICES ASSUME shuffle', idx' > 0
             PROVE  /\ ToSet(queue') \subseteq heard' /\ heard' \subseteq Tracks
                    /\ cycle'.excluded \in heard'
                    /\ cycle'.complete => cycle'.cursor = None /\ Tracks \ gone' \subseteq heard'
                    /\ ~cycle'.complete /\ cycle'.cursor = None => heard' = {cycle'.excluded}
                    /\ cycle'.cursor # None =>
                           HadUpTo(heard', cycle'.cursor, cycle'.excluded, Tracks \ gone')
  BY DEF Cycling
<1>1. /\ ToSet(queue) \subseteq heard /\ heard \subseteq Tracks
      /\ cycle.excluded \in heard
      /\ cycle.complete => cycle.cursor = None /\ Tracks \ gone \subseteq heard
      /\ ~cycle.complete /\ cycle.cursor = None => heard = {cycle.excluded}
      /\ cycle.cursor # None => HadUpTo(heard, cycle.cursor, cycle.excluded, Tracks \ gone)
  BY DEF Cycling
<1>2. cycle.cursor # None => HadUpTo(heard, cycle.cursor, cycle.excluded, Tracks \ gone')
  BY <1>1 DEF HadUpTo
<1> QED
  BY <1>1, <1>2

\* A step that leaves the queue, the cycle, the continuation and the library alone.
LEMMA StillInv ==
    ASSUME Inv,
           UNCHANGED <<queue, idx, history, context, shuffleVars, contVars, dirty, gone,
                       ghostVars>>,
           playing' \in BOOLEAN, RequestsOK', WaitAtEnd', Asking', Waiting'
    PROVE  Inv'
<1> USE DEF shuffleVars, contVars, ghostVars
<1>1. QueueOK(queue', idx', history', shuffle')
  BY DEF Inv
<1>2. Flags' /\ CycleTyped'
  BY DEF Inv, Flags, CycleTyped
<1>3. SavedOK'
  BY DEF Inv, SavedOK
<1>4. ContOK'
  BY DEF Inv, ContOK
<1>5. Asked'
  BY DEF Inv, Asked, ShouldPrefetchQueue, CanWaitForQueueContinuation
<1>6. Cycling'
  BY CycleGoesOn DEF Inv
<1>7. Unskipped'
  BY DEF Inv, Unskipped
<1> QED
  BY <1>1, <1>2, <1>3, <1>4, <1>5, <1>6, <1>7 DEF Inv

---------------------------------------------------------------------------
(* The steps that leave the queue alone *)

\* Pausing or playing ends a wait.
LEMMA TogglePlaybackInv == ASSUME Inv, TogglePlayback PROVE Inv'
<1>1. playing' \in BOOLEAN
  BY DEF TogglePlayback
<1>2. RequestsOK' /\ WaitAtEnd'
  BY DEF Inv, TogglePlayback, RequestsOK, WaitAtEnd
<1>3. Asking'
  BY DEF Inv, TogglePlayback, Asking, shuffleVars
<1>4. Waiting'
  BY DEF TogglePlayback, Waiting, WaitHasAnswer
<1> QED
  BY <1>1, <1>2, <1>3, <1>4, StillInv DEF TogglePlayback

\* At its last track the queue asks for the next page, if there is one.
LEMMA AskedAtEnd ==
    ASSUME Inv, ~dirty, idx = Len(queue), idx > 0, CanWaitForQueueContinuation
    PROVE  page.state # "none" /\ page.context = context
<1>1. Len(queue) - idx < PrefetchDistance
  <2>1. idx \in Int
    BY Elements DEF Inv, QueueOK
  <2> QED
    BY <2>1, Library
<1>2. ShouldPrefetchQueue
  BY <1>1 DEF ShouldPrefetchQueue, CanWaitForQueueContinuation
<1> QED
  BY <1>2 DEF Inv, Asked, CanWaitForQueueContinuation

\* Next at the end of a list waits only for a page that is asked for.
LEMMA NextOfListInv == ASSUME Inv, ~dirty, idx > 0, NextOfList PROVE Inv'
<1>1. playing' \in BOOLEAN
  BY DEF NextOfList
<1>2. RequestsOK'
  BY DEF Inv, NextOfList, RequestsOK, askVars
<1>3. WaitAtEnd'
  BY DEF Inv, NextOfList, WaitAtEnd, askVars
<1>4. Asking'
  BY DEF Inv, NextOfList, Asking, askVars, shuffleVars
<1>5. Waiting'
  <2>1. CASE CanWaitForQueueContinuation
    <3>1. page.state # "none" /\ page.context = context
      BY <2>1, AskedAtEnd DEF NextOfList
    <3>2. CanWaitForQueueContinuation' /\ page' = page /\ ~shuffle' /\ context' = context
      BY <2>1 DEF NextOfList, CanWaitForQueueContinuation, contVars, shuffleVars
    <3> QED
      BY <3>1, <3>2 DEF Waiting, WaitHasAnswer
  <2>2. CASE ~CanWaitForQueueContinuation
    <3>1. pending = None
      BY <2>2 DEF Inv, Waiting, WaitHasAnswer, NextOfList
    <3> QED
      BY <2>2, <3>1 DEF NextOfList, Waiting, WaitHasAnswer
  <2> QED
    BY <2>1, <2>2
<1> QED
  BY <1>1, <1>2, <1>3, <1>4, <1>5, StillInv DEF NextOfList

\* Next in a library of one track stops.
LEMMA NextOfNothingInv == ASSUME Inv, NextOfNothing PROVE Inv'
<1>1. playing' \in BOOLEAN
  BY DEF NextOfNothing
<1>2. RequestsOK' /\ WaitAtEnd'
  BY DEF Inv, NextOfNothing, RequestsOK, WaitAtEnd, askVars
<1>3. Asking'
  BY DEF Inv, NextOfNothing, Asking, askVars, shuffleVars
<1>4. Waiting'
  BY DEF Inv, NextOfNothing, Waiting, WaitHasAnswer, askVars, shuffleVars
<1> QED
  BY <1>1, <1>2, <1>3, <1>4, StillInv DEF NextOfNothing

\* Next at the end of a shuffle queue waits for the request that it makes or joins.
LEMMA NextOfCycleInv ==
    ASSUME Inv, idx > 0, NEW w \in SUBSET Tracks, NextOfCycle(w)
    PROVE  Inv'
<1>1. playing' \in BOOLEAN
  BY DEF NextOfCycle
<1>2. request' \in SUBSET Tracks /\ request' # None
  <2>1. request # None => request \subseteq Tracks
    BY DEF Inv, RequestsOK, RequestOK
  <2> QED
    BY <2>1, Library DEF NextOfCycle
<1>3. RequestsOK'
  BY <1>2 DEF Inv, NextOfCycle, RequestsOK, RequestOK
<1>4. WaitAtEnd'
  BY DEF Inv, NextOfCycle, WaitAtEnd
<1>5. Asking'
  BY DEF NextOfCycle, Asking, shuffleVars
<1>6. Waiting'
  BY <1>2 DEF NextOfCycle, Waiting, WaitHasAnswer, shuffleVars
<1> QED
  BY <1>1, <1>3, <1>4, <1>5, <1>6, StillInv DEF NextOfCycle

\* An error of the media element ends a wait.
LEMMA HandlePlaybackErrorInv == ASSUME Inv, HandlePlaybackError PROVE Inv'
<1>1. playing' \in BOOLEAN
  BY DEF HandlePlaybackError
<1>2. RequestsOK' /\ WaitAtEnd'
  BY DEF Inv, HandlePlaybackError, RequestsOK, WaitAtEnd, askVars
<1>3. Asking'
  BY DEF Inv, HandlePlaybackError, Asking, askVars, shuffleVars
<1>4. Waiting'
  BY DEF HandlePlaybackError, Waiting, WaitHasAnswer
<1> QED
  BY <1>1, <1>2, <1>3, <1>4, StillInv DEF HandlePlaybackError

\* A shuffle request begins only for a cycle that is not complete.
LEMMA PrefetchShuffleInv == ASSUME Inv, PrefetchShuffle PROVE Inv'
<1>1. request' = {} /\ {} \in SUBSET Tracks /\ request' # None
  BY Library DEF PrefetchShuffle
<1>2. playing' \in BOOLEAN
  BY DEF Inv, Flags, PrefetchShuffle, queueVars
<1>3. RequestsOK'
  BY <1>1 DEF Inv, PrefetchShuffle, RequestsOK, RequestOK
<1>4. WaitAtEnd'
  BY DEF Inv, PrefetchShuffle, WaitAtEnd, queueVars
<1>5. Asking'
  BY DEF PrefetchShuffle, CanAsk, Asking, shuffleVars, queueVars
<1>6. Waiting'
  BY <1>1 DEF Inv, PrefetchShuffle, CanAsk, Waiting, WaitHasAnswer, shuffleVars, queueVars
<1> QED
  BY <1>2, <1>3, <1>4, <1>5, <1>6, StillInv DEF PrefetchShuffle, queueVars

\* A shuffle request that fails leaves a wait with a retry, or ends it.
LEMMA ShuffleFailsInv ==
    ASSUME Inv, NEW retryable \in BOOLEAN, ShuffleFails(retryable)
    PROVE  Inv'
<1>1. playing' \in BOOLEAN
  BY DEF ShuffleFails, ResumeNext
<1>2. /\ request' = None /\ stale' = stale /\ context' = context /\ queue' = queue
      /\ idx' = idx /\ shuffle' = shuffle /\ cycle' = cycle
  BY DEF ShuffleFails, shuffleVars
<1>3. shuffle /\ ~cycle.complete /\ idx > 0
  BY DEF Inv, Asking, ShuffleFails
<1>4. \/ pending' = None /\ retry' \in {None, context}
      \/ pending' = pending /\ retry' = context
  BY DEF Inv, WaitAtEnd, ShuffleFails
<1>5. RequestsOK'
  BY <1>2 DEF Inv, RequestsOK, RequestOK
<1>6. WaitAtEnd'
  BY <1>2, <1>4 DEF Inv, WaitAtEnd
<1>7. Asking'
  BY <1>2 DEF Asking
<1>8. Waiting'
  BY <1>2, <1>3, <1>4 DEF Waiting, WaitHasAnswer
<1> QED
  BY <1>1, <1>5, <1>6, <1>7, <1>8, StillInv DEF ShuffleFails

\* The answer to a request that was replaced touches nothing but the playback.
LEMMA StaleAnsweredInv == ASSUME Inv, StaleAnswered PROVE Inv'
<1>1. playing' \in BOOLEAN
  BY DEF StaleAnswered, ResumeNext
<1>2. RequestsOK'
  BY DEF Inv, StaleAnswered, RequestsOK, RequestOK
<1>3. WaitAtEnd'
  BY DEF Inv, StaleAnswered, WaitAtEnd
<1>4. Asking'
  BY DEF Inv, StaleAnswered, Asking, shuffleVars
<1>5. Waiting'
  BY DEF Inv, StaleAnswered, Waiting, WaitHasAnswer, CanWaitForQueueContinuation,
         shuffleVars, contVars
<1> QED
  BY <1>1, <1>2, <1>3, <1>4, <1>5, StillInv DEF StaleAnswered

\* A retry that is due becomes a request if something waits for it.
LEMMA ShuffleRetryInv == ASSUME Inv, ShuffleRetry PROVE Inv'
<1>1. /\ UNCHANGED <<queue, idx, history, playing, context, pending, shuffle, cycle, stale,
                     cont, page, dirty>>
      /\ retry' = None
      /\ request' = IF pending = retry /\ context = retry /\ CanAsk THEN {} ELSE request
  BY DEF ShuffleRetry, queueVars, shuffleVars, contVars
<1>2. {} # None /\ None \notin Nat
  BY Library
<1>3. playing' \in BOOLEAN
  BY <1>1 DEF Inv, Flags
<1>4. RequestsOK'
  BY <1>1 DEF Inv, RequestsOK, RequestOK
<1>5. WaitAtEnd'
  BY <1>1 DEF Inv, WaitAtEnd
<1>6. Asking'
  BY <1>1 DEF Inv, Asking, CanAsk
<1>7. Waiting'
  <2> SUFFICES ASSUME pending # None PROVE Waiting'
    BY <1>1 DEF Waiting, WaitHasAnswer
  <2>1. pending = context /\ idx > 0
    BY DEF Inv, WaitAtEnd
  <2>2. CASE shuffle
    <3>1. ~cycle.complete /\ (request # None \/ retry = context)
      BY <2>2 DEF Inv, Waiting, WaitHasAnswer
    <3>2. request' # None
      BY <1>1, <1>2, <2>1, <2>2, <3>1 DEF CanAsk
    <3> QED
      BY <1>1, <2>2, <3>1, <3>2 DEF Waiting, WaitHasAnswer
  <2>3. CASE ~shuffle
    BY <1>1, <2>3 DEF Inv, Waiting, WaitHasAnswer, CanWaitForQueueContinuation
  <2> QED
    BY <2>2, <2>3
<1> QED
  BY <1>3, <1>4, <1>5, <1>6, <1>7, StillInv DEF ShuffleRetry, queueVars

\* A library that loses tracks asks less of a cycle and of a queue.
LEMMA TracksRemovedInv == ASSUME Inv, TracksRemoved PROVE Inv'
<1>1. /\ UNCHANGED <<queue, idx, history, playing, context, pending, shuffle, cycle, preQueue,
                     preCont, request, stale, retry, cont, page, dirty, heard, behind>>
      /\ gone \subseteq gone'
  BY DEF TracksRemoved, queueVars, shuffleVars, askVars, contVars, ghostVars
<1>2. gone' \subseteq Tracks
  BY PlayerConstants DEF TracksRemoved
<1>3. QueueOK(queue', idx', history', shuffle')
  BY <1>1 DEF Inv
<1>4. Flags'
  BY <1>1, <1>2 DEF Inv, Flags
<1>5. WaitAtEnd' /\ CycleTyped' /\ RequestsOK' /\ Asking'
  BY <1>1 DEF Inv, WaitAtEnd, CycleTyped, RequestsOK, Asking
<1>6. SavedOK' /\ ContOK'
  BY <1>1 DEF Inv, SavedOK, ContOK
<1>7. Asked'
  BY <1>1 DEF Inv, Asked, ShouldPrefetchQueue, CanWaitForQueueContinuation
<1>8. Waiting'
  BY <1>1 DEF Inv, Waiting, WaitHasAnswer, CanWaitForQueueContinuation
<1>9. Cycling'
  BY <1>1, CycleGoesOn DEF Inv
<1>10. Unskipped'
  BY <1>1, CoveredMore DEF Inv, Unskipped
<1> QED
  BY <1>3, <1>4, <1>5, <1>6, <1>7, <1>8, <1>9, <1>10 DEF Inv

---------------------------------------------------------------------------
(* The steps within the queue, and the ends of requests *)

\* The track that waits for a request which is replaced may keep waiting.
LEMMA Superseded == ASSUME RequestsOK, NEW q, Supersede(q) PROVE RequestOK(stale')
BY DEF RequestsOK, RequestOK, Supersede

\* Next within the queue.
LEMMA NextQueuedInv == ASSUME Inv, ~dirty, idx > 0, NextQueued PROVE Inv'
<1>1. /\ queue' = queue /\ idx' = idx + 1
      /\ history' = (IF shuffle THEN Append(history, idx) ELSE history)
      /\ playing' = TRUE /\ pending' = None
      /\ UNCHANGED <<context, shuffle, cycle, preQueue, preCont, request, stale, retry, cont,
                     page, gone, heard, behind>>
      /\ Rerender /\ idx < Len(queue)
  BY DEF NextQueued, MoveTo, shuffleVars, askVars, contVars, ghostVars
<1>2. QueueOK(queue', idx', history', shuffle')
  <2>1. QueueOK(queue, idx, history, shuffle)
    BY DEF Inv
  <2>2. shuffle \in BOOLEAN
    BY DEF Inv, Flags
  <2>3. /\ shuffle => QueueOK(queue, idx + 1, Append(history, idx), shuffle)
        /\ ~shuffle => QueueOK(queue, idx + 1, history, shuffle)
    BY <1>1, <2>1, Advanced
  <2>4. CASE shuffle
    BY <1>1, <2>3, <2>4
  <2>5. CASE ~shuffle
    BY <1>1, <2>3, <2>5
  <2> QED
    BY <2>4, <2>5
<1>3. Asked' /\ dirty' \in BOOLEAN
  BY <1>1, Rerendered DEF Inv
<1>4. Flags'
  BY <1>1, <1>3 DEF Inv, Flags
<1>5. WaitAtEnd' /\ RequestsOK'
  BY <1>1 DEF Inv, WaitAtEnd, RequestsOK
<1>6. idx' > 0
  BY <1>1, Elements DEF Inv, QueueOK
<1>7. CycleTyped' /\ Asking'
  BY <1>1, <1>6 DEF Inv, CycleTyped, Asking
<1>8. SavedOK' /\ ContOK'
  BY <1>1 DEF Inv, SavedOK, ContOK
<1>9. Waiting'
  BY <1>1 DEF Waiting, WaitHasAnswer
<1>10. Cycling'
  BY <1>1, CycleGoesOn DEF Inv
<1>11. Unskipped'
  BY <1>1 DEF Inv, Unskipped
<1> QED
  BY <1>2, <1>3, <1>4, <1>5, <1>7, <1>8, <1>9, <1>10, <1>11 DEF Inv

\* Previous goes back in the history, or in the queue, and ends a wait.
LEMMA PreviousInv == ASSUME Inv, ~dirty, Previous PROVE Inv'
<1>1. /\ queue' = queue /\ retry' = None /\ pending' = None /\ idx > 0
      /\ UNCHANGED <<context, shuffle, cycle, preQueue, preCont, request, stale, cont,
                     page, gone, heard, behind>>
      /\ Rerender
      /\ \/ idx' = idx /\ history' = history /\ playing' = playing
         \/ /\ history # <<>> /\ idx' = Last(history) /\ history' = Front(history)
            /\ playing' = TRUE
         \/ /\ ~(shuffle /\ history # <<>>) /\ idx > 1 /\ idx' = idx - 1 /\ history' = history
            /\ playing' = TRUE
  BY DEF Previous, MoveTo, shuffleVars, contVars, ghostVars
<1>2. QueueOK(queue', idx', history', shuffle')
  <2>1. QueueOK(queue, idx, history, shuffle) /\ (history # <<>> => shuffle)
    BY DEF Inv, QueueOK
  <2>2. /\ history # <<>> => QueueOK(queue, Last(history), Front(history), shuffle)
        /\ history = <<>> /\ idx > 1 => QueueOK(queue, idx - 1, history, shuffle)
    BY <2>1, MovedBack
  <2> QED
    BY <1>1, <2>1, <2>2
<1>3. Asked' /\ dirty' \in BOOLEAN
  BY <1>1, Rerendered DEF Inv
<1>4. Flags'
  BY <1>1, <1>3 DEF Inv, Flags
<1>5. WaitAtEnd' /\ RequestsOK'
  BY <1>1 DEF Inv, WaitAtEnd, RequestsOK
<1>6. idx' > 0
  <2>1. QueueOK(queue, idx', history', shuffle)
    BY <1>1, <1>2
  <2>2. queue # <<>>
    BY <1>1 DEF Inv, QueueOK
  <2>3. idx' \in 0..Len(queue) /\ idx' # 0 /\ Len(queue) \in Nat
    BY <2>1, <2>2, Elements DEF QueueOK
  <2> QED
    BY <2>3
<1>7. CycleTyped' /\ Asking'
  BY <1>1, <1>6 DEF Inv, CycleTyped, Asking
<1>8. SavedOK' /\ ContOK'
  BY <1>1 DEF Inv, SavedOK, ContOK
<1>9. Waiting'
  BY <1>1 DEF Waiting, WaitHasAnswer
<1>10. Cycling'
  BY <1>1, CycleGoesOn DEF Inv
<1>11. Unskipped'
  BY <1>1 DEF Inv, Unskipped
<1> QED
  BY <1>2, <1>3, <1>4, <1>5, <1>7, <1>8, <1>9, <1>10, <1>11 DEF Inv

\* A queue of one track.
LEMMA Single ==
    ASSUME NEW t \in Tracks, NEW s
    PROVE  /\ QueueOK(<<t>>, 1, <<>>, s) /\ ToSet(<<t>>) = {t} /\ Len(<<t>>) = 1
           /\ <<t>> \in Seq(Tracks) /\ <<t>>[1] = t
<1>1. PICK q : q = <<t>>
  OBVIOUS
<1>2. q \in Seq(Tracks) /\ Len(q) = 1 /\ q[1] = t /\ q # <<>>
  BY <1>1
<1>3. \A i \in 1..Len(q) : i = 1
  BY <1>2
<1>4. IsInjective(q)
  <2>1. \A i, j \in 1..Len(q) : q[i] = q[j] => i = j
    BY <1>3
  <2> QED
    BY <1>2, <2>1, Elements
<1>5. <<>> \in Seq(Nat) /\ Len(<<>>) = 0
  BY EmptySeq
<1>6. \A k \in 1..Len(<<>>) : FALSE
  BY <1>5
<1>7. QueueOK(q, 1, <<>>, s)
  BY <1>2, <1>4, <1>5, <1>6 DEF QueueOK
<1>8. ToSet(q) = {t}
  <2>1. 1 \in 1..Len(q)
    BY <1>2
  <2> QED
    BY <1>2, <1>3, <2>1, Elements
<1> QED
  BY <1>1, <1>2, <1>7, <1>8

\* The current track.
LEMMA CurrentTrack ==
    ASSUME QueueOK(queue, idx, history, shuffle), idx > 0
    PROVE  /\ idx \in 1..Len(queue) /\ idx \in Nat /\ Len(queue) \in Nat
           /\ Current = queue[idx] /\ Current \in Tracks /\ Current \in ToSet(queue)
<1>1. queue \in Seq(Tracks) /\ idx \in 0..Len(queue)
  BY DEF QueueOK
<1>2. Len(queue) \in Nat /\ \A k \in 1..Len(queue) : queue[k] \in Tracks /\ queue[k] \in ToSet(queue)
  BY <1>1, Elements
<1>3. idx \in 1..Len(queue) /\ idx \in Nat
  BY <1>1, <1>2
<1> QED
  BY <1>2, <1>3 DEF Current

\* A new cycle begins with its track.
LEMMA CycleBegins ==
    ASSUME NEW t \in Tracks, queue' = <<t>>, cycle' = NewCycle(t), heard' = {t}
    PROVE  CycleTyped' /\ Cycling' /\ ~cycle'.complete
<1>1. cycle' = [cursor |-> None, excluded |-> t, complete |-> FALSE, hasTracks |-> FALSE]
  BY DEF NewCycle, NoCycle
<1>2. CycleTyped'
  BY <1>1 DEF CycleTyped, Cycle
<1>3. ToSet(queue') = {t}
  BY Single
<1>4. Cycling'
  BY <1>1, <1>3 DEF Cycling
<1> QED
  BY <1>1, <1>2, <1>4

\* Next at the end of a complete cycle begins the following one with its last track.
LEMMA NextCycleInv ==
    ASSUME Inv, ~dirty, idx > 0, NEW w \in SUBSET Tracks, NextCycle(w)
    PROVE  Inv'
<1>1. PICK t : t = Current
  OBVIOUS
<1>2. t \in Tracks
  BY <1>1, CurrentTrack DEF Inv
<1>3. /\ queue' = <<t>> /\ idx' = 1 /\ history' = <<>> /\ shuffle
      /\ cycle' = NewCycle(t) /\ heard' = {t} /\ pending' = context /\ playing' = TRUE
      /\ Supersede({t}) /\ request' = w
      /\ UNCHANGED <<context, shuffle, preQueue, preCont, retry, cont, page, gone, behind>>
      /\ Rerender
  BY <1>1 DEF NextCycle, contVars
<1>4. w # None
  BY Library
<1>5. QueueOK(queue', idx', history', shuffle') /\ Len(queue') = 1
  BY <1>2, <1>3, Single
<1>6. Asked' /\ dirty' \in BOOLEAN
  BY <1>3, Rerendered DEF Inv
<1>7. Flags'
  BY <1>3, <1>6 DEF Inv, Flags
<1>8. WaitAtEnd'
  BY <1>3, <1>5 DEF Inv, WaitAtEnd
<1>9. RequestsOK'
  BY <1>3, Superseded DEF Inv, RequestsOK, RequestOK
<1>10. CycleTyped' /\ Cycling' /\ ~cycle'.complete
  BY <1>2, <1>3, CycleBegins
<1>11. Asking' /\ Waiting'
  BY <1>3, <1>4, <1>10 DEF Asking, Waiting, WaitHasAnswer
<1>12. SavedOK' /\ ContOK'
  BY <1>3 DEF Inv, SavedOK, ContOK
<1>13. Unskipped'
  BY <1>3 DEF Inv, Unskipped
<1> QED
  BY <1>5, <1>6, <1>7, <1>8, <1>9, <1>10, <1>11, <1>12, <1>13 DEF Inv

\* A continuation that has stopped.
LEMMA StoppedOK ==
    /\ Continues(Stopped) /\ Stopped.source = None /\ Stopped.context = None
    /\ ~Stopped.hasMore
BY DEF Stopped, Continues, Cont

\* Signing out stops requests and continuation and ends every wait.
LEMMA ClearSessionInv == ASSUME Inv, ~dirty, ClearSession PROVE Inv'
<1>1. /\ retry' = None /\ Supersede(ToSet(queue)) /\ request' = None /\ cont' = Stopped
      /\ playing' = FALSE /\ pending' = None
      /\ UNCHANGED <<queue, idx, history, context, shuffle, cycle, preQueue, preCont, page,
                     gone, heard, behind>>
      /\ Rerender
  BY DEF ClearSession, shuffleVars, ghostVars
<1>2. QueueOK(queue', idx', history', shuffle')
  BY <1>1 DEF Inv
<1>3. Asked' /\ dirty' \in BOOLEAN
  BY <1>1, Rerendered DEF Inv
<1>4. Flags'
  BY <1>1, <1>3 DEF Inv, Flags
<1>5. WaitAtEnd'
  BY <1>1 DEF Inv, WaitAtEnd
<1>6. RequestsOK'
  BY <1>1, Superseded DEF Inv, RequestsOK, RequestOK
<1>7. CycleTyped' /\ Asking' /\ SavedOK'
  BY <1>1 DEF Inv, CycleTyped, Asking, SavedOK
<1>8. ContOK'
  BY <1>1, StoppedOK DEF Inv, ContOK
<1>9. Waiting'
  BY <1>1 DEF Waiting, WaitHasAnswer
<1>10. Cycling'
  BY <1>1, CycleGoesOn DEF Inv
<1>11. Unskipped'
  BY <1>1, StoppedOK DEF Inv, Unskipped
<1> QED
  BY <1>2, <1>3, <1>4, <1>5, <1>6, <1>7, <1>8, <1>9, <1>10, <1>11 DEF Inv

\* The effect of QueueContinuation makes the page request agree with the queue.
LEMMA EffectInv == ASSUME Inv, QueueContinuationEffect PROVE Inv'
<1>1. /\ ~dirty' /\ dirty'\in BOOLEAN
      /\ UNCHANGED <<queue, idx, history, playing, context, pending, shuffle, cycle, preQueue,
                     preCont, request, stale, retry, gone, heard, behind>>
  BY DEF QueueContinuationEffect, queueVars, shuffleVars, askVars, ghostVars
<1>2. \/ /\ cont.source # None /\ (shuffle \/ context # cont.context)
         /\ cont' = Stopped /\ page' = NoPage
      \/ /\ cont.source # None /\ ~shuffle /\ context = cont.context
         /\ ShouldPrefetchQueue /\ page' = [state |-> "sent", context |-> context]
         /\ cont' = cont
      \/ /\ cont.source = None \/ (~shuffle /\ context = cont.context /\ ~ShouldPrefetchQueue)
         /\ page' = NoPage /\ cont' = cont
  BY DEF QueueContinuationEffect
<1>3. context \in Nat
  BY Library DEF Inv, WaitAtEnd
<1>4. page' \in Page
  BY <1>2, <1>3 DEF Page, NoPage
<1>5. QueueOK(queue', idx', history', shuffle')
  BY <1>1 DEF Inv
<1>6. Flags' /\ WaitAtEnd' /\ RequestsOK'
  BY <1>1 DEF Inv, Flags, WaitAtEnd, RequestsOK
<1>7. CycleTyped' /\ Asking' /\ SavedOK'
  BY <1>1 DEF Inv, CycleTyped, Asking, SavedOK
<1>8. Cycling'
  BY <1>1, CycleGoesOn DEF Inv
<1>9. CASE cont' = Stopped /\ page' = NoPage /\ (shuffle \/ context # cont.context)
           /\ cont.source # None
  <2>1. ContOK'
    BY <1>4, <1>9, StoppedOK DEF ContOK
  <2>2. Asked'
    BY <1>9, StoppedOK DEF Asked, NoPage
  <2>3. Waiting'
    <3>1. pending # None /\ ~shuffle => FALSE
      BY <1>9 DEF Inv, Waiting, WaitHasAnswer, CanWaitForQueueContinuation
    <3> QED
      BY <1>1, <3>1 DEF Inv, Waiting, WaitHasAnswer
  <2>4. Unskipped'
    BY <1>1, <1>9, StoppedOK DEF Inv, Unskipped
  <2> QED
    BY <1>5, <1>6, <1>7, <1>8, <2>1, <2>2, <2>3, <2>4 DEF Inv
<1>10. CASE /\ cont.source # None /\ ~shuffle /\ context = cont.context
            /\ ShouldPrefetchQueue /\ page' = [state |-> "sent", context |-> context]
            /\ cont' = cont
  <2>1. ContOK'
    BY <1>1, <1>4, <1>10 DEF Inv, ContOK
  <2>2. page'.state = "sent" /\ page'.context = context
    BY <1>10
  <2>3. Asked'
    BY <1>1, <1>10, <2>2 DEF Asked, ShouldPrefetchQueue, CanWaitForQueueContinuation
  <2>4. Waiting'
    BY <1>1, <1>10, <2>2
       DEF Inv, Waiting, WaitHasAnswer, CanWaitForQueueContinuation
  <2>5. Unskipped'
    BY <1>1, <1>10 DEF Inv, Unskipped
  <2> QED
    BY <1>5, <1>6, <1>7, <1>8, <2>1, <2>3, <2>4, <2>5 DEF Inv
<1>11. CASE /\ cont.source = None \/ (~shuffle /\ context = cont.context /\ ~ShouldPrefetchQueue)
            /\ page' = NoPage /\ cont' = cont
  <2>1. ContOK'
    BY <1>1, <1>4, <1>11 DEF Inv, ContOK
  <2>2. Asked'
    BY <1>1, <1>11 DEF Asked, ShouldPrefetchQueue, NoPage
  <2>3. Waiting'
    <3>1. ASSUME pending # None, ~shuffle PROVE FALSE
      <4>1. CanWaitForQueueContinuation /\ idx = Len(queue) /\ idx > 0
        BY <3>1 DEF Inv, WaitAtEnd, Waiting, WaitHasAnswer
      <4>2. idx \in Int
        BY Elements DEF Inv, QueueOK
      <4>3. Len(queue) - idx < PrefetchDistance
        BY <4>1, <4>2, Library
      <4>4. ShouldPrefetchQueue
        BY <4>1, <4>3 DEF ShouldPrefetchQueue, CanWaitForQueueContinuation
      <4> QED
        BY <1>11, <4>1, <4>4 DEF CanWaitForQueueContinuation
    <3> QED
      BY <1>1, <3>1 DEF Inv, Waiting, WaitHasAnswer
  <2>4. Unskipped'
    BY <1>1, <1>11 DEF Inv, Unskipped
  <2> QED
    BY <1>5, <1>6, <1>7, <1>8, <2>1, <2>2, <2>3, <2>4 DEF Inv
<1> QED
  BY <1>2, <1>9, <1>10, <1>11

\* A page that fails is retried, or the continuation stops and a wait for it ends.
LEMMA PageFailsInv ==
    ASSUME Inv, ~dirty, NEW retryable \in BOOLEAN, PageFails(retryable)
    PROVE  Inv'
<1>1. /\ UNCHANGED <<queue, idx, history, context, shuffle, cycle, preQueue, preCont, request,
                     stale, gone, heard, behind>>
      /\ Rerender /\ page.state = "sent"
  BY DEF PageFails, shuffleVars, ghostVars
<1>2. page.context = context /\ CanWaitForQueueContinuation /\ ~shuffle
  BY <1>1 DEF Inv, Asked
<1>3. \/ /\ page' = [page EXCEPT !.state = "waiting"]
         /\ UNCHANGED <<cont, retry, pending, playing>>
      \/ /\ page' = NoPage /\ cont' = Stopped
         /\ retry' = None /\ pending' = None /\ playing' \in BOOLEAN
  <2>1. pending \in {None, context}
    BY DEF Inv, WaitAtEnd
  <2>2. playing \in BOOLEAN
    BY DEF Inv, Flags
  <2> QED
    BY <1>2, <2>1, <2>2 DEF PageFails, CancelPendingAdvance
<1>4. QueueOK(queue', idx', history', shuffle')
  BY <1>1 DEF Inv
<1>5. dirty' \in BOOLEAN
  BY <1>1 DEF Rerender
<1>6. Flags'
  BY <1>1, <1>3, <1>5 DEF Inv, Flags
<1>7. CycleTyped' /\ Asking' /\ SavedOK' /\ RequestsOK'
  BY <1>1 DEF Inv, CycleTyped, Asking, SavedOK, RequestsOK
<1>8. WaitAtEnd'
  BY <1>1, <1>3 DEF Inv, WaitAtEnd
<1>9. Cycling'
  BY <1>1, CycleGoesOn DEF Inv
<1>10. CASE page' = [page EXCEPT !.state = "waiting"] /\ UNCHANGED <<cont, retry, pending, playing>>
  <2>1. page'.state = "waiting" /\ page'.context = page.context /\ page' \in Page
    BY <1>10 DEF Inv, ContOK, Page
  <2>2. ContOK'
    BY <1>1, <1>10, <2>1 DEF Inv, ContOK
  <2>3. ~dirty'
    BY <1>1, <1>10 DEF Rerender, Read
  <2>4. Asked'
    BY <1>1, <1>10, <2>1, <2>3
       DEF Inv, Asked, ShouldPrefetchQueue, CanWaitForQueueContinuation
  <2>5. Waiting'
    BY <1>1, <1>2, <1>10, <2>1 DEF Inv, Waiting, WaitHasAnswer, CanWaitForQueueContinuation
  <2>6. Unskipped'
    BY <1>1, <1>10 DEF Inv, Unskipped
  <2> QED
    BY <1>4, <1>6, <1>7, <1>8, <1>9, <2>2, <2>4, <2>5, <2>6 DEF Inv
<1>11. CASE page' = NoPage /\ cont' = Stopped /\ retry' = None /\ pending' = None
            /\ playing' \in BOOLEAN
  <2>1. ContOK'
    BY <1>11, StoppedOK DEF ContOK, NoPage, Page
  <2>2. Asked'
    BY <1>11, StoppedOK DEF Asked, NoPage
  <2>3. Waiting'
    BY <1>11 DEF Waiting, WaitHasAnswer
  <2>4. Unskipped'
    BY <1>1, <1>11, StoppedOK DEF Inv, Unskipped
  <2> QED
    BY <1>4, <1>6, <1>7, <1>8, <1>9, <2>1, <2>2, <2>3, <2>4 DEF Inv
<1> QED
  BY <1>3, <1>10, <1>11

\* A retry of a page makes the effect run.
LEMMA PageRetryInv == ASSUME Inv, ~dirty, PageRetry PROVE Inv'
<1>1. /\ UNCHANGED <<queue, idx, history, playing, context, pending, shuffle, cycle, preQueue,
                     preCont, request, stale, retry, cont, gone, heard, behind>>
      /\ page.state = "waiting" /\ page' = NoPage
      /\ dirty' = (cont.context = page.context)
  BY DEF PageRetry, queueVars, shuffleVars, askVars, ghostVars
<1>2. dirty' /\ dirty' \in BOOLEAN
  BY <1>1 DEF Inv, Asked, CanWaitForQueueContinuation
<1>3. QueueOK(queue', idx', history', shuffle')
  BY <1>1 DEF Inv
<1>4. Flags' /\ WaitAtEnd' /\ RequestsOK'
  BY <1>1, <1>2 DEF Inv, Flags, WaitAtEnd, RequestsOK
<1>5. CycleTyped' /\ Asking' /\ SavedOK'
  BY <1>1 DEF Inv, CycleTyped, Asking, SavedOK
<1>6. Cycling'
  BY <1>1, CycleGoesOn DEF Inv
<1>7. ContOK'
  BY <1>1 DEF Inv, ContOK, NoPage, Page
<1>8. Asked'
  BY <1>2 DEF Asked
<1>9. Waiting'
  BY <1>1, <1>2 DEF Inv, Waiting, WaitHasAnswer, CanWaitForQueueContinuation
<1>10. Unskipped'
  BY <1>1 DEF Inv, Unskipped
<1> QED
  BY <1>3, <1>4, <1>5, <1>6, <1>7, <1>8, <1>9, <1>10 DEF Inv

---------------------------------------------------------------------------
(* The steps that change the queue for another one *)

\* In another context the effect has to run.
LEMMA ContextChanged == ASSUME Rerender, context' # context PROVE dirty' = TRUE /\ Asked'
<1>1. dirty' = TRUE
  BY DEF Rerender, Read
<1> QED
  BY <1>1 DEF Asked

\* CoveredBy, place by place.
LEMMA CoveredPlaces ==
    ASSUME NEW c, Continues(c), c.source # None, NEW S
    PROVE  CoveredBy(c, S)
               <=> \A k \in 1..(IF c.hasMore THEN c.cursor ELSE Len(Lists[c.source])) :
                       Lists[c.source][k] \in S
<1>1. PICK list : list = Lists[c.source]
  OBVIOUS
<1>2. PICK n : n = IF c.hasMore THEN c.cursor ELSE Len(list)
  OBVIOUS
<1>3. list \in Seq(Tracks) /\ Len(list) \in Nat
  BY <1>1, Library DEF Continues, Cont
<1>4. n \in 0..Len(list)
  BY <1>1, <1>2, <1>3 DEF Continues
<1>5. PICK q : q = SubSeq(list, 1, n)
  OBVIOUS
<1>6. /\ q \in Seq(Tracks) /\ Len(q) = n
      /\ \A k \in 1..n : q[k] = list[k]
  <2>1. n \in Nat /\ 1 <= n + 1 /\ n - 1 + 1 = n /\ \A k \in 1..n : 1 + k - 1 = k
    BY <1>3, <1>4
  <2> QED
    BY <1>3, <1>4, <1>5, <2>1, Piece
<1>7. /\ \A k \in 1..n : list[k] \in ToSet(q)
      /\ \A t \in ToSet(q) : \E k \in 1..n : list[k] = t
  BY <1>6, Elements
<1>8. CoveredBy(c, S) <=> ToSet(q) \subseteq S
  BY <1>1, <1>2, <1>5 DEF CoveredBy
<1> QED
  BY <1>1, <1>2, <1>7, <1>8

\* A page covers its list further: what was covered up to it, and the page itself.
LEMMA CoveredByPage ==
    ASSUME NEW s \in DOMAIN Lists, NEW after \in Nat, NEW p, PageOf(s, after, p),
           NEW c, Continues(c), c.source = s, c.cursor = p.cursor,
           c.hasMore = (p.cursor # None),
           NEW S, \A k \in 1..after : Lists[s][k] \in S, ToSet(p.tracks) \cup gone \subseteq S
    PROVE  CoveredBy(c, S)
<1>1. PICK n : n = IF p.cursor # None THEN p.cursor ELSE Len(Lists[s])
  OBVIOUS
<1>2. n = IF c.hasMore THEN c.cursor ELSE Len(Lists[c.source])
  <2>1. CASE p.cursor # None
    <3>1. c.hasMore /\ n = c.cursor
      BY <1>1, <2>1
    <3> QED
      BY <3>1
  <2>2. CASE p.cursor = None
    <3>1. ~c.hasMore /\ n = Len(Lists[c.source])
      BY <1>1, <2>2
    <3> QED
      BY <3>1
  <2> QED
    BY <2>1, <2>2
<1>3. n \in Nat
  <2>1. p.cursor # None => p.cursor \in (after + 1)..Len(Lists[s])
    BY DEF PageOf
  <2>2. Len(Lists[s]) \in Nat
    BY Library
  <2> QED
    BY <1>1, <2>1, <2>2
<1>4. \A k \in (after + 1)..n : Lists[s][k] \in ToSet(p.tracks) \cup gone
  BY <1>1 DEF PageOf
<1>5. \A k \in 1..n : k \in 1..after \/ k \in (after + 1)..n
  BY <1>3
<1>6. \A k \in 1..n : Lists[s][k] \in S
  BY <1>4, <1>5
<1>7. c.source # None
  BY Library
<1>8. \A k \in 1..n : Lists[c.source][k] \in S
  BY <1>6
<1>9. \A k \in 1..(IF c.hasMore THEN c.cursor ELSE Len(Lists[c.source])) :
          Lists[c.source][k] \in S
  BY <1>2, <1>8
<1> QED
  BY <1>7, <1>9, CoveredPlaces

\* A queue that the user chooses begins where its list is known without a gap.
LEMMA HandlePlayInv ==
    ASSUME Inv, ~dirty, NEW s \in DOMAIN Lists, NEW n \in DOMAIN Lists[s],
           NEW k \in DOMAIN Lists[s], HandlePlay(s, n, k)
    PROVE  Inv'
<1>1. PICK feed : feed = ListAfter(s, 0, n * PageSize)
  OBVIOUS
<1>2. PageOf(s, 0, feed)
  <2>1. n \in Nat \ {0} /\ 0 \in 0..Len(Lists[s])
    BY Library, LenProperties
  <2>2. n * PageSize \in Nat \ {0}
    BY <2>1, Library
  <2> QED
    BY <1>1, <2>1, <2>2, ListPage
<1>3. PICK track : track = feed.tracks[k]
  OBVIOUS
<1>4. /\ k \in DOMAIN feed.tracks /\ history' = <<>> /\ playing' = TRUE /\ pending' = None
      /\ retry' = None /\ Supersede({}) /\ behind' = {}
      /\ context < MaxContexts /\ context' = context + 1
      /\ UNCHANGED <<shuffle, page, gone>> /\ Rerender
      /\ \/ /\ shuffle /\ queue' = <<track>> /\ idx' = 1
            /\ cycle' = NewCycle(track) /\ heard' = {track} /\ request' = {}
            /\ preQueue' = feed.tracks /\ preCont' = None /\ cont' = Stopped
         \/ /\ ~shuffle /\ queue' = feed.tracks /\ idx' = k /\ cycle' = NoCycle
            /\ cont' = Started(s, feed.cursor, feed.cursor # None, context')
            /\ UNCHANGED <<preQueue, preCont, request, heard>>
  BY <1>1, <1>3 DEF HandlePlay, NewContext
<1>5. /\ feed.tracks \in Seq(Tracks) /\ IsInjective(feed.tracks)
      /\ k \in 1..Len(feed.tracks) /\ Len(feed.tracks) \in Nat /\ track \in Tracks
  BY <1>2, <1>3, <1>4, Elements DEF PageOf
<1>6. context \in Nat /\ context' \in 0..MaxContexts /\ context' # context /\ context' \in Nat
  BY <1>4, Library DEF Inv, WaitAtEnd
<1>7. dirty' = TRUE /\ Asked'
  BY <1>4, <1>6, ContextChanged
<1>8. Flags'
  BY <1>4, <1>7 DEF Inv, Flags
<1>9. WaitAtEnd'
  BY <1>4, <1>6 DEF WaitAtEnd
<1>10. Waiting'
  BY <1>4 DEF Waiting, WaitHasAnswer
<1>11. RequestOK(stale')
  BY <1>4, Superseded DEF Inv
<1>12. CASE /\ shuffle /\ queue' = <<track>> /\ idx' = 1
            /\ cycle' = NewCycle(track) /\ heard' = {track} /\ request' = {}
            /\ preQueue' = feed.tracks /\ preCont' = None /\ cont' = Stopped
  <2>1. QueueOK(queue', idx', history', shuffle')
    BY <1>4, <1>5, <1>12, Single
  <2>2. CycleTyped' /\ Cycling' /\ ~cycle'.complete
    BY <1>5, <1>12, CycleBegins
  <2>3. SavedOK'
    BY <1>5, <1>12 DEF SavedOK
  <2>4. RequestsOK'
    BY <1>11, <1>12 DEF RequestsOK, RequestOK
  <2>5. ContOK'
    BY <1>4, <1>12, StoppedOK DEF Inv, ContOK
  <2>6. Asking'
    BY <1>4, <1>12, <2>2 DEF Asking
  <2>7. Unskipped'
    BY <1>12, StoppedOK DEF Unskipped
  <2> QED
    BY <1>7, <1>8, <1>9, <1>10, <2>1, <2>2, <2>3, <2>4, <2>5, <2>6, <2>7 DEF Inv
<1>13. CASE /\ ~shuffle /\ queue' = feed.tracks /\ idx' = k /\ cycle' = NoCycle
            /\ cont' = Started(s, feed.cursor, feed.cursor # None, context')
            /\ UNCHANGED <<preQueue, preCont, request, heard>>
  <2>1. QueueOK(queue', idx', history', shuffle')
    <3>1. <<>> \in Seq(Nat) /\ \A j \in 1..Len(<<>>) : FALSE
      BY EmptySeq
    <3>2. k \in 0..Len(queue') /\ k # 0 /\ queue' # <<>>
      BY <1>5, <1>13, Elements
    <3> QED
      BY <1>4, <1>5, <1>13, <3>1, <3>2 DEF QueueOK
  <2>2. request = None /\ preCont = None
    BY <1>13 DEF Inv, Asking, SavedOK
  <2>3. CycleTyped' /\ Cycling'
    BY <1>4, <1>13 DEF CycleTyped, Cycling, Cycle, NoCycle
  <2>4. SavedOK' /\ RequestsOK' /\ Asking'
    BY <1>11, <1>13, <2>2 DEF Inv, SavedOK, RequestsOK, Asking
  <2>5. PICK c : c = cont'
    OBVIOUS
  <2>6. /\ c.source = s /\ c.cursor = feed.cursor /\ c.context = context'
        /\ c.hasMore = (feed.cursor # None)
    BY <1>13, <2>5 DEF Started
  <2>7. feed.cursor # None => feed.cursor \in 1..Len(Lists[s]) /\ feed.cursor \in Nat
    <3>1. feed.cursor # None => feed.cursor \in (0 + 1)..Len(Lists[s])
      BY <1>2 DEF PageOf
    <3> QED
      BY <3>1, Library
  <2>8. Continues(c)
    <3>1. c \in Cont
      BY <1>6, <1>13, <2>5, <2>7 DEF Started, Cont
    <3> QED
      BY <2>6, <2>7, <3>1, Library DEF Continues
  <2>9. ContOK'
    BY <1>4, <1>6, <2>5, <2>6, <2>8 DEF Inv, ContOK
  <2>10. CoveredBy(c, ToSet(feed.tracks) \cup {} \cup gone)
    <3>1. PICK S : S = ToSet(feed.tracks) \cup {} \cup gone
      OBVIOUS
    <3>2. \A j \in 1..0 : Lists[s][j] \in S
      OBVIOUS
    <3>3. ToSet(feed.tracks) \cup gone \subseteq S
      BY <3>1
    <3>4. CoveredBy(c, S)
      BY <1>2, <2>6, <2>8, <3>2, <3>3, CoveredByPage
    <3> QED
      BY <3>1, <3>4
  <2>11. Unskipped'
    BY <1>4, <1>13, <2>2, <2>5, <2>10 DEF Unskipped
  <2> QED
    BY <1>7, <1>8, <1>9, <1>10, <2>1, <2>3, <2>4, <2>9, <2>11 DEF Inv
<1> QED
  BY <1>4, <1>12, <1>13

\* Shuffle saves the queue with its continuation and begins a cycle.
LEMMA SetShuffleOnInv == ASSUME Inv, ~dirty, SetShuffleOn PROVE Inv'
<1>1. PICK c : c = Compacted(queue, idx, history)
  OBVIOUS
<1>2. PICK saved : saved = IF cont.source # None /\ cont.context = context
                             THEN [cont EXCEPT !.context = None] ELSE None
  OBVIOUS
<1>3. /\ ~shuffle /\ shuffle' = TRUE
      /\ queue' = (IF idx > 0 THEN <<Current>> ELSE <<>>)
      /\ idx' = (IF idx > 0 THEN 1 ELSE 0)
      /\ history' = <<>> /\ context < MaxContexts /\ context' = context + 1
      /\ pending' = None /\ retry' = None /\ cycle' = NewCycle(Current)
      /\ preQueue' = c.queue /\ preCont' = saved /\ cont' = Stopped /\ Supersede({})
      /\ request' = (IF idx > 0 THEN {} ELSE None)
      /\ heard' = ToSet(queue') /\ behind' = behind \cup c.dropped
      /\ UNCHANGED <<playing, page, gone>> /\ Rerender
  BY <1>1, <1>2 DEF SetShuffleOn, NewContext
<1>4. /\ QueueOK(c.queue, c.idx, c.history, shuffle)
      /\ ToSet(queue) = c.dropped \cup ToSet(c.queue)
  BY <1>1, CompactedQueue DEF Inv, KeepsQueue
<1>5. context \in Nat /\ context' \in 0..MaxContexts /\ context' # context
  BY <1>3, Library DEF Inv, WaitAtEnd
<1>6. dirty' = TRUE /\ Asked'
  BY <1>3, <1>5, ContextChanged
<1>7. Flags'
  BY <1>3, <1>6 DEF Inv, Flags
<1>8. WaitAtEnd' /\ Waiting'
  BY <1>3, <1>5 DEF WaitAtEnd, Waiting, WaitHasAnswer
<1>9. RequestsOK'
  BY <1>3, Superseded DEF Inv, RequestsOK, RequestOK
<1>10. ContOK'
  BY <1>3, StoppedOK DEF Inv, ContOK
<1>11. SavedOK'
  <2>1. c.queue \in Seq(Tracks) /\ IsInjective(c.queue)
    BY <1>4 DEF QueueOK
  <2>2. ASSUME saved # None PROVE Continues(saved) /\ saved.source # None
    BY <1>2, <2>2 DEF Inv, ContOK, Continues, Cont
  <2> QED
    BY <1>3, <2>1, <2>2 DEF SavedOK
<1>12. Unskipped'
  <2> SUFFICES ASSUME saved # None
               PROVE  CoveredBy(saved, ToSet(c.queue) \cup (behind \cup c.dropped) \cup gone)
    BY <1>3 DEF Unskipped
  <2>1. cont.source # None /\ cont.context = context /\ saved = [cont EXCEPT !.context = None]
    BY <1>2
  <2>2. saved.source = cont.source /\ saved.hasMore = cont.hasMore /\ saved.cursor = cont.cursor
    BY <2>1 DEF Inv, ContOK, Continues, Cont
  <2>3. CoveredBy(cont, ToSet(queue) \cup behind \cup gone)
    BY <1>3, <2>1 DEF Inv, Unskipped
  <2>4. CoveredBy(saved, ToSet(queue) \cup behind \cup gone)
    BY <2>2, <2>3 DEF CoveredBy
  <2>5. ToSet(queue) \cup behind \cup gone
            \subseteq ToSet(c.queue) \cup (behind \cup c.dropped) \cup gone
    BY <1>4
  <2> QED
    BY <2>4, <2>5, CoveredMore
<1>13. CASE idx > 0
  <2>1. Current \in Tracks
    BY <1>13, CurrentTrack DEF Inv
  <2>2. queue' = <<Current>> /\ idx' = 1 /\ request' = {}
    BY <1>3, <1>13
  <2>3. QueueOK(queue', idx', history', shuffle') /\ heard' = {Current}
    BY <1>3, <2>1, <2>2, Single
  <2>4. CycleTyped' /\ Cycling' /\ ~cycle'.complete
    <3>1. PICK t : t = Current
      OBVIOUS
    <3> QED
      BY <1>3, <2>1, <2>2, <2>3, <3>1, CycleBegins
  <2>5. Asking'
    BY <1>3, <2>2, <2>4 DEF Asking
  <2> QED
    BY <1>6, <1>7, <1>8, <1>9, <1>10, <1>11, <1>12, <2>3, <2>4, <2>5 DEF Inv
<1>14. CASE ~(idx > 0)
  <2>1. Current = None /\ queue' = <<>> /\ idx' = 0 /\ request' = None
    BY <1>3, <1>14 DEF Current
  <2>2. QueueOK(queue', idx', history', shuffle')
    <3>1. /\ <<>> \in Seq(Nat) /\ <<>> \in Seq(Tracks) /\ Len(<<>>) = 0
          /\ \A j \in 1..Len(<<>>) : FALSE
      BY EmptySeq
    <3>2. IsInjective(<<>>)
      BY DEF IsInjective
    <3>3. 0 \in 0..Len(<<>>)
      BY <3>1
    <3> QED
      BY <1>3, <2>1, <3>1, <3>2, <3>3 DEF QueueOK
  <2>3. CycleTyped'
    <3>1. PICK x : x = Current
      OBVIOUS
    <3>2. cycle' = [cursor |-> None, excluded |-> x, complete |-> FALSE, hasTracks |-> FALSE]
      BY <1>3, <3>1 DEF NewCycle, NoCycle
    <3>3. cycle' \in Cycle
      BY <2>1, <3>1, <3>2 DEF Cycle
    <3> QED
      BY <2>1, <3>3 DEF CycleTyped
  <2>4. Cycling' /\ Asking'
    BY <2>1 DEF Cycling, Asking
  <2> QED
    BY <1>6, <1>7, <1>8, <1>9, <1>10, <1>11, <1>12, <2>2, <2>3, <2>4 DEF Inv
<1> QED
  BY <1>13, <1>14

\* The saved queue, with the current track in it.
LEMMA RestoredQueue ==
    ASSUME Inv
    PROVE  /\ Restored \in Seq(Tracks) /\ IsInjective(Restored)
           /\ ToSet(preQueue) \subseteq ToSet(Restored)
           /\ idx > 0 => Restored # <<>>
           /\ Restored # <<>> =>
                  /\ RestoredIndex \in 1..Len(Restored)
                  /\ idx > 0 => Restored[RestoredIndex] = Current
<1>1. PICK r : r = Restored
  OBVIOUS
<1>2. preQueue \in Seq(Tracks) /\ IsInjective(preQueue)
  BY DEF Inv, SavedOK
<1>3. idx > 0 => Current \in Tracks
  BY CurrentTrack DEF Inv
<1>4. ~(idx > 0) => Current = None
  BY DEF Current
<1>5. None \notin Tracks
  BY Library
<1>6. r \in Seq(Tracks) /\ IsInjective(r) /\ ToSet(preQueue) \subseteq ToSet(r)
      /\ (idx > 0 => Current \in ToSet(r))
  <2>1. CASE Current = None \/ Current \in ToSet(preQueue)
    BY <1>1, <1>2, <1>3, <1>5, <2>1 DEF Restored
  <2>2. CASE ~(Current = None \/ Current \in ToSet(preQueue))
    <3>1. r = <<Current>> \o preQueue /\ Current \in Tracks
      BY <1>1, <1>3, <1>4, <2>2 DEF Restored
    <3>2. PICK w : w = <<Current>>
      OBVIOUS
    <3>3. /\ <<Current>> \in Seq(Tracks) /\ ToSet(<<Current>>) = {Current}
          /\ QueueOK(<<Current>>, 1, <<>>, TRUE)
      BY <3>1, Single
    <3>4. w \in Seq(Tracks) /\ ToSet(w) = {Current} /\ IsInjective(w)
      BY <3>2, <3>3 DEF QueueOK
    <3>5. ToSet(w) \cap ToSet(preQueue) = {}
      BY <2>2, <3>4
    <3>6. /\ w \o preQueue \in Seq(Tracks) /\ IsInjective(w \o preQueue)
          /\ ToSet(w \o preQueue) = ToSet(w) \cup ToSet(preQueue)
      BY <1>2, <3>4, <3>5, Joined
    <3> QED
      BY <3>1, <3>2, <3>4, <3>6
  <2> QED
    BY <2>1, <2>2
<1>7. Len(r) \in Nat /\ DOMAIN r = 1..Len(r) /\ (r = <<>> <=> Len(r) = 0) /\ ToSet(r) \subseteq Tracks
  BY <1>6, Elements
<1>8. idx > 0 => r # <<>>
  <2>1. idx > 0 => \E k \in 1..Len(r) : r[k] = Current
    BY <1>6, Elements
  <2> QED
    BY <1>7, <2>1
<1>9. ASSUME r # <<>>
      PROVE  RestoredIndex \in 1..Len(r) /\ (idx > 0 => r[RestoredIndex] = Current)
  <2>1. CASE Current \in ToSet(r)
    <3>1. \E k \in DOMAIN r : r[k] = Current
      BY <1>6, <1>7, <2>1, Elements
    <3>2. RestoredIndex = CHOOSE k \in DOMAIN r : r[k] = Current
      BY <1>1, <2>1 DEF RestoredIndex
    <3>3. RestoredIndex \in DOMAIN r /\ r[RestoredIndex] = Current
      BY <3>1, <3>2
    <3> QED
      BY <1>7, <3>3
  <2>2. CASE ~(Current \in ToSet(r))
    <3>1. RestoredIndex = Lesser(1, Len(r)) /\ ~(idx > 0)
      BY <1>1, <1>6, <2>2 DEF RestoredIndex
    <3>2. Lesser(1, Len(r)) \in 1..Len(r)
      BY <1>7, <1>9 DEF Lesser
    <3> QED
      BY <3>1, <3>2
  <2> QED
    BY <2>1, <2>2
<1> QED
  BY <1>1, <1>6, <1>8, <1>9

\* The end of shuffle restores the saved queue and its continuation.
LEMMA SetShuffleOffInv == ASSUME Inv, ~dirty, SetShuffleOff PROVE Inv'
<1>1. PICK r : r = Restored
  OBVIOUS
<1>2. PICK m : m = RestoredIndex
  OBVIOUS
<1>3. /\ shuffle /\ shuffle' = FALSE /\ context < MaxContexts /\ context' = context + 1
      /\ pending' = None /\ retry' = None /\ history' = <<>>
      /\ queue' = (IF r # <<>> THEN r ELSE queue) /\ idx' = (IF r # <<>> THEN m ELSE idx)
      /\ cycle' = NoCycle /\ preQueue' = <<>> /\ preCont' = None
      /\ Supersede({}) /\ request' = None
      /\ cont' = (IF preCont # None /\ r # <<>>
                    THEN Started(preCont.source, preCont.cursor, preCont.hasMore, context')
                    ELSE cont)
      /\ heard' = {} /\ UNCHANGED <<playing, page, gone, behind>> /\ Rerender
  BY <1>1, <1>2 DEF SetShuffleOff, NewContext
<1>4. /\ r \in Seq(Tracks) /\ IsInjective(r) /\ ToSet(preQueue) \subseteq ToSet(r)
      /\ (idx > 0 => r # <<>>) /\ (r # <<>> => m \in 1..Len(r))
  BY <1>1, <1>2, RestoredQueue
<1>5. context \in Nat /\ context' \in 0..MaxContexts /\ context' # context /\ context' \in Nat
  BY <1>3, Library DEF Inv, WaitAtEnd
<1>6. dirty' = TRUE /\ Asked'
  BY <1>3, <1>5, ContextChanged
<1>7. Flags'
  BY <1>3, <1>6 DEF Inv, Flags
<1>8. WaitAtEnd' /\ Waiting' /\ Asking'
  BY <1>3, <1>5 DEF WaitAtEnd, Waiting, WaitHasAnswer, Asking
<1>9. RequestsOK'
  BY <1>3, Superseded DEF Inv, RequestsOK, RequestOK
<1>10. CycleTyped' /\ Cycling'
  BY <1>3 DEF CycleTyped, Cycle, NoCycle, Cycling
<1>11. SavedOK'
  <2>1. <<>> \in Seq(Tracks) /\ IsInjective(<<>>)
    BY EmptySeq DEF IsInjective
  <2> QED
    BY <1>3, <2>1 DEF SavedOK
<1>12. QueueOK(queue', idx', history', shuffle')
  <2>1. <<>> \in Seq(Nat) /\ \A j \in 1..Len(<<>>) : FALSE
    BY EmptySeq
  <2>2. CASE r # <<>>
    <3>1. m \in 0..Len(r) /\ m # 0
      BY <1>4, <2>2, Elements
    <3> QED
      BY <1>3, <1>4, <2>1, <2>2, <3>1 DEF QueueOK
  <2>3. CASE r = <<>>
    BY <1>3, <2>1, <2>3 DEF Inv, QueueOK
  <2> QED
    BY <2>2, <2>3
<1>13. CASE preCont # None /\ r # <<>>
  <2>1. Continues(preCont) /\ preCont.source # None /\ preCont \in Cont
    BY <1>13 DEF Inv, SavedOK, Continues
  <2>2. PICK c : c = cont'
    OBVIOUS
  <2>3. preCont.hasMore => preCont.cursor # None
    BY <2>1, Library DEF Continues
  <2>4. /\ c.source = preCont.source /\ c.cursor = preCont.cursor /\ c.context = context'
        /\ c.hasMore = preCont.hasMore /\ c \in Cont
    <3>1. c = Started(preCont.source, preCont.cursor, preCont.hasMore, context')
      BY <1>3, <1>13, <2>2
    <3>2. /\ preCont.hasMore \in BOOLEAN /\ preCont.source \in DOMAIN Lists \cup {None}
          /\ preCont.cursor \in Nat \cup {None}
      BY <2>1 DEF Cont
    <3>3. (preCont.hasMore /\ preCont.cursor # None) = preCont.hasMore
      BY <2>3, <3>2
    <3>4. c = [source |-> preCont.source, cursor |-> preCont.cursor,
               hasMore |-> preCont.hasMore, context |-> context']
      BY <3>1, <3>3 DEF Started
    <3> QED
      BY <1>5, <3>2, <3>4 DEF Cont
  <2>5. Continues(c)
    BY <2>1, <2>4 DEF Continues
  <2>6. ContOK'
    BY <1>3, <1>5, <2>2, <2>4, <2>5 DEF Inv, ContOK
  <2>7. CoveredBy(preCont, ToSet(preQueue) \cup behind \cup gone)
    BY <1>13 DEF Inv, Unskipped
  <2>8. CoveredBy(c, ToSet(preQueue) \cup behind \cup gone)
    BY <2>4, <2>7 DEF CoveredBy
  <2>9. CoveredBy(c, ToSet(r) \cup behind \cup gone)
    BY <1>4, <2>8, CoveredMore
  <2>10. Unskipped'
    BY <1>3, <1>13, <2>2, <2>9 DEF Unskipped
  <2> QED
    BY <1>6, <1>7, <1>8, <1>9, <1>10, <1>11, <1>12, <2>6, <2>10 DEF Inv
<1>14. CASE ~(preCont # None /\ r # <<>>)
  <2>1. cont' = cont
    BY <1>3, <1>14
  <2>2. cont.context # None => cont.context <= context /\ cont.context \in Nat
    BY DEF Inv, ContOK, Continues, Cont
  <2>3. cont.context # None => cont.context <= context' /\ cont.context # context'
    BY <1>3, <1>5, <2>2
  <2>4. ContOK'
    BY <1>3, <2>1, <2>3 DEF Inv, ContOK
  <2>5. context' # None
    BY <1>5, Library
  <2>6. Unskipped'
    BY <1>3, <2>1, <2>3, <2>5 DEF Unskipped
  <2> QED
    BY <1>6, <1>7, <1>8, <1>9, <1>10, <1>11, <1>12, <2>4, <2>6 DEF Inv
<1> QED
  BY <1>13, <1>14

\* What a reload keeps of the queue.
LEMMA ReloadedQueue ==
    ASSUME Inv, Reload
    PROVE  LET from    == Greater(1, idx - HistoryLimit)
               through == Lesser(Len(queue), idx + FuturePersist)
           IN /\ QueueOK(queue', idx', <<>>, shuffle)
              /\ ToSet(queue') \subseteq ToSet(queue)
              /\ idx' > 0 => idx > 0
              /\ idx > 0 => idx' > 0 /\ queue'[idx'] = queue[idx]
              /\ through = Len(queue) =>
                     ToSet(queue) \subseteq ToSet(queue') \cup ToSet(SubSeq(queue, 1, from - 1))
<1>1. PICK from : from = Greater(1, idx - HistoryLimit)
  OBVIOUS
<1>2. PICK through : through = Lesser(Len(queue), idx + FuturePersist)
  OBVIOUS
<1>3. PICK q : q = queue'
  OBVIOUS
<1>4. PICK n : n = Len(queue)
  OBVIOUS
<1>5. /\ queue \in Seq(Tracks) /\ IsInjective(queue) /\ n \in Nat /\ idx \in 0..n
      /\ idx \in Nat /\ (idx = 0 <=> n = 0)
  BY <1>4, Elements DEF Inv, QueueOK
<1>6. q = SubSeq(queue, from, through) /\ idx' = IF idx > 0 THEN idx - from + 1 ELSE Lesser(1, Len(q))
  BY <1>1, <1>2, <1>3 DEF Reload
<1>7. /\ from \in Nat \ {0} /\ through \in 0..n /\ from <= through + 1
      /\ idx > 0 => from <= idx /\ idx <= through
      /\ idx = 0 => from = 1 /\ through = 0
  BY <1>1, <1>2, <1>4, <1>5, Library DEF Greater, Lesser
<1>8. /\ q \in Seq(Tracks) /\ Len(q) = through - from + 1
      /\ \A k \in 1..(through - from + 1) : q[k] = queue[from + k - 1]
      /\ \A k \in from..through : queue[k] \in ToSet(q)
      /\ ToSet(q) \subseteq ToSet(queue) /\ IsInjective(q)
  <2>1. through \in 0..Len(queue)
    BY <1>4, <1>7
  <2> QED
    BY <1>5, <1>6, <1>7, <2>1, Piece
<1>9. ASSUME idx > 0
      PROVE  idx' \in 1..Len(q) /\ q[idx'] = queue[idx] /\ idx' > 0
  <2>1. idx' = idx - from + 1
    BY <1>6, <1>9
  <2>2. idx - from + 1 \in 1..(through - from + 1) /\ from + (idx - from + 1) - 1 = idx
    BY <1>5, <1>7, <1>9
  <2>3. idx - from + 1 > 0
    BY <1>5, <1>7, <1>9
  <2> QED
    BY <1>8, <2>1, <2>2, <2>3
<1>10. ASSUME ~(idx > 0) PROVE idx' = 0 /\ Len(q) = 0
  <2>1. idx = 0 /\ Len(q) = 0
    BY <1>5, <1>7, <1>8, <1>10
  <2> QED
    BY <1>6, <2>1 DEF Lesser
<1>11. QueueOK(q, idx', <<>>, shuffle)
  <2>1. <<>> \in Seq(Nat) /\ \A j \in 1..Len(<<>>) : FALSE
    BY EmptySeq
  <2>2. Len(q) \in Nat /\ (q = <<>> <=> Len(q) = 0)
    BY <1>8, Elements
  <2>3. idx' \in 0..Len(q) /\ (idx' = 0 <=> Len(q) = 0)
    BY <1>9, <1>10, <2>2
  <2> QED
    BY <1>8, <2>1, <2>2, <2>3 DEF QueueOK
<1>12. ASSUME through = n
       PROVE  ToSet(queue) \subseteq ToSet(q) \cup ToSet(SubSeq(queue, 1, from - 1))
  <2>1. PICK w : w = SubSeq(queue, 1, from - 1)
    OBVIOUS
  <2>2. \A k \in 1..(from - 1) : queue[k] \in ToSet(w)
    <3>1. from - 1 \in 0..Len(queue) /\ 1 <= (from - 1) + 1
      BY <1>4, <1>5, <1>7
    <3> QED
      BY <1>5, <2>1, <3>1, Piece
  <2>3. ASSUME NEW t \in ToSet(queue) PROVE t \in ToSet(q) \cup ToSet(w)
    <3>1. PICK k \in 1..n : queue[k] = t
      BY <1>4, <1>5, Elements
    <3>2. k \in 1..(from - 1) \/ k \in from..through
      BY <1>5, <1>7, <1>12
    <3> QED
      BY <1>8, <2>2, <3>1, <3>2
  <2> QED
    BY <2>1, <2>3
<1> QED
  BY <1>1, <1>2, <1>3, <1>4, <1>8, <1>9, <1>10, <1>11, <1>12

\* A reload keeps queue and continuation together, or parts them by a new context.
LEMMA ReloadInv == ASSUME Inv, Reload PROVE Inv'
<1>1. PICK from : from = Greater(1, idx - HistoryLimit)
  OBVIOUS
<1>2. PICK through : through = Lesser(Len(queue), idx + FuturePersist)
  OBVIOUS
<1>3. PICK limit : limit = HistoryLimit + 1 + FuturePersist
  OBVIOUS
<1>4. /\ history' = <<>> /\ playing' = FALSE /\ pending' = None
      /\ HydratedContext(through < Len(queue))
      /\ preQueue' = Cut(preQueue, limit)
      /\ preCont' = (IF Len(preQueue) > limit THEN None ELSE preCont)
      /\ request' = None /\ stale' = None /\ retry' = None
      /\ page' = NoPage /\ dirty' = TRUE
      /\ behind' = (IF shuffle THEN behind
                    ELSE behind \cup ToSet(SubSeq(queue, 1, from - 1)))
      /\ UNCHANGED <<shuffle, cycle, cont, gone, heard>>
  BY <1>1, <1>2, <1>3 DEF Reload
<1>5. /\ QueueOK(queue', idx', <<>>, shuffle)
      /\ ToSet(queue') \subseteq ToSet(queue)
      /\ idx' > 0 => idx > 0
      /\ through = Len(queue) =>
             ToSet(queue) \subseteq ToSet(queue') \cup ToSet(SubSeq(queue, 1, from - 1))
  BY <1>1, <1>2, ReloadedQueue
<1>6. QueueOK(queue', idx', history', shuffle')
  BY <1>4, <1>5
<1>7. context \in Nat /\ context \in 0..MaxContexts /\ MaxContexts \in Nat
  BY Library DEF Inv, WaitAtEnd
<1>8. /\ context' \in 0..MaxContexts
      /\ through < Len(queue) => context' = context + 1
      /\ ~(through < Len(queue)) => context' = context
      /\ context' >= context
  BY <1>4, <1>7 DEF HydratedContext, NewContext
<1>9. Flags'
  BY <1>4 DEF Inv, Flags
<1>10. WaitAtEnd' /\ Waiting'
  BY <1>4, <1>8 DEF WaitAtEnd, Waiting, WaitHasAnswer
<1>11. CycleTyped'
  BY <1>4, <1>5 DEF Inv, CycleTyped
<1>12. Cycling'
  BY <1>4, <1>5, CycleGoesOn DEF Inv
<1>13. RequestsOK' /\ Asking' /\ Asked'
  BY <1>4 DEF RequestsOK, RequestOK, Asking, Asked
<1>14. cont.context # None => cont.context \in Nat /\ cont.context <= context
  BY DEF Inv, ContOK, Continues, Cont
<1>15. ContOK'
  <2>1. cont.context # None => cont.context <= context'
    BY <1>7, <1>8, <1>14
  <2>2. NoPage \in Page
    BY DEF NoPage, Page
  <2> QED
    BY <1>4, <2>1, <2>2 DEF Inv, ContOK
<1>16. /\ preQueue' \in Seq(Tracks) /\ IsInjective(preQueue')
       /\ ~(Len(preQueue) > limit) => preQueue' = preQueue
  <2>1. preQueue \in Seq(Tracks) /\ IsInjective(preQueue) /\ limit \in Nat /\ Len(preQueue) \in Nat
    BY <1>3, Library, LenProperties DEF Inv, SavedOK
  <2>2. PICK q : q = Cut(preQueue, limit)
    OBVIOUS
  <2>3. PICK m : m = Lesser(limit, Len(preQueue))
    OBVIOUS
  <2>4. m \in 0..Len(preQueue) /\ 1 <= m + 1 /\ (~(Len(preQueue) > limit) => m = Len(preQueue))
    BY <2>1, <2>3 DEF Lesser
  <2>5. q = SubSeq(preQueue, 1, m)
    BY <2>2, <2>3 DEF Cut
  <2>6. q \in Seq(Tracks) /\ IsInjective(q)
    BY <2>1, <2>4, <2>5, Piece
  <2>7. ~(Len(preQueue) > limit) => q = preQueue
    BY <2>1, <2>4, <2>5, SubSeqFull
  <2> QED
    BY <1>4, <2>2, <2>6, <2>7
<1>17. SavedOK'
  BY <1>4, <1>16 DEF Inv, SavedOK
<1>18. behind \subseteq behind'
  BY <1>4
<1>19. ASSUME preCont' # None
       PROVE  CoveredBy(preCont', ToSet(preQueue') \cup behind' \cup gone')
  <2>1. preCont' = preCont /\ preCont # None /\ preQueue' = preQueue
    BY <1>4, <1>16, <1>19
  <2>2. CoveredBy(preCont, ToSet(preQueue) \cup behind \cup gone)
    BY <2>1 DEF Inv, Unskipped
  <2>3. ToSet(preQueue) \cup behind \cup gone \subseteq ToSet(preQueue) \cup behind' \cup gone'
    BY <1>4, <1>18
  <2> QED
    BY <2>1, <2>2, <2>3, CoveredMore
<1>20. ASSUME ~shuffle', cont'.source # None, cont'.context = context'
       PROVE  CoveredBy(cont', ToSet(queue') \cup behind' \cup gone')
  <2>1. ~shuffle /\ cont.source # None /\ cont.context = context'
    BY <1>4, <1>20
  <2>2. cont.context # None
    BY <1>7, <1>8, <2>1, Library
  <2>3. ~(through < Len(queue)) /\ cont.context = context
    BY <1>7, <1>8, <1>14, <2>1, <2>2
  <2>4. through = Len(queue)
    <3>1. Len(queue) \in Nat /\ idx \in Nat
      BY Elements DEF Inv, QueueOK
    <3>2. through <= Len(queue) /\ through \in Int
      BY <1>2, <3>1, Library DEF Lesser
    <3> QED
      BY <2>3, <3>1, <3>2
  <2>5. ToSet(queue) \cup behind \cup gone \subseteq ToSet(queue') \cup behind' \cup gone'
    BY <1>4, <1>5, <2>1, <2>4
  <2>6. CoveredBy(cont, ToSet(queue) \cup behind \cup gone)
    BY <2>1, <2>3 DEF Inv, Unskipped
  <2> QED
    BY <1>4, <2>5, <2>6, CoveredMore
<1>21. Unskipped'
  BY <1>19, <1>20 DEF Unskipped
<1> QED
  BY <1>6, <1>9, <1>10, <1>11, <1>12, <1>13, <1>15, <1>17, <1>21 DEF Inv

---------------------------------------------------------------------------
(* The answers *)

\* New tracks follow the compacted queue: the current track stays, nothing is lost but
\* what is dropped behind it, and at the end of the queue the first of them is next.
LEMMA Followed ==
    ASSUME Inv, idx > 0, NEW tracks \in Seq(Tracks), IsInjective(tracks),
           ToSet(queue) \cap ToSet(tracks) = {}
    PROVE  LET c == Compacted(queue, idx, history)
               q == c.queue \o tracks
           IN /\ QueueOK(q, c.idx, c.history, shuffle)
              /\ c.idx \in Nat /\ c.idx > 0 /\ q[c.idx] = Current
              /\ ToSet(queue) \cup ToSet(tracks) = c.dropped \cup ToSet(q)
              /\ c.idx = Len(c.queue) <=> idx = Len(queue)
              /\ tracks = <<>> => Len(q) = Len(c.queue)
              /\ tracks # <<>> /\ idx = Len(queue) =>
                     /\ c.idx < Len(q) /\ q[c.idx + 1] \in ToSet(tracks)
<1> PICK c : c = Compacted(queue, idx, history)
  OBVIOUS
<1> PICK q : q = c.queue \o tracks
  OBVIOUS
<1>1. /\ QueueOK(c.queue, c.idx, c.history, shuffle)
      /\ ToSet(queue) = c.dropped \cup ToSet(c.queue)
      /\ c.idx > 0 /\ c.queue[c.idx] = queue[idx]
      /\ Len(c.queue) - c.idx = Len(queue) - idx
  <2>1. QueueOK(queue, idx, history, shuffle)
    BY DEF Inv
  <2>2. KeepsQueue(c, queue, idx, shuffle)
    BY <2>1, CompactedQueue
  <2> QED
    BY <2>2 DEF KeepsQueue
<1>2. ToSet(c.queue) \cap ToSet(tracks) = {}
  BY <1>1
<1>3. /\ QueueOK(q, c.idx, c.history, shuffle)
      /\ Len(q) = Len(c.queue) + Len(tracks)
      /\ q[c.idx] = c.queue[c.idx]
      /\ \A k \in 1..Len(tracks) : q[Len(c.queue) + k] = tracks[k]
      /\ ToSet(q) = ToSet(c.queue) \cup ToSet(tracks)
  <2>1. PICK u, i, h : u = c.queue /\ i = c.idx /\ h = c.history
    OBVIOUS
  <2>2. QueueOK(u, i, h, shuffle) /\ i > 0 /\ ToSet(u) \cap ToSet(tracks) = {}
    BY <1>1, <1>2, <2>1
  <2>3. /\ QueueOK(u \o tracks, i, h, shuffle)
        /\ Len(u \o tracks) = Len(u) + Len(tracks)
        /\ (u \o tracks)[i] = u[i]
        /\ \A k \in 1..Len(tracks) : (u \o tracks)[Len(u) + k] = tracks[k]
        /\ ToSet(u \o tracks) = ToSet(u) \cup ToSet(tracks)
    BY <2>2, Lengthened
  <2> QED
    BY <2>1, <2>3
<1>4. c.queue \in Seq(Tracks) /\ c.idx \in 0..Len(c.queue)
  BY <1>1 DEF QueueOK
<1>5. /\ Len(c.queue) \in Nat /\ c.idx \in Nat /\ Len(tracks) \in Nat
      /\ (tracks = <<>> <=> Len(tracks) = 0)
  BY <1>4, Elements
<1>6. Current = queue[idx] /\ idx \in Nat /\ Len(queue) \in Nat
  BY CurrentTrack DEF Inv
<1>7. c.idx = Len(c.queue) <=> idx = Len(queue)
  BY <1>1, <1>5, <1>6
<1>8. tracks = <<>> => Len(q) = Len(c.queue)
  BY <1>3, <1>5
<1>9. ASSUME tracks # <<>>, idx = Len(queue)
      PROVE  c.idx < Len(q) /\ q[c.idx + 1] \in ToSet(tracks)
  <2>1. 1 \in 1..Len(tracks) /\ c.idx = Len(c.queue)
    BY <1>5, <1>7, <1>9
  <2>2. q[c.idx + 1] = tracks[1]
    BY <1>3, <2>1
  <2>3. tracks[1] \in ToSet(tracks)
    BY <2>1, Elements
  <2>4. c.idx < Len(q)
    BY <1>3, <1>5, <2>1
  <2> QED
    BY <2>2, <2>3, <2>4
<1> QED
  BY <1>1, <1>3, <1>5, <1>6, <1>7, <1>8, <1>9

\* A page of the list ends a wait, and moves only the one who waited, by one track.
LEMMA Appended ==
    ASSUME Inv, ~shuffle, idx > 0, NEW tracks \in Seq(Tracks), IsInjective(tracks),
           tracks # <<>>, ToSet(queue) \cap ToSet(tracks) = {}, AppendToQueue(tracks)
    PROVE  /\ QueueOK(queue', idx', history', shuffle)
           /\ idx' > 0 /\ pending' = None /\ playing' \in BOOLEAN
           /\ ToSet(queue) \cup ToSet(tracks) \cup behind = ToSet(queue') \cup behind'
           /\ \/ queue'[idx'] = Current /\ playing' = playing
              \/ /\ pending = context /\ playing' /\ idx' > 1
                 /\ queue'[idx' - 1] = Current /\ queue'[idx'] \in ToSet(tracks)
<1>1. PICK c : c = Compacted(queue, idx, history)
  OBVIOUS
<1>2. PICK q : q = c.queue \o tracks
  OBVIOUS
<1>3. /\ QueueOK(q, c.idx, c.history, shuffle)
      /\ c.idx \in Nat /\ c.idx > 0 /\ q[c.idx] = Current
      /\ ToSet(queue) \cup ToSet(tracks) = c.dropped \cup ToSet(q)
      /\ idx = Len(queue) => c.idx < Len(q) /\ q[c.idx + 1] \in ToSet(tracks)
  BY <1>1, <1>2, Followed
<1>4. /\ behind' = behind \cup c.dropped
      /\ IF idx > 0 /\ pending = context
           THEN MoveTo(q, c.idx + 1, c.history)
           ELSE /\ queue' = q /\ idx' = Greater(1, c.idx) /\ history' = c.history
                /\ UNCHANGED <<playing, pending>>
  BY <1>1, <1>2 DEF AppendToQueue
<1>5. /\ pending \in {None, context} /\ context \in Nat /\ None \notin Nat
      /\ (pending # None => idx = Len(queue)) /\ playing \in BOOLEAN
  BY Library DEF Inv, WaitAtEnd, Flags
<1>6. CASE pending = context
  <2>1. /\ queue' = q /\ idx' = c.idx + 1 /\ history' = c.history
        /\ playing' = TRUE /\ pending' = None
    BY <1>4, <1>6 DEF MoveTo
  <2>2. c.idx < Len(q) /\ q[c.idx + 1] \in ToSet(tracks)
    BY <1>3, <1>5, <1>6
  <2>3. QueueOK(q, c.idx + 1, c.history, shuffle)
    BY <1>3, <2>2, Advanced
  <2>4. c.idx + 1 > 1 /\ c.idx + 1 > 0 /\ (c.idx + 1) - 1 = c.idx
    BY <1>3
  <2>5. queue'[idx' - 1] = Current /\ queue'[idx'] \in ToSet(tracks)
    BY <1>3, <2>1, <2>2, <2>4
  <2>6. ToSet(queue) \cup ToSet(tracks) \cup behind = ToSet(queue') \cup behind'
    BY <1>3, <1>4, <2>1
  <2> QED
    BY <1>6, <2>1, <2>3, <2>4, <2>5, <2>6
<1>7. CASE ~(pending = context)
  <2>1. Greater(1, c.idx) = c.idx
    BY <1>3 DEF Greater
  <2>2. /\ queue' = q /\ idx' = c.idx /\ history' = c.history
        /\ playing' = playing /\ pending' = pending
    BY <1>4, <1>7, <2>1
  <2>3. ToSet(queue) \cup ToSet(tracks) \cup behind = ToSet(queue') \cup behind'
    BY <1>3, <1>4, <2>2
  <2> QED
    BY <1>3, <1>5, <1>7, <2>2, <2>3
<1> QED
  BY <1>6, <1>7

\* The answer to the page request of a list: it is asked for by this queue, it goes on
\* where the queue ends, and it has tracks that the queue does not have, or none.
LEMMA PageAnswer ==
    ASSUME Inv, ~dirty, PageArrives
    PROVE  \E answer, tracks :
               /\ cont.source \in DOMAIN Lists /\ cont.context = context
               /\ cont.cursor \in 1..Len(Lists[cont.source])
               /\ page.context = context /\ ~shuffle /\ idx > 0 /\ page' = NoPage
               /\ PageOf(cont.source, cont.cursor, answer)
               /\ tracks \in Seq(Tracks) /\ IsInjective(tracks)
               /\ ToSet(tracks) = ToSet(answer.tracks) \ ToSet(queue)
               /\ ToSet(queue) \cap ToSet(tracks) = {}
               /\ cont' = [source |-> cont.source, cursor |-> answer.cursor,
                           hasMore |-> answer.cursor # None, context |-> context]
               /\ \/ tracks # <<>> /\ AppendToQueue(tracks) /\ retry' = retry
                  \/ /\ tracks = <<>>
                     /\ IF answer.cursor = None
                          THEN CancelPendingAdvance(context)
                          ELSE UNCHANGED <<retry, pending, playing>>
                     /\ UNCHANGED <<queue, idx, history, behind>>
<1>1. PICK s : s = cont.source
  OBVIOUS
<1>2. page.state # "none"
  BY DEF PageArrives
<1>3. /\ cont.source # None /\ cont.context = context /\ cont.hasMore
      /\ page.context = context /\ ~shuffle /\ idx > 0
  BY <1>2 DEF Inv, Asked, CanWaitForQueueContinuation
<1>4. s \in DOMAIN Lists /\ cont.cursor \in 1..Len(Lists[s])
  BY <1>1, <1>3 DEF Inv, ContOK, Continues, Cont
<1>5. PICK answer : answer = ListAfter(s, cont.cursor, PageSize)
  OBVIOUS
<1>6. PageOf(s, cont.cursor, answer)
  <2>1. cont.cursor \in 0..Len(Lists[s]) /\ PageSize \in Nat \ {0}
    BY <1>4, Library
  <2> QED
    BY <1>4, <1>5, <2>1, ListPage
<1>7. PICK tracks : tracks = Keep(answer.tracks, Tracks \ ToSet(queue))
  OBVIOUS
<1>8. answer.tracks \in Seq(Tracks) /\ IsInjective(answer.tracks) /\ ToSet(answer.tracks) \subseteq Tracks
  BY <1>6, Elements DEF PageOf
<1>9. /\ tracks \in Seq(Tracks) /\ IsInjective(tracks)
      /\ ToSet(tracks) = ToSet(answer.tracks) \cap (Tracks \ ToSet(queue))
  BY <1>7, <1>8, Sieved
<1>10. ToSet(tracks) = ToSet(answer.tracks) \ ToSet(queue) /\ ToSet(queue) \cap ToSet(tracks) = {}
  BY <1>8, <1>9
<1>11. cont' = [source |-> s, cursor |-> answer.cursor, hasMore |-> answer.cursor # None,
                context |-> context]
  BY <1>1, <1>3, <1>5 DEF PageArrives, Started
<1>12. \/ tracks # <<>> /\ AppendToQueue(tracks) /\ retry' = retry
       \/ /\ tracks = <<>>
          /\ IF answer.cursor = None THEN CancelPendingAdvance(context)
             ELSE UNCHANGED <<retry, pending, playing>>
          /\ UNCHANGED <<queue, idx, history, behind>>
  BY <1>1, <1>3, <1>5, <1>7 DEF PageArrives
<1>13. page' = NoPage
  BY DEF PageArrives
<1> QED
  BY <1>1, <1>3, <1>4, <1>6, <1>9, <1>10, <1>11, <1>12, <1>13

\* A page of the list, asked for by this queue, continues it where its cursor was.
LEMMA PageArrivesInv == ASSUME Inv, ~dirty, PageArrives PROVE Inv'
<1>1. PICK answer, tracks :
               /\ cont.source \in DOMAIN Lists /\ cont.context = context
               /\ cont.cursor \in 1..Len(Lists[cont.source])
               /\ page.context = context /\ ~shuffle /\ idx > 0 /\ page' = NoPage
               /\ PageOf(cont.source, cont.cursor, answer)
               /\ tracks \in Seq(Tracks) /\ IsInjective(tracks)
               /\ ToSet(tracks) = ToSet(answer.tracks) \ ToSet(queue)
               /\ ToSet(queue) \cap ToSet(tracks) = {}
               /\ cont' = [source |-> cont.source, cursor |-> answer.cursor,
                           hasMore |-> answer.cursor # None, context |-> context]
               /\ \/ tracks # <<>> /\ AppendToQueue(tracks) /\ retry' = retry
                  \/ /\ tracks = <<>>
                     /\ IF answer.cursor = None
                          THEN CancelPendingAdvance(context)
                          ELSE UNCHANGED <<retry, pending, playing>>
                     /\ UNCHANGED <<queue, idx, history, behind>>
  BY PageAnswer
<1>2. PICK s : s = cont.source
  OBVIOUS
<1>3. PICK after : after = cont.cursor
  OBVIOUS
<1>4. PICK c : c = cont'
  OBVIOUS
<1>5. /\ c.source = s /\ c.cursor = answer.cursor /\ c.hasMore = (answer.cursor # None)
      /\ c.context = context
      /\ c = [source |-> s, cursor |-> answer.cursor, hasMore |-> answer.cursor # None,
              context |-> context]
  BY <1>1, <1>2, <1>4
<1>6. /\ UNCHANGED <<context, shuffle, cycle, preQueue, preCont, request, stale, gone, heard>>
      /\ Rerender
  BY DEF PageArrives, shuffleVars
<1>7. context \in Nat /\ context \in 0..MaxContexts /\ None \notin Nat
  BY Library DEF Inv, WaitAtEnd
<1>8. /\ s \in DOMAIN Lists /\ after \in 1..Len(Lists[s]) /\ after \in Nat
      /\ PageOf(s, after, answer)
  BY <1>1, <1>2, <1>3
<1>9. answer.cursor # None => answer.cursor \in (after + 1)..Len(Lists[s])
  BY <1>8 DEF PageOf
<1>10. answer.cursor # None => answer.cursor \in 1..Len(Lists[s]) /\ answer.cursor \in Nat
  BY <1>8, <1>9
<1>11. answer.cursor # after
  BY <1>7, <1>8, <1>9
<1>12. dirty' = TRUE /\ Asked'
  <2>1. cont'.cursor # cont.cursor
    BY <1>3, <1>4, <1>5, <1>11
  <2>2. dirty' = TRUE
    BY <1>6, <2>1 DEF Rerender, Read
  <2> QED
    BY <2>2 DEF Asked
<1>13. Continues(c)
  <2>1. c \in Cont
    BY <1>5, <1>7, <1>8, <1>10 DEF Cont
  <2>2. s # None
    BY <1>8, Library
  <2> QED
    BY <1>5, <1>10, <2>1, <2>2 DEF Continues
<1>14. ContOK'
  <2>1. NoPage \in Page
    BY DEF NoPage, Page
  <2>2. context <= context
    BY <1>7
  <2> QED
    BY <1>1, <1>4, <1>5, <1>6, <1>13, <2>1, <2>2 DEF ContOK
<1>15. request = None /\ preCont = None
  BY <1>1 DEF Inv, Asking, SavedOK
<1>16. CycleTyped' /\ Cycling' /\ Asking'
  BY <1>1, <1>6, <1>15 DEF Inv, CycleTyped, Cycling, Asking
<1>17. SavedOK' /\ RequestsOK'
  BY <1>6 DEF Inv, SavedOK, RequestsOK
<1>18. /\ pending \in {None, context} /\ retry \in {None, context} /\ playing \in BOOLEAN
       /\ QueueOK(queue, idx, history, shuffle) /\ WaitAtEnd
  BY DEF Inv, WaitAtEnd, Flags
<1>19. /\ QueueOK(queue', idx', history', shuffle) /\ playing' \in BOOLEAN
       /\ retry' \in {None, context}
       /\ ToSet(queue) \cup ToSet(tracks) \cup behind = ToSet(queue') \cup behind'
       /\ \/ pending' = None
          \/ /\ pending' = pending /\ answer.cursor # None
             /\ queue' = queue /\ idx' = idx
  <2>1. CASE tracks # <<>> /\ AppendToQueue(tracks) /\ retry' = retry
    <3>1. /\ QueueOK(queue', idx', history', shuffle) /\ playing' \in BOOLEAN
          /\ pending' = None
          /\ ToSet(queue) \cup ToSet(tracks) \cup behind = ToSet(queue') \cup behind'
      BY <1>1, <2>1, Appended
    <3> QED
      BY <1>18, <2>1, <3>1
  <2>2. CASE tracks = <<>> /\ answer.cursor = None /\ CancelPendingAdvance(context)
             /\ UNCHANGED <<queue, idx, history, behind>>
    <3>1. retry' = None /\ pending' = None /\ playing' \in BOOLEAN
      BY <1>18, <2>2 DEF CancelPendingAdvance
    <3>2. ToSet(tracks) = {}
      BY <2>2 DEF ToSet
    <3> QED
      BY <1>18, <2>2, <3>1, <3>2
  <2>3. CASE tracks = <<>> /\ answer.cursor # None /\ UNCHANGED <<retry, pending, playing>>
             /\ UNCHANGED <<queue, idx, history, behind>>
    <3>1. ToSet(tracks) = {}
      BY <2>3 DEF ToSet
    <3> QED
      BY <1>18, <2>3, <3>1
  <2> QED
    BY <1>1, <2>1, <2>2, <2>3
<1>20. Flags'
  BY <1>6, <1>12, <1>19 DEF Inv, Flags
<1>21. WaitAtEnd'
  BY <1>6, <1>18, <1>19 DEF WaitAtEnd
<1>22. Waiting'
  <2>1. pending' # None => CanWaitForQueueContinuation'
    <3>1. s # None
      BY <1>8, Library
    <3> QED
      BY <1>4, <1>5, <1>6, <1>19, <3>1 DEF CanWaitForQueueContinuation
  <2> QED
    BY <1>1, <1>6, <1>12, <2>1 DEF Waiting, WaitHasAnswer
<1>23. CoveredBy(c, ToSet(queue') \cup behind' \cup gone)
  <2>1. PICK S : S = ToSet(queue') \cup behind' \cup gone
    OBVIOUS
  <2>2. \A k \in 1..after : Lists[s][k] \in ToSet(queue) \cup behind \cup gone
    <3>1. CoveredBy(cont, ToSet(queue) \cup behind \cup gone) /\ Continues(cont)
      BY <1>1, <1>8, <1>2, Library DEF Inv, Unskipped, ContOK
    <3>2. cont.hasMore /\ cont.source # None
      BY DEF Inv, Asked, CanWaitForQueueContinuation, PageArrives
    <3>3. after = IF cont.hasMore THEN cont.cursor ELSE Len(Lists[cont.source])
      BY <1>3, <3>2
    <3>4. PICK R : R = ToSet(queue) \cup behind \cup gone
      OBVIOUS
    <3>5. \A k \in 1..(IF cont.hasMore THEN cont.cursor ELSE Len(Lists[cont.source])) :
              Lists[cont.source][k] \in R
      BY <3>1, <3>2, <3>4, CoveredPlaces
    <3>6. \A k \in 1..after : Lists[cont.source][k] \in R
      BY <3>3, <3>5
    <3> QED
      BY <1>2, <3>4, <3>6
  <2>3. \A k \in 1..after : Lists[s][k] \in S
    BY <1>19, <2>1, <2>2
  <2>4. ToSet(answer.tracks) \cup gone \subseteq S
    BY <1>1, <1>19, <2>1
  <2>5. CoveredBy(c, S)
    BY <1>5, <1>8, <1>13, <2>3, <2>4, CoveredByPage
  <2> QED
    BY <2>1, <2>5
<1>24. Unskipped'
  BY <1>4, <1>6, <1>15, <1>23 DEF Unskipped
<1>25. QueueOK(queue', idx', history', shuffle')
  BY <1>6, <1>19
<1> QED
  BY <1>12, <1>14, <1>16, <1>17, <1>20, <1>21, <1>22, <1>24, <1>25 DEF Inv

\* A page of the ring that a cycle asks for has nothing that it has had; the cycle then
\* has had all up to the new cursor and nothing beyond, or everything.
LEMMA RingAnswer ==
    ASSUME Inv, shuffle, idx > 0, ~cycle.complete, NEW c \in Starts(cycle.cursor),
           NEW p, p = ShufflePage(c, cycle.excluded)
    PROVE  /\ p.tracks \in Seq(Tracks) /\ IsInjective(p.tracks)
           /\ ToSet(p.tracks) \cap heard = {}
           /\ p.cursor \in Ring \cup {None}
           /\ p.cursor = None => Tracks \ gone \subseteq heard \cup ToSet(p.tracks)
           /\ p.cursor # None => HadUpTo(heard \cup ToSet(p.tracks), p.cursor, cycle.excluded,
                                         Tracks \ gone)
<1>1. PICK x : x = cycle.excluded
  OBVIOUS
<1>2. PICK a : a = c.anchor
  OBVIOUS
<1>3. /\ heard \subseteq Tracks /\ x \in heard
      /\ cycle.cursor = None => heard = {x}
      /\ cycle.cursor # None => HadUpTo(heard, cycle.cursor, x, Tracks \ gone)
  BY <1>1 DEF Inv, Cycling
<1>4. cycle.cursor \in Ring \cup {None}
  BY DEF Inv, CycleTyped, Cycle
<1>5. \/ cycle.cursor # None /\ c = cycle.cursor /\ c.anchor \in Tracks /\ c.after \in Tracks
      \/ cycle.cursor = None /\ c.anchor \in Tracks /\ c.after = None
  <2>1. CASE cycle.cursor # None
    <3>1. c = cycle.cursor /\ c \in Ring
      BY <1>4, <2>1 DEF Starts
    <3> QED
      BY <2>1, <3>1 DEF Ring
  <2>2. CASE cycle.cursor = None
    <3>1. PICK b \in Anchors : c = [anchor |-> b, after |-> None]
      BY <2>2 DEF Starts
    <3>2. b \in Tracks
      BY PlayerConstants
    <3> QED
      BY <2>2, <3>1, <3>2
  <2> QED
    BY <2>1, <2>2
<1>6. a \in Tracks
  BY <1>2, <1>5
<1>7. \A t \in Tracks : Distance(a, t) \in Int
  <2>1. Cardinality(Tracks) \in Nat /\ Tracks \subseteq Nat
    BY Library
  <2> QED
    BY <1>6, <2>1 DEF Distance
<1>8. PICK left : left = RingLeft(c, x)
  OBVIOUS
<1>9. \A t : t \in left <=> t \in Tracks /\ t \notin gone /\ t # x /\ FollowsInRing(c, t)
  BY <1>8 DEF RingLeft
<1>10. /\ p.tracks \in Seq(Tracks) /\ IsInjective(p.tracks)
       /\ ToSet(p.tracks) \subseteq left
       /\ p.cursor = None => left \subseteq ToSet(p.tracks)
       /\ p.cursor # None =>
              /\ p.cursor \in Ring
              /\ p.cursor.anchor = a /\ p.cursor.after \in left
              /\ \A t \in left :
                     t \in ToSet(p.tracks) <=> Distance(a, t) <= Distance(a, p.cursor.after)
  <2>1. c.anchor \in Tracks
    BY <1>5
  <2> QED
    BY <1>1, <1>2, <1>8, <2>1, RingPage DEF Ring
<1>11. \A t \in heard \ {x} : cycle.cursor # None /\ Distance(a, t) <= Distance(a, c.after)
  BY <1>2, <1>3, <1>5 DEF HadUpTo
<1>12. \A t \in heard \ {x} : ~FollowsInRing(c, t)
  <2> SUFFICES ASSUME NEW t \in heard \ {x} PROVE ~FollowsInRing(c, t)
    OBVIOUS
  <2>1. c.after \in Tracks /\ t \in Tracks
    BY <1>3, <1>5, <1>11
  <2>2. c.after # None
    BY <2>1, Library
  <2>3. Distance(a, t) <= Distance(a, c.after) /\ Distance(a, t) \in Int /\ Distance(a, c.after) \in Int
    BY <1>7, <1>11, <2>1
  <2>4. ~(Distance(a, t) > Distance(a, c.after))
    BY <2>3
  <2> QED
    BY <1>2, <2>2, <2>4 DEF FollowsInRing
<1>13. ToSet(p.tracks) \cap heard = {}
  BY <1>9, <1>10, <1>12
<1>14. \A t \in Tracks \ gone : t \in left \/ t \in heard
  <2> SUFFICES ASSUME NEW t \in Tracks \ gone, t # x, ~FollowsInRing(c, t) PROVE t \in heard
    BY <1>3, <1>9
  <2>1. c.after # None /\ ~(Distance(a, t) > Distance(a, c.after))
    BY <1>2 DEF FollowsInRing
  <2>2. cycle.cursor # None /\ c = cycle.cursor /\ c.after \in Tracks
    BY <1>5, <2>1
  <2>3. Distance(a, t) <= Distance(a, c.after)
    BY <1>7, <2>1, <2>2
  <2> QED
    BY <1>2, <1>3, <2>2, <2>3 DEF HadUpTo
<1>15. p.cursor = None => Tracks \ gone \subseteq heard \cup ToSet(p.tracks)
  BY <1>10, <1>14
<1>16. ASSUME p.cursor # None
       PROVE  HadUpTo(heard \cup ToSet(p.tracks), p.cursor, x, Tracks \ gone)
  <2>1. PICK e : e = p.cursor.after
    OBVIOUS
  <2>2. p.cursor.anchor = a /\ e \in left /\ e \in Tracks /\ FollowsInRing(c, e)
    BY <1>9, <1>10, <1>16, <2>1
  <2>3. \A t \in left : t \in ToSet(p.tracks) <=> Distance(a, t) <= Distance(a, e)
    BY <1>10, <1>16, <2>1
  <2>4. ASSUME NEW t \in heard \ {x} PROVE Distance(a, t) <= Distance(a, e)
    <3>1. cycle.cursor # None /\ Distance(a, t) <= Distance(a, c.after)
      BY <1>11
    <3>2. c.after \in Tracks /\ t \in Tracks /\ c.after # None
      BY <1>3, <1>5, <3>1, Library
    <3>3. Distance(a, e) > Distance(a, c.after)
      BY <1>2, <2>2, <3>2 DEF FollowsInRing
    <3>4. Distance(a, t) \in Int /\ Distance(a, e) \in Int /\ Distance(a, c.after) \in Int
      BY <1>7, <2>2, <3>2
    <3> QED
      BY <3>1, <3>3, <3>4
  <2>5. \A t \in ToSet(p.tracks) : Distance(a, t) <= Distance(a, e)
    BY <1>10, <2>3
  <2>6. \A t \in (heard \cup ToSet(p.tracks)) \ {x} : Distance(a, t) <= Distance(a, e)
    BY <2>4, <2>5
  <2>7. \A t \in Tracks \ gone : Distance(a, t) <= Distance(a, e)
                                     => t \in heard \cup ToSet(p.tracks)
    BY <1>14, <2>3
  <2> QED
    BY <2>1, <2>2, <2>6, <2>7 DEF HadUpTo
<1> QED
  BY <1>1, <1>10, <1>13, <1>15, <1>16

\* What the answer to a shuffle request does: a page of the ring follows the compacted
\* queue, it has nothing that the cycle has had, and it moves only the one who waits.
LEMMA RingArrives ==
    ASSUME Inv, shuffle, idx > 0, ~cycle.complete, NEW c \in Starts(cycle.cursor),
           NEW p, p = ShufflePage(c, cycle.excluded), ShuffleArrives(p)
    PROVE  /\ QueueOK(queue', idx', history', shuffle) /\ idx' > 0 /\ playing' \in BOOLEAN
           /\ \A t \in ToSet(queue') : t \in ToSet(queue) \/ t \in ToSet(p.tracks)
           /\ cycle' \in Cycle /\ cycle'.cursor = p.cursor /\ cycle'.excluded = cycle.excluded
           /\ cycle'.complete = (p.cursor = None)
           /\ heard' = heard \cup ToSet(p.tracks)
           /\ \/ pending' = None /\ retry' = None
              \/ /\ pending' = pending /\ idx' = Len(queue')
                 /\ pending = context /\ retry' = context /\ ~cycle'.complete
           /\ \/ queue'[idx'] = Current /\ (playing' => playing)
              \/ /\ pending = context /\ playing' /\ idx' > 1
                 /\ queue'[idx' - 1] = Current /\ queue'[idx'] \in ToSet(p.tracks)
<1>1. /\ p.tracks \in Seq(Tracks) /\ IsInjective(p.tracks)
      /\ ToSet(p.tracks) \cap heard = {} /\ p.cursor \in Ring \cup {None}
  BY RingAnswer
<1>2. ToSet(queue) \subseteq heard
  BY DEF Inv, Cycling
<1>3. PICK fresh : fresh = Keep(p.tracks, Tracks \ ToSet(queue))
  OBVIOUS
<1>4. /\ fresh \in Seq(Tracks) /\ IsInjective(fresh)
      /\ ToSet(fresh) = ToSet(p.tracks) /\ ToSet(queue) \cap ToSet(fresh) = {}
  <2>1. ToSet(p.tracks) \subseteq Tracks
    BY <1>1, Elements
  <2>2. /\ fresh \in Seq(Tracks) /\ IsInjective(fresh)
        /\ ToSet(fresh) = ToSet(p.tracks) \cap (Tracks \ ToSet(queue))
    BY <1>1, <1>3, Sieved
  <2> QED
    BY <1>1, <1>2, <2>1, <2>2
<1>5. PICK k : k = Compacted(queue, idx, history)
  OBVIOUS
<1>6. PICK q : q = k.queue \o fresh
  OBVIOUS
<1>7. /\ QueueOK(q, k.idx, k.history, shuffle)
      /\ k.idx \in Nat /\ k.idx > 0 /\ q[k.idx] = Current
      /\ ToSet(queue) \cup ToSet(fresh) = k.dropped \cup ToSet(q)
      /\ k.idx = Len(k.queue) <=> idx = Len(queue)
      /\ fresh = <<>> => Len(q) = Len(k.queue)
      /\ fresh # <<>> /\ idx = Len(queue) => k.idx < Len(q) /\ q[k.idx + 1] \in ToSet(fresh)
  BY <1>4, <1>5, <1>6, Followed
<1>8. /\ cycle' = [cycle EXCEPT !.cursor = p.cursor, !.complete = (p.cursor = None),
                                !.hasTracks = cycle.hasTracks \/ fresh # <<>>]
      /\ heard' = heard \cup ToSet(fresh)
      /\ \/ /\ ShouldAdvance(k, fresh)
            /\ MoveTo(q, k.idx + 1, Append(k.history, k.idx)) /\ retry' = None
         \/ /\ ~ShouldAdvance(k, fresh)
            /\ queue' = q /\ idx' = k.idx /\ history' = k.history
            /\ retry' = (IF pending = context /\ p.cursor # None THEN context ELSE None)
            /\ pending' = (IF pending = context /\ p.cursor = None THEN None ELSE pending)
            /\ ResumeNext(request, playing /\ ~(pending = context /\ p.cursor = None))
  BY <1>3, <1>5, <1>6 DEF ShuffleArrives
<1>9. /\ cycle' \in Cycle /\ cycle'.cursor = p.cursor /\ cycle'.excluded = cycle.excluded
      /\ cycle'.complete = (p.cursor = None)
  <2>1. cycle \in Cycle
    BY DEF Inv, CycleTyped
  <2>2. PICK had : had = (cycle.hasTracks \/ fresh # <<>>)
    OBVIOUS
  <2>3. PICK done : done = (p.cursor = None)
    OBVIOUS
  <2>4. had \in BOOLEAN /\ done \in BOOLEAN
    BY <2>2, <2>3
  <2>5. cycle' = [cycle EXCEPT !.cursor = p.cursor, !.complete = done, !.hasTracks = had]
    BY <1>8, <2>2, <2>3
  <2> QED
    BY <1>1, <2>1, <2>3, <2>4, <2>5 DEF Cycle
<1>10. /\ pending \in {None, context} /\ context # None
       /\ (pending # None => idx = Len(queue)) /\ playing \in BOOLEAN
  BY Library DEF Inv, WaitAtEnd, Flags
<1>11. CASE /\ ShouldAdvance(k, fresh)
            /\ MoveTo(q, k.idx + 1, Append(k.history, k.idx)) /\ retry' = None
  <2>1. pending = context /\ fresh # <<>> /\ idx = Len(queue)
    BY <1>7, <1>11 DEF ShouldAdvance
  <2>2. /\ queue' = q /\ idx' = k.idx + 1 /\ history' = Append(k.history, k.idx)
        /\ playing' = TRUE /\ pending' = None
    BY <1>11 DEF MoveTo
  <2>3. k.idx < Len(q) /\ q[k.idx + 1] \in ToSet(p.tracks)
    BY <1>4, <1>7, <2>1
  <2>4. QueueOK(q, k.idx + 1, Append(k.history, k.idx), shuffle)
    <3>1. PICK i, h : i = k.idx /\ h = k.history
      OBVIOUS
    <3>2. QueueOK(q, i, h, shuffle) /\ i > 0 /\ i < Len(q)
      BY <1>7, <2>3, <3>1
    <3>3. QueueOK(q, i + 1, Append(h, i), shuffle)
      BY <3>2, Advanced
    <3> QED
      BY <3>1, <3>3
  <2>5. k.idx + 1 > 1 /\ k.idx + 1 > 0 /\ (k.idx + 1) - 1 = k.idx
    BY <1>7
  <2>6. queue'[idx' - 1] = Current /\ queue'[idx'] \in ToSet(p.tracks)
    BY <1>7, <2>2, <2>3, <2>5
  <2>7. QueueOK(queue', idx', history', shuffle) /\ idx' > 0 /\ idx' > 1
    BY <2>2, <2>4, <2>5
  <2>8. \A t \in ToSet(queue') : t \in ToSet(queue) \/ t \in ToSet(p.tracks)
    BY <1>4, <1>7, <2>2
  <2> QED
    BY <1>4, <1>8, <1>9, <1>11, <2>1, <2>2, <2>6, <2>7, <2>8
<1>12. CASE /\ ~ShouldAdvance(k, fresh)
            /\ queue' = q /\ idx' = k.idx /\ history' = k.history
            /\ retry' = (IF pending = context /\ p.cursor # None THEN context ELSE None)
            /\ pending' = (IF pending = context /\ p.cursor = None THEN None ELSE pending)
            /\ ResumeNext(request, playing /\ ~(pending = context /\ p.cursor = None))
  <2>1. playing' \in BOOLEAN /\ (playing' => playing)
    BY <1>12 DEF ResumeNext
  <2>2. \/ pending' = None /\ retry' = None
        \/ /\ pending' = pending /\ idx' = Len(queue')
           /\ pending = context /\ retry' = context /\ ~cycle'.complete
    <3>1. CASE pending = context /\ p.cursor # None
      <4>1. pending' = pending /\ retry' = context /\ ~cycle'.complete
        BY <1>9, <1>12, <3>1
      <4>2. idx = Len(queue) /\ k.idx = Len(k.queue)
        BY <1>7, <1>10, <3>1
      <4>3. fresh = <<>>
        BY <1>12, <3>1, <4>2 DEF ShouldAdvance
      <4>4. idx' = Len(queue')
        BY <1>7, <1>12, <4>2, <4>3
      <4> QED
        BY <3>1, <4>1, <4>4
    <3>2. CASE pending = context /\ p.cursor = None
      BY <1>12, <3>2
    <3>3. CASE pending # context
      BY <1>10, <1>12, <3>3
    <3> QED
      BY <3>1, <3>2, <3>3
  <2>3. \A t \in ToSet(queue') : t \in ToSet(queue) \/ t \in ToSet(p.tracks)
    BY <1>4, <1>7, <1>12
  <2>4. queue'[idx'] = Current /\ QueueOK(queue', idx', history', shuffle) /\ idx' > 0
    BY <1>7, <1>12
  <2> QED
    BY <1>4, <1>8, <1>9, <2>1, <2>2, <2>3, <2>4
<1> QED
  BY <1>8, <1>11, <1>12

\* A shuffle answer takes the cycle on from its cursor, or ends it.
LEMMA ShuffleAnsweredInv == ASSUME Inv, ~dirty, ShuffleAnswered PROVE Inv'
<1>1. shuffle /\ idx > 0 /\ ~cycle.complete
  BY DEF Inv, Asking, ShuffleAnswered
<1>2. PICK c \in Starts(cycle.cursor) : ShuffleArrives(ShufflePage(c, cycle.excluded))
  BY DEF ShuffleAnswered
<1>3. PICK p : p = ShufflePage(c, cycle.excluded)
  OBVIOUS
<1>4. ShuffleArrives(p)
  BY <1>2, <1>3
<1>5. /\ QueueOK(queue', idx', history', shuffle) /\ idx' > 0 /\ playing' \in BOOLEAN
      /\ \A t \in ToSet(queue') : t \in ToSet(queue) \/ t \in ToSet(p.tracks)
      /\ cycle' \in Cycle /\ cycle'.cursor = p.cursor /\ cycle'.excluded = cycle.excluded
      /\ cycle'.complete = (p.cursor = None)
      /\ heard' = heard \cup ToSet(p.tracks)
      /\ \/ pending' = None /\ retry' = None
         \/ /\ pending' = pending /\ idx' = Len(queue')
            /\ pending = context /\ retry' = context /\ ~cycle'.complete
  BY <1>1, <1>3, <1>4, RingArrives
<1>6. /\ p.tracks \in Seq(Tracks)
      /\ p.cursor = None => Tracks \ gone \subseteq heard \cup ToSet(p.tracks)
      /\ p.cursor # None => HadUpTo(heard \cup ToSet(p.tracks), p.cursor, cycle.excluded,
                                    Tracks \ gone)
  BY <1>1, <1>3, RingAnswer
<1>7. /\ UNCHANGED <<context, shuffle, preQueue, preCont, stale, cont, page, gone, behind>>
      /\ request' = None /\ Rerender
  BY <1>4 DEF ShuffleArrives, contVars
<1>8. Asked' /\ dirty' \in BOOLEAN
  BY <1>7, Rerendered DEF Inv
<1>9. QueueOK(queue', idx', history', shuffle')
  BY <1>5, <1>7
<1>10. Flags'
  BY <1>5, <1>7, <1>8 DEF Inv, Flags
<1>11. WaitAtEnd'
  BY <1>5, <1>7 DEF Inv, WaitAtEnd
<1>12. cycle.excluded \in Tracks /\ cycle.excluded \in heard
       /\ ToSet(queue) \subseteq heard /\ heard \subseteq Tracks
  BY <1>1 DEF Inv, CycleTyped, Cycling
<1>13. CycleTyped'
  BY <1>5, <1>12 DEF CycleTyped
<1>14. SavedOK' /\ ContOK'
  BY <1>7 DEF Inv, SavedOK, ContOK
<1>15. RequestsOK' /\ Asking'
  BY <1>7 DEF Inv, RequestsOK, RequestOK, Asking
<1>16. Waiting'
  BY <1>1, <1>5, <1>7 DEF Waiting, WaitHasAnswer
<1>17. Cycling'
  <2>1. ToSet(p.tracks) \subseteq Tracks
    BY <1>6, Elements
  <2>2. ToSet(queue') \subseteq heard' /\ heard' \subseteq Tracks /\ cycle'.excluded \in heard'
    BY <1>5, <1>12, <2>1
  <2>3. cycle'.complete => cycle'.cursor = None /\ Tracks \ gone' \subseteq heard'
    BY <1>5, <1>6, <1>7
  <2>4. ~cycle'.complete => cycle'.cursor # None
    BY <1>5
  <2>5. cycle'.cursor # None
            => HadUpTo(heard', cycle'.cursor, cycle'.excluded, Tracks \ gone')
    BY <1>5, <1>6, <1>7
  <2> QED
    BY <2>2, <2>3, <2>4, <2>5 DEF Cycling
<1>18. Unskipped'
  BY <1>1, <1>7 DEF Inv, Unskipped
<1> QED
  BY <1>8, <1>9, <1>10, <1>11, <1>13, <1>14, <1>15, <1>16, <1>17, <1>18 DEF Inv

\* Next, from a queue that has a current track, for a caller that waits or not.
LEMMA NextTrackInv ==
    ASSUME Inv, ~dirty, NEW w \in SUBSET Tracks, NextTrack(w)
    PROVE  Inv'
<1>1. /\ idx > 0
      /\ \/ NextQueued \/ NextOfList \/ NextOfNothing \/ NextCycle(w) \/ NextOfCycle(w)
  BY DEF NextTrack
<1>2. CASE NextQueued
  BY <1>1, <1>2, NextQueuedInv
<1>3. CASE NextOfList
  BY <1>1, <1>3, NextOfListInv
<1>4. CASE NextOfNothing
  BY <1>1, <1>4, NextOfNothingInv
<1>5. CASE NextCycle(w)
  BY <1>1, <1>5, NextCycleInv
<1>6. CASE NextOfCycle(w)
  BY <1>1, <1>6, NextOfCycleInv
<1> QED
  BY <1>1, <1>2, <1>3, <1>4, <1>5, <1>6

\* What the user does.
LEMMA UserActsInv == ASSUME Inv, ~dirty, UserActs PROVE Inv'
<1>1. CASE \E s \in DOMAIN Lists : \E n, k \in DOMAIN Lists[s] : HandlePlay(s, n, k)
  BY <1>1, HandlePlayInv
<1>2. CASE TogglePlayback
  BY <1>2, TogglePlaybackInv
<1>3. CASE PressNext
  <2>1. {} \in SUBSET Tracks
    OBVIOUS
  <2> QED
    BY <1>3, <2>1, NextTrackInv DEF PressNext
<1>4. CASE Previous
  BY <1>4, PreviousInv
<1>5. CASE SetShuffleOn
  BY <1>5, SetShuffleOnInv
<1>6. CASE SetShuffleOff
  BY <1>6, SetShuffleOffInv
<1>7. CASE ClearSession
  BY <1>7, ClearSessionInv
<1> QED
  BY <1>1, <1>2, <1>3, <1>4, <1>5, <1>6, <1>7 DEF UserActs

\* What the server answers.
LEMMA AnswersInv == ASSUME Inv, ~dirty, ListAnswers \/ RingAnswers PROVE Inv'
<1>1. CASE PageArrives
  BY <1>1, PageArrivesInv
<1>2. CASE \E retryable \in BOOLEAN : PageFails(retryable)
  BY <1>2, PageFailsInv
<1>3. CASE ShuffleAnswered
  BY <1>3, ShuffleAnsweredInv
<1>4. CASE StaleAnswered
  BY <1>4, StaleAnsweredInv
<1>5. CASE \E retryable \in BOOLEAN : ShuffleFails(retryable)
  BY <1>5, ShuffleFailsInv
<1> QED
  BY <1>1, <1>2, <1>3, <1>4, <1>5 DEF ListAnswers, RingAnswers

\* The end of the current track.
LEMMA HandleTrackEndedInv == ASSUME Inv, ~dirty, HandleTrackEnded PROVE Inv'
<1>1. PICK w : w = {Current}
  OBVIOUS
<1>2. NextTrack(w) /\ idx > 0
  BY <1>1 DEF HandleTrackEnded, NextTrack
<1>3. w \in SUBSET Tracks
  BY <1>1, <1>2, CurrentTrack DEF Inv
<1> QED
  BY <1>2, <1>3, NextTrackInv

\* Every step keeps the invariant.
LEMMA NextInv == ASSUME Inv, [Next]_vars PROVE Inv'
<1>1. CASE QueueContinuationEffect
  BY <1>1, EffectInv
<1>2. CASE ~dirty /\ UserActs
  BY <1>2, UserActsInv
<1>3. CASE ~dirty /\ HandleTrackEnded
  BY <1>3, HandleTrackEndedInv
<1>4. CASE ~dirty /\ HandlePlaybackError
  BY <1>4, HandlePlaybackErrorInv
<1>5. CASE ~dirty /\ (ListAnswers \/ RingAnswers)
  BY <1>5, AnswersInv
<1>6. CASE ~dirty /\ PageRetry
  BY <1>6, PageRetryInv
<1>7. CASE ~dirty /\ PrefetchShuffle
  BY <1>7, PrefetchShuffleInv
<1>8. CASE ~dirty /\ ShuffleRetry
  BY <1>8, ShuffleRetryInv
<1>9. CASE ~dirty /\ Reload
  BY <1>9, ReloadInv
<1>10. CASE ~dirty /\ TracksRemoved
  BY <1>10, TracksRemovedInv
<1>11. CASE UNCHANGED vars
  <2>1. /\ UNCHANGED <<queue, idx, history, playing, context, pending, shuffleVars, request,
                       stale, retry, contVars, dirty, gone, ghostVars>>
        /\ UNCHANGED <<shuffle, cycle, cont, page>>
    BY <1>11 DEF vars, queueVars, askVars, shuffleVars, contVars
  <2>2. playing' \in BOOLEAN
    BY <2>1 DEF Inv, Flags
  <2>3. RequestsOK' /\ WaitAtEnd' /\ Asking'
    BY <2>1 DEF Inv, RequestsOK, WaitAtEnd, Asking
  <2>4. Waiting'
    BY <2>1 DEF Inv, Waiting, WaitHasAnswer, CanWaitForQueueContinuation
  <2> QED
    BY <2>1, <2>2, <2>3, <2>4, StillInv
<1> QED
  BY <1>1, <1>2, <1>3, <1>4, <1>5, <1>6, <1>7, <1>8, <1>9, <1>10, <1>11 DEF Next

---------------------------------------------------------------------------
(* What holds in every state *)

\* The inductive invariant holds in every state of the player.
THEOREM Invariance == Spec => []Inv
  BY InitInv, NextInv, PTL DEF Spec

\* Queues have no track twice, the history runs up to the current track, and a wait for
\* the next track is at the end of the queue.
THEOREM TypeCorrect == Spec => []TypeOK
<1>1. ASSUME Inv PROVE TypeOK
  <2>1. /\ queue \in Seq(Tracks) /\ IsInjective(queue)
        /\ idx \in 0..Len(queue) /\ (idx = 0 <=> queue = <<>>)
        /\ (history # <<>> => shuffle)
    BY <1>1 DEF Inv, QueueOK
  <2>2. \A k \in DOMAIN history : history[k] = idx - Len(history) + k - 1 /\ history[k] > 0
    BY <1>1, LenProperties DEF Inv, QueueOK
  <2>3. /\ context \in 0..MaxContexts /\ pending \in {None, context}
        /\ retry \in {None, context}
        /\ (pending # None => idx = Len(queue) /\ idx > 0)
    BY <1>1 DEF Inv, WaitAtEnd
  <2>4. playing \in BOOLEAN /\ shuffle \in BOOLEAN /\ dirty \in BOOLEAN /\ gone \subseteq Tracks
    BY <1>1 DEF Inv, Flags
  <2>5. CursorOK(cycle.cursor) /\ (shuffle /\ idx > 0 => cycle.excluded \in Tracks)
    <3>1. cycle.cursor \in Ring \cup {None}
      BY <1>1 DEF Inv, CycleTyped, Cycle
    <3>2. \A c \in Ring : DOMAIN c = {"anchor", "after"} /\ c.anchor \in Tracks /\ c.after \in Tracks
      BY DEF Ring
    <3> QED
      BY <1>1, <3>1, <3>2 DEF CursorOK, Inv, CycleTyped
  <2>6. /\ preQueue \in Seq(Tracks) /\ IsInjective(preQueue)
        /\ (preCont # None => shuffle /\ preCont.source \in DOMAIN Lists)
    BY <1>1 DEF Inv, SavedOK, Continues, Cont
  <2>7. RequestOK(request) /\ RequestOK(stale)
    BY <1>1 DEF Inv, RequestsOK
  <2>8. /\ cont.source \in DOMAIN Lists \cup {None} /\ cont.context \in Nat \cup {None}
        /\ page.state \in {"none", "sent", "waiting"} /\ page.context \in Nat \cup {None}
    BY <1>1 DEF Inv, ContOK, Continues, Cont, Page
  <2> QED
    BY <2>1, <2>2, <2>3, <2>4, <2>5, <2>6, <2>7, <2>8 DEF TypeOK
<1> QED
  BY <1>1, Invariance, PTL

\* No track of a list is skipped: the cursor of a continuation never runs ahead of what
\* its queue holds, through late pages, compaction, reloads and shuffle in between.
THEOREM NothingSkippedHolds == Spec => []NothingSkipped
<1>1. ASSUME Inv PROVE NothingSkipped
  <2>1. Unskipped
    BY <1>1 DEF Inv
  <2> QED
    BY <2>1 DEF Unskipped, CoveredBy, NothingSkipped, Covers
<1> QED
  BY <1>1, Invariance, PTL

\* A shuffle cycle is only complete when every track of the library was in it.
THEOREM WholeCycleHolds == Spec => []WholeCycle
<1>1. Inv => WholeCycle
  BY DEF Inv, Cycling, WholeCycle
<1> QED
  BY <1>1, Invariance, PTL

\* Whoever waits for the next track waits for a request, a retry or a page that is there
\* or about to be asked for.
THEOREM WaitHasAnswerHolds == Spec => []WaitHasAnswer
<1>1. Inv => WaitHasAnswer
  BY DEF Inv, Waiting
<1> QED
  BY <1>1, Invariance, PTL

---------------------------------------------------------------------------
(* What a step may never do *)

\* Only the answer to a shuffle request brings tracks into a shuffle queue that goes on,
\* and none that the cycle has had.
LEMMA StepRepeatsNothing ==
    ASSUME Inv, [Next]_vars
    PROVE  [shuffle /\ context' = context
               => (ToSet(queue') \ ToSet(queue)) \cap heard = {}]_vars
<1> SUFFICES ASSUME shuffle, context' = context
             PROVE  \A t \in ToSet(queue') : t \in ToSet(queue) \/ t \notin heard
  OBVIOUS
<1>1. context \in Nat
  BY Library DEF Inv, WaitAtEnd
<1>2. context' # context + 1
  BY <1>1
<1>3. CASE queue' = queue
  BY <1>3
<1>4. CASE QueueContinuationEffect \/ HandlePlaybackError \/ PageRetry
           \/ PrefetchShuffle \/ ShuffleRetry \/ TracksRemoved \/ StaleAnswered
  <2>1. queue' = queue
    BY <1>4 DEF QueueContinuationEffect, HandlePlaybackError, PageRetry, PrefetchShuffle,
                ShuffleRetry, TracksRemoved, StaleAnswered, queueVars
  <2> QED
    BY <2>1
<1>5. CASE \/ \E retryable \in BOOLEAN : PageFails(retryable)
           \/ \E retryable \in BOOLEAN : ShuffleFails(retryable)
  <2>1. queue' = queue
    BY <1>5 DEF PageFails, ShuffleFails
  <2> QED
    BY <2>1
<1>6. ASSUME NEW w, NextTrack(w)
      PROVE  \A t \in ToSet(queue') : t \in ToSet(queue) \/ t \notin heard
  <2>1. CASE NextCycle(w)
    <3>1. idx > 0
      BY <1>6 DEF NextTrack
    <3>2. Current \in Tracks /\ Current \in ToSet(queue)
      BY <3>1, CurrentTrack DEF Inv
    <3>3. PICK t : t = Current
      OBVIOUS
    <3>4. queue' = <<t>>
      BY <2>1, <3>3 DEF NextCycle
    <3>5. ToSet(<<t>>) = {t}
      BY <3>2, <3>3, Single
    <3> QED
      BY <3>2, <3>3, <3>4, <3>5
  <2>2. CASE NextQueued \/ NextOfList \/ NextOfNothing \/ NextOfCycle(w)
    <3>1. queue' = queue
      BY <2>2 DEF NextQueued, NextOfList, NextOfNothing, NextOfCycle, MoveTo
    <3> QED
      BY <3>1
  <2> QED
    BY <1>6, <2>1, <2>2 DEF NextTrack
<1>7. CASE UserActs
  <2>1. CASE \E s \in DOMAIN Lists : \E n, k \in DOMAIN Lists[s] : HandlePlay(s, n, k)
    BY <1>2, <2>1 DEF HandlePlay, NewContext
  <2>2. CASE SetShuffleOn \/ SetShuffleOff
    BY <1>2, <2>2 DEF SetShuffleOn, SetShuffleOff, NewContext
  <2>3. CASE PressNext
    BY <1>6, <2>3 DEF PressNext
  <2>4. CASE TogglePlayback \/ Previous \/ ClearSession
    <3>1. queue' = queue
      BY <2>4 DEF TogglePlayback, Previous, ClearSession, MoveTo
    <3> QED
      BY <3>1
  <2> QED
    BY <1>7, <2>1, <2>2, <2>3, <2>4 DEF UserActs
<1>8. CASE ~dirty /\ PageArrives
  BY <1>8, PageAnswer
<1>9. CASE ShuffleAnswered
  <2>1. idx > 0 /\ ~cycle.complete
    BY <1>9 DEF Inv, Asking, ShuffleAnswered
  <2>2. PICK c \in Starts(cycle.cursor) : ShuffleArrives(ShufflePage(c, cycle.excluded))
    BY <1>9 DEF ShuffleAnswered
  <2>3. PICK p : p = ShufflePage(c, cycle.excluded)
    OBVIOUS
  <2>4. \A t \in ToSet(queue') : t \in ToSet(queue) \/ t \in ToSet(p.tracks)
    BY <2>1, <2>2, <2>3, RingArrives
  <2>5. ToSet(p.tracks) \cap heard = {}
    BY <2>1, <2>3, RingAnswer
  <2> QED
    BY <2>4, <2>5
<1>10. CASE Reload
  BY <1>10, ReloadedQueue
<1>11. CASE HandleTrackEnded
  BY <1>6, <1>11 DEF HandleTrackEnded
<1>12. UNCHANGED vars => queue' = queue
  BY DEF vars, queueVars
<1> QED
  BY <1>3, <1>4, <1>5, <1>7, <1>8, <1>9, <1>10, <1>11, <1>12
     DEF Next, ListAnswers, RingAnswers

\* A shuffle cycle never offers a track twice, although its queue forgets.
THEOREM NoRepeatHolds == Spec => NoRepeat
<1>1. Inv /\ [Next]_vars => [shuffle /\ context' = context
                                => (ToSet(queue') \ ToSet(queue)) \cap heard = {}]_vars
  BY StepRepeatsNothing
<1> QED
  BY <1>1, Invariance, PTL DEF Spec, NoRepeat

\* The current track, after a step that leaves one.
LEMMA CurrentAfter == ASSUME idx' > 0 PROVE Current' = queue'[idx']
BY DEF Current

\* An answer moves the player only for the one who waits for it, and by one track.
LEMMA StepAdvancesOnce ==
    ASSUME Inv, [Next]_vars
    PROVE  [ListAnswers \/ RingAnswers =>
               \/ Current' = Current /\ (playing' => playing)
               \/ /\ pending = context /\ playing' /\ idx' > 1
                  /\ queue'[idx' - 1] = Current /\ Current' \notin ToSet(queue)]_vars
<1>1. CASE UNCHANGED <<queue, idx>> /\ (playing' => playing)
  <2>1. Current' = Current
    BY <1>1 DEF Current
  <2> QED
    BY <1>1, <2>1
<1>2. CASE dirty
  <2>1. QueueContinuationEffect \/ UNCHANGED vars
    BY <1>2 DEF Next
  <2>2. UNCHANGED <<queue, idx>> /\ playing' = playing
    BY <2>1 DEF QueueContinuationEffect, vars, queueVars
  <2> QED
    BY <1>1, <2>2
<1>3. CASE ~dirty /\ PageArrives
  <2>1. PICK answer, tracks :
               /\ ~shuffle /\ idx > 0
               /\ tracks \in Seq(Tracks) /\ IsInjective(tracks)
               /\ ToSet(queue) \cap ToSet(tracks) = {}
               /\ \/ tracks # <<>> /\ AppendToQueue(tracks)
                  \/ /\ IF answer.cursor = None
                          THEN CancelPendingAdvance(context)
                          ELSE UNCHANGED <<retry, pending, playing>>
                     /\ UNCHANGED <<queue, idx, history, behind>>
    BY <1>3, PageAnswer
  <2>2. CASE tracks # <<>> /\ AppendToQueue(tracks)
    <3>1. /\ idx' > 0
          /\ \/ queue'[idx'] = Current /\ playing' = playing
             \/ /\ pending = context /\ playing' /\ idx' > 1
                /\ queue'[idx' - 1] = Current /\ queue'[idx'] \in ToSet(tracks)
      BY <2>1, <2>2, Appended
    <3> QED
      BY <2>1, <3>1, CurrentAfter
  <2>3. CASE /\ IF answer.cursor = None THEN CancelPendingAdvance(context)
                ELSE UNCHANGED <<retry, pending, playing>>
             /\ UNCHANGED <<queue, idx, history, behind>>
    <3>1. playing' => playing
      BY <2>3 DEF CancelPendingAdvance
    <3> QED
      BY <1>1, <2>3, <3>1
  <2> QED
    BY <2>1, <2>2, <2>3
<1>4. CASE \E retryable \in BOOLEAN : PageFails(retryable)
  <2>1. UNCHANGED <<queue, idx>> /\ (playing' => playing)
    BY <1>4 DEF PageFails, CancelPendingAdvance
  <2> QED
    BY <1>1, <2>1
<1>5. CASE ~dirty /\ ShuffleAnswered
  <2>1. shuffle /\ idx > 0 /\ ~cycle.complete
    BY <1>5 DEF Inv, Asking, ShuffleAnswered
  <2>2. PICK c \in Starts(cycle.cursor) : ShuffleArrives(ShufflePage(c, cycle.excluded))
    BY <1>5 DEF ShuffleAnswered
  <2>3. PICK p : p = ShufflePage(c, cycle.excluded)
    OBVIOUS
  <2>4. /\ idx' > 0
        /\ \/ queue'[idx'] = Current /\ (playing' => playing)
           \/ /\ pending = context /\ playing' /\ idx' > 1
              /\ queue'[idx' - 1] = Current /\ queue'[idx'] \in ToSet(p.tracks)
    BY <2>1, <2>2, <2>3, RingArrives
  <2>5. ToSet(p.tracks) \cap heard = {}
    BY <2>1, <2>3, RingAnswer
  <2>6. ToSet(queue) \subseteq heard
    BY <2>1 DEF Inv, Cycling
  <2> QED
    BY <2>4, <2>5, <2>6, CurrentAfter
<1>6. CASE StaleAnswered \/ \E retryable \in BOOLEAN : ShuffleFails(retryable)
  <2>1. UNCHANGED <<queue, idx>> /\ (playing' => playing)
    BY <1>6 DEF StaleAnswered, ShuffleFails, ResumeNext
  <2> QED
    BY <1>1, <2>1
<1> QED
  BY <1>2, <1>3, <1>4, <1>5, <1>6 DEF ListAnswers, RingAnswers

\* A late page or shuffle answer moves nothing and starts nothing, and one that is waited
\* for moves on by one track.
THEOREM AnswersAdvanceOnceHolds == Spec => AnswersAdvanceOnce
<1>1. Inv /\ [Next]_vars => [ListAnswers \/ RingAnswers =>
               \/ Current' = Current /\ (playing' => playing)
               \/ /\ pending = context /\ playing' /\ idx' > 1
                  /\ queue'[idx' - 1] = Current /\ Current' \notin ToSet(queue)]_vars
  BY StepAdvancesOnce
<1> QED
  BY <1>1, Invariance, PTL DEF Spec, AnswersAdvanceOnce

\* Neither a switch of shuffle nor a reload loses the current track.
LEMMA StepKeepsTrack ==
    ASSUME Inv, [Next]_vars
    PROVE  [(shuffle' # shuffle \/ Reload) /\ idx > 0 => Current' = Current]_vars
<1> SUFFICES ASSUME shuffle' # shuffle \/ Reload, idx > 0 PROVE Current' = Current
  OBVIOUS
<1>1. Current = queue[idx] /\ Current \in Tracks
  BY CurrentTrack DEF Inv
<1>2. CASE Reload
  <2>1. idx' > 0 /\ queue'[idx'] = queue[idx]
    BY <1>2, ReloadedQueue
  <2> QED
    BY <1>1, <2>1, CurrentAfter
<1>3. CASE SetShuffleOn
  <2>1. PICK t : t = Current
    OBVIOUS
  <2>2. queue' = <<t>> /\ idx' = 1
    BY <1>3, <2>1 DEF SetShuffleOn
  <2>3. <<t>>[1] = t /\ idx' > 0
    BY <2>2
  <2> QED
    BY <2>1, <2>2, <2>3, CurrentAfter
<1>4. CASE SetShuffleOff
  <2>1. PICK r, m : r = Restored /\ m = RestoredIndex
    OBVIOUS
  <2>2. r \in Seq(Tracks) /\ r # <<>> /\ m \in 1..Len(r) /\ r[m] = Current
    BY <2>1, RestoredQueue
  <2>3. queue' = r /\ idx' = m
    BY <1>4, <2>1, <2>2 DEF SetShuffleOff
  <2>4. idx' > 0
    BY <2>2, <2>3, LenProperties
  <2> QED
    BY <2>2, <2>3, <2>4, CurrentAfter
<1>5. CASE shuffle' = shuffle
  BY <1>2, <1>5
<1>6. UNCHANGED vars => shuffle' = shuffle
  BY DEF vars, shuffleVars
<1>7. UserActs => SetShuffleOn \/ SetShuffleOff \/ shuffle' = shuffle
  BY DEF UserActs, HandlePlay, TogglePlayback, PressNext, NextTrack, NextQueued, NextOfList,
         NextOfNothing, NextCycle, NextOfCycle, Previous, ClearSession, shuffleVars
<1>8. HandleTrackEnded => shuffle' = shuffle
  BY DEF HandleTrackEnded, NextTrack, NextQueued, NextOfList, NextOfNothing, NextCycle,
         NextOfCycle, shuffleVars
<1>9. ListAnswers \/ RingAnswers => shuffle' = shuffle
  BY DEF ListAnswers, RingAnswers, PageArrives, PageFails, ShuffleAnswered, ShuffleArrives,
         StaleAnswered, ShuffleFails, shuffleVars
<1>10. QueueContinuationEffect \/ HandlePlaybackError \/ PageRetry \/ PrefetchShuffle
           \/ ShuffleRetry \/ TracksRemoved
               => shuffle' = shuffle
  BY DEF QueueContinuationEffect, HandlePlaybackError, PageRetry, PrefetchShuffle,
         ShuffleRetry, TracksRemoved, shuffleVars
<1> QED
  BY <1>2, <1>3, <1>4, <1>5, <1>6, <1>7, <1>8, <1>9, <1>10 DEF Next

\* Switching shuffle on or off and reloading the page keep the current track, at whatever
\* place it has in the new queue.
THEOREM TrackKeptHolds == Spec => TrackKept
<1>1. Inv /\ [Next]_vars
          => [(shuffle' # shuffle \/ Reload) /\ idx > 0 => Current' = Current]_vars
  BY StepKeepsTrack
<1> QED
  BY <1>1, Invariance, PTL DEF Spec, TrackKept
=============================================================================
