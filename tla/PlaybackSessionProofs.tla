------------------------ MODULE PlaybackSessionProofs ------------------------
(***************************************************************************)
(* Proofs about PlaybackSession, for any library, any kind of source, any  *)
(* page size and any number of overlapping manifest requests: its queue,   *)
(* its playlists, and that it implements EventPlaylist.                    *)
(***************************************************************************)
EXTENDS PlaybackSession, SequenceTheorems, FiniteSetTheorems, InductionLemmas

---------------------------------------------------------------------------
(* What the recursive helpers compute *)

\* Extend appends one item for each track.
Grows(f, q, tracks, cycle) ==
    /\ f[0] = q
    /\ \A n \in 1..Len(tracks) :
           f[n] = Append(f[n - 1], NextItem(f[n - 1], tracks[n], cycle))

\* The recursive function of Extend exists, and Extend is its last value.
LEMMA ExtendGrows ==
    ASSUME NEW q, NEW tracks, Len(tracks) \in Nat, NEW cycle
    PROVE  \E f : Grows(f, q, tracks, cycle) /\ Extend(q, tracks, cycle) = f[Len(tracks)]
<1> DEFINE N == Len(tracks)
           Step(r, n) == Append(r, NextItem(r, tracks[n], cycle))
           Eq(f, m) == f = [n \in 0..m |-> IF n = 0 THEN q ELSE Step(f[n - 1], n)]
           S == {m \in Nat : \E f : Eq(f, m)}
<1>1. 0 \in S
  <2> HIDE DEF Step
  <2> DEFINE f == [n \in 0..0 |-> q]
  <2>1. Eq(f, 0)
    OBVIOUS
  <2> QED
    BY <2>1
<1>2. ASSUME NEW m \in Nat, m \in S PROVE m + 1 \in S
  <2> HIDE DEF Step
  <2>1. PICK f : Eq(f, m)
    BY <1>2
  <2> DEFINE g == [n \in 0..(m + 1) |-> IF n = m + 1 THEN Step(f[m], n) ELSE f[n]]
  <2>2. \A n \in 0..m : f[n] = IF n = 0 THEN q ELSE Step(f[n - 1], n)
    BY <2>1
  <2>3. \A n \in 0..(m + 1) : g[n] = IF n = 0 THEN q ELSE Step(g[n - 1], n)
    BY <2>2
  <2>4. Eq(g, m + 1)
    BY <2>3
  <2>5. \E h : Eq(h, m + 1)
    <3> HIDE DEF Eq, g
    <3> QED
      BY <2>4
  <2> QED
    BY <2>5
<1>3. \E f : Eq(f, N)
  <2>1. N \in S
    <3> HIDE DEF S
    <3> QED
      BY <1>1, <1>2, NatSetInduction
  <2> HIDE DEF Eq
  <2> QED
    BY <2>1
<1> DEFINE h == CHOOSE f : Eq(f, N)
<1>4. Eq(h, N)
  <2> HIDE DEF Eq
  <2> QED
    BY <1>3
<1>5. Extend(q, tracks, cycle) = h[N]
  BY DEF Extend
<1>6. Grows(h, q, tracks, cycle)
  <2> HIDE DEF h
  <2>1. \A n \in 0..N : h[n] = IF n = 0 THEN q ELSE Step(h[n - 1], n)
    <3> HIDE DEF Step
    <3> QED
      BY <1>4
  <2>2. h[0] = q
    BY <2>1
  <2>3. ASSUME NEW n \in 1..N PROVE h[n] = Step(h[n - 1], n)
    <3>1. n \in 0..N /\ n # 0
      OBVIOUS
    <3> HIDE DEF Step
    <3> QED
      BY <2>1, <3>1
  <2> QED
    BY <2>2, <2>3 DEF Grows
<1> QED
  BY <1>5, <1>6

\* The elements of a set of tracks, in their order.
LEMMA SortedTracks ==
    ASSUME NEW S \in SUBSET Tracks
    PROVE  /\ Sorted(S) \in Seq(Tracks) /\ Len(Sorted(S)) \in Nat
           /\ \A i \in 1..Len(Sorted(S)) : Sorted(S)[i] \in S
           /\ \A i, j \in 1..Len(Sorted(S)) : i < j => Sorted(S)[i] < Sorted(S)[j]
           /\ \A t \in S : \E i \in 1..Len(Sorted(S)) : Sorted(S)[i] = t
<1> DEFINE s == [t \in Tracks |-> t]
           k == Keep(s, S)
<1>1. Cardinality(Tracks) \in Nat /\ Tracks = 1..Cardinality(Tracks)
  BY FS_CardinalityType, PlaybackConstants
<1>2. s \in Seq(Tracks) /\ Len(s) = Cardinality(Tracks)
  BY <1>1
<1> HIDE DEF s
<1>3. k \in Seq(Tracks) /\ \E g : Selects(g, k, s, Len(s), S)
  BY <1>2, Kept
<1>4. PICK g : Selects(g, k, s, Len(s), S)
  BY <1>3
<1>5. Sorted(S) = k
  BY DEF Sorted, s
<1>6. \A t \in Tracks : s[t] = t
  BY DEF s
<1> HIDE DEF k
<1>7. Len(k) \in Nat
  BY <1>3, LenProperties
<1>8. \A i \in 1..Len(k) : g[i] \in Tracks /\ k[i] = g[i] /\ k[i] \in S
  BY <1>1, <1>2, <1>4, <1>6, <1>7 DEF Selects
<1>9. \A i, j \in 1..Len(k) : i < j => k[i] < k[j]
  BY <1>4, <1>8 DEF Selects
<1>10. \A t \in S : \E i \in 1..Len(k) : k[i] = t
  BY <1>1, <1>2, <1>4, <1>6, <1>8 DEF Selects
<1> QED
  BY <1>3, <1>5, <1>7, <1>8, <1>9, <1>10

\* LastOf adds the elements of d from the last one backwards.
Adds(f, d, n) ==
    /\ f[0] = 0
    /\ \A k \in 1..n : f[k] = f[k - 1] + d[Len(d) - k + 1]

\* The recursive function of LastOf exists, and LastOf is its last value.
LEMMA LastOfAdds ==
    ASSUME NEW d, NEW n \in Nat
    PROVE  \E f : Adds(f, d, n) /\ LastOf(d, n) = f[n]
<1> DEFINE Step(r, k) == r + d[Len(d) - k + 1]
           Eq(f, m) == f = [k \in 0..m |-> IF k = 0 THEN 0 ELSE f[k - 1] + d[Len(d) - k + 1]]
           M == {m \in Nat : \E f : Eq(f, m)}
<1>1. 0 \in M
  <2> DEFINE f == [k \in 0..0 |-> 0]
  <2>1. Eq(f, 0)
    OBVIOUS
  <2> QED
    BY <2>1
<1>2. ASSUME NEW m \in Nat, m \in M PROVE m + 1 \in M
  <2>1. PICK f : Eq(f, m)
    BY <1>2
  <2> DEFINE g == [k \in 0..(m + 1) |-> IF k = m + 1 THEN Step(f[m], k) ELSE f[k]]
  <2>2. \A k \in 0..m : f[k] = IF k = 0 THEN 0 ELSE Step(f[k - 1], k)
    BY <2>1
  <2>3. \A k \in 0..(m + 1) : g[k] = IF k = 0 THEN 0 ELSE Step(g[k - 1], k)
    <3> HIDE DEF Step
    <3> QED
      BY <2>2
  <2>4. Eq(g, m + 1)
    BY <2>3
  <2>5. \E h : Eq(h, m + 1)
    <3> HIDE DEF Eq, g
    <3> QED
      BY <2>4
  <2> QED
    BY <2>5
<1>3. \E f : Eq(f, n)
  <2>1. n \in M
    <3> HIDE DEF M
    <3> QED
      BY <1>1, <1>2, NatSetInduction
  <2> HIDE DEF Eq
  <2> QED
    BY <2>1
<1> DEFINE h == CHOOSE f : Eq(f, n)
<1>4. Eq(h, n)
  <2> HIDE DEF Eq
  <2> QED
    BY <1>3
<1>5. LastOf(d, n) = h[n]
  BY DEF LastOf
<1>6. Adds(h, d, n)
  <2> HIDE DEF h
  <2>1. \A k \in 0..n : h[k] = IF k = 0 THEN 0 ELSE Step(h[k - 1], k)
    BY <1>4
  <2>2. h[0] = 0
    BY <2>1
  <2>3. ASSUME NEW k \in 1..n PROVE h[k] = Step(h[k - 1], k)
    <3>1. k \in 0..n /\ k # 0
      OBVIOUS
    <3> HIDE DEF Step
    <3> QED
      BY <2>1, <3>1
  <2> QED
    BY <2>2, <2>3 DEF Adds
<1> QED
  BY <1>5, <1>6

\* A sum of durations is a duration.
LEMMA LastOfType ==
    ASSUME NEW d \in Seq(Nat), NEW n \in 0..Len(d)
    PROVE  LastOf(d, n) \in Nat
<1>1. Len(d) \in Nat /\ n \in Nat
  BY LenProperties
<1>2. PICK f : Adds(f, d, n) /\ LastOf(d, n) = f[n]
  BY <1>1, LastOfAdds
<1> DEFINE M == {k \in 0..n : f[k] \in Nat}
<1>3. 0 \in M
  BY <1>1, <1>2 DEF Adds
<1>4. ASSUME NEW k \in 0..(n - 1), k \in M PROVE k + 1 \in M
  <2>1. k + 1 \in 1..n /\ Len(d) - (k + 1) + 1 \in 1..Len(d) /\ (k + 1) - 1 = k
    BY <1>1
  <2>2. f[k + 1] = f[k] + d[Len(d) - (k + 1) + 1]
    BY <1>2, <2>1 DEF Adds
  <2>3. d[Len(d) - (k + 1) + 1] \in Nat
    BY <2>1, ElementOfSeq
  <2>4. f[k] \in Nat
    BY <1>4
  <2>5. f[k + 1] \in Nat
    BY <2>2, <2>3, <2>4
  <2>6. k + 1 \in 0..n
    BY <2>1
  <2> QED
    BY <2>5, <2>6
<1>5. \A k \in 0..n : k \in M
  <2> HIDE DEF M
  <2> QED
    BY <1>1, <1>3, <1>4, IntervalInduction
<1> QED
  BY <1>1, <1>2, <1>5

\* FlattenSeq puts the sequences of ss one behind the other.
Joins(f, ss) ==
    /\ f[1] = ss[1]
    /\ \A i \in 2..Len(ss) : f[i] = f[i - 1] \o ss[i]

\* The recursive function of FlattenSeq exists, and FlattenSeq is its last value.
LEMMA FlattenJoins ==
    ASSUME NEW ss, Len(ss) \in Nat \ {0}
    PROVE  \E f : Joins(f, ss) /\ FlattenSeq(ss) = f[Len(ss)]
<1> DEFINE N == Len(ss)
           Step(r, i) == IF i = 1 THEN ss[i] ELSE r \o ss[i]
           Eq(f, m) == f = [i \in 1..m |-> IF i = 1 THEN ss[i] ELSE f[i - 1] \o ss[i]]
           M == {m \in Nat : \E f : Eq(f, m)}
<1>1. 0 \in M
  <2> DEFINE f == [i \in 1..0 |-> <<>>]
  <2>1. Eq(f, 0)
    OBVIOUS
  <2> QED
    BY <2>1
<1>2. ASSUME NEW m \in Nat, m \in M PROVE m + 1 \in M
  <2>1. PICK f : Eq(f, m)
    BY <1>2
  <2> DEFINE g == [i \in 1..(m + 1) |-> IF i = m + 1 THEN Step(f[m], i) ELSE f[i]]
  <2>2. \A i \in 1..m : f[i] = Step(f[i - 1], i)
    BY <2>1
  <2>3. \A i \in 1..(m + 1) : g[i] = Step(g[i - 1], i)
    <3> SUFFICES ASSUME NEW i \in 1..(m + 1) PROVE g[i] = Step(g[i - 1], i)
      OBVIOUS
    <3>1. CASE i = 1
      BY <2>2, <3>1
    <3>2. CASE i # 1
      <4>1. i - 1 \in 1..m /\ i - 1 # m + 1 /\ i - 1 \in 1..(m + 1)
        BY <3>2
      <4>2. g[i - 1] = f[i - 1]
        BY <4>1
      <4> HIDE DEF Step
      <4> QED
        BY <2>2, <4>1, <4>2
    <3> QED
      BY <3>1, <3>2
  <2>4. Eq(g, m + 1)
    BY <2>3
  <2>5. \E h : Eq(h, m + 1)
    <3> HIDE DEF Eq, g
    <3> QED
      BY <2>4
  <2> HIDE DEF Eq
  <2> QED
    BY <2>5
<1>3. \E f : Eq(f, N)
  <2>1. N \in M
    <3> HIDE DEF M
    <3> QED
      BY <1>1, <1>2, NatSetInduction
  <2> HIDE DEF Eq
  <2> QED
    BY <2>1
<1> DEFINE h == CHOOSE f : Eq(f, N)
<1>4. Eq(h, N)
  <2> HIDE DEF Eq
  <2> QED
    BY <1>3
<1>5. FlattenSeq(ss) = h[N]
  BY DEF FlattenSeq
<1>6. Joins(h, ss)
  <2> HIDE DEF h
  <2>1. \A i \in 1..N : h[i] = Step(h[i - 1], i)
    BY <1>4
  <2>2. h[1] = ss[1]
    BY <2>1
  <2>3. ASSUME NEW i \in 2..N PROVE h[i] = h[i - 1] \o ss[i]
    <3>1. i \in 1..N /\ i # 1
      OBVIOUS
    <3> QED
      BY <2>1, <3>1
  <2> QED
    BY <2>2, <2>3 DEF Joins
<1> QED
  BY <1>5, <1>6

\* w holds the first n sequences of ss, the i-th one after the place o[i].
Places(o, ss) ==
    /\ o[1] = 0
    /\ \A i \in 1..Len(ss) : o[i] \in Nat /\ o[i + 1] = o[i] + Len(ss[i])
Laid(w, T, ss, o, n) ==
    /\ w \in Seq(T) /\ Len(w) = o[n + 1]
    /\ \A i \in 1..n : \A k \in 1..Len(ss[i]) :
           o[i] + k \in 1..Len(w) /\ w[o[i] + k] = ss[i][k]

\* What FlattenSeq returns.
LEMMA Flattened ==
    ASSUME NEW T, NEW ss \in Seq(Seq(T)), NEW o, Places(o, ss)
    PROVE  Laid(FlattenSeq(ss), T, ss, o, Len(ss))
<1>1. Len(ss) \in Nat /\ \A i \in 1..Len(ss) : ss[i] \in Seq(T) /\ Len(ss[i]) \in Nat
  BY LenProperties, ElementOfSeq
<1>2. CASE Len(ss) = 0
  <2>1. FlattenSeq(ss) = <<>>
    BY <1>2, EmptySeq DEF FlattenSeq
  <2> QED
    BY <1>2, <2>1 DEF Laid, Places
<1>3. CASE Len(ss) # 0
  <2>1. PICK f : Joins(f, ss) /\ FlattenSeq(ss) = f[Len(ss)]
    BY <1>1, <1>3, FlattenJoins
  <2> DEFINE N == Len(ss) - 1
             M == {m \in 0..N : Laid(f[m + 1], T, ss, o, m + 1)}
  <2>2. N \in Nat /\ N + 1 = Len(ss) /\ 1 \in 1..Len(ss)
    BY <1>1, <1>3
  <2>3. 0 \in M
    <3>1. f[1] = ss[1] /\ o[1] = 0 /\ o[1 + 1] = o[1] + Len(ss[1]) /\ ss[1] \in Seq(T)
          /\ Len(ss[1]) \in Nat
      BY <1>1, <2>1, <2>2 DEF Joins, Places
    <3>2. Len(f[1]) = o[1 + 1]
      BY <3>1
    <3>3. \A k \in 1..Len(ss[1]) : o[1] + k = k
      BY <3>1
    <3>4. Laid(f[1], T, ss, o, 1)
      BY <3>1, <3>2, <3>3 DEF Laid
    <3> QED
      BY <2>2, <3>4
  <2>4. ASSUME NEW m \in 0..(N - 1), m \in M PROVE m + 1 \in M
    <3>1. PICK w : w = f[m + 1]
      OBVIOUS
    <3>2. PICK l : l = m + 2
      OBVIOUS
    <3>3. l \in 2..Len(ss) /\ l \in 1..Len(ss) /\ l - 1 = m + 1 /\ m + 1 \in Nat
          /\ (m + 1) + 1 = l
      BY <2>2, <3>2
    <3>4. PICK s : s = ss[l]
      OBVIOUS
    <3>5. PICK v : v = w \o s
      OBVIOUS
    <3>6. f[l] = v
      BY <2>1, <3>1, <3>3, <3>4, <3>5 DEF Joins
    <3>7. /\ w \in Seq(T) /\ Len(w) = o[l] /\ s \in Seq(T) /\ Len(s) \in Nat
          /\ o[l] \in Nat /\ o[l + 1] = o[l] + Len(s)
      BY <1>1, <2>4, <3>1, <3>3, <3>4 DEF Laid, Places
    <3>8. /\ v \in Seq(T) /\ Len(v) = Len(w) + Len(s)
          /\ \A i \in 1..(Len(w) + Len(s)) :
                 v[i] = IF i <= Len(w) THEN w[i] ELSE s[i - Len(w)]
      BY <3>5, <3>7, ConcatProperties
    <3>9. ASSUME NEW i \in 1..l, NEW k \in 1..Len(ss[i])
          PROVE  o[i] + k \in 1..Len(v) /\ v[o[i] + k] = ss[i][k]
      <4>1. CASE i = l
        <5>1. k \in 1..Len(s)
          BY <3>4, <4>1
        <5>2. o[l] + k \in 1..Len(v) /\ ~(o[l] + k <= Len(w)) /\ (o[l] + k) - Len(w) = k
          <6>1. Len(w) \in Nat /\ Len(w) = o[l] /\ Len(v) = Len(w) + Len(s) /\ Len(s) \in Nat
            BY <3>7, <3>8
          <6>2. PICK a \in Nat, b \in Nat : a = Len(w) /\ b = Len(s)
            BY <6>1
          <6>3. k \in 1..b
            BY <5>1, <6>2
          <6>4. a + k \in 1..(a + b) /\ ~(a + k <= a) /\ (a + k) - a = k
            BY <6>3
          <6> HIDE DEF M, N
          <6> QED
            BY <6>1, <6>2, <6>4
        <5>3. v[o[l] + k] = s[k]
          BY <3>8, <5>2
        <5> QED
          BY <3>4, <4>1, <5>2, <5>3
      <4>2. CASE i # l
        <5>1. i \in 1..(m + 1)
          BY <3>3, <4>2
        <5>2. o[i] + k \in 1..Len(w) /\ w[o[i] + k] = ss[i][k]
          BY <2>4, <3>1, <5>1 DEF Laid
        <5>3. o[i] + k \in 1..Len(v) /\ o[i] + k <= Len(w)
          <6>1. Len(w) \in Nat /\ Len(v) = Len(w) + Len(s) /\ Len(s) \in Nat
            BY <3>7, <3>8
          <6>2. PICK x : x = o[i] + k
            OBVIOUS
          <6> HIDE DEF M, N
          <6>3. x \in 1..Len(v) /\ x <= Len(w)
            BY <5>2, <6>1, <6>2
          <6> QED
            BY <6>2, <6>3
        <5> QED
          BY <3>8, <5>2, <5>3
      <4> QED
        BY <4>1, <4>2
    <3>10. Len(v) = o[l + 1]
      BY <3>7, <3>8
    <3>11. Laid(v, T, ss, o, l)
      BY <3>8, <3>9, <3>10 DEF Laid
    <3> QED
      BY <2>2, <3>3, <3>6, <3>11
  <2>5. \A m \in 0..N : m \in M
    <3> HIDE DEF M, N
    <3> QED
      BY <2>2, <2>3, <2>4, IntervalInduction
  <2>6. N \in M
    <3> HIDE DEF M, N
    <3> QED
      BY <2>2, <2>5
  <2> QED
    BY <2>1, <2>2, <2>6
<1> QED
  BY <1>2, <1>3

\* Every track has at least one segment, and its duration is a number.
LEMMA Assets ==
    ASSUME NEW t \in Tracks
    PROVE  Len(Segments[t]) \in Nat \ {0} /\ Duration[t] \in Nat
<1>1. Segments[t] \in Seq(Nat) /\ Segments[t] # <<>>
  BY PlaybackConstants
<1>2. Len(Segments[t]) \in Nat \ {0}
  BY <1>1, EmptySeq
<1>3. Sum(Segments[t]) \in Nat
  BY <1>1, <1>2, LastOfType DEF Sum
<1> QED
  BY <1>2, <1>3 DEF Duration

\* The next item is an item, and continues the sequence and the timeline.
LEMMA Followed ==
    ASSUME NEW q \in Seq(Item), NEW t \in Tracks, NEW cycle \in Nat
    PROVE  /\ NextItem(q, t, cycle) \in Item
           /\ NextItem(q, t, cycle).track = t /\ NextItem(q, t, cycle).cycle = cycle
           /\ q = <<>> => NextItem(q, t, cycle).first = 0 /\ NextItem(q, t, cycle).start = 0
           /\ q # <<>> => /\ NextItem(q, t, cycle).first
                                = q[Len(q)].first + Count(q[Len(q)])
                          /\ NextItem(q, t, cycle).start = EndOf(q[Len(q)])
<1>1. CASE q = <<>>
  BY <1>1 DEF NextItem, Item
<1>2. CASE q # <<>>
  <2>1. Len(q) \in Nat /\ Len(q) \in 1..Len(q)
    BY <1>2, EmptySeq
  <2>2. PICK z : z = q[Len(q)]
    OBVIOUS
  <2>3. z \in Item /\ z = Last(q)
    BY <2>1, <2>2, ElementOfSeq DEF Last
  <2>4. z.track \in Tracks /\ z.first \in Nat /\ z.start \in Nat
    BY <2>3 DEF Item
  <2>5. Count(z) \in Nat /\ EndOf(z) \in Nat
    BY <2>4, Assets DEF Count, EndOf
  <2>6. Total(q) = z.first + Count(z) /\ Total(q) \in Nat
    BY <2>3, <2>4, <2>5 DEF Total
  <2> QED
    BY <1>2, <2>2, <2>3, <2>5, <2>6 DEF NextItem, Item
<1> QED
  BY <1>1, <1>2

\* TimelineContiguous, of any queue.
Contiguous(q) ==
    \A i \in 1..Len(q) :
        /\ i = 1 => q[i].first = 0 /\ q[i].start = 0
        /\ i # 1 => /\ q[i].first = q[i - 1].first + Count(q[i - 1])
                    /\ q[i].start = EndOf(q[i - 1])

\* e is q with an item of cycle for each of the first n tracks.
Extends(e, q, tracks, n, cycle) ==
    /\ e \in Seq(Item) /\ Len(e) = Len(q) + n
    /\ \A i \in 1..Len(q) : e[i] = q[i]
    /\ \A k \in 1..n : e[Len(q) + k].track = tracks[k] /\ e[Len(q) + k].cycle = cycle
    /\ Contiguous(q) => Contiguous(e)

\* One more item.
LEMMA Appended ==
    ASSUME NEW q \in Seq(Item), NEW tracks \in Seq(Tracks),
           NEW cycle \in Nat, NEW n \in Nat, n + 1 \in 1..Len(tracks), NEW e,
           Extends(e, q, tracks, n, cycle)
    PROVE  Extends(Append(e, NextItem(e, tracks[n + 1], cycle)), q, tracks, n + 1, cycle)
<1>1. PICK t : t = tracks[n + 1]
  OBVIOUS
<1>2. PICK x : x = NextItem(e, t, cycle)
  OBVIOUS
<1>3. PICK g : g = Append(e, x)
  OBVIOUS
<1>4. /\ e \in Seq(Item) /\ Len(q) \in Nat /\ Len(e) = Len(q) + n /\ Len(e) \in Nat
      /\ t \in Tracks
  BY <1>1, LenProperties, ElementOfSeq DEF Extends
<1>5. /\ x \in Item /\ x.track = t /\ x.cycle = cycle
      /\ e = <<>> => x.first = 0 /\ x.start = 0
      /\ e # <<>> => x.first = e[Len(e)].first + Count(e[Len(e)]) /\ x.start = EndOf(e[Len(e)])
  <2>1. e \in Seq(Item) /\ t \in Tracks /\ cycle \in Nat
    BY <1>4
  <2> HIDE DEF Extends
  <2> QED
    BY <1>2, <2>1, Followed
<1>6. /\ g \in Seq(Item) /\ Len(g) = Len(e) + 1
      /\ \A i \in 1..Len(e) : g[i] = e[i]
      /\ g[Len(e) + 1] = x
  BY <1>3, <1>4, <1>5, AppendProperties
<1>7. \A i \in 1..Len(q) : i \in 1..Len(e) /\ e[i] = q[i]
  BY <1>4 DEF Extends
<1>8. ASSUME NEW k \in 1..(n + 1)
      PROVE  g[Len(q) + k].track = tracks[k] /\ g[Len(q) + k].cycle = cycle
  <2>1. CASE k = n + 1
    <3>1. Len(q) + k = Len(e) + 1
      BY <2>1, <1>4
    <3>2. g[Len(q) + k] = x
      BY <3>1, <1>6
    <3> QED
      BY <2>1, <3>2, <1>1, <1>5
  <2>2. CASE k # n + 1
    <3>1. k \in 1..n
      BY <2>2
    <3>2. Len(q) + k \in 1..Len(e)
      BY <1>4, <3>1
    <3> QED
      BY <1>6, <3>1, <3>2 DEF Extends
  <2> QED
    BY <2>1, <2>2
<1>9. ASSUME Contiguous(e) PROVE Contiguous(g)
  <2> SUFFICES ASSUME NEW i \in 1..Len(g)
               PROVE  /\ i = 1 => g[i].first = 0 /\ g[i].start = 0
                      /\ i # 1 => /\ g[i].first = g[i - 1].first + Count(g[i - 1])
                                  /\ g[i].start = EndOf(g[i - 1])
    BY DEF Contiguous
  <2>1. CASE i = Len(e) + 1
    <3>1. CASE e = <<>>
      <4>1. i = 1
        BY <2>1, <3>1
      <4> QED
        BY <1>5, <1>6, <2>1, <3>1, <4>1
    <3>2. CASE e # <<>>
      <4>1. Len(e) # 0
        BY <1>4, <3>2, EmptySeq
      <4>2. Len(e) \in 1..Len(e) /\ i # 1 /\ i - 1 = Len(e)
        BY <1>4, <2>1, <4>1
      <4> QED
        BY <1>5, <1>6, <2>1, <3>2, <4>2
    <3> QED
      BY <3>1, <3>2
  <2>2. CASE i # Len(e) + 1
    <3>1. i \in 1..Len(e)
      <4>1. Len(e) \in Nat /\ Len(g) = Len(e) + 1
        BY <1>4, <1>6
      <4>2. i \in 1..(Len(e) + 1)
        BY <4>1
      <4> QED
        BY <2>2, <4>1, <4>2
    <3>2. i # 1 => i - 1 \in 1..Len(e)
      BY <1>4, <3>1
    <3> QED
      BY <1>6, <1>9, <3>1, <3>2 DEF Contiguous
  <2> QED
    BY <2>1, <2>2
<1>10. Len(g) = Len(q) + (n + 1) /\ \A i \in 1..Len(q) : g[i] = q[i]
  BY <1>4, <1>6, <1>7
<1>11. Contiguous(q) => Contiguous(g)
  BY <1>9 DEF Extends
<1>12. Extends(g, q, tracks, n + 1, cycle)
  BY <1>6, <1>8, <1>10, <1>11 DEF Extends
<1> QED
  BY <1>1, <1>2, <1>3, <1>12

\* What Extend returns.
LEMMA Extended ==
    ASSUME NEW q \in Seq(Item), NEW tracks \in Seq(Tracks),
           NEW cycle \in Nat
    PROVE  Extends(Extend(q, tracks, cycle), q, tracks, Len(tracks), cycle)
<1>1. Len(tracks) \in Nat
  BY LenProperties
<1>2. PICK f : Grows(f, q, tracks, cycle) /\ Extend(q, tracks, cycle) = f[Len(tracks)]
  BY <1>1, ExtendGrows
<1> DEFINE M == {n \in 0..Len(tracks) : Extends(f[n], q, tracks, n, cycle)}
<1>3. 0 \in M
  <2>1. Extends(q, q, tracks, 0, cycle)
    BY LenProperties DEF Extends
  <2> QED
    BY <1>1, <1>2, <2>1 DEF Grows
<1>4. ASSUME NEW n \in 0..(Len(tracks) - 1), n \in M PROVE n + 1 \in M
  <2>1. n \in Nat /\ n + 1 \in 1..Len(tracks) /\ (n + 1) - 1 = n
    BY <1>1
  <2>2. f[n + 1] = Append(f[n], NextItem(f[n], tracks[n + 1], cycle))
    BY <1>2, <2>1 DEF Grows
  <2>3. Extends(f[n + 1], q, tracks, n + 1, cycle)
    BY <1>4, <2>1, <2>2, Appended
  <2> QED
    BY <2>1, <2>3
<1>5. \A n \in 0..Len(tracks) : n \in M
  <2> HIDE DEF M
  <2> QED
    BY <1>1, <1>3, <1>4, IntervalInduction
<1>6. Len(tracks) \in M
  <2> HIDE DEF M
  <2> QED
    BY <1>1, <1>5
<1> QED
  BY <1>2, <1>6

---------------------------------------------------------------------------
(* The inductive invariant *)

\* Tracks that are ready all along, and can be played.
Stable == Tracks \ (Volatile \cup Unprepared)

\* A cursor on the ring of a shuffle: its first phase goes up from the anchor, its
\* second one up to it.
OnRing(c) ==
    /\ c.anchor \in Tracks /\ c.after \in Tracks
    /\ \/ c.phase = 0 /\ c.anchor <= c.after
       \/ c.phase = 1 /\ c.after < c.anchor

\* A position of the source: a list that goes on has a cursor; a shuffle leaves the
\* first track out of its first cycle, and out of that cycle only.
Position(s) ==
    IF kind = "shuffle"
    THEN /\ s.excluded = IF s.cycle = 0 THEN items[1].track ELSE 0
         /\ \/ s.cursor \in {NoCursor, BadCursor}
            \/ OnRing(s.cursor) /\ s.cursor.excluded = s.excluded
    ELSE /\ s.cycle = 0
         /\ s.hasMore => \E t \in Tracks : s.cursor = After(t)

\* A shuffle at s still comes to t in this cycle.
Due(s, t) ==
    /\ t # s.excluded
    /\ \/ s.cursor \in {NoCursor, BadCursor}
       \/ s.cursor.phase = 0 /\ (t > s.cursor.after \/ t < s.cursor.anchor)
       \/ s.cursor.phase = 1 /\ t > s.cursor.after /\ t < s.cursor.anchor

\* The tracks of a page that leads from s to next: all different, in the order of the
\* likes, and no stable track is missing.
Distinct(page)   == \A i, j \in 1..Len(page) : i < j => page[i] # page[j]
Increasing(page) == \A i, j \in 1..Len(page) : i < j => page[i] < page[j]
Listed(page, t)  == \E i \in 1..Len(page) : page[i] = t
PageInOrder(s, page, next) ==
    /\ Distinct(page)
    /\ kind = "likes" =>
           /\ Increasing(page)
           /\ \A i \in 1..Len(page) :
                  /\ s.cursor.after < page[i]
                  /\ next.hasMore => page[i] <= next.cursor.after
           /\ next.hasMore => s.cursor.after <= next.cursor.after
PageWhole(s, page, next) ==
    \A t \in Stable :
        /\ kind = "likes" /\ s.cursor.after < t =>
               Listed(page, t) \/ (next.hasMore /\ next.cursor.after < t)
        /\ kind = "shuffle" /\ Due(s, t) =>
               Listed(page, t) \/ (next.cycle = s.cycle /\ Due(next, t))
PageGood(s, page, next) ==
    /\ Continues(s) /\ Position(s) /\ Position(next)
    /\ next.cycle \in {s.cycle} \cup (IF kind = "shuffle" THEN {s.cycle + 1} ELSE {})
    /\ next.cycle # s.cycle => next.cursor = NoCursor
    /\ PageInOrder(s, page, next) /\ PageWhole(s, page, next)

\* A request has a position it may fetch from, a good page, or a first item that exists.
RequestGood(r) ==
    /\ At(r, "fetch") => Position(req[r].seen)
    /\ At(r, "append") => PageGood(req[r].seen, req[r].page, req[r].next)
    /\ At(r, "render") => req[r].from <= Len(items)

\* The segments <<ordinal, index>> of the items of q.
Entries(q) == {e \in (1..Len(q)) \X Nat : e[2] \in 1..Count(q[e[1]])}

\* The queue keeps behind its source.
Behind ==
    /\ items[1].cycle = 0
    /\ \A i \in 1..Len(items) : items[i].cycle <= source.cycle
    /\ kind = "likes" /\ source.hasMore =>
           \A i \in 1..Len(items) : items[i].track <= source.cursor.after

\* No stable track is left out of the queue so far.
QueuedIn(t, c) == \E i \in 1..Len(items) : items[i].track = t /\ items[i].cycle = c
Complete ==
    \A t \in Stable :
        /\ kind = "likes" => \/ QueuedIn(t, 0)
                             \/ source.hasMore /\ source.cursor.after < t
        /\ kind = "shuffle" =>
               /\ \A c \in 0..(source.cycle - 1) : QueuedIn(t, c)
               /\ QueuedIn(t, source.cycle) \/ Due(source, t)

\* All of it: every append is a page that continues the queue as it then is.
Inv ==
    /\ TypeOK /\ items # <<>> /\ playlist \in Seq(Entries(items))
    /\ Contiguous(items) /\ QueueInOrder
    /\ Tracks \ Volatile \subseteq ready
    /\ Position(source) /\ Behind /\ Complete
    /\ \A r \in Requests : RequestGood(r)

---------------------------------------------------------------------------
(* Pages *)

\* What is left of a page when some of its tracks are dropped.
LEMMA KeptPage ==
    ASSUME NEW page \in Seq(Tracks), NEW S
    PROVE  /\ Keep(page, S) \in Seq(Tracks)
           /\ Distinct(page) => Distinct(Keep(page, S))
           /\ Increasing(page) => Increasing(Keep(page, S))
           /\ \A i \in 1..Len(Keep(page, S)) :
                  Keep(page, S)[i] \in S /\ Listed(page, Keep(page, S)[i])
           /\ \A t \in S : Listed(page, t) => Listed(Keep(page, S), t)
<1>1. PICK k : k = Keep(page, S)
  OBVIOUS
<1>2. k \in Seq(Tracks) /\ \E g : Selects(g, k, page, Len(page), S)
  BY <1>1, Kept
<1>3. PICK g : Selects(g, k, page, Len(page), S)
  BY <1>2
<1>4. \A i \in 1..Len(k) : g[i] \in 1..Len(page) /\ k[i] = page[g[i]] /\ k[i] \in S
  BY <1>3 DEF Selects
<1>5. \A i, j \in 1..Len(k) : i < j => g[i] < g[j]
  BY <1>3 DEF Selects
<1>6. Distinct(page) => Distinct(k)
  BY <1>4, <1>5 DEF Distinct
<1>7. Increasing(page) => Increasing(k)
  BY <1>4, <1>5 DEF Increasing
<1>8. \A i \in 1..Len(k) : k[i] \in S /\ Listed(page, k[i])
  BY <1>4 DEF Listed
<1>9. \A t \in S : Listed(page, t) => Listed(k, t)
  <2> SUFFICES ASSUME NEW t \in S, NEW m \in 1..Len(page), page[m] = t
               PROVE  \E i \in 1..Len(k) : k[i] = t
    BY DEF Listed
  <2>1. PICK i \in 1..Len(k) : g[i] = m
    BY <1>3 DEF Selects
  <2> QED
    BY <2>1, <1>4
<1> QED
  BY <1>1, <1>2, <1>6, <1>7, <1>8, <1>9

\* A page stays good without the tracks that have no asset.
LEMMA PageKept ==
    ASSUME NEW s, NEW page \in Seq(Tracks), NEW next, PageGood(s, page, next)
    PROVE  PageGood(s, Keep(page, Tracks \ Unprepared), next)
<1>1. PICK k : k = Keep(page, Tracks \ Unprepared)
  OBVIOUS
<1>2. /\ Distinct(page) => Distinct(k)
      /\ Increasing(page) => Increasing(k)
      /\ \A i \in 1..Len(k) : Listed(page, k[i])
      /\ \A t \in Tracks \ Unprepared : Listed(page, t) => Listed(k, t)
  BY <1>1, KeptPage
<1>3. PageInOrder(s, k, next)
  BY <1>2 DEF PageGood, PageInOrder, Listed
<1>4. PageWhole(s, k, next)
  BY <1>2 DEF PageGood, PageWhole, Stable
<1> QED
  BY <1>1, <1>3, <1>4 DEF PageGood

\* The first tracks of a sorted list, from which a page is cut.
LEMMA CutSorted ==
    ASSUME NEW S \in SUBSET Tracks
    PROVE  LET rows   == Sorted(S)
               tracks == Cut(rows, PageSize)
           IN /\ tracks \in Seq(Tracks) /\ Len(tracks) \in Nat /\ Len(rows) \in Nat
              /\ Increasing(tracks) /\ Distinct(tracks)
              /\ \A i \in 1..Len(tracks) : tracks[i] \in S
              /\ Len(rows) <= PageSize => \A t \in S : Listed(tracks, t)
              /\ tracks # <<>> =>
                     /\ Last(tracks) \in S /\ Listed(tracks, Last(tracks))
                     /\ \A i \in 1..Len(tracks) : tracks[i] <= Last(tracks)
                     /\ \A t \in S : Listed(tracks, t) \/ Last(tracks) < t
              /\ tracks = <<>> => S = {}
<1>1. PICK rows : rows = Sorted(S)
  OBVIOUS
<1>2. PICK tracks : tracks = Cut(rows, PageSize)
  OBVIOUS
<1>3. PageSize \in Nat \ {0}
  BY PlaybackConstants
<1>4. Tracks \subseteq Nat
  BY FS_CardinalityType, PlaybackConstants
<1>5. /\ rows \in Seq(Tracks) /\ Len(rows) \in Nat
      /\ \A i \in 1..Len(rows) : rows[i] \in S
      /\ \A i, j \in 1..Len(rows) : i < j => rows[i] < rows[j]
      /\ \A t \in S : \E i \in 1..Len(rows) : rows[i] = t
  BY <1>1, SortedTracks
<1>6. /\ tracks \in Seq(Tracks) /\ Len(tracks) \in Nat
      /\ Len(tracks) = IF PageSize < Len(rows) THEN PageSize ELSE Len(rows)
      /\ \A i \in 1..Len(tracks) : i \in 1..Len(rows) /\ tracks[i] = rows[i]
  BY <1>2, <1>3, <1>5, CutFirst
<1>7. \A i \in 1..Len(tracks) : tracks[i] \in S /\ tracks[i] \in Nat
  BY <1>4, <1>5, <1>6
<1>8. Increasing(tracks)
  BY <1>5, <1>6 DEF Increasing
<1>9. Distinct(tracks)
  BY <1>7, <1>8 DEF Increasing, Distinct
<1>10. ASSUME Len(rows) <= PageSize, NEW t \in S PROVE Listed(tracks, t)
  <2>1. PICK i \in 1..Len(rows) : rows[i] = t
    BY <1>5
  <2>2. i \in 1..Len(tracks)
    BY <1>3, <1>5, <1>6, <1>10
  <2> QED
    BY <1>6, <2>1, <2>2 DEF Listed
<1>11. ASSUME tracks # <<>>
       PROVE  /\ Last(tracks) \in S /\ Listed(tracks, Last(tracks))
              /\ \A i \in 1..Len(tracks) : tracks[i] <= Last(tracks)
              /\ \A t \in S : Listed(tracks, t) \/ Last(tracks) < t
  <2>1. PICK n : n = Len(tracks)
    OBVIOUS
  <2>2. n \in 1..Len(tracks) /\ n \in 1..Len(rows) /\ Last(tracks) = tracks[n] /\ n \in Nat
    <3>1. Len(tracks) # 0
      BY <1>6, <1>11, EmptySeq
    <3> QED
      BY <1>6, <2>1, <3>1 DEF Last
  <2>3. tracks[n] \in S /\ Listed(tracks, tracks[n])
    BY <1>7, <2>2 DEF Listed
  <2>4. \A i \in 1..Len(tracks) : tracks[i] <= tracks[n]
    <3> SUFFICES ASSUME NEW i \in 1..Len(tracks) PROVE tracks[i] <= tracks[n]
      OBVIOUS
    <3>1. i = n \/ i < n
      BY <1>6, <2>1
    <3> QED
      BY <1>7, <1>8, <2>2, <3>1 DEF Increasing
  <2>5. ASSUME NEW t \in S PROVE Listed(tracks, t) \/ tracks[n] < t
    <3>1. PICK i \in 1..Len(rows) : rows[i] = t
      BY <1>5
    <3>2. i \in 1..Len(tracks) \/ n < i
      BY <1>5, <1>6, <2>1
    <3>3. CASE i \in 1..Len(tracks)
      BY <1>6, <3>1, <3>3 DEF Listed
    <3>4. CASE n < i
      BY <1>5, <1>6, <2>2, <3>1, <3>4
    <3> QED
      BY <3>2, <3>3, <3>4
  <2> QED
    BY <2>2, <2>3, <2>4, <2>5
<1>12. ASSUME tracks = <<>> PROVE S = {}
  <2>1. Len(tracks) = 0
    BY <1>12
  <2>2. Len(rows) = 0
    BY <1>3, <1>5, <1>6, <2>1
  <2> QED
    BY <1>5, <2>2
<1> QED
  BY <1>1, <1>2, <1>5, <1>6, <1>7, <1>8, <1>9, <1>10, <1>11, <1>12

\* A cursor after a track, and none.
LEMMA Cursors ==
    /\ Tracks \subseteq Nat /\ 0 \notin Tracks
    /\ \A t \in Tracks : /\ After(t) \in Cursor /\ After(t).after = t /\ After(t) # NoCursor
                         /\ After(t).anchor = 0 /\ After(t).excluded = 0
                         /\ After(t).phase = 0
    /\ NoCursor \in Cursor /\ BadCursor \in Cursor /\ BadCursor # NoCursor
    /\ NoCursor.after = 0 /\ BadCursor.phase = 2
<1>1. Tracks \subseteq Nat /\ 0 \notin Tracks
  <2>1. PICK n \in Nat : n = Cardinality(Tracks)
    BY FS_CardinalityType, PlaybackConstants
  <2>2. Tracks = 1..n
    BY <2>1, PlaybackConstants
  <2> QED
    BY <2>2
<1>2. BadCursor.phase = 2 /\ NoCursor.phase = 0
  BY DEF BadCursor, NoCursor
<1>3. NoCursor \in Cursor /\ BadCursor \in Cursor /\ NoCursor.after = 0
  BY DEF NoCursor, BadCursor, Cursor
<1>4. ASSUME NEW t \in Tracks
      PROVE  /\ After(t) \in Cursor /\ After(t).after = t /\ After(t) # NoCursor
             /\ After(t).anchor = 0 /\ After(t).excluded = 0 /\ After(t).phase = 0
  BY <1>1, <1>4 DEF After, NoCursor, Cursor
<1> QED
  BY <1>1, <1>2, <1>3, <1>4

\* A page of a list.
LEMMA ListPageGood ==
    ASSUME NEW s \in Source, kind \in Kinds, kind # "shuffle", s.hasMore, Position(s),
           ready \subseteq Tracks, Tracks \ Volatile \subseteq ready,
           NEW p, NEW c, c = s.cursor \/ (kind = "search" /\ c = NoCursor /\ p = 1)
    PROVE  /\ ListPage(s, c, p).tracks \in Seq(Tracks)
           /\ ListPage(s, c, p).next \in Source
           /\ PageGood(s, ListPage(s, c, p).tracks, ListPage(s, c, p).next)
<1>1. kind \in {"search", "likes"}
  BY PlaybackConstants
<1>2. PICK t0 \in Tracks : s.cursor = After(t0)
  BY DEF Position
<1>3. s.cursor.after = t0 /\ s.cursor # NoCursor /\ t0 \in Nat /\ s.cycle = 0
  BY <1>2, Cursors DEF Position
<1>4. PICK S \in SUBSET ready :
          /\ ListFrom(c, p) = Sorted(S)
          /\ kind = "likes" => S = {t \in ready : t > t0}
  <2>1. CASE c = s.cursor
    BY <1>3, <2>1 DEF ListFrom
  <2>2. CASE kind = "search" /\ c = NoCursor /\ p = 1
    <3>1. (1 - 1) * PageSize + 1 = 1
      BY PlaybackConstants
    <3>2. ListFrom(c, p) = SubSeq(Sorted(ready), 1, Len(Sorted(ready)))
      BY <2>2, <3>1 DEF ListFrom
    <3>3. Sorted(ready) \in Seq(Tracks)
      BY SortedTracks
    <3>4. ListFrom(c, p) = Sorted(ready)
      BY <3>2, <3>3, SubSeqFull
    <3> QED
      BY <2>2, <3>4
  <2> QED
    BY <2>1, <2>2
<1>5. PICK rows : rows = Sorted(S)
  OBVIOUS
<1>6. PICK tracks : tracks = Cut(rows, PageSize)
  OBVIOUS
<1>7. /\ tracks \in Seq(Tracks) /\ Increasing(tracks) /\ Distinct(tracks)
      /\ \A i \in 1..Len(tracks) : tracks[i] \in S
      /\ Len(rows) <= PageSize => \A t \in S : Listed(tracks, t)
      /\ tracks # <<>> =>
             /\ Last(tracks) \in S
             /\ \A i \in 1..Len(tracks) : tracks[i] <= Last(tracks)
             /\ \A t \in S : Listed(tracks, t) \/ Last(tracks) < t
      /\ tracks = <<>> => S = {}
  BY <1>5, <1>6, CutSorted
<1>8. PICK more \in BOOLEAN :
          /\ ~more => Len(rows) <= PageSize
          /\ ListPage(s, c, p).tracks = tracks
          /\ ListPage(s, c, p).next =
                 [s EXCEPT !.page = s.page + 1,
                           !.cursor = IF more THEN After(Last(tracks)) ELSE NoCursor,
                           !.hasMore = more]
          /\ more => tracks # <<>>
          /\ tracks # <<>> /\ ~more => Len(rows) <= PageSize
  <2> DEFINE more == (p * PageSize < TotalCount \/ Len(rows) > PageSize)
  <2>1. Len(rows) \in Nat /\ PageSize \in Nat
    BY <1>5, SortedTracks, PlaybackConstants
  <2>2. /\ ListPage(s, c, p).tracks = tracks
        /\ ListPage(s, c, p).next =
               [s EXCEPT !.page = s.page + 1,
                         !.cursor = IF more /\ tracks # <<>> THEN After(Last(tracks))
                                    ELSE NoCursor,
                         !.hasMore = more /\ tracks # <<>>]
    BY <1>4, <1>5, <1>6 DEF ListPage
  <2>3. ~more => Len(rows) <= PageSize
    BY <2>1
  <2>4. tracks = <<>> => Len(rows) <= PageSize
    <3> SUFFICES ASSUME tracks = <<>> PROVE Len(rows) = 0
      BY <2>1
    <3>1. \A i \in 1..Len(rows) : rows[i] \in {}
      BY <1>5, <1>7, SortedTracks
    <3> QED
      BY <2>1, <3>1
  <2> QED
    BY <2>2, <2>3, <2>4
<1>9. PICK n : n = ListPage(s, c, p).next
  OBVIOUS
<1>10. Last(tracks) \in Tracks \/ ~more
  BY <1>7, <1>8
<1>11. /\ n \in Source /\ n.hasMore = more /\ n.cycle = 0
       /\ n.cursor = IF more THEN After(Last(tracks)) ELSE NoCursor
  <2>1. PICK cursor : cursor = IF more THEN After(Last(tracks)) ELSE NoCursor
    OBVIOUS
  <2>2. cursor \in Cursor
    BY <1>10, <2>1, Cursors
  <2>3. n = [s EXCEPT !.page = s.page + 1, !.cursor = cursor, !.hasMore = more]
    BY <1>8, <1>9, <2>1
  <2>4. s \in Source /\ s.page + 1 \in Nat
    BY DEF Source
  <2>5. n \in Source
    BY <2>2, <2>3, <2>4 DEF Source
  <2>6. n.hasMore = more
    BY <2>3, <2>4 DEF Source
  <2>7. n.cursor = cursor
    BY <2>3, <2>4 DEF Source
  <2>8. n.cycle = s.cycle
    BY <2>3, <2>4 DEF Source
  <2> QED
    BY <1>3, <2>1, <2>5, <2>6, <2>7, <2>8
<1>12. Position(n)
  BY <1>1, <1>10, <1>11 DEF Position
<1>13. n.hasMore => n.cursor.after = Last(tracks)
  BY <1>10, <1>11, Cursors
<1>14. PageInOrder(s, tracks, n)
  <2>1. ASSUME kind = "likes", NEW i \in 1..Len(tracks)
        PROVE  s.cursor.after < tracks[i] /\ (n.hasMore => tracks[i] <= n.cursor.after)
    BY <1>3, <1>4, <1>7, <1>8, <1>11, <1>13, <2>1
  <2>2. ASSUME kind = "likes", n.hasMore PROVE s.cursor.after <= n.cursor.after
    <3>1. Last(tracks) \in S /\ Last(tracks) > t0 /\ Last(tracks) \in Nat
      BY <1>4, <1>7, <1>8, <1>10, <1>11, <2>2, Cursors
    <3> QED
      BY <1>3, <1>13, <2>2, <3>1
  <2> QED
    BY <1>7, <2>1, <2>2 DEF PageInOrder
<1>15. PageWhole(s, tracks, n)
  <2> SUFFICES ASSUME NEW t \in Stable, kind = "likes", t0 < t
               PROVE  Listed(tracks, t) \/ (n.hasMore /\ n.cursor.after < t)
    BY <1>1, <1>3 DEF PageWhole
  <2>1. t \in S
    BY <1>3, <1>4, Cursors DEF Stable
  <2> QED
    BY <1>7, <1>8, <1>11, <1>13, <2>1
<1>16. Continues(s)
  BY DEF Continues
<1>17. n.cycle \in {s.cycle} \cup (IF kind = "shuffle" THEN {s.cycle + 1} ELSE {})
  BY <1>3, <1>11
<1>18. PageGood(s, tracks, n)
  BY <1>3, <1>11, <1>12, <1>14, <1>15, <1>16, <1>17 DEF PageGood
<1> QED
  BY <1>7, <1>8, <1>9, <1>11, <1>18

\* A cursor on the ring, or one that has not left its anchor yet.
Walking(c) ==
    /\ c \in Cursor /\ c.anchor \in Tracks
    /\ \/ c.phase = 0 /\ (c.after = 0 \/ c.anchor <= c.after)
       \/ c.phase = 1 /\ c.after < c.anchor

\* The ring from c still has t; x comes before y on a ring that starts at a.
Ahead(c, t) ==
    /\ t # c.excluded
    /\ \/ c.phase = 0 /\ (t > c.after \/ t < c.anchor)
       \/ c.phase = 1 /\ t > c.after /\ t < c.anchor
Before(a, x, y) ==
    \/ x >= a /\ (x < y \/ y < a)
    \/ x < a /\ x < y /\ y < a

\* The ring has every ready track that is ahead of the cursor, in the order of the ring.
LEMMA RingGood ==
    ASSUME ready \subseteq Tracks, NEW c, Walking(c)
    PROVE  /\ Ring(c) \in Seq(Tracks) /\ Len(Ring(c)) \in Nat
           /\ \A i, j \in 1..Len(Ring(c)) : i < j => Before(c.anchor, Ring(c)[i], Ring(c)[j])
           /\ \A t \in ready : Ahead(c, t) => Listed(Ring(c), t)
<1> DEFINE S(n, after) ==
               {t \in ready \ {c.excluded} :
                    t > after /\ (IF n = 0 THEN t >= c.anchor ELSE t < c.anchor)}
<1>1. Tracks \subseteq Nat /\ 0 \notin Tracks /\ c.anchor \in Nat /\ c.after \in Nat
  <2>1. Tracks \subseteq Nat /\ 0 \notin Tracks
    BY Cursors
  <2>2. c \in Cursor /\ c.anchor \in Tracks
    BY DEF Walking
  <2>3. c.after \in Tracks \cup {0}
    BY <2>2 DEF Cursor
  <2>4. c.anchor \in Nat
    BY <2>1, <2>2
  <2>5. c.after \in Nat
    <3>1. PICK x \in Tracks \cup {0} : c.after = x
      BY <2>3
    <3>2. x \in Nat
      BY <2>1
    <3> QED
      BY <3>1, <3>2
  <2> QED
    BY <2>1, <2>4, <2>5
<1>2. CASE c.phase = 0
  <2>1. PICK A : A = Sorted(S(0, c.after))
    OBVIOUS
  <2>2. PICK B : B = Sorted(S(1, 0))
    OBVIOUS
  <2>3. Ring(c) = A \o B
    BY <1>2, <2>1, <2>2 DEF Ring
  <2>4. /\ A \in Seq(Tracks) /\ Len(A) \in Nat
        /\ \A i \in 1..Len(A) : A[i] \in S(0, c.after)
        /\ \A i, j \in 1..Len(A) : i < j => A[i] < A[j]
        /\ \A t \in S(0, c.after) : \E i \in 1..Len(A) : A[i] = t
    BY <2>1, SortedTracks
  <2>5. /\ B \in Seq(Tracks) /\ Len(B) \in Nat
        /\ \A i \in 1..Len(B) : B[i] \in S(1, 0)
        /\ \A i, j \in 1..Len(B) : i < j => B[i] < B[j]
        /\ \A t \in S(1, 0) : \E i \in 1..Len(B) : B[i] = t
    BY <2>2, SortedTracks
  <2>6. PICK R : R = A \o B
    OBVIOUS
  <2>7. /\ R \in Seq(Tracks) /\ Len(R) = Len(A) + Len(B)
        /\ \A i \in 1..Len(A) + Len(B) : R[i] = IF i <= Len(A) THEN A[i] ELSE B[i - Len(A)]
    BY <2>4, <2>5, <2>6, ConcatProperties
  <2>8. \A i \in 1..Len(R) : \/ i \in 1..Len(A) /\ R[i] = A[i] /\ R[i] \in S(0, c.after)
                             \/ /\ i - Len(A) \in 1..Len(B) /\ R[i] = B[i - Len(A)]
                                /\ R[i] \in S(1, 0) /\ i > Len(A)
    <3> SUFFICES ASSUME NEW i \in 1..Len(R)
                 PROVE  \/ i \in 1..Len(A) /\ R[i] = A[i] /\ R[i] \in S(0, c.after)
                        \/ /\ i - Len(A) \in 1..Len(B) /\ R[i] = B[i - Len(A)]
                           /\ R[i] \in S(1, 0) /\ i > Len(A)
      OBVIOUS
    <3> HIDE DEF S
    <3>1. CASE i <= Len(A)
      <4>1. i \in 1..Len(A)
        BY <2>4, <3>1
      <4> QED
        BY <2>4, <2>7, <3>1, <4>1
    <3>2. CASE ~(i <= Len(A))
      <4>1. i - Len(A) \in 1..Len(B) /\ i > Len(A)
        BY <2>4, <2>5, <2>7, <3>2
      <4> QED
        BY <2>5, <2>7, <3>2, <4>1
    <3> QED
      BY <3>1, <3>2
  <2>9. ASSUME NEW i \in 1..Len(R), NEW j \in 1..Len(R), i < j
        PROVE  Before(c.anchor, R[i], R[j])
    <3>1. CASE i \in 1..Len(A) /\ R[i] = A[i] /\ R[i] \in S(0, c.after)
      <4>1. R[i] >= c.anchor /\ R[i] \in Nat
        BY <1>1, <3>1
      <4>2. CASE j \in 1..Len(A) /\ R[j] = A[j]
        BY <2>4, <2>9, <3>1, <4>1, <4>2 DEF Before
      <4>3. CASE R[j] \in S(1, 0)
        BY <4>1, <4>3 DEF Before
      <4> QED
        BY <2>8, <4>2, <4>3
    <3>2. CASE /\ i - Len(A) \in 1..Len(B) /\ R[i] = B[i - Len(A)]
               /\ R[i] \in S(1, 0) /\ i > Len(A)
      <4>1. /\ j - Len(A) \in 1..Len(B) /\ R[j] = B[j - Len(A)] /\ R[j] \in S(1, 0)
            /\ i - Len(A) < j - Len(A)
        <5>1. ~(j \in 1..Len(A))
          BY <2>4, <2>9, <3>2
        <5>2. i - Len(A) < j - Len(A)
          BY <2>4, <2>9
        <5> QED
          BY <2>8, <5>1, <5>2
      <4>2. R[i] < R[j]
        BY <2>5, <3>2, <4>1
      <4> QED
        BY <3>2, <4>1, <4>2 DEF Before
    <3> QED
      BY <2>8, <3>1, <3>2
  <2>10. ASSUME NEW t \in ready, Ahead(c, t) PROVE Listed(R, t)
    <3>1. t \in S(0, c.after) \/ t \in S(1, 0)
      BY <1>1, <1>2, <2>10 DEF Ahead, Walking
    <3>2. CASE t \in S(0, c.after)
      <4>1. PICK i \in 1..Len(A) : A[i] = t
        BY <2>4, <3>2
      <4>2. i \in 1..Len(R) /\ R[i] = t
        BY <2>4, <2>5, <2>7, <4>1
      <4> QED
        BY <4>2 DEF Listed
    <3>3. CASE t \in S(1, 0)
      <4>1. PICK i \in 1..Len(B) : B[i] = t
        BY <2>5, <3>3
      <4>2. i + Len(A) \in 1..Len(R) /\ ~(i + Len(A) <= Len(A)) /\ (i + Len(A)) - Len(A) = i
        BY <2>4, <2>5, <2>7
      <4>3. R[i + Len(A)] = t
        BY <2>7, <4>1, <4>2
      <4> QED
        BY <4>2, <4>3 DEF Listed
    <3> QED
      BY <3>1, <3>2, <3>3
  <2>11. Len(R) \in Nat
    BY <2>4, <2>5, <2>7
  <2> QED
    BY <2>3, <2>6, <2>7, <2>9, <2>10, <2>11
<1>3. CASE c.phase = 1
  <2>1. PICK R : R = Ring(c)
    OBVIOUS
  <2>2. R = Sorted(S(1, c.after))
    BY <1>3, <2>1 DEF Ring
  <2>3. /\ R \in Seq(Tracks) /\ Len(R) \in Nat
        /\ \A i \in 1..Len(R) : R[i] \in S(1, c.after)
        /\ \A i, j \in 1..Len(R) : i < j => R[i] < R[j]
        /\ \A t \in S(1, c.after) : \E i \in 1..Len(R) : R[i] = t
    BY <2>2, SortedTracks
  <2>4. \A i, j \in 1..Len(R) : i < j => Before(c.anchor, R[i], R[j])
    BY <2>3 DEF Before
  <2>5. ASSUME NEW t \in ready, Ahead(c, t) PROVE Listed(R, t)
    <3>1. t \in S(1, c.after)
      BY <1>3, <2>5 DEF Ahead
    <3> QED
      BY <2>3, <3>1 DEF Listed
  <2> QED
    BY <2>1, <2>3, <2>4, <2>5
<1> QED
  BY <1>2, <1>3 DEF Walking

\* A page of a shuffle, from a cursor that has not passed a track which is still due.
LEMMA ShufflePageGood ==
    ASSUME NEW s \in Source, kind = "shuffle", Position(s),
           ready \subseteq Tracks, Tracks \ Volatile \subseteq ready,
           NEW c, Walking(c), c.excluded = s.excluded,
           \A t \in Stable : Due(s, t) => Ahead(c, t)
    PROVE  /\ ShufflePage(s, c).tracks \in Seq(Tracks)
           /\ ShufflePage(s, c).next \in Source
           /\ PageGood(s, ShufflePage(s, c).tracks, ShufflePage(s, c).next)
<1>1. PICK rows : rows = Ring(c)
  OBVIOUS
<1>2. PICK tracks : tracks = Cut(rows, PageSize)
  OBVIOUS
<1>3. PICK n : n = ShufflePage(s, c).next
  OBVIOUS
<1>4. PageSize \in Nat \ {0}
  BY PlaybackConstants
<1>5. /\ rows \in Seq(Tracks) /\ Len(rows) \in Nat
      /\ \A i, j \in 1..Len(rows) : i < j => Before(c.anchor, rows[i], rows[j])
      /\ \A t \in ready : Ahead(c, t) => Listed(rows, t)
  BY <1>1, RingGood
<1>6. /\ tracks \in Seq(Tracks) /\ Len(tracks) \in Nat
      /\ Len(tracks) = IF PageSize < Len(rows) THEN PageSize ELSE Len(rows)
      /\ \A i \in 1..Len(tracks) : i \in 1..Len(rows) /\ tracks[i] = rows[i]
  BY <1>2, <1>4, <1>5, CutFirst
<1>7. c \in Cursor /\ c.anchor \in Tracks /\ Tracks \subseteq Nat
  BY Cursors DEF Walking
<1>8. \A i \in 1..Len(tracks) : tracks[i] \in Tracks /\ tracks[i] \in Nat
  BY <1>6, <1>7, ElementOfSeq
<1>9. Distinct(tracks)
  <2> SUFFICES ASSUME NEW i \in 1..Len(tracks), NEW j \in 1..Len(tracks), i < j
               PROVE  tracks[i] # tracks[j]
    BY DEF Distinct
  <2>1. Before(c.anchor, tracks[i], tracks[j])
    BY <1>5, <1>6
  <2>2. tracks[i] \in Nat /\ tracks[j] \in Nat /\ c.anchor \in Nat
    BY <1>7, <1>8
  <2> QED
    BY <2>1, <2>2 DEF Before
<1>10. PageInOrder(s, tracks, n)
  BY <1>9 DEF PageInOrder
<1>11. \A t \in Stable : Due(s, t) => Listed(rows, t)
  BY <1>5 DEF Stable
<1>12. s.cycle \in Nat /\ s.page \in Nat /\ s.page + 1 \in Nat /\ s.cycle + 1 \in Nat
       /\ s.cycle + 1 # 0 /\ s.cycle + 1 # s.cycle
  BY DEF Source
<1>13. s.excluded = (IF s.cycle = 0 THEN items[1].track ELSE 0) /\ s.excluded \in Tracks \cup {0}
  BY DEF Position, Source
<1>14. CASE Len(rows) <= PageSize
  <2>1. n = [s EXCEPT !.page = s.page + 1, !.cursor = NoCursor, !.hasMore = TRUE,
                      !.cycle = s.cycle + 1, !.excluded = 0]
    BY <1>1, <1>3, <1>14 DEF ShufflePage
  <2>2. NoCursor \in Cursor
    BY Cursors
  <2>3. n \in Source
    BY <1>12, <2>1, <2>2 DEF Source
  <2>4. n.cursor = NoCursor /\ n.cycle = s.cycle + 1 /\ n.excluded = 0
    BY <2>1 DEF Source
  <2>5. Position(n)
    BY <1>12, <2>4 DEF Position
  <2>6. \A t \in Stable : Due(s, t) => Listed(tracks, t)
    <3> SUFFICES ASSUME NEW t \in Stable, Due(s, t) PROVE Listed(tracks, t)
      OBVIOUS
    <3>1. PICK i \in 1..Len(rows) : rows[i] = t
      BY <1>11 DEF Listed
    <3>2. i \in 1..Len(tracks)
      BY <1>4, <1>5, <1>6, <1>14
    <3> QED
      BY <1>6, <3>1, <3>2 DEF Listed
  <2>7. PageWhole(s, tracks, n)
    BY <2>6 DEF PageWhole
  <2>8. Continues(s) /\ n.cycle \in {s.cycle} \cup {s.cycle + 1}
    BY <2>4 DEF Continues
  <2>9. PageGood(s, tracks, n)
    BY <1>10, <2>4, <2>5, <2>7, <2>8 DEF PageGood
  <2>10. ShufflePage(s, c).tracks = tracks
    BY <1>1, <1>2 DEF ShufflePage
  <2> QED
    BY <1>3, <1>6, <2>3, <2>9, <2>10
<1>15. CASE ~(Len(rows) <= PageSize)
  <2>1. PICK last : last = tracks[Len(tracks)]
    OBVIOUS
  <2>2. /\ Len(tracks) = PageSize /\ PageSize \in 1..Len(tracks) /\ PageSize \in 1..Len(rows)
        /\ last \in Tracks /\ last \in Nat /\ last = rows[PageSize] /\ last = Last(tracks)
    <3>1. Len(tracks) = PageSize /\ PageSize \in 1..Len(tracks) /\ PageSize \in 1..Len(rows)
      BY <1>4, <1>5, <1>6, <1>15
    <3> QED
      BY <1>6, <1>8, <2>1, <3>1 DEF Last
  <2>3. PICK phase : phase = IF c.anchor <= last THEN 0 ELSE 1
    OBVIOUS
  <2>4. phase \in 0..2
    BY <2>3
  <2>5. PICK e : e = [c EXCEPT !.after = last, !.phase = phase]
    OBVIOUS
  <2>6. /\ e \in Cursor /\ e.anchor = c.anchor /\ e.after = last /\ e.phase = phase
        /\ e.excluded = c.excluded
    BY <1>7, <2>2, <2>4, <2>5 DEF Cursor
  <2>7. n = [s EXCEPT !.page = s.page + 1, !.hasMore = TRUE, !.cursor = e]
    BY <1>1, <1>2, <1>3, <1>15, <2>2, <2>3, <2>5 DEF ShufflePage
  <2>8. n \in Source
    BY <1>12, <2>6, <2>7 DEF Source
  <2>9. n.cursor = e /\ n.cycle = s.cycle /\ n.excluded = s.excluded
    BY <2>7 DEF Source
  <2>10. OnRing(e)
    <3>1. e.anchor \in Tracks /\ e.after \in Tracks
      BY <1>7, <2>2, <2>6
    <3>2. c.anchor \in Nat /\ last \in Nat
      BY <1>7, <2>2
    <3>3. \/ e.phase = 0 /\ e.anchor <= e.after
          \/ e.phase = 1 /\ e.after < e.anchor
      BY <2>3, <2>6, <3>2
    <3> QED
      BY <3>1, <3>3 DEF OnRing
  <2>11. Position(n)
    BY <1>13, <2>6, <2>9, <2>10 DEF Position
  <2>12. ASSUME NEW t \in Stable, Due(s, t) PROVE Listed(tracks, t) \/ Due(n, t)
    <3>1. PICK i \in 1..Len(rows) : rows[i] = t
      BY <1>11, <2>12 DEF Listed
    <3>2. CASE i <= PageSize
      <4>1. i \in 1..Len(tracks)
        BY <2>2, <3>2
      <4> QED
        BY <1>6, <3>1, <4>1 DEF Listed
    <3>3. CASE PageSize < i
      <4>1. Before(c.anchor, last, t)
        BY <1>5, <2>2, <3>1, <3>3
      <4>2. t # n.excluded
        BY <2>9, <2>12 DEF Due
      <4>3. t \in Nat /\ c.anchor \in Nat
        BY <1>7 DEF Stable
      <4>4. \/ e.phase = 0 /\ (t > e.after \/ t < e.anchor)
            \/ e.phase = 1 /\ t > e.after /\ t < e.anchor
        BY <2>2, <2>3, <2>6, <4>1, <4>3 DEF Before
      <4> QED
        BY <2>9, <4>2, <4>4 DEF Due
    <3> QED
      BY <1>4, <3>2, <3>3
  <2>13. PageWhole(s, tracks, n)
    BY <2>9, <2>12 DEF PageWhole
  <2>14. Continues(s) /\ n.cycle \in {s.cycle} \cup {s.cycle + 1}
    BY <2>9 DEF Continues
  <2>15. PageGood(s, tracks, n)
    BY <1>10, <2>9, <2>11, <2>13, <2>14 DEF PageGood
  <2>16. ShufflePage(s, c).tracks = tracks
    BY <1>1, <1>2 DEF ShufflePage
  <2> QED
    BY <1>3, <1>6, <2>8, <2>15, <2>16
<1> QED
  BY <1>14, <1>15

\* Every page that a source may return is good.
LEMMA PagesGood ==
    ASSUME NEW s \in Source, kind \in Kinds, Continues(s), Position(s),
           ready \subseteq Tracks, Tracks \ Volatile \subseteq ready, NEW p \in Pages(s)
    PROVE  /\ p.tracks \in Seq(Tracks) /\ p.next \in Source
           /\ PageGood(s, p.tracks, p.next)
<1>1. CASE kind # "shuffle"
  <2>1. s.hasMore
    BY <1>1 DEF Continues
  <2>2. \/ p = ListPage(s, s.cursor, s.page + 1)
        \/ p = ListPage(s, NoCursor, 1) /\ kind = "search"
    BY <1>1 DEF Pages, ListPages
  <2>3. PICK c, o : p = ListPage(s, c, o)
                    /\ (c = s.cursor \/ (kind = "search" /\ c = NoCursor /\ o = 1))
    BY <2>2
  <2> QED
    BY <1>1, <2>1, <2>3, ListPageGood
<1>2. CASE kind = "shuffle" /\ s.cursor \in {NoCursor, BadCursor}
                            /\ p.tracks = <<>> /\ \E b \in BOOLEAN :
                                   p.next = [s EXCEPT !.cursor = IF b THEN NoCursor ELSE s.cursor,
                                                      !.hasMore = b]
  <2>1. PICK b \in BOOLEAN :
            p.next = [s EXCEPT !.cursor = IF b THEN NoCursor ELSE s.cursor, !.hasMore = b]
    BY <1>2
  <2>2. PICK e : e = IF b THEN NoCursor ELSE s.cursor
    OBVIOUS
  <2>3. PICK n : n = [s EXCEPT !.cursor = e, !.hasMore = b]
    OBVIOUS
  <2>4. e \in Cursor /\ e \in {NoCursor, BadCursor}
    BY <1>2, <2>2, Cursors
  <2>5. n \in Source /\ n.cursor = e /\ n.cycle = s.cycle /\ n.excluded = s.excluded
    BY <2>3, <2>4 DEF Source
  <2>6. Position(n)
    BY <1>2, <2>4, <2>5 DEF Position
  <2>7. PageInOrder(s, p.tracks, n)
    BY <1>2 DEF PageInOrder, Distinct
  <2>8. PageWhole(s, p.tracks, n)
    BY <1>2, <2>4, <2>5 DEF PageWhole, Due
  <2>9. PageGood(s, p.tracks, n)
    BY <1>2, <2>5, <2>6, <2>7, <2>8 DEF PageGood, Continues
  <2>10. p.next = n /\ p.tracks \in Seq(Tracks)
    BY <1>2, <2>1, <2>2, <2>3
  <2> QED
    BY <2>5, <2>9, <2>10
<1>3. CASE kind = "shuffle" /\ \E c : /\ p = ShufflePage(s, c)
                                      /\ Walking(c) /\ c.excluded = s.excluded
                                      /\ \A t \in Stable : Due(s, t) => Ahead(c, t)
  BY <1>3, ShufflePageGood
<1>4. ASSUME kind = "shuffle", s.cursor \notin {NoCursor, BadCursor}
      PROVE  /\ Walking(s.cursor) /\ s.cursor.excluded = s.excluded
             /\ \A t \in Stable : Due(s, t) => Ahead(s.cursor, t)
  <2>1. OnRing(s.cursor) /\ s.cursor.excluded = s.excluded
    BY <1>4 DEF Position
  <2>2. s.cursor \in Cursor
    BY DEF Source
  <2>3. Walking(s.cursor)
    BY <2>1, <2>2 DEF OnRing, Walking
  <2> QED
    BY <1>4, <2>1, <2>3 DEF Due, Ahead
<1>5. ASSUME NEW a \in ready
      PROVE  LET c == [NoCursor EXCEPT !.anchor = a, !.excluded = s.excluded]
             IN /\ Walking(c) /\ c.excluded = s.excluded
                /\ \A t \in Stable : Due(s, t) => Ahead(c, t)
  <2>1. PICK c : c = [NoCursor EXCEPT !.anchor = a, !.excluded = s.excluded]
    OBVIOUS
  <2>2. s.excluded \in Tracks \cup {0} /\ a \in Tracks
    BY DEF Source
  <2>3. /\ c.anchor = a /\ c.after = 0 /\ c.phase = 0 /\ c.excluded = s.excluded
        /\ c \in Cursor
    <3>1. NoCursor \in Cursor /\ NoCursor.after = 0 /\ NoCursor.phase = 0
      BY Cursors DEF NoCursor
    <3>2. a \in Tracks \cup {0}
      BY <2>2
    <3>3. /\ c \in Cursor /\ c.anchor = a /\ c.excluded = s.excluded
          /\ c.after = NoCursor.after /\ c.phase = NoCursor.phase
      BY <2>1, <2>2, <3>1, <3>2 DEF Cursor
    <3> QED
      BY <3>1, <3>3
  <2>4. \A t \in Stable : t \in Nat /\ t # 0
    BY Cursors DEF Stable
  <2>5. \A t \in Stable : Due(s, t) => Ahead(c, t)
    BY <2>3, <2>4 DEF Due, Ahead
  <2> QED
    BY <2>1, <2>2, <2>3, <2>5 DEF Walking
<1>6. CASE kind = "shuffle"
  <2>1. CASE s.cursor = BadCursor
    <3>1. p = [tracks |-> <<>>, next |-> [s EXCEPT !.cursor = NoCursor, !.hasMore = TRUE]]
      BY <1>6, <2>1 DEF Pages, ShufflePages
    <3> QED
      BY <1>2, <1>6, <2>1, <3>1
  <2>2. CASE s.cursor \notin {NoCursor, BadCursor}
    <3>1. p = ShufflePage(s, s.cursor)
      BY <1>6, <2>2 DEF Pages, ShufflePages
    <3> QED
      BY <1>3, <1>4, <1>6, <2>2, <3>1
  <2>3. CASE s.cursor = NoCursor /\ ready = {}
    <3>1. p = [tracks |-> <<>>, next |-> [s EXCEPT !.hasMore = FALSE]]
      BY <1>6, <2>3, Cursors DEF Pages, ShufflePages
    <3>2. [s EXCEPT !.hasMore = FALSE] = [s EXCEPT !.cursor = s.cursor, !.hasMore = FALSE]
      BY DEF Source
    <3>3. p.tracks = <<>>
          /\ p.next = [s EXCEPT !.cursor = IF FALSE THEN NoCursor ELSE s.cursor,
                                !.hasMore = FALSE]
      BY <3>1, <3>2
    <3> QED
      BY <1>2, <1>6, <2>3, <3>3
  <2>4. CASE s.cursor = NoCursor /\ ready # {}
    <3>1. PICK a \in ready :
              p = ShufflePage(s, [NoCursor EXCEPT !.anchor = a, !.excluded = s.excluded])
      BY <1>6, <2>4, Cursors DEF Pages, ShufflePages
    <3> QED
      BY <1>3, <1>5, <1>6, <3>1
  <2> QED
    BY <2>1, <2>2, <2>3, <2>4
<1> QED
  BY <1>1, <1>6

---------------------------------------------------------------------------
(* The initial states *)

\* A request that has not been made.
LEMMA IdleType == Idle \in Request /\ Idle.pc = "idle"
<1>1. NoCursor \in Cursor
  BY Cursors
<1>2. PICK s : s = [cursor |-> NoCursor, page |-> 1, hasMore |-> FALSE, cycle |-> 0,
                    excluded |-> 0]
  OBVIOUS
<1>3. s \in Source
  BY <1>1, <1>2 DEF Source
<1>4. Idle = [pc |-> "idle", tries |-> 0, seen |-> s, reached |-> -1, empty |-> TRUE,
              page |-> <<>>, next |-> s, delta |-> FALSE, active |-> FALSE, skip |-> 0,
              from |-> 1]
  BY <1>2 DEF Idle
<1>5. <<>> \in Seq(Tracks) /\ 1 \in Nat \ {0} /\ -1 \in Nat \cup {-1} /\ "idle" \in RequestPC
  BY DEF RequestPC
<1>6. Idle \in Request
  BY <1>3, <1>4, <1>5 DEF Request
<1> QED
  BY <1>4, <1>6

\* What a new session is made of: its first page, and the source that goes on after it.
Started(tracks) ==
    /\ tracks \in Seq(Tracks) /\ Len(tracks) \in Nat \ {0} /\ Distinct(tracks)
    /\ source \in Source /\ source.cycle = 0
    /\ kind = "shuffle" =>
           /\ Len(tracks) = 1 /\ tracks[1] = source.excluded
           /\ source.cursor \in {NoCursor, BadCursor}
    /\ kind # "shuffle" => \E t \in Tracks :
           /\ source.cursor = After(t)
           /\ Increasing(tracks)
           /\ \A i \in 1..Len(tracks) : tracks[i] <= t
           /\ \A x \in Tracks : Listed(tracks, x) \/ t < x

\* What the first source and the first page have in common, in every kind of session.
LEMMA InitStarted ==
    ASSUME source \in InitialSources
    PROVE  Started(InitialTracks(source))
<1>1. NoCursor \in Cursor /\ BadCursor \in Cursor /\ 1 \in Nat /\ 0 \in Nat
  BY Cursors
<1>2. CASE kind = "shuffle"
  <2>1. PICK c \in {NoCursor, BadCursor}, t \in Tracks :
            source = [cursor |-> c, page |-> 1, hasMore |-> TRUE, cycle |-> 0, excluded |-> t]
    BY <1>2 DEF InitialSources
  <2>2. c \in Cursor /\ t \in Tracks \cup {0}
    BY <1>1
  <2>3. source \in Source
    BY <1>1, <2>1, <2>2 DEF Source
  <2>4. source.cursor = c /\ source.cycle = 0 /\ source.excluded = t
    BY <2>1
  <2>5. InitialTracks(source) = <<t>>
    BY <1>2, <2>4 DEF InitialTracks
  <2>6. <<t>> \in Seq(Tracks) /\ Len(<<t>>) = 1 /\ <<t>>[1] = t /\ 1 \in Nat \ {0}
    OBVIOUS
  <2>7. Distinct(<<t>>)
    BY <2>6 DEF Distinct
  <2> QED
    BY <1>2, <2>3, <2>4, <2>5, <2>6, <2>7 DEF Started
<1>3. CASE kind # "shuffle"
  <2>1. PICK page : page = FirstPage
    OBVIOUS
  <2>2. /\ page \in Seq(Tracks) /\ Len(page) \in Nat /\ Increasing(page) /\ Distinct(page)
        /\ page # <<>> => /\ Last(page) \in Tracks
                          /\ \A i \in 1..Len(page) : page[i] <= Last(page)
                          /\ \A x \in Tracks : Listed(page, x) \/ Last(page) < x
        /\ page = <<>> => Tracks = {}
    <3>1. Tracks \in SUBSET Tracks
      OBVIOUS
    <3> QED
      BY <2>1, <3>1, CutSorted DEF FirstPage
  <2>3. page # <<>> /\ Len(page) \in Nat \ {0}
    <3>1. page # <<>>
      BY <2>2, PlaybackConstants
    <3> QED
      BY <2>2, <3>1, EmptySeq
  <2>4. PICK t \in Tracks : t = Last(page)
    BY <2>2, <2>3
  <2>5. After(t) \in Cursor
    BY Cursors
  <2>6. source = [cursor |-> After(t), page |-> 1, hasMore |-> TRUE, cycle |-> 0, excluded |-> 0]
    BY <1>3, <2>1, <2>4 DEF InitialSources
  <2>7. source \in Source
    BY <1>1, <2>5, <2>6 DEF Source
  <2>8. source.cursor = After(t) /\ source.cycle = 0
    BY <2>6
  <2>9. InitialTracks(source) = page
    BY <1>3, <2>1 DEF InitialTracks
  <2> QED
    BY <1>3, <2>2, <2>3, <2>4, <2>7, <2>8, <2>9 DEF Started
<1> QED
  BY <1>2, <1>3

\* A new session has the invariant.
LEMMA InitInv ==
    ASSUME Init
    PROVE  Inv
<1>1. PICK tracks : tracks = InitialTracks(source)
  OBVIOUS
<1>2. Started(tracks)
  BY <1>1, InitStarted DEF Init
<1>3. PICK q : q = Extend(<<>>, tracks, 0)
  OBVIOUS
<1>4. Extends(q, <<>>, tracks, Len(tracks), 0)
  <2>1. <<>> \in Seq(Item) /\ 0 \in Nat /\ tracks \in Seq(Tracks)
    BY <1>2 DEF Started
  <2> QED
    BY <1>3, <2>1, Extended
<1>5. items = q
  BY <1>1, <1>3 DEF Init
<1>6. Len(tracks) \in Nat \ {0} /\ Tracks \subseteq Nat
  BY <1>2, Cursors DEF Started
<1>7. /\ items \in Seq(Item) /\ Len(items) = Len(tracks)
      /\ \A i \in 1..Len(items) : items[i].track = tracks[i] /\ items[i].cycle = 0
      /\ Contiguous(items)
  <2>1. Len(<<>>) = 0 /\ Contiguous(<<>>)
    BY DEF Contiguous
  <2>2. q \in Seq(Item) /\ Len(q) = Len(tracks) /\ Contiguous(q)
    BY <1>4, <1>6, <2>1 DEF Extends
  <2>3. \A k \in 1..Len(tracks) : q[k].track = tracks[k] /\ q[k].cycle = 0
    BY <1>4, <2>1 DEF Extends
  <2> QED
    BY <1>5, <2>2, <2>3
<1>8. 1 \in 1..Len(items) /\ items # <<>>
  BY <1>6, <1>7
<1>9. TypeOK
  <2>1. startAt \in Nat
    <3>1. PICK i \in 1..Len(items) : startAt = items[i].start
      BY <1>7 DEF Init
    <3>2. items[i] \in Item
      BY <1>7, ElementOfSeq
    <3> QED
      BY <3>1, <3>2 DEF Item
  <2>2. req \in [Requests -> Request]
    BY IdleType DEF Init
  <2>3. kind \in Kinds /\ ready \subseteq Tracks /\ fetched = -1
    BY DEF Init
  <2>4. playlist = <<>> /\ ended \in BOOLEAN /\ awaiting \in Requests \cup {NoRequest}
    BY DEF Init
  <2>5. source \in Source
    BY <1>2 DEF Started
  <2>6. \A i \in DOMAIN playlist : playlist[i] \in Nat \X Nat
    BY <2>4
  <2>7. fetched \in Nat \cup {-1}
    BY <2>3
  <2> QED
    BY <1>7, <2>1, <2>2, <2>3, <2>4, <2>5, <2>6, <2>7 DEF TypeOK
<1>10. \A i \in 1..Len(items) : tracks[i] \in Nat
  BY <1>2, <1>6, <1>7, ElementOfSeq DEF Started
<1>11. QueueInOrder
  <2> SUFFICES ASSUME NEW i \in 1..Len(items), NEW j \in 1..Len(items), i < j
               PROVE  /\ kind = "likes" => items[i].track < items[j].track
                      /\ items[i].cycle <= items[j].cycle
                      /\ items[i].track = items[j].track => items[i].cycle < items[j].cycle
    BY <1>7 DEF QueueInOrder
  <2>1. items[i].track # items[j].track
    BY <1>2, <1>7 DEF Started, Distinct
  <2>2. kind = "likes" => items[i].track < items[j].track
    BY <1>2, <1>7 DEF Started, Increasing
  <2> QED
    BY <1>7, <2>1, <2>2
<1>12. Position(source)
  <2>1. CASE kind = "shuffle"
    BY <1>2, <1>7, <1>8, <2>1 DEF Started, Position
  <2>2. CASE kind # "shuffle"
    BY <1>2, <2>2 DEF Started, Position
  <2> QED
    BY <2>1, <2>2
<1>13. Behind
  <2>1. items[1].cycle = 0 /\ \A i \in 1..Len(items) : items[i].cycle <= source.cycle
    BY <1>2, <1>7, <1>8 DEF Started
  <2>2. ASSUME kind = "likes", NEW i \in 1..Len(items)
        PROVE  items[i].track <= source.cursor.after
    BY <1>2, <1>7, <2>2, Cursors DEF Started
  <2> QED
    BY <2>1, <2>2 DEF Behind
<1>14. Complete
  <2> SUFFICES ASSUME NEW t \in Stable
               PROVE  /\ kind = "likes" => \/ QueuedIn(t, 0)
                                           \/ source.hasMore /\ source.cursor.after < t
                      /\ kind = "shuffle" =>
                             /\ \A c \in 0..(source.cycle - 1) : QueuedIn(t, c)
                             /\ QueuedIn(t, source.cycle) \/ Due(source, t)
    BY DEF Complete
  <2>1. Listed(tracks, t) => QueuedIn(t, 0)
    BY <1>7 DEF Listed, QueuedIn
  <2>2. source.hasMore
    BY DEF Init, InitialSources
  <2>3. CASE kind = "likes"
    BY <1>2, <2>1, <2>2, <2>3, Cursors DEF Started, Stable
  <2>4. CASE kind = "shuffle"
    <3>1. source.cycle = 0 /\ source.cursor \in {NoCursor, BadCursor}
      BY <1>2, <2>4 DEF Started
    <3>2. t = source.excluded => QueuedIn(t, 0)
      BY <1>2, <1>7, <1>8, <2>4 DEF Started, QueuedIn
    <3>3. QueuedIn(t, source.cycle) \/ Due(source, t)
      BY <3>1, <3>2 DEF Due
    <3> QED
      BY <2>4, <3>1, <3>3
  <2> QED
    BY <2>3, <2>4
<1>15. \A r \in Requests : RequestGood(r)
  BY IdleType DEF Init, RequestGood, At
<1>16. playlist \in Seq(Entries(items)) /\ Tracks \ Volatile \subseteq ready
  BY DEF Init
<1> QED
  BY <1>7, <1>8, <1>9, <1>11, <1>12, <1>13, <1>14, <1>15, <1>16 DEF Inv

---------------------------------------------------------------------------
(* Playlists of consecutive items *)

\* Items that follow one another in the media sequence.
Chained(q) ==
    /\ q \in Seq(Item) /\ q # <<>>
    /\ \A i \in 1..Len(q) : i + 1 \in 1..Len(q) => q[i + 1].first = q[i].first + Count(q[i])

\* The types of the parts of an item.
LEMMA ItemParts ==
    ASSUME NEW q, Chained(q)
    PROVE  /\ Len(q) \in Nat /\ 1 \in 1..Len(q) /\ Len(q) \in 1..Len(q)
           /\ \A i \in 1..Len(q) : /\ q[i].track \in Tracks /\ q[i].first \in Nat
                                   /\ Count(q[i]) \in Nat \ {0} /\ q[i].cycle \in Nat
                                   /\ Segments[q[i].track] \in Seq(Nat)
                                   /\ Count(q[i]) = Len(Segments[q[i].track])
           /\ Total(q) = q[Len(q)].first + Count(q[Len(q)])
<1>1. q \in Seq(Item) /\ q # <<>> /\ Len(q) \in Nat \ {0}
  BY EmptySeq DEF Chained
<1>2. ASSUME NEW i \in 1..Len(q)
      PROVE  /\ q[i].track \in Tracks /\ q[i].first \in Nat /\ Count(q[i]) \in Nat \ {0}
             /\ q[i].cycle \in Nat /\ Segments[q[i].track] \in Seq(Nat)
             /\ Count(q[i]) = Len(Segments[q[i].track])
  <2>1. q[i] \in Item
    BY <1>1, ElementOfSeq
  <2>2. q[i].track \in Tracks /\ q[i].first \in Nat /\ q[i].cycle \in Nat
    BY <2>1 DEF Item
  <2> QED
    BY <2>2, Assets, PlaybackConstants DEF Count
<1> QED
  BY <1>1, <1>2 DEF Total, Last

\* Later items come later in the media sequence.
LEMMA ChainedUp ==
    ASSUME NEW q, Chained(q)
    PROVE  /\ \A i, j \in 1..Len(q) : i < j => q[i].first + Count(q[i]) <= q[j].first
           /\ \A i \in 1..Len(q) : q[i].first + Count(q[i]) <= Total(q)
           /\ \A i \in 1..Len(q) : q[1].first <= q[i].first
<1>1. /\ Len(q) \in Nat /\ 1 \in 1..Len(q) /\ Len(q) \in 1..Len(q)
      /\ \A i \in 1..Len(q) : q[i].first \in Nat /\ Count(q[i]) \in Nat
      /\ Total(q) = q[Len(q)].first + Count(q[Len(q)])
  BY ItemParts
<1>2. ASSUME NEW i \in 1..Len(q), NEW j \in 1..Len(q), i < j
      PROVE  q[i].first + Count(q[i]) <= q[j].first
  <2> DEFINE M == {d \in 0..(Len(q) - i - 1) :
                      q[i].first + Count(q[i]) <= q[i + 1 + d].first}
  <2>1. i + 1 \in 1..Len(q) /\ Len(q) - i - 1 \in Nat
    BY <1>1, <1>2
  <2>2. q[i + 1].first = q[i].first + Count(q[i])
    BY <2>1 DEF Chained
  <2>3. 0 \in M
    <3>1. i + 1 + 0 = i + 1
      OBVIOUS
    <3>2. q[i].first + Count(q[i]) <= q[i + 1 + 0].first
      BY <1>1, <2>1, <2>2, <3>1
    <3> QED
      BY <2>1, <3>2
  <2>4. ASSUME NEW d \in 0..((Len(q) - i - 1) - 1), d \in M PROVE d + 1 \in M
    <3>1. PICK x : x = i + 1 + d
      OBVIOUS
    <3>2. x \in 1..Len(q) /\ x + 1 \in 1..Len(q) /\ i + 1 + (d + 1) = x + 1
          /\ d + 1 \in 0..(Len(q) - i - 1)
      BY <1>1, <2>1, <3>1
    <3>3. q[x + 1].first = q[x].first + Count(q[x])
      BY <3>2 DEF Chained
    <3>4. q[i].first + Count(q[i]) <= q[x].first
      BY <2>4, <3>1
    <3>5. /\ q[x].first \in Nat /\ Count(q[x]) \in Nat /\ q[x + 1].first \in Nat
          /\ q[i].first \in Nat /\ Count(q[i]) \in Nat
      BY <1>1, <3>2
    <3>6. q[i].first + Count(q[i]) <= q[x + 1].first
      BY <3>3, <3>4, <3>5
    <3> QED
      BY <3>2, <3>6
  <2>5. \A d \in 0..(Len(q) - i - 1) : d \in M
    <3> HIDE DEF M
    <3> QED
      BY <2>1, <2>3, <2>4, IntervalInduction
  <2>6. j - i - 1 \in 0..(Len(q) - i - 1) /\ i + 1 + (j - i - 1) = j
    BY <1>1, <1>2
  <2> QED
    BY <2>5, <2>6
<1>3. ASSUME NEW i \in 1..Len(q) PROVE q[i].first + Count(q[i]) <= Total(q)
  <2>1. i = Len(q) \/ i < Len(q)
    BY <1>1
  <2>2. /\ q[i].first \in Nat /\ Count(q[i]) \in Nat
        /\ q[Len(q)].first \in Nat /\ Count(q[Len(q)]) \in Nat
    BY <1>1
  <2>3. CASE i = Len(q)
    BY <1>1, <2>2, <2>3
  <2>4. CASE i < Len(q)
    <3>1. q[i].first + Count(q[i]) <= q[Len(q)].first
      BY <1>1, <1>2, <2>4
    <3> QED
      BY <1>1, <2>2, <3>1
  <2> QED
    BY <2>1, <2>3, <2>4
<1>4. ASSUME NEW i \in 1..Len(q) PROVE q[1].first <= q[i].first
  <2>1. i = 1 \/ 1 < i
    BY <1>1
  <2>2. q[1].first \in Nat /\ Count(q[1]) \in Nat /\ q[i].first \in Nat
    BY <1>1
  <2>3. CASE i = 1
    BY <2>2, <2>3
  <2>4. CASE 1 < i
    <3>1. q[1].first + Count(q[1]) <= q[i].first
      BY <1>1, <1>2, <2>4
    <3> QED
      BY <2>2, <3>1
  <2> QED
    BY <2>1, <2>3, <2>4
<1> QED
  BY <1>2, <1>3, <1>4

\* The durations of the segments of consecutive items.
LEMMA DurationsLaid ==
    ASSUME NEW q, Chained(q)
    PROVE  /\ Durations(q) \in Seq(Nat)
           /\ Len(Durations(q)) = Total(q) - q[1].first
           /\ \A i \in 1..Len(q) : \A k \in 1..Count(q[i]) :
                  /\ (q[i].first - q[1].first) + k \in 1..Len(Durations(q))
                  /\ Durations(q)[(q[i].first - q[1].first) + k] = Segments[q[i].track][k]
<1>1. PICK n : n = Len(q)
  OBVIOUS
<1>2. PICK a : a = q[1].first
  OBVIOUS
<1>3. PICK ss : ss = [i \in 1..n |-> Segments[q[i].track]]
  OBVIOUS
<1>4. PICK o : o = [i \in 1..(n + 1) |-> IF i = n + 1 THEN Total(q) - a ELSE q[i].first - a]
  OBVIOUS
<1>5. /\ n \in Nat /\ 1 \in 1..n /\ n \in 1..n /\ a \in Nat
      /\ \A i \in 1..n : /\ q[i].first \in Nat /\ Count(q[i]) \in Nat
                         /\ Segments[q[i].track] \in Seq(Nat)
                         /\ Count(q[i]) = Len(Segments[q[i].track])
                         /\ a <= q[i].first
      /\ Total(q) = q[n].first + Count(q[n])
  BY <1>1, <1>2, ItemParts, ChainedUp
<1>6. ss \in Seq(Seq(Nat)) /\ Len(ss) = n
  <2>1. ss \in [1..n -> Seq(Nat)]
    BY <1>3, <1>5
  <2>2. n \in Nat
    BY <1>5
  <2> QED
    BY <2>1, <2>2
<1>7. \A i \in 1..n : o[i] = q[i].first - a /\ o[i] \in Nat
  BY <1>4, <1>5
<1>8. ASSUME NEW i \in 1..n PROVE o[i + 1] = o[i] + Len(ss[i])
  <2>1. Len(ss[i]) = Count(q[i]) /\ o[i] = q[i].first - a /\ q[i].first \in Nat
        /\ Count(q[i]) \in Nat
    BY <1>3, <1>5, <1>7
  <2>2. CASE i = n
    <3>1. o[n + 1] = Total(q) - a
      BY <1>4, <1>5
    <3> QED
      BY <1>5, <2>1, <2>2, <3>1
  <2>3. CASE i # n
    <3>1. i + 1 \in 1..n
      BY <1>5, <2>3
    <3>2. q[i + 1].first = q[i].first + Count(q[i])
      BY <1>1, <3>1 DEF Chained
    <3>3. o[i + 1] = q[i + 1].first - a
      BY <1>7, <3>1
    <3> QED
      BY <1>5, <2>1, <3>2, <3>3
  <2> QED
    BY <2>2, <2>3
<1>9. Places(o, ss)
  <2>1. o[1] = 0
    BY <1>2, <1>5, <1>7
  <2> QED
    BY <1>6, <1>7, <1>8, <2>1 DEF Places
<1>10. Laid(FlattenSeq(ss), Nat, ss, o, n)
  BY <1>6, <1>9, Flattened
<1>11. Durations(q) = FlattenSeq(ss)
  <2>1. DOMAIN q = 1..n
    BY <1>1, LenProperties DEF Chained
  <2> QED
    BY <1>3, <2>1 DEF Durations
<1>12. o[n + 1] = Total(q) - a
  BY <1>4, <1>5
<1>13. ASSUME NEW i \in 1..n, NEW k \in 1..Count(q[i])
       PROVE  /\ (q[i].first - a) + k \in 1..Len(Durations(q))
              /\ Durations(q)[(q[i].first - a) + k] = Segments[q[i].track][k]
  <2>1. k \in 1..Len(ss[i]) /\ ss[i] = Segments[q[i].track] /\ o[i] = q[i].first - a
    BY <1>3, <1>5, <1>7
  <2> QED
    BY <1>10, <1>11, <2>1 DEF Laid
<1> QED
  BY <1>1, <1>2, <1>10, <1>11, <1>12, <1>13 DEF Laid

\* The segments <<ordinal, index>> of items that begin at ordinal "from".
EntriesFrom(q, from) ==
    {e \in Nat \X Nat : /\ e[1] - from + 1 \in 1..Len(q)
                        /\ e[2] \in 1..Count(q[e[1] - from + 1])}

\* e lists the segments of q after the first m ones, with ordinals that begin at "from".
ListsAfter(e, q, from, m) ==
    /\ e \in Seq(EntriesFrom(q, from)) /\ Len(e) = Greater(Total(q), m) - m
    /\ \A i \in 1..Len(q) : \A k \in 1..Count(q[i]) :
           q[i].first + k > m => /\ q[i].first + k - m \in 1..Len(e)
                                 /\ e[q[i].first + k - m] = <<from + i - 1, k>>

\* What a playlist of consecutive items lists after the first n segments.
LEMMA EmittedLaid ==
    ASSUME NEW q, Chained(q), NEW from \in Nat \ {0}, NEW n \in Nat,
           NEW u, u = Greater(n, q[1].first)
    PROVE  u \in Nat /\ ListsAfter(Emitted(q, from, n), q, from, u)
<1>1. PICK l : l = Len(q)
  OBVIOUS
<1>2. PICK a : a = q[1].first
  OBVIOUS
<1>3. PICK m : m = Greater(n, a)
  OBVIOUS
<1>4. PICK skipped : skipped = [i \in 1..l |-> IF n > q[i].first
                                               THEN Lesser(Count(q[i]), n - q[i].first) ELSE 0]
  OBVIOUS
<1>5. PICK ss : ss = [i \in 1..l |-> [k \in 1..(Count(q[i]) - skipped[i]) |->
                                         <<from + i - 1, k + skipped[i]>>]]
  OBVIOUS
<1>6. PICK o : o = [i \in 1..(l + 1) |-> IF i = l + 1 THEN Greater(Total(q), m) - m
                                         ELSE Greater(q[i].first, m) - m]
  OBVIOUS
<1>7. /\ l \in Nat /\ 1 \in 1..l /\ l \in 1..l /\ a \in Nat
      /\ \A i \in 1..l : /\ q[i].first \in Nat /\ Count(q[i]) \in Nat
                         /\ a <= q[i].first
      /\ Total(q) = q[l].first + Count(q[l]) /\ Total(q) \in Nat
  BY <1>1, <1>2, ItemParts, ChainedUp
<1>8. m \in Nat /\ a <= m /\ (m = n \/ (m = a /\ n <= a))
  BY <1>3, <1>7 DEF Greater
<1>9. ASSUME NEW i \in 1..l
      PROVE  /\ skipped[i] \in Nat /\ Count(q[i]) - skipped[i] \in Nat
             /\ Count(q[i]) - skipped[i]
                    = Greater(q[i].first + Count(q[i]), m) - Greater(q[i].first, m)
             /\ Greater(q[i].first, m) - m \in Nat
             /\ q[i].first + skipped[i] = Greater(q[i].first, m) \/ skipped[i] = Count(q[i])
             /\ skipped[i] = Count(q[i]) => q[i].first + Count(q[i]) <= m \/ Count(q[i]) = 0
  <2>1. PICK f \in Nat, c \in Nat : f = q[i].first /\ c = Count(q[i]) /\ a <= f
    BY <1>7
  <2>2. PICK s : s = skipped[i]
    OBVIOUS
  <2>3. s = IF n > f THEN Lesser(c, n - f) ELSE 0
    BY <1>4, <2>1, <2>2
  <2>4. n > f => m = n
    BY <1>7, <1>8, <2>1
  <2>5. ~(n > f) => m <= f
    BY <1>7, <1>8, <2>1
  <2>6. CASE n > f
    BY <1>8, <2>1, <2>2, <2>3, <2>4, <2>6 DEF Lesser, Greater
  <2>7. CASE ~(n > f)
    BY <1>8, <2>1, <2>2, <2>3, <2>5, <2>7 DEF Lesser, Greater
  <2> QED
    BY <2>6, <2>7
<1>10. PICK T : T = EntriesFrom(q, from)
  OBVIOUS
<1>11. ASSUME NEW i \in 1..l
       PROVE  ss[i] \in Seq(T) /\ Len(ss[i]) = Count(q[i]) - skipped[i]
              /\ \A k \in 1..Len(ss[i]) : ss[i][k] = <<from + i - 1, k + skipped[i]>>
  <2>1. PICK c \in Nat, s \in Nat : c = Count(q[i]) /\ s = skipped[i] /\ c - s \in Nat
    BY <1>7, <1>9
  <2>2. ss[i] = [k \in 1..(c - s) |-> <<from + i - 1, k + s>>]
    BY <1>5, <2>1
  <2>3. \A k \in 1..(c - s) : <<from + i - 1, k + s>> \in T
    <3> SUFFICES ASSUME NEW k \in 1..(c - s) PROVE <<from + i - 1, k + s>> \in T
      OBVIOUS
    <3>1. from + i - 1 \in Nat /\ k + s \in Nat /\ (from + i - 1) - from + 1 = i
      BY <1>7
    <3>2. k + s \in 1..c
      BY <2>1
    <3> QED
      BY <1>1, <1>10, <2>1, <3>1, <3>2 DEF EntriesFrom
  <2>4. PICK d \in Nat : d = c - s
    BY <2>1
  <2>5. PICK x : x = ss[i]
    OBVIOUS
  <2>6. x = [k \in 1..d |-> <<from + i - 1, k + s>>]
    BY <2>2, <2>4, <2>5
  <2>7. x \in [1..d -> T]
    BY <2>3, <2>4, <2>6
  <2>8. x \in Seq(T) /\ Len(x) = d
    BY <2>7
  <2>9. \A k \in 1..d : x[k] = <<from + i - 1, k + s>>
    BY <2>6
  <2> QED
    BY <2>1, <2>4, <2>5, <2>8, <2>9
<1>12. ss \in Seq(Seq(T)) /\ Len(ss) = l
  <2>1. ss \in [1..l -> Seq(T)]
    BY <1>5, <1>11
  <2> QED
    BY <1>7, <2>1
<1>13. \A i \in 1..l : o[i] = Greater(q[i].first, m) - m /\ o[i] \in Nat
  BY <1>6, <1>7, <1>9
<1>14. ASSUME NEW i \in 1..l PROVE o[i + 1] = o[i] + Len(ss[i])
  <2>1. PICK g : g = Greater(q[i].first + Count(q[i]), m)
    OBVIOUS
  <2>2. PICK h : h = Greater(q[i].first, m)
    OBVIOUS
  <2>3. g \in Nat /\ h \in Nat
    BY <1>7, <1>8, <2>1, <2>2 DEF Greater
  <2>4. Len(ss[i]) = g - h /\ o[i] = h - m
    BY <1>9, <1>11, <1>13, <2>1, <2>2
  <2>5. o[i + 1] = g - m
    <3>1. CASE i = l
      BY <1>6, <1>7, <2>1, <3>1
    <3>2. CASE i # l
      <4>1. i + 1 \in 1..l
        BY <1>7, <3>2
      <4>2. q[i + 1].first = q[i].first + Count(q[i])
        BY <1>1, <4>1 DEF Chained
      <4> QED
        BY <1>13, <2>1, <4>1, <4>2
    <3> QED
      BY <3>1, <3>2
  <2> QED
    BY <1>8, <2>3, <2>4, <2>5
<1>15. Places(o, ss)
  <2>1. o[1] = 0
    BY <1>2, <1>7, <1>8, <1>13 DEF Greater
  <2> QED
    BY <1>12, <1>13, <1>14, <2>1 DEF Places
<1>16. PICK e : e = FlattenSeq(ss)
  OBVIOUS
<1>17. Laid(e, T, ss, o, l)
  BY <1>12, <1>15, <1>16, Flattened
<1>18. Emitted(q, from, n) = e
  <2>1. DOMAIN q = 1..l
    BY <1>1, LenProperties DEF Chained
  <2>2. \A i \in 1..l : skipped[i] = IF n > q[i].first
                                     THEN Lesser(Count(q[i]), n - q[i].first) ELSE 0
    BY <1>4
  <2> QED
    BY <1>5, <1>16, <2>1, <2>2 DEF Emitted
<1>19. Len(e) = Greater(Total(q), m) - m
  <2>1. o[l + 1] = Greater(Total(q), m) - m
    BY <1>6, <1>7
  <2> QED
    BY <1>17, <2>1 DEF Laid
<1>20. ASSUME NEW i \in 1..l, NEW k \in 1..Count(q[i]), q[i].first + k > m
       PROVE  /\ q[i].first + k - m \in 1..Len(e)
              /\ e[q[i].first + k - m] = <<from + i - 1, k>>
  <2>1. PICK f \in Nat, c \in Nat, s \in Nat :
            f = q[i].first /\ c = Count(q[i]) /\ s = skipped[i] /\ c - s \in Nat
    BY <1>7, <1>9
  <2>2. k \in Nat /\ k <= c /\ f + k > m
    BY <1>20, <2>1
  <2>3. f + s = Greater(f, m)
    <3>1. s # c
      BY <1>8, <1>9, <2>1, <2>2
    <3> QED
      BY <1>9, <2>1, <3>1
  <2>4. k - s \in 1..(c - s)
    BY <1>8, <2>1, <2>2, <2>3 DEF Greater
  <2>5. o[i] = f + s - m
    <3>1. o[i] = Greater(f, m) - m
      BY <1>13, <2>1
    <3>2. PICK g \in Nat : g = Greater(f, m)
      BY <2>1, <2>3
    <3>3. g = f + s /\ o[i] = g - m
      BY <2>3, <3>1, <3>2
    <3> QED
      BY <1>8, <3>3
  <2>6. o[i] + (k - s) = f + k - m
    BY <1>8, <2>1, <2>2, <2>5
  <2>7. k - s \in 1..Len(ss[i]) /\ (k - s) + s = k
    BY <1>11, <2>1, <2>2, <2>4
  <2>8. ss[i][k - s] = <<from + i - 1, k>>
    BY <1>11, <2>1, <2>7
  <2>9. o[i] + (k - s) \in 1..Len(e) /\ e[o[i] + (k - s)] = ss[i][k - s]
    BY <1>17, <2>7 DEF Laid
  <2> QED
    BY <2>1, <2>6, <2>8, <2>9
<1>21. e \in Seq(T)
  BY <1>17 DEF Laid
<1>22. ListsAfter(e, q, from, m)
  BY <1>1, <1>10, <1>19, <1>20, <1>21 DEF ListsAfter
<1> QED
  BY <1>2, <1>3, <1>8, <1>18, <1>22

\* Segments enough for the end of a delta playlist.
Enough(d, n) == n >= TailSegments /\ LastOf(d, n) >= TailDuration

\* What a delta playlist has to keep: the least that is enough, or everything.
LEMMA RetainedLeast ==
    ASSUME NEW d \in Seq(Nat)
    PROVE  /\ Retained(d) \in 0..Len(d) /\ Len(d) \in Nat
           /\ d # <<>> => Retained(d) > 0
           /\ \A n \in 0..Len(d) : Enough(d, n) =>
                  Enough(d, Retained(d)) /\ Retained(d) <= n
           /\ Enough(d, Retained(d)) \/ Retained(d) = Len(d)
<1> DEFINE S == {n \in 0..Len(d) : n >= TailSegments /\ LastOf(d, n) >= TailDuration}
<1>1. Len(d) \in Nat /\ (d # <<>> => Len(d) > 0) /\ TailSegments \in Nat /\ TailSegments > 0
  BY EmptySeq, PlaybackConstants
<1>2. CASE S = {}
  <2>1. Retained(d) = Len(d)
    BY <1>2 DEF Retained
  <2> QED
    BY <1>1, <1>2, <2>1 DEF Enough
<1>3. CASE S # {}
  <2>1. PICK n \in S : \A m \in S : n <= m
    <3>1. S \in SUBSET Nat
      BY <1>1
    <3> HIDE DEF S
    <3> QED
      BY <1>3, <3>1, LeastNumber
  <2>2. Retained(d) = Min(S)
    BY <1>3 DEF Retained
  <2>3. Min(S) \in S /\ \A m \in S : Min(S) <= m
    <3> HIDE DEF S
    <3> QED
      BY <2>1 DEF Min
  <2>4. PICK k : k = Retained(d)
    OBVIOUS
  <2>5. k \in S /\ \A m \in S : k <= m
    BY <2>2, <2>3, <2>4
  <2>6. k \in 0..Len(d) /\ k > 0 /\ Enough(d, k)
    BY <1>1, <2>5 DEF Enough
  <2>7. \A m \in 0..Len(d) : Enough(d, m) => k <= m
    BY <2>5 DEF Enough
  <2> QED
    BY <1>1, <2>4, <2>6, <2>7
<1> QED
  BY <1>2, <1>3

---------------------------------------------------------------------------
(* Steps that leave the queue alone *)

\* Positions and pages do not depend on the queue beyond its first item.
LEMMA Steady ==
    ASSUME kind' = kind, items'[1] = items[1]
    PROVE  /\ \A s : Position(s) => Position(s)'
           /\ \A s, page, next : PageGood(s, page, next) => PageGood(s, page, next)'
<1>1. \A s : Position(s) => Position(s)'
  BY DEF Position
<1>2. \A s : Continues(s) => Continues(s)'
  BY DEF Continues
<1>3. \A s, page, next : PageInOrder(s, page, next) => PageInOrder(s, page, next)'
  BY DEF PageInOrder
<1>4. \A s, page, next : PageWhole(s, page, next) => PageWhole(s, page, next)'
  BY DEF PageWhole
<1> QED
  BY <1>1, <1>2, <1>3, <1>4 DEF PageGood

\* The queue and its source, and what the invariant says about them.
QueueInv ==
    /\ items # <<>> /\ Contiguous(items) /\ QueueInOrder
    /\ Position(source) /\ Behind /\ Complete

\* A step that leaves the source and the items alone keeps what is true of them.
LEMMA QueueKept ==
    ASSUME QueueInv, kind' = kind, source' = source, items' = items
    PROVE  QueueInv'
<1>1. Position(source)'
  BY DEF QueueInv, Position
<1>2. (items # <<>> /\ Contiguous(items) /\ QueueInOrder)'
  BY DEF QueueInv, Contiguous, QueueInOrder
<1>3. Behind'
  BY DEF QueueInv, Behind
<1>4. Complete'
  BY DEF QueueInv, Complete, QueuedIn
<1> QED
  BY <1>1, <1>2, <1>3, <1>4 DEF QueueInv

\* A step of one request that leaves the queue alone.
LEMMA RequestMoves ==
    ASSUME Inv, NEW r \in Requests, NEW x \in Request, req' = [req EXCEPT ![r] = x],
           UNCHANGED <<kind, ready, sessionVars, startAt>>,
           playlist' \in Seq(Entries(items)), ended' \in BOOLEAN,
           awaiting' \in Requests \cup {NoRequest},
           x.pc = "fetch" => Position(x.seen),
           x.pc = "append" => PageGood(x.seen, x.page, x.next),
           x.pc = "render" => x.from <= Len(items)
    PROVE  Inv'
<1>1. kind' = kind /\ ready' = ready /\ source' = source /\ items' = items
      /\ fetched' = fetched /\ startAt' = startAt
  BY DEF sessionVars
<1>2. QueueInv'
  BY <1>1, QueueKept DEF Inv, QueueInv
<1>3. req \in [Requests -> Request]
  BY DEF Inv, TypeOK
<1>4. req' \in [Requests -> Request] /\ req'[r] = x
      /\ \A q \in Requests : q # r => req'[q] = req[q]
  BY <1>3
<1>5. \A i \in DOMAIN playlist' : playlist'[i] \in Nat \X Nat
  BY LenProperties, ElementOfSeq DEF Entries
<1>6. TypeOK'
  BY <1>1, <1>4, <1>5 DEF Inv, TypeOK
<1>7. ASSUME NEW q \in Requests PROVE RequestGood(q)'
  <2>1. /\ \A s : Position(s) => Position(s)'
        /\ \A s, page, next : PageGood(s, page, next) => PageGood(s, page, next)'
    BY <1>1, Steady
  <2>2. CASE q = r
    BY <1>1, <1>4, <2>1, <2>2 DEF RequestGood, At
  <2>3. CASE q # r
    <3>1. RequestGood(q)
      BY DEF Inv
    <3> QED
      BY <1>1, <1>4, <2>1, <2>3, <3>1 DEF RequestGood, At
  <2> QED
    BY <2>2, <2>3
<1>8. playlist' \in Seq(Entries(items'))
  BY <1>1
<1>9. Tracks \ Volatile \subseteq ready'
  BY <1>1 DEF Inv
<1> QED
  BY <1>2, <1>6, <1>7, <1>8, <1>9 DEF Inv, QueueInv

\* The parts of a request.
LEMMA RequestParts ==
    ASSUME Inv, NEW r \in Requests
    PROVE  /\ req[r] \in Request /\ req[r].seen \in Source /\ req[r].next \in Source
           /\ req[r].page \in Seq(Tracks) /\ req[r].tries \in Nat
           /\ req[r].delta \in BOOLEAN /\ req[r].active \in BOOLEAN
           /\ req[r].skip \in Nat /\ req[r].from \in Nat \ {0}
  BY DEF Inv, TypeOK, Request

\* Steps that only take a request from one place to another.
LEMMA SimpleSteps ==
    ASSUME Inv, NEW r \in Requests,
           \/ LoadSession(r) \/ LimitExceeded(r) \/ HorizonReached(r)
           \/ AppendRace(r) \/ AppendRaceRefused(r) \/ ReadRecord(r)
           \/ \E delta \in BOOLEAN : AskManifest(r, delta)
    PROVE  Inv'
<1>1. /\ req[r] \in Request /\ req[r].tries \in Nat /\ req[r].delta \in BOOLEAN
      /\ req[r].tries + 1 \in Nat
  BY RequestParts
<1>2. /\ source \in Source /\ fetched \in Nat \cup {-1} /\ Position(source)
      /\ ended \in BOOLEAN /\ awaiting \in Requests \cup {NoRequest}
      /\ playlist \in Seq(Entries(items))
  BY DEF Inv, TypeOK
<1>3. Idle \in Request /\ Idle.pc = "idle" /\ Idle.tries \in Nat /\ Idle.delta \in BOOLEAN
      /\ Idle.active \in BOOLEAN /\ Idle.skip \in Nat
  BY IdleType DEF Request
<1>4. CASE LoadSession(r)
  <2>1. PICK x : x = [req[r] EXCEPT !.pc = "fetch", !.seen = source, !.reached = fetched]
    OBVIOUS
  <2>2. x \in Request /\ x.pc = "fetch" /\ x.seen = source
    <3>1. "fetch" \in RequestPC
      BY DEF RequestPC
    <3> QED
      BY <1>1, <1>2, <2>1, <3>1 DEF Request
  <2>3. req' = [req EXCEPT ![r] = x] /\ UNCHANGED <<kind, ready, sessionVars, startAt>>
        /\ playlist' = playlist /\ ended' = ended /\ awaiting' = awaiting
    BY <1>4, <2>1 DEF LoadSession, clientVars
  <2> QED
    BY <1>2, <2>2, <2>3, RequestMoves
<1>5. CASE LimitExceeded(r) \/ AppendRaceRefused(r)
  <2>1. /\ req' = [req EXCEPT ![r] = Idle]
        /\ UNCHANGED <<kind, ready, sessionVars, startAt>>
        /\ playlist' = playlist /\ ended' = ended /\ awaiting' \in {NoRequest, awaiting}
    BY <1>5 DEF LimitExceeded, AppendRaceRefused, Refuse
  <2>2. awaiting' \in Requests \cup {NoRequest} /\ Idle.pc = "idle"
    BY <1>2, <1>3, <2>1
  <2> QED
    BY <1>2, <1>3, <2>1, <2>2, RequestMoves
<1>6. CASE HorizonReached(r)
  <2>1. PICK x : x = [Idle EXCEPT !.pc = "record", !.delta = req[r].delta]
    OBVIOUS
  <2>2. PICK i \in Request : i = Idle
    BY <1>3
  <2>3. x \in Request /\ x.pc = "record"
    <3>1. "record" \in RequestPC
      BY DEF RequestPC
    <3>2. x = [i EXCEPT !.pc = "record", !.delta = req[r].delta]
      BY <2>1, <2>2
    <3> QED
      BY <1>1, <3>1, <3>2 DEF Request
  <2>4. req' = [req EXCEPT ![r] = x] /\ UNCHANGED <<kind, ready, sessionVars, startAt>>
        /\ playlist' = playlist /\ ended' = ended /\ awaiting' = awaiting
    BY <1>6, <2>1 DEF HorizonReached, clientVars
  <2> QED
    BY <1>2, <2>3, <2>4, RequestMoves
<1>7. CASE AppendRace(r)
  <2>1. PICK x : x = [Idle EXCEPT !.pc = "load", !.tries = req[r].tries + 1,
                                  !.delta = req[r].delta]
    OBVIOUS
  <2>2. PICK i \in Request : i = Idle
    BY <1>3
  <2>3. x \in Request /\ x.pc = "load"
    <3>1. "load" \in RequestPC
      BY DEF RequestPC
    <3>2. x = [i EXCEPT !.pc = "load", !.tries = req[r].tries + 1, !.delta = req[r].delta]
      BY <2>1, <2>2
    <3> QED
      BY <1>1, <3>1, <3>2 DEF Request
  <2>4. req' = [req EXCEPT ![r] = x] /\ UNCHANGED <<kind, ready, sessionVars, startAt>>
        /\ playlist' = playlist /\ ended' = ended /\ awaiting' = awaiting
    BY <1>7, <2>1 DEF AppendRace, Again, clientVars
  <2> QED
    BY <1>2, <2>3, <2>4, RequestMoves
<1>8. CASE ReadRecord(r)
  <2>1. PICK skip \in {fetched + 1} \cup {Lesser(fetched + 1, n) : n \in Msn} :
            req' = [req EXCEPT ![r] = [Idle EXCEPT !.pc = "plan", !.delta = req[r].delta,
                                                   !.skip = skip,
                                                   !.active = Continues(source)]]
    BY <1>8 DEF ReadRecord
  <2>2. skip \in Nat
    BY <1>2, <2>1, PlaybackConstants DEF Lesser
  <2>3. PICK active \in BOOLEAN : active = Continues(source)
    BY <1>2 DEF Continues, Source
  <2>4. PICK x : x = [Idle EXCEPT !.pc = "plan", !.delta = req[r].delta, !.skip = skip,
                                  !.active = active]
    OBVIOUS
  <2>5. PICK i \in Request : i = Idle
    BY <1>3
  <2>6. x \in Request /\ x.pc = "plan"
    <3>1. "plan" \in RequestPC
      BY DEF RequestPC
    <3>2. x = [i EXCEPT !.pc = "plan", !.delta = req[r].delta, !.skip = skip,
                        !.active = active]
      BY <2>4, <2>5
    <3> QED
      BY <1>1, <2>2, <3>1, <3>2 DEF Request
  <2>7. req' = [req EXCEPT ![r] = x] /\ UNCHANGED <<kind, ready, sessionVars, startAt>>
        /\ playlist' = playlist /\ ended' = ended /\ awaiting' = awaiting
    BY <1>8, <2>1, <2>3, <2>4 DEF ReadRecord, clientVars
  <2> QED
    BY <1>2, <2>6, <2>7, RequestMoves
<1>9. CASE \E delta \in BOOLEAN : AskManifest(r, delta)
  <2>1. PICK delta \in BOOLEAN : AskManifest(r, delta)
    BY <1>9
  <2>2. PICK x : x = [req[r] EXCEPT !.pc = "load", !.delta = delta]
    OBVIOUS
  <2>3. x \in Request /\ x.pc = "load"
    <3>1. "load" \in RequestPC
      BY DEF RequestPC
    <3> QED
      BY <1>1, <2>2, <3>1 DEF Request
  <2>4. req' = [req EXCEPT ![r] = x] /\ UNCHANGED <<kind, ready, sessionVars, startAt>>
        /\ playlist' = playlist /\ ended' = ended /\ awaiting' = r
    BY <2>1, <2>2 DEF AskManifest
  <2> QED
    BY <1>2, <2>3, <2>4, RequestMoves
<1> QED
  BY <1>4, <1>5, <1>6, <1>7, <1>8, <1>9

\* What a request keeps of a good page, its tracks with an asset, is a good page.
LEMMA FetchPageStep ==
    ASSUME Inv, NEW r \in Requests, FetchPage(r)
    PROVE  Inv'
<1>1. PICK s : s = req[r].seen
  OBVIOUS
<1>2. s \in Source /\ req[r] \in Request
  BY <1>1, RequestParts
<1>3. Continues(s) /\ Position(s)
  BY <1>1 DEF FetchPage, NeedsContinuation, Inv, RequestGood
<1>4. kind \in Kinds /\ ready \subseteq Tracks /\ Tracks \ Volatile \subseteq ready
  BY DEF Inv, TypeOK
<1>5. PICK p \in Pages(s) :
          req' = [req EXCEPT ![r] =
                    [@ EXCEPT !.pc = "append", !.empty = (p.tracks = <<>>),
                              !.page = Keep(p.tracks, Tracks \ Unprepared), !.next = p.next]]
  BY <1>1 DEF FetchPage
<1>6. /\ p.tracks \in Seq(Tracks) /\ p.next \in Source
      /\ PageGood(s, p.tracks, p.next)
  BY <1>2, <1>3, <1>4, <1>5, PagesGood
<1>7. PICK page : page = Keep(p.tracks, Tracks \ Unprepared)
  OBVIOUS
<1>8. page \in Seq(Tracks) /\ PageGood(s, page, p.next)
  BY <1>6, <1>7, PageKept, KeptPage
<1>9. PICK empty \in BOOLEAN : empty = (p.tracks = <<>>)
  OBVIOUS
<1>10. PICK next \in Source : next = p.next
  BY <1>6
<1>11. PICK x : x = [req[r] EXCEPT !.pc = "append", !.empty = empty, !.page = page,
                                   !.next = next]
  OBVIOUS
<1>12. x \in Request /\ x.pc = "append" /\ x.seen = s /\ x.page = page /\ x.next = next
  <2>1. "append" \in RequestPC
    BY DEF RequestPC
  <2> QED
    BY <1>1, <1>2, <1>8, <1>11, <2>1 DEF Request
<1>13. req' = [req EXCEPT ![r] = x]
  BY <1>5, <1>7, <1>9, <1>10, <1>11
<1>14. /\ UNCHANGED <<kind, ready, sessionVars, startAt>>
       /\ playlist' = playlist /\ ended' = ended /\ awaiting' = awaiting
  BY DEF FetchPage, clientVars
<1>15. PageGood(x.seen, x.page, x.next)
  BY <1>8, <1>10, <1>12
<1>16. /\ playlist' \in Seq(Entries(items)) /\ ended' \in BOOLEAN
       /\ awaiting' \in Requests \cup {NoRequest}
  BY <1>14 DEF Inv, TypeOK
<1> QED
  BY <1>12, <1>13, <1>14, <1>15, <1>16, RequestMoves

\* The queue is a chain of items that starts at 0.
LEMMA ItemsChained ==
    ASSUME Inv
    PROVE  /\ Chained(items) /\ items[1].first = 0 /\ items \in Seq(Item)
           /\ Durations(items) \in Seq(Nat) /\ Durations(items) # <<>>
           /\ Len(Durations(items)) = Total(items) /\ Total(items) \in Nat
<1>1. items \in Seq(Item) /\ items # <<>> /\ Contiguous(items)
  BY DEF Inv, TypeOK
<1>2. Len(items) \in Nat /\ 1 \in 1..Len(items)
  BY <1>1, EmptySeq
<1>3. items[1].first = 0
  BY <1>1, <1>2 DEF Contiguous
<1>4. Chained(items)
  <2> SUFFICES ASSUME NEW i \in 1..Len(items), i + 1 \in 1..Len(items)
               PROVE  items[i + 1].first = items[i].first + Count(items[i])
    BY <1>1 DEF Chained
  <2>1. PICK j \in 1..Len(items) : j = i + 1
    OBVIOUS
  <2>2. j # 1 /\ j - 1 = i
    BY <1>2, <2>1
  <2>3. items[j].first = items[j - 1].first + Count(items[j - 1])
    BY <1>1, <2>2 DEF Contiguous
  <2> QED
    BY <2>1, <2>2, <2>3
<1>5. /\ Total(items) = items[Len(items)].first + Count(items[Len(items)])
      /\ items[Len(items)].first \in Nat /\ Count(items[Len(items)]) \in Nat \ {0}
  BY <1>4, ItemParts
<1>6. Total(items) \in Nat /\ Total(items) > 0
  BY <1>5
<1>7. PICK d : d = Durations(items)
  OBVIOUS
<1>8. d \in Seq(Nat) /\ Len(d) = Total(items) - items[1].first
  BY <1>4, <1>7, DurationsLaid
<1>9. Len(d) = Total(items)
  BY <1>3, <1>6, <1>8
<1>10. d # <<>>
  BY <1>6, <1>9
<1> QED
  BY <1>1, <1>3, <1>4, <1>6, <1>7, <1>8, <1>9, <1>10

\* How many segments a delta may skip at most, and the item it starts in.
PlanSkip(r) == Lesser(Greater(0, Total(items) - Retained(Durations(items))), req[r].skip)

\* The first item to load exists, and does not begin after what the delta skips.
LEMMA FirstLoaded ==
    ASSUME Inv, NEW r \in Requests
    PROVE  /\ PlanSkip(r) \in Nat /\ PlanSkip(r) < Total(items)
           /\ FirstToLoad(r) \in 1..Len(items)
           /\ FirstToLoad(r) # 1 =>
                  /\ req[r].delta /\ req[r].active
                  /\ items[FirstToLoad(r)].first <= PlanSkip(r)
<1>1. /\ Chained(items) /\ items[1].first = 0
      /\ Durations(items) \in Seq(Nat) /\ Durations(items) # <<>>
      /\ Len(Durations(items)) = Total(items) /\ Total(items) \in Nat
  BY ItemsChained
<1>2. Retained(Durations(items)) \in 0..Total(items) /\ Retained(Durations(items)) > 0
  BY <1>1, RetainedLeast
<1>3. req[r].skip \in Nat
  BY RequestParts
<1>4. PICK skip : skip = PlanSkip(r)
  OBVIOUS
<1>5. skip \in Nat /\ skip < Total(items)
  BY <1>1, <1>2, <1>3, <1>4 DEF PlanSkip, Lesser, Greater
<1>6. /\ Len(items) \in Nat /\ 1 \in 1..Len(items)
      /\ \A i \in 1..Len(items) : items[i].first \in Nat /\ Count(items[i]) \in Nat
      /\ Total(items) = items[Len(items)].first + Count(items[Len(items)])
      /\ DOMAIN items = 1..Len(items)
  BY <1>1, ItemParts, LenProperties DEF Chained
<1> DEFINE S == {j \in DOMAIN items : items[j].first <= skip}
<1>7. S \in SUBSET (0..Len(items)) /\ S # {}
  <2>1. 1 \in S
    BY <1>1, <1>5, <1>6
  <2> QED
    BY <1>6, <2>1
<1>8. PICK i : i = Max(S)
  OBVIOUS
<1>9. i \in S /\ \A j \in S : i >= j
  <2> HIDE DEF S
  <2>1. \E n \in S : \A m \in S : n >= m
    BY <1>6, <1>7, GreatestNumber
  <2> QED
    BY <1>8, <2>1 DEF Max
<1>10. i \in 1..Len(items) /\ items[i].first <= skip
  BY <1>6, <1>9
<1>11. ~(skip >= items[i].first + Count(items[i]))
  <2>1. CASE i = Len(items)
    BY <1>1, <1>5, <1>6, <1>10, <2>1
  <2>2. CASE i # Len(items)
    <3>1. i + 1 \in 1..Len(items) /\ ~(i >= i + 1)
      <4>1. PICK l \in Nat : l = Len(items)
        BY <1>6
      <4>2. i \in 1..l /\ i # l
        BY <1>10, <2>2, <4>1
      <4>3. i + 1 \in 1..l /\ ~(i >= i + 1)
        BY <4>2
      <4> QED
        BY <4>1, <4>3
    <3>2. i + 1 \notin S
      BY <1>9, <3>1
    <3>3. items[i + 1].first = items[i].first + Count(items[i])
      BY <1>1, <1>10, <3>1 DEF Chained
    <3>4. ~(items[i + 1].first <= skip)
      BY <1>6, <3>1, <3>2
    <3> QED
      BY <1>5, <1>6, <1>10, <3>1, <3>3, <3>4
  <2> QED
    BY <2>1, <2>2
<1>12. PICK n : n = FirstToLoad(r)
  OBVIOUS
<1>13. n = IF ~(req[r].delta /\ req[r].active) \/ skip = 0 THEN 1
           ELSE IF skip >= items[i].first + Count(items[i]) THEN i + 1 ELSE i
  BY <1>4, <1>8, <1>12 DEF FirstToLoad, PlanSkip
<1>14. n = 1 \/ (n = i /\ req[r].delta /\ req[r].active)
  <2> HIDE DEF S
  <2> QED
    BY <1>11, <1>13
<1>15. n \in 1..Len(items) /\ (n # 1 => req[r].delta /\ req[r].active /\ items[n].first <= skip)
  BY <1>6, <1>10, <1>14
<1> QED
  BY <1>4, <1>5, <1>12, <1>15

\* A request plans which item to load from.
LEMMA PlanLoadStep ==
    ASSUME Inv, NEW r \in Requests, PlanLoad(r)
    PROVE  Inv'
<1>1. PICK from : from = FirstToLoad(r)
  OBVIOUS
<1>2. from \in 1..Len(items) /\ Len(items) \in Nat
  BY <1>1, FirstLoaded, ItemsChained, LenProperties
<1>3. from \in Nat \ {0} /\ from <= Len(items)
  BY <1>2
<1>4. PICK x : x = [req[r] EXCEPT !.pc = "render", !.from = from]
  OBVIOUS
<1>5. x \in Request /\ x.pc = "render" /\ x.from = from
  <2>1. "render" \in RequestPC
    BY DEF RequestPC
  <2>2. req[r] \in Request
    BY RequestParts
  <2> QED
    BY <1>3, <1>4, <2>1, <2>2 DEF Request
<1>6. /\ req' = [req EXCEPT ![r] = x]
      /\ UNCHANGED <<kind, ready, sessionVars, startAt>>
      /\ playlist' = playlist /\ ended' = ended /\ awaiting' = awaiting
  BY <1>1, <1>4 DEF PlanLoad, clientVars
<1>7. /\ playlist' \in Seq(Entries(items)) /\ ended' \in BOOLEAN
      /\ awaiting' \in Requests \cup {NoRequest}
  BY <1>6 DEF Inv, TypeOK
<1> QED
  BY <1>3, <1>5, <1>6, <1>7, RequestMoves

\* The items from the ordinal "from" on.
LEMMA LoadedChained ==
    ASSUME NEW q, Chained(q), NEW from \in 1..Len(q), NEW loaded,
           loaded = SubSeq(q, from, Len(q))
    PROVE  /\ Chained(loaded) /\ Len(loaded) = Len(q) - from + 1
           /\ \A i \in 1..Len(loaded) :
                  from + i - 1 \in 1..Len(q) /\ loaded[i] = q[from + i - 1]
           /\ Total(loaded) = Total(q) /\ loaded[1].first = q[from].first
<1>1. Len(q) \in Nat /\ q \in Seq(Item) /\ \A i \in 1..Len(q) : q[i] \in Item
  BY LenProperties, ElementOfSeq DEF Chained
<1>2. PICK n \in Nat : n = Len(q) - from + 1
  <2>1. PICK l \in Nat : l = Len(q)
    BY <1>1
  <2>2. from \in 1..l
    BY <2>1
  <2>3. l - from + 1 \in Nat
    BY <2>2
  <2> QED
    BY <2>1, <2>3
<1>3. n > 0 /\ n - 1 = Len(q) - from /\ from \in Int /\ Len(q) \in Int /\ from <= Len(q)
  BY <1>1, <1>2
<1>4. \A i \in from..Len(q) : q[i] \in Item
  BY <1>1
<1>5. /\ loaded \in Seq(Item) /\ Len(loaded) = n
      /\ \A i \in 1..n : loaded[i] = q[from + i - 1]
  BY <1>2, <1>3, <1>4, SubSeqProperties
<1>6. \A i \in 1..n : from + i - 1 \in 1..Len(q)
  BY <1>1, <1>2
<1>7. loaded # <<>>
  <2>1. Len(loaded) # 0
    BY <1>3, <1>5
  <2> QED
    BY <2>1, EmptySeq
<1>8. ASSUME NEW i \in 1..n, i + 1 \in 1..n
      PROVE  loaded[i + 1].first = loaded[i].first + Count(loaded[i])
  <2>1. PICK j : j = from + i - 1
    OBVIOUS
  <2>2. j \in 1..Len(q) /\ j + 1 \in 1..Len(q) /\ from + (i + 1) - 1 = j + 1
    BY <1>6, <1>8, <2>1
  <2>3. loaded[i] = q[from + i - 1] /\ loaded[i + 1] = q[from + (i + 1) - 1]
    BY <1>5, <1>8
  <2>4. loaded[i] = q[j] /\ loaded[i + 1] = q[j + 1]
    BY <2>1, <2>2, <2>3
  <2>5. q[j + 1].first = q[j].first + Count(q[j])
    BY <2>2 DEF Chained
  <2> QED
    BY <2>4, <2>5
<1>9. Chained(loaded)
  BY <1>5, <1>7, <1>8 DEF Chained
<1>10. Last(loaded) = Last(q)
  <2>1. from + n - 1 = Len(q) /\ n \in 1..n
    BY <1>1, <1>2, <1>3
  <2> QED
    BY <1>5, <2>1 DEF Last
<1>11. loaded[1] = q[from]
  <2>1. 1 \in 1..n /\ from + 1 - 1 = from
    BY <1>3
  <2> QED
    BY <1>5, <2>1
<1> QED
  BY <1>2, <1>5, <1>6, <1>9, <1>10, <1>11 DEF Total

\* What is skipped when the items have been loaded.
LEMMA SkippedType ==
    ASSUME Inv, NEW r \in Requests, NEW loaded, Chained(loaded)
    PROVE  Skipped(r, loaded) \in Nat
<1>1. Durations(loaded) \in Seq(Nat)
  BY DurationsLaid
<1>2. Retained(Durations(loaded)) \in Nat
  BY <1>1, RetainedLeast
<1>3. Total(loaded) \in Nat /\ req[r].skip \in Nat
  BY ItemParts, RequestParts
<1>4. PICK retained \in Nat : retained = IF req[r].active THEN Retained(Durations(loaded)) ELSE 0
  BY <1>2
<1>5. PICK skippable \in Nat : skippable = Greater(0, Total(loaded) - retained)
  BY <1>3, <1>4 DEF Greater
<1>6. Lesser(skippable, req[r].skip) \in Nat
  BY <1>3 DEF Lesser
<1>7. PICK x : x = Lesser(skippable, req[r].skip)
  OBVIOUS
<1>8. Skipped(r, loaded) \in {x, 0}
  BY <1>4, <1>5, <1>7 DEF Skipped
<1> QED
  BY <1>6, <1>7, <1>8

\* The client's playlist stays one of segments of the queue.
LEMMA MergedType ==
    ASSUME NEW T, playlist \in Seq(T), NEW emitted \in Seq(T), NEW skip \in Nat
    PROVE  Merged(skip, emitted) \in Seq(T)
<1>1. Cut(playlist, skip) \in Seq(T)
  BY CutFirst
<1>2. Cut(playlist, skip) \o emitted \in Seq(T)
  BY <1>1, ConcatProperties
<1> QED
  BY <1>2 DEF Merged

\* A request answers with segments of the queue.
LEMMA RenderStep ==
    ASSUME Inv, NEW r \in Requests, Render(r)
    PROVE  Inv'
<1>1. PICK from \in 1..Len(items) : from = req[r].from
  <2>1. req[r].from \in Nat \ {0} /\ Len(items) \in Nat
    BY RequestParts, ItemsChained, LenProperties
  <2>2. req[r].from <= Len(items)
    BY DEF Render, Inv, RequestGood
  <2> QED
    BY <2>1, <2>2
<1>2. PICK loaded : loaded = SubSeq(items, from, Len(items))
  OBVIOUS
<1>3. /\ Chained(items) /\ Chained(loaded) /\ Len(loaded) = Len(items) - from + 1
      /\ \A i \in 1..Len(loaded) :
             from + i - 1 \in 1..Len(items) /\ loaded[i] = items[from + i - 1]
  <2>1. Chained(items)
    BY ItemsChained
  <2>2. Chained(loaded)
    BY <1>2, <2>1, LoadedChained
  <2>3. Len(loaded) = Len(items) - from + 1
    BY <1>2, <2>1, LoadedChained
  <2>4. \A i \in 1..Len(loaded) :
             from + i - 1 \in 1..Len(items) /\ loaded[i] = items[from + i - 1]
    BY <1>2, <2>1, LoadedChained
  <2> QED
    BY <2>1, <2>2, <2>3, <2>4
<1>4. PICK skip \in Nat : skip = Skipped(r, loaded)
  BY <1>3, SkippedType
<1>5. PICK e : e = Emitted(loaded, from, skip)
  OBVIOUS
<1>6. e \in Seq(EntriesFrom(loaded, from))
  <2>1. from \in Nat \ {0}
    BY <1>1
  <2> QED
    BY <1>3, <1>5, <2>1, EmittedLaid DEF ListsAfter
<1>7. EntriesFrom(loaded, from) \subseteq Entries(items)
  <2> SUFFICES ASSUME NEW x \in Nat \X Nat, x[1] - from + 1 \in 1..Len(loaded),
                      x[2] \in 1..Count(loaded[x[1] - from + 1])
               PROVE  x[1] \in 1..Len(items) /\ x[2] \in 1..Count(items[x[1]])
    BY DEF EntriesFrom, Entries
  <2>1. PICK i \in 1..Len(loaded) : i = x[1] - from + 1
    OBVIOUS
  <2>2. x[1] \in Nat /\ from \in Nat /\ Len(loaded) \in Nat
    BY <1>1, <1>3, ItemParts
  <2>3. x[1] = from + i - 1
    BY <2>1, <2>2
  <2> QED
    BY <1>3, <2>1, <2>3
<1>8. e \in Seq(Entries(items))
  BY <1>6, <1>7, SeqMonotonic
<1>9. playlist \in Seq(Entries(items))
  BY DEF Inv
<1>10. Merged(skip, e) \in Seq(Entries(items))
  BY <1>8, <1>9, MergedType
<1>11. \/ playlist' = Merged(skip, e) /\ ended' = ~req[r].active /\ awaiting' = NoRequest
       \/ playlist' = playlist /\ ended' = ended /\ awaiting' = awaiting
  BY <1>1, <1>2, <1>4, <1>5 DEF Render, clientVars
<1>12. playlist' \in Seq(Entries(items))
  BY <1>9, <1>10, <1>11
<1>13. ended' \in BOOLEAN /\ awaiting' \in Requests \cup {NoRequest}
  BY <1>11 DEF Inv, TypeOK
<1>14. Idle \in Request /\ Idle.pc = "idle" /\ req' = [req EXCEPT ![r] = Idle]
       /\ UNCHANGED <<kind, ready, sessionVars, startAt>>
  BY IdleType DEF Render
<1> QED
  BY <1>12, <1>13, <1>14, RequestMoves

---------------------------------------------------------------------------
(* The step that extends the queue *)

\* What AppendPage does: it queues the tracks of a good page that are not queued yet.
Appends(cycle, k, page, next) ==
    /\ source \in Source /\ cycle = source.cycle /\ cycle \in Nat
    /\ page \in Seq(Tracks) /\ next \in Source /\ PageGood(source, page, next)
    /\ k \in Seq(Tracks) /\ Len(k) \in Nat
    /\ Distinct(k) /\ (kind = "likes" => Increasing(k))
    /\ \A i \in 1..Len(k) : k[i] \notin Queued(cycle) /\ Listed(page, k[i])
    /\ \A t \in Tracks \ Queued(cycle) : Listed(page, t) => Listed(k, t)
    /\ Extends(items', items, k, Len(k), cycle)
    /\ source' = next /\ kind' = kind

\* AppendPage appends the good page of its request to the position it was fetched for.
LEMMA AppendPageDoes ==
    ASSUME Inv, NEW r \in Requests, AppendPage(r)
    PROVE  \E cycle, k, page, next : Appends(cycle, k, page, next)
<1>1. PICK page : page = req[r].page
  OBVIOUS
<1>2. PICK next : next = req[r].next
  OBVIOUS
<1>3. page \in Seq(Tracks) /\ next \in Source
  BY <1>1, <1>2, RequestParts
<1>4. At(r, "append") /\ source = req[r].seen
  BY DEF AppendPage
<1>5. PageGood(source, page, next)
  BY <1>1, <1>2, <1>4 DEF Inv, RequestGood
<1>6. source \in Source /\ items \in Seq(Item)
  BY DEF Inv, TypeOK
<1>7. PICK cycle : cycle = IF kind = "shuffle" THEN req[r].seen.cycle ELSE 0
  OBVIOUS
<1>8. cycle = source.cycle /\ cycle \in Nat
  BY <1>4, <1>5, <1>6, <1>7 DEF PageGood, Position, Source
<1>9. PICK k : k = Keep(page, Tracks \ Queued(cycle))
  OBVIOUS
<1>10. items' = Extend(items, k, cycle) /\ source' = next /\ kind' = kind
  BY <1>1, <1>2, <1>7, <1>9 DEF AppendPage
<1>11. /\ k \in Seq(Tracks)
       /\ Distinct(page) => Distinct(k)
       /\ Increasing(page) => Increasing(k)
       /\ \A i \in 1..Len(k) : k[i] \in Tracks \ Queued(cycle) /\ Listed(page, k[i])
       /\ \A t \in Tracks \ Queued(cycle) : Listed(page, t) => Listed(k, t)
  BY <1>3, <1>9, KeptPage
<1>12. Distinct(k) /\ (kind = "likes" => Increasing(k))
  BY <1>5, <1>11 DEF PageGood, PageInOrder
<1>13. Extends(items', items, k, Len(k), cycle)
  BY <1>6, <1>8, <1>10, <1>11, Extended
<1>14. Len(k) \in Nat
  BY <1>11, LenProperties
<1>15. Appends(cycle, k, page, next)
  BY <1>3, <1>5, <1>6, <1>8, <1>10, <1>11, <1>12, <1>13, <1>14 DEF Appends
<1> QED
  BY <1>15

\* The queue e after the step: what it was, and an item for each track of k.
Longer(e, l, n, k, cycle) ==
    /\ l \in Nat /\ n \in Nat /\ 1 \in 1..l
    /\ e \in Seq(Item) /\ Len(e) = l + n
    /\ \A i \in 1..l : /\ i \in 1..(l + n) /\ e[i] = items[i]
                      /\ items[i].track \in Nat /\ items[i].cycle \in Nat
    /\ \A m \in 1..n : /\ l + m \in 1..(l + n) /\ k[m] \in Nat
                      /\ e[l + m].track = k[m] /\ e[l + m].cycle = cycle
    /\ \A i \in 1..(l + n) : i \in 1..l \/ \E m \in 1..n : i = l + m

\* The queue after AppendPage, item by item.
LEMMA AppendedQueue ==
    ASSUME Inv, NEW cycle, NEW k, NEW page, NEW next, Appends(cycle, k, page, next),
           NEW e, e = items', NEW l, l = Len(items), NEW n, n = Len(k)
    PROVE  Longer(e, l, n, k, cycle)
<1>1. items \in Seq(Item) /\ items # <<>>
  BY DEF Inv, TypeOK
<1>2. l \in Nat /\ 1 \in 1..l
  BY <1>1, EmptySeq
<1>3. n \in Nat
  BY DEF Appends
<1>4. Extends(e, items, k, n, cycle)
  BY DEF Appends
<1>5. /\ e \in Seq(Item) /\ Len(e) = l + n
      /\ \A i \in 1..l : e[i] = items[i]
      /\ \A m \in 1..n : e[l + m].track = k[m] /\ e[l + m].cycle = cycle
  BY <1>4 DEF Extends
<1>6. k \in Seq(Tracks)
  BY DEF Appends
<1>7. Tracks \subseteq Nat
  BY Cursors
<1>8. ASSUME NEW i \in 1..l
      PROVE  i \in 1..(l + n) /\ items[i].track \in Nat /\ items[i].cycle \in Nat
  <2>1. items[i] \in Item
    BY <1>1, <1>2, ElementOfSeq
  <2>2. items[i].track \in Tracks /\ items[i].cycle \in Nat
    BY <2>1 DEF Item
  <2>3. i \in 1..(l + n)
    BY <1>2, <1>3
  <2> QED
    BY <1>7, <2>2, <2>3
<1>9. ASSUME NEW m \in 1..n PROVE l + m \in 1..(l + n) /\ k[m] \in Nat
  <2>1. k[m] \in Tracks
    BY <1>6, ElementOfSeq
  <2>2. l + m \in 1..(l + n)
    BY <1>2, <1>3
  <2> QED
    BY <1>7, <2>1, <2>2
<1>10. ASSUME NEW i \in 1..(l + n) PROVE i \in 1..l \/ \E m \in 1..n : i = l + m
  <2>1. CASE i <= l
    BY <1>2, <1>3, <2>1
  <2>2. CASE i > l
    <3>1. i - l \in 1..n /\ i = l + (i - l)
      BY <1>2, <1>3, <2>2
    <3> QED
      BY <3>1
  <2> QED
    BY <1>2, <1>3, <2>1, <2>2
<1> QED
  BY <1>2, <1>3, <1>5, <1>8, <1>9, <1>10 DEF Longer

\* New items follow the order of the source, and none is in its cycle already.
LEMMA AppendInOrder ==
    ASSUME Inv, NEW cycle, NEW k, NEW page, NEW next, Appends(cycle, k, page, next)
    PROVE  QueueInOrder'
<1>1. PICK l : l = Len(items)
  OBVIOUS
<1>2. PICK n : n = Len(k)
  OBVIOUS
<1>3. PICK e : e = items'
  OBVIOUS
<1>4. /\ l \in Nat /\ n \in Nat /\ e \in Seq(Item) /\ Len(e) = l + n
      /\ \A i \in 1..l : /\ e[i] = items[i] /\ items[i].track \in Nat /\ items[i].cycle \in Nat
      /\ \A m \in 1..n : e[l + m].track = k[m] /\ e[l + m].cycle = cycle /\ k[m] \in Nat
      /\ \A i \in 1..(l + n) : i \in 1..l \/ \E m \in 1..n : i = l + m
  <2>1. Longer(e, l, n, k, cycle)
    BY <1>1, <1>2, <1>3, AppendedQueue
  <2> QED
    BY <2>1 DEF Longer
<1>5. ASSUME NEW i \in 1..l, NEW m \in 1..n
      PROVE  /\ kind = "likes" => items[i].track < k[m]
             /\ items[i].cycle <= cycle
             /\ items[i].track = k[m] => items[i].cycle < cycle
  <2>1. items[i].cycle <= cycle
    BY <1>1 DEF Appends, Inv, Behind
  <2>2. k[m] \notin Queued(cycle) /\ Listed(page, k[m])
    BY <1>2 DEF Appends
  <2>3. DOMAIN items = 1..l
    BY <1>1, LenProperties DEF Inv, TypeOK
  <2>4. items[i].track = k[m] => kind = "shuffle" /\ items[i].cycle # cycle
    BY <2>2, <2>3 DEF Queued
  <2>5. ASSUME kind = "likes" PROVE items[i].track < k[m]
    <3>1. source.hasMore
      BY <2>5 DEF Appends, PageGood, Continues
    <3>2. items[i].track <= source.cursor.after
      BY <1>1, <2>5, <3>1 DEF Inv, Behind
    <3>3. source.cursor.after < k[m]
      BY <2>2, <2>5 DEF Appends, PageGood, PageInOrder, Listed
    <3>4. source.cursor.after \in Nat
      <4>1. PICK t \in Tracks : source.cursor = After(t)
        BY <2>5, <3>1 DEF Appends, PageGood, Position
      <4> QED
        BY <4>1, Cursors
    <3> QED
      BY <1>4, <3>2, <3>3, <3>4
  <2>6. cycle \in Nat
    BY DEF Appends
  <2> QED
    BY <1>4, <2>1, <2>4, <2>5, <2>6
<1>6. \A m, p \in 1..n : m < p => k[m] # k[p] /\ (kind = "likes" => k[m] < k[p])
  BY <1>2 DEF Appends, Distinct, Increasing
<1>7. ASSUME NEW i \in 1..(l + n), NEW j \in 1..(l + n), i < j
      PROVE  /\ kind = "likes" => e[i].track < e[j].track
             /\ e[i].cycle <= e[j].cycle
             /\ e[i].track = e[j].track => e[i].cycle < e[j].cycle
  <2>1. CASE i \in 1..l /\ j \in 1..l
    <3>1. DOMAIN items = 1..l /\ QueueInOrder
      BY <1>1, LenProperties DEF Inv, TypeOK
    <3> QED
      BY <1>4, <1>7, <2>1, <3>1 DEF QueueInOrder
  <2>2. CASE i \in 1..l /\ \E m \in 1..n : j = l + m
    <3>1. PICK m \in 1..n : j = l + m
      BY <2>2
    <3> QED
      BY <1>4, <1>5, <2>2, <3>1
  <2>3. CASE (\E m \in 1..n : i = l + m) /\ \E m \in 1..n : j = l + m
    <3>1. PICK m \in 1..n, p \in 1..n : i = l + m /\ j = l + p
      BY <2>3
    <3>2. m < p
      <4>1. l + m < l + p /\ l \in Nat /\ n \in Nat
        BY <1>4, <1>7, <3>1
      <4> QED
        BY <4>1
    <3>3. e[i].cycle = cycle /\ e[j].cycle = cycle /\ cycle \in Nat
      BY <1>4, <3>1 DEF Appends
    <3>4. e[i].track = k[m] /\ e[j].track = k[p]
      BY <1>4, <3>1
    <3> QED
      BY <1>6, <3>2, <3>3, <3>4
  <2>4. (\E m \in 1..n : i = l + m) => j \notin 1..l
    BY <1>4, <1>7
  <2> QED
    BY <1>4, <2>1, <2>2, <2>3, <2>4
<1>8. DOMAIN items' = 1..(l + n)
  BY <1>3, <1>4, LenProperties
<1>9. kind' = kind
  BY DEF Appends
<1> QED
  BY <1>3, <1>7, <1>8, <1>9 DEF QueueInOrder

\* The queue stays behind the next position of its source.
LEMMA AppendBehind ==
    ASSUME Inv, NEW cycle, NEW k, NEW page, NEW next, Appends(cycle, k, page, next)
    PROVE  Behind'
<1>1. PICK l : l = Len(items)
  OBVIOUS
<1>2. PICK n : n = Len(k)
  OBVIOUS
<1>3. PICK e : e = items'
  OBVIOUS
<1>4. Longer(e, l, n, k, cycle)
  BY <1>1, <1>2, <1>3, AppendedQueue
<1>5. /\ l \in Nat /\ n \in Nat /\ 1 \in 1..l /\ Len(e) = l + n
      /\ \A i \in 1..l : e[i] = items[i] /\ items[i].track \in Nat /\ items[i].cycle \in Nat
      /\ \A m \in 1..n : e[l + m].track = k[m] /\ e[l + m].cycle = cycle
      /\ \A i \in 1..(l + n) : i \in 1..l \/ \E m \in 1..n : i = l + m
  BY <1>4 DEF Longer
<1>6. e[1].cycle = 0
  BY <1>5 DEF Inv, Behind
<1>7. cycle \in Nat /\ cycle = source.cycle /\ next.cycle \in {cycle, cycle + 1}
  BY DEF Appends, PageGood
<1>8. \A i \in 1..l : items[i].cycle <= cycle
  BY <1>1, <1>7 DEF Inv, Behind
<1>9. ASSUME NEW i \in 1..(l + n) PROVE e[i].cycle <= next.cycle
  <2>1. e[i].cycle \in Nat /\ e[i].cycle <= cycle
    <3>1. CASE i \in 1..l
      BY <1>5, <1>8, <3>1
    <3>2. CASE \E m \in 1..n : i = l + m
      <4>1. e[i].cycle = cycle
        BY <1>5, <3>2
      <4> QED
        BY <1>7, <4>1
    <3> QED
      BY <1>5, <3>1, <3>2
  <2> QED
    BY <1>7, <2>1
<1>10. ASSUME kind = "likes", next.hasMore, NEW i \in 1..(l + n)
       PROVE  e[i].track <= next.cursor.after
  <2>1. source.hasMore
    BY <1>10 DEF Appends, PageGood, Continues
  <2>2. source.cursor.after <= next.cursor.after
    BY <1>10 DEF Appends, PageGood, PageInOrder
  <2>3. source.cursor.after \in Nat /\ next.cursor.after \in Nat
    <3>1. PICK t \in Tracks : source.cursor = After(t)
      BY <1>10, <2>1 DEF Appends, PageGood, Position
    <3>2. PICK u \in Tracks : next.cursor = After(u)
      BY <1>10 DEF Appends, PageGood, Position
    <3> QED
      BY <3>1, <3>2, Cursors
  <2>4. CASE i \in 1..l
    <3>1. items[i].track <= source.cursor.after
      BY <1>1, <1>10, <2>1, <2>4 DEF Inv, Behind
    <3> QED
      BY <1>5, <2>2, <2>3, <2>4, <3>1
  <2>5. CASE \E m \in 1..n : i = l + m
    <3>1. PICK m \in 1..n : i = l + m
      BY <2>5
    <3>2. Listed(page, k[m])
      BY <1>2 DEF Appends
    <3>3. k[m] <= next.cursor.after
      BY <1>10, <3>2 DEF Appends, PageGood, PageInOrder, Listed
    <3> QED
      BY <1>5, <3>1, <3>3
  <2> QED
    BY <1>5, <2>4, <2>5
<1>11. source' = next /\ kind' = kind
  BY DEF Appends
<1> QED
  BY <1>3, <1>5, <1>6, <1>9, <1>10, <1>11 DEF Behind

\* Every track that the page moves the source past is queued.
LEMMA AppendComplete ==
    ASSUME Inv, NEW cycle, NEW k, NEW page, NEW next, Appends(cycle, k, page, next)
    PROVE  Complete'
<1>1. PICK l : l = Len(items)
  OBVIOUS
<1>2. PICK n : n = Len(k)
  OBVIOUS
<1>3. PICK e : e = items'
  OBVIOUS
<1>4. Longer(e, l, n, k, cycle)
  BY <1>1, <1>2, <1>3, AppendedQueue
<1>5. /\ l \in Nat /\ n \in Nat /\ Len(e) = l + n
      /\ \A i \in 1..l : i \in 1..(l + n) /\ e[i] = items[i] /\ items[i].cycle \in Nat
      /\ \A m \in 1..n : /\ l + m \in 1..(l + n)
                         /\ e[l + m].track = k[m] /\ e[l + m].cycle = cycle
  BY <1>4 DEF Longer
<1>6. /\ cycle \in Nat /\ cycle = source.cycle
      /\ next.cycle \in {cycle} \cup (IF kind = "shuffle" THEN {cycle + 1} ELSE {})
      /\ next.cycle # cycle => next.cursor = NoCursor
      /\ Position(next) /\ Position(source) /\ Continues(source)
      /\ next \in Source
  BY DEF Appends, PageGood
<1>7. ASSUME NEW t, NEW c, QueuedIn(t, c) PROVE QueuedIn(t, c)'
  <2>1. PICK i \in 1..l : items[i].track = t /\ items[i].cycle = c
    BY <1>1, <1>7 DEF QueuedIn
  <2> QED
    BY <1>3, <1>5, <2>1 DEF QueuedIn
<1>8. ASSUME NEW t \in Stable, Listed(page, t)
      PROVE  QueuedIn(t, cycle)'
  <2>1. CASE t \in Queued(cycle)
    <3>1. DOMAIN items = 1..l
      BY <1>1, LenProperties DEF Inv, TypeOK
    <3>2. PICK i \in 1..l : items[i].track = t /\ (kind = "shuffle" => items[i].cycle = cycle)
      BY <2>1, <3>1 DEF Queued
    <3>3. kind # "shuffle" => cycle = 0
      BY <1>6 DEF Position
    <3>4. items[i].cycle \in Nat /\ items[i].cycle <= cycle
      BY <1>1, <1>5, <1>6 DEF Inv, Behind
    <3>5. items[i].cycle = cycle
      BY <3>2, <3>3, <3>4
    <3>6. QueuedIn(t, cycle)
      BY <1>1, <3>2, <3>5 DEF QueuedIn
    <3> QED
      BY <1>7, <3>6
  <2>2. CASE t \notin Queued(cycle)
    <3>1. Listed(k, t)
      BY <1>8, <2>2 DEF Appends, Stable
    <3>2. PICK m \in 1..n : k[m] = t
      BY <1>2, <3>1 DEF Listed
    <3> QED
      BY <1>3, <1>5, <3>2 DEF QueuedIn
  <2> QED
    BY <2>1, <2>2
<1>9. ASSUME NEW t \in Stable, kind = "likes"
      PROVE  QueuedIn(t, 0)' \/ (next.hasMore /\ next.cursor.after < t)
  <2>1. cycle = 0
    BY <1>6, <1>9 DEF Position
  <2>2. CASE QueuedIn(t, 0)
    BY <1>7, <2>2
  <2>3. CASE source.cursor.after < t
    <3>1. Listed(page, t) \/ (next.hasMore /\ next.cursor.after < t)
      BY <1>9, <2>3 DEF Appends, PageGood, PageWhole
    <3> QED
      BY <1>8, <2>1, <3>1
  <2> QED
    BY <1>9, <2>2, <2>3 DEF Inv, Complete
<1>10. ASSUME NEW t \in Stable, kind = "shuffle"
       PROVE  /\ \A c \in 0..(next.cycle - 1) : QueuedIn(t, c)'
              /\ QueuedIn(t, next.cycle)' \/ Due(next, t)
  <2>1. /\ \A c \in 0..(cycle - 1) : QueuedIn(t, c)
        /\ QueuedIn(t, cycle) \/ Due(source, t)
    BY <1>6, <1>10 DEF Inv, Complete
  <2>2. Due(source, t) => Listed(page, t) \/ (next.cycle = cycle /\ Due(next, t))
    BY <1>6, <1>10 DEF Appends, PageGood, PageWhole
  <2>3. QueuedIn(t, cycle)' \/ (next.cycle = cycle /\ Due(next, t))
    BY <1>7, <1>8, <2>1, <2>2
  <2>4. CASE next.cycle = cycle
    BY <1>7, <2>1, <2>3, <2>4
  <2>5. CASE next.cycle = cycle + 1
    <3>1. next.cycle # cycle /\ next.cycle # 0
      BY <1>6, <2>5
    <3>2. next.cursor = NoCursor /\ next.excluded = 0
      BY <1>6, <1>10, <3>1 DEF Position
    <3>3. t # 0
      BY Cursors DEF Stable
    <3>4. Due(next, t)
      BY <3>2, <3>3 DEF Due
    <3>5. QueuedIn(t, cycle)'
      BY <2>3, <3>1
    <3>6. \A c \in 0..(next.cycle - 1) : c = cycle \/ c \in 0..(cycle - 1)
      BY <1>6, <2>5
    <3>7. \A c \in 0..(next.cycle - 1) : QueuedIn(t, c)'
      BY <1>7, <2>1, <3>5, <3>6
    <3> QED
      BY <3>4, <3>7
  <2> QED
    BY <1>6, <1>10, <2>4, <2>5
<1>11. source' = next /\ kind' = kind
  BY DEF Appends
<1>12. \A t : Due(next, t) = Due(next, t)'
  BY DEF Due
<1> QED
  BY <1>9, <1>10, <1>11, <1>12 DEF Complete

\* The step that appends a page keeps the whole invariant.
LEMMA AppendPageStep ==
    ASSUME Inv, NEW r \in Requests, AppendPage(r)
    PROVE  Inv'
<1>1. PICK cycle, k, page, next : Appends(cycle, k, page, next)
  BY AppendPageDoes
<1>2. PICK l : l = Len(items)
  OBVIOUS
<1>3. PICK n : n = Len(k)
  OBVIOUS
<1>4. PICK e : e = items'
  OBVIOUS
<1>5. Longer(e, l, n, k, cycle)
  BY <1>1, <1>2, <1>3, <1>4, AppendedQueue
<1>6. /\ l \in Nat /\ n \in Nat /\ 1 \in 1..l /\ e \in Seq(Item) /\ Len(e) = l + n
      /\ \A i \in 1..l : i \in 1..(l + n) /\ e[i] = items[i]
  BY <1>5 DEF Longer
<1>7. QueueInOrder' /\ Behind' /\ Complete'
  BY <1>1, AppendInOrder, AppendBehind, AppendComplete
<1>8. Contiguous(items')
  BY <1>1 DEF Appends, Extends, Inv
<1>9. items'[1] = items[1] /\ kind' = kind /\ items' # <<>>
  <2>1. e[1] = items[1] /\ Len(e) # 0
    BY <1>6
  <2> QED
    BY <1>1, <1>4, <2>1, EmptySeq DEF Appends
<1>10. /\ \A s : Position(s) => Position(s)'
       /\ \A s, p, m : PageGood(s, p, m) => PageGood(s, p, m)'
  BY <1>9, Steady
<1>11. source' \in Source /\ Position(source)'
  <2>1. source' = next /\ next \in Source /\ Position(next)
    BY <1>1 DEF Appends, PageGood
  <2>2. Position(next)'
    BY <1>10, <2>1
  <2> QED
    BY <2>1, <2>2
<1>12. PICK pc \in RequestPC : pc = IF Exhausted(r) THEN "record" ELSE "load"
  BY DEF RequestPC
<1>13. PICK x : x = [Idle EXCEPT !.pc = pc, !.tries = req[r].tries + 1,
                                 !.delta = req[r].delta]
  OBVIOUS
<1>14. x \in Request /\ x.pc \in {"record", "load"}
  <2>1. PICK i \in Request : i = Idle
    BY IdleType
  <2>2. x = [i EXCEPT !.pc = pc, !.tries = req[r].tries + 1, !.delta = req[r].delta]
    BY <1>13, <2>1
  <2>3. req[r].tries + 1 \in Nat /\ req[r].delta \in BOOLEAN
    BY RequestParts
  <2> QED
    BY <1>12, <2>2, <2>3 DEF Request
<1>15. /\ req' = [req EXCEPT ![r] = x]
       /\ ready' = ready /\ fetched' = fetched /\ startAt' = startAt
       /\ playlist' = playlist /\ ended' = ended /\ awaiting' = awaiting
  BY <1>12, <1>13 DEF AppendPage, Again, clientVars
<1>16. req \in [Requests -> Request]
  BY DEF Inv, TypeOK
<1>17. req' \in [Requests -> Request] /\ req'[r] = x
       /\ \A q \in Requests : q # r => req'[q] = req[q]
  BY <1>14, <1>15, <1>16
<1>18. TypeOK'
  BY <1>4, <1>6, <1>9, <1>11, <1>15, <1>17 DEF Inv, TypeOK
<1>19. ASSUME NEW q \in Requests PROVE RequestGood(q)'
  <2>1. CASE q = r
    BY <1>14, <1>17, <2>1 DEF RequestGood, At
  <2>2. CASE q # r
    <3>1. req'[q] = req[q] /\ RequestGood(q)
      BY <1>17, <2>2 DEF Inv
    <3>2. At(q, "render") => req[q].from <= Len(items')
      <4>1. req[q].from \in Nat
        BY RequestParts
      <4> QED
        BY <1>2, <1>4, <1>6, <3>1, <4>1 DEF RequestGood
    <3> QED
      BY <1>10, <3>1, <3>2 DEF RequestGood, At
  <2> QED
    BY <2>1, <2>2
<1>20. playlist' \in Seq(Entries(items'))
  <2>1. Entries(items) \subseteq Entries(e)
    <3> SUFFICES ASSUME NEW x1 \in 1..l, NEW x2 \in 1..Count(items[x1])
                 PROVE  x1 \in 1..(l + n) /\ x2 \in 1..Count(e[x1])
      BY <1>2, <1>6 DEF Entries
    <3> QED
      BY <1>6
  <2>2. playlist \in Seq(Entries(items))
    BY DEF Inv
  <2> QED
    BY <1>4, <1>15, <2>1, <2>2, SeqMonotonic
<1>21. Tracks \ Volatile \subseteq ready'
  BY <1>15 DEF Inv
<1> QED
  BY <1>7, <1>8, <1>9, <1>11, <1>18, <1>19, <1>20, <1>21 DEF Inv

---------------------------------------------------------------------------
(* The other steps *)

\* Steps of the library and the client, and no step at all.
LEMMA OtherSteps ==
    ASSUME Inv, \/ GiveUp
                \/ \E k \in DOMAIN playlist : FetchSegment(k)
                \/ \E t \in Volatile : TrackChanges(t)
                \/ UNCHANGED vars
    PROVE  Inv'
<1>1. /\ kind' = kind /\ source' = source /\ items' = items /\ startAt' = startAt
      /\ req' = req /\ playlist' = playlist /\ ended' = ended
  BY DEF GiveUp, FetchSegment, TrackChanges, vars, sessionVars, clientVars
<1>2. QueueInv'
  BY <1>1, QueueKept DEF Inv, QueueInv
<1>3. awaiting' \in Requests \cup {NoRequest}
  BY DEF Inv, TypeOK, GiveUp, FetchSegment, TrackChanges, vars, clientVars
<1>4. ready' \subseteq Tracks /\ Tracks \ Volatile \subseteq ready'
  <2>1. ready \subseteq Tracks /\ Tracks \ Volatile \subseteq ready
    BY DEF Inv, TypeOK
  <2>2. CASE \E t \in Volatile : TrackChanges(t)
    BY <2>1, <2>2, PlaybackConstants DEF TrackChanges
  <2>3. CASE ready' = ready
    BY <2>1, <2>3
  <2> QED
    BY <2>2, <2>3 DEF GiveUp, FetchSegment, vars
<1>5. fetched' \in Nat \cup {-1}
  <2>1. fetched \in Nat \cup {-1}
    BY DEF Inv, TypeOK
  <2>2. ASSUME NEW k \in DOMAIN playlist, FetchSegment(k) PROVE fetched' \in Nat
    <3>1. playlist \in Seq(Entries(items))
      BY DEF Inv
    <3>2. PICK x : x = playlist[k]
      OBVIOUS
    <3>3. x \in Entries(items)
      BY <3>1, <3>2, LenProperties, ElementOfSeq
    <3>4. x[1] \in 1..Len(items) /\ x[2] \in 1..Count(items[x[1]]) /\ x[2] \in Nat
      BY <3>3 DEF Entries
    <3>5. items[x[1]].first \in Nat
      BY <3>4, ItemsChained, ItemParts
    <3>6. items[x[1]].first + x[2] - 1 \in Nat
      BY <3>4, <3>5
    <3>7. fetched' = Greater(fetched, items[x[1]].first + x[2] - 1)
      BY <2>2, <3>2 DEF FetchSegment
    <3> QED
      BY <2>1, <3>6, <3>7 DEF Greater
  <2>3. CASE fetched' = fetched
    BY <2>1, <2>3
  <2> QED
    BY <2>2, <2>3 DEF GiveUp, TrackChanges, vars, sessionVars
<1>6. TypeOK'
  BY <1>1, <1>3, <1>4, <1>5 DEF Inv, TypeOK
<1>7. ASSUME NEW q \in Requests PROVE RequestGood(q)'
  <2>1. /\ \A s : Position(s) => Position(s)'
        /\ \A s, page, next : PageGood(s, page, next) => PageGood(s, page, next)'
    BY <1>1, Steady
  <2>2. RequestGood(q)
    BY DEF Inv
  <2> QED
    BY <1>1, <2>1, <2>2 DEF RequestGood, At
<1>8. playlist' \in Seq(Entries(items'))
  BY <1>1 DEF Inv
<1> QED
  BY <1>2, <1>4, <1>6, <1>7, <1>8 DEF Inv, QueueInv

---------------------------------------------------------------------------
(* The theorems *)

\* Every step of the session, its requests and its client keeps the invariant.
LEMMA NextInv ==
    ASSUME Inv, [Next]_vars
    PROVE  Inv'
<1>1. ASSUME NEW r \in Requests, RequestStep(r) PROVE Inv'
  BY <1>1, SimpleSteps, FetchPageStep, AppendPageStep, PlanLoadStep, RenderStep
     DEF RequestStep
<1>2. ASSUME NEW r \in Requests, NEW delta \in BOOLEAN, AskManifest(r, delta) PROVE Inv'
  BY <1>2, SimpleSteps
<1>3. CASE \/ GiveUp
           \/ \E k \in DOMAIN playlist : FetchSegment(k)
           \/ \E t \in Volatile : TrackChanges(t)
           \/ UNCHANGED vars
  BY <1>3, OtherSteps
<1> QED
  BY <1>1, <1>2, <1>3 DEF Next

\* The invariant holds in every state of a session.
THEOREM Invariance == Spec => []Inv
  BY InitInv, NextInv, PTL DEF Spec

\* No sequence number, time, cursor or request leaves its range, however requests overlap.
THEOREM TypeCorrect == Spec => []TypeOK
<1>1. Inv => TypeOK
  BY DEF Inv
<1> QED
  BY <1>1, Invariance, PTL

\* The items leave no gap in the media sequence or in time and do not overlap, whichever
\* of several requests appended them.
THEOREM TimelineContiguousHolds == Spec => []TimelineContiguous
<1>1. ASSUME Inv PROVE TimelineContiguous
  <2>1. DOMAIN items = 1..Len(items) /\ Contiguous(items)
    BY <1>1, LenProperties DEF Inv, TypeOK
  <2> QED
    BY <2>1 DEF TimelineContiguous, Contiguous
<1> QED
  BY <1>1, Invariance, PTL

\* The queue follows the order of its source and holds nothing twice, also when a request
\* that was overtaken appends its page late.
THEOREM QueueInOrderHolds == Spec => []QueueInOrder
<1>1. Inv => QueueInOrder
  BY DEF Inv
<1> QED
  BY <1>1, Invariance, PTL

\* No prepared track that stays ready is left out once the source is past it, in any cycle.
THEOREM NothingSkippedHolds == Spec => []NothingSkipped
<1>1. ASSUME Inv PROVE NothingSkipped
  <2>1. DOMAIN items = 1..Len(items)
    BY <1>1, LenProperties DEF Inv, TypeOK
  <2> SUFFICES ASSUME NEW t \in Stable
               PROVE  /\ kind = "likes" /\ (~source.hasMore \/ t <= source.cursor.after) =>
                             \E i \in DOMAIN items : items[i].track = t
                      /\ kind = "shuffle" => \A c \in 0..(source.cycle - 1) :
                             \E i \in DOMAIN items : items[i].track = t /\ items[i].cycle = c
    BY DEF NothingSkipped, Stable
  <2>2. ASSUME kind = "likes", ~source.hasMore \/ t <= source.cursor.after
        PROVE  QueuedIn(t, 0)
    <3>1. QueuedIn(t, 0) \/ (source.hasMore /\ source.cursor.after < t)
      BY <1>1, <2>2 DEF Inv, Complete
    <3>2. ASSUME source.hasMore PROVE ~(source.cursor.after < t)
      <4>1. PICK u \in Tracks : source.cursor = After(u)
        BY <1>1, <2>2, <3>2 DEF Inv, Position
      <4>2. source.cursor.after \in Nat /\ t \in Nat
        BY <4>1, Cursors DEF Stable
      <4> QED
        BY <2>2, <3>2, <4>2
    <3> QED
      BY <3>1, <3>2
  <2>3. kind = "shuffle" => \A c \in 0..(source.cycle - 1) : QueuedIn(t, c)
    BY <1>1 DEF Inv, Complete
  <2> QED
    BY <2>1, <2>2, <2>3 DEF QueuedIn
<1> QED
  BY <1>1, Invariance, PTL

---------------------------------------------------------------------------
(* Sums of durations *)

\* One more duration from the end.
LEMMA LastOfNext ==
    ASSUME NEW d \in Seq(Nat), NEW n \in Nat
    PROVE  LastOf(d, n + 1) = LastOf(d, n) + d[Len(d) - n]
<1>1. PICK f : Adds(f, d, n) /\ LastOf(d, n) = f[n]
  BY LastOfAdds
<1>2. PICK g : Adds(g, d, n + 1) /\ LastOf(d, n + 1) = g[n + 1]
  BY LastOfAdds
<1> DEFINE M == {k \in 0..n : f[k] = g[k]}
<1>3. 0 \in M
  BY <1>1, <1>2 DEF Adds
<1>4. ASSUME NEW k \in 0..(n - 1), k \in M PROVE k + 1 \in M
  <2>1. k + 1 \in 1..n /\ k + 1 \in 1..(n + 1) /\ (k + 1) - 1 = k /\ k + 1 \in 0..n
    OBVIOUS
  <2>2. f[k + 1] = f[k] + d[Len(d) - (k + 1) + 1]
    BY <1>1, <2>1 DEF Adds
  <2>3. g[k + 1] = g[k] + d[Len(d) - (k + 1) + 1]
    BY <1>2, <2>1 DEF Adds
  <2> QED
    BY <1>4, <2>1, <2>2, <2>3
<1>5. f[n] = g[n]
  <2>1. \A k \in 0..n : k \in M
    <3> HIDE DEF M
    <3> QED
      BY <1>3, <1>4, IntervalInduction
  <2> QED
    BY <2>1
<1>6. n + 1 \in 1..(n + 1) /\ (n + 1) - 1 = n
  OBVIOUS
<1>7. g[n + 1] = g[n] + d[Len(d) - (n + 1) + 1]
  BY <1>2, <1>6 DEF Adds
<1> QED
  BY <1>1, <1>2, <1>5, <1>7

\* The last none of them add up to nothing.
LEMMA LastOfNone ==
    ASSUME NEW d
    PROVE  LastOf(d, 0) = 0
<1>1. PICK f : Adds(f, d, 0) /\ LastOf(d, 0) = f[0]
  BY LastOfAdds
<1> QED
  BY <1>1 DEF Adds

\* A longer end of the same durations is not shorter.
LEMMA LastOfMore ==
    ASSUME NEW d \in Seq(Nat), NEW m \in 0..Len(d), NEW n \in 0..m
    PROVE  LastOf(d, n) <= LastOf(d, m)
<1>1. Len(d) \in Nat /\ m \in Nat /\ n \in Nat /\ m - n \in Nat /\ m <= Len(d)
  BY LenProperties
<1>2. \A k \in 0..Len(d) : LastOf(d, k) \in Nat
  BY LastOfType
<1> DEFINE M == {j \in 0..(m - n) : LastOf(d, n) <= LastOf(d, n + j)}
<1>3. 0 \in M
  <2>1. n + 0 = n /\ n \in 0..Len(d)
    BY <1>1
  <2>2. LastOf(d, n) <= LastOf(d, n + 0)
    BY <1>2, <2>1
  <2> QED
    BY <1>1, <2>2
<1>4. ASSUME NEW j \in 0..((m - n) - 1), j \in M PROVE j + 1 \in M
  <2>1. PICK k \in Nat : k = n + j
    BY <1>1
  <2>2. n \in 0..Len(d) /\ k \in 0..Len(d) /\ k + 1 \in 0..Len(d) /\ Len(d) - k \in 1..Len(d)
        /\ n + (j + 1) = k + 1 /\ j + 1 \in 0..(m - n)
    BY <1>1, <2>1
  <2>3. LastOf(d, k + 1) = LastOf(d, k) + d[Len(d) - k]
    BY LastOfNext
  <2>4. d[Len(d) - k] \in Nat
    BY <2>2, ElementOfSeq
  <2>5. LastOf(d, n) <= LastOf(d, k)
    BY <1>4, <2>1
  <2>6. LastOf(d, n) \in Nat /\ LastOf(d, k) \in Nat /\ LastOf(d, k + 1) \in Nat
    BY <1>2, <2>2
  <2>7. LastOf(d, n) <= LastOf(d, k + 1)
    BY <2>3, <2>4, <2>5, <2>6
  <2> QED
    BY <2>2, <2>7
<1>5. \A j \in 0..(m - n) : j \in M
  <2> HIDE DEF M
  <2> QED
    BY <1>1, <1>3, <1>4, IntervalInduction
<1>6. m - n \in 0..(m - n) /\ n + (m - n) = m
  BY <1>1
<1> QED
  BY <1>5, <1>6

\* Durations that end alike.
LEMMA LastOfSame ==
    ASSUME NEW d \in Seq(Nat), NEW e \in Seq(Nat), NEW n \in Nat, n <= Len(d), n <= Len(e),
           \A j \in 0..(n - 1) : d[Len(d) - j] = e[Len(e) - j]
    PROVE  LastOf(d, n) = LastOf(e, n)
<1> DEFINE M == {k \in 0..n : LastOf(d, k) = LastOf(e, k)}
<1>1. 0 \in M
  BY LastOfNone
<1>2. ASSUME NEW k \in 0..(n - 1), k \in M PROVE k + 1 \in M
  <2>1. k \in Nat /\ k + 1 \in 0..n
    OBVIOUS
  <2>2. LastOf(d, k + 1) = LastOf(d, k) + d[Len(d) - k]
    BY <2>1, LastOfNext
  <2>3. LastOf(e, k + 1) = LastOf(e, k) + e[Len(e) - k]
    BY <2>1, LastOfNext
  <2>4. LastOf(d, k + 1) = LastOf(e, k + 1)
    BY <1>2, <2>2, <2>3
  <2> QED
    BY <2>1, <2>4
<1>3. \A k \in 0..n : k \in M
  <2> HIDE DEF M
  <2> QED
    BY <1>1, <1>2, IntervalInduction
<1> QED
  BY <1>3

\* The end of durations that have grown by g at the end.
LEMMA LastOfGrown ==
    ASSUME NEW d \in Seq(Nat), NEW e \in Seq(Nat), NEW g \in Nat, Len(e) = Len(d) + g,
           \A p \in 1..Len(d) : e[p] = d[p], NEW n \in 0..Len(d)
    PROVE  LastOf(e, g + n) >= LastOf(d, n)
<1>1. Len(d) \in Nat /\ n \in Nat /\ n <= Len(d)
  BY LenProperties
<1>2. /\ \A k \in 0..Len(d) : LastOf(d, k) \in Nat
      /\ \A k \in 0..Len(e) : LastOf(e, k) \in Nat
  BY LastOfType
<1> DEFINE M == {k \in 0..n : LastOf(e, g + k) >= LastOf(d, k)}
<1>3. 0 \in M
  <2>1. LastOf(d, 0) = 0 /\ g + 0 = g /\ g \in 0..Len(e)
    BY <1>1, LastOfNone
  <2>2. LastOf(e, g) \in Nat
    BY <1>2, <2>1
  <2>3. LastOf(e, g + 0) >= LastOf(d, 0)
    BY <2>1, <2>2
  <2> QED
    BY <1>1, <2>3
<1>4. ASSUME NEW k \in 0..(n - 1), k \in M PROVE k + 1 \in M
  <2>1. PICK j \in Nat : j = g + k
    BY <1>1
  <2>2. k \in Nat /\ k + 1 \in 0..n /\ k \in 0..Len(d) /\ j \in 0..Len(e) /\ g + (k + 1) = j + 1
        /\ Len(e) - j = Len(d) - k /\ Len(d) - k \in 1..Len(d)
    BY <1>1, <2>1
  <2>3. LastOf(d, k + 1) = LastOf(d, k) + d[Len(d) - k]
    BY <2>2, LastOfNext
  <2>4. LastOf(e, j + 1) = LastOf(e, j) + e[Len(e) - j]
    BY LastOfNext
  <2>5. e[Len(e) - j] = d[Len(d) - k]
    BY <2>2
  <2>6. d[Len(d) - k] \in Nat
    BY <2>2, ElementOfSeq
  <2>7. LastOf(e, j) >= LastOf(d, k) /\ LastOf(e, j) \in Nat /\ LastOf(d, k) \in Nat
    BY <1>2, <1>4, <2>1, <2>2
  <2>8. LastOf(e, j + 1) >= LastOf(d, k + 1)
    <3>1. PICK x \in Nat : x = d[Len(d) - k]
      BY <2>6
    <3>2. PICK a \in Nat : a = LastOf(d, k)
      BY <2>7
    <3>3. PICK b \in Nat : b = LastOf(e, j)
      BY <2>7
    <3>4. b >= a
      BY <2>7, <3>2, <3>3
    <3>5. b + x >= a + x
      BY <3>4
    <3>6. LastOf(d, k + 1) = a + x /\ LastOf(e, j + 1) = b + x
      BY <2>3, <2>4, <2>5, <3>1, <3>2, <3>3
    <3> QED
      BY <3>5, <3>6
  <2> QED
    BY <2>2, <2>8
<1>5. \A k \in 0..n : k \in M
  <2> HIDE DEF M
  <2> QED
    BY <1>1, <1>3, <1>4, IntervalInduction
<1> QED
  BY <1>1, <1>5

\* What is enough stays enough.
LEMMA EnoughMore ==
    ASSUME NEW d \in Seq(Nat), NEW m \in 0..Len(d), NEW n \in 0..m, Enough(d, n)
    PROVE  Enough(d, m)
<1>1. LastOf(d, n) <= LastOf(d, m)
  BY LastOfMore
<1>2. Len(d) \in Nat /\ m \in Nat /\ n \in Nat /\ n <= m /\ n \in 0..Len(d)
  BY LenProperties
<1>3. LastOf(d, n) \in Nat /\ LastOf(d, m) \in Nat
  BY <1>2, LastOfType
<1>4. TailSegments \in Nat /\ TailDuration \in Nat
  BY PlaybackConstants
<1> QED
  BY <1>1, <1>2, <1>3, <1>4 DEF Enough

---------------------------------------------------------------------------
(* Places in a playlist *)

\* Every place of a playlist of consecutive items is a segment of one of them.
LEMMA SegmentAt ==
    ASSUME NEW q, Chained(q), NEW p \in Nat, q[1].first < p, p <= Total(q)
    PROVE  \E i \in 1..Len(q) : \E k \in 1..Count(q[i]) : p = q[i].first + k
<1>1. /\ Len(q) \in Nat /\ 1 \in 1..Len(q) /\ Len(q) \in 1..Len(q)
      /\ \A i \in 1..Len(q) : q[i].first \in Nat /\ Count(q[i]) \in Nat \ {0}
      /\ Total(q) = q[Len(q)].first + Count(q[Len(q)])
  BY ItemParts
<1>2. PICK l \in Nat : l = Len(q)
  BY <1>1
<1> DEFINE S == {i \in 1..l : q[i].first < p}
<1>3. S \in SUBSET (0..l)
  OBVIOUS
<1>4. 1 \in S
  BY <1>1, <1>2
<1>5. PICK i \in S : \A m \in S : i >= m
  <2> HIDE DEF S
  <2> QED
    BY <1>3, <1>4, GreatestNumber
<1>6. i \in 1..l /\ q[i].first < p /\ q[i].first \in Nat /\ Count(q[i]) \in Nat
  BY <1>1, <1>2
<1>7. p <= q[i].first + Count(q[i])
  <2>1. CASE i = l
    BY <1>1, <1>2, <2>1
  <2>2. CASE i # l
    <3>1. i + 1 \in 1..l /\ i + 1 > i
      BY <1>6, <2>2
    <3>2. i + 1 \notin S
      BY <1>5, <1>6, <3>1
    <3>3. ~(q[i + 1].first < p)
      BY <3>1, <3>2
    <3>4. q[i + 1].first = q[i].first + Count(q[i])
      BY <1>2, <1>6, <3>1 DEF Chained
    <3> QED
      BY <1>6, <3>3, <3>4
  <2> QED
    BY <2>1, <2>2
<1>8. PICK f \in Nat : f = q[i].first
  BY <1>6
<1>9. PICK c \in Nat : c = Count(q[i])
  BY <1>6
<1>10. p - f \in 1..c /\ p = f + (p - f)
  BY <1>6, <1>7, <1>8, <1>9
<1> QED
  BY <1>2, <1>6, <1>8, <1>9, <1>10

\* The items of q are those of w after the first c ones.
Within(q, w, c) == \A i \in 1..Len(q) : c + i \in 1..Len(w) /\ w[c + i] = q[i]

\* Items that are part of a longer queue have the durations that they have in it.
LEMMA DurationsAlike ==
    ASSUME NEW q, Chained(q), NEW w, Chained(w), NEW c \in Nat,
           Within(q, w, c), NEW p \in Nat, q[1].first < p, p <= Total(q)
    PROVE  Durations(w)[p - w[1].first] = Durations(q)[p - q[1].first]
<1>1. PICK i \in 1..Len(q) : \E k \in 1..Count(q[i]) : p = q[i].first + k
  BY SegmentAt
<1>2. PICK k \in 1..Count(q[i]) : p = q[i].first + k
  BY <1>1
<1>3. PICK j \in 1..Len(w) : j = c + i
  BY DEF Within
<1>4. w[j] = q[i]
  BY <1>3 DEF Within
<1>5. PICK f \in Nat : f = q[i].first
  BY ItemParts
<1>6. PICK a \in Nat : a = q[1].first
  BY ItemParts
<1>7. PICK b \in Nat : b = w[1].first
  BY ItemParts
<1>8. k \in Nat
  BY ItemParts
<1>9. Durations(q)[(f - a) + k] = Segments[q[i].track][k]
  BY <1>5, <1>6, DurationsLaid
<1>10. Durations(w)[(f - b) + k] = Segments[q[i].track][k]
  <2>1. k \in 1..Count(w[j])
    BY <1>4
  <2>2. Durations(w)[(w[j].first - w[1].first) + k] = Segments[w[j].track][k]
    BY <2>1, DurationsLaid
  <2> QED
    BY <1>4, <1>5, <1>7, <2>2
<1>11. p = f + k
  BY <1>2, <1>5
<1>12. p - a = (f - a) + k /\ p - b = (f - b) + k
  <2>1. \A x, y, z, o \in Int : o = x + y => o - z = (x - z) + y
    OBVIOUS
  <2>2. p \in Int /\ f \in Int /\ a \in Int /\ b \in Int /\ k \in Int
    BY <1>8
  <2> QED
    BY <1>11, <2>1, <2>2
<1> QED
  BY <1>6, <1>7, <1>9, <1>10, <1>12

\* A queue without gaps is one of consecutive items that begins at 0.
LEMMA QueueChained ==
    ASSUME NEW q \in Seq(Item), q # <<>>, Contiguous(q)
    PROVE  /\ Chained(q) /\ q[1].first = 0 /\ Total(q) \in Nat /\ Total(q) > 0
           /\ Durations(q) \in Seq(Nat) /\ Len(Durations(q)) = Total(q)
<1>1. Len(q) \in Nat /\ 1 \in 1..Len(q)
  BY EmptySeq
<1>2. q[1].first = 0
  BY <1>1 DEF Contiguous
<1>3. Chained(q)
  <2> SUFFICES ASSUME NEW i \in 1..Len(q), i + 1 \in 1..Len(q)
               PROVE  q[i + 1].first = q[i].first + Count(q[i])
    BY DEF Chained
  <2>1. PICK j \in 1..Len(q) : j = i + 1
    OBVIOUS
  <2>2. j # 1 /\ j - 1 = i
    BY <1>1, <2>1
  <2>3. q[j].first = q[j - 1].first + Count(q[j - 1])
    BY <2>2 DEF Contiguous
  <2> QED
    BY <2>1, <2>2, <2>3
<1>4. /\ Total(q) = q[Len(q)].first + Count(q[Len(q)])
      /\ q[Len(q)].first \in Nat /\ Count(q[Len(q)]) \in Nat \ {0}
  BY <1>3, ItemParts
<1>5. Total(q) \in Nat /\ Total(q) > 0
  BY <1>4
<1>6. PICK d : d = Durations(q)
  OBVIOUS
<1>7. d \in Seq(Nat) /\ Len(d) = Total(q) - q[1].first
  BY <1>3, <1>6, DurationsLaid
<1>8. Len(d) = Total(q)
  BY <1>2, <1>5, <1>7
<1> QED
  BY <1>2, <1>3, <1>5, <1>6, <1>7, <1>8

---------------------------------------------------------------------------
(* The invariant *)

\* The playlist lists the segments of the queue, each at its place in the media sequence.
Exactly ==
    /\ Len(playlist) <= Total(items)
    /\ \A i \in 1..Len(items) : \A k \in 1..Count(items[i]) :
           items[i].first + k <= Len(playlist) => playlist[items[i].first + k] = <<i, k>>

\* A request skips only what the client has, and loads the items from where it skips to,
\* or from earlier.
Sound(r) ==
    /\ At(r, "plan") \/ At(r, "render") =>
           req[r].skip <= Len(playlist) /\ (req[r].active \/ ~Continues(source))
    /\ At(r, "render") /\ req[r].from # 1 =>
           /\ req[r].delta /\ req[r].active
           /\ items[req[r].from].first <= req[r].skip
           /\ Enough(Durations(items), Total(items) - items[req[r].from].first)

\* With it a delta never leaves a gap in the playlist that the client puts together.
PlaylistInv ==
    /\ Exactly /\ fetched < Len(playlist)
    /\ \A r \in Requests : Sound(r)
    /\ ended => ~Continues(source) /\ Len(playlist) = Total(items)

---------------------------------------------------------------------------
(* The steps *)

\* A new session has no playlist yet.
LEMMA PlaylistInit ==
    ASSUME Init, Inv
    PROVE  PlaylistInv
<1>1. playlist = <<>> /\ Len(playlist) = 0 /\ fetched = -1 /\ ended = FALSE
  BY DEF Init
<1>2. Total(items) \in Nat
  BY ItemsChained
<1>3. \A i \in 1..Len(items) : items[i].first \in Nat /\ Count(items[i]) \in Nat
  BY ItemsChained, ItemParts
<1>4. Exactly
  <2>1. ASSUME NEW i \in 1..Len(items), NEW k \in 1..Count(items[i])
        PROVE  ~(items[i].first + k <= 0)
    BY <1>3
  <2> QED
    BY <1>1, <1>2, <2>1 DEF Exactly
<1>5. \A r \in Requests : Sound(r)
  BY IdleType DEF Init, Sound, At
<1> QED
  BY <1>1, <1>4, <1>5 DEF PlaylistInv

\* A step of a request that leaves the queue and the client's playlist alone.
LEMMA PlaylistMoves ==
    ASSUME Inv, PlaylistInv, NEW r \in Requests, NEW x \in Request,
           req' = [req EXCEPT ![r] = x],
           kind' = kind, source' = source, items' = items, fetched' = fetched,
           playlist' = playlist, ended' = ended,
           x.pc \in {"plan", "render"} =>
               x.skip <= Len(playlist) /\ (x.active \/ ~Continues(source)),
           x.pc = "render" /\ x.from # 1 =>
               /\ x.delta /\ x.active /\ items[x.from].first <= x.skip
               /\ Enough(Durations(items), Total(items) - items[x.from].first)
    PROVE  PlaylistInv'
<1>1. Exactly'
  BY DEF PlaylistInv, Exactly
<1>2. Continues(source)' = Continues(source)
  BY DEF Continues
<1>3. ASSUME NEW q \in Requests PROVE Sound(q)'
  <2>1. req' \in [Requests -> Request] /\ req'[r] = x /\ (q # r => req'[q] = req[q])
    BY DEF Inv, TypeOK
  <2>2. CASE q = r
    BY <1>2, <2>1, <2>2 DEF Sound, At
  <2>3. CASE q # r
    <3>1. Sound(q) /\ req'[q] = req[q]
      BY <2>1, <2>3 DEF PlaylistInv
    <3> QED
      BY <1>2, <3>1 DEF Sound, At
  <2> QED
    BY <2>2, <2>3
<1> QED
  BY <1>1, <1>2, <1>3 DEF PlaylistInv

\* Steps that do not plan or answer: only ReadRecord says what may be skipped.
LEMMA PlaylistSimple ==
    ASSUME Inv, PlaylistInv, NEW r \in Requests,
           \/ LoadSession(r) \/ LimitExceeded(r) \/ HorizonReached(r) \/ FetchPage(r)
           \/ AppendRace(r) \/ AppendRaceRefused(r)
           \/ \E delta \in BOOLEAN : AskManifest(r, delta)
    PROVE  PlaylistInv'
<1>1. PICK x : x = req'[r]
  OBVIOUS
<1>2. /\ kind' = kind /\ source' = source /\ items' = items /\ fetched' = fetched
      /\ playlist' = playlist /\ ended' = ended
  BY DEF LoadSession, LimitExceeded, HorizonReached, FetchPage, AppendRace,
         AppendRaceRefused, AskManifest, Refuse, sessionVars, clientVars
<1>3. \E y : req' = [req EXCEPT ![r] = y]
  BY DEF LoadSession, LimitExceeded, HorizonReached, FetchPage, AppendRace,
         AppendRaceRefused, AskManifest, Refuse, Again
<1>4. req \in [Requests -> Request] /\ req' \in [Requests -> Request]
  <2>1. Inv'
    BY SimpleSteps, FetchPageStep
  <2> QED
    BY <2>1 DEF Inv, TypeOK
<1>5. req' = [req EXCEPT ![r] = x] /\ x \in Request
  BY <1>1, <1>3, <1>4
<1>6. x.pc \notin {"plan", "render"}
  <2>1. req[r] \in Request /\ Idle \in Request /\ Idle.pc = "idle"
    BY <1>4, IdleType
  <2>2. CASE LoadSession(r)
    BY <1>1, <1>4, <2>1, <2>2 DEF LoadSession, Request
  <2>3. CASE LimitExceeded(r) \/ AppendRaceRefused(r)
    BY <1>1, <1>4, <2>1, <2>3 DEF LimitExceeded, AppendRaceRefused, Refuse
  <2>4. CASE HorizonReached(r)
    BY <1>1, <1>4, <2>1, <2>4 DEF HorizonReached, Request
  <2>5. CASE FetchPage(r)
    <3>1. PICK p : req' = [req EXCEPT ![r] =
                     [req[r] EXCEPT !.pc = "append", !.empty = (p.tracks = <<>>),
                               !.page = Keep(p.tracks, Tracks \ Unprepared),
                               !.next = p.next]]
      BY <2>5 DEF FetchPage
    <3>2. x = [req[r] EXCEPT !.pc = "append", !.empty = (p.tracks = <<>>),
                             !.page = Keep(p.tracks, Tracks \ Unprepared), !.next = p.next]
      BY <1>1, <1>4, <3>1
    <3>3. x.pc = "append"
      BY <2>1, <3>2 DEF Request
    <3> QED
      BY <3>3
  <2>6. CASE AppendRace(r)
    BY <1>1, <1>4, <2>1, <2>6 DEF AppendRace, Again, Request
  <2>7. CASE \E delta \in BOOLEAN : AskManifest(r, delta)
    <3>1. PICK delta \in BOOLEAN :
              req' = [req EXCEPT ![r] = [req[r] EXCEPT !.pc = "load", !.delta = delta]]
      BY <2>7 DEF AskManifest
    <3>2. x = [req[r] EXCEPT !.pc = "load", !.delta = delta]
      BY <1>1, <1>4, <3>1
    <3>3. x.pc = "load"
      BY <2>1, <3>2 DEF Request
    <3> QED
      BY <3>3
  <2> QED
    BY <2>2, <2>3, <2>4, <2>5, <2>6, <2>7
<1> QED
  BY <1>2, <1>5, <1>6, PlaylistMoves

\* What the record says may be skipped is at most what the client has fetched.
LEMMA PlaylistReadRecord ==
    ASSUME Inv, PlaylistInv, NEW r \in Requests, ReadRecord(r)
    PROVE  PlaylistInv'
<1>1. PICK limit \in {fetched + 1} \cup {Lesser(fetched + 1, n) : n \in Msn} :
          req' = [req EXCEPT ![r] = [Idle EXCEPT !.pc = "plan", !.delta = req[r].delta,
                                        !.skip = limit, !.active = Continues(source)]]
  BY DEF ReadRecord
<1>2. PICK x : x = [Idle EXCEPT !.pc = "plan", !.delta = req[r].delta,
                                !.skip = limit, !.active = Continues(source)]
  OBVIOUS
<1>3. /\ kind' = kind /\ source' = source /\ items' = items /\ fetched' = fetched
      /\ playlist' = playlist /\ ended' = ended
  BY DEF ReadRecord, sessionVars, clientVars
<1>4. fetched \in Nat \cup {-1} /\ fetched < Len(playlist) /\ Len(playlist) \in Nat
  BY LenProperties DEF Inv, TypeOK, PlaylistInv
<1>5. limit \in Nat /\ limit <= Len(playlist)
  <2>1. fetched + 1 \in Nat /\ fetched + 1 <= Len(playlist)
    BY <1>4
  <2>2. Msn \subseteq Nat
    BY PlaybackConstants
  <2>3. \A n \in Msn : Lesser(fetched + 1, n) \in Nat /\ Lesser(fetched + 1, n) <= fetched + 1
    BY <2>1, <2>2 DEF Lesser
  <2> QED
    BY <1>4, <2>1, <2>3
<1>6. x \in Request /\ x.pc = "plan" /\ x.skip = limit /\ x.active = Continues(source)
  <2>1. PICK i \in Request : i = Idle
    BY IdleType
  <2>2. PICK c \in BOOLEAN : c = Continues(source)
    BY DEF Continues, Inv, TypeOK, Source
  <2>3. x = [i EXCEPT !.pc = "plan", !.delta = req[r].delta, !.skip = limit, !.active = c]
    BY <1>2, <2>1, <2>2
  <2>4. req[r].delta \in BOOLEAN /\ "plan" \in RequestPC
    BY RequestParts DEF RequestPC
  <2>5. x \in Request
    BY <1>5, <2>3, <2>4 DEF Request
  <2>6. x.pc = "plan" /\ x.skip = limit /\ x.active = c
    BY <2>3 DEF Request
  <2> QED
    BY <2>2, <2>5, <2>6
<1>7. req' = [req EXCEPT ![r] = x]
  BY <1>1, <1>2
<1>8. x.skip <= Len(playlist) /\ (x.active \/ ~Continues(source))
  BY <1>5, <1>6
<1> QED
  BY <1>3, <1>6, <1>7, <1>8, PlaylistMoves

\* An item other than the first one begins after it.
LEMMA LaterFirst ==
    ASSUME NEW q, Chained(q), NEW f \in 1..Len(q), f # 1
    PROVE  q[f].first \in Nat /\ q[f].first > 0 /\ q[f].first < Total(q)
<1>1. /\ Len(q) \in Nat /\ 1 \in 1..Len(q)
      /\ \A i \in 1..Len(q) : q[i].first \in Nat /\ Count(q[i]) \in Nat \ {0}
  BY ItemParts
<1>2. 1 < f
  BY <1>1
<1>3. q[1].first + Count(q[1]) <= q[f].first
  BY <1>1, <1>2, ChainedUp
<1>4. q[f].first + Count(q[f]) <= Total(q)
  BY ChainedUp
<1>5. Total(q) \in Nat
  BY ItemParts
<1>6. q[1].first \in Nat /\ Count(q[1]) \in Nat \ {0}
  BY <1>1
<1>7. q[f].first \in Nat /\ Count(q[f]) \in Nat \ {0}
  BY <1>1
<1>8. q[f].first > 0
  BY <1>3, <1>6, <1>7
<1>9. q[f].first < Total(q)
  BY <1>4, <1>5, <1>7
<1> QED
  BY <1>7, <1>8, <1>9

\* A request plans to load from an item that leaves enough to keep.
LEMMA PlaylistPlanLoad ==
    ASSUME Inv, PlaylistInv, NEW r \in Requests, PlanLoad(r)
    PROVE  PlaylistInv'
<1>1. PICK f : f = FirstToLoad(r)
  OBVIOUS
<1>2. PICK s : s = PlanSkip(r)
  OBVIOUS
<1>3. /\ s \in Nat /\ f \in 1..Len(items)
      /\ f # 1 => req[r].delta /\ req[r].active /\ items[f].first <= s
  BY <1>1, <1>2, FirstLoaded
<1>4. PICK t \in Nat : t = Total(items)
  BY ItemsChained
<1>5. PICK d \in Seq(Nat) : d = Durations(items)
  BY ItemsChained
<1>6. Len(d) = t /\ d # <<>> /\ Chained(items)
  BY <1>4, <1>5, ItemsChained
<1>7. PICK m \in Nat : m = Retained(d)
  BY RetainedLeast
<1>8. m \in 0..t /\ (Enough(d, m) \/ m = t)
  BY <1>6, <1>7, RetainedLeast
<1>9. s <= t - m /\ s <= req[r].skip
  <2>1. req[r].skip \in Nat
    BY RequestParts
  <2>2. s = Lesser(Greater(0, t - m), req[r].skip)
    BY <1>2, <1>4, <1>5, <1>7 DEF PlanSkip
  <2>3. Greater(0, t - m) = t - m
    BY <1>8 DEF Greater
  <2> QED
    BY <1>8, <2>1, <2>2, <2>3 DEF Lesser
<1>10. ASSUME f # 1
       PROVE  /\ items[f].first <= req[r].skip
              /\ Enough(d, t - items[f].first)
  <2>1. PICK b \in Nat : b = items[f].first /\ b > 0 /\ b < t
    BY <1>3, <1>4, <1>6, <1>10, LaterFirst
  <2>2. b <= s
    BY <1>3, <1>10, <2>1
  <2>3. req[r].skip \in Nat
    BY RequestParts
  <2>4. b <= req[r].skip
    BY <1>3, <1>9, <2>2, <2>3
  <2>5. m <= t - b
    BY <1>3, <1>8, <1>9, <2>1, <2>2
  <2>6. Enough(d, m)
    BY <1>8, <2>1, <2>5
  <2>7. t - b \in 0..Len(d) /\ m \in 0..(t - b)
    BY <1>6, <2>1, <2>5
  <2>8. Enough(d, t - b)
    BY <2>6, <2>7, EnoughMore
  <2> QED
    BY <2>1, <2>4, <2>8
<1>11. PICK x : x = [req[r] EXCEPT !.pc = "render", !.from = f]
  OBVIOUS
<1>12. x \in Request /\ x.pc = "render" /\ x.from = f /\ x.delta = req[r].delta
       /\ x.active = req[r].active /\ x.skip = req[r].skip
  <2>1. PICK y \in Request : y = req[r]
    BY RequestParts
  <2>2. x = [y EXCEPT !.pc = "render", !.from = f]
    BY <1>11, <2>1
  <2>3. f \in Nat \ {0} /\ "render" \in RequestPC
    BY <1>3, <1>6, ItemParts DEF RequestPC
  <2>4. x \in Request
    BY <2>2, <2>3 DEF Request
  <2>5. x.pc = "render" /\ x.from = f /\ x.delta = y.delta /\ x.active = y.active
        /\ x.skip = y.skip
    BY <2>2 DEF Request
  <2> QED
    BY <2>1, <2>4, <2>5
<1>13. /\ req' = [req EXCEPT ![r] = x]
       /\ kind' = kind /\ source' = source /\ items' = items /\ fetched' = fetched
       /\ playlist' = playlist /\ ended' = ended
  <2>1. req' = [req EXCEPT ![r] = [req[r] EXCEPT !.pc = "render", !.from = f]]
    BY <1>1 DEF PlanLoad
  <2> QED
    BY <1>11, <2>1 DEF PlanLoad, sessionVars, clientVars
<1>14. req[r].skip <= Len(playlist) /\ (req[r].active \/ ~Continues(source))
  BY DEF PlanLoad, PlaylistInv, Sound
<1>15. x.skip <= Len(playlist) /\ (x.active \/ ~Continues(source))
  BY <1>12, <1>14
<1>16. x.from # 1 =>
           /\ x.delta /\ x.active /\ items[x.from].first <= x.skip
           /\ Enough(Durations(items), Total(items) - items[x.from].first)
  BY <1>3, <1>4, <1>5, <1>10, <1>12
<1> QED
  BY <1>12, <1>13, <1>15, <1>16, PlaylistMoves

\* The client fetches a segment that its playlist lists: it is one of those before its end.
LEMMA PlaylistFetchSegment ==
    ASSUME Inv, PlaylistInv, NEW p \in DOMAIN playlist, FetchSegment(p)
    PROVE  PlaylistInv'
<1>1. /\ kind' = kind /\ source' = source /\ items' = items /\ req' = req
      /\ playlist' = playlist /\ ended' = ended
  BY DEF FetchSegment, clientVars
<1>2. p \in 1..Len(playlist) /\ Len(playlist) \in Nat
  BY LenProperties DEF Inv
<1>3. Len(playlist) <= Total(items) /\ fetched < Len(playlist)
  BY DEF PlaylistInv, Exactly
<1>4. /\ Chained(items) /\ items[1].first = 0 /\ Total(items) \in Nat
  BY ItemsChained
<1>5. p \in Nat /\ items[1].first < p /\ p <= Total(items)
  BY <1>2, <1>3, <1>4
<1>6. PICK i \in 1..Len(items) : \E k \in 1..Count(items[i]) : p = items[i].first + k
  BY <1>4, <1>5, SegmentAt
<1>7. PICK k \in 1..Count(items[i]) : p = items[i].first + k
  BY <1>6
<1>8. playlist[p] = <<i, k>>
  BY <1>2, <1>7 DEF PlaylistInv, Exactly
<1>9. fetched' = Greater(fetched, p - 1)
  <2>1. playlist[p][1] = i /\ playlist[p][2] = k
    BY <1>8
  <2>2. fetched' = Greater(fetched, items[playlist[p][1]].first + playlist[p][2] - 1)
    BY DEF FetchSegment
  <2>3. fetched' = Greater(fetched, items[i].first + (k - 1))
    BY <2>1, <2>2
  <2>4. items[i].first \in Nat /\ k \in Nat
    BY <1>4, ItemParts
  <2>5. items[i].first + (k - 1) = p - 1
    BY <1>7, <2>4
  <2> QED
    BY <2>3, <2>5
<1>10. fetched' < Len(playlist')
  <2>1. fetched \in Nat \cup {-1}
    BY DEF Inv, TypeOK
  <2> QED
    BY <1>1, <1>2, <1>3, <1>9, <2>1 DEF Greater
<1>11. Exactly'
  BY <1>1 DEF PlaylistInv, Exactly
<1>12. ASSUME NEW q \in Requests PROVE Sound(q)'
  BY <1>1 DEF PlaylistInv, Sound, At, Continues
<1> QED
  BY <1>1, <1>10, <1>11, <1>12 DEF PlaylistInv, Continues

\* Steps of the library and of a client that gives up, and no step at all.
LEMMA PlaylistOther ==
    ASSUME Inv, PlaylistInv,
           GiveUp \/ (\E t \in Volatile : TrackChanges(t)) \/ UNCHANGED vars
    PROVE  PlaylistInv'
<1>1. /\ kind' = kind /\ source' = source /\ items' = items /\ fetched' = fetched
      /\ req' = req /\ playlist' = playlist /\ ended' = ended
  BY DEF GiveUp, TrackChanges, vars, sessionVars, clientVars
<1>2. Exactly'
  BY <1>1 DEF PlaylistInv, Exactly
<1>3. ASSUME NEW q \in Requests PROVE Sound(q)'
  BY <1>1 DEF PlaylistInv, Sound, At, Continues
<1> QED
  BY <1>1, <1>2, <1>3 DEF PlaylistInv, Continues

\* Items that are appended come after everything that the client has.
LEMMA PlaylistAppendPage ==
    ASSUME Inv, PlaylistInv, NEW r \in Requests, AppendPage(r)
    PROVE  PlaylistInv'
<1>1. PICK cycle, k, page, next : Appends(cycle, k, page, next)
  BY AppendPageDoes
<1>2. PICK l : l = Len(items)
  OBVIOUS
<1>3. PICK n : n = Len(k)
  OBVIOUS
<1>4. PICK e : e = items'
  OBVIOUS
<1>5. /\ l \in Nat /\ n \in Nat /\ 1 \in 1..l /\ e \in Seq(Item) /\ Len(e) = l + n
      /\ \A i \in 1..l : i \in 1..(l + n) /\ e[i] = items[i]
  <2>1. Longer(e, l, n, k, cycle)
    BY <1>1, <1>2, <1>3, <1>4, AppendedQueue
  <2> QED
    BY <2>1 DEF Longer
<1>6. Continues(source)
  BY <1>1 DEF Appends, PageGood
<1>7. /\ kind' = kind /\ fetched' = fetched /\ playlist' = playlist /\ ended' = ended
      /\ awaiting' = awaiting
  BY DEF AppendPage, clientVars
<1>8. /\ Chained(items) /\ items[1].first = 0
      /\ Durations(items) \in Seq(Nat) /\ Len(Durations(items)) = Total(items)
  BY ItemsChained
<1>9. /\ Chained(e) /\ e[1].first = 0 /\ Total(e) \in Nat
      /\ Durations(e) \in Seq(Nat) /\ Len(Durations(e)) = Total(e)
  <2>1. Contiguous(e)
    BY <1>1, <1>4 DEF Appends, Extends, Inv
  <2>2. e # <<>>
    BY <1>5, EmptySeq
  <2> QED
    BY <1>5, <2>1, <2>2, QueueChained
<1>10. PICK t \in Nat : t = Total(items)
  BY ItemsChained
<1>11. ASSUME NEW i \in 1..(l + n), i \notin 1..l
       PROVE  e[i].first \in Nat /\ t <= e[i].first
  <2>1. l \in 1..(l + n) /\ i \in 1..(l + n) /\ l < i
    BY <1>5, <1>11
  <2>2. e[l].first + Count(e[l]) <= e[i].first
    BY <1>5, <1>9, <2>1, ChainedUp
  <2>3. t = items[l].first + Count(items[l])
    BY <1>2, <1>8, <1>10, ItemParts
  <2>4. e[l] = items[l]
    BY <1>5
  <2>5. e[i].first \in Nat
    BY <1>5, <1>9, ItemParts
  <2> QED
    BY <2>2, <2>3, <2>4, <2>5
<1>12. PICK u \in Nat : u = Total(e)
  BY <1>9
<1>13. t <= u
  <2>1. e[l].first + Count(e[l]) <= Total(e)
    BY <1>5, <1>9, ChainedUp
  <2>2. t = items[l].first + Count(items[l])
    BY <1>2, <1>8, <1>10, ItemParts
  <2> QED
    BY <1>5, <1>12, <2>1, <2>2
<1>14. PICK c \in Nat : c = Len(playlist)
  BY LenProperties DEF Inv
<1>15. c <= t
  BY <1>10, <1>14 DEF PlaylistInv, Exactly
<1>16. Exactly'
  <2>1. ASSUME NEW i \in 1..(l + n), NEW j \in 1..Count(e[i]), e[i].first + j <= c
        PROVE  playlist[e[i].first + j] = <<i, j>>
    <3>1. e[i].first \in Nat /\ Count(e[i]) \in Nat
      BY <1>5, <1>9, ItemParts
    <3>2. i \in 1..l
      BY <1>11, <1>15, <2>1, <3>1
    <3>3. e[i] = items[i]
      BY <1>5, <3>2
    <3> QED
      BY <1>2, <1>14, <2>1, <3>2, <3>3 DEF PlaylistInv, Exactly
  <2>2. c <= u
    BY <1>13, <1>15
  <2>3. Len(playlist') <= Total(items')
    BY <1>4, <1>7, <1>12, <1>14, <2>2
  <2>4. \A i \in 1..Len(items') : \A j \in 1..Count(items'[i]) :
            items'[i].first + j <= Len(playlist') =>
                playlist'[items'[i].first + j] = <<i, j>>
    BY <1>4, <1>5, <1>7, <1>14, <2>1
  <2> QED
    BY <2>3, <2>4 DEF Exactly
<1>17. ASSUME NEW b \in Nat, b <= t, Enough(Durations(items), t - b)
       PROVE  Enough(Durations(e), u - b)
  <2>1. PICK d \in Seq(Nat) : d = Durations(items)
    BY <1>8
  <2>2. PICK f \in Seq(Nat) : f = Durations(e)
    BY <1>9
  <2>3. PICK g \in Nat : g = u - t
    BY <1>13
  <2>4. PICK m \in Nat : m = t - b
    BY <1>17
  <2>5. Len(d) = t /\ Len(f) = u /\ Len(f) = Len(d) + g /\ m \in 0..Len(d) /\ u - b = g + m
    <3>1. Len(d) = t /\ Len(f) = u
      BY <1>8, <1>9, <1>10, <1>12, <2>1, <2>2
    <3>2. u = t + g /\ b <= t
      BY <1>17, <2>3
    <3>3. m \in 0..t /\ u - b = g + m
      BY <2>4, <3>2
    <3> QED
      BY <3>1, <3>2, <3>3
  <2>6. \A p \in 1..Len(d) : f[p] = d[p]
    <3> SUFFICES ASSUME NEW p \in 1..t PROVE f[p] = d[p]
      BY <2>5
    <3>1. Within(items, e, 0)
      BY <1>2, <1>5 DEF Within
    <3>2. p \in Nat /\ items[1].first < p /\ p <= Total(items) /\ 0 \in Nat
      BY <1>8, <1>10
    <3>3. Durations(e)[p - e[1].first] = Durations(items)[p - items[1].first]
      BY <1>8, <1>9, <3>1, <3>2, DurationsAlike
    <3>4. p - e[1].first = p /\ p - items[1].first = p
      BY <1>8, <1>9
    <3> QED
      BY <2>1, <2>2, <3>3, <3>4
  <2>7. LastOf(f, g + m) >= LastOf(d, m)
    BY <2>5, <2>6, LastOfGrown
  <2>8. LastOf(f, g + m) \in Nat /\ LastOf(d, m) \in Nat
    <3>1. g + m \in 0..Len(f)
      BY <2>5
    <3> QED
      BY <2>5, <3>1, LastOfType
  <2>9. m >= TailSegments /\ LastOf(d, m) >= TailDuration
    BY <1>17, <2>1, <2>4 DEF Enough
  <2>10. TailSegments \in Nat /\ TailDuration \in Nat
    BY PlaybackConstants
  <2>11. g + m >= TailSegments
    BY <2>9, <2>10
  <2>12. LastOf(f, g + m) >= TailDuration
    BY <2>7, <2>8, <2>9, <2>10
  <2> QED
    BY <2>2, <2>5, <2>11, <2>12 DEF Enough
<1>18. req' \in [Requests -> Request] /\ ~At(r, "plan")' /\ ~At(r, "render")'
       /\ \A q \in Requests : q # r => req'[q] = req[q]
  <2>1. Inv'
    BY AppendPageStep
  <2>2. PICK pc \in {"record", "load"} : pc = IF Exhausted(r) THEN "record" ELSE "load"
    OBVIOUS
  <2>3. req' = [req EXCEPT ![r] = [Idle EXCEPT !.pc = pc, !.tries = req[r].tries + 1,
                                               !.delta = req[r].delta]]
    BY <2>2 DEF AppendPage, Again
  <2>4. PICK i \in Request : i = Idle
    BY IdleType
  <2>5. [i EXCEPT !.pc = pc, !.tries = req[r].tries + 1, !.delta = req[r].delta].pc = pc
    BY DEF Request
  <2>6. req \in [Requests -> Request]
    BY DEF Inv, TypeOK
  <2>7. req'[r].pc = pc /\ \A q \in Requests : q # r => req'[q] = req[q]
    BY <2>3, <2>4, <2>5, <2>6
  <2> QED
    BY <2>1, <2>7 DEF Inv, TypeOK, At
<1>19. ASSUME NEW q \in Requests PROVE Sound(q)'
  <2>1. CASE q = r
    BY <1>18, <2>1 DEF Sound, At
  <2>2. CASE q # r
    <3>1. req'[q] = req[q]
      BY <1>18, <2>2
    <3>2. At(q, "plan") \/ At(q, "render") => req[q].skip <= Len(playlist) /\ req[q].active
      BY <1>6 DEF PlaylistInv, Sound
    <3>3. ASSUME At(q, "render"), req[q].from # 1
          PROVE  /\ req[q].delta /\ req[q].active
                 /\ e[req[q].from].first <= req[q].skip
                 /\ Enough(Durations(e), u - e[req[q].from].first)
      <4>1. PICK f \in 1..l : f = req[q].from
        <5>1. req[q].from \in Nat \ {0}
          BY RequestParts
        <5>2. req[q].from <= l
          BY <1>2, <3>3 DEF Inv, RequestGood
        <5> QED
          BY <1>5, <5>1, <5>2
      <4>2. e[f] = items[f]
        BY <1>5
      <4>3. /\ req[q].delta /\ req[q].active /\ items[f].first <= req[q].skip
            /\ Enough(Durations(items), t - items[f].first)
        BY <1>10, <3>3, <4>1 DEF PlaylistInv, Sound
      <4>4. items[f].first \in Nat /\ items[f].first <= t
        BY <1>2, <1>8, <1>10, <3>3, <4>1, LaterFirst
      <4>5. Enough(Durations(e), u - items[f].first)
        BY <1>17, <4>3, <4>4
      <4> QED
        BY <4>1, <4>2, <4>3, <4>5
    <3> QED
      BY <1>4, <1>7, <1>12, <3>1, <3>2, <3>3 DEF Sound, At
  <2> QED
    BY <2>1, <2>2
<1>20. fetched' < Len(playlist') /\ (ended' => FALSE)
  BY <1>6, <1>7 DEF PlaylistInv
<1> QED
  BY <1>16, <1>19, <1>20 DEF PlaylistInv

\* The items from an ordinal on end where the queue ends.
LEMMA LoadedTotal ==
    ASSUME NEW q, Chained(q), NEW from \in 1..Len(q), NEW loaded,
           loaded = SubSeq(q, from, Len(q))
    PROVE  Total(loaded) = Total(q)
  BY LoadedChained

\* What an answer skips: nothing that is loaded is missing, and nothing that the client
\* does not have is skipped.
LEMMA SkippedSound ==
    ASSUME Inv, PlaylistInv, NEW r \in Requests, At(r, "render"),
           NEW loaded, loaded = SubSeq(items, req[r].from, Len(items)),
           req[r].from \in 1..Len(items)
    PROVE  /\ Skipped(r, loaded) \in Nat
           /\ Skipped(r, loaded) <= req[r].skip /\ Skipped(r, loaded) <= Total(items)
           /\ items[req[r].from].first <= Skipped(r, loaded) \/ req[r].from = 1
           /\ ~req[r].active => Skipped(r, loaded) = 0
<1>1. PICK from \in 1..Len(items) : from = req[r].from
  OBVIOUS
<1>2. PICK w \in Seq(Item) : w = items
  BY ItemsChained
<1>3. Chained(w) /\ w[1].first = 0 /\ Durations(w) \in Seq(Nat) /\ from \in 1..Len(w)
      /\ Len(Durations(w)) = Total(w)
  BY <1>2, ItemsChained
<1>4. loaded = SubSeq(w, from, Len(w))
  BY <1>1, <1>2
<1>5. Chained(loaded)
  BY <1>3, <1>4, LoadedChained
<1>6. Len(loaded) = Len(w) - from + 1
  BY <1>3, <1>4, LoadedChained
<1>7. \A i \in 1..Len(loaded) : from + i - 1 \in 1..Len(w) /\ loaded[i] = w[from + i - 1]
  BY <1>3, <1>4, LoadedChained
<1>8. Total(loaded) = Total(w)
  BY <1>3, <1>4, LoadedChained
<1>9. loaded[1].first = w[from].first
  BY <1>3, <1>4, LoadedChained
<1>10. PICK t \in Nat : t = Total(w)
  BY <1>2, ItemsChained
<1>11. PICK b \in Nat : b = w[from].first
  BY <1>3, ItemParts
<1>12. PICK d \in Seq(Nat) : d = Durations(loaded)
  BY <1>5, DurationsLaid
<1>13. Len(d) = t - b /\ b <= t
  <2>1. Len(d) = t - b
    BY <1>5, <1>8, <1>9, <1>10, <1>11, <1>12, DurationsLaid
  <2>2. Len(d) \in Nat
    BY LenProperties
  <2> QED
    BY <2>1, <2>2
<1>14. PICK m \in Nat : m = Retained(d)
  BY RetainedLeast
<1>15. m \in 0..Len(d) /\ (\A n \in 0..Len(d) : Enough(d, n) => Enough(d, m) /\ m <= n)
  BY <1>14, RetainedLeast
<1>16. PICK s \in Nat : s = Skipped(r, loaded)
  BY <1>5, SkippedType
<1>17. PICK k \in Nat : k = req[r].skip
  BY RequestParts
<1>18. t - m \in Nat /\ Greater(0, t - m) = t - m /\ Greater(0, t - 0) = t
  BY <1>13, <1>15 DEF Greater
<1>19. CASE ~req[r].active
  <2>1. s = 0
    BY <1>16, <1>19 DEF Skipped
  <2>2. from = 1
    BY <1>1, <1>19 DEF PlaylistInv, Sound
  <2> QED
    BY <1>1, <1>10, <1>16, <1>17, <1>2, <2>1, <2>2
<1>20. CASE req[r].active
  <2>1. s = IF req[r].delta /\ (t - m > 0 /\ LastOf(d, m) >= TailDuration)
            THEN Lesser(t - m, k) ELSE 0
    <3>1. s = IF req[r].delta /\ (Greater(0, t - m) > 0 /\ LastOf(d, m) >= TailDuration)
              THEN Lesser(Greater(0, t - m), k) ELSE 0
      BY <1>8, <1>10, <1>12, <1>14, <1>16, <1>17, <1>20 DEF Skipped
    <3> QED
      BY <1>18, <3>1
  <2>2. s <= k /\ s <= t
    <3>1. t - m \in Nat /\ t - m <= t
      BY <1>18
    <3>2. Lesser(t - m, k) <= k /\ Lesser(t - m, k) <= t
      BY <3>1 DEF Lesser
    <3>3. 0 <= k /\ 0 <= t
      OBVIOUS
    <3> QED
      BY <2>1, <3>2, <3>3
  <2>3. ASSUME from # 1 PROVE b <= s
    <3>1. /\ req[r].delta /\ b <= k
          /\ Enough(Durations(w), t - b)
      <4>1. Sound(r)
        BY DEF PlaylistInv
      <4>2. /\ req[r].delta /\ items[req[r].from].first <= req[r].skip
            /\ Enough(Durations(items), Total(items) - items[req[r].from].first)
        BY <1>1, <2>3, <4>1 DEF Sound
      <4> QED
        BY <1>1, <1>2, <1>10, <1>11, <1>17, <4>2
    <3>2. b > 0
      BY <1>3, <1>11, <2>3, LaterFirst
    <3>3. PICK n \in Nat : n = t - b
      BY <1>13
    <3>4. \A j \in 0..(n - 1) : d[Len(d) - j] = Durations(w)[Len(Durations(w)) - j]
      <4> SUFFICES ASSUME NEW j \in 0..(n - 1)
                   PROVE  d[n - j] = Durations(w)[t - j]
        BY <1>3, <1>10, <1>13, <3>3
      <4>1. PICK p \in Nat : p = t - j
        BY <3>3
      <4>2. b < p /\ p <= t /\ p - b = n - j /\ p - 0 = p
        BY <3>3, <4>1
      <4>3. PICK c \in Nat : c = from - 1
        OBVIOUS
      <4>4. Within(loaded, w, c)
        <5> SUFFICES ASSUME NEW i \in 1..Len(loaded)
                     PROVE  c + i \in 1..Len(w) /\ w[c + i] = loaded[i]
          BY DEF Within
        <5>1. c + i = from + i - 1
          BY <4>3
        <5> QED
          BY <1>7, <5>1
      <4>5. loaded[1].first < p /\ p <= Total(loaded)
        BY <1>8, <1>9, <1>10, <1>11, <4>2
      <4>6. Durations(w)[p - w[1].first] = Durations(loaded)[p - loaded[1].first]
        BY <1>3, <1>5, <4>3, <4>4, <4>5, DurationsAlike
      <4>7. p - w[1].first = p /\ p - loaded[1].first = n - j
        BY <1>3, <1>9, <1>11, <4>2
      <4> QED
        BY <1>12, <4>1, <4>6, <4>7
    <3>5. n <= Len(d) /\ n <= Len(Durations(w))
      BY <1>3, <1>10, <1>13, <3>3
    <3>6. LastOf(d, n) = LastOf(Durations(w), n)
      BY <1>3, <3>4, <3>5, LastOfSame
    <3>7. Enough(d, n)
      BY <3>1, <3>3, <3>6 DEF Enough
    <3>8. n \in 0..Len(d)
      BY <1>13, <3>3
    <3>9. Enough(d, m) /\ m <= n
      BY <1>15, <3>7, <3>8
    <3>10. t - m >= b /\ t - m > 0
      BY <3>2, <3>3, <3>9
    <3>11. LastOf(d, m) >= TailDuration
      BY <3>9 DEF Enough
    <3>12. s = Lesser(t - m, k)
      BY <2>1, <3>1, <3>10, <3>11
    <3> QED
      BY <1>18, <3>1, <3>10, <3>12 DEF Lesser
  <2> QED
    BY <1>1, <1>2, <1>10, <1>11, <1>16, <1>17, <1>20, <2>2, <2>3
<1> QED
  BY <1>19, <1>20

\* The client's playlist lists exactly the segments of the queue, up to its end.
Lists(p, q) ==
    /\ Len(p) = Total(q)
    /\ \A i \in 1..Len(q) : \A k \in 1..Count(q[i]) : p[q[i].first + k] = <<i, k>>

\* An answer that skips no less than what comes before the items it is rendered from.
LEMMA EmittedAfter ==
    ASSUME NEW q, Chained(q), NEW from \in Nat \ {0}, NEW n \in Nat,
           q[1].first <= n, n <= Total(q)
    PROVE  /\ ListsAfter(Emitted(q, from, n), q, from, n)
           /\ Len(Emitted(q, from, n)) = Total(q) - n
<1>1. n = Greater(n, q[1].first)
  BY ItemParts DEF Greater
<1>2. Greater(Total(q), n) = Total(q)
  BY ItemParts DEF Greater
<1>3. ListsAfter(Emitted(q, from, n), q, from, n)
  BY <1>1, EmittedLaid
<1> QED
  BY <1>2, <1>3 DEF ListsAfter

\* What the client puts together from an answer is the whole playlist of the queue.
LEMMA MergedLists ==
    ASSUME Inv, PlaylistInv, NEW r \in Requests, At(r, "render"),
           NEW loaded, loaded = SubSeq(items, req[r].from, Len(items)),
           req[r].from \in 1..Len(items), NEW s, s = Skipped(r, loaded)
    PROVE  Lists(Merged(s, Emitted(loaded, req[r].from, s)), items)
<1>1. PICK from \in 1..Len(items) : from = req[r].from
  OBVIOUS
<1>2. PICK w \in Seq(Item) : w = items
  BY ItemsChained
<1>3. Chained(w) /\ w[1].first = 0 /\ from \in 1..Len(w) /\ from \in Nat \ {0}
  BY <1>1, <1>2, ItemsChained
<1>4. loaded = SubSeq(w, from, Len(w))
  BY <1>1, <1>2
<1>5. Chained(loaded)
  BY <1>3, <1>4, LoadedChained
<1>6. Len(loaded) = Len(w) - from + 1
  BY <1>3, <1>4, LoadedChained
<1>7. \A i \in 1..Len(loaded) : from + i - 1 \in 1..Len(w) /\ loaded[i] = w[from + i - 1]
  BY <1>3, <1>4, LoadedChained
<1>8. Total(loaded) = Total(w)
  BY <1>3, <1>4, LoadedTotal
<1>9. loaded[1].first = w[from].first
  BY <1>3, <1>4, LoadedChained
<1>10. PICK t \in Nat : t = Total(w)
  BY <1>2, ItemsChained
<1>11. PICK b \in Nat : b = w[from].first
  BY <1>3, ItemParts
<1>12. s \in Nat /\ s <= req[r].skip /\ s <= t /\ (b <= s \/ from = 1)
  BY <1>1, <1>2, <1>10, <1>11, SkippedSound
<1>13. b <= s
  <2>1. CASE from = 1
    BY <1>3, <1>11, <1>12, <2>1
  <2> QED
    BY <1>12, <2>1
<1>14. PICK e : e = Emitted(loaded, from, s)
  OBVIOUS
<1>15. ListsAfter(e, loaded, from, s) /\ Len(e) = Total(loaded) - s
  <2>1. loaded[1].first <= s
    BY <1>9, <1>11, <1>13
  <2>2. s <= Total(loaded) /\ s \in Nat /\ from \in Nat \ {0}
    BY <1>3, <1>8, <1>10, <1>12
  <2> QED
    BY <1>5, <1>14, <2>1, <2>2, EmittedAfter
<1>16. e \in Seq(EntriesFrom(loaded, from)) /\ Len(e) = t - s
  BY <1>8, <1>10, <1>15 DEF ListsAfter
<1>17. \A i \in 1..Len(loaded) : \A k \in 1..Count(loaded[i]) :
           loaded[i].first + k > s =>
               /\ loaded[i].first + k - s \in 1..Len(e)
               /\ e[loaded[i].first + k - s] = <<from + i - 1, k>>
  BY <1>15 DEF ListsAfter
<1>18. ASSUME NEW j \in 1..Len(w), NEW k \in 1..Count(w[j]), w[j].first + k > s
       PROVE  /\ w[j].first + k - s \in 1..Len(e)
              /\ e[w[j].first + k - s] = <<j, k>>
  <2>1. PICK f \in Nat : f = w[j].first
    BY <1>3, ItemParts
  <2>2. PICK c \in Nat : c = Count(w[j])
    BY <1>3, ItemParts
  <2>3. from <= j
    <3>1. CASE j < from
      <4>1. w[j].first + Count(w[j]) <= w[from].first
        BY <1>3, <3>1, ChainedUp
      <4> QED
        <5>1. f + c <= b
          BY <1>11, <2>1, <2>2, <4>1
        <5>2. f + c <= s
          BY <1>12, <1>13, <5>1
        <5>3. k <= c /\ k \in Nat /\ f + k > s
          BY <1>18, <2>1, <2>2
        <5> QED
          BY <1>12, <5>2, <5>3
    <3> QED
      BY <1>3, <3>1
  <2>4. PICK l \in Nat : l = Len(w)
    BY <1>3, ItemParts
  <2>5. PICK i \in Nat : i = j - from + 1
    BY <1>3, <2>3
  <2>6. i \in 1..Len(loaded) /\ from + i - 1 = j
    BY <1>3, <1>6, <2>3, <2>4, <2>5
  <2>7. loaded[i] = w[j]
    BY <1>7, <2>6
  <2> QED
    BY <1>17, <1>18, <2>6, <2>7
<1>19. PICK c \in Nat : c = Len(playlist)
  BY LenProperties DEF Inv
<1>20. s <= c
  <2>1. req[r].skip <= c /\ req[r].skip \in Nat
    BY <1>19, RequestParts DEF PlaylistInv, Sound
  <2> QED
    BY <1>12, <2>1
<1>21. \A i \in 1..Len(w) : w[i].first \in Nat /\ Count(w[i]) \in Nat
  BY <1>3, ItemParts
<1>22. PICK p : p = Merged(s, e)
  OBVIOUS
<1>23. Lists(p, w)
  <2>1. CASE s = 0
    <3>1. p = e
      BY <1>22, <2>1 DEF Merged
    <3>2. ASSUME NEW i \in 1..Len(w), NEW k \in 1..Count(w[i])
          PROVE  p[w[i].first + k] = <<i, k>>
      <4>1. w[i].first \in Nat /\ k \in Nat \ {0}
        BY <1>21
      <4>2. w[i].first + k > s /\ w[i].first + k - s = w[i].first + k
        BY <2>1, <4>1
      <4> QED
        BY <1>18, <3>1, <4>2
    <3> QED
      BY <1>10, <1>16, <2>1, <3>1, <3>2 DEF Lists
  <2>2. CASE s > 0
    <3>1. PICK a : a = Cut(playlist, s)
      OBVIOUS
    <3>2. /\ a \in Seq(Entries(items)) /\ Len(a) = s
          /\ \A i \in 1..s : a[i] = playlist[i]
      <4>1. playlist \in Seq(Entries(items))
        BY DEF Inv
      <4>2. Len(a) = IF s < c THEN s ELSE c
        BY <1>12, <1>19, <3>1, <4>1, CutFirst
      <4>3. Len(a) = s
        BY <1>12, <1>20, <4>2
      <4> QED
        BY <1>12, <3>1, <4>1, <4>3, CutFirst
    <3>3. p = a \o e
      BY <1>12, <1>19, <1>20, <1>22, <2>2, <3>1 DEF Merged
    <3>4. /\ Len(p) = t
          /\ \A i \in 1..s : p[i] = a[i]
          /\ \A i \in 1..Len(e) : p[s + i] = e[i]
      <4>1. PICK T : a \in Seq(T) /\ e \in Seq(T)
        <5>1. a \in Seq(Entries(items) \cup EntriesFrom(loaded, from))
          BY <3>2, SeqMonotonic
        <5>2. e \in Seq(Entries(items) \cup EntriesFrom(loaded, from))
          BY <1>16, SeqMonotonic
        <5> QED
          BY <5>1, <5>2
      <4>2. Len(a \o e) = Len(a) + Len(e) /\ Len(e) \in Nat
            /\ \A i \in 1..(Len(a) + Len(e)) :
                   (a \o e)[i] = IF i <= Len(a) THEN a[i] ELSE e[i - Len(a)]
        BY <4>1, ConcatProperties, LenProperties
      <4>3. Len(p) = t
        BY <1>12, <1>16, <3>2, <3>3, <4>2
      <4>4. PICK l \in Nat : l = Len(e)
        BY <4>2
      <4>5. \A i \in 1..(s + l) : p[i] = IF i <= s THEN a[i] ELSE e[i - s]
        BY <3>2, <3>3, <4>2, <4>4
      <4>6. \A i \in 1..s : i \in 1..(s + l) /\ i <= s
        BY <1>12
      <4>7. \A i \in 1..s : p[i] = a[i]
        BY <4>5, <4>6
      <4>8. \A i \in 1..l : s + i \in 1..(s + l) /\ ~(s + i <= s) /\ (s + i) - s = i
        BY <1>12
      <4>9. ASSUME NEW i \in 1..l PROVE p[s + i] = e[i]
        <5>1. PICK j : j = s + i
          OBVIOUS
        <5>2. j \in 1..(s + l) /\ ~(j <= s) /\ j - s = i
          BY <4>8, <5>1
        <5> QED
          BY <4>5, <5>1, <5>2
      <4> QED
        BY <4>3, <4>4, <4>7, <4>9
    <3>5. ASSUME NEW i \in 1..Len(w), NEW k \in 1..Count(w[i])
          PROVE  p[w[i].first + k] = <<i, k>>
      <4>1. PICK f \in Nat : f = w[i].first
        BY <1>21
      <4>2. k \in Nat \ {0}
        BY <1>21
      <4>3. CASE f + k <= s
        <5>1. f + k \in 1..s /\ f + k <= c
          BY <1>12, <1>20, <4>2, <4>3
        <5>2. playlist[f + k] = <<i, k>>
          BY <1>2, <1>19, <4>1, <5>1 DEF PlaylistInv, Exactly
        <5> QED
          BY <3>2, <3>4, <4>1, <5>1, <5>2
      <4>4. CASE f + k > s
        <5>1. f + k - s \in 1..Len(e) /\ e[f + k - s] = <<i, k>>
          BY <1>18, <4>1, <4>4
        <5>2. s + (f + k - s) = f + k
          BY <1>12, <4>2
        <5> QED
          BY <3>4, <4>1, <5>1, <5>2
      <4> QED
        BY <1>12, <4>2, <4>3, <4>4
    <3> QED
      BY <1>10, <3>4, <3>5 DEF Lists
  <2> QED
    BY <1>12, <2>1, <2>2
<1> QED
  BY <1>1, <1>2, <1>14, <1>22, <1>23

\* An answer gives the client the whole playlist, and ends it only after the last page.
LEMMA PlaylistRender ==
    ASSUME Inv, PlaylistInv, NEW r \in Requests, Render(r)
    PROVE  PlaylistInv'
<1>1. At(r, "render") /\ req[r].from \in 1..Len(items)
  <2>1. req[r].from \in Nat \ {0} /\ Len(items) \in Nat
    BY RequestParts, ItemsChained, LenProperties
  <2>2. At(r, "render") /\ req[r].from <= Len(items)
    BY DEF Render, Inv, RequestGood
  <2> QED
    BY <2>1, <2>2
<1>2. PICK loaded : loaded = SubSeq(items, req[r].from, Len(items))
  OBVIOUS
<1>3. PICK s : s = Skipped(r, loaded)
  OBVIOUS
<1>4. PICK p : p = Merged(s, Emitted(loaded, req[r].from, s))
  OBVIOUS
<1>5. Lists(p, items)
  BY <1>1, <1>2, <1>3, <1>4, MergedLists
<1>6. /\ req' = [req EXCEPT ![r] = Idle]
      /\ kind' = kind /\ source' = source /\ items' = items /\ fetched' = fetched
  BY DEF Render, sessionVars
<1>7. \/ awaiting = r /\ playlist' = p /\ ended' = ~req[r].active
      \/ playlist' = playlist /\ ended' = ended
  BY <1>2, <1>3, <1>4 DEF Render, clientVars
<1>8. CASE playlist' = playlist /\ ended' = ended
  BY <1>6, <1>8, IdleType, PlaylistMoves
<1>9. CASE playlist' = p /\ ended' = ~req[r].active
  <2>1. PICK t \in Nat : t = Total(items)
    BY ItemsChained
  <2>2. PICK c \in Nat : c = Len(playlist)
    BY LenProperties DEF Inv
  <2>3. c <= t /\ fetched < c /\ fetched \in Nat \cup {-1}
    BY <2>1, <2>2 DEF PlaylistInv, Exactly, Inv, TypeOK
  <2>4. Len(p) = t
    BY <1>5, <2>1 DEF Lists
  <2>5. Exactly'
    <3>1. Len(playlist') <= Total(items')
      BY <1>6, <1>9, <2>1, <2>4
    <3>2. \A i \in 1..Len(items') : \A k \in 1..Count(items'[i]) :
              playlist'[items'[i].first + k] = <<i, k>>
      BY <1>5, <1>6, <1>9 DEF Lists
    <3> QED
      BY <3>1, <3>2 DEF Exactly
  <2>6. fetched' < Len(playlist')
    BY <1>6, <1>9, <2>3, <2>4
  <2>7. ended' => ~Continues(source) /\ Len(playlist') = Total(items)
    BY <1>1, <1>9, <2>1, <2>4 DEF PlaylistInv, Sound
  <2>8. Continues(source)' = Continues(source)
    BY <1>6 DEF Continues
  <2>9. ASSUME NEW q \in Requests PROVE Sound(q)'
    <3>1. req \in [Requests -> Request]
      BY DEF Inv, TypeOK
    <3>2. CASE q = r
      <4>1. req'[q] = Idle
        BY <1>6, <3>1, <3>2
      <4> QED
        BY <4>1, IdleType DEF Sound, At
    <3>3. CASE q # r
      <4>1. req'[q] = req[q]
        BY <1>6, <3>1, <3>3
      <4>2. Sound(q) /\ req[q].skip \in Nat
        BY RequestParts DEF PlaylistInv
      <4>3. req[q].skip <= Len(playlist) => req[q].skip <= Len(playlist')
        BY <1>9, <2>2, <2>3, <2>4, <4>2
      <4> QED
        BY <1>6, <2>8, <4>1, <4>2, <4>3 DEF Sound, At
    <3> QED
      BY <3>2, <3>3
  <2> QED
    BY <1>6, <2>5, <2>6, <2>7, <2>8, <2>9 DEF PlaylistInv
<1> QED
  BY <1>7, <1>8, <1>9

---------------------------------------------------------------------------
(* The theorems *)

\* Every step keeps the invariant of the playlist.
LEMMA PlaylistNext ==
    ASSUME Inv, PlaylistInv, [Next]_vars
    PROVE  PlaylistInv'
<1>1. ASSUME NEW r \in Requests, RequestStep(r) PROVE PlaylistInv'
  BY <1>1, PlaylistSimple, PlaylistReadRecord, PlaylistAppendPage, PlaylistPlanLoad,
     PlaylistRender DEF RequestStep
<1>2. ASSUME NEW r \in Requests, NEW delta \in BOOLEAN, AskManifest(r, delta)
      PROVE  PlaylistInv'
  BY <1>2, PlaylistSimple
<1>3. ASSUME NEW k \in DOMAIN playlist, FetchSegment(k) PROVE PlaylistInv'
  BY <1>3, PlaylistFetchSegment
<1>4. CASE GiveUp \/ (\E t \in Volatile : TrackChanges(t)) \/ UNCHANGED vars
  BY <1>4, PlaylistOther
<1> QED
  BY <1>1, <1>2, <1>3, <1>4 DEF Next

\* A delta skips only what the client has, and what it skips and what it lists join up.
THEOREM PlaylistInvariance == Spec => []PlaylistInv
<1>1. Init => Inv /\ PlaylistInv
  BY InitInv, PlaylistInit
<1>2. Inv /\ PlaylistInv /\ [Next]_vars => Inv' /\ PlaylistInv'
  BY NextInv, PlaylistNext
<1> QED
  BY <1>1, <1>2, PTL DEF Spec

\* A playlist that skips nothing lists the segments of its queue, each at its place.
LEMMA WholeOf ==
    ASSUME NEW q, Chained(q), q[1].first = 0
    PROVE  Lists(Emitted(q, 1, 0), q) /\ Emitted(q, 1, 0) \in Seq(EntriesFrom(q, 1))
<1>1. PICK t \in Nat : t = Total(q)
  BY ItemParts
<1>2. PICK e : e = Emitted(q, 1, 0)
  OBVIOUS
<1>3. ListsAfter(e, q, 1, 0) /\ Len(e) = Total(q) - 0
  <2>1. q[1].first <= 0 /\ 0 <= Total(q) /\ 1 \in Nat \ {0} /\ 0 \in Nat
    BY <1>1
  <2> QED
    BY <1>2, <2>1, EmittedAfter
<1>4. e \in Seq(EntriesFrom(q, 1)) /\ Len(e) = t - 0
  BY <1>1, <1>3 DEF ListsAfter
<1>5. \A i \in 1..Len(q) : \A k \in 1..Count(q[i]) :
          q[i].first + k > 0 => e[q[i].first + k - 0] = <<1 + i - 1, k>>
  BY <1>3 DEF ListsAfter
<1>6. ASSUME NEW i \in 1..Len(q), NEW k \in 1..Count(q[i])
      PROVE  e[q[i].first + k] = <<i, k>>
  <2>1. q[i].first \in Nat /\ Count(q[i]) \in Nat
    BY ItemParts
  <2>2. q[i].first + k > 0 /\ q[i].first + k - 0 = q[i].first + k /\ 1 + i - 1 = i
    BY <2>1
  <2> QED
    BY <1>5, <2>2
<1>7. Len(e) = Total(q)
  BY <1>1, <1>4
<1> QED
  BY <1>2, <1>4, <1>6, <1>7 DEF Lists

\* The whole playlist lists the segments of the queue.
LEMMA WholeLists ==
    ASSUME Inv
    PROVE  /\ Lists(WholePlaylist, items)
           /\ WholePlaylist \in Seq(EntriesFrom(items, 1))
  BY ItemsChained, WholeOf DEF WholePlaylist

\* Up to where it reaches, the client's playlist is the whole one.
LEMMA PlaylistAgrees ==
    ASSUME Inv, PlaylistInv
    PROVE  /\ Len(playlist) \in Nat /\ Len(WholePlaylist) = Total(items)
           /\ Len(playlist) <= Len(WholePlaylist)
           /\ \A p \in 1..Len(playlist) : playlist[p] = WholePlaylist[p]
<1>1. PICK e : e = WholePlaylist
  OBVIOUS
<1>2. Lists(e, items)
  BY <1>1, WholeLists
<1>3. Len(playlist) \in Nat
  BY LenProperties DEF Inv
<1>4. Len(playlist) <= Total(items)
  BY DEF PlaylistInv, Exactly
<1>5. Chained(items) /\ items[1].first = 0 /\ Total(items) \in Nat
  BY ItemsChained
<1>6. ASSUME NEW p \in 1..Len(playlist) PROVE playlist[p] = e[p]
  <2>1. p \in Nat /\ items[1].first < p /\ p <= Total(items)
    BY <1>3, <1>4, <1>5
  <2>2. PICK i \in 1..Len(items) : \E k \in 1..Count(items[i]) : p = items[i].first + k
    BY <1>5, <2>1, SegmentAt
  <2>3. PICK k \in 1..Count(items[i]) : p = items[i].first + k
    BY <2>2
  <2>4. p <= Len(playlist)
    BY <1>3
  <2>5. playlist[p] = <<i, k>>
    BY <2>3, <2>4 DEF PlaylistInv, Exactly
  <2>6. e[p] = <<i, k>>
    BY <1>2, <2>3 DEF Lists
  <2> QED
    BY <2>5, <2>6
<1>7. Len(e) = Total(items)
  BY <1>2 DEF Lists
<1> QED
  BY <1>1, <1>3, <1>4, <1>6, <1>7

\* A sequence whose elements start another one is a prefix of it.
LEMMA PrefixOf ==
    ASSUME NEW T, NEW s \in Seq(T), NEW w \in Seq(T), Len(s) <= Len(w),
           \A p \in 1..Len(s) : s[p] = w[p]
    PROVE  IsPrefix(s, w)
<1>1. Len(s) \in Nat /\ Len(w) \in Nat
  BY LenProperties
<1>2. s = [p \in 1..Len(s) |-> w[p]]
  <2>1. s = [p \in 1..Len(s) |-> s[p]]
    BY LenProperties
  <2> QED
    BY <2>1
<1> QED
  BY <1>1, <1>2 DEF IsPrefix

\* The client's playlist is a prefix of the whole playlist of the queue, whatever deltas
\* it was put together from while other requests appended.
THEOREM PlaylistExactHolds == Spec => []PlaylistExact
<1>1. ASSUME Inv, PlaylistInv PROVE PlaylistExact
  <2>1. PICK T : playlist \in Seq(T) /\ WholePlaylist \in Seq(T)
    <3>1. playlist \in Seq(Entries(items))
      BY <1>1 DEF Inv
    <3>2. WholePlaylist \in Seq(EntriesFrom(items, 1))
      BY <1>1, WholeLists
    <3>3. playlist \in Seq(Entries(items) \cup EntriesFrom(items, 1))
      BY <3>1, SeqMonotonic
    <3>4. WholePlaylist \in Seq(Entries(items) \cup EntriesFrom(items, 1))
      BY <3>2, SeqMonotonic
    <3> QED
      BY <3>3, <3>4
  <2>2. PICK e \in Seq(T) : e = WholePlaylist
    BY <2>1
  <2>3. Len(playlist) \in Nat /\ Len(playlist) <= Len(e) /\ Len(e) \in Nat
        /\ \A p \in 1..Len(playlist) : playlist[p] = e[p]
    BY <1>1, <2>2, PlaylistAgrees, LenProperties
  <2>4. IsPrefix(playlist, e)
    BY <2>1, <2>3, PrefixOf
  <2> QED
    BY <2>2, <2>4 DEF PlaylistExact
<1> QED
  BY <1>1, Invariance, PlaylistInvariance, PTL

\* A playlist that has ended is the whole one, and stays it: no item follows its end.
THEOREM EndedFinalHolds == Spec => []EndedFinal
<1>1. ASSUME Inv, PlaylistInv, ended PROVE playlist = WholePlaylist
  <2>1. PICK e : e = WholePlaylist
    OBVIOUS
  <2>2. Len(playlist) = Len(e) /\ Len(playlist) \in Nat
        /\ \A p \in 1..Len(playlist) : playlist[p] = e[p]
    BY <1>1, <2>1, PlaylistAgrees DEF PlaylistInv
  <2>3. playlist \in Seq(Entries(items)) /\ e \in Seq(EntriesFrom(items, 1))
    BY <1>1, <2>1, WholeLists DEF Inv
  <2>4. playlist \in Seq(Entries(items) \cup EntriesFrom(items, 1))
        /\ e \in Seq(Entries(items) \cup EntriesFrom(items, 1))
    BY <2>3, SeqMonotonic
  <2> QED
    BY <2>1, <2>2, <2>4, SeqEqual
<1>2. Inv /\ PlaylistInv => EndedFinal
  BY <1>1 DEF EndedFinal
<1> QED
  BY <1>2, Invariance, PlaylistInvariance, PTL

---------------------------------------------------------------------------
(* The session implements EventPlaylist *)

\* The client of a playlist that has ended waits for no other.
Quiet == ended => awaiting = NoRequest

\* A request is asked for only before the end, and the answer that ends it is the last.
LEMMA QuietNext ==
    ASSUME Quiet, [Next]_vars
    PROVE  Quiet'
<1>1. ASSUME NEW r \in Requests, RequestStep(r) PROVE Quiet'
  <2>1. CASE Render(r)
    BY <2>1 DEF Quiet, Render, clientVars
  <2>2. CASE LimitExceeded(r) \/ AppendRaceRefused(r)
    BY <2>2 DEF Quiet, LimitExceeded, AppendRaceRefused, Refuse
  <2>3. CASE \/ LoadSession(r) \/ HorizonReached(r) \/ FetchPage(r) \/ AppendPage(r)
             \/ AppendRace(r) \/ ReadRecord(r) \/ PlanLoad(r)
    <3>1. ended' = ended /\ awaiting' = awaiting
      BY <2>3 DEF LoadSession, HorizonReached, FetchPage, AppendPage, AppendRace,
         ReadRecord, PlanLoad, clientVars
    <3> QED
      BY <3>1 DEF Quiet
  <2> QED
    BY <1>1, <2>1, <2>2, <2>3 DEF RequestStep
<1>2. ASSUME NEW r \in Requests, NEW delta \in BOOLEAN, AskManifest(r, delta)
      PROVE  Quiet'
  BY <1>2 DEF Quiet, AskManifest
<1>3. CASE GiveUp
  BY <1>3 DEF Quiet, GiveUp
<1>4. CASE \/ \E k \in DOMAIN playlist : FetchSegment(k)
           \/ \E t \in Volatile : TrackChanges(t)
           \/ UNCHANGED vars
  <2>1. ended' = ended /\ awaiting' = awaiting
    BY <1>4 DEF FetchSegment, TrackChanges, vars, clientVars
  <2> QED
    BY <2>1 DEF Quiet
<1> QED
  BY <1>1, <1>2, <1>3, <1>4 DEF Next

\* So it is in every state.
LEMMA QuietInvariance == Spec => []Quiet
<1>1. Init => Quiet
  BY DEF Init, Quiet
<1> QED
  BY <1>1, QuietNext, PTL DEF Spec

\* Two playlists that list the same queue are the same.
LEMMA ListsSame ==
    ASSUME NEW q, Chained(q), q[1].first = 0, NEW T,
           NEW p \in Seq(T), NEW w \in Seq(T), Lists(p, q), Lists(w, q)
    PROVE  p = w
<1>1. PICK t \in Nat : t = Total(q)
  BY ItemParts
<1>2. Len(p) = t /\ Len(w) = t
  BY <1>1 DEF Lists
<1>3. ASSUME NEW n \in 1..t PROVE p[n] = w[n]
  <2>1. n \in Nat /\ q[1].first < n /\ n <= Total(q)
    BY <1>1
  <2>2. PICK i \in 1..Len(q) : \E k \in 1..Count(q[i]) : n = q[i].first + k
    BY <2>1, SegmentAt
  <2>3. PICK k \in 1..Count(q[i]) : n = q[i].first + k
    BY <2>2
  <2> QED
    BY <2>3 DEF Lists
<1> QED
  BY <1>1, <1>2, <1>3, SeqEqual

\* Segments are added behind those that the session has, while it has not ended.
LEMMA AppendPageGrows ==
    ASSUME Inv, PlaylistInv, NEW r \in Requests, AppendPage(r)
    PROVE  Event!Grow
<1>1. PICK cycle, k, page, next : Appends(cycle, k, page, next)
  BY AppendPageDoes
<1>2. PICK e : e = items'
  OBVIOUS
<1>3. PICK l : l = Len(items)
  OBVIOUS
<1>4. PICK n : n = Len(k)
  OBVIOUS
<1>5. /\ l \in Nat /\ n \in Nat /\ 1 \in 1..l /\ e \in Seq(Item) /\ Len(e) = l + n
      /\ \A i \in 1..l : i \in 1..(l + n) /\ e[i] = items[i]
  <2>1. Longer(e, l, n, k, cycle)
    BY <1>1, <1>2, <1>3, <1>4, AppendedQueue
  <2> QED
    BY <2>1 DEF Longer
<1>6. ~ended /\ playlist' = playlist /\ ended' = ended
  <2>1. Continues(source)
    BY <1>1 DEF Appends, PageGood
  <2> QED
    BY <2>1 DEF AppendPage, clientVars, PlaylistInv
<1>7. Chained(items) /\ items[1].first = 0
  BY ItemsChained
<1>8. Chained(e) /\ e[1].first = 0
  <2>1. Contiguous(e)
    BY <1>1, <1>2 DEF Appends, Extends, Inv
  <2>2. e # <<>>
    BY <1>5, EmptySeq
  <2> QED
    BY <1>5, <2>1, <2>2, QueueChained
<1>9. PICK t \in Nat : t = Total(items)
  BY ItemsChained
<1>10. PICK u \in Nat : u = Total(e)
  BY <1>8, ItemParts
<1>11. t <= u
  <2>1. e[l].first + Count(e[l]) <= Total(e)
    BY <1>5, <1>8, ChainedUp
  <2>2. t = items[l].first + Count(items[l])
    BY <1>3, <1>7, <1>9, ItemParts
  <2> QED
    BY <1>5, <1>10, <2>1, <2>2
<1>12. PICK w : w = Emitted(items, 1, 0)
  OBVIOUS
<1>13. PICK v : v = Emitted(e, 1, 0)
  OBVIOUS
<1>14. Lists(w, items) /\ w \in Seq(EntriesFrom(items, 1))
  BY <1>7, <1>12, WholeOf
<1>15. Lists(v, e) /\ v \in Seq(EntriesFrom(e, 1))
  BY <1>8, <1>13, WholeOf
<1>16. ASSUME NEW p \in 1..t PROVE w[p] = v[p]
  <2>1. p \in Nat /\ items[1].first < p /\ p <= Total(items)
    BY <1>7, <1>9
  <2>2. PICK i \in 1..Len(items) : \E j \in 1..Count(items[i]) : p = items[i].first + j
    BY <1>7, <2>1, SegmentAt
  <2>3. PICK j \in 1..Count(items[i]) : p = items[i].first + j
    BY <2>2
  <2>4. e[i] = items[i] /\ i \in 1..Len(e)
    BY <1>3, <1>5
  <2>5. w[p] = <<i, j>>
    BY <1>14, <2>3 DEF Lists
  <2>6. v[p] = <<i, j>>
    BY <1>15, <2>3, <2>4 DEF Lists
  <2> QED
    BY <2>5, <2>6
<1>17. IsPrefix(w, v)
  <2>1. PICK T : w \in Seq(T) /\ v \in Seq(T)
    <3>1. w \in Seq(EntriesFrom(items, 1) \cup EntriesFrom(e, 1))
      BY <1>14, SeqMonotonic
    <3>2. v \in Seq(EntriesFrom(items, 1) \cup EntriesFrom(e, 1))
      BY <1>15, SeqMonotonic
    <3> QED
      BY <3>1, <3>2
  <2>2. Len(w) = t /\ Len(v) = u
    BY <1>9, <1>10, <1>14, <1>15 DEF Lists
  <2> QED
    BY <1>11, <1>16, <2>1, <2>2, PrefixOf
<1>18. Event!IsPrefix(w, v)
  BY <1>17 DEF IsPrefix, Event!IsPrefix
<1>19. Event!IsPrefix(WholePlaylist, WholePlaylist')
  BY <1>2, <1>12, <1>13, <1>18 DEF WholePlaylist
<1> QED
  BY <1>6, <1>19 DEF Event!Grow

\* An answer that the client takes completes its playlist, and it takes none after the end.
LEMMA RenderReloads ==
    ASSUME Inv, PlaylistInv, Quiet, NEW r \in Requests, Render(r)
    PROVE  Event!Reload \/ UNCHANGED <<WholePlaylist, playlist, ended>>
<1>1. items' = items /\ WholePlaylist' = WholePlaylist
  <2>1. items' = items
    BY DEF Render, sessionVars
  <2> QED
    BY <2>1 DEF WholePlaylist
<1>2. CASE awaiting # r
  BY <1>1, <1>2 DEF Render, clientVars
<1>3. CASE awaiting = r
  <2>1. ~ended
    BY <1>3, PlaybackConstants DEF Quiet
  <2>2. At(r, "render") /\ req[r].from \in 1..Len(items)
    <3>1. req[r].from \in Nat \ {0} /\ Len(items) \in Nat
      BY RequestParts, ItemsChained, LenProperties
    <3>2. At(r, "render") /\ req[r].from <= Len(items)
      BY DEF Render, Inv, RequestGood
    <3> QED
      BY <3>1, <3>2
  <2>3. PICK loaded : loaded = SubSeq(items, req[r].from, Len(items))
    OBVIOUS
  <2>4. PICK s : s = Skipped(r, loaded)
    OBVIOUS
  <2>5. playlist' = Merged(s, Emitted(loaded, req[r].from, s))
    BY <1>3, <2>3, <2>4 DEF Render
  <2>6. Lists(playlist', items)
    BY <2>2, <2>3, <2>4, <2>5, MergedLists
  <2>7. playlist' \in Seq(Entries(items)) /\ ended' \in BOOLEAN
    <3>1. Inv'
      BY RenderStep
    <3> QED
      BY <1>1, <3>1 DEF Inv, TypeOK, Entries
  <2>8. Lists(WholePlaylist, items) /\ WholePlaylist \in Seq(EntriesFrom(items, 1))
    BY WholeLists
  <2>9. PICK p : p = playlist'
    OBVIOUS
  <2>10. PICK T : p \in Seq(T) /\ WholePlaylist \in Seq(T)
    <3>1. p \in Seq(Entries(items) \cup EntriesFrom(items, 1))
      BY <2>7, <2>9, SeqMonotonic
    <3>2. WholePlaylist \in Seq(Entries(items) \cup EntriesFrom(items, 1))
      BY <2>8, SeqMonotonic
    <3> QED
      BY <3>1, <3>2
  <2>11. p = WholePlaylist
    BY <2>6, <2>8, <2>9, <2>10, ItemsChained, ListsSame
  <2> QED
    BY <1>1, <2>1, <2>7, <2>9, <2>11 DEF Event!Reload
<1> QED
  BY <1>2, <1>3

\* Every step of the session is a step of the EVENT playlist, or none.
LEMMA EventStep ==
    ASSUME Inv, PlaylistInv, Quiet, [Next]_vars
    PROVE  [Event!Next]_<<WholePlaylist, playlist, ended>>
<1>1. ASSUME NEW r \in Requests, RequestStep(r)
      PROVE  [Event!Next]_<<WholePlaylist, playlist, ended>>
  <2>1. CASE AppendPage(r)
    BY <2>1, AppendPageGrows DEF Event!Next
  <2>2. CASE Render(r)
    BY <2>2, RenderReloads DEF Event!Next
  <2>3. CASE \/ LoadSession(r) \/ LimitExceeded(r) \/ HorizonReached(r) \/ FetchPage(r)
             \/ AppendRace(r) \/ AppendRaceRefused(r) \/ ReadRecord(r) \/ PlanLoad(r)
    <3>1. items' = items /\ playlist' = playlist /\ ended' = ended
      BY <2>3 DEF LoadSession, LimitExceeded, HorizonReached, FetchPage, AppendRace,
         AppendRaceRefused, ReadRecord, PlanLoad, Refuse, sessionVars, clientVars
    <3> QED
      BY <3>1 DEF WholePlaylist
  <2> QED
    BY <1>1, <2>1, <2>2, <2>3 DEF RequestStep
<1>2. ASSUME NEW r \in Requests, NEW delta \in BOOLEAN, AskManifest(r, delta)
      PROVE  UNCHANGED <<WholePlaylist, playlist, ended>>
  BY <1>2 DEF AskManifest, sessionVars, WholePlaylist
<1>3. CASE \/ GiveUp
           \/ \E k \in DOMAIN playlist : FetchSegment(k)
           \/ \E t \in Volatile : TrackChanges(t)
           \/ UNCHANGED vars
  <2>1. items' = items /\ playlist' = playlist /\ ended' = ended
    BY <1>3 DEF GiveUp, FetchSegment, TrackChanges, vars, sessionVars, clientVars
  <2> QED
    BY <2>1 DEF WholePlaylist
<1> QED
  BY <1>1, <1>2, <1>3 DEF Next

\* The session implements the EVENT playlist that its header declares, whatever requests
\* overlap and whichever of their answers the client takes (renderPlaybackManifest).
THEOREM Implements == Spec => ImplementsEvent
<1>1. Init => Event!Init
  <2>1. ASSUME Inv PROVE WholePlaylist # <<>>
    <3>1. Chained(items) /\ items[1].first = 0
      BY <2>1, ItemsChained
    <3>2. PICK l : l = Len(items)
      OBVIOUS
    <3>3. /\ items[l].first \in Nat /\ Count(items[l]) \in Nat \ {0}
          /\ Total(items) = items[l].first + Count(items[l])
      BY <3>1, <3>2, ItemParts
    <3>4. Len(WholePlaylist) = Total(items)
      BY <2>1, WholeLists DEF Lists
    <3>5. Len(WholePlaylist) # 0
      BY <3>3, <3>4
    <3> QED
      BY <3>5, EmptySeq
  <2> QED
    BY <2>1, InitInv DEF Init, Event!Init
<1>2. Inv /\ PlaylistInv /\ Quiet /\ [Next]_vars
      => [Event!Next]_<<WholePlaylist, playlist, ended>>
  BY EventStep
<1> QED
  BY <1>1, <1>2, Invariance, PlaylistInvariance, QuietInvariance, PTL
     DEF Spec, ImplementsEvent, Event!Spec

=============================================================================
