---------------------------- MODULE SharderProofs ----------------------------
(***************************************************************************)
(* Proofs about Sharder, for any lists of tokens, any limits and any       *)
(* number of workers, about the SubscriptionManager each worker has, for   *)
(* any tokens and batch sizes, and about the slices both are built on.     *)
(***************************************************************************)
EXTENDS Sharder, SubscriptionManager, SequenceTheorems, FiniteSetTheorems, TLAPS

\* Division with remainder, for a positive divisor.
LEMMA DivMod ==
    ASSUME NEW a \in Int, NEW n \in Nat \ {0}
    PROVE  /\ a % n \in 0 .. n - 1
           /\ a \div n \in Int
           /\ a = n * (a \div n) + (a % n)
  OBVIOUS

\* The number of slices, and in which slice a position is.
LEMMA SliceCountBounds ==
    ASSUME NEW s, Len(s) \in Nat, NEW n \in Nat \ {0}
    PROVE  /\ SliceCount(s, n) \in Nat
           /\ SliceCount(s, n) = 0 <=> Len(s) = 0
           /\ \A k \in 1 .. SliceCount(s, n) : (k - 1) * n < Len(s)
           /\ Len(s) <= SliceCount(s, n) * n
  <1> DEFINE a == Len(s) + n - 1
             q == a \div n
  <1>1. a \in Nat
    OBVIOUS
  <1>2. q \in Int /\ a % n \in 0 .. n - 1 /\ a = n * q + (a % n)
    <2> HIDE DEF a
    <2> QED BY <1>1, DivMod
  <1>3. q = SliceCount(s, n)
    BY DEF SliceCount
  <1> HIDE DEF q
  <1>4. q >= 0
    <2>1. CASE q <= -1
      <3>1. n * q <= -n  BY <2>1, <1>2
      <3>2. QED          BY <3>1, <1>1, <1>2
    <2>2. QED            BY <2>1, <1>2
  <1>5. q = 0 <=> Len(s) = 0
    <2>1. CASE q >= 1
      <3>1. n * q >= n   BY <2>1, <1>2
      <3>2. QED          BY <3>1, <2>1, <1>2
    <2>2. CASE q = 0
      <3>1. n * q = 0    BY <2>2
      <3>2. QED          BY <3>1, <2>2, <1>2
    <2>3. QED            BY <2>1, <2>2, <1>4, <1>2
  <1>6. ASSUME NEW k \in 1 .. q PROVE (k - 1) * n < Len(s)
    <2>1. n * k <= n * q   BY <1>2, <1>4
    <2>2. n * k = (k - 1) * n + n  OBVIOUS
    <2>3. n * k \in Int /\ (k - 1) * n \in Int /\ n * q \in Int  BY <1>2
    <2>4. QED BY <2>1, <2>2, <2>3, <1>2
  <1>7. Len(s) <= q * n
    <2>1. n * q \in Int /\ q * n = n * q   BY <1>2
    <2>2. QED BY <2>1, <1>2
  <1> QED BY <1>2, <1>3, <1>4, <1>5, <1>6, <1>7

\* A slice runs from a multiple of the limit to the next one or to the end of
\* the list.
LEMMA SliceIs ==
    ASSUME NEW S, NEW s \in Seq(S), NEW n \in Nat \ {0}, NEW k \in 1 .. SliceCount(s, n)
    PROVE  /\ (k - 1) * n \in Nat /\ k * n = (k - 1) * n + n
           /\ SliceEnd(s, n, k) \in (k - 1) * n + 1 .. Len(s)
           /\ SliceEnd(s, n, k) = (IF k < SliceCount(s, n) THEN k * n ELSE Len(s))
           /\ SliceEnd(s, n, k) <= (k - 1) * n + n
           /\ Slices(s, n)[k] = SubSeq(s, (k - 1) * n + 1, SliceEnd(s, n, k))
           /\ Slices(s, n)[k] \in Seq(S)
           /\ Len(Slices(s, n)[k]) = SliceEnd(s, n, k) - (k - 1) * n
           /\ \A i \in 1 .. SliceEnd(s, n, k) - (k - 1) * n :
                 Slices(s, n)[k][i] = s[(k - 1) * n + i]
  <1> DEFINE N == SliceCount(s, n)
  <1>1. /\ Len(s) \in Nat /\ DOMAIN s = 1 .. Len(s) /\ \A i \in 1 .. Len(s) : s[i] \in S
    BY LenProperties, ElementOfSeq
  <1>2. /\ N \in Nat /\ (\A i \in 1 .. N : (i - 1) * n < Len(s))
        /\ Len(s) <= N * n
    BY <1>1, SliceCountBounds
  <1> HIDE DEF N
  <1>3. k \in 1 .. N
    BY DEF N
  <1>4. (k - 1) * n \in Nat
    <2>1. k - 1 \in Nat /\ n \in Nat  BY <1>2, <1>3
    <2>2. QED                         BY <2>1
  <1>5. k * n = (k - 1) * n + n
    <2>1. k \in Int  BY <1>2, <1>3
    <2>2. QED        BY <2>1
  <1>6. (k - 1) * n < Len(s)
    BY <1>2, <1>3
  <1>7. /\ SliceEnd(s, n, k) \in (k - 1) * n + 1 .. Len(s)
        /\ SliceEnd(s, n, k) <= (k - 1) * n + n
    BY <1>1, <1>4, <1>5, <1>6 DEF SliceEnd
  <1>8. SliceEnd(s, n, k) = IF k < N THEN k * n ELSE Len(s)
    <2>1. CASE k < N
      <3>1. k + 1 \in 1 .. N /\ (k + 1) - 1 = k
        BY <2>1, <1>2, <1>3
      <3>2. k * n < Len(s)
        BY <3>1, <1>2
      <3>3. QED BY <2>1, <3>2, <1>1, <1>4, <1>5 DEF SliceEnd
    <2>2. CASE k = N
      BY <2>2, <1>1, <1>2, <1>4, <1>5 DEF SliceEnd
    <2>3. QED BY <2>1, <2>2, <1>2, <1>3
  <1>9. Slices(s, n)[k] = SubSeq(s, (k - 1) * n + 1, SliceEnd(s, n, k))
    BY <1>3 DEF Slices, N
  <1> DEFINE a == (k - 1) * n
             e == SliceEnd(s, n, k)
             t == SubSeq(s, a + 1, e)
  <1>10. a \in Nat /\ e \in a + 1 .. Len(s)
    BY <1>4, <1>7
  <1> HIDE DEF a, e
  <1>11. a + 1 \in Int /\ e \in Int /\ \A i \in a + 1 .. e : s[i] \in S
    BY <1>10, <1>1
  <1>12. /\ t \in Seq(S)
         /\ Len(t) = IF a + 1 <= e THEN e - (a + 1) + 1 ELSE 0
         /\ \A i \in 1 .. e - (a + 1) + 1 : t[i] = s[a + 1 + i - 1]
    BY <1>11, SubSeqProperties
  <1>13. Len(t) = e - a
    BY <1>10, <1>12, <1>1
  <1>14. \A i \in 1 .. e - a : t[i] = s[a + i]
    <2>1. TAKE i \in 1 .. e - a
    <2>2. i \in 1 .. e - (a + 1) + 1 /\ a + 1 + i - 1 = a + i
      BY <1>10, <1>1
    <2>3. QED BY <2>2, <1>12
  <1>15. Slices(s, n)[k] = t
    BY <1>9 DEF a, e
  <1> HIDE DEF t
  <1>16. t \in Seq(S) /\ Len(t) = SliceEnd(s, n, k) - (k - 1) * n
    BY <1>12, <1>13 DEF a, e
  <1>17. \A i \in 1 .. SliceEnd(s, n, k) - (k - 1) * n : t[i] = s[(k - 1) * n + i]
    BY <1>14 DEF a, e
  <1>18. k * n = (k - 1) * n + n /\ SliceEnd(s, n, k) = (IF k < SliceCount(s, n) THEN k * n ELSE Len(s))
    BY <1>5, <1>8 DEF N
  <1> QED BY <1>4, <1>7, <1>9, <1>15, <1>16, <1>17, <1>18

\* Every slice is a piece of the list, no longer than the limit, and every
\* element is in one.
LEMMA SlicesCover ==
    ASSUME NEW S, NEW s \in Seq(S), NEW n \in Nat \ {0}
    PROVE  /\ Slices(s, n) \in Seq(Seq(S)) /\ Len(Slices(s, n)) = SliceCount(s, n)
           /\ \A k \in 1 .. SliceCount(s, n) :
                 Len(Slices(s, n)[k]) <= n /\ ToSet(Slices(s, n)[k]) \subseteq ToSet(s)
           /\ \A x \in ToSet(s) : \E k \in 1 .. SliceCount(s, n) : x \in ToSet(Slices(s, n)[k])
  <1> DEFINE N == SliceCount(s, n)
             Slice(k) == SubSeq(s, (k - 1) * n + 1, SliceEnd(s, n, k))
             slices == [k \in 1 .. N |-> Slice(k)]
  <1>1. /\ Len(s) \in Nat /\ DOMAIN s = 1 .. Len(s) /\ \A i \in 1 .. Len(s) : s[i] \in S
    BY LenProperties, ElementOfSeq
  <1>2. N \in Nat
    BY <1>1, SliceCountBounds
  <1>3. Slices(s, n) = slices
    BY DEF Slices
  <1>4. ASSUME NEW k \in 1 .. N
        PROVE  /\ (k - 1) * n \in Nat /\ k * n = (k - 1) * n + n
               /\ SliceEnd(s, n, k) \in (k - 1) * n + 1 .. Len(s)
               /\ SliceEnd(s, n, k) <= (k - 1) * n + n
    <2>1. k \in 1 .. SliceCount(s, n)  OBVIOUS
    <2> HIDE DEF N, Slice, slices
    <2>2. QED BY <2>1, SliceIs
  <1>5. ASSUME NEW k \in 1 .. N
        PROVE  /\ Slice(k) \in Seq(S)
               /\ Len(Slice(k)) = SliceEnd(s, n, k) - (k - 1) * n
               /\ \A i \in 1 .. SliceEnd(s, n, k) - (k - 1) * n :
                     Slice(k)[i] = s[(k - 1) * n + i]
    <2>1. k \in 1 .. SliceCount(s, n) /\ Slices(s, n)[k] = Slice(k)
      BY <1>3
    <2> HIDE DEF N, Slice, slices
    <2>2. QED BY <2>1, SliceIs
  <1> HIDE DEF N, Slice
  <1>6. slices \in Seq(Seq(S)) /\ Len(slices) = N /\ \A k \in 1 .. N : slices[k] = Slice(k)
    BY <1>2, <1>5
  <1>7. ASSUME NEW k \in 1 .. N
        PROVE  Len(Slice(k)) <= n /\ ToSet(Slice(k)) \subseteq ToSet(s)
    <2>1. Len(Slice(k)) <= n
      BY <1>4, <1>5
    <2>2. ASSUME NEW i \in 1 .. Len(Slice(k)) PROVE Slice(k)[i] \in ToSet(s)
      <3>1. (k - 1) * n + i \in DOMAIN s /\ Slice(k)[i] = s[(k - 1) * n + i]
        BY <1>1, <1>4, <1>5
      <3>2. QED BY <3>1 DEF ToSet
    <2>3. DOMAIN Slice(k) = 1 .. Len(Slice(k))
      BY <1>5, LenProperties
    <2>4. QED BY <2>1, <2>2, <2>3 DEF ToSet
  <1>8. ASSUME NEW i \in 1 .. Len(s)
        PROVE  \E k \in 1 .. N : s[i] \in ToSet(Slice(k))
    <2> DEFINE q == (i - 1) \div n
               r == (i - 1) % n
    <2>1. i - 1 \in Int /\ n \in Nat \ {0}
      BY <1>1
    <2>2. q \in Int /\ r \in 0 .. n - 1 /\ i - 1 = n * q + r
      BY <2>1, DivMod
    <2> HIDE DEF q, r
    <2>3. q >= 0
      <3>1. CASE q <= -1
        <4>1. n * q <= -n  BY <3>1, <2>2
        <4>2. QED          BY <4>1, <2>2, <1>1
      <3>2. QED            BY <3>1, <2>2
    <2>4. q + 1 <= N
      <3> DEFINE t == Len(s) + n - 1
                 m == t \div n
      <3>1. t \in Int /\ m = N
        BY <1>1 DEF N, SliceCount
      <3>2. m \in Int /\ t % n \in 0 .. n - 1 /\ t = n * m + (t % n)
        <4> HIDE DEF t
        <4> QED BY <3>1, DivMod
      <3> HIDE DEF m
      <3>3. CASE m <= q
        <4>1. n * m <= n * q  BY <3>3, <3>2, <2>2
        <4>2. n * m \in Int /\ n * q \in Int  BY <3>2, <2>2
        <4>3. QED             BY <4>1, <4>2, <3>2, <2>2, <1>1
      <3>4. QED               BY <3>1, <3>2, <3>3, <2>2
    <2> DEFINE k == q + 1
    <2>5. k \in 1 .. N /\ (k - 1) * n = n * q
      BY <1>2, <2>2, <2>3, <2>4
    <2> HIDE DEF k
    <2>6. n * q \in Nat /\ i = n * q + r + 1
      BY <2>2, <2>3
    <2>7. r + 1 \in 1 .. SliceEnd(s, n, k) - (k - 1) * n
      <3>1. (k - 1) * n \in Nat /\ k * n = (k - 1) * n + n
        BY <1>4, <2>5
      <3>2. SliceEnd(s, n, k) \in {(k - 1) * n + n, Len(s)}
        BY <3>1 DEF SliceEnd
      <3>3. r + 1 \in 1 .. n /\ (k - 1) * n + (r + 1) <= Len(s)
        BY <1>1, <2>2, <2>5, <2>6
      <3>4. QED BY <1>1, <3>1, <3>2, <3>3, <2>2
    <2>8. Slice(k)[r + 1] = s[i]
      <3>1. (k - 1) * n + (r + 1) = i
        BY <2>2, <2>5, <2>6
      <3>2. QED BY <1>5, <2>5, <2>7, <3>1
    <2>9. r + 1 \in DOMAIN Slice(k)
      BY <1>5, <2>5, <2>7, LenProperties
    <2>10. QED BY <2>5, <2>8, <2>9 DEF ToSet
  <1>9. \A x \in ToSet(s) : \E k \in 1 .. N : x \in ToSet(slices[k])
    BY <1>1, <1>6, <1>8 DEF ToSet
  <1> QED BY <1>3, <1>6, <1>7, <1>9 DEF N

\* A set of numbers has a least one: this stands in for induction.
LEMMA LeastNatural ==
    ASSUME NEW T \in SUBSET Nat, T # {}
    PROVE  \E m \in T : \A k \in T : m <= k
  <1>1. \E m \in T : \A k \in T : ~ (<<k, m>> \in OpToRel(<, Nat))
    <2>1. T \subseteq Nat
      OBVIOUS
    <2>2. QED BY <2>1, WFMin, NatLessThanWellFounded
  <1>2. PICK m \in T : \A k \in T : ~ (<<k, m>> \in OpToRel(<, Nat))
    BY <1>1
  <1>3. ASSUME NEW k \in T PROVE m <= k
    <2>1. k \in Nat /\ m \in Nat
      OBVIOUS
    <2>2. ~ (k < m)
      BY <1>2, <2>1 DEF OpToRel
    <2>3. QED BY <2>1, <2>2
  <1>4. QED BY <1>3

\* Put together again, the slices are the list: nothing is lost, repeated or
\* moved.
LEMMA FlattenSlices ==
    ASSUME NEW S, NEW s \in Seq(S), NEW n \in Nat \ {0}, SliceCount(s, n) # 0
    PROVE  FlattenSeq(Slices(s, n)) = s
  <1> DEFINE N == SliceCount(s, n)
             sl == Slices(s, n)
             Pass(g) == [i \in 1 .. N |-> IF i = 1 THEN sl[i] ELSE g[i - 1] \o sl[i]]
             whole == [i \in 1 .. N |-> SubSeq(s, 1, SliceEnd(s, n, i))]
             flatten == CHOOSE g : g = Pass(g)
  <1>1. Len(s) \in Nat /\ N \in Nat \ {0} /\ Len(sl) = N
    BY LenProperties, SliceCountBounds, SlicesCover
  <1>2. FlattenSeq(sl) = flatten[N]
    <2> HIDE DEF N, sl
    <2>1. Len(sl) = N /\ N # 0
      BY <1>1
    <2>2. QED BY <2>1 DEF FlattenSeq
  <1>3. ASSUME NEW i \in 1 .. N
        PROVE  (IF i = 1 THEN sl[i] ELSE whole[i - 1] \o sl[i]) = whole[i]
    <2>1. /\ (i - 1) * n \in Nat /\ SliceEnd(s, n, i) \in (i - 1) * n + 1 .. Len(s)
          /\ sl[i] = SubSeq(s, (i - 1) * n + 1, SliceEnd(s, n, i))
      BY SliceIs
    <2>2. CASE i = 1
      <3>1. (i - 1) * n + 1 = 1  BY <2>2
      <3>2. QED                  BY <2>1, <2>2, <3>1
    <2>3. CASE i # 1
      <3>1. i - 1 \in 1 .. N /\ i - 1 < N
        BY <1>1, <2>3
      <3>2. SliceEnd(s, n, i - 1) = (i - 1) * n
        <4>1. i - 1 \in 1 .. SliceCount(s, n) /\ i - 1 < SliceCount(s, n)
          BY <3>1
        <4> HIDE DEF N
        <4>2. QED BY <4>1, SliceIs
      <3> DEFINE a == (i - 1) * n
                 e == SliceEnd(s, n, i)
      <3>3. 1 \in 1 .. Len(s) + 1 /\ a \in 0 .. Len(s) /\ e \in a .. Len(s)
        BY <1>1, <2>1
      <3>4. SubSeq(s, 1, a) \o SubSeq(s, a + 1, e) = SubSeq(s, 1, e)
        <4> HIDE DEF a, e
        <4>1. a \in 1 - 1 .. Len(s)
          BY <3>3
        <4>2. QED BY <3>3, <4>1, ConcatAdjacentSubSeq
      <3>5. whole[i - 1] = SubSeq(s, 1, a) /\ whole[i] = SubSeq(s, 1, e)
        BY <3>1, <3>2
      <3>6. QED BY <2>1, <2>3, <3>4, <3>5
    <2>4. QED BY <2>2, <2>3
  <1> HIDE DEF N, sl
  <1>4. whole = Pass(whole)
    BY <1>3
  <1>5. flatten = Pass(flatten)
    <2> HIDE DEF Pass, whole
    <2>1. \E g : g = Pass(g)
      BY <1>4
    <2>2. QED BY <2>1, Zenon
  <1> HIDE DEF flatten
  <1>6. ASSUME NEW i \in 1 .. N PROVE flatten[i] = whole[i]
    <2> DEFINE T == {k \in 1 .. N : flatten[k] # whole[k]}
    <2>1. SUFFICES ASSUME T # {} PROVE FALSE
      OBVIOUS
    <2>2. PICK m \in T : \A k \in T : m <= k
      <3>1. T \in SUBSET Nat
        BY <1>1
      <3> HIDE DEF T
      <3>2. QED BY <2>1, <3>1, LeastNatural
    <2>3. m \in 1 .. N /\ flatten[m] # whole[m]
      OBVIOUS
    <2>4. flatten[m] = IF m = 1 THEN sl[m] ELSE flatten[m - 1] \o sl[m]
      <3>1. Pass(flatten)[m] = IF m = 1 THEN sl[m] ELSE flatten[m - 1] \o sl[m]
        BY <2>3
      <3>2. QED BY <1>5, <3>1
    <2>5. m # 1 => flatten[m - 1] = whole[m - 1]
      <3>1. m # 1 => m - 1 \in 1 .. N /\ ~ (m <= m - 1)
        BY <1>1, <2>3
      <3>2. QED BY <2>2, <3>1
    <2>6. QED BY <1>3, <2>3, <2>4, <2>5
  <1>7. flatten[N] = SubSeq(s, 1, Len(s))
    <2>1. N \in 1 .. N
      BY <1>1
    <2>2. SliceEnd(s, n, N) = Len(s)
      <3>1. N \in 1 .. SliceCount(s, n) /\ ~ (N < SliceCount(s, n))
        BY <1>1, <2>1 DEF N
      <3>2. QED BY <3>1, SliceIs
    <2>3. QED BY <1>6, <2>1, <2>2
  <1> QED BY <1>2, <1>7, SubSeqFull DEF sl

\* The slices of a list without repetitions share out its elements: between
\* one and n of them each, and none in two slices.
LEMMA SlicesPartition ==
    ASSUME NEW S, NEW s \in Seq(S), NEW n \in Nat \ {0},
           \A i, j \in DOMAIN s : i # j => s[i] # s[j],
           NEW k \in 1 .. SliceCount(s, n)
    PROVE  /\ Cardinality(ToSet(Slices(s, n)[k])) \in 1 .. n
           /\ \A j \in 1 .. SliceCount(s, n) \ {k} :
                 ToSet(Slices(s, n)[j]) \cap ToSet(Slices(s, n)[k]) = {}
  <1> DEFINE N == SliceCount(s, n)
             sl == Slices(s, n)
  <1>1. Len(s) \in Nat /\ DOMAIN s = 1 .. Len(s) /\ N \in Nat
    BY LenProperties, SliceCountBounds
  <1>2. ASSUME NEW i \in 1 .. N
        PROVE  /\ (i - 1) * n \in Nat /\ i * n = (i - 1) * n + n
               /\ SliceEnd(s, n, i) \in (i - 1) * n + 1 .. Len(s)
               /\ SliceEnd(s, n, i) <= i * n
               /\ sl[i] \in Seq(S) /\ DOMAIN sl[i] = 1 .. Len(sl[i])
               /\ Len(sl[i]) \in 1 .. n
               /\ \A x \in ToSet(sl[i]) :
                     \E p \in (i - 1) * n + 1 .. SliceEnd(s, n, i) : x = s[p]
    <2> DEFINE a == (i - 1) * n
               e == SliceEnd(s, n, i)
    <2>1. /\ a \in Nat /\ i * n = a + n
          /\ e \in a + 1 .. Len(s) /\ e <= a + n
          /\ sl[i] \in Seq(S) /\ Len(sl[i]) = e - a
          /\ \A p \in 1 .. e - a : sl[i][p] = s[a + p]
      BY SliceIs
    <2> HIDE DEF N, sl, a, e
    <2>2. DOMAIN sl[i] = 1 .. Len(sl[i])
      BY <2>1, LenProperties
    <2>3. Len(sl[i]) \in 1 .. n /\ e <= i * n
      BY <1>1, <2>1
    <2>4. ASSUME NEW x \in ToSet(sl[i]) PROVE \E p \in a + 1 .. e : x = s[p]
      <3>1. PICK p \in 1 .. e - a : x = sl[i][p]
        BY <2>1, <2>2 DEF ToSet
      <3>2. a + p \in a + 1 .. e /\ x = s[a + p]
        BY <1>1, <2>1, <3>1
      <3>3. QED BY <3>2
    <2>5. QED BY <2>1, <2>2, <2>3, <2>4 DEF a, e
  <1>3. k \in 1 .. N
    OBVIOUS
  <1> HIDE DEF N, sl
  <1> DEFINE Positions(i) == (i - 1) * n + 1 .. SliceEnd(s, n, i)
  <1>4. ASSUME NEW i \in 1 .. N, NEW x \in ToSet(sl[i])
        PROVE  \E p \in Positions(i) : x = s[p]
    BY <1>2, Zenon
  <1>5. Cardinality(ToSet(sl[k])) \in 1 .. n
    <2> DEFINE D == 1 .. Len(sl[k])
               R == ToSet(sl[k])
    <2>1. IsFiniteSet(D) /\ Cardinality(D) = Len(sl[k]) /\ Len(sl[k]) \in 1 .. n
      <3>1. Len(sl[k]) \in 1 .. n
        BY <1>2, <1>3, Zenon
      <3> DEFINE l == Len(sl[k])
      <3>2. l \in Int /\ 1 \in Int /\ ~ (1 > l) /\ l - 1 + 1 = l
        BY <3>1
      <3> HIDE DEF l
      <3>3. IsFiniteSet(1 .. l) /\ Cardinality(1 .. l) = l
        BY <3>2, FS_Interval
      <3>4. QED BY <3>1, <3>3 DEF l
    <2>2. sl[k] \in Surjection(D, R)
      <3>1. sl[k] \in [D -> R] /\ \A x \in R : \E p \in D : sl[k][p] = x
        BY <1>2, <1>3, LenProperties DEF ToSet
      <3>2. QED BY <3>1 DEF Surjection
    <2>3. 1 \in D /\ sl[k][1] \in R
      BY <1>2, <1>3, <2>1 DEF ToSet
    <2> HIDE DEF D, R
    <2>4. IsFiniteSet(R) /\ Cardinality(R) <= Len(sl[k])
      BY <2>1, <2>2, FS_Surjection
    <2>5. Cardinality(R) \in Nat /\ Cardinality(R) # 0
      BY <2>3, <2>4, FS_CardinalityType, FS_EmptySet
    <2>6. QED BY <2>1, <2>4, <2>5 DEF R
  <1>6. ASSUME NEW i \in 1 .. N, NEW j \in 1 .. N, i < j
        PROVE  ToSet(sl[i]) \cap ToSet(sl[j]) = {}
    <2>1. SUFFICES ASSUME NEW x \in ToSet(sl[i]), x \in ToSet(sl[j]) PROVE FALSE
      OBVIOUS
    <2>2. PICK p \in Positions(i) : x = s[p]
      BY <1>4, <2>1, Zenon
    <2>3. PICK q \in Positions(j) : x = s[q]
      BY <1>4, <2>1, Zenon
    <2>4. i * n <= (j - 1) * n
      <3>1. i \in Int /\ j - 1 \in Int /\ i <= j - 1
        BY <1>1, <1>6
      <3>2. QED BY <3>1
    <2>5. /\ (i - 1) * n \in Nat /\ SliceEnd(s, n, i) \in Int /\ SliceEnd(s, n, i) <= Len(s)
          /\ (j - 1) * n \in Nat /\ SliceEnd(s, n, j) \in Int /\ SliceEnd(s, n, j) <= Len(s)
          /\ i * n \in Int /\ SliceEnd(s, n, i) <= i * n
      <3>1. ASSUME NEW m \in 1 .. N
            PROVE  /\ (m - 1) * n \in Nat /\ m * n \in Int
                   /\ SliceEnd(s, n, m) \in Int /\ SliceEnd(s, n, m) <= Len(s)
                   /\ SliceEnd(s, n, m) <= m * n
        <4> DEFINE a == (m - 1) * n
                   b == m * n
                   e == SliceEnd(s, n, m)
        <4>1. a \in Nat /\ b = a + n /\ e \in a + 1 .. Len(s) /\ e <= b
          BY <1>2, Zenon
        <4> HIDE DEF a, b, e
        <4>2. a \in Nat /\ b \in Int /\ e \in Int /\ e <= Len(s) /\ e <= b
          BY <1>1, <4>1
        <4>3. QED BY <4>2 DEF a, b, e
      <3>2. QED BY <3>1, Zenon
    <2>6. p \in 1 .. Len(s) /\ q \in 1 .. Len(s) /\ p < q
      BY <1>1, <2>4, <2>5
    <2>7. p # q /\ p \in DOMAIN s /\ q \in DOMAIN s
      BY <1>1, <2>6
    <2>8. QED BY <2>2, <2>3, <2>7, Zenon
  <1>7. ASSUME NEW j \in 1 .. N \ {k}
        PROVE  ToSet(sl[j]) \cap ToSet(sl[k]) = {}
    <2>1. j < k \/ k < j
      BY <1>1, <1>3
    <2>2. QED BY <1>3, <1>6, <2>1
  <1> QED BY <1>5, <1>7 DEF N, sl

-----------------------------------------------------------------------------
(* The inductive invariant *)

\* What a worker's server has been told, while it resubscribes and after.
Subscribed(w) ==
    /\ w.told \subseteq ToSet(w.tokens) /\ w.todo <= Len(Batches(w.tokens))
    /\ w.again /\ w.io = "resubscribe" /\ ~ w.broken =>
          \A k \in 1 .. w.todo : ToSet(Batches(w.tokens)[k]) \subseteq w.told
    /\ w.again /\ w.io = "read" /\ ~ w.broken => w.told = ToSet(w.tokens)

WorkersInv ==
    /\ workers \in Seq(Worker) /\ Len(workers) <= MaxWorkers
    /\ \A i \in 1 .. Len(workers) : Subscribed(workers[i])

Loops == {"consumers", "sockets", "subscribe", "stopws", "join", "stopcons"}

\* Where the controller is, there are workers; before the loops that start the
\* sockets and after those that stop them, no socket runs but overtaken ones.
CtlInv ==
    /\ ctl \in Loops => at \in 1 .. Len(workers)
    /\ ctl = "idle" /\ running => Len(workers) >= 1
    /\ ctl = "undefined" => Len(workers) = 0 /\ overtaken # {}

SocketInv ==
    \A i \in 1 .. Len(workers) :
        /\ ctl = "consumers" => workers[i].io = "none"
        /\ \/ ctl \in {"stopcons", "clear"}
           \/ ctl \in {"stopws", "join"} /\ i < at
           => i \in overtaken \/ workers[i].io = "none"

ConsumerInv ==
    \A i \in 1 .. Len(workers) :
        /\ \/ ctl \in {"idle", "sockets", "subscribe", "stopws", "join"}
           \/ ctl = "consumers" /\ i < at
           => workers[i].cons
        /\ \/ ctl = "clear"
           \/ ctl = "stopcons" /\ i < at
           => ~ workers[i].cons

IInv == TypeOK /\ WorkersInv /\ CtlInv /\ SocketInv /\ ConsumerInv

\* Changes of one field of a worker.
LEMMA IoField ==
    ASSUME NEW c \in Worker, NEW x \in Conn!Places
    PROVE  LET d == [c EXCEPT !.io = x] IN
           /\ d \in Worker /\ d.io = x
           /\ d.tokens = c.tokens /\ d.cons = c.cons /\ d.queued = c.queued
           /\ d.live = c.live /\ d.again = c.again
           /\ d.broken = c.broken /\ d.todo = c.todo /\ d.told = c.told
  BY DEF Worker

LEMMA FlagField ==
    ASSUME NEW c \in Worker, NEW x \in BOOLEAN
    PROVE  /\ LET d == [c EXCEPT !.live = x] IN
              /\ d \in Worker /\ d.io = c.io
              /\ d.tokens = c.tokens /\ d.cons = c.cons /\ d.queued = c.queued
              /\ d.live = x /\ d.again = c.again
              /\ d.broken = c.broken /\ d.todo = c.todo /\ d.told = c.told
           /\ LET d == [c EXCEPT !.again = x] IN
              /\ d \in Worker /\ d.io = c.io
              /\ d.tokens = c.tokens /\ d.cons = c.cons /\ d.queued = c.queued
              /\ d.live = c.live /\ d.again = x
              /\ d.broken = c.broken /\ d.todo = c.todo /\ d.told = c.told
           /\ LET d == [c EXCEPT !.broken = x] IN
              /\ d \in Worker /\ d.io = c.io
              /\ d.tokens = c.tokens /\ d.cons = c.cons /\ d.queued = c.queued
              /\ d.live = c.live /\ d.again = c.again
              /\ d.broken = x /\ d.todo = c.todo /\ d.told = c.told
           /\ LET d == [c EXCEPT !.cons = x] IN
              /\ d \in Worker /\ d.io = c.io
              /\ d.tokens = c.tokens /\ d.cons = x /\ d.queued = c.queued
              /\ d.live = c.live /\ d.again = c.again
              /\ d.broken = c.broken /\ d.todo = c.todo /\ d.told = c.told
  BY DEF Worker

LEMMA DataField ==
    ASSUME NEW c \in Worker
    PROVE  /\ \A x \in SUBSET Listed :
              LET d == [c EXCEPT !.told = x] IN
              /\ d \in Worker /\ d.io = c.io
              /\ d.tokens = c.tokens /\ d.cons = c.cons /\ d.queued = c.queued
              /\ d.live = c.live /\ d.again = c.again
              /\ d.broken = c.broken /\ d.todo = c.todo /\ d.told = x
           /\ \A x \in Nat :
              LET d == [c EXCEPT !.todo = x] IN
              /\ d \in Worker /\ d.io = c.io
              /\ d.tokens = c.tokens /\ d.cons = c.cons /\ d.queued = c.queued
              /\ d.live = c.live /\ d.again = c.again
              /\ d.broken = c.broken /\ d.todo = x /\ d.told = c.told
           /\ \A x \in 0 .. QueueSize :
              LET d == [c EXCEPT !.queued = x] IN
              /\ d \in Worker /\ d.io = c.io
              /\ d.tokens = c.tokens /\ d.cons = c.cons /\ d.queued = x
              /\ d.live = c.live /\ d.again = c.again
              /\ d.broken = c.broken /\ d.todo = c.todo /\ d.told = c.told
  BY DEF Worker

\* A step of the connection touches none of the sharder's own fields.
Same(c, w) ==
    /\ w.tokens = c.tokens /\ w.cons = c.cons /\ w.queued = c.queued
    /\ w.broken = c.broken /\ w.todo = c.todo /\ w.told = c.told

LEMMA MovedIs ==
    ASSUME NEW c \in Worker, NEW from, NEW to \in Conn!Places, NEW w \in Conn!Moved(c, from, to)
    PROVE  /\ c.io = from /\ w.io = to /\ w \in Worker /\ Same(c, w)
           /\ w.live = c.live /\ w.again = c.again
  <1>1. c.io = from /\ w = [c EXCEPT !.io = to]
    BY DEF Conn!Moved
  <1> QED BY <1>1, IoField DEF Same

\* The steps that bring no connection up.
LEMMA DownSteps ==
    ASSUME NEW c \in Worker,
           NEW w \in Conn!Begun(c) \cup Conn!AttemptFailed(c) \cup Conn!Retried(c)
                     \cup Conn!Lost(c) \cup Conn!PeerClosed(c) \cup Conn!Joined(c)
    PROVE  /\ w \in Worker /\ Same(c, w) /\ c.io # "none"
           /\ w.io \notin {"resubscribe", "read"}
           /\ w \in Conn!Joined(c) => w.io = "none"
  <1>0. {"none", "begin", "attempt", "sleep", "resubscribe", "read", "ended"} = Conn!Places
    BY DEF Conn!Places
  <1>1. CASE w \in Conn!Begun(c)
    <2>1. PICK d \in Conn!Moved(c, "begin", "attempt") : w = [[d EXCEPT !.live = TRUE] EXCEPT !.again = FALSE]
      BY <1>1 DEF Conn!Begun
    <2>2. d \in Worker /\ Same(c, d) /\ d.io = "attempt" /\ c.io = "begin"
      BY <1>0, <2>1, MovedIs
    <2> DEFINE e == [d EXCEPT !.live = TRUE]
    <2>3. e \in Worker /\ Same(c, e) /\ e.io = "attempt"
      BY <2>2, FlagField DEF Same
    <2> HIDE DEF e
    <2>4. w = [e EXCEPT !.again = FALSE]
      BY <2>1 DEF e
    <2>5. w \in Worker /\ Same(c, w) /\ w.io = "attempt"
      BY <2>3, <2>4, FlagField DEF Same
    <2>6. QED BY <2>2, <2>5 DEF Conn!Joined, Conn!Moved
  <1>2. ASSUME NEW from \in {"attempt", "read"}, NEW d \in Conn!Moved(c, from, "sleep"),
               w = [d EXCEPT !.again = TRUE]
        PROVE  w \in Worker /\ Same(c, w) /\ w.io = "sleep" /\ c.io = from
    <2>1. d \in Worker /\ Same(c, d) /\ d.io = "sleep" /\ c.io = from
      BY <1>0, <1>2, MovedIs
    <2>2. QED BY <1>2, <2>1, FlagField DEF Same
  <1>3. CASE w \in Conn!AttemptFailed(c)
    <2>1. w \in Worker /\ Same(c, w) /\ w.io = "sleep" /\ c.io = "attempt"
      BY <1>2, <1>3 DEF Conn!AttemptFailed
    <2>2. QED BY <2>1 DEF Conn!Joined, Conn!Moved
  <1>4. CASE w \in Conn!Retried(c)
    BY <1>0, <1>4, MovedIs DEF Conn!Retried, Conn!Joined
  <1>5. CASE w \in Conn!Lost(c)
    <2>1. CASE c.live
      <3>1. w \in Worker /\ Same(c, w) /\ w.io = "sleep" /\ c.io = "read"
        BY <1>2, <1>5, <2>1 DEF Conn!Lost
      <3>2. QED BY <3>1 DEF Conn!Joined, Conn!Moved
    <2>2. CASE ~ c.live
      BY <1>0, <1>5, <2>2, MovedIs DEF Conn!Lost, Conn!Joined
    <2>3. QED BY <2>1, <2>2
  <1>6. CASE w \in Conn!PeerClosed(c)
    BY <1>0, <1>6, MovedIs DEF Conn!PeerClosed, Conn!Joined
  <1>7. CASE w \in Conn!Joined(c)
    BY <1>0, <1>7, MovedIs DEF Conn!Joined
  <1> QED BY <1>1, <1>3, <1>4, <1>5, <1>6, <1>7

-----------------------------------------------------------------------------
(* The workers' own steps *)

LEMMA LimitPositive ==
    ASSUME NEW n \in Nat, NEW default \in Nat \ {0}
    PROVE  Limit(n, default) \in Nat \ {0}
  BY DEF Limit

LEMMA BatchesCover ==
    ASSUME NEW tokens \in Seq(Listed)
    PROVE  /\ Len(Batches(tokens)) \in Nat /\ ToSet(tokens) \subseteq Listed
           /\ \A k \in 1 .. Len(Batches(tokens)) : ToSet(Batches(tokens)[k]) \subseteq ToSet(tokens)
           /\ \A x \in ToSet(tokens) :
                 \E k \in 1 .. Len(Batches(tokens)) : x \in ToSet(Batches(tokens)[k])
  <1> DEFINE n == Limit(BatchSize, 100)
  <1>1. n \in Nat \ {0}
    BY LimitPositive, SharderAssumption
  <1> HIDE DEF n
  <1>2. Len(tokens) \in Nat /\ \A i \in DOMAIN tokens : tokens[i] \in Listed
    BY LenProperties, ElementOfSeq
  <1>3. SliceCount(tokens, n) \in Nat
    BY <1>1, <1>2, SliceCountBounds
  <1>4. ToSet(tokens) \subseteq Listed
    BY <1>2 DEF ToSet
  <1>5. /\ Len(Slices(tokens, n)) = SliceCount(tokens, n)
        /\ \A k \in 1 .. SliceCount(tokens, n) : ToSet(Slices(tokens, n)[k]) \subseteq ToSet(tokens)
        /\ \A x \in ToSet(tokens) :
              \E k \in 1 .. SliceCount(tokens, n) : x \in ToSet(Slices(tokens, n)[k])
    BY <1>1, SlicesCover
  <1>6. Batches(tokens) = Slices(tokens, n)
    BY DEF Batches, n
  <1> QED BY <1>3, <1>4, <1>5, <1>6

\* One worker is replaced by another.
LEMMA OneChanged ==
    ASSUME WorkersInv, NEW i \in 1 .. Len(workers), NEW w \in Worker, Subscribed(w),
           workers' = [workers EXCEPT ![i] = w]
    PROVE  /\ WorkersInv' /\ Len(workers') = Len(workers)
           /\ \A j \in 1 .. Len(workers) : workers'[j] = IF j = i THEN w ELSE workers[j]
  <1>1. /\ workers' \in Seq(Worker) /\ Len(workers') = Len(workers)
        /\ \A j \in 1 .. Len(workers) : workers'[j] = IF j = i THEN w ELSE workers[j]
    BY ExceptSeq DEF WorkersInv
  <1>2. \A j \in 1 .. Len(workers') : Subscribed(workers'[j])
    BY <1>1 DEF WorkersInv
  <1> QED BY <1>1, <1>2 DEF WorkersInv, Subscribed

\* What TypeOK says of workers follows from WorkersInv.
LEMMA WorkersTyped ==
    ASSUME WorkersInv
    PROVE  /\ DOMAIN workers = 1 .. Len(workers) /\ Len(workers) \in Nat
           /\ DOMAIN workers \subseteq Ids /\ \A i \in DOMAIN workers : workers[i] \in Worker
  <1>1. Len(workers) \in Nat /\ DOMAIN workers = 1 .. Len(workers) /\ Len(workers) <= MaxWorkers
    BY LenProperties DEF WorkersInv
  <1>2. \A i \in 1 .. Len(workers) : workers[i] \in Worker
    BY ElementOfSeq DEF WorkersInv
  <1>3. 1 .. Len(workers) \subseteq Ids
    BY <1>1, SharderAssumption DEF Ids
  <1> QED BY <1>1, <1>2, <1>3

\* A worker's step that leaves its consumer and a missing thread alone.
LEMMA WorkerStep ==
    ASSUME IInv, NEW i \in DOMAIN workers, NEW w \in Worker, Subscribed(w),
           w.cons = workers[i].cons, workers[i].io = "none" => w.io = "none",
           workers' = [workers EXCEPT ![i] = w], sent' \in Nat,
           UNCHANGED <<desired_tokens, running, ctl, at, built, overtaken>>
    PROVE  IInv'
  <1>1. WorkersInv /\ i \in 1 .. Len(workers) /\ Len(workers) \in Nat
    BY WorkersTyped DEF IInv
  <1>2. /\ WorkersInv' /\ Len(workers') = Len(workers)
        /\ \A j \in 1 .. Len(workers) : workers'[j] = IF j = i THEN w ELSE workers[j]
    BY <1>1, OneChanged
  <1>3. /\ \A j \in 1 .. Len(workers') : workers'[j].cons = workers[j].cons
        /\ \A j \in 1 .. Len(workers') : workers[j].io = "none" => workers'[j].io = "none"
    BY <1>2
  <1>4. DOMAIN workers' \subseteq Ids /\ \A j \in DOMAIN workers' : workers'[j] \in Worker
    <2>1. Ids' = Ids
      BY DEF Ids
    <2>2. /\ DOMAIN workers' = 1 .. Len(workers') /\ \A j \in 1 .. Len(workers') : workers'[j] \in Worker
      BY <1>2, LenProperties, ElementOfSeq DEF WorkersInv
    <2>3. 1 .. Len(workers') \subseteq Ids
      BY <1>2, WorkersTyped DEF IInv
    <2>4. QED BY <2>2, <2>3
  <1>5. TypeOK'
    BY <1>4 DEF IInv, TypeOK
  <1>6. CtlInv'
    BY <1>2 DEF IInv, CtlInv
  <1>7. SocketInv'
    BY <1>2, <1>3 DEF IInv, SocketInv
  <1>8. ConsumerInv'
    BY <1>2, <1>3 DEF IInv, ConsumerInv
  <1> QED BY <1>2, <1>5, <1>6, <1>7, <1>8 DEF IInv

\* What Becomes adds to WorkerStep.
LEMMA BecomesStep ==
    ASSUME IInv, NEW i \in Ids, NEW ws, Becomes(i, ws),
           i \in DOMAIN workers =>
               \A w \in ws : /\ w \in Worker /\ Subscribed(w) /\ w.cons = workers[i].cons
                             /\ workers[i].io = "none" => w.io = "none"
    PROVE  IInv'
  <1>1. i \in DOMAIN workers /\ UNCHANGED <<desired_tokens, running, ctl, at, sent, built, overtaken>>
    BY DEF Becomes
  <1>2. PICK w \in ws : workers' = [workers EXCEPT ![i] = w]
    BY DEF Becomes
  <1>3. sent' \in Nat
    BY <1>1 DEF IInv, TypeOK
  <1> QED BY <1>1, <1>2, <1>3, WorkerStep

\* A worker of the vector, as the steps find it.
LEMMA ItsWorker ==
    ASSUME IInv, NEW i \in DOMAIN workers
    PROVE  /\ i \in 1 .. Len(workers) /\ workers[i] \in Worker /\ Subscribed(workers[i])
           /\ workers[i].tokens \in Seq(Listed) /\ workers[i].todo \in Nat
  BY WorkersTyped DEF IInv, WorkersInv, Worker

LEMMA DownKeeps ==
    ASSUME IInv, NEW i \in Ids,
           IoBegin(i) \/ AttemptFails(i) \/ Retry(i) \/ ConnectionLost(i) \/ PeerCloses(i)
    PROVE  IInv'
  <1> DEFINE ws == Conn!Begun(workers[i]) \cup Conn!AttemptFailed(workers[i])
                   \cup Conn!Retried(workers[i]) \cup Conn!Lost(workers[i])
                   \cup Conn!PeerClosed(workers[i])
  <1>1. Becomes(i, ws)
    BY DEF IoBegin, AttemptFails, Retry, ConnectionLost, PeerCloses, Becomes
  <1>2. ASSUME i \in DOMAIN workers, NEW w \in ws
        PROVE  /\ w \in Worker /\ Subscribed(w) /\ w.cons = workers[i].cons
               /\ workers[i].io # "none"
    <2>1. workers[i] \in Worker /\ Subscribed(workers[i])
      BY <1>2, ItsWorker
    <2>2. w \in Worker /\ Same(workers[i], w) /\ workers[i].io # "none"
          /\ w.io \notin {"resubscribe", "read"}
      BY <1>2, <2>1, DownSteps
    <2>3. QED BY <2>1, <2>2 DEF Same, Subscribed
  <1> HIDE DEF ws
  <1> QED BY <1>1, <1>2, BecomesStep

LEMMA RenewedIs ==
    ASSUME NEW d \in Worker
    PROVE  Renewed(d) = [[[d EXCEPT !.told = {}] EXCEPT !.todo = 0] EXCEPT !.broken = FALSE]
  <1>1. ASSUME NEW x \in BOOLEAN
        PROVE  [d EXCEPT !.told = {}, !.todo = 0, !.broken = x]
                 = [[[d EXCEPT !.told = {}] EXCEPT !.todo = 0] EXCEPT !.broken = x]
    BY DEF Worker
  <1>2. FALSE \in BOOLEAN
    OBVIOUS
  <1> QED BY <1>1, <1>2, Zenon DEF Renewed

LEMMA AttemptOkKeeps ==
    ASSUME IInv, NEW i \in Ids, AttemptOk(i)
    PROVE  IInv'
  <1> DEFINE ws == {Renewed(d) : d \in Conn!Connected(workers[i])}
  <1>1. Becomes(i, ws)
    BY DEF AttemptOk
  <1>2. ASSUME i \in DOMAIN workers, NEW w \in ws
        PROVE  /\ w \in Worker /\ Subscribed(w) /\ w.cons = workers[i].cons
               /\ workers[i].io # "none"
    <2> DEFINE c == workers[i]
               to == IF c.again THEN "resubscribe" ELSE "read"
    <2>1. c \in Worker
      BY <1>2, ItsWorker
    <2>2. PICK d \in Conn!Moved(c, "attempt", to) : w = Renewed(d)
      BY <1>2 DEF Conn!Connected
    <2>3. to \in Conn!Places
      BY DEF Conn!Places
    <2>4. c.io = "attempt" /\ d.io = to /\ d \in Worker /\ Same(c, d) /\ d.again = c.again
      BY <2>1, <2>3, MovedIs
    <2> DEFINE e == [d EXCEPT !.told = {}]
               f == [e EXCEPT !.todo = 0]
    <2>5. {} \in SUBSET Listed /\ 0 \in Nat /\ FALSE \in BOOLEAN
      OBVIOUS
    <2>6. /\ e \in Worker /\ e.io = d.io /\ e.again = d.again /\ e.told = {}
          /\ e.cons = d.cons
      BY <2>4, <2>5, DataField
    <2> HIDE DEF e
    <2>7. /\ f \in Worker /\ f.io = d.io /\ f.again = d.again /\ f.told = {}
          /\ f.cons = d.cons /\ f.todo = 0
      BY <2>5, <2>6, DataField
    <2> HIDE DEF f
    <2>8. w = [f EXCEPT !.broken = FALSE]
      BY <2>2, <2>4, RenewedIs, Zenon DEF e, f
    <2>9. /\ w \in Worker /\ w.io = d.io /\ w.again = d.again /\ w.told = {}
          /\ w.cons = d.cons /\ w.todo = 0
      BY <2>5, <2>7, <2>8, FlagField
    <2>10. w.io = "read" => ~ w.again
      BY <2>4, <2>9
    <2>11. Len(Batches(w.tokens)) \in Nat
      BY <2>9, BatchesCover DEF Worker
    <2>12. Subscribed(w)
      BY <2>9, <2>10, <2>11 DEF Subscribed
    <2>13. QED BY <2>4, <2>9, <2>12 DEF Same
  <1> HIDE DEF ws
  <1> QED BY <1>1, <1>2, BecomesStep

LEMMA ResubscribeSendKeeps ==
    ASSUME IInv, NEW i \in Ids, ResubscribeSend(i)
    PROVE  IInv'
  <1> DEFINE c == workers[i]
             w0 == [c EXCEPT !.todo = @ + 1]
             ws == {[w0 EXCEPT !.broken = TRUE]}
                   \cup (IF w0.broken THEN {} ELSE {[w0 EXCEPT !.told = Told(w0, w0.todo)]})
  <1>1. /\ Becomes(i, ws) /\ i \in DOMAIN workers
        /\ c.todo < Len(Batches(c.tokens)) /\ c.io = "resubscribe"
    BY DEF ResubscribeSend
  <1>2. c \in Worker /\ Subscribed(c) /\ c.tokens \in Seq(Listed) /\ c.todo \in Nat
    BY <1>1, ItsWorker
  <1> HIDE DEF c
  <1>3. /\ Len(Batches(c.tokens)) \in Nat /\ ToSet(c.tokens) \subseteq Listed
        /\ \A k \in 1 .. Len(Batches(c.tokens)) : ToSet(Batches(c.tokens)[k]) \subseteq ToSet(c.tokens)
    BY <1>2, BatchesCover
  <1>4. c.todo + 1 \in Nat
    BY <1>2
  <1>5. /\ w0 \in Worker /\ w0.io = c.io /\ w0.tokens = c.tokens /\ w0.cons = c.cons
        /\ w0.again = c.again /\ w0.broken = c.broken /\ w0.told = c.told
        /\ w0.todo = c.todo + 1
    BY <1>2, <1>4, DataField
  <1>6. /\ w0.told \subseteq ToSet(w0.tokens) /\ w0.todo \in 1 .. Len(Batches(w0.tokens))
        /\ w0.again /\ ~ w0.broken =>
             \A k \in 1 .. w0.todo - 1 : ToSet(Batches(w0.tokens)[k]) \subseteq w0.told
    BY <1>1, <1>2, <1>3, <1>5 DEF Subscribed
  <1> HIDE DEF w0
  <1>7. ASSUME NEW w \in ws
        PROVE  w \in Worker /\ Subscribed(w) /\ w.cons = c.cons
    <2>1. CASE w = [w0 EXCEPT !.broken = TRUE]
      <3>0. TRUE \in BOOLEAN
        OBVIOUS
      <3>1. /\ w \in Worker /\ w.tokens = w0.tokens /\ w.told = w0.told /\ w.todo = w0.todo
            /\ w.broken = TRUE /\ w.cons = w0.cons
        BY <3>0, <2>1, <1>5, FlagField
      <3>2. w.todo <= Len(Batches(w.tokens))
        BY <3>1, <1>3, <1>5, <1>6
      <3>3. QED BY <3>1, <3>2, <1>5, <1>6 DEF Subscribed
    <2>2. CASE w = [w0 EXCEPT !.told = Told(w0, w0.todo)] /\ ~ w0.broken
      <3>1. Told(w0, w0.todo) = w0.told \cup ToSet(Batches(w0.tokens)[w0.todo])
        BY DEF Told
      <3>2. /\ Told(w0, w0.todo) \in SUBSET Listed
            /\ Told(w0, w0.todo) \subseteq ToSet(w0.tokens)
        BY <3>1, <1>3, <1>5, <1>6
      <3>3. /\ w \in Worker /\ w.tokens = w0.tokens /\ w.told = Told(w0, w0.todo)
            /\ w.todo = w0.todo /\ w.broken = w0.broken /\ w.cons = w0.cons
            /\ w.again = w0.again /\ w.io = w0.io
        BY <3>2, <2>2, <1>5, DataField
      <3>4. w.again => \A k \in 1 .. w.todo : ToSet(Batches(w.tokens)[k]) \subseteq w.told
        <4>1. SUFFICES ASSUME w.again, NEW k \in 1 .. w.todo
                       PROVE  ToSet(Batches(w.tokens)[k]) \subseteq w.told
          OBVIOUS
        <4>2. k \in 1 .. w0.todo - 1 \/ k = w0.todo
          BY <3>3, <1>6
        <4>3. QED BY <4>1, <4>2, <3>1, <3>3, <2>2, <1>6
      <3>5. w.todo <= Len(Batches(w.tokens))
        BY <3>3, <1>3, <1>5, <1>6
      <3>6. w.io # "read"
        BY <3>3, <1>1, <1>5
      <3>7. QED BY <3>2, <3>3, <3>4, <3>5, <3>6, <1>5 DEF Subscribed
    <2>3. w \in {[w0 EXCEPT !.broken = TRUE]}
          \/ (~ w0.broken /\ w \in {[w0 EXCEPT !.told = Told(w0, w0.todo)]})
      <3>1. CASE w0.broken
        BY <3>1
      <3>2. CASE ~ w0.broken
        BY <3>2
      <3>3. QED BY <3>1, <3>2
    <2>4. QED BY <2>1, <2>2, <2>3
  <1>8. workers[i].io # "none" /\ c = workers[i]
    BY <1>1 DEF c
  <1> HIDE DEF ws
  <1> QED BY <1>1, <1>7, <1>8, BecomesStep

LEMMA ResubscribedKeeps ==
    ASSUME IInv, NEW i \in Ids, Resubscribed(i)
    PROVE  IInv'
  <1> DEFINE c == workers[i]
             ws == Conn!Moved(c, "resubscribe", "read")
  <1>1. Becomes(i, ws) /\ i \in DOMAIN workers /\ c.todo = Len(Batches(c.tokens))
    BY DEF Resubscribed, Conn!Resubscribed
  <1>2. c \in Worker /\ Subscribed(c) /\ c.tokens \in Seq(Listed)
    BY <1>1, ItsWorker
  <1> HIDE DEF c
  <1>3. /\ Len(Batches(c.tokens)) \in Nat
        /\ \A x \in ToSet(c.tokens) :
              \E k \in 1 .. Len(Batches(c.tokens)) : x \in ToSet(Batches(c.tokens)[k])
    BY <1>2, BatchesCover
  <1>4. ASSUME NEW w \in ws
        PROVE  /\ w \in Worker /\ Subscribed(w) /\ w.cons = c.cons /\ c.io # "none"
    <2>1. "read" \in Conn!Places
      BY DEF Conn!Places
    <2>2. /\ c.io = "resubscribe" /\ w.io = "read" /\ w \in Worker /\ Same(c, w)
          /\ w.again = c.again
      BY <1>2, <2>1, MovedIs
    <2>3. w.again /\ ~ w.broken => w.told = ToSet(w.tokens)
      <3>1. SUFFICES ASSUME c.again, ~ c.broken PROVE c.told = ToSet(c.tokens)
        BY <2>2 DEF Same
      <3>2. /\ c.told \subseteq ToSet(c.tokens)
            /\ \A k \in 1 .. Len(Batches(c.tokens)) : ToSet(Batches(c.tokens)[k]) \subseteq c.told
        <4>1. c.todo = Len(Batches(c.tokens)) /\ c.io = "resubscribe"
          BY <1>1, <2>2 DEF c
        <4>2. QED BY <4>1, <1>2, <3>1 DEF Subscribed
      <3>3. QED BY <3>2, <1>3
    <2>4. QED BY <1>2, <2>2, <2>3 DEF Same, Subscribed
  <1>5. c = workers[i]
    BY DEF c
  <1> HIDE DEF ws
  <1> QED BY <1>1, <1>4, <1>5, BecomesStep

LEMMA FramesKeep ==
    ASSUME IInv, NEW i \in Ids, OnMessage(i) \/ Consume(i)
    PROVE  IInv'
  <1> DEFINE c == workers[i]
             ws == {[c EXCEPT !.queued = x] : x \in 0 .. QueueSize}
  <1>1. i \in DOMAIN workers
    BY DEF OnMessage, Consume
  <1>2. c \in Worker /\ Subscribed(c)
    BY <1>1, ItsWorker
  <1>3. c.queued \in 0 .. QueueSize /\ QueueSize \in Nat
    BY <1>2, SharderAssumption DEF Worker
  <1>4. PICK x \in 0 .. QueueSize : Becomes(i, {[c EXCEPT !.queued = x]})
    <2>1. CASE OnMessage(i)
      <3>1. c.queued + 1 \in 0 .. QueueSize
        BY <1>3, <2>1 DEF OnMessage
      <3>2. QED BY <2>1, <3>1 DEF OnMessage
    <2>2. CASE Consume(i)
      <3>1. c.queued - 1 \in 0 .. QueueSize
        BY <1>3, <2>2 DEF Consume
      <3>2. QED BY <2>2, <3>1 DEF Consume
    <2>3. QED BY <2>1, <2>2
  <1> HIDE DEF c
  <1>5. ASSUME NEW w \in {[c EXCEPT !.queued = x]}
        PROVE  w \in Worker /\ Subscribed(w) /\ w.cons = c.cons /\ w.io = c.io
    <2>1. /\ w \in Worker /\ w.io = c.io /\ w.tokens = c.tokens /\ w.cons = c.cons
          /\ w.again = c.again /\ w.broken = c.broken /\ w.todo = c.todo /\ w.told = c.told
      <3>1. w = [c EXCEPT !.queued = x]
        BY <1>5
      <3>2. QED BY <1>2, <3>1, DataField
    <2>2. QED BY <1>2, <2>1 DEF Subscribed
  <1>6. c = workers[i]
    BY DEF c
  <1> QED BY <1>1, <1>4, <1>5, <1>6, BecomesStep

-----------------------------------------------------------------------------
(* The controller's steps *)

LEMMA SeqTyped ==
    ASSUME NEW ws \in Seq(Worker), Len(ws) <= MaxWorkers
    PROVE  DOMAIN ws \subseteq Ids /\ \A i \in DOMAIN ws : ws[i] \in Worker
  <1>1. Len(ws) \in Nat /\ DOMAIN ws = 1 .. Len(ws) /\ \A i \in 1 .. Len(ws) : ws[i] \in Worker
    BY LenProperties, ElementOfSeq
  <1> QED BY <1>1, SharderAssumption DEF Ids

LEMMA TypeFrom ==
    ASSUME WorkersInv', desired_tokens' \in TokenLists \cup {<<>>}, built' \in TokenLists \cup {<<>>},
           running' \in BOOLEAN, ctl' \in Loops \cup {"idle", "clear", "undefined"},
           at' \in Ids, sent' \in Nat, overtaken' \subseteq Ids
    PROVE  TypeOK'
  <1>1. DOMAIN workers' \subseteq Ids /\ \A i \in DOMAIN workers' : workers'[i] \in Worker
    BY SeqTyped DEF WorkersInv
  <1> QED BY <1>1 DEF TypeOK, Loops, Ids

\* A step of a loop over the workers.
LEMMA LoopStep ==
    ASSUME IInv, ctl \in Loops, NEW stage, NEW after, Loop(stage, after)
    PROVE  /\ at \in 1 .. Len(workers) /\ at' \in 1 .. Len(workers) /\ at' \in Ids
           /\ Len(workers) \in Nat /\ at \in DOMAIN workers
           /\ \/ at = Len(workers) /\ ctl' = after /\ at' = 1
              \/ at < Len(workers) /\ ctl' = stage /\ at' = at + 1
  <1>1. at \in 1 .. Len(workers) /\ Len(workers) \in Nat
    BY WorkersTyped DEF IInv, CtlInv
  <1>2. DOMAIN workers = 1 .. Len(workers) /\ DOMAIN workers \subseteq Ids
    BY WorkersTyped DEF IInv
  <1>3. \/ at = Len(workers) /\ ctl' = after /\ at' = 1
        \/ at < Len(workers) /\ ctl' = stage /\ at' = at + 1
    <2>1. CASE at = Len(workers)
      BY <2>1 DEF Loop
    <2>2. CASE at # Len(workers)
      <3>1. at < Len(workers)
        BY <1>1, <2>2
      <3>2. QED BY <2>2, <3>1 DEF Loop
    <2>3. QED BY <2>1, <2>2
  <1>4. at' \in 1 .. Len(workers)
    BY <1>1, <1>3
  <1>5. at' \in Ids /\ at \in DOMAIN workers
    BY <1>1, <1>2, <1>4
  <1> QED BY <1>1, <1>3, <1>4, <1>5

LEMMA Types ==
    ASSUME IInv
    PROVE  /\ WorkersInv /\ CtlInv /\ SocketInv /\ ConsumerInv
           /\ desired_tokens \in TokenLists \cup {<<>>} /\ built \in TokenLists \cup {<<>>}
           /\ running \in BOOLEAN /\ at \in Ids /\ sent \in Nat /\ overtaken \subseteq Ids
           /\ 1 \in Ids
  BY SharderAssumption DEF IInv, TypeOK, Ids

LEMMA NoWorkerKeeps ==
    ASSUME IInv, SetTokens \/ StopBegin
    PROVE  IInv'
  <1>0. workers' = workers /\ Len(workers) \in Nat /\ overtaken' = overtaken
    BY WorkersTyped DEF SetTokens, StopBegin, IInv
  <1>1. WorkersInv'
    BY <1>0, Types DEF WorkersInv, Subscribed
  <1>2. CASE SetTokens
    <2>1. ctl' = ctl /\ at' = at /\ running' = running /\ ctl = "idle"
      BY <1>2 DEF SetTokens
    <2>2. TypeOK'
      BY <1>1, <1>2, Types, TypeFrom DEF SetTokens
    <2>3. CtlInv' /\ SocketInv' /\ ConsumerInv'
      BY <1>0, <2>1, Types DEF CtlInv, SocketInv, ConsumerInv
    <2>4. QED BY <1>1, <2>2, <2>3 DEF IInv
  <1>3. CASE StopBegin
    <2>1. ctl' = "stopws" /\ at' = 1 /\ ctl = "idle" /\ running
      BY <1>3 DEF StopBegin
    <2>2. ctl' \in Loops
      BY <2>1 DEF Loops
    <2>3. TypeOK'
      BY <1>1, <1>3, <2>1, <2>2, Types, TypeFrom DEF StopBegin
    <2>4. CtlInv'
      BY <1>0, <2>1, Types DEF CtlInv
    <2>5. SocketInv' /\ ConsumerInv'
      BY <1>0, <2>1, Types DEF SocketInv, ConsumerInv
    <2>6. QED BY <1>1, <2>3, <2>4, <2>5 DEF IInv
  <1> QED BY <1>2, <1>3

\* The workers start() builds.
LEMMA NewWorkerIs ==
    ASSUME NEW tokens \in Seq(Listed)
    PROVE  LET w == NewWorker(tokens) IN
           /\ w \in Worker /\ Subscribed(w) /\ w.io = "none"
  <1> DEFINE w == NewWorker(tokens)
  <1>1. ASSUME NEW f \in BOOLEAN
        PROVE  [tokens |-> tokens, cons |-> f, queued |-> 0, io |-> "none", live |-> f,
                again |-> f, broken |-> f, todo |-> 0, told |-> {}] \in Worker
    BY SharderAssumption DEF Worker, Conn!Places
  <1>2. FALSE \in BOOLEAN
    OBVIOUS
  <1>3. w \in Worker
    BY <1>1, <1>2, Zenon DEF NewWorker
  <1>4. w.io = "none" /\ w.told = {} /\ w.todo = 0 /\ w.tokens = tokens
    BY DEF NewWorker
  <1>5. Len(Batches(tokens)) \in Nat
    BY BatchesCover
  <1> HIDE DEF w
  <1>6. Subscribed(w)
    BY <1>4, <1>5 DEF Subscribed
  <1> QED BY <1>3, <1>4, <1>6 DEF w

LEMMA NewWorkersAre ==
    ASSUME desired_tokens \in TokenLists \cup {<<>>}
    PROVE  /\ NewWorkers \in Seq(Worker) /\ Len(NewWorkers) \in 1 .. MaxWorkers
           /\ \A i \in 1 .. Len(NewWorkers) :
                 Subscribed(NewWorkers[i]) /\ NewWorkers[i].io = "none"
  <1> DEFINE n == Limit(MaxPerConn, 800)
             slices == Slices(desired_tokens, n)
  <1>1. n \in Nat \ {0} /\ MaxWorkers \in Nat \ {0}
    BY LimitPositive, SharderAssumption
  <1>2. desired_tokens \in Seq(Listed) /\ Len(desired_tokens) \in Nat
    <2>1. desired_tokens \in Seq(Listed)
      BY SharderAssumption, EmptySeq
    <2>2. QED BY <2>1, LenProperties
  <1>3. SliceCount(desired_tokens, n) \in Nat /\ SliceCount(desired_tokens, n) <= MaxWorkers
    <2> HIDE DEF n
    <2>1. SliceCount(desired_tokens, n) \in Nat /\ (SliceCount(desired_tokens, n) = 0 <=> Len(desired_tokens) = 0)
      BY <1>1, <1>2, SliceCountBounds
    <2>2. CASE desired_tokens \in TokenLists
      BY <2>1, <2>2, SharderAssumption DEF n
    <2>3. CASE desired_tokens = <<>>
      BY <1>1, <2>1, <2>3
    <2>4. QED BY <2>1, <2>2, <2>3
  <1> HIDE DEF n
  <1>4. slices \in Seq(Seq(Listed)) /\ Len(slices) = SliceCount(desired_tokens, n)
    BY <1>1, <1>2, SlicesCover
  <1> HIDE DEF slices
  <1>5. CASE slices = <<>>
    <2> DEFINE w == NewWorker(<<>>)
    <2>1. <<>> \in Seq(Listed)
      BY EmptySeq
    <2>2. w \in Worker /\ Subscribed(w) /\ w.io = "none"
      BY <2>1, NewWorkerIs
    <2> HIDE DEF w
    <2>3. NewWorkers = <<w>>
      BY <1>5 DEF NewWorkers, w, slices, n
    <2>4. <<w>> \in Seq(Worker) /\ Len(<<w>>) = 1 /\ <<w>>[1] = w
      BY <2>2
    <2>5. QED BY <1>1, <2>2, <2>3, <2>4
  <1>6. CASE slices # <<>>
    <2> DEFINE ws == [i \in 1 .. Len(slices) |-> NewWorker(slices[i])]
    <2>1. Len(slices) \in 1 .. MaxWorkers
      BY <1>1, <1>3, <1>4, <1>6, EmptySeq
    <2>2. ASSUME NEW i \in 1 .. Len(slices)
          PROVE  /\ NewWorker(slices[i]) \in Worker /\ Subscribed(NewWorker(slices[i]))
                 /\ NewWorker(slices[i]).io = "none"
      <3>1. slices[i] \in Seq(Listed)
        BY <1>4, ElementOfSeq
      <3>2. QED BY <3>1, NewWorkerIs
    <2>3. NewWorkers = ws
      BY <1>6 DEF NewWorkers, slices, n
    <2>4. Len(slices) \in Nat
      BY <2>1
    <2>5. /\ ws \in Seq(Worker) /\ Len(ws) = Len(slices)
          /\ \A i \in 1 .. Len(slices) : ws[i] = NewWorker(slices[i])
      BY <2>2, <2>4
    <2> HIDE DEF ws
    <2>6. QED BY <2>1, <2>2, <2>3, <2>5
  <1> QED BY <1>5, <1>6

LEMMA StartBuildKeeps ==
    ASSUME IInv, StartBuild
    PROVE  IInv'
  <1>1. /\ workers' = NewWorkers /\ ctl' = "consumers" /\ at' = 1
        /\ UNCHANGED <<desired_tokens, running, sent, overtaken>> /\ built' = desired_tokens
    BY DEF StartBuild
  <1>2. /\ workers' \in Seq(Worker) /\ Len(workers') \in 1 .. MaxWorkers
        /\ \A i \in 1 .. Len(workers') : Subscribed(workers'[i]) /\ workers'[i].io = "none"
    BY <1>1, Types, NewWorkersAre
  <1>3. WorkersInv'
    <2>1. \A i \in 1 .. Len(workers') : Subscribed(workers[i])'
      BY <1>2 DEF Subscribed
    <2>2. Len(workers') <= MaxWorkers
      BY <1>2, SharderAssumption
    <2>3. QED BY <1>2, <2>1, <2>2 DEF WorkersInv
  <1>4. TypeOK'
    <2>1. ctl' \in Loops
      BY <1>1 DEF Loops
    <2>2. QED BY <1>1, <1>3, <2>1, Types, TypeFrom
  <1>5. CtlInv' /\ SocketInv' /\ ConsumerInv'
    <2>1. Len(workers') \in Nat /\ at' \in 1 .. Len(workers') /\ \A i \in 1 .. Len(workers') : ~ i < at'
      BY <1>1, <1>2, SharderAssumption
    <2>2. QED BY <1>1, <1>2, <2>1 DEF CtlInv, SocketInv, ConsumerInv
  <1> QED BY <1>3, <1>4, <1>5 DEF IInv

LEMMA StartConsumerKeeps ==
    ASSUME IInv, StartConsumer
    PROVE  IInv'
  <1> DEFINE c == workers[at]
             w == [c EXCEPT !.cons = TRUE]
  <1>1. /\ ctl = "consumers" /\ Loop("consumers", "sockets")
        /\ workers' = [workers EXCEPT ![at] = w]
        /\ UNCHANGED <<desired_tokens, running, sent, built, overtaken>>
    <2>1. workers' = [workers EXCEPT ![at].cons = TRUE]
      BY DEF StartConsumer
    <2>2. QED BY <2>1 DEF StartConsumer
  <1>2. ctl \in Loops
    BY <1>1 DEF Loops
  <1>3. /\ at \in 1 .. Len(workers) /\ at' \in 1 .. Len(workers) /\ at' \in Ids
        /\ Len(workers) \in Nat /\ at \in DOMAIN workers
        /\ \/ at = Len(workers) /\ ctl' = "sockets" /\ at' = 1
           \/ at < Len(workers) /\ ctl' = "consumers" /\ at' = at + 1
    BY <1>1, <1>2, LoopStep
  <1>4. c \in Worker /\ Subscribed(c) /\ TRUE \in BOOLEAN
    BY <1>3, ItsWorker
  <1> HIDE DEF c
  <1>5. /\ w \in Worker /\ w.io = c.io /\ w.tokens = c.tokens /\ w.again = c.again
        /\ w.broken = c.broken /\ w.todo = c.todo /\ w.told = c.told /\ w.cons = TRUE
    BY <1>4, FlagField
  <1> HIDE DEF w
  <1>6. Subscribed(w)
    BY <1>4, <1>5 DEF Subscribed
  <1>7. /\ WorkersInv' /\ Len(workers') = Len(workers)
        /\ \A j \in 1 .. Len(workers) : workers'[j] = IF j = at THEN w ELSE workers[j]
    BY <1>1, <1>3, <1>5, <1>6, Types, OneChanged
  <1>8. TypeOK'
    <2>1. ctl' \in Loops
      BY <1>3 DEF Loops
    <2>2. QED BY <1>1, <1>3, <1>7, <2>1, Types, TypeFrom
  <1>9. CtlInv'
    BY <1>3, <1>7 DEF CtlInv
  <1>10. \A j \in 1 .. Len(workers') : workers'[j].io = "none"
    BY <1>1, <1>5, <1>7, Types DEF SocketInv, c
  <1>11. SocketInv'
    BY <1>10 DEF SocketInv
  <1>12. ConsumerInv'
    <2>1. \A j \in 1 .. Len(workers') : j <= at => workers'[j].cons
      BY <1>1, <1>3, <1>5, <1>7, Types DEF ConsumerInv
    <2>2. \A j \in 1 .. Len(workers') : ctl' = "sockets" \/ j < at' => j <= at
      BY <1>3, <1>7
    <2>3. ctl' \in {"sockets", "consumers"}
      BY <1>3
    <2>4. QED BY <2>1, <2>2, <2>3 DEF ConsumerInv
  <1> QED BY <1>7, <1>8, <1>9, <1>11, <1>12 DEF IInv

LEMMA StartSocketKeeps ==
    ASSUME IInv, StartSocket
    PROVE  IInv'
  <1> DEFINE c == workers[at]
  <1>1. /\ ctl = "sockets" /\ Loop("sockets", "subscribe")
        /\ UNCHANGED <<desired_tokens, running, sent, built, overtaken>>
    BY DEF StartSocket
  <1>2. PICK w \in Conn!Moved(c, "none", "begin") : workers' = [workers EXCEPT ![at] = w]
    BY DEF StartSocket, Conn!Spawned
  <1>3. ctl \in Loops
    BY <1>1 DEF Loops
  <1>4. /\ at \in 1 .. Len(workers) /\ at' \in 1 .. Len(workers) /\ at' \in Ids
        /\ Len(workers) \in Nat /\ at \in DOMAIN workers
        /\ \/ at = Len(workers) /\ ctl' = "subscribe" /\ at' = 1
           \/ at < Len(workers) /\ ctl' = "sockets" /\ at' = at + 1
    BY <1>1, <1>3, LoopStep
  <1>5. c \in Worker /\ Subscribed(c) /\ "begin" \in Conn!Places
    BY <1>4, ItsWorker DEF Conn!Places
  <1>6. w \in Worker /\ Same(c, w) /\ w.io = "begin"
    BY <1>2, <1>5, MovedIs
  <1>7. Subscribed(w)
    BY <1>5, <1>6 DEF Subscribed, Same
  <1>8. /\ WorkersInv' /\ Len(workers') = Len(workers)
        /\ \A j \in 1 .. Len(workers) : workers'[j] = IF j = at THEN w ELSE workers[j]
    BY <1>2, <1>4, <1>6, <1>7, Types, OneChanged
  <1>9. TypeOK'
    <2>1. ctl' \in Loops
      BY <1>4 DEF Loops
    <2>2. QED BY <1>1, <1>4, <1>8, <2>1, Types, TypeFrom
  <1>10. CtlInv' /\ SocketInv'
    BY <1>4, <1>8 DEF CtlInv, SocketInv
  <1>11. ConsumerInv'
    <2>1. \A j \in 1 .. Len(workers') : workers'[j].cons
      BY <1>1, <1>4, <1>6, <1>8, Types DEF ConsumerInv, Same
    <2>2. ctl' \in {"sockets", "subscribe"}
      BY <1>4
    <2>3. QED BY <2>1, <2>2 DEF ConsumerInv
  <1> QED BY <1>8, <1>9, <1>10, <1>11 DEF IInv

LEMMA InitialSendKeeps ==
    ASSUME IInv, InitialSend
    PROVE  IInv'
  <1> DEFINE c == workers[at]
  <1>1. /\ ctl = "subscribe" /\ sent < Len(Batches(c.tokens)) /\ sent' = sent + 1
        /\ UNCHANGED <<desired_tokens, running, ctl, at, built, overtaken>>
    BY DEF InitialSend
  <1>2. /\ at \in DOMAIN workers /\ at \in 1 .. Len(workers) /\ Len(workers) \in Nat
        /\ sent \in Nat /\ sent' \in Nat
    <2>1. ctl \in Loops
      BY <1>1 DEF Loops
    <2>2. at \in 1 .. Len(workers) /\ sent \in Nat
      BY <2>1, Types DEF CtlInv
    <2>3. DOMAIN workers = 1 .. Len(workers) /\ Len(workers) \in Nat
      BY WorkersTyped, Types
    <2>4. sent' \in Nat
      BY <1>1, <2>2
    <2>5. QED BY <2>2, <2>3, <2>4
  <1>3. c \in Worker /\ Subscribed(c) /\ c.tokens \in Seq(Listed) /\ c.todo \in Nat
    BY <1>2, ItsWorker
  <1>4. \/ workers' = [workers EXCEPT ![at] = [c EXCEPT !.told = Told(c, sent + 1)]]
        \/ workers' = [workers EXCEPT ![at] = [c EXCEPT !.broken = TRUE]]
        \/ UNCHANGED workers
    <2>1. \/ workers' = [workers EXCEPT ![at].told = Told(c, sent + 1)]
          \/ workers' = [workers EXCEPT ![at].broken = TRUE]
          \/ UNCHANGED workers
      BY DEF InitialSend
    <2>2. QED BY <2>1
  <1> HIDE DEF c
  <1>5. /\ Len(Batches(c.tokens)) \in Nat /\ ToSet(c.tokens) \subseteq Listed
        /\ \A k \in 1 .. Len(Batches(c.tokens)) : ToSet(Batches(c.tokens)[k]) \subseteq ToSet(c.tokens)
    BY <1>3, BatchesCover
  <1>6. CASE workers' = [workers EXCEPT ![at] = [c EXCEPT !.told = Told(c, sent + 1)]]
    <2> DEFINE w == [c EXCEPT !.told = Told(c, sent + 1)]
    <2>1. sent + 1 \in 1 .. Len(Batches(c.tokens))
      BY <1>1, <1>2, <1>5
    <2>2. /\ Told(c, sent + 1) \in SUBSET Listed /\ Told(c, sent + 1) \subseteq ToSet(c.tokens)
          /\ c.told \subseteq Told(c, sent + 1)
      BY <2>1, <1>3, <1>5 DEF Told, Subscribed
    <2>3. /\ w \in Worker /\ w.io = c.io /\ w.tokens = c.tokens /\ w.cons = c.cons
          /\ w.again = c.again /\ w.broken = c.broken /\ w.todo = c.todo
          /\ w.told = Told(c, sent + 1)
      BY <2>2, <1>3, DataField
    <2> HIDE DEF w
    <2>4. Subscribed(w)
      <3>1. w.told \subseteq ToSet(w.tokens) /\ w.todo <= Len(Batches(w.tokens))
        BY <2>2, <2>3, <1>3 DEF Subscribed
      <3>2. ASSUME w.again, w.io = "resubscribe", ~ w.broken, NEW k \in 1 .. w.todo
            PROVE  ToSet(Batches(w.tokens)[k]) \subseteq w.told
        <4>1. ToSet(Batches(c.tokens)[k]) \subseteq c.told
          BY <3>2, <2>3, <1>3 DEF Subscribed
        <4>2. QED BY <4>1, <2>2, <2>3
      <3>3. ASSUME w.again, w.io = "read", ~ w.broken PROVE w.told = ToSet(w.tokens)
        <4>1. c.told = ToSet(c.tokens)
          BY <3>3, <2>3, <1>3 DEF Subscribed
        <4>2. QED BY <4>1, <2>2, <2>3
      <3>4. QED BY <3>1, <3>2, <3>3 DEF Subscribed
    <2>5. QED BY <1>1, <1>2, <1>6, <2>3, <2>4, WorkerStep DEF w, c
  <1>7. CASE workers' = [workers EXCEPT ![at] = [c EXCEPT !.broken = TRUE]]
    <2> DEFINE w == [c EXCEPT !.broken = TRUE]
    <2>1. TRUE \in BOOLEAN
      OBVIOUS
    <2>2. /\ w \in Worker /\ w.io = c.io /\ w.tokens = c.tokens /\ w.cons = c.cons
          /\ w.broken = TRUE /\ w.todo = c.todo /\ w.told = c.told
      BY <2>1, <1>3, FlagField
    <2> HIDE DEF w
    <2>3. Subscribed(w)
      BY <2>2, <1>3 DEF Subscribed
    <2>4. QED BY <1>1, <1>2, <1>7, <2>2, <2>3, WorkerStep DEF w, c
  <1>8. CASE UNCHANGED workers
    <2>1. workers' = [workers EXCEPT ![at] = c]
      BY <1>8, <1>2, Types DEF WorkersInv, c
    <2>2. QED BY <1>1, <1>2, <1>3, <2>1, WorkerStep DEF c
  <1> QED BY <1>4, <1>6, <1>7, <1>8

\* The steps of the controller that leave the workers alone.
LEMMA SameWorkers ==
    ASSUME IInv, workers' = workers
    PROVE  WorkersInv' /\ Len(workers') = Len(workers) /\ Len(workers) \in Nat
  <1>1. WorkersInv /\ Len(workers) \in Nat
    BY WorkersTyped, Types
  <1> QED BY <1>1 DEF WorkersInv, Subscribed

LEMMA InitialSentKeeps ==
    ASSUME IInv, InitialSent
    PROVE  IInv'
  <1>1. /\ ctl = "subscribe" /\ sent' = 0 /\ Loop("subscribe", "idle")
        /\ running' = (at = Len(workers)) /\ workers' = workers
        /\ UNCHANGED <<desired_tokens, workers, built, overtaken>>
    BY DEF InitialSent
  <1>2. ctl \in Loops
    BY <1>1 DEF Loops
  <1>3. /\ at \in 1 .. Len(workers) /\ at' \in 1 .. Len(workers) /\ at' \in Ids
        /\ Len(workers) \in Nat /\ at \in DOMAIN workers
        /\ \/ at = Len(workers) /\ ctl' = "idle" /\ at' = 1
           \/ at < Len(workers) /\ ctl' = "subscribe" /\ at' = at + 1
    BY <1>1, <1>2, LoopStep
  <1>4. WorkersInv' /\ Len(workers') = Len(workers)
    BY <1>1, SameWorkers
  <1>5. TypeOK'
    <2>1. ctl' \in Loops \cup {"idle"} /\ running' \in BOOLEAN
      BY <1>1, <1>3 DEF Loops
    <2>2. QED BY <1>1, <1>3, <1>4, <2>1, Types, TypeFrom
  <1>6. CtlInv'
    BY <1>3, <1>4 DEF CtlInv
  <1>7. SocketInv'
    BY <1>3 DEF SocketInv
  <1>8. ConsumerInv'
    <2>1. \A j \in 1 .. Len(workers') : workers'[j].cons
      BY <1>1, Types DEF ConsumerInv
    <2>2. ctl' \in {"idle", "subscribe"}
      BY <1>3
    <2>3. QED BY <2>1, <2>2 DEF ConsumerInv
  <1> QED BY <1>4, <1>5, <1>6, <1>7, <1>8 DEF IInv

LEMMA StopSocketIdleKeeps ==
    ASSUME IInv, StopSocketIdle
    PROVE  IInv'
  <1>1. /\ ctl = "stopws" /\ Loop("stopws", "stopcons") /\ workers' = workers
        /\ overtaken' = overtaken \cup {at} /\ UNCHANGED <<desired_tokens, running, sent, built>>
    BY DEF StopSocketIdle
  <1>2. ctl \in Loops
    BY <1>1 DEF Loops
  <1>3. /\ at \in 1 .. Len(workers) /\ at' \in 1 .. Len(workers) /\ at' \in Ids
        /\ Len(workers) \in Nat /\ at \in DOMAIN workers
        /\ \/ at = Len(workers) /\ ctl' = "stopcons" /\ at' = 1
           \/ at < Len(workers) /\ ctl' = "stopws" /\ at' = at + 1
    BY <1>1, <1>2, LoopStep
  <1>4. WorkersInv' /\ Len(workers') = Len(workers)
    BY <1>1, SameWorkers
  <1>5. TypeOK'
    <2>1. ctl' \in Loops /\ overtaken' \subseteq Ids
      BY <1>1, <1>3, Types DEF Loops
    <2>2. QED BY <1>1, <1>3, <1>4, <2>1, Types, TypeFrom
  <1>6. CtlInv'
    BY <1>3, <1>4 DEF CtlInv
  <1>7. SocketInv'
    <2>1. \A j \in 1 .. Len(workers') :
             (j < at => j \in overtaken \/ workers[j].io = "none")
      BY <1>1, Types DEF SocketInv
    <2>2. \A j \in 1 .. Len(workers') : ctl' = "stopcons" \/ j < at' => j < at \/ j = at
      BY <1>3, <1>4
    <2>3. ctl' \in {"stopcons", "stopws"}
      BY <1>3
    <2>4. QED BY <1>1, <2>1, <2>2, <2>3 DEF SocketInv
  <1>8. ConsumerInv'
    <2>1. \A j \in 1 .. Len(workers') : workers'[j].cons
      <3>1. ConsumerInv
        BY Types
      <3>2. \A j \in 1 .. Len(workers) : workers[j].cons
        BY <1>1, <3>1 DEF ConsumerInv
      <3>3. QED BY <1>1, <3>2
    <2>2. ctl' \in {"stopcons", "stopws"} /\ (ctl' = "stopcons" => at' = 1)
      BY <1>3
    <2>3. \A j \in 1 .. Len(workers') : ~ j < 1
      BY <1>3, <1>4
    <2>4. QED BY <2>1, <2>2, <2>3 DEF ConsumerInv
  <1> QED BY <1>4, <1>5, <1>6, <1>7, <1>8 DEF IInv

LEMMA StopSocketKeeps ==
    ASSUME IInv, StopSocket
    PROVE  IInv'
  <1> DEFINE c == workers[at]
             w == [c EXCEPT !.live = FALSE]
  <1>1. /\ ctl = "stopws" /\ ctl' = "join"
        /\ UNCHANGED <<desired_tokens, running, at, sent, built, overtaken>>
        /\ workers' = [workers EXCEPT ![at] = w]
    BY DEF StopSocket, Conn!Stopped
  <1>2. ctl \in Loops /\ ctl' \in Loops
    BY <1>1 DEF Loops
  <1>3. at \in 1 .. Len(workers) /\ Len(workers) \in Nat /\ at \in DOMAIN workers
    <2>1. at \in 1 .. Len(workers)
      BY <1>2, Types DEF CtlInv
    <2>2. DOMAIN workers = 1 .. Len(workers) /\ Len(workers) \in Nat
      BY WorkersTyped, Types
    <2>3. QED BY <2>1, <2>2
  <1>4. c \in Worker /\ Subscribed(c) /\ FALSE \in BOOLEAN
    BY <1>3, ItsWorker
  <1> HIDE DEF c
  <1>5. /\ w \in Worker /\ w.io = c.io /\ w.tokens = c.tokens /\ w.cons = c.cons
        /\ w.again = c.again /\ w.broken = c.broken /\ w.todo = c.todo /\ w.told = c.told
    BY <1>4, FlagField
  <1> HIDE DEF w
  <1>6. Subscribed(w)
    BY <1>4, <1>5 DEF Subscribed
  <1>7. /\ WorkersInv' /\ Len(workers') = Len(workers)
        /\ \A j \in 1 .. Len(workers) : workers'[j] = IF j = at THEN w ELSE workers[j]
    BY <1>1, <1>3, <1>5, <1>6, Types, OneChanged
  <1>8. \A j \in 1 .. Len(workers') : /\ workers'[j].cons = workers[j].cons
                                      /\ workers'[j].io = workers[j].io
    BY <1>5, <1>7 DEF c
  <1>9. TypeOK'
    BY <1>1, <1>2, <1>7, Types, TypeFrom
  <1>10. CtlInv'
    BY <1>1, <1>3, <1>7 DEF CtlInv
  <1>11. SocketInv' /\ ConsumerInv'
    <2>1. SocketInv /\ ConsumerInv
      BY Types
    <2>2. SocketInv'
      BY <1>1, <1>7, <1>8, <2>1 DEF SocketInv
    <2>3. \A j \in 1 .. Len(workers') : workers'[j].cons
      BY <1>1, <1>7, <1>8, <2>1 DEF ConsumerInv
    <2>4. QED BY <1>1, <2>2, <2>3 DEF ConsumerInv
  <1> QED BY <1>7, <1>9, <1>10, <1>11 DEF IInv

LEMMA StopJoinKeeps ==
    ASSUME IInv, StopJoin
    PROVE  IInv'
  <1> DEFINE c == workers[at]
  <1>1. /\ ctl = "join" /\ Loop("stopws", "stopcons")
        /\ UNCHANGED <<desired_tokens, running, sent, built, overtaken>>
    BY DEF StopJoin
  <1>2. PICK w \in Conn!Joined(c) : workers' = [workers EXCEPT ![at] = w]
    BY DEF StopJoin
  <1>3. ctl \in Loops
    BY <1>1 DEF Loops
  <1>4. /\ at \in 1 .. Len(workers) /\ at' \in 1 .. Len(workers) /\ at' \in Ids
        /\ Len(workers) \in Nat /\ at \in DOMAIN workers
        /\ \/ at = Len(workers) /\ ctl' = "stopcons" /\ at' = 1
           \/ at < Len(workers) /\ ctl' = "stopws" /\ at' = at + 1
    BY <1>1, <1>3, LoopStep
  <1>5. c \in Worker /\ Subscribed(c)
    BY <1>4, ItsWorker
  <1>6. w \in Worker /\ Same(c, w) /\ w.io = "none"
    BY <1>2, <1>5, DownSteps
  <1>7. Subscribed(w) /\ w.cons = c.cons
    BY <1>5, <1>6 DEF Subscribed, Same
  <1>8. /\ WorkersInv' /\ Len(workers') = Len(workers)
        /\ \A j \in 1 .. Len(workers) : workers'[j] = IF j = at THEN w ELSE workers[j]
    BY <1>2, <1>4, <1>6, <1>7, Types, OneChanged
  <1>9. ctl' \in {"stopcons", "stopws"} /\ (ctl' = "stopcons" => at' = 1)
    BY <1>4
  <1>10. TypeOK'
    <2>1. ctl' \in Loops
      BY <1>9 DEF Loops
    <2>2. QED BY <1>1, <1>4, <1>8, <2>1, Types, TypeFrom
  <1>11. CtlInv'
    BY <1>4, <1>8 DEF CtlInv
  <1>12. SocketInv'
    <2>1. SocketInv
      BY Types
    <2>2. \A j \in 1 .. Len(workers') : j < at => j \in overtaken \/ workers'[j].io = "none"
      BY <1>1, <1>4, <1>8, <2>1 DEF SocketInv
    <2>3. \A j \in 1 .. Len(workers') : j = at => workers'[j].io = "none"
      BY <1>6, <1>8
    <2>4. \A j \in 1 .. Len(workers') : ctl' = "stopcons" \/ j < at' => j < at \/ j = at
      BY <1>4, <1>8
    <2>5. QED BY <1>1, <1>9, <2>2, <2>3, <2>4 DEF SocketInv
  <1>13. ConsumerInv'
    <2>1. \A j \in 1 .. Len(workers) : workers[j].cons
      <3>1. ConsumerInv
        BY Types
      <3>2. QED BY <1>1, <3>1 DEF ConsumerInv
    <2>2. \A j \in 1 .. Len(workers') : workers'[j].cons
      BY <1>4, <1>7, <1>8, <2>1
    <2>3. \A j \in 1 .. Len(workers') : ~ j < 1
      BY <1>4, <1>8
    <2>4. QED BY <1>9, <2>2, <2>3 DEF ConsumerInv
  <1> QED BY <1>8, <1>10, <1>11, <1>12, <1>13 DEF IInv

LEMMA StopConsumerKeeps ==
    ASSUME IInv, StopConsumer
    PROVE  IInv'
  <1> DEFINE c == workers[at]
             w == [c EXCEPT !.cons = FALSE]
  <1>1. /\ ctl = "stopcons" /\ Loop("stopcons", "clear")
        /\ workers' = [workers EXCEPT ![at] = w]
        /\ UNCHANGED <<desired_tokens, running, sent, built, overtaken>>
    <2>1. workers' = [workers EXCEPT ![at].cons = FALSE]
      BY DEF StopConsumer
    <2>2. QED BY <2>1 DEF StopConsumer
  <1>2. ctl \in Loops
    BY <1>1 DEF Loops
  <1>3. /\ at \in 1 .. Len(workers) /\ at' \in 1 .. Len(workers) /\ at' \in Ids
        /\ Len(workers) \in Nat /\ at \in DOMAIN workers
        /\ \/ at = Len(workers) /\ ctl' = "clear" /\ at' = 1
           \/ at < Len(workers) /\ ctl' = "stopcons" /\ at' = at + 1
    BY <1>1, <1>2, LoopStep
  <1>4. c \in Worker /\ Subscribed(c) /\ FALSE \in BOOLEAN
    BY <1>3, ItsWorker
  <1> HIDE DEF c
  <1>5. /\ w \in Worker /\ w.io = c.io /\ w.tokens = c.tokens /\ w.again = c.again
        /\ w.broken = c.broken /\ w.todo = c.todo /\ w.told = c.told /\ w.cons = FALSE
    BY <1>4, FlagField
  <1> HIDE DEF w
  <1>6. Subscribed(w)
    BY <1>4, <1>5 DEF Subscribed
  <1>7. /\ WorkersInv' /\ Len(workers') = Len(workers)
        /\ \A j \in 1 .. Len(workers) : workers'[j] = IF j = at THEN w ELSE workers[j]
    BY <1>1, <1>3, <1>5, <1>6, Types, OneChanged
  <1>8. TypeOK'
    <2>1. ctl' \in Loops \cup {"clear"}
      BY <1>3 DEF Loops
    <2>2. QED BY <1>1, <1>3, <1>7, <2>1, Types, TypeFrom
  <1>9. CtlInv'
    BY <1>3, <1>7 DEF CtlInv, Loops
  <1>10. SocketInv'
    <2>1. SocketInv
      BY Types
    <2>2. \A j \in 1 .. Len(workers) : j \in overtaken \/ workers[j].io = "none"
      BY <1>1, <2>1 DEF SocketInv
    <2>3. \A j \in 1 .. Len(workers') : j \in overtaken \/ workers'[j].io = "none"
      BY <1>5, <1>7, <2>2 DEF c
    <2>4. ctl' \in {"clear", "stopcons"}
      BY <1>3
    <2>5. QED BY <1>1, <2>3, <2>4 DEF SocketInv
  <1>11. ConsumerInv'
    <2>1. ConsumerInv
      BY Types
    <2>2. \A j \in 1 .. Len(workers) : j < at => ~ workers[j].cons
      BY <1>1, <2>1 DEF ConsumerInv
    <2>3. \A j \in 1 .. Len(workers') : j < at \/ j = at => ~ workers'[j].cons
      BY <1>3, <1>5, <1>7, <2>2
    <2>4. \A j \in 1 .. Len(workers') : ctl' = "clear" \/ j < at' => j < at \/ j = at
      BY <1>3, <1>7
    <2>5. ctl' \in {"clear", "stopcons"}
      BY <1>3
    <2>6. QED BY <2>3, <2>4, <2>5 DEF ConsumerInv
  <1> QED BY <1>7, <1>8, <1>9, <1>10, <1>11 DEF IInv

LEMMA StopEndsKeep ==
    ASSUME IInv, StopClear \/ StopDestroysInUse
    PROVE  IInv'
  <1>1. /\ ctl = "clear" /\ workers' = <<>> /\ ctl' \in {"idle", "undefined"}
        /\ UNCHANGED <<desired_tokens, at, sent, built>> /\ running' \in BOOLEAN
        /\ overtaken' \subseteq Ids
    BY Types DEF StopClear, StopDestroysInUse
  <1>2. workers' \in Seq(Worker) /\ Len(workers') = 0
    BY <1>1, EmptySeq
  <1>3. \A j : ~ j \in 1 .. Len(workers')
    BY <1>2
  <1>4. WorkersInv'
    BY <1>2, <1>3, SharderAssumption DEF WorkersInv
  <1>5. TypeOK'
    BY <1>1, <1>4, Types, TypeFrom
  <1>6. CtlInv'
    <2>1. CASE StopClear
      <3>1. ctl' = "idle" /\ ~ running'
        BY <2>1 DEF StopClear
      <3>2. QED BY <3>1 DEF CtlInv, Loops
    <2>2. CASE StopDestroysInUse
      <3>1. PICK i \in DOMAIN workers : workers[i].io \notin {"none", "ended"}
        BY <2>2 DEF StopDestroysInUse
      <3>2. DOMAIN workers = 1 .. Len(workers)
        BY WorkersTyped, Types
      <3>3. SocketInv
        BY Types
      <3>4. i \in overtaken
        BY <1>1, <3>1, <3>2, <3>3 DEF SocketInv
      <3>5. ctl' = "undefined" /\ overtaken' = overtaken
        BY <2>2 DEF StopDestroysInUse
      <3>6. QED BY <1>2, <3>4, <3>5 DEF CtlInv, Loops
    <2>3. QED BY <2>1, <2>2
  <1>7. SocketInv' /\ ConsumerInv'
    BY <1>3 DEF SocketInv, ConsumerInv
  <1> QED BY <1>4, <1>5, <1>6, <1>7 DEF IInv

-----------------------------------------------------------------------------
LEMMA InitIInv == Init => IInv
  <1> SUFFICES ASSUME Init PROVE IInv
    OBVIOUS
  <1>1. workers \in Seq(Worker) /\ Len(workers) = 0
    BY EmptySeq DEF Init
  <1>2. WorkersInv
    BY <1>1, SharderAssumption DEF WorkersInv
  <1>3. TypeOK
    <2>1. DOMAIN workers \subseteq Ids /\ \A i \in DOMAIN workers : workers[i] \in Worker
      BY <1>2, WorkersTyped
    <2>2. at \in Ids /\ sent \in Nat
      BY SharderAssumption DEF Init, Ids
    <2>3. QED BY <2>1, <2>2 DEF Init, TypeOK
  <1>4. CtlInv
    BY DEF Init, CtlInv, Loops
  <1>5. SocketInv /\ ConsumerInv
    BY <1>1 DEF SocketInv, ConsumerInv
  <1> QED BY <1>2, <1>3, <1>4, <1>5 DEF IInv

LEMMA StepIInv == IInv /\ [Next]_vars => IInv'
  <1> SUFFICES ASSUME IInv, [Next]_vars PROVE IInv'
    OBVIOUS
  <1>1. CASE SetTokens \/ StopBegin
    BY <1>1, NoWorkerKeeps
  <1>2. CASE Start
    BY <1>2, StartBuildKeeps, StartConsumerKeeps, StartSocketKeeps, InitialSendKeeps,
       InitialSentKeeps DEF Start
  <1>3. CASE Stop
    BY <1>1, <1>3, StopSocketIdleKeeps, StopSocketKeeps, StopJoinKeeps, StopConsumerKeeps,
       StopEndsKeep DEF Stop
  <1>4. ASSUME NEW i \in Ids, Io(i) \/ OnMessage(i) \/ Consume(i)
        PROVE  IInv'
    BY <1>4, DownKeeps, AttemptOkKeeps, ResubscribeSendKeeps, ResubscribedKeeps, FramesKeep
       DEF Io
  <1>5. CASE UNCHANGED vars
    <2>1. UNCHANGED <<desired_tokens, workers, running, ctl, at, sent, built, overtaken>>
      BY <1>5 DEF vars
    <2>2. WorkersInv'
      BY <2>1, SameWorkers
    <2>3. ctl \in Loops \cup {"idle", "clear", "undefined"}
      BY DEF IInv, TypeOK, Loops
    <2>4. TypeOK'
      BY <2>1, <2>2, <2>3, Types, TypeFrom
    <2>5. CtlInv' /\ SocketInv' /\ ConsumerInv'
      BY <2>1, Types DEF CtlInv, SocketInv, ConsumerInv
    <2>6. QED BY <2>2, <2>4, <2>5 DEF IInv
  <1> QED BY <1>1, <1>2, <1>3, <1>4, <1>5 DEF Next

-----------------------------------------------------------------------------
\* Start and stop, interleaved with the IO threads and the consumers of all
\* workers, keep the inductive invariant (sharder.cpp:187-230).
THEOREM Invariance == Spec => []IInv
  <1>1. Init => IInv
    BY InitIInv
  <1>2. IInv /\ [Next]_vars => IInv'
    BY StepIInv
  <1> QED BY <1>1, <1>2, PTL DEF Spec

\* The variables have their types; no list of tokens needs more workers than
\* MaxWorkers (build_workers_locked, sharder.cpp:70-134).
THEOREM TypeCorrect == Spec => []TypeOK
  <1>1. IInv => TypeOK
    BY DEF IInv
  <1> QED BY <1>1, Invariance, PTL

\* A connection that reconnect_loop brought up and that can be read was told
\* of every token of its worker: on_resubscribe's batches leave none out,
\* whatever the batch size (sharder.cpp:122-130).
THEOREM Resubscription == Spec => []ReconnectedIsSubscribed
  <1>1. IInv => ReconnectedIsSubscribed
    <2> SUFFICES ASSUME IInv, NEW i \in DOMAIN workers,
                        workers[i].again, workers[i].io = "read", ~ workers[i].broken
                 PROVE  workers[i].told = ToSet(workers[i].tokens)
      BY DEF ReconnectedIsSubscribed
    <2>1. Subscribed(workers[i])
      BY ItsWorker
    <2> QED BY <2>1 DEF Subscribed
  <1> QED BY <1>1, Invariance, PTL

\* Consumers start before any socket and stop after all of them, so a socket's
\* frames always have a taker (sharder.cpp:194-206, 218-225).
THEOREM ConsumersBehindSockets == Spec => []SocketsHaveConsumers
  <1>1. IInv => SocketsHaveConsumers
    <2> SUFFICES ASSUME IInv, NEW i \in DOMAIN workers \ overtaken,
                        workers[i].io \notin {"none", "ended"}
                 PROVE  workers[i].cons
      BY DEF SocketsHaveConsumers
    <2>1. DOMAIN workers = 1 .. Len(workers) /\ SocketInv /\ ConsumerInv /\ CtlInv
      BY WorkersTyped, Types
    <2>2. i \in 1 .. Len(workers) /\ Len(workers) \in Nat
      BY <2>1, WorkersTyped, Types
    <2>3. ctl \notin {"consumers", "stopcons", "clear"}
      BY <2>1, <2>2 DEF SocketInv
    <2>4. ctl # "undefined"
      BY <2>1, <2>2 DEF CtlInv
    <2>5. ctl \in {"idle", "sockets", "subscribe", "stopws", "join"}
      BY <2>3, <2>4 DEF IInv, TypeOK
    <2> QED BY <2>1, <2>2, <2>5 DEF ConsumerInv
  <1> QED BY <1>1, Invariance, PTL

\* When stop() destroys the workers their consumers have stopped and their IO
\* threads are joined, but those it overtook; without one of these nothing is
\* destroyed in use (sharder.cpp:214-229).
THEOREM CleanEnd == Spec => []NoOrphans
  <1>1. IInv => NoOrphans
    <2> SUFFICES ASSUME IInv PROVE NoOrphans
      OBVIOUS
    <2>1. DOMAIN workers = 1 .. Len(workers) /\ SocketInv /\ ConsumerInv /\ CtlInv
      BY WorkersTyped, Types
    <2>2. ctl = "clear" => \A i \in DOMAIN workers : ~ workers[i].cons
      BY <2>1 DEF ConsumerInv
    <2>3. ctl = "clear" => \A i \in DOMAIN workers \ overtaken : workers[i].io = "none"
      BY <2>1 DEF SocketInv
    <2>4. ctl = "undefined" => overtaken # {}
      BY <2>1 DEF CtlInv
    <2> QED BY <2>2, <2>3, <2>4 DEF NoOrphans
  <1> QED BY <1>1, Invariance, PTL

-----------------------------------------------------------------------------
(* How the workers share out the tokens *)

\* The lists of the workers built from a list.
Shares(list) == LET sl == Slices(list, Limit(MaxPerConn, 800))
                IN  IF sl = <<>> THEN << <<>> >> ELSE sl

\* The workers have the shares of the tokens they were built from.
SharesInv ==
    DOMAIN workers # {} => /\ DOMAIN workers = 1 .. Len(Shares(built))
                           /\ \A i \in DOMAIN workers : workers[i].tokens = Shares(built)[i]

\* What every step but StartBuild leaves of it.
TokensKept ==
    \/ DOMAIN workers' = {}
    \/ /\ built' = built /\ DOMAIN workers' = DOMAIN workers
       /\ \A i \in DOMAIN workers : workers'[i].tokens = workers[i].tokens

LEMMA OneKept ==
    ASSUME NEW i \in DOMAIN workers, NEW w, w.tokens = workers[i].tokens,
           workers' = [workers EXCEPT ![i] = w], built' = built
    PROVE  TokensKept
  BY DEF TokensKept

LEMMA BecomesKept ==
    ASSUME NEW i, NEW ws, Becomes(i, ws), \A w \in ws : w.tokens = workers[i].tokens
    PROVE  TokensKept
  <1>1. i \in DOMAIN workers /\ built' = built
    BY DEF Becomes
  <1>2. PICK w \in ws : workers' = [workers EXCEPT ![i] = w]
    BY DEF Becomes
  <1> QED BY <1>1, <1>2, OneKept

\* The steps of the workers' own threads.
LEMMA WorkersKeepTokens ==
    ASSUME IInv, NEW i \in Ids, Io(i) \/ OnMessage(i) \/ Consume(i)
    PROVE  TokensKept
  <1> DEFINE c == workers[i]
  <1>1. i \in DOMAIN workers
    BY DEF Io, OnMessage, Consume, IoBegin, AttemptFails, Retry, AttemptOk, ResubscribeSend,
           Resubscribed, ConnectionLost, PeerCloses, Becomes
  <1>2. c \in Worker
    BY <1>1, ItsWorker
  <1>3. {"none", "begin", "attempt", "sleep", "resubscribe", "read", "ended"} = Conn!Places
    BY DEF Conn!Places
  <1> HIDE DEF c
  <1>4. \A w \in Conn!Begun(c) \cup Conn!AttemptFailed(c) \cup Conn!Retried(c)
                 \cup Conn!Lost(c) \cup Conn!PeerClosed(c) : w.tokens = c.tokens
    BY <1>2, DownSteps DEF Same
  <1>5. CASE IoBegin(i) \/ AttemptFails(i) \/ Retry(i) \/ ConnectionLost(i) \/ PeerCloses(i)
    BY <1>4, <1>5, BecomesKept
       DEF IoBegin, AttemptFails, Retry, ConnectionLost, PeerCloses, c
  <1>6. CASE AttemptOk(i)
    <2>1. ASSUME NEW d \in Conn!Connected(c) PROVE Renewed(d).tokens = c.tokens
      <3>1. PICK to \in {"resubscribe", "read"} : d \in Conn!Moved(c, "attempt", to)
        BY <2>1 DEF Conn!Connected
      <3>2. d \in Worker /\ d.tokens = c.tokens
        BY <1>2, <1>3, <3>1, MovedIs DEF Same
      <3>3. QED BY <3>2 DEF Renewed, Worker
    <2> DEFINE ws == {Renewed(d) : d \in Conn!Connected(c)}
    <2>2. \A w \in ws : w.tokens = c.tokens
      BY <2>1
    <2>3. Becomes(i, ws)
      BY <1>6 DEF AttemptOk, c
    <2> HIDE DEF ws
    <2>4. QED BY <2>2, <2>3, BecomesKept DEF c
  <1>7. CASE ResubscribeSend(i)
    <2> DEFINE w0 == [c EXCEPT !.todo = @ + 1]
               ws == {[w0 EXCEPT !.broken = TRUE]}
                     \cup (IF w0.broken THEN {} ELSE {[w0 EXCEPT !.told = Told(w0, w0.todo)]})
    <2>1. Becomes(i, ws)
      BY <1>7 DEF ResubscribeSend, c
    <2>2. \A x : LET d == [c EXCEPT !.todo = x] IN
                 \A y : [d EXCEPT !.broken = y].tokens = c.tokens
                        /\ [d EXCEPT !.told = y].tokens = c.tokens
      BY <1>2 DEF Worker
    <2>3. \A w \in ws : w.tokens = c.tokens
      <3>1. \A y : /\ [w0 EXCEPT !.broken = y].tokens = c.tokens
                   /\ [w0 EXCEPT !.told = y].tokens = c.tokens
        BY <2>2, Zenon
      <3> HIDE DEF w0
      <3>2. QED BY <3>1
    <2> HIDE DEF ws
    <2>4. QED BY <2>1, <2>3, BecomesKept DEF c
  <1>8. CASE Resubscribed(i)
    <2>1. \A w \in Conn!Resubscribed(c) : w.tokens = c.tokens
      BY <1>2, <1>3, MovedIs DEF Same, Conn!Resubscribed
    <2>2. QED BY <1>8, <2>1, BecomesKept DEF Resubscribed, c
  <1>9. CASE OnMessage(i) \/ Consume(i)
    <2>1. \A x : [c EXCEPT !.queued = x].tokens = c.tokens
      BY <1>2 DEF Worker
    <2>2. PICK x : Becomes(i, {[c EXCEPT !.queued = x]})
      BY <1>9 DEF OnMessage, Consume, c
    <2> DEFINE ws == {[c EXCEPT !.queued = x]}
    <2>3. Becomes(i, ws) /\ \A w \in ws : w.tokens = c.tokens
      BY <2>1, <2>2
    <2> HIDE DEF ws
    <2>4. QED BY <2>3, BecomesKept DEF c
  <1> QED BY <1>5, <1>6, <1>7, <1>8, <1>9 DEF Io

\* The steps of start and stop after the workers are built.
LEMMA ControllerKeepsTokens ==
    ASSUME IInv, SetTokens \/ Start \/ Stop, ~ StartBuild
    PROVE  TokensKept
  <1> DEFINE c == workers[at]
  <1>1. CASE SetTokens \/ InitialSent \/ StopBegin \/ StopSocketIdle
    BY <1>1 DEF SetTokens, InitialSent, StopBegin, StopSocketIdle, TokensKept
  <1>2. CASE StopClear \/ StopDestroysInUse
    BY <1>2 DEF StopClear, StopDestroysInUse, TokensKept
  <1>3. CASE StartConsumer \/ StartSocket \/ InitialSend \/ StopSocket \/ StopJoin \/ StopConsumer
    <2>1. at \in DOMAIN workers /\ c \in Worker /\ built' = built
      <3>1. ctl \in Loops /\ built' = built
        BY <1>3 DEF StartConsumer, StartSocket, InitialSend, StopSocket, StopJoin,
                    StopConsumer, Loops
      <3>2. at \in DOMAIN workers
        BY <3>1, Types, WorkersTyped DEF CtlInv
      <3>3. QED BY <3>1, <3>2, ItsWorker
    <2>2. \A x : /\ [c EXCEPT !.cons = x].tokens = c.tokens
                 /\ [c EXCEPT !.told = x].tokens = c.tokens
                 /\ [c EXCEPT !.broken = x].tokens = c.tokens
                 /\ [c EXCEPT !.live = x].tokens = c.tokens
      BY <2>1 DEF Worker
    <2>3. \/ \E x : \/ workers' = [workers EXCEPT ![at] = [c EXCEPT !.cons = x]]
                    \/ workers' = [workers EXCEPT ![at] = [c EXCEPT !.told = x]]
                    \/ workers' = [workers EXCEPT ![at] = [c EXCEPT !.broken = x]]
                    \/ workers' = [workers EXCEPT ![at] = [c EXCEPT !.live = x]]
          \/ \E w \in Conn!Spawned(c) \cup Conn!Joined(c) : workers' = [workers EXCEPT ![at] = w]
          \/ workers' = workers
      <3>1. CASE StartConsumer \/ StopConsumer
        BY <3>1 DEF StartConsumer, StopConsumer
      <3>2. CASE StartSocket \/ StopJoin
        BY <3>2 DEF StartSocket, StopJoin
      <3>3. CASE InitialSend
        BY <3>3 DEF InitialSend
      <3>4. CASE StopSocket
        BY <3>4 DEF StopSocket, Conn!Stopped
      <3>5. QED BY <1>3, <3>1, <3>2, <3>3, <3>4
    <2> HIDE DEF c
    <2>4. \A w \in Conn!Spawned(c) \cup Conn!Joined(c) : w.tokens = c.tokens
      <3>1. "begin" \in Conn!Places /\ "none" \in Conn!Places
        BY DEF Conn!Places
      <3>2. QED BY <2>1, <3>1, MovedIs DEF Same, Conn!Spawned, Conn!Joined
    <2>5. (\E w : w.tokens = c.tokens /\ workers' = [workers EXCEPT ![at] = w]) \/ workers' = workers
      BY <2>2, <2>3, <2>4
    <2>6. QED BY <2>1, <2>5, OneKept DEF TokensKept, c
  <1> QED BY <1>1, <1>2, <1>3 DEF Start, Stop

LEMMA NewWorkersShare ==
    /\ DOMAIN NewWorkers = 1 .. Len(Shares(desired_tokens))
    /\ \A i \in DOMAIN NewWorkers : NewWorkers[i].tokens = Shares(desired_tokens)[i]
  <1> DEFINE sl == Slices(desired_tokens, Limit(MaxPerConn, 800))
  <1>1. \A tokens : NewWorker(tokens).tokens = tokens
    BY DEF NewWorker
  <1>2. CASE sl = <<>>
    <2>1. NewWorkers = <<NewWorker(<<>>)>> /\ Shares(desired_tokens) = << <<>> >>
      BY <1>2 DEF NewWorkers, Shares
    <2>2. QED BY <2>1, <1>1
  <1>3. CASE sl # <<>>
    <2>1. NewWorkers = [i \in 1 .. Len(sl) |-> NewWorker(sl[i])] /\ Shares(desired_tokens) = sl
      BY <1>3 DEF NewWorkers, Shares
    <2> HIDE DEF sl
    <2>2. QED BY <2>1, <1>1
  <1> QED BY <1>2, <1>3

LEMMA SharesKept ==
    ASSUME IInv, SharesInv, [Next]_vars
    PROVE  SharesInv'
  <1>1. CASE StartBuild
    <2>1. workers' = NewWorkers /\ built' = desired_tokens
      BY <1>1 DEF StartBuild
    <2>2. Shares(built)' = Shares(desired_tokens)
      BY <2>1 DEF Shares, Slices, SliceCount, SliceEnd
    <2>3. QED BY <2>1, <2>2, NewWorkersShare DEF SharesInv
  <1>2. CASE TokensKept
    <2>1. built' = built => Shares(built)' = Shares(built)
      BY DEF Shares, Slices, SliceCount, SliceEnd
    <2>2. QED BY <1>2, <2>1 DEF TokensKept, SharesInv
  <1>3. CASE UNCHANGED vars
    BY <1>2, <1>3 DEF TokensKept, vars
  <1> QED BY <1>1, <1>2, <1>3, WorkersKeepTokens, ControllerKeepsTokens DEF Next

\* The workers always have the shares they were built with.
THEOREM SharesInvariance == Spec => []SharesInv
  <1>1. Init => SharesInv
    BY DEF Init, SharesInv
  <1>2. IInv /\ SharesInv /\ [Next]_vars => SharesInv'
    BY SharesKept
  <1> QED BY <1>1, <1>2, Invariance, PTL DEF Spec

\* The workers' lists, put together, are the list that start() found, and none
\* is longer than the limit, for any list and any limit (sharder.cpp:50-62,
\* 70-134).
THEOREM TokensCovered == Spec => []WorkersCoverTokens
  <1>1. IInv /\ SharesInv => WorkersCoverTokens
    <2> SUFFICES ASSUME IInv, SharesInv, workers # <<>> PROVE WorkersCoverTokens
      BY DEF WorkersCoverTokens
    <2> DEFINE n == Limit(MaxPerConn, 800)
               sl == Slices(built, n)
    <2>1. n \in Nat \ {0}
      BY LimitPositive, SharderAssumption
    <2>2. built \in Seq(Listed) /\ Len(built) \in Nat
      <3>1. built \in Seq(Listed)
        BY Types, SharderAssumption, EmptySeq
      <3>2. QED BY <3>1, LenProperties
    <2>3. DOMAIN workers # {} /\ DOMAIN workers = 1 .. Len(workers) /\ Len(workers) \in Nat
      <3>1. workers \in Seq(Worker)
        BY Types DEF WorkersInv
      <3>2. Len(workers) \in Nat \ {0} /\ DOMAIN workers = 1 .. Len(workers)
        BY <3>1, EmptySeq, LenProperties
      <3>3. 1 \in DOMAIN workers
        BY <3>2
      <3>4. QED BY <3>2, <3>3
    <2> HIDE DEF n
    <2>4. /\ sl \in Seq(Seq(Listed)) /\ Len(sl) = SliceCount(built, n)
          /\ \A k \in 1 .. SliceCount(built, n) : Len(sl[k]) <= n
      BY <2>1, <2>2, SlicesCover
    <2>5. SliceCount(built, n) \in Nat /\ (SliceCount(built, n) = 0 <=> Len(built) = 0)
      BY <2>1, <2>2, SliceCountBounds
    <2>6. SliceCount(built, n) # 0 => FlattenSeq(sl) = built
      BY <2>1, <2>2, FlattenSlices
    <2> HIDE DEF sl
    <2>7. Shares(built) = IF sl = <<>> THEN << <<>> >> ELSE sl
      BY DEF Shares, sl, n
    <2> DEFINE lists == [i \in DOMAIN workers |-> workers[i].tokens]
    <2>8. lists = [i \in 1 .. Len(Shares(built)) |-> Shares(built)[i]]
      BY <2>3 DEF SharesInv
    <2>9. CASE sl = <<>>
      <3>1. Len(built) = 0
        BY <2>4, <2>5, <2>9
      <3>2. built = <<>>
        BY <2>2, <3>1, EmptySeq
      <3>3. lists = << <<>> >>
        BY <2>7, <2>8, <2>9
      <3>4. FlattenSeq(lists) = <<>>
        <4> DEFINE Pass(g) == [i \in 1 .. 1 |-> IF i = 1 THEN <<>> ELSE g[i - 1] \o <<>>]
                   flatten == CHOOSE g : g = Pass(g)
        <4>1. \E g : g = Pass(g)
          <5>1. [i \in 1 .. 1 |-> <<>>] = Pass([i \in 1 .. 1 |-> <<>>])
            OBVIOUS
          <5> HIDE DEF Pass
          <5>2. QED BY <5>1
        <4>2. flatten = Pass(flatten)
          <5> HIDE DEF Pass
          <5>1. QED BY <4>1, Zenon
        <4>3. Pass(flatten)[1] = <<>>
          OBVIOUS
        <4>4. FlattenSeq(<< <<>> >>) = flatten[1]
          BY DEF FlattenSeq
        <4> HIDE DEF flatten, Pass
        <4>5. QED BY <3>3, <4>2, <4>3, <4>4
      <3>5. \A i \in DOMAIN workers : Len(workers[i].tokens) = 0
        BY <2>3, <2>7, <2>9, EmptySeq DEF SharesInv
      <3>6. \A i \in DOMAIN workers : Len(workers[i].tokens) <= n
        BY <2>1, <3>5
      <3>7. QED BY <3>2, <3>4, <3>6 DEF WorkersCoverTokens, n
    <2>10. CASE sl # <<>>
      <3>1. Len(sl) # 0 /\ Len(sl) = SliceCount(built, n)
        BY <2>4, <2>10, EmptySeq
      <3>2. lists = sl
        BY <2>4, <2>7, <2>8, <2>10, LenProperties
      <3>3. \A i \in DOMAIN workers : Len(workers[i].tokens) <= n
        BY <2>3, <2>4, <2>7, <2>10, <3>1 DEF SharesInv
      <3>4. QED BY <2>6, <3>1, <3>2, <3>3 DEF WorkersCoverTokens, n
    <2>11. QED BY <2>9, <2>10
  <1> QED BY <1>1, Invariance, SharesInvariance, PTL

\* A token listed once is subscribed on one connection, so that no tick arrives
\* twice: whatever the batches, the reconnections and the order of start and
\* stop, no two workers' servers have been told of the same token.
OneConnectionPerToken ==
    (\A i, j \in DOMAIN built : i # j => built[i] # built[j]) =>
        \A i, j \in DOMAIN workers : i # j => workers[i].told \cap workers[j].told = {}

\* Each worker subscribes to tokens of its own slice only, on its first
\* connection and on every later one (sharder.cpp:50-62, 101-113, 142).
THEOREM TokensNotShared == Spec => []OneConnectionPerToken
  <1>1. IInv /\ SharesInv => OneConnectionPerToken
    <2> SUFFICES ASSUME IInv, SharesInv,
                        \A i, j \in DOMAIN built : i # j => built[i] # built[j],
                        NEW i \in DOMAIN workers, NEW j \in DOMAIN workers, i # j
                 PROVE  workers[i].told \cap workers[j].told = {}
      BY DEF OneConnectionPerToken
    <2> DEFINE n == Limit(MaxPerConn, 800)
               sl == Slices(built, n)
    <2>1. n \in Nat \ {0} /\ built \in Seq(Listed)
      <3>1. n \in Nat \ {0}
        BY LimitPositive, SharderAssumption
      <3>2. built \in Seq(Listed)
        BY Types, SharderAssumption, EmptySeq
      <3>3. QED BY <3>1, <3>2
    <2> HIDE DEF n
    <2>2. Len(sl) = SliceCount(built, n)
      BY <2>1, SlicesCover
    <2>3. ASSUME NEW k \in 1 .. SliceCount(built, n), NEW l \in 1 .. SliceCount(built, n), k # l
          PROVE  ToSet(sl[k]) \cap ToSet(sl[l]) = {}
      <3>1. \A x, y \in DOMAIN built : x # y => built[x] # built[y]
        OBVIOUS
      <3>2. \A m \in 1 .. SliceCount(built, n) \ {l} : ToSet(sl[m]) \cap ToSet(sl[l]) = {}
        BY <2>1, <3>1, SlicesPartition
      <3>3. QED BY <2>3, <3>2
    <2>4. /\ workers[i].told \subseteq ToSet(workers[i].tokens)
          /\ workers[j].told \subseteq ToSet(workers[j].tokens)
      BY ItsWorker DEF Subscribed
    <2> HIDE DEF sl
    <2>5. Shares(built) = IF sl = <<>> THEN << <<>> >> ELSE sl
      BY DEF Shares, sl, n
    <2>6. sl # <<>>
      <3>1. SUFFICES ASSUME sl = <<>> PROVE FALSE
        OBVIOUS
      <3>2. DOMAIN workers = {1}
        BY <2>5, <3>1 DEF SharesInv
      <3>3. QED BY <3>2
    <2>7. /\ i \in 1 .. Len(sl) /\ workers[i].tokens = sl[i]
          /\ j \in 1 .. Len(sl) /\ workers[j].tokens = sl[j]
      BY <2>5, <2>6 DEF SharesInv
    <2>8. ToSet(sl[i]) \cap ToSet(sl[j]) = {}
      BY <2>2, <2>3, <2>7
    <2>9. QED BY <2>4, <2>7, <2>8
  <1> QED BY <1>1, Invariance, SharesInvariance, PTL

-----------------------------------------------------------------------------
(* The subscription manager *)

\* The difference being cut names no token twice.
NeedDistinct == \A i, j \in DOMAIN need : i # j => need[i] # need[j]

\* While the builder sends there is something to send.
OutPending == bpc = "send" => out # <<>>

ManagerIInv == ManagerTypeOK /\ NeedDistinct /\ OutPending /\ ActiveFollowsServer

\* A difference, listed in any order.
LEMMA ListedDifference ==
    ASSUME NEW diff \in SUBSET Tokens, NEW list \in SetToSeqs(diff)
    PROVE  /\ list \in Seq(Tokens)
           /\ \A i, j \in DOMAIN list : i # j => list[i] # list[j]
  <1>1. IsFiniteSet(diff)
    BY SubscriptionAssumption, FS_Subset
  <1> DEFINE n == Cardinality(diff)
  <1>2. n \in Nat
    BY <1>1, FS_CardinalityType
  <1>3. list \in [1 .. n -> diff] /\ \A i, j \in 1 .. n : i # j => list[i] # list[j]
    BY DEF SetToSeqs
  <1> HIDE DEF n
  <1>4. list \in Seq(diff)
    BY <1>2, <1>3
  <1>5. DOMAIN list = 1 .. n
    BY <1>3
  <1> QED BY <1>3, <1>4, <1>5, SeqMonotonic

\* The payloads of a difference: one for each slice.
LEMMA PayloadsAre ==
    ASSUME ManagerTypeOK, MakeBatches
    PROVE  LET n == Limit(batchSize, 100) IN
           /\ n = batchSize /\ n \in Nat \ {0} /\ SliceCount(need, n) \in Nat
           /\ out' \in Seq(Payload) /\ DOMAIN out' = 1 .. SliceCount(need, n)
           /\ \A k \in 1 .. SliceCount(need, n) : out'[k].tokens = ToSet(Slices(need, n)[k])
  <1> DEFINE n == Limit(batchSize, 100)
             N == SliceCount(need, n)
             b == Slices(need, n)
             payload(k) == [action |-> action, tokens |-> ToSet(b[k])]
  <1>1. n = batchSize /\ n \in Nat \ {0} /\ need \in Seq(Tokens)
    BY DEF ManagerTypeOK, Limit
  <1> HIDE DEF n
  <1>2. Len(need) \in Nat /\ \A i \in DOMAIN need : need[i] \in Tokens
    BY <1>1, LenProperties, ElementOfSeq
  <1>3. /\ b \in Seq(Seq(Tokens)) /\ Len(b) = N
        /\ \A k \in 1 .. N : ToSet(b[k]) \subseteq ToSet(need)
    BY <1>1, SlicesCover
  <1>4. N \in Nat /\ DOMAIN b = 1 .. N
    BY <1>1, <1>2, <1>3, SliceCountBounds, LenProperties
  <1>5. ToSet(need) \subseteq Tokens
    BY <1>2 DEF ToSet
  <1> HIDE DEF N, b
  <1>6. out' = [k \in 1 .. N |-> payload(k)]
    BY <1>4 DEF MakeBatches, b, n
  <1>7. \A k \in 1 .. N : payload(k) \in Payload /\ payload(k).tokens = ToSet(b[k])
    BY <1>3, <1>5 DEF ManagerTypeOK, Payload
  <1> HIDE DEF payload
  <1>8. out' \in Seq(Payload) /\ DOMAIN out' = 1 .. N
    BY <1>4, <1>6, <1>7, IsASeq
  <1>9. \A k \in 1 .. N : out'[k].tokens = ToSet(b[k])
    BY <1>6, <1>7
  <1> QED BY <1>1, <1>4, <1>8, <1>9 DEF N, b, n

\* Cutting a difference into payloads shares it out.
LEMMA BatchesPartition ==
    ASSUME ManagerTypeOK, NeedDistinct, MakeBatches
    PROVE  /\ UNION {out'[k].tokens : k \in DOMAIN out'} = ToSet(need)
           /\ \A k \in DOMAIN out' :
                 /\ Cardinality(out'[k].tokens) \in 1 .. batchSize
                 /\ \A j \in DOMAIN out' \ {k} : out'[j].tokens \cap out'[k].tokens = {}
  <1> DEFINE n == Limit(batchSize, 100)
             N == SliceCount(need, n)
             b == Slices(need, n)
  <1>1. n \in Nat \ {0} /\ need \in Seq(Tokens)
    BY PayloadsAre DEF ManagerTypeOK
  <1>2. /\ n = batchSize
        /\ DOMAIN out' = 1 .. N /\ \A k \in 1 .. N : out'[k].tokens = ToSet(b[k])
    BY PayloadsAre
  <1> HIDE DEF n
  <1>3. /\ \A k \in 1 .. N : ToSet(b[k]) \subseteq ToSet(need)
        /\ \A x \in ToSet(need) : \E k \in 1 .. N : x \in ToSet(b[k])
    BY <1>1, SlicesCover
  <1>4. \A i, j \in DOMAIN need : i # j => need[i] # need[j]
    BY DEF NeedDistinct
  <1>5. ASSUME NEW k \in 1 .. N
        PROVE  /\ Cardinality(ToSet(b[k])) \in 1 .. n
               /\ \A j \in 1 .. N \ {k} : ToSet(b[j]) \cap ToSet(b[k]) = {}
    BY <1>1, <1>4, SlicesPartition
  <1> HIDE DEF N, b
  <1>6. UNION {out'[k].tokens : k \in DOMAIN out'} = ToSet(need)
    BY <1>2, <1>3
  <1>7. \A k \in DOMAIN out' :
           /\ Cardinality(out'[k].tokens) \in 1 .. batchSize
           /\ \A j \in DOMAIN out' \ {k} : out'[j].tokens \cap out'[k].tokens = {}
    BY <1>2, <1>5
  <1> QED BY <1>6, <1>7

\* Taking the first payload under way, and putting one behind the others.
LEMMA HeadOfPayloads ==
    ASSUME NEW q \in Seq(Payload), q # <<>>
    PROVE  /\ Head(q) \in Payload /\ Head(q).tokens \subseteq Tokens /\ Tail(q) \in Seq(Payload)
           /\ Head(q) = q[1] /\ Len(Tail(q)) = Len(q) - 1
           /\ \A k \in 1 .. Len(q) - 1 : Tail(q)[k] = q[k + 1]
  <1>1. /\ Head(q) \in Payload /\ Tail(q) \in Seq(Payload) /\ Len(Tail(q)) = Len(q) - 1
        /\ \A k \in 1 .. Len(Tail(q)) : Tail(q)[k] = q[k + 1]
    BY HeadTailProperties
  <1>2. Head(q).tokens \subseteq Tokens
    BY <1>1 DEF Payload
  <1>3. Head(q) = q[1]
    OBVIOUS
  <1> QED BY <1>1, <1>2, <1>3

LEMMA AppliedTyped ==
    ASSUME NEW p \in Payload, NEW ts \in SUBSET Tokens
    PROVE  Apply(p, ts) \in SUBSET Tokens
  BY DEF Payload, Apply

\* The application's steps and the builder's keep the types.
LEMMA BuilderTyped ==
    ASSUME ManagerTypeOK, OutPending,
           Add \/ Erase \/ Clear \/ SetBatchSize \/ BuildSubscribe \/ BuildUnsubscribe
           \/ MakeBatches \/ Send
    PROVE  ManagerTypeOK'
  <1>1. CASE Add \/ Erase \/ Clear
    <2>1. PICK new \in SUBSET Tokens : Change(new)
      BY <1>1 DEF Add, Erase, Clear, ManagerTypeOK
    <2>2. changes + 1 \in 0 .. MaxChanges
      BY <2>1, SubscriptionAssumption DEF Change, ManagerTypeOK
    <2>3. QED BY <2>1, <2>2 DEF Change, ManagerTypeOK, builder, wire, Payload
  <1>2. CASE SetBatchSize
    <2>1. batchSize' \in Nat \ {0}
      BY <1>2, SubscriptionAssumption DEF SetBatchSize, Limit
    <2>2. QED BY <1>2, <2>1 DEF SetBatchSize, ManagerTypeOK, builder, wire, Payload
  <1>3. CASE BuildSubscribe \/ BuildUnsubscribe
    <2>1. PICK a \in {"subscribe", "unsubscribe"}, diff \in SUBSET Tokens :
             BuildBegin(a, diff)
      BY <1>3 DEF BuildSubscribe, BuildUnsubscribe, Missing, Unwanted, ManagerTypeOK
    <2>2. need' \in Seq(Tokens)
      BY <2>1, ListedDifference DEF BuildBegin
    <2>3. QED BY <2>1, <2>2 DEF BuildBegin, ManagerTypeOK, wire, Payload
  <1>4. CASE MakeBatches
    <2>1. out' \in Seq(Payload) /\ <<>> \in Seq(Tokens)
      BY <1>4, PayloadsAre, EmptySeq
    <2>2. bpc' \in {"idle", "send"} /\ need' = <<>>
      BY <1>4 DEF MakeBatches
    <2>3. UNCHANGED <<desired, active, batchSize, action, wire, changes>>
      BY <1>4 DEF MakeBatches
    <2>4. QED BY <2>1, <2>2, <2>3 DEF ManagerTypeOK, wire, Payload
  <1>5. CASE Send
    <2>1. Head(out) \in Payload /\ Tail(out) \in Seq(Payload)
      BY <1>5, HeadOfPayloads DEF Send, OutPending, ManagerTypeOK
    <2>2. net' \in Seq(Payload)
      BY <1>5, <2>1, AppendProperties DEF Send, ManagerTypeOK
    <2>3. QED BY <1>5, <2>1, <2>2 DEF Send, ManagerTypeOK, Payload
  <1> QED BY <1>1, <1>2, <1>3, <1>4, <1>5

\* The difference stays without repetitions, and what is sent next is there.
LEMMA BuilderKeeps ==
    ASSUME ManagerTypeOK, NeedDistinct, OutPending, [ManagerNext]_managerVars
    PROVE  NeedDistinct' /\ OutPending'
  <1>1. CASE BuildSubscribe \/ BuildUnsubscribe
    <2>1. PICK a \in {"subscribe", "unsubscribe"}, diff \in SUBSET Tokens :
             BuildBegin(a, diff)
      BY <1>1 DEF BuildSubscribe, BuildUnsubscribe, Missing, Unwanted, ManagerTypeOK
    <2>2. NeedDistinct'
      BY <2>1, ListedDifference DEF BuildBegin, NeedDistinct
    <2>3. QED BY <2>1, <2>2 DEF BuildBegin, OutPending
  <1>2. CASE MakeBatches
    BY <1>2 DEF MakeBatches, NeedDistinct, OutPending
  <1>3. CASE Send
    BY <1>3 DEF Send, NeedDistinct, OutPending
  <1>4. CASE UNCHANGED builder
    BY <1>4 DEF builder, NeedDistinct, OutPending
  <1>5. CASE Add \/ Erase \/ Clear \/ SetBatchSize \/ ServerApplies \/ Mark
    BY <1>4, <1>5 DEF Add, Erase, Clear, Change, SetBatchSize, ServerApplies, Mark, builder
  <1> QED BY <1>1, <1>2, <1>3, <1>4, <1>5 DEF ManagerNext, managerVars

\* The server takes a payload: its answer decides the tokens it names.
LEMMA ServerAppliesKeeps ==
    ASSUME ManagerTypeOK, ActiveFollowsServer, ServerApplies
    PROVE  ManagerTypeOK' /\ ActiveFollowsServer'
  <1> DEFINE p == Head(net)
             n == Len(acks)
  <1>1. /\ p \in Payload /\ Tail(net) \in Seq(Payload)
        /\ server' = Apply(p, server) /\ acks' = Append(acks, p) /\ net' = Tail(net)
        /\ UNCHANGED <<desired, active, batchSize, builder, changes>>
    BY HeadOfPayloads DEF ServerApplies, ManagerTypeOK
  <1>2. acks \in Seq(Payload) /\ n \in Nat /\ DOMAIN acks = 1 .. n
    BY LenProperties DEF ManagerTypeOK
  <1> HIDE DEF p
  <1>3. /\ acks' \in Seq(Payload) /\ Len(acks') = n + 1 /\ DOMAIN acks' = 1 .. n + 1
        /\ acks'[n + 1] = p /\ \A k \in 1 .. n : acks'[k] = acks[k]
    BY <1>1, <1>2, AppendProperties, LenProperties
  <1>4. ManagerTypeOK'
    <2>1. server' \in SUBSET Tokens
      BY <1>1, AppliedTyped DEF ManagerTypeOK
    <2>2. QED BY <1>1, <1>3, <2>1 DEF ManagerTypeOK, builder, Payload
  <1>5. ASSUME NEW t \in Tokens
        PROVE  LET named == {k \in DOMAIN acks' : t \in acks'[k].tokens}
               IN  /\ named = {} => (t \in server' <=> t \in active')
                   /\ \A k \in named : (\A j \in named : j <= k) =>
                                        (t \in server' <=> acks'[k].action = "subscribe")
    <2> DEFINE old == {k \in DOMAIN acks : t \in acks[k].tokens}
               new == {k \in DOMAIN acks' : t \in acks'[k].tokens}
    <2>1. /\ old = {} => (t \in server <=> t \in active)
          /\ \A k \in old : (\A j \in old : j <= k) =>
                             (t \in server <=> acks[k].action = "subscribe")
      BY DEF ActiveFollowsServer
    <2>2. CASE t \in p.tokens
      <3>1. t \in server' <=> p.action = "subscribe"
        BY <1>1, <2>2 DEF Apply
      <3>2. n + 1 \in new
        BY <1>2, <1>3, <2>2
      <3>3. ASSUME NEW k \in new, \A j \in new : j <= k PROVE k = n + 1
        <4>1. k \in 1 .. n + 1 /\ n + 1 <= k
          BY <1>3, <3>2, <3>3
        <4>2. QED BY <1>2, <4>1
      <3> HIDE DEF new
      <3>4. QED BY <1>3, <3>1, <3>2, <3>3 DEF new
    <2>3. CASE t \notin p.tokens
      <3>1. t \in server' <=> t \in server
        BY <1>1, <2>3 DEF Apply
      <3>2. new = old
        <4>1. \A k \in 1 .. n + 1 : k \in 1 .. n \/ k = n + 1
          BY <1>2
        <4>2. 1 .. n \subseteq 1 .. n + 1
          BY <1>2
        <4>3. QED BY <1>2, <1>3, <2>3, <4>1, <4>2
      <3>3. \A k \in old : acks'[k] = acks[k]
        BY <1>2, <1>3
      <3>4. active' = active
        BY <1>1
      <3> HIDE DEF old, new
      <3>5. QED BY <2>1, <3>1, <3>2, <3>3, <3>4 DEF new
    <2>4. QED BY <2>2, <2>3
  <1> QED BY <1>4, <1>5 DEF ActiveFollowsServer

\* The mark of an answer: the answers behind it still decide.
LEMMA MarkKeeps ==
    ASSUME ManagerTypeOK, ActiveFollowsServer, Mark
    PROVE  ManagerTypeOK' /\ ActiveFollowsServer'
  <1> DEFINE p == Head(acks)
             n == Len(acks)
  <1>1. /\ active' = Apply(p, active) /\ acks' = Tail(acks) /\ acks # <<>>
        /\ UNCHANGED <<desired, batchSize, builder, net, server, changes>>
    BY DEF Mark
  <1>2. acks \in Seq(Payload) /\ n \in Nat \ {0} /\ DOMAIN acks = 1 .. n
    BY <1>1, LenProperties, EmptySeq DEF ManagerTypeOK
  <1>3. /\ p \in Payload /\ p = acks[1]
        /\ acks' \in Seq(Payload) /\ DOMAIN acks' = 1 .. n - 1
        /\ \A k \in 1 .. n - 1 : acks'[k] = acks[k + 1]
    BY <1>1, <1>2, HeadOfPayloads, LenProperties
  <1> HIDE DEF p
  <1>4. ManagerTypeOK'
    <2>1. active' \in SUBSET Tokens
      BY <1>1, <1>3, AppliedTyped DEF ManagerTypeOK
    <2>2. QED BY <1>1, <1>3, <2>1 DEF ManagerTypeOK, builder, Payload
  <1>5. ASSUME NEW t \in Tokens
        PROVE  LET named == {k \in DOMAIN acks' : t \in acks'[k].tokens}
               IN  /\ named = {} => (t \in server' <=> t \in active')
                   /\ \A k \in named : (\A j \in named : j <= k) =>
                                        (t \in server' <=> acks'[k].action = "subscribe")
    <2> DEFINE old == {k \in DOMAIN acks : t \in acks[k].tokens}
               new == {k \in DOMAIN acks' : t \in acks'[k].tokens}
    <2>1. /\ old = {} => (t \in server <=> t \in active)
          /\ \A k \in old : (\A j \in old : j <= k) =>
                             (t \in server <=> acks[k].action = "subscribe")
      BY DEF ActiveFollowsServer
    <2>2. /\ \A k \in new : k \in Nat /\ k + 1 \in old /\ acks'[k] = acks[k + 1]
          /\ \A k \in old : k = 1 \/ k - 1 \in new
          /\ \A k \in old : k \in Nat
      <3>1. ASSUME NEW k \in new PROVE k \in Nat /\ k + 1 \in old /\ acks'[k] = acks[k + 1]
        <4>1. k \in 1 .. n - 1 /\ k + 1 \in 1 .. n
          BY <1>2, <1>3
        <4>2. QED BY <1>2, <1>3, <4>1
      <3>2. ASSUME NEW k \in old, k # 1 PROVE k - 1 \in new
        <4>1. k - 1 \in 1 .. n - 1 /\ (k - 1) + 1 = k /\ k \in DOMAIN acks
          BY <1>2, <3>2
        <4>2. acks'[k - 1] = acks[k]
          BY <1>3, <4>1
        <4>3. QED BY <1>3, <3>2, <4>1, <4>2
      <3>3. \A k \in old : k \in Nat
        BY <1>2
      <3>4. QED BY <3>1, <3>2, <3>3
    <2>3. 1 \in old <=> t \in p.tokens
      BY <1>2, <1>3
    <2>4. server' = server
      BY <1>1
    <2> HIDE DEF old
    <2>5. ASSUME new = {} PROVE t \in server' <=> t \in active'
      <3> HIDE DEF new
      <3>1. \A k \in old : k = 1
        BY <2>2, <2>5
      <3>2. CASE t \in p.tokens
        <4>1. 1 \in old /\ \A j \in old : j <= 1
          BY <2>3, <3>1, <3>2
        <4>2. t \in server <=> p.action = "subscribe"
          BY <1>3, <2>1, <4>1
        <4>3. t \in active' <=> p.action = "subscribe"
          BY <1>1, <3>2 DEF Apply
        <4>4. QED BY <2>4, <4>2, <4>3
      <3>3. CASE t \notin p.tokens
        <4>1. old = {}
          BY <2>3, <3>1, <3>3
        <4>2. t \in active' <=> t \in active
          BY <1>1, <3>3 DEF Apply
        <4>3. QED BY <2>1, <2>4, <4>1, <4>2
      <3>4. QED BY <3>2, <3>3
    <2>6. ASSUME NEW k \in new, \A j \in new : j <= k
          PROVE  t \in server' <=> acks'[k].action = "subscribe"
      <3> HIDE DEF new
      <3>1. k \in Nat /\ k + 1 \in old /\ acks'[k] = acks[k + 1]
        BY <2>2, <2>6
      <3>2. ASSUME NEW j \in old PROVE j <= k + 1
        <4>1. j \in Nat /\ (j = 1 \/ j - 1 <= k)
          BY <2>2, <2>6, <3>2
        <4>2. QED BY <3>1, <4>1
      <3>3. QED BY <2>1, <2>4, <3>1, <3>2
    <2> HIDE DEF new
    <2>7. QED BY <2>5, <2>6 DEF new
  <1> QED BY <1>4, <1>5 DEF ActiveFollowsServer

LEMMA ManagerStep == ManagerIInv /\ [ManagerNext]_managerVars => ManagerIInv'
  <1> SUFFICES ASSUME ManagerIInv, [ManagerNext]_managerVars PROVE ManagerIInv'
    OBVIOUS
  <1>1. ManagerTypeOK /\ NeedDistinct /\ OutPending /\ ActiveFollowsServer
    BY DEF ManagerIInv
  <1>2. NeedDistinct' /\ OutPending'
    BY <1>1, BuilderKeeps
  <1>3. ASSUME UNCHANGED <<active, server, acks>> PROVE ActiveFollowsServer'
    <2>1. active' = active /\ server' = server /\ acks' = acks
      BY <1>3
    <2>2. QED BY <1>1, <2>1, Zenon DEF ActiveFollowsServer
  <1>4. CASE Add \/ Erase \/ Clear \/ SetBatchSize \/ BuildSubscribe \/ BuildUnsubscribe
             \/ MakeBatches \/ Send
    <2>1. ManagerTypeOK'
      BY <1>1, <1>4, BuilderTyped
    <2>2. UNCHANGED <<active, server, acks>>
      BY <1>4 DEF Add, Erase, Clear, Change, SetBatchSize, BuildSubscribe, BuildUnsubscribe,
                  BuildBegin, MakeBatches, Send, wire
    <2>3. QED BY <1>2, <1>3, <2>1, <2>2 DEF ManagerIInv
  <1>5. CASE ServerApplies \/ Mark
    BY <1>1, <1>2, <1>5, ServerAppliesKeeps, MarkKeeps DEF ManagerIInv
  <1>6. CASE UNCHANGED managerVars
    <2>1. ManagerTypeOK'
      BY <1>1, <1>6 DEF ManagerTypeOK, managerVars, builder, wire, Payload
    <2>2. UNCHANGED <<active, server, acks>>
      BY <1>6 DEF managerVars, wire
    <2>3. QED BY <1>2, <1>3, <2>1, <2>2 DEF ManagerIInv
  <1> QED BY <1>4, <1>5, <1>6 DEF ManagerNext

\* Whatever the application changes while payloads and answers are under way,
\* the inductive invariant of the subscription manager holds
\* (subscription_manager.cpp:20-89, 106-118, 141-155).
THEOREM ManagerInvariance == ManagerSpec => []ManagerIInv
  <1>1. ManagerInit => ManagerIInv
    <2> SUFFICES ASSUME ManagerInit PROVE ManagerIInv
      OBVIOUS
    <2>1. <<>> \in Seq(Tokens) /\ <<>> \in Seq(Payload) /\ DOMAIN <<>> = {}
      BY EmptySeq
    <2>2. ManagerTypeOK
      BY <2>1, SubscriptionAssumption DEF ManagerInit, ManagerTypeOK, Limit
    <2>3. NeedDistinct /\ OutPending /\ ActiveFollowsServer
      BY <2>1 DEF ManagerInit, NeedDistinct, OutPending, ActiveFollowsServer
    <2>4. QED BY <2>2, <2>3 DEF ManagerIInv
  <1> QED BY <1>1, ManagerStep, PTL DEF ManagerSpec

\* The variables have their types: the batch size is never zero
\* (subscription_manager.cpp:17, 47).
THEOREM ManagerTyped == ManagerSpec => []ManagerTypeOK
  <1>1. ManagerIInv => ManagerTypeOK
    BY DEF ManagerIInv
  <1> QED BY <1>1, ManagerInvariance, PTL

\* The marks bring active to where the server is, for any number of tokens,
\* payloads and answers under way (subscription_manager.cpp:81-89).
THEOREM ActiveFollows == ManagerSpec => []ActiveFollowsServer
  <1>1. ManagerIInv => ActiveFollowsServer
    BY DEF ManagerIInv
  <1> QED BY <1>1, ManagerInvariance, PTL

\* Each token of a difference goes into one payload, none is larger than the
\* batch size at the time it is cut, for any difference and any batch size
\* (subscription_manager.cpp:55-79, 141-155).
THEOREM BatchesShareOut == ManagerSpec => BatchesPartitionNeed
  <1>1. ManagerIInv /\ [ManagerNext]_managerVars =>
           [bpc = "batch" /\ bpc' # "batch" =>
              /\ UNION {out'[k].tokens : k \in DOMAIN out'} = ToSet(need)
              /\ \A k \in DOMAIN out' :
                    /\ Cardinality(out'[k].tokens) \in 1 .. batchSize
                    /\ \A j \in DOMAIN out' \ {k} :
                          out'[j].tokens \cap out'[k].tokens = {}]_managerVars
    <2> SUFFICES ASSUME ManagerIInv, ManagerNext, bpc = "batch", bpc' # "batch"
                 PROVE  /\ UNION {out'[k].tokens : k \in DOMAIN out'} = ToSet(need)
                        /\ \A k \in DOMAIN out' :
                              /\ Cardinality(out'[k].tokens) \in 1 .. batchSize
                              /\ \A j \in DOMAIN out' \ {k} :
                                    out'[j].tokens \cap out'[k].tokens = {}
      OBVIOUS
    <2>1. MakeBatches
      BY DEF ManagerNext, Add, Erase, Clear, Change, SetBatchSize, BuildSubscribe,
             BuildUnsubscribe, BuildBegin, Send, ServerApplies, Mark, builder
    <2>2. QED BY <2>1, BatchesPartition DEF ManagerIInv
  <1> QED BY <1>1, ManagerInvariance, PTL DEF ManagerSpec, BatchesPartitionNeed
=============================================================================
