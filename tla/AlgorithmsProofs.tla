-------------------------- MODULE AlgorithmsProofs --------------------------
(***************************************************************************)
(* Proofs about the pure algorithms, for every width, input and unit that  *)
(* the assumptions of Algorithms allow.                                    *)
(*                                                                         *)
(* The loops are recursive functions.  That such a function exists is      *)
(* Iteration, from a step given as a function; what it computes follows by *)
(* the least pass for which it would be false (LeastNatural).              *)
(***************************************************************************)
EXTENDS Algorithms, SequenceTheorems, WellFoundedInduction, TLAPS

\* A nonempty set of natural numbers has a least one.
LEMMA LeastNatural ==
    ASSUME NEW T \in SUBSET Nat, T # {}
    PROVE  \E m \in T : \A k \in T : m <= k
  <1>1. \E m \in T : \A k \in T : ~ (<<k, m>> \in OpToRel(<, Nat))
    <2>1. T \subseteq Nat
      OBVIOUS
    <2>2. QED BY <2>1, WFMin, NatLessThanWellFounded
  <1>2. PICK m \in T : \A k \in T : ~ (<<k, m>> \in OpToRel(<, Nat))
    BY <1>1
  <1>3. ASSUME NEW k \in T PROVE m <= k
    <2>1. k \in Nat /\ m \in Nat
      OBVIOUS
    <2>2. ~ (k < m)
      BY <1>2, <2>1 DEF OpToRel
    <2>3. QED BY <2>1, <2>2
  <1>4. QED BY <1>3

\* What holds of pass 0, and of a pass when it held of the one before, holds of
\* every pass: holds is a set of passes.
LEMMA EveryPass ==
    ASSUME NEW d \in Nat, NEW holds, 0 \in holds,
           \A k \in 1 .. d : k - 1 \in holds => k \in holds
    PROVE  \A k \in 0 .. d : k \in holds
  <1> DEFINE Bad == (0 .. d) \ holds
  <1>1. SUFFICES ASSUME Bad # {} PROVE FALSE
    OBVIOUS
  <1>2. PICK m \in Bad : \A k \in Bad : m <= k
    <2>1. Bad \in SUBSET Nat
      OBVIOUS
    <2> HIDE DEF Bad
    <2>2. QED BY <1>1, <2>1, LeastNatural
  <1>3. m \in 1 .. d
    BY <1>2
  <1>4. m - 1 \in 0 .. d /\ ~ (m <= m - 1)
    BY <1>3
  <1>5. m - 1 \in holds
    BY <1>2, <1>4
  <1>6. QED BY <1>2, <1>3, <1>5

\* A loop of d passes over states of S, with a step for each, has a run.
Steps(d, S) == [1 .. d -> [S -> S]]

IsRun(f, d, S, start, step) ==
    /\ f \in [0 .. d -> S] /\ f[0] = start
    /\ \A k \in 1 .. d : f[k] = step[k][f[k - 1]]

LEMMA Iteration ==
    ASSUME NEW d \in Nat, NEW S, NEW start \in S, NEW step \in Steps(d, S)
    PROVE  \E f : IsRun(f, d, S, start, step)
  <1> DEFINE Run(f, m) == f[0] = start /\ \A k \in 1 .. m : f[k] = step[k][f[k - 1]]
             holds == {m \in 0 .. d : \E f \in [0 .. m -> S] : Run(f, m)}
  <1>1. 0 \in holds
    <2> DEFINE f == [k \in 0 .. 0 |-> start]
    <2>1. f \in [0 .. 0 -> S] /\ Run(f, 0)
      OBVIOUS
    <2>2. \E g \in [0 .. 0 -> S] : Run(g, 0)
      <3> HIDE DEF f, Run
      <3>1. QED BY <2>1
    <2>3. 0 \in 0 .. d
      OBVIOUS
    <2>4. QED BY <2>2, <2>3
  <1>2. ASSUME NEW m \in 1 .. d, m - 1 \in holds PROVE m \in holds
    <2>1. PICK f \in [0 .. m - 1 -> S] : Run(f, m - 1)
      BY <1>2
    <2> DEFINE g == [k \in 0 .. m |-> IF k = m THEN step[m][f[m - 1]] ELSE f[k]]
    <2>2. step[m][f[m - 1]] \in S
      BY DEF Steps
    <2>3. g \in [0 .. m -> S]
      BY <2>2
    <2>4. g[0] = start
      BY <2>1
    <2>5. ASSUME NEW k \in 1 .. m PROVE g[k] = step[k][g[k - 1]]
      <3>1. g[k - 1] = f[k - 1]
        OBVIOUS
      <3>2. CASE k = m
        BY <3>1, <3>2
      <3>3. CASE k # m
        <4>1. k \in 1 .. m - 1
          BY <3>3
        <4>2. g[k] = f[k] /\ f[k] = step[k][f[k - 1]]
          BY <3>3, <4>1, <2>1
        <4>3. QED BY <3>1, <4>2
      <3>4. QED BY <3>2, <3>3
    <2> HIDE DEF g
    <2>6. QED BY <2>3, <2>4, <2>5
  <1>3. d \in holds
    <2> HIDE DEF holds
    <2>1. d \in 0 .. d
      OBVIOUS
    <2>2. QED BY <1>1, <1>2, <2>1, EveryPass
  <1>4. QED BY <1>3 DEF IsRun

-----------------------------------------------------------------------------
(* The size of the queue *)

\* A nonempty set of bit positions below a bound has a lowest and a highest.
LEMMA LowestAndHighest ==
    ASSUME NEW W \in Nat, NEW n \in SUBSET (0 .. W), n # {}
    PROVE  /\ Sizing!Min(n) \in n /\ \A b \in n : Sizing!Min(n) <= b
           /\ \E h \in n : \A b \in n : b <= h
  <1>1. \E m \in n : \A b \in n : m <= b
    <2>1. n \in SUBSET Nat
      OBVIOUS
    <2>2. QED BY <2>1, LeastNatural
  <1>2. Sizing!Min(n) \in n /\ \A b \in n : Sizing!Min(n) <= b
    BY <1>1 DEF Sizing!Min
  <1> DEFINE above == {a \in 0 .. W : W - a \in n}
  <1>3. above \in SUBSET Nat /\ above # {}
    <2>1. PICK b \in n : TRUE
      OBVIOUS
    <2>2. W - b \in 0 .. W /\ W - (W - b) = b
      OBVIOUS
    <2>3. QED BY <2>1, <2>2
  <1>4. PICK m \in above : \A k \in above : m <= k
    <2> HIDE DEF above
    <2>1. QED BY <1>3, LeastNatural
  <1>5. PICK h \in n : m = W - h
    <2>1. W - m \in n /\ m = W - (W - m)
      BY <1>4
    <2>2. QED BY <2>1
  <1>6. ASSUME NEW b \in n PROVE b <= h
    <2>1. W - b \in 0 .. W /\ W - (W - b) = b
      OBVIOUS
    <2>2. m <= W - b
      BY <1>4, <2>1
    <2>3. QED BY <1>5, <2>2
  <1>7. QED BY <1>2, <1>6

\* n - 1 is a word when n is one and not zero; only a power of two has no one in
\* common with it.
LEMMA Decremented ==
    ASSUME NEW n \in Sizing!Words, n # {}
    PROVE  /\ Sizing!Decrement(n) \in Sizing!Words
           /\ Sizing!IsPowerOfTwo(n) <=> \E k \in 0 .. SizeBits - 1 : n = {k}
           /\ ~Sizing!IsPowerOfTwo(n) =>
                 \E h \in 0 .. SizeBits - 1 :
                    /\ h \in n /\ h \in Sizing!Decrement(n)
                    /\ \A b \in n : b <= h
                    /\ \A b \in Sizing!Decrement(n) : b <= h
  <1> DEFINE low == Sizing!Min(n)
             dec == Sizing!Decrement(n)
  <1>1. SizeBits - 1 \in Nat /\ n \in SUBSET (0 .. SizeBits - 1)
    BY WidthAssumption DEF Sizing!Words
  <1>2. low \in n /\ \A b \in n : low <= b
    BY <1>1, LowestAndHighest
  <1>3. PICK h \in n : \A b \in n : b <= h
    BY <1>1, LowestAndHighest
  <1>4. dec = (n \ {low}) \cup 0 .. low - 1
    BY DEF Sizing!Decrement
  <1> HIDE DEF low, dec
  <1>5. low \in 0 .. SizeBits - 1 /\ h \in 0 .. SizeBits - 1
    BY <1>1, <1>2
  <1>6. dec \in Sizing!Words
    BY <1>1, <1>4, <1>5 DEF Sizing!Words
  <1>7. Sizing!IsPowerOfTwo(n) <=> n \cap dec = {}
    BY DEF Sizing!IsPowerOfTwo, dec
  <1>8. n \cap dec = n \ {low}
    BY <1>1, <1>2, <1>4, <1>5
  <1>9. Sizing!IsPowerOfTwo(n) <=> \E k \in 0 .. SizeBits - 1 : n = {k}
    BY <1>2, <1>5, <1>7, <1>8
  <1>10. ASSUME ~Sizing!IsPowerOfTwo(n)
         PROVE  h \in dec /\ \A b \in dec : b <= h
    <2>1. PICK b \in n : b # low
      BY <1>7, <1>8, <1>10
    <2>2. low < b /\ b <= h
      BY <1>1, <1>2, <1>3, <1>5, <2>1
    <2>3. h # low /\ low <= h
      BY <1>1, <1>5, <2>2
    <2>4. QED BY <1>1, <1>3, <1>4, <1>5, <2>3
  <1>11. QED BY <1>3, <1>5, <1>6, <1>9, <1>10 DEF dec

LEMMA ShiftedBits ==
    ASSUME NEW n \in Sizing!Words, NEW i \in Nat, NEW c
    PROVE  c \in Sizing!Shifted(n, i) <=> c \in Nat /\ c + i \in n
  <1>1. n \in SUBSET (0 .. SizeBits - 1) /\ SizeBits \in Nat
    BY WidthAssumption DEF Sizing!Words
  <1>2. ASSUME c \in Sizing!Shifted(n, i) PROVE c \in Nat /\ c + i \in n
    <2>1. PICK b \in {k \in n : k >= i} : c = b - i
      BY <1>2 DEF Sizing!Shifted
    <2>2. QED BY <1>1, <2>1
  <1>3. ASSUME c \in Nat, c + i \in n PROVE c \in Sizing!Shifted(n, i)
    <2>1. c + i >= i /\ c = (c + i) - i
      BY <1>3
    <2>2. QED BY <1>3, <2>1 DEF Sizing!Shifted
  <1>4. QED BY <1>2, <1>3

\* What is true before the loop's condition is tested for the time k + 1: bit c
\* is one when n has a one among the i bits from c upwards.
SmearedBy(n, s, k) ==
    /\ s \in [i : Nat \ {0}, n : Sizing!Words]
    /\ s.i > k \/ s.i >= SizeBits
    /\ \A c : c \in s.n <=> c \in Nat /\ \E b \in n : c <= b /\ b < c + s.i

LEMMA SmearPassKeeps ==
    ASSUME NEW n \in Sizing!Words, NEW k \in Nat, NEW s, SmearedBy(n, s, k)
    PROVE  SmearedBy(n, Sizing!SmearPass(s), k + 1)
  <1> DEFINE i == s.i
             t == [i |-> 2 * s.i, n |-> s.n \cup Sizing!Shifted(s.n, s.i)]
  <1>1. i \in Nat \ {0} /\ s.n \in Sizing!Words /\ SizeBits \in Nat
    BY WidthAssumption DEF SmearedBy
  <1>2. \A b \in n : b \in 0 .. SizeBits - 1
    BY DEF Sizing!Words
  <1>3. CASE ~ (i < SizeBits)
    <2>1. Sizing!SmearPass(s) = s
      BY <1>3 DEF Sizing!SmearPass
    <2>2. s.i >= SizeBits
      BY <1>1, <1>3
    <2>3. QED BY <2>1, <2>2 DEF SmearedBy
  <1>4. CASE i < SizeBits
    <2>1. Sizing!SmearPass(s) = t
      BY <1>4 DEF Sizing!SmearPass
    <2>2. 2 * i \in Nat \ {0} /\ 2 * i > k + 1
      <3>1. i > k
        BY <1>1, <1>4 DEF SmearedBy
      <3>2. QED BY <1>1, <3>1
    <2>3. ASSUME NEW c
          PROVE  c \in t.n <=> c \in Nat /\ \E b \in n : c <= b /\ b < c + 2 * i
      <3>1. c \in t.n <=> c \in s.n \/ (c \in Nat /\ c + i \in s.n)
        BY <1>1, ShiftedBits
      <3>2. c \in s.n <=> c \in Nat /\ \E b \in n : c <= b /\ b < c + i
        BY DEF SmearedBy
      <3>3. c \in Nat => (c + i \in s.n <=> \E b \in n : c + i <= b /\ b < c + i + i)
        <4>1. c + i \in s.n <=> c + i \in Nat /\ \E b \in n : c + i <= b /\ b < c + i + i
          BY DEF SmearedBy
        <4>2. QED BY <1>1, <4>1
      <3> HIDE DEF i, t
      <3>4. ASSUME c \in Nat, NEW b \in n
            PROVE  c <= b /\ b < c + 2 * i
                      <=> (c <= b /\ b < c + i) \/ (c + i <= b /\ b < c + i + i)
        BY <1>1, <1>2, <3>4
      <3>5. QED BY <3>1, <3>2, <3>3, <3>4
    <2>4. t.n \in Sizing!Words
      <3>1. Sizing!Shifted(s.n, s.i) \subseteq 0 .. SizeBits - 1
        <4>1. ASSUME NEW c \in Sizing!Shifted(s.n, s.i) PROVE c \in 0 .. SizeBits - 1
          <5>1. c \in Nat /\ c + i \in s.n
            BY <1>1, ShiftedBits
          <5>2. QED BY <1>1, <5>1 DEF Sizing!Words
        <4>2. QED BY <4>1
      <3>2. QED BY <1>1, <3>1 DEF Sizing!Words
    <2>5. QED BY <2>1, <2>2, <2>3, <2>4 DEF SmearedBy
  <1>5. QED BY <1>3, <1>4

\* The loop sets every bit below the highest one.
LEMMA Smeared ==
    ASSUME NEW n \in Sizing!Words
    PROVE  Sizing!Smear(n) = {c \in 0 .. SizeBits - 1 : \E b \in n : c <= b}
  <1> DEFINE S == [i : Nat \ {0}, n : Sizing!Words]
             start == [i |-> 1, n |-> n]
             step == [k \in 1 .. SizeBits |-> [s \in S |-> Sizing!SmearPass(s)]]
             Pass(g) == [k \in 0 .. SizeBits |-> IF k = 0 THEN start
                                                ELSE Sizing!SmearPass(g[k - 1])]
             after == CHOOSE g : g = Pass(g)
             holds == {k \in 0 .. SizeBits : SmearedBy(n, after[k], k)}
  <1>1. SizeBits \in Nat /\ start \in S
    BY WidthAssumption
  <1>2. ASSUME NEW s \in S PROVE Sizing!SmearPass(s) \in S
    <2>1. s.i \in Nat \ {0} /\ s.n \in Sizing!Words
      OBVIOUS
    <2>2. Sizing!Shifted(s.n, s.i) \subseteq 0 .. SizeBits - 1
      <3>1. ASSUME NEW c \in Sizing!Shifted(s.n, s.i) PROVE c \in 0 .. SizeBits - 1
        <4>1. c \in Nat /\ c + s.i \in s.n
          BY <2>1, ShiftedBits
        <4>2. QED BY <1>1, <2>1, <4>1 DEF Sizing!Words
      <3>2. QED BY <3>1
    <2>3. 2 * s.i \in Nat \ {0} /\ s.n \cup Sizing!Shifted(s.n, s.i) \in Sizing!Words
      BY <2>1, <2>2 DEF Sizing!Words
    <2>4. QED BY <2>3 DEF Sizing!SmearPass
  <1>3. \E g : g = Pass(g)
    <2>1. step \in Steps(SizeBits, S)
      BY <1>2 DEF Steps
    <2>2. PICK f : IsRun(f, SizeBits, S, start, step)
      <3> HIDE DEF S, start, step
      <3>1. QED BY <1>1, <2>1, Iteration
    <2>3. ASSUME NEW k \in 1 .. SizeBits PROVE f[k] = Sizing!SmearPass(f[k - 1])
      <3>1. k - 1 \in 0 .. SizeBits
        BY <1>1
      <3>2. f[k - 1] \in S
        BY <2>2, <3>1 DEF IsRun
      <3>3. f[k] = step[k][f[k - 1]]
        BY <2>2 DEF IsRun
      <3> HIDE DEF S
      <3>4. QED BY <3>2, <3>3
    <2>4. f = Pass(f)
      <3> HIDE DEF S, start
      <3>1. QED BY <1>1, <2>2, <2>3 DEF IsRun
    <2>5. QED BY <2>4
  <1>4. after = Pass(after)
    <2> HIDE DEF Pass
    <2>1. QED BY <1>3, Zenon
  <1> HIDE DEF after
  <1>5. after[0] = start /\ \A k \in 1 .. SizeBits : after[k] = Sizing!SmearPass(after[k - 1])
    <2> HIDE DEF start
    <2>1. ASSUME NEW k \in 0 .. SizeBits
          PROVE  after[k] = IF k = 0 THEN start ELSE Sizing!SmearPass(after[k - 1])
      BY <1>4
    <2>2. 0 \in 0 .. SizeBits
      BY <1>1
    <2>3. ASSUME NEW k \in 1 .. SizeBits PROVE k \in 0 .. SizeBits /\ k # 0
      BY <1>1
    <2> HIDE DEF Pass
    <2>4. QED BY <2>1, <2>2, <2>3
  <1>6. 0 \in holds
    <2>1. ASSUME NEW c PROVE c \in n <=> c \in Nat /\ \E b \in n : c <= b /\ b < c + 1
      <3>1. \A b \in n : b \in 0 .. SizeBits - 1
        BY DEF Sizing!Words
      <3>2. QED BY <1>1, <3>1
    <2>2. SmearedBy(n, start, 0)
      BY <2>1 DEF SmearedBy
    <2>3. QED BY <1>1, <1>5, <2>2
  <1>7. ASSUME NEW k \in 1 .. SizeBits, k - 1 \in holds PROVE k \in holds
    <2>1. k - 1 \in Nat /\ (k - 1) + 1 = k /\ k \in 0 .. SizeBits
      OBVIOUS
    <2>2. SmearedBy(n, after[k - 1], k - 1)
      BY <1>7
    <2>3. SmearedBy(n, Sizing!SmearPass(after[k - 1]), (k - 1) + 1)
      BY <2>1, <2>2, SmearPassKeeps
    <2>4. QED BY <1>5, <2>1, <2>3
  <1>8. SmearedBy(n, after[SizeBits], SizeBits)
    <2> HIDE DEF holds
    <2>1. SizeBits \in holds
      <3>1. SizeBits \in 0 .. SizeBits
        BY <1>1
      <3>2. QED BY <1>1, <1>6, <1>7, <3>1, EveryPass
    <2>2. QED BY <2>1 DEF holds
  <1>9. Sizing!Smear(n) = after[SizeBits].n
    BY DEF Sizing!Smear, after
  <1> DEFINE s == after[SizeBits]
  <1> HIDE DEF s
  <1>10. s.i \in Nat \ {0} /\ s.i >= SizeBits
    BY <1>1, <1>8 DEF SmearedBy, s
  <1>11. ASSUME NEW c
         PROVE  c \in s.n <=> c \in 0 .. SizeBits - 1 /\ \E b \in n : c <= b
    <2>1. c \in s.n <=> c \in Nat /\ \E b \in n : c <= b /\ b < c + s.i
      BY <1>8 DEF SmearedBy, s
    <2>2. \A b \in n : b \in 0 .. SizeBits - 1
      BY DEF Sizing!Words
    <2>3. QED BY <1>1, <1>10, <2>1, <2>2
  <1>12. QED BY <1>9, <1>11 DEF s

\* Comparing with a power of two: a word is at most that power when it is the
\* power or has only lower bits.
LEMMA BelowPower ==
    ASSUME NEW n \in Sizing!Words, NEW k \in 0 .. SizeBits - 1
    PROVE  /\ ~Sizing!Below({k}, n) <=> n = {k} \/ \A b \in n : b < k
           /\ ~Sizing!Below(n, {k}) <=> k \in n \/ \E b \in n : b > k
  <1>1. \A b \in n : b \in Int
    BY WidthAssumption DEF Sizing!Words
  <1>2. k \in Int
    BY WidthAssumption
  <1>3. ~Sizing!Below(n, {k}) <=> k \in n \/ \E b \in n : b > k
    BY <1>1, <1>2 DEF Sizing!Below
  <1>4. ASSUME n = {k} \/ \A b \in n : b < k PROVE ~Sizing!Below({k}, n)
    BY <1>1, <1>2, <1>4 DEF Sizing!Below
  <1>5. ASSUME ~Sizing!Below({k}, n), NEW b \in n, ~(b < k) PROVE n = {k}
    <2>1. \A j \in n : j = k \/ (k > j /\ k \notin n)
      BY <1>5 DEF Sizing!Below
    <2>2. b = k
      BY <1>1, <1>2, <1>5, <2>1
    <2>3. QED BY <2>1, <2>2, <1>5
  <1>6. QED BY <1>3, <1>4, <1>5

\* Adding one to a word whose ones are the lowest bits up to h.
LEMMA Carried ==
    ASSUME NEW h \in 0 .. SizeBits - 2
    PROVE  Sizing!Increment(0 .. h) = {h + 1}
  <1> DEFINE zeros == (0 .. SizeBits) \ 0 .. h
  <1>1. SizeBits \in Nat /\ h + 1 \in 0 .. SizeBits - 1
    BY WidthAssumption
  <1>2. zeros \in SUBSET (0 .. SizeBits) /\ h + 1 \in zeros /\ \A b \in zeros : b >= h + 1
    BY <1>1
  <1>3. Sizing!Min(zeros) = h + 1
    <2> HIDE DEF zeros
    <2>1. zeros # {}
      BY <1>2
    <2> DEFINE low == Sizing!Min(zeros)
    <2>2. low \in zeros /\ \A b \in zeros : low <= b
      BY <1>1, <1>2, <2>1, LowestAndHighest
    <2> HIDE DEF low
    <2>3. low <= h + 1 /\ low >= h + 1 /\ low \in Int
      BY <1>1, <1>2, <2>2
    <2>4. low = h + 1
      BY <1>1, <2>3
    <2>5. QED BY <2>4 DEF low
  <1>4. Sizing!Increment(0 .. h) = ({b \in 0 .. h : b > h + 1} \cup {h + 1}) \ {SizeBits}
    BY <1>3 DEF Sizing!Increment
  <1>5. QED BY <1>1, <1>4

\* next_pow2 gives the least power of two that holds the request, for every
\* request a size_t of any width can make: the -- and the smearing of
\* ingest_queue.cpp:10-11 reach every bit below the highest and no other.
LEMMA NextIsLeast ==
    ASSUME NEW n \in Sizing!Words
    PROVE  Sizing!IsLeastPower(n, Sizing!NextPow2(n))
  <1> DEFINE slots == Sizing!NextPow2(n)
  <1>1. SizeBits \in Nat /\ 3 \in 0 .. SizeBits - 1 /\ \A b \in n : b \in 0 .. SizeBits - 1
    BY WidthAssumption DEF Sizing!Words
  <1>2. \A k \in 0 .. SizeBits - 1 : {k} \in Sizing!Words
    BY DEF Sizing!Words
  <1>3. ASSUME NEW k \in 0 .. SizeBits - 1, NEW j \in 0 .. SizeBits - 1
        PROVE  ~Sizing!Below({k}, {j}) <=> k >= j
    <2>1. ~Sizing!Below({k}, {j}) <=> {j} = {k} \/ \A b \in {j} : b < k
      BY <1>2, BelowPower
    <2>2. {j} = {k} \/ (\A b \in {j} : b < k) <=> k >= j
      BY <1>1
    <2>3. QED BY <2>1, <2>2
  <1>4. SUFFICES ASSUME NEW room \in 0 .. SizeBits - 1, ~Sizing!Below({room}, n)
                 PROVE  \E j \in 0 .. SizeBits - 1 :
                           /\ slots = {j} /\ j >= 3 /\ ~Sizing!Below({j}, n)
                           /\ \A k \in 0 .. SizeBits - 1 :
                                 k >= 3 /\ ~Sizing!Below({k}, n) => k >= j
    <2> HIDE DEF slots
    <2>1. ASSUME \E p \in Sizing!Powers : ~Sizing!Below(p, n)
          PROVE  /\ slots \in Sizing!Powers /\ Sizing!Holds(slots, n)
                 /\ \A p \in Sizing!Powers : Sizing!Holds(p, n) => ~Sizing!Below(p, slots)
      <3>1. PICK room \in 0 .. SizeBits - 1 : ~Sizing!Below({room}, n)
        BY <2>1 DEF Sizing!Powers
      <3>2. PICK j \in 0 .. SizeBits - 1 :
                /\ slots = {j} /\ j >= 3 /\ ~Sizing!Below({j}, n)
                /\ \A k \in 0 .. SizeBits - 1 :
                      k >= 3 /\ ~Sizing!Below({k}, n) => k >= j
        BY <3>1, <1>4
      <3>3. slots \in Sizing!Powers
        BY <3>2 DEF Sizing!Powers
      <3>4. Sizing!Holds(slots, n)
        BY <1>1, <1>3, <3>2 DEF Sizing!Holds, Sizing!Eight
      <3>5. ASSUME NEW k \in 0 .. SizeBits - 1, Sizing!Holds({k}, n)
            PROVE  ~Sizing!Below({k}, slots)
        <4>1. k >= 3 /\ ~Sizing!Below({k}, n)
          BY <1>1, <1>3, <3>5 DEF Sizing!Holds, Sizing!Eight
        <4>2. QED BY <1>3, <3>2, <4>1
      <3>6. QED BY <3>3, <3>4, <3>5 DEF Sizing!Powers
    <2>2. QED BY <2>1 DEF Sizing!IsLeastPower, slots
  <1>5. CASE Sizing!Below(n, Sizing!Eight)
    <2>1. slots = {3}
      BY <1>5 DEF Sizing!NextPow2, Sizing!Eight
    <2>2. ~ (3 \in n \/ \E b \in n : b > 3)
      BY <1>1, <1>5, BelowPower DEF Sizing!Eight
    <2>3. \A b \in n : b < 3
      BY <1>1, <2>2
    <2>4. ~Sizing!Below({3}, n)
      BY <1>1, <2>3, BelowPower
    <2> HIDE DEF slots
    <2>5. 3 >= 3 /\ \A k \in 0 .. SizeBits - 1 : k >= 3 /\ ~Sizing!Below({k}, n) => k >= 3
      OBVIOUS
    <2>6. QED BY <1>1, <2>1, <2>4, <2>5
  <1>6. CASE ~Sizing!Below(n, Sizing!Eight)
    <2>1. PICK low \in n : low >= 3
      <3>1. ~Sizing!Below(n, {3}) <=> 3 \in n \/ \E b \in n : b > 3
        <4>1. \A k \in 0 .. SizeBits - 1 :
                 ~Sizing!Below(n, {k}) <=> k \in n \/ \E b \in n : b > k
          BY BelowPower
        <4>2. QED BY <1>1, <4>1
      <3>2. 3 \in n \/ \E b \in n : b > 3
        BY <1>6, <3>1 DEF Sizing!Eight
      <3>3. QED BY <1>1, <3>2
    <2>2. n # {}
      BY <2>1
    <2>3. CASE Sizing!IsPowerOfTwo(n)
      <3>1. slots = n
        BY <1>6, <2>3 DEF Sizing!NextPow2
      <3>2. PICK j \in 0 .. SizeBits - 1 : n = {j}
        BY <2>2, <2>3, Decremented
      <3>3. j >= 3
        BY <2>1, <3>2
      <3>4. ~Sizing!Below({j}, n)
        BY <1>3, <3>2
      <3>5. \A k \in 0 .. SizeBits - 1 : ~Sizing!Below({k}, n) => k >= j
        BY <1>3, <3>2
      <3>6. QED BY <3>1, <3>2, <3>3, <3>4, <3>5
    <2>4. CASE ~Sizing!IsPowerOfTwo(n)
      <3> DEFINE dec == Sizing!Decrement(n)
      <3>1. slots = Sizing!Increment(Sizing!Smear(dec))
        BY <1>6, <2>4 DEF Sizing!NextPow2
      <3> HIDE DEF slots
      <3>2. /\ dec \in Sizing!Words
            /\ ~ \E k \in 0 .. SizeBits - 1 : n = {k}
        BY <2>2, <2>4, Decremented
      <3>3. PICK h \in 0 .. SizeBits - 1 :
               h \in n /\ h \in dec /\ (\A b \in n : b <= h) /\ (\A b \in dec : b <= h)
        BY <2>2, <2>4, Decremented
      <3> HIDE DEF dec
      <3>4. ASSUME NEW k \in 0 .. SizeBits - 1 PROVE ~Sizing!Below({k}, n) <=> h < k
        <4>1. ~Sizing!Below({k}, n) <=> \A b \in n : b < k
          BY <3>2, BelowPower
        <4>2. (\A b \in n : b < k) <=> h < k
          BY <1>1, <3>3
        <4>3. QED BY <4>1, <4>2
      <3>5. h < room /\ h >= 3
        BY <1>1, <1>4, <2>1, <3>3, <3>4
      <3>6. h \in 0 .. SizeBits - 2 /\ h + 1 \in 0 .. SizeBits - 1 /\ h < h + 1
        BY <1>1, <3>5
      <3>7. Sizing!Smear(dec) = 0 .. h
        <4>1. Sizing!Smear(dec) = {c \in 0 .. SizeBits - 1 : \E b \in dec : c <= b}
          BY <3>2, Smeared
        <4>2. \A b \in dec : b \in 0 .. SizeBits - 1
          BY <3>2 DEF Sizing!Words
        <4>3. QED BY <1>1, <3>3, <4>1, <4>2
      <3>8. slots = {h + 1}
        BY <3>1, <3>6, <3>7, Carried
      <3>9. ~Sizing!Below({h + 1}, n)
        BY <3>4, <3>6
      <3>10. \A k \in 0 .. SizeBits - 1 : ~Sizing!Below({k}, n) => k >= h + 1
        BY <3>4
      <3>11. h + 1 >= 3
        BY <3>5
      <3>12. QED BY <3>6, <3>8, <3>9, <3>10, <3>11
    <2>5. QED BY <2>3, <2>4
  <1>7. QED BY <1>5, <1>6

-----------------------------------------------------------------------------
(* The secret *)

\* What the decoder strips is padding only: the rest are the symbols of a text
\* without foreign characters.
LEMMA SymbolsTyped ==
    ASSUME NEW text \in Seq(Codes!Symbol \cup {Codes!Padding})
    PROVE  Codes!Symbols(text) \in Seq(Codes!Symbol)
  <1> DEFINE N == Len(text)
             S == Seq(Codes!Symbol)
             step == [k \in 1 .. N |-> [s \in S |-> Codes!KeepSymbol(s, text[k])]]
             Pass(g) == [k \in 0 .. N |-> IF k = 0 THEN <<>>
                                         ELSE Codes!KeepSymbol(g[k - 1], text[k])]
             after == CHOOSE g : g = Pass(g)
             holds == {k \in 0 .. N : after[k] \in S}
  <1>1. N \in Nat /\ <<>> \in S
    OBVIOUS
  <1>2. ASSUME NEW s \in S, NEW k \in 1 .. N PROVE Codes!KeepSymbol(s, text[k]) \in S
    <2>1. text[k] \in Codes!Symbol \cup {Codes!Padding}
      OBVIOUS
    <2>2. QED BY <2>1 DEF Codes!KeepSymbol
  <1>3. \E g : g = Pass(g)
    <2>1. step \in Steps(N, S)
      BY <1>2 DEF Steps
    <2>2. PICK f : IsRun(f, N, S, <<>>, step)
      <3> HIDE DEF S, step, N
      <3>1. QED BY <1>1, <2>1, Iteration
    <2>3. ASSUME NEW k \in 1 .. N PROVE f[k] = Codes!KeepSymbol(f[k - 1], text[k])
      <3>1. k - 1 \in 0 .. N
        BY <1>1
      <3>2. f[k - 1] \in S /\ f[k] = step[k][f[k - 1]]
        BY <2>2, <3>1 DEF IsRun
      <3> HIDE DEF S
      <3>3. QED BY <3>2
    <2>4. f = Pass(f)
      <3> HIDE DEF S, N
      <3>1. QED BY <1>1, <2>2, <2>3 DEF IsRun
    <2>5. QED BY <2>4
  <1>4. after = Pass(after)
    <2> HIDE DEF Pass
    <2>1. QED BY <1>3, Zenon
  <1> HIDE DEF after
  <1>5. /\ after[0] = <<>>
        /\ \A k \in 1 .. N : after[k] = Codes!KeepSymbol(after[k - 1], text[k])
    <2> HIDE DEF N
    <2>1. ASSUME NEW k \in 0 .. N
          PROVE  after[k] = IF k = 0 THEN <<>> ELSE Codes!KeepSymbol(after[k - 1], text[k])
      BY <1>4
    <2>2. 0 \in 0 .. N
      BY <1>1
    <2>3. ASSUME NEW k \in 1 .. N PROVE k \in 0 .. N /\ k # 0
      BY <1>1
    <2> HIDE DEF Pass
    <2>4. QED BY <2>1, <2>2, <2>3
  <1>6. \A k \in 0 .. N : k \in holds
    <2>1. 0 \in holds
      <3> HIDE DEF S, N
      <3>1. QED BY <1>1, <1>5
    <2>2. ASSUME NEW k \in 1 .. N, k - 1 \in holds PROVE k \in holds
      <3>1. k \in 0 .. N /\ after[k - 1] \in S
        BY <1>1, <2>2
      <3> HIDE DEF S, N
      <3>2. QED BY <1>2, <1>5, <3>1
    <2> HIDE DEF holds, N
    <2>3. QED BY <1>1, <2>1, <2>2, EveryPass
  <1>7. after[N] \in S
    <2>1. N \in 0 .. N
      BY <1>1
    <2>2. QED BY <1>6, <2>1
  <1>8. QED BY <1>7 DEF Codes!Symbols, after

\* The k-th bit of the symbols in order, from the left.
One(syms, k) == 4 - (k % 5) \in syms[(k \div 5) + 1]

DecoderState == [buffer : SUBSET (0 .. WordBits - 1), bits : Nat, out : Seq(SUBSET (0 .. 7))]

\* What is true of the decoder after k symbols: the bits not yet in a byte are
\* what 5k leaves; the buffer has the last symbols, as many as an int holds;
\* and the bytes are those of the symbols.
DecodedBy(syms, s, k) ==
    /\ s \in DecoderState
    /\ s.bits = (5 * k) % 8 /\ Len(s.out) = (5 * k) \div 8
    /\ \A m \in 0 .. WordBits - 1 :
          m \in s.buffer <=> m < 5 * k /\ m % 5 \in syms[k - (m \div 5)]
    /\ \A b \in 1 .. Len(s.out) :
          s.out[b] = {j \in 0 .. 7 : One(syms, 8 * (b - 1) + (7 - j))}

\* Five bits more than a whole number of bytes and a rest.
LEMMA FiveMoreBits ==
    ASSUME NEW k \in Nat
    PROVE  /\ ((5 * k) % 8) + 5 >= 8 =>
                 /\ (((5 * k) % 8) + 5) - 8 = (5 * (k + 1)) % 8
                 /\ (((5 * k) % 8) + 5) - 8 \in 0 .. 4
                 /\ ((5 * k) \div 8) + 1 = (5 * (k + 1)) \div 8
                 /\ 8 * (((5 * k) \div 8) + 1) + ((((5 * k) % 8) + 5) - 8) = 5 * (k + 1)
           /\ ~ (((5 * k) % 8) + 5 >= 8) =>
                 /\ ((5 * k) % 8) + 5 = (5 * (k + 1)) % 8
                 /\ (5 * k) \div 8 = (5 * (k + 1)) \div 8
  <1>1. PICK a \in Nat : a = 5 * k
    OBVIOUS
  <1>2. 5 * (k + 1) = a + 5
    BY <1>1
  <1>3. /\ (a % 8) + 5 >= 8 =>
                 /\ ((a % 8) + 5) - 8 = (a + 5) % 8 /\ ((a % 8) + 5) - 8 \in 0 .. 4
                 /\ (a \div 8) + 1 = (a + 5) \div 8
                 /\ 8 * ((a \div 8) + 1) + (((a % 8) + 5) - 8) = a + 5
        /\ ~ ((a % 8) + 5 >= 8) =>
                 (a % 8) + 5 = (a + 5) % 8 /\ a \div 8 = (a + 5) \div 8
    OBVIOUS
  <1>4. QED BY <1>1, <1>2, <1>3

LEMMA PushedBits ==
    ASSUME NEW buffer \in SUBSET (0 .. WordBits - 1), NEW v \in Codes!Symbol
    PROVE  /\ Codes!Pushed(buffer, v) \in SUBSET (0 .. WordBits - 1)
           /\ \A m \in 0 .. WordBits - 1 :
                 m \in Codes!Pushed(buffer, v) <=> IF m < 5 THEN m \in v ELSE m - 5 \in buffer
  <1>1. WordBits \in Nat /\ WordBits >= 12 /\ v \subseteq 0 .. 4
    BY WidthAssumption DEF Codes!Symbol
  <1>2. \A b \in buffer : b \in Nat
    OBVIOUS
  <1>3. Codes!Pushed(buffer, v) = ({b + 5 : b \in buffer} \cap 0 .. WordBits - 1) \cup v
    BY DEF Codes!Pushed
  <1>4. Codes!Pushed(buffer, v) \subseteq 0 .. WordBits - 1
    <2>1. 0 .. 4 \subseteq 0 .. WordBits - 1
      BY <1>1
    <2>2. QED BY <1>1, <1>3, <2>1
  <1>5. ASSUME NEW m \in 0 .. WordBits - 1
        PROVE  m \in {b + 5 : b \in buffer} <=> m >= 5 /\ m - 5 \in buffer
    <2>1. ASSUME m - 5 \in buffer PROVE m \in {b + 5 : b \in buffer}
      <3>1. m = (m - 5) + 5
        BY <1>1
      <3>2. QED BY <2>1, <3>1
    <2>2. ASSUME NEW b \in buffer, m = b + 5 PROVE m >= 5 /\ m - 5 = b
      BY <1>2, <2>2
    <2>3. QED BY <2>1, <2>2
  <1>6. ASSUME NEW m \in 0 .. WordBits - 1
        PROVE  m \in Codes!Pushed(buffer, v) <=> IF m < 5 THEN m \in v ELSE m - 5 \in buffer
    <2>1. m \in Codes!Pushed(buffer, v) <=> m \in v \/ (m >= 5 /\ m - 5 \in buffer)
      BY <1>3, <1>5
    <2>2. m \in v => m < 5
      BY <1>1
    <2>3. m >= 5 <=> ~ (m < 5)
      BY <1>1
    <2>4. QED BY <2>1, <2>2, <2>3
  <1>7. QED BY <1>4, <1>6

LEMMA TakeSymbolKeeps ==
    ASSUME NEW syms \in Seq(Codes!Symbol), NEW k \in Nat, k + 1 \in 1 .. Len(syms),
           NEW s, DecodedBy(syms, s, k)
    PROVE  DecodedBy(syms, Codes!TakeSymbol(s, syms[k + 1]), k + 1)
  <1> DEFINE v == syms[k + 1]
             buffer == Codes!Pushed(s.buffer, v)
             bits == s.bits + 5
             byte == {j \in 0 .. 7 : j + (bits - 8) \in buffer}
             t == Codes!TakeSymbol(s, v)
  <1>1. v \in Codes!Symbol
    OBVIOUS
  <1>2. /\ s.buffer \in SUBSET (0 .. WordBits - 1) /\ s.bits \in Nat
        /\ s.out \in Seq(SUBSET (0 .. 7)) /\ Len(s.out) \in Nat
        /\ s.bits = (5 * k) % 8 /\ Len(s.out) = (5 * k) \div 8
    BY DEF DecodedBy, DecoderState
  <1>3. /\ buffer \in SUBSET (0 .. WordBits - 1)
        /\ \A m \in 0 .. WordBits - 1 :
              m \in buffer <=> IF m < 5 THEN m \in v ELSE m - 5 \in s.buffer
    BY <1>1, <1>2, PushedBits
  <1>4. WordBits \in Nat /\ WordBits >= 12
    BY WidthAssumption
  <1>5. ASSUME NEW m \in 0 .. WordBits - 1
        PROVE  m \in buffer <=> m < 5 * (k + 1) /\ m % 5 \in syms[(k + 1) - (m \div 5)]
    <2>1. CASE m < 5
      <3>1. m % 5 = m /\ (k + 1) - (m \div 5) = k + 1 /\ m < 5 * (k + 1)
        BY <1>4, <2>1
      <3>2. QED BY <1>3, <2>1, <3>1
    <2>2. CASE ~ (m < 5)
      <3>1. /\ m - 5 \in 0 .. WordBits - 1
            /\ (m - 5) % 5 = m % 5
            /\ k - ((m - 5) \div 5) = (k + 1) - (m \div 5)
            /\ m - 5 < 5 * k <=> m < 5 * (k + 1)
        BY <1>4, <2>2
      <3>2. m - 5 \in s.buffer <=> m - 5 < 5 * k /\ (m - 5) % 5 \in syms[k - ((m - 5) \div 5)]
        BY <3>1 DEF DecodedBy
      <3>3. m \in buffer <=> m - 5 \in s.buffer
        BY <1>3, <2>2
      <3>4. QED BY <3>1, <3>2, <3>3
    <2>3. QED BY <2>1, <2>2
  <1> HIDE DEF buffer
  <1>6. CASE bits >= 8
    <2>1. t = [buffer |-> buffer, bits |-> bits - 8, out |-> Append(s.out, byte)]
      BY <1>6 DEF Codes!TakeSymbol, buffer
    <2>2. /\ bits - 8 = (5 * (k + 1)) % 8 /\ bits - 8 \in 0 .. 4
          /\ Len(s.out) + 1 = (5 * (k + 1)) \div 8
          /\ 8 * (Len(s.out) + 1) + (bits - 8) = 5 * (k + 1)
      BY <1>2, <1>6, FiveMoreBits
    <2>3. byte = {j \in 0 .. 7 : One(syms, 8 * ((Len(s.out) + 1) - 1) + (7 - j))}
      <3>1. ASSUME NEW j \in 0 .. 7
            PROVE  j + (bits - 8) \in buffer <=> One(syms, 8 * ((Len(s.out) + 1) - 1) + (7 - j))
        <4> DEFINE m == j + (bits - 8)
                   p == 8 * ((Len(s.out) + 1) - 1) + (7 - j)
        <4>1. m \in 0 .. WordBits - 1 /\ m \in 0 .. 11
          <5> HIDE DEF bits
          <5>1. bits - 8 \in 0 .. 4
            BY <2>2
          <5>2. ASSUME NEW c \in 0 .. 4 PROVE j + c \in 0 .. WordBits - 1 /\ j + c \in 0 .. 11
            BY <1>4
          <5>3. QED BY <5>1, <5>2
        <4>2. p = (5 * (k + 1) - 1) - m /\ p \in Nat
          <5>1. p = (5 * (k + 1) - 1) - m
            BY <1>2, <2>2
          <5>2. p \in Nat
            BY <1>2
          <5>3. QED BY <5>1, <5>2
        <4> HIDE DEF m, p
        <4>3. m < 5 * (k + 1) /\ m % 5 = 4 - (p % 5) /\ (k + 1) - (m \div 5) = (p \div 5) + 1
          BY <4>1, <4>2
        <4>4. m \in buffer <=> m < 5 * (k + 1) /\ m % 5 \in syms[(k + 1) - (m \div 5)]
          BY <1>5, <4>1
        <4>5. QED BY <4>3, <4>4 DEF One, m, p
      <3>2. QED BY <3>1
    <2> HIDE DEF byte
    <2>4. byte \in SUBSET (0 .. 7)
      BY <2>3
    <2>5. /\ Append(s.out, byte) \in Seq(SUBSET (0 .. 7))
          /\ Len(Append(s.out, byte)) = Len(s.out) + 1
          /\ \A b \in 1 .. Len(s.out) : Append(s.out, byte)[b] = s.out[b]
          /\ Append(s.out, byte)[Len(s.out) + 1] = byte
      BY <1>2, <2>4, AppendProperties
    <2>6. ASSUME NEW b \in 1 .. Len(s.out) + 1
          PROVE  Append(s.out, byte)[b] = {j \in 0 .. 7 : One(syms, 8 * (b - 1) + (7 - j))}
      <3>1. CASE b = Len(s.out) + 1
        BY <2>3, <2>5, <3>1
      <3>2. CASE b \in 1 .. Len(s.out)
        BY <2>5, <3>2 DEF DecodedBy
      <3>3. QED BY <1>2, <3>1, <3>2
    <2>7. t \in DecoderState
      BY <1>3, <2>1, <2>2, <2>5 DEF DecoderState
    <2> HIDE DEF t, bits
    <2>8. t.buffer = buffer /\ t.bits = bits - 8 /\ t.out = Append(s.out, byte)
      BY <2>1
    <2>9. DecodedBy(syms, t, k + 1)
      BY <1>5, <2>2, <2>5, <2>6, <2>7, <2>8 DEF DecodedBy
    <2>10. QED BY <2>9 DEF t
  <1>7. CASE ~ (bits >= 8)
    <2>1. t = [buffer |-> buffer, bits |-> bits, out |-> s.out]
      BY <1>7 DEF Codes!TakeSymbol, buffer
    <2>2. bits = (5 * (k + 1)) % 8 /\ bits \in Nat /\ Len(s.out) = (5 * (k + 1)) \div 8
      BY <1>2, <1>7, FiveMoreBits
    <2>3. t \in DecoderState
      BY <1>2, <1>3, <2>1, <2>2 DEF DecoderState
    <2> HIDE DEF t, bits
    <2>4. t.buffer = buffer /\ t.bits = bits /\ t.out = s.out
      BY <2>1
    <2>5. DecodedBy(syms, t, k + 1)
      BY <1>5, <2>2, <2>3, <2>4 DEF DecodedBy
    <2>6. QED BY <2>5 DEF t
  <1>8. QED BY <1>6, <1>7

\* The bytes are the bits of the symbols, however often the buffer overflows.
LEMMA DecodesBits ==
    ASSUME NEW text \in Seq(Codes!Symbol \cup {Codes!Padding})
    PROVE  Codes!IsDecoded(text, Codes!Decode(text))
  <1> DEFINE syms == Codes!Symbols(text)
             N == Len(syms)
             start == [buffer |-> {}, bits |-> 0, out |-> <<>>]
             step == [k \in 1 .. N |-> [s \in DecoderState |-> Codes!TakeSymbol(s, syms[k])]]
             Pass(g) == [k \in 0 .. N |-> IF k = 0 THEN start
                                         ELSE Codes!TakeSymbol(g[k - 1], syms[k])]
             after == CHOOSE g : g = Pass(g)
             holds == {k \in 0 .. N : DecodedBy(syms, after[k], k)}
  <1>1. syms \in Seq(Codes!Symbol)
    BY SymbolsTyped
  <1> HIDE DEF syms
  <1>2. N \in Nat /\ start \in DecoderState
    BY <1>1 DEF DecoderState
  <1>3. ASSUME NEW s \in DecoderState, NEW k \in 1 .. N
        PROVE  Codes!TakeSymbol(s, syms[k]) \in DecoderState
    <2> DEFINE buffer == Codes!Pushed(s.buffer, syms[k])
    <2>1. /\ s.buffer \in SUBSET (0 .. WordBits - 1) /\ s.bits \in Nat
          /\ s.out \in Seq(SUBSET (0 .. 7)) /\ syms[k] \in Codes!Symbol
      BY <1>1 DEF DecoderState
    <2>2. buffer \in SUBSET (0 .. WordBits - 1)
      BY <2>1, PushedBits
    <2> HIDE DEF buffer
    <2>3. CASE s.bits + 5 >= 8
      <3> DEFINE byte == {j \in 0 .. 7 : j + ((s.bits + 5) - 8) \in buffer}
      <3>1. Append(s.out, byte) \in Seq(SUBSET (0 .. 7)) /\ (s.bits + 5) - 8 \in Nat
        BY <2>1, <2>3
      <3> HIDE DEF byte
      <3>2. [buffer |-> buffer, bits |-> (s.bits + 5) - 8, out |-> Append(s.out, byte)]
                \in DecoderState
        BY <2>2, <3>1 DEF DecoderState
      <3>3. QED BY <2>3, <3>2 DEF Codes!TakeSymbol, buffer, byte
    <2>4. CASE ~ (s.bits + 5 >= 8)
      <3>1. [buffer |-> buffer, bits |-> s.bits + 5, out |-> s.out] \in DecoderState
        BY <2>1, <2>2 DEF DecoderState
      <3>2. QED BY <2>4, <3>1 DEF Codes!TakeSymbol, buffer
    <2>5. QED BY <2>3, <2>4
  <1>4. \E g : g = Pass(g)
    <2>1. step \in Steps(N, DecoderState)
      BY <1>3 DEF Steps
    <2>2. PICK f : IsRun(f, N, DecoderState, start, step)
      <3> HIDE DEF start, step, N
      <3>1. QED BY <1>2, <2>1, Iteration
    <2>3. ASSUME NEW k \in 1 .. N PROVE f[k] = Codes!TakeSymbol(f[k - 1], syms[k])
      <3>1. k - 1 \in 0 .. N
        BY <1>2
      <3>2. f[k - 1] \in DecoderState /\ f[k] = step[k][f[k - 1]]
        BY <2>2, <3>1 DEF IsRun
      <3>3. QED BY <3>2
    <2>4. f = Pass(f)
      <3> HIDE DEF start, N
      <3>1. QED BY <1>2, <2>2, <2>3 DEF IsRun
    <2>5. QED BY <2>4
  <1>5. after = Pass(after)
    <2> HIDE DEF Pass
    <2>1. QED BY <1>4, Zenon
  <1> HIDE DEF after
  <1>6. /\ after[0] = start
        /\ \A k \in 1 .. N : after[k] = Codes!TakeSymbol(after[k - 1], syms[k])
    <2> HIDE DEF N, start
    <2>1. ASSUME NEW k \in 0 .. N
          PROVE  after[k] = IF k = 0 THEN start ELSE Codes!TakeSymbol(after[k - 1], syms[k])
      BY <1>5
    <2>2. 0 \in 0 .. N
      BY <1>2
    <2>3. ASSUME NEW k \in 1 .. N PROVE k \in 0 .. N /\ k # 0
      BY <1>2
    <2> HIDE DEF Pass
    <2>4. QED BY <2>1, <2>2, <2>3
  <1>7. 0 \in holds
    <2>1. start.buffer = {} /\ start.bits = 0 /\ start.out = <<>>
      OBVIOUS
    <2> HIDE DEF start
    <2>2. WordBits \in Nat
      BY WidthAssumption
    <2>3. DecodedBy(syms, start, 0)
      <3>1. start.bits = (5 * 0) % 8 /\ Len(start.out) = (5 * 0) \div 8
        BY <2>1
      <3>2. \A m \in 0 .. WordBits - 1 : ~ (m < 5 * 0)
        BY <2>2
      <3>3. \A b \in 1 .. Len(start.out) : FALSE
        BY <2>1
      <3>4. QED BY <1>2, <2>1, <3>1, <3>2, <3>3 DEF DecodedBy
    <2>4. QED BY <1>2, <1>6, <2>3
  <1>8. ASSUME NEW k \in 1 .. N, k - 1 \in holds PROVE k \in holds
    <2>1. k - 1 \in Nat /\ (k - 1) + 1 = k /\ k \in 0 .. N
      BY <1>2
    <2>2. DecodedBy(syms, after[k - 1], k - 1)
      BY <1>8
    <2>3. DecodedBy(syms, Codes!TakeSymbol(after[k - 1], syms[(k - 1) + 1]), (k - 1) + 1)
      <3>1. (k - 1) + 1 \in 1 .. Len(syms)
        BY <2>1
      <3>2. QED BY <1>1, <2>1, <2>2, <3>1, TakeSymbolKeeps
    <2>4. QED BY <1>6, <2>1, <2>3
  <1>9. DecodedBy(syms, after[N], N)
    <2> HIDE DEF holds
    <2>1. N \in holds
      <3>1. N \in 0 .. N
        BY <1>2
      <3> HIDE DEF N
      <3>2. QED BY <1>2, <1>7, <1>8, <3>1, EveryPass
    <2>2. QED BY <2>1 DEF holds
  <1>10. Codes!Decode(text) = after[N].out
    BY DEF Codes!Decode, after, syms
  <1> DEFINE out == after[N].out
  <1>11. /\ Len(out) = (5 * N) \div 8 /\ DOMAIN out = 1 .. Len(out)
         /\ \A b \in 1 .. Len(out) :
               out[b] = {j \in 0 .. 7 : One(syms, 8 * (b - 1) + (7 - j))}
    BY <1>9 DEF DecodedBy, DecoderState
  <1> HIDE DEF out
  <1>12. Codes!IsDecoded(text, out)
    BY <1>11 DEF Codes!IsDecoded, One, syms
  <1>13. QED BY <1>10, <1>12 DEF out

-----------------------------------------------------------------------------
(* The codes *)

\* The reference's power of ten is one.
LEMMA TenToIs ==
    ASSUME NEW d \in Nat
    PROVE  \E q : /\ Codes!TenTo(d) = q[d] /\ q[0] = 1
                  /\ \A k \in 1 .. d : q[k] = q[k - 1] * 10
  <1> DEFINE step == [k \in 1 .. d |-> [x \in Nat |-> x * 10]]
             Pass(g) == [k \in 0 .. d |-> IF k = 0 THEN 1 ELSE g[k - 1] * 10]
             power == CHOOSE g : g = Pass(g)
  <1>1. step \in Steps(d, Nat)
    BY DEF Steps
  <1>2. PICK f : IsRun(f, d, Nat, 1, step)
    <2> HIDE DEF step
    <2>1. QED BY <1>1, Iteration
  <1>3. ASSUME NEW k \in 1 .. d PROVE f[k] = f[k - 1] * 10
    <2>1. k - 1 \in 0 .. d
      OBVIOUS
    <2>2. f[k - 1] \in Nat /\ f[k] = step[k][f[k - 1]]
      BY <1>2, <2>1 DEF IsRun
    <2>3. QED BY <2>2
  <1>4. f = Pass(f)
    BY <1>2, <1>3 DEF IsRun
  <1>5. power = Pass(power)
    <2> HIDE DEF Pass
    <2>1. QED BY <1>4, Zenon
  <1>6. Codes!TenTo(d) = power[d]
    BY DEF Codes!TenTo
  <1> HIDE DEF power
  <1>7. power[0] = 1 /\ \A k \in 1 .. d : power[k] = power[k - 1] * 10
    BY <1>5
  <1>8. QED BY <1>6, <1>7

\* The modulus of codes is that power when it fits a word: nothing has wrapped
\* on the way.
LEMMA ModulusFits ==
    ASSUME NEW d \in Nat, Codes!Fits(d)
    PROVE  Codes!Modulus(d) = Codes!TenTo(d)
  <1> DEFINE M == 2^WordBits
  <1>1. PICK q : /\ Codes!TenTo(d) = q[d] /\ q[0] = 1
                 /\ \A k \in 1 .. d : q[k] = q[k - 1] * 10
    BY TenToIs
  <1>2. M \in Int
    BY WidthAssumption
  <1>3. q[d] < M
    BY <1>1 DEF Codes!Fits
  <1> DEFINE step == [k \in 1 .. d |-> [x \in Nat |-> (x * 10) % M]]
             Pass(g) == [k \in 0 .. d |-> IF k = 0 THEN 1 ELSE (g[k - 1] * 10) % M]
             power == CHOOSE g : g = Pass(g)
             typed == {k \in 0 .. d : q[k] \in Nat \ {0}}
             holds == {k \in 0 .. d : power[k] = q[k] \/ q[k] >= M}
  <1>4. Codes!Modulus(d) = power[d]
    BY DEF Codes!Modulus
  <1> HIDE DEF M
  <1>5. \A k \in 0 .. d : k \in typed
    <2>1. 0 \in typed
      BY <1>1
    <2>2. ASSUME NEW k \in 1 .. d, k - 1 \in typed PROVE k \in typed
      <3>1. q[k - 1] \in Nat \ {0} /\ q[k] = q[k - 1] * 10
        BY <1>1, <2>2
      <3>2. q[k] \in Nat \ {0}
        BY <3>1
      <3>3. QED BY <3>2
    <2> HIDE DEF typed
    <2>3. QED BY <2>1, <2>2, EveryPass
  <1>6. M \in Nat \ {0}
    <2>1. q[d] \in Nat
      BY <1>5
    <2>2. QED BY <1>2, <1>3, <2>1
  <1>7. \E g : g = Pass(g)
    <2>1. step \in Steps(d, Nat)
      BY <1>6 DEF Steps
    <2>2. PICK f : IsRun(f, d, Nat, 1, step)
      <3> HIDE DEF step
      <3>1. QED BY <2>1, Iteration
    <2>3. ASSUME NEW k \in 1 .. d PROVE f[k] = (f[k - 1] * 10) % M
      <3>1. k - 1 \in 0 .. d
        OBVIOUS
      <3>2. f[k - 1] \in Nat /\ f[k] = step[k][f[k - 1]]
        BY <2>2, <3>1 DEF IsRun
      <3>3. QED BY <3>2
    <2>4. f = Pass(f)
      BY <2>2, <2>3 DEF IsRun
    <2>5. QED BY <2>4
  <1>8. power = Pass(power)
    <2> HIDE DEF Pass
    <2>1. QED BY <1>7, Zenon
  <1> HIDE DEF power
  <1>9. power[0] = 1 /\ \A k \in 1 .. d : power[k] = (power[k - 1] * 10) % M
    BY <1>8
  <1>10. \A k \in 0 .. d : k \in holds
    <2>1. 0 \in holds
      BY <1>1, <1>9
    <2>2. ASSUME NEW k \in 1 .. d, k - 1 \in holds PROVE k \in holds
      <3>1. k - 1 \in 0 .. d /\ k \in 0 .. d
        OBVIOUS
      <3>2. q[k - 1] \in Nat \ {0} /\ q[k] = q[k - 1] * 10 /\ power[k] = (power[k - 1] * 10) % M
        BY <1>1, <1>5, <1>9, <3>1
      <3>3. power[k - 1] = q[k - 1] \/ q[k - 1] >= M
        BY <2>2
      <3>4. ASSUME power[k - 1] = q[k - 1], ~ (q[k] >= M) PROVE power[k] = q[k]
        BY <1>6, <3>2, <3>4
      <3>5. ASSUME q[k - 1] >= M PROVE q[k] >= M
        BY <1>6, <3>2, <3>5
      <3>6. QED BY <3>1, <3>3, <3>4, <3>5
    <2> HIDE DEF holds
    <2>3. QED BY <2>1, <2>2, EveryPass
  <1>11. power[d] = q[d]
    <2>1. d \in holds /\ q[d] \in Nat
      BY <1>5, <1>10
    <2>2. power[d] = q[d] \/ q[d] >= M
      BY <2>1
    <2>3. QED BY <1>3, <1>6, <2>1, <2>2
  <1>12. QED BY <1>1, <1>4, <1>11

\* Division with remainder, for a positive divisor.
LEMMA DivMod ==
    ASSUME NEW a \in Int, NEW n \in Nat \ {0}
    PROVE  /\ a % n \in 0 .. n - 1
           /\ a \div n \in Int
           /\ a = n * (a \div n) + (a % n)
  OBVIOUS

\* Multiples of n that are less than n apart.
LEMMA Apart ==
    ASSUME NEW x \in Int, NEW y \in Int, NEW n \in Nat \ {0}, n * x < n * y + n
    PROVE  x <= y
  <1>1. SUFFICES ASSUME x >= y + 1 PROVE FALSE
    OBVIOUS
  <1>2. n * (x - (y + 1)) \in Nat
    <2>1. n \in Nat /\ x - (y + 1) \in Nat
      BY <1>1
    <2>2. QED BY <2>1
  <1>3. n * (x - (y + 1)) = n * x - (n * y + n)
    OBVIOUS
  <1>4. n * x \in Int /\ n * y \in Int
    OBVIOUS
  <1>5. QED BY <1>2, <1>3, <1>4

\* A product of positive numbers is positive.
LEMMA Positive ==
    ASSUME NEW a \in Nat \ {0}, NEW b \in Nat \ {0}
    PROVE  a * b \in Nat \ {0}
  OBVIOUS

\* Dividing twice is dividing by the product.
LEMMA DivTwice ==
    ASSUME NEW a \in Nat, NEW m \in Nat \ {0}, NEW n \in Nat \ {0}
    PROVE  (a \div m) \div n = a \div (n * m)
  <1> DEFINE q == a \div m
             c == q \div n
             P == n * m
             d == a \div P
  <1>1. P \in Nat \ {0}
    BY Positive
  <1>2. q \in Int /\ a % m \in 0 .. m - 1 /\ a = m * q + (a % m)
    BY DivMod
  <1> HIDE DEF q
  <1>3. c \in Int /\ q % n \in 0 .. n - 1 /\ q = n * c + (q % n)
    BY <1>2, DivMod
  <1> HIDE DEF P
  <1>4. d \in Int /\ a % P \in 0 .. P - 1 /\ a = P * d + (a % P)
    BY <1>1, DivMod
  <1> HIDE DEF c, d
  <1> DEFINE rest == m * (q % n) + (a % m)
  <1>5. rest \in 0 .. P - 1
    <2>1. q % n \in Nat /\ a % m \in Nat /\ (n - 1) - (q % n) \in Nat
      BY <1>2, <1>3
    <2>2. m * (q % n) \in Nat
      BY <2>1
    <2>3. m * ((n - 1) - (q % n)) \in Nat
      BY <2>1
    <2>4. m * ((n - 1) - (q % n)) = (P - m) - m * (q % n)
      BY <2>1 DEF P
    <2>5. QED BY <1>1, <1>2, <2>1, <2>2, <2>3, <2>4
  <1>6. a = P * c + rest
    <2>1. m * (n * c + (q % n)) = P * c + m * (q % n)
      BY <1>3 DEF P
    <2>2. m * q = P * c + m * (q % n)
      BY <1>3, <2>1
    <2>3. m * (q % n) \in Int /\ P * c \in Int /\ m * q \in Int
      BY <1>1, <1>2, <1>3
    <2>4. QED BY <1>2, <2>2, <2>3
  <1> HIDE DEF rest
  <1>7. P * c \in Int /\ P * d \in Int
    BY <1>1, <1>3, <1>4
  <1>8. P * c < P * d + P /\ P * d < P * c + P
    BY <1>1, <1>4, <1>5, <1>6, <1>7
  <1>9. c <= d /\ d <= c
    BY <1>1, <1>3, <1>4, <1>8, Apart
  <1>10. QED BY <1>3, <1>4, <1>9 DEF c, d, q, P

\* The counter is the number of periods since 1970, rounded down, or zero before.
LEMMA CounterIsElapsed ==
    ASSUME NEW t \in Int, NEW period \in Nat \ {0}
    PROVE  /\ Codes!TimeCounter(t, period) = Codes!Elapsed(t, period)
           /\ Codes!Elapsed(t, period) \in Nat
  <1>1. TicksPerSecond \in Nat \ {0}
    BY InputAssumption
  <1>2. period * TicksPerSecond \in Nat \ {0}
    BY <1>1, Positive
  <1>3. CASE t >= 0
    <2>1. (t \div TicksPerSecond) \div period = t \div (period * TicksPerSecond)
      <3>1. t \in Nat
        BY <1>3
      <3>2. QED BY <1>1, <3>1, DivTwice
    <2>2. t \div (period * TicksPerSecond) \in Nat
      BY <1>2, <1>3
    <2>3. QED BY <1>3, <2>1, <2>2 DEF Codes!TimeCounter, Codes!Elapsed
  <1>4. CASE ~ (t >= 0)
    <2>1. 0 \div period = 0
      OBVIOUS
    <2>2. QED BY <1>4, <2>1 DEF Codes!TimeCounter, Codes!Elapsed
  <1>5. QED BY <1>3, <1>4

\* Clocks no further apart than the window read counters no further apart.
LEMMA WindowCovers ==
    ASSUME NEW s \in Int, NEW t \in Int, NEW period \in Nat \ {0}, NEW window \in Nat,
           ~ (s - t > window * period * TicksPerSecond)
    PROVE  Codes!Elapsed(s, period) <= Codes!Elapsed(t, period) + window
  <1> DEFINE P == period * TicksPerSecond
             u == IF s < 0 THEN 0 ELSE s
             v == IF t < 0 THEN 0 ELSE t
             x == u \div P
             y == v \div P
  <1>1. P \in Nat \ {0}
    BY InputAssumption, Positive
  <1>2. window * period * TicksPerSecond = P * window /\ P * window \in Nat
    BY InputAssumption
  <1> HIDE DEF P
  <1>3. u \in Nat /\ v \in Nat /\ u <= v + P * window
    BY <1>2
  <1>4. Codes!Elapsed(s, period) = x /\ Codes!Elapsed(t, period) = y
    <2>1. 0 \div P = 0
      BY <1>1
    <2>2. QED BY <2>1 DEF Codes!Elapsed, P
  <1> HIDE DEF u, v
  <1>5. x \in Int /\ u % P \in 0 .. P - 1 /\ u = P * x + (u % P)
    BY <1>1, <1>3, DivMod
  <1>6. y \in Int /\ v % P \in 0 .. P - 1 /\ v = P * y + (v % P)
    BY <1>1, <1>3, DivMod
  <1> HIDE DEF x, y
  <1>7. P * (y + window) = P * y + P * window /\ P * x \in Int /\ P * y \in Int
    BY <1>1, <1>5, <1>6
  <1>8. P * x < P * (y + window) + P
    BY <1>1, <1>2, <1>3, <1>5, <1>6, <1>7
  <1>9. x <= y + window
    BY <1>1, <1>5, <1>6, <1>8, Apart
  <1>10. QED BY <1>4, <1>9

\* verify answers for every clock, period and window, and for every length of
\* code whose power of ten fits a word: no code of a clock within the window is
\* refused, and none is accepted that no counter of the window has.
LEMMA VerifiesWindow ==
    ASSUME NEW s \in Int, NEW t \in Int, NEW period \in Nat \ {0}, NEW window \in Nat,
           NEW digits \in Nat, Codes!Fits(digits)
    PROVE  Codes!IsVerified(s, t, window, period, digits,
              Codes!Verify(Codes!CodeAt(s, period, digits), t, window, period, digits))
  <1> DEFINE x == Codes!Elapsed(s, period)
             y == Codes!Elapsed(t, period)
             code == Codes!Code(x, digits)
             answer == Codes!Verify(Codes!CodeAt(s, period, digits), t, window, period, digits)
  <1>1. /\ Codes!TimeCounter(s, period) = x /\ x \in Nat
        /\ Codes!TimeCounter(t, period) = y /\ y \in Nat
    BY CounterIsElapsed
  <1>2. Codes!Modulus(digits) = Codes!TenTo(digits)
    BY ModulusFits
  <1>3. ASSUME NEW c PROVE Codes!Hotp(c, digits) = Codes!Code(c, digits)
    BY <1>2 DEF Codes!Hotp, Codes!LeftPadInt, Codes!Code
  <1>4. /\ Codes!CodeAt(s, period, digits) = code
        /\ Codes!CodeAt(t, period, digits) = Codes!Code(y, digits)
    BY <1>1, <1>3 DEF Codes!CodeAt
  <1>5. answer <=> \/ code = Codes!Code(y, digits)
                   \/ \E w \in 1 .. window : \/ code = Codes!Code(y + w, digits)
                                             \/ y >= w /\ code = Codes!Code(y - w, digits)
    BY <1>1, <1>3, <1>4 DEF Codes!Verify
  <1> HIDE DEF x, y, answer
  <1>6. ASSUME x <= y + window, y <= x + window PROVE answer
    <2>1. CASE x = y
      BY <1>5, <2>1
    <2>2. CASE x > y
      <3>1. x - y \in 1 .. window /\ y + (x - y) = x
        BY <1>1, <1>6, <2>2
      <3>2. QED BY <1>5, <3>1
    <2>3. CASE x < y
      <3>1. y - x \in 1 .. window /\ y - (y - x) = x /\ y >= y - x
        BY <1>1, <1>6, <2>3
      <3>2. QED BY <1>5, <3>1
    <2>4. QED BY <1>1, <2>1, <2>2, <2>3
  <1>7. \/ s - t > window * period * TicksPerSecond
        \/ t - s > window * period * TicksPerSecond
        \/ answer
    BY <1>6, WindowCovers DEF x, y
  <1>8. ASSUME answer
        PROVE  \E d \in -window .. window :
                  y + d >= 0 /\ Codes!Code(y + d, digits) = code
    <2>1. CASE code = Codes!Code(y, digits)
      <3>1. 0 \in -window .. window /\ y + 0 = y /\ y >= 0
        BY <1>1
      <3>2. QED BY <2>1, <3>1
    <2>2. ASSUME NEW w \in 1 .. window, code = Codes!Code(y + w, digits)
          PROVE  \E d \in -window .. window :
                    y + d >= 0 /\ Codes!Code(y + d, digits) = code
      <3>1. w \in -window .. window /\ y + w >= 0
        BY <1>1
      <3>2. QED BY <2>2, <3>1
    <2>3. ASSUME NEW w \in 1 .. window, y >= w, code = Codes!Code(y - w, digits)
          PROVE  \E d \in -window .. window :
                    y + d >= 0 /\ Codes!Code(y + d, digits) = code
      <3>1. -w \in -window .. window /\ y + (-w) >= 0 /\ y + (-w) = y - w
        BY <1>1, <2>3
      <3>2. QED BY <2>3, <3>1
    <2>4. QED BY <1>5, <1>8, <2>1, <2>2, <2>3
  <1>9. QED BY <1>7, <1>8 DEF Codes!IsVerified, x, y, answer

-----------------------------------------------------------------------------
(* The parser *)

\* A list of keys names no key twice.
IsKeyList(list) == /\ DOMAIN list = 1 .. 5
                   /\ \A i, k \in 1 .. 5 : list[i] = list[k] => i = k

\* What an object has under the keys of a list, given by an entry for it.
HasEntry(fields, list, at, nulls, v) ==
    \A i \in 1 .. 5 :
        /\ list[i] \in DOMAIN fields <=> list[i] \in Feed!Keys(list, at, nulls)
        /\ list[i] \in DOMAIN fields => fields[list[i]] = Feed!Entry(list, at, nulls, v)[list[i]]

\* Of the keys of a list only the one an entry gives a value to can be used,
\* whether the ones before it are missing or null.
LEMMA OneUsable ==
    ASSUME NEW list, IsKeyList(list), NEW at \in 1 .. 5, NEW nulls \in BOOLEAN, NEW v,
           NEW fields, HasEntry(fields, list, at, nulls, v), NEW kinds, "null" \notin kinds
    PROVE  /\ Feed!Kind(v) \in kinds =>
                 /\ Feed!Usable(Feed!Object(fields), list, kinds) # {}
                 /\ Feed!First(Feed!Object(fields), list, kinds) = v
           /\ Feed!Kind(v) \notin kinds =>
                 Feed!Usable(Feed!Object(fields), list, kinds) = {}
  <1> DEFINE j == Feed!Object(fields)
             usable == Feed!Usable(j, list, kinds)
  <1>1. j.kind = "object" /\ j.fields = fields
    BY DEF Feed!Object
  <1>2. Feed!Kind(Feed!Null) = "null"
    BY DEF Feed!Kind, Feed!Null
  <1>3. Feed!Entry(list, at, nulls, v)[list[at]] = v /\ list[at] \in Feed!Keys(list, at, nulls)
    BY DEF Feed!Entry, Feed!Keys
  <1>4. ASSUME NEW i \in 1 .. 5, i # at, list[i] \in Feed!Keys(list, at, nulls)
        PROVE  Feed!Entry(list, at, nulls, v)[list[i]] = Feed!Null
    <2>1. list[i] # list[at]
      BY <1>4 DEF IsKeyList
    <2>2. QED BY <1>4, <2>1 DEF Feed!Entry
  <1> HIDE DEF j
  <1>5. usable = {i \in 1 .. 5 : list[i] \in DOMAIN fields /\ Feed!Kind(fields[list[i]]) \in kinds}
    BY <1>1 DEF Feed!Usable, Feed!Contains, IsKeyList
  <1>6. ASSUME NEW i \in 1 .. 5
        PROVE  list[i] \in DOMAIN fields /\ Feed!Kind(fields[list[i]]) \in kinds
                  <=> i = at /\ Feed!Kind(v) \in kinds
    <2>1. CASE i = at
      <3>1. list[i] \in DOMAIN fields /\ fields[list[i]] = v
        BY <1>3, <2>1 DEF HasEntry
      <3>2. QED BY <2>1, <3>1
    <2>2. CASE i # at
      <3>1. list[i] \in DOMAIN fields => fields[list[i]] = Feed!Null
        BY <1>4, <2>2 DEF HasEntry
      <3>2. QED BY <1>2, <2>2, <3>1
    <2>3. QED BY <2>1, <2>2
  <1>7. usable = {i \in 1 .. 5 : i = at /\ Feed!Kind(v) \in kinds}
    BY <1>5, <1>6
  <1>8. ASSUME Feed!Kind(v) \in kinds
        PROVE  usable # {} /\ Feed!First(j, list, kinds) = v
    <2>1. usable = {at}
      BY <1>7, <1>8
    <2>2. Feed!Min({at}) = at
      BY DEF Feed!Min
    <2>3. Feed!First(j, list, kinds) = fields[list[at]]
      BY <1>1, <2>1, <2>2 DEF Feed!First
    <2>4. fields[list[at]] = v
      BY <1>3 DEF HasEntry
    <2>5. QED BY <2>1, <2>3, <2>4
  <1>9. ASSUME Feed!Kind(v) \notin kinds PROVE usable = {}
    BY <1>7, <1>9
  <1>10. QED BY <1>8, <1>9 DEF j

\* The three lists and "data" share no name.
LEMMA KeyLists ==
    /\ IsKeyList(Feed!TOKEN_KEYS) /\ IsKeyList(Feed!PRICE_KEYS) /\ IsKeyList(Feed!TS_KEYS)
    /\ \A i, k \in 1 .. 5 : /\ Feed!TOKEN_KEYS[i] # Feed!PRICE_KEYS[k]
                             /\ Feed!TOKEN_KEYS[i] # Feed!TS_KEYS[k]
                             /\ Feed!PRICE_KEYS[i] # Feed!TS_KEYS[k]
    /\ \A i \in 1 .. 5 : /\ Feed!TOKEN_KEYS[i] # "data" /\ Feed!PRICE_KEYS[i] # "data"
                          /\ Feed!TS_KEYS[i] # "data"
  <1> DEFINE T == Feed!TOKEN_KEYS
             P == Feed!PRICE_KEYS
             S == Feed!TS_KEYS
  <1>1. /\ DOMAIN T = 1 .. 5 /\ T[1] = "token" /\ T[2] = "symbol" /\ T[3] = "tradingsymbol"
        /\ T[4] = "instrument_token" /\ T[5] = "tokenID"
    BY DEF Feed!TOKEN_KEYS
  <1>2. /\ DOMAIN P = 1 .. 5 /\ P[1] = "ltp" /\ P[2] = "last_price" /\ P[3] = "lastPrice"
        /\ P[4] = "price" /\ P[5] = "trade_price"
    BY DEF Feed!PRICE_KEYS
  <1>3. /\ DOMAIN S = 1 .. 5 /\ S[1] = "exchange_timestamp" /\ S[2] = "timestamp"
        /\ S[3] = "ts" /\ S[4] = "time" /\ S[5] = "epoch"
    BY DEF Feed!TS_KEYS
  <1> HIDE DEF T, P, S
  <1>4. ASSUME NEW i \in 1 .. 5 PROVE i \in {1, 2, 3, 4, 5}
    OBVIOUS
  <1>5. IsKeyList(T)
    BY <1>1, <1>4 DEF IsKeyList
  <1>6. IsKeyList(P)
    BY <1>2, <1>4 DEF IsKeyList
  <1>7. IsKeyList(S)
    BY <1>3, <1>4 DEF IsKeyList
  <1>8. \A i \in 1 .. 5 : T[i] \in {"token", "symbol", "tradingsymbol", "instrument_token", "tokenID"}
    BY <1>1, <1>4
  <1>9. \A i \in 1 .. 5 : P[i] \in {"ltp", "last_price", "lastPrice", "price", "trade_price"}
    BY <1>2, <1>4
  <1>10. \A i \in 1 .. 5 : S[i] \in {"exchange_timestamp", "timestamp", "ts", "time", "epoch"}
    BY <1>3, <1>4
  <1>11. \A i, k \in 1 .. 5 : T[i] # P[k] /\ T[i] # S[k] /\ P[i] # S[k]
    BY <1>8, <1>9, <1>10
  <1>12. \A i \in 1 .. 5 : T[i] # "data" /\ P[i] # "data" /\ S[i] # "data"
    BY <1>8, <1>9, <1>10
  <1>13. QED BY <1>5, <1>6, <1>7, <1>11, <1>12 DEF T, P, S

\* Unwrapping gives back an object without "data" from each of its wrappings.
LEMMA UnwrapsAll ==
    ASSUME NEW f, "data" \notin DOMAIN f,
           NEW wrap \in {"bare", "array", "data", "data_array", "array_data"}
    PROVE  Feed!Unwrap(Feed!Wrapped(Feed!Object(f), wrap)) = Feed!Object(f)
  <1> DEFINE body == Feed!Object(f)
             Under(j) == Feed!Object([k \in {"data"} |-> j])
  <1>1. body.kind = "object" /\ body.fields = f
    BY DEF Feed!Object
  <1>2. ASSUME NEW j
        PROVE  /\ Feed!Array(j).kind = "array" /\ Feed!Array(j).items[1] = j
               /\ Feed!Array(j).items # <<>>
    BY DEF Feed!Array
  <1>3. ASSUME NEW j
        PROVE  /\ Under(j).kind = "object" /\ Under(j).fields["data"] = j
               /\ "data" \in DOMAIN Under(j).fields
    BY DEF Feed!Object
  <1> HIDE DEF body, Under
  <1>4. ~Feed!Contains(body, "data") /\ ~Feed!Filled(body)
    BY <1>1 DEF Feed!Contains, Feed!Filled
  <1>5. ASSUME NEW j PROVE Feed!Contains(Under(j), "data") /\ ~Feed!Filled(Under(j))
    BY <1>3 DEF Feed!Contains, Feed!Filled
  <1>6. ASSUME NEW j PROVE Feed!Filled(Feed!Array(j))
    BY <1>2 DEF Feed!Filled
  <1> DEFINE front(j) == IF Feed!Filled(j) THEN j.items[1] ELSE j
  <1>7. ASSUME NEW j, Feed!Contains(front(j), "data"), front(j).fields["data"] = body
         PROVE  Feed!Unwrap(j) = body
    <2>1. front(j).fields["data"].kind = "object"
      BY <1>1, <1>7
    <2>2. Feed!Unwrap(j) = front(j).fields["data"]
      BY <1>4, <1>7, <2>1 DEF Feed!Unwrap
    <2>3. QED BY <1>7, <2>2
  <1>8. CASE wrap = "bare"
    <2>1. Feed!Wrapped(body, wrap) = body
      BY <1>8 DEF Feed!Wrapped
    <2>2. Feed!Unwrap(body) = body
      BY <1>4 DEF Feed!Unwrap
    <2>3. QED BY <2>1, <2>2 DEF body
  <1>9. CASE wrap = "array"
    <2>1. Feed!Wrapped(body, wrap) = Feed!Array(body)
      BY <1>9 DEF Feed!Wrapped
    <2>2. Feed!Unwrap(Feed!Array(body)) = body
      BY <1>2, <1>4, <1>6 DEF Feed!Unwrap
    <2>3. QED BY <2>1, <2>2 DEF body
  <1>10. CASE wrap = "data"
    <2>1. Feed!Wrapped(body, wrap) = Under(body)
      BY <1>10 DEF Feed!Wrapped, Under
    <2>2. Feed!Unwrap(Under(body)) = body
      <3>1. front(Under(body)) = Under(body)
        BY <1>5
      <3>2. QED BY <1>3, <1>5, <1>7, <3>1
    <2>3. QED BY <2>1, <2>2 DEF body
  <1>11. CASE wrap = "data_array"
    <2>1. Feed!Wrapped(body, wrap) = Under(Feed!Array(body))
      BY <1>11 DEF Feed!Wrapped, Under
    <2>2. Feed!Unwrap(Under(Feed!Array(body))) = body
      BY <1>2, <1>3, <1>5, <1>6 DEF Feed!Unwrap
    <2>3. QED BY <2>1, <2>2 DEF body
  <1>12. CASE wrap = "array_data"
    <2>1. Feed!Wrapped(body, wrap) = Feed!Array(Under(body))
      BY <1>12 DEF Feed!Wrapped, Under
    <2>2. Feed!Unwrap(Feed!Array(Under(body))) = body
      <3>1. front(Feed!Array(Under(body))) = Under(body)
        BY <1>2, <1>6
      <3>2. QED BY <1>3, <1>5, <1>7, <3>1
    <2>3. QED BY <2>1, <2>2 DEF body
  <1>13. QED BY <1>8, <1>9, <1>10, <1>11, <1>12

\* The time a feed writes for a tick.
Time(tick, e) == IF e.unit = "seconds" THEN tick.secs
                 ELSE tick.secs * ((MillisPerSecond * TicksPerMilli) \div TicksPerMilli)

\* The body of a frame has an entry for each list, and no "data".
LEMMA BodyEntries ==
    ASSUME NEW tick, NEW e \in Feed!Encodings(Positions)
    PROVE  /\ HasEntry(Feed!Body(tick, e), Feed!TOKEN_KEYS, e.token, e.nulls,
                       Feed!Value(e.tokenKind, tick.number, tick.prefixed))
           /\ HasEntry(Feed!Body(tick, e), Feed!PRICE_KEYS, e.ltp, e.nulls,
                       Feed!Value(e.ltpKind, tick.ltp, FALSE))
           /\ HasEntry(Feed!Body(tick, e), Feed!TS_KEYS, e.ts, e.nulls,
                       Feed!Value(e.tsKind, Time(tick, e), FALSE))
           /\ "data" \notin DOMAIN Feed!Body(tick, e)
  <1> DEFINE TL == Feed!TOKEN_KEYS
             PL == Feed!PRICE_KEYS
             SL == Feed!TS_KEYS
             token == Feed!Entry(TL, e.token, e.nulls, Feed!Value(e.tokenKind, tick.number, tick.prefixed))
             ltp == Feed!Entry(PL, e.ltp, e.nulls, Feed!Value(e.ltpKind, tick.ltp, FALSE))
             ts == Feed!Entry(SL, e.ts, e.nulls, Feed!Value(e.tsKind, Time(tick, e), FALSE))
             body == Feed!Body(tick, e)
  <1>1. e.token \in 1 .. 5 /\ e.ltp \in 1 .. 5 /\ e.ts \in 1 .. 5
    BY InputAssumption DEF Feed!Encodings
  <1>2. ASSUME NEW list, NEW at \in 1 .. 5, NEW k \in Feed!Keys(list, at, e.nulls)
        PROVE  \E i \in 1 .. 5 : k = list[i]
    BY DEF Feed!Keys
  <1>3. body = [k \in DOMAIN token \cup DOMAIN ltp \cup DOMAIN ts |->
                   CASE k \in DOMAIN token -> token[k]
                     [] k \in DOMAIN ltp   -> ltp[k]
                     [] k \in DOMAIN ts    -> ts[k]]
    BY DEF Feed!Body, Time
  <1>4. /\ DOMAIN token = Feed!Keys(TL, e.token, e.nulls)
        /\ DOMAIN ltp = Feed!Keys(PL, e.ltp, e.nulls)
        /\ DOMAIN ts = Feed!Keys(SL, e.ts, e.nulls)
    BY DEF Feed!Entry
  <1> HIDE DEF token, ltp, ts, TL, PL, SL, body
  <1>5. /\ \A k \in DOMAIN token : \E i \in 1 .. 5 : k = TL[i]
        /\ \A k \in DOMAIN ltp : \E i \in 1 .. 5 : k = PL[i]
        /\ \A k \in DOMAIN ts : \E i \in 1 .. 5 : k = SL[i]
    <2>1. \A k \in DOMAIN token : \E i \in 1 .. 5 : k = TL[i]
      BY <1>1, <1>2, <1>4
    <2>2. \A k \in DOMAIN ltp : \E i \in 1 .. 5 : k = PL[i]
      BY <1>1, <1>2, <1>4
    <2>3. \A k \in DOMAIN ts : \E i \in 1 .. 5 : k = SL[i]
      BY <1>1, <1>2, <1>4
    <2>4. QED BY <2>1, <2>2, <2>3
  <1>6. /\ \A i, k \in 1 .. 5 : TL[i] # PL[k] /\ TL[i] # SL[k] /\ PL[i] # SL[k]
        /\ \A i \in 1 .. 5 : TL[i] # "data" /\ PL[i] # "data" /\ SL[i] # "data"
    BY KeyLists DEF TL, PL, SL
  <1>7. /\ DOMAIN body = DOMAIN token \cup DOMAIN ltp \cup DOMAIN ts
        /\ \A k \in DOMAIN token : body[k] = token[k]
        /\ \A k \in DOMAIN ltp : body[k] = ltp[k]
        /\ \A k \in DOMAIN ts : body[k] = ts[k]
    <2>1. /\ \A k \in DOMAIN token : k \notin DOMAIN ltp /\ k \notin DOMAIN ts
          /\ \A k \in DOMAIN ltp : k \notin DOMAIN ts
      BY <1>5, <1>6
    <2>2. QED BY <1>3, <2>1
  <1>8. ASSUME NEW i \in 1 .. 5
        PROVE  /\ TL[i] \in DOMAIN body <=> TL[i] \in DOMAIN token
               /\ PL[i] \in DOMAIN body <=> PL[i] \in DOMAIN ltp
               /\ SL[i] \in DOMAIN body <=> SL[i] \in DOMAIN ts
    BY <1>5, <1>6, <1>7
  <1>9. HasEntry(body, TL, e.token, e.nulls, Feed!Value(e.tokenKind, tick.number, tick.prefixed))
    BY <1>4, <1>7, <1>8 DEF HasEntry, token
  <1>10. HasEntry(body, PL, e.ltp, e.nulls, Feed!Value(e.ltpKind, tick.ltp, FALSE))
    BY <1>4, <1>7, <1>8 DEF HasEntry, ltp
  <1>11. HasEntry(body, SL, e.ts, e.nulls, Feed!Value(e.tsKind, Time(tick, e), FALSE))
    BY <1>4, <1>7, <1>8 DEF HasEntry, ts
  <1>12. "data" \notin DOMAIN body
    BY <1>5, <1>6, <1>7
  <1>13. QED BY <1>9, <1>10, <1>11, <1>12 DEF body, TL, PL, SL

\* In the era the guess of the unit is right and the time fits.
LEMMA GuessedRight ==
    ASSUME NEW tick \in Ticks, NEW e, Feed!InEra(tick.secs)
    PROVE  Feed!ToTimepoint(Time(tick, e)) = tick.secs * (MillisPerSecond * TicksPerMilli)
  <1> DEFINE n == tick.secs
             m == Feed!Magnitude(n)
             P == MillisPerSecond
             Q == TicksPerMilli
             R == P * Q
             h == TimeMod \div 2
  <1>1. /\ n \in Int /\ P \in Nat \ {0} /\ Q \in Nat \ {0} /\ Threshold \in Nat
        /\ TimeMod \in Nat \ {0}
    BY InputAssumption
  <1>2. R \in Nat \ {0}
    BY <1>1, Positive
  <1>3. m \in Nat /\ (m = n \/ m = -n) /\ h \in Nat /\ 2 * h <= TimeMod
    BY <1>1 DEF Feed!Magnitude
  <1>4. R \div Q = P
    <2> DEFINE d == R \div Q
    <2>1. R = Q * P /\ R \in Int
      BY <1>1, <1>2
    <2> HIDE DEF R
    <2>2. d \in Int /\ R % Q \in 0 .. Q - 1 /\ R = Q * d + (R % Q)
      BY <1>1, <2>1, DivMod
    <2> HIDE DEF d
    <2>3. Q * d \in Int /\ Q * P \in Int
      BY <1>1, <2>2
    <2>4. Q * d < Q * P + Q /\ Q * P < Q * d + Q
      BY <1>1, <2>1, <2>2, <2>3
    <2>5. d <= P /\ P <= d
      BY <1>1, <2>2, <2>4, Apart
    <2>6. QED BY <1>1, <2>2, <2>5 DEF d
  <1>5. m < Threshold /\ m * P >= Threshold /\ m * R < h
    BY <1>4 DEF Feed!InEra
  <1> HIDE DEF m, n, R, h
  <1>6. n * R \in Int /\ -h <= n * R /\ n * R < h
    <2>1. n * R \in Int /\ m * R \in Nat
      BY <1>1, <1>2, <1>3
    <2>2. n * R = m * R \/ n * R = -(m * R)
      BY <1>1, <1>2, <1>3
    <2>3. QED BY <1>3, <1>5, <2>1, <2>2
  <1>7. Feed!Signed(n * R) = n * R
    <2> DEFINE x == n * R + h
    <2>1. x \in Nat /\ x < TimeMod
      BY <1>1, <1>3, <1>6
    <2> HIDE DEF x
    <2>2. x % TimeMod = x
      BY <1>1, <2>1
    <2>3. Feed!Signed(n * R) = x - h
      BY <2>2 DEF Feed!Signed, x, h
    <2>4. QED BY <1>3, <1>6, <2>3 DEF x
  <1>8. CASE e.unit = "seconds"
    <2>1. Time(tick, e) = n /\ ~ (Feed!Magnitude(n) >= Threshold)
      BY <1>1, <1>3, <1>5, <1>8 DEF Time, m, n
    <2>2. Feed!ToTimepoint(n) = Feed!Signed(n * R)
      BY <2>1 DEF Feed!ToTimepoint, R
    <2>3. QED BY <1>7, <2>1, <2>2 DEF n, R
  <1>9. CASE e.unit # "seconds"
    <2>1. Time(tick, e) = n * P
      BY <1>4, <1>9 DEF Time, n, R
    <2>2. n * P \in Int /\ m * P \in Int /\ (n * P = m * P \/ n * P = -(m * P))
      BY <1>1, <1>3
    <2>3. Feed!Magnitude(n * P) >= Threshold
      <3>1. CASE n * P < 0
        BY <1>1, <1>5, <2>2, <3>1 DEF Feed!Magnitude
      <3>2. CASE ~ (n * P < 0)
        BY <1>1, <1>5, <2>2, <3>2 DEF Feed!Magnitude
      <3>3. QED BY <3>1, <3>2
    <2>4. (n * P) * Q = n * R
      BY <1>1 DEF R
    <2>5. Feed!ToTimepoint(n * P) = Feed!Signed((n * P) * Q)
      BY <2>3 DEF Feed!ToTimepoint
    <2>6. QED BY <1>7, <2>1, <2>4, <2>5 DEF n, R
  <1>10. QED BY <1>8, <1>9

\* The kinds of a written value: a prefix makes a text of a string.
LEMMA KindOfValue ==
    ASSUME NEW n, NEW prefixed \in BOOLEAN, NEW kind \in {"int", "float", "string", "null"}
    PROVE  /\ Feed!Kind(Feed!Value(kind, n, prefixed))
                 = IF kind = "string" /\ prefixed THEN "text" ELSE kind
           /\ kind # "null" => /\ Feed!Value(kind, n, prefixed).kind = kind
                               /\ Feed!Value(kind, n, prefixed).number = n
           /\ kind = "string" => Feed!Value(kind, n, prefixed).prefixed = prefixed
  <1> DEFINE v == Feed!Value(kind, n, prefixed)
  <1>1. CASE kind = "null"
    <2>1. v = [kind |-> "null"]
      BY <1>1 DEF Feed!Value, Feed!Null
    <2> HIDE DEF v
    <2>2. v.kind = "null"
      BY <2>1
    <2>3. Feed!Kind(v) = "null"
      BY <2>2 DEF Feed!Kind
    <2>4. QED BY <1>1, <2>3 DEF v
  <1>2. CASE kind = "string"
    <2>1. v = [kind |-> "string", number |-> n, prefixed |-> prefixed]
      BY <1>2 DEF Feed!Value
    <2> HIDE DEF v
    <2>2. v.kind = "string" /\ v.number = n /\ v.prefixed = prefixed
      BY <2>1
    <2>3. Feed!Kind(v) = IF prefixed THEN "text" ELSE "string"
      BY <2>2 DEF Feed!Kind
    <2>4. QED BY <1>2, <2>2, <2>3 DEF v
  <1>3. CASE kind \in {"int", "float"}
    <2>1. v = [kind |-> kind, number |-> n]
      BY <1>3 DEF Feed!Value
    <2> HIDE DEF v
    <2>2. v.kind = kind /\ v.number = n
      BY <2>1
    <2>3. Feed!Kind(v) = kind
      BY <1>3, <2>2 DEF Feed!Kind
    <2>4. QED BY <1>3, <2>2, <2>3 DEF v
  <1>4. QED BY <1>1, <1>2, <1>3

LEMMA KindOfPlain ==
    ASSUME NEW n, NEW kind \in {"int", "float", "string", "null"}
    PROVE  /\ Feed!Kind(Feed!Value(kind, n, FALSE)) = kind
           /\ kind # "null" => Feed!Value(kind, n, FALSE).number = n
  <1> DEFINE v == Feed!Value(kind, n, FALSE)
  <1>1. CASE kind = "null"
    <2>1. v = [kind |-> "null"]
      BY <1>1 DEF Feed!Value, Feed!Null
    <2> HIDE DEF v
    <2>2. Feed!Kind(v) = "null"
      BY <2>1 DEF Feed!Kind
    <2>3. QED BY <1>1, <2>2 DEF v
  <1>2. CASE kind = "string"
    <2>1. v = [kind |-> "string", number |-> n, prefixed |-> FALSE]
      BY <1>2 DEF Feed!Value
    <2> HIDE DEF v
    <2>2. v.kind = "string" /\ v.number = n /\ ~v.prefixed
      BY <2>1
    <2>3. Feed!Kind(v) = "string"
      BY <2>2 DEF Feed!Kind
    <2>4. QED BY <1>2, <2>2, <2>3 DEF v
  <1>3. CASE kind \in {"int", "float"}
    <2>1. v = [kind |-> kind, number |-> n]
      BY <1>3 DEF Feed!Value
    <2> HIDE DEF v
    <2>2. v.kind = kind /\ v.number = n
      BY <2>1
    <2>3. Feed!Kind(v) = kind
      BY <1>3, <2>2 DEF Feed!Kind
    <2>4. QED BY <1>3, <2>2, <2>3 DEF v
  <1>4. QED BY <1>1, <1>2, <1>3

\* However a tick is wrapped and written, the parser reads it, for any prices,
\* tokens and units of time.
LEMMA ParsesAll ==
    ASSUME NEW tick \in Ticks, NEW e \in Feed!Encodings(Positions)
    PROVE  Feed!IsParsed(tick, e, Feed!ParseLtp(Feed!Encode(tick, e)))
  <1> DEFINE body == Feed!Body(tick, e)
             obj == Feed!Object(body)
             tv == Feed!Value(e.tokenKind, tick.number, tick.prefixed)
             pv == Feed!Value(e.ltpKind, tick.ltp, FALSE)
             sv == Feed!Value(e.tsKind, Time(tick, e), FALSE)
             tokens == Feed!Usable(obj, Feed!TOKEN_KEYS, Feed!Textual)
             prices == Feed!Usable(obj, Feed!PRICE_KEYS, Feed!Numeric)
             times == Feed!Usable(obj, Feed!TS_KEYS, Feed!Numeric)
             quote == Feed!ParseLtp(Feed!Encode(tick, e))
  <1>1. /\ e.token \in 1 .. 5 /\ e.ltp \in 1 .. 5 /\ e.ts \in 1 .. 5 /\ e.nulls \in BOOLEAN
        /\ e.wrap \in {"bare", "array", "data", "data_array", "array_data"}
        /\ e.tokenKind \in {"int", "string"}
        /\ e.ltpKind \in {"int", "float", "string", "null"}
        /\ e.tsKind \in {"int", "float", "string", "null"}
    BY InputAssumption DEF Feed!Encodings
  <1>2. tick.prefixed \in BOOLEAN /\ tick.secs \in Int
    BY InputAssumption
  <1>3. Feed!Unwrap(Feed!Encode(tick, e)) = obj
    BY <1>1, BodyEntries, UnwrapsAll DEF Feed!Encode
  <1>4. /\ Feed!Kind(tv) = IF e.tokenKind = "string" /\ tick.prefixed THEN "text" ELSE e.tokenKind
        /\ tv.kind = e.tokenKind /\ tv.number = tick.number
        /\ e.tokenKind = "string" => tv.prefixed = tick.prefixed
    BY <1>1, <1>2, KindOfValue
  <1>5. Feed!Kind(pv) = e.ltpKind /\ (e.ltpKind # "null" => pv.number = tick.ltp)
    BY <1>1, KindOfPlain
  <1>6. Feed!Kind(sv) = e.tsKind /\ (e.tsKind # "null" => sv.number = Time(tick, e))
    BY <1>1, KindOfPlain
  <1>7. "null" \notin Feed!Textual /\ "null" \notin Feed!Numeric
    BY DEF Feed!Textual, Feed!Numeric
  <1> HIDE DEF body, tv, pv, sv
  <1>8. /\ HasEntry(body, Feed!TOKEN_KEYS, e.token, e.nulls, tv)
        /\ HasEntry(body, Feed!PRICE_KEYS, e.ltp, e.nulls, pv)
        /\ HasEntry(body, Feed!TS_KEYS, e.ts, e.nulls, sv)
    BY BodyEntries DEF body, tv, pv, sv
  <1>9. tokens # {} /\ Feed!First(obj, Feed!TOKEN_KEYS, Feed!Textual) = tv
    <2>1. Feed!Kind(tv) \in Feed!Textual
      BY <1>1, <1>4 DEF Feed!Textual, Feed!Numeric
    <2>2. QED BY <1>1, <1>7, <1>8, <2>1, KeyLists, OneUsable
  <1>10. /\ e.ltpKind # "null" =>
               prices # {} /\ Feed!First(obj, Feed!PRICE_KEYS, Feed!Numeric) = pv
         /\ e.ltpKind = "null" => prices = {}
    <2>1. Feed!Kind(pv) \in Feed!Numeric <=> e.ltpKind # "null"
      BY <1>1, <1>5 DEF Feed!Numeric
    <2>2. QED BY <1>1, <1>7, <1>8, <2>1, KeyLists, OneUsable
  <1>11. /\ e.tsKind # "null" =>
               times # {} /\ Feed!First(obj, Feed!TS_KEYS, Feed!Numeric) = sv
         /\ e.tsKind = "null" => times = {}
    <2>1. Feed!Kind(sv) \in Feed!Numeric <=> e.tsKind # "null"
      BY <1>1, <1>6 DEF Feed!Numeric
    <2>2. QED BY <1>1, <1>7, <1>8, <2>1, KeyLists, OneUsable
  <1>12. quote = IF {} \in {tokens, prices} THEN Feed!Nothing
                 ELSE [found |-> TRUE,
                       token |-> Feed!StripPrefix(Feed!Text(Feed!First(obj, Feed!TOKEN_KEYS, Feed!Textual))),
                       ltp   |-> Feed!First(obj, Feed!PRICE_KEYS, Feed!Numeric).number,
                       ts    |-> IF times = {} THEN Feed!Epoch
                                 ELSE Feed!ToTimepoint(Feed!First(obj, Feed!TS_KEYS, Feed!Numeric).number)]
    BY <1>3 DEF Feed!ParseLtp
  <1> HIDE DEF quote, tokens, prices, times, obj
  <1>13. CASE e.ltpKind = "null"
    <2>1. quote = Feed!Nothing
      BY <1>10, <1>12, <1>13
    <2>2. QED BY <1>13, <2>1 DEF Feed!IsParsed, quote
  <1>14. CASE e.ltpKind # "null"
    <2>1. {} \notin {tokens, prices}
      BY <1>9, <1>10, <1>14
    <2>2. quote = [found |-> TRUE,
                   token |-> Feed!StripPrefix(Feed!Text(tv)),
                   ltp   |-> pv.number,
                   ts    |-> IF times = {} THEN Feed!Epoch
                             ELSE Feed!ToTimepoint(Feed!First(obj, Feed!TS_KEYS, Feed!Numeric).number)]
      BY <1>9, <1>10, <1>12, <1>14, <2>1
    <2>3. /\ quote.found /\ quote.ltp = tick.ltp
          /\ quote.token = Feed!StripPrefix(Feed!Text(tv))
          /\ e.tsKind = "null" => quote.ts = Feed!Epoch
          /\ e.tsKind # "null" => quote.ts = Feed!ToTimepoint(Time(tick, e))
      BY <1>5, <1>6, <1>11, <1>14, <2>2
    <2>4. Feed!Text(tv) = [prefixed |-> e.tokenKind = "string" /\ tick.prefixed,
                           number |-> tick.number, point |-> FALSE]
      <3>1. tv.kind = "float" <=> FALSE
        BY <1>1, <1>4
      <3>2. (tv.kind = "string" /\ tv.prefixed) <=> (e.tokenKind = "string" /\ tick.prefixed)
        BY <1>1, <1>4
      <3>3. QED BY <1>4, <3>1, <3>2 DEF Feed!Text
    <2>5. Feed!InEra(tick.secs) =>
             Feed!ToTimepoint(Time(tick, e)) = tick.secs * (MillisPerSecond * TicksPerMilli)
      BY GuessedRight
    <2>6. QED BY <1>14, <2>3, <2>4, <2>5 DEF Feed!IsParsed, quote
  <1>15. QED BY <1>13, <1>14

-----------------------------------------------------------------------------
(* The calls *)

\* Every capacity asked for becomes the least power of two that holds it, for
\* any width of a size (ingest_queue.cpp:5-13).
THEOREM CapacityRounded == Spec => []LeastPowerThatHolds
  <1>1. Init => LeastPowerThatHolds
    BY DEF Init, NoCall, LeastPowerThatHolds
  <1>2. LeastPowerThatHolds /\ [Next]_call => LeastPowerThatHolds'
    <2> SUFFICES ASSUME LeastPowerThatHolds, [Next]_call PROVE LeastPowerThatHolds'
      OBVIOUS
    <2>1. CASE RoundCapacity
      <3>1. PICK n \in Sizing!Words :
               call' = [op |-> "next_pow2", request |-> n, slots |-> Sizing!NextPow2(n)]
        BY <2>1 DEF RoundCapacity
      <3>2. Sizing!IsLeastPower(n, Sizing!NextPow2(n))
        BY NextIsLeast
      <3>3. QED BY <3>1, <3>2 DEF LeastPowerThatHolds
    <2>2. CASE DecodeSecret \/ VerifyCode \/ ParseFrame
      BY <2>2 DEF DecodeSecret, VerifyCode, ParseFrame, LeastPowerThatHolds
    <2>3. CASE UNCHANGED call
      BY <2>3 DEF LeastPowerThatHolds
    <2>4. QED BY <2>1, <2>2, <2>3 DEF Next
  <1>3. QED BY <1>1, <1>2, PTL DEF Spec

\* Every text without foreign characters is decoded bit by bit, however long it
\* is and however narrow an int of at least 12 bits (totp.cpp:25-53).
THEOREM SecretsDecoded == Spec => []SecretDecoded
  <1>1. Init => SecretDecoded
    BY DEF Init, NoCall, SecretDecoded
  <1>2. SecretDecoded /\ [Next]_call => SecretDecoded'
    <2> SUFFICES ASSUME SecretDecoded, [Next]_call PROVE SecretDecoded'
      OBVIOUS
    <2>1. CASE DecodeSecret
      <3> DEFINE Calls(text) ==
               call' = [op |-> "base32_decode", text |-> text, decodes |-> Codes!Decodes(text),
                        bytes |-> IF Codes!Decodes(text) THEN Codes!Decode(text) ELSE <<>>]
      <3>1. PICK length \in 0 .. MaxCharacters : \E text \in [1 .. length -> Characters] : Calls(text)
        BY <2>1 DEF DecodeSecret
      <3>2. PICK text \in [1 .. length -> Characters] : Calls(text)
        BY <3>1
      <3>3. ASSUME Codes!Decodes(text) PROVE Codes!IsDecoded(text, Codes!Decode(text))
        <4>1. length \in Nat /\ DOMAIN text = 1 .. length
          BY InputAssumption
        <4>2. ASSUME NEW i \in 1 .. length
              PROVE  text[i] \in Codes!Symbol \cup {Codes!Padding}
          <5>1. text[i] \in Characters /\ text[i] # Codes!Foreign
            BY <3>3, <4>1 DEF Codes!Decodes, Codes!Range
          <5>2. QED BY <5>1, InputAssumption
        <4>3. text \in Seq(Codes!Symbol \cup {Codes!Padding})
          BY <4>1, <4>2
        <4>4. QED BY <4>3, DecodesBits
      <3>4. QED BY <3>2, <3>3 DEF SecretDecoded
    <2>2. CASE RoundCapacity \/ VerifyCode \/ ParseFrame
      BY <2>2 DEF RoundCapacity, VerifyCode, ParseFrame, SecretDecoded
    <2>3. CASE UNCHANGED call
      BY <2>3 DEF SecretDecoded
    <2>4. QED BY <2>1, <2>2, <2>3 DEF Next
  <1>3. QED BY <1>1, <1>2, PTL DEF Spec

\* verify's answers are right for every pair of clocks, period and window, and
\* for every length of code that fits (totp.cpp:99-107, 148-160).
THEOREM SkewSurvived == Spec => []CodesSurviveSkew
  <1>1. Init => CodesSurviveSkew
    BY DEF Init, NoCall, CodesSurviveSkew
  <1>2. CodesSurviveSkew /\ [Next]_call => CodesSurviveSkew'
    <2> SUFFICES ASSUME CodesSurviveSkew, [Next]_call PROVE CodesSurviveSkew'
      OBVIOUS
    <2>1. CASE VerifyCode
      <3>1. PICK s \in Times, t \in Times, period \in Periods, digits \in Digits, window \in Windows :
               call' = [op |-> "verify", made |-> s, checked |-> t, window |-> window,
                        period |-> period, digits |-> digits,
                        answer |-> Codes!Verify(Codes!CodeAt(s, period, digits), t,
                                                window, period, digits)]
        BY <2>1 DEF VerifyCode
      <3>2. /\ s \in Int /\ t \in Int /\ period \in Nat \ {0}
            /\ digits \in Nat /\ window \in Nat
        BY InputAssumption
      <3>3. Codes!Fits(digits) =>
               Codes!IsVerified(s, t, window, period, digits,
                  Codes!Verify(Codes!CodeAt(s, period, digits), t, window, period, digits))
        BY <3>2, VerifiesWindow
      <3>4. QED BY <3>1, <3>3 DEF CodesSurviveSkew
    <2>2. CASE RoundCapacity \/ DecodeSecret \/ ParseFrame
      BY <2>2 DEF RoundCapacity, DecodeSecret, ParseFrame, CodesSurviveSkew
    <2>3. CASE UNCHANGED call
      BY <2>3 DEF CodesSurviveSkew
    <2>4. QED BY <2>1, <2>2, <2>3 DEF Next
  <1>3. QED BY <1>1, <1>2, PTL DEF Spec

\* The parser reads every encoding of every tick (parser.cpp:10-113).
THEOREM EncodingsRead == Spec => []EncodingsAgree
  <1>1. Init => EncodingsAgree
    BY DEF Init, NoCall, EncodingsAgree
  <1>2. EncodingsAgree /\ [Next]_call => EncodingsAgree'
    <2> SUFFICES ASSUME EncodingsAgree, [Next]_call PROVE EncodingsAgree'
      OBVIOUS
    <2>1. CASE ParseFrame
      <3>1. PICK tick \in Ticks, e \in Feed!Encodings(Positions) :
               call' = [op |-> "parse_ltp", tick |-> tick, encoding |-> e,
                        quote |-> Feed!ParseLtp(Feed!Encode(tick, e))]
        BY <2>1 DEF ParseFrame
      <3>2. Feed!IsParsed(tick, e, Feed!ParseLtp(Feed!Encode(tick, e)))
        BY ParsesAll
      <3>3. QED BY <3>1, <3>2 DEF EncodingsAgree
    <2>2. CASE RoundCapacity \/ DecodeSecret \/ VerifyCode
      BY <2>2 DEF RoundCapacity, DecodeSecret, VerifyCode, EncodingsAgree
    <2>3. CASE UNCHANGED call
      BY <2>3 DEF EncodingsAgree
    <2>4. QED BY <2>1, <2>2, <2>3 DEF Next
  <1>3. QED BY <1>1, <1>2, PTL DEF Spec
=============================================================================
