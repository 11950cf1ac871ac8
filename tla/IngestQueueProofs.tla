-------------------------- MODULE IngestQueueProofs --------------------------
(***************************************************************************)
(* Proofs about IngestQueue for every capacity and every index width.      *)
(***************************************************************************)
EXTENDS IngestQueue, TLAPS

(***************************************************************************)
(* Facts about % that unsigned machine arithmetic rests on.                *)
(***************************************************************************)

\* Division with remainder, for a positive divisor.
LEMMA DivMod ==
    ASSUME NEW a \in Int, NEW n \in Nat \ {0}
    PROVE  /\ a % n \in 0 .. n - 1
           /\ a \div n \in Int
           /\ a = n * (a \div n) + (a % n)
  OBVIOUS

\* The remainder is the only one in range.
LEMMA ModUnique ==
    ASSUME NEW n \in Nat \ {0}, NEW q \in Int, NEW r \in 0 .. n - 1,
           NEW a \in Int, a = n * q + r
    PROVE  a % n = r
  <1> DEFINE d == a \div n - q
  <1>1. /\ a % n \in 0 .. n - 1
        /\ a \div n \in Int
        /\ a = n * (a \div n) + (a % n)
    BY DivMod
  <1>2. d \in Int /\ n * d = r - (a % n)
    BY <1>1
  <1>3. d = 0
    <2>1. CASE d >= 1
      <3>1. n * d >= n  BY <2>1, <1>2
      <3>2. QED         BY <3>1, <1>1, <1>2
    <2>2. CASE d <= -1
      <3>1. n * d <= -n BY <2>2, <1>2
      <3>2. QED         BY <3>1, <1>1, <1>2
    <2>3. QED BY <2>1, <2>2, <1>2
  <1>4. QED BY <1>1, <1>2, <1>3

\* Multiplication is associative and distributes over addition.
LEMMA Distribute ==
    ASSUME NEW c \in Int, NEW k \in Int, NEW x \in Int, NEW y \in Int
    PROVE  (c * k) * x + c * y = c * (k * x + y)
  OBVIOUS

\* Reducing first modulo a multiple of the divisor changes nothing:
\* (i mod 2^64) & mask = i & mask.
LEMMA ModOfMod ==
    ASSUME NEW M \in Nat \ {0}, NEW C \in Nat \ {0}, M % C = 0, NEW a \in Int
    PROVE  (a % M) % C = a % C
  <1> DEFINE K == M \div C
             x == a \div M
             r == a % M
             y == r \div C
             q == K * x + y
             z == r % C
  <1>1. r \in 0 .. M - 1 /\ x \in Int /\ a = M * x + r
    BY DivMod
  <1>2. K \in Int /\ M = C * K
    BY DivMod
  <1>3. z \in 0 .. C - 1 /\ y \in Int /\ r = C * y + z
    BY DivMod, <1>1
  <1> HIDE DEF K, x, y, r
  <1>4. q \in Int
    BY <1>1, <1>2, <1>3
  <1>5. C * q = (C * K) * x + C * y
    BY <1>1, <1>2, <1>3, Distribute
  <1>6. (C * K) * x \in Int /\ C * y \in Int /\ (C * K) * x = M * x
    BY <1>1, <1>2, <1>3
  <1>7. a = C * q + z
    BY <1>1, <1>3, <1>5, <1>6
  <1> HIDE DEF q, z
  <1>8. a % C = z
    BY <1>3, <1>4, <1>7, ModUnique
  <1>9. QED BY <1>8 DEF r, z

\* Numbers less than the modulus apart have different remainders.
LEMMA ModInjective ==
    ASSUME NEW C \in Nat \ {0}, NEW i \in Int, NEW j \in Int, i < j, j < i + C
    PROVE  i % C # j % C
  <1> SUFFICES ASSUME i % C = j % C PROVE FALSE
    OBVIOUS
  <1> DEFINE d == j \div C - i \div C
  <1>1. /\ i % C \in 0 .. C - 1 /\ i \div C \in Int /\ i = C * (i \div C) + (i % C)
        /\ j % C \in 0 .. C - 1 /\ j \div C \in Int /\ j = C * (j \div C) + (j % C)
    BY DivMod
  <1>2. d \in Int /\ C * d = j - i
    BY <1>1
  <1>3. CASE d >= 1
    <2>1. C * d >= C BY <1>3, <1>2
    <2>2. QED        BY <2>1, <1>2
  <1>4. CASE d <= 0
    <2>1. C * d <= 0 BY <1>4, <1>2
    <2>2. QED        BY <2>1, <1>2
  <1>5. QED BY <1>3, <1>4, <1>2

\* A difference of remainders recovers a difference that is in range:
\* unsigned head - tail counts correctly across the wrap.
LEMMA ModDifference ==
    ASSUME NEW M \in Nat \ {0}, NEW a \in Int, NEW b \in Int,
           a - b \in 0 .. M - 1
    PROVE  ((a % M) - (b % M)) % M = a - b
  <1> DEFINE x == a \div M
             y == b \div M
             q == y - x
             r == a - b
             s == (a % M) - (b % M)
  <1>1. /\ a % M \in Int /\ x \in Int /\ a = M * x + (a % M)
        /\ b % M \in Int /\ y \in Int /\ b = M * y + (b % M)
    BY DivMod
  <1>2. s \in Int /\ q \in Int /\ r \in 0 .. M - 1
    BY <1>1
  <1>3. M * q = M * y - M * x
    BY <1>1
  <1>4. s = M * q + r
    BY <1>1, <1>3
  <1> HIDE DEF q, r, s
  <1>5. s % M = r
    BY <1>2, <1>4, ModUnique
  <1>6. QED BY <1>5 DEF r, s

\* Adding to a remainder and reducing again is adding first.
LEMMA ModSum ==
    ASSUME NEW M \in Nat \ {0}, NEW a \in Int, NEW b \in Int
    PROVE  ((a % M) + b) % M = (a + b) % M
  <1> DEFINE x == a \div M
             t == a + b
             y == t \div M
             q == y - x
             r == t % M
             s == (a % M) + b
  <1>1. /\ a % M \in Int /\ x \in Int /\ a = M * x + (a % M)
        /\ t \in Int
    BY DivMod
  <1> HIDE DEF t
  <1>2. r \in 0 .. M - 1 /\ y \in Int /\ t = M * y + r
    BY <1>1, DivMod
  <1>3. s \in Int /\ q \in Int
    BY <1>1, <1>2
  <1>4. M * q = M * y - M * x
    BY <1>1, <1>2
  <1>5. s = M * q + r
    BY <1>1, <1>2, <1>4 DEF t
  <1> HIDE DEF q, r, s
  <1>6. s % M = r
    BY <1>2, <1>3, <1>5, ModUnique
  <1>7. QED BY <1>6 DEF r, s, t

(***************************************************************************)
(* Index arithmetic.                                                       *)
(***************************************************************************)

\* Indices and slots stay in range.
LEMMA Ranges ==
    ASSUME NEW n \in Int
    PROVE  Index(n) \in 0 .. IndexMod - 1 /\ Slot(n) \in 0 .. Capacity - 1
  BY DivMod, QueueAssumption DEF Index, Slot

\* The slot of a wrapped index is the slot of the count it stands for.
LEMMA SlotOfIndex ==
    ASSUME NEW n \in Int
    PROVE  Slot(Index(n)) = Slot(n)
  BY ModOfMod, QueueAssumption DEF Index, Slot

\* Stepping an index steps the count.
LEMMA IndexNext ==
    ASSUME NEW n \in Int
    PROVE  (Index(n) + 1) % IndexMod = Index(n + 1)
  <1>1. IndexMod \in Nat \ {0} /\ n \in Int /\ 1 \in Int
    BY QueueAssumption
  <1>2. ((n % IndexMod) + 1) % IndexMod = (n + 1) % IndexMod
    BY <1>1, ModSum
  <1>3. QED
    BY <1>2 DEF Index

\* The unsigned difference of two indices is the difference of their counts.
LEMMA DistanceExact ==
    ASSUME NEW a \in Int, NEW b \in Int, a - b \in 0 .. Capacity
    PROVE  Distance(Index(a), Index(b)) = a - b
  <1>1. a - b \in 0 .. IndexMod - 1
    BY QueueAssumption
  <1>2. QED
    BY <1>1, ModDifference, QueueAssumption DEF Index, Distance

\* Counts at most a capacity apart have the same index only if equal.
LEMMA IndexInjective ==
    ASSUME NEW a \in Int, NEW b \in Int, b <= a, a - b <= Capacity,
           Index(a) = Index(b)
    PROVE  a = b
  <1>1. Distance(Index(a), Index(b)) = a - b
    BY DistanceExact, QueueAssumption
  <1>2. Distance(Index(a), Index(a)) = 0
    BY DistanceExact, QueueAssumption
  <1>3. QED
    BY <1>1, <1>2

\* Counts less than a capacity apart use different slots.
LEMMA SlotsDistinct ==
    ASSUME NEW a \in Int, NEW b \in Int, b < a, a - b < Capacity
    PROVE  Slot(a) # Slot(b)
  <1>1. Capacity \in Nat \ {0} /\ a < b + Capacity
    BY QueueAssumption
  <1>2. b % Capacity # a % Capacity
    BY <1>1, ModInjective
  <1>3. QED
    BY <1>2 DEF Slot

(***************************************************************************)
(* The invariant.                                                          *)
(***************************************************************************)

\* An empty ring with both indices at zero satisfies the invariant.
LEMMA InitIInv == Init => IInv
  <1> SUFFICES ASSUME Init PROVE IInv
    OBVIOUS
  <1>1. Index(0) = 0
    BY ModUnique, QueueAssumption DEF Index
  <1>2. TypeOK
    BY QueueAssumption DEF Init, TypeOK, NoFrame
  <1>3. QED
    BY <1>1, <1>2, QueueAssumption
    DEF Init, IInv, CountsOrdered, IndicesMatchCounts, ProducerInv, ConsumerInv,
        SizerInv, QueuedFramesIntact, PopsInOrder

(* try_push: only the write and the publication touch what the consumer      *)
(* reads.                                                                  *)

\* A push refused for lack of room only refreshes what the producer saw.
LEMMA TryPushFullInv == IInv /\ TryPushFull => IInv'
  <1> SUFFICES ASSUME IInv, TryPushFull PROVE IInv'
    OBVIOUS
  <1> USE QueueAssumption DEF IInv, TryPushFull, ProducerReady, consVars, sizeVars
  <1>1. PICK n \in seenTail .. popped :
            Distance(head, Index(n)) = Capacity /\ seenTail' = n
    OBVIOUS
  <1>2. n \in Nat /\ seenTail <= n /\ n <= popped
    BY <1>1 DEF TypeOK
  <1>3. TypeOK'
    BY <1>1, <1>2 DEF TypeOK
  <1>4. CountsOrdered'
    BY <1>1, <1>2 DEF CountsOrdered, TypeOK
  <1>5. QED
    BY <1>3, <1>4 DEF IndicesMatchCounts, ProducerInv, ConsumerInv, SizerInv,
                      QueuedFramesIntact, PopsInOrder

\* Passing the full test establishes the room the write relies on.
LEMMA TryPushBeginInv == IInv /\ TryPushBegin => IInv'
  <1> SUFFICES ASSUME IInv, TryPushBegin PROVE IInv'
    OBVIOUS
  <1> USE QueueAssumption DEF IInv, TryPushBegin, ProducerReady, consVars, sizeVars
  <1>1. PICK n \in seenTail .. popped :
            Distance(head, Index(n)) # Capacity /\ seenTail' = n
    OBVIOUS
  <1>2. n \in Nat /\ seenTail <= n /\ n <= popped
    BY <1>1 DEF TypeOK
  <1>3. TypeOK'
    BY <1>1, <1>2 DEF TypeOK
  <1>4. CountsOrdered'
    BY <1>1, <1>2 DEF CountsOrdered, TypeOK
  <1>5. pushed - n < Capacity
    <2>1. pushed - n \in 0 .. Capacity
      BY <1>2 DEF CountsOrdered, TypeOK
    <2>2. Distance(head, Index(n)) = pushed - n
      BY <1>2, <2>1, DistanceExact DEF IndicesMatchCounts, TypeOK
    <2>3. QED
      BY <1>1, <2>1, <2>2
  <1>6. ProducerInv'
    BY <1>1, <1>5 DEF ProducerInv
  <1>7. QED
    BY <1>3, <1>4, <1>6 DEF IndicesMatchCounts, ConsumerInv, SizerInv,
                            QueuedFramesIntact, PopsInOrder

\* The slot written is not the slot of any queued frame.
LEMMA TryPushWriteInv == IInv /\ TryPushWrite => IInv'
  <1> SUFFICES ASSUME IInv, TryPushWrite PROVE IInv'
    OBVIOUS
  <1> USE QueueAssumption DEF IInv, TryPushWrite, consVars, sizeVars
  <1>1. /\ pushed \in Nat /\ popped \in Nat /\ popped <= pushed
        /\ pushed - popped < Capacity
        /\ pHead = Index(pushed)
    BY DEF TypeOK, CountsOrdered, ProducerInv, IndicesMatchCounts
  <1>2. Slot(pHead) = Slot(pushed) /\ Slot(pHead) \in 0 .. Capacity - 1
    BY <1>1, SlotOfIndex, Ranges
  <1>3. TypeOK'
    BY <1>1, <1>2 DEF TypeOK
  <1>4. ASSUME NEW k \in popped .. pushed - 1
        PROVE  Slot(Index(k)) # Slot(pHead)
    <2>1. k \in Int /\ k < pushed /\ pushed - k < Capacity
      BY <1>1
    <2>2. Slot(k) # Slot(pushed)
      BY <1>1, <2>1, SlotsDistinct
    <2>3. QED
      BY <1>2, <2>1, <2>2, SlotOfIndex
  <1>5. QueuedFramesIntact'
    <2> SUFFICES ASSUME NEW k \in popped .. pushed - 1
                 PROVE  \/ buf'[Slot(Index(k))] = k
                        \/ k = popped /\ cpc = "release" /\ out = k
      BY DEF QueuedFramesIntact
    <2>1. k \in Int
      BY <1>1
    <2>2. Slot(Index(k)) \in 0 .. Capacity - 1
      BY <2>1, Ranges, SlotOfIndex
    <2>3. buf'[Slot(Index(k))] = buf[Slot(Index(k))]
      BY <1>4, <2>2 DEF TypeOK
    <2>4. QED
      BY <2>3 DEF QueuedFramesIntact
  <1>6. buf'[Slot(pHead)] = pushed
    BY <1>2 DEF TypeOK
  <1>7. ProducerInv'
    BY <1>6 DEF ProducerInv
  <1>8. QED
    BY <1>3, <1>5, <1>7 DEF CountsOrdered, IndicesMatchCounts, ConsumerInv,
                            SizerInv, PopsInOrder

\* Storing head_ + 1 accepts the frame already in its slot.
LEMMA TryPushPublishInv == IInv /\ TryPushPublish => IInv'
  <1> SUFFICES ASSUME IInv, TryPushPublish PROVE IInv'
    OBVIOUS
  <1> USE QueueAssumption DEF IInv, TryPushPublish, consVars, sizeVars
  <1>1. /\ pushed \in Nat /\ popped \in Nat
        /\ pHead = Index(pushed) /\ buf[Slot(pHead)] = pushed
        /\ pushed - seenTail < Capacity
    BY DEF TypeOK, ProducerInv, IndicesMatchCounts
  <1>2. head' = Index(pushed + 1) /\ head' \in 0 .. IndexMod - 1
    BY <1>1, IndexNext, Ranges
  <1>3. TypeOK'
    BY <1>1, <1>2 DEF TypeOK
  <1>4. CountsOrdered'
    BY <1>1 DEF CountsOrdered, TypeOK
  <1>5. IndicesMatchCounts'
    BY <1>2 DEF IndicesMatchCounts
  <1>6. QueuedFramesIntact'
    <2> SUFFICES ASSUME NEW k \in popped .. pushed
                 PROVE  \/ buf[Slot(Index(k))] = k
                        \/ k = popped /\ cpc = "release" /\ out = k
      BY <1>1 DEF QueuedFramesIntact
    <2>1. CASE k = pushed
      BY <1>1, <2>1
    <2>2. CASE k # pushed
      <3>1. k \in popped .. pushed - 1
        BY <1>1, <2>2
      <3>2. QED
        BY <3>1 DEF QueuedFramesIntact
    <2>3. QED
      BY <2>1, <2>2
  <1>7. sizer # "producer"
    BY DEF SizerInv
  <1>8. ProducerInv' /\ ConsumerInv' /\ SizerInv' /\ PopsInOrder'
    BY <1>7 DEF ProducerInv, ConsumerInv, SizerInv, PopsInOrder
  <1>9. QED
    BY <1>3, <1>4, <1>5, <1>6, <1>8

(* try_pop.                                                                *)

\* A pop refused for lack of frames only refreshes what the consumer saw.
LEMMA TryPopEmptyInv == IInv /\ TryPopEmpty => IInv'
  <1> SUFFICES ASSUME IInv, TryPopEmpty PROVE IInv'
    OBVIOUS
  <1> USE QueueAssumption DEF IInv, TryPopEmpty, ConsumerReady, prodVars, sizeVars
  <1>1. PICK n \in seenHead .. pushed : seenHead' = n
    OBVIOUS
  <1>2. n \in Nat /\ seenHead <= n /\ n <= pushed
    BY <1>1 DEF TypeOK
  <1>3. TypeOK' /\ CountsOrdered'
    BY <1>1, <1>2 DEF TypeOK, CountsOrdered
  <1>4. QED
    BY <1>3 DEF IndicesMatchCounts, ProducerInv, ConsumerInv, SizerInv,
                QueuedFramesIntact, PopsInOrder

\* Passing the empty test establishes that the frame to move is queued.
LEMMA TryPopBeginInv == IInv /\ TryPopBegin => IInv'
  <1> SUFFICES ASSUME IInv, TryPopBegin PROVE IInv'
    OBVIOUS
  <1> USE QueueAssumption DEF IInv, TryPopBegin, ConsumerReady, prodVars, sizeVars
  <1>1. PICK n \in seenHead .. pushed : Index(n) # tail /\ seenHead' = n
    OBVIOUS
  <1>2. n \in Nat /\ seenHead <= n /\ n <= pushed
    BY <1>1 DEF TypeOK
  <1>3. popped < n
    BY <1>1, <1>2 DEF TypeOK, CountsOrdered, IndicesMatchCounts
  <1>4. TypeOK' /\ CountsOrdered'
    BY <1>1, <1>2 DEF TypeOK, CountsOrdered
  <1>5. ConsumerInv' /\ SizerInv'
    BY <1>1, <1>3 DEF ConsumerInv, SizerInv
  <1>6. QueuedFramesIntact' /\ PopsInOrder'
    BY DEF QueuedFramesIntact, PopsInOrder
  <1>7. QED
    BY <1>4, <1>5, <1>6 DEF IndicesMatchCounts, ProducerInv

\* The frame moved out is the oldest, and no other queued frame's slot, nor
\* the slot the producer is publishing, is touched.
LEMMA TryPopTakeInv == IInv /\ TryPopTake => IInv'
  <1> SUFFICES ASSUME IInv, TryPopTake PROVE IInv'
    OBVIOUS
  <1> USE QueueAssumption DEF IInv, TryPopTake, prodVars, sizeVars
  <1>1. /\ pushed \in Nat /\ popped \in Nat /\ popped < pushed
        /\ pushed - popped <= Capacity
        /\ cTail = Index(popped)
    BY DEF TypeOK, CountsOrdered, ConsumerInv, IndicesMatchCounts
  <1>2. Slot(cTail) = Slot(Index(popped)) /\ Slot(cTail) = Slot(popped)
        /\ Slot(cTail) \in 0 .. Capacity - 1
    BY <1>1, SlotOfIndex, Ranges
  <1>3. out' = popped
    BY <1>1, <1>2 DEF QueuedFramesIntact
  <1>4. TypeOK'
    BY <1>1, <1>2, <1>3 DEF TypeOK, NoFrame
  <1>5. ASSUME NEW k \in Int, popped < k, k - popped < Capacity
        PROVE  buf'[Slot(Index(k))] = buf[Slot(Index(k))]
    <2>1. Slot(Index(k)) = Slot(k) /\ Slot(k) \in 0 .. Capacity - 1
      BY SlotOfIndex, Ranges
    <2>2. Slot(k) # Slot(popped)
      BY <1>1, <1>5, SlotsDistinct
    <2>3. QED
      BY <1>2, <2>1, <2>2 DEF TypeOK
  <1>6. QueuedFramesIntact'
    <2> SUFFICES ASSUME NEW k \in popped .. pushed - 1
                 PROVE  buf'[Slot(Index(k))] = k \/ k = popped
      BY <1>1, <1>3 DEF QueuedFramesIntact
    <2>1. CASE k # popped
      <3>1. k \in Int /\ popped < k /\ k - popped < Capacity
        BY <1>1, <2>1
      <3>2. buf[Slot(Index(k))] = k
        BY <2>1 DEF QueuedFramesIntact
      <3>3. QED
        BY <1>5, <3>1, <3>2
    <2>2. QED
      BY <2>1
  <1>7. ProducerInv'
    <2>1. CASE ppc = "publish"
      <3>1. pHead = Index(pushed) /\ pushed - popped < Capacity
        BY <2>1 DEF ProducerInv, IndicesMatchCounts, CountsOrdered, TypeOK
      <3>2. buf'[Slot(pHead)] = buf[Slot(pHead)]
        BY <1>1, <1>5, <3>1
      <3>3. QED
        BY <2>1, <3>2 DEF ProducerInv
    <2>2. CASE ppc # "publish"
      BY <2>2 DEF ProducerInv
    <2>3. QED
      BY <2>1, <2>2
  <1>8. PopsInOrder'
    BY <1>3 DEF PopsInOrder
  <1>9. CountsOrdered' /\ IndicesMatchCounts' /\ ConsumerInv' /\ SizerInv'
    BY DEF CountsOrdered, IndicesMatchCounts, ConsumerInv, SizerInv
  <1>10. QED
    BY <1>4, <1>6, <1>7, <1>8, <1>9

\* Storing tail_ + 1 drops the frame that was moved out.
LEMMA TryPopReleaseInv == IInv /\ TryPopRelease => IInv'
  <1> SUFFICES ASSUME IInv, TryPopRelease PROVE IInv'
    OBVIOUS
  <1> USE QueueAssumption DEF IInv, TryPopRelease, prodVars, sizeVars
  <1>1. /\ popped \in Nat /\ popped < seenHead /\ cTail = Index(popped)
    BY DEF TypeOK, ConsumerInv, IndicesMatchCounts
  <1>2. tail' = Index(popped + 1) /\ tail' \in 0 .. IndexMod - 1
    BY <1>1, IndexNext, Ranges
  <1>3. TypeOK' /\ CountsOrdered'
    BY <1>1, <1>2 DEF TypeOK, CountsOrdered
  <1>4. IndicesMatchCounts'
    BY <1>2 DEF IndicesMatchCounts
  <1>5. QueuedFramesIntact'
    <2> SUFFICES ASSUME NEW k \in popped + 1 .. pushed - 1
                 PROVE  buf[Slot(Index(k))] = k
      BY DEF QueuedFramesIntact
    <2>1. k \in popped .. pushed - 1 /\ k # popped
      BY <1>1 DEF TypeOK
    <2>2. QED
      BY <2>1 DEF QueuedFramesIntact
  <1>6. ProducerInv' /\ ConsumerInv' /\ SizerInv' /\ PopsInOrder'
    BY DEF ProducerInv, ConsumerInv, SizerInv, PopsInOrder
  <1>7. QED
    BY <1>3, <1>4, <1>5, <1>6

(* size() and clear().                                                     *)

\* The first load of size() never runs ahead of what its caller knows.
LEMMA SizeLoadHeadInv ==
    ASSUME NEW c \in SizeCallers
    PROVE  IInv /\ SizeLoadHead(c) => IInv'
  <1> SUFFICES ASSUME IInv, SizeLoadHead(c) PROVE IInv'
    OBVIOUS
  <1> USE QueueAssumption DEF IInv, SizeLoadHead, prodVars
  <1>1. PICK n \in VisibleHeads(c) :
            /\ sizeHead' = Index(n)
            /\ seenHead' = IF c = "consumer" THEN n ELSE seenHead
    OBVIOUS
  <1>2. /\ n \in Nat /\ seenHead <= n /\ n <= pushed
        /\ c # "consumer" => n = pushed
    BY <1>1 DEF VisibleHeads, TypeOK, CountsOrdered
  <1>3. sizeHead' \in 0 .. IndexMod - 1
    BY <1>1, <1>2, Ranges
  <1>4. TypeOK' /\ CountsOrdered'
    BY <1>1, <1>2, <1>3 DEF TypeOK, CountsOrdered
  <1>5. ConsumerInv'
    BY <1>1, <1>2 DEF ConsumerInv, TypeOK
  <1>6. SizerInv'
    BY <1>1, <1>2 DEF SizerInv
  <1>7. QED
    BY <1>4, <1>5, <1>6 DEF IndicesMatchCounts, ProducerInv,
                            QueuedFramesIntact, PopsInOrder

\* The second load of size() returns to the caller.
LEMMA SizeLoadTailInv == IInv /\ SizeLoadTail => IInv'
  <1> SUFFICES ASSUME IInv, SizeLoadTail PROVE IInv'
    OBVIOUS
  <1> USE QueueAssumption DEF IInv, SizeLoadTail, consVars
  <1>1. PICK n \in VisibleTails(sizer) :
            seenTail' = IF sizer = "producer" THEN n ELSE seenTail
    OBVIOUS
  <1>2. n \in Nat /\ seenTail <= n /\ n <= popped
    BY <1>1 DEF VisibleTails, TypeOK, CountsOrdered
  <1>3. TypeOK' /\ CountsOrdered'
    BY <1>1, <1>2 DEF TypeOK, CountsOrdered
  <1>4. ProducerInv'
    BY <1>1, <1>2 DEF ProducerInv, TypeOK
  <1>5. QED
    BY <1>3, <1>4 DEF IndicesMatchCounts, ConsumerInv, SizerInv,
                      QueuedFramesIntact, PopsInOrder

\* clear() returns the ring to its initial counts.
LEMMA ClearInv == IInv /\ Clear => IInv'
  <1> SUFFICES ASSUME IInv, Clear PROVE IInv'
    OBVIOUS
  <1>1. Index(0) = 0
    BY ModUnique, QueueAssumption DEF Index
  <1>2. TypeOK'
    BY QueueAssumption DEF IInv, Clear, sizeVars, TypeOK, NoFrame
  <1>3. QED
    BY <1>1, <1>2, QueueAssumption
    DEF IInv, Clear, sizeVars, CountsOrdered, IndicesMatchCounts, ProducerInv,
        ConsumerInv, SizerInv, QueuedFramesIntact, PopsInOrder

\* A stuttering step changes nothing.
LEMMA StutterInv == IInv /\ UNCHANGED vars => IInv'
  BY DEF IInv, vars, TypeOK, CountsOrdered, IndicesMatchCounts, ProducerInv,
         ConsumerInv, SizerInv, QueuedFramesIntact, PopsInOrder

\* The invariant holds in every reachable state.
THEOREM Invariance == Spec => []IInv
  <1>1. IInv /\ [Next]_vars => IInv'
    BY TryPushFullInv, TryPushBeginInv, TryPushWriteInv, TryPushPublishInv,
       TryPopEmptyInv, TryPopBeginInv, TryPopTakeInv, TryPopReleaseInv,
       SizeLoadHeadInv, SizeLoadTailInv, ClearInv, StutterInv
    DEF Next, Producer, Consumer, Monitor
  <1>2. QED
    BY <1>1, InitIInv, PTL DEF Spec

(***************************************************************************)
(* The properties.                                                         *)
(***************************************************************************)

\* The variables keep their machine ranges (all of try_push, try_pop, size
\* and clear).
THEOREM TypeCorrect == Spec => []TypeOK
  BY Invariance, PTL DEF IInv

\* No accepted frame is overwritten before it is taken.
THEOREM NoOverwrite == Spec => []QueuedFramesIntact
  BY Invariance, PTL DEF IInv

\* Pops hand out the accepted frames in order, each once.
THEOREM InOrder == Spec => []PopsInOrder
  BY Invariance, PTL DEF IInv

\* Producer and consumer never access the same slot at the same time.
THEOREM RaceFree == Spec => []NoSlotRace
  <1>1. IInv => NoSlotRace
    <2> SUFFICES ASSUME IInv, ppc = "write", cpc = "take"
                 PROVE  Slot(pHead) # Slot(cTail)
      BY DEF NoSlotRace
    <2>1. /\ pushed \in Int /\ popped \in Int
          /\ popped < pushed /\ pushed - popped < Capacity
          /\ pHead = Index(pushed) /\ cTail = Index(popped)
      BY QueueAssumption
      DEF IInv, TypeOK, CountsOrdered, IndicesMatchCounts, ProducerInv, ConsumerInv
    <2>2. Slot(pushed) # Slot(popped)
      BY <2>1, SlotsDistinct
    <2>3. QED
      BY <2>1, <2>2, SlotOfIndex
  <1>2. QED
    BY <1>1, Invariance, PTL

\* The full test (ingest_queue.cpp:23) and the empty test (line 37) decide
\* correctly across the wrap of the indices, for every value the acquire
\* loads may return.
THEOREM ExactTests == Spec => []TestsExact
  <1>1. IInv => TestsExact
    <2> SUFFICES ASSUME IInv PROVE TestsExact
      OBVIOUS
    <2> USE QueueAssumption
    <2>1. /\ pushed \in Nat /\ popped \in Nat /\ seenTail \in Nat /\ seenHead \in Nat
          /\ seenTail <= popped /\ popped <= seenHead /\ seenHead <= pushed
          /\ pushed - seenTail <= Capacity
          /\ head = Index(pushed) /\ tail = Index(popped)
      BY DEF IInv, TypeOK, CountsOrdered, IndicesMatchCounts
    <2>2. ASSUME NEW n \in seenTail .. popped
          PROVE  (Distance(head, Index(n)) = Capacity) <=> (pushed - n = Capacity)
      <3>1. n \in Int /\ pushed - n \in 0 .. Capacity
        BY <2>1
      <3>2. Distance(head, Index(n)) = pushed - n
        BY <2>1, <3>1, DistanceExact
      <3>3. QED
        BY <3>2
    <2>3. ASSUME NEW n \in seenHead .. pushed
          PROVE  (Index(n) = tail) <=> (n = popped)
      <3>1. n \in Int /\ popped <= n /\ n - popped <= Capacity
        BY <2>1
      <3>2. Index(n) = Index(popped) => n = popped
        BY <2>1, <3>1, IndexInjective
      <3>3. QED
        BY <2>1, <3>2
    <2>4. QED
      BY <2>2, <2>3 DEF TestsExact
  <1>2. QED
    BY <1>1, Invariance, PTL

\* size() called by the producer or the consumer returns at most the
\* capacity; a third thread is excluded, for which it is false.
THEOREM SizeBounded ==
    ASSUME "monitor" \notin SizeCallers
    PROVE  Spec => []SizeWithinCapacity
  <1>1. IInv => SizeWithinCapacity
    <2> SUFFICES ASSUME IInv, sizer # "none", NEW n \in VisibleTails(sizer)
                 PROVE  Distance(sizeHead, Index(n)) <= Capacity
      BY DEF SizeWithinCapacity
    <2> USE QueueAssumption
    <2>1. /\ pushed \in Nat /\ popped \in Nat /\ seenTail \in Nat /\ seenHead \in Nat
          /\ seenTail <= popped /\ popped <= seenHead /\ seenHead <= pushed
          /\ pushed - seenTail <= Capacity
      BY DEF IInv, TypeOK, CountsOrdered
    <2>2. sizer \in {"producer", "consumer"}
      BY DEF IInv, TypeOK
    <2>3. PICK h \in {pushed, seenHead} :
              sizeHead = Index(h) /\ (sizer = "consumer" \/ h = pushed)
      BY <2>2 DEF IInv, SizerInv
    <2>4. n \in Int /\ h \in Int /\ h - n \in 0 .. Capacity
      BY <2>1, <2>2, <2>3 DEF VisibleTails
    <2>5. Distance(sizeHead, Index(n)) = h - n
      BY <2>3, <2>4, DistanceExact
    <2>6. QED
      BY <2>4, <2>5
  <1>2. QED
    BY <1>1, Invariance, PTL

(***************************************************************************)
(* The ring implements BoundedFifo.                                        *)
(***************************************************************************)

\* The count of the oldest frame still in the abstract queue.
Oldest == IF cpc = "release" THEN popped + 1 ELSE popped

\* Read through the slots, the contents are the accepted frames in order.
ContentsInOrder ==
    /\ Oldest \in Nat /\ Oldest <= pushed /\ pushed - Oldest <= Capacity
    /\ Contents = [i \in 1 .. pushed - Oldest |-> Oldest + i - 1]

\* In every state of the invariant the slots between the indices spell out
\* the accepted frames, oldest first.
LEMMA ContentsAre == IInv => ContentsInOrder
  <1> SUFFICES ASSUME IInv PROVE ContentsInOrder
    OBVIOUS
  <1> USE QueueAssumption
  <1>1. /\ pushed \in Nat /\ popped \in Nat /\ popped <= pushed
        /\ pushed - popped <= Capacity
        /\ head = Index(pushed) /\ tail = Index(popped)
        /\ cpc = "release" => popped < pushed
    BY DEF IInv, TypeOK, CountsOrdered, IndicesMatchCounts, ConsumerInv
  <1>2. Oldest \in Nat /\ Oldest <= pushed /\ pushed - Oldest <= Capacity
    BY <1>1 DEF Oldest
  <1>3. OldestIndex = Index(Oldest)
    <2>1. Index(Index(popped) + 1) = Index(popped + 1)
      BY <1>1, IndexNext DEF Index
    <2>2. QED
      BY <1>1, <2>1 DEF OldestIndex, Oldest
  <1>4. Distance(head, OldestIndex) = pushed - Oldest
    BY <1>1, <1>2, <1>3, DistanceExact
  <1>5. ASSUME NEW i \in 1 .. pushed - Oldest
        PROVE  buf[Slot(OldestIndex + i - 1)] = Oldest + i - 1
    <2> DEFINE k == Oldest + i - 1
    <2>1. k \in popped .. pushed - 1 /\ (cpc = "release" => k # popped)
      BY <1>1, <1>2 DEF Oldest
    <2>2. buf[Slot(Index(k))] = k
      BY <2>1 DEF IInv, QueuedFramesIntact
    <2>3. Slot(OldestIndex + i - 1) = Slot(k)
      <3>1. i - 1 \in Int /\ Capacity \in Nat \ {0} /\ OldestIndex \in Int
        BY <1>2, <1>3, Ranges
      <3>2. ((OldestIndex % Capacity) + (i - 1)) % Capacity
              = (OldestIndex + (i - 1)) % Capacity
        BY <3>1, ModSum
      <3>3. ((Oldest % Capacity) + (i - 1)) % Capacity = (Oldest + (i - 1)) % Capacity
        <4>1. Oldest \in Int
          BY <1>2
        <4> HIDE DEF k
        <4>2. QED
          BY <3>1, <4>1, ModSum
      <3>4. OldestIndex % Capacity = Oldest % Capacity
        BY <1>2, <1>3, SlotOfIndex DEF Slot
      <3>5. OldestIndex + i - 1 = OldestIndex + (i - 1) /\ k = Oldest + (i - 1)
        BY <1>2, <3>1
      <3>6. QED
        BY <3>2, <3>3, <3>4, <3>5 DEF Slot
    <2>4. Slot(Index(k)) = Slot(k)
      BY <2>1, <1>1, SlotOfIndex
    <2>5. QED
      BY <2>2, <2>3, <2>4
  <1>6. Contents = [i \in 1 .. pushed - Oldest |-> Oldest + i - 1]
    BY <1>4, <1>5 DEF Contents
  <1>7. QED
    BY <1>2, <1>6 DEF ContentsInOrder

\* The same of the next state.
LEMMA ContentsAreNext == IInv' => ContentsInOrder'
  BY ContentsAre, PTL

\* A step that changes neither the accepted frames nor the oldest one leaves
\* the abstract queue alone.
LEMMA QuietStep ==
    ASSUME IInv, IInv', Oldest' = Oldest, pushed' = pushed, out' = out
    PROVE  UNCHANGED Fifo!fifoVars
  <1>1. Contents = [i \in 1 .. pushed - Oldest |-> Oldest + i - 1]
    BY ContentsAre DEF ContentsInOrder
  <1>2. Contents' = [i \in 1 .. pushed' - Oldest' |-> Oldest' + i - 1]
    BY ContentsAreNext DEF ContentsInOrder
  <1>3. QED
    BY <1>1, <1>2 DEF Fifo!fifoVars

\* Publishing head_ appends the frame to the abstract queue, which has room.
LEMMA PublishPushes ==
    IInv /\ IInv' /\ TryPushPublish => Fifo!Push(pushed)
  <1> SUFFICES ASSUME IInv, IInv', TryPushPublish
               PROVE  Fifo!Push(pushed)
    OBVIOUS
  <1>1. /\ pushed \in Nat /\ pushed' = pushed + 1 /\ out' = out /\ Oldest' = Oldest
        /\ popped <= Oldest /\ pushed - popped < Capacity
    <2>1. pushed' = pushed + 1 /\ out' = out /\ cpc' = cpc /\ popped' = popped
      BY DEF TryPushPublish, consVars
    <2>2. /\ pushed \in Nat /\ popped \in Nat /\ seenTail \in Nat
          /\ seenTail <= popped /\ pushed - seenTail < Capacity
      BY DEF IInv, TypeOK, TryPushPublish, ProducerInv, CountsOrdered
    <2>3. pushed - popped < Capacity
      BY <2>2, QueueAssumption
    <2>4. QED
      BY <2>1, <2>2, <2>3 DEF Oldest
  <1>2. /\ Oldest \in Nat /\ Oldest <= pushed
        /\ Contents = [i \in 1 .. pushed - Oldest |-> Oldest + i - 1]
        /\ Contents' = [i \in 1 .. pushed' - Oldest' |-> Oldest' + i - 1]
    BY ContentsAre, ContentsAreNext DEF ContentsInOrder
  <1>3. Contents \in Seq(Nat) /\ Len(Contents) = pushed - Oldest
    BY <1>1, <1>2
  <1>4. Len(Contents) < Capacity
    BY <1>1, <1>2, <1>3, QueueAssumption DEF IInv, TypeOK
  <1>5. Contents' = Append(Contents, pushed)
    <2>1. DOMAIN Append(Contents, pushed) = 1 .. pushed' - Oldest'
      BY <1>1, <1>2, <1>3
    <2>2. ASSUME NEW i \in 1 .. pushed' - Oldest'
          PROVE  Append(Contents, pushed)[i] = Oldest + i - 1
      BY <1>1, <1>2, <1>3
    <2>3. Append(Contents, pushed) \in Seq(Nat)
      BY <1>1, <1>3
    <2>4. QED
      BY <1>1, <1>2, <2>1, <2>2, <2>3
  <1>6. QED
    BY <1>1, <1>4, <1>5 DEF Fifo!Push

\* Moving the frame out of its slot pops the abstract queue.
LEMMA TakePops ==
    IInv /\ IInv' /\ TryPopTake => Fifo!Pop
  <1> SUFFICES ASSUME IInv, IInv', TryPopTake
               PROVE  Fifo!Pop
    OBVIOUS
  <1>1. /\ pushed \in Nat /\ popped \in Nat /\ pushed' = pushed
        /\ popped < pushed /\ out' = popped
        /\ Oldest = popped /\ Oldest' = popped + 1
    BY DEF IInv, TypeOK, TryPopTake, prodVars, Oldest, ConsumerInv, CountsOrdered,
           PopsInOrder
  <1>2. /\ Contents = [i \in 1 .. pushed - Oldest |-> Oldest + i - 1]
        /\ Contents' = [i \in 1 .. pushed' - Oldest' |-> Oldest' + i - 1]
    BY ContentsAre, ContentsAreNext DEF ContentsInOrder
  <1>3. Contents \in Seq(Nat) /\ Len(Contents) = pushed - popped
    BY <1>1, <1>2
  <1>4. Contents # <<>> /\ Head(Contents) = popped
    BY <1>1, <1>2, <1>3
  <1>5. Contents' = Tail(Contents)
    <2>1. Tail(Contents) \in Seq(Nat) /\ Len(Tail(Contents)) = pushed - popped - 1
      BY <1>1, <1>3, <1>4
    <2>2. ASSUME NEW i \in 1 .. pushed - popped - 1
          PROVE  Tail(Contents)[i] = popped + 1 + i - 1
      BY <1>1, <1>2, <1>3, <1>4
    <2>3. QED
      BY <1>1, <1>2, <2>1, <2>2
  <1>6. QED
    BY <1>1, <1>4, <1>5 DEF Fifo!Pop

\* clear() forgets the contents of the abstract queue.
LEMMA ClearClears == IInv /\ IInv' /\ Clear => Fifo!Clear
  <1> SUFFICES ASSUME IInv, IInv', Clear PROVE Fifo!Clear
    OBVIOUS
  <1>1. pushed' = 0 /\ Oldest' = 0 /\ out' = out
    BY DEF Clear, Oldest
  <1>2. Contents' = [i \in 1 .. pushed' - Oldest' |-> Oldest' + i - 1]
    BY ContentsAreNext DEF ContentsInOrder
  <1>3. Contents' = <<>>
    BY <1>1, <1>2
  <1>4. QED
    BY <1>1, <1>3 DEF Fifo!Clear

\* Every step of the ring is a step of the queue or leaves it alone.
LEMMA StepRefines ==
    IInv /\ IInv' /\ [Next]_vars => [Fifo!FifoNext]_Fifo!fifoVars
  <1> SUFFICES ASSUME IInv, IInv', [Next]_vars
               PROVE  [Fifo!FifoNext]_Fifo!fifoVars
    OBVIOUS
  <1>1. CASE TryPushFull \/ TryPushBegin \/ TryPushWrite
    <2>1. Oldest' = Oldest /\ pushed' = pushed /\ out' = out
      BY <1>1 DEF TryPushFull, TryPushBegin, TryPushWrite, consVars, Oldest
    <2>2. QED
      BY <2>1, QuietStep
  <1>2. CASE TryPushPublish
    <2>1. pushed \in 0 .. MaxFrames
      BY <1>2, QueueAssumption DEF IInv, TypeOK, ProducerInv, TryPushPublish
    <2>2. QED
      BY <1>2, <2>1, PublishPushes DEF Fifo!FifoNext
  <1>3. CASE TryPopEmpty \/ TryPopBegin
    <2>1. Oldest' = Oldest /\ pushed' = pushed /\ out' = out
      BY <1>3 DEF TryPopEmpty, TryPopBegin, ConsumerReady, prodVars, Oldest
    <2>2. QED
      BY <2>1, QuietStep
  <1>4. CASE TryPopTake
    BY <1>4, TakePops DEF Fifo!FifoNext
  <1>5. CASE TryPopRelease
    <2>1. Oldest' = Oldest /\ pushed' = pushed /\ out' = out
      BY <1>5 DEF TryPopRelease, prodVars, Oldest
    <2>2. QED
      BY <2>1, QuietStep
  <1>6. CASE (\E c \in SizeCallers : SizeLoadHead(c)) \/ SizeLoadTail \/ UNCHANGED vars
    <2>1. Oldest' = Oldest /\ pushed' = pushed /\ out' = out
      BY <1>6 DEF SizeLoadHead, SizeLoadTail, consVars, prodVars, vars, Oldest
    <2>2. QED
      BY <2>1, QuietStep
  <1>7. CASE Clear
    BY <1>7, ClearClears DEF Fifo!FifoNext
  <1>8. QED
    BY <1>1, <1>2, <1>3, <1>4, <1>5, <1>6, <1>7 DEF Next, Producer, Consumer, Monitor

\* The empty ring is the empty queue.
LEMMA InitRefines == Init => Fifo!FifoInit
  <1> SUFFICES ASSUME Init PROVE Fifo!FifoInit
    OBVIOUS
  <1>1. Contents = [i \in 1 .. pushed - Oldest |-> Oldest + i - 1]
    BY InitIInv, ContentsAre DEF ContentsInOrder
  <1>2. pushed = 0 /\ Oldest = 0 /\ out = NoFrame
    BY DEF Init, Oldest
  <1>3. Contents = <<>>
    BY <1>1, <1>2
  <1>4. QED
    BY <1>2, <1>3 DEF Fifo!FifoInit

\* The ring of ingest_queue.cpp implements the bounded first-in first-out
\* queue its header promises, for every capacity and index width.
THEOREM Refinement == Spec => ImplementsFifo
  BY InitRefines, StepRefines, Invariance, PTL
  DEF Spec, ImplementsFifo, Fifo!FifoSpec
==============================================================================
