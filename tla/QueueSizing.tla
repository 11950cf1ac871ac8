----------------------------- MODULE QueueSizing -----------------------------
(***************************************************************************)
(* How IngestQueue's constructor turns the capacity asked for into the     *)
(* number of slots: next_pow2 (src/ingest_queue.cpp:5-13).  A word is the  *)
(* set of its one bits, bit k being worth 2^k, so that & is intersection   *)
(* and | is union.                                                         *)
(***************************************************************************)
EXTENDS Integers, FiniteSetsExt

CONSTANT SizeBits         \* of a std::size_t: 64

Words == SUBSET (0 .. SizeBits - 1)
Eight == {3}

\* m < n: some bit tells n from m, and m has none above it that n has not.
Below(m, n) == \E k \in n \ m : \A b \in m : b > k => b \in n

\* n - 1 borrows from the lowest one, n + 1 carries into the lowest zero, which
\* may be outside the word.
Decrement(n) == LET low == Min(n) IN (n \ {low}) \cup 0 .. low - 1
Increment(n) == LET low == Min((0 .. SizeBits) \ n)
                IN  ({b \in n : b > low} \cup {low}) \ {SizeBits}
Shifted(n, i) == {b - i : b \in {k \in n : k >= i}}

IsPowerOfTwo(x) == x # {} /\ x \cap Decrement(x) = {}

\* One test of the loop's condition, and its body: n |= n >> i, i <<= 1.
SmearPass_HalfWord(s) ==
    IF 2 * s.i < SizeBits THEN [i |-> 2 * s.i, n |-> s.n \cup Shifted(s.n, s.i)] ELSE s
SmearPass(s) ==
    IF s.i < SizeBits THEN [i |-> 2 * s.i, n |-> s.n \cup Shifted(s.n, s.i)] ELSE s

\* The loop is over after that many tests.
Smear(n) ==
    LET after[k \in 0 .. SizeBits] == IF k = 0 THEN [i |-> 1, n |-> n]
                                      ELSE SmearPass(after[k - 1])
    IN  after[SizeBits].n

NextPow2(n) == CASE Below(n, Eight)                      -> Eight
                 [] ~Below(n, Eight) /\ IsPowerOfTwo(n)  -> n
                 [] ~Below(n, Eight) /\ ~IsPowerOfTwo(n) -> Increment(Smear(Decrement(n)))
-----------------------------------------------------------------------------
Powers == {{k} : k \in 0 .. SizeBits - 1}

Holds(p, request) == ~Below(p, Eight) /\ ~Below(p, request)

\* slots is the least power of two that is at least 8 and holds the request;
\* above half the word there is none.
IsLeastPower(request, slots) ==
    (\E p \in Powers : ~Below(p, request)) =>
        /\ slots \in Powers /\ Holds(slots, request)
        /\ \A p \in Powers : Holds(p, request) => ~Below(p, slots)
=============================================================================
