---------------------------- MODULE MCAlgorithms ----------------------------
(***************************************************************************)
(* Algorithms for TLC.  8-bit sizes.  13-bit words, which three symbols    *)
(* overflow and 10^4 does not fit; a clock of two ticks to the second and  *)
(* 16 counters, each with a code of its own.  Frames with milliseconds     *)
(* above 40, four to the second, each of two ticks in a 9-bit time, which  *)
(* ends at 31 seconds.                                                     *)
(***************************************************************************)
EXTENDS Algorithms

MCBinCode(c) == (c * 2477 + 3001) % 4096

MCCharacters == {{0}, {1, 2, 4}, Codes!Padding, Codes!Foreign}

MCTimes == -4 .. 29

MCTicks == [number : {7}, prefixed : BOOLEAN, ltp : {3},
            secs : {-31, -10, 5, 10, 31, 35}]

\* Counting on sets of bits is counting.
Number(n) == Sizing!MapThenSumSet(LAMBDA k : 2^k, n)
ASSUME BitsCount ==
    \A n \in Sizing!Words :
        /\ Number(Sizing!Increment(n)) = (Number(n) + 1) % 2^SizeBits
        /\ n # {} => Number(Sizing!Decrement(n)) = Number(n) - 1
        /\ \A i \in 1 .. SizeBits : Number(Sizing!Shifted(n, i)) = Number(n) \div 2^i
        /\ \A m \in Sizing!Words : Sizing!Below(m, n) <=> Number(m) < Number(n)
=============================================================================
