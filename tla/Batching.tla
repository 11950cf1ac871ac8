------------------------------ MODULE Batching ------------------------------
(***************************************************************************)
(* Cutting a list into consecutive slices of at most n elements, as        *)
(* Sharder cuts the desired tokens into workers (src/sharder.cpp:50-62)    *)
(* and SubscriptionManager a worker's tokens into payloads                 *)
(* (src/subscription_manager.cpp:141-155).                                 *)
(***************************************************************************)
EXTENDS Naturals, Sequences

\* A limit of zero stands for the default.
Limit(n, default) == IF n = 0 THEN default ELSE n

\* The loop starts a slice at every multiple of n below the length.
SliceCount_RoundsDown(s, n) == Len(s) \div n
SliceCount(s, n) == (Len(s) + n - 1) \div n

SliceEnd(s, n, k) == IF k * n <= Len(s) THEN k * n ELSE Len(s)

Slices(s, n) == [k \in 1 .. SliceCount(s, n) |->
                    SubSeq(s, (k - 1) * n + 1, SliceEnd(s, n, k))]
==============================================================================
