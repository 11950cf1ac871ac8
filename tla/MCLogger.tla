------------------------------ MODULE MCLogger ------------------------------
(***************************************************************************)
(* The logger for TLC: threads are interchangeable.                        *)
(***************************************************************************)
EXTENDS Logger, TLC

Interchangeable == Permutations(Threads)
=============================================================================
