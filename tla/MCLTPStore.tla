----------------------------- MODULE MCLTPStore -----------------------------
(***************************************************************************)
(* LTPStore for TLC: two workers and one application thread over two       *)
(* tokens, so that an upsert meets another upsert of the same token, a get *)
(* of it and a snapshot at every step of each.                             *)
(***************************************************************************)
EXTENDS LTPStore
==============================================================================
