------------------------------- MODULE MCAuth -------------------------------
(***************************************************************************)
(* Auth for TLC.  Two logins.  Of three bits of an int, lifetimes of 1     *)
(* and 3 are two that a refresh may exchange; 5 is a negative one, which   *)
(* the code takes for unknown; 10 wraps to 2.                              *)
(***************************************************************************)
EXTENDS Auth
=============================================================================
