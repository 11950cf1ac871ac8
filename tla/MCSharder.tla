------------------------------ MODULE MCSharder ------------------------------
(***************************************************************************)
(* Sharder for TLC.  Three tokens at two a connection make two workers,    *)
(* the first with two batches; no tokens make one idle worker.             *)
(***************************************************************************)
EXTENDS Sharder

CONSTANTS a, b, c
Lists == {<<>>, <<a, b, c>>}
==============================================================================
