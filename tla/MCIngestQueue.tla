---------------------------- MODULE MCIngestQueue ----------------------------
(***************************************************************************)
(* IngestQueue for TLC.  The configurations take a ring of Capacity slots  *)
(* whose indices wrap at IndexMod after IndexMod pushes, so that every     *)
(* slot is reused and both indices pass through zero again.                *)
(***************************************************************************)
EXTENDS IngestQueue
==============================================================================
