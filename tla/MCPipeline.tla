----------------------------- MODULE MCPipeline -----------------------------
(***************************************************************************)
(* Pipeline for TLC: two instruments, one of which the feed also spells    *)
(* with the prefix the parser strips, frames without a quote, and a queue  *)
(* that a feed ahead of the consumer fills and overflows.                  *)
(***************************************************************************)
EXTENDS Pipeline
==============================================================================
