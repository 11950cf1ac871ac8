-------------------------- MODULE MCWebSocketClient --------------------------
(***************************************************************************)
(* WebSocketClient for TLC.  Four stream names are enough for the current  *)
(* stream, one held by stop(), one held by send_text and the next one;     *)
(* with three an attempt waits for one of the two calls to end.  Backoff   *)
(* runs from 1 through 2 and 4 to its bound 5.                             *)
(***************************************************************************)
EXTENDS WebSocketClient
==============================================================================
