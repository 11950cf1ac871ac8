------------------------ MODULE MCSubscriptionManager ------------------------
(***************************************************************************)
(* SubscriptionManager for TLC: three tokens, of which a batch takes two   *)
(* or, with the default size, all.                                         *)
(***************************************************************************)
EXTENDS SubscriptionManager
==============================================================================
