------------------------- MODULE SubscriptionManager -------------------------
(***************************************************************************)
(* The desired and active token sets of one worker and the payloads built  *)
(* from them (src/subscription_manager.cpp), with the application that     *)
(* changes the desired set, a server that applies payloads and answers     *)
(* them, and marks that follow the answers, as the header asks             *)
(* (include/subscription_manager.h:38).                                    *)
(*                                                                         *)
(* Every operation on the sets is one step, under the mutex.  Building is  *)
(* two: the difference is taken under the mutex, the batches are cut after *)
(* it is released.  Mode and token format are part of a payload's text,    *)
(* which is left out: a payload is its action and its tokens.              *)
(***************************************************************************)
EXTENDS Batching, SequencesExt

CONSTANTS Tokens,       \* the tokens the application deals in
          BatchSizes,   \* arguments of set_batch_size
          MaxChanges,   \* bound: changes of the desired set
          MaxInFlight   \* bound: payloads under way when a build starts

ASSUME SubscriptionAssumption ==
    /\ IsFiniteSet(Tokens) /\ BatchSizes \subseteq Nat
    /\ MaxChanges \in Nat /\ MaxInFlight \in Nat

VARIABLES
    desired,    \* desired_
    active,     \* active_
    batchSize,  \* batch_size_
    bpc,        \* the builder: "idle", or before "batch" or "send"
    action,     \* what it builds: "subscribe" or "unsubscribe"
    need,       \* its local need
    out,        \* the payloads built and not yet sent
    net,        \* external: payloads on their way to the server
    server,     \* external: the tokens the server sends
    acks,       \* external: answers on their way back
    changes     \* history: changes of the desired set

builder == <<bpc, action, need, out>>
wire == <<net, server, acks>>
managerVars == <<desired, active, batchSize, builder, wire, changes>>

ManagerInit ==
    /\ desired = {} /\ active = {} /\ batchSize = Limit(0, 100)
    /\ bpc = "idle" /\ action = "subscribe" /\ need = <<>> /\ out = <<>>
    /\ net = <<>> /\ server = {} /\ acks = <<>>
    /\ changes = 0

-----------------------------------------------------------------------------
(* The application: add, add_many, remove (Erase), clear, set_batch_size. *)

Change(new) ==
    /\ changes < MaxChanges
    /\ desired' = new
    /\ changes' = changes + 1
    /\ UNCHANGED <<active, batchSize, builder, wire>>

Add == \E ts \in SUBSET Tokens \ {{}} : Change(desired \cup ts)
Erase == \E t \in Tokens : Change(desired \ {t})
Clear == Change({})

SetBatchSize_KeepsZero ==
    /\ \E n \in BatchSizes : batchSize' = n
    /\ UNCHANGED <<desired, active, builder, wire, changes>>
SetBatchSize ==
    /\ \E n \in BatchSizes : batchSize' = Limit(n, 100)
    /\ UNCHANGED <<desired, active, builder, wire, changes>>

-----------------------------------------------------------------------------
(* build_subscribe_batches and build_unsubscribe_batches, then the caller's *)
(* sends.                                                                  *)

\* The difference, in whatever order the set is walked.
BuildBegin(a, diff) ==
    /\ bpc = "idle" /\ Len(net) + Len(acks) <= MaxInFlight
    /\ action' = a
    /\ need' \in SetToSeqs(diff)
    /\ bpc' = "batch"
    /\ UNCHANGED <<desired, active, batchSize, out, wire, changes>>

Missing == desired \ active
Unwanted == active \ desired

BuildSubscribe == BuildBegin("subscribe", Missing)
BuildUnsubscribe_SameDifference == BuildBegin("unsubscribe", Missing)
BuildUnsubscribe == BuildBegin("unsubscribe", Unwanted)

\* make_batches reads batch_size_ as it is by now.
MakeBatches ==
    /\ bpc = "batch"
    /\ out' = LET b == Slices(need, Limit(batchSize, 100))
              IN  [k \in DOMAIN b |-> [action |-> action, tokens |-> ToSet(b[k])]]
    /\ need' = <<>>
    /\ bpc' = IF out' = <<>> THEN "idle" ELSE "send"
    /\ UNCHANGED <<desired, active, batchSize, action, wire, changes>>

Send ==
    /\ bpc = "send"
    /\ net' = Append(net, Head(out))
    /\ out' = Tail(out)
    /\ bpc' = IF out' = <<>> THEN "idle" ELSE "send"
    /\ UNCHANGED <<desired, active, batchSize, action, need, server, acks, changes>>

-----------------------------------------------------------------------------
\* What a payload does to a set of tokens.
Apply(p, ts) == IF p.action = "subscribe" THEN ts \cup p.tokens ELSE ts \ p.tokens

\* The server takes payloads in order and answers each.
ServerApplies ==
    /\ net # <<>>
    /\ server' = Apply(Head(net), server)
    /\ acks' = Append(acks, Head(net))
    /\ net' = Tail(net)
    /\ UNCHANGED <<desired, active, batchSize, builder, changes>>

\* mark_subscribed, mark_unsubscribed for the answered payload.
Mark_OnlyAdds ==
    /\ acks # <<>>
    /\ active' = active \cup Head(acks).tokens
    /\ acks' = Tail(acks)
    /\ UNCHANGED <<desired, batchSize, builder, net, server, changes>>
Mark ==
    /\ acks # <<>>
    /\ active' = Apply(Head(acks), active)
    /\ acks' = Tail(acks)
    /\ UNCHANGED <<desired, batchSize, builder, net, server, changes>>

-----------------------------------------------------------------------------
ManagerNext ==
    \/ Add \/ Erase \/ Clear \/ SetBatchSize
    \/ BuildSubscribe \/ BuildUnsubscribe \/ MakeBatches \/ Send
    \/ ServerApplies \/ Mark

ManagerSpec == ManagerInit /\ [][ManagerNext]_managerVars

(* The application goes on building both kinds and sends what it builds,   *)
(* the server answers and the answers are marked.                          *)
ManagerFairSpec ==
    /\ ManagerSpec
    /\ SF_managerVars(BuildSubscribe) /\ SF_managerVars(BuildUnsubscribe)
    /\ WF_managerVars(MakeBatches) /\ WF_managerVars(Send)
    /\ WF_managerVars(ServerApplies) /\ WF_managerVars(Mark)

-----------------------------------------------------------------------------
(* Properties *)

\* The variables have their types.
Payload == [action : {"subscribe", "unsubscribe"}, tokens : SUBSET Tokens]
ManagerTypeOK ==
    /\ desired \subseteq Tokens /\ active \subseteq Tokens /\ server \subseteq Tokens
    /\ batchSize \in Nat \ {0}
    /\ bpc \in {"idle", "batch", "send"} /\ action \in {"subscribe", "unsubscribe"}
    /\ need \in Seq(Tokens)
    /\ out \in Seq(Payload) /\ net \in Seq(Payload) /\ acks \in Seq(Payload)
    /\ changes \in 0 .. MaxChanges

\* The payloads built share out exactly the tokens the difference had, each in
\* one of them, none larger than the batch size, whenever that was changed.
BatchesPartitionNeed ==
    [][bpc = "batch" /\ bpc' # "batch" =>
          /\ UNION {out'[k].tokens : k \in DOMAIN out'} = ToSet(need)
          /\ \A k \in DOMAIN out' :
                /\ Cardinality(out'[k].tokens) \in 1 .. batchSize
                /\ \A j \in DOMAIN out' \ {k} : out'[j].tokens \cap out'[k].tokens = {}]_managerVars

\* The answers under way bring active to where the server is, in whatever order
\* builds overlapped: the last of them that names a token says whether the
\* server sends it, and a token none of them names is as active says.
ActiveFollowsServer ==
    \A t \in Tokens :
        LET named == {k \in DOMAIN acks : t \in acks[k].tokens}
        IN  /\ named = {} => (t \in server <=> t \in active)
            /\ \A k \in named : (\A j \in named : j <= k) =>
                                 (t \in server <=> acks[k].action = "subscribe")

\* However the desired set was changed meanwhile, once it rests the server
\* sends exactly the desired tokens, and active says so.
Converges == <>[](server = desired /\ active = desired)
==============================================================================
