------------------------------ MODULE Pipeline ------------------------------
(***************************************************************************)
(* One worker's path from the socket to the table of quotes: the WebSocket *)
(* thread pushes raw frames into the queue or drops them                   *)
(* (src/sharder.cpp:113-120), the consumer thread pops, parses, upserts    *)
(* and calls the sink (src/consumer.cpp:21-33), and a controller starts    *)
(* and stops the consumer (src/consumer.cpp:10-19).  Sharder serialises    *)
(* its calls under its mutex, so there is one controller.                  *)
(*                                                                         *)
(* The queue and the table are taken at their abstract specifications,     *)
(* which IngestQueue and LTPStore implement.  The n-th frame the socket    *)
(* delivers carries event n as its price and time, so a smaller number is  *)
(* an older quote.                                                         *)
(***************************************************************************)
EXTENDS Naturals, Sequences

CONSTANTS Capacity,      \* frames the queue can hold
          Instruments,   \* instrument names
          Prefixes,      \* exchange prefixes the feed may put before a name
          NoPrefix,      \* the empty prefix
          Strip,         \* the prefix Parser strips, NoPrefix for none
          Garbage,       \* a frame without token or price
          Absent,        \* no quote
          MaxFrames      \* bound: frames the socket delivers

ASSUME PipelineAssumption ==
    /\ Capacity \in Nat \ {0}
    /\ NoPrefix \notin Prefixes
    /\ Strip \in Prefixes \cup {NoPrefix}
    /\ MaxFrames \in Nat

VARIABLES
    queue,      \* IngestQueue contents
    msg,        \* Consumer::run's local msg
    table,      \* LTPStore contents
    running,    \* Consumer::running_
    cpc,        \* consumer thread: "none", "test", "pop", "handle", "sink", "exited"
    quote,      \* Consumer::run's local ltp
    ctl,        \* controller: "idle", in start() at "spawn", in stop() at "join"
    delivered,  \* history: frames the socket has delivered
    accepted,   \* history: the frames the queue accepted
    pops,       \* history: frames popped
    seenPops,   \* history: pops as the socket thread last observed them
    seenPushes  \* history: frames accepted as the consumer last observed them

feedVars == <<delivered, accepted, seenPops>>
popVars == <<pops, seenPushes>>
vars == <<queue, msg, table, running, cpc, quote, ctl, feedVars, popVars>>

\* A token is a prefix and a name; a frame is what parse_ltp reads from it.
RawTokens == (Prefixes \cup {NoPrefix}) \X Instruments
Frames == [body : RawTokens \cup {Garbage}, event : 1 .. MaxFrames]

\* The prefix normalisation of parse_ltp.
StripPrefix(t) == IF Strip # NoPrefix /\ t[1] = Strip THEN <<NoPrefix, t[2]>> ELSE t

Tokens == {StripPrefix(t) : t \in RawTokens}
Quotes == [token : Tokens, ltp : 1 .. MaxFrames, ts : 1 .. MaxFrames]

ASSUME AbsentAssumption == Absent \notin Quotes

\* parse_ltp: nothing for a frame that lacks a token or a price.
Parses(f) == f.body # Garbage
Parse(f) == [token |-> StripPrefix(f.body), ltp |-> f.event, ts |-> f.event]

Queue == INSTANCE BoundedFifo WITH items <- queue, taken <- msg, NoFrame <- Absent
Table == INSTANCE AtomicStore WITH store <- table, Readers <- {},
                                   answer <- <<>>, counted <- <<>>

Init ==
    /\ Queue!FifoInit
    /\ table = [t \in Tokens |-> Absent]
    /\ running = FALSE /\ cpc = "none" /\ quote = Absent
    /\ ctl = "idle"
    /\ delivered = 0 /\ accepted = <<>> /\ seenPops = 0
    /\ pops = 0 /\ seenPushes = 0

-----------------------------------------------------------------------------
(* The socket thread: on_message as Sharder wires it.  The ring decides    *)
(* with a possibly old view of the pops, so a frame may be dropped although *)
(* a slot has just become free, but never accepted into a full ring.       *)

NextFrame(body) == [body |-> body, event |-> delivered + 1]

FeedAccept_DropsOldest ==
    /\ delivered < MaxFrames
    /\ \E body \in RawTokens \cup {Garbage} :
          /\ accepted' = Append(accepted, NextFrame(body))
          /\ queue' = IF Len(queue) < Capacity THEN Append(queue, NextFrame(body))
                      ELSE Append(Tail(queue), NextFrame(body))
    /\ delivered' = delivered + 1
    /\ UNCHANGED <<msg, table, running, cpc, quote, ctl, popVars, seenPops>>
FeedAccept ==
    /\ delivered < MaxFrames
    /\ \E body \in RawTokens \cup {Garbage} :
          /\ \E n \in seenPops .. pops :
                Len(accepted) - n < Capacity /\ seenPops' = n
          /\ accepted' = Append(accepted, NextFrame(body))
          /\ Queue!Push(NextFrame(body))
    /\ delivered' = delivered + 1
    /\ UNCHANGED <<table, running, cpc, quote, ctl, popVars>>

FeedDrop ==
    /\ delivered < MaxFrames
    /\ \E n \in seenPops .. pops :
          Len(accepted) - n = Capacity /\ seenPops' = n
    /\ delivered' = delivered + 1
    /\ UNCHANGED <<queue, msg, table, running, cpc, quote, ctl, accepted, popVars>>

-----------------------------------------------------------------------------
(* Consumer::start and stop.  A start() that finds running_ true and a     *)
(* stop() that finds it false return at once and change nothing.           *)

StartExchange ==
    /\ ctl = "idle" /\ ~ running
    /\ running' = TRUE
    /\ ctl' = "spawn"
    /\ UNCHANGED <<queue, msg, table, cpc, quote, feedVars, popVars>>

StartSpawn ==
    /\ ctl = "spawn"
    /\ cpc' = "test"
    /\ msg' = Absent
    /\ ctl' = "idle"
    /\ UNCHANGED <<queue, table, running, quote, feedVars, popVars>>

StopExchange ==
    /\ ctl = "idle" /\ running
    /\ running' = FALSE
    /\ ctl' = "join"
    /\ UNCHANGED <<queue, msg, table, cpc, quote, feedVars, popVars>>

StopJoin_Detach ==
    /\ ctl = "join"
    /\ ctl' = "idle"
    /\ UNCHANGED <<queue, msg, table, running, cpc, quote, feedVars, popVars>>
StopJoin ==
    /\ ctl = "join" /\ cpc = "exited"
    /\ cpc' = "none"
    /\ ctl' = "idle"
    /\ UNCHANGED <<queue, msg, table, running, quote, feedVars, popVars>>

-----------------------------------------------------------------------------
(* Consumer::run *)

\* while (running_.load())
LoopTest ==
    /\ cpc = "test"
    /\ cpc' = IF running THEN "pop" ELSE "exited"
    /\ UNCHANGED <<queue, msg, table, running, quote, ctl, feedVars, popVars>>

\* The pops the ring finds nothing for: it decides with a possibly old view of
\* the pushes, so it may miss a frame that has just come.
SeesNothing == cpc = "pop" /\ seenPushes = pops
SeesFrame == cpc = "pop" /\ \E n \in seenPushes .. Len(accepted) :
                               n # pops /\ seenPushes' = n

\* Nothing to pop: yield and look again.
PopNothing_Spins ==
    /\ SeesNothing
    /\ UNCHANGED vars
PopNothing ==
    /\ SeesNothing
    /\ cpc' = "test"
    /\ UNCHANGED <<queue, msg, table, running, quote, ctl, feedVars, popVars>>

PopFrame_IgnoresNewest ==
    /\ SeesFrame /\ Len(queue) > 1
    /\ Queue!Pop
    /\ pops' = pops + 1
    /\ cpc' = "handle"
    /\ UNCHANGED <<table, running, quote, ctl, feedVars>>
PopFrame_NewestFirst ==
    /\ SeesFrame /\ queue # <<>>
    /\ msg' = queue[Len(queue)]
    /\ queue' = SubSeq(queue, 1, Len(queue) - 1)
    /\ pops' = pops + 1
    /\ cpc' = "handle"
    /\ UNCHANGED <<table, running, quote, ctl, feedVars>>
PopFrame ==
    /\ SeesFrame
    /\ Queue!Pop
    /\ pops' = pops + 1
    /\ cpc' = "handle"
    /\ UNCHANGED <<table, running, quote, ctl, feedVars>>

\* parse_ltp returned nullopt: next frame.
HandleGarbage ==
    /\ cpc = "handle" /\ ~ Parses(msg)
    /\ cpc' = "test"
    /\ UNCHANGED <<queue, msg, table, running, quote, ctl, feedVars, popVars>>

HandleQuote_RawToken ==
    /\ cpc = "handle" /\ Parses(msg)
    /\ quote' = Parse(msg)
    /\ table' = [t \in Tokens \cup {msg.body} |->
                   IF t = msg.body THEN Parse(msg) ELSE table[t]]
    /\ cpc' = "sink"
    /\ UNCHANGED <<queue, msg, running, ctl, feedVars, popVars>>
HandleQuote_FirstWins ==
    /\ cpc = "handle" /\ Parses(msg)
    /\ quote' = Parse(msg)
    /\ table' = [table EXCEPT ![quote'.token] = IF @ = Absent THEN quote' ELSE @]
    /\ cpc' = "sink"
    /\ UNCHANGED <<queue, msg, running, ctl, feedVars, popVars>>
HandleQuote ==
    /\ cpc = "handle" /\ Parses(msg)
    /\ quote' = Parse(msg)
    /\ Table!Upsert(quote')
    /\ cpc' = "sink"
    /\ UNCHANGED <<queue, msg, running, ctl, feedVars, popVars>>

\* The sink sees the quote after the table has it.
CallSink ==
    /\ cpc = "sink"
    /\ cpc' = "test"
    /\ UNCHANGED <<queue, msg, table, running, quote, ctl, feedVars, popVars>>

-----------------------------------------------------------------------------
Feed == FeedAccept \/ FeedDrop
Controller == StartExchange \/ StartSpawn \/ StopExchange \/ StopJoin
Consumer == LoopTest \/ PopNothing \/ PopFrame \/ HandleGarbage \/ HandleQuote \/ CallSink

Next == Feed \/ Controller \/ Consumer

Spec == Init /\ [][Next]_vars

(* The consumer thread keeps being scheduled, so does a controller that is  *)
(* inside start() or stop().  Nothing obliges the feed to deliver or the   *)
(* application to start or stop.  A push becomes visible in the end: a     *)
(* consumer that polls for ever takes a frame that is there.               *)
FairSpec == Spec /\ WF_vars(Consumer) /\ SF_vars(PopFrame) /\ WF_vars(StartSpawn) /\ WF_vars(StopJoin)

-----------------------------------------------------------------------------
(* Properties *)

\* The variables have their types.
TypeOK ==
    /\ queue \in Seq(Frames)
    /\ msg \in Frames \cup {Absent}
    /\ table \in [Tokens -> Quotes \cup {Absent}]
    /\ running \in BOOLEAN
    /\ cpc \in {"none", "test", "pop", "handle", "sink", "exited"}
    /\ quote \in Quotes \cup {Absent}
    /\ ctl \in {"idle", "spawn", "join"}
    /\ delivered \in 0 .. MaxFrames
    /\ accepted \in Seq(Frames)
    /\ pops \in Nat /\ seenPops \in Nat /\ seenPushes \in Nat

\* The frames popped and done with, in the order they were accepted.
Handled == SubSeq(accepted, 1, IF cpc = "handle" THEN pops - 1 ELSE pops)

\* Every accepted frame is handled, in the consumer's hand or queued, once
\* and in order, across any number of stops and restarts: stopping loses no
\* frame, not even the one in hand, and dropping loses only new frames.
FramesAccounted ==
    /\ queue = SubSeq(accepted, pops + 1, Len(accepted))
    /\ Len(queue) <= Capacity
    /\ cpc = "handle" => msg = accepted[pops]

\* The table holds, for every token, the quote of the last handled frame of
\* that token in any of its spellings, and nothing for the others.
LastOf(t, k) ==
    /\ Parses(Handled[k]) /\ Parse(Handled[k]).token = t
    /\ \A j \in k + 1 .. Len(Handled) :
          Parses(Handled[j]) => Parse(Handled[j]).token # t
TableIsLatest ==
    \A t \in Tokens :
        IF \E k \in 1 .. Len(Handled) : LastOf(t, k)
          THEN table[t] = Parse(Handled[CHOOSE k \in 1 .. Len(Handled) : LastOf(t, k)])
          ELSE table[t] = Absent

\* A token's quote is never replaced by an older one, nor removed.
QuotesNeverGoBack ==
    [][\A t \in Tokens : table[t] # Absent =>
          table'[t] # Absent /\ table'[t].ltp >= table[t].ltp]_vars

\* Outside start() and stop() there is a consumer thread exactly while
\* running_ says so, and start() never assigns to a thread not yet joined
\* (which would end the program).
ThreadMatchesFlag ==
    /\ ctl = "idle" => (running <=> cpc \in {"test", "pop", "handle", "sink"})
                        /\ (~ running <=> cpc = "none")
    /\ ctl = "spawn" => cpc = "none"

\* stop() returns, however fast frames keep coming.
StopReturns == ctl = "join" ~> ctl = "idle"

\* An accepted frame is handled unless the consumer is stopped.
AcceptedIsHandled ==
    \A k \in 1 .. MaxFrames :
        Len(accepted) >= k ~> (Len(Handled) >= k \/ ~ running)
==============================================================================
