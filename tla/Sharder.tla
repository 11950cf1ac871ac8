------------------------------- MODULE Sharder -------------------------------
(***************************************************************************)
(* The composition of workers (src/sharder.cpp): start builds one worker   *)
(* per slice of the desired tokens, starts the consumers, then the         *)
(* sockets, then sends the subscriptions, while the workers' IO threads    *)
(* connect, are disconnected and reconnect; stop takes them down again.    *)
(*                                                                         *)
(* A worker is a record.  Its WebSocketClient is what Connection says of   *)
(* it, and what the server has been told on the current connection.  Its   *)
(* queue is the number of frames in it, its consumer whether it runs       *)
(* (Pipeline has the rest).                                                *)
(*                                                                         *)
(* One thread controls the sharder: start, stop and the setters hold mu    *)
(* from their first step to their last.                                    *)
(***************************************************************************)
EXTENDS Batching, SequencesExt

CONSTANTS TokenLists,   \* the lists set_tokens is called with
          MaxPerConn,   \* opts.max_tokens_per_conn
          BatchSize,    \* opts.subscribe_batch_size
          QueueSize,    \* frames a worker's queue holds
          MaxWorkers    \* bound: workers any of the lists needs

\* The tokens of those lists.
Listed == UNION {ToSet(l) : l \in TokenLists}

ASSUME SharderAssumption ==
    /\ MaxPerConn \in Nat /\ BatchSize \in Nat
    /\ QueueSize \in Nat \ {0} /\ MaxWorkers \in Nat \ {0}
    /\ \A l \in TokenLists : /\ l \in Seq(Listed)
                            /\ SliceCount(l, Limit(MaxPerConn, 800)) <= MaxWorkers

VARIABLES
    desired_tokens,
    workers,    \* the vector of workers
    running,    \* Impl::running
    ctl,        \* the controller's next step in start or stop, "idle", or
                \* "undefined" once a thread's queue was destroyed under it
    at,         \* the worker its loop is at
    sent,       \* batches of that worker's initial subscription dealt with
    built,      \* history: desired_tokens when the workers were built
    overtaken   \* history: workers whose IO thread had not begun when
                \* stop() asked for it

vars == <<desired_tokens, workers, running, ctl, at, sent, built, overtaken>>

Conn == INSTANCE Connection

Batches(tokens) == Slices(tokens, Limit(BatchSize, 100))

\* build_workers_locked: at least one worker, idle if there are no tokens.
NewWorker(tokens) ==
    [tokens |-> tokens,
     cons |-> FALSE, queued |-> 0,
     io |-> "none", live |-> FALSE, again |-> FALSE,    \* see Connection
     broken |-> FALSE,        \* a write failed: the next read will
     todo |-> 0,              \* batches on_resubscribe has dealt with
     told |-> {}]             \* tokens the server was told of
NewWorkers ==
    LET slices == Slices(desired_tokens, Limit(MaxPerConn, 800))
    IN  IF slices = <<>> THEN <<NewWorker(<<>>)>>
        ELSE [i \in 1 .. Len(slices) |-> NewWorker(slices[i])]

\* Positions in the vector of workers.
Ids == 1 .. MaxWorkers

Connected(w) == w.io \in {"resubscribe", "read"}

\* A write of the next batch: delivered, or the connection breaks.
Told(w, k) == w.told \cup ToSet(Batches(w.tokens)[k])

Init ==
    /\ desired_tokens = <<>>
    /\ workers = <<>> /\ running = FALSE
    /\ ctl = "idle" /\ at = 1 /\ sent = 0
    /\ built = <<>> /\ overtaken = {}

-----------------------------------------------------------------------------
(* The controller *)

SetTokens ==
    /\ ctl = "idle"
    /\ desired_tokens' \in TokenLists
    /\ UNCHANGED <<workers, running, ctl, at, sent, built, overtaken>>

\* The loops over the workers: this stage for the next worker, or the next stage.
Loop(stage, after) ==
    IF at = Len(workers) THEN ctl' = after /\ at' = 1
                         ELSE ctl' = stage /\ at' = at + 1

StartBuild_SkipsConsumers ==
    /\ ctl = "idle" /\ ~ running
    /\ workers' = NewWorkers /\ built' = desired_tokens
    /\ ctl' = "sockets" /\ at' = 1
    /\ UNCHANGED <<desired_tokens, running, sent, overtaken>>
StartBuild ==
    /\ ctl = "idle" /\ ~ running
    /\ workers' = NewWorkers /\ built' = desired_tokens
    /\ ctl' = "consumers" /\ at' = 1
    /\ UNCHANGED <<desired_tokens, running, sent, overtaken>>

StartConsumer ==
    /\ ctl = "consumers"
    /\ workers' = [workers EXCEPT ![at].cons = TRUE]
    /\ Loop("consumers", "sockets")
    /\ UNCHANGED <<desired_tokens, running, sent, built, overtaken>>

StartSocket ==
    /\ ctl = "sockets"
    /\ \E w \in Conn!Spawned(workers[at]) : workers' = [workers EXCEPT ![at] = w]
    /\ Loop("sockets", "subscribe")
    /\ UNCHANGED <<desired_tokens, running, sent, built, overtaken>>

\* send_initial_subscribes: send_text does nothing without a connection, and
\* its answer is not looked at.
InitialSend ==
    /\ ctl = "subscribe" /\ sent < Len(Batches(workers[at].tokens))
    /\ sent' = sent + 1
    /\ \/ /\ Connected(workers[at]) /\ ~ workers[at].broken
          /\ \/ workers' = [workers EXCEPT ![at].told = Told(workers[at], sent + 1)]
             \/ workers' = [workers EXCEPT ![at].broken = TRUE]
       \/ /\ ~ Connected(workers[at]) \/ workers[at].broken
          /\ UNCHANGED workers
    /\ UNCHANGED <<desired_tokens, running, ctl, at, built, overtaken>>

InitialSent ==
    /\ ctl = "subscribe" /\ sent = Len(Batches(workers[at].tokens))
    /\ sent' = 0
    /\ Loop("subscribe", "idle")
    /\ running' = (at = Len(workers))
    /\ UNCHANGED <<desired_tokens, workers, built, overtaken>>

StopBegin_ConsumersOnly ==
    /\ ctl = "idle" /\ running
    /\ ctl' = "stopcons" /\ at' = 1
    /\ UNCHANGED <<desired_tokens, workers, running, sent, built, overtaken>>
StopBegin ==
    /\ ctl = "idle" /\ running
    /\ ctl' = "stopws" /\ at' = 1
    /\ UNCHANGED <<desired_tokens, workers, running, sent, built, overtaken>>

\* WebSocketClient::stop returns at once when its running is false: the IO
\* thread is left as it is.
StopSocketIdle ==
    /\ ctl = "stopws" /\ ~ workers[at].live
    /\ overtaken' = overtaken \cup {at}
    /\ Loop("stopws", "stopcons")
    /\ UNCHANGED <<desired_tokens, workers, running, sent, built>>

StopSocket_KeepsRunning ==
    /\ ctl = "stopws" /\ workers[at].live
    /\ ctl' = "join"
    /\ UNCHANGED <<desired_tokens, workers, running, at, sent, built, overtaken>>
StopSocket ==
    /\ ctl = "stopws"
    /\ \E w \in Conn!Stopped(workers[at]) : workers' = [workers EXCEPT ![at] = w]
    /\ ctl' = "join"
    /\ UNCHANGED <<desired_tokens, running, at, sent, built, overtaken>>

StopJoin ==
    /\ ctl = "join"
    /\ \E w \in Conn!Joined(workers[at]) : workers' = [workers EXCEPT ![at] = w]
    /\ Loop("stopws", "stopcons")
    /\ UNCHANGED <<desired_tokens, running, sent, built, overtaken>>

StopConsumer ==
    /\ ctl = "stopcons"
    /\ workers' = [workers EXCEPT ![at].cons = FALSE]
    /\ Loop("stopcons", "clear")
    /\ UNCHANGED <<desired_tokens, running, sent, built, overtaken>>

\* workers.clear() destroys queues with whatever is still in them, then each
\* client, whose destructor stops and joins a thread that has begun since.
StopClear ==
    /\ ctl = "clear"
    /\ \A i \in DOMAIN workers : workers[i].io = "none" \/ workers[i].live
    /\ workers' = <<>> /\ running' = FALSE
    /\ ctl' = "idle"
    /\ overtaken' = {}
    /\ UNCHANGED <<desired_tokens, at, sent, built>>

\* A thread that goes on meanwhile uses the destroyed queue, or is joinable
\* when it is destroyed: anything may follow.
StopDestroysInUse ==
    /\ ctl = "clear"
    /\ \E i \in DOMAIN workers : workers[i].io \notin {"none", "ended"}
    /\ workers' = <<>>
    /\ ctl' = "undefined"
    /\ UNCHANGED <<desired_tokens, running, at, sent, built, overtaken>>

-----------------------------------------------------------------------------
(* Worker i: its IO thread and its consumer. *)

Becomes(i, ws) ==
    /\ i \in DOMAIN workers
    /\ \E w \in ws : workers' = [workers EXCEPT ![i] = w]
    /\ UNCHANGED <<desired_tokens, running, ctl, at, sent, built, overtaken>>

IoBegin(i)      == Becomes(i, Conn!Begun(workers[i]))
AttemptFails(i) == Becomes(i, Conn!AttemptFailed(workers[i]))
Retry(i)        == Becomes(i, Conn!Retried(workers[i]))

\* A new connection knows no subscriptions.
Renewed(w) == [w EXCEPT !.told = {}, !.todo = 0, !.broken = FALSE]
AttemptOk(i) == Becomes(i, {Renewed(w) : w \in Conn!Connected(workers[i])})

\* on_resubscribe, one batch a step.
ResubscribeSend(i) ==
    /\ i \in DOMAIN workers /\ workers[i].io = "resubscribe"
    /\ workers[i].todo < Len(Batches(workers[i].tokens))
    /\ LET w == [workers[i] EXCEPT !.todo = @ + 1]
       IN  Becomes(i, {[w EXCEPT !.broken = TRUE]}
                      \cup (IF w.broken THEN {} ELSE {[w EXCEPT !.told = Told(w, w.todo)]}))

Resubscribed(i) ==
    /\ i \in DOMAIN workers /\ workers[i].todo = Len(Batches(workers[i].tokens))
    /\ Becomes(i, Conn!Resubscribed(workers[i]))

\* A frame for a token the server was told of: pushed, or dropped when full.
Readable(w) == w.io = "read" /\ w.live /\ ~ w.broken /\ w.told # {}
OnMessage_NoFullTest(i) ==
    /\ i \in DOMAIN workers /\ Readable(workers[i])
    /\ Becomes(i, {[workers[i] EXCEPT !.queued = @ + 1]})
OnMessage(i) ==
    /\ i \in DOMAIN workers /\ Readable(workers[i]) /\ workers[i].queued < QueueSize
    /\ Becomes(i, {[workers[i] EXCEPT !.queued = @ + 1]})

ConnectionLost(i) == Becomes(i, Conn!Lost(workers[i]))
PeerCloses(i)     == Becomes(i, Conn!PeerClosed(workers[i]))

Consume(i) ==
    /\ i \in DOMAIN workers /\ workers[i].cons /\ workers[i].queued > 0
    /\ Becomes(i, {[workers[i] EXCEPT !.queued = @ - 1]})

-----------------------------------------------------------------------------
Start == StartBuild \/ StartConsumer \/ StartSocket \/ InitialSend \/ InitialSent
Stop == StopBegin \/ StopSocketIdle \/ StopSocket \/ StopJoin \/ StopConsumer
        \/ StopClear \/ StopDestroysInUse

Io(i) == \/ IoBegin(i) \/ AttemptFails(i) \/ Retry(i) \/ AttemptOk(i)
         \/ ResubscribeSend(i) \/ Resubscribed(i) \/ ConnectionLost(i) \/ PeerCloses(i)

Next == \/ SetTokens \/ Start \/ Stop
        \/ \E i \in Ids : Io(i) \/ OnMessage(i) \/ Consume(i)

Spec == Init /\ [][Next]_vars

(* Threads keep running, a connection attempt ends and in the end succeeds *)
(* (WebSocketClient says what that takes), and a read ends once the stream *)
(* is broken or the client stopped.  A call of start or stop goes on.      *)
IoGoesOn(i) ==
    \/ IoBegin(i) \/ AttemptFails(i) \/ Retry(i) \/ AttemptOk(i)
    \/ ResubscribeSend(i) \/ Resubscribed(i)
    \/ /\ i \in DOMAIN workers /\ (workers[i].broken \/ ~ workers[i].live)
       /\ ConnectionLost(i)
Controller == \/ StartConsumer \/ StartSocket \/ InitialSend \/ InitialSent
              \/ StopSocketIdle \/ StopSocket \/ StopJoin \/ StopConsumer
              \/ StopClear \/ StopDestroysInUse
FairSpec ==
    /\ Spec /\ WF_vars(Controller)
    /\ \A i \in Ids : WF_vars(IoGoesOn(i)) /\ SF_vars(AttemptOk(i))

-----------------------------------------------------------------------------
(* Properties *)

\* The variables have their types.
Worker == [tokens : Seq(Listed),
           cons : BOOLEAN, queued : 0 .. QueueSize,
           io : Conn!Places,
           live : BOOLEAN, again : BOOLEAN, broken : BOOLEAN,
           todo : Nat, told : SUBSET Listed]
TypeOK ==
    /\ desired_tokens \in TokenLists \cup {<<>>} /\ built \in TokenLists \cup {<<>>}
    /\ DOMAIN workers \subseteq Ids /\ \A i \in DOMAIN workers : workers[i] \in Worker
    /\ running \in BOOLEAN
    /\ ctl \in {"idle", "consumers", "sockets", "subscribe",
                "stopws", "join", "stopcons", "clear", "undefined"}
    /\ at \in Ids /\ sent \in Nat /\ overtaken \subseteq Ids

\* The workers share out the tokens start() found: each list position goes to
\* one worker, in order, and no connection has more than the limit.
WorkersCoverTokens ==
    workers # <<>> =>
        /\ FlattenSeq([i \in DOMAIN workers |-> workers[i].tokens]) = built
        /\ \A i \in DOMAIN workers : Len(workers[i].tokens) <= Limit(MaxPerConn, 800)

\* A connection that reconnect_loop brought up and that can still be read was
\* told of every token of its worker, over all batches.
ReconnectedIsSubscribed ==
    \A i \in DOMAIN workers :
        workers[i].again /\ workers[i].io = "read" /\ ~ workers[i].broken =>
            workers[i].told = ToSet(workers[i].tokens)

\* A socket that can deliver frames has a consumer behind its queue, from
\* before it connects until after it is stopped, unless stop() overtook the
\* socket's thread.
SocketsHaveConsumers ==
    \A i \in DOMAIN workers \ overtaken :
        workers[i].io \notin {"none", "ended"} => workers[i].cons

\* When the workers are destroyed their consumers have stopped and no IO
\* thread is left but those stop() overtook; if it overtook none, nothing is
\* destroyed in use.
NoOrphans ==
    /\ ctl = "clear" =>
         /\ \A i \in DOMAIN workers : ~ workers[i].cons
         /\ \A i \in DOMAIN workers \ overtaken : workers[i].io = "none"
    /\ ctl = "undefined" => overtaken # {}

\* start() and stop() return, whatever the connections do meanwhile, while
\* the program's behaviour is defined.
OperationsReturn == ctl # "idle" ~> ctl \in {"idle", "undefined"}

\* A worker whose connection stays up is subscribed to its tokens.
ConnectedIsSubscribed ==
    \A i \in Ids :
        LET up == i \in DOMAIN workers /\ workers[i].io = "read"
        IN  up ~> (~ up \/ workers[i].told = ToSet(workers[i].tokens))
==============================================================================
