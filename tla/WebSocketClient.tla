--------------------------- MODULE WebSocketClient ---------------------------
(***************************************************************************)
(* The reconnecting WebSocket client (include/websocket_client.h,          *)
(* src/websocket_client.cpp): the IO thread that connects, reads and       *)
(* reconnects, the application thread that starts, stops and sets          *)
(* callbacks, and an application thread that sends.                        *)
(*                                                                         *)
(* running and connected are the atomics of Impl; ws is the unique_ptr to  *)
(* the current stream, which the IO thread replaces on every attempt while *)
(* other threads use it without a lock.  A stream is a name from Streams;  *)
(* the name of a destroyed stream is used again once no thread holds it.   *)
(* Network operations are synchronous: each ends in success or failure at  *)
(* some later step, or never; a read of a quiet connection waits until     *)
(* stop() shuts the stream.                                                *)
(***************************************************************************)
EXTENDS Naturals

CONSTANTS Streams,          \* names of stream objects
          NoStream,         \* a null pointer
          BackoffInitial,   \* opts.backoff_initial
          BackoffMax        \* opts.backoff_max

ASSUME ClientAssumption ==
    /\ NoStream \notin Streams
    /\ BackoffInitial \in Nat /\ BackoffMax \in Nat
    /\ BackoffInitial <= BackoffMax

VARIABLES
    running, connected,  \* the atomics of Impl
    ws,                  \* Impl::ws
    status,              \* of a stream: "gone", "made", "wired", "open", "shut"
    io,                  \* the IO thread's next step; "none" when not joinable
    via,                 \* who called connect_once: "run" or "reconnect"
    backoff,             \* reconnect_loop's local
    closedByPeer,        \* history: the last read ended in a close
    ctl,                 \* the application thread's next step
    closing,             \* the stream stop() is inside close() of
    sending,             \* the stream send_text is inside write() of
    did,                 \* history: the last of start, stop to return
    hurried              \* history: since the last join, start or stop was
                         \* called before the IO thread had set running

netVars == <<ws, status>>
ioVars == <<io, via, backoff, closedByPeer>>
appVars == <<ctl, closing, did, hurried>>
vars == <<running, connected, netVars, ioVars, appVars, sending>>

Conn == INSTANCE Connection

Init ==
    /\ running = FALSE /\ connected = FALSE
    /\ ws = NoStream /\ status = [s \in Streams |-> "gone"]
    /\ io = "none" /\ via = "run" /\ backoff = BackoffInitial
    /\ closedByPeer = FALSE
    /\ ctl = "idle" /\ closing = NoStream /\ sending = NoStream
    /\ did = "nothing" /\ hurried = FALSE

-----------------------------------------------------------------------------
(* The IO thread.  IoStep is what most of its steps leave alone. *)

IoStep(from, to) == io = from /\ io' = to /\ UNCHANGED <<appVars, sending>>

\* run(): only now does running become true.
RunBegin ==
    /\ IoStep("run", "resolve")
    /\ running' = TRUE
    /\ via' = "run"
    /\ closedByPeer' = FALSE
    /\ UNCHANGED <<connected, netVars, backoff>>

\* connect_once: any operation may throw, which is caught at "failed".
ConnectThrows ==
    /\ io \in {"resolve", "tcp", "handshake"}
    /\ IoStep(io, "failed")
    /\ UNCHANGED <<running, connected, netVars, via, backoff, closedByPeer>>

ResolveOk ==
    /\ IoStep("resolve", "make")
    /\ UNCHANGED <<running, connected, netVars, via, backoff, closedByPeer>>

\* ws = make_unique<...>(): the stream before it is destroyed.
MakeStream ==
    /\ IoStep("make", "tcp")
    /\ \E s \in Streams \ {ws, closing, sending} :
          /\ ws' = s
          /\ status' = [x \in Streams |-> IF x = s THEN "made"
                                          ELSE IF x = ws THEN "gone" ELSE status[x]]
    /\ UNCHANGED <<running, connected, via, backoff, closedByPeer>>

TcpOk ==
    /\ IoStep("tcp", "handshake")
    /\ status' = [status EXCEPT ![ws] = "wired"]
    /\ UNCHANGED <<running, connected, ws, via, backoff, closedByPeer>>

\* TLS and WebSocket handshakes; a stream shut down meanwhile fails.
HandshakeOk ==
    /\ IoStep("handshake", "up")
    /\ status[ws] = "wired"
    /\ status' = [status EXCEPT ![ws] = "open"]
    /\ UNCHANGED <<running, connected, ws, via, backoff, closedByPeer>>

\* connect_once returns true: run() reads, reconnect_loop resubscribes first.
ConnectSucceeds_NoResubscribe ==
    /\ IoStep("up", "loop")
    /\ connected' = TRUE
    /\ UNCHANGED <<running, netVars, via, backoff, closedByPeer>>
ConnectSucceeds ==
    /\ IoStep("up", IF via = "run" THEN "loop" ELSE "resubscribe")
    /\ connected' = TRUE
    /\ UNCHANGED <<running, netVars, via, backoff, closedByPeer>>

\* connect_once returns false: run() enters reconnect_loop, which sleeps.
ConnectFails ==
    /\ IoStep("failed", IF via = "run" THEN "retry" ELSE "sleep")
    /\ connected' = FALSE
    /\ via' = "reconnect"
    /\ backoff' = IF via = "run" THEN BackoffInitial ELSE backoff
    /\ UNCHANGED <<running, netVars, closedByPeer>>

SleepOver_Unbounded ==
    /\ IoStep("sleep", "retry")
    /\ backoff' = IF backoff > BackoffMax THEN backoff ELSE 2 * backoff
    /\ UNCHANGED <<running, connected, netVars, via, closedByPeer>>
SleepOver ==
    /\ IoStep("sleep", "retry")
    /\ backoff' = IF 2 * backoff <= BackoffMax THEN 2 * backoff ELSE BackoffMax
    /\ UNCHANGED <<running, connected, netVars, via, closedByPeer>>

\* while (running && !connected) of reconnect_loop
Retry ==
    /\ IoStep("retry", IF running /\ ~ connected THEN "resolve" ELSE "exit")
    /\ UNCHANGED <<running, connected, netVars, via, backoff, closedByPeer>>

Resubscribe ==
    /\ IoStep("resubscribe", "loop")
    /\ UNCHANGED <<running, connected, netVars, via, backoff, closedByPeer>>

\* while (running) of read_loop; leaving it unwinds to the end of run().
ReadLoop ==
    /\ IoStep("loop", IF running THEN "read" ELSE "exit")
    /\ UNCHANGED <<running, connected, netVars, via, backoff, closedByPeer>>

ReadFrame ==
    /\ IoStep("read", "message")
    /\ status[ws] = "open"
    /\ UNCHANGED <<running, connected, netVars, via, backoff, closedByPeer>>

OnMessage ==
    /\ IoStep("message", "loop")
    /\ UNCHANGED <<running, connected, netVars, via, backoff, closedByPeer>>

\* read() sets ec: the peer closed, or anything else went wrong.  What stop()
\* does to the stream can end it either way.
ReadFails ==
    /\ io = "read"
    /\ \E ec \in {"closed", "error"} :
          IoStep("read", ec) /\ closedByPeer' = (ec = "closed")
    /\ status' = [status EXCEPT ![ws] = "shut"]
    /\ UNCHANGED <<running, connected, ws, via, backoff>>

OnClosed ==
    /\ IoStep("closed", "exit")
    /\ connected' = IF running THEN FALSE ELSE connected
    /\ UNCHANGED <<running, netVars, via, backoff, closedByPeer>>

OnError_StaysConnected ==
    /\ IoStep("error", IF running THEN "retry" ELSE "exit")
    /\ via' = IF running THEN "reconnect" ELSE via
    /\ backoff' = IF running THEN BackoffInitial ELSE backoff
    /\ UNCHANGED <<running, connected, netVars, closedByPeer>>
OnError ==
    /\ IoStep("error", IF running THEN "retry" ELSE "exit")
    /\ connected' = IF running THEN FALSE ELSE connected
    /\ via' = IF running THEN "reconnect" ELSE via
    /\ backoff' = IF running THEN BackoffInitial ELSE backoff
    /\ UNCHANGED <<running, netVars, closedByPeer>>

-----------------------------------------------------------------------------
(* The application thread: start, stop, the on_... setters. *)

StartCall ==
    /\ ctl = "idle"
    /\ ctl' = "start"
    /\ UNCHANGED <<running, connected, netVars, ioVars, closing, sending, did, hurried>>

\* Assigning to a joinable io_thread ends the program.
Start ==
    /\ ctl = "start"
    /\ IF ~ running /\ io # "none"
         THEN io' = "terminated" /\ ctl' = "terminated" /\ UNCHANGED did
         ELSE /\ io' = IF running THEN io ELSE "run"
              /\ ctl' = "idle" /\ did' = "started"
    /\ hurried' = (hurried \/ io = "run")
    /\ UNCHANGED <<running, connected, netVars, via, backoff, closedByPeer, closing, sending>>

\* stop() of a client that is not running returns at once.
StopIdle ==
    /\ ctl = "idle" /\ ~ running
    /\ did' = "stopped" /\ hurried' = (hurried \/ io = "run")
    /\ UNCHANGED <<running, connected, netVars, ioVars, ctl, closing, sending>>

StopBegin ==
    /\ ctl = "idle" /\ running
    /\ running' = FALSE
    /\ ctl' = "close"
    /\ UNCHANGED <<connected, netVars, ioVars, closing, sending, did, hurried>>

\* if (ws) ws->close(...): the call waits for the peer.
StopClose ==
    /\ ctl = "close"
    /\ closing' = ws
    /\ ctl' = IF ws = NoStream THEN "join" ELSE "closing"
    /\ UNCHANGED <<running, connected, netVars, ioVars, sending, did, hurried>>

\* Cancelling alone would not end a synchronous read.
Shut_OnlyCancels(s, from) == UNCHANGED status
Shut(s, from) == status' = [status EXCEPT ![s] = IF @ \in from THEN "shut" ELSE @]

StopClosed ==
    /\ ctl = "closing"
    /\ Shut(closing, {"open"})
    /\ closing' = NoStream
    /\ ctl' = "shutdown"
    /\ UNCHANGED <<running, connected, ws, ioVars, sending, did, hurried>>

\* cancel and shutdown, through ws as it is by now.
StopShutdown ==
    /\ ctl = "shutdown"
    /\ Shut(ws, {"wired", "open"})
    /\ ctl' = "join"
    /\ UNCHANGED <<running, connected, ws, ioVars, closing, sending, did, hurried>>

StopJoin_NoWait ==
    /\ ctl = "join"
    /\ ctl' = "idle" /\ did' = "stopped"
    /\ UNCHANGED <<running, connected, netVars, ioVars, closing, sending, hurried>>
StopJoin ==
    /\ ctl = "join" /\ io = "exit"
    /\ io' = "none"
    /\ ctl' = "idle" /\ did' = "stopped" /\ hurried' = FALSE
    /\ UNCHANGED <<running, connected, netVars, via, backoff, closedByPeer, closing, sending>>

\* on_message, on_resubscribe: a move assignment, not atomic.
SetCallbackBegin ==
    /\ ctl = "idle"
    /\ ctl' = "set"
    /\ UNCHANGED <<running, connected, netVars, ioVars, closing, sending, did, hurried>>
SetCallbackEnd ==
    /\ ctl = "set"
    /\ ctl' = "idle"
    /\ UNCHANGED <<running, connected, netVars, ioVars, closing, sending, did, hurried>>

-----------------------------------------------------------------------------
(* A sending thread: send_text, send_binary.  One that finds no stream or  *)
(* no connection returns false and changes nothing.                        *)

SendBegin ==
    /\ sending = NoStream /\ ctl # "terminated"
    /\ ws # NoStream /\ connected
    /\ sending' = ws
    /\ UNCHANGED <<running, connected, netVars, ioVars, appVars>>

SendEnd ==
    /\ sending # NoStream /\ ctl # "terminated"
    /\ sending' = NoStream
    /\ UNCHANGED <<running, connected, netVars, ioVars, appVars>>

-----------------------------------------------------------------------------
\* The steps that end a call on the network, and the others of the IO thread.
Attempt == ResolveOk \/ TcpOk \/ HandshakeOk \/ ConnectThrows
Network == Attempt \/ ReadFrame \/ ReadFails
Local == \/ RunBegin \/ MakeStream \/ ConnectSucceeds \/ ConnectFails \/ SleepOver
         \/ Retry \/ Resubscribe \/ ReadLoop \/ OnMessage \/ OnClosed \/ OnError
Lifecycle == \/ StartCall \/ Start \/ StopIdle \/ StopBegin \/ StopClose \/ StopClosed
             \/ StopShutdown \/ StopJoin \/ SetCallbackBegin \/ SetCallbackEnd

Next == Network \/ Local \/ Lifecycle \/ SendBegin \/ SendEnd

Spec == Init /\ [][Next]_vars

\* Threads keep running; this says nothing of calls that wait for the network.
Progress == /\ WF_vars(Local) /\ WF_vars(Start) /\ WF_vars(SetCallbackEnd)
            /\ WF_vars(StopClose) /\ WF_vars(StopShutdown) /\ WF_vars(StopJoin)

\* A read of a stream that has been shut returns.  No other read need ever.
ReadEnds == io = "read" /\ status[ws] = "shut" /\ ReadFails

\* The peer owes no frame and need not fail.  Assumed of the network is that an
\* attempt to connect ends somehow, that close() is answered or fails, and that
\* a server asked again and again at last answers.
FairSpec == /\ Spec /\ Progress /\ WF_vars(ReadEnds)
            /\ WF_vars(Attempt) /\ WF_vars(StopClosed)
            /\ SF_vars(ResolveOk) /\ SF_vars(TcpOk) /\ SF_vars(HandshakeOk)

-----------------------------------------------------------------------------
(* Properties *)

\* The variables have their types.
TypeOK ==
    /\ running \in BOOLEAN /\ connected \in BOOLEAN
    /\ ws \in Streams \cup {NoStream}
    /\ status \in [Streams -> {"gone", "made", "wired", "open", "shut"}]
    /\ io \in {"none", "run", "resolve", "make", "tcp", "handshake", "up", "failed",
               "sleep", "retry", "resubscribe", "loop", "read", "message",
               "closed", "error", "exit", "terminated"}
    /\ via \in {"run", "reconnect"}
    /\ backoff \in BackoffInitial .. BackoffMax
    /\ closedByPeer \in BOOLEAN /\ hurried \in BOOLEAN
    /\ ctl \in {"idle", "start", "close", "closing", "shutdown", "join", "set", "terminated"}
    /\ closing \in Streams \cup {NoStream} /\ sending \in Streams \cup {NoStream}
    /\ did \in {"nothing", "started", "stopped"}

\* When stop() has returned the IO thread is gone, joined, and no start() ends
\* the program by assigning to a thread still joinable, unless the application
\* called stop() or start() again before the IO thread had set running
\* (websocket_client.cpp:152-153, 193-202).
StopJoins == /\ did = "stopped" /\ ctl = "idle" => io = "none" \/ hurried
             /\ ctl = "terminated" => hurried

\* While the client runs, the IO thread ends only because the peer closed: a
\* lost connection or a failed attempt always leads to another attempt.
NoSilentDeath == io = "exit" /\ running => closedByPeer

\* The client as the rest of the program sees it.
Seen == [io |-> CASE io = "none" -> "none"
                  [] io = "run"  -> "begin"
                  [] io \in {"resolve", "make", "tcp", "handshake", "up", "failed"} -> "attempt"
                  [] io \in {"sleep", "retry"} -> "sleep"
                  [] io = "resubscribe" -> "resubscribe"
                  [] io \in {"loop", "read", "message", "closed", "error"} -> "read"
                  [] io = "exit" -> "ended"
                  [] io = "terminated" -> "begin",
         live  |-> running,
         again |-> via = "reconnect"]

\* The client takes only the steps of Connection, which Sharder's workers are
\* built from: it resubscribes on every connection but a run's first, goes on
\* trying while it is not stopped, and runs once a start
\* (websocket_client.cpp:113-160, 193-203).
ImplementsConnection == Seen = Conn!Closed /\ [][Seen' \in Conn!Steps(Seen)]_Seen

\* No thread is inside a call on a stream that has been destroyed.
StreamInUseExists ==
    /\ closing # NoStream => status[closing] # "gone"
    /\ sending # NoStream => status[sending] # "gone"

\* stop() returns: the read it finds the IO thread in, however quiet the
\* connection, ends because stop() shuts the stream under it, and no later read
\* begins, whatever attempt, back-off or callback is under way.  An attempt and
\* close() itself are assumed to end; nothing in the client bounds them
\* (websocket_client.cpp:114-120, 163-173, 199-203).
StopReturns == ctl = "close" ~> ctl = "idle"

\* A client that lost its connection is connected again, unless stopped, if
\* attempts end and the server at last answers (websocket_client.cpp:127-149).
Reconnects == io = "error" /\ running ~> io = "read" \/ ~ running
==============================================================================
