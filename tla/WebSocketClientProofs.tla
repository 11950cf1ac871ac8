------------------------ MODULE WebSocketClientProofs ------------------------
(***************************************************************************)
(* Proofs about WebSocketClient, for any streams and back-off times.       *)
(***************************************************************************)
EXTENDS WebSocketClient, TLAPS

InStop == {"close", "closing", "shutdown", "join"}

\* The flag and the IO thread: a thread that has not begun, or is gone, has
\* not set running; without a stop under way nothing else is left unset.
FlagInv ==
    /\ io \in {"none", "run"} => ~running
    /\ ctl \in InStop => ~running /\ io \notin {"none", "run", "terminated"}
    /\ ctl \in {"idle", "start", "set"} =>
          (running \/ io \in {"none", "run"}) /\ io # "terminated"

\* A thread that has been stopped is gone, unless it was overtaken.
StoppedInv ==
    /\ ctl \in {"idle", "start", "set"} /\ did = "stopped" => io = "none" \/ hurried
    /\ ctl = "terminated" => hurried /\ io = "terminated"

\* reconnect_loop goes on exactly because the connection is down.
DownInv ==
    /\ io \in {"sleep", "retry"} => ~connected
    /\ io = "closed" => closedByPeer

IInv == TypeOK /\ FlagInv /\ StoppedInv /\ DownInv /\ NoSilentDeath

LEMMA InitIInv == Init => IInv
  <1> SUFFICES ASSUME Init PROVE IInv
    OBVIOUS
  <1>1. BackoffInitial \in BackoffInitial .. BackoffMax
    BY ClientAssumption
  <1>2. TypeOK
    BY <1>1, Zenon DEF Init, TypeOK
  <1>3. FlagInv /\ StoppedInv /\ DownInv /\ NoSilentDeath
    BY DEF Init, FlagInv, InStop, StoppedInv, DownInv, NoSilentDeath
  <1> QED BY <1>2, <1>3 DEF IInv

IoSteps == Network \/ Local

\* The IO thread's steps keep the types.
LEMMA IoTypeOK ==
    ASSUME TypeOK, IoSteps
    PROVE  TypeOK'
  <1>1. UNCHANGED <<ctl, closing, did, hurried, sending>>
    BY DEF IoSteps, Network, Attempt, Local, IoStep, appVars, ResolveOk, TcpOk, HandshakeOk, ConnectThrows,
           ReadFrame, ReadFails, RunBegin, MakeStream, ConnectSucceeds, ConnectFails, SleepOver,
           Retry, Resubscribe, ReadLoop, OnMessage, OnClosed, OnError
  <1>2. /\ running' \in BOOLEAN /\ connected' \in BOOLEAN /\ closedByPeer' \in BOOLEAN
        /\ via' \in {"run", "reconnect"}
    BY DEF TypeOK, IoSteps, Network, Attempt, Local, ResolveOk, TcpOk, HandshakeOk, ConnectThrows,
           ReadFrame, ReadFails, RunBegin, MakeStream, ConnectSucceeds, ConnectFails, SleepOver,
           Retry, Resubscribe, ReadLoop, OnMessage, OnClosed, OnError
  <1>3. io' \in {"none", "run", "resolve", "make", "tcp", "handshake", "up", "failed",
               "sleep", "retry", "resubscribe", "loop", "read", "message",
               "closed", "error", "exit", "terminated"}
    BY DEF IoSteps, Network, Attempt, Local, IoStep, ResolveOk, TcpOk, HandshakeOk, ConnectThrows,
           ReadFrame, ReadFails, RunBegin, MakeStream, ConnectSucceeds, ConnectFails, SleepOver,
           Retry, Resubscribe, ReadLoop, OnMessage, OnClosed, OnError
  <1>4. backoff' \in BackoffInitial .. BackoffMax
    <2>1. /\ BackoffInitial \in Nat /\ BackoffMax \in Nat /\ BackoffInitial <= BackoffMax
          /\ backoff \in Nat /\ BackoffInitial <= backoff /\ backoff <= BackoffMax
      BY ClientAssumption DEF TypeOK
    <2>2. CASE SleepOver
      BY <2>1, <2>2 DEF SleepOver
    <2>3. CASE backoff' \in {backoff, BackoffInitial}
      BY <2>1, <2>3
    <2>4. QED
      BY <2>2, <2>3
         DEF IoSteps, Network, Attempt, Local, ResolveOk, TcpOk, HandshakeOk, ConnectThrows, ReadFrame,
             ReadFails, RunBegin, MakeStream, ConnectSucceeds, ConnectFails, Retry, Resubscribe,
             ReadLoop, OnMessage, OnClosed, OnError
  <1>5. /\ ws' \in Streams \cup {NoStream}
        /\ status' \in [Streams -> {"gone", "made", "wired", "open", "shut"}]
    <2>1. CASE MakeStream
      BY <2>1 DEF MakeStream, TypeOK
    <2>2. CASE TcpOk \/ HandshakeOk \/ ReadFails
      BY <2>2 DEF TcpOk, HandshakeOk, ReadFails, TypeOK
    <2>3. CASE UNCHANGED netVars
      BY <2>3 DEF netVars, TypeOK
    <2>4. QED
      BY <2>1, <2>2, <2>3
         DEF IoSteps, Network, Attempt, Local, ResolveOk, ConnectThrows, ReadFrame, RunBegin,
             ConnectSucceeds, ConnectFails, SleepOver, Retry, Resubscribe, ReadLoop,
             OnMessage, OnClosed, OnError
  <1> QED BY <1>1, <1>2, <1>3, <1>4, <1>5, Zenon DEF TypeOK

\* Only the IO thread's first step sets running, and its steps do not bring it
\* back to before its first, nor end it.
LEMMA IoKeepsInv ==
    ASSUME IInv, IoSteps
    PROVE  FlagInv' /\ StoppedInv' /\ DownInv' /\ NoSilentDeath'
  <1>1. UNCHANGED <<ctl, did, hurried>>
    BY DEF IoSteps, Network, Attempt, Local, IoStep, appVars, ResolveOk, TcpOk, HandshakeOk, ConnectThrows,
           ReadFrame, ReadFails, RunBegin, MakeStream, ConnectSucceeds, ConnectFails, SleepOver,
           Retry, Resubscribe, ReadLoop, OnMessage, OnClosed, OnError
  <1>2. /\ io \notin {"none", "terminated"} /\ io' \notin {"none", "run", "terminated"}
        /\ IF io = "run" THEN running' ELSE running' = running
    BY DEF IoSteps, Network, Attempt, Local, IoStep, ResolveOk, TcpOk, HandshakeOk, ConnectThrows,
           ReadFrame, ReadFails, RunBegin, MakeStream, ConnectSucceeds, ConnectFails, SleepOver,
           Retry, Resubscribe, ReadLoop, OnMessage, OnClosed, OnError
  <1>3. FlagInv'
    BY <1>1, <1>2 DEF IInv, FlagInv, InStop
  <1>4. StoppedInv'
    BY <1>1, <1>2 DEF IInv, StoppedInv
  <1>5. DownInv'
    <2>1. CASE ConnectFails
      BY <2>1 DEF ConnectFails, IoStep, DownInv
    <2>2. CASE OnError
      BY <2>2 DEF OnError, IoStep, DownInv
    <2>3. CASE SleepOver
      BY <2>3 DEF SleepOver, IoStep, IInv, DownInv
    <2>4. CASE ReadFails
      BY <2>4 DEF ReadFails, IoStep, DownInv
    <2>5. CASE io' \notin {"sleep", "retry", "closed"}
      BY <2>5 DEF DownInv
    <2>6. QED
      BY <2>1, <2>2, <2>3, <2>4, <2>5
         DEF IoSteps, Network, Attempt, Local, IoStep, ResolveOk, TcpOk, HandshakeOk, ConnectThrows,
             ReadFrame, RunBegin, MakeStream, ConnectSucceeds, Retry, Resubscribe, ReadLoop,
             OnMessage, OnClosed
  <1>6. NoSilentDeath'
    BY DEF IInv, DownInv, NoSilentDeath, IoSteps, Network, Attempt, Local, IoStep, ResolveOk, TcpOk,
           HandshakeOk, ConnectThrows, ReadFrame, ReadFails, RunBegin, MakeStream, ConnectSucceeds,
           ConnectFails, SleepOver, Retry, Resubscribe, ReadLoop, OnMessage, OnClosed, OnError
  <1> QED BY <1>3, <1>4, <1>5, <1>6

\* The application's threads.
LEMMA AppKeepsInv ==
    ASSUME IInv, Lifecycle \/ SendBegin \/ SendEnd \/ UNCHANGED vars
    PROVE  IInv'
  <1>1. UNCHANGED <<via, backoff, closedByPeer, connected, ws>>
    BY DEF Lifecycle, StartCall, Start, StopIdle, StopBegin, StopClose, StopClosed, StopShutdown,
           StopJoin, SetCallbackBegin, SetCallbackEnd, SendBegin, SendEnd, vars, netVars, ioVars
  <1>2. status' \in [Streams -> {"gone", "made", "wired", "open", "shut"}]
    <2>1. CASE StopClosed \/ StopShutdown
      BY <2>1 DEF StopClosed, StopShutdown, Shut, IInv, TypeOK
    <2>2. CASE UNCHANGED status
      BY <2>2 DEF IInv, TypeOK
    <2>3. QED
      BY <2>1, <2>2
         DEF Lifecycle, StartCall, Start, StopIdle, StopBegin, StopClose, StopJoin,
             SetCallbackBegin, SetCallbackEnd, SendBegin, SendEnd, vars, netVars
  <1>3. closing' \in Streams \cup {NoStream} /\ sending' \in Streams \cup {NoStream}
    BY DEF IInv, TypeOK, Lifecycle, StartCall, Start, StopIdle, StopBegin, StopClose, StopClosed,
           StopShutdown, StopJoin, SetCallbackBegin, SetCallbackEnd, SendBegin, SendEnd, vars, appVars
  <1>4. /\ running' \in BOOLEAN /\ hurried' \in BOOLEAN
        /\ ctl' \in {"idle", "start", "close", "closing", "shutdown", "join", "set", "terminated"}
        /\ did' \in {"nothing", "started", "stopped"}
    BY DEF IInv, TypeOK, Lifecycle, StartCall, Start, StopIdle, StopBegin, StopClose, StopClosed,
           StopShutdown, StopJoin, SetCallbackBegin, SetCallbackEnd, SendBegin, SendEnd, vars, appVars, ioVars
  <1>5. io' = io \/ io' \in {"run", "none", "terminated"}
    BY DEF Lifecycle, StartCall, Start, StopIdle, StopBegin, StopClose, StopClosed,
           StopShutdown, StopJoin, SetCallbackBegin, SetCallbackEnd, SendBegin, SendEnd, vars, ioVars
  <1>6. TypeOK'
    BY <1>1, <1>2, <1>3, <1>4, <1>5, Zenon DEF IInv, TypeOK
  <1>7. FlagInv' /\ StoppedInv'
    <2>1. CASE StartCall
      BY <2>1 DEF StartCall, ioVars, IInv, FlagInv, InStop, StoppedInv
    <2>2. CASE Start
      BY <2>2 DEF Start, IInv, FlagInv, InStop, StoppedInv
    <2>3. CASE StopIdle
      BY <2>3 DEF StopIdle, ioVars, IInv, FlagInv, InStop, StoppedInv
    <2>4. CASE StopBegin
      BY <2>4 DEF StopBegin, ioVars, IInv, FlagInv, InStop, StoppedInv
    <2>5. CASE StopClose
      BY <2>5 DEF StopClose, ioVars, IInv, FlagInv, InStop, StoppedInv
    <2>6. CASE StopClosed
      BY <2>6 DEF StopClosed, ioVars, IInv, FlagInv, InStop, StoppedInv
    <2>7. CASE StopShutdown
      BY <2>7 DEF StopShutdown, ioVars, IInv, FlagInv, InStop, StoppedInv
    <2>8. CASE StopJoin
      BY <2>8 DEF StopJoin, IInv, FlagInv, InStop, StoppedInv
    <2>9. CASE SetCallbackBegin \/ SetCallbackEnd
      BY <2>9 DEF SetCallbackBegin, SetCallbackEnd, ioVars, IInv, FlagInv, InStop, StoppedInv
    <2>10. CASE SendBegin \/ SendEnd \/ UNCHANGED vars
      BY <2>10 DEF SendBegin, SendEnd, vars, ioVars, appVars, IInv, FlagInv, InStop, StoppedInv
    <2>11. QED
      BY <2>1, <2>2, <2>3, <2>4, <2>5, <2>6, <2>7, <2>8, <2>9, <2>10 DEF Lifecycle
  <1>8. DownInv'
    BY <1>1, <1>5 DEF IInv, DownInv
  <1>9. running' => running
    BY DEF Lifecycle, StartCall, Start, StopIdle, StopBegin, StopClose, StopClosed,
           StopShutdown, StopJoin, SetCallbackBegin, SetCallbackEnd, SendBegin, SendEnd, vars
  <1>10. NoSilentDeath'
    BY <1>1, <1>5, <1>9 DEF IInv, NoSilentDeath
  <1> QED BY <1>6, <1>7, <1>8, <1>10 DEF IInv

LEMMA StepIInv == IInv /\ [Next]_vars => IInv'
  <1> SUFFICES ASSUME IInv, [Next]_vars PROVE IInv'
    OBVIOUS
  <1>1. CASE IoSteps
    BY <1>1, IoTypeOK, IoKeepsInv DEF IInv
  <1>2. CASE Lifecycle \/ SendBegin \/ SendEnd \/ UNCHANGED vars
    BY <1>2, AppKeepsInv
  <1> QED BY <1>1, <1>2 DEF Next, IoSteps

\* The inductive invariant holds in every reachable state.
THEOREM Invariance == Spec => []IInv
  BY InitIInv, StepIInv, PTL DEF Spec

\* The variables have their types.
THEOREM TypeCorrect == Spec => []TypeOK
  <1>1. IInv => TypeOK
    BY DEF IInv
  <1> QED BY <1>1, Invariance, PTL

\* stop() joins the IO thread unless it overtook it (websocket_client.cpp:193-203).
THEOREM StopIsJoin == Spec => []StopJoins
  <1>1. IInv => StopJoins
    BY DEF IInv, StoppedInv, StopJoins
  <1> QED BY <1>1, Invariance, PTL

\* A running client's IO thread ends only when the peer closed
\* (websocket_client.cpp:114-160).
THEOREM NeverDiesSilently == Spec => []NoSilentDeath
  <1>1. IInv => NoSilentDeath
    BY DEF IInv
  <1> QED BY <1>1, Invariance, PTL

-----------------------------------------------------------------------------
(* The streams *)

\* The client owns one stream, the one ws points to, and every other has been
\* destroyed: none leaks, and a thread that is inside a call on another stream
\* than ws is inside a destroyed one.
OneStream == \A s \in Streams : status[s] # "gone" <=> s = ws

\* While the IO thread works on the stream, and while stop() is about to shut
\* it down, there is one, and it is as far as the IO thread's place says or
\* has been shut down.
StreamWorkedOn ==
    /\ io = "tcp" => ws # NoStream /\ status[ws] \in {"made", "shut"}
    /\ io = "handshake" => ws # NoStream /\ status[ws] \in {"wired", "shut"}
    /\ io \in {"up", "resubscribe", "loop", "read", "message", "closed", "error"} =>
          ws # NoStream /\ status[ws] \in {"open", "shut"}
    /\ ctl \in {"closing", "shutdown"} => ws # NoStream
    /\ connected => ws # NoStream

\* The IO thread's calls, cancel and shutdown in stop(), and the calls that
\* send_text is about to make, are on a stream that exists; the stream that
\* stop() or send_text is inside a call of has been destroyed only if the IO
\* thread has put another in its place.
OnlyReplacedStreamsAreGone ==
    /\ io \in {"tcp", "handshake", "up", "read", "message"} \/ ctl = "shutdown" \/ connected =>
          ws # NoStream /\ status[ws] # "gone"
    /\ \A s \in {closing, sending} \ {NoStream} : status[s] = "gone" => ws # s /\ ws # NoStream

\* What a thread that is inside a call holds was the stream at some time.
HeldStream == closing # NoStream \/ sending # NoStream => ws # NoStream

StreamInv == OneStream /\ StreamWorkedOn /\ HeldStream

LEMMA IoKeepsStreams ==
    ASSUME IInv, StreamInv, IoSteps
    PROVE  StreamInv'
  <1>1. UNCHANGED <<ctl, closing, sending>>
    BY DEF IoSteps, Network, Attempt, Local, IoStep, appVars, ResolveOk, TcpOk, HandshakeOk, ConnectThrows,
           ReadFrame, ReadFails, RunBegin, MakeStream, ConnectSucceeds, ConnectFails, SleepOver,
           Retry, Resubscribe, ReadLoop, OnMessage, OnClosed, OnError
  <1>2. CASE MakeStream
    <2>1. PICK s \in Streams \ {ws, closing, sending} :
             /\ ws' = s
             /\ status' = [x \in Streams |-> IF x = s THEN "made"
                                             ELSE IF x = ws THEN "gone" ELSE status[x]]
      BY <1>2 DEF MakeStream
    <2>2. s # NoStream /\ io' = "tcp"
      BY <1>2, ClientAssumption DEF MakeStream, IoStep
    <2>3. OneStream'
      BY <2>1 DEF StreamInv, OneStream
    <2>4. StreamWorkedOn' /\ HeldStream'
      BY <2>1, <2>2 DEF StreamWorkedOn, HeldStream
    <2>5. QED BY <2>3, <2>4 DEF StreamInv
  <1>3. CASE TcpOk \/ HandshakeOk \/ ReadFails
    <2>1. /\ ws' = ws /\ connected' = connected /\ io \in {"tcp", "handshake", "read"}
          /\ \E to \in {"wired", "open", "shut"} : status' = [status EXCEPT ![ws] = to]
          /\ io = "tcp" => io' = "handshake" /\ status' = [status EXCEPT ![ws] = "wired"]
          /\ io = "handshake" => io' = "up" /\ status' = [status EXCEPT ![ws] = "open"]
          /\ io = "read" => io' \in {"closed", "error"} /\ status' = [status EXCEPT ![ws] = "shut"]
      BY <1>3 DEF TcpOk, HandshakeOk, ReadFails, IoStep
    <2>2. ws \in Streams /\ status \in [Streams -> {"gone", "made", "wired", "open", "shut"}]
      BY <2>1 DEF IInv, TypeOK, StreamInv, StreamWorkedOn
    <2>3. OneStream'
      BY <2>1, <2>2 DEF StreamInv, OneStream
    <2>4. StreamWorkedOn'
      BY <1>1, <2>1, <2>2, ClientAssumption DEF StreamInv, StreamWorkedOn
    <2>5. HeldStream'
      BY <1>1, <2>1 DEF StreamInv, HeldStream
    <2>6. QED BY <2>3, <2>4, <2>5 DEF StreamInv
  <1>4. CASE ~ (MakeStream \/ TcpOk \/ HandshakeOk \/ ReadFails)
    <2>1. ws' = ws /\ status' = status
      BY <1>4
         DEF IoSteps, Network, Attempt, Local, ResolveOk, ConnectThrows, ReadFrame, RunBegin,
             ConnectSucceeds, ConnectFails, SleepOver, Retry, Resubscribe, ReadLoop,
             OnMessage, OnClosed, OnError, netVars
    <2>2. OneStream' /\ HeldStream'
      BY <1>1, <2>1 DEF StreamInv, OneStream, HeldStream
    <2>3. /\ io' = "tcp" => io = "tcp"
          /\ io' = "handshake" => io = "handshake"
          /\ io' \in {"up", "resubscribe", "loop", "read", "message", "closed", "error"} =>
                io \in {"up", "resubscribe", "loop", "read", "message", "closed", "error"}
          /\ connected' => connected \/ io = "up"
      BY <1>4
         DEF IoSteps, Network, Attempt, Local, IoStep, ResolveOk, ConnectThrows, ReadFrame, RunBegin,
             ConnectSucceeds, ConnectFails, SleepOver, Retry, Resubscribe, ReadLoop,
             OnMessage, OnClosed, OnError
    <2>4. StreamWorkedOn'
      BY <1>1, <2>1, <2>3 DEF StreamInv, StreamWorkedOn
    <2>5. QED BY <2>2, <2>4 DEF StreamInv
  <1> QED BY <1>2, <1>3, <1>4

LEMMA AppKeepsStreams ==
    ASSUME IInv, StreamInv, Lifecycle \/ SendBegin \/ SendEnd \/ UNCHANGED vars
    PROVE  StreamInv'
  <1>1. ws' = ws /\ connected' = connected
    BY DEF Lifecycle, StartCall, Start, StopIdle, StopBegin, StopClose, StopClosed, StopShutdown,
           StopJoin, SetCallbackBegin, SetCallbackEnd, SendBegin, SendEnd, vars, netVars
  <1>2. \A s \in Streams : status'[s] = status[s] \/ (status[s] # "gone" /\ status'[s] = "shut")
    <2>1. CASE StopClosed \/ StopShutdown
      BY <2>1 DEF StopClosed, StopShutdown, Shut, IInv, TypeOK
    <2>2. CASE UNCHANGED status
      BY <2>2
    <2>3. QED
      BY <2>1, <2>2
         DEF Lifecycle, StartCall, Start, StopIdle, StopBegin, StopClose, StopJoin,
             SetCallbackBegin, SetCallbackEnd, SendBegin, SendEnd, vars, netVars
  <1>3. OneStream'
    BY <1>1, <1>2 DEF StreamInv, OneStream
  <1>4. io' = io \/ io' \in {"run", "none", "terminated"}
    BY DEF Lifecycle, StartCall, Start, StopIdle, StopBegin, StopClose, StopClosed,
           StopShutdown, StopJoin, SetCallbackBegin, SetCallbackEnd, SendBegin, SendEnd, vars, ioVars
  <1>5. ctl' \in {"closing", "shutdown"} => ws # NoStream
    BY DEF StreamInv, StreamWorkedOn, Lifecycle, StartCall, Start, StopIdle, StopBegin, StopClose,
           StopClosed, StopShutdown, StopJoin, SetCallbackBegin, SetCallbackEnd, SendBegin,
           SendEnd, vars, appVars
  <1>6. ws \in Streams \cup {NoStream}
    BY DEF IInv, TypeOK
  <1>7. StreamWorkedOn'
    BY <1>1, <1>2, <1>4, <1>5, <1>6 DEF StreamInv, StreamWorkedOn
  <1>8. HeldStream'
    BY <1>1 DEF StreamInv, HeldStream, Lifecycle, StartCall, Start, StopIdle, StopBegin, StopClose,
           StopClosed, StopShutdown, StopJoin, SetCallbackBegin, SetCallbackEnd, SendBegin,
           SendEnd, vars, appVars
  <1> QED BY <1>3, <1>7, <1>8 DEF StreamInv

\* The stream that ws points to is never a destroyed one: of the threads that
\* use streams without a lock, only one that stays inside a call of stop() or
\* send_text while the IO thread replaces the stream (websocket_client.cpp:80)
\* uses a stream that is gone, and none follows a null pointer.
THEOREM StreamsReplaced == Spec => []OnlyReplacedStreamsAreGone
  <1>1. Init => StreamInv
    BY ClientAssumption DEF Init, StreamInv, OneStream, StreamWorkedOn, HeldStream
  <1>2. IInv /\ StreamInv /\ [Next]_vars => StreamInv'
    BY IoKeepsStreams, AppKeepsStreams DEF Next, IoSteps
  <1>3. IInv /\ StreamInv => OnlyReplacedStreamsAreGone
    <2> SUFFICES ASSUME IInv, StreamInv PROVE OnlyReplacedStreamsAreGone
      OBVIOUS
    <2>1. ws # NoStream => ws \in Streams /\ status[ws] # "gone"
      BY DEF IInv, TypeOK, StreamInv, OneStream
    <2>2. io \in {"tcp", "handshake", "up", "read", "message"} \/ ctl = "shutdown" \/ connected =>
             ws # NoStream
      BY DEF StreamInv, StreamWorkedOn
    <2>3. \A s \in {closing, sending} \ {NoStream} : ws # NoStream
      BY DEF StreamInv, HeldStream
    <2> QED BY <2>1, <2>2, <2>3 DEF OnlyReplacedStreamsAreGone
  <1> QED BY <1>1, <1>2, <1>3, Invariance, PTL DEF Spec

-----------------------------------------------------------------------------
(* The client takes only Connection's steps. *)

LEMMA MoveTaken ==
    ASSUME NEW c, NEW from, NEW to, c.io = from
    PROVE  [c EXCEPT !.io = to] \in Conn!Moved(c, from, to)
  BY DEF Conn!Moved

\* A record of Connection with one field changed.
LEMMA SetIo ==
    ASSUME NEW i, NEW l, NEW a, NEW x
    PROVE  [[io |-> i, live |-> l, again |-> a] EXCEPT !.io = x] = [io |-> x, live |-> l, again |-> a]
  <1> DEFINE c == [[io |-> i, live |-> l, again |-> a] EXCEPT !.io = x]
  <1>1. DOMAIN c = {"io", "live", "again"} /\ c.io = x /\ c.live = l /\ c.again = a
    OBVIOUS
  <1>2. c = [f \in DOMAIN c |-> c[f]]
    OBVIOUS
  <1> HIDE DEF c
  <1>3. c = [io |-> x, live |-> l, again |-> a]
    BY <1>1, <1>2
  <1> QED BY <1>3 DEF c

LEMMA SetLive ==
    ASSUME NEW i, NEW l, NEW a, NEW x
    PROVE  [[io |-> i, live |-> l, again |-> a] EXCEPT !.live = x] = [io |-> i, live |-> x, again |-> a]
  <1> DEFINE c == [[io |-> i, live |-> l, again |-> a] EXCEPT !.live = x]
  <1>1. DOMAIN c = {"io", "live", "again"} /\ c.io = i /\ c.live = x /\ c.again = a
    OBVIOUS
  <1>2. c = [f \in DOMAIN c |-> c[f]]
    OBVIOUS
  <1> HIDE DEF c
  <1>3. c = [io |-> i, live |-> x, again |-> a]
    BY <1>1, <1>2
  <1> QED BY <1>3 DEF c

LEMMA SetAgain ==
    ASSUME NEW i, NEW l, NEW a, NEW x
    PROVE  [[io |-> i, live |-> l, again |-> a] EXCEPT !.again = x] = [io |-> i, live |-> l, again |-> x]
  <1> DEFINE c == [[io |-> i, live |-> l, again |-> a] EXCEPT !.again = x]
  <1>1. DOMAIN c = {"io", "live", "again"} /\ c.io = i /\ c.live = l /\ c.again = x
    OBVIOUS
  <1>2. c = [f \in DOMAIN c |-> c[f]]
    OBVIOUS
  <1> HIDE DEF c
  <1>3. c = [io |-> i, live |-> l, again |-> x]
    BY <1>1, <1>2
  <1> QED BY <1>3 DEF c

LEMMA Fields ==
    ASSUME NEW i, NEW l, NEW a
    PROVE  [io |-> i, live |-> l, again |-> a].io = i /\ [io |-> i, live |-> l, again |-> a].live = l
  OBVIOUS

\* Connection's steps that change more than where the thread is.
LEMMA BegunTaken ==
    ASSUME NEW l, NEW a
    PROVE  [io |-> "attempt", live |-> TRUE, again |-> FALSE]
             \in Conn!Begun([io |-> "begin", live |-> l, again |-> a])
  <1> DEFINE c == [io |-> "begin", live |-> l, again |-> a]
             d == [io |-> "attempt", live |-> l, again |-> a]
             e == [io |-> "attempt", live |-> TRUE, again |-> a]
  <1>1. c.io = "begin" /\ [c EXCEPT !.io = "attempt"] = d
    BY SetIo
  <1>2. [d EXCEPT !.live = TRUE] = e
    BY SetLive, Zenon
  <1>3. [e EXCEPT !.again = FALSE] = [io |-> "attempt", live |-> TRUE, again |-> FALSE]
    BY SetAgain, Zenon
  <1>4. [d EXCEPT !.live = TRUE, !.again = FALSE] = [io |-> "attempt", live |-> TRUE, again |-> FALSE]
    BY <1>2, <1>3, Zenon
  <1> HIDE DEF c, d, e
  <1>5. d \in Conn!Moved(c, "begin", "attempt")
    BY <1>1, MoveTaken
  <1>6. [d EXCEPT !.live = TRUE, !.again = FALSE] \in Conn!Begun(c)
    BY <1>5 DEF Conn!Begun
  <1> QED BY <1>4, <1>6 DEF c

LEMMA AttemptFailedTaken ==
    ASSUME NEW l, NEW a
    PROVE  [io |-> "sleep", live |-> l, again |-> TRUE]
             \in Conn!AttemptFailed([io |-> "attempt", live |-> l, again |-> a])
  <1> DEFINE c == [io |-> "attempt", live |-> l, again |-> a]
             d == [io |-> "sleep", live |-> l, again |-> a]
  <1>1. c.io = "attempt" /\ [c EXCEPT !.io = "sleep"] = d
    BY SetIo
  <1>2. [d EXCEPT !.again = TRUE] = [io |-> "sleep", live |-> l, again |-> TRUE]
    BY SetAgain, Zenon
  <1> HIDE DEF c, d
  <1>3. d \in Conn!Moved(c, "attempt", "sleep")
    BY <1>1, MoveTaken
  <1>4. [d EXCEPT !.again = TRUE] \in Conn!AttemptFailed(c)
    BY <1>3 DEF Conn!AttemptFailed
  <1> QED BY <1>2, <1>4 DEF c

LEMMA LostTaken ==
    ASSUME NEW a
    PROVE  [io |-> "sleep", live |-> TRUE, again |-> TRUE]
             \in Conn!Lost([io |-> "read", live |-> TRUE, again |-> a])
  <1> DEFINE c == [io |-> "read", live |-> TRUE, again |-> a]
             d == [io |-> "sleep", live |-> TRUE, again |-> a]
  <1>1. c.io = "read"
    BY Fields, Zenon
  <1>2. c.live = TRUE
    BY Fields, Zenon
  <1>3. [c EXCEPT !.io = "sleep"] = d
    <2>1. \A t : [[io |-> "read", live |-> t, again |-> a] EXCEPT !.io = "sleep"]
                   = [io |-> "sleep", live |-> t, again |-> a]
      BY SetIo
    <2> QED BY <2>1, Zenon
  <1>4. [d EXCEPT !.again = TRUE] = [io |-> "sleep", live |-> TRUE, again |-> TRUE]
    BY SetAgain, Zenon
  <1> HIDE DEF c, d
  <1>5. d \in Conn!Moved(c, "read", "sleep")
    BY <1>1, <1>3, MoveTaken
  <1>6. [d EXCEPT !.again = TRUE] \in Conn!Lost(c)
    BY <1>2, <1>5 DEF Conn!Lost
  <1> QED BY <1>4, <1>6 DEF c

LEMMA StoppedTaken ==
    ASSUME NEW i, NEW a
    PROVE  [io |-> i, live |-> FALSE, again |-> a]
             \in Conn!Stopped([io |-> i, live |-> TRUE, again |-> a])
  <1> DEFINE c == [io |-> i, live |-> TRUE, again |-> a]
  <1>1. c.live
    OBVIOUS
  <1>2. [c EXCEPT !.live = FALSE] = [io |-> i, live |-> FALSE, again |-> a]
    BY SetLive, Zenon
  <1> HIDE DEF c
  <1>3. [c EXCEPT !.live = FALSE] \in Conn!Stopped(c)
    BY <1>1 DEF Conn!Stopped
  <1> QED BY <1>2, <1>3 DEF c

\* The IO thread's steps that the rest of the program can see.
LEMMA IoStepSeen ==
    ASSUME IInv, RunBegin \/ ConnectFails \/ Retry \/ ConnectSucceeds \/ Resubscribe
    PROVE  Seen' \in Conn!Steps(Seen) \/ Seen' = Seen
  <1>1. CASE RunBegin
    <2>1. /\ io = "run" /\ Seen = [io |-> "begin", live |-> running, again |-> via = "reconnect"]
          /\ io' = "resolve" /\ running' = TRUE /\ via' = "run"
      BY <1>1 DEF RunBegin, IoStep, Seen
    <2>2. Seen' = [io |-> "attempt", live |-> running', again |-> via' = "reconnect"]
      BY <2>1 DEF Seen
    <2>3. (via' = "reconnect") = FALSE
      BY <2>1
    <2>4. Seen' = [io |-> "attempt", live |-> TRUE, again |-> FALSE]
      BY <2>1, <2>2, <2>3, Zenon
    <2>5. Seen' \in Conn!Begun(Seen)
      BY <2>1, <2>4, BegunTaken, Zenon
    <2>6. QED BY <2>5 DEF Conn!Steps
  <1>2. CASE ConnectFails /\ io' = "sleep"
    <2>1. /\ io = "failed" /\ Seen = [io |-> "attempt", live |-> running, again |-> via = "reconnect"]
          /\ io' = "sleep" /\ running' = running /\ via' = "reconnect"
      BY <1>2 DEF ConnectFails, IoStep, Seen
    <2>2. Seen' = [io |-> "sleep", live |-> running', again |-> via' = "reconnect"]
      BY <2>1 DEF Seen
    <2>3. (via' = "reconnect") = TRUE
      BY <2>1
    <2>4. Seen' = [io |-> "sleep", live |-> running, again |-> TRUE]
      BY <2>1, <2>2, <2>3, Zenon
    <2>5. Seen' \in Conn!AttemptFailed(Seen)
      BY <2>1, <2>4, AttemptFailedTaken, Zenon
    <2>6. QED BY <2>5 DEF Conn!Steps
  <1>3. CASE ConnectFails /\ io' = "retry"
    <2>1. /\ io = "failed" /\ Seen = [io |-> "attempt", live |-> running, again |-> via = "reconnect"]
          /\ io' = "retry" /\ running' = running /\ via' = "reconnect"
      BY <1>3 DEF ConnectFails, IoStep, Seen
    <2>2. Seen' = [io |-> "sleep", live |-> running', again |-> via' = "reconnect"]
      BY <2>1 DEF Seen
    <2>3. (via' = "reconnect") = TRUE
      BY <2>1
    <2>4. Seen' = [io |-> "sleep", live |-> running, again |-> TRUE]
      BY <2>1, <2>2, <2>3, Zenon
    <2>5. Seen' \in Conn!AttemptFailed(Seen)
      BY <2>1, <2>4, AttemptFailedTaken, Zenon
    <2>6. QED BY <2>5 DEF Conn!Steps
  <1>4. CASE Retry
    <2>1. Seen.io = "sleep" /\ (Seen.live <=> running) /\ ~connected
      BY <1>4 DEF Retry, IoStep, Seen, IInv, DownInv
    <2>2. Seen' = [Seen EXCEPT !.io = IF running THEN "attempt" ELSE "ended"]
      BY <1>4, <2>1 DEF Retry, IoStep, Seen
    <2>3. Seen' \in Conn!Retried(Seen)
      BY <2>1, <2>2, MoveTaken DEF Conn!Retried
    <2>4. QED BY <2>3 DEF Conn!Steps
  <1>5. CASE ConnectSucceeds
    <2>1. Seen.io = "attempt" /\ (Seen.again <=> via = "reconnect") /\ via \in {"run", "reconnect"}
      BY <1>5 DEF ConnectSucceeds, IoStep, Seen, IInv, TypeOK
    <2>2. Seen' = [Seen EXCEPT !.io = IF via = "reconnect" THEN "resubscribe" ELSE "read"]
      BY <1>5, <2>1 DEF ConnectSucceeds, IoStep, Seen
    <2>3. Seen' \in Conn!Connected(Seen)
      BY <2>1, <2>2, MoveTaken DEF Conn!Connected
    <2>4. QED BY <2>3 DEF Conn!Steps
  <1>6. CASE Resubscribe
    <2>1. Seen.io = "resubscribe" /\ Seen' = [Seen EXCEPT !.io = "read"]
      BY <1>6 DEF Resubscribe, IoStep, Seen
    <2>2. Seen' \in Conn!Resubscribed(Seen)
      BY <2>1, MoveTaken DEF Conn!Resubscribed
    <2>3. QED BY <2>2 DEF Conn!Steps
  <1>7. ConnectFails => io' \in {"sleep", "retry"}
    BY DEF ConnectFails, IoStep
  <1> QED BY <1>1, <1>2, <1>3, <1>4, <1>5, <1>6, <1>7

\* How reading ends.
LEMMA ReadEndSeen ==
    ASSUME IInv, ReadLoop \/ OnClosed \/ OnError
    PROVE  Seen' \in Conn!Steps(Seen) \/ Seen' = Seen
  <1>1. Seen.io = "read" /\ (Seen.live <=> running)
    BY DEF ReadLoop, OnClosed, OnError, IoStep, Seen
  <1>2. CASE ReadLoop /\ running
    BY <1>2 DEF ReadLoop, IoStep, Seen
  <1>3. CASE ReadLoop /\ ~running
    <2>1. Seen' = [Seen EXCEPT !.io = "ended"]
      BY <1>3, <1>1 DEF ReadLoop, IoStep, Seen
    <2>2. Seen' \in Conn!Lost(Seen)
      BY <2>1, <1>1, <1>3, MoveTaken DEF Conn!Lost
    <2>3. QED BY <2>2 DEF Conn!Steps
  <1>4. CASE OnClosed
    <2>1. Seen' = [Seen EXCEPT !.io = "ended"]
      BY <1>4, <1>1 DEF OnClosed, IoStep, Seen
    <2>2. Seen' \in Conn!PeerClosed(Seen)
      BY <2>1, <1>1, MoveTaken DEF Conn!PeerClosed
    <2>3. QED BY <2>2 DEF Conn!Steps
  <1>5. CASE OnError /\ running
    <2>1. /\ io = "error" /\ Seen = [io |-> "read", live |-> running, again |-> via = "reconnect"]
          /\ io' = "retry" /\ running' = running /\ via' = "reconnect"
      BY <1>5 DEF OnError, IoStep, Seen
    <2>2. running = TRUE
      BY <1>5 DEF IInv, TypeOK
    <2>3. Seen' = [io |-> "sleep", live |-> running', again |-> via' = "reconnect"]
      BY <2>1 DEF Seen
    <2>4. (via' = "reconnect") = TRUE
      BY <2>1
    <2>5. Seen' = [io |-> "sleep", live |-> TRUE, again |-> TRUE]
      BY <2>1, <2>2, <2>3, <2>4, Zenon
    <2>6. Seen = [io |-> "read", live |-> TRUE, again |-> via = "reconnect"]
      BY <2>1, <2>2, Zenon
    <2>7. Seen' \in Conn!Lost(Seen)
      BY <2>5, <2>6, LostTaken, Zenon
    <2>8. QED BY <2>7 DEF Conn!Steps
  <1>6. CASE OnError /\ ~running
    <2>1. Seen' = [Seen EXCEPT !.io = "ended"]
      BY <1>6, <1>1 DEF OnError, IoStep, Seen
    <2>2. Seen' \in Conn!Lost(Seen)
      BY <2>1, <1>1, <1>6, MoveTaken DEF Conn!Lost
    <2>3. QED BY <2>2 DEF Conn!Steps
  <1> QED BY <1>2, <1>3, <1>4, <1>5, <1>6

\* start and stop.
LEMMA LifecycleSeen ==
    ASSUME IInv, Start \/ StopBegin \/ StopJoin
    PROVE  Seen' \in Conn!Steps(Seen) \/ Seen' = Seen
  <1>1. CASE StopBegin
    <2>1. running = TRUE /\ running' = FALSE /\ io' = io /\ via' = via
      BY <1>1 DEF StopBegin, ioVars, IInv, TypeOK
    <2>2. PICK i : /\ Seen = [io |-> i, live |-> running, again |-> via = "reconnect"]
                   /\ Seen' = [io |-> i, live |-> running', again |-> via = "reconnect"]
      BY <2>1 DEF Seen
    <2>3. Seen' \in Conn!Stopped(Seen)
      BY <2>1, <2>2, StoppedTaken, Zenon
    <2>4. QED BY <2>3 DEF Conn!Steps
  <1>2. CASE StopJoin
    <2>1. Seen.io = "ended" /\ Seen' = [Seen EXCEPT !.io = "none"]
      BY <1>2 DEF StopJoin, Seen
    <2>2. Seen' \in Conn!Joined(Seen)
      BY <2>1, MoveTaken DEF Conn!Joined
    <2>3. QED BY <2>2 DEF Conn!Steps
  <1>3. CASE Start /\ running
    BY <1>3 DEF Start, Seen
  <1>4. CASE Start /\ ~running /\ io = "none"
    <2>1. Seen.io = "none" /\ Seen' = [Seen EXCEPT !.io = "begin"]
      BY <1>4 DEF Start, Seen
    <2>2. Seen' \in Conn!Spawned(Seen)
      BY <2>1, MoveTaken DEF Conn!Spawned
    <2>3. QED BY <2>2 DEF Conn!Steps
  <1>5. CASE Start /\ ~running /\ io # "none"
    <2>1. io = "run"
      BY <1>5 DEF Start, IInv, FlagInv
    <2>2. QED BY <1>5, <2>1 DEF Start, Seen
  <1> QED BY <1>1, <1>2, <1>3, <1>4, <1>5

\* All other steps look the same from outside.
LEMMA Unseen ==
    ASSUME \/ ResolveOk \/ TcpOk \/ HandshakeOk \/ ConnectThrows \/ ReadFrame \/ ReadFails
           \/ MakeStream \/ SleepOver \/ OnMessage
           \/ StartCall \/ StopIdle \/ StopClose \/ StopClosed \/ StopShutdown
           \/ SetCallbackBegin \/ SetCallbackEnd \/ SendBegin \/ SendEnd \/ UNCHANGED vars
    PROVE  Seen' = Seen
  <1>1. running' = running /\ via' = via
    BY DEF ResolveOk, TcpOk, HandshakeOk, ConnectThrows, ReadFrame, ReadFails, MakeStream,
           SleepOver, OnMessage, StartCall, StopIdle, StopClose, StopClosed, StopShutdown,
           SetCallbackBegin, SetCallbackEnd, SendBegin, SendEnd, vars, ioVars
  <1>2. \/ io' = io
        \/ {io, io'} \subseteq {"resolve", "make", "tcp", "handshake", "up", "failed"}
        \/ {io, io'} \subseteq {"sleep", "retry"}
        \/ {io, io'} \subseteq {"loop", "read", "message", "closed", "error"}
    BY DEF IoStep, ResolveOk, TcpOk, HandshakeOk, ConnectThrows, ReadFrame, ReadFails, MakeStream,
           SleepOver, OnMessage, StartCall, StopIdle, StopClose, StopClosed, StopShutdown,
           SetCallbackBegin, SetCallbackEnd, SendBegin, SendEnd, vars, ioVars
  <1> QED BY <1>1, <1>2 DEF Seen

\* Whatever the streams and the back-off: seen from outside, the client takes
\* only the steps Sharder is built on (websocket_client.cpp:113-203).
THEOREM Implementation == Spec => ImplementsConnection
  <1>1. Init => Seen = Conn!Closed
    BY DEF Init, Seen, Conn!Closed
  <1>2. IInv /\ [Next]_vars => [Seen' \in Conn!Steps(Seen)]_Seen
    BY IoStepSeen, ReadEndSeen, LifecycleSeen, Unseen DEF Next, Network, Attempt, Local, Lifecycle
  <1> QED BY <1>1, <1>2, Invariance, PTL DEF Spec, ImplementsConnection
=============================================================================
