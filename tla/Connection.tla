------------------------------ MODULE Connection ------------------------------
(***************************************************************************)
(* What the rest of the program can see of a WebSocketClient: where its IO *)
(* thread is (io), the running flag (live), and whether reconnect_loop has *)
(* taken over (again).  The operators give the records a step may lead to; *)
(* WebSocketClient is checked to take no others, and Sharder's workers     *)
(* carry these fields and take these steps.                                *)
(***************************************************************************)

\* No thread; spawned; connecting; in a back-off; in on_resubscribe; reading;
\* returned from run().
Places == {"none", "begin", "attempt", "sleep", "resubscribe", "read", "ended"}

Closed == [io |-> "none", live |-> FALSE, again |-> FALSE]

Moved(c, from, to) == {[d EXCEPT !.io = to] : d \in {d \in {c} : d.io = from}}

Spawned(c) == Moved(c, "none", "begin")

Begun(c) == {[d EXCEPT !.live = TRUE, !.again = FALSE] : d \in Moved(c, "begin", "attempt")}

AttemptFailed(c) == {[d EXCEPT !.again = TRUE] : d \in Moved(c, "attempt", "sleep")}

\* while (running && !connected)
Retried(c) == Moved(c, "sleep", IF c.live THEN "attempt" ELSE "ended")

\* run() reads at once, reconnect_loop resubscribes first.
Connected_Reads(c) == Moved(c, "attempt", "read")
Connected(c) == Moved(c, "attempt", IF c.again THEN "resubscribe" ELSE "read")

Resubscribed(c) == Moved(c, "resubscribe", "read")

\* read() fails, or running is found false.
Lost(c) == IF c.live THEN {[d EXCEPT !.again = TRUE] : d \in Moved(c, "read", "sleep")}
           ELSE Moved(c, "read", "ended")

\* The peer closes: the IO thread ends, running stays true.
PeerClosed(c) == Moved(c, "read", "ended")

Stopped(c) == {[d EXCEPT !.live = FALSE] : d \in {d \in {c} : d.live}}

Joined(c) == Moved(c, "ended", "none")

Steps(c) == UNION {Spawned(c), Begun(c), AttemptFailed(c), Retried(c), Connected(c),
                   Resubscribed(c), Lost(c), PeerClosed(c), Stopped(c), Joined(c)}
==============================================================================
