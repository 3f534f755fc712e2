---------------------------- MODULE TradeStream ----------------------------
(***************************************************************************)
(* ingestor/websocket.py: TradeStreamHandler, the task that keeps one    *)
(* websocket to the trade feed open.                                     *)
(*                                                                       *)
(* Actors: start() (one task per member of Starters; the pipeline and the*)
(* capture script run one), stop(), the canceller that both programs put *)
(* after stop(), the feed, and the trade callback.  An action is what a  *)
(* coroutine does between two awaits.                                    *)
(*                                                                       *)
(* Abstracted: the contents of a frame (parsing, the TradeEvent), the    *)
(* statistics (counters nothing reads), the optional state callback (no  *)
(* program in the repository passes one, so _set_state does not suspend).*)
(* MaxFrames bounds how many frames one message carries; Conns is the pool *)
(* of connection names, reused once nothing refers to a dead connection. *)
(***************************************************************************)
EXTENDS Integers, FiniteSets

CONSTANTS Starters, Conns, NoConn, MaxFrames, initial_delay, max_delay

ASSUME StreamAssumption ==
    /\ NoConn \notin Conns
    /\ MaxFrames \in Nat \ {0}
    /\ initial_delay \in Nat \ {0}
    /\ max_delay \in Nat
    /\ initial_delay <= max_delay

VARIABLES
    stream_state, running, ws,  \* _state, _running, _ws
    conn,       \* conn[c]: how the connection stands, as the library sees it
    pc,         \* where start() waits
    retry,      \* TRUE inside _reconnect_loop, FALSE in the initial connect
    sock,       \* the connection start() is opening, reading or closing
    delay,      \* _reconnect_loop's local
    frames,     \* frames of the current message not yet handed to on_trade
    stopping,   \* where stop() waits: "no", "closing" (its _cleanup), "returned"
    cancelled,  \* task.cancel() was called on this start()
    feedUp,     \* the feed accepts connections (environment)
    abandoned   \* history: connections a cancellation left open

task == <<pc, retry, sock, delay, frames>>
handler_vars == <<stream_state, running, ws, conn, task, stopping, cancelled, feedUp, abandoned>>

States == {"DISCONNECTED", "CONNECTING", "CONNECTED", "RECONNECTING"}
Waits == {"idle", "connecting", "subscribing", "listening", "handling",
          "sleeping", "closing", "done"}

StreamTypeOK ==
    /\ stream_state \in States
    /\ running \in BOOLEAN
    /\ ws \in Conns \cup {NoConn}
    /\ conn \in [Conns -> {"open", "closed", "lost"}]
    /\ pc \in [Starters -> Waits]
    /\ retry \in [Starters -> BOOLEAN]
    /\ sock \in [Starters -> Conns \cup {NoConn}]
    /\ delay \in [Starters -> initial_delay .. max_delay]
    /\ frames \in [Starters -> 0 .. MaxFrames]
    /\ stopping \in {"no", "closing", "returned"}
    /\ cancelled \in [Starters -> BOOLEAN]
    /\ feedUp \in BOOLEAN
    /\ abandoned \subseteq Conns

StreamInit ==
    /\ stream_state = "DISCONNECTED"
    /\ running = FALSE
    /\ ws = NoConn
    /\ conn = [c \in Conns |-> "closed"]
    /\ pc = [t \in Starters |-> "idle"]
    /\ retry = [t \in Starters |-> FALSE]
    /\ sock = [t \in Starters |-> NoConn]
    /\ delay = [t \in Starters |-> initial_delay]
    /\ frames = [t \in Starters |-> 0]
    /\ stopping = "no"
    /\ cancelled = [t \in Starters |-> FALSE]
    /\ feedUp \in BOOLEAN
    /\ abandoned = {}

-----------------------------------------------------------------------------
(* Helpers: what several handlers end with.                              *)

IsOpen(c) == c # NoConn /\ conn[c] = "open"

\* A name is free once its connection is dead, or lost track of: the pool
\* stands for unboundedly many connections.
Unused(c) == /\ conn[c] # "open" \/ c \in abandoned
             /\ c # ws
             /\ \A t \in Starters : c # sock[t]

backoff(d) == IF 2 * d < max_delay THEN 2 * d ELSE max_delay

\* Mutant: drops the connection without closing it.
mutant_cleanup(t) ==
    /\ pc' = [pc EXCEPT ![t] = "done"]
    /\ sock' = [sock EXCEPT ![t] = NoConn]
    /\ ws' = NoConn
    /\ stream_state' = "DISCONNECTED"

\* _cleanup as start()'s finally block runs it: closing a live connection
\* suspends, closing a dead one or none does not.
cleanup(t) ==
    \/ /\ IsOpen(ws)
       /\ pc' = [pc EXCEPT ![t] = "closing"]
       /\ sock' = [sock EXCEPT ![t] = ws]
       /\ UNCHANGED <<stream_state, ws>>
    \/ /\ ~IsOpen(ws)
       /\ pc' = [pc EXCEPT ![t] = "done"]
       /\ sock' = [sock EXCEPT ![t] = NoConn]
       /\ ws' = NoConn
       /\ stream_state' = "DISCONNECTED"

\* One turn of _reconnect_loop up to its sleep, or out of it when stopped.
reconnect(t, d) ==
    \/ /\ running
       /\ stream_state' = "RECONNECTING"
       /\ pc' = [pc EXCEPT ![t] = "sleeping"]
       /\ sock' = [sock EXCEPT ![t] = NoConn]
       /\ delay' = [delay EXCEPT ![t] = d]
       /\ retry' = [retry EXCEPT ![t] = TRUE]
       /\ UNCHANGED ws
    \/ /\ ~running
       /\ cleanup(t)
       /\ UNCHANGED <<delay, retry>>

\* _connect raised: the initial connect fails start() and leaves _running
\* set; a reconnect is tried again with a longer delay.
connect_failed(t) ==
    \/ retry[t] /\ reconnect(t, backoff(delay[t]))
    \/ ~retry[t] /\ cleanup(t) /\ UNCHANGED <<delay, retry>>

-----------------------------------------------------------------------------
(* start().                                                              *)

\* stop() is awaited by its callers, so start() is not called during it.
\* Called while _running is set, start() only logs.
start(t) ==
    /\ pc[t] \in {"idle", "done"} /\ ~cancelled[t]
    /\ stopping # "closing"
    /\ ~running
    /\ running' = TRUE
    /\ stream_state' = "CONNECTING"
    /\ pc' = [pc EXCEPT ![t] = "connecting"]
    /\ retry' = [retry EXCEPT ![t] = FALSE]
    /\ stopping' = "no"
    /\ UNCHANGED <<ws, conn, sock, delay, frames, cancelled, feedUp, abandoned>>

\* ws_connect returned; the subscription is being sent.
Opened(t, c) ==
    /\ pc[t] = "connecting" /\ ~cancelled[t]
    /\ feedUp
    /\ Unused(c)
    /\ conn' = [conn EXCEPT ![c] = "open"]
    /\ sock' = [sock EXCEPT ![t] = c]
    /\ pc' = [pc EXCEPT ![t] = "subscribing"]
    /\ abandoned' = abandoned \ {c}
    /\ UNCHANGED <<stream_state, running, ws, retry, delay, frames, stopping,
                   cancelled, feedUp>>

Refused(t) ==
    /\ pc[t] = "connecting" /\ ~cancelled[t]
    /\ ~feedUp
    /\ connect_failed(t)
    /\ UNCHANGED <<running, conn, frames, stopping, cancelled, feedUp, abandoned>>

\* Mutant: start() listens without testing _running first.
mutant_Subscribed(t) ==
    /\ pc[t] = "subscribing" /\ ~cancelled[t]
    /\ conn[sock[t]] = "open"
    /\ ws' = sock[t]
    /\ stream_state' = "CONNECTED"
    /\ pc' = [pc EXCEPT ![t] = "listening"]
    /\ delay' = [delay EXCEPT ![t] = initial_delay]
    /\ UNCHANGED <<running, conn, retry, sock, frames, stopping, cancelled,
                   feedUp, abandoned>>

\* The subscription went out: CONNECTED is set whether or not stop() came
\* meanwhile; start() notices that only afterwards.
Subscribed(t) ==
    /\ pc[t] = "subscribing" /\ ~cancelled[t]
    /\ conn[sock[t]] = "open"
    /\ ws' = sock[t]
    /\ stream_state' = "CONNECTED"
    /\ pc' = [pc EXCEPT ![t] = IF running THEN "listening" ELSE "closing"]
    /\ delay' = [delay EXCEPT ![t] = initial_delay]
    /\ UNCHANGED <<running, conn, retry, sock, frames, stopping, cancelled,
                   feedUp, abandoned>>

SubscribeFailed(t) ==
    /\ pc[t] = "subscribing" /\ ~cancelled[t]
    /\ conn[sock[t]] # "open"
    /\ connect_failed(t)
    /\ UNCHANGED <<running, conn, frames, stopping, cancelled, feedUp, abandoned>>

\* _listen receives a message of n frames; after stop() it leaves instead.
Message(t, n) ==
    /\ pc[t] = "listening" /\ ~cancelled[t]
    /\ conn[sock[t]] = "open"
    /\ \/ /\ running
          /\ frames' = [frames EXCEPT ![t] = n]
          /\ pc' = [pc EXCEPT ![t] = "handling"]
          /\ UNCHANGED <<stream_state, ws, sock>>
       \/ /\ ~running
          /\ cleanup(t)
          /\ UNCHANGED frames
    /\ UNCHANGED <<running, conn, retry, delay, stopping, cancelled, feedUp, abandoned>>

\* on_trade returned or raised; the message's other frames follow even when
\* stop() was called meanwhile.
Handled(t) ==
    /\ pc[t] = "handling" /\ ~cancelled[t]
    /\ frames' = [frames EXCEPT ![t] = @ - 1]
    /\ pc' = [pc EXCEPT ![t] = IF frames[t] = 1 THEN "listening" ELSE "handling"]
    /\ UNCHANGED <<stream_state, running, ws, conn, retry, sock, delay, stopping,
                   cancelled, feedUp, abandoned>>

\* A frame that cannot be parsed takes the rest of its message with it.
BadFrame(t) ==
    /\ pc[t] = "handling" /\ ~cancelled[t]
    /\ frames' = [frames EXCEPT ![t] = 0]
    /\ pc' = [pc EXCEPT ![t] = "listening"]
    /\ UNCHANGED <<stream_state, running, ws, conn, retry, sock, delay, stopping,
                   cancelled, feedUp, abandoned>>

\* The feed closed the connection cleanly (code 1000 or 1001): "async for"
\* just ends, and while _running is set the main loop calls _listen again on
\* the same dead connection, which changes nothing.
ListenEnded(t) ==
    /\ pc[t] = "listening" /\ ~cancelled[t]
    /\ conn[sock[t]] = "closed"
    /\ ~running
    /\ cleanup(t)
    /\ UNCHANGED <<running, conn, retry, delay, frames, stopping, cancelled,
                   feedUp, abandoned>>

\* Mutant: any error while listening reconnects, the connection's or not.
mutant_reconnects_on_error(t) ==
    /\ pc[t] = "listening" /\ ~cancelled[t]
    /\ conn[sock[t]] \in {"lost", "open"}
    /\ reconnect(t, initial_delay)
    /\ UNCHANGED <<running, conn, frames, stopping, cancelled, feedUp, abandoned>>

\* Mutant: a broken connection ends start(), as if the error were not caught.
mutant_error_ends(t) ==
    /\ pc[t] = "listening" /\ ~cancelled[t]
    /\ conn[sock[t]] = "lost"
    /\ cleanup(t)
    /\ UNCHANGED <<running, conn, retry, delay, frames, stopping, cancelled,
                   feedUp, abandoned>>

\* The connection broke: _listen raises ConnectionClosedError.
ListenRaised(t) ==
    /\ pc[t] = "listening" /\ ~cancelled[t]
    /\ conn[sock[t]] = "lost"
    /\ reconnect(t, initial_delay)
    /\ UNCHANGED <<running, conn, frames, stopping, cancelled, feedUp, abandoned>>

\* asyncio.sleep(delay) returned.
Wake(t) ==
    /\ pc[t] = "sleeping" /\ ~cancelled[t]
    /\ \/ /\ running
          /\ stream_state' = "CONNECTING"
          /\ pc' = [pc EXCEPT ![t] = "connecting"]
          /\ UNCHANGED <<ws, sock>>
       \/ /\ ~running
          /\ cleanup(t)
    /\ UNCHANGED <<running, conn, retry, delay, frames, stopping, cancelled,
                   feedUp, abandoned>>

\* ws.close() returned inside start()'s _cleanup.
Closed(t) ==
    /\ pc[t] = "closing" /\ ~cancelled[t]
    /\ conn' = [conn EXCEPT ![sock[t]] = IF @ = "open" THEN "closed" ELSE @]
    /\ ws' = NoConn
    /\ stream_state' = "DISCONNECTED"
    /\ sock' = [sock EXCEPT ![t] = NoConn]
    /\ pc' = [pc EXCEPT ![t] = "done"]
    /\ UNCHANGED <<running, retry, delay, frames, stopping, cancelled, feedUp, abandoned>>

-----------------------------------------------------------------------------
(* stop() and the cancellation that follows it.                          *)

\* stop() returns; its caller may cancel the start() task at once, and the
\* task sees the cancellation before anything else.
stop_returns ==
    /\ stopping' = "returned"
    /\ \/ UNCHANGED cancelled
       \/ cancelled' = [t \in Starters |-> pc[t] # "done"]

stop_cleaned == stop_returns /\ ws' = NoConn /\ stream_state' = "DISCONNECTED"

\* stop() before the start() task ran at all has nothing to do; cancelled,
\* the task never runs.  (Both programs cancel once, as their one stop()
\* returns; a cancellation later in the unwinding is not modelled.)
StopIdle ==
    /\ ~running
    /\ \A t \in Starters : pc[t] = "idle" /\ ~cancelled[t]
    /\ stop_returns
    /\ UNCHANGED <<stream_state, running, ws, conn, task, feedUp, abandoned>>

stop ==
    /\ running
    /\ running' = FALSE
    /\ \/ /\ IsOpen(ws)
          /\ stopping' = "closing"
          /\ UNCHANGED <<ws, stream_state, cancelled>>
       \/ ~IsOpen(ws) /\ stop_cleaned
    /\ UNCHANGED <<conn, task, feedUp, abandoned>>

\* ws.close() returned inside stop()'s _cleanup; start()'s own _cleanup may
\* have closed the connection and cleared _ws in the meantime.
StopClosed ==
    /\ stopping = "closing"
    /\ conn' = IF IsOpen(ws) THEN [conn EXCEPT ![ws] = "closed"] ELSE conn
    /\ stop_cleaned
    /\ UNCHANGED <<running, task, feedUp, abandoned>>

\* CancelledError reaches start() at its await.  Inside _cleanup it skips the
\* rest of it; elsewhere _cleanup runs, but a connection that start() had
\* opened and not yet stored is lost track of.
Cancelled(t) ==
    /\ cancelled[t] /\ pc[t] # "done"
    /\ \/ /\ pc[t] \in {"idle", "closing"}
          /\ pc' = [pc EXCEPT ![t] = "done"]
          /\ sock' = [sock EXCEPT ![t] = NoConn]
          /\ ws' = IF pc[t] = "closing" THEN NoConn ELSE ws
          /\ UNCHANGED stream_state
       \/ /\ pc[t] \notin {"idle", "closing"}
          /\ cleanup(t)
    /\ frames' = [frames EXCEPT ![t] = 0]
    /\ cancelled' = [cancelled EXCEPT ![t] = FALSE]
    /\ abandoned' = IF pc[t] \in {"subscribing", "closing"} /\ IsOpen(sock[t])
                    THEN abandoned \cup {sock[t]} ELSE abandoned
    /\ UNCHANGED <<running, conn, retry, delay, stopping, feedUp>>

-----------------------------------------------------------------------------
(* The feed.                                                             *)

FeedFlips ==
    /\ feedUp' = ~feedUp
    /\ UNCHANGED <<stream_state, running, ws, conn, task, stopping, cancelled, abandoned>>

\* A connection ends with a closing handshake or without one.
FeedEnds(c, how) ==
    /\ conn[c] = "open"
    /\ conn' = [conn EXCEPT ![c] = how]
    /\ abandoned' = abandoned \ {c}
    /\ UNCHANGED <<stream_state, running, ws, task, stopping, cancelled, feedUp>>

-----------------------------------------------------------------------------

StartStep(t) ==
    \/ \E c \in Conns : Opened(t, c)
    \/ Refused(t) \/ Subscribed(t) \/ SubscribeFailed(t)
    \/ Handled(t) \/ BadFrame(t) \/ ListenEnded(t) \/ ListenRaised(t)
    \/ Wake(t) \/ Closed(t) \/ Cancelled(t)

StreamNext ==
    \/ \E t \in Starters : start(t) \/ StartStep(t)
    \/ \E t \in Starters, n \in 1 .. MaxFrames : Message(t, n)
    \/ StopIdle \/ stop \/ StopClosed
    \/ FeedFlips
    \/ \E c \in Conns, how \in {"closed", "lost"} : FeedEnds(c, how)

StreamSpec == StreamInit /\ [][StreamNext]_handler_vars

\* The event loop runs every ready coroutine, a sleep or a close ends, and
\* the callback returns.  Of the feed only this is asked: it does not cut
\* every connection before its subscription is sent.
StreamFairSpec ==
    /\ StreamSpec
    /\ \A t \in Starters : WF_handler_vars(StartStep(t)) /\ SF_handler_vars(Subscribed(t))
    /\ WF_handler_vars(StopClosed)

-----------------------------------------------------------------------------
(* Properties.                                                           *)

Live(t) == pc[t] \notin {"idle", "done"}

\* Once start() and stop() have returned, the handler says DISCONNECTED,
\* holds no connection, and has none open but those a cancellation cut off in
\* the middle of opening or closing: whichever of start, stop, cancel and the
\* feed came first (_cleanup runs in both start() and stop(), and stop() may
\* come while a reconnect is in flight).
QuiescentIsClean ==
    ((\A t \in Starters : ~Live(t)) /\ stopping # "closing") =>
        /\ stream_state = "DISCONNECTED"
        /\ ws = NoConn
        /\ \A c \in Conns : conn[c] = "open" => c \in abandoned

\* The handler never holds two live connections: the old one is gone before
\* _reconnect_loop opens another (a second one would deliver trades twice).
OneConnection ==
    \A c1, c2 \in Conns :
        ({c1, c2} \cap abandoned = {} /\ conn[c1] = "open" /\ conn[c2] = "open")
            => c1 = c2

\* After stop() the start() task always ends, even out of a reconnect loop.
StopEndsStart ==
    \A t \in Starters : (~running) ~> (~Live(t) \/ running)

\* "automatically reconnecting on disconnection": when the connection breaks
\* and the feed stays reachable, the handler is CONNECTED again or stopped.
ReconnectsWhenLost ==
    <>[]feedUp => \A t \in Starters :
        (pc[t] = "listening" /\ conn[sock[t]] = "lost")
            ~> ((stream_state = "CONNECTED" /\ IsOpen(ws)) \/ ~running)

-----------------------------------------------------------------------------
(* What the docstring says and the code does not do.                     *)

\* start(): "automatically handles reconnection on disconnection"
\* (websocket.py:384): also when the feed closes the connection cleanly.
ReconnectsWhenClosed ==
    <>[]feedUp => \A t \in Starters :
        (pc[t] = "listening" /\ conn[sock[t]] = "closed")
            ~> ((stream_state = "CONNECTED" /\ IsOpen(ws)) \/ ~running)
=============================================================================
