---------------------------- MODULE IngestionProofs ----------------------------
(***************************************************************************)
(* Theorems about the websocket handler of TradeStream, for any pool of  *)
(* connections, about the captures of TradeQueue, for any number of      *)
(* captures, entries and batches, and about the loop and the cache of    *)
(* MetadataSync, for any markets, callers and readers.                   *)
(***************************************************************************)
EXTENDS MCIngestion, TLAPS

(***************************************************************************)
(* The inductive invariant of TradeStream.  _ws and the connection that  *)
(* start() works with are set and cleared at different times and by      *)
(* different coroutines; the invariant says, of each of the awaits of    *)
(* start(), how the two stand.  It is one of a handler with one start()  *)
(* task, as both programs use it.                                        *)
(***************************************************************************)
\* A connection that is open is the one start() works with, or abandoned.
OpenIsOwned(t) == \A c \in Conns : conn[c] = "open" => c = sock[t] \/ c \in abandoned

AtWait(t) ==
    /\ pc[t] \in {"idle", "done"} =>
           ws = NoConn /\ sock[t] = NoConn /\ stream_state = "DISCONNECTED"
    /\ pc[t] \in {"connecting", "sleeping"} => sock[t] = NoConn /\ ~IsOpen(ws)
    /\ pc[t] = "subscribing" => sock[t] # NoConn /\ ~IsOpen(ws)
    /\ pc[t] \in {"listening", "handling"} =>
           /\ sock[t] # NoConn
           /\ ws = sock[t] \/ (ws = NoConn /\ conn[sock[t]] # "open")
    /\ pc[t] = "handling" => frames[t] > 0
    /\ pc[t] = "closing" => sock[t] # NoConn

\* Only a stop() that has returned cancels: nothing is left for it to clear.
CancelIsLate(t) == cancelled[t] => ws = NoConn /\ stream_state = "DISCONNECTED"

StreamInv == StreamTypeOK /\ \A t \in Starters : OpenIsOwned(t) /\ AtWait(t) /\ CancelIsLate(t)

-----------------------------------------------------------------------------

\* start() leaves through _cleanup: what it works with is _ws, or is dead, or is
\* abandoned by the cancellation that brought it here.
LEMMA CleansUp ==
    ASSUME NEW only, Starters = {only}, StreamInv,
           cleanup(only), UNCHANGED conn, abandoned \subseteq abandoned', abandoned' \subseteq Conns,
           sock[only] # NoConn /\ conn[sock[only]] = "open" => ws = sock[only] \/ sock[only] \in abandoned',
           IsOpen(ws) => ws = sock[only],
           cancelled'[only] => cancelled[only] /\ ~IsOpen(ws)
    PROVE  OpenIsOwned(only)' /\ AtWait(only)' /\ CancelIsLate(only)'
<1> USE DEF StreamInv, StreamTypeOK
<1>1. CASE IsOpen(ws)
  <2>1. pc'[only] = "closing" /\ sock'[only] = ws /\ ws # NoConn /\ UNCHANGED <<ws, stream_state>>
    BY <1>1 DEF cleanup, IsOpen
  <2> QED
    BY <1>1, <2>1 DEF OpenIsOwned, AtWait, CancelIsLate
<1>2. CASE ~IsOpen(ws)
  <2>1. pc'[only] = "done" /\ sock'[only] = NoConn /\ ws' = NoConn /\ stream_state' = "DISCONNECTED"
    BY <1>2 DEF cleanup
  <2>2. \A c \in Conns : conn[c] = "open" => c \in abandoned'
    BY <1>2, StreamAssumption DEF OpenIsOwned, IsOpen
  <2> QED
    BY <2>1, <2>2 DEF OpenIsOwned, AtWait, CancelIsLate
<1> QED
  BY <1>1, <1>2

\* start() goes round _reconnect_loop, or leaves it: it works with no connection
\* and _ws is dead.
LEMMA Reconnects ==
    ASSUME NEW only, Starters = {only}, StreamInv, NEW d \in initial_delay .. max_delay,
           reconnect(only, d), UNCHANGED <<conn, abandoned, cancelled, running>>,
           sock[only] # NoConn => conn[sock[only]] # "open",
           ~IsOpen(ws), ~cancelled[only]
    PROVE  OpenIsOwned(only)' /\ AtWait(only)' /\ CancelIsLate(only)'
<1>1. CASE running
  <2>1. pc'[only] = "sleeping" /\ sock'[only] = NoConn /\ ws' = ws
    BY <1>1 DEF reconnect, StreamInv, StreamTypeOK
  <2> QED
    BY <2>1, StreamAssumption DEF StreamInv, StreamTypeOK, OpenIsOwned, AtWait, CancelIsLate, IsOpen
<1>2. CASE ~running
  <2>1. cleanup(only)
    BY <1>2 DEF reconnect
  <2> QED
    BY <2>1, CleansUp DEF StreamInv, StreamTypeOK
<1> QED
  BY <1>1, <1>2

LEMMA BackoffIsBounded ==
    ASSUME NEW d \in initial_delay .. max_delay
    PROVE  backoff(d) \in initial_delay .. max_delay
BY StreamAssumption DEF backoff

\* The types, of the steps of one start() task and of stop().
LEMMA StreamTypes ==
    ASSUME StreamInv, [StreamNext]_handler_vars
    PROVE  StreamTypeOK'
<1> USE StreamAssumption DEF StreamInv, StreamTypeOK, States, Waits
<1>1. CASE UNCHANGED handler_vars
  BY <1>1 DEF handler_vars, task
<1>2. ASSUME NEW t \in Starters, cleanup(t)
      PROVE  /\ pc' \in [Starters -> Waits] /\ sock' \in [Starters -> Conns \cup {NoConn}]
             /\ ws' \in Conns \cup {NoConn} /\ stream_state' \in States
  BY <1>2 DEF cleanup
<1>3. ASSUME NEW t \in Starters, NEW d \in initial_delay .. max_delay, reconnect(t, d)
      PROVE  /\ pc' \in [Starters -> Waits] /\ sock' \in [Starters -> Conns \cup {NoConn}]
             /\ ws' \in Conns \cup {NoConn} /\ stream_state' \in States
             /\ delay' \in [Starters -> initial_delay .. max_delay] /\ retry' \in [Starters -> BOOLEAN]
  <2>1. CASE running
    <3>1. /\ stream_state' = "RECONNECTING" /\ pc' = [pc EXCEPT ![t] = "sleeping"]
          /\ sock' = [sock EXCEPT ![t] = NoConn] /\ delay' = [delay EXCEPT ![t] = d]
          /\ retry' = [retry EXCEPT ![t] = TRUE] /\ ws' = ws
      BY <1>3, <2>1 DEF reconnect
    <3>2. delay' \in [Starters -> initial_delay .. max_delay]
      BY <3>1
    <3> QED
      BY <3>1, <3>2
  <2>2. CASE ~running
    BY <1>2, <1>3, <2>2 DEF reconnect
  <2> QED
    BY <2>1, <2>2
<1>4. ASSUME NEW t \in Starters, connect_failed(t)
      PROVE  /\ pc' \in [Starters -> Waits] /\ sock' \in [Starters -> Conns \cup {NoConn}]
             /\ ws' \in Conns \cup {NoConn} /\ stream_state' \in States
             /\ delay' \in [Starters -> initial_delay .. max_delay] /\ retry' \in [Starters -> BOOLEAN]
  <2>1. backoff(delay[t]) \in initial_delay .. max_delay
    BY BackoffIsBounded
  <2>2. CASE retry[t]
    BY <1>3, <1>4, <2>1, <2>2 DEF connect_failed
  <2>3. CASE ~retry[t]
    BY <1>2, <1>4, <2>3 DEF connect_failed
  <2> QED
    BY <2>2, <2>3
<1>5. ASSUME NEW t \in Starters, start(t)
      PROVE  StreamTypeOK'
  BY <1>5 DEF start
<1>6. ASSUME NEW t \in Starters, NEW c \in Conns, Opened(t, c)
      PROVE  StreamTypeOK'
  BY <1>6 DEF Opened
<1>7. ASSUME NEW t \in Starters, Refused(t) \/ SubscribeFailed(t)
      PROVE  StreamTypeOK'
  BY <1>4, <1>7 DEF Refused, SubscribeFailed
<1>8. ASSUME NEW t \in Starters, Subscribed(t)
      PROVE  StreamTypeOK'
  BY <1>8 DEF Subscribed
<1>9. ASSUME NEW t \in Starters, NEW n \in 1 .. MaxFrames, Message(t, n)
      PROVE  StreamTypeOK'
  BY <1>2, <1>9 DEF Message
<1>10. ASSUME NEW t \in Starters, Handled(t) \/ BadFrame(t)
       PROVE  StreamTypeOK'
  <2>1. pc[t] = "handling" /\ frames[t] \in 1 .. MaxFrames
    BY <1>10 DEF Handled, BadFrame, AtWait
  <2> QED
    BY <1>10, <2>1 DEF Handled, BadFrame
<1>11. ASSUME NEW t \in Starters, ListenEnded(t)
       PROVE  StreamTypeOK'
  BY <1>2, <1>11 DEF ListenEnded
<1>12. ASSUME NEW t \in Starters, ListenRaised(t)
       PROVE  StreamTypeOK'
  <2>1. initial_delay \in initial_delay .. max_delay
    OBVIOUS
  <2> QED
    BY <1>3, <1>12, <2>1 DEF ListenRaised
<1>13. ASSUME NEW t \in Starters, Wake(t)
       PROVE  StreamTypeOK'
  BY <1>2, <1>13 DEF Wake
<1>14. ASSUME NEW t \in Starters, Closed(t)
       PROVE  StreamTypeOK'
  <2>1. conn' \in [Conns -> {"open", "closed", "lost"}]
    BY <1>14 DEF Closed
  <2> QED
    BY <1>14, <2>1 DEF Closed
<1>15. ASSUME NEW t \in Starters, Cancelled(t)
       PROVE  StreamTypeOK'
  <2>1. /\ pc' \in [Starters -> Waits] /\ sock' \in [Starters -> Conns \cup {NoConn}]
        /\ ws' \in Conns \cup {NoConn} /\ stream_state' \in States
    BY <1>2, <1>15 DEF Cancelled
  <2>2. abandoned' \subseteq Conns
    BY <1>15 DEF Cancelled, IsOpen
  <2>3. frames' \in [Starters -> 0 .. MaxFrames] /\ cancelled' \in [Starters -> BOOLEAN]
    BY <1>15 DEF Cancelled
  <2> QED
    BY <1>15, <2>1, <2>2, <2>3 DEF Cancelled
<1>16. CASE StopIdle \/ stop \/ StopClosed
  BY <1>16 DEF StopIdle, stop, StopClosed, stop_returns, stop_cleaned, task, IsOpen
<1>17. CASE FeedFlips
  BY <1>17 DEF FeedFlips, task
<1>18. ASSUME NEW c \in Conns, NEW how \in {"closed", "lost"}, FeedEnds(c, how)
       PROVE  StreamTypeOK'
  BY <1>18 DEF FeedEnds, task
<1> QED
  BY <1>1, <1>5, <1>6, <1>7, <1>8, <1>9, <1>10, <1>11, <1>12, <1>13, <1>14, <1>15, <1>16, <1>17, <1>18
  DEF StreamNext, StartStep

\* Of one start() task, every await of start(), stop() and every way a connection
\* ends keep the invariant.
LEMMA StreamInductive ==
    ASSUME NEW only, Starters = {only}, StreamInv, [StreamNext]_handler_vars
    PROVE  StreamInv'
<1> DEFINE Good == OpenIsOwned(only) /\ AtWait(only) /\ CancelIsLate(only)
<1> USE DEF StreamInv, StreamTypeOK
<1>1. StreamTypeOK'
  BY StreamTypes
<1>2. Good
  OBVIOUS
<1> SUFFICES Good'
  BY <1>1
<1>3. CASE UNCHANGED handler_vars
  BY <1>2, <1>3 DEF handler_vars, task, OpenIsOwned, AtWait, CancelIsLate, IsOpen
<1>4. CASE start(only)
  <2>1. /\ pc'[only] = "connecting" /\ sock'[only] = NoConn /\ ws' = NoConn
        /\ ~cancelled'[only] /\ UNCHANGED <<conn, abandoned, sock>>
    BY <1>2, <1>4 DEF start, AtWait
  <2> QED
    BY <1>2, <2>1 DEF OpenIsOwned, AtWait, CancelIsLate, IsOpen
<1>5. ASSUME NEW c \in Conns, Opened(only, c)
      PROVE  Good'
  <2>1. /\ pc[only] = "connecting" /\ ~cancelled[only] /\ Unused(c)
        /\ pc'[only] = "subscribing" /\ sock'[only] = c /\ c # ws
        /\ conn' = [conn EXCEPT ![c] = "open"] /\ abandoned' = abandoned \ {c}
        /\ UNCHANGED <<ws, cancelled>>
    BY <1>5 DEF Opened, Unused
  <2>2. ~IsOpen(ws)'
    BY <1>2, <2>1 DEF AtWait, IsOpen
  <2>3. OpenIsOwned(only)'
    BY <1>2, <2>1, StreamAssumption DEF AtWait, OpenIsOwned
  <2> QED
    BY <2>1, <2>2, <2>3, StreamAssumption DEF AtWait, CancelIsLate
<1>6. CASE Refused(only) \/ SubscribeFailed(only)
  <2>1. /\ connect_failed(only) /\ UNCHANGED <<running, conn, abandoned, cancelled>>
        /\ ~cancelled[only] /\ ~IsOpen(ws)
        /\ sock[only] # NoConn => conn[sock[only]] # "open"
    BY <1>2, <1>6 DEF Refused, SubscribeFailed, AtWait
  <2>2. CASE retry[only]
    <3>1. backoff(delay[only]) \in initial_delay .. max_delay
      BY BackoffIsBounded
    <3> QED
      BY <2>1, <2>2, <3>1, Reconnects DEF connect_failed
  <2>3. CASE ~retry[only]
    BY <2>1, <2>3, CleansUp DEF connect_failed
  <2> QED
    BY <2>2, <2>3
<1>7. CASE Subscribed(only)
  <2>1. /\ pc[only] = "subscribing" /\ ~cancelled[only]
        /\ ws' = sock[only] /\ pc'[only] \in {"listening", "closing"}
        /\ UNCHANGED <<conn, sock, abandoned, cancelled>>
    BY <1>7 DEF Subscribed
  <2> QED
    BY <1>2, <2>1 DEF OpenIsOwned, AtWait, CancelIsLate
<1>8. ASSUME NEW n \in 1 .. MaxFrames, Message(only, n)
      PROVE  Good'
  <2>1. /\ pc[only] = "listening" /\ ~cancelled[only] /\ conn[sock[only]] = "open"
        /\ UNCHANGED <<conn, abandoned, cancelled>> /\ ws = sock[only] /\ sock[only] # NoConn
    BY <1>2, <1>8 DEF Message, AtWait
  <2>2. CASE running
    BY <1>2, <1>8, <2>1, <2>2 DEF Message, OpenIsOwned, AtWait, CancelIsLate
  <2>3. CASE ~running
    BY <1>8, <2>1, <2>3, CleansUp DEF Message
  <2> QED
    BY <2>2, <2>3
<1>9. CASE Handled(only) \/ BadFrame(only)
  <2>1. /\ pc[only] = "handling" /\ pc'[only] \in {"listening", "handling"}
        /\ pc'[only] = "handling" => frames'[only] > 0
        /\ UNCHANGED <<conn, sock, ws, abandoned, cancelled, stream_state>>
    <3>1. CASE Handled(only)
      <4>1. frames[only] \in 1 .. MaxFrames /\ frames'[only] = frames[only] - 1
        BY <1>2, <3>1 DEF Handled, AtWait
      <4> QED
        BY <3>1, <4>1 DEF Handled
    <3>2. CASE BadFrame(only)
      BY <3>2 DEF BadFrame
    <3> QED
      BY <1>9, <3>1, <3>2
  <2> QED
    BY <1>2, <2>1 DEF OpenIsOwned, AtWait, CancelIsLate
<1>10. CASE ListenEnded(only)
  <2>1. /\ cleanup(only) /\ UNCHANGED <<conn, abandoned, cancelled>>
        /\ conn[sock[only]] # "open" /\ ~IsOpen(ws)
    BY <1>2, <1>10 DEF ListenEnded, AtWait, IsOpen
  <2> QED
    BY <2>1, CleansUp
<1>11. CASE ListenRaised(only)
  <2>1. /\ reconnect(only, initial_delay) /\ UNCHANGED <<running, conn, abandoned, cancelled>>
        /\ conn[sock[only]] # "open" /\ ~IsOpen(ws) /\ ~cancelled[only]
    BY <1>2, <1>11 DEF ListenRaised, AtWait, IsOpen
  <2>2. initial_delay \in initial_delay .. max_delay
    BY StreamAssumption
  <2> QED
    BY <2>1, <2>2, Reconnects
<1>12. CASE Wake(only)
  <2>1. /\ pc[only] = "sleeping" /\ sock[only] = NoConn /\ ~IsOpen(ws) /\ ~cancelled[only]
        /\ UNCHANGED <<conn, abandoned, cancelled>>
    BY <1>2, <1>12 DEF Wake, AtWait
  <2>2. CASE running
    BY <1>2, <1>12, <2>1, <2>2 DEF Wake, OpenIsOwned, AtWait, CancelIsLate, IsOpen
  <2>3. CASE ~running
    BY <1>12, <2>1, <2>3, CleansUp DEF Wake
  <2> QED
    BY <2>2, <2>3
<1>13. CASE Closed(only)
  <2>1. /\ sock[only] \in Conns /\ ~cancelled[only]
        /\ conn' = [conn EXCEPT ![sock[only]] = IF @ = "open" THEN "closed" ELSE @]
        /\ ws' = NoConn /\ stream_state' = "DISCONNECTED" /\ sock'[only] = NoConn
        /\ pc'[only] = "done" /\ UNCHANGED <<abandoned, cancelled>>
    BY <1>2, <1>13 DEF Closed, AtWait
  <2> QED
    BY <1>2, <2>1 DEF OpenIsOwned, AtWait, CancelIsLate
<1>14. CASE Cancelled(only)
  <2>1. /\ ws = NoConn /\ stream_state = "DISCONNECTED" /\ ~IsOpen(ws)
        /\ ~cancelled'[only] /\ UNCHANGED conn
        /\ abandoned \subseteq abandoned' /\ abandoned' \subseteq Conns
    BY <1>1, <1>2, <1>14 DEF Cancelled, CancelIsLate, IsOpen
  <2>2. sock[only] # NoConn /\ conn[sock[only]] = "open" => sock[only] \in abandoned'
    <3>1. pc[only] \in {"connecting", "sleeping", "subscribing", "listening", "handling",
                        "closing", "idle"}
      BY <1>14 DEF Cancelled, Waits
    <3>2. CASE pc[only] \in {"subscribing", "closing"}
      BY <1>14, <3>2 DEF Cancelled, IsOpen
    <3>3. CASE pc[only] \in {"listening", "handling"}
      BY <1>2, <2>1, <3>3 DEF AtWait
    <3>4. CASE pc[only] \in {"connecting", "sleeping", "idle"}
      BY <1>2, <3>4 DEF AtWait
    <3> QED
      BY <3>1, <3>2, <3>3, <3>4
  <2>3. CASE pc[only] \in {"idle", "closing"}
    <3>1. pc'[only] = "done" /\ sock'[only] = NoConn /\ ws' = NoConn /\ stream_state' = stream_state
      BY <1>14, <2>1, <2>3 DEF Cancelled
    <3>2. \A c \in Conns : conn[c] = "open" => c \in abandoned'
      BY <1>2, <2>1, <2>2, StreamAssumption DEF OpenIsOwned
    <3> QED
      BY <2>1, <3>1, <3>2 DEF OpenIsOwned, AtWait, CancelIsLate
  <2>4. CASE pc[only] \notin {"idle", "closing"}
    BY <1>14, <2>1, <2>2, <2>4, CleansUp DEF Cancelled
  <2> QED
    BY <2>3, <2>4
<1>15. CASE StopIdle
  BY <1>2, <1>15 DEF StopIdle, stop_returns, task, OpenIsOwned, AtWait, CancelIsLate, IsOpen
<1>16. CASE stop
  BY <1>2, <1>16 DEF stop, stop_cleaned, stop_returns, task, OpenIsOwned, AtWait, CancelIsLate, IsOpen
<1>17. CASE StopClosed
  <2>1. /\ ws' = NoConn /\ stream_state' = "DISCONNECTED" /\ UNCHANGED <<task, abandoned>>
        /\ conn' = IF IsOpen(ws) THEN [conn EXCEPT ![ws] = "closed"] ELSE conn
    BY <1>17 DEF StopClosed, stop_cleaned
  <2>2. /\ \A c \in Conns : conn'[c] = "open" => conn[c] = "open" /\ c # ws
        /\ \A c \in Conns : conn[c] # "open" => conn'[c] # "open"
    BY <2>1, StreamAssumption DEF IsOpen
  <2>3. OpenIsOwned(only)'
    BY <1>2, <2>1, <2>2 DEF OpenIsOwned, task
  <2>4. AtWait(only)'
    <3>1. UNCHANGED <<pc, sock, frames>>
      BY <2>1 DEF task
    <3>2. sock[only] # NoConn /\ ws = sock[only] => conn'[sock[only]] # "open"
      BY <2>2
    <3> QED
      BY <1>2, <2>1, <2>2, <3>1, <3>2 DEF AtWait, IsOpen
  <2> QED
    BY <2>1, <2>3, <2>4 DEF CancelIsLate
<1>18. CASE FeedFlips
  BY <1>2, <1>18 DEF FeedFlips, task, OpenIsOwned, AtWait, CancelIsLate, IsOpen
<1>19. ASSUME NEW c \in Conns, NEW how \in {"closed", "lost"}, FeedEnds(c, how)
       PROVE  Good'
  BY <1>2, <1>19 DEF FeedEnds, task, OpenIsOwned, AtWait, CancelIsLate, IsOpen
<1> QED
  BY <1>3, <1>4, <1>5, <1>6, <1>7, <1>8, <1>9, <1>10, <1>11, <1>12, <1>13, <1>14, <1>15, <1>16,
     <1>17, <1>18, <1>19 DEF StreamNext, StartStep

LEMMA StreamInitially == StreamInit => StreamInv
<1> SUFFICES ASSUME StreamInit PROVE StreamInv
  OBVIOUS
<1>1. StreamTypeOK
  <2>1. 0 \in 0 .. MaxFrames /\ initial_delay \in initial_delay .. max_delay
    BY StreamAssumption
  <2> QED
    BY <2>1 DEF StreamInit, StreamTypeOK, States, Waits
<1> QED
  BY <1>1 DEF StreamInit, StreamInv, OpenIsOwned, AtWait, CancelIsLate

\* With one start() task: at each of its awaits what it works with and what
\* stop() would close are the same connection, or one of them is gone.
THEOREM StreamStaysInStep ==
    ASSUME NEW only, Starters = {only}
    PROVE  StreamSpec => []StreamInv
<1>1. StreamInv /\ [StreamNext]_handler_vars => StreamInv'
  BY StreamInductive
<1> QED
  BY <1>1, StreamInitially, PTL DEF StreamSpec

\* With one start() task: once start() and stop() have returned, the handler is
\* DISCONNECTED and has nothing open, whichever of start, stop, cancel and the
\* feed came first (_cleanup, _reconnect_loop, stop).
THEOREM StreamEndsClean ==
    ASSUME NEW only, Starters = {only}
    PROVE  StreamSpec => []QuiescentIsClean
<1>1. StreamInv => QuiescentIsClean
  BY StreamAssumption DEF StreamInv, StreamTypeOK, States, Waits, OpenIsOwned, AtWait, QuiescentIsClean, Live
<1> QED
  BY <1>1, StreamStaysInStep, PTL

\* With one start() task: no two connections it has not lost track of are open at
\* once, so that no trade is handed on twice (_reconnect_loop, _connect).
THEOREM StreamHoldsOne ==
    ASSUME NEW only, Starters = {only}
    PROVE  StreamSpec => []OneConnection
<1>1. StreamInv => OneConnection
  BY DEF StreamInv, OpenIsOwned, OneConnection
<1> QED
  BY <1>1, StreamStaysInStep, PTL

-----------------------------------------------------------------------------
(* Captures.                                                             *)

(***************************************************************************)
(* The inductive invariant of the captures of TradeQueue.  What makes an *)
(* entry that is read new is that it lies after the group's last one;    *)
(* the invariant says that nothing has been read, held or written there, *)
(* and of the entries before it who holds them.                          *)
(***************************************************************************)
Frontier == last["trade-capture"]

QueueTypes ==
    /\ added \in 0 .. MaxEntries /\ trimmed \in Nat
    /\ last \in [Groups -> 0 .. added]
    /\ {pending, hand} \subseteq [Consumers -> SUBSET Entries]
    /\ proc = [c \in Consumers |-> proc[c]]
    /\ captured \in [Entries -> Nat]

NothingAhead == \A n \in Entries : n > Frontier =>
    captured[n] = 0 /\ \A c \in Captures : n \notin pending[c]

\* Two captures were never handed the same entry.
OneHolder == \A c \in Captures : \A d \in Captures \ {c} : pending[c] \cap pending[d] = {}

InHandIsUnwritten == \A c \in Captures :
    hand[c] \subseteq pending[c] /\ \A n \in hand[c] : captured[n] = 0

WrittenOnce == \A n \in Entries : captured[n] <= 1

\* A capture that has not crashed has written what it was handed and could
\* read, or still holds it; one that has ended holds nothing.
HandedIsWritten == \A c \in Captures :
    /\ proc[c] \in {"new", "unused", "refused"} => pending[c] = {}
    /\ proc[c] \in {"up", "stopping", "ended"} =>
           \A n \in pending[c] \ Unreadable : captured[n] = 1 \/ n \in hand[c]
    /\ proc[c] \notin {"up", "stopping"} => hand[c] = {}

CaptureInv == /\ QueueTypes /\ NothingAhead /\ OneHolder /\ InHandIsUnwritten
              /\ WrittenOnce /\ HandedIsWritten

\* A step that only lets the stream and the frontier advance, or moves a process
\* to a state of which the invariant says no more, keeps it.
LEMMA NothingMoved ==
    ASSUME CaptureInv, QueueTypes',
           \A c \in Captures : pending'[c] = pending[c] /\ hand'[c] = hand[c],
           captured' = captured, Frontier' >= Frontier, HandedIsWritten'
    PROVE  CaptureInv'
<1>1. Frontier \in Int /\ Frontier' \in Int /\ Entries \subseteq Int
  BY TradeQueueAssumption DEF CaptureInv, QueueTypes, Frontier, Groups, Entries
<1>2. NothingAhead'
  <2> SUFFICES ASSUME NEW n \in Entries, n > Frontier'
               PROVE  captured'[n] = 0 /\ \A c \in Captures : n \notin pending'[c]
    BY DEF NothingAhead
  <2>1. n > Frontier
    BY <1>1
  <2> QED
    BY <2>1 DEF CaptureInv, NothingAhead
<1>3. OneHolder'
  BY DEF CaptureInv, OneHolder
<1>4. InHandIsUnwritten' /\ WrittenOnce'
  BY DEF CaptureInv, InHandIsUnwritten, WrittenOnce
<1> QED
  BY <1>2, <1>3, <1>4 DEF CaptureInv

\* What is read is new: nobody was handed it and nothing of it is written.
LEMMA CaptureReadsKeeps ==
    ASSUME CaptureInv, NEW c \in Captures, CaptureReads(c)
    PROVE  CaptureInv'
<1> USE TradeQueueAssumption
<1> PICK new : new = First(In(last["trade-capture"] + 1 .. added))
  OBVIOUS
<1>1. Group(c) = "trade-capture" /\ c \in Consumers /\ "trade-capture" \in Groups
  BY DEF Group, Consumers, Groups
<1>2. PICK n \in new : /\ \A m \in new : m <= n
                       /\ last' = [last EXCEPT !["trade-capture"] = n]
  BY <1>1 DEF CaptureReads, read_events
<1>3. /\ pending' = [pending EXCEPT ![c] = @ \cup new]
      /\ hand' = [hand EXCEPT ![c] = Readable(new)]
      /\ hand[c] = {} /\ proc[c] = "up"
      /\ UNCHANGED <<added, trimmed, proc, captured>>
  BY <1>1 DEF CaptureReads, read_events, stream_vars
<1>4. \A m \in new : m \in Entries /\ m > Frontier /\ m > trimmed /\ m <= added
  BY DEF First, In, Entries, CaptureInv, QueueTypes, Frontier, Groups
<1>5. Frontier' = n /\ last' \in [Groups -> 0 .. added] /\ n \in Entries /\ Frontier \in Int
  BY <1>1, <1>2, <1>4 DEF CaptureInv, QueueTypes, Frontier, Entries
<1>6. Readable(new) = new \ Unreadable
  BY <1>4 DEF Readable, In
<1>7. /\ pending'[c] = pending[c] \cup new /\ hand'[c] = new \ Unreadable
      /\ \A d \in Captures \ {c} : pending'[d] = pending[d] /\ hand'[d] = hand[d]
  BY <1>1, <1>3, <1>6 DEF CaptureInv, QueueTypes, Consumers
<1>8. QueueTypes'
  <2>1. {pending', hand'} \subseteq [Consumers -> SUBSET Entries]
    <3>1. pending \in [Consumers -> SUBSET Entries] /\ hand \in [Consumers -> SUBSET Entries]
      BY DEF CaptureInv, QueueTypes
    <3>2. new \in SUBSET Entries /\ Readable(new) \in SUBSET Entries
      BY <1>4, <1>6
    <3>3. pending' \in [Consumers -> SUBSET Entries]
      BY <1>3, <3>1, <3>2
    <3>4. hand' \in [Consumers -> SUBSET Entries]
      BY <1>3, <3>1, <3>2
    <3> QED
      BY <3>3, <3>4
  <2> QED
    BY <1>3, <1>5, <2>1 DEF CaptureInv, QueueTypes
<1>9. \A m \in new : captured[m] = 0 /\ \A d \in Captures : m \notin pending[d]
  BY <1>4 DEF CaptureInv, NothingAhead
<1>10. NothingAhead'
  <2> SUFFICES ASSUME NEW m \in Entries, m > n
               PROVE  captured[m] = 0 /\ \A d \in Captures : m \notin pending'[d]
    BY <1>3, <1>5 DEF NothingAhead
  <2>1. m > Frontier /\ m \notin new
    BY <1>2, <1>4, <1>5 DEF Entries
  <2> QED
    BY <1>7, <2>1 DEF CaptureInv, NothingAhead
<1>11. OneHolder'
  BY <1>7, <1>9 DEF CaptureInv, OneHolder
<1>12. InHandIsUnwritten'
  BY <1>3, <1>7, <1>9 DEF CaptureInv, InHandIsUnwritten
<1>13. WrittenOnce'
  BY <1>3 DEF CaptureInv, WrittenOnce
<1>14. HandedIsWritten'
  BY <1>3, <1>7 DEF CaptureInv, HandedIsWritten
<1> QED
  BY <1>8, <1>10, <1>11, <1>12, <1>13, <1>14 DEF CaptureInv

\* An entry is written by the one capture that holds it.
LEMMA CaptureWritesKeeps ==
    ASSUME CaptureInv, NEW c \in Captures, CaptureWrites(c)
    PROVE  CaptureInv'
<1>1. PICK n \in hand[c] : /\ captured' = [captured EXCEPT ![n] = @ + 1]
                           /\ hand' = [hand EXCEPT ![c] = @ \ {n}]
  BY DEF CaptureWrites
<1>2. UNCHANGED <<added, trimmed, last, pending, proc>> /\ proc[c] \in {"up", "stopping"}
  BY DEF CaptureWrites, stream_vars, group_vars
<1>3. c \in Consumers /\ \A d \in Captures : d \in Consumers
  BY DEF Consumers
<1>4. n \in Entries /\ n \in pending[c] /\ captured[n] = 0
  BY <1>1, <1>3 DEF CaptureInv, QueueTypes, InHandIsUnwritten
<1>5. /\ captured'[n] = 1 /\ \A m \in Entries \ {n} : captured'[m] = captured[m]
      /\ hand'[c] = hand[c] \ {n} /\ \A d \in Captures \ {c} : hand'[d] = hand[d]
  BY <1>1, <1>3, <1>4 DEF CaptureInv, QueueTypes
<1>6. QueueTypes'
  <2>1. captured \in [Entries -> Nat] /\ hand \in [Consumers -> SUBSET Entries]
    BY DEF CaptureInv, QueueTypes
  <2>2. captured' \in [Entries -> Nat] /\ hand' \in [Consumers -> SUBSET Entries]
    <3>1. captured[n] + 1 \in Nat /\ hand[c] \ {n} \in SUBSET Entries
      BY <1>3, <1>4, <2>1
    <3>2. captured' \in [Entries -> Nat]
      BY <1>1, <2>1, <3>1
    <3>3. hand' \in [Consumers -> SUBSET Entries]
      BY <1>1, <2>1, <3>1
    <3> QED
      BY <3>2, <3>3
  <2> QED
    BY <1>2, <2>2 DEF CaptureInv, QueueTypes
<1>7. NothingAhead'
  BY <1>2, <1>4, <1>5 DEF CaptureInv, NothingAhead, Frontier
<1>8. OneHolder'
  BY <1>2 DEF CaptureInv, OneHolder
<1>9. \A d \in Captures : pending[d] \subseteq Entries
  BY <1>3 DEF CaptureInv, QueueTypes
<1>10. InHandIsUnwritten'
  <2> SUFFICES ASSUME NEW d \in Captures, NEW m \in hand'[d]
               PROVE  m \in pending[d] /\ captured'[m] = 0
    BY <1>2 DEF InHandIsUnwritten
  <2>1. m \in hand[d] /\ m # n
    BY <1>4, <1>5 DEF CaptureInv, InHandIsUnwritten, OneHolder
  <2> QED
    BY <1>5, <1>9, <2>1 DEF CaptureInv, InHandIsUnwritten
<1>11. WrittenOnce'
  BY <1>5 DEF CaptureInv, WrittenOnce
<1>12. HandedIsWritten'
  BY <1>2, <1>5, <1>9 DEF CaptureInv, HandedIsWritten
<1> QED
  BY <1>6, <1>7, <1>8, <1>10, <1>11, <1>12 DEF CaptureInv

LEMMA CapturesInductive ==
    ASSUME CaptureInv, [QueueNext]_queue_vars
    PROVE  CaptureInv'
<1> USE TradeQueueAssumption
<1>0. worker \in Consumers /\ \A c \in Captures : c \in Consumers /\ c # worker
  BY DEF Consumers
<1>1. CASE UNCHANGED queue_vars
  BY <1>1 DEF queue_vars, stream_vars, group_vars, CaptureInv, QueueTypes, NothingAhead, Frontier,
     OneHolder, InHandIsUnwritten, WrittenOnce, HandedIsWritten
<1>2. CASE trim_stream \/ \E k \in 1 .. 2 : publish(k)
  <2>1. added' \in added .. MaxEntries /\ trimmed' \in Nat
    BY <1>2 DEF trim_stream, publish, CaptureInv, QueueTypes
  <2>2. UNCHANGED <<last, pending, hand, proc, captured>>
    BY <1>2 DEF trim_stream, publish, group_vars
  <2>3. last \in [Groups -> 0 .. added']
    BY <2>1 DEF CaptureInv, QueueTypes
  <2>4. QueueTypes'
    BY <2>1, <2>2, <2>3 DEF CaptureInv, QueueTypes
  <2>5. HandedIsWritten' /\ Frontier' >= Frontier
    BY <2>2 DEF CaptureInv, QueueTypes, HandedIsWritten, Frontier, Groups
  <2> QED
    BY <2>2, <2>4, <2>5, NothingMoved
<1>3. ASSUME NEW c \in Captures, CaptureStarts(c)
      PROVE  CaptureInv'
  <2>1. /\ UNCHANGED <<added, trimmed, pending, hand, captured>> /\ proc[c] = "new"
        /\ \/ proc' = [proc EXCEPT ![c] = "up"] /\ last' = [last EXCEPT !["trade-capture"] = added]
           \/ proc' = [proc EXCEPT ![c] = "refused"] /\ last' = last
    BY <1>0, <1>3 DEF CaptureStarts, create_consumer_group, stream_vars, Group
  <2>2. QueueTypes' /\ Frontier' >= Frontier
    BY <2>1 DEF CaptureInv, QueueTypes, Groups, Frontier
  <2>3. HandedIsWritten'
    BY <1>0, <2>1 DEF CaptureInv, QueueTypes, HandedIsWritten
  <2> QED
    BY <2>1, <2>2, <2>3, NothingMoved
<1>4. ASSUME NEW c \in Captures, StopRequested(c) \/ CaptureEnds(c)
      PROVE  CaptureInv'
  <2>1. /\ UNCHANGED <<added, trimmed, last, pending, hand, captured>>
        /\ \/ proc[c] = "up" /\ proc' = [proc EXCEPT ![c] = "stopping"]
           \/ proc[c] = "stopping" /\ hand[c] = {} /\ proc' = [proc EXCEPT ![c] = "ended"]
    BY <1>4 DEF StopRequested, CaptureEnds, stream_vars, group_vars
  <2>2. QueueTypes' /\ Frontier' >= Frontier
    BY <2>1 DEF CaptureInv, QueueTypes, Groups, Frontier
  <2>3. HandedIsWritten'
    BY <1>0, <2>1 DEF CaptureInv, QueueTypes, HandedIsWritten
  <2> QED
    BY <2>1, <2>2, <2>3, NothingMoved
<1>5. ASSUME NEW c \in Consumers, ConsumerCrashes(c)
      PROVE  CaptureInv'
  <2>1. /\ UNCHANGED <<added, trimmed, last, pending, captured>>
        /\ proc' = [proc EXCEPT ![c] = "down"] /\ hand' = [hand EXCEPT ![c] = {}]
    BY <1>5 DEF ConsumerCrashes, stream_vars, group_vars
  <2>2. QueueTypes'
    BY <2>1 DEF CaptureInv, QueueTypes
  <2>3. NothingAhead' /\ OneHolder' /\ WrittenOnce'
    BY <2>1 DEF CaptureInv, NothingAhead, OneHolder, WrittenOnce, Frontier
  <2>4. InHandIsUnwritten' /\ HandedIsWritten'
    BY <1>0, <2>1 DEF CaptureInv, QueueTypes, InHandIsUnwritten, HandedIsWritten
  <2> QED
    BY <2>2, <2>3, <2>4 DEF CaptureInv
<1>6. CASE WorkerStarts
  <2>1. /\ UNCHANGED <<added, trimmed, pending, hand, captured>>
        /\ proc' = [proc EXCEPT ![worker] = "up"]
        /\ last' = [last EXCEPT !["worker"] = 0] \/ last' = last
    BY <1>6 DEF WorkerStarts, ensure_consumer_group, create_consumer_group, stream_vars, Group
  <2>2. QueueTypes' /\ Frontier' >= Frontier
    <3>1. last' \in [Groups -> 0 .. added] /\ Frontier' = Frontier /\ Frontier \in Nat
      BY <2>1 DEF CaptureInv, QueueTypes, Groups, Frontier
    <3>2. QueueTypes'
      BY <2>1, <3>1 DEF CaptureInv, QueueTypes
    <3> QED
      BY <3>1, <3>2
  <2>3. HandedIsWritten'
    BY <1>0, <2>1 DEF CaptureInv, QueueTypes, HandedIsWritten
  <2> QED
    BY <2>1, <2>2, <2>3, NothingMoved
<1>7. CASE WorkerStep
  <2>1. UNCHANGED <<added, trimmed, proc, captured>>
    BY <1>7 DEF WorkerStep, WorkerReads, WorkerProcesses, stream_vars
  <2>2. /\ \E S \in SUBSET Entries : pending' = [pending EXCEPT ![worker] = S]
        /\ \E S \in SUBSET Entries : hand' = [hand EXCEPT ![worker] = S]
        /\ last' = last \/ \E n \in 0 .. added : last' = [last EXCEPT !["worker"] = n]
    <3>1. pending[worker] \subseteq Entries /\ hand[worker] \subseteq Entries
          /\ pending = [pending EXCEPT ![worker] = pending[worker]]
      BY <1>0 DEF CaptureInv, QueueTypes
    <3>2. CASE WorkerProcesses
      BY <3>1, <3>2 DEF WorkerProcesses
    <3>3. CASE WorkerReads /\ recovering
      <4>1. read_pending(worker) \subseteq Entries
        BY <3>1 DEF read_pending, Readable, In, First
      <4> QED
        BY <3>1, <3>3, <4>1 DEF WorkerReads
    <3>4. CASE WorkerReads /\ ~recovering
      <4> PICK new : new = First(In(last["worker"] + 1 .. added))
        OBVIOUS
      <4>1. new \subseteq Entries /\ \A n \in new : n \in 0 .. added
        BY DEF First, In, Entries, CaptureInv, QueueTypes, Groups
      <4>2. Readable(new) \subseteq Entries
        BY <4>1 DEF Readable, In
      <4>3. /\ \E n \in new : last' = [last EXCEPT !["worker"] = n]
            /\ pending' = [pending EXCEPT ![worker] = @ \cup new]
            /\ hand' = [hand EXCEPT ![worker] = Readable(new)]
        BY <3>4 DEF WorkerReads, read_events, Group
      <4> QED
        BY <3>1, <4>1, <4>2, <4>3
    <3> QED
      BY <1>7, <3>2, <3>3, <3>4 DEF WorkerStep
  <2>3. \A c \in Captures : pending'[c] = pending[c] /\ hand'[c] = hand[c]
    BY <1>0, <2>2 DEF CaptureInv, QueueTypes
  <2>4. QueueTypes' /\ Frontier' >= Frontier
    <3>1. last' \in [Groups -> 0 .. added] /\ Frontier' = Frontier /\ Frontier \in Nat
      BY <2>2 DEF CaptureInv, QueueTypes, Groups, Frontier
    <3>2. pending' \in [Consumers -> SUBSET Entries] /\ hand' \in [Consumers -> SUBSET Entries]
      BY <2>2 DEF CaptureInv, QueueTypes
    <3> QED
      BY <2>1, <3>1, <3>2 DEF CaptureInv, QueueTypes
  <2>5. HandedIsWritten'
    BY <2>1, <2>3 DEF CaptureInv, HandedIsWritten
  <2> QED
    BY <2>1, <2>3, <2>4, <2>5, NothingMoved
<1> QED
  BY <1>1, <1>2, <1>3, <1>4, <1>5, <1>6, <1>7, CaptureReadsKeeps, CaptureWritesKeeps DEF QueueNext

LEMMA CapturesInitially == QueueInit => CaptureInv
<1> SUFFICES ASSUME QueueInit PROVE CaptureInv
  OBVIOUS
<1>1. QueueTypes
  BY TradeQueueAssumption DEF QueueInit, QueueTypes, Groups
<1>2. \A c \in Captures : c \in Consumers /\ pending[c] = {} /\ hand[c] = {}
                          /\ proc[c] \in {"new", "unused"}
  BY DEF QueueInit, Consumers
<1>3. \A n \in Entries : captured[n] = 0
  BY DEF QueueInit
<1> QED
  BY <1>1, <1>2, <1>3 DEF CaptureInv, NothingAhead, OneHolder, InHandIsUnwritten, WrittenOnce,
     HandedIsWritten

\* No trade is twice in the capture files, and a capture that ends when it is told
\* to has written all it was handed (capture-trades.py, read_events): for any
\* number of captures, crashes and batches, and whatever is trimmed.
THEOREM CapturesAreComplete == QueueSpec => []CapturedOnce
<1>1. CaptureInv => CapturedOnce
  BY DEF CaptureInv, WrittenOnce, HandedIsWritten, CapturedOnce
<1> QED
  BY <1>1, CapturesInitially, CapturesInductive, PTL DEF QueueSpec

-----------------------------------------------------------------------------
(***************************************************************************)
(* MetadataSync.  start(), the loop, stop() and force_sync() all write   *)
(* _state, so it does not say which of them runs; OneLoop ties the loop, *)
(* the syncs and stop() to each other beside it, and is inductive with   *)
(* the types.                                                            *)
(***************************************************************************)
\* What is about to be written to Redis is an answer of the API.
AnswersHeld == /\ \A p \in Syncers : sync[p] = "writing" => snap[p] \in [Markets -> Values]
               /\ \A r \in Readers : read[r] = "writing" => got[r] \in Values

SyncInv == TypeOK /\ OneLoop /\ AnswersHeld

Answers == Values \cup {NoEntry}

LifeOK ==
    /\ state \in {"STOPPED", "STARTING", "SYNCING", "IDLE", "STOPPING", "ERROR"}
    /\ stop_event \in BOOLEAN /\ loop \in {"none", "waiting", "syncing", "dead"}
    /\ timer \in 0 .. sync_interval /\ stopper \in {"idle", "awaiting"}

SyncsOK ==
    /\ sync \in [Syncers -> {"none", "fetching", "writing"}]
    /\ snap \in [Syncers -> [Markets -> Answers]] /\ todo \in [Syncers -> SUBSET Markets]
    /\ \A p \in Syncers : sync[p] = "writing" => snap[p] \in [Markets -> Values]

ReadsOK ==
    /\ read \in [Readers -> {"none", "lookup", "fetching", "writing"}]
    /\ wanted \in [Readers -> Markets] /\ got \in [Readers -> Answers]
    /\ \A r \in Readers : read[r] = "writing" => got[r] \in Values

\* Each of its entries has a time to live, and nothing else has one.
RedisOK == /\ cache \in [Markets -> Answers] /\ ttl \in [Markets -> 0 .. cache_ttl]
           /\ \A m \in Markets : (ttl[m] = 0) <=> (cache[m] = NoEntry)

LEMMA SyncInvIs ==
    SyncInv <=> LifeOK /\ SyncsOK /\ ReadsOK /\ RedisOK /\ market \in [Markets -> Values] /\ OneLoop
BY DEF SyncInv, TypeOK, AnswersHeld, LifeOK, SyncsOK, ReadsOK, RedisOK, Answers

LEMMA SyncersAre ==
    /\ "start" \in Syncers /\ "loop" \in Syncers /\ "start" # "loop"
    /\ \A f \in Forcers : f \in Syncers /\ f # "start" /\ f # "loop"
BY SyncAssumption DEF Syncers

LEMMA RedisKeeps ==
    ASSUME RedisOK,
           \/ UNCHANGED redis
           \/ \E m \in Markets : drop(m) \/ \E v \in Values : store(m, v)
    PROVE  RedisOK'
<1>1. 0 \in 0 .. cache_ttl /\ cache_ttl \in 0 .. cache_ttl /\ cache_ttl # 0
  BY SyncAssumption
<1>2. CASE UNCHANGED redis
  BY <1>2 DEF RedisOK, redis
<1>3. ASSUME NEW m \in Markets, drop(m)
      PROVE  RedisOK'
  BY <1>1, <1>3 DEF RedisOK, drop, Answers
<1>4. ASSUME NEW m \in Markets, NEW v \in Values, store(m, v)
      PROVE  RedisOK'
  BY <1>1, <1>4, SyncAssumption DEF RedisOK, store, Answers
<1> QED
  BY <1>2, <1>3, <1>4

LEMMA TickKeepsRedis ==
    ASSUME RedisOK, Tick
    PROVE  RedisOK'
<1>1. /\ ttl' = [m \in Markets |-> IF ttl[m] > 0 THEN ttl[m] - 1 ELSE 0]
      /\ cache' = [m \in Markets |-> IF ttl[m] <= 1 THEN NoEntry ELSE cache[m]]
  BY DEF Tick
<1>2. \A m \in Markets : ttl[m] \in 0 .. cache_ttl /\ cache[m] \in Answers /\ cache_ttl \in Nat
  BY SyncAssumption DEF RedisOK
<1>3. ttl' \in [Markets -> 0 .. cache_ttl] /\ cache' \in [Markets -> Answers]
  BY <1>1, <1>2 DEF Answers
<1>4. ASSUME NEW m \in Markets
      PROVE  (ttl'[m] = 0) <=> (cache'[m] = NoEntry)
  BY <1>1, <1>2 DEF RedisOK
<1> QED
  BY <1>3, <1>4 DEF RedisOK

LEMMA SyncInitially == Init => SyncInv
<1> SUFFICES ASSUME Init PROVE SyncInv
  OBVIOUS
<1>1. LifeOK
  <2>1. timer \in 0 .. sync_interval
    BY SyncAssumption DEF Init
  <2>2. state = "STOPPED" /\ stop_event = FALSE /\ loop = "none" /\ stopper = "idle"
    BY DEF Init
  <2> QED
    BY <2>1, <2>2 DEF LifeOK
<1>2. SyncsOK
  <2>1. Nothing \in [Markets -> Answers]
    BY DEF Nothing, Answers
  <2> QED
    BY <2>1 DEF Init, SyncsOK
<1>3. ReadsOK
  BY DEF Init, ReadsOK, Answers
<1>4. RedisOK
  BY SyncAssumption DEF Init, RedisOK, Answers
<1>5. market \in [Markets -> Values] /\ OneLoop
  BY SyncersAre DEF Init, OneLoop
<1> QED
  BY <1>1, <1>2, <1>3, <1>4, <1>5, SyncInvIs

\* Who writes to Redis writes an answer, or an entry runs out or is invalidated.
LEMMA RedisStep ==
    ASSUME SyncInv, [Next]_vars
    PROVE  RedisOK'
<1>1. RedisOK /\ SyncsOK /\ ReadsOK
  BY SyncInvIs
<1>2. CASE UNCHANGED redis
  BY <1>1, <1>2, RedisKeeps
<1>3. ASSUME NEW p \in Syncers, NEW m \in Markets, CacheOne(p, m)
      PROVE  RedisOK'
  <2>1. snap[p][m] \in Values
    BY <1>1, <1>3 DEF CacheOne, SyncsOK
  <2> QED
    BY <1>1, <1>3, <2>1, RedisKeeps DEF CacheOne
<1>4. ASSUME NEW r \in Readers, ReaderCaches(r)
      PROVE  RedisOK'
  <2>1. got[r] \in Values /\ wanted[r] \in Markets
    BY <1>1, <1>4 DEF ReaderCaches, ReadsOK
  <2> QED
    BY <1>1, <1>4, <2>1, RedisKeeps DEF ReaderCaches
<1>5. ASSUME NEW m \in Markets, invalidate_market(m)
      PROVE  RedisOK'
  BY <1>1, <1>5, RedisKeeps DEF invalidate_market
<1>6. CASE Tick
  BY <1>1, <1>6, TickKeepsRedis
<1>7. ASSUME NEW p \in Syncers, SyncStep(p)
      PROVE  RedisOK'
  BY <1>2, <1>3, <1>7 DEF SyncStep, Fetched, FetchFailed, Synced
<1>8. ASSUME NEW r \in Readers, ReadStep(r)
      PROVE  RedisOK'
  BY <1>2, <1>4, <1>8 DEF ReadStep, LookupEnds, LookupMisses, ApiAnswers, ApiFails
<1>9. CASE Start \/ Stop \/ Stopped \/ LoopStep \/ UNCHANGED vars
  BY <1>2, <1>9 DEF Start, Stop, Stopped, LoopStep, LoopSyncs, LoopStops, LoopCancelled, vars
<1>10. ASSUME NEW f \in Forcers, ForceSync(f)
       PROVE  RedisOK'
  BY <1>2, <1>10 DEF ForceSync
<1>11. ASSUME NEW r \in Readers, NEW m \in Markets, GetMarket(r, m)
       PROVE  RedisOK'
  BY <1>2, <1>11 DEF GetMarket
<1>12. ASSUME NEW m \in Markets, NEW v \in Values, MarketChanges(m, v)
       PROVE  RedisOK'
  BY <1>2, <1>12 DEF MarketChanges
<1> QED
  BY <1>5, <1>6, <1>7, <1>8, <1>9, <1>10, <1>11, <1>12 DEF Next

\* What the API answered to a reader is a market's metadata.
LEMMA ReadsStep ==
    ASSUME SyncInv, [Next]_vars
    PROVE  ReadsOK' /\ market' \in [Markets -> Values]
<1>1. ReadsOK /\ market \in [Markets -> Values]
  BY SyncInvIs
<1>2. CASE UNCHANGED <<reading, market>>
  BY <1>1, <1>2 DEF ReadsOK, reading
<1>3. ASSUME NEW r \in Readers, NEW m \in Markets, GetMarket(r, m)
      PROVE  ReadsOK' /\ market' = market
  BY <1>1, <1>3 DEF GetMarket, ReadsOK
<1>4. ASSUME NEW r \in Readers, LookupEnds(r) \/ LookupMisses(r) \/ ApiFails(r)
      PROVE  ReadsOK' /\ market' = market
  BY <1>1, <1>4 DEF LookupEnds, LookupMisses, ApiFails, ReadsOK
<1>5. ASSUME NEW r \in Readers, ApiAnswers(r)
      PROVE  ReadsOK' /\ market' = market
  <2>1. market[wanted[r]] \in Values
    BY <1>1 DEF ReadsOK
  <2> QED
    BY <1>1, <1>5, <2>1 DEF ApiAnswers, ReadsOK, Answers
<1>6. ASSUME NEW r \in Readers, ReaderCaches(r)
      PROVE  ReadsOK' /\ market' = market
  BY <1>1, <1>6 DEF ReaderCaches, ReadsOK, Answers
<1>7. ASSUME NEW m \in Markets, NEW v \in Values, MarketChanges(m, v)
      PROVE  ReadsOK' /\ market' \in [Markets -> Values]
  BY <1>1, <1>7 DEF MarketChanges, ReadsOK, reading
<1>8. CASE Start \/ Stop \/ Stopped \/ LoopStep \/ Tick \/ UNCHANGED vars
  BY <1>2, <1>8 DEF Start, Stop, Stopped, LoopStep, LoopSyncs, LoopStops, LoopCancelled, Tick, vars
<1>9. ASSUME NEW p \in Syncers, SyncStep(p)
      PROVE  UNCHANGED <<reading, market>>
  BY <1>9 DEF SyncStep, Fetched, FetchFailed, Synced, CacheOne
<1>10. ASSUME NEW f \in Forcers, ForceSync(f)
       PROVE  UNCHANGED <<reading, market>>
  BY <1>10 DEF ForceSync
<1>11. ASSUME NEW m \in Markets, invalidate_market(m)
       PROVE  UNCHANGED <<reading, market>>
  BY <1>11 DEF invalidate_market
<1> QED
  BY <1>1, <1>2, <1>3, <1>4, <1>5, <1>6, <1>7, <1>8, <1>9, <1>10, <1>11 DEF Next, ReadStep

\* Whose sync begins is fetching; the others' stay where they are.
LEMMA BeginsSync ==
    ASSUME SyncInv, NEW p \in Syncers, begin_sync(p)
    PROVE  SyncsOK' /\ sync'[p] = "fetching" /\ \A q \in Syncers \ {p} : sync'[q] = sync[q]
BY SyncInvIs DEF begin_sync, SyncsOK

\* What a sync is about to write is what it was answered, whole.
LEMMA SyncsStep ==
    ASSUME SyncInv, [Next]_vars
    PROVE  SyncsOK'
<1>1. SyncsOK /\ market \in [Markets -> Values]
  BY SyncInvIs
<1>2. CASE UNCHANGED syncing
  BY <1>1, <1>2 DEF SyncsOK, syncing
<1>3. ASSUME NEW p \in Syncers, Fetched(p)
      PROVE  SyncsOK'
  <2>1. market \in [Markets -> Answers]
    BY <1>1 DEF Answers
  <2> QED
    BY <1>1, <1>3, <2>1 DEF Fetched, SyncsOK
<1>4. ASSUME NEW p \in Syncers, FetchFailed(p)
      PROVE  SyncsOK'
  BY <1>1, <1>4 DEF FetchFailed, SyncsOK
<1>5. ASSUME NEW p \in Syncers, NEW m \in Markets, CacheOne(p, m)
      PROVE  SyncsOK'
  BY <1>1, <1>5 DEF CacheOne, SyncsOK
<1>6. Nothing \in [Markets -> Answers]
  BY DEF Nothing, Answers
<1>7. ASSUME NEW p \in Syncers, Synced(p)
      PROVE  SyncsOK'
  BY <1>1, <1>6, <1>7 DEF Synced, SyncsOK
<1>8. CASE LoopCancelled
  BY <1>1, <1>6, <1>8, SyncersAre DEF LoopCancelled, SyncsOK
<1>9. CASE Start
  BY <1>9, SyncersAre, BeginsSync DEF Start
<1>10. CASE LoopSyncs
  BY <1>10, SyncersAre, BeginsSync DEF LoopSyncs
<1>11. ASSUME NEW f \in Forcers, ForceSync(f)
       PROVE  SyncsOK'
  BY <1>11, SyncersAre, BeginsSync DEF ForceSync
<1>12. CASE Stop \/ Stopped \/ LoopStops \/ Tick \/ UNCHANGED vars
  BY <1>2, <1>12 DEF Stop, Stopped, LoopStops, Tick, vars
<1>13. ASSUME NEW r \in Readers, ReadStep(r)
       PROVE  UNCHANGED syncing
  BY <1>13 DEF ReadStep, LookupEnds, LookupMisses, ApiAnswers, ApiFails, ReaderCaches
<1>14. ASSUME NEW r \in Readers, NEW m \in Markets, GetMarket(r, m)
       PROVE  UNCHANGED syncing
  BY <1>14 DEF GetMarket
<1>15. ASSUME NEW m \in Markets, invalidate_market(m) \/ \E v \in Values : MarketChanges(m, v)
       PROVE  UNCHANGED syncing
  BY <1>15 DEF invalidate_market, MarketChanges
<1> QED
  BY <1>2, <1>3, <1>4, <1>5, <1>7, <1>8, <1>9, <1>10, <1>11, <1>12, <1>13, <1>14, <1>15
  DEF Next, SyncStep, LoopStep

\* A sync that ends: start() makes the loop, the loop goes on or dies.
LEMMA SyncEnds ==
    ASSUME SyncInv, NEW p \in Syncers, NEW ok \in BOOLEAN, sync[p] # "none",
           after_sync(p, ok), sync' = [sync EXCEPT ![p] = "none"],
           state' \in {"IDLE", "ERROR"}, UNCHANGED <<stop_event, stopper>>
    PROVE  LifeOK' /\ OneLoop'
<1>1. LifeOK /\ SyncsOK /\ OneLoop
  BY SyncInvIs
<1>2. sync'[p] = "none" /\ \A q \in Syncers \ {p} : sync'[q] = sync[q]
  BY <1>1 DEF SyncsOK
<1>3. 0 \in 0 .. sync_interval
  BY SyncAssumption
<1>4. CASE p = "start"
  <2>1. loop' \in {"waiting", "none"} /\ timer' \in 0 .. sync_interval /\ stopper = "idle" /\ loop = "none"
    BY <1>1, <1>3, <1>4, SyncersAre DEF after_sync, OneLoop, LifeOK
  <2>2. sync'["loop"] = "none"
    BY <1>1, <1>2, <1>4, <2>1, SyncersAre DEF OneLoop
  <2> QED
    BY <1>1, <1>2, <1>4, <2>1, <2>2 DEF LifeOK, OneLoop
<1>5. CASE p = "loop"
  <2>1. loop' \in {"waiting", "dead"} /\ timer' = 0 /\ loop = "syncing"
    BY <1>1, <1>5, SyncersAre DEF after_sync, LoopAgain, OneLoop
  <2>2. sync'["start"] = "none" /\ sync'["loop"] = "none"
    BY <1>1, <1>2, <1>5, <2>1, SyncersAre DEF OneLoop
  <2> QED
    BY <1>1, <1>3, <2>1, <2>2 DEF LifeOK, OneLoop
<1>6. CASE p \in Forcers
  <2>1. UNCHANGED <<loop, timer>> /\ sync'["start"] = sync["start"] /\ sync'["loop"] = sync["loop"]
    BY <1>2, <1>6, SyncersAre DEF after_sync
  <2> QED
    BY <1>1, <2>1 DEF LifeOK, OneLoop
<1> QED
  BY <1>4, <1>5, <1>6 DEF Syncers

\* There is one loop at most, through start(), stop() and whoever syncs.
LEMMA LoopStaysOne ==
    ASSUME SyncInv, [Next]_vars
    PROVE  LifeOK' /\ OneLoop'
<1>1. LifeOK /\ SyncsOK /\ OneLoop
  BY SyncInvIs
<1>2. CASE UNCHANGED <<lifecycle, sync>>
  BY <1>1, <1>2 DEF LifeOK, OneLoop, lifecycle
<1>3. CASE Start
  <2>1. sync'["start"] = "fetching" /\ sync'["loop"] = sync["loop"]
    BY <1>3, SyncersAre, BeginsSync DEF Start
  <2>2. /\ state = "STOPPED" /\ state' = "SYNCING" /\ stop_event' = FALSE
        /\ UNCHANGED <<loop, timer, stopper>>
    BY <1>3 DEF Start, begin_sync
  <2> QED
    BY <1>1, <2>1, <2>2 DEF LifeOK, OneLoop
<1>4. CASE LoopSyncs
  <2>1. sync'["loop"] = "fetching" /\ sync'["start"] = sync["start"]
    BY <1>4, SyncersAre, BeginsSync DEF LoopSyncs
  <2>2. /\ loop = "waiting" /\ loop' = "syncing" /\ state' = "SYNCING"
        /\ UNCHANGED <<stop_event, timer, stopper>>
    BY <1>4 DEF LoopSyncs, begin_sync
  <2> QED
    BY <1>1, <2>1, <2>2 DEF LifeOK, OneLoop
<1>5. ASSUME NEW f \in Forcers, ForceSync(f)
      PROVE  LifeOK' /\ OneLoop'
  <2>1. sync'["loop"] = sync["loop"] /\ sync'["start"] = sync["start"]
    BY <1>5, SyncersAre, BeginsSync DEF ForceSync
  <2>2. state' = "SYNCING" /\ UNCHANGED <<stop_event, loop, timer, stopper>>
    BY <1>5 DEF ForceSync, begin_sync
  <2> QED
    BY <1>1, <2>1, <2>2 DEF LifeOK, OneLoop
<1>6. CASE LoopStops
  BY <1>1, <1>6 DEF LoopStops, LifeOK, OneLoop, syncing
<1>7. CASE Stop
  BY <1>1, <1>7 DEF Stop, LifeOK, OneLoop, syncing
<1>8. CASE LoopCancelled
  <2>1. sync'["loop"] = "none" /\ sync'["start"] = sync["start"]
    BY <1>1, <1>8, SyncersAre DEF LoopCancelled, SyncsOK
  <2> QED
    BY <1>1, <1>8, <2>1 DEF LoopCancelled, LifeOK, OneLoop
<1>9. CASE Stopped
  BY <1>1, <1>9 DEF Stopped, LifeOK, OneLoop, syncing
<1>10. CASE Tick
  <2>1. timer' \in 0 .. sync_interval
    BY <1>1, <1>10, SyncAssumption DEF Tick, LifeOK
  <2> QED
    BY <1>1, <1>10, <2>1 DEF Tick, LifeOK, OneLoop, syncing
<1>11. ASSUME NEW p \in Syncers, Fetched(p)
       PROVE  LifeOK' /\ OneLoop'
  <2>1. sync'["loop"] # "none" <=> sync["loop"] # "none"
    BY <1>1, <1>11, SyncersAre DEF Fetched, SyncsOK
  <2>2. sync'["start"] # "none" <=> sync["start"] # "none"
    BY <1>1, <1>11, SyncersAre DEF Fetched, SyncsOK
  <2> QED
    BY <1>1, <1>11, <2>1, <2>2 DEF Fetched, LifeOK, OneLoop, lifecycle
<1>12. ASSUME NEW p \in Syncers, FetchFailed(p)
       PROVE  LifeOK' /\ OneLoop'
  BY <1>12, SyncEnds DEF FetchFailed
<1>13. ASSUME NEW p \in Syncers, Synced(p)
       PROVE  LifeOK' /\ OneLoop'
  BY <1>13, SyncEnds DEF Synced
<1>14. ASSUME NEW p \in Syncers, NEW m \in Markets, CacheOne(p, m)
       PROVE  UNCHANGED <<lifecycle, sync>>
  BY <1>14 DEF CacheOne
<1>15. ASSUME NEW r \in Readers, ReadStep(r)
       PROVE  UNCHANGED <<lifecycle, sync>>
  BY <1>15 DEF ReadStep, LookupEnds, LookupMisses, ApiAnswers, ApiFails, ReaderCaches, syncing
<1>16. ASSUME NEW r \in Readers, NEW m \in Markets, GetMarket(r, m)
       PROVE  UNCHANGED <<lifecycle, sync>>
  BY <1>16 DEF GetMarket, syncing
<1>17. ASSUME NEW m \in Markets, invalidate_market(m) \/ \E v \in Values : MarketChanges(m, v)
       PROVE  UNCHANGED <<lifecycle, sync>>
  BY <1>17 DEF invalidate_market, MarketChanges, syncing
<1>18. CASE UNCHANGED vars
  BY <1>2, <1>18 DEF vars, syncing
<1> QED
  BY <1>2, <1>3, <1>4, <1>5, <1>6, <1>7, <1>8, <1>9, <1>10, <1>11, <1>12, <1>13, <1>14, <1>15, <1>16, <1>17, <1>18
  DEF Next, SyncStep, LoopStep

\* Whatever readers, syncs, invalidations and expiry do to the cache, it holds
\* answers of the API with a time to live, and the service has one loop at most.
THEOREM SyncHasOneLoop == Spec => [](TypeOK /\ OneLoop)
<1>1. SyncInv /\ [Next]_vars => SyncInv'
  BY RedisStep, ReadsStep, SyncsStep, LoopStaysOne DEF SyncInv, TypeOK, AnswersHeld,
     LifeOK, SyncsOK, ReadsOK, RedisOK, Answers
<1>2. SyncInv => TypeOK /\ OneLoop
  BY DEF SyncInv
<1> QED
  BY <1>1, <1>2, SyncInitially, PTL DEF Spec

-----------------------------------------------------------------------------
(* The parts together, as MCIngestion runs them.                         *)

\* A step of IngestionNext is one of a single part, and leaves the others alone.
LEMMA IngestionStep ==
    ASSUME [IngestionNext]_ingestion_vars
    PROVE  [StreamNext]_handler_vars /\ [Next]_vars /\ [QueueNext]_queue_vars
BY DEF IngestionNext, ingestion_vars

\* The handler, the metadata cache and the queue have no variable in common: what
\* is proved of each holds beside the others, however fair they are.
THEOREM IngestionIsSafe ==
    ASSUME NEW only, Starters = {only}
    PROVE  IngestionSpec => []QuiescentIsClean /\ []OneConnection /\ []CapturedOnce /\ []OneLoop
<1>1. IngestionInit => StreamInit /\ Init /\ QueueInit
  BY DEF IngestionInit
<1>2. IngestionSpec => StreamSpec /\ Spec
  BY <1>1, IngestionStep, PTL DEF IngestionSpec, StreamSpec, Spec
<1>3. CaptureInv => CapturedOnce
  BY DEF CaptureInv, WrittenOnce, HandedIsWritten, CapturedOnce
<1>4. IngestionSpec => []CapturedOnce
  BY <1>1, <1>3, CapturesInitially, CapturesInductive, IngestionStep, PTL DEF IngestionSpec
<1> QED
  BY <1>2, <1>4, StreamEndsClean, StreamHoldsOne, SyncHasOneLoop, PTL
=============================================================================
