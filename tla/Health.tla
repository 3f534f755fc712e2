------------------------------- MODULE Health -------------------------------
(***************************************************************************)
(* HealthMonitor: the state of each stream, the report over all of them, *)
(* the loop that tells a callback of a change, and the HTTP probes that  *)
(* ask for the same report.                                              *)
(*                                                                       *)
(* Coroutines interleave where the code awaits: in the callback, in the  *)
(* loop's sleep, and in stop() for the loop it cancels. A start() that   *)
(* comes while stop() awaits makes a second loop.                        *)
(*                                                                       *)
(* Abstracted: counters and rates, which nothing reads back; times are   *)
(* ages in ticks, which stop where no comparison tells them apart.       *)
(***************************************************************************)
EXTENDS Integers, FiniteSets

CONSTANTS Streams, Loops, NoLoop,
          Callers,              \* whoever calls start() and stop()
          stale_threshold       \* in ticks

ASSUME HealthAssumption == NoLoop \notin Loops /\ stale_threshold \in Nat

VARIABLES
    stream,          \* _streams
    running,         \* _running
    health_task,     \* _health_task
    check_loop,      \* where each _health_check_loop is
    cancelled,       \* loops that task.cancel() was called on
    last_status,     \* _last_health_status
    stopping         \* the loop each caller's stop() awaits

monitor == <<running, health_task, check_loop, cancelled, last_status>>
health_vars == <<stream, monitor, stopping>>

Never == -1
Ages == 0 .. stale_threshold + 1
Unregistered == [status |-> "unregistered", event_age |-> Never, connected_age |-> Never]

HealthTypeOK ==
    /\ stream \in [Streams -> [status : {"unregistered", "active", "stale", "disconnected"},
                               event_age : Ages \cup {Never},
                               connected_age : Ages \cup {Never}]]
    /\ running \in BOOLEAN
    /\ health_task \in Loops \cup {NoLoop}
    /\ check_loop \in [Loops -> {"none", "check", "notify", "sleep"}]
    /\ cancelled \subseteq Loops
    /\ last_status \in {"none", "healthy", "degraded", "unhealthy"}
    /\ stopping \in [Callers -> Loops \cup {NoLoop}]

HealthInit ==
    /\ stream = [s \in Streams |-> Unregistered]
    /\ running = FALSE
    /\ health_task = NoLoop
    /\ check_loop = [l \in Loops |-> "none"]
    /\ cancelled = {}
    /\ last_status = "none"
    /\ stopping = [c \in Callers |-> NoLoop]

-----------------------------------------------------------------------------
set_stream_connected(s) ==
    /\ stream' = [stream EXCEPT ![s].status = "active", ![s].connected_age = 0]
    /\ UNCHANGED <<monitor, stopping>>

set_stream_disconnected(s) ==
    /\ stream' = [stream EXCEPT ![s].status = "disconnected", ![s].connected_age = Never]
    /\ UNCHANGED <<monitor, stopping>>

record_event(s) ==
    /\ stream' = [stream EXCEPT ![s].status = "active", ![s].event_age = 0]
    /\ UNCHANGED <<monitor, stopping>>

Older(age) == IF age \in {Never, stale_threshold + 1} THEN age ELSE age + 1

\* A tick of time.time().
HealthTick ==
    /\ stream' = [s \in Streams |-> [stream[s] EXCEPT !.event_age = Older(@),
                                                      !.connected_age = Older(@)]]
    /\ stream' # stream
    /\ UNCHANGED <<monitor, stopping>>

\* Mutant: a stream without events is not looked at.
mutant_staleness(x) ==
    IF x.status \in {"unregistered", "disconnected"} \/ x.event_age = Never THEN x.status
    ELSE IF x.event_age > stale_threshold THEN "stale" ELSE "active"

\* _check_stream_staleness for one stream.
staleness(x) ==
    IF x.status \in {"unregistered", "disconnected"} THEN x.status
    ELSE IF x.event_age # Never
         THEN IF x.event_age > stale_threshold THEN "stale" ELSE "active"
    ELSE IF x.connected_age > stale_threshold THEN "stale" ELSE x.status

Checked == [s \in Streams |-> [stream[s] EXCEPT !.status = staleness(stream[s])]]

\* _determine_overall_status of the streams that are registered.
Overall(ss) ==
    LET statuses == {ss[s].status : s \in Streams} \ {"unregistered"}
    IN IF statuses = {} THEN "healthy"
       ELSE IF statuses = {"disconnected"} THEN "unhealthy"
       ELSE IF statuses = {"active"} THEN "healthy" ELSE "degraded"

\* What get_health_report says at this moment.
Report == Overall(Checked)

\* GET /health, /metrics or /ready: the server runs with the loop or without.
Probe ==
    /\ stream' = Checked
    /\ UNCHANGED <<monitor, stopping>>

-----------------------------------------------------------------------------
Goto(l, label) == check_loop' = [check_loop EXCEPT ![l] = label]

\* One round of _health_check_loop up to its first await.
Check(l) ==
    /\ check_loop[l] = "check" /\ l \notin cancelled
    /\ IF running
       THEN /\ stream' = Checked
            /\ last_status' = Report
            /\ Goto(l, IF Report # last_status THEN "notify" ELSE "sleep")
       ELSE Goto(l, "none") /\ UNCHANGED <<stream, last_status>>
    /\ UNCHANGED <<running, health_task, cancelled, stopping>>

\* Mutant: a callback that raises ends the loop.
mutant_Resume(l) ==
    /\ check_loop[l] \in {"notify", "sleep"} /\ l \notin cancelled
    /\ \/ Goto(l, IF check_loop[l] = "notify" THEN "sleep" ELSE "check")
       \/ check_loop[l] = "notify" /\ Goto(l, "none")
    /\ UNCHANGED <<stream, running, health_task, cancelled, last_status, stopping>>

\* The callback returns or raises, the sleep is over.
Resume(l) ==
    /\ check_loop[l] \in {"notify", "sleep"} /\ l \notin cancelled
    /\ Goto(l, IF check_loop[l] = "notify" THEN "sleep" ELSE "check")
    /\ UNCHANGED <<stream, running, health_task, cancelled, last_status, stopping>>

\* CancelledError at the await the loop is in, or before its first step.
CheckCancelled(l) ==
    /\ l \in cancelled
    /\ Goto(l, "none")
    /\ cancelled' = cancelled \ {l}
    /\ UNCHANGED <<stream, running, health_task, last_status, stopping>>

\* The bound: no more loops than Loops.
start ==
    /\ ~running
    /\ running' = TRUE
    /\ \E l \in Loops :
        /\ check_loop[l] = "none" /\ \A c \in Callers : stopping[c] # l
        /\ health_task' = l
        /\ Goto(l, "check")
    /\ UNCHANGED <<stream, cancelled, last_status, stopping>>

stop(c) ==
    /\ running /\ stopping[c] = NoLoop
    /\ running' = FALSE
    /\ cancelled' = cancelled \cup ({health_task} \ {NoLoop})
    /\ stopping' = [stopping EXCEPT ![c] = health_task]
    /\ UNCHANGED <<stream, health_task, check_loop, last_status>>

\* The loop that was awaited is over; whichever is in _health_task now goes.
StopAwaited(c) ==
    /\ stopping[c] \in Loops /\ check_loop[stopping[c]] = "none"
    /\ health_task' = NoLoop
    /\ stopping' = [stopping EXCEPT ![c] = NoLoop]
    /\ UNCHANGED <<stream, running, check_loop, cancelled, last_status>>

-----------------------------------------------------------------------------
CheckStep(l) == Check(l) \/ Resume(l) \/ CheckCancelled(l)

HealthNext ==
    \/ \E s \in Streams : set_stream_connected(s) \/ set_stream_disconnected(s) \/ record_event(s)
    \/ HealthTick \/ Probe
    \/ \E l \in Loops : CheckStep(l)
    \/ start
    \/ \E c \in Callers : stop(c) \/ StopAwaited(c)

\* The event loop runs every coroutine that can go on; nothing says that
\* anybody connects, trades, starts or stops.
HealthFairness ==
    /\ \A l \in Loops : WF_health_vars(CheckStep(l))
    /\ \A c \in Callers : WF_health_vars(StopAwaited(c))

HealthSpec == HealthInit /\ [][HealthNext]_health_vars /\ HealthFairness

-----------------------------------------------------------------------------
\* Nothing has been heard of a stream for longer than the threshold.
Silent(x) == /\ x.event_age = Never \/ x.event_age > stale_threshold
             /\ x.connected_age = Never \/ x.connected_age > stale_threshold

(* "Healthy" is never said of a monitor with a silent stream, whatever   *)
(* order connections, events, probes and checks came in.                 *)
HealthyIsNotSilent ==
    Report = "healthy" => \A s \in Streams : stream[s] = Unregistered \/ ~Silent(stream[s])

(* The callback is told of the status there is: unless the status changes*)
(* or the monitor is stopped, the loop comes round to the one it reports.*)
ChangeIsNotified ==
    \A status \in {"healthy", "degraded", "unhealthy"} :
        [](<>[](running /\ Report = status) => <>(last_status = status))
=============================================================================
