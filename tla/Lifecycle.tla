------------------------------ MODULE Lifecycle ------------------------------
(***************************************************************************)
(* __main__.run_pipeline with GracefulShutdown around it and the pipeline*)
(* inside it: one process from its start to its exit.                    *)
(*                                                                       *)
(* The main task goes through start(), wait() and stop(), and on its way *)
(* out of "async with shutdown" through stop() again, the registered     *)
(* cleanup callback.  Beside it run the trade stream and the metadata sync *)
(* loop.  A signal may arrive at every await.  The first one sets the    *)
(* event; the second one raises SystemExit in the event loop, and        *)
(* asyncio.run cancels every task and waits for them all; once the       *)
(* handlers are removed, SIGTERM kills the process and SIGINT is a       *)
(* KeyboardInterrupt.  The handlers are callbacks of the event loop, and *)
(* a stream task that spins on a connection the feed closed keeps the    *)
(* loop from running them, or anything else.                             *)
(*                                                                       *)
(* Abstracted: what the services do (TradeStream, MetadataSync) down to  *)
(* whether their task is alive, the trades in flight, the signal's name, *)
(* and the shutdown timeout, which GracefulShutdown stores and no program*)
(* applies.                                                              *)
(***************************************************************************)
EXTENDS Integers, FiniteSets

CONSTANT MaxSignals           \* bound: signals sent to the process

ASSUME LifecycleAssumption == MaxSignals \in Nat

VARIABLES
    main,         \* where the main task is; "blocked": in wait(), and the loop is
    calling,      \* "body" or "callback": who called stop()
    raised,       \* an exception is on its way out of "async with"
    pstate,       \* PipelineState
    tasks,        \* background tasks that are alive
    open,         \* connections that are open
    requested,    \* _shutdown_requested (and the event, set with it)
    forced,       \* asyncio.run is cancelling every task
    handlers,     \* the signal handlers are installed
    signals       \* signals sent so far

pipeline == <<pstate, tasks, open>>
shutdown == <<requested, forced, handlers, signals>>
vars == <<main, calling, raised, pipeline, shutdown>>

Tasks == {"stream", "sync"}
Connections == {"db", "redis"}

\* start():  initialize, sync (await metadata_sync.start()), abandon (its
\*           cleanup after a failure)
\* stop():   close_stream, join_stream, stop_sync, cleanup
Labels == {"initialize", "sync", "abandon", "wait", "blocked",
           "close_stream", "join_stream", "stop_sync", "cleanup",
           "exited", "killed"}

TypeOK ==
    /\ main \in Labels
    /\ calling \in {"body", "callback"}
    /\ raised \in BOOLEAN
    /\ pstate \in {"stopped", "starting", "running", "stopping", "error"}
    /\ tasks \subseteq Tasks
    /\ open \subseteq Connections
    /\ requested \in BOOLEAN /\ forced \in BOOLEAN /\ handlers \in BOOLEAN
    /\ signals \in 0 .. MaxSignals

\* Inside "async with shutdown", about to run pipeline.start().
Init ==
    /\ main = "initialize"
    /\ calling = "body"
    /\ raised = FALSE
    /\ pstate = "starting"
    /\ tasks = {}
    /\ open = {}
    /\ requested = FALSE /\ forced = FALSE /\ handlers = TRUE
    /\ signals = 0

Gone == main \in {"exited", "killed"}

-----------------------------------------------------------------------------
(* Leaving "async with": __aexit__ removes the handlers, then awaits     *)
(* pipeline.stop(), which returns at once when the pipeline is stopped.  *)

Leave(state, with_exception) ==
    /\ raised' = (raised \/ with_exception)
    /\ handlers' = FALSE
    /\ \/ /\ state = "stopped"
          /\ main' = "exited"
          /\ pstate' = "stopped"
          /\ UNCHANGED calling
       \/ /\ state # "stopped"
          /\ main' = "close_stream"
          /\ pstate' = "stopping"
          /\ calling' = "callback"

\* The callback ended, or raised: run_cleanup_callbacks logs that.
Exit ==
    /\ main' = "exited"
    /\ UNCHANGED <<calling, raised, handlers>>

Continue(label) ==
    /\ main' = label
    /\ UNCHANGED <<calling, raised, handlers>>

-----------------------------------------------------------------------------
(* start().                                                              *)

Initialized ==
    /\ main = "initialize"
    /\ open' = Connections
    /\ Continue("sync")
    /\ UNCHANGED <<pstate, tasks, requested, forced, signals>>

\* A component could not be built; the ones before it were.
InitializeFails ==
    /\ main = "initialize"
    /\ open' \in {{}, {"redis"}, Connections}
    /\ pstate' = "error"
    /\ Continue("abandon")
    /\ UNCHANGED <<tasks, requested, forced, signals>>

\* metadata_sync.start() returned: its loop runs, the stream task is created.
Started ==
    /\ main = "sync"
    /\ tasks' = Tasks
    /\ pstate' = "running"
    /\ Continue("wait")
    /\ UNCHANGED <<open, requested, forced, signals>>

\* The initial sync failed; there is no loop.
SyncFails ==
    /\ main = "sync"
    /\ pstate' = "error"
    /\ Continue("abandon")
    /\ UNCHANGED <<tasks, open, requested, forced, signals>>

\* The database is disposed of, then Redis is closed: either may raise, which
\* leaves it and what follows it as it was.
LeftOpen == {open, open \ {"db"}} \ {{}}

Abandoned ==
    /\ main = "abandon"
    /\ open' \in LeftOpen \cup {{}}
    /\ Leave(pstate, TRUE)
    /\ UNCHANGED <<tasks, requested, forced, signals>>

-----------------------------------------------------------------------------
(* wait() and stop().                                                    *)

Woken ==
    /\ main = "wait"
    /\ requested
    /\ pstate' = "stopping"
    /\ Continue("close_stream")
    /\ UNCHANGED <<tasks, open, requested, forced, signals>>

StreamClosed ==
    /\ main = "close_stream"
    /\ Continue("join_stream")
    /\ UNCHANGED <<pipeline, requested, forced, signals>>

\* Mutant: the cancelled task is not awaited.
mutant_StreamJoined ==
    /\ main = "join_stream"
    /\ Continue("stop_sync")
    /\ UNCHANGED <<pipeline, requested, forced, signals>>

\* The stream task is cancelled and awaited.
StreamJoined ==
    /\ main = "join_stream"
    /\ tasks' = tasks \ {"stream"}
    /\ Continue("stop_sync")
    /\ UNCHANGED <<pstate, open, requested, forced, signals>>

\* Mutant: the loop is told to stop and not awaited.
mutant_SyncStopped ==
    /\ main = "stop_sync"
    /\ Continue("cleanup")
    /\ UNCHANGED <<pipeline, requested, forced, signals>>

SyncStopped ==
    /\ main = "stop_sync"
    /\ tasks' = tasks \ {"sync"}
    /\ Continue("cleanup")
    /\ UNCHANGED <<pstate, open, requested, forced, signals>>

Stopped ==
    /\ main = "cleanup"
    /\ open' = {}
    /\ \/ calling = "body" /\ Leave("stopped", FALSE)
       \/ calling = "callback" /\ Exit /\ pstate' = "stopped"
    /\ UNCHANGED <<tasks, requested, forced, signals>>

CleanupRaises ==
    /\ main = "cleanup"
    /\ open' \in LeftOpen
    /\ \/ calling = "body" /\ Leave("stopping", TRUE)
       \/ calling = "callback" /\ Exit /\ UNCHANGED pstate
    /\ UNCHANGED <<tasks, requested, forced, signals>>

-----------------------------------------------------------------------------
(* Signals, and the tasks that run beside.                               *)

Signal == ~Gone /\ signals < MaxSignals /\ signals' = signals + 1

\* The loop runs the handlers at awaits: _initialize_components has none, and
\* a task that spins never comes to one.
Handled == Signal /\ handlers /\ main \notin {"initialize", "blocked"}

Unheard ==
    /\ Signal /\ main = "blocked"
    /\ UNCHANGED <<main, calling, raised, pipeline, requested, forced, handlers>>

\* Mutant: a signal is recorded only once somebody waits for it.
mutant_FirstSignal ==
    /\ Handled /\ ~requested
    /\ requested' = (main = "wait")
    /\ UNCHANGED <<main, calling, raised, pipeline, forced, handlers>>

FirstSignal ==
    /\ Handled /\ ~requested
    /\ requested' = TRUE
    /\ UNCHANGED <<main, calling, raised, pipeline, forced, handlers>>

\* sys.exit in the loop; asyncio.run cancels all tasks, the main one at its
\* await.  stop() suppresses the CancelledError where it awaits a task it has
\* cancelled itself, and goes on there; elsewhere it ends.
SecondSignal ==
    /\ Handled /\ requested /\ ~forced
    /\ forced' = TRUE
    /\ tasks' = {}
    /\ \/ /\ main \in {"sync", "abandon", "wait", "close_stream", "cleanup"}
          /\ Leave(pstate, TRUE)
       \/ /\ main = "join_stream"
          /\ Continue("stop_sync") /\ UNCHANGED pstate
       \/ /\ main = "stop_sync"
          /\ Continue("cleanup") /\ UNCHANGED pstate
    /\ UNCHANGED <<open, requested>>

\* SIGINT without a handler is a KeyboardInterrupt.  Raised inside the main task
\* it ends it (run_cleanup_callbacks catches Exception only); raised in the loop
\* it makes asyncio.run cancel all tasks, as above.
Interrupted ==
    /\ Signal /\ ~handlers /\ ~forced
    /\ forced' = TRUE
    /\ tasks' = {}
    /\ \/ Exit
       \/ main = "join_stream" /\ Continue("stop_sync")
       \/ main = "stop_sync" /\ Continue("cleanup")
    /\ UNCHANGED <<pstate, open, requested>>

\* SIGTERM without a handler kills the process; so does a signal that breaks out
\* of the loop asyncio.run waits in.
Killed ==
    /\ Signal
    /\ ~handlers \/ (forced /\ Handled)
    /\ main' = "killed"
    /\ tasks' = {} /\ open' = {}
    /\ UNCHANGED <<calling, raised, pstate, requested, forced, handlers>>

\* The feed closes the connection cleanly while _running is set: the stream task
\* calls _listen on it again and again, and never suspends (websocket.py:402).
StreamSpins ==
    /\ main = "wait" /\ "stream" \in tasks
    /\ Continue("blocked")
    /\ UNCHANGED <<pipeline, requested, forced, signals>>

\* The stream ends by itself, raising or not: nobody is told.
StreamDies ==
    /\ "stream" \in tasks /\ main # "blocked"
    /\ tasks' = tasks \ {"stream"}
    /\ UNCHANGED <<main, calling, raised, pstate, open, shutdown>>

Start == Initialized \/ InitializeFails \/ Started \/ SyncFails \/ Abandoned
Stop == StreamClosed \/ StreamJoined \/ SyncStopped \/ Stopped \/ CleanupRaises

Next ==
    \/ Start \/ Woken \/ Stop
    \/ FirstSignal \/ SecondSignal \/ Interrupted \/ Killed \/ Unheard
    \/ StreamSpins \/ StreamDies

Spec == Init /\ [][Next]_vars

\* Every await of the main task returns, while the event loop runs: the
\* connections have timeouts.
FairSpec == Spec /\ WF_vars(Start \/ Woken \/ Stop)
-----------------------------------------------------------------------------
(* Properties.                                                           *)

\* Wherever start() failed, however many signals came and whichever of the two
\* calls of stop() got through: a pipeline that says it is stopped has no task
\* left and no connection open (pipeline.py:180-198, 339-370).
StoppedIsClean == pstate = "stopped" => tasks = {} /\ open = {}

\* The services never outlive the connections they use: stop() ends the stream
\* and the sync loop before it closes the database and Redis, and a start()
\* that fails closes them while no service runs.
ServicesHaveConnections == tasks # {} => open = Connections

\* run_pipeline returns EXIT_SUCCESS only for a pipeline that was stopped.
SuccessIsStopped ==
    (main = "exited" /\ ~raised /\ ~forced) => pstate = "stopped" /\ open = {}

\* A signal is not lost, whatever start() or stop() is doing when it arrives:
\* the process ends, unless the stream blocks the event loop before wait() has
\* returned. Then it is without effect, for all that "Traps SIGTERM and SIGINT
\* to trigger graceful shutdown" promises (shutdown.py:164).
SignalEndsProcess == (signals > 0) ~> (Gone \/ main = "blocked")
=============================================================================
