---------------------------- MODULE MCIngestion ----------------------------
(***************************************************************************)
(* The parts of the ingestion layer that keep their state to themselves: *)
(* the handler of the trade stream, the metadata sync, and the queue with*)
(* its consumers. None reads a variable of another, so every behaviour of*)
(* them together is one of each of them by itself; a behaviour here is one *)
(* of the one Init picks.                                                *)
(***************************************************************************)
EXTENDS MCTradeStream, MCMetadataSync, TradeQueue

VARIABLE part

ingestion_vars == <<part, handler_vars, vars, queue_vars>>

IngestionInit ==
    /\ part \in {"stream", "sync", "queue"}
    /\ StreamInit /\ Init /\ QueueInit
    /\ part # "stream" => feedUp
    /\ part # "queue" => proc[worker] = "new"
    /\ part # "sync" => market = [m \in Markets |-> CHOOSE v \in Values : TRUE]

IngestionNext ==
    /\ \/ part = "stream" /\ StreamNext /\ UNCHANGED <<vars, queue_vars>>
       \/ part = "sync" /\ Next /\ UNCHANGED <<handler_vars, queue_vars>>
       \/ part = "queue" /\ QueueNext /\ UNCHANGED <<handler_vars, vars>>
    /\ UNCHANGED part

\* Each part is as fair as its own specification says, while it is the one.
StreamRuns ==
    /\ \A t \in Starters : /\ WF_handler_vars(part = "stream" /\ StartStep(t))
                            /\ SF_handler_vars(part = "stream" /\ Subscribed(t))
    /\ WF_handler_vars(part = "stream" /\ StopClosed)

SyncFairness ==
    /\ \A p \in Syncers : WF_vars(part = "sync" /\ SyncStep(p))
    /\ \A r \in Readers : WF_vars(part = "sync" /\ ReadStep(r))
    /\ WF_vars(part = "sync" /\ LoopStep) /\ WF_vars(part = "sync" /\ Stopped)
    /\ WF_vars(part = "sync" /\ Tick)

QueueRuns ==
    /\ \A c \in Captures : WF_queue_vars(part = "queue" /\ CaptureWrites(c))
    /\ WF_queue_vars(part = "queue" /\ WorkerStarts)
    /\ SF_queue_vars(part = "queue" /\ WorkerReads)
    /\ SF_queue_vars(part = "queue" /\ WorkerProcesses)

IngestionSpec == /\ IngestionInit /\ [][IngestionNext]_ingestion_vars
                 /\ StreamRuns /\ SyncFairness /\ QueueRuns
=============================================================================
