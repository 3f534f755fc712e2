----------------------------- MODULE TradeQueue -----------------------------
(***************************************************************************)
(* EventPublisher over a Redis stream, and its two kinds of consumers:   *)
(* capture-trades.py, which never acknowledges, takes a new name at every*)
(* start and gives up when its group is there already, and the worker of *)
(* the class's docstring, which keeps its name, acknowledges what it has *)
(* processed, and after a crash asks for what was left pending.          *)
(*                                                                       *)
(* Redis is modelled from how the code uses it. Entry n is the nth added;*)
(* max_len trims from the oldest end, when Redis sees fit. A group has the *)
(* last entry it handed out, and each consumer those it has not          *)
(* acknowledged, also when they have been trimmed since. Groups do not   *)
(* see each other: a behaviour has the captures or the worker.           *)
(***************************************************************************)
EXTENDS Naturals, FiniteSets

CONSTANTS
    MaxEntries,      \* bound: entries added
    max_len,
    Unreadable,      \* entries that do not deserialize
    count,           \* entries a read returns at most
    Captures,        \* runs of capture-trades.py, each under its own name
    worker

ASSUME TradeQueueAssumption ==
    /\ {MaxEntries, max_len} \subseteq Nat /\ count \in Nat \ {0}
    /\ Unreadable \subseteq 1 .. MaxEntries
    /\ worker \notin Captures

Consumers == Captures \cup {worker}
Groups == {"trade-capture", "worker"}
Entries == 1 .. MaxEntries

VARIABLES
    added, trimmed,  \* the stream is trimmed + 1 .. added
    last,            \* last entry each group handed out
    exists,          \* groups there are
    pending,         \* entries each consumer has not acknowledged
    proc,            \* each consumer's process
    hand,            \* entries it has read and not yet dealt with
    recovering,      \* the worker still asks for pending entries
    \* history
    captured,        \* how often each entry was written to a capture file
    processed        \* entries the worker has processed

stream_vars == <<added, trimmed>>
group_vars == <<last, exists, pending>>
queue_vars == <<stream_vars, group_vars, proc, hand, recovering, captured, processed>>

QueueTypeOK ==
    /\ added \in 0 .. MaxEntries /\ trimmed \in 0 .. added
    /\ last \in [Groups -> 0 .. added] /\ exists \subseteq Groups
    /\ {pending, hand} \subseteq [Consumers -> SUBSET Entries]
    /\ proc \in [Consumers -> {"unused", "new", "up", "stopping",
                               "ended", "down", "refused"}]
    /\ recovering \in BOOLEAN
    /\ captured \in [Entries -> Nat] /\ processed \subseteq Entries

QueueInit ==
    /\ added = 0 /\ trimmed = 0
    /\ last = [g \in Groups |-> 0] /\ exists = {}
    /\ pending = [c \in Consumers |-> {}]
    /\ \E used \in {Captures, {worker}} :
        proc = [c \in Consumers |-> IF c \in used THEN "new" ELSE "unused"]
    /\ hand = [c \in Consumers |-> {}]
    /\ recovering = FALSE
    /\ captured = [n \in Entries |-> 0] /\ processed = {}

-----------------------------------------------------------------------------
Group(c) == IF c = worker THEN "worker" ELSE "trade-capture"
In(S) == {n \in S : n > trimmed}
Readable(S) == In(S) \ Unreadable
Dead(S) == S \ Readable(S)
First(S) == {n \in S : Cardinality({m \in S : m < n}) < count}

\* XADD, which may trim down to max_len.
publish(k) ==
    /\ added + k <= MaxEntries
    /\ added' = added + k
    /\ \E t \in trimmed .. added' :
        /\ t > trimmed => added' - t >= max_len
        /\ trimmed' = t
    /\ UNCHANGED <<group_vars, proc, hand, recovering, captured, processed>>

trim_stream ==
    /\ added - trimmed > max_len
    /\ trimmed' \in trimmed + 1 .. added - max_len
    /\ UNCHANGED <<added, group_vars, proc, hand, recovering, captured, processed>>

\* XGROUP CREATE: a group that is new begins at the end of the stream ("$")
\* for captures and at its beginning ("0") for the worker.
create_consumer_group(c) ==
    /\ Group(c) \notin exists
    /\ exists' = exists \cup {Group(c)}
    /\ last' = [last EXCEPT ![Group(c)] = IF c = worker THEN 0 ELSE added]

ensure_consumer_group(c) ==
    create_consumer_group(c) \/ (Group(c) \in exists /\ UNCHANGED <<exists, last>>)

\* What create_consumer_group raises for a group that exists has a message of
\* its own, without the BUSYGROUP run() looks for: it returns 2.
CaptureStarts(c) ==
    /\ c \in Captures /\ proc[c] = "new"
    /\ \/ create_consumer_group(c) /\ proc' = [proc EXCEPT ![c] = "up"]
       \/ /\ Group(c) \in exists
          /\ proc' = [proc EXCEPT ![c] = "refused"]
          /\ UNCHANGED <<exists, last>>
    /\ UNCHANGED <<stream_vars, pending, hand, recovering, captured, processed>>

WorkerStarts ==
    /\ proc[worker] \in {"new", "down"}
    /\ ensure_consumer_group(worker)
    /\ proc' = [proc EXCEPT ![worker] = "up"]
    /\ recovering' = TRUE
    /\ UNCHANGED <<stream_vars, pending, hand, captured, processed>>

\* Mutant: a capture asks for pending entries ("0") before new ones.
mutant_read_events(c) ==
    LET new == First(In(last[Group(c)] + 1 .. added))
    IN /\ new # {} \/ pending[c] # {}
       /\ last' = [last EXCEPT ![Group(c)] = CHOOSE n \in new \cup {@} : \A m \in new \cup {@} : n >= m]
       /\ pending' = [pending EXCEPT ![c] = @ \cup new]
       /\ hand' = [hand EXCEPT ![c] = Readable(pending[c] \cup new)]

\* Entries (">") nobody of the group got before; unreadable ones are dropped
\* here, and stay pending.
read_events(c) ==
    LET new == First(In(last[Group(c)] + 1 .. added))
    IN /\ \E n \in new : /\ \A m \in new : m <= n
                         /\ last' = [last EXCEPT ![Group(c)] = n]
       /\ pending' = [pending EXCEPT ![c] = @ \cup new]
       /\ hand' = [hand EXCEPT ![c] = Readable(new)]

\* Mutant: a read takes one entry too few.
mutant_read_pending(c) ==
    LET oldest == {n \in pending[c] : Cardinality({m \in pending[c] : m < n}) < count - 1}
    IN Readable(oldest)

\* The oldest of its pending entries, of which those that were trimmed or do
\* not deserialize are dropped.
read_pending(c) == Readable(First(pending[c]))

CaptureReads(c) ==
    /\ c \in Captures /\ proc[c] = "up" /\ hand[c] = {}
    /\ read_events(c)
    /\ UNCHANGED <<stream_vars, exists, proc, recovering, captured, processed>>

\* DailyRotator.write of the next entry of the batch.
CaptureWrites(c) ==
    /\ c \in Captures /\ proc[c] \in {"up", "stopping"}
    /\ \E n \in hand[c] :
        /\ \A m \in hand[c] : n <= m
        /\ captured' = [captured EXCEPT ![n] = @ + 1]
        /\ hand' = [hand EXCEPT ![c] = @ \ {n}]
    /\ UNCHANGED <<stream_vars, group_vars, proc, recovering, processed>>

\* SIGTERM sets stop_event, which the loop looks at between two reads.
StopRequested(c) ==
    /\ c \in Captures /\ proc[c] = "up"
    /\ proc' = [proc EXCEPT ![c] = "stopping"]
    /\ UNCHANGED <<stream_vars, group_vars, hand, recovering, captured, processed>>

CaptureEnds(c) ==
    /\ proc[c] = "stopping" /\ hand[c] = {}
    /\ proc' = [proc EXCEPT ![c] = "ended"]
    /\ UNCHANGED <<stream_vars, group_vars, hand, recovering, captured, processed>>

\* A worker that finds nothing pending that it can read goes on to new ones.
WorkerReads ==
    /\ proc[worker] = "up" /\ hand[worker] = {}
    /\ IF recovering
       THEN /\ hand' = [hand EXCEPT ![worker] = read_pending(worker)]
            /\ recovering' = (hand'[worker] # {})
            /\ UNCHANGED <<last, pending>>
       ELSE read_events(worker) /\ UNCHANGED recovering
    /\ UNCHANGED <<stream_vars, exists, proc, captured, processed>>

\* It processes the next entry and acknowledges it.
WorkerProcesses ==
    /\ proc[worker] = "up"
    /\ \E n \in hand[worker] :
        /\ \A m \in hand[worker] : n <= m
        /\ processed' = processed \cup {n}
        /\ pending' = [pending EXCEPT ![worker] = @ \ {n}]
        /\ hand' = [hand EXCEPT ![worker] = @ \ {n}]
    /\ UNCHANGED <<stream_vars, last, exists, proc, recovering, captured>>

\* The process dies with what it has in hand.
ConsumerCrashes(c) ==
    /\ proc[c] \in {"up", "stopping"}
    /\ proc' = [proc EXCEPT ![c] = "down"]
    /\ hand' = [hand EXCEPT ![c] = {}]
    /\ UNCHANGED <<stream_vars, group_vars, recovering, captured, processed>>

WorkerStep == WorkerReads \/ WorkerProcesses

QueueNext ==
    \/ \E k \in 1 .. 2 : publish(k)
    \/ trim_stream
    \/ \E c \in Captures : \/ CaptureStarts(c) \/ CaptureReads(c) \/ CaptureWrites(c)
                           \/ StopRequested(c) \/ CaptureEnds(c)
    \/ \E c \in Consumers : ConsumerCrashes(c)
    \/ WorkerStarts \/ WorkerStep

\* Whoever runs goes on; a worker that dies is started again, and gets from
\* its start to its end now and then.
QueueFairness ==
    /\ \A c \in Captures : WF_queue_vars(CaptureWrites(c))
    /\ WF_queue_vars(WorkerStarts) /\ SF_queue_vars(WorkerReads)
    /\ SF_queue_vars(WorkerProcesses)

QueueSpec == QueueInit /\ [][QueueNext]_queue_vars /\ QueueFairness

-----------------------------------------------------------------------------
(* No trade is twice in the capture files, and a capture that ends when it *)
(* is told to has written all it was handed: it is the only one that ever*)
(* gets those entries, and a stop may come in the middle of a batch.     *)
CapturedOnce ==
    /\ \A n \in Entries : captured[n] <= 1
    /\ \A c \in Captures : proc[c] = "ended" =>
            \A n \in pending[c] \ Unreadable : captured[n] = 1

\* A batch of older entries that are gone or unreadable, and never acknowledged.
Hidden(n) == Cardinality(Dead({m \in pending[worker] : m < n})) >= count

(* Entries a worker was killed with are processed in the end: no number  *)
(* of crashes lets one that is still in the stream fall through, but for *)
(* those that a full batch of dead ones hides from every read. These are *)
(* lost, although "entries that were delivered but not acknowledged will *)
(* be re-read" (publisher.py:338-339).                                   *)
PendingIsRecovered ==
    \A n \in Entries \ Unreadable :
        n \in pending[worker] ~> n \in processed \/ n <= trimmed \/ []Hidden(n)

(* "group-exists is fine" (capture-trades.py:99): a capture that starts  *)
(* while its group is there goes on, as a restart does.                  *)
ExistingGroupIsFine ==
    [][\A c \in Captures : proc[c] = "new" => proc'[c] \in {"new", "up"}]_queue_vars
=============================================================================
