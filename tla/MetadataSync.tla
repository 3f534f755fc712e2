---------------------------- MODULE MetadataSync ----------------------------
(***************************************************************************)
(* ingestor/metadata_sync.py: MarketMetadataSync, which copies the markets *)
(* of the CLOB API into Redis, and the cache-first reads of get_market().*)
(*                                                                       *)
(* Actors: start(), its background loop, force_sync() callers, stop(),   *)
(* get_market() readers, invalidate_market(), the API whose markets change *)
(* under the cache, and Redis, whose entries expire.  Every await is a   *)
(* point where the others may run: a fetch is answered (Fetched), and each *)
(* market of the answer is written later, one await at a time.           *)
(*                                                                       *)
(* Abstracted: the metadata of a market is one of Values; the statistics *)
(* and callbacks are left out.  Time is in ticks; sync_interval and      *)
(* cache_ttl keep the source's order (300 s < 600 s).                    *)
(***************************************************************************)
EXTENDS Integers, FiniteSets

CONSTANTS Markets, Values, Forcers, Readers, NoEntry,
          sync_interval, cache_ttl

ASSUME SyncAssumption ==
    /\ NoEntry \notin Values /\ Forcers \cap {"start", "loop"} = {}
    /\ sync_interval \in Nat \ {0}
    /\ cache_ttl \in Nat /\ cache_ttl > sync_interval

Syncers == {"start", "loop"} \cup Forcers

VARIABLES
    state, stop_event,  \* _state, _stop_event
    loop,       \* _sync_task: "none", "waiting" for the interval, "syncing", "dead"
    timer,      \* ticks the loop has waited
    stopper,    \* stop(): "idle", or "awaiting" the cancelled loop
    sync,       \* sync[p]: p's _sync_all_markets: "none", "fetching", "writing"
    snap, todo, \* what p fetched, and the markets it has still to write
    read,       \* read[r]: where r's get_market() waits
    wanted, got,  \* the market r asked for, and what the API answered
    market,     \* market[m]: the metadata the API would return now
    cache, ttl  \* the Redis entries and the ticks they have left

lifecycle == <<state, stop_event, loop, timer, stopper>>
syncing == <<sync, snap, todo>>
reading == <<read, wanted, got>>
redis == <<cache, ttl>>
vars == <<lifecycle, syncing, reading, market, redis>>

Nothing == [m \in Markets |-> NoEntry]

TypeOK ==
    /\ state \in {"STOPPED", "STARTING", "SYNCING", "IDLE", "STOPPING", "ERROR"}
    /\ stop_event \in BOOLEAN
    /\ loop \in {"none", "waiting", "syncing", "dead"}
    /\ timer \in 0 .. sync_interval
    /\ stopper \in {"idle", "awaiting"}
    /\ sync \in [Syncers -> {"none", "fetching", "writing"}]
    /\ snap \in [Syncers -> [Markets -> Values \cup {NoEntry}]]
    /\ todo \in [Syncers -> SUBSET Markets]
    /\ read \in [Readers -> {"none", "lookup", "fetching", "writing"}]
    /\ wanted \in [Readers -> Markets]
    /\ got \in [Readers -> Values \cup {NoEntry}]
    /\ market \in [Markets -> Values]
    /\ cache \in [Markets -> Values \cup {NoEntry}]
    /\ ttl \in [Markets -> 0 .. cache_ttl]
    /\ \A m \in Markets : (ttl[m] = 0) <=> (cache[m] = NoEntry)

Init ==
    /\ state = "STOPPED"
    /\ stop_event = FALSE
    /\ loop = "none"
    /\ timer = 0
    /\ stopper = "idle"
    /\ sync = [p \in Syncers |-> "none"]
    /\ market \in [Markets -> Values]
    /\ snap = [p \in Syncers |-> Nothing]
    /\ todo = [p \in Syncers |-> {}]
    /\ read = [r \in Readers |-> "none"]
    /\ wanted \in [Readers -> Markets]
    /\ got = [r \in Readers |-> NoEntry]
    /\ cache = [m \in Markets |-> NoEntry]
    /\ ttl = [m \in Markets |-> 0]

-----------------------------------------------------------------------------
(* Redis.                                                                *)

\* _cache_market: setex.
store(m, v) ==
    /\ cache' = [cache EXCEPT ![m] = v]
    /\ ttl' = [ttl EXCEPT ![m] = cache_ttl]

drop(m) ==
    /\ cache' = [cache EXCEPT ![m] = NoEntry]
    /\ ttl' = [ttl EXCEPT ![m] = 0]

-----------------------------------------------------------------------------
(* _sync_all_markets, called by start(), by the loop and by force_sync().*)

begin_sync(p) ==
    /\ state' = "SYNCING"
    /\ sync' = [sync EXCEPT ![p] = "fetching"]
    /\ UNCHANGED <<snap, todo>>

\* How the caller goes on once its sync returned or raised: start() creates
\* the loop or raises, the loop tests the event.
LoopAgain == /\ loop' = IF stop_event THEN "dead" ELSE "waiting"
             /\ timer' = 0

\* Mutant: a failed sync ends the loop.
mutant_after_sync(p, ok) ==
    \/ p \in {"start", "loop"} /\ ok /\ LoopAgain
    \/ p = "loop" /\ ~ok /\ loop' = "dead" /\ timer' = 0
    \/ (p \in Forcers \/ (p = "start" /\ ~ok)) /\ UNCHANGED <<loop, timer>>

after_sync(p, ok) ==
    \/ /\ p = "start" /\ ok
       /\ loop' = "waiting" /\ timer' = 0
    \/ /\ p = "loop"
       /\ LoopAgain
    \/ /\ p \in Forcers \/ (p = "start" /\ ~ok)
       /\ UNCHANGED <<loop, timer>>

\* get_markets answers, in one piece, from a thread.
Fetched(p) ==
    /\ sync[p] = "fetching"
    /\ sync' = [sync EXCEPT ![p] = "writing"]
    /\ snap' = [snap EXCEPT ![p] = market]
    /\ todo' = [todo EXCEPT ![p] = Markets]
    /\ UNCHANGED <<lifecycle, reading, market, redis>>

FetchFailed(p) ==
    /\ sync[p] = "fetching"
    /\ sync' = [sync EXCEPT ![p] = "none"]
    /\ state' = "ERROR"
    /\ after_sync(p, FALSE)
    /\ UNCHANGED <<stop_event, stopper, snap, todo, reading, market, redis>>

\* One market is cached, or fails to be: a failure is logged and skipped.
CacheOne(p, m) ==
    /\ sync[p] = "writing"
    /\ m \in todo[p]
    /\ todo' = [todo EXCEPT ![p] = @ \ {m}]
    /\ store(m, snap[p][m]) \/ UNCHANGED redis
    /\ UNCHANGED <<lifecycle, sync, snap, reading, market>>

Synced(p) ==
    /\ sync[p] = "writing"
    /\ todo[p] = {}
    /\ sync' = [sync EXCEPT ![p] = "none"]
    /\ state' = "IDLE"
    /\ after_sync(p, TRUE)
    /\ snap' = [snap EXCEPT ![p] = Nothing]
    /\ UNCHANGED <<stop_event, stopper, todo, reading, market, redis>>

-----------------------------------------------------------------------------
(* start(), the loop, stop(), force_sync().                              *)

Start ==
    /\ state = "STOPPED"
    /\ sync["start"] = "none"
    /\ stop_event' = FALSE
    /\ begin_sync("start")      \* STARTING is overwritten before the first await
    /\ UNCHANGED <<loop, timer, stopper, reading, market, redis>>

\* The interval is over and the loop was not told to stop.
LoopSyncs ==
    /\ loop = "waiting"
    /\ ~stop_event
    /\ timer = sync_interval
    /\ loop' = "syncing"
    /\ begin_sync("loop")
    /\ UNCHANGED <<stop_event, timer, stopper, reading, market, redis>>

\* Mutant: the loop looks at the state instead of the event.
mutant_LoopStops ==
    /\ loop = "waiting"
    /\ state = "STOPPING"
    /\ loop' = "dead"
    /\ UNCHANGED <<state, stop_event, timer, stopper, syncing, reading, market, redis>>

LoopStops ==
    /\ loop = "waiting"
    /\ stop_event
    /\ loop' = "dead"
    /\ UNCHANGED <<state, stop_event, timer, stopper, syncing, reading, market, redis>>

Stop ==
    /\ stopper = "idle"
    /\ state # "STOPPED"
    /\ stop_event' = TRUE
    /\ \/ /\ loop \in {"waiting", "syncing"}    \* cancel() and await the task
          /\ state' = "STOPPING"
          /\ stopper' = "awaiting"
          /\ UNCHANGED loop
       \/ /\ loop \in {"none", "dead"}
          /\ state' = "STOPPED"
          /\ loop' = "none"
          /\ UNCHANGED stopper
    /\ UNCHANGED <<timer, syncing, reading, market, redis>>

\* The loop sees the cancellation at its await; a sync it was in is cut off
\* where it stands, and the thread's answer is lost.
LoopCancelled ==
    /\ stopper = "awaiting"
    /\ loop \in {"waiting", "syncing"}
    /\ loop' = "dead"
    /\ sync' = [sync EXCEPT !["loop"] = "none"]
    /\ todo' = [todo EXCEPT !["loop"] = {}]
    /\ snap' = [snap EXCEPT !["loop"] = Nothing]
    /\ UNCHANGED <<state, stop_event, timer, stopper, reading, market, redis>>

Stopped ==
    /\ stopper = "awaiting"
    /\ loop = "dead"
    /\ stopper' = "idle"
    /\ loop' = "none"
    /\ state' = "STOPPED"
    /\ UNCHANGED <<stop_event, timer, syncing, reading, market, redis>>

\* force_sync() tests no state.
ForceSync(f) ==
    /\ sync[f] = "none"
    /\ begin_sync(f)
    /\ UNCHANGED <<stop_event, loop, timer, stopper, reading, market, redis>>

-----------------------------------------------------------------------------
(* get_market() and invalidate_market().                                 *)

GetMarket(r, m) ==
    /\ read[r] = "none"
    /\ read' = [read EXCEPT ![r] = "lookup"]
    /\ wanted' = [wanted EXCEPT ![r] = m]
    /\ UNCHANGED <<lifecycle, syncing, got, market, redis>>

\* A hit, or a Redis error (not caught here), ends the call.
LookupEnds(r) ==
    /\ read[r] = "lookup"
    /\ read' = [read EXCEPT ![r] = "none"]
    /\ UNCHANGED <<lifecycle, syncing, wanted, got, market, redis>>

LookupMisses(r) ==
    /\ read[r] = "lookup"
    /\ cache[wanted[r]] = NoEntry
    /\ read' = [read EXCEPT ![r] = "fetching"]
    /\ UNCHANGED <<lifecycle, syncing, wanted, got, market, redis>>

ApiAnswers(r) ==
    /\ read[r] = "fetching"
    /\ got' = [got EXCEPT ![r] = market[wanted[r]]]
    /\ read' = [read EXCEPT ![r] = "writing"]
    /\ UNCHANGED <<lifecycle, syncing, wanted, market, redis>>

ApiFails(r) ==
    /\ read[r] = "fetching"
    /\ read' = [read EXCEPT ![r] = "none"]
    /\ UNCHANGED <<lifecycle, syncing, wanted, got, market, redis>>

\* The answer is written whatever happened to the entry meanwhile.
ReaderCaches(r) ==
    /\ read[r] = "writing"
    /\ read' = [read EXCEPT ![r] = "none"]
    /\ got' = [got EXCEPT ![r] = NoEntry]
    /\ store(wanted[r], got[r]) \/ UNCHANGED redis
    /\ UNCHANGED <<lifecycle, syncing, wanted, market>>

invalidate_market(m) ==
    /\ cache[m] # NoEntry
    /\ drop(m)
    /\ UNCHANGED <<lifecycle, syncing, reading, market>>

-----------------------------------------------------------------------------
(* The API and time.                                                     *)

MarketChanges(m, v) ==
    /\ v # market[m]
    /\ market' = [market EXCEPT ![m] = v]
    /\ UNCHANGED <<lifecycle, syncing, reading, redis>>

\* Mutant: entries are written without an expiry (set for setex).
mutant_Tick ==
    /\ timer' = IF loop = "waiting" /\ timer < sync_interval THEN timer + 1 ELSE timer
    /\ UNCHANGED <<state, stop_event, loop, stopper, syncing, reading, market, redis>>

Tick ==
    /\ timer' = IF loop = "waiting" /\ timer < sync_interval THEN timer + 1 ELSE timer
    /\ ttl' = [m \in Markets |-> IF ttl[m] > 0 THEN ttl[m] - 1 ELSE 0]
    /\ cache' = [m \in Markets |-> IF ttl[m] <= 1 THEN NoEntry ELSE cache[m]]
    /\ UNCHANGED <<state, stop_event, loop, stopper, syncing, reading, market>>

SyncStep(p) ==
    Fetched(p) \/ FetchFailed(p) \/ Synced(p) \/ \E m \in Markets : CacheOne(p, m)

ReadStep(r) ==
    \/ LookupEnds(r) \/ LookupMisses(r)
    \/ ApiAnswers(r) \/ ApiFails(r) \/ ReaderCaches(r)

LoopStep == LoopSyncs \/ LoopStops \/ LoopCancelled

Next ==
    \/ Start \/ Stop \/ Stopped \/ LoopStep
    \/ \E f \in Forcers : ForceSync(f)
    \/ \E p \in Syncers : SyncStep(p)
    \/ \E r \in Readers, m \in Markets : GetMarket(r, m)
    \/ \E r \in Readers : ReadStep(r)
    \/ \E m \in Markets : invalidate_market(m)
    \/ \E m \in Markets, v \in Values : MarketChanges(m, v)
    \/ Tick

Spec == Init /\ [][Next]_vars

\* Every await returns (HTTP and Redis calls time out or fail), the event
\* loop runs what is ready, and time passes.
FairSpec ==
    /\ Spec
    /\ \A p \in Syncers : WF_vars(SyncStep(p))
    /\ \A r \in Readers : WF_vars(ReadStep(r))
    /\ WF_vars(LoopStep) /\ WF_vars(Stopped)
    /\ WF_vars(Tick)

-----------------------------------------------------------------------------
(* Properties.                                                           *)

\* Once the markets stop changing, the cache ends up agreeing with them for
\* good: a stale answer written over a newer entry, by a reader or by a slow
\* sync, is corrected or expires even when every sync fails.
CacheConverges ==
    \A m \in Markets, v \in Values :
        (<>[](market[m] = v)) => <>[](cache[m] \in {v, NoEntry})

\* A loop that runs keeps syncing whatever its syncs run into: ERROR is not
\* the end of it.
LoopKeepsSyncing ==
    /\ (loop = "waiting" /\ ~stop_event) ~> (loop = "syncing" \/ stop_event)
    /\ (loop = "syncing" /\ ~stop_event) ~> (loop = "waiting" \/ stop_event)

\* With one caller of start(), the handle of the loop is never overwritten: while
\* start() is in its sync there is no loop and no stop() that awaits one. The loop
\* is in a sync exactly while it says so, who is STOPPED has no loop, and a stop()
\* that awaits the loop has told it.
OneLoop ==
    /\ sync["start"] # "none" => loop = "none" /\ stopper = "idle"
    /\ state = "STOPPED" => loop = "none" /\ stopper = "idle"
    /\ (loop = "syncing") <=> (sync["loop"] # "none")
    /\ stopper = "awaiting" => loop # "none" /\ stop_event

\* stop() leaves no loop running, wherever in start(), in a sync or in
\* another caller's force_sync() it came.
StopEndsLoop ==
    stop_event ~> (loop \in {"none", "dead"} \/ ~stop_event)
=============================================================================
