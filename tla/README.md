# TLA+ models of polymarket-insider-tracker

This directory holds TLA+ specifications of the programs of this repository,
TLC configurations that check them on small instances, and TLAPS proofs of what
matters most about nineteen of them. `PROJECT.json` maps every definition to the
source lines it models, and lists the runs, the mutants, the findings, the
hazards and the theorems. Paths below are relative to
`src/polymarket_insider_tracker/` unless they start with `scripts/` or `docs/`.

## The system

The long-running program (`python -m polymarket_insider_tracker`) takes trades
from a stream (websocket). Two detectors look at each (a fresh wallet, using the
chain; a size anomaly, using market metadata cached in Redis), a scorer weighs
what they found and asks Redis whether the wallet was alerted in this market
within the last hour, and a dispatcher sends the alert to every channel. A fresh
wallet is also written to PostgreSQL with the transfers that funded it.
Everything is asyncio in one process; several processes may share one Redis and
one database. Beside it there are capture and publishing tools, a health
monitor, a sniper detector, a daily newsletter with its own signals, its
subscribers and its deliveries, funding clusters, and a backtest.

| component | state it keeps | operations | hard behaviour | module |
|---|---|---|---|---|
| `alerter/dispatcher.py` | a circuit breaker per channel | dispatch, reset_circuit | test, await, record: other callers in between; partial failure | `AlertDispatcher` |
| `ingestor/websocket.py` | `_state`, `_running`, `_ws` | start, stop | stop during a reconnect, two clean-ups, lost and closed connections | `TradeStream` |
| `ingestor/metadata_sync.py` | `_state`, the loop's task, `_stop_event`; Redis entries | start, stop, force_sync, get_market, invalidate_market | stale answers written late, stop during start, failed syncs | `MetadataSync` |
| `ingestor/publisher.py`, `scripts/capture-trades.py` | a Redis stream, its groups and pending entries | publish, trim, read, ack, capture | crashes between reading and writing, trimming, unreadable entries | `TradeQueue` |
| `ingestor/data_api.py`, `scripts/direct-capture.py` | the hashes seen last | start, poll, stop | a bounded memory against lagging, overlapping answers | `Poller` |
| `ingestor/clob_client.py` | the time of the last call | get_markets, other calls, from threads | a retried method that reads pages | `ClobClient` |
| `ingestor/health.py` | stream status and events, check loops | connect, event, disconnect, probe, start, stop | staleness against reconnection, checks in several places | `Health` |
| `detector/scorer.py`, detectors | dedup keys in Redis | analyze, assess | SET NX before the alert is sent; thresholds set apart from each other | `Detection`, `AlertFlow` |
| `pipeline.py` (trades) | PipelineStats | _on_trade | crash or cancellation at any await, lost replies | `AlertFlow` |
| `detector/sniper.py` | entries, clusters, signaled wallets | record_entry, run_clustering, clear_entries | cluster identities over runs | `Sniper` |
| `alerter/history.py`, `scripts/compute-daily-rollup.py` | records, indexes and keys in Redis; rollup rows | should_send, record_sent, feedback, cleanup, rollup | keys and indexes that expire each on its own | `AlertHistory` |
| `profiler/chain.py`, `analyzer.py` | rate limiter, health of two nodes, two caches | get, analyze | retry, fail-over, a cache filled from a cache | `ChainClient` |
| `storage/repos.py`, `database.py`, `profiler/funding.py` | tables, sessions | upsert, insert_many, trace, get_async_session | duplicates, lock waits, deadlocks, aborted transactions | `WalletStore` |
| subscribers in `storage/repos.py`, `web/`, `scripts/bounce-drain.py` | subscriber status, suppression list, bounces | sign up, opt in, unsubscribe, erase, drain | read in one step, write in another; a drain that is undone | `Subscribers` |
| `scripts/newsletter_common.py` | mails sent, delivery ledger | deliver, write ledger | a batch that fails half way, runs repeated | `Delivery` |
| `profiler/funding.py`, `funding_graph.py`, `entities.py`, `scripts/compute-funding-clusters.py` | transfers, relationship rows | trace, cluster, query | cycles, equal times, transfers stored late | `FundingGraph` |
| `detector/signals/`, `composer.py` | none | compute, compose | bands, gates and windows over unordered trades | `DailySignals`, `DailyReport` |
| `scripts/newsletter-daily.py` (fetch) | none | paged fetch | pages that shift while they are read | `DailyFetch` |
| `backtest/` | resolver caches, rows | replay, score | resolvers that fail | `Backtest` |
| `shutdown.py`, `__main__.py`, `pipeline.py` (start, stop) | PipelineState, signal flags, tasks, connections | start, stop, signal handlers, clean-up callbacks | signals at any await, failing start, failing clean-up | `Lifecycle` |

What makes each component correct is stated in its module, before or under
"Properties", and in the table of runs below.

## Modules

State and actions keep the source's names where they can. An action is what a
coroutine, thread, process or transaction does from one await (request, commit)
to the next, so interleavings are those of the event loop or the database. A
`mutant_...` operator stands before the definition it replaces: it is a
plausible mistake in the code, and the run's property is violated when it takes
the definition's place.

| module | state and actions | abstracted |
|---|---|---|
| `AlertDispatcher` | `task[d][c]` is caller d's `_send_to_channel` for channel c; `Attempt`/`Skip` are its part before the await, `SendOk`/`SendFailed` the part after it | the alert; time is the age of the last failure, up to `recovery_timeout` |
| `CircuitBreaker` | abstract: the three-state breaker with a budget of probes; `AlertDispatcher` implements it for one caller | |
| `TradeStream` | `pc[t]` is the await a `start()` task is in, `stopping` the one of `stop()` | contents of frames, statistics |
| `MetadataSync` | `sync[p]`, `snap[p]`, `todo[p]` are a running `_sync_all_markets`, `read[r]` a running `get_market` | contents of metadata, callbacks |
| `TradeQueue` | `pending[c]` is what Redis keeps for a consumer, `proc[c]` and `hand[c]` where its process is and what it has read; a capture writes and never acknowledges, the worker, which only the docstrings of the class and of `read_pending` describe, processes and acknowledges | contents of trades, file rotation |
| `Poller` | `seen` is the memory in its order, `poll[l]` a running `start()`; `Fetch` gets an answer, `EmitRow` delivers the next of its rows | the row, down to its hash and whether it parses |
| `ClobClient` | `thread[t]` is the method a thread is in, `since` the limiter's time | answers, down to markets and closed or not |
| `Health` | `stream[s]` with the ages of its last events, `check_loop[l]` where a check loop is | rates and counters |
| `Detection` | the conditions and arithmetic of both detectors and of `calculate_weighted_score`, as pure operators in exact integer units | rounding of floats |
| `AlertFlow` | `Pipeline._on_trade` and `RiskScorer.assess` in several processes on one Redis, over `Detection` | the dispatcher, down to its outcomes; persistence, which cannot fail a trade |
| `Sniper` | `wallet_entries`, `known_clusters`, `signaled_wallets`; a run of DBSCAN is any grouping, in any order | DBSCAN's distances |
| `AlertHistory` | every key and index with its expiry; should_send and record_sent, the two halves of feedback and of a rollup, are actions of their own | score, channels, identifiers |
| `ChainClient` | `call[c].at` is the await of a call: cache, limiter, attempt, back-off | one wallet, whose count is its age |
| `WalletStore` | the transaction of `_persist_wallet_and_funding` | contents of rows |
| `AtomicStore` | abstract: a profile and its transfers appear at once or not at all, the transfers are the first hops of the wallet's chain without a gap, and none is recorded twice; `WalletStore` implements it | |
| `Subscribers` | rows with ids, `request[r]` that has read and not written, `drain[d]` with the rows it holds locked | wording, tokens but the current one |
| `Delivery` | `delivery` is the call under way, with the rows handed to himalaya or to be recorded; `ledger` and `relayed` count per address | templates |
| `FundingGraph` | `Hop` for each step of `trace`; `stored` and `edge` are the tables; `RunClusters` is a run of the script | amounts, but for the confidence of a chain |
| `DailySignals`, `DailyReport` | `Observe` adds a trade, in the order of the feed; `compose` keeps the hits of the signals that do not raise; promotion, watched wallets and headline are operators on them | what rows print |
| `DailyFetch` | `FetchPage` while trades are made, then `BuildContext`: metadata and the filter | the trade, down to its time and hash |
| `Backtest` | `ReplayTrade` with what resolvers were told; the score is an operator | reading and writing of files, labels and their counts |
| `Lifecycle` | `run_pipeline`, `GracefulShutdown` and the pipeline's start and stop: one process | the services, down to whether their task is alive, or spins and blocks the event loop |
| `AlertDispatcherProofs` | theorems about `AlertDispatcher` | |
| `IngestionProofs` | theorems about `TradeStream`, `MetadataSync` and the captures of `TradeQueue` | |
| `DetectionProofs` | theorems about `AlertFlow`, `Poller`, `AlertHistory`, `ClobClient` and `DailyFetch` | |
| `StorageProofs` | theorems about `Subscribers`, `Delivery` and `WalletStore` | |
| `ServicesProofs` | theorems about `Lifecycle`, `Health` and `ChainClient` | |
| `DailyProofs` | theorems about `DailySignals` and `DailyReport` | |
| `AnalysisProofs` | theorems about `FundingGraph`, `Sniper` and `Backtest` | |
| `CompositionProofs` | theorems about `MCDetection`; those about the other compositions are with their parts | |
| `MCAlertDispatcher`, `MCAlertFlow`, `MCTradeStream`, `MCMetadataSync`, `MCWalletStore`, `MCLifecycle` | constants of one module for TLC | |
| `MCIngestion`, `MCDetection`, `MCStorage`, `MCServices` | several modules side by side | |

The last four instantiate the modules of a layer together. A variable `part`,
chosen by Init, says which of them moves. None of these modules reads or writes
a variable of another, so what they do together is, for each of them, what it
does by itself (`PartsRunAlone`), and a safety property that is proved of one of
them holds of all together. Fairness is that of each module's own
specification, restricted to the part that runs.

Where components do interact, one module has them both: `AlertFlow` uses
`Detection` and takes the dispatcher as the set of outcomes `AlertDispatcher`
allows (all channels, or not all) and the persistence of `WalletStore` as one
step that always returns; `Lifecycle` takes `TradeStream` and `MetadataSync` as
a task that is alive until it is joined, and that `stop()` ends these tasks is
`StopEndsStart` and `StopEndsLoop`; `ChainClient` has the analyzer above and the
client below with both caches; `AlertHistory` has the rollup that reads it;
`Subscribers` has the web requests, the drain and the recipient query on one
table; `TradeQueue` has producer, broker and consumers; `DailyReport` composes
the signals.

Parts that are not in the repository are modelled from how the code uses them
and marked external in the map: the channels' services, the feed and the
websockets library's close semantics, Redis expiry and streams, the database's
locks and deadlock detection, SQLAlchemy's rule that a failed flush deactivates
the transaction, asyncio's cancellation, the operating system's signals and Python's
`KeyboardInterrupt`, himalaya, DBSCAN, the chain, gamma-api and the data API.

## Runs

| run | instance | shows |
|---|---|---|
| `dispatcher_concurrent` | 3 callers, 1 channel, threshold 2, timeout 2, 2 probes, resets | `BreakerConsistent`, `ProbesBounded`, `ReportedSentWasAccepted` |
| `dispatcher_sequential` | 1 caller, 2 channels, no reset: the pipeline | `ImplementsCircuitBreaker`, `RecoversWithinBudget` |
| `dispatcher_half_opens` | the same with 1 channel | finding: `HalfOpensAfterTimeout` is violated |
| `stream_clean_close` | `TradeStream` alone | finding: `ReconnectsWhenClosed` is violated |
| `ingestion` | `TradeStream`, `MetadataSync`, `TradeQueue` | `QuiescentIsClean`, `OneConnection`, `StopEndsStart`, `ReconnectsWhenLost`; `CacheConverges`, `LoopKeepsSyncing`, `StopEndsLoop`; `CapturedOnce`, `PendingIsRecovered` |
| `capture_restart` | `TradeQueue` alone | finding: `ExistingGroupIsFine` is violated |
| `detection` | `AlertFlow`, `Poller`, `AlertHistory`, `Sniper`, `ClobClient`, `DailyReport`, `FundingGraph`, `DailyFetch`, `Backtest` | `OneAlertPerWindow`, `SilenceHasACause`; `EmittedOnce`; `LiveAlertsAreFound`, `RollupsDoNotOvercount`; `SnipersWereSignaled`; `MarketsAreComplete`; `BurstsAreReported`, `WatchedWalletsTraded`; `FundingIsBacked`; `WindowIsFetched`; `JudgedAlike`; and each module's type invariant, as `DetectionTypeOK` |
| `alert_flow_defaults` | 1 process, the program's own threshold | finding: `MostSuspiciousIsAlerted` is violated |
| `storage` | `WalletStore`, `Subscribers`, `Delivery` | `ImplementsAtomicStore`, `SessionsEnd`; `RecipientsOptedIn`, `OutForGood`, `ChargedBouncesAreOnRecord`; `LedgerIsOfMailsSent` |
| `wallet_store_duplicates` | two wallets funded from one source | finding: `SkipsDuplicates` is violated |
| `services` | `Lifecycle`, `Health`, `ChainClient` | `StoppedIsClean`, `ServicesHaveConnections`, `SignalEndsProcess`; `HealthyIsNotSilent`, `ChangeIsNotified`; `ProfileIsRecent`, `RecoveredPrimaryIsUsed` |
| `delivery_twice` | `Delivery` alone | finding: `SentOncePerEdition` is violated |

To run one:

    tlc -workers 2 -config Detection.cfg MCDetection.tla

### Bounds

* Dispatcher: thresholds and limits of 2 make every counter take a value below,
  at and above its limit; three callers are enough for two of them to be
  admitted beyond the last probe. The breaker itself bounds its counters.
* Stream: the names of connections are a pool, reused when nothing refers to
  them; three allow one being read, one being opened and one abandoned. Delays
  1, 2, 3 show the doubling and the cap.
* Metadata: interval 1 and TTL 2 keep the source's order (300 s < 600 s). One
  market suffices, since no operation relates two of them; two versions make an
  answer stale.
* Queue: four entries of which Redis may keep two, so that entries are trimmed
  before and after they are read; one cannot be read. A read returns up to two,
  for the program's ten, so that a stop comes in the middle of a batch, and so
  that two dead entries (trimmed while pending, or unreadable) fill a batch of
  `read_pending` and hide a readable one behind them. `PendingIsRecovered` says that
  nothing else does. Two captures one after the
  other and beside each other.
* Alert flow: `MaxTrades` bounds the trades received. Three make a claim, a
  refusal and a new claim after an expiry meet. Keys are independent of each
  other, so one is enough; wallets and trades take values on both sides of
  every comparison in the detectors.
* Poller: eight trades; two fills of one transaction with another trade between
  them, one trade without a hash and one that does not parse. An answer has two
  rows and lags by up to one, and the memory holds five: `PollerAssumption` asks
  for the limit, twice the lag and the spread of a transaction's fills, the least
  with which `EmittedOnce` holds. The program's own values, 1000 and 10000, leave
  the lag and the spread thousands of rows.
* History: two alerts, three ticks of life, days of two ticks: a record outlives
  a day, and the rollup of a day runs before, at and after its end.
* Sniper: three wallets, clusters of at least two, two groups a run and three
  ids, so that clusters split, merge and meet earlier ones.
* CLOB: two threads, two pages, one retry. A market is on one page
  (`ClobAssumption`): that is the API's doing, and the code relies on it.
* Daily: three trades over times on both sides of each window and bucket; every
  gate has a market before and behind it, and one signal may raise. The fetch has five pages of two over
  eleven trades, of which up to three are made while it reads.
* Funding: chains of three hops over four addresses, with a cycle, an exchange
  and two tokens; three transfers over three ticks and a window of one.
* Backtest: one capture, whose rows lie on both sides of each threshold, with
  resolvers that fail or not at each first question.
* Wallet store: chains that come round make a session meet its own duplicates,
  another's committed rows, and another's rows in flight in the opposite order,
  which is a deadlock.
* Subscribers: one address, since no operation relates two, two rows it may have
  had, two requests and a drain of up to two records with a threshold of two.
* Delivery: two addresses, so that a batch fails between them, and runs until an
  address has two mails.
* Lifecycle: three signals are the request, the forced exit, and one that finds
  handlers or none, in any phase; each may also find the event loop blocked.
* Health: two streams make every overall status; a threshold of zero makes one
  tick of silence count. Two loops are what a start() during a stop() makes.
* Chain: client TTL 2 over profile TTL 1, recovery interval 1, two attempts, one
  token; one analysis and one other call race.

`CHECK_DEADLOCK FALSE` is set where the system stops: a process has exited, the
captures have ended, a fetch or a backtest is done, or a bound on trades, mails
or entries is reached.

### Fairness

Liveness is claimed only under what asyncio and the clients give:

* `AlertDispatcher`: weak fairness of each task's step, since every channel has
  an HTTP timeout and a bounded number of retries; of the caller, since alerts
  keep coming; of time. Nothing is assumed of the remote service:
  `RecoversWithinBudget` has `[]up[c]` as its hypothesis.
* `TradeStream`: weak fairness of every step of a ready coroutine, and strong
  fairness of `Subscribed`: the feed does not cut every connection before the
  subscription is sent. Reachability of the feed is a hypothesis.
* `MetadataSync`: weak fairness of syncs, reads, the loop and time. A sync may
  fail every time; convergence then comes from the TTL.
* `TradeQueue`: weak fairness of the worker's start and of a capture's writing;
  strong fairness of the worker's reading and processing, which crashes keep
  interrupting: it is not killed for ever before each of them.
* `WalletStore`: strong fairness of each session's step, because the database
  queues those who wait for a row and breaks circles.
* `Lifecycle`: weak fairness of the main task, while the event loop runs. A stream
  task that spins (finding 2) takes the loop away (`StreamSpins`); from then on no
  step of the main task is enabled and no handler is called (`Unheard`).
  `SignalEndsProcess` says that a signal ends the process unless this happens
  before `wait()` returned. No fairness of signals.
* `Health`: weak fairness of each loop's step (its sleep ends, its callback
  returns) and of the wait of `stop()`.
* `ChainClient`: weak fairness of time and of each call's step; a node may fail
  for ever. `RecoveredPrimaryIsUsed` has a primary that stays up, and calls that
  keep coming, as its hypotheses. From the answer of the node to the write of
  the cached profile no call takes longer than a tick: the assumption is in
  `ChainTick`, and `ProfileIsRecent` depends on it.

What shares the process with a `TradeStreamHandler` has this fairness only as long as
no task blocks the event loop: after a clean close, finding 2, the dispatcher's,
the metadata sync's and the chain client's claims stop holding there too. The
modules model one component each and take the event loop for granted. In
`TradeStream` itself a `stop()` may come at any time, also while `start()` spins, as it
does when it was called before the close was seen; `StopEndsStart` speaks of a
`stop()` that has begun, and that one may never begin follows from finding 2.

The other modules make no liveness claim: a trade, a batch or a report may
always be lost to a crash.

## Findings

Six statements of the documentation and the code's comments are refuted by runs
that expect a violation; the quotations are in `PROJECT.json`.

1. A circuit whose half-open attempts are used up never half-opens again, and
   nothing calls `reset_circuit` (`alerter/dispatcher.py:100`).
2. A feed that closes the connection cleanly leaves `start()` calling `_listen`
   on a dead connection for ever, without suspending
   (`ingestor/websocket.py:402`).
3. No trade can reach the default alert threshold in the pipeline: the highest
   score is 0.576, the threshold 0.6 (`detector/scorer.py:143`).
4. A skipped duplicate transfer costs the session its transaction: the profile
   and the other transfers are lost at commit (`storage/repos.py:400`).
5. The capture script looks for a word that is not in the exception it gets, and
   refuses to start once its consumer group exists
   (`scripts/capture-trades.py:100`).
6. The ledger of deliveries is never asked before an edition is sent, so that a
   second run mails everybody again (`scripts/newsletter_common.py:96`).

### Observed

Behaviour the models have, or that was read on the way, and which no run
refutes, because a property names it as its exception, no document says
otherwise or the code is not called:

* Stream and pipeline: the shutdown timeout is never applied
  (`shutdown.py:88`); `stop()` and `start()` within one sleep of a reconnect loop
  leave two loops (`websocket.py:359`); frames of the message in hand are
  delivered after `stop()`, and one bad frame drops the rest of its message
  (`websocket.py:237`); a stream task that dies leaves the pipeline RUNNING
  (`pipeline.py:334`); `force_sync()` sets IDLE on a stopped service
  (`metadata_sync.py:362`).
* Health: a port that is taken leaves `_runner` set (`health.py:487`); a start()
  during a stop() makes a second loop, as in the poller.
* Signals: while the stream spins (finding 2) SIGTERM and SIGINT are without
  effect, since their handlers are callbacks of the event loop it blocks
  (`shutdown.py:187`), although `install_signal_handlers` "Traps SIGTERM and SIGINT to
  trigger graceful shutdown" (`shutdown.py:164`). `SignalEndsProcess` names the case.
* Queue: as many pending entries as a read returns (`DEFAULT_COUNT`, ten), trimmed or
  unreadable, make every `read_pending` return nothing (`publisher.py:353`): the
  entries behind them are never read again, although "entries that were delivered
  but not acknowledged will be re-read" (`publisher.py:338`). `PendingIsRecovered` names
  the case (`Hidden`), the run reaches it, and no program calls `read_pending`. Nothing in the
  package publishes to the stream the script captures.
* Several fills of one transaction count once (`data_api.py:184`,
  `scripts/newsletter-daily.py:103`).
* `AlertHistory` has no caller; two senders may both pass `should_send`; a
  `dedup_window_hours` above 1 has no effect, because the key's name has the
  hour in it; feedback writes expired records back; a limit is applied before
  dead ids are dropped.
* Chain client: only `Web3Exception` leads to a retry or to the fallback
  (`profiler/chain.py:231`), so a refused connection does not; a retry takes no
  token; `get_transaction_counts` reports a failed count as 0; a profile may be
  as old as both TTLs together.
* CLOB client: its lock guards nothing between threads, `get_midpoint` and
  `get_price` are never retried, and its text says 10 requests a second where
  its constant makes 5.
* Sniper: a "majority" is `len // 2`, two clusters of one run may get the same
  id, and the pipeline does not use the detector.
* Daily report: a gamma-api failure reads as "data-api returned no rows"
  (`composer.py:436`); trades of markets beyond the first 50 are dropped; the
  second burst of a bucket is not told; a first-trade probe that fails drops the
  wallet; trades of the cutoff's own second may be on a page not read.
* Funding: only an origin's earliest transfer to a wallet counts; a failed query
  looks like no transfer; suspiciousness never reaches 0.8 with a hop.
* Backtest: the label of every assessment is pending, whatever its market did,
  because `run()` takes the price of the trade for the final price of a market that
  has not settled (`backtest/__main__.py:192-197`, as the comment before it says),
  although the module is to "label each assessment against the market's resolution
  or current price" (line 13). Its freshness is `nonce < 5` and not `<= 5`; each run appends its
  metrics again.
* Subscribers: `bounce_count` is never reset and a file drained twice counts
  twice; a second sign-up of somebody who left is told to check the inbox, but
  gets no mail.

## Proofs

`AlertDispatcherProofs` proves, for every set of channels, every finite set of
callers, and every threshold, timeout and limit that `DispatcherAssumption`
allows:

* `Typing`, `Spec => []TypeOK`: directly inductive.
* `Consistency`, `Spec => []BreakerConsistent`: inductive together with `TypeOK`.
  One step per action; the failing send has the three cases of
  `_record_failure`.
* `Charging`, `Spec => []ProbesCharged`, and from it `BoundedProbing`,
  `Spec => []ProbesBounded`. `ProbesBounded` alone is not inductive: a state with
  few probes charged and many sends in flight satisfies it and may pass the
  limit in one step. `ProbesCharged` says that while a circuit is open every
  probe is in flight or charged, and that the sends in flight and the charged
  attempts together stay within the limit and one for each caller but one. The
  key step is a new probe: it is admitted only while fewer than the limit are
  charged, and the caller that starts it was not sending, so at most the other
  callers are. The cardinality of the set of sending callers is handled by the
  lemmas `SendingBounds` and `SendEnds`.
* `SentWasAccepted`, the action property `ReportedSentWasAccepted`. `SentIsAccepted`
  holds of every dispatch under way: a task that says sent has had its message
  taken since the dispatch began, whatever other callers or a reset do to the
  channel's breaker meanwhile; and only `Gathered` ends a dispatch (`EndsGathered`),
  with what its tasks say.
* `SequentialBreaker`: with one caller and without manual resets
  (`RunningSpec`), `ImplementsCircuitBreaker`. It rests on `InFlightIsProbe`,
  proved as `ProbesInFlight`: with one caller nothing can use up the probes or
  restart the timeout while a send is in flight. Every action then maps to an
  action of `CircuitBreaker` or to a stutter.

`StorageProofs` proves, for any workers, wallets, transfers and chains:

* `TransactionsHoldTheirRows`, `Spec => []IInv`. `AtomicStore` speaks of commits
  only, and a commit is as good as the transaction it ends, so the invariant
  says of every transaction in flight what its commit would do: its rows are the
  chain's first hops and the next ones are still to insert (`RowsAreHops`), they
  are not in the database (`RowsAreNew`) nor in another transaction
  (`RowsAreHeldOnce`), and only a call that inserts or commits has any
  (`RowsAreInserted`).
* `RefinesAtomicStore`, `Spec => ImplementsAtomicStore`: by the invariant a commit
  is a `Persist`; every other step, a roll-back or a crash included, is a stutter.

It also proves, for any requests, drains, addresses and thresholds:

* `MailIsConsistent`, `SubscribersSpec => []MailInv`. Requests and drains write to
  rows they have read in an earlier step, so the invariant follows the copies: an
  opt-in and a drain that will leave a row active have its link's click behind them
  (`ActiveIsClicked`); the rows of a drain that has not committed are locked, and
  it writes nobody back who is out (`LocksHold`); no copy of a row is charged
  with more than the bounces on record (`ChargesAreOnRecord`). The bound
  `MaxBounces` of the runs is not in the types, nor needed.
* From it `OnlyOptedInRecipients` and `ChargesAreBacked`, and `LeavingIsForGood`,
  the action property `OutForGood`: one case per action that writes a row.
* `LedgerIsHonest`, `DeliverySpec => []LedgerIsOfMailsSent`: the invariant counts
  the rows still to be recorded in with the ledger.

`IngestionProofs` proves:

* `StreamStaysInStep`, `StreamEndsClean` (`QuiescentIsClean`) and `StreamHoldsOne`
  (`OneConnection`), for any pool of connections and any delays, of a handler
  with one `start()` task. `_ws` and the connection in use are set and cleared
  by different coroutines at different times; `StreamInv` says for each await of
  `start()` how the two stand (`AtWait`), that an open connection is the one in
  use or abandoned (`OpenIsOwned`), and that only a `stop()` that has returned
  cancels (`CancelIsLate`). That `Starters` has one member is what both
  programs do: `pipeline.py` and `scripts/direct-capture.py` start one task each.
  With two tasks the handler is not safe, see "Observed".
* `CapturesAreComplete`, `QueueSpec => []CapturedOnce`, for any consumers, entries,
  crashes and trimming: nothing after the group's last entry was read or written
  (`NothingAhead`), and what is before it has one holder, who writes it once.
* `SyncHasOneLoop`, `TypeOK` and `OneLoop` of `MetadataSync`, for any markets, callers and
  readers, with one caller of `start()`. `_state` is written by `start()`, the loop, `stop()`
  and every `force_sync()`, so it does not tell which of them runs; `OneLoop` relates
  the loop, the syncs and `stop()` to each other instead, and says that no live
  loop's handle is overwritten, as the model's one `loop` supposes. `TypeOK` is not
  inductive: that an entry of Redis has a time to live needs that what is about to
  be written is an answer (`AnswersHeld`).

`ServicesProofs` proves:

* `CleanStop`, `OrderedShutdown` and `HonestExit`, the invariants `StoppedIsClean`,
  `ServicesHaveConnections` and `SuccessIsStopped`, for any number of signals.
  They look at the pipeline's state alone. `Orderly` adds how far the main task
  has come (`Progress`: no service where `start()` is not done or was abandoned,
  no stream once it was joined), and that "stopped" is the last thing that
  happens (`Ending`).
* `MonitorKeepsAnAge` and from it `HealthyIsWhatItSays` (`HealthyIsNotSilent`), for
  any streams, loops and threshold. A report looks at one age; the invariant
  says that a stream that is up has one (`UpHasAnAge`).
* `CountsExpire` and `ServedProfilesAreRecent` (`ProfileIsRecent`), for any calls,
  times to live and retries: `ChainInv` bounds the age of a count in the nonce
  cache, in the call that carries it and in the profile cache, each by what the
  one before it allows. It needs analyses and other calls to be different calls
  (`ChainClientAssumption`).

`DetectionProofs` proves of `AlertFlow`, for any finite set of workers, any
wallets, markets, trades and threshold that `AlertFlowAssumption` allows:

* `TypesHold`, `Spec => []TypeOK`. It rests on `FreshTypes` and `SizeTypes`: the
  confidences the two detectors can return for any input.
* `OneAlert` and `CausedSilence`, the invariants `OneAlertPerWindow` and
  `SilenceHasACause`. The first is not inductive: it says nothing of a claim that
  does not exist yet, which might be of an old window. `Windows` adds that no
  claim in hand (`ClaimsArePast`) and no dispatch begun (`BegunArePast`) is of a
  later window than its key's latest, so a new claim (`ClaimOpens`) differs from
  all of them. Every step after which a worker holds no claim is covered by one
  lemma, `Released`.
* `CountersAgree`, `Spec => []StatsAgree`: inductive with `TypeOK`; `StepAgrees`
  reduces a step to the worker that takes it.
* `DefaultThresholdSilences`: with a threshold above 0.576 no claim is made and no
  dispatch begins. `ScoreBound` is the reason: no trade scores higher, since the
  pipeline passes neither volume nor depth. The default threshold is 0.6; the run
  `alert_flow_defaults` shows one instance of it.

It also proves:

* `DequeForgetsThePast`, `PollerSpec => []PollerInv`, and `EmitsOnce`
  (`EmittedOnce`), for any trades, limit, lag and window that `PollerAssumption`
  allows. The deque evicts in the order of insertion, which is not that of the
  rows when answers lag, a loop is cancelled or two loops run. `PollerInv` bounds
  for each place in the deque what can have come in behind it, so that what falls
  out is past: no answer can have it any more. TLC showed that the window has to
  cover the spread too: when the fills of one transaction lie far apart, the later
  ones find its hash forgotten and the transaction is emitted again.
* `HistoryStaysInStep`, and from it `AlertsAreFound` (`LiveAlertsAreFound`) and
  `RollupsAreBacked` (`RollupsDoNotOvercount`), for any senders, users, rollups,
  retention and windows. Each key expires by itself, and a TTL is read in one step
  and written back in another: `RecordsInv` and `IndexesInv` say that no index is
  kept shorter than an alert in it, `CountsInv` that a rollup to be committed
  counted alerts that there still are.
* `PagesAreGathered` and `MarketsAreWhole` (`MarketsAreComplete`), for any pages,
  threads and retries: what a thread holds is what is open on the pages before
  the one it asks for, on whichever attempt. Pages that do not overlap are an
  assumption about the API.
* `OffsetSaysWhatIsFetched` and `WindowIsWhole` (`WindowIsFetched`), for any trades,
  times and page size: trades made meanwhile push rows to later pages and never
  back, so of the trades there were at the start those within the offset were
  read.

`DailyProofs` proves, for any trades, markets, wallets and thresholds that
`SignalsAssumption` and `ScoresAssumption` allow:

* Sums and rankings first. `MapThenSumSet` is a recursive function: that there is
  one (`SumExists`), that it does not depend on the order of adding (`SumIs`) and
  that sums of sets apart add up (`SumOfUnion`) follow by induction over the subsets
  of a finite set (`SubsetInduction`), so what `notional` is needed for is proved
  and not assumed (`NotionalIs`). `TopIsFull`: the first n of a ranking are n,
  unless all are among them.
* `EveryBurstIsReported` (`BurstsAreReported`): the window from the first trade of a
  moment on is all the trades within the width, whatever the order of the feed
  (`WindowOfMoment`), and of the bursts of a bucket the first has a cluster.
* `ReportNamesTraders` (`WatchedWalletsTraded`): `ReportInv` keeps, of each hit of
  the report, what its signal promises (`HitOK`), one lemma for each signal. That a
  lean has contributors (`LeanHasContributor`) is by contradiction: if no wallet
  leaned with its market, no set of them together would. It needs a threshold
  above one half, which `SignalsAssumption` states.
* `ReportTypes` (`ReportTypeOK`): each score is a quotient, and what is divided is
  not negative and what divides is not zero only because of what the signal
  filtered before: a first trade within `max_age`, a percentile of enough trades, a
  dominance above its threshold, enough wallets, a multiple of the usual volume.
  `Quotient` and one lemma per signal (`FreshTyped` to `SpikesTyped`) say so;
  `ReportInv` keeps the report among what those allow (`Hit`). `ScoresAssumption`
  says that the settings and the figures of a market are numbers of their kind.

`AnalysisProofs` proves, by induction over the hops, the list and the groups that
the code goes through (`IntervalInduction`, from the least element of a set of
numbers):

* `FundingTypes` and `FundingStandsOnTransfers` (`FundingIsBacked`), for any
  addresses, tokens, hops, transfers and windows that `FundingAssumption` allows.
  `ChainsStop`: `TracingOK` says that what is still traced is no entity and was
  reached by first transfers. `SubCluster`: for any finite set of transfers the
  two pointers find a segment that no window exceeds; `ScanInv` says that the left
  pointer, which never goes back, is the left end of the window of the transfer
  just read, because times that rise make windows move right. `GraphInv`: each
  row ever written is of two stored transfers of one origin within a window, as
  transfers are only added, and has a confidence between 1 and 95
  (`ConfidenceIs`), so that "no row" and "a row" are never confused.
* `SnipersAreSignaledOnce` (`SnipersWereSignaled`), for any finite set of wallets,
  any entries and any groups DBSCAN may return. `ClustersOK` ties the three maps
  of the detector together: signaled are exactly the mapped wallets, and what a
  wallet is mapped to is large enough. It is kept by each group of a run in turn
  (`RunningOK`), because an id that is taken anew is no wallet's (`IdIs`). How
  many ids are left is the bound of the model: the program draws uuids.
* `SniperConfidences` (`SniperTypeOK`): a confidence is within 0 and 100. Two of its
  terms are capped counts; the third is one less the average delay of the members'
  entries over the threshold, which is neither negative nor above one because every
  entry that was kept is within the threshold (`EntriesOK`) and a cluster has
  entries to average. Sums of delays are folds, which choose their own order:
  `FoldIsSum` and `SumBounded` say what they come to.
* `ReplayJudgesAlike` (`JudgedAlike`), for any capture, snapshots and failures of the
  resolvers. `ReplayInv` says that an assessment is what the heuristics make of its
  trade with the two caches as they are now: a resolver that was asked never
  changes its answer. So two assessments of one wallet and market were judged
  with the same knowledge, `LargerHasSignals` compares their signals and
  `ScoreGrows` their scores.

These theorems speak of each component's own specification; the runs of a layer
check it side by side with others. `PartsRunAlone` in `CompositionProofs` proves that
a behaviour of `DetectionSpec` is one of each of its nine parts: a step of
`DetectionNext` is, for each, a step of its own or none (`PartsStep`). So
`DetectionTypes` (`DetectionTypeOK`) and `DetectionIsSafe`, all the invariants of the run
`detection`, for every value of the constants. `StorageIsSafe`, `ServicesAreSafe` and
`IngestionIsSafe` do the same for the safety properties of the other three, from the
inductive invariants of the parts, since the fairness of a part is there only that of
the part that runs. With that every invariant and every action property that a run
checks is a theorem of the specification the run checks it of.

`TypeOK`, `ProbesCharged` and `InFlightIsProbe` of the dispatcher, `StatsAgree` of the
alert flow, `OneLoop` of the metadata sync, `SuccessIsStopped` of the lifecycle and the
inductive invariants are proved for every value of the constants and have no run of their
own.

Run `tlapm M.tla` on each of the eight to check them.

Only model-checked:

* All liveness: `RecoversWithinBudget`, `StopEndsStart`, `ReconnectsWhenLost`,
  `PendingIsRecovered`, `SessionsEnd`, `SignalEndsProcess`, `ChangeIsNotified`,
  `RecoveredPrimaryIsUsed` and the three of `MetadataSync`. The prover has neither
  fairness nor ENABLED.
* What the runs of the findings show: each is one counterexample.

## Not modelled

* `alerter/formatter.py`, `alerter/channels/`, `detector/pdf_appendix.py`,
  `detector/signals/icons.py`: wording and layout; a channel is a send that
  succeeds or fails.
* `config.py`: declarative validation of settings.
* Weekly, monthly and ad-hoc reports: queries put into templates; the delivery
  they end in is `Delivery`.
* `ingestor/models.py`: parsing of answers, seen only as whether a row parses.
* Of modelled components: `wait_with_timeout`, `request_shutdown` and
  `run_with_graceful_shutdown` (no program calls them), the Windows signal
  handlers, the statistics of the clients, the labels and counts of
  `backtest/outcomes.py` and `metrics.py` (`run()` makes no label but pending), the
  thin-book gate (no signal calls it).

## Plan

Modelling is done but for a composition of `AlertFlow` with `AlertDispatcher` in
place of its outcomes.
