----------------------------- MODULE ClobClient -----------------------------
(***************************************************************************)
(* ClobClient, called from the threads asyncio.to_thread takes: the rate *)
(* limiter they share without its lock, the retries around a whole method, *)
(* and the pages get_markets asks for one after the other.               *)
(*                                                                       *)
(* The API is external: every request may fail; the markets of a page do *)
(* not change, and a market is on one page. Times are ticks since a request, as far as they count; a  *)
(* sleep may be longer than asked for. The delays between two attempts   *)
(* only add to them and are left out.                                    *)
(***************************************************************************)
EXTENDS Naturals, FiniteSets, Sequences, SequencesExt

CONSTANTS
    Threads,
    pages,                   \* the markets of each page
    Closed,                  \* those that are closed
    clob_retries,            \* max_retries of with_retry
    min_interval             \* in ticks

ASSUME ClobAssumption ==
    /\ pages \in Seq(ToSet(pages)) /\ Len(pages) > 0 /\ IsFiniteSet(UNION ToSet(pages))
    /\ \A i, k \in DOMAIN pages : i # k => pages[i] \cap pages[k] = {}
    /\ {clob_retries, min_interval} \subseteq Nat

Listed == UNION ToSet(pages)

VARIABLES
    since,                   \* ticks since _last_request_time
    thread                   \* what each thread is in, and where

clob_vars == <<since, thread>>

\* with_retry's methods that raise, those that answer None instead, and
\* those it is not around (health_check, get_server_time).
Raising == {"get_markets", "get_market", "get_orderbook", "get_orderbooks"}
Answering == {"get_midpoint", "get_price", "health_check", "get_server_time"}

Resting == [method |-> "none", at |-> "idle", attempt |-> 0, wait |-> 0, page |-> 1, markets |-> <<>>]

ClobTypeOK ==
    /\ since \in 0 .. min_interval
    /\ thread \in [Threads -> [method : Raising \cup Answering \cup {"none"},
                               at : {"idle", "acquire", "sleep", "request", "returned", "failed"},
                               attempt : 0 .. clob_retries, wait : 0 .. min_interval,
                               page : 1 .. Len(pages), markets : Seq(Listed)]]

ClobInit ==
    /\ since = min_interval
    /\ thread = [t \in Threads |-> Resting]

-----------------------------------------------------------------------------
Call(t, method) ==
    /\ thread[t].at \in {"idle", "returned", "failed"}
    /\ thread' = [thread EXCEPT ![t] = [Resting EXCEPT !.method = method, !.at = "acquire"]]
    /\ UNCHANGED since

\* acquire_sync up to its sleep: it reads what another thread may write next.
acquire_sync(t) ==
    /\ thread[t].at = "acquire"
    /\ thread' = [thread EXCEPT ![t].at = "sleep", ![t].wait = min_interval - since]
    /\ UNCHANGED since

ClobTick ==
    /\ since' = IF since < min_interval THEN since + 1 ELSE since
    /\ thread' = [t \in Threads |-> IF thread[t].at = "sleep" /\ thread[t].wait > 0
                                    THEN [thread[t] EXCEPT !.wait = @ - 1] ELSE thread[t]]
    /\ clob_vars' # clob_vars

\* It wakes, notes the time and sends its request.
Awake(t) ==
    /\ thread[t].at = "sleep" /\ thread[t].wait = 0
    /\ since' = 0
    /\ thread' = [thread EXCEPT ![t].at = "request"]

Returns(t, x) == thread' = [thread EXCEPT ![t] = [x EXCEPT !.at = "returned"]]

\* get_markets(active_only) goes on to the next page, or is done.
get_markets(t) ==
    LET open == SetToSeq(pages[thread[t].page] \ Closed)
        all_markets == thread[t].markets \o open
    IN IF thread[t].page = Len(pages)
       THEN Returns(t, [thread[t] EXCEPT !.markets = all_markets])
       ELSE thread' = [thread EXCEPT ![t].at = "acquire", ![t].page = @ + 1, ![t].markets = all_markets]

RequestAnswered(t) ==
    /\ thread[t].at = "request"
    /\ IF thread[t].method = "get_markets" THEN get_markets(t) ELSE Returns(t, thread[t])
    /\ UNCHANGED since

\* Mutant: the attempt after a failure keeps the markets it has.
mutant_with_retry(t) ==
    IF thread[t].attempt = clob_retries
    THEN thread' = [thread EXCEPT ![t].at = "failed"]
    ELSE thread' = [thread EXCEPT ![t].at = "acquire", ![t].attempt = @ + 1, ![t].page = 1]

\* The next attempt calls the method anew; after the last one, RetryError.
with_retry(t) ==
    IF thread[t].attempt = clob_retries
    THEN thread' = [thread EXCEPT ![t].at = "failed"]
    ELSE thread' = [thread EXCEPT ![t] = [Resting EXCEPT !.method = thread[t].method,
                                          !.at = "acquire", !.attempt = thread[t].attempt + 1]]

RequestFails(t) ==
    /\ thread[t].at = "request"
    /\ IF thread[t].method \in Raising THEN with_retry(t) ELSE Returns(t, thread[t])
    /\ UNCHANGED since

ClobNext ==
    \/ ClobTick
    \/ \E t \in Threads :
        \/ \E method \in Raising \cup Answering : Call(t, method)
        \/ acquire_sync(t) \/ Awake(t) \/ RequestAnswered(t) \/ RequestFails(t)

ClobSpec == ClobInit /\ [][ClobNext]_clob_vars

-----------------------------------------------------------------------------
(* What get_markets returns is every open market once, on whichever pages*)
(* and however often its requests failed on the way.                     *)
MarketsAreComplete ==
    \A t \in Threads :
        thread[t].method = "get_markets" /\ thread[t].at = "returned" =>
            /\ ToSet(thread[t].markets) = Listed \ Closed
            /\ Len(thread[t].markets) = Cardinality(Listed \ Closed)
=============================================================================
