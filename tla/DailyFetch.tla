----------------------------- MODULE DailyFetch -----------------------------
(***************************************************************************)
(* How newsletter-daily.py gets the trades of its window: page by page from *)
(* an endpoint that numbers them from the newest, while new ones are made, *)
(* then the metadata of their markets, then the trades whose markets are *)
(* still open. Trades are numbered from the oldest; the window has those *)
(* made at `cutoff` or later.                                            *)
(***************************************************************************)
EXTENDS Naturals, FiniteSets, FiniteSetsExt, Sequences

CONSTANTS
    hash_of, Unhashed,       \* the transaction of each trade, oldest first
    time_of,                 \* and when it was made
    OpenMarket,              \* trades whose market is open
    made_at_start,           \* how many of the trades there are at the start
    cutoff,
    PAGE_SIZE, MAX_HISTORICAL_OFFSET

ASSUME DailyFetchAssumption ==
    /\ hash_of \in Seq({hash_of[i] : i \in DOMAIN hash_of}) /\ time_of \in [DOMAIN hash_of -> Nat]
    /\ made_at_start \in 0 .. Len(hash_of) /\ cutoff \in Nat
    /\ \A i, j \in DOMAIN time_of : i <= j => time_of[i] <= time_of[j]
    /\ PAGE_SIZE \in Nat \ {0} /\ MAX_HISTORICAL_OFFSET \in Nat

VARIABLES
    made,            \* trades made so far
    offset, fetched, \* fetch_live_trades: its offset and `out`
    complete,        \* whether it got to the cutoff or to the end
    stage,           \* "trades", "meta", "composed" or "raised"
    context_trades   \* the trades of the report

fetch_vars == <<made, offset, fetched, complete, stage, context_trades>>

DailyFetchTypeOK ==
    /\ made \in 0 .. Len(hash_of) /\ offset \in Nat
    /\ fetched \subseteq 1 .. Len(hash_of) /\ context_trades \subseteq fetched
    /\ complete \in BOOLEAN /\ stage \in {"trades", "meta", "composed", "raised"}

DailyFetchInit ==
    /\ made = made_at_start /\ offset = 0 /\ fetched = {} /\ complete = FALSE
    /\ stage = "trades" /\ context_trades = {}

NewTrade ==
    /\ made < Len(hash_of) /\ stage = "trades"
    /\ made' = made + 1
    /\ UNCHANGED <<offset, fetched, complete, stage, context_trades>>

\* A page, and those of its rows that are not of a transaction seen before.
page == {i \in 1 .. made : made - offset - PAGE_SIZE < i /\ i <= made - offset}

unseen(rows) ==
    {i \in rows : \/ hash_of[i] = Unhashed
                  \/ \A j \in fetched \cup {j \in rows : j > i} : hash_of[j] # hash_of[i]}

reaches_cutoff == \E i \in unseen(page) : time_of[i] <= cutoff

\* Mutant: a page that brings nothing new is taken for the last one.
mutant_FetchPage ==
    /\ stage = "trades" /\ offset <= MAX_HISTORICAL_OFFSET
    /\ fetched' = fetched \cup unseen(page)
    /\ complete' = (unseen(page) = {} \/ reaches_cutoff)
    /\ offset' = IF complete' THEN offset ELSE offset + PAGE_SIZE
    /\ stage' = IF complete' THEN "meta" ELSE stage
    /\ UNCHANGED <<made, context_trades>>

\* One round of the loop: it ends with a page that is empty or reaches back
\* to the cutoff; a page of duplicates says nothing of how far it reaches.
FetchPage ==
    /\ stage = "trades" /\ offset <= MAX_HISTORICAL_OFFSET
    /\ fetched' = fetched \cup unseen(page)
    /\ complete' = (page = {} \/ reaches_cutoff)
    /\ offset' = IF complete' THEN offset ELSE offset + PAGE_SIZE
    /\ stage' = IF complete' THEN "meta" ELSE stage
    /\ UNCHANGED <<made, context_trades>>

\* A status that is not 200 keeps what there is, an exception ends the
\* script, and so does the last offset end the loop.
FetchEnds ==
    /\ stage = "trades"
    /\ \/ stage' = "meta"
       \/ stage' = "raised" /\ offset <= MAX_HISTORICAL_OFFSET
    /\ UNCHANGED <<made, offset, fetched, complete, context_trades>>

window_trades == {i \in fetched : time_of[i] >= cutoff}

\* fetch_market_meta and what build_context keeps: a chunk of markets that
\* cannot be read drops their trades without a word.
BuildContext ==
    /\ stage = "meta"
    /\ \/ stage' = "composed" /\ context_trades' \in {{}, window_trades \cap OpenMarket}
       \/ stage' = "raised" /\ UNCHANGED context_trades
    /\ UNCHANGED <<made, offset, fetched, complete>>

DailyFetchNext == NewTrade \/ FetchPage \/ FetchEnds \/ BuildContext

DailyFetchSpec == DailyFetchInit /\ [][DailyFetchNext]_fetch_vars

-----------------------------------------------------------------------------
(* The pages a fetch reads shift under it when trades are made, so that it *)
(* reads rows again; but when it got to the end, every transaction of the*)
(* window that was there when it began is in it, and none is in it twice.*)
(* Those of the cutoff's own second may be on the page it did not read.  *)
WindowIsFetched ==
    /\ \A i, j \in fetched : i # j => hash_of[i] # hash_of[j] \/ hash_of[i] = Unhashed
    /\ complete => \A i \in 1 .. made_at_start :
          time_of[i] > cutoff /\ hash_of[i] # Unhashed =>
              \E j \in fetched : hash_of[j] = hash_of[i]
=============================================================================
