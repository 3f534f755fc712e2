---------------------------- MODULE DailyReport ----------------------------
(***************************************************************************)
(* compose(): the report of the day, out of the hits of all the signals. *)
(* A market is promoted when signals of two categories hit it; a wallet is *)
(* watched when a hit is about it or lists it as a contributor.          *)
(***************************************************************************)
EXTENDS DailySignals

CONSTANT Failing     \* signals that may raise

VARIABLE reports     \* the hits of the report, once it is composed

report_vars == <<signals_vars, reports>>

ReportInit == SignalsInit /\ reports = {}

PROMOTION_MIN_CATEGORIES == 2

REGISTRY == {"01-A", "01-B", "02-A", "02-C", "03-A"}

category_of(signal) ==
    CASE signal \in {"01-A", "01-B"} -> "informed_flow"
      [] signal \in {"02-A", "02-C"} -> "microstructure"
      [] signal = "03-A" -> "volume_liquidity"

compute(signal) ==
    CASE signal = "01-A" -> fresh_wallets
      [] signal = "01-B" -> unusual_sizes
      [] signal = "02-A" -> order_flow_imbalances
      [] signal = "02-C" -> stealth_clusters
      [] signal = "03-A" -> volume_spikes

\* Of the window as it is when the fetch ends. A signal that raises is skipped.
compose ==
    /\ reports = {}
    /\ \E found \in {[signal \in REGISTRY |-> compute(signal)]}, failed \in SUBSET Failing :
         reports' = {UNION {found[signal] : signal \in REGISTRY \ failed}}
    /\ UNCHANGED signals_vars

ReportNext == (reports = {} /\ Observe /\ UNCHANGED reports) \/ compose

ReportSpec == ReportInit /\ [][ReportNext]_report_vars

ReportTypeOK ==
    /\ SignalsTypeOK /\ Cardinality(reports) <= 1
    /\ \A hits \in reports :
         hits \subseteq [signal : REGISTRY, wallet : Traders \cup {NoTrader}, market : Questions, at : Nat,
                        score : 0 .. 1000, notional : Nat,
                        top_wallets : SUBSET [address : Traders, amount : Nat \ {0}]]

\* The sections that are shown: all hide when they are empty.
sections(hits) == {h.signal : h \in hits}

categories(hits) == {category_of(h.signal) : h \in hits}

promoted_markets(hits) ==
    {m \in Questions : Cardinality(categories({h \in hits : h.market = m})) >= PROMOTION_MIN_CATEGORIES}

\* The contributions a hit lists for a wallet.
listed(h, w) == {c.amount : c \in {c \in h.top_wallets : c.address = w}}

hits_of(w, hits) == {h \in hits : h.wallet = w \/ listed(h, w) # {}}

\* A hit adds to a wallet its own amount, if it is about the wallet, and the
\* contribution it lists: what several hits count is counted several times.
upsert_wallet(h, w) == (IF h.wallet = w THEN h.notional ELSE 0) + Max({0} \cup listed(h, w))

watch(w, hits) ==
    [address |-> w,
     markets |-> {h.market : h \in hits},
     categories |-> categories(hits),
     total_notional |-> MapThenSumSet(LAMBDA h : upsert_wallet(h, w), hits),
     is_fresh |-> \E h \in hits : h.wallet = w /\ h.signal = "01-A"]

wallets_to_watch(hits) ==
    {watch(w, hits_of(w, hits)) : w \in {w \in Traders : hits_of(w, hits) # {}}}

\* What the headline is about: the first of these that there is.
headline(hits) ==
    IF \E w \in wallets_to_watch(hits) : Cardinality(w.markets) >= 2 THEN "cross-market wallet"
    ELSE IF promoted_markets(hits) # {} THEN "cross-signal"
    ELSE IF hits # {} THEN "single-signal"
    ELSE IF trades = <<>> THEN "quiet window"
    ELSE "quiet signals"

(* The report names no wallet for a market it has not traded: whichever of *)
(* the five signals put it there, a watched wallet has a trade, in this  *)
(* window, on each of the markets listed for it, the market passes the   *)
(* gates, and a lean has contributors, all of whom have traded the side  *)
(* the market leans to. A promoted market has been traded too and is in  *)
(* two sections at least, and the headline is of what the report shows.  *)
WatchedWalletsTraded ==
  \A hits \in reports :
    LET watched == wallets_to_watch(hits)
        promoted == promoted_markets(hits)
        about == headline(hits)
    IN /\ \A w \in watched : \A m \in w.markets : by(w.address, on(m)) # {} /\ m \in eligible
       /\ \A m \in promoted :
             /\ m \in eligible /\ on(m) # {}
             /\ Cardinality(sections({h \in hits : h.market = m})) >= PROMOTION_MIN_CATEGORIES
       /\ about = "cross-market wallet" => Cardinality({m \in eligible : on(m) # {}}) >= 2
       /\ about = "quiet window" => trades = <<>> /\ promoted = {}
       /\ \A h \in {h \in hits : h.signal = "02-A"} :
             LET I == on(h.market)
                 side == IF 2 * notional(bought(I)) >= notional(I) THEN "BUY" ELSE "SELL"
             IN /\ NoTrader \notin {trades[i].wallet : i \in I} => h.top_wallets # {}
                /\ \A c \in h.top_wallets : \E i \in by(c.address, I) : trades[i].side = side
=============================================================================
