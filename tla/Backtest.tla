------------------------------ MODULE Backtest ------------------------------
(***************************************************************************)
(* backtest: a capture is replayed trade by trade through two resolvers  *)
(* that keep what they were told, failures too, and what the heuristics  *)
(* find is scored.                                                       *)
(*                                                                       *)
(* The replay has detectors of its own, not those of the pipeline. Scores*)
(* are in hundredths of a percent.                                       *)
(*                                                                       *)
(* Abstracted: labels and metrics. run() takes the price of a trade for  *)
(* its final price, in a market that has not settled, so that it labels  *)
(* all it scores pending and counts nothing else (__main__.py:192-197).  *)
(***************************************************************************)
EXTENDS Integers, Sequences, FiniteSetsExt

CONSTANTS
    Capture,                \* the trades of the capture file, in order
    nonce_of,               \* what the node says of a wallet
    snapshot_of,            \* what gamma-api says of a market
    NoSnapshot

Whole == 10000              \* one, in hundredths of a percent

\* Of a trade: wallet, market and notional. No volume is 0.
ASSUME BacktestAssumption ==
    /\ Len(Capture) \in Nat /\ DOMAIN Capture = 1 .. Len(Capture)
    /\ \A i \in 1 .. Len(Capture) : Capture[i].notional \in Nat
    /\ \A i \in 1 .. Len(Capture) : snapshot_of[Capture[i].market].daily_volume \in Nat

VARIABLES
    replayed,               \* trades of the capture that were replayed
    wallet_cache, market_cache,
    assessments             \* the place and the signals of each assessment

backtest_vars == <<replayed, wallet_cache, market_cache, assessments>>

ReplayedWallets == {Capture[i].wallet : i \in DOMAIN Capture}
ReplayedMarkets == {Capture[i].market : i \in DOMAIN Capture}
KNOWN_SIGNALS == {"fresh_wallet", "size_anomaly", "niche_market"}
Asked == {"never", "failed", "known"}

BacktestTypeOK ==
    /\ replayed \in 0 .. Len(Capture)
    /\ wallet_cache \in [ReplayedWallets -> Asked] /\ market_cache \in [ReplayedMarkets -> Asked]
    /\ assessments \subseteq [trade : 1 .. replayed, signals : (SUBSET KNOWN_SIGNALS) \ {{}}]

BacktestInit ==
    /\ replayed = 0 /\ assessments = {}
    /\ wallet_cache = [w \in ReplayedWallets |-> "never"]
    /\ market_cache = [m \in ReplayedMarkets |-> "never"]

\* Mutant: a failure is asked for again.
mutant_resolved_as(cached) == IF cached = "known" THEN {"known"} ELSE {"failed", "known"}

\* What a resolver has for a key: it asks once, and the request may fail.
resolved_as(cached) == IF cached = "never" THEN {"failed", "known"} ELSE {cached}

\* The three heuristics of replay_capture.
signals_of(trade, wallet_known, market) ==
    LET fresh == wallet_known /\ nonce_of[trade.wallet] < 5 /\ trade.notional >= 1000
        volume == IF market = NoSnapshot THEN 0 ELSE market.daily_volume
        size == volume > 0 /\ 50 * trade.notional > volume
        niche == /\ volume > 0 /\ volume < 50000 /\ trade.notional >= 1000
                 /\ market.category \in {"science", "tech", "finance", "other"}
    IN {s \in KNOWN_SIGNALS : \/ s = "fresh_wallet" /\ fresh
                              \/ s = "size_anomaly" /\ size
                              \/ s = "niche_market" /\ niche}

\* One trade of the capture.
ReplayTrade ==
    /\ replayed < Len(Capture)
    /\ replayed' = replayed + 1
    /\ LET trade == Capture[replayed']
       IN \E w \in resolved_as(wallet_cache[trade.wallet]), m \in resolved_as(market_cache[trade.market]) :
            /\ wallet_cache' = [wallet_cache EXCEPT ![trade.wallet] = w]
            /\ market_cache' = [market_cache EXCEPT ![trade.market] = m]
            /\ LET market == IF m = "known" THEN snapshot_of[trade.market] ELSE NoSnapshot
                   signals == signals_of(trade, w = "known", market)
               IN assessments' = IF signals = {} THEN assessments
                                 ELSE assessments \cup {[trade |-> replayed', signals |-> signals]}

BacktestNext == ReplayTrade

BacktestSpec == BacktestInit /\ [][BacktestNext]_backtest_vars

-----------------------------------------------------------------------------
\* The score of an assessment; the second bonus comes on top of the first.
replay_score(signals) ==
    LET weight == [fresh_wallet |-> 40, size_anomaly |-> 35, niche_market |-> 25]
        sum == MapThenSumSet(LAMBDA s : 100 * weight[s], signals)
        bonus == IF Cardinality(signals) >= 3 THEN 156 ELSE IF Cardinality(signals) = 2 THEN 120 ELSE 100
    IN Min({(sum * bonus) \div 100, Whole})

(* Though the resolvers fail now and then, a run judges its trades alike:*)
(* of two trades of a wallet in a market, each of them large enough, both*)
(* are fresh or none is, and the scores of a wallet's trades in a market *)
(* never fall as the trades get larger.                                  *)
JudgedAlike ==
    \A a, b \in assessments :
        LET t == Capture[a.trade]
            u == Capture[b.trade]
        IN t.wallet = u.wallet /\ t.market = u.market /\ t.notional <= u.notional
             => /\ a.signals \subseteq b.signals
                /\ replay_score(a.signals) <= replay_score(b.signals)
=============================================================================
