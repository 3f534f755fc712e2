----------------------------- MODULE MCDetection -----------------------------
(***************************************************************************)
(* What becomes of trades: the pipeline that scores them, the poller and *)
(* the clients that fetch them, the detectors and the daily report that  *)
(* read them, the history of alerts. None reads a variable of another, so*)
(* every behaviour of all together is one of each of them by itself; a   *)
(* behaviour here is one of the one Init picks.                          *)
(***************************************************************************)
EXTENDS MCAlertFlow, Poller, AlertHistory, Sniper, ClobClient,
        DailyReport, DailyFetch, FundingGraph, Backtest

VARIABLE part

\* Poller: a row without a hash, one that does not parse, two fills of one
\* transaction with another between them.
Fills == <<"a", "b", "c", "b", "none", "d", "e", "f">>

\* Sniper: before the market's creation, within the threshold, after it.
EntryDeltas == {-1, 100, 301}

\* ClobClient: two pages, one market closed.
Pages == <<{"a"}, {"b", "c"}>>

\* DailySignals: a market, and one that settled or is quiet beside it.
Open == [last |-> 40, bid |-> 39, ask |-> 41, closes_in |-> 48, lives_for |-> 240,
         novelty |-> FALSE, start |-> 0, volume24hr |-> 6, volumeNum |-> 6]
McMarketMetas ==
    {("q1" :> Open) @@ ("q2" :> other) :
        other \in {Open, [Open EXCEPT !.last = 96], [Open EXCEPT !.volumeNum = 60]}}

DailyTrade(w, q, side, amount, at) ==
    [wallet |-> w, market |-> q, side |-> side, notional |-> amount, ts |-> at]
McObservations ==
    {DailyTrade(w, "q1", "BUY", amount, at) : w \in {"a", "b"}, amount \in {1, 6}, at \in {0, 1, 3}}
    \cup {DailyTrade("a", "q1", "SELL", 6, at) : at \in {0, 3}} \cup {DailyTrade("b", "q1", "SELL", 6, 1)}
    \cup {DailyTrade("a", "q2", "BUY", 6, 1), DailyTrade("b", "q2", "BUY", 6, 0)}
FirstTrades == ("a" :> 1) @@ ("b" :> NoTime)

\* DailyFetch: eight trades at the start, three more while it reads.
Hashes == <<"a", "b", "none", "c", "d", "d", "e", "f", "none", "g", "h">>
Times == <<1, 2, 3, 3, 4, 5, 6, 6, 7, 8, 9>>

\* FundingGraph: x is an exchange; bridged money went round between a and b.
Kinds == [v \in Addresses |-> IF v = "x" THEN "cex" ELSE "unknown"]
TokenOrder == <<"bridged", "native">>
FirstFunders ==
    ("bridged" :> [v \in Addresses |-> IF v = "a" THEN "b" ELSE IF v = "b" THEN "a" ELSE Nobody])
    @@ ("native" :> [v \in Addresses |-> IF v = "x" THEN Nobody ELSE "x"])

\* Backtest: w is fresh, v is not; q is a quiet market.
Row(w, m, amount) == [wallet |-> w, market |-> m, notional |-> amount]
CaptureFile ==
    <<Row("w", "q", 1200), Row("w", "q", 900), Row("v", "q", 30000), Row("w", "r", 1000),
      Row("w", "q", 5000), Row("v", "r", 999)>>
NonceOf == ("w" :> 0) @@ ("v" :> 5)
SnapshotOf == ("q" :> [daily_volume |-> 40000, category |-> "tech"])
              @@ ("r" :> [daily_volume |-> 60000, category |-> "tech"])

-----------------------------------------------------------------------------
Parts == {"flow", "poller", "history", "sniper", "clob", "daily", "fetch",
          "trace", "graph", "backtest"}

unless(part_runs, variables) == IF part_runs THEN TRUE ELSE UNCHANGED variables

DetectionInit ==
    /\ part \in Parts
    /\ Init /\ (part # "flow" => trade = CHOOSE t \in [Workers -> [key : Keys, notional : Notionals]] : TRUE)
    /\ PollerInit /\ HistoryInit /\ SniperInit /\ ClobInit
    /\ ReportInit /\ (part # "daily" => market_meta = CHOOSE meta \in MarketMetas : TRUE)
    /\ DailyFetchInit /\ FundingInit /\ BacktestInit

DetectionNext ==
    /\ \/ part = "flow" /\ Next
       \/ part = "poller" /\ PollerNext
       \/ part = "history" /\ HistoryNext
       \/ part = "sniper" /\ SniperNext
       \/ part = "clob" /\ ClobNext
       \/ part = "daily" /\ ReportNext
       \/ part = "fetch" /\ DailyFetchNext
       \/ part = "trace" /\ TraceNext
       \/ part = "graph" /\ GraphNext
       \/ part = "backtest" /\ BacktestNext
    /\ unless(part = "flow", vars) /\ unless(part = "poller", poller_vars)
    /\ unless(part = "history", history_vars) /\ unless(part = "sniper", sniper_vars)
    /\ unless(part = "clob", clob_vars) /\ unless(part = "daily", report_vars)
    /\ unless(part = "fetch", fetch_vars) /\ unless(part = "backtest", backtest_vars)
    /\ unless(part \in {"trace", "graph"}, funding_vars)
    /\ UNCHANGED part

DetectionSpec == DetectionInit /\ [][DetectionNext]_<<part, vars, poller_vars, history_vars,
                     sniper_vars, clob_vars, report_vars, fetch_vars, funding_vars, backtest_vars>>

(* Each part keeps its type: what the other invariants speak of, the     *)
(* records of an alert, of a market, of a transfer, is there to be read. *)
DetectionTypeOK ==
    CASE part = "flow" -> TypeOK
      [] part = "poller" -> PollerTypeOK
      [] part = "history" -> HistoryTypeOK
      [] part = "sniper" -> SniperTypeOK
      [] part = "clob" -> ClobTypeOK
      [] part = "daily" -> ReportTypeOK
      [] part = "fetch" -> DailyFetchTypeOK
      [] part \in {"trace", "graph"} -> FundingTypeOK
      [] part = "backtest" -> BacktestTypeOK
=============================================================================
