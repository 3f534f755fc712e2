--------------------------- MODULE CompositionProofs ---------------------------
(***************************************************************************)
(* What is proved of the parts of MCDetection one by one holds of all of *)
(* them together: a step of DetectionNext is a step or a stutter of every*)
(* part, because each has the variables it reads and writes to itself.   *)
(***************************************************************************)
EXTENDS MCDetection, DetectionProofs, AnalysisProofs

detection_vars == <<part, vars, poller_vars, history_vars, sniper_vars, clob_vars,
                    report_vars, fetch_vars, funding_vars, backtest_vars>>

\* Each part starts as it would by itself, and goes on so or stands still.
LEMMA PartsStart ==
    DetectionInit => /\ part \in Parts
                     /\ Init /\ PollerInit /\ HistoryInit /\ SniperInit /\ ClobInit
                     /\ ReportInit /\ DailyFetchInit /\ FundingInit /\ BacktestInit
BY DEF DetectionInit

LEMMA PartsStep ==
    ASSUME [DetectionNext]_detection_vars
    PROVE  /\ UNCHANGED part
           /\ [Next]_vars /\ [PollerNext]_poller_vars /\ [HistoryNext]_history_vars
           /\ [SniperNext]_sniper_vars /\ [ClobNext]_clob_vars /\ [ReportNext]_report_vars
           /\ [DailyFetchNext]_fetch_vars /\ [TraceNext \/ GraphNext]_funding_vars
           /\ [BacktestNext]_backtest_vars
<1>1. CASE UNCHANGED detection_vars
  BY <1>1 DEF detection_vars
<1>2. CASE DetectionNext
  <2>1. [Next]_vars
    <3>1. unless(part = "flow", vars) /\ (part = "flow" => Next)
      BY <1>2 DEF DetectionNext
    <3> QED
      BY <3>1 DEF unless
  <2>2. [PollerNext]_poller_vars
    <3>1. unless(part = "poller", poller_vars) /\ (part = "poller" => PollerNext)
      BY <1>2 DEF DetectionNext
    <3> QED
      BY <3>1 DEF unless
  <2>3. [HistoryNext]_history_vars
    <3>1. unless(part = "history", history_vars) /\ (part = "history" => HistoryNext)
      BY <1>2 DEF DetectionNext
    <3> QED
      BY <3>1 DEF unless
  <2>4. [SniperNext]_sniper_vars
    <3>1. unless(part = "sniper", sniper_vars) /\ (part = "sniper" => SniperNext)
      BY <1>2 DEF DetectionNext
    <3> QED
      BY <3>1 DEF unless
  <2>5. [ClobNext]_clob_vars
    <3>1. unless(part = "clob", clob_vars) /\ (part = "clob" => ClobNext)
      BY <1>2 DEF DetectionNext
    <3> QED
      BY <3>1 DEF unless
  <2>6. [ReportNext]_report_vars
    <3>1. unless(part = "daily", report_vars) /\ (part = "daily" => ReportNext)
      BY <1>2 DEF DetectionNext
    <3> QED
      BY <3>1 DEF unless
  <2>7. [DailyFetchNext]_fetch_vars
    <3>1. unless(part = "fetch", fetch_vars) /\ (part = "fetch" => DailyFetchNext)
      BY <1>2 DEF DetectionNext
    <3> QED
      BY <3>1 DEF unless
  <2>8. [BacktestNext]_backtest_vars
    <3>1. unless(part = "backtest", backtest_vars) /\ (part = "backtest" => BacktestNext)
      BY <1>2 DEF DetectionNext
    <3> QED
      BY <3>1 DEF unless
  <2>9. [TraceNext \/ GraphNext]_funding_vars
    <3>1. /\ unless(part \in {"trace", "graph"}, funding_vars)
          /\ (part = "trace" => TraceNext) /\ (part = "graph" => GraphNext)
      BY <1>2 DEF DetectionNext
    <3> QED
      BY <3>1 DEF unless
  <2>10. UNCHANGED part
    BY <1>2 DEF DetectionNext
  <2> QED
    BY <2>1, <2>2, <2>3, <2>4, <2>5, <2>6, <2>7, <2>8, <2>9, <2>10
<1> QED
  BY <1>1, <1>2

\* Every behaviour of all together is one of each part by itself, whatever the
\* others do, since none has a variable of another: the composition adds nothing
\* to what a part may do, and takes nothing from it.
THEOREM PartsRunAlone ==
    DetectionSpec => /\ Spec /\ PollerSpec /\ HistorySpec /\ SniperSpec /\ ClobSpec
                     /\ ReportSpec /\ DailyFetchSpec /\ FundingSpec /\ BacktestSpec
<1> QED
  BY PartsStart, PartsStep, PTL
  DEF DetectionSpec, detection_vars, Spec, PollerSpec, HistorySpec, SniperSpec, ClobSpec,
      ReportSpec, DailyFetchSpec, FundingSpec, BacktestSpec

LEMMA PartIsOne == DetectionSpec => [](part \in Parts)
<1>1. DetectionInit => part \in Parts
  BY PartsStart
<1>2. part \in Parts /\ [DetectionNext]_detection_vars => (part \in Parts)'
  BY PartsStep
<1> QED
  BY <1>1, <1>2, PTL DEF DetectionSpec, detection_vars

\* Whichever part is running, its variables keep their types, its confidences
\* and scores their ranges, for any values of all the constants.
THEOREM DetectionTypes == DetectionSpec => []DetectionTypeOK
<1>1. /\ part \in Parts /\ TypeOK /\ PollerInv /\ HistoryInv /\ SniperTypeOK /\ ClobInv
      /\ ReportTypeOK /\ FetchInv /\ FundingTypeOK /\ ReplayInv
      => DetectionTypeOK
  BY DEF DetectionTypeOK, Parts, PollerInv, HistoryInv, ClobInv, FetchInv, ReplayInv
<1> QED
  BY <1>1, PartIsOne, PartsRunAlone, TypesHold, DequeForgetsThePast, HistoryStaysInStep,
     SniperConfidences, PagesAreGathered, ReportTypes, OffsetSaysWhatIsFetched, FundingTypes,
     ReplayInvHolds, PTL

\* All the safety invariants of the parts hold of all together, as the run of
\* DetectionSpec checks them.
THEOREM DetectionIsSafe ==
    DetectionSpec => /\ []OneAlertPerWindow /\ []SilenceHasACause /\ []EmittedOnce
                     /\ []LiveAlertsAreFound /\ []RollupsDoNotOvercount
                     /\ []SnipersWereSignaled /\ []MarketsAreComplete
                     /\ []BurstsAreReported /\ []WatchedWalletsTraded
                     /\ []FundingIsBacked /\ []WindowIsFetched /\ []JudgedAlike
<1> QED
  BY PartsRunAlone, OneAlert, CausedSilence, EmitsOnce, AlertsAreFound, RollupsAreBacked,
     SnipersAreSignaledOnce, MarketsAreWhole, EveryBurstIsReported, ReportNamesTraders,
     FundingStandsOnTransfers, WindowIsWhole, ReplayJudgesAlike, PTL
=============================================================================
