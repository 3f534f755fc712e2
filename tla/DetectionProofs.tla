---------------------------- MODULE DetectionProofs ----------------------------
(***************************************************************************)
(* Theorems about what becomes of trades. AlertFlow: deduplication among *)
(* any number of pipelines that share a Redis, for every wallet, market, *)
(* trade and threshold. Then what fetches trades and what is kept of     *)
(* alerts: the poller of Poller, the CLOB client's get_markets, the daily*)
(* fetch and the alert history, each for any parameters.                 *)
(***************************************************************************)
EXTENDS AlertFlow, Poller, AlertHistory, ClobClient, DailyFetch,
        TLAPS, FiniteSetTheorems, WellFoundedInduction

(***************************************************************************)
(* The inductive invariant.  OneAlertPerWindow speaks of the claims that *)
(* exist; a new claim is a new window, and so differs from all of them,  *)
(* because no claim in hand and no dispatch begun is of a later window   *)
(* than its key's latest.                                                *)
(***************************************************************************)
ClaimsArePast == \A k \in Workers : InHand(k) => claim[k] <= window[trade[k].key]

BegunArePast == \A key \in Keys, n \in Nat : <<key, n>> \in begun => n <= window[key]

Windows == ClaimsArePast /\ BegunArePast /\ OneAlertPerWindow /\ SilenceHasACause

-----------------------------------------------------------------------------
(* Types.                                                                *)

\* The confidence of a fresh wallet is between 0.5 and 0.9 (fresh_wallet.py).
LEMMA FreshTypes ==
    ASSUME NEW notional \in Notionals
    PROVE  FreshOutcomes(notional) \subseteq {NoSignal} \cup (30 .. 54)
<1> SUFFICES ASSUME NEW n \in Nonces, NEW a \in Ages
             PROVE  fresh_wallet(n, a, notional) \in {NoSignal} \cup (30 .. 54)
  BY DEF FreshOutcomes
<1> QED
  BY DEF fresh_wallet, fresh_confidence, If

\* Without volumes a size signal is a niche market's, with confidence 0.2.
LEMMA SizeTypes ==
    SizeOutcomes \subseteq [size : {NoSignal, 12}, niche : BOOLEAN]
<1>1. \A c \in Categories : is_niche_market(c, Unknown) \in BOOLEAN
  <2> SUFFICES ASSUME NEW c \in Categories
               PROVE  is_niche_market(c, Unknown) \in BOOLEAN
    OBVIOUS
  <2>1. is_niche_market(c, Unknown) = (c \in NICHE_PRONE_CATEGORIES)
    BY Zenon DEF is_niche_market
  <2>2. CASE c \in NICHE_PRONE_CATEGORIES
    BY <2>1, <2>2
  <2>3. CASE c \notin NICHE_PRONE_CATEGORIES
    BY <2>1, <2>3
  <2> QED
    BY <2>2, <2>3
<1>2. Niches \subseteq BOOLEAN
  BY <1>1, Zenon DEF Niches
<1>3. \A niche \in BOOLEAN : size_anomaly(0, 0, niche) \in {NoSignal, 12}
  <2> SUFFICES ASSUME NEW niche \in BOOLEAN
               PROVE  size_anomaly(0, 0, niche) \in {NoSignal, 12}
    OBVIOUS
  <2>1. CASE niche
    BY <2>1 DEF size_anomaly, size_confidence, If
  <2>2. CASE ~niche
    BY <2>2 DEF size_anomaly
  <2> QED
    BY <2>1, <2>2
<1> SUFFICES ASSUME NEW s \in SizeOutcomes
             PROVE  s \in [size : {NoSignal, 12}, niche : BOOLEAN]
  OBVIOUS
<1>4. CASE s = [size |-> NoSignal, niche |-> FALSE]
  BY <1>4, Zenon
<1>5. CASE s # [size |-> NoSignal, niche |-> FALSE]
  <2>1. PICK niche \in Niches \cup {TRUE} :
          s = [size |-> size_anomaly(0, 0, niche), niche |-> niche]
    BY <1>5, Zenon DEF SizeOutcomes
  <2>2. niche \in BOOLEAN
    BY <1>2, <2>1, Zenon
  <2>3. size_anomaly(0, 0, niche) \in {NoSignal, 12}
    BY <1>3, <2>2, Zenon
  <2> QED
    BY <2>1, <2>2, <2>3, Zenon
<1> QED
  BY <1>4, <1>5

Counters == {"trades_processed", "signals_generated", "alerts_sent", "errors"}
Stats == [trades_processed : Nat, signals_generated : Nat, alerts_sent : Nat, errors : Nat]

LEMMA CountTypes ==
    ASSUME stats \in [Workers -> Stats], NEW k \in Workers,
           NEW counter \in Counters, Count(k, counter)
    PROVE  stats' \in [Workers -> Stats]
<1>1. stats[k] \in Stats
  OBVIOUS
<1>2. [stats[k] EXCEPT ![counter] = @ + 1] \in Stats
  BY <1>1 DEF Stats, Counters
<1> QED
  BY <1>2 DEF Count

\* A worker's own variables keep their types when it drops its trade.
LEMMA DoneTypes ==
    ASSUME TypeOK, NEW k \in Workers, Done(k)
    PROVE  /\ pc' \in [Workers -> Phases]
           /\ bundle' \in [Workers -> [fresh : {NoSignal} \cup (30 .. 54),
                                       size : {NoSignal, 12}, niche : BOOLEAN]]
<1>1. pc' \in [Workers -> Phases]
  BY DEF TypeOK, Done, Goto, Phases
<1>2. NoBundle \in [fresh : {NoSignal} \cup (30 .. 54),
                    size : {NoSignal, 12}, niche : BOOLEAN]
  BY Zenon DEF NoBundle
<1>3. bundle' \in [Workers -> [fresh : {NoSignal} \cup (30 .. 54),
                               size : {NoSignal, 12}, niche : BOOLEAN]]
  BY <1>2, Zenon DEF TypeOK, Done
<1> QED
  BY <1>1, <1>3

LEMMA DropTypes ==
    ASSUME TypeOK, NEW k \in Workers, Drop(k), stats' \in [Workers -> Stats]
    PROVE  TypeOK'
<1>1. <<trade[k].key, claim[k]>> \in Keys \X Nat
  BY DEF TypeOK
<1>2. lost' \subseteq Keys \X Nat
  BY <1>1, Zenon DEF Drop, TypeOK
<1> QED
  BY <1>2, DoneTypes DEF Drop, TypeOK, Stats

LEMMA InitTypes == Init => TypeOK
<1> SUFFICES ASSUME Init PROVE TypeOK
  OBVIOUS
<1>1. bundle \in [Workers -> [fresh : {NoSignal} \cup (30 .. 54),
                               size : {NoSignal, 12}, niche : BOOLEAN]]
  <2>1. NoBundle \in [fresh : {NoSignal} \cup (30 .. 54),
                      size : {NoSignal, 12}, niche : BOOLEAN]
    BY Zenon DEF NoBundle
  <2> QED
    BY <2>1, Zenon DEF Init
<1>2. stats \in [Workers -> Stats]
  BY DEF Init, ZeroStats, Stats
<1>3. received \in 0 .. MaxTrades
  BY AlertFlowAssumption DEF Init
<1> QED
  BY <1>1, <1>2, <1>3 DEF Init, TypeOK, Phases, Stats

LEMMA NextTypes == TypeOK /\ [Next]_vars => TypeOK'
<1> USE AlertFlowAssumption
<1> SUFFICES ASSUME TypeOK, [Next]_vars PROVE TypeOK'
  OBVIOUS
<1>0. stats \in [Workers -> Stats]
  BY DEF TypeOK, Stats
<1>1. ASSUME NEW k \in Workers, Receive(k) PROVE TypeOK'
  <2>1. stats' \in [Workers -> Stats]
    BY <1>0, <1>1, CountTypes DEF Receive, Counters
  <2>2. received' \in 0 .. MaxTrades
    BY <1>1 DEF Receive, TypeOK
  <2>3. trade' \in [Workers -> [key : Keys, notional : Notionals]]
    BY <1>1, Zenon DEF Receive, TypeOK
  <2> QED
    BY <1>1, <2>1, <2>2, <2>3 DEF Receive, Goto, TypeOK, Phases, Stats, history
<1>2. ASSUME NEW k \in Workers, Detected(k) PROVE TypeOK'
  <2>1. PICK f \in FreshOutcomes(trade[k].notional), s \in SizeOutcomes :
          bundle' = [bundle EXCEPT ![k] = [fresh |-> f, size |-> s.size, niche |-> s.niche]]
    BY <1>2, Zenon DEF Detected
  <2>2. trade[k].notional \in Notionals
    BY DEF TypeOK
  <2>3. f \in {NoSignal} \cup (30 .. 54)
    BY <2>1, <2>2, FreshTypes, Zenon
  <2>4. s.size \in {NoSignal, 12} /\ s.niche \in BOOLEAN
    <3>1. s \in [size : {NoSignal, 12}, niche : BOOLEAN]
      BY <2>1, SizeTypes, Zenon
    <3> QED
      BY <3>1, Zenon
  <2>5. bundle' \in [Workers -> [fresh : {NoSignal} \cup (30 .. 54),
                                 size : {NoSignal, 12}, niche : BOOLEAN]]
    BY <2>1, <2>3, <2>4, Zenon DEF TypeOK
  <2>6. stats' = stats \/ Count(k, "signals_generated")
    BY <1>2, Zenon DEF Detected
  <2>7. stats' \in [Workers -> Stats]
    BY <1>0, <2>6, CountTypes DEF Counters
  <2>8. pc' \in [Workers -> Phases]
    BY <1>2 DEF Detected, Goto, TypeOK, Phases
  <2> QED
    BY <1>2, <2>5, <2>7, <2>8 DEF Detected, TypeOK, Stats, history
<1>3. ASSUME NEW k \in Workers, Persisted(k) PROVE TypeOK'
  <2>1. stats' \in [Workers -> Stats]
    BY <1>0, <1>3, CountTypes DEF Persisted, Counters
  <2> QED
    BY <1>3, <2>1 DEF Persisted, Goto, TypeOK, Phases, Stats, history
<1>4. ASSUME NEW k \in Workers, BelowThreshold(k) \/ Duplicate(k) PROVE TypeOK'
  <2>1. Done(k) /\ UNCHANGED <<trade, stats, received, dedup, history>>
    BY <1>4, Zenon DEF BelowThreshold, Duplicate
  <2> QED
    BY <2>1, DoneTypes DEF TypeOK, history
<1>5. ASSUME NEW k \in Workers, CheckAndSetDedup(k) PROVE TypeOK'
  <2>1. pc' \in [Workers -> Phases]
    BY <1>5 DEF CheckAndSetDedup, Goto, TypeOK, Phases
  <2>2. trade[k].key \in Keys
    BY DEF TypeOK
  <2>3. CASE Claim(k)
    <3>1. window' \in [Keys -> Nat]
      BY <2>2, <2>3 DEF Claim, TypeOK
    <3>2. claim' \in [Workers -> Nat]
      BY <2>2, <2>3, <3>1 DEF Claim, TypeOK
    <3>3. dedup' \subseteq Keys
      BY <2>2, <2>3 DEF Claim, TypeOK
    <3> QED
      BY <1>5, <2>1, <3>1, <3>2, <3>3 DEF CheckAndSetDedup, TypeOK
  <2>4. CASE UNCHANGED <<dedup, window, claim>>
    BY <1>5, <2>1, <2>4 DEF CheckAndSetDedup, TypeOK
  <2> QED
    BY <1>5, <2>3, <2>4, Zenon DEF CheckAndSetDedup
<1>6. ASSUME NEW k \in Workers, BeginDispatch(k) PROVE TypeOK'
  <2>1. <<trade[k].key, claim[k]>> \in Keys \X Nat
    BY DEF TypeOK
  <2>2. begun' \subseteq Keys \X Nat
    BY <1>6, <2>1, Zenon DEF BeginDispatch, TypeOK
  <2> QED
    BY <1>6, <2>2 DEF BeginDispatch, Goto, TypeOK, Phases
<1>7. ASSUME NEW k \in Workers, Dispatched(k) PROVE TypeOK'
  <2>1. stats' = stats \/ Count(k, "alerts_sent")
    BY <1>7, Zenon DEF Dispatched
  <2>2. stats' \in [Workers -> Stats]
    BY <1>0, <2>1, CountTypes DEF Counters
  <2>3. Done(k) /\ UNCHANGED <<trade, received, dedup, history>>
    BY <1>7, Zenon DEF Dispatched
  <2> QED
    BY <2>2, <2>3, DoneTypes DEF TypeOK, Stats, history
<1>8. ASSUME NEW k \in Workers,
             AssessRaised(k) \/ DryRunAlert(k) \/ Cancelled(k) \/ Crash(k)
      PROVE  TypeOK'
  <2>1. Drop(k)
    BY <1>8, Zenon DEF AssessRaised, DryRunAlert, Cancelled, Crash
  <2>2. \/ stats' = stats
        \/ Count(k, "errors")
        \/ stats' = [stats EXCEPT ![k] = ZeroStats]
    BY <1>8, Zenon DEF AssessRaised, DryRunAlert, Cancelled, Crash
  <2>3. ZeroStats \in Stats
    BY DEF ZeroStats, Stats
  <2>4. stats' \in [Workers -> Stats]
    BY <1>0, <2>2, <2>3, CountTypes DEF Counters
  <2> QED
    BY <2>1, <2>4, DropTypes
<1>9. ASSUME NEW key \in Keys, KeyGone(key) PROVE TypeOK'
  BY <1>9 DEF KeyGone, TypeOK, work, history
<1>10. CASE UNCHANGED vars
  BY <1>10 DEF TypeOK, vars, work, history
<1> QED
  BY <1>1, <1>2, <1>3, <1>4, <1>5, <1>6, <1>7, <1>8, <1>9, <1>10, Zenon DEF Next

\* Every variable keeps its type: the confidences stay in the range of the two
\* detectors, and no history records anything but a key and a window.
THEOREM TypesHold == Spec => []TypeOK
<1> QED
  BY InitTypes, NextTypes, PTL DEF Spec

-----------------------------------------------------------------------------
(* Windows.                                                              *)

LEMMA InitWindows == Init => Windows
<1> SUFFICES ASSUME Init PROVE Windows
  OBVIOUS
<1> USE DEF Init
<1>1. ClaimsArePast /\ BegunArePast
  BY DEF ClaimsArePast, BegunArePast, InHand
<1>2. OneAlertPerWindow /\ SilenceHasACause
  BY DEF OneAlertPerWindow, SilenceHasACause, InHand
<1> QED
  BY <1>1, <1>2 DEF Windows

\* A step after which k holds no claim, and which changes no other worker, no
\* key and no window, keeps Windows, if the claim k gave up is in lost.
LEMMA Released ==
    ASSUME TypeOK, Windows, NEW k \in Workers,
           \A j \in Workers \ {k} : pc'[j] = pc[j] /\ trade'[j] = trade[j],
           pc'[k] \notin {"claimed", "dispatching"},
           UNCHANGED <<dedup, window, claim, begun>>,
           lost \subseteq lost',
           pc[k] = "claimed" => ClaimOf(k) \in lost'
    PROVE  Windows'
<1>0. \A j \in Workers : InHand(j)' =>
          j # k /\ InHand(j) /\ pc[j] = pc'[j] /\ trade'[j] = trade[j] /\ claim'[j] = claim[j]
  BY DEF InHand
<1>1. ClaimsArePast'
  BY <1>0 DEF ClaimsArePast, Windows
<1>2. BegunArePast'
  BY DEF BegunArePast, Windows
<1>3. OneAlertPerWindow'
  <2>1. \A j \in Workers : InHand(j)' => ClaimOf(j)' = ClaimOf(j)
    BY <1>0 DEF ClaimOf
  <2>2. \A j \in Workers : pc'[j] = "claimed" => InHand(j)'
    BY DEF InHand
  <2> QED
    BY <1>0, <2>1, <2>2 DEF OneAlertPerWindow, Windows
<1>4. SilenceHasACause'
  <2> SUFFICES ASSUME NEW key \in dedup'
               PROVE  \/ <<key, window[key]>> \in begun \cup lost'
                      \/ \E j \in Workers :
                           pc'[j] = "claimed" /\ ClaimOf(j)' = <<key, window[key]>>
    BY DEF SilenceHasACause
  <2>1. CASE <<key, window[key]>> \in begun \cup lost
    BY <2>1
  <2>2. CASE <<key, window[key]>> \notin begun \cup lost
    <3>1. PICK j \in Workers : pc[j] = "claimed" /\ ClaimOf(j) = <<key, window[key]>>
      BY <2>2 DEF Windows, SilenceHasACause
    <3>2. CASE j = k
      BY <3>1, <3>2
    <3>3. CASE j # k
      BY <3>1, <3>3 DEF ClaimOf
    <3> QED
      BY <3>2, <3>3
  <2> QED
    BY <2>1, <2>2
<1> QED
  BY <1>1, <1>2, <1>3, <1>4 DEF Windows

\* Dropping a trade, with whatever claim there was, is such a step.
LEMMA DropReleases ==
    ASSUME TypeOK, Windows, NEW k \in Workers, Drop(k)
    PROVE  Windows'
<1>1. pc' = [pc EXCEPT ![k] = "idle"] /\ trade' = trade
  BY DEF Drop, Done, Goto
<1>2. lost \subseteq lost' /\ (pc[k] = "claimed" => ClaimOf(k) \in lost')
  BY DEF Drop, ClaimOf
<1> QED
  BY <1>1, <1>2, Released DEF Drop, TypeOK

\* The SET that created a key: its window is later than every claim on the key
\* and every dispatch for it.
LEMMA ClaimOpens ==
    ASSUME TypeOK, Windows, NEW k \in Workers,
           pc[k] = "scoring", trade[k].key \notin dedup,
           Goto(k, "claimed"), Claim(k), UNCHANGED <<trade, begun, lost>>
    PROVE  Windows'
<1> DEFINE key == trade[k].key
<1>1. key \in Keys /\ window[key] \in Nat
  BY DEF TypeOK
<1>2. /\ pc' = [pc EXCEPT ![k] = "claimed"]
      /\ dedup' = dedup \cup {key}
      /\ window' = [window EXCEPT ![key] = window[key] + 1]
      /\ claim' = [claim EXCEPT ![k] = window[key] + 1]
  BY <1>1 DEF Goto, Claim, TypeOK
<1>3. \A other \in Keys : window'[other] \in Nat /\ window[other] <= window'[other]
  BY <1>1, <1>2 DEF TypeOK
<1>4. pc'[k] = "claimed" /\ ClaimOf(k)' = <<key, window[key] + 1>> /\ window'[key] = window[key] + 1
  BY <1>1, <1>2 DEF ClaimOf, TypeOK
<1>5. \A j \in Workers \ {k} :
          /\ pc'[j] = pc[j] /\ claim'[j] = claim[j]
          /\ InHand(j)' = InHand(j) /\ ClaimOf(j)' = ClaimOf(j)
  BY <1>2 DEF InHand, ClaimOf, TypeOK
<1>6. ClaimsArePast'
  <2> SUFFICES ASSUME NEW j \in Workers, InHand(j)'
               PROVE  claim'[j] <= window'[trade[j].key]
    BY DEF ClaimsArePast
  <2>1. CASE j = k
    BY <1>1, <1>2, <2>1 DEF TypeOK
  <2>2. CASE j # k
    <3>1. claim[j] \in Nat /\ trade[j].key \in Keys /\ window[trade[j].key] \in Nat
      BY DEF TypeOK
    <3> QED
      BY <1>3, <1>5, <2>2, <3>1 DEF ClaimsArePast, Windows
  <2> QED
    BY <2>1, <2>2
<1>7. BegunArePast'
  <2> SUFFICES ASSUME NEW other \in Keys, NEW n \in Nat, <<other, n>> \in begun
               PROVE  n <= window'[other]
    BY DEF BegunArePast
  <2>1. n <= window[other] /\ window[other] \in Nat
    BY DEF BegunArePast, Windows, TypeOK
  <2> QED
    BY <1>3, <2>1
<1>8. OneAlertPerWindow'
  <2>1. ClaimOf(k)' \notin begun
    BY <1>1, <1>4 DEF BegunArePast, Windows
  <2>2. \A j \in Workers \ {k} : InHand(j) => ClaimOf(j) # <<key, window[key] + 1>>
    <3> SUFFICES ASSUME NEW j \in Workers \ {k}, InHand(j),
                        ClaimOf(j) = <<key, window[key] + 1>>
                 PROVE  FALSE
      OBVIOUS
    <3>1. trade[j].key = key /\ claim[j] = window[key] + 1
      BY DEF ClaimOf
    <3>2. claim[j] <= window[trade[j].key]
      BY DEF ClaimsArePast, Windows
    <3> QED
      BY <1>1, <3>1, <3>2
  <2> SUFFICES ASSUME NEW j \in Workers
               PROVE  /\ pc'[j] = "claimed" => ClaimOf(j)' \notin begun
                      /\ \A i \in Workers \ {j} :
                           InHand(i)' /\ InHand(j)' => ClaimOf(i)' # ClaimOf(j)'
    BY DEF OneAlertPerWindow
  <2>3. pc'[j] = "claimed" => ClaimOf(j)' \notin begun
    BY <1>5, <2>1 DEF OneAlertPerWindow, Windows
  <2>4. ASSUME NEW i \in Workers \ {j}, InHand(i)', InHand(j)'
        PROVE  ClaimOf(i)' # ClaimOf(j)'
    <3>1. CASE i = k
      BY <1>4, <1>5, <2>2, <2>4, <3>1
    <3>2. CASE j = k
      BY <1>4, <1>5, <2>2, <2>4, <3>2
    <3>3. CASE i # k /\ j # k
      BY <1>5, <2>4, <3>3 DEF OneAlertPerWindow, Windows
    <3> QED
      BY <3>1, <3>2, <3>3
  <2> QED
    BY <2>3, <2>4
<1>9. SilenceHasACause'
  <2> SUFFICES ASSUME NEW other \in dedup'
               PROVE  \/ <<other, window'[other]>> \in begun \cup lost
                      \/ \E j \in Workers :
                           pc'[j] = "claimed" /\ ClaimOf(j)' = <<other, window'[other]>>
    BY DEF SilenceHasACause
  <2>1. CASE other = key
    BY <1>4, <2>1
  <2>2. CASE other # key
    <3>1. other \in dedup /\ window'[other] = window[other]
      BY <1>2, <2>2 DEF TypeOK
    <3>2. CASE <<other, window[other]>> \in begun \cup lost
      BY <3>1, <3>2
    <3>3. CASE <<other, window[other]>> \notin begun \cup lost
      <4>1. PICK j \in Workers : pc[j] = "claimed" /\ ClaimOf(j) = <<other, window[other]>>
        BY <3>1, <3>3 DEF Windows, SilenceHasACause
      <4>2. j # k
        BY <4>1
      <4> QED
        BY <1>5, <3>1, <4>1, <4>2
    <3> QED
      BY <3>2, <3>3
  <2> QED
    BY <2>1, <2>2
<1> QED
  BY <1>6, <1>7, <1>8, <1>9 DEF Windows

\* A claim turns into the dispatch of its window.
LEMMA BeginDispatchWindows ==
    ASSUME TypeOK, Windows, NEW k \in Workers, BeginDispatch(k)
    PROVE  Windows'
<1>1. /\ pc[k] = "claimed" /\ InHand(k)
      /\ pc' = [pc EXCEPT ![k] = "dispatching"]
      /\ begun' = begun \cup {ClaimOf(k)}
      /\ UNCHANGED <<trade, dedup, window, claim, lost>>
  BY DEF BeginDispatch, Goto, InHand, ClaimOf
<1>2. \A j \in Workers :
          /\ ClaimOf(j)' = ClaimOf(j)
          /\ InHand(j)' = InHand(j)
          /\ pc'[j] = "claimed" => j # k /\ pc[j] = "claimed"
  BY <1>1 DEF ClaimOf, InHand, TypeOK
<1>3. ClaimsArePast'
  BY <1>1, <1>2 DEF ClaimsArePast, Windows
<1>4. BegunArePast'
  BY <1>1 DEF BegunArePast, ClaimsArePast, Windows, ClaimOf
<1>5. OneAlertPerWindow'
  <2>1. \A j \in Workers \ {k} : InHand(j) => ClaimOf(j) # ClaimOf(k)
    BY <1>1 DEF OneAlertPerWindow, Windows
  <2>2. \A j \in Workers : pc'[j] = "claimed" => InHand(j)
    BY <1>2 DEF InHand
  <2>3. \A j \in Workers : pc'[j] = "claimed" => ClaimOf(j) \notin begun'
    BY <1>1, <1>2, <2>1, <2>2 DEF OneAlertPerWindow, Windows
  <2> QED
    BY <1>2, <2>3 DEF OneAlertPerWindow, Windows
<1>6. SilenceHasACause'
  BY <1>1, <1>2 DEF SilenceHasACause, Windows, TypeOK
<1> QED
  BY <1>3, <1>4, <1>5, <1>6 DEF Windows

LEMMA NextWindows == TypeOK /\ Windows /\ [Next]_vars => Windows'
<1> SUFFICES ASSUME TypeOK, Windows, [Next]_vars PROVE Windows'
  OBVIOUS
<1>1. ASSUME NEW k \in Workers, Receive(k) PROVE Windows'
  <2>1. \E t \in [key : Keys, notional : Notionals] : trade' = [trade EXCEPT ![k] = t]
    BY <1>1, Zenon DEF Receive
  <2>2. \A j \in Workers \ {k} : trade'[j] = trade[j]
    BY <2>1, Zenon DEF TypeOK
  <2> QED
    BY <1>1, <2>2, Released DEF Receive, Goto, TypeOK, history
<1>2. ASSUME NEW k \in Workers, Detected(k) PROVE Windows'
  <2>1. /\ pc[k] = "detecting"
        /\ \E phase \in {"persisting", "scoring", "idle"} : pc' = [pc EXCEPT ![k] = phase]
        /\ UNCHANGED <<trade, dedup, history>>
    BY <1>2 DEF Detected, Goto
  <2> QED
    BY <2>1, Released DEF TypeOK, history
<1>3. ASSUME NEW k \in Workers,
             Persisted(k) \/ BelowThreshold(k) \/ Duplicate(k) \/ Dispatched(k)
      PROVE  Windows'
  <2>1. /\ pc[k] # "claimed"
        /\ \E phase \in {"scoring", "idle"} : pc' = [pc EXCEPT ![k] = phase]
        /\ UNCHANGED <<trade, dedup, history>>
    BY <1>3 DEF Persisted, BelowThreshold, Duplicate, Dispatched, Done, Goto
  <2> QED
    BY <2>1, Released DEF TypeOK, history
<1>4. ASSUME NEW k \in Workers, CheckAndSetDedup(k) PROVE Windows'
  <2>1. CASE trade[k].key \notin dedup
    BY <1>4, <2>1, ClaimOpens DEF CheckAndSetDedup
  <2>2. CASE trade[k].key \in dedup
    <3>1. /\ pc[k] = "scoring" /\ pc' = [pc EXCEPT ![k] = "refused"]
          /\ UNCHANGED <<trade, dedup, window, claim, begun, lost>>
      BY <1>4, <2>2 DEF CheckAndSetDedup, Goto
    <3> QED
      BY <3>1, Released DEF TypeOK
  <2> QED
    BY <2>1, <2>2
<1>5. ASSUME NEW k \in Workers, BeginDispatch(k) PROVE Windows'
  BY <1>5, BeginDispatchWindows
<1>6. ASSUME NEW k \in Workers,
             AssessRaised(k) \/ DryRunAlert(k) \/ Cancelled(k) \/ Crash(k)
      PROVE  Windows'
  <2>1. Drop(k)
    BY <1>6, Zenon DEF AssessRaised, DryRunAlert, Cancelled, Crash
  <2> QED
    BY <2>1, DropReleases
<1>7. ASSUME NEW key \in Keys, KeyGone(key) PROVE Windows'
  BY <1>7 DEF KeyGone, work, history, Windows, ClaimsArePast, BegunArePast,
              OneAlertPerWindow, SilenceHasACause, InHand, ClaimOf
<1>8. CASE UNCHANGED vars
  BY <1>8 DEF vars, work, history, Windows, ClaimsArePast, BegunArePast,
              OneAlertPerWindow, SilenceHasACause, InHand, ClaimOf
<1> QED
  BY <1>1, <1>2, <1>3, <1>4, <1>5, <1>6, <1>7, <1>8, Zenon DEF Next

LEMMA AlwaysWindows == Spec => []Windows
<1>1. TypeOK /\ Windows /\ [Next]_vars => (TypeOK /\ Windows)'
  BY NextTypes, NextWindows
<1> QED
  BY InitTypes, InitWindows, <1>1, PTL DEF Spec

\* Any number of pipelines on one Redis, crashing and being cancelled anywhere,
\* never begin two dispatches for one window of one wallet in one market.
THEOREM OneAlert == Spec => []OneAlertPerWindow
<1>1. Windows => OneAlertPerWindow
  BY DEF Windows
<1> QED
  BY AlwaysWindows, <1>1, PTL

\* A dedup key that silences a wallet in a market always stands for an alert
\* that was begun, is about to be, or was lost on the way.
THEOREM CausedSilence == Spec => []SilenceHasACause
<1>1. Windows => SilenceHasACause
  BY DEF Windows
<1> QED
  BY AlwaysWindows, <1>1, PTL

-----------------------------------------------------------------------------
(* Statistics.                                                           *)

\* StatsAgree for one worker, in phase and with counters s.  It is inductive,
\* and a step changes it for the worker that takes it alone.
Agrees(phase, s) ==
    /\ s.alerts_sent + s.errors
         + If(phase \in {"scoring", "refused", "claimed", "dispatching"}, 1) <= s.signals_generated
    /\ s.signals_generated
         + If(phase \in {"detecting", "persisting"}, 1) <= s.trades_processed

LEMMA AgreesForAll ==
    StatsAgree <=> \A k \in Workers : Agrees(pc[k], stats[k])
BY DEF StatsAgree, Agrees, If, InHand

LEMMA StepAgrees ==
    ASSUME TypeOK, StatsAgree, NEW k \in Workers, NEW phase, NEW new,
           pc' = [pc EXCEPT ![k] = phase], stats' = [stats EXCEPT ![k] = new],
           Agrees(phase, new)
    PROVE  StatsAgree'
<1>1. \A j \in Workers : Agrees(pc[j], stats[j])
  BY AgreesForAll
<1>2. \A j \in Workers : Agrees(pc'[j], stats'[j])
  BY <1>1, Zenon DEF TypeOK
<1>3. StatsAgree' <=> \A j \in Workers : Agrees(pc'[j], stats'[j])
  BY DEF StatsAgree, Agrees, If, InHand
<1> QED
  BY <1>2, <1>3

LEMMA InitAgrees == Init => StatsAgree
BY DEF Init, StatsAgree, ZeroStats, If, InHand

LEMMA NextAgrees == TypeOK /\ StatsAgree /\ [Next]_vars => StatsAgree'
<1> SUFFICES ASSUME TypeOK, StatsAgree, [Next]_vars PROVE StatsAgree'
  OBVIOUS
<1>0. ASSUME NEW k \in Workers
      PROVE  /\ stats[k] \in Stats /\ Agrees(pc[k], stats[k])
             /\ stats = [stats EXCEPT ![k] = stats[k]]
  BY <1>0, AgreesForAll DEF TypeOK, Stats
<1>1. ASSUME NEW k \in Workers, Receive(k) PROVE StatsAgree'
  <2> DEFINE new == [stats[k] EXCEPT !.trades_processed = @ + 1]
  <2>1. pc[k] = "idle" /\ pc' = [pc EXCEPT ![k] = "detecting"]
        /\ stats' = [stats EXCEPT ![k] = new]
    BY <1>1, Zenon DEF Receive, Goto, Count
  <2>2. Agrees("detecting", new)
    BY <1>0, <2>1 DEF Stats, Agrees, If
  <2> QED
    BY <2>1, <2>2, StepAgrees, Zenon
<1>2. ASSUME NEW k \in Workers, Detected(k) PROVE StatsAgree'
  <2>1. CASE Goto(k, "scoring") /\ Count(k, "signals_generated")
    <3> DEFINE new == [stats[k] EXCEPT !.signals_generated = @ + 1]
    <3>1. pc[k] = "detecting" /\ pc' = [pc EXCEPT ![k] = "scoring"]
          /\ stats' = [stats EXCEPT ![k] = new]
      BY <1>2, <2>1, Zenon DEF Detected, Goto, Count
    <3>2. Agrees("scoring", new)
      BY <1>0, <3>1 DEF Stats, Agrees, If
    <3> QED
      BY <3>1, <3>2, StepAgrees, Zenon
  <2>2. ASSUME NEW phase \in {"persisting", "idle"}, Goto(k, phase), UNCHANGED stats
        PROVE  StatsAgree'
    <3>1. pc[k] = "detecting" /\ pc' = [pc EXCEPT ![k] = phase]
          /\ stats' = [stats EXCEPT ![k] = stats[k]]
      BY <1>0, <1>2, <2>2, Zenon DEF Detected, Goto
    <3>2. Agrees(phase, stats[k])
      BY <1>0, <3>1 DEF Stats, Agrees, If
    <3> QED
      BY <1>0, <3>1, <3>2, StepAgrees, Zenon
  <2> QED
    BY <1>2, <2>1, <2>2, Zenon DEF Detected
<1>3. ASSUME NEW k \in Workers, Persisted(k) PROVE StatsAgree'
  <2> DEFINE new == [stats[k] EXCEPT !.signals_generated = @ + 1]
  <2>1. pc[k] = "persisting" /\ pc' = [pc EXCEPT ![k] = "scoring"]
        /\ stats' = [stats EXCEPT ![k] = new]
    BY <1>3, Zenon DEF Persisted, Goto, Count
  <2>2. Agrees("scoring", new)
    BY <1>0, <2>1 DEF Stats, Agrees, If
  <2> QED
    BY <2>1, <2>2, StepAgrees, Zenon
<1>4. ASSUME NEW k \in Workers, NEW phase \in {"claimed", "refused", "dispatching"},
             pc[k] \in {"scoring", "claimed"},
             Goto(k, phase), UNCHANGED stats
      PROVE  StatsAgree'
  <2>1. pc' = [pc EXCEPT ![k] = phase] /\ stats' = [stats EXCEPT ![k] = stats[k]]
    BY <1>0, <1>4, Zenon DEF Goto
  <2>2. Agrees(phase, stats[k])
    BY <1>0, <1>4 DEF Stats, Agrees, If
  <2> QED
    BY <1>0, <2>1, <2>2, StepAgrees, Zenon
<1>5. ASSUME NEW k \in Workers, Done(k), UNCHANGED stats PROVE StatsAgree'
  <2>1. pc' = [pc EXCEPT ![k] = "idle"] /\ stats' = [stats EXCEPT ![k] = stats[k]]
    BY <1>0, <1>5, Zenon DEF Done, Goto
  <2>2. Agrees("idle", stats[k])
    BY <1>0 DEF Stats, Agrees, If
  <2> QED
    BY <1>0, <2>1, <2>2, StepAgrees, Zenon
<1>6. ASSUME NEW k \in Workers, NEW counter \in {"alerts_sent", "errors"},
             pc[k] \in {"scoring", "refused", "claimed", "dispatching"},
             Done(k), Count(k, counter)
      PROVE  StatsAgree'
  <2> DEFINE new == [stats[k] EXCEPT ![counter] = @ + 1]
  <2>1. pc' = [pc EXCEPT ![k] = "idle"] /\ stats' = [stats EXCEPT ![k] = new]
    BY <1>6, Zenon DEF Done, Goto, Count
  <2>2. Agrees("idle", new)
    BY <1>0, <1>6 DEF Stats, Agrees, If
  <2> QED
    BY <2>1, <2>2, StepAgrees, Zenon
<1>7. ASSUME NEW k \in Workers, CheckAndSetDedup(k) \/ BeginDispatch(k) PROVE StatsAgree'
  BY <1>4, <1>7 DEF CheckAndSetDedup, BeginDispatch
<1>8. ASSUME NEW k \in Workers,
             BelowThreshold(k) \/ Duplicate(k) \/ DryRunAlert(k) \/ Cancelled(k)
      PROVE  StatsAgree'
  BY <1>5, <1>8, Zenon DEF BelowThreshold, Duplicate, DryRunAlert, Cancelled, Drop
<1>9. ASSUME NEW k \in Workers, Dispatched(k) \/ AssessRaised(k) PROVE StatsAgree'
  BY <1>5, <1>6, <1>9 DEF Dispatched, AssessRaised, Drop
<1>10. ASSUME NEW k \in Workers, Crash(k) PROVE StatsAgree'
  <2>1. pc' = [pc EXCEPT ![k] = "idle"] /\ stats' = [stats EXCEPT ![k] = ZeroStats]
    BY <1>10, Zenon DEF Crash, Drop, Done, Goto
  <2>2. Agrees("idle", ZeroStats)
    BY DEF Agrees, ZeroStats, If
  <2> QED
    BY <2>1, <2>2, StepAgrees, Zenon
<1>11. CASE (\E key \in Keys : KeyGone(key)) \/ UNCHANGED vars
  BY <1>11 DEF KeyGone, vars, work, StatsAgree, If, InHand
<1> QED
  BY <1>1, <1>2, <1>3, <1>7, <1>8, <1>9, <1>10, <1>11, Zenon DEF Next

\* At every await of every pipeline, each scored trade was counted as a signal
\* once before it was scored, and at most once as an alert or an error.
THEOREM CountersAgree == Spec => []StatsAgree
<1>1. TypeOK /\ StatsAgree /\ [Next]_vars => (TypeOK /\ StatsAgree)'
  BY NextTypes, NextAgrees
<1> QED
  BY InitTypes, InitAgrees, <1>1, PTL DEF Spec

-----------------------------------------------------------------------------
(* Scores.                                                               *)

\* The highest score: a fresh wallet of confidence 0.9 in a niche market, whose
\* size signal has confidence 0.2, and the bonus for two signals: 0.576.
HighestScore == (54 * 40 + 12 * 35 + 12 * 25) * 12

LEMMA ScoreBound ==
    ASSUME NEW b \in [fresh : {NoSignal} \cup (30 .. 54), size : {NoSignal, 12}, niche : BOOLEAN]
    PROVE  weighted_score(b) <= HighestScore
<1>1. b.fresh \in {NoSignal} \cup (30 .. 54) /\ b.size \in {NoSignal, 12}
  OBVIOUS
<1> DEFINE fresh == If(b.fresh # NoSignal, b.fresh * weight.fresh_wallet)
           size == If(b.size # NoSignal, b.size * weight.size_anomaly)
           niche == If(b.size # NoSignal /\ b.niche, b.size * weight.niche_market)
           bonus == IF signals_triggered(b) >= 2 THEN 12 ELSE 10
<1>2. fresh \in 0 .. 54 * 40 /\ size \in 0 .. 12 * 35 /\ niche \in 0 .. 12 * 25
  <2>1. weight.fresh_wallet = 40 /\ weight.size_anomaly = 35 /\ weight.niche_market = 25
    BY DEF weight
  <2>2. CASE b.niche
    BY <1>1, <2>1, <2>2 DEF If, NoSignal
  <2>3. CASE ~b.niche
    BY <1>1, <2>1, <2>3 DEF If, NoSignal
  <2> QED
    BY <2>2, <2>3, Zenon
<1>3. bonus \in {10, 12}
  OBVIOUS
<1>4. weighted_score(b) = AtMost((fresh + size + niche) * bonus, One)
  BY Zenon DEF weighted_score
<1> HIDE DEF fresh, size, niche, bonus
<1> QED
  BY <1>2, <1>3, <1>4 DEF AtMost, One, HighestScore

\* No worker claims a window, and no dispatch begins.
Silent == begun = {} /\ \A k \in Workers : ~InHand(k)

\* With a threshold above HighestScore, as the default 0.6 is, no trade of any
\* wallet in any market leads to an alert, whatever the detectors find.
THEOREM DefaultThresholdSilences ==
    ASSUME alert_threshold > HighestScore
    PROVE  Spec => []Silent
<1>1. Init => Silent
  BY DEF Init, Silent, InHand
<1>2. TypeOK /\ Silent /\ [Next]_vars => Silent'
  <2> SUFFICES ASSUME TypeOK, Silent, [Next]_vars PROVE Silent'
    OBVIOUS
  <2>1. \A k \in Workers : ~meets_threshold(k)
    <3> SUFFICES ASSUME NEW k \in Workers PROVE ~meets_threshold(k)
      OBVIOUS
    <3>1. bundle[k] \in [fresh : {NoSignal} \cup (30 .. 54),
                         size : {NoSignal, 12}, niche : BOOLEAN]
      BY DEF TypeOK
    <3>2. weighted_score(bundle[k]) <= HighestScore
      BY <3>1, ScoreBound, Zenon
    <3>3. weighted_score(bundle[k]) \in Int
      BY <3>1 DEF weighted_score, AtMost, One, If, weight, NoSignal
    <3> QED
      BY <3>2, <3>3, AlertFlowAssumption DEF meets_threshold, HighestScore
  <2>2. CASE UNCHANGED vars
    BY <2>2 DEF Silent, InHand, vars, work, history
  <2>3. ASSUME NEW k \in Workers, NEW phase \in Phases \ {"claimed", "dispatching"},
               Goto(k, phase), UNCHANGED begun
        PROVE  Silent'
    BY <2>3 DEF Goto, Silent, InHand, TypeOK
  <2>4. ASSUME NEW k \in Workers,
               Receive(k) \/ Detected(k) \/ Persisted(k) \/ BelowThreshold(k) \/ Duplicate(k)
        PROVE  Silent'
    BY <2>3, <2>4 DEF Receive, Detected, Persisted, BelowThreshold, Duplicate, Done,
                      Phases, history
  <2>5. ASSUME NEW k \in Workers,
               CheckAndSetDedup(k) \/ BeginDispatch(k) \/ Dispatched(k)
        PROVE  FALSE
    BY <2>1, <2>5 DEF CheckAndSetDedup, BeginDispatch, Dispatched, Silent, InHand
  <2>6. ASSUME NEW k \in Workers,
               AssessRaised(k) \/ DryRunAlert(k) \/ Cancelled(k) \/ Crash(k)
        PROVE  Silent'
    <3>1. Drop(k)
      BY <2>6, Zenon DEF AssessRaised, DryRunAlert, Cancelled, Crash
    <3> QED
      BY <2>3, <3>1 DEF Drop, Done, Phases
  <2>7. ASSUME NEW key \in Keys, KeyGone(key) PROVE Silent'
    BY <2>7 DEF KeyGone, Silent, InHand, work, history
  <2> QED
    BY <2>2, <2>4, <2>5, <2>6, <2>7, Zenon DEF Next
<1>3. TypeOK /\ Silent /\ [Next]_vars => (TypeOK /\ Silent)'
  BY <1>2, NextTypes
<1> QED
  BY <1>1, <1>3, InitTypes, PTL DEF Spec

-----------------------------------------------------------------------------
(***************************************************************************)
(* The inductive invariant of Poller.  A row is past when no response can*)
(* have it any more, and known when a response that has it is not going  *)
(* to emit it.  The deque evicts in the order of insertion, which is not *)
(* that of the rows; the invariant bounds, for each place in the deque,  *)
(* the rows that can have come in behind it: those of a stretch of       *)
(* max_lag rows, which a response older than its own may bring, and those*)
(* that are newer than it.  So what is evicted is past.                  *)
(***************************************************************************)
Rows == 1 .. Len(tx_of)

Past(q) == q + max_lag + limit <= head
known(q) == tx_of[q] = NoHash \/ tx_of[q] \in seen_set \/ Past(q)

\* A transaction that came in behind one of row p: stretch b + 1 .. b + max_lag
\* is that of the older responses.
Behind(x, p, b) == \E q \in 1 .. head : /\ tx_of[q] = x /\ b < q
                                        /\ q <= b + max_lag \/ p < q

PlaceAt(s, i, p, b) ==
    /\ tx_of[p] = s[i]
    /\ b + max_lag + limit <= head
    /\ \A q \in 1 .. p - 1 : q > b + max_lag => known(q)
    /\ \A j \in i + 1 .. Len(s) : Behind(s[j], p, b)

Place(s, i) == \E p \in 1 .. head, b \in Int : PlaceAt(s, i, p, b)

\* The deque and its set hold the same transactions, each once.
MemoryInv ==
    /\ seen_set = ToSet(seen) /\ Len(seen) <= dedupe_window /\ NoHash \notin seen_set
    /\ \A i, j \in 1 .. Len(seen) : seen[i] = seen[j] => i = j
    /\ \A i \in 1 .. Len(seen) : Place(seen, i)

\* What is left of a batch are the last rows of its response, which is not older
\* than max_lag rows; those before them are known.
BatchInv(l) ==
    LET left == Len(batch[l])
    IN /\ left <= limit /\ left <= upto[l] /\ upto[l] <= head
       /\ \A i \in 1 .. left : batch[l][i] = tx_of[upto[l] - left + i]
       /\ left > 0 => /\ head <= upto[l] + max_lag
                      /\ \A q \in 1 .. upto[l] - left : upto[l] - limit < q => known(q)

\* What was emitted is not emitted again: it is in the deque, or past.
EmittedInv == \A x \in Transactions \ {NoHash} :
    /\ emitted[x] <= 1
    /\ emitted[x] = 1 => x \in seen_set \/ \A q \in Rows : tx_of[q] = x => Past(q)

PollerInv == PollerTypeOK /\ MemoryInv /\ (\A l \in Starts : BatchInv(l)) /\ EmittedInv

-----------------------------------------------------------------------------
LEMMA PollerConstants ==
    /\ limit \in Nat /\ limit > 0 /\ max_lag \in Nat /\ max_spread \in Nat /\ dedupe_window \in Nat
    /\ dedupe_window >= limit + 2 * max_lag + max_spread
    /\ Len(tx_of) \in Nat /\ DOMAIN tx_of = Rows
    /\ \A q \in Rows : tx_of[q] \in Transactions
BY PollerAssumption DEF Rows, Transactions, ToSet

LEMMA Intervals ==
    /\ \A n \in Nat : IsFiniteSet(1 .. n) /\ Cardinality(1 .. n) = n
    /\ \A a \in Int, n \in Nat : IsFiniteSet((a + 1) .. (a + n)) /\ Cardinality((a + 1) .. (a + n)) = n
    /\ \A a, c \in Int : /\ IsFiniteSet((a + 1) .. c)
                         /\ Cardinality((a + 1) .. c) = IF a >= c THEN 0 ELSE c - a
<1>1. ASSUME NEW a \in Int, NEW c \in Int
      PROVE  IsFiniteSet((a + 1) .. c) /\ Cardinality((a + 1) .. c) = IF a >= c THEN 0 ELSE c - a
  <2> DEFINE d == a + 1
  <2>1. d \in Int /\ (d > c <=> a >= c) /\ c - d + 1 = c - a
    OBVIOUS
  <2> HIDE DEF d
  <2>2. IsFiniteSet(d .. c) /\ Cardinality(d .. c) = IF d > c THEN 0 ELSE c - d + 1
    BY <2>1, FS_Interval
  <2>3. IsFiniteSet(d .. c) /\ Cardinality(d .. c) = IF a >= c THEN 0 ELSE c - a
    BY <2>1, <2>2
  <2> USE DEF d
  <2> QED
    BY <2>3
<1>2. ASSUME NEW a \in Int, NEW n \in Nat
      PROVE  IsFiniteSet((a + 1) .. (a + n)) /\ Cardinality((a + 1) .. (a + n)) = n
  <2> DEFINE c == a + n
  <2>1. c \in Int /\ (IF a >= c THEN 0 ELSE c - a) = n
    OBVIOUS
  <2> HIDE DEF c
  <2>2. IsFiniteSet((a + 1) .. c) /\ Cardinality((a + 1) .. c) = n
    BY <1>1, <2>1
  <2> USE DEF c
  <2> QED
    BY <2>2
<1>3. ASSUME NEW n \in Nat
      PROVE  IsFiniteSet(1 .. n) /\ Cardinality(1 .. n) = n
  <2>1. 0 + 1 = 1 /\ 0 + n = n /\ 0 \in Int
    OBVIOUS
  <2> QED
    BY <1>2, <2>1
<1> QED
  BY <1>1, <1>2, <1>3

LEMMA UnionBound ==
    ASSUME NEW S, IsFiniteSet(S), NEW T, IsFiniteSet(T)
    PROVE  /\ IsFiniteSet(S \cup T) /\ Cardinality(S \cup T) \in Nat
           /\ Cardinality(S \cup T) <= Cardinality(S) + Cardinality(T)
<1>1. /\ IsFiniteSet(S \cup T) /\ IsFiniteSet(S \cap T)
      /\ Cardinality(S \cup T) = Cardinality(S) + Cardinality(T) - Cardinality(S \cap T)
  BY FS_Union, FS_Intersection
<1>2. {Cardinality(S), Cardinality(T), Cardinality(S \cup T), Cardinality(S \cap T)} \subseteq Nat
  BY <1>1, FS_CardinalityType
<1> QED
  BY <1>1, <1>2

\* As many transactions as the deque has places for, all behind one of row p: then
\* every row of that one is past.
LEMMA EvictedIsPast ==
    ASSUME PollerTypeOK, NEW p \in 1 .. head, NEW b \in Int, b + max_lag + limit <= head,
           tx_of[p] # NoHash,
           NEW others \in Seq(Transactions), Len(others) = dedupe_window,
           \A i, j \in 1 .. dedupe_window : others[i] = others[j] => i = j,
           \A j \in 1 .. dedupe_window : others[j] # tx_of[p] /\ Behind(others[j], p, b)
    PROVE  \A r \in Rows : tx_of[r] = tx_of[p] => Past(r)
<1> USE PollerConstants
<1>1. head \in Nat /\ head <= Len(tx_of) /\ p \in Rows
  BY DEF PollerTypeOK, Rows
<1>2. ASSUME NEW r \in Rows, tx_of[r] = tx_of[p], r >= p
      PROVE  Past(r)
  <2> DEFINE A == (b + 1) .. (b + max_lag)
             B == {q \in p .. r : tx_of[q] # tx_of[p]}
             C == (r + 1) .. head
             R == A \cup (B \cup C)
             f == [j \in 1 .. dedupe_window |->
                      CHOOSE q \in 1 .. head : /\ tx_of[q] = others[j] /\ b < q
                                               /\ q <= b + max_lag \/ p < q]
  <2>1. IsFiniteSet(A) /\ Cardinality(A) = max_lag
    BY Intervals
  <2>2. IsFiniteSet(C) /\ Cardinality(C) \in Nat /\ Cardinality(C) = IF r >= head THEN 0 ELSE head - r
    <3>1. r \in Int /\ head \in Int
      BY <1>1 DEF Rows
    <3>2. IsFiniteSet(C) /\ Cardinality(C) = IF r >= head THEN 0 ELSE head - r
      BY <3>1, Intervals
    <3> HIDE DEF C
    <3> QED
      BY <3>1, <3>2
  <2>3. IsFiniteSet(B) /\ Cardinality(B) <= max_spread /\ Cardinality(B) \in Nat
    <3>1. IsFiniteSet(p .. r)
      BY FS_Interval DEF Rows
    <3>2. IsFiniteSet(B)
      BY <3>1, FS_Subset
    <3>3. Cardinality(B) <= max_spread
      <4>1. p \in DOMAIN tx_of /\ r \in DOMAIN tx_of
        BY <1>1, <1>2, PollerAssumption DEF Rows
      <4> QED
        BY <1>2, <4>1, PollerAssumption
    <3> QED
      BY <3>2, <3>3, FS_CardinalityType
  <2>4. IsFiniteSet(R) /\ Cardinality(R) <= max_lag + max_spread + Cardinality(C) /\ Cardinality(R) \in Nat
    <3>1. /\ IsFiniteSet(B \cup C) /\ Cardinality(B \cup C) \in Nat
          /\ Cardinality(B \cup C) <= Cardinality(B) + Cardinality(C)
      BY <2>2, <2>3, UnionBound
    <3>2. /\ IsFiniteSet(R) /\ Cardinality(R) \in Nat
          /\ Cardinality(R) <= Cardinality(A) + Cardinality(B \cup C)
      BY <2>1, <3>1, UnionBound
    <3> DEFINE BC == B \cup C
    <3> HIDE DEF A, B, C, BC, R
    <3>3. Cardinality(BC) \in Nat /\ Cardinality(BC) <= Cardinality(B) + Cardinality(C)
      BY <3>1 DEF BC
    <3>4. IsFiniteSet(R) /\ Cardinality(R) \in Nat /\ Cardinality(R) <= Cardinality(A) + Cardinality(BC)
      BY <3>2 DEF BC, R
    <3>5. PICK r_ \in Nat : r_ = Cardinality(R)
      BY <3>4
    <3>6. PICK bc \in Nat : bc = Cardinality(BC)
      BY <3>3
    <3>7. PICK b_ \in Nat, c_ \in Nat : b_ = Cardinality(B) /\ c_ = Cardinality(C)
      BY <2>2, <2>3
    <3>8. r_ <= max_lag + bc /\ bc <= b_ + c_ /\ b_ <= max_spread
      BY <2>1, <2>3, <3>3, <3>4, <3>5, <3>6, <3>7
    <3>9. r_ <= max_lag + max_spread + c_
      BY <3>8
    <3> QED
      BY <3>4, <3>5, <3>7, <3>9
  <2>5. \A j \in 1 .. dedupe_window : tx_of[f[j]] = others[j] /\ f[j] \in R
    <3> SUFFICES ASSUME NEW j \in 1 .. dedupe_window
                 PROVE  tx_of[f[j]] = others[j] /\ f[j] \in R
      OBVIOUS
    <3>1. \E q \in 1 .. head : /\ tx_of[q] = others[j] /\ b < q
                               /\ q <= b + max_lag \/ p < q
      BY DEF Behind
    <3>2. /\ f[j] \in 1 .. head /\ tx_of[f[j]] = others[j] /\ b < f[j]
          /\ f[j] <= b + max_lag \/ p < f[j]
      BY <3>1
    <3>3. others[j] # tx_of[p]
      OBVIOUS
    <3> HIDE DEF f
    <3>4. r \in Int /\ head \in Int /\ f[j] \in Int /\ f[j] <= head
      BY <1>1, <3>2 DEF Rows
    <3>5. CASE f[j] <= b + max_lag
      <4>1. f[j] \in A
        BY <3>2, <3>4, <3>5
      <4> QED
        BY <3>2, <4>1
    <3>6. CASE p < f[j] /\ f[j] <= r
      <4>1. f[j] \in B
        BY <3>2, <3>3, <3>4, <3>6
      <4> QED
        BY <3>2, <4>1
    <3>7. CASE p < f[j] /\ f[j] > r
      <4> HIDE DEF A, B
      <4>1. PICK k \in Int : k = f[j]
        BY <3>4
      <4>2. k \in (r + 1) .. head
        BY <3>4, <3>7, <4>1
      <4>3. f[j] \in C
        BY <4>1, <4>2
      <4> QED
        BY <3>2, <4>3
    <3> QED
      BY <3>2, <3>4, <3>5, <3>6, <3>7
  <2>6. f \in Injection(1 .. dedupe_window, R)
    <3> HIDE DEF R
    <3>0. f = [j \in 1 .. dedupe_window |-> f[j]]
      OBVIOUS
    <3> HIDE DEF f
    <3>1. f \in [1 .. dedupe_window -> R]
      BY <2>5, <3>0
    <3>2. ASSUME NEW i \in 1 .. dedupe_window, NEW j \in 1 .. dedupe_window, f[i] = f[j]
          PROVE  i = j
      <4>1. others[i] = others[j]
        BY <2>5, <3>2
      <4> QED
        BY <4>1
    <3> QED
      BY <3>1, <3>2 DEF Injection, IsInjective
  <2>7. dedupe_window <= Cardinality(R)
    <3> HIDE DEF f, R
    <3>1. Cardinality(1 .. dedupe_window) <= Cardinality(R)
      BY <2>4, <2>6, FS_Injection
    <3>2. Cardinality(1 .. dedupe_window) = dedupe_window
      BY Intervals
    <3> QED
      BY <3>1, <3>2
  <2> HIDE DEF A, B, C, R, f
  <2>8. dedupe_window <= max_lag + max_spread + Cardinality(C)
    BY <2>2, <2>4, <2>7
  <2>9. r \in Nat /\ r < head /\ dedupe_window <= max_lag + max_spread + (head - r)
    <3>1. r \in Nat
      BY DEF Rows
    <3> QED
      BY <1>1, <2>2, <2>8, <3>1
  <2>10. r + max_lag + limit <= head
    <3>1. limit + 2 * max_lag + max_spread <= max_lag + max_spread + (head - r)
      BY <1>1, <2>9
    <3> QED
      BY <1>1, <2>9, <3>1
  <2> QED
    BY <2>10 DEF Past
<1>3. Past(p)
  BY <1>1, <1>2
<1> QED
  BY <1>1, <1>2, <1>3 DEF Past, Rows

-----------------------------------------------------------------------------
\* What a step keeps: trades are only made, and what leaves the set is past.
MemoryGrows ==
    /\ head' \in 0 .. Len(tx_of) /\ head <= head'
    /\ \A x \in seen_set \ seen_set' : \A q \in Rows : tx_of[q] = x => Past(q)

LEMMA KnownStays ==
    ASSUME PollerTypeOK, MemoryGrows, NEW q \in Rows
    PROVE  (Past(q) => Past(q)') /\ (known(q) => known(q)')
<1>1. q \in Nat /\ head \in Nat /\ head' \in Nat /\ head <= head'
  BY PollerConstants DEF MemoryGrows, PollerTypeOK, Rows
<1>2. Past(q) => Past(q)'
  BY <1>1, PollerConstants DEF Past
<1> QED
  BY <1>2 DEF known, MemoryGrows

LEMMA PlaceStays ==
    ASSUME PollerTypeOK, MemoryGrows, NEW s, NEW i, Place(s, i)
    PROVE  Place(s, i)'
<1>1. head \in Nat /\ head' \in Nat /\ head <= head' /\ head' <= Len(tx_of)
  BY PollerConstants DEF MemoryGrows, PollerTypeOK
<1>2. PICK p \in 1 .. head, b \in Int : PlaceAt(s, i, p, b)
  BY DEF Place
<1>3. b + max_lag + limit <= head'
  BY <1>1, <1>2, PollerConstants DEF PlaceAt
<1>4. \A q \in 1 .. p - 1 : q > b + max_lag => known(q)'
  BY <1>1, <1>2, KnownStays DEF PlaceAt, Rows
<1>5. \A j \in i + 1 .. Len(s) : Behind(s[j], p, b)'
  BY <1>1, <1>2 DEF PlaceAt, Behind
<1>6. p \in 1 .. head' /\ PlaceAt(s, i, p, b)'
  BY <1>1, <1>2, <1>3, <1>4, <1>5 DEF PlaceAt
<1> QED
  BY <1>6 DEF Place

LEMMA BatchStays ==
    ASSUME PollerTypeOK, MemoryGrows, NEW l \in Starts, BatchInv(l),
           UNCHANGED <<batch[l], upto[l]>>,
           batch[l] # <<>> => head' <= upto[l] + max_lag
    PROVE  BatchInv(l)'
<1>1. /\ upto[l] \in Nat /\ upto[l] <= Len(tx_of) /\ batch[l] \in Seq(Transactions) /\ head \in Nat
      /\ head' \in Nat /\ head <= head'
  BY PollerConstants DEF PollerTypeOK, MemoryGrows
<1>2. Len(batch[l]) > 0 => batch[l] # <<>>
  BY <1>1
<1>3. Len(batch[l]) \in Nat
  BY <1>1
<1>4. ASSUME Len(batch[l]) > 0, NEW q \in 1 .. upto[l] - Len(batch[l]), upto[l] - limit < q
      PROVE  known(q)'
  <2>1. q \in Rows /\ known(q)
    BY <1>1, <1>3, <1>4 DEF BatchInv, Rows
  <2> QED
    BY <2>1, KnownStays
<1> QED
  BY <1>1, <1>2, <1>3, <1>4 DEF BatchInv

\* Nothing is emitted, and nothing is forgotten but what is past.
LEMMA EmittedStays ==
    ASSUME PollerTypeOK, MemoryGrows, EmittedInv, UNCHANGED emitted
    PROVE  EmittedInv'
BY KnownStays DEF EmittedInv, MemoryGrows

\* The steps that leave the memory alone.
LEMMA MemoryStays ==
    ASSUME PollerTypeOK, MemoryGrows, MemoryInv, EmittedInv, UNCHANGED <<memory, emitted>>
    PROVE  MemoryInv' /\ EmittedInv'
<1>1. PICK s : s = seen /\ seen' = s /\ seen_set' = seen_set
  BY DEF memory
<1>2. ASSUME NEW i \in 1 .. Len(s)
      PROVE  Place(s, i)'
  <2>1. Place(s, i)
    BY <1>1 DEF MemoryInv
  <2> QED
    BY <2>1, PlaceStays
<1>3. MemoryInv'
  <2>1. \A i \in 1 .. Len(seen)' : Place(seen, i)'
    BY <1>1, <1>2 DEF Place, PlaceAt
  <2> QED
    BY <1>1, <2>1 DEF MemoryInv
<1> QED
  BY <1>3, EmittedStays

\* The steps that leave the batches alone too.
LEMMA BatchesStay ==
    ASSUME PollerInv, UNCHANGED <<memory, batch, upto, emitted>>,
           head' \in 0 .. Len(tx_of), head <= head',
           \A l \in Starts : batch[l] # <<>> => head' <= upto[l] + max_lag
    PROVE  MemoryInv' /\ (\A l \in Starts : BatchInv(l)') /\ EmittedInv'
<1>1. MemoryGrows /\ PollerTypeOK
  BY DEF MemoryGrows, PollerInv, memory
<1>2. \A l \in Starts : BatchInv(l)'
  BY <1>1, BatchStays DEF PollerInv
<1> QED
  BY <1>1, <1>2, MemoryStays DEF PollerInv

LEMMA WindowRows ==
    ASSUME NEW end \in 0 .. Len(tx_of)
    PROVE  /\ Window(end) \in Seq(Transactions)
           /\ Len(Window(end)) = IF end < limit THEN end ELSE limit
           /\ \A i \in 1 .. Len(Window(end)) : Window(end)[i] = tx_of[end - Len(Window(end)) + i]
<1> DEFINE n == IF end < limit THEN end ELSE limit
           k == IF end < limit THEN 0 ELSE end - limit
<1>1. n \in Nat /\ k \in Nat /\ k = end - n /\ end \in Nat /\ end <= Len(tx_of)
  BY PollerConstants
<1>2. Window(end) = [i \in 1 .. n |-> tx_of[k + i]]
  BY DEF Window
<1> HIDE DEF n, k
<1>3. \A i \in 1 .. n : k + i \in Rows /\ tx_of[k + i] \in Transactions
  BY <1>1, PollerConstants DEF Rows
<1>4. Window(end) \in Seq(Transactions) /\ Len(Window(end)) = n
  <2>1. Window(end) \in [1 .. n -> Transactions]
    BY <1>2, <1>3
  <2> QED
    BY <1>1, <2>1
<1>5. \A i \in 1 .. n : Window(end)[i] = tx_of[end - n + i]
  BY <1>1, <1>2
<1> USE DEF n
<1> QED
  BY <1>4, <1>5

\* A response: all its rows are left, and it is recent.
LEMMA FetchKeepsInv ==
    ASSUME PollerInv, NEW l \in Starts, Fetch(l)
    PROVE  /\ batch' \in [Starts -> Seq(Transactions)] /\ upto' \in [Starts -> 0 .. Len(tx_of)]
           /\ MemoryInv' /\ (\A k \in Starts : BatchInv(k)') /\ EmittedInv'
<1>1. /\ PollerTypeOK /\ MemoryGrows /\ head \in Nat /\ head <= Len(tx_of)
      /\ UNCHANGED <<head, memory, emitted>>
  BY PollerConstants DEF PollerInv, PollerTypeOK, MemoryGrows, Fetch, memory
<1>2. CASE UNCHANGED <<batch, upto>>
  <2>1. \A k \in Starts : batch[k] # <<>> => head' <= upto[k] + max_lag
    BY <1>1 DEF PollerInv, PollerTypeOK, BatchInv
  <2> QED
    BY <1>1, <1>2, <2>1, BatchesStay DEF PollerInv, PollerTypeOK
<1>3. ASSUME NEW end \in {n \in 0 .. head : n + max_lag >= head},
             batch' = [batch EXCEPT ![l] = Window(end)], upto' = [upto EXCEPT ![l] = end]
      PROVE  /\ batch' \in [Starts -> Seq(Transactions)] /\ upto' \in [Starts -> 0 .. Len(tx_of)]
             /\ MemoryInv' /\ (\A k \in Starts : BatchInv(k)') /\ EmittedInv'
  <2>1. end \in 0 .. Len(tx_of) /\ end <= head /\ head <= end + max_lag
    BY <1>1, PollerConstants
  <2>2. /\ Window(end) \in Seq(Transactions)
        /\ Len(Window(end)) = IF end < limit THEN end ELSE limit
        /\ \A i \in 1 .. Len(Window(end)) : Window(end)[i] = tx_of[end - Len(Window(end)) + i]
    BY <2>1, WindowRows
  <2>3. batch' \in [Starts -> Seq(Transactions)] /\ upto' \in [Starts -> 0 .. Len(tx_of)]
    BY <1>1, <1>3, <2>1, <2>2 DEF PollerTypeOK
  <2>4. batch'[l] = Window(end) /\ upto'[l] = end
    BY <1>1, <1>3 DEF PollerTypeOK
  <2>5. BatchInv(l)'
    <3> DEFINE w == Window(end)
    <3>1. /\ batch'[l] = w /\ upto'[l] = end /\ head' = head
          /\ Len(w) = (IF end < limit THEN end ELSE limit)
          /\ \A i \in 1 .. Len(w) : w[i] = tx_of[end - Len(w) + i]
      BY <1>1, <2>2, <2>4
    <3> HIDE DEF w
    <3>2. Len(w) <= limit /\ Len(w) <= end
      BY <2>1, <3>1, PollerConstants
    <3>3. \A q \in 1 .. end - Len(w) : ~(end - limit < q)
      BY <2>1, <3>1, PollerConstants
    <3> QED
      BY <2>1, <3>1, <3>2, <3>3 DEF BatchInv
  <2>6. \A k \in Starts \ {l} : BatchInv(k)'
    <3> SUFFICES ASSUME NEW k \in Starts \ {l} PROVE BatchInv(k)'
      OBVIOUS
    <3>1. batch'[k] = batch[k] /\ upto'[k] = upto[k] /\ BatchInv(k)
      BY <1>1, <1>3 DEF PollerTypeOK, PollerInv
    <3>2. batch[k] # <<>> => head' <= upto[k] + max_lag
      BY <1>1, <3>1 DEF BatchInv, PollerTypeOK
    <3> QED
      BY <1>1, <3>1, <3>2, BatchStays
  <2>7. MemoryInv' /\ EmittedInv'
    BY <1>1, MemoryStays DEF PollerInv
  <2> QED
    BY <2>3, <2>5, <2>6, <2>7
<1> QED
  BY <1>2, <1>3 DEF Fetch

\* A row that is not known comes in behind everything in the deque.
LEMMA NewIsBehind ==
    ASSUME PollerTypeOK, NEW q0 \in 1 .. head, ~known(q0),
           NEW s, NEW i, NEW p \in 1 .. head, NEW b \in Int, PlaceAt(s, i, p, b), tx_of[p] \in seen_set
    PROVE  Behind(tx_of[q0], p, b)
<1>1. head \in Nat /\ q0 + max_lag + limit > head /\ q0 # p
  BY PollerConstants DEF PollerTypeOK, known, Past
<1>2. b < q0
  <2>1. b + max_lag + limit <= head
    BY DEF PlaceAt
  <2>2. q0 \in Int /\ max_lag \in Int /\ limit \in Int
    BY PollerConstants
  <2> QED
    BY <1>1, <2>1, <2>2
<1>3. q0 <= b + max_lag \/ p < q0
  <2>1. CASE q0 < p
    <3>1. q0 \in 1 .. p - 1
      BY <1>1, <2>1
    <3> QED
      BY <1>1, <3>1, PollerConstants DEF PlaceAt
  <2> QED
    BY <1>1, <2>1
<1> QED
  BY <1>2, <1>3 DEF Behind

\* _remember of a row that is not known: what it evicts is past, and it is the
\* last of the deque.
LEMMA RemembersNew ==
    ASSUME PollerTypeOK, MemoryInv, UNCHANGED head,
           NEW q0 \in 1 .. head, ~known(q0), remember(tx_of[q0]),
           NEW b0 \in Int, b0 + max_lag + limit <= head,
           \A q \in 1 .. q0 - 1 : q > b0 + max_lag => known(q)
    PROVE  /\ MemoryGrows /\ MemoryInv' /\ tx_of[q0] \in seen_set'
           /\ seen' \in Seq(Transactions) /\ seen_set' \subseteq Transactions
<1> DEFINE full == Len(seen) = dedupe_window
<1>0. PICK d \in 0 .. 1 : d = IF full THEN 1 ELSE 0
  OBVIOUS
<1>1. /\ seen \in Seq(Transactions) /\ seen_set \subseteq Transactions /\ Len(seen) \in Nat
      /\ dedupe_window \in Nat /\ dedupe_window > 0 /\ Len(seen) <= dedupe_window
      /\ head \in Nat /\ head <= Len(tx_of) /\ 1 .. head \subseteq Rows
  BY PollerConstants DEF PollerTypeOK, MemoryInv, Rows
<1>2. PICK x : x = tx_of[q0]
  OBVIOUS
<1>3. x \in Transactions /\ x # NoHash /\ x \notin seen_set
  BY <1>1, <1>2, PollerConstants DEF known
<1>4. PICK s : s = IF full THEN Tail(seen) ELSE seen
  OBVIOUS
<1>5. /\ s \in Seq(Transactions) /\ Len(s) \in Nat /\ Len(s) = Len(seen) - d
      /\ \A i \in 1 .. Len(s) : s[i] = seen[i + d] /\ i + d \in 1 .. Len(seen)
      /\ Len(s) + 1 <= dedupe_window
      /\ full => Len(s) + 1 = dedupe_window
  <2>1. CASE full
    BY <1>0, <1>1, <1>4, <2>1
  <2>2. CASE ~full
    BY <1>0, <1>1, <1>4, <2>2
  <2> QED
    BY <2>1, <2>2
<1>6. PICK r : r = s \o <<x>>
  OBVIOUS
<1>7. /\ r \in Seq(Transactions) /\ Len(r) = Len(s) + 1 /\ r[Len(s) + 1] = x
      /\ \A i \in 1 .. Len(s) : r[i] = s[i]
  BY <1>3, <1>5, <1>6
<1>8. /\ seen' = r
      /\ seen_set' = (IF full THEN seen_set \ {seen[1]} ELSE seen_set) \cup {x}
  <2>1. CASE full
    <3>1. seen # <<>> /\ Head(seen) = seen[1] /\ s = Tail(seen)
      BY <1>1, <1>4, <2>1
    <3> QED
      BY <1>2, <1>6, <2>1, <3>1 DEF remember
  <2>2. CASE ~full
    BY <1>1, <1>2, <1>4, <1>6, <2>2 DEF remember
  <2> QED
    BY <2>1, <2>2
<1>9. \A i, j \in 1 .. Len(seen) : seen[i] = seen[j] => i = j
  BY DEF MemoryInv
<1>10. \A i \in 1 .. Len(seen) : seen[i] \in seen_set
  BY <1>1 DEF MemoryInv, ToSet
<1>11. \A i, j \in 1 .. Len(r) : r[i] = r[j] => i = j
  <2>1. \A i, j \in 1 .. Len(s) : s[i] = s[j] => i = j
    <3> SUFFICES ASSUME NEW i \in 1 .. Len(s), NEW j \in 1 .. Len(s), s[i] = s[j] PROVE i = j
      OBVIOUS
    <3>1. seen[i + d] = seen[j + d] /\ i + d \in 1 .. Len(seen) /\ j + d \in 1 .. Len(seen)
      BY <1>5
    <3>2. i + d = j + d
      BY <1>9, <3>1
    <3> QED
      BY <1>5, <3>2
  <2>2. \A i \in 1 .. Len(s) : s[i] # x
    BY <1>3, <1>5, <1>10
  <2>3. \A i \in 1 .. Len(r) : i \in 1 .. Len(s) \/ i = Len(s) + 1
    BY <1>5, <1>7
  <2> QED
    BY <1>7, <2>1, <2>2, <2>3
<1>12. seen_set' = ToSet(r) /\ x \in seen_set' /\ seen_set' \subseteq Transactions /\ NoHash \notin seen_set'
  <2>1. seen_set = {seen[i] : i \in 1 .. Len(seen)}
    BY <1>1 DEF MemoryInv, ToSet
  <2>2. {s[i] : i \in 1 .. Len(s)} = IF full THEN seen_set \ {seen[1]} ELSE seen_set
    <3>1. CASE full
      <4>1. {s[i] : i \in 1 .. Len(s)} = {seen[k] : k \in 2 .. Len(seen)}
        <5>1. \A i \in 1 .. Len(s) : s[i] = seen[i + 1] /\ i + 1 \in 2 .. Len(seen)
          BY <1>0, <1>1, <1>5, <3>1
        <5>2. \A k \in 2 .. Len(seen) : k - 1 \in 1 .. Len(s) /\ s[k - 1] = seen[k]
          <6> SUFFICES ASSUME NEW k \in 2 .. Len(seen)
                       PROVE  k - 1 \in 1 .. Len(s) /\ s[k - 1] = seen[k]
            OBVIOUS
          <6>1. k - 1 \in 1 .. Len(s) /\ (k - 1) + 1 = k
            BY <1>0, <1>1, <1>5, <3>1
          <6> QED
            BY <5>1, <6>1
        <5>3. ASSUME NEW i \in 1 .. Len(s)
              PROVE  s[i] \in {seen[k] : k \in 2 .. Len(seen)}
          BY <5>1
        <5>4. ASSUME NEW k \in 2 .. Len(seen)
              PROVE  seen[k] \in {s[i] : i \in 1 .. Len(s)}
          BY <5>2
        <5> QED
          BY <5>3, <5>4
      <4>2. {seen[k] : k \in 2 .. Len(seen)} = seen_set \ {seen[1]}
        BY <1>1, <1>9, <2>1, <3>1
      <4> QED
        BY <3>1, <4>1, <4>2
    <3>2. CASE ~full
      BY <1>4, <2>1, <3>2
    <3> QED
      BY <3>1, <3>2
  <2>3. ToSet(r) = {s[i] : i \in 1 .. Len(s)} \cup {x}
    <3>1. DOMAIN r = 1 .. Len(s) + 1
      BY <1>5, <1>7
    <3>2. \A i \in 1 .. Len(s) + 1 : i \in 1 .. Len(s) \/ i = Len(s) + 1
      BY <1>5
    <3>3. 1 .. Len(s) \subseteq 1 .. Len(s) + 1 /\ Len(s) + 1 \in 1 .. Len(s) + 1
      BY <1>5
    <3> QED
      BY <1>7, <3>1, <3>2, <3>3 DEF ToSet
  <2>4. NoHash \notin seen_set
    BY DEF MemoryInv
  <2> QED
    BY <1>1, <1>3, <1>8, <2>2, <2>3, <2>4
<1>13. \A i \in 1 .. Len(seen), p \in 1 .. head, b \in Int : PlaceAt(seen, i, p, b) => Behind(x, p, b)
  BY <1>2, <1>10, NewIsBehind DEF PlaceAt
<1>14. MemoryGrows
  <2>1. head' \in 0 .. Len(tx_of) /\ head <= head'
    BY <1>1
  <2>2. ASSUME full
        PROVE  \A q \in Rows : tx_of[q] = seen[1] => Past(q)
    <3>1. 1 \in 1 .. Len(seen)
      BY <1>1, <2>2
    <3>2. PICK p \in 1 .. head, b \in Int : PlaceAt(seen, 1, p, b)
      BY <3>1 DEF MemoryInv, Place
    <3>3. tx_of[p] = seen[1] /\ b + max_lag + limit <= head /\ tx_of[p] # NoHash
      BY <1>10, <3>1, <3>2 DEF PlaceAt, MemoryInv
    <3>4. Len(r) = dedupe_window
      BY <1>5, <1>7, <2>2
    <3>5. \A j \in 1 .. Len(r) : r[j] # seen[1] /\ Behind(r[j], p, b)
      <4> SUFFICES ASSUME NEW j \in 1 .. Len(r) PROVE r[j] # seen[1] /\ Behind(r[j], p, b)
        OBVIOUS
      <4>1. CASE j = Len(s) + 1
        <5>1. r[j] = r[Len(s) + 1]
          BY <4>1
        <5> QED
          BY <1>3, <1>7, <1>10, <1>13, <3>1, <3>2, <5>1
      <4>2. CASE j # Len(s) + 1
        <5>0. j \in 1 .. Len(s) /\ d = 1
          BY <1>0, <1>5, <1>7, <2>2, <4>2
        <5>1. r[j] = seen[j + 1] /\ j + 1 \in 1 .. Len(seen) /\ j + 1 # 1
          BY <1>5, <1>7, <5>0
        <5>2. j + 1 \in 1 + 1 .. Len(seen)
          BY <1>1, <5>1
        <5> QED
          BY <1>9, <3>1, <3>2, <5>1, <5>2 DEF PlaceAt
      <4> QED
        BY <4>1, <4>2
    <3>6. r \in Seq(Transactions) /\ \A i, j \in 1 .. dedupe_window : r[i] = r[j] => i = j
      BY <1>7, <1>11, <3>4
    <3>7. \A j \in 1 .. dedupe_window : r[j] # tx_of[p] /\ Behind(r[j], p, b)
      BY <3>3, <3>4, <3>5
    <3> QED
      BY <3>3, <3>4, <3>6, <3>7, EvictedIsPast
  <2>3. seen_set \ seen_set' \subseteq IF full THEN {seen[1]} ELSE {}
    BY <1>8
  <2> QED
    BY <2>1, <2>2, <2>3 DEF MemoryGrows
<1>15. \A i \in 1 .. Len(r) : Place(r, i)
  <2> SUFFICES ASSUME NEW i \in 1 .. Len(r) PROVE Place(r, i)
    OBVIOUS
  <2>1. CASE i = Len(s) + 1
    <3>1. i + 1 .. Len(r) = {}
      BY <1>5, <1>7, <2>1
    <3>2. PlaceAt(r, i, q0, b0)
      BY <1>2, <1>7, <2>1, <3>1 DEF PlaceAt
    <3> QED
      BY <3>2 DEF Place
  <2>2. CASE i # Len(s) + 1
    <3>1. i \in 1 .. Len(s) /\ r[i] = seen[i + d] /\ i + d \in 1 .. Len(seen)
      <4>1. Len(s) \in Nat /\ Len(r) = Len(s) + 1
        BY <1>5, <1>7
      <4>2. i \in 1 .. Len(s)
        BY <2>2, <4>1
      <4> QED
        BY <1>5, <1>7, <4>2
    <3>2. PICK p \in 1 .. head, b \in Int : PlaceAt(seen, i + d, p, b)
      BY <3>1 DEF MemoryInv, Place
    <3>3. ASSUME NEW j \in i + 1 .. Len(r)
          PROVE  Behind(r[j], p, b)
      <4>1. CASE j = Len(s) + 1
        BY <1>7, <1>13, <3>1, <3>2, <4>1
      <4>2. CASE j # Len(s) + 1
        <5>1. j \in 1 .. Len(s) /\ r[j] = seen[j + d] /\ j + d \in (i + d) + 1 .. Len(seen)
          <6>1. j \in 1 .. Len(s) /\ i \in 1 .. Len(s) /\ j > i
            <7>1. j \in i + 1 .. Len(s) + 1 /\ j # Len(s) + 1 /\ i \in 1 .. Len(s) /\ Len(s) \in Nat
              BY <1>5, <1>7, <3>1, <3>3, <4>2
            <7> QED
              BY <7>1
          <6>2. r[j] = s[j] /\ s[j] = seen[j + d] /\ j + d \in 1 .. Len(seen)
            BY <1>5, <1>7, <6>1
          <6> QED
            BY <1>1, <6>1, <6>2
        <5> QED
          BY <3>2, <5>1 DEF PlaceAt
      <4> QED
        BY <4>1, <4>2
    <3>4. PlaceAt(r, i, p, b)
      BY <3>1, <3>2, <3>3 DEF PlaceAt
    <3> QED
      BY <3>4 DEF Place
  <2> QED
    BY <2>1, <2>2
<1>16. \A i \in 1 .. Len(r) : Place(r, i)'
  BY <1>14, <1>15, PlaceStays
<1>17. MemoryInv'
  <2>1. \A i \in 1 .. Len(seen') : Place(seen, i)'
    BY <1>8, <1>16 DEF Place, PlaceAt
  <2>2. Len(seen') <= dedupe_window
    BY <1>5, <1>7, <1>8
  <2> QED
    BY <1>8, <1>11, <1>12, <2>1, <2>2 DEF MemoryInv
<1> QED
  BY <1>2, <1>7, <1>8, <1>12, <1>14, <1>17

\* One row of a batch: once it is handled it is known.
LEMMA EmitRowKeepsInv ==
    ASSUME PollerInv, NEW l \in Starts, EmitRow(l)
    PROVE  PollerInv'
<1> DEFINE left == Len(batch[l])
<1>1. /\ PollerTypeOK /\ head \in Nat /\ head <= Len(tx_of) /\ upto[l] \in Nat
      /\ batch[l] \in Seq(Transactions) /\ batch[l] # <<>> /\ left \in Nat /\ left > 0
      /\ UNCHANGED <<head, polling, poll, upto>>
      /\ MemoryInv /\ EmittedInv /\ BatchInv(l)
  BY PollerConstants DEF PollerInv, PollerTypeOK, EmitRow
<1>2. PICK q0 : q0 = upto[l] - left + 1
  OBVIOUS
<1>3. /\ q0 \in 1 .. head /\ q0 \in Rows /\ q0 > upto[l] - limit /\ ~Past(q0)
      /\ Head(batch[l]) = tx_of[q0]
  <2>1. left <= limit /\ left <= upto[l] /\ upto[l] <= head /\ head <= upto[l] + max_lag
    BY <1>1 DEF BatchInv
  <2>2. PICK n, u : n = left /\ u = upto[l]
    OBVIOUS
  <2>3. /\ n \in Nat /\ n > 0 /\ u \in Nat /\ n <= limit /\ n <= u /\ u <= head /\ head <= u + max_lag
        /\ q0 = u - n + 1 /\ head \in Nat /\ head <= Len(tx_of)
    <3> HIDE DEF left
    <3> QED
      BY <1>1, <1>2, <2>1, <2>2
  <2>4. q0 \in 1 .. head /\ q0 \in 1 .. Len(tx_of) /\ q0 > u - limit /\ q0 + max_lag + limit > head /\ q0 \in Int
    BY <2>3, PollerConstants
  <2>5. q0 \in Rows /\ ~Past(q0)
    BY <2>3, <2>4, PollerConstants DEF Past, Rows
  <2>6. batch[l][1] = tx_of[upto[l] - left + 1]
    BY <1>1 DEF BatchInv
  <2>7. Head(batch[l]) = tx_of[q0]
    BY <1>1, <1>2, <2>6
  <2> QED
    BY <2>2, <2>4, <2>5, <2>7
<1>4. /\ batch'[l] = Tail(batch[l]) /\ batch' \in [Starts -> Seq(Transactions)]
      /\ \A k \in Starts \ {l} : batch'[k] = batch[k]
  BY <1>1 DEF EmitRow, PollerTypeOK
<1>5. \A q \in 1 .. q0 - 1 : upto[l] - limit < q => known(q)
  BY <1>1, <1>2 DEF BatchInv
<1>6. /\ MemoryGrows /\ MemoryInv' /\ EmittedInv' /\ known(q0)'
      /\ seen' \in Seq(Transactions) /\ seen_set' \subseteq Transactions /\ emitted' \in [Transactions -> Nat]
  <2>1. CASE tx_of[q0] = NoHash \/ tx_of[q0] \in seen_set
    <3>1. UNCHANGED <<memory, emitted>>
      BY <1>3, <2>1 DEF EmitRow
    <3>2. MemoryGrows /\ seen' = seen /\ seen_set' = seen_set
      BY <1>1, <3>1 DEF MemoryGrows, memory
    <3>3. known(q0)'
      BY <1>3, <2>1, <3>2, KnownStays, <1>1 DEF known
    <3> QED
      BY <1>1, <3>1, <3>2, <3>3, MemoryStays DEF PollerTypeOK
  <2>2. CASE tx_of[q0] # NoHash /\ tx_of[q0] \notin seen_set
    <3>1. PICK x : x = tx_of[q0]
      OBVIOUS
    <3>2. /\ remember(tx_of[q0])
          /\ emitted' = IF x \in Malformed \cup {NoHash} THEN emitted ELSE [emitted EXCEPT ![x] = @ + 1]
      BY <1>3, <2>2, <3>1 DEF EmitRow
    <3>3. ~known(q0)
      BY <1>3, <2>2 DEF known
    <3>4. PICK b0 : b0 = upto[l] - limit - max_lag
      OBVIOUS
    <3>5. /\ b0 \in Int /\ b0 + max_lag + limit <= head
          /\ \A q \in 1 .. q0 - 1 : q > b0 + max_lag => known(q)
      <4>1. b0 \in Int /\ b0 + max_lag + limit = upto[l] /\ b0 + max_lag = upto[l] - limit
        BY <1>1, <3>4, PollerConstants
      <4>2. upto[l] <= head
        BY <1>1 DEF BatchInv
      <4>3. \A q \in 1 .. q0 - 1 : q > b0 + max_lag => upto[l] - limit < q
        BY <1>1, <1>3, <4>1, PollerConstants
      <4> QED
        BY <1>5, <4>1, <4>2, <4>3
    <3>6. /\ MemoryGrows /\ MemoryInv' /\ x \in seen_set'
          /\ seen' \in Seq(Transactions) /\ seen_set' \subseteq Transactions
      BY <1>1, <1>3, <3>1, <3>2, <3>3, <3>5, RemembersNew
    <3>7. x \in Transactions \ {NoHash} /\ emitted \in [Transactions -> Nat]
      BY <1>1, <1>3, <2>2, <3>1, PollerConstants DEF PollerTypeOK
    <3>8. emitted[x] = 0
      <4>1. emitted[x] <= 1 /\ (emitted[x] = 1 => x \in seen_set \/ Past(q0))
        BY <1>1, <1>3, <3>1, <3>7 DEF EmittedInv
      <4> QED
        BY <1>3, <2>2, <3>1, <3>7, <4>1
    <3>9. /\ emitted' \in [Transactions -> Nat] /\ emitted'[x] \in {0, 1}
          /\ \A y \in Transactions \ {x} : emitted'[y] = emitted[y]
      BY <3>2, <3>7, <3>8
    <3>10. EmittedInv'
      <4> SUFFICES ASSUME NEW y \in Transactions \ {NoHash}
                   PROVE  /\ emitted'[y] <= 1
                          /\ emitted'[y] = 1 => y \in seen_set' \/ \A q \in Rows : tx_of[q] = y => Past(q)'
        BY DEF EmittedInv
      <4>1. CASE y = x
        BY <3>6, <3>9, <4>1
      <4>2. CASE y # x
        <5>1. emitted'[y] = emitted[y]
          BY <3>9, <4>2
        <5>2. /\ emitted[y] <= 1
              /\ emitted[y] = 1 => y \in seen_set \/ \A q \in Rows : tx_of[q] = y => Past(q)
          BY <1>1 DEF EmittedInv
        <5>3. \A q \in Rows : Past(q) => Past(q)'
          BY <1>1, <3>6, KnownStays
        <5>4. y \in seen_set => y \in seen_set' \/ \A q \in Rows : tx_of[q] = y => Past(q)
          BY <3>6 DEF MemoryGrows
        <5> QED
          BY <5>1, <5>2, <5>3, <5>4
      <4> QED
        BY <4>1, <4>2
    <3> QED
      BY <3>1, <3>6, <3>9, <3>10 DEF known
  <2> QED
    BY <2>1, <2>2
<1>7. BatchInv(l)'
  <2>1. /\ Len(batch'[l]) = left - 1 /\ \A i \in 1 .. left - 1 : batch'[l][i] = batch[l][i + 1] /\ i + 1 \in 1 .. left
        /\ upto'[l] = upto[l] /\ head' = head
    BY <1>1, <1>4
  <2>2. left <= limit /\ left <= upto[l] /\ upto[l] <= head /\ head <= upto[l] + max_lag
    BY <1>1 DEF BatchInv
  <2>3. \A i \in 1 .. left - 1 : batch'[l][i] = tx_of[upto[l] - (left - 1) + i]
    <3> SUFFICES ASSUME NEW i \in 1 .. left - 1
                 PROVE  batch'[l][i] = tx_of[upto[l] - (left - 1) + i]
      OBVIOUS
    <3>1. upto[l] - left + (i + 1) = upto[l] - (left - 1) + i
      BY <1>1
    <3>2. batch[l][i + 1] = tx_of[upto[l] - left + (i + 1)]
      BY <1>1, <2>1 DEF BatchInv
    <3> QED
      BY <2>1, <3>1, <3>2
  <2>4. ASSUME NEW q \in 1 .. upto[l] - (left - 1), upto[l] - limit < q
        PROVE  known(q)'
    <3>1. q \in 1 .. q0 /\ q \in Rows
      BY <1>1, <1>2, <1>3, <2>2, <2>4 DEF Rows
    <3>2. q = q0 \/ q \in 1 .. q0 - 1
      BY <1>3, <3>1
    <3> QED
      BY <1>1, <1>5, <1>6, <2>4, <3>1, <3>2, KnownStays
  <2>5. PICK m : m = left - 1
    OBVIOUS
  <2>6. m \in Nat /\ m <= limit /\ m <= upto[l]
    <3>1. PICK n, u : n = left /\ u = upto[l]
      OBVIOUS
    <3> HIDE DEF left
    <3>2. n \in Nat /\ n > 0 /\ u \in Nat /\ n <= limit /\ n <= u
      BY <1>1, <2>2, <3>1
    <3>3. m = n - 1 /\ limit \in Nat
      BY <2>5, <3>1, PollerConstants
    <3> QED
      BY <3>1, <3>2, <3>3
  <2> HIDE DEF left
  <2> QED
    BY <2>1, <2>2, <2>3, <2>4, <2>5, <2>6 DEF BatchInv
<1>8. \A k \in Starts \ {l} : BatchInv(k)'
  <2> SUFFICES ASSUME NEW k \in Starts \ {l} PROVE BatchInv(k)'
    OBVIOUS
  <2>1. /\ batch'[k] = batch[k] /\ upto'[k] = upto[k] /\ BatchInv(k)
        /\ batch[k] \in Seq(Transactions)
    BY <1>1, <1>4 DEF PollerInv, PollerTypeOK
  <2>2. batch[k] # <<>> => head' <= upto[k] + max_lag
    BY <1>1, <2>1 DEF BatchInv
  <2> QED
    BY <1>1, <1>6, <2>1, <2>2, BatchStays
<1> QED
  BY <1>1, <1>4, <1>6, <1>7, <1>8 DEF PollerInv, PollerTypeOK

LEMMA PollerInvHolds ==
    ASSUME PollerInv, [PollerNext]_poller_vars
    PROVE  PollerInv'
<1>1. /\ PollerTypeOK /\ head \in Nat /\ head <= Len(tx_of)
      /\ \A l \in Starts : BatchInv(l) /\ batch[l] \in Seq(Transactions) /\ upto[l] \in 0 .. Len(tx_of)
  BY PollerConstants DEF PollerInv, PollerTypeOK
<1>2. \A l \in Starts : batch[l] # <<>> => head <= upto[l] + max_lag
  BY <1>1 DEF BatchInv
<1>3. ASSUME UNCHANGED <<head, memory, batch, upto, emitted>>, polling' \in BOOLEAN,
             poll' \in [Starts -> {"none", "fetch", "emit", "sleep"}]
      PROVE  PollerInv'
  <2>1. MemoryInv' /\ (\A l \in Starts : BatchInv(l)') /\ EmittedInv'
    BY <1>1, <1>2, <1>3, BatchesStay
  <2> QED
    BY <1>1, <1>3, <2>1 DEF PollerInv, PollerTypeOK, memory
<1>4. CASE UNCHANGED poller_vars
  BY <1>1, <1>3, <1>4 DEF poller_vars, PollerTypeOK, memory
<1>5. CASE Trade
  <2>1. head' = head + 1 /\ head' \in 0 .. Len(tx_of) /\ head <= head'
    BY <1>1, <1>5, PollerConstants DEF Trade
  <2>2. \A l \in Starts : batch[l] # <<>> => head' <= upto[l] + max_lag
    BY <1>1, <1>5, <2>1, PollerConstants DEF Trade
  <2>3. MemoryInv' /\ (\A l \in Starts : BatchInv(l)') /\ EmittedInv'
    BY <1>5, <2>1, <2>2, BatchesStay DEF Trade
  <2> QED
    BY <1>1, <1>5, <2>1, <2>3 DEF Trade, PollerInv, PollerTypeOK, memory
<1>6. CASE poll_stop
  BY <1>1, <1>3, <1>6 DEF poll_stop, PollerTypeOK
<1>7. ASSUME NEW l \in Starts, poll_start(l) \/ RoundEnds(l) \/ Wake(l)
      PROVE  PollerInv'
  BY <1>1, <1>3, <1>7 DEF poll_start, RoundEnds, Wake, poll_at, PollerTypeOK
<1>8. ASSUME NEW l \in Starts, Fetch(l)
      PROVE  PollerInv'
  BY <1>1, <1>8, FetchKeepsInv DEF Fetch, poll_at, PollerInv, PollerTypeOK, memory
<1>9. ASSUME NEW l \in Starts, PollCancelled(l)
      PROVE  PollerInv'
  <2>1. /\ batch' \in [Starts -> Seq(Transactions)] /\ batch'[l] = <<>>
        /\ \A k \in Starts \ {l} : batch'[k] = batch[k]
        /\ UNCHANGED <<head, memory, upto, emitted>>
        /\ poll' \in [Starts -> {"none", "fetch", "emit", "sleep"}]
    BY <1>1, <1>9 DEF PollCancelled, poll_at, PollerTypeOK
  <2>2. MemoryGrows
    BY <1>1, <2>1 DEF MemoryGrows, memory
  <2>3. BatchInv(l)'
    BY <1>1, <2>1, PollerConstants DEF BatchInv
  <2>4. \A k \in Starts \ {l} : BatchInv(k)'
    BY <1>1, <1>2, <2>1, <2>2, BatchStays
  <2>5. MemoryInv' /\ EmittedInv'
    BY <1>1, <2>1, <2>2, MemoryStays DEF PollerInv
  <2> QED
    BY <1>1, <1>9, <2>1, <2>3, <2>4, <2>5 DEF PollCancelled, PollerInv, PollerTypeOK, memory
<1> QED
  BY <1>4, <1>5, <1>6, <1>7, <1>8, <1>9, EmitRowKeepsInv DEF PollerNext, PollStep

(* Whatever older responses, cancellations and second loops do to the    *)
(* order of the deque, what falls out of it can come no more.            *)
THEOREM DequeForgetsThePast == PollerSpec => []PollerInv
<1>1. PollerInit => PollerInv
  <2> SUFFICES ASSUME PollerInit PROVE PollerInv
    OBVIOUS
  <2>1. PollerTypeOK
    <3>1. head \in 0 .. Len(tx_of) /\ 0 \in 0 .. Len(tx_of)
      BY PollerConstants DEF PollerInit
    <3>2. seen \in Seq(Transactions) /\ seen_set \subseteq Transactions /\ polling \in BOOLEAN
      <4>1. seen = <<>> /\ seen_set = {} /\ polling = FALSE
        BY DEF PollerInit
      <4>2. <<>> \in Seq(Transactions) /\ {} \subseteq Transactions
        OBVIOUS
      <4> QED
        BY <4>1, <4>2
    <3>3. poll \in [Starts -> {"none", "fetch", "emit", "sleep"}] /\ batch \in [Starts -> Seq(Transactions)]
      BY DEF PollerInit
    <3>4. upto \in [Starts -> 0 .. Len(tx_of)] /\ emitted \in [Transactions -> Nat]
      BY <3>1 DEF PollerInit
    <3> QED
      BY <3>1, <3>2, <3>3, <3>4 DEF PollerTypeOK
  <2>2. MemoryInv
    BY PollerConstants DEF PollerInit, MemoryInv, ToSet
  <2>3. \A l \in Starts : BatchInv(l)
    BY PollerConstants DEF PollerInit, BatchInv
  <2>4. EmittedInv
    BY DEF PollerInit, EmittedInv
  <2> QED
    BY <2>1, <2>2, <2>3, <2>4 DEF PollerInv
<1>2. PollerInv /\ [PollerNext]_poller_vars => PollerInv'
  BY PollerInvHolds
<1> QED
  BY <1>1, <1>2, PTL DEF PollerSpec

(* DataAPITradePoller hands a transaction to on_trade once at most, for  *)
(* every list of trades, limit and window that the assumption allows.    *)
THEOREM EmitsOnce == PollerSpec => []EmittedOnce
<1>1. PollerInv => EmittedOnce
  BY DEF PollerInv, EmittedInv, EmittedOnce
<1> QED
  BY <1>1, DequeForgetsThePast, PTL
-----------------------------------------------------------------------------
(***************************************************************************)
(* The inductive invariant of AlertHistory.  An index is kept at least as*)
(* long as any alert in it, which a TTL that is read and written back    *)
(* later never shortens; and what a rollup is about to commit was counted*)
(* among the alerts there were then, of which none goes away.            *)
(***************************************************************************)
HistoryActorsOK ==
    /\ sender \in [Senders -> {Idle} \cup [at : {"sending"}, wallet : HistoryWallets, market : HistoryMarkets]]
    /\ user \in [Users -> {Idle} \cup [at : {"read"}, id : DOMAIN alert]
                                 \cup [at : {"write"}, id : DOMAIN alert, ttl : 0 .. retention]]
    /\ rollup \in [Rollups -> {Idle} \cup [at : {"commit"}, groups : Groups]]

RecordsInv ==
    /\ \A n \in DOMAIN alert : alert[n].at <= hour /\ alert[n].at + retention <= expires[n]
    /\ \A n \in Alerts : expires[n] <= hour + retention
    /\ \A u \in Users : user[u].at = "write" => alert[user[u].id].at + retention <= hour + user[u].ttl

Keeps(index, n) == n \in index.ids /\ alert[n].at + retention <= index.expires

IndexesInv ==
    \A n \in DOMAIN alert : hour < alert[n].at + retention =>
        /\ n \in index_time
        /\ Keeps(index_wallet[alert[n].wallet], n) /\ Keeps(index_market[alert[n].market], n)

Recorded(g) == {n \in DOMAIN alert : /\ alert[n].at \div HoursPerDay = g[1]
                                     /\ alert[n].market = g[2] /\ g[3] \in SignalsOf(n)}

GroupKeys == Days \X HistoryMarkets \X Signals

CountsInv ==
    \A g \in GroupKeys :
        /\ rows[g] <= Cardinality(Recorded(g))
        /\ \A r \in Rollups : rollup[r].at = "commit" => rollup[r].groups[g] <= Cardinality(Recorded(g))

HistoryInv == HistoryTypeOK /\ HistoryActorsOK /\ RecordsInv /\ IndexesInv /\ CountsInv

-----------------------------------------------------------------------------
LEMMA HistoryConstants ==
    /\ dedup_window \in Nat /\ retention \in Nat /\ HoursPerDay \in Nat
    /\ dedup_window > 0 /\ retention > 0 /\ HoursPerDay > 0
    /\ MaxAlerts \in Nat /\ MaxHour \in Nat
BY AlertHistoryAssumption

LEMMA DayOfHour ==
    ASSUME NEW a \in Nat, NEW d \in Nat, NEW h \in Nat, h > 0, d * h <= a, a <= (d + 1) * h - 1
    PROVE  a \div h = d
<1>1. PICK k \in Int : k = a \div h
  OBVIOUS
<1>2. k * h <= a /\ a < (k + 1) * h
  BY <1>1
<1>3. ~(k < d)
  <2>1. k < d => (k + 1) * h <= d * h
    OBVIOUS
  <2> QED
    BY <1>2, <2>1
<1>4. ~(k > d)
  <2>1. k > d => (d + 1) * h <= k * h
    OBVIOUS
  <2> QED
    BY <1>2, <2>1
<1> QED
  BY <1>1, <1>3, <1>4

\* There are finitely many alerts, of which those of a group are some.
LEMMA AlertsAreFinite ==
    ASSUME NEW D \in {1 .. n : n \in 0 .. MaxAlerts}
    PROVE  /\ D \subseteq Alerts
           /\ \A S \in SUBSET D : IsFiniteSet(S) /\ Cardinality(S) \in 0 .. MaxAlerts
<1>1. PICK n \in 0 .. MaxAlerts : D = 1 .. n
  OBVIOUS
<1>2. IsFiniteSet(D) /\ Cardinality(D) = n /\ n \in Nat /\ n <= MaxAlerts
  BY <1>1, Intervals, HistoryConstants
<1>3. ASSUME NEW S \in SUBSET D
      PROVE  IsFiniteSet(S) /\ Cardinality(S) \in 0 .. MaxAlerts
  <2>1. IsFiniteSet(S) /\ Cardinality(S) <= Cardinality(D) /\ Cardinality(S) \in Nat
    BY <1>2, FS_Subset, FS_CardinalityType
  <2> QED
    BY <1>2, <2>1, HistoryConstants
<1>4. D \subseteq Alerts
  BY <1>1, HistoryConstants DEF Alerts
<1> QED
  BY <1>3, <1>4

LEMMA HistoryRanges ==
    ASSUME HistoryTypeOK
    PROVE  /\ hour \in Nat /\ hour <= MaxHour
           /\ DOMAIN alert \subseteq Alerts
           /\ \A n \in DOMAIN alert : alert[n].at \in Nat
           /\ \A n \in Alerts : expires[n] \in Nat
<1>1. DOMAIN alert \subseteq Alerts
  BY AlertsAreFinite DEF HistoryTypeOK
<1>2. hour \in 0 .. MaxHour /\ \A n \in Alerts : expires[n] \in 0 .. MaxHour + retention
  BY DEF HistoryTypeOK, Hours
<1>3. \A n \in DOMAIN alert : alert[n].at \in 0 .. MaxHour
  BY DEF HistoryTypeOK, Hours
<1> QED
  BY <1>1, <1>2, <1>3, HistoryConstants

HistoryGrows == /\ DOMAIN alert \subseteq DOMAIN alert'
                /\ \A n \in DOMAIN alert : alert'[n] = alert[n]

LEMMA CountsOnlyGrow ==
    ASSUME HistoryTypeOK, HistoryTypeOK', HistoryGrows, NEW g \in GroupKeys
    PROVE  /\ Cardinality(Recorded(g)) \in Nat /\ Cardinality(Recorded(g)') \in Nat
           /\ Cardinality(Recorded(g)) <= Cardinality(Recorded(g)')
<1>1. Recorded(g) \subseteq Recorded(g)' /\ Recorded(g) \subseteq DOMAIN alert /\ Recorded(g)' \subseteq DOMAIN alert'
  BY DEF Recorded, HistoryGrows, SignalsOf
<1>2. IsFiniteSet(Recorded(g)') /\ IsFiniteSet(Recorded(g))
  BY <1>1, AlertsAreFinite DEF HistoryTypeOK
<1> QED
  BY <1>1, <1>2, FS_Subset, FS_CardinalityType

\* What is counted stays counted, whatever is recorded.
LEMMA CountsStay ==
    ASSUME HistoryInv, HistoryTypeOK', HistoryGrows, UNCHANGED <<rows, rollup>>
    PROVE  CountsInv'
<1> SUFFICES ASSUME NEW g \in GroupKeys
             PROVE  /\ rows'[g] <= Cardinality(Recorded(g)')
                    /\ \A r \in Rollups : rollup'[r].at = "commit" =>
                           rollup'[r].groups[g] <= Cardinality(Recorded(g)')
  BY DEF CountsInv
<1>1. /\ Cardinality(Recorded(g)) \in Nat /\ Cardinality(Recorded(g)') \in Nat
      /\ Cardinality(Recorded(g)) <= Cardinality(Recorded(g)')
  BY CountsOnlyGrow DEF HistoryInv
<1>2. rows[g] \in Nat /\ rows[g] <= Cardinality(Recorded(g))
  BY HistoryConstants DEF HistoryInv, HistoryTypeOK, Groups, GroupKeys, CountsInv
<1>3. ASSUME NEW r \in Rollups, rollup[r].at = "commit"
      PROVE  rollup[r].groups[g] \in Nat /\ rollup[r].groups[g] <= Cardinality(Recorded(g))
  <2>1. rollup[r] \in [at : {"commit"}, groups : Groups]
    BY <1>3 DEF HistoryInv, HistoryActorsOK, Idle
  <2> QED
    BY <1>3, <2>1, HistoryConstants DEF HistoryInv, Groups, GroupKeys, CountsInv
<1> QED
  BY <1>1, <1>2, <1>3

\* What the clock, the senders and should_send do: no alert is touched.
LEMMA IdleStepsKeepHistory ==
    ASSUME HistoryInv, UNCHANGED <<record_vars, user, rollup, rows>>,
           hour' \in Hours, hour <= hour',
           sender' \in [Senders -> {Idle} \cup [at : {"sending"}, wallet : HistoryWallets, market : HistoryMarkets]]
    PROVE  HistoryInv'
<1>1. /\ UNCHANGED <<sent_key, alert, expires, index_time, index_wallet, index_market>>
      /\ HistoryTypeOK /\ HistoryActorsOK /\ RecordsInv /\ IndexesInv
  BY DEF HistoryInv, record_vars, index_vars
<1>2. HistoryTypeOK' /\ HistoryActorsOK'
  BY <1>1 DEF HistoryTypeOK, HistoryActorsOK
<1>3. hour \in Nat /\ hour' \in Nat
  BY <1>1, HistoryConstants DEF HistoryTypeOK, Hours
<1>4. \A n \in DOMAIN alert : alert[n].at \in Nat /\ expires[n] \in Nat /\ n \in Alerts
  BY <1>1, HistoryRanges
<1>5. RecordsInv'
  <2>1. \A n \in Alerts : expires[n] \in Nat
    BY <1>1, HistoryConstants DEF HistoryTypeOK
  <2>2. ASSUME NEW u \in Users, user[u].at = "write"
        PROVE  user[u].id \in DOMAIN alert /\ user[u].ttl \in Nat
    <3>1. user[u] \in [at : {"write"}, id : DOMAIN alert, ttl : 0 .. retention]
      BY <1>1, <2>2 DEF HistoryActorsOK, Idle
    <3> QED
      BY <3>1, HistoryConstants
  <2> QED
    BY <1>1, <1>3, <1>4, <2>1, <2>2, HistoryConstants DEF RecordsInv
<1>6. IndexesInv'
  BY <1>1, <1>3, <1>4, HistoryConstants DEF IndexesInv, Keeps
<1>7. CountsInv'
  BY <1>1, <1>2, CountsStay DEF HistoryGrows
<1> QED
  BY <1>2, <1>5, <1>6, <1>7 DEF HistoryInv

LEMMA RecordKeepsHistory ==
    ASSUME HistoryInv, NEW s \in Senders, NEW signals \in SignalLists, record_sent(s, signals)
    PROVE  HistoryInv'
<1>1. HistoryTypeOK /\ HistoryActorsOK /\ RecordsInv /\ IndexesInv
  BY DEF HistoryInv
<1>2. PICK N \in 0 .. MaxAlerts : DOMAIN alert = 1 .. N
  BY <1>1 DEF HistoryTypeOK
<1>3. Cardinality(DOMAIN alert) = N /\ N < MaxAlerts /\ N + 1 \in 0 .. MaxAlerts /\ N \in Nat
  BY <1>2, Intervals, HistoryConstants DEF record_sent
<1>4. PICK w, m : w = sender[s].wallet /\ m = sender[s].market
  OBVIOUS
<1>5. w \in HistoryWallets /\ m \in HistoryMarkets
  <2>1. sender[s] \in [at : {"sending"}, wallet : HistoryWallets, market : HistoryMarkets]
    BY <1>1 DEF HistoryActorsOK, record_sent
  <2> QED
    BY <1>4, <2>1
<1>6. PICK new : new = [wallet |-> w, market |-> m, signals |-> signals, at |-> hour]
  OBVIOUS
<1>7. /\ sent_key' = [sent_key EXCEPT ![<<w, m, hour>>] = hour + dedup_window]
      /\ alert' = [k \in 1 .. N + 1 |-> IF k < N + 1 THEN alert[k] ELSE new]
      /\ expires' = [expires EXCEPT ![N + 1] = hour + retention]
      /\ index_time' = index_time \cup {N + 1}
      /\ index_wallet' = [index_wallet EXCEPT ![w] = zadd(index_wallet[w], N + 1)]
      /\ index_market' = [index_market EXCEPT ![m] = zadd(index_market[m], N + 1)]
      /\ sender' = [sender EXCEPT ![s] = Idle]
      /\ UNCHANGED <<hour, user, rollup, rows>>
  BY <1>3, <1>4, <1>6 DEF record_sent
<1>8. /\ hour \in Nat /\ hour \in Hours /\ hour <= MaxHour
      /\ \A n \in DOMAIN alert : alert[n].at \in Nat /\ expires[n] \in Nat
      /\ \A n \in Alerts : expires[n] \in Nat
      /\ DOMAIN alert \subseteq Alerts /\ N + 1 \in Alerts
  <2>1. hour \in Hours
    BY <1>1 DEF HistoryTypeOK
  <2>2. N + 1 \in Alerts
    BY <1>3, HistoryConstants DEF Alerts
  <2> QED
    BY <1>1, <2>1, <2>2, HistoryRanges
<1>9. /\ DOMAIN alert' = 1 .. N + 1 /\ alert'[N + 1] = new
      /\ \A n \in DOMAIN alert : n \in DOMAIN alert' /\ alert'[n] = alert[n] /\ n # N + 1
      /\ \A n \in DOMAIN alert' : n \in DOMAIN alert \/ n = N + 1
  BY <1>2, <1>3, <1>7
<1>10. new \in [wallet : HistoryWallets, market : HistoryMarkets, signals : SignalLists, at : Hours]
  BY <1>5, <1>6, <1>8
<1>11. ASSUME NEW index \in Indexes
       PROVE  /\ zadd(index, N + 1) \in Indexes
              /\ zadd(index, N + 1).expires = hour + retention
              /\ zadd(index, N + 1).ids = Current(index).ids \cup {N + 1}
  <2>1. Current(index).ids \subseteq Alerts
    BY <1>11 DEF Current, Empty, Indexes
  <2>2. hour + retention \in 0 .. MaxHour + retention
    BY <1>8, HistoryConstants
  <2> QED
    BY <1>8, <2>1, <2>2 DEF zadd, Indexes
<1>12. index_wallet[w] \in Indexes /\ index_market[m] \in Indexes
  BY <1>1, <1>5 DEF HistoryTypeOK
<1>13. HistoryTypeOK'
  <2>1. sent_key' \in [HistoryWallets \X HistoryMarkets \X Hours -> 0 .. MaxHour + dedup_window]
    <3>1. hour + dedup_window \in 0 .. MaxHour + dedup_window
      BY <1>8, HistoryConstants
    <3> QED
      BY <1>1, <1>7, <3>1 DEF HistoryTypeOK
  <2>2. DOMAIN alert' \in {1 .. n : n \in 0 .. MaxAlerts}
    BY <1>3, <1>9
  <2>3. \A n \in DOMAIN alert' : alert'[n] \in [wallet : HistoryWallets, market : HistoryMarkets,
                                                signals : SignalLists, at : Hours]
    BY <1>1, <1>9, <1>10 DEF HistoryTypeOK
  <2>4. expires' \in [Alerts -> 0 .. MaxHour + retention]
    <3>1. hour + retention \in 0 .. MaxHour + retention
      BY <1>8, HistoryConstants
    <3> QED
      BY <1>1, <1>7, <3>1 DEF HistoryTypeOK
  <2>5. index_time' \subseteq DOMAIN alert'
    <3>1. N + 1 \in DOMAIN alert'
      BY <1>3, <1>9
    <3>2. index_time \subseteq DOMAIN alert
      BY <1>1 DEF HistoryTypeOK
    <3> QED
      BY <1>7, <1>9, <3>1, <3>2
  <2>6. index_wallet' \in [HistoryWallets -> Indexes] /\ index_market' \in [HistoryMarkets -> Indexes]
    BY <1>1, <1>7, <1>11, <1>12 DEF HistoryTypeOK
  <2> QED
    BY <1>1, <1>7, <1>8, <2>1, <2>2, <2>3, <2>4, <2>5, <2>6 DEF HistoryTypeOK
<1>14. HistoryActorsOK'
  <2>1. sender' \in [Senders -> {Idle} \cup [at : {"sending"}, wallet : HistoryWallets, market : HistoryMarkets]]
    BY <1>1, <1>7 DEF HistoryActorsOK
  <2>2. user' \in [Users -> {Idle} \cup [at : {"read"}, id : DOMAIN alert']
                                   \cup [at : {"write"}, id : DOMAIN alert', ttl : 0 .. retention]]
    <3>1. ASSUME NEW u \in Users
          PROVE  user[u] \in {Idle} \cup [at : {"read"}, id : DOMAIN alert']
                                    \cup [at : {"write"}, id : DOMAIN alert', ttl : 0 .. retention]
      <4>1. user[u] \in {Idle} \cup [at : {"read"}, id : DOMAIN alert]
                               \cup [at : {"write"}, id : DOMAIN alert, ttl : 0 .. retention]
        BY <1>1 DEF HistoryActorsOK
      <4>2. DOMAIN alert \subseteq DOMAIN alert'
        BY <1>9
      <4> QED
        BY <4>1, <4>2
    <3> QED
      BY <1>1, <1>7, <3>1 DEF HistoryActorsOK
  <2> QED
    BY <1>1, <1>7, <2>1, <2>2 DEF HistoryActorsOK
<1>15. RecordsInv'
  <2>1. ASSUME NEW n \in DOMAIN alert'
        PROVE  alert'[n].at <= hour' /\ alert'[n].at + retention <= expires'[n]
    <3>1. CASE n = N + 1
      BY <1>1, <1>6, <1>7, <1>8, <1>9, <3>1, HistoryConstants DEF HistoryTypeOK
    <3>2. CASE n \in DOMAIN alert
      BY <1>1, <1>7, <1>8, <1>9, <3>2 DEF HistoryTypeOK, RecordsInv
    <3> QED
      BY <1>9, <2>1, <3>1, <3>2
  <2>2. \A n \in Alerts : expires'[n] <= hour' + retention
    BY <1>1, <1>7, <1>8, HistoryConstants DEF HistoryTypeOK, RecordsInv
  <2>3. ASSUME NEW u \in Users, user[u].at = "write"
        PROVE  alert'[user[u].id].at + retention <= hour' + user[u].ttl
    <3>1. user[u] \in [at : {"write"}, id : DOMAIN alert, ttl : 0 .. retention]
      BY <1>1, <2>3 DEF HistoryActorsOK, Idle
    <3>2. user[u].id \in DOMAIN alert
      BY <3>1
    <3> QED
      BY <1>1, <1>7, <1>9, <2>3, <3>2 DEF RecordsInv
  <2> QED
    BY <1>7, <2>1, <2>2, <2>3 DEF RecordsInv
<1>16. IndexesInv'
  <2>1. ASSUME NEW n \in DOMAIN alert, hour < alert[n].at + retention, NEW index \in Indexes, Keeps(index, n)
        PROVE  n \in zadd(index, N + 1).ids /\ alert[n].at + retention <= zadd(index, N + 1).expires
    <3>1. index.expires \in Nat /\ n \in index.ids /\ alert[n].at + retention <= index.expires
      BY <2>1, HistoryConstants DEF Indexes, Keeps
    <3>2. Current(index) = index
      BY <1>8, <2>1, <3>1, HistoryConstants DEF Current
    <3>3. alert[n].at + retention <= hour + retention
      BY <1>1, <1>8, HistoryConstants DEF RecordsInv
    <3> QED
      BY <1>11, <3>1, <3>2, <3>3
  <2>2. ASSUME NEW n \in DOMAIN alert', hour' < alert'[n].at + retention
        PROVE  /\ n \in index_time'
               /\ Keeps(index_wallet[alert[n].wallet], n)' /\ Keeps(index_market[alert[n].market], n)'
    <3>1. CASE n = N + 1
      <4>1. n \in index_time'
        BY <1>7, <3>1
      <4>2. n \in zadd(index_wallet[w], N + 1).ids /\ n \in zadd(index_market[m], N + 1).ids
        BY <1>11, <1>12, <3>1
      <4>3. alert'[n].at = hour /\ alert'[n].wallet = w /\ alert'[n].market = m
        BY <1>6, <1>9, <3>1
      <4>4. index_wallet'[w] = zadd(index_wallet[w], N + 1) /\ index_market'[m] = zadd(index_market[m], N + 1)
        BY <1>1, <1>5, <1>7 DEF HistoryTypeOK
      <4> QED
        BY <1>8, <1>11, <1>12, <4>1, <4>2, <4>3, <4>4, HistoryConstants DEF Keeps
    <3>2. CASE n \in DOMAIN alert
      <4>1. /\ alert'[n] = alert[n] /\ hour < alert[n].at + retention
            /\ alert[n].wallet \in HistoryWallets /\ alert[n].market \in HistoryMarkets
        BY <1>1, <1>7, <1>9, <2>2, <3>2 DEF HistoryTypeOK
      <4>2. /\ n \in index_time /\ Keeps(index_wallet[alert[n].wallet], n)
            /\ Keeps(index_market[alert[n].market], n)
        BY <1>1, <3>2, <4>1 DEF IndexesInv
      <4>3. Keeps(index_wallet[alert[n].wallet], n)'
        <5>1. CASE alert[n].wallet = w
          <6>1. index_wallet'[alert'[n].wallet] = zadd(index_wallet[w], N + 1)
            BY <1>1, <1>5, <1>7, <4>1, <5>1 DEF HistoryTypeOK
          <6> QED
            BY <1>12, <2>1, <3>2, <4>1, <4>2, <5>1, <6>1 DEF Keeps
        <5>2. CASE alert[n].wallet # w
          <6>1. index_wallet'[alert'[n].wallet] = index_wallet[alert[n].wallet]
            BY <1>1, <1>7, <4>1, <5>2 DEF HistoryTypeOK
          <6> QED
            BY <4>1, <4>2, <6>1 DEF Keeps
        <5> QED
          BY <5>1, <5>2
      <4>4. Keeps(index_market[alert[n].market], n)'
        <5>1. CASE alert[n].market = m
          <6>1. index_market'[alert'[n].market] = zadd(index_market[m], N + 1)
            BY <1>1, <1>5, <1>7, <4>1, <5>1 DEF HistoryTypeOK
          <6> QED
            BY <1>12, <2>1, <3>2, <4>1, <4>2, <5>1, <6>1 DEF Keeps
        <5>2. CASE alert[n].market # m
          <6>1. index_market'[alert'[n].market] = index_market[alert[n].market]
            BY <1>1, <1>7, <4>1, <5>2 DEF HistoryTypeOK
          <6> QED
            BY <4>1, <4>2, <6>1 DEF Keeps
        <5> QED
          BY <5>1, <5>2
      <4> QED
        BY <1>7, <4>2, <4>3, <4>4
    <3> QED
      BY <1>9, <2>2, <3>1, <3>2
  <2> QED
    BY <2>2 DEF IndexesInv
<1>17. CountsInv'
  BY <1>7, <1>9, <1>13, CountsStay DEF HistoryGrows
<1> QED
  BY <1>13, <1>14, <1>15, <1>16, <1>17 DEF HistoryInv

LEMMA FeedbackKeepsHistory ==
    ASSUME HistoryInv, NEW u \in Users,
           (\E n \in DOMAIN alert : FeedbackReads(u, n)) \/ FeedbackAsksTTL(u) \/ FeedbackWrites(u)
    PROVE  HistoryInv'
<1> DEFINE UserStates == {Idle} \cup [at : {"read"}, id : DOMAIN alert]
                                \cup [at : {"write"}, id : DOMAIN alert, ttl : 0 .. retention]
<1>1. /\ HistoryTypeOK /\ HistoryActorsOK /\ RecordsInv /\ IndexesInv /\ CountsInv
      /\ user \in [Users -> UserStates]
      /\ hour \in Nat /\ DOMAIN alert \subseteq Alerts
      /\ \A n \in DOMAIN alert : alert[n].at \in Nat
      /\ \A n \in Alerts : expires[n] \in Nat
  BY HistoryRanges DEF HistoryInv, HistoryActorsOK
<1>2. UNCHANGED <<hour, sent_key, alert, index_time, index_wallet, index_market, sender, rollup, rows>>
  BY DEF FeedbackReads, FeedbackAsksTTL, FeedbackWrites, record_vars, index_vars
<1>3. SUFFICES /\ expires' \in [Alerts -> 0 .. MaxHour + retention]
               /\ user' \in [Users -> UserStates]
               /\ \A n \in DOMAIN alert : alert[n].at + retention <= expires'[n]
               /\ \A n \in Alerts : expires'[n] <= hour + retention
               /\ \A v \in Users : user'[v].at = "write" => alert[user'[v].id].at + retention <= hour + user'[v].ttl
  <2>1. SUFFICES ASSUME /\ expires' \in [Alerts -> 0 .. MaxHour + retention]
                        /\ user' \in [Users -> UserStates]
                        /\ \A n \in DOMAIN alert : alert[n].at + retention <= expires'[n]
                        /\ \A n \in Alerts : expires'[n] <= hour + retention
                        /\ \A v \in Users : user'[v].at = "write" =>
                               alert[user'[v].id].at + retention <= hour + user'[v].ttl
                 PROVE  HistoryInv'
    OBVIOUS
  <2>2. HistoryTypeOK' /\ HistoryActorsOK'
    BY <1>1, <1>2, <2>1 DEF HistoryTypeOK, HistoryActorsOK
  <2>3. RecordsInv' /\ IndexesInv'
    BY <1>1, <1>2, <2>1 DEF RecordsInv, IndexesInv, Keeps
  <2>4. CountsInv'
    BY <1>1, <1>2, <2>2, CountsStay DEF HistoryGrows
  <2> QED
    BY <2>2, <2>3, <2>4 DEF HistoryInv
<1>4. ASSUME NEW n \in DOMAIN alert, FeedbackReads(u, n)
      PROVE  /\ expires' = expires /\ user' = [user EXCEPT ![u] = [at |-> "read", id |-> n]]
             /\ [at |-> "read", id |-> n] \in UserStates
  BY <1>4 DEF FeedbackReads, record_vars
<1>5. ASSUME FeedbackAsksTTL(u)
      PROVE  \E t \in 0 .. retention :
                 /\ expires' = expires
                 /\ user' = [user EXCEPT ![u] = [at |-> "write", id |-> user[u].id, ttl |-> t]]
                 /\ [at |-> "write", id |-> user[u].id, ttl |-> t] \in UserStates
                 /\ user[u].id \in DOMAIN alert
                 /\ alert[user[u].id].at + retention <= hour + t
  <2>1. PICK i : i = user[u].id
    OBVIOUS
  <2>2. i \in DOMAIN alert
    <3>1. user[u] \in [at : {"read"}, id : DOMAIN alert]
      BY <1>1, <1>5 DEF FeedbackAsksTTL, Idle
    <3> QED
      BY <2>1, <3>1
  <2>3. PICK t : t = IF Live(i) THEN expires[i] - hour ELSE retention
    OBVIOUS
  <2>4. t \in 0 .. retention /\ alert[i].at + retention <= hour + t
    BY <1>1, <2>2, <2>3, HistoryConstants DEF Live, RecordsInv
  <2>5. expires' = expires /\ user' = [user EXCEPT ![u] = [at |-> "write", id |-> i, ttl |-> t]]
    BY <1>5, <2>1, <2>3 DEF FeedbackAsksTTL, record_vars
  <2>6. [at |-> "write", id |-> i, ttl |-> t] \in UserStates
    BY <2>2, <2>4
  <2> QED
    BY <2>1, <2>2, <2>4, <2>5, <2>6
<1>6. ASSUME FeedbackWrites(u)
      PROVE  /\ user' = [user EXCEPT ![u] = Idle] /\ Idle \in UserStates
             /\ user[u].id \in DOMAIN alert /\ user[u].ttl \in 0 .. retention
             /\ expires' = [expires EXCEPT ![user[u].id] = hour + user[u].ttl]
             /\ alert[user[u].id].at + retention <= hour + user[u].ttl
  <2>1. user[u] \in [at : {"write"}, id : DOMAIN alert, ttl : 0 .. retention]
    BY <1>1, <1>6 DEF FeedbackWrites, Idle
  <2>2. alert[user[u].id].at + retention <= hour + user[u].ttl
    BY <1>1, <1>6 DEF FeedbackWrites, RecordsInv
  <2>3. user[u].id \in DOMAIN alert /\ user[u].ttl \in 0 .. retention
    BY <2>1
  <2>4. user' = [user EXCEPT ![u] = Idle] /\ expires' = [expires EXCEPT ![user[u].id] = hour + user[u].ttl]
    BY <1>6 DEF FeedbackWrites
  <2>5. Idle \in UserStates
    BY Zenon
  <2> QED
    BY <2>2, <2>3, <2>4, <2>5
<1>7. CASE \E n \in DOMAIN alert : FeedbackReads(u, n)
  <2>1. PICK n \in DOMAIN alert : FeedbackReads(u, n)
    BY <1>7
  <2>2. user' \in [Users -> UserStates] /\ expires' = expires
    <3>1. expires' = expires /\ user' = [user EXCEPT ![u] = [at |-> "read", id |-> n]]
      BY <1>4, <2>1
    <3>2. [at |-> "read", id |-> n] \in UserStates
      BY <1>4, <2>1
    <3> HIDE DEF UserStates
    <3> QED
      BY <1>1, <3>1, <3>2
  <2>3. ASSUME NEW v \in Users, user'[v].at = "write"
        PROVE  user'[v] = user[v]
    <3>1. user' = [user EXCEPT ![u] = [at |-> "read", id |-> n]]
      BY <1>4, <2>1
    <3>2. CASE v = u
      BY <1>1, <2>3, <3>1, <3>2
    <3>3. CASE v # u
      BY <1>1, <3>1, <3>3
    <3> QED
      BY <3>2, <3>3
  <2>4. ASSUME NEW v \in Users, user'[v].at = "write"
        PROVE  alert[user'[v].id].at + retention <= hour + user'[v].ttl
    <3>1. user'[v] = user[v] /\ user[v].at = "write"
      BY <2>3, <2>4
    <3> QED
      BY <1>1, <3>1 DEF RecordsInv
  <2> QED
    BY <1>1, <2>2, <2>4 DEF HistoryTypeOK, RecordsInv
<1>8. CASE FeedbackAsksTTL(u)
  <2>1. PICK t \in 0 .. retention :
               /\ expires' = expires
               /\ user' = [user EXCEPT ![u] = [at |-> "write", id |-> user[u].id, ttl |-> t]]
               /\ [at |-> "write", id |-> user[u].id, ttl |-> t] \in UserStates
               /\ user[u].id \in DOMAIN alert
               /\ alert[user[u].id].at + retention <= hour + t
    BY <1>5, <1>8
  <2>2. user' \in [Users -> UserStates]
    BY <1>1, <2>1
  <2>3. ASSUME NEW v \in Users, user'[v].at = "write"
        PROVE  alert[user'[v].id].at + retention <= hour + user'[v].ttl
    <3>1. CASE v = u
      BY <1>1, <2>1, <3>1
    <3>2. CASE v # u
      <4>1. user'[v] = user[v]
        BY <1>1, <2>1, <3>2
      <4> QED
        BY <1>1, <2>3, <4>1 DEF RecordsInv
    <3> QED
      BY <3>1, <3>2
  <2> QED
    BY <1>1, <2>1, <2>2, <2>3 DEF HistoryTypeOK, RecordsInv
<1>9. CASE FeedbackWrites(u)
  <2>1. PICK i, t : i = user[u].id /\ t = user[u].ttl
    OBVIOUS
  <2>2. /\ i \in DOMAIN alert /\ i \in Alerts /\ t \in 0 .. retention
        /\ expires' = [expires EXCEPT ![i] = hour + t]
        /\ alert[i].at + retention <= hour + t
        /\ user' = [user EXCEPT ![u] = Idle] /\ Idle \in UserStates
    BY <1>1, <1>6, <1>9, <2>1
  <2>3. hour + t \in 0 .. MaxHour + retention /\ hour + t <= hour + retention
    BY <1>1, <2>2, HistoryRanges, HistoryConstants
  <2>4. user' \in [Users -> UserStates]
    BY <1>1, <2>2
  <2>5. \A v \in Users : user'[v].at = "write" => user'[v] = user[v]
    BY <1>1, <2>2 DEF Idle
  <2>6. ASSUME NEW v \in Users, user'[v].at = "write"
        PROVE  alert[user'[v].id].at + retention <= hour + user'[v].ttl
    <3>1. user'[v] = user[v] /\ user[v].at = "write"
      BY <2>5, <2>6
    <3> QED
      BY <1>1, <3>1 DEF RecordsInv
  <2>7. expires' \in [Alerts -> 0 .. MaxHour + retention]
    BY <1>1, <2>2, <2>3 DEF HistoryTypeOK
  <2>8. \A n \in Alerts : expires'[n] = IF n = i THEN hour + t ELSE expires[n]
    BY <1>1, <2>2 DEF HistoryTypeOK
  <2>9. /\ \A n \in DOMAIN alert : alert[n].at + retention <= expires'[n]
        /\ \A n \in Alerts : expires'[n] <= hour + retention
    BY <1>1, <2>2, <2>3, <2>8 DEF RecordsInv
  <2> QED
    BY <2>4, <2>6, <2>7, <2>9
<1> QED
  BY <1>7, <1>8, <1>9

LEMMA CleanupKeepsHistory ==
    ASSUME HistoryInv, cleanup_old_alerts
    PROVE  HistoryInv'
<1>1. /\ HistoryTypeOK /\ HistoryActorsOK /\ RecordsInv /\ IndexesInv
      /\ UNCHANGED <<hour, sent_key, alert, expires, index_wallet, index_market, sender, user, rollup, rows>>
      /\ index_time' = {n \in index_time : alert[n].at + retention > hour}
  BY DEF HistoryInv, cleanup_old_alerts
<1>2. HistoryTypeOK' /\ HistoryActorsOK'
  BY <1>1 DEF HistoryTypeOK, HistoryActorsOK
<1>3. RecordsInv'
  BY <1>1 DEF RecordsInv
<1>4. IndexesInv'
  <2>1. hour \in Nat /\ \A n \in DOMAIN alert : alert[n].at \in Nat
    BY <1>1, HistoryRanges
  <2> QED
    BY <1>1, <2>1, HistoryConstants DEF IndexesInv, Keeps
<1>5. CountsInv'
  BY <1>1, <1>2, CountsStay DEF HistoryGrows
<1> QED
  BY <1>2, <1>3, <1>4, <1>5 DEF HistoryInv

-----------------------------------------------------------------------------
\* A rollup counts alerts of its day only, each with what it was recorded with.
LEMMA AggregateIsBacked ==
    ASSUME HistoryTypeOK, NEW day \in Days
    PROVE  /\ aggregate(collect_alerts(day), day) \in Groups
           /\ \A g \in GroupKeys : aggregate(collect_alerts(day), day)[g] <= Cardinality(Recorded(g))
<1>1. PICK ids : ids = collect_alerts(day)
  OBVIOUS
<1>2. day \in Nat /\ day * HoursPerDay \in Nat /\ (day + 1) * HoursPerDay \in Nat
  <2>1. MaxHour \div HoursPerDay \in Int
    BY HistoryConstants
  <2>2. day \in Nat
    BY <2>1 DEF Days
  <2> QED
    BY <2>2, HistoryConstants
<1>3. ids \subseteq DOMAIN alert /\ \A n \in ids : alert[n].at \div HoursPerDay = day
  <2>1. index_time \subseteq DOMAIN alert
    BY DEF HistoryTypeOK
  <2>2. ASSUME NEW n \in ids
        PROVE  n \in DOMAIN alert /\ alert[n].at \div HoursPerDay = day
    <3>1. n \in DOMAIN alert /\ alert[n].at \in (day * HoursPerDay) .. ((day + 1) * HoursPerDay - 1)
      BY <1>1, <2>1, <2>2 DEF collect_alerts, get_alerts
    <3>2. alert[n].at \in Nat
      BY <3>1, HistoryRanges
    <3>3. day * HoursPerDay <= alert[n].at /\ alert[n].at <= (day + 1) * HoursPerDay - 1
      BY <1>2, <3>1, <3>2
    <3> QED
      BY <1>2, <3>1, <3>2, <3>3, DayOfHour, HistoryConstants
  <2> QED
    BY <2>2
<1>4. ASSUME NEW g \in GroupKeys
      PROVE  /\ aggregate(ids, day)[g] \in 0 .. MaxAlerts
             /\ aggregate(ids, day)[g] <= Cardinality(Recorded(g))
  <2> DEFINE S == {n \in ids : alert[n].market = g[2] /\ g[3] \in SignalsOf(n)}
  <2>1. aggregate(ids, day)[g] = IF g[1] # day THEN 0 ELSE Cardinality(S)
    BY DEF aggregate, GroupKeys
  <2>2. Recorded(g) \subseteq DOMAIN alert
    BY DEF Recorded
  <2>3. IsFiniteSet(Recorded(g)) /\ Cardinality(Recorded(g)) \in 0 .. MaxAlerts
    BY <2>2, AlertsAreFinite DEF HistoryTypeOK
  <2>4. CASE g[1] # day
    BY <2>1, <2>3, <2>4, HistoryConstants
  <2>5. CASE g[1] = day
    <3>1. S \subseteq Recorded(g)
      BY <1>3, <2>5 DEF Recorded
    <3>2. Cardinality(S) <= Cardinality(Recorded(g)) /\ Cardinality(S) \in Nat
      BY <2>3, <3>1, FS_Subset, FS_CardinalityType
    <3>3. aggregate(ids, day)[g] = Cardinality(S)
      BY <2>1, <2>5
    <3> HIDE DEF S
    <3> QED
      BY <2>3, <3>2, <3>3, HistoryConstants
  <2> QED
    BY <2>4, <2>5
<1>5. aggregate(ids, day) \in Groups
  BY <1>4 DEF aggregate, Groups, GroupKeys
<1> QED
  BY <1>1, <1>4, <1>5

LEMMA RollupKeepsHistory ==
    ASSUME HistoryInv, NEW r \in Rollups, (\E day \in Days : RollupCollects(r, day)) \/ RollupEnds(r)
    PROVE  HistoryInv'
<1> DEFINE RollupStates == {Idle} \cup [at : {"commit"}, groups : Groups]
<1>1. /\ HistoryTypeOK /\ HistoryActorsOK /\ RecordsInv /\ IndexesInv /\ CountsInv
      /\ rollup \in [Rollups -> RollupStates] /\ rows \in [GroupKeys -> 0 .. MaxAlerts]
  BY DEF HistoryInv, HistoryActorsOK, HistoryTypeOK, Groups, GroupKeys
<1>2. UNCHANGED <<hour, sent_key, alert, expires, index_time, index_wallet, index_market, sender, user>>
  BY DEF RollupCollects, RollupEnds, record_vars, index_vars
<1>3. RecordsInv' /\ IndexesInv'
  BY <1>1, <1>2 DEF RecordsInv, IndexesInv, Keeps
<1>4. \A g \in GroupKeys : Recorded(g)' = Recorded(g)
  BY <1>2 DEF Recorded, SignalsOf
<1>5. CASE \E day \in Days : RollupCollects(r, day)
  <2>1. PICK day \in Days : RollupCollects(r, day)
    BY <1>5
  <2>2. PICK groups : groups = aggregate(collect_alerts(day), day)
    OBVIOUS
  <2>3. /\ groups \in Groups /\ \A g \in GroupKeys : groups[g] <= Cardinality(Recorded(g))
        /\ rollup' = [rollup EXCEPT ![r] = [at |-> "commit", groups |-> groups]]
        /\ rows' = rows
    BY <1>1, <2>1, <2>2, AggregateIsBacked DEF RollupCollects
  <2>4. HistoryTypeOK' /\ HistoryActorsOK'
    <3>1. rollup' \in [Rollups -> RollupStates]
      BY <1>1, <2>3
    <3> QED
      BY <1>1, <1>2, <2>3, <3>1 DEF HistoryTypeOK, HistoryActorsOK
  <2>5. CountsInv'
    <3>1. ASSUME NEW g \in GroupKeys, NEW k \in Rollups, rollup'[k].at = "commit"
          PROVE  rollup'[k].groups[g] <= Cardinality(Recorded(g))
      <4>1. CASE k = r
        BY <1>1, <2>3, <4>1
      <4>2. CASE k # r
        <5>1. rollup'[k] = rollup[k]
          BY <1>1, <2>3, <4>2
        <5> QED
          BY <1>1, <3>1, <5>1 DEF CountsInv
      <4> QED
        BY <4>1, <4>2
    <3> QED
      BY <1>1, <1>4, <2>3, <3>1 DEF CountsInv
  <2> QED
    BY <1>3, <2>4, <2>5 DEF HistoryInv
<1>6. CASE RollupEnds(r)
  <2>1. PICK groups : groups = rollup[r].groups
    OBVIOUS
  <2>2. groups \in Groups /\ \A g \in GroupKeys : groups[g] <= Cardinality(Recorded(g))
    <3>1. rollup[r] \in [at : {"commit"}, groups : Groups]
      BY <1>1, <1>6 DEF RollupEnds
    <3> QED
      BY <1>1, <2>1, <3>1 DEF CountsInv
  <2>3. rows' \in {rows, upsert(rows, groups)} /\ rollup' = [rollup EXCEPT ![r] = Idle]
    BY <1>6, <2>1 DEF RollupEnds
  <2>4. rows' \in [GroupKeys -> 0 .. MaxAlerts] /\ \A g \in GroupKeys : rows'[g] \in {rows[g], groups[g]}
    BY <1>1, <2>2, <2>3 DEF upsert, Groups, GroupKeys
  <2>5. rollup' \in [Rollups -> RollupStates] /\ \A k \in Rollups : rollup'[k] \in {rollup[k], Idle}
    BY <1>1, <2>3
  <2>6. HistoryTypeOK' /\ HistoryActorsOK'
    BY <1>1, <1>2, <2>4, <2>5 DEF HistoryTypeOK, HistoryActorsOK, Groups, GroupKeys
  <2>7. CountsInv'
    BY <1>1, <1>4, <2>2, <2>4, <2>5 DEF CountsInv, Idle
  <2> QED
    BY <1>3, <2>6, <2>7 DEF HistoryInv
<1> QED
  BY <1>5, <1>6

LEMMA HistoryInvHolds == HistoryInv /\ [HistoryNext]_history_vars => HistoryInv'
<1> SUFFICES ASSUME HistoryInv, [HistoryNext]_history_vars
             PROVE  HistoryInv'
  OBVIOUS
<1> DEFINE SenderStates == {Idle} \cup [at : {"sending"}, wallet : HistoryWallets, market : HistoryMarkets]
<1>1. /\ hour \in Hours /\ hour \in Nat /\ hour <= MaxHour
      /\ sender \in [Senders -> SenderStates]
  BY HistoryRanges DEF HistoryInv, HistoryTypeOK, HistoryActorsOK
<1>2. CASE UNCHANGED history_vars
  <2>1. UNCHANGED <<record_vars, user, rollup, rows>> /\ hour' = hour /\ sender' = sender
    BY <1>2 DEF history_vars
  <2> QED
    BY <1>1, <2>1, IdleStepsKeepHistory
<1>3. CASE HourPasses
  <2>1. hour' \in Hours /\ hour <= hour' /\ sender' = sender /\ UNCHANGED <<record_vars, user, rollup, rows>>
    BY <1>1, <1>3, HistoryConstants DEF HourPasses, Hours
  <2> QED
    BY <1>1, <2>1, IdleStepsKeepHistory
<1>4. ASSUME NEW s \in Senders, NEW w \in HistoryWallets, NEW m \in HistoryMarkets, should_send(s, w, m)
      PROVE  HistoryInv'
  <2>1. sender' \in [Senders -> SenderStates] /\ hour' = hour /\ UNCHANGED <<record_vars, user, rollup, rows>>
    BY <1>1, <1>4 DEF should_send
  <2> QED
    BY <1>1, <2>1, IdleStepsKeepHistory
<1>5. ASSUME NEW s \in Senders, SenderGivesUp(s)
      PROVE  HistoryInv'
  <2>1. sender' \in [Senders -> SenderStates] /\ hour' = hour /\ UNCHANGED <<record_vars, user, rollup, rows>>
    BY <1>1, <1>5 DEF SenderGivesUp
  <2> QED
    BY <1>1, <2>1, IdleStepsKeepHistory
<1> QED
  BY <1>2, <1>3, <1>4, <1>5, RecordKeepsHistory, FeedbackKeepsHistory, CleanupKeepsHistory,
     RollupKeepsHistory DEF HistoryNext

(* The TTLs, the indexes and the rollups of the alert history keep in    *)
(* step with what was recorded, whoever reads and writes them when.      *)
THEOREM HistoryStaysInStep == HistorySpec => []HistoryInv
<1>1. HistoryInit => HistoryInv
  <2> SUFFICES ASSUME HistoryInit PROVE HistoryInv
    OBVIOUS
  <2>1. /\ DOMAIN alert = {} /\ hour = 0 /\ index_time = {}
        /\ expires = [n \in Alerts |-> 0] /\ rows = [g \in GroupKeys |-> 0]
    BY DEF HistoryInit, Never, GroupKeys
  <2>2. HistoryTypeOK
    <3>1. hour \in Hours /\ expires \in [Alerts -> 0 .. MaxHour + retention]
      BY <2>1, HistoryConstants DEF Hours
    <3>2. sent_key \in [HistoryWallets \X HistoryMarkets \X Hours -> 0 .. MaxHour + dedup_window]
      <4>1. 0 \in 0 .. MaxHour + dedup_window
        BY HistoryConstants
      <4> QED
        BY <4>1 DEF HistoryInit, Never
    <3>3. DOMAIN alert \in {1 .. n : n \in 0 .. MaxAlerts}
      <4>1. 1 .. 0 = {} /\ 0 \in 0 .. MaxAlerts
        BY HistoryConstants
      <4> QED
        BY <2>1, <4>1
    <3>4. Empty \in Indexes
      BY HistoryConstants DEF Empty, Never, Indexes
    <3>5. index_wallet \in [HistoryWallets -> Indexes] /\ index_market \in [HistoryMarkets -> Indexes]
      BY <3>4 DEF HistoryInit
    <3>6. rows \in Groups
      BY <2>1, HistoryConstants DEF Groups, GroupKeys
    <3> QED
      BY <2>1, <3>1, <3>2, <3>3, <3>5, <3>6 DEF HistoryTypeOK
  <2>3. HistoryActorsOK
    BY DEF HistoryInit, HistoryActorsOK
  <2>4. RecordsInv
    <3>1. \A u \in Users : user[u].at = "idle"
      BY DEF HistoryInit, Idle
    <3> QED
      BY <2>1, <3>1, HistoryConstants DEF RecordsInv
  <2>5. IndexesInv
    BY <2>1 DEF IndexesInv
  <2>6. CountsInv
    <3>1. ASSUME NEW g \in GroupKeys
          PROVE  Cardinality(Recorded(g)) \in Nat /\ rows[g] = 0
      <4>1. Recorded(g) \subseteq DOMAIN alert /\ DOMAIN alert \in {1 .. n : n \in 0 .. MaxAlerts}
        BY <2>2 DEF Recorded, HistoryTypeOK
      <4>2. Cardinality(Recorded(g)) \in 0 .. MaxAlerts
        BY <4>1, AlertsAreFinite
      <4> QED
        BY <2>1, <4>2, HistoryConstants
    <3>2. \A r \in Rollups : rollup[r].at = "idle"
      BY DEF HistoryInit, Idle
    <3> QED
      BY <3>1, <3>2 DEF CountsInv
  <2> QED
    BY <2>2, <2>3, <2>4, <2>5, <2>6 DEF HistoryInv
<1>2. HistoryInv /\ [HistoryNext]_history_vars => HistoryInv'
  BY HistoryInvHolds
<1> QED
  BY <1>1, <1>2, PTL DEF HistorySpec

(* An alert is found by its time, its wallet and its market until its    *)
(* retention is over, for every number of alerts, users and hours.       *)
THEOREM AlertsAreFound == HistorySpec => []LiveAlertsAreFound
<1>1. HistoryInv => LiveAlertsAreFound
  <2> SUFFICES ASSUME HistoryInv, NEW n \in DOMAIN alert, hour < alert[n].at + retention
               PROVE  n \in get_alerts(index_time, alert[n].at, hour)
                            \cap get_alerts(Current(index_wallet[alert[n].wallet]).ids, alert[n].at, hour)
                            \cap get_alerts(Current(index_market[alert[n].market]).ids, alert[n].at, hour)
    BY DEF LiveAlertsAreFound
  <2>1. /\ hour \in Nat /\ alert[n].at \in Nat /\ expires[n] \in Nat /\ alert[n].at <= hour
        /\ alert[n].at + retention <= expires[n]
        /\ index_wallet[alert[n].wallet] \in Indexes /\ index_market[alert[n].market] \in Indexes
    BY HistoryRanges DEF HistoryInv, HistoryTypeOK, RecordsInv
  <2>2. alert[n].at \in alert[n].at .. hour /\ Live(n)
    BY <2>1, HistoryConstants DEF Live
  <2>3. /\ n \in index_time
        /\ Keeps(index_wallet[alert[n].wallet], n) /\ Keeps(index_market[alert[n].market], n)
    BY DEF HistoryInv, IndexesInv
  <2>4. ASSUME NEW index \in Indexes, Keeps(index, n)
        PROVE  n \in Current(index).ids
    BY <2>1, <2>4, HistoryConstants DEF Keeps, Current, Indexes
  <2> QED
    BY <2>1, <2>2, <2>3, <2>4 DEF get_alerts
<1> QED
  BY <1>1, HistoryStaysInStep, PTL

(* No row of the rollup says more alerts than were recorded, however     *)
(* many runs of it collect and commit one across another.                *)
THEOREM RollupsAreBacked == HistorySpec => []RollupsDoNotOvercount
<1>1. HistoryInv => RollupsDoNotOvercount
  BY DEF HistoryInv, HistoryTypeOK, Groups, GroupKeys, CountsInv, Recorded, RollupsDoNotOvercount
<1> QED
  BY <1>1, HistoryStaysInStep, PTL

-----------------------------------------------------------------------------
(***************************************************************************)
(* The inductive invariant of ClobClient: a get_markets that is about to *)
(* ask for a page has the open markets of the pages before it, each once,*)
(* on whichever attempt.                                                 *)
(***************************************************************************)
OpenBefore(n) == UNION {pages[i] \ Closed : i \in 1 .. n}

Collected(markets, n) ==
    /\ ToSet(markets) = OpenBefore(n)
    /\ Len(markets) = Cardinality(OpenBefore(n))

GathersPages(x) ==
    x.method = "get_markets" =>
        /\ x.at \in {"acquire", "sleep", "request"} => Collected(x.markets, x.page - 1)
        /\ x.at = "returned" => Collected(x.markets, Len(pages))

ClobInv == ClobTypeOK /\ \A t \in Threads : GathersPages(thread[t])

ThreadStates == [method : Raising \cup Answering \cup {"none"},
                 at : {"idle", "acquire", "sleep", "request", "returned", "failed"},
                 attempt : 0 .. clob_retries, wait : 0 .. min_interval,
                 page : 1 .. Len(pages), markets : Seq(Listed)]

-----------------------------------------------------------------------------
LEMMA ClobConstants ==
    /\ Len(pages) \in Nat /\ Len(pages) > 0 /\ DOMAIN pages = 1 .. Len(pages)
    /\ clob_retries \in Nat /\ min_interval \in Nat
    /\ IsFiniteSet(Listed) /\ Listed = UNION {pages[i] : i \in 1 .. Len(pages)}
BY ClobAssumption DEF Listed, ToSet

\* SetToSeq lists the members of a finite set, each once.
LEMMA ListedOnce ==
    ASSUME NEW S, IsFiniteSet(S)
    PROVE  /\ SetToSeq(S) \in Seq(S) /\ Len(SetToSeq(S)) = Cardinality(S)
           /\ ToSet(SetToSeq(S)) = S
<1> DEFINE n == Cardinality(S)
<1>1. n \in Nat /\ ExistsBijection(1 .. n, S)
  BY FS_CardinalityType
<1>2. PICK f \in Bijection(1 .. n, S) : TRUE
  BY <1>1 DEF ExistsBijection
<1>3. f \in [1 .. n -> S] /\ IsInjective(f)
  BY <1>2 DEF Bijection, Injection
<1>4. PICK g : g = SetToSeq(S)
  OBVIOUS
<1>5. g \in [1 .. n -> S] /\ IsInjective(g)
  BY <1>3, <1>4 DEF SetToSeq
<1>6. IsFiniteSet(1 .. n) /\ Cardinality(1 .. n) = n
  BY <1>1, Intervals
<1>7. g \in Injection(1 .. n, S)
  BY <1>5 DEF Injection
<1>8. g \in Surjection(1 .. n, S)
  BY <1>6, <1>7, FS_Injection
<1>9. g \in Seq(S) /\ Len(g) = n /\ DOMAIN g = 1 .. n
  <2> HIDE DEF n
  <2> QED
    BY <1>1, <1>5
<1>10. ToSet(g) = S
  BY <1>8, <1>9 DEF Surjection, ToSet
<1> QED
  BY <1>4, <1>9, <1>10

LEMMA NextPageIsCollected ==
    ASSUME NEW n \in 0 .. Len(pages) - 1, NEW markets \in Seq(Listed), Collected(markets, n),
           NEW open, open = SetToSeq(pages[n + 1] \ Closed)
    PROVE  markets \o open \in Seq(Listed) /\ Collected(markets \o open, n + 1)
<1> DEFINE S == pages[n + 1] \ Closed
           A == OpenBefore(n)
<1>1. n \in Nat /\ n + 1 \in 1 .. Len(pages) /\ 1 .. n \subseteq 1 .. Len(pages)
  BY ClobConstants
<1>2. S \subseteq Listed /\ A \subseteq Listed
  BY <1>1, ClobConstants DEF OpenBefore
<1>3. IsFiniteSet(S) /\ IsFiniteSet(A)
  BY <1>2, ClobConstants, FS_Subset
<1>4. open \in Seq(S) /\ Len(open) = Cardinality(S) /\ ToSet(open) = S
  BY <1>3, ListedOnce
<1>5. OpenBefore(n + 1) = A \cup S
  <2>1. 1 .. n + 1 = (1 .. n) \cup {n + 1}
    BY <1>1
  <2> QED
    BY <2>1 DEF OpenBefore
<1>6. A \cap S = {}
  <2>1. ASSUME NEW i \in 1 .. n
        PROVE  pages[i] \cap pages[n + 1] = {}
    <3>1. i # n + 1 /\ i \in DOMAIN pages /\ n + 1 \in DOMAIN pages
      BY <1>1, ClobConstants
    <3> QED
      BY <3>1, ClobAssumption
  <2> QED
    BY <2>1 DEF OpenBefore
<1>7. Cardinality(OpenBefore(n + 1)) = Cardinality(A) + Cardinality(S)
  <2>1. Cardinality(A \cup S) = Cardinality(A) + Cardinality(S) - Cardinality(A \cap S)
    BY <1>3, FS_Union
  <2>2. Cardinality(A \cap S) = 0 /\ Cardinality(A) \in Nat /\ Cardinality(S) \in Nat
    BY <1>3, <1>6, FS_EmptySet, FS_CardinalityType
  <2>3. PICK a, c, u : a = Cardinality(A) /\ c = Cardinality(S) /\ u = Cardinality(A \cup S)
    OBVIOUS
  <2>4. u = a + c
    <3>1. u = a + c - 0 /\ a \in Nat /\ c \in Nat
      BY <2>1, <2>2, <2>3, Zenon
    <3> QED
      BY <3>1
  <2>5. Cardinality(OpenBefore(n + 1)) = u
    BY <1>5, <2>3, Zenon
  <2> QED
    BY <2>3, <2>4, <2>5, Zenon
<1>8. open \in Seq(Listed)
  <2> HIDE DEF S
  <2> QED
    BY <1>2, <1>4
<1>9. markets \o open \in Seq(Listed) /\ Len(markets \o open) = Len(markets) + Len(open)
  BY <1>8
<1>10. ToSet(markets \o open) = ToSet(markets) \cup ToSet(open)
  <2>1. PICK p, q : p = Len(markets) /\ q = Len(open)
    OBVIOUS
  <2>2. PICK both : both = markets \o open
    OBVIOUS
  <2>3. /\ p \in Nat /\ q \in Nat /\ DOMAIN markets = 1 .. p /\ DOMAIN open = 1 .. q /\ DOMAIN both = 1 .. p + q
        /\ \A i \in 1 .. p + q : both[i] = IF i <= p THEN markets[i] ELSE open[i - p]
    BY <1>8, <2>1, <2>2
  <2>4. \A i \in 1 .. p : i \in 1 .. p + q /\ both[i] = markets[i]
    BY <2>3
  <2>5. ASSUME NEW i \in 1 .. q
        PROVE  i + p \in 1 .. p + q /\ both[i + p] = open[i]
    <3>1. i + p \in 1 .. p + q /\ ~(i + p <= p) /\ (i + p) - p = i
      BY <2>3
    <3> QED
      BY <2>3, <3>1
  <2>6. ASSUME NEW i \in 1 .. p + q
        PROVE  (i \in 1 .. p /\ both[i] = markets[i]) \/ (i - p \in 1 .. q /\ both[i] = open[i - p])
    <3>1. CASE i <= p
      BY <2>3, <3>1
    <3>2. CASE ~(i <= p)
      <4>1. i - p \in 1 .. q
        BY <2>3, <3>2
      <4> QED
        BY <2>3, <3>2, <4>1
    <3> QED
      BY <3>1, <3>2
  <2>7. ToSet(both) = ToSet(markets) \cup ToSet(open)
    <3>1. ASSUME NEW e \in ToSet(both)
          PROVE  e \in ToSet(markets) \cup ToSet(open)
      <4>1. PICK i \in 1 .. p + q : e = both[i]
        BY <2>3, <3>1 DEF ToSet
      <4> QED
        BY <2>3, <2>6, <4>1 DEF ToSet
    <3>2. ToSet(markets) \subseteq ToSet(both)
      BY <2>3, <2>4 DEF ToSet
    <3>3. ASSUME NEW e \in ToSet(open)
          PROVE  e \in ToSet(both)
      <4>1. PICK i \in 1 .. q : e = open[i]
        BY <2>3, <3>3 DEF ToSet
      <4>2. i + p \in DOMAIN both /\ both[i + p] = e
        BY <2>3, <2>5, <4>1
      <4> QED
        BY <4>2 DEF ToSet
    <3> QED
      BY <3>1, <3>2, <3>3
  <2> QED
    BY <2>2, <2>7
<1> HIDE DEF S
<1> QED
  BY <1>4, <1>5, <1>7, <1>9, <1>10 DEF Collected

\* A thread begins an attempt with nothing.
LEMMA NothingIsCollected == Collected(<<>>, 0) /\ <<>> \in Seq(Listed)
<1>1. OpenBefore(0) = {}
  BY DEF OpenBefore
<1>2. Cardinality(OpenBefore(0)) = 0
  BY <1>1, FS_EmptySet
<1>3. ToSet(<<>>) = {} /\ Len(<<>>) = 0 /\ <<>> \in Seq(Listed)
  BY DEF ToSet
<1>4. Collected(<<>>, 0)
  BY <1>1, <1>2, <1>3, Zenon DEF Collected
<1> QED
  BY <1>3, <1>4

LEMMA ThreadFields ==
    ASSUME NEW x \in ThreadStates
    PROVE  /\ x.method \in Raising \cup Answering \cup {"none"} /\ x.attempt \in 0 .. clob_retries
           /\ x.wait \in 0 .. min_interval /\ x.page \in 1 .. Len(pages) /\ x.markets \in Seq(Listed)
BY DEF ThreadStates

LEMMA ThreadStep ==
    ASSUME ClobInv, NEW t \in Threads, NEW x \in ThreadStates, GathersPages(x),
           thread' = [thread EXCEPT ![t] = x], since' \in 0 .. min_interval
    PROVE  ClobInv'
<1>1. thread \in [Threads -> ThreadStates] /\ \A k \in Threads : GathersPages(thread[k])
  BY DEF ClobInv, ClobTypeOK, ThreadStates
<1>2. thread' \in [Threads -> ThreadStates] /\ \A k \in Threads : thread'[k] = IF k = t THEN x ELSE thread[k]
  BY <1>1
<1>3. \A k \in Threads : GathersPages(thread'[k])
  BY <1>1, <1>2
<1> QED
  BY <1>2, <1>3 DEF ClobInv, ClobTypeOK, ThreadStates

\* What a thread begins an attempt of a method as.
LEMMA BeginsAnew ==
    ASSUME NEW method \in Raising \cup Answering \cup {"none"}, NEW n \in 0 .. clob_retries
    PROVE  LET x == [Resting EXCEPT !.method = method, !.at = "acquire", !.attempt = n]
           IN x \in ThreadStates /\ GathersPages(x)
<1> DEFINE x == [Resting EXCEPT !.method = method, !.at = "acquire", !.attempt = n]
<1>1. Resting \in ThreadStates /\ Resting.page = 1 /\ Resting.markets = <<>>
  BY NothingIsCollected, ClobConstants DEF Resting, ThreadStates
<1>2. x \in ThreadStates
  BY <1>1 DEF ThreadStates
<1>3. GathersPages(x)
  <2>1. x.at = "acquire" /\ x.page = 1 /\ x.markets = <<>> /\ 1 - 1 = 0
    BY <1>1 DEF ThreadStates
  <2> HIDE DEF x
  <2> QED
    BY <2>1, NothingIsCollected DEF GathersPages
<1> QED
  BY <1>2, <1>3

LEMMA ClobInvHolds == ClobInv /\ [ClobNext]_clob_vars => ClobInv'
<1> SUFFICES ASSUME ClobInv, [ClobNext]_clob_vars
             PROVE  ClobInv'
  OBVIOUS
<1>1. /\ thread \in [Threads -> ThreadStates] /\ since \in 0 .. min_interval
      /\ \A t \in Threads : GathersPages(thread[t])
  BY DEF ClobInv, ClobTypeOK, ThreadStates
<1>2. CASE UNCHANGED clob_vars
  BY <1>1, <1>2 DEF clob_vars, ClobInv, ClobTypeOK, ThreadStates
<1>3. CASE ClobTick
  <2>1. since' \in 0 .. min_interval
    BY <1>1, <1>3, ClobConstants DEF ClobTick
  <2>2. ASSUME NEW t \in Threads
        PROVE  /\ thread'[t] \in ThreadStates /\ thread'[t].method = thread[t].method
               /\ thread'[t].at = thread[t].at /\ thread'[t].page = thread[t].page
               /\ thread'[t].markets = thread[t].markets
    <3>1. CASE thread[t].at = "sleep" /\ thread[t].wait > 0
      <4>1. thread'[t] = [thread[t] EXCEPT !.wait = thread[t].wait - 1]
        BY <1>3, <3>1 DEF ClobTick
      <4>2. thread[t].wait - 1 \in 0 .. min_interval /\ thread[t] \in ThreadStates
        <5>1. thread[t] \in ThreadStates
          BY <1>1
        <5>2. PICK n : n = thread[t].wait
          OBVIOUS
        <5>3. n \in 0 .. min_interval /\ n > 0
          BY <3>1, <5>1, <5>2, ThreadFields
        <5>4. n - 1 \in 0 .. min_interval
          BY <5>3, ClobConstants
        <5> QED
          BY <5>1, <5>2, <5>4
      <4> QED
        BY <4>1, <4>2 DEF ThreadStates
    <3>2. CASE ~(thread[t].at = "sleep" /\ thread[t].wait > 0)
      <4>1. thread'[t] = thread[t]
        BY <1>3, <3>2 DEF ClobTick
      <4> QED
        BY <1>1, <4>1
    <3> QED
      BY <3>1, <3>2
  <2>3. thread' \in [Threads -> ThreadStates]
    <3>1. thread' = [t \in Threads |-> thread'[t]]
      BY <1>3 DEF ClobTick
    <3> QED
      BY <2>2, <3>1
  <2>4. \A t \in Threads : GathersPages(thread'[t])
    BY <1>1, <2>2 DEF GathersPages
  <2> QED
    BY <2>1, <2>3, <2>4 DEF ClobInv, ClobTypeOK, ThreadStates
<1>4. ASSUME NEW t \in Threads, NEW method \in Raising \cup Answering, Call(t, method)
      PROVE  ClobInv'
  <2>1. PICK x : x = [Resting EXCEPT !.method = method, !.at = "acquire"]
    OBVIOUS
  <2>2. x \in ThreadStates /\ GathersPages(x)
    <3>1. /\ Resting \in ThreadStates /\ Resting.page = 1 /\ Resting.markets = <<>>
      BY NothingIsCollected, ClobConstants DEF Resting, ThreadStates
    <3>2. x \in ThreadStates /\ x.at = "acquire" /\ x.page = 1 /\ x.markets = <<>>
      BY <2>1, <3>1 DEF ThreadStates
    <3>3. x.page - 1 = 0
      BY <3>2
    <3> QED
      BY <3>2, <3>3, NothingIsCollected DEF GathersPages
  <2>3. thread' = [thread EXCEPT ![t] = x] /\ since' = since
    BY <1>4, <2>1 DEF Call
  <2> QED
    BY <1>1, <2>2, <2>3, ThreadStep
<1>5. ASSUME NEW t \in Threads, acquire_sync(t)
      PROVE  ClobInv'
  <2>1. PICK x : x = [thread[t] EXCEPT !.at = "sleep", !.wait = min_interval - since]
    OBVIOUS
  <2>2. thread' = [thread EXCEPT ![t] = x] /\ since' = since /\ thread[t].at = "acquire"
    BY <1>1, <1>5, <2>1 DEF acquire_sync
  <2>3. min_interval - since \in 0 .. min_interval /\ thread[t] \in ThreadStates
    BY <1>1, ClobConstants
  <2>4. /\ x \in ThreadStates /\ x.at = "sleep" /\ x.method = thread[t].method
        /\ x.page = thread[t].page /\ x.markets = thread[t].markets
    BY <2>1, <2>3 DEF ThreadStates
  <2>5. GathersPages(x)
    BY <1>1, <2>2, <2>4 DEF GathersPages
  <2> QED
    BY <1>1, <2>2, <2>4, <2>5, ThreadStep
<1>6. ASSUME NEW t \in Threads, Awake(t)
      PROVE  ClobInv'
  <2>1. PICK x : x = [thread[t] EXCEPT !.at = "request"]
    OBVIOUS
  <2>2. thread' = [thread EXCEPT ![t] = x] /\ since' = 0 /\ thread[t].at = "sleep"
    BY <1>1, <1>6, <2>1 DEF Awake
  <2>3. /\ x \in ThreadStates /\ x.at = "request" /\ x.method = thread[t].method
        /\ x.page = thread[t].page /\ x.markets = thread[t].markets
    BY <1>1, <2>1 DEF ThreadStates
  <2>4. GathersPages(x)
    BY <1>1, <2>2, <2>3 DEF GathersPages
  <2>5. since' \in 0 .. min_interval
    BY <2>2, ClobConstants
  <2> QED
    BY <2>2, <2>3, <2>4, <2>5, ThreadStep
<1>7. ASSUME NEW t \in Threads, thread[t].at = "request", since' = since,
             thread[t].method # "get_markets", Returns(t, thread[t])
      PROVE  ClobInv'
  <2>1. PICK x : x = [thread[t] EXCEPT !.at = "returned"]
    OBVIOUS
  <2>2. thread' = [thread EXCEPT ![t] = x]
    BY <1>7, <2>1 DEF Returns
  <2>3. x \in ThreadStates /\ x.method # "get_markets"
    BY <1>1, <1>7, <2>1 DEF ThreadStates
  <2>4. GathersPages(x)
    BY <2>3 DEF GathersPages
  <2> QED
    BY <1>1, <1>7, <2>2, <2>3, <2>4, ThreadStep
<1>8. ASSUME NEW t \in Threads, thread[t].at = "request", since' = since,
             thread[t].method = "get_markets", get_markets(t)
      PROVE  ClobInv'
  <2>1. PICK n, open, all_markets : /\ n = thread[t].page - 1
                                    /\ open = SetToSeq(pages[thread[t].page] \ Closed)
                                    /\ all_markets = thread[t].markets \o open
    OBVIOUS
  <2>2. /\ n \in 0 .. Len(pages) - 1 /\ n \in Nat /\ thread[t].page = n + 1 /\ thread[t].markets \in Seq(Listed)
        /\ thread[t] \in ThreadStates
    <3>1. thread[t] \in ThreadStates
      BY <1>1
    <3>2. PICK k : k = thread[t].page
      OBVIOUS
    <3>3. k \in 1 .. Len(pages) /\ thread[t].markets \in Seq(Listed)
      BY <3>1, <3>2, ThreadFields
    <3>4. n = k - 1
      BY <2>1, <3>2
    <3>5. n \in 0 .. Len(pages) - 1 /\ n \in Nat /\ k = n + 1
      BY <3>3, <3>4, ClobConstants
    <3> QED
      BY <3>1, <3>2, <3>3, <3>5
  <2>3. Collected(thread[t].markets, n)
    BY <1>1, <1>8, <2>1 DEF GathersPages
  <2>4. open = SetToSeq(pages[n + 1] \ Closed)
    BY <2>1, <2>2
  <2>5. all_markets \in Seq(Listed) /\ Collected(all_markets, n + 1)
    BY <2>1, <2>2, <2>3, <2>4, NextPageIsCollected
  <2>6. CASE thread[t].page = Len(pages)
    <3>1. PICK x : x = [thread[t] EXCEPT !.at = "returned", !.markets = all_markets]
      OBVIOUS
    <3>2. thread' = [thread EXCEPT ![t] = x]
      <4>1. Returns(t, [thread[t] EXCEPT !.markets = all_markets])
        BY <1>8, <2>1, <2>6 DEF get_markets
      <4>2. [[thread[t] EXCEPT !.markets = all_markets] EXCEPT !.at = "returned"] = x
        BY <2>2, <2>5, <3>1 DEF ThreadStates
      <4> QED
        BY <4>1, <4>2 DEF Returns
    <3>3. x \in ThreadStates /\ x.at = "returned" /\ x.markets = all_markets
      BY <2>2, <2>5, <3>1 DEF ThreadStates
    <3>4. GathersPages(x)
      BY <2>2, <2>5, <2>6, <3>3 DEF GathersPages
    <3> QED
      BY <1>1, <1>8, <3>2, <3>3, <3>4, ThreadStep
  <2>7. CASE thread[t].page # Len(pages)
    <3>1. PICK x : x = [thread[t] EXCEPT !.at = "acquire", !.page = thread[t].page + 1, !.markets = all_markets]
      OBVIOUS
    <3>2. thread' = [thread EXCEPT ![t] = x]
      BY <1>1, <1>8, <2>1, <2>7, <3>1 DEF get_markets
    <3>3. thread[t].page + 1 \in 1 .. Len(pages) /\ (thread[t].page + 1) - 1 = n + 1
      <4>1. PICK k : k = thread[t].page
        OBVIOUS
      <4>2. k = n + 1 /\ n \in 0 .. Len(pages) - 1 /\ k # Len(pages)
        BY <2>2, <2>7, <4>1
      <4>3. k + 1 \in 1 .. Len(pages) /\ (k + 1) - 1 = n + 1
        <5>1. PICK last : last = Len(pages)
          OBVIOUS
        <5>2. last \in Nat /\ n \in Nat /\ n <= last - 1 /\ k = n + 1 /\ k # last
          BY <2>2, <4>2, <5>1, ClobConstants
        <5>3. k + 1 \in 1 .. last /\ (k + 1) - 1 = n + 1
          BY <5>2
        <5> QED
          BY <5>1, <5>3
      <4> QED
        BY <4>1, <4>3
    <3>4. x \in ThreadStates /\ x.at = "acquire" /\ x.page = thread[t].page + 1 /\ x.markets = all_markets
      BY <2>2, <2>5, <3>1, <3>3 DEF ThreadStates
    <3>5. GathersPages(x)
      <4>1. x.page - 1 = n + 1
        BY <3>3, <3>4
      <4> QED
        BY <2>5, <3>4, <4>1, Zenon DEF GathersPages
    <3> QED
      BY <1>1, <1>8, <3>2, <3>4, <3>5, ThreadStep
  <2> QED
    BY <2>6, <2>7
<1>9. ASSUME NEW t \in Threads, thread[t].at = "request", since' = since, with_retry(t)
      PROVE  ClobInv'
  <2>1. CASE thread[t].attempt = clob_retries
    <3>1. PICK x : x = [thread[t] EXCEPT !.at = "failed"]
      OBVIOUS
    <3>2. thread' = [thread EXCEPT ![t] = x]
      BY <1>1, <1>9, <2>1, <3>1 DEF with_retry
    <3>3. x \in ThreadStates /\ x.at = "failed"
      BY <1>1, <3>1 DEF ThreadStates
    <3>4. GathersPages(x)
      BY <3>3 DEF GathersPages
    <3> QED
      BY <1>1, <1>9, <3>2, <3>3, <3>4, ThreadStep
  <2>2. CASE thread[t].attempt # clob_retries
    <3>1. PICK method, n : method = thread[t].method /\ n = thread[t].attempt + 1
      OBVIOUS
    <3>2. method \in Raising \cup Answering \cup {"none"} /\ n \in 0 .. clob_retries
      <4>1. PICK a : a = thread[t].attempt
        OBVIOUS
      <4>2. method \in Raising \cup Answering \cup {"none"} /\ a \in 0 .. clob_retries
        BY <1>1, <3>1, <4>1, ThreadFields
      <4>3. n = a + 1 /\ a # clob_retries
        BY <2>2, <3>1, <4>1
      <4>4. n \in 0 .. clob_retries
        BY <4>2, <4>3, ClobConstants
      <4> QED
        BY <4>2, <4>4
    <3>3. PICK x : x = [Resting EXCEPT !.method = method, !.at = "acquire", !.attempt = n]
      OBVIOUS
    <3>4. x \in ThreadStates /\ GathersPages(x)
      BY <3>2, <3>3, BeginsAnew
    <3>5. thread' = [thread EXCEPT ![t] = x]
      BY <1>9, <2>2, <3>1, <3>3 DEF with_retry
    <3> QED
      BY <1>1, <1>9, <3>4, <3>5, ThreadStep
  <2> QED
    BY <2>1, <2>2
<1>10. ASSUME NEW t \in Threads, RequestAnswered(t)
       PROVE  ClobInv'
  BY <1>7, <1>8, <1>10 DEF RequestAnswered
<1>11. ASSUME NEW t \in Threads, RequestFails(t)
       PROVE  ClobInv'
  <2>1. thread[t].method \notin Raising => thread[t].method # "get_markets"
    BY DEF Raising
  <2> QED
    BY <1>7, <1>9, <1>11, <2>1 DEF RequestFails
<1> QED
  BY <1>2, <1>3, <1>4, <1>5, <1>6, <1>10, <1>11 DEF ClobNext

(* Whatever is retried, and whoever shares the client meanwhile, a thread*)
(* has the markets of the pages it read on this attempt.                 *)
THEOREM PagesAreGathered == ClobSpec => []ClobInv
<1>1. ClobInit => ClobInv
  <2> SUFFICES ASSUME ClobInit PROVE ClobInv
    OBVIOUS
  <2>1. Resting \in ThreadStates /\ GathersPages(Resting)
    <3>1. Resting \in ThreadStates
      BY NothingIsCollected, ClobConstants DEF Resting, ThreadStates
    <3>2. Resting.at = "idle"
      BY DEF Resting
    <3> QED
      BY <3>1, <3>2 DEF GathersPages
  <2>2. thread \in [Threads -> ThreadStates] /\ \A t \in Threads : thread[t] = Resting
    BY <2>1 DEF ClobInit
  <2>3. since \in 0 .. min_interval
    BY ClobConstants DEF ClobInit
  <2> QED
    BY <2>1, <2>2, <2>3 DEF ClobInv, ClobTypeOK, ThreadStates
<1>2. ClobInv /\ [ClobNext]_clob_vars => ClobInv'
  BY ClobInvHolds
<1> QED
  BY <1>1, <1>2, PTL DEF ClobSpec

(* What get_markets returns is every open market, once, for any pages,   *)
(* any number of threads and of retries.                                 *)
THEOREM MarketsAreWhole == ClobSpec => []MarketsAreComplete
<1>1. ClobInv => MarketsAreComplete
  <2> SUFFICES ASSUME ClobInv, NEW t \in Threads, thread[t].method = "get_markets", thread[t].at = "returned"
               PROVE  /\ ToSet(thread[t].markets) = Listed \ Closed
                      /\ Len(thread[t].markets) = Cardinality(Listed \ Closed)
    BY DEF MarketsAreComplete
  <2>1. Collected(thread[t].markets, Len(pages))
    BY DEF ClobInv, GathersPages
  <2>2. OpenBefore(Len(pages)) = Listed \ Closed
    BY ClobConstants DEF OpenBefore
  <2> QED
    BY <2>1, <2>2 DEF Collected
<1> QED
  BY <1>1, PagesAreGathered, PTL

-----------------------------------------------------------------------------
(***************************************************************************)
(* The inductive invariant of DailyFetch.  Trades made meanwhile push rows *)
(* to later pages, never back before the offset: so of the trades there  *)
(* were at the start, those that are now within the offset were read.    *)
(***************************************************************************)
IsFetched(i) == hash_of[i] # Unhashed => \E j \in fetched : hash_of[j] = hash_of[i]

OneOfEach == \A i, j \in fetched : i # j => hash_of[i] # hash_of[j] \/ hash_of[i] = Unhashed

FetchInv ==
    /\ DailyFetchTypeOK /\ made >= made_at_start /\ OneOfEach
    /\ \A i \in 1 .. made_at_start : i > made - offset => IsFetched(i)
    /\ complete => \A i \in 1 .. made_at_start : time_of[i] > cutoff => IsFetched(i)

-----------------------------------------------------------------------------
LEMMA FetchConstants ==
    /\ Len(hash_of) \in Nat /\ DOMAIN hash_of = 1 .. Len(hash_of)
    /\ made_at_start \in Nat /\ made_at_start <= Len(hash_of) /\ cutoff \in Nat
    /\ \A i \in 1 .. Len(hash_of) : time_of[i] \in Nat
    /\ \A i, j \in 1 .. Len(hash_of) : i <= j => time_of[i] <= time_of[j]
    /\ PAGE_SIZE \in Nat /\ PAGE_SIZE > 0
<1>1. Len(hash_of) \in Nat /\ DOMAIN hash_of = 1 .. Len(hash_of)
  <2>1. PICK S : hash_of \in Seq(S)
    BY DailyFetchAssumption
  <2> QED
    BY <2>1
<1>2. PICK n : n = Len(hash_of)
  OBVIOUS
<1>3. time_of \in [1 .. n -> Nat] /\ made_at_start \in 0 .. n /\ n \in Nat
  BY <1>1, <1>2, DailyFetchAssumption
<1>4. \A i, j \in 1 .. n : i <= j => time_of[i] <= time_of[j]
  BY <1>3, DailyFetchAssumption
<1>5. cutoff \in Nat /\ PAGE_SIZE \in Nat /\ PAGE_SIZE > 0
  BY DailyFetchAssumption
<1> QED
  BY <1>1, <1>2, <1>3, <1>4, <1>5

LEMMA NewestOfSome ==
    ASSUME NEW n \in Nat, NEW S \in SUBSET (1 .. n), S # {}
    PROVE  \E x \in S : \A y \in S : y <= x
<1> DEFINE T == {n - y : y \in S}
<1>1. T \in SUBSET Nat /\ T # {}
  <2>1. \A y \in S : n - y \in Nat
    OBVIOUS
  <2>2. PICK y \in S : TRUE
    OBVIOUS
  <2>3. n - y \in T
    OBVIOUS
  <2> QED
    BY <2>1, <2>3
<1>2. PICK d \in T : \A e \in T : d <= e
  <2> DEFINE R == OpToRel(<, Nat)
  <2>1. \A d, e \in Nat : <<d, e>> \in R <=> d < e
    BY DEF OpToRel
  <2>2. IsWellFoundedOn(R, Nat)
    BY NatLessThanWellFounded, Zenon
  <2> HIDE DEF T, R
  <2>3. PICK d \in T : \A e \in T : ~ (<<e, d>> \in R)
    BY <1>1, <2>2, WFMin
  <2>4. ASSUME NEW e \in T
        PROVE  d <= e
    <3>1. d \in Nat /\ e \in Nat /\ ~(e < d)
      BY <1>1, <2>1, <2>3
    <3> QED
      BY <3>1
  <2> QED
    BY <2>4
<1>3. PICK x \in S : d = n - x
  BY <1>2
<1>4. ASSUME NEW y \in S
      PROVE  y <= x
  <2>1. n - y \in T
    OBVIOUS
  <2>2. n - x <= n - y
    BY <1>2, <1>3, <2>1
  <2>3. x \in Int /\ y \in Int
    OBVIOUS
  <2> QED
    BY <2>2, <2>3
<1> QED
  BY <1>4

\* Of the rows with a hash, the newest on the page stands for the others of it.
LEMMA PageIsCovered ==
    ASSUME DailyFetchTypeOK, NEW i \in page, hash_of[i] # Unhashed
    PROVE  \E j \in fetched \cup unseen(page) : hash_of[j] = hash_of[i]
<1>1. made \in Nat /\ page \subseteq 1 .. made
  BY FetchConstants DEF DailyFetchTypeOK, page
<1> DEFINE S == {j \in page : hash_of[j] = hash_of[i]}
<1>2. PICK x \in S : \A y \in S : y <= x
  <2>1. S \in SUBSET (1 .. made) /\ S # {}
    BY <1>1
  <2> HIDE DEF S
  <2> QED
    BY <1>1, <2>1, NewestOfSome
<1>3. x \in page /\ hash_of[x] = hash_of[i]
  BY <1>2
<1>4. ASSUME \A j \in fetched : hash_of[j] # hash_of[i]
      PROVE  x \in unseen(page)
  <2>1. ASSUME NEW j \in page, j > x
        PROVE  hash_of[j] # hash_of[x]
    BY <1>1, <1>2, <1>3, <2>1
  <2> QED
    BY <1>3, <1>4, <2>1 DEF unseen
<1> QED
  BY <1>3, <1>4

LEMMA FetchPageKeepsInv ==
    ASSUME FetchInv, FetchPage
    PROVE  FetchInv'
<1>1. /\ made \in Nat /\ made >= made_at_start /\ made <= Len(hash_of) /\ offset \in Nat /\ made' = made
      /\ fetched' = fetched \cup unseen(page) /\ UNCHANGED context_trades
      /\ fetched \subseteq 1 .. Len(hash_of) /\ context_trades \subseteq fetched
      /\ DailyFetchTypeOK /\ OneOfEach
  BY FetchConstants DEF FetchInv, DailyFetchTypeOK, FetchPage
<1>2. page \subseteq 1 .. made /\ unseen(page) \subseteq page
  BY DEF page, unseen
<1>3. PICK next : next = offset + PAGE_SIZE
  OBVIOUS
<1>4. next \in Nat /\ complete' \in BOOLEAN /\ offset' \in {offset, next} /\ stage' \in {"meta", stage}
  <2>1. complete' \in BOOLEAN
    BY DEF FetchPage
  <2> QED
    BY <1>1, <1>3, <2>1, FetchConstants DEF FetchPage
<1>5. DailyFetchTypeOK'
  <2>1. \A i \in 1 .. made : i \in 1 .. Len(hash_of)
    BY <1>1, FetchConstants
  <2>2. fetched' \subseteq 1 .. Len(hash_of)
    BY <1>1, <1>2, <2>1
  <2> QED
    BY <1>1, <1>4, <2>2 DEF DailyFetchTypeOK
<1>6. OneOfEach'
  <2>1. ASSUME NEW i \in unseen(page), NEW j \in fetched, hash_of[i] # Unhashed
        PROVE  hash_of[j] # hash_of[i]
    BY <2>1 DEF unseen
  <2>2. ASSUME NEW i \in unseen(page), NEW j \in unseen(page), i < j, hash_of[i] # Unhashed
        PROVE  hash_of[j] # hash_of[i]
    BY <1>2, <2>2 DEF unseen
  <2>3. \A i, j \in unseen(page) : i # j => i < j \/ j < i
    <3>1. \A i, j \in Nat : i # j => i < j \/ j < i
      OBVIOUS
    <3>2. unseen(page) \subseteq Nat
      <4>1. 1 .. made \subseteq Nat
        BY <1>1
      <4> QED
        BY <1>2, <4>1
    <3> QED
      BY <3>1, <3>2
  <2> QED
    BY <1>1, <2>1, <2>2, <2>3 DEF OneOfEach
<1>7. ASSUME NEW i \in 1 .. made_at_start, i > made - next
      PROVE  IsFetched(i)'
  <2>1. CASE i > made - offset
    <3>1. IsFetched(i)
      BY <2>1 DEF FetchInv
    <3> QED
      BY <1>1, <3>1 DEF IsFetched
  <2>2. CASE i <= made - offset
    <3>1. i \in page
      <4>1. i \in 1 .. made /\ made - offset - PAGE_SIZE < i
        BY <1>1, <1>3, <1>7, FetchConstants
      <4> QED
        BY <2>2, <4>1 DEF page
    <3> QED
      BY <1>1, <3>1, PageIsCovered DEF IsFetched
  <2> QED
    BY <1>1, <2>1, <2>2, FetchConstants
<1>8. ASSUME NEW i \in 1 .. made_at_start, i > made' - offset'
      PROVE  IsFetched(i)'
  <2>1. PICK o, m : o = offset' /\ m = made - o
    OBVIOUS
  <2>2. i \in Nat /\ i > m /\ o \in Nat /\ o <= next
    <3>1. i \in Nat
      BY FetchConstants
    <3>2. i > m
      BY <1>1, <1>8, <2>1
    <3>3. o = offset \/ o = next
      BY <1>4, <2>1
    <3>4. offset <= next /\ next \in Nat /\ offset \in Nat
      BY <1>1, <1>3, FetchConstants
    <3> QED
      BY <3>1, <3>2, <3>3, <3>4
  <2>3. i > made - next
    <3>1. made \in Nat /\ next \in Nat /\ o \in Nat /\ o <= next /\ m = made - o /\ i > m /\ i \in Nat
      BY <1>1, <1>4, <2>1, <2>2
    <3> QED
      BY <3>1
  <2> QED
    BY <1>7, <2>3
<1>9. ASSUME complete', NEW i \in 1 .. made_at_start, time_of[i] > cutoff
      PROVE  IsFetched(i)'
  <2>1. i \in Nat /\ i > 0 /\ i <= made /\ i \in 1 .. Len(hash_of) /\ time_of[i] \in Nat
    BY <1>1, FetchConstants
  <2>2. CASE page = {}
    <3>1. i > made - offset
      <4>1. ASSUME made - offset >= 1
            PROVE  FALSE
        <5>1. PICK k : k = made - offset
          OBVIOUS
        <5>2. k \in 1 .. made /\ made - offset - PAGE_SIZE < k /\ k <= made - offset
          BY <1>1, <4>1, <5>1, FetchConstants
        <5> QED
          BY <2>2, <5>2 DEF page
      <4> QED
        BY <1>1, <2>1, <4>1
    <3>2. i > made - next
      BY <1>1, <1>3, <2>1, <3>1, FetchConstants
    <3> QED
      BY <1>7, <3>2
  <2>3. CASE reaches_cutoff
    <3>1. PICK k \in unseen(page) : time_of[k] <= cutoff
      BY <2>3 DEF reaches_cutoff
    <3>2. k \in 1 .. made /\ made - offset - PAGE_SIZE < k
      BY <1>2, <3>1 DEF page
    <3>3. k \in 1 .. Len(hash_of) /\ time_of[k] \in Nat
      BY <1>1, <3>2, FetchConstants
    <3>4. k < i
      <4>1. ~(i <= k)
        <5>1. i <= k => time_of[i] <= time_of[k]
          BY <2>1, <3>3, FetchConstants
        <5> QED
          BY <1>9, <2>1, <3>1, <3>3, <5>1, FetchConstants
      <4> QED
        BY <2>1, <3>2, <4>1
    <3>5. i > made - next
      BY <1>1, <1>3, <2>1, <3>2, <3>4, FetchConstants
    <3> QED
      BY <1>7, <3>5
  <2> QED
    BY <1>9, <2>2, <2>3 DEF FetchPage
<1> QED
  BY <1>1, <1>5, <1>6, <1>8, <1>9 DEF FetchInv

(* What the daily fetch has is what its offset says, however many trades *)
(* are made while it reads.                                              *)
THEOREM OffsetSaysWhatIsFetched == DailyFetchSpec => []FetchInv
<1>1. DailyFetchInit => FetchInv
  <2> SUFFICES ASSUME DailyFetchInit PROVE FetchInv
    OBVIOUS
  <2>1. DailyFetchTypeOK
    <3>1. made \in 0 .. Len(hash_of) /\ offset \in Nat
      BY FetchConstants DEF DailyFetchInit
    <3> QED
      BY <3>1 DEF DailyFetchInit, DailyFetchTypeOK
  <2>2. \A i \in 1 .. made_at_start : ~(i > made - offset)
    BY FetchConstants DEF DailyFetchInit
  <2>3. OneOfEach /\ ~complete /\ made >= made_at_start
    BY FetchConstants DEF DailyFetchInit, OneOfEach
  <2> QED
    BY <2>1, <2>2, <2>3 DEF FetchInv
<1>2. FetchInv /\ [DailyFetchNext]_fetch_vars => FetchInv'
  <2> SUFFICES ASSUME FetchInv, [DailyFetchNext]_fetch_vars
               PROVE  FetchInv'
    OBVIOUS
  <2>1. /\ made \in Nat /\ made >= made_at_start /\ made <= Len(hash_of) /\ offset \in Nat
        /\ DailyFetchTypeOK /\ OneOfEach
    BY FetchConstants DEF FetchInv, DailyFetchTypeOK
  <2>2. CASE UNCHANGED fetch_vars
    BY <2>2 DEF fetch_vars, FetchInv, DailyFetchTypeOK, OneOfEach, IsFetched
  <2>3. CASE NewTrade
    <3>1. made' = made + 1 /\ made < Len(hash_of) /\ UNCHANGED <<offset, fetched, complete, stage, context_trades>>
      BY <2>3 DEF NewTrade
    <3>2. DailyFetchTypeOK' /\ made' >= made_at_start
      BY <2>1, <3>1, FetchConstants DEF DailyFetchTypeOK
    <3>3. \A i \in 1 .. made_at_start : i > made' - offset' => i > made - offset
      BY <2>1, <3>1, FetchConstants
    <3> QED
      BY <3>1, <3>2, <3>3 DEF FetchInv, OneOfEach, IsFetched
  <2>4. CASE FetchPage
    BY <2>4, FetchPageKeepsInv
  <2>5. CASE FetchEnds
    <3>1. stage' \in {"meta", "raised"} /\ UNCHANGED <<made, offset, fetched, complete, context_trades>>
      BY <2>5 DEF FetchEnds
    <3> QED
      BY <3>1 DEF FetchInv, DailyFetchTypeOK, OneOfEach, IsFetched
  <2>6. CASE BuildContext
    <3>1. /\ stage' \in {"composed", "raised"} /\ UNCHANGED <<made, offset, fetched, complete>>
          /\ context_trades' \subseteq fetched
      BY <2>1, <2>6 DEF BuildContext, window_trades, DailyFetchTypeOK
    <3> QED
      BY <3>1 DEF FetchInv, DailyFetchTypeOK, OneOfEach, IsFetched
  <2> QED
    BY <2>2, <2>3, <2>4, <2>5, <2>6 DEF DailyFetchNext
<1> QED
  BY <1>1, <1>2, PTL DEF DailyFetchSpec

(* A fetch that got to the end has every transaction of the window that  *)
(* was there when it began, and none twice, for any page size, any times *)
(* and any number of trades made meanwhile.                              *)
THEOREM WindowIsWhole == DailyFetchSpec => []WindowIsFetched
<1>1. FetchInv => WindowIsFetched
  BY DEF FetchInv, OneOfEach, IsFetched, WindowIsFetched
<1> QED
  BY <1>1, OffsetSaysWhatIsFetched, PTL
=============================================================================
