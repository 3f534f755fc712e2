------------------------------ MODULE AlertFlow ------------------------------
(***************************************************************************)
(* Pipeline._on_trade and RiskScorer.assess: what happens to one trade,  *)
(* from the stream to the dispatcher, in pipelines that share one Redis. *)
(*                                                                       *)
(* A worker is one pipeline process.  It handles one trade at a time (the*)
(* stream awaits on_trade).  Every await is a place where other workers  *)
(* run, where the process may die and where stop() may cancel the task:  *)
(* the detectors, the persistence of the profile, the SET NX EX of the   *)
(* dedup key (the server's step and the reply are two), the dispatch.    *)
(*                                                                       *)
(* Abstracted: the contents of trades and alerts; the dispatcher, by the *)
(* set of outcomes AlertDispatcher gives it; persistence, which cannot   *)
(* fail the trade.  A dedup key expires at any time after it was set.    *)
(***************************************************************************)
EXTENDS Detection

CONSTANTS Workers, Wallets, Markets,
          Nonces, Ages, Notionals, Categories,  \* what trades and wallets are like
          alert_threshold,                      \* in units of a score
          DryRun,                               \* the workers started with dry_run
          MaxTrades                             \* bound: trades received by all workers

ASSUME AlertFlowAssumption ==
    /\ IsFiniteSet(Workers)
    /\ Nonces \subseteq Nat /\ Ages \subseteq Nat \cup {Unknown}
    /\ Notionals \subseteq Nat
    /\ alert_threshold \in Nat
    /\ DryRun \subseteq Workers
    /\ MaxTrades \in Nat

VARIABLES
    pc, trade, bundle,       \* where each worker is, with what
    stats,                   \* PipelineStats of each worker
    received,                \* bound: trades received so far
    dedup,                   \* the dedup keys present in Redis
    window,                  \* history: times each key was created
    claim,                   \* history: the window each worker's SET created
    begun,                   \* history: <<key, window>> a dispatch was begun for
    lost                     \* history: <<key, window>> whose claim came to nothing

work == <<pc, trade, bundle, stats, received>>
history == <<window, claim, begun, lost>>
vars == <<work, dedup, history>>

Keys == Wallets \X Markets

Niches == {is_niche_market(c, Unknown) : c \in Categories}
FreshOutcomes(notional) ==
    {NoSignal} \cup {fresh_wallet(n, a, notional) : n \in Nonces, a \in Ages}
\* The pipeline passes neither the daily volume nor the book depth, so both
\* impacts are 0; metadata that cannot be had becomes category "other".
SizeOutcomes ==
    {[size |-> size_anomaly(0, 0, niche), niche |-> niche] : niche \in Niches \cup {TRUE}}
    \cup {[size |-> NoSignal, niche |-> FALSE]}      \* the detector raised

NoBundle == [fresh |-> NoSignal, size |-> NoSignal, niche |-> FALSE]
ZeroStats == [trades_processed |-> 0, signals_generated |-> 0, alerts_sent |-> 0, errors |-> 0]

Phases == {"idle", "detecting", "persisting", "scoring",
           "claimed", "refused", "dispatching"}

TypeOK ==
    /\ pc \in [Workers -> Phases]
    /\ trade \in [Workers -> [key : Keys, notional : Notionals]]
    /\ bundle \in [Workers -> [fresh : {NoSignal} \cup (30 .. 54),
                               size : {NoSignal, 12}, niche : BOOLEAN]]
    /\ stats \in [Workers -> [trades_processed : Nat, signals_generated : Nat,
                               alerts_sent : Nat, errors : Nat]]
    /\ received \in 0 .. MaxTrades
    /\ dedup \subseteq Keys
    /\ window \in [Keys -> Nat]
    /\ claim \in [Workers -> Nat]
    /\ begun \subseteq Keys \X Nat
    /\ lost \subseteq Keys \X Nat

Init ==
    /\ pc = [k \in Workers |-> "idle"]
    /\ \E t \in [key : Keys, notional : Notionals] : trade = [k \in Workers |-> t]
    /\ bundle = [k \in Workers |-> NoBundle]
    /\ stats = [k \in Workers |-> ZeroStats]
    /\ received = 0
    /\ dedup = {}
    /\ window = [key \in Keys |-> 0]
    /\ claim = [k \in Workers |-> 0]
    /\ begun = {}
    /\ lost = {}

-----------------------------------------------------------------------------
(* One trade.                                                            *)

Goto(k, phase) == pc' = [pc EXCEPT ![k] = phase]
\* _on_trade returns; its signals are gone.
Done(k) == Goto(k, "idle") /\ bundle' = [bundle EXCEPT ![k] = NoBundle]
Count(k, counter) == stats' = [stats EXCEPT ![k][counter] = @ + 1]

Receive(k) ==
    /\ pc[k] = "idle"
    /\ received < MaxTrades
    /\ received' = received + 1
    /\ \E t \in [key : Keys, notional : Notionals] : trade' = [trade EXCEPT ![k] = t]
    /\ Count(k, "trades_processed")
    /\ Goto(k, "detecting")
    /\ UNCHANGED <<bundle, dedup, history>>

\* gather() of both detectors: each returns its signal, or None when it
\* raised.  A fresh wallet is persisted before anything is scored.
Detected(k) ==
    /\ pc[k] = "detecting"
    /\ \E f \in FreshOutcomes(trade[k].notional), s \in SizeOutcomes :
        /\ bundle' = [bundle EXCEPT ![k] = [fresh |-> f, size |-> s.size, niche |-> s.niche]]
        /\ \/ /\ f # NoSignal
              /\ Goto(k, "persisting")
              /\ UNCHANGED stats
           \/ /\ f = NoSignal /\ s.size # NoSignal
              /\ Goto(k, "scoring")
              /\ Count(k, "signals_generated")
           \/ /\ f = NoSignal /\ s.size = NoSignal
              /\ Goto(k, "idle")
              /\ UNCHANGED stats
    /\ UNCHANGED <<trade, received, dedup, history>>

\* _persist_wallet_and_funding returned: it swallows its exceptions.
Persisted(k) ==
    /\ pc[k] = "persisting"
    /\ Goto(k, "scoring")
    /\ Count(k, "signals_generated")
    /\ UNCHANGED <<trade, bundle, received, dedup, history>>

meets_threshold(k) == weighted_score(bundle[k]) >= alert_threshold

BelowThreshold(k) ==
    /\ pc[k] = "scoring"
    /\ ~meets_threshold(k)
    /\ Done(k)
    /\ UNCHANGED <<trade, stats, received, dedup, history>>

\* The SET created the key: a window opens and k holds its claim.
Claim(k) ==
    LET key == trade[k].key
    IN  /\ dedup' = dedup \cup {key}
        /\ window' = [window EXCEPT ![key] = IF key \in dedup THEN @ ELSE @ + 1]
        /\ claim' = [claim EXCEPT ![k] = window'[key]]

\* Mutants: the key is set whatever was there (no nx), or whatever the score.
mutant_no_nx(k) ==
    /\ pc[k] = "scoring"
    /\ meets_threshold(k)
    /\ Goto(k, "claimed")
    /\ Claim(k)
    /\ UNCHANGED <<trade, bundle, stats, received, begun, lost>>

mutant_claims_first(k) ==
    /\ pc[k] = "scoring"
    /\ \/ /\ trade[k].key \notin dedup
          /\ Goto(k, IF meets_threshold(k) THEN "claimed" ELSE "refused")
          /\ Claim(k)
       \/ /\ trade[k].key \in dedup
          /\ Goto(k, "refused")
          /\ UNCHANGED <<dedup, window, claim>>
    /\ UNCHANGED <<trade, bundle, stats, received, begun, lost>>

\* _check_and_set_dedup: SET key NX EX at the server.
CheckAndSetDedup(k) ==
    /\ pc[k] = "scoring"
    /\ meets_threshold(k)
    /\ \/ /\ trade[k].key \notin dedup
          /\ Goto(k, "claimed")
          /\ Claim(k)
       \/ /\ trade[k].key \in dedup
          /\ Goto(k, "refused")
          /\ UNCHANGED <<dedup, window, claim>>
    /\ UNCHANGED <<trade, bundle, stats, received, begun, lost>>

\* k drops its trade; a claim it held comes to nothing, and the key stays.
Drop(k) ==
    /\ lost' = IF pc[k] = "claimed" THEN lost \cup {<<trade[k].key, claim[k]>>} ELSE lost
    /\ Done(k)
    /\ UNCHANGED <<trade, received, dedup, window, claim, begun>>

\* The call to Redis raised: before the server saw it, or after (the reply
\* was lost).  _on_trade counts the error.
AssessRaised(k) ==
    /\ \/ pc[k] = "scoring" /\ meets_threshold(k)
       \/ pc[k] \in {"claimed", "refused"}
    /\ Count(k, "errors")
    /\ Drop(k)

Duplicate(k) ==
    /\ pc[k] = "refused"
    /\ Done(k)
    /\ UNCHANGED <<trade, stats, received, dedup, history>>

\* The reply: format the alert and, unless dry_run, begin the dispatch.
BeginDispatch(k) ==
    /\ pc[k] = "claimed"
    /\ k \notin DryRun
    /\ Goto(k, "dispatching")
    /\ begun' = begun \cup {<<trade[k].key, claim[k]>>}
    /\ UNCHANGED <<trade, bundle, stats, received, dedup, window, claim, lost>>

DryRunAlert(k) ==
    /\ pc[k] = "claimed"
    /\ k \in DryRun
    /\ Drop(k)
    /\ UNCHANGED stats

\* dispatch() returned; it counts only when every channel took the alert.
Dispatched(k) ==
    /\ pc[k] = "dispatching"
    /\ \/ Count(k, "alerts_sent")       \* all_succeeded
       \/ UNCHANGED stats
    /\ Done(k)
    /\ UNCHANGED <<trade, received, dedup, history>>

-----------------------------------------------------------------------------
(* Environment.                                                          *)

\* stop() cancels the stream task at an await; CancelledError is no Exception.
Cancelled(k) ==
    /\ pc[k] # "idle"
    /\ Drop(k)
    /\ UNCHANGED stats

\* The process dies and is started again.
Crash(k) ==
    /\ pc[k] # "idle"
    /\ Drop(k)
    /\ stats' = [stats EXCEPT ![k] = ZeroStats]

\* The TTL ran out, or somebody called clear_dedup.
KeyGone(key) ==
    /\ key \in dedup
    /\ dedup' = dedup \ {key}
    /\ UNCHANGED <<work, history>>

Next ==
    \/ \E k \in Workers :
        \/ Receive(k) \/ Detected(k) \/ Persisted(k) \/ BelowThreshold(k)
        \/ CheckAndSetDedup(k) \/ AssessRaised(k) \/ Duplicate(k)
        \/ BeginDispatch(k) \/ DryRunAlert(k) \/ Dispatched(k)
        \/ Cancelled(k) \/ Crash(k)
    \/ \E key \in Keys : KeyGone(key)

Spec == Init /\ [][Next]_vars
-----------------------------------------------------------------------------
(* Properties.                                                           *)

InHand(k) == pc[k] \in {"claimed", "dispatching"}
ClaimOf(k) == <<trade[k].key, claim[k]>>

\* However the workers' trades interleave with each other, with crashes and
\* with expiring keys, one window of one wallet in one market gives one alert:
\* two workers never hold the same window, and whoever is about to dispatch
\* holds one for which no dispatch was begun (scorer.py:238-253).
OneAlertPerWindow ==
    \A k \in Workers :
        /\ pc[k] = "claimed" => ClaimOf(k) \notin begun
        /\ \A j \in Workers \ {k} :
             InHand(j) /\ InHand(k) => ClaimOf(j) # ClaimOf(k)

\* A key that suppresses a trade was set for an alert whose dispatch was begun
\* or is about to be, or whose claim was lost to an error, a cancellation, a
\* crash or a dry run: nothing else silences a wallet in a market for an hour.
SilenceHasACause ==
    \A key \in dedup :
        \/ <<key, window[key]>> \in begun \cup lost
        \/ \E k \in Workers : pc[k] = "claimed" /\ ClaimOf(k) = <<key, window[key]>>

\* The counters of PipelineStats are consistent at every await: of the trades
\* received, each scored one is counted once before it is scored, and at most
\* once afterwards, as an alert or as an error (pipeline.py:384-420, 520).
StatsAgree ==
    \A k \in Workers :
        LET s == stats[k]
        IN  /\ s.alerts_sent + s.errors
                 + If(pc[k] \in {"scoring", "refused"} \/ InHand(k), 1) <= s.signals_generated
            /\ s.signals_generated
                 + If(pc[k] \in {"detecting", "persisting"}, 1) <= s.trades_processed

-----------------------------------------------------------------------------
(* What the README says and the code does not do.                        *)

\* "When suspicious activity is detected, you receive an instant alert"
\* (README.md:36): a trade both detectors flag, the fresh wallet with the
\* highest confidence there is, in a niche market, is worth an alert.
MostSuspiciousIsAlerted ==
    \A k \in Workers :
        (pc[k] = "scoring" /\ bundle[k] = [fresh |-> Max(UNION {FreshOutcomes(n) : n \in Notionals}),
                                          size |-> Max({s.size : s \in SizeOutcomes}),
                                          niche |-> TRUE])
            => meets_threshold(k)
=============================================================================
