---------------------------- MODULE AlertHistory ----------------------------
(***************************************************************************)
(* AlertHistory over Redis, and compute-daily-rollup.py, which reads what*)
(* it recorded and fills alert_daily_rollup.                             *)
(*                                                                       *)
(* Whoever sends alerts asks should_send, sends, and calls record_sent;  *)
(* nothing holds the key between the two calls. Feedback reads a record, *)
(* then its TTL, then writes it back. A rollup collects, then commits.   *)
(*                                                                       *)
(* A tick is an hour. Redis drops a key at its time. Alert n is the nth  *)
(* recorded; its score, channels and id are left out.                    *)
(***************************************************************************)
EXTENDS Naturals, FiniteSets

CONSTANTS
    HistoryWallets, HistoryMarkets,
    SignalLists,            \* what signals_triggered may be
    Senders, Users, Rollups,
    dedup_window, retention,  \* in ticks
    HoursPerDay,
    MaxAlerts, MaxHour      \* bounds: alerts recorded, ticks

ASSUME AlertHistoryAssumption ==
    /\ {dedup_window, retention, HoursPerDay} \subseteq Nat \ {0}
    /\ {MaxAlerts, MaxHour} \subseteq Nat

VARIABLES
    hour,
    sent_key,        \* when each alert:dedup key expires, 0 for no key
    alert,           \* what was recorded, first to last
    expires,         \* when the record of each alert expires
    index_time,      \* alerts in the time index
    index_wallet,    \* [ids, expires] of each wallet's index
    index_market,
    sender,          \* where each sender is
    user,            \* where each record_feedback is
    rollup,          \* where each run of the rollup is
    rows             \* alert_daily_rollup: alert_count, 0 for no row

index_vars == <<index_time, index_wallet, index_market>>
record_vars == <<sent_key, alert, expires, index_vars>>
history_vars == <<hour, record_vars, sender, user, rollup, rows>>

Alerts == 1 .. MaxAlerts
Hours == 0 .. MaxHour
Days == 0 .. MaxHour \div HoursPerDay
Signals == UNION SignalLists \cup {"unclassified"}
Never == 0
Empty == [ids |-> {}, expires |-> Never]
Idle == [at |-> "idle"]

Indexes == [ids : SUBSET Alerts, expires : 0 .. MaxHour + retention]
Groups == [Days \X HistoryMarkets \X Signals -> 0 .. MaxAlerts]

HistoryTypeOK ==
    /\ hour \in Hours
    /\ sent_key \in [HistoryWallets \X HistoryMarkets \X Hours -> 0 .. MaxHour + dedup_window]
    /\ DOMAIN alert \in {1 .. n : n \in 0 .. MaxAlerts}
    /\ \A n \in DOMAIN alert : alert[n] \in [wallet : HistoryWallets, market : HistoryMarkets,
                                             signals : SignalLists, at : Hours]
    /\ expires \in [Alerts -> 0 .. MaxHour + retention]
    /\ index_time \subseteq DOMAIN alert
    /\ index_wallet \in [HistoryWallets -> Indexes]
    /\ index_market \in [HistoryMarkets -> Indexes]
    /\ rows \in Groups

HistoryInit ==
    /\ hour = 0
    /\ sent_key = [k \in HistoryWallets \X HistoryMarkets \X Hours |-> Never]
    /\ alert = [n \in {} |-> 0]
    /\ expires = [n \in Alerts |-> Never]
    /\ index_time = {}
    /\ index_wallet = [w \in HistoryWallets |-> Empty]
    /\ index_market = [m \in HistoryMarkets |-> Empty]
    /\ sender = [s \in Senders |-> Idle]
    /\ user = [u \in Users |-> Idle]
    /\ rollup = [r \in Rollups |-> Idle]
    /\ rows = [g \in Days \X HistoryMarkets \X Signals |-> 0]

-----------------------------------------------------------------------------
Live(n) == n \in DOMAIN alert /\ hour < expires[n]
Current(index) == IF hour < index.expires THEN index ELSE Empty

\* The clock; keys that are over are as good as gone.
HourPasses ==
    /\ hour < MaxHour
    /\ hour' = hour + 1
    /\ UNCHANGED <<record_vars, sender, user, rollup, rows>>

\* should_send: nothing is written, a duplicate is not sent.
should_send(s, w, m) ==
    /\ sender[s] = Idle
    /\ hour >= sent_key[<<w, m, hour>>]
    /\ sender' = [sender EXCEPT ![s] = [at |-> "sending", wallet |-> w, market |-> m]]
    /\ UNCHANGED <<hour, record_vars, user, rollup, rows>>

\* The channels are down, or the process dies before it records.
SenderGivesUp(s) ==
    /\ sender[s] # Idle
    /\ sender' = [sender EXCEPT ![s] = Idle]
    /\ UNCHANGED <<hour, record_vars, user, rollup, rows>>

\* Mutant: an index keeps the expiry it was made with.
mutant_zadd(index, n) ==
    LET old == Current(index)
    IN [ids |-> old.ids \cup {n},
        expires |-> IF old = Empty THEN hour + retention ELSE old.expires]

\* ZADD and EXPIRE of a wallet's or a market's index.
zadd(index, n) == [ids |-> Current(index).ids \cup {n}, expires |-> hour + retention]

\* record_sent, one MULTI/EXEC: the dedup key is that of the hour it is now.
record_sent(s, signals) ==
    /\ sender[s] # Idle /\ Cardinality(DOMAIN alert) < MaxAlerts
    /\ LET n == Cardinality(DOMAIN alert) + 1
           w == sender[s].wallet
           m == sender[s].market
       IN /\ sent_key' = [sent_key EXCEPT ![<<w, m, hour>>] = hour + dedup_window]
          /\ alert' = [k \in 1 .. n |-> IF k < n THEN alert[k]
                                        ELSE [wallet |-> w, market |-> m, signals |-> signals, at |-> hour]]
          /\ expires' = [expires EXCEPT ![n] = hour + retention]
          /\ index_time' = index_time \cup {n}
          /\ index_wallet' = [index_wallet EXCEPT ![w] = zadd(@, n)]
          /\ index_market' = [index_market EXCEPT ![m] = zadd(@, n)]
    /\ sender' = [sender EXCEPT ![s] = Idle]
    /\ UNCHANGED <<hour, user, rollup, rows>>

-----------------------------------------------------------------------------
\* GET of the record, and its remaining TTL: an expired one has none, and
\* is given the whole retention.
FeedbackReads(u, n) ==
    /\ user[u] = Idle /\ Live(n)
    /\ user' = [user EXCEPT ![u] = [at |-> "read", id |-> n]]
    /\ UNCHANGED <<hour, record_vars, sender, rollup, rows>>

FeedbackAsksTTL(u) ==
    /\ user[u].at = "read"
    /\ user' = [user EXCEPT ![u] = [at |-> "write", id |-> user[u].id,
                                    ttl |-> IF Live(user[u].id) THEN expires[user[u].id] - hour
                                            ELSE retention]]
    /\ UNCHANGED <<hour, record_vars, sender, rollup, rows>>

FeedbackWrites(u) ==
    /\ user[u].at = "write"
    /\ expires' = [expires EXCEPT ![user[u].id] = hour + user[u].ttl]
    /\ user' = [user EXCEPT ![u] = Idle]
    /\ UNCHANGED <<hour, sent_key, alert, index_vars, sender, rollup, rows>>

\* The other indexes are left to their expiry.
cleanup_old_alerts ==
    /\ index_time' = {n \in index_time : alert[n].at + retention > hour}
    /\ index_time' # index_time
    /\ UNCHANGED <<hour, sent_key, alert, expires, index_wallet, index_market,
                   sender, user, rollup, rows>>

\* get_alerts with no limit to speak of.
get_alerts(ids, start, end) == {n \in ids : alert[n].at \in start .. end /\ Live(n)}

-----------------------------------------------------------------------------
SignalsOf(n) == IF alert[n].signals = {} THEN {"unclassified"} ELSE alert[n].signals

\* Mutant: the end of the day is inclusive.
mutant_collect_alerts(day) == get_alerts(index_time, day * HoursPerDay, (day + 1) * HoursPerDay)

\* _collect_alerts during [day_start, day_end).
collect_alerts(day) == get_alerts(index_time, day * HoursPerDay, (day + 1) * HoursPerDay - 1)

\* _aggregate: alert_count of each group.
aggregate(ids, day) ==
    [g \in Days \X HistoryMarkets \X Signals |->
        IF g[1] # day THEN 0
        ELSE Cardinality({n \in ids : alert[n].market = g[2] /\ g[3] \in SignalsOf(n)})]

\* Yesterday, or the --day that somebody asked for.
RollupCollects(r, day) ==
    /\ rollup[r] = Idle /\ day * HoursPerDay <= hour
    /\ rollup' = [rollup EXCEPT ![r] = [at |-> "commit",
                                        groups |-> aggregate(collect_alerts(day), day)]]
    /\ UNCHANGED <<hour, record_vars, sender, user, rows>>

\* The rows it has groups for are replaced, the others left alone.
upsert(old, groups) == [g \in DOMAIN old |-> IF groups[g] > 0 THEN groups[g] ELSE old[g]]

\* All of it commits, or, with the database or another run in the way, none.
RollupEnds(r) ==
    /\ rollup[r] # Idle
    /\ rows' \in {rows, upsert(rows, rollup[r].groups)}
    /\ rollup' = [rollup EXCEPT ![r] = Idle]
    /\ UNCHANGED <<hour, record_vars, sender, user>>

HistoryNext ==
    \/ HourPasses
    \/ \E s \in Senders :
        \/ \E w \in HistoryWallets, m \in HistoryMarkets : should_send(s, w, m)
        \/ SenderGivesUp(s)
        \/ \E signals \in SignalLists : record_sent(s, signals)
    \/ \E u \in Users : \/ \E n \in DOMAIN alert : FeedbackReads(u, n)
                        \/ FeedbackAsksTTL(u) \/ FeedbackWrites(u)
    \/ cleanup_old_alerts
    \/ \E r \in Rollups : \/ \E day \in Days : RollupCollects(r, day)
                          \/ RollupEnds(r)

HistorySpec == HistoryInit /\ [][HistoryNext]_history_vars

-----------------------------------------------------------------------------
(* Until its retention is over, an alert is found by its time, its wallet*)
(* and its market, with cleanups, feedback and the expiry of whole indexes *)
(* falling anywhere.                                                     *)
LiveAlertsAreFound ==
    \A n \in DOMAIN alert :
        hour < alert[n].at + retention =>
            n \in get_alerts(index_time, alert[n].at, hour)
                  \cap get_alerts(Current(index_wallet[alert[n].wallet]).ids, alert[n].at, hour)
                  \cap get_alerts(Current(index_market[alert[n].market]).ids, alert[n].at, hour)

(* However often, late or at once a day is rolled up, no row says more   *)
(* alerts than were recorded that day for its market and signal.         *)
RollupsDoNotOvercount ==
    \A g \in DOMAIN rows :
        rows[g] <= Cardinality({n \in DOMAIN alert :
                                  /\ alert[n].at \div HoursPerDay = g[1]
                                  /\ alert[n].market = g[2] /\ g[3] \in SignalsOf(n)})
=============================================================================
