---------------------------- MODULE FundingGraph ----------------------------
(***************************************************************************)
(* FundingTracer.trace, which follows a wallet's money back; the transfers *)
(* the database keeps; compute-funding-clusters.py, which groups wallets *)
(* that one origin funded within a window; and RelationshipRepository,   *)
(* which keeps a row for every pair of a group.                          *)
(*                                                                       *)
(* The chain is external: the first transfer of a token to an address is a *)
(* constant, which a query that fails does not find. A transfer may be   *)
(* stored long after it was made. Confidences are hundredths.            *)
(***************************************************************************)
EXTENDS Integers, Sequences, SequencesExt, FiniteSetsExt

CONSTANTS
    Addresses, kind_of,          \* EntityRegistry: what is known of each
    Tokens,                      \* the USDC contracts, in the order asked
    funder_of, Nobody,           \* who first sent a token to an address
    max_hops,
    funding_window, min_shared_wallets, lookback, \* in units of time
    Funders,                     \* who sends the transfers that are stored
    MaxTime, MaxStored           \* bounds: time, transfers in the database

ASSUME FundingAssumption ==
    /\ IsFiniteSet(Addresses) /\ Nobody \notin Addresses /\ Funders \subseteq Addresses /\ Tokens \in Seq(ToSet(Tokens))
    /\ kind_of \in [Addresses -> {"cex", "bridge", "dex", "unknown"}]
    /\ funder_of \in [ToSet(Tokens) -> [Addresses -> Addresses \cup {Nobody}]]
    /\ max_hops \in Nat /\ MaxTime \in Nat /\ lookback \in Nat
    /\ funding_window \in Nat \ {0} /\ min_shared_wallets \in Nat \ {0, 1}

VARIABLES
    target, hops, origin_type,   \* a trace: from where, through whom, to what
    today, stored,               \* the clock and table funding_transfers
    edge                         \* confidence, in wallet_relationships: 0 is no row

trace_vars == <<target, hops, origin_type>>
graph_vars == <<today, stored, edge>>
funding_vars == <<trace_vars, graph_vars>>

Pairs == {pair \in SUBSET Addresses : Cardinality(pair) = 2}
Transfer == [from : Funders, to : Addresses, at : 0 .. MaxTime]

FundingTypeOK ==
    /\ target \in Addresses \cup {Nobody} /\ hops \in Seq(Addresses)
    /\ origin_type \in {"tracing", "cex", "bridge", "unknown"}
    /\ today \in 0 .. MaxTime /\ stored \subseteq Transfer
    /\ edge \in [Pairs -> 0 .. 95]

FundingInit ==
    /\ target = Nobody /\ hops = <<>> /\ origin_type = "unknown"
    /\ today = 0 /\ stored = {}
    /\ edge = [pair \in Pairs |-> 0]

-----------------------------------------------------------------------------
(* EntityRegistry and FundingTracer.                                     *)

is_terminal(a) == kind_of[a] \in {"cex", "bridge"}

current_address == IF hops = <<>> THEN target ELSE Last(hops)

TraceBegins(a) ==
    /\ target = Nobody
    /\ target' = a /\ hops' = <<>>
    /\ origin_type' = IF max_hops = 0 THEN "unknown" ELSE IF is_terminal(a) THEN kind_of[a] ELSE "tracing"
    /\ UNCHANGED graph_vars

\* get_first_usdc_transfer asks for one token after the other and takes the
\* first answer, be the other transfer older. A query may fail, and then the
\* answer is that of the token after it, or nobody.
answers_for(a) ==
    {Nobody} \cup {funder_of[Tokens[i]][a] : i \in DOMAIN Tokens}

Hop ==
    /\ origin_type = "tracing"
    /\ \E from \in answers_for(current_address) :
        IF from = Nobody
        THEN origin_type' = "unknown" /\ UNCHANGED hops
        ELSE /\ hops' = Append(hops, from)
             /\ origin_type' = IF is_terminal(from) THEN kind_of[from]
                               ELSE IF Len(hops') = max_hops THEN "unknown" ELSE "tracing"
    /\ UNCHANGED <<target, graph_vars>>

TraceEnds ==
    /\ target # Nobody /\ origin_type # "tracing"
    /\ target' = Nobody
    /\ UNCHANGED <<hops, origin_type, graph_vars>>

\* get_suspiciousness_score, in hundredths.
get_suspiciousness_score ==
    IF origin_type = "cex" THEN 10
    ELSE IF origin_type = "bridge" THEN 30
    ELSE IF hops = <<>> THEN 100
    ELSE IF Len(hops) >= max_hops THEN 70
    ELSE 50 + (30 * (max_hops - Len(hops))) \div max_hops

-----------------------------------------------------------------------------
(* The graph.                                                            *)

DayPasses ==
    /\ today < MaxTime
    /\ today' = today + 1
    /\ UNCHANGED <<trace_vars, stored, edge>>

StoreTransfer ==
    /\ Cardinality(stored) < MaxStored
    /\ \E t \in Transfer \ stored : t.from # t.to /\ t.at <= today /\ stored' = stored \cup {t}
    /\ UNCHANGED <<trace_vars, today, edge>>

\* What an origin sent to each of the wallets first, whenever that was.
earliest(origin, wallets) ==
    {t \in stored : /\ t.from = origin /\ t.to \in wallets
                    /\ \A u \in stored : u.from = origin /\ u.to = t.to => t.at <= u.at}

\* Mutant: a transfer at the very end of the window is out of it.
mutant_within(t, u) == t.at - u.at < funding_window

within(t, u) == t.at - u.at <= funding_window

\* The two pointers of collect_shared_origins: the first of the longest.
sub_cluster(group) ==
    LET list == CHOOSE s \in SetToSeqs(group) : \A i, j \in DOMAIN s : i < j => s[i].at <= s[j].at
        scan[r \in 0 .. Len(list)] ==
            IF r = 0 THEN [left |-> 1, best |-> {}]
            ELSE LET left == Min({l \in scan[r - 1].left .. r : within(list[r], list[l])})
                     candidate == {list[i] : i \in left .. r}
                 IN [left |-> left, best |-> IF Cardinality(candidate) > Cardinality(scan[r - 1].best)
                                             THEN candidate ELSE scan[r - 1].best]
    IN scan[Len(list)].best

collect_shared_origins(wallets) ==
    {best \in {sub_cluster(earliest(origin, wallets)) : origin \in Funders} :
        Cardinality(best) >= min_shared_wallets}

members(best) == {t.to : t \in best}

cluster_confidence(best) ==
    LET span == Max({t.at : t \in best}) - Min({t.at : t \in best})
        extra == Min({Cardinality(best) - 2, 2})
    IN Min({50 + 15 * extra + (5 * (funding_window - span)) \div funding_window, 95})

funded_lately == {t.to : t \in {t \in stored : t.at + funding_window >= today}}

\* One run of the script: a row for each pair of a cluster, which has the
\* confidence of the last cluster the pair was in; no row is ever deleted.
RunClusters ==
    /\ LET clusters == collect_shared_origins(funded_lately)
           of(pair) == {cluster_confidence(best) : best \in {c \in clusters : pair \subseteq members(c)}}
       IN edge' \in {f \in [Pairs -> {edge[pair] : pair \in Pairs} \cup UNION {of(pair) : pair \in Pairs}] :
                              \A pair \in Pairs : IF of(pair) = {} THEN f[pair] = edge[pair]
                                                                   ELSE f[pair] \in of(pair)}
    /\ UNCHANGED <<trace_vars, today, stored>>

\* The wallets an origin funded lately that are in a row, with whomever.
clusters_for_origin(origin) ==
    LET funded == {t.to : t \in {t \in stored : t.from = origin /\ t.at + lookback >= today}}
    IN IF Cardinality(funded) < 2 THEN funded
       ELSE {w \in funded : \E pair \in Pairs : w \in pair /\ edge[pair] > 0}

get_related_wallets(w) == {v \in Addresses \ {w} : edge[{v, w}] > 0}

TraceNext == Hop \/ TraceEnds \/ \E a \in Addresses : TraceBegins(a)

GraphNext == DayPasses \/ StoreTransfer \/ RunClusters

FundingSpec == FundingInit /\ [][TraceNext \/ GraphNext]_funding_vars

-----------------------------------------------------------------------------
(* A chain follows the money: who is in it sent a token to the one before,*)
(* no exchange or bridge is passed through, and what ends at an exchange *)
(* is less suspicious than what ends at a bridge, and that than the rest.*)
ChainsStopAtEntities ==
    LET way == <<target>> \o hops
        entity == {i \in DOMAIN way : is_terminal(way[i])}
    IN target # Nobody =>
        /\ Len(hops) <= max_hops /\ entity \subseteq {Len(way)}
        /\ \A i \in DOMAIN hops : hops[i] \in {funder_of[k][way[i]] : k \in ToSet(Tokens)}
        /\ (entity # {} <=> get_suspiciousness_score < 50) \/ origin_type = "tracing" \/ max_hops = 0

(* One pass over the sorted transfers finds, for every origin, as many   *)
(* wallets as any window holds, and only wallets within one window.      *)
LargestFundingCluster ==
    \A origin \in Funders :
        LET group == earliest(origin, Addresses)
            best == sub_cluster(group)
        IN /\ \A t, u \in best : t.at - u.at <= funding_window
           /\ \A t \in group :
                Cardinality({u \in group : t.at <= u.at /\ u.at - t.at <= funding_window}) <= Cardinality(best)

(* Wallets are related only if one origin sent to both within a window,  *)
(* though transfers are stored out of order and rows are never deleted;  *)
(* and every wallet listed for an origin, if there are several, has such a *)
(* relation, be it with a wallet of another origin.                      *)
RelationsAreBacked ==
    /\ \A v, w \in Addresses :
          v # w /\ v \in get_related_wallets(w) =>
              \E t, u \in stored : /\ t.from = u.from /\ t.to = v /\ u.to = w
                                   /\ t.at - u.at \in -funding_window .. funding_window
    /\ \A origin \in Funders :
          Cardinality(clusters_for_origin(origin)) > 1 =>
              \A w \in clusters_for_origin(origin) : get_related_wallets(w) # {}

(* What the funding code says of wallets stands on transfers that were   *)
(* made, whatever order they are found and stored in.                    *)
FundingIsBacked == ChainsStopAtEntities /\ LargestFundingCluster /\ RelationsAreBacked
=============================================================================
