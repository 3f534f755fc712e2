------------------------------- MODULE Sniper -------------------------------
(***************************************************************************)
(* SniperDetector: early entries are recorded, DBSCAN groups them, a group *)
(* of enough wallets becomes a cluster, new or known, and each wallet is *)
(* signaled the first time it is in one.                                 *)
(*                                                                       *)
(* DBSCAN is external: any grouping of some of the entries into disjoint *)
(* clusters, in any order.  A group matters by the wallets whose entries *)
(* it holds; a wallet is in no more groups than it has entries.          *)
(***************************************************************************)
EXTENDS Integers, FiniteSets, SequencesExt

CONSTANTS
    Snipers, SniperMarkets,
    Deltas,                  \* seconds from a market's creation to an entry
    entry_threshold_seconds,
    min_cluster_size, min_entries_per_wallet,
    ClusterIds, NoCluster,   \* uuids; the bound on clusters
    MaxSniperEntries,        \* bound: entries of one wallet
    MaxGroups                \* bound: clusters DBSCAN finds at once

ASSUME SniperAssumption ==
    /\ {min_cluster_size, min_entries_per_wallet} \subseteq Nat \ {0}
    /\ Deltas \subseteq Int /\ entry_threshold_seconds \in Nat \ {0}
    /\ NoCluster \notin ClusterIds /\ MaxGroups \in Nat
    /\ IsFiniteSet(Snipers) /\ IsFiniteSet(ClusterIds)

VARIABLES
    wallet_entries,          \* _wallet_entries: [market, delta] of each
    known_clusters,          \* _known_clusters, {} for none under the id
    wallet_cluster_map,
    signaled_wallets,
    signals                  \* history: the signals returned so far

cluster_vars == <<known_clusters, wallet_cluster_map, signaled_wallets, signals>>
sniper_vars == <<wallet_entries, cluster_vars>>

SniperTypeOK ==
    /\ wallet_entries \in [Snipers -> Seq([market : SniperMarkets, delta : Deltas])]
    /\ known_clusters \in [ClusterIds -> SUBSET Snipers]
    /\ wallet_cluster_map \in [Snipers -> ClusterIds \cup {NoCluster}]
    /\ signaled_wallets \subseteq Snipers
    /\ \A s \in ToSet(signals) : s.wallet \in Snipers /\ s.confidence \in 0 .. 100

SniperInit ==
    /\ wallet_entries = [w \in Snipers |-> <<>>]
    /\ known_clusters = [id \in ClusterIds |-> {}]
    /\ wallet_cluster_map = [w \in Snipers |-> NoCluster]
    /\ signaled_wallets = {}
    /\ signals = <<>>

-----------------------------------------------------------------------------
\* Only entries within the threshold after the market's creation.
record_entry(w, m, delta) ==
    /\ delta \in 0 .. entry_threshold_seconds
    /\ Len(wallet_entries[w]) < MaxSniperEntries
    /\ wallet_entries' = [wallet_entries EXCEPT ![w] = Append(@, [market |-> m, delta |-> delta])]
    /\ UNCHANGED cluster_vars

eligible_wallets == {w \in Snipers : Len(wallet_entries[w]) >= min_entries_per_wallet}

\* What DBSCAN may find, groups that are too small left out.
Groupings ==
    {groups \in SeqOf({g \in SUBSET eligible_wallets : Cardinality(g) >= min_cluster_size}, MaxGroups) :
        \A w \in eligible_wallets :
            Cardinality({i \in DOMAIN groups : w \in groups[i]}) <= Len(wallet_entries[w])}

\* _calculate_cluster_stats.
markets_in_common(group) ==
    IF Cardinality(group) < 2 THEN 0
    ELSE Cardinality({m \in SniperMarkets : \A w \in group :
                        \E i \in DOMAIN wallet_entries[w] : wallet_entries[w][i].market = m})
avg_delta(group) ==
    LET all == [w \in group |-> FoldLeft(LAMBDA a, e : a + e.delta, 0, wallet_entries[w])]
        sum == FoldSet(LAMBDA w, a : a + all[w], 0, group)
        n == FoldSet(LAMBDA w, a : a + Len(wallet_entries[w]), 0, group)
    IN IF n = 0 THEN 0 ELSE sum \div n

UpTo(x, top) == IF x > top THEN top ELSE x

\* _calculate_confidence, in hundredths.
confidence(group) ==
    3 * UpTo(Cardinality(group), 10)
      + (40 * (entry_threshold_seconds - avg_delta(group))) \div entry_threshold_seconds
      + 6 * UpTo(markets_in_common(group), 5)

\* _get_or_create_cluster_id: the known cluster most wallets of the group are
\* in, if these are at least half of them, rounded down; else a new one.
get_or_create_cluster_id(group, map, known) ==
    LET in(id) == Cardinality({w \in group : map[w] = id})
        old == {id \in ClusterIds : in(id) > 0}
        best == {id \in old : \A other \in old : in(id) >= in(other)}
        reused == {id \in best : in(id) >= Cardinality(group) \div 2}
    IN IF reused # {} THEN reused
       ELSE {CHOOSE id \in ClusterIds : known[id] = {} /\ \A w \in Snipers : map[w] # id}

\* _process_clustering_results for one cluster under its id.
Process(group, id, s) ==
    LET new == group \ s.signaled
    IN [known |-> [s.known EXCEPT ![id] = group],
        map |-> [w \in Snipers |-> IF w \in group THEN id ELSE s.map[w]],
        signaled |-> s.signaled \cup new,
        out |-> s.out \o SetToSeq({[wallet |-> w, cluster |-> id, size |-> Cardinality(group),
                                    confidence |-> confidence(group)] : w \in new})]

\* The clusters of one run, in DBSCAN's order.
Outcomes(groups) ==
    LET start == [known |-> known_clusters, map |-> wallet_cluster_map,
                  signaled |-> signaled_wallets, out |-> <<>>]
        one(results, group) ==
            UNION {{Process(group, id, s) : id \in get_or_create_cluster_id(group, s.map, s.known)} :
                     s \in results}
        after[i \in 0 .. Len(groups)] ==
            IF i = 0 THEN {start} ELSE one(after[i - 1], groups[i])
    IN after[Len(groups)]

\* The bound: there are ids left for the clusters found.
run_clustering ==
    /\ Cardinality(eligible_wallets) >= min_cluster_size
    /\ \E groups \in Groupings :
        /\ Len(groups) <= Cardinality({id \in ClusterIds : known_clusters[id] = {}})
        /\ \E s \in Outcomes(groups) :
            /\ known_clusters' = s.known
            /\ wallet_cluster_map' = s.map
            /\ signaled_wallets' = s.signaled
            /\ signals' = signals \o s.out
    /\ UNCHANGED wallet_entries

\* Mutant: the signaled wallets go with the entries.
mutant_clear_entries ==
    /\ wallet_entries' = [w \in Snipers |-> <<>>]
    /\ signaled_wallets' = {}
    /\ UNCHANGED <<known_clusters, wallet_cluster_map, signals>>

\* The periodic cleanup: clusters and signals stay.
clear_entries ==
    /\ wallet_entries' = [w \in Snipers |-> <<>>]
    /\ UNCHANGED cluster_vars

SniperNext ==
    \/ \E w \in Snipers, m \in SniperMarkets, delta \in Deltas : record_entry(w, m, delta)
    \/ run_clustering
    \/ clear_entries

SniperSpec == SniperInit /\ [][SniperNext]_sniper_vars

is_sniper(w) == wallet_cluster_map[w] # NoCluster

-----------------------------------------------------------------------------
(* A wallet is signaled once, when it becomes a sniper, and then stays one *)
(* in a cluster there is, whatever clusters it moves to, in whatever order *)
(* clusters are found, and however often the entries are cleared.        *)
SnipersWereSignaled ==
    \A w \in Snipers :
        /\ Cardinality({i \in DOMAIN signals : signals[i].wallet = w}) = IF is_sniper(w) THEN 1 ELSE 0
        /\ is_sniper(w) => Cardinality(known_clusters[wallet_cluster_map[w]]) >= min_cluster_size
=============================================================================
