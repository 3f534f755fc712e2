---------------------------- MODULE AtomicStore ----------------------------
(***************************************************************************)
(* What _persist_wallet_and_funding promises the readers of the database:*)
(* a wallet's profile and the transfers that funded it appear in one step, *)
(* or not at all; the transfers are the first hops of the wallet's own   *)
(* chain, without a gap, and none of them is ever recorded twice.        *)
(***************************************************************************)
EXTENDS Integers, Sequences

CONSTANTS Wallets, Transfers, NoProfile, Profiles, chain_of

VARIABLES profile, transfers

asvars == <<profile, transfers>>

ASInit ==
    /\ profile = [w \in Wallets |-> NoProfile]
    /\ transfers = {}

Persist(w, p, hops) ==
    LET new == {chain_of[w][i] : i \in 1 .. hops} IN
    /\ profile' = [profile EXCEPT ![w] = p]
    /\ new \cap transfers = {}
    /\ transfers' = transfers \cup new

ASNext ==
    \E w \in Wallets, p \in Profiles : \E hops \in 0 .. Len(chain_of[w]) : Persist(w, p, hops)

ASSpec == ASInit /\ [][ASNext]_asvars
=============================================================================
