------------------------------ MODULE MCStorage ------------------------------
(***************************************************************************)
(* The three users of the database that share no table: wallets and their*)
(* funding, subscribers and bounces, the delivery ledger. None reads what*)
(* another writes, so every behaviour of the three together is one of each *)
(* of them by itself; a behaviour here is one of the one Init picks.     *)
(***************************************************************************)
EXTENDS MCWalletStore, Subscribers, Delivery

VARIABLE part

storage_vars == <<part, vars, subscribers_vars, delivery_vars>>

StorageInit ==
    /\ part \in {"wallets", "subscribers", "delivery"}
    /\ Init /\ SubscribersInit /\ DeliveryInit
    /\ part # "wallets" => /\ \A k \in Workers : wallet[k] = w1
                           /\ dto = [k \in Workers |-> CHOOSE p \in Profiles : TRUE]

StorageNext ==
    /\ \/ part = "wallets" /\ Next /\ UNCHANGED <<subscribers_vars, delivery_vars>>
       \/ part = "subscribers" /\ SubscribersNext /\ UNCHANGED <<vars, delivery_vars>>
       \/ part = "delivery" /\ DeliveryNext /\ UNCHANGED <<vars, subscribers_vars>>
    /\ UNCHANGED part

StorageSpec == /\ StorageInit /\ [][StorageNext]_storage_vars
               /\ \A k \in Workers : SF_vars(part = "wallets" /\ Step(k))
=============================================================================
