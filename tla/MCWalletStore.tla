--------------------------- MODULE MCWalletStore ---------------------------
(* Instances of WalletStore.                                             *)
EXTENDS WalletStore, TLC

CONSTANTS w1, w2, t1, t2, t3

\* Two fresh wallets funded from one source.
SharedSource == w1 :> <<t1, t3>> @@ w2 :> <<t2, t3>>

\* Two wallets that funded each other: three hops come round to the first.
FundedEachOther == w1 :> <<t1, t2, t1>> @@ w2 :> <<t2, t1, t2>>
=============================================================================
