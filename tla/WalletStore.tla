----------------------------- MODULE WalletStore -----------------------------
(***************************************************************************)
(* Pipeline._persist_wallet_and_funding, with WalletRepository.upsert,   *)
(* FundingRepository.insert_many and DatabaseManager.get_async_session:  *)
(* one transaction per fresh wallet, in pipelines that share a database. *)
(*                                                                       *)
(* The database is modelled from how the code uses it: a transaction's   *)
(* rows are seen by nobody until it commits, a row of another transaction*)
(* in flight makes a writer of the same key wait, the database ends a    *)
(* deadlock by failing a waiter, and a unique key that is taken raises.  *)
(* The SQLAlchemy session rolls its transaction back when a flush raises *)
(* and raises at every later use until somebody calls rollback().        *)
(*                                                                       *)
(* Abstracted: profiles and transfers are values; the transfers trace()  *)
(* follows from a wallet are a constant, of which failing RPC calls may  *)
(* leave any prefix.                                                     *)
(***************************************************************************)
EXTENDS Integers, Sequences

CONSTANTS Workers, Wallets, Profiles, NoProfile, Transfers,
          chain_of       \* the transfers trace() finds from a wallet

ASSUME WalletStoreAssumption ==
    /\ NoProfile \notin Profiles
    /\ chain_of \in [Wallets -> Seq(Transfers)]

VARIABLES
    profile, transfers,      \* the committed rows
    pc, wallet, dto,         \* each worker's call, its wallet and its profile
    todo,                    \* transfers insert_many has yet to insert
    upserted, wrote,         \* rows of the worker's transaction in flight
    deactive                 \* the session lost its transaction in a flush

rows == <<profile, transfers>>
call == <<pc, wallet, dto, todo>>
session == <<upserted, wrote, deactive>>
vars == <<rows, call, session>>

TypeOK ==
    /\ profile \in [Wallets -> Profiles \cup {NoProfile}]
    /\ transfers \subseteq Transfers
    /\ pc \in [Workers -> {"idle", "upsert", "trace", "insert", "commit"}]
    /\ wallet \in [Workers -> Wallets]
    /\ dto \in [Workers -> Profiles]
    /\ todo \in [Workers -> Seq(Transfers)]
    /\ upserted \in [Workers -> BOOLEAN]
    /\ wrote \in [Workers -> SUBSET Transfers]
    /\ deactive \in [Workers -> BOOLEAN]

Init ==
    /\ profile = [w \in Wallets |-> NoProfile]
    /\ transfers = {}
    /\ pc = [k \in Workers |-> "idle"]
    /\ \E w \in Wallets : wallet = [k \in Workers |-> w]
    /\ \E p \in Profiles : dto = [k \in Workers |-> p]
    /\ todo = [k \in Workers |-> <<>>]
    /\ upserted = [k \in Workers |-> FALSE]
    /\ wrote = [k \in Workers |-> {}]
    /\ deactive = [k \in Workers |-> FALSE]

-----------------------------------------------------------------------------
Goto(k, label) == pc' = [pc EXCEPT ![k] = label]

\* A fresh wallet was detected: open a session.
Begin(k) ==
    /\ pc[k] = "idle"
    /\ Goto(k, "upsert")
    /\ \E w \in Wallets : wallet' = [wallet EXCEPT ![k] = w]
    /\ \E p \in Profiles : dto' = [dto EXCEPT ![k] = p]
    /\ UNCHANGED <<rows, todo, session>>

RowHolders(k) == {j \in Workers \ {k} : upserted[j] /\ wallet[j] = wallet[k]}
KeyHolders(k, t) == {j \in Workers \ {k} : t \in wrote[j]}

upsert(k) ==
    /\ pc[k] = "upsert"
    /\ RowHolders(k) = {}
    /\ upserted' = [upserted EXCEPT ![k] = TRUE]
    /\ Goto(k, "trace")
    /\ UNCHANGED <<rows, wallet, dto, todo, wrote, deactive>>

trace(k) ==
    /\ pc[k] = "trace"
    /\ \E n \in 0 .. Len(chain_of[wallet[k]]) :
        /\ todo' = [todo EXCEPT ![k] = SubSeq(chain_of[wallet[k]], 1, n)]
        /\ Goto(k, IF n = 0 THEN "commit" ELSE "insert")
    /\ UNCHANGED <<rows, wallet, dto, session>>

\* The transaction is gone with its rows and its locks.
Rollback(k) ==
    /\ upserted' = [upserted EXCEPT ![k] = FALSE]
    /\ wrote' = [wrote EXCEPT ![k] = {}]

Taken(k, t) == t \in transfers \cup wrote[k]

\* One round of insert_many.
Inserted(k, t) ==
    /\ ~deactive[k] /\ KeyHolders(k, t) = {} /\ ~Taken(k, t)
    /\ wrote' = [wrote EXCEPT ![k] = @ \cup {t}]
    /\ UNCHANGED <<upserted, deactive>>

\* The flush raises "duplicate key", which the loop takes for skipped.
Collides(k, t) ==
    /\ ~deactive[k] /\ KeyHolders(k, t) = {} /\ Taken(k, t)
    /\ Rollback(k)
    /\ deactive' = [deactive EXCEPT ![k] = TRUE]

\* PendingRollbackError quotes the duplicate key error: skipped as well.
Ignored(k) == deactive[k] /\ UNCHANGED session

\* Mutants: each transfer is committed by itself; a duplicate is tried again.
mutant_commits_each(k) ==
    /\ pc[k] = "insert"
    /\ Inserted(k, Head(todo[k])) \/ Collides(k, Head(todo[k])) \/ Ignored(k)
    /\ transfers' = transfers \cup wrote'[k]
    /\ todo' = [todo EXCEPT ![k] = Tail(@)]
    /\ Goto(k, IF Len(todo[k]) = 1 THEN "commit" ELSE "insert")
    /\ UNCHANGED <<profile, wallet, dto>>

mutant_retries(k) ==
    /\ pc[k] = "insert"
    /\ Inserted(k, Head(todo[k])) \/ Collides(k, Head(todo[k])) \/ Ignored(k)
    /\ todo' = [todo EXCEPT ![k] = IF deactive'[k] THEN @ ELSE Tail(@)]
    /\ Goto(k, IF Len(todo'[k]) = 0 THEN "commit" ELSE "insert")
    /\ UNCHANGED <<rows, wallet, dto>>

insert_many(k) ==
    /\ pc[k] = "insert"
    /\ Inserted(k, Head(todo[k])) \/ Collides(k, Head(todo[k])) \/ Ignored(k)
    /\ todo' = [todo EXCEPT ![k] = Tail(@)]
    /\ Goto(k, IF Len(todo[k]) = 1 THEN "commit" ELSE "insert")
    /\ UNCHANGED <<rows, wallet, dto>>

Closed(k) ==
    /\ Rollback(k)
    /\ deactive' = [deactive EXCEPT ![k] = FALSE]
    /\ todo' = [todo EXCEPT ![k] = <<>>]
    /\ Goto(k, "idle")
    /\ UNCHANGED <<wallet, dto>>

Commit(k) ==
    /\ pc[k] = "commit" /\ ~deactive[k]
    /\ profile' = [profile EXCEPT ![wallet[k]] = dto[k]]
    /\ transfers' = transfers \cup wrote[k]
    /\ Closed(k)

\* commit() raises PendingRollbackError; the session is rolled back and the
\* pipeline logs a warning.
CommitRaises(k) ==
    /\ pc[k] = "commit" /\ deactive[k]
    /\ Closed(k)
    /\ UNCHANGED rows

\* The connection failed, the task was cancelled, or the process died.
Aborted(k) ==
    /\ pc[k] # "idle"
    /\ Closed(k)
    /\ UNCHANGED rows

\* The transactions k waits for.
WaitsFor(k) ==
    CASE pc[k] = "upsert" -> RowHolders(k)
      [] pc[k] = "insert" /\ ~deactive[k] -> KeyHolders(k, Head(todo[k]))
      [] OTHER -> {}

\* A circle of transactions waits for itself: the database fails one of them.
DeadlockVictim(k) ==
    /\ \E circle \in SUBSET Workers :
        k \in circle /\ \A j \in circle : WaitsFor(j) \cap circle # {}
    /\ Closed(k)
    /\ UNCHANGED rows

Step(k) ==
    \/ upsert(k) \/ trace(k) \/ insert_many(k) \/ Commit(k) \/ CommitRaises(k)
    \/ DeadlockVictim(k)

Next == \E k \in Workers : Begin(k) \/ Step(k) \/ Aborted(k)

Spec == Init /\ [][Next]_vars

\* Every call to the database and to the chain returns: strong fairness, since
\* the database queues the transactions that wait for a row.
FairSpec == Spec /\ \A k \in Workers : SF_vars(Step(k))

-----------------------------------------------------------------------------
(* Properties.                                                           *)

AS == INSTANCE AtomicStore

\* Whatever workers, duplicates, deadlocks and crashes do to each other, the
\* rows that become visible are those of one wallet, all of them at once: its
\* profile and its first hops without a gap, none of which was there before
\* (pipeline.py:440-480, database.py:178-186).
ImplementsAtomicStore == AS!ASSpec

\* The trade that found a fresh wallet is not held up for ever by the rows
\* other pipelines have in flight: every session is closed.
SessionsEnd == \A k \in Workers : pc[k] # "idle" ~> pc[k] = "idle"

-----------------------------------------------------------------------------
(* What a docstring says and the code does not do.                       *)

\* "Skips duplicates silently." (FundingRepository.insert_many, repos.py): the
\* transaction insert_many was called in can be committed when it returns.
SkipsDuplicates == \A k \in Workers : pc[k] = "commit" => ~deactive[k]
=============================================================================
