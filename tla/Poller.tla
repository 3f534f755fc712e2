------------------------------- MODULE Poller -------------------------------
(***************************************************************************)
(* DataAPITradePoller, which polls /trades and drops the transactions it *)
(* has seen, for direct-capture.py, which writes the others to a file.   *)
(*                                                                       *)
(* The endpoint is external: an append-only list of trades, several of   *)
(* which may be fills of one transaction, not far from each other. A     *)
(* response is the newest `limit` trades as an edge cache saw them; until*)
(* its last row is handed on, no more than max_lag trades have been made *)
(* since.                                                                *)
(*                                                                       *)
(* A stop() does not wait for the loop: a start() that comes before the  *)
(* sleep is over sees _running unset and makes a second loop.            *)
(***************************************************************************)
EXTENDS Naturals, Sequences, SequencesExt, FiniteSets

CONSTANTS
    tx_of,           \* the transaction of each trade, oldest first
    NoHash,          \* the transaction of a row that has none
    Malformed,       \* transactions whose rows do not parse
    limit, dedupe_window,
    max_lag,         \* how many trades a batch may lag behind
    max_spread,      \* how many other rows may lie between two fills
    Starts           \* calls of start() that may be under way

ASSUME PollerAssumption ==
    /\ tx_of \in Seq(ToSet(tx_of))
    /\ limit \in Nat \ {0} /\ {max_lag, max_spread} \subseteq Nat
    /\ \A i, k \in DOMAIN tx_of :
          tx_of[i] = tx_of[k] /\ tx_of[i] # NoHash =>
              Cardinality({j \in i .. k : tx_of[j] # tx_of[i]}) <= max_spread
    /\ dedupe_window \in Nat /\ dedupe_window >= limit + 2 * max_lag + max_spread

VARIABLES
    head,            \* trades made so far
    seen, seen_set,  \* _seen and _seen_set
    polling,         \* _running
    poll,            \* where each call of start() is
    batch,           \* the rows of its response that are left, oldest first
    upto,            \* the trades there were when the response was made
    emitted          \* history: how often on_trade got each transaction
                     \* that has a hash

poller_vars == <<head, seen, seen_set, polling, poll, batch, upto, emitted>>

Transactions == ToSet(tx_of)

PollerTypeOK ==
    /\ head \in 0 .. Len(tx_of)
    /\ seen \in Seq(Transactions) /\ seen_set \subseteq Transactions
    /\ polling \in BOOLEAN
    /\ poll \in [Starts -> {"none", "fetch", "emit", "sleep"}]
    /\ batch \in [Starts -> Seq(Transactions)] /\ upto \in [Starts -> 0 .. Len(tx_of)]
    /\ emitted \in [Transactions -> Nat]

PollerInit ==
    /\ head = 0
    /\ seen = <<>> /\ seen_set = {}
    /\ polling = FALSE
    /\ poll = [l \in Starts |-> "none"]
    /\ batch = [l \in Starts |-> <<>>]
    /\ upto = [l \in Starts |-> 0]
    /\ emitted = [t \in Transactions |-> 0]

-----------------------------------------------------------------------------
memory == <<seen, seen_set>>

Trade ==
    /\ head < Len(tx_of)
    /\ \A l \in Starts : batch[l] # <<>> => head < upto[l] + max_lag
    /\ head' = head + 1
    /\ UNCHANGED <<memory, polling, poll, batch, upto, emitted>>

poll_at(l, label) == poll' = [poll EXCEPT ![l] = label]

poll_start(l) ==
    /\ ~polling /\ poll[l] = "none"
    /\ polling' = TRUE
    /\ poll_at(l, "fetch")
    /\ UNCHANGED <<head, memory, batch, upto, emitted>>

poll_stop ==
    /\ polling
    /\ polling' = FALSE
    /\ UNCHANGED <<head, memory, poll, batch, upto, emitted>>

\* The newest `limit` of the first `end` trades, oldest first.
Window(end) == [i \in 1 .. (IF end < limit THEN end ELSE limit) |->
                    tx_of[(IF end < limit THEN 0 ELSE end - limit) + i]]

\* The response of _poll_once; an error ends the round.
Fetch(l) ==
    /\ poll[l] = "fetch"
    /\ \/ /\ \E end \in {n \in 0 .. head : n + max_lag >= head} :
                /\ batch' = [batch EXCEPT ![l] = Window(end)]
                /\ upto' = [upto EXCEPT ![l] = end]
          /\ poll_at(l, "emit")
       \/ UNCHANGED <<batch, upto>> /\ poll_at(l, "sleep")
    /\ UNCHANGED <<head, memory, polling, emitted>>

\* Mutant: the newest is evicted.
mutant_remember_evicts(tx) ==
    /\ seen' = IF Len(seen) = dedupe_window THEN Front(seen) \o <<tx>> ELSE seen \o <<tx>>
    /\ seen_set' = ToSet(seen')

\* _remember of a transaction that is new.
remember(tx) ==
    IF Len(seen) = dedupe_window /\ seen # <<>>
    THEN /\ seen' = Tail(seen) \o <<tx>>
         /\ seen_set' = (seen_set \ {Head(seen)}) \cup {tx}
    ELSE /\ seen' = IF dedupe_window = 0 THEN seen ELSE seen \o <<tx>>
         /\ seen_set' = seen_set \cup {tx}

\* One row of the batch: a duplicate, a row that does not parse, or a trade
\* for the callback, which may raise or await.
EmitRow(l) ==
    /\ poll[l] = "emit" /\ batch[l] # <<>>
    /\ LET tx == Head(batch[l])
       IN IF tx # NoHash /\ tx \in seen_set
          THEN UNCHANGED <<memory, emitted>>
          ELSE /\ IF tx = NoHash THEN UNCHANGED memory ELSE remember(tx)
               /\ emitted' = IF tx \in Malformed \cup {NoHash} THEN emitted ELSE [emitted EXCEPT ![tx] = @ + 1]
    /\ batch' = [batch EXCEPT ![l] = Tail(@)]
    /\ UNCHANGED <<head, polling, poll, upto>>

RoundEnds(l) ==
    /\ poll[l] = "emit" /\ batch[l] = <<>>
    /\ poll_at(l, IF polling THEN "sleep" ELSE "none")
    /\ UNCHANGED <<head, memory, polling, batch, upto, emitted>>

Wake(l) ==
    /\ poll[l] = "sleep"
    /\ poll_at(l, IF polling THEN "fetch" ELSE "none")
    /\ UNCHANGED <<head, memory, polling, batch, upto, emitted>>

\* direct-capture.py cancels the task once the duration is over.
PollCancelled(l) ==
    /\ poll[l] # "none"
    /\ poll_at(l, "none")
    /\ batch' = [batch EXCEPT ![l] = <<>>]
    /\ UNCHANGED <<head, memory, polling, upto, emitted>>

PollStep(l) == Fetch(l) \/ EmitRow(l) \/ RoundEnds(l) \/ Wake(l)

PollerNext ==
    \/ Trade \/ poll_stop
    \/ \E l \in Starts : poll_start(l) \/ PollStep(l) \/ PollCancelled(l)

PollerSpec == PollerInit /\ [][PollerNext]_poller_vars

-----------------------------------------------------------------------------
(* The dedupe window covers what responses can repeat, so that on_trade  *)
(* never gets a transaction twice: though an older response may follow a *)
(* newer one and put its rows into the deque out of order, and a restart *)
(* may have two loops share it.                                          *)
EmittedOnce == \A t \in Transactions \ {NoHash} : emitted[t] <= 1
=============================================================================
