------------------------------ MODULE Delivery ------------------------------
(***************************************************************************)
(* deliver_via_himalaya with its two sources of recipients and           *)
(* write_delivery_ledger: the deliveries of one edition, by whichever    *)
(* newsletter script, cron run or operator asks for one.                 *)
(*                                                                       *)
(* himalaya is external: it relays each row or not, reports on all of    *)
(* them, or exits with an error when some may have left already.         *)
(***************************************************************************)
EXTENDS Naturals

CONSTANTS Addresses,
          MaxMails       \* bound: mails of the edition per address

ASSUME DeliveryAssumption == MaxMails \in Nat

VARIABLES
    ledger,       \* rows of email_deliveries with outcome 'sent'
    delivery,     \* the call of deliver_via_himalaya that is under way
    relayed       \* history: mails of the edition that left

delivery_vars == <<ledger, delivery, relayed>>

NoDelivery == [pc |-> "idle"]

DeliveryTypeOK ==
    /\ {ledger, relayed} \subseteq [Addresses -> 0 .. MaxMails]
    /\ delivery = NoDelivery
       \/ delivery \in [pc : {"send"}, rows : SUBSET Addresses, ledger_writer : BOOLEAN]
       \/ delivery \in [pc : {"record"}, sent : SUBSET Addresses]

DeliveryInit ==
    /\ ledger = [a \in Addresses |-> 0]
    /\ delivery = NoDelivery
    /\ relayed = [a \in Addresses |-> 0]

Add(counts, as) == [a \in Addresses |-> counts[a] + IF a \in as THEN 1 ELSE 0]

Sent == {a \in Addresses : ledger[a] > 0}

\* The rows are the targets of report-config.yaml that are named or enabled,
\* or the subscribers of the cadence: any set of addresses. already_sent is
\* empty, as every script leaves it, or what the caller found in the ledger.
deliver_via_himalaya ==
    /\ delivery = NoDelivery
    /\ \E rows \in SUBSET Addresses, already_sent \in {{}, Sent}, writer \in BOOLEAN :
        /\ rows \ already_sent # {}
        /\ delivery' = [pc |-> "send", rows |-> rows \ already_sent, ledger_writer |-> writer]
    /\ UNCHANGED <<ledger, relayed>>

\* The bound: no address gets more than MaxMails.
Relay(left, dry_run) ==
    /\ \A a \in left : relayed[a] < MaxMails
    /\ relayed' = IF dry_run THEN relayed ELSE Add(relayed, left)

\* Mutant: a dry run is recorded like a delivery.
mutant_BatchSent ==
    /\ delivery.pc = "send"
    /\ \E left \in SUBSET delivery.rows, dry_run \in BOOLEAN :
        /\ Relay(left, dry_run)
        /\ delivery' = IF delivery.ledger_writer
                       THEN [pc |-> "record", sent |-> left]
                       ELSE NoDelivery
    /\ UNCHANGED ledger

\* Exit code 0: the report, if the caller wants one, goes to the ledger; the
\* rows himalaya did not relay, and those of a dry run, are not 'sent'.
BatchSent ==
    /\ delivery.pc = "send"
    /\ \E left \in SUBSET delivery.rows, dry_run \in BOOLEAN :
        /\ Relay(left, dry_run)
        /\ delivery' = IF delivery.ledger_writer
                       THEN [pc |-> "record", sent |-> IF dry_run THEN {} ELSE left]
                       ELSE NoDelivery
    /\ UNCHANGED ledger

\* Another exit code, or output that is not the report: nothing is recorded.
BatchFailed ==
    /\ delivery.pc = "send"
    /\ \E left \in SUBSET delivery.rows : Relay(left, FALSE)
    /\ delivery' = NoDelivery
    /\ UNCHANGED ledger

\* One transaction for all the rows.
write_delivery_ledger ==
    /\ delivery.pc = "record"
    /\ ledger' = Add(ledger, delivery.sent)
    /\ delivery' = NoDelivery
    /\ UNCHANGED relayed

\* The process dies, or the ledger, which is best effort, cannot be written.
DeliveryLost ==
    /\ delivery # NoDelivery
    /\ delivery' = NoDelivery
    /\ UNCHANGED <<ledger, relayed>>

DeliveryNext == deliver_via_himalaya \/ BatchSent \/ BatchFailed
                \/ write_delivery_ledger \/ DeliveryLost

DeliverySpec == DeliveryInit /\ [][DeliveryNext]_delivery_vars

-----------------------------------------------------------------------------
(* Every row of the ledger that says 'sent' stands for a mail of its own *)
(* that left: not for a dry run, for a row the relay refused, nor for one*)
(* recorded twice. A guard that reads the ledger never drops an address  *)
(* that got nothing.                                                     *)
LedgerIsOfMailsSent == \A a \in Addresses : ledger[a] <= relayed[a]

(* "any row already outcome='sent' for the edition is dropped": nobody   *)
(* gets an edition twice.                                                *)
SentOncePerEdition == \A a \in Addresses : relayed[a] <= 1
=============================================================================
