---------------------------- MODULE Subscribers -----------------------------
(***************************************************************************)
(* Subscribers, the suppression list and bounces: the web application,   *)
(* bounce-drain.py and the recipient query of newsletter_common.py, over *)
(* the repositories they share.                                          *)
(*                                                                       *)
(* A web request reads a row in one step and writes it in another; the   *)
(* UPDATE names the row by its id and the columns the ORM saw change, so *)
(* it overwrites what others wrote to them in between and raises when the*)
(* row is gone. A drain is one transaction for all its records and keeps *)
(* the rows it has updated locked until it commits.                      *)
(*                                                                       *)
(* Abstracted: an address is a value, the suppression list is the set of *)
(* addresses its patterns match, and of tokens only that the current one *)
(* finds its row: any other finds none and changes nothing.              *)
(***************************************************************************)
EXTENDS Naturals, Sequences, SequencesExt, FiniteSets

CONSTANTS
    Emails, NoRow,
    Requests, Drains,         \* concurrent web requests and drains
    ALLOWED_CADENCES,
    DEFAULT_BOUNCE_THRESHOLD,
    MaxRows, MaxRecords, MaxBounces, MaxSessions    \* bounds

ASSUME SubscribersAssumption ==
    /\ ALLOWED_CADENCES # {}
    /\ DEFAULT_BOUNCE_THRESHOLD \in Nat \ {0}
    /\ {MaxRows, MaxRecords, MaxBounces, MaxSessions} \subseteq Nat

VARIABLES
    subscriber,      \* table subscribers
    suppressed,      \* table suppression_list
    hard_bounces,    \* table email_bounces: hard bounces of an address
    issued,          \* ids of rows so far
    request,         \* the web request each of Requests serves
    drain,           \* the transaction of each drain
    clicked          \* history: rows whose owner followed a valid opt-in link

subscribers_vars == <<subscriber, suppressed, hard_bounces, issued, request, drain, clicked>>

Statuses == {"pending_opt_in", "active", "bounced", "unsubscribed"}
Cadences == (SUBSET ALLOWED_CADENCES) \ {{}}
Row == [id : 1 .. MaxRows, status : Statuses,
        bounce_count : 0 .. MaxBounces, cadences : Cadences]

Idle == [kind |-> "idle"]
NoDrain == [todo |-> <<>>, seen |-> NoRow, updated |-> <<>>,
            hard |-> [e \in Emails |-> 0]]

SubscribersTypeOK ==
    /\ subscriber \in [Emails -> Row \cup {NoRow}]
    /\ suppressed \subseteq Emails
    /\ hard_bounces \in [Emails -> 0 .. MaxBounces]
    /\ issued \in 0 .. MaxRows
    /\ \A r \in Requests : request[r] = Idle
          \/ request[r].kind \in {"subscribe", "confirm", "unsubscribe"}
    /\ \A d \in Drains : DOMAIN drain[d].updated \subseteq Emails
    /\ clicked \subseteq 1 .. issued

SubscribersInit ==
    /\ subscriber = [e \in Emails |-> NoRow]
    /\ suppressed = {}
    /\ hard_bounces = [e \in Emails |-> 0]
    /\ issued = 0
    /\ request = [r \in Requests |-> Idle]
    /\ drain = [d \in Drains |-> NoDrain]
    /\ clicked = {}

-----------------------------------------------------------------------------
(* POST /subscribe, GET /opt-in, GET or POST /unsubscribe.               *)

Exists(e) == subscriber[e] # NoRow
Seen(e) == IF Exists(e) THEN [id |-> subscriber[e].id, status |-> subscriber[e].status]
           ELSE NoRow
Locked(e) == \E d \in Drains : e \in DOMAIN drain[d].updated
\* The bound: no more sessions at once than MaxSessions.
MaySession == Cardinality({r \in Requests : request[r] # Idle})
              + Cardinality({d \in Drains : drain[d] # NoDrain}) < MaxSessions

web_frame == <<suppressed, hard_bounces, drain>>

\* An address on the suppression list is answered before any row is read.
subscribe(r) ==
    /\ request[r] = Idle /\ MaySession
    /\ \E e \in Emails \ suppressed, cs \in Cadences :
        request' = [request EXCEPT ![r] = [kind |-> "subscribe", email |-> e,
                                           seen |-> Seen(e), cadences |-> cs]]
    /\ UNCHANGED <<subscriber, issued, clicked, web_frame>>

\* The token that came with the link finds the row, or nothing happens.
opt_in(r) ==
    /\ request[r] = Idle /\ MaySession
    /\ \E e \in Emails :
        /\ Exists(e)
        /\ clicked' = clicked \cup {subscriber[e].id}
        /\ request' = [request EXCEPT ![r] = [kind |-> "confirm", email |-> e,
                                              seen |-> Seen(e)]]
    /\ UNCHANGED <<subscriber, issued, web_frame>>

unsubscribe(r) ==
    /\ request[r] = Idle /\ MaySession
    /\ \E e \in Emails :
        /\ Exists(e)
        /\ request' = [request EXCEPT ![r] = [kind |-> "unsubscribe", email |-> e,
                                              seen |-> Seen(e)]]
    /\ UNCHANGED <<subscriber, issued, clicked, web_frame>>

Answered(r) == request' = [request EXCEPT ![r] = Idle]

\* Mutant: the row is found again by its address.
mutant_StillThere(e, seen) == Exists(e)

\* UPDATE ... WHERE id = seen.id finds its row; otherwise StaleDataError.
StillThere(e, seen) == Exists(e) /\ subscriber[e].id = seen.id

\* The unique key of the address is free: the INSERT does not raise.
insert_new(r, q) ==
    /\ q.seen = NoRow /\ ~Exists(q.email)
    /\ issued < MaxRows
    /\ issued' = issued + 1
    /\ subscriber' = [subscriber EXCEPT ![q.email] =
            [id |-> issued', status |-> "pending_opt_in",
             bounce_count |-> 0, cadences |-> q.cadences]]

\* Mutant: whoever has left or bounced may sign up again.
mutant_reissue(r, q) ==
    /\ q.seen # NoRow /\ q.seen.status # "active"
    /\ StillThere(q.email, q.seen)
    /\ subscriber' = [subscriber EXCEPT
            ![q.email].cadences = q.cadences, ![q.email].status = "pending_opt_in"]
    /\ UNCHANGED issued

reissue(r, q) ==
    /\ q.seen # NoRow /\ q.seen.status = "pending_opt_in"
    /\ StillThere(q.email, q.seen)
    /\ subscriber' = [subscriber EXCEPT ![q.email].cadences = q.cadences]
    /\ UNCHANGED issued

\* Nothing to write, a unique key that is taken, or a row that is gone.
insert_nothing(r, q) ==
    /\ IF q.seen = NoRow THEN Exists(q.email)
       ELSE q.seen.status = "pending_opt_in" => ~StillThere(q.email, q.seen)
    /\ UNCHANGED <<issued, subscriber>>

insert_pending(r) ==
    /\ request[r].kind = "subscribe"
    /\ ~Locked(request[r].email)
    /\ LET q == request[r]
       IN insert_new(r, q) \/ reissue(r, q) \/ insert_nothing(r, q)
    /\ Answered(r)
    /\ UNCHANGED <<clicked, web_frame>>

\* The column status is written when the value read is not the one set.
SetStatus(r, when, status) ==
    LET q == request[r]
    IN /\ ~Locked(q.email)
       /\ subscriber' = IF when /\ StillThere(q.email, q.seen)
                        THEN [subscriber EXCEPT ![q.email].status = status]
                        ELSE subscriber
       /\ Answered(r)
       /\ UNCHANGED <<issued, clicked, web_frame>>

confirm_opt_in(r) ==
    /\ request[r].kind = "confirm"
    /\ SetStatus(r, request[r].seen.status = "pending_opt_in", "active")

confirm_unsubscribe(r) ==
    /\ request[r].kind = "unsubscribe"
    /\ SetStatus(r, request[r].seen.status # "unsubscribed", "unsubscribed")

\* The bound: no erasure once MaxRows ids are issued.
delete_for_gdpr(e) ==
    /\ Exists(e) /\ ~Locked(e) /\ issued < MaxRows
    /\ subscriber' = [subscriber EXCEPT ![e] = NoRow]
    /\ UNCHANGED <<issued, request, clicked, web_frame>>

\* SuppressionListRepository.add: a pattern of any of the three types.
add_suppression(es) ==
    /\ es # {} /\ ~(es \subseteq suppressed)
    /\ suppressed' = suppressed \cup es
    /\ UNCHANGED <<subscriber, hard_bounces, issued, request, drain, clicked>>

-----------------------------------------------------------------------------
(* bounce-drain.py                                                       *)

drain_frame == <<suppressed, issued, request, clicked>>
BounceRecord == [email : Emails, bounce_type : {"hard", "soft"}]

\* Hard bounces of an address in a transaction that has not committed.
Undrained(d, e) ==
    LET Hard(r) == r.email = e /\ r.bounce_type = "hard"
    IN drain[d].hard[e] + Len(SelectSeq(drain[d].todo, Hard))

\* The bound: no more hard bounces of an address than MaxBounces.
DrainStart(d) ==
    /\ drain[d] = NoDrain /\ MaySession
    /\ \E batch \in BoundedSeq(BounceRecord, MaxRecords) \ {<<>>} :
        drain' = [drain EXCEPT ![d].todo = batch]
    /\ \A e \in Emails : hard_bounces[e] + FoldFunction(+, 0,
            [x \in Drains |-> Undrained(x, e)'])  <= MaxBounces
    /\ UNCHANGED <<subscriber, hard_bounces, drain_frame>>

record(hard, r) == [hard EXCEPT ![r.email] = @ + IF r.bounce_type = "hard" THEN 1 ELSE 0]

\* The bounce is recorded, and record_bounce selects the row: the session's
\* own object if it has loaded one.
DrainSelect(d) ==
    LET r == Head(drain[d].todo)
        mine == drain[d].updated
        row == IF r.email \in DOMAIN mine THEN mine[r.email].orm ELSE subscriber[r.email]
    IN /\ drain[d].todo # <<>> /\ drain[d].seen = NoRow
       /\ drain' = [drain EXCEPT
             ![d].hard = record(@, r),
             ![d].seen = row,
             ![d].todo = IF row = NoRow THEN Tail(@) ELSE @]
       /\ UNCHANGED <<subscriber, hard_bounces, drain_frame>>

\* Mutant: a bounce of any type counts.
mutant_record_bounce(row, bounce_type) ==
    LET n == row.bounce_count + 1
    IN [row EXCEPT !.bounce_count = n,
                   !.status = IF n >= DEFAULT_BOUNCE_THRESHOLD /\ @ = "active"
                              THEN "bounced" ELSE @]

record_bounce(row, bounce_type) ==
    LET n == row.bounce_count + 1
    IN IF bounce_type # "hard" THEN row
       ELSE [row EXCEPT !.bounce_count = n,
                        !.status = IF n >= DEFAULT_BOUNCE_THRESHOLD /\ @ = "active"
                                   THEN "bounced" ELSE @]

\* The flush of record_bounce: it waits for the row's lock, takes it, and
\* writes the columns that differ from the values read.
DrainFlush(d) ==
    LET e == Head(drain[d].todo).email
        seen == drain[d].seen
        mine == drain[d].updated
        orm == record_bounce(seen, Head(drain[d].todo).bounce_type)
        db == IF e \in DOMAIN mine THEN mine[e].db ELSE subscriber[e]
        Set(column) == IF orm[column] # seen[column] THEN orm[column] ELSE db[column]
    IN /\ seen # NoRow
       /\ \A x \in Drains \ {d} : e \notin DOMAIN drain[x].updated
       /\ StillThere(e, seen)
       /\ drain' = [drain EXCEPT
             ![d].updated = [x \in DOMAIN mine \cup {e} |->
                 IF x # e THEN mine[x]
                 ELSE [orm |-> orm, db |-> [db EXCEPT !.bounce_count = Set("bounce_count"),
                                                      !.status = Set("status")]]],
             ![d].seen = NoRow,
             ![d].todo = Tail(@)]
       /\ UNCHANGED <<subscriber, hard_bounces, drain_frame>>

DrainCommit(d) ==
    /\ drain[d] # NoDrain /\ drain[d].todo = <<>>
    /\ subscriber' = [e \in Emails |-> IF e \in DOMAIN drain[d].updated
                                      THEN drain[d].updated[e].db ELSE subscriber[e]]
    /\ hard_bounces' = [e \in Emails |-> hard_bounces[e] + drain[d].hard[e]]
    /\ drain' = [drain EXCEPT ![d] = NoDrain]
    /\ UNCHANGED drain_frame

\* Any statement raises (a row that is gone, two deliveries with the message
\* id, a deadlock, the connection), or the process dies: nothing is kept.
DrainFails(d) ==
    /\ drain[d] # NoDrain
    /\ drain' = [drain EXCEPT ![d] = NoDrain]
    /\ UNCHANGED <<subscriber, hard_bounces, drain_frame>>

-----------------------------------------------------------------------------
SubscribersNext ==
    \/ \E r \in Requests : \/ subscribe(r) \/ opt_in(r) \/ unsubscribe(r)
                          \/ insert_pending(r) \/ confirm_opt_in(r) \/ confirm_unsubscribe(r)
    \/ \E e \in Emails : delete_for_gdpr(e)
    \/ \E es \in SUBSET Emails : add_suppression(es)
    \/ \E d \in Drains : DrainStart(d) \/ DrainSelect(d) \/ DrainFlush(d)
                        \/ DrainCommit(d) \/ DrainFails(d)

SubscribersSpec == SubscribersInit /\ [][SubscribersNext]_subscribers_vars

-----------------------------------------------------------------------------

active_for_cadence(cadence) ==
    {e \in Emails : Exists(e) /\ subscriber[e].status = "active"
                                /\ cadence \in subscriber[e].cadences}

filter_subscribers(es) == es \ suppressed

fetch_db_targets(cadence) == filter_subscribers(active_for_cadence(cadence))

(* Double opt-in: whoever an edition would be sent to followed a link that *)
(* was issued for the very row that is on the table: an opt-in in flight *)
(* does not activate the row of a sign-up that came after an erasure.    *)
RecipientsOptedIn ==
    \A cadence \in ALLOWED_CADENCES :
        \A e \in fetch_db_targets(cadence) : subscriber[e].id \in clicked

\* Some opt-in in flight has read the row before it changed.
OptInInFlight(e) == \E r \in Requests : /\ request[r].kind = "confirm"
                                        /\ request[r].email = e
                                        /\ request[r].seen.status = "pending_opt_in"

(* Who has left or bounced is out for good: neither a new sign-up nor an *)
(* old link brings the row back, save an opt-in that was under way when  *)
(* the row changed.                                                      *)
OutForGood ==
    [][\A e \in Emails :
        /\ Exists(e) /\ subscriber[e].status \in {"unsubscribed", "bounced"}
        /\ Exists(e)' /\ ~OptInInFlight(e)
        => subscriber'[e].status \in {"unsubscribed", "bounced"}]_subscribers_vars

(* A subscriber is charged with no bounce that is not on record: the two *)
(* tables a drain writes agree on what was hard, whatever drain failed,  *)
(* overlapped another or met a row it had updated itself.                *)
ChargedBouncesAreOnRecord ==
    \A e \in Emails : Exists(e) => subscriber[e].bounce_count <= hard_bounces[e]
=============================================================================
