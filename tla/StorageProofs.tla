---------------------------- MODULE StorageProofs ----------------------------
(***************************************************************************)
(* Theorems about what is stored: the subscribers, their bounces and the *)
(* ledger of deliveries, for any number of web requests, drains and      *)
(* addresses and any threshold of bounces; and the wallet store, where   *)
(* any number of pipelines, wallets and transfers, and any chains,       *)
(* implement the atomic store.                                           *)
(***************************************************************************)
EXTENDS MCStorage, TLAPS

(***************************************************************************)
(* The inductive invariant of Subscribers.  A request or a drain acts on *)
(* a row it has read before; the invariant says what is still known of   *)
(* that row.  The types leave out MaxBounces, a bound of the runs.       *)
(***************************************************************************)
Rows == [id : 1 .. MaxRows, status : Statuses, bounce_count : Nat, cadences : Cadences]
Refs == [id : 1 .. MaxRows, status : Statuses]
Calls == [kind : {"subscribe"}, email : Emails, seen : Refs \cup {NoRow}, cadences : Cadences]
         \cup [kind : {"confirm", "unsubscribe"}, email : Emails, seen : Refs]

Mine(d) == DOMAIN drain[d].updated

DrainTypeOK(d) ==
    /\ drain[d] = [todo |-> drain[d].todo, seen |-> drain[d].seen,
                   updated |-> drain[d].updated, hard |-> drain[d].hard]
    /\ drain[d].todo \in Seq(BounceRecord)
    /\ drain[d].seen \in Rows \cup {NoRow}
    /\ Mine(d) \subseteq Emails
    /\ \A e \in Mine(d) : drain[d].updated[e] \in [orm : Rows, db : Rows]
    /\ drain[d].hard \in [Emails -> Nat]

MailTypeOK ==
    /\ subscriber \in [Emails -> Rows \cup {NoRow}]
    /\ hard_bounces \in [Emails -> Nat]
    /\ issued \in Nat
    /\ request \in [Requests -> Calls \cup {Idle}]
    /\ drain = [d \in Drains |-> drain[d]]
    /\ \A d \in Drains : DrainTypeOK(d)

\* Double opt-in: of the rows on the table, of the link an opt-in has followed
\* and of the rows a drain is about to write.
ActiveIsClicked ==
    /\ \A e \in Emails : Exists(e) /\ subscriber[e].status = "active"
                         => subscriber[e].id \in clicked
    /\ \A r \in Requests : request[r].kind = "confirm" => request[r].seen.id \in clicked
    /\ \A d \in Drains : \A e \in Mine(d) : LET db == drain[d].updated[e].db
                                           IN db.status = "active" => db.id \in clicked

Out == {"unsubscribed", "bounced"}

\* A row a drain has updated is locked: no other drain has it, and what it is
\* about to write brings nobody back.
LocksHold ==
    /\ \A d \in Drains : \A x \in Drains \ {d} : Mine(d) \cap Mine(x) = {}
    /\ \A d \in Drains : \A e \in Mine(d) :
           Exists(e) /\ (subscriber[e].status \in Out => drain[d].updated[e].db.status \in Out)

\* Hard bounces of an address on record if the drain commits.
OnRecord(d, e) == hard_bounces[e] + drain[d].hard[e]

Weight(r) == IF r.bounce_type = "hard" THEN 1 ELSE 0

\* No copy of a row is charged with more than is on record: the row on the
\* table, the one a drain holds in its session, the one it has written, and
\* the one it has selected and is about to charge.
ChargesAreOnRecord ==
    /\ ChargedBouncesAreOnRecord
    /\ \A d \in Drains : \A e \in Mine(d) :
           /\ drain[d].updated[e].orm.bounce_count <= OnRecord(d, e)
           /\ drain[d].updated[e].db.bounce_count <= OnRecord(d, e)
    /\ \A d \in Drains : drain[d].seen # NoRow =>
           LET r == Head(drain[d].todo)
           IN /\ drain[d].todo # <<>>
              /\ drain[d].seen.bounce_count + Weight(r) <= OnRecord(d, r.email)

MailInv == MailTypeOK /\ ActiveIsClicked /\ LocksHold /\ ChargesAreOnRecord

-----------------------------------------------------------------------------
(* Web requests, erasures and suppressions.                              *)

Web(r) == \/ subscribe(r) \/ opt_in(r) \/ unsubscribe(r)
          \/ insert_pending(r) \/ confirm_opt_in(r) \/ confirm_unsubscribe(r)

\* What others than drains do to a row: a sign-up or an erasure, or an UPDATE
\* that activates the row only for an opt-in whose link named it.
Changed(e) ==
    /\ ~Locked(e)
    /\ \/ subscriber'[e] = NoRow
       \/ /\ subscriber'[e] \in Rows
          /\ subscriber'[e].status = "pending_opt_in"
          /\ subscriber'[e].bounce_count = 0
       \/ /\ Exists(e)
          /\ subscriber'[e] \in Rows
          /\ subscriber'[e].id = subscriber[e].id
          /\ subscriber'[e].bounce_count = subscriber[e].bounce_count
          /\ \/ subscriber'[e].status \in {subscriber[e].status, "unsubscribed"}
             \/ subscriber'[e].status = "active" /\ subscriber[e].id \in clicked

LEMMA SetsStatus ==
    ASSUME MailInv, NEW r \in Requests, request[r] \in Calls,
           NEW when \in BOOLEAN, NEW status \in Statuses, SetStatus(r, when, status),
           \/ status = "unsubscribed"
           \/ status = "active" /\ request[r].seen.id \in clicked, NEW e \in Emails
    PROVE  subscriber'[e] = subscriber[e] \/ Changed(e)
<1> DEFINE q == request[r]
<1>1. CASE when /\ StillThere(q.email, q.seen) /\ e = q.email
  <2>1. subscriber[e] \in Rows /\ Exists(e)
    BY <1>1 DEF StillThere, Exists, MailInv, MailTypeOK
  <2>2. subscriber'[e] = [subscriber[e] EXCEPT !.status = status] /\ ~Locked(e)
    BY <1>1 DEF SetStatus, MailInv, MailTypeOK
  <2>3. subscriber'[e] \in Rows /\ subscriber'[e].status = status
        /\ subscriber'[e].id = subscriber[e].id
        /\ subscriber'[e].bounce_count = subscriber[e].bounce_count
    BY <2>1, <2>2 DEF Rows
  <2> QED
    BY <1>1, <2>1, <2>2, <2>3 DEF Changed, StillThere
<1>2. CASE ~(when /\ StillThere(q.email, q.seen) /\ e = q.email)
  BY <1>2 DEF SetStatus, MailInv, MailTypeOK
<1> QED
  BY <1>1, <1>2

LEMMA WebEffect ==
    ASSUME MailInv, NEW r \in Requests, Web(r), NEW e \in Emails
    PROVE  subscriber'[e] = subscriber[e] \/ Changed(e)
<1>1. CASE subscribe(r) \/ opt_in(r) \/ unsubscribe(r)
  BY <1>1 DEF subscribe, opt_in, unsubscribe
<1>2. request[r].kind \in {"subscribe", "confirm", "unsubscribe"} => request[r] \in Calls
  BY DEF MailInv, MailTypeOK, Idle
<1>3. CASE insert_pending(r)
  <2> DEFINE q == request[r]
  <2>1. q \in Calls /\ q.cadences \in Cadences /\ q.email \in Emails /\ ~Locked(q.email)
    BY <1>2, <1>3 DEF insert_pending, Calls
  <2>2. CASE insert_new(r, q)
    <3>1. subscriber' = [subscriber EXCEPT ![q.email] =
                [id |-> issued + 1, status |-> "pending_opt_in",
                 bounce_count |-> 0, cadences |-> q.cadences]]
      BY <2>2 DEF insert_new
    <3>2. issued + 1 \in 1 .. MaxRows
      BY <2>2, SubscribersAssumption DEF insert_new, MailInv, MailTypeOK
    <3> QED
      BY <2>1, <3>1, <3>2 DEF Changed, Rows, Statuses, MailInv, MailTypeOK
  <2>3. CASE reissue(r, q)
    <3>1. CASE e = q.email
      <4>1. subscriber[e] \in Rows /\ Exists(e)
        BY <2>3, <3>1 DEF reissue, StillThere, Exists, MailInv, MailTypeOK
      <4>2. subscriber'[e] = [subscriber[e] EXCEPT !.cadences = q.cadences]
        BY <2>3, <3>1 DEF reissue, MailInv, MailTypeOK
      <4> QED
        BY <2>1, <3>1, <4>1, <4>2 DEF Changed, Rows
    <3>2. CASE e # q.email
      BY <2>3, <3>2 DEF reissue, MailInv, MailTypeOK
    <3> QED
      BY <3>1, <3>2
  <2>4. CASE insert_nothing(r, q)
    BY <2>4 DEF insert_nothing
  <2> QED
    BY <1>3, <2>2, <2>3, <2>4 DEF insert_pending
<1>4. CASE confirm_opt_in(r)
  BY <1>2, <1>4, SetsStatus DEF confirm_opt_in, Statuses, MailInv, ActiveIsClicked
<1>5. CASE confirm_unsubscribe(r)
  BY <1>2, <1>5, SetsStatus DEF confirm_unsubscribe, Statuses
<1> QED
  BY <1>1, <1>3, <1>4, <1>5 DEF Web

LEMMA WebFrame ==
    ASSUME MailInv, NEW r \in Requests, Web(r)
    PROVE  /\ UNCHANGED <<hard_bounces, drain>>
           /\ subscriber' = [e \in Emails |-> subscriber'[e]]
           /\ issued' \in Nat
           /\ clicked \subseteq clicked'
           /\ request' \in [Requests -> Calls \cup {Idle}]
           /\ \A x \in Requests : request'[x].kind = "confirm" => request'[x].seen.id \in clicked'
<1> USE DEF web_frame, Answered
<1>1. request[r].kind \in {"subscribe", "confirm", "unsubscribe"} => request[r] \in Calls
  BY DEF MailInv, MailTypeOK, Idle
<1>2. \A e \in Emails : Exists(e) => Seen(e) \in Refs /\ Seen(e).id = subscriber[e].id
  BY DEF MailInv, MailTypeOK, Rows, Refs, Exists, Seen
<1>3. Idle \in Calls \cup {Idle} /\ Idle.kind # "confirm"
  BY DEF Idle
<1>4. ASSUME NEW q \in Calls \cup {Idle}, request' = [request EXCEPT ![r] = q], clicked \subseteq clicked',
             q.kind = "confirm" => q.seen.id \in clicked'
      PROVE  /\ request' \in [Requests -> Calls \cup {Idle}]
             /\ \A x \in Requests : request'[x].kind = "confirm" => request'[x].seen.id \in clicked'
  BY <1>4 DEF MailInv, MailTypeOK, ActiveIsClicked
<1>5. CASE subscribe(r)
  <2>1. PICK e \in Emails, cs \in Cadences :
            request' = [request EXCEPT ![r] = [kind |-> "subscribe", email |-> e,
                                               seen |-> Seen(e), cadences |-> cs]]
    BY <1>5 DEF subscribe
  <2>2. [kind |-> "subscribe", email |-> e, seen |-> Seen(e), cadences |-> cs] \in Calls
    <3>1. Seen(e) \in Refs \cup {NoRow}
      BY <1>2 DEF Seen
    <3> QED
      BY <3>1 DEF Calls
  <2> QED
    BY <1>4, <1>5, <2>1, <2>2 DEF subscribe, MailInv, MailTypeOK
<1>6. CASE opt_in(r)
  <2>1. PICK e \in Emails :
            /\ Exists(e) /\ clicked' = clicked \cup {subscriber[e].id}
            /\ request' = [request EXCEPT ![r] = [kind |-> "confirm", email |-> e, seen |-> Seen(e)]]
    BY <1>6 DEF opt_in
  <2>2. [kind |-> "confirm", email |-> e, seen |-> Seen(e)] \in Calls
    BY <1>2, <2>1 DEF Calls
  <2> QED
    BY <1>2, <1>4, <1>6, <2>1, <2>2 DEF opt_in, MailInv, MailTypeOK
<1>7. CASE unsubscribe(r)
  <2>1. PICK e \in Emails :
            /\ Exists(e)
            /\ request' = [request EXCEPT ![r] = [kind |-> "unsubscribe", email |-> e, seen |-> Seen(e)]]
    BY <1>7 DEF unsubscribe
  <2>2. [kind |-> "unsubscribe", email |-> e, seen |-> Seen(e)] \in Calls
    BY <1>2, <2>1 DEF Calls
  <2> QED
    BY <1>4, <1>7, <2>1, <2>2 DEF unsubscribe, MailInv, MailTypeOK
<1>8. CASE insert_pending(r)
  <2> DEFINE q == request[r]
  <2>1. subscriber' = [e \in Emails |-> subscriber'[e]] /\ issued' \in Nat
    <3>1. insert_new(r, q) \/ reissue(r, q) \/ insert_nothing(r, q)
      BY <1>8 DEF insert_pending
    <3>2. subscriber = [e \in Emails |-> subscriber[e]] /\ issued \in Nat
      BY DEF MailInv, MailTypeOK
    <3> QED
      BY <3>1, <3>2 DEF insert_new, reissue, insert_nothing
  <2>2. /\ UNCHANGED <<hard_bounces, drain, clicked>>
        /\ request' = [request EXCEPT ![r] = Idle]
    BY <1>8 DEF insert_pending
  <2> QED
    BY <1>3, <1>4, <2>1, <2>2
<1>9. CASE confirm_opt_in(r) \/ confirm_unsubscribe(r)
  BY <1>3, <1>4, <1>9 DEF confirm_opt_in, confirm_unsubscribe, SetStatus, MailInv, MailTypeOK
<1> QED
  BY <1>5, <1>6, <1>7, <1>8, <1>9 DEF Web

LEMMA ErasureEffect ==
    ASSUME MailInv, NEW a \in Emails, delete_for_gdpr(a), NEW e \in Emails
    PROVE  subscriber'[e] = subscriber[e] \/ Changed(e)
BY DEF delete_for_gdpr, Changed, MailInv, MailTypeOK

\* Whatever rows the others change, every part of the invariant is kept: the
\* rows a drain has updated are locked.
LEMMA ChangesKeep ==
    ASSUME MailInv,
           UNCHANGED <<hard_bounces, drain>>,
           subscriber' = [e \in Emails |-> subscriber'[e]],
           \A e \in Emails : subscriber'[e] = subscriber[e] \/ Changed(e),
           issued' \in Nat, clicked \subseteq clicked',
           request' \in [Requests -> Calls \cup {Idle}],
           \A r \in Requests : request'[r].kind = "confirm" => request'[r].seen.id \in clicked'
    PROVE  MailInv'
<1>1. MailTypeOK'
  <2>1. \A e \in Emails : subscriber'[e] \in Rows \cup {NoRow}
    BY DEF MailInv, MailTypeOK, Changed
  <2>2. \A d \in Drains : DrainTypeOK(d)'
    BY DEF MailInv, MailTypeOK, DrainTypeOK, Mine
  <2> QED
    BY <2>1, <2>2 DEF MailInv, MailTypeOK
<1>2. ActiveIsClicked'
  <2>1. \A e \in Emails : Exists(e)' /\ subscriber'[e].status = "active"
                          => subscriber'[e].id \in clicked'
    BY DEF MailInv, ActiveIsClicked, Changed, Exists
  <2>2. \A d \in Drains : \A e \in Mine(d)' : LET db == drain'[d].updated[e].db
                                             IN db.status = "active" => db.id \in clicked'
    BY DEF MailInv, ActiveIsClicked, Mine
  <2> QED
    BY <2>1, <2>2 DEF ActiveIsClicked
<1>3. LocksHold'
  <2>1. \A d \in Drains : \A e \in Mine(d) : e \in Emails /\ Locked(e)
    BY DEF MailInv, MailTypeOK, DrainTypeOK, Locked, Mine
  <2>2. \A d \in Drains : \A e \in Mine(d) : subscriber'[e] = subscriber[e]
    BY <2>1 DEF Changed
  <2> QED
    BY <2>2 DEF MailInv, LocksHold, Mine, Exists
<1>4. ChargesAreOnRecord'
  <2>1. ChargedBouncesAreOnRecord'
    <3> SUFFICES ASSUME NEW e \in Emails, Exists(e)'
                 PROVE  subscriber'[e].bounce_count <= hard_bounces[e]
      BY DEF ChargedBouncesAreOnRecord
    <3>1. hard_bounces[e] \in Nat
      BY DEF MailInv, MailTypeOK
    <3>2. Exists(e) => subscriber[e].bounce_count <= hard_bounces[e]
      BY DEF MailInv, ChargesAreOnRecord, ChargedBouncesAreOnRecord
    <3> QED
      BY <3>1, <3>2 DEF Changed, Exists
  <2> QED
    BY <2>1 DEF MailInv, ChargesAreOnRecord, Mine, OnRecord, Weight
<1> QED
  BY <1>1, <1>2, <1>3, <1>4 DEF MailInv

-----------------------------------------------------------------------------
(* Drains.                                                               *)

\* What the invariant says of one drain.
OfDrain(d) ==
    /\ DrainTypeOK(d)
    /\ \A e \in Mine(d) : LET u == drain[d].updated[e]
                          IN /\ u.db.status = "active" => u.db.id \in clicked
                             /\ Exists(e) /\ (subscriber[e].status \in Out => u.db.status \in Out)
                             /\ u.orm.bounce_count <= OnRecord(d, e)
                             /\ u.db.bounce_count <= OnRecord(d, e)
                             /\ \A x \in Drains \ {d} : e \notin Mine(x)
    /\ drain[d].seen # NoRow =>
           LET r == Head(drain[d].todo)
           IN /\ drain[d].todo # <<>>
              /\ drain[d].seen.bounce_count + Weight(r) <= OnRecord(d, r.email)

LEMMA EveryDrain == ASSUME MailInv, NEW d \in Drains PROVE OfDrain(d)
BY DEF MailInv, MailTypeOK, ActiveIsClicked, LocksHold, ChargesAreOnRecord, OfDrain

\* A drain that changes nothing but itself has only itself to answer for.
LEMMA DrainKeeps ==
    ASSUME MailInv, NEW d \in Drains,
           UNCHANGED <<subscriber, hard_bounces, suppressed, issued, request, clicked>>,
           \E one : drain' = [drain EXCEPT ![d] = one],
           OfDrain(d)'
    PROVE  MailInv'
<1>1. \A x \in Drains \ {d} : drain'[x] = drain[x]
  BY DEF MailInv, MailTypeOK
<1>2. \A x \in Drains \ {d} : OfDrain(x)
  BY EveryDrain
<1>3. ASSUME NEW x \in Drains \ {d}
      PROVE  OfDrain(x)'
  <2>1. \A e \in Mine(x) : \A y \in Drains \ {x} : e \notin Mine(y)'
    BY <1>1, <1>2 DEF OfDrain, Mine
  <2>2. drain'[x] = drain[x] /\ OfDrain(x)
    BY <1>1, <1>2
  <2>3. Mine(x)' = Mine(x) /\ \A e : OnRecord(x, e)' = OnRecord(x, e) /\ (Exists(e) => Exists(e)')
    BY <2>2 DEF Mine, OnRecord, Exists
  <2>4. DrainTypeOK(x)'
    BY <2>2 DEF OfDrain, DrainTypeOK, Mine
  <2>5. ASSUME NEW e \in Mine(x)'
        PROVE  LET u == drain'[x].updated[e]
               IN /\ u.db.status = "active" => u.db.id \in clicked'
                  /\ Exists(e)' /\ (subscriber'[e].status \in Out => u.db.status \in Out)
                  /\ u.orm.bounce_count <= OnRecord(x, e)'
                  /\ u.db.bounce_count <= OnRecord(x, e)'
    BY <2>2, <2>3 DEF OfDrain
  <2>6. ASSUME drain'[x].seen # NoRow
        PROVE  (LET r == Head(drain[x].todo)
                IN /\ drain[x].todo # <<>>
                   /\ drain[x].seen.bounce_count + Weight(r) <= OnRecord(x, r.email))'
    <3>1. PICK r : r = Head(drain[x].todo)
      OBVIOUS
    <3>2. drain[x].todo # <<>> /\ drain[x].seen.bounce_count + Weight(r) <= OnRecord(x, r.email)
      BY <2>2, <2>6, <3>1 DEF OfDrain
    <3>3. OnRecord(x, r.email)' = OnRecord(x, r.email)
      BY <2>3
    <3>4. Head(drain'[x].todo) = r /\ drain'[x].todo = drain[x].todo /\ drain'[x].seen = drain[x].seen
      BY <2>2, <3>1
    <3> QED
      BY <3>2, <3>3, <3>4
  <2>7. \A e \in Mine(x)' : LET u == drain'[x].updated[e]
                            IN /\ u.db.status = "active" => u.db.id \in clicked'
                               /\ Exists(e)' /\ (subscriber'[e].status \in Out => u.db.status \in Out)
                               /\ u.orm.bounce_count <= OnRecord(x, e)'
                               /\ u.db.bounce_count <= OnRecord(x, e)'
                               /\ \A y \in Drains \ {x} : e \notin Mine(y)'
    BY <2>1, <2>3, <2>5
  <2> QED
    BY <2>4, <2>6, <2>7 DEF OfDrain
<1>4. \A x \in Drains : OfDrain(x)'
  BY <1>3
<1>5. drain' = [x \in Drains |-> drain'[x]]
  BY DEF MailInv, MailTypeOK
<1>6. MailTypeOK'
  BY <1>4, <1>5 DEF MailInv, MailTypeOK, OfDrain
<1>7. ActiveIsClicked'
  BY <1>4 DEF MailInv, ActiveIsClicked, OfDrain, Exists
<1>8. LocksHold'
  BY <1>4 DEF LocksHold, OfDrain
<1>9. ChargesAreOnRecord'
  BY <1>4 DEF MailInv, ChargesAreOnRecord, ChargedBouncesAreOnRecord, OfDrain, Exists
<1> QED
  BY <1>6, <1>7, <1>8, <1>9 DEF MailInv

\* NoDrain says nothing of any row.
LEMMA NoDrainStep ==
    ASSUME MailInv, NEW d \in Drains, drain'[d] = NoDrain
    PROVE  OfDrain(d)'
<1>1. /\ drain'[d].todo = <<>> /\ drain'[d].seen = NoRow /\ drain'[d].updated = <<>>
      /\ drain'[d].hard = [e \in Emails |-> 0]
      /\ drain'[d] = [todo |-> drain'[d].todo, seen |-> drain'[d].seen,
                      updated |-> drain'[d].updated, hard |-> drain'[d].hard]
  BY DEF NoDrain
<1>2. Mine(d)' = {}
  BY <1>1 DEF Mine
<1>3. drain'[d].todo \in Seq(BounceRecord)
  BY <1>1
<1> QED
  BY <1>1, <1>2, <1>3 DEF OfDrain, DrainTypeOK

LEMMA DrainStartStep ==
    ASSUME MailInv, NEW d \in Drains, DrainStart(d)
    PROVE  OfDrain(d)'
<1>1. PICK batch \in BoundedSeq(BounceRecord, MaxRecords) \ {<<>>} :
          drain' = [drain EXCEPT ![d].todo = batch]
  BY DEF DrainStart
<1>2. batch \in Seq(BounceRecord)
  <2>1. PICK n \in 0 .. MaxRecords : batch \in [1 .. n -> BounceRecord]
    BY <1>1 DEF BoundedSeq, SeqOf
  <2>2. n \in Nat
    BY SubscribersAssumption
  <2> QED
    BY <2>1, <2>2
<1>3. drain'[d] = [NoDrain EXCEPT !.todo = batch]
  BY <1>1 DEF DrainStart, MailInv, MailTypeOK
<1>4. /\ drain'[d].todo = batch /\ drain'[d].seen = NoRow /\ drain'[d].updated = <<>>
      /\ drain'[d].hard = [e \in Emails |-> 0]
      /\ drain'[d] = [todo |-> drain'[d].todo, seen |-> drain'[d].seen,
                      updated |-> drain'[d].updated, hard |-> drain'[d].hard]
  BY <1>3 DEF NoDrain
<1>5. Mine(d)' = {}
  BY <1>4 DEF Mine
<1> QED
  BY <1>2, <1>4, <1>5 DEF OfDrain, DrainTypeOK

\* The bounce is recorded with the row selected: the row is charged with no
\* more than was on record before.
LEMMA DrainSelectStep ==
    ASSUME MailInv, NEW d \in Drains, DrainSelect(d)
    PROVE  OfDrain(d)'
<1> PICK t : t = drain[d]
  OBVIOUS
<1> PICK r : r = Head(t.todo)
  OBVIOUS
<1> PICK row : row = IF r.email \in Mine(d) THEN t.updated[r.email].orm ELSE subscriber[r.email]
  OBVIOUS
<1>1. OfDrain(d) /\ DrainTypeOK(d)
  BY EveryDrain DEF OfDrain
<1>2. t.todo # <<>> /\ r \in BounceRecord /\ Tail(t.todo) \in Seq(BounceRecord)
  <2>1. t.todo # <<>> /\ t.todo \in Seq(BounceRecord)
    BY <1>1 DEF DrainSelect, DrainTypeOK
  <2>2. PICK ahead \in Seq(BounceRecord) : ahead = t.todo /\ ahead # <<>>
    BY <2>1
  <2>3. Head(ahead) \in BounceRecord /\ Tail(ahead) \in Seq(BounceRecord)
    BY <2>2
  <2> QED
    BY <2>2, <2>3
<1>3. r.email \in Emails /\ Weight(r) \in {0, 1}
  BY <1>2 DEF BounceRecord, Weight
<1>4. t.hard[r.email] \in Nat /\ hard_bounces[r.email] \in Nat
  BY <1>1, <1>3 DEF DrainTypeOK, MailInv, MailTypeOK
<1>5. record(t.hard, r) = [t.hard EXCEPT ![r.email] = @ + Weight(r)]
  BY DEF record, Weight
<1>6. /\ drain'[d].todo = IF row = NoRow THEN Tail(t.todo) ELSE t.todo
      /\ drain'[d].seen = row
      /\ drain'[d].updated = t.updated
      /\ drain'[d].hard = [t.hard EXCEPT ![r.email] = @ + Weight(r)]
      /\ drain'[d] = [todo |-> drain'[d].todo, seen |-> drain'[d].seen,
                      updated |-> drain'[d].updated, hard |-> drain'[d].hard]
  <2>1. drain' = [drain EXCEPT ![d].hard = record(@, r), ![d].seen = row,
                     ![d].todo = IF row = NoRow THEN Tail(@) ELSE @]
    BY DEF DrainSelect, Mine
  <2>2. drain'[d] = [todo |-> IF row = NoRow THEN Tail(t.todo) ELSE t.todo, seen |-> row,
                     updated |-> t.updated, hard |-> record(t.hard, r)]
    BY <1>1, <2>1 DEF DrainTypeOK, MailInv, MailTypeOK
  <2>3. PICK ahead, hard : ahead = (IF row = NoRow THEN Tail(t.todo) ELSE t.todo) /\ hard = record(t.hard, r)
    OBVIOUS
  <2>4. drain'[d] = [todo |-> ahead, seen |-> row, updated |-> t.updated, hard |-> hard]
    BY <2>2, <2>3
  <2>5. /\ drain'[d].todo = ahead /\ drain'[d].seen = row
        /\ drain'[d].updated = t.updated /\ drain'[d].hard = hard
    BY <2>4
  <2> QED
    BY <1>5, <2>3, <2>4, <2>5
<1>7. row \in Rows \cup {NoRow}
  BY <1>1, <1>3 DEF DrainTypeOK, MailInv, MailTypeOK
<1>8. row # NoRow => row.bounce_count <= OnRecord(d, r.email)
  <2>1. CASE r.email \in Mine(d)
    BY <1>1, <2>1 DEF OfDrain
  <2>2. CASE r.email \notin Mine(d) /\ row # NoRow
    <3>1. subscriber[r.email] \in Rows /\ subscriber[r.email].bounce_count <= hard_bounces[r.email]
      BY <1>3, <1>7, <2>2 DEF MailInv, ChargesAreOnRecord, ChargedBouncesAreOnRecord, Exists
    <3>2. subscriber[r.email].bounce_count \in Nat
      BY <3>1 DEF Rows
    <3> QED
      BY <1>4, <2>2, <3>1, <3>2 DEF OnRecord
  <2> QED
    BY <2>1, <2>2
<1>9. Mine(d)' = Mine(d) /\ \A x \in Drains \ {d} : Mine(x)' = Mine(x)
  BY <1>6 DEF DrainSelect, Mine, MailInv, MailTypeOK
<1>10. /\ OnRecord(d, r.email)' = OnRecord(d, r.email) + Weight(r)
       /\ \A e \in Emails : OnRecord(d, e)' \in Nat /\ OnRecord(d, e) \in Nat
                            /\ OnRecord(d, e) <= OnRecord(d, e)'
  <2>1. t.hard \in [Emails -> Nat] /\ hard_bounces \in [Emails -> Nat]
    BY <1>1 DEF DrainTypeOK, MailInv, MailTypeOK
  <2>2. hard_bounces' = hard_bounces
    BY DEF DrainSelect
  <2>3. \A e \in Emails : drain'[d].hard[e] = IF e = r.email THEN t.hard[e] + Weight(r)
                                              ELSE t.hard[e]
    BY <1>3, <1>6, <2>1
  <2>4. \A e \in Emails : t.hard[e] \in Nat /\ hard_bounces[e] \in Nat
    BY <2>1
  <2> QED
    BY <1>3, <2>2, <2>3, <2>4 DEF OnRecord
<1>11. DrainTypeOK(d)'
  <2>1. drain'[d].hard \in [Emails -> Nat]
    <3>1. t.hard[r.email] + Weight(r) \in Nat
      BY <1>3, <1>4
    <3> QED
      BY <1>1, <1>6, <3>1 DEF DrainTypeOK
  <2> QED
    BY <1>1, <1>2, <1>6, <1>7, <1>9, <2>1 DEF DrainTypeOK, Mine
<1>12. ASSUME NEW e \in Mine(d)
       PROVE  LET u == t.updated[e] IN u.orm.bounce_count <= OnRecord(d, e)'
                                       /\ u.db.bounce_count <= OnRecord(d, e)'
  <2>1. e \in Emails /\ t.updated[e].orm.bounce_count \in Nat /\ t.updated[e].db.bounce_count \in Nat
    BY <1>1 DEF DrainTypeOK, Rows
  <2> QED
    BY <1>1, <1>10, <2>1 DEF OfDrain
<1>13. drain'[d].seen # NoRow =>
           /\ drain'[d].todo = t.todo
           /\ drain'[d].seen.bounce_count + Weight(r) <= OnRecord(d, r.email)'
  <2> SUFFICES ASSUME row # NoRow
               PROVE  row.bounce_count + Weight(r) <= OnRecord(d, r.email)'
    BY <1>6
  <2>1. row.bounce_count \in Nat
    BY <1>7 DEF Rows
  <2>2. PICK b \in Nat, w \in Nat : b = row.bounce_count /\ w = Weight(r)
    BY <1>3, <2>1
  <2>3. PICK before \in Nat, after \in Nat : before = OnRecord(d, r.email) /\ after = OnRecord(d, r.email)'
    BY <1>3, <1>10
  <2>4. b <= before /\ after = before + w
    BY <1>8, <1>10, <2>2, <2>3
  <2>5. b + w <= after
    BY <2>4
  <2> QED
    BY <2>2, <2>3, <2>5
<1>14. UNCHANGED <<subscriber, clicked>>
  BY DEF DrainSelect, drain_frame
<1>15. ASSUME NEW e \in Mine(d)'
       PROVE  LET u == drain'[d].updated[e]
              IN /\ u.db.status = "active" => u.db.id \in clicked'
                 /\ Exists(e)' /\ (subscriber'[e].status \in Out => u.db.status \in Out)
                 /\ u.orm.bounce_count <= OnRecord(d, e)'
                 /\ u.db.bounce_count <= OnRecord(d, e)'
                 /\ \A x \in Drains \ {d} : e \notin Mine(x)'
  <2>1. e \in Mine(d) /\ drain'[d].updated[e] = t.updated[e]
    BY <1>6, <1>9, <1>15
  <2>2. LET u == t.updated[e] IN
            /\ u.db.status = "active" => u.db.id \in clicked
            /\ Exists(e) /\ (subscriber[e].status \in Out => u.db.status \in Out)
            /\ \A x \in Drains \ {d} : e \notin Mine(x)
    BY <1>1, <2>1 DEF OfDrain
  <2> QED
    BY <1>9, <1>12, <1>14, <2>1, <2>2 DEF Exists
<1>16. (drain[d].seen # NoRow =>
           LET q == Head(drain[d].todo)
           IN /\ drain[d].todo # <<>>
              /\ drain[d].seen.bounce_count + Weight(q) <= OnRecord(d, q.email))'
  <2> SUFFICES ASSUME drain'[d].seen # NoRow
               PROVE  /\ drain'[d].todo = t.todo /\ Head(drain'[d].todo) = r
                      /\ drain'[d].seen.bounce_count + Weight(r) <= OnRecord(d, r.email)'
    BY <1>2 DEF OnRecord
  <2> QED
    BY <1>13
<1> QED
  BY <1>11, <1>15, <1>16 DEF OfDrain

\* record_bounce charges one hard bounce and only ever takes a row out.
LEMMA RecordBounce ==
    ASSUME NEW row \in Rows, NEW r \in BounceRecord
    PROVE  LET orm == record_bounce(row, r.bounce_type)
           IN /\ orm \in Rows
              /\ orm.bounce_count = row.bounce_count + Weight(r)
              /\ orm.status # row.status => orm.status = "bounced"
<1>1. CASE r.bounce_type # "hard"
  BY <1>1 DEF record_bounce, Rows, Weight
<1>2. CASE r.bounce_type = "hard"
  <2> DEFINE orm == record_bounce(row, r.bounce_type)
             status == IF row.bounce_count + 1 >= DEFAULT_BOUNCE_THRESHOLD /\ row.status = "active"
                       THEN "bounced" ELSE row.status
  <2>1. orm = [row EXCEPT !.bounce_count = row.bounce_count + 1, !.status = status]
    BY <1>2 DEF record_bounce, Rows
  <2>2. row.bounce_count + 1 \in Nat /\ status \in Statuses
    BY DEF Rows, Statuses
  <2>3. orm \in Rows /\ orm.bounce_count = row.bounce_count + 1 /\ orm.status = status
    <3> HIDE DEF status
    <3> QED
      BY <2>1, <2>2 DEF Rows
  <2> QED
    BY <1>2, <2>3 DEF Weight
<1> QED
  BY <1>1, <1>2

\* The flush writes what record_bounce changed over what is there, so that both
\* copies of the row keep what the invariant says of them.
LEMMA DrainFlushStep ==
    ASSUME MailInv, NEW d \in Drains, DrainFlush(d)
    PROVE  OfDrain(d)'
<1> PICK t : t = drain[d]
  OBVIOUS
<1>r. PICK r : r = Head(t.todo)
  OBVIOUS
<1>e. PICK e : e = r.email
  OBVIOUS
<1>old. PICK old : old = IF e \in Mine(d) THEN t.updated[e].db ELSE subscriber[e]
  OBVIOUS
<1>orm. PICK orm : orm = record_bounce(t.seen, r.bounce_type)
  OBVIOUS
<1>n. PICK n : n = IF orm.bounce_count # t.seen.bounce_count THEN orm.bounce_count ELSE old.bounce_count
  OBVIOUS
<1>st. PICK st : st = IF orm.status # t.seen.status THEN orm.status ELSE old.status
  OBVIOUS
<1>db. PICK db : db = [old EXCEPT !.bounce_count = n, !.status = st]
  OBVIOUS
<1> DEFINE now == [x \in Mine(d) \cup {e} |-> IF x # e THEN t.updated[x] ELSE [orm |-> orm, db |-> db]]
<1>1. OfDrain(d) /\ DrainTypeOK(d)
  BY EveryDrain DEF OfDrain
<1>2. t.seen # NoRow /\ t.todo # <<>>
  BY <1>1 DEF DrainFlush, OfDrain
<1>3. /\ r \in BounceRecord /\ e \in Emails /\ e = r.email
      /\ Tail(t.todo) \in Seq(BounceRecord) /\ t.seen \in Rows
  <2>1. t.todo \in Seq(BounceRecord) /\ t.seen \in Rows
    BY <1>1, <1>2 DEF DrainTypeOK
  <2>2. r \in BounceRecord /\ Tail(t.todo) \in Seq(BounceRecord)
    BY <1>2, <1>r, <2>1
  <2> QED
    BY <1>e, <2>1, <2>2 DEF BounceRecord
<1>4. orm \in Rows /\ orm.bounce_count = t.seen.bounce_count + Weight(r)
      /\ (orm.status # t.seen.status => orm.status = "bounced")
  BY <1>3, <1>orm, RecordBounce
<1>5. Exists(e) /\ subscriber[e] \in Rows
  BY <1>3, <1>r DEF DrainFlush, StillThere, Exists, MailInv, MailTypeOK
<1>6. /\ old \in Rows /\ old.bounce_count <= OnRecord(d, e)
      /\ old.status = "active" => old.id \in clicked
      /\ subscriber[e].status \in Out => old.status \in Out
  <2>1. CASE e \in Mine(d)
    BY <1>1, <1>old, <2>1 DEF OfDrain, DrainTypeOK
  <2>2. CASE e \notin Mine(d)
    <3>1. subscriber[e].bounce_count <= OnRecord(d, e)
      <4>1. subscriber[e].bounce_count <= hard_bounces[e]
        BY <1>3, <1>5 DEF MailInv, ChargesAreOnRecord, ChargedBouncesAreOnRecord
      <4>2. t.hard[e] \in Nat /\ hard_bounces[e] \in Nat /\ subscriber[e].bounce_count \in Nat
        BY <1>1, <1>3, <1>5 DEF DrainTypeOK, MailInv, MailTypeOK, Rows
      <4> QED
        BY <4>1, <4>2 DEF OnRecord
    <3> QED
      BY <1>3, <1>5, <1>old, <2>2, <3>1 DEF MailInv, ActiveIsClicked
  <2> QED
    BY <2>1, <2>2
<1>7. orm.bounce_count <= OnRecord(d, e)
  BY <1>1, <1>2, <1>3, <1>4, <1>r DEF OfDrain
<1>8. /\ db \in Rows /\ db.bounce_count <= OnRecord(d, e)
      /\ db.status = "active" => db.id \in clicked
      /\ subscriber[e].status \in Out => db.status \in Out
  <2>1. db.id = old.id /\ db.status = st /\ db.bounce_count = n
    BY <1>6, <1>db DEF Rows
  <2>2. n \in Nat /\ n <= OnRecord(d, e) /\ st \in Statuses
    BY <1>4, <1>6, <1>7, <1>n, <1>st DEF Rows
  <2>3. (st = "active" => old.status = "active") /\ (old.status \in Out => st \in Out)
    BY <1>4, <1>st DEF Out
  <2>4. db \in Rows
    BY <1>6, <1>db, <2>2 DEF Rows
  <2> QED
    BY <1>6, <2>1, <2>2, <2>3, <2>4
<1>9. /\ drain'[d].todo = Tail(t.todo) /\ drain'[d].seen = NoRow /\ drain'[d].hard = t.hard
      /\ drain'[d].updated = now
      /\ drain'[d] = [todo |-> drain'[d].todo, seen |-> drain'[d].seen,
                      updated |-> drain'[d].updated, hard |-> drain'[d].hard]
  <2>1. drain' = [drain EXCEPT ![d].updated = now, ![d].seen = NoRow, ![d].todo = Tail(@)]
    BY <1>r, <1>e, <1>old, <1>orm, <1>n, <1>st, <1>db, Zenon DEF DrainFlush, Mine
  <2> HIDE DEF now
  <2>2. drain'[d] = [todo |-> Tail(t.todo), seen |-> NoRow, updated |-> now, hard |-> t.hard]
    BY <1>1, <2>1 DEF DrainTypeOK, MailInv, MailTypeOK
  <2> QED
    BY <2>2
<1>10. /\ Mine(d)' = Mine(d) \cup {e}
       /\ drain'[d].updated[e] = [orm |-> orm, db |-> db]
       /\ \A x \in Mine(d) \ {e} : drain'[d].updated[x] = t.updated[x]
  <2>1. \A u : u = now => /\ DOMAIN u = Mine(d) \cup {e} /\ u[e] = [orm |-> orm, db |-> db]
                          /\ \A x \in Mine(d) \ {e} : u[x] = t.updated[x]
    OBVIOUS
  <2> HIDE DEF now
  <2> QED
    BY <1>9, <2>1 DEF Mine
<1> HIDE DEF now
<1>11. /\ \A x \in Drains \ {d} : Mine(x)' = Mine(x) /\ e \notin Mine(x)
       /\ \A x \in Emails : OnRecord(d, x)' = OnRecord(d, x)
       /\ UNCHANGED <<subscriber, clicked>>
  <2>1. \A x \in Drains \ {d} : drain'[x] = drain[x]
    BY DEF DrainFlush, MailInv, MailTypeOK
  <2>2. UNCHANGED <<subscriber, hard_bounces, clicked>>
    BY DEF DrainFlush, drain_frame
  <2>3. \A x \in Drains \ {d} : e \notin Mine(x)
    BY <1>r, <1>e DEF DrainFlush, Mine
  <2> QED
    BY <1>9, <2>1, <2>2, <2>3 DEF Mine, OnRecord
<1>12. DrainTypeOK(d)'
  <2>1. \A x \in Mine(d)' : drain'[d].updated[x] \in [orm : Rows, db : Rows]
    BY <1>1, <1>4, <1>8, <1>10 DEF DrainTypeOK
  <2> QED
    BY <1>1, <1>3, <1>9, <1>10, <2>1 DEF DrainTypeOK
<1>13. ASSUME NEW x \in Mine(d)'
       PROVE  LET u == drain'[d].updated[x]
              IN /\ u.db.status = "active" => u.db.id \in clicked'
                 /\ Exists(x)' /\ (subscriber'[x].status \in Out => u.db.status \in Out)
                 /\ u.orm.bounce_count <= OnRecord(d, x)'
                 /\ u.db.bounce_count <= OnRecord(d, x)'
                 /\ \A y \in Drains \ {d} : x \notin Mine(y)'
  <2>1. CASE x = e
    BY <1>3, <1>5, <1>7, <1>8, <1>10, <1>11, <2>1 DEF Exists
  <2>2. CASE x # e
    <3>1. x \in Mine(d) /\ x \in Emails
      BY <1>1, <1>10, <1>13, <2>2 DEF DrainTypeOK
    <3>2. LET u == t.updated[x] IN
              /\ u.db.status = "active" => u.db.id \in clicked
              /\ Exists(x) /\ (subscriber[x].status \in Out => u.db.status \in Out)
              /\ u.orm.bounce_count <= OnRecord(d, x)
              /\ u.db.bounce_count <= OnRecord(d, x)
              /\ \A y \in Drains \ {d} : x \notin Mine(y)
      BY <1>1, <3>1 DEF OfDrain
    <3> QED
      BY <1>10, <1>11, <2>2, <3>1, <3>2 DEF Exists
  <2> QED
    BY <2>1, <2>2
<1> QED
  BY <1>9, <1>12, <1>13 DEF OfDrain

\* A commit makes the drain's rows and its bounces visible together: what the
\* other drains hold is neither on those rows nor charged with those bounces.
LEMMA DrainCommitStep ==
    ASSUME MailInv, NEW d \in Drains, DrainCommit(d)
    PROVE  MailInv'
<1>1. /\ subscriber' = [e \in Emails |-> IF e \in Mine(d) THEN drain[d].updated[e].db ELSE subscriber[e]]
      /\ hard_bounces' = [e \in Emails |-> OnRecord(d, e)]
      /\ drain' = [drain EXCEPT ![d] = NoDrain]
      /\ UNCHANGED <<issued, request, clicked>>
  BY DEF DrainCommit, Mine, OnRecord, drain_frame
<1>2. OfDrain(d) /\ DrainTypeOK(d)
  BY EveryDrain DEF OfDrain
<1>3. \A e \in Emails : hard_bounces[e] \in Nat /\ OnRecord(d, e) \in Nat
                        /\ hard_bounces[e] <= OnRecord(d, e)
  <2>1. \A e \in Emails : drain[d].hard[e] \in Nat /\ hard_bounces[e] \in Nat
    BY <1>2 DEF DrainTypeOK, MailInv, MailTypeOK
  <2> QED
    BY <2>1 DEF OnRecord
<1>4. /\ drain'[d] = NoDrain /\ drain' = [x \in Drains |-> drain'[x]]
      /\ \A x \in Drains \ {d} : drain'[x] = drain[x]
  BY <1>1 DEF MailInv, MailTypeOK
<1>5. OfDrain(d)'
  BY <1>4, NoDrainStep
<1>6. ASSUME NEW x \in Drains \ {d}
      PROVE  OfDrain(x)'
  <2>1. OfDrain(x) /\ DrainTypeOK(x)
    BY EveryDrain DEF OfDrain
  <2>2. Mine(x)' = Mine(x) /\ DrainTypeOK(x)'
    BY <1>4, <2>1 DEF DrainTypeOK, Mine
  <2>3. \A y \in Drains \ {x} : \A e \in Mine(x) : e \notin Mine(y)'
    <3>1. Mine(d)' = {}
      BY <1>4 DEF NoDrain, Mine
    <3> QED
      BY <1>4, <2>1, <3>1 DEF OfDrain, Mine
  <2>4. \A e \in Emails : OnRecord(x, e) \in Nat /\ OnRecord(x, e)' \in Nat
                          /\ OnRecord(x, e) <= OnRecord(x, e)'
    <3>1. \A e \in Emails : drain[x].hard[e] \in Nat
      BY <2>1 DEF DrainTypeOK
    <3> QED
      BY <1>1, <1>3, <1>4, <3>1 DEF OnRecord
  <2>5. ASSUME NEW e \in Mine(x)
        PROVE  LET u == drain[x].updated[e]
               IN /\ u.db.status = "active" => u.db.id \in clicked
                  /\ Exists(e)' /\ (subscriber'[e].status \in Out => u.db.status \in Out)
                  /\ u.orm.bounce_count <= OnRecord(x, e)'
                  /\ u.db.bounce_count <= OnRecord(x, e)'
    <3>1. e \in Emails /\ e \notin Mine(d)
      BY <2>1 DEF OfDrain, DrainTypeOK
    <3>2. subscriber'[e] = subscriber[e]
      BY <1>1, <3>1
    <3>3. drain[x].updated[e].orm.bounce_count \in Nat /\ drain[x].updated[e].db.bounce_count \in Nat
      BY <2>1 DEF DrainTypeOK, Rows
    <3> QED
      BY <2>1, <2>4, <3>1, <3>2, <3>3 DEF OfDrain, Exists
  <2>6. (drain[x].seen # NoRow =>
            LET r == Head(drain[x].todo)
            IN /\ drain[x].todo # <<>>
               /\ drain[x].seen.bounce_count + Weight(r) <= OnRecord(x, r.email))'
    <3> SUFFICES ASSUME drain[x].seen # NoRow
                 PROVE  LET r == Head(drain'[x].todo)
                        IN /\ drain'[x].todo # <<>>
                           /\ drain'[x].seen.bounce_count + Weight(r)
                              <= hard_bounces'[r.email] + drain'[x].hard[r.email]
      BY <1>4 DEF OnRecord
    <3> PICK r : r = Head(drain[x].todo)
      OBVIOUS
    <3>0. drain[x].todo \in Seq(BounceRecord)
      BY <2>1 DEF DrainTypeOK
    <3>1. drain[x].todo # <<>> /\ drain[x].seen.bounce_count + Weight(r) <= OnRecord(x, r.email)
      BY <2>1 DEF OfDrain
    <3>2. r.email \in Emails
      <4>1. r \in BounceRecord
        BY <3>0, <3>1
      <4> QED
        BY <4>1 DEF BounceRecord
    <3>3. drain[x].seen.bounce_count + Weight(r) \in Nat
      BY <2>1 DEF DrainTypeOK, Rows, Weight
    <3>4. OnRecord(x, r.email) <= hard_bounces'[r.email] + drain'[x].hard[r.email]
          /\ OnRecord(x, r.email) \in Nat
          /\ hard_bounces'[r.email] + drain'[x].hard[r.email] \in Nat
      BY <2>4, <3>2 DEF OnRecord
    <3>5. drain[x].seen.bounce_count + Weight(r) <= hard_bounces'[r.email] + drain'[x].hard[r.email]
      BY <3>1, <3>3, <3>4
    <3> QED
      BY <1>4, <3>1, <3>5
  <2> QED
    BY <1>1, <1>4, <2>2, <2>3, <2>5, <2>6 DEF OfDrain
<1>7. \A x \in Drains : OfDrain(x)'
  BY <1>5, <1>6
<1>8. \A e \in Emails : \/ e \in Mine(d) /\ subscriber'[e] = drain[d].updated[e].db
                        \/ e \notin Mine(d) /\ subscriber'[e] = subscriber[e]
  BY <1>1
<1>9. MailTypeOK'
  <2>1. \A e \in Emails : subscriber'[e] \in Rows \cup {NoRow}
    BY <1>2, <1>8 DEF DrainTypeOK, MailInv, MailTypeOK
  <2>2. hard_bounces' \in [Emails -> Nat]
    BY <1>1, <1>3
  <2> QED
    BY <1>1, <1>4, <1>7, <2>1, <2>2 DEF MailInv, MailTypeOK, OfDrain
<1>10. ActiveIsClicked'
  <2>1. \A e \in Emails : Exists(e)' /\ subscriber'[e].status = "active"
                          => subscriber'[e].id \in clicked
    BY <1>2, <1>8 DEF OfDrain, MailInv, ActiveIsClicked, Exists
  <2> QED
    BY <1>1, <1>7, <2>1 DEF MailInv, ActiveIsClicked, OfDrain
<1>11. LocksHold'
  BY <1>7 DEF LocksHold, OfDrain
<1>12. ChargesAreOnRecord'
  <2>1. ASSUME NEW e \in Emails, Exists(e)'
        PROVE  subscriber'[e].bounce_count <= hard_bounces'[e]
    <3>1. CASE e \in Mine(d)
      BY <1>1, <1>2, <1>8, <3>1 DEF OfDrain
    <3>2. CASE e \notin Mine(d)
      <4>1. subscriber'[e] = subscriber[e] /\ subscriber[e] # NoRow
        BY <1>8, <2>1, <3>2 DEF Exists
      <4>2. subscriber[e].bounce_count \in Nat
        BY <4>1 DEF MailInv, MailTypeOK, Rows
      <4>3. subscriber[e].bounce_count <= hard_bounces[e]
        BY <4>1 DEF MailInv, ChargesAreOnRecord, ChargedBouncesAreOnRecord, Exists
      <4> QED
        BY <1>1, <1>3, <4>1, <4>2, <4>3
    <3> QED
      BY <3>1, <3>2
  <2> QED
    BY <1>7, <2>1 DEF ChargesAreOnRecord, ChargedBouncesAreOnRecord, OfDrain
<1> QED
  BY <1>9, <1>10, <1>11, <1>12 DEF MailInv

-----------------------------------------------------------------------------
(* The theorems of Subscribers.                                          *)

LEMMA MailInitially == SubscribersInit => MailInv
<1> SUFFICES ASSUME SubscribersInit PROVE MailInv
  OBVIOUS
<1> USE DEF SubscribersInit
<1>1. \A d \in Drains : /\ drain[d].todo = <<>> /\ drain[d].seen = NoRow /\ drain[d].updated = <<>>
                        /\ drain[d].hard = [e \in Emails |-> 0]
                        /\ drain[d] = [todo |-> drain[d].todo, seen |-> drain[d].seen,
                                       updated |-> drain[d].updated, hard |-> drain[d].hard]
  BY DEF NoDrain
<1>2. \A d \in Drains : Mine(d) = {}
  BY <1>1 DEF Mine
<1>3. \A d \in Drains : DrainTypeOK(d)
  <2> SUFFICES ASSUME NEW d \in Drains PROVE DrainTypeOK(d)
    OBVIOUS
  <2>1. <<>> \in Seq(BounceRecord) /\ [e \in Emails |-> 0] \in [Emails -> Nat]
    OBVIOUS
  <2>2. drain[d].todo \in Seq(BounceRecord) /\ drain[d].hard \in [Emails -> Nat]
    BY <1>1, <2>1, Zenon
  <2> QED
    BY <1>1, <1>2, <2>2, Zenon DEF DrainTypeOK
<1>4. MailTypeOK
  BY <1>3 DEF MailTypeOK
<1>5. ActiveIsClicked /\ LocksHold
  BY <1>2 DEF ActiveIsClicked, LocksHold, Exists, Idle
<1>6. ChargesAreOnRecord
  BY <1>1, <1>2 DEF ChargesAreOnRecord, ChargedBouncesAreOnRecord, Exists
<1> QED
  BY <1>4, <1>5, <1>6 DEF MailInv

LEMMA MailInductive ==
    ASSUME MailInv, [SubscribersNext]_subscribers_vars
    PROVE  MailInv'
<1>1. CASE UNCHANGED subscribers_vars
  <2> USE <1>1 DEF subscribers_vars
  <2>1. MailTypeOK'
    BY DEF MailInv, MailTypeOK, DrainTypeOK, Mine
  <2>2. ActiveIsClicked' /\ LocksHold'
    BY DEF MailInv, ActiveIsClicked, LocksHold, Mine, Exists
  <2>3. ChargesAreOnRecord'
    BY DEF MailInv, ChargesAreOnRecord, ChargedBouncesAreOnRecord, Mine, Exists, OnRecord
  <2> QED
    BY <2>1, <2>2, <2>3 DEF MailInv
<1>2. ASSUME NEW r \in Requests, Web(r)
      PROVE  MailInv'
  BY <1>2, WebEffect, WebFrame, ChangesKeep
<1>3. ASSUME NEW e \in Emails, delete_for_gdpr(e)
      PROVE  MailInv'
  <2>1. \A a \in Emails : subscriber'[a] = subscriber[a] \/ Changed(a)
    BY <1>3, ErasureEffect
  <2>2. /\ UNCHANGED <<hard_bounces, drain, issued, request, clicked>>
        /\ subscriber' = [a \in Emails |-> subscriber'[a]]
    BY <1>3 DEF delete_for_gdpr, web_frame, MailInv, MailTypeOK
  <2> QED
    BY <2>1, <2>2, ChangesKeep DEF MailInv, MailTypeOK, ActiveIsClicked
<1>4. ASSUME NEW es \in SUBSET Emails, add_suppression(es)
      PROVE  MailInv'
  BY <1>4, ChangesKeep DEF add_suppression, MailInv, MailTypeOK, ActiveIsClicked
<1>5. ASSUME NEW d \in Drains, DrainStart(d) \/ DrainSelect(d) \/ DrainFlush(d) \/ DrainFails(d)
      PROVE  MailInv'
  <2>1. OfDrain(d)'
    <3>1. CASE DrainFails(d)
      BY <3>1, NoDrainStep DEF DrainFails, MailInv, MailTypeOK
    <3> QED
      BY <1>5, <3>1, DrainStartStep, DrainSelectStep, DrainFlushStep
  <2>2. UNCHANGED <<subscriber, hard_bounces, suppressed, issued, request, clicked>>
    BY <1>5 DEF DrainStart, DrainSelect, DrainFlush, DrainFails, drain_frame
  <2>3. \E one : drain' = [drain EXCEPT ![d] = one]
    <3>1. drain' = [x \in Drains |-> IF x = d THEN drain'[d] ELSE drain[x]]
      BY <1>5 DEF DrainStart, DrainSelect, DrainFlush, DrainFails, MailInv, MailTypeOK
    <3>2. drain' = [drain EXCEPT ![d] = drain'[d]]
      BY <3>1 DEF MailInv, MailTypeOK
    <3> QED
      BY <3>2
  <2> QED
    BY <2>1, <2>2, <2>3, DrainKeeps
<1>6. ASSUME NEW d \in Drains, DrainCommit(d)
      PROVE  MailInv'
  BY <1>6, DrainCommitStep
<1> QED
  BY <1>1, <1>2, <1>3, <1>4, <1>5, <1>6 DEF SubscribersNext, Web

\* In every reachable state what requests and drains have read of a row is still
\* enough to act on it.
THEOREM MailIsConsistent == SubscribersSpec => []MailInv
BY MailInitially, MailInductive, PTL DEF SubscribersSpec

\* Double opt-in: whoever an edition would be sent to followed a link that was
\* issued for the row that is on the table (fetch_db_targets, confirm_opt_in).
THEOREM OnlyOptedInRecipients == SubscribersSpec => []RecipientsOptedIn
<1>1. MailInv => RecipientsOptedIn
  BY DEF MailInv, ActiveIsClicked, RecipientsOptedIn, fetch_db_targets, filter_subscribers,
     active_for_cadence
<1> QED
  BY <1>1, MailIsConsistent, PTL

\* The bounce_count of a row never exceeds the hard bounces on record, whatever
\* drains failed or overlapped (record_bounce, drain_bounces).
THEOREM ChargesAreBacked == SubscribersSpec => []ChargedBouncesAreOnRecord
<1>1. MailInv => ChargedBouncesAreOnRecord
  BY DEF MailInv, ChargesAreOnRecord
<1> QED
  BY <1>1, MailIsConsistent, PTL

\* Nobody who has left or bounced is brought back, save by an opt-in that read
\* the row before: other writers meet a locked row, and a drain only takes out.
THEOREM LeavingIsForGood == SubscribersSpec => OutForGood
<1> DEFINE Stays(e) == /\ Exists(e) /\ subscriber[e].status \in Out
                       /\ Exists(e)' /\ ~OptInInFlight(e)
                       => subscriber'[e].status \in Out
<1>1. ASSUME MailInv, SubscribersNext, NEW e \in Emails
      PROVE  Stays(e)
  <2> SUFFICES ASSUME Exists(e), subscriber[e].status \in Out, Exists(e)', ~OptInInFlight(e)
               PROVE  subscriber'[e].status \in Out
    OBVIOUS
  <2>1. subscriber[e] \in Rows
    BY <1>1 DEF MailInv, MailTypeOK, Exists
  <2>2. CASE subscriber' = subscriber
    BY <2>2
  <2>3. ASSUME NEW r \in Requests, insert_pending(r)
        PROVE  subscriber'[e].status \in Out
    <3> DEFINE q == request[r]
    <3>1. CASE insert_new(r, q)
      BY <1>1, <3>1 DEF insert_new, MailInv, MailTypeOK
    <3>2. CASE reissue(r, q)
      BY <1>1, <2>1, <3>2 DEF reissue, MailInv, MailTypeOK, Rows
    <3> QED
      BY <2>2, <2>3, <3>1, <3>2 DEF insert_pending, insert_nothing
  <2>4. ASSUME NEW r \in Requests, confirm_opt_in(r)
        PROVE  subscriber'[e].status \in Out
    <3>1. CASE request[r].seen.status = "pending_opt_in" /\ request[r].email = e
      BY <2>4, <3>1 DEF confirm_opt_in, OptInInFlight
    <3> QED
      BY <1>1, <2>4, <3>1 DEF confirm_opt_in, SetStatus, MailInv, MailTypeOK
  <2>5. ASSUME NEW r \in Requests, confirm_unsubscribe(r)
        PROVE  subscriber'[e].status \in Out
    BY <1>1, <2>1, <2>5 DEF confirm_unsubscribe, SetStatus, MailInv, MailTypeOK, Rows, Out
  <2>6. ASSUME NEW a \in Emails, delete_for_gdpr(a)
        PROVE  subscriber'[e].status \in Out
    BY <1>1, <2>6 DEF delete_for_gdpr, Exists, MailInv, MailTypeOK
  <2>7. ASSUME NEW d \in Drains, DrainCommit(d)
        PROVE  subscriber'[e].status \in Out
    BY <1>1, <2>7 DEF DrainCommit, MailInv, LocksHold, Mine
  <2>8. ASSUME NEW r \in Requests, subscribe(r) \/ opt_in(r) \/ unsubscribe(r)
        PROVE  subscriber' = subscriber
    BY <2>8 DEF subscribe, opt_in, unsubscribe
  <2>9. ASSUME NEW d \in Drains, DrainStart(d) \/ DrainSelect(d) \/ DrainFlush(d) \/ DrainFails(d)
        PROVE  subscriber' = subscriber
    BY <2>9 DEF DrainStart, DrainSelect, DrainFlush, DrainFails
  <2>10. ASSUME NEW es \in SUBSET Emails, add_suppression(es)
         PROVE  subscriber' = subscriber
    BY <2>10 DEF add_suppression
  <2> QED
    BY <1>1, <2>2, <2>3, <2>4, <2>5, <2>6, <2>7, <2>8, <2>9, <2>10 DEF SubscribersNext
<1>2. MailInv /\ [SubscribersNext]_subscribers_vars
      => [\A e \in Emails :
            /\ Exists(e) /\ subscriber[e].status \in {"unsubscribed", "bounced"}
            /\ Exists(e)' /\ ~OptInInFlight(e)
            => subscriber'[e].status \in {"unsubscribed", "bounced"}]_subscribers_vars
  BY <1>1 DEF Out
<1> QED
  BY <1>2, MailIsConsistent, PTL DEF SubscribersSpec, OutForGood

-----------------------------------------------------------------------------
(* Delivery.                                                             *)

(***************************************************************************)
(* The inductive invariant: a report in hand is of mails that left and   *)
(* that the ledger does not count yet.                                   *)
(***************************************************************************)
LedgerTypeOK ==
    /\ ledger \in [Addresses -> Nat] /\ relayed \in [Addresses -> Nat]
    /\ \/ delivery = NoDelivery
       \/ delivery \in [pc : {"send"}, rows : SUBSET Addresses, ledger_writer : BOOLEAN]
       \/ delivery \in [pc : {"record"}, sent : SUBSET Addresses]

LedgerInv ==
    /\ LedgerTypeOK
    /\ LedgerIsOfMailsSent
    /\ delivery.pc = "record" => \A a \in delivery.sent : ledger[a] < relayed[a]

\* Nothing but a mail that left makes a row 'sent': a dry run, a refusal, an
\* exit with an error or a lost report never does (deliver_via_himalaya).
THEOREM LedgerIsHonest == DeliverySpec => []LedgerIsOfMailsSent
<1>1. DeliveryInit => LedgerInv
  BY DEF DeliveryInit, LedgerInv, LedgerTypeOK, LedgerIsOfMailsSent, NoDelivery
<1>2. ASSUME LedgerInv, [DeliveryNext]_delivery_vars
      PROVE  LedgerInv'
  <2> USE DEF LedgerInv, LedgerTypeOK, LedgerIsOfMailsSent
  <2>0. NoDelivery.pc = "idle"
    BY DEF NoDelivery
  <2>1. CASE UNCHANGED delivery_vars
    BY <1>2, <2>1 DEF delivery_vars
  <2>2. CASE deliver_via_himalaya
    <3>1. PICK those \in SUBSET Addresses, already_sent \in {{}, Sent}, writer \in BOOLEAN :
              delivery' = [pc |-> "send", rows |-> those \ already_sent, ledger_writer |-> writer]
      BY <2>2 DEF deliver_via_himalaya
    <3>2. those \ already_sent \in SUBSET Addresses
      OBVIOUS
    <3> QED
      BY <1>2, <2>2, <3>1, <3>2 DEF deliver_via_himalaya
  <2>3. ASSUME NEW left \in SUBSET Addresses, NEW dry_run \in BOOLEAN, Relay(left, dry_run)
        PROVE  /\ relayed' \in [Addresses -> Nat]
               /\ \A a \in Addresses : relayed[a] <= relayed'[a]
               /\ ~dry_run => \A a \in left : relayed[a] < relayed'[a]
    BY <1>2, <2>3 DEF Relay, Add
  <2>4. CASE BatchSent
    <3>1. PICK left \in SUBSET delivery.rows, dry_run \in BOOLEAN :
              /\ Relay(left, dry_run)
              /\ delivery' = IF delivery.ledger_writer
                             THEN [pc |-> "record", sent |-> IF dry_run THEN {} ELSE left]
                             ELSE NoDelivery
      BY <2>4 DEF BatchSent
    <3>2. left \in SUBSET Addresses /\ ledger' = ledger
      BY <1>2, <2>4, <2>0 DEF BatchSent
    <3>3. /\ relayed' \in [Addresses -> Nat]
          /\ \A a \in Addresses : relayed[a] <= relayed'[a]
          /\ ~dry_run => \A a \in left : relayed[a] < relayed'[a]
      BY <2>3, <3>1, <3>2
    <3>4. LedgerTypeOK' /\ LedgerIsOfMailsSent'
      BY <1>2, <3>1, <3>2, <3>3
    <3>5. delivery'.pc = "record" => \A a \in delivery'.sent : ledger'[a] < relayed'[a]
      BY <1>2, <2>0, <3>1, <3>2, <3>3
    <3> QED
      BY <3>4, <3>5
  <2>5. CASE BatchFailed
    <3>1. PICK left \in SUBSET delivery.rows : Relay(left, FALSE)
      BY <2>5 DEF BatchFailed
    <3>2. left \in SUBSET Addresses /\ ledger' = ledger /\ delivery' = NoDelivery
      BY <1>2, <2>5, <2>0 DEF BatchFailed
    <3>3. relayed' \in [Addresses -> Nat] /\ \A a \in Addresses : relayed[a] <= relayed'[a]
      BY <2>3, <3>1, <3>2
    <3> QED
      BY <1>2, <2>0, <3>2, <3>3
  <2>6. CASE write_delivery_ledger
    BY <1>2, <2>6, <2>0 DEF write_delivery_ledger, Add
  <2>7. CASE DeliveryLost
    BY <1>2, <2>7, <2>0 DEF DeliveryLost
  <2> QED
    BY <1>2, <2>1, <2>2, <2>4, <2>5, <2>6, <2>7 DEF DeliveryNext
<1>3. LedgerInv => LedgerIsOfMailsSent
  BY DEF LedgerInv
<1> QED
  BY <1>1, <1>2, <1>3, PTL DEF DeliverySpec

-----------------------------------------------------------------------------
(***************************************************************************)
(* The inductive invariant.  AtomicStore says what a commit makes        *)
(* visible; the invariant says, of every transaction in flight, that this *)
(* is what its commit would do: its rows are in no other transaction and *)
(* not in the database, and they are the chain's first hops, with the    *)
(* next ones still to insert.                                            *)
(***************************************************************************)
Hop(k, i) == chain_of[wallet[k]][i]

\* After m rounds of insert_many.
InsertedSoFar(k, m) ==
    /\ Len(todo[k]) <= Len(chain_of[wallet[k]]) - m
    /\ wrote[k] = {Hop(k, i) : i \in 1 .. m}
    /\ \A i \in 1 .. Len(todo[k]) : todo[k][i] = Hop(k, m + i)

RowsAreHops == \A k \in Workers :
    pc[k] \in {"insert", "commit"} /\ ~deactive[k] =>
        \E m \in 0 .. Len(chain_of[wallet[k]]) : InsertedSoFar(k, m)

RowsAreNew == \A k \in Workers : wrote[k] \cap transfers = {}

RowsAreHeldOnce == \A j, k \in Workers : j # k => wrote[j] \cap wrote[k] = {}

\* A call that does not insert or commit has inserted nothing; only insert_many
\* has something to insert.
RowsAreInserted == \A k \in Workers :
    /\ pc[k] \notin {"insert", "commit"} => wrote[k] = {} /\ ~deactive[k]
    /\ pc[k] = "insert" <=> todo[k] # <<>>

IInv == TypeOK /\ RowsAreHops /\ RowsAreNew /\ RowsAreHeldOnce /\ RowsAreInserted

-----------------------------------------------------------------------------
(* Types.                                                                *)

USE DEF Goto, Rollback

\* Every step of a worker keeps the types: a transfer is inserted only while
\* one is left to insert.
LEMMA TypeStep ==
    ASSUME TypeOK, RowsAreInserted, [Next]_vars
    PROVE  TypeOK'
<1> USE WalletStoreAssumption DEF TypeOK
<1>1. CASE UNCHANGED vars
  BY <1>1 DEF vars, rows, call, session
<1> SUFFICES ASSUME NEW k \in Workers, Begin(k) \/ Step(k) \/ Aborted(k)
             PROVE  TypeOK'
  BY <1>1 DEF Next
<1>2. CASE Begin(k)
  BY <1>2 DEF Begin, rows, session
<1>3. CASE upsert(k)
  BY <1>3 DEF upsert, rows
<1>4. CASE trace(k)
  <2>1. PICK n \in 0 .. Len(chain_of[wallet[k]]) :
            /\ todo' = [todo EXCEPT ![k] = SubSeq(chain_of[wallet[k]], 1, n)]
            /\ Goto(k, IF n = 0 THEN "commit" ELSE "insert")
    BY <1>4 DEF trace
  <2>2. SubSeq(chain_of[wallet[k]], 1, n) \in Seq(Transfers)
    OBVIOUS
  <2> QED
    BY <1>4, <2>1, <2>2 DEF trace, rows, session
<1>5. CASE insert_many(k)
  <2>1. todo[k] # <<>> /\ Tail(todo[k]) \in Seq(Transfers)
    BY <1>5 DEF insert_many, RowsAreInserted
  <2>2. todo' \in [Workers -> Seq(Transfers)]
    BY <1>5, <2>1 DEF insert_many
  <2>3. Head(todo[k]) \in Transfers
    BY <2>1
  <2>4. wrote' \in [Workers -> SUBSET Transfers]
    <3>1. wrote' = wrote \/ \E rest \in SUBSET Transfers : wrote' = [wrote EXCEPT ![k] = rest]
      BY <1>5, <2>3 DEF insert_many, Inserted, Collides, Ignored, session
    <3> QED
      BY <3>1
  <2>5. upserted' \in [Workers -> BOOLEAN] /\ deactive' \in [Workers -> BOOLEAN]
    BY <1>5 DEF insert_many, Inserted, Collides, Ignored, session
  <2>6. pc' \in [Workers -> {"idle", "upsert", "trace", "insert", "commit"}]
    BY <1>5 DEF insert_many
  <2> QED
    BY <1>5, <2>2, <2>4, <2>5, <2>6 DEF insert_many, rows
<1>6. CASE Closed(k) /\ transfers' \subseteq Transfers /\ profile' \in [Wallets -> Profiles \cup {NoProfile}]
  BY <1>6 DEF Closed
<1>7. CASE Commit(k)
  BY <1>6, <1>7 DEF Commit
<1>8. CASE CommitRaises(k) \/ DeadlockVictim(k) \/ Aborted(k)
  BY <1>6, <1>8 DEF CommitRaises, DeadlockVictim, Aborted, rows
<1> QED
  BY <1>2, <1>3, <1>4, <1>5, <1>7, <1>8 DEF Step

-----------------------------------------------------------------------------
(* Steps.                                                                *)

Acts(k) == Begin(k) \/ Step(k) \/ Aborted(k)

Untouched(j) ==
    /\ pc'[j] = pc[j] /\ wallet'[j] = wallet[j] /\ todo'[j] = todo[j]
    /\ wrote'[j] = wrote[j] /\ deactive'[j] = deactive[j]

\* A worker's step leaves the calls and the sessions of the others alone.
LEMMA StepsAreLocal ==
    ASSUME TypeOK, NEW k \in Workers, Acts(k), NEW j \in Workers \ {k}
    PROVE  Untouched(j)
<1> USE DEF TypeOK, Untouched
<1>1. CASE Begin(k)
  BY <1>1 DEF Begin, session
<1>2. CASE upsert(k)
  BY <1>2 DEF upsert
<1>3. CASE trace(k)
  BY <1>3 DEF trace, session
<1>4. CASE insert_many(k)
  <2>1. wrote'[j] = wrote[j] /\ deactive'[j] = deactive[j]
    BY <1>4 DEF insert_many, Inserted, Collides, Ignored, session
  <2> QED
    BY <1>4, <2>1 DEF insert_many
<1>5. CASE Closed(k)
  BY <1>5 DEF Closed
<1> QED
  BY <1>1, <1>2, <1>3, <1>4, <1>5 DEF Acts, Step, Commit, CommitRaises, DeadlockVictim, Aborted

\* What the invariant says of one worker.
OfWorker(k) ==
    /\ pc[k] \in {"insert", "commit"} /\ ~deactive[k] =>
        \E m \in 0 .. Len(chain_of[wallet[k]]) : InsertedSoFar(k, m)
    /\ wrote[k] \cap transfers = {}
    /\ \A j \in Workers \ {k} : wrote[j] \cap wrote[k] = {}
    /\ pc[k] \notin {"insert", "commit"} => wrote[k] = {} /\ ~deactive[k]
    /\ pc[k] = "insert" <=> todo[k] # <<>>

\* A closed session holds no rows.
LEMMA ClosedWorker ==
    ASSUME TypeOK, NEW k \in Workers, Closed(k)
    PROVE  OfWorker(k)'
<1>1. pc'[k] = "idle" /\ wrote'[k] = {} /\ ~deactive'[k] /\ todo'[k] = <<>>
  BY DEF TypeOK, Closed
<1> QED
  BY <1>1 DEF OfWorker

\* trace() leaves a prefix of the chain to insert.
LEMMA TracedWorker ==
    ASSUME TypeOK, NEW k \in Workers, OfWorker(k), trace(k), TypeOK'
    PROVE  OfWorker(k)'
<1> DEFINE chain == chain_of[wallet[k]]
<1>1. PICK n \in 0 .. Len(chain) :
          /\ todo' = [todo EXCEPT ![k] = SubSeq(chain, 1, n)]
          /\ Goto(k, IF n = 0 THEN "commit" ELSE "insert")
  BY DEF trace
<1>2. chain \in Seq(Transfers)
  BY WalletStoreAssumption DEF TypeOK
<1>3. /\ todo'[k] = SubSeq(chain, 1, n) /\ Len(todo'[k]) = n
      /\ \A i \in 1 .. n : todo'[k][i] = chain[i]
  BY <1>1, <1>2 DEF TypeOK
<1>4. wrote'[k] = {} /\ wallet'[k] = wallet[k] /\ ~deactive'[k] /\ UNCHANGED <<wrote, transfers>>
  BY DEF trace, session, rows, OfWorker
<1>5. todo'[k] = <<>> <=> n = 0
  BY <1>3
<1>6. InsertedSoFar(k, 0)'
  BY <1>2, <1>3, <1>4 DEF InsertedSoFar, Hop
<1>7. pc'[k] = IF n = 0 THEN "commit" ELSE "insert"
  BY <1>1 DEF TypeOK
<1>8. 0 \in 0 .. Len(chain_of[wallet'[k]])
  BY <1>2, <1>4
<1> QED
  BY <1>4, <1>5, <1>6, <1>7, <1>8 DEF OfWorker

\* A round of insert_many adds the next hop to the rows of the transaction, or
\* loses them all.
LEMMA InsertingWorker ==
    ASSUME IInv, NEW k \in Workers, OfWorker(k), insert_many(k)
    PROVE  OfWorker(k)'
<1> DEFINE chain == chain_of[wallet[k]]
           hop == Head(todo[k])
<1>1. /\ todo[k] \in Seq(Transfers) /\ todo[k] # <<>>
      /\ chain \in Seq(Transfers)
  BY WalletStoreAssumption DEF IInv, TypeOK, OfWorker, insert_many
<1>2. /\ Len(todo'[k]) = Len(todo[k]) - 1 /\ todo'[k] \in Seq(Transfers)
      /\ \A i \in 1 .. Len(todo'[k]) : todo'[k][i] = todo[k][i + 1]
      /\ hop = todo[k][1]
  BY <1>1 DEF insert_many, IInv, TypeOK
<1>3. /\ pc'[k] = IF todo'[k] = <<>> THEN "commit" ELSE "insert"
      /\ wallet'[k] = wallet[k] /\ transfers' = transfers
  <2>1. Len(todo[k]) = 1 <=> todo'[k] = <<>>
    <3>1. \A seq \in Seq(Transfers) : seq = <<>> <=> Len(seq) = 0
      OBVIOUS
    <3>2. Len(todo[k]) \in Nat
      BY <1>1
    <3> QED
      <4>1. Len(todo'[k]) = 0 <=> Len(todo[k]) = 1
        BY <1>2, <3>2
      <4>2. todo'[k] \in Seq(Transfers)
        BY <1>2
      <4> QED
        BY <3>1, <4>1, <4>2, Zenon
  <2> QED
    BY <2>1 DEF insert_many, IInv, TypeOK, rows
<1>4. CASE Inserted(k, hop)
  <2>1. PICK m \in 0 .. Len(chain) : InsertedSoFar(k, m)
    BY <1>4 DEF OfWorker, insert_many, Inserted
  <2>2. /\ wrote'[k] = wrote[k] \cup {hop} /\ ~deactive'[k]
        /\ \A j \in Workers \ {k} : wrote'[j] = wrote[j]
        /\ hop \notin transfers /\ \A j \in Workers \ {k} : hop \notin wrote[j]
    BY <1>4 DEF Inserted, Taken, KeyHolders, IInv, TypeOK
  <2>3. hop = chain[m + 1] /\ m + 1 \in 0 .. Len(chain)
    BY <1>1, <1>2, <2>1 DEF InsertedSoFar, Hop
  <2>4. wrote'[k] = {chain[i] : i \in 1 .. m + 1}
    <3>1. wrote[k] = {chain[i] : i \in 1 .. m}
      BY <2>1 DEF InsertedSoFar, Hop
    <3>2. 1 .. m + 1 = 1 .. m \cup {m + 1}
      OBVIOUS
    <3> QED
      BY <2>2, <2>3, <3>1, <3>2
  <2>5. InsertedSoFar(k, m + 1)'
    <3>1. Len(todo'[k]) <= Len(chain) - (m + 1)
      BY <1>1, <1>2, <2>1 DEF InsertedSoFar
    <3>2. \A i \in 1 .. Len(todo'[k]) : todo'[k][i] = chain[m + 1 + i]
      <4> SUFFICES ASSUME NEW i \in 1 .. Len(todo'[k])
                   PROVE  todo'[k][i] = chain[m + 1 + i]
        OBVIOUS
      <4>1. i + 1 \in 1 .. Len(todo[k]) /\ m + (i + 1) = m + 1 + i
        BY <1>1, <1>2
      <4>2. todo[k][i + 1] = chain[m + (i + 1)]
        BY <2>1, <4>1 DEF InsertedSoFar, Hop
      <4> QED
        BY <1>2, <4>1, <4>2
    <3> QED
      BY <1>3, <2>4, <3>1, <3>2 DEF InsertedSoFar, Hop
  <2> QED
    BY <1>3, <2>2, <2>3, <2>5 DEF OfWorker
<1>5. CASE Collides(k, hop)
  <2>1. wrote'[k] = {} /\ deactive'[k]
    BY <1>5 DEF Collides, IInv, TypeOK
  <2> QED
    BY <1>3, <2>1 DEF OfWorker
<1>6. CASE Ignored(k)
  BY <1>3, <1>6 DEF OfWorker, Ignored, session
<1> QED
  BY <1>4, <1>5, <1>6 DEF insert_many

\* IInv is inductive: what holds of the worker that acts, StepsAreLocal gives of
\* the others; a commit adds rows to the database that no other worker holds.
LEMMA Inductive ==
    ASSUME IInv, [Next]_vars
    PROVE  IInv'
<1>1. CASE UNCHANGED vars
  <2> USE <1>1 DEF vars, rows, call, session
  <2>1. TypeOK' /\ RowsAreNew' /\ RowsAreHeldOnce' /\ RowsAreInserted'
    BY DEF IInv, TypeOK, RowsAreNew, RowsAreHeldOnce, RowsAreInserted
  <2>2. \A k \in Workers, m \in Int : InsertedSoFar(k, m) => InsertedSoFar(k, m)'
    BY DEF InsertedSoFar, Hop
  <2>3. RowsAreHops'
    BY <2>2 DEF IInv, RowsAreHops
  <2> QED
    BY <2>1, <2>3 DEF IInv
<1> SUFFICES ASSUME NEW k \in Workers, Acts(k)
             PROVE  IInv'
  BY <1>1 DEF Next, Acts
<1>2. TypeOK'
  BY TypeStep DEF IInv
<1>3. OfWorker(k)
  BY DEF IInv, OfWorker, RowsAreHops, RowsAreNew, RowsAreHeldOnce, RowsAreInserted
<1>4. \A j \in Workers \ {k} : Untouched(j)
  BY StepsAreLocal DEF IInv
<1>5. OfWorker(k)'
  <2>1. CASE Begin(k) \/ upsert(k)
    BY <1>2, <1>3, <2>1 DEF Begin, upsert, OfWorker, rows, session, IInv, TypeOK
  <2>2. CASE trace(k)
    BY <1>2, <1>3, <2>2, TracedWorker DEF IInv
  <2>3. CASE insert_many(k)
    BY <1>3, <2>3, InsertingWorker
  <2>4. CASE Closed(k)
    BY <2>4, ClosedWorker DEF IInv
  <2> QED
    BY <2>1, <2>2, <2>3, <2>4 DEF Acts, Step, Commit, CommitRaises, DeadlockVictim, Aborted
<1>6. transfers' \subseteq transfers \cup wrote[k]
  BY DEF Acts, Step, Begin, upsert, trace, insert_many, Commit, CommitRaises, DeadlockVictim,
     Aborted, rows
<1>7. RowsAreHops'
  <2>1. ASSUME NEW j \in Workers \ {k}, NEW m \in Int, InsertedSoFar(j, m)
        PROVE  InsertedSoFar(j, m)'
    <3>1. wallet'[j] = wallet[j] /\ todo'[j] = todo[j] /\ wrote'[j] = wrote[j]
      BY <1>4 DEF Untouched
    <3> QED
      BY <2>1, <3>1 DEF InsertedSoFar, Hop
  <2>2. ASSUME NEW j \in Workers \ {k}, pc'[j] \in {"insert", "commit"}, ~deactive'[j]
        PROVE  \E m \in 0 .. Len(chain_of[wallet'[j]]) : InsertedSoFar(j, m)'
    <3>1. PICK m \in 0 .. Len(chain_of[wallet[j]]) : InsertedSoFar(j, m)
      BY <1>4, <2>2 DEF IInv, RowsAreHops, Untouched
    <3> QED
      BY <1>4, <2>1, <3>1 DEF Untouched
  <2> QED
    BY <1>5, <2>2 DEF RowsAreHops, OfWorker
<1>8. RowsAreNew'
  BY <1>4, <1>5, <1>6 DEF IInv, RowsAreNew, RowsAreHeldOnce, OfWorker, Untouched
<1>9. RowsAreHeldOnce'
  BY <1>4, <1>5 DEF IInv, RowsAreHeldOnce, OfWorker, Untouched
<1>10. RowsAreInserted'
  BY <1>4, <1>5 DEF IInv, RowsAreInserted, OfWorker, Untouched
<1> QED
  BY <1>2, <1>7, <1>8, <1>9, <1>10 DEF IInv

LEMMA Initially == Init => IInv
<1> SUFFICES ASSUME Init PROVE IInv
  OBVIOUS
<1>1. TypeOK
  BY DEF Init, TypeOK
<1> QED
  BY <1>1 DEF Init, IInv, RowsAreHops, RowsAreNew, RowsAreHeldOnce, RowsAreInserted

\* In every reachable state the rows of a transaction in flight are its own, new
\* and the first hops of its wallet's chain.
THEOREM TransactionsHoldTheirRows == Spec => []IInv
BY Initially, Inductive, PTL DEF Spec

-----------------------------------------------------------------------------
(* Refinement.                                                           *)

\* Every step of a worker is a commit of one wallet's profile and first hops,
\* or is not seen by the readers of the database.
LEMMA CommitsAtomically ==
    ASSUME IInv, [Next]_vars
    PROVE  [AS!ASNext]_(AS!asvars)
<1>1. CASE UNCHANGED rows
  BY <1>1 DEF rows, AS!asvars
<1>2. ASSUME NEW k \in Workers, Commit(k)
      PROVE  AS!ASNext
  <2>1. wallet[k] \in Wallets /\ dto[k] \in Profiles
    BY DEF IInv, TypeOK
  <2>2. PICK m \in 0 .. Len(chain_of[wallet[k]]) : InsertedSoFar(k, m)
    BY <1>2 DEF IInv, RowsAreHops, Commit
  <2>3. AS!Persist(wallet[k], dto[k], m)
    BY <1>2, <2>2 DEF AS!Persist, Commit, InsertedSoFar, Hop, IInv, RowsAreNew
  <2> QED
    BY <2>1, <2>2, <2>3 DEF AS!ASNext
<1> QED
  BY <1>1, <1>2 DEF Next, Step, Begin, upsert, trace, insert_many, CommitRaises, DeadlockVictim,
     Aborted, rows, vars

\* Whatever pipelines, duplicates, deadlocks and crashes do to each other, readers
\* see a wallet's profile and its first hops appear together, once.
THEOREM RefinesAtomicStore == Spec => ImplementsAtomicStore
<1>1. Init => AS!ASInit
  BY DEF Init, AS!ASInit
<1> QED
  BY <1>1, CommitsAtomically, TransactionsHoldTheirRows, PTL
  DEF Spec, ImplementsAtomicStore, AS!ASSpec

-----------------------------------------------------------------------------
(* The parts together, as MCStorage runs them.                           *)

\* A step of StorageNext is one of a single part, and leaves the others alone.
LEMMA StorageStep ==
    ASSUME [StorageNext]_storage_vars
    PROVE  [Next]_vars /\ [SubscribersNext]_subscribers_vars /\ [DeliveryNext]_delivery_vars
BY DEF StorageNext, storage_vars

\* Rows of wallets, of subscribers and of the ledger are of different tables:
\* whatever is proved of the writers of one holds beside the writers of the others.
THEOREM StorageIsSafe ==
    StorageSpec => /\ ImplementsAtomicStore /\ []RecipientsOptedIn /\ OutForGood
                   /\ []ChargedBouncesAreOnRecord /\ []LedgerIsOfMailsSent
<1>1. StorageInit => Init /\ SubscribersInit /\ DeliveryInit
  BY DEF StorageInit
<1>2. StorageSpec => Spec /\ SubscribersSpec /\ DeliverySpec
  BY <1>1, StorageStep, PTL DEF StorageSpec, Spec, SubscribersSpec, DeliverySpec
<1> QED
  BY <1>2, RefinesAtomicStore, OnlyOptedInRecipients, ChargesAreBacked, LeavingIsForGood,
     LedgerIsHonest, PTL
=============================================================================
