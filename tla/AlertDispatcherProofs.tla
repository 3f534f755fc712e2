----------------------- MODULE AlertDispatcherProofs -----------------------
(***************************************************************************)
(* For any channels, any finite number of concurrent callers and any     *)
(* thresholds: the counters of a breaker agree with its state, and a     *)
(* failing channel is sent at most half_open_max_attempts messages, plus *)
(* one per extra caller, until its circuit closes; what is counted as sent *)
(* was taken by every channel.                                           *)
(***************************************************************************)
EXTENDS AlertDispatcher, FiniteSetTheorems, TLAPS

-----------------------------------------------------------------------------
(* Every step has one of these shapes.                                   *)

\* The types are preserved: counters stay natural numbers, ages stay within
\* recovery_timeout (dispatcher.py:27-37).
LEMMA Typing == Spec => []TypeOK
<1> USE DispatcherAssumption DEF TypeOK, TaskStates, NoFailure
<1>1. Init => TypeOK
  BY DEF Init
<1>2. ASSUME TypeOK, [Next]_vars PROVE TypeOK'
  <2>1. CASE UNCHANGED vars
    BY <1>2, <2>1 DEF vars, breaker
  <2>2. ASSUME NEW d \in Callers, Dispatch(d) PROVE TypeOK'
    BY <1>2, <2>2 DEF Dispatch, breaker
  <2>3. ASSUME NEW d \in Callers, Gathered(d) PROVE TypeOK'
    BY <1>2, <2>3 DEF Gathered, breaker
  <2>4. ASSUME NEW d \in Callers, NEW c \in Channels, Attempt(d, c) PROVE TypeOK'
    BY <1>2, <2>4 DEF Attempt, breaker
  <2>5. ASSUME NEW d \in Callers, NEW c \in Channels, Skip(d, c) PROVE TypeOK'
    BY <1>2, <2>5 DEF Skip, breaker
  <2>6. ASSUME NEW d \in Callers, NEW c \in Channels, SendOk(d, c) PROVE TypeOK'
    BY <1>2, <2>6 DEF SendOk, record_success
  <2>7. ASSUME NEW d \in Callers, NEW c \in Channels, SendFailed(d, c) PROVE TypeOK'
    <3>1. /\ failure_count' \in [Channels -> Nat]
          /\ age' \in [Channels -> {NoFailure} \cup (0 .. recovery_timeout)]
          /\ half_open_attempts' \in [Channels -> Nat]
      BY <1>2, <2>7 DEF SendFailed, record_failure
    <3>2. is_open' \in [Channels -> BOOLEAN]
      <4>1. is_open' = is_open \/ is_open' = [is_open EXCEPT ![c] = TRUE]
        BY <1>2, <2>7 DEF SendFailed, record_failure
      <4> QED
        BY <1>2, <4>1
    <3> QED
      BY <1>2, <2>7, <3>1, <3>2 DEF SendFailed
  <2>8. ASSUME NEW c \in Channels, reset_circuit(c) PROVE TypeOK'
    BY <1>2, <2>8 DEF reset_circuit, record_success
  <2>9. ASSUME NEW c \in Channels, Flip(c) PROVE TypeOK'
    BY <1>2, <2>9 DEF Flip, breaker
  <2>10. CASE Tick
    BY <1>2, <2>10 DEF Tick
  <2> QED
    BY <1>2, <2>1, <2>2, <2>3, <2>4, <2>5, <2>6, <2>7, <2>8, <2>9, <2>10
       DEF Next, Running, SendStep
<1> QED
  BY <1>1, <1>2, PTL DEF Spec

\* The set of sends in flight on a channel is finite and at most every
\* caller has one.
LEMMA SendingBounds ==
    ASSUME TypeOK, NEW c \in Channels
    PROVE  /\ IsFiniteSet(Sending(c))
           /\ Cardinality(Sending(c)) \in Nat
           /\ Cardinality(Callers) \in Nat \ {0}
           /\ Cardinality(Sending(c)) <= Cardinality(Callers)
<1>1. IsFiniteSet(Callers) /\ Callers # {}
  BY DispatcherAssumption
<1>2. Sending(c) \subseteq Callers
  BY DEF Sending
<1> QED
  BY <1>1, <1>2, FS_Subset, FS_CardinalityType, FS_EmptySet

\* A send that ends leaves one send fewer in flight on its channel, and the
\* other channels' sends alone.
LEMMA SendEnds ==
    ASSUME TypeOK, NEW d \in Callers, NEW c \in Channels, NEW s \in TaskStates,
           task[d][c] = "sending", s # "sending",
           task' = [task EXCEPT ![d][c] = s]
    PROVE  /\ Cardinality(Sending(c)') = Cardinality(Sending(c)) - 1
           /\ \A e \in Channels \ {c} : Sending(e)' = Sending(e)
<1>1. Sending(c)' = Sending(c) \ {d} /\ d \in Sending(c)
  BY DEF TypeOK, Sending
<1>2. \A e \in Channels \ {c} : Sending(e)' = Sending(e)
  BY DEF TypeOK, Sending
<1>3. IsFiniteSet(Sending(c))
  BY SendingBounds
<1> QED
  BY <1>1, <1>2, <1>3, FS_RemoveElement

-----------------------------------------------------------------------------

\* The counters of a breaker agree with its state (dispatcher.py:110-133).
LEMMA Consistency == Spec => []BreakerConsistent
<1> USE DispatcherAssumption DEF BreakerConsistent, Consistent, NoFailure
<1>1. Init => BreakerConsistent
  BY DEF Init
<1>2. ASSUME TypeOK, BreakerConsistent, [Next]_vars PROVE BreakerConsistent'
  <2>1. CASE UNCHANGED breaker
    BY <1>2, <2>1 DEF breaker
  <2>2. ASSUME NEW c \in Channels, record_success(c) PROVE BreakerConsistent'
    BY <1>2, <2>2 DEF record_success, TypeOK
  <2>3. ASSUME NEW c \in Channels, record_failure(c) PROVE BreakerConsistent'
    <3> SUFFICES ASSUME NEW e \in Channels PROVE Consistent(e)'
      BY DEF BreakerConsistent
    <3>1. /\ failure_count' = [failure_count EXCEPT ![c] = @ + 1]
          /\ age' = [age EXCEPT ![c] = 0]
      BY <2>3 DEF record_failure
    <3>a. /\ failure_count[c] \in Nat /\ half_open_attempts[c] \in Nat
          /\ failure_threshold \in Nat \ {0}
          /\ Consistent(c)
      BY <1>2 DEF TypeOK
    <3>b. failure_count'[c] = failure_count[c] + 1 /\ age'[c] = 0
      BY <1>2, <3>1 DEF TypeOK
    <3>2. CASE e # c
      <4>1. is_open'[e] = is_open[e] /\ half_open_attempts'[e] = half_open_attempts[e]
        BY <1>2, <2>3, <3>2 DEF record_failure, TypeOK
      <4> QED
        BY <1>2, <3>1, <3>2, <4>1 DEF TypeOK
    <3>3. CASE e = c /\ is_open[c]
      <4>1. is_open'[e] /\ half_open_attempts'[e] = half_open_attempts[e] + 1
        BY <1>2, <2>3, <3>3 DEF record_failure, TypeOK
      <4> QED
        BY <3>a, <3>b, <3>3, <4>1
    <3>4. CASE e = c /\ ~is_open[c] /\ failure_count[c] + 1 >= failure_threshold
      <4>1. is_open'[e] /\ half_open_attempts'[e] = half_open_attempts[e]
        BY <1>2, <2>3, <3>4 DEF record_failure, TypeOK
      <4> QED
        BY <3>a, <3>b, <3>4, <4>1
    <3>5. CASE e = c /\ ~is_open[c] /\ failure_count[c] + 1 < failure_threshold
      <4>1. ~is_open'[e] /\ half_open_attempts'[e] = half_open_attempts[e]
        BY <1>2, <2>3, <3>5 DEF record_failure, TypeOK
      <4> QED
        BY <3>a, <3>b, <3>5, <4>1
    <3> QED
      BY <2>3, <3>2, <3>3, <3>4, <3>5 DEF record_failure
  <2>4. CASE Tick
    BY <1>2, <2>4 DEF Tick, TypeOK
  <2> QED
    BY <1>2, <2>1, <2>2, <2>3, <2>4
       DEF Next, Running, SendStep, Dispatch, Gathered, Attempt, Skip, SendOk,
           SendFailed, reset_circuit, Flip, vars
<1> QED
  BY <1>1, <1>2, Typing, PTL DEF Spec

\* Every probe is in flight or charged, and the limit stops new ones.
LEMMA Charging == Spec => []ProbesCharged
<1> USE DispatcherAssumption
<1>1. Init => ProbesCharged
  BY DEF Init, ProbesCharged, Charged
<1>2. ASSUME TypeOK, BreakerConsistent, ProbesCharged, TypeOK', [Next]_vars
      PROVE  ProbesCharged'
  <2> SUFFICES ASSUME NEW e \in Channels PROVE Charged(e)'
    BY DEF ProbesCharged, Charged
  <2> DEFINE Calm == /\ is_open'[e] = is_open[e]
                     /\ probes'[e] = probes[e]
                     /\ half_open_attempts'[e] = half_open_attempts[e]
  <2>a. /\ Cardinality(Sending(e)) \in Nat
        /\ Cardinality(Callers) \in Nat \ {0}
        /\ Cardinality(Sending(e)) <= Cardinality(Callers)
        /\ IsFiniteSet(Sending(e))
    BY <1>2, SendingBounds
  <2>b. /\ Cardinality(Sending(e)') \in Nat
        /\ Cardinality(Sending(e)') <= Cardinality(Callers)
    <3>1. Sending(e)' \subseteq Callers
      BY DEF Sending
    <3> QED
      BY <3>1, FS_Subset, FS_CardinalityType
  <2>c. /\ half_open_attempts[e] \in Nat /\ probes[e] \in Nat
        /\ is_open[e] \in BOOLEAN
        /\ half_open_max_attempts \in Nat
    BY <1>2 DEF TypeOK
  <2>d. CASE Calm /\ Sending(e)' = Sending(e)
    BY <1>2, <2>d DEF ProbesCharged, Charged
  <2>1. CASE UNCHANGED vars
    BY <2>1, <2>d DEF vars, breaker, Sending
  <2>2. ASSUME NEW d \in Callers, Dispatch(d) PROVE Calm /\ Sending(e)' = Sending(e)
    BY <1>2, <2>2 DEF Dispatch, breaker, Sending, Idle, TypeOK
  <2>3. ASSUME NEW d \in Callers, Gathered(d) PROVE Calm /\ Sending(e)' = Sending(e)
    BY <1>2, <2>3 DEF Gathered, breaker, Sending, TypeOK
  <2>4. ASSUME NEW d \in Callers, NEW c \in Channels, Skip(d, c)
        PROVE  Calm /\ Sending(e)' = Sending(e)
    BY <1>2, <2>4 DEF Skip, breaker, Sending, TypeOK
  <2>5. ASSUME NEW c \in Channels, Flip(c)
        PROVE  Calm /\ Sending(e)' = Sending(e)
    BY <1>2, <2>5 DEF Flip, breaker, Sending
  <2>6. CASE Tick
    BY <2>6, <2>d DEF Tick, Sending
  <2>7. ASSUME NEW d \in Callers, NEW c \in Channels, Attempt(d, c)
        PROVE  Charged(e)'
    <3>1. CASE e # c
      <4>1. Calm /\ Sending(e)' = Sending(e)
        BY <1>2, <2>7, <3>1 DEF Attempt, breaker, Sending, TypeOK
      <4> QED
        BY <4>1, <2>d
    <3>2. CASE e = c
      <4>1. Sending(c)' = Sending(c) \cup {d} /\ d \notin Sending(c)
        BY <1>2, <2>7 DEF Attempt, Sending, TypeOK
      <4>2. Cardinality(Sending(e)') = Cardinality(Sending(e)) + 1
        BY <4>1, <3>2, <2>a, FS_AddElement
      <4>3. /\ is_open'[e] = is_open[e]
            /\ half_open_attempts'[e] = half_open_attempts[e]
            /\ is_open[e] => /\ half_open_attempts[e] < half_open_max_attempts
                             /\ probes'[e] = probes[e] + 1
            /\ ~is_open[e] => probes'[e] = probes[e]
        BY <1>2, <2>7, <3>2
           DEF Attempt, should_attempt, half_open, breaker, TypeOK
      <4> QED
        BY <1>2, <4>2, <4>3, <2>a, <2>b, <2>c DEF ProbesCharged, Charged
    <3> QED
      BY <3>1, <3>2
  <2>8. ASSUME NEW c \in Channels, record_success(c), probes' = [probes EXCEPT ![c] = 0],
               e # c => Sending(e)' = Sending(e)
        PROVE  Charged(e)'
    <3>1. CASE e # c
      <4>1. Calm
        BY <1>2, <2>8, <3>1 DEF record_success, TypeOK
      <4> QED
        BY <4>1, <2>8, <3>1, <2>d
    <3>2. CASE e = c
      BY <1>2, <2>8, <3>2 DEF record_success, TypeOK, Charged
    <3> QED
      BY <3>1, <3>2
  <2>9. ASSUME NEW d \in Callers, NEW c \in Channels, SendOk(d, c)
        PROVE  Charged(e)'
    BY <1>2, <2>8, <2>9, SendEnds, "sent" \in TaskStates DEF SendOk, TaskStates
  <2>10. ASSUME NEW c \in Channels, reset_circuit(c)
         PROVE  Charged(e)'
    BY <2>8, <2>10 DEF reset_circuit, Sending
  <2>11. ASSUME NEW d \in Callers, NEW c \in Channels, SendFailed(d, c)
         PROVE  Charged(e)'
    <3>1. /\ Cardinality(Sending(c)') = Cardinality(Sending(c)) - 1
          /\ \A x \in Channels \ {c} : Sending(x)' = Sending(x)
      BY <1>2, <2>11, SendEnds DEF SendFailed, TaskStates
    <3>2. CASE e # c
      <4>1. Calm
        BY <1>2, <2>11, <3>2 DEF SendFailed, record_failure, TypeOK
      <4> QED
        BY <4>1, <3>1, <3>2, <2>d
    <3>3. CASE e = c /\ is_open[e]
      <4>1. /\ half_open_attempts'[e] = half_open_attempts[e] + 1
            /\ is_open'[e]
            /\ probes'[e] = probes[e]
        BY <1>2, <2>11, <3>3 DEF SendFailed, record_failure, TypeOK
      <4> QED
        BY <1>2, <4>1, <3>1, <3>3, <2>a, <2>b, <2>c DEF ProbesCharged, Charged
    <3>4. CASE e = c /\ ~is_open[e]
      <4>1. /\ half_open_attempts'[e] = 0
            /\ probes'[e] = 0
        BY <1>2, <2>11, <3>4
           DEF SendFailed, record_failure, TypeOK, ProbesCharged, Charged, BreakerConsistent, Consistent
      <4> QED
        BY <4>1, <3>1, <3>4, <2>a, <2>b, <2>c DEF Charged
    <3> QED
      BY <3>2, <3>3, <3>4
  <2> QED
    BY <1>2, <2>d, <2>1, <2>2, <2>3, <2>4, <2>5, <2>6, <2>7, <2>9, <2>10, <2>11
       DEF Next, Running, SendStep
<1> QED
  BY <1>1, <1>2, Typing, Consistency, PTL DEF Spec

\* A channel that keeps failing is sent a bounded number of messages: the
\* half-open limit, overrun by at most one message per extra caller
\* (dispatcher.py:88-108 tests the limit, 119-127 charges it).
THEOREM BoundedProbing == Spec => []ProbesBounded
<1>1. TypeOK /\ ProbesCharged => ProbesBounded
  <2> SUFFICES ASSUME TypeOK, ProbesCharged, NEW c \in Channels
               PROVE  probes[c] <= half_open_max_attempts + Cardinality(Callers) - 1
    BY DEF ProbesBounded
  <2>1. Cardinality(Sending(c)) \in Nat /\ Cardinality(Callers) \in Nat \ {0}
    BY SendingBounds
  <2>2. probes[c] \in Nat /\ half_open_attempts[c] \in Nat /\ is_open[c] \in BOOLEAN
    BY DEF TypeOK
  <2> QED
    BY <2>1, <2>2, DispatcherAssumption DEF ProbesCharged, Charged
<1> QED
  BY <1>1, Typing, Charging, PTL
-----------------------------------------------------------------------------
(* One caller at a time: the class implements CircuitBreaker.            *)

\* Never resetting a circuit is one way to behave.
LEMMA RunningIsSpec == RunningSpec => Spec
<1>1. [Running]_vars => [Next]_vars
  BY DEF Next
<1> QED
  BY <1>1, PTL DEF RunningSpec, Spec

\* A send in flight on an open circuit is a probe (dispatcher.py:141-146).
LEMMA ProbesInFlight ==
    ASSUME NEW p, Callers = {p}
    PROVE  RunningSpec => []InFlightIsProbe
<1> USE DispatcherAssumption
<1>1. Init => InFlightIsProbe
  BY DEF Init, InFlightIsProbe
<1>2. ASSUME TypeOK, InFlightIsProbe, [Running]_vars PROVE InFlightIsProbe'
  <2> SUFFICES ASSUME NEW c \in Channels, task'[p][c] = "sending", is_open'[c]
               PROVE  half_open(c)'
    BY DEF InFlightIsProbe
  <2> USE DEF half_open
  <2>1. CASE UNCHANGED vars
    BY <1>2, <2>1 DEF vars, breaker, InFlightIsProbe
  <2>2. CASE Dispatch(p) \/ Gathered(p)
    BY <1>2, <2>2 DEF Dispatch, Gathered, TypeOK
  <2>3. ASSUME NEW e \in Channels, Attempt(p, e) PROVE half_open(c)'
    BY <1>2, <2>3 DEF Attempt, should_attempt, breaker, TypeOK, InFlightIsProbe
  <2>4. ASSUME NEW e \in Channels, Skip(p, e) PROVE half_open(c)'
    BY <1>2, <2>4 DEF Skip, breaker, TypeOK, InFlightIsProbe
  <2>5. ASSUME NEW e \in Channels, SendOk(p, e) PROVE half_open(c)'
    <3>1. e # c
      BY <1>2, <2>5 DEF SendOk, TypeOK
    <3> QED
      BY <1>2, <2>5, <3>1 DEF SendOk, record_success, TypeOK, InFlightIsProbe
  <2>6. ASSUME NEW e \in Channels, SendFailed(p, e) PROVE half_open(c)'
    <3>1. e # c
      BY <1>2, <2>6 DEF SendFailed, TypeOK
    <3> QED
      BY <1>2, <2>6, <3>1 DEF SendFailed, record_failure, TypeOK, InFlightIsProbe
  <2>7. ASSUME NEW e \in Channels, Flip(e) PROVE half_open(c)'
    BY <1>2, <2>7 DEF Flip, breaker, InFlightIsProbe
  <2>8. CASE Tick
    <3>1. age'[c] = IF age[c] \in 0 .. recovery_timeout - 1 THEN age[c] + 1 ELSE age[c]
      BY <2>8 DEF Tick
    <3>2. half_open(c) /\ half_open_attempts' = half_open_attempts
      BY <1>2, <2>8 DEF Tick, InFlightIsProbe
    <3>3. age[c] \in Int
      BY <1>2 DEF TypeOK, NoFailure
    <3> QED
      BY <2>8, <3>1, <3>2, <3>3
  <2> QED
    BY <1>2, <2>1, <2>2, <2>3, <2>4, <2>5, <2>6, <2>7, <2>8 DEF Running, SendStep
<1> QED
  BY <1>1, <1>2, Typing, RunningIsSpec, PTL DEF RunningSpec

\* A task that says sent has had its message taken, in the dispatch under way.
SentIsAccepted == \A d \in Callers, c \in Channels : task[d][c] = "sent" => c \in accepted[d]

\* A step of a task is of this task only.
LEMMA OneTaskMoves ==
    ASSUME TypeOK, NEW e \in Callers, NEW b \in Channels, NEW v, task' = [task EXCEPT ![e][b] = v]
    PROVE  \A d \in Callers, c \in Channels : task'[d][c] = IF d = e /\ c = b THEN v ELSE task[d][c]
BY DEF TypeOK

LEMMA SentStaysAccepted == Spec => []SentIsAccepted
<1>1. Init => SentIsAccepted
  BY DEF Init, SentIsAccepted
<1>2. ASSUME TypeOK, SentIsAccepted, [Next]_vars
      PROVE  SentIsAccepted'
  <2> SUFFICES ASSUME NEW d \in Callers, NEW c \in Channels, task'[d][c] = "sent"
               PROVE  c \in accepted'[d]
    BY DEF SentIsAccepted
  <2> USE <1>2 DEF TypeOK, SentIsAccepted
  <2>1. CASE UNCHANGED <<task, accepted>>
    BY <2>1
  <2>2. ASSUME NEW e \in Callers, Dispatch(e) \/ Gathered(e)
        PROVE  c \in accepted'[d]
    <3>1. PICK v \in {"ready", "none"} : task' = [task EXCEPT ![e] = [a \in Channels |-> v]]
      BY <2>2 DEF Dispatch, Gathered
    <3>2. e # d /\ task'[d] = task[d]
      BY <3>1
    <3>3. accepted'[d] = accepted[d]
      BY <2>2, <3>2 DEF Dispatch, Gathered
    <3> QED
      BY <3>2, <3>3
  <2>3. ASSUME NEW e \in Callers, NEW b \in Channels, Attempt(e, b) \/ Skip(e, b) \/ SendFailed(e, b)
        PROVE  c \in accepted'[d]
    <3>1. PICK v \in {"sending", "failed"} : task' = [task EXCEPT ![e][b] = v]
      BY <2>3 DEF Attempt, Skip, SendFailed
    <3>2. task'[d][c] = IF d = e /\ c = b THEN v ELSE task[d][c]
      BY <3>1, OneTaskMoves
    <3>3. task[d][c] = "sent"
      BY <3>1, <3>2
    <3>4. accepted' = accepted
      BY <2>3 DEF Attempt, Skip, SendFailed
    <3> QED
      BY <3>3, <3>4
  <2>4. ASSUME NEW e \in Callers, NEW b \in Channels, SendOk(e, b)
        PROVE  c \in accepted'[d]
    <3>1. task'[d][c] = IF d = e /\ c = b THEN "sent" ELSE task[d][c]
      BY <2>4, OneTaskMoves DEF SendOk
    <3>2. accepted' = [accepted EXCEPT ![e] = @ \cup {b}]
      BY <2>4 DEF SendOk
    <3>3. CASE d = e /\ c = b
      BY <3>2, <3>3
    <3>4. CASE ~(d = e /\ c = b)
      <4>1. c \in accepted[d]
        BY <3>1, <3>4
      <4> QED
        BY <3>2, <4>1
    <3> QED
      BY <3>3, <3>4
  <2> QED
    BY <2>1, <2>2, <2>3, <2>4 DEF Next, Running, SendStep, Flip, Tick, reset_circuit, vars
<1> QED
  BY <1>1, <1>2, Typing, PTL DEF Spec

\* Only gather() ends a dispatch.
LEMMA EndsGathered ==
    ASSUME TypeOK, [Next]_vars, NEW d \in Callers, ~Idle(d), Idle(d)'
    PROVE  Gathered(d)
<1> USE DEF TypeOK, Idle
<1>1. CASE UNCHANGED task
  BY <1>1
<1>2. ASSUME NEW e \in Callers, Dispatch(e)
      PROVE  FALSE
  BY <1>2 DEF Dispatch
<1>3. ASSUME NEW e \in Callers, NEW b \in Channels, SendStep(e, b)
      PROVE  FALSE
  <2>1. PICK v \in {"sending", "sent", "failed"} : task' = [task EXCEPT ![e][b] = v]
    BY <1>3 DEF SendStep, Attempt, Skip, SendOk, SendFailed
  <2>2. \A a \in Channels : task'[d][a] = IF d = e /\ a = b THEN v ELSE task[d][a]
    BY <2>1, OneTaskMoves
  <2>3. PICK a \in Channels : task[d][a] # "none"
    OBVIOUS
  <2>4. task'[d][a] # "none"
    BY <2>1, <2>2, <2>3
  <2> QED
    BY <2>4
<1>4. ASSUME NEW e \in Callers, Gathered(e)
      PROVE  e = d
  BY <1>4 DEF Gathered
<1> QED
  BY <1>1, <1>2, <1>3, <1>4 DEF Next, Running, Flip, Tick, reset_circuit, vars

\* What the pipeline counts as a sent alert was taken by every channel, whatever
\* other callers' sends, failures, open circuits and resets come between
\* (dispatcher.py, dispatch and _send_to_channel).
THEOREM SentWasAccepted == Spec => ReportedSentWasAccepted
<1>1. ASSUME TypeOK, SentIsAccepted, [Next]_vars,
             NEW d \in Callers, ~Idle(d), Idle(d)', all_succeeded(result'[d])
      PROVE  accepted[d] = Channels
  <2>1. Gathered(d)
    BY <1>1, EndsGathered
  <2>2. {c \in Channels : task[d][c] = "failed"} = {}
    BY <1>1, <2>1 DEF Gathered, all_succeeded, TypeOK
  <2>3. \A c \in Channels : task[d][c] = "sent"
    BY <2>1, <2>2 DEF Gathered
  <2> QED
    BY <1>1, <2>3 DEF SentIsAccepted, TypeOK
<1>2. TypeOK /\ SentIsAccepted /\ [Next]_vars
        => [\A d \in Callers : (~Idle(d) /\ Idle(d)' /\ all_succeeded(result'[d])) => accepted[d] = Channels]_vars
  BY <1>1
<1> QED
  BY <1>2, Typing, SentStaysAccepted, PTL DEF Spec, ReportedSentWasAccepted

\* With one caller at a time and no manual reset, as in the pipeline, the
\* dispatcher is the three-state circuit breaker with a probe budget.
THEOREM SequentialBreaker ==
    ASSUME NEW p, Callers = {p}
    PROVE  RunningSpec => ImplementsCircuitBreaker
<1> USE DispatcherAssumption
<1>1. Init => CB!CBInit
  BY DEF Init, CB!CBInit, mode
<1>2. ASSUME TypeOK, BreakerConsistent, InFlightIsProbe, [Running]_vars
      PROVE  [CB!CBNext]_(CB!cbvars)
  <2> DEFINE left == [c \in Channels |-> half_open_max_attempts - half_open_attempts[c]]
  <2>0. ASSUME UNCHANGED <<mode, left>> PROVE [CB!CBNext]_(CB!cbvars)
    BY <2>0 DEF CB!cbvars
  <2>1. CASE UNCHANGED breaker
    BY <2>1, <2>0 DEF breaker, mode, half_open
  <2>2. ASSUME NEW e \in Channels, SendOk(p, e) PROVE [CB!CBNext]_(CB!cbvars)
    <3>1. CASE ~is_open[e]
      BY <1>2, <2>2, <3>1, <2>0
         DEF SendOk, record_success, TypeOK, BreakerConsistent, Consistent, mode, half_open
    <3>2. CASE is_open[e]
      <4>1. mode[e] = "half_open"
        BY <1>2, <2>2, <3>2 DEF SendOk, InFlightIsProbe, mode
      <4>2. mode' = [mode EXCEPT ![e] = "closed"]
        BY <1>2, <2>2 DEF SendOk, record_success, TypeOK, mode, half_open
      <4>3. left' = [left EXCEPT ![e] = half_open_max_attempts]
        <5>1. \A c \in Channels :
                 half_open_attempts'[c] = IF c = e THEN 0 ELSE half_open_attempts[c]
          BY <1>2, <2>2 DEF SendOk, record_success, TypeOK
        <5>2. half_open_max_attempts - 0 = half_open_max_attempts
          OBVIOUS
        <5> QED
          BY <5>1, <5>2, Zenon
      <4> QED
        BY <4>1, <4>2, <4>3 DEF CB!CBNext, CB!ProbeSucceeds
    <3> QED
      BY <1>2, <3>1, <3>2 DEF TypeOK
  <2>3. ASSUME NEW e \in Channels, SendFailed(p, e) PROVE [CB!CBNext]_(CB!cbvars)
    <3>0. record_failure(e) /\ age' = [age EXCEPT ![e] = 0]
      BY <2>3 DEF SendFailed, record_failure
    <3>a. ~(age'[e] >= recovery_timeout)
      BY <1>2, <3>0 DEF TypeOK
    <3>1. CASE is_open[e]
      <4>1. mode[e] = "half_open"
        BY <1>2, <2>3, <3>1 DEF SendFailed, InFlightIsProbe, mode
      <4>2. /\ half_open_attempts' = [half_open_attempts EXCEPT ![e] = @ + 1]
            /\ is_open' = is_open
        BY <3>0, <3>1 DEF record_failure
      <4>3. mode' = [mode EXCEPT ![e] = "open"]
        BY <1>2, <3>0, <3>a, <3>1, <4>2 DEF TypeOK, mode, half_open
      <4>4. left' = [left EXCEPT ![e] = @ - 1]
        <5>1. \A c \in Channels : c # e => half_open_attempts'[c] = half_open_attempts[c]
          BY <1>2, <4>2 DEF TypeOK
        <5>2. half_open_max_attempts - half_open_attempts'[e]
                = (half_open_max_attempts - half_open_attempts[e]) - 1
          BY <1>2, <4>2 DEF TypeOK
        <5> QED
          BY <5>1, <5>2, Zenon
      <4> QED
        BY <4>1, <4>3, <4>4 DEF CB!CBNext, CB!ProbeFails
    <3>2. CASE is_open' = [is_open EXCEPT ![e] = TRUE] /\ ~is_open[e]
      <4>1. half_open_attempts' = half_open_attempts
        BY <3>0, <3>2 DEF record_failure
      <4>2. mode' = [mode EXCEPT ![e] = "open"]
        BY <1>2, <3>0, <3>a, <3>2, <4>1 DEF TypeOK, mode, half_open
      <4>3. mode[e] = "closed" /\ left' = left
        BY <3>2, <4>1 DEF mode
      <4> QED
        BY <4>2, <4>3 DEF CB!CBNext, CB!Trip
    <3>3. CASE ~is_open[e] /\ UNCHANGED <<is_open, half_open_attempts>>
      <4>1. \A c \in Channels : is_open[c] => age'[c] = age[c]
        BY <1>2, <3>0, <3>3 DEF TypeOK
      <4>2. mode' = mode
        BY <3>3, <4>1 DEF mode, half_open
      <4> QED
        BY <3>3, <4>2, <2>0
    <3> QED
      BY <3>0, <3>1, <3>2, <3>3 DEF record_failure
  <2>4. CASE Tick
    <3> DEFINE S == {c \in Channels : is_open[c] /\ ~half_open(c) /\ half_open(c)'}
    <3>0. UNCHANGED <<is_open, half_open_attempts>>
      BY <2>4 DEF Tick
    <3>1. \A c \in Channels : half_open(c) => half_open(c)'
      <4> SUFFICES ASSUME NEW c \in Channels, half_open(c) PROVE half_open(c)'
        OBVIOUS
      <4>1. age[c] \in Int
        BY <1>2 DEF TypeOK, NoFailure
      <4>2. age'[c] = age[c]
        BY <2>4, <4>1 DEF Tick, half_open
      <4> QED
        BY <3>0, <4>2 DEF half_open
    <3>2. \A c \in S : mode[c] = "open" /\ left[c] > 0
      BY <1>2, <3>0 DEF mode, half_open, TypeOK
    <3>3. mode' = [c \in Channels |-> IF c \in S THEN "half_open" ELSE mode[c]]
      BY <3>0, <3>1 DEF mode, half_open
    <3>4. left' = left
      BY <3>0
    <3> QED
      BY <3>2, <3>3, <3>4 DEF CB!CBNext, CB!CoolDown
  <2> QED
    BY <1>2, <2>1, <2>2, <2>3, <2>4
       DEF Running, SendStep, Dispatch, Gathered, Attempt, Skip, Flip, vars
<1> QED
  BY <1>1, <1>2, Typing, Consistency, ProbesInFlight, RunningIsSpec, PTL
     DEF RunningSpec, ImplementsCircuitBreaker, CB!CBSpec
=============================================================================
