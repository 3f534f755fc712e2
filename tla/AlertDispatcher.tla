-------------------------- MODULE AlertDispatcher --------------------------
(***************************************************************************)
(* alerter/dispatcher.py: delivery of an alert to every channel at once, *)
(* with one circuit breaker per channel.                                 *)
(*                                                                       *)
(* A caller of dispatch() gathers one task per channel.  A task tests the*)
(* breaker (_should_attempt), awaits channel.send and only then records  *)
(* the outcome, so everything another caller did meanwhile lies between  *)
(* the test and the record.  The pipeline awaits one dispatch at a time  *)
(* (Callers is a singleton); the class itself admits any number.         *)
(*                                                                       *)
(* Abstracted: the alert (no part of the breaker reads it) and wall-clock*)
(* time.  age[c] counts ticks since last_failure_time and stops at       *)
(* recovery_timeout, the only value it is ever compared with; NoFailure  *)
(* stands for last_failure_time = None.                                  *)
(***************************************************************************)
EXTENDS Integers, FiniteSets

CONSTANTS Channels, Callers,
          failure_threshold, recovery_timeout, half_open_max_attempts

ASSUME DispatcherAssumption ==
    /\ IsFiniteSet(Callers)
    /\ Callers # {}
    /\ failure_threshold \in Nat \ {0}
    /\ recovery_timeout \in Nat \ {0}
    /\ half_open_max_attempts \in Nat

VARIABLES
    failure_count, age, is_open, half_open_attempts,  \* CircuitBreakerState
    task,       \* task[d][c]: d's _send_to_channel call for channel c
    result,     \* result[d]: the DispatchResult of d's latest dispatch
    up,         \* up[c]: the remote service accepts messages (environment)
    probes,     \* history: sends begun on an open circuit since it opened
    accepted    \* history: channels that took the alert d is dispatching

breaker == <<failure_count, age, is_open, half_open_attempts>>
vars == <<breaker, task, result, up, probes, accepted>>

NoFailure == -1
TaskStates == {"none", "ready", "sending", "sent", "failed"}

TypeOK ==
    /\ failure_count \in [Channels -> Nat]
    /\ age \in [Channels -> {NoFailure} \cup (0 .. recovery_timeout)]
    /\ is_open \in [Channels -> BOOLEAN]
    /\ half_open_attempts \in [Channels -> Nat]
    /\ task \in [Callers -> [Channels -> TaskStates]]
    /\ result \in [Callers -> [success : SUBSET Channels, failure : SUBSET Channels]]
    /\ up \in [Channels -> BOOLEAN]
    /\ probes \in [Channels -> Nat]
    /\ accepted \in [Callers -> SUBSET Channels]

Init ==
    /\ failure_count = [c \in Channels |-> 0]
    /\ age = [c \in Channels |-> NoFailure]
    /\ is_open = [c \in Channels |-> FALSE]
    /\ half_open_attempts = [c \in Channels |-> 0]
    /\ task = [d \in Callers |-> [c \in Channels |-> "none"]]
    /\ result = [d \in Callers |-> [success |-> {}, failure |-> {}]]
    /\ up \in [Channels -> BOOLEAN]
    /\ probes = [c \in Channels |-> 0]
    /\ accepted = [d \in Callers |-> {}]

-----------------------------------------------------------------------------
(* The breaker.                                                          *)

\* Mutant: the limit on half-open attempts is not tested.
mutant_half_open(c) == is_open[c] /\ age[c] >= recovery_timeout

half_open(c) == is_open[c] /\ age[c] >= recovery_timeout
                           /\ half_open_attempts[c] < half_open_max_attempts

\* Mutant: an open circuit admits nothing.
mutant_never_probes(c) == ~is_open[c]

should_attempt(c) == ~is_open[c] \/ half_open(c)

\* Mutant: the half-open attempts survive the success.
mutant_record_success(c) ==
    /\ failure_count' = [failure_count EXCEPT ![c] = 0]
    /\ age' = [age EXCEPT ![c] = NoFailure]
    /\ is_open' = [is_open EXCEPT ![c] = FALSE]
    /\ UNCHANGED half_open_attempts

record_success(c) ==
    /\ failure_count' = [failure_count EXCEPT ![c] = 0]
    /\ age' = [age EXCEPT ![c] = NoFailure]
    /\ is_open' = [is_open EXCEPT ![c] = FALSE]
    /\ half_open_attempts' = [half_open_attempts EXCEPT ![c] = 0]

\* Mutant: a failed probe does not restart the timeout.
mutant_not_restamped(c) ==
    /\ failure_count' = [failure_count EXCEPT ![c] = @ + 1]
    /\ age' = [age EXCEPT ![c] = IF is_open[c] THEN @ ELSE 0]
    /\ half_open_attempts' = [half_open_attempts EXCEPT ![c] = IF is_open[c] THEN @ + 1 ELSE @]
    /\ is_open' = [is_open EXCEPT ![c] = @ \/ failure_count[c] + 1 >= failure_threshold]

\* A failure on an open circuit is charged to half_open_attempts whether or
\* not the send that failed was admitted as a probe.
record_failure(c) ==
    /\ failure_count' = [failure_count EXCEPT ![c] = @ + 1]
    /\ age' = [age EXCEPT ![c] = 0]
    /\ \/ /\ is_open[c]
          /\ half_open_attempts' = [half_open_attempts EXCEPT ![c] = @ + 1]
          /\ UNCHANGED is_open
       \/ /\ ~is_open[c] /\ failure_count[c] + 1 >= failure_threshold
          /\ is_open' = [is_open EXCEPT ![c] = TRUE]
          /\ UNCHANGED half_open_attempts
       \/ /\ ~is_open[c] /\ failure_count[c] + 1 < failure_threshold
          /\ UNCHANGED <<is_open, half_open_attempts>>

-----------------------------------------------------------------------------
(* dispatch() and its tasks.                                             *)

Idle(d) == \A c \in Channels : task[d][c] = "none"

all_succeeded(r) == r.failure = {} /\ r.success # {}

Dispatch(d) ==
    /\ Idle(d)
    /\ task' = [task EXCEPT ![d] = [c \in Channels |-> "ready"]]
    /\ accepted' = [accepted EXCEPT ![d] = {}]
    /\ UNCHANGED <<breaker, result, up, probes>>

\* The first step of a task runs up to "await channel.send".
Attempt(d, c) ==
    /\ task[d][c] = "ready"
    /\ should_attempt(c)
    /\ task' = [task EXCEPT ![d][c] = "sending"]
    /\ probes' = [probes EXCEPT ![c] = IF is_open[c] THEN @ + 1 ELSE @]
    /\ UNCHANGED <<breaker, result, up, accepted>>

\* Mutant: a channel skipped by its open circuit counts as served.
mutant_Skip(d, c) ==
    /\ task[d][c] = "ready"
    /\ ~should_attempt(c)
    /\ task' = [task EXCEPT ![d][c] = "sent"]
    /\ UNCHANGED <<breaker, result, up, probes, accepted>>

Skip(d, c) ==
    /\ task[d][c] = "ready"
    /\ ~should_attempt(c)
    /\ task' = [task EXCEPT ![d][c] = "failed"]
    /\ UNCHANGED <<breaker, result, up, probes, accepted>>

SendOk(d, c) ==
    /\ task[d][c] = "sending"
    /\ up[c]
    /\ record_success(c)
    /\ task' = [task EXCEPT ![d][c] = "sent"]
    /\ accepted' = [accepted EXCEPT ![d] = @ \cup {c}]
    /\ probes' = [probes EXCEPT ![c] = 0]
    /\ UNCHANGED <<result, up>>

\* channel.send returned False or raised.
SendFailed(d, c) ==
    /\ task[d][c] = "sending"
    /\ ~up[c]
    /\ record_failure(c)
    /\ task' = [task EXCEPT ![d][c] = "failed"]
    /\ UNCHANGED <<result, up, probes, accepted>>

\* gather() returned: the counts of the DispatchResult, kept as sets.
Gathered(d) ==
    /\ Channels # {}
    /\ \A c \in Channels : task[d][c] \in {"sent", "failed"}
    /\ result' = [result EXCEPT ![d] =
                    [success |-> {c \in Channels : task[d][c] = "sent"},
                     failure |-> {c \in Channels : task[d][c] = "failed"}]]
    /\ task' = [task EXCEPT ![d] = [c \in Channels |-> "none"]]
    /\ UNCHANGED <<breaker, up, probes, accepted>>

reset_circuit(c) ==
    /\ record_success(c)        \* a fresh CircuitBreakerState()
    /\ probes' = [probes EXCEPT ![c] = 0]
    /\ UNCHANGED <<task, result, up, accepted>>

-----------------------------------------------------------------------------
(* Environment.                                                          *)

Tick ==
    /\ age' = [c \in Channels |->
                 IF age[c] \in 0 .. recovery_timeout - 1 THEN age[c] + 1 ELSE age[c]]
    /\ UNCHANGED <<failure_count, is_open, half_open_attempts>>
    /\ UNCHANGED <<task, result, up, probes, accepted>>

Flip(c) ==
    /\ up' = [up EXCEPT ![c] = ~@]
    /\ UNCHANGED <<breaker, task, result, probes, accepted>>

SendStep(d, c) ==
    Attempt(d, c) \/ Skip(d, c) \/ SendOk(d, c) \/ SendFailed(d, c)

Running ==
    \/ \E d \in Callers : Dispatch(d) \/ Gathered(d)
    \/ \E d \in Callers, c \in Channels : SendStep(d, c)
    \/ \E c \in Channels : Flip(c)
    \/ Tick

Next == Running \/ \E c \in Channels : reset_circuit(c)

Spec == Init /\ [][Next]_vars

\* Alerts keep coming, a send always returns (every channel has an HTTP
\* timeout and a bounded number of retries), and time passes.
Fairness ==
    /\ \A d \in Callers : WF_vars(Dispatch(d)) /\ WF_vars(Gathered(d))
    /\ \A d \in Callers, c \in Channels : WF_vars(SendStep(d, c))
    /\ WF_vars(Tick)

\* The program as it runs: nothing in the package calls reset_circuit.
RunningSpec == Init /\ [][Running]_vars

FairSpec == RunningSpec /\ Fairness

-----------------------------------------------------------------------------
(* Properties.                                                           *)

Sending(c) == {d \in Callers : task[d][c] = "sending"}

\* The counters of one breaker agree with its state: a closed circuit has
\* seen fewer than failure_threshold failures and has no half-open attempts
\* left over from an earlier outage, an open one counted exactly the
\* threshold and then its half-open attempts (dispatcher.py:110-133).
Consistent(c) ==
    /\ is_open[c] => failure_count[c] = failure_threshold + half_open_attempts[c]
    /\ ~is_open[c] => failure_count[c] < failure_threshold /\ half_open_attempts[c] = 0
    /\ (age[c] = NoFailure) <=> (failure_count[c] = 0)

BreakerConsistent == \A c \in Channels : Consistent(c)

\* From the moment a circuit opens until it closes, the channel is sent at
\* most half_open_max_attempts messages, plus one for every caller but one:
\* _should_attempt is tested before the await and the attempt is charged
\* after it, so concurrent callers can overrun the limit, by that much only.
ProbesBounded ==
    \A c \in Channels :
        probes[c] <= half_open_max_attempts + Cardinality(Callers) - 1

\* The strengthening of ProbesBounded that is inductive: every probe is in
\* flight or was charged, and once the limit is reached no send is admitted.
Charged(c) ==
    /\ is_open[c] =>
         /\ probes[c] <= half_open_attempts[c] + Cardinality(Sending(c))
         /\ half_open_attempts[c] + Cardinality(Sending(c))
              <= half_open_max_attempts + Cardinality(Callers) - 1
    /\ ~is_open[c] => probes[c] = 0

ProbesCharged == \A c \in Channels : Charged(c)

\* all_succeeded is what the pipeline counts as a sent alert: when a dispatch
\* returns with it, every channel took the alert during that very dispatch; a
\* skipped channel never counts as served.
ReportedSentWasAccepted ==
    [][\A d \in Callers :
         (~Idle(d) /\ Idle(d)' /\ all_succeeded(result'[d]))
            => accepted[d] = Channels]_vars

\* With probes left, the circuit of a channel that stays up closes again.
RecoversWithinBudget ==
    \A c \in Channels :
        [](([]up[c] /\ half_open_attempts[c] < half_open_max_attempts)
             => <>(~is_open[c]))

\* A single caller sees the breaker CircuitBreaker describes: mode is read
\* off the counters, and what is left are the half-open attempts not charged.
mode == [c \in Channels |->
           IF ~is_open[c] THEN "closed" ELSE IF half_open(c) THEN "half_open" ELSE "open"]

CB == INSTANCE CircuitBreaker WITH
        Budget <- half_open_max_attempts,
        left <- [c \in Channels |-> half_open_max_attempts - half_open_attempts[c]]

ImplementsCircuitBreaker == CB!CBSpec

\* What the refinement rests on: with one caller, a send in flight on an open
\* circuit is still the probe it was admitted as.
InFlightIsProbe ==
    \A d \in Callers, c \in Channels :
        (task[d][c] = "sending" /\ is_open[c]) => half_open(c)

-----------------------------------------------------------------------------
(* What the docstrings say and the code does not do.                     *)

\* "recovery_timeout_seconds: Time to wait before half-opening circuit."
\* (dispatcher.py:75): when that time has passed an open circuit is half-open.
HalfOpensAfterTimeout ==
    \A c \in Channels :
        (is_open[c] /\ age[c] >= recovery_timeout) => should_attempt(c)
=============================================================================
