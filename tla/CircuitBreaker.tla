--------------------------- MODULE CircuitBreaker ---------------------------
(***************************************************************************)
(* What AlertDispatcher promises about one channel at a time when nobody *)
(* dispatches concurrently and nobody resets a circuit by hand: the      *)
(* three-state breaker, with a budget of half-open probes per outage.  A *)
(* circuit opens only from closed or by a failed probe, becomes half-open*)
(* only by the passing of time, and closes only by a successful probe.   *)
(***************************************************************************)
EXTENDS Integers

CONSTANTS Channels, Budget

VARIABLES mode, left

cbvars == <<mode, left>>

CBInit ==
    /\ mode = [c \in Channels |-> "closed"]
    /\ left = [c \in Channels |-> Budget]

Trip(c) ==
    /\ mode[c] = "closed"
    /\ mode' = [mode EXCEPT ![c] = "open"]
    /\ UNCHANGED left

\* Time passes for every channel at once; a circuit out of probes stays open.
CoolDown(S) ==
    /\ \A c \in S : mode[c] = "open" /\ left[c] > 0
    /\ mode' = [c \in Channels |-> IF c \in S THEN "half_open" ELSE mode[c]]
    /\ UNCHANGED left

ProbeFails(c) ==
    /\ mode[c] = "half_open"
    /\ mode' = [mode EXCEPT ![c] = "open"]
    /\ left' = [left EXCEPT ![c] = @ - 1]

ProbeSucceeds(c) ==
    /\ mode[c] = "half_open"
    /\ mode' = [mode EXCEPT ![c] = "closed"]
    /\ left' = [left EXCEPT ![c] = Budget]

CBNext ==
    \/ \E c \in Channels : Trip(c) \/ ProbeFails(c) \/ ProbeSucceeds(c)
    \/ \E S \in SUBSET Channels : CoolDown(S)

CBSpec == CBInit /\ [][CBNext]_cbvars
=============================================================================
