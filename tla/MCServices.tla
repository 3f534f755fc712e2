----------------------------- MODULE MCServices -----------------------------
(***************************************************************************)
(* Three services of the process that keep their state to themselves: its*)
(* start and shutdown, the health monitor, the wallet analyzer over the  *)
(* chain client. None reads a variable of another, so every behaviour of *)
(* the three together is one of each of them by itself; a behaviour here *)
(* is one of the one Init picks.                                         *)
(***************************************************************************)
EXTENDS MCLifecycle, Health, ChainClient

VARIABLE part

services_vars == <<part, vars, health_vars, chain_vars>>

ServicesInit ==
    /\ part \in {"lifecycle", "health", "chain"}
    /\ Init /\ HealthInit /\ ChainInit

ServicesNext ==
    /\ \/ part = "lifecycle" /\ Next /\ UNCHANGED <<health_vars, chain_vars>>
       \/ part = "health" /\ HealthNext /\ UNCHANGED <<vars, chain_vars>>
       \/ part = "chain" /\ ChainNext /\ UNCHANGED <<vars, health_vars>>
    /\ UNCHANGED part

\* Each part is as fair as its own specification says, while it is the one.
HealthRuns ==
    /\ \A l \in Loops : WF_health_vars(part = "health" /\ CheckStep(l))
    /\ \A c \in Callers : WF_health_vars(part = "health" /\ StopAwaited(c))

ChainRuns ==
    /\ WF_chain_vars(part = "chain" /\ ChainTick)
    /\ \A c \in Calls : WF_chain_vars(part = "chain" /\ CallStep(c))

ServicesSpec == /\ ServicesInit /\ [][ServicesNext]_services_vars
                /\ WF_vars(part = "lifecycle" /\ (Start \/ Woken \/ Stop))
                /\ HealthRuns /\ ChainRuns
=============================================================================
