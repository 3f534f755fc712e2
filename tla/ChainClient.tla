---------------------------- MODULE ChainClient ----------------------------
(***************************************************************************)
(* WalletAnalyzer over PolygonClient: the profile cache, the nonce cache *)
(* below it, the token bucket, and RPC calls that are retried on the     *)
(* primary endpoint, then on the fallback; a primary that failed is left *)
(* alone until the recovery interval is over.                            *)
(*                                                                       *)
(* One wallet, whose count is told by its age: how long ago the chain had*)
(* it. Analyses of it interleave with each other and with other calls of *)
(* the client at every await. Redis may fail, which is a miss or a write *)
(* that is lost. Balances, backoff delays and token fractions are left   *)
(* out. Times are in ticks.                                              *)
(***************************************************************************)
EXTENDS Integers

CONSTANTS
    Analyses, OtherCalls,
    client_ttl, profile_ttl,
    recovery_interval,
    max_retries,
    max_tokens               \* and what a tick refills

ASSUME ChainClientAssumption ==
    /\ {client_ttl, profile_ttl, max_retries, max_tokens} \subseteq Nat \ {0}
    /\ recovery_interval \in Nat
    /\ Analyses \cap OtherCalls = {}

VARIABLES
    up,                      \* endpoints that answer
    nonce_cache,             \* [age of the count in it, ticks to live]
    profile_cache,
    primary_healthy,
    since_check,             \* ticks since _last_primary_check, as far as they count
    tokens,
    call,                    \* where each call is, with what
    late                     \* calls whose answer a tick has passed over

caches == <<nonce_cache, profile_cache>>
primary == <<primary_healthy, since_check>>
chain_vars == <<up, caches, primary, tokens, call, late>>

Endpoints == {"primary", "fallback"}
Calls == Analyses \cup OtherCalls
Missing == [age |-> 0, ttl |-> 0]
NotCalling == [at |-> "idle", tries |-> 0, age |-> 0]

ChainTypeOK ==
    /\ up \subseteq Endpoints
    /\ nonce_cache \in [age : Nat, ttl : 0 .. client_ttl]
    /\ profile_cache \in [age : Nat, ttl : 0 .. profile_ttl]
    /\ primary_healthy \in BOOLEAN /\ since_check \in 0 .. recovery_interval + 1
    /\ tokens \in 0 .. max_tokens
    /\ call \in [Calls -> [at : {"idle", "count", "acquire", "primary", "fallback", "store", "build"},
                           tries : 0 .. max_retries, age : Nat]]
    /\ late \subseteq Calls

ChainInit ==
    /\ up = Endpoints
    /\ nonce_cache = Missing /\ profile_cache = Missing
    /\ primary_healthy = TRUE /\ since_check = recovery_interval + 1
    /\ tokens = max_tokens
    /\ call = [c \in Calls |-> NotCalling]
    /\ late = {}

-----------------------------------------------------------------------------
(* The world.                                                            *)

EndpointChanges(e) ==
    /\ up' = IF e \in up THEN up \ {e} ELSE up \cup {e}
    /\ UNCHANGED <<caches, primary, tokens, call, late>>

Aged(entry) == IF entry.ttl <= 1 THEN Missing ELSE [entry EXCEPT !.age = @ + 1, !.ttl = @ - 1]
Answered(c) == call[c].at \in {"store", "build"}

\* The assumption: from the answer to the cached profile no call takes longer
\* than a tick. Waiting for a token and trying endpoints may take any time.
ChainTick ==
    /\ \A c \in late : ~Answered(c)
    /\ late' = {c \in Calls : Answered(c)}
    /\ nonce_cache' = Aged(nonce_cache) /\ profile_cache' = Aged(profile_cache)
    /\ call' = [c \in Calls |-> IF Answered(c) THEN [call[c] EXCEPT !.age = @ + 1] ELSE call[c]]
    /\ tokens' = max_tokens
    /\ since_check' = IF since_check > recovery_interval THEN since_check ELSE since_check + 1
    /\ UNCHANGED <<up, primary_healthy>>

-----------------------------------------------------------------------------
(* _execute_with_retry.                                                  *)

at(c, label) == call' = [call EXCEPT ![c].at = label, ![c].tries = 0]
fails(c) == call' = [call EXCEPT ![c] = NotCalling]
answers(c) ==
    call' = [call EXCEPT ![c] = IF c \in Analyses THEN [at |-> "store", tries |-> 0, age |-> 0]
                                ELSE NotCalling]

should_try_primary == primary_healthy \/ since_check > recovery_interval

\* A token; whoever finds the check of the primary due claims it.
acquire(c) ==
    /\ call[c].at = "acquire" /\ tokens > 0
    /\ tokens' = tokens - 1
    /\ IF should_try_primary
       THEN /\ at(c, "primary")
            /\ since_check' = IF primary_healthy THEN since_check ELSE 0
       ELSE at(c, "fallback") /\ UNCHANGED since_check
    /\ UNCHANGED <<up, caches, primary_healthy, late>>

\* Only a Web3Exception is caught: what the connection raises ends the call,
\* without a retry, the fallback or a note of the primary's health.
Escapes(e, c) == e \notin up /\ fails(c)

\* One attempt on the primary; the last one that fails marks it unhealthy.
TryPrimary(c) ==
    /\ call[c].at = "primary"
    /\ \/ Escapes("primary", c) /\ UNCHANGED primary
       \/ IF "primary" \in up
          THEN primary_healthy' = TRUE /\ answers(c) /\ UNCHANGED since_check
          ELSE IF call[c].tries + 1 < max_retries
          THEN call' = [call EXCEPT ![c].tries = @ + 1] /\ UNCHANGED primary
          ELSE primary_healthy' = FALSE /\ since_check' = 0 /\ at(c, "fallback")
    /\ UNCHANGED <<up, caches, tokens, late>>

\* Mutant: an answer of the fallback counts as a check of the primary.
mutant_TryFallback(c) ==
    /\ call[c].at = "fallback"
    /\ IF "fallback" \in up THEN answers(c) /\ since_check' = 0
       ELSE /\ IF call[c].tries + 1 < max_retries
               THEN call' = [call EXCEPT ![c].tries = @ + 1] ELSE fails(c)
            /\ UNCHANGED since_check
    /\ UNCHANGED <<up, caches, primary_healthy, tokens, late>>

\* One attempt on the fallback, then RPCError.
TryFallback(c) ==
    /\ call[c].at = "fallback"
    /\ \/ Escapes("fallback", c)
       \/ IF "fallback" \in up THEN answers(c)
          ELSE IF call[c].tries + 1 < max_retries
          THEN call' = [call EXCEPT ![c].tries = @ + 1]
          ELSE fails(c)
    /\ UNCHANGED <<up, caches, primary, tokens, late>>

-----------------------------------------------------------------------------
(* The client's queries and the analysis of a wallet.                    *)

\* get_balance, get_block, health_check: what they return nobody here reads.
OtherQuery(c) ==
    /\ c \in OtherCalls /\ call[c].at = "idle"
    /\ at(c, "acquire")
    /\ UNCHANGED <<up, caches, primary, tokens, late>>

\* analyze, up to its profile or, without one in the cache or with
\* force_refresh, to the count.
analyze(c) ==
    /\ c \in Analyses /\ call[c].at = "idle"
    /\ at(c, "count")
    /\ UNCHANGED <<up, caches, primary, tokens, late>>

\* Mutant: a count is cached wherever it came from.
mutant_get_transaction_count(c) ==
    /\ call[c].at = "count"
    /\ IF nonce_cache.ttl > 0
       THEN call' = [call EXCEPT ![c] = [at |-> "store", tries |-> 0, age |-> nonce_cache.age]]
       ELSE at(c, "acquire")
    /\ late' = late \ {c}
    /\ UNCHANGED <<up, caches, primary, tokens>>

\* The count comes from the cache, or from the chain.
get_transaction_count(c) ==
    /\ call[c].at = "count"
    /\ \/ /\ nonce_cache.ttl > 0
          /\ call' = [call EXCEPT ![c] = [at |-> "build", tries |-> 0, age |-> nonce_cache.age]]
       \/ at(c, "acquire")
    /\ late' = late \ {c}
    /\ UNCHANGED <<up, caches, primary, tokens>>

\* _set_cached, which Redis may lose.
set_cached(c) ==
    /\ call[c].at = "store"
    /\ nonce_cache' \in {nonce_cache, [age |-> call[c].age, ttl |-> client_ttl]}
    /\ at(c, "build")
    /\ UNCHANGED <<up, profile_cache, primary, tokens, late>>

\* The balances are there, the profile is cached; or one of them failed and
\* the analysis with it.
cache_profile(c) ==
    /\ call[c].at = "build"
    /\ profile_cache' \in {profile_cache, [age |-> call[c].age, ttl |-> profile_ttl]}
    /\ fails(c)
    /\ UNCHANGED <<up, nonce_cache, primary, tokens, late>>

CallStep(c) ==
    \/ get_transaction_count(c) \/ set_cached(c) \/ cache_profile(c)
    \/ acquire(c) \/ TryPrimary(c) \/ TryFallback(c)

ChainNext ==
    \/ ChainTick
    \/ \E e \in Endpoints : EndpointChanges(e)
    \/ \E c \in Calls : OtherQuery(c) \/ analyze(c) \/ CallStep(c)

\* Time passes, and the event loop runs every call that can go on.
ChainFairness ==
    /\ WF_chain_vars(ChainTick)
    /\ \A c \in Calls : WF_chain_vars(CallStep(c))

ChainSpec == ChainInit /\ [][ChainNext]_chain_vars /\ ChainFairness

-----------------------------------------------------------------------------
(* A profile that is served says how many transactions the wallet had at *)
(* a time no further back than both caches' times to live: one cache     *)
(* is filled from the other, and no call keeps either alive.             *)
ProfileIsRecent == profile_cache.age <= client_ttl + profile_ttl

(* A primary that answers again for good is used again for good, as long *)
(* as calls come, whatever they ran into while it was down.              *)
RecoveredPrimaryIsUsed ==
    (<>[]("primary" \in up) /\ []<>(\E c \in Calls : call[c].at = "acquire"))
        => <>[]primary_healthy
=============================================================================
