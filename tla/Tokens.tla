-------------------------------- MODULE Tokens -------------------------------
(***************************************************************************)
(* Which tokens are taken (auth/tokens.py): the provider's key set is kept *)
(* for a while, a token signed with a key that is not in it may have it    *)
(* fetched again, and only one may in a while.  Verifications run in       *)
(* threads of one process.  Nothing but a fetch takes time, and a fetch no *)
(* more than its timeout.  A token is the number of its key; what decides  *)
(* about it once the key is there keeps no state and is left out, and so   *)
(* is the shared secret of older projects.                                 *)
(***************************************************************************)
EXTENDS Naturals

CONSTANTS
    Lifespan,  \* _JWKS_CACHE_SECONDS, in ticks
    Cooldown,  \* _JWKS_REFRESH_COOLDOWN_SECONDS, in ticks
    Timeout,   \* _JWKS_TIMEOUT_SECONDS: ticks a fetch can see go by
    MaxKeys,   \* bound: keys the provider ever signs with
    MaxThreads \* bound: verifications under way at once

ASSUME TokensConstants ==
    /\ Lifespan \in Nat /\ Cooldown \in Nat \ {0} /\ Timeout \in Nat
    /\ MaxKeys \in Nat \ {0} /\ MaxThreads \in Nat

VARIABLES
    published, \* the keys the provider publishes
    since,     \* how long each key has been published, or not: ticks, up to Long
    cached,    \* the client's key set
    age,       \* its age
    refreshed, \* ticks since _last_forced_refresh, up to Cooldown
    spoilt,    \* ticks since the provider last answered with a set of no use, up to Long
    thread     \* each verification

tokensVars == <<published, since, cached, age, refreshed, spoilt, thread>>

Keys == 1..MaxKeys
Tokens == 0..MaxKeys \* 0: a key nobody publishes
Threads == 1..MaxThreads
Long == Lifespan + Cooldown + Timeout + 1

Nobody == {0} \* the cache when it is empty
Unusable == {} \* an answer the client finds no signing key in; it is cached like any other
Idle == [phase |-> "idle", token |-> 0, forced |-> FALSE, keys |-> {}, waited |-> 0]

TokensInit ==
    /\ published = {1} /\ since = [k \in Keys |-> IF k = 1 THEN 0 ELSE Long]
    /\ cached = Nobody /\ age = 0 /\ refreshed = Cooldown /\ spoilt = Long
    /\ thread = [t \in Threads |-> Idle]

(***************************************************************************)
(* A verification                                                          *)
(***************************************************************************)
Fetching(token, forced) ==
    [Idle EXCEPT !.phase = "fetching", !.token = token, !.forced = forced]

Judged(token, verdict) == [Idle EXCEPT !.phase = verdict, !.token = token]

\* Under a lock.  Without the slot, the key set at hand decides.
claim_refresh_slot(t, token) ==
    IF refreshed < Cooldown
    THEN thread' = [thread EXCEPT ![t] = Judged(token, "refused")] /\ UNCHANGED refreshed
    ELSE thread' = [thread EXCEPT ![t] = Fetching(token, TRUE)] /\ refreshed' = 0

\* The set in hand has the key, or a refetch is tried for.  A set of no use raises before that.
match(t, token, keys, forced) ==
    IF token \in keys \/ forced \/ keys = Unusable
    THEN /\ thread' = [thread EXCEPT ![t] = Judged(token, IF token \in keys THEN "accepted" ELSE "refused")]
         /\ UNCHANGED refreshed
    ELSE claim_refresh_slot(t, token)

\* Mutation: the key set is kept for as long as it has an answer.
Kept_Forever == cached # Nobody

Kept == cached # Nobody /\ age <= Lifespan

verify_supabase_token(t, token) ==
    /\ thread[t].phase = "idle"
    /\ IF Kept THEN match(t, token, cached, FALSE)
       ELSE thread' = [thread EXCEPT ![t] = Fetching(token, FALSE)] /\ UNCHANGED refreshed
    /\ UNCHANGED <<published, since, cached, age, spoilt>>

\* The provider answers, with its keys or with something of no use.
ProviderAnswers(t) ==
    /\ thread[t].phase = "fetching"
    /\ \E keys \in {published, Unusable}:
          /\ thread' = [thread EXCEPT ![t].phase = "answered", ![t].keys = keys]
          /\ spoilt' = IF keys = Unusable THEN 0 ELSE spoilt
    /\ UNCHANGED <<published, since, cached, age, refreshed>>

\* The answer gets here, and replaces whatever was cached.
asymmetric_key(t) ==
    /\ thread[t].phase = "answered"
    /\ cached' = thread[t].keys /\ age' = 0
    /\ match(t, thread[t].token, thread[t].keys, thread[t].forced)
    /\ UNCHANGED <<published, since, spoilt>>

\* 503: nothing was judged.  The client drops what it had cached.
key_set_unavailable(t) ==
    /\ thread[t].phase \in {"fetching", "answered"}
    /\ cached' = Nobody /\ age' = 0
    /\ thread' = [thread EXCEPT ![t] = Idle]
    /\ UNCHANGED <<published, since, refreshed, spoilt>>

Done(t) ==
    /\ thread[t].phase \in {"accepted", "refused"}
    /\ thread' = [thread EXCEPT ![t] = Idle]
    /\ UNCHANGED <<published, since, cached, age, refreshed, spoilt>>

(***************************************************************************)
(* The provider and the clock                                              *)
(***************************************************************************)
Publish(k) ==
    /\ k \notin published /\ since[k] = Long
    /\ published' = published \cup {k} /\ since' = [since EXCEPT ![k] = 0]
    /\ UNCHANGED <<cached, age, refreshed, spoilt, thread>>

Retire(k) ==
    /\ k \in published /\ published # {k}
    /\ published' = published \ {k} /\ since' = [since EXCEPT ![k] = 0]
    /\ UNCHANGED <<cached, age, refreshed, spoilt, thread>>

Later(n, limit) == IF n < limit THEN n + 1 ELSE n

Tick ==
    /\ \A t \in Threads: \/ thread[t].phase = "idle"
                         \/ thread[t].phase \in {"fetching", "answered"} /\ thread[t].waited < Timeout
    /\ since' = [k \in Keys |-> Later(since[k], Long)]
    /\ age' = IF cached = Nobody THEN age ELSE Later(age, Lifespan + 1)
    /\ refreshed' = Later(refreshed, Cooldown) /\ spoilt' = Later(spoilt, Long)
    /\ thread' = [t \in Threads |-> IF thread[t].phase = "idle" THEN thread[t]
                                    ELSE [thread[t] EXCEPT !.waited = @ + 1]]
    /\ UNCHANGED <<published, cached>>

(***************************************************************************)
TokensNext ==
    \/ \E t \in Threads: \/ \E token \in Tokens: verify_supabase_token(t, token)
                         \/ ProviderAnswers(t) \/ asymmetric_key(t) \/ key_set_unavailable(t) \/ Done(t)
    \/ \E k \in Keys: Publish(k) \/ Retire(k)
    \/ Tick

TokensSpec == TokensInit /\ [][TokensNext]_tokensVars

(***************************************************************************)
(* Properties                                                              *)
(***************************************************************************)
(* No verdict is wrong for long.  A token is taken only if its key is      *)
(* published, or was while a key set could be fetched that is still kept.  *)
(* A token whose key is published is refused only while a refetch that     *)
(* somebody else took may be under way, or for a cooldown after it was     *)
(* published, whatever became of the refetches; the timeout is added for   *)
(* a set fetched before and put in place after.  The exception: one answer *)
(* of no use refuses every token for as long as it is kept.                *)
VerdictsAreRecent ==
    \A t \in Threads:
        LET k == thread[t].token
        IN  /\ thread[t].phase = "accepted" =>
                  k # 0 /\ (k \in published \/ since[k] <= Lifespan + Timeout)
            /\ thread[t].phase = "refused" /\ k \in published =>
                  \/ refreshed <= Timeout \/ since[k] < Cooldown + Timeout
                  \/ spoilt <= Lifespan + Timeout
=============================================================================
