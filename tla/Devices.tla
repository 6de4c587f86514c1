------------------------------- MODULE Devices -------------------------------
(***************************************************************************)
(* The key material of one account (auth/service.py): the profile that     *)
(* holds the user master key under several wraps and the hash of its       *)
(* proof, the devices, and the check every device-scoped request passes    *)
(* (dependencies.py), with its answers cached in Redis for a minute.       *)
(*                                                                         *)
(* A request reads its rows and commits later; nothing is locked, and the  *)
(* session writes the columns whose value it changed.  A wrap is a fresh   *)
(* ciphertext every time, so it always changes; a hash or a public key     *)
(* does not.  A key column holds the number of the user master key it was  *)
(* made from, 0 when NULL.  pw_wrapped_umk_prev is written and never read, *)
(* and left out, and so are names, addresses and device public keys.       *)
(***************************************************************************)
EXTENDS Naturals, FiniteSets

CONSTANTS
    MaxKeys,    \* bound: user master keys the clients generate
    MaxDevices, \* bound: device rows
    MaxRequests \* bound: requests under way at once

ASSUME DevicesConstants == MaxKeys \in Nat /\ MaxDevices \in Nat /\ MaxRequests \in Nat

VARIABLES
    profile, \* the account's row
    device,  \* the device rows
    cache,   \* Redis: the devices with a positive answer, dev:{uid}:{did}
    req      \* each request under way

vars == <<profile, device, cache, req>>

Keys == 1..MaxKeys
Devices == 1..MaxDevices
Requests == 1..MaxRequests
Key == 0..MaxKeys

NoProfile == [there |-> FALSE, hash |-> 0, envelope |-> 0, recovery |-> 0, identity |-> 0]
NoDevice == [state |-> "none", wrap |-> 0]
Idle == [op |-> "none", phase |-> "idle", device |-> 0, key |-> 0, proof |-> 0,
         hash |-> 0, held |-> FALSE, wrap |-> 0, late |-> FALSE]

\* A request: its device, the key its client holds and the proof it sends, and what it has
\* read: the hash of the proof, whether the column it will clear holds anything, the wrap or the
\* identity key.
Request == [op: {"none", "bootstrap", "umk", "reset", "recovery", "clear", "wrap", "revoke",
                 "keys", "restore"},
            phase: {"idle", "caching", "admitted", "commit", "forget", "answered"},
            device: 0..MaxDevices, key: Key, proof: Key, hash: Key, held: BOOLEAN,
            wrap: Key, late: BOOLEAN]

TypeOK ==
    /\ profile \in [there: BOOLEAN, hash: Key, envelope: Key, recovery: Key, identity: Key]
    /\ device \in [Devices -> [state: {"none", "live", "revoked"}, wrap: Key]]
    /\ cache \subseteq {d \in Devices : device[d].state # "none"}
    /\ req \in [Requests -> Request]

Init ==
    /\ profile = NoProfile /\ device = [d \in Devices |-> NoDevice] /\ cache = {}
    /\ req = [r \in Requests |-> Idle]

(***************************************************************************)
(* What a request reads                                                    *)
(***************************************************************************)
Takes(r, q) ==
    /\ req[r].phase = "idle" /\ \A s \in 1..(r - 1): req[s].phase # "idle"
    /\ req' = [req EXCEPT ![r] = q]
    /\ UNCHANGED <<profile, device, cache>>

Writes(op, d, k, p, held) ==
    [Idle EXCEPT !.op = op, !.phase = "commit", !.device = d, !.key = k, !.proof = p,
                 !.hash = profile.hash, !.held = held]

\* No hash stored: anything goes, and a proof that comes along is kept when the request commits.
enforce_umk_proof(p) == profile.there /\ (profile.hash = 0 \/ p = profile.hash)

\* Get or create.
ensure_profile(r) == ~profile.there /\ Takes(r, Writes("bootstrap", 0, 0, 0, FALSE))

set_wrapped_umk(r, k, p) == enforce_umk_proof(p) /\ Takes(r, Writes("umk", 0, k, p, FALSE))

\* From a recovery link: no proof of the old key, one of the new.
ResetUmk(r, k) == profile.there /\ Takes(r, Writes("reset", 0, k, k, FALSE))

set_recovery_wrapped_umk(r, k, p) == enforce_umk_proof(p) /\ Takes(r, Writes("recovery", 0, k, p, FALSE))

clear_recovery_wrapped_umk(r, p) ==
    enforce_umk_proof(p) /\ Takes(r, Writes("clear", 0, 0, p, profile.recovery # 0))

store_wrapped_umk(r, d, k, p) ==
    /\ device[d].state = "live" /\ enforce_umk_proof(p)
    /\ Takes(r, Writes("wrap", d, k, p, FALSE))

revoke_device(r, d, p) ==
    /\ device[d].state # "none" /\ enforce_umk_proof(p)
    /\ Takes(r, Writes("revoke", d, 0, p, device[d].wrap # 0))

\* A row for a device public key no live row has.  A row that is found gets a name and a time.
register_device(d) ==
    /\ profile.there /\ device[d].state = "none" /\ \A e \in 1..(d - 1): device[e].state # "none"
    /\ device' = [device EXCEPT ![d].state = "live"]
    /\ UNCHANGED <<profile, cache, req>>

(***************************************************************************)
(* get_current_user_id: check_device, then the handler                     *)
(***************************************************************************)
Scoped(op, phase, d, k) ==
    [Idle EXCEPT !.op = op, !.phase = phase, !.device = d, !.key = k,
                 !.wrap = IF op = "restore" /\ phase = "caching" THEN device[d].wrap ELSE 0,
                 !.late = op = "restore" /\ device[d].state = "revoked"]

\* Mutation: the row need not exist.
check_device_Unknown(r, op, d, k) ==
    \/ d \in cache /\ Takes(r, Scoped(op, "admitted", d, k))
    \/ device[d].state # "revoked" /\ Takes(r, Scoped(op, "caching", d, k))

\* Mutation: cached before it is looked at for a revocation.
check_device_Early(r, op, d, k) ==
    \/ d \in cache /\ Takes(r, Scoped(op, "admitted", d, k))
    \/ device[d].state # "none" /\ Takes(r, Scoped(op, "caching", d, k))

\* A cached answer is taken as it is.  Otherwise, or when Redis cannot be reached, the row is
\* read, into the session the handler goes on to use, and a live one is cached.
check_device(r, op, d, k) ==
    \/ d \in cache /\ Takes(r, Scoped(op, "admitted", d, k))
    \/ device[d].state = "live" /\ Takes(r, Scoped(op, "caching", d, k))

Caches(r) == req[r].phase = "caching" /\ cache' \in {cache, cache \cup {req[r].device}}

Answers(r, wrap) ==
    req' = [req EXCEPT ![r] = IF wrap = 0 THEN Idle ELSE [@ EXCEPT !.phase = "answered", !.wrap = 0]]

\* What a row read now lets a device have.
Readable(d) == IF device[d].state = "revoked" THEN 0 ELSE device[d].wrap

\* Mutation: the check at the door is trusted.
get_device_wrapped_umk_Trusting(r) ==
    /\ req[r].op = "restore"
    /\ \/ Caches(r) /\ Answers(r, req[r].wrap)
       \/ /\ req[r].phase = "admitted" /\ UNCHANGED cache
          /\ Answers(r, device[req[r].device].wrap)
    /\ UNCHANGED <<profile, device>>

\* The session may still hold the row check_device has loaded, and hand that back; it holds
\* it weakly, and what it has let go of it reads anew, as it does after a cached answer.
get_device_wrapped_umk(r) ==
    /\ req[r].op = "restore"
    /\ \/ Caches(r) /\ \E wrap \in {req[r].wrap, Readable(req[r].device)}: Answers(r, wrap)
       \/ /\ req[r].phase = "admitted" /\ UNCHANGED cache
          /\ Answers(r, Readable(req[r].device))
    /\ UNCHANGED <<profile, device>>

\* Mutation: the last identity key wins.
store_public_keys_Last(r) ==
    /\ req[r].op = "keys"
    /\ \/ Caches(r)
       \/ req[r].phase = "admitted" /\ UNCHANGED cache
    /\ req' = [req EXCEPT ![r] = [@ EXCEPT !.phase = "commit", !.wrap = profile.identity]]
    /\ UNCHANGED <<profile, device>>

\* 409 for another identity key than the one stored.
store_public_keys(r) ==
    /\ req[r].op = "keys"
    /\ \/ Caches(r)
       \/ req[r].phase = "admitted" /\ UNCHANGED cache
    /\ req' = [req EXCEPT ![r] = IF profile.identity \in {0, req[r].key}
                                 THEN [@ EXCEPT !.phase = "commit", !.wrap = profile.identity]
                                 ELSE Idle]
    /\ UNCHANGED <<profile, device>>

(***************************************************************************)
(* What it commits                                                         *)
(***************************************************************************)
Ends(r) == req' = [req EXCEPT ![r] = Idle]

\* Mutation: a stored hash is never replaced.
KeptProof_First(q) == IF q.proof # 0 /\ q.hash = 0 THEN q.proof ELSE profile.hash

\* The proof is written when it is not the one that was read.
KeptProof(q) == IF q.proof # 0 /\ q.proof # q.hash THEN q.proof ELSE profile.hash

Commits(r, op) == req[r].phase = "commit" /\ req[r].op = op

\* The primary key admits one.
CreateProfile(r) ==
    /\ Commits(r, "bootstrap") /\ Ends(r)
    /\ profile' = IF profile.there THEN profile ELSE [NoProfile EXCEPT !.there = TRUE]
    /\ UNCHANGED <<device, cache>>

WriteUmk(r) ==
    /\ Commits(r, "umk") \/ Commits(r, "reset")
    /\ Ends(r)
    /\ profile' = [profile EXCEPT !.envelope = req[r].key, !.hash = KeptProof(req[r])]
    /\ UNCHANGED <<device, cache>>

\* Clearing a column that was read as NULL writes nothing.
WriteRecovery(r) ==
    /\ Commits(r, "recovery") \/ Commits(r, "clear")
    /\ Ends(r)
    /\ profile' = [profile EXCEPT !.hash = KeptProof(req[r]),
                     !.recovery = IF req[r].op = "clear" /\ ~req[r].held THEN @ ELSE req[r].key]
    /\ UNCHANGED <<device, cache>>

WriteWrap(r) ==
    /\ Commits(r, "wrap") /\ Ends(r)
    /\ device' = [device EXCEPT ![req[r].device].wrap = req[r].key]
    /\ profile' = [profile EXCEPT !.hash = KeptProof(req[r])]
    /\ UNCHANGED cache

WriteRevoked(r) ==
    /\ Commits(r, "revoke") /\ req' = [req EXCEPT ![r] = [Idle EXCEPT !.phase = "forget", !.device = req[r].device]]
    /\ device' = [device EXCEPT ![req[r].device] =
                    [state |-> "revoked", wrap |-> IF req[r].held THEN 0 ELSE @.wrap]]
    /\ profile' = [profile EXCEPT !.hash = KeptProof(req[r])]
    /\ UNCHANGED cache

WriteIdentity(r) ==
    /\ Commits(r, "keys") /\ Ends(r)
    /\ profile' = [profile EXCEPT !.identity = IF req[r].wrap = req[r].key THEN @ ELSE req[r].key]
    /\ UNCHANGED <<device, cache>>

\* A failing Redis is logged; the key is then left to its time to live.
forget_device(r) ==
    /\ req[r].phase = "forget" /\ Ends(r)
    /\ cache' \in {cache, cache \ {req[r].device}}
    /\ UNCHANGED <<profile, device>>

Answered(r) ==
    /\ req[r].phase = "answered" /\ Ends(r)
    /\ UNCHANGED <<profile, device, cache>>

\* The client or the process goes away.
Dies(r) ==
    /\ req[r].phase \in {"commit", "forget"} /\ Ends(r)
    /\ UNCHANGED <<profile, device, cache>>

Lapse(d) ==
    /\ d \in cache /\ cache' = cache \ {d}
    /\ UNCHANGED <<profile, device, req>>

(***************************************************************************)
\* A client sends the proof of the key it holds, or none if it predates proofs.
Arrives(r) ==
    \/ ensure_profile(r)
    \/ \E k \in Keys, p \in Key: p \in {0, k} /\
          \/ set_wrapped_umk(r, k, p) \/ set_recovery_wrapped_umk(r, k, p)
          \/ \E d \in Devices: store_wrapped_umk(r, d, k, p)
    \/ \E k \in Keys: ResetUmk(r, k) \/ \E d \in Devices: check_device(r, "keys", d, k)
    \/ \E p \in Key: clear_recovery_wrapped_umk(r, p) \/ \E d \in Devices: revoke_device(r, d, p)
    \/ \E d \in Devices: check_device(r, "restore", d, 0)

Proceeds(r) ==
    \/ get_device_wrapped_umk(r) \/ store_public_keys(r)
    \/ CreateProfile(r) \/ WriteUmk(r) \/ WriteRecovery(r) \/ WriteWrap(r) \/ WriteRevoked(r)
    \/ WriteIdentity(r) \/ forget_device(r) \/ Answered(r)

Next ==
    \/ \E r \in Requests: Arrives(r) \/ Proceeds(r) \/ Dies(r)
    \/ \E d \in Devices: register_device(d) \/ Lapse(d)

\* Cached answers lapse.  No request has to go on.
Fairness == \A d \in Devices: WF_vars(Lapse(d))

Spec == Init /\ [][Next]_vars /\ Fairness

(***************************************************************************)
(* Properties                                                              *)
(***************************************************************************)
(* Revocation ends silent restore: a request of a device that was revoked  *)
(* before it began is never answered with a wrap, though a cached answer   *)
(* may still admit it and a wrap written by an overtaken request may still *)
(* be there.                                                               *)
RestoreEnds == \A r \in Requests: ~(req[r].phase = "answered" /\ req[r].late)

(* A revoked device is refused at the door in the end, whatever answers    *)
(* were being cached while it was revoked and whether or not Redis dropped *)
(* the one it had.                                                         *)
RefusedAtLast == \A d \in Devices: <>[](device[d].state = "revoked" => d \notin cache)

(* The password envelope, the recovery envelope and the wraps keep holding *)
(* the key whose proof is asked for, so that whoever can open one may      *)
(* change them.  A start over leaves the recovery envelope and the wraps   *)
(* behind, not the password envelope.  What breaks this is a key written   *)
(* with no proof, or by a request that another change of the hash overtook.*)
EnvelopeAgrees == profile.envelope \in {0, profile.hash}
WrapsAgree ==
    profile.recovery \in {0, profile.hash} /\ \A d \in Devices: device[d].wrap \in {0, profile.hash}

Ended(r) == req[r].phase = "commit" /\ req'[r].phase # "commit"
Excused(r) ==
    Ended(r) /\ (req[r].hash # profile.hash \/ (req[r].key # 0 /\ req[r].proof = 0))

KeysAgree ==
    [][\/ \E r \in Requests: Excused(r)
       \/ /\ EnvelopeAgrees => EnvelopeAgrees'
          /\ \/ WrapsAgree => WrapsAgree'
             \/ \E r \in Requests: Ended(r) /\ req[r].op = "reset"]_vars

(* An identity key stands for good once nobody is left who found none.     *)
IdentityStands ==
    [][/\ profile.identity # 0
       /\ \A r \in Requests: ~(Commits(r, "keys") /\ req[r].wrap = 0)
       => profile'.identity = profile.identity]_vars
=============================================================================
