---------------------------- MODULE DevicesProofs ----------------------------
(***************************************************************************)
(* Proofs about Devices: for any number of keys, devices and requests, the *)
(* state is well typed, a revoked device is never handed a wrap, the       *)
(* identity key stands, and the columns keep agreeing about the key.       *)
(***************************************************************************)
EXTENDS Devices, TLAPS

\* What a request about to commit has seen to.
Writable(q) ==
    /\ q.op = "keys" => q.wrap \in {0, q.key}
    /\ q.op \in {"umk", "reset", "recovery", "wrap"} => q.key # 0 /\ q.proof \in {0, q.key}
    /\ q.op \in {"clear", "revoke"} => q.key = 0
    /\ q.op \in {"umk", "recovery", "wrap", "clear", "revoke"} => q.hash = 0 \/ q.proof = q.hash

\* A request and the rows it is about.
Sane(q) ==
    /\ q \in Request
    /\ q.op \notin {"none", "bootstrap"} => profile.there = TRUE
    /\ q.phase \in {"caching", "admitted"} => q.device \in Devices /\ device[q.device].state # "none"
    /\ q.phase = "commit" => Writable(q)
    /\ q.late = TRUE => /\ q.phase = "admitted" /\ q.op = "restore"
                        /\ device[q.device].state = "revoked"

RowsInv ==
    /\ profile \in [there: BOOLEAN, hash: Key, envelope: Key, recovery: Key, identity: Key]
    /\ device \in [Devices -> [state: {"none", "live", "revoked"}, wrap: Key]]
    /\ cache \subseteq {d \in Devices : device[d].state # "none"}
    /\ profile.there = FALSE => profile = NoProfile
    /\ \A d \in Devices : device[d].state # "none" => profile.there = TRUE

\* The inductive invariant.
Inv ==
    /\ RowsInv
    /\ DOMAIN req = Requests /\ req = [r \in Requests |-> req[r]]
    /\ \A r \in Requests : Sane(req[r])

(***************************************************************************)
(* What a step may do to the rows without troubling a request it is not of *)
(***************************************************************************)

\* Rows only come, and a revoked device stays one.
Onward ==
    /\ profile.there = TRUE => profile'.there = TRUE
    /\ \A d \in Devices :
         /\ device[d].state # "none" => device'[d].state # "none"
         /\ device[d].state = "revoked" => device'[d].state = "revoked"

\* A request that a step leaves alone stays sane.
LEMMA SaneStays ==
    ASSUME NEW q, Sane(q), Onward
    PROVE  Sane(q)'
<1>1. q.late = TRUE => q.phase = "admitted"
  BY DEF Sane
<1>2. Writable(q)' <=> Writable(q)
  BY DEF Writable
<1> QED
  BY <1>1, <1>2 DEF Sane, Onward

\* One request moves, the rows go onward.
LEMMA OneMoves ==
    ASSUME Inv, NEW r \in Requests, NEW q, req' = [req EXCEPT ![r] = q], Sane(q)', Onward, RowsInv'
    PROVE  Inv'
<1>1. ASSUME NEW s \in Requests PROVE Sane(req[s])'
  <2>1. CASE s = r
    <3>1. req'[s] = q
      BY <2>1 DEF Inv
    <3> QED
      BY <3>1 DEF Sane, Writable
  <2>2. CASE s # r
    <3>1. req'[s] = req[s]
      BY <2>2 DEF Inv
    <3>2. Sane(req[s])
      BY DEF Inv
    <3> HIDE DEF Sane
    <3> DEFINE o == req[s]
    <3>3. /\ o \in Request
          /\ o.op \notin {"none", "bootstrap"} => profile'.there = TRUE
          /\ o.phase \in {"caching", "admitted"} => o.device \in Devices /\ device'[o.device].state # "none"
          /\ o.phase = "commit" => Writable(o)
          /\ o.late = TRUE => /\ o.phase = "admitted" /\ o.op = "restore"
                              /\ device'[o.device].state = "revoked"
      BY <3>2 DEF Sane, Onward
    <3> QED
      BY <3>1, <3>3 DEF Sane, Writable, Request
  <2> QED
    BY <2>1, <2>2
<1>2. DOMAIN req' = Requests /\ req' = [s \in Requests |-> req'[s]]
  BY DEF Inv
<1> QED
  BY <1>1, <1>2 DEF Inv

\* A request that begins changes no row.
LEMMA OneArrives ==
    ASSUME Inv, NEW r \in Requests, NEW q, Takes(r, q), Sane(q)
    PROVE  Inv'
<1>1. Onward /\ RowsInv'
  BY DEF Onward, RowsInv, Takes, Inv
<1>2. Sane(q)'
  BY <1>1, SaneStays
<1>3. req' = [req EXCEPT ![r] = q]
  BY DEF Takes
<1> QED
  BY <1>1, <1>2, <1>3, OneMoves

(***************************************************************************)
(* The invariant                                                           *)
(***************************************************************************)
LEMMA InitInv == Init => Inv
<1> SUFFICES ASSUME Init PROVE Inv
  OBVIOUS
<1>1. RowsInv
  BY DevicesConstants DEF Init, RowsInv, NoProfile, NoDevice, Key
<1>2. Sane(Idle)
  <2>1. Idle \in Request
    BY DevicesConstants DEF Idle, Request, Key
  <2> QED
    BY <2>1 DEF Idle, Sane
<1>3. \A r \in Requests : req[r] = Idle
  BY DEF Init
<1>4. \A r \in Requests : Sane(req[r])
  BY <1>2, <1>3
<1> QED
  BY <1>1, <1>4 DEF Inv, Init

\* A request that comes with a proof the profile asks for, or with a new key.
LEMMA WritesSane ==
    ASSUME Inv, profile.there = TRUE,
           NEW op \in {"umk", "reset", "recovery", "clear", "wrap", "revoke"},
           NEW d \in 0..MaxDevices, NEW k \in Key, NEW p \in Key, NEW held \in BOOLEAN,
           op \notin {"clear", "revoke"} => k # 0 /\ p \in {0, k},
           op \in {"clear", "revoke"} => k = 0,
           op # "reset" => profile.hash = 0 \/ p = profile.hash
    PROVE  Sane(Writes(op, d, k, p, held))
<1> DEFINE q == Writes(op, d, k, p, held)
<1>1. profile.hash \in Key /\ 0 \in Key
  BY DevicesConstants DEF Inv, RowsInv, Key
<1>2. /\ q.op = op /\ q.phase = "commit" /\ q.key = k /\ q.proof = p /\ q.hash = profile.hash
      /\ q.late = FALSE
  BY DEF Writes, Idle
<1>3. q \in Request
  BY <1>1, DevicesConstants DEF Request, Writes, Idle
<1>4. Writable(q)
  BY <1>2 DEF Writable
<1> HIDE DEF q
<1>5. Sane(q)
  BY <1>2, <1>3, <1>4 DEF Sane
<1> QED
  BY <1>5 DEF q

LEMMA ScopedSane ==
    ASSUME Inv, NEW op \in {"keys", "restore"}, NEW phase \in {"caching", "admitted"},
           NEW d \in Devices, NEW k \in Key, device[d].state # "none",
           phase = "caching" => device[d].state = "live"
    PROVE  Sane(Scoped(op, phase, d, k))
<1> DEFINE q == Scoped(op, phase, d, k)
<1>1. device[d].wrap \in Key /\ 0 \in Key /\ d \in 0..MaxDevices /\ profile.there = TRUE
  BY DevicesConstants DEF Inv, RowsInv, Key, Devices
<1>2. /\ q.op = op /\ q.phase = phase /\ q.device = d
      /\ q.late = TRUE => op = "restore" /\ device[d].state = "revoked"
  BY DEF Scoped, Idle
<1>3. q \in Request
  BY <1>1 DEF Scoped, Idle, Request
<1> HIDE DEF q
<1>4. Sane(q)
  BY <1>1, <1>2, <1>3 DEF Sane
<1> QED
  BY <1>4 DEF q

LEMMA ArrivesKeepsInv == ASSUME Inv, NEW r \in Requests, Arrives(r) PROVE Inv'
<1> USE DEF Devices
<1>0. 0 \in Key /\ Keys \subseteq Key \ {0} /\ 0 \in 0..MaxDevices /\ Devices \subseteq 0..MaxDevices
  BY DevicesConstants DEF Key, Keys
<1>a. \A p \in Key : enforce_umk_proof(p) => profile.there = TRUE /\ (profile.hash = 0 \/ p = profile.hash)
  BY DEF enforce_umk_proof, Inv, RowsInv
<1>1. CASE ensure_profile(r)
  <2>1. Sane(Writes("bootstrap", 0, 0, 0, FALSE))
    <3> DEFINE q == Writes("bootstrap", 0, 0, 0, FALSE)
    <3>1. q \in Request
      BY <1>0 DEF Writes, Idle, Request, Inv, RowsInv
    <3>2. q.op = "bootstrap" /\ q.phase = "commit" /\ q.late = FALSE
      BY DEF Writes, Idle
    <3> HIDE DEF q
    <3>3. Sane(q)
      BY <3>1, <3>2 DEF Sane, Writable
    <3> QED
      BY <3>3 DEF q
  <2> QED
    BY <1>1, <2>1, OneArrives DEF ensure_profile
<1>2. ASSUME NEW k \in Keys, NEW p \in Key, p \in {0, k},
             \/ set_wrapped_umk(r, k, p) \/ set_recovery_wrapped_umk(r, k, p)
             \/ \E d \in Devices : store_wrapped_umk(r, d, k, p)
      PROVE  Inv'
  <2>1. CASE set_wrapped_umk(r, k, p)
    <3>1. Sane(Writes("umk", 0, k, p, FALSE))
      BY <1>0, <1>a, <1>2, <2>1, WritesSane DEF set_wrapped_umk
    <3> QED
      BY <2>1, <3>1, OneArrives DEF set_wrapped_umk
  <2>2. CASE set_recovery_wrapped_umk(r, k, p)
    <3>1. Sane(Writes("recovery", 0, k, p, FALSE))
      BY <1>0, <1>a, <1>2, <2>2, WritesSane DEF set_recovery_wrapped_umk
    <3> QED
      BY <2>2, <3>1, OneArrives DEF set_recovery_wrapped_umk
  <2>3. ASSUME NEW d \in Devices, store_wrapped_umk(r, d, k, p) PROVE Inv'
    <3>1. Sane(Writes("wrap", d, k, p, FALSE))
      BY <1>0, <1>a, <1>2, <2>3, WritesSane DEF store_wrapped_umk
    <3> QED
      BY <2>3, <3>1, OneArrives DEF store_wrapped_umk
  <2> QED
    BY <1>2, <2>1, <2>2, <2>3
<1>3. ASSUME NEW k \in Keys, ResetUmk(r, k) PROVE Inv'
  <2>1. Sane(Writes("reset", 0, k, k, FALSE))
    BY <1>0, <1>3, WritesSane DEF ResetUmk, Inv, RowsInv
  <2> QED
    BY <1>3, <2>1, OneArrives DEF ResetUmk
<1>4. ASSUME NEW p \in Key, clear_recovery_wrapped_umk(r, p) PROVE Inv'
  <2>1. Sane(Writes("clear", 0, 0, p, profile.recovery # 0))
    BY <1>0, <1>a, <1>4, WritesSane DEF clear_recovery_wrapped_umk
  <2> QED
    BY <1>4, <2>1, OneArrives DEF clear_recovery_wrapped_umk
<1>5. ASSUME NEW p \in Key, NEW d \in Devices, revoke_device(r, d, p) PROVE Inv'
  <2>1. Sane(Writes("revoke", d, 0, p, device[d].wrap # 0))
    BY <1>0, <1>a, <1>5, WritesSane DEF revoke_device
  <2> QED
    BY <1>5, <2>1, OneArrives DEF revoke_device
<1>6. ASSUME NEW op \in {"keys", "restore"}, NEW d \in Devices, NEW k \in Key, check_device(r, op, d, k)
      PROVE  Inv'
  <2>1. CASE d \in cache /\ Takes(r, Scoped(op, "admitted", d, k))
    <3>1. Sane(Scoped(op, "admitted", d, k))
      BY <2>1, ScopedSane DEF Inv, RowsInv
    <3> QED
      BY <2>1, <3>1, OneArrives
  <2>2. CASE device[d].state = "live" /\ Takes(r, Scoped(op, "caching", d, k))
    <3>1. Sane(Scoped(op, "caching", d, k))
      BY <2>2, ScopedSane
    <3> QED
      BY <2>2, <3>1, OneArrives
  <2> QED
    BY <1>6, <2>1, <2>2 DEF check_device
<1> QED
  BY <1>0, <1>1, <1>2, <1>3, <1>4, <1>5, <1>6 DEF Arrives

LEMMA IdleSane == Sane(Idle)'
<1>1. Idle \in Request
  BY DevicesConstants DEF Idle, Request, Key
<1> QED
  BY <1>1 DEF Idle, Sane

\* A request that ends after changing rows, or none.
LEMMA OneEnds == ASSUME Inv, NEW r \in Requests, Ends(r), Onward, RowsInv' PROVE Inv'
BY OneMoves, IdleSane DEF Ends

\* A request that answers from its device's row, or finds nothing there.
LEMMA OneAnswers ==
    ASSUME Inv, NEW r \in Requests, NEW wrap, Answers(r, wrap), Onward, RowsInv',
           wrap # 0 => req[r].late = FALSE
    PROVE  Inv'
<1>1. CASE wrap = 0
  BY <1>1, OneMoves, IdleSane DEF Answers
<1>2. CASE wrap # 0
  <2>0. PICK q : q = [req[r] EXCEPT !.phase = "answered", !.wrap = 0]
    OBVIOUS
  <2>1. req[r] \in Request /\ Sane(req[r]) /\ 0 \in Key
    BY DevicesConstants DEF Inv, Sane, Key
  <2>2. q \in Request
    BY <2>0, <2>1 DEF Request
  <2>3. q.op = req[r].op /\ q.phase = "answered" /\ q.late = FALSE
    BY <1>2, <2>0, <2>1 DEF Request
  <2>4. req' = [req EXCEPT ![r] = q]
    BY <1>2, <2>0 DEF Answers
  <2>5. Sane(q)
    BY <2>1, <2>2, <2>3 DEF Sane
  <2>6. Sane(q)'
    BY <2>5, SaneStays
  <2> QED
    BY <2>4, <2>6, OneMoves
<1> QED
  BY <1>1, <1>2

\* The cache gains the device of a request that is in it.
LEMMA CachesKeepsRows ==
    ASSUME Inv, NEW r \in Requests, Caches(r), UNCHANGED <<profile, device>>
    PROVE  Onward /\ RowsInv'
<1>1. req[r].device \in Devices /\ device[req[r].device].state # "none"
  BY DEF Inv, Sane, Caches
<1> QED
  BY <1>1 DEF Inv, RowsInv, Onward, Caches

\* Rows that are left alone, whatever leaves the cache.
LEMMA SameRows ==
    ASSUME Inv, UNCHANGED <<profile, device>>, cache' \subseteq cache
    PROVE  Onward /\ RowsInv'
BY DEF Inv, RowsInv, Onward

LEMMA RestoreKeepsInv ==
    ASSUME Inv, NEW r \in Requests, get_device_wrapped_umk(r) PROVE Inv'
<1>0. Sane(req[r])
  BY DEF Inv
<1>1. ASSUME Caches(r), NEW wrap, Answers(r, wrap) PROVE Inv'
  <2>1. req[r].late = FALSE
    BY <1>0, <1>1 DEF Sane, Caches, Request
  <2> QED
    BY <1>1, <2>1, CachesKeepsRows, OneAnswers DEF get_device_wrapped_umk
<1>2. CASE /\ req[r].phase = "admitted" /\ UNCHANGED cache
           /\ Answers(r, Readable(req[r].device))
  <2> DEFINE w == Readable(req[r].device)
  <2>1. w # 0 => req[r].late = FALSE
    BY <1>0 DEF Sane, Request, Readable
  <2>2. Onward /\ RowsInv'
    BY <1>2, SameRows DEF get_device_wrapped_umk
  <2> HIDE DEF w
  <2>3. Answers(r, w)
    BY <1>2 DEF w
  <2> QED
    BY <2>1, <2>2, <2>3, OneAnswers
<1> QED
  BY <1>1, <1>2 DEF get_device_wrapped_umk

LEMMA KeysKeepsInv ==
    ASSUME Inv, NEW r \in Requests, store_public_keys(r) PROVE Inv'
<1>0. Sane(req[r]) /\ req[r] \in Request /\ req[r].op = "keys" /\ profile.identity \in Key
  BY DEF Inv, Sane, store_public_keys, RowsInv
<1>1. Onward /\ RowsInv'
  BY CachesKeepsRows, SameRows DEF store_public_keys
<1>2. CASE profile.identity \in {0, req[r].key}
  <2>0. PICK q : q = [req[r] EXCEPT !.phase = "commit", !.wrap = profile.identity]
    OBVIOUS
  <2>1. q \in Request
    BY <1>0, <2>0 DEF Request
  <2>2. /\ q.op = "keys" /\ q.phase = "commit" /\ q.wrap = profile.identity /\ q.key = req[r].key
        /\ q.late = req[r].late
    BY <1>0, <2>0 DEF Request
  <2>3. req' = [req EXCEPT ![r] = q]
    BY <1>2, <2>0 DEF store_public_keys
  <2>4. profile.there = TRUE /\ req[r].late # TRUE
    BY <1>0 DEF Sane
  <2>5. Sane(q)
    BY <1>2, <2>1, <2>2, <2>4 DEF Sane, Writable
  <2>6. Sane(q)'
    BY <1>1, <2>5, SaneStays
  <2> QED
    BY <1>1, <2>3, <2>6, OneMoves
<1>3. CASE profile.identity \notin {0, req[r].key}
  BY <1>1, <1>3, OneEnds DEF store_public_keys, Ends
<1> QED
  BY <1>2, <1>3

(***************************************************************************)
(* Commits                                                                 *)
(***************************************************************************)

\* Writes to an account that is there keep its rows well typed.
LEMMA ProfileWrites ==
    ASSUME Inv, profile.there = TRUE, UNCHANGED <<device, cache>>,
           NEW h \in Key, NEW e \in Key, NEW c \in Key, NEW i \in Key,
           profile' = [profile EXCEPT !.hash = h, !.envelope = e, !.recovery = c, !.identity = i]
    PROVE  Onward /\ RowsInv'
<1>1. profile' \in [there: BOOLEAN, hash: Key, envelope: Key, recovery: Key, identity: Key] /\ profile'.there = TRUE
  BY DEF Inv, RowsInv
<1> QED
  BY <1>1 DEF Inv, RowsInv, Onward

LEMMA KeptProofTyped == ASSUME Inv, NEW q \in Request PROVE KeptProof(q) \in Key
BY DEF Inv, RowsInv, KeptProof, Request

LEMMA CreateKeepsInv == ASSUME Inv, NEW r \in Requests, CreateProfile(r) PROVE Inv'
<1>1. Onward /\ RowsInv'
  <2>1. CASE profile.there = TRUE
    BY <2>1, SameRows DEF CreateProfile
  <2>2. CASE profile.there = FALSE
    <3>1. profile' = [NoProfile EXCEPT !.there = TRUE] /\ 0 \in Key
      BY <2>2, DevicesConstants DEF CreateProfile, Key
    <3>2. /\ profile' \in [there: BOOLEAN, hash: Key, envelope: Key, recovery: Key, identity: Key]
          /\ profile'.there = TRUE
      BY <3>1 DEF NoProfile
    <3> QED
      BY <2>2, <3>2 DEF CreateProfile, Inv, RowsInv, Onward
  <2> QED
    BY <2>1, <2>2 DEF Inv, RowsInv
<1> QED
  BY <1>1, OneEnds DEF CreateProfile

\* Every other commit finds an account.
LEMMA CommitsThere ==
    ASSUME Inv, NEW r \in Requests, NEW op, op # "bootstrap", op # "none", Commits(r, op)
    PROVE  profile.there = TRUE /\ req[r] \in Request /\ Sane(req[r])
BY DEF Inv, Sane, Commits

LEMMA UmkKeepsInv == ASSUME Inv, NEW r \in Requests, WriteUmk(r) PROVE Inv'
<1>0. UNCHANGED <<device, cache>>
  BY DEF WriteUmk
<1>1. profile.there = TRUE /\ req[r] \in Request
  BY CommitsThere DEF WriteUmk
<1>2. profile' = [profile EXCEPT !.hash = KeptProof(req[r]), !.envelope = req[r].key,
                                 !.recovery = profile.recovery, !.identity = profile.identity]
  BY DEF WriteUmk, Inv, RowsInv
<1>3. KeptProof(req[r]) \in Key /\ req[r].key \in Key /\ profile.recovery \in Key /\ profile.identity \in Key
  BY <1>1, KeptProofTyped DEF Request, Inv, RowsInv
<1>4. Onward /\ RowsInv'
  BY <1>0, <1>1, <1>2, <1>3, ProfileWrites
<1> QED
  BY <1>4, OneEnds DEF WriteUmk

LEMMA RecoveryKeepsInv == ASSUME Inv, NEW r \in Requests, WriteRecovery(r) PROVE Inv'
<1>0. UNCHANGED <<device, cache>>
  BY DEF WriteRecovery
<1>1. profile.there = TRUE /\ req[r] \in Request
  BY CommitsThere DEF WriteRecovery
<1>2. PICK c \in Key : profile' = [profile EXCEPT !.hash = KeptProof(req[r]), !.envelope = profile.envelope,
                                 !.recovery = c, !.identity = profile.identity]
  BY <1>1 DEF WriteRecovery, Inv, RowsInv, Request
<1>3. KeptProof(req[r]) \in Key /\ profile.envelope \in Key /\ profile.identity \in Key
  BY <1>1, KeptProofTyped DEF Inv, RowsInv
<1>4. Onward /\ RowsInv'
  BY <1>0, <1>1, <1>2, <1>3, ProfileWrites
<1> QED
  BY <1>4, OneEnds DEF WriteRecovery

LEMMA IdentityKeepsInv == ASSUME Inv, NEW r \in Requests, WriteIdentity(r) PROVE Inv'
<1>0. UNCHANGED <<device, cache>>
  BY DEF WriteIdentity
<1>1. profile.there = TRUE /\ req[r] \in Request
  BY CommitsThere DEF WriteIdentity
<1>2. PICK i \in Key : profile' = [profile EXCEPT !.hash = profile.hash, !.envelope = profile.envelope,
                                 !.recovery = profile.recovery, !.identity = i]
  BY <1>1 DEF WriteIdentity, Inv, RowsInv, Request
<1>3. profile.hash \in Key /\ profile.envelope \in Key /\ profile.recovery \in Key
  BY DEF Inv, RowsInv
<1>4. Onward /\ RowsInv'
  BY <1>0, <1>1, <1>2, <1>3, ProfileWrites
<1> QED
  BY <1>4, OneEnds DEF WriteIdentity

\* The same when a row of the device that is there, or a new one, changes with it.
LEMMA DeviceWrites ==
    ASSUME Inv, profile.there = TRUE, UNCHANGED cache, NEW h \in Key,
           profile' = [profile EXCEPT !.hash = h],
           NEW d, NEW row \in [state: {"live", "revoked"}, wrap: Key],
           device' = [device EXCEPT ![d] = row],
           d \in Devices /\ device[d].state = "revoked" => row.state = "revoked"
    PROVE  Onward /\ RowsInv'
<1>1. profile' \in [there: BOOLEAN, hash: Key, envelope: Key, recovery: Key, identity: Key] /\ profile'.there = TRUE
  BY DEF Inv, RowsInv
<1>2. \A e \in Devices : device'[e] = IF e = d THEN row ELSE device[e]
  BY DEF Inv, RowsInv
<1>3. device' \in [Devices -> [state: {"none", "live", "revoked"}, wrap: Key]]
  BY DEF Inv, RowsInv
<1> QED
  BY <1>1, <1>2, <1>3 DEF Inv, RowsInv, Onward

LEMMA RegisterKeepsInv == ASSUME Inv, NEW d \in Devices, register_device(d) PROVE Inv'
<1>1. Onward /\ RowsInv'
  <2>1. PICK row : row = [device[d] EXCEPT !.state = "live"]
    OBVIOUS
  <2>2. row \in [state: {"live", "revoked"}, wrap: Key]
    BY <2>1 DEF Inv, RowsInv
  <2>3. device' = [device EXCEPT ![d] = row] /\ device[d].state = "none" /\ profile.there = TRUE
    BY <2>1 DEF register_device, Inv, RowsInv
  <2>4. profile' = [profile EXCEPT !.hash = profile.hash] /\ profile.hash \in Key
    BY DEF register_device, Inv, RowsInv
  <2> QED
    BY <2>2, <2>3, <2>4, DeviceWrites DEF register_device
<1>2. \A r \in Requests : Sane(req[r])'
  <2> SUFFICES ASSUME NEW r \in Requests PROVE Sane(req[r])'
    OBVIOUS
  <2>1. PICK q : q = req[r]
    OBVIOUS
  <2>2. Sane(q)'
    BY <1>1, <2>1, SaneStays DEF Inv
  <2>3. req'[r] = q
    BY <2>1 DEF register_device
  <2> QED
    BY <2>2, <2>3 DEF Sane, Writable
<1> QED
  BY <1>1, <1>2 DEF Inv, register_device

LEMMA WrapKeepsInv == ASSUME Inv, NEW r \in Requests, WriteWrap(r) PROVE Inv'
<1>1. profile.there = TRUE /\ req[r] \in Request
  BY CommitsThere DEF WriteWrap
<1>2. PICK h \in Key : profile' = [profile EXCEPT !.hash = h]
  BY <1>1, KeptProofTyped DEF WriteWrap
<1>3. \A e \in Devices : device'[e].state = device[e].state
  BY DEF WriteWrap, Inv, RowsInv
<1>4. device' \in [Devices -> [state: {"none", "live", "revoked"}, wrap: Key]]
  <2>1. req[r].key \in Key
    BY <1>1 DEF Request
  <2>2. DOMAIN device' = Devices /\ device' = [e \in Devices |-> device'[e]]
    BY DEF WriteWrap, Inv, RowsInv
  <2>3. \A e \in Devices : device'[e] \in [state: {"none", "live", "revoked"}, wrap: Key]
    BY <2>1 DEF WriteWrap, Inv, RowsInv
  <2> QED
    BY <2>2, <2>3
<1>5. Onward /\ RowsInv'
  BY <1>1, <1>2, <1>3, <1>4 DEF WriteWrap, Inv, RowsInv, Onward
<1> QED
  BY <1>5, OneEnds DEF WriteWrap

LEMMA RevokedKeepsInv == ASSUME Inv, NEW r \in Requests, WriteRevoked(r) PROVE Inv'
<1>1. profile.there = TRUE /\ req[r] \in Request
  BY CommitsThere DEF WriteRevoked
<1>2. PICK h \in Key : profile' = [profile EXCEPT !.hash = h]
  BY <1>1, KeptProofTyped DEF WriteRevoked
<1>3. PICK d : d = req[r].device
  OBVIOUS
<1>4. PICK row : row = [state |-> "revoked", wrap |-> IF req[r].held THEN 0 ELSE device[d].wrap]
  OBVIOUS
<1>5. \A e \in Devices : device'[e] = IF e = d THEN row ELSE device[e]
  BY <1>3, <1>4 DEF WriteRevoked, Inv, RowsInv
<1>6. d \in Devices => row \in [state: {"none", "live", "revoked"}, wrap: Key] /\ row.state = "revoked"
  BY <1>4, DevicesConstants DEF Inv, RowsInv, Key
<1>7. device' \in [Devices -> [state: {"none", "live", "revoked"}, wrap: Key]]
  <2>1. DOMAIN device' = Devices /\ device' = [e \in Devices |-> device'[e]]
    BY DEF WriteRevoked, Inv, RowsInv
  <2>2. \A e \in Devices : device'[e] \in [state: {"none", "live", "revoked"}, wrap: Key]
    BY <1>5, <1>6 DEF Inv, RowsInv
  <2> QED
    BY <2>1, <2>2
<1>8. Onward /\ RowsInv'
  BY <1>1, <1>2, <1>5, <1>6, <1>7 DEF WriteRevoked, Inv, RowsInv, Onward
<1>9. PICK q : q = [Idle EXCEPT !.phase = "forget", !.device = req[r].device]
  OBVIOUS
<1>10. q \in Request
  <2>1. req[r].device \in 0..MaxDevices
    BY <1>1 DEF Request
  <2>2. Idle \in Request
    BY DevicesConstants DEF Idle, Request, Key
  <2> QED
    BY <1>9, <2>1, <2>2 DEF Request
<1>11. q.op = "none" /\ q.phase = "forget" /\ q.late = FALSE
  BY <1>9 DEF Idle
<1>12. Sane(q)'
  BY <1>10, <1>11 DEF Sane
<1>13. req' = [req EXCEPT ![r] = q]
  BY <1>9 DEF WriteRevoked
<1> QED
  BY <1>8, <1>12, <1>13, OneMoves

LEMMA StepKeepsInv == ASSUME Inv, [Next]_vars PROVE Inv'
<1>1. ASSUME NEW r \in Requests, Arrives(r) PROVE Inv'
  BY <1>1, ArrivesKeepsInv
<1>2. ASSUME NEW r \in Requests, Proceeds(r) PROVE Inv'
  <2>1. CASE get_device_wrapped_umk(r) \/ store_public_keys(r)
    BY <2>1, RestoreKeepsInv, KeysKeepsInv
  <2>2. CASE CreateProfile(r) \/ WriteUmk(r) \/ WriteRecovery(r) \/ WriteIdentity(r)
    BY <2>2, CreateKeepsInv, UmkKeepsInv, RecoveryKeepsInv, IdentityKeepsInv
  <2>3. CASE WriteWrap(r) \/ WriteRevoked(r)
    BY <2>3, WrapKeepsInv, RevokedKeepsInv
  <2>4. CASE forget_device(r) \/ Answered(r)
    <3>1. UNCHANGED <<profile, device>> /\ cache' \subseteq cache /\ Ends(r)
      BY <2>4 DEF forget_device, Answered
    <3> QED
      BY <3>1, SameRows, OneEnds
  <2> QED
    BY <1>2, <2>1, <2>2, <2>3, <2>4 DEF Proceeds
<1>3. ASSUME NEW r \in Requests, Dies(r) PROVE Inv'
  <2>1. UNCHANGED <<profile, device>> /\ cache' \subseteq cache /\ Ends(r)
    BY <1>3 DEF Dies
  <2> QED
    BY <2>1, SameRows, OneEnds
<1>4. ASSUME NEW d \in Devices, register_device(d) PROVE Inv'
  BY <1>4, RegisterKeepsInv
<1>5. ASSUME NEW d \in Devices, Lapse(d) PROVE Inv'
  <2>1. RowsInv' /\ Onward
    BY <1>5, SameRows DEF Lapse
  <2> QED
    BY <1>5, <2>1 DEF Lapse, Inv, Sane, Writable
<1>6. CASE UNCHANGED vars
  BY <1>6 DEF vars, Inv, RowsInv, Sane, Writable
<1> QED
  BY <1>1, <1>2, <1>3, <1>4, <1>5, <1>6 DEF Next

LEMMA SpecInv == Spec => []Inv
BY InitInv, StepKeepsInv, PTL DEF Spec

LEMMA InvTypes == Inv => TypeOK
BY DEF Inv, RowsInv, Sane, TypeOK

(* auth/service.py, dependencies.py: every reachable state is well typed,  *)
(* and only devices that have a row are ever cached as good.               *)
THEOREM DevicesTypes == Spec => []TypeOK
BY SpecInv, InvTypes, PTL

(* auth/service.py:402-407: a request of a device that was revoked before  *)
(* it began is never answered with a wrap, for any number of keys, devices *)
(* and requests under way, whatever the cache holds.                       *)
THEOREM SpecRestoreEnds == Spec => []RestoreEnds
<1>1. Inv => RestoreEnds
  BY DEF Inv, Sane, RestoreEnds
<1> QED
  BY <1>1, SpecInv, PTL

(***************************************************************************)
(* The identity key                                                        *)
(***************************************************************************)
IdentityStep ==
    /\ profile.identity # 0
    /\ \A r \in Requests : ~(Commits(r, "keys") /\ req[r].wrap = 0)
    => profile'.identity = profile.identity

LEMMA StepIdentity == ASSUME Inv, Next PROVE IdentityStep
<1> SUFFICES ASSUME profile.identity # 0, \A r \in Requests : ~(Commits(r, "keys") /\ req[r].wrap = 0)
             PROVE  profile'.identity = profile.identity
  BY DEF IdentityStep
<1>0. /\ profile \in [there: BOOLEAN, hash: Key, envelope: Key, recovery: Key, identity: Key]
      /\ profile.there = TRUE
  BY DEF Inv, RowsInv, NoProfile
<1>1. ASSUME NEW r \in Requests, Arrives(r) PROVE profile' = profile
  BY <1>1 DEF Arrives, Takes, ensure_profile, set_wrapped_umk, ResetUmk, set_recovery_wrapped_umk,
              clear_recovery_wrapped_umk, store_wrapped_umk, revoke_device, check_device
<1>2. ASSUME NEW r \in Requests, Proceeds(r) PROVE profile'.identity = profile.identity
  <2>1. CASE WriteIdentity(r)
    <3>1. req[r].wrap \in {0, req[r].key}
      BY <2>1 DEF Inv, Sane, Writable, WriteIdentity, Commits
    <3>2. req[r].wrap = req[r].key
      BY <2>1, <3>1 DEF WriteIdentity
    <3> QED
      BY <1>0, <2>1, <3>2 DEF WriteIdentity
  <2>2. CASE CreateProfile(r)
    BY <1>0, <2>2 DEF CreateProfile
  <2>3. CASE WriteUmk(r)
    BY <1>0, <2>3 DEF WriteUmk
  <2>4. CASE WriteRecovery(r)
    BY <1>0, <2>4 DEF WriteRecovery
  <2>5. CASE WriteWrap(r) \/ WriteRevoked(r)
    BY <1>0, <2>5 DEF WriteWrap, WriteRevoked
  <2>6. CASE get_device_wrapped_umk(r) \/ store_public_keys(r) \/ forget_device(r) \/ Answered(r)
    BY <2>6 DEF get_device_wrapped_umk, store_public_keys, forget_device, Answered
  <2> QED
    BY <1>2, <2>1, <2>2, <2>3, <2>4, <2>5, <2>6 DEF Proceeds
<1>3. ASSUME \/ \E r \in Requests : Dies(r)
             \/ \E d \in Devices : register_device(d) \/ Lapse(d)
      PROVE  profile' = profile
  BY <1>3 DEF Dies, register_device, Lapse
<1> QED
  BY <1>1, <1>2, <1>3 DEF Next

(* auth/service.py:351-371: once an identity key is there and nobody is    *)
(* left who found none, it is never replaced.                              *)
THEOREM SpecIdentityStands == Spec => IdentityStands
<1>1. Inv /\ [Next]_vars => [IdentityStep]_vars
  BY StepIdentity
<1>2. Spec => [][IdentityStep]_vars
  BY <1>1, SpecInv, PTL DEF Spec
<1> QED
  BY <1>2, PTL DEF IdentityStands, IdentityStep

(***************************************************************************)
(* What the columns are keyed with                                         *)
(***************************************************************************)
KeysStep ==
    \/ \E r \in Requests : Excused(r)
    \/ /\ EnvelopeAgrees => EnvelopeAgrees'
       /\ \/ WrapsAgree => WrapsAgree'
          \/ \E r \in Requests : Ended(r) /\ req[r].op = "reset"

\* The columns a step leaves alone, with the hash.
LEMMA SameKeys ==
    ASSUME profile'.hash = profile.hash, profile'.envelope = profile.envelope,
           profile'.recovery = profile.recovery, \A d \in Devices : device'[d].wrap = device[d].wrap
    PROVE  KeysStep
BY DEF KeysStep, EnvelopeAgrees, WrapsAgree

\* A request that commits with a proof, and that no change of the hash overtook.
LEMMA NotExcused ==
    ASSUME Inv, NEW r \in Requests, req[r].phase = "commit", Ends(r), ~Excused(r)
    PROVE  /\ Ended(r) /\ req[r].hash = profile.hash /\ Sane(req[r])
           /\ req[r].key # 0 => req[r].proof # 0
           /\ KeptProof(req[r]) = IF req[r].proof = 0 THEN profile.hash ELSE req[r].proof
<1>1. Ended(r)
  BY DEF Ended, Ends, Idle, Inv
<1> QED
  BY <1>1 DEF Excused, KeptProof, Inv

LEMMA StepKeys == ASSUME Inv, Next PROVE KeysStep
<1> SUFFICES ASSUME \A r \in Requests : ~Excused(r) PROVE KeysStep
  BY DEF KeysStep
<1>0. /\ profile \in [there: BOOLEAN, hash: Key, envelope: Key, recovery: Key, identity: Key]
      /\ device \in [Devices -> [state: {"none", "live", "revoked"}, wrap: Key]]
  BY DEF Inv, RowsInv
<1>1. ASSUME NEW r \in Requests, Arrives(r) PROVE UNCHANGED <<profile, device>>
  BY <1>1 DEF Arrives, Takes, ensure_profile, set_wrapped_umk, ResetUmk, set_recovery_wrapped_umk,
              clear_recovery_wrapped_umk, store_wrapped_umk, revoke_device, check_device
<1>2. ASSUME NEW r \in Requests, Proceeds(r) PROVE KeysStep
  <2>1. CASE CreateProfile(r)
    <3>1. profile.there = FALSE => profile = NoProfile
      BY DEF Inv, RowsInv
    <3> QED
      BY <1>0, <2>1, <3>1, SameKeys DEF CreateProfile, NoProfile
  <2>2. CASE WriteUmk(r)
    <3>1. /\ Ended(r) /\ req[r].hash = profile.hash /\ Writable(req[r])
          /\ req[r].key # 0 => req[r].proof # 0
          /\ KeptProof(req[r]) = IF req[r].proof = 0 THEN profile.hash ELSE req[r].proof
      BY <2>2, NotExcused DEF WriteUmk, Commits, Sane
    <3>2. /\ profile'.envelope = req[r].key /\ profile'.hash = req[r].key
          /\ profile'.recovery = profile.recovery /\ device' = device
      BY <1>0, <2>2, <3>1 DEF WriteUmk, Commits, Writable
    <3>3. CASE req[r].op = "reset"
      BY <3>1, <3>2, <3>3 DEF KeysStep, EnvelopeAgrees
    <3>4. CASE req[r].op = "umk"
      BY <3>1, <3>2, <3>4 DEF KeysStep, EnvelopeAgrees, WrapsAgree, Writable
    <3> QED
      BY <2>2, <3>3, <3>4 DEF WriteUmk, Commits
  <2>3. CASE WriteRecovery(r)
    <3>1. /\ req[r].hash = profile.hash /\ Writable(req[r])
          /\ req[r].key # 0 => req[r].proof # 0
          /\ KeptProof(req[r]) = IF req[r].proof = 0 THEN profile.hash ELSE req[r].proof
      BY <2>3, NotExcused DEF WriteRecovery, Commits, Sane
    <3>2. /\ profile'.hash = KeptProof(req[r]) /\ profile'.envelope = profile.envelope
          /\ profile'.recovery \in {profile.recovery, req[r].key} /\ device' = device
      BY <1>0, <2>3 DEF WriteRecovery
    <3> QED
      BY <2>3, <3>1, <3>2 DEF WriteRecovery, Commits, KeysStep, EnvelopeAgrees, WrapsAgree, Writable
  <2>4. CASE WriteWrap(r)
    <3>1. /\ req[r].hash = profile.hash /\ Writable(req[r])
          /\ req[r].key # 0 => req[r].proof # 0
          /\ KeptProof(req[r]) = IF req[r].proof = 0 THEN profile.hash ELSE req[r].proof
      BY <2>4, NotExcused DEF WriteWrap, Commits, Sane
    <3>2. /\ profile'.hash = KeptProof(req[r]) /\ profile'.envelope = profile.envelope
          /\ profile'.recovery = profile.recovery
          /\ \A d \in Devices : device'[d].wrap \in {device[d].wrap, req[r].key}
      BY <1>0, <2>4 DEF WriteWrap
    <3> QED
      BY <2>4, <3>1, <3>2 DEF WriteWrap, Commits, KeysStep, EnvelopeAgrees, WrapsAgree, Writable
  <2>5. CASE WriteRevoked(r)
    <3>1. /\ req[r].phase = "commit" /\ req[r].op = "revoke" /\ Sane(req[r])
          /\ req'[r].phase = "forget" /\ ~Excused(r)
      BY <2>5 DEF WriteRevoked, Commits, Inv, Idle
    <3>2. /\ req[r].hash = profile.hash /\ Writable(req[r])
          /\ KeptProof(req[r]) = IF req[r].proof = 0 THEN profile.hash ELSE req[r].proof
      BY <3>1 DEF Excused, Ended, KeptProof, Sane
    <3>3. /\ profile'.hash = KeptProof(req[r]) /\ profile'.envelope = profile.envelope
          /\ profile'.recovery = profile.recovery
          /\ \A d \in Devices : device'[d].wrap \in {device[d].wrap, 0}
      BY <1>0, <2>5 DEF WriteRevoked
    <3> QED
      BY <3>1, <3>2, <3>3 DEF KeysStep, EnvelopeAgrees, WrapsAgree, Writable
  <2>6. CASE WriteIdentity(r)
    BY <1>0, <2>6, SameKeys DEF WriteIdentity
  <2>7. CASE get_device_wrapped_umk(r) \/ store_public_keys(r) \/ forget_device(r) \/ Answered(r)
    BY <2>7, SameKeys DEF get_device_wrapped_umk, store_public_keys, forget_device, Answered
  <2> QED
    BY <1>2, <2>1, <2>2, <2>3, <2>4, <2>5, <2>6, <2>7 DEF Proceeds
<1>3. ASSUME \/ \E r \in Requests : Dies(r)
             \/ \E d \in Devices : Lapse(d)
      PROVE  UNCHANGED <<profile, device>>
  BY <1>3 DEF Dies, Lapse
<1>4. ASSUME NEW d \in Devices, register_device(d) PROVE KeysStep
  BY <1>0, <1>4, SameKeys DEF register_device
<1> QED
  BY <1>1, <1>2, <1>3, <1>4, SameKeys DEF Next

(* auth/service.py:162-182 and the writes it guards: the envelope and the  *)
(* wraps keep holding the key whose proof is asked for, except for what a  *)
(* start over leaves behind.                                               *)
THEOREM SpecKeysAgree == Spec => KeysAgree
<1>1. Inv /\ [Next]_vars => [KeysStep]_vars
  BY StepKeys
<1>2. Spec => [][KeysStep]_vars
  BY <1>1, SpecInv, PTL DEF Spec
<1> QED
  BY <1>2, PTL DEF KeysAgree, KeysStep

(***************************************************************************)
(* What RefusedAtLast rests on: a revoked device that is not in the cache  *)
(* and of which no request is about to put it there.                       *)
(***************************************************************************)
Bound(q, d) == q.phase = "caching" /\ q.device = d

Barred(d) ==
    /\ device[d].state = "revoked" /\ d \notin cache
    /\ \A r \in Requests : ~Bound(req[r], d)

\* A step that moves one request, and not towards caching the device's answer.
LEMMA OneBarred ==
    ASSUME Inv, NEW d \in Devices, Barred(d), NEW r \in Requests, NEW q,
           req' = [req EXCEPT ![r] = q], ~Bound(q, d),
           device'[d].state = "revoked", d \notin cache'
    PROVE  Barred(d)'
<1>1. \A s \in Requests : req'[s] = IF s = r THEN q ELSE req[s]
  BY DEF Inv
<1> QED
  BY <1>1 DEF Barred, Bound

LEMMA ArrivesBarred ==
    ASSUME Inv, NEW d \in Devices, Barred(d), NEW r \in Requests, Arrives(r)
    PROVE  Barred(d)'
<1>1. ASSUME NEW q, Takes(r, q), ~Bound(q, d) PROVE Barred(d)'
  BY <1>1, OneBarred DEF Takes, Barred
<1>2. \A op, e, k, p, held : ~Bound(Writes(op, e, k, p, held), d)
  BY DEF Writes, Idle, Bound
<1>3. \A op, e, k : ~Bound(Scoped(op, "admitted", e, k), d)
  BY DEF Scoped, Idle, Bound
<1>4. \A op, e, k : Bound(Scoped(op, "caching", e, k), d) => e = d
  BY DEF Scoped, Idle, Bound
<1>5. ASSUME NEW op, NEW e \in Devices, NEW k, check_device(r, op, e, k) PROVE Barred(d)'
  <2>1. CASE e \in cache /\ Takes(r, Scoped(op, "admitted", e, k))
    BY <1>1, <1>3, <2>1
  <2>2. CASE device[e].state = "live" /\ Takes(r, Scoped(op, "caching", e, k))
    <3>1. e # d
      BY <2>2 DEF Barred
    <3> QED
      BY <1>1, <1>4, <2>2, <3>1
  <2> QED
    BY <1>5, <2>1, <2>2 DEF check_device
<1>6. CASE ensure_profile(r)
  BY <1>1, <1>2, <1>6 DEF ensure_profile
<1>7. ASSUME NEW k \in Keys, NEW p \in Key,
             \/ set_wrapped_umk(r, k, p) \/ set_recovery_wrapped_umk(r, k, p)
             \/ \E e \in Devices : store_wrapped_umk(r, e, k, p)
      PROVE  Barred(d)'
  BY <1>1, <1>2, <1>7 DEF set_wrapped_umk, set_recovery_wrapped_umk, store_wrapped_umk
<1>8. ASSUME NEW k \in Keys, ResetUmk(r, k) PROVE Barred(d)'
  BY <1>1, <1>2, <1>8 DEF ResetUmk
<1>9. ASSUME NEW p \in Key, clear_recovery_wrapped_umk(r, p) \/ \E e \in Devices : revoke_device(r, e, p)
      PROVE  Barred(d)'
  BY <1>1, <1>2, <1>9 DEF clear_recovery_wrapped_umk, revoke_device
<1> QED
  BY <1>5, <1>6, <1>7, <1>8, <1>9 DEF Arrives

LEMMA ProceedsBarred ==
    ASSUME Inv, NEW d \in Devices, Barred(d), NEW r \in Requests, Proceeds(r)
    PROVE  Barred(d)'
<1>0. /\ device[d].state = "revoked" /\ d \notin cache /\ ~Bound(req[r], d)
      /\ device \in [Devices -> [state: {"none", "live", "revoked"}, wrap: Key]]
      /\ req[r] \in Request
  BY DEF Barred, Inv, RowsInv, Sane
<1>1. ~Bound(Idle, d)
  BY DEF Idle, Bound
<1>2. ASSUME Ends(r), device'[d].state = "revoked", cache' \subseteq cache PROVE Barred(d)'
  BY <1>0, <1>1, <1>2, OneBarred DEF Ends
<1>3. Caches(r) => d \notin cache'
  BY <1>0 DEF Caches, Bound
<1>4. CASE get_device_wrapped_umk(r)
  <2>1. UNCHANGED device /\ d \notin cache'
    BY <1>0, <1>3, <1>4 DEF get_device_wrapped_umk
  <2>2. PICK a : a = [req[r] EXCEPT !.phase = "answered", !.wrap = 0]
    OBVIOUS
  <2>3. ~Bound(a, d)
    BY <1>0, <2>2 DEF Request, Bound
  <2>4. req' = [req EXCEPT ![r] = Idle] \/ req' = [req EXCEPT ![r] = a]
    BY <1>4, <2>2 DEF get_device_wrapped_umk, Answers
  <2> QED
    BY <1>0, <1>1, <2>1, <2>3, <2>4, OneBarred
<1>5. CASE store_public_keys(r)
  <2>1. UNCHANGED device /\ d \notin cache'
    BY <1>0, <1>3, <1>5 DEF store_public_keys
  <2>2. PICK a : a = [req[r] EXCEPT !.phase = "commit", !.wrap = profile.identity]
    OBVIOUS
  <2>3. ~Bound(a, d)
    BY <1>0, <2>2 DEF Request, Bound
  <2>4. req' = [req EXCEPT ![r] = Idle] \/ req' = [req EXCEPT ![r] = a]
    BY <1>5, <2>2 DEF store_public_keys
  <2> QED
    BY <1>0, <1>1, <2>1, <2>3, <2>4, OneBarred
<1>6. CASE CreateProfile(r) \/ WriteUmk(r) \/ WriteRecovery(r) \/ WriteIdentity(r) \/ forget_device(r)
           \/ Answered(r)
  <2>1. Ends(r) /\ UNCHANGED device /\ cache' \subseteq cache
    BY <1>6 DEF CreateProfile, WriteUmk, WriteRecovery, WriteIdentity, forget_device, Answered
  <2> QED
    BY <1>0, <1>2, <2>1
<1>7. CASE WriteWrap(r)
  <2>1. Ends(r) /\ cache' = cache /\ device'[d].state = device[d].state
    BY <1>0, <1>7 DEF WriteWrap
  <2> QED
    BY <1>0, <1>2, <2>1
<1>8. CASE WriteRevoked(r)
  <2>1. cache' = cache /\ device'[d].state = "revoked"
    BY <1>0, <1>8 DEF WriteRevoked
  <2>2. PICK a : a = [Idle EXCEPT !.phase = "forget", !.device = req[r].device]
    OBVIOUS
  <2>3. ~Bound(a, d)
    BY <2>2 DEF Idle, Bound
  <2>4. req' = [req EXCEPT ![r] = a]
    BY <1>8, <2>2 DEF WriteRevoked
  <2> QED
    BY <1>0, <2>1, <2>3, <2>4, OneBarred
<1> QED
  BY <1>4, <1>5, <1>6, <1>7, <1>8 DEF Proceeds

LEMMA StepBarred == ASSUME Inv, [Next]_vars, NEW d \in Devices, Barred(d) PROVE Barred(d)'
<1>1. ASSUME NEW r \in Requests, Dies(r) PROVE Barred(d)'
  <2>1. ~Bound(Idle, d)
    BY DEF Idle, Bound
  <2> QED
    BY <1>1, <2>1, OneBarred DEF Dies, Ends, Barred
<1>2. ASSUME NEW e \in Devices, register_device(e) PROVE Barred(d)'
  <2>1. device'[d].state = "revoked"
    BY <1>2 DEF register_device, Barred, Inv, RowsInv
  <2> QED
    BY <1>2, <2>1 DEF register_device, Barred, Bound
<1>3. ASSUME NEW e \in Devices, Lapse(e) PROVE Barred(d)'
  BY <1>3 DEF Lapse, Barred, Bound
<1>4. CASE UNCHANGED vars
  BY <1>4 DEF vars, Barred, Bound
<1> QED
  BY <1>1, <1>2, <1>3, <1>4, ArrivesBarred, ProceedsBarred DEF Next

(* dependencies.py:52-77: a revoked device that nobody is caching any more *)
(* is refused at the door for good, and no other request brings it back.   *)
THEOREM BarredForGood == ASSUME NEW d \in Devices PROVE Spec => [](Barred(d) => []Barred(d))
<1>1. Inv /\ [Next]_vars /\ Barred(d) => Barred(d)'
  BY StepBarred
<1> QED
  BY <1>1, SpecInv, PTL DEF Spec
=============================================================================
