---------------------------- MODULE AccountProofs ----------------------------
(***************************************************************************)
(* Proofs about what an account has of its own: its settings blob          *)
(* implements module Register, for any number of devices, edits and        *)
(* timestamps; and no verdict on its tokens is wrong for long, for any     *)
(* lifespan, cooldown, timeout, number of keys and threads.                *)
(***************************************************************************)
EXTENDS Settings, Tokens, TLAPS

(***************************************************************************)
(* The settings blob                                                       *)
(***************************************************************************)
(* The upsert's condition lets a merged PUT through only over the blob it  *)
(* was made from, or over one put with no base: a stored blob with the     *)
(* stamp of a merged one is that one.                                      *)
LEMMA MergeFindsItsBase ==
    ASSUME Inv, NEW q \in sent, row.blob # 0, write_if(q)
    PROVE  q.blob \in free \/ parent[q.blob] = row.blob \/ row.blob \in free
<1>1. CASE ~q.merged
  BY <1>1 DEF Inv, CopiesGenuine
<1>2. CASE q.merged /\ row.blob \notin free
  <2>0. row.at \in Nat /\ row.at # 0
    BY SettingsConstants DEF Inv, TypeOK, CopiesGenuine, Genuine, StampsRise, Blob, Stamps
  <2>1. parent[q.blob] \in stored /\ stamp[parent[q.blob]] = row.at
    BY <1>2, <2>0 DEF Inv, CopiesGenuine, Genuine, write_if
  <2>2. row.at \in Nat
    BY <2>0
  <2>3. parent[q.blob] = row.blob \/ stamp[parent[q.blob]] < row.at
    BY <1>2, <2>1 DEF Inv, StampsRise
  <2> QED
    BY <2>1, <2>2, <2>3
<1> QED
  BY <1>1, <1>2

(* The first blob to be stored was made from nothing.                      *)
LEMMA FirstIsNew ==
    ASSUME Inv, NEW q \in sent, row.blob = 0
    PROVE  stored = {} /\ parent[q.blob] = 0
  BY DEF Inv, CopiesGenuine, Genuine, StampsRise

LEMMA InitInv == Init => Inv
<1> SUFFICES ASSUME Init PROVE Inv
  OBVIOUS
<1>1. TypeOK
  BY SettingsConstants DEF Init, TypeOK, Nothing, Blob, Values
<1>2. CopiesGenuine
  BY DEF Init, CopiesGenuine, Genuine, Nothing
<1>3. StampsRise
  BY DEF Init, StampsRise, Nothing
<1> QED
  BY <1>1, <1>2, <1>3 DEF Inv

(* A new edit is a new number: nothing stored or on its way bears it.      *)
LEMMA EditInv ==
    ASSUME Inv, NEW d \in Devices, NEW at \in Stamps, NEW merged \in BOOLEAN, Edit(d, at, merged)
    PROVE  Inv'
<1> DEFINE v == offered + 1
           q == [device |-> d, blob |-> v, at |-> at, merged |-> merged, base |-> known[d].at]
<1>1. v \in Values /\ offered \in Nat /\ offered' = v /\ v \notin stored
  BY SettingsConstants DEF Inv, TypeOK, CopiesGenuine, Edit, Values
<1>2. /\ row' = row /\ known' = known /\ answers' = answers /\ stored' = stored
      /\ sent' = sent \cup {q}
      /\ \A w \in Values: w # v => parent'[w] = parent[w] /\ stamp'[w] = stamp[w]
      /\ parent'[v] = known[d].blob /\ stamp'[v] = at
  BY <1>1 DEF Inv, TypeOK, Edit
<1>3. stored \subseteq Values /\ \A w \in stored: stamp'[w] = stamp[w]
  BY <1>1, <1>2 DEF Inv, TypeOK
<1>4. TypeOK'
  <2>1. q \in Put
    BY <1>1, SettingsConstants DEF Inv, TypeOK, Blob, Put
  <2>2. parent' \in [Values -> 0..MaxValues] /\ stamp' \in [Values -> 0..MaxStamp]
    <3>1. known[d].blob \in 0..MaxValues /\ at \in 0..MaxStamp
      BY SettingsConstants DEF Inv, TypeOK, Blob, Stamps
    <3> QED
      BY <1>1, <3>1 DEF Inv, TypeOK, Edit
  <2>3. free' \subseteq Values
    BY <1>1 DEF Inv, TypeOK, Edit
  <2>4. offered' \in 0..MaxValues
    BY <1>1, SettingsConstants DEF Edit
  <2> QED
    BY <1>1, <1>2, <2>1, <2>2, <2>3, <2>4 DEF Inv, TypeOK
<1>5. \A b: Genuine(b) => Genuine(b)'
  BY <1>2, <1>3 DEF Genuine
<1>6. free \subseteq free' /\ (merged \/ v \in free')
  BY DEF Edit
<1>7. CopiesGenuine'
  <2>1. /\ Genuine(row)' /\ \A e \in Devices: Genuine(known[e])'
        /\ \A a \in answers': Genuine(a)'
    BY <1>2, <1>3 DEF Inv, CopiesGenuine, Genuine
  <2>2. stored' \subseteq 1..offered'
    BY <1>1, <1>2 DEF Inv, CopiesGenuine
  <2>3. ASSUME NEW p \in sent'
        PROVE  /\ p.blob \in 1..offered' /\ p.at = stamp'[p.blob]
               /\ p.merged \/ p.blob \in free'
               /\ Genuine([blob |-> parent[p.blob], at |-> p.base])'
    <3>1. CASE p \in sent
      <4>1. p.blob \in 1..offered /\ p.at = stamp[p.blob]
        BY <3>1 DEF Inv, CopiesGenuine
      <4>2. p.blob \in Values /\ p.blob # v
        BY <4>1, <1>1, SettingsConstants DEF Values
      <4>3. parent'[p.blob] = parent[p.blob] /\ stamp'[p.blob] = stamp[p.blob]
        BY <4>2, <1>2
      <4>4. (p.merged \/ p.blob \in free) /\ Genuine([blob |-> parent[p.blob], at |-> p.base])
        BY <3>1 DEF Inv, CopiesGenuine
      <4>5. p.blob \in 1..offered' /\ p.at = stamp'[p.blob]
        BY <4>1, <4>3, <1>1
      <4>6. Genuine([blob |-> parent[p.blob], at |-> p.base])'
        BY <4>3, <4>4, <1>2, <1>3 DEF Genuine
      <4> QED
        BY <4>4, <4>5, <4>6, <1>6
    <3>2. CASE p = q
      <4>1. p.blob \in 1..offered' /\ p.at = stamp'[p.blob]
        BY <3>2, <1>1, <1>2
      <4>2. p.base = known[d].at /\ p.merged = merged /\ p.blob = v
        BY <3>2
      <4>3. Genuine([blob |-> known[d].blob, at |-> known[d].at])
        BY DEF Inv, CopiesGenuine, Genuine
      <4>4. Genuine([blob |-> parent[p.blob], at |-> p.base])'
        BY <4>2, <4>3, <1>2, <1>3 DEF Genuine
      <4> QED
        BY <4>1, <4>2, <4>4, <1>6
    <3> QED
      BY <3>1, <3>2, <1>2
  <2> QED
    BY <2>1, <2>2, <2>3 DEF CopiesGenuine
<1>8. StampsRise'
  BY <1>2, <1>3, <1>6 DEF Inv, StampsRise
<1> QED
  BY <1>4, <1>7, <1>8 DEF Inv
(* A PUT that is let through: the row takes a genuine blob, and a merged   *)
(* one is stamped above what it replaces.                                  *)
LEMMA PutInv ==
    ASSUME Inv, NEW q \in sent, put_settings(q)
    PROVE  Inv'
<1>1. q \in Put /\ q.blob \in Values /\ q.at = stamp[q.blob] /\ q.blob \in 1..offered
  BY DEF Inv, TypeOK, CopiesGenuine, Put
<1>2. /\ row' = [blob |-> q.blob, at |-> q.at]
      /\ row'.blob = q.blob /\ row'.at = q.at
      /\ stored' = stored \cup {q.blob}
      /\ answers' = answers \cup {[device |-> q.device, blob |-> q.blob, at |-> q.at]}
      /\ UNCHANGED <<known, sent, offered, parent, stamp, free>>
  BY DEF put_settings, Replies
<1>3. q.at \in Stamps /\ row.at \in Nat /\ q.at \in Nat
  BY <1>1, SettingsConstants DEF Inv, TypeOK, Blob, Put, Stamps
<1>4. TypeOK'
  <2>1. row' \in Blob /\ [device |-> q.device, blob |-> q.blob, at |-> q.at] \in Answer
    BY <1>1, <1>2, SettingsConstants DEF Put, Blob, Answer, Values, Stamps
  <2> QED
    BY <1>1, <1>2, <2>1 DEF Inv, TypeOK
<1>5. CopiesGenuine'
  <2>1. Genuine(row)' /\ \A d \in Devices: Genuine(known[d])'
    BY <1>1, <1>2 DEF Inv, CopiesGenuine, Genuine
  <2>2. \A a \in answers': Genuine(a)'
    <3>1. ASSUME NEW a \in answers PROVE Genuine(a)'
      BY <1>2 DEF Inv, CopiesGenuine, Genuine
    <3>2. Genuine([device |-> q.device, blob |-> q.blob, at |-> q.at])'
      BY <1>1, <1>2 DEF Genuine
    <3> QED
      BY <3>1, <3>2, <1>2
  <2>3. stored' \subseteq 1..offered'
    BY <1>1, <1>2 DEF Inv, CopiesGenuine
  <2>4. ASSUME NEW p \in sent'
        PROVE  /\ p.blob \in 1..offered' /\ p.at = stamp'[p.blob]
               /\ p.merged \/ p.blob \in free'
               /\ Genuine([blob |-> parent[p.blob], at |-> p.base])'
    <3>1. /\ p.blob \in 1..offered /\ p.at = stamp[p.blob] /\ (p.merged \/ p.blob \in free)
          /\ Genuine([blob |-> parent[p.blob], at |-> p.base])
      BY <1>2 DEF Inv, CopiesGenuine
    <3>2. Genuine([blob |-> parent[p.blob], at |-> p.base])'
      BY <3>1, <1>2 DEF Genuine
    <3> QED
      BY <3>1, <3>2, <1>2
  <2> QED
    BY <2>1, <2>2, <2>3, <2>4 DEF CopiesGenuine
<1>6. StampsRise'
  <2>1. \A v \in stored: stamp[v] \in Stamps /\ stamp[v] \in Nat /\ stamp[v] <= row.at
    BY SettingsConstants DEF Inv, StampsRise, Stamps
  <2>2. row.at <= q.at \/ row.blob = 0
    BY <1>3 DEF put_settings, write_if
  <2>3. \A v \in stored': stamp'[v] \in Stamps /\ stamp'[v] <= row'.at
    BY <1>1, <1>2, <1>3, <2>1, <2>2 DEF Inv, StampsRise
  <2>4. row'.blob \in free' \/ \A v \in stored': v = row'.blob \/ stamp'[v] < row'.at
    <3>1. CASE q.blob \in free
      BY <3>1, <1>2
    <3>2. CASE row.blob = 0
      BY <3>2, FirstIsNew, <1>2
    <3>3. CASE q.blob \notin free /\ row.blob # 0
      <4>1. write_if(q) /\ q.merged
        BY <3>3 DEF put_settings, Inv, CopiesGenuine
      <4>2. row.at < q.at
        BY <4>1 DEF write_if
      <4> QED
        BY <4>2, <1>2, <1>3, <2>1
    <3> QED
      BY <3>1, <3>2, <3>3
  <2>5. row'.blob # 0
    BY <1>1, <1>2 DEF Values
  <2> QED
    BY <2>3, <2>4, <2>5 DEF StampsRise
<1> QED
  BY <1>4, <1>5, <1>6 DEF Inv

(* Answers carry copies of the row, and devices take them over.            *)
LEMMA ReadInv ==
    ASSUME Inv, NEW d \in Devices, Replies(d, row),
           UNCHANGED <<row, known, sent, offered, parent, stamp, free, stored>>
    PROVE  Inv'
<1> DEFINE a == [device |-> d, blob |-> row.blob, at |-> row.at]
<1>1. answers' = answers \cup {a}
  BY DEF Replies
<1>2. a \in Answer
  BY DEF Inv, TypeOK, Blob, Answer
<1>3. Genuine(a)
  BY DEF Inv, CopiesGenuine, Genuine
<1>4. TypeOK'
  BY <1>1, <1>2 DEF Inv, TypeOK
<1>5. CopiesGenuine'
  <2>1. \A b \in answers': Genuine(b)'
    BY <1>1, <1>3 DEF Inv, CopiesGenuine, Genuine
  <2> QED
    BY <2>1 DEF Inv, CopiesGenuine, Genuine
<1>6. StampsRise'
  BY DEF Inv, StampsRise
<1> QED
  BY <1>4, <1>5, <1>6 DEF Inv

LEMMA LearnInv ==
    ASSUME Inv, NEW a \in answers, Learn(a)
    PROVE  Inv'
<1> DEFINE b == [blob |-> a.blob, at |-> a.at]
<1>1. b \in Blob /\ a.device \in Devices
  BY DEF Inv, TypeOK, Answer, Blob
<1>2. Genuine(b)
  BY DEF Inv, CopiesGenuine, Genuine
<1>3. known' \in [Devices -> Blob] /\ \A d \in Devices: known'[d] = known[d] \/ known'[d] = b
  BY <1>1 DEF Inv, TypeOK, Learn
<1>4. TypeOK'
  BY <1>3 DEF Inv, TypeOK, Learn
<1>5. CopiesGenuine'
  <2>1. \A d \in Devices: Genuine(known[d])'
    BY <1>2, <1>3 DEF Inv, CopiesGenuine, Genuine, Learn
  <2> QED
    BY <2>1 DEF Inv, CopiesGenuine, Genuine, Learn
<1>6. StampsRise'
  BY DEF Inv, StampsRise, Learn
<1> QED
  BY <1>4, <1>5, <1>6 DEF Inv

LEMMA NextInv == Inv /\ [Next]_vars => Inv'
<1> SUFFICES ASSUME Inv, [Next]_vars PROVE Inv'
  OBVIOUS
<1>1. CASE \E d \in Devices, at \in Stamps, merged \in BOOLEAN: Edit(d, at, merged)
  BY <1>1, EditInv
<1>2. ASSUME NEW q \in sent, put_settings(q) PROVE Inv'
  BY <1>2, PutInv
<1>3. ASSUME NEW q \in sent, PutRefused(q) PROVE Inv'
  <2>1. q.device \in Devices
    BY DEF Inv, TypeOK, Put
  <2> QED
    BY <1>3, <2>1, ReadInv DEF PutRefused
<1>4. ASSUME NEW d \in Devices, get_settings(d) PROVE Inv'
  BY <1>4, ReadInv DEF get_settings
<1>5. ASSUME NEW a \in answers, Learn(a) PROVE Inv'
  BY <1>5, LearnInv
<1>6. CASE UNCHANGED vars
  BY <1>6 DEF vars, Inv, TypeOK, CopiesGenuine, Genuine, StampsRise
<1> QED
  BY <1>1, <1>2, <1>3, <1>4, <1>5, <1>6 DEF Next

(* Every copy of a stored blob goes with its own stamp, and stamps rise    *)
(* with every merge.                                                       *)
THEOREM SettingsInvariant == Spec => []Inv
  BY InitInv, NextInv, PTL DEF Spec

(* A merged blob is only replaced by one merged from it, or by one put     *)
(* with no base: the upsert implements module Register.                    *)
THEOREM ImplementsRegister == Spec => LosesNoMerge
<1>1. Init => R!Init
  BY DEF Init, R!Init, Nothing, Values, R!Values
<1>2. Inv /\ [Next]_vars => [R!Next]_(R!vars)
  <2> SUFFICES ASSUME Inv, [Next]_vars PROVE [R!Next]_(R!vars)
    OBVIOUS
  <2>1. ASSUME NEW d \in Devices, NEW at \in Stamps, NEW merged \in BOOLEAN, Edit(d, at, merged)
        PROVE  R!Next
    <3> DEFINE p == known[d].blob
    <3>1. Genuine(known[d]) /\ p \in 0..MaxValues
      BY DEF Inv, TypeOK, CopiesGenuine, Blob
    <3>2. p \in stored \cup {0}
      BY <3>1 DEF Genuine
    <3>3. R!Offer(p, merged)
      BY <2>1, <3>2 DEF Edit, R!Offer
    <3> QED
      BY <3>1, <3>3 DEF R!Next
  <2>2. ASSUME NEW q \in sent, put_settings(q) PROVE R!Next
    <3>1. q.blob \in 1..offered
      BY DEF Inv, CopiesGenuine
    <3>2. q.blob \in free \/ parent[q.blob] = row.blob \/ row.blob \in free
      BY <2>2, MergeFindsItsBase, FirstIsNew DEF put_settings
    <3>3. R!Store(q.blob)
      BY <2>2, <3>2 DEF put_settings, R!Store
    <3> QED
      BY <3>1, <3>3 DEF R!Next
  <2>3. CASE \/ \E q \in sent: PutRefused(q)
             \/ \E d \in Devices: get_settings(d)
             \/ \E a \in answers: Learn(a)
             \/ UNCHANGED vars
    BY <2>3 DEF PutRefused, get_settings, Learn, vars, R!vars
  <2> QED
    BY <2>1, <2>2, <2>3 DEF Next
<1> QED
  BY <1>1, <1>2, SettingsInvariant, PTL DEF Spec, LosesNoMerge, R!Spec

(***************************************************************************)
(* Tokens: what is known of the keys                                       *)
(***************************************************************************)
Waiting == {"fetching", "answered"}

Thread == [phase: {"idle", "fetching", "answered", "accepted", "refused"}, token: Tokens,
           forced: BOOLEAN, keys: SUBSET Keys, waited: Nat]

Types ==
    /\ published \subseteq Keys /\ since \in [Keys -> Nat]
    /\ cached = Nobody \/ cached \subseteq Keys
    /\ age \in Nat /\ refreshed \in 0..Cooldown /\ spoilt \in Nat
    /\ thread \in [Threads -> Thread]
    /\ \A t \in Threads : thread[t].waited <= Timeout

\* How old a set of keys is at most: what it says differs from what is published by no change
\* older than that, and if it is of no use, the answer that brought it is no older either.
Reflects(keys, old) ==
    IF keys = Unusable THEN spoilt <= old
    ELSE \A k \in Keys : (k \in keys /\ k \notin published) \/ (k \notin keys /\ k \in published) => since[k] <= old

\* An answer is no older than the fetch, the cache no older than its age and one fetch.
Answers == \A t \in Threads : thread[t].phase = "answered" => Reflects(thread[t].keys, thread[t].waited)
CacheReflects == cached # Nobody /\ age <= Lifespan => Reflects(cached, age + Timeout)

\* A refetch that was granted has put a set in place since, or dropped it, or is under way.
RefetchShows ==
    refreshed < Cooldown =>
        \/ cached = Nobody \/ age <= refreshed
        \/ \E t \in Threads : thread[t].phase \in Waiting /\ thread[t].forced = TRUE /\ refreshed <= thread[t].waited

TokensInv == Types /\ Answers /\ CacheReflects /\ RefetchShows /\ VerdictsAreRecent

LEMMA TokensInitInv == TokensInit => TokensInv
<1> SUFFICES ASSUME TokensInit PROVE TokensInv
  OBVIOUS
<1>1. Idle \in Thread /\ Idle.phase = "idle" /\ Idle.waited = 0
  BY TokensConstants DEF Idle, Thread, Tokens
<1>2. \A t \in Threads : thread[t] = Idle
  BY DEF TokensInit
<1>3. Types
  BY <1>1, <1>2, TokensConstants DEF TokensInit, Types, Keys, Long, Nobody
<1>4. Answers /\ CacheReflects /\ RefetchShows /\ VerdictsAreRecent
  BY <1>1, <1>2 DEF TokensInit, Answers, CacheReflects, RefetchShows, VerdictsAreRecent
<1> QED
  BY <1>3, <1>4 DEF TokensInv

(***************************************************************************)
(* Verdicts                                                                *)
(***************************************************************************)

\* What a thread that has judged says is recent.
Recent(q) ==
    /\ q.phase = "accepted" => q.token # 0 /\ (q.token \in published \/ since[q.token] <= Lifespan + Timeout)
    /\ q.phase = "refused" /\ q.token \in published =>
          \/ refreshed <= Timeout \/ since[q.token] < Cooldown + Timeout
          \/ spoilt <= Lifespan + Timeout

LEMMA VerdictsOfAll == VerdictsAreRecent <=> \A t \in Threads : Recent(thread[t])
BY DEF VerdictsAreRecent, Recent

\* A set in hand that is recent enough decides well.
LEMMA MatchOK ==
    ASSUME TokensInv, NEW t \in Threads, NEW token \in Tokens, NEW keys \in SUBSET Keys, NEW forced \in BOOLEAN,
           NEW old \in Nat, Reflects(keys, old), old <= Lifespan + Timeout,
           forced = TRUE => old <= Timeout,
           refreshed < Cooldown => refreshed <= Timeout \/ old < Cooldown + Timeout,
           match(t, token, keys, forced), UNCHANGED <<published, since, spoilt>>
    PROVE  \E q \in Thread :
              /\ thread' = [thread EXCEPT ![t] = q] /\ q.waited = 0 /\ q.phase # "answered"
              /\ \/ /\ refreshed' = refreshed /\ q.phase \in {"accepted", "refused"}
                    /\ Recent(q)'
                 \/ refreshed' = 0 /\ q.phase = "fetching" /\ q.forced = TRUE
<1>0. /\ \A v \in {"accepted", "refused"} :
           LET q == Judged(token, v)
           IN  q \in Thread /\ q.phase = v /\ q.token = token /\ q.waited = 0
      /\ LET q == Fetching(token, TRUE)
         IN  q \in Thread /\ q.phase = "fetching" /\ q.forced = TRUE /\ q.waited = 0
  BY DEF Judged, Fetching, Idle, Thread, Tokens
<1>1. CASE token \in keys
  <2>1. PICK q : q = Judged(token, "accepted")
    OBVIOUS
  <2>2. q \in Thread /\ q.phase = "accepted" /\ q.token = token /\ q.waited = 0
    BY <1>0, <2>1
  <2>3. thread' = [thread EXCEPT ![t] = q] /\ refreshed' = refreshed
    BY <1>1, <2>1 DEF match
  <2>4. token # 0 /\ token \in Keys /\ (token \in published \/ since[token] <= old)
    BY <1>1 DEF Reflects, Keys, Unusable
  <2>5. token \in published \/ since[token] <= Lifespan + Timeout
    BY <2>4, TokensConstants DEF TokensInv, Types
  <2>6. Recent(q)'
    BY <2>2, <2>4, <2>5 DEF Recent
  <2> QED
    BY <2>2, <2>3, <2>6
<1>2. CASE token \notin keys /\ (forced = TRUE \/ refreshed < Cooldown \/ keys = Unusable)
  <2>1. PICK q : q = Judged(token, "refused")
    OBVIOUS
  <2>2. q \in Thread /\ q.phase = "refused" /\ q.token = token /\ q.waited = 0
    BY <1>0, <2>1
  <2>3. thread' = [thread EXCEPT ![t] = q] /\ refreshed' = refreshed
    BY <1>2, <2>1 DEF match, claim_refresh_slot
  <2>4. ASSUME keys = Unusable PROVE Recent(q)'
    <3>1. spoilt <= old /\ spoilt \in Nat
      BY <2>4 DEF Reflects, TokensInv, Types
    <3>2. spoilt' = spoilt /\ spoilt <= Lifespan + Timeout
      BY <3>1, TokensConstants
    <3> QED
      BY <2>2, <3>2, TokensConstants DEF Recent
  <2>5. ASSUME keys # Unusable PROVE Recent(q)'
    <3>1. token \in published => token \in Keys /\ since[token] <= old /\ since[token] \in Nat
      BY <1>2, <2>5 DEF Reflects, TokensInv, Types
    <3>2. token \in published => refreshed <= Timeout \/ since[token] < Cooldown + Timeout
      BY <1>2, <2>5, <3>1, TokensConstants DEF TokensInv, Types
    <3> QED
      BY <2>2, <2>3, <3>2 DEF Recent
  <2>6. Recent(q)'
    BY <2>4, <2>5
  <2> QED
    BY <2>2, <2>3, <2>6
<1>3. CASE token \notin keys /\ forced = FALSE /\ ~(refreshed < Cooldown) /\ keys # Unusable
  <2>1. PICK q : q = Fetching(token, TRUE)
    OBVIOUS
  <2>2. q \in Thread /\ q.phase = "fetching" /\ q.forced = TRUE /\ q.waited = 0
    BY <1>0, <2>1
  <2>3. thread' = [thread EXCEPT ![t] = q] /\ refreshed' = 0
    BY <1>3, <2>1 DEF match, claim_refresh_slot
  <2> QED
    BY <2>2, <2>3
<1> QED
  BY <1>1, <1>2, <1>3

\* A verdict stands while only other threads move, unless the clock does.
LEMMA RecentStays ==
    ASSUME TokensInv, NEW q \in Thread, Recent(q), UNCHANGED <<published, since>>, refreshed' \in {refreshed, 0},
           spoilt' \in {spoilt, 0}
    PROVE  Recent(q)'
BY TokensConstants DEF Recent, TokensInv, Types

\* One thread moves; the keys, the clock and the cache stay.
LEMMA OneMoves ==
    ASSUME TokensInv, NEW t \in Threads, NEW q \in Thread, thread' = [thread EXCEPT ![t] = q],
           UNCHANGED <<published, since>>, spoilt' \in {spoilt, 0}, q.waited <= Timeout,
           refreshed' = refreshed \/ (refreshed' = 0 /\ q.phase = "fetching" /\ q.forced = TRUE),
           q.phase = "answered" => Reflects(q.keys, q.waited)', Recent(q)',
           cached' = Nobody \/ cached' \subseteq Keys, age' \in Nat, CacheReflects',
           \/ /\ UNCHANGED <<cached, age>>
              /\ thread[t].phase \in Waiting => q.phase \in Waiting /\ q.forced = thread[t].forced /\ q.waited = thread[t].waited
           \/ cached' = Nobody \/ age' = 0
    PROVE  TokensInv'
<1>0. Types /\ \A u \in Threads : thread'[u] = IF u = t THEN q ELSE thread[u]
  BY DEF TokensInv, Types
<1>1. Types'
  <2>1. thread' \in [Threads -> Thread]
    BY DEF TokensInv, Types
  <2>2. refreshed' \in 0..Cooldown
    BY TokensConstants DEF TokensInv, Types
  <2> QED
    BY <1>0, <2>1, <2>2 DEF Types
<1>2. Answers'
  <2> SUFFICES ASSUME NEW u \in Threads, thread'[u].phase = "answered"
               PROVE  Reflects(thread[u].keys, thread[u].waited)'
    BY DEF Answers
  <2>1. CASE u = t
    BY <1>0, <2>1 DEF Reflects
  <2>2. CASE u # t
    <3>1. PICK o : o = thread[u]
      OBVIOUS
    <3>2. o.phase = "answered" /\ thread'[u] = o /\ Reflects(o.keys, o.waited) /\ o.waited \in Nat
      BY <1>0, <2>2, <3>1 DEF TokensInv, Answers, Types, Thread
    <3>3. Reflects(o.keys, o.waited)'
      BY <1>0, <3>2 DEF Reflects, Types
    <3> QED
      BY <3>2, <3>3 DEF Reflects
  <2> QED
    BY <2>1, <2>2
<1>3. RefetchShows'
  <2>1. CASE refreshed' = 0 /\ q.phase = "fetching" /\ q.forced = TRUE
    <3>1. q.waited \in Nat /\ thread'[t] = q
      BY <1>0 DEF Thread
    <3> QED
      BY <2>1, <3>1 DEF RefetchShows, Waiting
  <2>2. CASE refreshed' = refreshed /\ (cached' = Nobody \/ age' = 0)
    BY <1>0, <2>2 DEF RefetchShows, Types
  <2>3. CASE /\ refreshed' = refreshed /\ UNCHANGED <<cached, age>>
             /\ thread[t].phase \in Waiting => /\ q.phase \in Waiting /\ q.forced = thread[t].forced
                                               /\ q.waited = thread[t].waited
    BY <1>0, <2>3 DEF TokensInv, RefetchShows
  <2> QED
    BY <2>1, <2>2, <2>3
<1>4. VerdictsAreRecent'
  <2>1. refreshed' \in {refreshed, 0}
    OBVIOUS
  <2>2. ASSUME NEW u \in Threads PROVE Recent(thread[u])'
    <3>1. PICK o : o = thread[u]
      OBVIOUS
    <3>2. o \in Thread /\ Recent(o)
      BY <3>1, VerdictsOfAll DEF TokensInv, Types
    <3>3. Recent(o)'
      BY <2>1, <3>2, RecentStays
    <3> QED
      BY <1>0, <3>1, <3>3 DEF Recent
  <2> QED
    BY <2>2 DEF VerdictsAreRecent, Recent
<1> QED
  BY <1>1, <1>2, <1>3, <1>4 DEF TokensInv

(***************************************************************************)
(* Steps of a verification                                                 *)
(***************************************************************************)
\* What a match makes of its thread leaves the rest standing.
LEMMA MatchKeepsInv ==
    ASSUME TokensInv, NEW t \in Threads, NEW token \in Tokens, NEW keys \in SUBSET Keys, NEW forced \in BOOLEAN,
           NEW old \in Nat, Reflects(keys, old), old <= Lifespan + Timeout,
           forced = TRUE => old <= Timeout,
           refreshed < Cooldown => refreshed <= Timeout \/ old < Cooldown + Timeout,
           match(t, token, keys, forced), UNCHANGED <<published, since, spoilt>>,
           \/ (UNCHANGED <<cached, age>> /\ thread[t].phase \notin Waiting)
           \/ cached' = keys /\ age' = 0 /\ old <= Timeout
    PROVE  TokensInv'
<1>1. PICK q \in Thread :
              /\ thread' = [thread EXCEPT ![t] = q] /\ q.waited = 0 /\ q.phase # "answered"
              /\ \/ /\ refreshed' = refreshed /\ q.phase \in {"accepted", "refused"}
                    /\ Recent(q)'
                 \/ refreshed' = 0 /\ q.phase = "fetching" /\ q.forced = TRUE
  BY MatchOK
<1>2. Recent(q)'
  BY <1>1 DEF Recent
<1>3. /\ cached' = Nobody \/ cached' \subseteq Keys
      /\ age' \in Nat
  BY DEF TokensInv, Types
<1>4. CacheReflects'
  <2>1. CASE UNCHANGED <<cached, age>>
    BY <2>1 DEF TokensInv, CacheReflects, Reflects
  <2>2. CASE cached' = keys /\ age' = 0 /\ old <= Timeout
    BY <2>2, TokensConstants DEF CacheReflects, Reflects, TokensInv, Types
  <2> QED
    BY <2>1, <2>2
<1>5. q.waited <= Timeout
  BY <1>1, TokensConstants
<1>6. refreshed' = refreshed \/ (refreshed' = 0 /\ q.phase = "fetching" /\ q.forced = TRUE)
  BY <1>1
<1>7. \/ /\ UNCHANGED <<cached, age>>
         /\ thread[t].phase \in Waiting => q.phase \in Waiting /\ q.forced = thread[t].forced /\ q.waited = thread[t].waited
      \/ cached' = Nobody \/ age' = 0
  OBVIOUS
<1> QED
  BY <1>1, <1>2, <1>3, <1>4, <1>5, <1>6, <1>7, OneMoves

\* A kept set is recent enough to judge by, or the refetch is under way.
LEMMA KeptRecent ==
    ASSUME TokensInv, Kept
    PROVE  /\ age + Timeout \in Nat /\ Reflects(cached, age + Timeout) /\ age + Timeout <= Lifespan + Timeout
           /\ cached \in SUBSET Keys
           /\ refreshed < Cooldown => refreshed <= Timeout \/ age + Timeout < Cooldown + Timeout
<1>1. age \in Nat /\ age <= Lifespan /\ refreshed \in Nat /\ cached # Nobody /\ cached \subseteq Keys
  BY DEF TokensInv, Types, Kept
<1>2. Reflects(cached, age + Timeout)
  BY <1>1 DEF TokensInv, CacheReflects
<1>3. ASSUME refreshed < Cooldown, refreshed > Timeout PROVE age <= refreshed
  <2>1. \A t \in Threads : thread[t].waited \in Nat /\ thread[t].waited <= Timeout
    BY DEF TokensInv, Types, Thread
  <2> QED
    BY <1>1, <1>3, <2>1, TokensConstants DEF TokensInv, RefetchShows
<1> QED
  BY <1>1, <1>2, <1>3, TokensConstants

LEMMA FetchingOK ==
    ASSUME NEW token \in Tokens, NEW forced \in BOOLEAN
    PROVE  LET q == Fetching(token, forced)
           IN  q \in Thread /\ q.phase = "fetching" /\ q.waited = 0
BY DEF Fetching, Idle, Thread, Tokens

LEMMA VerifyKeepsInv ==
    ASSUME TokensInv, NEW t \in Threads, NEW token \in Tokens, verify_supabase_token(t, token) PROVE TokensInv'
<1>0. thread[t].phase = "idle" /\ UNCHANGED <<published, since, cached, age, spoilt>>
  BY DEF verify_supabase_token
<1>1. CASE Kept
  <2>1. PICK keys, old : keys = cached /\ old = age + Timeout
    OBVIOUS
  <2>2. match(t, token, keys, FALSE)
    BY <1>1, <2>1 DEF verify_supabase_token
  <2>3. /\ old \in Nat /\ Reflects(keys, old) /\ old <= Lifespan + Timeout /\ keys \in SUBSET Keys
        /\ refreshed < Cooldown => refreshed <= Timeout \/ old < Cooldown + Timeout
    BY <1>1, <2>1, KeptRecent
  <2>4. UNCHANGED <<cached, age>> /\ thread[t].phase \notin Waiting
    BY <1>0 DEF Waiting
  <2> QED
    BY <1>0, <2>2, <2>3, <2>4, MatchKeepsInv
<1>2. CASE ~Kept
  <2>1. PICK q : q = Fetching(token, FALSE)
    OBVIOUS
  <2>2. q \in Thread /\ q.phase = "fetching" /\ q.waited = 0
    BY <2>1, FetchingOK
  <2>3. thread' = [thread EXCEPT ![t] = q] /\ UNCHANGED refreshed
    BY <1>2, <2>1 DEF verify_supabase_token
  <2>4. Recent(q)' /\ CacheReflects' /\ q.waited <= Timeout
    BY <1>0, <2>2, TokensConstants DEF Recent, TokensInv, CacheReflects, Reflects
  <2>5. age' \in Nat /\ (cached' = Nobody \/ cached' \subseteq Keys)
    BY <1>0 DEF TokensInv, Types
  <2> QED
    BY <1>0, <2>2, <2>3, <2>4, <2>5, OneMoves DEF Waiting
<1> QED
  BY <1>1, <1>2

LEMMA AnswerKeepsInv == ASSUME TokensInv, NEW t \in Threads, ProviderAnswers(t) PROVE TokensInv'
<1>0. thread[t] \in Thread /\ thread[t].phase = "fetching" /\ UNCHANGED <<published, since, cached, age, refreshed>>
      /\ thread[t].waited <= Timeout /\ thread[t].waited \in Nat
  BY DEF ProviderAnswers, TokensInv, Types, Thread
<1>a. PICK keys \in {published, Unusable} :
         /\ thread' = [thread EXCEPT ![t].phase = "answered", ![t].keys = keys]
         /\ spoilt' = IF keys = Unusable THEN 0 ELSE spoilt
  BY DEF ProviderAnswers
<1>1. PICK q : q = [thread[t] EXCEPT !.phase = "answered", !.keys = keys]
  OBVIOUS
<1>2. /\ q \in Thread /\ q.phase = "answered" /\ q.keys = keys /\ q.waited = thread[t].waited
      /\ q.forced = thread[t].forced
  BY <1>0, <1>1 DEF Thread, TokensInv, Types, Unusable
<1>3. thread' = [thread EXCEPT ![t] = q] /\ spoilt' \in {spoilt, 0}
  BY <1>0, <1>1, <1>a DEF TokensInv, Types
<1>4. Reflects(q.keys, q.waited)' /\ Recent(q)'
  BY <1>0, <1>2, <1>a DEF Reflects, Recent
<1>5. CacheReflects' /\ age' \in Nat /\ (cached' = Nobody \/ cached' \subseteq Keys)
  <2>1. age + Timeout \in Nat /\ spoilt \in Nat
    BY TokensConstants DEF TokensInv, Types
  <2> QED
    BY <1>0, <1>3, <2>1, TokensConstants DEF TokensInv, Types, CacheReflects, Reflects
<1> QED
  BY <1>0, <1>2, <1>3, <1>4, <1>5, OneMoves DEF Waiting

LEMMA PlaceKeepsInv == ASSUME TokensInv, NEW t \in Threads, asymmetric_key(t) PROVE TokensInv'
<1>0. thread[t] \in Thread /\ thread[t].phase = "answered" /\ thread[t].waited <= Timeout
  BY DEF asymmetric_key, TokensInv, Types
<1>1. PICK token, keys, forced, old :
         token = thread[t].token /\ keys = thread[t].keys /\ forced = thread[t].forced /\ old = thread[t].waited
  OBVIOUS
<1>2. /\ token \in Tokens /\ keys \in SUBSET Keys /\ forced \in BOOLEAN /\ old \in Nat /\ old <= Timeout
      /\ Reflects(keys, old)
  BY <1>0, <1>1 DEF Thread, TokensInv, Answers
<1>3. match(t, token, keys, forced) /\ cached' = keys /\ age' = 0 /\ UNCHANGED <<published, since, spoilt>>
  BY <1>1 DEF asymmetric_key
<1>4. old <= Lifespan + Timeout /\ old < Cooldown + Timeout
  BY <1>2, TokensConstants
<1> QED
  BY <1>2, <1>3, <1>4, MatchKeepsInv

LEMMA EndKeepsInv == ASSUME TokensInv, NEW t \in Threads, key_set_unavailable(t) \/ Done(t) PROVE TokensInv'
<1>1. PICK q : q = Idle
  OBVIOUS
<1>2. q \in Thread /\ q.phase = "idle" /\ q.waited = 0
  BY <1>1, TokensConstants DEF Idle, Thread, Tokens
<1>3. thread' = [thread EXCEPT ![t] = q] /\ UNCHANGED <<published, since, refreshed, spoilt>>
  BY <1>1 DEF key_set_unavailable, Done
<1>4. cached' = Nobody \/ (UNCHANGED <<cached, age>> /\ thread[t].phase \notin Waiting)
  <2>1. CASE key_set_unavailable(t)
    BY <2>1 DEF key_set_unavailable
  <2>2. CASE Done(t)
    BY <2>2 DEF Done, Waiting
  <2> QED
    BY <2>1, <2>2
<1>5. CacheReflects' /\ age' \in Nat /\ (cached' = Nobody \/ cached' \subseteq Keys)
  BY <1>3, <1>4 DEF TokensInv, Types, CacheReflects, Reflects, key_set_unavailable, Done
<1>6. Recent(q)' /\ q.waited <= Timeout
  BY <1>2, TokensConstants DEF Recent
<1> QED
  BY <1>2, <1>3, <1>4, <1>5, <1>6, OneMoves

(***************************************************************************)
(* The provider and the clock                                              *)
(***************************************************************************)
LEMMA ProviderKeepsInv == ASSUME TokensInv, NEW k \in Keys, Publish(k) \/ Retire(k) PROVE TokensInv'
<1>1. /\ UNCHANGED <<cached, age, refreshed, spoilt, thread>> /\ since' = [since EXCEPT ![k] = 0]
      /\ published' = published \cup {k} \/ published' = published \ {k}
  BY DEF Publish, Retire
<1>2. /\ since' \in [Keys -> Nat] /\ since'[k] = 0
      /\ \A j \in Keys \ {k} : since'[j] = since[j] /\ (j \in published' <=> j \in published)
  BY <1>1 DEF TokensInv, Types
<1>3. Types'
  BY <1>1, <1>2 DEF TokensInv, Types
<1>4. \A keys, old : old \in Nat /\ Reflects(keys, old) => Reflects(keys, old)'
  BY <1>1, <1>2 DEF Reflects
<1>5. Answers'
  BY <1>1, <1>4 DEF TokensInv, Answers, Types, Thread
<1>6. CacheReflects'
  <2>1. age \in Nat /\ age + Timeout \in Nat
    BY TokensConstants DEF TokensInv, Types
  <2> QED
    BY <1>1, <1>4, <2>1 DEF TokensInv, CacheReflects, Reflects
<1>7. RefetchShows'
  <2>1. RefetchShows
    BY DEF TokensInv
  <2> QED
    BY <1>1, <2>1 DEF RefetchShows
<1>8. VerdictsAreRecent'
  <2> SUFFICES ASSUME NEW t \in Threads PROVE Recent(thread[t])'
    BY VerdictsOfAll DEF VerdictsAreRecent, Recent
  <2>1. PICK q : q = thread[t]
    OBVIOUS
  <2>2. q \in Thread /\ Recent(q)
    BY <2>1, VerdictsOfAll DEF TokensInv, Types
  <2>3. /\ q.token \in Keys \/ q.token = 0
        /\ 0 \notin Keys /\ published' \subseteq Keys
    BY <1>3, <2>2 DEF Thread, Tokens, Keys, Types
  <2>4. Recent(q)'
    BY <1>1, <1>2, <2>2, <2>3, TokensConstants DEF Recent
  <2> QED
    BY <1>1, <2>1, <2>4 DEF Recent
<1> QED
  BY <1>3, <1>5, <1>6, <1>7, <1>8 DEF TokensInv

LEMMA TickKeepsInv == ASSUME TokensInv, Tick PROVE TokensInv'
<1>0. Types /\ UNCHANGED <<published, cached>>
  BY DEF TokensInv, Tick
<1>1. \A n \in Nat, m \in Nat : Later(n, m) \in Nat /\ Later(n, m) <= n + 1 /\ (n < m => Later(n, m) = n + 1)
                               /\ (n <= m => Later(n, m) <= m) /\ n <= Later(n, m)
  BY DEF Later
<1>2. since' \in [Keys -> Nat] /\ \A k \in Keys : since'[k] <= since[k] + 1 /\ since[k] \in Nat /\ since'[k] \in Nat
  BY <1>0, <1>1, TokensConstants DEF Tick, Types, Long
<1>3. /\ age' \in Nat /\ age \in Nat /\ age' <= age + 1
      /\ cached # Nobody /\ age' <= Lifespan => age' = age + 1
  BY <1>0, <1>1, TokensConstants DEF Tick, Types, Later
<1>4. refreshed' \in 0..Cooldown /\ refreshed \in 0..Cooldown /\ (refreshed' < Cooldown => refreshed' = refreshed + 1)
  BY <1>0, <1>1, TokensConstants DEF Tick, Types, Later
<1>s. spoilt' \in Nat /\ spoilt \in Nat /\ spoilt' <= spoilt + 1
  BY <1>0, <1>1, TokensConstants DEF Tick, Types, Long
<1>5. ASSUME NEW t \in Threads
      PROVE  \/ thread'[t] = thread[t] /\ thread[t].phase = "idle" /\ thread[t] \in Thread
             \/ /\ thread[t].phase \in Waiting /\ thread[t].waited < Timeout /\ thread[t] \in Thread
                /\ thread'[t] = [thread[t] EXCEPT !.waited = thread[t].waited + 1]
  <2>1. thread[t].phase = "idle" \/ (thread[t].phase \in Waiting /\ thread[t].waited < Timeout)
    BY DEF Tick, Waiting
  <2>2. thread'[t] = IF thread[t].phase = "idle" THEN thread[t]
                     ELSE [thread[t] EXCEPT !.waited = thread[t].waited + 1]
    BY DEF Tick
  <2> QED
    BY <1>0, <2>1, <2>2 DEF Types, Waiting
<1>6. ASSUME NEW t \in Threads
      PROVE  /\ thread'[t] \in Thread /\ thread'[t].waited <= Timeout
             /\ thread'[t].phase = thread[t].phase /\ thread'[t].phase \in Waiting \cup {"idle"}
             /\ thread'[t].keys = thread[t].keys /\ thread'[t].forced = thread[t].forced
             /\ thread[t].waited \in Nat /\ thread[t].keys \in SUBSET Keys
             /\ thread[t].phase # "idle" => thread'[t].waited = thread[t].waited + 1
  <2>1. CASE thread'[t] = thread[t] /\ thread[t].phase = "idle" /\ thread[t] \in Thread
    BY <1>0, <2>1 DEF Types, Thread
  <2>2. CASE /\ thread[t].phase \in Waiting /\ thread[t].waited < Timeout /\ thread[t] \in Thread
             /\ thread'[t] = [thread[t] EXCEPT !.waited = thread[t].waited + 1]
    <3>1. PICK q : q = [thread[t] EXCEPT !.waited = thread[t].waited + 1]
      OBVIOUS
    <3>2. /\ q \in Thread /\ q.phase = thread[t].phase /\ q.keys = thread[t].keys
          /\ q.forced = thread[t].forced /\ q.waited = thread[t].waited + 1
          /\ thread[t].waited \in Nat /\ thread[t].keys \in SUBSET Keys
      BY <2>2, <3>1 DEF Thread
    <3>3. thread'[t] = q
      BY <2>2, <3>1
    <3> HIDE <3>1, <2>2
    <3> QED
      BY <2>2, <3>2, <3>3, TokensConstants
  <2> QED
    BY <1>5, <2>1, <2>2
<1>7. Types'
  <2>1. thread' = [t \in Threads |-> thread'[t]]
    BY DEF Tick
  <2>2. thread' \in [Threads -> Thread]
    BY <1>6, <2>1
  <2> QED
    BY <1>0, <1>2, <1>3, <1>4, <1>6, <1>s, <2>2 DEF Types
<1>8. \A keys : \A old \in Nat : Reflects(keys, old) => Reflects(keys, old + 1)'
  BY <1>0, <1>2, <1>s DEF Reflects
<1>9. Answers'
  <2> SUFFICES ASSUME NEW t \in Threads, thread'[t].phase = "answered"
               PROVE  Reflects(thread[t].keys, thread[t].waited)'
    BY DEF Answers
  <2>1. PICK keys, old : keys = thread[t].keys /\ old = thread[t].waited
    OBVIOUS
  <2>2. old \in Nat /\ Reflects(keys, old)
    BY <1>6, <2>1 DEF TokensInv, Answers
  <2>3. Reflects(keys, old + 1)'
    BY <1>8, <2>2
  <2>4. thread'[t].keys = keys /\ thread'[t].waited = old + 1
    BY <1>6, <2>1
  <2> QED
    BY <2>3, <2>4 DEF Reflects
<1>10. CacheReflects'
  <2> SUFFICES ASSUME cached # Nobody, age' <= Lifespan PROVE Reflects(cached, age + Timeout)'
    BY <1>0 DEF CacheReflects
  <2>1. PICK keys, old : keys = cached /\ old = age + Timeout
    OBVIOUS
  <2>2. age' = age + 1 /\ age <= Lifespan /\ old \in Nat /\ age' + Timeout = old + 1
    BY <1>3, <2>1, TokensConstants
  <2>3. Reflects(keys, old + 1)'
    BY <1>8, <2>1, <2>2 DEF TokensInv, CacheReflects
  <2> QED
    BY <1>0, <2>1, <2>2, <2>3 DEF Reflects
<1>11. RefetchShows'
  <2> SUFFICES ASSUME refreshed' < Cooldown, cached # Nobody, ~(age' <= refreshed')
               PROVE  \E t \in Threads : thread'[t].phase \in Waiting /\ thread'[t].forced = TRUE
                                         /\ refreshed' <= thread'[t].waited
    BY <1>0 DEF RefetchShows
  <2>1. refreshed' = refreshed + 1 /\ refreshed < Cooldown /\ ~(age <= refreshed)
    BY <1>3, <1>4, TokensConstants
  <2>2. PICK t \in Threads : thread[t].phase \in Waiting /\ thread[t].forced = TRUE /\ refreshed <= thread[t].waited
    BY <2>1 DEF TokensInv, RefetchShows
  <2>3. thread'[t].waited = thread[t].waited + 1 /\ thread'[t].phase \in Waiting /\ thread'[t].forced = TRUE
    BY <1>6, <2>2 DEF Waiting
  <2>4. refreshed' <= thread'[t].waited
    BY <1>4, <1>6, <2>1, <2>2, <2>3
  <2> QED
    BY <2>3, <2>4
<1>12. VerdictsAreRecent'
  BY <1>6 DEF VerdictsAreRecent, Waiting
<1> QED
  BY <1>7, <1>9, <1>10, <1>11, <1>12 DEF TokensInv

LEMMA StepKeepsInv == ASSUME TokensInv, [TokensNext]_tokensVars PROVE TokensInv'
<1>1. CASE UNCHANGED tokensVars
  <2>1. UNCHANGED <<published, since, cached, age, refreshed, spoilt, thread>>
    BY <1>1 DEF tokensVars
  <2>2. Types' /\ Answers' /\ CacheReflects'
    BY <2>1 DEF TokensInv, Types, Answers, CacheReflects, Reflects
  <2>3. RefetchShows' /\ VerdictsAreRecent'
    BY <2>1 DEF TokensInv, RefetchShows, VerdictsAreRecent
  <2> QED
    BY <2>2, <2>3 DEF TokensInv
<1> QED
  BY <1>1, VerifyKeepsInv, AnswerKeepsInv, PlaceKeepsInv, EndKeepsInv, ProviderKeepsInv, TickKeepsInv DEF TokensNext

(* auth/tokens.py:76-148: however fetches are slow, fail or overtake one   *)
(* another, a retired key is taken no longer than a fetched set lasts and  *)
(* a published one refused no longer than a cooldown and a fetch.          *)
THEOREM SpecVerdictsAreRecent == TokensSpec => []VerdictsAreRecent
<1>1. TokensInv => VerdictsAreRecent
  BY DEF TokensInv
<1> QED
  BY <1>1, TokensInitInv, StepKeepsInv, PTL DEF TokensSpec
=============================================================================
