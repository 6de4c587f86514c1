------------------------------- MODULE Settings ------------------------------
(***************************************************************************)
(* The settings blob of one account (settings/service.py): devices edit    *)
(* what they know of it and put the result with a timestamp of their own   *)
(* clock; requests and answers are lost, repeated and overtaken; one       *)
(* upsert decides, by timestamps alone.  Module Register is what comes of  *)
(* it.  A blob is the number of the edit that made it, and a stored or     *)
(* known one goes with its updated_at; 0 is NULL.                          *)
(***************************************************************************)
EXTENDS Naturals

CONSTANTS
    MaxDevices, \* bound: the account's devices
    MaxValues,  \* bound: edits
    MaxStamp    \* bound: timestamps a client's clock shows

ASSUME SettingsConstants == MaxDevices \in Nat /\ MaxValues \in Nat /\ MaxStamp \in Nat

VARIABLES
    row,     \* user_settings
    known,   \* what each device last got
    sent,    \* the PUTs of all edits: each may arrive late, again, or never
    answers, \* answers on their way
    offered, \* history: edits so far
    parent,  \* history: what each was made from
    stamp,   \* history: the timestamp it was given
    free,    \* history: those put with no base_updated_at
    stored   \* history: every blob that was ever in the row

vars == <<row, known, sent, answers, offered, parent, stamp, free, stored>>

Devices == 1..MaxDevices
Values == 1..MaxValues
Stamps == 1..MaxStamp

Nothing == [blob |-> 0, at |-> 0]
Blob == [blob: 0..MaxValues, at: 0..MaxStamp]
Put == [device: Devices, blob: Values, at: Stamps, merged: BOOLEAN, base: 0..MaxStamp]
Answer == [device: Devices, blob: 0..MaxValues, at: 0..MaxStamp]

TypeOK ==
    /\ row \in Blob /\ known \in [Devices -> Blob]
    /\ sent \subseteq Put /\ answers \subseteq Answer
    /\ offered \in 0..MaxValues
    /\ parent \in [Values -> 0..MaxValues] /\ stamp \in [Values -> 0..MaxStamp]
    /\ free \subseteq Values /\ stored \subseteq Values

Init ==
    /\ row = Nothing /\ known = [d \in Devices |-> Nothing]
    /\ sent = {} /\ answers = {}
    /\ offered = 0 /\ parent = [v \in Values |-> 0] /\ stamp = [v \in Values |-> 0]
    /\ free = {} /\ stored = {}

\* A device edits what it knows, and merges: it names the stamp of that, 0 if it found
\* nothing, as the base; or it leaves the base out (`merged` is false).
Edit(d, at, merged) ==
    /\ offered < MaxValues
    /\ sent' = sent \cup {[device |-> d, blob |-> offered + 1, at |-> at,
                           merged |-> merged, base |-> known[d].at]}
    /\ offered' = offered + 1
    /\ parent' = [parent EXCEPT ![offered + 1] = known[d].blob]
    /\ stamp' = [stamp EXCEPT ![offered + 1] = at]
    /\ free' = IF merged THEN free ELSE free \cup {offered + 1}
    /\ UNCHANGED <<row, known, answers, stored>>

\* Mutation: the base only has to be no newer than what is stored.
write_if_Newer(q) ==
    IF ~q.merged THEN row.at <= q.at ELSE q.base <= row.at /\ row.at < q.at

\* The condition of the upsert, checked under the row's lock.
write_if(q) ==
    IF ~q.merged THEN row.at <= q.at ELSE row.at = q.base /\ row.at < q.at

Replies(d, b) == answers' = answers \cup {[device |-> d, blob |-> b.blob, at |-> b.at]}

put_settings(q) ==
    /\ row.blob = 0 \/ write_if(q)
    /\ row' = [blob |-> q.blob, at |-> q.at]
    /\ stored' = stored \cup {q.blob}
    /\ Replies(q.device, row')
    /\ UNCHANGED <<known, sent, offered, parent, stamp, free>>

\* Refused: winner="server", with the row the condition was checked against.
PutRefused(q) ==
    /\ row.blob # 0 /\ ~write_if(q)
    /\ Replies(q.device, row)
    /\ UNCHANGED <<row, known, sent, offered, parent, stamp, free, stored>>

get_settings(d) ==
    /\ row.blob # 0 /\ Replies(d, row)
    /\ UNCHANGED <<row, known, sent, offered, parent, stamp, free, stored>>

\* Answers arrive in any order, or never.
Learn(a) ==
    /\ known' = [known EXCEPT ![a.device] = [blob |-> a.blob, at |-> a.at]]
    /\ answers' = answers \ {a}
    /\ UNCHANGED <<row, sent, offered, parent, stamp, free, stored>>

Next ==
    \/ \E d \in Devices, at \in Stamps, merged \in BOOLEAN: Edit(d, at, merged)
    \/ \E q \in sent: put_settings(q) \/ PutRefused(q)
    \/ \E d \in Devices: get_settings(d)
    \/ \E a \in answers: Learn(a)

Spec == Init /\ [][Next]_vars

(***************************************************************************)
(* Properties                                                              *)
(***************************************************************************)
R == INSTANCE Register WITH current <- row.blob

(* The compare-and-swap by timestamps is a register that loses no merged   *)
(* value: whatever is repeated, overtaken or stamped by a wrong clock, a   *)
(* blob that was merged is only replaced by one merged from that very blob *)
(* or by a device that names no base.                                      *)
LosesNoMerge == R!Spec

(***************************************************************************)
(* What the proof of it rests on                                           *)
(***************************************************************************)
\* A blob that was stored, with its own timestamp; or nothing.
Genuine(b) ==
    \/ b.blob = 0 /\ b.at = 0
    \/ b.blob \in stored /\ b.at = stamp[b.blob]

\* Every copy of a blob goes with the timestamp it was given, and a PUT names the timestamp of
\* what it was made from.
CopiesGenuine ==
    /\ Genuine(row)
    /\ \A d \in Devices: Genuine(known[d])
    /\ \A a \in answers: Genuine(a)
    /\ stored \subseteq 1..offered
    /\ \A q \in sent: /\ q.blob \in 1..offered /\ q.at = stamp[q.blob]
                      /\ q.merged \/ q.blob \in free
                      /\ Genuine([blob |-> parent[q.blob], at |-> q.base])

\* Stamps never fall, and a merged blob is stamped above all that was stored before it.
StampsRise ==
    /\ \A v \in stored: stamp[v] \in Stamps /\ stamp[v] <= row.at
    /\ row.blob \in free \/ \A v \in stored: v = row.blob \/ stamp[v] < row.at
    /\ row.blob = 0 => stored = {}

Inv == TypeOK /\ CopiesGenuine /\ StampsRise
=============================================================================
