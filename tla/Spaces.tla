-------------------------------- MODULE Spaces -------------------------------
(***************************************************************************)
(* One space: spaces/service.py, spaces/invites.py and                     *)
(* spaces/join_requests.py.  Its owner, its members and the people outside *)
(* it change its settings, invite, knock, join, leave and hand its key     *)
(* over.                                                                   *)
(*                                                                         *)
(* The session neither flushes before a query nor refreshes after a commit *)
(* (database.py), and takes no lock: a handler decides everything from the *)
(* rows it loaded, and a commit writes the columns whose value it changed, *)
(* whatever has happened to the rows since.  So a request here is what the *)
(* client sent, what the handler then read, and one commit, or two for the *)
(* handlers that join somebody.                                            *)
(*                                                                         *)
(* Abstracted: the Space Key ring a keyring holds is its newest key's      *)
(* number; a wrap is that number and whose identity key made it.  Expiry   *)
(* of invites and of the code only refuses, which is as if nothing had     *)
(* been asked.  The reads between two commits of a handler are one step.   *)
(***************************************************************************)
EXTENDS Integers, FiniteSets

CONSTANTS
    People,      \* accounts
    Owner,       \* the one who created the space
    Regulars,    \* guests in from the start
    ShareHistory,\* the policy the space was created with
    Invites,     \* ids of invite rows
    Slots,       \* requests under way at once
    MaxEvents,   \* bound: requests sent, the owner's reconciling aside, and crashes
    MaxRing,     \* bound: keys the owner mints
    None

ASSUME SpacesConstants ==
    /\ Owner \in People /\ Regulars \subseteq People \ {Owner} /\ ShareHistory \in BOOLEAN
    /\ None \notin People /\ None \notin Invites
    /\ MaxEvents \in Nat /\ MaxRing \in Nat \ {0}

VARIABLES
    db,       \* the committed rows: spaces, memberships, invites, join requests
    request,  \* the request in each slot
    ring,     \* the newest key each person's client has been given
    exposed,  \* the newest key held by anyone who has left
    raced,    \* history: a commit while wraps were on their way, or over rows changed
              \*          since they were read
    events    \* requests sent and crashes, at most MaxEvents

vars == <<db, request, ring, exposed, raced, events>>

Guests == People \ {Owner}

NoWrap == [key |-> 0, by |-> None]
Wrap == [key: Nat, by: People \cup {None}]

\* space_memberships: wrapped_space_keys, wrapped_by and whether history_from_ts is set.
NoRow == [in |-> FALSE, floor |-> FALSE, wrap |-> NoWrap, wrapped_by |-> None]
NoInvite == [status |-> "none", to |-> None, wrap |-> NoWrap]

Database ==
    [space: [in: BOOLEAN, share_history: BOOLEAN, members_can_approve: BOOLEAN,
             rekey: Nat, fingerprint: Nat],
     members: [People -> [in: BOOLEAN, floor: BOOLEAN, wrap: Wrap, wrapped_by: People \cup {None}]],
     invites: [Invites -> [status: {"none", "pending", "accepted", "declined", "revoked"},
                           to: People \cup {None}, wrap: Wrap]],
     knocks: [People -> {"none", "pending", "approved", "declined"}]]

Deleted ==
    [space |-> [in |-> FALSE, share_history |-> FALSE, members_can_approve |-> FALSE,
                rekey |-> 0, fingerprint |-> 0],
     members |-> [p \in People |-> NoRow],
     invites |-> [i \in Invites |-> NoInvite],
     knocks |-> [p \in People |-> "none"]]

Settings == {"share", "unshare", "open_door", "close_door"}

\* A request carrying wraps was put together by its client before it is read.
Carrying == {"distribute", "attach", "approve"}

Idle == [op |-> "none", stage |-> "none", who |-> None, whom |-> None,
         invite |-> None, key |-> 0, rows |-> {}, seen |-> None]

Largest(S) == CHOOSE m \in S : \A n \in S : n <= m

FirstWrap == [key |-> 1, by |-> Owner]
FirstRow(p) == [in |-> TRUE, floor |-> p # Owner /\ ~ShareHistory, wrap |-> FirstWrap, wrapped_by |-> Owner]
FirstInvites(out) == {[status |-> "pending", to |-> p, wrap |-> w] : p \in out, w \in {NoWrap, FirstWrap}}

\* A space created with the policy ShareHistory once the guests of a set that
\* has Regulars in it have been let in and handed its first key, and others may
\* have an invite, with that key or without.
Init ==
    /\ \E joined \in SUBSET Guests :
         /\ Regulars \subseteq joined
         /\ \E invites \in [Invites -> {NoInvite} \cup FirstInvites(Guests \ joined)] :
              /\ \A i, j \in Invites : i # j /\ invites[i].to = invites[j].to => invites[i] = NoInvite
              /\ db = [space |-> [in |-> TRUE, share_history |-> ShareHistory,
                                  members_can_approve |-> FALSE, rekey |-> 0, fingerprint |-> 1],
                       members |-> [p \in People |-> IF p \in joined \cup {Owner} THEN FirstRow(p) ELSE NoRow],
                       invites |-> invites,
                       knocks |-> [p \in People |-> "none"]]
         /\ ring = [p \in People |-> IF p \in joined \cup {Owner} THEN 1 ELSE 0]
    /\ request = [s \in Slots |-> Idle]
    /\ exposed = 0
    /\ raced = FALSE
    /\ events = 0

-----------------------------------------------------------------------------
(* Who may do what: the checks each handler makes on the rows it reads *)

may_approve(d, p) == d.members[p].in /\ (p = Owner \/ d.space.members_can_approve)

owns(p) == p = Owner

\* The owner removes anyone else, a member itself.
may_remove(d, p, q) == p \in {Owner, q} /\ q # Owner /\ d.members[q].in

may_invite(d, p, q) == owns(p) /\ ~owns(q) /\ ~d.members[q].in

\* Mutant of may_knock: a declined request is asked again.
may_knock_Again(d, p) == ~d.members[p].in /\ d.knocks[p] # "pending"

\* request_join: a declined row stays as it is, a spent one is reopened.
may_knock(d, p) == ~d.members[p].in /\ d.knocks[p] \in {"none", "approved"}

Pending(d, i) == d.invites[i].status = "pending"
invited(d, i, p) == Pending(d, i) /\ d.invites[i].to = p
pending_row(d, p) == d.knocks[p] = "pending"

Allowed(r, d) ==
    /\ d.space.in
    /\ CASE r.op \in Settings \cup {"delete"} -> owns(r.who)
         [] r.op = "remove" -> may_remove(d, r.who, r.whom)
         [] r.op = "distribute" -> d.members[r.who].in /\ r.key # 0
         [] r.op = "invite" -> may_invite(d, r.who, r.whom)
         [] r.op \in {"attach", "revoke"} -> owns(r.who) /\ Pending(d, r.invite)
         [] r.op \in {"accept", "decline"} -> invited(d, r.invite, r.who)
         [] r.op = "knock" -> may_knock(d, r.who)
         [] r.op \in {"approve", "turn_down"} -> may_approve(d, r.who) /\ pending_row(d, r.whom)

-----------------------------------------------------------------------------
(* What each handler makes of the rows d it has loaded *)

\* Mutant of update_space: opening the history leaves the floors.
update_space_KeepsFloors(r, d) ==
    CASE r.op = "share" -> [d EXCEPT !.space.share_history = TRUE]
      [] r.op = "unshare" -> [d EXCEPT !.space.share_history = FALSE]
      [] r.op = "open_door" -> [d EXCEPT !.space.members_can_approve = TRUE]
      [] r.op = "close_door" -> [d EXCEPT !.space.members_can_approve = FALSE]

\* Opening the history takes every member's floor off; closing it leaves them.
update_space(r, d) ==
    CASE r.op = "share" -> [d EXCEPT !.space.share_history = TRUE,
                                     !.members = [p \in People |-> [d.members[p] EXCEPT !.floor = FALSE]]]
      [] r.op = "unshare" -> [d EXCEPT !.space.share_history = FALSE]
      [] r.op = "open_door" -> [d EXCEPT !.space.members_can_approve = TRUE]
      [] r.op = "close_door" -> [d EXCEPT !.space.members_can_approve = FALSE]

Keyless(row) == [row EXCEPT !.wrap = NoWrap, !.wrapped_by = None]

\* Mutant of remove_member: the owner's wrap goes with the others'.
remove_member_ClearsAll(r, d) ==
    [d EXCEPT
        !.members = [p \in People |-> IF p = r.whom THEN NoRow ELSE Keyless(d.members[p])],
        !.invites = [i \in Invites |-> [d.invites[i] EXCEPT !.wrap = NoWrap]],
        !.space.rekey = r.key]

\* Mutant of remove_member: a wrap attached to an invite stays.
remove_member_KeepsInvites(r, d) ==
    [d EXCEPT
        !.members = [p \in People |-> IF p = r.whom THEN NoRow
                                      ELSE IF p = Owner THEN d.members[p] ELSE Keyless(d.members[p])],
        !.space.rekey = r.key]

\* The others' wraps and the pending invites' are cleared; the owner's is its
\* only copy across a restart and stays.  Each departure stamps its own time.
remove_member(r, d) ==
    [d EXCEPT
        !.members = [p \in People |-> IF p = r.whom THEN NoRow
                                      ELSE IF p = Owner THEN d.members[p] ELSE Keyless(d.members[p])],
        !.invites = [i \in Invites |-> [d.invites[i] EXCEPT !.wrap = NoWrap]],
        !.space.rekey = r.key]

\* A relay fills a gap, and never the owner's.
MayWrite(r, d, p) ==
    /\ d.members[p].in
    /\ r.who = Owner \/ (p # Owner /\ d.members[p].wrap = NoWrap)

Rewrapped(r, d) ==
    [p \in People |-> IF p \in r.rows /\ MayWrite(r, d, p)
                      THEN [d.members[p] EXCEPT !.wrap = [key |-> r.key, by |-> r.who], !.wrapped_by = r.who]
                      ELSE d.members[p]]

AllHold(members) == \A p \in People : members[p].in => members[p].wrap # NoWrap

\* Mutant of distribute_keys: the caller is not recorded.
distribute_keys_Unsigned(r, d) ==
    [d EXCEPT
        !.members = [p \in People |-> [Rewrapped(r, d)[p] EXCEPT !.wrapped_by = d.members[p].wrapped_by]],
        !.space.fingerprint = IF r.who = Owner THEN r.key ELSE d.space.fingerprint,
        !.space.rekey = IF r.who = Owner /\ AllHold(Rewrapped(r, d)) THEN 0 ELSE d.space.rekey]

\* Mutant of distribute_keys: the rekey owed is not settled.
distribute_keys_Unsettled(r, d) ==
    [d EXCEPT !.members = Rewrapped(r, d),
              !.space.fingerprint = IF r.who = Owner THEN r.key ELSE d.space.fingerprint]

\* Only the owner says what the key is, and settles a rekey: when every member
\* has a wrap after it.
distribute_keys(r, d) ==
    [d EXCEPT
        !.members = Rewrapped(r, d),
        !.space.fingerprint = IF r.who = Owner THEN r.key ELSE d.space.fingerprint,
        !.space.rekey = IF r.who = Owner /\ AllHold(Rewrapped(r, d)) THEN 0 ELSE d.space.rekey]

\* A pending invite is refreshed, and its wrap dropped; else a new row.
create_invite(r, d) ==
    IF d.invites[r.invite].status = "pending"
    THEN [d EXCEPT !.invites[r.invite].wrap = NoWrap]
    ELSE [d EXCEPT !.invites[r.invite] = [status |-> "pending", to |-> r.whom, wrap |-> NoWrap]]

add_membership(d, p, wrap, by) ==
    [d EXCEPT !.members[p] = [in |-> TRUE, floor |-> ~d.space.share_history, wrap |-> wrap, wrapped_by |-> by]]

\* The membership is one commit, the spent invite the next.
accept_invite(r, d) ==
    IF d.members[r.who].in
    THEN [d EXCEPT !.invites[r.invite] = [@ EXCEPT !.status = "accepted", !.wrap = NoWrap]]
    ELSE add_membership(d, r.who, d.invites[r.invite].wrap, Owner)

approve(r, d) ==
    IF d.members[r.whom].in
    THEN [d EXCEPT !.knocks[r.whom] = "approved"]
    ELSE IF r.key = 0 THEN add_membership(d, r.whom, NoWrap, None)
    ELSE add_membership(d, r.whom, [key |-> r.key, by |-> r.who], r.who)

attach_invite_key(r, d) == [d EXCEPT !.invites[r.invite].wrap = [key |-> r.key, by |-> Owner]]
revoke_invite(r, d) == [d EXCEPT !.invites[r.invite].status = "revoked"]
decline_invite(r, d) == [d EXCEPT !.invites[r.invite].status = "declined"]

\* A new row or a spent one reopened; the row is the person's only one.
request_join(r, d) == [d EXCEPT !.knocks[r.who] = "pending"]
decline(r, d) == [d EXCEPT !.knocks[r.whom] = "declined"]

\* Everything the space has goes with it.
delete_space(r, d) == Deleted

After(r, d) ==
    CASE r.op \in Settings -> update_space(r, d)
      [] r.op = "delete" -> delete_space(r, d)
      [] r.op = "remove" -> remove_member(r, d)
      [] r.op = "distribute" -> distribute_keys(r, d)
      [] r.op = "invite" -> create_invite(r, d)
      [] r.op = "attach" -> attach_invite_key(r, d)
      [] r.op = "revoke" -> revoke_invite(r, d)
      [] r.op = "accept" -> accept_invite(r, d)
      [] r.op = "decline" -> decline_invite(r, d)
      [] r.op = "knock" -> request_join(r, d)
      [] r.op = "approve" -> approve(r, d)
      [] r.op = "turn_down" -> decline(r, d)

-----------------------------------------------------------------------------
(* What a commit makes of the rows there now *)

\* Only columns whose value differs from the one loaded are written.
Changed(old, new, now) == [c \in DOMAIN old |-> IF new[c] # old[c] THEN new[c] ELSE now[c]]

\* Mutant of ChangedRow: a row that was deleted keeps what others wrote to it.
ChangedRow_Kept(old, new, now) == Changed(old, new, now)

\* A deletion takes the whole row, whatever others have written to it.
ChangedRow(old, new, now) ==
    LET row == Changed(old, new, now) IN IF row.in THEN row ELSE NoRow

Flushed(old, new, now) ==
    IF ~new.space.in THEN Deleted
    ELSE [space |-> Changed(old.space, new.space, now.space),
          members |-> [p \in People |-> ChangedRow(old.members[p], new.members[p], now.members[p])],
          invites |-> [i \in Invites |-> Changed(old.invites[i], new.invites[i], now.invites[i])],
          knocks |-> Changed(old.knocks, new.knocks, now.knocks)]

\* The database refuses an insert of a key that is there, or of a child of a
\* space that is not; the session an update that finds no row.
Refused(old, new, now) ==
    \/ ~now.space.in
    \/ \E p \in People :
         /\ new.members[p] # old.members[p] /\ new.members[p].in
         /\ now.members[p].in # old.members[p].in
    \/ \E p \in People : old.knocks[p] = "none" /\ new.knocks[p] # "none" /\ now.knocks[p] # "none"

-----------------------------------------------------------------------------
(* Requests *)

Call(op, who) == [Idle EXCEPT !.op = op, !.who = who]
About(op, who, whom, key) == [Call(op, who) EXCEPT !.whom = whom, !.key = key]
OfInvite(op, who, invite, key) == [Call(op, who) EXCEPT !.invite = invite, !.key = key]
Distribution(who, key, rows) == [Call("distribute", who) EXCEPT !.key = key, !.rows = rows]
Relay(p, q) == Distribution(p, ring[p], {q})

\* The owner's client hands out a key nobody it knows to have left holds.
Minted == IF ring[Owner] <= exposed THEN ring[Owner] + 1 ELSE ring[Owner]

Newest(p) == IF p = Owner THEN Minted ELSE ring[p]

\* Every departure has a time of its own.
Now == events + 1

\* What the clients ask; a request that would be refused now is as none.  A
\* client that hands the key over hands over the newest it holds.
Calls ==
    {Call(op, Owner) : op \in Settings \cup {"delete"}}
    \cup {About("remove", p, q, Now) : p \in People, q \in Guests}
    \cup {Relay(p, q) : p, q \in Guests}
    \cup {[OfInvite("invite", Owner, i, 0) EXCEPT !.whom = q] : q \in Guests, i \in Invites}
    \cup {OfInvite("attach", Owner, i, Minted) : i \in Invites}
    \cup {OfInvite("revoke", Owner, i, 0) : i \in Invites}
    \cup {OfInvite(op, p, i, 0) : op \in {"accept", "decline"}, p \in Guests, i \in Invites}
    \cup {Call("knock", p) : p \in Guests}
    \cup {About("approve", p, q, Newest(p)) : p \in People, q \in Guests}
    \cup {About("turn_down", p, q, 0) : p \in People, q \in Guests}

\* A refresh takes a pending row, a new invite an id nobody has.
RowChosen(r) ==
    IF \E i \in Invites : invited(db, i, r.whom)
    THEN invited(db, r.invite, r.whom)
    ELSE /\ db.invites[r.invite].status = "none"
         /\ \A s \in Slots : request[s].invite # r.invite

\* The bound on keys: every departure may cost the owner one.
Affordable == Minted + Cardinality({s \in Slots : request[s].op = "remove"}) < MaxRing

\* Slots are alike: the first free one.
Accept(r) ==
    LET s == CHOOSE x \in Slots : request[x] = Idle
    IN /\ \E x \in Slots : request[x] = Idle
       /\ request' = [request EXCEPT ![s] = IF r.op \in Carrying
                                            THEN [r EXCEPT !.stage = "sent"]
                                            ELSE [r EXCEPT !.stage = "read", !.seen = db]]

Send ==
    /\ events < MaxEvents
    /\ events' = events + 1
    /\ \E r \in Calls :
         /\ Allowed(r, db)
         /\ r.op = "invite" => RowChosen(r)
         /\ r.op = "remove" => Affordable
         /\ Accept(r)
         /\ ring' = IF r.who = Owner /\ r.op \in Carrying THEN [ring EXCEPT ![Owner] = Minted] ELSE ring
    /\ UNCHANGED <<db, exposed, raced>>

\* The owner's client: when a rekey is owed it wraps its key for every member,
\* else for those without one.
Reconcile ==
    LET members == {p \in People : db.members[p].in}
        keyless == {p \in members : db.members[p].wrap = NoWrap}
        rows == IF db.space.rekey # 0 THEN members ELSE keyless
    IN /\ db.space.in /\ rows # {}
       /\ \A o \in Slots : request[o].op # "distribute" \/ request[o].who # Owner
       /\ Accept(Distribution(Owner, Minted, rows))
       /\ ring' = [ring EXCEPT ![Owner] = Minted]
       /\ UNCHANGED <<db, exposed, raced, events>>

Read(s) ==
    /\ request[s].stage = "sent"
    /\ request' = [request EXCEPT ![s] =
                      IF Allowed(request[s], db) THEN [@ EXCEPT !.stage = "read", !.seen = db] ELSE Idle]
    /\ UNCHANGED <<db, ring, exposed, raced, events>>

\* The joining commit leaves its handler with what it had loaded.  A client
\* told that it is out drops what it has of the space.
Commit(s) ==
    LET r == request[s]
        new == After(r, r.seen)
        joiner == IF r.op = "accept" THEN r.who ELSE r.whom
        joins == r.op \in {"accept", "approve"} /\ ~r.seen.members[joiner].in
        left == {p \in Guests : db.members[p].in /\ ~db'.members[p].in}
    IN /\ r.stage \in {"read", "joined"}
       /\ ~Refused(r.seen, new, db)
       /\ db' = Flushed(r.seen, new, db)
       /\ request' = [request EXCEPT ![s] = IF joins THEN [r EXCEPT !.stage = "joined", !.seen = new] ELSE Idle]
       /\ ring' = [p \in People |-> IF p \in left THEN 0 ELSE Largest({ring[p], db'.members[p].wrap.key})]
       /\ exposed' = IF db'.space.in THEN Largest({exposed} \cup {ring[p] : p \in left}) ELSE exposed
       /\ raced' = (raced \/ r.seen # db \/ (db' # db /\ \E o \in Slots \ {s} : request[o].op \in Carrying))
       /\ UNCHANGED events

\* Refused by the database, or the connection or the worker dies.
Fail(s) ==
    LET r == request[s]
    IN /\ r.stage # "none"
       /\ \/ /\ r.stage \in {"read", "joined"} /\ Refused(r.seen, After(r, r.seen), db)
             /\ UNCHANGED events
          \/ /\ events < MaxEvents
             /\ events' = events + 1
       /\ request' = [request EXCEPT ![s] = Idle]
       /\ UNCHANGED <<db, ring, exposed, raced>>

Answer(s) == Read(s) \/ Commit(s) \/ Fail(s)

Next == Send \/ Reconcile \/ \E s \in Slots : Answer(s)

\* The owner's client runs now and then; what has been sent is answered.
Fairness == WF_vars(Reconcile) /\ \A s \in Slots : WF_vars(Answer(s))

Spec == Init /\ [][Next]_vars /\ Fairness

-----------------------------------------------------------------------------
(* Properties *)

\* Every variable has its type, and nothing is left of a membership that is gone.
TypeOK ==
    /\ db \in Database
    /\ \A p \in People : db.members[p].in \/ db.members[p] = NoRow
    /\ ring \in [People -> Nat] /\ exposed \in Nat
    /\ raced \in BOOLEAN /\ events \in 0..MaxEvents
    /\ \A s \in Slots :
         \/ request[s].stage \in {"none", "sent"} /\ request[s].seen = None
         \/ request[s].stage \in {"read", "joined"} /\ request[s].seen \in Database

\* The owner's wrap, its only copy of the ring across a restart, is never taken
\* away, never replaced by anyone else's and never by an older one, whatever
\* else is going on: departures, relays and joins leave it alone.
OwnerKeepsRing ==
    [][db.members[Owner].wrap # NoWrap /\ db'.space.in =>
         db'.members[Owner].wrap.by = Owner /\ db'.members[Owner].wrap.key >= db.members[Owner].wrap.key]_vars

\* "wrapped_by records the caller so the recipient knows whose public key to
\* compute its shared secret against", along every way a wrap gets into a row
\* and out of it, when no two requests overlap on it.
WrapperRecorded ==
    \A p \in People :
        ~raced /\ db.members[p].wrap # NoWrap => db.members[p].wrapped_by = db.members[p].wrap.by

\* "Distribution clears the flag": when no rekey is owed, neither the space's
\* key nor the one any member was handed is a key somebody who has left holds -
\* through memberships, invites and approvals that carry wraps, when nothing
\* was committed while wraps were on their way.
DepartedCannotRead ==
    ~raced /\ db.space.in /\ db.space.rekey = 0 /\ exposed # 0 =>
        /\ db.space.fingerprint > exposed
        /\ \A p \in Guests : db.members[p].wrap # NoWrap => db.members[p].wrap.key > exposed

\* "The owner has re-wrapped for whoever needed it, so the departure that owed a
\* rekey is settled": the same of the space's key, whatever overlaps.
SettledMeansRotated ==
    db.space.in /\ db.space.rekey = 0 /\ exposed # 0 => db.space.fingerprint > exposed

\* "An owner who says share the history means the people already in the space":
\* under that policy nobody has a floor, whoever joined under which policy,
\* unless somebody was joining while it was changed.
FloorsFollowPolicy ==
    \A p \in People : ~raced /\ db.space.share_history => ~db.members[p].floor

\* "A declined row is kept: it is what stops somebody who still holds the code
\* from knocking again", invited, let in and gone in between or not, unless two
\* answers overlap.
DeclinedStaysOut ==
    [][\A p \in Guests :
         ~raced' /\ db.knocks[p] = "declined" /\ db'.space.in => db'.knocks[p] = "declined"]_vars

\* However departures, joins, relays and lost requests disturb it, the space
\* comes back to where no rekey is owed and every member holds a wrap.
Settles == []<>(db.space.in => db.space.rekey = 0 /\ AllHold(db.members))
=============================================================================
