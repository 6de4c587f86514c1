----------------------------- MODULE SpacesProofs ----------------------------
(***************************************************************************)
(* Theorems about Spaces, for any people, invites, slots and bounds:       *)
(* whatever overlaps, the owner's wrap is kept; and while no request is    *)
(* overtaken, wraps name their makers, floors follow the policy, the       *)
(* declined stay out and the departed hold no key that is still in use.    *)
(***************************************************************************)
EXTENDS Spaces, TLAPS

-----------------------------------------------------------------------------
(* Shapes: the types without their bounds *)

Somebody == People \cup {None}
Wraps == [key: Nat, by: Somebody]
SpaceRows == [in: BOOLEAN, share_history: BOOLEAN, members_can_approve: BOOLEAN,
              rekey: Nat, fingerprint: Nat]
MemberRows == [in: BOOLEAN, floor: BOOLEAN, wrap: Wraps, wrapped_by: Somebody]
InviteRows == [status: {"none", "pending", "accepted", "declined", "revoked"},
               to: Somebody, wrap: Wraps]
Rows == [space: SpaceRows, members: [People -> MemberRows], invites: [Invites -> InviteRows],
         knocks: [People -> {"none", "pending", "approved", "declined"}]]

\* Nothing is left of a membership that is gone.
Whole(d) == d \in Rows /\ \A p \in People : d.members[p].in = TRUE \/ d.members[p] = NoRow

\* What only the owner asks, and who else a request names.
OwnersOps == Settings \cup {"delete", "invite", "attach", "revoke"}
Ops == OwnersOps \cup {"remove", "distribute", "accept", "decline", "knock", "approve", "turn_down"}
Requests == [op: Ops \cup {"none"}, stage: {"none", "sent", "read", "joined"},
             who: Somebody, whom: Somebody, invite: Invites \cup {None}, key: Nat,
             rows: SUBSET People, seen: Rows \cup {None}]

\* What a client fills in of a request.
Asked(r) ==
    /\ r.op \in OwnersOps => r.who = Owner
    /\ r.op \in {"remove", "distribute", "approve", "turn_down"} => r.who \in People
    /\ r.op \in {"accept", "decline", "knock"} => r.who \in Guests
    /\ r.op \in {"remove", "invite", "approve", "turn_down"} => r.whom \in Guests
    /\ r.op \in {"invite", "attach", "revoke", "accept", "decline"} => r.invite \in Invites
    /\ r.op = "remove" => r.key # 0

\* What a request has found in the rows it has read.
Found(r) ==
    /\ r.stage \in {"read", "joined"} => Whole(r.seen) /\ r.seen.space.in = TRUE
    /\ r.stage = "read" => Allowed(r, r.seen)
    /\ r.stage = "joined" => r.op \in {"accept", "approve"}
    /\ r.stage = "joined" /\ r.op = "approve" => pending_row(r.seen, r.whom)

Proper(r) ==
    /\ r \in Requests
    /\ r.op = "none" <=> r.stage = "none"
    /\ r.op # "none" => Asked(r) /\ Found(r)

Types ==
    /\ Whole(db)
    /\ ring \in [People -> Nat] /\ events \in Nat
    /\ request \in [Slots -> Requests]
    /\ \A s \in Slots : Proper(request[s])

LEMMA NoShapes ==
    /\ NoWrap \in Wraps /\ NoRow \in MemberRows /\ NoInvite \in InviteRows /\ Deleted \in Rows
    /\ Proper(Idle) /\ NoRow.in = FALSE /\ NoRow.wrap = NoWrap /\ NoWrap.key = 0
    /\ Deleted.space.in = FALSE
<1>1. NoWrap \in Wraps
  BY DEF NoWrap, Wraps, Somebody
<1>2. NoRow \in MemberRows /\ NoInvite \in InviteRows
  BY <1>1 DEF NoRow, NoInvite, MemberRows, InviteRows, Somebody
<1>3. Deleted \in Rows /\ Deleted.space.in = FALSE
  BY <1>2 DEF Deleted, Rows, SpaceRows
<1>4. Proper(Idle)
  BY DEF Idle, Proper, Requests, Somebody
<1> QED
  BY <1>1, <1>2, <1>3, <1>4 DEF NoRow, NoWrap

\* A request as its client sends it.
Asking(op, who, whom, invite, key, rows) ==
    [op |-> op, stage |-> "none", who |-> who, whom |-> whom, invite |-> invite, key |-> key,
     rows |-> rows, seen |-> None]

\* What a client may ask.
Callable(r) == r \in Requests /\ r.op \in Ops /\ Asked(r) /\ r.stage = "none" /\ r.seen = None

LEMMA AskingShape ==
    ASSUME NEW op \in Ops, NEW who \in Somebody, NEW whom \in Somebody, NEW invite \in Invites \cup {None},
           NEW key \in Nat, NEW rows \in SUBSET People, Asked(Asking(op, who, whom, invite, key, rows))
    PROVE  Callable(Asking(op, who, whom, invite, key, rows))
BY DEF Callable, Asking, Requests

\* Whose key a client hands over.
Carries(r) ==
    /\ r.op = "distribute" => r.who \in Guests /\ r.key = ring[r.who]
    /\ r.op = "attach" => r.key = Minted
    /\ r.op = "approve" => r.key = Newest(r.who)

LEMMA CallsAsked == ASSUME Types, NEW r \in Calls PROVE Callable(r) /\ Carries(r)
<1>2. Minted \in Nat /\ \A p \in People : Newest(p) \in Nat /\ ring[p] \in Nat
  BY SpacesConstants DEF Types, Minted, Newest
<1>3. Owner \in Somebody /\ Guests \subseteq Somebody /\ People \subseteq Somebody /\ Now \in Nat /\ Now # 0
      /\ Guests \subseteq People /\ Owner \in People /\ None \in Somebody
  BY SpacesConstants DEF Somebody, Guests, Types, Now
<1>4. ASSUME NEW op \in Settings \cup {"delete"}, r = Call(op, Owner) PROVE Callable(r) /\ Carries(r)
  <2>1. r = Asking(op, Owner, None, None, 0, {})
    BY <1>4 DEF Call, Idle, Asking
  <2>2. Asked(r) /\ op \in Ops
    BY <1>3, <2>1 DEF Asking, Asked, Ops, OwnersOps, Settings
  <2>3. Carries(r)
    BY <2>1 DEF Asking, Carries, Settings
  <2> QED
    BY <1>2, <1>3, <2>1, <2>2, <2>3, AskingShape
<1>5. ASSUME NEW p \in People, NEW q \in Guests, r = About("remove", p, q, Now) PROVE Callable(r) /\ Carries(r)
  <2>1. r = Asking("remove", p, q, None, Now, {})
    BY <1>5 DEF About, Call, Idle, Asking
  <2>2. Asked(r) /\ "remove" \in Ops
    BY <1>3, <2>1 DEF Asking, Asked, Ops, OwnersOps, Settings
  <2>3. Carries(r)
    BY <2>1 DEF Asking, Carries, Settings
  <2> QED
    BY <1>2, <1>3, <2>1, <2>2, <2>3, AskingShape
<1>6. ASSUME NEW p \in Guests, NEW q \in Guests, r = Relay(p, q) PROVE Callable(r) /\ Carries(r)
  <2>1. r = Asking("distribute", p, None, None, ring[p], {q})
    BY <1>6 DEF Relay, Distribution, Call, Idle, Asking
  <2>2. Asked(r) /\ "distribute" \in Ops
    BY <1>3, <2>1 DEF Asking, Asked, Ops, OwnersOps, Settings
  <2>3. Carries(r)
    BY <2>1 DEF Asking, Carries, Settings
  <2> QED
    BY <1>2, <1>3, <2>1, <2>2, <2>3, AskingShape
<1>7. ASSUME NEW q \in Guests, NEW i \in Invites, r = [OfInvite("invite", Owner, i, 0) EXCEPT !.whom = q] PROVE Callable(r) /\ Carries(r)
  <2>1. r = Asking("invite", Owner, q, i, 0, {})
    BY <1>7 DEF OfInvite, Call, Idle, Asking
  <2>2. Asked(r) /\ "invite" \in Ops
    BY <1>3, <2>1 DEF Asking, Asked, Ops, OwnersOps, Settings
  <2>3. Carries(r)
    BY <2>1 DEF Asking, Carries, Settings
  <2> QED
    BY <1>2, <1>3, <2>1, <2>2, <2>3, AskingShape
<1>8. ASSUME NEW i \in Invites, r = OfInvite("attach", Owner, i, Minted) PROVE Callable(r) /\ Carries(r)
  <2>1. r = Asking("attach", Owner, None, i, Minted, {})
    BY <1>8 DEF OfInvite, Call, Idle, Asking
  <2>2. Asked(r) /\ "attach" \in Ops
    BY <1>3, <2>1 DEF Asking, Asked, Ops, OwnersOps, Settings
  <2>3. Carries(r)
    BY <2>1 DEF Asking, Carries, Settings
  <2> QED
    BY <1>2, <1>3, <2>1, <2>2, <2>3, AskingShape
<1>9. ASSUME NEW i \in Invites, r = OfInvite("revoke", Owner, i, 0) PROVE Callable(r) /\ Carries(r)
  <2>1. r = Asking("revoke", Owner, None, i, 0, {})
    BY <1>9 DEF OfInvite, Call, Idle, Asking
  <2>2. Asked(r) /\ "revoke" \in Ops
    BY <1>3, <2>1 DEF Asking, Asked, Ops, OwnersOps, Settings
  <2>3. Carries(r)
    BY <2>1 DEF Asking, Carries, Settings
  <2> QED
    BY <1>2, <1>3, <2>1, <2>2, <2>3, AskingShape
<1>10. ASSUME NEW op \in {"accept", "decline"}, NEW p \in Guests, NEW i \in Invites, r = OfInvite(op, p, i, 0) PROVE Callable(r) /\ Carries(r)
  <2>1. r = Asking(op, p, None, i, 0, {})
    BY <1>10 DEF OfInvite, Call, Idle, Asking
  <2>2. Asked(r) /\ op \in Ops
    BY <1>3, <2>1 DEF Asking, Asked, Ops, OwnersOps, Settings
  <2>3. Carries(r)
    BY <2>1 DEF Asking, Carries, Settings
  <2> QED
    BY <1>2, <1>3, <2>1, <2>2, <2>3, AskingShape
<1>11. ASSUME NEW p \in Guests, r = Call("knock", p) PROVE Callable(r) /\ Carries(r)
  <2>1. r = Asking("knock", p, None, None, 0, {})
    BY <1>11 DEF Call, Idle, Asking
  <2>2. Asked(r) /\ "knock" \in Ops
    BY <1>3, <2>1 DEF Asking, Asked, Ops, OwnersOps, Settings
  <2>3. Carries(r)
    BY <2>1 DEF Asking, Carries, Settings
  <2> QED
    BY <1>2, <1>3, <2>1, <2>2, <2>3, AskingShape
<1>12. ASSUME NEW p \in People, NEW q \in Guests, r = About("approve", p, q, Newest(p)) PROVE Callable(r) /\ Carries(r)
  <2>1. r = Asking("approve", p, q, None, Newest(p), {})
    BY <1>12 DEF About, Call, Idle, Asking
  <2>2. Asked(r) /\ "approve" \in Ops
    BY <1>3, <2>1 DEF Asking, Asked, Ops, OwnersOps, Settings
  <2>3. Carries(r)
    BY <2>1 DEF Asking, Carries, Settings
  <2> QED
    BY <1>2, <1>3, <2>1, <2>2, <2>3, AskingShape
<1>13. ASSUME NEW p \in People, NEW q \in Guests, r = About("turn_down", p, q, 0) PROVE Callable(r) /\ Carries(r)
  <2>1. r = Asking("turn_down", p, q, None, 0, {})
    BY <1>13 DEF About, Call, Idle, Asking
  <2>2. Asked(r) /\ "turn_down" \in Ops
    BY <1>3, <2>1 DEF Asking, Asked, Ops, OwnersOps, Settings
  <2>3. Carries(r)
    BY <2>1 DEF Asking, Carries, Settings
  <2> QED
    BY <1>2, <1>3, <2>1, <2>2, <2>3, AskingShape
<1>14. CASE r \in {Call(op, Owner) : op \in Settings \cup {"delete"}}
  BY <1>4, <1>14
<1>15. CASE r \in {About("remove", p, q, Now) : p \in People, q \in Guests}
  BY <1>5, <1>15
<1>16. CASE r \in {Relay(p, q) : p, q \in Guests}
  BY <1>6, <1>16
<1>17. CASE r \in {[OfInvite("invite", Owner, i, 0) EXCEPT !.whom = q] : q \in Guests, i \in Invites}
  BY <1>7, <1>17
<1>18. CASE r \in {OfInvite("attach", Owner, i, Minted) : i \in Invites}
  BY <1>8, <1>18
<1>19. CASE r \in {OfInvite("revoke", Owner, i, 0) : i \in Invites}
  BY <1>9, <1>19
<1>20. CASE r \in {OfInvite(op, p, i, 0) : op \in {"accept", "decline"}, p \in Guests, i \in Invites}
  BY <1>10, <1>20
<1>21. CASE r \in {Call("knock", p) : p \in Guests}
  BY <1>11, <1>21
<1>22. CASE r \in {About("approve", p, q, Newest(p)) : p \in People, q \in Guests}
  BY <1>12, <1>22
<1>23. CASE r \in {About("turn_down", p, q, 0) : p \in People, q \in Guests}
  BY <1>13, <1>23
<1> QED
  BY <1>14, <1>15, <1>16, <1>17, <1>18, <1>19, <1>20, <1>21, <1>22, <1>23 DEF Calls

-----------------------------------------------------------------------------
(* What the handlers make of rows *)

LEMMA AfterIs ==
    ASSUME NEW r, NEW d
    PROVE  /\ r.op \in Settings => After(r, d) = update_space(r, d)
           /\ r.op = "delete" => After(r, d) = Deleted
           /\ r.op = "remove" => After(r, d) = remove_member(r, d)
           /\ r.op = "distribute" => After(r, d) = distribute_keys(r, d)
           /\ r.op = "invite" => After(r, d) = create_invite(r, d)
           /\ r.op = "attach" => After(r, d) = attach_invite_key(r, d)
           /\ r.op = "revoke" => After(r, d) = revoke_invite(r, d)
           /\ r.op = "accept" => After(r, d) = accept_invite(r, d)
           /\ r.op = "decline" => After(r, d) = decline_invite(r, d)
           /\ r.op = "knock" => After(r, d) = request_join(r, d)
           /\ r.op = "approve" => After(r, d) = approve(r, d)
           /\ r.op = "turn_down" => After(r, d) = decline(r, d)
BY DEF After, Settings, delete_space

LEMMA KeylessRow ==
    ASSUME NEW row \in MemberRows
    PROVE  /\ Keyless(row) \in MemberRows
           /\ Keyless(row).in = row.in /\ Keyless(row).floor = row.floor
           /\ Keyless(row).wrap = NoWrap /\ Keyless(row).wrapped_by = None
BY NoShapes DEF Keyless, MemberRows, Somebody

Floorless(row) == [row EXCEPT !.floor = FALSE]

LEMMA FloorlessRow ==
    ASSUME NEW row \in MemberRows
    PROVE  /\ Floorless(row) \in MemberRows
           /\ Floorless(row).in = row.in /\ Floorless(row).floor = FALSE
           /\ Floorless(row).wrap = row.wrap /\ Floorless(row).wrapped_by = row.wrapped_by
BY DEF Floorless, MemberRows

LEMMA SameRow ==
    ASSUME NEW a \in MemberRows, NEW b \in MemberRows,
           a.in = b.in, a.floor = b.floor, a.wrap = b.wrap, a.wrapped_by = b.wrapped_by
    PROVE  a = b
BY DEF MemberRows

\* What is done to the row of the space, to the members, to an invite.
LEMMA WithSpace ==
    ASSUME NEW d \in Rows, NEW x \in SpaceRows
    PROVE  [d EXCEPT !.space = x] \in Rows
BY DEF Rows

LEMMA WithMembers ==
    ASSUME NEW d \in Rows, NEW x \in [People -> MemberRows]
    PROVE  [d EXCEPT !.members = x] \in Rows
BY DEF Rows

LEMMA WithInvites ==
    ASSUME NEW d \in Rows, NEW x \in [Invites -> InviteRows]
    PROVE  [d EXCEPT !.invites = x] \in Rows
BY DEF Rows

NewRow(d, wrap, by) == [in |-> TRUE, floor |-> ~d.space.share_history, wrap |-> wrap, wrapped_by |-> by]

LEMMA WithMember ==
    ASSUME NEW d \in Rows, NEW p \in People, NEW wrap \in Wraps, NEW by \in Somebody
    PROVE  LET e == add_membership(d, p, wrap, by)
           IN /\ e \in Rows
              /\ e.space = d.space /\ e.invites = d.invites /\ e.knocks = d.knocks
              /\ \A q \in People : e.members[q] = IF q = p THEN NewRow(d, wrap, by) ELSE d.members[q]
BY DEF add_membership, NewRow, Rows, MemberRows, SpaceRows

LEMMA RewrappedRows ==
    ASSUME NEW r \in Requests, r.who \in People, NEW d \in Rows
    PROVE  /\ Rewrapped(r, d) \in [People -> MemberRows]
           /\ \A p \in People : Rewrapped(r, d)[p].in = d.members[p].in
<1>1. ASSUME NEW p \in People, NEW row \in MemberRows
      PROVE  /\ [row EXCEPT !.wrap = [key |-> r.key, by |-> r.who], !.wrapped_by = r.who] \in MemberRows
             /\ [row EXCEPT !.wrap = [key |-> r.key, by |-> r.who], !.wrapped_by = r.who].in = row.in
  BY DEF MemberRows, Wraps, Requests, Somebody
<1>2. \A p \in People : d.members[p] \in MemberRows
  BY DEF Rows
<1> QED
  BY <1>1, <1>2 DEF Rewrapped

LEMMA AfterRows ==
    ASSUME NEW r \in Requests, r.op \in Ops, Asked(r), NEW d \in Rows
    PROVE  After(r, d) \in Rows
<1>0. /\ d.space \in SpaceRows /\ d.members \in [People -> MemberRows] /\ d.invites \in [Invites -> InviteRows]
      /\ d.knocks \in [People -> {"none", "pending", "approved", "declined"}]
      /\ r.key \in Nat /\ Guests \subseteq People /\ Owner \in People /\ People \subseteq Somebody /\ None \in Somebody
  BY SpacesConstants DEF Rows, Requests, Guests, Somebody
<1>1. CASE r.op \in Settings
  <2>1. CASE r.op = "share"
    <3>1. [d.space EXCEPT !.share_history = TRUE] \in SpaceRows
      BY <1>0 DEF SpaceRows
    <3>2. [p \in People |-> [d.members[p] EXCEPT !.floor = FALSE]] \in [People -> MemberRows]
      BY <1>0 DEF MemberRows
    <3>3. After(r, d) = [d EXCEPT !.space.share_history = TRUE,
                                  !.members = [p \in People |-> [d.members[p] EXCEPT !.floor = FALSE]]]
      BY <1>1, <2>1, AfterIs DEF update_space
    <3> QED
      BY <3>1, <3>2, <3>3 DEF Rows
  <2>2. CASE r.op # "share"
    <3>1. \A b \in BOOLEAN : [d.space EXCEPT !.share_history = b] \in SpaceRows
                             /\ [d.space EXCEPT !.members_can_approve = b] \in SpaceRows
      BY <1>0 DEF SpaceRows
    <3>2. \E b \in BOOLEAN : \/ After(r, d) = [d EXCEPT !.space.share_history = b]
                             \/ After(r, d) = [d EXCEPT !.space.members_can_approve = b]
      BY <1>1, <2>2, AfterIs DEF update_space, Settings
    <3> QED
      BY <3>1, <3>2 DEF Rows
  <2> QED
    BY <2>1, <2>2
<1>2. CASE r.op = "remove"
  <2>1. \A p \in People : Keyless(d.members[p]) \in MemberRows
    BY <1>0, KeylessRow
  <2>2. [p \in People |-> IF p = r.whom THEN NoRow ELSE IF p = Owner THEN d.members[p] ELSE Keyless(d.members[p])]
          \in [People -> MemberRows]
    BY <1>0, <2>1, NoShapes
  <2>3. [i \in Invites |-> [d.invites[i] EXCEPT !.wrap = NoWrap]] \in [Invites -> InviteRows]
    BY <1>0, NoShapes DEF InviteRows
  <2>4. [d.space EXCEPT !.rekey = r.key] \in SpaceRows
    BY <1>0 DEF SpaceRows
  <2>5. After(r, d) = remove_member(r, d)
    BY <1>2, AfterIs
  <2> QED
    BY <2>2, <2>3, <2>4, <2>5 DEF remove_member, Rows
<1>3. CASE r.op = "distribute"
  <2>1. Rewrapped(r, d) \in [People -> MemberRows]
    BY <1>3, RewrappedRows DEF Asked
  <2>2. \A f, k \in Nat : [[d.space EXCEPT !.fingerprint = f] EXCEPT !.rekey = k] \in SpaceRows
    BY <1>0 DEF SpaceRows
  <2>3. d.space.fingerprint \in Nat /\ d.space.rekey \in Nat
    BY <1>0 DEF SpaceRows
  <2>4. \E f, k \in Nat :
            After(r, d) = [d EXCEPT !.members = Rewrapped(r, d), !.space.fingerprint = f, !.space.rekey = k]
    <3> DEFINE f == IF r.who = Owner THEN r.key ELSE d.space.fingerprint
    <3> DEFINE k == IF r.who = Owner /\ AllHold(Rewrapped(r, d)) THEN 0 ELSE d.space.rekey
    <3>1. After(r, d) = [d EXCEPT !.members = Rewrapped(r, d), !.space.fingerprint = f, !.space.rekey = k]
      BY <1>3, AfterIs DEF distribute_keys
    <3>2. f \in Nat /\ k \in Nat
      BY <1>0, <2>3
    <3> QED
      BY <3>1, <3>2
  <2>5. ASSUME NEW f \in Nat, NEW k \in Nat
        PROVE  [d EXCEPT !.members = Rewrapped(r, d), !.space.fingerprint = f, !.space.rekey = k] \in Rows
    BY <1>0, <2>1, <2>2 DEF Rows
  <2> QED
    BY <2>4, <2>5
<1>4. CASE r.op \in {"invite", "attach", "revoke", "decline"}
  <2>1. r.invite \in Invites /\ r.whom \in Somebody
    BY <1>4 DEF Asked, Requests
  <2>2. \A w \in Wraps : [d.invites[r.invite] EXCEPT !.wrap = w] \in InviteRows
    BY <1>0, <2>1 DEF InviteRows
  <2>3. \A t \in {"declined", "revoked"} : [d.invites[r.invite] EXCEPT !.status = t] \in InviteRows
    BY <1>0, <2>1 DEF InviteRows
  <2>4. [status |-> "pending", to |-> r.whom, wrap |-> NoWrap] \in InviteRows
    BY <2>1, NoShapes DEF InviteRows
  <2>5. NoWrap \in Wraps /\ [key |-> r.key, by |-> Owner] \in Wraps
    BY <1>0, NoShapes DEF Wraps
  <2>6. PICK x \in InviteRows : After(r, d) = [d EXCEPT !.invites[r.invite] = x]
    <3>1. CASE r.op = "invite"
      BY <2>2, <2>4, <2>5, <3>1, AfterIs DEF create_invite, Rows
    <3>2. CASE r.op = "attach"
      BY <2>2, <2>5, <3>2, AfterIs DEF attach_invite_key, Rows
    <3>3. CASE r.op = "revoke"
      BY <2>3, <3>3, AfterIs DEF revoke_invite, Rows
    <3>4. CASE r.op = "decline"
      BY <2>3, <3>4, AfterIs DEF decline_invite, Rows
    <3> QED
      BY <1>4, <3>1, <3>2, <3>3, <3>4
  <2> QED
    BY <1>0, <2>1, <2>6 DEF Rows
<1>5. CASE r.op = "accept"
  <2>1. r.invite \in Invites /\ r.who \in People /\ d.invites[r.invite].wrap \in Wraps
    BY <1>0, <1>5 DEF Asked, InviteRows
  <2>2. [d.invites[r.invite] EXCEPT !.status = "accepted", !.wrap = NoWrap] \in InviteRows
    BY <1>0, <2>1, NoShapes DEF InviteRows
  <2>3. add_membership(d, r.who, d.invites[r.invite].wrap, Owner) \in Rows
    BY <1>0, <2>1, WithMember
  <2>4. [d EXCEPT !.invites[r.invite] = [d.invites[r.invite] EXCEPT !.status = "accepted", !.wrap = NoWrap]] \in Rows
    BY <1>0, <2>1, <2>2 DEF Rows
  <2>5. After(r, d) \in {[d EXCEPT !.invites[r.invite] = [d.invites[r.invite] EXCEPT !.status = "accepted", !.wrap = NoWrap]],
                         add_membership(d, r.who, d.invites[r.invite].wrap, Owner)}
    BY <1>0, <1>5, <2>1, AfterIs DEF accept_invite, Rows
  <2> QED
    BY <2>3, <2>4, <2>5
<1>6. CASE r.op = "approve"
  <2>1. r.who \in People /\ r.whom \in People /\ [key |-> r.key, by |-> r.who] \in Wraps
    BY <1>0, <1>6 DEF Asked, Wraps
  <2>2. add_membership(d, r.whom, NoWrap, None) \in Rows
        /\ add_membership(d, r.whom, [key |-> r.key, by |-> r.who], r.who) \in Rows
    BY <1>0, <2>1, WithMember, NoShapes
  <2>3. [d EXCEPT !.knocks[r.whom] = "approved"] \in Rows
    BY <1>0, <2>1 DEF Rows
  <2>4. After(r, d) \in {[d EXCEPT !.knocks[r.whom] = "approved"], add_membership(d, r.whom, NoWrap, None),
                         add_membership(d, r.whom, [key |-> r.key, by |-> r.who], r.who)}
    BY <1>6, AfterIs DEF approve
  <2> QED
    BY <2>2, <2>3, <2>4
<1>7. CASE r.op \in {"knock", "turn_down"}
  <2>1. \E p \in People, k \in {"pending", "declined"} : After(r, d) = [d EXCEPT !.knocks[p] = k]
    BY <1>0, <1>7, AfterIs DEF request_join, decline, Asked
  <2> QED
    BY <1>0, <2>1 DEF Rows
<1>8. CASE r.op = "delete"
  BY <1>8, AfterIs, NoShapes
<1> QED
  BY <1>1, <1>2, <1>3, <1>4, <1>5, <1>6, <1>7, <1>8 DEF Ops, OwnersOps

-----------------------------------------------------------------------------
(* What a commit makes of rows *)

\* A row of a table, column by column.
LEMMA SpaceColumns ==
    ASSUME NEW a \in SpaceRows, NEW b \in SpaceRows, NEW c \in SpaceRows
    PROVE  /\ Changed(a, b, c) \in SpaceRows
           /\ Changed(a, b, c).in = IF b.in # a.in THEN b.in ELSE c.in
BY DEF SpaceRows, Changed

LEMMA MemberColumns ==
    ASSUME NEW a \in MemberRows, NEW b \in MemberRows, NEW c \in MemberRows
    PROVE  /\ Changed(a, b, c) \in MemberRows
           /\ Changed(a, b, c).in = IF b.in # a.in THEN b.in ELSE c.in
           /\ Changed(a, b, c).wrap = IF b.wrap # a.wrap THEN b.wrap ELSE c.wrap
BY DEF MemberRows, Changed

LEMMA InviteColumns ==
    ASSUME NEW a \in InviteRows, NEW b \in InviteRows, NEW c \in InviteRows
    PROVE  Changed(a, b, c) \in InviteRows
BY DEF InviteRows, Changed

LEMMA KnockColumns ==
    ASSUME NEW S, NEW a \in [People -> S], NEW b \in [People -> S], NEW c \in [People -> S]
    PROVE  Changed(a, b, c) \in [People -> S]
BY DEF Changed

\* Where nothing has happened since a row was read, it is what the handler made of it.
LEMMA SameColumns ==
    /\ \A a, b \in SpaceRows : Changed(a, b, a) = b
    /\ \A a, b \in MemberRows : Changed(a, b, a) = b
    /\ \A a, b \in InviteRows : Changed(a, b, a) = b
    /\ \A S : \A a, b \in [People -> S] : Changed(a, b, a) = b
<1>1. ASSUME NEW a \in SpaceRows, NEW b \in SpaceRows PROVE Changed(a, b, a) = b
  BY DEF SpaceRows, Changed
<1>2. ASSUME NEW a \in MemberRows, NEW b \in MemberRows PROVE Changed(a, b, a) = b
  BY DEF MemberRows, Changed
<1>3. ASSUME NEW a \in InviteRows, NEW b \in InviteRows PROVE Changed(a, b, a) = b
  BY DEF InviteRows, Changed
<1>4. ASSUME NEW S, NEW a \in [People -> S], NEW b \in [People -> S] PROVE Changed(a, b, a) = b
  BY DEF Changed
<1> QED
  BY <1>1, <1>2, <1>3, <1>4

LEMMA RowsOf ==
    ASSUME NEW d \in Rows
    PROVE  /\ d.space \in SpaceRows
           /\ d.members \in [People -> MemberRows] /\ \A p \in People : d.members[p] \in MemberRows
           /\ d.invites \in [Invites -> InviteRows] /\ \A i \in Invites : d.invites[i] \in InviteRows
           /\ d.knocks \in [People -> {"none", "pending", "approved", "declined"}]
BY DEF Rows

LEMMA FlushedRows ==
    ASSUME NEW old \in Rows, NEW new \in Rows, NEW now \in Rows
    PROVE  Flushed(old, new, now) \in Rows
<1>1. CASE ~new.space.in
  BY <1>1, NoShapes DEF Flushed
<1>2. CASE new.space.in
  <2>1. Changed(old.space, new.space, now.space) \in SpaceRows
    BY RowsOf, SpaceColumns
  <2>2. \A p \in People : ChangedRow(old.members[p], new.members[p], now.members[p]) \in MemberRows
    BY RowsOf, MemberColumns, NoShapes DEF ChangedRow
  <2>3. \A i \in Invites : Changed(old.invites[i], new.invites[i], now.invites[i]) \in InviteRows
    BY RowsOf, InviteColumns
  <2>4. Changed(old.knocks, new.knocks, now.knocks) \in [People -> {"none", "pending", "approved", "declined"}]
    BY RowsOf, KnockColumns
  <2> QED
    BY <1>2, <2>1, <2>2, <2>3, <2>4 DEF Flushed, Rows
<1> QED
  BY <1>1, <1>2

-----------------------------------------------------------------------------
(* What each handler does to each table *)

Joiner(r) == IF r.op = "accept" THEN r.who ELSE r.whom
JoinWrap(r, d) == IF r.op = "accept" THEN d.invites[r.invite].wrap
                  ELSE IF r.key = 0 THEN NoWrap ELSE [key |-> r.key, by |-> r.who]
JoinBy(r) == IF r.op = "accept" THEN Owner ELSE IF r.key = 0 THEN None ELSE r.who

MembersAfter(r, d, e) ==
    /\ r.op \notin {"share", "remove", "distribute", "accept", "approve", "delete"} => e.members = d.members
    /\ r.op = "share" => \A p \in People : e.members[p] = Floorless(d.members[p])
    /\ r.op = "remove" =>
         \A p \in People : e.members[p] = IF p = r.whom THEN NoRow
                                          ELSE IF p = Owner THEN d.members[p] ELSE Keyless(d.members[p])
    /\ r.op = "distribute" =>
         \A p \in People : e.members[p] =
             IF p \in r.rows /\ MayWrite(r, d, p)
             THEN [d.members[p] EXCEPT !.wrap = [key |-> r.key, by |-> r.who], !.wrapped_by = r.who]
             ELSE d.members[p]
    /\ r.op \in {"accept", "approve"} =>
         /\ d.members[Joiner(r)].in => e.members = d.members
         /\ ~d.members[Joiner(r)].in =>
              \A p \in People : e.members[p] =
                  IF p = Joiner(r)
                  THEN NewRow(d, JoinWrap(r, d), JoinBy(r))
                  ELSE d.members[p]

InvitesAfter(r, d, e) ==
    /\ r.op \notin {"remove", "invite", "attach", "revoke", "accept", "decline", "delete"} => e.invites = d.invites
    /\ r.op = "remove" => \A i \in Invites : e.invites[i] = [d.invites[i] EXCEPT !.wrap = NoWrap]
    /\ r.op = "attach" => e.invites[r.invite].wrap = [key |-> r.key, by |-> Owner]
    /\ r.op = "invite" => e.invites[r.invite].wrap = NoWrap
    /\ r.op \in {"revoke", "decline"} => e.invites[r.invite].wrap = d.invites[r.invite].wrap
    /\ r.op = "accept" => e.invites[r.invite].wrap \in {NoWrap, d.invites[r.invite].wrap}
    /\ r.op \in {"invite", "attach", "revoke", "accept", "decline"} =>
         \A i \in Invites \ {r.invite} : e.invites[i] = d.invites[i]

KnocksAfter(r, d, e) ==
    /\ r.op \notin {"knock", "approve", "turn_down", "delete"} => e.knocks = d.knocks
    /\ r.op = "knock" => e.knocks = [d.knocks EXCEPT ![r.who] = "pending"]
    /\ r.op = "turn_down" => e.knocks = [d.knocks EXCEPT ![r.whom] = "declined"]
    /\ r.op = "approve" => e.knocks = IF d.members[r.whom].in THEN [d.knocks EXCEPT ![r.whom] = "approved"] ELSE d.knocks

SpaceAfter(r, d, e) ==
    /\ r.op # "delete" => e.space.in = d.space.in
    /\ r.op = "delete" => e = Deleted
    /\ r.op = "share" => e.space.share_history = TRUE
    /\ r.op = "unshare" => e.space.share_history = FALSE
    /\ r.op \notin {"share", "unshare", "delete"} => e.space.share_history = d.space.share_history
    /\ r.op \notin {"remove", "distribute", "delete"} => e.space.rekey = d.space.rekey
    /\ r.op = "remove" => e.space.rekey = r.key
    /\ r.op = "distribute" => e.space.rekey = d.space.rekey \/ (e.space.rekey = 0 /\ r.who = Owner)
    /\ r.op # "delete" /\ (r.op # "distribute" \/ r.who # Owner) => e.space.fingerprint = d.space.fingerprint
    /\ r.op = "distribute" /\ r.who = Owner => e.space.fingerprint = r.key

Rekeyed(d, m, f, k) == [d EXCEPT !.members = m, !.space.fingerprint = f, !.space.rekey = k]

LEMMA RekeyedFields ==
    ASSUME NEW d \in Rows, NEW m \in [People -> MemberRows], NEW f \in Nat, NEW k \in Nat
    PROVE  LET e == Rekeyed(d, m, f, k)
           IN /\ e.members = m /\ e.invites = d.invites /\ e.knocks = d.knocks
              /\ e.space.in = d.space.in /\ e.space.share_history = d.space.share_history
              /\ e.space.fingerprint = f /\ e.space.rekey = k
BY DEF Rekeyed, Rows, SpaceRows

LEMMA Effects ==
    ASSUME NEW r \in Requests, r.op \in Ops, Asked(r), NEW d \in Rows, NEW e, e = After(r, d)
    PROVE  /\ e \in Rows
           /\ MembersAfter(r, d, e) /\ InvitesAfter(r, d, e) /\ KnocksAfter(r, d, e) /\ SpaceAfter(r, d, e)
<1>0. e \in Rows
  BY AfterRows
<1>1. /\ d.space \in SpaceRows /\ d.members \in [People -> MemberRows] /\ d.invites \in [Invites -> InviteRows]
      /\ d.knocks \in [People -> {"none", "pending", "approved", "declined"}]
      /\ r.key \in Nat /\ Guests \subseteq People /\ Owner \in People /\ People \subseteq Somebody /\ None \in Somebody
  BY SpacesConstants DEF Rows, Requests, Guests, Somebody
<1> SUFFICES MembersAfter(r, d, e) /\ InvitesAfter(r, d, e) /\ KnocksAfter(r, d, e) /\ SpaceAfter(r, d, e)
  BY <1>0
<1>2. CASE r.op \in Settings
  <2>1. CASE r.op = "share"
    <3>1. e = [d EXCEPT !.space.share_history = TRUE,
                        !.members = [p \in People |-> [d.members[p] EXCEPT !.floor = FALSE]]]
      BY <1>2, <2>1, AfterIs DEF update_space
    <3> QED
      BY <1>1, <2>1, <3>1 DEF MembersAfter, InvitesAfter, KnocksAfter, SpaceAfter, Rows, SpaceRows, Floorless
  <2>2. CASE r.op = "unshare"
    <3>1. e = [d EXCEPT !.space = [d.space EXCEPT !.share_history = FALSE]]
      BY <1>2, <2>2, AfterIs DEF update_space
    <3> QED
      BY <1>1, <2>2, <3>1 DEF MembersAfter, InvitesAfter, KnocksAfter, SpaceAfter, Rows, SpaceRows
  <2>3. CASE r.op \in {"open_door", "close_door"}
    <3>1. PICK b \in BOOLEAN : e = [d EXCEPT !.space = [d.space EXCEPT !.members_can_approve = b]]
      BY <1>2, <2>3, AfterIs DEF update_space
    <3>2. /\ e.members = d.members /\ e.invites = d.invites /\ e.knocks = d.knocks
          /\ e.space = [d.space EXCEPT !.members_can_approve = b]
      BY <3>1 DEF Rows
    <3>3. /\ e.space.in = d.space.in /\ e.space.share_history = d.space.share_history
          /\ e.space.fingerprint = d.space.fingerprint /\ e.space.rekey = d.space.rekey
      BY <1>1, <3>2 DEF SpaceRows
    <3> QED
      BY <2>3, <3>2, <3>3 DEF MembersAfter, InvitesAfter, KnocksAfter, SpaceAfter
  <2> QED
    BY <1>2, <2>1, <2>2, <2>3 DEF Settings
<1>3. CASE r.op = "delete"
  BY <1>3, AfterIs DEF MembersAfter, InvitesAfter, KnocksAfter, SpaceAfter, Deleted
<1>4. CASE r.op = "remove"
  <2>1. e = remove_member(r, d)
    BY <1>4, AfterIs
  <2> QED
    BY <1>1, <1>4, <2>1 DEF remove_member, MembersAfter, InvitesAfter, KnocksAfter, SpaceAfter, Rows, SpaceRows
<1>5. CASE r.op = "distribute"
  <2>1. e = distribute_keys(r, d)
    BY <1>5, AfterIs
  <2>2. PICK f, k \in Nat :
            /\ e = Rekeyed(d, Rewrapped(r, d), f, k)
            /\ f = IF r.who = Owner THEN r.key ELSE d.space.fingerprint
            /\ r.who # Owner => k = d.space.rekey
            /\ k \in {0, d.space.rekey}
    <3> DEFINE f == IF r.who = Owner THEN r.key ELSE d.space.fingerprint
    <3> DEFINE k == IF r.who = Owner /\ AllHold(Rewrapped(r, d)) THEN 0 ELSE d.space.rekey
    <3>1. e = Rekeyed(d, Rewrapped(r, d), f, k)
      BY <2>1 DEF distribute_keys, Rekeyed
    <3>2. f \in Nat /\ k \in Nat
      BY <1>1 DEF SpaceRows
    <3>3. (r.who # Owner => k = d.space.rekey) /\ k \in {0, d.space.rekey}
      OBVIOUS
    <3> QED
      BY <3>1, <3>2, <3>3
  <2>3. Rewrapped(r, d) \in [People -> MemberRows]
    BY <1>5, RewrappedRows DEF Asked
  <2>4. /\ e.members = Rewrapped(r, d) /\ e.invites = d.invites /\ e.knocks = d.knocks
        /\ e.space.in = d.space.in /\ e.space.share_history = d.space.share_history
        /\ e.space.fingerprint = f /\ e.space.rekey = k
    BY <2>2, <2>3, RekeyedFields
  <2>5. MembersAfter(r, d, e)
    BY <1>5, <2>4 DEF MembersAfter, Rewrapped
  <2>6. SpaceAfter(r, d, e)
    BY <1>5, <2>2, <2>4 DEF SpaceAfter
  <2>7. InvitesAfter(r, d, e) /\ KnocksAfter(r, d, e)
    BY <1>5, <2>4 DEF InvitesAfter, KnocksAfter
  <2> QED
    BY <2>5, <2>6, <2>7
<1>6. CASE r.op = "invite"
  <2>1. e = create_invite(r, d) /\ r.invite \in Invites
    BY <1>6, AfterIs DEF Asked
  <2> QED
    BY <1>1, <1>6, <2>1 DEF create_invite, MembersAfter, InvitesAfter, KnocksAfter, SpaceAfter, Rows, InviteRows
<1>7. CASE r.op \in {"attach", "revoke", "decline"}
  <2>1. r.invite \in Invites
    BY <1>7 DEF Asked
  <2>2. CASE r.op = "attach"
    <3>1. e = [d EXCEPT !.invites = [d.invites EXCEPT ![r.invite] =
                 [d.invites[r.invite] EXCEPT !.wrap = [key |-> r.key, by |-> Owner]]]]
      BY <2>2, AfterIs DEF attach_invite_key
    <3> QED
      BY <1>1, <2>1, <2>2, <3>1 DEF MembersAfter, InvitesAfter, KnocksAfter, SpaceAfter, Rows, InviteRows
  <2>3. CASE r.op \in {"revoke", "decline"}
    <3>1. PICK t : e = [d EXCEPT !.invites = [d.invites EXCEPT ![r.invite] = [d.invites[r.invite] EXCEPT !.status = t]]]
      BY <2>3, AfterIs DEF revoke_invite, decline_invite
    <3>2. /\ e.space = d.space /\ e.members = d.members /\ e.knocks = d.knocks
          /\ e.invites = [d.invites EXCEPT ![r.invite] = [d.invites[r.invite] EXCEPT !.status = t]]
      BY <3>1 DEF Rows
    <3>3. /\ e.invites[r.invite].wrap = d.invites[r.invite].wrap
          /\ \A i \in Invites \ {r.invite} : e.invites[i] = d.invites[i]
      BY <1>1, <2>1, <3>2 DEF InviteRows
    <3> QED
      BY <2>3, <3>2, <3>3 DEF MembersAfter, InvitesAfter, KnocksAfter, SpaceAfter
  <2> QED
    BY <1>7, <2>2, <2>3
<1>8. CASE r.op = "accept"
  <2>1. e = accept_invite(r, d) /\ r.invite \in Invites /\ r.who \in People
    BY <1>1, <1>8, AfterIs DEF Asked
  <2>2. CASE d.members[r.who].in
    <3>1. e = [d EXCEPT !.invites[r.invite] = [d.invites[r.invite] EXCEPT !.status = "accepted", !.wrap = NoWrap]]
      BY <1>1, <2>1, <2>2 DEF accept_invite, Rows
    <3>2. /\ e.space = d.space /\ e.members = d.members /\ e.knocks = d.knocks
          /\ e.invites = [d.invites EXCEPT ![r.invite] = [d.invites[r.invite] EXCEPT !.status = "accepted", !.wrap = NoWrap]]
      BY <3>1 DEF Rows
    <3>3. e.invites[r.invite].wrap = NoWrap /\ \A i \in Invites \ {r.invite} : e.invites[i] = d.invites[i]
      BY <1>1, <2>1, <3>2 DEF InviteRows
    <3> QED
      BY <1>8, <2>2, <3>2, <3>3 DEF MembersAfter, InvitesAfter, KnocksAfter, SpaceAfter, Joiner
  <2>3. CASE ~d.members[r.who].in
    <3>1. d.invites[r.invite].wrap \in Wraps
      BY <1>1, <2>1 DEF InviteRows
    <3>2. e = add_membership(d, r.who, JoinWrap(r, d), JoinBy(r)) /\ JoinWrap(r, d) \in Wraps /\ JoinBy(r) \in Somebody
      BY <1>1, <1>8, <2>1, <2>3, <3>1 DEF accept_invite, JoinWrap, JoinBy
    <3>3. /\ e.space = d.space /\ e.invites = d.invites /\ e.knocks = d.knocks
          /\ \A p \in People : e.members[p] = IF p = r.who THEN NewRow(d, JoinWrap(r, d), JoinBy(r)) ELSE d.members[p]
      BY <2>1, <3>2, WithMember
    <3>4. MembersAfter(r, d, e)
      BY <1>8, <2>3, <3>3 DEF MembersAfter, Joiner
    <3>5. InvitesAfter(r, d, e) /\ KnocksAfter(r, d, e) /\ SpaceAfter(r, d, e)
      BY <1>8, <3>3 DEF InvitesAfter, KnocksAfter, SpaceAfter
    <3> QED
      BY <3>4, <3>5
  <2> QED
    BY <2>2, <2>3
<1>9. CASE r.op = "approve"
  <2>1. e = approve(r, d) /\ r.whom \in People /\ r.who \in People /\ [key |-> r.key, by |-> r.who] \in Wraps
    BY <1>1, <1>9, AfterIs DEF Asked, Wraps
  <2>2. CASE d.members[r.whom].in
    <3>1. e = [d EXCEPT !.knocks[r.whom] = "approved"]
      BY <2>1, <2>2 DEF approve
    <3> QED
      BY <1>1, <1>9, <2>1, <2>2, <3>1 DEF MembersAfter, InvitesAfter, KnocksAfter, SpaceAfter, Rows, Joiner
  <2>3. CASE ~d.members[r.whom].in
    <3>1. e = add_membership(d, r.whom, JoinWrap(r, d), JoinBy(r))
      BY <1>9, <2>1, <2>3 DEF approve, JoinWrap, JoinBy
    <3>2. JoinWrap(r, d) \in Wraps /\ JoinBy(r) \in Somebody
      BY <1>1, <1>9, <2>1, NoShapes DEF JoinWrap, JoinBy
    <3>3. /\ e.space = d.space /\ e.invites = d.invites /\ e.knocks = d.knocks
          /\ \A p \in People : e.members[p] = IF p = r.whom THEN NewRow(d, JoinWrap(r, d), JoinBy(r)) ELSE d.members[p]
      BY <2>1, <3>1, <3>2, WithMember
    <3>4. MembersAfter(r, d, e)
      BY <1>9, <2>3, <3>3 DEF MembersAfter, Joiner
    <3>5. InvitesAfter(r, d, e) /\ KnocksAfter(r, d, e) /\ SpaceAfter(r, d, e)
      BY <1>9, <2>3, <3>3 DEF InvitesAfter, KnocksAfter, SpaceAfter
    <3> QED
      BY <3>4, <3>5
  <2> QED
    BY <2>2, <2>3
<1>10. CASE r.op \in {"knock", "turn_down"}
  <2>1. /\ r.op = "knock" => e = [d EXCEPT !.knocks = [d.knocks EXCEPT ![r.who] = "pending"]] /\ r.who \in People
        /\ r.op = "turn_down" => e = [d EXCEPT !.knocks = [d.knocks EXCEPT ![r.whom] = "declined"]] /\ r.whom \in People
    BY <1>1, <1>10, AfterIs DEF Asked, request_join, decline
  <2>2. MembersAfter(r, d, e)
    BY <1>10, <2>1 DEF MembersAfter, Rows
  <2>3. InvitesAfter(r, d, e)
    BY <1>10, <2>1 DEF InvitesAfter, Rows
  <2>4. KnocksAfter(r, d, e)
    BY <1>10, <2>1 DEF KnocksAfter, Rows
  <2>5. SpaceAfter(r, d, e)
    BY <1>10, <2>1 DEF SpaceAfter, Rows
  <2> QED
    BY <2>2, <2>3, <2>4, <2>5
<1> QED
  BY <1>2, <1>3, <1>4, <1>5, <1>6, <1>7, <1>8, <1>9, <1>10 DEF Ops, OwnersOps

-----------------------------------------------------------------------------
(* The types hold *)

LEMMA AfterWhole ==
    ASSUME NEW r \in Requests, r.op \in Ops, Asked(r), NEW d, Whole(d)
    PROVE  Whole(After(r, d))
<1>1. d \in Rows /\ After(r, d) \in Rows /\ MembersAfter(r, d, After(r, d)) /\ SpaceAfter(r, d, After(r, d))
  BY Effects DEF Whole
<1>2. \A p \in People : d.members[p] \in MemberRows
  BY <1>1, RowsOf
<1>3. NoRow.in = FALSE /\ Floorless(NoRow) = NoRow /\ Keyless(NoRow) = NoRow
  <2>1. NoRow \in MemberRows /\ NoRow.in = FALSE /\ NoRow.floor = FALSE /\ NoRow.wrap = NoWrap /\ NoRow.wrapped_by = None
    BY NoShapes DEF NoRow
  <2>2. Floorless(NoRow) = NoRow
    <3>1. Floorless(NoRow) \in MemberRows /\ Floorless(NoRow).in = FALSE /\ Floorless(NoRow).floor = FALSE
          /\ Floorless(NoRow).wrap = NoWrap /\ Floorless(NoRow).wrapped_by = None
      BY <2>1, FloorlessRow
    <3> QED
      BY <2>1, <3>1, SameRow
  <2>3. Keyless(NoRow) = NoRow
    <3>1. Keyless(NoRow) \in MemberRows /\ Keyless(NoRow).in = FALSE /\ Keyless(NoRow).floor = FALSE
          /\ Keyless(NoRow).wrap = NoWrap /\ Keyless(NoRow).wrapped_by = None
      BY <2>1, KeylessRow
    <3> QED
      BY <2>1, <3>1, SameRow
  <2> QED
    BY <2>1, <2>2, <2>3
<1>4. \A row \in MemberRows : Floorless(row).in = row.in /\ Keyless(row).in = row.in
  BY KeylessRow, FloorlessRow
<1>5. ASSUME NEW p \in People
      PROVE  After(r, d).members[p].in = TRUE \/ After(r, d).members[p] = NoRow
  <2>1. CASE r.op \notin {"share", "remove", "distribute", "accept", "approve", "delete"}
    BY <1>1, <2>1 DEF MembersAfter, Whole
  <2>2. CASE r.op \in {"share", "remove"}
    <3>1. After(r, d).members[p] \in {NoRow, d.members[p], Floorless(d.members[p]), Keyless(d.members[p])}
      BY <1>1, <2>2 DEF MembersAfter
    <3> QED
      BY <1>2, <1>3, <1>4, <3>1 DEF Whole
  <2>3. CASE r.op = "distribute"
    <3>1. CASE p \in r.rows /\ MayWrite(r, d, p)
      <4>1. After(r, d).members[p] = [d.members[p] EXCEPT !.wrap = [key |-> r.key, by |-> r.who], !.wrapped_by = r.who]
        BY <1>1, <2>3, <3>1 DEF MembersAfter
      <4>2. After(r, d).members[p].in = d.members[p].in /\ d.members[p].in
        BY <1>2, <3>1, <4>1 DEF MemberRows, MayWrite
      <4> QED
        BY <1>2, <4>2 DEF MemberRows
    <3>2. CASE ~(p \in r.rows /\ MayWrite(r, d, p))
      BY <1>1, <2>3, <3>2 DEF MembersAfter, Whole
    <3> QED
      BY <3>1, <3>2
  <2>4. CASE r.op \in {"accept", "approve"}
    <3>1. After(r, d).members[p] \in {d.members[p], NewRow(d, JoinWrap(r, d), JoinBy(r))}
      BY <1>1, <2>4 DEF MembersAfter
    <3>2. NewRow(d, JoinWrap(r, d), JoinBy(r)).in = TRUE
      BY DEF NewRow
    <3> QED
      BY <3>1, <3>2 DEF Whole
  <2>5. CASE r.op = "delete"
    BY <1>1, <2>5 DEF SpaceAfter, Deleted
  <2> QED
    BY <2>1, <2>2, <2>3, <2>4, <2>5
<1> QED
  BY <1>1, <1>5 DEF Whole

LEMMA FlushedWhole ==
    ASSUME NEW old \in Rows, NEW new \in Rows, NEW now \in Rows
    PROVE  Whole(Flushed(old, new, now))
<1>1. Flushed(old, new, now) \in Rows
  BY FlushedRows
<1>2. CASE ~new.space.in
  BY <1>1, <1>2 DEF Flushed, Deleted, Whole
<1>3. CASE new.space.in
  <2>1. \A p \in People : Flushed(old, new, now).members[p] = ChangedRow(old.members[p], new.members[p], now.members[p])
    BY <1>3 DEF Flushed
  <2>2. \A p \in People : Changed(old.members[p], new.members[p], now.members[p]).in \in BOOLEAN
    <3>1. \A p \in People : Changed(old.members[p], new.members[p], now.members[p]) \in MemberRows
      BY RowsOf, MemberColumns
    <3> QED
      BY <3>1 DEF MemberRows
  <2> QED
    BY <1>1, <2>1, <2>2 DEF Whole, ChangedRow
<1> QED
  BY <1>2, <1>3

\* Over rows nobody has touched a commit leaves what the handler made of them.
LEMMA FlushedSame ==
    ASSUME NEW d \in Rows, NEW e, Whole(e), e.space.in \/ e = Deleted
    PROVE  Flushed(d, e, d) = e
<1>1. CASE ~e.space.in
  BY <1>1 DEF Flushed
<1>2. CASE e.space.in
  <2>1. e \in Rows /\ \A p \in People : e.members[p].in = TRUE \/ e.members[p] = NoRow
    BY DEF Whole
  <2>2. /\ Changed(d.space, e.space, d.space) = e.space
        /\ \A p \in People : Changed(d.members[p], e.members[p], d.members[p]) = e.members[p]
        /\ \A i \in Invites : Changed(d.invites[i], e.invites[i], d.invites[i]) = e.invites[i]
    BY <2>1, RowsOf, SameColumns
  <2>6. Changed(d.knocks, e.knocks, d.knocks) = e.knocks
    <3>1. d.knocks \in [People -> {"none", "pending", "approved", "declined"}]
          /\ e.knocks \in [People -> {"none", "pending", "approved", "declined"}]
      BY <2>1, RowsOf
    <3> QED
      BY <3>1 DEF Changed
  <2>3. \A p \in People : ChangedRow(d.members[p], e.members[p], d.members[p]) = e.members[p]
    BY <2>1, <2>2 DEF ChangedRow
  <2>4. /\ [p \in People |-> ChangedRow(d.members[p], e.members[p], d.members[p])] = e.members
        /\ [i \in Invites |-> Changed(d.invites[i], e.invites[i], d.invites[i])] = e.invites
    BY <2>1, <2>2, <2>3, RowsOf
  <2>5. Flushed(d, e, d) = [space |-> e.space, members |-> e.members, invites |-> e.invites, knocks |-> e.knocks]
    BY <1>2, <2>2, <2>4, <2>6 DEF Flushed
  <2> QED
    BY <2>1, <2>5 DEF Rows
<1> QED
  BY <1>1, <1>2

\* A request further on its way asks the same.
Like(q, r) ==
    /\ q.op = r.op /\ q.who = r.who /\ q.whom = r.whom /\ q.invite = r.invite /\ q.key = r.key
    /\ q.rows = r.rows

At(r, stage, d) == [r EXCEPT !.stage = stage, !.seen = d]
AtStage(r, stage) == [r EXCEPT !.stage = stage]

LEMMA Further ==
    ASSUME NEW r \in Requests, NEW stage \in {"none", "sent", "read", "joined"}, NEW d \in Rows
    PROVE  /\ At(r, stage, d) \in Requests /\ Like(At(r, stage, d), r)
           /\ At(r, stage, d).stage = stage /\ At(r, stage, d).seen = d
BY DEF At, Requests, Like

LEMMA FurtherStage ==
    ASSUME NEW r \in Requests, NEW stage \in {"none", "sent", "read", "joined"}
    PROVE  /\ AtStage(r, stage) \in Requests /\ Like(AtStage(r, stage), r)
           /\ AtStage(r, stage).stage = stage /\ AtStage(r, stage).seen = r.seen
BY DEF AtStage, Requests, Like

LEMMA LikeAsks ==
    ASSUME NEW r, NEW q, Like(q, r)
    PROVE  /\ Asked(r) => Asked(q)
           /\ \A d : Allowed(r, d) => Allowed(q, d)
BY DEF Like, Asked, Allowed, pending_row

\* The request whose client has sent it, in the slot it is given.
Taken(r, d) == IF r.op \in Carrying THEN AtStage(r, "sent") ELSE At(r, "read", d)

LEMMA TakenProper ==
    ASSUME NEW r, Callable(r), NEW d, Whole(d), d.space.in = TRUE, r.op \in Carrying \/ Allowed(r, d)
    PROVE  /\ Proper(Taken(r, d)) /\ Like(Taken(r, d), r)
           /\ Taken(r, d).stage = IF r.op \in Carrying THEN "sent" ELSE "read"
           /\ Taken(r, d).seen = IF r.op \in Carrying THEN None ELSE d
<1>1. r \in Requests /\ r.op \in Ops /\ Asked(r) /\ d \in Rows
  BY DEF Callable, Whole
<1>2. CASE r.op \in Carrying
  <2>1. Taken(r, d) \in Requests /\ Like(Taken(r, d), r) /\ Taken(r, d).stage = "sent" /\ Taken(r, d).seen = None
    BY <1>1, <1>2, FurtherStage DEF Taken, Callable
  <2>2. Asked(Taken(r, d)) /\ Found(Taken(r, d)) /\ Taken(r, d).op # "none"
    BY <1>1, <2>1, LikeAsks DEF Found, Like, Ops, OwnersOps, Settings
  <2> QED
    BY <1>2, <2>1, <2>2 DEF Proper
<1>3. CASE r.op \notin Carrying
  <2>1. Taken(r, d) \in Requests /\ Like(Taken(r, d), r) /\ Taken(r, d).stage = "read" /\ Taken(r, d).seen = d
    BY <1>1, <1>3, Further DEF Taken
  <2>2. Asked(Taken(r, d)) /\ Found(Taken(r, d)) /\ Taken(r, d).op # "none"
    BY <1>1, <1>3, <2>1, LikeAsks DEF Found, Like, Ops, OwnersOps, Settings
  <2> QED
    BY <1>3, <2>1, <2>2 DEF Proper
<1> QED
  BY <1>2, <1>3

LEMMA ReadProper ==
    ASSUME NEW r, Proper(r), r.op # "none", NEW d, Whole(d), d.space.in = TRUE, Allowed(r, d)
    PROVE  Proper(At(r, "read", d))
<1>1. r \in Requests /\ Asked(r) /\ d \in Rows
  BY DEF Proper, Whole
<1>2. /\ At(r, "read", d) \in Requests /\ Like(At(r, "read", d), r)
      /\ At(r, "read", d).stage = "read" /\ At(r, "read", d).seen = d
  BY <1>1, Further
<1>3. Asked(At(r, "read", d)) /\ Allowed(At(r, "read", d), d)
  BY <1>1, <1>2, LikeAsks
<1> QED
  BY <1>2, <1>3 DEF Proper, Found, Like

LEMMA AcceptTakes ==
    ASSUME NEW r, Accept(r)
    PROVE  \E s \in Slots : request[s] = Idle /\ request' = [request EXCEPT ![s] = Taken(r, db)]
BY DEF Accept, Taken, At, AtStage

LEMMA LargestOf == ASSUME NEW a \in Nat, NEW b \in Nat PROVE Largest({a, b}) = IF a <= b THEN b ELSE a
<1>1. \E m \in {a, b} : \A n \in {a, b} : n <= m
  OBVIOUS
<1>2. Largest({a, b}) \in {a, b} /\ \A n \in {a, b} : n <= Largest({a, b})
  BY <1>1 DEF Largest
<1> QED
  BY <1>2

LEMMA ReconcilingAsked ==
    ASSUME Types, NEW rows \in SUBSET People
    PROVE  /\ Callable(Distribution(Owner, Minted, rows))
           /\ Distribution(Owner, Minted, rows) = Asking("distribute", Owner, None, None, Minted, rows)
<1>1. Minted \in Nat /\ Owner \in People /\ Owner \in Somebody /\ None \in Somebody
  BY SpacesConstants DEF Types, Minted, Somebody
<1>2. Distribution(Owner, Minted, rows) = Asking("distribute", Owner, None, None, Minted, rows)
  <2>1. PICK r : r = Distribution(Owner, Minted, rows)
    OBVIOUS
  <2>2. r = Asking("distribute", Owner, None, None, Minted, rows)
    BY <2>1 DEF Distribution, Call, Idle, Asking
  <2> QED
    BY <2>1, <2>2
<1>3. Asked(Distribution(Owner, Minted, rows)) /\ "distribute" \in Ops
  BY <1>1, <1>2 DEF Asking, Asked, Ops, OwnersOps, Settings
<1> QED
  BY <1>1, <1>2, <1>3, AskingShape

LEMMA ProperSlots ==
    ASSUME Types, NEW s \in Slots, NEW q, Proper(q), request' = [request EXCEPT ![s] = q]
    PROVE  request' \in [Slots -> Requests] /\ \A t \in Slots : Proper(request'[t])
BY DEF Types, Proper

\* What a commit finds and leaves of its request.
LEMMA Committing ==
    ASSUME Types, NEW s \in Slots, request[s].stage \in {"read", "joined"}
    PROVE  LET r == request[s]
           IN /\ Proper(r) /\ r \in Requests /\ r.op \in Ops /\ Asked(r)
              /\ Whole(r.seen) /\ r.seen.space.in = TRUE /\ r.seen \in Rows
              /\ Whole(After(r, r.seen)) /\ After(r, r.seen) \in Rows
              /\ r.op # "delete" => After(r, r.seen).space.in = TRUE
              /\ r.op = "delete" => After(r, r.seen) = Deleted
              /\ MembersAfter(r, r.seen, After(r, r.seen)) /\ InvitesAfter(r, r.seen, After(r, r.seen))
              /\ KnocksAfter(r, r.seen, After(r, r.seen)) /\ SpaceAfter(r, r.seen, After(r, r.seen))
<1>1. Proper(request[s]) /\ request[s] \in Requests /\ request[s].op \in Ops /\ Asked(request[s]) /\ Found(request[s])
  BY DEF Types, Proper, Requests
<1>2. Whole(request[s].seen) /\ request[s].seen.space.in = TRUE /\ request[s].seen \in Rows
  BY <1>1 DEF Found, Whole
<1>3. Whole(After(request[s], request[s].seen)) /\ After(request[s], request[s].seen) \in Rows
  BY <1>1, <1>2, AfterWhole DEF Whole
<1>4. /\ MembersAfter(request[s], request[s].seen, After(request[s], request[s].seen))
      /\ InvitesAfter(request[s], request[s].seen, After(request[s], request[s].seen))
      /\ KnocksAfter(request[s], request[s].seen, After(request[s], request[s].seen))
      /\ SpaceAfter(request[s], request[s].seen, After(request[s], request[s].seen))
  BY <1>1, <1>2, Effects
<1> QED
  BY <1>1, <1>2, <1>3, <1>4 DEF SpaceAfter

Joins(r) == r.op \in {"accept", "approve"} /\ ~r.seen.members[Joiner(r)].in

LEMMA JoinedProper ==
    ASSUME Types, NEW s \in Slots, request[s].stage \in {"read", "joined"}, Joins(request[s])
    PROVE  Proper(At(request[s], "joined", After(request[s], request[s].seen)))
<1> DEFINE r == request[s]
<1> DEFINE new == After(r, r.seen)
<1>1. /\ Proper(r) /\ r \in Requests /\ r.op \in {"accept", "approve"} /\ Asked(r) /\ Found(r)
      /\ Whole(new) /\ new \in Rows /\ new.space.in = TRUE /\ KnocksAfter(r, r.seen, new)
  BY Committing DEF Joins, Proper
<1>2. At(r, "joined", new) \in Requests /\ Like(At(r, "joined", new), r)
      /\ At(r, "joined", new).stage = "joined" /\ At(r, "joined", new).seen = new
  <2>1. PICK n \in Rows : n = new
    BY <1>1
  <2>2. PICK q \in Requests : q = r
    BY <1>1
  <2>3. /\ At(q, "joined", n) \in Requests /\ Like(At(q, "joined", n), q)
        /\ At(q, "joined", n).stage = "joined" /\ At(q, "joined", n).seen = n
    BY Further
  <2> QED
    BY <2>1, <2>2, <2>3
<1>3. r.op = "approve" => pending_row(new, r.whom)
  <2>1. SUFFICES ASSUME r.op = "approve" PROVE pending_row(new, r.whom)
    OBVIOUS
  <2>2. new.knocks = r.seen.knocks
    BY <1>1, <2>1 DEF KnocksAfter, Joins, Joiner
  <2>3. pending_row(r.seen, r.whom)
    BY <1>1, <2>1 DEF Found, Allowed, Settings
  <2> QED
    BY <2>2, <2>3 DEF pending_row
<1> QED
  BY <1>1, <1>2, <1>3, LikeAsks DEF Proper, Found, Like

LEMMA TypesNext == Types /\ [Next]_vars => Types'
<1> SUFFICES ASSUME Types, [Next]_vars PROVE Types'
  OBVIOUS
<1>0. /\ Whole(db) /\ db \in Rows /\ db.space.in \in BOOLEAN /\ Owner \in People
      /\ ring \in [People -> Nat] /\ events \in Nat /\ Minted \in Nat
      /\ request \in [Slots -> Requests] /\ \A s \in Slots : Proper(request[s])
  BY SpacesConstants DEF Types, Whole, Rows, SpaceRows, Minted
<1>1. CASE Send
  <2>1. PICK r \in Calls : /\ Allowed(r, db) /\ Accept(r)
                           /\ ring' = IF r.who = Owner /\ r.op \in Carrying THEN [ring EXCEPT ![Owner] = Minted] ELSE ring
    BY <1>1 DEF Send
  <2>2. db' = db /\ events' = events + 1 /\ ring' \in [People -> Nat]
    BY <1>0, <1>1, <2>1 DEF Send
  <2>3. Callable(r)
    BY CallsAsked
  <2>4. Proper(Taken(r, db))
    BY <1>0, <2>1, <2>3, TakenProper DEF Allowed
  <2>5. request' \in [Slots -> Requests] /\ \A t \in Slots : Proper(request'[t])
    BY <2>1, <2>4, AcceptTakes, ProperSlots
  <2> QED
    BY <1>0, <2>2, <2>5 DEF Types
<1>2. CASE Reconcile
  <2>1. PICK rows \in SUBSET People : Accept(Distribution(Owner, Minted, rows))
    BY <1>2 DEF Reconcile
  <2>2. db' = db /\ events' = events /\ ring' \in [People -> Nat] /\ db.space.in
    BY <1>0, <1>2 DEF Reconcile
  <2>3. Callable(Distribution(Owner, Minted, rows)) /\ Distribution(Owner, Minted, rows).op \in Carrying
    BY ReconcilingAsked DEF Asking, Carrying
  <2>4. Proper(Taken(Distribution(Owner, Minted, rows), db))
    BY <1>0, <2>2, <2>3, TakenProper
  <2>5. request' \in [Slots -> Requests] /\ \A t \in Slots : Proper(request'[t])
    BY <2>1, <2>4, AcceptTakes, ProperSlots
  <2> QED
    BY <1>0, <2>2, <2>5 DEF Types
<1>3. ASSUME NEW s \in Slots, Read(s) PROVE Types'
  <2>1. request[s].stage = "sent" /\ db' = db /\ ring' = ring /\ events' = events
        /\ request' = [request EXCEPT ![s] = IF Allowed(request[s], db) THEN At(request[s], "read", db) ELSE Idle]
    BY <1>3 DEF Read, At
  <2>2. Allowed(request[s], db) => Proper(At(request[s], "read", db))
    <3>1. SUFFICES ASSUME Allowed(request[s], db) PROVE Proper(At(request[s], "read", db))
      OBVIOUS
    <3>2. Proper(request[s]) /\ request[s].op # "none" /\ db.space.in = TRUE
      BY <1>0, <2>1, <3>1 DEF Proper, Allowed
    <3> QED
      BY <1>0, <3>1, <3>2, ReadProper
  <2>3. request' \in [Slots -> Requests] /\ \A t \in Slots : Proper(request'[t])
    BY <2>1, <2>2, NoShapes, ProperSlots
  <2> QED
    BY <1>0, <2>1, <2>3 DEF Types
<1>4. ASSUME NEW s \in Slots, Commit(s) PROVE Types'
  <2> DEFINE r == request[s]
  <2> DEFINE new == After(r, r.seen)
  <2>1. /\ r.stage \in {"read", "joined"} /\ db' = Flushed(r.seen, new, db) /\ events' = events
        /\ request' = [request EXCEPT ![s] = IF Joins(r) THEN At(r, "joined", new) ELSE Idle]
    BY <1>4 DEF Commit, Joins, Joiner, At
  <2>2. r.seen \in Rows /\ new \in Rows
    BY <2>1, Committing
  <2>3. Whole(db')
    BY <1>0, <2>1, <2>2, FlushedWhole
  <2>4. ring' \in [People -> Nat]
    <3>1. PICK left \in SUBSET Guests :
             ring' = [p \in People |-> IF p \in left THEN 0 ELSE Largest({ring[p], db'.members[p].wrap.key})]
      BY <1>4 DEF Commit
    <3>2. \A p \in People : db'.members[p].wrap.key \in Nat
      BY <2>3 DEF Whole, Rows, MemberRows, Wraps
    <3>3. \A p \in People : (IF p \in left THEN 0 ELSE Largest({ring[p], db'.members[p].wrap.key})) \in Nat
      BY <1>0, <3>2, LargestOf
    <3> QED
      BY <3>1, <3>3
  <2>5. Joins(r) => Proper(At(r, "joined", new))
    BY <2>1, JoinedProper
  <2>6. request' \in [Slots -> Requests] /\ \A t \in Slots : Proper(request'[t])
    BY <2>1, <2>5, NoShapes, ProperSlots
  <2> QED
    BY <1>0, <2>1, <2>3, <2>4, <2>6 DEF Types
<1>5. ASSUME NEW s \in Slots, Fail(s) PROVE Types'
  <2>1. db' = db /\ ring' = ring /\ events' \in Nat /\ request' = [request EXCEPT ![s] = Idle]
    BY <1>0, <1>5 DEF Fail
  <2>2. request' \in [Slots -> Requests] /\ \A t \in Slots : Proper(request'[t])
    BY <2>1, NoShapes, ProperSlots
  <2> QED
    BY <1>0, <2>1, <2>2 DEF Types
<1>6. CASE UNCHANGED vars
  BY <1>0, <1>6 DEF Types, vars
<1> QED
  BY <1>1, <1>2, <1>3, <1>4, <1>5, <1>6 DEF Next, Answer

-----------------------------------------------------------------------------
(* The steps, as the invariants see them *)

OwnersDistribution(q) == q.op = "distribute" /\ q.who = Owner

Take(r, s) ==
    /\ Callable(r) /\ (r.op \in Carrying \/ Allowed(r, db))
    /\ request[s] = Idle /\ request' = [request EXCEPT ![s] = Taken(r, db)]
    /\ db.space.in = TRUE /\ db' = db /\ exposed' = exposed /\ raced' = raced
    /\ IF r.who = Owner /\ r.op \in Carrying
       THEN r.key = Minted /\ ring' = [ring EXCEPT ![Owner] = Minted]
       ELSE (r.op \in Carrying => r.key = ring[r.who]) /\ ring' = ring
    /\ OwnersDistribution(r) =>
         /\ \A t \in Slots : ~OwnersDistribution(request[t])
         /\ db.space.rekey # 0 => \A p \in People : db.members[p].in => p \in r.rows

Reading(s) ==
    /\ request[s].stage = "sent"
    /\ request' = [request EXCEPT ![s] = IF Allowed(request[s], db) THEN At(request[s], "read", db) ELSE Idle]
    /\ db' = db /\ ring' = ring /\ exposed' = exposed /\ raced' = raced

Leavers == {p \in Guests : db.members[p].in /\ ~db'.members[p].in}

Committed(s) ==
    /\ request[s].stage \in {"read", "joined"}
    /\ ~Refused(request[s].seen, After(request[s], request[s].seen), db)
    /\ db' = Flushed(request[s].seen, After(request[s], request[s].seen), db)
    /\ request' = [request EXCEPT ![s] =
                      IF Joins(request[s]) THEN At(request[s], "joined", After(request[s], request[s].seen)) ELSE Idle]
    /\ ring' = [p \in People |-> IF p \in Leavers THEN 0 ELSE Largest({ring[p], db'.members[p].wrap.key})]
    /\ exposed' = IF db'.space.in THEN Largest({exposed} \cup {ring[p] : p \in Leavers}) ELSE exposed
    /\ raced' = (raced \/ request[s].seen # db
                       \/ (db' # db /\ \E o \in Slots \ {s} : request[o].op \in Carrying))

Dropped(s) ==
    /\ request' = [request EXCEPT ![s] = Idle]
    /\ db' = db /\ ring' = ring /\ exposed' = exposed /\ raced' = raced

LEMMA Steps ==
    ASSUME Types, [Next]_vars
    PROVE  \/ \E r : \E s \in Slots : Take(r, s)
           \/ \E s \in Slots : Reading(s) \/ Committed(s) \/ Dropped(s)
           \/ db' = db /\ request' = request /\ ring' = ring /\ exposed' = exposed /\ raced' = raced
<1>0. Owner \notin Guests /\ db.space.in \in BOOLEAN
  BY DEF Guests, Types, Whole, Rows, SpaceRows
<1>1. CASE Send
  <2>1. PICK r \in Calls : /\ Allowed(r, db) /\ Accept(r)
                           /\ ring' = IF r.who = Owner /\ r.op \in Carrying THEN [ring EXCEPT ![Owner] = Minted] ELSE ring
    BY <1>1 DEF Send
  <2>2. db' = db /\ exposed' = exposed /\ raced' = raced /\ db.space.in = TRUE
    BY <1>0, <1>1, <2>1 DEF Send, Allowed
  <2>3. Callable(r) /\ Carries(r)
    BY CallsAsked
  <2>4. PICK s \in Slots : request[s] = Idle /\ request' = [request EXCEPT ![s] = Taken(r, db)]
    BY <2>1, AcceptTakes
  <2>5. ~OwnersDistribution(r)
    BY <1>0, <2>3 DEF Carries, OwnersDistribution
  <2>6. r.op \in Carrying => r.key = IF r.who = Owner THEN Minted ELSE ring[r.who]
    <3>1. r.op = "attach" => r.who = Owner
      BY <2>3 DEF Callable, Asked, OwnersOps
    <3> QED
      BY <1>0, <2>3, <3>1 DEF Carries, Carrying, Newest
  <2>7. Take(r, s)
    BY <2>1, <2>2, <2>3, <2>4, <2>5, <2>6 DEF Take
  <2> QED
    BY <2>7
<1>2. CASE Reconcile
  <2> DEFINE members == {p \in People : db.members[p].in}
  <2>1. PICK rows \in SUBSET People : /\ Accept(Distribution(Owner, Minted, rows))
                                      /\ db.space.rekey # 0 => rows = members
    BY <1>2 DEF Reconcile
  <2>2. /\ db' = db /\ exposed' = exposed /\ raced' = raced /\ db.space.in = TRUE
        /\ ring' = [ring EXCEPT ![Owner] = Minted]
        /\ \A t \in Slots : ~OwnersDistribution(request[t])
    BY <1>0, <1>2 DEF Reconcile, OwnersDistribution
  <2>3. PICK r : r = Distribution(Owner, Minted, rows)
    OBVIOUS
  <2>4. Callable(r) /\ r.op = "distribute" /\ r.who = Owner /\ r.key = Minted /\ r.rows = rows
    BY <2>3, ReconcilingAsked DEF Asking
  <2>5. PICK s \in Slots : request[s] = Idle /\ request' = [request EXCEPT ![s] = Taken(r, db)]
    BY <2>1, <2>3, AcceptTakes
  <2>6. Take(r, s)
    BY <2>1, <2>2, <2>4, <2>5 DEF Take, Carrying
  <2> QED
    BY <2>6
<1>3. ASSUME NEW s \in Slots, Read(s) PROVE Reading(s)
  BY <1>3 DEF Read, Reading, At
<1>4. ASSUME NEW s \in Slots, Commit(s) PROVE Committed(s)
  BY <1>4 DEF Commit, Committed, Joins, Joiner, At, Leavers
<1>5. ASSUME NEW s \in Slots, Fail(s) PROVE Dropped(s)
  BY <1>5 DEF Fail, Dropped
<1>6. CASE UNCHANGED vars
  BY <1>6 DEF vars
<1> QED
  BY <1>1, <1>2, <1>3, <1>4, <1>5, <1>6 DEF Next, Answer

-----------------------------------------------------------------------------
(* The owner's own wrap *)

OwnersRow(d, key) ==
    d.members[Owner].in = TRUE /\ d.members[Owner].wrap.by = Owner /\ d.members[Owner].wrap.key <= key

\* The owner is in with a wrap of its own; what a handler has read of it is no
\* newer, and what the owner's client is handing over no older, than the one
\* that is there; and the client hands over one key at a time.
OwnerInv ==
    /\ db.space.in => OwnersRow(db, ring[Owner])
    /\ \A s \in Slots : request[s].stage \in {"read", "joined"} /\ db.space.in =>
         OwnersRow(request[s].seen, db.members[Owner].wrap.key)
    /\ \A s \in Slots : OwnersDistribution(request[s]) /\ db.space.in =>
         db.members[Owner].wrap.key <= request[s].key
    /\ \A s, t \in Slots : OwnersDistribution(request[s]) /\ OwnersDistribution(request[t]) => s = t

LEMMA KeysAreNumbers ==
    ASSUME Types
    PROVE  /\ \A p \in People : ring[p] \in Nat /\ db.members[p].wrap.key \in Nat /\ db.members[p].in \in BOOLEAN
           /\ \A s \in Slots : /\ request[s].key \in Nat
                               /\ request[s].stage \in {"read", "joined"} =>
                                    \A p \in People : request[s].seen.members[p].wrap.key \in Nat
           /\ Owner \in People /\ Minted \in Nat /\ ring[Owner] <= Minted
<1>1. \A d \in Rows : \A p \in People : d.members[p].wrap.key \in Nat /\ d.members[p].in \in BOOLEAN
  BY DEF Rows, MemberRows, Wraps
<1>2. \A s \in Slots : request[s].stage \in {"read", "joined"} => request[s].seen \in Rows
  BY Committing
<1>3. Owner \in People /\ ring \in [People -> Nat] /\ db \in Rows /\ \A s \in Slots : request[s].key \in Nat
  BY SpacesConstants DEF Types, Whole, Requests
<1> QED
  BY <1>1, <1>2, <1>3 DEF Minted

\* Only what the owner's client distributes gets into the owner's row.
LEMMA OwnersWrap ==
    ASSUME Types, OwnerInv, NEW s \in Slots, request[s].stage \in {"read", "joined"}, db.space.in,
           ~Refused(request[s].seen, After(request[s], request[s].seen), db)
    PROVE  LET r == request[s]
               new == After(r, r.seen)
               after == Flushed(r.seen, new, db)
           IN /\ new.space.in => /\ new.members[Owner].in = TRUE
                                 /\ \/ new.members[Owner].wrap = r.seen.members[Owner].wrap
                                    \/ OwnersDistribution(r) /\ new.members[Owner].wrap = [key |-> r.key, by |-> Owner]
              /\ after.space.in => /\ new.space.in /\ after.members[Owner].in = TRUE
                                   /\ \/ after.members[Owner].wrap = db.members[Owner].wrap
                                      \/ OwnersDistribution(r) /\ after.members[Owner].wrap = [key |-> r.key, by |-> Owner]
<1> DEFINE r == request[s]
<1> DEFINE new == After(r, r.seen)
<1> DEFINE after == Flushed(r.seen, new, db)
<1>0. /\ r \in Requests /\ r.op \in Ops /\ Asked(r) /\ r.seen \in Rows /\ new \in Rows /\ db \in Rows
      /\ MembersAfter(r, r.seen, new) /\ (r.op = "delete" => new = Deleted)
      /\ r.seen.members[Owner] \in MemberRows /\ new.members[Owner] \in MemberRows /\ db.members[Owner] \in MemberRows
      /\ Owner \in People /\ Owner \notin Guests /\ Deleted.space.in = FALSE
  BY Committing, RowsOf, SpacesConstants, NoShapes DEF Types, Whole, Guests
<1>1. r.seen.members[Owner].in = TRUE /\ db.members[Owner].in = TRUE
  BY DEF OwnerInv, OwnersRow
<1>2. ASSUME new.space.in
      PROVE  /\ new.members[Owner].in = TRUE
             /\ \/ new.members[Owner].wrap = r.seen.members[Owner].wrap
                \/ OwnersDistribution(r) /\ new.members[Owner].wrap = [key |-> r.key, by |-> Owner]
  <2>0. r.op # "delete"
    BY <1>0, <1>2
  <2>1. CASE r.op \notin {"share", "remove", "distribute", "accept", "approve", "delete"}
    BY <1>0, <1>1, <2>1 DEF MembersAfter
  <2>2. CASE r.op = "share"
    BY <1>0, <1>1, <2>2, FloorlessRow DEF MembersAfter
  <2>3. CASE r.op = "remove"
    BY <1>0, <1>1, <2>3 DEF MembersAfter, Asked
  <2>4. CASE r.op = "distribute"
    <3>1. CASE Owner \in r.rows /\ MayWrite(r, r.seen, Owner)
      <4>1. r.who = Owner
        BY <3>1 DEF MayWrite
      <4>2. new.members[Owner] = [r.seen.members[Owner] EXCEPT !.wrap = [key |-> r.key, by |-> r.who], !.wrapped_by = r.who]
        BY <1>0, <2>4, <3>1 DEF MembersAfter
      <4>3. new.members[Owner].in = r.seen.members[Owner].in /\ new.members[Owner].wrap = [key |-> r.key, by |-> r.who]
        BY <1>0, <4>2 DEF MemberRows
      <4> QED
        BY <1>1, <2>4, <4>1, <4>3 DEF OwnersDistribution
    <3>2. CASE ~(Owner \in r.rows /\ MayWrite(r, r.seen, Owner))
      BY <1>0, <1>1, <2>4, <3>2 DEF MembersAfter
    <3> QED
      BY <3>1, <3>2
  <2>5. CASE r.op \in {"accept", "approve"}
    <3>1. Joiner(r) # Owner
      BY <1>0, <2>5 DEF Asked, Joiner
    <3> QED
      BY <1>0, <1>1, <2>5, <3>1 DEF MembersAfter
  <2> QED
    BY <2>0, <2>1, <2>2, <2>3, <2>4, <2>5
<1>3. ASSUME after.space.in
      PROVE  /\ new.space.in /\ after.members[Owner].in = TRUE
             /\ \/ after.members[Owner].wrap = db.members[Owner].wrap
                \/ OwnersDistribution(r) /\ after.members[Owner].wrap = [key |-> r.key, by |-> Owner]
  <2>1. new.space.in
    BY <1>0, <1>3 DEF Flushed
  <2>2. after.members[Owner] = ChangedRow(r.seen.members[Owner], new.members[Owner], db.members[Owner])
    BY <1>0, <2>1 DEF Flushed
  <2>3. PICK row : row = Changed(r.seen.members[Owner], new.members[Owner], db.members[Owner])
    OBVIOUS
  <2>4. /\ row.in = IF new.members[Owner].in # r.seen.members[Owner].in
                    THEN new.members[Owner].in ELSE db.members[Owner].in
        /\ row.wrap = IF new.members[Owner].wrap # r.seen.members[Owner].wrap
                      THEN new.members[Owner].wrap ELSE db.members[Owner].wrap
    BY <1>0, <2>3, MemberColumns
  <2>5. row.in = TRUE
    BY <1>1, <1>2, <2>1, <2>4
  <2> QED
    BY <1>2, <2>1, <2>2, <2>3, <2>4, <2>5 DEF ChangedRow
<1> QED
  BY <1>2, <1>3

LEMMA OtherSlots ==
    ASSUME Types, NEW s \in Slots, NEW q, request' = [request EXCEPT ![s] = q]
    PROVE  request'[s] = q /\ \A t \in Slots \ {s} : request'[t] = request[t]
BY DEF Types

LEMMA IdleFields ==
    /\ Idle.op = "none" /\ Idle.stage = "none"
    /\ Idle.op \notin Carrying /\ ~OwnersDistribution(Idle)
BY DEF Idle, Carrying, OwnersDistribution

LEMMA TakeFacts ==
    ASSUME Types, NEW s \in Slots, NEW r, Take(r, s)
    PROVE  /\ Like(request'[s], r) /\ request'[s] = Taken(r, db)
           /\ request'[s].stage = IF r.op \in Carrying THEN "sent" ELSE "read"
           /\ request'[s].seen = IF r.op \in Carrying THEN None ELSE db
           /\ \A t \in Slots \ {s} : request'[t] = request[t]
<1>1. Whole(db)
  BY DEF Types
<1>2. request' = [request EXCEPT ![s] = Taken(r, db)] /\ Callable(r) /\ db.space.in = TRUE /\ (r.op \in Carrying \/ Allowed(r, db))
  BY DEF Take
<1>3. request'[s] = Taken(r, db) /\ \A t \in Slots \ {s} : request'[t] = request[t]
  BY <1>2, OtherSlots
<1>4. PICK d : d = db
  OBVIOUS
<1>5. /\ Like(Taken(r, d), r)
      /\ Taken(r, d).stage = IF r.op \in Carrying THEN "sent" ELSE "read"
      /\ Taken(r, d).seen = IF r.op \in Carrying THEN None ELSE d
  BY <1>1, <1>2, <1>4, TakenProper
<1> QED
  BY <1>3, <1>4, <1>5

LEMMA ReadingFacts ==
    ASSUME Types, NEW s \in Slots, Reading(s)
    PROVE  /\ \/ request'[s] = Idle
              \/ /\ Allowed(request[s], db) /\ db.space.in = TRUE /\ Like(request'[s], request[s])
                 /\ request'[s].stage = "read" /\ request'[s].seen = db
           /\ \A t \in Slots \ {s} : request'[t] = request[t]
<1>1. db \in Rows /\ db.space.in \in BOOLEAN /\ request[s] \in Requests
  BY DEF Types, Whole, Rows, SpaceRows
<1>2. request'[s] = (IF Allowed(request[s], db) THEN At(request[s], "read", db) ELSE Idle)
      /\ \A t \in Slots \ {s} : request'[t] = request[t]
  BY OtherSlots DEF Reading
<1>3. PICK q \in Requests : q = request[s]
  BY <1>1
<1>4. /\ Like(At(q, "read", db), q) /\ At(q, "read", db).stage = "read" /\ At(q, "read", db).seen = db
  BY <1>1, Further
<1> QED
  BY <1>1, <1>2, <1>3, <1>4 DEF Allowed

LEMMA CommittedFacts ==
    ASSUME Types, NEW s \in Slots, Committed(s)
    PROVE  /\ \/ request'[s] = Idle
              \/ /\ Joins(request[s]) /\ Like(request'[s], request[s])
                 /\ request'[s].stage = "joined" /\ request'[s].seen = After(request[s], request[s].seen)
           /\ \A t \in Slots \ {s} : request'[t] = request[t]
<1>1. request[s] \in Requests /\ After(request[s], request[s].seen) \in Rows
  BY Committing DEF Committed
<1>2. request'[s] = (IF Joins(request[s]) THEN At(request[s], "joined", After(request[s], request[s].seen)) ELSE Idle)
      /\ \A t \in Slots \ {s} : request'[t] = request[t]
  BY OtherSlots DEF Committed
<1>3. PICK q \in Requests : q = request[s]
  BY <1>1
<1>4. PICK e \in Rows : e = After(request[s], request[s].seen)
  BY <1>1
<1>5. /\ Like(At(q, "joined", e), q) /\ At(q, "joined", e).stage = "joined" /\ At(q, "joined", e).seen = e
  BY Further
<1> QED
  BY <1>2, <1>3, <1>4, <1>5

LEMMA OwnerNext == Types /\ OwnerInv /\ [Next]_vars => OwnerInv'
<1> SUFFICES ASSUME Types, OwnerInv, [Next]_vars PROVE OwnerInv'
  OBVIOUS
<1>0. /\ \A p \in People : ring[p] \in Nat /\ db.members[p].wrap.key \in Nat /\ db.members[p].in \in BOOLEAN
      /\ \A s \in Slots : request[s].key \in Nat
      /\ Owner \in People /\ Minted \in Nat /\ ring[Owner] <= Minted /\ ring \in [People -> Nat]
  BY KeysAreNumbers DEF Types
<1>1. ASSUME NEW r, NEW s \in Slots, Take(r, s) PROVE OwnerInv'
  <2>1. db' = db /\ db.space.in = TRUE /\ ring[Owner] <= ring'[Owner] /\ ring'[Owner] \in Nat
    BY <1>0, <1>1 DEF Take
  <2>2. OwnersRow(db, ring[Owner])
    BY <2>1 DEF OwnerInv
  <2>3. OwnersRow(db', ring'[Owner])
    BY <1>0, <2>1, <2>2 DEF OwnersRow
  <2>4. /\ request'[s].stage = "joined" => FALSE
        /\ request'[s].stage = "read" => request'[s].seen = db
        /\ Like(request'[s], r)
        /\ \A t \in Slots \ {s} : request'[t] = request[t]
    BY <1>1, TakeFacts
  <2>5. request'[s].stage = "read" => OwnersRow(request'[s].seen, db.members[Owner].wrap.key)
    BY <1>0, <2>2, <2>4 DEF OwnersRow
  <2>6. OwnersDistribution(request'[s]) =>
           db.members[Owner].wrap.key <= request'[s].key /\ \A t \in Slots : ~OwnersDistribution(request[t])
    <3>1. SUFFICES ASSUME OwnersDistribution(request'[s])
                   PROVE  db.members[Owner].wrap.key <= request'[s].key /\ \A t \in Slots : ~OwnersDistribution(request[t])
      OBVIOUS
    <3>2. OwnersDistribution(r) /\ request'[s].key = r.key
      BY <2>4, <3>1 DEF OwnersDistribution, Like
    <3>3. r.key = Minted /\ \A t \in Slots : ~OwnersDistribution(request[t])
      BY <1>1, <3>2 DEF Take, OwnersDistribution, Carrying
    <3> QED
      BY <1>0, <2>2, <3>2, <3>3 DEF OwnersRow
  <2> QED
    BY <2>1, <2>3, <2>4, <2>5, <2>6 DEF OwnerInv
<1>2. ASSUME NEW s \in Slots, Reading(s) PROVE OwnerInv'
  <2>1. db' = db /\ ring' = ring
    BY <1>2 DEF Reading
  <2>2. /\ \/ request'[s] = Idle
           \/ Like(request'[s], request[s]) /\ request'[s].stage = "read" /\ request'[s].seen = db /\ db.space.in
        /\ \A t \in Slots \ {s} : request'[t] = request[t]
    BY <1>2, ReadingFacts
  <2>3. db.space.in => OwnersRow(db, db.members[Owner].wrap.key)
    BY <1>0 DEF OwnerInv, OwnersRow
  <2>4. OwnersDistribution(request'[s]) => OwnersDistribution(request[s]) /\ request'[s].key = request[s].key
    BY <2>2, IdleFields DEF OwnersDistribution, Like
  <2>5. request'[s].stage \in {"read", "joined"} /\ db.space.in => OwnersRow(request'[s].seen, db.members[Owner].wrap.key)
    BY <2>2, <2>3, IdleFields
  <2> QED
    BY <2>1, <2>2, <2>4, <2>5 DEF OwnerInv
<1>3. ASSUME NEW s \in Slots, Committed(s) PROVE OwnerInv'
  <2> DEFINE r == request[s]
  <2> DEFINE new == After(r, r.seen)
  <2>1. /\ \/ request'[s] = Idle
           \/ Joins(r) /\ Like(request'[s], r) /\ request'[s].stage = "joined" /\ request'[s].seen = new
        /\ \A t \in Slots \ {s} : request'[t] = request[t]
    BY <1>3, CommittedFacts
  <2>2. /\ r.stage \in {"read", "joined"} /\ db.space.in /\ ~Refused(r.seen, new, db) /\ db' = Flushed(r.seen, new, db)
        /\ ring' = [p \in People |-> IF p \in Leavers THEN 0 ELSE Largest({ring[p], db'.members[p].wrap.key})]
    BY <1>3 DEF Committed, Refused
  <2>3. CASE ~db'.space.in
    <3>1. OwnersDistribution(request'[s]) => OwnersDistribution(request[s])
      BY <2>1, IdleFields DEF OwnersDistribution, Like
    <3> QED
      BY <2>1, <2>3, <3>1 DEF OwnerInv
  <2>4. CASE db'.space.in
    <3>1. /\ new.space.in /\ db'.members[Owner].in = TRUE
          /\ \/ db'.members[Owner].wrap = db.members[Owner].wrap
             \/ OwnersDistribution(r) /\ db'.members[Owner].wrap = [key |-> r.key, by |-> Owner]
          /\ \/ new.members[Owner].wrap = r.seen.members[Owner].wrap
             \/ OwnersDistribution(r) /\ new.members[Owner].wrap = [key |-> r.key, by |-> Owner]
          /\ new.members[Owner].in = TRUE
      BY <2>2, <2>4, OwnersWrap
    <3>2. OwnersRow(db, ring[Owner]) /\ OwnersRow(r.seen, db.members[Owner].wrap.key)
          /\ (OwnersDistribution(r) => db.members[Owner].wrap.key <= r.key)
      BY <2>2 DEF OwnerInv
    <3>3. /\ db'.members[Owner].wrap.key \in Nat /\ db'.members[Owner].wrap.by = Owner
          /\ db.members[Owner].wrap.key <= db'.members[Owner].wrap.key
      BY <1>0, <3>1, <3>2 DEF OwnersRow
    <3>4. ring'[Owner] = Largest({ring[Owner], db'.members[Owner].wrap.key})
      <4>1. Owner \notin Leavers
        BY DEF Leavers, Guests
      <4> QED
        BY <1>0, <2>2, <4>1
    <3>5. db'.members[Owner].wrap.key <= ring'[Owner]
      <4>1. PICK a, b \in Nat : a = ring[Owner] /\ b = db'.members[Owner].wrap.key
        BY <1>0, <3>3
      <4>2. b <= Largest({a, b})
        BY LargestOf
      <4> QED
        BY <3>4, <4>1, <4>2
    <3>6. OwnersRow(db', ring'[Owner])
      BY <3>1, <3>3, <3>5 DEF OwnersRow
    <3>7. ASSUME NEW t \in Slots, request'[t].stage \in {"read", "joined"}
          PROVE  OwnersRow(request'[t].seen, db'.members[Owner].wrap.key)
      <4>1. CASE t = s
        <5>1. request'[s].seen = new /\ ~OwnersDistribution(r)
          BY <2>1, <3>7, <4>1, IdleFields DEF Joins, OwnersDistribution
        <5>2. r.seen.members[Owner].wrap.key \in Nat
          BY <2>2, KeysAreNumbers
        <5>3. new.members[Owner].in = TRUE /\ new.members[Owner].wrap = r.seen.members[Owner].wrap
          BY <3>1, <5>1
        <5> QED
          BY <1>0, <3>2, <3>3, <4>1, <5>1, <5>2, <5>3 DEF OwnersRow
      <4>2. CASE t # s
        <5>1. request'[t] = request[t]
          BY <2>1, <4>2
        <5>2. OwnersRow(request[t].seen, db.members[Owner].wrap.key) /\ request[t].seen.members[Owner].wrap.key \in Nat
          BY <2>2, <3>7, <5>1, KeysAreNumbers DEF OwnerInv
        <5> QED
          BY <1>0, <3>3, <5>1, <5>2 DEF OwnersRow
      <4> QED
        BY <4>1, <4>2
    <3>8. ASSUME NEW t \in Slots, OwnersDistribution(request'[t]) PROVE db'.members[Owner].wrap.key <= request'[t].key
      <4>1. t # s
        BY <2>1, <3>8, IdleFields DEF Joins, OwnersDistribution, Like
      <4>2. request'[t] = request[t] /\ ~OwnersDistribution(r)
        BY <2>1, <3>8, <4>1 DEF OwnerInv
      <4> QED
        BY <2>2, <3>1, <3>8, <4>2 DEF OwnerInv
    <3>9. \A t, u \in Slots : OwnersDistribution(request'[t]) /\ OwnersDistribution(request'[u]) => t = u
      <4>1. \A t \in Slots : OwnersDistribution(request'[t]) => OwnersDistribution(request[t])
        BY <2>1, IdleFields DEF OwnersDistribution, Like
      <4> QED
        BY <4>1 DEF OwnerInv
    <3> QED
      BY <3>6, <3>7, <3>8, <3>9 DEF OwnerInv
  <2> QED
    BY <2>3, <2>4
<1>4. ASSUME NEW s \in Slots, Dropped(s) PROVE OwnerInv'
  <2>1. db' = db /\ ring' = ring /\ request'[s] = Idle /\ \A t \in Slots \ {s} : request'[t] = request[t]
    BY <1>4, OtherSlots DEF Dropped
  <2> QED
    BY <2>1, IdleFields DEF OwnerInv
<1>5. CASE db' = db /\ request' = request /\ ring' = ring
  BY <1>5 DEF OwnerInv
<1> QED
  BY <1>1, <1>2, <1>3, <1>4, <1>5, Steps

FirstSpace == [in |-> TRUE, share_history |-> ShareHistory, members_can_approve |-> FALSE, rekey |-> 0, fingerprint |-> 1]

LEMMA InitShape ==
    ASSUME Init
    PROVE  \E joined \in SUBSET Guests :
             /\ db.space = FirstSpace
             /\ db.members = [p \in People |-> IF p \in joined \cup {Owner} THEN FirstRow(p) ELSE NoRow]
             /\ db.invites \in [Invites -> InviteRows]
             /\ \A i \in Invites : db.invites[i].wrap \in {NoWrap, FirstWrap}
             /\ db.knocks = [p \in People |-> "none"]
             /\ db \in Rows
             /\ ring = [p \in People |-> IF p \in joined \cup {Owner} THEN 1 ELSE 0]
             /\ request = [s \in Slots |-> Idle] /\ exposed = 0 /\ raced = FALSE /\ events = 0
<1>1. /\ request = [s \in Slots |-> Idle] /\ exposed = 0 /\ raced = FALSE /\ events = 0
  BY DEF Init
<1>2. PICK joined \in SUBSET Guests :
        /\ \E invites \in [Invites -> {NoInvite} \cup FirstInvites(Guests \ joined)] :
              db = [space |-> FirstSpace,
                    members |-> [p \in People |-> IF p \in joined \cup {Owner} THEN FirstRow(p) ELSE NoRow],
                    invites |-> invites,
                    knocks |-> [p \in People |-> "none"]]
        /\ ring = [p \in People |-> IF p \in joined \cup {Owner} THEN 1 ELSE 0]
  BY DEF Init, FirstSpace
<1>3. PICK invites \in [Invites -> {NoInvite} \cup FirstInvites(Guests \ joined)] :
              db = [space |-> FirstSpace,
                    members |-> [p \in People |-> IF p \in joined \cup {Owner} THEN FirstRow(p) ELSE NoRow],
                    invites |-> invites,
                    knocks |-> [p \in People |-> "none"]]
  BY <1>2
<1>4. FirstWrap \in Wraps /\ NoWrap \in Wraps /\ NoWrap.key = 0
  BY NoShapes, SpacesConstants DEF FirstWrap, Wraps, Somebody
<1>5. \A p \in People : FirstRow(p) \in MemberRows
  BY <1>4, SpacesConstants DEF FirstRow, MemberRows, Somebody
<1>6. FirstSpace \in SpaceRows
  BY SpacesConstants DEF FirstSpace, SpaceRows
<1>7. \A x \in {NoInvite} \cup FirstInvites(Guests \ joined) : x \in InviteRows /\ x.wrap \in {NoWrap, FirstWrap}
  <2>1. ASSUME NEW p \in Guests \ joined, NEW w \in {NoWrap, FirstWrap}, NEW x, x = [status |-> "pending", to |-> p, wrap |-> w]
        PROVE  x \in InviteRows /\ x.wrap \in {NoWrap, FirstWrap}
    BY <1>4, <2>1 DEF InviteRows, Somebody, Guests
  <2>2. NoInvite \in InviteRows /\ NoInvite.wrap = NoWrap
    BY NoShapes DEF NoInvite
  <2> QED
    BY <2>1, <2>2 DEF FirstInvites
<1>8. [p \in People |-> IF p \in joined \cup {Owner} THEN FirstRow(p) ELSE NoRow] \in [People -> MemberRows]
  BY <1>5, NoShapes
<1>9. invites \in [Invites -> InviteRows] /\ \A i \in Invites : invites[i].wrap \in {NoWrap, FirstWrap}
  BY <1>7
<1>10. /\ db.space = FirstSpace
       /\ db.members = [p \in People |-> IF p \in joined \cup {Owner} THEN FirstRow(p) ELSE NoRow]
       /\ db.invites = invites /\ db.knocks = [p \in People |-> "none"]
  BY <1>3 DEF Deleted
<1>11. db \in Rows
  BY <1>3, <1>6, <1>8, <1>9 DEF Deleted, Rows
<1> QED
  BY <1>1, <1>2, <1>9, <1>10, <1>11

LEMMA InitOwner == Init => Types /\ OwnerInv
<1> SUFFICES ASSUME Init PROVE Types /\ OwnerInv
  OBVIOUS
<1>1. PICK joined \in SUBSET Guests :
             /\ db.members = [p \in People |-> IF p \in joined \cup {Owner} THEN FirstRow(p) ELSE NoRow]
             /\ db \in Rows
             /\ ring = [p \in People |-> IF p \in joined \cup {Owner} THEN 1 ELSE 0]
             /\ request = [s \in Slots |-> Idle] /\ events = 0
  BY InitShape
<1>2. FirstRow(Owner).in = TRUE /\ FirstRow(Owner).wrap = FirstWrap /\ \A p \in People : FirstRow(p).in = TRUE
  BY DEF FirstRow
<1>3. Whole(db)
  BY <1>1, <1>2 DEF Whole
<1>4. Types
  <2>1. Proper(Idle) /\ Idle \in Requests
    BY NoShapes DEF Proper
  <2> QED
    BY <1>1, <1>3, <2>1 DEF Types
<1>5. OwnersRow(db, ring[Owner])
  BY <1>1, <1>2, SpacesConstants DEF OwnersRow, FirstWrap
<1> QED
  BY <1>1, <1>4, <1>5, IdleFields DEF OwnerInv

LEMMA OwnerAlways == Spec => [](Types /\ OwnerInv)
<1>1. Types /\ OwnerInv /\ [Next]_vars => (Types /\ OwnerInv)'
  BY TypesNext, OwnerNext
<1> QED
  BY InitOwner, <1>1, PTL DEF Spec

-----------------------------------------------------------------------------
(* While no request is overtaken *)

LEMMA CalmCommit ==
    ASSUME Types, NEW s \in Slots, Committed(s), ~raced'
    PROVE  /\ ~raced /\ request[s].seen = db /\ db.space.in = TRUE
           /\ db' = After(request[s], db)
           /\ db' # db => \A o \in Slots \ {s} : request[o].op \notin Carrying
           /\ request[s] \in Requests /\ request[s].op \in Ops /\ Asked(request[s]) /\ Found(request[s])
           /\ db \in Rows /\ db' \in Rows
           /\ MembersAfter(request[s], db, db') /\ InvitesAfter(request[s], db, db')
           /\ KnocksAfter(request[s], db, db') /\ SpaceAfter(request[s], db, db')
<1>1. /\ ~raced /\ request[s].seen = db
      /\ db' # db => \A o \in Slots \ {s} : request[o].op \notin Carrying
      /\ db' = Flushed(db, After(request[s], db), db) /\ request[s].stage \in {"read", "joined"}
  BY DEF Committed
<1>2. /\ Proper(request[s]) /\ request[s] \in Requests /\ request[s].op \in Ops /\ Asked(request[s])
      /\ db.space.in = TRUE /\ db \in Rows
      /\ Whole(After(request[s], db)) /\ (After(request[s], db).space.in \/ After(request[s], db) = Deleted)
      /\ MembersAfter(request[s], db, After(request[s], db)) /\ InvitesAfter(request[s], db, After(request[s], db))
      /\ KnocksAfter(request[s], db, After(request[s], db)) /\ SpaceAfter(request[s], db, After(request[s], db))
  BY <1>1, Committing
<1>3. db' = After(request[s], db) /\ db' \in Rows
  BY <1>1, <1>2, FlushedSame DEF Whole
<1>4. Found(request[s])
  BY <1>1, <1>2 DEF Proper
<1> QED
  BY <1>1, <1>2, <1>3, <1>4

LEMMA CalmStep ==
    ASSUME Types, [Next]_vars, ~raced'
    PROVE  ~raced /\ (db' = db \/ \E s \in Slots : Committed(s))
<1>1. ASSUME NEW s \in Slots, Committed(s) PROVE ~raced
  BY <1>1 DEF Committed
<1>2. ASSUME NEW s \in Slots, (\E r : Take(r, s)) \/ Reading(s) \/ Dropped(s) PROVE db' = db /\ ~raced
  BY <1>2 DEF Take, Reading, Dropped
<1> QED
  BY <1>1, <1>2, Steps

\* Every wrap is in the name of its maker, and invites carry only the owner's.
SignedRows(d) ==
    /\ \A p \in People : d.members[p].wrap # NoWrap => d.members[p].wrapped_by = d.members[p].wrap.by
    /\ \A i \in Invites : d.invites[i].wrap # NoWrap => d.invites[i].wrap.by = Owner

FloorRows(d) == d.space.share_history => \A p \in People : ~d.members[p].floor

LEMMA RewrittenRow ==
    ASSUME NEW row \in MemberRows, NEW key \in Nat, NEW by \in People
    PROVE  LET x == [row EXCEPT !.wrap = [key |-> key, by |-> by], !.wrapped_by = by]
           IN /\ x.in = row.in /\ x.floor = row.floor
              /\ x.wrap = [key |-> key, by |-> by] /\ x.wrapped_by = by
BY DEF MemberRows

LEMMA AfterSigned ==
    ASSUME NEW r \in Requests, r.op \in Ops, Asked(r), NEW d \in Rows, NEW e \in Rows,
           MembersAfter(r, d, e), InvitesAfter(r, d, e), SpaceAfter(r, d, e), SignedRows(d)
    PROVE  SignedRows(e)
<1>1. /\ \A p \in People : d.members[p] \in MemberRows
      /\ NoRow.wrap = NoWrap /\ NoRow.in = FALSE /\ r.key \in Nat
      /\ \A i \in Invites : Deleted.invites[i].wrap = NoWrap
      /\ \A p \in People : Deleted.members[p].wrap = NoWrap
  BY RowsOf, NoShapes DEF Requests, Deleted, NoInvite
<1>2. ASSUME NEW p \in People, e.members[p].wrap # NoWrap PROVE e.members[p].wrapped_by = e.members[p].wrap.by
  <2>0. d.members[p].wrap # NoWrap => d.members[p].wrapped_by = d.members[p].wrap.by
    BY DEF SignedRows
  <2>1. CASE e.members[p] = d.members[p]
    BY <1>2, <2>0, <2>1
  <2>2. CASE r.op \in {"share", "remove"}
    <3>1. e.members[p] \in {NoRow, d.members[p], Floorless(d.members[p]), Keyless(d.members[p])}
      BY <2>2 DEF MembersAfter
    <3>2. /\ Keyless(d.members[p]).wrap = NoWrap
          /\ Floorless(d.members[p]).wrap = d.members[p].wrap
          /\ Floorless(d.members[p]).wrapped_by = d.members[p].wrapped_by
      BY <1>1, FloorlessRow, KeylessRow
    <3> QED
      BY <1>1, <1>2, <2>0, <3>1, <3>2
  <2>3. CASE r.op = "distribute" /\ e.members[p] # d.members[p]
    <3>1. e.members[p] = [d.members[p] EXCEPT !.wrap = [key |-> r.key, by |-> r.who], !.wrapped_by = r.who]
      BY <2>3 DEF MembersAfter
    <3>2. e.members[p].wrap = [key |-> r.key, by |-> r.who] /\ e.members[p].wrapped_by = r.who
      BY <1>1, <3>1 DEF MemberRows
    <3> QED
      BY <3>2
  <2>4. CASE r.op \in {"accept", "approve"} /\ e.members[p] # d.members[p]
    <3>1. e.members[p] = NewRow(d, JoinWrap(r, d), JoinBy(r))
      BY <2>4 DEF MembersAfter
    <3>2. e.members[p].wrap = JoinWrap(r, d) /\ e.members[p].wrapped_by = JoinBy(r)
      BY <3>1 DEF NewRow
    <3>3. r.op = "accept" => r.invite \in Invites
      BY DEF Asked
    <3> QED
      BY <1>2, <2>4, <3>2, <3>3 DEF JoinWrap, JoinBy, SignedRows
  <2>5. CASE r.op = "delete"
    BY <1>1, <1>2, <2>5 DEF SpaceAfter
  <2> QED
    BY <2>1, <2>2, <2>3, <2>4, <2>5 DEF MembersAfter
<1>3. ASSUME NEW i \in Invites, e.invites[i].wrap # NoWrap PROVE e.invites[i].wrap.by = Owner
  <2>0. d.invites[i].wrap # NoWrap => d.invites[i].wrap.by = Owner
    BY DEF SignedRows
  <2>1. CASE e.invites[i] = d.invites[i]
    BY <1>3, <2>0, <2>1
  <2>2. CASE r.op = "remove"
    <3>1. e.invites[i] = [d.invites[i] EXCEPT !.wrap = NoWrap]
      BY <2>2 DEF InvitesAfter
    <3> QED
      BY <1>3, <3>1, RowsOf DEF InviteRows
  <2>3. CASE r.op \in {"invite", "attach", "revoke", "accept", "decline"} /\ i = r.invite
    BY <1>3, <2>0, <2>3 DEF InvitesAfter
  <2>4. CASE r.op = "delete"
    BY <1>1, <1>3, <2>4 DEF SpaceAfter
  <2> QED
    BY <2>1, <2>2, <2>3, <2>4 DEF InvitesAfter
<1> QED
  BY <1>2, <1>3 DEF SignedRows

LEMMA AfterFloors ==
    ASSUME NEW r \in Requests, r.op \in Ops, Asked(r), NEW d \in Rows, NEW e \in Rows,
           MembersAfter(r, d, e), SpaceAfter(r, d, e), FloorRows(d)
    PROVE  FloorRows(e)
<1>1. /\ \A p \in People : d.members[p] \in MemberRows
      /\ NoRow.floor = FALSE /\ r.key \in Nat /\ Deleted.space.share_history = FALSE
  BY RowsOf DEF Requests, Deleted, NoRow
<1>2. ASSUME NEW p \in People, e.space.share_history PROVE ~e.members[p].floor
  <2>0. r.op # "share" => d.space.share_history /\ ~d.members[p].floor
    BY <1>1, <1>2 DEF SpaceAfter, FloorRows
  <2>1. CASE e.members[p] = d.members[p] /\ r.op # "share"
    BY <2>0, <2>1
  <2>2. CASE r.op = "share"
    BY <1>1, <2>2, FloorlessRow DEF MembersAfter
  <2>3. CASE r.op = "remove"
    <3>1. e.members[p] \in {NoRow, d.members[p], Keyless(d.members[p])}
      BY <2>3 DEF MembersAfter
    <3> QED
      BY <1>1, <2>0, <2>3, <3>1, KeylessRow
  <2>4. CASE r.op = "distribute" /\ e.members[p] # d.members[p]
    <3>1. e.members[p] = [d.members[p] EXCEPT !.wrap = [key |-> r.key, by |-> r.who], !.wrapped_by = r.who]
      BY <2>4 DEF MembersAfter
    <3>2. e.members[p].floor = d.members[p].floor
      BY <1>1, <3>1 DEF MemberRows
    <3> QED
      BY <2>0, <2>4, <3>2
  <2>5. CASE r.op \in {"accept", "approve"} /\ e.members[p] # d.members[p]
    <3>1. e.members[p] = NewRow(d, JoinWrap(r, d), JoinBy(r))
      BY <2>5 DEF MembersAfter
    <3>2. e.members[p].floor = ~d.space.share_history
      BY <3>1 DEF NewRow
    <3> QED
      BY <2>0, <2>5, <3>2
  <2>6. CASE r.op = "delete"
    BY <1>1, <1>2, <2>6 DEF SpaceAfter
  <2> QED
    BY <2>1, <2>2, <2>3, <2>4, <2>5, <2>6 DEF MembersAfter
<1> QED
  BY <1>2 DEF FloorRows

CalmInv == ~raced => SignedRows(db) /\ FloorRows(db)

LEMMA CalmNext == Types /\ CalmInv /\ [Next]_vars => CalmInv'
<1> SUFFICES ASSUME Types, CalmInv, [Next]_vars, ~raced' PROVE SignedRows(db') /\ FloorRows(db')
  BY DEF CalmInv
<1>1. ~raced /\ (db' = db \/ \E s \in Slots : Committed(s))
  BY CalmStep
<1>2. CASE db' = db
  BY <1>1, <1>2 DEF CalmInv
<1>3. ASSUME NEW s \in Slots, Committed(s) PROVE SignedRows(db') /\ FloorRows(db')
  <2>1. PICK r : r = request[s]
    OBVIOUS
  <2>2. /\ r \in Requests /\ r.op \in Ops /\ Asked(r) /\ db \in Rows /\ db' \in Rows
        /\ MembersAfter(r, db, db') /\ InvitesAfter(r, db, db') /\ SpaceAfter(r, db, db')
    BY <1>3, <2>1, CalmCommit
  <2>3. PICK e : e = db'
    OBVIOUS
  <2> QED
    BY <1>1, <2>2, <2>3, AfterSigned, AfterFloors DEF CalmInv
<1> QED
  BY <1>1, <1>2, <1>3

LEMMA InitCalm == Init => CalmInv
<1> SUFFICES ASSUME Init PROVE SignedRows(db) /\ FloorRows(db)
  BY DEF CalmInv
<1>1. PICK joined \in SUBSET Guests :
             /\ db.space = FirstSpace
             /\ db.members = [p \in People |-> IF p \in joined \cup {Owner} THEN FirstRow(p) ELSE NoRow]
             /\ \A i \in Invites : db.invites[i].wrap \in {NoWrap, FirstWrap}
  BY InitShape
<1>2. /\ NoRow.wrap = NoWrap /\ NoRow.floor = FALSE /\ FirstWrap.by = Owner
      /\ \A p \in People : FirstRow(p).wrap = FirstWrap /\ FirstRow(p).wrapped_by = Owner
      /\ \A p \in People : ShareHistory => ~FirstRow(p).floor
  BY DEF NoRow, FirstRow, FirstWrap
<1>3. FirstSpace.share_history = ShareHistory
  BY DEF FirstSpace
<1>4. \A p \in People : db.members[p] = FirstRow(p) \/ db.members[p] = NoRow
  BY <1>1
<1> QED
  BY <1>1, <1>2, <1>3, <1>4 DEF SignedRows, FloorRows

LEMMA CalmAlways == Spec => [](Types /\ CalmInv)
<1>1. Types /\ CalmInv /\ [Next]_vars => (Types /\ CalmInv)'
  BY TypesNext, CalmNext
<1> QED
  BY InitOwner, InitCalm, <1>1, PTL DEF Spec

-----------------------------------------------------------------------------
(* The keys of those who have left *)

\* The owner's client holds the newest key there is; who is out holds none; and
\* an invite's wrap is of a key nobody who has left holds.
Held ==
    /\ exposed \in Nat /\ exposed <= ring[Owner]
    /\ \A p \in People : ring[p] <= ring[Owner] /\ db.members[p].wrap.key <= ring[Owner]
    /\ \A p \in Guests : ~db.members[p].in => ring[p] = 0
    /\ \A i \in Invites : \/ db.invites[i].wrap = NoWrap
                          \/ exposed < db.invites[i].wrap.key /\ db.invites[i].wrap.key <= ring[Owner]

\* So is what the owner is handing over, and that, while a rekey is owed, goes
\* to every member.
InFlight ==
    /\ \A s \in Slots : request[s].op \in Carrying =>
         request[s].key <= ring[Owner] /\ (request[s].who = Owner => exposed < request[s].key)
    /\ \A s \in Slots : OwnersDistribution(request[s]) /\ db.space.rekey # 0 =>
         \A p \in People : db.members[p].in => p \in request[s].rows

\* Once the rekey is settled everyone is past the keys of those who have left.
Past ==
    /\ exposed < db.space.fingerprint
    /\ \A p \in Guests : /\ ring[p] = 0 \/ exposed < ring[p]
                         /\ db.members[p].wrap = NoWrap \/ exposed < db.members[p].wrap.key
    /\ \A s \in Slots : request[s].op \in Carrying /\ request[s].who # Owner =>
         request[s].key = 0 \/ exposed < request[s].key

KeysInv ==
    ~raced /\ db.space.in => Held /\ InFlight /\ (db.space.rekey = 0 /\ exposed # 0 => Past)

\* Where the wraps in the rows come from.
LEMMA WrapsFrom ==
    ASSUME NEW r \in Requests, r.op \in Ops, Asked(r), r.op # "delete", r.op = "distribute" => r.key # 0,
           NEW d \in Rows, NEW e \in Rows, MembersAfter(r, d, e), InvitesAfter(r, d, e)
    PROVE  /\ \A p \in People :
                \/ e.members[p].wrap \in {NoWrap, d.members[p].wrap}
                \/ r.op \in {"distribute", "approve"} /\ r.key # 0 /\ e.members[p].wrap = [key |-> r.key, by |-> r.who]
                \/ \E i \in Invites : e.members[p].wrap = d.invites[i].wrap
           /\ \A p \in People :
                /\ d.members[p].in /\ ~e.members[p].in => r.op = "remove" /\ p = r.whom
           /\ \A i \in Invites :
                \/ e.invites[i].wrap = NoWrap
                \/ e.invites[i].wrap = d.invites[i].wrap /\ r.op # "remove"
                \/ r.op = "attach" /\ e.invites[i].wrap = [key |-> r.key, by |-> Owner]
<1>1. \A p \in People : d.members[p] \in MemberRows
  BY RowsOf
<1>2. ASSUME NEW p \in People
      PROVE  /\ \/ e.members[p].wrap \in {NoWrap, d.members[p].wrap}
                \/ r.op \in {"distribute", "approve"} /\ r.key # 0 /\ e.members[p].wrap = [key |-> r.key, by |-> r.who]
                \/ \E i \in Invites : e.members[p].wrap = d.invites[i].wrap
             /\ d.members[p].in /\ ~e.members[p].in => r.op = "remove" /\ p = r.whom
  <2>1. CASE e.members[p] = d.members[p]
    BY <2>1
  <2>2. CASE r.op = "share"
    <3>1. e.members[p] = Floorless(d.members[p])
      BY <2>2 DEF MembersAfter
    <3>2. Floorless(d.members[p]).wrap = d.members[p].wrap /\ Floorless(d.members[p]).in = d.members[p].in
      BY <1>1, FloorlessRow
    <3> QED
      BY <3>1, <3>2
  <2>3. CASE r.op = "remove" /\ e.members[p] # d.members[p]
    <3>1. \/ p = r.whom /\ e.members[p] = NoRow
          \/ e.members[p] = Keyless(d.members[p])
      BY <2>3 DEF MembersAfter
    <3>2. NoRow.wrap = NoWrap /\ Keyless(d.members[p]).wrap = NoWrap /\ Keyless(d.members[p]).in = d.members[p].in
      BY <1>1, NoShapes, KeylessRow
    <3> QED
      BY <2>3, <3>1, <3>2
  <2>4. CASE r.op = "distribute" /\ e.members[p] # d.members[p]
    <3>1. e.members[p] = [d.members[p] EXCEPT !.wrap = [key |-> r.key, by |-> r.who], !.wrapped_by = r.who]
      BY <2>4 DEF MembersAfter
    <3>2. e.members[p].wrap = [key |-> r.key, by |-> r.who] /\ e.members[p].in = d.members[p].in
      BY <1>1, <3>1 DEF MemberRows
    <3> QED
      BY <2>4, <3>2
  <2>5. CASE r.op \in {"accept", "approve"} /\ e.members[p] # d.members[p]
    <3>1. e.members[p] = NewRow(d, JoinWrap(r, d), JoinBy(r))
      BY <2>5 DEF MembersAfter
    <3>2. e.members[p].wrap = JoinWrap(r, d) /\ e.members[p].in = TRUE
      BY <3>1 DEF NewRow
    <3>3. r.op = "accept" => r.invite \in Invites
      BY DEF Asked
    <3> QED
      BY <2>5, <3>2, <3>3 DEF JoinWrap
  <2> QED
    BY <2>1, <2>2, <2>3, <2>4, <2>5 DEF MembersAfter
<1>3. ASSUME NEW i \in Invites
      PROVE  \/ e.invites[i].wrap = NoWrap
             \/ e.invites[i].wrap = d.invites[i].wrap /\ r.op # "remove"
             \/ r.op = "attach" /\ e.invites[i].wrap = [key |-> r.key, by |-> Owner]
  <2>1. CASE r.op = "remove"
    <3>1. e.invites[i] = [d.invites[i] EXCEPT !.wrap = NoWrap]
      BY <2>1 DEF InvitesAfter
    <3> QED
      BY <3>1, RowsOf DEF InviteRows
  <2>2. CASE r.op \in {"invite", "attach", "revoke", "accept", "decline"} /\ i = r.invite
    BY <2>2 DEF InvitesAfter
  <2>3. CASE e.invites[i] = d.invites[i] /\ r.op # "remove"
    BY <2>3
  <2> QED
    BY <2>1, <2>2, <2>3 DEF InvitesAfter
<1> QED
  BY <1>2, <1>3

LEMMA CommitRing ==
    ASSUME Types, NEW s \in Slots, Committed(s), Types', NEW p \in People
    PROVE  /\ ring'[p] \in {0, ring[p], db'.members[p].wrap.key}
           /\ p \in Leavers => ring'[p] = 0
           /\ p \notin Leavers => ring[p] <= ring'[p] /\ db'.members[p].wrap.key <= ring'[p]
           /\ db'.members[p].wrap.key \in Nat /\ ring'[p] \in Nat
<1>1. ring'[p] = IF p \in Leavers THEN 0 ELSE Largest({ring[p], db'.members[p].wrap.key})
  BY DEF Committed
<1>2. ring[p] \in Nat /\ db'.members[p].wrap.key \in Nat
  BY DEF Types, Whole, Rows, MemberRows, Wraps
<1>3. PICK a, b \in Nat : a = ring[p] /\ b = db'.members[p].wrap.key
  BY <1>2
<1>4. Largest({a, b}) = IF a <= b THEN b ELSE a
  BY LargestOf
<1> QED
  BY <1>1, <1>2, <1>3, <1>4

\* Who leaves, and what that exposes.
LEMMA CommitExposed ==
    ASSUME Types, NEW s \in Slots, Committed(s), ~raced', db'.space.in, exposed \in Nat
    PROVE  /\ request[s].op # "delete"
           /\ request[s].op # "remove" => Leavers = {} /\ exposed' = exposed
           /\ request[s].op = "remove" => db' # db /\ exposed' \in {exposed, ring[request[s].whom]} /\ request[s].whom \in People
           /\ exposed' \in Nat
<1>1. PICK r : r = request[s]
  OBVIOUS
<1>2. /\ r \in Requests /\ r.op \in Ops /\ Asked(r) /\ Found(r) /\ r.seen = db /\ r.stage \in {"read", "joined"}
      /\ db \in Rows /\ db' \in Rows /\ SpaceAfter(r, db, db')
      /\ MembersAfter(r, db, db') /\ InvitesAfter(r, db, db')
  BY <1>1, CalmCommit DEF Committed
<1>3. r.op # "delete"
  <2>1. db' # Deleted
    BY NoShapes
  <2> QED
    BY <1>2, <2>1 DEF SpaceAfter
<1>4. r.op = "distribute" => r.key # 0
  BY <1>2 DEF Found, Allowed, Settings
<1>5. \A p \in People : db.members[p].in /\ ~db'.members[p].in => r.op = "remove" /\ p = r.whom
  BY <1>2, <1>3, <1>4, WrapsFrom
<1>6. exposed' = Largest({exposed} \cup {ring[p] : p \in Leavers})
  BY DEF Committed
<1>7. Leavers \subseteq People
  BY DEF Leavers, Guests
<1>8. CASE r.op # "remove"
  <2>1. Leavers = {}
    BY <1>5, <1>8 DEF Leavers, Guests
  <2>2. {exposed} \cup {ring[p] : p \in Leavers} = {exposed, exposed}
    BY <2>1
  <2>3. Largest({exposed, exposed}) = exposed
    BY LargestOf
  <2> QED
    BY <1>1, <1>3, <1>6, <1>8, <2>1, <2>2, <2>3
<1>9. CASE r.op = "remove"
  <2>1. r.whom \in People /\ db.members[r.whom].in
    BY <1>2, <1>9 DEF Asked, Guests, Found, Allowed, Settings, may_remove
  <2>2. db' # db
    <3>1. db'.members[r.whom] = NoRow
      BY <1>2, <1>9, <2>1 DEF MembersAfter
    <3>2. ~db'.members[r.whom].in
      BY <3>1, NoShapes
    <3> QED
      BY <2>1, <3>2
  <2>3. ring[r.whom] \in Nat
    BY <2>1 DEF Types
  <2>4. CASE r.whom \in Leavers
    <3>1. {exposed} \cup {ring[p] : p \in Leavers} = {exposed, ring[r.whom]}
      <4>1. Leavers = {r.whom}
        BY <1>5, <2>4 DEF Leavers, Guests
      <4> QED
        BY <4>1
    <3>2. PICK a \in Nat : a = ring[r.whom]
      BY <2>3
    <3>3. Largest({exposed, a}) \in {exposed, a}
      BY LargestOf
    <3> QED
      BY <1>1, <1>3, <1>6, <1>9, <2>1, <2>2, <2>3, <3>1, <3>2, <3>3
  <2>5. CASE r.whom \notin Leavers
    <3>1. Leavers = {}
      BY <1>5, <2>5 DEF Leavers, Guests
    <3>2. {exposed} \cup {ring[p] : p \in Leavers} = {exposed, exposed}
      BY <3>1
    <3>3. Largest({exposed, exposed}) = exposed
      BY LargestOf
    <3> QED
      BY <1>1, <1>3, <1>6, <1>9, <2>1, <2>2, <3>2, <3>3
  <2> QED
    BY <2>4, <2>5
<1> QED
  BY <1>8, <1>9

\* A step that commits nothing leaves the invariant: no key changes hands.
LEMMA KeysWithoutCommit ==
    ASSUME Types, KeysInv, ~raced, db.space.in, db' = db, exposed' = exposed,
           ring' \in [People -> Nat],
           ring[Owner] <= ring'[Owner], \A p \in Guests : ring'[p] = ring[p],
           \A s \in Slots :
             \/ request'[s].op \notin Carrying
             \/ Like(request'[s], request[s])
             \/ /\ request'[s].key <= ring'[Owner]
                /\ request'[s].who = Owner => exposed < request'[s].key
                /\ request'[s].who # Owner => request'[s].key = ring[request'[s].who] /\ request'[s].who \in Guests
                /\ OwnersDistribution(request'[s]) /\ db.space.rekey # 0 =>
                     \A p \in People : db.members[p].in => p \in request'[s].rows
    PROVE  Held' /\ InFlight' /\ (db'.space.rekey = 0 /\ exposed' # 0 => Past')
<1>0. Held /\ InFlight /\ (db.space.rekey = 0 /\ exposed # 0 => Past)
  BY DEF KeysInv
<1>1. /\ \A p \in People : ring[p] \in Nat /\ db.members[p].wrap.key \in Nat /\ ring'[p] \in Nat
      /\ \A i \in Invites : db.invites[i].wrap.key \in Nat
      /\ \A s \in Slots : request[s].key \in Nat
      /\ exposed \in Nat /\ Owner \in People /\ \A p \in People : p = Owner \/ p \in Guests
      /\ Guests \subseteq People
  BY <1>0, SpacesConstants DEF Types, Whole, Rows, MemberRows, InviteRows, Wraps, Requests, Held, Guests
<1>2. Held'
  BY <1>0, <1>1 DEF Held
<1>3. InFlight'
  <2>1. ASSUME NEW s \in Slots, request'[s].op \in Carrying
        PROVE  request'[s].key <= ring'[Owner] /\ (request'[s].who = Owner => exposed < request'[s].key)
    <3>1. CASE Like(request'[s], request[s])
      BY <1>0, <1>1, <2>1, <3>1 DEF InFlight, Like
    <3>2. CASE ~Like(request'[s], request[s])
      BY <2>1, <3>2
    <3> QED
      BY <3>1, <3>2
  <2>2. ASSUME NEW s \in Slots, OwnersDistribution(request'[s]), db.space.rekey # 0, NEW p \in People, db.members[p].in
        PROVE  p \in request'[s].rows
    <3>0. request'[s].op \in Carrying
      BY <2>2 DEF OwnersDistribution, Carrying
    <3>1. CASE Like(request'[s], request[s])
      BY <1>0, <2>2, <3>1 DEF InFlight, Like, OwnersDistribution
    <3>2. CASE ~Like(request'[s], request[s])
      BY <2>2, <3>0, <3>2
    <3> QED
      BY <3>1, <3>2
  <2> QED
    BY <2>1, <2>2 DEF InFlight
<1>4. ASSUME db.space.rekey = 0, exposed # 0 PROVE Past'
  <2>1. Past
    BY <1>0, <1>4
  <2>2. ASSUME NEW s \in Slots, request'[s].op \in Carrying, request'[s].who # Owner
        PROVE  request'[s].key = 0 \/ exposed < request'[s].key
    <3>1. CASE Like(request'[s], request[s])
      BY <2>1, <2>2, <3>1 DEF Past, Like
    <3>2. CASE ~Like(request'[s], request[s])
      BY <2>1, <2>2, <3>2 DEF Past
    <3> QED
      BY <3>1, <3>2
  <2> QED
    BY <2>1, <2>2 DEF Past
<1> QED
  BY <1>2, <1>3, <1>4

LEMMA KeysCommit ==
    ASSUME Types, Types', KeysInv, NEW s \in Slots, Committed(s), ~raced', db'.space.in
    PROVE  Held' /\ InFlight' /\ (db'.space.rekey = 0 /\ exposed' # 0 => Past')
<1>1. PICK r : r = request[s]
  OBVIOUS
<1>2. /\ r \in Requests /\ r.op \in Ops /\ Asked(r) /\ Found(r) /\ r.seen = db /\ r.stage \in {"read", "joined"}
      /\ db \in Rows /\ db' \in Rows /\ SpaceAfter(r, db, db') /\ db.space.in /\ ~raced
      /\ MembersAfter(r, db, db') /\ InvitesAfter(r, db, db')
      /\ db' # db => \A o \in Slots \ {s} : request[o].op \notin Carrying
  BY <1>1, CalmCommit DEF Committed
<1>3. Held /\ InFlight /\ (db.space.rekey = 0 /\ exposed # 0 => Past)
  BY <1>2 DEF KeysInv
<1>4. /\ r.op # "delete"
      /\ r.op # "remove" => Leavers = {} /\ exposed' = exposed
      /\ r.op = "remove" => db' # db /\ exposed' \in {exposed, ring[r.whom]} /\ r.whom \in People
      /\ exposed' \in Nat
  BY <1>1, <1>3, CommitExposed DEF Held
<1>5. r.op = "distribute" => r.key # 0
  BY <1>2, <1>4 DEF Found, Allowed, Settings
<1>6. /\ \A p \in People :
           \/ db'.members[p].wrap \in {NoWrap, db.members[p].wrap}
           \/ r.op \in {"distribute", "approve"} /\ r.key # 0 /\ db'.members[p].wrap = [key |-> r.key, by |-> r.who]
           \/ \E i \in Invites : db'.members[p].wrap = db.invites[i].wrap
      /\ \A p \in People : db.members[p].in /\ ~db'.members[p].in => r.op = "remove" /\ p = r.whom
      /\ \A i \in Invites :
           \/ db'.invites[i].wrap = NoWrap
           \/ db'.invites[i].wrap = db.invites[i].wrap /\ r.op # "remove"
           \/ r.op = "attach" /\ db'.invites[i].wrap = [key |-> r.key, by |-> Owner]
  BY <1>2, <1>4, <1>5, WrapsFrom
<1>7. /\ \A p \in People : ring[p] \in Nat /\ db.members[p].wrap.key \in Nat
      /\ \A i \in Invites : db.invites[i].wrap.key \in Nat
      /\ r.key \in Nat /\ NoWrap.key = 0
      /\ exposed \in Nat /\ Owner \in People /\ \A p \in People : p = Owner \/ p \in Guests
      /\ Guests \subseteq People /\ Owner \notin Guests
  BY <1>2, <1>3, SpacesConstants DEF Types, Whole, Rows, MemberRows, InviteRows, Wraps, Requests, Held, Guests, NoWrap
<1>8. /\ r.op \in Carrying => r.key <= ring[Owner] /\ (r.who = Owner => exposed < r.key)
      /\ r.op = "attach" => r.who = Owner
  BY <1>1, <1>2, <1>3 DEF InFlight, Asked, OwnersOps
<1>9. \A p \in People : db'.members[p].wrap.key <= ring[Owner]
  BY <1>3, <1>6, <1>7, <1>8 DEF Held, Carrying
<1>10. /\ ring'[Owner] = ring[Owner]
       /\ \A p \in People : /\ ring'[p] \in {0, ring[p], db'.members[p].wrap.key}
                            /\ p \in Leavers => ring'[p] = 0
                            /\ p \notin Leavers => ring[p] <= ring'[p] /\ db'.members[p].wrap.key <= ring'[p]
                            /\ db'.members[p].wrap.key \in Nat /\ ring'[p] \in Nat
  <2>1. \A p \in People : /\ ring'[p] \in {0, ring[p], db'.members[p].wrap.key}
                          /\ p \in Leavers => ring'[p] = 0
                          /\ p \notin Leavers => ring[p] <= ring'[p] /\ db'.members[p].wrap.key <= ring'[p]
                          /\ db'.members[p].wrap.key \in Nat /\ ring'[p] \in Nat
    BY CommitRing
  <2>2. Owner \notin Leavers
    BY <1>7 DEF Leavers
  <2>3. ring'[Owner] = ring[Owner]
    BY <1>7, <1>9, <2>1, <2>2
  <2> QED
    BY <2>1, <2>3
<1>11. \A p \in Guests : ~db'.members[p].in => ring'[p] = 0 /\ db'.members[p].wrap = NoWrap
  <2>1. SUFFICES ASSUME NEW p \in Guests, ~db'.members[p].in PROVE ring'[p] = 0 /\ db'.members[p].wrap = NoWrap
    OBVIOUS
  <2>2. db'.members[p] = NoRow /\ p \in People
    BY <1>7, <2>1 DEF Types, Whole
  <2>3. db'.members[p].wrap = NoWrap
    BY <2>2, NoShapes
  <2>4. CASE db.members[p].in
    BY <1>10, <2>1, <2>2, <2>3, <2>4 DEF Leavers
  <2>5. CASE ~db.members[p].in
    BY <1>3, <1>7, <1>10, <2>2, <2>3, <2>5 DEF Held
  <2> QED
    BY <2>3, <2>4, <2>5
<1>12. Held'
  <2>1. exposed' <= ring'[Owner]
    BY <1>3, <1>4, <1>7, <1>10 DEF Held
  <2>2. \A p \in People : ring'[p] <= ring'[Owner] /\ db'.members[p].wrap.key <= ring'[Owner]
    BY <1>3, <1>7, <1>9, <1>10 DEF Held
  <2>3. \A i \in Invites : \/ db'.invites[i].wrap = NoWrap
                           \/ exposed' < db'.invites[i].wrap.key /\ db'.invites[i].wrap.key <= ring'[Owner]
    BY <1>3, <1>4, <1>6, <1>8, <1>10 DEF Held, Carrying
  <2> QED
    BY <1>4, <1>11, <2>1, <2>2, <2>3 DEF Held
<1>13. /\ \A o \in Slots \ {s} : request'[o] = request[o]
       /\ request'[s] = Idle \/ (Like(request'[s], r) /\ Joins(r))
  BY <1>1, CommittedFacts
<1>14. \A o \in Slots : request'[o].op \in Carrying =>
          /\ o = s => db' = db \/ r.op = "approve"
          /\ o # s => db' = db
          /\ Like(request'[o], request[o])
          /\ exposed' = exposed
  <2>1. ASSUME NEW o \in Slots, request'[o].op \in Carrying, o = s
        PROVE  (db' = db \/ r.op = "approve") /\ Like(request'[o], request[o]) /\ exposed' = exposed
    <3>1. Like(request'[s], r) /\ Joins(r) /\ r.op = "approve"
      BY <1>13, <2>1, IdleFields DEF Joins, Like, Carrying
    <3> QED
      BY <1>1, <1>4, <2>1, <3>1
  <2>2. ASSUME NEW o \in Slots, request'[o].op \in Carrying, o # s
        PROVE  db' = db /\ Like(request'[o], request[o]) /\ exposed' = exposed
    <3>1. request'[o] = request[o] /\ db' = db
      BY <1>2, <1>13, <2>2
    <3> QED
      BY <1>4, <3>1 DEF Like
  <2> QED
    BY <2>1, <2>2
<1>15. InFlight'
  <2>1. \A o \in Slots : request'[o].op \in Carrying =>
          request'[o].key <= ring'[Owner] /\ (request'[o].who = Owner => exposed' < request'[o].key)
    BY <1>3, <1>10, <1>14 DEF InFlight, Like
  <2>2. ASSUME NEW o \in Slots, OwnersDistribution(request'[o]), db'.space.rekey # 0, NEW p \in People, db'.members[p].in
        PROVE  p \in request'[o].rows
    <3>1. request'[o].op \in Carrying
      BY <2>2 DEF OwnersDistribution, Carrying
    <3>2. Like(request'[o], request[o]) /\ OwnersDistribution(request[o])
      BY <1>14, <2>2, <3>1 DEF OwnersDistribution, Like
    <3>3. db' = db
      BY <1>1, <1>14, <3>1, <3>2 DEF OwnersDistribution
    <3> QED
      BY <1>3, <2>2, <3>2, <3>3 DEF InFlight, Like
  <2> QED
    BY <2>1, <2>2 DEF InFlight
<1>16. ASSUME db'.space.rekey = 0, exposed' # 0 PROVE Past'
  <2>1. r.op # "remove"
    BY <1>2, <1>16 DEF SpaceAfter, Asked
  <2>2. exposed' = exposed /\ Leavers = {} /\ exposed # 0
    BY <1>4, <1>16, <2>1
  <2>3. CASE db.space.rekey = 0
    <3>1. Past
      BY <1>3, <2>2, <2>3
    <3>2. exposed < db'.space.fingerprint
      <4>1. CASE OwnersDistribution(r)
        BY <1>2, <1>8, <4>1 DEF SpaceAfter, OwnersDistribution, Carrying
      <4>2. CASE ~OwnersDistribution(r)
        BY <1>2, <1>4, <3>1, <4>2 DEF SpaceAfter, OwnersDistribution, Past
      <4> QED
        BY <4>1, <4>2
    <3>3. r.op \in Carrying => r.key = 0 \/ exposed < r.key
      BY <1>1, <1>8, <3>1 DEF Past
    <3>4. \A p \in Guests : db'.members[p].wrap = NoWrap \/ exposed < db'.members[p].wrap.key
      BY <1>3, <1>6, <1>7, <3>1, <3>3 DEF Held, Past, Carrying
    <3>5. \A p \in Guests : ring'[p] = 0 \/ exposed < ring'[p]
      BY <1>7, <1>10, <3>1, <3>4 DEF Past
    <3>6. \A o \in Slots : request'[o].op \in Carrying /\ request'[o].who # Owner =>
            request'[o].key = 0 \/ exposed < request'[o].key
      BY <1>14, <3>1 DEF Past, Like
    <3> QED
      BY <2>2, <3>2, <3>4, <3>5, <3>6 DEF Past
  <2>4. CASE db.space.rekey # 0
    <3>1. OwnersDistribution(r) /\ r.op = "distribute" /\ r.who = Owner /\ db' # db
      BY <1>2, <1>4, <1>16, <2>1, <2>4 DEF SpaceAfter, OwnersDistribution
    <3>2. exposed < r.key /\ \A p \in People : db.members[p].in => p \in r.rows
      BY <1>1, <1>3, <1>8, <2>4, <3>1 DEF InFlight, Carrying
    <3>3. exposed < db'.space.fingerprint
      BY <1>2, <3>1, <3>2 DEF SpaceAfter
    <3>4. ASSUME NEW p \in Guests PROVE db'.members[p].wrap = NoWrap \/ exposed < db'.members[p].wrap.key
      <4>1. CASE ~db'.members[p].in
        BY <1>11, <4>1
      <4>2. CASE db'.members[p].in
        <5>1. CASE db.members[p].in
          <6>1. db'.members[p] = [db.members[p] EXCEPT !.wrap = [key |-> r.key, by |-> r.who], !.wrapped_by = r.who]
            BY <1>2, <1>7, <3>1, <3>2, <5>1 DEF MembersAfter, MayWrite
          <6>2. db'.members[p].wrap = [key |-> r.key, by |-> r.who]
            BY <1>2, <1>7, <6>1, RowsOf DEF MemberRows
          <6> QED
            BY <3>2, <6>2
        <5>2. CASE ~db.members[p].in
          <6>1. db'.members[p] = db.members[p]
            BY <1>2, <1>7, <3>1, <5>2 DEF MembersAfter, MayWrite
          <6> QED
            BY <4>2, <5>2, <6>1
        <5> QED
          BY <5>1, <5>2
      <4> QED
        BY <4>1, <4>2
    <3>5. ASSUME NEW p \in Guests PROVE ring'[p] = 0 \/ exposed < ring'[p]
      <4>1. CASE ~db'.members[p].in
        BY <1>11, <4>1
      <4>2. CASE db'.members[p].in
        <5>1. db.members[p].in /\ p \in People
          BY <1>2, <1>7, <3>1, <4>2 DEF MembersAfter, MayWrite
        <5>2. db'.members[p] = [db.members[p] EXCEPT !.wrap = [key |-> r.key, by |-> r.who], !.wrapped_by = r.who]
          BY <1>2, <3>1, <3>2, <5>1 DEF MembersAfter, MayWrite
        <5>3. db'.members[p].wrap.key = r.key
          BY <1>2, <5>1, <5>2, RowsOf DEF MemberRows
        <5>4. r.key <= ring'[p] /\ ring'[p] \in Nat
          BY <1>10, <2>2, <5>1, <5>3
        <5> QED
          BY <1>7, <3>2, <5>4
      <4> QED
        BY <4>1, <4>2
    <3>6. \A o \in Slots : request'[o].op \notin Carrying
      BY <1>14, <3>1
    <3> QED
      BY <2>2, <3>3, <3>4, <3>5, <3>6 DEF Past
  <2> QED
    BY <2>3, <2>4
<1> QED
  BY <1>12, <1>15, <1>16

LEMMA KeysNext == Types /\ KeysInv /\ [Next]_vars => KeysInv'
<1> SUFFICES ASSUME Types, KeysInv, [Next]_vars, ~raced', db'.space.in
             PROVE  Held' /\ InFlight' /\ (db'.space.rekey = 0 /\ exposed' # 0 => Past')
  BY DEF KeysInv
<1>0. Types' /\ ~raced /\ (db' = db \/ \E s \in Slots : Committed(s))
  BY TypesNext, CalmStep
<1>1. /\ \A p \in People : ring[p] \in Nat
      /\ Owner \in People /\ Minted \in Nat /\ ring[Owner] <= Minted /\ ring \in [People -> Nat]
      /\ Owner \notin Guests /\ Guests \subseteq People
  BY KeysAreNumbers DEF Types, Guests
<1>2. ASSUME NEW r, NEW s \in Slots, Take(r, s)
      PROVE  Held' /\ InFlight' /\ (db'.space.rekey = 0 /\ exposed' # 0 => Past')
  <2>1. /\ db' = db /\ exposed' = exposed /\ db.space.in /\ ring' \in [People -> Nat]
        /\ ring[Owner] <= ring'[Owner] /\ \A p \in Guests : ring'[p] = ring[p]
    BY <1>1, <1>2 DEF Take
  <2>2. Held
    BY <1>0, <2>1 DEF KeysInv
  <2>3. exposed < Minted
    BY <1>1, <2>2 DEF Held, Minted
  <2>4. Like(request'[s], r) /\ \A t \in Slots \ {s} : request'[t] = request[t]
    BY <1>2, TakeFacts
  <2>5. ASSUME r.op \in Carrying
        PROVE  /\ r.key <= ring'[Owner]
               /\ r.who = Owner => exposed < r.key
               /\ r.who # Owner => r.key = ring[r.who] /\ r.who \in Guests
               /\ OwnersDistribution(r) /\ db.space.rekey # 0 => \A p \in People : db.members[p].in => p \in r.rows
    <3>1. r.who \in People
      BY <1>1, <1>2, <2>5 DEF Take, Callable, Asked, Carrying, OwnersOps
    <3>2. CASE r.who = Owner
      BY <1>1, <1>2, <2>3, <2>5, <3>2 DEF Take
    <3>3. CASE r.who # Owner
      <4>1. r.key = ring[r.who] /\ ring' = ring /\ r.who \in Guests
        BY <1>2, <2>5, <3>1, <3>3 DEF Take, Guests
      <4> QED
        BY <2>2, <3>1, <3>3, <4>1 DEF Held, OwnersDistribution
    <3> QED
      BY <3>2, <3>3
  <2>6. \A t \in Slots :
          \/ request'[t].op \notin Carrying
          \/ Like(request'[t], request[t])
          \/ /\ request'[t].key <= ring'[Owner]
             /\ request'[t].who = Owner => exposed < request'[t].key
             /\ request'[t].who # Owner => request'[t].key = ring[request'[t].who] /\ request'[t].who \in Guests
             /\ OwnersDistribution(request'[t]) /\ db.space.rekey # 0 =>
                  \A p \in People : db.members[p].in => p \in request'[t].rows
    BY <2>4, <2>5 DEF Like, OwnersDistribution
  <2> QED
    BY <1>0, <2>1, <2>6, KeysWithoutCommit
<1>3. ASSUME NEW s \in Slots, Reading(s) \/ Dropped(s)
      PROVE  Held' /\ InFlight' /\ (db'.space.rekey = 0 /\ exposed' # 0 => Past')
  <2>1. db' = db /\ exposed' = exposed /\ ring' = ring
    BY <1>3 DEF Reading, Dropped
  <2>2. /\ request'[s].op \notin Carrying \/ Like(request'[s], request[s])
        /\ \A t \in Slots \ {s} : request'[t] = request[t]
    BY <1>3, ReadingFacts, OtherSlots, IdleFields DEF Dropped
  <2>3. \A t \in Slots : request'[t].op \notin Carrying \/ Like(request'[t], request[t])
    BY <2>2 DEF Like
  <2> QED
    BY <1>0, <1>1, <2>1, <2>3, KeysWithoutCommit
<1>4. CASE db' = db /\ request' = request /\ ring' = ring /\ exposed' = exposed
  <2>1. \A t \in Slots : Like(request'[t], request[t])
    BY <1>4 DEF Like
  <2> QED
    BY <1>0, <1>1, <1>4, <2>1, KeysWithoutCommit
<1>5. ASSUME NEW s \in Slots, Committed(s)
      PROVE  Held' /\ InFlight' /\ (db'.space.rekey = 0 /\ exposed' # 0 => Past')
  BY <1>0, <1>5, KeysCommit
<1> QED
  BY <1>2, <1>3, <1>4, <1>5, Steps

LEMMA InitKeys == Init => KeysInv
<1> SUFFICES ASSUME Init PROVE Held /\ InFlight /\ exposed = 0
  BY DEF KeysInv
<1>1. PICK joined \in SUBSET Guests :
             /\ db.members = [p \in People |-> IF p \in joined \cup {Owner} THEN FirstRow(p) ELSE NoRow]
             /\ \A i \in Invites : db.invites[i].wrap \in {NoWrap, FirstWrap}
             /\ ring = [p \in People |-> IF p \in joined \cup {Owner} THEN 1 ELSE 0]
             /\ request = [s \in Slots |-> Idle] /\ exposed = 0
  BY InitShape
<1>2. /\ NoRow.wrap.key = 0 /\ FirstWrap.key = 1
      /\ \A p \in People : FirstRow(p).wrap = FirstWrap /\ FirstRow(p).in = TRUE
  BY DEF NoRow, NoWrap, FirstRow, FirstWrap
<1>3. InFlight
  BY <1>1, IdleFields DEF InFlight
<1>4. ring[Owner] = 1 /\ \A p \in People : ring[p] <= 1 /\ db.members[p].wrap.key <= 1
  BY <1>1, <1>2, SpacesConstants
<1>5. \A p \in Guests : ~db.members[p].in => ring[p] = 0
  BY <1>1, <1>2 DEF Guests
<1>6. \A i \in Invites : \/ db.invites[i].wrap = NoWrap
                         \/ exposed < db.invites[i].wrap.key /\ db.invites[i].wrap.key <= ring[Owner]
  BY <1>1, <1>2, <1>4
<1>7. Held
  <2>1. exposed \in Nat /\ exposed <= ring[Owner]
    BY <1>1, <1>4
  <2>2. \A p \in People : ring[p] <= ring[Owner] /\ db.members[p].wrap.key <= ring[Owner]
    BY <1>4
  <2> QED
    BY <1>5, <1>6, <2>1, <2>2 DEF Held
<1> QED
  BY <1>1, <1>3, <1>7

LEMMA KeysAlways == Spec => [](Types /\ KeysInv)
<1>1. Types /\ KeysInv /\ [Next]_vars => (Types /\ KeysInv)'
  BY TypesNext, KeysNext
<1> QED
  BY InitOwner, InitKeys, <1>1, PTL DEF Spec

-----------------------------------------------------------------------------
(* The rest of the types *)

\* Only a removal puts anybody out.
LEMMA LeaverIs ==
    ASSUME NEW r \in Requests, r.op \in Ops, r.op # "delete", NEW d \in Rows, NEW e \in Rows, MembersAfter(r, d, e),
           NEW p \in People, d.members[p].in, ~e.members[p].in
    PROVE  r.op = "remove" /\ p = r.whom
<1>1. d.members[p] \in MemberRows /\ e.members[p] # d.members[p]
  BY RowsOf
<1>2. CASE r.op = "share"
  <2>1. e.members[p] = Floorless(d.members[p])
    BY <1>2 DEF MembersAfter
  <2> QED
    BY <1>1, <2>1, FloorlessRow
<1>3. CASE r.op = "remove"
  <2>1. p = r.whom \/ e.members[p] = Keyless(d.members[p])
    BY <1>1, <1>3 DEF MembersAfter
  <2> QED
    BY <1>1, <1>3, <2>1, KeylessRow
<1>4. CASE r.op = "distribute"
  <2>1. e.members[p] = [d.members[p] EXCEPT !.wrap = [key |-> r.key, by |-> r.who], !.wrapped_by = r.who]
    BY <1>1, <1>4 DEF MembersAfter
  <2> QED
    BY <1>1, <2>1 DEF MemberRows
<1>5. CASE r.op \in {"accept", "approve"}
  <2>1. e.members[p] = NewRow(d, JoinWrap(r, d), JoinBy(r))
    BY <1>1, <1>5 DEF MembersAfter
  <2> QED
    BY <2>1 DEF NewRow
<1> QED
  BY <1>1, <1>2, <1>3, <1>4, <1>5 DEF MembersAfter

\* A commit puts out at most the one it removes, whatever has happened since it read.
LEMMA OneLeaves ==
    ASSUME Types, NEW s \in Slots, Committed(s), db'.space.in
    PROVE  \A p \in Leavers : request[s].op = "remove" /\ p = request[s].whom
<1> DEFINE r == request[s]
<1> DEFINE new == After(r, r.seen)
<1>1. /\ r \in Requests /\ r.op \in Ops /\ Asked(r) /\ r.seen \in Rows /\ new \in Rows /\ db \in Rows
      /\ MembersAfter(r, r.seen, new) /\ InvitesAfter(r, r.seen, new) /\ db' = Flushed(r.seen, new, db)
      /\ (r.op = "delete" => new = Deleted) /\ Deleted.space.in = FALSE
  BY Committing, NoShapes DEF Committed, Types, Whole
<1>2. new.space.in
  BY <1>1 DEF Flushed
<1>3. SUFFICES ASSUME NEW p \in People, db.members[p].in, ~db'.members[p].in PROVE r.op = "remove" /\ p = r.whom
  BY DEF Leavers, Guests
<1>4. db'.members[p] = ChangedRow(r.seen.members[p], new.members[p], db.members[p])
  BY <1>1, <1>2 DEF Flushed
<1>5. /\ r.seen.members[p] \in MemberRows /\ new.members[p] \in MemberRows /\ db.members[p] \in MemberRows
  BY <1>1, RowsOf
<1>6. PICK row : row = Changed(r.seen.members[p], new.members[p], db.members[p])
  OBVIOUS
<1>7. row.in = IF new.members[p].in # r.seen.members[p].in THEN new.members[p].in ELSE db.members[p].in
  BY <1>5, <1>6, MemberColumns
<1>8. ~row.in
  BY <1>3, <1>4, <1>6 DEF ChangedRow
<1>9. r.seen.members[p].in /\ ~new.members[p].in
  BY <1>3, <1>5, <1>7, <1>8 DEF MemberRows
<1> QED
  BY <1>1, <1>2, <1>9, LeaverIs

Bounded ==
    /\ exposed \in Nat /\ raced \in BOOLEAN /\ events \in 0..MaxEvents
    /\ \A s \in Slots : request[s].stage \in {"none", "sent"} => request[s].seen = None

LEMMA BoundedNext == Types /\ Bounded /\ [Next]_vars => Bounded'
<1> SUFFICES ASSUME Types, Bounded, [Next]_vars PROVE Bounded'
  OBVIOUS
<1>1. events' \in 0..MaxEvents
  <2>1. events' = events \/ (events < MaxEvents /\ events' = events + 1)
    <3>1. CASE Send
      BY <3>1 DEF Send
    <3>2. CASE Reconcile
      BY <3>2 DEF Reconcile
    <3>3. ASSUME NEW s \in Slots, Answer(s) PROVE events' = events \/ (events < MaxEvents /\ events' = events + 1)
      <4>1. CASE Read(s)
        BY <4>1 DEF Read
      <4>2. CASE Commit(s)
        BY <4>2 DEF Commit
      <4>3. CASE Fail(s)
        BY <4>3 DEF Fail
      <4> QED
        BY <3>3, <4>1, <4>2, <4>3 DEF Answer
    <3> QED
      BY <3>1, <3>2, <3>3 DEF Next, vars
  <2>2. events \in 0..MaxEvents /\ MaxEvents \in Nat
    BY SpacesConstants DEF Bounded
  <2> QED
    BY <2>1, <2>2
<1>2. Idle.seen = None
  BY DEF Idle
<1>3. ASSUME NEW r, NEW s \in Slots, Take(r, s) PROVE Bounded'
  <2>1. exposed' = exposed /\ raced' = raced
    BY <1>3 DEF Take
  <2>2. /\ request'[s].stage = IF r.op \in Carrying THEN "sent" ELSE "read"
        /\ request'[s].seen = IF r.op \in Carrying THEN None ELSE db
        /\ \A t \in Slots \ {s} : request'[t] = request[t]
    BY <1>3, TakeFacts
  <2>3. \A t \in Slots : request'[t].stage \in {"none", "sent"} => request'[t].seen = None
    BY <2>2 DEF Bounded
  <2> QED
    BY <1>1, <2>1, <2>3 DEF Bounded
<1>4. ASSUME NEW s \in Slots, Reading(s) \/ Dropped(s) PROVE Bounded'
  <2>1. exposed' = exposed /\ raced' = raced
    BY <1>4 DEF Reading, Dropped
  <2>2. /\ request'[s] = Idle \/ request'[s].stage = "read"
        /\ \A t \in Slots \ {s} : request'[t] = request[t]
    BY <1>4, ReadingFacts, OtherSlots DEF Dropped
  <2> QED
    BY <1>1, <1>2, <2>1, <2>2 DEF Bounded
<1>5. ASSUME NEW s \in Slots, Committed(s) PROVE Bounded'
  <2>1. /\ request'[s] = Idle \/ request'[s].stage = "joined"
        /\ \A t \in Slots \ {s} : request'[t] = request[t]
    BY <1>5, CommittedFacts
  <2>2. raced' \in BOOLEAN
    BY <1>5 DEF Committed
  <2>3. exposed' \in Nat
    <3>1. CASE ~db'.space.in
      BY <1>5, <3>1 DEF Committed, Bounded
    <3>2. CASE db'.space.in
      <4>1. \A p \in Leavers : p = request[s].whom /\ ring[p] \in Nat
        BY <1>5, <3>2, OneLeaves, KeysAreNumbers DEF Leavers, Guests
      <4>2. exposed' = Largest({exposed} \cup {ring[p] : p \in Leavers})
        BY <1>5, <3>2 DEF Committed
      <4>3. PICK a \in Nat : {exposed} \cup {ring[p] : p \in Leavers} = {exposed, a}
        <5>1. CASE Leavers = {}
          BY <5>1 DEF Bounded
        <5>2. ASSUME NEW q \in Leavers PROVE Leavers = {q} /\ ring[q] \in Nat
          BY <4>1, <5>2
        <5>3. ASSUME NEW q \in Leavers PROVE {exposed} \cup {ring[p] : p \in Leavers} = {exposed, ring[q]}
          BY <5>2, <5>3
        <5> QED
          BY <5>1, <5>2, <5>3
      <4>4. Largest({exposed, a}) \in Nat
        BY LargestOf DEF Bounded
      <4> QED
        BY <4>2, <4>3, <4>4
    <3> QED
      BY <3>1, <3>2
  <2> QED
    BY <1>1, <1>2, <2>1, <2>2, <2>3 DEF Bounded
<1>6. CASE request' = request /\ exposed' = exposed /\ raced' = raced
  BY <1>1, <1>6 DEF Bounded
<1> QED
  BY <1>3, <1>4, <1>5, <1>6, Steps

LEMMA InitBounded == Init => Bounded
<1> SUFFICES ASSUME Init PROVE Bounded
  OBVIOUS
<1>1. request = [s \in Slots |-> Idle] /\ exposed = 0 /\ raced = FALSE /\ events = 0
  BY DEF Init
<1>2. Idle.seen = None
  BY DEF Idle
<1>3. 0 \in 0..MaxEvents
  BY SpacesConstants
<1>4. \A s \in Slots : request[s].seen = None
  BY <1>1, <1>2
<1> QED
  BY <1>1, <1>3, <1>4 DEF Bounded

-----------------------------------------------------------------------------
(* Theorems *)

\* Every reachable state of a space is well typed, and nothing is left of a
\* membership that is gone, whatever overlaps.
THEOREM SpacesTypes == Spec => []TypeOK
<1>1. Types /\ Bounded /\ [Next]_vars => (Types /\ Bounded)'
  BY TypesNext, BoundedNext
<1>2. Types /\ Bounded => TypeOK
  <2> SUFFICES ASSUME Types, Bounded PROVE TypeOK
    OBVIOUS
  <2>1. Database = Rows
    BY DEF Database, Rows, SpaceRows, MemberRows, InviteRows, Wrap, Wraps, Somebody
  <2>2. \A s \in Slots : /\ request[s].stage \in {"none", "sent", "read", "joined"}
                         /\ request[s].stage \in {"read", "joined"} => request[s].seen \in Rows
    BY Committing DEF Types, Requests
  <2> QED
    BY <2>1, <2>2 DEF Types, Bounded, TypeOK, Whole
<1> QED
  BY InitOwner, InitBounded, <1>1, <1>2, PTL DEF Spec

\* The wrap that is the owner's only copy of the ring is never taken away,
\* never replaced by anyone else's and never by an older one, however many
\* departures, relays and joins are under way at once.
THEOREM OwnerKeepsRingHolds == Spec => OwnerKeepsRing
<1> DEFINE Kept ==
        db.members[Owner].wrap # NoWrap /\ db'.space.in =>
          db'.members[Owner].wrap.by = Owner /\ db'.members[Owner].wrap.key >= db.members[Owner].wrap.key
<1>1. Types /\ OwnerInv /\ [Next]_vars => Kept
  <2> SUFFICES ASSUME Types, OwnerInv, [Next]_vars, db'.space.in
               PROVE  /\ db'.members[Owner].wrap.by = Owner
                      /\ db'.members[Owner].wrap.key >= db.members[Owner].wrap.key
    OBVIOUS
  <2>0. db.members[Owner].wrap.key \in Nat /\ \A t \in Slots : request[t].key \in Nat
    BY KeysAreNumbers
  <2>1. CASE db' = db
    BY <2>0, <2>1 DEF OwnerInv, OwnersRow
  <2>2. ASSUME NEW s \in Slots, Committed(s)
        PROVE  /\ db'.members[Owner].wrap.by = Owner
               /\ db'.members[Owner].wrap.key >= db.members[Owner].wrap.key
    <3>1. /\ request[s].stage \in {"read", "joined"} /\ db.space.in
          /\ ~Refused(request[s].seen, After(request[s], request[s].seen), db)
          /\ db' = Flushed(request[s].seen, After(request[s], request[s].seen), db)
      BY <2>2 DEF Committed, Refused
    <3>2. \/ db'.members[Owner].wrap = db.members[Owner].wrap
          \/ /\ OwnersDistribution(request[s])
             /\ db'.members[Owner].wrap = [key |-> request[s].key, by |-> Owner]
      BY <3>1, OwnersWrap
    <3>3. /\ db.members[Owner].wrap.by = Owner
          /\ OwnersDistribution(request[s]) => db.members[Owner].wrap.key <= request[s].key
      BY <3>1 DEF OwnerInv, OwnersRow
    <3> QED
      BY <2>0, <3>2, <3>3
  <2> QED
    BY <2>1, <2>2, Steps DEF Take, Reading, Dropped
<1>2. Types /\ OwnerInv /\ [Next]_vars => [Kept]_vars
  BY <1>1
<1> QED
  BY OwnerAlways, <1>2, PTL DEF Spec, OwnerKeepsRing

\* Along every way a wrap gets into a row and out of it, the row says whose
\* public key opens it, when no two requests overlap on it.
THEOREM WrapperRecordedHolds == Spec => []WrapperRecorded
<1>1. CalmInv => WrapperRecorded
  BY DEF CalmInv, SignedRows, WrapperRecorded
<1> QED
  BY CalmAlways, <1>1, PTL

\* Under a policy that shares the history nobody has a floor, whoever joined
\* under which, unless somebody was joining while it was changed.
THEOREM FloorsFollowPolicyHolds == Spec => []FloorsFollowPolicy
<1>1. CalmInv => FloorsFollowPolicy
  BY DEF CalmInv, FloorRows, FloorsFollowPolicy
<1> QED
  BY CalmAlways, <1>1, PTL

\* A declined row stays declined through invites, approvals and departures,
\* unless two answers overlap.
THEOREM DeclinedStaysOutHolds == Spec => DeclinedStaysOut
<1> DEFINE Out == \A p \in Guests :
         ~raced' /\ db.knocks[p] = "declined" /\ db'.space.in => db'.knocks[p] = "declined"
<1>1. Types /\ [Next]_vars => Out
  <2> SUFFICES ASSUME Types, [Next]_vars, NEW p \in Guests, ~raced', db.knocks[p] = "declined", db'.space.in
               PROVE  db'.knocks[p] = "declined"
    OBVIOUS
  <2>1. CASE db' = db
    BY <2>1
  <2>2. ASSUME NEW s \in Slots, Committed(s) PROVE db'.knocks[p] = "declined"
    <3>1. PICK r : r = request[s]
      OBVIOUS
    <3>2. /\ Found(r) /\ Asked(r) /\ r.seen = db /\ KnocksAfter(r, db, db') /\ SpaceAfter(r, db, db')
          /\ db \in Rows /\ r.stage \in {"read", "joined"}
      BY <2>2, <3>1, CalmCommit DEF Committed
    <3>3. p \in People /\ db.knocks \in [People -> {"none", "pending", "approved", "declined"}]
      BY <3>2, RowsOf DEF Guests
    <3>4. r.op # "delete"
      <4>1. db' = Deleted => FALSE
        BY NoShapes
      <4> QED
        BY <3>2, <4>1 DEF SpaceAfter
    <3>5. CASE r.op = "knock"
      <4>1. db.knocks[r.who] # "declined"
        BY <3>2, <3>5 DEF Found, Allowed, Settings, may_knock
      <4> QED
        BY <3>2, <3>3, <3>5, <4>1 DEF KnocksAfter
    <3>6. CASE r.op = "approve"
      <4>1. db.knocks[r.whom] = "pending"
        BY <3>2, <3>6 DEF Found, Allowed, Settings, pending_row
      <4> QED
        BY <3>2, <3>3, <3>6, <4>1 DEF KnocksAfter
    <3>7. CASE r.op = "turn_down"
      BY <3>2, <3>3, <3>7 DEF KnocksAfter
    <3> QED
      BY <3>2, <3>4, <3>5, <3>6, <3>7 DEF KnocksAfter
  <2> QED
    BY <2>1, <2>2, CalmStep
<1>2. Types /\ OwnerInv /\ [Next]_vars => [Out]_vars
  BY <1>1
<1> QED
  BY OwnerAlways, <1>2, PTL DEF Spec, DeclinedStaysOut

\* When no rekey is owed, neither the space's key nor any that a member was
\* handed is one that somebody who has left holds, through memberships, invites
\* and approvals that carry wraps, while nothing commits under a wrap on its way.
THEOREM DepartedCannotReadHolds == Spec => []DepartedCannotRead
<1>1. Types /\ KeysInv => DepartedCannotRead
  <2> SUFFICES ASSUME Types, KeysInv, ~raced, db.space.in, db.space.rekey = 0, exposed # 0
               PROVE  /\ db.space.fingerprint > exposed
                      /\ \A p \in Guests : db.members[p].wrap # NoWrap => db.members[p].wrap.key > exposed
    BY DEF DepartedCannotRead
  <2>1. Past /\ exposed \in Nat
    BY DEF KeysInv, Held
  <2>2. db.space.fingerprint \in Nat /\ \A p \in Guests : db.members[p].wrap.key \in Nat
    BY DEF Types, Whole, Rows, SpaceRows, MemberRows, Wraps, Guests
  <2> QED
    BY <2>1, <2>2 DEF Past
<1> QED
  BY KeysAlways, <1>1, PTL
=============================================================================
