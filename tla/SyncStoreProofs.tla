--------------------------- MODULE SyncStoreProofs ---------------------------
(***************************************************************************)
(* Theorems about SyncStore for every value of its constants: any number   *)
(* of accounts, devices, spaces and entries, any caps and any bounds.      *)
(***************************************************************************)
EXTENDS SyncStore, FiniteSetTheorems, TLAPS

-----------------------------------------------------------------------------
(* Types *)

\* The row that stands for "no row" is a row.
LEMMA NoRowType == NoRow \in Row
BY StoreConstants DEF NoRow, Row

\* An idle device's record has the type of a transaction.
LEMMA NoPushType == NoPush \in PushTxn
BY StoreConstants, NoRowType DEF NoPush, PushTxn

\* A count of rows is a natural number: an account has finitely many keys.
LEMMA CountType == ASSUME NEW table, NEW state PROVE Count(table, state) \in Nat
<1>1. IsFiniteSet({k \in Keys : table[k].state = state})
  BY StoreConstants, FS_Subset
<1> QED BY <1>1, FS_CardinalityType DEF Count

\* A transaction sees a table of rows.
LEMMA OverlayType ==
    ASSUME NEW txn \in PushTxn, NEW table \in [Keys -> Row]
    PROVE  Overlay(txn, table) \in [Keys -> Row]
BY DEF Overlay, PushTxn

LEMMA ViewType == ASSUME TypeOK, NEW d \in Devices PROVE View(d) \in [Keys -> Row]
<1>1. push[d] \in PushTxn /\ DeviceUser[d] \in Users
  BY StoreConstants DEF TypeOK
<1>2. rows[DeviceUser[d]] \in [Keys -> Row]
  BY <1>1 DEF TypeOK
<1> QED BY <1>1, <1>2, OverlayType DEF View

\* What an entry becomes is a row.
LEMMA NewRowType ==
    ASSUME TypeOK, NEW d \in Devices, push[d].entry \in Entry
    PROVE  NewRow(d) \in Row
<1>1. push[d] \in PushTxn BY DEF TypeOK
<1>2. push[d].found \in Row
  BY <1>1 DEF PushTxn
<1>3. push[d].entry.key \in Keys /\ push[d].entry.updated \in 0..MaxStamp
      /\ push[d].entry.spaces \in SUBSET Spaces
  BY DEF Entry
<1>4. View(d)[push[d].entry.key] \in Row
  BY <1>3, ViewType
<1>5. push[d].stamp \in 0..MaxNow BY <1>1 DEF PushTxn
<1>6. Column(push[d].stamp, push[d].found.ts, View(d)[push[d].entry.key].ts) \in 0..MaxNow
  BY <1>4, <1>5 DEF Column, Row
<1>7. Column(push[d].entry.spaces, push[d].found.spaces, View(d)[push[d].entry.key].spaces)
        \in SUBSET Spaces
  BY <1>3, <1>4 DEF Column, Row
<1> QED BY <1>3, <1>6, <1>7 DEF NewRow, Row

LEMMA NewLeftType ==
    ASSUME TypeOK, NEW d \in Devices, push[d].entry \in Entry
    PROVE  NewLeft(push[d]) \in [Spaces -> [Keys -> 0..MaxNow]]
<1>1. push[d].left \in [Spaces -> [Keys -> 0..MaxNow]] BY DEF TypeOK, PushTxn
<1>2. push[d].stamp \in 0..MaxNow BY DEF TypeOK, PushTxn
<1> QED BY <1>1, <1>2 DEF NewLeft

\* An entry that is over leaves the transaction with what it had written.
LEMMA EndsType ==
    ASSUME NEW txn \in PushTxn
    PROVE  /\ Ends(txn) \in PushTxn /\ Ends(txn).pc = "open" /\ Ends(txn).stamp = 0
           /\ Ends(txn).live = txn.live /\ Ends(txn).tombstones = txn.tombstones
           /\ Ends(txn).written = txn.written /\ Ends(txn).left = txn.left
<1>1. 0 \in 0..MaxNow
  BY StoreConstants
<1>2. PICK row \in Row, none \in Entry \cup {None} : row = NoRow /\ none = None
  BY NoRowType
<1>3. Ends(txn) = [txn EXCEPT !.pc = "open", !.entry = none, !.found = row, !.stamp = 0]
  BY <1>2 DEF Ends
<1>4. "open" \in {"idle", "open", "found", "admitted", "stamped", "checked"}
  OBVIOUS
<1> QED BY <1>1, <1>2, <1>3, <1>4 DEF PushTxn

\* An entry goes on to its write, and only its stamp changes.
Ahead(d) == PushAdmit(d) \/ PushStamp(d) \/ PushCheck(d)

LEMMA AheadEffect ==
    ASSUME TypeOK, NEW d \in Devices, Ahead(d)
    PROVE  /\ push[d].pc \notin {"idle", "open"} /\ push'[d].pc \notin {"idle", "open", "found"}
           /\ push'[d] \in PushTxn /\ push'[d].stamp \in {now, push[d].stamp}
           /\ push'[d].entry = push[d].entry /\ push'[d].found = push[d].found
           /\ push'[d].live = push[d].live /\ push'[d].tombstones = push[d].tombstones
           /\ push'[d].written = push[d].written /\ push'[d].left = push[d].left
           /\ \A o \in Devices \ {d} : push'[o] = push[o]
           /\ UNCHANGED <<rows, removals, members, now, takedown, history, requests>>
<1>1. push[d] \in PushTxn /\ now \in 0..MaxNow
  BY StoreConstants DEF TypeOK
<1>2. PICK pc, stamp : /\ push' = [push EXCEPT ![d] = [push[d] EXCEPT !.pc = pc, !.stamp = stamp]]
                       /\ pc \in {"admitted", "stamped", "checked"} /\ stamp \in {now, push[d].stamp}
  <2>1. CASE PushStamp(d)
    BY <2>1 DEF PushStamp
  <2>2. CASE PushAdmit(d) \/ PushCheck(d)
    <3>1. PICK pc \in {"admitted", "checked"} : push' = [push EXCEPT ![d] = [push[d] EXCEPT !.pc = pc]]
      <4>1. CASE PushAdmit(d)
        BY <4>1 DEF PushAdmit
      <4>2. CASE PushCheck(d)
        BY <4>2 DEF PushCheck
      <4> QED BY <2>2, <4>1, <4>2
    <3>2. [push[d] EXCEPT !.pc = pc] = [push[d] EXCEPT !.pc = pc, !.stamp = push[d].stamp]
      BY <1>1 DEF PushTxn
    <3> QED BY <3>1, <3>2
  <2> QED BY <2>1, <2>2 DEF Ahead
<1>3. push' = [push EXCEPT ![d] = push'[d]] /\ push'[d] = [push[d] EXCEPT !.pc = pc, !.stamp = stamp]
  BY <1>2 DEF TypeOK
<1>4. push[d].pc \notin {"idle", "open"} /\ UNCHANGED <<rows, removals, members, now, takedown, history, requests>>
  BY DEF Ahead, PushAdmit, PushStamp, PushCheck
<1>5. \A o \in Devices \ {d} : push'[o] = push[o]
  BY <1>2 DEF TypeOK
<1>6. push'[d] \in PushTxn
  <2>1. pc \in {"idle", "open", "found", "admitted", "stamped", "checked"} /\ stamp \in 0..MaxNow
    BY <1>1, <1>2 DEF PushTxn
  <2> QED BY <1>1, <1>3, <2>1 DEF PushTxn
<1>7. /\ push'[d].pc = pc /\ push'[d].stamp = stamp
      /\ push'[d].entry = push[d].entry /\ push'[d].found = push[d].found
      /\ push'[d].live = push[d].live /\ push'[d].tombstones = push[d].tombstones
      /\ push'[d].written = push[d].written /\ push'[d].left = push[d].left
  BY <1>1, <1>3 DEF PushTxn
<1>8. push'[d].pc \notin {"idle", "open", "found"}
  BY <1>2, <1>7
<1> QED BY <1>2, <1>4, <1>5, <1>6, <1>7, <1>8

-----------------------------------------------------------------------------
(* Type correctness *)

\* The initial state has the types.
LEMMA InitType == Init => TypeOK
<1> SUFFICES ASSUME Init PROVE TypeOK
  OBVIOUS
<1>1. rows \in [Users -> [Keys -> Row]]
  BY NoRowType DEF Init
<1>2. members \in [Spaces -> SUBSET Users]
  BY StoreConstants DEF Init
<1>3. push \in [Devices -> PushTxn]
  BY NoPushType DEF Init
<1>7. \A d \in Devices : push[d].pc = "idle"
  BY DEF Init, NoPush
<1>4. takedown \in [Users -> Takedown \cup {None}]
  BY DEF Init
<1>5. removals \in [Spaces -> [Keys -> 0..MaxNow]] /\ now \in 1..MaxNow
      /\ requests \in 0..MaxRequests
  BY StoreConstants DEF Init
<1>6. overlapped \in BOOLEAN /\ stripped \subseteq Users \X Keys
  BY DEF Init
<1> QED BY <1>1, <1>2, <1>3, <1>4, <1>5, <1>6, <1>7 DEF TypeOK

LEMMA ArriveType ==
    ASSUME TypeOK, Arrive
    PROVE  requests' \in 0..MaxRequests /\ overlapped' \in BOOLEAN /\ stripped' \subseteq Users \X Keys
BY StoreConstants DEF TypeOK, Arrive, Busy

\* Each step of a push keeps the types.
LEMMA PushStepType ==
    ASSUME TypeOK, NEW d \in Devices, PushStep(d)
    PROVE  TypeOK'
<1> USE DEF TypeOK
<1>a. push[d] \in PushTxn /\ DeviceUser[d] \in Users
  BY StoreConstants
<1>b. NoPush.pc = "idle"
  BY DEF NoPush
<1>1. CASE PushBegin(d)
  <2>1. rows' = rows /\ removals' = removals /\ members' = members /\ now' = now
        /\ takedown' = takedown
    BY <1>1 DEF PushBegin
  <2>2. requests' \in 0..MaxRequests /\ overlapped' \in BOOLEAN /\ stripped' \subseteq Users \X Keys
    BY <1>1, ArriveType DEF PushBegin
  <2> DEFINE table == rows[DeviceUser[d]]
             begun == [NoPush EXCEPT !.pc = "open",
                          !.live = MaxLive - Count(table, "live"),
                          !.tombstones = TombstoneFactor * MaxLive - Count(table, "dead")]
  <2>3. begun \in PushTxn /\ begun.pc = "open"
    <3>1. MaxLive - Count(table, "live") \in Int
          /\ TombstoneFactor * MaxLive - Count(table, "dead") \in Int
      BY CountType, StoreConstants
    <3> QED BY <3>1, NoPushType DEF PushTxn, NoPush
  <2>4. push' = [push EXCEPT ![d] = begun]
    BY <1>1 DEF PushBegin
  <2> QED BY <2>1, <2>2, <2>3, <2>4
<1>2. ASSUME NEW e \in Entry, PushLookup(d, e) PROVE TypeOK'
  <2>1. View(d)[e.key] \in Row
    BY ViewType DEF Entry
  <2>2. push[d].count + 1 \in 0..MaxBatch
    BY <1>2, <1>a, StoreConstants DEF PushLookup, PushTxn
  <2> DEFINE looked == [push[d] EXCEPT !.pc = "found", !.count = push[d].count + 1,
                                       !.entry = e, !.found = View(d)[e.key]]
  <2>3. looked \in PushTxn /\ looked.entry \in Entry
    BY <1>a, <2>1, <2>2 DEF PushTxn
  <2>4. push' = [push EXCEPT ![d] = looked]
    BY <1>2 DEF PushLookup
  <2> QED BY <1>2, <2>3, <2>4 DEF PushLookup, history
<1>3. CASE PushRefuse(d)
  BY <1>3, <1>b, NoPushType DEF PushRefuse, Closed
<1>4. CASE PushConflict(d)
  <2>1. push' = [push EXCEPT ![d] = Ends(push[d])]
    BY <1>4 DEF PushConflict
  <2>2. Ends(push[d]) \in PushTxn /\ Ends(push[d]).pc = "open"
    BY <1>a, EndsType
  <2> QED BY <1>4, <2>1, <2>2 DEF PushConflict, history
<1>8. CASE Ahead(d)
  <2>1. \A o \in Devices : push'[o] = (IF o = d THEN push'[d] ELSE push[o])
    BY <1>8, AheadEffect
  <2>2. push' = [push EXCEPT ![d] = push'[d]]
    BY <1>8 DEF Ahead, PushAdmit, PushStamp, PushCheck
  <2> QED BY <1>8, <2>1, <2>2, AheadEffect DEF history
<1>5. CASE PushWrite(d)
  <2>1. push[d].entry \in Entry
    BY <1>5 DEF PushWrite
  <2>6. PICK over \in PushTxn : over = Ends(push[d]) /\ over.pc = "open"
    BY <1>a, EndsType
  <2>2. NewRow(d) \in Row /\ NewLeft(push[d]) \in [Spaces -> [Keys -> 0..MaxNow]]
    BY <2>1, NewRowType, NewLeftType
  <2>3. push[d].live - LiveTaken(push[d]) \in Int
        /\ push[d].tombstones - TombstonesTaken(push[d]) \in Int
    BY <1>a DEF LiveTaken, TombstonesTaken, PushTxn
  <2> DEFINE wrote ==
        [over EXCEPT
           !.live = push[d].live - LiveTaken(push[d]),
           !.tombstones = push[d].tombstones - TombstonesTaken(push[d]),
           !.written = [push[d].written EXCEPT ![push[d].entry.key] = NewRow(d)],
           !.left = NewLeft(push[d])]
  <2>4. wrote \in PushTxn /\ wrote.pc = "open"
    BY <1>a, <2>2, <2>3, <2>6 DEF PushTxn
  <2>5. push' = [push EXCEPT ![d] = wrote]
    BY <1>5, <2>6 DEF PushWrite
  <2> QED BY <1>5, <2>4, <2>5 DEF PushWrite, history
<1>6. CASE PushCommit(d)
  <2>1. rows' \in [Users -> [Keys -> Row]]
    BY <1>6, <1>a, ViewType DEF PushCommit
  <2>2. removals' \in [Spaces -> [Keys -> 0..MaxNow]]
    BY <1>6, <1>a DEF PushCommit, PushTxn
  <2>3. push' \in [Devices -> PushTxn]
    BY <1>6, NoPushType DEF PushCommit, Closed
  <2>4. \A o \in Devices : push'[o].pc \notin {"idle", "open"} => push'[o].entry \in Entry
    BY <1>6, <1>b DEF PushCommit, Closed
  <2>5. stripped' \subseteq Users \X Keys
    BY <1>6 DEF PushCommit, Closed
  <2> QED BY <1>6, <2>1, <2>2, <2>3, <2>4, <2>5 DEF PushCommit
<1>7. CASE PushAbort(d)
  BY <1>7, <1>b, NoPushType DEF PushAbort, Closed
<1> QED BY <1>1, <1>2, <1>3, <1>4, <1>5, <1>6, <1>7, <1>8 DEF PushStep, Ahead

\* Each step of a takedown keeps the types.
LEMMA TakedownStepType ==
    ASSUME TypeOK, NEW u \in Users, TakedownStep(u)
    PROVE  TypeOK'
<1> USE DEF TypeOK
<1>1. ASSUME NEW s \in Spaces, NEW k \in Keys, TakedownRead(u, s, k) PROVE TypeOK'
  <2> DEFINE read == [space |-> s, key |-> k, ts |-> now,
                      found |-> [o \in Users |-> IF o \in Strippable(u, s, k) THEN rows[o][k] ELSE NoRow]]
  <2>1. read \in Takedown
    BY NoRowType, StoreConstants DEF Takedown
  <2>2. takedown' = [takedown EXCEPT ![u] = read]
    BY <1>1 DEF TakedownRead
  <2>3. requests' \in 0..MaxRequests /\ overlapped' \in BOOLEAN /\ stripped' \subseteq Users \X Keys
    BY <1>1, ArriveType DEF TakedownRead
  <2> QED BY <1>1, <2>1, <2>2, <2>3 DEF TakedownRead
<1>2. CASE TakedownWrite(u)
  <2> DEFINE t == takedown[u]
  <2>1. t \in Takedown
    BY <1>2 DEF TakedownWrite
  <2>2. t.space \in Spaces /\ t.key \in Keys /\ t.ts \in 0..MaxNow /\ t.found \in [Users -> Row]
    BY <2>1 DEF Takedown
  <2>3. ASSUME NEW o \in Users
        PROVE  [rows[o][t.key] EXCEPT
                  !.spaces = t.found[o].spaces \ {t.space},
                  !.ts = Column(t.ts, t.found[o].ts, rows[o][t.key].ts)] \in Row
    <3>1. rows[o][t.key] \in Row /\ t.found[o] \in Row
      BY <2>2
    <3>2. Column(t.ts, t.found[o].ts, rows[o][t.key].ts) \in 0..MaxNow
      BY <2>2, <3>1 DEF Column, Row
    <3> QED BY <3>1, <3>2 DEF Row
  <2>4. rows' \in [Users -> [Keys -> Row]]
    BY <1>2, <2>2, <2>3 DEF TakedownWrite
  <2>5. removals' \in [Spaces -> [Keys -> 0..MaxNow]]
    BY <1>2, <2>2 DEF TakedownWrite
  <2>6. takedown' \in [Users -> Takedown \cup {None}]
    BY <1>2 DEF TakedownWrite
  <2>7. stripped' \subseteq Users \X Keys
    <3>1. \A row \in stripped' : row \in stripped \/ \E d \in Devices : row = <<DeviceUser[d], t.key>>
      BY <1>2 DEF TakedownWrite
    <3>2. \A d \in Devices : <<DeviceUser[d], t.key>> \in Users \X Keys
      BY <2>2, StoreConstants
    <3>3. stripped \subseteq Users \X Keys
      OBVIOUS
    <3> QED BY ONLY <3>1, <3>2, <3>3
  <2> QED BY <1>2, <2>4, <2>5, <2>6, <2>7 DEF TakedownWrite
<1>3. CASE TakedownAbort(u)
  BY <1>3 DEF TakedownAbort, history
<1> QED BY <1>1, <1>2, <1>3 DEF TakedownStep

\* So do changes of membership and the clock.
LEMMA OtherStepType ==
    ASSUME TypeOK, MembershipStep \/ Tick
    PROVE  TypeOK'
<1> USE DEF TypeOK
<1>1. ASSUME NEW u \in Users, NEW s \in Spaces, Join(u, s) PROVE TypeOK'
  BY <1>1 DEF Join, history
<1>2. ASSUME NEW u \in Users, NEW s \in Spaces, Leave(u, s) PROVE TypeOK'
  BY <1>2, ArriveType DEF Leave
<1>3. ASSUME NEW s \in Spaces, DeleteSpace(s) PROVE TypeOK'
  BY <1>3, ArriveType DEF DeleteSpace
<1>4. CASE Tick
  BY <1>4, StoreConstants DEF Tick, history
<1> QED BY <1>1, <1>2, <1>3, <1>4 DEF MembershipStep

LEMMA NextType == TypeOK /\ [Next]_vars => TypeOK'
<1> SUFFICES ASSUME TypeOK, [Next]_vars PROVE TypeOK'
  OBVIOUS
<1>1. CASE Next
  BY <1>1, PushStepType, TakedownStepType, OtherStepType DEF Next
<1>2. CASE UNCHANGED vars
  BY <1>2 DEF vars, history, TypeOK
<1> QED BY <1>1, <1>2

\* Type correctness of the entry store.
THEOREM SpecTypeOK == Spec => []TypeOK
BY InitType, NextType, PTL DEF Spec
-----------------------------------------------------------------------------
(* The live-row cap                                                        *)
(*                                                                         *)
(* LiveRowsCapped is not inductive: it needs that the budget an open push  *)
(* carries is honest (LiveRoomSafe), which needs that the row an entry was *)
(* looked up in is still in the state the lookup saw, which holds because  *)
(* the advisory lock leaves one open push per account and a takedown       *)
(* changes no row's state.                                                 *)

\* The advisory lock: an account has at most one push open.
Locked ==
    \A a, b \in Devices :
        DeviceUser[a] = DeviceUser[b] /\ push[a].pc # "idle" /\ push[b].pc # "idle" => a = b

\* What the push open on d knows of its account is true.
HonestPush(d) ==
    /\ push[d].pc \notin {"idle", "open"} => push[d].found.state = View(d)[push[d].entry.key].state
    /\ push[d].pc = "checked" => ~Full(push[d])
    /\ push[d].pc # "idle" =>
          push[d].live >= 0 /\ push[d].live <= MaxLive - Count(View(d), "live")

BudgetInv == TypeOK /\ Locked /\ (\A d \in Devices : HonestPush(d)) /\ LiveRowsCapped

\* Tables whose rows are in the same states have the same counts.
LEMMA CountSame ==
    ASSUME NEW old, NEW new, NEW state, \A k \in Keys : new[k].state = old[k].state
    PROVE  Count(new, state) = Count(old, state)
BY DEF Count

\* Writing one row adds at most one live row, and none to a row already live.
LEMMA CountWrite ==
    ASSUME NEW old, NEW new, NEW k \in Keys,
           \A j \in Keys \ {k} : new[j].state = old[j].state
    PROVE  /\ Count(new, "live") <= Count(old, "live") + 1
           /\ new[k].state = "live" => Count(new, "live") <= Count(old, "live")
                                      \/ old[k].state # "live"
           /\ new[k].state # "live" => Count(new, "live") <= Count(old, "live")
<1> DEFINE O == {j \in Keys : old[j].state = "live"}
           N == {j \in Keys : new[j].state = "live"}
<1>1. IsFiniteSet(O) /\ IsFiniteSet(N)
  BY StoreConstants, FS_Subset
<1>2. N \subseteq O \cup {k}
  OBVIOUS
<1>3. (old[k].state = "live" \/ new[k].state # "live") => N \subseteq O
  OBVIOUS
<1> HIDE DEF O, N
<1>4. Cardinality(O) \in Nat /\ Cardinality(N) \in Nat
  BY <1>1, FS_CardinalityType
<1>5. IsFiniteSet(O \cup {k})
      /\ (Cardinality(O \cup {k}) = Cardinality(O) \/ Cardinality(O \cup {k}) = Cardinality(O) + 1)
  BY <1>1, FS_AddElement
<1>6. Cardinality(N) <= Cardinality(O \cup {k})
  BY <1>2, <1>5, FS_Subset
<1>7. N \subseteq O => Cardinality(N) <= Cardinality(O)
  BY <1>1, FS_Subset
<1>8. Count(new, "live") = Cardinality(N) /\ Count(old, "live") = Cardinality(O)
  BY DEF Count, O, N
<1> QED BY <1>3, <1>4, <1>5, <1>6, <1>7, <1>8

\* A push another step does not touch stays honest while its account's rows
\* keep their states.
LEMMA HonestKept ==
    ASSUME TypeOK, NEW d \in Devices, HonestPush(d), push'[d] = push[d],
           push[d].pc = "idle"
             \/ \A k \in Keys : rows'[DeviceUser[d]][k].state = rows[DeviceUser[d]][k].state
    PROVE  HonestPush(d)'
<1>1. CASE push[d].pc = "idle"
  BY <1>1 DEF HonestPush
<1>2. CASE push[d].pc # "idle"
  <2>1. \A k \in Keys : View(d)'[k].state = View(d)[k].state
    BY <1>2 DEF View, Overlay
  <2>2. Count(View(d)', "live") = Count(View(d), "live")
    BY <2>1, CountSame
  <2>3. Count(View(d), "live")' = Count(View(d)', "live")
    BY DEF Count
  <2>4. push[d].pc \notin {"idle", "open"} => push[d].entry.key \in Keys
    BY DEF TypeOK, Entry
  <2>5. Full(push[d])' <=> Full(push[d])
    BY DEF Full, Inserts, Revives
  <2> QED BY <2>1, <2>2, <2>3, <2>4, <2>5 DEF HonestPush
<1> QED BY <1>1, <1>2

\* Every step that leaves the pushes and the states of the rows alone keeps
\* the invariant: takedowns, membership changes and the clock.
LEMMA BudgetKept ==
    ASSUME BudgetInv, TypeOK', push' = push,
           \A u \in Users, k \in Keys : rows'[u][k].state = rows[u][k].state
    PROVE  BudgetInv'
<1>1. \A d \in Devices : DeviceUser[d] \in Users
  BY StoreConstants
<1>2. \A d \in Devices : HonestPush(d)'
  BY <1>1, HonestKept DEF BudgetInv
<1>3. Locked'
  BY DEF BudgetInv, Locked
<1>4. LiveRowsCapped'
  BY CountSame DEF BudgetInv, LiveRowsCapped
<1> QED BY <1>2, <1>3, <1>4 DEF BudgetInv

\* A takedown changes no row's state.
LEMMA TakedownKeepsStates ==
    ASSUME TypeOK, NEW v \in Users, TakedownStep(v), NEW u \in Users, NEW k \in Keys
    PROVE  rows'[u][k].state = rows[u][k].state
<1>1. CASE TakedownWrite(v)
  <2>1. rows[u][k] \in Row
    BY DEF TypeOK
  <2> QED BY <1>1, <2>1 DEF TakedownWrite, TypeOK, Row
<1>2. CASE TakedownAbort(v)
  BY <1>2 DEF TakedownAbort
<1>3. ASSUME NEW s \in Spaces, NEW j \in Keys, TakedownRead(v, s, j)
      PROVE  rows' = rows
  BY <1>3 DEF TakedownRead
<1> QED BY <1>1, <1>2, <1>3 DEF TakedownStep

\* A step of d's push keeps the other devices' pushes honest: the lock gives d
\* its account's rows to itself.
LEMMA OthersHonest ==
    ASSUME BudgetInv, NEW d \in Devices, NEW o \in Devices \ {d}, PushStep(d)
    PROVE  HonestPush(o)'
<1>1. TypeOK /\ Locked /\ HonestPush(o)
  BY DEF BudgetInv
<1>2. push'[o] = push[o]
  BY <1>1 DEF PushStep, PushBegin, PushLookup, PushRefuse, PushAdmit, PushStamp, PushCheck, PushConflict,
              PushWrite, PushCommit, PushAbort, Closed, TypeOK
<1>3. CASE PushCommit(d)
  <2>1. push[o].pc = "idle" \/ DeviceUser[o] # DeviceUser[d]
    BY <1>1, <1>3 DEF Locked, PushCommit
  <2>2. DeviceUser[o] # DeviceUser[d] => rows'[DeviceUser[o]] = rows[DeviceUser[o]]
    BY <1>1, <1>3, StoreConstants DEF PushCommit, TypeOK
  <2> QED BY <1>1, <1>2, <2>1, <2>2, HonestKept
<1>4. CASE ~PushCommit(d)
  <2>1. rows' = rows
    BY <1>4 DEF PushStep, PushBegin, PushLookup, PushRefuse, PushAdmit, PushStamp, PushCheck,
                      PushConflict, PushWrite, PushAbort
  <2> QED BY <1>1, <1>2, <2>1, HonestKept
<1> QED BY <1>3, <1>4

\* A step of d's push keeps the lock.
LEMMA StepLocked ==
    ASSUME TypeOK, Locked, NEW d \in Devices, PushStep(d)
    PROVE  Locked'
<1>1. \A o \in Devices \ {d} : push'[o] = push[o]
  BY DEF PushStep, PushBegin, PushLookup, PushRefuse, PushAdmit, PushStamp, PushCheck, PushConflict,
              PushWrite, PushCommit, PushAbort, Closed, TypeOK
<1>2. CASE PushBegin(d)
  BY <1>1, <1>2 DEF PushBegin, LockFree, Locked
<1>3. CASE ~PushBegin(d)
  <2>1. push'[d].pc = "idle" \/ push[d].pc # "idle"
    BY <1>3 DEF PushStep, PushLookup, PushRefuse, PushAdmit, PushStamp, PushCheck, PushConflict,
                PushWrite, PushCommit, PushAbort
  <2> QED BY <1>1, <2>1 DEF Locked
<1> QED BY <1>2, <1>3

\* Taking the lock counts the rows the push then sees.
LEMMA BeginHonest ==
    ASSUME BudgetInv, NEW d \in Devices, PushBegin(d)
    PROVE  HonestPush(d)'
<1>1. TypeOK /\ LiveRowsCapped /\ DeviceUser[d] \in Users
  BY StoreConstants DEF BudgetInv
<1> DEFINE table == rows[DeviceUser[d]]
<1>2. push'[d].pc = "open" /\ push'[d].live = MaxLive - Count(table, "live")
      /\ push'[d].written = [k \in Keys |-> NoRow] /\ rows' = rows
  BY <1>1 DEF PushBegin, TypeOK, NoPush
<1>3. \A k \in Keys : View(d)'[k].state = table[k].state
  BY <1>2 DEF View, Overlay, NoRow
<1>4. Count(View(d), "live")' = Count(table, "live")
  BY <1>3 DEF Count
<1>5. Count(table, "live") \in Nat /\ Count(table, "live") <= MaxLive
  BY <1>1, CountType DEF LiveRowsCapped
<1> QED BY <1>2, <1>4, <1>5, StoreConstants DEF HonestPush

\* A lookup remembers the row as the push sees it, and a conflict writes
\* nothing: neither changes the view or the budget.
LEMMA LookupHonest ==
    ASSUME BudgetInv, NEW d \in Devices, NEW e \in Entry, PushLookup(d, e)
    PROVE  HonestPush(d)'
<1>1. TypeOK /\ HonestPush(d)
  BY DEF BudgetInv
<1>2. /\ push[d].pc = "open" /\ push'[d].pc = "found" /\ push'[d].entry = e
      /\ push'[d].found = View(d)[e.key] /\ push'[d].live = push[d].live
      /\ push'[d].written = push[d].written /\ rows' = rows
  BY <1>1 DEF PushLookup, TypeOK, PushTxn
<1>3. View(d)' = View(d)
  BY <1>2 DEF View, Overlay
<1> QED BY <1>1, <1>2, <1>3 DEF HonestPush, Count

LEMMA ConflictHonest ==
    ASSUME BudgetInv, NEW d \in Devices, PushConflict(d)
    PROVE  HonestPush(d)'
<1>1. TypeOK /\ HonestPush(d)
  BY DEF BudgetInv
<1>2. /\ push[d].pc # "idle" /\ push'[d].pc = "open" /\ push'[d].live = push[d].live
      /\ push'[d].written = push[d].written /\ rows' = rows
  BY <1>1, EndsType DEF PushConflict, TypeOK
<1>3. View(d)' = View(d)
  BY <1>2 DEF View, Overlay
<1> QED BY <1>1, <1>2, <1>3 DEF HonestPush, Count

LEMMA AheadHonest ==
    ASSUME BudgetInv, NEW d \in Devices, Ahead(d)
    PROVE  HonestPush(d)'
<1>1. TypeOK /\ HonestPush(d)
  BY DEF BudgetInv
<1>2. View(d)' = View(d)
  BY <1>1, AheadEffect DEF View, Overlay
<1>3. push'[d].pc = "checked" => PushCheck(d)
  BY <1>1 DEF Ahead, PushAdmit, PushStamp, TypeOK, PushTxn
<1>4. Full(push[d])' <=> Full(push[d])
  BY <1>1, AheadEffect DEF Full, Inserts, Revives
<1>5. push'[d].pc = "checked" => ~Full(push[d])'
  BY <1>3, <1>4 DEF PushCheck
<1>6. /\ push[d].found.state = View(d)[push[d].entry.key].state
      /\ push[d].live >= 0 /\ push[d].live <= MaxLive - Count(View(d), "live")
  BY <1>1, AheadEffect DEF HonestPush
<1>7. /\ push'[d].entry = push[d].entry /\ push'[d].found = push[d].found
      /\ push'[d].live = push[d].live
  BY <1>1, AheadEffect
<1> QED BY <1>2, <1>5, <1>6, <1>7 DEF HonestPush, Count

\* A write charges the budget for every live row it adds.
LEMMA WriteHonest ==
    ASSUME BudgetInv, NEW d \in Devices, PushWrite(d)
    PROVE  HonestPush(d)'
<1> DEFINE txn == push[d]
           k == txn.entry.key
<1>1. TypeOK /\ HonestPush(d)
  BY DEF BudgetInv
<1>2. txn \in PushTxn /\ txn.entry \in Entry /\ k \in Keys
  BY <1>1 DEF PushWrite, TypeOK, Entry
<1>3. /\ push'[d].pc = "open" /\ push'[d].live = txn.live - LiveTaken(txn)
      /\ push'[d].written = [txn.written EXCEPT ![k] = NewRow(d)] /\ rows' = rows
  <2>1. PICK over \in PushTxn : over = Ends(txn) /\ over.pc = "open"
    BY <1>2, EndsType
  <2> QED BY <1>1, <1>2, <2>1 DEF PushWrite, TypeOK, PushTxn
<1>4. NewRow(d).state = (IF txn.entry.dead THEN "dead" ELSE "live")
  BY DEF NewRow
<1>5. View(d)'[k].state = NewRow(d).state
  BY <1>2, <1>3, <1>4 DEF View, Overlay, PushTxn
<1>6. \A j \in Keys \ {k} : View(d)'[j].state = View(d)[j].state
  BY <1>2, <1>3 DEF View, Overlay, PushTxn
<1>7. txn.found.state = View(d)[k].state /\ txn.live >= 0
      /\ txn.live <= MaxLive - Count(View(d), "live")
  BY <1>1 DEF HonestPush, PushWrite
<1>15. ~Full(txn)
  BY <1>1 DEF HonestPush, PushWrite
<1>8. /\ Count(View(d)', "live") <= Count(View(d), "live") + 1
      /\ NewRow(d).state = "live" => Count(View(d)', "live") <= Count(View(d), "live")
                                     \/ View(d)[k].state # "live"
      /\ NewRow(d).state # "live" => Count(View(d)', "live") <= Count(View(d), "live")
  BY <1>2, <1>5, <1>6, CountWrite
<1>9. txn.found.state \in {"absent", "live", "dead"} /\ txn.entry.dead \in BOOLEAN
      /\ txn.live \in Int /\ MaxLive \in Int
  BY <1>2, StoreConstants DEF PushTxn, Row, Entry
<1>10. Count(View(d)', "live") \in Nat /\ Count(View(d), "live") \in Nat
  BY CountType
<1>11. Count(View(d), "live")' = Count(View(d)', "live")
  BY DEF Count
<1>12. Count(View(d)', "live") <= Count(View(d), "live") + LiveTaken(txn)
       /\ LiveTaken(txn) \in {0, 1}
  <2>1. CASE txn.entry.dead
    BY <1>4, <1>8, <1>10, <2>1 DEF LiveTaken
  <2>2. CASE ~txn.entry.dead /\ txn.found.state = "live"
    BY <1>4, <1>7, <1>8, <1>10, <2>2 DEF LiveTaken, Inserts, Revives
  <2>3. CASE ~txn.entry.dead /\ txn.found.state # "live"
    BY <1>8, <1>9, <1>10, <2>3 DEF LiveTaken, Inserts, Revives
  <2> QED BY <1>9, <2>1, <2>2, <2>3
<1>13. LiveTaken(txn) = 1 => txn.live >= 1
  BY <1>9, <1>15 DEF LiveTaken, Full
<1>14. push'[d].live >= 0 /\ push'[d].live <= MaxLive - Count(View(d), "live")'
  BY <1>3, <1>7, <1>9, <1>10, <1>11, <1>12, <1>13
<1> QED BY <1>3, <1>14 DEF HonestPush

\* Committing shows everyone what the push saw, which its budget bounds.
LEMMA CommitCapped ==
    ASSUME BudgetInv, NEW d \in Devices, PushCommit(d)
    PROVE  LiveRowsCapped'
<1>1. TypeOK /\ HonestPush(d) /\ LiveRowsCapped /\ DeviceUser[d] \in Users
  BY StoreConstants DEF BudgetInv
<1>2. rows' = [rows EXCEPT ![DeviceUser[d]] = View(d)]
  BY DEF PushCommit
<1>3. Count(View(d), "live") <= MaxLive
  <2>1. push[d].live \in Int /\ push[d].live >= 0
        /\ push[d].live <= MaxLive - Count(View(d), "live")
    BY <1>1 DEF PushCommit, HonestPush, TypeOK, PushTxn
  <2>2. Count(View(d), "live") \in Nat
    BY CountType
  <2> QED BY <2>1, <2>2, StoreConstants
<1>4. ASSUME NEW u \in Users PROVE Count(rows'[u], "live") <= MaxLive
  <2>1. CASE u = DeviceUser[d]
    BY <1>1, <1>2, <1>3, <2>1 DEF TypeOK
  <2>2. CASE u # DeviceUser[d]
    BY <1>1, <1>2, <2>2 DEF TypeOK, LiveRowsCapped
  <2> QED BY <2>1, <2>2
<1>5. \A u \in Users : Count(rows[u], "live")' = Count(rows'[u], "live")
  BY DEF Count
<1> QED BY <1>4, <1>5 DEF LiveRowsCapped

\* Each step of a push keeps the invariant.
LEMMA PushStepBudget ==
    ASSUME BudgetInv, NEW d \in Devices, PushStep(d)
    PROVE  BudgetInv'
<1>1. TypeOK /\ LiveRowsCapped
  BY DEF BudgetInv
<1>2. TypeOK'
  BY <1>1, PushStepType
<1>3. Locked'
  BY StepLocked DEF BudgetInv
<1>4. HonestPush(d)'
  <2>1. CASE PushRefuse(d) \/ PushCommit(d) \/ PushAbort(d)
    <3>1. push'[d].pc = "idle"
      BY <1>1, <2>1 DEF PushRefuse, PushCommit, PushAbort, Closed, TypeOK, NoPush
    <3> QED BY <3>1 DEF HonestPush
  <2> QED BY <2>1, BeginHonest, LookupHonest, AheadHonest, ConflictHonest, WriteHonest DEF PushStep, Ahead
<1>5. LiveRowsCapped'
  <2>1. CASE PushCommit(d)
    BY <2>1, CommitCapped
  <2>2. CASE ~PushCommit(d)
    <3>1. rows' = rows
      BY <2>2 DEF PushStep, PushBegin, PushLookup, PushRefuse, PushAdmit, PushStamp, PushCheck,
                      PushConflict, PushWrite, PushAbort
    <3> QED BY <1>1, <3>1 DEF LiveRowsCapped, Count
  <2> QED BY <2>1, <2>2
<1> QED BY <1>2, <1>3, <1>4, <1>5, OthersHonest DEF BudgetInv

LEMMA InitBudget == Init => BudgetInv
<1> SUFFICES ASSUME Init PROVE BudgetInv
  OBVIOUS
<1>1. \A d \in Devices : push[d].pc = "idle"
  BY DEF Init, NoPush
<1>2. ASSUME NEW u \in Users PROVE Count(rows[u], "live") <= MaxLive
  <2>1. {k \in Keys : rows[u][k].state = "live"} = {}
    BY DEF Init, NoRow
  <2>2. Count(rows[u], "live") = 0
    BY <2>1, FS_EmptySet DEF Count
  <2> QED BY <2>2, StoreConstants
<1> QED BY <1>1, <1>2, InitType DEF BudgetInv, Locked, HonestPush, LiveRowsCapped

LEMMA NextBudget == BudgetInv /\ [Next]_vars => BudgetInv'
<1> SUFFICES ASSUME BudgetInv, [Next]_vars PROVE BudgetInv'
  OBVIOUS
<1>1. TypeOK /\ TypeOK'
  BY NextType DEF BudgetInv
<1>2. ASSUME NEW u \in Users, TakedownStep(u) PROVE BudgetInv'
  <2>1. push' = push
    BY <1>2 DEF TakedownStep, TakedownRead, TakedownWrite, TakedownAbort
  <2> QED BY <1>1, <1>2, <2>1, TakedownKeepsStates, BudgetKept
<1>3. CASE MembershipStep \/ Tick \/ UNCHANGED vars
  <2>1. push' = push /\ rows' = rows
    BY <1>3 DEF MembershipStep, Join, Leave, DeleteSpace, Tick, vars
  <2> QED BY <1>1, <2>1, BudgetKept
<1> QED BY <1>2, <1>3, PushStepBudget DEF Next

\* However many accounts, devices and entries there are, and whatever the cap:
\* no interleaving of pushes, takedowns and departures takes an account past
\* max_entries_per_user live rows.
THEOREM SpecLiveRowsCapped == Spec => []LiveRowsCapped
<1>1. BudgetInv => LiveRowsCapped
  BY DEF BudgetInv
<1> QED BY <1>1, InitBudget, NextBudget, PTL DEF Spec

\* The live budget of an open push never promises more than a fresh count would.
THEOREM SpecLiveRoomSafe == Spec => []LiveRoomSafe
<1>1. BudgetInv => LiveRoomSafe
  BY DEF BudgetInv, HonestPush, LiveRoomSafe
<1> QED BY <1>1, InitBudget, NextBudget, PTL DEF Spec

-----------------------------------------------------------------------------
(***************************************************************************)
(* PushNeverRewinds holds in every interleaving; OneAuthorPerSpace,        *)
(* RowNotOlderThanRemoval, MembersOnly and LeavingIsRecorded hold while no *)
(* two transactions have overlapped, which is exactly what the code's      *)
(* reads before writes assume.                                             *)
(***************************************************************************)

\* The state a push or a takedown leaves alone.
LEMMA PushFrame ==
    ASSUME TypeOK, NEW d \in Devices, PushStep(d)
    PROVE  /\ members' = members /\ now' = now /\ takedown' = takedown
           /\ \A o \in Devices \ {d} : push'[o] = push[o]
           /\ ~PushBegin(d) => overlapped' = overlapped
           /\ ~PushCommit(d) => rows' = rows /\ removals' = removals
BY DEF PushStep, PushBegin, PushLookup, PushRefuse, PushAdmit, PushStamp, PushCheck, PushConflict,
       PushWrite, PushCommit, PushAbort, Closed, TypeOK, history

LEMMA TakedownFrame ==
    ASSUME TypeOK, NEW u \in Users, TakedownStep(u)
    PROVE  /\ members' = members /\ now' = now /\ push' = push
           /\ \A v \in Users \ {u} : takedown'[v] = takedown[v]
           /\ takedown[u] # None => overlapped' = overlapped
           /\ ~TakedownWrite(u) => rows' = rows /\ removals' = removals
BY DEF TakedownStep, TakedownRead, TakedownWrite, TakedownAbort, TypeOK, history

LEMMA OtherFrame ==
    ASSUME MembershipStep \/ Tick \/ UNCHANGED vars
    PROVE  /\ rows' = rows /\ removals' = removals /\ push' = push /\ takedown' = takedown
           /\ stripped' = stripped
BY DEF MembershipStep, Join, Leave, DeleteSpace, Arrive, Tick, vars, history

-----------------------------------------------------------------------------
(* Stamps *)

\* Nothing is stamped in the future.
Clock ==
    /\ \A u \in Users, k \in Keys : rows[u][k].ts <= now
    /\ \A s \in Spaces, k \in Keys : removals[s][k] <= now
    /\ \A d \in Devices : push[d].stamp <= now
    /\ \A d \in Devices, k \in Keys : push[d].written[k].ts <= now
    /\ \A d \in Devices, s \in Spaces, k \in Keys : push[d].left[s][k] <= now
    /\ \A u \in Users : takedown[u] # None => takedown[u].ts >= 1 /\ takedown[u].ts <= now

\* Unless a takedown came in between, a row a push has written, or has its stamp for, is
\* not stamped before the committed one.
Forward ==
    \A d \in Devices, k \in Keys :
        /\ push[d].written[k].state # "absent" => push[d].pc # "idle"
        /\ <<DeviceUser[d], k>> \notin stripped =>
             /\ push[d].written[k].state # "absent" => push[d].written[k].ts >= rows[DeviceUser[d]][k].ts
             /\ Stamped(push[d]) /\ push[d].entry.key = k => push[d].stamp >= rows[DeviceUser[d]][k].ts

StampInv == TypeOK /\ Locked /\ Clock /\ Forward

LEMMA InitStamp == Init => StampInv
<1> SUFFICES ASSUME Init PROVE StampInv
  OBVIOUS
<1>1. Locked
  BY DEF Init, NoPush, Locked
<1>2. Clock
  BY DEF Init, NoPush, NoRow, Clock
<1>3. Forward
  BY DEF Init, NoPush, NoRow, Forward, Stamped
<1> QED BY <1>1, <1>2, <1>3, InitType DEF StampInv

\* A row about to be written has the push's stamp, or the one it replaces.
LEMMA NewRowStamp ==
    ASSUME StampInv, NEW d \in Devices, push[d].entry \in Entry, push[d].pc = "checked"
    PROVE  /\ NewRow(d).ts <= now
           /\ <<DeviceUser[d], push[d].entry.key>> \notin stripped =>
                NewRow(d).ts >= rows[DeviceUser[d]][push[d].entry.key].ts
<1> DEFINE k == push[d].entry.key
           u == DeviceUser[d]
<1>1. TypeOK /\ Clock /\ Forward /\ k \in Keys /\ u \in Users
  BY StoreConstants DEF StampInv, Entry
<1>2. rows[u][k] \in Row /\ push[d].written[k] \in Row /\ now \in Nat /\ push[d].stamp \in Nat
  BY <1>1 DEF TypeOK, PushTxn
<1>3. View(d)[k] = IF push[d].written[k].state = "absent" THEN rows[u][k] ELSE push[d].written[k]
  BY <1>1 DEF View, Overlay
<1>4. NewRow(d).ts \in {push[d].stamp, View(d)[k].ts}
  BY DEF NewRow, Column
<1>5. rows[u][k].ts <= now /\ push[d].written[k].ts <= now /\ push[d].stamp <= now
  BY <1>1 DEF Clock
<1>6. <<u, k>> \notin stripped =>
        /\ push[d].written[k].state # "absent" => push[d].written[k].ts >= rows[u][k].ts
        /\ push[d].stamp >= rows[u][k].ts
  BY <1>1 DEF Forward, Stamped
<1>7. rows[u][k].ts \in Nat /\ push[d].written[k].ts \in Nat
  BY <1>2 DEF Row
<1>8. View(d)[k].ts \in Nat /\ View(d)[k].ts <= now
      /\ (<<u, k>> \notin stripped => View(d)[k].ts >= rows[u][k].ts)
  BY <1>3, <1>5, <1>6, <1>7
<1> QED BY <1>2, <1>4, <1>5, <1>6, <1>7, <1>8

\* Locked is kept by every step.
LEMMA NextLocked ==
    ASSUME TypeOK, Locked, [Next]_vars
    PROVE  Locked'
<1>1. ASSUME push' = push PROVE Locked'
  BY <1>1 DEF Locked
<1> QED BY <1>1, StepLocked, TakedownFrame, OtherFrame DEF Next

\* What a write leaves in the transaction.
LEMMA WriteEffects ==
    ASSUME TypeOK, NEW d \in Devices, PushWrite(d)
    PROVE  /\ push'[d].written = [push[d].written EXCEPT ![push[d].entry.key] = NewRow(d)]
           /\ push'[d].left = NewLeft(push[d]) /\ push'[d].pc = "open" /\ push'[d].stamp = 0
           /\ UNCHANGED <<rows, removals, members, takedown, stripped>>
<1>1. PICK over \in PushTxn : over = Ends(push[d]) /\ over.pc = "open" /\ over.stamp = 0
  BY EndsType DEF TypeOK
<1> QED BY <1>1 DEF PushWrite, TypeOK, PushTxn, history

\* The stamps a push's steps leave.
LEMMA PushStepStamp ==
    ASSUME StampInv, NEW d \in Devices, PushStep(d)
    PROVE  Clock' /\ Forward'
<1>1. TypeOK /\ Clock /\ Forward /\ Locked /\ DeviceUser[d] \in Users /\ push[d] \in PushTxn
  BY StoreConstants DEF StampInv, TypeOK
<1>2. /\ members' = members /\ now' = now /\ takedown' = takedown
      /\ \A o \in Devices \ {d} : push'[o] = push[o]
      /\ ~PushCommit(d) => rows' = rows /\ removals' = removals
  BY <1>1, PushFrame
<1>0. now \in Nat
  BY <1>1 DEF TypeOK
<1>3. CASE PushWrite(d)
  <2> DEFINE k == push[d].entry.key
  <2>1. push[d].entry \in Entry /\ push[d].pc = "checked" /\ k \in Keys
    BY <1>1, <1>3 DEF PushWrite, TypeOK, Entry
  <2>2. /\ push'[d].written = [push[d].written EXCEPT ![k] = NewRow(d)]
        /\ push'[d].left = NewLeft(push[d]) /\ push'[d].pc = "open" /\ push'[d].stamp = 0
        /\ UNCHANGED <<rows, removals, stripped>>
    BY <1>1, <1>3, WriteEffects
  <2>3. NewRow(d).ts <= now
        /\ (<<DeviceUser[d], k>> \notin stripped => NewRow(d).ts >= rows[DeviceUser[d]][k].ts)
    BY <2>1, NewRowStamp
  <2>4. \A j \in Keys : push'[d].written[j] = IF j = k THEN NewRow(d) ELSE push[d].written[j]
    BY <1>1, <2>1, <2>2 DEF PushTxn
  <2>5. \A s \in Spaces, j \in Keys : push'[d].left[s][j] \in {push[d].stamp, push[d].left[s][j]}
    BY <1>1, <2>1, <2>2 DEF NewLeft, PushTxn
  <2>6. push[d].stamp <= now
    BY <1>1 DEF Clock
  <2>7. Clock'
    <3>1. \A e \in Devices, j \in Keys : push'[e].written[j].ts <= now
      BY <1>1, <1>2, <2>3, <2>4 DEF Clock
    <3>2. \A e \in Devices, s \in Spaces, j \in Keys : push'[e].left[s][j] <= now
      BY <1>1, <1>2, <2>5, <2>6 DEF Clock
    <3>3. \A e \in Devices : push'[e].stamp <= now
      BY <1>0, <1>1, <1>2, <2>2 DEF Clock
    <3> QED BY <1>1, <1>2, <2>2, <3>1, <3>2, <3>3 DEF Clock
  <2>8. Forward'
    <3>1. \A j \in Keys :
             /\ push'[d].written[j].state # "absent" => push'[d].pc # "idle"
             /\ <<DeviceUser[d], j>> \notin stripped' =>
                  /\ push'[d].written[j].state # "absent" => push'[d].written[j].ts >= rows'[DeviceUser[d]][j].ts
                  /\ ~Stamped(push'[d])
      BY <1>1, <2>1, <2>2, <2>3, <2>4 DEF Forward, Stamped
    <3>2. \A o \in Devices \ {d}, j \in Keys :
             /\ push'[o].written[j].state # "absent" => push'[o].pc # "idle"
             /\ <<DeviceUser[o], j>> \notin stripped' =>
                  /\ push'[o].written[j].state # "absent" => push'[o].written[j].ts >= rows'[DeviceUser[o]][j].ts
                  /\ Stamped(push'[o]) /\ push'[o].entry.key = j => push'[o].stamp >= rows'[DeviceUser[o]][j].ts
      BY <1>1, <1>2, <2>2 DEF Forward
    <3>3. Forward' <=> (\A o \in Devices, j \in Keys :
             /\ push'[o].written[j].state # "absent" => push'[o].pc # "idle"
             /\ <<DeviceUser[o], j>> \notin stripped' =>
                  /\ push'[o].written[j].state # "absent" => push'[o].written[j].ts >= rows'[DeviceUser[o]][j].ts
                  /\ Stamped(push'[o]) /\ push'[o].entry.key = j => push'[o].stamp >= rows'[DeviceUser[o]][j].ts)
      BY DEF Forward, Stamped
    <3> QED BY <3>1, <3>2, <3>3
  <2> QED BY <2>7, <2>8
<1>4. CASE Closed(d) /\ push[d].pc # "idle"
  <2>1. push'[d] = NoPush /\ stripped' = {row \in stripped : row[1] # DeviceUser[d]}
    BY <1>1, <1>4 DEF Closed, TypeOK
  <2>2. /\ \A u \in Users, k \in Keys : rows'[u][k] \in {rows[u][k], push[d].written[k]}
        /\ \A u \in Users \ {DeviceUser[d]} : rows'[u] = rows[u]
        /\ \A s \in Spaces, k \in Keys : removals'[s][k] \in {removals[s][k], push[d].left[s][k]}
    <3>1. CASE PushCommit(d)
      <4>1. /\ rows' = [rows EXCEPT ![DeviceUser[d]] = View(d)]
            /\ \A s \in Spaces, k \in Keys : removals'[s][k] \in {removals[s][k], push[d].left[s][k]}
        BY <1>1, <3>1 DEF PushCommit, TypeOK
      <4>2. \A k \in Keys : View(d)[k] \in {rows[DeviceUser[d]][k], push[d].written[k]}
        BY DEF View, Overlay
      <4> QED BY <1>1, <4>1, <4>2 DEF TypeOK
    <3>2. CASE ~PushCommit(d)
      BY <1>2, <3>2
    <3> QED BY <3>1, <3>2
  <2>4. /\ NoPush.pc = "idle" /\ NoPush.stamp = 0
        /\ \A k \in Keys : NoPush.written[k].state = "absent" /\ NoPush.written[k].ts = 0
        /\ \A s \in Spaces, k \in Keys : NoPush.left[s][k] = 0
    BY DEF NoPush, NoRow
  <2>6. Clock'
    BY <1>0, <1>1, <1>2, <2>1, <2>2, <2>4 DEF Clock
  <2>7. \A o \in Devices \ {d} : push[o].pc # "idle" =>
           DeviceUser[o] # DeviceUser[d] /\ DeviceUser[o] \in Users
    BY <1>1, <1>4, StoreConstants DEF Locked
  <2>8. ASSUME NEW o \in Devices, NEW k \in Keys
        PROVE  /\ push'[o].written[k].state # "absent" => push'[o].pc # "idle"
               /\ <<DeviceUser[o], k>> \notin stripped' =>
                    /\ push'[o].written[k].state # "absent" => push'[o].written[k].ts >= rows'[DeviceUser[o]][k].ts
                    /\ Stamped(push'[o]) /\ push'[o].entry.key = k => push'[o].stamp >= rows'[DeviceUser[o]][k].ts
    <3>1. CASE o = d
      BY <2>1, <2>4, <3>1 DEF Stamped
    <3>2. CASE o # d /\ push[o].pc = "idle"
      BY <1>1, <1>2, <3>2 DEF Stamped, Forward
    <3>3. CASE o # d /\ push[o].pc # "idle"
      <4>1. /\ push'[o] = push[o] /\ rows'[DeviceUser[o]] = rows[DeviceUser[o]]
            /\ (<<DeviceUser[o], k>> \notin stripped' => <<DeviceUser[o], k>> \notin stripped)
        BY <1>2, <2>1, <2>2, <2>7, <3>3
      <4> QED BY <1>1, <4>1 DEF Forward
    <3> QED BY <3>1, <3>2, <3>3
  <2>9. Forward'
    BY <2>8 DEF Forward, Stamped
  <2> QED BY <2>6, <2>9
<1>5. CASE Ahead(d)
  <2>1. /\ push'[d].written = push[d].written /\ push'[d].left = push[d].left
        /\ push'[d].entry = push[d].entry /\ push'[d].pc # "idle" /\ push'[d].stamp \in {now, push[d].stamp}
        /\ UNCHANGED <<rows, removals, stripped>>
    BY <1>1, <1>5, AheadEffect DEF history
  <2>2. Clock'
    BY <1>0, <1>1, <1>2, <2>1 DEF Clock
  <2>3. Stamped(push'[d]) => push'[d].stamp = now \/ (Stamped(push[d]) /\ push'[d].stamp = push[d].stamp)
    <3>0. push[d] \in PushTxn /\ \A q : push' = [push EXCEPT ![d] = q] => push'[d] = q
      BY <1>1 DEF TypeOK
    <3>1. CASE PushAdmit(d)
      <4>1. push'[d] = [push[d] EXCEPT !.pc = "admitted"]
        BY <3>0, <3>1 DEF PushAdmit
      <4>2. push'[d].pc = "admitted"
        BY <3>0, <4>1 DEF PushTxn
      <4> QED BY <4>2 DEF Stamped
    <3>2. CASE PushStamp(d)
      <4>1. push'[d] = [push[d] EXCEPT !.pc = "stamped", !.stamp = now]
        BY <3>0, <3>2 DEF PushStamp
      <4>2. push'[d].stamp = now
        BY <3>0, <4>1 DEF PushTxn
      <4> QED BY <4>2
    <3>3. CASE PushCheck(d)
      <4>1. push'[d] = [push[d] EXCEPT !.pc = "checked"] /\ push[d].pc = "stamped"
        BY <3>0, <3>3 DEF PushCheck
      <4>2. push'[d].stamp = push[d].stamp
        BY <3>0, <4>1 DEF PushTxn
      <4> QED BY <4>1, <4>2 DEF Stamped
    <3> QED BY <1>5, <3>1, <3>2, <3>3 DEF Ahead
  <2>4. \A k \in Keys : rows[DeviceUser[d]][k].ts <= now
    BY <1>1 DEF Clock
  <2>7. \A k \in Keys : now >= rows[DeviceUser[d]][k].ts
    BY <1>0, <1>1, <2>4 DEF TypeOK, Row
  <2>5. ASSUME NEW o \in Devices, NEW k \in Keys
        PROVE  /\ push'[o].written[k].state # "absent" => push'[o].pc # "idle"
               /\ <<DeviceUser[o], k>> \notin stripped' =>
                    /\ push'[o].written[k].state # "absent" => push'[o].written[k].ts >= rows'[DeviceUser[o]][k].ts
                    /\ Stamped(push'[o]) /\ push'[o].entry.key = k => push'[o].stamp >= rows'[DeviceUser[o]][k].ts
    <3>1. CASE o = d
      BY <1>1, <2>1, <2>3, <2>7, <3>1 DEF Forward
    <3>2. CASE o # d
      BY <1>1, <1>2, <2>1, <3>2 DEF Forward
    <3> QED BY <3>1, <3>2
  <2>6. Forward'
    BY <2>5 DEF Forward, Stamped
  <2> QED BY <2>2, <2>6
<1>6. CASE PushBegin(d) \/ (\E e \in Entry : PushLookup(d, e)) \/ PushConflict(d)
  <2>1. /\ \/ push'[d].written = push[d].written /\ push'[d].left = push[d].left
           \/ push'[d].written = NoPush.written /\ push'[d].left = NoPush.left
        /\ push'[d].stamp \in {0, push[d].stamp} /\ push'[d].pc \in {"open", "found"}
        /\ UNCHANGED <<rows, removals, stripped>>
    <3>1. CASE PushBegin(d)
      BY <1>1, <3>1, NoPushType DEF PushBegin, Arrive, TypeOK, PushTxn, NoPush
    <3>2. ASSUME NEW e \in Entry, PushLookup(d, e)
          PROVE  /\ push'[d].written = push[d].written /\ push'[d].left = push[d].left
                 /\ push'[d].stamp = push[d].stamp /\ push'[d].pc = "found"
                 /\ UNCHANGED <<rows, removals, stripped>>
      BY <1>1, <3>2 DEF PushLookup, TypeOK, PushTxn, history
    <3>3. CASE PushConflict(d)
      BY <1>1, <3>3, EndsType DEF PushConflict, TypeOK, history
    <3> QED BY <1>6, <3>1, <3>2, <3>3
  <2>2. \A k \in Keys : NoPush.written[k].state = "absent" /\ NoPush.written[k].ts = 0
        /\ \A s \in Spaces : NoPush.left[s][k] = 0
    BY DEF NoPush, NoRow
  <2>4. Clock'
    BY <1>0, <1>1, <1>2, <2>1, <2>2 DEF Clock
  <2>3. ASSUME NEW o \in Devices, NEW k \in Keys
        PROVE  /\ push'[o].written[k].state # "absent" => push'[o].pc # "idle"
               /\ <<DeviceUser[o], k>> \notin stripped' =>
                    /\ push'[o].written[k].state # "absent" => push'[o].written[k].ts >= rows'[DeviceUser[o]][k].ts
                    /\ Stamped(push'[o]) /\ push'[o].entry.key = k => push'[o].stamp >= rows'[DeviceUser[o]][k].ts
    <3>1. CASE o = d
      BY <1>1, <2>1, <2>2, <3>1 DEF Forward, Stamped
    <3>2. CASE o # d
      BY <1>1, <1>2, <2>1, <3>2 DEF Forward
    <3> QED BY <3>1, <3>2
  <2>5. Forward'
    BY <2>3 DEF Forward, Stamped
  <2> QED BY <2>4, <2>5
<1>7. PushCommit(d) \/ PushRefuse(d) \/ PushAbort(d) => Closed(d) /\ push[d].pc # "idle"
  BY DEF PushCommit, PushRefuse, PushAbort
<1> QED BY <1>3, <1>4, <1>5, <1>6, <1>7 DEF PushStep, Ahead

\* A takedown rewrites only rows no open push has written, with its own stamp.
LEMMA TakedownStepStamp ==
    ASSUME StampInv, NEW u \in Users, TakedownStep(u)
    PROVE  Clock' /\ Forward'
<1>1. TypeOK /\ Clock /\ Forward
  BY DEF StampInv
<1>2. /\ now' = now /\ push' = push
      /\ \A v \in Users \ {u} : takedown'[v] = takedown[v]
      /\ ~TakedownWrite(u) => rows' = rows /\ removals' = removals
  BY <1>1, TakedownFrame
<1>3. now \in Nat /\ now >= 1
  BY <1>1 DEF TypeOK
<1>4. CASE TakedownWrite(u)
  <2> DEFINE t == takedown[u]
  <2>1. t \in Takedown /\ takedown'[u] = None /\ t.ts <= now
    BY <1>1, <1>4 DEF TakedownWrite, TypeOK, Clock
  <2>2. \A o \in Users, k \in Keys : rows'[o][k].ts \in {rows[o][k].ts, t.ts}
    <3> SUFFICES ASSUME NEW o \in Users, NEW k \in Keys
                 PROVE  rows'[o][k].ts \in {rows[o][k].ts, t.ts}
      OBVIOUS
    <3>1. CASE o \in Authors(t) /\ k = t.key
      <4>1. rows'[o][k] = [rows[o][k] EXCEPT !.spaces = t.found[o].spaces \ {t.space},
                                             !.ts = Column(t.ts, t.found[o].ts, rows[o][k].ts)]
        BY <1>1, <1>4, <3>1 DEF TakedownWrite, TypeOK
      <4>2. rows[o][k] \in Row
        BY <1>1 DEF TypeOK
      <4> QED BY <4>1, <4>2 DEF Row, Column
    <3>2. CASE ~(o \in Authors(t) /\ k = t.key)
      <4>1. rows'[o][k] = rows[o][k]
        BY <1>1, <1>4, <3>2 DEF TakedownWrite, TypeOK
      <4> QED BY <4>1
    <3> QED BY <3>1, <3>2
  <2>3. \A s \in Spaces, k \in Keys : removals'[s][k] \in {removals[s][k], t.ts}
    BY <1>1, <1>4, <2>1 DEF TakedownWrite, TypeOK, Takedown
  <2>4. Clock'
    BY <1>1, <1>2, <1>3, <2>1, <2>2, <2>3 DEF Clock
  <2>5. \A d \in Devices, k \in Keys :
           push[d].written[k].state # "absent" => rows'[DeviceUser[d]][k] = rows[DeviceUser[d]][k]
    BY <1>1, <1>4, <2>1, StoreConstants DEF TakedownWrite, TypeOK, Takedown
  <2>7. ASSUME NEW d \in Devices, NEW k \in Keys, Stamped(push[d]), push[d].entry.key = k,
               <<DeviceUser[d], k>> \notin stripped'
        PROVE  rows'[DeviceUser[d]][k] = rows[DeviceUser[d]][k]
    <3>1. ~(DeviceUser[d] \in Authors(t) /\ k = t.key)
      BY <1>4, <2>7 DEF TakedownWrite
    <3> QED BY <1>1, <1>4, <2>1, <3>1, StoreConstants DEF TakedownWrite, TypeOK
  <2>8. stripped \subseteq stripped'
    BY <1>4 DEF TakedownWrite
  <2>9. ASSUME NEW o \in Devices, NEW k \in Keys
        PROVE  /\ push'[o].written[k].state # "absent" => push'[o].pc # "idle"
               /\ <<DeviceUser[o], k>> \notin stripped' =>
                    /\ push'[o].written[k].state # "absent" => push'[o].written[k].ts >= rows'[DeviceUser[o]][k].ts
                    /\ Stamped(push'[o]) /\ push'[o].entry.key = k => push'[o].stamp >= rows'[DeviceUser[o]][k].ts
    BY <1>1, <1>2, <2>5, <2>7, <2>8 DEF Forward
  <2>6. Forward'
    BY <2>9 DEF Forward, Stamped
  <2> QED BY <2>4, <2>6
<1>5. CASE ~TakedownWrite(u)
  <2>1. takedown'[u] = None \/ (takedown'[u].ts = now)
    BY <1>1, <1>5 DEF TakedownStep, TakedownRead, TakedownAbort, TypeOK
  <2>2. stripped' = stripped
    BY <1>5 DEF TakedownStep, TakedownRead, TakedownAbort, Arrive, history
  <2> QED BY <1>1, <1>2, <1>3, <1>5, <2>1, <2>2 DEF Clock, Forward, Stamped
<1> QED BY <1>4, <1>5

LEMMA NextStamp == StampInv /\ [Next]_vars => StampInv'
<1> SUFFICES ASSUME StampInv, [Next]_vars PROVE StampInv'
  OBVIOUS
<1>1. TypeOK' /\ Locked'
  BY NextType, NextLocked DEF StampInv
<1>2. CASE MembershipStep \/ Tick \/ UNCHANGED vars
  <2>1. now' \in Nat /\ now \in Nat /\ now <= now'
    BY <1>2 DEF MembershipStep, Join, Leave, DeleteSpace, Tick, vars, StampInv, TypeOK
  <2>2. TypeOK /\ Clock /\ Forward
    BY DEF StampInv
  <2>3. Forward'
    BY <1>2, <2>2, OtherFrame DEF Forward, Stamped
  <2>4. Clock'
    <3>1. /\ \A u \in Users, k \in Keys : rows[u][k].ts \in Nat
          /\ \A s \in Spaces, k \in Keys : removals[s][k] \in Nat
          /\ \A d \in Devices : push[d].stamp \in Nat
          /\ \A d \in Devices, k \in Keys : push[d].written[k].ts \in Nat
          /\ \A d \in Devices, s \in Spaces, k \in Keys : push[d].left[s][k] \in Nat
          /\ \A u \in Users : takedown[u] # None => takedown[u].ts \in Nat
      BY <2>2 DEF TypeOK, Row, PushTxn, Takedown
    <3> QED BY <1>2, <2>1, <2>2, <3>1, OtherFrame DEF Clock
  <2> QED BY <1>1, <2>3, <2>4 DEF StampInv
<1> QED BY <1>1, <1>2, PushStepStamp, TakedownStepStamp DEF Next, StampInv

\* Whatever runs beside it, a push moves a row's server_ts back only where a takedown
\* committed between the push's stamp and its write: the lock keeps the account's other
\* devices out, and a row once written keeps a takedown waiting.
THEOREM SpecPushNeverRewinds == Spec => PushNeverRewinds
<1> DEFINE Step == \A u \in Users, k \in Keys :
                      rows'[u][k].ts < rows[u][k].ts =>
                          takedown' # takedown \/ <<u, k>> \in stripped
<1>1. StampInv /\ [Next]_vars => [Step]_vars
  <2> SUFFICES ASSUME StampInv, Next PROVE Step
    OBVIOUS
  <2>1. TypeOK /\ Forward
    BY DEF StampInv
  <2>2. \A u \in Users, k \in Keys : rows[u][k].ts \in Nat
    BY <2>1 DEF TypeOK, Row
  <2>3. ASSUME NEW d \in Devices, PushCommit(d), NEW u \in Users, NEW k \in Keys
        PROVE  rows'[u][k].ts >= rows[u][k].ts \/ <<u, k>> \in stripped
    <3>1. rows' = [rows EXCEPT ![DeviceUser[d]] = View(d)]
      BY <2>3 DEF PushCommit
    <3>2. View(d)[k] = IF push[d].written[k].state = "absent" THEN rows[DeviceUser[d]][k]
                       ELSE push[d].written[k]
      BY DEF View, Overlay
    <3> QED BY <2>1, <2>2, <3>1, <3>2, StoreConstants DEF Forward, TypeOK
  <2>4. ASSUME NEW d \in Devices, PushStep(d) PROVE Step
    <3>1. CASE PushCommit(d)
      <4> SUFFICES ASSUME NEW u \in Users, NEW k \in Keys PROVE ~(rows'[u][k].ts < rows[u][k].ts) \/ <<u, k>> \in stripped
        OBVIOUS
      <4>1. rows'[u][k].ts >= rows[u][k].ts \/ <<u, k>> \in stripped
        BY <2>3, <3>1
      <4>2. rows'[u][k].ts \in Nat
        BY <2>1, <2>4, PushStepType DEF TypeOK, Row
      <4> QED BY <2>2, <4>1, <4>2
    <3>2. CASE ~PushCommit(d)
      BY <2>1, <2>2, <2>4, <3>2, PushFrame
    <3> QED BY <3>1, <3>2
  <2>5. ASSUME NEW u \in Users, TakedownStep(u) PROVE Step
    <3>1. CASE TakedownWrite(u)
      <4>1. takedown[u] # None /\ takedown'[u] = None
        BY <2>1, <3>1 DEF TakedownWrite, TypeOK
      <4> QED BY <4>1
    <3>2. CASE ~TakedownWrite(u)
      BY <2>1, <2>2, <2>5, <3>2, TakedownFrame
    <3> QED BY <3>1, <3>2
  <2>6. CASE MembershipStep \/ Tick
    BY <2>2, <2>6, OtherFrame
  <2> QED BY <2>4, <2>5, <2>6 DEF Next
<1> QED BY <1>1, InitStamp, NextStamp, PTL DEF Spec, PushNeverRewinds

-----------------------------------------------------------------------------
(* One transaction at a time                                               *)
(*                                                                         *)
(* While no two transactions have overlapped, what a transaction read is   *)
(* still what is committed, so the checks it made still hold at its commit.*)

Alone ==
    /\ \A a, b \in Devices : push[a].pc # "idle" /\ push[b].pc # "idle" => a = b
    /\ \A d \in Devices, u \in Users : push[d].pc # "idle" => takedown[u] = None
    /\ \A u, v \in Users : takedown[u] # None /\ takedown[v] # None => u = v

\* What a push has written so far may be committed.
Sound(d, u, k, s) ==
    /\ s \in View(d)[k].spaces =>
          /\ View(d)[k].ts >= removals[s][k] /\ View(d)[k].ts >= push[d].left[s][k]
          /\ s \in rows[u][k].spaces \/ u \in members[s]
          /\ \A o \in Users \ {u} : s \notin rows[o][k].spaces
    /\ s \in rows[u][k].spaces /\ s \notin View(d)[k].spaces =>
          push[d].left[s][k] # 0 /\ push[d].left[s][k] >= rows[u][k].ts
    /\ push[d].left[s][k] # 0 => \A o \in Users \ {u} : s \notin rows[o][k].spaces

\* The stamp an entry waits with is no older than what it will outrank.
Fresh(d) ==
    LET k == push[d].entry.key IN
    /\ push[d].stamp # 0 /\ push[d].stamp >= rows[DeviceUser[d]][k].ts
    /\ \A s \in Spaces : push[d].stamp >= removals[s][k] /\ push[d].stamp >= push[d].left[s][k]

SerialPush(d) ==
    push[d].pc # "idle" =>
        /\ push[d].pc # "open" => push[d].found = View(d)[push[d].entry.key]
        /\ push[d].pc \notin {"open", "found"} => MayAdd(d)
        /\ push[d].pc = "checked" => ~Rival(d)
        /\ Stamped(push[d]) => Fresh(d)
        /\ \A k \in Keys, s \in Spaces : Sound(d, DeviceUser[d], k, s)

\* A takedown holds the rows as they are, the only ones that carry the space.
SerialTakedown(u) ==
    takedown[u] # None =>
        /\ \A o \in Authors(takedown[u]) : takedown[u].found[o] = rows[o][takedown[u].key]
        /\ \E o \in Authors(takedown[u]) : takedown[u].space \in rows[o][takedown[u].key].spaces
        /\ \A o \in Users : takedown[u].ts >= rows[o][takedown[u].key].ts

RowsInOrder ==
    \A u \in Users, s \in Spaces, k \in Keys :
        s \in rows[u][k].spaces => rows[u][k].ts >= removals[s][k] /\ rows[u][k].state # "absent"

Serial ==
    /\ Alone
    /\ NoRivals
    /\ RowsInOrder
    /\ \A d \in Devices : SerialPush(d)
    /\ \A u \in Users : SerialTakedown(u)

SerialInv == StampInv /\ (~overlapped => Serial)

LEMMA InitSerial == Init => SerialInv
<1> SUFFICES ASSUME Init PROVE Serial
  BY InitStamp DEF SerialInv
<1>1. (\A d \in Devices : push[d].pc = "idle") /\ (\A u \in Users : takedown[u] = None)
  BY DEF Init, NoPush
<1>2. \A u \in Users, k \in Keys : rows[u][k].spaces = {}
  BY DEF Init, NoRow
<1> QED BY <1>1, <1>2 DEF Serial, Alone, NoRivals, RowsInOrder, SerialPush, SerialTakedown

\* Quiet: nothing is open.
Quiet == (\A d \in Devices : push[d].pc = "idle") /\ (\A u \in Users : takedown[u] = None)

LEMMA ArriveQuiet ==
    ASSUME TypeOK, Arrive, ~overlapped'
    PROVE  ~overlapped /\ Quiet
BY DEF Arrive, Busy, Quiet, TypeOK

\* A push that begins alone sees the committed rows.
LEMMA BeginSerial ==
    ASSUME SerialInv, NEW d \in Devices, PushBegin(d), ~overlapped'
    PROVE  Serial'
<1>1. TypeOK /\ ~overlapped /\ Quiet /\ DeviceUser[d] \in Users /\ Clock
  BY ArriveQuiet, StoreConstants DEF SerialInv, StampInv, PushBegin
<1>2. NoRivals /\ RowsInOrder
  BY <1>1 DEF SerialInv, Serial
<1>3. /\ rows' = rows /\ removals' = removals /\ members' = members /\ takedown' = takedown
      /\ \A o \in Devices \ {d} : push'[o] = push[o]
      /\ push'[d].pc = "open" /\ push'[d].written = NoPush.written /\ push'[d].left = NoPush.left
  BY <1>1, NoPushType DEF PushBegin, TypeOK, PushTxn
<1>4. \A k \in Keys : View(d)'[k] = rows[DeviceUser[d]][k] /\ \A s \in Spaces : push'[d].left[s][k] = 0
  BY <1>3 DEF View, Overlay, NoPush, NoRow
<1>5. \A u \in Users, k \in Keys : rows[u][k].ts \in Nat /\ rows[u][k].spaces \subseteq Spaces
  BY <1>1 DEF TypeOK, Row
<1>6. SerialPush(d)'
  BY <1>1, <1>2, <1>3, <1>4, <1>5 DEF SerialPush, Sound, NoRivals, RowsInOrder, Stamped
<1>7. Alone'
  BY <1>1, <1>3 DEF Alone, Quiet
<1> QED BY <1>1, <1>2, <1>3, <1>6, <1>7
        DEF Serial, Quiet, SerialPush, SerialTakedown, NoRivals, RowsInOrder

\* An open push that is alone leaves every other transaction closed.
LEMMA OthersSerial ==
    ASSUME TypeOK, Alone, NEW d \in Devices, PushStep(d), push[d].pc # "idle"
    PROVE  /\ Alone'
           /\ \A o \in Devices \ {d} : SerialPush(o)'
           /\ \A u \in Users : SerialTakedown(u)'
<1>1. /\ takedown' = takedown
      /\ \A o \in Devices \ {d} : push'[o] = push[o]
  BY PushFrame
<1>2. (\A o \in Devices \ {d} : push'[o].pc = "idle") /\ (\A u \in Users : takedown'[u] = None)
  BY <1>1 DEF Alone
<1> QED BY <1>2 DEF Alone, SerialPush, SerialTakedown

\* A step that writes no entry keeps what the push may commit.
LEMMA LookSerial ==
    ASSUME TypeOK, NEW d \in Devices, SerialPush(d),
           (\E e \in Entry : PushLookup(d, e)) \/ PushConflict(d)
    PROVE  SerialPush(d)'
<1>1. ASSUME push[d].pc # "idle", push'[d].written = push[d].written,
             push'[d].left = push[d].left,
             rows' = rows, removals' = removals, members' = members,
             push'[d].pc = "open" \/ (push'[d].pc = "found" /\ push'[d].found = View(d)[push'[d].entry.key])
      PROVE  SerialPush(d)'
  <2>1. View(d)' = View(d)
    BY <1>1 DEF View, Overlay
  <2>2. \A k \in Keys, s \in Spaces : Sound(d, DeviceUser[d], k, s)'
    BY <1>1, <2>1 DEF SerialPush, Sound
  <2> QED BY <1>1, <2>1, <2>2 DEF SerialPush, Stamped
<1>2. ASSUME NEW e \in Entry, PushLookup(d, e) PROVE SerialPush(d)'
  <2>1. push'[d] = [push[d] EXCEPT !.pc = "found", !.count = push[d].count + 1,
                                   !.entry = e, !.found = View(d)[e.key]]
    BY <1>2 DEF PushLookup, TypeOK
  <2>2. push[d] \in PushTxn
    BY DEF TypeOK
  <2>3. push'[d].found = View(d)[push'[d].entry.key] /\ push'[d].written = push[d].written
        /\ push'[d].left = push[d].left /\ push'[d].pc = "found"
    BY <2>1, <2>2 DEF PushTxn
  <2> QED BY <1>1, <1>2, <2>3 DEF PushLookup
<1>3. CASE PushConflict(d)
  <2>1. push'[d].pc = "open" /\ push'[d].written = push[d].written /\ push'[d].left = push[d].left
    BY <1>3, EndsType DEF PushConflict, TypeOK
  <2> QED BY <1>1, <1>3, <2>1 DEF PushConflict
<1> QED BY <1>2, <1>3

\* An entry on its way to its write: what was checked still holds, and its stamp outranks
\* every stamp there is.
LEMMA AheadSerial ==
    ASSUME StampInv, NEW d \in Devices, SerialPush(d), Ahead(d)
    PROVE  SerialPush(d)'
<1>1. TypeOK /\ Clock /\ DeviceUser[d] \in Users /\ push[d].entry.key \in Keys
  <2>1. push[d].entry \in Entry
    BY AheadEffect DEF StampInv, TypeOK
  <2> QED BY <2>1, StoreConstants DEF StampInv, Entry
<1>2. /\ push[d].pc \notin {"idle", "open"} /\ push'[d].pc \notin {"idle", "open", "found"}
      /\ push'[d].entry = push[d].entry /\ push'[d].found = push[d].found
      /\ push'[d].written = push[d].written /\ push'[d].left = push[d].left
      /\ UNCHANGED <<rows, removals, members>>
  BY <1>1, AheadEffect
<1>3. View(d)' = View(d)
  BY <1>2 DEF View, Overlay
<1>4. (MayAdd(d) <=> MayAdd(d)') /\ (Rival(d) <=> Rival(d)')
  BY <1>2 DEF MayAdd, Rival, Added
<1>5. MayAdd(d)
  BY <1>2 DEF Ahead, PushAdmit, PushStamp, PushCheck, SerialPush
<1>6. push'[d].pc = "checked" => ~Rival(d)
  BY <1>1 DEF Ahead, PushAdmit, PushStamp, PushCheck, TypeOK, PushTxn
<1>7. Stamped(push'[d]) => Fresh(d)'
  <2>1. Stamped(push'[d]) => push'[d].stamp = now \/ (Stamped(push[d]) /\ push'[d].stamp = push[d].stamp)
    BY <1>1 DEF Ahead, PushAdmit, PushStamp, PushCheck, Stamped, TypeOK, PushTxn
  <2>2. ASSUME push'[d].stamp = now PROVE Fresh(d)'
    <3>1. now \in Nat \ {0} /\ now >= rows[DeviceUser[d]][push[d].entry.key].ts
      BY <1>1 DEF Clock, TypeOK, Row
    <3>2. \A s \in Spaces : now >= removals[s][push[d].entry.key] /\ now >= push[d].left[s][push[d].entry.key]
      BY <1>1 DEF Clock, TypeOK, PushTxn
    <3> QED BY <1>2, <2>2, <3>1, <3>2 DEF Fresh
  <2>3. ASSUME Stamped(push[d]), push'[d].stamp = push[d].stamp PROVE Fresh(d)'
    <3>1. Fresh(d)
      BY <1>2, <2>3 DEF SerialPush
    <3> QED BY <1>2, <2>3, <3>1 DEF Fresh
  <2> QED BY <2>1, <2>2, <2>3
<1>8. \A k \in Keys, s \in Spaces : Sound(d, DeviceUser[d], k, s)'
  BY <1>2, <1>3 DEF SerialPush, Sound
<1>9. push[d].found = View(d)[push[d].entry.key]
  BY <1>2 DEF SerialPush
<1>10. Stamped(push[d])' => Stamped(push'[d])
  BY DEF Stamped
<1> QED BY <1>2, <1>3, <1>4, <1>5, <1>6, <1>7, <1>8, <1>9, <1>10 DEF SerialPush

\* The entry a push writes is in its old spaces or in spaces that passed the
\* membership and rival checks, and every space it leaves is recorded.
LEMMA WriteSerial ==
    ASSUME SerialInv, ~overlapped, NEW d \in Devices, PushWrite(d)
    PROVE  SerialPush(d)'
<1> DEFINE txn == push[d]
           k == txn.entry.key
           u == DeviceUser[d]
           new == NewRow(d)
<1>1. TypeOK /\ Clock /\ StampInv /\ SerialPush(d) /\ txn \in PushTxn /\ u \in Users
  BY StoreConstants DEF SerialInv, Serial, StampInv, TypeOK
<1>2. txn.pc = "checked" /\ txn.entry \in Entry /\ k \in Keys
  BY <1>1 DEF PushWrite, TypeOK, Entry
<1>3. txn.found = View(d)[k] /\ View(d)[k] \in Row /\ rows[u][k] \in Row /\ txn.stamp \in Nat
  BY <1>1, <1>2, ViewType DEF SerialPush, TypeOK, PushTxn
<1>9. MayAdd(d) /\ ~Rival(d) /\ Fresh(d)
  BY <1>1, <1>2 DEF SerialPush, Stamped
<1>4. /\ push'[d].pc = "open" /\ push'[d].written = [txn.written EXCEPT ![k] = new]
      /\ push'[d].left = NewLeft(txn)
      /\ rows' = rows /\ removals' = removals /\ members' = members
  BY <1>1, WriteEffects
<1>5. new.spaces = txn.entry.spaces /\ new.ts = txn.stamp /\ new.state # "absent"
  BY <1>3 DEF NewRow, Column
<1>6. /\ View(d)'[k] = new
      /\ \A j \in Keys \ {k} : View(d)'[j] = View(d)[j]
  BY <1>1, <1>2, <1>4, <1>5 DEF View, Overlay, PushTxn
<1>7. /\ \A s \in Spaces, j \in Keys \ {k} : push'[d].left[s][j] = txn.left[s][j]
      /\ \A s \in Spaces : push'[d].left[s][k] = IF s \in Dropped(txn) THEN txn.stamp ELSE txn.left[s][k]
  BY <1>1, <1>2, <1>4 DEF NewLeft, PushTxn
<1>8. ASSUME NEW j \in Keys, NEW s \in Spaces PROVE Sound(d, u, j, s)'
  <2>1. CASE j = k
    <3>1. Sound(d, u, j, s)
      BY <2>1, <1>1, <1>2 DEF SerialPush
    <3>2. txn.stamp >= removals[s][j] /\ txn.stamp >= txn.left[s][j] /\ txn.stamp >= rows[u][j].ts
          /\ txn.stamp # 0 /\ removals[s][j] \in Nat /\ txn.left[s][j] \in Nat /\ rows[u][j].ts \in Nat
      BY <2>1, <1>1, <1>2, <1>3, <1>9 DEF Fresh, TypeOK, PushTxn, Row
    <3>3. s \in new.spaces \ View(d)[j].spaces =>
             u \in members[s] /\ \A o \in Users \ {u} : s \notin rows[o][j].spaces
      BY <2>1, <1>3, <1>5, <1>9 DEF MayAdd, Rival, Added
    <3>4. s \in View(d)[j].spaces /\ s \notin new.spaces => s \in Dropped(txn)
      BY <2>1, <1>3, <1>5 DEF Dropped
    <3>5. s \in Dropped(txn) => s \in View(d)[j].spaces /\ s \notin new.spaces
      BY <2>1, <1>3, <1>5 DEF Dropped
    <3>6. push'[d].left[s][j] = (IF s \in Dropped(txn) THEN txn.stamp ELSE txn.left[s][j])
      BY <2>1, <1>7
    <3>7. s \in new.spaces =>
            /\ s \in rows[u][j].spaces \/ u \in members[s]
            /\ \A o \in Users \ {u} : s \notin rows[o][j].spaces
      BY <2>1, <3>1, <3>3 DEF Sound
    <3>8. s \in rows[u][j].spaces /\ s \notin new.spaces =>
            push'[d].left[s][j] # 0 /\ push'[d].left[s][j] >= rows[u][j].ts
      BY <2>1, <3>1, <3>2, <3>4, <3>6 DEF Sound
    <3>9. push'[d].left[s][j] # 0 => \A o \in Users \ {u} : s \notin rows[o][j].spaces
      BY <2>1, <3>1, <3>5, <3>6 DEF Sound
    <3>10. txn.stamp >= push'[d].left[s][j]
      BY <2>1, <1>3, <3>2, <3>6
    <3>11. View(d)'[j].spaces = new.spaces /\ View(d)'[j].ts = txn.stamp
      BY <2>1, <1>5, <1>6
    <3> QED BY <2>1, <1>4, <3>2, <3>7, <3>8, <3>9, <3>10, <3>11 DEF Sound
  <2>2. CASE j # k
    <3>1. Sound(d, u, j, s)
      BY <1>1, <1>2 DEF SerialPush
    <3>2. View(d)'[j] = View(d)[j] /\ push'[d].left[s][j] = push[d].left[s][j]
      BY <1>6, <1>7, <2>2
    <3> QED BY <1>4, <3>1, <3>2 DEF Sound
  <2> QED BY <2>1, <2>2
<1> QED BY <1>4, <1>8 DEF SerialPush, Stamped

\* What a push commits keeps the store in order.
LEMMA CommitSerial ==
    ASSUME SerialInv, ~overlapped, NEW d \in Devices, PushCommit(d)
    PROVE  NoRivals' /\ RowsInOrder'
<1> DEFINE u == DeviceUser[d]
<1>1. TypeOK /\ NoRivals /\ RowsInOrder /\ SerialPush(d) /\ u \in Users /\ push[d] \in PushTxn
  BY StoreConstants DEF SerialInv, Serial, StampInv, TypeOK
<1>2. /\ rows' = [rows EXCEPT ![u] = View(d)] /\ push[d].pc = "open"
      /\ \A s \in Spaces, k \in Keys :
            removals'[s][k] = IF push[d].left[s][k] = 0 THEN removals[s][k] ELSE push[d].left[s][k]
  BY DEF PushCommit
<1>3. \A k \in Keys, s \in Spaces : Sound(d, u, k, s)
  BY <1>1, <1>2 DEF SerialPush
<1>4. \A k \in Keys : View(d)[k] \in Row /\ rows'[u][k] = View(d)[k]
  BY <1>1, <1>2, ViewType DEF TypeOK
<1>5. \A o \in Users \ {u} : rows'[o] = rows[o]
  BY <1>1, <1>2 DEF TypeOK
<1>6. \A o \in Users \ {u}, k \in Keys : View(d)[k].spaces \cap rows[o][k].spaces = {}
  BY <1>3, <1>4 DEF Sound, Row
<1>7. NoRivals'
  BY <1>1, <1>4, <1>5, <1>6 DEF NoRivals
<1>8. ASSUME NEW s \in Spaces, NEW k \in Keys, s \in View(d)[k].spaces
      PROVE  View(d)[k].ts >= removals'[s][k] /\ View(d)[k].state # "absent"
  <2>1. Sound(d, u, k, s)
    BY <1>3
  <2>2. View(d)[k].state # "absent"
    BY <1>1, <1>8 DEF View, Overlay, RowsInOrder
  <2> QED BY <1>2, <1>8, <2>1, <2>2 DEF Sound
<1>9. ASSUME NEW o \in Users \ {u}, NEW s \in Spaces, NEW k \in Keys, s \in rows[o][k].spaces
      PROVE  removals'[s][k] = removals[s][k]
  BY <1>2, <1>3, <1>9 DEF Sound
<1>10. RowsInOrder'
  BY <1>1, <1>4, <1>5, <1>8, <1>9 DEF RowsInOrder
<1> QED BY <1>7, <1>10

\* Each step of a push that stays alone.
LEMMA PushStepSerial ==
    ASSUME SerialInv, NEW d \in Devices, PushStep(d), ~overlapped'
    PROVE  Serial'
<1>1. TypeOK
  BY DEF SerialInv, StampInv
<1>2. CASE PushBegin(d)
  BY <1>2, BeginSerial
<1>3. CASE ~PushBegin(d)
  <2>1. ~overlapped /\ push[d].pc # "idle"
    <3>1. push[d].pc # "idle"
      BY <1>3 DEF PushStep, PushLookup, PushRefuse, PushAdmit, PushStamp, PushCheck, PushConflict,
                  PushWrite, PushCommit, PushAbort
    <3> QED BY <1>1, <1>3, <3>1, PushFrame
  <2>2. Serial
    BY <2>1 DEF SerialInv
  <2>3. Alone' /\ (\A o \in Devices \ {d} : SerialPush(o)') /\ (\A u \in Users : SerialTakedown(u)')
    BY <1>1, <2>1, <2>2, OthersSerial DEF Serial
  <2>4. SerialPush(d)'
    <3>1. CASE PushRefuse(d) \/ PushCommit(d) \/ PushAbort(d)
      <4>1. push'[d].pc = "idle"
        BY <1>1, <3>1 DEF PushRefuse, PushCommit, PushAbort, Closed, TypeOK, NoPush
      <4> QED BY <4>1 DEF SerialPush
    <3>2. CASE PushWrite(d)
      BY <2>1, <3>2, WriteSerial
    <3> QED BY <1>1, <1>3, <2>2, <3>1, <3>2, LookSerial, AheadSerial DEF PushStep, Ahead, Serial, SerialInv
  <2>5. NoRivals' /\ RowsInOrder'
    <3>1. CASE PushCommit(d)
      BY <2>1, <3>1, CommitSerial
    <3>2. CASE ~PushCommit(d)
      BY <1>1, <2>2, <3>2, PushFrame DEF Serial, NoRivals, RowsInOrder
    <3> QED BY <3>1, <3>2
  <2> QED BY <2>3, <2>4, <2>5 DEF Serial
<1> QED BY <1>2, <1>3

\* A takedown that reads while nothing is open holds the rows as they are.
LEMMA ReadSerial ==
    ASSUME SerialInv, NEW u \in Users, NEW s \in Spaces, NEW k \in Keys,
           TakedownRead(u, s, k), ~overlapped'
    PROVE  Serial'
<1>1. TypeOK /\ Clock /\ ~overlapped /\ Quiet
  BY ArriveQuiet DEF SerialInv, StampInv, TakedownRead
<1>2. NoRivals /\ RowsInOrder
  BY <1>1 DEF SerialInv, Serial
<1>3. /\ rows' = rows /\ removals' = removals /\ push' = push
      /\ \A v \in Users \ {u} : takedown'[v] = None
  BY <1>1 DEF TakedownRead, TypeOK, Quiet
<1> DEFINE t == [space |-> s, key |-> k, ts |-> now,
                 found |-> [o \in Users |-> IF o \in Strippable(u, s, k) THEN rows[o][k] ELSE NoRow]]
<1>4. takedown'[u] = t
  BY <1>1 DEF TakedownRead, TypeOK
<1>5. \A o \in Users : t.found[o] = rows[o][k] \/ t.found[o].state = "absent"
  BY DEF NoRow
<1>6. \E o \in Users : s \in rows[o][k].spaces /\ t.found[o] = rows[o][k]
  BY DEF TakedownRead, Strippable, Carriers
<1>7. \A o \in Users : s \in rows[o][k].spaces => rows[o][k].state # "absent"
  BY <1>2 DEF RowsInOrder
<1>8. \A o \in Users : rows[o][k].ts <= now
  BY <1>1 DEF Clock
<1>9. t.space = s /\ t.key = k /\ t.ts = now
  OBVIOUS
<1>10. \A o \in Users : rows[o][k].ts \in Nat /\ now \in Nat
  BY <1>1 DEF TypeOK, Row
<1> HIDE DEF t
<1>11. SerialTakedown(u)'
  BY <1>3, <1>4, <1>5, <1>6, <1>7, <1>8, <1>9, <1>10 DEF SerialTakedown, Authors
<1>12. Alone' /\ \A v \in Users \ {u} : SerialTakedown(v)'
  BY <1>1, <1>3 DEF Alone, Quiet, SerialTakedown
<1>13. \A d \in Devices : SerialPush(d)'
  BY <1>1, <1>3 DEF Quiet, SerialPush
<1> QED BY <1>2, <1>3, <1>11, <1>12, <1>13 DEF Serial, NoRivals, RowsInOrder

\* What a takedown writes: its authors' rows lose the space and take its
\* stamp, and nothing else moves.
LEMMA WriteEffect ==
    ASSUME TypeOK, Serial, NEW v \in Users, TakedownWrite(v), NEW u \in Users, NEW k \in Keys
    PROVE  LET t == takedown[v]
           IN  /\ rows'[u][k].spaces = rows[u][k].spaces
                     \ (IF u \in Authors(t) /\ k = t.key THEN {t.space} ELSE {})
               /\ rows'[u][k].ts = IF u \in Authors(t) /\ k = t.key THEN t.ts ELSE rows[u][k].ts
               /\ rows'[u][k].state = rows[u][k].state
<1> DEFINE t == takedown[v]
<1>1. t \in Takedown /\ rows[u][k] \in Row
  BY DEF TakedownWrite, TypeOK
<1>2. CASE u \in Authors(t) /\ k = t.key
  <2>1. t.found[u] = rows[u][k]
    BY <1>2 DEF Serial, SerialTakedown, TakedownWrite
  <2>2. rows'[u][k] = [rows[u][k] EXCEPT !.spaces = t.found[u].spaces \ {t.space},
                                         !.ts = Column(t.ts, t.found[u].ts, rows[u][k].ts)]
    BY <1>2 DEF TakedownWrite, TypeOK
  <2> QED BY <1>1, <1>2, <2>1, <2>2 DEF Row, Column
<1>3. CASE ~(u \in Authors(t) /\ k = t.key)
  <2>1. rows'[u][k] = rows[u][k]
    BY <1>3 DEF TakedownWrite, TypeOK
  <2> QED BY <1>3, <2>1
<1> QED BY <1>2, <1>3

\* A takedown that ran alone leaves the space's other entries in order: only
\* its authors' rows carried the space.
LEMMA TakedownWriteSerial ==
    ASSUME SerialInv, NEW v \in Users, TakedownWrite(v), ~overlapped
    PROVE  Serial'
<1> DEFINE t == takedown[v]
<1>1. TypeOK /\ Serial /\ t \in Takedown /\ takedown[v] # None
  BY DEF SerialInv, StampInv, TakedownWrite, TypeOK
<1>2. takedown' = [takedown EXCEPT ![v] = None] /\ push' = push
      /\ removals' = [removals EXCEPT ![t.space] = [removals[t.space] EXCEPT ![t.key] = t.ts]]
  BY DEF TakedownWrite
<1>3. (\A d \in Devices : push'[d].pc = "idle") /\ (\A u \in Users : takedown'[u] = None)
  BY <1>1, <1>2 DEF Serial, Alone, TypeOK
<1>4. \A u \in Users, k \in Keys : rows'[u][k].spaces \subseteq rows[u][k].spaces
  BY <1>1, WriteEffect
<1>5. NoRivals'
  BY <1>1, <1>4 DEF Serial, NoRivals
<1>6. ASSUME NEW u \in Users, NEW s \in Spaces, NEW k \in Keys, s \in rows'[u][k].spaces
      PROVE  rows'[u][k].ts >= removals'[s][k] /\ rows'[u][k].state # "absent"
  <2>1. s \in rows[u][k].spaces /\ rows[u][k].ts >= removals[s][k] /\ rows[u][k].state # "absent"
    BY <1>1, <1>4, <1>6 DEF Serial, RowsInOrder
  <2>2. rows'[u][k].state # "absent"
    BY <1>1, <2>1, WriteEffect
  <2>3. ~(s = t.space /\ k = t.key)
    <3>1. SUFFICES ASSUME s = t.space, k = t.key PROVE FALSE
      OBVIOUS
    <3>2. PICK o \in Authors(t) : s \in rows[o][k].spaces
      BY <1>1, <3>1 DEF Serial, SerialTakedown
    <3>3. o = u
      BY <1>1, <2>1, <3>2 DEF Serial, NoRivals, Authors
    <3> QED BY <1>1, <1>6, <3>1, <3>2, <3>3, WriteEffect
  <2>4. removals'[s][k] = removals[s][k]
    BY <1>1, <1>2, <2>3 DEF TypeOK, Takedown
  <2>5. rows'[u][k].ts = rows[u][k].ts \/ (rows'[u][k].ts = t.ts /\ k = t.key)
    BY <1>1, WriteEffect
  <2>6. k = t.key => t.ts >= rows[u][k].ts
    BY <1>1 DEF Serial, SerialTakedown
  <2>7. t.ts \in Nat /\ rows[u][k].ts \in Nat /\ removals[s][k] \in Nat
    BY <1>1 DEF TypeOK, Takedown, Row
  <2> QED BY <2>1, <2>2, <2>4, <2>5, <2>6, <2>7
<1>7. RowsInOrder'
  BY <1>6 DEF RowsInOrder
<1> QED BY <1>3, <1>5, <1>7 DEF Serial, Alone, SerialPush, SerialTakedown

\* The invariant of the serial properties.
LEMMA NextSerial == SerialInv /\ [Next]_vars => SerialInv'
<1> SUFFICES ASSUME SerialInv, [Next]_vars, ~overlapped' PROVE Serial'
  BY NextStamp DEF SerialInv
<1>1. TypeOK
  BY DEF SerialInv, StampInv
<1>2. ASSUME NEW u \in Users, TakedownStep(u) PROVE Serial'
  <2>1. ASSUME NEW s \in Spaces, NEW k \in Keys, TakedownRead(u, s, k) PROVE Serial'
    BY <2>1, ReadSerial
  <2>2. CASE TakedownWrite(u)
    <3>1. ~overlapped
      BY <2>2 DEF TakedownWrite
    <3> QED BY <2>2, <3>1, TakedownWriteSerial
  <2>3. CASE TakedownAbort(u)
    <3>1. /\ Serial /\ rows' = rows /\ removals' = removals /\ push' = push /\ members' = members
          /\ takedown[u] # None /\ takedown' = [takedown EXCEPT ![u] = None]
      BY <2>3 DEF TakedownAbort, SerialInv, history
    <3>2. (\A d \in Devices : push'[d].pc = "idle") /\ (\A v \in Users : takedown'[v] = None)
      BY <1>1, <3>1 DEF Serial, Alone, TypeOK
    <3> QED BY <3>1, <3>2
            DEF Serial, Alone, NoRivals, RowsInOrder, SerialPush, SerialTakedown
  <2> QED BY <1>2, <2>1, <2>2, <2>3 DEF TakedownStep
<1>3. ASSUME NEW u \in Users, NEW s \in Spaces, Join(u, s) PROVE Serial'
  <2>1. /\ Serial /\ rows' = rows /\ removals' = removals /\ push' = push /\ takedown' = takedown
    BY <1>3 DEF Join, SerialInv, history
  <2>2. \A r \in Spaces : members[r] \subseteq members'[r]
    BY <1>1, <1>3 DEF Join, TypeOK
  <2>3. ASSUME NEW d \in Devices PROVE SerialPush(d)'
    <3>1. SerialPush(d) /\ DeviceUser[d] \in Users
      BY <2>1, StoreConstants DEF Serial
    <3>2. View(d)' = View(d)
      BY <2>1 DEF View
    <3>3. \A k \in Keys, r \in Spaces : Sound(d, DeviceUser[d], k, r) => Sound(d, DeviceUser[d], k, r)'
      BY <2>1, <2>2, <3>2 DEF Sound
    <3>4. (MayAdd(d) => MayAdd(d)') /\ Rival(d)' = Rival(d) /\ (Fresh(d) => Fresh(d)')
      BY <1>1, <2>1, <1>3 DEF MayAdd, Rival, Added, Fresh, Join, TypeOK
    <3> QED BY <2>1, <3>1, <3>2, <3>3, <3>4 DEF SerialPush, Stamped
  <2> QED BY <2>1, <2>3 DEF Serial, Alone, NoRivals, RowsInOrder, SerialTakedown
<1>4. ASSUME Arrive, rows' = rows, removals' = removals, push' = push, takedown' = takedown
      PROVE  Serial'
  <2>1. Quiet /\ Serial
    BY <1>1, <1>4, ArriveQuiet DEF SerialInv
  <2> QED BY <1>4, <2>1
          DEF Quiet, Serial, Alone, NoRivals, RowsInOrder, SerialPush, SerialTakedown
<1>5. CASE Tick \/ UNCHANGED vars
  <2>1. /\ Serial /\ rows' = rows /\ removals' = removals /\ push' = push /\ members' = members
        /\ takedown' = takedown
    BY <1>5 DEF Tick, vars, SerialInv, history
  <2> QED BY <2>1 DEF Serial, Alone, NoRivals, RowsInOrder, SerialPush, SerialTakedown,
                      Sound, View, Overlay, Authors, Stamped, Fresh, MayAdd, Rival, Added
<1> QED BY <1>1, <1>2, <1>3, <1>4, <1>5, PushStepSerial, OtherFrame
        DEF Next, MembershipStep, Leave, DeleteSpace

\* One entry, one author in every space, as long as no two transactions overlap.
THEOREM SpecOneAuthorPerSpace == Spec => []OneAuthorPerSpace
<1>1. SerialInv => OneAuthorPerSpace
  BY DEF SerialInv, Serial, OneAuthorPerSpace
<1> QED BY <1>1, InitSerial, NextSerial, PTL DEF Spec

\* An entry that is in a space is not older than the record of its last
\* departure from it, as long as no two transactions overlap.
THEOREM SpecRowNotOlderThanRemoval == Spec => []RowNotOlderThanRemoval
<1>1. SerialInv => RowNotOlderThanRemoval
  BY DEF SerialInv, Serial, RowsInOrder, RowNotOlderThanRemoval
<1> QED BY <1>1, InitSerial, NextSerial, PTL DEF Spec

\* What a step may do to the rows while no two transactions have overlapped:
\* rows gain only spaces their account is in, and leave no space unrecorded.
LEMMA StepInOrder ==
    ASSUME SerialInv, Next, ~overlapped', NEW u \in Users, NEW k \in Keys
    PROVE  /\ \A s \in rows'[u][k].spaces \ rows[u][k].spaces : u \in members[s]
           /\ \A s \in rows[u][k].spaces \ rows'[u][k].spaces :
                 removals'[s][k] # 0 /\ removals'[s][k] >= rows[u][k].ts
<1>1. TypeOK /\ Clock
  BY DEF SerialInv, StampInv
<1>2. ASSUME NEW d \in Devices, PushCommit(d)
      PROVE  /\ \A s \in rows'[u][k].spaces \ rows[u][k].spaces : u \in members[s]
             /\ \A s \in rows[u][k].spaces \ rows'[u][k].spaces :
                   removals'[s][k] # 0 /\ removals'[s][k] >= rows[u][k].ts
  <2>1. SerialPush(d) /\ push[d].pc = "open" /\ rows' = [rows EXCEPT ![DeviceUser[d]] = View(d)]
    BY <1>2 DEF PushCommit, SerialInv, Serial
  <2>2. \A s \in Spaces : removals'[s][k] = IF push[d].left[s][k] = 0 THEN removals[s][k]
                                            ELSE push[d].left[s][k]
    BY <1>2 DEF PushCommit
  <2>3. CASE u = DeviceUser[d]
    <3>1. rows'[u][k] = View(d)[k] /\ View(d)[k] \in Row /\ rows[u][k] \in Row
      BY <1>1, <2>1, <2>3, ViewType DEF TypeOK
    <3>2. \A s \in Spaces : Sound(d, u, k, s)
      BY <2>1, <2>3 DEF SerialPush
    <3> QED BY <2>2, <3>1, <3>2 DEF Sound, Row
  <2>4. CASE u # DeviceUser[d]
    BY <1>1, <2>1, <2>4 DEF TypeOK
  <2> QED BY <2>3, <2>4
<1>3. ASSUME NEW v \in Users, TakedownWrite(v)
      PROVE  /\ \A s \in rows'[u][k].spaces \ rows[u][k].spaces : u \in members[s]
             /\ \A s \in rows[u][k].spaces \ rows'[u][k].spaces :
                   removals'[s][k] # 0 /\ removals'[s][k] >= rows[u][k].ts
  <2> DEFINE t == takedown[v]
  <2>1. Serial /\ t \in Takedown /\ t # None
    BY <1>1, <1>3 DEF TakedownWrite, SerialInv, TypeOK
  <2>2. rows'[u][k].spaces = rows[u][k].spaces
            \ (IF u \in Authors(t) /\ k = t.key THEN {t.space} ELSE {})
    BY <1>1, <1>3, <2>1, WriteEffect
  <2>3. removals'[t.space][t.key] = t.ts
    BY <1>1, <1>3, <2>1 DEF TakedownWrite, TypeOK, Takedown
  <2>4. t.ts # 0 /\ t.ts >= rows[u][t.key].ts
    BY <1>1, <2>1 DEF Clock, Serial, SerialTakedown, Takedown
  <2> QED BY <2>2, <2>3, <2>4
<1>4. ASSUME rows' = rows
      PROVE  /\ \A s \in rows'[u][k].spaces \ rows[u][k].spaces : u \in members[s]
             /\ \A s \in rows[u][k].spaces \ rows'[u][k].spaces :
                   removals'[s][k] # 0 /\ removals'[s][k] >= rows[u][k].ts
  BY <1>4
<1> QED BY <1>1, <1>2, <1>3, <1>4, PushFrame, TakedownFrame, OtherFrame DEF Next

\* A row gains only spaces its account is a member of, as long as no two
\* transactions overlap.
THEOREM SpecMembersOnly == Spec => MembersOnly
<1>1. SerialInv /\ [Next]_vars =>
        [\A u \in Users, k \in Keys :
           ~overlapped' => \A s \in rows'[u][k].spaces \ rows[u][k].spaces : u \in members[s]]_vars
  BY StepInOrder
<1> QED BY <1>1, InitSerial, NextSerial, PTL DEF Spec, MembersOnly

\* An entry leaves no space without a record that reaches every device which
\* has pulled it, as long as no two transactions overlap.
THEOREM SpecLeavingIsRecorded == Spec => LeavingIsRecorded
<1>1. SerialInv /\ [Next]_vars => [overlapped' \/ Recorded]_vars
  BY StepInOrder DEF Recorded, SerialInv, StampInv, TypeOK
<1> QED BY <1>1, InitSerial, NextSerial, PTL DEF Spec, LeavingIsRecorded
=============================================================================
