--------------------------- MODULE SyncPullProofs ----------------------------
(***************************************************************************)
(* Proofs about SyncPull, for every set of keys and writers, every page    *)
(* limit, floor and bound: its types, that a page is complete to the       *)
(* cursor it ends on and moves it forward, and that a device never steps   *)
(* over an entry or a withdrawal.                                          *)
(***************************************************************************)
EXTENDS SyncPull, FiniteSetTheorems, TLAPS

-----------------------------------------------------------------------------
(* The highest and lowest of some stamps *)

\* A family of subsets of a finite set has a minimal member.
LEMMA MinimalSubset ==
    ASSUME NEW T, IsFiniteSet(T), NEW F, F \subseteq SUBSET T, F # {}
    PROVE  \E A \in F : \A B \in F : B \subseteq A => B = A
<1>1. IsWellFoundedOn(StrictSubsetOrdering(T), FiniteSubsetsOf(T))
  BY FS_StrictSubsetOrderingWellFounded
<1>2. F \subseteq FiniteSubsetsOf(T)
  BY FS_FiniteSubsetsOfFinite
<1>3. \E A \in F : \A B \in F : <<B, A>> \notin StrictSubsetOrdering(T)
  BY <1>1, <1>2, WFMin
<1> QED
  BY <1>3 DEF StrictSubsetOrdering

\* A non-empty finite set of stamps has a highest member and a lowest one.
LEMMA Extremes ==
    ASSUME NEW T, T # {}, T \subseteq Nat, IsFiniteSet(T)
    PROVE  /\ \E t \in T : \A u \in T : u <= t
           /\ \E t \in T : \A u \in T : t <= u
<1> DEFINE Over(t) == {u \in T : u > t}
           Under(t) == {u \in T : u < t}
<1>1. \E t \in T : \A u \in T : u <= t
  <2> DEFINE F == {Over(t) : t \in T}
  <2>1. F \subseteq SUBSET T /\ F # {}
    OBVIOUS
  <2> HIDE DEF F
  <2>2. PICK A \in F : \A B \in F : B \subseteq A => B = A
    <3>1. \E A \in F : \A B \in F : B \subseteq A => B = A
      BY ONLY <2>1, IsFiniteSet(T), MinimalSubset
    <3> QED
      BY <3>1
  <2>3. PICK t \in T : A = Over(t)
    BY <2>2 DEF F
  <2>4. ASSUME NEW u \in T, u > t PROVE FALSE
    <3>1. u \in Nat /\ t \in Nat
      OBVIOUS
    <3>2. Over(u) \in F
      BY DEF F
    <3>3. Over(u) \subseteq A
      <4> SUFFICES ASSUME NEW v \in T, v > u PROVE v > t
        BY <2>3
      <4>1. v \in Nat
        OBVIOUS
      <4> QED
        BY <2>4, <3>1, <4>1
    <3>4. Over(u) = A
      BY <2>2, <3>2, <3>3
    <3>5. u \in A /\ u \notin Over(u)
      BY <2>3, <2>4, <3>1
    <3> QED
      BY <3>4, <3>5
  <2>5. \A u \in T : u \in Nat /\ t \in Nat
    OBVIOUS
  <2> QED
    BY <2>4, <2>5
<1>2. \E t \in T : \A u \in T : t <= u
  <2> DEFINE F == {Under(t) : t \in T}
  <2>1. F \subseteq SUBSET T /\ F # {}
    OBVIOUS
  <2> HIDE DEF F
  <2>2. PICK A \in F : \A B \in F : B \subseteq A => B = A
    <3>1. \E A \in F : \A B \in F : B \subseteq A => B = A
      BY ONLY <2>1, IsFiniteSet(T), MinimalSubset
    <3> QED
      BY <3>1
  <2>3. PICK t \in T : A = Under(t)
    BY <2>2 DEF F
  <2>4. ASSUME NEW u \in T, u < t PROVE FALSE
    <3>1. u \in Nat /\ t \in Nat
      OBVIOUS
    <3>2. Under(u) \in F
      BY DEF F
    <3>3. Under(u) \subseteq A
      <4> SUFFICES ASSUME NEW v \in T, v < u PROVE v < t
        BY <2>3
      <4>1. v \in Nat
        OBVIOUS
      <4> QED
        BY <2>4, <3>1, <4>1
    <3>4. Under(u) = A
      BY <2>2, <3>2, <3>3
    <3>5. u \in A /\ u \notin Under(u)
      BY <2>3, <2>4, <3>1
    <3> QED
      BY <3>4, <3>5
  <2>5. \A u \in T : u \in Nat /\ t \in Nat
    OBVIOUS
  <2> QED
    BY <2>4, <2>5
<1> QED
  BY <1>1, <1>2

\* `Highest` is a member of the set it is asked for, and an upper bound of it.
LEMMA HighestIs ==
    ASSUME NEW n \in Nat, NEW S \in SUBSET (0..n), NEW least \in 0..n
    PROVE  /\ Highest(S, least) \in S \cup {least}
           /\ Highest(S, least) \in 0..n
           /\ \A u \in S \cup {least} : u <= Highest(S, least)
<1>1. S \cup {least} \subseteq Nat /\ IsFiniteSet(S \cup {least})
  BY FS_BoundedSetOfNaturals
<1>2. \E t \in S \cup {least} : \A u \in S \cup {least} : u <= t
  BY <1>1, Extremes
<1> QED
  BY <1>2 DEF Highest

-----------------------------------------------------------------------------
(* A page *)

\* A set of more rows than the limit has a boundary: a stamp with at most Limit
\* rows below it and more than Limit up to it.
LEMMA BoundaryIs ==
    ASSUME PullConstants, NEW S \in SUBSET Keys, NEW stamp \in [Keys -> 0..MaxNow],
           ~ (Cardinality(S) <= Limit)
    PROVE  Boundary(S, stamp) \in Stamps(S, stamp)
<1> DEFINE T == Stamps(S, stamp)
           Long == {t \in T : Cardinality(UpTo(S, stamp, t)) > Limit}
<1>1. IsFiniteSet(S) /\ Cardinality(S) \in Nat /\ Cardinality(S) > Limit
  BY FS_Subset, FS_CardinalityType DEF PullConstants
<1>2. \A P \in SUBSET S : IsFiniteSet(P) /\ Cardinality(P) \in Nat
  BY <1>1, FS_Subset, FS_CardinalityType
<1>3. S # {}
  BY <1>1, FS_EmptySet DEF PullConstants
<1>4. T \subseteq Nat /\ T \subseteq 0..MaxNow /\ T # {}
  BY <1>3 DEF Stamps
<1>5. \A U \in SUBSET T : IsFiniteSet(U)
  <2>1. MaxNow \in Nat /\ \A t \in T : t <= MaxNow
    BY <1>4 DEF PullConstants
  <2> HIDE DEF T
  <2> QED
    BY <1>4, <2>1, FS_BoundedSetOfNaturals
<1>6. PICK top \in T : \A u \in T : u <= top
  BY <1>4, <1>5, Extremes
<1>7. UpTo(S, stamp, top) = S
  BY <1>6 DEF UpTo, Stamps
<1>8. Long # {} /\ Long \subseteq Nat /\ IsFiniteSet(Long)
  BY <1>1, <1>4, <1>5, <1>6, <1>7
<1> HIDE DEF Long
<1>9. PICK b \in Long : \A u \in Long : b <= u
  BY <1>8, Extremes
<1>10. Cardinality(Below(S, stamp, b)) <= Limit
  <2> DEFINE U == Stamps(Below(S, stamp, b), stamp)
  <2>1. CASE Below(S, stamp, b) = {}
    BY <2>1, FS_EmptySet DEF PullConstants
  <2>2. CASE Below(S, stamp, b) # {}
    <3>1. U \subseteq T /\ U # {} /\ U \subseteq Nat /\ IsFiniteSet(U)
      BY <1>4, <1>5, <2>2 DEF Stamps, Below
    <3> HIDE DEF U
    <3>2. PICK m \in U : \A u \in U : u <= m
      BY <3>1, Extremes
    <3>3. m \in T /\ m < b /\ UpTo(S, stamp, m) = Below(S, stamp, b)
      BY <1>4, <1>8, <1>9, <3>1, <3>2 DEF U, Stamps, Below, UpTo
    <3>4. m \notin Long
      BY <1>4, <1>8, <1>9, <3>3
    <3>5. Cardinality(UpTo(S, stamp, m)) \in Nat
      BY <1>2 DEF UpTo
    <3> QED
      BY <3>3, <3>4, <3>5 DEF Long, PullConstants
  <2> QED
    BY <2>1, <2>2
<1>11. b \in T /\ Cardinality(UpTo(S, stamp, b)) > Limit
  BY <1>9 DEF Long
<1> QED
  BY <1>10, <1>11 DEF Boundary

\* _page never splits a timestamp and always gets somewhere: a page that was cut
\* short ends on a cursor after the one it was asked from, and holds every row
\* stamped at or before it; one that was not holds every row.
LEMMA PageIsComplete ==
    ASSUME PullConstants, NEW S \in SUBSET Keys, NEW stamp \in [Keys -> 0..MaxNow],
           NEW after \in 0..MaxNow, \A k \in S : stamp[k] > after
    PROVE  /\ Page(S, stamp).rows \subseteq S
           /\ Page(S, stamp).next \in 0..MaxNow
           /\ Page(S, stamp).next = CaughtUp => Page(S, stamp).rows = S
           /\ Page(S, stamp).next # CaughtUp =>
                /\ Page(S, stamp).next > after
                /\ \A k \in S : stamp[k] <= Page(S, stamp).next => k \in Page(S, stamp).rows
<1>1. CASE Cardinality(S) <= Limit
  BY <1>1 DEF Page, CaughtUp, PullConstants
<1>2. CASE ~ (Cardinality(S) <= Limit)
  <2> DEFINE b == Boundary(S, stamp)
             below == Below(S, stamp, b)
  <2>1. b \in Stamps(S, stamp)
    BY <1>2, BoundaryIs
  <2>2. b \in 0..MaxNow /\ b > after
    BY <2>1 DEF Stamps
  <2>3. CASE below # {}
    <3> DEFINE h == Highest(Stamps(below, stamp), 0)
    <3>1. Page(S, stamp) = [rows |-> below, next |-> h]
      BY <1>2, <2>3 DEF Page
    <3>2. Stamps(below, stamp) \in SUBSET (0..MaxNow) /\ 0 \in 0..MaxNow /\ MaxNow \in Nat
      BY DEF Stamps, Below, PullConstants
    <3>3. /\ h \in Stamps(below, stamp) \cup {0} /\ h \in 0..MaxNow
          /\ \A u \in Stamps(below, stamp) \cup {0} : u <= h
      BY <3>2, HighestIs
    <3>4. PICK k \in below : TRUE
      BY <2>3
    <3>5. stamp[k] > after /\ stamp[k] <= h /\ stamp[k] \in 0..MaxNow
      BY <3>3, <3>4 DEF Stamps, Below
    <3>6. h > after /\ h \in Stamps(below, stamp)
      BY <3>3, <3>5
    <3>7. h < b
      BY <3>6 DEF Stamps, Below
    <3>8. \A j \in S : stamp[j] <= h => j \in below
      BY <2>2, <3>3, <3>7 DEF Below
    <3> QED
      BY <3>1, <3>3, <3>6, <3>8 DEF CaughtUp, Below
  <2>4. CASE below = {}
    <3>1. Page(S, stamp) = [rows |-> UpTo(S, stamp, b), next |-> b]
      BY <1>2, <2>4 DEF Page
    <3> QED
      BY <2>2, <3>1 DEF CaughtUp, UpTo
  <2> QED
    BY <2>3, <2>4
<1> QED
  BY <1>1, <1>2

-----------------------------------------------------------------------------
(* Types *)

\* The pages of the two statements.
LEMMA EntriesPage ==
    ASSUME PullConstants, TypeOK
    PROVE  LET page == Page(NewEntries, Stamp)
           IN /\ page.rows \subseteq NewEntries
              /\ page.next \in 0..MaxNow
              /\ page.next = CaughtUp => page.rows = NewEntries
              /\ page.next # CaughtUp =>
                   /\ page.next > cursor
                   /\ \A k \in NewEntries : rows[k].ts <= page.next => k \in page.rows
<1>1. Stamp \in [Keys -> 0..MaxNow] /\ \A k \in Keys : Stamp[k] = rows[k].ts
  BY DEF TypeOK, Row, Stamp
<1>2. NewEntries \in SUBSET Keys /\ cursor \in 0..MaxNow /\ \A k \in NewEntries : Stamp[k] > cursor
  BY <1>1 DEF NewEntries, TypeOK
<1> HIDE DEF Stamp
<1> QED
  BY <1>1, <1>2, PageIsComplete

LEMMA RemovalsPage ==
    ASSUME PullConstants, TypeOK
    PROVE  LET page == Page(NewRemovals, removals)
           IN /\ page.rows \subseteq NewRemovals
              /\ page.next \in 0..MaxNow
              /\ page.next = CaughtUp => page.rows = NewRemovals
              /\ page.next # CaughtUp =>
                   /\ page.next > cursor
                   /\ \A k \in NewRemovals : removals[k] <= page.next => k \in page.rows
<1>1. /\ removals \in [Keys -> 0..MaxNow] /\ NewRemovals \in SUBSET Keys
      /\ cursor \in 0..MaxNow /\ \A k \in NewRemovals : removals[k] > cursor
  BY DEF NewRemovals, TypeOK
<1> QED
  BY <1>1, PageIsComplete

\* The cursor a pull leaves is a stamp, not below the one it started from.
LEMMA ResumedIs ==
    ASSUME PullConstants, TypeOK, NEW next \in 0..MaxNow, next # CaughtUp => next > cursor
    PROVE  Resumed(next) \in 0..MaxNow /\ Resumed(next) >= cursor
<1>1. {pull.found[k].ts : k \in pull.page} \in SUBSET (0..MaxNow)
  BY DEF TypeOK, Row
<1>2. cursor \in 0..MaxNow /\ MaxNow \in Nat
  BY DEF TypeOK, PullConstants
<1> DEFINE S == {pull.found[k].ts : k \in pull.page}
<1> HIDE DEF S
<1>3. Highest(S, cursor) \in 0..MaxNow /\ Highest(S, cursor) >= cursor
  BY <1>1, <1>2, HighestIs DEF S
<1> QED
  BY <1>2, <1>3 DEF Resumed, S

\* The merged truncation point is neither stream's own past the other's.
LEMMA MergeIs ==
    ASSUME NEW e \in Nat, NEW r \in Nat
    PROVE  /\ Merge(e, r) \in {e, r}
           /\ Merge(e, r) = CaughtUp => e = CaughtUp /\ r = CaughtUp
           /\ e # CaughtUp => Merge(e, r) <= e
           /\ r # CaughtUp => Merge(e, r) <= r
  BY DEF Merge, CaughtUp

\* What a pull under way guarantees about its page of entries as long as nothing
\* is committed after its first statement.
Honest ==
    pull.open => /\ pull.next # CaughtUp => pull.next > cursor
                 /\ skewed \/
                      /\ \A k \in pull.page : pull.found[k] = rows[k]
                      /\ \A k \in NewEntries :
                           pull.next = CaughtUp \/ rows[k].ts <= pull.next => k \in pull.page

\* The types as a step needs them.
TypeInv == TypeOK /\ (pull.open /\ pull.next # CaughtUp => pull.next > cursor)

LEMMA InitType == PullConstants /\ Init => TypeInv
<1> SUFFICES ASSUME PullConstants, Init PROVE TypeInv
  OBVIOUS
<1>1. Nothing \in Row /\ 0 \in 0..MaxNow /\ 1 \in 1..MaxNow
  BY DEF PullConstants, Nothing, Row
<1>2. /\ pull \in [open: BOOLEAN, page: SUBSET Keys, found: [Keys -> Row], next: 0..MaxNow]
      /\ ~pull.open
  BY <1>1 DEF Init, NoPull, CaughtUp
<1>7. [ts |-> 1, shared |-> TRUE] \in Row
  BY <1>1 DEF Row
<1>3. rows \in [Keys -> Row] /\ held \in [Keys -> Row] /\ txn \in [Writers -> [Keys -> Row]]
  BY <1>1, <1>7 DEF Init
<1>4. /\ removals \in [Keys -> 0..MaxNow] /\ cursor \in 0..MaxNow /\ scanned \in 0..MaxNow
      /\ now \in 1..MaxNow
  BY <1>1 DEF Init
<1>5. writes \in 0..MaxWrites /\ lost \in 0..MaxLost
  BY SMT DEF Init, PullConstants
<1>6. behind \in BOOLEAN /\ skewed \in BOOLEAN
  BY Zenon DEF Init
<1> QED
  BY <1>2, <1>3, <1>4, <1>5, <1>6 DEF TypeInv, TypeOK

\* The cursor and the mark a pull's second statement leaves.
LEMMA PullRemovalsMoves ==
    ASSUME PullConstants, TypeInv, PullRemovals
    PROVE  /\ cursor' \in 0..MaxNow /\ cursor' >= cursor
           /\ scanned' \in 0..MaxNow /\ scanned' >= cursor'
<1> DEFINE page == Page(NewRemovals, removals)
           next == Merge(pull.next, page.next)
           S == {removals[k] : k \in page.rows} \cup {cursor'}
<1>1. page.rows \subseteq Keys /\ page.next \in 0..MaxNow /\ (page.next # CaughtUp => page.next > cursor)
  BY RemovalsPage DEF TypeInv, NewRemovals
<1>2. pull.next \in 0..MaxNow /\ (pull.next # CaughtUp => pull.next > cursor)
  BY DEF TypeInv, TypeOK, PullRemovals
<1> HIDE DEF page
<1>3. next \in 0..MaxNow /\ (next # CaughtUp => next > cursor)
  BY <1>1, <1>2, MergeIs DEF CaughtUp
<1>4. cursor' = Resumed(next) /\ scanned' = Highest(S, scanned)
  BY DEF PullRemovals, page
<1> HIDE DEF next, S
<1>5. cursor' \in 0..MaxNow /\ cursor' >= cursor
  BY <1>3, <1>4, ResumedIs DEF TypeInv
<1>6. S \in SUBSET (0..MaxNow) /\ cursor' \in S /\ scanned \in 0..MaxNow /\ MaxNow \in Nat
  BY <1>1, <1>5 DEF S, TypeInv, TypeOK, PullConstants
<1>7. scanned' \in 0..MaxNow /\ scanned' >= cursor'
  BY <1>4, <1>6, HighestIs
<1> QED
  BY <1>5, <1>7

LEMMA NextType == PullConstants /\ TypeInv /\ [Next]_vars => TypeInv'
<1> SUFFICES ASSUME PullConstants, TypeInv, [Next]_vars PROVE TypeInv'
  OBVIOUS
<1> USE DEF TypeInv, PullConstants
<1>1. ASSUME NEW w \in Writers, NEW k \in Keys, NEW shared \in BOOLEAN, Write(w, k, shared)
      PROVE  TypeInv'
  <2>0. PICK stamp \in 1..now :
           txn' = [txn EXCEPT ![w] = [txn[w] EXCEPT ![k] = [ts |-> stamp, shared |-> shared]]]
    BY <1>1 DEF Write
  <2>1. [ts |-> stamp, shared |-> shared] \in Row
    BY DEF TypeOK, Row
  <2>2. txn' \in [Writers -> [Keys -> Row]]
    BY <2>0, <2>1 DEF TypeOK
  <2> QED
    BY <1>1, <2>2 DEF Write, TypeOK, device
<1>2. ASSUME NEW w \in Writers, Commit(w) PROVE TypeInv'
  <2>1. rows' \in [Keys -> Row] /\ removals' \in [Keys -> 0..MaxNow]
    BY <1>2 DEF Commit, TypeOK, Row, Wrote
  <2>2. txn' \in [Writers -> [Keys -> Row]] /\ behind' \in BOOLEAN /\ skewed' \in BOOLEAN
    BY <1>2 DEF Commit, TypeOK, Row, Nothing
  <2> QED
    BY <1>2, <2>1, <2>2 DEF Commit, TypeOK, device
<1>3. ASSUME NEW w \in Writers, Abort(w) PROVE TypeInv'
  BY <1>3 DEF Abort, TypeOK, Row, Nothing, device
<1>4. CASE Tick
  BY <1>4 DEF Tick, TypeOK, device
<1>5. CASE PullEntries
  <2> DEFINE page == Page(NewEntries, Stamp)
             S == {rows[k].ts : k \in page.rows}
  <2>1. page.rows \subseteq Keys /\ page.next \in 0..MaxNow /\ (page.next # CaughtUp => page.next > cursor)
    BY EntriesPage DEF NewEntries
  <2>2. /\ pull' = [open |-> TRUE, page |-> page.rows, next |-> page.next,
                    found |-> [k \in Keys |-> IF k \in page.rows THEN rows[k] ELSE Nothing]]
        /\ scanned' = Highest(S, scanned)
    BY <1>5 DEF PullEntries
  <2> HIDE DEF page
  <2>3. S \in SUBSET (0..MaxNow) /\ scanned \in 0..MaxNow /\ MaxNow \in Nat
    BY <2>1 DEF TypeOK, Row
  <2> HIDE DEF S
  <2>4. scanned' \in 0..MaxNow
    BY <2>2, <2>3, HighestIs
  <2>5. [k \in Keys |-> IF k \in page.rows THEN rows[k] ELSE Nothing] \in [Keys -> Row]
    BY DEF TypeOK, Row, Nothing
  <2>6. pull' \in [open: BOOLEAN, page: SUBSET Keys, found: [Keys -> Row], next: 0..MaxNow]
    BY <2>1, <2>2, <2>5
  <2>7. pull'.next # CaughtUp => pull'.next > cursor
    BY <2>1, <2>2
  <2> QED
    BY <1>5, <2>4, <2>6, <2>7 DEF PullEntries, TypeOK, server
<1>6. CASE PullRemovals
  <2>1. cursor' \in 0..MaxNow /\ scanned' \in 0..MaxNow
    BY <1>6, PullRemovalsMoves
  <2>2. \A gone \in SUBSET Keys : Applied(gone) \in [Keys -> Row]
    <3>1. \A k \in Keys : held[k] \in Row /\ pull.found[k] \in Row
      BY DEF TypeOK
    <3>2. \A k \in Keys :
            [held[k] EXCEPT !.shared = FALSE, !.ts = IF k \in Mine THEN held[k].ts ELSE 0] \in Row
      <4> TAKE k \in Keys
      <4>1. held[k] = [ts |-> held[k].ts, shared |-> held[k].shared] /\ held[k].ts \in 0..MaxNow
        BY <3>1 DEF Row
      <4>2. (IF k \in Mine THEN held[k].ts ELSE 0) \in 0..MaxNow
        BY <4>1
      <4> QED
        BY <4>1, <4>2 DEF Row
    <3> QED
      BY <3>1, <3>2 DEF Applied
  <2>3. Page(NewRemovals, removals).rows \in SUBSET Keys
    BY RemovalsPage DEF NewRemovals
  <2>4. held' \in [Keys -> Row]
    BY <1>6, <2>2, <2>3 DEF PullRemovals
  <2>5. pull' = NoPull
    BY <1>6 DEF PullRemovals
  <2>6. pull' \in [open: BOOLEAN, page: SUBSET Keys, found: [Keys -> Row], next: 0..MaxNow] /\ ~pull'.open
    BY <2>5 DEF NoPull, Nothing, Row, CaughtUp
  <2> QED
    BY <1>6, <2>1, <2>4, <2>6 DEF PullRemovals, TypeOK, server
<1>7. CASE PullLost
  BY <1>7 DEF PullLost, TypeOK, NoPull, Nothing, Row, CaughtUp, server
<1>8. CASE UNCHANGED vars
  BY <1>8 DEF vars, TypeOK
<1> QED
  BY <1>1, <1>2, <1>3, <1>4, <1>5, <1>6, <1>7, <1>8 DEF Next, WriterStep

\* The cursor, the pages and the entries a device holds keep their types.
THEOREM SpecPullTypeOK == Spec => []TypeOK
<1>1. Init => TypeInv
  BY PullConstants, InitType
<1>2. TypeInv /\ [Next]_vars => TypeInv'
  BY PullConstants, NextType
<1>3. TypeInv => TypeOK
  BY DEF TypeInv
<1> QED
  BY <1>1, <1>2, <1>3, PTL DEF Spec

-----------------------------------------------------------------------------
(* Nothing is stepped over *)

\* A clock that does not go back, and no row committed below its last stamp, keep
\* a record of a departure at or below the row it left.
Clock ==
    \A k \in Keys : rows[k].ts <= now /\ (behind \/ removals[k] <= rows[k].ts)

Uncommitted ==
    \A w \in Writers, k \in Keys :
        k \in Wrote(w) => /\ txn[w][k].ts <= now
                         /\ \A o \in Writers : k \in Wrote(o) => o = w

Passed == cursor <= scanned

\* The inductive invariant: what a pull under way has read is still so, and what
\* lies behind the cursor is on the device.
PullInv == TypeInv /\ Clock /\ Uncommitted /\ Passed /\ Honest /\ CompleteToCursor

LEMMA InitPull == PullConstants /\ Init => PullInv
<1> SUFFICES ASSUME PullConstants, Init PROVE PullInv
  OBVIOUS
<1>1. Clock /\ Uncommitted /\ Passed
  BY DEF Init, Clock, Uncommitted, Passed, Nothing, Wrote
<1>2. Honest
  BY DEF Init, Honest, NoPull
<1>3. CompleteToCursor
  BY DEF Init, CompleteToCursor, Complete, Withdrawn, Nothing
<1> QED
  BY <1>1, <1>2, <1>3, InitType DEF PullInv

LEMMA CommitKeeps ==
    ASSUME PullConstants, PullInv, NEW w \in Writers, Commit(w)
    PROVE  Clock' /\ Uncommitted' /\ Passed' /\ Honest' /\ CompleteToCursor'
<1> USE DEF PullInv, TypeInv
<1>1. \A k \in Keys : /\ rows[k] \in Row /\ rows[k].ts \in 0..MaxNow
                      /\ removals[k] \in 0..MaxNow
                      /\ \A o \in Writers : txn[o][k] \in Row /\ txn[o][k].ts \in 0..MaxNow
  BY DEF TypeOK, Row
<1>2. now \in Nat /\ cursor \in Nat /\ scanned \in Nat
  BY DEF TypeOK, PullConstants
<1>3. /\ \A k \in Keys : rows'[k] = IF k \in Wrote(w) THEN txn[w][k] ELSE rows[k]
      /\ \A k \in Keys : removals'[k] =
           IF k \in Wrote(w) /\ rows[k].shared /\ ~txn[w][k].shared THEN txn[w][k].ts ELSE removals[k]
      /\ \A o \in Writers, k \in Keys : txn'[o][k] = IF o = w THEN Nothing ELSE txn[o][k]
      /\ behind' = (behind \/ \E k \in Wrote(w) : txn[w][k].ts <= scanned \/ txn[w][k].ts < rows[k].ts)
      /\ skewed' = (skewed \/ pull.open)
      /\ UNCHANGED <<now, pull, cursor, held, scanned>>
  BY DEF Commit, TypeOK, device
<1>4. \A o \in Writers : Wrote(o)' = IF o = w THEN {} ELSE Wrote(o)
  BY <1>3 DEF Wrote, Nothing
<1>5. Clock'
  <2>1. ASSUME NEW k \in Keys, ~behind' PROVE removals'[k] <= rows'[k].ts
    <3>1. /\ removals[k] <= rows[k].ts
          /\ k \in Wrote(w) => ~ (txn[w][k].ts < rows[k].ts)
      BY <1>3, <2>1 DEF Clock
    <3> QED BY <1>1, <1>3, <3>1
  <2> QED BY <1>1, <1>2, <1>3, <2>1 DEF Clock, Uncommitted
<1>6. Uncommitted'
  BY <1>1, <1>2, <1>3, <1>4 DEF Uncommitted
<1>7. Passed' /\ Honest'
  BY <1>3 DEF Passed, Honest, TypeOK
<1>8. CompleteToCursor'
  <2> SUFFICES ASSUME ~behind', ~skewed', NEW k \in Keys
               PROVE  /\ Visible(k)' /\ rows'[k].ts <= cursor' => held'[k] = rows'[k]
                      /\ Withdrawn(k)' => ~held'[k].shared
    BY DEF CompleteToCursor, Complete
  <2>1. ~behind /\ ~skewed /\ (k \in Wrote(w) => ~ (txn[w][k].ts <= cursor))
    <3>1. ~behind /\ ~skewed /\ \A j \in Wrote(w) : ~ (txn[w][j].ts <= scanned)
      BY ONLY <1>3, ~behind', ~skewed', Zenon
    <3> QED
      BY <1>1, <1>2, <3>1 DEF Passed
  <2>2. /\ Visible(k) /\ rows[k].ts <= cursor => held[k] = rows[k]
        /\ Withdrawn(k) => ~held[k].shared
    BY <2>1 DEF CompleteToCursor, Complete
  <2>3. CASE k \in Wrote(w)
    <3>1. rows'[k] = txn[w][k] /\ txn[w][k].ts > cursor /\ cursor' = cursor /\ held' = held
      BY <1>1, <1>2, <1>3, <2>1, <2>3
    <3>2. ~ (rows'[k].ts <= cursor')
      BY <1>1, <1>2, <3>1
    <3>3. CASE rows[k].shared /\ ~txn[w][k].shared
      <4>1. removals'[k] = txn[w][k].ts
        BY <1>3, <2>3, <3>3
      <4>2. ~Withdrawn(k)'
        BY <1>1, <1>2, <3>1, <4>1 DEF Withdrawn, PullConstants
      <4> QED
        BY <3>2, <4>2
    <3>4. CASE ~rows[k].shared
      <4>1. removals'[k] = removals[k]
        BY <1>3, <2>3, <3>4
      <4>2. Withdrawn(k)' => Withdrawn(k)
        BY <3>1, <3>4, <4>1 DEF Withdrawn
      <4> QED
        BY <2>2, <3>1, <3>2, <4>2
    <3>5. CASE txn[w][k].shared
      BY <3>1, <3>2, <3>5 DEF Withdrawn
    <3> QED
      BY <3>3, <3>4, <3>5
  <2>4. CASE k \notin Wrote(w)
    BY <1>3, <2>2, <2>4 DEF Withdrawn, Visible
  <2> QED
    BY <2>3, <2>4
<1> QED
  BY <1>5, <1>6, <1>7, <1>8

\* An answer applied whole leaves the device complete to the cursor it moves to.
LEMMA PullRemovalsCompletes ==
    ASSUME PullConstants, PullInv, PullRemovals
    PROVE  CompleteToCursor'
<1> USE DEF PullInv, TypeInv
<1> DEFINE page == Page(NewRemovals, removals)
           next == Merge(pull.next, page.next)
<1>1. /\ page.rows \subseteq NewRemovals /\ page.next \in Nat
      /\ page.next = CaughtUp => page.rows = NewRemovals
      /\ page.next # CaughtUp => \A k \in NewRemovals : removals[k] <= page.next => k \in page.rows
  BY RemovalsPage
<1>2. /\ pull.open /\ held' = Applied(page.rows) /\ cursor' = Resumed(next)
      /\ UNCHANGED <<rows, removals, behind, skewed>>
  BY DEF PullRemovals, server
<1>3. pull.next \in Nat /\ cursor \in Nat /\ cursor' \in Nat
  BY PullRemovalsMoves DEF TypeOK, PullConstants
<1> HIDE DEF page
<1>4. /\ next = CaughtUp => pull.next = CaughtUp /\ page.next = CaughtUp
      /\ pull.next # CaughtUp => next <= pull.next
      /\ page.next # CaughtUp => next <= page.next
      /\ next # CaughtUp => cursor' = next
  BY <1>1, <1>2, <1>3, MergeIs DEF Resumed
<1> HIDE DEF next
<1> SUFFICES ASSUME ~behind', ~skewed', NEW k \in Keys
             PROVE  /\ Visible(k)' /\ rows'[k].ts <= cursor' => held'[k] = rows'[k]
                    /\ Withdrawn(k)' => ~held'[k].shared
  BY DEF CompleteToCursor, Complete
<1>5. /\ rows[k] \in Row /\ rows[k].ts \in Nat /\ removals[k] \in Nat
      /\ held[k] \in Row /\ removals[k] <= rows[k].ts
  BY <1>2 DEF TypeOK, Row, Clock
<1>6. /\ Visible(k) /\ rows[k].ts <= cursor => held[k] = rows[k]
      /\ Withdrawn(k) => ~held[k].shared
      /\ k \in pull.page => pull.found[k] = rows[k]
      /\ k \in NewEntries => (pull.next = CaughtUp \/ rows[k].ts <= pull.next => k \in pull.page)
  BY <1>2 DEF CompleteToCursor, Complete, Honest
<1>7. held'[k] = IF k \in pull.page THEN pull.found[k]
                 ELSE IF k \in page.rows
                 THEN [held[k] EXCEPT !.shared = FALSE, !.ts = IF k \in Mine THEN held[k].ts ELSE 0]
                 ELSE held[k]
  BY <1>2 DEF Applied
<1>8. ASSUME Visible(k), rows[k].ts <= cursor' PROVE held'[k] = rows[k]
  <2>1. CASE rows[k].ts > cursor
    <3>1. k \in NewEntries
      BY <1>8, <2>1 DEF NewEntries
    <3>2. pull.next = CaughtUp \/ rows[k].ts <= pull.next
      BY <1>3, <1>4, <1>5, <1>8, MergeIs, <1>1 DEF next, CaughtUp
    <3> QED
      BY <1>6, <1>7, <3>1, <3>2
  <2>2. CASE ~ (rows[k].ts > cursor)
    <3>1. k \notin NewRemovals
      BY <1>3, <1>5, <2>2 DEF NewRemovals
    <3> QED
      BY <1>1, <1>3, <1>5, <1>6, <1>7, <1>8, <2>2, <3>1
  <2> QED
    BY <2>1, <2>2
<1>9. ASSUME ~rows[k].shared, removals[k] \in Floor..cursor' PROVE ~held'[k].shared
  <2>1. CASE k \in pull.page
    BY <1>6, <1>7, <1>9, <2>1
  <2>2. CASE k \notin pull.page /\ k \in page.rows
    BY <1>5, <1>7, <2>2 DEF Row
  <2>3. CASE k \notin pull.page /\ k \notin page.rows
    <3>1. ASSUME removals[k] > cursor PROVE FALSE
      <4>1. k \in NewRemovals
        BY <1>9, <3>1 DEF NewRemovals, PullConstants
      <4>2. page.next = CaughtUp \/ removals[k] <= page.next
        BY <1>1, <1>3, <1>4, <1>5, <1>9, MergeIs DEF next, CaughtUp, PullConstants
      <4> QED
        BY <1>1, <2>3, <4>1, <4>2
    <3>2. Withdrawn(k)
      BY <1>3, <1>5, <1>9, <3>1 DEF Withdrawn, PullConstants
    <3> QED
      BY <1>6, <1>7, <2>3, <3>2
  <2> QED
    BY <2>1, <2>2, <2>3
<1> QED
  BY <1>2, <1>8, <1>9 DEF Visible, Withdrawn

LEMMA NextPull == PullConstants /\ PullInv /\ [Next]_vars => PullInv'
<1> SUFFICES ASSUME PullConstants, PullInv, [Next]_vars
             PROVE  Clock' /\ Uncommitted' /\ Passed' /\ Honest' /\ CompleteToCursor'
  BY NextType DEF PullInv
<1> USE DEF PullInv, TypeInv
<1>1. ASSUME NEW w \in Writers, NEW k \in Keys, NEW shared \in BOOLEAN, Write(w, k, shared)
      PROVE  Clock' /\ Uncommitted' /\ Passed' /\ Honest' /\ CompleteToCursor'
  <2>0. PICK stamp \in 1..now :
           txn' = [txn EXCEPT ![w] = [txn[w] EXCEPT ![k] = [ts |-> stamp, shared |-> shared]]]
    BY <1>1 DEF Write
  <2>1. /\ \A o \in Writers, j \in Keys :
              txn'[o][j] = IF o = w /\ j = k THEN [ts |-> stamp, shared |-> shared] ELSE txn[o][j]
        /\ \A o \in Writers : k \notin Wrote(o)
        /\ UNCHANGED <<rows, removals, now, behind, skewed, device>>
    BY <1>1, <2>0 DEF Write, TypeOK
  <2>2. now \in 1..MaxNow /\ MaxNow \in Nat
    BY DEF TypeOK, PullConstants
  <2>3. \A o \in Writers : Wrote(o)' = IF o = w THEN Wrote(o) \cup {k} ELSE Wrote(o)
    BY <2>1, <2>2 DEF Wrote
  <2>4. Uncommitted'
    BY <2>1, <2>2, <2>3 DEF Uncommitted, Clock
  <2> QED
    BY <2>1, <2>4 DEF device, Clock, Passed, Honest, CompleteToCursor, Complete, Visible, Withdrawn,
                      NewEntries
<1>2. ASSUME NEW w \in Writers, Commit(w)
      PROVE  Clock' /\ Uncommitted' /\ Passed' /\ Honest' /\ CompleteToCursor'
  BY <1>2, CommitKeeps
<1>3. ASSUME NEW w \in Writers, Abort(w)
      PROVE  Clock' /\ Uncommitted' /\ Passed' /\ Honest' /\ CompleteToCursor'
  <2>1. /\ \A o \in Writers, k \in Keys : txn'[o][k] = IF o = w THEN Nothing ELSE txn[o][k]
        /\ UNCHANGED <<rows, removals, now, behind, skewed, device>>
    BY <1>3 DEF Abort, TypeOK
  <2>2. \A o \in Writers : Wrote(o)' = IF o = w THEN {} ELSE Wrote(o)
    BY <2>1 DEF Wrote, Nothing
  <2>3. Uncommitted'
    BY <2>1, <2>2 DEF Uncommitted
  <2> QED
    BY <2>1, <2>3 DEF device, Clock, Passed, Honest, CompleteToCursor, Complete, Visible, Withdrawn,
                      NewEntries
<1>4. CASE Tick
  <2>1. /\ now' = now + 1 /\ now \in Nat
        /\ UNCHANGED <<rows, removals, txn, behind, skewed, device>>
    BY <1>4 DEF Tick, TypeOK, PullConstants
  <2>2. \A k \in Keys : /\ rows[k].ts \in Nat
                        /\ \A w \in Writers : txn[w][k].ts \in Nat
    BY DEF TypeOK, Row
  <2>3. Clock' /\ Uncommitted'
    BY <2>1, <2>2 DEF Clock, Uncommitted, Wrote
  <2> QED
    BY <2>1, <2>3 DEF device, Passed, Honest, CompleteToCursor, Complete, Visible, Withdrawn, NewEntries
<1>5. CASE PullEntries
  <2> DEFINE page == Page(NewEntries, Stamp)
             S == {rows[k].ts : k \in page.rows}
  <2>1. /\ page.rows \subseteq NewEntries
        /\ page.next = CaughtUp => page.rows = NewEntries
        /\ page.next # CaughtUp =>
             /\ page.next > cursor
             /\ \A k \in NewEntries : rows[k].ts <= page.next => k \in page.rows
    BY EntriesPage
  <2>2. /\ pull' = [open |-> TRUE, page |-> page.rows, next |-> page.next,
                    found |-> [k \in Keys |-> IF k \in page.rows THEN rows[k] ELSE Nothing]]
        /\ scanned' = Highest(S, scanned)
        /\ UNCHANGED <<cursor, held, server>>
    BY <1>5 DEF PullEntries
  <2> HIDE DEF page
  <2>3. S \in SUBSET (0..MaxNow) /\ scanned \in 0..MaxNow /\ MaxNow \in Nat /\ cursor \in 0..MaxNow
    BY <2>1 DEF TypeOK, Row, PullConstants, NewEntries
  <2> HIDE DEF S
  <2>4. scanned' \in 0..MaxNow /\ scanned' >= scanned
    BY <2>2, <2>3, HighestIs
  <2>5. Passed'
    BY <2>2, <2>3, <2>4 DEF Passed
  <2>6. Honest'
    BY <2>1, <2>2 DEF Honest, server, NewEntries, Visible
  <2> QED
    BY <2>2, <2>5, <2>6 DEF server, Clock, Uncommitted, Wrote, CompleteToCursor, Complete, Visible,
                            Withdrawn
<1>6. CASE PullRemovals
  <2>1. CompleteToCursor'
    BY <1>6, PullRemovalsCompletes
  <2>2. Passed'
    BY <1>6, PullRemovalsMoves DEF Passed
  <2> QED
    BY <1>6, <2>1, <2>2 DEF PullRemovals, server, Clock, Uncommitted, Wrote, Honest, NoPull
<1>7. CASE PullLost
  BY <1>7 DEF PullLost, NoPull, server, Clock, Uncommitted, Wrote, Passed, Honest, CompleteToCursor,
              Complete, Visible, Withdrawn
<1>8. CASE UNCHANGED vars
  BY <1>8 DEF vars, Clock, Uncommitted, Wrote, Passed, Honest, CompleteToCursor, Complete, Visible,
              Withdrawn, NewEntries
<1> QED
  BY <1>1, <1>2, <1>3, <1>4, <1>5, <1>6, <1>7, <1>8 DEF Next, WriterStep

\* _page, merge_cursors and the removals-before-entries rule together never step
\* a device over an entry it may see or a withdrawal it should apply, whatever
\* the limit and however many answers are lost, as long as no row is committed
\* with a stamp a pull has passed or below the row's last one, and nothing between
\* a pull's two statements.
THEOREM SpecCompleteToCursor == Spec => []CompleteToCursor
<1>1. Init => PullInv
  BY PullConstants, InitPull
<1>2. PullInv /\ [Next]_vars => PullInv'
  BY PullConstants, NextPull
<1>3. PullInv => CompleteToCursor
  BY DEF PullInv
<1> QED
  BY <1>1, <1>2, <1>3, PTL DEF Spec

-----------------------------------------------------------------------------
(***************************************************************************)
(* Each answer brings the device further, or all the way: what Converges   *)
(* rests on once nobody writes.                                            *)
(***************************************************************************)

\* A version the device was given of row k: it could see it, and if the row left
\* the space since then, the departure is on record at a stamp no older.
Dated(k, v) ==
    /\ v.ts \in 1..rows[k].ts
    /\ k \notin Mine => /\ v.shared /\ v.ts >= Floor
                        /\ rows[k].shared \/ removals[k] >= v.ts

Traced ==
    ~behind => \A k \in Keys :
        /\ held[k] = Nothing \/ Dated(k, held[k])
        /\ pull.open /\ k \in pull.page => Dated(k, pull.found[k])

\* A commit leaves what was given dated: unless it rewinds the row, a departure is
\* stamped at or above it.
LEMMA CommitDates ==
    ASSUME PullConstants, PullInv, NEW w \in Writers, Commit(w),
           NEW k \in Keys, NEW v \in Row, Dated(k, v), ~behind'
    PROVE  Dated(k, v)'
<1>1. /\ rows[k].ts \in Nat /\ removals[k] \in Nat /\ txn[w][k].ts \in Nat /\ v.ts \in Nat
      /\ Floor \in Nat
  BY DEF PullInv, TypeInv, TypeOK, Row, PullConstants
<1>6. k \in Wrote(w) => rows[k].ts <= txn[w][k].ts
  <2>1. k \in Wrote(w) => ~ (txn[w][k].ts < rows[k].ts)
    <3>1. behind' = (behind \/ \E j \in Wrote(w) : txn[w][j].ts <= scanned \/ txn[w][j].ts < rows[j].ts)
      BY DEF Commit
    <3> QED BY ONLY ~behind', <3>1, Zenon
  <2> QED BY <1>1, <2>1
<1>2. /\ rows'[k] = IF k \in Wrote(w) THEN txn[w][k] ELSE rows[k]
      /\ removals'[k] =
           IF k \in Wrote(w) /\ rows[k].shared /\ ~txn[w][k].shared THEN txn[w][k].ts ELSE removals[k]
  BY DEF Commit
<1>3. v.ts >= 1 /\ v.ts <= rows[k].ts
  BY <1>1 DEF Dated
<1>4. v.ts \in 1..rows'[k].ts
  BY <1>1, <1>2, <1>3, <1>6
<1>5. ASSUME k \notin Mine
      PROVE  v.shared /\ v.ts >= Floor /\ (rows'[k].shared \/ removals'[k] >= v.ts)
  <2>1. v.shared /\ v.ts >= Floor /\ (rows[k].shared \/ removals[k] >= v.ts)
    BY <1>5 DEF Dated
  <2>2. CASE k \in Wrote(w) /\ rows[k].shared /\ ~txn[w][k].shared
    <3>1. removals'[k] = txn[w][k].ts
      BY <1>2, <2>2
    <3> QED
      BY <1>1, <1>3, <1>6, <2>1, <2>2, <3>1
  <2>3. CASE k \in Wrote(w) /\ ~rows[k].shared
    BY <1>2, <2>1, <2>3
  <2>4. CASE k \in Wrote(w) /\ txn[w][k].shared
    BY <1>2, <2>1, <2>4
  <2>5. CASE k \notin Wrote(w)
    BY <1>2, <2>1, <2>5
  <2> QED
    BY <2>1, <2>2, <2>3, <2>4, <2>5
<1> QED
  BY <1>4, <1>5 DEF Dated

\* What an answer leaves of an entry: the version it brought, or the one it was.
LEMMA AppliedIs ==
    ASSUME PullConstants, PullInv, NEW gone, NEW k \in Keys, pull.open
    PROVE  \/ k \in pull.page /\ Applied(gone)[k] = pull.found[k]
           \/ k \notin pull.page /\ k \notin gone /\ Applied(gone)[k] = held[k]
           \/ /\ k \notin pull.page /\ k \in gone
              /\ Applied(gone)[k].shared = FALSE
              /\ Applied(gone)[k] = Nothing \/ (k \in Mine /\ Applied(gone)[k].ts = held[k].ts)
              /\ held[k] = Nothing => Applied(gone)[k] = Nothing
<1>1. Applied(gone)[k] = IF k \in pull.page THEN pull.found[k]
                 ELSE IF k \in gone
                 THEN [held[k] EXCEPT !.shared = FALSE, !.ts = IF k \in Mine THEN held[k].ts ELSE 0]
                 ELSE held[k]
  BY DEF Applied
<1>2. PICK h \in Row : h = held[k]
  BY DEF PullInv, TypeInv, TypeOK
<1>3. CASE k \notin pull.page /\ k \in gone
  <2>1. Applied(gone)[k] = [ts |-> IF k \in Mine THEN h.ts ELSE 0, shared |-> FALSE]
    BY <1>1, <1>2, <1>3 DEF Row
  <2>2. Applied(gone)[k].shared = FALSE
    BY <2>1
  <2>3. CASE k \in Mine
    <3>1. Applied(gone)[k].ts = held[k].ts
      BY <1>2, <2>1, <2>3
    <3>2. held[k] = Nothing => Applied(gone)[k] = Nothing
      BY <1>2, <2>1, <2>3 DEF Nothing
    <3> QED
      BY <1>3, <2>2, <2>3, <3>1, <3>2
  <2>4. CASE k \notin Mine
    <3>1. Applied(gone)[k] = Nothing
      BY <2>1, <2>4 DEF Nothing
    <3> QED
      BY <1>3, <2>2, <2>4, <3>1
  <2> QED
    BY <2>3, <2>4
<1> QED
  BY <1>1, <1>3

LEMMA NextTraced ==
    ASSUME PullConstants, PullInv, Traced, [Next]_vars
    PROVE  Traced'
<1> SUFFICES ASSUME ~behind' PROVE Traced'
  BY DEF Traced
<1>0. \A k \in Keys : held[k] \in Row /\ (k \in pull.page => pull.found[k] \in Row)
  BY DEF PullInv, TypeInv, TypeOK
<1>b. ~behind
  BY DEF Next, WriterStep, Write, Commit, Abort, Tick, PullEntries, PullRemovals, PullLost, server, vars
<1>1. ASSUME NEW w \in Writers, Commit(w)
      PROVE  Traced'
  <2>1. UNCHANGED <<held, pull>>
    BY <1>1 DEF Commit, device
  <2>2. ASSUME NEW k \in Keys
        PROVE  /\ held[k] = Nothing \/ Dated(k, held[k])'
               /\ pull.open /\ k \in pull.page => Dated(k, pull.found[k])'
    <3>1. PICK h \in Row : h = held[k]
      BY <1>0
    <3>2. Dated(k, h) => Dated(k, h)'
      BY <1>1, CommitDates
    <3>3. CASE k \in pull.page
      <4>1. PICK v \in Row : v = pull.found[k]
        BY <1>0, <3>3
      <4>2. Dated(k, v) => Dated(k, v)'
        BY <1>1, CommitDates
      <4> QED
        BY <1>b, <2>1, <3>1, <3>2, <4>1, <4>2 DEF Traced, Dated
    <3>4. CASE k \notin pull.page
      BY <1>b, <2>1, <3>1, <3>2, <3>4 DEF Traced, Dated
    <3> QED
      BY <3>3, <3>4
  <2> QED
    BY <2>1, <2>2 DEF Traced
<1>2. CASE UNCHANGED <<rows, removals, held, pull>>
  BY <1>b, <1>2 DEF Traced, Dated
<1>3. CASE PullEntries
  <2> DEFINE page == Page(NewEntries, Stamp)
  <2>1. page.rows \subseteq NewEntries
    BY EntriesPage DEF PullInv, TypeInv
  <2>2. /\ pull'.page = page.rows
        /\ \A k \in Keys : k \in page.rows => pull'.found[k] = rows[k]
        /\ UNCHANGED <<held, rows, removals>>
    BY <1>3 DEF PullEntries, server
  <2> HIDE DEF page
  <2>3. ASSUME NEW k \in page.rows
        PROVE  Dated(k, rows[k])
    BY <2>1 DEF NewEntries, Visible, Dated, PullInv, TypeInv, TypeOK, Row, PullConstants
  <2> QED
    BY <1>b, <2>2, <2>3 DEF Traced, Dated
<1>4. CASE PullRemovals
  <2>1. PICK gone : gone = Page(NewRemovals, removals).rows
    OBVIOUS
  <2>2. /\ pull.open /\ held' = Applied(gone) /\ pull' = NoPull
        /\ UNCHANGED <<rows, removals>>
    BY <1>4, <2>1 DEF PullRemovals, server
  <2>3. ASSUME NEW k \in Keys
        PROVE  held'[k] = Nothing \/ Dated(k, held'[k])
    <3>1. held[k] = Nothing \/ Dated(k, held[k])
      BY <1>b DEF Traced
    <3>2. CASE k \in pull.page
      BY <1>b, <2>2, <3>2, AppliedIs DEF Traced
    <3>3. CASE k \notin pull.page /\ k \notin gone
      BY <2>2, <3>1, <3>3, AppliedIs
    <3>4. CASE k \notin pull.page /\ k \in gone
      <4>1. held[k] = Nothing => Applied(gone)[k] = Nothing
        BY <2>2, <3>4, AppliedIs
      <4>2. Applied(gone)[k] = Nothing \/ (k \in Mine /\ Applied(gone)[k].ts = held[k].ts)
        BY <2>2, <3>4, AppliedIs
      <4>3. \/ held'[k] = Nothing
            \/ held[k] # Nothing /\ k \in Mine /\ held'[k].ts = held[k].ts
        BY <2>2, <4>1, <4>2
      <4> QED
        BY <3>1, <4>3 DEF Dated
    <3> QED
      BY <3>2, <3>3, <3>4
  <2> QED
    BY <2>2, <2>3 DEF Traced, Dated, NoPull
<1>5. CASE PullLost
  BY <1>b, <1>5 DEF PullLost, NoPull, server, Traced, Dated
<1>6. ASSUME NEW w \in Writers, Abort(w) \/ \E k \in Keys, shared \in BOOLEAN : Write(w, k, shared)
      PROVE  Traced'
  BY <1>2, <1>6 DEF Abort, Write, device
<1>7. CASE Tick \/ UNCHANGED vars
  BY <1>2, <1>7 DEF Tick, vars, device
<1> QED
  BY <1>1, <1>3, <1>4, <1>5, <1>6, <1>7 DEF Next, WriterStep

\* An answer with no cursor leaves the device with exactly what it may see.
LEMMA LastAnswerConverges ==
    ASSUME PullConstants, PullInv, Traced, PullRemovals, ~behind, ~skewed,
           Merge(pull.next, Page(NewRemovals, removals).next) = CaughtUp
    PROVE  Converged'
<1>1. PICK gone : gone = Page(NewRemovals, removals).rows
  OBVIOUS
<1>2. /\ pull.next \in Nat /\ Page(NewRemovals, removals).next \in Nat
      /\ cursor \in Nat /\ Floor \in Nat
  BY RemovalsPage DEF PullInv, TypeInv, TypeOK, PullConstants
<1>3. pull.next = CaughtUp /\ gone = NewRemovals
  BY <1>1, <1>2, MergeIs, RemovalsPage DEF PullInv, TypeInv
<1>4. /\ pull.open /\ held' = Applied(gone) /\ UNCHANGED <<rows, removals>>
  BY <1>1 DEF PullRemovals, server
<1>5. ASSUME NEW k \in Keys
      PROVE  held'[k] = IF Visible(k) THEN rows[k] ELSE Nothing
  <2>1. /\ rows[k].ts \in Nat /\ removals[k] \in Nat /\ removals[k] <= rows[k].ts
        /\ held[k].ts \in Nat
    BY DEF PullInv, TypeInv, TypeOK, Row, Clock
  <2>2. /\ Visible(k) /\ rows[k].ts <= cursor => held[k] = rows[k]
        /\ Withdrawn(k) => ~held[k].shared
    BY DEF PullInv, CompleteToCursor, Complete
  <2>3. /\ k \in pull.page => pull.found[k] = rows[k] /\ Dated(k, rows[k])
        /\ k \in NewEntries => k \in pull.page
    BY <1>3, <1>4 DEF PullInv, Honest, Traced
  <2>4. CASE Visible(k)
    <3>1. CASE k \in pull.page
      BY <1>4, <2>3, <2>4, <3>1, AppliedIs
    <3>2. CASE k \notin pull.page
      <4>1. rows[k].ts <= cursor
        BY <1>2, <2>1, <2>3, <2>4, <3>2 DEF NewEntries
      <4>2. k \notin gone
        BY <1>2, <1>3, <2>1, <4>1 DEF NewRemovals
      <4> QED
        BY <1>4, <2>2, <2>4, <3>2, <4>1, <4>2, AppliedIs
    <3> QED
      BY <3>1, <3>2
  <2>5. CASE ~Visible(k)
    <3>1. k \notin pull.page
      BY <2>1, <2>3, <2>5 DEF Dated, Visible
    <3>2. CASE held[k] = Nothing
      <4>1. CASE k \in gone
        <5>1. held[k] = Nothing => Applied(gone)[k] = Nothing
          BY <1>4, <3>1, <4>1, AppliedIs
        <5> QED
          BY <1>4, <2>5, <3>2, <5>1
      <4>2. CASE k \notin gone
        BY <1>4, <2>5, <3>1, <3>2, <4>2, AppliedIs
      <4> QED
        BY <4>1, <4>2
    <3>3. CASE held[k] # Nothing
      <4>1. Dated(k, held[k])
        BY <3>3 DEF Traced
      <4>2. held[k].ts >= 1 /\ held[k].ts <= rows[k].ts
        BY <2>1, <4>1 DEF Dated
      <4>3. k \notin Mine
        BY <2>1, <2>5, <4>2 DEF Visible
      <4>4. held[k].shared /\ held[k].ts >= Floor /\ (rows[k].shared \/ removals[k] >= held[k].ts)
        BY <4>1, <4>3 DEF Dated
      <4>5. ~rows[k].shared
        BY <1>2, <2>1, <2>5, <4>2, <4>4 DEF Visible
      <4>6. removals[k] >= Floor /\ ~ (removals[k] <= cursor)
        BY <1>2, <2>1, <2>2, <4>2, <4>4, <4>5 DEF Withdrawn
      <4>7. k \in gone
        BY <1>2, <1>3, <2>1, <4>6 DEF NewRemovals
      <4> QED
        BY <1>4, <2>5, <3>1, <4>3, <4>7, AppliedIs
    <3> QED
      BY <3>2, <3>3
  <2> QED
    BY <2>4, <2>5
<1> QED
  BY <1>4, <1>5 DEF Converged, Visible

(* A pull that is answered moves the cursor up or leaves the device with   *)
(* exactly the entries it may see, with the exceptions of CompleteToCursor.*)
PullAdvances ==
    [][PullRemovals => cursor' > cursor \/ behind \/ skewed \/ Converged']_vars

(* For any rows, writers, floor and limit: pulls do not go round in        *)
(* circles.  The one that carries no cursor is the last a device needs.    *)
THEOREM SpecPullAdvances == Spec => PullAdvances
<1>1. Init => Traced
  BY DEF Init, Traced, NoPull
<1>2. PullInv /\ Traced /\ [Next]_vars => Traced'
  BY PullConstants, NextTraced
<1>3. ASSUME PullInv, Traced, PullRemovals, ~behind, ~skewed
      PROVE  cursor' > cursor \/ Converged'
  <2>1. PICK next : next = Merge(pull.next, Page(NewRemovals, removals).next)
    OBVIOUS
  <2>2. CASE next = CaughtUp
    BY <1>3, <2>1, <2>2, PullConstants, LastAnswerConverges
  <2>3. CASE next # CaughtUp
    <3>1. cursor' = next
      BY <1>3, <2>1, <2>3 DEF PullRemovals, Resumed
    <3>2. PICK r \in Nat : r = Page(NewRemovals, removals).next /\ (r # CaughtUp => r > cursor)
      BY <1>3, PullConstants, RemovalsPage DEF PullInv, TypeInv
    <3>3. pull.next \in Nat /\ (pull.next # CaughtUp => pull.next > cursor)
      BY <1>3 DEF PullInv, TypeInv, TypeOK, PullRemovals, PullConstants
    <3>4. next \in {pull.next, r}
      BY <2>1, <3>2, <3>3, MergeIs
    <3> QED
      BY <2>3, <3>1, <3>2, <3>3, <3>4
  <2> QED
    BY <2>2, <2>3
<1>4. PullInv /\ Traced /\ [Next]_vars =>
        [PullRemovals => cursor' > cursor \/ behind \/ skewed \/ Converged']_vars
  BY <1>3
<1>5. Init => PullInv
  BY PullConstants, InitPull
<1>6. PullInv /\ [Next]_vars => PullInv'
  BY PullConstants, NextPull
<1> QED
  BY <1>1, <1>2, <1>4, <1>5, <1>6, PTL DEF Spec, PullAdvances
=============================================================================
