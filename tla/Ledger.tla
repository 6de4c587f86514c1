-------------------------------- MODULE Ledger -------------------------------
(***************************************************************************)
(* What blobs/service.py promises of an account's quota, with nothing said *)
(* of locks, ages, objects, requests or jobs: a key is handed out once and *)
(* only if it fits with all that is charged and still reserved; only a key *)
(* that was handed out is charged, and only if it fits with all that is    *)
(* charged; whatever else happens gives room back and takes none.          *)
(***************************************************************************)
EXTENDS Naturals, FiniteSets

CONSTANTS Blobs, Quota

VARIABLES
    known,    \* the keys ever handed out
    reserved, \* those whose bytes are kept for an upload
    charged   \* those that were confirmed and not let go of since

vars == <<known, reserved, charged>>

Init == known = {} /\ reserved = {} /\ charged = {}

FitsQuota(S) == Cardinality(S) <= Quota

Reserve(b) ==
    /\ b \notin known /\ FitsQuota(charged \cup reserved \cup {b})
    /\ known' = known \cup {b} /\ reserved' = reserved \cup {b}
    /\ UNCHANGED charged

\* A reservation that ran out is charged all the same, if it still fits.
Charge(b) ==
    /\ b \in known \ charged /\ FitsQuota(charged \cup {b})
    /\ charged' = charged \cup {b} /\ reserved' = reserved \ {b}
    /\ UNCHANGED known

\* Charges become reservations or nothing, reservations lapse.
LetGo ==
    /\ charged' \subseteq charged
    /\ reserved' \subseteq reserved \cup (charged \ charged')
    /\ UNCHANGED known

Next == LetGo \/ \E b \in Blobs : Reserve(b) \/ Charge(b)

Spec == Init /\ [][Next]_vars
=============================================================================
