------------------------------- MODULE Register ------------------------------
(***************************************************************************)
(* What settings/service.py promises of the one blob an account stores:    *)
(* devices offer values, each made from a value that was stored or from    *)
(* none, and a value that was merged is only ever replaced by one merged   *)
(* from it or by one offered without a merge; the first to be merged from  *)
(* none replaces none.  Nothing is said of stamps, messages or retries.    *)
(***************************************************************************)
EXTENDS Naturals

CONSTANT MaxValues \* bound: values ever offered

VARIABLES
    current, \* the value stored, 0 if none
    stored,  \* every value that ever was
    offered, \* how many values have been offered
    parent,  \* what each was made from
    free     \* those offered without a merge

vars == <<current, stored, offered, parent, free>>

Values == 1..MaxValues

Init ==
    /\ current = 0 /\ stored = {} /\ offered = 0
    /\ parent = [v \in Values |-> 0] /\ free = {}

Offer(p, merged) ==
    /\ offered < MaxValues /\ p \in stored \cup {0}
    /\ offered' = offered + 1
    /\ parent' = [parent EXCEPT ![offered + 1] = p]
    /\ free' = IF merged THEN free ELSE free \cup {offered + 1}
    /\ UNCHANGED <<current, stored>>

Store(v) ==
    /\ v \in free \/ parent[v] = current \/ current \in free
    /\ current' = v /\ stored' = stored \cup {v}
    /\ UNCHANGED <<offered, parent, free>>

Next ==
    \/ \E p \in 0..MaxValues, merged \in BOOLEAN: Offer(p, merged)
    \/ \E v \in 1..offered: Store(v)

Spec == Init /\ [][Next]_vars
=============================================================================
