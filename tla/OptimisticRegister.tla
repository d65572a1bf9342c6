------------------------- MODULE OptimisticRegister -------------------------
(***************************************************************************)
(* What an optimistic lock promises (spec.md:87): a record that several    *)
(* users read, edit and save, where a save goes through only if the record *)
(* is still the one that its user was looking at.                          *)
(***************************************************************************)
EXTENDS Naturals

CONSTANTS Users

VARIABLES
    current,  \* the revision of the record, 0 if there is none
    latest,   \* the last revision that was given
    seen      \* the revision that each user is editing, 0 if none

vars == <<current, latest, seen>>

Init ==
    /\ current = 0
    /\ latest = 0
    /\ seen = [u \in Users |-> 0]

Create ==
    /\ latest = 0
    /\ current' = 1 /\ latest' = 1
    /\ UNCHANGED seen

Look(u) ==
    /\ current # 0
    /\ seen' = [seen EXCEPT ![u] = current]
    /\ UNCHANGED <<current, latest>>

GiveUp(u) ==
    /\ seen' = [seen EXCEPT ![u] = 0]
    /\ UNCHANGED <<current, latest>>

Save(u) ==
    /\ current # 0 /\ seen[u] = current
    /\ current' = latest + 1 /\ latest' = latest + 1
    /\ seen' = [seen EXCEPT ![u] = 0]

Delete ==
    /\ current' = 0
    /\ UNCHANGED <<latest, seen>>

Next == Create \/ Delete \/ \E u \in Users : Look(u) \/ GiveUp(u) \/ Save(u)

Spec == Init /\ [][Next]_vars
=============================================================================
