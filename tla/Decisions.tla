----------------------------- MODULE Decisions -----------------------------
(***************************************************************************)
(* What the synchronisation engine decides (internal/server/syncengine):   *)
(* the commands that answer one change event, as functions of the event's  *)
(* file_state row and the other side's row.  The engine model and the      *)
(* end-to-end model are both built on these operators.                     *)
(***************************************************************************)
EXTENDS Integers, Sequences

CONSTANTS
    Shas,             \* contents, named by their hash
    NoSha,            \* a NULL sha256: the row or event of a delete; no file
    ConflictWindow    \* defaultConflictWindowNs

-----------------------------------------------------------------------------
Sides == {"a", "b"}

otherSide(s) == IF s = "a" THEN "b" ELSE "a"

Ops == {"write", "delete"}

NoRow == [op |-> "none", sha |-> NoSha, smt |-> 0]
Row   == [op: Ops \cup {"none"}, sha: Shas \cup {NoSha}, smt: Nat]
IsRow(r) == r.op # "none"

Cmd   == [op: {"fetch", "delete", "rename", "none"}, sha: Shas \cup {NoSha},
          smt: Nat]
NoCmd == [op |-> "none", sha |-> NoSha, smt |-> 0]

\* A planned send: the command, its target, and whether a sync_runs row is
\* written for it (only dispatchSync does).
Send == [to: Sides, cmd: Cmd, run: BOOLEAN]

-----------------------------------------------------------------------------
\* decideLWW: what to do with the event row ev given the other side's row.
decideLWW(ev, other) ==
    IF ~IsRow(other) THEN "Dispatch"
    ELSE IF ev.op = "delete" /\ other.op = "delete" THEN "None"
    ELSE IF ev.op # other.op THEN "EditWins"
    ELSE IF ev.sha # NoSha /\ ev.sha = other.sha THEN "None"
    ELSE IF /\ ev.smt - other.smt < ConflictWindow
            /\ other.smt - ev.smt < ConflictWindow THEN "Conflict"
    ELSE "Dispatch"

\* dispatchFetch, and the fetches of dispatchConflict: send the content of r.
Fetch(to, r) ==
    [to |-> to, run |-> FALSE,
     cmd |-> [op |-> "fetch", sha |-> r.sha, smt |-> r.smt]]

\* Faulty variant: a delete is propagated as a fetch too.
dispatchSyncFetchOnly(to, r) ==
    [to |-> to, run |-> TRUE, cmd |-> [op |-> "fetch", sha |-> r.sha, smt |-> r.smt]]

\* dispatchSync: propagate row r as a fetch or a delete.
dispatchSync(to, r) ==
    [to |-> to, run |-> TRUE,
     cmd |-> [op |-> IF r.op = "delete" THEN "delete" ELSE "fetch",
              sha |-> r.sha, smt |-> r.smt]]

\* Faulty variant: the loser fetches before it renames.
dispatchConflictFetchFirst(winnerSide, winner, loserSide) ==
    << Fetch(loserSide, winner),
       [to |-> loserSide, run |-> FALSE,
        cmd |-> [op |-> "rename", sha |-> NoSha, smt |-> winner.smt]],
       Fetch(winnerSide, winner) >>

\* Faulty variant: the loser renames and fetches nothing.
dispatchConflictRenameOnly(winnerSide, winner, loserSide) ==
    << [to |-> loserSide, run |-> FALSE,
        cmd |-> [op |-> "rename", sha |-> NoSha, smt |-> winner.smt]],
       Fetch(winnerSide, winner) >>

\* dispatchConflict: the loser renames its copy and fetches the winner's
\* content, then the winner fetches its own content again.
dispatchConflict(winnerSide, winner, loserSide) ==
    << [to |-> loserSide, run |-> FALSE,
        cmd |-> [op |-> "rename", sha |-> NoSha, smt |-> winner.smt]],
       Fetch(loserSide, winner),
       Fetch(winnerSide, winner) >>

\* Faulty variant: a delete that meets an edit is dropped.
handleEditWinsDropped(side, ev, other) ==
    IF ev.op = "write" THEN << dispatchSync(otherSide(side), ev) >> ELSE << >>

\* handleEditWins: the edit is sent to the side that deleted.
handleEditWins(side, ev, other) ==
    IF ev.op = "write" THEN << dispatchSync(otherSide(side), ev) >>
    ELSE IF other.sha = NoSha THEN << >>
    ELSE << Fetch(side, other) >>

\* handleBidirectional after the read of the other side's row.
handleBidirectional(side, ev, other) ==
    LET dec == decideLWW(ev, other) IN
    IF dec = "None" THEN << >>
    ELSE IF dec = "Dispatch" THEN << dispatchSync(otherSide(side), ev) >>
    ELSE IF dec = "EditWins" THEN handleEditWins(side, ev, other)
    ELSE IF ev.smt >= other.smt
         THEN dispatchConflict(side, ev, otherSide(side))
         ELSE dispatchConflict(otherSide(side), other, side)

\* The side whose changes a one-way direction propagates.
MirrorSource(direction) ==
    IF direction = "a_to_b" THEN {"a"}
    ELSE IF direction = "b_to_a" THEN {"b"} ELSE {}

\* Faulty variant: the events of the destination are propagated too.
resolveMirrorTargetsBoth(direction, side, ev) ==
    IF MirrorSource(direction) # {}
    THEN << dispatchSync(otherSide(side), ev) >> ELSE << >>

\* The sends of a one-way pair: the other side, unless the event comes from
\* the destination.
resolveMirrorTargets(direction, side, ev) ==
    IF side \in MirrorSource(direction)
    THEN << dispatchSync(otherSide(side), ev) >> ELSE << >>

\* An event of this side changes what this direction owes the other side.
Relevant(direction, side) ==
    direction = "bidirectional" \/ side \in MirrorSource(direction)

\* applyDiff, for one path: the snapshot shows a file (content sha) that is
\* not in file_state or differs from it; a row without a hash, that of a
\* delete, is not compared.
MissedWrite(r, sha) ==
    /\ sha # NoSha
    /\ ~IsRow(r) \/ (r.sha # NoSha /\ r.sha # sha)

\* applyDiff: the file of a row that is not a delete is not in the snapshot.
MissedDelete(r, sha) == sha = NoSha /\ r.op = "write"
=============================================================================
