----------------------------- MODULE MCFileSync -----------------------------
(* TLC instances of FileSync.                                              *)
EXTENDS FileSync, TLC

CONSTANTS c1, c2, c3, c4

Contents == {c1, c2, c3, c4}

\* A one-way pair whose users write and delete while earlier changes are still
\* on their way.
Mirror == [direction |-> "a_to_b", atTop |-> TRUE, editors |-> Sides,
           contents |-> Contents, ops |-> Ops, pace |-> "debounced",
           reuse |-> FALSE, inOrder |-> TRUE, unsubscribed |-> FALSE, full |-> FALSE,
           droppers |-> {}, maxChanges |-> 3]

\* A bidirectional pair whose users take turns.
Turns == [Mirror EXCEPT !.direction = "bidirectional", !.pace = "expired", !.maxChanges = 5]

\* A one-way pair under everything at once; the destination, or the source,
\* loses its connection.  RoughLong has three changes, of the source only.
Rough == [direction |-> "a_to_b", atTop |-> TRUE, editors |-> Sides,
          contents |-> {c1, c2}, ops |-> Ops, pace |-> "any", reuse |-> TRUE,
          inOrder |-> FALSE, unsubscribed |-> TRUE, full |-> TRUE,
          droppers |-> {"b"}, maxChanges |-> 2]
RoughLong == [Rough EXCEPT !.editors = {"a"}, !.contents = {c1}, !.maxChanges = 3, !.full = FALSE]
RoughSource == [Rough EXCEPT !.contents = {c1}, !.droppers = {"a"}]

\* The bidirectional pair with roots below the clients' roots.
Deeper == [Turns EXCEPT !.atTop = FALSE]

SyncEnvironments == {Mirror, Turns, Deeper, Rough, RoughLong, RoughSource}

\* One write at the source while the destination's connection may break.
OfflineEnvironments ==
    {[Mirror EXCEPT !.editors = {"a"}, !.ops = {"write"}, !.droppers = {"b"},
                    !.maxChanges = 1]}
=============================================================================
