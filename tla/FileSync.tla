------------------------------ MODULE FileSync ------------------------------
(***************************************************************************)
(* One file of one sync pair, end to end: two users who edit their copies, *)
(* the clients' watcher and runner (internal/watcher,                      *)
(* internal/client/runner), the connections, the engine's decisions and    *)
(* the connect-time snapshot diff (internal/server/syncengine), and the    *)
(* blobs the commands refer to.                                            *)
(*                                                                         *)
(* The parts that have a module of their own are seen from outside here:   *)
(* HandleFileChanged is one step (SyncEngine shows that its steps appear   *)
(* in one order per pair), a connection is up or down (Hub), a blob is     *)
(* stored or not (BlobStore), a download is one step (Transfer).  The pair *)
(* is enabled and is not changed (PairAdmin).                              *)
(*                                                                         *)
(* app.go of the client creates a new runner on every reconnect and does   *)
(* not stop the old one: the runners of a client are numbered, all of them *)
(* watch the directory, and the last one executes the commands.            *)
(***************************************************************************)
EXTENDS Decisions, FiniteSets

CONSTANTS
    Environments,  \* the circumstances to consider: a set of Environment
    MaxDrops       \* bound: disconnections per client

\* What a behaviour is given from outside and keeps: the direction of the
\* pair, whether its roots are the clients' roots, the sides whose user changes
\* the file, the contents they write, what they do and how long they wait (see
\* MayChange), whether a content may be written again that was there before,
\* whether the goroutines of a client run in the order they started, whether a
\* scan may miss the file and a new runner may lack its subscription, whether a
\* watcher's channel may be full, the sides whose connection may break, and the
\* bound on the number of changes.
Environment == [direction: {"bidirectional", "a_to_b", "b_to_a"}, atTop: BOOLEAN,
                editors: SUBSET Sides, contents: SUBSET Shas, ops: SUBSET Ops,
                pace: {"any", "debounced", "settled", "expired"},
                reuse: BOOLEAN, inOrder: BOOLEAN, unsubscribed: BOOLEAN,
                full: BOOLEAN, droppers: SUBSET Sides, maxChanges: Nat]

ASSUME FileSyncAssumption ==
    /\ NoSha \notin Shas
    /\ Environments \subseteq Environment
    /\ ConflictWindow \in Nat \ {0} /\ MaxDrops \in Nat

VARIABLES
    env,       \* the environment, fixed by Init
    disk,      \* the content of the file on each side
    current,   \* number of the client's newest runner
    dirty,     \* debouncer: operations not yet processed, per side and runner
    hashes,    \* Watcher.fileHashes, per side and runner
    seen,      \* events on their way to handleLocalChange, per side and runner
    supp,      \* Suppressor, per side and runner: see Suppression
    online,    \* the connection of the side is up
    up,        \* FileChangedEvents on the wire
    cmds,      \* FileSyncCommands on the wire, or whose goroutine has not run
    snap,      \* the snapshot of the side: not asked, asked, or its answer
    rows,      \* file_state: the row of each side; see EventRow for its stamp
    blobs,     \* contents in the blob store
    changes,   \* number of changes the users have made
    written,   \* history: contents the users have written
    last       \* history: the last change, its side and what it left

runner == <<current, dirty, hashes, seen, supp>>
wire == <<online, up, cmds, snap>>
users == <<env, changes, written, last>>
vars == <<disk, runner, wire, rows, blobs, users>>

-----------------------------------------------------------------------------
Runners == 1..(MaxDrops + 1)
Event == {e \in [op: Ops, sha: Shas \cup {NoSha}] :
             (e.op = "write") <=> (e.sha # NoSha)}
WriteEvent(c) == [op |-> "write", sha |-> c]
DeleteEvent == [op |-> "delete", sha |-> NoSha]

\* A command on the wire, without its stamp, and the runner that gets it.
Command == [op: {"fetch", "delete", "rename"}, sha: Shas \cup {NoSha}, by: Runners]

\* An entry of the suppressor, which is off once suppressTTL is over; no hashes
\* means any hash.
Suppression == [on: BOOLEAN, shas: SUBSET Shas]
NoSuppression == [on |-> FALSE, shas |-> {}]

\* The answer to a ListFilesRequest, or its absence.
Snap == [state: {"none", "asked", "answered"}, sha: Shas \cup {NoSha}]
NoSnap == [state |-> "none", sha |-> NoSha]
Asked  == [state |-> "asked", sha |-> NoSha]

Init ==
    /\ env \in Environments
    /\ disk = [s \in Sides |-> NoSha]
    /\ current = [s \in Sides |-> 1]
    /\ dirty = [s \in Sides |-> [r \in Runners |-> {}]]
    /\ hashes = [s \in Sides |-> [r \in Runners |-> NoSha]]
    /\ seen = [s \in Sides |-> [r \in Runners |-> << >>]]
    /\ supp = [s \in Sides |-> [r \in Runners |-> NoSuppression]]
    /\ online = [s \in Sides |-> TRUE]
    /\ up = [s \in Sides |-> << >>]
    /\ cmds = [s \in Sides |-> << >>]
    /\ snap = [s \in Sides |-> NoSnap]
    /\ rows = [s \in Sides |-> NoRow]
    /\ blobs = {}
    /\ changes = 0
    /\ written = {}
    /\ last = [side |-> "a", sha |-> NoSha]

\* fsnotify reports operation op on the file to every runner of side s.
Notify(s, op) ==
    dirty' = [dirty EXCEPT ![s] = [r \in Runners |->
                  IF r <= current[s] THEN @[r] \cup {op} ELSE {}]]

\* Nothing of side s is still on its way through its watchers.
Debounced(s) == \A r \in Runners : dirty[s][r] = {}

\* Nothing is on its way anywhere.
AtRest ==
    \A s \in Sides :
        /\ snap[s] = NoSnap /\ up[s] = << >> /\ cmds[s] = << >>
        /\ Debounced(s) /\ \A r \in Runners : seen[s][r] = << >>

\* ... and nothing is held up by a lost connection.
Quiescent == AtRest /\ \A s \in Sides : online[s]

-----------------------------------------------------------------------------
(* The users.                                                              *)

\* When a user changes the file: at any time, not before the last change has
\* left the debouncer, not before everything has come to rest, or even not
\* before suppressTTL is over too.
MayChange(s) ==
    /\ s \in env.editors
    /\ changes < env.maxChanges
    /\ env.pace = "debounced" => Debounced(s)
    /\ env.pace \in {"settled", "expired"} => Quiescent
    /\ env.pace = "expired" => \A t \in Sides, r \in Runners : ~supp[t][r].on

Change(s, c) ==
    /\ disk' = [disk EXCEPT ![s] = c]
    /\ changes' = changes + 1
    /\ last' = [side |-> s, sha |-> c]
    /\ UNCHANGED <<current, hashes, seen, supp, wire, rows, blobs, env>>

\* A content that was not there yet.  Which one does not matter: contents are
\* only compared.
Fresh == IF env.contents \subseteq written THEN NoSha
         ELSE CHOOSE c \in env.contents \ written : TRUE

Write(s, c) ==
    /\ "write" \in env.ops /\ MayChange(s)
    /\ c # disk[s]
    /\ c = Fresh \/ (env.reuse /\ c \in written)
    /\ Notify(s, "write")
    /\ written' = written \cup {c}
    /\ Change(s, c)

Remove(s) ==
    /\ "delete" \in env.ops /\ MayChange(s)
    /\ disk[s] # NoSha
    /\ Notify(s, "remove")
    /\ UNCHANGED written
    /\ Change(s, NoSha)

-----------------------------------------------------------------------------
(* Watcher and runner r of side s.                                         *)

\* The watcher reports ev of side s, unless its channel is full or the runner
\* does not have the subscription (yet).
Report(s, r, ev) ==
    \/ seen' = [seen EXCEPT ![s][r] = Append(@, ev)]
    \/ /\ env.full \/ (env.unsubscribed /\ r > 1)
       /\ UNCHANGED seen

\* The debounce timer fires: processEvent.  A write or create among the
\* operations wins; handleWrite hashes the file as it is now, and is silent
\* if it is gone or has the hash reported last.
ProcessEvent(s, r) ==
    /\ dirty[s][r] # {}
    /\ dirty' = [dirty EXCEPT ![s][r] = {}]
    /\ IF "write" \in dirty[s][r]
       THEN IF disk[s] \in {NoSha, hashes[s][r]}
            THEN UNCHANGED <<hashes, seen>>
            ELSE /\ hashes' = [hashes EXCEPT ![s][r] = disk[s]]
                 /\ Report(s, r, WriteEvent(disk[s]))
       ELSE /\ hashes' = [hashes EXCEPT ![s][r] = NoSha]
            /\ Report(s, r, DeleteEvent)
    /\ UNCHANGED <<disk, current, supp, wire, rows, blobs, users>>

\* Faulty variant: a command without a hash adds no "any", but its hash.
AddHash(e, c) == [on |-> TRUE, shas |-> e.shas \cup {c}]

\* Suppressor.Add, for a hash or (NoSha) for any; it also prolongs an entry that
\* is off and not collected yet, with the hashes it has.
Add(e, c) == [on |-> TRUE, shas |-> IF c = NoSha THEN {} ELSE e.shas \cup {c}]

\* Hit, for a delete, and HitWithSHA, for a write.  The entry has the path from
\* the client's root, the event the path from the pair's root, so nothing is
\* ever found for a pair that is rooted deeper.
Hit(e, ev) ==
    /\ env.atTop /\ e.on
    /\ ev.op = "write" /\ e.shas # {} => ev.sha \in e.shas

\* The look-up deletes an entry that is off.
LookedUp(e) == IF env.atTop /\ ~e.on THEN NoSuppression ELSE e

\* handleLocalChange: drop what a command of the server has caused; upload
\* the file as it is now, unless it is gone; send the event.  Without the
\* connection the upload, over HTTP, may still work, and the event is lost.
HandleLocalChange(s, r) ==
    LET ev == Head(seen[s][r])
        dropped == Hit(supp[s][r], ev) \/ (ev.op = "write" /\ disk[s] = NoSha)
    IN
    /\ seen[s][r] # << >>
    /\ seen' = [seen EXCEPT ![s][r] = Tail(@)]
    /\ supp' = [supp EXCEPT ![s][r] = LookedUp(@)]
    /\ \/ /\ ~dropped /\ ev.op = "write"
          /\ blobs' = blobs \cup {disk[s]}
       \/ /\ ~dropped /\ ev.op = "write" => ~online[s]
          /\ UNCHANGED blobs
    /\ up' = IF dropped \/ ~online[s] THEN up ELSE [up EXCEPT ![s] = Append(@, ev)]
    /\ UNCHANGED <<disk, current, dirty, hashes, online, cmds, snap, rows, users>>

\* suppressTTL is over, also while a file event of the command, or the command
\* itself, still takes its time.
Expire(s, r) ==
    /\ supp[s][r].on
    /\ supp' = [supp EXCEPT ![s][r].on = FALSE]
    /\ UNCHANGED <<disk, current, dirty, hashes, seen, wire, rows, blobs, users>>

\* gcOnce.
Collect(s, r) ==
    /\ ~supp[s][r].on /\ supp[s][r] # NoSuppression
    /\ supp' = [supp EXCEPT ![s][r] = NoSuppression]
    /\ UNCHANGED <<disk, current, dirty, hashes, seen, wire, rows, blobs, users>>

\* What the command needs is there: the blob that Download asks for, or the
\* file to remove or rename.
Found(s, cmd) == IF cmd.op = "fetch" THEN cmd.sha \in blobs ELSE disk[s] # NoSha

\* The effect of a command that finds what it needs.  The conflict file that a
\* rename makes is another path.
Execute(s, cmd) ==
    /\ disk' = [disk EXCEPT ![s] = cmd.sha]
    /\ Notify(s, IF cmd.op = "fetch" THEN "write" ELSE "remove")

\* Faulty variant: a command that fails is tried again until it succeeds.
HandleSyncCommandRetries(s, i) ==
    LET cmd == cmds[s][i] IN
    /\ i \in DOMAIN cmds[s] /\ Found(s, cmd)
    /\ env.inOrder => i = 1
    /\ cmds' = [cmds EXCEPT ![s] = SubSeq(@, 1, i - 1) \o SubSeq(@, i + 1, Len(@))]
    /\ supp' = [supp EXCEPT ![s][cmd.by] = Add(@, cmd.sha)]
    /\ Execute(s, cmd)
    /\ UNCHANGED <<current, hashes, seen, online, up, snap, rows, blobs, users>>

\* handleSyncCommand, a goroutine per command, of the runner that got it.  A
\* fetch fails if the blob is not there, and may fail without the connection.
\* A runner whose subscription has not come (yet) does nothing.  The
\* acknowledgement is left out: HandleFileSyncAck ignores it.
HandleSyncCommand(s, i) ==
    LET cmd == cmds[s][i]
        found == Found(s, cmd)
    IN
    /\ i \in DOMAIN cmds[s]
    /\ env.inOrder => i = 1
    /\ cmds' = [cmds EXCEPT ![s] = SubSeq(@, 1, i - 1) \o SubSeq(@, i + 1, Len(@))]
    /\ \/ env.unsubscribed /\ cmd.by > 1 /\ UNCHANGED <<disk, dirty, supp>>
       \/ /\ supp' = [supp EXCEPT ![s][cmd.by] = Add(@, cmd.sha)]
          /\ \/ found /\ Execute(s, cmd)
             \/ /\ ~found \/ (cmd.op = "fetch" /\ ~online[s])
                /\ UNCHANGED <<disk, dirty>>
    /\ UNCHANGED <<current, hashes, seen, online, up, snap, rows, blobs, users>>

-----------------------------------------------------------------------------
(* The server.                                                             *)

\* Send i of a plan is made: no client before it, or its own, is offline.
Made(plan, i) == i \in DOMAIN plan /\ \A j \in 1..i : online[plan[j].to]

\* A send of the plan fails, and the rest is not made; a one-way plan has only
\* one.
Fails(plan) == \E i \in DOMAIN plan : ~online[plan[i].to]

\* The newest connection of the client, and so its newest runner, gets a send.
OnWire(send) == [op |-> send.cmd.op, sha |-> send.cmd.sha, by |-> current[send.to]]

\* The commands of a plan that go to side s.  A plan has at most three sends.
CmdsFor(s, plan) ==
    LET Sent(i) == IF Made(plan, i) /\ plan[i].to = s THEN << OnWire(plan[i]) >> ELSE << >>
    IN  Sent(1) \o Sent(2) \o Sent(3)

\* The row of event ev.  decideLWW only tells differences of stamps below the
\* window apart, so stamps are kept relative to the newest, from 0 (at least
\* ConflictWindow older) to ConflictWindow (the newest).
EventRow(ev) == [op |-> ev.op, sha |-> ev.sha, smt |-> ConflictWindow]

\* The other side's row when the event comes gap later than the last one.
Aged(r, gap) == [r EXCEPT !.smt = IF @ > gap THEN @ - gap ELSE 0]

Plan(s, ev, gap) ==
    IF env.direction = "bidirectional"
    THEN handleBidirectional(s, EventRow(ev), Aged(rows[otherSide(s)], gap))
    ELSE resolveMirrorTargets(env.direction, s, EventRow(ev))

\* HandleFileChanged for event ev of side s: the row, the decision, the sends.
HandleFileChanged(s, ev, gap) ==
    /\ rows' = [t \in Sides |-> IF t = s THEN EventRow(ev) ELSE Aged(rows[t], gap)]
    /\ cmds' = [t \in Sides |-> cmds[t] \o CmdsFor(t, Plan(s, ev, gap))]

\* The read loop of side s.  The error of a bidirectional pair whose other
\* side is offline ends the loop, and with it the connection of s.
Receive(s, gap) ==
    LET plan == Plan(s, Head(up[s]), gap)
        failed == env.direction = "bidirectional" /\ Fails(plan)
    IN
    /\ up[s] # << >>
    /\ HandleFileChanged(s, Head(up[s]), gap)
    /\ up' = [up EXCEPT ![s] = IF failed THEN << >> ELSE Tail(@)]
    /\ online' = [online EXCEPT ![s] = ~failed]
    /\ snap' = IF failed THEN [snap EXCEPT ![s] = NoSnap] ELSE snap
    /\ UNCHANGED <<disk, runner, blobs, users>>

\* The client's answer to the ListFilesRequest: the file as it is now, or
\* nothing if the scan does not get to it (an error, a missing subscription).
HandleListFiles(s, c) ==
    /\ snap[s] = Asked
    /\ c = disk[s] \/ (env.unsubscribed /\ c = NoSha)
    /\ snap' = [snap EXCEPT ![s] = [state |-> "answered", sha |-> c]]
    /\ UNCHANGED <<disk, runner, online, up, cmds, rows, blobs, users>>

\* applyDiff: what the row does not know is handled as an event of the side;
\* an error of the handler is logged.
ApplyDiff(s, gap) ==
    LET r == rows[s]
        c == snap[s].sha
    IN
    /\ snap[s].state = "answered"
    /\ snap' = [snap EXCEPT ![s] = NoSnap]
    /\ IF MissedWrite(r, c) THEN HandleFileChanged(s, WriteEvent(c), gap)
       ELSE IF MissedDelete(r, c) THEN HandleFileChanged(s, DeleteEvent, gap)
       ELSE UNCHANGED <<rows, cmds>>
    /\ UNCHANGED <<disk, runner, online, up, blobs, users>>

-----------------------------------------------------------------------------
(* The connections.                                                        *)

\* The connection breaks.  Of the commands on the wire the client has received
\* the first n; the rest, and the events and the snapshot, are lost.
Disconnect(s, n) ==
    /\ s \in env.droppers /\ online[s] /\ current[s] <= MaxDrops
    /\ online' = [online EXCEPT ![s] = FALSE]
    /\ up' = [up EXCEPT ![s] = << >>]
    /\ cmds' = [cmds EXCEPT ![s] = SubSeq(@, 1, n)]
    /\ snap' = [snap EXCEPT ![s] = NoSnap]
    /\ UNCHANGED <<disk, runner, rows, blobs, users>>

\* The client registers again and makes a new runner; the server publishes
\* the subscriptions and asks for a snapshot.
Reconnect(s) ==
    /\ ~online[s] /\ current[s] <= MaxDrops
    /\ online' = [online EXCEPT ![s] = TRUE]
    /\ current' = [current EXCEPT ![s] = @ + 1]
    /\ snap' = [snap EXCEPT ![s] = Asked]
    /\ UNCHANGED <<disk, dirty, hashes, seen, supp, up, cmds, rows,
                   blobs, users>>

User(s) == Remove(s) \/ \E c \in Shas : Write(s, c)

Client(s) ==
    \/ \E r \in Runners : ProcessEvent(s, r) \/ HandleLocalChange(s, r) \/ Expire(s, r)
                           \/ Collect(s, r)
    \/ \E i \in DOMAIN cmds[s] : HandleSyncCommand(s, i)
    \/ \E c \in Shas \cup {NoSha} : HandleListFiles(s, c)

\* Two events are either within the conflict window of each other or not.
Server(s) == \E gap \in {1, ConflictWindow} : Receive(s, gap) \/ ApplyDiff(s, gap)

Network(s) == Reconnect(s) \/ \E n \in 0..Len(cmds[s]) : Disconnect(s, n)

Next == \E s \in Sides : User(s) \/ Client(s) \/ Server(s) \/ Network(s)

Spec == Init /\ [][Next]_vars

\* The timers and goroutines of the clients and of the server run, and the
\* wire delivers; nothing is assumed of the users and of the connections.
Fairness ==
    \A s \in Sides :
        /\ \A r \in Runners : WF_vars(ProcessEvent(s, r)) /\ WF_vars(HandleLocalChange(s, r))
        /\ WF_vars(\E i \in DOMAIN cmds[s] : HandleSyncCommand(s, i))
        /\ WF_vars(\E c \in Shas \cup {NoSha} : HandleListFiles(s, c))
        /\ WF_vars(\E gap \in {1, ConflictWindow} : Receive(s, gap))
        /\ WF_vars(\E gap \in {1, ConflictWindow} : ApplyDiff(s, gap))

FairSpec == Spec /\ Fairness

-----------------------------------------------------------------------------
\* Type invariant.
TypeOK ==
    /\ env \in Environments
    /\ disk \in [Sides -> Shas \cup {NoSha}]
    /\ current \in [Sides -> Runners]
    /\ dirty \in [Sides -> [Runners -> SUBSET {"write", "remove"}]]
    /\ hashes \in [Sides -> [Runners -> Shas \cup {NoSha}]]
    /\ seen \in [Sides -> [Runners -> Seq(Event)]]
    /\ supp \in [Sides -> [Runners -> Suppression]]
    /\ online \in [Sides -> BOOLEAN]
    /\ up \in [Sides -> Seq(Event)]
    /\ cmds \in [Sides -> Seq(Command)]
    /\ snap \in [Sides -> Snap]
    /\ rows \in [Sides -> Row] /\ \A s \in Sides : rows[s].smt <= ConflictWindow
    /\ blobs \in SUBSET Shas
    /\ changes \in 0..env.maxChanges
    /\ written \in SUBSET Shas
    /\ last \in [side: Sides, sha: Shas \cup {NoSha}]

\* A change of the last editor concerns the other side.
Due == Relevant(env.direction, last.side)

\* Convergence: when nothing is on its way any more, the two sides have the
\* same file.
QuiescentAgree == Quiescent /\ Due => disk["a"] = disk["b"]

\* Nothing breaks, no event is dropped, no subscription is missing, and what
\* the code does not guarantee: commands run in the order they were sent
\* (runner/app.go:114 starts a goroutine for each) and no content is written
\* again that was there before (engine.go:90 takes it for an echo).  The users
\* leave the watcher (one-way) or the other side (bidirectional) the time to
\* notice a change.
Orderly ==
    /\ env.inOrder /\ env.droppers = {} /\ ~env.unsubscribed /\ ~env.reuse /\ ~env.full
    /\ env.pace = "expired" \/ (env.pace # "any" /\ env.direction # "bidirectional")

\* The last change of a one-way pair wins, a delete too: when nothing is on its
\* way any more, both sides have what it left.
LastChangeWins ==
    Orderly /\ env.direction # "bidirectional" /\ Quiescent /\ Due
        => \A s \in Sides : disk[s] = last.sha

\* The same for a bidirectional pair with deletes, where an edit may win over
\* a delete (handleEditWins): a write that nobody changed since wins, whatever
\* deletes and restored edits went before it.
LastWriteWins ==
    Orderly /\ env.direction = "bidirectional" /\ Quiescent /\ last.sha # NoSha
        => \A s \in Sides : disk[s] = last.sha

\* The source of a one-way pair is its user's: no command ever changes the
\* file there, whatever is lost, delayed, reordered or echoed.
SourceUntouched ==
    [][\A s \in MirrorSource(env.direction) : disk'[s] # disk[s] => changes' # changes]_vars

\* What the runners write themselves does not come back as an event for ever
\* (spec.md:31): synchronisation comes to rest, for a one-way pair whatever its
\* users, connections and goroutines do, and for a bidirectional pair whose
\* users take turns.  Users of a bidirectional pair who write at the same time
\* are left out: once suppressions end too early (suppress.go:53), their two
\* contents may follow each other for ever.
Restful == env.direction # "bidirectional" \/ env.pace = "expired"
ComesToRest == Restful => <>[]AtRest
-----------------------------------------------------------------------------
(* The inductive invariant behind these properties (FileSyncProofs).       *)

Final(seq) == seq[Len(seq)]

\* The contents of a sequence of events or commands are among cs.
Only(seq, cs) == \A i \in DOMAIN seq : seq[i].sha \in cs

\* Whatever is on a disk, in a cache, under way or in a row, a user wrote it.
Known == written \cup {NoSha}
OriginInv ==
    \A s \in Sides :
        /\ disk[s] \in Known /\ snap[s].sha \in Known /\ rows[s].sha \in Known
        /\ Only(up[s], Known) /\ Only(cmds[s], Known)
        /\ \A r \in Runners : hashes[s][r] \in Known /\ Only(seen[s][r], Known)

\* Nothing is sent to the source of a one-way pair, nor suppressed there.
SourceInv ==
    \A s \in MirrorSource(env.direction) :
        cmds[s] = << >> /\ \A r \in Runners : ~supp[s][r].on

\* In an orderly environment the first connections last.
SteadyInv ==
    Orderly => \A s \in Sides :
        /\ online[s] /\ current[s] = 1 /\ snap[s] = NoSnap
        /\ \A r \in Runners \ {1} : dirty[s][r] = {} /\ seen[s][r] = << >>

\* The debouncer of side s will report the file as it is.
Noticed(s) ==
    \/ dirty[s][1] = {"write"} /\ disk[s] \notin {NoSha, hashes[s][1]}
    \/ dirty[s][1] = {"remove"} /\ disk[s] = NoSha

\* What goes from the source s of a one-way pair to side t ends with the
\* content of the source, and its blob is stored before its event is sent.
Delivered(s, t) ==
    IF seen[s][1] # << >> THEN Final(seen[s][1]).sha = disk[s]
    ELSE /\ disk[s] \in blobs \cup {NoSha}
         /\ IF up[s] # << >> THEN Final(up[s]).sha = disk[s]
            ELSE IF cmds[t] # << >> THEN Final(cmds[t]).sha = disk[s]
            ELSE last.side = s => disk[t] = disk[s]

MirrorInv ==
    Orderly => \A s \in MirrorSource(env.direction) :
        /\ last.side = s => last.sha = disk[s]
        /\ \A i \in DOMAIN cmds[otherSide(s)] : LET cmd == cmds[otherSide(s)][i] IN
              cmd.op = IF cmd.sha = NoSha THEN "delete" ELSE "fetch"
        /\ IF dirty[s][1] = {} THEN Delivered(s, otherSide(s)) ELSE Noticed(s)

FetchCmd(c) == [op |-> "fetch", sha |-> c, by |-> 1]
RenameCmd == [op |-> "rename", sha |-> NoSha, by |-> 1]

\* Nothing is under way at side s.
Silent(s) == dirty[s][1] = {} /\ seen[s][1] = << >> /\ up[s] = << >> /\ cmds[s] = << >>

\* The server does not know yet that side s wrote content c.
Unreported(s, c) ==
    /\ cmds[s] = << >> /\ Silent(otherSide(s)) /\ rows[otherSide(s)].sha # c
    /\ \/ /\ dirty[s][1] = {"write"} /\ hashes[s][1] # c
          /\ seen[s][1] = << >> /\ up[s] = << >> /\ ~supp[s][1].on
       \/ /\ dirty[s][1] = {} /\ hashes[s][1] = c
          /\ seen[s][1] = << WriteEvent(c) >> /\ up[s] = << >> /\ ~supp[s][1].on
       \/ /\ dirty[s][1] = {} /\ hashes[s][1] = c /\ c \in blobs
          /\ seen[s][1] = << >> /\ up[s] = << WriteEvent(c) >>

\* The server knows it; side s may be told to fetch it again, and says nothing.
Reported(s, c) ==
    /\ rows[s].op = "write" /\ rows[s].sha = c /\ c \in blobs
    /\ hashes[s][1] = c /\ dirty[s][1] \subseteq {"write"}
    /\ seen[s][1] = << >> /\ up[s] = << >>
    /\ \A i \in DOMAIN cmds[s] : cmds[s][i] = FetchCmd(c)

\* The other side, t, has c or will fetch it last.  A conflict's rename makes
\* it report a delete at most, which is answered by another fetch.
Told(t, c) ==
    \/ /\ cmds[t] = << RenameCmd, FetchCmd(c) >>
       /\ dirty[t][1] = {} /\ seen[t][1] = << >> /\ up[t] = << >>
    \/ /\ \A i \in DOMAIN cmds[t] : cmds[t][i] = FetchCmd(c)
       /\ cmds[t] = << >> \/ "write" \in dirty[t][1] => disk[t] = c
       /\ \A i \in DOMAIN seen[t][1] : seen[t][1][i] \in {WriteEvent(c), DeleteEvent}
       /\ \A i \in DOMAIN up[t] : up[t][i] \in {WriteEvent(c), DeleteEvent}

\* The last write of a bidirectional pair stays where it was made, and goes to
\* the other side.
TurnInv ==
    Orderly /\ env.direction = "bidirectional" /\ last.sha # NoSha
        => /\ disk[last.side] = last.sha
           /\ \/ Unreported(last.side, last.sha)
              \/ Reported(last.side, last.sha) /\ Told(otherSide(last.side), last.sha)

IInv == TypeOK /\ OriginInv /\ SourceInv /\ SteadyInv /\ MirrorInv /\ TurnInv
=============================================================================
