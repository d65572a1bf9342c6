----------------------------- MODULE SyncEngine -----------------------------
(***************************************************************************)
(* The server's synchronisation engine (internal/server/syncengine) for    *)
(* one sync pair: what HandleFileChanged does with the change events of    *)
(* the two clients, and which FileSyncCommands it hands to the hub.        *)
(*                                                                         *)
(* Everything the engine reads or writes is keyed by the pair id (the pair *)
(* row, file_state, sync_runs and the mutex in Engine.pairMu), so one pair *)
(* is modelled and a client is identified with the side of the pair it     *)
(* serves.  A worker is a goroutine that calls HandleFileChanged: the read *)
(* loop of a connection, or the goroutine that replays a snapshot diff     *)
(* after a connect.  A client that reconnects has the read loops of both   *)
(* connections and its diffs running at once, so any worker may serve any  *)
(* side.  The hub is seen through the Sender interface: a Send returns nil *)
(* or an error.  What the caller does with the handler's error (a read     *)
(* loop drops its connection, a diff goes on) is left to the modules of    *)
(* the hub and of the whole system; audit_log and log lines are left out.  *)
(***************************************************************************)
EXTENDS Decisions, FiniteSets

CONSTANTS
    Workers,          \* goroutines that may run HandleFileChanged
    Paths,            \* relative paths of the pair
    Free,             \* pairMu is not held
    Directions,       \* the directions an administrator gives the pair
    MaxClock          \* bound: no new work once the clock has reached it

ASSUME EngineAssumption ==
    /\ NoSha \notin Shas
    /\ Paths # {}
    /\ Directions # {}
    /\ Free \notin Workers
    /\ Directions \subseteq {"bidirectional", "a_to_b", "b_to_a", "unknown"}
    /\ ConflictWindow \in Nat
    /\ MaxClock \in Nat

VARIABLES
    pair,      \* the sync_pairs row: [exists, enabled, direction]
    rows,      \* file_state: rows[side][path]
    runs,      \* sync_runs: status of the last run for [destination][path]
    clock,     \* the wall clock time.Now().UnixNano() reads
    lock,      \* holder of the pair's mutex
    pc, from, todo, cur, pcopy, stamp, plan,   \* locals of the workers
    lastCmd,   \* history: last command accepted by the hub, [side][path]
    unrecorded,\* history: <<side, path>> whose last one-way send failed with no run
    settled    \* history: paths whose last relevant event was handled in full

store == <<pair, rows, runs>>
locals == <<pc, from, todo, cur, pcopy, stamp, plan>>
vars == <<store, clock, lock, locals, lastCmd, unrecorded, settled>>

-----------------------------------------------------------------------------
Event == [path: Paths, op: Ops, sha: Shas \cup {NoSha}]

Pair == [exists: BOOLEAN, enabled: BOOLEAN, direction: Directions]

\* The events a client sends: a write carries the hash of the content, a
\* delete carries none.
ClientEvent == {e \in Event : (e.op = "write") <=> (e.sha # NoSha)}

-----------------------------------------------------------------------------
\* Faulty variant: a file that is gone is replayed as a write.
DiffEventsAllWrites(side, snap) ==
    {[path |-> x, op |-> "write", sha |-> snap[x]] :
        x \in {y \in Paths : rows[side][y].sha # snap[y]}}

\* applyDiff: the events that make file_state of a side agree with the
\* snapshot snap of the client's files (NoSha: no such file).
DiffEvents(side, snap) ==
    {[path |-> x, op |-> "write", sha |-> snap[x]] :
        x \in {y \in Paths : MissedWrite(rows[side][y], snap[y])}}
    \cup
    {[path |-> x, op |-> "delete", sha |-> NoSha] :
        x \in {y \in Paths : MissedDelete(rows[side][y], snap[y])}}

-----------------------------------------------------------------------------
NoEvent == [path |-> CHOOSE x \in Paths : TRUE, op |-> "delete", sha |-> NoSha]

NoPair == [exists |-> FALSE, enabled |-> FALSE,
           direction |-> CHOOSE d \in Directions : TRUE]

Init ==
    /\ pair = NoPair
    /\ rows = [s \in Sides |-> [x \in Paths |-> NoRow]]
    /\ runs = [s \in Sides |-> [x \in Paths |-> "none"]]
    /\ clock = 0
    /\ lock = Free
    /\ pc = [w \in Workers |-> "idle"]
    /\ from = [w \in Workers |-> "a"]
    /\ todo = [w \in Workers |-> {}]
    /\ cur = [w \in Workers |-> NoEvent]
    /\ pcopy = [w \in Workers |-> NoPair]
    /\ stamp = [w \in Workers |-> 0]
    /\ plan = [w \in Workers |-> << >>]
    /\ lastCmd = [s \in Sides |-> [x \in Paths |-> NoCmd]]
    /\ unrecorded = {}
    /\ settled = {}

\* The file_state row upsertFileState builds for the event of worker w.
EventRow(w) == [op |-> cur[w].op, sha |-> cur[w].sha, smt |-> stamp[w]]

\* Bound: every busy worker will still advance the clock.
MoreWork == clock + Cardinality({v \in Workers : pc[v] # "idle"}) < MaxClock

-----------------------------------------------------------------------------
(* Where events come from.                                                 *)

\* The read loop of a connection of side s hands an event to the engine.
Receive(w, s, e) ==
    /\ pc[w] = "idle"
    /\ MoreWork
    /\ pc' = [pc EXCEPT ![w] = "next"]
    /\ from' = [from EXCEPT ![w] = s]
    /\ todo' = [todo EXCEPT ![w] = {e}]
    /\ UNCHANGED <<store, clock, lock, cur, pcopy, stamp, plan, lastCmd,
                   unrecorded, settled>>

\* RequestSnapshotAndDiff has its answer: applyDiff lists file_state, outside
\* the pair's mutex, and will replay the differences one by one.
ApplyDiff(w, s, snap) ==
    /\ pc[w] = "idle"
    /\ MoreWork
    /\ DiffEvents(s, snap) # {}
    /\ pc' = [pc EXCEPT ![w] = "next"]
    /\ from' = [from EXCEPT ![w] = s]
    /\ todo' = [todo EXCEPT ![w] = DiffEvents(s, snap)]
    /\ UNCHANGED <<store, clock, lock, cur, pcopy, stamp, plan, lastCmd,
                   unrecorded, settled>>

-----------------------------------------------------------------------------
(* HandleFileChanged, one action per access to the store or the hub.       *)

\* The handler returns, with or without an error: unlock, and the worker's caller carries on.
Leave(w) ==
    /\ lock' = Free
    /\ pc' = [pc EXCEPT ![w] = IF todo[w] = {} THEN "idle" ELSE "next"]
    /\ cur' = [cur EXCEPT ![w] = NoEvent]
    /\ pcopy' = [pcopy EXCEPT ![w] = NoPair]
    /\ stamp' = [stamp EXCEPT ![w] = 0]
    /\ plan' = [plan EXCEPT ![w] = << >>]
    /\ from' = [from EXCEPT ![w] = IF todo[w] = {} THEN "a" ELSE @]
    /\ UNCHANGED todo

\* Faulty variant: the handler does not take the pair's mutex.
BeginUnlocked(w, e) ==
    /\ pc[w] = "next" /\ pair.exists
    /\ e \in todo[w]
    /\ todo' = [todo EXCEPT ![w] = @ \ {e}]
    /\ pc' = [pc EXCEPT ![w] = "upsert"]
    /\ cur' = [cur EXCEPT ![w] = e]
    /\ pcopy' = [pcopy EXCEPT ![w] = pair]
    /\ settled' = IF Relevant(pair.direction, from[w])
                  THEN settled \ {e.path} ELSE settled
    /\ UNCHANGED <<store, clock, lock, from, stamp, plan, lastCmd, unrecorded>>

\* Lock the pair's mutex and read the pair; an unknown pair is ignored.  The
\* writes of a diff are replayed before its deletes.
Begin(w, e) ==
    /\ pc[w] = "next"
    /\ lock = Free
    /\ e \in todo[w]
    /\ e.op = "delete" => \A f \in todo[w] : f.op = "delete"
    /\ todo' = [todo EXCEPT ![w] = @ \ {e}]
    /\ IF pair.exists
       THEN /\ lock' = w
            /\ pc' = [pc EXCEPT ![w] = "upsert"]
            /\ cur' = [cur EXCEPT ![w] = e]
            /\ pcopy' = [pcopy EXCEPT ![w] = pair]
            /\ settled' = IF Relevant(pair.direction, from[w])
                          THEN settled \ {e.path} ELSE settled
       ELSE /\ pc' = [pc EXCEPT ![w] = IF todo[w] = {e} THEN "idle" ELSE "next"]
            /\ UNCHANGED <<lock, cur, pcopy, settled>>
    /\ UNCHANGED <<store, clock, from, stamp, plan, lastCmd, unrecorded>>

\* Faulty variant: the upsert's WHERE clause the wrong way round.
UpsertKeepsOld(w) ==
    LET s == from[w]
        x == cur[w].path
    IN
    /\ pc[w] = "upsert" /\ pair.exists
    /\ clock' = clock + 1
    /\ stamp' = [stamp EXCEPT ![w] = clock + 1]
    /\ rows' = IF ~IsRow(rows[s][x]) \/ clock + 1 < rows[s][x].smt
               THEN [rows EXCEPT ![s][x] = [op |-> cur[w].op, sha |-> cur[w].sha,
                                            smt |-> clock + 1]]
               ELSE rows
    /\ pc' = [pc EXCEPT ![w] = "dispatch"]
    /\ UNCHANGED <<pair, runs, lock, from, todo, cur, pcopy, plan,
                   lastCmd, unrecorded, settled>>

\* upsertFileState: stamp the event and write the row; the WHERE clause of
\* the upsert keeps a row that is not older.  A pair deleted meanwhile fails
\* the foreign key (StoreError).
Upsert(w) ==
    LET s == from[w]
        x == cur[w].path
        now == clock + 1
    IN
    /\ pc[w] = "upsert"
    /\ pair.exists
    /\ clock' = now
    /\ stamp' = [stamp EXCEPT ![w] = now]
    /\ rows' = IF ~IsRow(rows[s][x]) \/ now > rows[s][x].smt
               THEN [rows EXCEPT ![s][x] = [op |-> cur[w].op, sha |-> cur[w].sha,
                                            smt |-> now]]
               ELSE rows
    /\ pc' = [pc EXCEPT ![w] = "dispatch"]
    /\ UNCHANGED <<pair, runs, lock, from, todo, cur, pcopy, plan,
                   lastCmd, unrecorded, settled>>

\* Faulty variant: the error path returns without unlocking.
StoreErrorKeepsLock(w) ==
    /\ pc[w] \in {"upsert", "dispatch"}
    /\ pc' = [pc EXCEPT ![w] = IF todo[w] = {} THEN "idle" ELSE "next"]
    /\ UNCHANGED <<store, clock, lock, from, todo, cur, pcopy, stamp, plan,
                   lastCmd, unrecorded, settled>>

\* The store fails: the pair is gone, the request's context has ended, or
\* SQLite reports an error.
StoreError(w) ==
    /\ pc[w] \in {"upsert", "dispatch"}
    /\ Leave(w)
    /\ UNCHANGED <<store, clock, lastCmd, unrecorded, settled>>

\* Decide, on the copy of the pair read under the lock, what to send.  Only
\* a bidirectional pair reads the other side's row.
Decide(w) ==
    LET d == pcopy[w].direction
        other == rows[otherSide(from[w])][cur[w].path]
    IN
    /\ pc[w] = "dispatch"
    /\ ~(pcopy[w].enabled /\ d = "unknown")
    /\ plan' = [plan EXCEPT ![w] =
                  IF ~pcopy[w].enabled THEN << >>
                  ELSE IF d = "bidirectional"
                       THEN handleBidirectional(from[w], EventRow(w), other)
                       ELSE resolveMirrorTargets(d, from[w], EventRow(w))]
    /\ pc' = [pc EXCEPT ![w] = "send"]
    /\ UNCHANGED <<store, clock, lock, from, todo, cur, pcopy, stamp,
                   lastCmd, unrecorded, settled>>

\* "unknown direction": the web form's value is stored unchecked.
DecideUnknown(w) ==
    /\ pc[w] = "dispatch"
    /\ pcopy[w].enabled /\ pcopy[w].direction = "unknown"
    /\ Leave(w)
    /\ UNCHANGED <<store, clock, lastCmd, unrecorded, settled>>

\* recordSyncRun: insert the run.  A row needs its pair (foreign key), and any
\* error of the insert is logged and otherwise ignored.
recordSyncRun(to, x, status) ==
    \/ pair.exists /\ runs' = [runs EXCEPT ![to][x] = status]
    \/ UNCHANGED runs

\* The hub accepts the next command of the plan.
SendOk(w) ==
    LET p == Head(plan[w])
        x == cur[w].path
    IN
    /\ pc[w] = "send" /\ plan[w] # << >>
    /\ lastCmd' = [lastCmd EXCEPT ![p.to][x] = p.cmd]
    /\ IF p.run THEN recordSyncRun(p.to, x, "ok") ELSE UNCHANGED runs
    /\ unrecorded' = unrecorded \ {<<p.to, x>>}
    /\ plan' = [plan EXCEPT ![w] = Tail(@)]
    /\ UNCHANGED <<pair, rows, clock, lock, pc, from, todo, cur,
                   pcopy, stamp, settled>>

\* The hub cannot send (client offline, or the write fails).  A one-way pair
\* tries to record a failed run and goes on, whether or not the insert works;
\* a bidirectional pair returns the error.
SendFail(w) ==
    LET p == Head(plan[w])
        x == cur[w].path
    IN
    /\ pc[w] = "send" /\ plan[w] # << >>
    /\ \/ /\ pcopy[w].direction # "bidirectional"
          /\ recordSyncRun(p.to, x, "failed")
          /\ unrecorded' = IF runs'[p.to][x] = "failed"
                           THEN unrecorded \ {<<p.to, x>>}
                           ELSE unrecorded \cup {<<p.to, x>>}
          /\ plan' = [plan EXCEPT ![w] = Tail(@)]
          /\ UNCHANGED <<lock, pc, from, todo, cur, pcopy, stamp>>
       \/ /\ pcopy[w].direction = "bidirectional"
          /\ Leave(w)
          /\ UNCHANGED <<runs, unrecorded>>
    /\ UNCHANGED <<pair, rows, clock, lastCmd, settled>>

\* Everything is sent: the handler returns nil.
Return(w) ==
    /\ pc[w] = "send" /\ plan[w] = << >>
    /\ Leave(w)
    /\ settled' = IF /\ pcopy[w].enabled
                     /\ pcopy[w].direction = pair.direction
                     /\ Relevant(pair.direction, from[w])
                  THEN settled \cup {cur[w].path} ELSE settled
    /\ UNCHANGED <<store, clock, lastCmd, unrecorded>>

-----------------------------------------------------------------------------
(* The rest of the server, as the engine sees it.                          *)

\* UpsertPair: an administrator creates the pair or saves the edit form (an
\* update that raced a delete inserts the row again).
UpsertPair(d, e) ==
    /\ pair' = [exists |-> TRUE, enabled |-> e, direction |-> d]
    /\ settled' = IF d = pair.direction THEN settled ELSE {}
    /\ UNCHANGED <<rows, runs, clock, lock, locals, lastCmd, unrecorded>>

\* DeletePair: the row, and by cascade its file_state and sync_runs.
DeletePair ==
    /\ pair.exists
    /\ pair' = [pair EXCEPT !.exists = FALSE]
    /\ rows' = [s \in Sides |-> [x \in Paths |-> NoRow]]
    /\ runs' = [s \in Sides |-> [x \in Paths |-> "none"]]
    /\ unrecorded' = {}
    /\ settled' = {}
    /\ UNCHANGED <<clock, lock, locals, lastCmd>>

Tick ==
    /\ clock < MaxClock
    /\ clock' = clock + 1
    /\ UNCHANGED <<store, lock, locals, lastCmd, unrecorded, settled>>

Handle(w) ==
    \/ \E e \in todo[w] : Begin(w, e)
    \/ Upsert(w)
    \/ StoreError(w)
    \/ Decide(w)
    \/ DecideUnknown(w)
    \/ SendOk(w)
    \/ SendFail(w)
    \/ Return(w)

Environment ==
    \/ \E d \in Directions, e \in BOOLEAN : UpsertPair(d, e)
    \/ DeletePair
    \/ Tick

Next ==
    \/ \E w \in Workers, s \in Sides, e \in ClientEvent : Receive(w, s, e)
    \/ \E w \in Workers, s \in Sides, snap \in [Paths -> Shas \cup {NoSha}] :
          ApplyDiff(w, s, snap)
    \/ \E w \in Workers : Handle(w)
    \/ Environment

Spec == Init /\ [][Next]_vars

\* The goroutines run; sync.Mutex hands the lock to a waiter eventually; no
\* fairness for the clients, the administrator or the network.
Fairness ==
    \A w \in Workers :
        /\ WF_vars(Handle(w))
        /\ SF_vars(\E e \in todo[w] : Begin(w, e))

FairSpec == Spec /\ Fairness

-----------------------------------------------------------------------------
InHandler(w) == pc[w] \in {"upsert", "dispatch", "send"}

\* Type invariant: the tables, the locals of the goroutines and the history
\* variables have the shape the code gives them.
TypeOK ==
    /\ pair \in Pair
    /\ rows \in [Sides -> [Paths -> Row]]
    /\ runs \in [Sides -> [Paths -> {"none", "ok", "failed"}]]
    /\ clock \in Nat
    /\ lock \in Workers \cup {Free}
    /\ pc \in [Workers -> {"idle", "next", "upsert", "dispatch", "send"}]
    /\ from \in [Workers -> Sides]
    /\ todo \in [Workers -> SUBSET ClientEvent]
    /\ cur \in [Workers -> ClientEvent]
    /\ pcopy \in [Workers -> Pair]
    /\ stamp \in [Workers -> Nat]
    /\ plan \in [Workers -> Seq(Send)]
    /\ lastCmd \in [Sides -> [Paths -> Cmd]]
    /\ unrecorded \in SUBSET (Sides \X Paths)
    /\ settled \in SUBSET Paths

\* The precondition decideLWW states (lww.go:39) and HandleFileChanged must
\* establish: while an event is being decided and sent, its row is the one in
\* file_state (or the pair has been deleted), and it is strictly newer than
\* every other row of the pair.  It takes the mutex, the stamp taken under it
\* and the WHERE clause together; the branch of handleBidirectional in which
\* the other side wins a conflict is therefore never taken.
EventIsNewest ==
    \A w \in Workers : pc[w] \in {"dispatch", "send"} =>
        /\ rows[from[w]][cur[w].path] \in {EventRow(w), NoRow}
        /\ \A s \in Sides, x \in Paths :
              <<s, x>> # <<from[w], cur[w].path>> => rows[s][x].smt < stamp[w]

\* What a one-way pair owes path x: the last command the destination was sent
\* is the one the source's row calls for, or the failure is on record.  Only
\* when the send and the insert of its failed run fail together is neither
\* there, and nothing but the log tells (engine.go:286).
MirrorResolved(x) ==
    \A s \in MirrorSource(pair.direction) :
        IsRow(rows[s][x]) =>
            \/ lastCmd[otherSide(s)][x] = dispatchSync(otherSide(s), rows[s][x]).cmd
            \/ runs[otherSide(s)][x] = "failed"
            \/ <<otherSide(s), x>> \in unrecorded

Fetched(s, x, r) ==
    lastCmd[s][x] = [op |-> "fetch", sha |-> r.sha, smt |-> r.smt]

\* What a bidirectional pair owes path x.  A newest write has reached the
\* other side, as a row of the same content or as the last command sent to
\* it.  A newest delete has reached it too, unless the other side's row is
\* an edit: then the edit has been sent back to the side that deleted.
LWWResolved(x) ==
    \A s \in Sides :
        LET r == rows[s][x]
            o == rows[otherSide(s)][x]
        IN
        (IsRow(r) /\ r.smt > o.smt) =>
            /\ r.op = "write" =>
                  \/ o.op = "write" /\ o.sha = r.sha
                  \/ Fetched(otherSide(s), x, r)
            /\ r.op = "delete" =>
                  \/ o.op = "none" /\ lastCmd[otherSide(s)][x].op = "delete"
                  \/ o.op = "delete"
                  \/ o.op = "write" /\ Fetched(s, x, o)

\* HandleFileChanged keeps its promise: whatever the other goroutines, the
\* administrator and the connections do in between, once the last relevant
\* event of a path has been handled without an error, the commands sent
\* agree with the rows stored; a one-way pair may instead have the failed send
\* on record, or have lost that record to a failing store as well.
HandledMeansResolved ==
    \A x \in settled : IF pair.direction = "bidirectional"
                        THEN LWWResolved(x) ELSE MirrorResolved(x)

\* The command c for side s and path x would replace different content that
\* side wrote within the conflict window, by a handler of a bidirectional pair.
Overwrites(s, x, c) ==
    /\ c.op = "fetch"
    /\ rows[s][x].op = "write" /\ rows[s][x].sha # c.sha
    /\ c.smt > rows[s][x].smt /\ c.smt - rows[s][x].smt < ConflictWindow
    /\ \A w \in Workers : InHandler(w) => pcopy[w].direction = "bidirectional"

OverwriteStep ==
    \A s \in Sides, x \in Paths :
        lastCmd'[s][x] # lastCmd[s][x] /\ Overwrites(s, x, lastCmd'[s][x])
        => lastCmd[s][x].op = "rename"

\* No silent overwrite in a conflict (conflict.go:25-29): a fetch that
\* replaces the other side's different, concurrently written content is only
\* sent when the command before it, for that side and path, was the rename
\* that saves the loser's copy.
NoOverwriteWithoutRename == [][OverwriteStep]_vars

StampOrderStep ==
    \A s \in Sides, x \in Paths :
        \/ lastCmd'[s][x].smt >= lastCmd[s][x].smt
        \/ \E w \in Workers : /\ InHandler(w) /\ from[w] = s
                              /\ cur[w].path = x /\ cur[w].op = "delete"

\* Commands for a side and path are sent in the order of the server's stamps:
\* content already superseded is never sent again, except back to the side
\* that has just deleted the file (delete against edit).
CommandsInStampOrder == [][StampOrderStep]_vars

\* Every handler ends: the mutex is always released, also on the error paths,
\* so no goroutine is blocked for ever in pairLock.
HandlersEnd ==
    \A w \in Workers : pc[w] = "next" ~> pc[w] = "idle"

-----------------------------------------------------------------------------
(* The inductive invariant behind EventIsNewest and HandledMeansResolved.  *)

\* Mutual exclusion: a worker is inside the handler iff it holds the mutex.
LockInv == \A w \in Workers : InHandler(w) <=> lock = w

\* What the rows can be: stamped by the clock, a hash exactly for a write,
\* and none at all once the pair is gone (foreign key).
RowInv ==
    \A s \in Sides, x \in Paths :
        /\ rows[s][x].smt <= clock
        /\ ~IsRow(rows[s][x]) => rows[s][x] = NoRow
        /\ IsRow(rows[s][x]) =>
              /\ pair.exists
              /\ rows[s][x].smt > 0
              /\ (rows[s][x].op = "write") <=> (rows[s][x].sha # NoSha)

NoRows == \A s \in Sides, x \in Paths : rows[s][x] = NoRow

\* The event being handled is in file_state, newer than all other rows and
\* than all commands; only deleting the pair takes it away, with all rows.
StampInv ==
    /\ \A s \in Sides, x \in Paths : lastCmd[s][x].smt <= clock
    /\ \A w \in Workers : pc[w] \in {"dispatch", "send"} =>
        /\ 0 < stamp[w] /\ stamp[w] <= clock
        /\ \A s \in Sides, x \in Paths : lastCmd[s][x].smt <= stamp[w]
        /\ \/ rows[from[w]][cur[w].path] = EventRow(w)
           \/ NoRows
        /\ \A s \in Sides, x \in Paths :
              <<s, x>> # <<from[w], cur[w].path>> => rows[s][x].smt < stamp[w]

\* A path whose last event is settled is not being sent to.
BusyInv ==
    \A w \in Workers : InHandler(w) /\ cur[w].path \in settled =>
        /\ pcopy[w].direction = pair.direction
        /\ ~Relevant(pair.direction, from[w])

\* The rest of a plan: empty if the event is not to be propagated, and never
\* older content, except an edit sent back to the side that deleted.
PlanInv ==
    \A w \in Workers : pc[w] = "send" =>
        /\ plan[w] # << >> => /\ pcopy[w].enabled
                              /\ Relevant(pcopy[w].direction, from[w])
        /\ \A i \in 1..Len(plan[w]) :
              /\ plan[w][i].cmd.smt <= stamp[w]
              /\ \/ plan[w][i].cmd.smt = stamp[w]
                 \/ plan[w][i].to = from[w] /\ cur[w].op = "delete"

\* How far a plan has come, as long as the rows it was made from are there.
Progress(w) ==
    LET s == from[w]
        t == otherSide(s)
        x == cur[w].path
        e == EventRow(w)
        o == rows[t][x]
    IN
    IF pcopy[w].direction = "bidirectional"
    THEN \/ plan[w] = handleBidirectional(s, e, o)
         \/ plan[w] = << >> /\ LWWResolved(x)
         \/ /\ decideLWW(e, o) = "Conflict"
            /\ \/ /\ plan[w] = << Fetch(t, e), Fetch(s, e) >>
                  /\ lastCmd[t][x].op = "rename"
               \/ /\ plan[w] = << Fetch(s, e) >>
                  /\ Fetched(t, x, e)
    ELSE \/ plan[w] = << dispatchSync(t, e) >>
         \/ /\ plan[w] = << >>
            /\ \/ lastCmd[t][x] = dispatchSync(t, e).cmd
               \/ runs[t][x] = "failed"
               \/ <<t, x>> \in unrecorded

ProgressInv ==
    \A w \in Workers :
        (/\ pc[w] = "send"
         /\ pcopy[w].enabled
         /\ Relevant(pcopy[w].direction, from[w])
         /\ rows[from[w]][cur[w].path] = EventRow(w)) => Progress(w)

IInv ==
    /\ TypeOK
    /\ LockInv
    /\ RowInv
    /\ StampInv
    /\ BusyInv
    /\ PlanInv
    /\ ProgressInv
    /\ HandledMeansResolved
=============================================================================
