# Verification of axion

axion keeps directories of client machines in sync through a server. This
directory holds TLA+ models of its core, configurations that check them with
TLC, and proofs checked by TLAPS. Paths below are relative to `src/`; `A.go:12`
is line 12 of a file named in the same section.

## 1. The system

A *client* watches a directory, uploads changed files as blobs named by their
SHA-256 over HTTP, and reports every change over a WebSocket. The *server*
stores one row per pair, side and path (`file_state`), decides what the other
side has to do, and sends it commands (fetch, delete, rename). A *pair* joins a
directory of client A with one of client B; it is bidirectional (last write
wins by server time, conflicts within a window keep the loser as a conflict
file) or one-way (the destination mirrors the source).

| Part | Code | State | Operations | Talks to |
|---|---|---|---|---|
| Sync engine | `internal/server/syncengine` | a mutex per pair; the rows are in the store | `HandleFileChanged`, `HandleFileSyncAck` (does nothing), `RequestSnapshotAndDiff`, `PublishSubscriptions`, `PublishPairUpdate`, `PublishPairUnsubscribe` | store; hub (sends, list requests); called by the hub's read loops and by the connect callback's goroutine |
| Scheduler | `internal/server/syncengine/scheduler.go` | pending keys, a semaphore in all and one per client | `Acquire`, the release function | nothing yet: the server does not construct it |
| Hub | `internal/server/hub` | connections by client, pending requests, a WaitGroup | `Register`, `Unregister`, `Send`, `SendAndWait`, `Close`; per connection a read loop and a ping loop | WebSockets; engine; callbacks of the server application |
| WebSocket endpoint, server application | `internal/server/http/ws.go`, `internal/server/app` | `clients.status` | register a client, `onConnect`, `onDisc`, shutdown | hub, store |
| Blob store | `internal/server/blobstore`, `internal/server/http/blobs.go` | files `<sha>` and `<sha>.partial`, one mutex | `Put`, `PutRange`, `Delete`, `List`, `GC` every hour | HTTP handlers, `file_state` (references) |
| Store | `internal/server/store` | SQLite tables | upserts with conditions, cascading deletes | everything in the server |
| Web UI | `internal/server/web` | none of its own | create, update (etag), delete pairs; rename, delete clients; browse; live updates | store, engine, hub |
| Client runner | `internal/client/runner` | subscriptions, suppressor | handle local change, handle command (a goroutine each), snapshot | watcher, transfer, connection |
| Watcher | `internal/watcher` | debounce timers, hash cache | file system event to change event | runner |
| Client connection | `internal/client/conn`, `internal/client/app` | socket, backoff | dial, register, read loop, reconnect with a new runner | hub |
| Transfer | `internal/client/transfer` | `<rel>.partial` on the client | upload (HEAD, PUT), download | blob endpoint |

What is hard about it:

* **Concurrency.** Read loops of both clients, snapshot diffs and web handlers
  meet in one pair; the client runs commands in goroutines of their own while
  its user and its watcher go on.
* **Failure and restarts.** Connections break between any two messages and come
  back as a new connection while the old one is cleaned up; sends and the store
  fail in the middle of a handler; the server may crash in the middle of an
  upload.
* **Ordering and staleness.** Everything is ordered by stamps the server takes
  from its clock; the rows describe what a side *reported*, not what it has.
* **Timing.** Debounce (200 ms), suppression of a client's own writes (2 s), the
  conflict window, request timeouts, ping timeouts, the collector's age limit.

What makes each part correct: the engine's rows and commands agree and follow
one order; the hub never loses a reconnection, an answer or a goroutine; a blob
has the content of its hash and is not collected while it is needed; an
administrator never overwrites what he has not seen, and clients watch what is
stored; a file is never seen torn; a client that can reach the server gets a
session again and again and reports what its user leaves in a file; end to end,
both sides end up with the last change, a one-way source is never written to,
and synchronisation comes to rest.

`PROJECT.json` lists the parts with their status, the hazards line by line, and
for every definition the code it models.

## 2. The modules

```
Decisions ----+-- SyncEngine --- MCSyncEngine, SyncEngineProofs
              +-- FileSync ----- MCFileSync, FileSyncProofs
Hub ------------ MCHub, HubProofs
BlobStore ------ MCBlobStore, BlobStoreProofs
OptimisticRegister <-(implements)- PairAdmin --- MCPairAdmin, PairAdminProofs
Scheduler ------ MCScheduler, SchedulerProofs
ClientSession -- MCClientSession, ClientSessionProofs
Transfer ------- MCTransfer, TransferProofs
```

**Decisions** has the engine's pure functions: `decideLWW`, `dispatchSync`,
`dispatchConflict`, `handleEditWins`, `handleBidirectional`,
`resolveMirrorTargets`, and the two tests of the snapshot diff (`MissedWrite`,
`MissedDelete`). Each returns the sequence of sends the code would make. A hash
is a model value, a stamp a number, a client the side it is on; conflict file
names, audit rows and log lines are left out.

**SyncEngine** is one pair with any number of goroutines. `Receive` is a read
loop that delivers an event, `ApplyDiff` a snapshot diff that reads the rows
(without the mutex) and then calls the handler for each difference. A handler
goes `Begin` (mutex, `GetPair`, early returns), `Upsert` (stamp and conditional
upsert), `Decide` or `DecideUnknown`, then one `SendOk`/`SendFail` per command,
then `Return`; `StoreError` is the error return of either store call. In between
an administrator may `UpsertPair` or `DeletePair` (whose cascade removes the
rows). `recordSyncRun` may lose its row to a failing store, which the code only
logs (`engine.go:286`). `lastCmd` (last command per side and path), `settled`
(paths whose last event was handled without an error) and `unrecorded` (sends
of a one-way pair that failed and left no `sync_runs` row either) are history
variables.

**Hub** is one client of the hub: its connections, its requests, the shutdown
and the administrator's delete. `Accept`/`Refuse`/`Register` are `ServeHTTP`
(the row is written before the response); `HandleEnvelope`, `HandlerOk`,
`ReadLoopEnds`, `Unregister`, `OnDisc` are `Run` and its deferred steps;
`SendAndWait`, `Lookup`, `Write`, `WriteError`, `Answered`, `Timeout`, `Cancel`
are one request; `Resolve` takes the entry under the mutex and `HandOver` sends
to the channel outside it, as `pending.go` does; `Collect`, `CloseNext`,
`Drained`, `GraceOver`, `Shutdown` are `Hub.Close` and `runServer`. `Break` and
`Stall` are the network. Clients share only the request registry, whose keys are
unique, so one client is enough.

**BlobStore** copies bodies chunk by chunk under `FS.mu`. `HeadBlob` is the
client's question whether the blob exists, `Put` and `PutRange` open
`.partial` (truncated, or at an offset the client chooses), `Copy` writes one
chunk, right or wrong; `Commit` and `Reject` are the checks at the end,
`CopyError` an aborted body, `Crash` a restart that keeps the files. `Report`
sets `file_state`, `ReportDelete` clears it. The collector reads the references
of each side (`CollectA`, `CollectB`), lists the old files (`List`) and deletes
them one at a time (`Delete`). `Age` lets the age limit pass.

**PairAdmin** is the life of one pair: administrators who open the edit form,
cancel it, create, update and delete (`web/pairs.go`), the row with its etag
(`UpsertPair`), and the `SubscribePair` messages that the requests and the
connect callbacks send to the clients' registries. A request is a goroutine; a
step is what it does between two calls of the store or of the hub, so that
other requests, callbacks and connections come in between. `Update` is
`handlePairUpdate` up to the comparison of the etag, `UpsertPair` the save,
`PublishPairUpdate` and `PublishPairUnsubscribe` the reading of the row by the
publication, `Send` its two messages. What was entered is a revision number.
`Environments` says how far requests overlap and whether the store fails.

**OptimisticRegister** states what an optimistic lock promises: a save goes
through only if the record is still the one its user was looking at, and a
deleted record does not come back. `PairAdmin` implements it
(`NoLostUpdate == Register!Spec`, with the revisions of the row and of the
forms as the abstract state).

**Scheduler** has `Acquire` in its parts (the key under the mutex, the global
permit, the client's permit), its three ways out when a context ends
(`LeaveGlobal`, `LeaveClient`, `ReturnClient`) and the release function in the
order of its steps. `golang.org/x/sync/semaphore` is external and modelled as
the code relies on it: a FIFO queue, a release hands over to the head.

**ClientSession** is `Conn.Run` against `WSHandler.ServeHTTP`: dial, `Conn.ws`,
backoff reset, registration, read loop, clean-up and wait on one side;
registration, response, `hub.Register` with the connect callback and the read
loop on the other. `OnConnect` sends the subscriptions and asks for a snapshot;
`OnConnectFails` is an error of the store in it, which sends less and leaves the
session up (`server/app/app.go:121`), `DiffFails` the 30 second limit of the
request or an error of the diff (`diff.go:42`), after which a late answer goes
to nobody, and `HandlerFails` an error of a handler, which ends the read loop
(`hub/conn.go:74`). `diff` tells what became of the session's request. `Grab` and `WriteEvent` are `Conn.Send` of a runner of an
earlier session, which reads `Conn.ws` under the mutex and writes without it, so
an event may come before the registration or to a socket already replaced.
Messages are their types; a snapshot is small or exceeds `maxMessageBytes`.

**Transfer** is the client's side of blob transfers for one path, over a file
system of names and inodes (an open file can be renamed or unlinked): a
`Download` per fetch command (`StatPartial`, `RemovePartial`, `Get`,
`CreatePartial`, `Copy`, `RenamePartial`), the watcher (`Watch`), and an upload
with its event (`ComputeSHA`, `HeadBlob`, `Open`, `PutBlock`, `PutBlob`,
`SendEvent`), while the user edits the file in place, transfers break, the
server sends wrong bytes and the client crashes. `told` is the last content of
the file that an event told of.

**FileSync** composes the parts end to end for one file. What has a module of
its own is seen from outside: `HandleFileChanged` is one step, a connection is
up or down, a blob is stored or not, a download is one step. Users `Write` and
`Remove`; `ProcessEvent` is the debounce timer with the joined operations and
the hash cache, `Report` the watcher's channel; `HandleLocalChange` checks the
suppressor, uploads the file *as it is then* and sends the event;
`HandleSyncCommand` runs one command; `Receive` and `ApplyDiff` are the server;
`Disconnect` and `Reconnect` lose what is on the wire and start another runner
while the old one keeps watching, as `client/app/app.go:113` does; a command is
executed by the runner that got it, with its suppressor, and fails without the
subscription (`runner/app.go:241`). `Expire` ends a suppression at any time; an
expired entry keeps its hashes until a look-up or the collector (`Collect`)
removes it, or a command prolongs it. Stamps are kept relative to the newest one, because
`decideLWW` only looks at differences below the window (`Aged`), so the state
space is finite without a clock. An *environment* says what users, goroutines,
scans, channels and connections do; it is chosen by `Init` and kept, and a run
lists the ones it considers.

## 3. The runs

| Run | Shows |
|---|---|
| `engine` | for two goroutines, all directions and every failure: the row of the event being decided is stored and the newest (`EventIsNewest`, the precondition `lww.go:39` states); once the last relevant event is handled, commands agree with rows, or a one-way send failed, which is on record unless the insert failed too (`HandledMeansResolved`); a fetch that replaces concurrent content follows a rename (`NoOverwriteWithoutRename`); superseded content is not sent again (`CommandsInStampOrder`) |
| `engine_live` | every handler returns and the mutex is released on every path (`HandlersEnd`) |
| `hub` | a reconnection is never lost to the clean-up of the old connection (`NewestStaysRegistered`, `OneLiveConnection`), requests leave no entry and never block a read loop (`NoPendingLeak`, `ResolveNeverBlocks`), a drained hub has written its last row (`DrainedMeansDone`), requests and replaced connections end (`RequestsEnd`, `ReplacedConnectionsEnd`) |
| `blobs` | a stored blob has the content of its hash (`BlobIntegrity`), a blob just put is not collected (`FreshPutKept`) |
| `pairs` | the pair form implements the optimistic lock when no request comes between comparison and save (`NoLostUpdate`); clients that are online end with the subscription that is stored, whatever connects, disconnects and is lost, when publications do not overlap and the store does not fail (`SubscriptionsAgree`) |
| `scheduler` | permits neither leak nor double, however calls end (`PermitsAccounted`); one job per key (`OneJobPerKey`); every `Acquire` returns and a cancelled one is over soon (`AcquireReturns`) |
| `session` | the first message the client reads is the response (`ResponseFirst`); `Run` ends with its context (`RunEnds`); a client with a snapshot that fits gets, again and again, a session in which the server compares it with its rows; excepted are sessions that stay up although the store failed the connect callback or the request ran out of time, since nothing repeats it (`CatchesUp`) |
| `transfer` | with fetches of a path one after another: the file is never torn (`FileWhole`), an acknowledged fetch has written its content (`AckMeansWritten`), a new content of the user's that is in the file when its changes are processed is stored and is what the last event told of, as long as nothing failed (`SettledIsReported`), leftovers of crashes do not stop later fetches (`FetchSucceeds`) |
| `sync` | six environments. `Mirror`, a one-way pair with changes further apart than the debounce time but not than their propagation, whose commands run in the order they were sent (which `runner/app.go:114` does not guarantee): at rest both sides have the last change (`LastChangeWins`). `Turns` and `Deeper`, a bidirectional pair rooted at the clients' roots or deeper, whose users take turns and write new contents only, commands in order: a write nobody changed since is on both sides (`LastWriteWins`). `Rough`, `RoughLong` and `RoughSource`, a one-way pair with changes at any time, contents written again, commands in any order, a lost connection of the destination or of the source, an old runner, missing subscriptions, full channels: no command changes the source (`SourceUntouched`). In all of them synchronisation comes to rest (`ComesToRest`, for one-way pairs and users who take turns; users of a bidirectional pair who write at the same time are outside it, section 5) |
| `sync_offline` | violated: a change made while the destination is offline never reaches it, because the diff on its return compares it with its own rows only (`diff.go:55`) |
| `transfer_torn` | violated: two fetches of one path at the same time (`client/runner/app.go:114`) share the partial file, and a half-written file gets the real name (`download.go:17`) |
| `transfer_echo` | violated: the partial file of a download is not ignored (`client/app/app.go:25`) and not suppressed, so it is reported like a file of the user's (`.belt/spec.md:31`) |

A property of a passing run is paired in `PROJECT.json` with a faulty variant of
a definition (a comment in the module marks each one) that violates it.

**Bounds.** `engine`: two goroutines are enough for every race on a mutex and a
row, one path because handlers only touch their own, two hashes to tell
contents apart, a window of 2 ticks and three stamps so that events are
both inside and outside it; no new work starts once the clock reaches
`MaxClock`. `hub`: two connections (an old and a new one), one request answered
up to twice. `blobs`: three uploads of one hash, bodies of two chunks, so that
an upload can be resumed over another's leftovers while a third one waits.
`pairs`: two administrators, three revisions (a stale form needs two, a save
after it a third), two connections of one client and one of the other.
`scheduler`: two permits, one per client, five callers of two clients, two of
them with the same key, so that a client's callers can hold every global permit.
`session`: four faults, so that one of each kind or several in a row happen, a
longest wait of 5 that is not a power of two, two early events. `transfer`: two
fetches, files of two blocks so that half a file exists, one fault (a crash, a
broken transfer or wrong bytes), and two edits, so that the file changes again
while the first edit is watched, hashed or read. `sync`: as many changes as
there are roles for them (an edit, the other side's edit, a delete, a second
edit and one more; two or three in the rough environments, where everything
else happens too), one disconnection. Contents are
interchangeable; where a liveness property is checked no symmetry is declared,
and users take a fixed fresh content instead.

Deadlock is not checked: users, clients and administrators may stop, and every
bounded model ends.

**Fairness.** `SyncEngine`: a goroutine that can run does (weak), and
`sync.Mutex` hands the lock to a waiter (strong: Go's starvation mode).
`Hub`: read loops whose socket is closed end, a ping to a silent peer times out
(`conn.go:80`), timers fire, deferred calls run; a write is only fair when the
peer reads. `FileSync`: debounce timers, the event loop, command goroutines and
the wire. `Scheduler`: a goroutine takes its next step, so a job that runs ends;
nobody has to ask or to cancel. `ClientSession`: `Run` and the server's
goroutine go on, and a registration that cannot succeed is noticed (the read has
a timeout). `Transfer`: a download and its request go on. Nothing is
assumed of users, administrators, the network, faults, store errors, or the
expiry of suppressions.

## 4. The proofs

Every safety property of a passing run is a theorem, for every set of
goroutines, paths, hashes, connections, callers, administrators and
environments, and every bound:

| Theorem | Statement |
|---|---|
| `SyncEngineProofs!TypeCorrect` | `Spec => []TypeOK` |
| `SyncEngineProofs!EventIsNewestCorrect` | `Spec => []EventIsNewest` |
| `SyncEngineProofs!HandledMeansResolvedCorrect` | `Spec => []HandledMeansResolved` |
| `SyncEngineProofs!CommandsInStampOrderCorrect` | `Spec => CommandsInStampOrder` |
| `SyncEngineProofs!NoOverwriteCorrect` | `Spec => NoOverwriteWithoutRename` |
| `HubProofs!TypeCorrect` | `Spec => []TypeOK` |
| `HubProofs!NewestStaysRegisteredCorrect` | `Spec => []NewestStaysRegistered` |
| `HubProofs!OneLiveConnectionCorrect` | `Spec => []OneLiveConnection` |
| `HubProofs!NoPendingLeakCorrect` | `Spec => []NoPendingLeak` |
| `HubProofs!ResolveNeverBlocksCorrect` | `Spec => []ResolveNeverBlocks` |
| `HubProofs!DrainedMeansDoneCorrect` | `Spec => []DrainedMeansDone` |
| `BlobStoreProofs!TypeCorrect` | `Spec => []TypeOK` |
| `BlobStoreProofs!BlobIntegrityCorrect` | `Spec => []BlobIntegrity` |
| `BlobStoreProofs!FreshPutKeptCorrect` | `Spec => []FreshPutKept` |
| `PairAdminProofs!TypeCorrect` | `Spec => []TypeOK` |
| `PairAdminProofs!NoLostUpdateCorrect` | `Spec => NoLostUpdate`, assuming `Isolated` |
| `PairAdminProofs!SubscriptionsAgreeCorrect` | `Spec => []SubscriptionsAgree` |
| `SchedulerProofs!TypeCorrect` | `Spec => []TypeOK` |
| `SchedulerProofs!PermitsAccountedCorrect` | `Spec => []PermitsAccounted` |
| `SchedulerProofs!OneJobPerKeyCorrect` | `Spec => []OneJobPerKey` |
| `ClientSessionProofs!TypeCorrect` | `Spec => []TypeOK` |
| `ClientSessionProofs!ResponseFirstCorrect` | `Spec => []ResponseFirst` |
| `TransferProofs!TypeCorrect` | `Spec => []TypeOK` |
| `TransferProofs!SettledIsReportedCorrect` | `Spec => []SettledIsReported`, assuming `Overlap = FALSE` |
| `TransferProofs!FileWholeCorrect` | `Spec => []FileWhole`, assuming `Overlap = FALSE` |
| `TransferProofs!AckMeansWrittenCorrect` | `Spec => AckMeansWritten`, assuming `Overlap = FALSE` |
| `FileSyncProofs!TypeCorrect` | `Spec => []TypeOK` |
| `FileSyncProofs!SourceUntouchedCorrect` | `Spec => SourceUntouched` |
| `FileSyncProofs!LastChangeWinsCorrect` | `Spec => []LastChangeWins` |
| `FileSyncProofs!LastWriteWinsCorrect` | `Spec => []LastWriteWins` |

Assumed of the constants: the model values differ from one another
(`NoSha`, `Free`, `Junk`, `None`), the windows, sizes, limits and bounds are
natural numbers (not 0 where the code has at least one), the callers of
`Scheduler` and the fetches and contents of `Transfer` are finite sets, and
environments are of their type. Three theorems about
`Transfer` and one about `PairAdmin` have a hypothesis on the circumstances:
`Overlap = FALSE` says that fetches of one path follow each other (with two at
the same time `FileWhole` is false: run `transfer_torn`), `Isolated` that in
every environment considered no request comes between the comparison of an etag
and its save (without it the lock does not hold, section 5). The other
conditions are part of the properties themselves, because one run mixes
environments: `env.overlap = "none"` of `SubscriptionsAgree`, and `Orderly` of
`FileSync`. `Orderly` is more than the code guarantees: commands run in the
order they were sent, connections last, subscriptions are there, no channel is
full, no content is written again, and users leave the watcher (one-way) or the
other side and its suppressions (bidirectional) their time. TLC's environments
show that these conditions can be met, section 5 what happens without them.

Each inductive invariant was first checked by TLC on the run's instance.

*SyncEngine.* `HandledMeansResolved` speaks about moments when no handler is
under way for a path; a step back, the plan a handler has already begun matters.
The inductive invariant `IInv` adds: who is in the handler holds the mutex
(`LockInv`), so what one handler computed from the rows stays true while it
sends; what rows can look like (`RowInv`); the event being handled has the
newest stamp and all commands are older or its own (`StampInv`); a settled path
is not being sent to, unless by a handler that sends nothing (`BusyInv`); the
rest of a plan contains nothing older than the event, except an edit sent back
to the side that deleted (`PlanInv`); and how far each plan has come
(`ProgressInv`): its remaining sends are exactly those the rows still call for,
or a one-way send has failed, on record or in `unrecorded`.
Deleting the pair takes the rows away under a handler's feet, which is why the
parts about rows are stated for rows that are still there.
`CommandsInStampOrder` and `NoOverwriteWithoutRename` are action properties
that follow from `IInv` step by step; the second uses that a conflict's rename
is the head of its plan, so that the fetch after it finds it as the last command
of that side.

*Hub.* Three invariants that do not need each other. `RegistryInv`: the
registry holds the newest connection or none, and the newest one is in it
exactly until its own `Unregister` (whose comparison is what makes this
inductive). `AnswerInv`: while a request is waited for, no read loop has taken
its entry and its channel is empty; since `Resolve` takes the entry under the
mutex, at most one loop ever has it, and the one slot is enough although the
send is outside the mutex. `CountInv`: the WaitGroup is the number of
connections whose `Run` has not written its last row (by the cardinality
theorems), so that zero means none is left, and `CloseInv` that whoever was
running when `Close` began is counted or done.

*BlobStore.* `IInv` has the mutex (`MutexInv`), that the bytes a `Put` has hashed
are those in `.partial` (`StreamInv`: without the mutex two puts of one hash
would break it), the state before a body (`StartInv`), and that what the
collector has listed is never a blob a put has just written (`GarbageInv`: a
`Put` of a blob that exists writes nothing, so a listed file cannot become
new). The last fact fails for `PutRange`, see below.

*PairAdmin.* Types need `SavingBounded` (each request about to save has a
revision left), which holds however requests overlap. The refinement needs that
equal etags mean equal revisions: a form whose etag is the row's shows the row's
revision and a form never has a later etag (`EtagsAgree`), and a request about
to save is alone and its form still matches (`Guarded`). Every step then maps to
a step of `OptimisticRegister` or to a stutter. `SubscriptionInv` is the
invariant of the publications: requests and callbacks come one after another
(`InTurnInv`), so what one has read is still stored when it sends (`CurrentInv`),
and each client that is online will have the stored subscription when its wire
is empty, or somebody is going to send it (`DueInv`). The last part needs that
`wasEnabled`, read at the comparison, still tells at the save whether the clients
have something to give up.

*Scheduler.* The properties are inductive together with `QueueInv`, nobody is
twice in a queue and the queue of a client has only its own callers, and with
`WaitInv`, what the semaphore provides: who waits is in its queue, and nobody
waits while it has a permit. A release
hands its permit to the head of the queue, so the number of holders stays the
same; a caller that leaves with the permit returns it.

*ClientSession.* `ResponseFirst` is about a client that waits; the invariant says
what came before: the server is silent until it has read the request
(`SilenceInv`), which no runner of an earlier session sends, a closed socket has
nothing on its wire (`WireInv`), and an accepted registration's response stays
at the head until it is read (`PendingResponseInv`), since the connect callback
starts after it was written.

*Transfer.* For `FileWhole`, fetches that do not overlap have the partial file to
themselves (`SerialInv`); the open file of a copy *is* the one named partial, no
other name leads to it, and it has exactly the blocks copied so far
(`PartialInv`), so that what is renamed at the end is whole (`BodyInv`: what is
received is the whole of some content, and the comparison of the hash decides
whether it is the wanted one). `SettledIsReported` needs to know where a content
is before everything is settled (`ReportInv`): the watcher has not looked yet,
and then has another hash in its cache; or it is being uploaded, with an event,
a hash and a part of a body that are all of this content (`Reporting`); or it was
reported (`Reported`). An edit during an upload starts again at the first place,
and its content differs from the cached hash because it is new.

*FileSync.* `SourceInv`: no plan addresses the source of a one-way pair, so its
commands stay empty in every environment. For the properties at rest the
invariant says where the last change is at every moment. One-way (`MirrorInv`):
the debouncer will report the source's file as it is (`Noticed`), or the last
element of the first non-empty stage of the chain (events, wire, commands) has
the source's content and its blob is stored (`Delivered`). Bidirectional
(`TurnInv`): the last write is still `Unreported`, in one of three places, or it
is `Reported` and the other side is `Told`: it has a conflict's rename and fetch
before it, or only fetches of this content, or has it and says nothing else than
this content, or the delete that the rename made look like the user's, which
`handleEditWins` answers with the same content again. `OriginInv` (all that is under way was written by a user) and `SteadyInv` (first connections
last) are what these parts share.

Only model-checked: liveness under fairness (`HandlersEnd`, `RequestsEnd`,
`ReplacedConnectionsEnd`, `ComesToRest`, `AcquireReturns`, `RunEnds`,
`CatchesUp`, `FetchSucceeds`), which the prover cannot treat, and the violations
of section 3, which are counterexamples. No module declares a RECURSIVE
operator, for which the prover has no backend, and nothing is proved by
induction over data: queues lose an element by position (`Without`), a plan of
at most three sends is added up directly (`CmdsFor`), and the backoff keeps the
power of two its attempts stand for.

## 5. Where the code does not do what its documents say

The three runs that end in a violation are listed in section 3. These were met
in the same models under other settings and are not kept as runs.

Server:

* The callback of a replaced connection sets its client offline
  (`server/app/app.go:147`), and a connected client can be deleted, against
  `web.go:242`.
* A client whose register response cannot be written stays `online`
  (`ws.go:78`), against `docs/PROTOCOL.md:16`. Registering sets the display name
  that an administrator chose back to the host name (`ws.go:61`), against
  `.belt/spec.md:40`.
* Callbacks of a client overlap, so the web page may be shown an older status
  last (`server/app/app.go:124`).
* A connection that registers while `Hub.Close` runs is not closed by it, against
  `hub.go:68`.
* An old blob that is referenced again after the collector has read the
  references is deleted, against `gc.go:11`. A resumed upload replaces an
  existing blob (`fs.go:197`); if the collector has listed the old file, the new
  one is deleted, against `gc.go:13`.
* A file of zero bytes is refused by the endpoint (`blobs.go:74`) and never
  synchronised. The quota is checked before a body is read (`blobs.go:84`), so
  uploads at the same time pass it together.
* A send that blocks holds the pair's mutex, so a silent client holds up the
  other side's events until its ping fails (`engine.go:44`).
* A failed send of a bidirectional pair leaves no `sync_runs` row, against
  `.belt/roadmap.md:103`, and its error closes the connection of the *source*
  (`engine.go:70`, `hub/conn.go:74`). A failed send of a one-way pair whose
  record fails too (`engine.go:286` only logs it) leaves neither a command nor a
  row, and the handler reports success.
* An error of the store in the connect callback leaves a session without its
  subscriptions or without a snapshot request, and nothing repeats it while the
  session lasts (`server/app/app.go:121`); neither does anything after the 30
  second limit of the request (`diff.go:42`). If only the subscriptions fail, the
  client answers the request with an empty list (`snapshot.go:28`), which the
  diff takes for deletes.
* The edit that wins over a delete is the one of the other side's row, which may
  have been overwritten long ago (`engine.go:204`), and a delete made long after
  that edit is undone as well, although `.belt/spec.md:53` speaks of a conflict.
* Rows are not updated by fetches (`engine.go:90`): writing again what the other
  side last *reported* is taken for agreement, and the sides differ for good.
* If the wall clock steps back, the upsert keeps the old row (`sqlite.go:233`)
  and the event is dispatched with a stamp that was not stored, against
  `lww.go:39`. The clock is only checked when the store is opened.

Pairs:

* Two updates that overlap both pass the comparison of the etag and one is lost;
  an update that overlaps a delete brings the pair back (`pairs.go:239`), against
  `.belt/spec.md:87`.
* A deleted pair is gone before its unsubscription is published
  (`pairs.go:294`), which then finds no pair and sends nothing: its clients keep
  watching and sending until they reconnect.
* Publications that overlap can reach a client in the other order
  (`subscriber.go:41`), which then has an older subscription.
* The update form sends client ids that `UpsertPair` does not store.

Client:

* Rename and fetch of a conflict run as two goroutines (`runner/app.go:114`); in
  the other order the winner's content is renamed away. Two fetches of a one-way
  pair overtake each other as well: the older content lands last and stays,
  because nothing reads the destination back.
* A fetch overwrites an edit that the watcher has not reported yet, and no copy
  is kept, against `.belt/spec.md:81`; two edits that cross this way leave each
  side with the other's content.
* A write and a delete within the debounce time are reported as neither
  (`watcher.go:232`): the delete is lost. An event for a full channel is dropped
  after its hash was remembered (`watcher.go:278`), so it is not repeated, and
  neither is a change whose upload failed (`runner/app.go:215`). A file that
  changes before its upload has hashed it, and is set back before the watcher
  looks again, leaves an event whose content was never stored: the upload hashes
  and stores what it finds (`upload.go:22`), the event keeps the watcher's hash,
  and the watcher sees nothing new.
* The runners of earlier sessions are never stopped (`client/app/app.go:113`);
  they watch with suppressions of their own and upload what the newest one has
  fetched.
* A client that reconnects with a copy it had fetched overwrites newer content,
  because its row does not know the copy (`diff.go:77`); a file created again
  over a delete row is not noticed. The diff sends fetches of contents that were
  never uploaded (`diff.go:94`), which fail at the other side. A scan that fails is
  answered with a shorter list and taken for deletes.
* A suppression lasts two seconds from *before* the download
  (`runner/app.go:250`), and its key is the path from the client's root while
  events have the path from the pair's root (`runner/app.go:193`), so for pairs
  rooted deeper nothing is ever suppressed. The `sync` run shows what still
  holds.
* Three concurrent edits can make two clients echo each other's contents for
  ever: a rename clears the hashes of earlier fetches from the suppressor
  (`suppress.go:53`), whose file events then pass for edits
  (`.belt/spec.md:31`).
* A client whose snapshot exceeds 64 KB reconnects for ever (`hub/conn.go:33`),
  which `client/app/app.go:22` knows of and the ignore list only makes rarer.
* The backoff is reset before the registration (`conn.go:74`), so a server that
  refuses registrations is asked again after the shortest wait each time.

## 6. Plan

Done: the decisions, the engine, the hub, the blob store, pairs and
subscriptions, the scheduler, the client's session and transfers, and the
end-to-end composition; proofs of every safety property that a run checks.
Next:

1. An abstract serial engine (one step per event) that `SyncEngine` implements,
   which justifies `HandleFileChanged` as one step of `FileSync`.
2. Stronger end-to-end statements: what of `LastWriteWins` survives a lost
   connection, and which contents a conflict can cost when commands overtake.

## 7. Not modelled

Authentication, CSRF, routing, templates and settings pages; the live updates
and display names of the clients page; message encoding; path resolution in the
client's jail; logging, audit rows and metrics; ignore patterns, directories,
symbolic links; quotas, file size limits and range arithmetic; schema
migrations; the client's identity file and the command line; a wall clock that
steps back; the jitter of the backoff. They keep no state that the properties
above depend on, or are computations on strings and system calls.
