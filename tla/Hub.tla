-------------------------------- MODULE Hub --------------------------------
(***************************************************************************)
(* The server's connection hub (internal/server/hub), the WebSocket        *)
(* handler that feeds it (internal/server/http/ws.go), the callbacks and   *)
(* the shutdown sequence of internal/server/app, and the status column of  *)
(* the client's row that they maintain.                                    *)
(*                                                                         *)
(* Connections of different clients only share the request registry, whose *)
(* keys are unique, so one client is modelled.  It makes one connection    *)
(* after the other, a new one whenever it believes the last one is dead,   *)
(* and each is served by a goroutine of its own.  A request is one call of *)
(* SendAndWait.  What h.mu or the registry's mutex protects is one step.   *)
(***************************************************************************)
EXTENDS Naturals, FiniteSets

CONSTANTS
    Conns,       \* connections the client makes
    Requests,    \* calls of SendAndWait, each with its own correlation id
    None,        \* no connection, no request
    MaxAnswers   \* bound: answers the client sends to one request

ASSUME HubAssumption ==
    /\ None \notin Conns /\ None \notin Requests
    /\ MaxAnswers \in Nat

VARIABLES
    status,      \* clients.status of the row: "none", "online", "offline"
    registered,  \* Hub.conns[clientID]
    wg,          \* Hub.wg
    phase,       \* where ServeHTTP / Run is, per connection
    open,        \* the socket has not been closed by either end
    stalled,     \* the peer is silent: nothing is read, written or ponged
    resolving,   \* per connection: request whose answer it is handing over
    pending,     \* PendingRegistry.m
    chan,        \* answers buffered in the request's channel (capacity 1)
    req,         \* where SendAndWait is, per request
    target,      \* the Conn that Send looked up
    asked,       \* answers the client still has to give
    closer,      \* where runServer / Hub.Close is
    closing,     \* connections Hub.Close still has to close
    admin,       \* where handleClientDelete is
    newest,      \* history: the last connection registered
    before       \* history: Runs in progress when Hub.Close began

hubVars == <<registered, wg>>
connVars == <<phase, open, stalled, resolving>>
reqVars == <<pending, chan, req, target, asked>>
closeVars == <<closer, closing, before>>
vars == <<status, hubVars, connVars, reqVars, closeVars, admin, newest>>

-----------------------------------------------------------------------------
Running(c) == phase[c] \in {"running", "handling"}
Counted(c) == phase[c] \in {"running", "handling", "returned", "unregistered"}

Init ==
    /\ status = "none"
    /\ registered = None
    /\ wg = 0
    /\ phase = [c \in Conns |-> "new"]
    /\ open = [c \in Conns |-> FALSE]
    /\ stalled = [c \in Conns |-> FALSE]
    /\ resolving = [c \in Conns |-> None]
    /\ pending = {}
    /\ chan = [r \in Requests |-> 0]
    /\ req = [r \in Requests |-> "idle"]
    /\ target = [r \in Requests |-> None]
    /\ asked = [r \in Requests |-> 0]
    /\ closer = "serving"
    /\ closing = {}
    /\ admin = "idle"
    /\ newest = None
    /\ before = {}

-----------------------------------------------------------------------------
(* WSHandler.ServeHTTP and Conn.Run, for connection c.                     *)

\* The socket is accepted, the registration read and the client's row
\* written with status online.
Accept(c) ==
    /\ phase[c] = "new"
    /\ closer # "down"
    /\ phase' = [phase EXCEPT ![c] = "upserted"]
    /\ open' = [open EXCEPT ![c] = TRUE]
    /\ status' = "online"
    /\ UNCHANGED <<hubVars, stalled, resolving, reqVars, closeVars, admin, newest>>

\* The response to the registration cannot be written: the handler returns.
Refuse(c) ==
    /\ phase[c] = "upserted"
    /\ phase' = [phase EXCEPT ![c] = "refused"]
    /\ open' = [open EXCEPT ![c] = FALSE]
    /\ UNCHANGED <<status, hubVars, stalled, resolving, reqVars, closeVars, admin, newest>>

\* Faulty variant: the old connection is replaced but not closed.
RegisterKeepsOld(c) ==
    /\ phase[c] = "upserted"
    /\ registered' = c
    /\ wg' = wg + 1
    /\ phase' = [phase EXCEPT ![c] = "running"]
    /\ newest' = c
    /\ UNCHANGED <<status, open, stalled, resolving, reqVars, closeVars, admin>>

\* Faulty variant: the WaitGroup does not count the connection.
RegisterUncounted(c) ==
    /\ phase[c] = "upserted"
    /\ open' = IF registered # None THEN [open EXCEPT ![registered] = FALSE] ELSE open
    /\ registered' = c
    /\ phase' = [phase EXCEPT ![c] = "running"]
    /\ newest' = c
    /\ UNCHANGED <<status, wg, stalled, resolving, reqVars, closeVars, admin>>

\* Hub.Register: close the connection it replaces, then Run starts.
Register(c) ==
    /\ phase[c] = "upserted"
    /\ open' = IF registered # None THEN [open EXCEPT ![registered] = FALSE] ELSE open
    /\ registered' = c
    /\ wg' = wg + 1
    /\ phase' = [phase EXCEPT ![c] = "running"]
    /\ newest' = c
    /\ UNCHANGED <<status, stalled, resolving, reqVars, closeVars, admin>>

\* readLoop hands a message to the hub's handler (engine.HandleFileChanged).
HandleEnvelope(c) ==
    /\ phase[c] = "running" /\ resolving[c] = None
    /\ open[c] /\ ~stalled[c]
    /\ phase' = [phase EXCEPT ![c] = "handling"]
    /\ UNCHANGED <<status, hubVars, open, stalled, resolving, reqVars, closeVars,
                   admin, newest>>

HandlerOk(c) ==
    /\ phase[c] = "handling"
    /\ phase' = [phase EXCEPT ![c] = "running"]
    /\ UNCHANGED <<status, hubVars, open, stalled, resolving, reqVars, closeVars,
                   admin, newest>>

\* readLoop returns, on a read error of the closed socket or on an error of
\* the handler, and Run closes the connection.
ReadLoopEnds(c) ==
    /\ \/ phase[c] = "running" /\ resolving[c] = None /\ ~open[c]
       \/ phase[c] = "handling"
    /\ phase' = [phase EXCEPT ![c] = "returned"]
    /\ open' = [open EXCEPT ![c] = FALSE]
    /\ UNCHANGED <<status, hubVars, stalled, resolving, reqVars, closeVars, admin, newest>>

\* Faulty variants: the entry is removed whoever it belongs to; the
\* WaitGroup is released before the last callback.
UnregisterAny(c) ==
    /\ phase[c] = "returned"
    /\ registered' = None
    /\ phase' = [phase EXCEPT ![c] = "unregistered"]
    /\ UNCHANGED <<status, wg, open, stalled, resolving, reqVars, closeVars, admin, newest>>

UnregisterDone(c) ==
    /\ phase[c] = "returned"
    /\ registered' = IF registered = c THEN None ELSE registered
    /\ wg' = IF wg > 0 THEN wg - 1 ELSE 0
    /\ phase' = [phase EXCEPT ![c] = "unregistered"]
    /\ UNCHANGED <<status, open, stalled, resolving, reqVars, closeVars, admin, newest>>

\* Hub.Unregister: only the connection that is registered is removed.
Unregister(c) ==
    /\ phase[c] = "returned"
    /\ registered' = IF registered = c THEN None ELSE registered
    /\ phase' = [phase EXCEPT ![c] = "unregistered"]
    /\ UNCHANGED <<status, wg, open, stalled, resolving, reqVars, closeVars, admin, newest>>

\* The onDisc callback, which is called for a replaced connection too: the
\* row (if there is one) goes offline.  Then Run's deferred wg.Done.
OnDisc(c) ==
    /\ phase[c] = "unregistered"
    /\ status' = IF status = "none" THEN "none" ELSE "offline"
    /\ wg' = wg - 1
    /\ phase' = [phase EXCEPT ![c] = "done"]
    /\ UNCHANGED <<registered, open, stalled, resolving, reqVars, closeVars, admin, newest>>

\* Faulty variant: the ping has no timeout.
PingFailsNever(c) ==
    /\ Running(c) /\ open[c] /\ ~stalled[c]
    /\ open' = [open EXCEPT ![c] = FALSE]
    /\ UNCHANGED <<status, hubVars, phase, stalled, resolving, reqVars, closeVars,
                   admin, newest>>

\* pingLoop: no pong within the timeout, so the connection is closed.
PingFails(c) ==
    /\ Running(c) /\ open[c] /\ stalled[c]
    /\ open' = [open EXCEPT ![c] = FALSE]
    /\ UNCHANGED <<status, hubVars, phase, stalled, resolving, reqVars, closeVars,
                   admin, newest>>

\* The network: a connection breaks, or the peer falls silent.
Break(c) ==
    /\ phase[c] \in {"upserted", "running", "handling"} /\ open[c]
    /\ open' = [open EXCEPT ![c] = FALSE]
    /\ UNCHANGED <<status, hubVars, phase, stalled, resolving, reqVars, closeVars,
                   admin, newest>>

Stall(c) ==
    /\ phase[c] \in {"upserted", "running", "handling"} /\ open[c] /\ ~stalled[c]
    /\ stalled' = [stalled EXCEPT ![c] = TRUE]
    /\ UNCHANGED <<status, hubVars, phase, open, resolving, reqVars, closeVars,
                   admin, newest>>

-----------------------------------------------------------------------------
(* Hub.SendAndWait, for request r.                                         *)

\* pending.Register, before anything is sent.
SendAndWait(r) ==
    /\ req[r] = "idle"
    /\ req' = [req EXCEPT ![r] = "registered"]
    /\ pending' = pending \cup {r}
    /\ UNCHANGED <<status, hubVars, connVars, chan, target, asked, closeVars, admin, newest>>

\* Hub.Send: look the connection up under h.mu ...
Lookup(r) ==
    /\ req[r] = "registered"
    /\ target' = [target EXCEPT ![r] = registered]
    /\ req' = [req EXCEPT ![r] = IF registered = None THEN "ended" ELSE "writing"]
    /\ UNCHANGED <<status, hubVars, connVars, pending, chan, asked, closeVars, admin, newest>>

\* ... and write to it afterwards.  A write to a silent peer ends in the
\* socket's buffer, or has to wait until the connection is closed.
Write(r) ==
    /\ req[r] = "writing"
    /\ open[target[r]]
    /\ req' = [req EXCEPT ![r] = "waiting"]
    /\ asked' = [asked EXCEPT ![r] = IF stalled[target[r]] THEN 0 ELSE MaxAnswers]
    /\ UNCHANGED <<status, hubVars, connVars, pending, chan, target, closeVars, admin, newest>>

WriteError(r) ==
    /\ req[r] = "writing"
    /\ ~open[target[r]]
    /\ req' = [req EXCEPT ![r] = "ended"]
    /\ UNCHANGED <<status, hubVars, connVars, pending, chan, target, asked, closeVars,
                   admin, newest>>

\* The select: the answer, or else the timer (or the context).
Answered(r) ==
    /\ req[r] = "waiting" /\ chan[r] > 0
    /\ chan' = [chan EXCEPT ![r] = @ - 1]
    /\ req' = [req EXCEPT ![r] = "ended"]
    /\ UNCHANGED <<status, hubVars, connVars, pending, target, asked, closeVars,
                   admin, newest>>

Timeout(r) ==
    /\ req[r] = "waiting"
    /\ req' = [req EXCEPT ![r] = "ended"]
    /\ UNCHANGED <<status, hubVars, connVars, pending, chan, target, asked, closeVars,
                   admin, newest>>

\* Faulty variant: the entry is left to the answer to remove.
CancelKeeps(r) ==
    /\ req[r] = "ended"
    /\ req' = [req EXCEPT ![r] = "done"]
    /\ UNCHANGED <<status, hubVars, connVars, pending, chan, target, asked, closeVars,
                   admin, newest>>

\* The deferred pending.Cancel, on every way out.
Cancel(r) ==
    /\ req[r] = "ended"
    /\ pending' = pending \ {r}
    /\ req' = [req EXCEPT ![r] = "done"]
    /\ UNCHANGED <<status, hubVars, connVars, chan, target, asked, closeVars, admin, newest>>

\* Faulty variant: the entry stays in the registry.
ResolveKeeps(c, r) ==
    /\ phase[c] = "running" /\ resolving[c] = None
    /\ open[c] /\ ~stalled[c] /\ asked[r] > 0
    /\ asked' = [asked EXCEPT ![r] = @ - 1]
    /\ resolving' = [resolving EXCEPT ![c] = IF r \in pending THEN r ELSE None]
    /\ UNCHANGED <<status, hubVars, phase, open, stalled, pending, chan, req, target,
                   closeVars, admin, newest>>

\* readLoop reads an answer to r on connection c: PendingRegistry.Resolve
\* takes the channel out of the map; an answer nobody waits for goes to the
\* handler, which ignores it.
Resolve(c, r) ==
    /\ phase[c] = "running" /\ resolving[c] = None
    /\ open[c] /\ ~stalled[c] /\ asked[r] > 0
    /\ asked' = [asked EXCEPT ![r] = @ - 1]
    /\ resolving' = [resolving EXCEPT ![c] = IF r \in pending THEN r ELSE None]
    /\ pending' = pending \ {r}
    /\ UNCHANGED <<status, hubVars, phase, open, stalled, chan, req, target,
                   closeVars, admin, newest>>

\* ch <- env, outside the registry's mutex; it blocks while the buffer is full.
HandOver(c) ==
    /\ resolving[c] # None
    /\ chan[resolving[c]] < 1
    /\ chan' = [chan EXCEPT ![resolving[c]] = @ + 1]
    /\ resolving' = [resolving EXCEPT ![c] = None]
    /\ UNCHANGED <<status, hubVars, phase, open, stalled, pending, req, target, asked,
                   closeVars, admin, newest>>

-----------------------------------------------------------------------------
(* Shutdown: runServer calls Hub.Close, then http.Server.Shutdown.         *)

\* Hub.Close copies the registered connections.
Collect ==
    /\ closer = "serving"
    /\ closer' = "closing"
    /\ closing' = IF registered = None THEN {} ELSE {registered}
    /\ before' = {c \in Conns : Counted(c)}
    /\ UNCHANGED <<status, hubVars, connVars, reqVars, admin, newest>>

\* It closes them one by one ...
CloseNext(c) ==
    /\ closer = "closing" /\ c \in closing
    /\ open' = [open EXCEPT ![c] = FALSE]
    /\ closing' = closing \ {c}
    /\ UNCHANGED <<status, hubVars, phase, stalled, resolving, reqVars, closer, before,
                   admin, newest>>

\* ... and waits for the Runs, or for the grace period.
Drained ==
    /\ closer = "closing" /\ closing = {} /\ wg = 0
    /\ closer' = "drained"
    /\ UNCHANGED <<status, hubVars, connVars, reqVars, closing, before, admin, newest>>

GraceOver ==
    /\ closer = "closing" /\ closing = {}
    /\ closer' = "gaveUp"
    /\ UNCHANGED <<status, hubVars, connVars, reqVars, closing, before, admin, newest>>

\* srv.Shutdown closes the listener; hijacked connections are not its own.
Shutdown ==
    /\ closer \in {"drained", "gaveUp"}
    /\ closer' = "down"
    /\ UNCHANGED <<status, hubVars, connVars, reqVars, closing, before, admin, newest>>

-----------------------------------------------------------------------------
(* handleClientDelete: read the row, refuse an online client, delete.      *)

DeleteCheck ==
    /\ admin = "idle" /\ status = "offline"
    /\ admin' = "deleting"
    /\ UNCHANGED <<status, hubVars, connVars, reqVars, closeVars, newest>>

DeleteClient ==
    /\ admin = "deleting"
    /\ status' = "none"
    /\ admin' = "idle"
    /\ UNCHANGED <<hubVars, connVars, reqVars, closeVars, newest>>

-----------------------------------------------------------------------------
Serve(c) ==
    \/ Accept(c) \/ Refuse(c) \/ Register(c)
    \/ HandleEnvelope(c) \/ HandlerOk(c) \/ ReadLoopEnds(c)
    \/ Unregister(c) \/ OnDisc(c)
    \/ PingFails(c) \/ Break(c) \/ Stall(c)
    \/ HandOver(c)
    \/ \E r \in Requests : Resolve(c, r)

Ask(r) ==
    \/ SendAndWait(r) \/ Lookup(r) \/ Write(r) \/ WriteError(r)
    \/ Answered(r) \/ Timeout(r) \/ Cancel(r)

Stop ==
    \/ Collect \/ (\E c \in closing : CloseNext(c)) \/ Drained \/ GraceOver \/ Shutdown

Next ==
    \/ \E c \in Conns : Serve(c)
    \/ \E r \in Requests : Ask(r)
    \/ Stop
    \/ DeleteCheck \/ DeleteClient

Spec == Init /\ [][Next]_vars

\* A write to a peer that reads.
WriteAtOnce(r) == req[r] = "writing" /\ ~stalled[target[r]] /\ Write(r)

\* Go runs every goroutine that is not blocked; a ping to a silent peer times
\* out; the handler returns (SyncEngine's HandlersEnd); timers fire.  Nothing
\* is assumed of the client, the network or the administrator.
Fairness ==
    /\ \A c \in Conns :
         /\ WF_vars(ReadLoopEnds(c)) /\ WF_vars(Unregister(c)) /\ WF_vars(OnDisc(c))
         /\ WF_vars(PingFails(c)) /\ WF_vars(HandOver(c))
    /\ \A r \in Requests :
         /\ WF_vars(Lookup(r)) /\ WF_vars(WriteAtOnce(r)) /\ WF_vars(WriteError(r))
         /\ WF_vars(Answered(r) \/ Timeout(r)) /\ WF_vars(Cancel(r))

FairSpec == Spec /\ Fairness

-----------------------------------------------------------------------------
\* Type invariant.
TypeOK ==
    /\ status \in {"none", "online", "offline"}
    /\ registered \in Conns \cup {None}
    /\ wg \in Nat
    /\ phase \in [Conns -> {"new", "upserted", "refused", "running", "handling",
                           "returned", "unregistered", "done"}]
    /\ open \in [Conns -> BOOLEAN]
    /\ stalled \in [Conns -> BOOLEAN]
    /\ resolving \in [Conns -> Requests \cup {None}]
    /\ pending \in SUBSET Requests
    /\ chan \in [Requests -> Nat]
    /\ req \in [Requests -> {"idle", "registered", "writing", "waiting", "ended", "done"}]
    /\ target \in [Requests -> Conns \cup {None}]
    /\ asked \in [Requests -> Nat]
    /\ closer \in {"serving", "closing", "drained", "gaveUp", "down"}
    /\ closing \in SUBSET Conns
    /\ admin \in {"idle", "deleting"}
    /\ newest \in Conns \cup {None}
    /\ before \in SUBSET Conns

\* A reconnect is never lost (Unregister's comparison): as long as the newest
\* connection runs it is the one Send finds, however late the goroutines of
\* the connections it replaced clean up after themselves.
NewestStaysRegistered ==
    \A c \in Conns : c = newest /\ Running(c) => registered = c

\* A client is served by one live connection: a connection that runs and is
\* not the registered one has been closed, so no two read loops go on
\* delivering events of the same client.
OneLiveConnection ==
    \A c \in Conns : Running(c) /\ open[c] => registered = c

\* The registry holds an entry only for a SendAndWait that is under way, so
\* timed out and failed requests leave nothing behind.
NoPendingLeak ==
    \A r \in pending : req[r] \notin {"idle", "done"}

\* A read loop that hands over an answer never blocks: the channel's one slot
\* is free, though Resolve sends outside the mutex, answers may be duplicated
\* over two connections, and the waiter may have timed out.
ResolveNeverBlocks ==
    \A c \in Conns : resolving[c] # None =>
        /\ chan[resolving[c]] = 0
        /\ \A d \in Conns \ {c} : resolving[d] # resolving[c]

\* When Hub.Close returns because the WaitGroup is empty, every Run that was
\* in progress when it was called, of a replaced connection too, has written
\* its last row: the store may be closed.
DrainedMeansDone ==
    closer = "drained" => \A c \in before : phase[c] = "done"

\* SendAndWait returns, also when the client never answers, and when it does
\* not even read (the ping closes the connection under the blocked write).
RequestsEnd ==
    \A r \in Requests : req[r] = "registered" ~> req[r] = "done"

\* The goroutine of a connection that was replaced ends.
ReplacedConnectionsEnd ==
    \A c \in Conns : Running(c) /\ registered # c ~> phase[c] = "done"
-----------------------------------------------------------------------------
(* The inductive invariant behind the safety properties.                   *)

\* The registry holds the newest connection or none, and a connection is in it
\* until its own Unregister or the Register of a newer one.
RegistryInv ==
    /\ registered \in {newest, None}
    /\ \A c \in Conns : c = newest =>
        (registered = c <=> phase[c] \in {"running", "handling", "returned"})
    /\ newest # None => phase[newest] \notin {"new", "upserted", "refused"}

\* An answer is in one place: still to be waited for, being handed over by one
\* read loop, or in the channel.
AnswerInv ==
    \A r \in Requests :
        req[r] = "idle" \/ r \in pending =>
            chan[r] = 0 /\ \A c \in Conns : resolving[c] # r

\* The WaitGroup counts the Runs that have not written their last row.
CountedConns == {c \in Conns : Counted(c)}
CountInv == IsFiniteSet(CountedConns) /\ wg = Cardinality(CountedConns)

\* A Run that Hub.Close has to wait for is under way or over.
CloseInv == \A c \in before : Counted(c) \/ phase[c] = "done"

IInv ==
    /\ TypeOK
    /\ RegistryInv /\ OneLiveConnection
    /\ AnswerInv /\ NoPendingLeak /\ ResolveNeverBlocks
    /\ CountInv /\ CloseInv /\ DrainedMeansDone
=============================================================================
