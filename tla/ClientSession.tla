--------------------------- MODULE ClientSession ----------------------------
(***************************************************************************)
(* How a client gets and keeps a session with the server:                  *)
(*   internal/client/conn/conn.go, backoff.go   the reconnection loop      *)
(*   internal/client/app/app.go                 a runner per registration  *)
(*   internal/server/http/ws.go                 the register handshake     *)
(*   internal/server/hub/conn.go                the server's read loop     *)
(*   internal/server/app/app.go                 what follows a connect     *)
(* The runners of earlier sessions go on and send their events over the    *)
(* socket that Conn.ws points to, which Run sets before it registers.      *)
(* A message is its type, and a snapshot is small or exceeds               *)
(* maxMessageBytes.  Several connections of one client in the hub          *)
(* are the subject of Hub.                                                 *)
(***************************************************************************)
EXTENDS Naturals, Sequences

CONSTANTS
    Snapshots,  \* the sizes to consider: a subset of {"small", "large"}
    MaxDelay,   \* ExponentialBackoff.max, in units of min
    MaxFaults,  \* bound: failed dials, broken sockets, refusals and timeouts
    MaxEvents   \* bound: events of earlier runners

ASSUME ClientSessionAssumption ==
    /\ Snapshots \subseteq {"small", "large"}
    /\ MaxDelay \in Nat \ {0} /\ MaxFaults \in Nat /\ MaxEvents \in Nat

VARIABLES
    snapshot,   \* the size of the client's snapshot, fixed by Init
    pc,         \* where Run is
    cancelled,  \* its context has ended
    power,      \* ExponentialBackoff.attempt, as the power of two it stands for
    delay,      \* the wait that Next returned last, 0 after a successful dial
    ws,         \* Conn.ws is the newest socket, not nil
    open,       \* the newest socket is open
    srv,        \* the server's goroutine for it
    toServer,   \* messages on the wire
    toClient,
    held,       \* what an earlier runner has read from Conn.ws and not written to
    subscribed, \* the runner of this session knows the pair
    diff,       \* the server's snapshot request and diff in this session
    faults,
    events

vars == <<snapshot, pc, cancelled, power, delay, ws, open, srv, toServer,
          toClient, held, subscribed, diff, faults, events>>
backoff == <<power, delay>>
wire == <<open, srv, toServer, toClient>>
rest == <<snapshot, cancelled, faults, events>>

Init ==
    /\ snapshot \in Snapshots
    /\ pc = "top"
    /\ cancelled = FALSE
    /\ power = 1 /\ delay = 0
    /\ ws = FALSE
    /\ open = FALSE /\ srv = "none"
    /\ toServer = << >> /\ toClient = << >>
    /\ held = "none"
    /\ subscribed = FALSE /\ diff = "none"
    /\ faults = 0 /\ events = 0

\* Something goes wrong outside.
Fault == faults < MaxFaults /\ faults' = faults + 1

\* Either end closes the socket; what is on the wire is lost.
CloseSocket ==
    /\ open' = FALSE
    /\ toServer' = << >> /\ toClient' = << >>

\* ExponentialBackoff.Next, without its jitter.
NextDelay ==
    /\ delay' = IF power < MaxDelay THEN power ELSE MaxDelay
    /\ power' = 2 * power

-----------------------------------------------------------------------------
(* Run.                                                                    *)

\* The top of the loop: the context has ended, or dial.
Stop ==
    /\ pc \in {"top", "wait"} /\ cancelled
    /\ pc' = "done"
    /\ UNCHANGED <<backoff, ws, wire, held, subscribed, diff, rest>>

DialFails ==
    /\ pc = "top" /\ ~cancelled /\ Fault
    /\ NextDelay
    /\ pc' = "wait"
    /\ UNCHANGED <<ws, wire, held, subscribed, diff, snapshot, cancelled, events>>

Dial ==
    /\ pc = "top" /\ ~cancelled
    /\ open' = TRUE
    /\ srv' = "register"
    /\ toServer' = << >> /\ toClient' = << >>
    /\ held' = IF held = "newest" THEN "older" ELSE held
    /\ diff' = "none"
    /\ pc' = "dialed"
    /\ UNCHANGED <<backoff, ws, subscribed, rest>>

\* Conn.ws is set and the backoff reset.
SetWS ==
    /\ pc = "dialed"
    /\ ws' = TRUE
    /\ power' = 1 /\ delay' = 0
    /\ pc' = "write"
    /\ UNCHANGED <<wire, held, subscribed, diff, rest>>

\* register: the request is written, the answer read.
WriteRegister ==
    /\ pc = "write" /\ open
    /\ toServer' = Append(toServer, "register_request")
    /\ pc' = "await"
    /\ UNCHANGED <<backoff, ws, open, srv, toClient, held, subscribed, diff, rest>>

\* An accepted registration starts a new runner, without subscriptions.
ReadResponse ==
    /\ pc = "await" /\ toClient # << >> /\ Head(toClient) = "register_response"
    /\ toClient' = Tail(toClient)
    /\ subscribed' = FALSE
    /\ pc' = "read"
    /\ UNCHANGED <<backoff, ws, open, srv, toServer, held, diff, rest>>

\* register fails: the socket is closed, the context has ended, another
\* message is read, or nothing comes for five seconds.
RegisterFails ==
    /\ \/ /\ pc \in {"write", "await"} /\ (~open \/ cancelled)
          /\ UNCHANGED faults
       \/ /\ pc = "await" /\ toClient # << >> /\ Head(toClient) # "register_response"
          /\ UNCHANGED faults
       \/ pc = "await" /\ Fault
    /\ CloseSocket
    /\ pc' = "close"
    /\ UNCHANGED <<backoff, ws, srv, held, subscribed, diff, snapshot, cancelled, events>>

\* The read loop hands a message to the newest runner, which answers a
\* ListFilesRequest before the next one is read: with an empty list if it has
\* no subscription.
ReadMessage ==
    /\ pc = "read" /\ toClient # << >>
    /\ toClient' = Tail(toClient)
    /\ subscribed' = (subscribed \/ Head(toClient) = "subscribe_pair")
    /\ toServer' = IF Head(toClient) = "list_files_request"
                   THEN Append(toServer, IF subscribed THEN snapshot ELSE "empty")
                   ELSE toServer
    /\ UNCHANGED <<pc, backoff, ws, open, srv, held, diff, rest>>

\* Faulty variant: the context does not reach the read.
ReadFailsClosed ==
    /\ pc = "read" /\ ~open
    /\ CloseSocket
    /\ pc' = "close"
    /\ UNCHANGED <<backoff, ws, srv, held, subscribed, diff, rest>>

ReadFails ==
    /\ pc = "read" /\ (~open \/ cancelled)
    /\ CloseSocket
    /\ pc' = "close"
    /\ UNCHANGED <<backoff, ws, srv, held, subscribed, diff, rest>>

\* Faulty variant: Conn.ws keeps the closed socket.
ResetWSKeeps ==
    /\ pc = "close"
    /\ IF cancelled THEN pc' = "done" /\ UNCHANGED backoff
                    ELSE pc' = "wait" /\ NextDelay
    /\ UNCHANGED <<ws, wire, held, subscribed, diff, rest>>

\* Faulty variant: Run returns the error of its read loop.
ResetWSReturns ==
    /\ pc = "close"
    /\ ws' = FALSE
    /\ pc' = "done"
    /\ UNCHANGED <<backoff, wire, held, subscribed, diff, rest>>

\* After a failure: Conn.ws is nil again, and Run ends or waits.
ResetWS ==
    /\ pc = "close"
    /\ ws' = FALSE
    /\ IF cancelled THEN pc' = "done" /\ UNCHANGED backoff
                    ELSE pc' = "wait" /\ NextDelay
    /\ UNCHANGED <<wire, held, subscribed, diff, rest>>

WaitOver ==
    /\ pc = "wait" /\ ~cancelled
    /\ pc' = "top"
    /\ UNCHANGED <<backoff, ws, wire, held, subscribed, diff, rest>>

Cancel ==
    /\ ~cancelled /\ cancelled' = TRUE
    /\ UNCHANGED <<snapshot, pc, backoff, ws, wire, held, subscribed, diff, faults, events>>

Run ==
    \/ Stop \/ Dial \/ SetWS \/ WriteRegister \/ ReadResponse \/ ReadMessage
    \/ ReadFails \/ ResetWS \/ WaitOver

\* Conn.Send of an earlier runner: Conn.ws is read under the mutex ...
Grab ==
    /\ events < MaxEvents /\ held = "none" /\ ws
    /\ held' = "newest"
    /\ events' = events + 1
    /\ UNCHANGED <<snapshot, pc, cancelled, backoff, ws, wire, subscribed, diff, faults>>

\* ... and the event written without it; a closed socket is an error.
WriteEvent ==
    /\ held # "none"
    /\ held' = "none"
    /\ toServer' = IF open /\ held = "newest" THEN Append(toServer, "event") ELSE toServer
    /\ UNCHANGED <<pc, backoff, ws, open, srv, toClient, subscribed, diff, rest>>

-----------------------------------------------------------------------------
(* The server.                                                             *)

\* receiveRegisterRequest: the first message has to be the request.
ReceiveRegister ==
    /\ srv = "register" /\ toServer # << >>
    /\ IF Head(toServer) = "register_request"
       THEN /\ srv' = "respond"
            /\ toServer' = Tail(toServer)
            /\ UNCHANGED <<open, toClient>>
       ELSE /\ srv' = "none"
            /\ CloseSocket
    /\ UNCHANGED <<pc, backoff, ws, held, subscribed, diff, rest>>

\* No message in time, another version, or an error of the store.
Refuse ==
    /\ srv \in {"register", "respond"} /\ open /\ Fault
    /\ srv' = "none"
    /\ CloseSocket
    /\ UNCHANGED <<pc, backoff, ws, held, subscribed, diff, snapshot, cancelled, events>>

\* Faulty variant: the connection is registered before the response is sent.
RespondLate ==
    /\ srv = "respond"
    /\ toClient' = toClient \o <<"subscribe_pair", "list_files_request", "register_response">>
    /\ srv' = "registered"
    /\ UNCHANGED <<pc, backoff, ws, open, toServer, held, subscribed, diff, rest>>

\* The response; on a closed socket ServeHTTP returns.
Respond ==
    /\ srv = "respond"
    /\ toClient' = IF open THEN Append(toClient, "register_response") ELSE toClient
    /\ srv' = IF open THEN "hub" ELSE "none"
    /\ UNCHANGED <<pc, backoff, ws, open, toServer, held, subscribed, diff, rest>>

\* hub.Register starts onConnect: the subscriptions, then the snapshot request.
OnConnect ==
    /\ srv = "hub"
    /\ toClient' = IF open THEN toClient \o <<"subscribe_pair", "list_files_request">>
                   ELSE toClient
    /\ diff' = IF open THEN "asked" ELSE "missed"
    /\ srv' = "registered"
    /\ UNCHANGED <<pc, backoff, ws, open, toServer, held, subscribed, rest>>

\* The store fails in onConnect.  The subscriptions are not sent, and their
\* error does not stop the request, or the request is not sent, or neither
\* is; the session goes on.
OnConnectFails ==
    /\ srv = "hub" /\ open /\ Fault
    /\ \/ toClient' = Append(toClient, "list_files_request") /\ diff' = "asked"
       \/ toClient' = Append(toClient, "subscribe_pair") /\ diff' = "missed"
       \/ toClient' = toClient /\ diff' = "missed"
    /\ srv' = "registered"
    /\ UNCHANGED <<pc, backoff, ws, open, toServer, held, subscribed, snapshot,
                   cancelled, events>>

\* SendAndWait gives up after 30 seconds, or the store fails in applyDiff: the
\* request is not repeated in this session, and an answer that is still to
\* come is not handled.
DiffFails ==
    /\ diff = "asked" /\ srv = "registered" /\ Fault
    /\ diff' = "missed"
    /\ UNCHANGED <<pc, backoff, ws, wire, held, subscribed, snapshot, cancelled,
                   events>>

\* Conn.Run after its read loop: the socket is closed and the session over.
EndSession ==
    /\ CloseSocket
    /\ srv' = "none"
    /\ diff' = "none"

\* The read loop.  An answer goes to the diff that waits for it, and to nobody
\* if none does.  A message over maxMessageBytes is an error of Read.
ReadLoop ==
    /\ srv \in {"hub", "registered"} /\ toServer # << >>
    /\ IF Head(toServer) = "large"
       THEN EndSession
       ELSE /\ toServer' = Tail(toServer)
            /\ diff' = IF diff = "asked" /\ Head(toServer) = "small" THEN "done"
                       ELSE IF diff = "asked" /\ Head(toServer) = "empty" THEN "emptied"
                       ELSE diff
            /\ UNCHANGED <<open, srv, toClient>>
    /\ UNCHANGED <<pc, backoff, ws, held, subscribed, rest>>

\* The handler of an event returns an error: the read loop ends.
HandlerFails ==
    /\ srv \in {"hub", "registered"} /\ toServer # << >>
    /\ Head(toServer) = "event" /\ Fault
    /\ EndSession
    /\ UNCHANGED <<pc, backoff, ws, held, subscribed, snapshot, cancelled, events>>

\* A read on a closed socket ends the goroutine, and the session.
ReadLoopFails ==
    /\ srv \in {"register", "hub", "registered"} /\ ~open
    /\ EndSession
    /\ UNCHANGED <<pc, backoff, ws, held, subscribed, rest>>

Server == ReceiveRegister \/ Respond \/ OnConnect \/ ReadLoop \/ ReadLoopFails

\* The network breaks the socket.
Break ==
    /\ open /\ Fault
    /\ CloseSocket
    /\ UNCHANGED <<pc, backoff, ws, srv, held, subscribed, diff, snapshot, cancelled, events>>

Next ==
    \/ Run \/ RegisterFails \/ DialFails \/ Cancel \/ Grab \/ WriteEvent
    \/ Server \/ OnConnectFails \/ DiffFails \/ HandlerFails \/ Refuse \/ Break

Spec == Init /\ [][Next]_vars

\* Run and the server's goroutine go on, and a failed registration is noticed;
\* nothing is assumed of faults, of cancellation and of earlier runners.
FairSpec ==
    /\ Spec
    /\ WF_vars(Run) /\ WF_vars(Server)
    /\ WF_vars(RegisterFails /\ UNCHANGED faults)

-----------------------------------------------------------------------------
Message == {"register_request", "register_response", "subscribe_pair",
            "list_files_request", "small", "large", "empty", "event"}

\* Type invariant; Conn.ws is set exactly while Run has a socket.
TypeOK ==
    /\ snapshot \in Snapshots
    /\ pc \in {"top", "dialed", "write", "await", "read", "close", "wait", "done"}
    /\ power \in Nat \ {0} /\ delay \in 0..MaxDelay
    /\ ws \in BOOLEAN /\ (ws <=> pc \in {"write", "await", "read", "close"})
    /\ held \in {"none", "newest", "older"}
    /\ srv \in {"none", "register", "respond", "hub", "registered"}
    /\ toServer \in Seq(Message) /\ toClient \in Seq(Message)
    /\ cancelled \in BOOLEAN /\ open \in BOOLEAN /\ subscribed \in BOOLEAN
    /\ diff \in {"none", "asked", "done", "emptied", "missed"}
    /\ faults \in 0..MaxFaults /\ events \in 0..MaxEvents

\* The client's first message from the server is the response to its request,
\* though the server's goroutines for the subscriptions write to the same
\* socket: no accepted registration is given up for another message.
ResponseFirst ==
    pc = "await" /\ toClient # << >> => Head(toClient) = "register_response"

\* The client ends after its context, wherever Run is.
RunEnds == cancelled ~> pc = "done"

\* A client that is not stopped has, again and again, a session in which the
\* server compares its snapshot with file_state, whatever was refused, broken
\* or sent too early, except for three kinds of session that may last:
\* "missed", the store or the 30 second limit failed the request and nothing
\* repeats it (app.go:128, diff.go:42); "emptied", the store failed the
\* subscriptions only and the client answers with an empty list
\* (app.go:121, snapshot.go:28); and a client whose snapshot exceeds
\* maxMessageBytes reconnects for ever.
CatchesUp ==
    snapshot = "small" => []<>(cancelled \/ diff \in {"done", "emptied", "missed"})

-----------------------------------------------------------------------------
(* The inductive invariant behind ResponseFirst.                           *)

\* Nothing is on the wire of a closed socket, and the server's goroutine does
\* not leave an open one.
WireInv ==
    /\ ~open => toServer = << >> /\ toClient = << >>
    /\ srv = "none" => ~open

\* The server is silent until it has read the request, which the client has
\* not sent before "await", whatever earlier runners have sent.
SilenceInv ==
    /\ srv \in {"register", "respond"} => toClient = << >>
    /\ pc \in {"dialed", "write"} =>
        /\ srv \in {"register", "none"}
        /\ \A i \in DOMAIN toServer : toServer[i] # "register_request"

\* The response of an accepted registration is on the wire until it is read.
PendingResponseInv ==
    pc = "await" /\ srv \in {"hub", "registered"} /\ open =>
        toClient # << >> /\ Head(toClient) = "register_response"

IInv == TypeOK /\ WireInv /\ SilenceInv /\ PendingResponseInv
=============================================================================
