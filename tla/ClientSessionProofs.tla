------------------------ MODULE ClientSessionProofs -------------------------
(***************************************************************************)
(* The proofs about ClientSession: for any limits of the backoff and any   *)
(* number of faults and events, the first message a registering client     *)
(* reads is the response to its request.                                   *)
(***************************************************************************)
EXTENDS ClientSession, SequenceTheorems, TLAPS

-----------------------------------------------------------------------------
(* Types.                                                                  *)

LEMMA TypeInit == Init => TypeOK
<1> SUFFICES ASSUME Init PROVE TypeOK
  OBVIOUS
<1>1. toServer \in Seq(Message) /\ toClient \in Seq(Message)
  BY EmptySeq DEF Init
<1>2. /\ cancelled \in BOOLEAN /\ open \in BOOLEAN /\ subscribed \in BOOLEAN
      /\ diff \in {"none", "asked", "done", "emptied", "missed"}
      /\ ws \in BOOLEAN /\ (ws <=> pc \in {"write", "await", "read", "close"})
  BY DEF Init
<1>3. /\ power \in Nat \ {0} /\ delay \in 0..MaxDelay
      /\ faults \in 0..MaxFaults /\ events \in 0..MaxEvents
  BY ClientSessionAssumption DEF Init
<1> QED BY <1>1, <1>2, <1>3 DEF Init, TypeOK

\* ExponentialBackoff.Next stays within its maximum.
LEMMA DelayType ==
  ASSUME TypeOK, NextDelay
  PROVE  power' \in Nat \ {0} /\ delay' \in 0..MaxDelay
<1>1. MaxDelay \in Nat \ {0} /\ power \in Nat \ {0}
  BY ClientSessionAssumption DEF TypeOK
<1> QED BY <1>1 DEF NextDelay

LEMMA FaultType ==
  ASSUME TypeOK, Fault
  PROVE  faults' \in 0..MaxFaults
<1>1. MaxFaults \in Nat /\ faults \in 0..MaxFaults
  BY ClientSessionAssumption DEF TypeOK
<1> QED BY <1>1 DEF Fault

LEMMA TypeRun ==
  ASSUME TypeOK, Run \/ DialFails \/ RegisterFails
  PROVE  TypeOK'
<1> USE DEF backoff, wire, rest
<1>0. /\ "register_request" \in Message /\ snapshot \in Message /\ "empty" \in Message
      /\ << >> \in Seq(Message) /\ 0 \in 0..MaxDelay
  BY ClientSessionAssumption, EmptySeq DEF TypeOK, Message
<1>1. CASE Stop \/ WaitOver
  BY <1>1 DEF Stop, WaitOver, TypeOK
<1>2. CASE DialFails
  <2>1. /\ power' \in Nat \ {0} /\ delay' \in 0..MaxDelay
        /\ faults' \in 0..MaxFaults
    BY <1>2, DelayType, FaultType DEF DialFails
  <2> QED BY <1>2, <2>1 DEF DialFails, TypeOK
<1>3. CASE Dial
  <2>1. /\ toServer' \in Seq(Message) /\ toClient' \in Seq(Message)
        /\ open' = TRUE /\ diff' = "none" /\ subscribed' = subscribed /\ ws' = ws
        /\ pc = "top" /\ pc' = "dialed"
    BY <1>0, <1>3 DEF Dial
  <2>2. ws' \in BOOLEAN /\ (ws' <=> pc' \in {"write", "await", "read", "close"})
    BY <2>1 DEF TypeOK
  <2>3. held' \in {"none", "newest", "older"} /\ srv' = "register"
        /\ UNCHANGED <<power, delay, snapshot, cancelled, faults, events>>
    BY <1>3 DEF Dial, TypeOK
  <2> QED BY <2>1, <2>2, <2>3 DEF TypeOK
<1>10. CASE SetWS
  BY <1>0, <1>10 DEF SetWS, TypeOK
<1>4. CASE WriteRegister
  <2>1. toServer' \in Seq(Message)
    BY <1>0, <1>4, AppendProperties DEF WriteRegister, TypeOK
  <2> QED BY <1>4, <2>1 DEF WriteRegister, TypeOK
<1>5. CASE ReadResponse
  <2>1. toClient' \in Seq(Message)
    BY <1>5, HeadTailProperties DEF ReadResponse, TypeOK
  <2> QED BY <1>5, <2>1 DEF ReadResponse, TypeOK
<1>6. CASE ReadMessage
  <2>1. toClient' \in Seq(Message)
    BY <1>6, HeadTailProperties DEF ReadMessage, TypeOK
  <2>2. toServer' \in Seq(Message)
    <3>1. \/ toServer' = toServer
          \/ toServer' = Append(toServer, snapshot)
          \/ toServer' = Append(toServer, "empty")
      BY <1>6 DEF ReadMessage
    <3>2. toServer \in Seq(Message)
      BY DEF TypeOK
    <3> QED BY <1>0, <3>1, <3>2, AppendProperties
  <2>3. subscribed' \in BOOLEAN
    BY <1>6 DEF ReadMessage
  <2> QED BY <1>6, <2>1, <2>2, <2>3 DEF ReadMessage, TypeOK
<1>7. CASE ReadFails
  BY <1>0, <1>7 DEF ReadFails, CloseSocket, TypeOK
<1>8. CASE ResetWS
  <2>1. power' \in Nat \ {0} /\ delay' \in 0..MaxDelay
    BY <1>8, DelayType DEF ResetWS, TypeOK
  <2> QED BY <1>8, <2>1 DEF ResetWS, TypeOK
<1>9. CASE RegisterFails
  <2>1. faults' \in 0..MaxFaults
    BY <1>9, FaultType DEF RegisterFails, TypeOK
  <2> QED BY <1>0, <1>9, <2>1 DEF RegisterFails, CloseSocket, TypeOK
<1> QED BY <1>1, <1>2, <1>3, <1>4, <1>5, <1>6, <1>7, <1>8, <1>9, <1>10 DEF Run

LEMMA TypeRunner ==
  ASSUME TypeOK, Cancel \/ Grab \/ WriteEvent
  PROVE  TypeOK'
<1> USE DEF backoff, wire, rest
<1>1. CASE Cancel
  BY <1>1 DEF Cancel, TypeOK
<1>2. CASE Grab
  <2>1. events' \in 0..MaxEvents
    BY <1>2, ClientSessionAssumption DEF Grab, TypeOK
  <2> QED BY <1>2, <2>1 DEF Grab, TypeOK
<1>3. CASE WriteEvent
  <2>1. toServer' \in Seq(Message)
    BY <1>3, AppendProperties DEF WriteEvent, TypeOK, Message
  <2> QED BY <1>3, <2>1 DEF WriteEvent, TypeOK
<1> QED BY <1>1, <1>2, <1>3

LEMMA TypeServer ==
  ASSUME TypeOK, Server \/ OnConnectFails \/ DiffFails \/ HandlerFails \/ Refuse \/ Break
  PROVE  TypeOK'
<1> USE DEF backoff, wire, rest
<1>0. /\ "register_response" \in Message /\ << >> \in Seq(Message)
      /\ <<"subscribe_pair", "list_files_request">> \in Seq(Message)
      /\ "subscribe_pair" \in Message /\ "list_files_request" \in Message
  BY EmptySeq DEF Message
<1>1. CASE ReceiveRegister
  <2>1. CASE Head(toServer) = "register_request"
    <3>1. Tail(toServer) \in Seq(Message)
      BY <1>1, HeadTailProperties DEF ReceiveRegister, TypeOK
    <3> QED BY <1>1, <2>1, <3>1 DEF ReceiveRegister, TypeOK
  <2>2. CASE Head(toServer) # "register_request"
    BY <1>0, <1>1, <2>2 DEF ReceiveRegister, CloseSocket, TypeOK
  <2> QED BY <2>1, <2>2
<1>2. CASE Respond
  <2>1. toClient' \in Seq(Message)
    BY <1>0, <1>2, AppendProperties DEF Respond, TypeOK
  <2> QED BY <1>2, <2>1 DEF Respond, TypeOK
<1>3. CASE OnConnect
  <2>1. toClient' \in Seq(Message)
    BY <1>0, <1>3, ConcatProperties DEF OnConnect, TypeOK
  <2> QED BY <1>3, <2>1 DEF OnConnect, TypeOK
<1>4. CASE ReadLoop
  <2>1. toServer' \in Seq(Message) /\ toClient' \in Seq(Message) /\ open' \in BOOLEAN
    <3>1. toServer \in Seq(Message) /\ toClient \in Seq(Message) /\ toServer # << >>
      BY <1>4 DEF ReadLoop, TypeOK
    <3>2. Tail(toServer) \in Seq(Message)
      BY <3>1, HeadTailProperties
    <3>3. \/ toServer' = << >> /\ toClient' = << >> /\ open' = FALSE
          \/ toServer' = Tail(toServer) /\ toClient' = toClient /\ open' = open
      BY <1>4 DEF ReadLoop, EndSession, CloseSocket
    <3>4. open \in BOOLEAN
      BY DEF TypeOK
    <3> QED BY <1>0, <3>1, <3>2, <3>3, <3>4
  <2>2. diff' \in {"none", "asked", "done", "emptied", "missed"}
    BY <1>4 DEF ReadLoop, EndSession, TypeOK
  <2>3. srv' \in {srv, "none"}
    BY <1>4 DEF ReadLoop, EndSession
  <2>4. UNCHANGED <<pc, power, delay, ws, held, subscribed, snapshot, cancelled, faults, events>>
    BY <1>4 DEF ReadLoop
  <2> QED BY <2>1, <2>2, <2>3, <2>4 DEF TypeOK
<1>5. CASE ReadLoopFails
  BY <1>0, <1>5 DEF ReadLoopFails, EndSession, CloseSocket, TypeOK
<1>7. CASE OnConnectFails
  <2>1. toClient' \in Seq(Message)
    <3>1. \/ toClient' = Append(toClient, "list_files_request")
          \/ toClient' = Append(toClient, "subscribe_pair")
          \/ toClient' = toClient
      BY <1>7 DEF OnConnectFails
    <3>2. toClient \in Seq(Message)
      BY DEF TypeOK
    <3> QED BY <1>0, <3>1, <3>2, AppendProperties
  <2>2. faults' \in 0..MaxFaults
    BY <1>7, FaultType DEF OnConnectFails
  <2>3. diff' \in {"asked", "missed"}
    BY <1>7 DEF OnConnectFails
  <2> QED BY <1>7, <2>1, <2>2, <2>3 DEF OnConnectFails, TypeOK
<1>8. CASE DiffFails
  <2>1. faults' \in 0..MaxFaults
    BY <1>8, FaultType DEF DiffFails
  <2> QED BY <1>8, <2>1 DEF DiffFails, TypeOK
<1>9. CASE HandlerFails
  <2>1. faults' \in 0..MaxFaults
    BY <1>9, FaultType DEF HandlerFails
  <2> QED BY <1>0, <1>9, <2>1 DEF HandlerFails, EndSession, CloseSocket, TypeOK
<1>6. CASE Refuse \/ Break
  <2>1. /\ faults' \in 0..MaxFaults
        /\ toServer' \in Seq(Message) /\ toClient' \in Seq(Message) /\ open' = FALSE
    BY <1>0, <1>6, FaultType DEF Refuse, Break, CloseSocket
  <2>2. srv' = "none" \/ srv' = srv
    BY <1>6 DEF Refuse, Break
  <2>3. UNCHANGED <<pc, power, delay, ws, held, subscribed, diff, snapshot, cancelled, events>>
    BY <1>6 DEF Refuse, Break
  <2>4. srv' \in {"none", "register", "respond", "hub", "registered"}
    BY <2>2 DEF TypeOK
  <2>5. open' \in BOOLEAN
    BY <2>1
  <2> QED BY <2>1, <2>3, <2>4, <2>5 DEF TypeOK
<1> QED BY <1>1, <1>2, <1>3, <1>4, <1>5, <1>6, <1>7, <1>8, <1>9 DEF Server

LEMMA TypeStep == TypeOK /\ [Next]_vars => TypeOK'
<1>1. ASSUME TypeOK, UNCHANGED vars PROVE TypeOK'
  BY <1>1 DEF vars, TypeOK
<1> QED BY <1>1, TypeRun, TypeRunner, TypeServer DEF Next

-----------------------------------------------------------------------------
(* The handshake.                                                          *)

Handshake == WireInv /\ SilenceInv /\ PendingResponseInv

LEMMA HandshakeRun ==
  ASSUME TypeOK, Handshake, Run \/ DialFails \/ RegisterFails
  PROVE  Handshake'
<1> USE DEF backoff, wire, rest, Handshake, WireInv, SilenceInv, PendingResponseInv
<1>1. CASE Stop \/ WaitOver \/ DialFails \/ SetWS \/ ResetWS
  BY <1>1 DEF Stop, WaitOver, DialFails, SetWS, ResetWS
<1>2. CASE Dial
  BY <1>2 DEF Dial
<1>3. CASE WriteRegister
  BY <1>3 DEF WriteRegister
<1>4. CASE ReadResponse
  BY <1>4 DEF ReadResponse
<1>5. CASE ReadMessage
  BY <1>5 DEF ReadMessage
<1>6. CASE ReadFails \/ RegisterFails
  BY <1>6 DEF ReadFails, RegisterFails, CloseSocket
<1> QED BY <1>1, <1>2, <1>3, <1>4, <1>5, <1>6 DEF Run

\* An event of an earlier runner may be the first message of the socket, but it
\* is no request.
LEMMA HandshakeRunner ==
  ASSUME TypeOK, Handshake, Cancel \/ Grab \/ WriteEvent
  PROVE  Handshake'
<1> USE DEF backoff, wire, rest, Handshake, WireInv, SilenceInv, PendingResponseInv
<1>1. CASE Cancel \/ Grab
  BY <1>1 DEF Cancel, Grab
<1>2. CASE WriteEvent
  <2>1. \A i \in DOMAIN toServer' : \/ i \in DOMAIN toServer /\ toServer'[i] = toServer[i]
                                    \/ toServer'[i] = "event"
    <3>1. CASE toServer' = toServer
      BY <3>1
    <3>2. CASE toServer' = Append(toServer, "event")
      BY <3>2, AppendProperties, LenProperties DEF TypeOK, Message
    <3> QED BY <1>2, <3>1, <3>2 DEF WriteEvent
  <2>2. ~open => toServer' = toServer
    BY <1>2 DEF WriteEvent
  <2> QED BY <1>2, <2>1, <2>2 DEF WriteEvent
<1> QED BY <1>1, <1>2

LEMMA HandshakeServer ==
  ASSUME TypeOK, Handshake,
         Server \/ OnConnectFails \/ DiffFails \/ HandlerFails \/ Refuse \/ Break
  PROVE  Handshake'
<1> USE DEF backoff, wire, rest, Handshake, WireInv, SilenceInv, PendingResponseInv
<1>1. CASE ReceiveRegister
  <2>1. toServer \in Seq(Message) /\ toServer # << >>
    BY <1>1 DEF ReceiveRegister, TypeOK
  <2>2. 1 \in DOMAIN toServer /\ Head(toServer) = toServer[1]
    BY <2>1, LenProperties, EmptySeq, HeadTailProperties
  <2>3. CASE Head(toServer) = "register_request"
    BY <1>1, <2>2, <2>3 DEF ReceiveRegister
  <2>4. CASE Head(toServer) # "register_request"
    BY <1>1, <2>4 DEF ReceiveRegister, CloseSocket
  <2> QED BY <2>3, <2>4
<1>2. CASE Respond
  <2>1. open => toClient' = <<"register_response">>
    BY <1>2, AppendProperties DEF Respond
  <2> QED BY <1>2, <2>1 DEF Respond
<1>3. CASE OnConnect
  <2>1. CASE open /\ pc = "await"
    <3>1. /\ toClient \in Seq(Message) /\ toClient # << >>
          /\ Head(toClient) = "register_response"
      BY <1>3, <2>1 DEF OnConnect, TypeOK
    <3>2. <<"subscribe_pair", "list_files_request">> \in Seq(Message)
      BY DEF Message
    <3>3. /\ toClient' \in Seq(Message) /\ toClient' # << >>
          /\ Head(toClient') = Head(toClient)
      BY <1>3, <2>1, <3>1, <3>2, ConcatProperties, LenProperties, EmptySeq,
         HeadTailProperties DEF OnConnect
    <3> QED BY <1>3, <3>1, <3>3 DEF OnConnect
  <2>2. CASE ~(open /\ pc = "await")
    BY <1>3, <2>2 DEF OnConnect
  <2> QED BY <2>1, <2>2
<1>4. CASE ReadLoop
  BY <1>4 DEF ReadLoop, EndSession, CloseSocket
<1>5. CASE ReadLoopFails \/ HandlerFails
  BY <1>5 DEF ReadLoopFails, HandlerFails, EndSession, CloseSocket
<1>7. CASE OnConnectFails
  <2>1. CASE pc = "await"
    <3>1. /\ toClient \in Seq(Message) /\ toClient # << >>
          /\ Head(toClient) = "register_response"
      BY <1>7, <2>1 DEF OnConnectFails, TypeOK
    <3>2. "subscribe_pair" \in Message /\ "list_files_request" \in Message
      BY DEF Message
    <3>3. \/ toClient' = Append(toClient, "list_files_request")
          \/ toClient' = Append(toClient, "subscribe_pair")
          \/ toClient' = toClient
      BY <1>7 DEF OnConnectFails
    <3>4. toClient' # << >> /\ Head(toClient') = Head(toClient)
      BY <3>1, <3>2, <3>3, AppendProperties, LenProperties, EmptySeq, HeadTailProperties
    <3> QED BY <1>7, <3>1, <3>4 DEF OnConnectFails
  <2>2. CASE pc # "await"
    BY <1>7, <2>2 DEF OnConnectFails
  <2> QED BY <2>1, <2>2
<1>8. CASE DiffFails
  BY <1>8 DEF DiffFails
<1>6. CASE Refuse \/ Break
  BY <1>6 DEF Refuse, Break, CloseSocket
<1> QED BY <1>1, <1>2, <1>3, <1>4, <1>5, <1>6, <1>7, <1>8 DEF Server

LEMMA HandshakeStep == TypeOK /\ Handshake /\ [Next]_vars => Handshake'
<1>1. ASSUME Handshake, UNCHANGED vars PROVE Handshake'
  BY <1>1 DEF vars, Handshake, WireInv, SilenceInv, PendingResponseInv
<1> QED BY <1>1, HandshakeRun, HandshakeRunner, HandshakeServer DEF Next

-----------------------------------------------------------------------------
(* The inductive invariant and what follows from it.                       *)

LEMMA InitIInv == Init => IInv
  BY TypeInit DEF Init, IInv, WireInv, SilenceInv, PendingResponseInv

LEMMA IInvStep == IInv /\ [Next]_vars => IInv'
  BY TypeStep, HandshakeStep DEF IInv, Handshake

LEMMA Invariance == Spec => []IInv
  BY InitIInv, IInvStep, PTL DEF Spec

\* Every variable keeps its type; Conn.ws is set exactly between the dial and the
\* end of the session, and no wait exceeds the maximum of the backoff.
THEOREM TypeCorrect == Spec => []TypeOK
<1>1. IInv => TypeOK
  BY DEF IInv
<1> QED BY <1>1, Invariance, PTL

\* Conn.register reads the response first: ServeHTTP registers the connection
\* with the hub, whose goroutines write to the same socket, after it has sent
\* the response, and an event of an earlier runner ends the session instead.
THEOREM ResponseFirstCorrect == Spec => []ResponseFirst
<1>1. IInv => ResponseFirst
  BY DEF IInv, TypeOK, WireInv, SilenceInv, PendingResponseInv, ResponseFirst
<1> QED BY <1>1, Invariance, PTL
=============================================================================
