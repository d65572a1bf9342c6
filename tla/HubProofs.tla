------------------------------ MODULE HubProofs ------------------------------
(***************************************************************************)
(* The proofs about Hub: the registry of connections, the pending requests *)
(* and the shutdown are right for any number of connections, requests and  *)
(* answers.                                                                *)
(*                                                                         *)
(* The invariant has three parts that do not depend on each other: the     *)
(* registry, the way of an answer, and the WaitGroup.                      *)
(***************************************************************************)
EXTENDS Hub, FiniteSetTheorems, TLAPS

-----------------------------------------------------------------------------
(* Types.                                                                  *)

LEMMA TypeInit == Init => TypeOK
  BY DEF Init, TypeOK

\* OnDisc takes one off a WaitGroup that counts its connection.
LEMMA CountedPositive ==
  ASSUME CountInv, NEW c \in Conns, Counted(c)
  PROVE  wg \in Nat \ {0}
<1>1. c \in CountedConns
  BY DEF CountedConns
<1>2. wg \in Nat /\ wg # 0
  BY <1>1, FS_CardinalityType, FS_EmptySet DEF CountInv
<1> QED BY <1>2

LEMMA TypeServe ==
  ASSUME TypeOK, CountInv, NEW c \in Conns, Serve(c)
  PROVE  TypeOK'
<1> USE DEF hubVars, connVars, reqVars, closeVars
<1>1. CASE Accept(c) \/ Refuse(c)
  BY <1>1 DEF Accept, Refuse, TypeOK
<1>2. CASE Register(c)
  BY <1>2 DEF Register, TypeOK
<1>3. CASE HandleEnvelope(c) \/ HandlerOk(c) \/ ReadLoopEnds(c) \/ Unregister(c)
  BY <1>3 DEF HandleEnvelope, HandlerOk, ReadLoopEnds, Unregister, TypeOK
<1>4. CASE OnDisc(c)
  <2>1. wg - 1 \in Nat
    BY <1>4, CountedPositive DEF OnDisc, Counted
  <2> QED BY <1>4, <2>1 DEF OnDisc, TypeOK
<1>5. CASE PingFails(c) \/ Break(c) \/ Stall(c)
  BY <1>5 DEF PingFails, Break, Stall, TypeOK
<1>6. CASE HandOver(c)
  BY <1>6 DEF HandOver, TypeOK
<1>7. ASSUME NEW r \in Requests, Resolve(c, r) PROVE TypeOK'
  BY <1>7 DEF Resolve, TypeOK
<1> QED BY <1>1, <1>2, <1>3, <1>4, <1>5, <1>6, <1>7 DEF Serve

LEMMA TypeAsk ==
  ASSUME TypeOK, NEW r \in Requests, Ask(r)
  PROVE  TypeOK'
<1> USE DEF hubVars, connVars, reqVars, closeVars
<1>1. CASE SendAndWait(r) \/ Lookup(r) \/ Cancel(r)
  BY <1>1 DEF SendAndWait, Lookup, Cancel, TypeOK
<1>2. CASE Write(r) \/ WriteError(r)
  BY <1>2, HubAssumption DEF Write, WriteError, TypeOK
<1>3. CASE Answered(r) \/ Timeout(r)
  BY <1>3 DEF Answered, Timeout, TypeOK
<1> QED BY <1>1, <1>2, <1>3 DEF Ask

LEMMA TypeStop ==
  ASSUME TypeOK, Stop \/ DeleteCheck \/ DeleteClient \/ UNCHANGED vars
  PROVE  TypeOK'
<1> USE DEF hubVars, connVars, reqVars, closeVars
<1>1. CASE Collect
  BY <1>1 DEF Collect, TypeOK
<1>2. ASSUME NEW c \in closing, CloseNext(c) PROVE TypeOK'
  BY <1>2 DEF CloseNext, TypeOK
<1>3. CASE Drained \/ GraceOver \/ Shutdown
  BY <1>3 DEF Drained, GraceOver, Shutdown, TypeOK
<1>4. CASE DeleteCheck \/ DeleteClient
  BY <1>4 DEF DeleteCheck, DeleteClient, TypeOK
<1>5. CASE UNCHANGED vars
  BY <1>5 DEF vars, TypeOK
<1> QED BY <1>1, <1>2, <1>3, <1>4, <1>5 DEF Stop

LEMMA TypeStep == TypeOK /\ CountInv /\ [Next]_vars => TypeOK'
  BY TypeServe, TypeAsk, TypeStop DEF Next

-----------------------------------------------------------------------------
(* The registry.                                                           *)

Registry == RegistryInv /\ OneLiveConnection

LEMMA RegistryServe ==
  ASSUME TypeOK, Registry, NEW c \in Conns, Serve(c)
  PROVE  Registry'
<1> USE HubAssumption DEF hubVars, connVars, Registry, RegistryInv, OneLiveConnection, Running
<1>1. CASE Accept(c) \/ Refuse(c)
  BY <1>1 DEF Accept, Refuse, TypeOK
<1>2. CASE Register(c)
  <2>1. /\ registered' = c /\ newest' = c /\ phase'[c] = "running"
        /\ c # registered /\ c # newest
        /\ \A d \in Conns \ {c} : phase'[d] = phase[d]
    BY <1>2 DEF Register, TypeOK
  <2>2. \A d \in Conns \ {c} : Running(d) => ~open'[d]
    BY <1>2 DEF Register, TypeOK
  <2> QED BY <2>1, <2>2
<1>3. CASE HandleEnvelope(c) \/ HandlerOk(c) \/ ReadLoopEnds(c)
  BY <1>3 DEF HandleEnvelope, HandlerOk, ReadLoopEnds, TypeOK
<1>4. CASE Unregister(c)
  BY <1>4 DEF Unregister, TypeOK
<1>5. CASE OnDisc(c)
  BY <1>5 DEF OnDisc, TypeOK
<1>6. CASE PingFails(c) \/ Break(c) \/ Stall(c)
  BY <1>6 DEF PingFails, Break, Stall, TypeOK
<1>7. CASE HandOver(c)
  BY <1>7 DEF HandOver
<1>8. ASSUME NEW r \in Requests, Resolve(c, r) PROVE Registry'
  BY <1>8 DEF Resolve
<1> QED BY <1>1, <1>2, <1>3, <1>4, <1>5, <1>6, <1>7, <1>8 DEF Serve

LEMMA RegistryStep == TypeOK /\ Registry /\ [Next]_vars => Registry'
<1> SUFFICES ASSUME TypeOK, Registry, [Next]_vars PROVE Registry'
  OBVIOUS
<1>1. CASE \E c \in Conns : Serve(c)
  BY <1>1, RegistryServe
<1>2. ASSUME NEW c \in closing, CloseNext(c) PROVE Registry'
  BY <1>2 DEF CloseNext, hubVars, Registry, RegistryInv, OneLiveConnection, Running, TypeOK
<1>3. CASE UNCHANGED <<hubVars, connVars, newest>>
  BY <1>3 DEF hubVars, connVars, Registry, RegistryInv, OneLiveConnection, Running
<1>4. CASE \E r \in Requests : Ask(r)
  BY <1>3, <1>4 DEF Ask, SendAndWait, Lookup, Write, WriteError, Answered, Timeout, Cancel
<1>5. CASE Collect \/ Drained \/ GraceOver \/ Shutdown \/ DeleteCheck \/ DeleteClient
  BY <1>3, <1>5 DEF Collect, Drained, GraceOver, Shutdown, DeleteCheck, DeleteClient
<1>6. CASE UNCHANGED vars
  BY <1>3, <1>6 DEF vars
<1> QED BY <1>1, <1>2, <1>4, <1>5, <1>6 DEF Next, Stop

-----------------------------------------------------------------------------
(* The way of an answer.                                                   *)

Answers == AnswerInv /\ NoPendingLeak /\ ResolveNeverBlocks

LEMMA AnswersServe ==
  ASSUME TypeOK, Answers, NEW c \in Conns, Serve(c)
  PROVE  Answers'
<1> USE HubAssumption DEF reqVars, Answers, AnswerInv, NoPendingLeak, ResolveNeverBlocks
<1>1. CASE UNCHANGED <<reqVars, resolving>>
  BY <1>1
<1>2. CASE HandOver(c)
  <2> DEFINE r == resolving[c]
  <2>1. r \in Requests /\ r \notin pending /\ req[r] # "idle"
    BY <1>2 DEF HandOver, TypeOK
  <2>2. /\ resolving'[c] = None /\ \A d \in Conns \ {c} : resolving'[d] = resolving[d]
        /\ \A q \in Requests \ {r} : chan'[q] = chan[q]
        /\ pending' = pending /\ req' = req
    BY <1>2 DEF HandOver, TypeOK
  <2>3. \A d \in Conns \ {c} : resolving[d] # r
    BY <1>2 DEF HandOver
  <2>4. AnswerInv' /\ NoPendingLeak'
    BY <2>1, <2>2, <2>3
  <2>5. ResolveNeverBlocks'
    BY <2>2, <2>3 DEF TypeOK
  <2> QED BY <2>4, <2>5
<1>3. ASSUME NEW r \in Requests, Resolve(c, r) PROVE Answers'
  BY <1>3 DEF Resolve, TypeOK
<1> QED BY <1>1, <1>2, <1>3 DEF Serve, Accept, Refuse, Register, HandleEnvelope, HandlerOk,
           ReadLoopEnds, Unregister, OnDisc, PingFails, Break, Stall

LEMMA AnswersStep == TypeOK /\ Answers /\ [Next]_vars => Answers'
<1> SUFFICES ASSUME TypeOK, Answers, [Next]_vars PROVE Answers'
  OBVIOUS
<1>1. CASE \E c \in Conns : Serve(c)
  BY <1>1, AnswersServe
<1>2. ASSUME NEW r \in Requests, Ask(r) PROVE Answers'
  <2> USE DEF connVars, Answers, AnswerInv, NoPendingLeak, ResolveNeverBlocks
  <2>1. CASE SendAndWait(r)
    BY <2>1 DEF SendAndWait, TypeOK
  <2>2. CASE Lookup(r) \/ Write(r) \/ WriteError(r) \/ Timeout(r)
    BY <2>2 DEF Lookup, Write, WriteError, Timeout, TypeOK
  <2>3. CASE Answered(r)
    BY <2>3 DEF Answered, TypeOK
  <2>4. CASE Cancel(r)
    BY <2>4 DEF Cancel, TypeOK
  <2> QED BY <1>2, <2>1, <2>2, <2>3, <2>4 DEF Ask
<1>3. CASE UNCHANGED <<reqVars, resolving>>
  BY <1>3 DEF reqVars, Answers, AnswerInv, NoPendingLeak, ResolveNeverBlocks
<1>4. CASE Stop \/ DeleteCheck \/ DeleteClient
  BY <1>3, <1>4 DEF Stop, Collect, CloseNext, Drained, GraceOver, Shutdown, DeleteCheck,
                    DeleteClient, connVars
<1>5. CASE UNCHANGED vars
  BY <1>3, <1>5 DEF vars, connVars
<1> QED BY <1>1, <1>2, <1>4, <1>5 DEF Next

-----------------------------------------------------------------------------
(* The WaitGroup and the shutdown.                                         *)

Shut == CountInv /\ CloseInv /\ DrainedMeansDone

\* Register counts its connection.
LEMMA CountRegister ==
  ASSUME TypeOK, CountInv, NEW c \in Conns, Register(c)
  PROVE  CountInv'
<1>1. c \notin CountedConns /\ CountedConns' = CountedConns \cup {c}
  BY DEF Register, CountedConns, Counted, TypeOK
<1>2. wg' = wg + 1
  BY DEF Register
<1> QED BY <1>1, <1>2, FS_AddElement DEF CountInv

\* The deferred Done takes it out again.
LEMMA CountOnDisc ==
  ASSUME TypeOK, CountInv, NEW c \in Conns, OnDisc(c)
  PROVE  CountInv'
<1>1. c \in CountedConns /\ CountedConns' = CountedConns \ {c}
  BY DEF OnDisc, CountedConns, Counted, TypeOK
<1>2. wg' = wg - 1
  BY DEF OnDisc
<1> QED BY <1>1, <1>2, FS_RemoveElement DEF CountInv

\* No other step changes who is counted.
LEMMA CountStep == TypeOK /\ CountInv /\ [Next]_vars => CountInv'
<1> SUFFICES ASSUME TypeOK, CountInv, [Next]_vars PROVE CountInv'
  OBVIOUS
<1> USE DEF hubVars, connVars
<1>1. CASE wg' = wg /\ CountedConns' = CountedConns
  BY <1>1 DEF CountInv
<1>2. CASE UNCHANGED <<wg, phase>>
  BY <1>1, <1>2 DEF CountedConns, Counted
<1>3. ASSUME NEW c \in Conns, Serve(c) PROVE CountInv'
  <2>1. CASE Register(c)
    BY <2>1, CountRegister
  <2>2. CASE OnDisc(c)
    BY <2>2, CountOnDisc
  <2>3. CASE Accept(c) \/ Refuse(c) \/ HandleEnvelope(c) \/ HandlerOk(c)
             \/ ReadLoopEnds(c) \/ Unregister(c)
    <3>1. wg' = wg
      BY <2>3 DEF Accept, Refuse, HandleEnvelope, HandlerOk, ReadLoopEnds, Unregister
    <3>2. \A d \in Conns : Counted(d)' <=> Counted(d)
      BY <2>3 DEF Accept, Refuse, HandleEnvelope, HandlerOk, ReadLoopEnds, Unregister,
                  Counted, TypeOK
    <3> QED BY <3>1, <3>2, <1>1 DEF CountedConns
  <2>4. CASE PingFails(c) \/ Break(c) \/ Stall(c) \/ HandOver(c)
             \/ \E r \in Requests : Resolve(c, r)
    BY <2>4, <1>2 DEF PingFails, Break, Stall, HandOver, Resolve
  <2> QED BY <1>3, <2>1, <2>2, <2>3, <2>4 DEF Serve
<1>4. CASE \E r \in Requests : Ask(r)
  BY <1>2, <1>4 DEF Ask, SendAndWait, Lookup, Write, WriteError, Answered, Timeout, Cancel
<1>5. CASE Stop \/ DeleteCheck \/ DeleteClient \/ UNCHANGED vars
  BY <1>2, <1>5 DEF Stop, Collect, CloseNext, Drained, GraceOver, Shutdown, DeleteCheck,
                    DeleteClient, vars
<1> QED BY <1>3, <1>4, <1>5 DEF Next

\* A Run goes only forward: one that is counted stays so until it is done, and
\* one that is done stays so.
LEMMA RunsForward ==
  ASSUME TypeOK, [Next]_vars, NEW c \in Conns
  PROVE  /\ Counted(c) => (Counted(c) \/ phase[c] = "done")'
         /\ phase[c] = "done" => phase'[c] = "done"
<1> USE DEF hubVars, connVars, Counted
<1>1. CASE phase' = phase
  BY <1>1
<1>2. ASSUME NEW d \in Conns, Serve(d)
      PROVE  /\ Counted(c) => (Counted(c) \/ phase[c] = "done")'
             /\ phase[c] = "done" => phase'[c] = "done"
  <2>1. CASE Accept(d) \/ Refuse(d) \/ Register(d)
    BY <2>1 DEF Accept, Refuse, Register, TypeOK
  <2>2. CASE HandleEnvelope(d) \/ HandlerOk(d) \/ ReadLoopEnds(d)
    BY <2>2 DEF HandleEnvelope, HandlerOk, ReadLoopEnds, TypeOK
  <2>3. CASE Unregister(d) \/ OnDisc(d)
    BY <2>3 DEF Unregister, OnDisc, TypeOK
  <2>4. CASE PingFails(d) \/ Break(d) \/ Stall(d) \/ HandOver(d)
             \/ \E r \in Requests : Resolve(d, r)
    BY <2>4, <1>1 DEF PingFails, Break, Stall, HandOver, Resolve
  <2> QED BY <1>2, <2>1, <2>2, <2>3, <2>4 DEF Serve
<1>3. CASE \E r \in Requests : Ask(r)
  BY <1>1, <1>3 DEF Ask, SendAndWait, Lookup, Write, WriteError, Answered, Timeout, Cancel
<1>4. CASE Stop \/ DeleteCheck \/ DeleteClient \/ UNCHANGED vars
  BY <1>1, <1>4 DEF Stop, Collect, CloseNext, Drained, GraceOver, Shutdown, DeleteCheck,
                    DeleteClient, vars
<1> QED BY <1>2, <1>3, <1>4 DEF Next

LEMMA ShutStep == TypeOK /\ Shut /\ [Next]_vars => Shut'
<1> SUFFICES ASSUME TypeOK, Shut, [Next]_vars PROVE Shut'
  OBVIOUS
<1>1. CountInv'
  BY CountStep DEF Shut
<1>2. before \subseteq Conns
  BY DEF TypeOK
<1>3. CASE Collect
  <2>1. CloseInv'
    BY <1>3 DEF Collect, CloseInv, Counted, connVars
  <2>2. DrainedMeansDone'
    BY <1>3 DEF Collect, DrainedMeansDone
  <2> QED BY <1>1, <2>1, <2>2 DEF Shut
<1>4. CASE Drained
  \* Hub.Close saw an empty WaitGroup: nobody is counted any more.
  <2>1. CountedConns = {}
    BY <1>4, FS_EmptySet DEF Drained, Shut, CountInv
  <2>2. \A c \in before : phase[c] = "done"
    BY <2>1, <1>2 DEF CountedConns, Shut, CloseInv
  <2>3. UNCHANGED <<before, phase>>
    BY <1>4 DEF Drained, connVars
  <2> QED BY <1>1, <2>2, <2>3 DEF Shut, CloseInv, DrainedMeansDone
<1>5. CASE UNCHANGED before /\ (closer' = "drained" => closer = "drained")
  <2>1. CloseInv'
    BY <1>2, <1>5, RunsForward DEF Shut, CloseInv
  <2>2. DrainedMeansDone'
    BY <1>2, <1>5, RunsForward DEF Shut, DrainedMeansDone
  <2> QED BY <1>1, <2>1, <2>2 DEF Shut
<1>6. CASE \E c \in Conns : Serve(c)
  BY <1>5, <1>6 DEF Serve, Accept, Refuse, Register, HandleEnvelope, HandlerOk, ReadLoopEnds,
                    Unregister, OnDisc, PingFails, Break, Stall, HandOver, Resolve, closeVars
<1>7. CASE \E r \in Requests : Ask(r)
  BY <1>5, <1>7 DEF Ask, SendAndWait, Lookup, Write, WriteError, Answered, Timeout, Cancel,
                    closeVars
<1>8. CASE (\E c \in closing : CloseNext(c)) \/ GraceOver \/ Shutdown \/ DeleteCheck
           \/ DeleteClient \/ UNCHANGED vars
  BY <1>5, <1>8 DEF CloseNext, GraceOver, Shutdown, DeleteCheck, DeleteClient, vars, closeVars
<1> QED BY <1>3, <1>4, <1>6, <1>7, <1>8 DEF Next, Stop

-----------------------------------------------------------------------------
(* The inductive invariant and what follows from it.                       *)

LEMMA InitIInv == Init => IInv
<1> SUFFICES ASSUME Init PROVE IInv
  OBVIOUS
<1>1. RegistryInv /\ OneLiveConnection
  BY HubAssumption DEF Init, RegistryInv, OneLiveConnection, Running
<1>2. AnswerInv /\ NoPendingLeak /\ ResolveNeverBlocks
  BY HubAssumption DEF Init, AnswerInv, NoPendingLeak, ResolveNeverBlocks
<1>3. CountedConns = {}
  BY DEF Init, CountedConns, Counted
<1>4. CountInv /\ CloseInv /\ DrainedMeansDone
  BY <1>3, FS_EmptySet DEF Init, CountInv, CloseInv, DrainedMeansDone
<1> QED BY <1>1, <1>2, <1>4, TypeInit DEF IInv

LEMMA IInvStep == IInv /\ [Next]_vars => IInv'
  BY TypeStep, RegistryStep, AnswersStep, ShutStep DEF IInv, Registry, Answers, Shut

LEMMA Invariance == Spec => []IInv
  BY InitIInv, IInvStep, PTL DEF Spec

\* Every variable keeps its type; for the WaitGroup this says that Go's panic on
\* a negative counter cannot happen in Hub.Register, Run and Hub.Close.
THEOREM TypeCorrect == Spec => []TypeOK
<1>1. IInv => TypeOK
  BY DEF IInv
<1> QED BY <1>1, Invariance, PTL

\* A reconnect is never lost: whatever the order in which the goroutines of the
\* replaced connections reach Hub.Unregister, the newest connection that still
\* runs is the one Hub.Send finds.
THEOREM NewestStaysRegisteredCorrect == Spec => []NewestStaysRegistered
<1>1. IInv => NewestStaysRegistered
  BY DEF IInv, RegistryInv, NewestStaysRegistered, Running
<1> QED BY <1>1, Invariance, PTL

\* Hub.Register leaves one live connection: any other one that runs is closed.
THEOREM OneLiveConnectionCorrect == Spec => []OneLiveConnection
<1>1. IInv => OneLiveConnection
  BY DEF IInv
<1> QED BY <1>1, Invariance, PTL

\* SendAndWait leaves no entry in the PendingRegistry behind, on any way out.
THEOREM NoPendingLeakCorrect == Spec => []NoPendingLeak
<1>1. IInv => NoPendingLeak
  BY DEF IInv
<1> QED BY <1>1, Invariance, PTL

\* PendingRegistry.Resolve sends outside its mutex and yet never blocks a read
\* loop, however often and over however many connections a client answers.
THEOREM ResolveNeverBlocksCorrect == Spec => []ResolveNeverBlocks
<1>1. IInv => ResolveNeverBlocks
  BY DEF IInv
<1> QED BY <1>1, Invariance, PTL

\* When Hub.Close finds the WaitGroup empty, every Run in progress at the call
\* has written its last row, though Register may still add to the WaitGroup.
THEOREM DrainedMeansDoneCorrect == Spec => []DrainedMeansDone
<1>1. IInv => DrainedMeansDone
  BY DEF IInv
<1> QED BY <1>1, Invariance, PTL
=============================================================================
