-------------------------- MODULE SchedulerProofs ---------------------------
(***************************************************************************)
(* The proofs about Scheduler: for any number of callers, keys and clients *)
(* and any limits, no permit is lost or made and a key is worked on by one *)
(* caller.  That nobody waits while a permit is free, the semaphore's own  *)
(* part, is needed for the induction.                                      *)
(***************************************************************************)
EXTENDS Scheduler, SequenceTheorems, FiniteSetTheorems, TLAPS

-----------------------------------------------------------------------------
(* Queues: who is in one after an append, a departure and a hand-out.      *)

LEMMA AppendQueue ==
  ASSUME NEW S, NEW q \in Seq(S), NEW j \in S, NoRepeats(q), ~Waits(q, j)
  PROVE  /\ Append(q, j) \in Seq(S) /\ NoRepeats(Append(q, j))
         /\ \A k : Waits(Append(q, j), k) <=> Waits(q, k) \/ k = j
         /\ Append(q, j) # << >>
<1> DEFINE p == Append(q, j)
<1>1. /\ p \in Seq(S) /\ Len(p) = Len(q) + 1 /\ p # << >>
      /\ \A i \in 1..Len(q) : p[i] = q[i]
      /\ p[Len(q) + 1] = j
  BY AppendProperties
<1>2. DOMAIN p = 1..(Len(q) + 1) /\ DOMAIN q = 1..Len(q) /\ Len(q) \in Nat
  BY <1>1, LenProperties
<1> HIDE DEF p
<1>3. NoRepeats(p)
  BY <1>1, <1>2 DEF NoRepeats, Waits
<1>4. ASSUME NEW k PROVE Waits(p, k) <=> Waits(q, k) \/ k = j
  BY <1>1, <1>2 DEF Waits
<1> QED BY <1>1, <1>3, <1>4 DEF p

LEMMA TailQueue ==
  ASSUME NEW S, NEW q \in Seq(S), NoRepeats(q), q # << >>
  PROVE  /\ Head(q) \in S /\ Waits(q, Head(q))
         /\ Tail(q) \in Seq(S) /\ NoRepeats(Tail(q))
         /\ \A k : Waits(Tail(q), k) <=> Waits(q, k) /\ k # Head(q)
<1> DEFINE p == Tail(q)
<1>1. /\ Head(q) = q[1] /\ p \in Seq(S) /\ Len(p) = Len(q) - 1
      /\ \A i \in 1..Len(p) : p[i] = q[i + 1]
  BY HeadTailProperties
<1>2. /\ DOMAIN p = 1..(Len(q) - 1) /\ DOMAIN q = 1..Len(q)
      /\ Len(q) \in Nat \ {0}
  BY <1>1, LenProperties, EmptySeq
<1>3. q[1] \in S
  BY <1>2, ElementOfSeq
<1> HIDE DEF p
<1>4. Waits(q, Head(q))
  BY <1>1, <1>2 DEF Waits
<1>5. NoRepeats(p)
  <2> SUFFICES ASSUME NEW i \in DOMAIN p, NEW k \in DOMAIN p, p[i] = p[k]
               PROVE  i = k
    BY DEF NoRepeats
  <2>1. /\ i \in Nat /\ i + 1 \in DOMAIN q /\ p[i] = q[i + 1]
        /\ k \in Nat /\ k + 1 \in DOMAIN q /\ p[k] = q[k + 1]
    BY <1>1, <1>2
  <2>2. \A m, n \in DOMAIN q : q[m] = q[n] => m = n
    BY DEF NoRepeats
  <2>3. i + 1 = k + 1
    BY <2>1, <2>2
  <2> QED BY <2>1, <2>3
<1>6. ASSUME NEW k PROVE Waits(p, k) <=> Waits(q, k) /\ k # Head(q)
  <2>1. Waits(p, k) => Waits(q, k) /\ k # Head(q)
    <3> SUFFICES ASSUME Waits(p, k) PROVE Waits(q, k) /\ k # Head(q)
      OBVIOUS
    <3>1. PICK i \in DOMAIN p : p[i] = k
      BY DEF Waits
    <3>2. i + 1 \in DOMAIN q /\ i + 1 # 1 /\ q[i + 1] = k /\ 1 \in DOMAIN q
      BY <1>1, <1>2, <3>1
    <3>3. q[i + 1] # q[1]
      BY <3>2 DEF NoRepeats
    <3> QED BY <1>1, <3>2, <3>3 DEF Waits
  <2>2. ASSUME Waits(q, k), k # Head(q) PROVE Waits(p, k)
    <3>1. PICK i \in DOMAIN q : q[i] = k
      BY <2>2 DEF Waits
    <3>2. i - 1 \in DOMAIN p /\ p[i - 1] = k
      BY <1>1, <1>2, <2>2, <3>1
    <3> QED BY <3>2 DEF Waits
  <2> QED BY <2>1, <2>2
<1> QED BY <1>1, <1>3, <1>4, <1>5, <1>6 DEF p

LEMMA WithoutQueue ==
  ASSUME NEW S, NEW q \in Seq(S), NEW j, NoRepeats(q)
  PROVE  /\ Without(q, j) \in Seq(S) /\ NoRepeats(Without(q, j))
         /\ \A k : Waits(Without(q, j), k) <=> Waits(q, k) /\ k # j
         /\ Without(q, j) # << >> => q # << >>
<1>1. CASE ~Waits(q, j)
  <2>1. Without(q, j) = q
    BY <1>1 DEF Without
  <2>2. \A k : Waits(q, k) <=> Waits(q, k) /\ k # j
    BY <1>1
  <2> QED BY <2>1, <2>2
<1>2. CASE Waits(q, j)
  <2> DEFINE at == CHOOSE i \in DOMAIN q : q[i] = j
             p == [i \in 1..(Len(q) - 1) |-> IF i < at THEN q[i] ELSE q[i + 1]]
  <2>1. Without(q, j) = p
    BY <1>2 DEF Without
  <2>2. at \in DOMAIN q /\ q[at] = j
    BY <1>2 DEF Waits
  <2>3. DOMAIN q = 1..Len(q) /\ Len(q) \in Nat /\ \A i \in 1..Len(q) : q[i] \in S
    BY LenProperties, ElementOfSeq
  <2> HIDE DEF at
  <2>4. Len(q) - 1 \in Nat /\ at \in 1..Len(q)
    BY <2>2, <2>3
  <2>5. \A i \in 1..(Len(q) - 1) : p[i] \in S
    BY <2>3, <2>4
  <2>6. p \in Seq(S)
    BY <2>4, <2>5, SeqDef
  <2>7. DOMAIN p = 1..(Len(q) - 1)
    OBVIOUS
  <2>8. \A i \in 1..(Len(q) - 1) : p[i] = IF i < at THEN q[i] ELSE q[i + 1]
    OBVIOUS
  <2> HIDE DEF p
  <2>9. NoRepeats(p)
    <3> SUFFICES ASSUME NEW i \in 1..(Len(q) - 1), NEW k \in 1..(Len(q) - 1), p[i] = p[k]
                 PROVE  i = k
      BY <2>7 DEF NoRepeats
    <3>1. CASE i < at /\ k < at
      BY <3>1, <2>3, <2>4, <2>8 DEF NoRepeats
    <3>2. CASE i < at /\ ~(k < at)
      BY <3>2, <2>3, <2>4, <2>8 DEF NoRepeats
    <3>3. CASE ~(i < at) /\ k < at
      BY <3>3, <2>3, <2>4, <2>8 DEF NoRepeats
    <3>4. CASE ~(i < at) /\ ~(k < at)
      BY <3>4, <2>3, <2>4, <2>8 DEF NoRepeats
    <3> QED BY <3>1, <3>2, <3>3, <3>4
  <2>10. ASSUME NEW k PROVE Waits(p, k) <=> Waits(q, k) /\ k # j
    <3>1. ASSUME Waits(p, k) PROVE Waits(q, k) /\ k # j
      <4>1. PICK i \in 1..(Len(q) - 1) : p[i] = k
        BY <2>7, <3>1 DEF Waits
      <4>2. CASE i < at
        BY <4>1, <4>2, <2>2, <2>3, <2>4, <2>8 DEF Waits, NoRepeats
      <4>3. CASE ~(i < at)
        BY <4>1, <4>3, <2>2, <2>3, <2>4, <2>8 DEF Waits, NoRepeats
      <4> QED BY <4>2, <4>3
    <3>2. ASSUME Waits(q, k), k # j PROVE Waits(p, k)
      <4>1. PICK i \in 1..Len(q) : q[i] = k
        BY <2>3, <3>2 DEF Waits
      <4>2. CASE i < at
        BY <4>1, <4>2, <2>4, <2>7, <2>8 DEF Waits
      <4>3. CASE ~(i < at)
        <5>1. i # at
          BY <2>2, <3>2, <4>1
        <5>2. i - 1 \in 1..(Len(q) - 1) /\ ~(i - 1 < at) /\ (i - 1) + 1 = i
          BY <4>3, <5>1, <2>4
        <5>3. p[i - 1] = k
          BY <4>1, <5>2, <2>8
        <5> QED BY <5>2, <5>3, <2>7 DEF Waits
      <4> QED BY <4>2, <4>3
    <3> QED BY <3>1, <3>2
  <2>11. q # << >>
    BY <2>2, <2>3, <2>4
  <2> QED BY <2>1, <2>6, <2>9, <2>10, <2>11
<1> QED BY <1>1, <1>2

-----------------------------------------------------------------------------
(* Who is in which queue.                                                  *)

Queues == QueueInv /\ WaitInv

LEMMA ClientType == \A j \in Callers : KeyOf[j] \in Keys /\ Client(j) \in Clients
  BY SchedulerAssumption DEF Client

\* A hand-out of the global semaphore wakes a caller that waits for it.
LEMMA HeadWaits ==
  ASSUME TypeOK, Queues, queue # << >>
  PROVE  Head(queue) \in Callers /\ pc[Head(queue)] = "waitGlobal"
<1>1. Head(queue) \in Callers /\ Waits(queue, Head(queue))
  BY TailQueue DEF TypeOK, Queues, QueueInv
<1> QED BY <1>1 DEF Queues, WaitInv

LEMMA CliHeadWaits ==
  ASSUME TypeOK, Queues, NEW c \in Clients, cliQueue[c] # << >>
  PROVE  LET h == Head(cliQueue[c])
         IN  h \in Callers /\ Client(h) = c /\ pc[h] = "waitClient"
<1> DEFINE h == Head(cliQueue[c])
<1>1. h \in Callers /\ Waits(cliQueue[c], h)
  <2>1. cliQueue[c] \in Seq(Callers) /\ NoRepeats(cliQueue[c])
    BY DEF TypeOK, Queues, QueueInv
  <2> QED BY <2>1, TailQueue
<1>2. Client(h) = c
  BY <1>1 DEF Queues, QueueInv
<1> QED BY <1>1, <1>2 DEF Queues, WaitInv

\* Joining and leaving the global queue.
LEMMA QueuesAskGlobal ==
  ASSUME TypeOK, Queues, NEW j \in Callers, AskGlobal(j)
  PROVE  Queues'
<1> USE DEF global, perCli
<1>1. ~Waits(queue, j) /\ ~Waits(cliQueue[Client(j)], j)
  BY DEF AskGlobal, Queues, WaitInv
<1>2. CASE free > 0 /\ queue = << >>
  <2>1. /\ queue' = queue /\ cliQueue' = cliQueue /\ cliFree' = cliFree
        /\ pc'[j] = "gotGlobal" /\ \A k \in Callers \ {j} : pc'[k] = pc[k]
    BY <1>2 DEF AskGlobal, TypeOK
  <2> QED BY <1>1, <1>2, <2>1 DEF Queues, QueueInv, WaitInv
<1>3. CASE ~(free > 0 /\ queue = << >>)
  <2>1. /\ queue' = Append(queue, j) /\ cliQueue' = cliQueue /\ cliFree' = cliFree
        /\ free' = free /\ free = 0
        /\ pc'[j] = "waitGlobal" /\ \A k \in Callers \ {j} : pc'[k] = pc[k]
    BY <1>3 DEF AskGlobal, TypeOK, Queues, WaitInv
  <2>2. /\ NoRepeats(queue')
        /\ \A k : Waits(queue', k) <=> Waits(queue, k) \/ k = j
    BY <1>1, <2>1, AppendQueue DEF TypeOK, Queues, QueueInv
  <2> QED BY <1>1, <2>1, <2>2 DEF Queues, QueueInv, WaitInv
<1> QED BY <1>2, <1>3

LEMMA QueuesLeaveGlobal ==
  ASSUME TypeOK, Queues, NEW j \in Callers, LeaveGlobal(j)
  PROVE  Queues'
<1> USE DEF global, perCli
<1>1. ~Waits(cliQueue[Client(j)], j)
  BY DEF LeaveGlobal, Queues, WaitInv
<1>2. /\ queue' = Without(queue, j) /\ cliQueue' = cliQueue /\ cliFree' = cliFree
      /\ free' = free
      /\ pc'[j] = "forget" /\ \A k \in Callers \ {j} : pc'[k] = pc[k]
  BY DEF LeaveGlobal, TypeOK
<1>3. /\ NoRepeats(queue')
      /\ \A k : Waits(queue', k) <=> Waits(queue, k) /\ k # j
      /\ queue' # << >> => queue # << >>
  BY <1>2, WithoutQueue DEF TypeOK, Queues, QueueInv
<1> QED BY <1>1, <1>2, <1>3 DEF Queues, QueueInv, WaitInv

\* Release hands the global permit to the first who waits.
LEMMA QueuesRelease ==
  ASSUME TypeOK, Queues, NEW j \in Callers, Release(j)
  PROVE  Queues'
<1> USE DEF global, perCli
<1>1. ~Waits(queue, j) /\ ~Waits(cliQueue[Client(j)], j)
  BY DEF Release, Queues, WaitInv
<1>2. CASE queue = << >>
  <2>1. /\ queue' = queue /\ cliQueue' = cliQueue /\ cliFree' = cliFree
        /\ pc'[j] = "forget" /\ \A k \in Callers \ {j} : pc'[k] = pc[k]
    BY <1>2 DEF Release, ReleaseGlobal, TypeOK
  <2> QED BY <1>1, <1>2, <2>1 DEF Queues, QueueInv, WaitInv
<1>3. CASE queue # << >>
  <2> DEFINE h == Head(queue)
  <2>1. h \in Callers /\ pc[h] = "waitGlobal"
    BY <1>3, HeadWaits
  <2>2. h # j
    BY <2>1 DEF Release
  <2>3. /\ queue' = Tail(queue) /\ cliQueue' = cliQueue /\ cliFree' = cliFree
        /\ free' = free
        /\ pc'[j] = "forget" /\ pc'[h] = "gotGlobal"
        /\ \A k \in Callers \ {j, h} : pc'[k] = pc[k]
    BY <1>3, <2>1, <2>2 DEF Release, ReleaseGlobal, TypeOK
  <2>4. /\ NoRepeats(queue')
        /\ \A k : Waits(queue', k) <=> Waits(queue, k) /\ k # h
    BY <1>3, <2>3, TailQueue DEF TypeOK, Queues, QueueInv
  <2>5. ~Waits(cliQueue[Client(h)], h)
    BY <2>1 DEF Queues, WaitInv
  <2> HIDE DEF h
  <2> QED BY <1>1, <1>3, <2>1, <2>2, <2>3, <2>4, <2>5 DEF Queues, QueueInv, WaitInv
<1> QED BY <1>2, <1>3

\* The same of a client's semaphore.
LEMMA QueuesAskClient ==
  ASSUME TypeOK, Queues, NEW j \in Callers, AskClient(j)
  PROVE  Queues'
<1> DEFINE c == Client(j)
<1> USE DEF global, perCli
<1>0. c \in Clients
  BY ClientType
<1>1. ~Waits(queue, j) /\ ~Waits(cliQueue[c], j)
  BY DEF AskClient, Queues, WaitInv
<1>2. CASE cliFree[c] > 0 /\ cliQueue[c] = << >>
  <2>1. /\ queue' = queue /\ cliQueue' = cliQueue /\ free' = free
        /\ \A d \in Clients \ {c} : cliFree'[d] = cliFree[d]
        /\ pc'[j] = "gotClient" /\ \A k \in Callers \ {j} : pc'[k] = pc[k]
    BY <1>0, <1>2 DEF AskClient, TypeOK
  <2> QED BY <1>0, <1>1, <1>2, <2>1 DEF Queues, QueueInv, WaitInv
<1>3. CASE ~(cliFree[c] > 0 /\ cliQueue[c] = << >>)
  <2>1. /\ queue' = queue /\ free' = free /\ cliFree' = cliFree /\ cliFree[c] = 0
        /\ cliQueue'[c] = Append(cliQueue[c], j)
        /\ \A d \in Clients \ {c} : cliQueue'[d] = cliQueue[d]
        /\ pc'[j] = "waitClient" /\ \A k \in Callers \ {j} : pc'[k] = pc[k]
    BY <1>0, <1>3 DEF AskClient, TypeOK, Queues, WaitInv
  <2>2. cliQueue[c] \in Seq(Callers) /\ NoRepeats(cliQueue[c])
    BY <1>0 DEF TypeOK, Queues, QueueInv
  <2>3. /\ NoRepeats(cliQueue'[c])
        /\ \A k : Waits(cliQueue'[c], k) <=> Waits(cliQueue[c], k) \/ k = j
    BY <1>1, <2>1, <2>2, AppendQueue
  <2> QED BY <1>0, <1>1, <2>1, <2>3, ClientType DEF Queues, QueueInv, WaitInv
<1> QED BY <1>2, <1>3

LEMMA QueuesLeaveClient ==
  ASSUME TypeOK, Queues, NEW j \in Callers, LeaveClient(j)
  PROVE  Queues'
<1> DEFINE c == Client(j)
<1> USE DEF global, perCli
<1>0. c \in Clients
  BY ClientType
<1>1. ~Waits(queue, j)
  BY DEF LeaveClient, Queues, WaitInv
<1>2. /\ queue' = queue /\ free' = free /\ cliFree' = cliFree
      /\ cliQueue'[c] = Without(cliQueue[c], j)
      /\ \A d \in Clients \ {c} : cliQueue'[d] = cliQueue[d]
      /\ pc'[j] = "release" /\ \A k \in Callers \ {j} : pc'[k] = pc[k]
  BY <1>0 DEF LeaveClient, TypeOK
<1>3. cliQueue[c] \in Seq(Callers) /\ NoRepeats(cliQueue[c])
  BY <1>0 DEF TypeOK, Queues, QueueInv
<1>4. /\ NoRepeats(cliQueue'[c])
      /\ \A k : Waits(cliQueue'[c], k) <=> Waits(cliQueue[c], k) /\ k # j
      /\ cliQueue'[c] # << >> => cliQueue[c] # << >>
  BY <1>2, <1>3, WithoutQueue
<1> QED BY <1>0, <1>1, <1>2, <1>4, ClientType DEF Queues, QueueInv, WaitInv

LEMMA QueuesReleaseClient ==
  ASSUME TypeOK, Queues, NEW j \in Callers, ReturnClient(j) \/ Finish(j)
  PROVE  Queues'
<1> DEFINE c == Client(j)
<1> USE DEF global, perCli
<1>0. c \in Clients /\ ReleaseClient(j, "release") /\ UNCHANGED <<free, queue>>
  BY ClientType DEF ReturnClient, Finish
<1>1. /\ pc[j] \in {"gotClient", "running"}
      /\ ~Waits(queue, j) /\ ~Waits(cliQueue[c], j)
  BY DEF ReturnClient, Finish, Queues, WaitInv
<1>2. CASE cliQueue[c] = << >>
  <2>1. /\ cliQueue' = cliQueue
        /\ \A d \in Clients \ {c} : cliFree'[d] = cliFree[d]
        /\ pc'[j] = "release" /\ \A k \in Callers \ {j} : pc'[k] = pc[k]
    BY <1>0, <1>2 DEF ReleaseClient, TypeOK
  <2> QED BY <1>0, <1>1, <1>2, <2>1 DEF Queues, QueueInv, WaitInv
<1>3. CASE cliQueue[c] # << >>
  <2> DEFINE h == Head(cliQueue[c])
  <2>1. h \in Callers /\ Client(h) = c /\ pc[h] = "waitClient"
    BY <1>0, <1>3, CliHeadWaits
  <2>2. h # j
    BY <1>1, <2>1
  <2>3. /\ cliQueue'[c] = Tail(cliQueue[c]) /\ cliFree' = cliFree
        /\ \A d \in Clients \ {c} : cliQueue'[d] = cliQueue[d]
        /\ pc'[j] = "release" /\ pc'[h] = "gotClient"
        /\ \A k \in Callers \ {j, h} : pc'[k] = pc[k]
    BY <1>0, <1>3, <2>1, <2>2 DEF ReleaseClient, TypeOK
  <2>4. cliQueue[c] \in Seq(Callers) /\ NoRepeats(cliQueue[c])
    BY <1>0 DEF TypeOK, Queues, QueueInv
  <2>5. /\ NoRepeats(cliQueue'[c])
        /\ \A k : Waits(cliQueue'[c], k) <=> Waits(cliQueue[c], k) /\ k # h
    BY <1>3, <2>3, <2>4, TailQueue
  <2>6. ~Waits(queue, h)
    BY <2>1 DEF Queues, WaitInv
  <2> HIDE DEF h
  <2> QED BY <1>0, <1>1, <1>3, <2>1, <2>2, <2>3, <2>5, <2>6, ClientType
          DEF Queues, QueueInv, WaitInv
<1> QED BY <1>2, <1>3

LEMMA QueuesStep == TypeOK /\ Queues /\ [Next]_vars => Queues'
<1> SUFFICES ASSUME TypeOK, Queues, [Next]_vars PROVE Queues'
  OBVIOUS
<1> USE DEF global, perCli
<1>1. ASSUME NEW j \in Callers, Acquire(j) \/ EndContext(j) \/ Start(j) \/ RemovePending(j)
      PROVE  Queues'
  <2>1. UNCHANGED <<queue, free, cliQueue, cliFree>>
    BY <1>1 DEF Acquire, EndContext, Start, RemovePending
  <2>2. \A k \in Callers : /\ pc'[k] = "waitGlobal" <=> pc[k] = "waitGlobal"
                           /\ pc'[k] = "waitClient" <=> pc[k] = "waitClient"
    BY <1>1 DEF Acquire, EndContext, Start, RemovePending, TypeOK
  <2> QED BY <2>1, <2>2 DEF Queues, QueueInv, WaitInv
<1>2. CASE UNCHANGED vars
  BY <1>2 DEF vars, Queues, QueueInv, WaitInv
<1> QED BY <1>1, <1>2, QueuesAskGlobal, QueuesLeaveGlobal, QueuesRelease, QueuesAskClient,
           QueuesLeaveClient, QueuesReleaseClient DEF Next, Step

-----------------------------------------------------------------------------
(* Permits.                                                                *)

LEMMA HoldersFinite ==
  /\ IsFiniteSet(Holders) /\ Cardinality(Holders) \in Nat
  /\ \A c : IsFiniteSet(CliHolders(c)) /\ Cardinality(CliHolders(c)) \in Nat
<1>1. Holders \subseteq Callers /\ \A c : CliHolders(c) \subseteq Callers
  BY DEF Holders, CliHolders
<1> QED BY <1>1, SchedulerAssumption, FS_Subset, FS_CardinalityType

\* One that comes for one that goes.
LEMMA Exchange ==
  ASSUME NEW S, IsFiniteSet(S), NEW j \in S, NEW h, h \notin S
  PROVE  Cardinality((S \ {j}) \cup {h}) = Cardinality(S)
<1>1. IsFiniteSet(S \ {j}) /\ Cardinality(S \ {j}) = Cardinality(S) - 1
  BY FS_RemoveElement
<1>2. Cardinality((S \ {j}) \cup {h}) = Cardinality(S \ {j}) + 1
  BY <1>1, FS_AddElement
<1> QED BY <1>1, <1>2, FS_CardinalityType

LEMMA HeldIsNotFree ==
  ASSUME TypeOK, PermitsAccounted
  PROVE  /\ \A j \in Holders : free < GlobalLimit
         /\ \A c \in Clients : \A j \in CliHolders(c) : cliFree[c] < PerClientLimit
<1> USE SchedulerAssumption
<1>1. ASSUME NEW j \in Holders PROVE free < GlobalLimit
  <2>1. Cardinality(Holders) # 0
    BY HoldersFinite, FS_EmptySet
  <2> QED BY <2>1, HoldersFinite DEF PermitsAccounted, TypeOK
<1>2. ASSUME NEW c \in Clients, NEW j \in CliHolders(c) PROVE cliFree[c] < PerClientLimit
  <2>1. Cardinality(CliHolders(c)) # 0
    BY HoldersFinite, FS_EmptySet
  <2>2. cliFree[c] + Cardinality(CliHolders(c)) = PerClientLimit /\ cliFree[c] \in Nat
    BY DEF PermitsAccounted, TypeOK
  <2> QED BY <2>1, <2>2, HoldersFinite
<1> QED BY <1>1, <1>2

LEMMA PermitsAskGlobal ==
  ASSUME TypeOK, PermitsAccounted, NEW j \in Callers, AskGlobal(j)
  PROVE  PermitsAccounted'
<1> USE DEF perCli
<1>1. cliFree' = cliFree /\ \A c : CliHolders(c)' = CliHolders(c)
  BY DEF AskGlobal, CliHolders, TypeOK
<1>2. free' + Cardinality(Holders') = GlobalLimit
  <2>1. CASE free > 0 /\ queue = << >>
    <3>1. free' = free - 1 /\ j \notin Holders /\ Holders' = Holders \cup {j}
      BY <2>1 DEF AskGlobal, Holders, TypeOK
    <3>2. Cardinality(Holders') = Cardinality(Holders) + 1
      BY <3>1, HoldersFinite, FS_AddElement
    <3> QED BY <3>1, <3>2, HoldersFinite, SchedulerAssumption DEF PermitsAccounted, TypeOK
  <2>2. CASE ~(free > 0 /\ queue = << >>)
    <3>1. free' = free /\ Holders' = Holders
      BY <2>2 DEF AskGlobal, Holders, TypeOK
    <3> QED BY <3>1 DEF PermitsAccounted
  <2> QED BY <2>1, <2>2
<1> QED BY <1>1, <1>2 DEF PermitsAccounted

LEMMA PermitsRelease ==
  ASSUME TypeOK, Queues, PermitsAccounted, NEW j \in Callers, Release(j)
  PROVE  PermitsAccounted'
<1> USE DEF perCli
<1>1. CASE queue = << >>
  <2>1. /\ cliFree' = cliFree /\ \A c : CliHolders(c)' = CliHolders(c)
        /\ free' = free + 1 /\ j \in Holders /\ Holders' = Holders \ {j}
    BY <1>1 DEF Release, ReleaseGlobal, CliHolders, Holders, TypeOK
  <2>2. Cardinality(Holders') = Cardinality(Holders) - 1
    BY <2>1, HoldersFinite, FS_RemoveElement
  <2>3. free' + Cardinality(Holders') = GlobalLimit
    BY <2>1, <2>2, HoldersFinite, SchedulerAssumption DEF PermitsAccounted, TypeOK
  <2> QED BY <2>1, <2>3 DEF PermitsAccounted
<1>2. CASE queue # << >>
  <2> DEFINE h == Head(queue)
  <2>1. h \in Callers /\ pc[h] = "waitGlobal"
    BY <1>2, HeadWaits
  <2>2. h # j /\ cliFree' = cliFree /\ free' = free
        /\ pc' = [pc EXCEPT ![j] = "forget", ![h] = "gotGlobal"]
    BY <1>2, <2>1 DEF Release, ReleaseGlobal
  <2> HIDE DEF h
  <2>3. \A c : CliHolders(c)' = CliHolders(c)
    BY <2>1, <2>2 DEF Release, CliHolders, TypeOK
  <2>4. j \in Holders /\ h \notin Holders /\ Holders' = (Holders \ {j}) \cup {h}
    BY <2>1, <2>2 DEF Release, Holders, TypeOK
  <2>5. Cardinality(Holders') = Cardinality(Holders)
    BY <2>4, HoldersFinite, Exchange
  <2> QED BY <2>2, <2>3, <2>5 DEF PermitsAccounted
<1> QED BY <1>1, <1>2

LEMMA PermitsAskClient ==
  ASSUME TypeOK, PermitsAccounted, NEW j \in Callers, AskClient(j)
  PROVE  PermitsAccounted'
<1> USE DEF global
<1> DEFINE c == Client(j)
<1>0. c \in Clients
  BY ClientType
<1>1. free' = free /\ Holders' = Holders
  BY DEF AskClient, Holders, TypeOK
<1>2. CASE cliFree[c] > 0 /\ cliQueue[c] = << >>
  <2>1. /\ cliFree'[c] = cliFree[c] - 1
        /\ \A d \in Clients \ {c} : cliFree'[d] = cliFree[d]
        /\ j \notin CliHolders(c) /\ CliHolders(c)' = CliHolders(c) \cup {j}
        /\ \A d \in Clients \ {c} : CliHolders(d)' = CliHolders(d)
    BY <1>0, <1>2 DEF AskClient, CliHolders, TypeOK
  <2>2. Cardinality(CliHolders(c)') = Cardinality(CliHolders(c)) + 1
    BY <2>1, HoldersFinite, FS_AddElement
  <2>3. cliFree[c] \in Nat /\ cliFree[c] + Cardinality(CliHolders(c)) = PerClientLimit
    BY <1>0 DEF PermitsAccounted, TypeOK
  <2>4. cliFree'[c] + Cardinality(CliHolders(c)') = PerClientLimit
    BY <2>1, <2>2, <2>3, HoldersFinite
  <2> QED BY <1>1, <2>1, <2>4 DEF PermitsAccounted
<1>3. CASE ~(cliFree[c] > 0 /\ cliQueue[c] = << >>)
  <2>1. cliFree' = cliFree /\ \A d : CliHolders(d)' = CliHolders(d)
    BY <1>3 DEF AskClient, CliHolders, TypeOK
  <2> QED BY <1>1, <2>1 DEF PermitsAccounted
<1> QED BY <1>2, <1>3

LEMMA PermitsReleaseClient ==
  ASSUME TypeOK, Queues, PermitsAccounted, NEW j \in Callers, ReturnClient(j) \/ Finish(j)
  PROVE  PermitsAccounted'
<1> USE DEF global
<1> DEFINE c == Client(j)
<1>0. /\ c \in Clients /\ ReleaseClient(j, "release") /\ free' = free
      /\ pc[j] \in {"gotClient", "running"}
  BY ClientType DEF ReturnClient, Finish
<1>1. CASE cliQueue[c] = << >>
  <2>1. free' = free /\ Holders' = Holders
    BY <1>0, <1>1 DEF ReleaseClient, Holders, TypeOK
  <2>2. /\ cliFree'[c] = cliFree[c] + 1
        /\ \A d \in Clients \ {c} : cliFree'[d] = cliFree[d]
        /\ j \in CliHolders(c) /\ CliHolders(c)' = CliHolders(c) \ {j}
        /\ \A d \in Clients \ {c} : CliHolders(d)' = CliHolders(d)
    BY <1>0, <1>1 DEF ReleaseClient, CliHolders, TypeOK
  <2>3. Cardinality(CliHolders(c)') = Cardinality(CliHolders(c)) - 1
    BY <2>2, HoldersFinite, FS_RemoveElement
  <2>4. cliFree[c] \in Nat /\ cliFree[c] + Cardinality(CliHolders(c)) = PerClientLimit
    BY <1>0 DEF PermitsAccounted, TypeOK
  <2>5. cliFree'[c] + Cardinality(CliHolders(c)') = PerClientLimit
    BY <2>2, <2>3, <2>4, HoldersFinite
  <2> QED BY <2>1, <2>2, <2>5 DEF PermitsAccounted
<1>2. CASE cliQueue[c] # << >>
  <2> DEFINE h == Head(cliQueue[c])
  <2>1. h \in Callers /\ Client(h) = c /\ pc[h] = "waitClient"
    BY <1>0, <1>2, CliHeadWaits
  <2>2. h # j /\ cliFree' = cliFree
        /\ pc' = [pc EXCEPT ![j] = "release", ![h] = "gotClient"]
    BY <1>0, <1>2, <2>1 DEF ReleaseClient
  <2> HIDE DEF h
  <2>3. Holders' = Holders
    BY <1>0, <2>1, <2>2 DEF Holders, TypeOK
  <2>4. /\ j \in CliHolders(c) /\ h \notin CliHolders(c)
        /\ CliHolders(c)' = (CliHolders(c) \ {j}) \cup {h}
    BY <1>0, <2>1, <2>2 DEF CliHolders, TypeOK
  <2>5. \A d \in Clients \ {c} : CliHolders(d)' = CliHolders(d)
    BY <1>0, <2>1, <2>2 DEF CliHolders, TypeOK
  <2>6. Cardinality(CliHolders(c)') = Cardinality(CliHolders(c))
    BY <2>4, HoldersFinite, Exchange
  <2> QED BY <1>0, <2>2, <2>3, <2>5, <2>6 DEF PermitsAccounted
<1> QED BY <1>1, <1>2

LEMMA PermitsStep == TypeOK /\ Queues /\ PermitsAccounted /\ [Next]_vars => PermitsAccounted'
<1> SUFFICES ASSUME TypeOK, Queues, PermitsAccounted, [Next]_vars PROVE PermitsAccounted'
  OBVIOUS
<1> USE DEF global, perCli
<1>1. ASSUME NEW j \in Callers,
             \/ Acquire(j) \/ EndContext(j) \/ LeaveGlobal(j) \/ LeaveClient(j)
             \/ Start(j) \/ RemovePending(j)
      PROVE  PermitsAccounted'
  <2>1. free' = free /\ cliFree' = cliFree
    BY <1>1 DEF Acquire, EndContext, LeaveGlobal, LeaveClient, Start, RemovePending
  <2>2. Holders' = Holders
    BY <1>1 DEF Acquire, EndContext, LeaveGlobal, LeaveClient, Start, RemovePending, Holders,
                TypeOK
  <2>3. \A c : CliHolders(c)' = CliHolders(c)
    BY <1>1 DEF Acquire, EndContext, LeaveGlobal, LeaveClient, Start, RemovePending,
                CliHolders, TypeOK
  <2> QED BY <2>1, <2>2, <2>3 DEF PermitsAccounted
<1>2. CASE UNCHANGED vars
  BY <1>2 DEF vars, PermitsAccounted, Holders, CliHolders
<1> QED BY <1>1, <1>2, PermitsAskGlobal, PermitsRelease, PermitsAskClient,
           PermitsReleaseClient DEF Next, Step

-----------------------------------------------------------------------------
(* Types.  A release stays within the limit because a permit is out.       *)

LEMMA TypeInit == Init => TypeOK
  BY SchedulerAssumption DEF Init, TypeOK

LEMMA TypeGlobal ==
  ASSUME TypeOK, Queues, PermitsAccounted, NEW j \in Callers,
         AskGlobal(j) \/ LeaveGlobal(j) \/ Release(j)
  PROVE  TypeOK'
<1> USE DEF perCli
<1>0. GlobalLimit \in Nat
  BY SchedulerAssumption
<1>1. CASE AskGlobal(j)
  <2>1. /\ free' \in 0..GlobalLimit /\ queue' \in Seq(Callers)
        /\ UNCHANGED <<cancelled, pending, cliFree, cliQueue>>
    <3>1. free > 0 => free - 1 \in 0..GlobalLimit
      BY <1>0 DEF TypeOK
    <3>2. Append(queue, j) \in Seq(Callers)
      BY AppendProperties DEF TypeOK
    <3> QED BY <1>1, <3>1, <3>2 DEF AskGlobal, TypeOK
  <2>2. pc' = [pc EXCEPT ![j] = "gotGlobal"] \/ pc' = [pc EXCEPT ![j] = "waitGlobal"]
    BY <1>1 DEF AskGlobal
  <2> QED BY <2>1, <2>2 DEF TypeOK
<1>2. CASE LeaveGlobal(j)
  <2>1. queue' \in Seq(Callers)
    BY <1>2, WithoutQueue DEF LeaveGlobal, TypeOK, Queues, QueueInv
  <2> QED BY <1>2, <2>1 DEF LeaveGlobal, TypeOK
<1>3. CASE Release(j)
  <2>1. CASE queue = << >>
    <3>1. free < GlobalLimit
      BY <1>3, HeldIsNotFree DEF Release, Holders
    <3>2. free + 1 \in 0..GlobalLimit
      BY <1>0, <3>1 DEF TypeOK
    <3> QED BY <1>3, <2>1, <3>2 DEF Release, ReleaseGlobal, TypeOK
  <2>2. CASE queue # << >>
    <3>1. Head(queue) \in Callers
      BY <2>2, HeadWaits
    <3>2. Tail(queue) \in Seq(Callers)
      BY <2>2, TailQueue DEF TypeOK, Queues, QueueInv
    <3> QED BY <1>3, <2>2, <3>1, <3>2 DEF Release, ReleaseGlobal, TypeOK
  <2> QED BY <2>1, <2>2
<1> QED BY <1>1, <1>2, <1>3

LEMMA TypeClient ==
  ASSUME TypeOK, Queues, PermitsAccounted, NEW j \in Callers,
         AskClient(j) \/ LeaveClient(j) \/ ReturnClient(j) \/ Finish(j)
  PROVE  TypeOK'
<1> USE DEF global
<1> DEFINE c == Client(j)
<1>0. c \in Clients /\ PerClientLimit \in Nat
  BY ClientType, SchedulerAssumption
<1>1. cliQueue[c] \in Seq(Callers) /\ NoRepeats(cliQueue[c])
  BY <1>0 DEF TypeOK, Queues, QueueInv
<1>2. CASE AskClient(j)
  <2>1. CASE cliFree[c] > 0 /\ cliQueue[c] = << >>
    <3>1. cliFree[c] - 1 \in 0..PerClientLimit
      BY <1>0, <2>1 DEF TypeOK
    <3> QED BY <1>0, <1>2, <2>1, <3>1 DEF AskClient, TypeOK
  <2>2. CASE ~(cliFree[c] > 0 /\ cliQueue[c] = << >>)
    <3>1. Append(cliQueue[c], j) \in Seq(Callers)
      BY <1>1, AppendProperties
    <3> QED BY <1>0, <1>2, <2>2, <3>1 DEF AskClient, TypeOK
  <2> QED BY <2>1, <2>2
<1>3. CASE LeaveClient(j)
  <2>1. Without(cliQueue[c], j) \in Seq(Callers)
    BY <1>1, WithoutQueue
  <2> QED BY <1>0, <1>3, <2>1 DEF LeaveClient, TypeOK
<1>4. CASE ReturnClient(j) \/ Finish(j)
  <2>1. /\ ReleaseClient(j, "release") /\ pc[j] \in {"gotClient", "running"}
        /\ UNCHANGED <<cancelled, pending, free, queue>>
    BY <1>4 DEF ReturnClient, Finish
  <2>2. CASE cliQueue[c] = << >>
    <3>1. cliFree[c] < PerClientLimit
      BY <1>0, <2>1, HeldIsNotFree DEF CliHolders
    <3>2. cliFree[c] + 1 \in 0..PerClientLimit
      BY <1>0, <3>1 DEF TypeOK
    <3> QED BY <1>0, <2>1, <2>2, <3>2 DEF ReleaseClient, TypeOK
  <2>3. CASE cliQueue[c] # << >>
    <3>1. Head(cliQueue[c]) \in Callers /\ Tail(cliQueue[c]) \in Seq(Callers)
      BY <1>1, <2>3, TailQueue
    <3> QED BY <1>0, <2>1, <2>3, <3>1 DEF ReleaseClient, TypeOK
  <2> QED BY <2>2, <2>3
<1> QED BY <1>2, <1>3, <1>4

LEMMA TypeStep == TypeOK /\ Queues /\ PermitsAccounted /\ [Next]_vars => TypeOK'
<1> SUFFICES ASSUME TypeOK, Queues, PermitsAccounted, [Next]_vars PROVE TypeOK'
  OBVIOUS
<1>1. ASSUME NEW j \in Callers, Acquire(j) \/ EndContext(j) \/ Start(j) \/ RemovePending(j)
      PROVE  TypeOK'
  BY <1>1, ClientType DEF Acquire, EndContext, Start, RemovePending, global, perCli, TypeOK
<1>2. CASE UNCHANGED vars
  BY <1>2 DEF vars, TypeOK
<1> QED BY <1>1, <1>2, TypeGlobal, TypeClient DEF Next, Step

-----------------------------------------------------------------------------
(* Keys.  Only Acquire and removePending change who is busy.               *)

Busy == {j \in Callers : pc[j] # "idle"}

LEMMA KeysSame ==
  ASSUME OneJobPerKey, pending' = pending, Busy' = Busy
  PROVE  OneJobPerKey'
  BY DEF OneJobPerKey, Busy

LEMMA KeysStep == TypeOK /\ Queues /\ OneJobPerKey /\ [Next]_vars => OneJobPerKey'
<1> SUFFICES ASSUME TypeOK, Queues, OneJobPerKey, [Next]_vars PROVE OneJobPerKey'
  OBVIOUS
<1> USE DEF global, perCli
<1>1. ASSUME NEW j \in Callers, Acquire(j) PROVE OneJobPerKey'
  <2>1. /\ j \notin Busy /\ Busy' = Busy \cup {j}
        /\ KeyOf[j] \notin pending /\ pending' = pending \cup {KeyOf[j]}
    BY <1>1 DEF Acquire, Busy, TypeOK
  <2> QED BY <2>1 DEF OneJobPerKey, Busy
<1>2. ASSUME NEW j \in Callers, RemovePending(j) PROVE OneJobPerKey'
  <2>1. /\ j \in Busy /\ Busy' = Busy \ {j} /\ pending' = pending \ {KeyOf[j]}
    BY <1>2 DEF RemovePending, Busy, TypeOK
  <2> QED BY <2>1 DEF OneJobPerKey, Busy
<1>3. ASSUME NEW j \in Callers,
             \/ EndContext(j) \/ AskGlobal(j) \/ LeaveGlobal(j) \/ AskClient(j)
             \/ LeaveClient(j) \/ Start(j)
      PROVE  OneJobPerKey'
  <2>1. pending' = pending /\ Busy' = Busy
    BY <1>3 DEF EndContext, AskGlobal, LeaveGlobal, AskClient, LeaveClient, Start, Busy, TypeOK
  <2> QED BY <2>1, KeysSame
<1>4. ASSUME NEW j \in Callers, Release(j) PROVE OneJobPerKey'
  <2>1. pending' = pending /\ Busy' = Busy
    BY <1>4, HeadWaits DEF Release, ReleaseGlobal, Busy, TypeOK
  <2> QED BY <2>1, KeysSame
<1>5. ASSUME NEW j \in Callers, ReturnClient(j) \/ Finish(j) PROVE OneJobPerKey'
  <2>1. Client(j) \in Clients
    BY ClientType
  <2>2. pending' = pending /\ Busy' = Busy
    BY <1>5, <2>1, CliHeadWaits DEF ReturnClient, Finish, ReleaseClient, Busy, TypeOK
  <2> QED BY <2>2, KeysSame
<1>6. CASE UNCHANGED vars
  BY <1>6, KeysSame DEF vars, Busy
<1> QED BY <1>1, <1>2, <1>3, <1>4, <1>5, <1>6 DEF Next, Step

-----------------------------------------------------------------------------
(* The inductive invariant and what follows from it.                       *)

LEMMA InitIInv == Init => IInv
<1> SUFFICES ASSUME Init PROVE IInv
  OBVIOUS
<1>1. QueueInv /\ WaitInv
  BY SchedulerAssumption, ClientType DEF Init, QueueInv, WaitInv, NoRepeats, Waits
<1>2. Holders = {} /\ \A c : CliHolders(c) = {}
  BY DEF Init, Holders, CliHolders
<1>3. PermitsAccounted
  <2>1. /\ Cardinality(Holders) = 0 /\ \A c : Cardinality(CliHolders(c)) = 0
        /\ GlobalLimit + 0 = GlobalLimit /\ PerClientLimit + 0 = PerClientLimit
    BY <1>2, FS_EmptySet, SchedulerAssumption
  <2> QED BY <2>1 DEF Init, PermitsAccounted
<1>4. OneJobPerKey
  BY DEF Init, OneJobPerKey
<1> QED BY <1>1, <1>3, <1>4, TypeInit DEF IInv

LEMMA IInvStep == IInv /\ [Next]_vars => IInv'
  BY TypeStep, QueuesStep, PermitsStep, KeysStep DEF IInv, Queues

LEMMA Invariance == Spec => []IInv
  BY InitIInv, IInvStep, PTL DEF Spec

\* Every variable keeps its type; the count of a semaphore stays between zero and
\* its limit, so Release never panics with "released more than held".
THEOREM TypeCorrect == Spec => []TypeOK
<1>1. IInv => TypeOK
  BY DEF IInv
<1> QED BY <1>1, Invariance, PTL

\* Acquire's error paths and its release function put back exactly the permits
\* that were taken, wherever the context ends.
THEOREM PermitsAccountedCorrect == Spec => []PermitsAccounted
<1>1. IInv => PermitsAccounted
  BY DEF IInv
<1> QED BY <1>1, Invariance, PTL

\* A JobKey is in Scheduler.pending exactly while one caller is between Acquire
\* and removePending, and no second caller gets it.
THEOREM OneJobPerKeyCorrect == Spec => []OneJobPerKey
<1>1. IInv => OneJobPerKey
  BY DEF IInv
<1> QED BY <1>1, Invariance, PTL
=============================================================================
