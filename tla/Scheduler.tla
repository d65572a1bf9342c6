------------------------------ MODULE Scheduler -----------------------------
(***************************************************************************)
(* The job scheduler of internal/server/syncengine/scheduler.go: at most   *)
(* one job per key, at most GlobalLimit jobs in all and PerClientLimit per *)
(* client.  Callers wait for a permit of the whole, then for one of their  *)
(* client; a context that ends takes them out again at any point.          *)
(*                                                                         *)
(* golang.org/x/sync/semaphore is external: permits are handed out in the  *)
(* order of the calls, a release hands its permit to the first one that    *)
(* waits, and a caller whose context ends just as it is handed a permit    *)
(* either keeps it or gives it back.                                       *)
(***************************************************************************)
EXTENDS Naturals, Sequences, FiniteSets

CONSTANTS
    Callers,        \* goroutines that run jobs, one after another
    Keys,           \* JobKeys
    Clients,
    KeyOf,          \* the key of each caller's jobs
    ClientOf,       \* the client of each key
    GlobalLimit,
    PerClientLimit

ASSUME SchedulerAssumption ==
    /\ IsFiniteSet(Callers)
    /\ KeyOf \in [Callers -> Keys] /\ ClientOf \in [Keys -> Clients]
    /\ GlobalLimit \in Nat \ {0} /\ PerClientLimit \in Nat \ {0}

VARIABLES
    pc,         \* where each caller is
    cancelled,  \* its context has ended
    pending,    \* Scheduler.pending
    free,       \* permits of the global semaphore that nobody has
    queue,      \* those who wait for one
    cliFree,    \* the same of each client's semaphore
    cliQueue

vars == <<pc, cancelled, pending, free, queue, cliFree, cliQueue>>
global == <<free, queue>>
perCli == <<cliFree, cliQueue>>

-----------------------------------------------------------------------------
Client(j) == ClientOf[KeyOf[j]]

\* Those who hold a permit of the global semaphore, and of a client's.
Holders ==
    {j \in Callers : pc[j] \in {"gotGlobal", "waitClient", "gotClient", "running", "release"}}
CliHolders(c) == {j \in Callers : pc[j] \in {"gotClient", "running"} /\ Client(j) = c}

Init ==
    /\ pc = [j \in Callers |-> "idle"]
    /\ cancelled = [j \in Callers |-> FALSE]
    /\ pending = {}
    /\ free = GlobalLimit
    /\ queue = << >>
    /\ cliFree = [c \in Clients |-> PerClientLimit]
    /\ cliQueue = [c \in Clients |-> << >>]

\* j is in queue q, at most once, and q without it.
Waits(q, j) == \E i \in DOMAIN q : q[i] = j
Without(q, j) ==
    LET at == CHOOSE i \in DOMAIN q : q[i] = j
    IN  IF Waits(q, j)
        THEN [i \in 1..(Len(q) - 1) |-> IF i < at THEN q[i] ELSE q[i + 1]]
        ELSE q

\* semaphore.Release of the global semaphore by j, which goes on to pc "to".
ReleaseGlobal(j, to) ==
    IF queue = << >>
    THEN /\ free' = free + 1
         /\ pc' = [pc EXCEPT ![j] = to]
         /\ UNCHANGED queue
    ELSE /\ pc' = [pc EXCEPT ![j] = to, ![Head(queue)] = "gotGlobal"]
         /\ queue' = Tail(queue)
         /\ UNCHANGED free

\* semaphore.Release of the client's semaphore by j.
ReleaseClient(j, to) ==
    LET c == Client(j) IN
    IF cliQueue[c] = << >>
    THEN /\ cliFree' = [cliFree EXCEPT ![c] = @ + 1]
         /\ pc' = [pc EXCEPT ![j] = to]
         /\ UNCHANGED cliQueue
    ELSE /\ pc' = [pc EXCEPT ![j] = to, ![Head(cliQueue[c])] = "gotClient"]
         /\ cliQueue' = [cliQueue EXCEPT ![c] = Tail(@)]
         /\ UNCHANGED cliFree

-----------------------------------------------------------------------------
\* Faulty variant: a key that is pending is taken again.
AcquireDuplicate(j) ==
    /\ pc[j] = "idle"
    /\ pending' = pending \cup {KeyOf[j]}
    /\ pc' = [pc EXCEPT ![j] = "ask"]
    /\ UNCHANGED <<cancelled, global, perCli>>

\* Acquire under Scheduler.mu; a key that is pending is ErrDuplicateJob.
Acquire(j) ==
    /\ pc[j] = "idle" /\ KeyOf[j] \notin pending
    /\ pending' = pending \cup {KeyOf[j]}
    /\ pc' = [pc EXCEPT ![j] = "ask"]
    /\ UNCHANGED <<cancelled, global, perCli>>

\* The context of a call ends.
EndContext(j) ==
    /\ pc[j] # "idle" /\ ~cancelled[j]
    /\ cancelled' = [cancelled EXCEPT ![j] = TRUE]
    /\ UNCHANGED <<pc, pending, global, perCli>>

\* s.global.Acquire: a permit, or a place in the queue.
AskGlobal(j) ==
    /\ pc[j] = "ask"
    /\ IF free > 0 /\ queue = << >>
       THEN /\ free' = free - 1
            /\ pc' = [pc EXCEPT ![j] = "gotGlobal"]
            /\ UNCHANGED queue
       ELSE /\ queue' = Append(queue, j)
            /\ pc' = [pc EXCEPT ![j] = "waitGlobal"]
            /\ UNCHANGED free
    /\ UNCHANGED <<cancelled, pending, perCli>>

\* ... the context ends first: removePending.
LeaveGlobal(j) ==
    /\ pc[j] \in {"ask", "waitGlobal"} /\ cancelled[j]
    /\ queue' = Without(queue, j)
    /\ pc' = [pc EXCEPT ![j] = "forget"]
    /\ UNCHANGED <<cancelled, pending, free, perCli>>

\* cliSem.Acquire.
AskClient(j) ==
    LET c == Client(j) IN
    /\ pc[j] = "gotGlobal"
    /\ IF cliFree[c] > 0 /\ cliQueue[c] = << >>
       THEN /\ cliFree' = [cliFree EXCEPT ![c] = @ - 1]
            /\ pc' = [pc EXCEPT ![j] = "gotClient"]
            /\ UNCHANGED cliQueue
       ELSE /\ cliQueue' = [cliQueue EXCEPT ![c] = Append(@, j)]
            /\ pc' = [pc EXCEPT ![j] = "waitClient"]
            /\ UNCHANGED cliFree
    /\ UNCHANGED <<cancelled, pending, global>>

\* Faulty variant: the global permit is kept.
LeaveClientKeeps(j) ==
    /\ pc[j] \in {"gotGlobal", "waitClient"} /\ cancelled[j]
    /\ cliQueue' = [cliQueue EXCEPT ![Client(j)] = Without(@, j)]
    /\ pc' = [pc EXCEPT ![j] = "forget"]
    /\ UNCHANGED <<cancelled, pending, global, cliFree>>

\* ... the context ends first: the global permit goes back.
LeaveClient(j) ==
    /\ pc[j] \in {"gotGlobal", "waitClient"} /\ cancelled[j]
    /\ cliQueue' = [cliQueue EXCEPT ![Client(j)] = Without(@, j)]
    /\ pc' = [pc EXCEPT ![j] = "release"]
    /\ UNCHANGED <<cancelled, pending, global, cliFree>>

\* ... the context ends with the permit in hand, and it goes back too.
ReturnClient(j) ==
    /\ pc[j] = "gotClient" /\ cancelled[j]
    /\ ReleaseClient(j, "release")
    /\ UNCHANGED <<cancelled, pending, global>>

\* Acquire returns and the job runs.
Start(j) ==
    /\ pc[j] = "gotClient"
    /\ pc' = [pc EXCEPT ![j] = "running"]
    /\ UNCHANGED <<cancelled, pending, global, perCli>>

\* The release function, once: the client's permit,
Finish(j) ==
    /\ pc[j] = "running"
    /\ ReleaseClient(j, "release")
    /\ UNCHANGED <<cancelled, pending, global>>

\* Faulty variant: the global permit is put back twice.
ReleaseTwice(j) ==
    /\ pc[j] = "release"
    /\ free' = free + 2
    /\ pc' = [pc EXCEPT ![j] = "forget"]
    /\ UNCHANGED <<cancelled, pending, queue, perCli>>

\* ... the global one,
Release(j) ==
    /\ pc[j] = "release"
    /\ ReleaseGlobal(j, "forget")
    /\ UNCHANGED <<cancelled, pending, perCli>>

\* ... and removePending.
RemovePending(j) ==
    /\ pc[j] = "forget"
    /\ pending' = pending \ {KeyOf[j]}
    /\ pc' = [pc EXCEPT ![j] = "idle"]
    /\ cancelled' = [cancelled EXCEPT ![j] = FALSE]
    /\ UNCHANGED <<global, perCli>>

Step(j) ==
    \/ AskGlobal(j) \/ LeaveGlobal(j) \/ AskClient(j) \/ LeaveClient(j) \/ ReturnClient(j)
    \/ Start(j) \/ Finish(j) \/ Release(j) \/ RemovePending(j)

Next == \E j \in Callers : Acquire(j) \/ EndContext(j) \/ Step(j)

Spec == Init /\ [][Next]_vars

\* Goroutines run and jobs end; nobody has to ask or to cancel.
FairSpec == Spec /\ \A j \in Callers : WF_vars(Step(j))

-----------------------------------------------------------------------------
\* Type invariant; those in a queue are the ones that wait in it.
TypeOK ==
    /\ pc \in [Callers -> {"idle", "ask", "waitGlobal", "gotGlobal", "waitClient",
                           "gotClient", "running", "release", "forget"}]
    /\ cancelled \in [Callers -> BOOLEAN]
    /\ pending \subseteq Keys
    /\ free \in 0..GlobalLimit
    /\ queue \in Seq(Callers)
    /\ cliFree \in [Clients -> 0..PerClientLimit]
    /\ cliQueue \in [Clients -> Seq(Callers)]

\* No permit is lost and none appears: every permit is free or held, whichever
\* way the calls have ended.
PermitsAccounted ==
    /\ free + Cardinality(Holders) = GlobalLimit
    /\ \A c \in Clients : cliFree[c] + Cardinality(CliHolders(c)) = PerClientLimit

\* A key is pending exactly while one caller has it, from its Acquire to its
\* removePending: two callers never work on the same file.
OneJobPerKey ==
    LET busy == {j \in Callers : pc[j] # "idle"} IN
    /\ pending = {KeyOf[j] : j \in busy}
    /\ \A j, k \in busy : KeyOf[j] = KeyOf[k] => j = k

\* Every Acquire returns: its job runs unless its context ends, and a call whose
\* context has ended is over soon.  Callers that hold a permit of the whole and
\* wait for one of their client do not block each other for ever, and nobody
\* overtakes for ever.
AcquireReturns ==
    \A j \in Callers :
        /\ pc[j] = "ask" ~> pc[j] = "running" \/ cancelled[j]
        /\ cancelled[j] ~> pc[j] = "idle"

-----------------------------------------------------------------------------
(* The inductive invariant behind the safety properties.                   *)

\* Nobody waits twice in a queue, and only a client's own callers wait for it.
NoRepeats(q) == \A i, k \in DOMAIN q : q[i] = q[k] => i = k
QueueInv ==
    /\ NoRepeats(queue)
    /\ \A c \in Clients :
        /\ NoRepeats(cliQueue[c])
        /\ \A j \in Callers : Waits(cliQueue[c], j) => Client(j) = c

\* What the semaphore itself provides: nobody waits while it has a permit, and
\* whoever waits is in its queue.
WaitInv ==
    /\ queue # << >> => free = 0
    /\ \A c \in Clients : cliQueue[c] # << >> => cliFree[c] = 0
    /\ \A j \in Callers :
        /\ pc[j] = "waitGlobal" <=> Waits(queue, j)
        /\ pc[j] = "waitClient" <=> Waits(cliQueue[Client(j)], j)

IInv == TypeOK /\ QueueInv /\ PermitsAccounted /\ OneJobPerKey /\ WaitInv
=============================================================================
