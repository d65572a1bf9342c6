----------------------------- MODULE PairAdmin ------------------------------
(***************************************************************************)
(* One sync pair as its administrators and its two clients see it:         *)
(*   internal/server/web/pairs.go          forms, optimistic lock, requests*)
(*   internal/server/store/sqlite.go       the sync_pairs row and its etag *)
(*   internal/server/syncengine/subscriber.go  SubscribePair messages      *)
(*   internal/server/app/app.go            the publication on connect      *)
(*   internal/client/runner/subscription.go  the client's registry         *)
(*                                                                         *)
(* Every request and every onConnect callback is a goroutine, and a step   *)
(* is what it does between two calls of the store or of the hub.  What an  *)
(* administrator enters is a new revision of the pair: path, name and      *)
(* direction are not told apart.  The two clients of a pair never change:  *)
(* UpsertPair leaves their columns alone.  Ids are new UUIDs, so a pair is *)
(* created once.                                                           *)
(***************************************************************************)
EXTENDS Naturals, Sequences, FiniteSets

CONSTANTS
    Admins,       \* administrators, each with a form and a request
    Environments, \* the circumstances to consider: a set of Environment
    MaxSaves,     \* bound: revisions of the pair
    MaxConnects   \* bound: connections of each client

\* Which requests overlap, whether calls of the store may fail, and how
\* often each client connects:
\*   none      each request and each callback ends before the next begins
\*   publish   ... except that they publish at the same time as others
\*   all       anything
Environment == [overlap: {"none", "publish", "all"}, failures: BOOLEAN,
                connections: [{"a", "b"} -> 0..MaxConnects]]

ASSUME PairAdminAssumption ==
    /\ Environments \subseteq Environment
    /\ MaxSaves \in Nat /\ MaxConnects \in Nat

VARIABLES
    env,       \* the environment, fixed by Init
    row,       \* the row of the pair
    saves,     \* revisions given so far
    form,      \* the edit form that each administrator has open
    job,       \* the request of each administrator
    connects,  \* connections that each client has made
    online,    \* the client is registered in the hub
    greet,     \* the onConnect callback of each connection
    inbox,     \* SubscribePair messages on the wire
    reg        \* Registry of the client's newest runner: the revision, or 0

vars == <<env, row, saves, form, job, connects, online, greet, inbox, reg>>
clients == <<connects, online, greet, inbox, reg>>

-----------------------------------------------------------------------------
Sides == {"a", "b"}
Connects == 1..MaxConnects
Revisions == 0..MaxSaves

\* A row; revision 0 stands for no row.
Pair == [rev: Revisions, etag: Nat, enabled: BOOLEAN]
NoPair == [rev |-> 0, etag |-> 0, enabled |-> FALSE]

\* A form: the hidden etag, and the revision it shows.
Form == [rev: Revisions, etag: Nat]
NoForm == [rev |-> 0, etag |-> 0]

\* A request: what it does next, what its form says, what the row said, and
\* the revision it is publishing (0: unsubscribe).
Job == [pc: {"idle", "save", "publish", "unsubscribe", "sendA", "sendB"},
        enabled: BOOLEAN, wasEnabled: BOOLEAN, rev: Revisions]
JobAt(pc, rev) == [pc |-> pc, enabled |-> FALSE, wasEnabled |-> FALSE, rev |-> rev]
NoJob == JobAt("idle", 0)

\* An onConnect callback.
Greeting == [pc: {"idle", "list", "send"}, rev: Revisions]
NoGreeting == [pc |-> "idle", rev |-> 0]

Init ==
    /\ env \in Environments
    /\ row = NoPair
    /\ saves = 0
    /\ form = [u \in Admins |-> NoForm]
    /\ job = [u \in Admins |-> NoJob]
    /\ connects = [s \in Sides |-> 0]
    /\ online = [s \in Sides |-> FALSE]
    /\ greet = [s \in Sides |-> [k \in Connects |-> NoGreeting]]
    /\ inbox = [s \in Sides |-> << >>]
    /\ reg = [s \in Sides |-> 0]

\* No request and no callback is under way.
NoneActive ==
    /\ \A u \in Admins : job[u].pc = "idle"
    /\ \A s \in Sides, k \in Connects : greet[s][k].pc # "send"

\* A callback, or a request, may begin.
MayRead == env.overlap = "none" => NoneActive
MayBegin == MayRead /\ (env.overlap = "publish" => \A u \in Admins : job[u].pc # "save")

-----------------------------------------------------------------------------
(* The administrators.                                                     *)

\* handlePairCreate up to the publication.
Create(u, enabled) ==
    /\ job[u].pc = "idle" /\ saves = 0 /\ MaxSaves > 0 /\ MayBegin
    /\ row' = [rev |-> 1, etag |-> 0, enabled |-> enabled]
    /\ saves' = 1
    /\ job' = [job EXCEPT ![u] = JobAt("publish", 0)]
    /\ UNCHANGED <<env, form, clients>>

\* handlePairEditForm: the form carries the etag of the row it shows.
EditForm(u) ==
    /\ job[u].pc = "idle" /\ row # NoPair
    /\ form' = [form EXCEPT ![u] = [rev |-> row.rev, etag |-> row.etag]]
    /\ UNCHANGED <<env, row, saves, job, clients>>

\* handlePairCancelEdit.
CancelEdit(u) ==
    /\ job[u].pc = "idle" /\ form[u] # NoForm
    /\ form' = [form EXCEPT ![u] = NoForm]
    /\ UNCHANGED <<env, row, saves, job, clients>>

\* The etag that the form sends is the one of the row.
Matches(f, p) == f.etag = p.etag

\* handlePairUpdate up to the comparison of the etag.  Without a row (404) or
\* with another etag (412) nothing changes.
Update(u, enabled) ==
    /\ job[u].pc = "idle" /\ form[u] # NoForm /\ MayBegin
    /\ saves + Cardinality({v \in Admins : job[v].pc = "save"}) < MaxSaves
    /\ row # NoPair /\ Matches(form[u], row)
    /\ job' = [job EXCEPT ![u] = [pc |-> "save", enabled |-> enabled,
                                  wasEnabled |-> row.enabled, rev |-> 0]]
    /\ UNCHANGED <<env, row, saves, form, clients>>

\* Faulty variant: the etag of an existing row stays.
UpsertKeepsEtag(p, rev, enabled) == [rev |-> rev, etag |-> p.etag, enabled |-> enabled]

\* UpsertPair: the etag grows on a conflict; without a row it is inserted,
\* with the zero etag of the value that handlePairUpdate built.
Upsert(p, rev, enabled) ==
    [rev |-> rev, etag |-> IF p = NoPair THEN 0 ELSE p.etag + 1, enabled |-> enabled]

\* Faulty variant: disabling a pair is not published.
PublicationEnabledOnly(enabled, wasEnabled) ==
    JobAt(IF enabled THEN "publish" ELSE "idle", 0)

\* What handlePairUpdate publishes after the save.
Publication(enabled, wasEnabled) ==
    JobAt(IF enabled THEN "publish" ELSE IF wasEnabled THEN "unsubscribe" ELSE "idle", 0)

\* handlePairUpdate: the save.
UpsertPair(u) ==
    /\ job[u].pc = "save"
    /\ row' = Upsert(row, saves + 1, job[u].enabled)
    /\ saves' = saves + 1
    /\ form' = [form EXCEPT ![u] = NoForm]
    /\ job' = [job EXCEPT ![u] = Publication(@.enabled, @.wasEnabled)]
    /\ UNCHANGED <<env, clients>>

\* handlePairDelete up to the publication.
DeletePair(u) ==
    /\ job[u].pc = "idle" /\ saves > 0 /\ MayBegin
    /\ row' = NoPair
    /\ job' = [job EXCEPT ![u] = JobAt("unsubscribe", 0)]
    /\ UNCHANGED <<env, saves, form, clients>>

\* PublishPairUpdate reads the pair again.
PublishPairUpdate(u) ==
    /\ job[u].pc = "publish"
    /\ job' = [job EXCEPT ![u] =
                  IF row = NoPair THEN NoJob
                  ELSE IF ~row.enabled THEN JobAt("unsubscribe", 0)
                  ELSE JobAt("sendA", row.rev)]
    /\ UNCHANGED <<env, row, saves, form, clients>>

\* PublishPairUnsubscribe reads it too, for the ids of the clients.
PublishPairUnsubscribe(u) ==
    /\ job[u].pc = "unsubscribe"
    /\ job' = [job EXCEPT ![u] =
                  IF row = NoPair THEN NoJob ELSE JobAt("sendA", 0)]
    /\ UNCHANGED <<env, row, saves, form, clients>>

\* A call of the store fails: the request answers 500 or logs the error.
StoreFails(u) ==
    /\ env.failures
    /\ job[u].pc \in {"save", "publish", "unsubscribe"}
    /\ job' = [job EXCEPT ![u] = NoJob]
    /\ UNCHANGED <<env, row, saves, form, clients>>

\* A message for side s goes to the connection the client has now; without
\* one the error is logged.
Deliver(s, rev) ==
    inbox' = IF online[s] THEN [inbox EXCEPT ![s] = Append(@, rev)] ELSE inbox

\* The publications send to client A, then to client B.
Send(u) ==
    /\ \/ /\ job[u].pc = "sendA" /\ Deliver("a", job[u].rev)
          /\ job' = [job EXCEPT ![u] = JobAt("sendB", job[u].rev)]
       \/ /\ job[u].pc = "sendB" /\ Deliver("b", job[u].rev)
          /\ job' = [job EXCEPT ![u] = NoJob]
    /\ UNCHANGED <<env, row, saves, form, connects, online, greet, reg>>

-----------------------------------------------------------------------------
(* The clients.                                                            *)

\* The client registers, with a new runner; Register starts its callback.
Connect(s) ==
    /\ ~online[s] /\ connects[s] < env.connections[s]
    /\ online' = [online EXCEPT ![s] = TRUE]
    /\ connects' = [connects EXCEPT ![s] = @ + 1]
    /\ greet' = [greet EXCEPT ![s][connects[s] + 1] = [pc |-> "list", rev |-> 0]]
    /\ reg' = [reg EXCEPT ![s] = 0]
    /\ UNCHANGED <<env, row, saves, form, job, inbox>>

\* Faulty variant: what was on the old wire comes over the new one.
DisconnectKeepsInbox(s) ==
    /\ online[s]
    /\ online' = [online EXCEPT ![s] = FALSE]
    /\ UNCHANGED <<env, row, saves, form, job, connects, greet, inbox, reg>>

\* The connection breaks, with what is on the wire.  The callback goes on: its
\* context is not the connection's.
Disconnect(s) ==
    /\ online[s]
    /\ online' = [online EXCEPT ![s] = FALSE]
    /\ inbox' = [inbox EXCEPT ![s] = << >>]
    /\ UNCHANGED <<env, row, saves, form, job, connects, greet, reg>>

\* PublishSubscriptions lists the client's pairs and skips disabled ones; an
\* error of the store is logged.
PublishSubscriptions(s, k) ==
    /\ greet[s][k].pc = "list" /\ MayRead
    /\ \/ greet' = [greet EXCEPT ![s][k] =
                       IF row.enabled THEN [pc |-> "send", rev |-> row.rev] ELSE NoGreeting]
       \/ /\ env.failures
          /\ greet' = [greet EXCEPT ![s][k] = NoGreeting]
    /\ UNCHANGED <<env, row, saves, form, job, connects, online, inbox, reg>>

SendSubscribe(s, k) ==
    /\ greet[s][k].pc = "send"
    /\ Deliver(s, greet[s][k].rev)
    /\ greet' = [greet EXCEPT ![s][k] = NoGreeting]
    /\ UNCHANGED <<env, row, saves, form, job, connects, online, reg>>

\* Registry.Apply: an empty direction removes the subscription.
Apply(s) ==
    /\ inbox[s] # << >>
    /\ reg' = [reg EXCEPT ![s] = Head(inbox[s])]
    /\ inbox' = [inbox EXCEPT ![s] = Tail(@)]
    /\ UNCHANGED <<env, row, saves, form, job, connects, online, greet>>

Request(u) ==
    \/ \E enabled \in BOOLEAN : Create(u, enabled) \/ Update(u, enabled)
    \/ EditForm(u) \/ CancelEdit(u) \/ UpsertPair(u) \/ DeletePair(u)
    \/ PublishPairUpdate(u) \/ PublishPairUnsubscribe(u) \/ Send(u) \/ StoreFails(u)

Client(s) ==
    \/ Connect(s) \/ Disconnect(s) \/ Apply(s)
    \/ \E k \in Connects : PublishSubscriptions(s, k) \/ SendSubscribe(s, k)

Next == (\E u \in Admins : Request(u)) \/ (\E s \in Sides : Client(s))

Spec == Init /\ [][Next]_vars

-----------------------------------------------------------------------------
\* Type invariant; a wire exists only while the client is online.
TypeOK ==
    /\ env \in Environments
    /\ row \in Pair /\ (row.rev = 0 => row = NoPair)
    /\ saves \in Revisions
    /\ form \in [Admins -> Form]
    /\ job \in [Admins -> Job]
    /\ connects \in [Sides -> 0..MaxConnects]
    /\ online \in [Sides -> BOOLEAN]
    /\ greet \in [Sides -> [Connects -> Greeting]]
    /\ inbox \in [Sides -> Seq(Revisions)]
    /\ reg \in [Sides -> Revisions]
    /\ \A s \in Sides : ~online[s] => inbox[s] = << >>

\* No request compares the etag or saves while another is in between.
Isolated == \A e \in Environments : e.overlap # "all"

\* The optimistic lock of the pair form (spec.md:87): an update goes through
\* only if the pair is still the one the administrator was looking at, and a
\* deleted pair does not come back.
Register == INSTANCE OptimisticRegister
                WITH Users <- Admins, current <- row.rev, latest <- saves,
                     seen <- [u \in Admins |-> form[u].rev]

NoLostUpdate == Register!Spec

\* Nothing is on its way to the clients.
Settled ==
    /\ NoneActive
    /\ \A s \in Sides :
        /\ inbox[s] = << >>
        /\ \A k \in Connects : greet[s][k].pc = "idle"

\* The subscription that the clients should have.
Wanted == IF row.enabled THEN row.rev ELSE 0

\* The clients that are online have the subscription of the pair as it is
\* stored, however publications, reconnections and lost messages follow each
\* other, as long as publications do not overlap (subscriber.go:37-39).
SubscriptionsAgree ==
    env.overlap = "none" /\ ~env.failures /\ Settled /\ row # NoPair
        => \A s \in Sides : online[s] => reg[s] = Wanted
-----------------------------------------------------------------------------
(* The inductive invariant behind SubscriptionsAgree (PairAdminProofs).    *)

\* Each request and each callback ends before the next begins.
InTurnInv ==
    /\ \A u, v \in Admins : job[u].pc # "idle" /\ job[v].pc # "idle" => u = v
    /\ \A s \in Sides, k \in Connects : greet[s][k].pc = "send" =>
        \A u \in Admins : job[u].pc = "idle"

\* What a request or a callback has read is still what is stored.
CurrentInv ==
    /\ \A u \in Admins :
        /\ job[u].pc \in {"sendA", "sendB"} => job[u].rev = Wanted
        /\ job[u].pc = "unsubscribe" => ~row.enabled
        /\ job[u].pc = "save" => (job[u].wasEnabled <=> row.enabled)
    /\ \A s \in Sides, k \in Connects : greet[s][k].pc = "send" =>
        row.enabled /\ greet[s][k].rev = row.rev

\* The subscription that the client of side s has when its wire is empty.
Latest(s) == IF inbox[s] = << >> THEN reg[s] ELSE inbox[s][Len(inbox[s])]

\* A request, or a callback, is going to send side s what it should have.
WillSend(s) ==
    \/ \E u \in Admins : \/ job[u].pc \in {"publish", "unsubscribe", "sendA"}
                         \/ job[u].pc = "sendB" /\ s = "b"
    \/ row.enabled /\ \E k \in Connects : greet[s][k].pc \in {"list", "send"}

DueInv ==
    row # NoPair => \A s \in Sides : online[s] => Latest(s) = Wanted \/ WillSend(s)

SubscriptionInv ==
    env.overlap = "none" /\ ~env.failures => InTurnInv /\ CurrentInv /\ DueInv
=============================================================================
