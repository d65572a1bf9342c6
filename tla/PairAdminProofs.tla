-------------------------- MODULE PairAdminProofs ---------------------------
(***************************************************************************)
(* The pair form's etag implements the optimistic lock, for any number of  *)
(* administrators, revisions and connections, as long as no two requests   *)
(* are between their comparison and their save at the same time.           *)
(*                                                                         *)
(* The etag alone does not tell revisions apart: that the forms of a row   *)
(* carry smaller etags than it, or the same and then its revision, is the  *)
(* strengthening EtagsAgree; that a request about to save still has the    *)
(* row it compared is Guarded.                                             *)
(*                                                                         *)
(* When publications do not overlap either, clients that are online end    *)
(* with the subscription that is stored (SubscriptionInv of PairAdmin).    *)
(***************************************************************************)
EXTENDS PairAdmin, FiniteSetTheorems, SequenceTheorems, TLAPS

\* Revisions are given in order, 0 stands for none.
RevisionsGiven ==
    /\ row.rev <= saves
    /\ \A u \in Admins : form[u].rev <= saves
    /\ \A u \in Admins : form[u].rev = 0 => form[u] = NoForm

\* The requests about to save; the bound has a revision for each of them.
Saving == {u \in Admins : job[u].pc = "save"}

SavingBounded ==
    /\ IsFiniteSet(Saving) /\ saves + Cardinality(Saving) <= MaxSaves
    /\ Saving # {} => saves > 0

\* What holds in every environment.
TypedInv == TypeOK /\ RevisionsGiven /\ SavingBounded

\* The forms that are open on the row.
EtagsAgree ==
    row.rev # 0 =>
        \A u \in Admins : form[u].rev # 0 =>
            /\ form[u].etag <= row.etag
            /\ form[u].etag = row.etag => form[u].rev = row.rev

\* A request about to save has the row it compared, and is alone.
Guarded ==
    \A u \in Admins : job[u].pc = "save" =>
        /\ row.rev # 0 /\ form[u].rev = row.rev
        /\ \A v \in Admins : job[v].pc = "save" => v = u

Inv == TypedInv /\ EtagsAgree /\ Guarded

-----------------------------------------------------------------------------
\* Initially nothing is stored, open or under way.
LEMMA InitInv == Init => Inv
<1> SUFFICES ASSUME Init PROVE Inv
  OBVIOUS
<1> USE PairAdminAssumption DEF NoJob, JobAt
<1>1. TypeOK
  BY DEF Init, TypeOK, Pair, NoPair, Form, NoForm, Job, Greeting, NoGreeting,
         Revisions, Sides
<1>2. RevisionsGiven /\ EtagsAgree /\ Guarded
  BY DEF Init, RevisionsGiven, EtagsAgree, Guarded, NoPair, NoForm
<1>3. SavingBounded
  <2>1. Saving = {} /\ saves = 0
    BY DEF Init, Saving
  <2> QED BY <2>1, FS_EmptySet DEF SavingBounded
<1> QED
  BY <1>1, <1>2, <1>3 DEF Inv, TypedInv

\* A request begins only when none is about to save.
LEMMA NoneSavingAtBegin ==
    ASSUME TypeOK, env.overlap # "all", MayBegin
    PROVE  \A u \in Admins : job[u].pc # "save"
<1>1. env.overlap \in {"none", "publish"}
  BY PairAdminAssumption DEF TypeOK, Environment
<1>2. CASE env.overlap = "none"
  BY <1>2 DEF MayBegin, MayRead, NoneActive
<1>3. CASE env.overlap = "publish"
  BY <1>3 DEF MayBegin
<1> QED
  BY <1>1, <1>2, <1>3

\* A message to a client keeps the wires what they are.
LEMMA DeliverType ==
    ASSUME TypeOK, NEW s \in Sides, NEW rev \in Revisions, Deliver(s, rev)
    PROVE  /\ inbox' \in [Sides -> Seq(Revisions)]
           /\ \A t \in Sides : ~online[t] => inbox'[t] = << >>
BY DEF TypeOK, Deliver

-----------------------------------------------------------------------------
\* A request that is not about to save, or no longer.
LEMMA LeavesSaving ==
    ASSUME TypedInv, NEW u \in Admins, NEW j, j.pc # "save",
           job' = [job EXCEPT ![u] = j]
    PROVE  /\ Saving' = Saving \ {u}
           /\ saves' = saves => SavingBounded'
<1>1. job \in [Admins -> Job] /\ saves \in Nat /\ IsFiniteSet(Saving)
  BY PairAdminAssumption DEF TypedInv, TypeOK, SavingBounded, Revisions
<1>2. Saving' = Saving \ {u}
  BY <1>1 DEF Saving
<1>3. ASSUME saves' = saves PROVE SavingBounded'
  <2>1. /\ IsFiniteSet(Saving \ {u}) /\ Cardinality(Saving \ {u}) \in Nat
        /\ Cardinality(Saving) \in Nat
        /\ Cardinality(Saving \ {u}) <= Cardinality(Saving)
    <3>1. Cardinality(Saving) \in Nat
      BY <1>1, FS_CardinalityType
    <3>2. IsFiniteSet(Saving \ {u}) /\ Cardinality(Saving \ {u}) \in Nat
      BY <1>1, FS_RemoveElement, FS_CardinalityType
    <3>3. Cardinality(Saving \ {u}) <= Cardinality(Saving)
      BY <1>1, FS_Subset
    <3> QED BY <3>1, <3>2, <3>3
  <2>2. saves + Cardinality(Saving) <= MaxSaves /\ (Saving # {} => saves > 0)
    BY DEF TypedInv, SavingBounded
  <2>3. saves + Cardinality(Saving \ {u}) <= MaxSaves
    BY <1>1, <2>1, <2>2, PairAdminAssumption
  <2> QED BY <1>2, <1>3, <2>1, <2>2, <2>3 DEF SavingBounded
<1> QED BY <1>2, <1>3

\* A request that is going to save, and one that does, have their revision.
LEMMA SavingSteps ==
    ASSUME TypedInv, NEW u \in Admins
    PROVE  /\ UpsertPair(u) => saves < MaxSaves /\ SavingBounded'
           /\ \A e \in BOOLEAN : Update(u, e) => SavingBounded'
<1> DEFINE n == Cardinality(Saving)
<1>1. /\ job \in [Admins -> Job] /\ saves \in Nat /\ IsFiniteSet(Saving) /\ n \in Nat
      /\ saves + n <= MaxSaves /\ (Saving # {} => saves > 0) /\ MaxSaves \in Nat
  BY PairAdminAssumption, FS_CardinalityType
     DEF TypedInv, TypeOK, SavingBounded, Revisions
<1>2. ASSUME UpsertPair(u) PROVE saves < MaxSaves /\ SavingBounded'
  <2>1. u \in Saving
    BY <1>2 DEF UpsertPair, Saving
  <2>2. PICK j : j.pc # "save" /\ job' = [job EXCEPT ![u] = j]
    <3> DEFINE j == Publication(job[u].enabled, job[u].wasEnabled)
    <3>1. j.pc # "save"
      BY DEF Publication, JobAt
    <3>2. job' = [job EXCEPT ![u] = j]
      BY <1>2 DEF UpsertPair
    <3> QED BY <3>1, <3>2
  <2>3. Saving' = Saving \ {u}
    BY <2>2, LeavesSaving
  <2>4. IsFiniteSet(Saving \ {u}) /\ Cardinality(Saving \ {u}) = n - 1 /\ n # 0
    BY <1>1, <2>1, FS_RemoveElement, FS_EmptySet
  <2>5. saves' = saves + 1
    BY <1>2 DEF UpsertPair
  <2> HIDE DEF n
  <2> QED BY <1>1, <2>3, <2>4, <2>5 DEF SavingBounded
<1>3. ASSUME NEW e \in BOOLEAN, Update(u, e) PROVE SavingBounded'
  <2>1. /\ job[u].pc = "idle" /\ saves' = saves /\ row # NoPair
        /\ saves + n < MaxSaves
    BY <1>3 DEF Update, Saving
  <2>2. Saving' = Saving \cup {u} /\ u \notin Saving
    BY <1>1, <1>3 DEF Update, Saving
  <2>3. IsFiniteSet(Saving \cup {u}) /\ Cardinality(Saving \cup {u}) = n + 1
    BY <1>1, <2>2, FS_AddElement
  <2>4. saves > 0
    BY <1>1, <2>1 DEF TypedInv, TypeOK, RevisionsGiven, Pair, Revisions
  <2> HIDE DEF n
  <2> QED BY <1>1, <2>1, <2>2, <2>3, <2>4 DEF SavingBounded
<1> QED BY <1>2, <1>3

\* Every request of an administrator keeps what holds in every environment.
LEMMA RequestTyped ==
    ASSUME TypedInv, NEW u \in Admins, Request(u)
    PROVE  TypedInv'
<1> USE DEF Revisions, NoJob, JobAt
<1>t. TypeOK /\ RevisionsGiven /\ SavingBounded
  BY DEF TypedInv
<1>j. job[u] \in Job /\ row \in Pair /\ form[u] \in Form /\ saves \in Nat
  BY PairAdminAssumption, <1>t DEF TypeOK
<1>1. ASSUME NEW e \in BOOLEAN, Create(u, e) PROVE TypedInv'
  <2>1. TypeOK'
    BY <1>1, <1>t, PairAdminAssumption DEF Create, TypeOK, clients, Pair, Job, NoPair
  <2>2. RevisionsGiven'
    BY <1>1, <1>t DEF Create, RevisionsGiven, TypeOK, Form, NoForm
  <2>3. SavingBounded'
    <3>1. Saving = {} /\ saves' = 1 /\ MaxSaves > 0
      BY <1>1, <1>t, <1>j DEF Create, SavingBounded
    <3>2. Saving' = {}
      BY <1>1, <1>t, <3>1 DEF Create, Saving, TypeOK
    <3> QED BY <3>1, <3>2, FS_EmptySet, PairAdminAssumption DEF SavingBounded
  <2> QED BY <2>1, <2>2, <2>3 DEF TypedInv
<1>2. CASE EditForm(u)
  <2>1. TypeOK'
    BY <1>2, <1>t, <1>j DEF EditForm, TypeOK, clients, Pair, Form
  <2>2. RevisionsGiven'
    BY <1>2, <1>t, <1>j DEF EditForm, RevisionsGiven, TypeOK, Form, Pair, NoForm, NoPair
  <2>3. SavingBounded'
    BY <1>2, <1>t DEF EditForm, SavingBounded, Saving
  <2> QED BY <2>1, <2>2, <2>3 DEF TypedInv
<1>3. CASE CancelEdit(u)
  <2>1. TypeOK'
    BY <1>3, <1>t, <1>j, PairAdminAssumption DEF CancelEdit, TypeOK, clients, Form, NoForm
  <2>2. RevisionsGiven'
    BY <1>3, <1>t, <1>j DEF CancelEdit, RevisionsGiven, TypeOK, Form, NoForm
  <2>3. SavingBounded'
    BY <1>3, <1>t DEF CancelEdit, SavingBounded, Saving
  <2> QED BY <2>1, <2>2, <2>3 DEF TypedInv
<1>4. ASSUME NEW e \in BOOLEAN, Update(u, e) PROVE TypedInv'
  <2>1. TypeOK'
    BY <1>4, <1>t, <1>j, PairAdminAssumption DEF Update, TypeOK, clients, Pair, Job
  <2>2. RevisionsGiven'
    BY <1>4, <1>t DEF Update, RevisionsGiven
  <2> QED BY <1>4, <2>1, <2>2, SavingSteps DEF TypedInv
<1>5. CASE UpsertPair(u)
  <2>1. saves < MaxSaves /\ SavingBounded'
    BY <1>5, SavingSteps
  <2>2. row'.rev = saves + 1 /\ row' \in Pair /\ saves' = saves + 1
    <3>1. row' = Upsert(row, saves + 1, job[u].enabled) /\ saves' = saves + 1
      BY <1>5 DEF UpsertPair
    <3> QED BY <2>1, <3>1, <1>j, PairAdminAssumption DEF Upsert, Pair, Job
  <2>3. TypeOK'
    <3>1. saves' \in Revisions /\ row'.rev # 0
      BY <2>1, <2>2, <1>j, PairAdminAssumption
    <3>2. form' \in [Admins -> Form]
      BY <1>5, <1>t, PairAdminAssumption DEF UpsertPair, TypeOK, Form, NoForm
    <3>3. job' \in [Admins -> Job]
      BY <1>5, <1>t, PairAdminAssumption DEF UpsertPair, TypeOK, Job, Publication
    <3> QED BY <1>5, <1>t, <2>2, <3>1, <3>2, <3>3 DEF UpsertPair, TypeOK, clients
  <2>4. RevisionsGiven'
    BY <1>5, <1>t, <1>j, <2>2 DEF UpsertPair, RevisionsGiven, TypeOK, Form, NoForm
  <2> QED BY <2>1, <2>3, <2>4 DEF TypedInv
<1>6. CASE DeletePair(u)
  <2>1. TypeOK'
    BY <1>6, <1>t, PairAdminAssumption DEF DeletePair, TypeOK, clients, Pair, Job, NoPair
  <2>2. RevisionsGiven'
    BY <1>6, <1>t, <1>j DEF DeletePair, RevisionsGiven, NoPair
  <2>3. job' = [job EXCEPT ![u] = JobAt("unsubscribe", 0)] /\ saves' = saves
    BY <1>6 DEF DeletePair
  <2>4. SavingBounded'
    BY <2>3, LeavesSaving
  <2> QED BY <2>1, <2>2, <2>4 DEF TypedInv
<1>7. ASSUME NEW j \in Job, j.pc # "save", job' = [job EXCEPT ![u] = j],
             UNCHANGED <<env, row, saves, form, connects, online, greet, reg>>,
             inbox' \in [Sides -> Seq(Revisions)],
             \A t \in Sides : ~online[t] => inbox'[t] = << >>
      PROVE  TypedInv'
  <2>1. job' \in [Admins -> Job]
    BY <1>7, <1>t DEF TypeOK
  <2>2. TypeOK' /\ RevisionsGiven'
    BY <1>7, <1>t, <2>1 DEF TypeOK, RevisionsGiven
  <2>3. SavingBounded'
    BY <1>7, LeavesSaving
  <2> QED BY <2>2, <2>3 DEF TypedInv
<1>8. CASE PublishPairUpdate(u) \/ PublishPairUnsubscribe(u) \/ StoreFails(u)
  <2>1. \A rev \in Revisions, pc \in {"idle", "unsubscribe", "sendA"} :
            JobAt(pc, rev) \in Job /\ JobAt(pc, rev).pc # "save"
    BY DEF Job
  <2>2. row.rev \in Revisions /\ 0 \in Revisions
    BY <1>j, PairAdminAssumption DEF Pair
  <2>3. PICK j \in Job : j.pc # "save" /\ job' = [job EXCEPT ![u] = j]
    <3>1. CASE PublishPairUpdate(u)
      BY <3>1, <2>1, <2>2 DEF PublishPairUpdate
    <3>2. CASE PublishPairUnsubscribe(u)
      BY <3>2, <2>1, <2>2 DEF PublishPairUnsubscribe
    <3>3. CASE StoreFails(u)
      BY <3>3, <2>1, <2>2 DEF StoreFails
    <3> QED BY <1>8, <3>1, <3>2, <3>3
  <2>4. UNCHANGED <<env, row, saves, form, connects, online, greet, inbox, reg>>
    BY <1>8 DEF PublishPairUpdate, PublishPairUnsubscribe, StoreFails, clients
  <2> QED BY <1>7, <1>t, <2>3, <2>4 DEF TypeOK
<1>9. CASE Send(u)
  <2>1. job[u].rev \in Revisions
    BY <1>j DEF Job
  <2>2. /\ inbox' \in [Sides -> Seq(Revisions)]
        /\ \A t \in Sides : ~online[t] => inbox'[t] = << >>
    <3>1. CASE Deliver("a", job[u].rev)
      BY <3>1, <2>1, <1>t, DeliverType DEF Sides
    <3>2. CASE Deliver("b", job[u].rev)
      BY <3>2, <2>1, <1>t, DeliverType DEF Sides
    <3> QED BY <1>9, <3>1, <3>2 DEF Send
  <2>3. PICK j \in Job : j.pc # "save" /\ job' = [job EXCEPT ![u] = j]
    <3>1. JobAt("sendB", job[u].rev) \in Job /\ NoJob \in Job
      BY <2>1, PairAdminAssumption DEF Job
    <3> QED BY <1>9, <3>1 DEF Send
  <2>4. UNCHANGED <<env, row, saves, form, connects, online, greet, reg>>
    BY <1>9 DEF Send
  <2> QED BY <1>7, <2>2, <2>3, <2>4
<1> QED
  BY <1>1, <1>2, <1>3, <1>4, <1>5, <1>6, <1>8, <1>9 DEF Request

\* So do the clients and the callbacks, which leave requests alone.
LEMMA ClientTyped ==
    ASSUME TypedInv, NEW s \in Sides, Client(s)
    PROVE  TypedInv' /\ UNCHANGED <<env, row, saves, form, job>>
<1> USE DEF Revisions
<1>t. TypeOK
  BY DEF TypedInv
<1>k. UNCHANGED <<env, row, saves, form, job>>
  BY DEF Client, Connect, Disconnect, Apply, PublishSubscriptions, SendSubscribe
<1>g. ASSUME NEW k \in Connects, NEW g \in Greeting, greet' = [greet EXCEPT ![s][k] = g]
      PROVE  greet' \in [Sides -> [Connects -> Greeting]]
  BY <1>g, <1>t DEF TypeOK
<1>0. NoGreeting \in Greeting
  BY PairAdminAssumption DEF Greeting, NoGreeting
<1>4. ASSUME NEW k \in Connects, PublishSubscriptions(s, k) PROVE TypeOK'
  <2>1. [pc |-> "send", rev |-> row.rev] \in Greeting
    BY <1>t DEF TypeOK, Greeting, Pair
  <2>2. greet' \in [Sides -> [Connects -> Greeting]]
    BY <1>4, <2>1, <1>0, <1>g DEF PublishSubscriptions
  <2> QED BY <1>4, <1>t, <1>k, <2>2 DEF PublishSubscriptions, TypeOK
<1>5. ASSUME NEW k \in Connects, SendSubscribe(s, k) PROVE TypeOK'
  <2>1. greet[s][k].rev \in Revisions
    BY <1>t DEF TypeOK, Greeting
  <2>2. /\ inbox' \in [Sides -> Seq(Revisions)]
        /\ \A t \in Sides : ~online[t] => inbox'[t] = << >>
    BY <1>5, <2>1, <1>t, DeliverType DEF SendSubscribe
  <2>3. greet' \in [Sides -> [Connects -> Greeting]]
    BY <1>5, <1>0, <1>g DEF SendSubscribe
  <2> QED BY <1>5, <1>t, <1>k, <2>2, <2>3 DEF SendSubscribe, TypeOK
<1>6. TypeOK'
  <2>1. CASE Connect(s)
    <3>1. connects[s] + 1 \in Connects
      <4>1. env.connections[s] \in 0..MaxConnects
        BY <1>t, PairAdminAssumption DEF TypeOK, Environment, Sides
      <4>2. connects[s] \in 0..MaxConnects /\ connects[s] < env.connections[s]
        BY <2>1, <1>t DEF Connect, TypeOK
      <4> QED BY <4>1, <4>2, PairAdminAssumption DEF Connects
    <3>2. [pc |-> "list", rev |-> 0] \in Greeting
      BY PairAdminAssumption DEF Greeting
    <3>3. greet' \in [Sides -> [Connects -> Greeting]]
      BY <2>1, <3>1, <3>2, <1>g DEF Connect
    <3>4. connects' \in [Sides -> 0..MaxConnects]
      BY <2>1, <3>1, <1>t, PairAdminAssumption DEF Connect, TypeOK, Connects
    <3>5. online' \in [Sides -> BOOLEAN] /\ reg' \in [Sides -> Revisions]
      BY <2>1, <1>t, PairAdminAssumption DEF Connect, TypeOK
    <3>6. inbox' = inbox /\ \A t \in Sides : ~online'[t] => inbox[t] = << >>
      BY <2>1, <1>t DEF Connect, TypeOK
    <3> QED BY <1>t, <1>k, <3>3, <3>4, <3>5, <3>6 DEF TypeOK
  <2>2. CASE Disconnect(s)
    BY <2>2, <1>t, <1>k DEF Disconnect, TypeOK
  <2>3. CASE Apply(s)
    <3>1. inbox[s] \in Seq(Revisions) /\ inbox[s] # << >>
      BY <2>3, <1>t DEF Apply, TypeOK
    <3>2. Head(inbox[s]) \in Revisions /\ Tail(inbox[s]) \in Seq(Revisions)
      BY <3>1, HeadTailProperties
    <3>3. inbox' \in [Sides -> Seq(Revisions)] /\ reg' \in [Sides -> Revisions]
      BY <2>3, <3>2, <1>t DEF Apply, TypeOK
    <3>4. \A t \in Sides : ~online[t] => inbox'[t] = << >>
      BY <2>3, <3>1, <1>t DEF Apply, TypeOK
    <3> QED BY <2>3, <1>t, <1>k, <3>3, <3>4 DEF Apply, TypeOK
  <2> QED BY <2>1, <2>2, <2>3, <1>4, <1>5 DEF Client
<1> QED
  BY <1>6, <1>k DEF TypedInv, RevisionsGiven, SavingBounded, Saving

\* Every step keeps what holds in every environment.
LEMMA StepTyped ==
    ASSUME TypedInv, [Next]_vars
    PROVE  TypedInv'
<1>1. CASE UNCHANGED vars
  BY <1>1 DEF TypedInv, vars, TypeOK, RevisionsGiven, SavingBounded, Saving
<1>2. CASE Next
  BY <1>2, RequestTyped, ClientTyped DEF Next
<1> QED
  BY <1>1, <1>2

\* The variables keep their types, the revisions stay within their bound however
\* the updates overlap, and a wire is empty while its client is offline
\* (Disconnect of the hub drops what was not delivered).
THEOREM TypeCorrect == Spec => []TypeOK
<1>1. Init => TypedInv
  BY InitInv DEF Inv
<1>2. TypedInv => TypeOK
  BY DEF TypedInv
<1> QED
  BY <1>1, <1>2, StepTyped, PTL DEF Spec

-----------------------------------------------------------------------------
\* What only sends or receives does not touch the row and the forms, and a job
\* that is not about to save stays so.
LEMMA OthersKeepLock ==
    ASSUME Inv, UNCHANGED <<row, form>>,
           \A u \in Admins : job'[u].pc = "save" => job[u].pc = "save"
    PROVE  (EtagsAgree /\ Guarded)'
BY DEF Inv, EtagsAgree, Guarded

\* When no two requests are between comparison and save, every request keeps
\* the lock.
LEMMA RequestLock ==
    ASSUME Inv, env.overlap # "all", NEW u \in Admins, Request(u)
    PROVE  (EtagsAgree /\ Guarded)'
<1> USE DEF NoJob, JobAt
<1>t. TypeOK /\ RevisionsGiven
  BY DEF Inv, TypedInv
<1>j. job[u] \in Job /\ row \in Pair /\ form[u] \in Form /\ saves \in Nat
  BY PairAdminAssumption, <1>t DEF TypeOK, Revisions
<1>1. ASSUME NEW e \in BOOLEAN, Create(u, e) PROVE (EtagsAgree /\ Guarded)'
  <2>1. \A v \in Admins : job[v].pc # "save"
    BY <1>1, <1>t, NoneSavingAtBegin DEF Create
  <2>2. \A v \in Admins : form[v].rev = 0
    BY <1>1, <1>t DEF Create, RevisionsGiven, TypeOK, Form, Revisions
  <2>3. UNCHANGED form /\ job' = [job EXCEPT ![u] = JobAt("publish", 0)]
    BY <1>1 DEF Create
  <2> QED BY <1>t, <2>1, <2>2, <2>3 DEF EtagsAgree, Guarded, TypeOK
<1>2. CASE EditForm(u)
  BY <1>2, <1>t, <1>j DEF Inv, EditForm, clients, EtagsAgree, Guarded, TypeOK, Form, Pair
<1>3. CASE CancelEdit(u)
  BY <1>3, <1>t, <1>j DEF Inv, CancelEdit, clients, EtagsAgree, Guarded, TypeOK, Form,
                          NoForm
<1>4. ASSUME NEW e \in BOOLEAN, Update(u, e) PROVE (EtagsAgree /\ Guarded)'
  <2>1. \A v \in Admins : job[v].pc # "save"
    BY <1>4, <1>t, NoneSavingAtBegin DEF Update
  <2>2. row.rev # 0 /\ form[u].rev = row.rev
    BY <1>4, <1>t, <1>j DEF Inv, Update, Matches, TypeOK, RevisionsGiven, EtagsAgree
  <2>3. EtagsAgree'
    BY <1>4 DEF Inv, Update, EtagsAgree
  <2>4. Guarded'
    BY <1>4, <1>t, <2>1, <2>2 DEF Update, Guarded, TypeOK
  <2> QED BY <2>3, <2>4
<1>5. CASE UpsertPair(u)
  <2>1. /\ row.rev # 0 /\ form[u].rev = row.rev
        /\ \A v \in Admins : v # u => job[v].pc # "save"
    BY <1>5 DEF Inv, Guarded, UpsertPair
  <2>2. row' = [rev |-> saves + 1, etag |-> row.etag + 1, enabled |-> job[u].enabled]
    BY <1>5, <2>1 DEF UpsertPair, Upsert, NoPair
  <2>3. job'[u].pc # "save" /\ \A v \in Admins : v # u => job'[v] = job[v]
    BY <1>5, <1>t DEF UpsertPair, Publication, TypeOK
  <2>4. EtagsAgree'
    <3> SUFFICES ASSUME NEW v \in Admins, form'[v].rev # 0
                 PROVE  form'[v].etag < row'.etag
      BY <1>5, <1>t, <2>2, <1>j DEF EtagsAgree, UpsertPair, TypeOK, Form, NoForm, Pair
    <3>1. v # u /\ form'[v] = form[v]
      BY <1>5, <1>t DEF UpsertPair, TypeOK, NoForm
    <3>2. form[v].etag <= row.etag
      BY <2>1, <3>1 DEF Inv, EtagsAgree
    <3> QED BY <3>1, <3>2, <2>2, <1>j, <1>t DEF TypeOK, Form, Pair
  <2>5. Guarded'
    BY <2>1, <2>3 DEF Guarded
  <2> QED BY <2>4, <2>5
<1>6. CASE DeletePair(u)
  <2>1. \A v \in Admins : job[v].pc # "save"
    BY <1>6, <1>t, NoneSavingAtBegin DEF DeletePair
  <2> QED BY <1>6, <1>t, <2>1 DEF DeletePair, EtagsAgree, Guarded, TypeOK, NoPair
<1>7. CASE \/ PublishPairUpdate(u) \/ PublishPairUnsubscribe(u)
           \/ StoreFails(u) \/ Send(u)
  <2>1. UNCHANGED <<row, form>>
    BY <1>7 DEF PublishPairUpdate, PublishPairUnsubscribe, StoreFails, Send
  <2>2. \A v \in Admins : job'[v].pc = "save" => job[v].pc = "save"
    BY <1>7, <1>t DEF PublishPairUpdate, PublishPairUnsubscribe, StoreFails, Send, TypeOK
  <2> QED BY <2>1, <2>2, OthersKeepLock
<1> QED
  BY <1>1, <1>2, <1>3, <1>4, <1>5, <1>6, <1>7 DEF Request

\* The invariant of the lock is inductive where requests do not overlap so.
LEMMA StepInv ==
    ASSUME Inv, env.overlap # "all", [Next]_vars
    PROVE  Inv'
<1>1. TypedInv'
  BY StepTyped DEF Inv
<1>2. (EtagsAgree /\ Guarded)'
  <2>1. CASE UNCHANGED vars
    BY <2>1 DEF Inv, vars, EtagsAgree, Guarded
  <2>2. ASSUME NEW s \in Sides, Client(s) PROVE (EtagsAgree /\ Guarded)'
    BY <2>2, ClientTyped, OthersKeepLock DEF Inv
  <2>3. CASE Next
    BY <2>2, <2>3, RequestLock DEF Next
  <2> QED BY <2>1, <2>3
<1> QED
  BY <1>1, <1>2 DEF Inv

-----------------------------------------------------------------------------
\* Every step of an administrator is a step of the register, or none.
LEMMA RequestImplements ==
    ASSUME Inv, Inv', NEW u \in Admins, Request(u)
    PROVE  [Register!Next]_(Register!vars)
<1> USE DEF Register!vars
<1>t. TypeOK /\ form \in [Admins -> Form]
  BY DEF Inv, TypedInv, TypeOK
<1>1. ASSUME NEW e \in BOOLEAN, Create(u, e) PROVE Register!Create
  BY <1>1 DEF Create, Register!Create
<1>2. CASE EditForm(u)
  <2>1. row.rev # 0
    BY <1>2, <1>t DEF EditForm, TypeOK
  <2>2. Register!Look(u)
    BY <1>2, <2>1, <1>t DEF EditForm, Register!Look
  <2> QED BY <2>2 DEF Register!Next
<1>3. CASE CancelEdit(u)
  <2>1. Register!GiveUp(u)
    BY <1>3, <1>t DEF CancelEdit, Register!GiveUp, NoForm
  <2> QED BY <2>1 DEF Register!Next
<1>4. CASE UpsertPair(u)
  <2>1. row.rev # 0 /\ form[u].rev = row.rev
    BY <1>4 DEF Inv, Guarded, UpsertPair
  <2>2. Register!Save(u)
    BY <1>4, <2>1, <1>t DEF UpsertPair, Upsert, Register!Save, NoForm
  <2> QED BY <2>2 DEF Register!Next
<1>5. CASE DeletePair(u)
  BY <1>5 DEF DeletePair, NoPair, Register!Next, Register!Delete
<1>6. ASSUME UNCHANGED <<row, saves, form>>
      PROVE  UNCHANGED Register!vars
  BY <1>6
<1> QED
  BY <1>1, <1>2, <1>3, <1>4, <1>5, <1>6
     DEF Request, Update, PublishPairUpdate, PublishPairUnsubscribe, StoreFails, Send,
         Register!Next

\* Every step implements a step of the register.
LEMMA StepImplements ==
    ASSUME Inv, Inv', [Next]_vars
    PROVE  [Register!Next]_(Register!vars)
<1>1. CASE UNCHANGED vars
  BY <1>1 DEF vars, Register!vars
<1>2. ASSUME NEW s \in Sides, Client(s) PROVE UNCHANGED Register!vars
  BY <1>2 DEF Client, Connect, Disconnect, Apply, PublishSubscriptions, SendSubscribe,
              Register!vars
<1>3. CASE Next
  BY <1>2, <1>3, RequestImplements DEF Next
<1> QED
  BY <1>1, <1>3

\* The etag of handlePairUpdate implements the optimistic lock of spec.md:87 as
\* long as no two requests are between their comparison and their save.
THEOREM NoLostUpdateCorrect ==
    ASSUME Isolated
    PROVE  Spec => NoLostUpdate
<1>1. Init => Register!Init
  BY DEF Init, Register!Init, NoPair, NoForm
<1>2. Inv /\ [Next]_vars => Inv'
  BY StepInv DEF Inv, TypedInv, TypeOK, Isolated
<1>3. Inv /\ Inv' /\ [Next]_vars => [Register!Next]_(Register!vars)
  BY StepImplements
<1> QED
  BY <1>1, <1>2, <1>3, InitInv, PTL DEF Spec, NoLostUpdate, Register!Spec
-----------------------------------------------------------------------------
(* Subscriptions.                                                          *)

\* The circumstances that SubscriptionsAgree is about.
Orderly == env.overlap = "none" /\ ~env.failures

LEMMA InitSubscription == Init => SubscriptionInv
<1> SUFFICES ASSUME Init PROVE InTurnInv /\ CurrentInv /\ DueInv
  BY DEF SubscriptionInv
<1>1. (\A u \in Admins : job[u].pc = "idle") /\ row = NoPair
  BY DEF Init, NoJob, JobAt
<1>2. \A s \in Sides, k \in Connects : greet[s][k].pc = "idle"
  BY DEF Init, NoGreeting
<1> QED BY <1>1, <1>2 DEF InTurnInv, CurrentInv, DueInv

\* What an added message, and the next one taken, make of the latest.
LEMMA LatestFacts ==
    ASSUME NEW q \in Seq(Revisions), NEW m \in Revisions
    PROVE  /\ Append(q, m) # << >> /\ Append(q, m)[Len(Append(q, m))] = m
           /\ q # << >> /\ Tail(q) = << >> => q[Len(q)] = Head(q)
           /\ q # << >> /\ Tail(q) # << >> => Tail(q)[Len(Tail(q))] = q[Len(q)]
<1>1. Append(q, m) # << >> /\ Append(q, m)[Len(Append(q, m))] = m
  BY AppendProperties
<1> DEFINE tl == Tail(q)
<1>2. q # << >> => /\ Head(q) = q[1] /\ tl \in Seq(Revisions) /\ Len(q) \in Nat \ {0}
                   /\ Len(tl) = Len(q) - 1
                   /\ \A i \in 1..Len(tl) : tl[i] = q[i + 1]
  BY HeadTailProperties, EmptySeq
<1> HIDE DEF tl
<1>3. ASSUME q # << >>, tl = << >> PROVE q[Len(q)] = Head(q)
  <2>1. Len(tl) = 0
    BY <1>3
  <2>2. Len(q) = 1
    BY <1>2, <1>3, <2>1
  <2> QED BY <1>2, <1>3, <2>2
<1>4. ASSUME q # << >>, tl # << >> PROVE tl[Len(tl)] = q[Len(q)]
  <2>1. Len(tl) \in 1..Len(tl) /\ Len(tl) + 1 = Len(q)
    BY <1>2, <1>4, EmptySeq
  <2> QED BY <1>2, <1>4, <2>1
<1> QED BY <1>1, <1>3, <1>4 DEF tl

\* After a message to side s, online, it is the latest there.
LEMMA DeliverLatest ==
    ASSUME TypeOK, NEW s \in Sides, NEW rev \in Revisions, Deliver(s, rev), reg' = reg
    PROVE  /\ online[s] => Latest(s)' = rev
           /\ \A t \in Sides \ {s} : Latest(t)' = Latest(t)
<1>1. inbox \in [Sides -> Seq(Revisions)]
  BY DEF TypeOK
<1>2. ASSUME online[s] PROVE Latest(s)' = rev
  <2>1. inbox'[s] = Append(inbox[s], rev)
    BY <1>1, <1>2 DEF Deliver
  <2>2. inbox'[s] # << >> /\ inbox'[s][Len(inbox'[s])] = rev
    BY <1>1, <2>1, LatestFacts
  <2> QED BY <2>2 DEF Latest
<1>3. \A t \in Sides \ {s} : inbox'[t] = inbox[t]
  BY <1>1 DEF Deliver
<1> QED BY <1>2, <1>3 DEF Latest

\* A request that begins, or goes on, when the others are idle.
LEMMA InTurnRequest ==
    ASSUME TypeOK, InTurnInv, NEW u \in Admins, UNCHANGED greet,
           NEW j, job' = [job EXCEPT ![u] = j],
           NoneActive \/ job[u].pc # "idle"
    PROVE  /\ InTurnInv'
           /\ \A v \in Admins : v # u => job[v].pc = "idle" /\ job'[v] = job[v]
           /\ job'[u] = j
           /\ \A s \in Sides, k \in Connects : greet[s][k].pc # "send"
<1>1. \A v \in Admins : v # u => job[v].pc = "idle"
  BY DEF InTurnInv, NoneActive
<1>2. \A s \in Sides, k \in Connects : greet[s][k].pc # "send"
  BY DEF InTurnInv, NoneActive
<1>3. job'[u] = j /\ \A v \in Admins : v # u => job'[v] = job[v]
  BY DEF TypeOK
<1> QED BY <1>1, <1>2, <1>3 DEF InTurnInv

LEMMA RequestSubscription ==
    ASSUME Inv, SubscriptionInv, Orderly, NEW u \in Admins, Request(u)
    PROVE  (InTurnInv /\ CurrentInv /\ DueInv)'
<1> USE DEF JobAt, NoJob
<1>t. TypeOK /\ InTurnInv /\ CurrentInv /\ DueInv /\ job[u] \in Job /\ row \in Pair
  BY DEF Inv, TypedInv, SubscriptionInv, Orderly, TypeOK
<1>m. MayBegin => NoneActive
  BY DEF MayBegin, MayRead, Orderly
<1>1. ASSUME NEW e \in BOOLEAN, Create(u, e) PROVE (InTurnInv /\ CurrentInv /\ DueInv)'
  <2> DEFINE j == JobAt("publish", 0)
  <2>1. /\ job' = [job EXCEPT ![u] = j] /\ NoneActive /\ UNCHANGED <<greet, online>>
    BY <1>1, <1>m DEF Create, clients
  <2>2. /\ InTurnInv' /\ job'[u] = j
        /\ \A v \in Admins : v # u => job[v].pc = "idle" /\ job'[v] = job[v]
        /\ \A s \in Sides, k \in Connects : greet[s][k].pc # "send"
    BY <1>t, <2>1, InTurnRequest
  <2>3. CurrentInv'
    BY <2>1, <2>2 DEF CurrentInv
  <2>4. DueInv'
    BY <2>2 DEF DueInv, WillSend
  <2> QED BY <2>2, <2>3, <2>4
<1>2. CASE EditForm(u) \/ CancelEdit(u)
  BY <1>2, <1>t DEF EditForm, CancelEdit, clients, InTurnInv, CurrentInv, DueInv, Wanted,
                    Latest, WillSend
<1>3. ASSUME NEW e \in BOOLEAN, Update(u, e) PROVE (InTurnInv /\ CurrentInv /\ DueInv)'
  <2> DEFINE j == [pc |-> "save", enabled |-> e, wasEnabled |-> row.enabled, rev |-> 0]
  <2>1. /\ job' = [job EXCEPT ![u] = j] /\ NoneActive
        /\ UNCHANGED <<row, online, greet, inbox, reg>>
    BY <1>3, <1>m DEF Update, clients
  <2>2. /\ InTurnInv' /\ job'[u] = j
        /\ \A v \in Admins : v # u => job[v].pc = "idle" /\ job'[v] = job[v]
        /\ \A s \in Sides, k \in Connects : greet[s][k].pc # "send"
    BY <1>t, <2>1, InTurnRequest
  <2>3. CurrentInv'
    BY <2>1, <2>2 DEF CurrentInv
  <2>4. DueInv'
    BY <1>t, <2>1, <2>2 DEF DueInv, WillSend, NoneActive, Latest, Wanted
  <2> QED BY <2>2, <2>3, <2>4
<1>4. CASE UpsertPair(u)
  <2> DEFINE j == Publication(job[u].enabled, job[u].wasEnabled)
  <2>1. /\ job' = [job EXCEPT ![u] = j] /\ job[u].pc = "save"
        /\ row'.enabled = job[u].enabled
        /\ UNCHANGED <<online, greet, inbox, reg>>
    BY <1>4 DEF UpsertPair, Upsert, clients
  <2>2. /\ InTurnInv' /\ job'[u] = j
        /\ \A v \in Admins : v # u => job[v].pc = "idle" /\ job'[v] = job[v]
        /\ \A s \in Sides, k \in Connects : greet[s][k].pc # "send"
    BY <1>t, <2>1, InTurnRequest
  <2>3. /\ row # NoPair /\ job[u].enabled \in BOOLEAN /\ row.enabled \in BOOLEAN
        /\ job[u].wasEnabled <=> row.enabled
    BY <1>t, <2>1 DEF Inv, Guarded, NoPair, CurrentInv, Job, Pair
  <2>4. CASE job[u].enabled
    <3>1. j.pc = "publish"
      BY <2>4 DEF Publication
    <3>2. CurrentInv'
      BY <2>1, <2>2, <3>1 DEF CurrentInv
    <3>3. DueInv'
      BY <2>2, <3>1 DEF DueInv, WillSend
    <3> QED BY <2>2, <3>2, <3>3
  <2>5. CASE ~job[u].enabled /\ row.enabled
    <3>1. j.pc = "unsubscribe" /\ ~row'.enabled
      BY <2>1, <2>3, <2>5 DEF Publication
    <3>2. CurrentInv'
      BY <2>1, <2>2, <3>1 DEF CurrentInv
    <3>3. DueInv'
      BY <2>2, <3>1 DEF DueInv, WillSend
    <3> QED BY <2>2, <3>2, <3>3
  <2>6. CASE ~job[u].enabled /\ ~row.enabled
    <3>1. j.pc = "idle" /\ ~row'.enabled
      BY <2>1, <2>3, <2>6 DEF Publication
    <3>2. CurrentInv'
      BY <2>1, <2>2, <3>1 DEF CurrentInv
    <3>3. \A s \in Sides : ~WillSend(s)
      BY <2>1, <2>2, <2>6 DEF WillSend
    <3>4. \A s \in Sides : online[s] => Latest(s) = 0
      BY <1>t, <2>3, <2>6, <3>3 DEF DueInv, Wanted
    <3>5. DueInv'
      BY <2>1, <3>1, <3>4 DEF DueInv, Wanted, Latest
    <3> QED BY <2>2, <3>2, <3>5
  <2> QED BY <2>3, <2>4, <2>5, <2>6
<1>5. CASE DeletePair(u)
  <2> DEFINE j == JobAt("unsubscribe", 0)
  <2>1. /\ job' = [job EXCEPT ![u] = j] /\ NoneActive /\ row' = NoPair /\ UNCHANGED greet
    BY <1>5, <1>m DEF DeletePair, clients
  <2>2. /\ InTurnInv' /\ job'[u] = j
        /\ \A v \in Admins : v # u => job[v].pc = "idle" /\ job'[v] = job[v]
        /\ \A s \in Sides, k \in Connects : greet[s][k].pc # "send"
    BY <1>t, <2>1, InTurnRequest
  <2>3. CurrentInv' /\ DueInv'
    BY <2>1, <2>2 DEF CurrentInv, DueInv, NoPair
  <2> QED BY <2>2, <2>3
<1>6. CASE PublishPairUpdate(u) \/ PublishPairUnsubscribe(u)
  <2>1. PICK j : /\ job' = [job EXCEPT ![u] = j]
                 /\ \/ row = NoPair /\ j.pc = "idle"
                    \/ row # NoPair /\ ~row.enabled /\ j.pc = "unsubscribe"
                    \/ row # NoPair /\ j.pc = "sendA" /\ j.rev = Wanted
    <3>1. CASE PublishPairUpdate(u)
      <4> DEFINE j == IF row = NoPair THEN NoJob
                      ELSE IF ~row.enabled THEN JobAt("unsubscribe", 0)
                      ELSE JobAt("sendA", row.rev)
      <4>1. job' = [job EXCEPT ![u] = j]
        BY <3>1 DEF PublishPairUpdate
      <4>2. \/ row = NoPair /\ j.pc = "idle"
            \/ row # NoPair /\ ~row.enabled /\ j.pc = "unsubscribe"
            \/ row # NoPair /\ j.pc = "sendA" /\ j.rev = Wanted
        BY DEF Wanted
      <4> QED BY <4>1, <4>2
    <3>2. CASE PublishPairUnsubscribe(u)
      <4> DEFINE j == IF row = NoPair THEN NoJob ELSE JobAt("sendA", 0)
      <4>1. job' = [job EXCEPT ![u] = j] /\ job[u].pc = "unsubscribe"
        BY <3>2 DEF PublishPairUnsubscribe
      <4>2. ~row.enabled
        BY <1>t, <4>1 DEF CurrentInv
      <4>3. \/ row = NoPair /\ j.pc = "idle"
            \/ row # NoPair /\ j.pc = "sendA" /\ j.rev = Wanted
        BY <4>2 DEF Wanted
      <4> QED BY <4>1, <4>3
    <3> QED BY <1>6, <3>1, <3>2
  <2>2. UNCHANGED <<row, online, greet, inbox, reg>> /\ job[u].pc # "idle"
    BY <1>6 DEF PublishPairUpdate, PublishPairUnsubscribe, clients
  <2>3. /\ InTurnInv' /\ job'[u] = j
        /\ \A v \in Admins : v # u => job[v].pc = "idle" /\ job'[v] = job[v]
        /\ \A s \in Sides, k \in Connects : greet[s][k].pc # "send"
    BY <1>t, <2>1, <2>2, InTurnRequest
  <2>4. CurrentInv'
    BY <2>1, <2>2, <2>3 DEF CurrentInv, Wanted
  <2>5. DueInv'
    BY <2>1, <2>2, <2>3 DEF DueInv, WillSend
  <2> QED BY <2>3, <2>4, <2>5
<1>7. CASE Send(u)
  <2>1. /\ UNCHANGED <<row, online, greet, reg>>
        /\ job[u].rev \in Revisions /\ job[u].rev = Wanted
        /\ "a" \in Sides /\ "b" \in Sides /\ Sides = {"a", "b"}
    BY <1>7, <1>t DEF Send, Job, CurrentInv, Sides
  <2>2. CASE /\ job[u].pc = "sendA" /\ Deliver("a", job[u].rev)
             /\ job' = [job EXCEPT ![u] = JobAt("sendB", job[u].rev)]
    <3> DEFINE j == JobAt("sendB", job[u].rev)
    <3>1. /\ InTurnInv' /\ job'[u] = j
          /\ \A v \in Admins : v # u => job[v].pc = "idle" /\ job'[v] = job[v]
          /\ \A s \in Sides, k \in Connects : greet[s][k].pc # "send"
      BY <1>t, <2>1, <2>2, InTurnRequest
    <3>2. CurrentInv'
      BY <2>1, <3>1 DEF CurrentInv, Wanted
    <3>3. online["a"] => Latest("a")' = Wanted
      BY <1>t, <2>1, <2>2, DeliverLatest
    <3>4. DueInv'
      BY <2>1, <3>1, <3>3 DEF DueInv, WillSend, Wanted
    <3> QED BY <3>1, <3>2, <3>4
  <2>3. CASE /\ job[u].pc = "sendB" /\ Deliver("b", job[u].rev)
             /\ job' = [job EXCEPT ![u] = NoJob]
    <3>1. /\ InTurnInv' /\ job'[u] = NoJob
          /\ \A v \in Admins : v # u => job[v].pc = "idle" /\ job'[v] = job[v]
          /\ \A s \in Sides, k \in Connects : greet[s][k].pc # "send"
      BY <1>t, <2>1, <2>3, InTurnRequest
    <3>2. CurrentInv'
      BY <2>1, <3>1 DEF CurrentInv, Wanted
    <3>3. (online["b"] => Latest("b")' = Wanted) /\ Latest("a")' = Latest("a")
      BY <1>t, <2>1, <2>3, DeliverLatest
    <3>4. row # NoPair /\ online["a"]
             => \/ Latest("a") = Wanted
                \/ row.enabled /\ \E k \in Connects : greet["a"][k].pc \in {"list", "send"}
      BY <1>t, <2>1, <2>3, <3>1 DEF DueInv, WillSend
    <3>5. DueInv'
      BY <2>1, <3>1, <3>3, <3>4 DEF DueInv, WillSend, Wanted
    <3> QED BY <3>1, <3>2, <3>5
  <2> QED BY <1>7, <2>2, <2>3 DEF Send
<1>8. ~StoreFails(u)
  BY DEF StoreFails, Orderly
<1> QED BY <1>1, <1>2, <1>3, <1>4, <1>5, <1>6, <1>7, <1>8 DEF Request

\* The steps of the clients and of the onConnect callbacks.
LEMMA ClientSubscription ==
    ASSUME Inv, SubscriptionInv, Orderly, NEW s \in Sides, Client(s)
    PROVE  (InTurnInv /\ CurrentInv /\ DueInv)'
<1>t. /\ TypeOK /\ InTurnInv /\ CurrentInv /\ DueInv
      /\ greet \in [Sides -> [Connects -> Greeting]] /\ online \in [Sides -> BOOLEAN]
      /\ inbox \in [Sides -> Seq(Revisions)] /\ reg \in [Sides -> Revisions]
      /\ row \in Pair
  BY DEF Inv, TypedInv, SubscriptionInv, Orderly, TypeOK
<1>1. CASE Connect(s)
  <2> DEFINE n == connects[s] + 1
  <2>1. n \in Connects
    <3>1. env.connections[s] \in 0..MaxConnects /\ connects[s] \in 0..MaxConnects
      BY <1>t, PairAdminAssumption DEF TypeOK, Environment, Sides
    <3> QED BY <1>1, <3>1, PairAdminAssumption DEF Connect, Connects
  <2> HIDE DEF n
  <2>2. UNCHANGED <<row, job, inbox>>
    BY <1>1 DEF Connect
  <2>3. /\ greet'[s][n].pc = "list"
        /\ \A t \in Sides, k \in Connects :
              t # s \/ k # n => greet'[t][k] = greet[t][k]
    BY <1>1, <1>t, <2>1 DEF Connect, n
  <2>4. \A t \in Sides, k \in Connects : greet'[t][k].pc = "send" =>
            greet[t][k].pc = "send" /\ greet'[t][k].rev = greet[t][k].rev
    BY <2>3
  <2>5. InTurnInv' /\ CurrentInv'
    BY <1>t, <2>2, <2>4 DEF InTurnInv, CurrentInv, Wanted
  <2>6. Latest(s)' = 0 /\ (row.enabled => WillSend(s)')
    <3>1. inbox[s] = << >> /\ reg'[s] = 0
      BY <1>1, <1>t DEF Connect, TypeOK
    <3> QED BY <2>1, <2>2, <2>3, <3>1 DEF Latest, WillSend
  <2>7. \A t \in Sides \ {s} : /\ online'[t] = online[t] /\ Latest(t)' = Latest(t)
                               /\ WillSend(t) => WillSend(t)'
    BY <1>1, <1>t, <2>2, <2>3 DEF Connect, Latest, WillSend
  <2>8. DueInv'
    BY <1>t, <2>2, <2>6, <2>7 DEF DueInv, Wanted
  <2> QED BY <2>5, <2>8
<1>2. CASE Disconnect(s)
  <2>1. UNCHANGED <<row, job, greet, reg>> /\ ~online'[s]
    BY <1>2, <1>t DEF Disconnect
  <2>2. InTurnInv' /\ CurrentInv'
    BY <1>t, <2>1 DEF InTurnInv, CurrentInv, Wanted
  <2>3. \A t \in Sides \ {s} : online'[t] = online[t] /\ inbox'[t] = inbox[t]
    BY <1>2, <1>t DEF Disconnect
  <2>4. DueInv'
    BY <1>t, <2>1, <2>3 DEF DueInv, Wanted, WillSend, Latest
  <2> QED BY <2>2, <2>4
<1>3. CASE Apply(s)
  <2>1. UNCHANGED <<row, job, greet, online>>
    BY <1>3 DEF Apply
  <2>2. InTurnInv' /\ CurrentInv'
    BY <1>t, <2>1 DEF InTurnInv, CurrentInv, Wanted
  <2>3. Latest(s)' = Latest(s)
    <3> DEFINE q == inbox[s]
               tl == Tail(q)
    <3>1. /\ q # << >> /\ q \in Seq(Revisions) /\ inbox'[s] = tl /\ reg'[s] = Head(q)
          /\ 0 \in Revisions
      BY <1>3, <1>t, PairAdminAssumption DEF Apply, Revisions
    <3>2. /\ tl = << >> => q[Len(q)] = Head(q)
          /\ tl # << >> => tl[Len(tl)] = q[Len(q)]
      BY <3>1, LatestFacts
    <3> HIDE DEF tl
    <3> QED BY <3>1, <3>2 DEF Latest
  <2>4. \A t \in Sides \ {s} : inbox'[t] = inbox[t] /\ reg'[t] = reg[t]
    BY <1>3, <1>t DEF Apply
  <2>5. \A t \in Sides : Latest(t)' = Latest(t)
    BY <2>3, <2>4 DEF Latest
  <2>6. DueInv'
    BY <1>t, <2>1, <2>5 DEF DueInv, Wanted, WillSend
  <2> QED BY <2>2, <2>6
<1>4. ASSUME NEW k \in Connects, PublishSubscriptions(s, k)
      PROVE  (InTurnInv /\ CurrentInv /\ DueInv)'
  <2> DEFINE g == IF row.enabled THEN [pc |-> "send", rev |-> row.rev] ELSE NoGreeting
  <2>1. /\ UNCHANGED <<row, job, online, inbox, reg>>
        /\ greet' = [greet EXCEPT ![s][k] = g]
        /\ \A u \in Admins : job[u].pc = "idle"
    BY <1>4 DEF PublishSubscriptions, MayRead, NoneActive, Orderly
  <2>2. /\ greet'[s][k] = g
        /\ \A t \in Sides, l \in Connects : t # s \/ l # k => greet'[t][l] = greet[t][l]
    BY <1>t, <2>1
  <2>3. /\ row.enabled => g.pc = "send" /\ g.rev = row.rev
        /\ ~row.enabled => g.pc = "idle"
    BY DEF NoGreeting
  <2> HIDE DEF g
  <2>4. InTurnInv'
    BY <1>t, <2>1 DEF InTurnInv
  <2>5. CurrentInv'
    BY <1>t, <2>1, <2>2, <2>3 DEF CurrentInv, Wanted
  <2>6. \A t \in Sides : WillSend(t) => WillSend(t)'
    BY <2>1, <2>2, <2>3 DEF WillSend
  <2>7. DueInv'
    BY <1>t, <2>1, <2>6 DEF DueInv, Wanted, Latest
  <2> QED BY <2>4, <2>5, <2>7
<1>5. ASSUME NEW k \in Connects, SendSubscribe(s, k)
      PROVE  (InTurnInv /\ CurrentInv /\ DueInv)'
  <2>1. /\ UNCHANGED <<row, job, online, reg>>
        /\ greet[s][k].pc = "send" /\ Deliver(s, greet[s][k].rev)
        /\ greet' = [greet EXCEPT ![s][k] = NoGreeting]
    BY <1>5 DEF SendSubscribe
  <2>2. /\ greet'[s][k].pc = "idle"
        /\ \A t \in Sides, l \in Connects : t # s \/ l # k => greet'[t][l] = greet[t][l]
    BY <1>t, <2>1 DEF NoGreeting
  <2>3. greet[s][k].rev \in Revisions /\ greet[s][k].rev = Wanted
    BY <1>t, <2>1 DEF CurrentInv, Wanted, Greeting
  <2>4. /\ online[s] => Latest(s)' = Wanted
        /\ \A t \in Sides \ {s} : Latest(t)' = Latest(t)
    BY <1>t, <2>1, <2>3, DeliverLatest
  <2>5. InTurnInv' /\ CurrentInv'
    BY <1>t, <2>1, <2>2 DEF InTurnInv, CurrentInv, Wanted
  <2>6. \A t \in Sides \ {s} : WillSend(t) => WillSend(t)'
    BY <2>1, <2>2 DEF WillSend
  <2>7. DueInv'
    BY <1>t, <2>1, <2>4, <2>6 DEF DueInv, Wanted
  <2> QED BY <2>5, <2>7
<1> QED BY <1>1, <1>2, <1>3, <1>4, <1>5 DEF Client

\* Every step keeps the invariant behind SubscriptionsAgree.
LEMMA StepSubscription ==
    ASSUME Inv, SubscriptionInv, [Next]_vars
    PROVE  SubscriptionInv'
<1> SUFFICES ASSUME Orderly' PROVE (InTurnInv /\ CurrentInv /\ DueInv)'
  BY DEF SubscriptionInv, Orderly
<1>1. CASE UNCHANGED vars
  <2>1. Orderly /\ InTurnInv /\ CurrentInv /\ DueInv
    BY <1>1 DEF vars, Orderly, SubscriptionInv
  <2> QED
    BY <1>1, <2>1 DEF vars, InTurnInv, CurrentInv, DueInv, Wanted, Latest, WillSend
<1>2. ASSUME NEW u \in Admins, Request(u) PROVE (InTurnInv /\ CurrentInv /\ DueInv)'
  <2>1. env' = env
    BY <1>2 DEF Request, Create, Update, EditForm, CancelEdit, UpsertPair, DeletePair,
                PublishPairUpdate, PublishPairUnsubscribe, Send, StoreFails
  <2> QED BY <1>2, <2>1, RequestSubscription DEF Orderly
<1>3. ASSUME NEW s \in Sides, Client(s) PROVE (InTurnInv /\ CurrentInv /\ DueInv)'
  <2>1. env' = env
    BY <1>3 DEF Client, Connect, Disconnect, Apply, PublishSubscriptions, SendSubscribe
  <2> QED BY <1>3, <2>1, ClientSubscription DEF Orderly
<1> QED BY <1>1, <1>2, <1>3 DEF Next

\* When nothing is on its way the latest subscription is the registered one.
LEMMA SettledSubscription ==
    ASSUME SubscriptionInv
    PROVE  SubscriptionsAgree
<1> SUFFICES ASSUME Orderly, Settled, row # NoPair, NEW s \in Sides, online[s]
             PROVE  reg[s] = Wanted
  BY DEF SubscriptionsAgree, Orderly
<1>1. ~WillSend(s)
  BY DEF Settled, NoneActive, WillSend
<1>2. Latest(s) = reg[s]
  BY DEF Settled, Latest
<1> QED BY <1>1, <1>2 DEF SubscriptionInv, Orderly, DueInv

\* No request is between its comparison and its save when it publishes: Inv
\* holds in the environments that SubscriptionsAgree is about.
LEMMA StepEnvironment ==
    ASSUME env.overlap # "all" => Inv, [Next]_vars, env'.overlap # "all"
    PROVE  env.overlap # "all" /\ Inv'
<1>1. env' = env
  BY DEF Next, vars, Request, Create, Update, EditForm, CancelEdit, UpsertPair,
         DeletePair, PublishPairUpdate, PublishPairUnsubscribe, Send, StoreFails,
         Client, Connect, Disconnect, Apply, PublishSubscriptions, SendSubscribe
<1> QED BY <1>1, StepInv

\* Clients that are online end with the subscription that is stored, for any
\* number of administrators, revisions and connections, in any environment
\* where publications do not overlap and the store answers: the promise of
\* subscriber.go:37-39, that who misses a publication gets it on connecting.
THEOREM SubscriptionsAgreeCorrect == Spec => []SubscriptionsAgree
<1> DEFINE Both == (env.overlap # "all" => Inv) /\ SubscriptionInv
<1>1. Init => Both
  BY InitInv, InitSubscription
<1>2. Both /\ [Next]_vars => Both'
  <2> SUFFICES ASSUME Both, [Next]_vars PROVE Both'
    OBVIOUS
  <2>1. (env.overlap # "all" => Inv)'
    BY StepEnvironment
  <2>2. SubscriptionInv'
    <3>1. CASE env'.overlap # "all"
      BY <3>1, StepEnvironment, StepSubscription
    <3>2. CASE env'.overlap = "all"
      BY <3>2 DEF SubscriptionInv
    <3> QED BY <3>1, <3>2
  <2> QED BY <2>1, <2>2
<1>3. Both => SubscriptionsAgree
  BY SettledSubscription
<1> QED
  BY <1>1, <1>2, <1>3, PTL DEF Spec
=============================================================================
