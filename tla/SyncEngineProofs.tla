-------------------------- MODULE SyncEngineProofs --------------------------
(***************************************************************************)
(* Proofs about SyncEngine for any number of goroutines, paths, contents   *)
(* and directions: type correctness, EventIsNewest, HandledMeansResolved,  *)
(* CommandsInStampOrder and NoOverwriteWithoutRename.                      *)
(***************************************************************************)
EXTENDS SyncEngine, TLAPS

LEMMA OtherSideType == \A s \in Sides : /\ otherSide(s) \in Sides
                                        /\ otherSide(s) # s
                                        /\ otherSide(otherSide(s)) = s
  BY DEF Sides, otherSide

LEMMA NoEventType == NoEvent \in ClientEvent
  BY EngineAssumption DEF NoEvent, ClientEvent, Event, Ops

LEMMA NoPairType == NoPair \in Pair /\ ~NoPair.exists
  BY EngineAssumption DEF NoPair, Pair

\* dispatchSync and Fetch make well-formed sends.
LEMMA SendType ==
  ASSUME NEW s \in Sides, NEW r \in Row
  PROVE  dispatchSync(s, r) \in Send /\ Fetch(s, r) \in Send
  BY DEF dispatchSync, Fetch, Send, Cmd, Row

LEMMA ConflictPlanType ==
  ASSUME NEW u \in Sides, NEW v \in Sides, NEW r \in Row
  PROVE  dispatchConflict(u, r, v) \in Seq(Send)
<1> DEFINE rn == [to |-> v, run |-> FALSE,
                  cmd |-> [op |-> "rename", sha |-> NoSha, smt |-> r.smt]]
           f == Fetch(v, r)
           g == Fetch(u, r)
<1>1. rn \in Send /\ f \in Send /\ g \in Send
  BY SendType DEF Send, Cmd, Row
<1>2. dispatchConflict(u, r, v) = << rn, f, g >>
  BY DEF dispatchConflict
<1> HIDE DEF rn, f, g
<1> QED BY <1>1, <1>2

\* A plan is a sequence of sends.
LEMMA PlanType ==
  ASSUME NEW s \in Sides, NEW e \in Row, NEW o \in Row, NEW d
  PROVE  /\ handleBidirectional(s, e, o) \in Seq(Send)
         /\ resolveMirrorTargets(d, s, e) \in Seq(Send)
<1> DEFINE t == otherSide(s)
<1>1. t \in Sides
  BY OtherSideType
<1>2. /\ dispatchSync(t, e) \in Send
      /\ Fetch(s, o) \in Send
  BY <1>1, SendType
<1>3. \A r \in Row, u \in Sides, v \in Sides : dispatchConflict(u, r, v) \in Seq(Send)
  BY ConflictPlanType
<1>4. handleEditWins(s, e, o) \in Seq(Send)
  <2>1. /\ << >> \in Seq(Send) /\ << dispatchSync(t, e) >> \in Seq(Send)
        /\ << Fetch(s, o) >> \in Seq(Send)
    BY <1>2
  <2> QED BY <2>1 DEF handleEditWins
<1>5. handleBidirectional(s, e, o) \in Seq(Send)
  <2>1. << >> \in Seq(Send) /\ << dispatchSync(t, e) >> \in Seq(Send)
    BY <1>2
  <2> QED BY <1>1, <1>3, <1>4, <2>1 DEF handleBidirectional
<1>6. resolveMirrorTargets(d, s, e) \in Seq(Send)
  BY <1>2 DEF resolveMirrorTargets
<1> QED BY <1>5, <1>6

-----------------------------------------------------------------------------
(* Type correctness.                                                       *)

LEMMA TypeInit == Init => TypeOK
  BY NoEventType, NoPairType, EngineAssumption
  DEF Init, TypeOK, Row, NoRow, Cmd, NoCmd, Sides

LEMMA EventRowType ==
  ASSUME TypeOK, NEW w \in Workers
  PROVE  EventRow(w) \in Row
  BY DEF TypeOK, EventRow, Row, ClientEvent, Event

LEMMA LeaveType ==
  ASSUME TypeOK, NEW w \in Workers, Leave(w)
  PROVE  /\ lock' \in Workers \cup {Free}
         /\ pc' \in [Workers -> {"idle", "next", "upsert", "dispatch", "send"}]
         /\ from' \in [Workers -> Sides]
         /\ todo' \in [Workers -> SUBSET ClientEvent]
         /\ cur' \in [Workers -> ClientEvent]
         /\ pcopy' \in [Workers -> Pair]
         /\ stamp' \in [Workers -> Nat]
         /\ plan' \in [Workers -> Seq(Send)]
  BY NoEventType, NoPairType DEF TypeOK, Leave, Sides

\* A run that is recorded, or not, leaves the table of runs well typed.
LEMMA RunsType ==
  ASSUME TypeOK, NEW t, t \in Sides, NEW x, x \in Paths,
         NEW status, status \in {"none", "ok", "failed"},
         runs' = [runs EXCEPT ![t][x] = status] \/ runs' = runs
  PROVE  runs' \in [Sides -> [Paths -> {"none", "ok", "failed"}]]
<1> DEFINE Status == {"none", "ok", "failed"}
<1>1. runs \in [Sides -> [Paths -> Status]] /\ status \in Status
  BY DEF TypeOK
<1> HIDE DEF Status
<1>2. [runs EXCEPT ![t][x] = status] \in [Sides -> [Paths -> Status]]
  BY <1>1
<1>3. runs' \in [Sides -> [Paths -> Status]]
  BY <1>1, <1>2
<1> QED BY <1>3 DEF Status

LEMMA TypeStep == TypeOK /\ [Next]_vars => TypeOK'
<1> SUFFICES ASSUME TypeOK, [Next]_vars PROVE TypeOK'
  OBVIOUS
<1>1. ASSUME NEW w \in Workers, NEW s \in Sides, NEW e \in ClientEvent, Receive(w, s, e)
      PROVE  TypeOK'
  BY <1>1 DEF Receive, TypeOK, store
<1>2. ASSUME NEW w \in Workers, NEW s \in Sides,
             NEW snap \in [Paths -> Shas \cup {NoSha}], ApplyDiff(w, s, snap)
      PROVE  TypeOK'
  <2>1. DiffEvents(s, snap) \subseteq ClientEvent
    BY EngineAssumption DEF DiffEvents, MissedWrite, ClientEvent, Event, Ops, TypeOK
  <2> QED BY <1>2, <2>1 DEF ApplyDiff, TypeOK, store
<1>3. ASSUME NEW w \in Workers, NEW e \in todo[w], Begin(w, e)
      PROVE  TypeOK'
  <2>1. e \in ClientEvent
    BY <1>3 DEF TypeOK
  <2>2. settled' \in SUBSET Paths
    BY <1>3 DEF Begin, TypeOK
  <2>3. CASE pair.exists
    <3>1. lock' = w /\ pc' = [pc EXCEPT ![w] = "upsert"]
          /\ cur' = [cur EXCEPT ![w] = e] /\ pcopy' = [pcopy EXCEPT ![w] = pair]
      BY <1>3, <2>3 DEF Begin
    <3>2. todo' = [todo EXCEPT ![w] = todo[w] \ {e}]
      BY <1>3 DEF Begin
    <3>3. todo' \in [Workers -> SUBSET ClientEvent]
      BY <3>2 DEF TypeOK
    <3> QED BY <1>3, <3>1, <3>3, <2>1, <2>2, <2>3 DEF Begin, TypeOK, store
  <2>4. CASE ~pair.exists
    BY <1>3, <2>1, <2>2, <2>4 DEF Begin, TypeOK, store
  <2> QED BY <2>3, <2>4
<1>4. ASSUME NEW w \in Workers, Upsert(w)
      PROVE  TypeOK'
  <2>1. cur[w] \in ClientEvent /\ from[w] \in Sides
    BY DEF TypeOK
  <2>2. cur[w].path \in Paths
    BY <2>1 DEF ClientEvent, Event
  <2>3. [op |-> cur[w].op, sha |-> cur[w].sha, smt |-> clock + 1] \in Row
    BY <2>1 DEF TypeOK, Row, ClientEvent, Event
  <2>4. rows' \in [Sides -> [Paths -> Row]]
    BY <1>4, <2>1, <2>2, <2>3 DEF Upsert, TypeOK
  <2> QED BY <1>4, <2>4 DEF Upsert, TypeOK
<1>5. ASSUME NEW w \in Workers, StoreError(w)
      PROVE  TypeOK'
  BY <1>5, LeaveType DEF StoreError, TypeOK, store
<1>6. ASSUME NEW w \in Workers, Decide(w)
      PROVE  TypeOK'
  <2>1. /\ from[w] \in Sides /\ EventRow(w) \in Row
        /\ cur[w].path \in Paths
    BY EventRowType DEF TypeOK, ClientEvent, Event
  <2>2. rows[otherSide(from[w])][cur[w].path] \in Row
    BY <2>1, OtherSideType DEF TypeOK
  <2>3. PICK p \in Seq(Send) : plan' = [plan EXCEPT ![w] = p]
    <3>1. << >> \in Seq(Send)
      OBVIOUS
    <3> QED BY <1>6, <2>1, <2>2, <3>1, PlanType DEF Decide
  <2> QED BY <1>6, <2>3 DEF Decide, TypeOK, store
<1>7. ASSUME NEW w \in Workers, DecideUnknown(w)
      PROVE  TypeOK'
  BY <1>7, LeaveType DEF DecideUnknown, TypeOK, store
<1>8. ASSUME NEW w \in Workers, SendOk(w)
      PROVE  TypeOK'
  <2>1. Head(plan[w]) \in Send /\ Tail(plan[w]) \in Seq(Send)
    BY <1>8 DEF SendOk, TypeOK
  <2>2. /\ cur[w].path \in Paths
        /\ Head(plan[w]).to \in Sides /\ Head(plan[w]).cmd \in Cmd
    BY <2>1 DEF TypeOK, ClientEvent, Event, Send
  <2>3. lastCmd' \in [Sides -> [Paths -> Cmd]]
    BY <1>8, <2>2 DEF SendOk, TypeOK
  <2>4. runs' \in [Sides -> [Paths -> {"none", "ok", "failed"}]]
    <3>1. runs' = [runs EXCEPT ![Head(plan[w]).to][cur[w].path] = "ok"] \/ runs' = runs
      BY <1>8 DEF SendOk, recordSyncRun
    <3> QED BY <2>2, <3>1, RunsType
  <2>5. unrecorded' \in SUBSET (Sides \X Paths)
    BY <1>8 DEF SendOk, TypeOK
  <2> QED BY <1>8, <2>1, <2>3, <2>4, <2>5 DEF SendOk, TypeOK
<1>9. ASSUME NEW w \in Workers, SendFail(w)
      PROVE  TypeOK'
  <2>1. Head(plan[w]) \in Send /\ Tail(plan[w]) \in Seq(Send)
    BY <1>9 DEF SendFail, TypeOK
  <2>2. cur[w].path \in Paths /\ Head(plan[w]).to \in Sides
    BY <2>1 DEF TypeOK, ClientEvent, Event, Send
  <2>4. CASE pcopy[w].direction = "bidirectional"
    BY <1>9, <2>4, LeaveType DEF SendFail, TypeOK
  <2>5. CASE pcopy[w].direction # "bidirectional"
    <3>1. /\ UNCHANGED <<lock, pc, from, todo, cur, pcopy, stamp>>
          /\ UNCHANGED <<pair, rows, clock, lastCmd, settled>>
          /\ \/ runs' = [runs EXCEPT ![Head(plan[w]).to][cur[w].path] = "failed"]
             \/ runs' = runs
          /\ unrecorded' \subseteq unrecorded \cup {<<Head(plan[w]).to, cur[w].path>>}
          /\ plan' = [plan EXCEPT ![w] = Tail(plan[w])]
      BY <1>9, <2>5 DEF SendFail, recordSyncRun
    <3>2. plan' \in [Workers -> Seq(Send)]
      BY <2>1, <3>1 DEF TypeOK
    <3>3. runs' \in [Sides -> [Paths -> {"none", "ok", "failed"}]]
      BY <2>2, <3>1, RunsType
    <3>4. unrecorded' \in SUBSET (Sides \X Paths)
      BY <2>2, <3>1 DEF TypeOK
    <3> QED BY <3>1, <3>2, <3>3, <3>4 DEF TypeOK
  <2> QED BY <2>4, <2>5
<1>10. ASSUME NEW w \in Workers, Return(w)
       PROVE  TypeOK'
  <2>1. cur[w].path \in Paths
    BY DEF TypeOK, ClientEvent, Event
  <2> QED BY <1>10, <2>1, LeaveType DEF Return, TypeOK, store
<1>11. CASE Environment
  <2>1. ASSUME NEW d \in Directions, NEW e \in BOOLEAN, UpsertPair(d, e)
        PROVE  TypeOK'
    BY <2>1 DEF UpsertPair, TypeOK, Pair, locals
  <2>2. CASE DeletePair
    <3>1. NoRow \in Row
      BY DEF NoRow, Row
    <3> QED BY <2>2, <3>1 DEF DeletePair, TypeOK, Pair, locals
  <2>3. CASE Tick
    BY <2>3 DEF Tick, TypeOK, locals, store
  <2> QED BY <1>11, <2>1, <2>2, <2>3 DEF Environment
<1>12. CASE UNCHANGED vars
  BY <1>12 DEF vars, store, locals, TypeOK
<1> QED BY <1>1, <1>2, <1>3, <1>4, <1>5, <1>6, <1>7, <1>8, <1>9, <1>10, <1>11, <1>12
        DEF Next, Handle

\* The state of the engine keeps its type: tables, locals and history.
THEOREM TypeCorrect == Spec => []TypeOK
  BY TypeInit, TypeStep, PTL DEF Spec

-----------------------------------------------------------------------------
(* The inductive invariant.                                                *)

LEMMA InitIInv == Init => IInv
<1> SUFFICES ASSUME Init PROVE IInv
  OBVIOUS
<1>1. TypeOK
  BY TypeInit
<1>2. \A w \in Workers : ~InHandler(w) /\ pc[w] = "idle" /\ lock # w
  BY EngineAssumption DEF Init, InHandler
<1>3. \A s \in Sides, x \in Paths : rows[s][x] = NoRow /\ lastCmd[s][x] = NoCmd
  BY DEF Init
<1>4. clock = 0 /\ settled = {}
  BY DEF Init
<1>5. RowInv
  BY <1>3, <1>4 DEF RowInv, NoRow, IsRow
<1>6. StampInv
  BY <1>2, <1>3, <1>4 DEF StampInv, NoCmd
<1> QED BY <1>1, <1>2, <1>4, <1>5, <1>6
        DEF IInv, LockInv, BusyInv, PlanInv, ProgressInv, HandledMeansResolved

\* The locals of every worker but w are left alone.
OthersUnchanged(w) ==
    \A v \in Workers \ {w} :
        /\ pc'[v] = pc[v] /\ from'[v] = from[v] /\ cur'[v] = cur[v]
        /\ pcopy'[v] = pcopy[v] /\ stamp'[v] = stamp[v] /\ plan'[v] = plan[v]

LEMMA LeaveFacts ==
  ASSUME TypeOK, LockInv, NEW w \in Workers, InHandler(w), Leave(w)
  PROVE  OthersUnchanged(w) /\ ~InHandler(w)' /\ LockInv'
<1>1. OthersUnchanged(w)
  BY DEF Leave, OthersUnchanged, TypeOK
<1>2. pc'[w] \in {"idle", "next"} /\ lock' = Free
  BY DEF Leave, TypeOK
<1>3. lock = w /\ \A v \in Workers \ {w} : ~InHandler(v)
  BY DEF LockInv
<1>4. \A v \in Workers : ~InHandler(v)' /\ lock' # v
  BY <1>1, <1>2, <1>3, EngineAssumption DEF InHandler, OthersUnchanged
<1> QED BY <1>1, <1>4 DEF LockInv

\* What is resolved for a path depends on the rows and the last commands only.
LEMMA ResolvedKept ==
  ASSUME rows' = rows, lastCmd' = lastCmd, NEW x
  PROVE  LWWResolved(x)' <=> LWWResolved(x)
BY DEF LWWResolved, Fetched, IsRow

\* A step that leaves the rows, the commands and worker v alone leaves it where
\* it was in its plan.
LEMMA ProgressKept ==
  ASSUME NEW v \in Workers, Progress(v),
         rows' = rows, runs' = runs, unrecorded' = unrecorded, lastCmd' = lastCmd,
         from'[v] = from[v], cur'[v] = cur[v], pcopy'[v] = pcopy[v],
         stamp'[v] = stamp[v], plan'[v] = plan[v]
  PROVE  Progress(v)'
<1>1. EventRow(v)' = EventRow(v)
  BY DEF EventRow
<1>2. LWWResolved(cur[v].path)' <=> LWWResolved(cur[v].path)
  BY ResolvedKept
<1>3. CASE pcopy[v].direction = "bidirectional"
  BY <1>1, <1>2, <1>3 DEF Progress, Fetched
<1>4. CASE pcopy[v].direction # "bidirectional"
  BY <1>1, <1>4 DEF Progress
<1> QED BY <1>3, <1>4

\* A step that only moves w, and leaves it outside the handler, keeps the
\* invariant as far as it does not speak of settled paths.
LEMMA Frame ==
  ASSUME IInv, TypeOK', LockInv', NEW w \in Workers, OthersUnchanged(w),
         ~InHandler(w)', UNCHANGED <<store, clock, lastCmd, unrecorded>>
  PROVE  RowInv' /\ StampInv' /\ PlanInv' /\ ProgressInv'
<1>1. pair' = pair /\ rows' = rows /\ runs' = runs /\ unrecorded' = unrecorded /\ clock' = clock /\ lastCmd' = lastCmd
  BY DEF store
<1>2. ASSUME NEW v \in Workers, pc'[v] \in {"upsert", "dispatch", "send"}
      PROVE  /\ v # w /\ pc'[v] = pc[v] /\ from'[v] = from[v] /\ cur'[v] = cur[v]
             /\ pcopy'[v] = pcopy[v] /\ stamp'[v] = stamp[v] /\ plan'[v] = plan[v]
  BY <1>2 DEF OthersUnchanged, InHandler
<1>3. RowInv'
  BY <1>1 DEF IInv, RowInv, IsRow
<1>4. StampInv'
  BY <1>1, <1>2 DEF IInv, StampInv, EventRow, NoRows
<1>5. PlanInv'
  BY <1>1, <1>2 DEF IInv, PlanInv
<1>6. ProgressInv'
  <2> SUFFICES ASSUME NEW v \in Workers, pc'[v] = "send", pcopy'[v].enabled,
                      Relevant(pcopy[v].direction, from[v])',
                      rows'[from'[v]][cur'[v].path] = EventRow(v)'
               PROVE  Progress(v)'
    BY DEF ProgressInv
  <2>1. Progress(v)
    BY <1>1, <1>2 DEF IInv, ProgressInv, EventRow, Relevant
  <2> QED BY <1>1, <1>2, <2>1, ProgressKept
<1> QED BY <1>3, <1>4, <1>5, <1>6

\* The same step keeps all of it when no path becomes settled or unsettled.
LEMMA FrameAll ==
  ASSUME IInv, TypeOK', LockInv', NEW w \in Workers, OthersUnchanged(w),
         ~InHandler(w)', UNCHANGED <<store, clock, lastCmd, unrecorded, settled>>
  PROVE  IInv'
<1>1. RowInv' /\ StampInv' /\ PlanInv' /\ ProgressInv'
  BY Frame
<1>2. pair' = pair /\ rows' = rows /\ runs' = runs /\ unrecorded' = unrecorded /\ lastCmd' = lastCmd /\ settled' = settled
  BY DEF store
<1>3. BusyInv'
  BY <1>2 DEF IInv, BusyInv, InHandler, OthersUnchanged, Relevant
<1>4. HandledMeansResolved'
  BY <1>2 DEF IInv, HandledMeansResolved, MirrorResolved, LWWResolved, Fetched, IsRow
<1> QED BY <1>1, <1>3, <1>4 DEF IInv

LEMMA ReceiveStep ==
  ASSUME IInv, TypeOK', NEW w \in Workers, NEW s \in Sides, NEW E,
         \/ E \in ClientEvent /\ Receive(w, s, E)
         \/ ApplyDiff(w, s, E)
  PROVE  IInv'
<1>1. OthersUnchanged(w) /\ pc[w] = "idle" /\ pc'[w] = "next"
  BY DEF IInv, TypeOK, Receive, ApplyDiff, OthersUnchanged
<1>2. LockInv'
  BY <1>1 DEF IInv, LockInv, InHandler, Receive, ApplyDiff, OthersUnchanged
<1>3. UNCHANGED <<store, clock, lastCmd, unrecorded, settled>>
  BY DEF Receive, ApplyDiff
<1> QED BY <1>1, <1>2, <1>3, FrameAll DEF InHandler

LEMMA ErrorStep ==
  ASSUME IInv, TypeOK', NEW w \in Workers, InHandler(w), Leave(w),
         UNCHANGED <<store, clock, lastCmd, unrecorded, settled>>
  PROVE  IInv'
  BY LeaveFacts, FrameAll DEF IInv

LEMMA BeginStep ==
  ASSUME IInv, TypeOK', NEW w \in Workers, NEW e \in todo[w], Begin(w, e)
  PROVE  IInv'
<1>1. /\ OthersUnchanged(w) /\ pc[w] = "next" /\ lock = Free
      /\ \A v \in Workers : ~InHandler(v)
  BY EngineAssumption DEF IInv, TypeOK, LockInv, Begin, OthersUnchanged
<1>2. UNCHANGED <<store, clock, lastCmd, unrecorded>>
  BY DEF Begin
<1>3. CASE ~pair.exists
  <2>1. UNCHANGED <<lock, settled>> /\ pc'[w] \in {"idle", "next"}
    BY <1>3 DEF Begin, IInv, TypeOK
  <2>2. ~InHandler(w)' /\ LockInv'
    BY <1>1, <2>1 DEF IInv, LockInv, InHandler, OthersUnchanged
  <2> QED BY <1>1, <1>2, <2>1, <2>2, FrameAll
<1>4. CASE pair.exists
  <2>1. /\ lock' = w /\ pc'[w] = "upsert" /\ cur'[w] = e /\ pcopy'[w] = pair
        /\ from' = from
        /\ settled' = IF Relevant(pair.direction, from[w])
                      THEN settled \ {e.path} ELSE settled
    BY <1>4 DEF Begin, IInv, TypeOK
  <2>2. \A v \in Workers \ {w} : pc'[v] \in {"idle", "next"}
    BY <1>1 DEF OthersUnchanged, InHandler, IInv, TypeOK
  <2>3. pair' = pair /\ rows' = rows /\ runs' = runs /\ unrecorded' = unrecorded /\ lastCmd' = lastCmd /\ clock' = clock
    BY <1>2 DEF store
  <2>4. LockInv'
    BY <2>1, <2>2 DEF LockInv, InHandler
  <2>5. RowInv'
    BY <2>3 DEF IInv, RowInv, IsRow
  <2>6. StampInv'
    BY <2>1, <2>2, <2>3 DEF IInv, StampInv
  <2>7. BusyInv'
    BY <2>1, <2>2, <2>3 DEF BusyInv, InHandler, Relevant
  <2>8. PlanInv' /\ ProgressInv'
    BY <2>1, <2>2 DEF PlanInv, ProgressInv
  <2>9. HandledMeansResolved'
    BY <2>1, <2>3 DEF IInv, HandledMeansResolved, MirrorResolved, LWWResolved, Fetched, IsRow
  <2> QED BY <2>4, <2>5, <2>6, <2>7, <2>8, <2>9 DEF IInv
<1> QED BY <1>3, <1>4

LEMMA UpsertStep ==
  ASSUME IInv, TypeOK', NEW w \in Workers, Upsert(w)
  PROVE  IInv'
<1> DEFINE s == from[w]
           x == cur[w].path
           r == [op |-> cur[w].op, sha |-> cur[w].sha, smt |-> clock + 1]
<1>1. /\ s \in Sides /\ x \in Paths /\ clock \in Nat /\ cur[w] \in ClientEvent
      /\ rows[s][x] \in Row
  BY DEF IInv, TypeOK, ClientEvent, Event
<1>2. /\ pc[w] = "upsert" /\ pc'[w] = "dispatch" /\ lock = w /\ lock' = w
      /\ \A v \in Workers \ {w} : pc'[v] = pc[v] /\ pc'[v] \in {"idle", "next"}
  BY DEF IInv, TypeOK, LockInv, InHandler, Upsert
<1>3. /\ clock' = clock + 1 /\ stamp'[w] = clock + 1
      /\ from' = from /\ cur' = cur /\ pcopy' = pcopy
      /\ pair' = pair /\ runs' = runs /\ unrecorded' = unrecorded /\ lastCmd' = lastCmd /\ settled' = settled
      /\ pair.exists
  BY DEF IInv, TypeOK, Upsert
<1>4. rows[s][x].smt < clock + 1
  BY <1>1 DEF IInv, RowInv, Row
<1>5. rows' = [rows EXCEPT ![s][x] = r]
  BY <1>4 DEF Upsert
<1>6. /\ rows'[s][x] = r
      /\ \A t \in Sides, y \in Paths : <<t, y>> # <<s, x>> => rows'[t][y] = rows[t][y]
  BY <1>1, <1>5 DEF IInv, TypeOK
<1>7. LockInv'
  BY <1>2 DEF LockInv, InHandler
<1>8. RowInv'
  <2> SUFFICES ASSUME NEW t \in Sides, NEW y \in Paths
               PROVE  /\ rows'[t][y].smt <= clock'
                      /\ ~IsRow(rows'[t][y]) => rows'[t][y] = NoRow
                      /\ IsRow(rows'[t][y]) =>
                            /\ pair'.exists
                            /\ rows'[t][y].smt > 0
                            /\ (rows'[t][y].op = "write") <=> (rows'[t][y].sha # NoSha)
    BY DEF RowInv
  <2>1. CASE <<t, y>> = <<s, x>>
    BY <1>1, <1>3, <1>6, <2>1 DEF IsRow, ClientEvent, Event, Ops
  <2>2. CASE <<t, y>> # <<s, x>>
    <3>1. rows'[t][y] = rows[t][y] /\ rows[t][y].smt \in Nat
      BY <1>6, <2>2 DEF IInv, TypeOK, Row
    <3> QED BY <1>1, <1>3, <3>1 DEF IInv, RowInv
  <2> QED BY <2>1, <2>2
<1>9. StampInv'
  <2>1. \A t \in Sides, y \in Paths : /\ lastCmd[t][y].smt \in Nat /\ lastCmd[t][y].smt <= clock
                                        /\ rows[t][y].smt \in Nat /\ rows[t][y].smt <= clock
    BY DEF IInv, TypeOK, StampInv, RowInv, Row, Cmd
  <2>2. r = EventRow(w)'
    BY <1>3 DEF EventRow
  <2>3. \A t \in Sides, y \in Paths : lastCmd'[t][y].smt <= clock' /\ lastCmd'[t][y].smt <= stamp'[w]
    BY <1>1, <1>3, <2>1
  <2>4. \A t \in Sides, y \in Paths : <<t, y>> # <<s, x>> => rows'[t][y].smt < stamp'[w]
    BY <1>1, <1>3, <1>6, <2>1
  <2> QED BY <1>1, <1>2, <1>3, <1>6, <2>2, <2>3, <2>4 DEF StampInv
<1>10. BusyInv'
  BY <1>2, <1>3 DEF IInv, BusyInv, InHandler, Relevant
<1>11. PlanInv' /\ ProgressInv'
  BY <1>2 DEF PlanInv, ProgressInv
<1>12. HandledMeansResolved'
  <2> SUFFICES ASSUME NEW y \in settled
               PROVE  IF pair.direction = "bidirectional"
                      THEN LWWResolved(y)' ELSE MirrorResolved(y)'
    BY <1>3 DEF HandledMeansResolved
  <2>1. y \in Paths
    BY DEF IInv, TypeOK
  <2>2. CASE y # x
    <3>1. \A t \in Sides : rows'[t][y] = rows[t][y]
      BY <1>6, <2>1, <2>2
    <3>2. MirrorSource(pair.direction) \subseteq Sides
      BY DEF MirrorSource, Sides
    <3> QED BY <1>3, <2>1, <3>1, <3>2, OtherSideType
            DEF IInv, HandledMeansResolved, LWWResolved, MirrorResolved, Fetched, IsRow
  <2>3. CASE y = x
    <3>1. ~Relevant(pair.direction, s)
      BY <1>2, <2>3 DEF IInv, BusyInv, InHandler
    <3>2. pair.direction # "bidirectional" /\ s \notin MirrorSource(pair.direction)
      BY <3>1 DEF Relevant
    <3>3. \A t \in MirrorSource(pair.direction) : rows'[t][y] = rows[t][y]
      BY <1>6, <2>1, <3>2 DEF MirrorSource, Sides
    <3>4. MirrorResolved(y)
      BY <3>2 DEF IInv, HandledMeansResolved
    <3> QED BY <1>3, <3>2, <3>3, <3>4 DEF MirrorResolved, IsRow
  <2> QED BY <2>2, <2>3
<1> QED BY <1>7, <1>8, <1>9, <1>10, <1>11, <1>12 DEF IInv

\* An event newer than the other row is what every command of its plan
\* carries, except when it is a delete and the other side's edit is restored.
LEMMA PlanStamps ==
  ASSUME NEW s \in Sides, NEW e \in Row, NEW o \in Row, e.op \in Ops, o.smt < e.smt, NEW d
  PROVE  /\ \A i \in 1..Len(handleBidirectional(s, e, o)) :
              /\ handleBidirectional(s, e, o)[i].cmd.smt <= e.smt
              /\ \/ handleBidirectional(s, e, o)[i].cmd.smt = e.smt
                 \/ handleBidirectional(s, e, o)[i].to = s /\ e.op = "delete"
         /\ \A i \in 1..Len(resolveMirrorTargets(d, s, e)) :
              resolveMirrorTargets(d, s, e)[i].cmd.smt = e.smt
<1> DEFINE t == otherSide(s)
           Good(p) == \A i \in 1..Len(p) :
                         /\ p[i].cmd.smt <= e.smt
                         /\ p[i].cmd.smt = e.smt \/ (p[i].to = s /\ e.op = "delete")
<1>0. e.smt \in Nat /\ o.smt \in Nat
  BY DEF Row
<1>1. Good(<< >>)
  OBVIOUS
<1>2. Good(<< dispatchSync(t, e) >>)
  BY <1>0 DEF dispatchSync
<1>3. Good(dispatchConflict(s, e, t))
  BY <1>0 DEF dispatchConflict, Fetch
<1>4. Good(handleEditWins(s, e, o))
  <2>1. CASE e.op = "write"
    BY <1>2, <2>1 DEF handleEditWins
  <2>2. CASE e.op # "write" /\ o.sha = NoSha
    BY <1>1, <2>2 DEF handleEditWins
  <2>3. CASE e.op = "delete" /\ o.sha # NoSha
    BY <1>0, <2>3 DEF handleEditWins, Fetch
  <2> QED BY <2>1, <2>2, <2>3 DEF Ops
<1>5. Good(handleBidirectional(s, e, o))
  <2>1. e.smt >= o.smt
    BY DEF Row
  <2> QED BY <1>1, <1>2, <1>3, <1>4, <2>1 DEF handleBidirectional
<1>6. \A i \in 1..Len(resolveMirrorTargets(d, s, e)) : resolveMirrorTargets(d, s, e)[i].cmd.smt = e.smt
  BY DEF resolveMirrorTargets, dispatchSync
<1> QED BY <1>5, <1>6

LEMMA DecideStep ==
  ASSUME IInv, TypeOK', NEW w \in Workers, Decide(w)
  PROVE  IInv'
<1> DEFINE s == from[w]
           x == cur[w].path
           e == EventRow(w)
           o == rows[otherSide(s)][x]
           d == pcopy[w].direction
<1>1. /\ s \in Sides /\ x \in Paths /\ e \in Row /\ o \in Row /\ otherSide(s) # s
  BY EventRowType, OtherSideType DEF IInv, TypeOK, ClientEvent, Event
<1>2. /\ pc[w] = "dispatch" /\ pc'[w] = "send" /\ lock = w /\ lock' = w
      /\ \A v \in Workers \ {w} : pc'[v] = pc[v] /\ pc'[v] \in {"idle", "next"}
  BY DEF IInv, TypeOK, LockInv, InHandler, Decide
<1>3. /\ clock' = clock /\ stamp' = stamp /\ rows' = rows
      /\ from' = from /\ cur' = cur /\ pcopy' = pcopy
      /\ pair' = pair /\ runs' = runs /\ unrecorded' = unrecorded /\ lastCmd' = lastCmd /\ settled' = settled
  BY DEF Decide, store
<1>4. plan'[w] = IF ~pcopy[w].enabled THEN << >>
                 ELSE IF d = "bidirectional" THEN handleBidirectional(s, e, o)
                      ELSE resolveMirrorTargets(d, s, e)
  BY DEF Decide, IInv, TypeOK
<1>5. o.smt < e.smt /\ e.smt = stamp[w] /\ e.op = cur[w].op /\ e.op \in Ops
  BY <1>1, <1>2, OtherSideType DEF IInv, StampInv, EventRow, TypeOK, ClientEvent, Event
<1>6. LockInv'
  BY <1>2 DEF LockInv, InHandler
<1>7. RowInv'
  BY <1>3 DEF IInv, RowInv
<1>8. StampInv'
  BY <1>2, <1>3 DEF IInv, StampInv, EventRow, NoRows
<1>9. BusyInv'
  BY <1>2, <1>3 DEF IInv, BusyInv, InHandler, Relevant
<1>10. PlanInv'
  <2>1. /\ plan'[w] # << >> => pcopy[w].enabled /\ Relevant(d, s)
        /\ \A i \in 1..Len(plan'[w]) :
              /\ plan'[w][i].cmd.smt <= stamp[w]
              /\ \/ plan'[w][i].cmd.smt = stamp[w]
                 \/ plan'[w][i].to = s /\ cur[w].op = "delete"
    <3>1. CASE ~pcopy[w].enabled
      BY <1>4, <3>1
    <3>2. CASE pcopy[w].enabled /\ d = "bidirectional"
      <4>1. plan'[w] = handleBidirectional(s, e, o) /\ Relevant(d, s)
        BY <1>4, <3>2 DEF Relevant
      <4> HIDE DEF e, o, s, d
      <4>2. \A i \in 1..Len(handleBidirectional(s, e, o)) :
              /\ handleBidirectional(s, e, o)[i].cmd.smt <= e.smt
              /\ \/ handleBidirectional(s, e, o)[i].cmd.smt = e.smt
                 \/ handleBidirectional(s, e, o)[i].to = s /\ e.op = "delete"
        BY <1>1, <1>5, PlanStamps
      <4> QED BY <1>5, <3>2, <4>1, <4>2
    <3>3. CASE pcopy[w].enabled /\ d # "bidirectional"
      <4>1. plan'[w] = resolveMirrorTargets(d, s, e)
        BY <1>4, <3>3
      <4>2. plan'[w] # << >> => Relevant(d, s)
        BY <4>1 DEF Relevant, resolveMirrorTargets
      <4>3. stamp[w] \in Nat
        BY DEF IInv, TypeOK
      <4> HIDE DEF e, o, s, d
      <4>4. \A i \in 1..Len(resolveMirrorTargets(d, s, e)) :
              resolveMirrorTargets(d, s, e)[i].cmd.smt = e.smt
        BY <1>1, <1>5, PlanStamps
      <4> QED BY <1>5, <3>3, <4>1, <4>2, <4>3, <4>4
    <3> QED BY <3>1, <3>2, <3>3
  <2>2. Relevant(d, s) = Relevant(d, s)'
    BY <1>3 DEF Relevant
  <2> QED BY <1>2, <1>3, <2>1, <2>2 DEF PlanInv
<1>11. ProgressInv'
  <2> SUFFICES ASSUME pcopy[w].enabled, Relevant(d, s)
               PROVE  Progress(w)'
    BY <1>2, <1>3 DEF ProgressInv, Relevant
  <2>1. d # "bidirectional" => plan'[w] = << dispatchSync(otherSide(s), e) >>
    BY <1>4 DEF Relevant, resolveMirrorTargets
  <2>2. d = "bidirectional" => plan'[w] = handleBidirectional(s, e, o)
    BY <1>4
  <2> QED BY <1>3, <2>1, <2>2 DEF Progress, EventRow
<1>12. HandledMeansResolved'
  BY <1>3 DEF IInv, HandledMeansResolved, LWWResolved, MirrorResolved, Fetched, IsRow
<1> QED BY <1>6, <1>7, <1>8, <1>9, <1>10, <1>11, <1>12 DEF IInv

\* Inside the sends of a worker: what the invariant says of its next one.
LEMMA SendFacts ==
  ASSUME IInv, NEW w \in Workers, pc[w] = "send", plan[w] # << >>
  PROVE  /\ lock = w /\ \A v \in Workers \ {w} : pc[v] \in {"idle", "next"}
         /\ from[w] \in Sides /\ cur[w].path \in Paths
         /\ plan[w] \in Seq(Send) /\ Head(plan[w]) \in Send
         /\ Head(plan[w]).to \in Sides /\ Head(plan[w]).cmd \in Cmd
         /\ Head(plan[w]).cmd.smt <= stamp[w]
         /\ pcopy[w].enabled /\ Relevant(pcopy[w].direction, from[w])
         /\ cur[w].path \notin settled
<1>1. lock = w /\ \A v \in Workers \ {w} : pc[v] \in {"idle", "next"}
  BY DEF IInv, LockInv, InHandler, TypeOK
<1>2. from[w] \in Sides /\ cur[w].path \in Paths /\ plan[w] \in Seq(Send)
  BY DEF IInv, TypeOK, ClientEvent, Event
<1>3. Head(plan[w]) \in Send /\ Head(plan[w]) = plan[w][1] /\ 1 \in 1..Len(plan[w])
  BY <1>2
<1>4. Head(plan[w]).to \in Sides /\ Head(plan[w]).cmd \in Cmd
  BY <1>3 DEF Send
<1>5. /\ Head(plan[w]).cmd.smt <= stamp[w]
      /\ pcopy[w].enabled /\ Relevant(pcopy[w].direction, from[w])
  BY <1>3 DEF IInv, PlanInv
<1>6. cur[w].path \notin settled
  BY <1>5 DEF IInv, BusyInv, InHandler
<1> QED BY <1>1, <1>2, <1>3, <1>4, <1>5, <1>6

\* The rest of the plan after a send.
LEMMA TailPlan ==
  ASSUME IInv, NEW w \in Workers, pc[w] = "send", plan[w] # << >>
  PROVE  /\ pcopy[w].enabled /\ Relevant(pcopy[w].direction, from[w])
         /\ \A i \in 1..Len(Tail(plan[w])) :
              /\ Tail(plan[w])[i].cmd.smt <= stamp[w]
              /\ \/ Tail(plan[w])[i].cmd.smt = stamp[w]
                 \/ Tail(plan[w])[i].to = from[w] /\ cur[w].op = "delete"
<1>1. plan[w] \in Seq(Send)
  BY SendFacts
<1>2. \A i \in 1..Len(Tail(plan[w])) : Tail(plan[w])[i] = plan[w][i + 1] /\ i + 1 \in 1..Len(plan[w])
  BY <1>1
<1> QED BY <1>2, SendFacts DEF IInv, PlanInv

LEMMA SendOkStep ==
  ASSUME IInv, TypeOK', NEW w \in Workers, SendOk(w)
  PROVE  IInv'
<1> DEFINE s == from[w]
           t == otherSide(s)
           x == cur[w].path
           e == EventRow(w)
           o == rows[t][x]
           p == Head(plan[w])
<1>1. pc[w] = "send" /\ plan[w] # << >>
  BY DEF SendOk
<1>2. /\ lock = w /\ \A v \in Workers \ {w} : pc[v] \in {"idle", "next"}
      /\ s \in Sides /\ x \in Paths /\ plan[w] \in Seq(Send) /\ p \in Send
      /\ p.to \in Sides /\ p.cmd \in Cmd /\ p.cmd.smt <= stamp[w]
      /\ pcopy[w].enabled /\ Relevant(pcopy[w].direction, s)
      /\ x \notin settled
  BY <1>1, SendFacts
<1>3. /\ clock' = clock /\ stamp' = stamp /\ rows' = rows /\ pc' = pc /\ lock' = lock
      /\ from' = from /\ cur' = cur /\ pcopy' = pcopy
      /\ pair' = pair /\ settled' = settled
      /\ plan'[w] = Tail(plan[w])
  BY DEF SendOk, IInv, TypeOK
<1>4. /\ lastCmd'[p.to][x] = p.cmd
      /\ \A u \in Sides, y \in Paths : <<u, y>> # <<p.to, x>> => lastCmd'[u][y] = lastCmd[u][y]
  BY <1>2 DEF SendOk, IInv, TypeOK
<1>5. /\ \A u \in Sides, y \in Paths : y # x => runs'[u][y] = runs[u][y]
      /\ \A u \in Sides, y \in Paths :
            y # x => (<<u, y>> \in unrecorded' <=> <<u, y>> \in unrecorded)
  <2>1. runs' = [runs EXCEPT ![p.to][x] = "ok"] \/ runs' = runs
    BY DEF SendOk, recordSyncRun
  <2>2. unrecorded' = unrecorded \ {<<p.to, x>>}
    BY DEF SendOk
  <2>3. runs \in [Sides -> [Paths -> {"none", "ok", "failed"}]]
    BY DEF IInv, TypeOK
  <2> HIDE DEF p, x
  <2> QED BY <1>2, <2>1, <2>2, <2>3
<1>6. LockInv' /\ RowInv' /\ BusyInv'
  BY <1>3 DEF IInv, LockInv, RowInv, BusyInv, InHandler, Relevant, IsRow
<1>7. StampInv'
  <2>1. \A u \in Sides, y \in Paths :
           lastCmd'[u][y].smt <= clock /\ lastCmd'[u][y].smt <= stamp[w]
    <3>1. stamp[w] <= clock /\ stamp[w] \in Nat /\ clock \in Nat /\ p.cmd.smt \in Nat
      BY <1>1, <1>2 DEF IInv, StampInv, TypeOK, Cmd
    <3>2. \A u \in Sides, y \in Paths : lastCmd[u][y].smt <= clock /\ lastCmd[u][y].smt <= stamp[w]
      BY <1>1 DEF IInv, StampInv
    <3> QED BY <1>2, <1>4, <3>1, <3>2
  <2> QED BY <1>2, <1>3, <2>1 DEF IInv, StampInv, EventRow, NoRows
<1>8. PlanInv'
  <2>1. Relevant(pcopy[w].direction, from[w])' = Relevant(pcopy[w].direction, from[w])
    BY <1>3 DEF Relevant
  <2>2. \A i \in 1..Len(plan'[w]) :
              /\ plan'[w][i].cmd.smt <= stamp[w]
              /\ \/ plan'[w][i].cmd.smt = stamp[w]
                 \/ plan'[w][i].to = from[w] /\ cur[w].op = "delete"
    BY <1>1, <1>3, TailPlan
  <2> HIDE DEF s, p, t, e, o, x
  <2> QED BY <1>2, <1>3, <2>1, <2>2 DEF PlanInv, s
<1>9. ProgressInv'
  <2> SUFFICES ASSUME rows[s][x] = e
               PROVE  Progress(w)'
    BY <1>2, <1>3 DEF ProgressInv, EventRow
  <2>1. Progress(w)
    BY <1>1, <1>2 DEF IInv, ProgressInv
  <2>2. e \in Row /\ o \in Row /\ t \in Sides /\ t # s /\ otherSide(t) = s /\ o.smt < e.smt
    BY <1>1, <1>2, EventRowType, OtherSideType DEF IInv, TypeOK, StampInv, EventRow
  <2>3. e' = e /\ o' = o /\ s' = s /\ x' = x
    BY <1>3 DEF EventRow
  <2>4. CASE pcopy[w].direction # "bidirectional"
    <3>1. plan[w] = << dispatchSync(t, e) >>
      BY <1>1, <2>1, <2>4 DEF Progress
    <3>2. plan'[w] = << >> /\ p = dispatchSync(t, e)
      BY <1>3, <3>1
    <3>3. p.to = t
      BY <3>2 DEF dispatchSync
    <3> QED BY <1>3, <1>4, <2>3, <2>4, <3>2, <3>3 DEF Progress, EventRow
  <2>5. CASE pcopy[w].direction = "bidirectional"
    <3> DEFINE dec == decideLWW(e, o)
               f == Fetch(t, e)
               g == Fetch(s, e)
    <3>0. e.op \in Ops /\ e.smt \in Nat /\ o.smt \in Nat /\ o.op \in Ops \cup {"none"}
      BY <2>2 DEF IInv, TypeOK, ClientEvent, Event, EventRow, Row
    <3>1. f.to = t /\ g.to = s /\ f.cmd = [op |-> "fetch", sha |-> e.sha, smt |-> e.smt]
      BY DEF Fetch
    <3>2. LWWResolved(x)' <=>
            /\ e.op = "write" => \/ o.op = "write" /\ o.sha = e.sha
                                 \/ Fetched(t, x, e)'
            /\ e.op = "delete" => \/ o.op = "none" /\ lastCmd'[t][x].op = "delete"
                                  \/ o.op = "delete"
                                  \/ o.op = "write" /\ Fetched(s, x, o)'
      <4>1. rows'[s][x] = e /\ rows'[t][x] = o
        BY <1>3
      <4>2. \A u \in Sides : u = s \/ u = t
        BY <1>2 DEF Sides, otherSide
      <4>3. IsRow(e) /\ e.smt > o.smt /\ ~(o.smt > e.smt)
        BY <2>2, <3>0 DEF IsRow, Ops
      <4>4. otherSide(s) = t /\ otherSide(t) = s
        BY <2>2
      <4>5. /\ Fetched(t, x, e)' <=> lastCmd'[t][x] = [op |-> "fetch", sha |-> e.sha, smt |-> e.smt]
            /\ Fetched(s, x, o)' <=> lastCmd'[s][x] = [op |-> "fetch", sha |-> o.sha, smt |-> o.smt]
        BY <2>3 DEF Fetched
      <4>6. x' = x
        BY <1>3
      <4> HIDE DEF e, o, s, t, x
      <4> QED BY <1>2, <2>2, <4>1, <4>2, <4>3, <4>4, <4>5, <4>6 DEF LWWResolved, Fetched
    <3>3. \/ plan[w] = handleBidirectional(s, e, o)
          \/ dec = "Conflict" /\ plan[w] = << f, g >>
          \/ dec = "Conflict" /\ plan[w] = << g >> /\ Fetched(t, x, e)
      BY <1>1, <2>1, <2>5 DEF Progress
    <3>4. \/ plan'[w] = << >> /\ LWWResolved(x)'
          \/ dec = "Conflict" /\ plan'[w] = << f, g >> /\ lastCmd'[t][x].op = "rename"
          \/ dec = "Conflict" /\ plan'[w] = << g >> /\ Fetched(t, x, e)'
      <4>1. CASE plan[w] = handleBidirectional(s, e, o) /\ dec = "Conflict"
        <5> DEFINE rn == [to |-> t, run |-> FALSE,
                          cmd |-> [op |-> "rename", sha |-> NoSha, smt |-> e.smt]]
        <5>1. plan[w] = << rn, f, g >>
          <6>1. e.smt >= o.smt
            BY <2>2, <3>0
          <6>2. handleBidirectional(s, e, o) = dispatchConflict(s, e, t)
            BY <4>1, <6>1 DEF handleBidirectional
          <6> QED BY <4>1, <6>2 DEF dispatchConflict
        <5>2. rn.to = t /\ rn.cmd.op = "rename"
          OBVIOUS
        <5> HIDE DEF rn, f, g
        <5>3. plan'[w] = << f, g >> /\ p = rn
          BY <1>3, <5>1
        <5> QED BY <1>4, <4>1, <5>2, <5>3
      <4>2. CASE plan[w] = handleBidirectional(s, e, o) /\ dec = "Dispatch"
        <5>1. plan[w] = << dispatchSync(t, e) >>
          BY <4>2 DEF handleBidirectional
        <5>2. plan'[w] = << >> /\ p = dispatchSync(t, e)
          BY <1>3, <5>1
        <5>3. lastCmd'[t][x] = [op |-> IF e.op = "delete" THEN "delete" ELSE "fetch",
                                sha |-> e.sha, smt |-> e.smt]
          BY <1>4, <5>2 DEF dispatchSync
        <5>4. e.op = "delete" => o.op = "none"
          BY <4>2, <3>0 DEF decideLWW, IsRow, Ops
        <5> QED BY <3>0, <3>2, <2>3, <5>2, <5>3, <5>4 DEF Fetched, Ops
      <4>3. CASE plan[w] = handleBidirectional(s, e, o) /\ dec = "EditWins"
        <5>1. plan[w] = handleEditWins(s, e, o)
          BY <4>3 DEF handleBidirectional
        <5>2. e.op # o.op /\ o.op # "none"
          BY <4>3 DEF decideLWW, IsRow
        <5>3. CASE e.op = "write"
          <6>1. plan[w] = << dispatchSync(t, e) >>
            BY <5>1, <5>3 DEF handleEditWins
          <6>2. plan'[w] = << >> /\ p = dispatchSync(t, e)
            BY <1>3, <6>1
          <6>3. lastCmd'[t][x] = [op |-> "fetch", sha |-> e.sha, smt |-> e.smt]
            BY <1>4, <5>3, <6>2 DEF dispatchSync
          <6> QED BY <3>2, <2>3, <5>3, <6>2, <6>3 DEF Fetched
        <5>4. CASE e.op = "delete"
          <6>1. plan[w] = << Fetch(s, o) >>
            BY <1>1, <5>1, <5>4 DEF handleEditWins
          <6>2. plan'[w] = << >> /\ p = Fetch(s, o)
            BY <1>3, <6>1
          <6>3. lastCmd'[s][x] = [op |-> "fetch", sha |-> o.sha, smt |-> o.smt]
            BY <1>4, <6>2 DEF Fetch
          <6>4. o.op = "write"
            BY <3>0, <5>2, <5>4 DEF Ops
          <6> QED BY <3>2, <2>3, <5>4, <6>2, <6>3, <6>4 DEF Fetched
        <5> QED BY <3>0, <5>3, <5>4 DEF Ops
      <4>4. CASE dec = "Conflict" /\ plan[w] = << f, g >>
        <5> HIDE DEF f, g
        <5>1. plan'[w] = << g >> /\ p = f
          BY <1>3, <4>4
        <5> QED BY <1>4, <2>3, <3>1, <4>4, <5>1 DEF Fetched
      <4>5. CASE dec = "Conflict" /\ plan[w] = << g >> /\ Fetched(t, x, e)
        <5> HIDE DEF f, g
        <5>1. plan'[w] = << >> /\ p = g
          BY <1>3, <4>5
        <5>2. lastCmd'[t][x] = lastCmd[t][x]
          BY <1>2, <1>4, <2>2, <3>1, <5>1
        <5>3. e.op = "write"
          BY <4>5, <3>0 DEF decideLWW, IsRow, Ops
        <5> QED BY <2>3, <3>2, <4>5, <5>1, <5>2, <5>3 DEF Fetched
      <4>6. dec \in {"None", "Dispatch", "EditWins", "Conflict"}
        BY DEF decideLWW
      <4>7. plan[w] = handleBidirectional(s, e, o) => dec # "None"
        BY <1>1 DEF handleBidirectional
      <4> QED BY <3>3, <4>1, <4>2, <4>3, <4>4, <4>5, <4>6, <4>7
    <3> QED BY <1>3, <2>3, <2>5, <3>4 DEF Progress, EventRow
  <2> QED BY <2>4, <2>5
<1>10. HandledMeansResolved'
  <2> SUFFICES ASSUME NEW y \in settled
               PROVE  IF pair.direction = "bidirectional"
                      THEN LWWResolved(y)' ELSE MirrorResolved(y)'
    BY <1>3 DEF HandledMeansResolved
  <2>1. y \in Paths /\ y # x
    BY <1>2 DEF IInv, TypeOK
  <2>2. \A u \in Sides : lastCmd'[u][y] = lastCmd[u][y] /\ runs'[u][y] = runs[u][y]
    BY <1>4, <1>5, <2>1
  <2>7. \A u \in Sides : <<u, y>> \in unrecorded' <=> <<u, y>> \in unrecorded
    BY <1>5, <2>1, Zenon
  <2>3. MirrorSource(pair.direction) \subseteq Sides
    BY DEF MirrorSource, Sides
  <2>4. \A u \in Sides : otherSide(u) \in Sides
    BY OtherSideType
  <2>5. CASE pair.direction = "bidirectional"
    BY <1>3, <2>1, <2>2, <2>4, <2>5
       DEF IInv, HandledMeansResolved, LWWResolved, Fetched, IsRow
  <2>6. CASE pair.direction # "bidirectional"
    <3>1. MirrorResolved(y)
      BY <2>6 DEF IInv, HandledMeansResolved
    <3>2. ASSUME NEW u \in MirrorSource(pair.direction), IsRow(rows[u][y])
          PROVE  \/ lastCmd'[otherSide(u)][y] = dispatchSync(otherSide(u), rows[u][y]).cmd
                 \/ runs'[otherSide(u)][y] = "failed"
                 \/ <<otherSide(u), y>> \in unrecorded'
      <4>1. otherSide(u) \in Sides
        BY <2>3, <2>4
      <4>2. \/ lastCmd[otherSide(u)][y] = dispatchSync(otherSide(u), rows[u][y]).cmd
            \/ runs[otherSide(u)][y] = "failed"
            \/ <<otherSide(u), y>> \in unrecorded
        BY <3>1, <3>2 DEF MirrorResolved
      <4> QED BY <2>2, <2>7, <4>1, <4>2, Zenon
    <3> QED BY <1>3, <2>6, <3>2 DEF MirrorResolved
  <2> QED BY <2>5, <2>6
<1> QED BY <1>6, <1>7, <1>8, <1>9, <1>10 DEF IInv

LEMMA SendFailStep ==
  ASSUME IInv, TypeOK', NEW w \in Workers, SendFail(w)
  PROVE  IInv'
<1> DEFINE s == from[w]
           t == otherSide(s)
           x == cur[w].path
           e == EventRow(w)
           p == Head(plan[w])
<1>1. pc[w] = "send" /\ plan[w] # << >>
  BY DEF SendFail
<1>2. CASE pcopy[w].direction = "bidirectional"
  <2>1. Leave(w) /\ UNCHANGED <<store, clock, lastCmd, unrecorded, settled>>
    BY <1>2 DEF SendFail, store
  <2> QED BY <1>1, <2>1, ErrorStep DEF InHandler
<1>3. CASE pcopy[w].direction # "bidirectional"
  <2>1. /\ lock = w /\ \A v \in Workers \ {w} : pc[v] \in {"idle", "next"}
        /\ s \in Sides /\ x \in Paths /\ plan[w] \in Seq(Send)
        /\ p.to \in Sides
        /\ pcopy[w].enabled /\ Relevant(pcopy[w].direction, s)
        /\ x \notin settled
    BY <1>1, SendFacts
  <2>2. /\ clock' = clock /\ stamp' = stamp /\ rows' = rows /\ pc' = pc /\ lock' = lock
        /\ from' = from /\ cur' = cur /\ pcopy' = pcopy /\ lastCmd' = lastCmd
        /\ pair' = pair /\ settled' = settled
        /\ plan'[w] = Tail(plan[w])
    BY <1>3 DEF SendFail, IInv, TypeOK
  <2>3. /\ \A u \in Sides, y \in Paths : y # x => runs'[u][y] = runs[u][y]
        /\ \A u \in Sides, y \in Paths :
              y # x => (<<u, y>> \in unrecorded' <=> <<u, y>> \in unrecorded)
        /\ runs'[p.to][x] = "failed" \/ <<p.to, x>> \in unrecorded'
    <3>1. runs' = [runs EXCEPT ![p.to][x] = "failed"] \/ runs' = runs
      BY <1>3 DEF SendFail, recordSyncRun
    <3>2. unrecorded' = IF runs'[p.to][x] = "failed"
                        THEN unrecorded \ {<<p.to, x>>}
                        ELSE unrecorded \cup {<<p.to, x>>}
      BY <1>3 DEF SendFail
    <3>3. runs \in [Sides -> [Paths -> {"none", "ok", "failed"}]]
      BY DEF IInv, TypeOK
    <3> HIDE DEF p, x
    <3> QED BY <2>1, <3>1, <3>2, <3>3
  <2>4. LockInv' /\ RowInv' /\ BusyInv'
    BY <2>2 DEF IInv, LockInv, RowInv, BusyInv, InHandler, Relevant, IsRow
  <2>5. StampInv'
    BY <2>2 DEF IInv, StampInv, EventRow, NoRows
  <2>6. PlanInv'
    <3>1. Relevant(pcopy[w].direction, from[w])' = Relevant(pcopy[w].direction, from[w])
      BY <2>2 DEF Relevant
    <3>2. \A i \in 1..Len(plan'[w]) :
              /\ plan'[w][i].cmd.smt <= stamp[w]
              /\ \/ plan'[w][i].cmd.smt = stamp[w]
                 \/ plan'[w][i].to = from[w] /\ cur[w].op = "delete"
      BY <1>1, <2>2, TailPlan
    <3> HIDE DEF s, p, t, e, x
    <3> QED BY <2>1, <2>2, <3>1, <3>2 DEF PlanInv, s
  <2>7. ProgressInv'
    <3> SUFFICES ASSUME rows[s][x] = e
                 PROVE  Progress(w)'
      BY <2>1, <2>2 DEF ProgressInv, EventRow
    <3>1. Progress(w)
      BY <1>1, <2>1 DEF IInv, ProgressInv
    <3>2. plan[w] = << dispatchSync(t, e) >>
      BY <1>1, <1>3, <3>1 DEF Progress
    <3>3. plan'[w] = << >> /\ p = dispatchSync(t, e)
      BY <2>2, <3>2
    <3>4. p.to = t
      BY <3>3 DEF dispatchSync
    <3> QED BY <1>3, <2>2, <2>3, <3>3, <3>4 DEF Progress
  <2>8. HandledMeansResolved'
    <3> SUFFICES ASSUME NEW y \in settled
                 PROVE  IF pair.direction = "bidirectional"
                        THEN LWWResolved(y)' ELSE MirrorResolved(y)'
      BY <2>2 DEF HandledMeansResolved
    <3>1. y \in Paths /\ y # x
      BY <2>1 DEF IInv, TypeOK
    <3>2. \A u \in Sides : runs'[u][y] = runs[u][y]
      BY <2>3, <3>1
    <3>7. \A u \in Sides : <<u, y>> \in unrecorded' <=> <<u, y>> \in unrecorded
      BY <2>3, <3>1, Zenon
    <3>3. MirrorSource(pair.direction) \subseteq Sides
      BY DEF MirrorSource, Sides
    <3>4. \A u \in Sides : otherSide(u) \in Sides
      BY OtherSideType
    <3>5. CASE pair.direction = "bidirectional"
      BY <2>2, <3>1, <3>2, <3>4, <3>5
         DEF IInv, HandledMeansResolved, LWWResolved, Fetched, IsRow
    <3>6. CASE pair.direction # "bidirectional"
      <4>1. MirrorResolved(y)
        BY <3>6 DEF IInv, HandledMeansResolved
      <4>2. ASSUME NEW u \in MirrorSource(pair.direction), IsRow(rows[u][y])
            PROVE  \/ lastCmd'[otherSide(u)][y] = dispatchSync(otherSide(u), rows[u][y]).cmd
                   \/ runs'[otherSide(u)][y] = "failed"
                   \/ <<otherSide(u), y>> \in unrecorded'
        <5>1. otherSide(u) \in Sides
          BY <3>3, <3>4
        <5>2. \/ lastCmd[otherSide(u)][y] = dispatchSync(otherSide(u), rows[u][y]).cmd
              \/ runs[otherSide(u)][y] = "failed"
              \/ <<otherSide(u), y>> \in unrecorded
          BY <4>1, <4>2 DEF MirrorResolved
        <5>3. lastCmd' = lastCmd
          BY <2>2
        <5> QED BY <3>2, <3>7, <5>1, <5>2, <5>3, Zenon
      <4> QED BY <2>2, <3>6, <4>2 DEF MirrorResolved
    <3> QED BY <3>5, <3>6
  <2> QED BY <2>4, <2>5, <2>6, <2>7, <2>8 DEF IInv
<1> QED BY <1>2, <1>3

\* When the last send is done, the path is resolved.
LEMMA ReturnResolved ==
  ASSUME IInv, NEW w \in Workers, pc[w] = "send", plan[w] = << >>,
         pcopy[w].enabled, pcopy[w].direction = pair.direction,
         Relevant(pair.direction, from[w])
  PROVE  IF pair.direction = "bidirectional"
         THEN LWWResolved(cur[w].path) ELSE MirrorResolved(cur[w].path)
<1> DEFINE s == from[w]
           t == otherSide(s)
           x == cur[w].path
           e == EventRow(w)
           o == rows[t][x]
<1>1. s \in Sides /\ x \in Paths /\ t \in Sides /\ otherSide(t) = s /\ t # s
  BY OtherSideType DEF IInv, TypeOK, ClientEvent, Event
<1>2. CASE NoRows
  <2>1. \A u \in Sides : ~IsRow(rows[u][x])
    BY <1>1, <1>2 DEF NoRows, IsRow, NoRow
  <2>2. MirrorSource(pair.direction) \subseteq Sides
    BY DEF MirrorSource, Sides
  <2> QED BY <2>1, <2>2 DEF LWWResolved, MirrorResolved
<1>3. CASE rows[s][x] = e
  <2>1. Progress(w)
    BY <1>3 DEF IInv, ProgressInv
  <2>2. CASE pair.direction # "bidirectional"
    <3>1. \/ lastCmd[t][x] = dispatchSync(t, e).cmd
          \/ runs[t][x] = "failed" \/ <<t, x>> \in unrecorded
      BY <2>1, <2>2 DEF Progress
    <3>2. \A u \in MirrorSource(pair.direction) : u = s
      BY <2>2 DEF Relevant, MirrorSource
    <3> QED BY <1>3, <2>2, <3>1, <3>2 DEF MirrorResolved
  <2>3. CASE pair.direction = "bidirectional"
    <3>1. LWWResolved(x) \/ handleBidirectional(s, e, o) = << >>
      BY <2>1, <2>3 DEF Progress
    <3>2. /\ e \in Row /\ o \in Row /\ e.op \in Ops /\ o.smt < e.smt
          /\ e.smt \in Nat /\ o.smt \in Nat
          /\ IsRow(o) => (o.op = "write" <=> o.sha # NoSha)
      <4>1. o \in Row /\ e \in Row
        BY <1>1, EventRowType DEF IInv, TypeOK
      <4>2. e.op \in Ops /\ e.smt = stamp[w] /\ e.smt \in Nat /\ o.smt \in Nat
        BY <4>1 DEF IInv, TypeOK, EventRow, Row, ClientEvent, Event
      <4>3. rows[t][x].smt < stamp[w]
        <5>1. <<t, x>> # <<from[w], cur[w].path>>
          BY <1>1
        <5> QED BY <1>1, <5>1 DEF IInv, StampInv
      <4>4. IsRow(o) => (o.op = "write" <=> o.sha # NoSha)
        BY <1>1 DEF IInv, RowInv
      <4> QED BY <4>1, <4>2, <4>3, <4>4
    <3>3. ASSUME handleBidirectional(s, e, o) = << >>
          PROVE  \/ e.op = "delete" /\ o.op = "delete"
                 \/ e.op = "write" /\ o.op = "write" /\ e.sha = o.sha
      <4>1. decideLWW(e, o) = "None"
        <5>1. decideLWW(e, o) # "Dispatch"
          BY <3>3 DEF handleBidirectional
        <5>2. decideLWW(e, o) # "Conflict"
          BY <3>3 DEF handleBidirectional, dispatchConflict
        <5>3. decideLWW(e, o) # "EditWins"
          <6> SUFFICES ASSUME decideLWW(e, o) = "EditWins" PROVE FALSE
            OBVIOUS
          <6>1. e.op # o.op /\ IsRow(o)
            BY DEF decideLWW
          <6>2. handleEditWins(s, e, o) = << >>
            BY <3>3 DEF handleBidirectional
          <6>3. e.op # "write" /\ o.sha = NoSha
            BY <6>2 DEF handleEditWins
          <6> QED BY <3>2, <6>1, <6>3 DEF Ops, Row, IsRow
        <5> QED BY <5>1, <5>2, <5>3 DEF decideLWW
      <4> QED BY <3>2, <4>1 DEF decideLWW, IsRow, Ops, Row
    <3>4. ASSUME handleBidirectional(s, e, o) = << >>
          PROVE  LWWResolved(x)
      <4>1. \A u \in Sides : u = s \/ u = t
        BY <1>1 DEF Sides, otherSide
      <4>2. \/ e.op = "delete" /\ o.op = "delete"
            \/ e.op = "write" /\ o.op = "write" /\ e.sha = o.sha
        BY <3>3, <3>4
      <4>3. rows[s][x] = e /\ rows[t][x] = o /\ otherSide(s) = t /\ otherSide(t) = s
        BY <1>1, <1>3
      <4> HIDE DEF e, o, s, t, x
      <4> QED BY <3>2, <4>1, <4>2, <4>3 DEF LWWResolved
    <3> QED BY <2>3, <3>1, <3>4
  <2> QED BY <2>2, <2>3
<1> QED BY <1>2, <1>3 DEF IInv, StampInv

LEMMA ReturnStep ==
  ASSUME IInv, TypeOK', NEW w \in Workers, Return(w)
  PROVE  IInv'
<1>1. pc[w] = "send" /\ plan[w] = << >> /\ InHandler(w) /\ lock = w
  BY DEF Return, InHandler, IInv, LockInv
<1>2. OthersUnchanged(w) /\ ~InHandler(w)' /\ LockInv'
  BY <1>1, LeaveFacts DEF Return, IInv
<1>3. UNCHANGED <<store, clock, lastCmd, unrecorded>>
  BY DEF Return
<1>4. RowInv' /\ StampInv' /\ PlanInv' /\ ProgressInv'
  BY <1>2, <1>3, Frame
<1>5. \A v \in Workers : ~InHandler(v)'
  BY <1>1, <1>2 DEF IInv, LockInv, OthersUnchanged, InHandler
<1>6. BusyInv'
  BY <1>5 DEF BusyInv
<1>7. pair' = pair /\ rows' = rows /\ runs' = runs /\ unrecorded' = unrecorded /\ lastCmd' = lastCmd
  BY <1>3 DEF store
<1>8. \A x \in settled' : IF pair.direction = "bidirectional"
                          THEN LWWResolved(x) ELSE MirrorResolved(x)
  <2>1. CASE /\ pcopy[w].enabled
             /\ pcopy[w].direction = pair.direction
             /\ Relevant(pair.direction, from[w])
    <3>1. settled' = settled \cup {cur[w].path}
      BY <2>1 DEF Return
    <3> QED BY <1>1, <2>1, <3>1, ReturnResolved DEF IInv, HandledMeansResolved
  <2>2. CASE ~(/\ pcopy[w].enabled
               /\ pcopy[w].direction = pair.direction
               /\ Relevant(pair.direction, from[w]))
    <3>1. settled' = settled
      BY <2>2 DEF Return
    <3> QED BY <3>1 DEF IInv, HandledMeansResolved
  <2> QED BY <2>1, <2>2
<1>9. HandledMeansResolved'
  BY <1>7, <1>8 DEF HandledMeansResolved, LWWResolved, MirrorResolved, Fetched, IsRow
<1> QED BY <1>2, <1>4, <1>6, <1>9 DEF IInv

LEMMA UpsertPairStep ==
  ASSUME IInv, TypeOK', NEW d \in Directions, NEW b \in BOOLEAN, UpsertPair(d, b)
  PROVE  IInv'
<1>1. /\ rows' = rows /\ runs' = runs /\ unrecorded' = unrecorded /\ clock' = clock /\ lock' = lock /\ lastCmd' = lastCmd
      /\ pc' = pc /\ from' = from /\ cur' = cur /\ pcopy' = pcopy /\ stamp' = stamp /\ plan' = plan
      /\ pair'.exists /\ pair'.direction = d
      /\ settled' = IF d = pair.direction THEN settled ELSE {}
  BY DEF UpsertPair, locals
<1>2. LockInv' /\ RowInv' /\ PlanInv'
  BY <1>1 DEF IInv, LockInv, RowInv, PlanInv, InHandler, IsRow, Relevant
<1>3. StampInv'
  BY <1>1 DEF IInv, StampInv, EventRow, NoRows
<1>4. ProgressInv'
  <2> SUFFICES ASSUME NEW v \in Workers, pc'[v] = "send", pcopy'[v].enabled,
                      Relevant(pcopy[v].direction, from[v])',
                      rows'[from'[v]][cur'[v].path] = EventRow(v)'
               PROVE  Progress(v)'
    BY DEF ProgressInv
  <2>1. Progress(v)
    BY <1>1 DEF IInv, ProgressInv, EventRow, Relevant
  <2> QED BY <1>1, <2>1, ProgressKept
<1>5. BusyInv' /\ HandledMeansResolved'
  <2>1. CASE d = pair.direction
    BY <1>1, <2>1 DEF IInv, BusyInv, InHandler, Relevant, HandledMeansResolved,
                      LWWResolved, MirrorResolved, Fetched, IsRow
  <2>2. CASE d # pair.direction
    BY <1>1, <2>2 DEF BusyInv, HandledMeansResolved
  <2> QED BY <2>1, <2>2
<1> QED BY <1>2, <1>3, <1>4, <1>5 DEF IInv

LEMMA DeletePairStep ==
  ASSUME IInv, TypeOK', DeletePair
  PROVE  IInv'
<1>1. /\ clock' = clock /\ lock' = lock /\ lastCmd' = lastCmd
      /\ pc' = pc /\ from' = from /\ cur' = cur /\ pcopy' = pcopy /\ stamp' = stamp /\ plan' = plan
      /\ settled' = {}
      /\ \A s \in Sides, x \in Paths : rows'[s][x] = NoRow
  BY DEF DeletePair, locals
<1>2. LockInv' /\ PlanInv' /\ BusyInv' /\ HandledMeansResolved'
  BY <1>1 DEF IInv, LockInv, PlanInv, InHandler, Relevant, BusyInv, HandledMeansResolved
<1>3. RowInv'
  BY <1>1 DEF RowInv, NoRow, IsRow, IInv, TypeOK
<1>4. StampInv'
  BY <1>1 DEF IInv, StampInv, EventRow, NoRows, NoRow
<1>5. ProgressInv'
  <2> SUFFICES ASSUME NEW w \in Workers, rows'[from'[w]][cur'[w].path] = EventRow(w)'
               PROVE  FALSE
    BY DEF ProgressInv
  <2>1. from[w] \in Sides /\ cur[w].path \in Paths /\ cur[w].op # "none"
    BY DEF IInv, TypeOK, ClientEvent, Event, Ops
  <2> QED BY <1>1, <2>1 DEF EventRow, NoRow
<1> QED BY <1>2, <1>3, <1>4, <1>5 DEF IInv

LEMMA TickStep ==
  ASSUME IInv, TypeOK', Tick
  PROVE  IInv'
<1>1. /\ rows' = rows /\ runs' = runs /\ unrecorded' = unrecorded /\ clock' = clock + 1 /\ lock' = lock
      /\ lastCmd' = lastCmd /\ pair' = pair /\ settled' = settled
      /\ pc' = pc /\ from' = from /\ cur' = cur /\ pcopy' = pcopy /\ stamp' = stamp /\ plan' = plan
  BY DEF Tick, store, locals
<1>2. /\ clock \in Nat
      /\ \A s \in Sides, x \in Paths : rows[s][x].smt \in Nat /\ lastCmd[s][x].smt \in Nat
      /\ \A w \in Workers : stamp[w] \in Nat
  <2>1. clock \in Nat /\ stamp \in [Workers -> Nat]
    BY DEF IInv, TypeOK
  <2>2. \A s \in Sides, x \in Paths : rows[s][x] \in Row /\ lastCmd[s][x] \in Cmd
    BY DEF IInv, TypeOK
  <2> QED BY <2>1, <2>2 DEF Row, Cmd
<1>3. RowInv' /\ StampInv'
  BY <1>1, <1>2 DEF IInv, RowInv, StampInv, EventRow, NoRows, IsRow
<1>4. LockInv' /\ PlanInv' /\ BusyInv'
  BY <1>1 DEF IInv, LockInv, PlanInv, InHandler, Relevant, BusyInv
<1>5. ProgressInv'
  <2> SUFFICES ASSUME NEW v \in Workers, pc'[v] = "send", pcopy'[v].enabled,
                      Relevant(pcopy[v].direction, from[v])',
                      rows'[from'[v]][cur'[v].path] = EventRow(v)'
               PROVE  Progress(v)'
    BY DEF ProgressInv
  <2>1. Progress(v)
    BY <1>1 DEF IInv, ProgressInv, EventRow, Relevant
  <2> QED BY <1>1, <2>1, ProgressKept
<1>6. HandledMeansResolved'
  BY <1>1 DEF IInv, HandledMeansResolved, LWWResolved, MirrorResolved, Fetched, IsRow
<1> QED BY <1>3, <1>4, <1>5, <1>6 DEF IInv

LEMMA StutterStep ==
  ASSUME IInv, UNCHANGED vars
  PROVE  IInv'
<1>1. /\ rows' = rows /\ runs' = runs /\ unrecorded' = unrecorded /\ clock' = clock /\ lock' = lock /\ todo' = todo
      /\ lastCmd' = lastCmd /\ pair' = pair /\ settled' = settled
      /\ pc' = pc /\ from' = from /\ cur' = cur /\ pcopy' = pcopy /\ stamp' = stamp /\ plan' = plan
  BY DEF vars, store, locals
<1>2. TypeOK'
  BY <1>1 DEF IInv, TypeOK
<1>3. RowInv' /\ StampInv' /\ LockInv' /\ PlanInv' /\ BusyInv'
  BY <1>1 DEF IInv, RowInv, StampInv, EventRow, NoRows, IsRow, LockInv, PlanInv, InHandler,
              Relevant, BusyInv
<1>4. ProgressInv'
  <2> SUFFICES ASSUME NEW v \in Workers, pc'[v] = "send", pcopy'[v].enabled,
                      Relevant(pcopy[v].direction, from[v])',
                      rows'[from'[v]][cur'[v].path] = EventRow(v)'
               PROVE  Progress(v)'
    BY DEF ProgressInv
  <2>1. Progress(v)
    BY <1>1 DEF IInv, ProgressInv, EventRow, Relevant
  <2> QED BY <1>1, <2>1, ProgressKept
<1>5. HandledMeansResolved'
  BY <1>1 DEF IInv, HandledMeansResolved, LWWResolved, MirrorResolved, Fetched, IsRow
<1> QED BY <1>2, <1>3, <1>4, <1>5 DEF IInv

LEMMA IInvStep == IInv /\ [Next]_vars => IInv'
<1> SUFFICES ASSUME IInv, [Next]_vars PROVE IInv'
  OBVIOUS
<1>1. TypeOK'
  BY TypeStep DEF IInv
<1>2. ASSUME NEW w \in Workers, NEW s \in Sides, NEW e \in ClientEvent, Receive(w, s, e)
      PROVE  IInv'
  BY <1>1, <1>2, ReceiveStep
<1>3. ASSUME NEW w \in Workers, NEW s \in Sides,
             NEW snap \in [Paths -> Shas \cup {NoSha}], ApplyDiff(w, s, snap)
      PROVE  IInv'
  BY <1>1, <1>3, ReceiveStep
<1>4. ASSUME NEW w \in Workers, Handle(w)
      PROVE  IInv'
  <2>1. ASSUME NEW e \in todo[w], Begin(w, e) PROVE IInv'
    BY <1>1, <2>1, BeginStep
  <2>2. CASE Upsert(w)
    BY <1>1, <2>2, UpsertStep
  <2>3. CASE StoreError(w)
    BY <1>1, <2>3, ErrorStep DEF StoreError, InHandler
  <2>4. CASE Decide(w)
    BY <1>1, <2>4, DecideStep
  <2>5. CASE DecideUnknown(w)
    BY <1>1, <2>5, ErrorStep DEF DecideUnknown, InHandler
  <2>6. CASE SendOk(w)
    BY <1>1, <2>6, SendOkStep
  <2>7. CASE SendFail(w)
    BY <1>1, <2>7, SendFailStep
  <2>8. CASE Return(w)
    BY <1>1, <2>8, ReturnStep
  <2> QED BY <1>4, <2>1, <2>2, <2>3, <2>4, <2>5, <2>6, <2>7, <2>8 DEF Handle
<1>5. CASE Environment
  BY <1>1, <1>5, UpsertPairStep, DeletePairStep, TickStep DEF Environment
<1>6. CASE UNCHANGED vars
  BY <1>6, StutterStep
<1> QED BY <1>2, <1>3, <1>4, <1>5, <1>6 DEF Next

LEMMA Invariance == Spec => []IInv
  BY InitIInv, IInvStep, PTL DEF Spec

\* The precondition of decideLWW (lww.go:39), for any number of concurrent
\* handlers: the event in hand is stored and newer than every other row.
THEOREM EventIsNewestCorrect == Spec => []EventIsNewest
<1>1. IInv => EventIsNewest
  <2> SUFFICES ASSUME IInv, NEW w \in Workers, pc[w] \in {"dispatch", "send"}
               PROVE  /\ rows[from[w]][cur[w].path] \in {EventRow(w), NoRow}
                      /\ \A s \in Sides, x \in Paths :
                            <<s, x>> # <<from[w], cur[w].path>> => rows[s][x].smt < stamp[w]
    BY DEF EventIsNewest
  <2>1. from[w] \in Sides /\ cur[w].path \in Paths
    BY DEF IInv, TypeOK, ClientEvent, Event
  <2> QED BY <2>1 DEF IInv, StampInv, NoRows
<1> QED BY <1>1, Invariance, PTL

\* HandleFileChanged keeps its promise to both kinds of pair: once a path's
\* last relevant event has been handled without an error, the commands sent
\* agree with the rows, whatever ran in between; a one-way pair may have the
\* failed send on record instead, and has neither only if the insert of that
\* record failed with the send (engine.go:286 ignores it).
THEOREM HandledMeansResolvedCorrect == Spec => []HandledMeansResolved
<1>1. IInv => HandledMeansResolved
  BY DEF IInv
<1> QED BY <1>1, Invariance, PTL

\* Only an accepted send changes what a client was last told.
LEMMA OnlySendOk ==
  ASSUME IInv, [Next]_vars, lastCmd' # lastCmd
  PROVE  \E w \in Workers : SendOk(w)
<1>1. CASE UNCHANGED vars
  BY <1>1 DEF vars
<1>2. CASE Environment
  BY <1>2 DEF Environment, UpsertPair, DeletePair, Tick
<1>3. ASSUME NEW w \in Workers, Handle(w)
      PROVE  SendOk(w)
  BY <1>3 DEF Handle, Begin, Upsert, StoreError, Decide, DecideUnknown, SendFail, Return
<1>4. ASSUME NEW w \in Workers, NEW s \in Sides, NEW e \in ClientEvent, Receive(w, s, e)
      PROVE  FALSE
  BY <1>4 DEF Receive
<1>5. ASSUME NEW w \in Workers, NEW s \in Sides,
             NEW snap \in [Paths -> Shas \cup {NoSha}], ApplyDiff(w, s, snap)
      PROVE  FALSE
  BY <1>5 DEF ApplyDiff
<1> QED BY <1>1, <1>2, <1>3, <1>4, <1>5 DEF Next

\* What an accepted send changes, and the head of the plan it sends.
LEMMA SendOkHead ==
  ASSUME IInv, NEW w \in Workers, SendOk(w)
  PROVE  /\ pc[w] = "send" /\ InHandler(w)
         /\ plan[w] # << >> /\ plan[w] \in Seq(Send)
         /\ Head(plan[w]) = plan[w][1] /\ 1 \in 1..Len(plan[w])
         /\ cur[w].path \in Paths
         /\ \A s \in Sides, x \in Paths :
               lastCmd'[s][x] = IF s = Head(plan[w]).to /\ x = cur[w].path
                                THEN Head(plan[w]).cmd ELSE lastCmd[s][x]
<1>1. /\ pc[w] = "send" /\ plan[w] # << >>
      /\ lastCmd' = [lastCmd EXCEPT ![Head(plan[w]).to][cur[w].path] = Head(plan[w]).cmd]
  BY DEF SendOk
<1>2. plan[w] \in Seq(Send) /\ cur[w].path \in Paths
  BY DEF IInv, TypeOK, ClientEvent, Event
<1>3. Head(plan[w]) = plan[w][1] /\ 1 \in 1..Len(plan[w])
  BY <1>1, <1>2
<1>4. Head(plan[w]).to \in Sides
  BY <1>1, SendFacts
<1>5. lastCmd \in [Sides -> [Paths -> Cmd]]
  BY DEF IInv, TypeOK
<1> QED BY <1>1, <1>2, <1>3, <1>4, <1>5 DEF InHandler

LEMMA StampOrder == IInv /\ [Next]_vars => [StampOrderStep]_vars
<1> SUFFICES ASSUME IInv, [Next]_vars, NEW s \in Sides, NEW x \in Paths,
                    ~(lastCmd'[s][x].smt >= lastCmd[s][x].smt)
             PROVE  \E w \in Workers : /\ InHandler(w) /\ from[w] = s
                                       /\ cur[w].path = x /\ cur[w].op = "delete"
  <2>1. StampOrderStep => [StampOrderStep]_vars
    OBVIOUS
  <2> QED BY <2>1 DEF StampOrderStep
<1>1. lastCmd[s][x].smt \in Nat
  <2>1. lastCmd[s][x] \in Cmd
    BY DEF IInv, TypeOK
  <2> QED BY <2>1 DEF Cmd
<1>2. lastCmd'[s][x] # lastCmd[s][x]
  BY <1>1
<1>3. PICK w \in Workers : SendOk(w)
  BY <1>2, OnlySendOk
<1>4. /\ pc[w] = "send" /\ InHandler(w)
      /\ s = plan[w][1].to /\ x = cur[w].path /\ lastCmd'[s][x] = plan[w][1].cmd
      /\ 1 \in 1..Len(plan[w])
  BY <1>2, <1>3, SendOkHead
<1>5. \/ plan[w][1].cmd.smt = stamp[w]
      \/ plan[w][1].to = from[w] /\ cur[w].op = "delete"
  BY <1>4 DEF IInv, PlanInv
<1>6. lastCmd[s][x].smt <= stamp[w] /\ stamp[w] \in Nat
  BY <1>4 DEF IInv, StampInv, TypeOK
<1> QED BY <1>1, <1>4, <1>5, <1>6

\* A client is never sent superseded content, except when it has just deleted
\* the file and gets the other side's edit back, for any number of handlers.
THEOREM CommandsInStampOrderCorrect == Spec => CommandsInStampOrder
  BY Invariance, StampOrder, PTL DEF Spec, CommandsInStampOrder

LEMMA Overwrite == IInv /\ [Next]_vars => [OverwriteStep]_vars
<1> SUFFICES ASSUME IInv, [Next]_vars, NEW s \in Sides, NEW x \in Paths,
                    lastCmd'[s][x] # lastCmd[s][x], Overwrites(s, x, lastCmd'[s][x])
             PROVE  lastCmd[s][x].op = "rename"
  <2>1. OverwriteStep => [OverwriteStep]_vars
    OBVIOUS
  <2> QED BY <2>1 DEF OverwriteStep
<1>1. PICK w \in Workers : SendOk(w)
  BY OnlySendOk
<1> DEFINE p == Head(plan[w])
           u == from[w]
           t == otherSide(u)
           e == EventRow(w)
           o == rows[t][x]
<1>2. /\ pc[w] = "send" /\ InHandler(w) /\ plan[w] # << >>
      /\ s = p.to /\ x = cur[w].path /\ lastCmd'[s][x] = p.cmd
  BY <1>1, SendOkHead
<1>3. /\ p.cmd.op = "fetch"
      /\ rows[s][x].op = "write" /\ rows[s][x].sha # p.cmd.sha
      /\ p.cmd.smt > rows[s][x].smt /\ p.cmd.smt - rows[s][x].smt < ConflictWindow
      /\ pcopy[w].direction = "bidirectional"
  BY <1>2 DEF Overwrites
<1>4. rows[u][x] = e
  <2>1. ~NoRows
    BY <1>3 DEF NoRows, NoRow
  <2> QED BY <1>2, <2>1 DEF IInv, StampInv
<1>5. u \in Sides /\ t \in Sides /\ t # u
  BY OtherSideType DEF IInv, TypeOK
<1>6. e.op \in Ops /\ e.smt \in Nat /\ o.smt \in Nat /\ e.smt > o.smt
  <2>1. rows[t][x] \in Row
    BY <1>5 DEF IInv, TypeOK
  <2>2. cur[w].op \in Ops /\ stamp[w] \in Nat
    BY DEF IInv, TypeOK, ClientEvent, Event
  <2>3. <<t, x>> # <<from[w], cur[w].path>>
    BY <1>5
  <2>4. rows[t][x].smt < stamp[w]
    BY <1>2, <1>5, <2>3 DEF IInv, StampInv
  <2> QED BY <2>1, <2>2, <2>4 DEF Row, EventRow
<1>7. \/ plan[w] = handleBidirectional(u, e, o)
      \/ plan[w] = << Fetch(t, e), Fetch(u, e) >> /\ lastCmd[t][x].op = "rename"
      \/ plan[w] = << Fetch(u, e) >>
  <2>1. Progress(w)
    BY <1>2, <1>4, SendFacts DEF IInv, ProgressInv
  <2> QED BY <1>2, <1>3, <2>1 DEF Progress
<1>8. CASE plan[w] = << Fetch(t, e), Fetch(u, e) >> /\ lastCmd[t][x].op = "rename"
  <2>1. p = Fetch(t, e)
    BY <1>8
  <2> QED BY <1>2, <1>8, <2>1 DEF Fetch
<1>9. CASE plan[w] = << Fetch(u, e) >>
  <2>1. p = Fetch(u, e)
    BY <1>9
  <2>2. s = u /\ p.cmd.sha = e.sha
    BY <1>2, <2>1 DEF Fetch
  <2> QED BY <1>3, <1>4, <2>2
<1>10. CASE plan[w] = handleBidirectional(u, e, o)
  <2>1. CASE decideLWW(e, o) = "Dispatch"
    <3>1. p = dispatchSync(t, e)
      BY <1>10, <2>1 DEF handleBidirectional
    <3>2. s = t /\ p.cmd.sha = e.sha /\ p.cmd.smt = e.smt /\ e.op # "delete"
      BY <1>2, <1>3, <3>1 DEF dispatchSync
    <3>3. e.op = "write" /\ o.op = "write" /\ o.sha # e.sha /\ e.smt - o.smt < ConflictWindow
      BY <1>3, <1>6, <3>2 DEF Ops
    <3>4. o.smt - e.smt < ConflictWindow
      BY <1>6, <3>3, EngineAssumption
    <3> HIDE DEF e, o
    <3> QED BY <2>1, <3>3, <3>4 DEF decideLWW, IsRow
  <2>2. CASE decideLWW(e, o) = "EditWins"
    <3>1. e.op # o.op
      BY <2>2 DEF decideLWW
    <3>2. plan[w] = handleEditWins(u, e, o)
      BY <1>10, <2>2 DEF handleBidirectional
    <3>3. CASE e.op = "write"
      <4>1. p = dispatchSync(t, e)
        BY <3>2, <3>3 DEF handleEditWins
      <4>2. s = t
        BY <1>2, <4>1 DEF dispatchSync
      <4> QED BY <1>3, <3>1, <3>3, <4>2
    <3>4. CASE e.op = "delete"
      <4>11. handleEditWins(u, e, o) \in {<< >>, << Fetch(u, o) >>}
        BY <3>4 DEF handleEditWins
      <4> DEFINE g == Fetch(u, o)
      <4>12. plan[w] = << g >>
        BY <1>2, <3>2, <4>11
      <4>13. Head(<< g >>) = g
        OBVIOUS
      <4>1. p = Fetch(u, o)
        BY <4>12, <4>13
      <4>2. s = u
        BY <1>2, <4>1 DEF Fetch
      <4> QED BY <1>3, <1>4, <3>4, <4>2
    <3> QED BY <1>6, <3>3, <3>4 DEF Ops
  <2>3. CASE decideLWW(e, o) = "Conflict"
    <3>1. plan[w] = dispatchConflict(u, e, t)
      BY <1>6, <1>10, <2>3 DEF handleBidirectional
    <3>2. p.cmd.op = "rename"
      BY <3>1 DEF dispatchConflict
    <3> QED BY <1>3, <3>2
  <2>4. CASE decideLWW(e, o) = "None"
    BY <1>2, <1>10, <2>4 DEF handleBidirectional
  <2>5. decideLWW(e, o) \in {"None", "Dispatch", "EditWins", "Conflict"}
    BY DEF decideLWW
  <2> QED BY <2>1, <2>2, <2>3, <2>4, <2>5
<1> QED BY <1>7, <1>8, <1>9, <1>10

\* No silent overwrite (conflict.go:25-29): content written within the
\* conflict window is replaced only after the command that renames it.
THEOREM NoOverwriteCorrect == Spec => NoOverwriteWithoutRename
  BY Invariance, Overwrite, PTL DEF Spec, NoOverwriteWithoutRename
=============================================================================
