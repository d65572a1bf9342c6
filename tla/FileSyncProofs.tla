--------------------------- MODULE FileSyncProofs ---------------------------
(***************************************************************************)
(* Proofs about FileSync, the end-to-end model of one file, for any        *)
(* environments, contents, bounds and conflict window: type correctness,   *)
(* SourceUntouched, LastChangeWins and LastWriteWins.                      *)
(*                                                                         *)
(* The invariant says where the last change is at every moment: with the   *)
(* debouncer, in an event, in a command or on the other disk (MirrorInv    *)
(* for one-way pairs, TurnInv for bidirectional ones).                     *)
(***************************************************************************)
EXTENDS FileSync, SequenceTheorems, TLAPS

-----------------------------------------------------------------------------
(* The operators of the model.                                             *)

LEMMA OtherSideFacts ==
  \A s \in Sides : /\ otherSide(s) \in Sides /\ otherSide(s) # s
                   /\ otherSide(otherSide(s)) = s
                   /\ Sides = {s, otherSide(s)}
  BY DEF Sides, otherSide

LEMMA RunnerFacts == 1 \in Runners /\ Runners \subseteq Nat \ {0}
  BY FileSyncAssumption DEF Runners

LEMMA EnvFacts ==
  ASSUME env \in Environments
  PROVE  /\ env \in Environment
         /\ env.maxChanges \in Nat
         /\ env.direction \in {"bidirectional", "a_to_b", "b_to_a"}
         /\ env.contents \subseteq Shas
  BY FileSyncAssumption DEF Environment

LEMMA EventFacts ==
  /\ DeleteEvent \in Event
  /\ \A c \in Shas : WriteEvent(c) \in Event
  /\ \A e \in Event : /\ e.op \in Ops /\ e.sha \in Shas \cup {NoSha}
                      /\ e.op = "write" <=> e.sha # NoSha
                      /\ e.op = "delete" <=> e.sha = NoSha
                      /\ EventRow(e) \in Row /\ EventRow(e).op = e.op /\ EventRow(e).sha = e.sha
                      /\ EventRow(e).smt = ConflictWindow
  BY FileSyncAssumption DEF Event, DeleteEvent, WriteEvent, Ops, EventRow, Row

\* Aging a row changes its stamp only.
LEMMA AgedFacts ==
  ASSUME NEW r \in Row, NEW gap \in {1, ConflictWindow}
  PROVE  /\ Aged(r, gap) \in Row
         /\ Aged(r, gap).op = r.op /\ Aged(r, gap).sha = r.sha
         /\ Aged(r, gap).smt <= r.smt
  BY FileSyncAssumption DEF Aged, Row

LEMMA AddFacts ==
  ASSUME NEW e \in Suppression, NEW c \in Shas \cup {NoSha}
  PROVE  Add(e, c) \in Suppression
  BY DEF Add, Suppression

LEMMA NoSnapFacts ==
  /\ NoSnap \in Snap /\ Asked \in Snap /\ NoSnap # Asked
  /\ NoSnap.state = "none" /\ NoSnap.sha = NoSha /\ Asked.sha = NoSha
  BY DEF NoSnap, Asked, Snap

\* The commands for a side come from the sends to it.
LEMMA CmdsForSet ==
  ASSUME NEW s, NEW plan
  PROVE  CmdsFor(s, plan) \in Seq({OnWire(plan[j]) : j \in {k \in DOMAIN plan : plan[k].to = s}})
<1> DEFINE S == {OnWire(plan[j]) : j \in {k \in DOMAIN plan : plan[k].to = s}}
           Sent(i) == IF Made(plan, i) /\ plan[i].to = s
                      THEN << OnWire(plan[i]) >> ELSE << >>
<1>1. \A i : Sent(i) \in Seq(S)
  <2> SUFFICES ASSUME NEW i PROVE Sent(i) \in Seq(S)
    OBVIOUS
  <2>1. CASE Made(plan, i) /\ plan[i].to = s
    <3>1. OnWire(plan[i]) \in S
      BY <2>1 DEF Made
    <3> QED BY <2>1, <3>1
  <2>2. CASE ~(Made(plan, i) /\ plan[i].to = s)
    BY <2>2
  <2> QED BY <2>1, <2>2
<1> HIDE DEF S, Sent
<1>2. Sent(1) \o Sent(2) \in Seq(S)
  BY <1>1, ConcatProperties
<1>3. Sent(1) \o Sent(2) \o Sent(3) \in Seq(S)
  BY <1>1, <1>2, ConcatProperties
<1> QED BY <1>3 DEF CmdsFor, S, Sent

LEMMA CmdsForNone ==
  ASSUME NEW s, NEW plan, \A k \in DOMAIN plan : plan[k].to # s
  PROVE  CmdsFor(s, plan) = << >>
<1>1. {OnWire(plan[j]) : j \in {k \in DOMAIN plan : plan[k].to = s}} = {}
  OBVIOUS
<1>2. CmdsFor(s, plan) \in Seq({})
  BY <1>1, CmdsForSet
<1> QED BY <1>2, ElementOfSeq, LenProperties, EmptySeq

\* What plans consist of: the sends of a plan are commands with the content of
\* the event or of the other side's row, and a one-way plan spares the source.
LEMMA PlanFacts ==
  ASSUME TypeOK, NEW s \in Sides, NEW ev \in Event, NEW gap \in {1, ConflictWindow}
  PROVE  \A k \in DOMAIN Plan(s, ev, gap) : LET p == Plan(s, ev, gap)[k] IN
           /\ p.to \in Sides \ MirrorSource(env.direction)
           /\ OnWire(p) \in Command
           /\ p.cmd.sha \in {NoSha, ev.sha, rows[otherSide(s)].sha}
<1> DEFINE e == EventRow(ev)
           o == Aged(rows[otherSide(s)], gap)
           plan == Plan(s, ev, gap)
           Good(p) == /\ p.to \in Sides \ MirrorSource(env.direction)
                      /\ OnWire(p) \in Command
                      /\ p.cmd.sha \in {NoSha, ev.sha, rows[otherSide(s)].sha}
<1>1. e \in Row /\ o \in Row /\ e.sha = ev.sha /\ o.sha = rows[otherSide(s)].sha
  BY EventFacts, AgedFacts, OtherSideFacts DEF TypeOK
<1>0. \A t \in Sides : current[t] \in Runners
  BY DEF TypeOK
<1>2. \A t \in Sides \ MirrorSource(env.direction), r \in {e, o} :
         Good(dispatchSync(t, r)) /\ Good(Fetch(t, r))
  BY <1>0, <1>1 DEF dispatchSync, Fetch, OnWire, Command, Row
<1>3. \A t \in Sides \ MirrorSource(env.direction), r \in {e, o} :
         Good([to |-> t, run |-> FALSE, cmd |-> [op |-> "rename", sha |-> NoSha, smt |-> r.smt]])
  BY <1>0 DEF OnWire, Command
<1> HIDE DEF Good, e, o
<1>4. CASE env.direction = "bidirectional"
  <2>1. Sides \ MirrorSource(env.direction) = Sides
    BY <1>4 DEF MirrorSource
  <2>2. \A t, u \in Sides, r \in {e, o} : \A k \in DOMAIN dispatchConflict(t, r, u) :
           Good(dispatchConflict(t, r, u)[k])
    <3> TAKE t, u \in Sides, r \in {e, o}
    <3> DEFINE rn == [to |-> u, run |-> FALSE,
                      cmd |-> [op |-> "rename", sha |-> NoSha, smt |-> r.smt]]
               f == Fetch(u, r)
               g == Fetch(t, r)
    <3>1. Good(rn) /\ Good(f) /\ Good(g)
      BY <2>1, <1>2, <1>3
    <3>2. dispatchConflict(t, r, u) = << rn, f, g >>
      BY DEF dispatchConflict
    <3> HIDE DEF rn, f, g
    <3> QED BY <3>1, <3>2
  <2>3. \A k \in DOMAIN handleBidirectional(s, e, o) : Good(handleBidirectional(s, e, o)[k])
    BY <2>1, <2>2, <1>2, OtherSideFacts DEF handleBidirectional, handleEditWins
  <2> QED BY <2>3, <1>4 DEF Plan, Good, e, o
<1>5. CASE env.direction # "bidirectional"
  <2>1. s \in MirrorSource(env.direction) => otherSide(s) \in Sides \ MirrorSource(env.direction)
    BY OtherSideFacts DEF MirrorSource
  <2>2. \A k \in DOMAIN resolveMirrorTargets(env.direction, s, e) :
           Good(resolveMirrorTargets(env.direction, s, e)[k])
    BY <2>1, <1>2 DEF resolveMirrorTargets
  <2> QED BY <2>2, <1>5 DEF Plan, Good, e
<1> QED BY <1>4, <1>5
\* What HandleFileChanged adds to the commands of each side, and to the rows.
LEMMA HandleFacts ==
  ASSUME TypeOK, NEW s \in Sides, NEW ev \in Event, NEW gap \in {1, ConflictWindow},
         HandleFileChanged(s, ev, gap)
  PROVE  /\ rows' \in [Sides -> Row] /\ cmds' \in [Sides -> Seq(Command)]
         /\ \A t \in Sides : /\ rows'[t].sha \in {ev.sha, rows[t].sha}
                             /\ rows'[t].smt <= ConflictWindow
                             /\ cmds'[t] = cmds[t] \o CmdsFor(t, Plan(s, ev, gap))
                             /\ CmdsFor(t, Plan(s, ev, gap)) \in Seq(Command)
                             /\ t \in MirrorSource(env.direction) => cmds'[t] = cmds[t]
                             /\ \A i \in DOMAIN CmdsFor(t, Plan(s, ev, gap)) :
                                  CmdsFor(t, Plan(s, ev, gap))[i].sha
                                      \in {NoSha, ev.sha, rows[otherSide(s)].sha}
<1>1. \A t \in Sides : /\ rows[t] \in Row
                       /\ Aged(rows[t], gap) \in Row /\ Aged(rows[t], gap).sha = rows[t].sha
                       /\ Aged(rows[t], gap).smt <= ConflictWindow
  <2>1. ConflictWindow \in Nat
    BY FileSyncAssumption
  <2>2. \A t \in Sides : rows[t] \in Row /\ rows[t].smt <= ConflictWindow
    BY DEF TypeOK
  <2>3. \A r \in Row : r.smt \in Nat
    BY DEF Row
  <2> QED BY <2>1, <2>2, <2>3, AgedFacts
<1>2. /\ rows' \in [Sides -> Row]
      /\ \A t \in Sides : /\ rows'[t].sha \in {ev.sha, rows[t].sha}
                          /\ rows'[t].smt <= ConflictWindow
  BY <1>1, EventFacts, FileSyncAssumption DEF HandleFileChanged
<1>3. ASSUME NEW t \in Sides
      PROVE  /\ cmds'[t] = cmds[t] \o CmdsFor(t, Plan(s, ev, gap))
             /\ CmdsFor(t, Plan(s, ev, gap)) \in Seq(Command)
             /\ cmds'[t] \in Seq(Command)
             /\ t \in MirrorSource(env.direction) => cmds'[t] = cmds[t]
             /\ \A i \in DOMAIN CmdsFor(t, Plan(s, ev, gap)) :
                  CmdsFor(t, Plan(s, ev, gap))[i].sha
                      \in {NoSha, ev.sha, rows[otherSide(s)].sha}
  <2> DEFINE plan == Plan(s, ev, gap)
             S == {OnWire(plan[j]) : j \in {k \in DOMAIN plan : plan[k].to = t}}
             new == CmdsFor(t, plan)
  <2>1. \A k \in DOMAIN plan :
           /\ plan[k].to \in Sides \ MirrorSource(env.direction)
           /\ OnWire(plan[k]) \in Command
           /\ OnWire(plan[k]).sha \in {NoSha, ev.sha, rows[otherSide(s)].sha}
    BY PlanFacts DEF OnWire
  <2> HIDE DEF plan
  <2>2. new \in Seq(S)
    BY CmdsForSet
  <2>3. \A c \in S : c \in Command /\ c.sha \in {NoSha, ev.sha, rows[otherSide(s)].sha}
    BY <2>1
  <2>4. t \in MirrorSource(env.direction) => new = << >>
    BY <2>1, CmdsForNone
  <2> HIDE DEF S, new
  <2>5. \A i \in DOMAIN new : new[i] \in S
    BY <2>2
  <2>6. new \in Seq(Command)
    BY <2>2, <2>3, <2>5, SeqDef
  <2>7. cmds'[t] = cmds[t] \o new
    BY DEF HandleFileChanged, new, plan
  <2>8. cmds[t] \in Seq(Command)
    BY DEF TypeOK
  <2>9. cmds'[t] \in Seq(Command)
    BY <2>6, <2>7, <2>8, ConcatProperties
  <2>10. t \in MirrorSource(env.direction) => cmds'[t] = cmds[t]
    BY <2>4, <2>7, <2>8
  <2> QED BY <2>3, <2>5, <2>6, <2>7, <2>9, <2>10 DEF new, plan
<1>4. cmds' = [t \in Sides |-> cmds'[t]]
  BY DEF HandleFileChanged
<1>5. cmds' \in [Sides -> Seq(Command)]
  BY <1>3, <1>4
<1> QED BY <1>2, <1>3, <1>5

-----------------------------------------------------------------------------
(* Type correctness.                                                       *)

LEMMA TypeInit == Init => TypeOK
<1> SUFFICES ASSUME Init PROVE TypeOK
  OBVIOUS
<1>1. env.maxChanges \in Nat /\ 0 \in 0..env.maxChanges
  BY EnvFacts DEF Init
<1>2. NoRow \in Row /\ NoRow.smt <= ConflictWindow
  BY FileSyncAssumption DEF NoRow, Row
<1>3. NoSuppression \in Suppression
  BY DEF NoSuppression, Suppression
<1> QED BY <1>1, <1>2, <1>3, NoSnapFacts, RunnerFacts DEF Init, TypeOK, Sides

LEMMA ChangeType ==
  ASSUME TypeOK, NEW s \in Sides, NEW c \in Shas \cup {NoSha}, NEW op \in {"write", "remove"},
         MayChange(s), Notify(s, op), Change(s, c), written' \in SUBSET Shas
  PROVE  TypeOK'
<1>1. dirty' \in [Sides -> [Runners -> SUBSET {"write", "remove"}]]
  <2> DEFINE Kinds == SUBSET {"write", "remove"}
             g == [r \in Runners |-> IF r <= current[s] THEN dirty[s][r] \cup {op} ELSE {}]
  <2>1. dirty \in [Sides -> [Runners -> Kinds]]
    BY DEF TypeOK
  <2>2. g \in [Runners -> Kinds]
    BY <2>1
  <2>3. dirty' = [dirty EXCEPT ![s] = g]
    BY DEF Notify
  <2> HIDE DEF g, Kinds
  <2>4. dirty' \in [Sides -> [Runners -> Kinds]]
    BY <2>1, <2>2, <2>3
  <2> QED BY <2>4 DEF Kinds
<1>2. changes' \in 0..env'.maxChanges
  <2>1. env.maxChanges \in Nat /\ changes \in Nat /\ changes < env.maxChanges
    BY EnvFacts DEF TypeOK, MayChange
  <2>2. changes + 1 \in 0..env.maxChanges
    BY <2>1
  <2> QED BY <2>2 DEF Change
<1>3. disk' \in [Sides -> Shas \cup {NoSha}] /\ last' \in [side: Sides, sha: Shas \cup {NoSha}]
  BY DEF TypeOK, Change
<1> QED BY <1>1, <1>2, <1>3 DEF TypeOK, Change, wire

LEMMA ProcessEventType ==
  ASSUME TypeOK, NEW s \in Sides, NEW r \in Runners, ProcessEvent(s, r)
  PROVE  TypeOK'
<1>1. dirty' \in [Sides -> [Runners -> SUBSET {"write", "remove"}]]
  BY DEF TypeOK, ProcessEvent
<1>2. \A ev \in Event : Report(s, r, ev) => seen' \in [Sides -> [Runners -> Seq(Event)]]
  <2> SUFFICES ASSUME NEW ev \in Event, Report(s, r, ev)
               PROVE  seen' \in [Sides -> [Runners -> Seq(Event)]]
    OBVIOUS
  <2>1. seen \in [Sides -> [Runners -> Seq(Event)]]
    BY DEF TypeOK
  <2>2. Append(seen[s][r], ev) \in Seq(Event)
    BY <2>1, AppendProperties
  <2>3. CASE seen' = [seen EXCEPT ![s][r] = Append(@, ev)]
    BY <2>1, <2>2, <2>3
  <2> QED BY <2>1, <2>3 DEF Report
<1>3. /\ seen' \in [Sides -> [Runners -> Seq(Event)]]
      /\ hashes' \in [Sides -> [Runners -> Shas \cup {NoSha}]]
  <2>1. CASE "write" \in dirty[s][r] /\ disk[s] \in {NoSha, hashes[s][r]}
    BY <2>1 DEF ProcessEvent, TypeOK
  <2>2. CASE "write" \in dirty[s][r] /\ disk[s] \notin {NoSha, hashes[s][r]}
    <3>1. disk[s] \in Shas
      BY <2>2 DEF TypeOK
    <3>2. WriteEvent(disk[s]) \in Event
      BY <3>1, EventFacts
    <3>3. /\ hashes' = [hashes EXCEPT ![s][r] = disk[s]]
          /\ Report(s, r, WriteEvent(disk[s]))
      BY <2>2 DEF ProcessEvent
    <3> QED BY <3>1, <3>2, <3>3, <1>2 DEF TypeOK
  <2>3. CASE "write" \notin dirty[s][r]
    <3>1. hashes' = [hashes EXCEPT ![s][r] = NoSha] /\ Report(s, r, DeleteEvent)
      BY <2>3 DEF ProcessEvent
    <3> QED BY <3>1, <1>2, EventFacts DEF TypeOK
  <2> QED BY <2>1, <2>2, <2>3
<1> QED BY <1>1, <1>3 DEF TypeOK, ProcessEvent, wire, users

\* The look-up of an event changes no suppression that is on.
LEMMA LookedUpFacts ==
  ASSUME TypeOK, NEW s \in Sides, NEW r \in Runners, HandleLocalChange(s, r)
  PROVE  /\ supp' \in [Sides -> [Runners -> Suppression]]
         /\ \A t \in Sides, q \in Runners : supp'[t][q].on <=> supp[t][q].on
<1>1. supp \in [Sides -> [Runners -> Suppression]]
  BY DEF TypeOK
<1>2. NoSuppression \in Suppression /\ ~NoSuppression.on
  BY DEF NoSuppression, Suppression
<1> DEFINE e == LookedUp(supp[s][r])
<1>3. e \in Suppression /\ (e.on <=> supp[s][r].on)
  BY <1>1, <1>2 DEF LookedUp
<1>4. supp' = [supp EXCEPT ![s] = [supp[s] EXCEPT ![r] = e]]
  BY <1>1 DEF HandleLocalChange
<1> HIDE DEF e
<1>5. supp' \in [Sides -> [Runners -> Suppression]]
  BY <1>1, <1>3, <1>4
<1>6. \A t \in Sides, q \in Runners : supp'[t][q] = IF t = s /\ q = r THEN e ELSE supp[t][q]
  BY <1>1, <1>4
<1> QED BY <1>3, <1>5, <1>6

\* A suppression ends, or is collected, and nothing else changes.
Lapse(s, r) == Expire(s, r) \/ Collect(s, r)

LEMMA LapseFacts ==
  ASSUME TypeOK, NEW s \in Sides, NEW r \in Runners, Lapse(s, r)
  PROVE  /\ UNCHANGED <<disk, current, dirty, hashes, seen, online, up, cmds, snap, rows, blobs,
                        env, changes, written, last>>
         /\ supp' \in [Sides -> [Runners -> Suppression]]
         /\ \A t \in Sides, q \in Runners : supp'[t][q].on => supp[t][q].on
<1>1. supp \in [Sides -> [Runners -> Suppression]]
  BY DEF TypeOK
<1>2. UNCHANGED <<disk, current, dirty, hashes, seen, online, up, cmds, snap, rows, blobs,
                  env, changes, written, last>>
  BY DEF Lapse, Expire, Collect, wire, users
<1>3. PICK e \in Suppression : supp' = [supp EXCEPT ![s] = [supp[s] EXCEPT ![r] = e]] /\ ~e.on
  <2>1. CASE Expire(s, r)
    <3> DEFINE f == [supp[s][r] EXCEPT !.on = FALSE]
    <3>1. supp' = [supp EXCEPT ![s] = [supp[s] EXCEPT ![r] = f]]
      BY <2>1 DEF Expire
    <3>2. supp[s][r] \in Suppression
      BY <1>1
    <3>3. f \in Suppression /\ f.on = FALSE
      BY <3>2 DEF Suppression
    <3> HIDE DEF f
    <3> QED BY <3>1, <3>3
  <2>2. CASE Collect(s, r)
    <3>1. NoSuppression \in Suppression /\ ~NoSuppression.on
      BY DEF NoSuppression, Suppression
    <3> QED BY <2>2, <3>1 DEF Collect
  <2> QED BY <2>1, <2>2 DEF Lapse
<1>4. supp' \in [Sides -> [Runners -> Suppression]]
  BY <1>1, <1>3
<1>5. \A t \in Sides, q \in Runners : supp'[t][q] = IF t = s /\ q = r THEN e ELSE supp[t][q]
  BY <1>1, <1>3
<1> QED BY <1>2, <1>3, <1>4, <1>5

LEMMA HandleLocalChangeType ==
  ASSUME TypeOK, NEW s \in Sides, NEW r \in Runners, HandleLocalChange(s, r)
  PROVE  TypeOK'
<1>1. seen[s][r] \in Seq(Event) /\ seen[s][r] # << >> /\ up[s] \in Seq(Event)
  BY DEF TypeOK, HandleLocalChange
<1>2. Head(seen[s][r]) \in Event /\ Tail(seen[s][r]) \in Seq(Event)
  BY <1>1, HeadTailProperties
<1>3. Append(up[s], Head(seen[s][r])) \in Seq(Event)
  BY <1>1, <1>2, AppendProperties
<1>4. blobs' \in SUBSET Shas
  BY DEF HandleLocalChange, TypeOK
<1>5. seen' \in [Sides -> [Runners -> Seq(Event)]]
  BY <1>2 DEF HandleLocalChange, TypeOK
<1>6. up' \in [Sides -> Seq(Event)]
  BY <1>3 DEF HandleLocalChange, TypeOK
<1> QED BY <1>4, <1>5, <1>6, LookedUpFacts DEF TypeOK, HandleLocalChange, users

\* The rest of a sequence after its element i is taken out.
LEMMA RemoveAtFacts ==
  ASSUME NEW S, NEW q \in Seq(S), NEW i \in DOMAIN q
  PROVE  /\ q[i] \in S
         /\ SubSeq(q, 1, i - 1) \o SubSeq(q, i + 1, Len(q)) \in Seq(S)
<1>1. i \in 1..Len(q) /\ Len(q) \in Nat
  BY LenProperties
<1>2. SubSeq(q, 1, i - 1) \in Seq(S) /\ SubSeq(q, i + 1, Len(q)) \in Seq(S)
  BY <1>1
<1> QED BY <1>1, <1>2, ConcatProperties

LEMMA HandleSyncCommandType ==
  ASSUME TypeOK, NEW s \in Sides, NEW i, HandleSyncCommand(s, i)
  PROVE  TypeOK'
<1> DEFINE cmd == cmds[s][i]
           rest == SubSeq(cmds[s], 1, i - 1) \o SubSeq(cmds[s], i + 1, Len(cmds[s]))
<1>1. cmd \in Command /\ rest \in Seq(Command)
  BY RemoveAtFacts DEF TypeOK, HandleSyncCommand
<1>2. cmds' \in [Sides -> Seq(Command)]
  BY <1>1 DEF TypeOK, HandleSyncCommand
<1>3. /\ cmd.sha \in Shas \cup {NoSha} /\ cmd.op \in {"fetch", "delete", "rename"}
      /\ cmd.by \in Runners
  BY <1>1 DEF Command
<1>4. supp \in [Sides -> [Runners -> Suppression]]
  BY DEF TypeOK
<1>5. supp' \in [Sides -> [Runners -> Suppression]]
  <2>1. Add(supp[s][cmd.by], cmd.sha) \in Suppression
    BY <1>3, <1>4, AddFacts
  <2>2. \/ supp' = [supp EXCEPT ![s][cmd.by] = Add(@, cmd.sha)]
        \/ supp' = supp
    BY DEF HandleSyncCommand
  <2> HIDE DEF cmd
  <2> QED BY <1>3, <1>4, <2>1, <2>2
<1>6. \A op \in {"write", "remove"} :
         Notify(s, op) => dirty' \in [Sides -> [Runners -> SUBSET {"write", "remove"}]]
  BY DEF TypeOK, Notify
<1>7. /\ disk' \in [Sides -> Shas \cup {NoSha}]
      /\ dirty' \in [Sides -> [Runners -> SUBSET {"write", "remove"}]]
  <2>1. CASE UNCHANGED <<disk, dirty>>
    BY <2>1 DEF TypeOK
  <2>2. CASE Execute(s, cmd)
    <3>1. disk' \in [Sides -> Shas \cup {NoSha}]
      BY <2>2, <1>3 DEF Execute, TypeOK
    <3> QED BY <2>2, <3>1, <1>6 DEF Execute
  <2> QED BY <2>1, <2>2 DEF HandleSyncCommand
<1> QED BY <1>2, <1>5, <1>7 DEF TypeOK, HandleSyncCommand, users

LEMMA ReceiveType ==
  ASSUME TypeOK, NEW s \in Sides, NEW gap \in {1, ConflictWindow}, Receive(s, gap)
  PROVE  TypeOK'
<1>1. up[s] \in Seq(Event) /\ up[s] # << >>
  BY DEF TypeOK, Receive
<1>2. Head(up[s]) \in Event /\ Tail(up[s]) \in Seq(Event)
  BY <1>1, HeadTailProperties
<1>3. HandleFileChanged(s, Head(up[s]), gap)
  BY DEF Receive
<1>4. /\ rows' \in [Sides -> Row] /\ cmds' \in [Sides -> Seq(Command)]
      /\ \A t \in Sides : rows'[t].smt <= ConflictWindow
  BY <1>2, <1>3, HandleFacts
<1>5. /\ up' \in [Sides -> Seq(Event)]
      /\ online' \in [Sides -> BOOLEAN]
      /\ snap' \in [Sides -> Snap]
  <2>1. up' \in [Sides -> Seq(Event)]
    BY <1>2 DEF Receive, TypeOK
  <2>2. online' \in [Sides -> BOOLEAN]
    BY DEF Receive, TypeOK
  <2>3. snap' \in [Sides -> Snap]
    BY NoSnapFacts DEF Receive, TypeOK
  <2> QED BY <2>1, <2>2, <2>3
<1> QED BY <1>4, <1>5 DEF TypeOK, Receive, runner, users

LEMMA ApplyDiffType ==
  ASSUME TypeOK, NEW s \in Sides, NEW gap \in {1, ConflictWindow}, ApplyDiff(s, gap)
  PROVE  TypeOK'
<1>1. snap' \in [Sides -> Snap]
  BY NoSnapFacts DEF ApplyDiff, TypeOK
<1>2. snap[s].sha \in Shas \cup {NoSha}
  BY DEF TypeOK, Snap
<1>3. /\ rows' \in [Sides -> Row] /\ cmds' \in [Sides -> Seq(Command)]
      /\ \A t \in Sides : rows'[t].smt <= ConflictWindow
  <2>1. CASE MissedWrite(rows[s], snap[s].sha)
    <3>1. WriteEvent(snap[s].sha) \in Event
      BY <2>1, <1>2, EventFacts DEF MissedWrite
    <3> QED BY <2>1, <3>1, HandleFacts DEF ApplyDiff
  <2>2. CASE ~MissedWrite(rows[s], snap[s].sha) /\ MissedDelete(rows[s], snap[s].sha)
    BY <2>2, EventFacts, HandleFacts DEF ApplyDiff
  <2>3. CASE UNCHANGED <<rows, cmds>>
    BY <2>3 DEF TypeOK
  <2> QED BY <2>1, <2>2, <2>3 DEF ApplyDiff
<1> QED BY <1>1, <1>3 DEF TypeOK, ApplyDiff, runner, users

LEMMA TypeStep == TypeOK /\ [Next]_vars => TypeOK'
<1> SUFFICES ASSUME TypeOK, [Next]_vars PROVE TypeOK'
  OBVIOUS
<1>1. CASE UNCHANGED vars
  BY <1>1 DEF TypeOK, vars, runner, wire, users
<1>2. ASSUME NEW s \in Sides, NEW c \in Shas, Write(s, c) PROVE TypeOK'
  <2>1. written' \in SUBSET Shas
    BY <1>2 DEF Write, TypeOK
  <2> QED BY <1>2, <2>1, ChangeType DEF Write
<1>3. ASSUME NEW s \in Sides, Remove(s) PROVE TypeOK'
  <2>1. written' \in SUBSET Shas
    BY <1>3 DEF Remove, TypeOK
  <2> QED BY <1>3, <2>1, ChangeType DEF Remove
<1>4. ASSUME NEW s \in Sides, NEW r \in Runners, Lapse(s, r) PROVE TypeOK'
  BY <1>4, LapseFacts DEF TypeOK
<1>5. ASSUME NEW s \in Sides, NEW c \in Shas \cup {NoSha}, HandleListFiles(s, c) PROVE TypeOK'
  <2>1. snap' \in [Sides -> Snap]
    BY <1>5 DEF HandleListFiles, TypeOK, Snap
  <2> QED BY <1>5, <2>1 DEF HandleListFiles, TypeOK, runner, users
<1>6. ASSUME NEW s \in Sides, NEW n \in 0..Len(cmds[s]), Disconnect(s, n) PROVE TypeOK'
  <2>1. cmds[s] \in Seq(Command)
    BY DEF TypeOK
  <2>2. SubSeq(cmds[s], 1, n) \in Seq(Command)
    BY <2>1, <1>6, LenProperties
  <2>3. cmds' \in [Sides -> Seq(Command)] /\ up' \in [Sides -> Seq(Event)]
    BY <2>2, <1>6 DEF Disconnect, TypeOK
  <2>4. snap' \in [Sides -> Snap] /\ online' \in [Sides -> BOOLEAN]
    BY <1>6, NoSnapFacts DEF Disconnect, TypeOK
  <2> QED BY <1>6, <2>3, <2>4 DEF Disconnect, TypeOK, runner, users
<1>7. ASSUME NEW s \in Sides, Reconnect(s) PROVE TypeOK'
  <2>1. current' \in [Sides -> Runners]
    <3>1. current[s] + 1 \in Runners
      <4>1. current[s] \in Runners /\ current[s] <= MaxDrops /\ MaxDrops \in Nat
        BY <1>7, FileSyncAssumption DEF Reconnect, TypeOK
      <4> QED BY <4>1 DEF Runners
    <3> QED BY <1>7, <3>1 DEF Reconnect, TypeOK
  <2>2. snap' \in [Sides -> Snap] /\ online' \in [Sides -> BOOLEAN]
    BY <1>7, NoSnapFacts DEF Reconnect, TypeOK
  <2> QED BY <1>7, <2>1, <2>2 DEF Reconnect, TypeOK, users
<1> QED BY <1>1, <1>2, <1>3, <1>4, <1>5, <1>6, <1>7, ProcessEventType, HandleLocalChangeType,
           HandleSyncCommandType, ReceiveType, ApplyDiffType
        DEF Next, User, Client, Server, Network, Lapse

\* Every variable of the end-to-end model keeps its type, for any contents,
\* environments and bounds: only contents go into disks, blobs and caches, and
\* only well-formed commands over the wire.
THEOREM TypeCorrect == Spec => []TypeOK
  BY TypeInit, TypeStep, PTL DEF Spec
-----------------------------------------------------------------------------
(* Where contents come from, and what reaches the source of a one-way pair.*)

\* The operations on the queues keep to their contents.
LEMMA OnlyFacts ==
  ASSUME NEW S, NEW q \in Seq(S), NEW cs, Only(q, cs)
  PROVE  /\ q # << >> => Head(q) = q[1] /\ Head(q).sha \in cs /\ Only(Tail(q), cs)
         /\ \A e \in S : e.sha \in cs => Only(Append(q, e), cs)
         /\ \A p \in Seq(S) : Only(p, cs) => Only(q \o p, cs)
         /\ \A n \in 0..Len(q) : Only(SubSeq(q, 1, n), cs)
         /\ \A i \in DOMAIN q : /\ q[i].sha \in cs
                                /\ Only(SubSeq(q, 1, i - 1) \o SubSeq(q, i + 1, Len(q)), cs)
<1>1. q # << >> => Head(q) = q[1] /\ Head(q).sha \in cs /\ Only(Tail(q), cs)
  BY HeadTailProperties DEF Only
<1>2. \A e \in S : e.sha \in cs => Only(Append(q, e), cs)
  BY AppendProperties DEF Only
<1>3. \A u, v \in Seq(S) : Only(u, cs) /\ Only(v, cs) => Only(u \o v, cs)
  BY ConcatProperties DEF Only
<1>4. \A m \in 1..(Len(q) + 1), n \in 0..Len(q) :
         SubSeq(q, m, n) \in Seq(S) /\ Only(SubSeq(q, m, n), cs)
  BY DEF Only
<1>5. \A i \in DOMAIN q : /\ q[i].sha \in cs
                          /\ Only(SubSeq(q, 1, i - 1) \o SubSeq(q, i + 1, Len(q)), cs)
  <2> TAKE i \in DOMAIN q
  <2>1. i \in 1..Len(q) /\ Len(q) \in Nat
    BY LenProperties
  <2>2. /\ SubSeq(q, 1, i - 1) \in Seq(S) /\ Only(SubSeq(q, 1, i - 1), cs)
        /\ SubSeq(q, i + 1, Len(q)) \in Seq(S) /\ Only(SubSeq(q, i + 1, Len(q)), cs)
    BY <2>1, <1>4
  <2> QED BY <2>2, <1>3 DEF Only
<1>6. 1 \in 1..(Len(q) + 1)
  BY LenProperties
<1> QED BY <1>1, <1>2, <1>3, <1>4, <1>5, <1>6

LEMMA OriginInit == Init => OriginInv
  BY NoSnapFacts DEF Init, OriginInv, Known, Only, NoRow

\* More contents may become known.
LEMMA OnlyGrows == \A q, cs, ds : Only(q, cs) /\ cs \subseteq ds => Only(q, ds)
  BY DEF Only

LEMMA OriginChange ==
  ASSUME TypeOK, OriginInv, NEW s \in Sides, NEW c, Change(s, c),
         written \subseteq written', c \in Known'
  PROVE  OriginInv'
<1>1. Known \subseteq Known'
  BY DEF Known
<1>2. \A t \in Sides : disk'[t] \in Known'
  BY <1>1 DEF OriginInv, Change, TypeOK
<1> QED BY <1>1, <1>2, OnlyGrows DEF OriginInv, Change, wire

LEMMA OriginHandle ==
  ASSUME TypeOK, OriginInv, NEW s \in Sides, NEW ev \in Event,
         NEW gap \in {1, ConflictWindow}, HandleFileChanged(s, ev, gap), ev.sha \in Known
  PROVE  \A t \in Sides : rows'[t].sha \in Known /\ Only(cmds'[t], Known)
<1> TAKE t \in Sides
<1> DEFINE new == CmdsFor(t, Plan(s, ev, gap))
<1>1. /\ rows'[t].sha \in {ev.sha, rows[t].sha}
      /\ cmds'[t] = cmds[t] \o new /\ new \in Seq(Command)
      /\ \A i \in DOMAIN new : new[i].sha \in {NoSha, ev.sha, rows[otherSide(s)].sha}
  BY HandleFacts
<1>2. rows[t].sha \in Known /\ rows[otherSide(s)].sha \in Known /\ Only(cmds[t], Known)
  BY OtherSideFacts DEF OriginInv
<1>3. cmds[t] \in Seq(Command)
  BY DEF TypeOK
<1> HIDE DEF new
<1>4. Only(new, Known)
  BY <1>1, <1>2 DEF Only, Known
<1> QED BY <1>1, <1>2, <1>3, <1>4, OnlyFacts

LEMMA OriginStep == TypeOK /\ OriginInv /\ [Next]_vars => OriginInv'
<1> SUFFICES ASSUME TypeOK, OriginInv, [Next]_vars PROVE OriginInv'
  OBVIOUS
<1>1. CASE UNCHANGED vars
  BY <1>1 DEF OriginInv, Known, vars, runner, wire, users
<1>2. ASSUME NEW s \in Sides, NEW c \in Shas, Write(s, c) PROVE OriginInv'
  BY <1>2, OriginChange DEF Write, Known
<1>3. ASSUME NEW s \in Sides, Remove(s) PROVE OriginInv'
  BY <1>3, OriginChange DEF Remove, Known
<1>4. ASSUME NEW s \in Sides, NEW r \in Runners, ProcessEvent(s, r) PROVE OriginInv'
  <2>1. ASSUME NEW e \in Event, e.sha \in Known, Report(s, r, e)
        PROVE  \A t \in Sides, q \in Runners : Only(seen'[t][q], Known)
    <3>1. seen \in [Sides -> [Runners -> Seq(Event)]]
      BY DEF TypeOK
    <3>2. \A t \in Sides, q \in Runners : Only(seen[t][q], Known)
      BY DEF OriginInv
    <3>3. Only(Append(seen[s][r], e), Known)
      BY <3>1, <3>2, <2>1, OnlyFacts
    <3> QED BY <3>1, <3>2, <3>3, <2>1 DEF Report
  <2>2. /\ \A t \in Sides, q \in Runners : Only(seen'[t][q], Known) /\ hashes'[t][q] \in Known
    <3>1. CASE "write" \in dirty[s][r] /\ disk[s] \in {NoSha, hashes[s][r]}
      BY <1>4, <3>1 DEF ProcessEvent, OriginInv
    <3>2. CASE "write" \in dirty[s][r] /\ disk[s] \notin {NoSha, hashes[s][r]}
      <4>1. disk[s] \in Shas /\ disk[s] \in Known
        BY <3>2 DEF TypeOK, OriginInv
      <4>2. WriteEvent(disk[s]) \in Event /\ WriteEvent(disk[s]).sha \in Known
        BY <4>1, EventFacts DEF WriteEvent
      <4>3. /\ hashes' = [hashes EXCEPT ![s][r] = disk[s]]
            /\ Report(s, r, WriteEvent(disk[s]))
        BY <1>4, <3>2 DEF ProcessEvent
      <4>4. \A t \in Sides, q \in Runners : hashes'[t][q] \in Known
        BY <4>1, <4>3 DEF TypeOK, OriginInv
      <4> QED BY <4>2, <4>3, <4>4, <2>1
    <3>3. CASE "write" \notin dirty[s][r]
      <4>1. hashes' = [hashes EXCEPT ![s][r] = NoSha] /\ Report(s, r, DeleteEvent)
        BY <1>4, <3>3 DEF ProcessEvent
      <4>2. DeleteEvent \in Event /\ DeleteEvent.sha \in Known
        BY EventFacts DEF DeleteEvent, Known
      <4>3. \A t \in Sides, q \in Runners : hashes'[t][q] \in Known
        BY <4>1 DEF TypeOK, OriginInv, Known
      <4> QED BY <4>1, <4>2, <4>3, <2>1
    <3> QED BY <3>1, <3>2, <3>3
  <2>3. Known' = Known /\ UNCHANGED <<disk, snap, rows, up, cmds>>
    BY <1>4 DEF ProcessEvent, Known, users, wire
  <2> QED BY <2>2, <2>3 DEF OriginInv
<1>5. ASSUME NEW s \in Sides, NEW r \in Runners, HandleLocalChange(s, r) PROVE OriginInv'
  <2>1. /\ seen \in [Sides -> [Runners -> Seq(Event)]] /\ up \in [Sides -> Seq(Event)]
        /\ seen[s][r] # << >>
    BY <1>5 DEF TypeOK, HandleLocalChange
  <2>2. Only(seen[s][r], Known) /\ Only(up[s], Known)
    BY DEF OriginInv
  <2>3. /\ Head(seen[s][r]).sha \in Known /\ Only(Tail(seen[s][r]), Known)
        /\ Head(seen[s][r]) \in Event
    BY <2>1, <2>2, OnlyFacts, HeadTailProperties
  <2>4. Only(Append(up[s], Head(seen[s][r])), Known)
    BY <2>1, <2>2, <2>3, OnlyFacts
  <2>5. \A t \in Sides : Only(up'[t], Known) /\ \A q \in Runners : Only(seen'[t][q], Known)
    BY <1>5, <2>1, <2>3, <2>4 DEF HandleLocalChange, OriginInv
  <2>6. Known' = Known /\ UNCHANGED <<disk, snap, rows, hashes, cmds>>
    BY <1>5 DEF HandleLocalChange, Known, users
  <2> QED BY <2>5, <2>6 DEF OriginInv
<1>6. ASSUME NEW s \in Sides, NEW r \in Runners, Lapse(s, r) PROVE OriginInv'
  BY <1>6, LapseFacts DEF OriginInv, Known
<1>7. ASSUME NEW s \in Sides, NEW i, HandleSyncCommand(s, i) PROVE OriginInv'
  <2>1. cmds \in [Sides -> Seq(Command)] /\ Only(cmds[s], Known) /\ i \in DOMAIN cmds[s]
    BY <1>7 DEF TypeOK, OriginInv, HandleSyncCommand
  <2>2. /\ cmds[s][i].sha \in Known
        /\ Only(SubSeq(cmds[s], 1, i - 1) \o SubSeq(cmds[s], i + 1, Len(cmds[s])), Known)
    BY <2>1, OnlyFacts
  <2>3. \A t \in Sides : Only(cmds'[t], Known)
    BY <1>7, <2>1, <2>2 DEF HandleSyncCommand, OriginInv
  <2>4. \A t \in Sides : disk'[t] \in Known
    BY <1>7, <2>2 DEF HandleSyncCommand, Execute, OriginInv, TypeOK
  <2>5. Known' = Known /\ UNCHANGED <<up, snap, rows, hashes, seen>>
    BY <1>7 DEF HandleSyncCommand, Known, users
  <2> QED BY <2>3, <2>4, <2>5 DEF OriginInv
<1>8. ASSUME NEW s \in Sides, NEW c \in Shas \cup {NoSha}, HandleListFiles(s, c)
      PROVE  OriginInv'
  <2>1. c \in Known
    BY <1>8 DEF HandleListFiles, OriginInv, Known
  <2>2. \A t \in Sides : snap'[t].sha \in Known
    BY <1>8, <2>1 DEF HandleListFiles, OriginInv, TypeOK
  <2>3. Known' = Known /\ UNCHANGED <<disk, up, cmds, rows, hashes, seen>>
    BY <1>8 DEF HandleListFiles, Known, users, runner
  <2> QED BY <2>2, <2>3 DEF OriginInv
<1>9. ASSUME NEW s \in Sides, NEW gap \in {1, ConflictWindow}, Receive(s, gap)
      PROVE  OriginInv'
  <2>1. up \in [Sides -> Seq(Event)] /\ up[s] # << >> /\ Only(up[s], Known)
    BY <1>9 DEF TypeOK, Receive, OriginInv
  <2>2. /\ Head(up[s]) \in Event /\ Head(up[s]).sha \in Known
        /\ Only(Tail(up[s]), Known) /\ Only(<< >>, Known)
    BY <2>1, OnlyFacts, HeadTailProperties DEF Only
  <2>3. \A t \in Sides : rows'[t].sha \in Known /\ Only(cmds'[t], Known)
    BY <1>9, <2>2, OriginHandle DEF Receive
  <2>4. \A t \in Sides : Only(up'[t], Known)
    BY <1>9, <2>1, <2>2 DEF Receive, OriginInv
  <2>5. \A t \in Sides : snap'[t].sha \in Known
    BY <1>9, NoSnapFacts DEF Receive, OriginInv, TypeOK, Known
  <2>6. Known' = Known /\ UNCHANGED <<disk, hashes, seen>>
    BY <1>9 DEF Receive, Known, runner, users
  <2> QED BY <2>3, <2>4, <2>5, <2>6 DEF OriginInv
<1>10. ASSUME NEW s \in Sides, NEW gap \in {1, ConflictWindow}, ApplyDiff(s, gap)
       PROVE  OriginInv'
  <2>1. snap[s].sha \in Known /\ snap[s].sha \in Shas \cup {NoSha}
    BY DEF OriginInv, TypeOK, Snap
  <2>2. \A t \in Sides : rows'[t].sha \in Known /\ Only(cmds'[t], Known)
    <3>1. CASE MissedWrite(rows[s], snap[s].sha)
      <4>1. WriteEvent(snap[s].sha) \in Event /\ WriteEvent(snap[s].sha).sha \in Known
        BY <3>1, <2>1, EventFacts DEF MissedWrite, WriteEvent
      <4> QED BY <1>10, <3>1, <4>1, OriginHandle DEF ApplyDiff
    <3>2. CASE ~MissedWrite(rows[s], snap[s].sha) /\ MissedDelete(rows[s], snap[s].sha)
      <4>1. DeleteEvent \in Event /\ DeleteEvent.sha \in Known
        BY EventFacts DEF DeleteEvent, Known
      <4> QED BY <1>10, <3>2, <4>1, OriginHandle DEF ApplyDiff
    <3>3. CASE UNCHANGED <<rows, cmds>>
      BY <3>3 DEF OriginInv
    <3> QED BY <1>10, <3>1, <3>2, <3>3 DEF ApplyDiff
  <2>3. \A t \in Sides : snap'[t].sha \in Known
    BY <1>10, NoSnapFacts DEF ApplyDiff, OriginInv, TypeOK, Known
  <2>4. Known' = Known /\ UNCHANGED <<disk, up, hashes, seen>>
    BY <1>10 DEF ApplyDiff, Known, runner, users
  <2> QED BY <2>2, <2>3, <2>4 DEF OriginInv
<1>11. ASSUME NEW s \in Sides, NEW n \in 0..Len(cmds[s]), Disconnect(s, n) PROVE OriginInv'
  <2>1. cmds \in [Sides -> Seq(Command)] /\ Only(cmds[s], Known)
    BY DEF TypeOK, OriginInv
  <2>2. Only(SubSeq(cmds[s], 1, n), Known) /\ Only(<< >>, Known)
    BY <2>1, <1>11, OnlyFacts DEF Only
  <2>3. \A t \in Sides : Only(cmds'[t], Known) /\ Only(up'[t], Known) /\ snap'[t].sha \in Known
    BY <1>11, <2>2, NoSnapFacts DEF Disconnect, OriginInv, TypeOK, Known
  <2>4. Known' = Known /\ UNCHANGED <<disk, rows, hashes, seen>>
    BY <1>11 DEF Disconnect, Known, runner, users
  <2> QED BY <2>3, <2>4 DEF OriginInv
<1>12. ASSUME NEW s \in Sides, Reconnect(s) PROVE OriginInv'
  <2>1. \A t \in Sides : snap'[t].sha \in Known
    BY <1>12, NoSnapFacts DEF Reconnect, OriginInv, TypeOK, Known
  <2>2. Known' = Known /\ UNCHANGED <<disk, rows, up, cmds, hashes, seen>>
    BY <1>12 DEF Reconnect, Known, users
  <2> QED BY <2>1, <2>2 DEF OriginInv
<1> QED BY <1>1, <1>2, <1>3, <1>4, <1>5, <1>6, <1>7, <1>8, <1>9, <1>10, <1>11, <1>12
        DEF Next, User, Client, Server, Network, Lapse

LEMMA SourceInit == Init => SourceInv
  BY DEF Init, SourceInv, MirrorSource, Sides, NoSuppression

LEMMA SourceSides == \A s \in MirrorSource(env.direction) : s \in Sides
  BY DEF MirrorSource, Sides

LEMMA SourceStep == TypeOK /\ SourceInv /\ [Next]_vars => SourceInv'
<1> SUFFICES ASSUME TypeOK, SourceInv, [Next]_vars PROVE SourceInv'
  OBVIOUS
<1>1. CASE UNCHANGED <<cmds, supp, env>>
  BY <1>1 DEF SourceInv
<1>2. ASSUME NEW s \in Sides, NEW r \in Runners, Lapse(s, r) PROVE SourceInv'
  BY <1>2, LapseFacts, SourceSides DEF SourceInv
<1>a. ASSUME NEW s \in Sides, NEW r \in Runners, HandleLocalChange(s, r) PROVE SourceInv'
  <2>1. UNCHANGED <<cmds, env>>
    BY <1>a DEF HandleLocalChange, users
  <2> QED BY <1>a, <2>1, LookedUpFacts, SourceSides DEF SourceInv
<1>3. ASSUME NEW s \in Sides, NEW i, HandleSyncCommand(s, i) PROVE SourceInv'
  <2>1. s \notin MirrorSource(env.direction)
    BY <1>3 DEF SourceInv, HandleSyncCommand
  <2>2. \A t \in Sides : t # s => cmds'[t] = cmds[t] /\ supp'[t] = supp[t]
    BY <1>3 DEF HandleSyncCommand, TypeOK
  <2> QED BY <1>3, <2>1, <2>2, SourceSides DEF SourceInv, HandleSyncCommand, users
<1>4. ASSUME NEW s \in Sides, NEW gap \in {1, ConflictWindow}, NEW ev \in Event,
             HandleFileChanged(s, ev, gap), UNCHANGED <<supp, env>>
      PROVE  SourceInv'
  <2>1. \A t \in MirrorSource(env.direction) : cmds'[t] = cmds[t]
    BY <1>4, HandleFacts, SourceSides
  <2> QED BY <1>4, <2>1 DEF SourceInv
<1>5. ASSUME NEW s \in Sides, NEW gap \in {1, ConflictWindow}, Receive(s, gap)
      PROVE  SourceInv'
  <2>1. Head(up[s]) \in Event
    BY <1>5, HeadTailProperties DEF Receive, TypeOK
  <2> QED BY <1>4, <1>5, <2>1 DEF Receive, runner, users
<1>6. ASSUME NEW s \in Sides, NEW gap \in {1, ConflictWindow}, ApplyDiff(s, gap)
      PROVE  SourceInv'
  <2>1. UNCHANGED <<supp, env>>
    BY <1>6 DEF ApplyDiff, runner, users
  <2>2. CASE MissedWrite(rows[s], snap[s].sha)
    <3>1. WriteEvent(snap[s].sha) \in Event
      BY <2>2, EventFacts DEF MissedWrite, TypeOK, Snap
    <3> QED BY <1>4, <1>6, <2>1, <2>2, <3>1 DEF ApplyDiff
  <2>3. CASE ~MissedWrite(rows[s], snap[s].sha) /\ MissedDelete(rows[s], snap[s].sha)
    BY <1>4, <1>6, <2>1, <2>3, EventFacts DEF ApplyDiff
  <2>4. CASE UNCHANGED cmds
    BY <1>1, <2>1, <2>4
  <2> QED BY <1>6, <2>2, <2>3, <2>4 DEF ApplyDiff
<1>7. ASSUME NEW s \in Sides, NEW n \in 0..Len(cmds[s]), Disconnect(s, n) PROVE SourceInv'
  <2>1. \A t \in Sides : cmds[t] = << >> => cmds'[t] = << >>
    <3>1. SubSeq(<< >>, 1, 0) = << >>
      OBVIOUS
    <3>2. cmds[s] = << >> => n = 0
      BY <1>7
    <3> QED BY <1>7, <3>1, <3>2 DEF Disconnect, TypeOK
  <2> QED BY <1>7, <2>1, SourceSides DEF SourceInv, Disconnect, runner, users
<1>8. ASSUME NEW s \in Sides,
             \/ User(s) \/ Reconnect(s)
             \/ \E r \in Runners : ProcessEvent(s, r)
             \/ \E c \in Shas \cup {NoSha} : HandleListFiles(s, c)
      PROVE  UNCHANGED <<cmds, supp, env>>
  BY <1>8 DEF User, Write, Remove, Change, Reconnect, ProcessEvent, HandleListFiles, runner,
              wire, users
<1>9. UNCHANGED vars => UNCHANGED <<cmds, supp, env>>
  BY DEF vars, runner, wire, users
<1> QED BY <1>1, <1>2, <1>3, <1>5, <1>6, <1>7, <1>8, <1>9, <1>a
        DEF Next, Client, Server, Network, Lapse

LEMMA SourceUntouchedStep ==
  TypeOK /\ SourceInv /\ [Next]_vars
      => [\A s \in MirrorSource(env.direction) : disk'[s] # disk[s] => changes' # changes]_vars
<1> SUFFICES ASSUME TypeOK, SourceInv, Next, NEW t \in MirrorSource(env.direction),
                    disk'[t] # disk[t]
             PROVE  changes' # changes
  OBVIOUS
<1>1. ASSUME NEW s \in Sides, NEW c, Change(s, c) PROVE changes' # changes
  <2>1. changes \in Nat /\ changes' = changes + 1
    BY <1>1, EnvFacts DEF TypeOK, Change
  <2> QED BY <2>1
<1>2. ASSUME NEW s \in Sides, NEW i, HandleSyncCommand(s, i) PROVE FALSE
  <2>1. s \notin MirrorSource(env.direction)
    BY <1>2 DEF SourceInv, HandleSyncCommand
  <2>2. disk'[t] = disk[t]
    BY <1>2, <2>1, SourceSides DEF HandleSyncCommand, Execute, TypeOK
  <2> QED BY <2>2
<1>3. ASSUME NEW s \in Sides,
             \/ Server(s) \/ Network(s)
             \/ \E r \in Runners : ProcessEvent(s, r) \/ HandleLocalChange(s, r) \/ Lapse(s, r)
             \/ \E c \in Shas \cup {NoSha} : HandleListFiles(s, c)
      PROVE  UNCHANGED disk
  BY <1>3 DEF Server, Network, Receive, ApplyDiff, Reconnect, Disconnect, ProcessEvent,
              HandleLocalChange, Lapse, Expire, Collect, HandleListFiles
<1> QED BY <1>1, <1>2, <1>3 DEF Next, User, Client, Write, Remove, Lapse

\* The source of a one-way pair is its user's: in any environment, whatever is
\* lost, delayed, reordered, echoed or found by a snapshot diff, and however
\* many runners watch, only the user's own changes change the file there.
THEOREM SourceUntouchedCorrect == Spec => SourceUntouched
<1>1. Spec => [](TypeOK /\ SourceInv)
  BY TypeInit, TypeStep, SourceInit, SourceStep, PTL DEF Spec
<1> QED BY <1>1, SourceUntouchedStep, PTL DEF Spec, SourceUntouched
-----------------------------------------------------------------------------
(* Orderly environments.                                                   *)

LEMMA OrderlyFacts ==
  ASSUME TypeOK, Orderly
  PROVE  /\ env.inOrder /\ env.droppers = {} /\ ~env.unsubscribed /\ ~env.reuse /\ ~env.full
         /\ env.pace \in {"debounced", "settled", "expired"}
         /\ env.direction = "bidirectional" => env.pace = "expired"
<1>1. env.pace \in {"any", "debounced", "settled", "expired"}
  BY EnvFacts DEF TypeOK, Environment
<1> QED BY <1>1 DEF Orderly

LEMMA EnvKept == [Next]_vars => env' = env
<1> SUFFICES ASSUME [Next]_vars PROVE env' = env
  OBVIOUS
<1>1. UNCHANGED vars => env' = env
  BY DEF vars, users
<1>2. \A s \in Sides : User(s) => env' = env
  BY DEF User, Write, Remove, Change
<1>3. ASSUME NEW s \in Sides, Client(s) PROVE env' = env
  <2>1. \A r : ProcessEvent(s, r) \/ HandleLocalChange(s, r) \/ Expire(s, r) \/ Collect(s, r)
                => env' = env
    BY DEF ProcessEvent, HandleLocalChange, Expire, Collect, users
  <2>2. \A i : HandleSyncCommand(s, i) => env' = env
    BY DEF HandleSyncCommand, users
  <2>3. \A c : HandleListFiles(s, c) => env' = env
    BY DEF HandleListFiles, users
  <2> QED BY <1>3, <2>1, <2>2, <2>3 DEF Client
<1>4. \A s \in Sides : Server(s) \/ Network(s) => env' = env
  BY DEF Server, Network, Receive, ApplyDiff, Reconnect, Disconnect, users
<1> QED BY <1>1, <1>2, <1>3, <1>4 DEF Next

\* Without a broken connection there are no new runners, snapshots or failing
\* sends: this is all that can happen.
LEMMA OrderlyCases ==
  ASSUME TypeOK, SteadyInv, Orderly, Next
  PROVE  \E s \in Sides :
           \/ \E c \in Shas : Write(s, c)
           \/ Remove(s)
           \/ ProcessEvent(s, 1) \/ HandleLocalChange(s, 1)
           \/ \E r \in Runners : Lapse(s, r)
           \/ HandleSyncCommand(s, 1)
           \/ \E gap \in {1, ConflictWindow} : Receive(s, gap)
<1>1. \A s \in Sides, r \in Runners : ProcessEvent(s, r) \/ HandleLocalChange(s, r) => r = 1
  BY DEF SteadyInv, ProcessEvent, HandleLocalChange
<1>2. \A s \in Sides : \A i : HandleSyncCommand(s, i) => i = 1
  BY OrderlyFacts DEF HandleSyncCommand
<1>3. \A s \in Sides : \A c : ~HandleListFiles(s, c)
  BY NoSnapFacts DEF SteadyInv, HandleListFiles
<1>4. \A s \in Sides : \A gap : ~ApplyDiff(s, gap)
  BY NoSnapFacts DEF SteadyInv, ApplyDiff
<1>5. \A s \in Sides : ~Reconnect(s)
  BY DEF SteadyInv, Reconnect
<1>6. \A s \in Sides : \A n : ~Disconnect(s, n)
  BY OrderlyFacts DEF Disconnect
<1>7. PICK s \in Sides : User(s) \/ Client(s) \/ Server(s) \/ Network(s)
  BY DEF Next
<1>8. CASE User(s)
  BY <1>8 DEF User
<1>9. CASE Client(s)
  BY <1>9, <1>1, <1>2, <1>3 DEF Client, Lapse
<1>10. CASE Server(s)
  BY <1>10, <1>4 DEF Server
<1>11. CASE Network(s)
  BY <1>11, <1>5, <1>6 DEF Network
<1> QED BY <1>7, <1>8, <1>9, <1>10, <1>11

LEMMA NotifyEffect ==
  ASSUME TypeOK, SteadyInv, Orderly, NEW s \in Sides, NEW op, Notify(s, op)
  PROVE  \A t \in Sides :
           /\ dirty'[t][1] = IF t = s THEN dirty[s][1] \cup {op} ELSE dirty[t][1]
           /\ \A r \in Runners \ {1} : dirty'[t][r] = {}
<1>1. current[s] = 1 /\ \A t \in Sides, r \in Runners \ {1} : dirty[t][r] = {}
  BY DEF SteadyInv
<1>2. dirty \in [Sides -> [Runners -> SUBSET {"write", "remove"}]]
  BY DEF TypeOK
<1>3. \A r \in Runners : r <= 1 <=> r = 1
  BY RunnerFacts
<1> QED BY <1>1, <1>2, <1>3, RunnerFacts DEF Notify

\* A user's change, seen by the user's only runner.
LEMMA ChangeEffect ==
  ASSUME TypeOK, SteadyInv, Orderly, NEW s \in Sides, NEW c, NEW op,
         Notify(s, op), MayChange(s), Change(s, c)
  PROVE  /\ UNCHANGED <<current, hashes, seen, supp, online, up, cmds, snap, rows, blobs>>
         /\ dirty[s][1] = {} /\ dirty'[s][1] = {op}
         /\ disk'[s] = c /\ last' = [side |-> s, sha |-> c]
         /\ \A t \in Sides \ {s} : disk'[t] = disk[t] /\ dirty'[t][1] = dirty[t][1]
         /\ \A t \in Sides : \A r \in Runners \ {1} : dirty'[t][r] = {}
<1>1. UNCHANGED <<current, hashes, seen, supp, online, up, cmds, snap, rows, blobs>>
  BY DEF Change, wire
<1>2. dirty[s][1] = {}
  BY OrderlyFacts, RunnerFacts DEF MayChange, Quiescent, AtRest, Debounced
<1>3. /\ disk'[s] = c /\ last' = [side |-> s, sha |-> c]
      /\ \A t \in Sides \ {s} : disk'[t] = disk[t]
  BY DEF Change, TypeOK
<1>4. \A t \in Sides :
        /\ dirty'[t][1] = IF t = s THEN dirty[s][1] \cup {op} ELSE dirty[t][1]
        /\ \A r \in Runners \ {1} : dirty'[t][r] = {}
  BY NotifyEffect
<1>5. dirty'[s][1] = {op} /\ \A t \in Sides \ {s} : dirty'[t][1] = dirty[t][1]
  BY <1>2, <1>4
<1> QED BY <1>1, <1>2, <1>3, <1>4, <1>5

\* A write has a content that nobody has written yet.
LEMMA WriteFresh ==
  ASSUME TypeOK, Orderly, NEW s \in Sides, NEW c \in Shas, Write(s, c)
  PROVE  c \notin written /\ c # NoSha
<1>1. c = Fresh /\ c # NoSha
  BY OrderlyFacts, FileSyncAssumption DEF Write
<1>2. ~(env.contents \subseteq written)
  BY <1>1 DEF Fresh
<1>3. Fresh \in env.contents \ written
  BY <1>2 DEF Fresh
<1> QED BY <1>1, <1>3

\* The debouncer of the only runner, without a full channel.
LEMMA ProcessEffect ==
  ASSUME TypeOK, SteadyInv, Orderly, NEW s \in Sides, ProcessEvent(s, 1)
  PROVE  /\ UNCHANGED <<disk, current, supp, online, up, cmds, snap, rows, blobs,
                        written, last>>
         /\ dirty[s][1] # {} /\ dirty'[s][1] = {}
         /\ \A t \in Sides \ {s} : dirty'[t] = dirty[t] /\ hashes'[t] = hashes[t]
                                   /\ seen'[t] = seen[t]
         /\ \A r \in Runners \ {1} : dirty'[s][r] = dirty[s][r] /\ seen'[s][r] = seen[s][r]
         /\ \/ /\ "write" \in dirty[s][1] /\ disk[s] \in {NoSha, hashes[s][1]}
               /\ hashes'[s][1] = hashes[s][1] /\ seen'[s][1] = seen[s][1]
            \/ /\ "write" \in dirty[s][1] /\ disk[s] \notin {NoSha, hashes[s][1]}
               /\ hashes'[s][1] = disk[s]
               /\ seen'[s][1] = Append(seen[s][1], WriteEvent(disk[s]))
            \/ /\ "write" \notin dirty[s][1] /\ hashes'[s][1] = NoSha
               /\ seen'[s][1] = Append(seen[s][1], DeleteEvent)
<1>1. UNCHANGED <<disk, current, supp, online, up, cmds, snap, rows, blobs,
                  written, last>>
  BY DEF ProcessEvent, wire, users
<1>2. /\ dirty \in [Sides -> [Runners -> SUBSET {"write", "remove"}]]
      /\ hashes \in [Sides -> [Runners -> Shas \cup {NoSha}]]
      /\ seen \in [Sides -> [Runners -> Seq(Event)]] /\ 1 \in Runners
  BY RunnerFacts DEF TypeOK
<1>3. /\ dirty[s][1] # {} /\ dirty'[s][1] = {}
      /\ \A t \in Sides \ {s} : dirty'[t] = dirty[t]
      /\ \A r \in Runners \ {1} : dirty'[s][r] = dirty[s][r]
  BY <1>2 DEF ProcessEvent
<1>4. \A ev : Report(s, 1, ev) => seen' = [seen EXCEPT ![s][1] = Append(@, ev)]
  BY OrderlyFacts DEF Report
<1>5. CASE "write" \in dirty[s][1] /\ disk[s] \in {NoSha, hashes[s][1]}
  <2>1. UNCHANGED <<hashes, seen>>
    BY <1>5 DEF ProcessEvent
  <2> QED BY <1>1, <1>3, <1>5, <2>1
<1>6. CASE "write" \in dirty[s][1] /\ disk[s] \notin {NoSha, hashes[s][1]}
  <2>1. /\ hashes' = [hashes EXCEPT ![s][1] = disk[s]]
        /\ seen' = [seen EXCEPT ![s][1] = Append(@, WriteEvent(disk[s]))]
    BY <1>4, <1>6 DEF ProcessEvent
  <2> QED BY <1>1, <1>2, <1>3, <1>6, <2>1
<1>7. CASE "write" \notin dirty[s][1]
  <2>1. /\ hashes' = [hashes EXCEPT ![s][1] = NoSha]
        /\ seen' = [seen EXCEPT ![s][1] = Append(@, DeleteEvent)]
    BY <1>4, <1>7 DEF ProcessEvent
  <2> QED BY <1>1, <1>2, <1>3, <1>7, <2>1
<1> QED BY <1>5, <1>6, <1>7

\* The event loop of the only runner, with its connection.
LEMMA LocalEffect ==
  ASSUME TypeOK, SteadyInv, Orderly, NEW s \in Sides, HandleLocalChange(s, 1)
  PROVE  /\ UNCHANGED <<disk, current, dirty, hashes, online, cmds, snap, rows, written, last>>
         /\ \A t \in Sides, q \in Runners : supp'[t][q].on <=> supp[t][q].on
         /\ seen[s][1] # << >> /\ seen'[s][1] = Tail(seen[s][1])
         /\ \A t \in Sides \ {s} : seen'[t] = seen[t] /\ up'[t] = up[t]
         /\ \A r \in Runners \ {1} : seen'[s][r] = seen[s][r]
         /\ blobs \subseteq blobs'
         /\ \/ /\ up'[s] = up[s]
               /\ \/ supp[s][1].on
                  \/ Head(seen[s][1]).op = "write" /\ disk[s] = NoSha
            \/ /\ up'[s] = Append(up[s], Head(seen[s][1]))
               /\ Head(seen[s][1]).op = "write" => disk[s] \in blobs'
<1> DEFINE ev == Head(seen[s][1])
           dropped == Hit(supp[s][1], ev) \/ (ev.op = "write" /\ disk[s] = NoSha)
<1>1. /\ UNCHANGED <<disk, current, dirty, hashes, online, cmds, snap, rows, written, last>>
      /\ seen[s][1] # << >>
  BY DEF HandleLocalChange, users
<1>0. \A t \in Sides, q \in Runners : supp'[t][q].on <=> supp[t][q].on
  BY LookedUpFacts, RunnerFacts
<1>2. /\ seen'[s][1] = Tail(seen[s][1])
      /\ \A t \in Sides \ {s} : seen'[t] = seen[t]
      /\ \A r \in Runners \ {1} : seen'[s][r] = seen[s][r]
  BY RunnerFacts DEF HandleLocalChange, TypeOK
<1>3. online[s]
  BY DEF SteadyInv
<1>4. /\ up' = IF dropped THEN up ELSE [up EXCEPT ![s] = Append(@, ev)]
      /\ \/ ~dropped /\ ev.op = "write" /\ blobs' = blobs \cup {disk[s]}
         \/ ~(~dropped /\ ev.op = "write") /\ blobs' = blobs
  BY <1>3 DEF HandleLocalChange
<1>5. dropped => supp[s][1].on \/ (ev.op = "write" /\ disk[s] = NoSha)
  BY DEF Hit
<1>6. up \in [Sides -> Seq(Event)]
  BY DEF TypeOK
<1>7. \A t \in Sides \ {s} : up'[t] = up[t]
  BY <1>4, <1>6
<1>8. CASE dropped
  BY <1>0, <1>1, <1>2, <1>4, <1>5, <1>7, <1>8
<1>9. CASE ~dropped
  <2>1. up'[s] = Append(up[s], ev) /\ (ev.op = "write" => disk[s] \in blobs') /\ blobs \subseteq blobs'
    BY <1>4, <1>6, <1>9
  <2> QED BY <1>0, <1>1, <1>2, <1>7, <2>1
<1> QED BY <1>8, <1>9

LEMMA TailFacts ==
  ASSUME NEW S, NEW q \in Seq(S), q # << >>
  PROVE  /\ SubSeq(q, 1, 1 - 1) \o SubSeq(q, 1 + 1, Len(q)) = Tail(q)
         /\ q[1] \in S /\ Head(q) = q[1] /\ Tail(q) \in Seq(S)
         /\ Tail(q) = << >> => Final(q) = q[1]
         /\ Tail(q) # << >> => Final(Tail(q)) = Final(q)
         /\ \A i \in DOMAIN Tail(q) : i + 1 \in DOMAIN q /\ Tail(q)[i] = q[i + 1]
<1>1. /\ Head(q) = q[1] /\ q[1] \in S /\ Tail(q) \in Seq(S) /\ Len(q) \in Nat \ {0}
      /\ Len(Tail(q)) = Len(q) - 1
      /\ \A i \in 1..Len(Tail(q)) : Tail(q)[i] = q[i + 1]
  BY HeadTailProperties, LenProperties, EmptySeq
<1>2. \A i \in DOMAIN Tail(q) : i + 1 \in DOMAIN q /\ Tail(q)[i] = q[i + 1]
  BY <1>1, LenProperties
<1>3. /\ Tail(q) = << >> => Final(q) = q[1]
      /\ Tail(q) # << >> => Final(Tail(q)) = Final(q)
  <2> DEFINE tl == Tail(q)
  <2>1. /\ tl \in Seq(S) /\ Len(q) \in Nat \ {0} /\ Len(tl) = Len(q) - 1
        /\ \A i \in 1..Len(tl) : tl[i] = q[i + 1]
    BY <1>1
  <2> HIDE DEF tl
  <2>2. ASSUME tl = << >> PROVE Final(q) = q[1]
    <3>1. Len(tl) = 0
      BY <2>2
    <3>2. Len(q) = 1
      BY <2>1, <3>1
    <3> QED BY <3>2 DEF Final
  <2>3. ASSUME tl # << >> PROVE Final(tl) = Final(q)
    <3>1. Len(tl) \in 1..Len(tl) /\ Len(tl) + 1 = Len(q)
      BY <2>1, <2>3, EmptySeq
    <3> QED BY <2>1, <3>1 DEF Final
  <2> QED BY <2>2, <2>3 DEF tl
<1>4. SubSeq(q, 1, 1 - 1) \o SubSeq(q, 1 + 1, Len(q)) = Tail(q)
  <2>1. SubSeq(q, 1, 1 - 1) = << >>
    BY <1>1
  <2>2. SubSeq(q, 1 + 1, Len(q)) = Tail(q)
    BY <1>1
  <2> QED BY <1>1, <2>1, <2>2
<1> QED BY <1>1, <1>2, <1>3, <1>4

\* Commands are executed one after the other.
LEMMA CommandEffect ==
  ASSUME TypeOK, SteadyInv, Orderly, NEW s \in Sides, HandleSyncCommand(s, 1)
  PROVE  LET cmd == cmds[s][1] IN
         /\ UNCHANGED <<current, hashes, seen, online, up, snap, rows, blobs,
                        written, last>>
         /\ cmds[s] # << >> /\ cmds'[s] = Tail(cmds[s])
         /\ \A t \in Sides \ {s} : cmds'[t] = cmds[t] /\ disk'[t] = disk[t]
                                   /\ dirty'[t][1] = dirty[t][1] /\ supp'[t] = supp[t]
         /\ \A t \in Sides : \A r \in Runners \ {1} : dirty'[t][r] = {}
         /\ \/ /\ Found(s, cmd) /\ disk'[s] = cmd.sha
               /\ dirty'[s][1] = dirty[s][1] \cup {IF cmd.op = "fetch" THEN "write" ELSE "remove"}
            \/ ~Found(s, cmd) /\ disk'[s] = disk[s] /\ dirty'[s][1] = dirty[s][1]
<1> DEFINE cmd == cmds[s][1]
<1>1. /\ cmds \in [Sides -> Seq(Command)] /\ supp \in [Sides -> [Runners -> Suppression]]
      /\ disk \in [Sides -> Shas \cup {NoSha}]
  BY DEF TypeOK
<1>2. UNCHANGED <<current, hashes, seen, online, up, snap, rows, blobs, written, last>>
  BY DEF HandleSyncCommand, users
<1>3. cmds[s] # << >>
  BY DEF HandleSyncCommand
<1>4. cmds'[s] = Tail(cmds[s]) /\ \A t \in Sides \ {s} : cmds'[t] = cmds[t] /\ supp'[t] = supp[t]
  BY <1>1, <1>3, TailFacts, OrderlyFacts DEF HandleSyncCommand
<1>5. online[s] /\ \A t \in Sides, r \in Runners \ {1} : dirty[t][r] = {}
  BY DEF SteadyInv
<1>6. CASE /\ Found(s, cmd)
           /\ disk' = [disk EXCEPT ![s] = cmd.sha]
           /\ Notify(s, IF cmd.op = "fetch" THEN "write" ELSE "remove")
  <2>1. disk'[s] = cmd.sha /\ \A t \in Sides \ {s} : disk'[t] = disk[t]
    BY <1>1, <1>6
  <2> DEFINE op == IF cmd.op = "fetch" THEN "write" ELSE "remove"
  <2>2. Notify(s, op)
    BY <1>6
  <2> HIDE DEF op
  <2>3. \A t \in Sides :
          /\ dirty'[t][1] = IF t = s THEN dirty[s][1] \cup {op} ELSE dirty[t][1]
          /\ \A r \in Runners \ {1} : dirty'[t][r] = {}
    BY <2>2, NotifyEffect
  <2> QED BY <1>2, <1>3, <1>4, <1>6, <2>1, <2>3 DEF op
<1>7. CASE ~Found(s, cmd) /\ UNCHANGED <<disk, dirty>>
  BY <1>2, <1>3, <1>4, <1>5, <1>7
<1> QED BY <1>5, <1>6, <1>7, OrderlyFacts DEF HandleSyncCommand, Execute

LEMMA ReceiveEffect ==
  ASSUME TypeOK, SteadyInv, Orderly, NEW s \in Sides, NEW gap \in {1, ConflictWindow},
         Receive(s, gap)
  PROVE  /\ UNCHANGED <<disk, current, dirty, hashes, seen, supp, online, snap, blobs,
                        written, last>>
         /\ up[s] # << >> /\ Head(up[s]) \in Event /\ up'[s] = Tail(up[s])
         /\ \A t \in Sides \ {s} : up'[t] = up[t]
         /\ HandleFileChanged(s, Head(up[s]), gap)
<1>1. up \in [Sides -> Seq(Event)] /\ up[s] # << >>
  BY DEF TypeOK, Receive
<1>2. Head(up[s]) \in Event /\ HandleFileChanged(s, Head(up[s]), gap)
  BY <1>1, HeadTailProperties DEF Receive
<1> DEFINE plan == Plan(s, Head(up[s]), gap)
<1>3. \A t \in Sides : online[t]
  BY DEF SteadyInv
<1>4. ~Fails(plan)
  <2>1. \A k \in DOMAIN plan : plan[k].to \in Sides
    BY <1>2, PlanFacts
  <2> QED BY <1>3, <2>1 DEF Fails
<1>5. /\ up' = [up EXCEPT ![s] = Tail(@)] /\ snap' = snap
      /\ online' = [online EXCEPT ![s] = TRUE]
  BY <1>4 DEF Receive
<1>6. online' = online
  BY <1>3, <1>5 DEF TypeOK
<1>7. UNCHANGED <<disk, current, dirty, hashes, seen, supp, blobs, written, last>>
  BY DEF Receive, runner, users
<1> QED BY <1>1, <1>2, <1>5, <1>6, <1>7

-----------------------------------------------------------------------------
LEMMA SteadyInit == Init => SteadyInv
  BY DEF Init, SteadyInv

LEMMA SteadyStep == TypeOK /\ SteadyInv /\ [Next]_vars => SteadyInv'
<1> SUFFICES ASSUME TypeOK, SteadyInv, [Next]_vars, Orderly PROVE SteadyInv'
  BY EnvKept DEF SteadyInv, Orderly
<1>1. CASE UNCHANGED vars
  BY <1>1 DEF SteadyInv, Orderly, vars, runner, wire, users
<1>2. ASSUME NEW s \in Sides, NEW c \in Shas, Write(s, c) PROVE SteadyInv'
  BY <1>2, ChangeEffect DEF Write, SteadyInv
<1>3. ASSUME NEW s \in Sides, Remove(s) PROVE SteadyInv'
  BY <1>3, ChangeEffect DEF Remove, SteadyInv
<1>4. ASSUME NEW s \in Sides, ProcessEvent(s, 1) PROVE SteadyInv'
  BY <1>4, ProcessEffect DEF SteadyInv
<1>5. ASSUME NEW s \in Sides, HandleLocalChange(s, 1) PROVE SteadyInv'
  BY <1>5, LocalEffect DEF SteadyInv
<1>6. ASSUME NEW s \in Sides, NEW r \in Runners, Lapse(s, r) PROVE SteadyInv'
  BY <1>6, LapseFacts DEF SteadyInv
<1>7. ASSUME NEW s \in Sides, HandleSyncCommand(s, 1) PROVE SteadyInv'
  BY <1>7, CommandEffect DEF SteadyInv
<1>8. ASSUME NEW s \in Sides, NEW gap \in {1, ConflictWindow}, Receive(s, gap)
      PROVE  SteadyInv'
  BY <1>8, ReceiveEffect DEF SteadyInv
<1> QED BY <1>1, <1>2, <1>3, <1>4, <1>5, <1>6, <1>7, <1>8, OrderlyCases
-----------------------------------------------------------------------------
(* One-way pairs: the last change wins.                                    *)

LEMMA FinalFacts ==
  ASSUME NEW S, NEW q \in Seq(S), NEW e \in S
  PROVE  Append(q, e) # << >> /\ Final(Append(q, e)) = e
<1>1. /\ Append(q, e) # << >> /\ Len(Append(q, e)) = Len(q) + 1
      /\ Append(q, e)[Len(q) + 1] = e
  BY AppendProperties
<1> QED BY <1>1 DEF Final

\* The commands of a plan with one send, when everybody is online.
LEMMA CmdsForOne ==
  ASSUME NEW p, NEW t, online[p.to]
  PROVE  CmdsFor(t, << p >>) = IF p.to = t THEN << OnWire(p) >> ELSE << >>
<1>1. Made(<< p >>, 1) /\ ~Made(<< p >>, 2) /\ ~Made(<< p >>, 3)
  BY DEF Made
<1> DEFINE c == OnWire(p)
           mine == IF p.to = t THEN << c >> ELSE << >>
<1>2. CmdsFor(t, << p >>) = mine \o << >> \o << >>
  BY <1>1 DEF CmdsFor
<1> HIDE DEF c
<1>3. mine \in Seq({c})
  <2>1. << c >> \in Seq({c}) /\ << >> \in Seq({c})
    OBVIOUS
  <2> QED BY <2>1
<1> HIDE DEF mine
<1>4. mine \o << >> \o << >> = mine
  BY <1>3, ConcatEmptySeq
<1> QED BY <1>2, <1>4 DEF mine, c

\* What the source of a one-way pair reports goes to the other side, and what
\* the other side reports goes nowhere.
LEMMA MirrorEffect ==
  ASSUME TypeOK, SteadyInv, Orderly, NEW x \in MirrorSource(env.direction),
         NEW s \in Sides, NEW ev \in Event, NEW gap \in {1, ConflictWindow},
         HandleFileChanged(s, ev, gap)
  PROVE  LET cmd == [op |-> IF ev.sha = NoSha THEN "delete" ELSE "fetch", sha |-> ev.sha,
                     by |-> 1] IN
         cmds'[otherSide(x)] = IF s = x THEN Append(cmds[otherSide(x)], cmd)
                                        ELSE cmds[otherSide(x)]
<1> DEFINE y == otherSide(x)
           cmd == [op |-> IF ev.sha = NoSha THEN "delete" ELSE "fetch", sha |-> ev.sha,
                   by |-> 1]
<1>1. x \in Sides /\ y \in Sides /\ y # x /\ env.direction # "bidirectional"
      /\ MirrorSource(env.direction) = {x}
  BY SourceSides, OtherSideFacts DEF MirrorSource
<1>2. cmds[y] \in Seq(Command)
  BY <1>1 DEF TypeOK
<1>3. cmds'[y] = cmds[y] \o CmdsFor(y, Plan(s, ev, gap))
  BY <1>1 DEF HandleFileChanged
<1>4. CASE s = x
  <2> DEFINE p == dispatchSync(y, EventRow(ev))
  <2>1. Plan(s, ev, gap) = << p >>
    BY <1>1, <1>4 DEF Plan, resolveMirrorTargets
  <2>0. current[y] = 1
    BY <1>1 DEF SteadyInv
  <2>2. p.to = y /\ OnWire(p) = cmd
    BY <2>0, EventFacts DEF dispatchSync, OnWire
  <2>3. online[p.to]
    BY <1>1, <2>2 DEF SteadyInv
  <2> HIDE DEF p, cmd
  <2>4. CmdsFor(y, << p >>) = << cmd >>
    BY <2>2, <2>3, CmdsForOne
  <2>5. cmds'[y] = cmds[y] \o << cmd >>
    BY <1>3, <2>1, <2>4
  <2>6. cmds'[y] = Append(cmds[y], cmd)
    BY <1>2, <2>5
  <2> QED BY <1>4, <2>6 DEF cmd
<1>5. CASE s # x
  <2>1. Plan(s, ev, gap) = << >>
    BY <1>1, <1>5 DEF Plan, resolveMirrorTargets
  <2>2. CmdsFor(y, << >>) = << >>
    BY CmdsForNone
  <2> QED BY <1>2, <1>3, <1>5, <2>1, <2>2
<1> QED BY <1>4, <1>5

\* What MirrorInv says of the source x.
MirrorOf(x) ==
    /\ last.side = x => last.sha = disk[x]
    /\ \A i \in DOMAIN cmds[otherSide(x)] : LET cmd == cmds[otherSide(x)][i] IN
          cmd.op = IF cmd.sha = NoSha THEN "delete" ELSE "fetch"
    /\ IF dirty[x][1] = {} THEN Delivered(x, otherSide(x)) ELSE Noticed(x)

LEMMA MirrorInit == Init => MirrorInv
  BY RunnerFacts, OtherSideFacts, SourceSides DEF Init, MirrorInv, Delivered

LEMMA MirrorLocal ==
  ASSUME IInv, Orderly, NEW x \in MirrorSource(env.direction), HandleLocalChange(x, 1)
  PROVE  MirrorOf(x)'
<1> DEFINE y == otherSide(x)
           q == seen[x][1]
<1>1. MirrorOf(x) /\ x \in Sides /\ y \in Sides /\ y # x
  BY SourceSides, OtherSideFacts DEF IInv, MirrorInv, MirrorOf
<1>2. /\ UNCHANGED <<disk, dirty, hashes, cmds, last>>
      /\ q # << >> /\ seen'[x][1] = Tail(q)
      /\ blobs \subseteq blobs'
      /\ \/ up'[x] = up[x] /\ Head(q).op = "write" /\ disk[x] = NoSha
         \/ up'[x] = Append(up[x], Head(q)) /\ (Head(q).op = "write" => disk[x] \in blobs')
  BY <1>1, LocalEffect, RunnerFacts DEF IInv, SourceInv
<1>3. q \in Seq(Event) /\ up[x] \in Seq(Event)
  BY <1>1, RunnerFacts DEF IInv, TypeOK
<1>4. CASE dirty[x][1] # {}
  BY <1>1, <1>2, <1>4 DEF MirrorOf, Noticed
<1>5. CASE dirty[x][1] = {}
  <2>1. Final(q).sha = disk[x]
    BY <1>1, <1>2, <1>5 DEF MirrorOf, Delivered
  <2> HIDE DEF q
  <2>2. CASE Tail(q) # << >>
    <3>1. Final(Tail(q)) = Final(q)
      BY <1>2, <1>3, <2>2, TailFacts
    <3>2. Delivered(x, y)'
      BY <1>2, <2>1, <2>2, <3>1 DEF Delivered
    <3> QED BY <1>1, <1>2, <1>5, <3>2 DEF MirrorOf
  <2>3. CASE Tail(q) = << >>
    <3>1. Head(q) \in Event /\ Head(q).sha = disk[x]
      BY <1>2, <1>3, <2>1, <2>3, TailFacts
    <3>2. /\ up'[x] = Append(up[x], Head(q))
          /\ disk[x] \in blobs' \cup {NoSha}
      BY <1>2, <3>1, EventFacts
    <3>3. up'[x] # << >> /\ Final(up'[x]) = Head(q)
      BY <1>3, <3>1, <3>2, FinalFacts
    <3>4. Delivered(x, y)'
      BY <1>2, <2>3, <3>1, <3>2, <3>3 DEF Delivered, Final
    <3> QED BY <1>1, <1>2, <1>5, <3>4 DEF MirrorOf
  <2> QED BY <2>2, <2>3
<1> QED BY <1>4, <1>5

LEMMA MirrorCommand ==
  ASSUME IInv, Orderly, NEW x \in MirrorSource(env.direction),
         HandleSyncCommand(otherSide(x), 1)
  PROVE  MirrorOf(x)'
<1> DEFINE y == otherSide(x)
           q == cmds[y]
<1>1. MirrorOf(x) /\ x \in Sides /\ y \in Sides /\ y # x
  BY SourceSides, OtherSideFacts DEF IInv, MirrorInv, MirrorOf
<1>2. /\ UNCHANGED <<hashes, seen, up, blobs, last>>
      /\ q # << >> /\ cmds'[y] = Tail(q) /\ disk'[x] = disk[x] /\ dirty'[x][1] = dirty[x][1]
      /\ \/ Found(y, q[1]) /\ disk'[y] = q[1].sha
         \/ ~Found(y, q[1]) /\ disk'[y] = disk[y]
  BY <1>1, CommandEffect DEF IInv
<1>3. q \in Seq(Command)
  BY <1>1 DEF IInv, TypeOK
<1>4. \A i \in DOMAIN q : q[i].op = IF q[i].sha = NoSha THEN "delete" ELSE "fetch"
  BY <1>1 DEF MirrorOf
<1> HIDE DEF q
<1>5. \A i \in DOMAIN Tail(q) : Tail(q)[i].op = IF Tail(q)[i].sha = NoSha THEN "delete" ELSE "fetch"
  BY <1>2, <1>3, <1>4, TailFacts
<1>6. CASE dirty[x][1] # {}
  BY <1>1, <1>2, <1>5, <1>6 DEF MirrorOf, Noticed
<1>7. CASE dirty[x][1] = {}
  <2>1. Delivered(x, y)
    BY <1>1, <1>7 DEF MirrorOf
  <2>2. CASE seen[x][1] # << >> \/ up[x] # << >>
    BY <1>1, <1>2, <1>5, <1>7, <2>1, <2>2 DEF MirrorOf, Delivered
  <2>3. CASE seen[x][1] = << >> /\ up[x] = << >>
    <3>1. Final(q).sha = disk[x] /\ disk[x] \in blobs \cup {NoSha}
      BY <1>2, <2>1, <2>3 DEF Delivered, q
    <3>2. CASE Tail(q) # << >>
      <4>1. Final(Tail(q)) = Final(q)
        BY <1>2, <1>3, <3>2, TailFacts
      <4>2. Delivered(x, y)'
        BY <1>2, <2>3, <3>1, <3>2, <4>1 DEF Delivered
      <4> QED BY <1>1, <1>2, <1>5, <1>7, <4>2 DEF MirrorOf
    <3>3. CASE Tail(q) = << >>
      <4>1. q[1].sha = disk[x]
        BY <1>2, <1>3, <3>1, <3>3, TailFacts
      <4>2. q[1].op = IF q[1].sha = NoSha THEN "delete" ELSE "fetch"
        BY <1>2, <1>3, <1>4, LenProperties, EmptySeq
      <4>3. disk'[y] = disk[x]
        BY <1>2, <3>1, <4>1, <4>2 DEF Found
      <4>4. Delivered(x, y)'
        BY <1>2, <2>3, <3>1, <3>3, <4>3 DEF Delivered
      <4> QED BY <1>1, <1>2, <1>5, <1>7, <4>4 DEF MirrorOf
    <3> QED BY <3>2, <3>3
  <2> QED BY <2>2, <2>3
<1> QED BY <1>6, <1>7

LEMMA MirrorReceive ==
  ASSUME IInv, Orderly, NEW x \in MirrorSource(env.direction), NEW gap \in {1, ConflictWindow},
         Receive(x, gap)
  PROVE  MirrorOf(x)'
<1> DEFINE y == otherSide(x)
           q == up[x]
           ev == Head(q)
           cmd == [op |-> IF ev.sha = NoSha THEN "delete" ELSE "fetch", sha |-> ev.sha,
                   by |-> 1]
<1>1. MirrorOf(x) /\ x \in Sides /\ y \in Sides /\ y # x
  BY SourceSides, OtherSideFacts DEF IInv, MirrorInv, MirrorOf
<1>2. /\ UNCHANGED <<disk, dirty, hashes, seen, blobs, last>>
      /\ q # << >> /\ ev \in Event /\ up'[x] = Tail(q)
      /\ HandleFileChanged(x, ev, gap)
  BY <1>1, ReceiveEffect DEF IInv
<1>3. q \in Seq(Event) /\ cmds[y] \in Seq(Command)
  BY <1>1 DEF IInv, TypeOK
<1> HIDE DEF ev, q
<1>4. cmds'[y] = Append(cmds[y], cmd)
  BY <1>1, <1>2, MirrorEffect DEF IInv
<1>5. cmd \in Command
  BY <1>2, EventFacts, RunnerFacts DEF Command
<1>6. cmd.sha = ev.sha /\ cmd.op = IF cmd.sha = NoSha THEN "delete" ELSE "fetch"
  OBVIOUS
<1> HIDE DEF cmd
<1>7. \A i \in DOMAIN cmds'[y] :
         cmds'[y][i].op = IF cmds'[y][i].sha = NoSha THEN "delete" ELSE "fetch"
  <2>1. \A i \in DOMAIN cmds[y] :
           cmds[y][i].op = IF cmds[y][i].sha = NoSha THEN "delete" ELSE "fetch"
    BY <1>1 DEF MirrorOf
  <2>2. \A i \in DOMAIN cmds'[y] : cmds'[y][i] = cmd \/ (i \in DOMAIN cmds[y] /\ cmds'[y][i] = cmds[y][i])
    BY <1>3, <1>4, <1>5, AppendProperties, LenProperties
  <2> QED BY <1>6, <2>1, <2>2
<1>8. CASE dirty[x][1] # {}
  BY <1>1, <1>2, <1>7, <1>8 DEF MirrorOf, Noticed
<1>9. CASE dirty[x][1] = {}
  <2>1. Delivered(x, y)
    BY <1>1, <1>9 DEF MirrorOf
  <2>2. CASE seen[x][1] # << >>
    BY <1>1, <1>2, <1>7, <1>9, <2>1, <2>2 DEF MirrorOf, Delivered
  <2>3. CASE seen[x][1] = << >>
    <3>1. Final(q).sha = disk[x] /\ disk[x] \in blobs \cup {NoSha}
      BY <1>2, <2>1, <2>3 DEF Delivered, q
    <3>2. Delivered(x, y)'
      <4>1. CASE Tail(q) # << >>
        <5>1. Final(Tail(q)) = Final(q)
          BY <1>2, <1>3, <4>1, TailFacts
        <5> QED BY <1>2, <2>3, <3>1, <4>1, <5>1 DEF Delivered
      <4>2. CASE Tail(q) = << >>
        <5>1. ev.sha = disk[x]
          BY <1>2, <1>3, <3>1, <4>2, TailFacts DEF ev
        <5>2. cmds'[y] # << >> /\ Final(cmds'[y]) = cmd
          BY <1>3, <1>4, <1>5, FinalFacts
        <5> QED BY <1>2, <1>6, <2>3, <3>1, <4>2, <5>1, <5>2 DEF Delivered, Final
      <4> QED BY <4>1, <4>2
    <3> QED BY <1>1, <1>2, <1>7, <1>9, <3>2 DEF MirrorOf
  <2> QED BY <2>2, <2>3
<1> QED BY <1>8, <1>9

LEMMA MirrorStep == IInv /\ [Next]_vars => MirrorInv'
<1> SUFFICES ASSUME IInv, [Next]_vars, Orderly, NEW x \in MirrorSource(env.direction)
             PROVE  MirrorOf(x)'
  BY EnvKept DEF MirrorInv, MirrorOf, Orderly
<1> DEFINE y == otherSide(x)
<1>1. MirrorOf(x) /\ x \in Sides /\ y \in Sides /\ y # x /\ Sides = {x, y}
  BY SourceSides, OtherSideFacts DEF IInv, MirrorInv, MirrorOf
<1>2. TypeOK /\ SteadyInv /\ OriginInv /\ SourceInv
  BY DEF IInv
<1>3. CASE UNCHANGED <<disk, last, cmds, dirty, hashes, seen, up, blobs>>
  BY <1>1, <1>3 DEF MirrorOf, Delivered, Noticed, Final
<1>4. ASSUME NEW s \in Sides, NEW c \in Shas, Write(s, c) PROVE MirrorOf(x)'
  <2>1. /\ UNCHANGED <<hashes, seen, up, cmds, blobs>>
        /\ dirty'[s][1] = {"write"} /\ disk'[s] = c /\ last' = [side |-> s, sha |-> c]
        /\ \A t \in Sides \ {s} : disk'[t] = disk[t] /\ dirty'[t][1] = dirty[t][1]
    BY <1>2, <1>4, ChangeEffect DEF Write
  <2>2. c \notin written /\ c # NoSha /\ hashes[x][1] \in written \cup {NoSha}
    BY <1>1, <1>2, <1>4, WriteFresh, RunnerFacts DEF OriginInv, Known
  <2>3. CASE s = x
    BY <1>1, <2>1, <2>2, <2>3 DEF MirrorOf, Noticed
  <2>4. CASE s = y
    BY <1>1, <2>1, <2>4 DEF MirrorOf, Noticed, Delivered, Final
  <2> QED BY <1>1, <2>3, <2>4
<1>5. ASSUME NEW s \in Sides, Remove(s) PROVE MirrorOf(x)'
  <2>1. /\ UNCHANGED <<hashes, seen, up, cmds, blobs>>
        /\ dirty'[s][1] = {"remove"} /\ disk'[s] = NoSha /\ last' = [side |-> s, sha |-> NoSha]
        /\ \A t \in Sides \ {s} : disk'[t] = disk[t] /\ dirty'[t][1] = dirty[t][1]
    BY <1>2, <1>5, ChangeEffect DEF Remove
  <2>2. CASE s = x
    BY <1>1, <2>1, <2>2 DEF MirrorOf, Noticed
  <2>3. CASE s = y
    BY <1>1, <2>1, <2>3 DEF MirrorOf, Noticed, Delivered, Final
  <2> QED BY <1>1, <2>2, <2>3
<1>6. ASSUME NEW s \in Sides, ProcessEvent(s, 1) PROVE MirrorOf(x)'
  <2>1. CASE s = x
    <3>1. /\ UNCHANGED <<disk, up, cmds, blobs, last>>
          /\ dirty[x][1] # {} /\ dirty'[x][1] = {}
          /\ \/ "write" \in dirty[x][1] /\ disk[x] \in {NoSha, hashes[x][1]}
             \/ /\ "write" \in dirty[x][1] /\ disk[x] \notin {NoSha, hashes[x][1]}
                /\ seen'[x][1] = Append(seen[x][1], WriteEvent(disk[x]))
             \/ /\ "write" \notin dirty[x][1]
                /\ seen'[x][1] = Append(seen[x][1], DeleteEvent)
      BY <1>2, <1>6, <2>1, ProcessEffect
    <3>2. Noticed(x)
      BY <1>1, <3>1 DEF MirrorOf
    <3>3. disk[x] \in Shas \cup {NoSha} /\ seen[x][1] \in Seq(Event)
      BY <1>1, <1>2, RunnerFacts DEF TypeOK
    <3>4. \E e \in Event : e.sha = disk[x] /\ seen'[x][1] = Append(seen[x][1], e)
      BY <3>1, <3>2, <3>3, EventFacts DEF Noticed, WriteEvent, DeleteEvent
    <3>5. seen'[x][1] # << >> /\ Final(seen'[x][1]).sha = disk[x]
      BY <3>3, <3>4, FinalFacts
    <3>6. Delivered(x, y)'
      BY <3>1, <3>5 DEF Delivered, Final
    <3> QED BY <1>1, <3>1, <3>6 DEF MirrorOf
  <2>2. CASE s = y
    <3>1. /\ UNCHANGED <<disk, up, cmds, blobs, last>>
          /\ dirty'[x] = dirty[x] /\ hashes'[x] = hashes[x] /\ seen'[x] = seen[x]
      BY <1>1, <1>2, <1>6, <2>2, ProcessEffect
    <3> QED BY <1>1, <3>1 DEF MirrorOf, Noticed, Delivered, Final
  <2> QED BY <1>1, <2>1, <2>2
<1>7. ASSUME NEW s \in Sides, HandleLocalChange(s, 1) PROVE MirrorOf(x)'
  <2>1. CASE s = x
    BY <1>7, <2>1, MirrorLocal
  <2>2. CASE s = y
    <3>1. /\ UNCHANGED <<disk, dirty, hashes, cmds, last>>
          /\ up'[x] = up[x] /\ seen'[x] = seen[x] /\ blobs \subseteq blobs'
      BY <1>1, <1>2, <1>7, <2>2, LocalEffect
    <3> QED BY <1>1, <3>1 DEF MirrorOf, Noticed, Delivered, Final
  <2> QED BY <1>1, <2>1, <2>2
<1>8. ASSUME NEW s \in Sides, HandleSyncCommand(s, 1) PROVE MirrorOf(x)'
  <2>1. s # x
    BY <1>8 DEF IInv, SourceInv, HandleSyncCommand
  <2> QED BY <1>1, <1>8, <2>1, MirrorCommand
<1>9. ASSUME NEW s \in Sides, NEW gap \in {1, ConflictWindow}, Receive(s, gap)
      PROVE  MirrorOf(x)'
  <2>1. CASE s = x
    BY <1>9, <2>1, MirrorReceive
  <2>2. CASE s = y
    <3>1. /\ UNCHANGED <<disk, dirty, hashes, seen, blobs, last>>
          /\ up'[x] = up[x] /\ Head(up[y]) \in Event
          /\ HandleFileChanged(y, Head(up[y]), gap)
      BY <1>1, <1>2, <1>9, <2>2, ReceiveEffect
    <3>2. cmds'[y] = cmds[y]
      BY <1>1, <1>2, <3>1, MirrorEffect
    <3> QED BY <1>1, <3>1, <3>2 DEF MirrorOf, Noticed, Delivered, Final
  <2> QED BY <1>1, <2>1, <2>2
<1>10. ASSUME NEW s \in Sides, NEW r \in Runners, Lapse(s, r) PROVE MirrorOf(x)'
  BY <1>2, <1>3, <1>10, LapseFacts
<1>11. UNCHANGED vars => MirrorOf(x)'
  BY <1>3 DEF vars, runner, wire, users
<1> QED BY <1>2, <1>4, <1>5, <1>6, <1>7, <1>8, <1>9, <1>10, <1>11, OrderlyCases

LEMMA MirrorAtRest == IInv => LastChangeWins
<1> SUFFICES ASSUME IInv, Orderly, env.direction # "bidirectional", Quiescent, Due
             PROVE  \A s \in Sides : disk[s] = last.sha
  BY DEF LastChangeWins
<1> DEFINE x == last.side
<1>1. x \in MirrorSource(env.direction) /\ x \in Sides
  BY SourceSides DEF Due, Relevant
<1>2. MirrorOf(x) /\ otherSide(x) \in Sides /\ Sides = {x, otherSide(x)}
  BY <1>1, OtherSideFacts DEF IInv, MirrorInv, MirrorOf
<1>3. /\ dirty[x][1] = {} /\ seen[x][1] = << >> /\ up[x] = << >>
      /\ cmds[otherSide(x)] = << >>
  BY <1>1, <1>2, RunnerFacts DEF Quiescent, AtRest, Debounced
<1>4. disk[x] = last.sha /\ disk[otherSide(x)] = disk[x]
  BY <1>2, <1>3 DEF MirrorOf, Delivered
<1> QED BY <1>2, <1>4
-----------------------------------------------------------------------------
(* Bidirectional pairs: the last write wins.                               *)

LEMMA ConcatTwo ==
  ASSUME NEW u, NEW v
  PROVE  << u >> \o << v >> = << u, v >>
<1>1. << u >> \in Seq({u, v}) /\ << v >> \in Seq({u, v}) /\ << u, v >> \in Seq({u, v})
  OBVIOUS
<1>2. << u >> \o << v >> \in Seq({u, v}) /\ Len(<< u >> \o << v >>) = 2
  BY <1>1, ConcatProperties
<1>3. Len(<< u, v >>) = 2
  OBVIOUS
<1>4. (<< u >> \o << v >>)[1] = u /\ (<< u >> \o << v >>)[2] = v
  BY <1>1, ConcatProperties
<1>5. \A i \in 1..2 : (<< u >> \o << v >>)[i] = << u, v >>[i]
  BY <1>4
<1> QED BY <1>1, <1>2, <1>3, <1>5, SeqEqual

\* The commands of a conflict's plan, when everybody is online.
LEMMA CmdsForConflict ==
  ASSUME NEW y, NEW x, x # y, online[x], online[y], current[x] = 1, current[y] = 1, NEW r
  PROVE  /\ CmdsFor(x, dispatchConflict(y, r, x)) = << RenameCmd, FetchCmd(r.sha) >>
         /\ CmdsFor(y, dispatchConflict(y, r, x)) = << FetchCmd(r.sha) >>
<1> DEFINE rn == [to |-> x, run |-> FALSE,
                  cmd |-> [op |-> "rename", sha |-> NoSha, smt |-> r.smt]]
           f == Fetch(x, r)
           g == Fetch(y, r)
           plan == << rn, f, g >>
<1>1. /\ rn.to = x /\ OnWire(rn) = RenameCmd
      /\ f.to = x /\ OnWire(f) = FetchCmd(r.sha)
      /\ g.to = y /\ OnWire(g) = FetchCmd(r.sha)
  BY DEF Fetch, RenameCmd, FetchCmd, OnWire
<1>2. dispatchConflict(y, r, x) = plan
  BY DEF dispatchConflict
<1> HIDE DEF rn, f, g
<1>3. DOMAIN plan = 1..3 /\ plan[1] = rn /\ plan[2] = f /\ plan[3] = g
  OBVIOUS
<1> HIDE DEF plan
<1>4. \A i \in 1..3 : online[plan[i].to]
  BY <1>1, <1>3
<1>5. Made(plan, 1) /\ Made(plan, 2) /\ Made(plan, 3)
  BY <1>3, <1>4 DEF Made
<1>6. CmdsFor(x, plan) = << RenameCmd >> \o << FetchCmd(r.sha) >> \o << >>
  BY <1>1, <1>3, <1>5 DEF CmdsFor
<1>7. CmdsFor(y, plan) = << >> \o << >> \o << FetchCmd(r.sha) >>
  BY <1>1, <1>3, <1>5 DEF CmdsFor
<1> DEFINE rc == RenameCmd
           fc == FetchCmd(r.sha)
<1> HIDE DEF rc, fc
<1>8. << rc >> \o << fc >> = << rc, fc >>
  BY ConcatTwo
<1>9. /\ << rc, fc >> \in Seq({rc, fc}) /\ << fc >> \in Seq({fc})
      /\ << >> \in Seq({fc})
  OBVIOUS
<1>10. << rc, fc >> \o << >> = << rc, fc >> /\ << >> \o << >> \o << fc >> = << fc >>
  BY <1>9, ConcatEmptySeq
<1> QED BY <1>2, <1>6, <1>7, <1>8, <1>10 DEF rc, fc

\* The first event of a write that the other side's row does not know: the
\* other side fetches it, after a rename in a conflict.
LEMMA WriteEffect ==
  ASSUME TypeOK, SteadyInv, Orderly, env.direction = "bidirectional",
         NEW y \in Sides, NEW c \in Shas, NEW gap \in {1, ConflictWindow},
         rows[otherSide(y)].sha # c, HandleFileChanged(y, WriteEvent(c), gap)
  PROVE  /\ rows'[y].op = "write" /\ rows'[y].sha = c
         /\ \/ /\ cmds'[otherSide(y)] = cmds[otherSide(y)] \o << FetchCmd(c) >>
               /\ cmds'[y] = cmds[y]
            \/ /\ cmds'[otherSide(y)] = cmds[otherSide(y)] \o << RenameCmd, FetchCmd(c) >>
               /\ cmds'[y] = cmds[y] \o << FetchCmd(c) >>
<1> DEFINE x == otherSide(y)
           ev == WriteEvent(c)
           e == EventRow(ev)
           o == Aged(rows[x], gap)
           p == dispatchSync(x, e)
<1>1. x \in Sides /\ x # y /\ online[x] /\ online[y] /\ current[x] = 1 /\ current[y] = 1
  BY OtherSideFacts DEF SteadyInv
<1>2. ev \in Event /\ ev.op = "write" /\ ev.sha = c /\ c # NoSha
  BY EventFacts, FileSyncAssumption DEF WriteEvent
<1>3. e \in Row /\ e.op = "write" /\ e.sha = c /\ e.smt = ConflictWindow
  BY <1>2, EventFacts
<1>4. o \in Row /\ o.sha # c /\ o.smt <= ConflictWindow
  <2>1. rows[x] \in Row /\ rows[x].smt <= ConflictWindow
    BY <1>1 DEF TypeOK
  <2>2. o \in Row /\ o.sha = rows[x].sha /\ o.smt <= rows[x].smt
    BY <2>1, AgedFacts
  <2>3. o.smt \in Nat /\ rows[x].smt \in Nat /\ ConflictWindow \in Nat
    BY <2>1, <2>2, FileSyncAssumption DEF Row
  <2> QED BY <2>1, <2>2, <2>3
<1>5. p.to = x /\ OnWire(p) = FetchCmd(c)
  BY <1>1, <1>3 DEF dispatchSync, OnWire, FetchCmd
<1>6. rows'[y] = e
  BY DEF HandleFileChanged
<1>7. /\ \A t \in Sides : cmds'[t] = cmds[t] \o CmdsFor(t, Plan(y, ev, gap))
      /\ cmds[x] \in Seq(Command) /\ cmds[y] \in Seq(Command)
  BY <1>1 DEF HandleFileChanged, TypeOK
<1>8. Plan(y, ev, gap) = handleBidirectional(y, e, o)
  BY DEF Plan
<1> HIDE DEF e, o, p, ev
<1>9. e.smt >= o.smt
  <2>1. o.smt \in Nat /\ ConflictWindow \in Nat
    BY <1>4, FileSyncAssumption DEF Row
  <2> QED BY <1>3, <1>4, <2>1
<1>10. Plan(y, ev, gap) \in {<< p >>, dispatchConflict(y, e, x)}
  BY <1>3, <1>4, <1>8, <1>9 DEF handleBidirectional, handleEditWins, decideLWW, p
<1>11. CASE Plan(y, ev, gap) = << p >>
  <2>1. CmdsFor(x, << p >>) = << FetchCmd(c) >> /\ CmdsFor(y, << p >>) = << >>
    BY <1>1, <1>5, CmdsForOne
  <2>2. cmds'[x] = cmds[x] \o << FetchCmd(c) >> /\ cmds'[y] = cmds[y] \o << >>
    BY <1>1, <1>7, <1>11, <2>1
  <2> QED BY <1>3, <1>6, <1>7, <2>2, ConcatEmptySeq
<1>12. CASE Plan(y, ev, gap) = dispatchConflict(y, e, x)
  <2>1. /\ CmdsFor(x, dispatchConflict(y, e, x)) = << RenameCmd, FetchCmd(c) >>
        /\ CmdsFor(y, dispatchConflict(y, e, x)) = << FetchCmd(c) >>
    BY <1>1, <1>3, CmdsForConflict
  <2> QED BY <1>1, <1>3, <1>6, <1>7, <1>12, <2>1
<1> QED BY <1>10, <1>11, <1>12

\* What the other side reports back: its copy of the write is agreement, a
\* delete is answered with the write again.
LEMMA EchoEffect ==
  ASSUME TypeOK, SteadyInv, Orderly, env.direction = "bidirectional",
         NEW y \in Sides, NEW c \in Shas, NEW gap \in {1, ConflictWindow},
         rows[y].op = "write", rows[y].sha = c,
         NEW ev \in {WriteEvent(c), DeleteEvent}, HandleFileChanged(otherSide(y), ev, gap)
  PROVE  /\ rows'[y].op = "write" /\ rows'[y].sha = c
         /\ cmds'[y] = cmds[y]
         /\ \/ cmds'[otherSide(y)] = cmds[otherSide(y)]
            \/ cmds'[otherSide(y)] = cmds[otherSide(y)] \o << FetchCmd(c) >>
<1> DEFINE x == otherSide(y)
           e == EventRow(ev)
           o == Aged(rows[y], gap)
           p == Fetch(x, o)
<1>1. x \in Sides /\ x # y /\ otherSide(x) = y /\ online[x] /\ online[y] /\ current[x] = 1
  BY OtherSideFacts DEF SteadyInv
<1>2. c # NoSha /\ e.op = ev.op /\ e.sha = ev.sha
      /\ (ev.op = "delete" \/ (ev.op = "write" /\ ev.sha = c))
  BY EventFacts, FileSyncAssumption DEF WriteEvent, DeleteEvent
<1>3. o \in Row /\ o.op = "write" /\ o.sha = c
  BY AgedFacts DEF TypeOK
<1>4. rows'[y] = o
  BY <1>1 DEF HandleFileChanged
<1>5. /\ \A t \in Sides : cmds'[t] = cmds[t] \o CmdsFor(t, Plan(x, ev, gap))
      /\ cmds[x] \in Seq(Command) /\ cmds[y] \in Seq(Command)
  BY <1>1 DEF HandleFileChanged, TypeOK
<1>6. Plan(x, ev, gap) = handleBidirectional(x, e, o)
  BY <1>1 DEF Plan
<1>7. p.to = x /\ OnWire(p) = FetchCmd(c)
  BY <1>1, <1>3 DEF Fetch, OnWire, FetchCmd
<1> HIDE DEF e, o, p
<1>8. Plan(x, ev, gap) \in {<< >>, << p >>}
  BY <1>2, <1>3, <1>6 DEF handleBidirectional, handleEditWins, decideLWW, IsRow, p
<1>9. CASE Plan(x, ev, gap) = << >>
  <2>1. CmdsFor(x, << >>) = << >> /\ CmdsFor(y, << >>) = << >>
    BY CmdsForNone
  <2>2. cmds'[x] = cmds[x] \o << >> /\ cmds'[y] = cmds[y] \o << >>
    BY <1>1, <1>5, <1>9, <2>1
  <2> QED BY <1>3, <1>4, <1>5, <2>2, ConcatEmptySeq
<1>10. CASE Plan(x, ev, gap) = << p >>
  <2>1. CmdsFor(x, << p >>) = << FetchCmd(c) >> /\ CmdsFor(y, << p >>) = << >>
    BY <1>1, <1>7, CmdsForOne
  <2>2. cmds'[x] = cmds[x] \o << FetchCmd(c) >> /\ cmds'[y] = cmds[y] \o << >>
    BY <1>1, <1>5, <1>10, <2>1
  <2> QED BY <1>3, <1>4, <1>5, <2>2, ConcatEmptySeq
<1> QED BY <1>8, <1>9, <1>10

\* What TurnInv says of a write of content c at side y.
TurnOf(y, c) ==
    /\ disk[y] = c
    /\ Unreported(y, c) \/ (Reported(y, c) /\ Told(otherSide(y), c))

\* The echo of content c at the other side.
Echo(c) == {WriteEvent(c), DeleteEvent}

LEMMA WithinFacts ==
  ASSUME NEW S, NEW q \in Seq(S), NEW A, \A i \in DOMAIN q : q[i] \in A
  PROVE  /\ q # << >> => Head(q) \in A /\ \A i \in DOMAIN Tail(q) : Tail(q)[i] \in A
         /\ \A e \in S \cap A : \A i \in DOMAIN Append(q, e) : Append(q, e)[i] \in A
         /\ \A e \in S \cap A : /\ \A i \in DOMAIN (q \o << e >>) : (q \o << e >>)[i] \in A
                                /\ q \o << e >> # << >>
<1>1. q # << >> => Head(q) \in A /\ \A i \in DOMAIN Tail(q) : Tail(q)[i] \in A
  <2> SUFFICES ASSUME q # << >>
               PROVE  Head(q) \in A /\ \A i \in DOMAIN Tail(q) : Tail(q)[i] \in A
    OBVIOUS
  <2>1. 1 \in DOMAIN q
    BY LenProperties, EmptySeq
  <2> QED BY <2>1, TailFacts
<1>2. \A e \in S \cap A : \A i \in DOMAIN Append(q, e) : Append(q, e)[i] \in A
  <2> TAKE e \in S \cap A
  <2>1. /\ Append(q, e) \in Seq(S) /\ Len(Append(q, e)) = Len(q) + 1
        /\ \A i \in 1..Len(q) : Append(q, e)[i] = q[i]
        /\ Append(q, e)[Len(q) + 1] = e
    BY AppendProperties
  <2>2. DOMAIN Append(q, e) = 1..(Len(q) + 1) /\ DOMAIN q = 1..Len(q) /\ Len(q) \in Nat
    BY <2>1, LenProperties
  <2> QED BY <2>1, <2>2
<1>3. \A e \in S \cap A : q \o << e >> = Append(q, e) /\ Append(q, e) # << >>
  BY AppendProperties
<1> QED BY <1>1, <1>2, <1>3

LEMMA TurnProcess ==
  ASSUME TypeOK, SteadyInv, Orderly, NEW y \in Sides, NEW c \in Shas, TurnOf(y, c),
         NEW s \in Sides, ProcessEvent(s, 1)
  PROVE  TurnOf(y, c)'
<1> DEFINE x == otherSide(y)
<1>1. x \in Sides /\ x # y /\ Sides = {x, y} /\ c # NoSha
  BY OtherSideFacts, FileSyncAssumption
<1>2. /\ UNCHANGED <<disk, supp, up, cmds, rows, blobs>>
      /\ dirty[s][1] # {} /\ dirty'[s][1] = {}
      /\ \A t \in Sides \ {s} : dirty'[t] = dirty[t] /\ hashes'[t] = hashes[t] /\ seen'[t] = seen[t]
      /\ \/ /\ "write" \in dirty[s][1] /\ disk[s] \in {NoSha, hashes[s][1]}
            /\ hashes'[s][1] = hashes[s][1] /\ seen'[s][1] = seen[s][1]
         \/ /\ "write" \in dirty[s][1] /\ disk[s] \notin {NoSha, hashes[s][1]}
            /\ hashes'[s][1] = disk[s]
            /\ seen'[s][1] = Append(seen[s][1], WriteEvent(disk[s]))
         \/ /\ "write" \notin dirty[s][1] /\ hashes'[s][1] = NoSha
            /\ seen'[s][1] = Append(seen[s][1], DeleteEvent)
  BY ProcessEffect
<1>3. Append(<< >>, WriteEvent(c)) = << WriteEvent(c) >>
  OBVIOUS
<1>4. CASE s = y /\ Unreported(y, c)
  BY <1>1, <1>2, <1>3, <1>4 DEF TurnOf, Unreported, Silent
<1>5. CASE s = y /\ Reported(y, c) /\ Told(x, c)
  <2>1. /\ "write" \in dirty[y][1] /\ disk[y] = hashes[y][1]
        /\ hashes'[y][1] = hashes[y][1] /\ seen'[y][1] = seen[y][1] /\ dirty'[y][1] = {}
    BY <1>2, <1>5 DEF TurnOf, Reported
  <2>2. Reported(y, c)'
    BY <1>2, <1>5, <2>1 DEF Reported
  <2>3. Told(x, c)'
    BY <1>1, <1>2, <1>5 DEF Told
  <2> QED BY <1>2, <2>2, <2>3 DEF TurnOf
<1>6. CASE s = x /\ Unreported(y, c)
  BY <1>2, <1>6 DEF Unreported, Silent
<1>7. CASE s = x /\ Reported(y, c) /\ Told(x, c)
  <2>1. Reported(y, c)'
    BY <1>1, <1>2, <1>7 DEF Reported
  <2>2. /\ \A i \in DOMAIN cmds[x] : cmds[x][i] = FetchCmd(c)
        /\ cmds[x] = << >> \/ "write" \in dirty[x][1] => disk[x] = c
        /\ \A i \in DOMAIN seen[x][1] : seen[x][1][i] \in Echo(c)
        /\ \A i \in DOMAIN up[x] : up[x][i] \in Echo(c)
    BY <1>2, <1>7 DEF Told, Echo
  <2>3. seen[x][1] \in Seq(Event)
    BY <1>1, RunnerFacts DEF TypeOK
  <2>4. \/ seen'[x][1] = seen[x][1]
        \/ \E e \in Event \cap Echo(c) : seen'[x][1] = Append(seen[x][1], e)
    BY <1>2, <1>7, <2>2, EventFacts DEF Echo
  <2>5. \A i \in DOMAIN seen'[x][1] : seen'[x][1][i] \in Echo(c)
    <3>1. \A e \in Event \cap Echo(c) : \A i \in DOMAIN Append(seen[x][1], e) :
             Append(seen[x][1], e)[i] \in Echo(c)
      BY <2>2, <2>3, WithinFacts
    <3> QED BY <2>2, <2>4, <3>1
  <2>6. Told(x, c)'
    BY <1>2, <1>7, <2>2, <2>5 DEF Told, Echo
  <2> QED BY <1>2, <2>1, <2>6 DEF TurnOf
<1> QED BY <1>1, <1>4, <1>5, <1>6, <1>7 DEF TurnOf

LEMMA TurnLocal ==
  ASSUME TypeOK, SteadyInv, Orderly, NEW y \in Sides, NEW c \in Shas, TurnOf(y, c),
         NEW s \in Sides, HandleLocalChange(s, 1)
  PROVE  TurnOf(y, c)'
<1> DEFINE x == otherSide(y)
<1>1. x \in Sides /\ x # y /\ Sides = {x, y} /\ c # NoSha
  BY OtherSideFacts, FileSyncAssumption
<1>2. /\ UNCHANGED <<disk, dirty, hashes, cmds, rows>>
      /\ \A t \in Sides : supp'[t][1].on <=> supp[t][1].on
      /\ seen[s][1] # << >> /\ seen'[s][1] = Tail(seen[s][1])
      /\ \A t \in Sides \ {s} : seen'[t] = seen[t] /\ up'[t] = up[t]
      /\ blobs \subseteq blobs'
      /\ \/ /\ up'[s] = up[s]
            /\ supp[s][1].on \/ (Head(seen[s][1]).op = "write" /\ disk[s] = NoSha)
         \/ /\ up'[s] = Append(up[s], Head(seen[s][1]))
            /\ Head(seen[s][1]).op = "write" => disk[s] \in blobs'
  BY LocalEffect, RunnerFacts
<1>3. CASE s = y /\ Unreported(y, c)
  <2>1. /\ dirty[y][1] = {} /\ hashes[y][1] = c /\ seen[y][1] = << WriteEvent(c) >>
        /\ up[y] = << >> /\ ~supp[y][1].on
    BY <1>2, <1>3 DEF Unreported
  <2>2. /\ Head(<< WriteEvent(c) >>) = WriteEvent(c) /\ Tail(<< WriteEvent(c) >>) = << >>
        /\ Append(<< >>, WriteEvent(c)) = << WriteEvent(c) >>
    OBVIOUS
  <2>3. WriteEvent(c).op = "write" /\ disk[y] = c
    BY DEF TurnOf, WriteEvent
  <2>4. seen'[y][1] = << >> /\ up'[y] = << WriteEvent(c) >> /\ c \in blobs'
    BY <1>1, <1>2, <1>3, <2>1, <2>2, <2>3
  <2> QED BY <1>1, <1>2, <1>3, <2>1, <2>4 DEF TurnOf, Unreported, Silent
<1>4. CASE s = y /\ Reported(y, c)
  BY <1>2, <1>4 DEF Reported
<1>5. CASE s = x /\ Unreported(y, c)
  BY <1>2, <1>5 DEF Unreported, Silent
<1>6. CASE s = x /\ Reported(y, c) /\ Told(x, c)
  <2>1. Reported(y, c)'
    BY <1>1, <1>2, <1>6 DEF Reported
  <2>2. /\ \A i \in DOMAIN cmds[x] : cmds[x][i] = FetchCmd(c)
        /\ cmds[x] = << >> \/ "write" \in dirty[x][1] => disk[x] = c
        /\ \A i \in DOMAIN seen[x][1] : seen[x][1][i] \in Echo(c)
        /\ \A i \in DOMAIN up[x] : up[x][i] \in Echo(c)
    BY <1>2, <1>6 DEF Told, Echo
  <2>3. seen[x][1] \in Seq(Event) /\ up[x] \in Seq(Event)
    BY <1>1, RunnerFacts DEF TypeOK
  <2>4. /\ Head(seen[x][1]) \in Event \cap Echo(c)
        /\ \A i \in DOMAIN Tail(seen[x][1]) : Tail(seen[x][1])[i] \in Echo(c)
    BY <1>2, <1>6, <2>2, <2>3, WithinFacts, HeadTailProperties
  <2>5. \A i \in DOMAIN up'[x] : up'[x][i] \in Echo(c)
    <3>1. \A i \in DOMAIN Append(up[x], Head(seen[x][1])) :
             Append(up[x], Head(seen[x][1]))[i] \in Echo(c)
      BY <2>2, <2>3, <2>4, WithinFacts
    <3> QED BY <1>2, <1>6, <2>2, <3>1
  <2>6. Told(x, c)'
    BY <1>2, <1>6, <2>2, <2>4, <2>5 DEF Told, Echo
  <2> QED BY <1>2, <2>1, <2>6 DEF TurnOf
<1> QED BY <1>1, <1>3, <1>4, <1>5, <1>6 DEF TurnOf

LEMMA TurnCommand ==
  ASSUME TypeOK, SteadyInv, Orderly, NEW y \in Sides, NEW c \in Shas, TurnOf(y, c),
         NEW s \in Sides, HandleSyncCommand(s, 1)
  PROVE  TurnOf(y, c)'
<1> DEFINE x == otherSide(y)
           q == cmds[s]
<1>1. x \in Sides /\ x # y /\ Sides = {x, y} /\ c # NoSha
  BY OtherSideFacts, FileSyncAssumption
<1>2. /\ UNCHANGED <<hashes, seen, up, rows, blobs>>
      /\ q # << >> /\ cmds'[s] = Tail(q)
      /\ \A t \in Sides \ {s} : cmds'[t] = cmds[t] /\ disk'[t] = disk[t]
                                /\ dirty'[t][1] = dirty[t][1] /\ supp'[t] = supp[t]
      /\ \/ /\ Found(s, q[1]) /\ disk'[s] = q[1].sha
            /\ dirty'[s][1] = dirty[s][1] \cup {IF q[1].op = "fetch" THEN "write" ELSE "remove"}
         \/ ~Found(s, q[1]) /\ disk'[s] = disk[s] /\ dirty'[s][1] = dirty[s][1]
  BY CommandEffect
<1>3. Reported(y, c) /\ Told(x, c)
  BY <1>1, <1>2 DEF TurnOf, Unreported, Silent
<1>4. q \in Seq(Command) /\ 1 \in DOMAIN q
  BY <1>2, LenProperties, EmptySeq DEF TypeOK
<1>5. ASSUME \A i \in DOMAIN q : q[i] = FetchCmd(c)
      PROVE  /\ \A i \in DOMAIN Tail(q) : Tail(q)[i] = FetchCmd(c)
             /\ disk'[s] = c /\ dirty'[s][1] = dirty[s][1] \cup {"write"}
  <2>1. \A i \in DOMAIN Tail(q) : Tail(q)[i] = FetchCmd(c)
    BY <1>2, <1>4, <1>5, TailFacts
  <2>2. q[1].op = "fetch" /\ q[1].sha = c /\ c \in blobs
    BY <1>3, <1>4, <1>5 DEF FetchCmd, Reported
  <2>3. Found(s, q[1])
    BY <2>2 DEF Found
  <2> QED BY <1>2, <2>1, <2>2, <2>3
<1>6. CASE s = y
  <2>1. \A i \in DOMAIN q : q[i] = FetchCmd(c)
    BY <1>3, <1>6 DEF Reported
  <2>2. Reported(y, c)'
    BY <1>2, <1>3, <1>5, <1>6, <2>1 DEF Reported
  <2>3. Told(x, c)'
    BY <1>1, <1>2, <1>3, <1>6 DEF Told
  <2> QED BY <1>5, <1>6, <2>1, <2>2, <2>3 DEF TurnOf
<1>7. CASE s = x /\ q = << RenameCmd, FetchCmd(c) >>
  <2>1. dirty[x][1] = {} /\ seen[x][1] = << >> /\ up[x] = << >>
    <3>1. q[1] = RenameCmd /\ RenameCmd # FetchCmd(c)
      BY <1>7 DEF RenameCmd, FetchCmd
    <3> QED BY <1>3, <1>4, <1>7, <3>1 DEF Told
  <2>2. q[1].op = "rename" /\ Tail(q) = << FetchCmd(c) >>
    BY <1>7 DEF RenameCmd
  <2>3. "write" \notin dirty'[x][1]
    BY <1>2, <1>7, <2>1, <2>2
  <2>4. Told(x, c)'
    BY <1>2, <1>7, <2>1, <2>2, <2>3 DEF Told
  <2>5. Reported(y, c)'
    BY <1>1, <1>2, <1>3, <1>7 DEF Reported
  <2> QED BY <1>1, <1>2, <1>7, <2>4, <2>5 DEF TurnOf
<1>8. CASE s = x /\ \A i \in DOMAIN q : q[i] = FetchCmd(c)
  <2>1. /\ \A i \in DOMAIN seen[x][1] : seen[x][1][i] \in Echo(c)
        /\ \A i \in DOMAIN up[x] : up[x][i] \in Echo(c)
    <3>1. q[1] = FetchCmd(c) /\ RenameCmd # FetchCmd(c)
      BY <1>4, <1>8 DEF RenameCmd, FetchCmd
    <3> QED BY <1>3, <1>8, <3>1 DEF Told, Echo
  <2>2. Told(x, c)'
    BY <1>2, <1>5, <1>8, <2>1 DEF Told, Echo
  <2>3. Reported(y, c)'
    BY <1>1, <1>2, <1>3, <1>8 DEF Reported
  <2> QED BY <1>1, <1>2, <1>8, <2>2, <2>3 DEF TurnOf
<1> QED BY <1>1, <1>3, <1>6, <1>7, <1>8 DEF Told

LEMMA TurnReceive ==
  ASSUME TypeOK, SteadyInv, Orderly, env.direction = "bidirectional",
         NEW y \in Sides, NEW c \in Shas, TurnOf(y, c),
         NEW s \in Sides, NEW gap \in {1, ConflictWindow}, Receive(s, gap)
  PROVE  TurnOf(y, c)'
<1> DEFINE x == otherSide(y)
<1>1. x \in Sides /\ x # y /\ Sides = {x, y} /\ c # NoSha
  BY OtherSideFacts, FileSyncAssumption
<1>2. /\ UNCHANGED <<disk, dirty, hashes, seen, supp, blobs>>
      /\ up[s] # << >> /\ up'[s] = Tail(up[s])
      /\ \A t \in Sides \ {s} : up'[t] = up[t]
      /\ HandleFileChanged(s, Head(up[s]), gap)
  BY ReceiveEffect
<1>3. cmds[x] \in Seq(Command) /\ cmds[y] \in Seq(Command) /\ up[x] \in Seq(Event)
  BY <1>1 DEF TypeOK
<1>4. CASE s = y /\ Unreported(y, c)
  <2>1. /\ dirty[y][1] = {} /\ hashes[y][1] = c /\ seen[y][1] = << >> /\ c \in blobs
        /\ up[y] = << WriteEvent(c) >> /\ cmds[y] = << >> /\ rows[x].sha # c
        /\ dirty[x][1] = {} /\ seen[x][1] = << >> /\ up[x] = << >> /\ cmds[x] = << >>
    BY <1>2, <1>4 DEF Unreported, Silent
  <2>2. Head(<< WriteEvent(c) >>) = WriteEvent(c) /\ Tail(<< WriteEvent(c) >>) = << >>
    OBVIOUS
  <2>3. HandleFileChanged(y, WriteEvent(c), gap) /\ up'[y] = << >> /\ up'[x] = << >>
    BY <1>1, <1>2, <1>4, <2>1, <2>2
  <2> DEFINE f == FetchCmd(c)
             r == RenameCmd
  <2>4. << >> \o << f >> = << f >> /\ << >> \o << r, f >> = << r, f >>
    <3> HIDE DEF f, r
    <3>1. << f >> \in Seq({f}) /\ << r, f >> \in Seq({r, f})
      OBVIOUS
    <3> QED BY <3>1, ConcatEmptySeq
  <2>5. /\ rows'[y].op = "write" /\ rows'[y].sha = c
        /\ \/ cmds'[x] = << f >> /\ cmds'[y] = << >>
           \/ cmds'[x] = << r, f >> /\ cmds'[y] = << f >>
    <3>1. /\ rows'[y].op = "write" /\ rows'[y].sha = c
          /\ \/ cmds'[x] = cmds[x] \o << f >> /\ cmds'[y] = cmds[y]
             \/ cmds'[x] = cmds[x] \o << r, f >> /\ cmds'[y] = cmds[y] \o << f >>
      <4>1. rows[otherSide(y)].sha # c
        BY <2>1
      <4>2. HandleFileChanged(y, WriteEvent(c), gap)
        BY <2>3
      <4> QED BY <4>1, <4>2, WriteEffect
    <3> HIDE DEF f, r
    <3> QED BY <2>1, <2>4, <3>1
  <2>6. Reported(y, c)'
    BY <1>2, <2>1, <2>3, <2>5 DEF Reported
  <2>7. Told(x, c)'
    BY <1>2, <2>1, <2>3, <2>5 DEF Told
  <2> QED BY <1>2, <2>6, <2>7 DEF TurnOf
<1>5. CASE s = y /\ Reported(y, c)
  BY <1>2, <1>5 DEF Reported
<1>6. CASE s = x /\ Unreported(y, c)
  BY <1>2, <1>6 DEF Unreported, Silent
<1>7. CASE s = x /\ Reported(y, c) /\ Told(x, c)
  <2>1. /\ \A i \in DOMAIN cmds[x] : cmds[x][i] \in {FetchCmd(c)}
        /\ cmds[x] = << >> \/ "write" \in dirty[x][1] => disk[x] = c
        /\ \A i \in DOMAIN seen[x][1] : seen[x][1][i] \in Echo(c)
        /\ \A i \in DOMAIN up[x] : up[x][i] \in Echo(c)
    BY <1>2, <1>7 DEF Told, Echo
  <2>2. /\ Head(up[x]) \in Echo(c)
        /\ \A i \in DOMAIN up'[x] : up'[x][i] \in Echo(c)
    <3>1. /\ Head(up[x]) \in Echo(c)
          /\ \A i \in DOMAIN Tail(up[x]) : Tail(up[x])[i] \in Echo(c)
      BY <1>2, <1>3, <1>7, <2>1, WithinFacts
    <3> QED BY <1>2, <1>7, <3>1
  <2>3. rows[y].op = "write" /\ rows[y].sha = c
    BY <1>7 DEF Reported
  <2>4. /\ rows'[y].op = "write" /\ rows'[y].sha = c /\ cmds'[y] = cmds[y]
        /\ cmds'[x] = cmds[x] \/ cmds'[x] = cmds[x] \o << FetchCmd(c) >>
    BY <1>1, <1>2, <1>7, <2>2, <2>3, EchoEffect DEF Echo
  <2>5. FetchCmd(c) \in Command
    BY RunnerFacts DEF FetchCmd, Command
  <2>6. /\ \A i \in DOMAIN cmds'[x] : cmds'[x][i] \in {FetchCmd(c)}
        /\ cmds'[x] = << >> => cmds[x] = << >>
    <3>1. /\ \A i \in DOMAIN (cmds[x] \o << FetchCmd(c) >>) :
                (cmds[x] \o << FetchCmd(c) >>)[i] \in {FetchCmd(c)}
          /\ cmds[x] \o << FetchCmd(c) >> # << >>
      BY <1>3, <2>1, <2>5, WithinFacts
    <3> QED BY <2>1, <2>4, <3>1
  <2>7. Told(x, c)'
    BY <1>2, <2>1, <2>2, <2>6 DEF Told, Echo
  <2>8. Reported(y, c)'
    BY <1>1, <1>2, <1>7, <2>4 DEF Reported
  <2> QED BY <1>2, <2>7, <2>8 DEF TurnOf
<1> QED BY <1>1, <1>4, <1>5, <1>6, <1>7 DEF TurnOf

\* A user who takes his turn finds everything at rest.
LEMMA TurnWrite ==
  ASSUME TypeOK, OriginInv, SteadyInv, Orderly, env.direction = "bidirectional",
         NEW s \in Sides, NEW c \in Shas, Write(s, c)
  PROVE  TurnOf(s, c)'
<1> DEFINE x == otherSide(s)
<1>1. x \in Sides /\ x # s /\ 1 \in Runners
  BY OtherSideFacts, RunnerFacts
<1>2. /\ UNCHANGED <<hashes, seen, supp, up, cmds, rows>>
      /\ dirty'[s][1] = {"write"} /\ disk'[s] = c
      /\ dirty'[x][1] = dirty[x][1]
  BY <1>1, ChangeEffect DEF Write
<1>3. c \notin written /\ c # NoSha
  BY WriteFresh
<1>4. hashes[s][1] # c /\ rows[x].sha # c
  BY <1>1, <1>3 DEF OriginInv, Known
<1>5. Quiescent /\ ~supp[s][1].on
  BY <1>1, OrderlyFacts DEF Write, MayChange
<1>6. /\ dirty[x][1] = {} /\ seen[x][1] = << >> /\ up[x] = << >> /\ cmds[x] = << >>
      /\ seen[s][1] = << >> /\ up[s] = << >> /\ cmds[s] = << >>
  BY <1>1, <1>5 DEF Quiescent, AtRest, Debounced
<1> QED BY <1>2, <1>4, <1>5, <1>6 DEF TurnOf, Unreported, Silent

LEMMA TurnInit == Init => TurnInv
  BY DEF Init, TurnInv

LEMMA TurnStep == IInv /\ [Next]_vars => TurnInv'
<1> SUFFICES ASSUME IInv, [Next]_vars PROVE TurnInv'
  OBVIOUS
<1>0. last'.side \in Sides /\ last'.sha \in Shas \cup {NoSha}
  <2>1. TypeOK'
    BY TypeStep DEF IInv
  <2> QED BY <2>1 DEF TypeOK
<1> SUFFICES ASSUME Orderly, env.direction = "bidirectional",
                    NEW t \in Sides, NEW d \in Shas, last'.side = t, last'.sha = d
             PROVE  TurnOf(t, d)'
  BY <1>0, EnvKept DEF TurnInv, TurnOf, Orderly, Unreported, Silent, Reported, Told
<1> DEFINE y == last.side
           c == last.sha
<1>1. TypeOK /\ SteadyInv /\ OriginInv
  BY DEF IInv
<1>2. y \in Sides /\ c \in Shas \cup {NoSha}
  BY <1>1 DEF TypeOK
<1>3. last' = last => t = y /\ d = c /\ c \in Shas /\ TurnOf(y, c)
  BY FileSyncAssumption DEF IInv, TurnInv, TurnOf
<1>4. ASSUME NEW s \in Sides, NEW b \in Shas, Write(s, b) PROVE TurnOf(t, d)'
  <2>1. t = s /\ d = b
    BY <1>4 DEF Write, Change
  <2> QED BY <1>1, <1>4, <2>1, TurnWrite
<1>5. ASSUME NEW s \in Sides, Remove(s) PROVE FALSE
  BY <1>5, FileSyncAssumption DEF Remove, Change
<1>6. ASSUME NEW s \in Sides, ProcessEvent(s, 1) PROVE last' = last /\ TurnOf(y, c)'
  BY <1>1, <1>2, <1>3, <1>6, TurnProcess, ProcessEffect
<1>7. ASSUME NEW s \in Sides, HandleLocalChange(s, 1) PROVE last' = last /\ TurnOf(y, c)'
  BY <1>1, <1>2, <1>3, <1>7, TurnLocal, LocalEffect
<1>8. ASSUME NEW s \in Sides, HandleSyncCommand(s, 1) PROVE last' = last /\ TurnOf(y, c)'
  BY <1>1, <1>2, <1>3, <1>8, TurnCommand, CommandEffect
<1>9. ASSUME NEW s \in Sides, NEW gap \in {1, ConflictWindow}, Receive(s, gap)
      PROVE  last' = last /\ TurnOf(y, c)'
  BY <1>1, <1>2, <1>3, <1>9, TurnReceive, ReceiveEffect
<1>10. ASSUME NEW s \in Sides, NEW r \in Runners, Lapse(s, r)
       PROVE  last' = last /\ TurnOf(y, c)'
  <2>1. UNCHANGED <<disk, dirty, hashes, seen, up, cmds, rows, blobs, last>>
    BY <1>1, <1>10, LapseFacts
  <2>2. \A z \in Sides : ~supp[z][1].on => ~supp'[z][1].on
    BY <1>1, <1>10, LapseFacts, RunnerFacts
  <2>3. TurnOf(y, c)
    BY <1>3, <2>1
  <2> QED BY <1>2, <2>1, <2>2, <2>3 DEF TurnOf, Unreported, Silent, Reported, Told
<1>11. UNCHANGED vars => last' = last /\ TurnOf(y, c)'
  <2> SUFFICES ASSUME UNCHANGED vars PROVE last' = last /\ TurnOf(y, c)'
    OBVIOUS
  <2>1. UNCHANGED <<disk, dirty, hashes, seen, supp, up, cmds, rows, blobs, last>>
    BY DEF vars, runner, wire, users
  <2>2. TurnOf(y, c)
    BY <1>3, <2>1
  <2> QED BY <2>1, <2>2 DEF TurnOf, Unreported, Silent, Reported, Told
<1> QED BY <1>1, <1>4, <1>5, <1>6, <1>7, <1>8, <1>9, <1>10, <1>11, OrderlyCases

LEMMA TurnAtRest == IInv => LastWriteWins
<1> SUFFICES ASSUME IInv, Orderly, env.direction = "bidirectional", Quiescent, last.sha # NoSha
             PROVE  \A s \in Sides : disk[s] = last.sha
  BY DEF LastWriteWins
<1> DEFINE y == last.side
           x == otherSide(y)
<1>1. y \in Sides /\ x \in Sides /\ Sides = {x, y} /\ {"write"} # {}
      /\ << WriteEvent(last.sha) >> # << >> /\ << RenameCmd, FetchCmd(last.sha) >> # << >>
  BY OtherSideFacts DEF IInv, TypeOK
<1>2. \A s \in Sides : dirty[s][1] = {} /\ seen[s][1] = << >> /\ up[s] = << >> /\ cmds[s] = << >>
  BY RunnerFacts DEF Quiescent, AtRest, Debounced
<1>3. disk[y] = last.sha /\ (Unreported(y, last.sha) \/ Told(x, last.sha))
  BY DEF IInv, TurnInv
<1>4. ~Unreported(y, last.sha)
  BY <1>1, <1>2 DEF Unreported
<1>5. disk[x] = last.sha
  BY <1>1, <1>2, <1>3, <1>4 DEF Told
<1> QED BY <1>1, <1>3, <1>5

-----------------------------------------------------------------------------
(* The theorems.                                                           *)

LEMMA InvInit == Init => IInv
  BY TypeInit, OriginInit, SourceInit, SteadyInit, MirrorInit, TurnInit DEF IInv

LEMMA InvStep == IInv /\ [Next]_vars => IInv'
<1>1. IInv => TypeOK /\ OriginInv /\ SourceInv /\ SteadyInv
  BY DEF IInv
<1> QED BY <1>1, TypeStep, OriginStep, SourceStep, SteadyStep, MirrorStep, TurnStep DEF IInv

LEMMA InvAlways == Spec => []IInv
  BY InvInit, InvStep, PTL DEF Spec

\* One-way pairs, for any number of changes and contents: if the connections
\* last, no event is dropped from a full channel, every content is a new one,
\* changes are further apart than the debounce time and commands run in the
\* order they were sent, which runner/app.go:114 does not guarantee, both sides
\* end with the source's last change, a delete too, although earlier changes
\* may still be on their way when it is made and the other side's user changes
\* his copy.
THEOREM LastChangeWinsCorrect == Spec => []LastChangeWins
  BY InvAlways, MirrorAtRest, PTL

\* Bidirectional pairs under the same conditions, the order of commands
\* (runner/app.go:114) and new contents (engine.go:90) among them, whose users
\* take turns and wait until suppressions are over: the last write ends up on
\* both sides, whatever rows, suppressions, conflicts and deletes went before
\* it, wherever the pair's roots are and however long the conflict window is.
THEOREM LastWriteWinsCorrect == Spec => []LastWriteWins
  BY InvAlways, TurnAtRest, PTL
=============================================================================
