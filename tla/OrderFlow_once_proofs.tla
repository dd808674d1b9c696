------------------------ MODULE OrderFlow_once_proofs ------------------------
(***************************************************************************)
(* For any symbols, loops, operators and deployments: what happens once.   *)
(* A closed position is reported once; a decision is traded once where one *)
(* request is served at a time; and unattended no position is lost, sold   *)
(* twice or left unreported.                                               *)
(***************************************************************************)
EXTENDS OrderFlow_proofs

(* A history grows by one entry, and stays without repetition if the entry is
   new. *)
LEMMA AppendOnce ==
    ASSUME NEW q \in Seq(Ids), NEW x \in Ids
    PROVE  /\ ToSet(Append(q, x)) = ToSet(q) \cup {x}
           /\ IsInjective(q) /\ x \notin ToSet(q) => IsInjective(Append(q, x))
<1>1. /\ DOMAIN q = 1 .. Len(q) /\ DOMAIN Append(q, x) = 1 .. (Len(q) + 1) /\ Len(q) \in Nat
      /\ \A i \in 1 .. Len(q) : Append(q, x)[i] = q[i]
      /\ Append(q, x)[Len(q) + 1] = x
  OBVIOUS
<1>2. ToSet(Append(q, x)) = ToSet(q) \cup {x}
  BY ONLY <1>1, SMT DEF ToSet
<1>3. ASSUME IsInjective(q), x \notin ToSet(q)
      PROVE  IsInjective(Append(q, x))
  <2>1. \A i \in 1 .. Len(q) : q[i] # x
    BY ONLY <1>1, <1>3 DEF ToSet
  <2>2. \A i, j \in 1 .. Len(q) : q[i] = q[j] => i = j
    BY ONLY <1>1, <1>3 DEF IsInjective
  <2>3. \A i, j \in 1 .. (Len(q) + 1) : Append(q, x)[i] = Append(q, x)[j] => i = j
    BY ONLY <1>1, <2>1, <2>2, SMT
  <2>4. QED
    BY ONLY <1>1, <2>3 DEF IsInjective
<1>4. QED
  BY ONLY <1>2, <1>3

-----------------------------------------------------------------------------
(* Identities: a position that is closed and not yet reported is known to one
   symbol only, and no position is known under an identity already reported. *)
Before == {"price", "trailRead", "trailWrite", "trailed", "sell"}
Unreported(s, i) ==
    /\ i # 0
    /\ \/ positions[s].id = i
       \/ task[s].pc \in Before \cup {"outcome"} /\ task[s].id = i
       \/ task[s].pc = "trailWrite" /\ task[s].found.id = i
Known == /\ \A i \in ToSet(outcomes) : i < nextId
         /\ \A s \in Symbols, i \in Nat : Unreported(s, i) => i < nextId /\ i \notin ToSet(outcomes)
Separate == \A s, t \in Symbols, i \in Nat : Unreported(s, i) /\ Unreported(t, i) => s = t
Left == \A s \in Symbols : task[s].pc = "outcome" => positions[s].id # task[s].id
Swept == mon # "tasks" => \A s \in Symbols : task[s].pc = "done"
ReportInv == ReportedOnce /\ Known /\ Separate /\ Left /\ Swept

(* What a step does to the book when it is not the monitor's: a position is
   kept or removed, or one symbol gets one under an identity never used. *)
Fresh(s) == positions'[s].id = nextId /\ nextId < nextId'
BookStep == /\ nextId' \in Nat /\ nextId <= nextId'
            /\ \A s \in Symbols : positions'[s].id \in {positions[s].id, 0} \/ Fresh(s)
            /\ \A s, t \in Symbols : Fresh(s) /\ Fresh(t) => s = t

LEMMA KeepBook == ASSUME TypeOK, UNCHANGED positions, nextId' \in {nextId, nextId + 1},
                         \A s \in Symbols : positions[s].id < nextId
                  PROVE  BookStep
<1>1. nextId \in Nat
  BY DEF TypeOK, Ids
<1>2. QED
  BY <1>1 DEF BookStep, Fresh

LEMMA ExecuteBook ==
    ASSUME TypeOK, NEW from, NEW s \in Symbols, NEW side, NEW checked,
           Execute(from, s, side, checked), \A t \in Symbols : positions[t].id < nextId
    PROVE  BookStep
<1>1. nextId \in Nat /\ nextId' = nextId + 1 /\ \A t \in Symbols : positions[t].id \in Nat
  BY DEF TypeOK, Ids, Execute, Holding
<1>2. \A t \in Symbols : t # s => positions'[t] = positions[t]
  BY DEF Execute, TypeOK
<1>3. positions'[s].id \in {nextId, 0}
  BY DEF Execute, TypeOK, NoPosition
<1>4. \A t \in Symbols : Fresh(t) => t = s
  BY <1>1, <1>2 DEF Fresh
<1>5. QED
  BY <1>1, <1>2, <1>3, <1>4 DEF BookStep, Fresh

LEMMA OthersBook ==
    ASSUME FlowInv, Next, ~Monitor, \A t \in Symbols : positions[t].id < nextId
    PROVE  BookStep /\ UNCHANGED <<task, outcomes, mon>>
<1> TypeOK
  BY DEF FlowInv
<1>1. ASSUME NEW l \in PaperLoops, StartRound(l) PROVE BookStep /\ UNCHANGED <<task, outcomes, mon>>
  BY <1>1, KeepBook DEF StartRound, book
<1>2. ASSUME NEW l \in Runners, NEW s \in Symbols, RunOneCycle(l, s)
      PROVE  BookStep /\ UNCHANGED <<task, outcomes, mon>>
  BY <1>2, KeepBook DEF RunOneCycle, AtlasFrame, book
<1>3. ASSUME NEW l \in Loops, NEW s \in Symbols, Atlas(l, s)
      PROVE  BookStep /\ UNCHANGED <<task, outcomes, mon>>
  <2>1. CASE SubmitOrder(l, s)
    BY <2>1, ExecuteBook DEF SubmitOrder, AtlasFrame
  <2>2. CASE ~SubmitOrder(l, s)
    BY <1>3, <2>2, KeepBook
    DEF Atlas, NoOrder, ReadExisting, ReadMode, Queue, RecordTrade, RecordLegacy, AtlasFrame, book
  <2>3. QED
    BY <2>1, <2>2
<1>4. ASSUME NEW o \in Operators, Accept(o)
      PROVE  BookStep /\ UNCHANGED <<task, outcomes, mon>>
  BY <1>4, KeepBook
  DEF Accept, Approve, Order, Reject, Kill, Reset, SetMode, Request, RequestFrame, book
<1>5. ASSUME NEW o \in Operators, Serve(o)
      PROVE  BookStep /\ UNCHANGED <<task, outcomes, mon>>
  <2>1. CASE RequestSubmit(o)
    <3>1. req[o].symbol \in Symbols
      BY <2>1 DEF RequestSubmit, Continue, FlowInv, LocalsOK, HandlerOK
    <3>2. QED
      BY <2>1, <3>1, ExecuteBook DEF RequestSubmit, Continue, RequestFrame
  <2>2. ASSUME NEW p \in req[o].left, FlattenOne(o, p)
        PROVE  BookStep /\ UNCHANGED <<task, outcomes, mon>>
    <3>1. nextId' = nextId /\ nextId \in Nat
      BY <2>2 DEF FlattenOne, TypeOK, Ids
    <3>2. \A s \in Symbols : positions'[s].id \in {positions[s].id, 0}
      BY <2>2 DEF FlattenOne, NoPosition, TypeOK
    <3>3. QED
      BY <2>2, <3>1, <3>2 DEF BookStep, Fresh, FlattenOne, Continue, RequestFrame
  <2>3. CASE \/ CheckKill(o) \/ ApproveElo(o) \/ ApproveDelete(o) \/ FlattenRead(o)
             \/ FlattenCredit(o) \/ RequestFails(o)
    BY <2>3, KeepBook
    DEF CheckKill, ApproveElo, ApproveDelete, FlattenRead, FlattenCredit, RequestFails, Continue,
        RequestFrame, book
  <2>4. QED
    BY <1>5, <2>1, <2>2, <2>3 DEF Serve
<1>6. CASE TripKill
  BY <1>6, KeepBook DEF TripKill, book
<1>7. QED
  BY <1>1, <1>2, <1>3, <1>4, <1>5, <1>6 DEF Next

(* Such a step gives no identity to two symbols and none that was reported. *)
LEMMA BookReport ==
    ASSUME FlowInv, ReportInv, BookStep, UNCHANGED <<task, outcomes, mon>>
    PROVE  ReportInv'
<1> TypeOK
  BY DEF FlowInv
<1>1. nextId \in Nat /\ nextId' \in Nat /\ nextId <= nextId'
  BY DEF BookStep, TypeOK, Ids
<1>2. \A s \in Symbols, i \in Nat : Unreported(s, i)' =>
         Unreported(s, i) \/ (i = nextId /\ Fresh(s))
  BY <1>1 DEF Unreported, BookStep, Fresh
<1>3. \A i \in ToSet(outcomes) : i \in Nat
  BY DEF TypeOK, ToSet, Ids
<1>4. Known'
  <2>1. \A i \in ToSet(outcomes) : i < nextId'
    BY <1>1, <1>3 DEF ReportInv, Known
  <2>2. \A s \in Symbols, i \in Nat :
           Unreported(s, i)' => i < nextId' /\ i \notin ToSet(outcomes)
    BY ONLY <1>1, <1>2, <1>3, ReportInv DEF ReportInv, Known, Fresh
  <2>3. QED
    BY ONLY <2>1, <2>2, UNCHANGED outcomes DEF Known
<1>5. Separate'
  <2>1. \A s \in Symbols : ~Unreported(s, nextId)
    BY <1>1 DEF ReportInv, Known
  <2>2. \A s, t \in Symbols, i \in Nat : Unreported(s, i)' /\ Unreported(t, i)' => s = t
    BY ONLY <1>2, <2>1, ReportInv, BookStep DEF ReportInv, Separate, BookStep
  <2>3. QED
    BY <2>2 DEF Separate
<1>6. Left'
  <2>1. ASSUME NEW s \in Symbols, task[s].pc = "outcome" PROVE positions'[s].id # task[s].id
    <3>1. task[s].id \in Ids /\ positions[s].id # task[s].id
      BY <2>1 DEF ReportInv, Left, TypeOK, Task, FlowInv, LocalsOK, TaskOK
    <3>2. Unreported(s, task[s].id)
      BY <2>1, <3>1 DEF Unreported, Ids
    <3>3. task[s].id < nextId /\ task[s].id # 0 /\ task[s].id \in Nat
      BY <3>1, <3>2 DEF ReportInv, Known, Ids
    <3>4. QED
      BY <1>1, <3>1, <3>3 DEF BookStep, Fresh
  <2>2. QED
    BY <2>1 DEF Left
<1>7. QED
  BY <1>4, <1>5, <1>6 DEF ReportInv, ReportedOnce, Swept

(* A step of the monitor that files no new identity keeps them apart, and one
   that reports an identity takes it from the only symbol that knew it. *)
LEMMA TaskReport ==
    ASSUME FlowInv, ReportInv, nextId' = nextId,
           \A s \in Symbols, i \in Nat : Unreported(s, i)' => Unreported(s, i),
           Left', Swept',
           \/ UNCHANGED outcomes
           \/ \E s \in Symbols : \E x \in Ids :
                 /\ outcomes' = Append(outcomes, x)
                 /\ Unreported(s, x) /\ ~Unreported(s, x)'
    PROVE  ReportInv'
<1>1. Separate'
  BY DEF ReportInv, Separate
<1>2. CASE UNCHANGED outcomes
  BY <1>1, <1>2 DEF ReportInv, ReportedOnce, Known
<1>3. ASSUME NEW s \in Symbols, NEW x \in Ids, outcomes' = Append(outcomes, x),
             Unreported(s, x), ~Unreported(s, x)'
      PROVE  ReportInv'
  <2>1. outcomes \in Seq(Ids) /\ x \in Nat
    BY DEF FlowInv, TypeOK, Ids
  <2>2. x < nextId /\ x \notin ToSet(outcomes)
    BY <1>3, <2>1 DEF ReportInv, Known
  <2>3. ToSet(outcomes') = ToSet(outcomes) \cup {x} /\ IsInjective(outcomes')
    BY <1>3, <2>1, <2>2, AppendOnce DEF ReportInv, ReportedOnce
  <2>4. \A t \in Symbols : ~Unreported(t, x)'
    BY <1>3, <2>1 DEF ReportInv, Separate
  <2>5. Known'
    <3>1. \A i \in ToSet(outcomes') : i < nextId'
      BY <2>2, <2>3 DEF ReportInv, Known
    <3>2. \A t \in Symbols, i \in Nat :
             Unreported(t, i)' => i < nextId' /\ i \notin ToSet(outcomes')
      BY <2>3, <2>4 DEF ReportInv, Known
    <3>3. QED
      BY <3>1, <3>2 DEF Known
  <2>6. QED
    BY <1>1, <2>3, <2>5 DEF ReportInv, ReportedOnce
<1>4. QED
  BY <1>2, <1>3

(* The tasks of a sweep know what the book holds. *)
LEMMA SnapshotReport ==
    ASSUME FlowInv, NEW label \in Before, NEW ss, ss \subseteq HeldNow,
           task' = Snapshot(label, ss), UNCHANGED positions
    PROVE  /\ \A s \in Symbols, i \in Nat : Unreported(s, i)' => Unreported(s, i)
           /\ \A s \in Symbols : task'[s].pc = IF s \in ss THEN label ELSE "done"
<1> DEFINE new(s) == IF s \in ss THEN [IdleTask EXCEPT !.pc = label, !.id = positions[s].id]
                     ELSE IdleTask
<1>1. \A s \in Symbols : task'[s] = new(s)
  BY DEF Snapshot
<1>2. ASSUME NEW s \in Symbols
      PROVE  /\ new(s).pc = IF s \in ss THEN label ELSE "done"
             /\ new(s).id = IF s \in ss THEN positions[s].id ELSE 0
             /\ new(s).found.id = 0
  BY DEF IdleTask, NoPosition
<1> HIDE DEF new
<1>3. ASSUME NEW s \in Symbols, NEW i \in Nat, Unreported(s, i)'
      PROVE  Unreported(s, i)
  BY <1>1, <1>2, <1>3 DEF Unreported, Before
<1>4. QED
  BY <1>1, <1>2, <1>3

LEMMA MonitorReport ==
    ASSUME FlowInv, ReportInv, Monitor
    PROVE  ReportInv'
<1>1. /\ \A s \in Symbols : task[s] \in Task /\ positions[s] \in Holding
      /\ \A s \in Symbols : task[s].pc # "done" => task[s].id \in Ids
      /\ task \in [Symbols -> Task] /\ positions \in [Symbols -> Holding]
  BY DEF FlowInv, TypeOK, LocalsOK, TaskOK
<1>2. nextId' = nextId
  BY DEF Monitor, MonitorCheck, SweepRead, SweepDone, KillRead, CheckPosition, ExitTask,
         TrailRead, TrailWrite, Trailed, Exit, ReportOutcome, EloRead, EloDelete, Step,
         MonitorFrame
<1>3. CASE MonitorCheck
  BY <1>3, <1>2, TaskReport DEF MonitorCheck, ReportInv, Left, Swept, Unreported
<1>4. CASE SweepRead
  <2>1. /\ \A s \in Symbols, i \in Nat : Unreported(s, i)' => Unreported(s, i)
        /\ \A s \in Symbols : task'[s].pc # "outcome"
    BY <1>4, SnapshotReport DEF SweepRead, Before
  <2>2. Left' /\ Swept'
    BY <1>4, <2>1 DEF SweepRead, Left, Swept
  <2>3. QED
    BY <1>4, <1>2, <2>1, <2>2, TaskReport DEF SweepRead
<1>5. ASSUME NEW priced \in SUBSET Symbols, KillRead(priced)
      PROVE  ReportInv'
  <2>1. /\ \A s \in Symbols, i \in Nat : Unreported(s, i)' => Unreported(s, i)
        /\ \A s \in Symbols : task'[s].pc # "outcome"
    BY <1>5, SnapshotReport DEF KillRead, Before
  <2>2. Left' /\ Swept'
    BY <1>5, <2>1 DEF KillRead, Left, Swept
  <2>3. QED
    BY <1>5, <1>2, <2>1, <2>2, TaskReport DEF KillRead
<1>6. CASE SweepDone
  <2>1. \A s \in Symbols : task'[s].pc = "done"
    BY <1>6 DEF SweepDone, IdleTask
  <2>2. Left' /\ Swept'
    BY <2>1 DEF Left, Swept
  <2>3. \A s \in Symbols, i \in Nat : Unreported(s, i)' => Unreported(s, i)
    BY <1>6, <2>1 DEF SweepDone, Unreported, Before
  <2>4. QED
    BY <1>6, <1>2, <2>2, <2>3, TaskReport DEF SweepDone
<1>7. ASSUME NEW s \in Symbols, CheckPosition(s) \/ ExitTask(s)
      PROVE  ReportInv'
  <2>1. /\ mon' = mon /\ task[s].pc # "done"
        /\ \A t \in Symbols \ {s} : task'[t] = task[t] /\ positions'[t] = positions[t]
        /\ task'[s].id = task[s].id
    BY <1>1, <1>7
    DEF CheckPosition, ExitTask, TrailRead, TrailWrite, Trailed, Exit, ReportOutcome, EloRead,
        EloDelete, Step, Task, MonitorFrame
  <2>2. mon = "tasks"
    BY <2>1 DEF ReportInv, Swept
  <2>3. Swept'
    BY <2>1, <2>2 DEF Swept
  <2> DEFINE Keeps == \A i \in Nat : Unreported(s, i)' => Unreported(s, i)
  <2>4. ASSUME Keeps, UNCHANGED outcomes,
               task'[s].pc = "outcome" => positions'[s].id # task'[s].id
        PROVE  ReportInv'
    <3>1. \A t \in Symbols, i \in Nat : Unreported(t, i)' => Unreported(t, i)
      BY <2>1, <2>4 DEF Unreported
    <3>2. Left'
      BY <2>1, <2>4 DEF ReportInv, Left
    <3>3. QED
      BY <1>2, <2>3, <2>4, <3>1, <3>2, TaskReport
  <2>5. CASE CheckPosition(s) \/ Trailed(s)
    <3>1. /\ task'[s].pc \in {"done", "sell", "trailRead"} /\ task[s].pc \in Before
          /\ UNCHANGED <<positions, outcomes>>
      <4>1. CASE CheckPosition(s)
        BY <1>1, <4>1 DEF CheckPosition, Step, Before
      <4>2. CASE Trailed(s)
        BY <1>1, <4>2 DEF Trailed, Step, Before
      <4>3. QED
        BY <2>5, <4>1, <4>2
    <3>2. QED
      BY <2>1, <2>4, <3>1 DEF Unreported, Before
  <2>6. CASE TrailRead(s)
    <3>1. /\ task'[s].pc \in {"trailWrite", "trailed"} /\ task'[s].found = positions[s]
          /\ task[s].pc = "trailRead" /\ UNCHANGED <<positions, outcomes>>
      BY <1>1, <2>6 DEF TrailRead
    <3>2. ASSUME NEW i \in Nat, Unreported(s, i)' PROVE Unreported(s, i)
      BY ONLY <2>1, <3>1, <3>2, SMT DEF Unreported, Before
    <3>3. QED
      BY <2>4, <3>1, <3>2
  <2>7. CASE TrailWrite(s)
    <3>1. /\ task'[s].pc = "trailed" /\ positions'[s] = task[s].found
          /\ task[s].pc = "trailWrite" /\ UNCHANGED outcomes
      BY <1>1, <2>7 DEF TrailWrite, Step
    <3>2. QED
      BY <2>1, <2>4, <3>1 DEF Unreported, Before
  <2>8. CASE Exit(s)
    <3>1. /\ task'[s].pc = "outcome" /\ positions'[s].id = 0
          /\ task[s].pc = "sell" /\ UNCHANGED outcomes /\ task[s].id # 0
      BY <1>1, <2>8 DEF Exit, Step, NoPosition, Ids
    <3>2. QED
      BY <2>1, <2>4, <3>1 DEF Unreported, Before
  <2>9. CASE ReportOutcome(s)
    <3>1. /\ task'[s].pc = "eloRead" /\ UNCHANGED positions
          /\ task[s].pc = "outcome" /\ task[s].id \in Ids
          /\ outcomes' = Append(outcomes, task[s].id)
      BY <1>1, <2>9 DEF ReportOutcome, Step
    <3>2. Unreported(s, task[s].id) /\ positions[s].id # task[s].id
      BY <3>1 DEF ReportInv, Left, Unreported, Ids
    <3>3. ~Unreported(s, task[s].id)'
      BY <2>1, <3>1, <3>2 DEF Unreported, Before
    <3>4. \A t \in Symbols, i \in Nat : Unreported(t, i)' => Unreported(t, i)
      BY <2>1, <3>1 DEF Unreported, Before
    <3>5. Left'
      BY <2>1, <3>1 DEF ReportInv, Left
    <3>6. \E x \in Ids : /\ outcomes' = Append(outcomes, x)
                          /\ Unreported(s, x) /\ ~Unreported(s, x)'
      BY <2>1, <3>1, <3>2, <3>3 DEF Unreported, Before
    <3>7. QED
      BY <1>2, <2>3, <3>4, <3>5, <3>6, TaskReport
  <2>10. CASE EloRead(s) \/ EloDelete(s)
    <3>1. /\ task'[s].pc \in {"done", "eloDelete"} /\ task[s].pc \notin Before
          /\ UNCHANGED <<positions, outcomes>>
      <4>1. CASE EloRead(s)
        BY <1>1, <4>1 DEF EloRead, Before
      <4>2. CASE EloDelete(s)
        BY <1>1, <4>2 DEF EloDelete, Step, Before
      <4>3. QED
        BY <2>10, <4>1, <4>2
    <3>2. ASSUME NEW i \in Nat, Unreported(s, i)' PROVE Unreported(s, i)
      BY ONLY <2>1, <3>1, <3>2, SMT DEF Unreported, Before
    <3>3. QED
      BY <2>4, <3>1, <3>2
  <2>11. QED
    BY <1>7, <2>5, <2>6, <2>7, <2>8, <2>9, <2>10 DEF ExitTask
<1>8. QED
  BY <1>3, <1>4, <1>5, <1>6, <1>7 DEF Monitor

LEMMA InitReport ==
    ASSUME Init
    PROVE  ReportInv
<1>1. /\ nextId = 1 /\ outcomes = <<>> /\ mon = "idle"
      /\ \A s \in Symbols : task[s].pc = "done" /\ positions[s].id = 0
  BY DEF Init, IdleTask, NoPosition
<1>2. ToSet(outcomes) = {} /\ IsInjective(outcomes)
  BY <1>1 DEF ToSet, IsInjective
<1>3. \A s \in Symbols, i \in Nat : ~Unreported(s, i)
  BY <1>1 DEF Unreported, Before
<1>4. QED
  BY <1>1, <1>2, <1>3 DEF ReportInv, ReportedOnce, Known, Separate, Left, Swept

LEMMA NextReport ==
    ASSUME FlowInv, ReportInv, [Next]_vars
    PROVE  ReportInv'
<1>1. CASE Monitor
  BY <1>1, MonitorReport
<1>2. CASE Next /\ ~Monitor
  <2>1. ASSUME NEW s \in Symbols PROVE positions[s].id < nextId
    <3>1. positions[s].id \in Nat /\ nextId \in Ids
      BY DEF FlowInv, TypeOK, Holding
    <3>2. CASE positions[s].id = 0
      BY <3>1, <3>2 DEF Ids
    <3>3. CASE positions[s].id # 0
      BY <3>1, <3>3 DEF ReportInv, Known, Unreported
    <3>4. QED
      BY <3>2, <3>3
  <2>2. QED
    BY <1>2, <2>1, OthersBook, BookReport
<1>3. CASE UNCHANGED vars
  BY <1>3
  DEF vars, ReportInv, ReportedOnce, Known, Separate, Left, Swept, Unreported
<1>4. QED
  BY <1>1, <1>2, <1>3

(* A closed position is reported once on stream:trade_outcomes, whatever the
   loops, the operators and the monitor do meanwhile: an identity is reported
   by the one task that sold it, and the book never has it back
   (position_monitor.py:170-214). *)
THEOREM OnceReported == Spec => []ReportedOnce
<1>1. Init => FlowInv /\ ReportInv
  BY InitFlowInv, InitReport
<1>2. FlowInv /\ ReportInv /\ [Next]_vars => (FlowInv /\ ReportInv)'
  BY NextFlowInv, NextReport
<1>3. ReportInv => ReportedOnce
  BY DEF ReportInv
<1>4. QED
  BY <1>1, <1>2, <1>3, PTL DEF Spec

-----------------------------------------------------------------------------
(* Unattended.  An order that is on its way found its symbol free, and a task
   of the monitor holds the position it was started for, until it is sold. *)
Watched == \A l \in Loops, s \in Symbols : cyc[l][s].pc # "idle" => s \in deploy.watch[l]
Quiet == \A o \in Operators : req[o].pc = "idle"
LongOnly == \A l \in Loops, s \in Symbols :
                cyc[l][s].pc \in {"mode", "queue", "submit"} => cyc[l][s].side = "BUY"
Approaching(c) == c.pc = "submit" \/ (c.pc = "mode" /\ ~c.blocked)
Clear == \A l \in Loops, s \in Symbols : Approaching(cyc[l][s]) => ~Held(s)
Guarded == \A s \in Symbols :
              /\ task[s].pc \in Before => positions[s].id = task[s].id
              /\ task[s].pc = "trailWrite" => task[s].found = positions[s]
Bought == \A e \in executed : e.side = "BUY" =>
              e.fill \in {positions[s].id : s \in Symbols} \cup ToSet(closed)
Sold == /\ IsInjective(closed)
        /\ \A i \in ToSet(closed) : i < nextId
        /\ \A s \in Symbols : positions[s].id \notin ToSet(closed)
Told == \A i \in ToSet(closed) :
            i \in ToSet(outcomes) \/ \E s \in Symbols : task[s].pc = "outcome" /\ task[s].id = i
Alone == Quiet /\ LongOnly /\ Clear /\ Guarded /\ Bought /\ Sold /\ Told
AloneInv == Watched /\ (Unattended => Alone)

LEMMA BegunAt ==
    ASSUME TypeOK, NEW l \in Loops, NEW round, NEW k \in Loops, NEW s \in Symbols
    PROVE  /\ Begun(l, round)[k][s] = IF k # l THEN cyc[k][s]
                                      ELSE IF s \in round
                                      THEN [IdleCycle EXCEPT !.pc = "thinking", !.checked = epoch]
                                      ELSE IdleCycle
           /\ k = l /\ s \in round => Begun(l, round)[k][s].pc = "thinking"
           /\ k = l /\ s \notin round => Begun(l, round)[k][s].pc = "idle"
<1> DEFINE first == [IdleCycle EXCEPT !.pc = "thinking", !.checked = epoch]
           row == [t \in Symbols |-> IF t \in round THEN first ELSE IdleCycle]
<1>1. IdleCycle.pc = "idle" /\ first.pc = "thinking"
  BY DEF IdleCycle
<1>2. Begun(l, round) = [cyc EXCEPT ![l] = row]
  BY DEF Begun
<1> HIDE DEF first
<1>3. Begun(l, round)[k] = IF k = l THEN row ELSE cyc[k]
  BY <1>2 DEF TypeOK
<1>4. row[s] = IF s \in round THEN first ELSE IdleCycle
  OBVIOUS
<1>5. QED
  BY <1>1, <1>3, <1>4 DEF first

(* A step of Atlas moves one symbol of one loop. *)
LEMMA OtherCycles ==
    ASSUME TypeOK, NEW l \in Loops, NEW s \in Symbols, Atlas(l, s)
    PROVE  /\ AtlasFrame /\ cyc[l][s].pc # "idle"
           /\ \A k \in Loops, t \in Symbols : k # l \/ t # s => cyc'[k][t] = cyc[k][t]
<1> DEFINE Goal == /\ AtlasFrame /\ cyc[l][s].pc # "idle"
                   /\ \A k \in Loops, t \in Symbols : k # l \/ t # s => cyc'[k][t] = cyc[k][t]
<1>1. ASSUME NEW side \in Sides, ReadExisting(l, s, side) PROVE Goal
  BY <1>1 DEF ReadExisting, TypeOK
<1>2. CASE NoOrder(l, s)
  BY <1>2 DEF NoOrder, TypeOK
<1>3. CASE ReadMode(l, s)
  BY <1>3 DEF ReadMode, TypeOK
<1>4. CASE Queue(l, s)
  BY <1>4 DEF Queue, TypeOK
<1>5. CASE SubmitOrder(l, s)
  BY <1>5 DEF SubmitOrder, TypeOK
<1>6. CASE RecordTrade(l, s)
  BY <1>6 DEF RecordTrade, TypeOK
<1>7. CASE RecordLegacy(l, s)
  BY <1>7 DEF RecordLegacy, TypeOK
<1>8. QED
  BY <1>1, <1>2, <1>3, <1>4, <1>5, <1>6, <1>7 DEF Atlas

(* No other step starts a cycle. *)
LEMMA NextWatched ==
    ASSUME FlowInv, Watched, [Next]_vars
    PROVE  Watched' /\ deploy' = deploy
<1> TypeOK
  BY DEF FlowInv
<1>1. ASSUME NEW l \in PaperLoops, StartRound(l) PROVE Watched' /\ deploy' = deploy
  <2>1. l \in Loops /\ cyc' = Begun(l, deploy.watch[l]) /\ deploy' = deploy
    BY <1>1 DEF StartRound, Loops
  <2>2. QED
    BY <2>1, BegunAt DEF Watched
<1>2. ASSUME NEW l \in Runners, NEW s \in Symbols, RunOneCycle(l, s)
      PROVE  Watched' /\ deploy' = deploy
  <2>1. l \in Loops /\ cyc' = Begun(l, {s}) /\ deploy' = deploy /\ s \in deploy.watch[l]
    BY <1>2 DEF RunOneCycle, Loops, AtlasFrame, counters
  <2>2. QED
    BY <2>1, BegunAt DEF Watched
<1>3. ASSUME NEW l \in Loops, NEW s \in Symbols, Atlas(l, s)
      PROVE  Watched' /\ deploy' = deploy
  <2>1. /\ deploy' = deploy /\ cyc[l][s].pc # "idle"
        /\ \A k \in Loops, t \in Symbols : k # l \/ t # s => cyc'[k][t] = cyc[k][t]
    BY <1>3, OtherCycles DEF AtlasFrame, counters
  <2>2. QED
    BY <2>1 DEF Watched
<1>4. CASE \E o \in Operators : Accept(o) \/ Serve(o)
  <2>1. UNCHANGED <<deploy, cyc>>
    BY <1>4
    DEF Accept, Approve, Order, Reject, Kill, Reset, SetMode, Request, RequestFrame, Serve,
        CheckKill, RequestSubmit, ApproveElo, ApproveDelete, FlattenRead, FlattenOne,
        FlattenCredit, RequestFails, Continue
  <2>2. QED
    BY <2>1 DEF Watched
<1>5. CASE TripKill \/ UNCHANGED vars
  BY <1>5 DEF TripKill, vars, counters, Watched
<1>6. CASE Monitor
  <2>1. MonitorFrame
    BY <1>6
    DEF Monitor, MonitorCheck, SweepRead, SweepDone, KillRead, CheckPosition, ExitTask,
        TrailRead, TrailWrite, Trailed, Exit, ReportOutcome, EloRead, EloDelete, Step
  <2>2. QED
    BY <2>1 DEF MonitorFrame, counters, Watched
<1>7. QED
  BY <1>1, <1>2, <1>3, <1>4, <1>5, <1>6 DEF Next

(* What a step that leaves the book and the monitor alone has to respect. *)
LEMMA BookKept ==
    ASSUME FlowInv, Alone, UNCHANGED <<positions, executed, closed, outcomes, task, req>>,
           nextId' \in Nat, nextId <= nextId', LongOnly', Clear'
    PROVE  Alone'
<1>1. nextId \in Nat /\ \A i \in ToSet(closed) : i \in Nat
  BY DEF FlowInv, TypeOK, Ids, ToSet
<1>2. \A i \in ToSet(closed) : i < nextId'
  BY <1>1 DEF Alone, Sold
<1>3. Quiet' /\ Guarded' /\ Bought' /\ Told'
  BY DEF Alone, Quiet, Guarded, Bought, Told, Held
<1>4. Sold'
  BY <1>2 DEF Alone, Sold
<1>5. QED
  BY <1>3, <1>4 DEF Alone

(* Nothing but the loops and the monitor takes a step, and a round that begins
   is not on its way yet. *)
LEMMA RestAlone ==
    ASSUME FlowInv, Alone, Unattended, Next, ~Monitor,
           ~\E l \in Loops, s \in Symbols : Atlas(l, s)
    PROVE  Alone'
<1> TypeOK
  BY DEF FlowInv
<1>1. nextId \in Nat
  BY DEF TypeOK, Ids
<1>2. ASSUME NEW l \in Loops, NEW round, cyc' = Begun(l, round), UNCHANGED positions
      PROVE  LongOnly' /\ Clear'
  <2>1. \A k \in Loops, s \in Symbols :
           cyc'[k][s] = cyc[k][s] \/ cyc'[k][s].pc \in {"thinking", "idle"}
    BY <1>2, BegunAt
  <2>2. QED
    BY <1>2, <2>1 DEF Alone, LongOnly, Clear, Approaching, Held
<1>3. ASSUME NEW l \in PaperLoops, StartRound(l) PROVE Alone'
  BY <1>1, <1>2, <1>3, BookKept DEF StartRound, Loops, book
<1>4. ASSUME NEW l \in Runners, NEW s \in Symbols, RunOneCycle(l, s) PROVE Alone'
  BY <1>1, <1>2, <1>4, BookKept DEF RunOneCycle, Loops, AtlasFrame, book
<1>5. CASE TripKill
  <2>1. /\ UNCHANGED <<positions, executed, closed, outcomes, task, req, cyc>>
        /\ nextId' = nextId
    BY <1>5 DEF TripKill, book
  <2>2. LongOnly' /\ Clear'
    BY <2>1 DEF Alone, LongOnly, Clear, Held
  <2>3. QED
    BY <1>1, <2>1, <2>2, BookKept
<1>6. ASSUME NEW o \in Operators, Accept(o) PROVE FALSE
  BY <1>6 DEF Accept, Approve, Order, Reject, Kill, Reset, SetMode, Request, Unattended
<1>7. ASSUME NEW o \in Operators, Serve(o) PROVE FALSE
  BY <1>7
  DEF Serve, CheckKill, RequestSubmit, ApproveElo, ApproveDelete, FlattenRead, FlattenOne,
      FlattenCredit, RequestFails, Continue, Alone, Quiet
<1>8. QED
  BY <1>3, <1>4, <1>5, <1>6, <1>7 DEF Next

(* What the cycle a step of Atlas moves has to respect, if no order is sent. *)
LEMMA CycleAlone ==
    ASSUME FlowInv, Alone, NEW l \in Loops, NEW s \in Symbols, Atlas(l, s), ~SubmitOrder(l, s),
           cyc'[l][s].pc \in {"mode", "queue", "submit"} => cyc'[l][s].side = "BUY",
           Approaching(cyc'[l][s]) => ~Held(s)
    PROVE  Alone'
<1>1. \A k \in Loops, t \in Symbols : k # l \/ t # s => cyc'[k][t] = cyc[k][t]
  BY OtherCycles DEF FlowInv
<1>2. /\ UNCHANGED <<positions, executed, closed, outcomes, task, req>>
      /\ nextId \in Nat /\ nextId' \in {nextId, nextId + 1}
  BY DEF Atlas, NoOrder, ReadExisting, ReadMode, Queue, RecordTrade, RecordLegacy, AtlasFrame,
         book, FlowInv, TypeOK, Ids
<1>3. LongOnly'
  BY <1>1 DEF Alone, LongOnly
<1>4. Clear'
  BY <1>1, <1>2 DEF Alone, Clear, Held, Approaching
<1>5. QED
  BY <1>2, <1>3, <1>4, BookKept

(* An order that was clear to go opens a position where there was none. *)
LEMMA OrderAlone ==
    ASSUME FlowInv, ReportInv, Watched, Alone, Unattended,
           NEW l \in Loops, NEW s \in Symbols, SubmitOrder(l, s)
    PROVE  Alone'
<1> TypeOK
  BY DEF FlowInv
<1>1. /\ ~Held(s) /\ cyc[l][s].side = "BUY" /\ cyc[l][s].pc = "submit"
      /\ nextId \in Ids /\ nextId \in Nat
  BY DEF SubmitOrder, Alone, Clear, LongOnly, Approaching, TypeOK, Ids
<1>2. /\ nextId' = nextId + 1 /\ closed' = closed /\ UNCHANGED <<outcomes, task, req>>
      /\ positions'[s].id = nextId
      /\ \A t \in Symbols : t # s => positions'[t] = positions[t]
      /\ \E w : executed' = executed \cup {w} /\ w.fill = nextId
  <2>1. Execute(cyc[l][s].id, s, "BUY", cyc[l][s].checked) /\ AtlasFrame
    BY <1>1 DEF SubmitOrder
  <2>2. /\ nextId' = nextId + 1 /\ closed' = closed /\ UNCHANGED <<outcomes, task, req>>
        /\ positions' = [positions EXCEPT ![s] = [id |-> nextId, from |-> cyc[l][s].id]]
    BY <2>1 DEF Execute, AtlasFrame
  <2>3. \E w : executed' = executed \cup {w} /\ w.fill = nextId
    <3> DEFINE w == [fill |-> nextId, from |-> cyc[l][s].id, side |-> "BUY",
                     late |-> kill /\ cyc[l][s].checked = epoch]
    <3>1. executed' = executed \cup {w} /\ w.fill = nextId
      BY <2>1 DEF Execute
    <3>2. QED
      BY <3>1
  <2>4. QED
    BY <2>2, <2>3 DEF TypeOK
<1>3. \A k \in Loops, t \in Symbols : k # l \/ t # s => cyc'[k][t] = cyc[k][t]
  BY OtherCycles DEF Atlas
<1>4. cyc'[l][s].pc = "recordTrade"
  BY DEF SubmitOrder, TypeOK
<1>5. \A k \in Loops : cyc[k][s].pc # "idle" => k = l
  BY <1>1 DEF Watched, Unattended
<1>6. LongOnly'
  BY <1>3, <1>4 DEF Alone, LongOnly
<1>7. Clear'
  <2>1. ASSUME NEW k \in Loops, NEW t \in Symbols, Approaching(cyc'[k][t])
        PROVE  positions'[t].id = 0
    <3>1. k # l \/ t # s
      BY <1>4, <2>1 DEF Approaching
    <3>2. Approaching(cyc[k][t])
      BY <1>3, <2>1, <3>1
    <3>3. t # s
      BY <1>5, <3>1, <3>2 DEF Approaching
    <3>4. QED
      BY <1>2, <3>2, <3>3 DEF Alone, Clear, Held
  <2>2. QED
    BY <2>1 DEF Clear, Held
<1>8. Guarded'
  <2>1. task[s].pc \notin Before
    BY <1>1 DEF Alone, Guarded, Held, FlowInv, LocalsOK, TaskOK, Ids, Before
  <2>2. task[s].pc # "trailWrite"
    BY <2>1 DEF Before
  <2>3. QED
    BY <1>2, <2>1, <2>2 DEF Alone, Guarded
<1>9. Bought'
  <2>1. ASSUME NEW e \in executed', e.side = "BUY"
        PROVE  e.fill \in {positions'[t].id : t \in Symbols} \cup ToSet(closed)
    <3>1. CASE e.fill = nextId
      BY <1>2, <3>1
    <3>2. CASE e \in executed
      <4>1. e.fill # 0 /\ e.fill \in {positions[t].id : t \in Symbols} \cup ToSet(closed)
        BY <2>1, <3>2 DEF Alone, Bought, TypeOK, Execution, Ids
      <4>2. positions[s].id = 0
        BY <1>1 DEF Held
      <4>3. QED
        BY <1>2, <4>1, <4>2
    <3>3. QED
      BY <1>2, <3>1, <3>2
  <2>2. QED
    BY <1>2, <2>1 DEF Bought
<1>10. Sold'
  <2>1. \A i \in ToSet(closed) : i \in Nat
    BY DEF TypeOK, Ids, ToSet
  <2>2. \A i \in ToSet(closed) : i < nextId' /\ i # nextId
    BY <1>1, <1>2, <2>1 DEF Alone, Sold
  <2>3. \A t \in Symbols : positions'[t].id \notin ToSet(closed)
    BY <1>2, <2>2 DEF Alone, Sold
  <2>4. QED
    BY <1>2, <2>2, <2>3 DEF Alone, Sold
<1>11. Quiet' /\ Told'
  BY <1>2 DEF Alone, Quiet, Told
<1>12. QED
  BY <1>6, <1>7, <1>8, <1>9, <1>10, <1>11 DEF Alone

LEMMA AtlasAlone ==
    ASSUME FlowInv, ReportInv, Watched, Alone, Unattended,
           NEW l \in Loops, NEW s \in Symbols, Atlas(l, s)
    PROVE  Alone'
<1> TypeOK
  BY DEF FlowInv
<1>1. CASE SubmitOrder(l, s)
  BY <1>1, OrderAlone
<1>2. CASE ~SubmitOrder(l, s)
  <2> DEFINE Respects == /\ cyc'[l][s].pc \in {"mode", "queue", "submit"} =>
                                cyc'[l][s].side = "BUY"
                         /\ Approaching(cyc'[l][s]) => ~Held(s)
  <2>1. /\ cyc[l][s] \in Cycle /\ cyc \in [Loops -> [Symbols -> Cycle]]
        /\ cyc[l][s].pc \in {"mode", "queue", "submit"} => cyc[l][s].side = "BUY"
        /\ Approaching(cyc[l][s]) => ~Held(s)
    BY DEF Alone, LongOnly, Clear, TypeOK
  <2>2. ASSUME NEW side \in Sides, ReadExisting(l, s, side) PROVE Respects
    <3>1. side = "BUY"
      BY <2>2 DEF ReadExisting, Unattended, Sides
    <3>2. cyc'[l][s] = [cyc[l][s] EXCEPT !.pc = "mode", !.side = side,
                                         !.blocked = side = "BUY" /\ Held(s)]
      BY <2>1, <2>2 DEF ReadExisting, Blocks
    <3>3. /\ cyc'[l][s].pc = "mode" /\ cyc'[l][s].side = "BUY"
          /\ cyc'[l][s].blocked = (side = "BUY" /\ Held(s))
      BY <2>1, <3>1, <3>2 DEF Cycle
    <3>4. QED
      BY <3>1, <3>3 DEF Approaching
  <2>3. ASSUME ReadMode(l, s) PROVE Respects
    <3> DEFINE next == IF mode = "COMMANDER" THEN "queue" ELSE "submit"
    <3>0. /\ cyc' = [cyc EXCEPT ![l][s] =
                        IF cyc[l][s].blocked THEN IdleCycle
                        ELSE [cyc[l][s] EXCEPT !.pc = next, !.id = nextId]]
          /\ next \in {"queue", "submit"} /\ cyc[l][s].pc = "mode"
      BY <2>1, <2>3 DEF ReadMode
    <3> HIDE DEF next
    <3>1. CASE cyc[l][s].blocked
      <4>1. cyc'[l][s] = IdleCycle
        BY <2>1, <3>0, <3>1
      <4>2. QED
        BY <4>1 DEF IdleCycle, Approaching
    <3>2. CASE ~cyc[l][s].blocked
      <4>1. next \in {"queue", "submit"} /\ cyc[l][s].pc = "mode"
        BY <3>0
      <4>2. cyc'[l][s] = [cyc[l][s] EXCEPT !.pc = next, !.id = nextId]
        BY <2>1, <3>0, <3>2
      <4>3. cyc'[l][s].pc = next /\ cyc'[l][s].side = cyc[l][s].side
        BY <2>1, <4>2 DEF Cycle
      <4>4. QED
        BY <2>1, <3>2, <4>1, <4>3 DEF Approaching
    <3>3. QED
      BY <3>1, <3>2
  <2>4. ASSUME cyc' = [cyc EXCEPT ![l][s] = IdleCycle] PROVE Respects
    <3>1. cyc'[l][s] = IdleCycle
      BY <2>1, <2>4
    <3>2. QED
      BY <3>1 DEF IdleCycle, Approaching
  <2>5. ASSUME NEW next \in {"recordTrade", "recordLegacy"},
               cyc' = [cyc EXCEPT ![l][s].pc = next]
        PROVE  Respects
    <3>1. cyc'[l][s].pc = next
      BY <2>1, <2>5 DEF Cycle
    <3>2. QED
      BY <3>1 DEF Approaching
  <2>6. Respects
    <3> HIDE DEF Respects
    <3>1. CASE Queue(l, s)
      BY <2>5, <3>1 DEF Queue
    <3>2. CASE RecordTrade(l, s)
      BY <2>5, <3>2 DEF RecordTrade
    <3>3. CASE NoOrder(l, s)
      BY <2>4, <3>3 DEF NoOrder
    <3>4. CASE RecordLegacy(l, s)
      BY <2>4, <3>4 DEF RecordLegacy
    <3>5. QED
      BY <1>2, <2>2, <2>3, <3>1, <3>2, <3>3, <3>4 DEF Atlas
  <2>7. QED
    BY <1>2, <2>6, CycleAlone
<1>3. QED
  BY <1>1, <1>2

(* What a step of the monitor that sells nothing has to respect. *)
LEMMA TasksAlone ==
    ASSUME FlowInv, Alone, MonitorFrame, UNCHANGED <<positions, closed>>,
           Guarded', Told'
    PROVE  Alone'
<1>1. UNCHANGED <<executed, req, cyc, nextId>>
  BY DEF MonitorFrame
<1>2. QED
  BY <1>1 DEF Alone, Quiet, LongOnly, Clear, Held, Bought, Sold

(* The sweep's snapshot is taken between sweeps: what is closed was reported. *)
LEMMA SnapshotAlone ==
    ASSUME FlowInv, ReportInv, Alone, MonitorFrame, mon # "tasks",
           UNCHANGED <<positions, closed, outcomes>>,
           NEW label \in {"price", "sell"}, NEW ss, ss \subseteq HeldNow,
           task' = Snapshot(label, ss)
    PROVE  Alone'
<1>1. \A s \in Symbols :
         /\ s \in ss => task'[s].pc = label /\ task'[s].id = positions[s].id
         /\ s \notin ss => task'[s].pc = "done"
  BY DEF Snapshot, IdleTask
<1>2. Guarded'
  BY <1>1 DEF Guarded, Before
<1>3. \A s \in Symbols : task[s].pc # "outcome"
  BY DEF ReportInv, Swept
<1>4. Told'
  BY <1>3 DEF Alone, Told
<1>5. QED
  BY <1>2, <1>4, TasksAlone

LEMMA ExitAlone ==
    ASSUME FlowInv, ReportInv, Alone, NEW s \in Symbols, Exit(s)
    PROVE  Alone'
<1> DEFINE i == task[s].id
<1>1. /\ task[s].pc = "sell" /\ i \in Ids /\ positions[s].id = i /\ closed \in Seq(Ids)
      /\ \A t \in Symbols : task[t] \in Task
  BY DEF Exit, Step, FlowInv, TypeOK, LocalsOK, TaskOK, Alone, Guarded, Before
<1>2. /\ UNCHANGED <<executed, req, cyc, nextId, outcomes>>
      /\ closed' = Append(closed, i)
      /\ positions'[s].id = 0 /\ task'[s].pc = "outcome" /\ task'[s].id = i
      /\ \A t \in Symbols : t # s => positions'[t] = positions[t] /\ task'[t] = task[t]
  <2>1. /\ task' = [task EXCEPT ![s].pc = "outcome"] /\ MonitorFrame
        /\ positions' = [positions EXCEPT ![s] = NoPosition]
        /\ closed' = Append(closed, i) /\ outcomes' = outcomes
        /\ task \in [Symbols -> Task] /\ positions \in [Symbols -> Holding]
    BY DEF Exit, Step, FlowInv, TypeOK
  <2>2. UNCHANGED <<executed, req, cyc, nextId>>
    BY <2>1 DEF MonitorFrame
  <2>3. positions'[s].id = 0
    BY <2>1 DEF NoPosition
  <2>4. task'[s].pc = "outcome" /\ task'[s].id = i
    BY <2>1 DEF Task
  <2>5. QED
    BY <2>1, <2>2, <2>3, <2>4
<1> HIDE DEF i
<1>3. i # 0 /\ i \in Nat /\ i \notin ToSet(closed)
  BY <1>1 DEF Alone, Sold, Ids
<1>4. ToSet(closed') = ToSet(closed) \cup {i} /\ IsInjective(closed')
  BY <1>1, <1>2, <1>3, AppendOnce DEF Alone, Sold
<1>5. Unreported(s, i) /\ i < nextId
  <2>1. Unreported(s, i)
    BY <1>1, <1>3 DEF Unreported
  <2>2. QED
    BY <1>3, <2>1 DEF ReportInv, Known
<1>6. \A t \in Symbols : t # s => positions[t].id # i
  BY <1>3, <1>5 DEF ReportInv, Separate, Unreported
<1>7. Quiet' /\ LongOnly'
  BY <1>2 DEF Alone, Quiet, LongOnly
<1>8. Clear'
  BY <1>2 DEF Alone, Clear, Held
<1>9. Guarded'
  BY <1>2 DEF Alone, Guarded, Before
<1>10. Bought'
  <2>1. ASSUME NEW e \in executed, e.side = "BUY"
        PROVE  e.fill \in {positions'[t].id : t \in Symbols} \cup ToSet(closed')
    <3>1. e.fill \in {positions[t].id : t \in Symbols} \cup ToSet(closed)
      BY <2>1 DEF Alone, Bought
    <3>2. QED
      BY <1>1, <1>2, <1>4, <3>1
  <2>2. QED
    BY <1>2, <2>1 DEF Bought
<1>11. Sold'
  <2>1. \A t \in Symbols : positions'[t].id \notin ToSet(closed')
    <3>1. 0 \notin ToSet(closed) /\ i # 0
      BY <1>1, <1>3 DEF ToSet, Ids
    <3>2. QED
      BY <1>2, <1>4, <1>6, <3>1 DEF Alone, Sold
  <2>2. QED
    BY <1>2, <1>4, <1>5, <2>1 DEF Alone, Sold
<1>12. Told'
  <2>1. ASSUME NEW j \in ToSet(closed')
        PROVE  \/ j \in ToSet(outcomes)
               \/ \E t \in Symbols : task'[t].pc = "outcome" /\ task'[t].id = j
    <3>1. CASE j = i
      BY <1>2, <3>1
    <3>2. CASE j \in ToSet(closed)
      BY <1>1, <1>2, <3>2 DEF Alone, Told
    <3>3. QED
      BY <1>4, <3>1, <3>2
  <2>2. QED
    BY <1>2, <2>1 DEF Told
<1>13. QED
  BY <1>7, <1>8, <1>9, <1>10, <1>11, <1>12 DEF Alone

LEMMA TrailAlone ==
    ASSUME FlowInv, Alone, NEW s \in Symbols, TrailWrite(s)
    PROVE  Alone'
<1>1. /\ task[s].found = positions[s] /\ task[s].pc = "trailWrite"
      /\ task \in [Symbols -> Task] /\ positions \in [Symbols -> Holding]
      /\ task' = [task EXCEPT ![s].pc = "trailed"] /\ MonitorFrame
      /\ UNCHANGED <<closed, outcomes>>
  BY DEF TrailWrite, Step, Alone, Guarded, FlowInv, TypeOK
<1>2. positions' = positions
  BY <1>1 DEF TrailWrite
<1>3. /\ task'[s].pc = "trailed" /\ task'[s].id = task[s].id
      /\ \A t \in Symbols : t # s => task'[t] = task[t]
  BY <1>1 DEF Task
<1>4. Guarded'
  BY <1>1, <1>2, <1>3 DEF Alone, Guarded, Before
<1>5. Told'
  BY <1>1, <1>3 DEF Alone, Told
<1>6. QED
  BY <1>1, <1>2, <1>4, <1>5, TasksAlone

LEMMA ReportAlone ==
    ASSUME FlowInv, Alone, NEW s \in Symbols, ReportOutcome(s)
    PROVE  Alone'
<1>1. /\ task[s].pc = "outcome" /\ task[s].id \in Ids
      /\ task \in [Symbols -> Task] /\ outcomes \in Seq(Ids)
      /\ task' = [task EXCEPT ![s].pc = "eloRead"] /\ MonitorFrame
      /\ UNCHANGED <<closed, positions>> /\ outcomes' = Append(outcomes, task[s].id)
  BY DEF ReportOutcome, Step, FlowInv, TypeOK, LocalsOK, TaskOK
<1>2. ToSet(outcomes') = ToSet(outcomes) \cup {task[s].id}
  BY <1>1, AppendOnce
<1>3. /\ task'[s].pc = "eloRead"
      /\ \A t \in Symbols : t # s => task'[t] = task[t]
  BY <1>1 DEF Task
<1>4. Guarded'
  BY <1>1, <1>3 DEF Alone, Guarded, Before
<1>5. Told'
  BY <1>1, <1>2, <1>3 DEF Alone, Told
<1>6. QED
  BY <1>1, <1>4, <1>5, TasksAlone

LEMMA MonitorAlone ==
    ASSUME FlowInv, ReportInv, Alone, Monitor
    PROVE  Alone'
<1>1. task \in [Symbols -> Task] /\ \A s \in Symbols : task[s].pc # "done" => task[s].id \in Ids
  BY DEF FlowInv, TypeOK, LocalsOK, TaskOK
<1>2. CASE MonitorCheck
  BY <1>2, TasksAlone DEF MonitorCheck, Alone, Guarded, Told
<1>3. CASE SweepRead
  BY <1>3, SnapshotAlone DEF SweepRead
<1>4. ASSUME NEW priced \in SUBSET Symbols, KillRead(priced) PROVE Alone'
  BY <1>4, SnapshotAlone DEF KillRead
<1>5. CASE SweepDone
  <2>1. \A s \in Symbols : task[s].pc = "done" /\ task'[s].pc = "done"
    BY <1>5 DEF SweepDone, IdleTask
  <2>2. /\ MonitorFrame /\ UNCHANGED <<positions, closed, outcomes>>
    BY <1>5 DEF SweepDone
  <2>3. Guarded' /\ Told'
    BY <2>1, <2>2 DEF Alone, Guarded, Told, Before
  <2>4. QED
    BY <2>2, <2>3, TasksAlone
(* The task moves on, and what it holds is what it held. *)
<1>6. ASSUME NEW s \in Symbols, task[s].pc # "outcome", task'[s].pc # "outcome",
             \A t \in Symbols : t # s => task'[t] = task[t],
             task'[s].pc \in Before => task[s].pc \in Before /\ task'[s].id = task[s].id,
             task'[s].pc = "trailWrite" => task'[s].found = positions[s],
             MonitorFrame, UNCHANGED <<positions, closed, outcomes>>
      PROVE  Alone'
  <2>1. Guarded'
    BY <1>6 DEF Alone, Guarded
  <2>2. Told'
    BY <1>6 DEF Alone, Told
  <2>3. QED
    BY <1>6, <2>1, <2>2, TasksAlone
<1>7. ASSUME NEW s \in Symbols, NEW from, NEW to \in {"done", "sell", "trailRead"},
             Step(s, from, to), from \in {"price", "trailed", "eloDelete"},
             from = "eloDelete" => to = "done",
             UNCHANGED <<positions, closed, outcomes>>
      PROVE  Alone'
  <2>1. /\ task[s].pc = from /\ MonitorFrame /\ task' = [task EXCEPT ![s].pc = to]
    BY <1>7 DEF Step
  <2>2. /\ task'[s].pc = to /\ task'[s].id = task[s].id
        /\ \A t \in Symbols : t # s => task'[t] = task[t]
    BY <1>1, <2>1 DEF Task
  <2>3. QED
    BY <1>6, <1>7, <2>1, <2>2 DEF Before
<1>8. ASSUME NEW s \in Symbols, TrailRead(s) PROVE Alone'
  <2>1. /\ task[s].pc = "trailRead" /\ MonitorFrame /\ UNCHANGED <<positions, closed, outcomes>>
    BY <1>8 DEF TrailRead
  <2>2. Held(s)
    BY <1>1, <2>1 DEF Alone, Guarded, Held, Before, Ids
  <2>3. task' = [task EXCEPT ![s].found = positions[s], ![s].pc = "trailWrite"]
    BY <1>8, <2>2 DEF TrailRead
  <2>4. /\ task'[s].pc = "trailWrite" /\ task'[s].id = task[s].id
        /\ task'[s].found = positions[s]
        /\ \A t \in Symbols : t # s => task'[t] = task[t]
    BY <1>1, <2>3 DEF Task
  <2>5. QED
    BY <1>6, <2>1, <2>4 DEF Before
<1>9. ASSUME NEW s \in Symbols, EloRead(s) PROVE Alone'
  <2> DEFINE next == IF contributors[s] = {} THEN "done" ELSE "eloDelete"
  <2>1. /\ task[s].pc = "eloRead" /\ MonitorFrame /\ UNCHANGED <<positions, closed, outcomes>>
        /\ task' = [task EXCEPT ![s].agents = contributors[s], ![s].pc = next]
        /\ next \in {"done", "eloDelete"}
    BY <1>9 DEF EloRead
  <2> HIDE DEF next
  <2>2. /\ task'[s].pc = next
        /\ \A t \in Symbols : t # s => task'[t] = task[t]
    BY <1>1, <2>1 DEF Task
  <2>3. QED
    BY <1>6, <2>1, <2>2 DEF Before
<1>10. ASSUME NEW s \in Symbols, CheckPosition(s) \/ ExitTask(s) PROVE Alone'
  <2>1. CASE CheckPosition(s)
    BY <2>1, <1>7 DEF CheckPosition
  <2>2. CASE Trailed(s)
    BY <2>2, <1>7 DEF Trailed
  <2>3. CASE EloDelete(s)
    BY <2>3, <1>7 DEF EloDelete
  <2>4. QED
    BY <1>8, <1>9, <1>10, <2>1, <2>2, <2>3, ExitAlone, TrailAlone, ReportAlone DEF ExitTask
<1>11. QED
  BY <1>2, <1>3, <1>4, <1>5, <1>10 DEF Monitor

LEMMA InitAlone ==
    ASSUME Init
    PROVE  AloneInv
<1>1. /\ closed = <<>> /\ executed = {}
      /\ \A s \in Symbols : task[s].pc = "done"
      /\ \A o \in Operators : req[o].pc = "idle"
      /\ \A l \in Loops, s \in Symbols : cyc[l][s].pc = "idle"
  BY DEF Init, IdleTask, IdleRequest, IdleCycle
<1>2. ToSet(closed) = {} /\ IsInjective(closed)
  BY <1>1 DEF ToSet, IsInjective
<1>3. Watched /\ Quiet /\ LongOnly /\ Clear /\ Guarded
  BY <1>1 DEF Watched, Quiet, LongOnly, Clear, Approaching, Guarded, Before
<1>4. Bought /\ Sold /\ Told
  BY <1>1, <1>2 DEF Bought, Sold, Told
<1>5. QED
  BY <1>3, <1>4 DEF AloneInv, Alone

LEMMA NextAlone ==
    ASSUME FlowInv, ReportInv, AloneInv, [Next]_vars
    PROVE  AloneInv'
<1>1. Watched' /\ deploy' = deploy
  BY NextWatched DEF AloneInv
<1>2. ASSUME Unattended' PROVE Alone'
  <2>1. Unattended /\ Alone /\ Watched
    BY <1>1, <1>2 DEF Unattended, AloneInv
  <2>2. CASE Monitor
    BY <2>1, <2>2, MonitorAlone
  <2>3. CASE \E l \in Loops, s \in Symbols : Atlas(l, s)
    BY <2>1, <2>3, AtlasAlone
  <2>4. CASE UNCHANGED vars
    BY <2>1, <2>4
    DEF vars, Alone, Quiet, LongOnly, Clear, Held, Guarded, Bought, Sold, Told
  <2>5. QED
    BY <2>1, <2>2, <2>3, <2>4, RestAlone
<1>3. QED
  BY <1>1, <1>2 DEF AloneInv

LEMMA AloneAlways == Spec => [](FlowInv /\ ReportInv /\ AloneInv)
<1>1. Init => FlowInv /\ ReportInv /\ AloneInv
  BY InitFlowInv, InitReport, InitAlone
<1>2. FlowInv /\ ReportInv /\ AloneInv /\ [Next]_vars => (FlowInv /\ ReportInv /\ AloneInv)'
  BY NextFlowInv, NextReport, NextAlone
<1>3. QED
  BY <1>1, <1>2, PTL DEF Spec

(* With one long-only loop and no operator, a position once opened is on the
   book or was sold: between the look at the position (atlas.py:151) and the
   order nothing opens one for that symbol. *)
THEOREM PositionsKept == Spec => []NoPositionLost
<1>1. FlowInv /\ ReportInv /\ AloneInv => NoPositionLost
  BY DEF AloneInv, Alone, Bought, NoPositionLost
<1>2. QED
  BY <1>1, AloneAlways, PTL

(* ... it is sold once, although the monitor sells from a snapshot and writes
   positions back (position_monitor.py:98-214) ... *)
THEOREM OnceSold == Spec => []SoldOnce
<1>1. FlowInv /\ ReportInv /\ AloneInv => SoldOnce
  BY DEF AloneInv, Alone, Sold, SoldOnce
<1>2. QED
  BY <1>1, AloneAlways, PTL

(* ... and between sweeps it has been reported (position_monitor.py:76). *)
THEOREM AllExitsReported == Spec => []ExitsReported
<1>1. FlowInv /\ ReportInv /\ AloneInv => ExitsReported
  <2>1. ASSUME ReportInv, Alone, mon = "idle" PROVE ToSet(closed) \subseteq ToSet(outcomes)
    BY <2>1 DEF ReportInv, Swept, Alone, Told
  <2>2. QED
    BY <2>1 DEF AloneInv, ExitsReported
<1>2. QED
  BY <1>1, AloneAlways, PTL

-----------------------------------------------------------------------------
(* Decisions.  The id a cycle has drawn is known to that cycle alone until the
   decision is queued or sent; a queued one was not rejected, and what was
   traded of it is the work of the request that is about to remove it, or of
   one that failed before it did. *)
Carries(c, d) == c.pc \in {"queue", "submit"} /\ c.id = d
Files(c, d) == c.pc \in {"queue", "submit", "recordTrade"} /\ c.id = d
Traded(d) == \E e \in executed : e.from = d
Live(d) == \E e \in executed : e.from = d /\ e.fill \notin cut
Dated == \A e \in executed : e.fill < nextId
Spent(d) == \/ Traded(d) \/ d \in tradeKeys \/ d \in rejected
            \/ (\E p \in pending : p.id = d) \/ (\E o \in Operators : req[o].signal = d)
Drawn(d) == \E l \in Loops, s \in Symbols : Files(cyc[l][s], d)
Numbered == \A d \in Ids : Spent(d) \/ Drawn(d) => d < nextId
Own == \A l \in Loops, s \in Symbols, d \in Ids : Carries(cyc[l][s], d) =>
          /\ ~Spent(d)
          /\ \A m \in Loops, t \in Symbols : Files(cyc[m][t], d) => l = m /\ s = t
Removing(o, d) == req[o].signal = d /\ req[o].pc \in {"approveElo", "approveDelete"}
Queued == \A p \in pending :
             p.id \notin rejected /\ (Live(p.id) => \E o \in Operators : Removing(o, p.id))
Served == \A o \in Operators : req[o].pc \in {"check", "submit"} /\ req[o].signal # 0 =>
             ~Live(req[o].signal) /\ req[o].signal \notin rejected
DecisionInv == ExecutedAtMostOnce /\ Dated /\ Numbered /\ Own /\ Queued /\ Served

(* The console: requests are served one at a time. *)
OneAtATime == \A o, p \in Operators : o = p

(* What a step of a request that trades nothing has to respect. *)
LEMMA ServeDecision ==
    ASSUME FlowInv, DecisionInv, UNCHANGED <<executed, tradeKeys, cyc, nextId>>,
           cut \subseteq cut', \A d \in Ids : Spent(d)' => Spent(d), Queued', Served'
    PROVE  DecisionInv'
<1>1. ExecutedAtMostOnce' /\ Dated' /\ Numbered'
  BY DEF DecisionInv, ExecutedAtMostOnce, Dated, Numbered, Drawn
<1>2. Own'
  BY DEF DecisionInv, Own
<1>3. QED
  BY <1>1, <1>2 DEF DecisionInv

LEMMA AcceptDecision ==
    ASSUME OneAtATime, FlowInv, DecisionInv, NEW o \in Operators, Accept(o)
    PROVE  DecisionInv'
<1> TypeOK
  BY DEF FlowInv
<1>1. /\ req[o].pc = "idle" /\ \A q \in Operators : q = o
      /\ UNCHANGED <<executed, tradeKeys, cyc, nextId, cut>>
      /\ req \in [Operators -> Handler] /\ pending \subseteq Signal
  <2>1. req[o].pc = "idle" /\ RequestFrame /\ UNCHANGED <<book, cut>>
    BY DEF Accept, Approve, Order, Reject, Kill, Reset, SetMode, Request
  <2>2. QED
    BY <2>1 DEF RequestFrame, book, OneAtATime, TypeOK
<1>2. \A p \in pending : ~Live(p.id) /\ p.id \notin rejected
  BY <1>1 DEF DecisionInv, Queued, Removing
<1>3. \A d : (Traded(d)' <=> Traded(d)) /\ (Live(d)' <=> Live(d))
  BY <1>1 DEF Traded, Live
<1>4. ASSUME pending' \subseteq pending, rejected' = rejected,
             req'[o].signal # 0 =>
                \/ req'[o].signal = req[o].signal /\ req'[o].pc \notin {"check", "submit"}
                \/ \E p \in pending : req'[o].signal = p.id
      PROVE  DecisionInv'
  <2>1. \A d \in Ids : Spent(d)' => Spent(d)
    BY <1>1, <1>3, <1>4 DEF Spent, Ids
  <2>2. Queued'
    BY <1>2, <1>3, <1>4 DEF Queued
  <2>3. Served'
    BY <1>1, <1>2, <1>3, <1>4 DEF Served
  <2>4. QED
    BY <1>1, <2>1, <2>2, <2>3, ServeDecision
<1>5. ASSUME NEW signal \in pending, Approve(o, signal) PROVE DecisionInv'
  <2>1. req'[o].signal = signal.id
    BY <1>1, <1>5 DEF Approve, IdleRequest
  <2>2. QED
    BY <1>4, <1>5, <2>1 DEF Approve
<1>6. ASSUME NEW side \in Sides, NEW s \in Symbols, Order(o, side, s) PROVE DecisionInv'
  <2>1. req'[o].signal = 0
    BY <1>1, <1>6 DEF Order, IdleRequest
  <2>2. QED
    BY <1>4, <1>6, <2>1 DEF Order
<1>7. ASSUME NEW d \in tradeKeys \cup {signal.id : signal \in pending}, Reject(o, d)
      PROVE  DecisionInv'
  <2>1. Spent(d)
    BY DEF Spent
  <2>2. rejected' = rejected \cup {d} /\ pending' = Without(d) /\ req' = req
    BY <1>7 DEF Reject
  <2>3. \A e \in Ids : Spent(e)' => Spent(e)
    BY <1>1, <1>3, <2>1, <2>2 DEF Spent, Without
  <2>4. Queued'
    BY <1>2, <1>3, <2>2 DEF Queued, Without
  <2>5. Served'
    BY <1>1, <2>2 DEF Served
  <2>6. QED
    BY <1>1, <2>3, <2>4, <2>5, ServeDecision
<1>8. CASE Kill(o)
  <2>1. req' = [req EXCEPT ![o].pc = "flattenRead"]
    BY <1>8 DEF Kill
  <2>2. req'[o].signal = req[o].signal /\ req'[o].pc = "flattenRead"
    BY <1>1, <2>1 DEF Handler
  <2>3. QED
    BY <1>4, <1>8, <2>2 DEF Kill
<1>9. ASSUME req' = req, pending' = pending, rejected' = rejected PROVE DecisionInv'
  BY <1>1, <1>4, <1>9
<1>10. CASE Reset(o)
  BY <1>9, <1>10 DEF Reset
<1>11. ASSUME NEW m \in {"COMMANDER", "TRUSTED"}, SetMode(o, m) PROVE DecisionInv'
  BY <1>9, <1>11 DEF SetMode
<1>12. QED
  BY <1>5, <1>6, <1>7, <1>8, <1>10, <1>11 DEF Accept

(* An approved decision is sent once: until it is removed from the queue, the
   request that sent it is the only one. *)
LEMMA SendDecision ==
    ASSUME OneAtATime, FlowInv, DecisionInv, NEW o \in Operators, RequestSubmit(o)
    PROVE  DecisionInv'
<1> TypeOK
  BY DEF FlowInv
<1> DEFINE d == req[o].signal
<1>1. /\ req[o].pc = "submit" /\ \A q \in Operators : q = o
      /\ UNCHANGED <<tradeKeys, cyc, pending, rejected, cut>>
      /\ req \in [Operators -> Handler] /\ pending \subseteq Signal
      /\ req[o].side \in Sides
      /\ Execute(d, req[o].symbol, req[o].side, req[o].checked)
  BY DEF RequestSubmit, Continue, RequestFrame, OneAtATime, TypeOK, FlowInv, LocalsOK, HandlerOK
<1>2. /\ nextId' = nextId + 1 /\ nextId \in Nat
      /\ \E w : executed' = executed \cup {w} /\ w.from = d /\ w.fill = nextId
  <2> DEFINE w == [fill |-> nextId, from |-> d, side |-> req[o].side,
                   late |-> kill /\ req[o].checked = epoch]
  <2>1. executed' = executed \cup {w} /\ w.from = d /\ w.fill = nextId
    BY <1>1 DEF Execute
  <2>2. QED
    BY <1>1, <2>1 DEF Execute, TypeOK, Ids
<1>3. \A e : Traded(e)' <=> Traded(e) \/ e = d
  BY <1>2 DEF Traded
<1>3a. \A e : Live(e)' => Live(e) \/ e = d
  BY <1>1, <1>2 DEF Live
<1>4. d # 0 => ~Live(d) /\ d \notin rejected
  BY <1>1 DEF DecisionInv, Served
<1>5. d \in Nat
  BY <1>1 DEF Handler
<1>6. \/ req'[o].signal = d /\ req'[o].pc \in {"approveElo", "approveDelete"}
      \/ d = 0
  <2> DEFINE next == IF req[o].side = "BUY" THEN "approveElo" ELSE "approveDelete"
  <2>1. d # 0 => req' = [req EXCEPT ![o] = [req[o] EXCEPT !.pc = next]]
    BY <1>1 DEF RequestSubmit
  <2>2. next \in {"approveElo", "approveDelete"}
    OBVIOUS
  <2> HIDE DEF next
  <2>3. QED
    BY <1>1, <2>1, <2>2 DEF Handler
<1>7. req'[o].signal \in {d, 0} /\ req'[o].pc \notin {"check", "submit"}
  <2>1. CASE d = 0
    <3>1. req' = [req EXCEPT ![o] = IdleRequest]
      BY <1>1, <2>1 DEF RequestSubmit
    <3>2. QED
      BY <1>1, <3>1 DEF IdleRequest
  <2>2. QED
    BY <1>6, <2>1
<1> HIDE DEF d
<1>8. \A e \in Ids : Spent(e)' => Spent(e)
  <2>1. \A e \in Ids : e = d => Spent(e)
    BY DEF Spent, d
  <2>2. QED
    BY <1>1, <1>3, <1>7, <2>1 DEF Spent, Ids
<1>9. ExecutedAtMostOnce' /\ Dated'
  <2>1. PICK w : executed' = executed \cup {w} /\ w.from = d /\ w.fill = nextId
    BY <1>2
  <2>2. \A e \in executed : e.fill < nextId /\ e.fill \in Nat
    BY DEF DecisionInv, Dated, TypeOK, Execution, Ids
  <2>3. \A e \in executed : ~(nextId < e.fill)
    BY <1>2, <2>2
  <2>4. ~(nextId < nextId)
    BY <1>2
  <2>5. \A e \in executed : e.from = d /\ d # 0 => e.fill \in cut
    BY <1>4 DEF Live
  <2>6. ExecutedAtMostOnce'
    BY <1>1, <2>1, <2>3, <2>4, <2>5 DEF DecisionInv, ExecutedAtMostOnce
  <2>7. Dated'
    BY <1>2, <2>1, <2>2 DEF Dated
  <2>8. QED
    BY <2>6, <2>7
<1>10. Numbered'
  <2>1. \A e \in Ids : e < nextId => e < nextId'
    BY <1>2 DEF Ids
  <2>2. \A e \in Ids : Drawn(e)' => Drawn(e)
    BY <1>1 DEF Drawn
  <2>3. QED
    BY <1>8, <2>1, <2>2 DEF DecisionInv, Numbered
<1>11. Own'
  BY <1>1, <1>8 DEF DecisionInv, Own
<1>12. Queued'
  <2>1. ASSUME NEW p \in pending, Live(p.id)' PROVE Removing(o, p.id)'
    <3>1. p.id # 0
      BY <1>1 DEF Signal, Ids
    <3>2. ~Live(p.id)
      BY <1>1 DEF DecisionInv, Queued, Removing
    <3>3. p.id = d
      BY <1>3a, <2>1, <3>2
    <3>4. QED
      BY <1>6, <3>1, <3>3 DEF Removing
  <2>2. QED
    BY <1>1, <2>1 DEF DecisionInv, Queued
<1>13. Served'
  BY <1>1, <1>7 DEF Served
<1>14. QED
  BY <1>9, <1>10, <1>11, <1>12, <1>13 DEF DecisionInv

LEMMA RequestDecision ==
    ASSUME OneAtATime, FlowInv, DecisionInv, NEW o \in Operators, Serve(o)
    PROVE  DecisionInv'
<1> TypeOK
  BY DEF FlowInv
<1>1. CASE RequestSubmit(o)
  BY <1>1, SendDecision
<1>2. CASE ~RequestSubmit(o)
  <2>1. /\ RequestFrame /\ rejected' = rejected /\ UNCHANGED <<executed, nextId>>
        /\ cut \subseteq cut' /\ \A q \in Operators : q = o
    BY <1>2
    DEF Serve, CheckKill, ApproveElo, ApproveDelete, FlattenRead, FlattenOne, FlattenCredit,
        RequestFails, Continue, book, OneAtATime
  <2>2. UNCHANGED <<tradeKeys, cyc>>
    BY <2>1 DEF RequestFrame
  <2>3. /\ req \in [Operators -> Handler] /\ pending \subseteq Signal
        /\ \A d : (Traded(d)' <=> Traded(d)) /\ (Live(d)' => Live(d))
    BY <2>1 DEF TypeOK, Traded, Live
  <2>4. ASSUME pending' \subseteq pending,
               \/ req'[o].signal = 0 /\ \A p \in pending' : ~Live(p.id)'
               \/ req'[o].signal = req[o].signal /\ (Served => Served') /\ (Queued => Queued')
        PROVE  DecisionInv'
    <3>1. \A d \in Ids : Spent(d)' => Spent(d)
      BY <2>1, <2>2, <2>3, <2>4 DEF Spent, Ids
    <3>2. CASE req'[o].signal = 0 /\ \A p \in pending' : ~Live(p.id)'
      <4>1. Served'
        BY <2>1, <3>2 DEF Served
      <4>2. Queued'
        BY <2>1, <2>3, <2>4, <3>2 DEF DecisionInv, Queued
      <4>3. QED
        BY <2>1, <2>2, <3>1, <4>1, <4>2, ServeDecision
    <3>3. CASE /\ req'[o].signal = req[o].signal
               /\ (Served => Served') /\ (Queued => Queued')
      <4>1. Served' /\ Queued'
        BY <3>3 DEF DecisionInv
      <4>2. QED
        BY <2>1, <2>2, <3>1, <4>1, ServeDecision
    <3>4. QED
      BY <2>4, <3>2, <3>3
(* Between two requests, and before an approval is sent, nothing queued has
   been traded. *)
  <2>5. ASSUME req[o].pc \notin {"approveElo", "approveDelete"}
        PROVE  \A p \in pending : ~Live(p.id)
    BY <2>1, <2>5 DEF DecisionInv, Queued, Removing
  <2>6. ASSUME req[o].pc \notin {"approveElo", "approveDelete"}, pending' = pending,
               req'[o].signal = req[o].signal, req'[o].pc \in {"check", "submit"} =>
                                                  req[o].pc \in {"check", "submit"}
        PROVE  DecisionInv'
    <3>1. Queued'
      BY <2>1, <2>3, <2>5, <2>6 DEF DecisionInv, Queued
    <3>2. Served'
      BY <2>1, <2>3, <2>6 DEF DecisionInv, Served
    <3>3. QED
      BY <2>4, <2>6, <3>1, <3>2
  <2>7. CASE CheckKill(o)
    <3>1. req[o].pc = "check" /\ pending' = pending
      BY <2>7 DEF CheckKill, Continue
    <3>2. CASE kill
      <4>1. req' = [req EXCEPT ![o] = IdleRequest]
        BY <2>3, <2>7, <3>2 DEF CheckKill
      <4>2. req'[o].signal = 0
        BY <2>3, <4>1 DEF IdleRequest
      <4>3. \A p \in pending' : ~Live(p.id)'
        BY <2>3, <2>5, <3>1
      <4>4. QED
        BY <2>4, <3>1, <4>2, <4>3
    <3>3. CASE ~kill
      <4>1. req' = [req EXCEPT ![o] = [req[o] EXCEPT !.pc = "submit", !.checked = epoch]]
        BY <2>3, <2>7, <3>3 DEF CheckKill
      <4>2. req'[o].signal = req[o].signal
        BY <2>3, <4>1 DEF Handler
      <4>3. QED
        BY <2>6, <3>1, <4>2
    <3>4. QED
      BY <3>2, <3>3
  <2>8. CASE ApproveElo(o)
    <3>1. /\ req' = [req EXCEPT ![o].pc = "approveDelete"] /\ pending' = pending
          /\ req[o].pc = "approveElo"
      BY <2>8 DEF ApproveElo, Continue
    <3>2. req'[o].signal = req[o].signal /\ req'[o].pc = "approveDelete"
      BY <2>3, <3>1 DEF Handler
    <3>3. Served'
      BY <2>1, <3>2 DEF Served
    <3>4. Queued'
      BY <2>1, <2>3, <3>1, <3>2 DEF DecisionInv, Queued, Removing
    <3>5. QED
      BY <2>4, <3>1, <3>2, <3>3, <3>4
  <2>9. CASE ApproveDelete(o)
    <3>1. /\ req' = [req EXCEPT ![o] = IdleRequest] /\ pending' = Without(req[o].signal)
      BY <2>9 DEF ApproveDelete
    <3>2. req'[o].signal = 0
      BY <2>3, <3>1 DEF IdleRequest
    <3>3. \A p \in pending' : ~Live(p.id)'
      BY <2>1, <2>3, <3>1 DEF DecisionInv, Queued, Removing, Without
    <3>4. pending' \subseteq pending
      BY <3>1 DEF Without
    <3>5. QED
      BY <2>4, <3>2, <3>3, <3>4
  <2>10. CASE FlattenRead(o)
    <3> DEFINE left == {<<s, positions[s].id>> : s \in {t \in Symbols : Held(t)}}
    <3>1. /\ req' = [req EXCEPT ![o] = [req[o] EXCEPT !.pc = "flatten", !.left = left]]
          /\ req[o].pc = "flattenRead" /\ pending' = pending
      BY <2>3, <2>10 DEF FlattenRead, Continue
    <3> HIDE DEF left
    <3>2. req'[o].signal = req[o].signal /\ req'[o].pc = "flatten"
      BY <2>3, <3>1 DEF Handler
    <3>3. QED
      BY <2>6, <3>1, <3>2
  <2>11. ASSUME NEW p \in req[o].left, FlattenOne(o, p) PROVE DecisionInv'
    <3>1. /\ req' = [req EXCEPT ![o] = [req[o] EXCEPT !.left = req[o].left \ {p}]]
          /\ req[o].pc = "flatten" /\ pending' = pending
      BY <2>3, <2>11 DEF FlattenOne, Continue
    <3>2. req'[o].signal = req[o].signal /\ req'[o].pc = "flatten"
      BY <2>3, <3>1 DEF Handler
    <3>3. QED
      BY <2>6, <3>1, <3>2
  <2>12. CASE FlattenCredit(o)
    <3>1. /\ req' = [req EXCEPT ![o] = IdleRequest] /\ pending' = pending
          /\ req[o].pc = "flatten"
      BY <2>12 DEF FlattenCredit, Continue
    <3>2. req'[o].signal = 0
      BY <2>3, <3>1 DEF IdleRequest
    <3>3. \A p \in pending' : ~Live(p.id)'
      BY <2>3, <2>5, <3>1
    <3>4. QED
      BY <2>4, <3>1, <3>2, <3>3
(* Where a request fails that was removing a signal, its trade is cut. *)
  <2>13. CASE RequestFails(o)
    <3>1. req' = [req EXCEPT ![o] = IdleRequest] /\ pending' = pending
      BY <2>13 DEF RequestFails
    <3>2. req'[o].signal = 0
      BY <2>3, <3>1 DEF IdleRequest
    <3>3. ASSUME NEW p \in pending PROVE ~Live(p.id)'
      <4>1. CASE Removing(o, p.id)
        <5>1. cut' = cut \cup TradesOf(p.id)
          BY <2>13, <4>1 DEF RequestFails, Removing, Approving
        <5>2. QED
          BY <2>1, <5>1 DEF Live, TradesOf
      <4>2. CASE ~Removing(o, p.id)
        BY <2>1, <2>3, <4>2 DEF DecisionInv, Queued
      <4>3. QED
        BY <4>1, <4>2
    <3>4. QED
      BY <2>4, <3>1, <3>2, <3>3
  <2>14. QED
    BY <1>2, <2>7, <2>8, <2>9, <2>10, <2>11, <2>12, <2>13 DEF Serve
<1>3. QED
  BY <1>1, <1>2

(* What a step of Atlas has to respect: what it makes known of a decision is
   what its own cycle has drawn. *)
LEMMA AtlasDecision ==
    ASSUME FlowInv, DecisionInv, NEW l \in Loops, NEW s \in Symbols, Atlas(l, s)
    PROVE  DecisionInv'
<1> TypeOK
  BY DEF FlowInv
<1> DEFINE c == cyc[l][s]
<1>1. /\ AtlasFrame /\ UNCHANGED <<req, rejected, cut>>
      /\ \A k \in Loops, t \in Symbols : k # l \/ t # s => cyc'[k][t] = cyc[k][t]
      /\ nextId \in Nat /\ pending \subseteq Signal /\ c \in Cycle
      /\ cyc \in [Loops -> [Symbols -> Cycle]]
      /\ c.pc \in {"queue", "submit", "recordTrade"} => c.id \in Ids
  BY OtherCycles DEF AtlasFrame, TypeOK, Ids, FlowInv, LocalsOK, CycleOK
<1>1a. UNCHANGED executed /\ nextId' \in {nextId, nextId + 1} => Dated'
  <2>1. \A e \in executed : e.fill < nextId /\ e.fill \in Nat
    BY DEF DecisionInv, Dated, TypeOK, Execution, Ids
  <2>2. QED
    BY <1>1, <2>1 DEF Dated
(* Nothing is drawn. *)
<1>2. ASSUME UNCHANGED <<executed, pending, tradeKeys>>, nextId' \in {nextId, nextId + 1},
             cyc'[l][s].pc \notin {"queue", "submit", "recordTrade"}
      PROVE  DecisionInv'
  <2>1. \A d : /\ (Traded(d)' <=> Traded(d)) /\ (Spent(d)' <=> Spent(d))
               /\ (Live(d)' <=> Live(d))
    BY <1>1, <1>2 DEF Traded, Spent, Live
  <2>2. \A d \in Ids : Drawn(d)' => Drawn(d)
    BY <1>1, <1>2 DEF Drawn, Files
  <2>3. Numbered'
    <3>1. \A d \in Ids : d < nextId => d < nextId'
      BY <1>1, <1>2 DEF Ids
    <3>2. QED
      BY <2>1, <2>2, <3>1 DEF DecisionInv, Numbered
  <2>4. Own'
    BY <1>1, <1>2, <2>1 DEF DecisionInv, Own, Carries, Files
  <2>5. ExecutedAtMostOnce' /\ Dated' /\ Queued' /\ Served'
    BY <1>1, <1>1a, <1>2, <2>1 DEF DecisionInv, ExecutedAtMostOnce, Queued, Served, Removing
  <2>6. QED
    BY <2>3, <2>4, <2>5 DEF DecisionInv
(* An id is drawn. *)
<1>3. ASSUME UNCHANGED <<executed, pending, tradeKeys>>, nextId' = nextId + 1,
             cyc'[l][s].pc \in {"queue", "submit"}, cyc'[l][s].id = nextId
      PROVE  DecisionInv'
  <2>1. \A d : /\ (Traded(d)' <=> Traded(d)) /\ (Spent(d)' <=> Spent(d))
               /\ (Live(d)' <=> Live(d))
    BY <1>1, <1>3 DEF Traded, Spent, Live
  <2>2. nextId \in Ids => ~Spent(nextId) /\ ~Drawn(nextId)
    BY <1>1 DEF DecisionInv, Numbered
  <2>3. nextId \in Ids
    BY DEF TypeOK
  <2>4. Numbered'
    <3>1. \A d \in Ids : Drawn(d)' => Drawn(d) \/ d = nextId
      BY <1>1, <1>3 DEF Drawn, Files
    <3>2. \A d \in Ids : d < nextId \/ d = nextId => d < nextId'
      BY <1>1, <1>3 DEF Ids
    <3>3. QED
      BY <2>1, <3>1, <3>2 DEF DecisionInv, Numbered
  <2>5. Own'
    <3>1. ASSUME NEW k \in Loops, NEW t \in Symbols, NEW d \in Ids, Carries(cyc'[k][t], d)
          PROVE  /\ ~Spent(d)
                 /\ \A m \in Loops, u \in Symbols : Files(cyc'[m][u], d) => k = m /\ t = u
      <4>1. CASE k = l /\ t = s
        <5>1. d = nextId
          BY <1>3, <3>1, <4>1 DEF Carries
        <5>2. \A m \in Loops, u \in Symbols : ~Files(cyc[m][u], d)
          BY <2>2, <2>3, <5>1 DEF Drawn
        <5>3. QED
          BY <1>1, <2>2, <2>3, <4>1, <5>1, <5>2
      <4>2. CASE k # l \/ t # s
        <5>1. Carries(cyc[k][t], d)
          BY <1>1, <3>1, <4>2
        <5>2. d # nextId
          BY <2>2, <5>1 DEF Drawn, Files, Carries
        <5>3. ~Files(cyc'[l][s], d)
          BY <1>3, <5>2 DEF Files
        <5>4. QED
          BY <1>1, <5>1, <5>3 DEF DecisionInv, Own
      <4>3. QED
        BY <4>1, <4>2
    <3>2. QED
      BY <2>1, <3>1 DEF Own
  <2>6. ExecutedAtMostOnce' /\ Dated' /\ Queued' /\ Served'
    BY <1>1, <1>1a, <1>3, <2>1 DEF DecisionInv, ExecutedAtMostOnce, Queued, Served, Removing
  <2>7. QED
    BY <2>4, <2>5, <2>6 DEF DecisionInv
(* What a step has to respect that makes its own decision known. *)
<1>4. ASSUME Files(c, c.id), nextId' \in {nextId, nextId + 1},
             cyc'[l][s].pc \in {"recordTrade", "recordLegacy"}, cyc'[l][s].id = c.id,
             \A d \in Ids : Spent(d)' => Spent(d) \/ d = c.id,
             ExecutedAtMostOnce', Dated', Queued', Served'
      PROVE  DecisionInv'
  <2>1. c.id \in Ids
    BY <1>1, <1>4 DEF Files
  <2>2. Numbered'
    <3>1. \A d \in Ids : Drawn(d)' \/ d = c.id => Drawn(d)
      BY <1>1, <1>4 DEF Drawn, Files
    <3>2. \A d \in Ids : d < nextId => d < nextId'
      BY <1>1, <1>4 DEF Ids
    <3>3. QED
      BY <1>4, <3>1, <3>2 DEF DecisionInv, Numbered
  <2>3. Own'
    <3>1. ASSUME NEW k \in Loops, NEW t \in Symbols, NEW d \in Ids, Carries(cyc'[k][t], d)
          PROVE  /\ ~Spent(d)'
                 /\ \A m \in Loops, u \in Symbols : Files(cyc'[m][u], d) => k = m /\ t = u
      <4>1. k # l \/ t # s
        BY <1>4, <3>1 DEF Carries
      <4>2. Carries(cyc[k][t], d)
        BY <1>1, <3>1, <4>1
      <4>3. d # c.id
        BY <1>4, <4>1, <4>2 DEF DecisionInv, Own
      <4>4. ~Files(cyc'[l][s], d)
        BY <1>4, <4>3 DEF Files
      <4>5. QED
        BY <1>1, <1>4, <4>2, <4>3, <4>4 DEF DecisionInv, Own
    <3>2. QED
      BY <3>1 DEF Own
  <2>4. QED
    BY <1>4, <2>2, <2>3 DEF DecisionInv
<1>5. c.pc \in {"queue", "submit"} =>
         /\ c.id \in Ids /\ Files(c, c.id) /\ ~Spent(c.id) /\ ~Traded(c.id) /\ ~Live(c.id)
  BY <1>1 DEF DecisionInv, Own, Carries, Files, Spent, Traded, Live
<1>6. CASE NoOrder(l, s) 
  <2>1. cyc'[l][s] = IdleCycle
    BY <1>1, <1>6 DEF NoOrder
  <2>2. QED
    BY <1>2, <1>6, <2>1 DEF NoOrder, IdleCycle, book, queue
<1>7. CASE RecordLegacy(l, s)
  <2>1. cyc'[l][s] = IdleCycle
    BY <1>1, <1>7 DEF RecordLegacy
  <2>2. QED
    BY <1>2, <1>7, <2>1 DEF RecordLegacy, IdleCycle, book
<1>8. ASSUME NEW side \in Sides, ReadExisting(l, s, side) PROVE DecisionInv'
  <2>1. /\ cyc[l][s] \in Cycle /\ cyc \in [Loops -> [Symbols -> Cycle]]
        /\ cyc' = [cyc EXCEPT ![l][s].pc = "mode", ![l][s].side = side,
                              ![l][s].blocked = side = "BUY" /\ Blocks(Held(s))]
    BY <1>1, <1>8 DEF ReadExisting
  <2>2. cyc'[l][s].pc = "mode"
    BY ONLY <2>1 DEF Cycle
  <2>3. QED
    BY <1>2, <1>8, <2>2 DEF ReadExisting, book, queue
<1>9. CASE ReadMode(l, s)
  <2> DEFINE next == IF mode = "COMMANDER" THEN "queue" ELSE "submit"
  <2>1. cyc' = [cyc EXCEPT ![l][s] = IF c.blocked THEN IdleCycle
                                     ELSE [c EXCEPT !.pc = next, !.id = nextId]]
    BY <1>1, <1>9 DEF ReadMode
  <2>2. next \in {"queue", "submit"}
    OBVIOUS
  <2> HIDE DEF next
  <2>3. /\ c.blocked => cyc'[l][s].pc = "idle"
        /\ ~c.blocked => cyc'[l][s].pc = next /\ cyc'[l][s].id = nextId
    BY <1>1, <2>1 DEF Cycle, IdleCycle
  <2>4. QED
    BY <1>2, <1>3, <1>9, <2>2, <2>3 DEF ReadMode, queue
<1>10. CASE Queue(l, s)
  <2>1. cyc'[l][s].pc = "recordTrade" /\ cyc'[l][s].id = c.id /\ c.pc = "queue"
    BY <1>1, <1>10 DEF Queue, Cycle
  <2>2. /\ UNCHANGED <<executed, tradeKeys, nextId>>
        /\ \E p : pending' = pending \cup {p} /\ p.id = c.id
    <3> DEFINE p == [id |-> c.id, symbol |-> s, side |-> c.side]
    <3>1. pending' = pending \cup {p} /\ p.id = c.id
      BY <1>10 DEF Queue
    <3>2. QED
      BY <1>10, <3>1 DEF Queue, book
  <2>3. \A d : (Traded(d)' <=> Traded(d)) /\ (Live(d)' <=> Live(d))
    BY <1>1, <2>2 DEF Traded, Live
  <2>4. \A d \in Ids : Spent(d)' => Spent(d) \/ d = c.id
    BY <1>1, <2>2, <2>3 DEF Spent
  <2>5. ExecutedAtMostOnce' /\ Dated' /\ Served'
    BY <1>1, <2>2, <2>3 DEF DecisionInv, ExecutedAtMostOnce, Dated, Served
  <2>6. Queued'
    <3>1. c.id \notin rejected /\ ~Live(c.id)
      BY <1>5, <2>1 DEF Spent
    <3>2. QED
      BY <1>1, <2>2, <2>3, <3>1 DEF DecisionInv, Queued, Removing
  <2>7. QED
    BY <1>4, <1>5, <2>1, <2>2, <2>4, <2>5, <2>6
<1>11. CASE SubmitOrder(l, s)
  <2>1. cyc'[l][s].pc = "recordTrade" /\ cyc'[l][s].id = c.id /\ c.pc = "submit"
    BY <1>1, <1>11 DEF SubmitOrder, Cycle
  <2>2. /\ UNCHANGED <<pending, tradeKeys>> /\ nextId' = nextId + 1
        /\ \E w : executed' = executed \cup {w} /\ w.from = c.id /\ w.fill = nextId
    <3> DEFINE w == [fill |-> nextId, from |-> c.id, side |-> c.side,
                     late |-> kill /\ c.checked = epoch]
    <3>1. executed' = executed \cup {w} /\ w.from = c.id /\ w.fill = nextId
      BY <1>11 DEF SubmitOrder, Execute
    <3>2. QED
      BY <1>11, <3>1 DEF SubmitOrder, Execute, queue
  <2>3. \A d : Traded(d)' <=> Traded(d) \/ d = c.id
    BY <2>2 DEF Traded
  <2>3a. \A d : Live(d)' => Live(d) \/ d = c.id
    BY <1>1, <2>2 DEF Live
  <2>4. \A d \in Ids : Spent(d)' => Spent(d) \/ d = c.id
    BY <1>1, <2>2, <2>3 DEF Spent
  <2>5. ExecutedAtMostOnce' /\ Dated'
    <3>1. PICK w : executed' = executed \cup {w} /\ w.from = c.id /\ w.fill = nextId
      BY <2>2
    <3>2. \A e \in executed : e.from # c.id
      BY <1>5, <2>1 DEF Traded
    <3>3. ~(nextId < nextId)
      BY <1>1
    <3>4. ExecutedAtMostOnce'
      BY <1>1, <3>1, <3>2, <3>3 DEF DecisionInv, ExecutedAtMostOnce
    <3>5. \A e \in executed : e.fill < nextId /\ e.fill \in Nat
      BY DEF DecisionInv, Dated, TypeOK, Execution, Ids
    <3>6. Dated'
      BY <1>1, <2>2, <3>1, <3>5 DEF Dated
    <3>7. QED
      BY <3>4, <3>6
  <2>6. Queued' /\ Served'
    <3>1. /\ \A p \in pending : p.id # c.id
          /\ \A o \in Operators : req[o].signal # c.id
      BY <1>5, <2>1 DEF Spent
    <3>2. QED
      BY <1>1, <2>2, <2>3a, <3>1 DEF DecisionInv, Queued, Served, Removing
  <2>7. QED
    BY <1>4, <1>5, <2>1, <2>2, <2>4, <2>5, <2>6
<1>12. CASE RecordTrade(l, s)
  <2>1. cyc'[l][s].pc = "recordLegacy" /\ cyc'[l][s].id = c.id /\ c.pc = "recordTrade"
    BY <1>1, <1>12 DEF RecordTrade, Cycle
  <2>2. /\ UNCHANGED <<executed, pending, nextId>> /\ tradeKeys' = tradeKeys \cup {c.id}
    BY <1>12 DEF RecordTrade, book
  <2>3. \A d : (Traded(d)' <=> Traded(d)) /\ (Live(d)' <=> Live(d))
    BY <1>1, <2>2 DEF Traded, Live
  <2>4. \A d \in Ids : Spent(d)' => Spent(d) \/ d = c.id
    BY <1>1, <2>2, <2>3 DEF Spent
  <2>5. ExecutedAtMostOnce' /\ Dated' /\ Queued' /\ Served'
    BY <1>1, <2>2, <2>3 DEF DecisionInv, ExecutedAtMostOnce, Dated, Queued, Served, Removing
  <2>6. Files(c, c.id)
    BY <2>1 DEF Files
  <2>7. QED
    BY <1>4, <2>1, <2>2, <2>4, <2>5, <2>6
<1>13. QED
  BY <1>6, <1>7, <1>8, <1>9, <1>10, <1>11, <1>12 DEF Atlas

LEMMA InitDecision ==
    ASSUME Init
    PROVE  DecisionInv
<1>1. /\ executed = {} /\ tradeKeys = {} /\ rejected = {} /\ pending = {}
      /\ \A o \in Operators : req[o].signal = 0 /\ req[o].pc = "idle"
      /\ \A l \in Loops, s \in Symbols : cyc[l][s].pc = "idle"
  BY DEF Init, IdleRequest, IdleCycle
<1>2. \A d \in Ids : ~Spent(d) /\ ~Drawn(d) /\ ~Live(d)
  BY <1>1 DEF Spent, Traded, Live, Drawn, Files, Ids
<1>3. QED
  BY <1>1, <1>2
  DEF DecisionInv, ExecutedAtMostOnce, Dated, Numbered, Own, Carries, Queued, Served

LEMMA NextDecision ==
    ASSUME OneAtATime, FlowInv, DecisionInv, [Next]_vars
    PROVE  DecisionInv'
<1> TypeOK
  BY DEF FlowInv
<1>1. ASSUME UNCHANGED <<executed, tradeKeys, rejected, pending, req, nextId, cyc, cut>>
      PROVE  DecisionInv'
  BY <1>1
  DEF DecisionInv, ExecutedAtMostOnce, Dated, Numbered, Own, Spent, Traded, Live, Drawn, Files,
      Carries, Queued, Removing, Served
<1>2. ASSUME NEW l \in Loops, NEW round, cyc' = Begun(l, round),
             UNCHANGED <<executed, tradeKeys, rejected, pending, req, nextId, cut>>
      PROVE  DecisionInv'
  <2>1. \A k \in Loops, s \in Symbols :
           cyc'[k][s] = cyc[k][s] \/ cyc'[k][s].pc \in {"thinking", "idle"}
    BY <1>2, BegunAt
  <2>2. \A d : /\ (Traded(d)' <=> Traded(d)) /\ (Spent(d)' <=> Spent(d))
               /\ (Live(d)' <=> Live(d))
    BY <1>2 DEF Traded, Spent, Live
  <2>3. \A d \in Ids : Drawn(d)' => Drawn(d)
    BY <2>1 DEF Drawn, Files
  <2>4. Numbered'
    BY <1>2, <2>2, <2>3 DEF DecisionInv, Numbered
  <2>5. Own'
    BY <2>1, <2>2 DEF DecisionInv, Own, Carries, Files
  <2>6. ExecutedAtMostOnce' /\ Dated' /\ Queued' /\ Served'
    BY <1>2, <2>2 DEF DecisionInv, ExecutedAtMostOnce, Dated, Queued, Served, Removing
  <2>7. QED
    BY <2>4, <2>5, <2>6 DEF DecisionInv
<1>3. ASSUME NEW l \in PaperLoops, StartRound(l) PROVE DecisionInv'
  BY <1>2, <1>3 DEF StartRound, Loops, book, queue
<1>4. ASSUME NEW l \in Runners, NEW s \in Symbols, RunOneCycle(l, s) PROVE DecisionInv'
  BY <1>2, <1>4 DEF RunOneCycle, AtlasFrame, Loops, book, queue
<1>5. CASE TripKill
  BY <1>1, <1>5 DEF TripKill, book, queue
<1>6. CASE Monitor
  <2>1. MonitorFrame
    BY <1>6
    DEF Monitor, MonitorCheck, SweepRead, SweepDone, KillRead, CheckPosition, ExitTask,
        TrailRead, TrailWrite, Trailed, Exit, ReportOutcome, EloRead, EloDelete, Step
  <2>2. QED
    BY <1>1, <2>1 DEF MonitorFrame
<1>7. CASE UNCHANGED vars
  BY <1>1, <1>7 DEF vars
<1>8. QED
  BY <1>3, <1>4, <1>5, <1>6, <1>7, AtlasDecision, AcceptDecision, RequestDecision DEF Next

(* A decision that was rejected is not one an order is sent for. *)
LEMMA RejectedStep ==
    ASSUME FlowInv, DecisionInv, [Next]_vars
    PROVE  \A e \in executed' \ executed : e.from \notin rejected
<1> TypeOK
  BY DEF FlowInv
<1>1. ASSUME NEW from, NEW s, NEW side, NEW checked, Execute(from, s, side, checked),
             from \notin rejected
      PROVE  \A e \in executed' \ executed : e.from \notin rejected
  BY <1>1 DEF Execute
<1>2. ASSUME NEW l \in Loops, NEW s \in Symbols, SubmitOrder(l, s)
      PROVE  \A e \in executed' \ executed : e.from \notin rejected
  <2>1. Carries(cyc[l][s], cyc[l][s].id) /\ cyc[l][s].id \in Ids
    BY <1>2 DEF SubmitOrder, Carries, FlowInv, LocalsOK, CycleOK
  <2>2. cyc[l][s].id \notin rejected
    BY <2>1 DEF DecisionInv, Own, Spent
  <2>3. QED
    BY <1>1, <1>2, <2>2 DEF SubmitOrder
<1>3. ASSUME NEW o \in Operators, RequestSubmit(o)
      PROVE  \A e \in executed' \ executed : e.from \notin rejected
  <2>1. req[o].signal \notin rejected
    <3>1. req[o].signal # 0 => req[o].signal \notin rejected
      BY <1>3 DEF RequestSubmit, Continue, DecisionInv, Served
    <3>2. 0 \notin rejected
      BY DEF TypeOK, Ids
    <3>3. QED
      BY <3>1, <3>2
  <2>2. QED
    BY <1>1, <1>3, <2>1 DEF RequestSubmit
<1>4. ASSUME UNCHANGED executed
      PROVE  \A e \in executed' \ executed : e.from \notin rejected
  BY <1>4
<1>5. ASSUME NEW l \in Loops, NEW s \in Symbols, Atlas(l, s), ~SubmitOrder(l, s)
      PROVE  UNCHANGED executed
  BY <1>5
  DEF Atlas, NoOrder, ReadExisting, ReadMode, Queue, RecordTrade, RecordLegacy, book
<1>6. ASSUME NEW o \in Operators, Accept(o) \/ (Serve(o) /\ ~RequestSubmit(o))
      PROVE  UNCHANGED executed
  <2>1. CASE Accept(o)
    BY <2>1 DEF Accept, Approve, Order, Reject, Kill, Reset, SetMode, book
  <2>2. CASE Serve(o) /\ ~RequestSubmit(o)
    BY <2>2
    DEF Serve, CheckKill, ApproveElo, ApproveDelete, FlattenRead, FlattenOne, FlattenCredit,
        RequestFails, book
  <2>3. QED
    BY <1>6, <2>1, <2>2
<1>7. ASSUME NEW l \in PaperLoops, StartRound(l) PROVE UNCHANGED executed
  BY <1>7 DEF StartRound, book
<1>8. ASSUME NEW l \in Runners, NEW s \in Symbols, RunOneCycle(l, s) PROVE UNCHANGED executed
  BY <1>8 DEF RunOneCycle, book
<1>9. CASE TripKill
  BY <1>9 DEF TripKill, book
<1>10. CASE UNCHANGED vars
  BY <1>10 DEF vars
<1>11. ASSUME Monitor PROVE UNCHANGED executed
  <2>1. MonitorFrame
    BY <1>11
    DEF Monitor, MonitorCheck, SweepRead, SweepDone, KillRead, CheckPosition, ExitTask,
        TrailRead, TrailWrite, Trailed, Exit, ReportOutcome, EloRead, EloDelete, Step
  <2>2. QED
    BY <2>1 DEF MonitorFrame
<1>12. QED
  BY <1>2, <1>3, <1>4, <1>5, <1>6, <1>7, <1>8, <1>9, <1>10, <1>11 DEF Next

(* Where the console serves one request at a time, a decision is traded again
   only after an approval that failed between its order and the removal of the
   signal, for any loops in any mode (orders.py:159-182). *)
THEOREM TradedOnce ==
    ASSUME OneAtATime
    PROVE  Spec => []ExecutedAtMostOnce
<1>1. Init => FlowInv /\ DecisionInv
  BY InitFlowInv, InitDecision
<1>2. FlowInv /\ DecisionInv /\ [Next]_vars => (FlowInv /\ DecisionInv)'
  BY NextFlowInv, NextDecision
<1>3. DecisionInv => ExecutedAtMostOnce
  BY DEF DecisionInv
<1>4. QED
  BY <1>1, <1>2, <1>3, PTL DEF Spec

(* ... and none that was rejected is traded afterwards (orders.py:185-189). *)
THEOREM RejectedNotTraded ==
    ASSUME OneAtATime
    PROVE  Spec => RejectedStaysRejected
<1>1. Init => FlowInv /\ DecisionInv
  BY InitFlowInv, InitDecision
<1>2. FlowInv /\ DecisionInv /\ [Next]_vars => (FlowInv /\ DecisionInv)'
  BY NextFlowInv, NextDecision
<1>3. FlowInv /\ DecisionInv /\ [Next]_vars =>
         [\A e \in executed' \ executed : e.from \notin rejected]_vars
  BY RejectedStep
<1>4. QED
  BY <1>1, <1>2, <1>3, PTL DEF Spec, RejectedStaysRejected

-----------------------------------------------------------------------------
(* Origins.  A position's identity is that of the BUY that opened it, wherever
   it has got to; a trade id is drawn before the order is sent, from the same
   counter, and is the identity of no execution. *)
Opened(i) == \E e \in executed : e.fill = i /\ e.side = "BUY"
Named(i) == \/ \E s \in Symbols : i \in {positions[s].id, task[s].id, task[s].found.id}
            \/ \E o \in Operators : \E p \in req[o].left : p[2] = i
            \/ i \in ToSet(closed) \cup ToSet(outcomes)
Filed(i) == i \in tradeKeys \/ \E l \in Loops, s \in Symbols : cyc[l][s].id = i
OriginInv == /\ \A e \in executed : e.fill < nextId
             /\ \A i \in Ids : Named(i) => Opened(i)
             /\ \A i \in Ids : Filed(i) => i < nextId /\ \A e \in executed : e.fill # i

(* What a step that executes no order has to respect. *)
LEMMA KeepOrigin ==
    ASSUME TypeOK, OriginInv, UNCHANGED executed, nextId' \in {nextId, nextId + 1},
           \A i \in Ids : Named(i)' => Named(i),
           \A i \in Ids : Filed(i)' => Filed(i) \/ (i = nextId /\ nextId' = nextId + 1)
    PROVE  OriginInv'
<1>1. nextId \in Nat /\ \A e \in executed : e.fill \in Nat
  BY DEF TypeOK, Ids, Execution
<1>2. \A e \in executed : e.fill < nextId /\ e.fill < nextId' /\ e.fill # nextId
  BY <1>1 DEF OriginInv
<1>3. ASSUME NEW i \in Ids, Filed(i)'
      PROVE  i < nextId' /\ \A e \in executed : e.fill # i
  BY <1>1, <1>2, <1>3 DEF OriginInv, Ids
<1>4. \A i \in Ids : Opened(i) => Opened(i)'
  BY DEF Opened
<1>5. QED
  BY <1>2, <1>3, <1>4 DEF OriginInv

(* An order: the BUY it may be is the only new identity. *)
LEMMA ExecuteOrigin ==
    ASSUME TypeOK, OriginInv, NEW from, NEW s \in Symbols, NEW side, NEW checked,
           Execute(from, s, side, checked), UNCHANGED <<task, outcomes>>,
           \A o \in Operators : req'[o].left \subseteq req[o].left,
           \A i \in Ids : Filed(i)' => Filed(i)
    PROVE  OriginInv'
<1> DEFINE new == [fill |-> nextId, from |-> from, side |-> side,
                   late |-> kill /\ checked = epoch]
<1>1. nextId \in Ids /\ nextId' = nextId + 1 /\ executed' = executed \cup {new}
      /\ new.fill = nextId /\ new.side = side
  BY DEF Execute, TypeOK
<1> HIDE DEF new
<1>2. \A e \in executed : e.fill \in Nat /\ e.fill < nextId
  BY DEF TypeOK, Ids, Execution, OriginInv
<1>3. \A e \in executed' : e.fill < nextId'
  BY <1>1, <1>2 DEF Ids
<1>4. ASSUME NEW i \in Ids, Filed(i)'
      PROVE  i < nextId' /\ \A e \in executed' : e.fill # i
  <2>1. i < nextId /\ \A e \in executed : e.fill # i
    BY <1>4 DEF OriginInv
  <2>2. QED
    BY <1>1, <2>1 DEF Ids
<1>5. \A i \in Ids : Opened(i) => Opened(i)'
  BY <1>1 DEF Opened
<1>6. side = "BUY" => new \in executed' /\ new.fill = nextId /\ new.side = "BUY"
  BY <1>1
<1>7. \A t \in Symbols : positions'[t].id \in {positions[t].id, 0}
                         \/ (side = "BUY" /\ positions'[t].id = nextId)
  BY DEF Execute, TypeOK, NoPosition
<1>8. ToSet(closed') \subseteq ToSet(closed) \cup {positions[t].id : t \in Symbols}
  <2>1. CASE side = "SELL" /\ Held(s)
    <3>1. positions[s].id \in Ids /\ closed \in Seq(Ids)
      BY <2>1 DEF TypeOK, Held, Holding, Ids
    <3>2. QED
      BY <2>1, <3>1, AppendOnce DEF Execute
  <2>2. CASE ~(side = "SELL" /\ Held(s))
    BY <2>2 DEF Execute
  <2>3. QED
    BY <2>1, <2>2
<1>9. ASSUME NEW i \in Ids, Named(i)' PROVE Named(i) \/ (side = "BUY" /\ i = nextId)
  <2>1. i # 0
    BY DEF Ids
  <2>2. CASE \E t \in Symbols : i \in {positions'[t].id, task'[t].id, task'[t].found.id}
    BY <1>7, <2>1, <2>2 DEF Named
  <2>3. CASE \E o \in Operators : \E p \in req'[o].left : p[2] = i
    BY <2>3 DEF Named
  <2>4. CASE i \in ToSet(closed') \cup ToSet(outcomes')
    BY <1>8, <2>4 DEF Named
  <2>5. QED
    BY <1>9, <2>2, <2>3, <2>4 DEF Named
<1>10. ASSUME NEW i \in Ids, Named(i)' PROVE Opened(i)'
  <2>1. CASE Named(i)
    BY <1>5, <2>1 DEF OriginInv
  <2>2. CASE side = "BUY" /\ i = nextId
    BY <1>6, <2>2 DEF Opened
  <2>3. QED
    BY <1>9, <1>10, <2>1, <2>2
<1>11. QED
  BY <1>3, <1>4, <1>10 DEF OriginInv

(* Moving on, a task keeps what it has in hand. *)
LEMMA StepKeeps ==
    ASSUME TypeOK, NEW s \in Symbols, NEW from, NEW to, Step(s, from, to)
    PROVE  \A t \in Symbols : task'[t].id = task[t].id /\ task'[t].found = task[t].found
<1>1. task' = [task EXCEPT ![s] = [task[s] EXCEPT !.pc = to]]
  BY DEF Step
<1>2. task \in [Symbols -> Task]
  BY DEF TypeOK
<1>3. \A t \in Symbols : task'[t] = IF t = s THEN [task[s] EXCEPT !.pc = to] ELSE task[t]
  BY <1>1, <1>2
<1>4. /\ [task[s] EXCEPT !.pc = to].id = task[s].id
      /\ [task[s] EXCEPT !.pc = to].found = task[s].found
  BY <1>2 DEF Task
<1>5. QED
  BY <1>3, <1>4

LEMMA MonitorOrigin ==
    ASSUME FlowInv, OriginInv, Monitor
    PROVE  OriginInv'
<1> TypeOK
  BY DEF FlowInv
<1>1. MonitorFrame
  BY DEF Monitor, MonitorCheck, SweepRead, SweepDone, KillRead, CheckPosition, ExitTask, Step,
         TrailRead, TrailWrite, Trailed, Exit, ReportOutcome, EloRead, EloDelete
<1>2. \A s \in Symbols : /\ positions[s].id \in Nat /\ task[s] \in Task
                         /\ task[s].pc # "done" => task[s].id \in Ids
  BY DEF FlowInv, TypeOK, LocalsOK, TaskOK, Holding
<1>3. closed \in Seq(Ids) /\ outcomes \in Seq(Ids)
  BY DEF TypeOK
(* Nothing but the tasks and the book. *)
<1>4. ASSUME UNCHANGED <<closed, outcomes>>,
             \A s \in Symbols :
                {positions'[s].id, task'[s].id, task'[s].found.id} \subseteq
                    {positions[s].id, task[s].id, task[s].found.id, 0}
      PROVE  \A i \in Ids : Named(i)' => Named(i)
  <2>1. \A i \in Ids : i # 0
    BY DEF Ids
  <2>2. QED
    BY <1>1, <1>4, <2>1 DEF Named, MonitorFrame
<1>5. ASSUME NEW label, NEW ss, task' = Snapshot(label, ss),
             UNCHANGED <<positions, closed, outcomes>>
      PROVE  \A i \in Ids : Named(i)' => Named(i)
  <2> DEFINE new(s) == IF s \in ss THEN [IdleTask EXCEPT !.pc = label, !.id = positions[s].id]
                       ELSE IdleTask
  <2>1. \A s \in Symbols : task'[s] = new(s)
    BY <1>5 DEF Snapshot
  <2>2. ASSUME NEW s \in Symbols
        PROVE  new(s).id \in {positions[s].id, 0} /\ new(s).found.id = 0
    BY DEF IdleTask, NoPosition
  <2> HIDE DEF new
  <2>3. \A s \in Symbols : positions'[s].id = positions[s].id
    BY <1>5
  <2>4. QED
    BY <1>4, <1>5, <2>1, <2>2, <2>3
<1>6. ASSUME MonitorCheck
      PROVE  \A i \in Ids : Named(i)' => Named(i)
  BY <1>4, <1>6 DEF MonitorCheck
<1>7. ASSUME SweepRead
      PROVE  \A i \in Ids : Named(i)' => Named(i)
  BY <1>5, <1>7 DEF SweepRead
<1>8. ASSUME NEW priced \in SUBSET Symbols, KillRead(priced)
      PROVE  \A i \in Ids : Named(i)' => Named(i)
  BY <1>5, <1>8 DEF KillRead
<1>9. ASSUME SweepDone
      PROVE  \A i \in Ids : Named(i)' => Named(i)
  <2>1. IdleTask.id = 0 /\ IdleTask.found.id = 0
    BY DEF IdleTask, NoPosition
  <2>2. \A s \in Symbols : task'[s] = IdleTask
    BY <1>9 DEF SweepDone
  <2>3. QED
    BY <1>4, <1>9, <2>1, <2>2 DEF SweepDone
<1>10. ASSUME NEW s \in Symbols, CheckPosition(s) \/ Trailed(s) \/ EloRead(s) \/ EloDelete(s)
       PROVE  \A i \in Ids : Named(i)' => Named(i)
  <2>1. UNCHANGED <<positions, closed, outcomes>>
    BY <1>10 DEF CheckPosition, Trailed, EloRead, EloDelete
  <2>2. \A t \in Symbols : task'[t].id = task[t].id /\ task'[t].found = task[t].found
    <3>1. CASE EloRead(s)
      BY <1>2, <3>1 DEF EloRead, TypeOK, Task
    <3>2. CASE CheckPosition(s) \/ Trailed(s) \/ EloDelete(s)
      BY <3>2, StepKeeps DEF CheckPosition, Trailed, EloDelete
    <3>3. QED
      BY <1>10, <3>1, <3>2
  <2>3. QED
    BY <1>4, <2>1, <2>2
<1>11. ASSUME NEW s \in Symbols, TrailRead(s)
       PROVE  \A i \in Ids : Named(i)' => Named(i)
  <2>1. UNCHANGED <<positions, closed, outcomes>>
    BY <1>11 DEF TrailRead
  <2>2. \A t \in Symbols : /\ task'[t].id = task[t].id
                           /\ task'[t].found \in {task[t].found, positions[t]}
    BY <1>2, <1>11 DEF TrailRead, TypeOK, Task
  <2>3. QED
    BY <1>4, <2>1, <2>2
<1>12. ASSUME NEW s \in Symbols, TrailWrite(s)
       PROVE  \A i \in Ids : Named(i)' => Named(i)
  <2>1. UNCHANGED <<closed, outcomes>>
    BY <1>12 DEF TrailWrite
  <2>2. \A t \in Symbols : /\ task'[t].id = task[t].id /\ task'[t].found = task[t].found
                           /\ positions'[t] \in {positions[t], task[t].found}
    BY <1>2, <1>12 DEF TrailWrite, Step, TypeOK, Task
  <2>3. QED
    BY <1>4, <2>1, <2>2
<1>13. ASSUME NEW s \in Symbols, Exit(s) \/ ReportOutcome(s)
       PROVE  \A i \in Ids : Named(i)' => Named(i)
  <2>1. task[s].id \in Ids
    BY <1>2, <1>13 DEF Exit, ReportOutcome, Step
  <2>2. \A t \in Symbols : /\ task'[t].id = task[t].id /\ task'[t].found = task[t].found
                           /\ positions'[t].id \in {positions[t].id, 0}
    <3>1. \A t \in Symbols : task'[t].id = task[t].id /\ task'[t].found = task[t].found
      BY <1>13, StepKeeps DEF Exit, ReportOutcome
    <3>2. \A t \in Symbols : positions'[t].id \in {positions[t].id, 0}
      <4>1. positions \in [Symbols -> Holding] /\ NoPosition.id = 0
        BY DEF TypeOK, NoPosition
      <4>2. positions' \in {positions, [positions EXCEPT ![s] = NoPosition]}
        BY <1>13 DEF Exit, ReportOutcome
      <4>3. QED
        BY <4>1, <4>2
    <3>3. QED
      BY <3>1, <3>2
  <2>3. /\ ToSet(closed') \subseteq ToSet(closed) \cup {task[s].id}
        /\ ToSet(outcomes') \subseteq ToSet(outcomes) \cup {task[s].id}
    BY <1>3, <1>13, <2>1, AppendOnce DEF Exit, ReportOutcome
  <2>4. \A i \in Ids : i # 0
    BY DEF Ids
  <2>5. ASSUME NEW i \in Ids, Named(i)' PROVE Named(i)
    <3>1. i = task[s].id => Named(i)
      BY DEF Named
    <3>2. CASE \E t \in Symbols : i \in {positions'[t].id, task'[t].id, task'[t].found.id}
      BY <2>2, <2>4, <3>2 DEF Named
    <3>3. CASE \E o \in Operators : \E p \in req'[o].left : p[2] = i
      BY <1>1, <3>3 DEF Named, MonitorFrame
    <3>4. CASE i \in ToSet(closed') \cup ToSet(outcomes')
      BY <2>3, <3>1, <3>4 DEF Named
    <3>5. QED
      BY <2>5, <3>2, <3>3, <3>4 DEF Named
  <2>6. QED
    BY <2>5
<1>14. \A i \in Ids : Named(i)' => Named(i)
  BY <1>6, <1>4, <1>7, <1>8, <1>9, <1>10, <1>11, <1>12, <1>13 DEF Monitor, ExitTask
<1>15. \A i \in Ids : Filed(i)' => Filed(i)
  BY <1>1 DEF Filed, MonitorFrame
<1>16. QED
  BY <1>1, <1>14, <1>15, KeepOrigin DEF MonitorFrame

LEMMA AtlasOrigin ==
    ASSUME FlowInv, OriginInv, NEW l \in Loops, NEW s \in Symbols, Atlas(l, s)
    PROVE  OriginInv'
<1> TypeOK
  BY DEF FlowInv
<1>1. /\ UNCHANGED <<outcomes, task, req>> /\ nextId \in Nat
      /\ \A k \in Loops, t \in Symbols : k # l \/ t # s => cyc'[k][t] = cyc[k][t]
      /\ cyc[l][s] \in Cycle /\ cyc \in [Loops -> [Symbols -> Cycle]]
  <2>1. /\ AtlasFrame
        /\ \A k \in Loops, t \in Symbols : k # l \/ t # s => cyc'[k][t] = cyc[k][t]
    BY OtherCycles
  <2>2. QED
    BY <2>1 DEF TypeOK, Ids, AtlasFrame
<1>2. \A i \in Ids : i # 0
  BY DEF Ids
<1>3. ASSUME tradeKeys' \subseteq tradeKeys \cup {cyc[l][s].id},
             cyc'[l][s].id \in {cyc[l][s].id, 0}
      PROVE  \A i \in Ids : Filed(i)' => Filed(i)
  BY <1>1, <1>2, <1>3 DEF Filed
<1>4. CASE SubmitOrder(l, s)
  <2>1. cyc'[l][s].id = cyc[l][s].id /\ UNCHANGED tradeKeys
    BY <1>1, <1>4 DEF SubmitOrder, queue, Cycle
  <2>2. QED
    BY <1>1, <1>3, <1>4, <2>1, ExecuteOrigin DEF SubmitOrder
<1>5. CASE ~SubmitOrder(l, s)
  <2>1. UNCHANGED <<positions, executed, closed>> /\ nextId' \in {nextId, nextId + 1}
    BY <1>5 DEF Atlas, NoOrder, ReadExisting, ReadMode, Queue, RecordTrade, RecordLegacy, book
  <2>2. \A i \in Ids : Named(i)' => Named(i)
    BY <1>1, <2>1 DEF Named
  <2>3. CASE ReadMode(l, s)
    <3>1. cyc'[l][s].id \in {nextId, 0} /\ nextId' = nextId + 1 /\ UNCHANGED tradeKeys
      BY <1>1, <2>3 DEF ReadMode, IdleCycle, queue, Cycle
    <3>2. \A i \in Ids : Filed(i)' => Filed(i) \/ i = nextId
      BY <1>1, <1>2, <3>1 DEF Filed
    <3>3. QED
      BY <2>1, <2>2, <3>1, <3>2, KeepOrigin
  <2>4. CASE ~ReadMode(l, s)
    <3>1. tradeKeys' \subseteq tradeKeys \cup {cyc[l][s].id}
      BY <1>5, <2>4 DEF Atlas, NoOrder, ReadExisting, Queue, RecordTrade, RecordLegacy, queue
    <3>2. cyc'[l][s].id \in {cyc[l][s].id, 0}
      <4>1. IdleCycle.id = 0
        BY DEF IdleCycle
      <4>2. CASE NoOrder(l, s) \/ RecordLegacy(l, s)
        BY <1>1, <4>1, <4>2 DEF NoOrder, RecordLegacy
      <4>3. CASE Queue(l, s) \/ RecordTrade(l, s)
        BY <1>1, <4>3 DEF Queue, RecordTrade, Cycle
      <4>4. ASSUME NEW side \in Sides, ReadExisting(l, s, side)
            PROVE  cyc'[l][s].id = cyc[l][s].id
        BY <1>1, <4>4 DEF ReadExisting, Cycle
      <4>5. QED
        BY <1>5, <2>4, <4>2, <4>3, <4>4 DEF Atlas
    <3>3. QED
      BY <1>3, <2>1, <2>2, <3>1, <3>2, KeepOrigin
  <2>5. QED
    BY <2>3, <2>4
<1>6. QED
  BY <1>4, <1>5

LEMMA RequestOrigin ==
    ASSUME FlowInv, OriginInv, NEW o \in Operators, Accept(o) \/ Serve(o)
    PROVE  OriginInv'
<1> TypeOK
  BY DEF FlowInv
<1>1. RequestFrame /\ req \in [Operators -> Handler] /\ req[o] \in Handler
  BY DEF TypeOK, Accept, Serve, Approve, Order, Reject, Kill, Reset, SetMode, Request, Continue,
         CheckKill, RequestSubmit, ApproveElo, ApproveDelete, FlattenRead, FlattenOne,
         FlattenCredit, RequestFails
<1>2. \A i \in Ids : Filed(i)' => Filed(i)
  BY <1>1 DEF Filed, RequestFrame
<1>3. ASSUME UNCHANGED book, \A p \in Operators : req'[p].left \subseteq req[p].left
      PROVE  OriginInv'
  <2>1. \A i \in Ids : Named(i)' => Named(i)
    BY <1>1, <1>3 DEF Named, RequestFrame, book
  <2>2. QED
    BY <1>2, <1>3, <2>1, KeepOrigin DEF book
(* The request ends, or goes on with what it had. *)
<1>4. ASSUME NEW r, req' = [req EXCEPT ![o] = r], r.left \subseteq req[o].left
      PROVE  \A p \in Operators : req'[p].left \subseteq req[p].left
  BY <1>1, <1>4
<1>5. IdleRequest.left = {}
  BY DEF IdleRequest
<1>6. CASE Accept(o)
  <2>1. UNCHANGED book
    BY <1>6 DEF Accept, Approve, Order, Reject, Kill, Reset, SetMode
  <2>2. \A p \in Operators : req'[p].left \subseteq req[p].left
    <3>1. CASE req' = req
      BY <3>1
    <3>2. ASSUME NEW signal \in pending, Approve(o, signal)
          PROVE  \A p \in Operators : req'[p].left \subseteq req[p].left
      <4> DEFINE r == [IdleRequest EXCEPT !.pc = "check", !.signal = signal.id,
                                           !.side = signal.side, !.symbol = signal.symbol]
      <4>1. r.left = {}
        BY DEF IdleRequest
      <4>2. req' = [req EXCEPT ![o] = r]
        BY <3>2 DEF Approve
      <4> HIDE DEF r
      <4>3. QED
        BY <1>4, <4>1, <4>2
    <3>3. ASSUME NEW side \in Sides, NEW s \in Symbols, Order(o, side, s)
          PROVE  \A p \in Operators : req'[p].left \subseteq req[p].left
      <4> DEFINE r == [IdleRequest EXCEPT !.pc = "check", !.side = side, !.symbol = s]
      <4>1. r.left = {}
        BY DEF IdleRequest
      <4>2. req' = [req EXCEPT ![o] = r]
        BY <3>3 DEF Order
      <4> HIDE DEF r
      <4>3. QED
        BY <1>4, <4>1, <4>2
    <3>4. CASE Kill(o)
      <4> DEFINE r == [req[o] EXCEPT !.pc = "flattenRead"]
      <4>1. r.left = req[o].left
        BY <1>1 DEF Handler
      <4>2. req' = [req EXCEPT ![o] = r]
        BY <3>4 DEF Kill
      <4> HIDE DEF r
      <4>3. QED
        BY <1>4, <4>1, <4>2
    <3>5. QED
      BY <1>6, <3>1, <3>2, <3>3, <3>4 DEF Accept, Reject, Reset, SetMode
  <2>3. QED
    BY <1>3, <2>1, <2>2
<1>7. CASE \/ CheckKill(o) \/ ApproveElo(o) \/ ApproveDelete(o) \/ FlattenCredit(o)
           \/ RequestFails(o)
  <2>1. UNCHANGED book
    BY <1>7 DEF CheckKill, ApproveElo, ApproveDelete, FlattenCredit, RequestFails
  <2>2. PICK r : req' = [req EXCEPT ![o] = r] /\ r.left \subseteq req[o].left
    <3>1. CASE \/ ApproveDelete(o) \/ FlattenCredit(o) \/ (CheckKill(o) /\ kill)
               \/ RequestFails(o)
      BY <1>5, <3>1 DEF ApproveDelete, FlattenCredit, CheckKill, RequestFails
    <3>2. CASE CheckKill(o) /\ ~kill
      <4> DEFINE r == [req[o] EXCEPT !.pc = "submit", !.checked = epoch]
      <4>1. r.left = req[o].left
        BY <1>1 DEF Handler
      <4>2. req' = [req EXCEPT ![o] = r]
        BY <3>2 DEF CheckKill
      <4> HIDE DEF r
      <4>3. QED
        BY <4>1, <4>2
    <3>3. CASE ApproveElo(o)
      <4> DEFINE r == [req[o] EXCEPT !.pc = "approveDelete"]
      <4>1. r.left = req[o].left
        BY <1>1 DEF Handler
      <4>2. req' = [req EXCEPT ![o] = r]
        BY <3>3 DEF ApproveElo
      <4> HIDE DEF r
      <4>3. QED
        BY <4>1, <4>2
    <3>4. QED
      BY <1>7, <3>1, <3>2, <3>3
  <2>3. QED
    BY <1>3, <1>4, <2>1, <2>2
<1>8. CASE RequestSubmit(o)
  <2>1. req[o].symbol \in Symbols
    BY <1>8 DEF RequestSubmit, Continue, FlowInv, LocalsOK, HandlerOK
  <2>2. CASE req[o].signal # 0
    <3> DEFINE r == [req[o] EXCEPT !.pc = IF req[o].side = "BUY" THEN "approveElo"
                                                                 ELSE "approveDelete"]
    <3>1. r.left = req[o].left
      BY <1>1 DEF Handler
    <3>2. req' = [req EXCEPT ![o] = r]
      BY <1>8, <2>2 DEF RequestSubmit
    <3> HIDE DEF r
    <3>3. \A p \in Operators : req'[p].left = req[p].left
      BY <1>1, <3>1, <3>2
    <3>4. QED
      BY <1>1, <1>2, <1>8, <2>1, <3>3, ExecuteOrigin DEF RequestSubmit, RequestFrame
  <2>3. CASE req[o].signal = 0
    <3>1. req' = [req EXCEPT ![o] = IdleRequest]
      BY <1>8, <2>3 DEF RequestSubmit
    <3>2. \A p \in Operators : req'[p].left \subseteq req[p].left
      BY <1>4, <1>5, <3>1
    <3>3. QED
      BY <1>1, <1>2, <1>8, <2>1, <3>2, ExecuteOrigin DEF RequestSubmit, RequestFrame
  <2>4. QED
    BY <2>2, <2>3
<1>9. CASE FlattenRead(o)
  <2> DEFINE held == {<<s, positions[s].id>> : s \in {t \in Symbols : Held(t)}}
             r == [req[o] EXCEPT !.pc = "flatten", !.left = held]
  <2>1. r.left = held
    BY <1>1 DEF Handler
  <2>2. req' = [req EXCEPT ![o] = r]
    BY <1>9 DEF FlattenRead
  <2>3. \A p \in held : \E s \in Symbols : p[2] = positions[s].id
    OBVIOUS
  <2> HIDE DEF held, r
  <2>4. /\ \A p \in Operators : p # o => req'[p].left = req[p].left
        /\ req'[o].left = held
    BY <1>1, <2>1, <2>2
  <2>5. UNCHANGED <<positions, closed, outcomes, task, executed, nextId>>
    BY <1>1, <1>9 DEF FlattenRead, RequestFrame, book
  <2>6. \A i \in Ids : Named(i)' => Named(i)
    BY <2>3, <2>4, <2>5 DEF Named
  <2>7. QED
    BY <1>2, <2>5, <2>6, KeepOrigin
<1>10. ASSUME NEW p \in req[o].left, FlattenOne(o, p) PROVE OriginInv'
  <2>1. p[2] \in Ids /\ closed \in Seq(Ids)
    BY <1>1 DEF Handler, TypeOK
  <2>2. ToSet(closed') = ToSet(closed) \cup {p[2]}
    BY <1>10, <2>1, AppendOnce DEF FlattenOne
  <2>3. \A q \in Operators : req'[q].left \subseteq req[q].left
    <3> DEFINE r == [req[o] EXCEPT !.left = @ \ {p}]
    <3>1. r.left = req[o].left \ {p}
      BY <1>1 DEF Handler
    <3>2. req' = [req EXCEPT ![o] = r]
      BY <1>10 DEF FlattenOne
    <3> HIDE DEF r
    <3>3. QED
      BY <1>4, <3>1, <3>2
  <2>4. \A s \in Symbols : positions'[s].id \in {positions[s].id, 0}
    BY <1>10 DEF FlattenOne, NoPosition, TypeOK
  <2>5. \A i \in Ids : i # 0
    BY DEF Ids
  <2>6. UNCHANGED <<outcomes, task, executed, nextId>>
    BY <1>1, <1>10 DEF FlattenOne, RequestFrame
  <2>7. \A i \in Ids : Named(i)' => Named(i)
    BY <2>2, <2>3, <2>4, <2>5, <2>6 DEF Named
  <2>8. QED
    BY <1>2, <2>6, <2>7, KeepOrigin
<1>11. QED
  BY <1>6, <1>7, <1>8, <1>9, <1>10 DEF Serve

LEMMA InitOrigin ==
    ASSUME Init
    PROVE  OriginInv
<1>1. /\ executed = {} /\ tradeKeys = {} /\ ToSet(closed) = {} /\ ToSet(outcomes) = {}
      /\ \A s \in Symbols : positions[s].id = 0 /\ task[s].id = 0 /\ task[s].found.id = 0
      /\ \A l \in Loops, s \in Symbols : cyc[l][s].id = 0
      /\ \A o \in Operators : req[o].left = {}
  BY DEF Init, IdleTask, NoPosition, IdleCycle, IdleRequest, ToSet
<1>2. \A i \in Ids : i # 0
  BY DEF Ids
<1>3. QED
  BY <1>1, <1>2 DEF OriginInv, Named, Filed

LEMMA NextOrigin ==
    ASSUME FlowInv, OriginInv, [Next]_vars
    PROVE  OriginInv'
<1> TypeOK
  BY DEF FlowInv
<1>1. ASSUME NEW l \in Loops, NEW ss, cyc' = Begun(l, ss),
             UNCHANGED <<positions, executed, closed, nextId, tradeKeys, outcomes, task, req>>
      PROVE  OriginInv'
  <2>1. \A i \in Ids : Named(i)' => Named(i)
    BY <1>1 DEF Named
  <2>2. \A k \in Loops, s \in Symbols : cyc'[k][s].id \in {cyc[k][s].id, 0}
    BY <1>1 DEF Begun, IdleCycle, TypeOK
  <2>3. \A i \in Ids : i # 0
    BY DEF Ids
  <2>4. \A i \in Ids : Filed(i)' => Filed(i)
    BY <1>1, <2>2, <2>3 DEF Filed
  <2>5. QED
    BY <1>1, <2>1, <2>4, KeepOrigin
<1>2. ASSUME NEW l \in PaperLoops, StartRound(l) PROVE OriginInv'
  BY <1>1, <1>2 DEF StartRound, Loops, book, queue
<1>3. ASSUME NEW l \in Runners, NEW s \in Symbols, RunOneCycle(l, s) PROVE OriginInv'
  BY <1>1, <1>3 DEF RunOneCycle, Loops, AtlasFrame, book, queue
<1>4. CASE TripKill \/ UNCHANGED vars
  <2>1. UNCHANGED <<positions, executed, closed, nextId, tradeKeys, outcomes, task, req, cyc>>
    BY <1>4 DEF TripKill, vars, book, queue
  <2>2. QED
    BY <2>1, KeepOrigin DEF Named, Filed
<1>5. QED
  BY <1>2, <1>3, <1>4, AtlasOrigin, RequestOrigin, MonitorOrigin DEF Next

LEMMA OriginAlways == Spec => [](FlowInv /\ OriginInv)
<1>1. Init => FlowInv /\ OriginInv
  BY InitFlowInv, InitOrigin
<1>2. FlowInv /\ OriginInv /\ [Next]_vars => (FlowInv /\ OriginInv)'
  BY NextFlowInv, NextOrigin
<1>3. QED
  BY <1>1, <1>2, PTL DEF Spec

(* Whatever is sold or reported was bought: no sale from a stale snapshot, no
   write-back of a trailing stop and no flatten makes up a position that no
   order opened (position_monitor.py:98, broker.py:611). *)
SoldWasBought ==
    \A i \in ToSet(closed) \cup ToSet(outcomes) :
        \E e \in executed : e.fill = i /\ e.side = "BUY"

(* For any symbols, loops, operators and deployments, with stale exits and
   overlapping requests, every sale and every outcome is of an executed BUY. *)
THEOREM SalesAreOfPurchases == Spec => []SoldWasBought
<1>1. ASSUME FlowInv, OriginInv PROVE SoldWasBought
  <2>1. ToSet(closed) \cup ToSet(outcomes) \subseteq Ids
    BY <1>1 DEF FlowInv, TypeOK, ToSet
  <2>2. QED
    BY <1>1, <2>1 DEF OriginInv, Named, Opened, SoldWasBought
<1>2. QED
  BY <1>1, OriginAlways, PTL

(* No outcome carries a trade id that contributors were filed under: atlas.py
   files them under the id of the decision (atlas.py:92), and the position goes
   by an id the broker drew (broker.py:566). *)
NeverAttributed == ToSet(outcomes) \cap tradeKeys = {}

(* The attribution of OutcomesAttributed fails for every outcome of every
   deployment, not only in the run that shows it. *)
THEOREM NoOutcomeAttributed == Spec => []NeverAttributed
<1>1. ASSUME FlowInv, OriginInv PROVE NeverAttributed
  <2>1. ToSet(outcomes) \subseteq Ids
    BY <1>1 DEF FlowInv, TypeOK, ToSet
  <2>2. QED
    BY <1>1, <2>1 DEF OriginInv, Named, Filed, Opened, NeverAttributed
<1>2. QED
  BY <1>1, OriginAlways, PTL

-----------------------------------------------------------------------------
(* Draining.  What may still put a position on the book: cycles that have not
   sent their order, requests about to submit, and the trailing stops a sweep
   may write back. *)
Sendable == {"thinking", "mode", "submit"}
Trails == {"price", "trailRead", "trailWrite"}
Deciding == {p \in Loops \X Symbols : cyc[p[1]][p[2]].pc \in Sendable}
Sending == {o \in Operators : req[o].pc = "submit"}
Trailing == {s \in Symbols : mon = "sweepRead" \/ task[s].pc \in Trails}

(* None of it comes anew, and what puts a position on the book is used up. *)
Drain == /\ Deciding' \subseteq Deciding
         /\ Sending' \subseteq Sending
         /\ Trailing' \subseteq Trailing
         /\ \/ HeldNow' \subseteq HeldNow
            \/ Deciding' # Deciding \/ Sending' # Sending \/ Trailing' # Trailing

LEMMA AtlasDrain ==
    ASSUME FlowInv, NEW l \in Loops, NEW s \in Symbols, Atlas(l, s)
    PROVE  Drain
<1> TypeOK
  BY DEF FlowInv
<1>1. /\ AtlasFrame
      /\ \A k \in Loops, t \in Symbols : k # l \/ t # s => cyc'[k][t] = cyc[k][t]
  BY OtherCycles
<1>2. Sending' = Sending /\ Trailing' = Trailing
  BY <1>1 DEF AtlasFrame, Sending, Trailing
<1>3. cyc \in [Loops -> [Symbols -> Cycle]] /\ IdleCycle.pc = "idle"
  BY DEF TypeOK, IdleCycle
<1>4. ASSUME cyc'[l][s].pc \in Sendable => cyc[l][s].pc \in Sendable
      PROVE  Deciding' \subseteq Deciding
  BY <1>1, <1>4 DEF Deciding
<1>5. CASE SubmitOrder(l, s)
  <2>1. cyc[l][s].pc = "submit" /\ cyc'[l][s].pc = "recordTrade"
    BY <1>3, <1>5 DEF SubmitOrder
  <2>2. <<l, s>> \in Deciding /\ <<l, s>> \notin Deciding'
    BY <2>1 DEF Deciding, Sendable
  <2>3. QED
    BY <1>2, <1>4, <2>1, <2>2 DEF Drain, Sendable
<1>6. CASE ~SubmitOrder(l, s)
  <2>1. UNCHANGED positions
    BY <1>5, <1>6
    DEF Atlas, NoOrder, ReadExisting, ReadMode, Queue, RecordTrade, RecordLegacy, book
  <2>2. cyc'[l][s].pc \in Sendable => cyc[l][s].pc \in Sendable
    <3>1. CASE NoOrder(l, s) \/ RecordLegacy(l, s)
      <4>1. cyc'[l][s] = IdleCycle
        BY <1>3, <3>1 DEF NoOrder, RecordLegacy
      <4>2. QED
        BY <1>3, <4>1 DEF Sendable
    <3>2. CASE Queue(l, s) \/ RecordTrade(l, s)
      <4>1. cyc'[l][s].pc \in {"recordTrade", "recordLegacy"}
        BY <1>3, <3>2 DEF Queue, RecordTrade, Cycle
      <4>2. QED
        BY <4>1 DEF Sendable
    <3>3. ASSUME NEW side \in Sides, ReadExisting(l, s, side) PROVE cyc[l][s].pc \in Sendable
      BY <3>3 DEF ReadExisting, Sendable
    <3>4. CASE ReadMode(l, s)
      BY <3>4 DEF ReadMode, Sendable
    <3>5. QED
      BY <1>6, <3>1, <3>2, <3>3, <3>4 DEF Atlas
  <2>3. QED
    BY <1>2, <1>4, <2>1, <2>2 DEF Drain, HeldNow, Held
<1>7. QED
  BY <1>5, <1>6

LEMMA RequestDrain ==
    ASSUME FlowInv, kill, NEW o \in Operators, Accept(o) \/ Serve(o)
    PROVE  Drain
<1> TypeOK
  BY DEF FlowInv
<1>1. RequestFrame /\ req \in [Operators -> Handler]
  BY DEF TypeOK, Accept, Serve, Approve, Order, Reject, Kill, Reset, SetMode, Request, Continue,
         CheckKill, RequestSubmit, ApproveElo, ApproveDelete, FlattenRead, FlattenOne,
         FlattenCredit, RequestFails
<1>2. Deciding' = Deciding /\ Trailing' = Trailing
  BY <1>1 DEF RequestFrame, Deciding, Trailing
<1>3. \A p \in Operators : p # o => req'[p] = req[p]
  BY <1>1 DEF Accept, Serve, Approve, Order, Reject, Kill, Reset, SetMode, CheckKill, RequestSubmit,
         ApproveElo, ApproveDelete, FlattenRead, FlattenOne, FlattenCredit, RequestFails
<1>4. IdleRequest.pc = "idle"
  BY DEF IdleRequest
<1>5. ASSUME req'[o].pc # "submit", UNCHANGED positions
      PROVE  Drain
  BY <1>2, <1>3, <1>5 DEF Drain, Sending, HeldNow, Held
<1>6. CASE Accept(o)
  <2>1. UNCHANGED positions
    BY <1>6 DEF Accept, Approve, Order, Reject, Kill, Reset, SetMode, book
  <2>2. req[o].pc = "idle" \/ UNCHANGED req
    BY <1>6 DEF Accept, Approve, Order, Reject, Kill, Reset, SetMode, Request
  <2>3. CASE UNCHANGED req
    BY <1>2, <2>1, <2>3 DEF Drain, Sending, HeldNow, Held
  <2>4. ASSUME NEW signal \in pending, Approve(o, signal) PROVE req'[o].pc = "check"
    <3> DEFINE r == [IdleRequest EXCEPT !.pc = "check", !.signal = signal.id,
                                        !.side = signal.side, !.symbol = signal.symbol]
    <3>1. r.pc = "check"
      BY DEF IdleRequest
    <3>2. req' = [req EXCEPT ![o] = r]
      BY <2>4 DEF Approve
    <3> HIDE DEF r
    <3>3. QED
      BY <1>1, <3>1, <3>2
  <2>5. ASSUME NEW side \in Sides, NEW s \in Symbols, Order(o, side, s)
        PROVE  req'[o].pc = "check"
    <3> DEFINE r == [IdleRequest EXCEPT !.pc = "check", !.side = side, !.symbol = s]
    <3>1. r.pc = "check"
      BY DEF IdleRequest
    <3>2. req' = [req EXCEPT ![o] = r]
      BY <2>5 DEF Order
    <3> HIDE DEF r
    <3>3. QED
      BY <1>1, <3>1, <3>2
  <2>6. CASE Kill(o)
    <3>1. req'[o].pc = "flattenRead"
      BY <1>1, <2>6 DEF Kill, Handler
    <3>2. QED
      BY <1>5, <2>1, <3>1
  <2>7. QED
    BY <1>5, <1>6, <2>1, <2>3, <2>4, <2>5, <2>6 DEF Accept, Reject, Reset, SetMode
<1>7. CASE CheckKill(o) \/ ApproveDelete(o) \/ FlattenCredit(o) \/ RequestFails(o)
  <2>1. req'[o] = IdleRequest /\ UNCHANGED positions
    BY <1>1, <1>7 DEF CheckKill, ApproveDelete, FlattenCredit, RequestFails, book
  <2>2. QED
    BY <1>4, <1>5, <2>1
<1>8. CASE ApproveElo(o) \/ FlattenRead(o)
  <2>1. req'[o].pc \in {"approveDelete", "flatten"} /\ UNCHANGED positions
    BY <1>1, <1>8 DEF ApproveElo, FlattenRead, book, Handler
  <2>2. QED
    BY <1>5, <2>1
<1>9. CASE RequestSubmit(o)
  <2>1. req[o].pc = "submit"
    BY <1>9 DEF RequestSubmit, Continue
  <2>2. req'[o].pc # "submit"
    <3>1. CASE req[o].signal = 0
      BY <1>1, <1>4, <1>9, <3>1 DEF RequestSubmit
    <3>2. CASE req[o].signal # 0
      BY <1>1, <1>9, <3>2 DEF RequestSubmit, Handler
    <3>3. QED
      BY <3>1, <3>2
  <2>3. o \in Sending /\ o \notin Sending' /\ Sending' \subseteq Sending
    BY <1>3, <2>1, <2>2 DEF Sending
  <2>4. QED
    BY <1>2, <2>3 DEF Drain
<1>10. ASSUME NEW p \in req[o].left, FlattenOne(o, p) PROVE Drain
  <2>1. req'[o].pc = "flatten"
    BY <1>1, <1>10 DEF FlattenOne, Continue, Handler
  <2>2. HeldNow' \subseteq HeldNow
    BY <1>10 DEF FlattenOne, HeldNow, Held, NoPosition, TypeOK
  <2>3. Sending' \subseteq Sending
    BY <1>3, <2>1 DEF Sending
  <2>4. QED
    BY <1>2, <2>2, <2>3 DEF Drain
<1>11. QED
  BY <1>6, <1>7, <1>8, <1>9, <1>10 DEF Serve

LEMMA MonitorDrain ==
    ASSUME FlowInv, ReportInv, kill, Monitor
    PROVE  Drain
<1> TypeOK
  BY DEF FlowInv
<1>1. MonitorFrame
  BY DEF Monitor, MonitorCheck, SweepRead, SweepDone, KillRead, CheckPosition, ExitTask, Step,
         TrailRead, TrailWrite, Trailed, Exit, ReportOutcome, EloRead, EloDelete
<1>2. Deciding' = Deciding /\ Sending' = Sending
  BY <1>1 DEF MonitorFrame, Deciding, Sending
<1>3. /\ task \in [Symbols -> Task] /\ positions \in [Symbols -> Holding]
      /\ \A s \in Symbols : task[s].pc # "done" => mon = "tasks"
  BY DEF TypeOK, ReportInv, Swept
<1>4. ASSUME Trailing' \subseteq Trailing, UNCHANGED positions PROVE Drain
  BY <1>2, <1>4 DEF Drain, HeldNow, Held
<1>5. ASSUME MonitorCheck PROVE Drain
  <2>1. Trailing' \subseteq Trailing
    BY <1>5 DEF MonitorCheck, Trailing
  <2>2. QED
    BY <1>4, <1>5, <2>1 DEF MonitorCheck
<1>6. ASSUME SweepRead PROVE Drain
  <2>1. Trailing' \subseteq Trailing
    BY <1>6 DEF SweepRead, Trailing
  <2>2. QED
    BY <1>4, <1>6, <2>1 DEF SweepRead
<1>7. ASSUME NEW priced \in SUBSET Symbols, KillRead(priced) PROVE Drain
  <2> DEFINE new(s) == [IdleTask EXCEPT !.pc = "sell", !.id = positions[s].id]
  <2>1. \A s \in Symbols : task'[s] \in {new(s), IdleTask}
    BY <1>7 DEF KillRead, Snapshot
  <2>2. IdleTask.pc = "done" /\ \A s \in Symbols : new(s).pc = "sell"
    BY DEF IdleTask
  <2> HIDE DEF new
  <2>3. mon' = "tasks" /\ UNCHANGED positions
    BY <1>7 DEF KillRead
  <2>4. Trailing' = {}
    BY <2>1, <2>2, <2>3 DEF Trailing, Trails
  <2>5. QED
    BY <1>4, <2>3, <2>4
<1>8. ASSUME SweepDone PROVE Drain
  <2>1. \A s \in Symbols : task'[s].pc = "done"
    BY <1>8 DEF SweepDone, IdleTask
  <2>2. mon' = "idle" /\ UNCHANGED positions
    BY <1>8 DEF SweepDone
  <2>3. Trailing' = {}
    BY <2>1, <2>2 DEF Trailing, Trails
  <2>4. QED
    BY <1>4, <2>2, <2>3
(* The steps of a task: it may stop trailing, and nothing begins to. *)
<1>9. ASSUME NEW s \in Symbols, NEW from, NEW to, Step(s, from, to),
             to \in Trails => from \in Trails
      PROVE  Trailing' \subseteq Trailing
  <2>1. task[s].pc = from /\ task'[s].pc = to /\ \A t \in Symbols : t # s => task'[t] = task[t]
    BY <1>3, <1>9 DEF Step, Task
  <2>2. mon' = mon
    BY <1>9 DEF Step
  <2>3. QED
    BY <1>9, <2>1, <2>2 DEF Trailing
<1>10. ASSUME NEW s \in Symbols, CheckPosition(s) \/ Trailed(s) \/ ReportOutcome(s) \/ EloDelete(s)
       PROVE  Drain
  <2>1. Trailing' \subseteq Trailing
    BY <1>9, <1>10 DEF CheckPosition, Trailed, ReportOutcome, EloDelete, Trails
  <2>2. QED
    BY <1>4, <1>10, <2>1 DEF CheckPosition, Trailed, ReportOutcome, EloDelete
<1>11. ASSUME NEW s \in Symbols, TrailRead(s) \/ EloRead(s)
       PROVE  Drain
  <2>1. /\ task'[s].pc \in Trails => task[s].pc \in Trails
        /\ \A t \in Symbols : t # s => task'[t] = task[t]
    <3>1. CASE TrailRead(s)
      BY <1>3, <3>1 DEF TrailRead, Trails
    <3>2. CASE EloRead(s)
      <4>1. task'[s].pc \in {"done", "eloDelete"}
        BY <1>3, <3>2 DEF EloRead, Task
      <4>2. QED
        BY <1>3, <3>2, <4>1 DEF EloRead, Trails
    <3>3. QED
      BY <1>11, <3>1, <3>2
  <2>2. mon' = mon /\ UNCHANGED positions
    BY <1>11 DEF TrailRead, EloRead
  <2>3. Trailing' \subseteq Trailing
    BY <2>1, <2>2 DEF Trailing
  <2>4. QED
    BY <1>4, <2>2, <2>3
<1>12. ASSUME NEW s \in Symbols, TrailWrite(s)
       PROVE  Drain
  <2>1. Step(s, "trailWrite", "trailed")
    BY <1>12 DEF TrailWrite
  <2>2. Trailing' \subseteq Trailing
    BY <1>9, <2>1 DEF Trails
  <2>3. task[s].pc = "trailWrite" /\ task'[s].pc = "trailed" /\ mon' = mon
    BY <1>3, <2>1 DEF Step, Task
  <2>4. s \in Trailing /\ s \notin Trailing'
    BY <1>3, <2>3 DEF Trailing, Trails
  <2>5. QED
    BY <1>2, <2>2, <2>4 DEF Drain
<1>13. ASSUME NEW s \in Symbols, Exit(s)
       PROVE  Drain
  <2>1. Trailing' \subseteq Trailing
    BY <1>9, <1>13 DEF Exit, Trails
  <2>2. positions' = [positions EXCEPT ![s] = NoPosition] /\ NoPosition.id = 0
    BY <1>13 DEF Exit, NoPosition
  <2>3. HeldNow' \subseteq HeldNow
    BY <1>3, <2>2 DEF HeldNow, Held
  <2>4. QED
    BY <1>2, <2>1, <2>3 DEF Drain
<1>14. QED
  BY <1>5, <1>6, <1>7, <1>8, <1>10, <1>11, <1>12, <1>13 DEF Monitor, ExitTask

(* While the switch is up, and every loop asks for it and gets an answer, what
   may still put a position on the book only dwindles, and whatever does put
   one there uses some of it up: position_monitor.py:279 no longer sweeps,
   orders.py:65 and run_paper_trading.py:143 turn new orders away.  So a position
   appears a bounded number of times, and after that the book only empties. *)
BookDrains == [][SwitchRead' /\ kill /\ kill' => Drain]_vars

(* The safety half of KillDrains, for any symbols, loops, operators and
   deployments, whatever was on its way when the switch went up. *)
THEOREM KillStopsRefilling == Spec => BookDrains
<1>1. ASSUME FlowInv, ReportInv, [Next]_vars, SwitchRead', kill, kill'
      PROVE  Drain
  <2>1. ASSUME NEW l \in PaperLoops PROVE ~StartRound(l)
    BY <1>1 DEF StartRound, RoundAllowed, SwitchRead, FlowInv, TypeOK
  <2>2. ASSUME NEW l \in Runners, NEW s \in Symbols PROVE ~RunOneCycle(l, s)
    BY <1>1 DEF RunOneCycle, AtlasFrame, counters, SwitchRead
  <2>3. CASE TripKill \/ UNCHANGED vars
    <3>1. UNCHANGED <<positions, cyc, req, mon, task>>
      BY <2>3 DEF TripKill, vars, book, queue
    <3>2. QED
      BY <3>1 DEF Drain, Deciding, Sending, Trailing, HeldNow, Held
  <2>4. QED
    BY <1>1, <2>1, <2>2, <2>3, AtlasDrain, RequestDrain, MonitorDrain DEF Next
<1>2. FlowInv /\ ReportInv /\ [Next]_vars => [SwitchRead' /\ kill /\ kill' => Drain]_vars
  BY <1>1
<1>3. Spec => [](FlowInv /\ ReportInv)
  <2>1. Init => FlowInv /\ ReportInv
    BY InitFlowInv, InitReport
  <2>2. FlowInv /\ ReportInv /\ [Next]_vars => (FlowInv /\ ReportInv)'
    BY NextFlowInv, NextReport
  <2>3. QED
    BY <2>1, <2>2, PTL DEF Spec
<1>4. QED
  BY <1>2, <1>3, PTL DEF Spec, BookDrains
=============================================================================
