----------------------------- MODULE OrderFlow -----------------------------
(***************************************************************************)
(* Who trades, and who may stop it.  The trading loops run Atlas for each  *)
(* symbol, the operator's HTTP requests approve, reject, submit, kill and  *)
(* flatten, and the position monitor closes what hits a level; they share  *)
(* the broker, the kill switch and the approval queue through Redis, with  *)
(* no lock.  One action is the stretch between two awaits that read or     *)
(* write that shared state.                                                *)
(*                                                                         *)
(* A broker call is one step here, and a position is only an identity:     *)
(* PaperBroker.tla has the steps inside a call and the money.              *)
(***************************************************************************)
EXTENDS Integers, Sequences, SequencesExt, FiniteSets

CONSTANTS Symbols,
          PaperLoops,    \* loops of scripts/run_paper_trading.py
          Runners,       \* cycle runners (src/schedulers/cycle_runner.py)
          Operators,     \* HTTP requests that may be in progress at once
          Deployments    \* what may be running, one choice a behaviour

Loops == PaperLoops \cup Runners
Sides == {"BUY", "SELL"}

(* A deployment: the symbols each loop watches (none: it is not running), the
   sides the agents decide on, the autonomy modes, the requests operators
   make, and the bounds of the instance: decisions and orders stop once the
   next uuid is above maxIds; at most so many requests, kill switch
   activations by the risk monitor and failed kill switch reads. *)
Deployment ==
    [watch : [Loops -> SUBSET Symbols], sides : SUBSET Sides,
     modes : SUBSET {"COMMANDER", "TRUSTED"},
     requests : SUBSET {"APPROVE", "REJECT", "ORDER", "KILL", "RESET", "MODE"},
     maxIds : Nat, maxRequests : Nat, maxTrips : Nat, maxFaults : Nat]

ASSUME FlowAssumption ==
    /\ PaperLoops \cap Runners = {}
    /\ Deployments \subseteq Deployment

VARIABLES
    kill,          \* kill_switch:active
    mode,          \* config:system autonomy_mode
    positions,     \* paper:positions
    pending,       \* approval:pending
    tradeKeys,     \* trade ids with a paper:trade:{id}:contributors key
    contributors,  \* paper:position:{symbol}:contributors, as the decisions
                   \* whose agents were added
    outcomes,      \* stream:trade_outcomes, as trade ids
    nextId,        \* next uuid4
    cyc,           \* Atlas for each symbol of each loop
    mon, task,     \* the monitor and its task per symbol
    req,           \* the operator's requests
    epoch, trips, faults, requests,             \* counters
    deploy,                                     \* never changes
    executed, closed, credited, rejected,       \* history
    cut            \* ... trades whose approval failed before it removed the signal

counters == <<epoch, trips, faults, requests, deploy>>
vars == <<kill, mode, positions, pending, tradeKeys, contributors, outcomes,
          nextId, cyc, mon, task, req, counters, executed, closed, credited, rejected, cut>>

(* What the steps of each kind of process leave alone. *)
AtlasFrame == UNCHANGED <<kill, mode, outcomes, mon, task, req, counters, credited, rejected,
                          cut>>
RequestFrame == UNCHANGED <<trips, faults, deploy, tradeKeys, outcomes, cyc, mon, task,
                          credited>>
MonitorFrame == UNCHANGED <<kill, mode, pending, tradeKeys, nextId, cyc, req, counters,
                            executed, rejected, cut>>
book == <<positions, nextId, executed, closed>>
queue == <<pending, tradeKeys, contributors>>

NoPosition == [id |-> 0, from |-> 0]
Held(s) == positions[s].id # 0

IdleCycle == [pc |-> "idle", side |-> "none", blocked |-> FALSE, id |-> 0, checked |-> 0]
IdleTask == [pc |-> "done", id |-> 0, found |-> NoPosition, agents |-> {}]
IdleRequest == [pc |-> "idle", signal |-> 0, side |-> "none", symbol |-> "none",
                checked |-> 0, left |-> {}]

Init ==
    /\ kill = FALSE
    /\ deploy \in Deployments
    /\ mode \in deploy.modes
    /\ positions = [s \in Symbols |-> NoPosition]
    /\ pending = {}
    /\ tradeKeys = {}
    /\ contributors = [s \in Symbols |-> {}]
    /\ outcomes = <<>>
    /\ nextId = 1
    /\ cyc = [l \in Loops |-> [s \in Symbols |-> IdleCycle]]
    /\ mon = "idle"
    /\ task = [s \in Symbols |-> IdleTask]
    /\ req = [o \in Operators |-> IdleRequest]
    /\ epoch = 0 /\ trips = 0 /\ faults = 0 /\ requests = 0
    /\ executed = {} /\ closed = <<>> /\ credited = {} /\ rejected = {} /\ cut = {}

(* paper_broker.submit_order for a decision: a BUY replaces whatever position
   the symbol had, a SELL removes it.  `late`: the kill switch was up, and had
   been since the cycle or the request began. *)
Execute(from, s, side, checked) ==
    /\ executed' = executed \cup {[fill |-> nextId, from |-> from, side |-> side,
                                   late |-> kill /\ checked = epoch]}
    /\ nextId' = nextId + 1
    /\ positions' = [positions EXCEPT ![s] =
          IF side = "BUY" THEN [id |-> nextId, from |-> from] ELSE NoPosition]
    /\ closed' = IF side = "SELL" /\ Held(s) THEN Append(closed, positions[s].id)
                                             ELSE closed

(* activate_kill_switch; epoch counts the times the switch went up. *)
Activate == /\ kill' = TRUE
            /\ epoch' = IF kill THEN epoch ELSE epoch + 1

-----------------------------------------------------------------------------
(* Faulty variants, used only by the mutation runs. *)

ApproveKeepsSignal(o) ==
    /\ req[o].pc = "approveDelete"
    /\ req' = [req EXCEPT ![o] = IdleRequest]
    /\ RequestFrame
    /\ UNCHANGED <<kill, epoch, mode, book, pending, contributors, requests, rejected, cut>>

ExitKeepsPosition(s) ==
    /\ task[s].pc = "sell"
    /\ closed' = Append(closed, task[s].id)
    /\ task' = [task EXCEPT ![s].pc = "outcome"]
    /\ MonitorFrame
    /\ UNCHANGED <<positions, outcomes, contributors, credited, mon>>

ExitSilently(s) ==
    /\ task[s].pc = "outcome"
    /\ task' = [task EXCEPT ![s].pc = "eloRead"]
    /\ MonitorFrame
    /\ UNCHANGED <<positions, closed, outcomes, contributors, credited, mon>>

KillSweepSkipped(priced) ==
    /\ mon = "killRead"
    /\ mon' = "idle"
    /\ MonitorFrame
    /\ UNCHANGED <<positions, closed, outcomes, contributors, credited, task>>

Never(held) == FALSE
Always(up) == TRUE
KeepsAll(d) == pending
AllSymbols == Symbols

-----------------------------------------------------------------------------
(* The trading loops.  A paper loop reads the kill switch, then runs its
   symbols together and waits for all of them; when the read fails it trades
   all the same.  The cycle runner takes its symbols one at a time and never
   reads the switch; the order of its symbols is left open. *)

Begun(l, round) ==
    [cyc EXCEPT ![l] = [s \in Symbols |->
        IF s \in round THEN [IdleCycle EXCEPT !.pc = "thinking", !.checked = epoch]
                       ELSE IdleCycle]]

BetweenRounds(l) == /\ \A s \in Symbols : cyc[l][s].pc = "idle"
                    /\ nextId <= deploy.maxIds

RoundAllowed(up) == ~up

StartRound(l) ==
    /\ deploy.watch[l] # {} /\ BetweenRounds(l)
    /\ \/ RoundAllowed(kill) /\ UNCHANGED faults
       \/ faults < deploy.maxFaults /\ faults' = faults + 1
    /\ cyc' = Begun(l, deploy.watch[l])
    /\ UNCHANGED <<kill, mode, outcomes, mon, task, req, epoch, trips, requests, deploy,
                   credited, rejected, cut, book, queue>>

RunOneCycle(l, s) ==
    /\ s \in deploy.watch[l] /\ BetweenRounds(l)
    /\ cyc' = Begun(l, {s})
    /\ AtlasFrame /\ UNCHANGED <<book, queue>>

-----------------------------------------------------------------------------
(* AtlasAgent.analyze. *)

(* Risk not approved, no sized order, a neutral decision or no price, or a
   call that raises before the order is sent. *)
NoOrder(l, s) ==
    /\ cyc[l][s].pc = "thinking"
    /\ cyc' = [cyc EXCEPT ![l][s] = IdleCycle]
    /\ AtlasFrame /\ UNCHANGED <<book, queue>>

Blocks(held) == held

(* The agents decided; `existing` is read. *)
ReadExisting(l, s, side) ==
    /\ cyc[l][s].pc = "thinking"
    /\ side \in deploy.sides
    /\ cyc' = [cyc EXCEPT ![l][s].pc = "mode", ![l][s].side = side,
                          ![l][s].blocked = side = "BUY" /\ Blocks(Held(s))]
    /\ AtlasFrame /\ UNCHANGED <<book, queue>>

(* The mode is read, the trade id drawn, and the branch taken. *)
ReadMode(l, s) ==
    /\ cyc[l][s].pc = "mode"
    /\ nextId' = nextId + 1
    /\ cyc' = [cyc EXCEPT ![l][s] =
          IF @.blocked THEN IdleCycle
          ELSE [@ EXCEPT !.pc = IF mode = "COMMANDER" THEN "queue" ELSE "submit",
                         !.id = nextId]]
    /\ AtlasFrame /\ UNCHANGED <<positions, executed, closed, queue>>

Queue(l, s) ==
    /\ cyc[l][s].pc = "queue"
    /\ pending' = pending \cup {[id |-> cyc[l][s].id, symbol |-> s, side |-> cyc[l][s].side]}
    /\ cyc' = [cyc EXCEPT ![l][s].pc = "recordTrade"]
    /\ AtlasFrame /\ UNCHANGED <<book, tradeKeys, contributors>>

SubmitOrder(l, s) ==
    /\ cyc[l][s].pc = "submit"
    /\ Execute(cyc[l][s].id, s, cyc[l][s].side, cyc[l][s].checked)
    /\ cyc' = [cyc EXCEPT ![l][s].pc = "recordTrade"]
    /\ AtlasFrame /\ UNCHANGED queue

(* _record_contributors_for_trade: the per-trade key, then the legacy set. *)
RecordTrade(l, s) ==
    /\ cyc[l][s].pc = "recordTrade"
    /\ tradeKeys' = tradeKeys \cup {cyc[l][s].id}
    /\ cyc' = [cyc EXCEPT ![l][s].pc = "recordLegacy"]
    /\ AtlasFrame /\ UNCHANGED <<book, pending, contributors>>

RecordLegacy(l, s) ==
    /\ cyc[l][s].pc = "recordLegacy"
    /\ contributors' = [contributors EXCEPT ![s] = @ \cup {cyc[l][s].id}]
    /\ cyc' = [cyc EXCEPT ![l][s] = IdleCycle]
    /\ AtlasFrame /\ UNCHANGED <<book, pending, tradeKeys>>

-----------------------------------------------------------------------------
(* The operator's requests (src/api/routers/orders.py). *)

Request(o, kind) == /\ kind \in deploy.requests
                    /\ requests < deploy.maxRequests
                    /\ requests' = requests + 1
                    /\ req[o].pc = "idle"
                    /\ RequestFrame
                    /\ UNCHANGED cut

Continue(o, label) == /\ req[o].pc = label
                      /\ RequestFrame
                      /\ UNCHANGED <<kill, mode, epoch, requests, rejected, cut>>

(* approve_signal; a signal no longer queued is answered with 404. *)
Approve(o, signal) ==
    /\ Request(o, "APPROVE")
    /\ req' = [req EXCEPT ![o] = [IdleRequest EXCEPT !.pc = "check",
                 !.signal = signal.id, !.side = signal.side, !.symbol = signal.symbol]]
    /\ UNCHANGED <<kill, mode, epoch, rejected, book, pending, contributors>>

(* The router's own submit_order: no signal behind it. *)
Order(o, side, s) ==
    /\ Request(o, "ORDER")
    /\ nextId <= deploy.maxIds
    /\ \E l \in Loops : s \in deploy.watch[l]
    /\ req' = [req EXCEPT ![o] = [IdleRequest EXCEPT !.pc = "check",
                                    !.side = side, !.symbol = s]]
    /\ UNCHANGED <<kill, mode, epoch, rejected, book, pending, contributors>>

(* Both answer 503 while the switch is up. *)
CheckKill(o) ==
    /\ Continue(o, "check")
    /\ req' = [req EXCEPT ![o] = IF kill THEN IdleRequest
                                 ELSE [@ EXCEPT !.pc = "submit", !.checked = epoch]]
    /\ UNCHANGED <<book, pending, contributors>>

RequestSubmit(o) ==
    /\ Continue(o, "submit")
    /\ Execute(req[o].signal, req[o].symbol, req[o].side, req[o].checked)
    /\ req' = [req EXCEPT ![o] =
          IF @.signal = 0 THEN IdleRequest
          ELSE [@ EXCEPT !.pc = IF req[o].side = "BUY" THEN "approveElo"
                                                       ELSE "approveDelete"]]
    /\ UNCHANGED <<pending, contributors>>

ApproveElo(o) ==
    /\ Continue(o, "approveElo")
    /\ contributors' = [contributors EXCEPT ![req[o].symbol] = @ \cup {req[o].signal}]
    /\ req' = [req EXCEPT ![o].pc = "approveDelete"]
    /\ UNCHANGED <<book, pending>>

Without(d) == {signal \in pending : signal.id # d}

ApproveDelete(o) ==
    /\ Continue(o, "approveDelete")
    /\ pending' = Without(req[o].signal)
    /\ req' = [req EXCEPT ![o] = IdleRequest]
    /\ UNCHANGED <<book, contributors>>

(* A Redis error or a crash ends the request wherever it is.  An approval that
   had executed the order leaves the signal queued: nothing removes it, and
   nothing marks it as traded. *)
Approving(o) == req[o].pc \in {"approveElo", "approveDelete"}
TradesOf(d) == {e.fill : e \in {f \in executed : f.from = d}}

RequestFails(o) ==
    /\ req[o].pc # "idle"
    /\ requests < deploy.maxRequests /\ requests' = requests + 1
    /\ req' = [req EXCEPT ![o] = IdleRequest]
    /\ cut' = IF Approving(o) THEN cut \cup TradesOf(req[o].signal) ELSE cut
    /\ RequestFrame
    /\ UNCHANGED <<kill, mode, epoch, rejected, book, pending, contributors>>

(* reject_signal answers the same whether or not the signal is still queued. *)
Reject(o, d) ==
    /\ Request(o, "REJECT")
    /\ pending' = Without(d)
    /\ rejected' = rejected \cup {d}
    /\ UNCHANGED <<kill, mode, epoch, req, book, contributors>>

(* kill_switch: the switch first, then flatten_all over one snapshot. *)
Kill(o) ==
    /\ Request(o, "KILL")
    /\ Activate
    /\ req' = [req EXCEPT ![o].pc = "flattenRead"]
    /\ UNCHANGED <<mode, rejected, book, pending, contributors>>

FlattenRead(o) ==
    /\ Continue(o, "flattenRead")
    /\ req' = [req EXCEPT ![o].pc = "flatten",
                          ![o].left = {<<s, positions[s].id>> : s \in {t \in Symbols : Held(t)}}]
    /\ UNCHANGED <<book, pending, contributors>>

FlattenOne(o, p) ==
    /\ Continue(o, "flatten")
    /\ positions' = [positions EXCEPT ![p[1]] = NoPosition]
    /\ closed' = Append(closed, p[2])
    /\ req' = [req EXCEPT ![o].left = @ \ {p}]
    /\ UNCHANGED <<nextId, executed, pending, contributors>>

FlattenCredit(o) ==
    /\ Continue(o, "flatten")
    /\ req[o].left = {}
    /\ req' = [req EXCEPT ![o] = IdleRequest]
    /\ UNCHANGED <<book, pending, contributors>>

Reset(o) ==
    /\ Request(o, "RESET")
    /\ kill' = FALSE
    /\ UNCHANGED <<mode, epoch, rejected, req, book, pending, contributors>>

SetMode(o, m) ==
    /\ Request(o, "MODE")
    /\ m \in deploy.modes
    /\ mode' = m
    /\ UNCHANGED <<kill, epoch, rejected, req, book, pending, contributors>>

-----------------------------------------------------------------------------
(* The risk monitor's activation, which flattens nothing itself. *)
TripKill ==
    /\ ~kill
    /\ trips < deploy.maxTrips
    /\ trips' = trips + 1
    /\ Activate
    /\ UNCHANGED <<mode, book, queue, outcomes, cyc, mon, task, req, faults, deploy,
                   requests, credited, rejected, cut>>

-----------------------------------------------------------------------------
(* The position monitor.  A sweep works on one snapshot of the positions, one
   task per position, and ends when all tasks have. *)

Snapshot(label, ss) == [s \in Symbols |->
    IF s \in ss THEN [IdleTask EXCEPT !.pc = label, !.id = positions[s].id] ELSE IdleTask]
HeldNow == {s \in Symbols : Held(s)}

MonitorCheck ==
    /\ mon = "idle"
    /\ mon' = IF kill THEN "killRead" ELSE "sweepRead"
    /\ MonitorFrame
    /\ UNCHANGED <<positions, closed, outcomes, contributors, credited, task>>

SweepRead ==
    /\ mon = "sweepRead"
    /\ mon' = "tasks"
    /\ task' = Snapshot("price", HeldNow)
    /\ MonitorFrame
    /\ UNCHANGED <<positions, closed, outcomes, contributors, credited>>

(* _flatten_all_for_kill_switch: positions without a price are skipped. *)
KillRead(priced) ==
    /\ mon = "killRead"
    /\ mon' = "tasks"
    /\ task' = Snapshot("sell", HeldNow \cap priced)
    /\ MonitorFrame
    /\ UNCHANGED <<positions, closed, outcomes, contributors, credited>>

SweepDone ==
    /\ mon = "tasks"
    /\ \A s \in Symbols : task[s].pc = "done"
    /\ mon' = "idle"
    /\ task' = [s \in Symbols |-> IdleTask]
    /\ MonitorFrame
    /\ UNCHANGED <<positions, closed, outcomes, contributors, credited>>

Step(s, from, to) ==
    /\ task[s].pc = from
    /\ task' = [task EXCEPT ![s].pc = to]
    /\ MonitorFrame
    /\ UNCHANGED mon

(* The price decides: none or between the levels, a level hit, or 5% up. *)
CheckPosition(s) ==
    /\ \E next \in {"done", "sell", "trailRead"} : Step(s, "price", next)
    /\ UNCHANGED <<positions, closed, outcomes, contributors, credited>>

(* update_position_field: read, then write the whole document back. *)
TrailRead(s) ==
    /\ task[s].pc = "trailRead"
    /\ task' = [task EXCEPT ![s].found = positions[s],
                            ![s].pc = IF Held(s) THEN "trailWrite" ELSE "trailed"]
    /\ MonitorFrame
    /\ UNCHANGED <<mon, positions, closed, outcomes, contributors, credited>>

TrailWrite(s) ==
    /\ Step(s, "trailWrite", "trailed")
    /\ positions' = [positions EXCEPT ![s] = task[s].found]
    /\ UNCHANGED <<closed, outcomes, contributors, credited>>

Trailed(s) ==
    /\ \E next \in {"done", "sell"} : Step(s, "trailed", next)
    /\ UNCHANGED <<positions, closed, outcomes, contributors, credited>>

(* _exit_position sells what the snapshot held, then reports it. *)
Exit(s) ==
    /\ Step(s, "sell", "outcome")
    /\ positions' = [positions EXCEPT ![s] = NoPosition]
    /\ closed' = Append(closed, task[s].id)
    /\ UNCHANGED <<outcomes, contributors, credited>>

ReportOutcome(s) ==
    /\ Step(s, "outcome", "eloRead")
    /\ outcomes' = Append(outcomes, task[s].id)
    /\ UNCHANGED <<positions, closed, contributors, credited>>

EloRead(s) ==
    /\ task[s].pc = "eloRead"
    /\ task' = [task EXCEPT ![s].agents = contributors[s],
                            ![s].pc = IF contributors[s] = {} THEN "done" ELSE "eloDelete"]
    /\ MonitorFrame
    /\ UNCHANGED <<mon, positions, closed, outcomes, contributors, credited>>

EloDelete(s) ==
    /\ Step(s, "eloDelete", "done")
    /\ credited' = credited \cup {[trade |-> task[s].id, decision |-> d] : d \in task[s].agents}
    /\ contributors' = [contributors EXCEPT ![s] = {}]
    /\ UNCHANGED <<positions, closed, outcomes>>

-----------------------------------------------------------------------------
Atlas(l, s) ==
    \/ NoOrder(l, s) \/ (\E side \in Sides : ReadExisting(l, s, side)) \/ ReadMode(l, s)
    \/ Queue(l, s) \/ SubmitOrder(l, s) \/ RecordTrade(l, s) \/ RecordLegacy(l, s)

Serve(o) ==
    \/ CheckKill(o) \/ RequestSubmit(o) \/ ApproveElo(o) \/ ApproveDelete(o)
    \/ FlattenRead(o) \/ (\E p \in req[o].left : FlattenOne(o, p)) \/ FlattenCredit(o)
    \/ RequestFails(o)

Accept(o) ==
    \/ \E signal \in pending : Approve(o, signal)
    \/ \E side \in Sides, s \in Symbols : Order(o, side, s)
    \/ \E d \in tradeKeys \cup {signal.id : signal \in pending} : Reject(o, d)
    \/ Kill(o) \/ Reset(o) \/ (\E m \in {"COMMANDER", "TRUSTED"} : SetMode(o, m))

ExitTask(s) == TrailRead(s) \/ TrailWrite(s) \/ Trailed(s) \/ Exit(s)
               \/ ReportOutcome(s) \/ EloRead(s) \/ EloDelete(s)

Monitor == \/ MonitorCheck \/ SweepRead \/ SweepDone
           \/ \E priced \in SUBSET Symbols : KillRead(priced)
           \/ \E s \in Symbols : CheckPosition(s) \/ ExitTask(s)

Next ==
    \/ \E l \in PaperLoops : StartRound(l)
    \/ \E l \in Runners, s \in Symbols : RunOneCycle(l, s)
    \/ \E l \in Loops, s \in Symbols : Atlas(l, s)
    \/ \E o \in Operators : Accept(o) \/ Serve(o)
    \/ TripKill
    \/ Monitor

Spec == Init /\ [][Next]_vars

(* The monitor is one coroutine that keeps being scheduled.  Under the kill
   switch a symbol whose price is asked for again and again is priced in the
   end: an assumption on the price feed, not on the code. *)
Fairness ==
    /\ WF_vars(MonitorCheck \/ SweepRead \/ SweepDone)
    /\ \A s \in Symbols : WF_vars(CheckPosition(s) \/ ExitTask(s))
    /\ WF_vars(\E priced \in SUBSET Symbols : KillRead(priced))
    /\ \A s \in Symbols : SF_vars(\E priced \in SUBSET Symbols : s \in priced /\ KillRead(priced))
FairSpec == Spec /\ Fairness

-----------------------------------------------------------------------------
Ids == Nat \ {0}
Signal == [id : Ids, symbol : Symbols, side : Sides]
Holding == [id : Nat, from : Nat]
Cycle == [pc : {"idle", "thinking", "mode", "queue", "submit", "recordTrade", "recordLegacy"},
          side : Sides \cup {"none"}, blocked : BOOLEAN, id : Nat, checked : Nat]
Task == [pc : {"done", "price", "trailRead", "trailWrite", "trailed", "sell",
               "outcome", "eloRead", "eloDelete"},
         id : Nat, found : Holding, agents : SUBSET Ids]
Handler == [pc : {"idle", "check", "submit", "approveElo", "approveDelete",
                  "flattenRead", "flatten"},
            signal : Nat, side : Sides \cup {"none"}, symbol : Symbols \cup {"none"},
            checked : Nat, left : SUBSET (Symbols \X Ids)]
Execution == [fill : Ids, from : Nat, side : Sides, late : BOOLEAN]

(* Every key and local holds what its readers expect; an id of a trade that is
   reported, credited or filed is the id of one. *)
TypeOK ==
    /\ kill \in BOOLEAN
    /\ mode \in {"COMMANDER", "TRUSTED"}
    /\ deploy \in Deployments
    /\ positions \in [Symbols -> Holding]
    /\ pending \subseteq Signal
    /\ tradeKeys \subseteq Ids
    /\ contributors \in [Symbols -> SUBSET Ids]
    /\ outcomes \in Seq(Ids)
    /\ nextId \in Ids
    /\ cyc \in [Loops -> [Symbols -> Cycle]]
    /\ mon \in {"idle", "sweepRead", "killRead", "tasks"}
    /\ task \in [Symbols -> Task]
    /\ req \in [Operators -> Handler]
    /\ epoch \in Nat /\ trips \in Nat /\ faults \in Nat /\ requests \in Nat
    /\ executed \subseteq Execution
    /\ closed \in Seq(Ids)
    /\ credited \subseteq [trade : Ids, decision : Ids]
    /\ rejected \subseteq Ids /\ cut \subseteq Ids

(* Where a process stands determines what its locals hold. *)
CycleOK(c) == /\ c.pc \in {"mode", "queue", "submit"} => c.side \in Sides
              /\ c.pc \in {"queue", "submit", "recordTrade", "recordLegacy"} => c.id \in Ids
TaskOK(t) == t.pc # "done" => t.id \in Ids
HandlerOK(r) == /\ r.pc \in {"check", "submit"} => r.side \in Sides /\ r.symbol \in Symbols
                /\ r.pc = "approveElo" => r.signal \in Ids
LocalsOK == /\ \A l \in Loops, s \in Symbols : CycleOK(cyc[l][s])
            /\ \A s \in Symbols : TaskOK(task[s])
            /\ \A o \in Operators : HandlerOK(req[o])

(* One decision is traded once, whatever is approved and whenever: orders.py:165
   answers a second approval with "already processed".  It is traded again only
   after an approval that failed between its order and the removal of the
   signal (orders.py:180-181), which is all that can leave it in the queue. *)
ExecutedAtMostOnce ==
    \A e, f \in executed :
        e.from = f.from /\ e.from # 0 /\ e.fill < f.fill => e.fill \in cut

(* A signal the operator was told is rejected is not traded afterwards
   (orders.py:185-189). *)
RejectedStaysRejected ==
    [][\A e \in executed' \ executed : e.from \notin rejected]_vars

(* No order of a cycle or request that began under an active kill switch is
   executed while it stays up: README.md:78, "suspends all new orders until
   reset".  An order already on its way when the switch goes up may pass. *)
OrdersSuspended == \A e \in executed : ~e.late

(* That holds where every loop asks for the switch and gets an answer: no
   cycle runner, and no read of the switch that failed. *)
SwitchRead == faults = 0 /\ \A l \in Runners : deploy.watch[l] = {}
LoopsSuspended == SwitchRead => OrdersSuspended

(* Why: whatever is on its way to the broker began while the switch was down,
   so that an activation since then is a later one. *)
Timely(checked) == checked <= epoch /\ (kill => checked < epoch)
InTime == /\ \A l \in Loops, s \in Symbols :
                 cyc[l][s].pc # "idle" => Timely(cyc[l][s].checked)
          /\ \A o \in Operators : req[o].pc = "submit" => Timely(req[o].checked)
FlowInv == TypeOK /\ LocalsOK /\ (SwitchRead => InTime /\ OrdersSuspended)

(* One loop trading long only, and no operator. *)
Unattended == /\ deploy.requests = {} /\ "SELL" \notin deploy.sides
              /\ \A l, m \in Loops : deploy.watch[l] # {} /\ deploy.watch[m] # {} => l = m

(* Unattended, a position once opened is on the book or was sold: no BUY
   replaces a position of its symbol (atlas.py:151 skips symbols that are
   held), although the check and the order are two steps. *)
NoPositionLost ==
    Unattended => \A e \in executed : e.side = "BUY" =>
        e.fill \in {positions[s].id : s \in Symbols} \cup ToSet(closed)

(* Unattended, a position is sold, and its proceeds credited, once, although
   the monitor sells from a snapshot and may write a position back. *)
SoldOnce == Unattended => IsInjective(closed)

(* A closed position is reported once on stream:trade_outcomes. *)
ReportedOnce == IsInjective(outcomes)

(* Unattended, between sweeps every closed position has been reported:
   position_monitor.py:76, "every exit (stop, target, trailing_stop,
   kill_switch, manual) publishes a structured event". *)
ExitsReported ==
    Unattended /\ mon = "idle" =>
        ToSet(closed) \subseteq ToSet(outcomes)

(* Every decision that is traded has its contributors filed under the trade id
   the outcome will carry: atlas.py:77, "Outcome writer reads this hash on exit
   and writes one agent_contributions row per contributor". *)
OutcomesAttributed == ToSet(outcomes) \subseteq tradeKeys

(* Where every loop asks for the switch and gets an answer, the book empties
   for good once the switch stays up, whatever orders were on their way.  The
   cycle runner never asks: under it the book may be refilled for ever. *)
KillDrains == []SwitchRead /\ <>[]kill => <>[](HeldNow = {})
=============================================================================
