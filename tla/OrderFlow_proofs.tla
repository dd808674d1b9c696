-------------------------- MODULE OrderFlow_proofs --------------------------
(***************************************************************************)
(* For any symbols, loops, operators and deployments: the types of what    *)
(* the processes share, and that loops which read the kill switch are      *)
(* suspended by it.                                                        *)
(***************************************************************************)
EXTENDS OrderFlow, TLAPS

(* A broker call keeps the book typed. *)
LEMMA ExecuteTypes ==
    ASSUME TypeOK, NEW from \in Nat, NEW s \in Symbols, NEW side \in Sides, NEW checked \in Nat,
           Execute(from, s, side, checked)
    PROVE  /\ positions' \in [Symbols -> Holding] /\ nextId' \in Ids
           /\ executed' \subseteq Execution /\ closed' \in Seq(Ids)
<1>1. nextId \in Ids /\ nextId' \in Ids
  BY DEF Execute, TypeOK, Ids
<1>2. positions' \in [Symbols -> Holding]
  BY <1>1 DEF Execute, TypeOK, Holding, NoPosition, Ids
<1>3. executed' \subseteq Execution
  <2>1. (kill /\ checked = epoch) \in BOOLEAN
    BY DEF TypeOK
  <2>2. [fill |-> nextId, from |-> from, side |-> side,
         late |-> kill /\ checked = epoch] \in Execution
    BY <1>1, <2>1 DEF Execution
  <2>3. QED
    BY <2>2 DEF Execute, TypeOK
<1>4. closed' \in Seq(Ids)
  <2>1. CASE side = "SELL" /\ Held(s)
    <3>1. positions[s].id \in Ids
      BY <2>1 DEF Held, TypeOK, Holding, Ids
    <3>2. QED
      BY <2>1, <3>1 DEF Execute, TypeOK
  <2>2. CASE ~(side = "SELL" /\ Held(s))
    BY <2>2 DEF Execute, TypeOK
  <2>3. QED
    BY <2>1, <2>2
<1>5. QED
  BY <1>1, <1>2, <1>3, <1>4

(* An order on its way since before the switch went up is not late. *)
LEMMA ExecuteTimely ==
    ASSUME TypeOK, NEW from, NEW s, NEW side, NEW checked \in Nat, Timely(checked),
           OrdersSuspended, Execute(from, s, side, checked)
    PROVE  OrdersSuspended'
<1> DEFINE new == [fill |-> nextId, from |-> from, side |-> side,
                   late |-> kill /\ checked = epoch]
<1>1. ~(kill /\ checked = epoch)
  BY DEF Timely, TypeOK
<1>2. ~new.late
  BY <1>1
<1>3. executed' = executed \cup {new}
  BY DEF Execute
<1>4. QED
  BY <1>2, <1>3 DEF OrdersSuspended

(* An activation leaves what is under way in time. *)
LEMMA ActivateTimely ==
    ASSUME TypeOK, Activate
    PROVE  /\ kill' \in BOOLEAN /\ epoch' \in Nat
           /\ \A k \in Nat : Timely(k) => Timely(k)'
  BY DEF Activate, Timely, TypeOK

-----------------------------------------------------------------------------
(* What a step of Atlas has to respect. *)
LEMMA AtlasStep ==
    ASSUME FlowInv, NEW l \in Loops, NEW s \in Symbols, NEW c \in Cycle,
           cyc[l][s].pc # "idle", cyc' = [cyc EXCEPT ![l][s] = c], AtlasFrame,
           CycleOK(c), c.pc # "idle" => c.checked = cyc[l][s].checked,
           positions' \in [Symbols -> Holding], nextId' \in Ids,
           executed' \subseteq Execution, closed' \in Seq(Ids),
           pending' \subseteq Signal, tradeKeys' \subseteq Ids,
           contributors' \in [Symbols -> SUBSET Ids],
           SwitchRead => OrdersSuspended'
    PROVE  FlowInv'
<1>1. cyc' \in [Loops -> [Symbols -> Cycle]]
  BY DEF FlowInv, TypeOK
<1>2. TypeOK'
  BY <1>1 DEF FlowInv, TypeOK, AtlasFrame, counters
<1>3. \A k \in Loops, t \in Symbols :
         cyc'[k][t] = IF k = l /\ t = s THEN c ELSE cyc[k][t]
  BY DEF FlowInv, TypeOK
<1>4. LocalsOK'
  BY <1>3 DEF FlowInv, LocalsOK, AtlasFrame, TaskOK, HandlerOK, CycleOK
<1>5. ASSUME SwitchRead' PROVE InTime' /\ OrdersSuspended'
  <2>1. SwitchRead
    BY <1>5 DEF SwitchRead, AtlasFrame, counters
  <2>2. InTime'
    BY <2>1, <1>3 DEF FlowInv, InTime, Timely, AtlasFrame, counters
  <2>3. QED
    BY <2>1, <2>2
<1>6. QED
  BY <1>2, <1>4, <1>5 DEF FlowInv

LEMMA AtlasInv ==
    ASSUME FlowInv, NEW l \in Loops, NEW s \in Symbols, Atlas(l, s)
    PROVE  FlowInv'
<1>1. cyc[l][s] \in Cycle /\ CycleOK(cyc[l][s])
  BY DEF FlowInv, TypeOK, LocalsOK
<1>2. IdleCycle \in Cycle /\ CycleOK(IdleCycle) /\ IdleCycle.pc = "idle"
  BY DEF IdleCycle, Cycle, CycleOK
<1>3. /\ positions \in [Symbols -> Holding] /\ nextId \in Ids
      /\ executed \subseteq Execution /\ closed \in Seq(Ids)
      /\ pending \subseteq Signal /\ tradeKeys \subseteq Ids
      /\ contributors \in [Symbols -> SUBSET Ids]
      /\ SwitchRead => OrdersSuspended
  BY DEF FlowInv, TypeOK
<1>4. UNCHANGED executed => (SwitchRead => OrdersSuspended')
  BY <1>3 DEF OrdersSuspended
<1>5. CASE NoOrder(l, s)
  BY <1>5, <1>2, <1>3, <1>4, AtlasStep DEF NoOrder, book, queue
<1>6. ASSUME NEW side \in Sides, ReadExisting(l, s, side)
      PROVE  FlowInv'
  <2> DEFINE b == side = "BUY" /\ Blocks(Held(s))
             c == [cyc[l][s] EXCEPT !.pc = "mode", !.side = side, !.blocked = b]
  <2>1. b \in BOOLEAN
    OBVIOUS
  <2>2. c \in Cycle /\ CycleOK(c) /\ c.checked = cyc[l][s].checked
    BY <1>1, <2>1 DEF Cycle, CycleOK
  <2>3. cyc' = [cyc EXCEPT ![l][s] = c]
    BY <1>6 DEF ReadExisting, FlowInv, TypeOK
  <2> HIDE DEF c
  <2>4. QED
    BY <1>6, <1>3, <1>4, <2>2, <2>3, AtlasStep DEF ReadExisting, book, queue
<1>7. CASE ReadMode(l, s)
  <2> DEFINE next == IF mode = "COMMANDER" THEN "queue" ELSE "submit"
             c == IF cyc[l][s].blocked THEN IdleCycle
                  ELSE [cyc[l][s] EXCEPT !.pc = next, !.id = nextId]
  <2>1. c \in Cycle /\ CycleOK(c) /\ (c.pc # "idle" => c.checked = cyc[l][s].checked)
    BY <1>1, <1>2, <1>3, <1>7 DEF ReadMode, Cycle, CycleOK, Ids
  <2>2. cyc' = [cyc EXCEPT ![l][s] = c]
    BY <1>7 DEF ReadMode, FlowInv, TypeOK
  <2>3. nextId' \in Ids /\ UNCHANGED executed
    BY <1>7, <1>3 DEF ReadMode, Ids
  <2> HIDE DEF c
  <2>4. QED
    BY <1>7, <1>3, <1>4, <2>1, <2>2, <2>3, AtlasStep DEF ReadMode, queue
<1>8. CASE Queue(l, s)
  <2> DEFINE c == [cyc[l][s] EXCEPT !.pc = "recordTrade"]
             signal == [id |-> cyc[l][s].id, symbol |-> s, side |-> cyc[l][s].side]
  <2>1. c \in Cycle /\ CycleOK(c) /\ c.checked = cyc[l][s].checked
    BY <1>1, <1>8 DEF Queue, Cycle, CycleOK
  <2>2. cyc' = [cyc EXCEPT ![l][s] = c]
    BY <1>8 DEF Queue, FlowInv, TypeOK
  <2>3. signal \in Signal
    BY <1>1, <1>8 DEF Queue, CycleOK, Signal
  <2>4. pending' \subseteq Signal
    BY <1>3, <1>8, <2>3 DEF Queue
  <2> HIDE DEF c
  <2>5. QED
    BY <1>8, <1>3, <1>4, <2>1, <2>2, <2>4, AtlasStep DEF Queue, book
<1>9. CASE SubmitOrder(l, s)
  <2> DEFINE c == [cyc[l][s] EXCEPT !.pc = "recordTrade"]
  <2>1. c \in Cycle /\ CycleOK(c) /\ c.checked = cyc[l][s].checked
    BY <1>1, <1>9 DEF SubmitOrder, Cycle, CycleOK
  <2>2. cyc' = [cyc EXCEPT ![l][s] = c]
    BY <1>9 DEF SubmitOrder, FlowInv, TypeOK
  <2>3. /\ cyc[l][s].id \in Nat /\ cyc[l][s].side \in Sides /\ cyc[l][s].checked \in Nat
        /\ TypeOK
    BY <1>1, <1>9 DEF SubmitOrder, CycleOK, Cycle, FlowInv
  <2>4. /\ positions' \in [Symbols -> Holding] /\ nextId' \in Ids
        /\ executed' \subseteq Execution /\ closed' \in Seq(Ids)
    BY <1>9, <2>3, ExecuteTypes DEF SubmitOrder
  <2>5. ASSUME SwitchRead PROVE OrdersSuspended'
    <3>1. Timely(cyc[l][s].checked) /\ OrdersSuspended
      BY <1>9, <2>5 DEF SubmitOrder, FlowInv, InTime
    <3>2. QED
      BY <1>9, <2>3, <3>1, ExecuteTimely DEF SubmitOrder
  <2> HIDE DEF c
  <2>6. QED
    BY <1>9, <1>3, <2>1, <2>2, <2>4, <2>5, AtlasStep DEF SubmitOrder, queue
<1>10. CASE RecordTrade(l, s)
  <2> DEFINE c == [cyc[l][s] EXCEPT !.pc = "recordLegacy"]
  <2>1. c \in Cycle /\ CycleOK(c) /\ c.checked = cyc[l][s].checked
    BY <1>1, <1>10 DEF RecordTrade, Cycle, CycleOK
  <2>2. cyc' = [cyc EXCEPT ![l][s] = c]
    BY <1>10 DEF RecordTrade, FlowInv, TypeOK
  <2>3. tradeKeys' \subseteq Ids
    BY <1>1, <1>3, <1>10 DEF RecordTrade, CycleOK
  <2> HIDE DEF c
  <2>4. QED
    BY <1>10, <1>3, <1>4, <2>1, <2>2, <2>3, AtlasStep DEF RecordTrade, book
<1>11. CASE RecordLegacy(l, s)
  <2>1. contributors' \in [Symbols -> SUBSET Ids]
    <3>1. cyc[l][s].id \in Ids
      BY <1>1, <1>11 DEF RecordLegacy, CycleOK
    <3>2. QED
      BY <1>3, <1>11, <3>1 DEF RecordLegacy
  <2>2. QED
    BY <1>11, <1>2, <1>3, <1>4, <2>1, AtlasStep DEF RecordLegacy, book
<1>12. QED
  BY <1>5, <1>6, <1>7, <1>8, <1>9, <1>10, <1>11 DEF Atlas

-----------------------------------------------------------------------------
(* The rounds: they begin in time where the switch was read. *)
LEMMA BegunTypes ==
    ASSUME TypeOK, NEW l \in Loops, NEW round
    PROVE  /\ Begun(l, round) \in [Loops -> [Symbols -> Cycle]]
           /\ \A k \in Loops, s \in Symbols : CycleOK(cyc[k][s]) => CycleOK(Begun(l, round)[k][s])
           /\ \A k \in Loops, s \in Symbols :
                 \/ Begun(l, round)[k][s] = cyc[k][s]
                 \/ Begun(l, round)[k][s].pc = "idle"
                 \/ k = l /\ s \in round /\ Begun(l, round)[k][s].checked = epoch
<1> DEFINE first == [IdleCycle EXCEPT !.pc = "thinking", !.checked = epoch]
           row == [s \in Symbols |-> IF s \in round THEN first ELSE IdleCycle]
<1>1. IdleCycle \in Cycle /\ CycleOK(IdleCycle) /\ IdleCycle.pc = "idle"
  BY DEF IdleCycle, Cycle, CycleOK
<1>2. first \in Cycle /\ CycleOK(first) /\ first.checked = epoch
  BY DEF IdleCycle, Cycle, CycleOK, TypeOK
<1>3. Begun(l, round) = [cyc EXCEPT ![l] = row]
  BY DEF Begun
<1> HIDE DEF first
<1>4. QED
  BY <1>1, <1>2, <1>3 DEF TypeOK

LEMMA RoundInv ==
    ASSUME FlowInv,
           \/ \E l \in PaperLoops : StartRound(l)
           \/ \E l \in Runners, s \in Symbols : RunOneCycle(l, s)
    PROVE  FlowInv'
<1>1. ASSUME NEW l \in PaperLoops, StartRound(l) PROVE FlowInv'
  <2>1. TypeOK /\ l \in Loops /\ cyc' = Begun(l, deploy.watch[l])
    BY <1>1 DEF StartRound, FlowInv, Loops
  <2>2. TypeOK'
    BY <1>1, <2>1, BegunTypes DEF StartRound, TypeOK, book, queue
  <2>3. LocalsOK'
    BY <1>1, <2>1, BegunTypes DEF StartRound, FlowInv, LocalsOK, TaskOK, HandlerOK
  <2>4. ASSUME SwitchRead' PROVE InTime' /\ OrdersSuspended'
    <3>1. SwitchRead /\ ~kill
      BY <1>1, <2>1, <2>4 DEF StartRound, SwitchRead, RoundAllowed, TypeOK
    <3>2. Timely(epoch)
      BY <2>1, <3>1 DEF Timely, TypeOK
    <3>3. InTime
      BY <3>1 DEF FlowInv
    <3>4. InTime'
      BY <1>1, <2>1, <3>2, <3>3, BegunTypes DEF StartRound, InTime, Timely
    <3>5. QED
      BY <1>1, <3>1, <3>4 DEF StartRound, FlowInv, OrdersSuspended, book
  <2>5. QED
    BY <2>2, <2>3, <2>4 DEF FlowInv
<1>2. ASSUME NEW l \in Runners, NEW s \in Symbols, RunOneCycle(l, s) PROVE FlowInv'
  <2>1. TypeOK /\ l \in Loops /\ cyc' = Begun(l, {s})
    BY <1>2 DEF RunOneCycle, FlowInv, Loops
  <2>2. TypeOK'
    BY <1>2, <2>1, BegunTypes DEF RunOneCycle, AtlasFrame, TypeOK, book, queue, counters
  <2>3. LocalsOK'
    BY <1>2, <2>1, BegunTypes DEF RunOneCycle, AtlasFrame, FlowInv, LocalsOK, TaskOK, HandlerOK
  <2>4. ~SwitchRead'
    BY <1>2 DEF RunOneCycle, AtlasFrame, SwitchRead, counters
  <2>5. QED
    BY <2>2, <2>3, <2>4 DEF FlowInv
<1>3. QED
  BY <1>1, <1>2

-----------------------------------------------------------------------------
(* What a step of an operator's request has to respect. *)
LEMMA RequestStep ==
    ASSUME FlowInv, NEW o \in Operators, NEW r \in Handler,
           req' = [req EXCEPT ![o] = r], RequestFrame, HandlerOK(r),
           SwitchRead /\ r.pc = "submit" =>
               r.checked <= epoch' /\ (kill' => r.checked < epoch'),
           kill' \in BOOLEAN, mode' \in {"COMMANDER", "TRUSTED"}, epoch' \in Nat,
           requests' \in Nat, rejected' \subseteq Ids, cut' \subseteq Ids,
           positions' \in [Symbols -> Holding], nextId' \in Ids,
           executed' \subseteq Execution, closed' \in Seq(Ids),
           pending' \subseteq Signal, contributors' \in [Symbols -> SUBSET Ids],
           \A k \in Nat : Timely(k) => Timely(k)',
           SwitchRead => OrdersSuspended'
    PROVE  FlowInv'
<1>1. req' \in [Operators -> Handler]
  BY DEF FlowInv, TypeOK
<1>2. TypeOK'
  BY <1>1 DEF FlowInv, TypeOK, RequestFrame
<1>3. \A p \in Operators : req'[p] = IF p = o THEN r ELSE req[p]
  BY DEF FlowInv, TypeOK
<1>4. LocalsOK'
  BY <1>3 DEF FlowInv, LocalsOK, RequestFrame, TaskOK, HandlerOK, CycleOK
<1>5. ASSUME SwitchRead' PROVE InTime' /\ OrdersSuspended'
  <2>1. SwitchRead
    BY <1>5 DEF SwitchRead, RequestFrame
  <2>2. InTime
    BY <2>1 DEF FlowInv
  <2>3. /\ \A l \in Loops, s \in Symbols : cyc[l][s].checked \in Nat
        /\ \A p \in Operators : req[p].checked \in Nat
    BY DEF FlowInv, TypeOK, Cycle, Handler
  <2>4. ASSUME NEW l \in Loops, NEW s \in Symbols, cyc'[l][s].pc # "idle"
        PROVE  Timely(cyc[l][s].checked)'
    <3>1. UNCHANGED cyc[l][s]
      BY DEF RequestFrame
    <3>2. Timely(cyc[l][s].checked)
      BY <2>2, <2>4, <3>1 DEF InTime
    <3> DEFINE k == cyc[l][s].checked
    <3>3. k \in Nat /\ k' = k
      BY <2>3, <3>1
    <3>4. k <= epoch' /\ (kill' => k < epoch')
      BY <2>3, <3>2 DEF Timely
    <3>5. QED
      BY <3>3, <3>4 DEF Timely
  <2>5. ASSUME NEW p \in Operators, req'[p].pc = "submit"
        PROVE  Timely(req[p].checked)'
    <3>1. CASE p = o
      <4>1. req'[p] = r
        BY <1>3, <3>1
      <4>2. QED
        BY <2>1, <2>5, <4>1 DEF Timely
    <3>2. CASE p # o
      <4>1. req'[p] = req[p]
        BY <1>3, <3>2
      <4>2. Timely(req[p].checked)
        BY <2>2, <2>5, <4>1 DEF InTime
      <4>3. QED
        BY <2>3, <4>1, <4>2 DEF Timely
    <3>3. QED
      BY <3>1, <3>2
  <2>6. InTime'
    BY <2>4, <2>5 DEF InTime
  <2>7. QED
    BY <2>1, <2>6
<1>6. QED
  BY <1>2, <1>4, <1>5 DEF FlowInv

(* Taking a request keeps the book, and starts at a check or a flatten. *)
LEMMA AcceptInv ==
    ASSUME FlowInv, NEW o \in Operators, Accept(o)
    PROVE  FlowInv'
<1>1. /\ kill \in BOOLEAN /\ mode \in {"COMMANDER", "TRUSTED"} /\ epoch \in Nat
      /\ requests \in Nat /\ rejected \subseteq Ids /\ cut \subseteq Ids
      /\ positions \in [Symbols -> Holding] /\ nextId \in Ids
      /\ executed \subseteq Execution /\ closed \in Seq(Ids)
      /\ pending \subseteq Signal /\ contributors \in [Symbols -> SUBSET Ids]
      /\ tradeKeys \subseteq Ids
      /\ req \in [Operators -> Handler] /\ req[o] \in Handler /\ HandlerOK(req[o])
      /\ SwitchRead => OrdersSuspended
      /\ TypeOK
  BY DEF FlowInv, TypeOK, LocalsOK
<1>2. UNCHANGED executed => (SwitchRead => OrdersSuspended')
  BY <1>1 DEF OrdersSuspended
<1>3. UNCHANGED <<kill, epoch>> => \A k \in Nat : Timely(k) => Timely(k)'
  BY DEF Timely
<1>4. IdleRequest \in Handler
  BY DEF IdleRequest, Handler
<1>5. ASSUME NEW signal \in pending, Approve(o, signal)
      PROVE  FlowInv'
  <2> DEFINE r == [IdleRequest EXCEPT !.pc = "check", !.signal = signal.id,
                      !.side = signal.side, !.symbol = signal.symbol]
  <2>1. signal \in Signal
    BY <1>1
  <2>2. r \in Handler /\ HandlerOK(r) /\ r.pc # "submit"
    BY <1>4, <2>1 DEF IdleRequest, Handler, HandlerOK, Signal, Ids
  <2>3. req' = [req EXCEPT ![o] = r] /\ requests' \in Nat /\ RequestFrame /\ cut' = cut
    BY <1>1, <1>5 DEF Approve, Request
  <2> HIDE DEF r
  <2>4. QED
    BY <1>1, <1>2, <1>3, <1>5, <2>2, <2>3, RequestStep DEF Approve, book
<1>6. ASSUME NEW side \in Sides, NEW s \in Symbols, Order(o, side, s)
      PROVE  FlowInv'
  <2> DEFINE r == [IdleRequest EXCEPT !.pc = "check", !.side = side, !.symbol = s]
  <2>1. r \in Handler /\ HandlerOK(r) /\ r.pc # "submit"
    BY <1>4 DEF IdleRequest, Handler, HandlerOK
  <2>2. req' = [req EXCEPT ![o] = r] /\ requests' \in Nat /\ RequestFrame /\ cut' = cut
    BY <1>1, <1>6 DEF Order, Request
  <2> HIDE DEF r
  <2>3. QED
    BY <1>1, <1>2, <1>3, <1>6, <2>1, <2>2, RequestStep DEF Order, book
<1>7. req = [req EXCEPT ![o] = req[o]]
  BY <1>1
<1>8. ASSUME req[o].pc = "idle", UNCHANGED req, UNCHANGED <<book, contributors>>,
             RequestFrame, kill' \in BOOLEAN, epoch' \in Nat, requests' \in Nat, cut' = cut,
             mode' \in {"COMMANDER", "TRUSTED"}, rejected' \subseteq Ids,
             pending' \subseteq Signal, \A k \in Nat : Timely(k) => Timely(k)'
      PROVE  FlowInv'
  <2>1. req' = [req EXCEPT ![o] = req[o]]
    BY <1>7, <1>8
  <2>2. QED
    BY <1>1, <1>2, <1>8, <2>1, RequestStep DEF book
<1>9. ASSUME NEW d \in tradeKeys \cup {signal.id : signal \in pending}, Reject(o, d)
      PROVE  FlowInv'
  <2>1. d \in Ids
    BY <1>1 DEF Signal
  <2>2. pending' \subseteq Signal /\ rejected' \subseteq Ids
    BY <1>1, <1>9, <2>1 DEF Reject, Without
  <2>3. /\ requests' \in Nat /\ RequestFrame /\ req[o].pc = "idle" /\ cut' = cut
        /\ UNCHANGED <<kill, mode, epoch, req, book, contributors>>
    BY <1>1, <1>9 DEF Reject, Request
  <2>4. QED
    BY <1>1, <1>3, <1>8, <2>2, <2>3
<1>10. CASE Kill(o)
  <2> DEFINE r == [req[o] EXCEPT !.pc = "flattenRead"]
  <2>1. r \in Handler /\ HandlerOK(r) /\ r.pc # "submit"
    BY <1>1 DEF Handler, HandlerOK
  <2>2. req' = [req EXCEPT ![o] = r] /\ requests' \in Nat /\ RequestFrame /\ cut' = cut
    BY <1>1, <1>10 DEF Kill, Request
  <2>3. kill' \in BOOLEAN /\ epoch' \in Nat /\ \A k \in Nat : Timely(k) => Timely(k)'
    BY <1>1, <1>10, ActivateTimely DEF Kill
  <2> HIDE DEF r
  <2>4. QED
    BY <1>1, <1>2, <1>10, <2>1, <2>2, <2>3, RequestStep DEF Kill, book
<1>11. CASE Reset(o)
  <2>1. /\ requests' \in Nat /\ RequestFrame /\ req[o].pc = "idle" /\ kill' = FALSE /\ cut' = cut
        /\ UNCHANGED <<mode, epoch, rejected, req, book, pending, contributors>>
    BY <1>1, <1>11 DEF Reset, Request
  <2>2. \A k \in Nat : Timely(k) => Timely(k)'
    BY <2>1 DEF Timely
  <2>3. QED
    BY <1>1, <1>8, <2>1, <2>2
<1>12. ASSUME NEW m \in {"COMMANDER", "TRUSTED"}, SetMode(o, m)
       PROVE  FlowInv'
  <2>1. /\ requests' \in Nat /\ RequestFrame /\ req[o].pc = "idle" /\ mode' = m /\ cut' = cut
        /\ UNCHANGED <<kill, epoch, rejected, req, book, pending, contributors>>
    BY <1>1, <1>12 DEF SetMode, Request
  <2>2. QED
    BY <1>1, <1>3, <1>8, <2>1
<1>13. QED
  BY <1>5, <1>6, <1>9, <1>10, <1>11, <1>12 DEF Accept

LEMMA ServeInv ==
    ASSUME FlowInv, NEW o \in Operators, Serve(o)
    PROVE  FlowInv'
<1>1. /\ kill \in BOOLEAN /\ mode \in {"COMMANDER", "TRUSTED"} /\ epoch \in Nat
      /\ requests \in Nat /\ rejected \subseteq Ids /\ cut \subseteq Ids
      /\ positions \in [Symbols -> Holding] /\ nextId \in Ids
      /\ executed \subseteq Execution /\ closed \in Seq(Ids)
      /\ pending \subseteq Signal /\ contributors \in [Symbols -> SUBSET Ids]
      /\ req \in [Operators -> Handler] /\ req[o] \in Handler /\ HandlerOK(req[o])
      /\ SwitchRead => OrdersSuspended
      /\ TypeOK
  BY DEF FlowInv, TypeOK, LocalsOK
<1>2. UNCHANGED executed => (SwitchRead => OrdersSuspended')
  BY <1>1 DEF OrdersSuspended
<1>3. UNCHANGED <<kill, epoch>> => \A k \in Nat : Timely(k) => Timely(k)'
  BY DEF Timely
<1>4. IdleRequest \in Handler /\ HandlerOK(IdleRequest) /\ IdleRequest.pc # "submit"
  BY DEF IdleRequest, Handler, HandlerOK
<1>5. CASE CheckKill(o)
  <2> DEFINE r == IF kill THEN IdleRequest
                  ELSE [req[o] EXCEPT !.pc = "submit", !.checked = epoch]
  <2>1. r \in Handler /\ HandlerOK(r)
    BY <1>1, <1>4, <1>5 DEF CheckKill, Continue, Handler, HandlerOK
  <2>2. req' = [req EXCEPT ![o] = r]
    BY <1>1, <1>5 DEF CheckKill
  <2>3. r.pc = "submit" => r.checked <= epoch' /\ (kill' => r.checked < epoch')
    <3>1. UNCHANGED <<kill, epoch>>
      BY <1>5 DEF CheckKill, Continue
    <3>2. CASE kill
      BY <1>4, <3>2
    <3>3. CASE ~kill
      <4>1. r.checked = epoch
        BY <1>1, <3>3 DEF Handler
      <4>2. QED
        BY <1>1, <3>1, <3>3, <4>1
    <3>4. QED
      BY <3>2, <3>3
  <2> HIDE DEF r
  <2>4. QED
    BY <1>1, <1>2, <1>3, <1>5, <2>1, <2>2, <2>3, RequestStep DEF CheckKill, Continue, book
<1>6. CASE RequestSubmit(o)
  <2> DEFINE next == IF req[o].side = "BUY" THEN "approveElo" ELSE "approveDelete"
             r == IF req[o].signal = 0 THEN IdleRequest ELSE [req[o] EXCEPT !.pc = next]
  <2>1. r \in Handler /\ HandlerOK(r) /\ r.pc # "submit"
    <3>1. CASE req[o].signal = 0
      BY <1>4, <3>1
    <3>2. CASE req[o].signal # 0
      <4>1. next \in {"approveElo", "approveDelete"}
        OBVIOUS
      <4> DEFINE new == [req[o] EXCEPT !.pc = next]
      <4> HIDE DEF next
      <4>2. new \in Handler /\ new.pc = next /\ new.signal = req[o].signal
        BY <1>1, <4>1 DEF Handler
      <4>3. new.signal \in Ids
        BY <1>1, <3>2, <4>2 DEF Handler, Ids
      <4>4. HandlerOK(new) /\ new.pc # "submit"
        BY <4>1, <4>2, <4>3 DEF HandlerOK
      <4>5. QED
        BY <3>2, <4>2, <4>4
    <3>3. QED
      BY <3>1, <3>2
  <2>2. req' = [req EXCEPT ![o] = r]
    BY <1>1, <1>6 DEF RequestSubmit
  <2>3. /\ req[o].signal \in Nat /\ req[o].checked \in Nat
        /\ req[o].symbol \in Symbols /\ req[o].side \in Sides
    BY <1>1, <1>6 DEF RequestSubmit, Continue, Handler, HandlerOK
  <2>4. /\ positions' \in [Symbols -> Holding] /\ nextId' \in Ids
        /\ executed' \subseteq Execution /\ closed' \in Seq(Ids)
    BY <1>1, <1>6, <2>3, ExecuteTypes DEF RequestSubmit
  <2>5. ASSUME SwitchRead PROVE OrdersSuspended'
    <3>1. Timely(req[o].checked) /\ OrdersSuspended
      BY <1>6, <2>5 DEF RequestSubmit, Continue, FlowInv, InTime
    <3>2. QED
      BY <1>1, <1>6, <2>3, <3>1, ExecuteTimely DEF RequestSubmit
  <2> HIDE DEF r
  <2>6. QED
    BY <1>1, <1>3, <1>6, <2>1, <2>2, <2>4, <2>5, RequestStep DEF RequestSubmit, Continue
<1>7. CASE ApproveElo(o)
  <2> DEFINE r == [req[o] EXCEPT !.pc = "approveDelete"]
  <2>1. r \in Handler /\ HandlerOK(r) /\ r.pc # "submit"
    BY <1>1 DEF Handler, HandlerOK
  <2>2. req' = [req EXCEPT ![o] = r]
    BY <1>1, <1>7 DEF ApproveElo
  <2>3. req[o].signal \in Ids
    BY <1>1, <1>7 DEF ApproveElo, Continue, HandlerOK
  <2>4. contributors' \in [Symbols -> SUBSET Ids]
    BY <1>1, <1>7, <2>3 DEF ApproveElo
  <2> HIDE DEF r
  <2>5. QED
    BY <1>1, <1>2, <1>3, <1>7, <2>1, <2>2, <2>4, RequestStep DEF ApproveElo, Continue, book
<1>8. CASE ApproveDelete(o)
  <2>1. pending' \subseteq Signal
    BY <1>1, <1>8 DEF ApproveDelete, Without
  <2>2. QED
    BY <1>1, <1>2, <1>3, <1>4, <1>8, <2>1, RequestStep DEF ApproveDelete, Continue, book
<1>9. CASE FlattenRead(o)
  <2> DEFINE left == {<<s, positions[s].id>> : s \in {t \in Symbols : Held(t)}}
             r == [req[o] EXCEPT !.pc = "flatten", !.left = left]
  <2>1. \A s \in Symbols : Held(s) => positions[s].id \in Ids
    BY <1>1 DEF Held, Holding, Ids
  <2>2. left \subseteq Symbols \X Ids
    BY <2>1
  <2>3. r \in Handler /\ HandlerOK(r) /\ r.pc # "submit"
    BY <1>1, <2>2 DEF Handler, HandlerOK
  <2>4. req' = [req EXCEPT ![o] = r]
    BY <1>1, <1>9 DEF FlattenRead
  <2> HIDE DEF r
  <2>5. QED
    BY <1>1, <1>2, <1>3, <1>9, <2>3, <2>4, RequestStep DEF FlattenRead, Continue, book
<1>10. ASSUME NEW p \in req[o].left, FlattenOne(o, p)
       PROVE  FlowInv'
  <2> DEFINE r == [req[o] EXCEPT !.left = @ \ {p}]
  <2>1. req[o].left \subseteq Symbols \X Ids /\ p[2] \in Ids
    BY <1>1 DEF Handler
  <2>2. r \in Handler /\ HandlerOK(r) /\ r.pc # "submit"
    BY <1>1, <1>10 DEF FlattenOne, Continue, Handler, HandlerOK
  <2>3. req' = [req EXCEPT ![o] = r]
    BY <1>1, <1>10 DEF FlattenOne
  <2>4. positions' \in [Symbols -> Holding] /\ closed' \in Seq(Ids)
    BY <1>1, <1>10, <2>1 DEF FlattenOne, NoPosition, Holding
  <2> HIDE DEF r
  <2>5. QED
    BY <1>1, <1>2, <1>3, <1>10, <2>2, <2>3, <2>4, RequestStep DEF FlattenOne, Continue
<1>11. CASE FlattenCredit(o)
  BY <1>1, <1>2, <1>3, <1>4, <1>11, RequestStep DEF FlattenCredit, Continue, book
<1>12. CASE RequestFails(o)
  <2>1. TradesOf(req[o].signal) \subseteq Ids
    BY <1>1 DEF TradesOf, Execution
  <2>2. /\ cut' \subseteq Ids /\ requests' \in Nat /\ RequestFrame
        /\ req' = [req EXCEPT ![o] = IdleRequest]
        /\ UNCHANGED <<kill, mode, epoch, rejected, book, pending, contributors>>
    BY <1>1, <1>12, <2>1 DEF RequestFails
  <2>3. QED
    BY <1>1, <1>2, <1>3, <1>4, <2>2, RequestStep DEF book
<1>13. QED
  BY <1>5, <1>6, <1>7, <1>8, <1>9, <1>10, <1>11, <1>12 DEF Serve

-----------------------------------------------------------------------------
(* The risk monitor's activation is later than whatever is under way. *)
LEMMA TripInv ==
    ASSUME FlowInv, TripKill
    PROVE  FlowInv'
<1>1. TypeOK /\ kill' \in BOOLEAN /\ epoch' \in Nat /\ \A k \in Nat : Timely(k) => Timely(k)'
  BY ActivateTimely DEF TripKill, FlowInv
<1>2. TypeOK'
  BY <1>1 DEF TripKill, TypeOK, book, queue
<1>3. LocalsOK'
  BY DEF TripKill, FlowInv, LocalsOK, CycleOK, TaskOK, HandlerOK
<1>4. ASSUME SwitchRead' PROVE InTime' /\ OrdersSuspended'
  <2>1. SwitchRead
    BY <1>4 DEF TripKill, SwitchRead
  <2>2. InTime /\ OrdersSuspended
    BY <2>1 DEF FlowInv
  <2>3. epoch' = epoch + 1
    BY DEF TripKill, Activate
  <2>4. InTime'
    <3>1. /\ \A l \in Loops, s \in Symbols : cyc[l][s].checked \in Nat
          /\ \A o \in Operators : req[o].checked \in Nat
      BY <1>1 DEF TypeOK, Cycle, Handler
    <3>2. epoch \in Nat /\ UNCHANGED <<cyc, req>>
      BY <1>1 DEF TripKill, TypeOK
    <3>3. QED
      BY <2>2, <2>3, <3>1, <3>2 DEF InTime, Timely
  <2>5. OrdersSuspended'
    BY <2>2 DEF TripKill, OrdersSuspended, book
  <2>6. QED
    BY <2>4, <2>5
<1>5. QED
  BY <1>2, <1>3, <1>4 DEF FlowInv

-----------------------------------------------------------------------------
(* What a step of the position monitor has to respect. *)
LEMMA MonitorStep ==
    ASSUME FlowInv, MonitorFrame,
           mon' \in {"idle", "sweepRead", "killRead", "tasks"},
           task' \in [Symbols -> Task], \A s \in Symbols : TaskOK(task'[s]),
           positions' \in [Symbols -> Holding], closed' \in Seq(Ids),
           outcomes' \in Seq(Ids), contributors' \in [Symbols -> SUBSET Ids],
           credited' \subseteq [trade : Ids, decision : Ids]
    PROVE  FlowInv'
<1>1. TypeOK'
  BY DEF FlowInv, TypeOK, MonitorFrame, counters
<1>2. LocalsOK'
  BY DEF FlowInv, LocalsOK, MonitorFrame, CycleOK, TaskOK, HandlerOK
<1>3. SwitchRead' => InTime' /\ OrdersSuspended'
  BY DEF FlowInv, SwitchRead, InTime, OrdersSuspended, Timely, MonitorFrame, counters
<1>4. QED
  BY <1>1, <1>2, <1>3 DEF FlowInv

LEMMA TaskStep ==
    ASSUME FlowInv, NEW s \in Symbols, NEW t \in Task, TaskOK(t),
           task' = [task EXCEPT ![s] = t], MonitorFrame, UNCHANGED mon,
           positions' \in [Symbols -> Holding], closed' \in Seq(Ids),
           outcomes' \in Seq(Ids), contributors' \in [Symbols -> SUBSET Ids],
           credited' \subseteq [trade : Ids, decision : Ids]
    PROVE  FlowInv'
<1>1. task \in [Symbols -> Task] /\ mon \in {"idle", "sweepRead", "killRead", "tasks"}
  BY DEF FlowInv, TypeOK
<1>2. task' \in [Symbols -> Task] /\ \A u \in Symbols : TaskOK(task'[u])
  BY <1>1 DEF FlowInv, LocalsOK
<1>3. QED
  BY <1>1, <1>2, MonitorStep

(* A snapshot records the identities of positions that are held. *)
LEMMA SnapshotTypes ==
    ASSUME TypeOK, NEW label \in {"price", "sell"}, NEW ss, ss \subseteq HeldNow
    PROVE  /\ Snapshot(label, ss) \in [Symbols -> Task]
           /\ \A s \in Symbols : TaskOK(Snapshot(label, ss)[s])
<1>1. IdleTask \in Task /\ TaskOK(IdleTask)
  BY DEF IdleTask, Task, TaskOK, NoPosition, Holding
<1>2. ASSUME NEW s \in ss
      PROVE  LET t == [IdleTask EXCEPT !.pc = label, !.id = positions[s].id]
             IN  t \in Task /\ TaskOK(t)
  <2>1. positions[s].id \in Ids
    BY DEF HeldNow, Held, TypeOK, Holding, Ids
  <2>2. QED
    BY <2>1 DEF IdleTask, Task, TaskOK, NoPosition, Holding, Ids
<1>3. QED
  BY <1>1, <1>2 DEF Snapshot

LEMMA MonitorInv ==
    ASSUME FlowInv, Monitor
    PROVE  FlowInv'
<1>1. /\ task \in [Symbols -> Task] /\ mon \in {"idle", "sweepRead", "killRead", "tasks"}
      /\ positions \in [Symbols -> Holding] /\ closed \in Seq(Ids)
      /\ outcomes \in Seq(Ids) /\ contributors \in [Symbols -> SUBSET Ids]
      /\ credited \subseteq [trade : Ids, decision : Ids]
      /\ \A s \in Symbols : task[s] \in Task /\ TaskOK(task[s])
      /\ TypeOK
  BY DEF FlowInv, TypeOK, LocalsOK
<1>2. CASE MonitorCheck
  BY <1>1, <1>2, MonitorStep DEF MonitorCheck
<1>3. CASE SweepRead
  <2>1. /\ task' = Snapshot("price", HeldNow) /\ mon' = "tasks"
        /\ MonitorFrame /\ UNCHANGED <<positions, closed, outcomes, contributors, credited>>
    BY <1>3 DEF SweepRead
  <2>2. task' \in [Symbols -> Task] /\ \A s \in Symbols : TaskOK(task'[s])
    BY <1>1, <2>1, SnapshotTypes
  <2>3. QED
    BY <1>1, <2>1, <2>2, MonitorStep
<1>4. ASSUME NEW priced \in SUBSET Symbols, KillRead(priced)
      PROVE  FlowInv'
  <2>1. /\ task' = Snapshot("sell", HeldNow \cap priced) /\ mon' = "tasks"
        /\ MonitorFrame /\ UNCHANGED <<positions, closed, outcomes, contributors, credited>>
    BY <1>4 DEF KillRead
  <2>2. task' \in [Symbols -> Task] /\ \A s \in Symbols : TaskOK(task'[s])
    <3>1. HeldNow \cap priced \subseteq HeldNow
      OBVIOUS
    <3>2. QED
      BY <1>1, <2>1, <3>1, SnapshotTypes
  <2>3. QED
    BY <1>1, <2>1, <2>2, MonitorStep
<1>5. CASE SweepDone
  <2>1. IdleTask \in Task /\ TaskOK(IdleTask)
    BY DEF IdleTask, Task, TaskOK, NoPosition, Holding
  <2>2. QED
    BY <1>1, <1>5, <2>1, MonitorStep DEF SweepDone
<1>6. ASSUME NEW s \in Symbols, NEW next \in {"done", "sell", "trailRead"},
             Step(s, "price", next),
             UNCHANGED <<positions, closed, outcomes, contributors, credited>>
      PROVE  FlowInv'
  <2> DEFINE t == [task[s] EXCEPT !.pc = next]
  <2>1. t \in Task /\ TaskOK(t)
    BY <1>1, <1>6 DEF Step, Task, TaskOK
  <2>2. task' = [task EXCEPT ![s] = t] /\ MonitorFrame /\ UNCHANGED mon
    BY <1>1, <1>6 DEF Step
  <2> HIDE DEF t
  <2>3. QED
    BY <1>1, <1>6, <2>1, <2>2, TaskStep
<1>7. ASSUME NEW s \in Symbols, TrailRead(s)
      PROVE  FlowInv'
  <2> DEFINE next == IF Held(s) THEN "trailWrite" ELSE "trailed"
             t == [task[s] EXCEPT !.found = positions[s], !.pc = next]
  <2>1. next \in {"trailWrite", "trailed"}
    OBVIOUS
  <2>2. task' = [task EXCEPT ![s] = t] /\ MonitorFrame /\ UNCHANGED mon
    BY <1>1, <1>7 DEF TrailRead
  <2> HIDE DEF next
  <2>3. t \in Task /\ TaskOK(t)
    BY <1>1, <1>7, <2>1 DEF TrailRead, Task, TaskOK
  <2> HIDE DEF t
  <2>4. QED
    BY <1>1, <1>7, <2>2, <2>3, TaskStep DEF TrailRead
<1>8. ASSUME NEW s \in Symbols, TrailWrite(s)
      PROVE  FlowInv'
  <2> DEFINE t == [task[s] EXCEPT !.pc = "trailed"]
  <2>1. t \in Task /\ TaskOK(t) /\ task[s].found \in Holding
    BY <1>1, <1>8 DEF TrailWrite, Step, Task, TaskOK
  <2>2. task' = [task EXCEPT ![s] = t] /\ MonitorFrame /\ UNCHANGED mon
    BY <1>1, <1>8 DEF TrailWrite, Step
  <2>3. positions' \in [Symbols -> Holding]
    BY <1>1, <1>8, <2>1 DEF TrailWrite
  <2> HIDE DEF t
  <2>4. QED
    BY <1>1, <1>8, <2>1, <2>2, <2>3, TaskStep DEF TrailWrite
<1>9. ASSUME NEW s \in Symbols, NEW next \in {"done", "sell"}, Step(s, "trailed", next),
             UNCHANGED <<positions, closed, outcomes, contributors, credited>>
      PROVE  FlowInv'
  <2> DEFINE t == [task[s] EXCEPT !.pc = next]
  <2>1. t \in Task /\ TaskOK(t)
    BY <1>1, <1>9 DEF Step, Task, TaskOK
  <2>2. task' = [task EXCEPT ![s] = t] /\ MonitorFrame /\ UNCHANGED mon
    BY <1>1, <1>9 DEF Step
  <2> HIDE DEF t
  <2>3. QED
    BY <1>1, <1>9, <2>1, <2>2, TaskStep
<1>10. ASSUME NEW s \in Symbols, Exit(s)
       PROVE  FlowInv'
  <2> DEFINE t == [task[s] EXCEPT !.pc = "outcome"]
  <2>1. t \in Task /\ TaskOK(t) /\ task[s].id \in Ids
    BY <1>1, <1>10 DEF Exit, Step, Task, TaskOK
  <2>2. task' = [task EXCEPT ![s] = t] /\ MonitorFrame /\ UNCHANGED mon
    BY <1>1, <1>10 DEF Exit, Step
  <2>3. positions' \in [Symbols -> Holding] /\ closed' \in Seq(Ids)
    BY <1>1, <1>10, <2>1 DEF Exit, NoPosition, Holding
  <2> HIDE DEF t
  <2>4. QED
    BY <1>1, <1>10, <2>1, <2>2, <2>3, TaskStep DEF Exit
<1>11. ASSUME NEW s \in Symbols, ReportOutcome(s)
       PROVE  FlowInv'
  <2> DEFINE t == [task[s] EXCEPT !.pc = "eloRead"]
  <2>1. t \in Task /\ TaskOK(t) /\ task[s].id \in Ids
    BY <1>1, <1>11 DEF ReportOutcome, Step, Task, TaskOK
  <2>2. task' = [task EXCEPT ![s] = t] /\ MonitorFrame /\ UNCHANGED mon
    BY <1>1, <1>11 DEF ReportOutcome, Step
  <2>3. outcomes' \in Seq(Ids)
    BY <1>1, <1>11, <2>1 DEF ReportOutcome
  <2> HIDE DEF t
  <2>4. QED
    BY <1>1, <1>11, <2>1, <2>2, <2>3, TaskStep DEF ReportOutcome
<1>12. ASSUME NEW s \in Symbols, EloRead(s)
       PROVE  FlowInv'
  <2> DEFINE next == IF contributors[s] = {} THEN "done" ELSE "eloDelete"
             t == [task[s] EXCEPT !.agents = contributors[s], !.pc = next]
  <2>1. next \in {"done", "eloDelete"}
    OBVIOUS
  <2>2. task' = [task EXCEPT ![s] = t] /\ MonitorFrame /\ UNCHANGED mon
    BY <1>1, <1>12 DEF EloRead
  <2> HIDE DEF next
  <2>3. t \in Task /\ TaskOK(t)
    BY <1>1, <1>12, <2>1 DEF EloRead, Task, TaskOK
  <2> HIDE DEF t
  <2>4. QED
    BY <1>1, <1>12, <2>2, <2>3, TaskStep DEF EloRead
<1>13. ASSUME NEW s \in Symbols, EloDelete(s)
       PROVE  FlowInv'
  <2> DEFINE t == [task[s] EXCEPT !.pc = "done"]
  <2>1. t \in Task /\ TaskOK(t) /\ task[s].id \in Ids /\ task[s].agents \subseteq Ids
    BY <1>1, <1>13 DEF EloDelete, Step, Task, TaskOK
  <2>2. task' = [task EXCEPT ![s] = t] /\ MonitorFrame /\ UNCHANGED mon
    BY <1>1, <1>13 DEF EloDelete, Step
  <2>3. contributors' \in [Symbols -> SUBSET Ids]
    BY <1>1, <1>13 DEF EloDelete
  <2>4. credited' \subseteq [trade : Ids, decision : Ids]
    BY <1>1, <1>13, <2>1 DEF EloDelete
  <2> HIDE DEF t
  <2>5. QED
    BY <1>1, <1>13, <2>1, <2>2, <2>3, <2>4, TaskStep DEF EloDelete
<1>14. QED
  BY <1>2, <1>3, <1>4, <1>5, <1>6, <1>7, <1>8, <1>9, <1>10, <1>11, <1>12, <1>13
  DEF Monitor, CheckPosition, Trailed, ExitTask

-----------------------------------------------------------------------------
LEMMA InitFlowInv ==
    ASSUME Init
    PROVE  FlowInv
<1>1. deploy \in Deployment
  BY FlowAssumption DEF Init
<1>2. IdleCycle \in Cycle /\ CycleOK(IdleCycle) /\ IdleCycle.pc = "idle"
  BY DEF IdleCycle, Cycle, CycleOK
<1>3. IdleTask \in Task /\ TaskOK(IdleTask)
  BY DEF IdleTask, Task, TaskOK, NoPosition, Holding
<1>4. IdleRequest \in Handler /\ HandlerOK(IdleRequest) /\ IdleRequest.pc = "idle"
  BY DEF IdleRequest, Handler, HandlerOK
<1>5. mode \in {"COMMANDER", "TRUSTED"}
  BY <1>1 DEF Init, Deployment
<1>6. NoPosition \in Holding /\ nextId \in Ids
  BY DEF Init, NoPosition, Holding, Ids
<1>7. /\ kill \in BOOLEAN /\ deploy \in Deployments /\ pending = {} /\ tradeKeys = {}
      /\ outcomes = <<>> /\ closed = <<>> /\ mon = "idle"
      /\ epoch = 0 /\ trips = 0 /\ faults = 0 /\ requests = 0
      /\ executed = {} /\ credited = {} /\ rejected = {} /\ cut = {}
      /\ positions = [s \in Symbols |-> NoPosition]
      /\ contributors = [s \in Symbols |-> {}]
      /\ cyc = [l \in Loops |-> [s \in Symbols |-> IdleCycle]]
      /\ task = [s \in Symbols |-> IdleTask]
      /\ req = [o \in Operators |-> IdleRequest]
  BY DEF Init
<1>8. TypeOK
  BY <1>2, <1>3, <1>4, <1>5, <1>6, <1>7 DEF TypeOK
<1>9. LocalsOK
  BY <1>2, <1>3, <1>4, <1>7 DEF LocalsOK
<1>10. InTime /\ OrdersSuspended
  BY <1>2, <1>4, <1>7 DEF InTime, OrdersSuspended
<1>11. QED
  BY <1>8, <1>9, <1>10 DEF FlowInv

LEMMA NextFlowInv ==
    ASSUME FlowInv, [Next]_vars
    PROVE  FlowInv'
<1>1. CASE Next
  BY <1>1, RoundInv, AtlasInv, AcceptInv, ServeInv, TripInv, MonitorInv DEF Next
<1>2. CASE UNCHANGED vars
  BY <1>2 DEF vars, counters, FlowInv, TypeOK, LocalsOK, CycleOK, TaskOK, HandlerOK,
              SwitchRead, InTime, Timely, OrdersSuspended
<1>3. QED
  BY <1>1, <1>2

(* Whatever the loops, the operators and the monitor interleave, every key
   and local keeps its type, for any deployment. *)
THEOREM TypeCorrect == Spec => []TypeOK
<1>1. Init => FlowInv
  BY InitFlowInv
<1>2. FlowInv /\ [Next]_vars => FlowInv'
  BY NextFlowInv
<1>3. FlowInv => TypeOK
  BY DEF FlowInv
<1>4. QED
  BY <1>1, <1>2, <1>3, PTL DEF Spec

(* Where every loop reads the kill switch and every read is answered, no order
   that began under an active switch is executed while it stays up, whoever
   raises and resets it and however often (README.md:78). *)
THEOREM Suspended == Spec => []LoopsSuspended
<1>1. Init => FlowInv
  BY InitFlowInv
<1>2. FlowInv /\ [Next]_vars => FlowInv'
  BY NextFlowInv
<1>3. FlowInv => LoopsSuspended
  BY DEF FlowInv, LoopsSuspended
<1>4. QED
  BY <1>1, <1>2, <1>3, PTL DEF Spec
=============================================================================
