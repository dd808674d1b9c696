---------------------------- MODULE Desks_proofs ----------------------------
(***************************************************************************)
(* Theorems about the desks, for any number of cycles, agents' opinions,   *)
(* packets, restarts, errors and windows: Desk 2 acts once on a packet and *)
(* at most one batch after the switch; no cycle trades what was not        *)
(* approved and sized; every agent called leaves one episode and nobody is *)
(* left active; the weight that settles is the win rate over the window,   *)
(* and a suppression does not compound; and every record keeps its type.   *)
(***************************************************************************)
EXTENDS Desks, SequenceTheorems, FiniteSetTheorems, TLAPS

(* -------------------------------- Desk 2 -------------------------------- *)
Packet == [direction : Directions, confidence : 0..Scale, expires : Nat]
Places == {"check", "read", "packet", "register", "ack"}

DeskType ==
    /\ inbox \in Seq(Packet) /\ Len(inbox) <= MaxPackets
    /\ now \in Nat
    /\ delivered \in 0..Len(inbox)
    /\ desk \in [pc : Places, batch : Seq(Nat), executed : BOOLEAN]
    /\ handled \in [1..MaxPackets -> {0, 1}]
    /\ late \in Nat
    /\ halted \in BOOLEAN

Busy == IF desk.pc \in {"register", "ack"} THEN 1 ELSE 0

(* The batch is the newest part of what was delivered, the packets after the
   one at hand have not been acted on, and it is empty between batches. *)
BatchOK ==
    /\ Len(desk.batch) <= delivered
    /\ \A i \in 1..Len(desk.batch) : desk.batch[i] = delivered - Len(desk.batch) + i
    /\ desk.pc \in {"check", "read"} <=> Len(desk.batch) = 0
    /\ \A p \in 1..MaxPackets :
          p > delivered - Len(desk.batch) + Busy => handled[p] = 0

(* What may still be begun of a batch fits into it. *)
LateOK ==
    /\ ~halted \/ desk.pc = "read" => late = 0
    /\ Len(desk.batch) <= BatchSize
    /\ late <= BatchSize
    /\ desk.pc # "check" => late + Len(desk.batch) - Busy <= BatchSize

DeskInv == DeskType /\ BatchOK /\ LateOK

LEMMA Bounds == BatchSize \in Nat \ {0} /\ MaxPackets \in Nat /\ Lifetime \in Nat
  BY DeskAssumption DEF DeskAssumption

(* The initial desk satisfies the invariant. *)
LEMMA InitDeskInv == ASSUME DeskInit PROVE DeskInv
  <1>1. /\ desk.pc = "check" /\ desk.batch = <<>> /\ Len(desk.batch) = 0 /\ Busy = 0
        /\ inbox = <<>> /\ Len(inbox) = 0 /\ delivered = 0 /\ late = 0
    BY DEF DeskInit, AtCheck, Busy
  <1>2. DeskType
    <2>1. desk \in [pc : Places, batch : Seq(Nat), executed : BOOLEAN]
      BY DEF DeskInit, AtCheck, Places
    <2>2. handled \in [1..MaxPackets -> {0, 1}] /\ inbox \in Seq(Packet)
      BY DEF DeskInit
    <2>3. Len(inbox) <= MaxPackets /\ delivered \in 0..Len(inbox)
      BY <1>1, Bounds
    <2> QED BY <2>1, <2>2, <2>3 DEF DeskInit, DeskType
  <1>3. BatchOK
    BY <1>1 DEF DeskInit, BatchOK
  <1>4. LateOK
    BY <1>1, Bounds DEF LateOK
  <1> QED BY <1>2, <1>3, <1>4 DEF DeskInv

(* Steps that leave the desk alone. *)
LEMMA OutsideDeskInv ==
  ASSUME DeskInv, (\E v \in Convictions : Publish(v)) \/ TimePasses \/ Halt
  PROVE  DeskInv'
  <1> USE Bounds DEF DeskInv
  <1>1. ASSUME NEW v \in Convictions, Publish(v) PROVE DeskInv'
    <2> DEFINE p == [direction |-> v.direction, confidence |-> v.confidence,
                     expires |-> now + Lifetime]
    <2>1. p \in Packet
      BY DeskAssumption DEF DeskAssumption, Packet, DeskType
    <2>2. inbox' = Append(inbox, p) /\ Len(inbox) < MaxPackets
      BY <1>1 DEF Publish
    <2>3. inbox' \in Seq(Packet) /\ Len(inbox') = Len(inbox) + 1
      BY <2>1, <2>2 DEF DeskType
    <2>4. UNCHANGED <<now, delivered, desk, handled, late, halted>>
      BY <1>1 DEF Publish
    <2>5. DeskType'
      BY <2>2, <2>3, <2>4 DEF DeskType
    <2> QED BY <2>4, <2>5 DEF BatchOK, LateOK, Busy
  <1>2. ASSUME TimePasses PROVE DeskInv'
    BY <1>2 DEF TimePasses, DeskType, BatchOK, LateOK, Busy
  <1>3. ASSUME Halt PROVE DeskInv'
    <2>1. DeskType'
      BY <1>3 DEF Halt, DeskType
    <2>2. BatchOK'
      BY <1>3 DEF Halt, BatchOK, Busy
    <2>3. LateOK'
      BY <1>3, <2>1 DEF Halt, LateOK, Busy, DeskType
    <2> QED BY <2>1, <2>2, <2>3
  <1> QED BY <1>1, <1>2, <1>3

(* The next batch is what follows the packets delivered so far. *)
LEMMA Next1OK ==
  ASSUME DeskType
  PROVE  LET batch == Next1(delivered)
         IN /\ batch \in Seq(Nat) /\ Len(batch) \in 0..BatchSize
            /\ delivered + Len(batch) <= Len(inbox)
            /\ \A i \in 1..Len(batch) : batch[i] = delivered + i
  <1> USE Bounds
  <1> DEFINE left == IF Len(inbox) - delivered < BatchSize
                     THEN Len(inbox) - delivered ELSE BatchSize
             n == Larger(0, left)
  <1>1. n \in 0..BatchSize /\ delivered + n <= Len(inbox) /\ delivered \in Nat
    BY DEF DeskType, Larger
  <1>2. Next1(delivered) = [i \in 1..n |-> delivered + i]
    BY DEF Next1
  <1> HIDE DEF n
  <1>3. Len(Next1(delivered)) = n /\ Next1(delivered) \in Seq(Nat)
    BY <1>1, <1>2
  <1> QED BY <1>1, <1>2, <1>3

(* Looking at the switch and reading a batch. *)
LEMMA ReadDeskInv ==
  ASSUME DeskInv, CheckSwitch \/ ReadBatch
  PROVE  DeskInv'
  <1> USE Bounds DEF DeskInv
  <1>1. ASSUME CheckSwitch PROVE DeskInv'
    <2>1. /\ desk' = [desk EXCEPT !.pc = "read"] /\ desk.pc = "check" /\ ~halted
          /\ UNCHANGED <<inbox, now, delivered, handled, late, halted>>
      BY <1>1 DEF CheckSwitch
    <2>2. desk'.pc = "read" /\ desk'.batch = desk.batch /\ DeskType'
      BY <2>1 DEF DeskType, Places
    <2>3. Busy' = 0 /\ Busy = 0
      BY <2>1, <2>2 DEF Busy
    <2>4. BatchOK'
      BY <2>1, <2>2, <2>3 DEF BatchOK
    <2>5. LateOK'
      BY <2>1, <2>2, <2>3 DEF LateOK, BatchOK, DeskType
    <2> QED BY <2>2, <2>4, <2>5
  <1>2. ASSUME ReadBatch PROVE DeskInv'
    <2> DEFINE batch == Next1(delivered)
    <2>1. /\ batch \in Seq(Nat) /\ Len(batch) \in 0..BatchSize
          /\ delivered + Len(batch) <= Len(inbox)
          /\ \A i \in 1..Len(batch) : batch[i] = delivered + i
      BY Next1OK
    <2>2. /\ desk.pc = "read" /\ delivered' = delivered + Len(batch)
          /\ desk' = [pc |-> IF batch = <<>> THEN "check" ELSE "packet",
                      batch |-> batch, executed |-> FALSE]
          /\ UNCHANGED <<inbox, now, handled, late, halted>>
      BY <1>2 DEF ReadBatch, AtCheck
    <2> HIDE DEF batch
    <2>3. batch = <<>> <=> Len(batch) = 0
      BY <2>1
    <2>4. /\ desk'.batch = batch /\ Busy' = 0 /\ Busy = 0 /\ Len(desk.batch) = 0
          /\ desk'.pc = IF Len(batch) = 0 THEN "check" ELSE "packet"
      BY <2>2, <2>3 DEF Busy, BatchOK
    <2>5. DeskType'
      BY <2>1, <2>2 DEF DeskType, Places
    <2>6. BatchOK'
      <3>1. delivered \in Nat /\ delivered' - Len(batch) = delivered
        BY <2>1, <2>2 DEF DeskType
      <3>2. \A p \in 1..MaxPackets : p > delivered => handled[p] = 0
        BY <2>4, <3>1 DEF BatchOK
      <3>3. /\ Len(batch) <= delivered'
            /\ \A i \in 1..Len(batch) : batch[i] = delivered' - Len(batch) + i
            /\ \A p \in 1..MaxPackets : p > delivered' - Len(batch) + 0 => handled'[p] = 0
        BY <2>1, <2>2, <3>1, <3>2
      <3> QED BY <2>4, <3>3 DEF BatchOK
    <2>7. LateOK'
      BY <2>1, <2>2, <2>4 DEF LateOK, DeskType
    <2> QED BY <2>5, <2>6, <2>7
  <1> QED BY <1>1, <1>2

(* The rest of a batch after its first packet. *)
LEMMA RestOK ==
  ASSUME DeskInv, desk.pc \in {"packet", "register", "ack"}, desk' = Rest
  PROVE  /\ desk.batch # <<>> /\ Len(desk.batch) \in Nat \ {0}
         /\ Now1 = delivered - Len(desk.batch) + 1 /\ Now1 \in 1..MaxPackets
         /\ desk' \in [pc : {"check", "packet"}, batch : Seq(Nat), executed : BOOLEAN]
         /\ Len(desk'.batch) = Len(desk.batch) - 1
         /\ \A i \in 1..Len(desk'.batch) : desk'.batch[i] = desk.batch[i + 1]
         /\ desk'.pc = "check" <=> Len(desk'.batch) = 0
         /\ Busy' = 0
  <1> USE DEF DeskInv
  <1>1. desk.batch \in Seq(Nat) /\ Len(desk.batch) # 0 /\ desk.batch # <<>>
    BY DEF DeskType, BatchOK
  <1>2. Now1 = desk.batch[1] /\ Now1 = delivered - Len(desk.batch) + 1
    BY <1>1 DEF Now1, BatchOK
  <1>3. Now1 \in 1..MaxPackets
    BY <1>1, <1>2, Bounds DEF DeskType, BatchOK
  <1>4. /\ Tail(desk.batch) \in Seq(Nat) /\ Len(Tail(desk.batch)) = Len(desk.batch) - 1
        /\ \A i \in 1..Len(Tail(desk.batch)) : Tail(desk.batch)[i] = desk.batch[i + 1]
        /\ Tail(desk.batch) = <<>> <=> Len(Tail(desk.batch)) = 0
    <2>1. /\ Tail(desk.batch) \in Seq(Nat) /\ Len(Tail(desk.batch)) = Len(desk.batch) - 1
          /\ \A i \in 1..Len(Tail(desk.batch)) : Tail(desk.batch)[i] = desk.batch[i + 1]
      BY <1>1, HeadTailProperties
    <2>2. Tail(desk.batch) = <<>> <=> Len(Tail(desk.batch)) = 0
      BY <2>1, EmptySeq
    <2> QED BY <2>1, <2>2
  <1>5. desk' = [pc |-> IF Tail(desk.batch) = <<>> THEN "check" ELSE "packet",
                 batch |-> Tail(desk.batch), executed |-> FALSE]
    BY DEF Rest, AtCheck
  <1>6. /\ desk' \in [pc : {"check", "packet"}, batch : Seq(Nat), executed : BOOLEAN]
        /\ desk'.batch = Tail(desk.batch)
        /\ desk'.pc = "check" <=> Tail(desk.batch) = <<>>
    <2> DEFINE t == Tail(desk.batch)
    <2> HIDE DEF t
    <2>1. desk' = [pc |-> IF t = <<>> THEN "check" ELSE "packet", batch |-> t,
                   executed |-> FALSE]
      BY <1>5 DEF t
    <2>2. t \in Seq(Nat)
      BY <1>4 DEF t
    <2>3. /\ desk' \in [pc : {"check", "packet"}, batch : Seq(Nat), executed : BOOLEAN]
          /\ desk'.batch = t
          /\ desk'.pc = "check" <=> t = <<>>
      BY <2>1, <2>2
    <2> QED BY <2>3 DEF t
  <1>7. Busy' = 0
    BY <1>5 DEF Busy
  <1>8. Len(desk.batch) \in Nat \ {0}
    BY <1>1, LenProperties
  <1>9. /\ Len(desk'.batch) = Len(desk.batch) - 1
        /\ \A i \in 1..Len(desk'.batch) : desk'.batch[i] = desk.batch[i + 1]
        /\ desk'.pc = "check" <=> Len(desk'.batch) = 0
    <2> DEFINE t == Tail(desk.batch)
    <2> HIDE DEF t
    <2>1. /\ Len(t) = Len(desk.batch) - 1 /\ (t = <<>> <=> Len(t) = 0)
          /\ \A i \in 1..Len(t) : t[i] = desk.batch[i + 1]
      BY <1>4 DEF t
    <2>2. desk'.batch = t /\ (desk'.pc = "check" <=> t = <<>>)
      BY <1>6 DEF t
    <2> QED BY ONLY <2>1, <2>2
  <1>a. /\ desk.batch # <<>> /\ Now1 = delivered - Len(desk.batch) + 1
        /\ desk' \in [pc : {"check", "packet"}, batch : Seq(Nat), executed : BOOLEAN]
    BY ONLY <1>1, <1>2, <1>6
  <1> QED BY ONLY <1>3, <1>7, <1>8, <1>9, <1>a

(* A packet that is done with, dismissed, acknowledged or given up. *)
LEMMA DoneDeskInv ==
  ASSUME DeskInv, Dismiss \/ Acknowledge \/ PacketError
  PROVE  DeskInv'
  <1> USE Bounds DEF DeskInv
  <1>1. /\ desk.pc \in {"packet", "register", "ack"} /\ desk' = Rest
        /\ UNCHANGED <<inbox, now, delivered, late, halted>>
        /\ \/ handled' = [handled EXCEPT ![Now1] = @ + 1] /\ desk.pc = "packet"
           \/ handled' = handled
    BY DEF Dismiss, Acknowledge, PacketError
  <1>2. /\ desk.batch # <<>> /\ Len(desk.batch) \in Nat \ {0}
        /\ Now1 = delivered - Len(desk.batch) + 1 /\ Now1 \in 1..MaxPackets
        /\ desk' \in [pc : {"check", "packet"}, batch : Seq(Nat), executed : BOOLEAN]
        /\ Len(desk'.batch) = Len(desk.batch) - 1
        /\ \A i \in 1..Len(desk'.batch) : desk'.batch[i] = desk.batch[i + 1]
        /\ desk'.pc = "check" <=> Len(desk'.batch) = 0
        /\ Busy' = 0
    BY <1>1, RestOK
  <1>3. desk.pc = "packet" => handled[Now1] = 0
    BY <1>2 DEF BatchOK, Busy, DeskType
  <1>4. /\ handled' \in [1..MaxPackets -> {0, 1}]
        /\ \A p \in 1..MaxPackets : p # Now1 => handled'[p] = handled[p]
    <2>1. handled \in [1..MaxPackets -> {0, 1}]
      BY DEF DeskType
    <2>2. CASE handled' = handled
      BY <2>1, <2>2
    <2>3. CASE handled' = [handled EXCEPT ![Now1] = @ + 1] /\ desk.pc = "packet"
      <3>1. handled[Now1] = 0 /\ Now1 \in 1..MaxPackets
        BY <1>2, <1>3, <2>3
      <3>2. handled' = [handled EXCEPT ![Now1] = 1]
        BY <2>3, <3>1
      <3> QED BY <2>1, <3>1, <3>2
    <2> QED BY <1>1, <2>2, <2>3
  <1>5. DeskType'
    BY <1>1, <1>2, <1>4 DEF DeskType, Places
  <1>6. BatchOK'
    <2>1. \A i \in 1..Len(desk'.batch) : desk'.batch[i] = delivered' - Len(desk'.batch) + i
      BY <1>1, <1>2 DEF BatchOK, DeskType
    <2>2. ASSUME NEW p \in 1..MaxPackets, p > delivered' - Len(desk'.batch) PROVE handled'[p] = 0
      <3>1. p > Now1 /\ p > delivered - Len(desk.batch) + Busy
        BY <1>1, <1>2, <2>2 DEF Busy, DeskType
      <3> QED BY <1>4, <3>1 DEF BatchOK
    <2> QED BY <1>1, <1>2, <2>1, <2>2 DEF BatchOK, DeskType
  <1>7. LateOK'
    <2>1. /\ late \in Nat /\ late' = late /\ halted' = halted /\ LateOK
          /\ desk.pc \notin {"read", "check"} /\ desk'.pc # "read" /\ Busy \in {0, 1} /\ Busy' = 0
      BY <1>1, <1>2 DEF DeskType, Busy
    <2>2. Len(desk'.batch) = Len(desk.batch) - 1 /\ Len(desk.batch) \in Nat
      BY <1>2
    <2>3. BatchSize \in Nat
      BY Bounds
    <2> QED BY ONLY <2>1, <2>2, <2>3 DEF LateOK
  <1> QED BY <1>5, <1>6, <1>7

(* A packet handed to Atlas, and its registration. *)
LEMMA ActDeskInv ==
  ASSUME DeskInv, Execute \/ Register
  PROVE  DeskInv'
  <1> USE Bounds DEF DeskInv
  <1>1. ASSUME Execute PROVE DeskInv'
    <2>1. /\ desk.pc = "packet" /\ desk' = [desk EXCEPT !.pc = "register"]
          /\ handled' = [handled EXCEPT ![Now1] = @ + 1]
          /\ late' = late + (IF halted THEN 1 ELSE 0)
          /\ UNCHANGED <<inbox, now, delivered, halted>>
      BY <1>1 DEF Execute
    <2>2. desk.batch \in Seq(Nat) /\ Len(desk.batch) \in Nat \ {0}
      BY <2>1 DEF DeskType, BatchOK
    <2>3. Now1 = delivered - Len(desk.batch) + 1 /\ Now1 \in 1..MaxPackets
      BY <2>2 DEF Now1, BatchOK, DeskType
    <2>4. desk'.pc = "register" /\ desk'.batch = desk.batch /\ Busy' = 1 /\ Busy = 0
      BY <2>1 DEF Busy, DeskType
    <2>5. handled[Now1] = 0
      BY <2>2, <2>3, <2>4 DEF BatchOK, DeskType
    <2>6. DeskType'
      <3>1. handled' = [handled EXCEPT ![Now1] = 1] /\ handled \in [1..MaxPackets -> {0, 1}]
        BY <2>1, <2>3, <2>5 DEF DeskType
      <3>2. handled' \in [1..MaxPackets -> {0, 1}]
        BY <2>3, <3>1
      <3>3. desk' \in [pc : Places, batch : Seq(Nat), executed : BOOLEAN]
        BY <2>1 DEF DeskType, Places
      <3> QED BY <2>1, <3>2, <3>3 DEF DeskType
    <2>7. BatchOK'
      BY <2>1, <2>2, <2>3, <2>4 DEF BatchOK, DeskType
    <2>8. LateOK'
      BY <2>1, <2>2, <2>4 DEF LateOK, DeskType
    <2> QED BY <2>6, <2>7, <2>8
  <1>2. ASSUME Register PROVE DeskInv'
    <2>1. /\ desk.pc = "register" /\ desk' = [desk EXCEPT !.pc = "ack"]
          /\ UNCHANGED <<inbox, now, delivered, halted, handled, late>>
      BY <1>2 DEF Register
    <2>2. desk'.pc = "ack" /\ desk'.batch = desk.batch /\ Busy' = Busy
      BY <2>1 DEF Busy, DeskType
    <2>3. DeskType'
      BY <2>1 DEF DeskType, Places
    <2> QED BY <2>1, <2>2, <2>3 DEF BatchOK, LateOK
  <1> QED BY <1>1, <1>2

(* A restart forgets the batch; the group remembers what it delivered. *)
LEMMA RestartDeskInv == ASSUME DeskInv, Restart PROVE DeskInv'
  <1> USE Bounds DEF DeskInv
  <1>1. /\ desk' = AtCheck
        /\ UNCHANGED <<inbox, now, delivered, halted, handled, late>>
    BY DEF Restart
  <1>2. desk'.pc = "check" /\ desk'.batch = <<>> /\ Len(desk'.batch) = 0 /\ Busy' = 0
    BY <1>1 DEF AtCheck, Busy
  <1>3. DeskType'
    BY <1>1 DEF DeskType, AtCheck, Places
  <1>4. \A p \in 1..MaxPackets : p > delivered => handled[p] = 0
    BY DEF BatchOK, Busy, DeskType
  <1>5. BatchOK'
    BY <1>1, <1>2, <1>4 DEF BatchOK, DeskType
  <1> QED BY <1>1, <1>2, <1>3, <1>5 DEF LateOK, DeskType

(* No step of the system disturbs the desk's invariant. *)
LEMMA NextDeskInv == ASSUME DeskInv, [DesksNext]_desksVars PROVE DeskInv'
  <1>1. ASSUME UNCHANGED deskVars PROVE DeskInv'
    BY <1>1 DEF deskVars, DeskInv, DeskType, BatchOK, LateOK, Busy
  <1>2. CASE UNCHANGED desksVars
    BY <1>1, <1>2 DEF desksVars
  <1>3. CASE DesksNext
    BY <1>1, <1>3, OutsideDeskInv, ReadDeskInv, DoneDeskInv, ActDeskInv, RestartDeskInv
    DEF DesksNext, ByCycle, ByLearning
  <1> QED BY <1>2, <1>3

THEOREM DeskInvHolds == Spec => []DeskInv
  <1>1. DesksInit => DeskInv
    BY InitDeskInv DEF DesksInit
  <1> QED BY <1>1, NextDeskInv, PTL DEF Spec

(* No packet is acted on twice (trade_desk.py:97 reads with ">", and never
   claims what was left pending), for any number of packets and restarts. *)
THEOREM OncePerPacket == Spec => []ProcessedOnce
  <1>1. ASSUME DeskInv PROVE ProcessedOnce
    <2>1. handled \in [1..MaxPackets -> {0, 1}]
      BY <1>1 DEF DeskInv, DeskType
    <2>2. \A p \in DOMAIN handled : handled[p] \in {0, 1}
      BY ONLY <2>1
    <2> QED BY ONLY <2>2 DEF ProcessedOnce
  <1> QED BY <1>1, DeskInvHolds, PTL

(* The kill switch bounds what Desk 2 still executes by one batch, for every
   batch size. *)
THEOREM HaltWithinBatch == Spec => []KillBoundsDesk
  <1>1. DeskInv => KillBoundsDesk
    BY DEF DeskInv, LateOK, KillBoundsDesk
  <1> QED BY <1>1, DeskInvHolds, PTL
(* --------------------------------- cycles ------------------------------- *)
Steps == {"start", "beat", "analyze", "episode", "rest", "leave", "ended"}
Spot == [node : Agents \cup {"none", "end"}, step : Steps, failed : BOOLEAN, xrp : BOOLEAN]
CycleType ==
    /\ at \in [Cycles -> Spot]
    /\ DOMAIN state = Cycles
    /\ DOMAIN called = Cycles
    /\ DOMAIN traded = Cycles

Past(c, nodes) == at[c].node \in nodes \cup {"end"}

(* What Diana approved stays approved only behind her, where no signal is
   added any more, and with the decision the signals call for. *)
ApprovedOK(c) ==
    state[c].approved =>
        /\ Past(c, {"diana", "constructor", "atlas"})
        /\ "diana" \in called[c]
        /\ Approves(state[c].signals)
        /\ state[c].decision = Decision(state[c].signals)

(* Only the constructor sizes, and not in shadow mode. *)
SizedOK(c) ==
    state[c].sized => "constructor" \in called[c] /\ ~shadow

(* Only Atlas trades, behind which the signals stand still. *)
TradedOK(c) ==
    traded[c] # "none" =>
        /\ Past(c, {"atlas"})
        /\ state[c].sized
        /\ Approves(state[c].signals)
        /\ Decision(state[c].signals) = traded[c]
        /\ {"diana", "constructor"} \subseteq called[c]

(* An agent is called before it analyses, and a cycle starts once. *)
PlaceOK(c) ==
    /\ at[c].step = "analyze" => at[c].node \in called[c]
    /\ at[c].step = "start" => at[c].node = "none"
    /\ at[c].step \notin {"start", "ended"} => at[c].node \in Agents

CycleOK(c) == ApprovedOK(c) /\ SizedOK(c) /\ TradedOK(c) /\ PlaceOK(c)
CycleInv == CycleType /\ \A c \in Cycles : CycleOK(c)

LEMMA InitCycleInv == ASSUME CycleInit PROVE CycleInv
  <1> DEFINE spot == [node |-> "none", step |-> "start", failed |-> FALSE, xrp |-> FALSE]
  <1>1. CycleType
    <2>1. spot \in Spot
      BY DEF Spot, Steps
    <2>2. at = [c \in Cycles |-> spot]
      BY DEF CycleInit
    <2> HIDE DEF spot
    <2>3. at \in [Cycles -> Spot]
      BY <2>1, <2>2
    <2> QED BY <2>3 DEF CycleInit, CycleType
  <1>2. ASSUME NEW c \in Cycles PROVE CycleOK(c)
    BY DEF CycleInit, CycleOK, ApprovedOK, SizedOK, TradedOK, PlaceOK, Fresh
  <1> QED BY <1>1, <1>2 DEF CycleInv

(* The route, node by node. *)
LEMMA RouteNodes ==
    /\ DOMAIN Route = 1..8
    /\ Agents = {"marcus", "vera", "rex", "xrp_analyst", "polymarket_scout",
                 "diana", "constructor", "atlas"}
  <1>1. DOMAIN Route = 1..8
    BY DEF Route
  <1>2. Agents = {Route[i] : i \in 1..8}
    BY <1>1 DEF Agents, ToSet
  <1>3. {Route[i] : i \in 1..8} = {Route[1], Route[2], Route[3], Route[4], Route[5],
                                  Route[6], Route[7], Route[8]}
    OBVIOUS
  <1> QED BY <1>1, <1>2, <1>3 DEF Route

(* The graph never leads back: behind Diana come the constructor, Atlas and
   the end, in this order. *)
LEMMA NextNode ==
  ASSUME NEW c, NEW node \in Agents
  PROVE  /\ After(c, node) \in Agents \cup {"end"}
         /\ node = "diana" => After(c, node) \in {"constructor", "end"}
         /\ node = "constructor" => After(c, node) \in {"atlas", "end"}
         /\ node = "atlas" => After(c, node) = "end"
  <1> DEFINE i == CHOOSE k \in DOMAIN Route : Route[k] = node
  <1>1. \E k \in DOMAIN Route : Route[k] = node
    BY DEF Agents, ToSet
  <1>2. i \in 1..8 /\ Route[i] = node
    BY <1>1, RouteNodes
  <1> HIDE DEF i
  <1>3. After(c, node) \in {"end", "polymarket_scout", Route[i + 1]}
        /\ (node = "atlas" => After(c, node) = "end")
        /\ (node # "rex" => After(c, node) \in {"end", Route[i + 1]})
    BY DEF After, i
  <1>4. node = "diana" => i = 6
    BY <1>2 DEF Route
  <1>5. node = "constructor" => i = 7
    BY <1>2 DEF Route
  <1>6. Route[7] = "constructor" /\ Route[8] = "atlas"
    BY DEF Route
  <1>7. node # "atlas" => i + 1 \in 1..8
    BY <1>2, <1>6
  <1>8. node # "atlas" => Route[i + 1] \in Agents
    BY <1>7, RouteNodes DEF Agents, ToSet
  <1> QED BY <1>3, <1>4, <1>5, <1>6, <1>8, RouteNodes
(* One lemma per step.  A step of a cycle moves that cycle only. *)
LEMMA StartInv == ASSUME CycleInv, NEW c \in Cycles, Start(c) PROVE CycleInv'
  <1>1. PICK xrp \in BOOLEAN :
           at' = [at EXCEPT ![c] = [node |-> "marcus", step |-> "beat", failed |-> FALSE,
                                    xrp |-> xrp]]
    BY DEF Start
  <1>2. at[c].step = "start" /\ UNCHANGED <<switches, state, called, traded>>
    BY DEF Start
  <1>3. CycleType'
    <2> DEFINE spot == [node |-> "marcus", step |-> "beat", failed |-> FALSE, xrp |-> xrp]
    <2>1. spot \in Spot
      BY RouteNodes DEF Spot, Steps
    <2>2. at' = [at EXCEPT ![c] = spot]
      BY <1>1
    <2> HIDE DEF spot
    <2> QED BY <1>2, <2>1, <2>2 DEF CycleInv, CycleType
  <1>4. at[c].node = "none" /\ ~state[c].approved /\ traded[c] = "none"
    BY <1>2 DEF CycleInv, CycleOK, ApprovedOK, TradedOK, PlaceOK, Past
  <1>5. ASSUME NEW d \in Cycles PROVE CycleOK(d)'
    <2>1. CASE d = c
      <3>1. at'[c].step = "beat" /\ at'[c].node \in Agents
        BY <1>1, RouteNodes DEF CycleInv, CycleType
      <3>2. CycleOK(c)
        BY DEF CycleInv
      <3> QED BY <1>2, <1>4, <2>1, <3>1, <3>2
              DEF CycleOK, ApprovedOK, SizedOK, TradedOK, PlaceOK, switches
    <2>2. CASE d # c
      <3>1. at'[d] = at[d] /\ CycleOK(d)
        BY <1>1, <2>2 DEF CycleInv, CycleType
      <3> QED BY <1>2, <3>1
              DEF CycleOK, ApprovedOK, SizedOK, TradedOK, PlaceOK, Past, switches
    <2> QED BY <2>1, <2>2
  <1> QED BY <1>3, <1>5 DEF CycleInv

(* The other steps, but for the analyses and Leave, keep the node, the state
   and the trade, and take no agent off what was called; so does an analysis
   that raises before it trades. *)
LEMMA WrapperInv ==
  ASSUME CycleInv, NEW c \in Cycles,
         \/ HeartbeatActive(c) \/ EmitEpisode(c) \/ HeartbeatIdle(c)
         \/ AnalyseRaises(c) /\ UNCHANGED traded
  PROVE  CycleInv'
  <1> DEFINE q == at'[c]
  <1>1. /\ UNCHANGED <<switches, state, traded>>
        /\ called' = called \/ called' = [called EXCEPT ![c] = @ \cup {at[c].node}]
    BY DEF HeartbeatActive, EmitEpisode, HeartbeatIdle, AnalyseRaises, Analyzed
  <1>2. PICK s \in {"analyze", "episode", "rest", "leave"}, f \in BOOLEAN :
           /\ at' = [at EXCEPT ![c].step = s, ![c].failed = f]
           /\ s = "analyze" => called' = [called EXCEPT ![c] = @ \cup {at[c].node}]
           /\ at[c].step \in {"beat", "analyze", "episode", "rest"}
    <2>1. at[c].failed \in BOOLEAN /\ at[c] \in Spot
      BY DEF CycleInv, CycleType, Spot
    <2>2. ASSUME NEW s, Step(c, s)
          PROVE  at' = [at EXCEPT ![c].step = s, ![c].failed = at[c].failed]
      BY <2>1, <2>2 DEF Step, CycleInv, CycleType, Spot
    <2>3. CASE HeartbeatActive(c)
      BY <2>1, <2>2, <2>3 DEF HeartbeatActive, Raise
    <2>4. CASE EmitEpisode(c)
      BY <2>1, <2>2, <2>4 DEF EmitEpisode
    <2>5. CASE HeartbeatIdle(c)
      BY <2>1, <2>2, <2>5 DEF HeartbeatIdle, Raise
    <2>6. CASE AnalyseRaises(c) /\ UNCHANGED traded
      BY <2>6 DEF AnalyseRaises, Raise, Analyzing
    <2> QED BY <2>3, <2>4, <2>5, <2>6
  <1>3. CycleType'
    <2>1. at \in [Cycles -> Spot] /\ s \in Steps
      BY DEF CycleInv, CycleType, Steps
    <2>2. [at[c] EXCEPT !.step = s, !.failed = f] \in Spot
      <3>1. at[c] \in Spot
        BY <2>1
      <3> QED BY ONLY <2>1, <3>1 DEF Spot
    <2>3. at' = [at EXCEPT ![c] = [at[c] EXCEPT !.step = s, !.failed = f]]
      BY <1>2, <2>1
    <2>4. at' \in [Cycles -> Spot]
      BY ONLY <2>1, <2>2, <2>3
    <2> QED BY <1>1, <2>4 DEF CycleInv, CycleType
  <1>4. ASSUME NEW d \in Cycles PROVE CycleOK(d)'
    <2>1. /\ at'[d].node = at[d].node /\ called[d] \subseteq called'[d]
          /\ CycleOK(d)
          /\ state'[d] = state[d] /\ traded'[d] = traded[d] /\ shadow' = shadow
      BY <1>1, <1>2 DEF CycleInv, CycleType, switches
    <2>2. PlaceOK(d)'
      <3>1. CASE d = c
        <4>1. at'[c].step = s /\ at[c].node \in Agents
          BY <1>2, <2>1, <3>1 DEF CycleInv, CycleType, CycleOK, PlaceOK
        <4>2. s = "analyze" => at[c].node \in called'[c]
          BY <1>2 DEF CycleInv, CycleType
        <4> QED BY <1>2, <2>1, <3>1, <4>1, <4>2 DEF PlaceOK
      <3>2. CASE d # c
        BY <1>1, <1>2, <2>1, <3>2 DEF CycleInv, CycleType, CycleOK, PlaceOK
      <3> QED BY <3>1, <3>2
    <2> QED BY <2>1, <2>2 DEF CycleOK, ApprovedOK, SizedOK, TradedOK, Past
  <1> QED BY <1>3, <1>4 DEF CycleInv

(* A cycle that goes on to the next node. *)
LEMMA LeaveInv == ASSUME CycleInv, NEW c \in Cycles, Leave(c) PROVE CycleInv'
  <1> DEFINE next == IF at[c].failed THEN "end" ELSE After(c, at[c].node)
             s == IF next = "end" THEN "ended" ELSE "beat"
  <1>1. /\ at' = [at EXCEPT ![c].node = next, ![c].step = s]
        /\ at[c].step = "leave"
        /\ UNCHANGED <<switches, state, called, traded>>
    BY DEF Leave
  <1>2. at[c].node \in Agents
    BY <1>1 DEF CycleInv, CycleOK, PlaceOK
  <1>3. /\ next \in Agents \cup {"end"}
        /\ at[c].node = "diana" => next \in {"constructor", "end"}
        /\ at[c].node = "constructor" => next \in {"atlas", "end"}
        /\ at[c].node = "atlas" => next = "end"
    BY <1>2, NextNode
  <1>4. s \in {"ended", "beat"} /\ (s = "beat" => next \in Agents)
    BY <1>3
  <1> HIDE DEF next, s
  <1>5. CycleType'
    <2>1. at \in [Cycles -> Spot] /\ s \in Steps
      BY <1>4 DEF CycleInv, CycleType, Steps
    <2>2. at' \in [Cycles -> Spot]
      BY <1>1, <1>3, <2>1 DEF Spot
    <2> QED BY <1>1, <2>2 DEF CycleInv, CycleType
  <1>6. ASSUME NEW d \in Cycles PROVE CycleOK(d)'
    <2>1. /\ CycleOK(d)
          /\ state'[d] = state[d] /\ traded'[d] = traded[d] /\ called'[d] = called[d]
          /\ shadow' = shadow
      BY <1>1 DEF CycleInv, switches
    <2>2. CASE d = c
      <3>1. at'[c].node = next /\ at'[c].step = s
        BY <1>1 DEF CycleInv, CycleType
      <3>2. PlaceOK(d)'
        BY <1>4, <2>2, <3>1 DEF PlaceOK
      <3>3. Past(c, {"diana", "constructor", "atlas"}) =>
               Past(c, {"diana", "constructor", "atlas"})'
        BY <1>3, <1>2, <3>1, RouteNodes DEF Past
      <3>4. Past(c, {"atlas"}) => Past(c, {"atlas"})'
        BY <1>3, <1>2, <3>1, RouteNodes DEF Past
      <3> QED BY <2>1, <2>2, <3>2, <3>3, <3>4 DEF CycleOK, ApprovedOK, SizedOK, TradedOK
    <2>3. CASE d # c
      <3>1. at'[d] = at[d]
        BY <1>1, <2>3 DEF CycleInv, CycleType
      <3> QED BY <2>1, <3>1
              DEF CycleOK, ApprovedOK, SizedOK, TradedOK, PlaceOK, Past
    <2> QED BY <2>2, <2>3
  <1> QED BY <1>5, <1>6 DEF CycleInv

(* The analyses keep the node, and what was called, and change what belongs to
   their own cycle. *)
LEMMA AnalysisFrame ==
  ASSUME CycleInv, NEW c \in Cycles, NEW opinions, NEW agents \in SUBSET Agents,
         Analyzing(c, agents), Step(c, "episode") \/ Raise(c, "episode"), Analyzed
  PROVE  /\ at' \in [Cycles -> Spot]
         /\ \A d \in Cycles : at'[d].node = at[d].node /\ called'[d] = called[d]
                             /\ PlaceOK(d)'
         /\ DOMAIN called' = Cycles
         /\ shadow' = shadow
         /\ at[c].node \in agents /\ at[c].node \in called[c]
  <1>1. /\ \/ at' = [at EXCEPT ![c].step = "episode"]
           \/ at' = [at EXCEPT ![c].step = "episode", ![c].failed = TRUE]
        /\ at[c].step = "analyze"
        /\ at \in [Cycles -> Spot] /\ at[c].node \in agents
        /\ called' = called /\ shadow' = shadow /\ DOMAIN called = Cycles
    BY DEF Analyzing, Analyzed, Step, Raise, CycleInv, CycleType, switches
  <1>2. at' \in [Cycles -> Spot]
    BY <1>1 DEF Spot, Steps
  <1>3. ASSUME NEW d \in Cycles
        PROVE  at'[d].node = at[d].node /\ PlaceOK(d)'
    <2>1. PlaceOK(d)
      BY DEF CycleInv, CycleOK
    <2> QED BY <1>1, <2>1 DEF PlaceOK, Spot
  <1>4. at[c].node \in called[c]
    BY <1>1 DEF CycleInv, CycleOK, PlaceOK
  <1> QED BY <1>1, <1>2, <1>3, <1>4

(* An analyst's signal comes before Diana, when nothing is approved or traded. *)
LEMMA AnalyseInv ==
  ASSUME CycleInv, NEW c \in Cycles, NEW opinions, Analyse(c, opinions) PROVE CycleInv'
  <1>1. PICK new : /\ Analyzing(c, Analysts) /\ Step(c, "episode") /\ Analyzed
                   /\ state' = [state EXCEPT ![c].signals = @ \o new]
                   /\ UNCHANGED traded
    BY DEF Analyse
  <1>2. /\ at' \in [Cycles -> Spot]
        /\ \A d \in Cycles : at'[d].node = at[d].node /\ called'[d] = called[d]
                            /\ PlaceOK(d)'
        /\ DOMAIN called' = Cycles
        /\ shadow' = shadow
        /\ at[c].node \in Analysts /\ at[c].node \in called[c]
    BY <1>1, AnalysisFrame DEF Analysts
  <1>3. CycleType'
    BY <1>1, <1>2 DEF CycleInv, CycleType
  <1>4. ~state[c].approved /\ traded[c] = "none"
    <2>1. at[c].node \notin {"diana", "constructor", "atlas", "end"}
      BY <1>2, RouteNodes DEF Analysts
    <2> QED BY <2>1 DEF CycleInv, CycleOK, ApprovedOK, TradedOK, Past
  <1>5. /\ state'[c].approved = state[c].approved /\ state'[c].sized = state[c].sized
        /\ \A d \in Cycles \ {c} : state'[d] = state[d]
    BY <1>1 DEF CycleInv, CycleType
  <1>6. ASSUME NEW d \in Cycles PROVE CycleOK(d)'
    <2>1. CycleOK(d)
      BY DEF CycleInv
    <2>2. CASE d = c
      BY <1>1, <1>2, <1>4, <1>5, <2>1, <2>2 DEF CycleOK, ApprovedOK, SizedOK, TradedOK
    <2>3. CASE d # c
      BY <1>1, <1>2, <1>5, <2>1, <2>3 DEF CycleOK, ApprovedOK, SizedOK, TradedOK, Past
    <2> QED BY <2>2, <2>3
  <1> QED BY <1>3, <1>6 DEF CycleInv
(* Diana's verdict is what approval stands for. *)
LEMMA DianaInv == ASSUME CycleInv, NEW c \in Cycles, Diana(c) PROVE CycleInv'
  <1> DEFINE sig == state[c].signals
  <1>1. /\ Analyzing(c, {"diana"}) /\ Step(c, "episode") /\ Analyzed
        /\ state' = [state EXCEPT ![c].approved = Approves(sig),
                                  ![c].decision = IF Approves(sig) THEN Decision(sig)
                                                  ELSE "none"]
        /\ UNCHANGED traded
    BY DEF Diana
  <1>2. /\ at' \in [Cycles -> Spot]
        /\ \A d \in Cycles : at'[d].node = at[d].node /\ called'[d] = called[d]
                            /\ PlaceOK(d)'
        /\ DOMAIN called' = Cycles
        /\ shadow' = shadow
        /\ at[c].node = "diana" /\ "diana" \in called[c]
    <2>1. {"diana"} \in SUBSET Agents
      BY RouteNodes
    <2> QED BY <1>1, <2>1, AnalysisFrame
  <1>3. CycleType'
    BY <1>1, <1>2 DEF CycleInv, CycleType
  <1>4. traded[c] = "none"
    BY <1>2 DEF CycleInv, CycleOK, TradedOK, Past
  <1>5. /\ state'[c] = [state[c] EXCEPT !.approved = Approves(sig),
                                        !.decision = IF Approves(sig) THEN Decision(sig)
                                                     ELSE "none"]
        /\ \A d \in Cycles \ {c} : state'[d] = state[d]
    BY <1>1 DEF CycleInv, CycleType
  <1>6. ASSUME NEW d \in Cycles PROVE CycleOK(d)'
    <2>1. CycleOK(d)
      BY DEF CycleInv
    <2>2. CASE d = c
      <3>1. ApprovedOK(c)'
        BY <1>2, <1>5 DEF ApprovedOK, Past
      <3>2. SizedOK(c)'
        BY <1>2, <1>5, <2>1, <2>2 DEF CycleOK, SizedOK
      <3>3. TradedOK(c)'
        BY <1>1, <1>4 DEF TradedOK
      <3> QED BY <1>2, <2>2, <3>1, <3>2, <3>3 DEF CycleOK
    <2>3. CASE d # c
      BY <1>1, <1>2, <1>5, <2>1, <2>3 DEF CycleOK, ApprovedOK, SizedOK, TradedOK, Past
    <2> QED BY <2>2, <2>3
  <1> QED BY <1>3, <1>6 DEF CycleInv

(* The constructor sizes or vetoes what is approved, and in shadow nothing. *)
LEMMA ConstructInv == ASSUME CycleInv, NEW c \in Cycles, Construct(c) PROVE CycleInv'
  <1>1. PICK sized \in BOOLEAN :
        /\ Analyzing(c, {"constructor"}) /\ Step(c, "episode") /\ Analyzed
        /\ state' = IF ~state[c].approved \/ shadow THEN state
                    ELSE [state EXCEPT ![c].sized = sized, ![c].approved = sized,
                                       ![c].decision = IF sized THEN @ ELSE "none"]
        /\ UNCHANGED traded
    BY DEF Construct
  <1>2. /\ at' \in [Cycles -> Spot]
        /\ \A d \in Cycles : at'[d].node = at[d].node /\ called'[d] = called[d]
                            /\ PlaceOK(d)'
        /\ DOMAIN called' = Cycles
        /\ shadow' = shadow
        /\ at[c].node = "constructor" /\ "constructor" \in called[c]
    <2>1. {"constructor"} \in SUBSET Agents
      BY RouteNodes
    <2> QED BY <1>1, <2>1, AnalysisFrame
  <1>3. CycleType'
    BY <1>1, <1>2 DEF CycleInv, CycleType
  <1>4. traded[c] = "none"
    BY <1>2 DEF CycleInv, CycleOK, TradedOK, Past
  <1>5. /\ \/ state'[c] = state[c]
           \/ /\ state[c].approved /\ ~shadow
              /\ state'[c] = [state[c] EXCEPT !.sized = sized, !.approved = sized,
                                              !.decision = IF sized THEN @ ELSE "none"]
        /\ \A d \in Cycles \ {c} : state'[d] = state[d]
    BY <1>1 DEF CycleInv, CycleType
  <1>6. ASSUME NEW d \in Cycles PROVE CycleOK(d)'
    <2>1. CycleOK(d)
      BY DEF CycleInv
    <2>2. CASE d = c
      <3>1. ApprovedOK(c)'
        <4>1. CASE state'[c] = state[c]
          BY <1>2, <2>1, <2>2, <4>1 DEF CycleOK, ApprovedOK, Past
        <4>2. CASE state[c].approved /\ sized /\
                   state'[c] = [state[c] EXCEPT !.sized = sized, !.approved = sized,
                                                !.decision = @]
          <5>1. /\ state'[c].signals = state[c].signals
                /\ state'[c].decision = state[c].decision
            BY <4>2
          <5> QED BY <1>2, <2>1, <2>2, <4>2, <5>1 DEF CycleOK, ApprovedOK, Past
        <4>3. CASE ~sized /\ state'[c] = [state[c] EXCEPT !.sized = sized, !.approved = sized,
                                                         !.decision = "none"]
          BY <4>3 DEF ApprovedOK
        <4> QED BY <1>5, <4>1, <4>2, <4>3
      <3>2. SizedOK(c)'
        BY <1>2, <1>5, <2>1, <2>2 DEF CycleOK, SizedOK
      <3>3. TradedOK(c)'
        BY <1>1, <1>4 DEF TradedOK
      <3> QED BY <1>2, <2>2, <3>1, <3>2, <3>3 DEF CycleOK
    <2>3. CASE d # c
      BY <1>1, <1>2, <1>5, <2>1, <2>3 DEF CycleOK, ApprovedOK, SizedOK, TradedOK, Past
    <2> QED BY <2>2, <2>3
  <1> QED BY <1>3, <1>6 DEF CycleInv

(* Atlas trades what is approved and sized, on the side that was decided, though it
   may raise behind its order. *)
LEMMA AtlasInv ==
  ASSUME CycleInv, NEW c \in Cycles,
         \/ Atlas(c)
         \/ /\ AnalyseRaises(c) /\ at[c].node = "atlas"
            /\ traded' = [traded EXCEPT ![c] = Ordered(c)]
  PROVE  CycleInv'
  <1> DEFINE s == state[c]
             side == Ordered(c)
  <1>1. /\ Analyzing(c, {"atlas"}) /\ (Step(c, "episode") \/ Raise(c, "episode")) /\ Analyzed
        /\ traded' = [traded EXCEPT ![c] = side]
        /\ UNCHANGED state
    BY DEF Atlas, AnalyseRaises, Analyzing
  <1>2. /\ at' \in [Cycles -> Spot]
        /\ \A d \in Cycles : at'[d].node = at[d].node /\ called'[d] = called[d]
                            /\ PlaceOK(d)'
        /\ DOMAIN called' = Cycles
        /\ shadow' = shadow
        /\ at[c].node = "atlas"
    <2>1. {"atlas"} \in SUBSET Agents
      BY RouteNodes
    <2> QED BY <1>1, <2>1, AnalysisFrame
  <1>3. CycleType'
    BY <1>1, <1>2 DEF CycleInv, CycleType
  <1>4. /\ traded'[c] = side
        /\ \A d \in Cycles \ {c} : traded'[d] = traded[d]
    BY <1>1 DEF CycleInv, CycleType
  <1>5. ASSUME NEW d \in Cycles PROVE CycleOK(d)'
    <2>1. CycleOK(d)
      BY DEF CycleInv
    <2>2. ApprovedOK(d)' /\ SizedOK(d)'
      BY <1>1, <1>2, <2>1 DEF CycleOK, ApprovedOK, SizedOK, Past
    <2>3. CASE d = c
      <3>1. side # "none" => s.approved /\ s.sized /\ side = s.decision
        BY DEF Ordered
      <3>2. side # "none" =>
               /\ s.sized /\ Approves(s.signals) /\ Decision(s.signals) = side
               /\ {"diana", "constructor"} \subseteq called[c]
        BY <2>1, <2>3, <3>1 DEF CycleOK, ApprovedOK, SizedOK
      <3> HIDE DEF side
      <3>3. TradedOK(c)'
        <4>1. state'[c] = s
          BY <1>1
        <4> QED BY <1>2, <1>4, <3>2, <4>1 DEF TradedOK, Past
      <3> QED BY <1>2, <2>2, <2>3, <3>3 DEF CycleOK
    <2>4. CASE d # c
      BY <1>1, <1>2, <1>4, <2>1, <2>2, <2>4 DEF CycleOK, TradedOK, Past
    <2> QED BY <2>3, <2>4
  <1> QED BY <1>3, <1>5 DEF CycleInv

LEMMA NextCycleInv == ASSUME CycleInv, [DesksNext]_desksVars PROVE CycleInv'
  <1>1. ASSUME UNCHANGED cycleVars PROVE CycleInv'
    BY <1>1 DEF cycleVars, CycleInv, CycleType, CycleOK, ApprovedOK, SizedOK, TradedOK,
                PlaceOK, Past
  <1>2. CASE UNCHANGED desksVars
    BY <1>1, <1>2 DEF desksVars
  <1>3. ASSUME NEW c \in Cycles, AnalyseRaises(c) PROVE CycleInv'
    BY <1>3, WrapperInv, AtlasInv DEF AnalyseRaises
  <1>4. CASE DesksNext
    BY <1>1, <1>3, <1>4, StartInv, WrapperInv, LeaveInv, AnalyseInv, DianaInv, ConstructInv,
       AtlasInv DEF DesksNext, ByDesk, ByLearning
  <1> QED BY <1>2, <1>4

(* An order that leaves a cycle was approved on the cycle's own signals, is on
   the side they call for, and outside shadow mode was sized (sage.py:61-70,
   atlas.py:113-141), for any number of overlapping cycles, with LangGraph or
   without, and whichever agent raises. *)
THEOREM TradesApproved == Spec => []TradesAreSized
  <1>1. DesksInit => CycleInv
    BY InitCycleInv DEF DesksInit
  <1>2. CycleInv => TradesAreSized
    BY DEF CycleInv, CycleOK, TradedOK, TradesAreSized
  <1> QED BY <1>1, <1>2, NextCycleInv, PTL DEF Spec

(* ------------------------- episodes and heartbeats ---------------------- *)
Index(a) == CHOOSE k \in DOMAIN Route : Route[k] = a

(* The route leads on: what a cycle called lies at or before its node. *)
Behind(c) ==
    /\ at[c].step = "start" => called[c] = {}
    /\ at[c].node \in Agents => \A a \in called[c] : Index(a) <= Index(at[c].node)
    /\ at[c].step = "beat" => at[c].node \notin called[c]
    /\ at[c].step \in {"analyze", "episode", "rest", "leave"} => at[c].node \in called[c]
    /\ at[c].step = "ended" => at[c].node = "end"

(* The episodes of one cycle. *)
EpisodesOK(c) ==
    \A a \in Agents :
        episodes[c][a] = IF /\ a \in called[c]
                            /\ at[c].node = a => at[c].step \in {"rest", "leave", "ended"}
                         THEN 1 ELSE 0

EpisodeInv ==
    /\ faults \in Nat
    /\ called \in [Cycles -> SUBSET Agents]
    /\ episodes \in [Cycles -> [Agents -> Nat]]
    /\ \A c \in Cycles : Behind(c) /\ (faults = 0 /\ ~muted => EpisodesOK(c))

(* Nobody is busy that no cycle is at. *)
ActiveInv ==
    /\ faults \in Nat
    /\ DOMAIN status = Agents
    /\ NoneLeftActive

LEMMA IndexOf ==
    /\ \A i \in 1..8 : Index(Route[i]) = i
    /\ \A a \in Agents : Index(a) \in 1..8 /\ Route[Index(a)] = a
  <1>1. DOMAIN Route = 1..8
    BY RouteNodes
  <1>2. \A i, j \in 1..8 : Route[i] = Route[j] => i = j
    BY DEF Route
  <1>3. ASSUME NEW i \in 1..8 PROVE Index(Route[i]) = i
    <2>1. Index(Route[i]) \in 1..8 /\ Route[Index(Route[i])] = Route[i]
      BY <1>1 DEF Index
    <2> QED BY <1>2, <2>1
  <1>4. ASSUME NEW a \in Agents PROVE Index(a) \in 1..8 /\ Route[Index(a)] = a
    <2>1. PICK i \in 1..8 : Route[i] = a
      BY <1>1 DEF Agents, ToSet
    <2> QED BY <1>3, <2>1
  <1> QED BY <1>3, <1>4

(* Every edge of the graph, taken or not, leads further along the route. *)
LEMMA RouteRises ==
  ASSUME NEW c, NEW node \in Agents, After(c, node) \in Agents
  PROVE  Index(After(c, node)) > Index(node)
  <1> DEFINE i == CHOOSE k \in DOMAIN Route : Route[k] = node
  <1>1. i = Index(node) /\ i \in 1..8 /\ Route[i] = node
    BY IndexOf DEF Index
  <1> HIDE DEF i
  <1>2. "end" \notin Agents
    BY RouteNodes
  <1>3. \/ After(c, node) = Route[i + 1] /\ node # "atlas"
        \/ After(c, node) = "polymarket_scout" /\ node = "rex"
    BY <1>2 DEF After, i
  <1>4. Route[8] = "atlas" /\ Route[5] = "polymarket_scout" /\ Route[3] = "rex"
    BY DEF Route
  <1>5. CASE After(c, node) = Route[i + 1] /\ node # "atlas"
    <2>1. i + 1 \in 1..8
      BY <1>1, <1>4, <1>5
    <2>2. Index(Route[i + 1]) = i + 1
      BY <2>1, IndexOf
    <2> QED BY <1>1, <1>5, <2>2
  <1>6. CASE After(c, node) = "polymarket_scout" /\ node = "rex"
    <2>1. Index("polymarket_scout") = 5 /\ Index("rex") = 3
      BY <1>4, IndexOf
    <2> QED BY <1>6, <2>1
  <1> QED BY <1>3, <1>5, <1>6

LEMMA InitEpisodeInv == ASSUME CycleInit PROVE EpisodeInv /\ ActiveInv
  <1>1. /\ faults = 0 /\ called = [c \in Cycles |-> {}]
        /\ episodes = [c \in Cycles |-> [a \in Agents |-> 0]]
        /\ status = [a \in Agents |-> "idle"]
    BY DEF CycleInit
  <1>2. \A c \in Cycles : at[c].step = "start" /\ at[c].node = "none"
    BY DEF CycleInit
  <1>3. "none" \notin Agents
    BY RouteNodes
  <1>4. \A c \in Cycles : Behind(c) /\ EpisodesOK(c)
    BY <1>1, <1>2, <1>3 DEF Behind, EpisodesOK
  <1>5. EpisodeInv
    BY <1>1, <1>4 DEF EpisodeInv
  <1>6. ActiveInv
    BY <1>1 DEF ActiveInv, NoneLeftActive
  <1> QED BY <1>5, <1>6

(* What a step of cycle c has to respect. *)
LEMMA EpisodeStep ==
  ASSUME EpisodeInv, NEW c \in Cycles, muted' = muted,
         \/ UNCHANGED faults \/ Fault(c),
         \A d \in Cycles \ {c} : at'[d] = at[d],
         \/ UNCHANGED called
         \/ at[c].node \in Agents /\ called' = [called EXCEPT ![c] = @ \cup {at[c].node}],
         \/ UNCHANGED episodes
         \/ /\ at[c].node \in Agents
            /\ episodes' = [episodes EXCEPT ![c][at[c].node] = @ + 1],
         Behind(c)',
         faults' = 0 /\ faults = 0 /\ ~muted => EpisodesOK(c)'
  PROVE  EpisodeInv'
  <1>1. faults \in Nat /\ faults' \in Nat /\ (faults' = 0 => faults = 0)
    BY DEF EpisodeInv, Fault
  <1>2. called' \in [Cycles -> SUBSET Agents] /\ episodes' \in [Cycles -> [Agents -> Nat]]
    <2>1. called \in [Cycles -> SUBSET Agents] /\ episodes \in [Cycles -> [Agents -> Nat]]
      BY DEF EpisodeInv
    <2>2. called' \in [Cycles -> SUBSET Agents]
      BY <2>1
    <2>3. CASE at[c].node \in Agents /\ episodes' = [episodes EXCEPT ![c][at[c].node] = @ + 1]
      <3>1. PICK n \in Agents : n = at[c].node
        BY <2>3
      <3>2. [episodes[c] EXCEPT ![n] = @ + 1] \in [Agents -> Nat]
        BY <2>1
      <3>3. episodes' = [episodes EXCEPT ![c] = [episodes[c] EXCEPT ![n] = @ + 1]]
        BY <2>1, <2>3, <3>1
      <3> QED BY ONLY <2>1, <2>2, <3>2, <3>3
    <2>4. CASE UNCHANGED episodes
      BY <2>1, <2>2, <2>4
    <2> QED BY <2>3, <2>4
  <1>3. \A d \in Cycles \ {c} : called'[d] = called[d] /\ episodes'[d] = episodes[d]
    BY DEF EpisodeInv
  <1>4. ASSUME NEW d \in Cycles PROVE Behind(d)' /\ (faults' = 0 /\ ~muted' => EpisodesOK(d)')
    <2>1. CASE d = c
      BY <1>1, <2>1
    <2>2. CASE d # c
      BY <1>1, <1>3, <2>2 DEF EpisodeInv, Behind, EpisodesOK
    <2> QED BY <2>1, <2>2
  <1> QED BY <1>1, <1>2, <1>4 DEF EpisodeInv

(* A step of the wrapper that stays at the node. *)
LEMMA StayEpisode ==
  ASSUME CycleInv, EpisodeInv, NEW c \in Cycles,
         HeartbeatActive(c) \/ EmitEpisode(c) \/ HeartbeatIdle(c) \/ AnalyseRaises(c)
           \/ (\E opinions : Analyse(c, opinions)) \/ Diana(c) \/ Construct(c) \/ Atlas(c)
  PROVE  EpisodeInv'
  <1> DEFINE n == at[c].node
  <1>1. at[c] \in Spot /\ at \in [Cycles -> Spot] /\ PlaceOK(c)
    BY DEF CycleInv, CycleType, CycleOK
  <1>2. Behind(c) /\ (faults = 0 /\ ~muted => EpisodesOK(c))
    BY DEF EpisodeInv
  <1>3. ASSUME NEW s, Step(c, s) \/ Raise(c, s)
        PROVE  /\ at'[c].node = n /\ at'[c].step = s
               /\ \A d \in Cycles \ {c} : at'[d] = at[d]
    BY <1>1, <1>3 DEF Step, Raise, Spot
  <1>4. CASE HeartbeatActive(c)
    <2>1. /\ at[c].step = "beat" /\ muted' = muted /\ UNCHANGED episodes
          /\ called' = [called EXCEPT ![c] = @ \cup {n}]
          /\ UNCHANGED faults \/ Fault(c)
          /\ Step(c, "analyze") \/ Raise(c, "episode")
      BY <1>4 DEF HeartbeatActive, switches
    <2>2. PICK s \in {"analyze", "episode"} : at'[c].step = s
      BY <1>3, <2>1
    <2>3. at'[c].node = n /\ \A d \in Cycles \ {c} : at'[d] = at[d]
      BY <1>3, <2>1
    <2>4. n \in Agents /\ n \notin called[c] /\ called'[c] = called[c] \cup {n}
      BY <1>1, <1>2, <2>1 DEF PlaceOK, Behind, EpisodeInv
    <2>5. Behind(c)'
      <3>1. Index(n) \in 1..8
        BY <2>4, IndexOf
      <3> QED BY <1>2, <2>2, <2>3, <2>4, <3>1 DEF Behind
    <2>6. ASSUME EpisodesOK(c) PROVE EpisodesOK(c)'
      BY <2>1, <2>2, <2>3, <2>4, <2>6 DEF EpisodesOK
    <2> QED BY <1>2, <2>1, <2>3, <2>4, <2>5, <2>6, EpisodeStep
  <1>5. CASE EmitEpisode(c)
    <2>1. /\ at[c].step = "episode" /\ muted' = muted /\ UNCHANGED called
          /\ \/ /\ episodes' = IF muted THEN episodes ELSE [episodes EXCEPT ![c][n] = @ + 1]
                /\ UNCHANGED faults
             \/ Fault(c) /\ UNCHANGED episodes
          /\ Step(c, "rest")
      BY <1>5 DEF EmitEpisode, switches
    <2>2. /\ at'[c].node = n /\ at'[c].step = "rest"
          /\ \A d \in Cycles \ {c} : at'[d] = at[d]
      BY <1>3, <2>1
    <2>3. n \in Agents /\ n \in called[c]
      BY <1>1, <1>2, <2>1 DEF PlaceOK, Behind
    <2>4. Behind(c)'
      BY <1>2, <2>1, <2>2, <2>3 DEF Behind
    <2>5. ASSUME EpisodesOK(c), ~muted, faults' = 0, faults = 0 PROVE EpisodesOK(c)'
      <3>1. episodes' = [episodes EXCEPT ![c][n] = @ + 1]
        BY <2>1, <2>5 DEF Fault
      <3>2. episodes[c] \in [Agents -> Nat] /\ episodes \in [Cycles -> [Agents -> Nat]]
        BY DEF EpisodeInv
      <3>3. /\ \A a \in Agents \ {n} : episodes'[c][a] = episodes[c][a]
            /\ episodes'[c][n] = episodes[c][n] + 1
        BY <2>3, <3>1, <3>2
      <3>4. episodes[c][n] = 0
        BY <2>1, <2>3, <2>5 DEF EpisodesOK
      <3> QED BY <2>1, <2>2, <2>3, <2>5, <3>3, <3>4 DEF EpisodesOK
    <2> QED BY <1>2, <2>1, <2>2, <2>3, <2>4, <2>5, EpisodeStep
  <1>6. CASE HeartbeatIdle(c)
    <2>1. /\ at[c].step = "rest" /\ muted' = muted /\ UNCHANGED <<called, episodes>>
          /\ UNCHANGED faults \/ Fault(c)
          /\ Step(c, "leave") \/ Raise(c, "leave")
      BY <1>6 DEF HeartbeatIdle, switches
    <2>2. /\ at'[c].node = n /\ at'[c].step = "leave"
          /\ \A d \in Cycles \ {c} : at'[d] = at[d]
      BY <1>3, <2>1
    <2>3. Behind(c)'
      BY <1>2, <2>1, <2>2 DEF Behind
    <2>4. ASSUME EpisodesOK(c) PROVE EpisodesOK(c)'
      BY <2>1, <2>2, <2>4 DEF EpisodesOK
    <2> QED BY <1>2, <2>1, <2>2, <2>3, <2>4, EpisodeStep
  <1>7. CASE AnalyseRaises(c) \/ (\E opinions : Analyse(c, opinions)) \/ Diana(c)
             \/ Construct(c) \/ Atlas(c)
    <2>1. /\ at[c].step = "analyze" /\ muted' = muted /\ UNCHANGED <<called, episodes, faults>>
          /\ Step(c, "episode") \/ Raise(c, "episode")
      BY <1>7 DEF AnalyseRaises, Analyse, Diana, Construct, Atlas, Analyzing, Analyzed, switches
    <2>2. /\ at'[c].node = n /\ at'[c].step = "episode"
          /\ \A d \in Cycles \ {c} : at'[d] = at[d]
      BY <1>3, <2>1
    <2>3. Behind(c)'
      BY <1>2, <2>1, <2>2 DEF Behind
    <2>4. ASSUME EpisodesOK(c) PROVE EpisodesOK(c)'
      BY <2>1, <2>2, <2>4 DEF EpisodesOK
    <2> QED BY <1>2, <2>1, <2>2, <2>3, <2>4, EpisodeStep
  <1> QED BY <1>4, <1>5, <1>6, <1>7

(* A cycle that starts, or goes on to a node it has not called yet. *)
LEMMA GoEpisode ==
  ASSUME CycleInv, EpisodeInv, NEW c \in Cycles, Start(c) \/ Leave(c)
  PROVE  EpisodeInv'
  <1>1. at[c] \in Spot /\ at \in [Cycles -> Spot] /\ PlaceOK(c)
    BY DEF CycleInv, CycleType, CycleOK
  <1>2. Behind(c) /\ (faults = 0 /\ ~muted => EpisodesOK(c)) /\ called[c] \subseteq Agents
    BY DEF EpisodeInv
  <1>3. muted' = muted /\ UNCHANGED <<called, episodes, faults>>
    BY DEF Start, Leave, switches
  <1>4. "none" \notin Agents /\ "end" \notin Agents /\ "marcus" \in Agents
    BY RouteNodes
  <1>5. CASE Start(c)
    <2>1. /\ at[c].step = "start" /\ at'[c].node = "marcus" /\ at'[c].step = "beat"
          /\ \A d \in Cycles \ {c} : at'[d] = at[d]
      BY <1>1, <1>5 DEF Start
    <2>2. called[c] = {}
      BY <1>2, <2>1 DEF Behind
    <2>3. Behind(c)'
      BY <1>3, <1>4, <2>1, <2>2 DEF Behind
    <2>4. ASSUME EpisodesOK(c) PROVE EpisodesOK(c)'
      BY <1>3, <2>2, <2>4 DEF EpisodesOK
    <2> QED BY <1>2, <1>3, <2>1, <2>3, <2>4, EpisodeStep
  <1>6. CASE Leave(c)
    <2> DEFINE next == IF at[c].failed THEN "end" ELSE After(c, at[c].node)
    <2>1. /\ at[c].step = "leave" /\ at'[c].node = next
          /\ at'[c].step = IF next = "end" THEN "ended" ELSE "beat"
          /\ \A d \in Cycles \ {c} : at'[d] = at[d]
      BY <1>1, <1>6 DEF Leave, Spot
    <2>2. at[c].node \in Agents /\ at[c].node \in called[c]
      BY <1>1, <1>2, <2>1 DEF PlaceOK, Behind
    <2>3. next \in Agents \cup {"end"} /\ (next \in Agents => Index(next) > Index(at[c].node))
      BY <1>4, <2>2, NextNode, RouteRises
    <2> HIDE DEF next
    <2>4. \A a \in Agents : Index(a) \in Nat
      BY IndexOf
    <2>5. next \notin called[c] /\ (next \in Agents =>
             \A a \in called[c] : Index(a) <= Index(next))
      BY <1>2, <1>4, <2>2, <2>3, <2>4 DEF Behind
    <2>6. Behind(c)'
      BY <1>3, <1>4, <2>1, <2>3, <2>5 DEF Behind
    <2>7. ASSUME EpisodesOK(c) PROVE EpisodesOK(c)'
      <3>1. ASSUME NEW a \in Agents
            PROVE  episodes[c][a] = IF /\ a \in called[c]
                                       /\ at'[c].node = a =>
                                            at'[c].step \in {"rest", "leave", "ended"}
                                    THEN 1 ELSE 0
        BY <2>1, <2>2, <2>5, <2>7 DEF EpisodesOK
      <3> QED BY <1>3, <3>1 DEF EpisodesOK
    <2> QED BY <1>2, <1>3, <2>1, <2>6, <2>7, EpisodeStep
  <1> QED BY <1>5, <1>6

LEMMA NextEpisodeInv ==
  ASSUME CycleInv, EpisodeInv, [DesksNext]_desksVars
  PROVE  EpisodeInv'
  <1>1. ASSUME UNCHANGED cycleVars PROVE EpisodeInv'
    BY <1>1 DEF cycleVars, EpisodeInv, Behind, EpisodesOK
  <1>2. CASE UNCHANGED desksVars
    BY <1>1, <1>2 DEF desksVars
  <1>3. CASE DesksNext
    BY <1>1, <1>3, StayEpisode, GoEpisode DEF DesksNext, ByDesk, ByLearning
  <1> QED BY <1>2, <1>3

(* Every agent a cycle calls leaves exactly one episode when the cycle moves on from
   it (base.py:79-117, the finally block of analyze_with_heartbeat), as long as no
   command raises: also those whose analysis raised, on every path through the graph
   and for any number of overlapping cycles. *)
THEOREM OneEpisodeEach == Spec => []OneEpisode
  <1>1. DesksInit => CycleInv /\ EpisodeInv
    BY InitCycleInv, InitEpisodeInv DEF DesksInit
  <1>2. EpisodeInv => OneEpisode
    BY DEF EpisodeInv, OneEpisode, EpisodesOK
  <1> QED BY <1>1, <1>2, NextCycleInv, NextEpisodeInv, PTL DEF Spec

(* What a step of cycle c may do to an agent's status. *)
LEMMA ActiveStep ==
  ASSUME ActiveInv, NEW c \in Cycles, \A d \in Cycles \ {c} : at'[d] = at[d],
         UNCHANGED faults \/ Fault(c),
         \/ Fault(c)
         \/ /\ UNCHANGED status
            /\ at'[c].node = at[c].node /\ at'[c].step \in {"episode", "rest"}
         \/ /\ UNCHANGED status
            /\ at[c].node \notin Agents \/ at[c].step = "leave"
         \/ /\ status' = [status EXCEPT ![at[c].node] = "idle"]
            /\ at'[c].node = at[c].node
         \/ /\ status' = [status EXCEPT ![at[c].node] = "active"]
            /\ at'[c].node = at[c].node /\ at'[c].step = "analyze",
         DOMAIN status' = DOMAIN status
  PROVE  ActiveInv'
  <1>1. faults \in Nat /\ faults' \in Nat /\ (faults' = 0 => faults = 0 /\ ~Fault(c))
    BY DEF ActiveInv, Fault
  <1>2. ASSUME faults' = 0, NEW a \in Agents,
               \A d \in Cycles : at'[d].node # a \/ at'[d].step \in {"beat", "leave", "ended"}
        PROVE  status'[a] = "idle"
    <2>1. CASE at[c].node # a \/ at[c].step \in {"beat", "leave", "ended"}
      <3>1. \A d \in Cycles : at[d].node # a \/ at[d].step \in {"beat", "leave", "ended"}
        BY <1>2, <2>1
      <3>2. status[a] = "idle"
        BY <1>1, <1>2, <3>1 DEF ActiveInv, NoneLeftActive
      <3> QED BY <1>1, <1>2, <3>2 DEF ActiveInv
    <2>2. CASE at[c].node = a /\ at[c].step \notin {"beat", "leave", "ended"}
      <3>1. at'[c].node # a \/ at'[c].step \in {"beat", "leave", "ended"}
        BY <1>2
      <3> QED BY <1>1, <1>2, <2>2, <3>1 DEF ActiveInv
    <2> QED BY <2>1, <2>2
  <1> QED BY <1>1, <1>2 DEF ActiveInv, NoneLeftActive

LEMMA NextActiveInv ==
  ASSUME CycleInv, ActiveInv, [DesksNext]_desksVars
  PROVE  ActiveInv'
  <1>1. ASSUME UNCHANGED cycleVars PROVE ActiveInv'
    BY <1>1 DEF cycleVars, ActiveInv, NoneLeftActive
  <1>2. CASE UNCHANGED desksVars
    BY <1>1, <1>2 DEF desksVars
  <1>3. ASSUME NEW c \in Cycles PROVE
          /\ at[c] \in Spot /\ at \in [Cycles -> Spot]
          /\ at[c].step = "start" => at[c].node \notin Agents
          /\ \A s : Step(c, s) \/ Raise(c, s) =>
                /\ at'[c].node = at[c].node /\ at'[c].step = s
                /\ \A d \in Cycles \ {c} : at'[d] = at[d]
    <2>1. at[c] \in Spot /\ at \in [Cycles -> Spot] /\ PlaceOK(c)
      BY DEF CycleInv, CycleType, CycleOK
    <2>2. "none" \notin Agents
      BY RouteNodes
    <2> QED BY <2>1, <2>2 DEF Step, Raise, Spot, PlaceOK
  <1>4. ASSUME NEW c \in Cycles, Start(c) \/ Leave(c) PROVE ActiveInv'
    <2>1. /\ at[c].step \in {"start", "leave"} /\ UNCHANGED <<faults, status>>
          /\ \A d \in Cycles \ {c} : at'[d] = at[d]
      BY <1>3, <1>4 DEF Start, Leave
    <2> QED BY <1>3, <2>1, ActiveStep
  <1>5. ASSUME NEW c \in Cycles, HeartbeatActive(c) PROVE ActiveInv'
    <2>1. /\ at[c].step = "beat"
          /\ \/ /\ status' = [status EXCEPT ![at[c].node] = "active"]
                /\ Step(c, "analyze") /\ UNCHANGED faults
             \/ Fault(c) /\ Raise(c, "episode") /\ UNCHANGED status
      BY <1>5 DEF HeartbeatActive
    <2> QED BY <1>3, <2>1, ActiveStep
  <1>6. ASSUME NEW c \in Cycles,
               EmitEpisode(c) \/ AnalyseRaises(c) \/ (\E opinions : Analyse(c, opinions))
                 \/ Diana(c) \/ Construct(c) \/ Atlas(c)
        PROVE  ActiveInv'
    <2>1. /\ at[c].step \in {"analyze", "episode"} /\ UNCHANGED status
          /\ UNCHANGED faults \/ Fault(c)
          /\ Step(c, "episode") \/ Raise(c, "episode") \/ Step(c, "rest")
      BY <1>6 DEF EmitEpisode, AnalyseRaises, Analyse, Diana, Construct, Atlas, Analyzing,
                  Analyzed
    <2> QED BY <1>3, <2>1, ActiveStep
  <1>7. ASSUME NEW c \in Cycles, HeartbeatIdle(c) PROVE ActiveInv'
    <2>1. /\ at[c].step = "rest"
          /\ \/ /\ status' = [status EXCEPT ![at[c].node] = "idle"]
                /\ Step(c, "leave") /\ UNCHANGED faults
             \/ Fault(c) /\ Raise(c, "leave") /\ UNCHANGED status
      BY <1>7 DEF HeartbeatIdle
    <2> QED BY <1>3, <2>1, ActiveStep
  <1>8. CASE DesksNext
    BY <1>1, <1>4, <1>5, <1>6, <1>7, <1>8 DEF DesksNext, ByDesk, ByLearning
  <1> QED BY <1>2, <1>8

(* While no command raises, an agent no cycle is analysing with shows idle, however its
   last analysis ended (base.py's two heartbeats around it), for any number of cycles
   over the same agents. *)
THEOREM NobodyLeftActive == Spec => []NoneLeftActive
  <1>1. DesksInit => CycleInv /\ ActiveInv
    BY InitCycleInv, InitEpisodeInv DEF DesksInit
  <1>2. ActiveInv => NoneLeftActive
    BY DEF ActiveInv
  <1> QED BY <1>1, <1>2, NextCycleInv, NextActiveInv, PTL DEF Spec

(* ------------------------------- learning ------------------------------- *)
(* The agent's present weight is among those it has had. *)
WeightInv ==
    /\ DefaultWeight \in weighed /\ BaseWeight \in weighed
    /\ DOMAIN suppressed = {"value", "left"}
    /\ SuppressedOnce

LEMMA NextWeightInv == ASSUME WeightInv, [DesksNext]_desksVars PROVE WeightInv'
  <1>1. ASSUME UNCHANGED <<weight, weighed, suppressed>> PROVE WeightInv'
    BY <1>1 DEF WeightInv, BaseWeight, SuppressedOnce
  <1>2. ASSUME NEW c \in Callers, SetWeight(c) PROVE WeightInv'
    <2>1. /\ weight' = call[c].weight /\ weighed' = weighed \cup {call[c].weight}
          /\ UNCHANGED suppressed
      BY <1>2 DEF SetWeight
    <2>2. DefaultWeight' \in weighed' /\ BaseWeight' \in weighed'
      BY <2>1 DEF WeightInv, BaseWeight, DefaultWeight
    <2>3. SuppressedOnce'
      BY <2>1 DEF WeightInv, SuppressedOnce
    <2> QED BY <2>1, <2>2, <2>3 DEF WeightInv
  <1>3. ASSUME Suppress PROVE WeightInv'
    <2>1. /\ suppressed' = [value |-> (3 * BaseWeight) \div 4, left |-> SuppressFor]
          /\ UNCHANGED <<weight, weighed>>
      BY <1>3 DEF Suppress
    <2>2. SuppressedOnce'
      BY <2>1 DEF WeightInv, SuppressedOnce
    <2> QED BY <2>1, <2>2 DEF WeightInv, BaseWeight
  <1>4. ASSUME SuppressionExpires PROVE WeightInv'
    <2>1. /\ suppressed.left > 0 /\ suppressed' = [suppressed EXCEPT !.left = @ - 1]
          /\ UNCHANGED <<weight, weighed>>
      BY <1>4 DEF SuppressionExpires
    <2>2. suppressed'.value = suppressed.value /\ DOMAIN suppressed' = {"value", "left"}
      BY <2>1 DEF WeightInv
    <2>3. SuppressedOnce'
      BY <2>1, <2>2 DEF WeightInv, SuppressedOnce
    <2> QED BY <2>1, <2>2, <2>3 DEF WeightInv, BaseWeight
  <1>5. CASE UNCHANGED desksVars
    BY <1>1, <1>5 DEF desksVars, learnVars
  <1>6. CASE DesksNext
    <2>1. CASE UNCHANGED learnVars
      BY <1>1, <2>1 DEF learnVars
    <2>2. ASSUME NEW c \in Callers,
                 \/ \E id \in 1..MaxSignals, o \in Outcomes : Report(c, id, o)
                 \/ Mark(c) \/ CountOutcome(c) \/ CountTotal(c) \/ Recalculate(c)
          PROVE  WeightInv'
      BY <1>1, <2>2 DEF Report, Mark, CountOutcome, CountTotal, Recalculate
    <2>3. CASE Calibrate \/ \E r \in Regimes : RecordSignal(r)
      BY <1>1, <2>3 DEF Calibrate, RecordSignal
    <2> QED BY <1>2, <1>3, <1>4, <1>6, <2>1, <2>2, <2>3
            DEF DesksNext, ByCycle, ByDesk
  <1> QED BY <1>5, <1>6

(* However often the chief repeats a suppression, and whatever weights are stored
   meanwhile, it takes a quarter off a weight the agent has had: suppressions do not
   compound (portfolio_chief.py and agent_memory.py's suppress_agent_weight). *)
THEOREM SuppressionsDoNotCompound == Spec => []SuppressedOnce
  <1>1. DesksInit => WeightInv
    BY DEF DesksInit, LearnInit, WeightInv, BaseWeight, SuppressedOnce
  <1>2. WeightInv => SuppressedOnce
    BY DEF WeightInv
  <1> QED BY <1>1, <1>2, NextWeightInv, PTL DEF Spec

(* -------------------------- records and weights ------------------------- *)
Signal == [regime : Regimes, outcome : Outcomes \cup {"PENDING"}, id : Nat]
(* Rates are in thousandths. *)
Rates == 0..1000
Calls == [pc : {"idle", "mark", "count", "total", "weigh", "set"}, signal : Nat,
          outcome : Outcomes, weight : Rates]
Records == {x \in [wins : Nat, total : Nat] : x.wins <= x.total}

LearnType ==
    /\ signals \in Seq(Signal) /\ Len(signals) <= 2 * Window
    /\ dropped \in Nat
    /\ weight \in {-1} \cup Rates
    /\ call \in [Callers -> Calls]
    /\ calibrated \in [total : Nat, byRegime : [Regimes -> Records]]

(* As long as no two reports overlap, one caller at most is at work, and what it is
   about to store is the rate over the window. *)
Resolved == signals # <<>> /\ signals[1].outcome # "PENDING"
SettleInv ==
    ~overlapped =>
        /\ \A c, d \in Callers : call[c].pc # "idle" /\ call[d].pc # "idle" => c = d
        /\ Resolved =>
              /\ (\A c \in Callers : call[c].pc = "idle") => weight = Overall(signals, Window)
              /\ \A c \in Callers : call[c].pc = "set" =>
                                       call[c].weight = Overall(signals, Window)

(* A rate over a set of places is a rate. *)
LEMMA RateRange ==
  ASSUME NEW s, NEW places, IsFiniteSet(places), places # {}
  PROVE  Rate(s, places) \in Rates
  <1>1. WonIn(s, places) \subseteq places
    BY DEF WonIn
  <1>2. /\ Cardinality(WonIn(s, places)) \in Nat /\ Cardinality(places) \in Nat
        /\ Cardinality(WonIn(s, places)) <= Cardinality(places)
        /\ Cardinality(places) # 0
    BY <1>1, FS_Subset, FS_CardinalityType, FS_EmptySet
  <1>3. PICK m \in Nat, n \in Nat \ {0} :
           m = Cardinality(WonIn(s, places)) /\ n = Cardinality(places) /\ m <= n
    BY ONLY <1>2
  <1>4. (1000 * m) \div n \in 0..1000
    <2>1. m \in Nat /\ n \in Nat \ {0} /\ m <= n
      BY ONLY <1>3
    <2> QED BY ONLY <2>1
  <1>5. Rate(s, places) = (1000 * m) \div n
    BY ONLY <1>3 DEF Rate
  <1> QED BY ONLY <1>4, <1>5 DEF Rates

LEMMA PlacesFinite ==
  ASSUME NEW s, Len(s) \in Nat, NEW n \in Nat
  PROVE  IsFiniteSet(DecidedIn(s, Newest(s, n)))
  <1>1. IsFiniteSet(Newest(s, n))
    <2>1. PICK k \in Int : k = IF Len(s) < n THEN Len(s) ELSE n
      OBVIOUS
    <2>2. Newest(s, n) = 1..k
      BY ONLY <2>1 DEF Newest
    <2>3. IsFiniteSet(1..k)
      BY ONLY FS_Interval, 1 \in Int, k \in Int
    <2> QED BY ONLY <2>2, <2>3
  <1>2. DecidedIn(s, Newest(s, n)) \subseteq Newest(s, n)
    BY DEF DecidedIn
  <1> QED BY <1>1, <1>2, FS_Subset

LEMMA OverallRange ==
  ASSUME NEW s, Len(s) \in Nat, NEW n \in Nat
  PROVE  Overall(s, n) \in Rates
  <1>1. PICK resolved : resolved = DecidedIn(s, Newest(s, n))
    OBVIOUS
  <1>2. Overall(s, n) = IF resolved = {} THEN DefaultWeight ELSE Rate(s, resolved)
    BY <1>1 DEF Overall
  <1>3. CASE resolved = {}
    BY <1>2, <1>3 DEF DefaultWeight, Rates
  <1>4. CASE resolved # {}
    <2>1. IsFiniteSet(resolved)
      BY ONLY <1>1, PlacesFinite, Len(s) \in Nat, n \in Nat
    <2>2. Rate(s, resolved) \in Rates
      BY ONLY <1>4, <2>1, RateRange
    <2> QED BY ONLY <1>2, <1>4, <2>2
  <1> QED BY ONLY <1>3, <1>4

(* What Nova would weigh the agent by is a rate, whatever was calibrated. *)
LEMMA AccuracyRange ==
  ASSUME NEW s, Len(s) \in Nat, NEW n \in Nat, NEW r, NEW cached \in Records
  PROVE  Accuracy(s, n, r, cached) \in Rates
  <1>1. Few \in Nat \ {0}
    BY LearningAssumption DEF LearningAssumption
  <1>2. PICK there : there = {i \in DecidedIn(s, Newest(s, 3 * n)) : s[i].regime = r}
    OBVIOUS
  <1>3. PICK resolved : resolved = FirstOf(there, n)
    OBVIOUS
  <1>4. PICK w \in Nat, t \in Nat : w = cached.wins /\ t = cached.total /\ w <= t
    BY DEF Records
  <1>5. Accuracy(s, n, r, cached) =
           IF t >= Few THEN (1000 * w) \div t
           ELSE IF Cardinality(resolved) < Few THEN Overall(s, n) ELSE Rate(s, resolved)
    BY ONLY <1>2, <1>3, <1>4 DEF Accuracy
  <1>6. CASE t >= Few
    <2>1. (1000 * w) \div t \in 0..1000
      <3>1. w \in Nat /\ t \in Nat \ {0} /\ w <= t
        BY ONLY <1>1, <1>4, <1>6
      <3> QED BY ONLY <3>1
    <2> QED BY ONLY <1>5, <1>6, <2>1 DEF Rates
  <1>7. CASE ~(t >= Few) /\ Cardinality(resolved) < Few
    <2>1. Overall(s, n) \in Rates
      BY ONLY OverallRange, Len(s) \in Nat, n \in Nat
    <2> QED BY ONLY <1>5, <1>7, <2>1
  <1>8. CASE ~(t >= Few) /\ ~(Cardinality(resolved) < Few)
    <2>1. IsFiniteSet(resolved)
      <3>1. PICK m \in Nat : m = 3 * n
        OBVIOUS
      <3>2. IsFiniteSet(DecidedIn(s, Newest(s, m)))
        BY ONLY PlacesFinite, Len(s) \in Nat, m \in Nat
      <3>3. resolved \subseteq DecidedIn(s, Newest(s, 3 * n))
        BY ONLY <1>2, <1>3 DEF FirstOf
      <3> QED BY ONLY <3>1, <3>2, <3>3, FS_Subset
    <2>2. resolved # {}
      <3>1. Cardinality(resolved) \in Nat
        BY <2>1, FS_CardinalityType
      <3>2. Cardinality(resolved) # 0
        BY ONLY <1>1, <1>8, <3>1
      <3> QED BY <3>2, FS_EmptySet
    <2>3. Rate(s, resolved) \in Rates
      BY ONLY <2>1, <2>2, RateRange
    <2> QED BY ONLY <1>5, <1>8, <2>3
  <1> QED BY ONLY <1>6, <1>7, <1>8

(* A signal recorded is the newest, and no more than two windows are kept. *)
LEMMA RecordedSignals ==
  ASSUME LearnType, NEW x \in Signal
  PROVE  LET new == Sub(<<x>> \o signals, 2 * Window)
         IN /\ new \in Seq(Signal) /\ Len(new) <= 2 * Window
            /\ Len(new) <= Len(signals) + 1 /\ new[1] = x
  <1> DEFINE all == <<x>> \o signals
             n == IF Len(all) < 2 * Window THEN Len(all) ELSE 2 * Window
             new == SubSeq(all, 1, n)
  <1>1. Window \in Nat \ {0} /\ signals \in Seq(Signal) /\ Len(signals) \in Nat
    BY LearningAssumption DEF LearningAssumption, LearnType
  <1>2. /\ all \in Seq(Signal) /\ Len(all) = Len(signals) + 1 /\ all[1] = x
        /\ \A i \in 1..Len(all) : all[i] \in Signal
    <2>1. <<x>> \in Seq(Signal) /\ Len(<<x>>) = 1 /\ <<x>>[1] = x
      OBVIOUS
    <2>2. all \in Seq(Signal) /\ Len(all) = Len(signals) + 1 /\ all[1] = x
      BY <1>1, <2>1, ConcatProperties
    <2> QED BY <2>2, ElementOfSeq
  <1>3. n \in Nat \ {0} /\ n <= Len(all) /\ n <= 2 * Window
    BY <1>1, <1>2
  <1> HIDE DEF all, n
  <1>4. \A i \in 1..n : all[i] \in Signal
    BY <1>1, <1>2, <1>3
  <1>5. /\ new \in Seq(Signal) /\ Len(new) = n
        /\ \A i \in 1..n : new[i] = all[i]
    <2>1. /\ new \in Seq(Signal) /\ Len(new) = IF 1 <= n THEN n - 1 + 1 ELSE 0
          /\ \A i \in 1..(n - 1 + 1) : new[i] = all[1 + i - 1]
      BY <1>3, <1>4, SubSeqProperties
    <2> QED BY <1>3, <2>1
  <1>6. new = Sub(<<x>> \o signals, 2 * Window)
    BY DEF Sub, all, n
  <1> HIDE DEF new
  <1> QED BY <1>1, <1>2, <1>3, <1>5, <1>6

LEMMA NoCallType == NoCall \in Calls
  <1>1. "WIN" \in Outcomes /\ 0 \in Rates /\ 0 \in Nat
    BY DEF Outcomes, Rates
  <1> QED BY <1>1 DEF NoCall, Calls

LEMMA InitLearnType == ASSUME LearnInit PROVE LearnType /\ SettleInv
  <1>1. NoCall \in Calls /\ NoRecord \in Records
    BY NoCallType DEF NoRecord, Records
  <1>2. Window \in Nat
    BY LearningAssumption DEF LearningAssumption
  <1>3. /\ signals = <<>> /\ dropped = 0 /\ weight = -1 /\ call = [c \in Callers |-> NoCall]
        /\ calibrated = [total |-> 0, byRegime |-> [r \in Regimes |-> NoRecord]]
    BY DEF LearnInit
  <1>4. LearnType
    BY <1>1, <1>2, <1>3 DEF LearnType
  <1>5. SettleInv
    BY <1>3 DEF SettleInv, Resolved, NoCall
  <1> QED BY <1>4, <1>5

LEMMA RecordSignalType ==
  ASSUME LearnType, NEW r \in Regimes, RecordSignal(r)
  PROVE  LearnType' /\ ~Resolved' /\ UNCHANGED <<call, overlapped>>
  <1> DEFINE x == [regime |-> r, outcome |-> "PENDING", id |-> Len(signals) + dropped + 1]
  <1>1. x \in Signal /\ x.outcome = "PENDING"
    BY DEF LearnType, Signal
  <1>2. /\ signals' = Sub(<<x>> \o signals, 2 * Window)
        /\ dropped' = dropped + (Len(signals) + 1 - Len(signals'))
        /\ UNCHANGED <<weight, call, calibrated, overlapped>>
    BY DEF RecordSignal
  <1> HIDE DEF x
  <1>3. /\ signals' \in Seq(Signal) /\ Len(signals') <= 2 * Window
        /\ Len(signals') <= Len(signals) + 1 /\ signals'[1] = x
    BY <1>1, <1>2, RecordedSignals
  <1>4. dropped' \in Nat
    BY <1>2, <1>3 DEF LearnType
  <1> QED BY <1>1, <1>2, <1>3, <1>4 DEF LearnType, Resolved

LEMMA MarkType ==
  ASSUME LearnType, NEW c \in Callers, Mark(c)
  PROVE  LearnType'
  <1>1. call[c] \in Calls /\ call[c].outcome \in Outcomes /\ call \in [Callers -> Calls]
    BY DEF LearnType, Calls
  <1>2. signals \in Seq(Signal) /\ DOMAIN signals = 1..Len(signals) /\ Len(signals) \in Nat
    BY DEF LearnType
  <1>3. \A i \in DOMAIN signals :
           /\ signals[i] \in Signal
           /\ [signals[i] EXCEPT !.outcome = call[c].outcome] \in Signal
    <2>1. \A i \in DOMAIN signals : signals[i] \in Signal
      BY <1>2
    <2> QED BY <1>1, <2>1 DEF Signal
  <1>4. signals' = [i \in 1..Len(signals) |->
                      IF signals[i].id = call[c].signal
                      THEN [signals[i] EXCEPT !.outcome = call[c].outcome] ELSE signals[i]]
    BY <1>2 DEF Mark
  <1>5. signals' \in Seq(Signal) /\ Len(signals') = Len(signals)
    <2>1. \A i \in 1..Len(signals) : signals'[i] \in Signal
      BY <1>2, <1>3, <1>4
    <2>2. signals' \in [1..Len(signals) -> Signal]
      BY <1>4, <2>1
    <2> QED BY ONLY <1>2, <2>2
  <1>6. call' \in [Callers -> Calls]
    <2>1. [call[c] EXCEPT !.pc = "count"] \in Calls
      BY <1>1 DEF Calls
    <2>2. call' = [call EXCEPT ![c] = [call[c] EXCEPT !.pc = "count"]]
      BY <1>1 DEF Mark, Goto
    <2> QED BY ONLY <1>1, <2>1, <2>2
  <1>7. UNCHANGED <<dropped, weight, calibrated>>
    BY DEF Mark
  <1> QED BY <1>5, <1>6, <1>7 DEF LearnType

LEMMA CallType ==
  ASSUME LearnType, NEW c \in Callers,
         \/ \E id \in 1..MaxSignals, o \in Outcomes : Report(c, id, o)
         \/ CountOutcome(c) \/ CountTotal(c) \/ Recalculate(c) \/ SetWeight(c)
  PROVE  LearnType'
  <1>1. /\ call[c] \in Calls /\ call \in [Callers -> Calls] /\ call[c].weight \in Rates
        /\ NoCall \in Calls
    <2>1. call \in [Callers -> Calls]
      BY DEF LearnType
    <2>2. call[c] \in Calls
      BY ONLY <2>1, c \in Callers
    <2>3. call[c].weight \in Rates
      BY ONLY <2>2 DEF Calls
    <2> QED BY ONLY <2>1, <2>2, <2>3, NoCallType
  <1>2. MaxSignals \in Nat /\ Window \in Nat
    BY LearningAssumption DEF LearningAssumption
  <1>3. \E n \in Calls : call' = [call EXCEPT ![c] = n]
    <2>1. ASSUME NEW id \in 1..MaxSignals, NEW o \in Outcomes, Report(c, id, o)
          PROVE  \E n \in Calls : call' = [call EXCEPT ![c] = n]
      <3>1. [NoCall EXCEPT !.pc = "mark", !.signal = id, !.outcome = o] \in Calls
        <4>1. id \in Nat
          BY <1>2
        <4> QED BY ONLY <1>1, <4>1, o \in Outcomes DEF Calls
      <3>2. call' = [call EXCEPT ![c] =
                       [NoCall EXCEPT !.pc = "mark", !.signal = id, !.outcome = o]]
        BY <2>1 DEF Report
      <3> QED BY ONLY <3>1, <3>2
    <2>2. CASE CountOutcome(c) \/ CountTotal(c)
      <3>1. \E p \in {"total", "weigh"} :
               call' = [call EXCEPT ![c] = [call[c] EXCEPT !.pc = p]]
        BY <1>1, <2>2 DEF CountOutcome, CountTotal, Goto
      <3>2. \A p \in {"total", "weigh"} : [call[c] EXCEPT !.pc = p] \in Calls
        BY ONLY <1>1 DEF Calls
      <3> QED BY <3>1, <3>2
    <2>3. CASE Recalculate(c)
      <3>1. Overall(signals, Window) \in Rates
        <4>1. Len(signals) \in Nat
          BY DEF LearnType
        <4> QED BY ONLY <1>2, <4>1, OverallRange
      <3>2. PICK w \in Rates : w = Overall(signals, Window)
        BY <3>1
      <3>3. [call[c] EXCEPT !.pc = "set", !.weight = w] \in Calls
        BY ONLY <1>1, w \in Rates DEF Calls
      <3>4. call' = [call EXCEPT ![c] = [call[c] EXCEPT !.pc = "set", !.weight = w]]
        BY <1>1, <2>3, <3>2 DEF Recalculate
      <3> QED BY <3>3, <3>4
    <2>4. CASE SetWeight(c)
      BY <1>1, <2>4 DEF SetWeight
    <2> QED BY <2>1, <2>2, <2>3, <2>4
  <1>4. call' \in [Callers -> Calls]
    BY <1>1, <1>3
  <1>5. UNCHANGED <<signals, dropped, calibrated>> /\ (weight' = weight \/ weight' = call[c].weight)
    BY DEF Report, CountOutcome, CountTotal, Recalculate, SetWeight
  <1> QED BY <1>1, <1>4, <1>5 DEF LearnType

LEMMA CalibrateType == ASSUME LearnType, Calibrate PROVE LearnType'
  <1> DEFINE decided == DecidedIn(signals, DOMAIN signals)
             In(r) == {i \in decided : signals[i].regime = r}
             record(r) == [wins |-> Cardinality(WonIn(signals, In(r))),
                           total |-> Cardinality(In(r))]
  <1>1. IsFiniteSet(decided)
    <2>1. IsFiniteSet(DOMAIN signals)
      BY FS_Interval DEF LearnType
    <2>2. decided \subseteq DOMAIN signals
      BY DEF DecidedIn
    <2> QED BY <2>1, <2>2, FS_Subset
  <1>2. Cardinality(decided) \in Nat
    BY <1>1, FS_CardinalityType
  <1>3. ASSUME NEW r \in Regimes PROVE record(r) \in Records
    <2>1. IsFiniteSet(In(r))
      <3>1. In(r) \subseteq decided
        OBVIOUS
      <3> QED BY <1>1, <3>1, FS_Subset
    <2>2. WonIn(signals, In(r)) \subseteq In(r)
      BY DEF WonIn
    <2>3. /\ Cardinality(WonIn(signals, In(r))) \in Nat /\ Cardinality(In(r)) \in Nat
          /\ Cardinality(WonIn(signals, In(r))) <= Cardinality(In(r))
      BY <2>1, <2>2, FS_Subset, FS_CardinalityType
    <2> QED BY <2>3 DEF Records
  <1>4. /\ calibrated' = [total |-> Cardinality(decided), byRegime |-> [r \in Regimes |->
              IF In(r) = {} THEN calibrated.byRegime[r] ELSE record(r)]]
        /\ UNCHANGED <<signals, dropped, weight, call>>
    BY DEF Calibrate
  <1>5. \A r \in Regimes : calibrated.byRegime[r] \in Records
    BY DEF LearnType
  <1> HIDE DEF decided, In, record
  <1>6. calibrated' \in [total : Nat, byRegime : [Regimes -> Records]]
    <2>1. [r \in Regimes |-> IF In(r) = {} THEN calibrated.byRegime[r] ELSE record(r)]
             \in [Regimes -> Records]
      BY <1>3, <1>5
    <2> QED BY <1>2, <1>4, <2>1
  <1> QED BY <1>4, <1>6 DEF LearnType

LEMMA NextLearnType == ASSUME LearnType, [DesksNext]_desksVars PROVE LearnType'
  <1>1. ASSUME UNCHANGED <<signals, dropped, weight, call, calibrated>> PROVE LearnType'
    BY <1>1 DEF LearnType
  <1>2. CASE UNCHANGED desksVars
    BY <1>1, <1>2 DEF desksVars, learnVars
  <1>3. CASE DesksNext
    <2>1. CASE UNCHANGED learnVars
      BY <1>1, <2>1 DEF learnVars
    <2>2. CASE Suppress \/ SuppressionExpires
      BY <1>1, <2>2 DEF Suppress, SuppressionExpires
    <2>3. CASE \E c \in Callers :
                 \/ \E id \in 1..MaxSignals, o \in Outcomes : Report(c, id, o)
                 \/ Mark(c) \/ CountOutcome(c) \/ CountTotal(c) \/ Recalculate(c) \/ SetWeight(c)
      BY <2>3, CallType, MarkType
    <2>4. CASE Calibrate \/ \E r \in Regimes : RecordSignal(r)
      BY <2>4, CalibrateType, RecordSignalType
    <2> QED BY <1>3, <2>1, <2>2, <2>3, <2>4 DEF DesksNext, ByCycle, ByDesk
  <1> QED BY <1>2, <1>3

LEMMA NextSettleInv ==
  ASSUME LearnType, SettleInv, [DesksNext]_desksVars
  PROVE  SettleInv'
  <1>1. ASSUME UNCHANGED <<signals, weight, call, overlapped>> PROVE SettleInv'
    BY <1>1 DEF SettleInv, Resolved
  <1>2. CASE UNCHANGED desksVars
    BY <1>1, <1>2 DEF desksVars, learnVars
  <1>3. call \in [Callers -> Calls]
    BY DEF LearnType
  <1>4. ASSUME NEW r \in Regimes, RecordSignal(r) PROVE SettleInv'
    BY <1>4, RecordSignalType DEF SettleInv
  <1>5. ASSUME NEW c \in Callers, NEW p \in {"mark", "count", "total", "weigh"},
               call'[c].pc = p, \A d \in Callers \ {c} : call'[d] = call[d],
               ~overlapped' => ~overlapped /\ \A d \in Callers \ {c} : call[d].pc = "idle"
        PROVE  SettleInv'
    BY <1>5 DEF SettleInv
  <1>6. ASSUME NEW c \in Callers, NEW id \in 1..MaxSignals, NEW o \in Outcomes,
               Report(c, id, o)
        PROVE  SettleInv'
    <2>1. /\ overlapped' = (overlapped \/ \E d \in Callers : call[d].pc # "idle")
          /\ call' = [call EXCEPT ![c] =
                        [NoCall EXCEPT !.pc = "mark", !.signal = id, !.outcome = o]]
      BY <1>6 DEF Report
    <2>2. call'[c].pc = "mark" /\ \A d \in Callers \ {c} : call'[d] = call[d]
      BY <1>3, <2>1 DEF NoCall
    <2> QED BY <1>5, <2>1, <2>2
  <1>7. ASSUME NEW c \in Callers, Mark(c) \/ CountOutcome(c) \/ CountTotal(c) PROVE SettleInv'
    <2>1. PICK p \in {"count", "total", "weigh"} : Goto(c, p)
      BY <1>7 DEF Mark, CountOutcome, CountTotal
    <2>2. call[c].pc # "idle" /\ UNCHANGED overlapped
      BY <1>7 DEF Mark, CountOutcome, CountTotal
    <2>3. call'[c].pc = p /\ \A d \in Callers \ {c} : call'[d] = call[d]
      BY <1>3, <2>1 DEF Goto, Calls
    <2>4. ~overlapped => \A d \in Callers \ {c} : call[d].pc = "idle"
      BY <2>2 DEF SettleInv
    <2> QED BY <1>5, <2>2, <2>3, <2>4
  <1>8. ASSUME NEW c \in Callers, Recalculate(c) PROVE SettleInv'
    <2>1. /\ call[c].pc = "weigh" /\ UNCHANGED <<signals, weight, overlapped>>
          /\ call' = [call EXCEPT ![c].pc = "set", ![c].weight = Overall(signals, Window)]
      BY <1>8 DEF Recalculate
    <2>2. /\ call'[c].pc = "set" /\ call'[c].weight = Overall(signals, Window)
          /\ \A d \in Callers \ {c} : call'[d] = call[d]
      BY <1>3, <2>1 DEF Calls
    <2>3. ~overlapped => \A d \in Callers \ {c} : call[d].pc = "idle"
      BY <2>1 DEF SettleInv
    <2> QED BY <2>1, <2>2, <2>3 DEF SettleInv, Resolved
  <1>9. ASSUME NEW c \in Callers, SetWeight(c) PROVE SettleInv'
    <2>1. /\ call[c].pc = "set" /\ UNCHANGED <<signals, overlapped>>
          /\ weight' = call[c].weight
          /\ call' = [call EXCEPT ![c] = NoCall]
      BY <1>9 DEF SetWeight
    <2>2. /\ call'[c].pc = "idle" /\ \A d \in Callers \ {c} : call'[d] = call[d]
      BY <1>3, <2>1 DEF NoCall
    <2>3. ~overlapped => \A d \in Callers \ {c} : call[d].pc = "idle"
      BY <2>1 DEF SettleInv
    <2> QED BY <2>1, <2>2, <2>3 DEF SettleInv, Resolved
  <1>10. CASE DesksNext
    <2>1. CASE UNCHANGED learnVars
      BY <1>1, <2>1 DEF learnVars
    <2>2. CASE Suppress \/ SuppressionExpires \/ Calibrate
      BY <1>1, <2>2 DEF Suppress, SuppressionExpires, Calibrate
    <2> QED BY <1>4, <1>6, <1>7, <1>8, <1>9, <1>10, <2>1, <2>2 DEF DesksNext, ByCycle, ByDesk
  <1> QED BY <1>2, <1>10

(* While no signal among the newest n waits for its outcome, they are the last n that
   have one. *)
LEMMA NewestResolved ==
  ASSUME NEW s, DOMAIN s = 1..Len(s), Len(s) \in Nat, NEW n \in Nat,
         \A i \in Newest(s, n) : s[i].outcome # "PENDING"
  PROVE  LastResolved(s, n) = Newest(s, n)
  <1>1. PICK resolved : resolved = {i \in DOMAIN s : s[i].outcome # "PENDING"}
    OBVIOUS
  <1>2. PICK m \in Nat : m = IF Len(s) < n THEN Len(s) ELSE n
    OBVIOUS
  <1>3. Newest(s, n) = 1..m
    BY ONLY <1>2 DEF Newest
  <1>4. 1..m \subseteq resolved /\ resolved \subseteq 1..Len(s)
    <2>1. m <= Len(s) /\ \A i \in 1..m : i \in 1..Len(s)
      BY ONLY <1>2, Len(s) \in Nat, n \in Nat
    <2>2. \A i \in 1..m : i \in DOMAIN s /\ s[i].outcome # "PENDING"
      BY ONLY <1>3, <2>1, DOMAIN s = 1..Len(s),
              \A i \in Newest(s, n) : s[i].outcome # "PENDING"
    <2> QED BY ONLY <1>1, <2>2, DOMAIN s = 1..Len(s)
  <1>5. LastResolved(s, n) = {i \in resolved : Cardinality({j \in resolved : j <= i}) <= n}
    BY ONLY <1>1 DEF LastResolved, FirstOf
  <1>6. ASSUME NEW i \in resolved, i <= m
        PROVE  Cardinality({j \in resolved : j <= i}) <= n
    <2>1. i \in Nat /\ i >= 1
      BY <1>4
    <2>2. IsFiniteSet(1..i) /\ Cardinality(1..i) = i
      BY <2>1, FS_Interval
    <2>3. {j \in resolved : j <= i} \subseteq 1..i
      <3>1. \A j \in 1..Len(s) : j \in Nat /\ j >= 1
        BY Len(s) \in Nat
      <3>2. ASSUME NEW j \in resolved, j <= i PROVE j \in 1..i
        <4>1. j \in Nat /\ j >= 1
          BY ONLY <1>4, <3>1, j \in resolved
        <4> QED BY ONLY <2>1, <3>2, <4>1
      <3> QED BY ONLY <3>2
    <2>4. /\ IsFiniteSet({j \in resolved : j <= i})
          /\ Cardinality({j \in resolved : j <= i}) <= i
      BY ONLY <2>2, <2>3, FS_Subset
    <2>5. Cardinality({j \in resolved : j <= i}) \in Nat
      BY ONLY <2>4, FS_CardinalityType
    <2> QED BY ONLY <1>2, <1>6, <2>1, <2>4, <2>5, n \in Nat, Len(s) \in Nat
  <1>7. ASSUME NEW i \in resolved, i > m
        PROVE  ~(Cardinality({j \in resolved : j <= i}) <= n)
    <2>1. i \in 1..Len(s) /\ i \in Nat
      BY <1>4
    <2>2. m = n /\ n < i
      BY ONLY <1>2, <1>7, <2>1, n \in Nat, Len(s) \in Nat
    <2>3. IsFiniteSet(1..n) /\ Cardinality(1..n) = n
      BY FS_Interval
    <2>4. IsFiniteSet((1..n) \cup {i}) /\ Cardinality((1..n) \cup {i}) = n + 1
      <3>1. i \notin 1..n
        BY <2>1, <2>2
      <3> QED BY ONLY <2>3, <3>1, FS_AddElement
    <2>5. IsFiniteSet({j \in resolved : j <= i})
      <3>1. IsFiniteSet(1..Len(s))
        BY FS_Interval
      <3>2. {j \in resolved : j <= i} \subseteq 1..Len(s)
        BY <1>4
      <3> QED BY ONLY <3>1, <3>2, FS_Subset
    <2>6. (1..n) \cup {i} \subseteq {j \in resolved : j <= i}
      BY <1>4, <1>7, <2>1, <2>2
    <2>7. n + 1 <= Cardinality({j \in resolved : j <= i})
      BY ONLY <2>4, <2>5, <2>6, FS_Subset
    <2>8. Cardinality({j \in resolved : j <= i}) \in Nat
      BY ONLY <2>5, FS_CardinalityType
    <2> QED BY ONLY <2>7, <2>8, n \in Nat
  <1>8. \A i \in resolved : i \in Nat /\ i >= 1
    BY <1>4
  <1>9. ASSUME NEW i PROVE i \in LastResolved(s, n) <=> i \in 1..m
    <2>1. i \in 1..m => i \in resolved /\ i <= m
      BY <1>4
    <2>2. i \in resolved => (i <= m \/ i > m) /\ (i <= m => i \in 1..m)
      BY <1>8
    <2> QED BY <1>5, <1>6, <1>7, <2>1, <2>2
  <1> QED BY <1>3, <1>9

(* While no signal of the window waits for its outcome and no report is under way, the
   stored weight is the win rate over the last Window resolved signals
   (agent_memory.py's record_outcome and _recalculate_weight, and its words at :146 and
   :317), however signals were recorded in between, provided no two reports ever
   overlapped; for any window and any number of callers. *)
THEOREM WeightIsWinRate == Spec => []WeightSettles
  <1>1. DesksInit => LearnType /\ SettleInv
    BY InitLearnType DEF DesksInit
  <1>2. LearnType /\ SettleInv /\ [DesksNext]_desksVars => (LearnType /\ SettleInv)'
    BY NextLearnType, NextSettleInv
  <1>3. LearnType /\ SettleInv => WeightSettles
    <2> SUFFICES ASSUME LearnType, SettleInv, ~overlapped,
                        \A c \in Callers : call[c].pc = "idle", signals # <<>>,
                        \A i \in Newest(signals, Window) : signals[i].outcome # "PENDING"
                 PROVE  weight = WinRate(signals, Window)
      BY DEF WeightSettles
    <2>1. /\ Window \in Nat \ {0} /\ Len(signals) \in Nat
          /\ DOMAIN signals = 1..Len(signals) /\ Len(signals) # 0
      BY LearningAssumption DEF LearningAssumption, LearnType
    <2>2. 1 \in Newest(signals, Window)
      BY <2>1 DEF Newest
    <2>3. weight = Overall(signals, Window)
      BY <2>2 DEF SettleInv, Resolved
    <2>4. LastResolved(signals, Window) = Newest(signals, Window)
      BY <2>1, NewestResolved
    <2> QED BY <2>3, <2>4 DEF Overall, WinRate
  <1> QED BY <1>1, <1>2, <1>3, PTL DEF Spec

(* The desk's records are of packets it has read. *)
HeldInv == pel \subseteq 1..delivered /\ mine \subseteq 1..delivered /\ open \subseteq 1..delivered

(* -------------------------------- the types ----------------------------- *)
(* The packet at hand was read. *)
LEMMA Now1Delivered ==
  ASSUME DeskInv, desk.pc \in {"packet", "register", "ack"}
  PROVE  Now1 \in 1..delivered
  <1>1. /\ desk.batch \in Seq(Nat) /\ Len(desk.batch) \in Nat \ {0}
        /\ Len(desk.batch) <= delivered /\ delivered \in Nat
    BY DEF DeskInv, DeskType, BatchOK
  <1>2. Now1 = desk.batch[1]
    BY <1>1 DEF Now1
  <1>3. desk.batch[1] = delivered - Len(desk.batch) + 1
    BY <1>1 DEF DeskInv, BatchOK, DeskType
  <1> QED BY ONLY <1>1, <1>2, <1>3

LEMMA NextHeldInv ==
  ASSUME DeskInv, HeldInv, [DesksNext]_desksVars
  PROVE  HeldInv'
  <1>1. delivered \in Nat
    BY DEF DeskInv, DeskType
  <1>2. ASSUME delivered' = delivered, pel' \subseteq pel,
               mine' \subseteq mine \cup 1..delivered, open' \subseteq open \cup 1..delivered
        PROVE  HeldInv'
    BY <1>2 DEF HeldInv
  <1>3. CASE UNCHANGED deskVars
    BY <1>2, <1>3 DEF deskVars
  <1>4. ASSUME (\E v \in Convictions : Publish(v)) \/ TimePasses \/ Halt \/ CheckSwitch
        PROVE  HeldInv'
    BY <1>2, <1>4 DEF Publish, TimePasses, Halt, CheckSwitch
  <1>5. ASSUME ReadBatch PROVE HeldInv'
    <2> DEFINE batch == Next1(delivered)
    <2>1. /\ batch \in Seq(Nat) /\ Len(batch) \in Nat
          /\ \A i \in 1..Len(batch) : batch[i] = delivered + i
      BY Next1OK DEF DeskInv
    <2>2. /\ delivered' = delivered + Len(batch) /\ pel' = pel \cup ToSet(batch)
          /\ UNCHANGED <<mine, open>>
      BY <1>5 DEF ReadBatch
    <2>3. ToSet(batch) = {batch[i] : i \in 1..Len(batch)}
      BY <2>1 DEF ToSet
    <2> HIDE DEF batch
    <2>4. ToSet(batch) \subseteq 1..delivered'
      BY ONLY <1>1, <2>1, <2>2, <2>3
    <2>5. 1..delivered \subseteq 1..delivered'
      BY ONLY <1>1, <2>1, <2>2
    <2> QED BY <2>2, <2>4, <2>5 DEF HeldInv
  <1>6. ASSUME Dismiss \/ Acknowledge \/ PacketError \/ Restart PROVE HeldInv'
    BY <1>2, <1>6 DEF Dismiss, Acknowledge, PacketError, Restart
  <1>7. ASSUME Execute \/ Register PROVE HeldInv'
    <2>1. Now1 \in 1..delivered
      BY <1>7, Now1Delivered DEF Execute, Register
    <2>2. /\ delivered' = delivered /\ pel' = pel
          /\ mine' \subseteq mine \cup {Now1} /\ open' \subseteq open \cup {Now1}
      BY <1>7 DEF Execute, Register
    <2> QED BY <1>2, <2>1, <2>2
  <1>8. CASE UNCHANGED desksVars
    BY <1>3, <1>8 DEF desksVars
  <1>9. CASE DesksNext
    BY <1>3, <1>4, <1>5, <1>6, <1>7, <1>9 DEF DesksNext, ByCycle, ByLearning
  <1> QED BY <1>8, <1>9

(* A cycle trades one side or none. *)
Sides == {"none", "LONG", "SHORT"}
LEMMA NextTraded ==
  ASSUME traded \in [Cycles -> Sides], [DesksNext]_desksVars
  PROVE  traded' \in [Cycles -> Sides]
  <1>1. CASE UNCHANGED traded
    BY <1>1
  <1>2. ASSUME NEW c \in Cycles, Atlas(c) \/ AnalyseRaises(c)
        PROVE  traded' \in [Cycles -> Sides]
    <2>1. Ordered(c) \in Sides
      BY DEF Ordered, Sides
    <2>2. UNCHANGED traded \/ traded' = [traded EXCEPT ![c] = Ordered(c)]
      BY <1>2 DEF Atlas, AnalyseRaises
    <2> QED BY <2>1, <2>2
  <1>3. ASSUME NEW c \in Cycles,
               \/ Start(c) \/ HeartbeatActive(c) \/ Diana(c)
               \/ Construct(c) \/ EmitEpisode(c) \/ HeartbeatIdle(c) \/ Leave(c)
               \/ \E opinions \in {Opinions, {}} : Analyse(c, opinions)
        PROVE  UNCHANGED traded
    BY <1>3 DEF Start, HeartbeatActive, Analyse, Diana, Construct, EmitEpisode,
                HeartbeatIdle, Leave
  <1>4. CASE UNCHANGED cycleVars
    BY <1>1, <1>4 DEF cycleVars
  <1>5. CASE UNCHANGED desksVars
    BY <1>4, <1>5 DEF desksVars
  <1>6. CASE DesksNext
    BY <1>1, <1>2, <1>3, <1>4, <1>6 DEF DesksNext, ByDesk, ByLearning
  <1> QED BY <1>5, <1>6

(* Every place, count and set of the desks stays in its range, and so does the rate Nova
   would weigh the agent by (agent_memory.py's get_agent_accuracy), whatever was calibrated
   meanwhile, for any window and whatever a regime's cached record holds. *)
THEOREM DesksTypes == Spec => []TypeOK
  <1> DEFINE Types == /\ CycleInv /\ EpisodeInv /\ traded \in [Cycles -> Sides]
                      /\ DeskInv /\ HeldInv /\ LearnType
  <1>1. DesksInit => Types
    <2>1. CycleInit => traded \in [Cycles -> Sides]
      BY DEF CycleInit, Sides
    <2>2. DeskInit => HeldInv
      BY DEF DeskInit, HeldInv
    <2> QED BY <2>1, <2>2, InitCycleInv, InitEpisodeInv, InitDeskInv, InitLearnType
            DEF DesksInit
  <1>2. Types /\ [DesksNext]_desksVars => Types'
    BY NextCycleInv, NextEpisodeInv, NextTraded, NextDeskInv, NextHeldInv, NextLearnType
  <1>3. Types => TypeOK
    <2> SUFFICES ASSUME Types PROVE TypeOK
      OBVIOUS
    <2>1. ASSUME NEW c \in Cycles
          PROVE  /\ at[c].node \in Agents \cup {"none", "end"}
                 /\ traded[c] \in {"none", "LONG", "SHORT"}
                 /\ called[c] \subseteq Agents
      BY DEF CycleInv, CycleType, Spot, EpisodeInv, Sides
    <2>2. /\ delivered \in 0..Len(inbox) /\ HeldInv
          /\ weight \in {-1} \cup 0..1000 /\ Len(signals) <= 2 * Window
      BY DEF DeskInv, DeskType, LearnType, Rates
    <2>3. ASSUME NEW r \in Regimes
          PROVE  Accuracy(signals, Window, r, calibrated.byRegime[r]) \in 0..1000
      <3>1. calibrated.byRegime[r] \in Records /\ Len(signals) \in Nat
        BY DEF LearnType
      <3>2. Window \in Nat
        BY LearningAssumption DEF LearningAssumption
      <3>3. Accuracy(signals, Window, r, calibrated.byRegime[r]) \in Rates
        BY ONLY <3>1, <3>2, AccuracyRange
      <3> QED BY <3>3 DEF Rates
    <2> QED BY <2>1, <2>2, <2>3 DEF TypeOK, HeldInv
  <1> QED BY <1>1, <1>2, <1>3, PTL DEF Spec
=============================================================================
