------------------------------ MODULE TradeDesk ------------------------------
(***************************************************************************)
(* Desk 2: src/execution/trade_desk.py.  Nova's conviction packets arrive  *)
(* on a stream; the desk's loop looks at the kill switch, reads a batch    *)
(* through its consumer group, and takes each packet past its expiry,      *)
(* Diana and Atlas to a record of an open trade, then acknowledges it.     *)
(* Callers report how a trade ended with record_trade_outcome, which       *)
(* Learning continues.  The process may be restarted anywhere.             *)
(***************************************************************************)
EXTENDS Judgement

CONSTANTS Convictions,     \* directions and confidences Nova may forward
          BatchSize,       \* BATCH_SIZE
          Lifetime,        \* CONVICTION_EXPIRY_MINUTES, in ticks
          MaxPackets,      \* bound: packets published
          MaxTime,         \* bound: clock
          MaxRestarts,     \* bound: restarts of the desk
          MaxErrors        \* bound: commands of the desk that raise

DeskAssumption ==
    /\ Convictions \subseteq [direction : Directions, confidence : 0..Scale]
    /\ BatchSize \in Nat \ {0}
    /\ Lifetime \in Nat /\ MaxPackets \in Nat /\ MaxTime \in Nat
    /\ MaxRestarts \in Nat /\ MaxErrors \in Nat
ASSUME DeskAssumption

VARIABLES
    inbox,        \* stream:trade_desk:inbox; a packet's id is its index
    delivered,    \* how far the group has read
    pel,          \* read and not acknowledged
    now,          \* the clock
    halted,       \* kill_switch:active
    desk,         \* the loop: place, batch left, approved
    mine,         \* _open_trades
    open,         \* trade:open:{packet_id}
    executed,     \* packets an order was submitted for
    handled,      \* history: how often each packet was acted on
    late,         \* history: packets begun since the switch went up
    restarts, errors

deskVars == <<inbox, delivered, pel, now, halted, desk, mine, open, executed, handled,
              late, restarts, errors>>

Packets == 1..Len(inbox)
AtCheck == [pc |-> "check", batch |-> <<>>, executed |-> FALSE]

DeskInit ==
    /\ inbox = <<>>
    /\ delivered = 0
    /\ pel = {}
    /\ now = 0
    /\ halted = FALSE
    /\ desk = AtCheck
    /\ mine = {}
    /\ open = {}
    /\ executed = {}
    /\ handled = [p \in 1..MaxPackets |-> 0]
    /\ late = 0
    /\ restarts = 0
    /\ errors = 0

\* Nova publishes what Judgement!Forwards lets through
Publish(v) ==
    /\ Len(inbox) < MaxPackets
    /\ inbox' = Append(inbox, [direction |-> v.direction, confidence |-> v.confidence,
                               expires |-> now + Lifetime])
    /\ UNCHANGED <<delivered, pel, now, halted, desk, mine, open, executed, handled,
                   late, restarts, errors>>

TimePasses ==
    /\ now < MaxTime
    /\ now' = now + 1
    /\ UNCHANGED <<inbox, delivered, pel, halted, desk, mine, open, executed, handled,
                   late, restarts, errors>>

Halt ==
    /\ halted' = ~halted
    /\ late' = 0
    /\ UNCHANGED <<inbox, delivered, pel, now, desk, mine, open, executed, handled,
                   restarts, errors>>

(* -------------------------------- the loop ------------------------------ *)
\* faulty variant: the switch is looked at when the desk starts only
CheckSwitchOnce ==
    /\ desk.pc = "check" /\ (delivered > 0 \/ ~halted)
    /\ desk' = [desk EXCEPT !.pc = "read"]
    /\ UNCHANGED <<inbox, delivered, pel, now, halted, mine, open, executed, handled,
                   late, restarts, errors>>

\* with the switch up the loop sleeps and looks again
CheckSwitch ==
    /\ desk.pc = "check" /\ ~halted
    /\ desk' = [desk EXCEPT !.pc = "read"]
    /\ UNCHANGED <<inbox, delivered, pel, now, halted, mine, open, executed, handled,
                   late, restarts, errors>>

\* XREADGROUP ">" blocks for new entries, up to BATCH_SIZE of them, or gives up
Next1(from) == [i \in 1..Larger(0, (IF Len(inbox) - from < BatchSize
                                    THEN Len(inbox) - from ELSE BatchSize)) |-> from + i]

\* faulty variant: what was not acknowledged is read again
ReadBatchAgain ==
    LET batch == Next1(IF pel = {} THEN delivered ELSE Min(pel) - 1)
    IN /\ desk.pc = "read"
       /\ delivered' = Max({delivered} \cup ToSet(batch))
       /\ pel' = pel \cup ToSet(batch)
       /\ desk' = [AtCheck EXCEPT !.pc = IF batch = <<>> THEN "check" ELSE "packet",
                                  !.batch = batch]
       /\ UNCHANGED <<inbox, now, halted, mine, open, executed, handled, late, restarts,
                      errors>>

\* faulty variant: the group moves on by a whole batch, read or not
ReadBatchWhole ==
    LET batch == Next1(delivered)
    IN /\ desk.pc = "read"
       /\ delivered' = delivered + BatchSize
       /\ pel' = pel \cup ToSet(batch)
       /\ desk' = [AtCheck EXCEPT !.pc = IF batch = <<>> THEN "check" ELSE "packet",
                                  !.batch = batch]
       /\ UNCHANGED <<inbox, now, halted, mine, open, executed, handled, late, restarts,
                      errors>>

ReadBatch ==
    LET batch == Next1(delivered)
    IN /\ desk.pc = "read"
       /\ delivered' = delivered + Len(batch)
       /\ pel' = pel \cup ToSet(batch)
       /\ desk' = [AtCheck EXCEPT !.pc = IF batch = <<>> THEN "check" ELSE "packet",
                                  !.batch = batch]
       /\ UNCHANGED <<inbox, now, halted, mine, open, executed, handled, late, restarts,
                      errors>>

Now1 == Head(desk.batch)
Rest == IF Tail(desk.batch) = <<>> THEN AtCheck
        ELSE [AtCheck EXCEPT !.pc = "packet", !.batch = Tail(desk.batch)]
AsNovaSignal(p) == <<[agent |-> "nova", direction |-> inbox[p].direction,
                      confidence |-> inbox[p].confidence]>>

\* an expired packet, or one Diana rejects, is acknowledged and done with
Dismiss ==
    /\ desk.pc = "packet"
    /\ now > inbox[Now1].expires \/ ~Approves(AsNovaSignal(Now1))
    /\ pel' = pel \ {Now1}
    /\ handled' = [handled EXCEPT ![Now1] = @ + 1]
    /\ desk' = Rest
    /\ UNCHANGED <<inbox, delivered, now, halted, mine, open, executed, late, restarts,
                   errors>>

\* Atlas is given a state without a sized order, and skips it
AtlasExecutes(sized) == IF sized THEN {Now1} ELSE {}

\* the rest are handed to Atlas and held in memory as open
Execute ==
    /\ desk.pc = "packet"
    /\ now <= inbox[Now1].expires /\ Approves(AsNovaSignal(Now1))
    /\ executed' = executed \cup AtlasExecutes(FALSE)
    /\ mine' = mine \cup {Now1}
    /\ handled' = [handled EXCEPT ![Now1] = @ + 1]
    /\ late' = late + (IF halted THEN 1 ELSE 0)
    /\ desk' = [desk EXCEPT !.pc = "register"]
    /\ UNCHANGED <<inbox, delivered, pel, now, halted, open, restarts, errors>>

\* HSET trade:open, its expiry and the audit entry
Register ==
    /\ desk.pc = "register"
    /\ open' = open \cup {Now1}
    /\ desk' = [desk EXCEPT !.pc = "ack"]
    /\ UNCHANGED <<inbox, delivered, pel, now, halted, mine, executed, handled, late,
                   restarts, errors>>

Acknowledge ==
    /\ desk.pc = "ack"
    /\ pel' = pel \ {Now1}
    /\ desk' = Rest
    /\ UNCHANGED <<inbox, delivered, now, halted, mine, open, executed, handled, late,
                   restarts, errors>>

\* an exception anywhere is logged, and the loop goes on to the next packet
PacketError ==
    /\ desk.pc \in {"packet", "register", "ack"} /\ errors < MaxErrors
    /\ errors' = errors + 1
    /\ desk' = Rest
    /\ UNCHANGED <<inbox, delivered, pel, now, halted, mine, open, executed, handled,
                   late, restarts>>

\* the process is restarted: memory and batch are gone, the group is not
Restart ==
    /\ restarts < MaxRestarts
    /\ restarts' = restarts + 1
    /\ desk' = AtCheck
    /\ mine' = {}
    /\ UNCHANGED <<inbox, delivered, pel, now, halted, open, executed, handled, late,
                   errors>>
=============================================================================
