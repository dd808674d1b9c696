--------------------------- MODULE StreamConsumer ---------------------------
(***************************************************************************)
(* BaseConsumer of src/streams/consumer.py with a writer's handle() on top *)
(* (EpisodeWriter, OutcomeWriter): a Redis stream read through a consumer  *)
(* group and stored in Postgres.  Entries are numbered by the order they   *)
(* were added.  The stream, the group's cursor and its pending list are    *)
(* Redis's; the batch and the program counter are the process's and die    *)
(* with it.                                                                *)
(***************************************************************************)
EXTENDS Integers

CONSTANTS Consumers,     \* consumer names of the group, one process each
          Count,         \* count of xreadgroup
          MaxLen,        \* maxlen of xadd
          Kinds,         \* the kinds of entries producers add
          MaxEntries,    \* bound: entries added
          MaxStops,      \* bound: crashes and shutdowns of consumers
          MaxFaults,     \* bound: Redis commands that raise or lose their reply
          MaxOutages     \* bound: times Postgres goes down

(* "valid": stored when Postgres is up.  "incomplete": a required field is
   missing.  "unstorable": a field does not convert, or Postgres refuses the
   row. *)
ASSUME ConsumerAssumption ==
    /\ Kinds \subseteq {"valid", "incomplete", "unstorable"}
    /\ Count \in Nat \ {0} /\ MaxLen \in Nat \ {0}
    /\ MaxEntries \in Nat /\ MaxStops \in Nat /\ MaxFaults \in Nat /\ MaxOutages \in Nat

VARIABLES
    added,       \* entries ever added
    kind,        \* the kind of each
    trimmed,     \* entries 1..trimmed were dropped by XADD's MAXLEN
    group,       \* the consumer group exists
    cursor,      \* the group's last delivered entry
    pel,         \* delivered and not acknowledged
    acked,       \* acknowledged (history)
    table,       \* rows committed in Postgres
    up,          \* Postgres answers
    pc, batch,   \* of each consumer: where it is, the entries it has yet to handle
    stops, faults, outages

redis == <<added, kind, trimmed, group, cursor, pel, acked>>
bounds == <<stops, faults, outages>>
vars == <<redis, table, up, pc, batch, bounds>>

(* A batch is a run of entries, handled from the front. *)
Entries(b) == b.next .. b.last
NoBatch == [next |-> 1, last |-> 0]
Current(c) == batch[c].next
Drop(c) == batch' = [batch EXCEPT ![c].next = @ + 1]
Handling(c) == pc[c] = "handle" /\ batch[c].next <= batch[c].last

Init ==
    /\ added = 0 /\ trimmed = 0 /\ cursor = 0
    /\ kind = [e \in 1..MaxEntries |-> "none"]
    /\ group = FALSE
    /\ pel = {} /\ acked = {} /\ table = {}
    /\ up = TRUE
    /\ pc = [c \in Consumers |-> "down"]
    /\ batch = [c \in Consumers |-> NoBatch]
    /\ stops = 0 /\ faults = 0 /\ outages = 0

-----------------------------------------------------------------------------
(* Faulty variants, used only by the mutation runs. *)

FailedStopsBatch(c) ==
    /\ Handling(c)
    /\ kind[Current(c)] = "unstorable"
    /\ UNCHANGED vars

FailedAcked(c) ==
    /\ Handling(c)
    /\ kind[Current(c)] = "unstorable" \/ ~up
    /\ pc' = [pc EXCEPT ![c] = "ack"]
    /\ UNCHANGED <<redis, table, up, batch, bounds>>

NoAck(b) == pel

ReadFromStart == trimmed

BatchPastEnd == [next |-> (IF trimmed > cursor THEN trimmed ELSE cursor) + 1,
                 last |-> cursor + Count]

-----------------------------------------------------------------------------
(* produce(): XADD with MAXLEN ~, which drops old entries at its own pace,
   read or not, and never below the limit. *)
Produce(k) ==
    /\ added < MaxEntries
    /\ added' = added + 1
    /\ kind' = [kind EXCEPT ![added + 1] = k]
    /\ \E t \in trimmed..added : /\ t = trimmed \/ added + 1 - t >= MaxLen
                                 /\ trimmed' = t
    /\ UNCHANGED <<group, cursor, pel, acked, table, up, pc, batch, bounds>>

(* start(): the group is created at 0.  Every error of that call is
   suppressed, the expected "group exists" and a lost connection alike. *)
Start(c) ==
    /\ pc[c] = "down"
    /\ \/ group' = TRUE /\ UNCHANGED faults
       \/ faults < MaxFaults /\ faults' = faults + 1 /\ UNCHANGED group
    /\ pc' = [pc EXCEPT ![c] = "read"]
    /\ UNCHANGED <<added, kind, trimmed, cursor, pel, acked, table, up, batch, stops, outages>>

(* xreadgroup with ">": the next entries after the cursor.  They move to the
   pending list even when the reply never arrives.  Without a group the call
   raises, and the loop tries again a second later. *)
LastRead == IF trimmed > cursor THEN trimmed ELSE cursor
NextBatch == [next |-> LastRead + 1,
              last |-> IF added < LastRead + Count THEN added ELSE LastRead + Count]
Pended(b) == pel \cup Entries(b)

Deliver(c) ==
    /\ pc[c] = "read" /\ group /\ LastRead < added
    /\ cursor' = NextBatch.last
    /\ pel' = Pended(NextBatch)
    /\ UNCHANGED <<added, kind, trimmed, group, acked, table, up, stops, outages>>

Read(c) ==
    /\ Deliver(c)
    /\ batch' = [batch EXCEPT ![c] = NextBatch]
    /\ pc' = [pc EXCEPT ![c] = "handle"]
    /\ UNCHANGED faults

ReadLost(c) ==
    /\ Deliver(c)
    /\ faults < MaxFaults
    /\ faults' = faults + 1
    /\ UNCHANGED <<batch, pc>>

(* handle() of the first entry of the batch: one transaction. *)

(* Committed: the row is there, and handle() returns. *)
Store(c) ==
    /\ Handling(c) /\ up
    /\ kind[Current(c)] = "valid"
    /\ table' = table \cup {Current(c)}
    /\ pc' = [pc EXCEPT ![c] = "ack"]
    /\ UNCHANGED <<redis, up, batch, bounds>>

(* A field is missing: logged, and handle() returns. *)
SkipIncomplete(c) ==
    /\ Handling(c)
    /\ kind[Current(c)] = "incomplete"
    /\ pc' = [pc EXCEPT ![c] = "ack"]
    /\ UNCHANGED <<redis, table, up, batch, bounds>>

(* handle() raises: logged, not acknowledged, and the loop moves on.  When
   Postgres goes away under a commit the row may be there all the same. *)
HandleFails(c) ==
    /\ Handling(c)
    /\ \/ kind[Current(c)] = "unstorable" /\ UNCHANGED table
       \/ kind[Current(c)] = "valid" /\ ~up /\ table' \in {table, table \cup {Current(c)}}
    /\ Drop(c)
    /\ UNCHANGED <<redis, up, pc, bounds>>

(* The outcome writer asks Redis for a trade's contributors before it opens the
   transaction: that call may raise with Postgres up. *)
LookupFails(c) ==
    /\ Handling(c) /\ faults < MaxFaults
    /\ kind[Current(c)] = "valid"
    /\ faults' = faults + 1
    /\ Drop(c)
    /\ UNCHANGED <<redis, table, up, pc, stops, outages>>

Ack(c) ==
    /\ pc[c] = "ack"
    /\ pel' = pel \ {Current(c)}
    /\ acked' = acked \cup {Current(c)}
    /\ Drop(c)
    /\ pc' = [pc EXCEPT ![c] = "handle"]
    /\ UNCHANGED <<added, kind, trimmed, group, cursor, table, up, bounds>>

(* xack raises: the entry was handled and stays pending. *)
AckFails(c) ==
    /\ pc[c] = "ack" /\ faults < MaxFaults
    /\ faults' = faults + 1
    /\ Drop(c)
    /\ pc' = [pc EXCEPT ![c] = "handle"]
    /\ UNCHANGED <<redis, table, up, stops, outages>>

BatchDone(c) ==
    /\ pc[c] = "handle" /\ batch[c].next > batch[c].last
    /\ pc' = [pc EXCEPT ![c] = "read"]
    /\ UNCHANGED <<redis, table, up, batch, bounds>>

(* The process dies or is shut down: SIGTERM cancels the task wherever it
   waits, which leaves what a crash there would leave. *)
Stop(c) ==
    /\ pc[c] # "down" /\ stops < MaxStops
    /\ stops' = stops + 1
    /\ pc' = [pc EXCEPT ![c] = "down"]
    /\ batch' = [batch EXCEPT ![c] = NoBatch]
    /\ UNCHANGED <<redis, table, up, faults, outages>>

(* Postgres. *)
Outage == /\ up /\ outages < MaxOutages
          /\ up' = FALSE
          /\ outages' = outages + 1
          /\ UNCHANGED <<redis, table, pc, batch, stops, faults>>
Recovery == /\ ~up
            /\ up' = TRUE
            /\ UNCHANGED <<redis, table, pc, batch, bounds>>

Consume(c) == \/ Start(c) \/ Read(c) \/ Store(c) \/ SkipIncomplete(c)
              \/ HandleFails(c) \/ Ack(c) \/ BatchDone(c)

Next ==
    \/ \E k \in Kinds : Produce(k)
    \/ \E c \in Consumers : Consume(c) \/ ReadLost(c) \/ LookupFails(c) \/ AckFails(c) \/ Stop(c)
    \/ Outage \/ Recovery

Spec == Init /\ [][Next]_vars

(* A consumer is a process the container runtime restarts, whose event loop
   runs nothing else; Postgres comes back. *)
Fairness == /\ \A c \in Consumers : WF_vars(Consume(c))
            /\ WF_vars(Recovery)
FairSpec == Spec /\ Fairness

-----------------------------------------------------------------------------
AllKinds == {"valid", "incomplete", "unstorable"}

TypeOK ==
    /\ added \in 0..MaxEntries
    /\ kind \in [1..MaxEntries -> AllKinds \cup {"none"}]
    /\ trimmed \in 0..added /\ cursor \in 0..added
    /\ group \in BOOLEAN /\ up \in BOOLEAN
    /\ pel \subseteq 1..added /\ acked \subseteq 1..added /\ table \subseteq 1..added
    /\ pc \in [Consumers -> {"down", "read", "handle", "ack"}]
    /\ batch \in [Consumers -> [next : Nat, last : Nat]]
    /\ stops \in Nat /\ faults \in Nat /\ outages \in Nat

(* An entry is acknowledged only once its row is committed, or because it is
   incomplete: consumer.py:18, "Messages are acknowledged after successful
   handle() calls".  A crash between the commit and the ack leaves it pending. *)
AckedImpliesStored ==
    \A e \in acked : e \in table \/ kind[e] = "incomplete"

(* An entry is in the hands of at most one process, so that no two
   transactions store it at once. *)
OneHandler ==
    \A c, d \in Consumers : c # d => Entries(batch[c]) \cap Entries(batch[d]) = {}

(* A valid entry whose row is missing can be found: it is still to be read,
   it is on the pending list, or the stream dropped it unread at its limit. *)
LossIsVisible ==
    \A e \in 1..added : kind[e] = "valid" =>
        e \in table \cup pel \/ e > cursor \/ e <= trimmed

(* While nothing fails, entries that cannot be stored do not keep the valid
   ones behind them from the table; a valid entry is lost only to the limit of
   the stream. *)
SomethingFailed == stops + faults + outages > 0
ValidStored ==
    \A e \in 1..MaxEntries : (e <= added /\ kind[e] = "valid")
                             ~> (e \in table \/ e <= trimmed \/ SomethingFailed)

(* What has become of an entry: the abstract state of Delivery. *)
Life(e) == IF e > added THEN "unsent"
           ELSE IF e \in acked THEN "settled"
           ELSE IF e \in pel
           THEN IF \E c \in Consumers : e \in Entries(batch[c]) THEN "held" ELSE "stuck"
           ELSE IF e <= trimmed THEN "dropped" ELSE "waiting"

Lives == INSTANCE Delivery WITH life <- [e \in 1..MaxEntries |-> Life(e)], rows <- table

(* Every entry is handed to one process at most once, in order, crashes and
   lost replies included; it is settled only with its row; only a process it
   was handed to writes that row; and what its process gives up on is never
   taken up again (consumer.py:42). *)
ImplementsDelivery == Lives!Spec

(* Whatever was read during a Postgres outage is stored once it is back:
   episode_writer.py:7-8, "Postgres unavailable -> message is NOT acked,
   BaseConsumer logs the error and retries on the next sweep". *)
RetriedAfterOutage ==
    \A e \in 1..MaxEntries :
        (e \in pel /\ kind[e] = "valid") ~> (e \in table)
=============================================================================
