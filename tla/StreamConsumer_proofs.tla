----------------------- MODULE StreamConsumer_proofs -----------------------
(***************************************************************************)
(* Theorems about StreamConsumer: the safety properties that TLC checks on *)
(* two consumers and three entries hold for any number of either, and for  *)
(* every batch size, stream limit and number of faults.                    *)
(***************************************************************************)
EXTENDS StreamConsumer, TLAPS

(* What the process holds was delivered to it; what it is about to
   acknowledge was stored, or is incomplete; the entries delivered so far are
   accounted for, and no two processes hold the same one. *)
Delivered(c) == batch[c].next \in Nat \ {0} /\ batch[c].last <= cursor
ReadyToAck(c) ==
    pc[c] = "ack" => /\ batch[c].next <= batch[c].last
                     /\ batch[c].next \in table \/ kind[batch[c].next] = "incomplete"
IInv ==
    /\ TypeOK
    /\ \A c \in Consumers : Delivered(c) /\ ReadyToAck(c)
    /\ AckedImpliesStored
    /\ OneHandler
    /\ LossIsVisible

(* The initial state satisfies the inductive invariant. *)
LEMMA InitIInv == ASSUME Init PROVE IInv
  <1>1. TypeOK
    <2>1. kind \in [1..MaxEntries -> AllKinds \cup {"none"}]
      BY DEF Init, AllKinds
    <2>2. batch \in [Consumers -> [next : Nat, last : Nat]]
      BY DEF Init, NoBatch
    <2>3. group \in BOOLEAN /\ up \in BOOLEAN
      BY DEF Init
    <2>4. pc \in [Consumers -> {"down", "read", "handle", "ack"}]
      BY DEF Init
    <2> QED BY <2>1, <2>2, <2>3, <2>4, ConsumerAssumption DEF Init, TypeOK
  <1>2. \A c \in Consumers : Delivered(c) /\ ReadyToAck(c)
    <2> SUFFICES ASSUME NEW c \in Consumers PROVE Delivered(c) /\ ReadyToAck(c)
      OBVIOUS
    <2>1. batch[c] = NoBatch /\ pc[c] = "down" /\ cursor = 0
      BY DEF Init
    <2> QED BY <2>1 DEF Delivered, ReadyToAck, NoBatch
  <1>3. OneHandler
    BY DEF Init, OneHandler, NoBatch, Entries
  <1> QED BY <1>1, <1>2, <1>3, ConsumerAssumption
          DEF Init, IInv, AckedImpliesStored, LossIsVisible

(* Adding an entry disturbs no delivered one. *)
LEMMA ProduceIInv == ASSUME IInv, NEW k \in Kinds, Produce(k) PROVE IInv'
  <1> USE ConsumerAssumption
  <1>1. TypeOK'
    <2>1. kind' \in [1..MaxEntries -> AllKinds \cup {"none"}]
      BY DEF IInv, TypeOK, Produce, AllKinds
    <2>2. added' \in 0..MaxEntries /\ added' = added + 1 /\ added \in Nat
      BY DEF IInv, TypeOK, Produce
    <2>3. trimmed' \in 0..added'
      BY <2>2 DEF IInv, TypeOK, Produce
    <2>4. 1..added \subseteq 1..added' /\ cursor' \in 0..added'
      BY <2>2 DEF IInv, TypeOK, Produce
    <2>5. /\ UNCHANGED <<group, pel, acked, table, up, pc, batch, stops, faults, outages>>
          /\ TypeOK
      BY DEF IInv, Produce, bounds
    <2>6. pel' \subseteq 1..added' /\ acked' \subseteq 1..added' /\ table' \subseteq 1..added'
      BY <2>4, <2>5 DEF TypeOK
    <2> QED BY <2>1, <2>2, <2>3, <2>4, <2>5, <2>6 DEF TypeOK
  <1>2. \A e \in 1..added : kind'[e] = kind[e]
    BY DEF IInv, TypeOK, Produce
  <1>3. \A c \in Consumers : Delivered(c)' /\ ReadyToAck(c)'
    <2> SUFFICES ASSUME NEW c \in Consumers PROVE Delivered(c)' /\ ReadyToAck(c)'
      OBVIOUS
    <2>1. /\ Delivered(c) /\ ReadyToAck(c) /\ batch[c] \in [next : Nat, last : Nat]
          /\ cursor \in 0..added /\ added \in Nat
      BY DEF IInv, TypeOK
    <2>2. UNCHANGED <<batch, pc, table, cursor>>
      BY DEF Produce
    <2>3. Delivered(c)'
      BY <2>1, <2>2 DEF Delivered
    <2>4. pc[c] = "ack" => batch[c].next \in 1..added
      BY <2>1 DEF Delivered, ReadyToAck
    <2>5. ReadyToAck(c)'
      BY <1>2, <2>1, <2>2, <2>4 DEF ReadyToAck
    <2> QED BY <2>3, <2>5
  <1>4. AckedImpliesStored'
    BY <1>2 DEF IInv, TypeOK, Produce, AckedImpliesStored
  <1>5. OneHandler'
    BY DEF IInv, Produce, OneHandler
  <1>6. LossIsVisible'
    BY <1>2 DEF IInv, TypeOK, Produce, LossIsVisible
  <1> QED BY <1>1, <1>3, <1>4, <1>5, <1>6 DEF IInv

(* Moving on to the next entry gives no process an entry it did not hold. *)
LEMMA ShrinkKeepsOneHandler ==
  ASSUME OneHandler,
         batch \in [Consumers -> [next : Nat, last : Nat]],
         \A d \in Consumers : \/ batch'[d] = batch[d]
                              \/ batch'[d] = [batch[d] EXCEPT !.next = @ + 1]
  PROVE  OneHandler'
  <1>1. ASSUME NEW d \in Consumers PROVE Entries(batch'[d]) \subseteq Entries(batch[d])
    <2>1. batch[d].next \in Nat /\ batch[d].last \in Nat
      OBVIOUS
    <2>2. batch'[d].next \in {batch[d].next, batch[d].next + 1} /\ batch'[d].last = batch[d].last
      OBVIOUS
    <2> QED BY <2>1, <2>2 DEF Entries
  <1> QED BY <1>1 DEF OneHandler

(* A delivery, whether or not its reply arrives: the entries after the cursor
   that the stream still has become pending, and nobody held them. *)
LEMMA NextBatchOK ==
  ASSUME TypeOK, LastRead < added
  PROVE  /\ NextBatch \in [next : Nat, last : Nat]
         /\ cursor < NextBatch.next /\ NextBatch.next <= NextBatch.last
         /\ NextBatch.last <= added
         /\ \A e \in 1..NextBatch.last :
               e <= cursor \/ e <= trimmed \/ e \in Entries(NextBatch)
  BY ConsumerAssumption DEF TypeOK, LastRead, NextBatch, Entries

LEMMA ReadIInv ==
  ASSUME IInv, NEW c \in Consumers, Read(c) \/ ReadLost(c)
  PROVE  IInv'
  <1> USE ConsumerAssumption
  <1> DEFINE nb == NextBatch
  <1>1. /\ cursor' = nb.last /\ pel' = pel \cup Entries(nb)
        /\ LastRead < added
        /\ UNCHANGED <<added, kind, trimmed, group, acked, table, up, stops, outages>>
    BY DEF Read, ReadLost, Deliver, Pended
  <1>2. /\ nb \in [next : Nat, last : Nat]
        /\ cursor < nb.next /\ nb.next <= nb.last /\ nb.last <= added
        /\ \A e \in 1..nb.last : e <= cursor \/ e <= trimmed \/ e \in Entries(nb)
    BY <1>1, NextBatchOK DEF IInv
  <1>3. /\ batch' \in [Consumers -> [next : Nat, last : Nat]]
        /\ pc' \in [Consumers -> {"down", "read", "handle", "ack"}]
        /\ \A d \in Consumers : \/ batch'[d] = batch[d] /\ pc'[d] = pc[d]
                                \/ d = c /\ batch'[d] = nb /\ pc'[d] = "handle"
    <2>1. CASE Read(c)
      <3>1. batch' = [batch EXCEPT ![c] = nb] /\ pc' = [pc EXCEPT ![c] = "handle"]
        BY <2>1 DEF Read
      <3> HIDE DEF nb
      <3> QED BY <1>2, <3>1 DEF IInv, TypeOK
    <2>2. CASE ReadLost(c)
      BY <2>2 DEF IInv, TypeOK, ReadLost
    <2> QED BY <2>1, <2>2
  <1>4. faults' \in Nat
    BY DEF Read, ReadLost, IInv, TypeOK
  <1> HIDE DEF nb
  <1>5. TypeOK'
    <2>1. Entries(nb) \subseteq 1..added
      BY <1>2 DEF IInv, TypeOK, Entries
    <2>2. cursor' \in 0..added
      BY <1>1, <1>2 DEF IInv, TypeOK
    <2> QED BY <1>1, <1>3, <1>4, <2>1, <2>2 DEF IInv, TypeOK
  <1>6. \A d \in Consumers : Delivered(d)' /\ ReadyToAck(d)'
    <2>1. cursor \in Nat /\ cursor <= cursor'
      BY <1>1, <1>2 DEF IInv, TypeOK
    <2> SUFFICES ASSUME NEW d \in Consumers PROVE Delivered(d)' /\ ReadyToAck(d)'
      OBVIOUS
    <2>2. Delivered(d) /\ ReadyToAck(d) /\ batch[d] \in [next : Nat, last : Nat]
      BY DEF IInv, TypeOK
    <2>3. Delivered(d)'
      BY <1>1, <1>2, <1>3, <2>1, <2>2 DEF Delivered
    <2>4. ReadyToAck(d)'
      BY <1>1, <1>3, <2>2 DEF ReadyToAck
    <2> QED BY <2>3, <2>4
  <1>7. AckedImpliesStored'
    BY <1>1 DEF IInv, AckedImpliesStored
  <1>8. OneHandler'
    <2> SUFFICES ASSUME NEW d \in Consumers, NEW e \in Consumers, d # e,
                        NEW x \in Entries(batch'[d]), x \in Entries(batch'[e])
                 PROVE  FALSE
      BY DEF OneHandler
    <2>1. \A f \in Consumers : /\ batch[f] \in [next : Nat, last : Nat]
                               /\ batch[f].last <= cursor /\ cursor \in Nat
      BY DEF IInv, TypeOK, Delivered
    <2>2. \A f \in Consumers : x \in Entries(batch[f]) => x <= cursor
      BY <2>1 DEF Entries
    <2>3. x \in Entries(nb) => x > cursor
      BY <1>2, <2>1 DEF Entries
    <2>4. x \in Int /\ cursor \in Int
      BY <1>2, <1>3, <2>1 DEF Entries
    <2>5. ~(x \in Entries(batch[d]) /\ x \in Entries(batch[e]))
      BY DEF IInv, OneHandler
    <2> QED BY <1>3, <2>2, <2>3, <2>4, <2>5
  <1>9. LossIsVisible'
    BY <1>1, <1>2 DEF IInv, TypeOK, LossIsVisible
  <1> QED BY <1>5, <1>6, <1>7, <1>8, <1>9 DEF IInv

(* handle(): a row is stored, or the entry is given up on. *)
LEMMA HandleIInv ==
  ASSUME IInv, NEW c \in Consumers,
         Store(c) \/ SkipIncomplete(c) \/ HandleFails(c) \/ LookupFails(c)
  PROVE  IInv'
  <1> USE ConsumerAssumption
  <1>1. /\ UNCHANGED <<redis, up, stops, outages>>
        /\ table' \in {table, table \cup {Current(c)}}
        /\ Handling(c) /\ faults' \in {faults, faults + 1}
    BY DEF Store, SkipIncomplete, HandleFails, LookupFails, bounds
  <1>2. batch[c] \in [next : Nat, last : Nat] /\ Current(c) \in 1..cursor /\ cursor \in 0..added
    BY <1>1 DEF IInv, TypeOK, Delivered, Handling, Current
  <1>3. table \subseteq table' /\ table' \subseteq 1..added
    BY <1>1, <1>2 DEF IInv, TypeOK
  <1>4. \A d \in Consumers :
           \/ batch'[d] = batch[d] /\ pc'[d] = pc[d]
           \/ d = c /\ batch'[d] = batch[d] /\ ReadyToAck(d)'
           \/ d = c /\ batch'[d] = [batch[d] EXCEPT !.next = @ + 1] /\ pc'[d] # "ack"
    <2>1. CASE Store(c)
      BY <2>1 DEF IInv, TypeOK, Store, ReadyToAck, Handling, Current
    <2>2. CASE SkipIncomplete(c)
      BY <2>2 DEF IInv, TypeOK, SkipIncomplete, ReadyToAck, Handling, Current, redis
    <2>3. CASE HandleFails(c) \/ LookupFails(c)
      BY <2>3 DEF IInv, TypeOK, HandleFails, LookupFails, Drop, Handling
    <2> QED BY <2>1, <2>2, <2>3
  <1>5. /\ pc' \in [Consumers -> {"down", "read", "handle", "ack"}]
        /\ batch' \in [Consumers -> [next : Nat, last : Nat]]
    <2>1. CASE Store(c) \/ SkipIncomplete(c)
      <3>1. pc' = [pc EXCEPT ![c] = "ack"] /\ batch' = batch
        BY <2>1 DEF Store, SkipIncomplete
      <3> QED BY <3>1 DEF IInv, TypeOK
    <2>2. CASE HandleFails(c) \/ LookupFails(c)
      <3>1. batch' = [batch EXCEPT ![c] = [batch[c] EXCEPT !.next = @ + 1]] /\ pc' = pc
        BY <2>2 DEF HandleFails, LookupFails, Drop
      <3>2. [batch[c] EXCEPT !.next = @ + 1] \in [next : Nat, last : Nat]
        BY <1>2
      <3> QED BY <3>1, <3>2 DEF IInv, TypeOK
    <2> QED BY <2>1, <2>2
  <1>6. TypeOK'
    BY <1>1, <1>3, <1>5 DEF IInv, TypeOK, redis
  <1>7. \A d \in Consumers : Delivered(d)' /\ ReadyToAck(d)'
    <2> SUFFICES ASSUME NEW d \in Consumers PROVE Delivered(d)' /\ ReadyToAck(d)'
      OBVIOUS
    <2>1. Delivered(d) /\ ReadyToAck(d) /\ batch[d] \in [next : Nat, last : Nat]
      BY DEF IInv, TypeOK
    <2>2. cursor' = cursor /\ kind' = kind
      BY <1>1 DEF redis
    <2>3. Delivered(d)'
      <3>1. \/ batch'[d] = batch[d]
            \/ batch'[d].next = batch[d].next + 1 /\ batch'[d].last = batch[d].last
        BY <1>4, <2>1
      <3> QED BY <2>1, <2>2, <3>1 DEF Delivered
    <2>4. ReadyToAck(d)'
      BY <1>3, <1>4, <2>1, <2>2 DEF ReadyToAck
    <2> QED BY <2>3, <2>4
  <1>8. AckedImpliesStored'
    BY <1>1, <1>3 DEF IInv, AckedImpliesStored, redis
  <1>9. OneHandler'
    BY <1>4, ShrinkKeepsOneHandler DEF IInv, TypeOK
  <1>10. LossIsVisible'
    BY <1>1, <1>3 DEF IInv, LossIsVisible, redis
  <1> QED BY <1>6, <1>7, <1>8, <1>9, <1>10 DEF IInv

(* xack, or its failure. *)
LEMMA AckIInv ==
  ASSUME IInv, NEW c \in Consumers, Ack(c) \/ AckFails(c)
  PROVE  IInv'
  <1> USE ConsumerAssumption
  <1>1. /\ pc[c] = "ack"
        /\ batch' = [batch EXCEPT ![c].next = @ + 1]
        /\ pc' = [pc EXCEPT ![c] = "handle"]
        /\ UNCHANGED <<added, kind, trimmed, group, cursor, table, up, stops, outages>>
        /\ \/ pel' = pel /\ acked' = acked
           \/ pel' = pel \ {Current(c)} /\ acked' = acked \cup {Current(c)}
    BY DEF Ack, AckFails, Drop, redis, bounds
  <1>2. faults' \in Nat
    BY DEF IInv, TypeOK, Ack, AckFails, bounds
  <1>3. /\ Current(c) \in 1..added
        /\ Current(c) \in table \/ kind[Current(c)] = "incomplete"
    BY <1>1 DEF IInv, TypeOK, Delivered, ReadyToAck, Current
  <1>4. TypeOK'
    <2>1. batch[c] \in [next : Nat, last : Nat]
      BY DEF IInv, TypeOK
    <2>2. [batch[c] EXCEPT !.next = @ + 1] \in [next : Nat, last : Nat]
      BY <2>1
    <2>3. batch' \in [Consumers -> [next : Nat, last : Nat]]
      BY <1>1, <2>2 DEF IInv, TypeOK
    <2>4. pc' \in [Consumers -> {"down", "read", "handle", "ack"}]
      BY <1>1 DEF IInv, TypeOK
    <2>5. pel' \subseteq 1..added /\ acked' \subseteq 1..added
      BY <1>1, <1>3 DEF IInv, TypeOK
    <2> QED BY <1>1, <1>2, <2>3, <2>4, <2>5 DEF IInv, TypeOK
  <1>5. \A d \in Consumers : Delivered(d)' /\ ReadyToAck(d)'
    BY <1>1 DEF IInv, TypeOK, Delivered, ReadyToAck
  <1>6. AckedImpliesStored'
    BY <1>1, <1>3 DEF IInv, AckedImpliesStored
  <1>7. OneHandler'
    BY <1>1, ShrinkKeepsOneHandler DEF IInv, TypeOK
  <1>8. LossIsVisible'
    BY <1>1, <1>3 DEF IInv, TypeOK, LossIsVisible
  <1> QED BY <1>4, <1>5, <1>6, <1>7, <1>8 DEF IInv

(* Starting, stopping, finishing a batch, and Postgres coming and going. *)
LEMMA OtherIInv ==
  ASSUME IInv,
         \/ \E c \in Consumers : Start(c) \/ BatchDone(c) \/ Stop(c)
         \/ Outage \/ Recovery
  PROVE  IInv'
  <1> USE ConsumerAssumption
  <1>1. CASE \E c \in Consumers : Start(c) \/ BatchDone(c)
    <2> PICK c \in Consumers : Start(c) \/ BatchDone(c)
      BY <1>1
    <2>1. /\ pc' \in [Consumers -> {"down", "read", "handle", "ack"}]
          /\ \A d \in Consumers : pc'[d] = pc[d] \/ pc'[d] # "ack"
          /\ UNCHANGED <<added, kind, trimmed, cursor, pel, acked, table, up, batch,
                         stops, outages>>
      BY DEF IInv, TypeOK, Start, BatchDone, redis, bounds
    <2>2. group' \in BOOLEAN
      BY DEF IInv, TypeOK, Start, BatchDone, redis
    <2>3. faults' \in Nat
      BY DEF IInv, TypeOK, Start, BatchDone, bounds
    <2> QED BY <2>1, <2>2, <2>3 DEF IInv, TypeOK, Delivered, ReadyToAck, AckedImpliesStored,
                        OneHandler, LossIsVisible
  <1>2. CASE \E c \in Consumers : Stop(c)
    <2> PICK c \in Consumers : Stop(c)
      BY <1>2
    <2>1. /\ batch' = [batch EXCEPT ![c] = NoBatch]
          /\ pc' = [pc EXCEPT ![c] = "down"]
          /\ stops' \in Nat
          /\ UNCHANGED <<added, kind, trimmed, group, cursor, pel, acked, table, up,
                         faults, outages>>
      BY DEF IInv, TypeOK, Stop, redis
    <2>2. TypeOK'
      BY <2>1 DEF IInv, TypeOK, NoBatch
    <2>3. \A d \in Consumers : Delivered(d)' /\ ReadyToAck(d)'
      BY <2>1 DEF IInv, TypeOK, Delivered, ReadyToAck, NoBatch
    <2>4. OneHandler'
      <3>1. \A d \in Consumers : batch'[d] = batch[d] \/ Entries(batch'[d]) = {}
        BY <2>1 DEF IInv, TypeOK, NoBatch, Entries
      <3> QED BY <3>1 DEF IInv, OneHandler
    <2> QED BY <2>1, <2>2, <2>3, <2>4 DEF IInv, AckedImpliesStored, LossIsVisible
  <1>3. CASE Outage \/ Recovery
    <2>1. outages' \in Nat /\ UNCHANGED <<redis, table, pc, batch, stops, faults>>
      BY <1>3 DEF IInv, TypeOK, Outage, Recovery, bounds
    <2>2. up' \in BOOLEAN
      BY <1>3 DEF Outage, Recovery
    <2> QED BY <2>1, <2>2 DEF IInv, TypeOK, Delivered, ReadyToAck, AckedImpliesStored,
                        OneHandler, LossIsVisible, redis
  <1> QED BY <1>1, <1>2, <1>3

(* Every step preserves the inductive invariant. *)
LEMMA NextIInv == ASSUME IInv, [Next]_vars PROVE IInv'
  <1>1. CASE \E k \in Kinds : Produce(k)
    BY <1>1, ProduceIInv
  <1>2. CASE \E c \in Consumers :
               Consume(c) \/ ReadLost(c) \/ LookupFails(c) \/ AckFails(c) \/ Stop(c)
    BY <1>2, ReadIInv, HandleIInv, AckIInv, OtherIInv DEF Consume
  <1>3. CASE Outage \/ Recovery
    BY <1>3, OtherIInv
  <1>4. CASE UNCHANGED vars
    BY <1>4 DEF IInv, TypeOK, Delivered, ReadyToAck, AckedImpliesStored, OneHandler,
                LossIsVisible, vars, redis, bounds
  <1> QED BY <1>1, <1>2, <1>3, <1>4 DEF Next

THEOREM Invariance == Spec => []IInv
  BY InitIInv, NextIInv, PTL DEF Spec

(* Every reachable state is well typed. *)
THEOREM TypeCorrect == Spec => []TypeOK
  BY Invariance, PTL DEF IInv

(* No entry is acknowledged before its row is committed, wherever a consumer
   crashes, whatever replies are lost and whenever Postgres is down. *)
THEOREM AckAfterCommit == Spec => []AckedImpliesStored
  BY Invariance, PTL DEF IInv

(* No two consumers of the group ever hold the same entry. *)
THEOREM Exclusive == Spec => []OneHandler
  BY Invariance, PTL DEF IInv

(* A valid entry without a row is unread, pending, or was trimmed. *)
THEOREM NoSilentLoss == Spec => []LossIsVisible
  BY Invariance, PTL DEF IInv

-----------------------------------------------------------------------------
(* Delivery.  What was delivered is pending, acknowledged or trimmed; a row or
   an acknowledgement is of a delivered entry; and what a process holds is
   pending and has no row yet, but for one about to be acknowledged. *)
Accounted ==
    /\ pel \cap acked = {}
    /\ pel \subseteq 1..cursor /\ acked \subseteq 1..cursor /\ table \subseteq 1..cursor
    /\ \A e \in 1..cursor : e \in pel \/ e \in acked \/ e <= trimmed
InHand(c) ==
    /\ Entries(batch[c]) \subseteq pel
    /\ pc[c] \in {"down", "read"} => Entries(batch[c]) = {}
    /\ \A e \in Entries(batch[c]) : e \in table => pc[c] = "ack" /\ e = batch[c].next
DInv == IInv /\ Accounted /\ \A c \in Consumers : InHand(c)

HeldBySome(e) == \E c \in Consumers : e \in Entries(batch[c])

LEMMA InitDInv == ASSUME Init PROVE DInv
  <1>1. IInv
    BY InitIInv
  <1>2. Accounted
    BY DEF Init, Accounted
  <1>3. ASSUME NEW c \in Consumers PROVE InHand(c)
    <2>1. batch[c] = NoBatch
      BY DEF Init
    <2>2. Entries(batch[c]) = {}
      BY <2>1 DEF NoBatch, Entries
    <2> QED BY <2>2 DEF InHand
  <1> QED BY <1>1, <1>2, <1>3 DEF DInv

(* The facts about one state that the steps below use. *)
LEMMA Known ==
  ASSUME DInv
  PROVE  /\ added \in Nat /\ cursor \in 0..added /\ trimmed \in 0..added
         /\ MaxEntries \in Nat /\ added <= MaxEntries
         /\ \A c \in Consumers : /\ batch[c] \in [next : Nat, last : Nat]
                                 /\ batch[c].next > 0 /\ batch[c].last <= cursor
         /\ batch \in [Consumers -> [next : Nat, last : Nat]]
         /\ pc \in [Consumers -> {"down", "read", "handle", "ack"}]
         /\ \A c, d \in Consumers : \A e \in Entries(batch[c]) : e \in Entries(batch[d]) => c = d
         /\ \A c \in Consumers : pc[c] = "ack" => batch[c].next <= batch[c].last
  <1>1. TypeOK /\ OneHandler /\ \A c \in Consumers : Delivered(c) /\ ReadyToAck(c)
    BY DEF DInv, IInv
  <1>2. MaxEntries \in Nat
    BY ConsumerAssumption
  <1>3. added \in 0..MaxEntries
    BY <1>1 DEF TypeOK
  <1>4. added \in Nat /\ added <= MaxEntries
    BY <1>2, <1>3
  <1> QED BY <1>1, <1>2, <1>4 DEF TypeOK, Delivered, ReadyToAck, OneHandler

(* The entry a process is at is the first of those it holds; moving on lets go
   of it and of nothing else. *)
LEMMA LetGo ==
  ASSUME DInv, NEW c \in Consumers, batch[c].next <= batch[c].last
  PROVE  /\ Current(c) \in Entries(batch[c]) /\ Current(c) \in pel
         /\ \A d \in Consumers \ {c} : Current(c) \notin Entries(batch[d])
         /\ Drop(c) => /\ \A d \in Consumers \ {c} : batch'[d] = batch[d]
                       /\ Entries(batch'[c]) = Entries(batch[c]) \ {Current(c)}
  <1>1. /\ batch \in [Consumers -> [next : Nat, last : Nat]]
        /\ batch[c].next \in Nat /\ batch[c].last \in Nat
        /\ \A d \in Consumers, e \in Entries(batch[c]) : e \in Entries(batch[d]) => c = d
    BY Known
  <1>2. Current(c) \in Entries(batch[c])
    BY <1>1 DEF Current, Entries
  <1>3. Current(c) \in pel
    BY <1>2 DEF DInv, InHand
  <1>4. ASSUME Drop(c)
        PROVE  /\ \A d \in Consumers \ {c} : batch'[d] = batch[d]
               /\ Entries(batch'[c]) = Entries(batch[c]) \ {Current(c)}
    <2>1. batch' = [batch EXCEPT ![c] = [batch[c] EXCEPT !.next = @ + 1]]
      BY <1>1, <1>4 DEF Drop
    <2>2. batch'[c].next = batch[c].next + 1 /\ batch'[c].last = batch[c].last
      BY <1>1, <2>1
    <2>3. \A d \in Consumers \ {c} : batch'[d] = batch[d]
      BY <1>1, <2>1
    <2> QED BY <1>1, <2>2, <2>3 DEF Entries, Current
  <1> QED BY <1>1, <1>2, <1>3, <1>4

LEMMA NextDInv == ASSUME DInv, [Next]_vars PROVE DInv'
  <1>1. IInv'
    BY NextIInv DEF DInv
  <1>2. Accounted /\ \A c \in Consumers : InHand(c)
    BY DEF DInv
  <1>3. ASSUME NEW k \in Kinds, Produce(k)
        PROVE  Accounted' /\ \A c \in Consumers : InHand(c)'
    <2>1. UNCHANGED <<cursor, pel, acked, table, pc, batch>>
      BY <1>3 DEF Produce
    <2>2. trimmed' \in Int /\ trimmed \in Int /\ trimmed <= trimmed'
      BY <1>3, Known DEF Produce
    <2>3. Accounted'
      BY <1>2, <2>1, <2>2 DEF Accounted
    <2> QED BY <1>2, <2>1, <2>3 DEF InHand
  <1>4. ASSUME NEW c \in Consumers, Read(c) \/ ReadLost(c)
        PROVE  Accounted' /\ \A d \in Consumers : InHand(d)'
    <2> DEFINE nb == NextBatch
    <2>1. /\ cursor' = nb.last /\ pel' = pel \cup Entries(nb)
          /\ LastRead < added /\ pc[c] = "read"
          /\ UNCHANGED <<added, trimmed, acked, table>>
      BY <1>4 DEF Read, ReadLost, Deliver, Pended
    <2>2. /\ nb \in [next : Nat, last : Nat]
          /\ cursor < nb.next /\ nb.next <= nb.last /\ nb.last <= added
          /\ \A e \in 1..nb.last : e <= cursor \/ e <= trimmed \/ e \in Entries(nb)
      BY <2>1, NextBatchOK DEF DInv, IInv
    <2>3. \A d \in Consumers : \/ batch'[d] = batch[d] /\ pc'[d] = pc[d]
                               \/ batch'[d] = nb /\ pc'[d] = "handle"
      BY <1>4, Known DEF Read, ReadLost
    <2> HIDE DEF nb
    <2>4. cursor \in Nat /\ added \in Nat /\ trimmed \in Nat
      BY Known
    <2>5. \A e \in Entries(nb) : e \in 1..cursor' /\ e > cursor
      BY <2>1, <2>2, <2>4 DEF Entries
    <2>6. 1..cursor \subseteq 1..cursor'
      BY <2>1, <2>2, <2>4
    <2>7. \A e \in Entries(nb) : e \notin acked /\ e \notin table
      BY <1>2, <2>4, <2>5 DEF Accounted
    <2>8. Accounted'
      <3>1. pel' \cap acked' = {}
        BY <1>2, <2>1, <2>7 DEF Accounted
      <3>2. pel' \subseteq 1..cursor' /\ acked' \subseteq 1..cursor' /\ table' \subseteq 1..cursor'
        BY <1>2, <2>1, <2>5, <2>6 DEF Accounted
      <3>3. ASSUME NEW e \in 1..cursor' PROVE e \in pel' \/ e \in acked' \/ e <= trimmed'
        <4>1. e \in 1..nb.last
          BY <2>1
        <4>2. e <= cursor => e \in 1..cursor
          BY <2>2, <2>4, <4>1
        <4> QED BY <1>2, <2>1, <2>2, <4>1, <4>2 DEF Accounted
      <3> QED BY <3>1, <3>2, <3>3 DEF Accounted
    <2>9. ASSUME NEW d \in Consumers PROVE InHand(d)'
      <3>1. CASE batch'[d] = batch[d] /\ pc'[d] = pc[d]
        BY <1>2, <2>1, <3>1 DEF InHand
      <3>2. CASE batch'[d] = nb /\ pc'[d] = "handle"
        BY <2>1, <2>7, <3>2 DEF InHand
      <3> QED BY <2>3, <3>1, <3>2
    <2> QED BY <2>8, <2>9
  <1>5. ASSUME NEW c \in Consumers,
               Store(c) \/ SkipIncomplete(c) \/ HandleFails(c) \/ LookupFails(c)
        PROVE  Accounted' /\ \A d \in Consumers : InHand(d)'
    <2>1. /\ UNCHANGED <<added, trimmed, cursor, pel, acked>> /\ Handling(c)
          /\ table' \in {table, table \cup {Current(c)}}
      BY <1>5 DEF Store, SkipIncomplete, HandleFails, LookupFails, redis
    <2>2. /\ Current(c) \in Entries(batch[c]) /\ Current(c) \in pel
          /\ \A d \in Consumers \ {c} : Current(c) \notin Entries(batch[d])
          /\ Drop(c) => /\ \A d \in Consumers \ {c} : batch'[d] = batch[d]
                        /\ Entries(batch'[c]) = Entries(batch[c]) \ {Current(c)}
      BY <2>1, LetGo DEF Handling
    <2>3. Accounted'
      BY <1>2, <2>1, <2>2 DEF Accounted
    <2>4. Current(c) = batch[c].next /\ pc[c] = "handle"
      BY <2>1 DEF Current, Handling
    <2>5. ASSUME NEW d \in Consumers, d # c PROVE InHand(d)'
      <3>1. batch'[d] = batch[d] /\ pc'[d] = pc[d]
        BY <1>5, <2>2, <2>5, Known DEF Store, SkipIncomplete, HandleFails, LookupFails
      <3>2. \A e \in Entries(batch[d]) : e \in table' => e \in table
        BY <2>1, <2>2, <2>5
      <3> QED BY <1>2, <2>1, <3>1, <3>2 DEF InHand
    <2>6. \A e \in Entries(batch[c]) : e \notin table
      BY <1>2, <2>4 DEF InHand
    <2>7. InHand(c)'
      <3>1. CASE Store(c) \/ SkipIncomplete(c)
        <4>1. batch' = batch /\ pc'[c] = "ack"
          BY <3>1, Known DEF Store, SkipIncomplete
        <4> QED BY <1>2, <2>1, <2>4, <2>6, <4>1 DEF InHand
      <3>2. CASE HandleFails(c) \/ LookupFails(c)
        <4>1. pc' = pc /\ Entries(batch'[c]) = Entries(batch[c]) \ {Current(c)}
          BY <2>2, <3>2 DEF HandleFails, LookupFails
        <4> QED BY <1>2, <2>1, <2>4, <2>6, <4>1 DEF InHand
      <3> QED BY <1>5, <3>1, <3>2
    <2> QED BY <2>3, <2>5, <2>7
  <1>6. ASSUME NEW c \in Consumers, Ack(c) \/ AckFails(c)
        PROVE  Accounted' /\ \A d \in Consumers : InHand(d)'
    <2>1. /\ UNCHANGED <<added, trimmed, cursor, table>> /\ pc[c] = "ack" /\ Drop(c)
          /\ pc' = [pc EXCEPT ![c] = "handle"]
          /\ \/ pel' = pel \ {Current(c)} /\ acked' = acked \cup {Current(c)}
             \/ pel' = pel /\ acked' = acked
      BY <1>6 DEF Ack, AckFails, redis
    <2>2. batch[c].next <= batch[c].last
      BY <2>1, Known
    <2>3. /\ Current(c) \in Entries(batch[c]) /\ Current(c) \in pel
          /\ \A d \in Consumers \ {c} : /\ Current(c) \notin Entries(batch[d])
                                       /\ batch'[d] = batch[d]
          /\ Entries(batch'[c]) = Entries(batch[c]) \ {Current(c)}
      BY <2>1, <2>2, LetGo
    <2>4. Accounted'
      BY <1>2, <2>1, <2>3 DEF Accounted
    <2>5. ASSUME NEW d \in Consumers, d # c PROVE InHand(d)'
      <3>1. pc'[d] = pc[d]
        BY <2>1, <2>5, Known
      <3> QED BY <1>2, <2>1, <2>3, <2>5, <3>1 DEF InHand
    <2>6. InHand(c)'
      <3>1. \A e \in Entries(batch[c]) : e \in table => e = Current(c)
        BY <1>2 DEF InHand, Current
      <3>2. pc'[c] = "handle"
        BY <2>1, Known
      <3> QED BY <1>2, <2>1, <2>3, <3>1, <3>2 DEF InHand
    <2> QED BY <2>4, <2>5, <2>6
  <1>7. ASSUME NEW c \in Consumers, Start(c) \/ BatchDone(c)
        PROVE  Accounted' /\ \A d \in Consumers : InHand(d)'
    <2>1. UNCHANGED <<added, trimmed, cursor, pel, acked, table, batch>>
      BY <1>7 DEF Start, BatchDone, redis
    <2>2. pc' = [pc EXCEPT ![c] = "read"] /\ Entries(batch[c]) = {}
      <3>1. CASE Start(c)
        BY <1>2, <3>1 DEF Start, InHand
      <3>2. CASE BatchDone(c)
        BY <3>2, Known DEF BatchDone, Entries
      <3> QED BY <1>7, <3>1, <3>2
    <2>3. ASSUME NEW d \in Consumers PROVE InHand(d)'
      <3>1. d # c => pc'[d] = pc[d]
        BY <2>2, Known
      <3> QED BY <1>2, <2>1, <2>2, <3>1 DEF InHand
    <2> QED BY <1>2, <2>1, <2>3 DEF Accounted
  <1>8. ASSUME NEW c \in Consumers, Stop(c)
        PROVE  Accounted' /\ \A d \in Consumers : InHand(d)'
    <2>1. UNCHANGED <<added, trimmed, cursor, pel, acked, table>>
      BY <1>8 DEF Stop, redis
    <2>2. batch'[c] = NoBatch /\ \A d \in Consumers \ {c} : batch'[d] = batch[d] /\ pc'[d] = pc[d]
      BY <1>8, Known DEF Stop
    <2>3. Entries(NoBatch) = {}
      BY DEF Entries, NoBatch
    <2>4. ASSUME NEW d \in Consumers PROVE InHand(d)'
      <3>1. CASE d = c
        BY <2>1, <2>2, <2>3, <3>1 DEF InHand
      <3>2. CASE d # c
        BY <1>2, <2>1, <2>2, <3>2 DEF InHand
      <3> QED BY <3>1, <3>2
    <2> QED BY <1>2, <2>1, <2>4 DEF Accounted
  <1>9. ASSUME Outage \/ Recovery \/ UNCHANGED vars
        PROVE  Accounted' /\ \A d \in Consumers : InHand(d)'
    <2>1. UNCHANGED <<added, trimmed, cursor, pel, acked, table, pc, batch>>
      BY <1>9 DEF Outage, Recovery, vars, redis
    <2> QED BY <1>2, <2>1 DEF Accounted, InHand
  <1>10. Accounted' /\ \A c \in Consumers : InHand(c)'
    BY ONLY <1>3, <1>4, <1>5, <1>6, <1>7, <1>8, <1>9, [Next]_vars DEF Next, Consume
  <1> QED BY <1>1, <1>10 DEF DInv

(* An entry is written while it has no row: whatever crashes and whatever is
   lost, no two transactions store the same one (consumer.py:52). *)
StoredOnce == [][\A c \in Consumers : Store(c) => Current(c) \notin table]_vars

(* No entry gets a second row: a commit is always of an entry without one, for
   any number of consumers, crashes, lost replies and outages, because what is
   pending is never read again (consumer.py:45). *)
THEOREM NoSecondRow == Spec => StoredOnce
  <1>1. ASSUME DInv, NEW c \in Consumers, Store(c) PROVE Current(c) \notin table
    <2>1. Handling(c) /\ pc[c] = "handle"
      BY <1>1 DEF Store, Handling
    <2>2. Current(c) \in Entries(batch[c])
      BY <1>1, <2>1, LetGo DEF Handling
    <2> QED BY <1>1, <2>1, <2>2 DEF DInv, InHand
  <1>2. DInv /\ [Next]_vars => [\A c \in Consumers : Store(c) => Current(c) \notin table]_vars
    BY <1>1
  <1>3. Spec => []DInv
    BY InitDInv, NextDInv, PTL DEF Spec
  <1> QED BY <1>2, <1>3, PTL DEF Spec, StoredOnce

-----------------------------------------------------------------------------
(* While nothing failed, a valid entry that was delivered has its row, was
   dropped by the stream, or is in the hands of a process: the safety half of
   ValidStored, which the fairness of the loop turns into a promise. *)
Served ==
    ~SomethingFailed =>
        /\ up
        /\ \A e \in 1..cursor : kind[e] = "valid" => \/ e \in table \/ e <= trimmed
                                                     \/ HeldBySome(e)

LEMMA NothingFailed ==
  ASSUME TypeOK
  PROVE  SomethingFailed <=> ~(stops = 0 /\ faults = 0 /\ outages = 0)
  <1>1. \A a, b, d \in Nat : a + b + d > 0 <=> ~(a = 0 /\ b = 0 /\ d = 0)
    OBVIOUS
  <1> QED BY <1>1 DEF TypeOK, SomethingFailed

LEMMA NextServed == ASSUME DInv, Served, [Next]_vars PROVE Served'
  <1> SUFFICES ASSUME ~SomethingFailed'
               PROVE  /\ up'
                      /\ \A e \in 1..cursor' : kind'[e] = "valid" =>
                             e \in table' \/ e <= trimmed' \/ HeldBySome(e)'
    BY DEF Served
  <1>1. TypeOK /\ TypeOK'
    BY NextDInv DEF DInv, IInv
  <1>2. stops' = 0 /\ faults' = 0 /\ outages' = 0
    <2>1. \A a, b, d \in Nat : a + b + d > 0 <=> ~(a = 0 /\ b = 0 /\ d = 0)
      OBVIOUS
    <2>2. stops' \in Nat /\ faults' \in Nat /\ outages' \in Nat
      BY <1>1 DEF TypeOK
    <2>3. ~(stops' + faults' + outages' > 0)
      BY DEF SomethingFailed
    <2> QED BY ONLY <2>1, <2>2, <2>3
  <1>3. cursor \in Nat /\ added \in Nat /\ trimmed \in Nat /\ cursor <= added
    BY Known
  <1>4. ASSUME stops = 0 /\ faults = 0 /\ outages = 0
        PROVE  up /\ \A e \in 1..cursor : kind[e] = "valid" =>
                         e \in table \/ e <= trimmed \/ HeldBySome(e)
    BY <1>1, <1>4, NothingFailed DEF Served
  <1>5. ASSUME NEW k \in Kinds, Produce(k)
        PROVE  /\ up'
               /\ \A e \in 1..cursor' : kind'[e] = "valid" =>
                      e \in table' \/ e <= trimmed' \/ HeldBySome(e)'
    <2>1. /\ UNCHANGED <<cursor, table, up, batch, stops, faults, outages>>
          /\ kind' = [kind EXCEPT ![added + 1] = k]
          /\ trimmed' \in Nat /\ trimmed <= trimmed'
      BY <1>3, <1>5 DEF Produce, bounds
    <2>2. ASSUME NEW e \in 1..cursor PROVE kind'[e] = kind[e] /\ e \in Nat
      BY <1>1, <1>3, <2>1 DEF TypeOK
    <2>3. ASSUME NEW e \in 1..cursor PROVE HeldBySome(e)' <=> HeldBySome(e)
      BY <2>1 DEF HeldBySome
    <2> QED BY <1>2, <1>3, <1>4, <2>1, <2>2, <2>3
  <1>6. ASSUME NEW c \in Consumers, Read(c)
        PROVE  /\ up'
               /\ \A e \in 1..cursor' : kind'[e] = "valid" =>
                      e \in table' \/ e <= trimmed' \/ HeldBySome(e)'
    <2> DEFINE nb == NextBatch
    <2>1. /\ cursor' = nb.last /\ LastRead < added /\ pc[c] = "read"
          /\ UNCHANGED <<kind, trimmed, table, up, stops, faults, outages>>
      BY <1>6 DEF Read, Deliver
    <2>2. \A e \in 1..nb.last : e <= cursor \/ e <= trimmed \/ e \in Entries(nb)
      BY <2>1, NextBatchOK DEF DInv, IInv
    <2>3. batch'[c] = nb /\ \A d \in Consumers \ {c} : batch'[d] = batch[d]
      BY <1>6, Known DEF Read
    <2>4. Entries(batch[c]) = {}
      BY <2>1 DEF DInv, InHand
    <2> HIDE DEF nb
    <2>5. \A e \in 1..cursor : HeldBySome(e) => HeldBySome(e)'
      BY <2>3, <2>4 DEF HeldBySome
    <2>6. ASSUME NEW e \in Entries(nb) PROVE HeldBySome(e)'
      BY <2>3, <2>6 DEF HeldBySome
    <2>7. \A e \in 1..nb.last : e <= cursor => e \in 1..cursor
      BY <1>3
    <2> QED BY <1>2, <1>4, <2>1, <2>2, <2>5, <2>6, <2>7
  <1>7. ASSUME NEW c \in Consumers, Store(c) \/ SkipIncomplete(c) \/ Start(c) \/ BatchDone(c)
        PROVE  /\ up'
               /\ \A e \in 1..cursor' : kind'[e] = "valid" =>
                      e \in table' \/ e <= trimmed' \/ HeldBySome(e)'
    <2>1. /\ UNCHANGED <<cursor, kind, trimmed, up, batch, stops, outages>>
          /\ table \subseteq table' /\ (faults' = faults \/ faults' = faults + 1)
      BY <1>7 DEF Store, SkipIncomplete, Start, BatchDone, redis, bounds
    <2>2. faults = 0
      BY <1>1, <1>2, <2>1 DEF TypeOK
    <2>3. \A e \in 1..cursor : HeldBySome(e)' <=> HeldBySome(e)
      BY <2>1 DEF HeldBySome
    <2> QED BY <1>2, <1>4, <2>1, <2>2, <2>3
  <1>8. ASSUME NEW c \in Consumers, HandleFails(c) \/ Ack(c)
        PROVE  /\ up'
               /\ \A e \in 1..cursor' : kind'[e] = "valid" =>
                      e \in table' \/ e <= trimmed' \/ HeldBySome(e)'
    <2>1. /\ UNCHANGED <<cursor, kind, trimmed, up, stops, faults, outages>>
          /\ table \subseteq table' /\ Drop(c)
      BY <1>8 DEF HandleFails, Ack, redis, bounds
    <2>2. batch[c].next <= batch[c].last
      BY <1>8, Known DEF HandleFails, Ack, Handling
    <2>3. /\ \A d \in Consumers \ {c} : batch'[d] = batch[d]
          /\ Entries(batch'[c]) = Entries(batch[c]) \ {Current(c)}
      BY <2>1, <2>2, LetGo
    <2>4. up /\ \A e \in 1..cursor : kind[e] = "valid" =>
                      e \in table \/ e <= trimmed \/ HeldBySome(e)
      BY <1>2, <1>4, <2>1
    <2>5. kind[Current(c)] = "valid" => Current(c) \in table
      <3>1. CASE HandleFails(c)
        BY <2>4, <3>1 DEF HandleFails
      <3>2. CASE Ack(c)
        BY <3>2 DEF Ack, DInv, IInv, ReadyToAck, Current
      <3> QED BY <1>8, <3>1, <3>2
    <2>6. \A e \in 1..cursor : HeldBySome(e) => HeldBySome(e)' \/ e = Current(c)
      BY <2>3 DEF HeldBySome
    <2> QED BY <2>1, <2>4, <2>5, <2>6
  <1>9. ASSUME NEW c \in Consumers PROVE ~(ReadLost(c) \/ LookupFails(c) \/ AckFails(c) \/ Stop(c))
    BY <1>1, <1>2 DEF ReadLost, LookupFails, AckFails, Stop, TypeOK
  <1>10. ASSUME Recovery \/ UNCHANGED vars
         PROVE  /\ up'
                /\ \A e \in 1..cursor' : kind'[e] = "valid" =>
                       e \in table' \/ e <= trimmed' \/ HeldBySome(e)'
    <2>1. UNCHANGED <<cursor, kind, trimmed, table, batch, stops, faults, outages>>
      BY <1>10 DEF Recovery, vars, redis, bounds
    <2>2. \A e \in 1..cursor : HeldBySome(e)' <=> HeldBySome(e)
      BY <2>1 DEF HeldBySome
    <2>3. up'
      BY <1>2, <1>4, <1>10, <2>1 DEF Recovery, vars
    <2> QED BY <1>2, <1>4, <2>1, <2>2, <2>3
  <1>11. ~Outage
    BY <1>1, <1>2 DEF Outage, TypeOK
  <1> QED BY ONLY <1>5, <1>6, <1>7, <1>8, <1>9, <1>10, <1>11, [Next]_vars DEF Next, Consume

(* A valid entry is never left behind while nothing fails: it has its row, was
   dropped by the stream at its limit, is still to be read, or is in the hands
   of a process (consumer.py:54: what handle() raises for one entry does not
   take the rest of the batch with it). *)
NothingLeftBehind ==
    ~SomethingFailed =>
        \A e \in 1..added : kind[e] = "valid" =>
            e \in table \/ e <= trimmed \/ e > cursor \/ HeldBySome(e)

(* The safety half of ValidStored, for any number of consumers and entries:
   entries that cannot be stored cost no valid one its row. *)
THEOREM BadEntriesCostNone == Spec => []NothingLeftBehind
  <1>1. ASSUME Init PROVE Served
    BY <1>1 DEF Init, Served
  <1>2. ASSUME DInv, Served PROVE NothingLeftBehind
    <2>1. added \in Nat /\ cursor \in Nat
      BY <1>2, Known
    <2>2. \A e \in 1..added : e > cursor \/ e \in 1..cursor
      BY <2>1
    <2> QED BY <1>2, <2>2 DEF Served, NothingLeftBehind
  <1> QED BY <1>1, <1>2, InitDInv, NextDInv, NextServed, PTL DEF Spec

(* ------------------------------ refinement ------------------------------ *)

(* What the mapping makes of a state. *)
LEMMA LifeIs ==
  ASSUME DInv, NEW e \in 1..MaxEntries
  PROVE  /\ Life(e) = "unsent" <=> e > added
         /\ Life(e) = "settled" <=> e \in acked
         /\ Life(e) = "held" <=> HeldBySome(e)
         /\ Life(e) = "stuck" <=> e \in pel /\ ~HeldBySome(e)
         /\ Life(e) = "dropped" <=> e \notin pel /\ e \notin acked /\ e <= trimmed
         /\ Life(e) = "waiting" <=> e <= added /\ e > cursor /\ e > trimmed
  <1>1. /\ added \in Nat /\ cursor \in 0..added /\ trimmed \in 0..added /\ e \in Nat /\ e > 0
    BY Known
  <1>2. e \in pel \/ e \in acked => e <= cursor /\ e <= added
    BY <1>1 DEF DInv, Accounted
  <1>3. ~(e \in pel /\ e \in acked)
    BY DEF DInv, Accounted
  <1>4. e <= cursor => e \in pel \/ e \in acked \/ e <= trimmed
    BY <1>1 DEF DInv, Accounted
  <1>5. HeldBySome(e) => e \in pel
    BY DEF DInv, InHand, HeldBySome
  <1>6. Life(e) = IF e > added THEN "unsent"
                  ELSE IF e \in acked THEN "settled"
                  ELSE IF e \in pel THEN IF HeldBySome(e) THEN "held" ELSE "stuck"
                  ELSE IF e <= trimmed THEN "dropped" ELSE "waiting"
    BY DEF Life, HeldBySome
  <1> QED BY ONLY <1>1, <1>2, <1>3, <1>4, <1>5, <1>6

(* A step in which nothing is added, acknowledged, or changes hands changes no
   life. *)
LEMMA SameLife ==
  ASSUME NEW e \in 1..MaxEntries, UNCHANGED <<added, trimmed>>,
         e \in acked' <=> e \in acked, e \in pel' <=> e \in pel,
         HeldBySome(e)' <=> HeldBySome(e)
  PROVE  Life(e)' = Life(e)
  BY DEF Life, HeldBySome

LEMMA InitLives == ASSUME Init PROVE Lives!Init
  <1>1. ASSUME NEW e \in 1..MaxEntries PROVE Life(e) = "unsent"
    BY <1>1, ConsumerAssumption DEF Init, Life
  <1> QED BY <1>1 DEF Init, Lives!Init

LEMMA Becomes ==
  ASSUME NEW E, NEW l, \A e \in 1..MaxEntries : Life(e)' = IF e \in E THEN l ELSE Life(e)
  PROVE  Lives!Become(E, l)
  BY DEF Lives!Become

LEMMA StillLives ==
  ASSUME UNCHANGED <<kind, table>>, \A e \in 1..MaxEntries : Life(e)' = Life(e)
  PROVE  UNCHANGED Lives!entries
  BY DEF Lives!entries

(* Adding an entry. *)
LEMMA ProduceLives ==
  ASSUME DInv, NEW k \in Kinds, Produce(k)
  PROVE  Lives!Next
  <1> DEFINE new == added + 1
             n == IF trimmed' = trimmed THEN 0 ELSE trimmed'
  <1>1. /\ added \in Nat /\ cursor \in 0..added /\ trimmed \in 0..added /\ MaxEntries \in Nat
        /\ MaxLen \in Nat
    BY Known, ConsumerAssumption
  <1>2. /\ added < MaxEntries /\ added' = new /\ kind' = [kind EXCEPT ![new] = k]
        /\ UNCHANGED <<cursor, pel, acked, table, batch>>
        /\ trimmed' \in trimmed..added /\ (trimmed' = trimmed \/ new - trimmed' >= MaxLen)
    <2>1. /\ added < MaxEntries /\ added' = new /\ kind' = [kind EXCEPT ![new] = k]
          /\ UNCHANGED <<cursor, pel, acked, table, batch>>
      BY ONLY Produce(k) DEF Produce
    <2>2. PICK t \in trimmed..added : /\ t = trimmed \/ added + 1 - t >= MaxLen
                                      /\ trimmed' = t
      BY Zenon DEF Produce
    <2>3. trimmed' \in trimmed..added /\ (trimmed' = trimmed \/ new - trimmed' >= MaxLen)
      BY ONLY <1>1, <2>2, t \in trimmed..added
    <2> HIDE DEF new
    <2> QED BY <2>1, <2>3
  <1>3. new \in 1..MaxEntries /\ n \in 0..MaxEntries /\ (n = 0 \/ new - n >= MaxLen)
    <2>1. trimmed' \in 0..MaxEntries
      BY ONLY <1>1, <1>2
    <2>2. n \in 0..MaxEntries
      BY ONLY <1>1, <2>1
    <2>3. n = 0 \/ (n = trimmed' /\ trimmed' # trimmed)
      OBVIOUS
    <2>4. new \in 1..MaxEntries
      BY ONLY <1>1, <1>2
    <2> HIDE DEF n
    <2> QED BY ONLY <1>2, <2>2, <2>3, <2>4
  <1>4. DInv'
    BY NextDInv DEF Next
  <1>5. \A d \in 1..MaxEntries : (Life(d) = "unsent") = (d > added)
    BY LifeIs
  <1>6. ASSUME NEW d \in 1..MaxEntries
        PROVE  Life(d)' = IF d = new THEN "waiting"
                          ELSE IF Life(d) = "waiting" /\ d <= n THEN "dropped" ELSE Life(d)
    <2>1. HeldBySome(d)' <=> HeldBySome(d)
      BY <1>2 DEF HeldBySome
    <2>2. d \in pel \/ d \in acked => d <= added
      BY <1>1 DEF DInv, Accounted
    <2>3. Life(d) = IF d > added THEN "unsent"
                    ELSE IF d \in acked THEN "settled"
                    ELSE IF d \in pel THEN IF HeldBySome(d) THEN "held" ELSE "stuck"
                    ELSE IF d <= trimmed THEN "dropped" ELSE "waiting"
      BY DEF Life, HeldBySome
    <2>4. Life(d)' = IF d > new THEN "unsent"
                     ELSE IF d \in acked THEN "settled"
                     ELSE IF d \in pel THEN IF HeldBySome(d) THEN "held" ELSE "stuck"
                     ELSE IF d <= trimmed' THEN "dropped" ELSE "waiting"
      BY <1>2, <2>1 DEF Life, HeldBySome
    <2> QED BY ONLY <1>1, <1>2, <2>2, <2>3, <2>4
  <1> HIDE DEF n, new
  <1>7. Lives!Add(new, k, n)
    <2>1. new \in Lives!In("unsent") /\ \A d \in 1..(new - 1) : d \notin Lives!In("unsent")
      BY <1>1, <1>3, <1>5 DEF Lives!In, new
    <2>2. \A d \in 1..MaxEntries : d \in Lives!FirstWaiting(n) <=> Life(d) = "waiting" /\ d <= n
      BY DEF Lives!FirstWaiting, Lives!In
    <2>3. [d \in 1..MaxEntries |-> Life(d)']
              = [d \in 1..MaxEntries |-> IF d = new THEN "waiting"
                                         ELSE IF d \in Lives!FirstWaiting(n) THEN "dropped"
                                         ELSE [e \in 1..MaxEntries |-> Life(e)][d]]
      BY <1>6, <2>2
    <2> QED BY <1>2, <1>3, <2>1, <2>3 DEF Lives!Add
  <1> QED BY <1>3, <1>7 DEF Lives!Next

(* A delivery hands out the entries of the batch, or loses them. *)
LEMMA ReadLives ==
  ASSUME DInv, NEW c \in Consumers, Read(c) \/ ReadLost(c)
  PROVE  Lives!Next
  <1> DEFINE nb == NextBatch
             l == IF Read(c) THEN "held" ELSE "stuck"
  <1>1. /\ cursor' = nb.last /\ pel' = pel \cup Entries(nb)
        /\ LastRead < added /\ pc[c] = "read"
        /\ UNCHANGED <<added, trimmed, acked, table, kind>>
    BY DEF Read, ReadLost, Deliver, Pended
  <1>2. /\ nb \in [next : Nat, last : Nat]
        /\ cursor < nb.next /\ trimmed < nb.next /\ nb.next <= nb.last /\ nb.last <= added
        /\ \A e \in 1..nb.last : e <= cursor \/ e <= trimmed \/ e \in Entries(nb)
    BY <1>1, NextBatchOK DEF DInv, IInv, NextBatch, LastRead, TypeOK
  <1>3. \/ Read(c) /\ batch'[c] = nb /\ \A d \in Consumers \ {c} : batch'[d] = batch[d]
        \/ ~Read(c) /\ batch' = batch
    BY Known DEF Read, ReadLost
  <1>4. l = "held" <=> Read(c)
    OBVIOUS
  <1>5. l \in {"held", "stuck"}
    OBVIOUS
  <1> HIDE DEF nb, l
  <1>6. /\ added \in Nat /\ cursor \in 0..added /\ trimmed \in 0..added /\ MaxEntries \in Nat
        /\ added <= MaxEntries
    BY Known
  <1>7. Entries(batch[c]) = {}
    BY <1>1 DEF DInv, InHand
  <1>8. ASSUME NEW e \in 1..MaxEntries
        PROVE  e \in Entries(nb) <=> Life(e) = "waiting" /\ e <= nb.last
    <2>1. Life(e) = "waiting" <=> e <= added /\ e > cursor /\ e > trimmed
      BY LifeIs
    <2> QED BY ONLY <1>2, <1>6, <2>1, e \in 1..MaxEntries DEF Entries
  <1>9. ASSUME NEW e \in 1..MaxEntries
        PROVE  Life(e)' = IF e \in Entries(nb) THEN l ELSE Life(e)
    <2>1. e \in pel \/ e \in acked \/ HeldBySome(e) => e <= cursor
      BY <1>6 DEF DInv, Accounted, InHand, HeldBySome
    <2>2. CASE e \in Entries(nb)
      <3>1. e > cursor /\ e <= added /\ e \in pel'
        BY <1>1, <1>2, <1>6, <2>2 DEF Entries
      <3>2. e \notin acked' /\ ~(e > added') /\ ~HeldBySome(e)
        BY <1>1, <1>6, <2>1, <3>1
      <3>3. HeldBySome(e)' <=> Read(c)
        BY <1>3, <2>2, <3>2 DEF HeldBySome
      <3>4. Life(e)' = IF HeldBySome(e)' THEN "held" ELSE "stuck"
        BY <3>1, <3>2 DEF Life, HeldBySome
      <3> QED BY <1>4, <1>5, <2>2, <3>3, <3>4
    <2>3. CASE e \notin Entries(nb)
      <3>1. HeldBySome(e)' <=> HeldBySome(e)
        BY <1>3, <1>7, <2>3 DEF HeldBySome
      <3> QED BY <1>1, <2>3, <3>1, SameLife
    <2> QED BY <2>2, <2>3
  <1>10. nb.last \in 1..MaxEntries /\ Life(nb.last) = "waiting"
    <2>1. nb.last \in 1..MaxEntries
      BY <1>2, <1>6
    <2>2. nb.last <= added /\ nb.last > cursor /\ nb.last > trimmed
      BY <1>2, <1>6
    <2> QED BY <2>1, <2>2, LifeIs
  <1>11. Lives!Become(Lives!FirstWaiting(nb.last), l)
    <2>1. \A e \in 1..MaxEntries : e \in Entries(nb) <=> e \in Lives!FirstWaiting(nb.last)
      BY <1>8 DEF Lives!FirstWaiting, Lives!In
    <2> QED BY <1>9, <2>1, Becomes
  <1>12. Lives!HandOut(nb.last)
    BY <1>1, <1>5, <1>10, <1>11 DEF Lives!HandOut, Lives!In
  <1> QED BY <1>10, <1>12 DEF Lives!Next

(* handle() and what comes of it: the entry is stored, settled or given up. *)
LEMMA HandleLives ==
  ASSUME DInv, NEW c \in Consumers,
         \/ Store(c) \/ SkipIncomplete(c) \/ HandleFails(c)
         \/ LookupFails(c) \/ Ack(c) \/ AckFails(c)
  PROVE  Lives!Next \/ UNCHANGED Lives!entries
  <1> DEFINE cur == Current(c)
  <1>1. batch[c].next <= batch[c].last
    BY Known DEF Store, SkipIncomplete, HandleFails, LookupFails, Handling, Ack, AckFails
  <1>2. /\ cur \in Entries(batch[c]) /\ cur \in pel
        /\ \A d \in Consumers \ {c} : cur \notin Entries(batch[d])
        /\ Drop(c) => /\ \A d \in Consumers \ {c} : batch'[d] = batch[d]
                      /\ Entries(batch'[c]) = Entries(batch[c]) \ {cur}
    BY <1>1, LetGo
  <1> HIDE DEF cur
  <1>3. cur \in 1..MaxEntries
    BY <1>2, Known DEF DInv, Accounted
  <1>4. Life(cur) = "held" /\ cur \in Lives!In("held")
    <2>1. HeldBySome(cur)
      BY <1>2 DEF HeldBySome
    <2>2. Life(cur) = "held"
      BY <1>3, <2>1, LifeIs
    <2> QED BY <1>3, <2>2 DEF Lives!In
  <1>5. UNCHANGED <<added, trimmed, kind>>
    BY DEF Store, SkipIncomplete, HandleFails, LookupFails, Ack, AckFails, redis
  <1>6. ASSUME Drop(c), NEW e \in 1..MaxEntries
        PROVE  HeldBySome(e)' <=> (HeldBySome(e) /\ e # cur)
    BY <1>2, <1>6 DEF HeldBySome
  <1>7. ASSUME Drop(c), pel' = pel, acked' = acked
        PROVE  Lives!Become({cur}, "stuck")
    <2>1. ASSUME NEW e \in 1..MaxEntries
          PROVE  Life(e)' = IF e \in {cur} THEN "stuck" ELSE Life(e)
      <3>1. CASE e = cur
        <4>1. ~HeldBySome(e)'
          BY <1>6, <1>7, <3>1
        <4>2. e \in pel' /\ e \notin acked' /\ ~(e > added')
          BY <1>2, <1>4, <1>5, <1>7, <3>1, LifeIs, Known DEF DInv, Accounted
        <4> QED BY <3>1, <4>1, <4>2 DEF Life, HeldBySome
      <3>2. CASE e # cur
        <4>1. HeldBySome(e)' <=> HeldBySome(e)
          BY <1>6, <1>7, <3>2
        <4> QED BY <1>5, <1>7, <3>2, <4>1, SameLife
      <3> QED BY <3>1, <3>2
    <2> QED BY <2>1, Becomes
  <1>8. CASE Store(c)
    <2>1. /\ UNCHANGED <<pel, acked, batch>> /\ kind[cur] = "valid" /\ table' = table \cup {cur}
      BY <1>8 DEF Store, redis, cur
    <2>2. \A e \in 1..MaxEntries : Life(e)' = Life(e)
      BY <1>5, <2>1, SameLife DEF HeldBySome
    <2>3. Lives!Commit(cur)
      BY <1>4, <1>5, <2>1, <2>2 DEF Lives!Commit
    <2> QED BY <1>3, <2>3 DEF Lives!Next
  <1>9. CASE SkipIncomplete(c)
    <2>1. UNCHANGED <<pel, acked, batch, table>>
      BY <1>9 DEF SkipIncomplete, redis
    <2>2. \A e \in 1..MaxEntries : Life(e)' = Life(e)
      BY <1>5, <2>1, SameLife DEF HeldBySome
    <2> QED BY <1>5, <2>1, <2>2, StillLives
  <1>10. CASE HandleFails(c)
    <2>1. Drop(c) /\ pel' = pel /\ acked' = acked
      BY <1>10 DEF HandleFails, redis
    <2>2. Lives!Become({cur}, "stuck")
      BY <1>7, <2>1
    <2>3. table' = table \/ (kind[cur] = "valid" /\ table' = table \cup {cur})
      BY <1>10 DEF HandleFails, cur
    <2>4. CASE table' = table
      <3>1. Lives!GiveUp({cur})
        BY <1>4, <1>5, <2>2, <2>4 DEF Lives!GiveUp
      <3> QED BY <1>3, <3>1 DEF Lives!Next
    <2>5. CASE kind[cur] = "valid" /\ table' = table \cup {cur}
      <3>1. Lives!Commit(cur)
        BY <1>4, <1>5, <2>2, <2>5 DEF Lives!Commit
      <3> QED BY <1>3, <3>1 DEF Lives!Next
    <2> QED BY <2>3, <2>4, <2>5
  <1>11. CASE Ack(c)
    <2>1. /\ Drop(c) /\ pel' = pel \ {cur} /\ acked' = acked \cup {cur} /\ table' = table
          /\ pc[c] = "ack"
      BY <1>11 DEF Ack, cur
    <2>2. cur \in table \/ kind[cur] = "incomplete"
      BY <2>1 DEF DInv, IInv, ReadyToAck, Current, cur
    <2>3. ASSUME NEW e \in 1..MaxEntries
          PROVE  Life(e)' = IF e \in {cur} THEN "settled" ELSE Life(e)
      <3>1. CASE e = cur
        <4>1. e \in acked' /\ ~(e > added')
          BY <1>4, <1>5, <2>1, <3>1, <1>3, LifeIs
        <4> QED BY <3>1, <4>1 DEF Life
      <3>2. CASE e # cur
        <4>1. HeldBySome(e)' <=> HeldBySome(e)
          BY <1>6, <2>1, <3>2
        <4> QED BY <1>5, <2>1, <3>2, <4>1, SameLife
      <3> QED BY <3>1, <3>2
    <2>4. Lives!Become({cur}, "settled")
      BY <2>3, Becomes
    <2>5. Lives!Settle(cur)
      BY <1>4, <1>5, <2>1, <2>2, <2>4 DEF Lives!Settle
    <2> QED BY <1>3, <2>5 DEF Lives!Next
  <1>12. CASE AckFails(c) \/ LookupFails(c)
    <2>1. Drop(c) /\ pel' = pel /\ acked' = acked /\ table' = table
      BY <1>12 DEF AckFails, LookupFails, redis
    <2>2. Lives!GiveUp({cur})
      BY <1>4, <1>5, <1>7, <2>1 DEF Lives!GiveUp
    <2> QED BY <1>3, <2>2 DEF Lives!Next
  <1> QED BY <1>8, <1>9, <1>10, <1>11, <1>12

(* A process that stops gives up all it holds; the other steps change nothing
   for any entry. *)
LEMMA OtherLives ==
  ASSUME DInv,
         \/ \E c \in Consumers : Start(c) \/ BatchDone(c) \/ Stop(c)
         \/ Outage \/ Recovery \/ UNCHANGED vars
  PROVE  Lives!Next \/ UNCHANGED Lives!entries
  <1>1. UNCHANGED <<added, kind, trimmed, pel, acked, table>>
    BY DEF Start, BatchDone, Stop, Outage, Recovery, vars, redis
  <1>2. CASE batch' = batch
    <2>1. \A e \in 1..MaxEntries : Life(e)' = Life(e)
      BY <1>1, <1>2, SameLife DEF HeldBySome
    <2> QED BY <1>1, <2>1, StillLives
  <1>3. ASSUME NEW c \in Consumers, Stop(c) PROVE Lives!Next
    <2> DEFINE E == Entries(batch[c])
    <2>1. batch'[c] = NoBatch /\ \A d \in Consumers \ {c} : batch'[d] = batch[d]
      BY <1>3, Known DEF Stop
    <2>2. Entries(NoBatch) = {}
      BY DEF Entries, NoBatch
    <2>3. \A e \in E : /\ e \in pel /\ HeldBySome(e)
                       /\ \A d \in Consumers \ {c} : e \notin Entries(batch[d])
      BY Known DEF DInv, InHand, HeldBySome
    <2>4. \A e \in E : e \in 1..MaxEntries /\ e \notin acked /\ e <= added
      <3>1. \A e \in pel : e \in 1..cursor /\ e \notin acked
        BY DEF DInv, Accounted
      <3>2. 1..cursor \subseteq 1..MaxEntries /\ \A e \in 1..cursor : e <= added
        <4>1. added \in Nat /\ cursor \in 0..added /\ MaxEntries \in Nat /\ added <= MaxEntries
          BY Known
        <4> QED BY ONLY <4>1
      <3> QED BY <2>3, <3>1, <3>2
    <2>5. ASSUME NEW e \in 1..MaxEntries PROVE HeldBySome(e)' <=> (HeldBySome(e) /\ e \notin E)
      BY <2>1, <2>2, <2>3 DEF HeldBySome
    <2> HIDE DEF E
    <2>6. ASSUME NEW e \in 1..MaxEntries
          PROVE  Life(e)' = IF e \in E THEN "stuck" ELSE Life(e)
      <3>1. CASE e \in E
        <4>1. ~HeldBySome(e)' /\ e \in pel' /\ e \notin acked' /\ e <= added'
          BY <1>1, <2>3, <2>4, <2>5, <3>1
        <4>2. ~(e > added')
          BY <1>1, <4>1, Known
        <4> QED BY <3>1, <4>1, <4>2 DEF Life, HeldBySome
      <3>2. CASE e \notin E
        <4>1. HeldBySome(e)' <=> HeldBySome(e)
          BY <2>5, <3>2
        <4> QED BY <1>1, <3>2, <4>1, SameLife
      <3> QED BY <3>1, <3>2
    <2>7. E \subseteq Lives!In("held")
      <3>1. \A e \in E : Life(e) = "held"
        BY <2>3, <2>4, LifeIs
      <3> QED BY <2>4, <3>1 DEF Lives!In
    <2>8. Lives!GiveUp(E)
      BY <1>1, <2>6, <2>7, Becomes DEF Lives!GiveUp
    <2>9. E \in SUBSET (1..MaxEntries)
      BY <2>4
    <2> QED BY <2>8, <2>9 DEF Lives!Next
  <1>4. batch' = batch \/ \E c \in Consumers : Stop(c)
    BY DEF Start, BatchDone, Stop, Outage, Recovery, vars
  <1> QED BY <1>2, <1>3, <1>4

(* Every step of the consumers is a step of Delivery, or none. *)
LEMMA StepLives == ASSUME DInv, [Next]_vars PROVE [Lives!Next]_(Lives!entries)
  <1>1. CASE \E k \in Kinds : Produce(k)
    BY <1>1, ProduceLives
  <1>2. CASE \E c \in Consumers :
               Consume(c) \/ ReadLost(c) \/ LookupFails(c) \/ AckFails(c) \/ Stop(c)
    <2> PICK c \in Consumers :
               Consume(c) \/ ReadLost(c) \/ LookupFails(c) \/ AckFails(c) \/ Stop(c)
      BY <1>2
    <2>1. CASE Read(c) \/ ReadLost(c)
      BY <2>1, ReadLives
    <2>2. CASE \/ Store(c) \/ SkipIncomplete(c) \/ HandleFails(c) \/ LookupFails(c)
               \/ Ack(c) \/ AckFails(c)
      BY <2>2, HandleLives
    <2>3. CASE Start(c) \/ BatchDone(c) \/ Stop(c)
      BY <2>3, OtherLives
    <2> QED BY <2>1, <2>2, <2>3 DEF Consume
  <1>3. CASE Outage \/ Recovery \/ UNCHANGED vars
    BY <1>3, OtherLives
  <1> QED BY <1>1, <1>2, <1>3 DEF Next

(* The consumers of a group implement Delivery: every entry is handed to one of
   them at most once and in order, is settled only with its row, and is never
   taken up again when it was given up on; initial states map to initial
   states, every step to a step or a stutter (consumer.py:42). *)
THEOREM DeliveryImplemented == Spec => ImplementsDelivery
  <1>1. Spec => []DInv
    BY InitDInv, NextDInv, PTL DEF Spec
  <1> QED BY <1>1, InitLives, StepLives, PTL DEF Spec, ImplementsDelivery, Lives!Spec

(* An entry that is pending and in nobody's hands stays so, and if it has no
   row it never gets one: consumer.py:45 asks for new entries only, and nothing
   claims old ones. *)
StuckForGood ==
    [][\A e \in 1..MaxEntries : Life(e) = "stuck" =>
           Life(e)' = "stuck" /\ (e \notin table => e \notin table')]_vars

(* What failed once is never retried, for any number of consumers and entries,
   with a Postgres that is up again or without an outage: the reason why
   RetriedAfterOutage does not hold. *)
THEOREM NeverRetried == Spec => StuckForGood
  <1>1. ASSUME DInv, [Next]_vars, NEW e \in 1..MaxEntries, Life(e) = "stuck"
        PROVE  Life(e)' = "stuck" /\ (e \notin table => e \notin table')
    <2> DEFINE L == [d \in 1..MaxEntries |-> Life(d)]
    <2>1. [Lives!Next]_(Lives!entries)
      BY <1>1, StepLives
    <2>2. /\ e \notin Lives!In("held") /\ e \notin Lives!In("waiting")
          /\ e \notin Lives!In("unsent")
      BY <1>1 DEF Lives!In
    <2>3. ASSUME NEW E \in SUBSET (1..MaxEntries), NEW l \in {"held", "stuck", "settled"},
                 Lives!Become(E, l), l = "stuck" \/ e \notin E
          PROVE  Life(e)' = "stuck"
      BY <1>1, <2>3 DEF Lives!Become
    <2>4. CASE UNCHANGED Lives!entries
      <3>1. L' = L /\ table' = table
        BY <2>4 DEF Lives!entries
      <3>2. L'[e] = Life(e)' /\ L[e] = Life(e)
        OBVIOUS
      <3> QED BY <1>1, <3>1, <3>2
    <2>5. ASSUME NEW d \in 1..MaxEntries, NEW k \in Kinds, NEW n \in 0..MaxEntries,
                 Lives!Add(d, k, n)
          PROVE  Life(e)' = "stuck" /\ table' = table
      BY <1>1, <2>2, <2>5 DEF Lives!Add, Lives!FirstWaiting
    <2>6. ASSUME NEW n \in 1..MaxEntries, Lives!HandOut(n)
          PROVE  Life(e)' = "stuck" /\ table' = table
      <3>1. PICK l \in {"held", "stuck"} : Lives!Become(Lives!FirstWaiting(n), l)
        BY <2>6 DEF Lives!HandOut
      <3>2. e \notin Lives!FirstWaiting(n) /\ Lives!FirstWaiting(n) \in SUBSET (1..MaxEntries)
        BY <2>2 DEF Lives!FirstWaiting, Lives!In
      <3>3. table' = table
        BY <2>6 DEF Lives!HandOut
      <3> QED BY <2>3, <3>1, <3>2, <3>3
    <2>7. ASSUME NEW d \in 1..MaxEntries, Lives!Commit(d) \/ Lives!Settle(d)
          PROVE  Life(e)' = "stuck" /\ (e \notin table => e \notin table')
      <3>1. d # e
        BY <2>2, <2>7 DEF Lives!Commit, Lives!Settle
      <3>2. e \notin {d} /\ {d} \in SUBSET (1..MaxEntries)
        BY <3>1
      <3>3. e \notin table => e \notin table'
        BY <2>7, <3>1 DEF Lives!Commit, Lives!Settle
      <3>4. \/ L' = L \/ Lives!Become({d}, "stuck") \/ Lives!Become({d}, "settled")
        BY <2>7 DEF Lives!Commit, Lives!Settle
      <3>5. L'[e] = Life(e)' /\ L[e] = Life(e)
        OBVIOUS
      <3>6. L' = L => Life(e)' = "stuck"
        BY <1>1, <3>5
      <3> HIDE DEF L
      <3> QED BY <2>3, <3>2, <3>3, <3>4, <3>6
    <2>8. ASSUME NEW E \in SUBSET (1..MaxEntries), Lives!GiveUp(E)
          PROVE  Life(e)' = "stuck" /\ table' = table
      BY <2>3, <2>8 DEF Lives!GiveUp
    <2> HIDE DEF L
    <2> QED BY <2>1, <2>4, <2>5, <2>6, <2>7, <2>8 DEF Lives!Next
  <1>2. DInv /\ [Next]_vars =>
            [\A e \in 1..MaxEntries : Life(e) = "stuck" =>
                 Life(e)' = "stuck" /\ (e \notin table => e \notin table')]_vars
    BY <1>1
  <1>3. Spec => []DInv
    BY InitDInv, NextDInv, PTL DEF Spec
  <1> QED BY <1>2, <1>3, PTL DEF Spec, StuckForGood
=============================================================================
