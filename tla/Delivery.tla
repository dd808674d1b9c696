------------------------------ MODULE Delivery ------------------------------
(***************************************************************************)
(* What a stream, its consumer group and the writer on top of it come to,  *)
(* for an entry: it waits, it is handed out once, in order, and then it is *)
(* settled or stuck for good.  There are no consumers, cursors or batches  *)
(* here, only what has become of each entry, and the rows of the table.    *)
(***************************************************************************)
EXTENDS Integers

CONSTANTS MaxLen, Kinds, MaxEntries

VARIABLES
    kind,     \* of each entry added
    life,     \* "unsent", "waiting", "dropped", "held", "stuck" or "settled"
    rows      \* entries that have their row

entries == <<kind, life, rows>>

In(l) == {e \in 1..MaxEntries : life[e] = l}
FirstWaiting(n) == {e \in In("waiting") : e <= n}
Become(E, l) == life' = [e \in 1..MaxEntries |-> IF e \in E THEN l ELSE life[e]]

Init ==
    /\ kind = [e \in 1..MaxEntries |-> "none"]
    /\ life = [e \in 1..MaxEntries |-> "unsent"]
    /\ rows = {}

(* An entry is added at the end.  It may push the oldest ones out unread, and
   leaves at least MaxLen. *)
Add(e, k, n) ==
    /\ e \in In("unsent") /\ \A d \in 1..(e - 1) : d \notin In("unsent")
    /\ n = 0 \/ e - n >= MaxLen
    /\ kind' = [kind EXCEPT ![e] = k]
    /\ life' = [d \in 1..MaxEntries |-> IF d = e THEN "waiting"
                                        ELSE IF d \in FirstWaiting(n) THEN "dropped"
                                        ELSE life[d]]
    /\ UNCHANGED rows

(* The oldest entries that wait are handed out, or are lost on the way. *)
HandOut(n) ==
    /\ n \in In("waiting")
    /\ \E l \in {"held", "stuck"} : Become(FirstWaiting(n), l)
    /\ UNCHANGED <<kind, rows>>

(* A row is written by the holder of a valid entry, who may not get to know
   of it. *)
Commit(e) ==
    /\ e \in In("held") /\ kind[e] = "valid"
    /\ rows' = rows \cup {e}
    /\ UNCHANGED life \/ Become({e}, "stuck")
    /\ UNCHANGED kind

Settle(e) ==
    /\ e \in In("held") /\ (e \in rows \/ kind[e] = "incomplete")
    /\ Become({e}, "settled")
    /\ UNCHANGED <<kind, rows>>

(* A holder gives up, on one entry or on all it holds.  Nobody takes over. *)
GiveUp(E) ==
    /\ E \subseteq In("held")
    /\ Become(E, "stuck")
    /\ UNCHANGED <<kind, rows>>

Next ==
    \/ \E e \in 1..MaxEntries, k \in Kinds, n \in 0..MaxEntries : Add(e, k, n)
    \/ \E n \in 1..MaxEntries : HandOut(n)
    \/ \E e \in 1..MaxEntries : Commit(e) \/ Settle(e)
    \/ \E E \in SUBSET (1..MaxEntries) : GiveUp(E)

Spec == Init /\ [][Next]_entries
=============================================================================
