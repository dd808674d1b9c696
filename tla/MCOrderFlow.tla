---------------------------- MODULE MCOrderFlow ----------------------------
(***************************************************************************)
(* The deployments of OrderFlow that the runs check.                       *)
(***************************************************************************)
EXTENDS OrderFlow

Running(ls, ss) == [l \in Loops |-> IF l \in ls THEN ss ELSE {}]
Every == {"APPROVE", "REJECT", "ORDER", "KILL", "RESET", "MODE"}
Auto == {"TRUSTED"}
Manual == {"COMMANDER"}

(* The scheduler service, an operator who may do anything, the monitors. *)
Attended == [watch |-> Running(Runners, {"A"}), sides |-> Sides,
             modes |-> Auto \cup Manual, requests |-> Every,
             maxIds |-> 2, maxRequests |-> 2, maxTrips |-> 1, maxFaults |-> 0]
(* A paper loop whose every decision waits for the operator. *)
Queueing == [watch |-> Running(PaperLoops, {"A"}), sides |-> Sides,
             modes |-> Manual, requests |-> {"APPROVE", "REJECT", "KILL", "RESET"},
             maxIds |-> 2, maxRequests |-> 4, maxTrips |-> 0, maxFaults |-> 0]
(* A paper loop on its own, and the cycle runner on its own. *)
LongOnly(ls, n) ==
            [watch |-> Running(ls, {"A", "B"}), sides |-> {"BUY"},
             modes |-> Auto, requests |-> {},
             maxIds |-> 3, maxRequests |-> 0, maxTrips |-> n, maxFaults |-> 0]
(* Both sides, a KILL request, an activation and one failed read. *)
Draining == [watch |-> Running(PaperLoops, {"A"}), sides |-> Sides,
             modes |-> Auto, requests |-> {"KILL"},
             maxIds |-> 3, maxRequests |-> 1, maxTrips |-> 1, maxFaults |-> 1]
(* The cycle runner and one KILL request. *)
Scheduled == [watch |-> Running(Runners, {"A"}), sides |-> {"BUY"},
              modes |-> Auto, requests |-> {"KILL"},
              maxIds |-> 2, maxRequests |-> 1, maxTrips |-> 0, maxFaults |-> 0]
(* Decisions of one round, and two approvals. *)
TwoApprovals == [watch |-> Running(PaperLoops, {"A"}), sides |-> {"BUY"},
                 modes |-> Manual, requests |-> {"APPROVE"},
                 maxIds |-> 1, maxRequests |-> 2, maxTrips |-> 0, maxFaults |-> 0]

Safely == {Attended, Queueing, LongOnly(PaperLoops, 1), LongOnly(Runners, 1), Draining}
Scheduled1 == {Scheduled}
TwoApprovals1 == {TwoApprovals}
Unattended1 == {[LongOnly(PaperLoops, 0) EXCEPT !.maxIds = 1]}
=============================================================================
