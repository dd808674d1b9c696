--------------------------- MODULE MCPaperBroker ---------------------------
(***************************************************************************)
(* Small instances of PaperBroker, and its refinement of the Ledger.       *)
(***************************************************************************)
EXTENDS PaperBroker

Everywhere(on) == [c \in Clients |-> on]
OneAtATime == [habit |-> "serial",  reach |-> Everywhere(Symbols)]
WithCare   == [habit |-> "careful", reach |-> Everywhere(Symbols)]
OneSymbol  == [habit |-> "free",    reach |-> Everywhere({"A"})]
Apart      == [habit |-> "free",
               reach |-> [c \in Clients |-> IF c = "cycleA" THEN {"A"} ELSE {"B"}]]

AllTraffic == {OneAtATime, WithCare, OneSymbol, Apart}
ApartOnly  == {Apart}

-----------------------------------------------------------------------------
(* The refinement of Ledger: an operation happens at the last of its writes
   to the ledger; until then the abstract ledger shows what the operation
   read. *)
AbstractCash ==
    IF \E c \in Clients : pc[c] \in {"setPosition", "readPnl", "setPnl", "deletePosition"}
    THEN call[CHOOSE c \in Clients : pc[c] # "idle"].cash
    ELSE cash
AbstractPositions ==
    IF \E c \in Clients : pc[c] = "flatten"
    THEN call[CHOOSE c \in Clients : pc[c] # "idle"].book
    ELSE positions
AbstractPnl ==
    IF \E c \in Clients : pc[c] = "deletePosition"
    THEN call[CHOOSE c \in Clients : pc[c] # "idle"].pnl
    ELSE dailyPnl

Abstract == INSTANCE Ledger WITH cash <- AbstractCash,
                                 positions <- AbstractPositions,
                                 dailyPnl <- AbstractPnl,
                                 Ids <- 1..MaxCalls

(* Called by one client at a time and never cut short, the Redis command sequences of the broker
   implement the ledger whose operations happen at once. *)
ImplementsLedger ==
    /\ Abstract!Init
    /\ [][traffic.habit = "serial" /\ aborts' = 0 => Abstract!Next]_(Abstract!ledger)
=============================================================================
