----------------------------- MODULE EspBusOutputs -----------------------------
(***************************************************************************)
(* What esp_bus lets its user see and hear: the tasks that refresh the     *)
(* display, what they write on it, and the alerts of the beeper.  No two   *)
(* of the three read anything that another writes, so that one of them     *)
(* moves at a time: the others stay as they have started, but for the      *)
(* start-up screen, which is always copied first.                          *)
(***************************************************************************)
EXTENDS LcdRefresh, LcdScreen, Beeper

VARIABLE part   \* the one that moves: "refresh", "contents" or "alerts"

outputVars == <<vars, screenVars, beeperVars, part>>

OutputsInit ==
    /\ part \in {"refresh", "contents", "alerts"}
    /\ Init /\ (part # "refresh" => ~driverYields)
    /\ ScreenInit
    /\ BeeperInit

RefreshMoves ==
    /\ IF part = "refresh" THEN Next ELSE DisplayTask
    /\ UNCHANGED <<screenVars, beeperVars, part>>

ContentsMove ==
    /\ part = "contents" /\ Waiting
    /\ ScreenNext
    /\ UNCHANGED <<vars, beeperVars, part>>

AlertsMove ==
    /\ part = "alerts" /\ Waiting
    /\ BeeperNext
    /\ UNCHANGED <<vars, screenVars, part>>

OutputsNext == RefreshMoves \/ ContentsMove \/ AlertsMove

OutputsSpec == OutputsInit /\ [][OutputsNext]_outputVars

(* Nobody need ever write to the screen or ask for an alert. *)
OutputsFairSpec == OutputsSpec /\ RefreshFairness /\ BeeperFairness
===============================================================================
