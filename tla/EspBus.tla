-------------------------------- MODULE EspBus --------------------------------
(***************************************************************************)
(* esp_bus without its display: the bus task of BusTimes on top of the     *)
(* station of WifiLink.  They share CONNECTED_BIT, which the bus task      *)
(* waits for and the event loop task keeps, and the link itself, which the *)
(* HTTP calls go through.                                                  *)
(***************************************************************************)
EXTENDS BusTimes

VARIABLES
    protocol, demand, events, handler   \* of WifiLink

Wifi == INSTANCE WifiLink

stationVars == <<link, protocol, demand, events, handler, connected>>
vars == <<busVars, protocol, demand, events, handler>>

TypeOK == BusTypeOK /\ Wifi!WifiTypeOK

Init == BusInit /\ Wifi!WifiInit

BusMoves == BusStep /\ UNCHANGED <<stationVars, service>>
WifiMoves == Wifi!WifiNext /\ UNCHANGED <<taskVars, service>>
ServiceMoves == ServiceChanges /\ UNCHANGED <<taskVars, stationVars>>

Next == BusMoves \/ WifiMoves \/ ServiceMoves

Spec == Init /\ [][Next]_vars

(* The tasks run, and the driver answers an esp_wifi_connect.  The service *)
(* may be down for ever, and nothing need ever disconnect the station.     *)
FairSpec ==
    /\ Spec
    /\ WF_vars(Poll /\ UNCHANGED <<stationVars, service>>)
    /\ WF_vars(Wifi!EventLoop /\ UNCHANGED <<taskVars, service>>)
    /\ WF_vars(Wifi!StationStarts /\ UNCHANGED <<taskVars, service>>)
    /\ WF_vars((Wifi!Joins \/ Wifi!Refused) /\ UNCHANGED <<taskVars, service>>)

-------------------------------------------------------------------------------
(* Properties. *)

NeverStranded == Wifi!NeverStranded
BitMatchesLink == Wifi!BitMatchesLink
EventsBounded == Wifi!EventsBounded

(* When attempts stop failing, the station joins, also an access point     *)
(* that first turns it away for its protocol (wifi.c:33-37).               *)
Rejoins == <>[][~Wifi!Drops]_vars => <>[](link = "up" /\ connected)
===============================================================================
