------------------------------- MODULE WifiLink -------------------------------
(***************************************************************************)
(* wifi.c of esp_bus (mqtemp and mqtt carry the same handler): the station *)
(* state machine of the SDK posts system events on a queue, the event loop *)
(* task runs wifi_event_handler on them one after the other, and the       *)
(* handler keeps CONNECTED_BIT and asks for the next connection.  The      *)
(* driver goes on while events wait in the queue, so the bit describes the *)
(* link as it was some events ago.                                         *)
(***************************************************************************)
EXTENDS Naturals, Sequences

VARIABLES
    link,       \* the station of the SDK
    protocol,   \* what esp_wifi_set_protocol last chose
    demand,     \* the protocol the access point insists on
    events,     \* the event loop's queue
    handler,    \* "idle", or "clearing": between esp_wifi_connect and ClearBits
    connected   \* CONNECTED_BIT

wifiVars == <<link, protocol, demand, events, handler, connected>>

Links == {"off", "idle", "connecting", "up"}
Protocols == {"bg", "bgn"}
Events == {"start", "gotIp", "disconnected", "rateNotSupported"}
Losses == {"disconnected", "rateNotSupported"}

WifiTypeOK ==
    /\ link \in Links
    /\ protocol \in Protocols
    /\ demand \in Protocols
    /\ events \in Seq(Events)
    /\ handler \in {"idle", "clearing"}
    /\ connected \in BOOLEAN

(* wifi_initialise up to esp_wifi_start. *)
WifiInit ==
    /\ link = "off"
    /\ protocol \in Protocols
    /\ demand \in Protocols
    /\ events = <<>>
    /\ handler = "idle"
    /\ connected = FALSE

-------------------------------------------------------------------------------
(* The driver of the SDK, as the handler relies on it. *)

(* esp_wifi_start *)
StationStarts ==
    /\ link = "off"
    /\ link' = "idle"
    /\ events' = Append(events, "start")
    /\ UNCHANGED <<protocol, demand, handler, connected>>

Suits == demand = "bgn" => protocol = "bgn"

(* Association and DHCP succeed. *)
Joins ==
    /\ link = "connecting"
    /\ Suits
    /\ link' = "up"
    /\ events' = Append(events, "gotIp")
    /\ UNCHANGED <<protocol, demand, handler, connected>>

(* The access point turns the station away for its protocol. *)
Refused ==
    /\ link = "connecting"
    /\ ~Suits
    /\ link' = "idle"
    /\ events' = Append(events, "rateNotSupported")
    /\ UNCHANGED <<protocol, demand, handler, connected>>

(* Out of range, wrong key, no lease, beacon loss: an attempt fails or an  *)
(* established link is lost.  (With the SDK's automatic reconnection, the  *)
(* driver would try again by itself.)                                      *)
DropsReconnecting ==
    /\ link \in {"connecting", "up"}
    /\ link' = "connecting"
    /\ events' = Append(events, "disconnected")
    /\ UNCHANGED <<protocol, demand, handler, connected>>

Drops ==
    /\ link \in {"connecting", "up"}
    /\ link' = "idle"
    /\ events' = Append(events, "disconnected")
    /\ UNCHANGED <<protocol, demand, handler, connected>>

-------------------------------------------------------------------------------
(* wifi_event_handler on the event loop task. *)

(* esp_wifi_connect: a station that is idle starts an attempt. *)
Connected(l) == IF l = "idle" THEN "connecting" ELSE l

Receives(e) ==
    /\ handler = "idle"
    /\ events # <<>>
    /\ Head(events) = e
    /\ events' = Tail(events)

OnStart ==
    /\ Receives("start")
    /\ link' = Connected(link)
    /\ UNCHANGED <<protocol, demand, handler, connected>>

OnGotIp ==
    /\ Receives("gotIp")
    /\ connected' = TRUE
    /\ UNCHANGED <<link, protocol, demand, handler>>

(* The protocol is switched if that was the reason, then the connection is *)
(* asked for again; the bit goes last.  Two mistakes come first: to leave  *)
(* the protocol alone, and to ask again only for the reason that the       *)
(* handler knows.                                                          *)
OnLossSameProtocol ==
    /\ \E e \in Losses : Receives(e)
    /\ link' = Connected(link)
    /\ handler' = "clearing"
    /\ UNCHANGED <<protocol, demand, connected>>

OnLossOnlyRate ==
    /\ \E e \in Losses :
        /\ Receives(e)
        /\ link' = IF e = "rateNotSupported" THEN Connected(link) ELSE link
    /\ protocol' = "bgn"
    /\ handler' = "clearing"
    /\ UNCHANGED <<demand, connected>>

OnLoss ==
    /\ \E e \in Losses :
        /\ Receives(e)
        /\ protocol' = IF e = "rateNotSupported" THEN "bgn" ELSE protocol
    /\ link' = Connected(link)
    /\ handler' = "clearing"
    /\ UNCHANGED <<demand, connected>>

(* xEventGroupClearBits, and the same forgotten. *)
ClearBitNever ==
    /\ handler = "clearing"
    /\ handler' = "idle"
    /\ UNCHANGED <<link, protocol, demand, events, connected>>

ClearBit ==
    /\ handler = "clearing"
    /\ connected' = FALSE
    /\ handler' = "idle"
    /\ UNCHANGED <<link, protocol, demand, events>>

-------------------------------------------------------------------------------
WifiDriver == StationStarts \/ Joins \/ Refused \/ Drops
EventLoop == OnStart \/ OnGotIp \/ OnLoss \/ ClearBit

WifiNext == WifiDriver \/ EventLoop

(* The event loop task runs; the driver starts, and ends an attempt one    *)
(* way or the other.  Nothing obliges it to drop a link.                   *)
WifiFairness ==
    /\ WF_wifiVars(EventLoop)
    /\ WF_wifiVars(StationStarts)
    /\ WF_wifiVars(Joins \/ Refused)

WifiSpec == WifiInit /\ [][WifiNext]_wifiVars

-------------------------------------------------------------------------------
(* Properties. *)

(* A station that is not trying has somebody who will make it try: the     *)
(* event that leads to esp_wifi_connect is on its way (wifi.c:26,37).      *)
NeverStranded ==
    link = "idle" =>
        \E i \in DOMAIN events : events[i] \in Losses \union {"start"}

(* When the handler has caught up, the bit tells the truth about the link, *)
(* although the handler asks for the next link before it clears the bit of *)
(* the last one (wifi.c:37-38).                                            *)
BitMatchesLink ==
    events = <<>> /\ handler = "idle" => (connected <=> link = "up")

(* The driver is never more than two events ahead of the handler, so the   *)
(* queue of the event loop cannot overflow and no event is dropped.        *)
EventsBounded == Len(events) <= 2
===============================================================================
