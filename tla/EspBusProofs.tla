------------------------------ MODULE EspBusProofs ------------------------------
(***************************************************************************)
(* The safety of EspBus: of the bus task, for every set of distances, any  *)
(* two thresholds and any number of buses, and of the station.             *)
(***************************************************************************)
EXTENDS EspBus, TLAPS, SequenceTheorems

(* A token the task takes for valid has been got and has not failed, and   *)
(* so has the one it calls with.                                           *)
TokenInv ==
    isLastTokenValid \/ pc = "arrive" => token # "none" /\ ~refused

(* The history of the alerts knows what the last poll has seen.            *)
ArmedInv == \A k \in Alerts : lastBus0Distance > Threshold(k) => k \in armed

IInv == BusTypeOK /\ TokenInv /\ ArmedInv

-------------------------------------------------------------------------------
LEMMA InitIInv == BusInit => IInv
<1> SUFFICES ASSUME BusInit PROVE IInv
  OBVIOUS
<1> USE DEF BusInit
<1>1. 0 \in 0 .. MaxBuses /\ 0 \in 0 .. MaxAge
  BY BusAssumption
<1>2. BusTypeOK
  BY <1>1 DEF BusTypeOK, Calls, Alerts
<1>3. TokenInv
  BY DEF TokenInv
<1>4. ArmedInv
  BY BusAssumption DEF ArmedInv, Threshold
<1> QED
  BY <1>2, <1>3, <1>4 DEF IInv

LEMMA AlertRange ==
    ASSUME NEW from, NEW to
    PROVE  /\ AlertFor(from, to) \in Alerts \union {0}
           /\ \A k \in Alerts : AlertFor(from, to) = k => from > Threshold(k)
<1> QED
  BY DEF AlertFor, Alerts, Crosses

(* The steps that leave the answer alone. *)
LEMMA AnswerKept ==
    ASSUME IInv, UNCHANGED <<service, answerVars>>,
           pc' \in Calls, token' \in {"none", "valid", "expired"},
           isLastTokenValid' \in BOOLEAN, refused' \in BOOLEAN,
           TokenInv'
    PROVE  IInv'
<1>1. BusTypeOK'
  BY DEF IInv, BusTypeOK, answerVars
<1>2. ArmedInv'
  BY DEF IInv, ArmedInv, answerVars
<1> QED
  BY <1>1, <1>2 DEF IInv

LEMMA ArriveOkIInv == IInv /\ ArriveOk /\ UNCHANGED service => IInv'
<1> SUFFICES ASSUME IInv, ArriveOk, UNCHANGED service PROVE IInv'
  OBVIOUS
<1>1. PICK n \in Counts, d \in Distances :
        /\ bus0Distance' = d
        /\ shown' = n
        /\ sounding' = AlertFor(lastBus0Distance, d)
        /\ armed' = ArmedAfter(d, sounding')
        /\ lastBus0Distance' = d
  BY DEF ArriveOk
<1>2. readAge' \in 0 .. MaxAge /\ dataAge' \in 0 .. MaxAge
  BY BusAssumption DEF ArriveOk
<1>3. armed' \in SUBSET Alerts
  BY <1>1 DEF ArmedAfter
<1>4. sounding' \in Alerts \union {0}
  BY <1>1, AlertRange
<1>5. isLastTokenValid' \in BOOLEAN /\ refused' \in BOOLEAN /\ service' \in BOOLEAN
  BY DEF ArriveOk, IInv, BusTypeOK
<1>6. pc' \in Calls /\ token' \in {"none", "valid", "expired"}
  BY DEF ArriveOk, IInv, BusTypeOK, Calls
<1>7. BusTypeOK'
  BY <1>1, <1>2, <1>3, <1>4, <1>5, <1>6 DEF BusTypeOK, Counts
<1>8. TokenInv'
  <2>1. token' # "none"
    BY DEF ArriveOk
  <2>2. ~refused'
    BY DEF ArriveOk, IInv, TokenInv
  <2> QED
    BY <2>1, <2>2 DEF TokenInv
<1>9. ArmedInv'
  BY <1>1 DEF ArmedInv, ArmedAfter, Threshold
<1> QED
  BY <1>7, <1>8, <1>9 DEF IInv

LEMMA ArriveFailsIInv == IInv /\ ArriveFails /\ UNCHANGED service => IInv'
<1> SUFFICES ASSUME IInv, ArriveFails, UNCHANGED service PROVE IInv'
  OBVIOUS
<1>1. bus0Distance' \in Distances
  BY DEF ArriveFails
<1>2. readAge' \in 0 .. MaxAge
  BY BusAssumption DEF ArriveFails
<1>3. isLastTokenValid' \in BOOLEAN /\ refused' \in BOOLEAN /\ service' \in BOOLEAN
  BY DEF ArriveFails, IInv, BusTypeOK
<1>4. pc' \in Calls
  BY DEF ArriveFails, Calls
<1>5. BusTypeOK'
  BY <1>1, <1>2, <1>3, <1>4 DEF ArriveFails, IInv, BusTypeOK
<1>6. TokenInv'
  BY DEF ArriveFails, TokenInv
<1>7. ArmedInv'
  BY DEF ArriveFails, IInv, ArmedInv
<1> QED
  BY <1>5, <1>6, <1>7 DEF IInv

(* The steps around a login. *)
LEMMA LoginIInv ==
    IInv /\ (WifiAvailable \/ LoginOk \/ LoginFails \/ Retry \/ Expire)
         /\ UNCHANGED service => IInv'
<1> SUFFICES ASSUME IInv, UNCHANGED service,
                    WifiAvailable \/ LoginOk \/ LoginFails \/ Retry \/ Expire
             PROVE  IInv'
  OBVIOUS
<1>1. UNCHANGED answerVars /\ UNCHANGED isLastTokenValid
  BY DEF WifiAvailable, LoginOk, LoginFails, Retry, Expire
<1>2. isLastTokenValid' \in BOOLEAN
  BY <1>1 DEF IInv, BusTypeOK
<1>3. refused' \in BOOLEAN
  BY DEF IInv, BusTypeOK, WifiAvailable, LoginOk, LoginFails, Retry, Expire
<1>4. pc' \in Calls /\ token' \in {"none", "valid", "expired"}
  BY DEF IInv, BusTypeOK, Calls, WifiAvailable, LoginOk, LoginFails, Retry, Expire
<1>5. TokenInv'
  <2>1. CASE WifiAvailable
    BY <2>1, <1>1 DEF WifiAvailable, IInv, TokenInv
  <2>2. CASE LoginOk
    BY <2>2, <1>1 DEF LoginOk, TokenInv
  <2>3. CASE LoginFails
    BY <2>3, <1>1 DEF LoginFails, IInv, TokenInv
  <2>4. CASE Retry
    BY <2>4, <1>1 DEF Retry, IInv, TokenInv
  <2>5. CASE Expire
    BY <2>5, <1>1 DEF Expire, IInv, TokenInv
  <2> QED
    BY <2>1, <2>2, <2>3, <2>4, <2>5
<1> QED
  BY <1>1, <1>2, <1>3, <1>4, <1>5, AnswerKept

LEMMA WakeUpIInv == IInv /\ WakeUp /\ UNCHANGED service => IInv'
<1> SUFFICES ASSUME IInv, WakeUp, UNCHANGED service PROVE IInv'
  OBVIOUS
<1>1. BusTypeOK'
  BY DEF WakeUp, IInv, BusTypeOK, Calls
<1>2. TokenInv'
  BY DEF WakeUp, IInv, TokenInv
<1>3. ArmedInv'
  BY DEF WakeUp, IInv, ArmedInv
<1> QED
  BY <1>1, <1>2, <1>3 DEF IInv

LEMMA TickIInv == IInv /\ Tick /\ UNCHANGED service => IInv'
<1> SUFFICES ASSUME IInv, Tick, UNCHANGED service PROVE IInv'
  OBVIOUS
<1>1. readAge' \in 0 .. MaxAge /\ dataAge' \in 0 .. MaxAge
  <2>1. \A age \in 0 .. MaxAge : Older(age) \in 0 .. MaxAge
    BY BusAssumption DEF Older
  <2> QED
    BY <2>1 DEF Tick, IInv, BusTypeOK
<1>2. BusTypeOK'
  BY <1>1 DEF Tick, IInv, BusTypeOK
<1>3. TokenInv'
  BY DEF Tick, IInv, TokenInv
<1>4. ArmedInv'
  BY DEF Tick, IInv, ArmedInv
<1> QED
  BY <1>2, <1>3, <1>4 DEF IInv

LEMMA BusStepIInv == IInv /\ BusStep /\ UNCHANGED service => IInv'
<1> QED
  BY LoginIInv, ArriveOkIInv, ArriveFailsIInv, WakeUpIInv, TickIInv
  DEF BusStep, Poll

LEMMA NextIInv == IInv /\ [Next]_vars => IInv'
<1> SUFFICES ASSUME IInv, [Next]_vars PROVE IInv'
  OBVIOUS
<1>1. CASE BusMoves
  BY <1>1, BusStepIInv DEF BusMoves
<1>2. CASE WifiMoves
  <2>1. UNCHANGED <<taskVars, service>>
    BY <1>2 DEF WifiMoves
  <2> QED
    BY <2>1 DEF taskVars, IInv, BusTypeOK, TokenInv, ArmedInv
<1>3. CASE ServiceMoves
  <2>1. UNCHANGED taskVars /\ service' \in BOOLEAN
    BY <1>3 DEF ServiceMoves, ServiceChanges
  <2> QED
    BY <2>1 DEF taskVars, IInv, BusTypeOK, TokenInv, ArmedInv
<1>4. CASE UNCHANGED vars
  BY <1>4 DEF vars, busVars, envVars, taskVars, IInv, BusTypeOK, TokenInv, ArmedInv
<1> QED
  BY <1>1, <1>2, <1>3, <1>4 DEF Next

LEMMA Invariance == Spec => []IInv
<1>1. Init => IInv
  BY InitIInv DEF Init
<1> QED
  BY <1>1, NextIInv, PTL DEF Spec

-------------------------------------------------------------------------------
(* No call for the arrivals without a token, or with one that has failed   *)
(* (main.c:89-111), whatever the network, the service and the station do.  *)
THEOREM FreshTokens == Spec => []NoStaleToken
<1>1. IInv => NoStaleToken
  BY DEF IInv, TokenInv, NoStaleToken
<1> QED
  BY <1>1, Invariance, PTL

(* An alert sounds only if some poll since its last sounding has seen the  *)
(* bus beyond its threshold (main.c:146-164), for any two thresholds.      *)
THEOREM AlertsOncePerApproach == Spec => OncePerApproach
<1> DEFINE Step == \A k \in Alerts : sounding = 0 /\ sounding' = k
                        => k \in armed /\ (shown' = 0 => Unseen)
<1>1. IInv /\ [Next]_vars => [Step]_busVars
  <2> SUFFICES ASSUME IInv, [Next]_vars, NEW k \in Alerts,
                      sounding = 0, sounding' = k
               PROVE  k \in armed /\ (shown' = 0 => Unseen)
    OBVIOUS
  <2>1. sounding' # 0 /\ sounding' # sounding
    BY DEF Alerts
  <2>2. ArriveOk
    <3>1. CASE BusMoves
      BY <2>1, <3>1 DEF BusMoves, BusStep, Poll, WifiAvailable, LoginOk, LoginFails,
            Retry, ArriveFails, WakeUp, Tick, Expire, answerVars
    <3>2. CASE WifiMoves
      BY <2>1, <3>2 DEF WifiMoves, taskVars
    <3>3. CASE ServiceMoves
      BY <2>1, <3>3 DEF ServiceMoves, taskVars
    <3>4. CASE UNCHANGED vars
      BY <2>1, <3>4 DEF vars, busVars, taskVars
    <3> QED
      BY <3>1, <3>2, <3>3, <3>4 DEF Next
  <2>3. PICK d \in Distances : sounding' = AlertFor(lastBus0Distance, d)
    BY <2>2 DEF ArriveOk
  <2>4. lastBus0Distance > Threshold(k)
    BY <2>3, AlertRange
  <2>5. shown' = 0 => Unseen
    <3> SUFFICES ASSUME shown' = 0 PROVE Unseen
      OBVIOUS
    <3>1. PICK n \in Counts, e \in Distances :
              /\ n = 0 => e = bus0Distance
              /\ shown' = n
              /\ sounding' = AlertFor(lastBus0Distance, e)
      BY <2>2 DEF ArriveOk
    <3>2. sounding' = AlertFor(lastBus0Distance, bus0Distance)
      BY <3>1
    <3>3. lastBus0Distance > Threshold(k) /\ bus0Distance < Threshold(k)
      BY <2>1, <3>2 DEF AlertFor, Crosses, Alerts
    <3>4. lastBus0Distance \in Int /\ bus0Distance \in Int /\ Threshold(k) \in Int
      BY BusAssumption DEF IInv, TypeOK, BusTypeOK, Threshold
    <3> QED
      BY <3>3, <3>4 DEF Unseen
  <2> QED
    BY <2>4, <2>5 DEF IInv, ArmedInv
<1> QED
  BY <1>1, Invariance, PTL DEF Spec, OncePerApproach

-------------------------------------------------------------------------------
(* The station of EspBus, whatever the driver and the access point do; the *)
(* bus task never touches it.                                              *)

(* What can be on the way to the handler, and what it knows, for each      *)
(* state of the station.                                                   *)
OffInv == link = "off" => events = <<>> /\ handler = "idle" /\ ~connected

StartedInv == events = <<"start">> /\ handler = "idle" /\ ~connected

LostInv ==
    \E e \in Wifi!Losses : events = <<e>> \/ events = <<"gotIp", e>>

IdleInv == link = "idle" => StartedInv \/ LostInv

ConnectingInv ==
    link = "connecting" => events = <<>> /\ (handler = "idle" => ~connected)

UpInv ==
    link = "up" =>
        events = <<"gotIp">> \/ (events = <<>> /\ handler = "idle" /\ connected)

StationInv == Wifi!WifiTypeOK /\ OffInv /\ IdleInv /\ ConnectingInv /\ UpInv

-------------------------------------------------------------------------------
LEMMA WifiInitStationInv == Wifi!WifiInit => StationInv
<1> SUFFICES ASSUME Wifi!WifiInit PROVE StationInv
  OBVIOUS
<1>1. connected \in BOOLEAN
  BY DEF Wifi!WifiInit
<1>2. Wifi!WifiTypeOK
  BY <1>1 DEF Wifi!WifiInit, Wifi!WifiTypeOK, Wifi!Links, Wifi!Events
<1> QED
  BY <1>2 DEF Wifi!WifiInit, StationInv, OffInv, IdleInv, ConnectingInv, UpInv

(* The queue with one more event. *)
LEMMA Appended ==
    Append(<<"gotIp">>, "disconnected") = <<"gotIp", "disconnected">>
<1> DEFINE s == Append(<<"gotIp">>, "disconnected")
           t == <<"gotIp", "disconnected">>
<1>1. s \in Seq(Wifi!Events) /\ t \in Seq(Wifi!Events)
  BY DEF Wifi!Events
<1>2. Len(s) = 2 /\ s[1] = "gotIp" /\ s[2] = "disconnected"
  OBVIOUS
<1>3. Len(t) = 2 /\ t[1] = "gotIp" /\ t[2] = "disconnected"
  OBVIOUS
<1>4. \A i \in 1 .. Len(s) : s[i] = t[i]
  BY <1>2, <1>3
<1> QED
  BY <1>1, <1>2, <1>3, <1>4, SeqEqual

(* The steps of the driver: each adds an event to a queue that is empty or *)
(* holds a gotIp.                                                          *)
LEMMA DriverStationInv == StationInv /\ Wifi!WifiDriver => StationInv'
<1> SUFFICES ASSUME StationInv, Wifi!WifiDriver PROVE StationInv'
  OBVIOUS
<1> USE DEF StationInv, OffInv, IdleInv, ConnectingInv, UpInv
<1>0. UNCHANGED connected
  BY DEF Wifi!WifiDriver, Wifi!StationStarts, Wifi!Joins, Wifi!Refused, Wifi!Drops
<1>1. connected' \in BOOLEAN
  BY <1>0 DEF Wifi!WifiTypeOK
<1>2. events' \in Seq(Wifi!Events)
  BY DEF Wifi!WifiDriver, Wifi!StationStarts, Wifi!Joins, Wifi!Refused, Wifi!Drops,
      Wifi!WifiTypeOK, Wifi!Events
<1>3. Wifi!WifiTypeOK'
  BY <1>1, <1>2
  DEF Wifi!WifiDriver, Wifi!StationStarts, Wifi!Joins, Wifi!Refused, Wifi!Drops,
      Wifi!WifiTypeOK, Wifi!Links, Wifi!Protocols
<1>4. CASE Wifi!StationStarts
  BY <1>3, <1>4 DEF Wifi!StationStarts, StartedInv
<1>5. CASE Wifi!Joins
  BY <1>3, <1>5 DEF Wifi!Joins
<1>6. CASE Wifi!Refused
  <2>1. events' = <<"rateNotSupported">>
    BY <1>6 DEF Wifi!Refused
  <2>2. LostInv'
    BY <2>1 DEF LostInv, Wifi!Losses
  <2> QED
    BY <1>3, <1>6, <2>2 DEF Wifi!Refused
<1>7. CASE Wifi!Drops
  <2>1. events = <<>> \/ events = <<"gotIp">>
    BY <1>7 DEF Wifi!Drops
  <2>2. events' = Append(events, "disconnected")
    BY <1>7 DEF Wifi!Drops
  <2>3. ASSUME events = <<>> PROVE events' = <<"disconnected">>
    BY <2>2, <2>3
  <2>4. ASSUME events = <<"gotIp">>
        PROVE  events' = <<"gotIp", "disconnected">>
    BY <2>2, <2>4, Appended
  <2>5. LostInv'
    BY <2>1, <2>3, <2>4 DEF LostInv, Wifi!Losses
  <2> QED
    BY <1>3, <1>7, <2>5 DEF Wifi!Drops
<1> QED
  BY <1>4, <1>5, <1>6, <1>7 DEF Wifi!WifiDriver

LEMMA ReceivesType ==
    ASSUME Wifi!WifiTypeOK, NEW e, Wifi!Receives(e)
    PROVE  events' \in Seq(Wifi!Events)
<1> QED
  BY DEF Wifi!WifiTypeOK, Wifi!Receives

LEMMA OnStartStationInv == StationInv /\ Wifi!OnStart => StationInv'
<1> SUFFICES ASSUME StationInv, Wifi!OnStart PROVE StationInv'
  OBVIOUS
<1> USE DEF StationInv, OffInv, IdleInv, ConnectingInv, UpInv
<1>1. link = "idle" /\ StartedInv
  BY DEF Wifi!OnStart, Wifi!Receives, StartedInv, LostInv, Wifi!Losses,
      Wifi!WifiTypeOK, Wifi!Links
<1>2. link' = "connecting" /\ events' = <<>> /\ ~connected'
  BY <1>1 DEF Wifi!OnStart, Wifi!Receives, Wifi!Connected, StartedInv
<1>3. connected' \in BOOLEAN
  BY DEF Wifi!OnStart, Wifi!WifiTypeOK
<1>4. Wifi!WifiTypeOK'
  BY <1>2, <1>3, ReceivesType DEF Wifi!OnStart, Wifi!WifiTypeOK, Wifi!Links
<1> QED
  BY <1>2, <1>4

LEMMA OnGotIpStationInv == StationInv /\ Wifi!OnGotIp => StationInv'
<1> SUFFICES ASSUME StationInv, Wifi!OnGotIp PROVE StationInv'
  OBVIOUS
<1> USE DEF StationInv, OffInv, IdleInv, ConnectingInv, UpInv
<1>1. connected' \in BOOLEAN
  BY DEF Wifi!OnGotIp
<1>2. Wifi!WifiTypeOK'
  BY <1>1, ReceivesType DEF Wifi!OnGotIp, Wifi!WifiTypeOK
<1>3. CASE link = "up"
  <2>1. events = <<"gotIp">>
    BY <1>3 DEF Wifi!OnGotIp, Wifi!Receives
  <2>2. events' = <<>> /\ handler' = "idle" /\ connected' /\ link' = "up"
    BY <1>3, <2>1 DEF Wifi!OnGotIp, Wifi!Receives
  <2> QED
    BY <1>2, <2>2
<1>4. CASE link = "idle"
  <2>1. PICK e \in Wifi!Losses : events = <<"gotIp", e>>
    BY <1>4 DEF Wifi!OnGotIp, Wifi!Receives, StartedInv, LostInv, Wifi!Losses
  <2>2. events' = <<e>>
    BY <2>1 DEF Wifi!OnGotIp, Wifi!Receives
  <2>3. LostInv'
    BY <2>2 DEF LostInv
  <2> QED
    BY <1>2, <1>4, <2>3 DEF Wifi!OnGotIp
<1> QED
  BY <1>3, <1>4 DEF Wifi!OnGotIp, Wifi!Receives, Wifi!WifiTypeOK, Wifi!Links

(* The handler's connection is the only one under way. *)
LEMMA OnLossStationInv == StationInv /\ Wifi!OnLoss => StationInv'
<1> SUFFICES ASSUME StationInv, Wifi!OnLoss PROVE StationInv'
  OBVIOUS
<1> USE DEF StationInv, OffInv, IdleInv, ConnectingInv, UpInv
<1>1. PICK e \in Wifi!Losses :
        /\ Wifi!Receives(e)
        /\ protocol' = IF e = "rateNotSupported" THEN "bgn" ELSE protocol
  BY DEF Wifi!OnLoss
<1>2. link = "idle" /\ events = <<e>>
  BY <1>1 DEF Wifi!Receives, StartedInv, LostInv, Wifi!Losses, Wifi!WifiTypeOK, Wifi!Links
<1>3. link' = "connecting" /\ events' = <<>> /\ handler' = "clearing"
  BY <1>1, <1>2 DEF Wifi!OnLoss, Wifi!Receives, Wifi!Connected
<1>4. connected' \in BOOLEAN
  BY DEF Wifi!OnLoss, Wifi!WifiTypeOK
<1>5. Wifi!WifiTypeOK'
  BY <1>1, <1>3, <1>4, ReceivesType DEF Wifi!OnLoss, Wifi!WifiTypeOK, Wifi!Links,
      Wifi!Protocols
<1> QED
  BY <1>3, <1>5

LEMMA ClearBitStationInv == StationInv /\ Wifi!ClearBit => StationInv'
<1> SUFFICES ASSUME StationInv, Wifi!ClearBit PROVE StationInv'
  OBVIOUS
<1> USE DEF StationInv, OffInv, IdleInv, ConnectingInv, UpInv
<1>1. connected' \in BOOLEAN
  BY DEF Wifi!ClearBit
<1>2. Wifi!WifiTypeOK'
  BY <1>1 DEF Wifi!ClearBit, Wifi!WifiTypeOK
<1>3. IdleInv'
  BY DEF Wifi!ClearBit, StartedInv, LostInv
<1> QED
  BY <1>2, <1>3 DEF Wifi!ClearBit

LEMMA WifiNextStationInv == StationInv /\ [Wifi!WifiNext]_(Wifi!wifiVars) => StationInv'
<1>1. StationInv /\ UNCHANGED Wifi!wifiVars => StationInv'
  BY DEF Wifi!wifiVars, StationInv, Wifi!WifiTypeOK, OffInv, IdleInv, StartedInv, LostInv,
         ConnectingInv, UpInv
<1> QED
  BY <1>1, DriverStationInv, OnStartStationInv, OnGotIpStationInv, OnLossStationInv,
      ClearBitStationInv
  DEF Wifi!WifiNext, Wifi!EventLoop

LEMMA StationMoves == [Next]_vars => [Wifi!WifiNext]_(Wifi!wifiVars)
  BY DEF Next, BusMoves, WifiMoves, ServiceMoves, vars, busVars, envVars, taskVars,
         stationVars, Wifi!wifiVars

LEMMA StationInvariance == Spec => []StationInv
<1>1. Init => StationInv
  BY WifiInitStationInv DEF Init
<1>2. StationInv /\ [Next]_vars => StationInv'
  BY StationMoves, WifiNextStationInv
<1> QED
  BY <1>1, <1>2, PTL DEF Spec

-------------------------------------------------------------------------------
(* The types of the bus task and of its station.                           *)
THEOREM TypeCorrect == Spec => []TypeOK
<1>1. IInv /\ StationInv => TypeOK
  BY DEF IInv, StationInv, TypeOK
<1> QED
  BY <1>1, Invariance, StationInvariance, PTL

(* A station that is not trying has somebody who will make it try: the     *)
(* event that leads to esp_wifi_connect is on its way (wifi.c:26,37).      *)
THEOREM StationTries == Spec => []NeverStranded
<1>1. StationInv => NeverStranded
  <2> SUFFICES ASSUME StationInv, link = "idle"
               PROVE  \E i \in DOMAIN events :
                        events[i] \in Wifi!Losses \union {"start"}
    BY DEF NeverStranded, Wifi!NeverStranded
  <2>1. CASE StartedInv
    BY <2>1 DEF StartedInv
  <2>2. ASSUME NEW e \in Wifi!Losses, events = <<e>>
        PROVE  \E i \in DOMAIN events : events[i] \in Wifi!Losses \union {"start"}
    BY <2>2
  <2>3. ASSUME NEW e \in Wifi!Losses, events = <<"gotIp", e>>
        PROVE  \E i \in DOMAIN events : events[i] \in Wifi!Losses \union {"start"}
    <3>1. 2 \in DOMAIN events /\ events[2] = e
      BY <2>3
    <3> QED
      BY <3>1
  <2> QED
    BY <2>1, <2>2, <2>3 DEF StationInv, IdleInv, LostInv
<1> QED
  BY <1>1, StationInvariance, PTL

(* When the handler has caught up, the bit tells the truth about the link, *)
(* although it is cleared after the next link has been asked for           *)
(* (wifi.c:37-38).                                                         *)
THEOREM StationBitTrue == Spec => []BitMatchesLink
<1>1. StationInv => BitMatchesLink
  BY DEF StationInv, Wifi!WifiTypeOK, Wifi!Links, OffInv, IdleInv, StartedInv, LostInv,
         ConnectingInv, UpInv, BitMatchesLink, Wifi!BitMatchesLink
<1> QED
  BY <1>1, StationInvariance, PTL

(* Two events at most wait for the handler (wifi.c:19).                    *)
THEOREM StationEvents == Spec => []EventsBounded
<1>1. StationInv => EventsBounded
  <2> SUFFICES ASSUME StationInv PROVE Len(events) <= 2
    BY DEF EventsBounded, Wifi!EventsBounded
  <2>1. /\ events = <<>> => Len(events) = 0
        /\ events = <<"start">> => Len(events) = 1
        /\ events = <<"gotIp">> => Len(events) = 1
    OBVIOUS
  <2>2. ASSUME NEW e \in Wifi!Losses, events = <<e>> \/ events = <<"gotIp", e>>
        PROVE  Len(events) <= 2
    BY <2>2
  <2> QED
    BY <2>1, <2>2
    DEF StationInv, Wifi!WifiTypeOK, Wifi!Links, OffInv, IdleInv, StartedInv, LostInv,
        ConnectingInv, UpInv
<1> QED
  BY <1>1, StationInvariance, PTL
===============================================================================
