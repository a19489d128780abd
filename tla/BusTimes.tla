------------------------------- MODULE BusTimes -------------------------------
(***************************************************************************)
(* update_bus_times_task of esp_bus: wait for the network, log in when the *)
(* last token is not known to work, ask for the arrivals, show them, sound *)
(* an alert when the first bus comes near, sleep a second, and again.      *)
(*                                                                         *)
(* A step of the task goes from one blocking call to the next.  Network,   *)
(* service, clock and token lifetime are the environment's.  The numbers   *)
(* kept are the distance of the first bus (what the alerts depend on), how *)
(* many buses the last answer had, and two ages, in seconds.               *)
(***************************************************************************)
EXTENDS Integers

CONSTANTS
    Distances,  \* the distances the service reports
    Alert1,     \* alert_1_meters
    Alert2,     \* alert_2_meters
    MaxBuses,   \* MAX_BUSES
    MaxAge      \* ages of MaxAge seconds and more are one

ASSUME BusAssumption ==
    /\ Distances \subseteq Int
    /\ Alert1 \in Nat /\ Alert2 \in Nat
    /\ MaxBuses \in Nat \ {0}
    /\ MaxAge \in Nat

VARIABLES
    link,               \* the station's link: "up" or something else
    connected,          \* CONNECTED_BIT
    service,            \* the EMT service answers, and answers sense
    pc,                 \* the blocking call the task is in
    token,              \* the token it holds, as the service sees it
    isLastTokenValid,   \* is_last_token_valid
    bus0Distance,       \* buses[0].distance
    lastBus0Distance,   \* last_bus0_distance
    shown,              \* how many buses the screen shows
    readAge,            \* time(NULL) - last_read_time
    dataAge,            \* seconds since the answer on the screen was given
                        \* (since the start as long as there is none)
    refused,            \* history: a call with this token has failed
    sounding,           \* the alert of the last poll, 0 for none
    armed               \* history: alerts whose side the bus has been beyond

taskVars == <<pc, token, isLastTokenValid, bus0Distance, lastBus0Distance,
              shown, readAge, dataAge, refused, sounding, armed>>

envVars == <<link, connected, service>>
busVars == <<taskVars, envVars>>

Calls == {"wifi", "login", "backoff", "arrive", "sleep"}
Alerts == {1, 2}
Threshold(k) == IF k = 1 THEN Alert1 ELSE Alert2

BusTypeOK ==
    /\ service \in BOOLEAN
    /\ pc \in Calls
    /\ token \in {"none", "valid", "expired"}
    /\ isLastTokenValid \in BOOLEAN
    /\ bus0Distance \in Distances
    /\ lastBus0Distance \in Distances \union {0}
    /\ shown \in 0 .. MaxBuses
    /\ readAge \in 0 .. MaxAge
    /\ dataAge \in 0 .. MaxAge
    /\ refused \in BOOLEAN
    /\ sounding \in Alerts \union {0}
    /\ armed \in SUBSET Alerts

(* buses is an uninitialised array on the task's stack: its first distance *)
(* may be any.                                                             *)
BusInit ==
    /\ service \in BOOLEAN
    /\ pc = "wifi"
    /\ token = "none"
    /\ isLastTokenValid = FALSE
    /\ bus0Distance \in Distances
    /\ lastBus0Distance = 0
    /\ shown = 0
    /\ readAge = 0
    /\ dataAge = 0
    /\ refused = FALSE
    /\ sounding = 0
    /\ armed = {}

-------------------------------------------------------------------------------
(* The task. *)

answerVars == <<bus0Distance, lastBus0Distance, shown, readAge, dataAge,
                sounding, armed>>

(* wifi_wait_connected returns; the login loop is entered or skipped. *)
WifiAvailable ==
    /\ pc = "wifi"
    /\ connected
    /\ pc' = IF isLastTokenValid THEN "arrive" ELSE "login"
    /\ UNCHANGED <<token, isLastTokenValid, refused, answerVars>>

Online == link = "up" /\ service

(* emt_login *)
LoginOk ==
    /\ pc = "login"
    /\ Online
    /\ token' = "valid"
    /\ refused' = FALSE
    /\ pc' = "arrive"
    /\ UNCHANGED <<isLastTokenValid, answerVars>>

LoginFails ==
    /\ pc = "login"
    /\ ~Online
    /\ pc' = "backoff"
    /\ UNCHANGED <<token, isLastTokenValid, refused, answerVars>>

(* Ten seconds later emt_login is called again, whatever the bit says. *)
Retry ==
    /\ pc = "backoff"
    /\ pc' = "login"
    /\ UNCHANGED <<token, isLastTokenValid, refused, answerVars>>

(* Which alert a poll sounds: alert 1 takes precedence over alert 2.       *)
(* (AlertForBelow: without looking at the last distance for alert 1.)      *)
Crosses(k, from, to) == from > Threshold(k) /\ to < Threshold(k)

AlertForBelow(from, to) ==
    IF to < Alert1 THEN 1
    ELSE IF Crosses(2, from, to) THEN 2
    ELSE 0

AlertFor(from, to) ==
    IF Crosses(1, from, to) THEN 1
    ELSE IF Crosses(2, from, to) THEN 2
    ELSE 0

(* What the distance d of a poll does to the history of alert k. *)
ArmedAfter(d, fired) ==
    {k \in Alerts : d > Threshold(k) \/ (k \in armed /\ k # fired)}

(* How many buses emt_arrive_times may return (its loop: i < maxbuses).     *)
CountsOneMore == 0 .. MaxBuses + 1
Counts == 0 .. MaxBuses

(* emt_arrive_times returns n buses, the first at distance d; with none,   *)
(* buses[0] is left as it was, and compared all the same.                  *)
ArriveOk ==
    /\ pc = "arrive"
    /\ Online /\ token = "valid"
    /\ \E n \in Counts, d \in Distances :
        /\ n = 0 => d = bus0Distance
        /\ bus0Distance' = d
        /\ shown' = n
        /\ sounding' = AlertFor(lastBus0Distance, d)
        /\ armed' = ArmedAfter(d, sounding')
        /\ lastBus0Distance' = d
    /\ readAge' = 0
    /\ dataAge' = 0
    /\ isLastTokenValid' = TRUE
    /\ pc' = "sleep"
    /\ UNCHANGED <<token, refused>>

(* emt_arrive_times fails.  When the service accepted the token and sent   *)
(* an entry with a field missing, the entries before it are already in     *)
(* buses.  The read time is taken before the result is looked at.          *)
(* (ArriveFailsKeepingToken forgets is_last_token_valid = false.)          *)
ArriveFailsKeepingToken ==
    /\ pc = "arrive"
    /\ ~Online \/ token # "valid"
    /\ refused' = TRUE
    /\ readAge' = 0
    /\ pc' = "wifi"
    /\ UNCHANGED <<token, isLastTokenValid, bus0Distance, lastBus0Distance,
                   shown, dataAge, sounding, armed>>

ArriveFails ==
    /\ pc = "arrive"
    /\ ~Online \/ token # "valid"
    /\ \E d \in Distances :
        /\ d # bus0Distance =>
              MaxBuses > 1 /\ link = "up" /\ token = "valid"
        /\ bus0Distance' = d
    /\ refused' = TRUE
    /\ readAge' = 0
    /\ isLastTokenValid' = FALSE
    /\ pc' = "wifi"
    /\ UNCHANGED <<token, lastBus0Distance, shown, dataAge, sounding, armed>>

(* The second between two polls is over. *)
WakeUp ==
    /\ pc = "sleep"
    /\ pc' = "wifi"
    /\ sounding' = 0
    /\ UNCHANGED <<token, isLastTokenValid, bus0Distance, lastBus0Distance,
                   shown, readAge, dataAge, refused, armed>>

Poll ==
    \/ WifiAvailable
    \/ LoginOk \/ LoginFails \/ Retry
    \/ ArriveOk \/ ArriveFails
    \/ WakeUp

-------------------------------------------------------------------------------
(* The environment. *)

Older(age) == IF age < MaxAge THEN age + 1 ELSE age

Tick ==
    /\ readAge' = Older(readAge)
    /\ dataAge' = Older(dataAge)
    /\ UNCHANGED <<pc, token, isLastTokenValid, bus0Distance, lastBus0Distance,
                   shown, refused, sounding, armed>>

(* A token lives for at least one poll after its login. *)
Expire ==
    /\ token = "valid"
    /\ isLastTokenValid
    /\ token' = "expired"
    /\ UNCHANGED <<pc, isLastTokenValid, refused, answerVars>>

ServiceChanges ==
    /\ service' = ~service
    /\ UNCHANGED <<link, connected>>

BusStep == Poll \/ Tick \/ Expire

-------------------------------------------------------------------------------
(* Properties. *)

(* The call for the arrivals is never made without a token, nor with one   *)
(* that has already failed (main.c:107-111): a new login comes between.    *)
NoStaleToken == pc = "arrive" => token # "none" /\ ~refused

(* Alert k sounds at most once per approach: between two of them some poll *)
(* has seen the first bus beyond its threshold.  And an answer without a   *)
(* bus, after which buses[0] is compared all the same (main.c:149-157),    *)
(* sounds it only on a distance that no poll has compared before: one that *)
(* a failed call, or nobody, has left in buses.                            *)
Unseen == bus0Distance # lastBus0Distance

OncePerApproach ==
    [][\A k \in Alerts : sounding = 0 /\ sounding' = k
            => k \in armed /\ (shown' = 0 => Unseen)]_busVars

(* Once the network and the service stay, polls succeed again and again,   *)
(* whatever happened before and however often the token expires.           *)
Recovers ==
    <>[](link = "up" /\ service) => []<>(pc = "sleep")

(* "Update the age of the shown data in seconds" (main.c:63): when there   *)
(* are buses on the screen, their age is that of their answer.             *)
AgeHonest == shown > 0 => readAge = dataAge
===============================================================================
