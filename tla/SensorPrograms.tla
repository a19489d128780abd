----------------------------- MODULE SensorPrograms -----------------------------
(***************************************************************************)
(* The programs that read temperatures with the driver of Ds1820:          *)
(*                                                                         *)
(*   the ESP-NOW node (ds18b20-espnow) boots, reads once, sends a packet   *)
(*   and goes to deep sleep, whose timer boots it again;                   *)
(*   mqtemp reads and publishes for ever, and restarts the chip when it    *)
(*   finds no sensor;                                                      *)
(*   the ds1820 test program prints several sensors in turn, for ever.     *)
(*                                                                         *)
(* A boot loses all memory; a sensor keeps its own.                        *)
(***************************************************************************)
EXTENDS Ds1820

VARIABLES
    at,         \* where app_main is
    report      \* the temperature of the last report, until the next turn

vars == <<dsVars, at, report>>

TypeOK ==
    /\ DsTypeOK
    /\ at \in {"off", "init", "found", "read", "report", "pause"}
    /\ report \in Int

Init ==
    /\ DsInit
    /\ at = "off"
    /\ report = Unset

-------------------------------------------------------------------------------
(* A reset of the chip: power, esp_restart, or the timer of deep sleep.    *)
Boot ==
    /\ at = "off"
    /\ at' = "init"
    /\ asked' = 0
    /\ pc' = "none"
    /\ dev' = [d \in Devices |-> "null"]
    /\ clean' = FALSE
    /\ scratchpad' = Zeros
    /\ result' = "none"
    /\ value' = Unset
    /\ heard' = Unset
    /\ measured' = FALSE
    /\ disturbed' = {}
    /\ report' = Unset
    /\ UNCHANGED <<wire, sensor, listening>>

(* ds1820_init, step by step; it ends with a device or NULL. *)
FindDevice ==
    /\ at = "init"
    /\ InitSensor
    /\ at' = IF pc' \in {"none", "ready"} THEN "found" ELSE "init"
    /\ UNCHANGED report

(* The ds1820 program goes on to its next sensor, whether there is one or  *)
(* not.  The others look at the one they have: without it the node goes to *)
(* sleep, and mqtemp says so and restarts.                                 *)
InitNext ==
    /\ at = "found"
    /\ asked + 1 \in Devices
    /\ asked' = asked + 1
    /\ pc' = "none"
    /\ at' = "init"
    /\ UNCHANGED <<wire, sensor, listening, dev, clean, call, measured, disturbed,
                   report>>

InitDone ==
    /\ at = "found"
    /\ asked + 1 \notin Devices
    /\ at' = IF program # "ds1820" /\ dev[asked] = "null" THEN "off" ELSE "read"
    /\ asked' = 0
    /\ pc' = "ready"
    /\ UNCHANGED <<wire, sensor, listening, dev, clean, call, measured, disturbed,
                   report>>

(* ds1820_read_temp: its call, and then its steps. *)
StartReading ==
    /\ at = "read" /\ pc = "ready"
    /\ dev[asked] # "null"
    /\ Call
    /\ UNCHANGED <<at, report>>

(* The ds1820 program looks for NULL only after it has read through it,    *)
(* which resets the chip.                                                  *)
ReadNull ==
    /\ at = "read" /\ pc = "ready"
    /\ dev[asked] = "null"
    /\ at' = "off"
    /\ UNCHANGED <<dsVars, report>>

Read ==
    /\ at = "read"
    /\ ReadTemp
    /\ at' = IF pc' = "ready" THEN "report" ELSE "read"
    /\ UNCHANGED report

(* The node: a packet with the temperature and the supply voltage, and     *)
(* teardown.  A packet that the radio refuses, or has not sent when        *)
(* teardown stops it, is no report.  Nor is there one when the chip aborts *)
(* before: wifi_init_and_vcc_read returns no value for ESP_ERROR_CHECK to  *)
(* look at, nor does read_vcc after an ADC error.                          *)
Send ==
    /\ at = "report" /\ program = "node"
    /\ report' \in IF result = "ok" THEN {value, Unset} ELSE {Unset}
    /\ at' = "off"
    /\ UNCHANGED dsVars

(* The others: print, or publish (once: QoS 0).                            *)
Publish ==
    /\ at = "report" /\ program # "node"
    /\ report' \in IF result # "ok" THEN {Unset}
                   ELSE IF program = "mqtemp" THEN {value, Unset} ELSE {value}
    /\ at' = "pause"
    /\ UNCHANGED dsVars

(* After a delay, or at once, it is the next sensor's turn. *)
NextTurn ==
    /\ at = "pause"
    /\ at' = "read"
    /\ asked' = IF asked + 1 \in Devices THEN asked + 1 ELSE 0
    /\ report' = Unset
    /\ result' = "none"
    /\ value' = Unset
    /\ heard' = Unset
    /\ measured' = FALSE
    /\ UNCHANGED <<wire, sensor, listening, pc, dev, clean, scratchpad, disturbed>>

-------------------------------------------------------------------------------
AppMain ==
    \/ Boot \/ FindDevice \/ InitNext \/ InitDone
    \/ StartReading \/ ReadNull \/ Read
    \/ Send \/ Publish \/ NextTurn

Outside == World /\ UNCHANGED <<at, report>>

Next == AppMain \/ Outside

Spec == Init /\ [][Next]_vars

(* The program goes on, and a measurement ends. *)
FairSpec ==
    /\ Spec
    /\ WF_vars(AppMain)
    /\ \A d \in DOMAIN Roms :
        WF_vars(d \in Devices /\ SensorMeasures(d) /\ UNCHANGED <<at, report>>)

-------------------------------------------------------------------------------
(* Properties. *)

(* What is reported is the temperature in the scratchpad of the sensor     *)
(* that was asked, and of no other on the wire, unless the wire was        *)
(* short-circuited: disturbed bits never pass, and negative temperatures   *)
(* have their sign.  (A DS18S20 is read right from -0.25 to 63.69 degrees  *)
(* only: ds1820.c:321-325 takes one signed byte of it and halves that      *)
(* towards zero.  The older copies read no negative one right:             *)
(* mqtemp/main/ds1820.c:327.)                                              *)
InRange(t) ==
    IF sensor[asked].family = "DS18S20" THEN t \in -4 .. 1019
    ELSE program = "node" \/ t >= 0

ValueRight ==
    report # Unset /\ heard # Unset /\ InRange(heard) => report = heard

(* On a sound wire that nobody has touched since the sensor's ds1820_init, *)
(* a report tells a temperature measured for it, whether the driver waits  *)
(* for it or gives it the strong pull-up, as dev->power has it (which      *)
(* ds1820.c:401-405 sets when the sensor lives on the wire and otherwise   *)
(* leaves as malloc gave it) - unless the pull-up is given to a sensor     *)
(* that needs longer, whichever its supply (ds1820.c:126 rounds the time   *)
(* down to ticks), or noise has turned over the bit that says that it      *)
(* lives on the wire.                                                      *)
PullUpMayFail == dev[asked] = "parasite" /\ asked \in Slow

FreshReading ==
    report # Unset /\ ~shorted /\ asked \notin disturbed /\ ~PullUpMayFail
        => measured /\ heard # Unset

(* Unless the wire is low for ever, reads end: the node comes back to its  *)
(* deep sleep, the others to their next report or restart, again and again *)
(* (the loop of ds1820.c:250-256 has no limit of its own).  And once the   *)
(* wire stays sound with some sensor on it, every device gets its turn for *)
(* ever: one that is missing, whose NULL is read through at main.c:47 of   *)
(* the ds1820 program, does not keep the others from theirs.               *)
GoesOn ==
    /\ <>[]~shorted => []<>(at \in {"off", "report"})
    /\ \A d \in DOMAIN Roms :
        <>[](~shorted /\ plugged # {} /\ d \in Devices)
            => []<>(at = "report" /\ asked = d)
================================================================================
