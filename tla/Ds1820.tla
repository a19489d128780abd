-------------------------------- MODULE Ds1820 --------------------------------
(***************************************************************************)
(* ds1820.c: the driver of the temperature sensors on a 1-wire bus.  The   *)
(* programs of SensorPrograms each carry a copy of it; that of the ESP-NOW *)
(* node is the youngest.  Between any two bus operations a sensor may be   *)
(* pulled out or plugged in and the wire short-circuited, and what is read *)
(* from it may be disturbed.                                               *)
(*                                                                         *)
(* Temperatures are in sixteenths of a degree.                             *)
(***************************************************************************)
EXTENDS OneWireCrc, SequencesExt, Functions

CONSTANTS
    Roms,       \* the sensors the ds1820 program knows, 0 .. n, and their kinds
    Slow,       \* those that may need longer than a pull-up is sure to last
    Temps,      \* the temperatures there may be at each of them
    Noises      \* the sets of scratchpad bits that may be turned over at once

Families == {"DS18S20", "DS18B20"}
AllTemps == UNION Range(Temps)

ASSUME DsAssumption ==
    /\ IsFiniteSet(DOMAIN Roms)
    /\ DOMAIN Roms = 0 .. Cardinality(DOMAIN Roms) - 1
    /\ DOMAIN Roms # {}
    /\ Range(Roms) \subseteq Families
    /\ Slow \subseteq DOMAIN Roms
    /\ DOMAIN Temps = DOMAIN Roms
    /\ AllTemps \subseteq -880 .. 2000
    /\ Noises \subseteq SUBSET (0 .. 71)

VARIABLES
    program,    \* the program that runs, and whose copy of ds1820.c it is
    shorted,    \* the wire is low
    plugged,    \* the sensors that are connected to it
    sensor,     \* each of them
    listening,  \* those a reset has made listen for an address
    asked,      \* the device the caller has in hand
    pc,         \* where it is in the library
    dev,        \* each dev: NULL, or its power
    clean,      \* history: the last thing done on the bus was a reset
    scratchpad, \* dev->scratchpad, from read_scratchpad until it is judged
    result,     \* what the last ds1820_read_temp returned
    value,      \* *temp, a variable of this call
    heard,      \* history: what the asked sensor's scratchpad held in this call
    measured,   \* history: the asked sensor has ended a measurement in this call
    disturbed   \* history: the devices whose power bit noise has turned over,
                \* or after whose ds1820_init the bus changed

call == <<scratchpad, result, value, heard>>
wire == <<program, shorted, plugged>>
driverVars == <<asked, pc, dev, clean, call>>
dsVars == <<wire, sensor, listening, driverVars, measured, disturbed>>

(* Only the ds1820 program knows ROMs; the others have one sensor, of      *)
(* either kind.                                                            *)
Programs == {"node", "mqtemp", "ds1820"}
Devices == IF program = "ds1820" THEN DOMAIN Roms ELSE {0}

Unset == -10000     \* no temperature
PowerOnTemp == 1360 \* 85 degrees, what a sensor holds that has not measured
Pads == AllTemps \union {PowerOnTemp}

(* A sensor, external: its kind, whether it takes its power from the wire, *)
(* what its scratchpad holds, and whether it is measuring.                 *)
Sensors ==
    [family : Families, parasite : BOOLEAN, pad : Pads, busy : BOOLEAN]

Stages == {"none", "rom", "power", "ready", "convert", "poll", "pullup",
           "converted", "read", "padRead", "decoded"}
Errors == {"ok", "badCrc", "noAnswer", "emptyBus"}

DsTypeOK ==
    /\ program \in Programs
    /\ shorted \in BOOLEAN
    /\ plugged \subseteq Devices
    /\ sensor \in [Devices -> Sensors]
    /\ listening \subseteq plugged
    /\ asked \in Devices
    /\ pc \in Stages
    /\ dev \in [Devices -> {"null", "parasite", "other"}]
    /\ clean \in BOOLEAN
    /\ scratchpad \in [1 .. 9 -> Bytes]
    /\ result \in Errors \union {"none"}
    /\ value \in Int
    /\ heard \in Pads \union {Unset}
    /\ measured \in BOOLEAN
    /\ disturbed \subseteq Devices

Zeros == [i \in 1 .. 9 |-> 0]
Ones == [i \in 1 .. 9 |-> 255]

DsInit ==
    /\ program \in Programs
    /\ shorted \in BOOLEAN
    /\ plugged \in SUBSET Devices
    /\ sensor \in [Devices -> {s \in Sensors : s.pad = PowerOnTemp /\ ~s.busy}]
    /\ program = "ds1820" => \A d \in Devices : sensor[d].family = Roms[d]
    /\ listening = {}
    /\ asked = 0
    /\ pc = "none"
    /\ dev = [d \in Devices |-> "null"]
    /\ clean = FALSE
    /\ scratchpad = Zeros
    /\ result = "none"
    /\ value = Unset
    /\ heard = Unset
    /\ measured = FALSE
    /\ disturbed = {}

-------------------------------------------------------------------------------
(* The sensor's scratchpad and what the code makes of it. *)

Low8(n) == n % 256

(* External: the registers of the two kinds of sensor (their datasheets).  *)
PadOf(family, t) ==
    LET quarter == t + 4
        bytes ==
            IF family = "DS18B20"
            THEN <<Low8(t), Low8(t \div 256), 75, 70, 127, 255, 12, 16>>
            ELSE <<Low8(quarter \div 8), Low8(quarter \div 2048), 75, 70, 255, 255,
                   16 - (quarter % 16), 16>>
    IN  Append(bytes, MaximCrc(bytes))

(* What the bus may deliver of it, and the remainders crc8 finds.          *)
Delivered ==
    [family \in Families |->
        [t \in Pads |-> {Disturbed(PadOf(family, t), noise) : noise \in Noises}]]

Remainders ==
    [pad \in UNION UNION {Range(Delivered[family]) : family \in Families}
             \union {Zeros, Ones} |-> Crc8(pad)]

(* int8_t (and the same without its sign). *)
Unsigned8(b) == b
Signed8(b) == IF b < 128 THEN b ELSE b - 256

(* C's division by two, which drops the fraction. *)
Halved(n) == IF n >= 0 THEN n \div 2 ELSE -((-n) \div 2)

(* The fraction of a DS18S20, by floating point: 0 / 0 is not a number.     *)
NotANumber == -20000
HighRes(pad) ==
    IF pad[8] = 0 THEN NotANumber
    ELSE 16 * Halved(Signed8(pad[1])) - 4 + (16 * (pad[8] - pad[7])) \div pad[8]

(* The end of ds1820_read_temp: the older copies take the most significant *)
(* byte without a sign.                                                    *)
DecodeOld(family, pad) ==
    IF family = "DS18S20" THEN HighRes(pad) ELSE 256 * pad[2] + pad[1]

Decode(family, pad) ==
    IF program # "node" THEN DecodeOld(family, pad)
    ELSE IF family = "DS18S20" THEN HighRes(pad)
    ELSE 256 * Signed8(pad[2]) + pad[1]

-------------------------------------------------------------------------------
(* Bus operations of the driver. *)

(* reset: a wire that is low looks like a presence pulse, and any sensor   *)
(* gives one.                                                              *)
Presence == shorted \/ plugged # {}

Reset ==
    /\ listening' = IF shorted THEN {} ELSE plugged
    /\ clean' = TRUE

(* address_device and a command.  All sensors compare the ROM; those it    *)
(* does not fit keep silent until the next reset.  A single sensor is      *)
(* addressed by the ROM it was asked for.                                  *)
Reached == asked \in listening /\ ~shorted

Command ==
    /\ listening' = {}
    /\ clean' = FALSE

-------------------------------------------------------------------------------
(* ds1820_init.  The ds1820 program knows the ROMs of its sensors. *)

Probe ==
    /\ pc = "none"
    /\ Reset
    /\ pc' = IF ~Presence THEN "none"
             ELSE IF program = "ds1820" THEN "power" ELSE "rom"
    /\ result' = "none"
    /\ disturbed' = disturbed \ {asked}
    /\ UNCHANGED <<wire, sensor, asked, dev, scratchpad, value, heard, measured>>

(* read_rom, when the caller passes no ROM.  A wire that is low gives eight *)
(* zeros, whose CRC is right but whose family is unknown.  (That noise     *)
(* spoils the ROM, and the device is NULL, is left out.)                   *)
LearnRom ==
    /\ pc = "rom"
    /\ pc' = IF Reached THEN "power" ELSE "none"
    /\ Reset
    /\ UNCHANGED <<wire, sensor, asked, dev, call, measured, disturbed>>

(* read_power_mode: dev->power is set for parasite power and left as       *)
(* malloc gave it otherwise, which may be either value.  The mode is one   *)
(* bit that nothing checks: noise may turn it over, and so lift the 0 of a *)
(* sensor on parasite power.                                               *)
(* (LearnPowerAsRead: set to whatever read_power_mode returns.)            *)
SaysParasite == shorted \/ (Reached /\ sensor[asked].parasite)
MayTurnOver == ~shorted /\ \E noise \in Noises : noise # {}

LearnPowerAsRead ==
    /\ pc = "power"
    /\ dev' = [dev EXCEPT ![asked] =
                IF ~Presence THEN "emptyBus"
                ELSE IF SaysParasite THEN "parasite" ELSE "other"]
    /\ Reset
    /\ pc' = "ready"
    /\ UNCHANGED <<wire, sensor, asked, call, measured, disturbed>>

LearnPower ==
    /\ pc = "power"
    /\ \E power \in {"parasite", "other"} :
        /\ dev' = [dev EXCEPT ![asked] = power]
        /\ IF SaysParasite /\ power = "other"
           THEN MayTurnOver /\ disturbed' = disturbed \union {asked}
           ELSE UNCHANGED disturbed
    /\ Reset
    /\ pc' = "ready"
    /\ UNCHANGED <<wire, sensor, asked, call, measured>>

-------------------------------------------------------------------------------
(* ds1820_read_temp *)

Returns(r) == pc' = "ready" /\ result' = r

Call ==
    /\ pc = "ready"
    /\ pc' = "convert"
    /\ result' = "none"
    /\ value' = Unset
    /\ heard' = Unset
    /\ measured' = FALSE
    /\ UNCHANGED <<wire, sensor, listening, asked, dev, clean, scratchpad, disturbed>>

(* convert_t, up to the wait.  Without the strong pull-up a sensor on      *)
(* parasite power cannot measure.                                          *)
StartConversion ==
    /\ pc = "convert"
    /\ pc' = IF dev[asked] = "parasite" THEN "pullup" ELSE "poll"
    /\ sensor' = [sensor EXCEPT ![asked].busy =
                    /\ Reached \/ (@ /\ ~sensor[asked].parasite)
                    /\ sensor[asked].parasite => dev[asked] = "parasite"]
    /\ Command
    /\ UNCHANGED <<wire, asked, dev, call, measured, disturbed>>

(* A sensor ends its measurement with one of its temperatures, or, when    *)
(* its power fails it, without.                                            *)
Measures(d) ==
    /\ \E t \in Temps[d] : sensor' = [sensor EXCEPT ![d].busy = FALSE, ![d].pad = t]
    /\ measured' = (measured \/ d = asked)

Fails(d) ==
    /\ \E t \in {sensor[d].pad, PowerOnTemp} :
            sensor' = [sensor EXCEPT ![d].busy = FALSE, ![d].pad = t]
    /\ UNCHANGED measured

(* The strong pull-up lasts 94 << 3 = 752 ms in ticks of 10 ms, from 740   *)
(* to 750, whatever the sensor does.  A slow one may not be done then: one *)
(* that lives on the wire is without power (as is any of these when the    *)
(* wire has been short-circuited meanwhile), and one with a supply of its  *)
(* own, which is given the pull-up when dev->power happens to be set, goes *)
(* on measuring and is read too early.                                     *)
PullUp ==
    /\ pc = "pullup"
    /\ pc' = "converted"
    /\ \/ sensor[asked].busy /\ Measures(asked)
       \/ /\ sensor[asked].busy /\ sensor[asked].parasite
          /\ asked \in Slow \union disturbed
          /\ Fails(asked)
       \/ /\ sensor[asked].busy => asked \in Slow /\ ~sensor[asked].parasite
          /\ UNCHANGED <<sensor, measured>>
    /\ UNCHANGED <<wire, listening, asked, dev, clean, call, disturbed>>

(* One byte every 20 ms (the node: 150 ms) until it is FF.  A sensor that  *)
(* measures answers with zeros; a wire on which nobody answers reads as    *)
(* ones.  (PollOnce: no loop; PollForZero: the other value ends it.)       *)
Busy ==
    \/ shorted
    \/ asked \in plugged /\ sensor[asked].busy /\ ~sensor[asked].parasite

Waited ==
    /\ pc = "poll"
    /\ pc' = "converted"
    /\ UNCHANGED <<wire, sensor, listening, asked, dev, clean, call, measured,
                   disturbed>>

PollOnce == Waited

PollForZero == Busy /\ Waited

Poll == ~Busy /\ Waited

(* The reset that ends convert_t. *)
EndConversion ==
    /\ pc = "converted"
    /\ Reset
    /\ IF Presence THEN pc' = "read" /\ UNCHANGED result ELSE Returns("emptyBus")
    /\ UNCHANGED <<wire, sensor, asked, dev, scratchpad, value, heard, measured,
                   disturbed>>

(* read_scratchpad, up to its reset. *)
ReadScratchpad ==
    /\ pc = "read"
    /\ pc' = "padRead"
    /\ IF Reached
       THEN /\ scratchpad' \in Delivered[sensor[asked].family][sensor[asked].pad]
            /\ heard' = sensor[asked].pad
       ELSE /\ scratchpad' = IF shorted THEN Zeros ELSE Ones
            /\ heard' = Unset
    /\ Command
    /\ UNCHANGED <<wire, sensor, asked, dev, result, value, measured, disturbed>>

(* Its reset and its verdict, and the conversion to a temperature.         *)
(* Nobody reads the scratchpad again before it is filled again.            *)
(* (JudgeWithoutReset: without the reset.)                                 *)
Verdict(pad) ==
    IF pad = Ones THEN "noAnswer"
    ELSE IF Remainders[pad] # 0 THEN "badCrc"
    ELSE "ok"

(* What crc8 tells for certain: an odd number of bits, or bits within      *)
(* eight that follow each other (the proofs derive it).  Of all noises it  *)
(* would let one in 256 pass.                                              *)
ASSUME NoiseAssumption ==
    \A noise \in Noises :
        \/ Cardinality(noise) % 2 = 1
        \/ \E first \in 0 .. 64 : noise \subseteq first .. first + 7

Settle(verdict) ==
    /\ scratchpad' = Zeros
    /\ IF verdict # "ok" THEN Returns(verdict) /\ UNCHANGED value
       ELSE /\ value' = Decode(sensor[asked].family, scratchpad)
            /\ pc' = "decoded"
            /\ UNCHANGED result
    /\ UNCHANGED <<wire, sensor, asked, dev, heard, measured, disturbed>>

JudgeWithoutReset ==
    /\ pc = "padRead"
    /\ Settle(Verdict(scratchpad))
    /\ UNCHANGED <<listening, clean>>

Judge ==
    /\ pc = "padRead"
    /\ Reset
    /\ Settle(IF Presence THEN Verdict(scratchpad) ELSE "emptyBus")

(* The last reset. *)
Finish ==
    /\ pc = "decoded"
    /\ Reset
    /\ Returns(IF Presence THEN "ok" ELSE "emptyBus")
    /\ UNCHANGED <<wire, sensor, asked, dev, scratchpad, value, heard, measured,
                   disturbed>>

-------------------------------------------------------------------------------
(* The world. *)

BusChanges ==
    /\ disturbed' = Devices
    /\ UNCHANGED <<program, driverVars, measured>>

Short ==
    /\ shorted' = ~shorted
    /\ listening' = {}
    /\ BusChanges
    /\ UNCHANGED <<plugged, sensor>>

Plug(d) ==
    /\ d \notin plugged
    /\ plugged' = plugged \union {d}
    /\ BusChanges
    /\ UNCHANGED <<shorted, sensor, listening>>

(* A sensor that is pulled out forgets. *)
Unplug(d) ==
    /\ d \in plugged
    /\ plugged' = plugged \ {d}
    /\ listening' = listening \ {d}
    /\ sensor' = [sensor EXCEPT ![d].busy = FALSE, ![d].pad = PowerOnTemp]
    /\ BusChanges
    /\ UNCHANGED shorted

(* With a supply of its own the sensor measures by itself. *)
SensorMeasures(d) ==
    /\ sensor[d].busy /\ ~sensor[d].parasite
    /\ Measures(d)
    /\ UNCHANGED <<wire, listening, driverVars, disturbed>>

-------------------------------------------------------------------------------
InitSensor == Probe \/ LearnRom \/ LearnPower

ReadTemp ==
    \/ StartConversion \/ PullUp \/ Poll \/ EndConversion
    \/ ReadScratchpad \/ Judge \/ Finish

World ==
    \/ Short
    \/ \E d \in Devices : Plug(d) \/ Unplug(d) \/ SensorMeasures(d)

-------------------------------------------------------------------------------
(* Properties. *)

(* Every address goes out on a bus that has just been reset, whichever way *)
(* the call before it ended (ds1820.c:215-225): a sensor in the middle of  *)
(* an answer would not understand it.                                      *)
ResetBeforeAddress == pc \in {"rom", "power", "ready", "convert", "read"} => clean
===============================================================================
