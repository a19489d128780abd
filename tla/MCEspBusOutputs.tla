---------------------------- MODULE MCEspBusOutputs ----------------------------
(***************************************************************************)
(* EspBusOutputs with the two writers of esp_bus: the bus task fills the   *)
(* distance of the first bus and the row of the second, the clock task the *)
(* age.  The RAM holds the rows in the interleaved order of lcd.h: the     *)
(* second bus lies before the first.                                       *)
(*                                                                         *)
(* Buses are on both sides of every limit of format_distance and           *)
(* format_time, and the ages are those that differ.                        *)
(*                                                                         *)
(* There is room for two alert tasks, and the second between two polls     *)
(* (main.c:166) is twenty ticks.                                           *)
(***************************************************************************)
EXTENDS EspBusOutputs

CONSTANTS number1, distance1, number2, elapsed, old, new, blank, bus, clock,
          first, second

MCFields == {number1, distance1, number2, elapsed}
MCTexts == {old, new}
MCTemplate == [f \in MCFields |-> old]
MCTasks == {bus, clock}
MCZone ==
    [t \in MCTasks |-> IF t = bus THEN <<number1, distance1, number2>>
                       ELSE <<elapsed>>]
MCLayout == <<number2, number1, distance1, elapsed>>

MCBuses ==
    {[number |-> b[1], distance |-> b[2], time |-> b[3]] : b \in
        {<<7, -1, 0>>, <<14025, 0, 9>>, <<123, 999, 59>>, <<4, 1000, 60>>,
         <<99999, 1050, 61>>, <<123, 1099, 119>>, <<5, 1100, 599>>,
         <<61, 9999, 600>>, <<62, 10000, 659>>, <<63, 19999, 899>>,
         <<64, 20000, 900>>, <<65, 999999, 999999>>}}

MCAges == {0, 9, 10, 59, 60, 119, 539, 540, 100000}
MCLine == <<"1">>

MCSlots == {first, second}
===============================================================================
