---------------------------- MODULE MCSensorPrograms ----------------------------
(* SensorPrograms with two sensors on the wire of the ds1820 program, one  *)
(* of each kind (main.c:25-27 has three ROMs), the second a slow one;      *)
(* temperatures on either side of zero (85 degrees, which a sensor starts  *)
(* with, is one more), and noises of one, two and three bits; and crc8     *)
(* compared with its reference on some messages.                           *)
EXTENDS SensorPrograms

MCRoms == (0 :> "DS18S20") @@ (1 :> "DS18B20")
MCSlow == {1}
MCTemps == (0 :> {-162, 0, 401}) @@ (1 :> {164, 8})
MCNoises == {{}, {0}, {13, 14}, {3, 40, 71}}

Samples ==
    {<<a, b, 255, c>> : a \in {0, 1, 94, 128, 255}, b \in {0, 7, 248}, c \in {1, 12}}

ASSUME Crc8IsMaxim == \A m \in Samples : Crc8(m) = MaximCrc(m)
===============================================================================
