---------------------------- MODULE MCEspnowBridge ----------------------------
(* EspnowBridge with one message of each kind and with buffers for one:    *)
(* the three messages can fill the whole way to the serial line, and two   *)
(* of them can be in flight between the broker and the script.             *)
EXTENDS EspnowBridge

CONSTANTS reading, noValue, noise

MCPackets == {reading, noValue, noise}
MCKind ==
    [m \in MCPackets |->
        CASE m = noValue -> "poison" [] m = noise -> "garbage"
          [] OTHER -> "reading"]
===============================================================================
