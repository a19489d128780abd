------------------------------- MODULE MCSoftLcd -------------------------------
(* SoftLcd with a different character in every position of lcd_ram, and    *)
(* with a controller that has just been powered or is left, by a restart   *)
(* of the chip, after either nibble of a command or a character.           *)
EXTENDS SoftLcd

MCRam == [i \in 0 .. 79 |-> IF i = 79 THEN 0 ELSE 33 + i]

MCPowerOn ==
    [bits : {4}, upper : -1 .. 15, two : {TRUE}, addr : {0, 39, 64},
     right : BOOLEAN, cg : BOOLEAN, shift : {0, 1}, look : {0, 4},
     text : {[i \in 0 .. 79 |-> 88]}, glyphs : {[i \in 0 .. 63 |-> 0]}]
    \union
    [bits : {8}, upper : {-1}, two : {FALSE}, addr : {0}, right : {TRUE},
     cg : {FALSE}, shift : {0}, look : {0},
     text : {[i \in 0 .. 79 |-> 88]}, glyphs : {[i \in 0 .. 63 |-> 0]}]
===============================================================================
