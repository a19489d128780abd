------------------------------ MODULE LcdLibrary ------------------------------
(***************************************************************************)
(* soft_lcd.c under the two kinds of program it has: the display task of   *)
(* esp_bus, which sends frames nibble by nibble over a bus that may fail,  *)
(* and one that prints text.                                               *)
(***************************************************************************)
EXTENDS SoftLcd, LcdText

VARIABLE program    \* "frames" or "text"

vars == <<frameVars, textVars, program>>

TypeOK ==
    /\ FrameTypeOK
    /\ TextTypeOK
    /\ program \in {"frames", "text"}

AnyPanel == CHOOSE c \in PowerOn : TRUE
MostLines == CHOOSE n \in Displays : \A m \in Displays : m <= n

(* What the other program uses stays as it is. *)
Init ==
    \/ program = "frames" /\ FrameInit /\ TextInit /\ lcd.lines = MostLines
    \/ program = "text" /\ TextInit /\ FrameInit /\ panel = AnyPanel

Next ==
    \/ program = "frames" /\ FrameNext /\ UNCHANGED <<textVars, program>>
    \/ program = "text" /\ TextNext /\ UNCHANGED <<frameVars, program>>

Spec == Init /\ [][Next]_vars
===============================================================================
