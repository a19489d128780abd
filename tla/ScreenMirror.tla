----------------------------- MODULE ScreenMirror -----------------------------
(***************************************************************************)
(* What the esp_bus display promises: the text RAM is written one field at *)
(* a time by whoever owns the field, and the panel shows, field by field,  *)
(* a text that the RAM held at some moment; a field the owner leaves alone *)
(* ends up on the panel.  How writers and the copying task signal each     *)
(* other is the business of LcdRefresh, which implements this module.      *)
(***************************************************************************)
CONSTANTS
    Fields,     \* the zones of the screen
    Texts,      \* what a zone of the RAM can hold
    Template,   \* the RAM after the display task wrote the start-up screen
    Cleared     \* what a zone of the panel shows after lcd_clear

VARIABLES
    ram,        \* lcd_ram
    panel       \* the DDRAM of the HD44780

mirrorVars == <<ram, panel>>

MirrorInit ==
    /\ ram = Template
    /\ panel = [f \in Fields |-> Cleared]

(* Somebody writes a field. *)
Write(f, x) ==
    /\ ram' = [ram EXCEPT ![f] = x]
    /\ UNCHANGED panel

(* The panel catches up with the RAM on one field. *)
Show(f) ==
    /\ panel[f] # ram[f]
    /\ panel' = [panel EXCEPT ![f] = ram[f]]
    /\ UNCHANGED ram

MirrorNext ==
    \E f \in Fields : Show(f) \/ \E x \in Texts : Write(f, x)

MirrorSafety == MirrorInit /\ [][MirrorNext]_mirrorVars

MirrorSpec == MirrorSafety /\ \A f \in Fields : WF_mirrorVars(Show(f))
===============================================================================
