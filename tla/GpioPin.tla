-------------------------------- MODULE GpioPin --------------------------------
(***************************************************************************)
(* The input of the gpio_int_simple programs, which is external: a pin     *)
(* whose edges raise an interrupt, and the interrupt service of the SDK,   *)
(* which calls the handler.  The pin does not wait for any of them.        *)
(***************************************************************************)
EXTENDS Naturals, Sequences

CONSTANT QueueSize      \* records that fit in a queue of the programs

ASSUME GpioAssumption == QueueSize \in Nat \ {0}

VARIABLES
    program,    \* the program that runs
    pin,        \* the level of the pin
    latched,    \* its interrupt is pending
    isr         \* the handler: "idle", "called", or it has "read" the level

pinVars == <<pin, latched, isr>>

Levels == {0, 1}

(* pmla.c, simple_example.c and main.c. *)
Programs == {"pmla", "events", "counter"}

PinTypeOK ==
    /\ program \in Programs
    /\ pin \in Levels
    /\ latched \in BOOLEAN
    /\ isr \in {"idle", "called", "read"}

(* The handler is installed.  The pull-up keeps the pin high unless what   *)
(* is connected to it does not.                                            *)
PinInit ==
    /\ program \in Programs
    /\ pin \in Levels
    /\ latched = FALSE
    /\ isr = "idle"

(* An edge: two before the interrupt is served are one interrupt.          *)
AnyEdge == pin' = 1 - pin /\ latched' = TRUE /\ UNCHANGED isr

(* The service clears the pin's status and calls the handler. *)
CallHandler ==
    /\ isr = "idle" /\ latched
    /\ latched' = FALSE
    /\ isr' = "called"
    /\ UNCHANGED pin

(* A task runs while the processor serves no interrupt. *)
TaskRuns == isr = "idle" /\ ~latched
===============================================================================
