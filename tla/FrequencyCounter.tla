----------------------------- MODULE FrequencyCounter -----------------------------
(***************************************************************************)
(* main.c of gpio_int_simple: the handler counts rising edges, and once a  *)
(* second a task prints the count and sets it to zero, in two steps, with  *)
(* the handler going on.                                                   *)
(***************************************************************************)
EXTENDS GpioPin

CONSTANT MaxEdges       \* rising edges in a behaviour

ASSUME CounterAssumption == MaxEdges \in Nat

VARIABLES
    counter,    \* counter
    tells,      \* the number being printed, or NotPrinting
    edges,      \* history: rising edges
    reported,   \* history: the sum of all numbers printed
    merged,     \* history: edges whose interrupt was already pending
    wiped       \* history: edges counted while the last count was printed

counterVars == <<counter, tells, edges, reported, merged, wiped>>

NotPrinting == MaxEdges + 1

CounterTypeOK ==
    /\ edges \in 0 .. MaxEdges
    /\ tells \in 0 .. NotPrinting
    /\ counter \in Nat /\ reported \in Nat /\ merged \in Nat /\ wiped \in Nat

CounterInit ==
    /\ counter = 0
    /\ tells = NotPrinting
    /\ edges = 0
    /\ reported = 0
    /\ merged = 0
    /\ wiped = 0

-------------------------------------------------------------------------------
(* GPIO_INTR_POSEDGE *)
Fall ==
    /\ pin = 1
    /\ pin' = 0
    /\ UNCHANGED <<latched, isr, counterVars>>

Rise ==
    /\ pin = 0
    /\ edges < MaxEdges
    /\ AnyEdge
    /\ edges' = edges + 1
    /\ merged' = IF latched THEN merged + 1 ELSE merged
    /\ UNCHANGED <<counter, tells, reported, wiped>>

CounterInterrupt == CallHandler /\ UNCHANGED counterVars

(* isr_pin_input_handler *)
Count ==
    /\ isr = "called"
    /\ isr' = "idle"
    /\ counter' = counter + 1
    /\ UNCHANGED <<pin, latched, tells, edges, reported, merged, wiped>>

(* The second is over: printf takes the counter, and sends it slowly.      *)
PrintCount ==
    /\ TaskRuns /\ tells = NotPrinting
    /\ tells' = counter
    /\ reported' = reported + counter
    /\ UNCHANGED <<pinVars, counter, edges, merged, wiped>>

(* (ZeroNot: without the assignment, the count goes on.)                   *)
ZeroNot ==
    /\ TaskRuns /\ tells # NotPrinting
    /\ wiped' = wiped + (counter - tells)
    /\ tells' = NotPrinting
    /\ UNCHANGED <<pinVars, counter, edges, reported, merged>>

Zero ==
    /\ TaskRuns /\ tells # NotPrinting
    /\ wiped' = wiped + (counter - tells)
    /\ counter' = 0
    /\ tells' = NotPrinting
    /\ UNCHANGED <<pinVars, edges, reported, merged>>

CounterNext == Fall \/ Rise \/ CounterInterrupt \/ Count \/ PrintCount \/ Zero

-------------------------------------------------------------------------------
(* Properties. *)

(* No edge is in two of the numbers printed, and only two kinds of edge    *)
(* are in none: those that came while their interrupt was pending, and     *)
(* those that came between the reading and the zeroing of the counter      *)
(* (main.c:41-42).                                                         *)
One(condition) == IF condition THEN 1 ELSE 0

Unreported == IF tells = NotPrinting THEN counter ELSE counter - tells

EachEdgeOnce ==
    program = "counter" =>
        edges = reported + Unreported + merged + wiped + One(latched)
                + One(isr = "called")
===================================================================================
