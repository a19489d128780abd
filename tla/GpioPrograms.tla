------------------------------ MODULE GpioPrograms ------------------------------
(***************************************************************************)
(* The three programs of gpio_int_simple, of which one is built at a time. *)
(***************************************************************************)
EXTENDS Pmla, PinEvents, FrequencyCounter

vars == <<program, pinVars, pmlaVars, eventVars, counterVars>>

TypeOK ==
    /\ PinTypeOK
    /\ PmlaTypeOK
    /\ EventTypeOK
    /\ CounterTypeOK

Init ==
    /\ PinInit
    /\ PmlaInit
    /\ EventInit
    /\ CounterInit

(* What the other programs have stays as it is. *)
Next ==
    \/ program = "pmla" /\ PmlaNext /\ UNCHANGED <<eventVars, counterVars, program>>
    \/ program = "events" /\ EventNext /\ UNCHANGED <<pmlaVars, counterVars, program>>
    \/ program = "counter" /\ CounterNext /\ UNCHANGED <<pmlaVars, eventVars, program>>

Spec == Init /\ [][Next]_vars

-------------------------------------------------------------------------------
(* Properties. *)

(* What is printed when all is quiet is the truth, in both programs that   *)
(* print levels (pmla.c:36-59, simple_example.c:37-61).                    *)
QuietTruth ==
    /\ program = "pmla" => LastLevelRight
    /\ program = "events" => ShownIsCurrent
=================================================================================
