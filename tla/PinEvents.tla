------------------------------- MODULE PinEvents -------------------------------
(***************************************************************************)
(* simple_example.c of gpio_int_simple: the handler puts only the number   *)
(* of the pin on a queue; the task reads the level itself, three times for *)
(* each record.                                                            *)
(***************************************************************************)
EXTENDS GpioPin

VARIABLES
    events,     \* records in gpio_evt_queue, which are all the same
    taskAt,     \* gpio_task_example: "receive", "print" or "remember"
    shown,      \* the level it printed last, or NoLevel
    lastStatus  \* last_status

NoLevel == 2

eventVars == <<events, taskAt, shown, lastStatus>>

EventTypeOK ==
    /\ events \in 0 .. QueueSize
    /\ taskAt \in {"receive", "print", "remember"}
    /\ shown \in Levels \union {NoLevel}
    /\ lastStatus \in Levels

EventInit ==
    /\ events = 0
    /\ taskAt = "receive"
    /\ shown = NoLevel
    /\ lastStatus = 0

-------------------------------------------------------------------------------
EventEdge == AnyEdge /\ UNCHANGED eventVars

EventInterrupt == CallHandler /\ UNCHANGED eventVars

(* isr_pin_input_handler: a record that finds the queue full is dropped.   *)
Signal ==
    /\ isr = "called"
    /\ isr' = "idle"
    /\ events' = IF events < QueueSize THEN events + 1 ELSE events
    /\ UNCHANGED <<pin, latched, taskAt, shown, lastStatus>>

(* gpio_task_example, one read of the level after the other; the second,   *)
(* between these two, only decides about a warning.                        *)
Receive ==
    /\ TaskRuns /\ taskAt = "receive"
    /\ events > 0
    /\ events' = events - 1
    /\ taskAt' = "print"
    /\ UNCHANGED <<pinVars, shown, lastStatus>>

PrintLevel ==
    /\ TaskRuns /\ taskAt = "print"
    /\ shown' = pin
    /\ taskAt' = "remember"
    /\ UNCHANGED <<pinVars, events, lastStatus>>

Remember ==
    /\ TaskRuns /\ taskAt = "remember"
    /\ lastStatus' = pin
    /\ taskAt' = "receive"
    /\ UNCHANGED <<pinVars, events, shown>>

EventNext ==
    EventEdge \/ EventInterrupt \/ Signal \/ Receive \/ PrintLevel \/ Remember

-------------------------------------------------------------------------------
(* Properties. *)

(* When all is quiet the level printed last is that of the pin, and so is  *)
(* last_status, which the next edge is compared with.  There is no         *)
(* exception for a full queue, as LastLevelRight has one: the task reads   *)
(* the level after it has taken a record (simple_example.c:48-58), so a    *)
(* record that is dropped leaves others behind it that will tell as much.  *)
AllTold == TaskRuns /\ taskAt = "receive" /\ events = 0

ShownIsCurrent == AllTold /\ shown # NoLevel => shown = pin /\ lastStatus = pin
=================================================================================
