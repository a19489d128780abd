---------------------------------- MODULE Pmla ----------------------------------
(***************************************************************************)
(* pmla.c of gpio_int_simple, the "poor man's logic analyzer": the handler *)
(* of every edge reads the level of the pin and puts it on a queue, from   *)
(* which a task prints it.                                                 *)
(***************************************************************************)
EXTENDS GpioPin

VARIABLES
    level,      \* data.level of pmla_isr
    queue,      \* pmla_queue: the levels in it
    lastLevel,  \* last_level of pmla_task
    printed,    \* history: pmla_task has had a record
    dropped     \* history: the last record found the queue full

pmlaVars == <<level, queue, lastLevel, printed, dropped>>

PmlaTypeOK ==
    /\ level \in Levels
    /\ queue \in Seq(Levels) /\ Len(queue) <= QueueSize
    /\ lastLevel \in Levels
    /\ printed \in BOOLEAN
    /\ dropped \in BOOLEAN

PmlaInit ==
    /\ level = 0
    /\ queue = <<>>
    /\ lastLevel = 0
    /\ printed = FALSE
    /\ dropped = FALSE

-------------------------------------------------------------------------------
Edge == AnyEdge /\ UNCHANGED pmlaVars

Interrupt == CallHandler /\ UNCHANGED pmlaVars

(* pmla_isr: the level is that of now, not that of the edge.               *)
ReadLevel ==
    /\ isr = "called"
    /\ isr' = "read"
    /\ level' = pin
    /\ UNCHANGED <<pin, latched, queue, lastLevel, printed, dropped>>

(* When the queue is full, xQueueSendFromISR does not wait, and nobody     *)
(* looks at what it returns.  (SendClearing: a handler that clears the     *)
(* status itself, when it has done its work.)                              *)
HasRoomInclusive == Len(queue) <= QueueSize
HasRoom == Len(queue) < QueueSize

SendClearing ==
    /\ isr = "read"
    /\ isr' = "idle"
    /\ latched' = FALSE
    /\ queue' = IF HasRoom THEN Append(queue, level) ELSE queue
    /\ dropped' = ~HasRoom
    /\ UNCHANGED <<pin, level, lastLevel, printed>>

Send ==
    /\ isr = "read"
    /\ isr' = "idle"
    /\ queue' = IF HasRoom THEN Append(queue, level) ELSE queue
    /\ dropped' = ~HasRoom
    /\ UNCHANGED <<pin, latched, level, lastLevel, printed>>

(* pmla_task: it prints the level and, if that is last_level, a warning.   *)
PmlaTask ==
    /\ TaskRuns
    /\ queue # <<>>
    /\ queue' = Tail(queue)
    /\ lastLevel' = Head(queue)
    /\ printed' = TRUE
    /\ UNCHANGED <<pinVars, level, dropped>>

PmlaNext == Edge \/ Interrupt \/ ReadLevel \/ Send \/ PmlaTask

-------------------------------------------------------------------------------
(* Properties. *)

(* However fast the edges came, when all is quiet the level printed last   *)
(* is the level of the pin, unless its own record found the queue full     *)
(* (pmla.c:39): edges that fall together, or during the handler, cost      *)
(* records in between but not the last one.                                *)
Quiet == ~latched /\ isr = "idle" /\ queue = <<>>

LastLevelRight == Quiet /\ printed /\ ~dropped => lastLevel = pin
=================================================================================
