------------------------------ MODULE LcdRefresh ------------------------------
(***************************************************************************)
(* The display of esp_bus: three FreeRTOS tasks share lcd_ram and one bit  *)
(* of an event group.                                                      *)
(*                                                                         *)
(*   update_bus_times_task and update_elapsed_task (priority 4) rewrite    *)
(*   the zone each of them reserves in lcd_ram, field after field, and     *)
(*   then set the bit with lcd_new_data.  They preempt each other at any   *)
(*   tick: nothing tells one that the other is half way through its zone.  *)
(*                                                                         *)
(*   update_lcd_physical_task (priority 5) waits for the bit, which the    *)
(*   wait clears, and copies lcd_ram to the panel position by position.    *)
(*                                                                         *)
(* A field stands for the bytes one format_ call or memcpy writes.         *)
(***************************************************************************)
EXTENDS Naturals, Sequences

CONSTANTS
    Fields,     \* the zones of the screen
    Texts,      \* what a zone of the RAM can hold
    Template,   \* the start-up screen
    Cleared,    \* what a zone of the panel shows after lcd_clear
    Tasks,      \* the tasks that write lcd_ram
    Zone,       \* the fields each task writes, in the order of its code
    Layout      \* the fields in the order of their addresses in lcd_ram

ASSUME LayoutAssumption ==
    /\ Layout \in Seq(Fields) /\ Len(Layout) > 0
    /\ \A f \in Fields : \E i \in DOMAIN Layout : Layout[i] = f

ASSUME ZoneAssumption ==
    \A t \in Tasks : Zone[t] \in Seq(Fields) /\ Len(Zone[t]) > 0

ASSUME TemplateAssumption == Template \in [Fields -> Texts]

VARIABLES
    ram,            \* lcd_ram
    panel,          \* the DDRAM of the HD44780
    ready,          \* LCD_DATA_READY in lcd_event_group
    next,           \* 0: lcd_wait_new_data; else the position being copied
    pos,            \* the next step of each writer; Len + 1: lcd_new_data
    driverYields    \* the I2C driver lets lower tasks run while it sends

vars == <<ram, panel, ready, next, pos, driverYields>>

-------------------------------------------------------------------------------
TypeOK ==
    /\ ram \in [Fields -> Texts]
    /\ panel \in [Fields -> Texts \union {Cleared}]
    /\ ready \in BOOLEAN
    /\ next \in 0 .. Len(Layout)
    /\ pos \in [Tasks -> Nat]
    /\ \A t \in Tasks : pos[t] \in 1 .. Len(Zone[t]) + 1
    /\ driverYields \in BOOLEAN

(* The display task has run its prologue before any writer starts: it is   *)
(* created first and with the higher priority.  Whether the I2C driver     *)
(* gives the processor away during a transfer is not this program's code,  *)
(* so both kinds of driver are considered.                                 *)
Init ==
    /\ ram = Template
    /\ panel = [f \in Fields |-> Cleared]
    /\ ready = TRUE
    /\ next = 0
    /\ pos = [t \in Tasks |-> 1]
    /\ driverYields \in BOOLEAN

-------------------------------------------------------------------------------
(* The writers. *)

(* A priority 4 task gets the processor only while the priority 5 task is  *)
(* blocked: waiting for the bit, or inside a driver that yields.           *)
(* (AnyoneRuns is the same with all tasks at one priority.)                *)
AnyoneRuns == TRUE

WriterRuns == (next = 0 /\ ~ready) \/ (next # 0 /\ driverYields)

(* One format_ or memcpy call of task t. *)
WriteField(t) ==
    /\ WriterRuns
    /\ pos[t] <= Len(Zone[t])
    /\ \E x \in Texts : ram' = [ram EXCEPT ![Zone[t][pos[t]]] = x]
    /\ pos' = [pos EXCEPT ![t] = @ + 1]
    /\ UNCHANGED <<panel, ready, next, driverYields>>

(* lcd_new_data, after the last field of the zone. *)
NewData(t) ==
    /\ WriterRuns
    /\ pos[t] = Len(Zone[t]) + 1
    /\ ready' = TRUE
    /\ pos' = [pos EXCEPT ![t] = 1]
    /\ UNCHANGED <<ram, panel, next, driverYields>>

-------------------------------------------------------------------------------
(* The display task. *)

(* lcd_wait_new_data returns and has cleared the bit; the cursor goes home. *)
WaitNewData ==
    /\ next = 0
    /\ ready
    /\ ready' = FALSE
    /\ next' = 1
    /\ UNCHANGED <<ram, panel, pos, driverYields>>

(* The loop's bound, and the same with <= for <.                           *)
AfterPositionTooFar == IF next > Len(Layout) THEN 0 ELSE next + 1

AfterPosition == IF next = Len(Layout) THEN 0 ELSE next + 1

(* One turn of the copy loop of update_lcd_physical; before it, two        *)
(* plausible mistakes: to clear the bit when the copy is done, and to stop *)
(* one position early.                                                     *)
PutFieldClearingLate ==
    /\ next # 0
    /\ panel' = [panel EXCEPT ![Layout[next]] = ram[Layout[next]]]
    /\ next' = AfterPosition
    /\ ready' = (ready /\ next' # 0)
    /\ UNCHANGED <<ram, pos, driverYields>>

PutFieldSkippingLast ==
    /\ next # 0
    /\ panel' = IF next = Len(Layout) THEN panel
                ELSE [panel EXCEPT ![Layout[next]] = ram[Layout[next]]]
    /\ next' = AfterPosition
    /\ UNCHANGED <<ram, ready, pos, driverYields>>

PutField ==
    /\ next # 0
    /\ panel' = [panel EXCEPT ![Layout[next]] = ram[Layout[next]]]
    /\ next' = AfterPosition
    /\ UNCHANGED <<ram, ready, pos, driverYields>>

-------------------------------------------------------------------------------
DisplayTask == WaitNewData \/ PutField

Next ==
    \/ DisplayTask
    \/ \E t \in Tasks : WriteField(t) \/ NewData(t)

Spec == Init /\ [][Next]_vars

(* A writer that has started on its zone goes on to lcd_new_data.  When it *)
(* starts again is up to the network and the clock, and may be never.      *)
Continue(t) == pos[t] > 1 /\ (WriteField(t) \/ NewData(t))

RefreshFairness ==
    /\ WF_vars(DisplayTask)
    /\ \A t \in Tasks : SF_vars(Continue(t))

-------------------------------------------------------------------------------
(* Properties. *)

Waiting == next = 0 /\ ~ready

(* Nobody is inside its zone. *)
Quiet == \A t \in Tasks : pos[t] = 1

(* No text is lost: when the display task waits, the bit is clear and no   *)
(* writer is inside its zone, the panel shows what lcd_ram holds.  It is   *)
(* the exchange of xEventGroupWaitBits with clear-on-exit (lcd.c:31) and   *)
(* the copy that ensures it: a field written behind the copying position   *)
(* is announced by a bit that the copy must not clear.                     *)
NoLostUpdate == Waiting /\ Quiet => panel = ram

(* With a driver that keeps the processor, a finished copy shows one       *)
(* instant of lcd_ram: the priorities of main.c:183-185 keep the writers   *)
(* out for the whole of update_lcd_physical.                               *)
CopyIsSnapshot ==
    [][~driverYields /\ next # 0 /\ next' = 0 => panel' = ram]_vars

(* The panel follows the RAM: LcdRefresh implements ScreenMirror, with its *)
(* fairness.                                                               *)
Mirror == INSTANCE ScreenMirror WITH ram <- ram, panel <- panel
Mirrors == Mirror!MirrorSpec
===============================================================================
