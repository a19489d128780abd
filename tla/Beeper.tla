-------------------------------- MODULE Beeper --------------------------------
(***************************************************************************)
(* The beeper of esp_bus.  Each alert is a task of its own, launched by    *)
(* the bus task, that switches the one PWM channel on and off with delays  *)
(* in between and then deletes itself.  Nothing serialises two of them.    *)
(*                                                                         *)
(* Time advances in ticks of 50 ms, the greatest common divisor of all     *)
(* delays.  Alert tasks have the highest priority (5) of the application:  *)
(* a task whose delay is over takes its step before the next tick.         *)
(***************************************************************************)
EXTENDS Naturals

CONSTANTS
    Slots,      \* alert tasks that fit in the heap at the same time
    PollGap     \* ticks between two calls of alert, at least (main.c:166)

ASSUME BeeperAssumption == PollGap \in Nat

VARIABLES
    task,       \* per slot: the alert task in it, or Idle
    pwm,        \* the PWM channel: whether it runs, and its frequency in Hz
    quiet       \* ticks since the last call of alert, up to PollGap

beeperVars == <<task, pwm, quiet>>

Types == {1, 2}

(* The two patterns of bg_alert_task: outer and inner turns, the tone, and *)
(* the length of a beep, of a gap and of the pause after a group.          *)
Pattern(type) ==
    IF type = 1
    THEN [groups |-> 3, beeps |-> 4, tone |-> 800,
          beep |-> 2, gap |-> 2, pause |-> 6]
    ELSE [groups |-> 2, beeps |-> 2, tone |-> 1000,
          beep |-> 15, gap |-> 4, pause |-> 20]

(* A task is in one of three delays; left is the rest of it.  shared is    *)
(* history: another alert task has lived at the same time.                 *)
Idle == [type |-> 0]

Running(s) == task[s] # Idle
Others(s) == {o \in Slots \ {s} : Running(o)}

BeeperTypeOK ==
    /\ pwm \in [on : BOOLEAN, freq : {0, 800, 1000}]
    /\ quiet \in 0 .. PollGap
    /\ \A s \in Slots : Running(s) =>
        LET p == Pattern(task[s].type) IN
        /\ task[s].type \in Types
        /\ task[s].i \in 0 .. p.groups - 1
        /\ task[s].j \in 0 .. p.beeps
        /\ task[s].at \in {"beep", "gap", "pause"}
        /\ task[s].left \in 0 .. p[task[s].at]
        /\ task[s].shared \in BOOLEAN

BeeperInit ==
    /\ task = [s \in Slots |-> Idle]
    /\ pwm = [on |-> FALSE, freq |-> 0]
    /\ quiet = PollGap

-------------------------------------------------------------------------------
Enter(t, where) == [t EXCEPT !.at = where, !.left = Pattern(t.type)[where]]

(* The first half of beep, up to its delay. *)
Sound(type) == [on |-> TRUE, freq |-> Pattern(type).tone]

(* alert: the new task starts at once, with the first beep of its pattern. *)
LaunchIn(s, type) ==
    /\ task' = [o \in Slots |->
            IF o = s
            THEN Enter([type |-> type, i |-> 0, j |-> 0, at |-> "beep",
                        left |-> 0, shared |-> Others(s) # {}], "beep")
            ELSE IF Running(o) THEN [task[o] EXCEPT !.shared = TRUE]
            ELSE task[o]]
    /\ pwm' = Sound(type)

Alert(type) ==
    /\ quiet = PollGap
    /\ quiet' = 0
    /\ \E s \in Slots : ~Running(s) /\ LaunchIn(s, type)

(* xTaskCreate finds no memory; the bus task ignores ESP_ERR_NO_MEM. *)
AlertNoMem ==
    /\ quiet = PollGap
    /\ quiet' = 0
    /\ \A s \in Slots : Running(s)
    /\ UNCHANGED <<task, pwm>>

Due(s) == Running(s) /\ task[s].left = 0

(* The end of beep: pwm_stop, and the gap that follows.  (The first form   *)
(* returns from beep without pwm_stop.)                                    *)
EndBeepStillOn(s) ==
    /\ Due(s) /\ task[s].at = "beep"
    /\ task' = [task EXCEPT ![s] = Enter(@, "gap")]
    /\ UNCHANGED <<pwm, quiet>>

EndBeep(s) ==
    /\ Due(s) /\ task[s].at = "beep"
    /\ pwm' = [pwm EXCEPT !.on = FALSE]
    /\ task' = [task EXCEPT ![s] = Enter(@, "gap")]
    /\ UNCHANGED quiet

(* The end of the gap: the next beep of the group, or the pause.  (The     *)
(* first form sounds one beep more in each group.)                         *)
MoreBeepsInclusive(t) == t.j <= Pattern(t.type).beeps
MoreBeeps(t) == t.j < Pattern(t.type).beeps

EndGap(s) ==
    /\ Due(s) /\ task[s].at = "gap"
    /\ LET t == [task[s] EXCEPT !.j = @ + 1] IN
       IF MoreBeeps(t)
       THEN /\ task' = [task EXCEPT ![s] = Enter(t, "beep")]
            /\ pwm' = Sound(t.type)
       ELSE /\ task' = [task EXCEPT ![s] = Enter(t, "pause")]
            /\ UNCHANGED pwm
    /\ UNCHANGED quiet

(* The end of the pause: the next group, or vTaskDelete.  (The first form  *)
(* forgets to count the groups.)                                           *)
NextGroupUncounted(t) == [t EXCEPT !.j = 0]
NextGroup(t) == [t EXCEPT !.i = @ + 1, !.j = 0]

EndPause(s) ==
    /\ Due(s) /\ task[s].at = "pause"
    /\ IF NextGroup(task[s]).i < Pattern(task[s].type).groups
       THEN /\ task' = [task EXCEPT ![s] = Enter(NextGroup(@), "beep")]
            /\ pwm' = Sound(task[s].type)
       ELSE /\ task' = [task EXCEPT ![s] = Idle]
            /\ UNCHANGED pwm
    /\ UNCHANGED quiet

(* 50 ms go by: every delay is so much shorter. *)
Tick ==
    /\ \A s \in Slots : ~Due(s)
    /\ task' = [s \in Slots |->
            IF Running(s) THEN [task[s] EXCEPT !.left = @ - 1] ELSE task[s]]
    /\ quiet' = IF quiet < PollGap THEN quiet + 1 ELSE quiet
    /\ UNCHANGED pwm

-------------------------------------------------------------------------------
AlertTask(s) == EndBeep(s) \/ EndGap(s) \/ EndPause(s)

BeeperNext ==
    \/ \E type \in Types : Alert(type)
    \/ AlertNoMem
    \/ \E s \in Slots : AlertTask(s)
    \/ Tick

BeeperSpec == BeeperInit /\ [][BeeperNext]_beeperVars

(* Time passes and due tasks run.  No alert need ever be asked for. *)
BeeperFairness ==
    /\ WF_beeperVars(Tick)
    /\ \A s \in Slots : WF_beeperVars(AlertTask(s))

-------------------------------------------------------------------------------
(* Properties. *)

(* The last alert task to go leaves the beeper silent, however the alerts  *)
(* overlapped: nobody else would ever stop it.                             *)
SilentWhenDone == (\A s \in Slots : ~Running(s)) => ~pwm.on

(* An alert task sees its beeps sound and its gaps silent.                 *)
Intact(s) == Running(s) /\ ~Due(s) =>
    IF task[s].at = "beep" THEN pwm = Sound(task[s].type) ELSE ~pwm.on

(* An alert with the beeper to itself sounds its pattern.                  *)
SoloSound ==
    \A s \in Slots : Running(s) /\ ~task[s].shared => Intact(s)

(* Every alert ends, and gives its task's memory back for a later one.     *)
AlertsEnd == \A s \in Slots : []<>~Running(s)
===============================================================================
