----------------------------- MODULE BeeperProofs -----------------------------
(***************************************************************************)
(* The safety of Beeper, for any number of alert tasks at the same time    *)
(* and however close together the alerts come.                             *)
(***************************************************************************)
EXTENDS Beeper, TLAPS

Moments == {"beep", "gap", "pause"}

(* An alert task, and where it stands in its pattern. *)
Tasks == [type : Types, i : Nat, j : Nat, at : Moments, left : Nat,
          shared : BOOLEAN]

Channel == [on : BOOLEAN, freq : {0, 800, 1000}]

InPattern(t) ==
    /\ t.i \in 0 .. Pattern(t.type).groups - 1
    /\ t.j \in 0 .. Pattern(t.type).beeps
    /\ t.at # "pause" => t.j < Pattern(t.type).beeps
    /\ t.left \in 0 .. Pattern(t.type)[t.at]

TasksInv ==
    /\ task \in [Slots -> Tasks \union {Idle}]
    /\ \A s \in Slots : Running(s) => InPattern(task[s])
    /\ pwm \in Channel
    /\ quiet \in 0 .. PollGap

(* While the channel runs, some task is in a beep and will stop it. *)
Sounding(s) == Running(s) /\ task[s].at = "beep"
OwnedInv == pwm.on => \E s \in Slots : Sounding(s)

(* A task that has met no other is alone, and its beep is on the channel.  *)
SoloInv ==
    \A s \in Slots : Running(s) /\ ~task[s].shared =>
        /\ Others(s) = {}
        /\ task[s].at = "beep" => pwm = Sound(task[s].type)

IInv == TasksInv /\ OwnedInv /\ SoloInv

-------------------------------------------------------------------------------
(* The patterns: every length is at least one tick. *)
LEMMA Patterns ==
    ASSUME NEW type \in Types
    PROVE  /\ Pattern(type).groups \in Nat \ {0}
           /\ Pattern(type).beeps \in Nat \ {0}
           /\ Pattern(type).tone \in {800, 1000}
           /\ \A where \in Moments : Pattern(type)[where] \in Nat \ {0}
  BY DEF Types, Pattern, Moments

LEMMA IdleIsNoTask == \A t \in Tasks : t # Idle
  BY DEF Tasks, Types, Idle

LEMMA SoundIs ==
    ASSUME NEW type \in Types
    PROVE  Sound(type) \in Channel /\ Sound(type).on
  BY Patterns DEF Sound, Channel

LEMMA SilenceIs ==
    ASSUME NEW c \in Channel
    PROVE  [c EXCEPT !.on = FALSE] \in Channel /\ ~[c EXCEPT !.on = FALSE].on
<1>1. ASSUME NEW x \in BOOLEAN
      PROVE  [c EXCEPT !.on = x] \in Channel /\ [c EXCEPT !.on = x].on = x
  BY DEF Channel
<1> QED
  BY <1>1

(* A task that enters a delay has all of it before it. *)
LEMMA Entered ==
    ASSUME NEW t \in Tasks, NEW where \in Moments,
           t.i \in 0 .. Pattern(t.type).groups - 1,
           t.j \in 0 .. Pattern(t.type).beeps,
           where # "pause" => t.j < Pattern(t.type).beeps
    PROVE  /\ Enter(t, where) \in Tasks
           /\ InPattern(Enter(t, where))
           /\ Enter(t, where).at = where
           /\ Enter(t, where).type = t.type
           /\ Enter(t, where).shared = t.shared
<1> DEFINE e == Enter(t, where)
<1>1. t.type \in Types /\ Pattern(t.type)[where] \in Nat
  BY Patterns DEF Tasks
<1>2. /\ e \in Tasks
      /\ e.at = where /\ e.left = Pattern(t.type)[where]
      /\ e.type = t.type /\ e.shared = t.shared /\ e.i = t.i /\ e.j = t.j
  BY <1>1 DEF Enter, Tasks
<1>3. InPattern(e)
  BY <1>1, <1>2 DEF InPattern
<1> QED
  BY <1>2, <1>3

(* What TasksInv says of a task that runs. *)
LEMMA RunningTask ==
    ASSUME TasksInv, NEW s \in Slots, Running(s)
    PROVE  /\ task[s] \in Tasks /\ InPattern(task[s])
           /\ task[s].type \in Types /\ task[s].at \in Moments
           /\ task[s].shared \in BOOLEAN
  BY DEF TasksInv, Running, Tasks

-------------------------------------------------------------------------------
LEMMA InitIInv == BeeperInit => IInv
<1> SUFFICES ASSUME BeeperInit PROVE IInv
  OBVIOUS
<1>1. \A s \in Slots : ~Running(s)
  BY DEF BeeperInit, Running
<1>2. TasksInv
  BY <1>1, BeeperAssumption DEF BeeperInit, TasksInv, Running, Channel
<1> QED
  BY <1>1, <1>2 DEF BeeperInit, IInv, OwnedInv, SoloInv

(* A step of one task that ends in a delay: the other tasks stay as they   *)
(* are, and if there are none the channel is still as this one wants it.   *)
LEMMA OneTaskMoves ==
    ASSUME IInv, NEW s \in Slots, Running(s), NEW t \in Tasks,
           InPattern(t), t.shared = task[s].shared,
           task' = [task EXCEPT ![s] = t],
           quiet' = quiet,
           \/ t.at = "beep" /\ pwm' = Sound(t.type)
           \/ t.at # "beep" /\ pwm' = [pwm EXCEPT !.on = FALSE]
           \/ t.at # "beep" /\ task[s].at # "beep" /\ pwm' = pwm
    PROVE  IInv'
<1> USE DEF IInv
<1>0. task'[s] = t /\ \A o \in Slots \ {s} : task'[o] = task[o]
  BY DEF TasksInv
<1>1. /\ Running(s)' /\ \A o \in Slots \ {s} : Running(o)' <=> Running(o)
      /\ \A o \in Slots : Others(o)' = Others(o)
  BY <1>0, IdleIsNoTask DEF Running, Others
<1>2. t.type \in Types
  BY DEF Tasks
<1>3. pwm' \in Channel
  BY <1>2, SoundIs, SilenceIs DEF TasksInv
<1>4. TasksInv'
  BY <1>0, <1>1, <1>3 DEF TasksInv
<1>5. OwnedInv'
  <2>1. CASE t.at = "beep"
    BY <1>0, <1>1, <2>1 DEF OwnedInv, Sounding
  <2>2. CASE pwm' = [pwm EXCEPT !.on = FALSE]
    BY <2>2, SilenceIs DEF OwnedInv, TasksInv
  <2>3. CASE task[s].at # "beep" /\ pwm' = pwm
    BY <1>0, <1>1, <2>3 DEF OwnedInv, Sounding
  <2> QED
    BY <2>1, <2>2, <2>3
<1>6. SoloInv'
  <2> SUFFICES ASSUME NEW o \in Slots, Running(o)', ~task'[o].shared
               PROVE  /\ Others(o)' = {}
                      /\ task'[o].at = "beep" => pwm' = Sound(task'[o].type)
    BY DEF SoloInv
  <2>1. CASE o = s
    BY <1>0, <1>1, <2>1 DEF SoloInv
  <2>2. CASE o # s
    <3>1. Running(o) /\ ~task[o].shared /\ s \in Others(o)
      BY <1>0, <1>1, <2>2 DEF Others
    <3> QED
      BY <3>1 DEF SoloInv
  <2> QED
    BY <2>1, <2>2
<1> QED
  BY <1>4, <1>5, <1>6

LEMMA EndBeepIInv == ASSUME IInv, NEW s \in Slots, EndBeep(s) PROVE IInv'
<1>1. /\ Running(s) /\ task[s] \in Tasks /\ InPattern(task[s])
      /\ task[s].at = "beep"
  BY RunningTask DEF IInv, EndBeep, Due
<1> DEFINE t == Enter(task[s], "gap")
<1>2. t \in Tasks /\ InPattern(t) /\ t.at = "gap" /\ t.shared = task[s].shared
  BY <1>1, Entered DEF Moments, InPattern
<1>3. task' = [task EXCEPT ![s] = t]
  BY DEF EndBeep
<1> HIDE DEF t
<1> QED
  BY <1>1, <1>2, <1>3, OneTaskMoves DEF EndBeep

LEMMA EndGapIInv == ASSUME IInv, NEW s \in Slots, EndGap(s) PROVE IInv'
<1>1. /\ Running(s) /\ task[s] \in Tasks /\ InPattern(task[s])
      /\ task[s].type \in Types /\ task[s].at = "gap"
  BY RunningTask DEF IInv, EndGap, Due
<1> DEFINE u == [task[s] EXCEPT !.j = @ + 1]
<1>2. /\ u \in Tasks /\ u.type = task[s].type /\ u.shared = task[s].shared
      /\ u.i = task[s].i /\ u.j = task[s].j + 1
  BY <1>1 DEF Tasks
<1> HIDE DEF u
<1>3. u.i \in 0 .. Pattern(u.type).groups - 1
  BY <1>1, <1>2 DEF InPattern
<1>4. CASE MoreBeeps(u)
  <2> DEFINE t == Enter(u, "beep")
  <2>1. u.j \in 0 .. Pattern(u.type).beeps /\ u.j < Pattern(u.type).beeps
    BY <1>1, <1>2, <1>4, Patterns DEF MoreBeeps, InPattern
  <2>2. /\ t \in Tasks /\ InPattern(t) /\ t.at = "beep" /\ t.type = u.type
        /\ t.shared = task[s].shared
    BY <1>2, <1>3, <2>1, Entered DEF Moments
  <2>3. task' = [task EXCEPT ![s] = t] /\ pwm' = Sound(u.type) /\ quiet' = quiet
    BY <1>4 DEF EndGap, u
  <2> HIDE DEF t
  <2> QED
    BY <1>1, <2>2, <2>3, OneTaskMoves
<1>5. CASE ~MoreBeeps(u)
  <2> DEFINE t == Enter(u, "pause")
  <2>1. u.j \in 0 .. Pattern(u.type).beeps
    BY <1>1, <1>2, Patterns DEF InPattern
  <2>2. /\ t \in Tasks /\ InPattern(t) /\ t.at = "pause"
        /\ t.shared = task[s].shared
    BY <1>2, <1>3, <2>1, Entered DEF Moments
  <2>3. task' = [task EXCEPT ![s] = t] /\ pwm' = pwm /\ quiet' = quiet
    BY <1>5 DEF EndGap, u
  <2> HIDE DEF t
  <2> QED
    BY <1>1, <2>2, <2>3, OneTaskMoves
<1> QED
  BY <1>4, <1>5

LEMMA EndPauseIInv == ASSUME IInv, NEW s \in Slots, EndPause(s) PROVE IInv'
<1>1. /\ Running(s) /\ task[s] \in Tasks /\ InPattern(task[s])
      /\ task[s].type \in Types /\ task[s].at = "pause"
  BY RunningTask DEF IInv, EndPause, Due
<1> DEFINE u == NextGroup(task[s])
<1>2. /\ u \in Tasks /\ u.type = task[s].type /\ u.shared = task[s].shared
      /\ u.i = task[s].i + 1 /\ u.j = 0
  <2>1. u = [task[s] EXCEPT !.i = task[s].i + 1, !.j = 0]
    BY DEF NextGroup
  <2>2. task[s].i + 1 \in Nat /\ 0 \in Nat
    BY <1>1 DEF Tasks
  <2> QED
    BY <1>1, <2>1, <2>2 DEF Tasks
<1> HIDE DEF u
<1>3. CASE u.i < Pattern(task[s].type).groups
  <2> DEFINE t == Enter(u, "beep")
  <2>1. /\ u.i \in 0 .. Pattern(u.type).groups - 1
        /\ u.j \in 0 .. Pattern(u.type).beeps /\ u.j < Pattern(u.type).beeps
    BY <1>1, <1>2, <1>3, Patterns DEF InPattern
  <2>2. /\ t \in Tasks /\ InPattern(t) /\ t.at = "beep" /\ t.type = u.type
        /\ t.shared = task[s].shared
    BY <1>2, <2>1, Entered DEF Moments
  <2>3. task' = [task EXCEPT ![s] = t] /\ pwm' = Sound(u.type) /\ quiet' = quiet
    BY <1>2, <1>3 DEF EndPause, u
  <2> HIDE DEF t
  <2> QED
    BY <1>1, <2>2, <2>3, OneTaskMoves
<1>4. CASE ~(u.i < Pattern(task[s].type).groups)
  <2>1. task' = [task EXCEPT ![s] = Idle] /\ pwm' = pwm /\ quiet' = quiet
    BY <1>4 DEF EndPause, u
  <2>2. /\ task'[s] = Idle /\ \A o \in Slots \ {s} : task'[o] = task[o]
        /\ task' \in [Slots -> Tasks \union {Idle}]
    BY <2>1 DEF IInv, TasksInv
  <2>3. TasksInv'
    BY <2>1, <2>2 DEF IInv, TasksInv, Running
  <2>4. OwnedInv'
    BY <1>1, <2>1, <2>2 DEF IInv, OwnedInv, Sounding, Running
  <2>5. SoloInv'
    BY <2>1, <2>2 DEF IInv, SoloInv, Running, Others
  <2> QED
    BY <2>3, <2>4, <2>5 DEF IInv
<1> QED
  BY <1>3, <1>4

(* A new task sounds its first beep over whatever the others were doing.   *)
LEMMA LaunchIInv ==
    ASSUME IInv, NEW type \in Types, NEW s \in Slots, ~Running(s),
           LaunchIn(s, type), quiet' = 0
    PROVE  IInv'
<1> DEFINE new == [type |-> type, i |-> 0, j |-> 0, at |-> "beep",
                   left |-> 0, shared |-> Others(s) # {}]
           t == Enter(new, "beep")
<1>1. /\ new \in Tasks /\ new.type = type /\ new.i = 0 /\ new.j = 0
      /\ new.shared = (Others(s) # {})
  BY DEF Tasks, Moments
<1> HIDE DEF new
<1>2. /\ t \in Tasks /\ InPattern(t) /\ t.at = "beep" /\ t.type = type
      /\ t.shared = (Others(s) # {})
  BY <1>1, Entered, Patterns DEF Moments
<1>3. /\ DOMAIN task' = Slots /\ task'[s] = t
      /\ \A o \in Slots \ {s} :
            task'[o] = IF Running(o) THEN [task[o] EXCEPT !.shared = TRUE]
                       ELSE task[o]
      /\ pwm' = Sound(type)
      /\ task' = [o \in Slots |-> task'[o]]
  BY DEF LaunchIn, new
<1> HIDE DEF t
<1>4. ASSUME NEW o \in Slots \ {s}, Running(o)
      PROVE  task'[o] \in Tasks /\ InPattern(task'[o]) /\ task'[o].shared
  <2>1. task[o] \in Tasks /\ InPattern(task[o])
    BY <1>4, RunningTask DEF IInv
  <2>2. task'[o] = [task[o] EXCEPT !.shared = TRUE]
    BY <1>3, <1>4
  <2> QED
    BY <2>1, <2>2 DEF Tasks, InPattern
<1>5. ASSUME NEW o \in Slots \ {s}, ~Running(o) PROVE task'[o] = Idle
  BY <1>3, <1>5 DEF Running
<1>6. Running(s)' /\ \A o \in Slots \ {s} : Running(o)' <=> Running(o)
  BY <1>2, <1>3, <1>4, <1>5, IdleIsNoTask DEF Running
<1>7. TasksInv'
  <2>1. \A o \in Slots : task'[o] \in Tasks \union {Idle}
    BY <1>2, <1>3, <1>4, <1>5
  <2>2. task' \in [Slots -> Tasks \union {Idle}]
    BY <1>3, <2>1
  <2>3. \A o \in Slots : Running(o)' => InPattern(task'[o])
    BY <1>2, <1>3, <1>4, <1>6
  <2> QED
    BY <1>3, <2>2, <2>3, SoundIs, BeeperAssumption DEF TasksInv, InPattern
<1>8. OwnedInv'
  BY <1>2, <1>3, <1>6 DEF OwnedInv, Sounding
<1>9. SoloInv'
  <2> SUFFICES ASSUME NEW o \in Slots, Running(o)', ~task'[o].shared
               PROVE  /\ Others(o)' = {}
                      /\ task'[o].at = "beep" => pwm' = Sound(task'[o].type)
    BY DEF SoloInv
  <2>1. o = s /\ Others(s) = {}
    BY <1>2, <1>3, <1>4, <1>6
  <2>2. Others(s)' = {}
    BY <1>6, <2>1 DEF Others
  <2> QED
    BY <1>2, <1>3, <2>1, <2>2
<1> QED
  BY <1>7, <1>8, <1>9 DEF IInv

LEMMA TickIInv == IInv /\ Tick => IInv'
<1> SUFFICES ASSUME IInv, Tick PROVE IInv'
  OBVIOUS
<1>1. /\ DOMAIN task' = Slots /\ task' = [o \in Slots |-> task'[o]]
      /\ \A o \in Slots :
            task'[o] = IF Running(o) THEN [task[o] EXCEPT !.left = @ - 1]
                       ELSE task[o]
  BY DEF Tick
<1>2. ASSUME NEW s \in Slots, Running(s)
      PROVE  /\ task'[s] \in Tasks /\ InPattern(task'[s])
             /\ task'[s].at = task[s].at /\ task'[s].type = task[s].type
             /\ task'[s].shared = task[s].shared
  <2>1. /\ task[s] \in Tasks /\ InPattern(task[s]) /\ task[s].type \in Types
        /\ task[s].at \in Moments
    BY <1>2, RunningTask DEF IInv
  <2>2. task'[s] = [task[s] EXCEPT !.left = @ - 1]
    BY <1>1, <1>2
  <2>3. task[s].left \in Nat /\ task[s].left # 0
    BY <1>2, <2>1 DEF Tick, Due, Tasks
  <2>4. /\ task'[s] \in Tasks /\ task'[s].left = task[s].left - 1
        /\ task'[s].at = task[s].at /\ task'[s].type = task[s].type
        /\ task'[s].shared = task[s].shared
        /\ task'[s].i = task[s].i /\ task'[s].j = task[s].j
    BY <2>1, <2>2, <2>3 DEF Tasks
  <2>5. InPattern(task'[s])
    BY <2>1, <2>3, <2>4, Patterns DEF InPattern
  <2> QED
    BY <2>4, <2>5
<1>3. ASSUME NEW s \in Slots, ~Running(s) PROVE task'[s] = Idle
  BY <1>1, <1>3 DEF Running
<1>4. \A s \in Slots : Running(s)' <=> Running(s)
  BY <1>2, <1>3, IdleIsNoTask DEF Running
<1>5. TasksInv'
  <2>1. task' \in [Slots -> Tasks \union {Idle}]
    BY <1>1, <1>2, <1>3
  <2>2. quiet' \in 0 .. PollGap
    BY BeeperAssumption DEF Tick, IInv, TasksInv
  <2>3. \A s \in Slots : Running(s)' => InPattern(task[s])'
    BY <1>2, <1>4 DEF InPattern
  <2> QED
    BY <2>1, <2>2, <2>3 DEF IInv, TasksInv, Tick
<1>6. OwnedInv'
  BY <1>2, <1>4 DEF IInv, OwnedInv, Sounding, Tick
<1>7. SoloInv'
  <2>1. \A s \in Slots : Others(s)' = Others(s)
    BY <1>4 DEF Others
  <2> QED
    BY <1>2, <1>4, <2>1 DEF IInv, SoloInv, Tick
<1> QED
  BY <1>5, <1>6, <1>7 DEF IInv

LEMMA NextIInv == IInv /\ [BeeperNext]_beeperVars => IInv'
<1> SUFFICES ASSUME IInv, [BeeperNext]_beeperVars PROVE IInv'
  OBVIOUS
<1>1. CASE \E type \in Types : Alert(type)
  BY <1>1, LaunchIInv DEF Alert
<1>2. CASE AlertNoMem
  <2>1. quiet' \in 0 .. PollGap
    BY <1>2, BeeperAssumption DEF AlertNoMem
  <2> QED
    BY <1>2, <2>1 DEF AlertNoMem, IInv, TasksInv, OwnedInv, SoloInv, Sounding,
        Running, Others
<1>3. CASE \E s \in Slots : AlertTask(s)
  BY <1>3, EndBeepIInv, EndGapIInv, EndPauseIInv DEF AlertTask
<1>4. CASE UNCHANGED beeperVars
  BY <1>4
     DEF beeperVars, IInv, TasksInv, OwnedInv, SoloInv, Sounding, Running, Others
<1> QED
  BY <1>1, <1>2, <1>3, <1>4, TickIInv DEF BeeperNext

LEMMA Invariance == BeeperSpec => []IInv
  BY InitIInv, NextIInv, PTL DEF BeeperSpec

-------------------------------------------------------------------------------
(* The types: no task leaves the turns of its pattern (beep.c:38-77).      *)
THEOREM TypeCorrect == BeeperSpec => []BeeperTypeOK
<1>1. IInv => BeeperTypeOK
  <2> SUFFICES ASSUME IInv PROVE BeeperTypeOK
    OBVIOUS
  <2>1. ASSUME NEW s \in Slots, Running(s)
        PROVE  task[s] \in Tasks /\ InPattern(task[s])
    BY <2>1, RunningTask DEF IInv
  <2> QED
    BY <2>1 DEF IInv, TasksInv, Channel, BeeperTypeOK, Tasks, InPattern, Moments
<1> QED
  BY <1>1, Invariance, PTL

(* The last alert task to go leaves the beeper silent, however many of     *)
(* them there are and however they overlap (beep.c:30-36).                 *)
THEOREM LastOneSilences == BeeperSpec => []SilentWhenDone
<1>1. IInv => SilentWhenDone
  BY DEF IInv, OwnedInv, Sounding, SilentWhenDone
<1> QED
  BY <1>1, Invariance, PTL

(* An alert that has the beeper to itself sounds its pattern: its beeps at *)
(* its tone, its gaps and pauses silent (beep.c:43-71).                    *)
THEOREM AloneItSounds == BeeperSpec => []SoloSound
<1>1. IInv => SoloSound
  <2> SUFFICES ASSUME IInv, NEW s \in Slots, Running(s), ~task[s].shared
               PROVE  IF task[s].at = "beep" THEN pwm = Sound(task[s].type)
                      ELSE ~pwm.on
    BY DEF SoloSound, Intact
  <2>1. \A o \in Slots : Running(o) => o = s
    BY DEF IInv, SoloInv, Others
  <2>2. task[s].at # "beep" => ~pwm.on
    BY <2>1 DEF IInv, OwnedInv, Sounding
  <2> QED
    BY <2>2 DEF IInv, SoloInv
<1> QED
  BY <1>1, Invariance, PTL
===============================================================================
