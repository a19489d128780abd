------------------------------- MODULE GpioProofs -------------------------------
(***************************************************************************)
(* The safety of the programs of gpio_int_simple, for every length of      *)
(* their queues and any number of edges.                                   *)
(***************************************************************************)
EXTENDS GpioPrograms, TLAPS, SequenceTheorems

(* pmla.c: while no edge is pending, the level on its way is that of the   *)
(* pin: in the handler, at the end of the queue, or printed.               *)
OnItsWay ==
    ~latched =>
        /\ isr = "read" => level = pin
        /\ isr = "idle" /\ ~dropped =>
              IF queue = <<>> THEN printed => lastLevel = pin
              ELSE queue[Len(queue)] = pin

(* simple_example.c: as long as what was printed or remembered is not the  *)
(* level of the pin, a record will come.                                   *)
RecordComes == latched \/ isr = "called" \/ events > 0

StillToTell ==
    /\ taskAt = "receive" /\ shown # NoLevel
          => RecordComes \/ (shown = pin /\ lastStatus = pin)
    /\ taskAt = "remember" => RecordComes \/ shown = pin

(* main.c: the number printed is not more than has been counted since.     *)
NoMoreThanCounted == tells # NotPrinting => tells <= counter

IInv ==
    /\ TypeOK
    /\ program = "pmla" => OnItsWay
    /\ program = "events" => StillToTell
    /\ NoMoreThanCounted
    /\ EachEdgeOnce

-------------------------------------------------------------------------------
LEMMA InitIInv == Init => IInv
<1> SUFFICES ASSUME Init PROVE IInv
  OBVIOUS
<1> USE DEF Init, PinInit, PmlaInit, EventInit, CounterInit
<1>1. PinTypeOK
  BY DEF PinTypeOK
<1>2. PmlaTypeOK
  <2>1. queue \in Seq(Levels) /\ Len(queue) <= QueueSize
    BY EmptySeq, GpioAssumption
  <2> QED
    BY <2>1 DEF PmlaTypeOK, Levels
<1>3. EventTypeOK
  BY GpioAssumption DEF EventTypeOK, Levels
<1>4. CounterTypeOK
  BY CounterAssumption DEF CounterTypeOK, NotPrinting
<1>5. OnItsWay /\ StillToTell
  BY DEF OnItsWay, StillToTell
<1>6. NoMoreThanCounted
  BY DEF NoMoreThanCounted
<1>7. EachEdgeOnce
  BY DEF EachEdgeOnce, Unreported, One
<1> QED
  BY <1>1, <1>2, <1>3, <1>4, <1>5, <1>6, <1>7 DEF IInv, TypeOK

-------------------------------------------------------------------------------
(* pmla.c *)

LEMMA SendKeeps == TypeOK /\ OnItsWay /\ Send => PmlaTypeOK' /\ OnItsWay'
<1> SUFFICES ASSUME TypeOK, OnItsWay, Send PROVE PmlaTypeOK' /\ OnItsWay'
  OBVIOUS
<1> USE DEF Send, TypeOK
<1>1. queue \in Seq(Levels) /\ level \in Levels
  BY DEF PmlaTypeOK
<1>3. CASE HasRoom
  <2>1. queue' = Append(queue, level) /\ ~dropped'
    BY <1>3
  <2>2. /\ queue' \in Seq(Levels)
        /\ Len(queue') = Len(queue) + 1
        /\ queue'[Len(queue')] = level
        /\ queue' # <<>>
    BY <1>1, <2>1, AppendProperties
  <2>3. Len(queue') <= QueueSize
    BY <1>1, <1>3, <2>2, GpioAssumption, LenProperties DEF HasRoom
  <2>4. PmlaTypeOK'
    BY <2>1, <2>2, <2>3 DEF PmlaTypeOK
  <2>5. OnItsWay'
    BY <2>1, <2>2 DEF OnItsWay
  <2> QED
    BY <2>4, <2>5
<1>4. CASE ~HasRoom
  <2>1. queue' = queue /\ dropped'
    BY <1>4
  <2> QED
    BY <2>1 DEF PmlaTypeOK, OnItsWay
<1> QED
  BY <1>3, <1>4

LEMMA PmlaTaskKeeps == TypeOK /\ OnItsWay /\ PmlaTask => PmlaTypeOK' /\ OnItsWay'
<1> SUFFICES ASSUME TypeOK, OnItsWay, PmlaTask PROVE PmlaTypeOK' /\ OnItsWay'
  OBVIOUS
<1> USE DEF PmlaTask, TaskRuns, pinVars
<1>1. queue \in Seq(Levels) /\ queue # <<>> /\ Len(queue) <= QueueSize
  BY DEF TypeOK, PmlaTypeOK
<1>2. /\ queue' \in Seq(Levels)
      /\ Len(queue') = Len(queue) - 1
      /\ Head(queue) = queue[1] /\ Head(queue) \in Levels
      /\ \A i \in 1 .. Len(queue') : queue'[i] = queue[i + 1]
  BY <1>1, HeadTailProperties
<1>3. Len(queue) \in Nat /\ Len(queue) > 0 /\ Len(queue') \in Nat
  BY <1>1, <1>2, EmptySeq, LenProperties
<1>4. PmlaTypeOK'
  <2>1. Len(queue') <= QueueSize
    BY <1>1, <1>2, <1>3, GpioAssumption
  <2> QED
    BY <1>2, <2>1 DEF TypeOK, PmlaTypeOK
<1>5. ~dropped => queue[Len(queue)] = pin
  BY <1>1 DEF OnItsWay
<1>6. CASE queue' = <<>>
  <2>1. Len(queue) = 1
    <3>1. Len(queue') = 0
      BY <1>6, EmptySeq
    <3> QED
      BY <1>2, <1>3, <3>1
  <2>2. ~dropped => lastLevel' = pin
    BY <1>2, <1>5, <2>1
  <2> QED
    BY <1>4, <1>6, <2>2 DEF OnItsWay
<1>7. CASE queue' # <<>>
  <2>1. Len(queue') > 0
    BY <1>2, <1>3, <1>7, EmptySeq
  <2>2. queue'[Len(queue')] = queue[Len(queue)]
    BY <1>2, <1>3, <2>1
  <2> QED
    BY <1>4, <1>5, <1>7, <2>2 DEF OnItsWay
<1> QED
  BY <1>6, <1>7

LEMMA PmlaKeeps ==
    TypeOK /\ OnItsWay /\ PmlaNext /\ UNCHANGED program
        => PinTypeOK' /\ PmlaTypeOK' /\ OnItsWay'
<1> SUFFICES ASSUME TypeOK, OnItsWay, PmlaNext, UNCHANGED program
             PROVE  PinTypeOK' /\ PmlaTypeOK' /\ OnItsWay'
  OBVIOUS
<1> USE DEF TypeOK
<1>1. CASE Edge
  BY <1>1 DEF PinTypeOK, PmlaTypeOK, OnItsWay, Edge, AnyEdge, Levels, pmlaVars
<1>2. CASE Interrupt
  BY <1>2 DEF PinTypeOK, PmlaTypeOK, OnItsWay, Interrupt, CallHandler, pmlaVars
<1>3. CASE ReadLevel
  BY <1>3 DEF PinTypeOK, PmlaTypeOK, OnItsWay, ReadLevel
<1>4. CASE Send
  <2>1. PinTypeOK'
    BY <1>4 DEF PinTypeOK, Send
  <2> QED
    BY <1>4, <2>1, SendKeeps
<1>5. CASE PmlaTask
  <2>1. PinTypeOK'
    BY <1>5 DEF PinTypeOK, PmlaTask, pinVars
  <2> QED
    BY <1>5, <2>1, PmlaTaskKeeps
<1> QED
  BY <1>1, <1>2, <1>3, <1>4, <1>5 DEF PmlaNext

-------------------------------------------------------------------------------
(* simple_example.c *)

LEMMA EventKeeps ==
    TypeOK /\ StillToTell /\ EventNext /\ UNCHANGED program
        => PinTypeOK' /\ EventTypeOK' /\ StillToTell'
<1> SUFFICES ASSUME TypeOK, StillToTell, EventNext, UNCHANGED program
             PROVE  PinTypeOK' /\ EventTypeOK' /\ StillToTell'
  OBVIOUS
<1> USE DEF TypeOK, RecordComes
<1>1. CASE EventEdge
  BY <1>1 DEF PinTypeOK, EventTypeOK, StillToTell, EventEdge, AnyEdge, Levels, eventVars
<1>2. CASE EventInterrupt
  BY <1>2 DEF PinTypeOK, EventTypeOK, StillToTell, EventInterrupt, CallHandler, eventVars
<1>3. CASE Signal
  <2>1. events' \in 0 .. QueueSize /\ events' > 0
    BY <1>3, GpioAssumption DEF EventTypeOK, Signal
  <2> QED
    BY <1>3, <2>1 DEF PinTypeOK, EventTypeOK, StillToTell, Signal
<1>4. CASE Receive
  <2>1. events' \in 0 .. QueueSize
    BY <1>4, GpioAssumption DEF EventTypeOK, Receive
  <2> QED
    BY <1>4, <2>1 DEF PinTypeOK, EventTypeOK, StillToTell, Receive, pinVars
<1>5. CASE PrintLevel
  BY <1>5 DEF PinTypeOK, EventTypeOK, StillToTell, PrintLevel, pinVars
<1>6. CASE Remember
  BY <1>6 DEF PinTypeOK, EventTypeOK, StillToTell, Remember, TaskRuns, pinVars
<1> QED
  BY <1>1, <1>2, <1>3, <1>4, <1>5, <1>6 DEF EventNext

-------------------------------------------------------------------------------
(* main.c *)

CounterInv == PinTypeOK /\ CounterTypeOK /\ NoMoreThanCounted /\ EachEdgeOnce

LEMMA CounterKeeps ==
    CounterInv /\ program = "counter" /\ CounterNext /\ UNCHANGED program => CounterInv'
<1> SUFFICES ASSUME CounterInv, program = "counter", CounterNext, UNCHANGED program
             PROVE  CounterInv'
  OBVIOUS
<1> USE DEF CounterInv
<1> DEFINE p == One(latched)
           c == One(isr = "called")
<1>1. p \in {0, 1} /\ c \in {0, 1}
  BY DEF One
<1>2. edges = reported + Unreported + merged + wiped + p + c
  BY DEF EachEdgeOnce
<1>3. /\ counter \in Nat /\ reported \in Nat /\ merged \in Nat /\ wiped \in Nat
      /\ edges \in 0 .. MaxEdges /\ tells \in 0 .. NotPrinting /\ MaxEdges \in Nat
      /\ NotPrinting = MaxEdges + 1
  BY CounterAssumption DEF CounterTypeOK, NotPrinting
<1>4. SUFFICES /\ PinTypeOK' /\ CounterTypeOK' /\ NoMoreThanCounted'
               /\ edges' = reported' + Unreported' + merged' + wiped' + p' + c'
  BY DEF EachEdgeOnce
<1> HIDE DEF p, c
<1>5. CASE Fall
  <2>1. p' = p /\ c' = c
    BY <1>5 DEF Fall, p, c, One
  <2> QED
    BY <1>2, <1>5, <2>1 DEF Fall, counterVars, PinTypeOK, CounterTypeOK, Levels,
         NoMoreThanCounted, Unreported, NotPrinting
<1>6. CASE Rise
  <2>1. p' = 1 /\ c' = c /\ merged' = merged + p
    <3>1. latched' /\ isr' = isr
      BY <1>6 DEF Rise, AnyEdge
    <3>2. p' = 1 /\ c' = c
      BY <3>1 DEF p, c, One
    <3>3. CASE latched
      <4>1. p = 1 /\ merged' = merged + 1
        BY <1>6, <3>3 DEF Rise, p, One
      <4> QED
        BY <3>2, <4>1
    <3>4. CASE ~latched
      <4>1. p = 0 /\ merged' = merged
        BY <1>6, <3>4 DEF Rise, p, One
      <4> QED
        BY <1>3, <3>2, <4>1
    <3> QED
      BY <3>2, <3>3, <3>4
  <2>2. PinTypeOK'
    BY <1>6 DEF Rise, AnyEdge, PinTypeOK, Levels
  <2>3. UNCHANGED <<counter, tells, reported, wiped>> /\ edges' = edges + 1
        /\ edges < MaxEdges
    BY <1>6 DEF Rise
  <2>4. merged' \in Nat /\ edges' \in 0 .. MaxEdges
    BY <1>1, <1>3, <2>1, <2>3
  <2>5. CounterTypeOK' /\ NoMoreThanCounted' /\ Unreported' = Unreported
    BY <1>3, <2>3, <2>4 DEF CounterTypeOK, NoMoreThanCounted, Unreported, NotPrinting
  <2>6. Unreported \in Int
    BY <1>3 DEF Unreported
  <2> QED
    BY <1>1, <1>2, <1>3, <2>1, <2>2, <2>3, <2>5, <2>6
<1>7. CASE CounterInterrupt
  <2>1. p = 1 /\ c = 0 /\ p' = 0 /\ c' = 1
    BY <1>7 DEF CounterInterrupt, CallHandler, p, c, One
  <2>2. PinTypeOK'
    BY <1>7 DEF CounterInterrupt, CallHandler, PinTypeOK
  <2>3. UNCHANGED counterVars
    BY <1>7 DEF CounterInterrupt
  <2>4. CounterTypeOK' /\ NoMoreThanCounted' /\ Unreported' = Unreported
    BY <2>3 DEF counterVars, CounterTypeOK, NoMoreThanCounted, Unreported, NotPrinting
  <2>5. Unreported \in Int
    BY <1>3 DEF Unreported
  <2> QED
    BY <1>2, <1>3, <2>1, <2>2, <2>3, <2>4, <2>5 DEF counterVars
<1>8. CASE Count
  <2>1. p' = p /\ c = 1 /\ c' = 0
    BY <1>8 DEF Count, p, c, One
  <2>2. PinTypeOK'
    BY <1>8 DEF Count, PinTypeOK
  <2>3. counter' = counter + 1 /\ UNCHANGED <<tells, edges, reported, merged, wiped>>
    BY <1>8 DEF Count
  <2>4. CounterTypeOK' /\ NoMoreThanCounted' /\ Unreported' = Unreported + 1
    BY <1>3, <2>3 DEF CounterTypeOK, NoMoreThanCounted, Unreported, NotPrinting
  <2>5. Unreported \in Int
    BY <1>3 DEF Unreported
  <2> QED
    BY <1>1, <1>2, <1>3, <2>1, <2>2, <2>3, <2>4, <2>5
<1>9. CASE PrintCount
  <2>1. p' = p /\ c' = c
    BY <1>9 DEF PrintCount, pinVars, p, c, One
  <2>2. PinTypeOK'
    BY <1>9 DEF PrintCount, pinVars, PinTypeOK
  <2>3. /\ tells = NotPrinting /\ tells' = counter /\ reported' = reported + counter
        /\ UNCHANGED <<counter, edges, merged, wiped>>
    BY <1>9 DEF PrintCount
  <2>4. counter <= MaxEdges
    BY <1>1, <1>2, <1>3, <2>3 DEF Unreported
  <2>5. CounterTypeOK' /\ NoMoreThanCounted' /\ Unreported' = 0 /\ Unreported = counter
    BY <1>3, <2>3, <2>4 DEF CounterTypeOK, NoMoreThanCounted, Unreported, NotPrinting
  <2> QED
    BY <1>1, <1>2, <1>3, <2>1, <2>2, <2>3, <2>5
<1>10. CASE Zero
  <2>1. p' = p /\ c' = c
    BY <1>10 DEF Zero, pinVars, p, c, One
  <2>2. PinTypeOK'
    BY <1>10 DEF Zero, pinVars, PinTypeOK
  <2>3. /\ tells # NotPrinting /\ tells' = NotPrinting /\ counter' = 0
        /\ wiped' = wiped + (counter - tells)
        /\ UNCHANGED <<edges, reported, merged>>
    BY <1>10 DEF Zero
  <2>4. tells <= counter
    BY <2>3 DEF NoMoreThanCounted
  <2>5. CounterTypeOK' /\ NoMoreThanCounted' /\ Unreported' = 0
    BY <1>3, <2>3, <2>4 DEF CounterTypeOK, NoMoreThanCounted, Unreported, NotPrinting
  <2>6. Unreported = counter - tells
    BY <2>3 DEF Unreported
  <2> QED
    BY <1>1, <1>2, <1>3, <2>1, <2>2, <2>3, <2>5, <2>6
<1> QED
  BY <1>5, <1>6, <1>7, <1>8, <1>9, <1>10 DEF CounterNext

-------------------------------------------------------------------------------
LEMMA NextIInv == IInv /\ [Next]_vars => IInv'
<1> SUFFICES ASSUME IInv, [Next]_vars PROVE IInv'
  OBVIOUS
<1> USE DEF IInv
<1>1. CASE program = "pmla" /\ PmlaNext /\ UNCHANGED <<eventVars, counterVars, program>>
  <2>1. PinTypeOK' /\ PmlaTypeOK' /\ OnItsWay'
    BY <1>1, PmlaKeeps
  <2>2. EventTypeOK' /\ CounterTypeOK' /\ NoMoreThanCounted'
    BY <1>1 DEF TypeOK, eventVars, counterVars, EventTypeOK, CounterTypeOK,
         NoMoreThanCounted, NotPrinting
  <2> QED
    BY <1>1, <2>1, <2>2 DEF TypeOK, EachEdgeOnce
<1>2. CASE program = "events" /\ EventNext /\ UNCHANGED <<pmlaVars, counterVars, program>>
  <2>1. PinTypeOK' /\ EventTypeOK' /\ StillToTell'
    BY <1>2, EventKeeps
  <2>2. PmlaTypeOK' /\ CounterTypeOK' /\ NoMoreThanCounted'
    BY <1>2 DEF TypeOK, pmlaVars, counterVars, PmlaTypeOK, CounterTypeOK,
         NoMoreThanCounted, NotPrinting
  <2> QED
    BY <1>2, <2>1, <2>2 DEF TypeOK, EachEdgeOnce
<1>3. CASE program = "counter" /\ CounterNext /\ UNCHANGED <<pmlaVars, eventVars, program>>
  <2>1. CounterInv'
    BY <1>3, CounterKeeps DEF CounterInv, TypeOK
  <2>2. PmlaTypeOK' /\ EventTypeOK'
    BY <1>3 DEF TypeOK, pmlaVars, eventVars, PmlaTypeOK, EventTypeOK
  <2> QED
    BY <1>3, <2>1, <2>2 DEF TypeOK, CounterInv
<1>4. CASE UNCHANGED vars
  <2>1. TypeOK'
    BY <1>4 DEF vars, pinVars, pmlaVars, eventVars, counterVars, TypeOK, PinTypeOK,
         PmlaTypeOK, EventTypeOK, CounterTypeOK, NotPrinting
  <2>2. (program = "pmla" => OnItsWay)' /\ (program = "events" => StillToTell)'
    BY <1>4 DEF vars, pinVars, pmlaVars, eventVars, OnItsWay, StillToTell, RecordComes
  <2>3. NoMoreThanCounted' /\ EachEdgeOnce'
    BY <1>4 DEF vars, pinVars, counterVars, NoMoreThanCounted, EachEdgeOnce, Unreported,
         NotPrinting, One
  <2> QED
    BY <2>1, <2>2, <2>3
<1> QED
  BY <1>1, <1>2, <1>3, <1>4 DEF Next

-------------------------------------------------------------------------------
LEMMA Invariance == Spec => []IInv
<1> QED
  BY InitIInv, NextIInv, PTL DEF Spec

(* The queues never hold more than they have room for: the handlers drop   *)
(* what does not fit (pmla.c:42, simple_example.c:39).                     *)
THEOREM TypeCorrect == Spec => []TypeOK
<1>1. IInv => TypeOK
  BY DEF IInv
<1> QED
  BY <1>1, Invariance, PTL

(* When all is quiet the level printed last is the level of the pin, for   *)
(* queues of any length (pmla.c:36-59, simple_example.c:37-61).            *)
THEOREM QuietTruthHolds == Spec => []QuietTruth
<1>1. IInv => QuietTruth
  BY DEF IInv, TypeOK, PinTypeOK, OnItsWay, StillToTell, RecordComes, QuietTruth,
     LastLevelRight, Quiet, ShownIsCurrent, AllTold, TaskRuns
<1> QED
  BY <1>1, Invariance, PTL

(* The frequency counter prints no edge twice, and misses only those that  *)
(* fall together or come while it prints, for any number of edges          *)
(* (main.c:25-43).                                                         *)
THEOREM EdgesCountedOnce == Spec => []EachEdgeOnce
<1>1. IInv => EachEdgeOnce
  BY DEF IInv
<1> QED
  BY <1>1, Invariance, PTL
=================================================================================
