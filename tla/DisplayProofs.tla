---------------------------- MODULE DisplayProofs -----------------------------
(***************************************************************************)
(* The display of esp_bus: the safety of LcdRefresh, for every set of      *)
(* fields, texts and tasks, every zone and every layout that covers the    *)
(* screen; then, of LcdScreen, for all buses, ages, stops and lines, that  *)
(* the tasks keep to the zones they are given, that only characters get    *)
(* into lcd_ram, and that the screen tells what it is to tell.             *)
(***************************************************************************)
EXTENDS LcdRefresh, LcdScreen, Integers, SequenceTheorems, TLAPS

(* Why a field of the panel may differ from lcd_ram: the bit is set, the   *)
(* copy has not reached it yet, or the task that wrote it has still to     *)
(* call lcd_new_data.                                                      *)
BeingCopied(f) == next # 0 /\ \E i \in next .. Len(Layout) : Layout[i] = f

Unannounced(f) ==
    \E t \in Tasks : \E i \in 1 .. Len(Zone[t]) : i < pos[t] /\ Zone[t][i] = f

Accounted(f) == panel[f] = ram[f] \/ ready \/ BeingCopied(f) \/ Unannounced(f)

AllAccounted == \A f \in Fields : Accounted(f)

(* The part of the screen already copied, with a driver that never yields. *)
CopiedPartFresh ==
    ~driverYields /\ next # 0 =>
        \A i \in 1 .. Len(Layout) :
            i < next => panel[Layout[i]] = ram[Layout[i]]

IInv == TypeOK /\ AllAccounted /\ CopiedPartFresh

-------------------------------------------------------------------------------
LEMMA LayoutFacts ==
    /\ Len(Layout) \in Nat /\ Len(Layout) > 0
    /\ \A i \in 1 .. Len(Layout) : Layout[i] \in Fields
    /\ \A f \in Fields : \E i \in 1 .. Len(Layout) : Layout[i] = f
<1>1. Layout \in Seq(Fields)
  BY LayoutAssumption
<1>2. Len(Layout) \in Nat /\ DOMAIN Layout = 1 .. Len(Layout)
  BY <1>1, LenProperties
<1>3. \A i \in 1 .. Len(Layout) : Layout[i] \in Fields
  BY <1>1, ElementOfSeq
<1> QED
  BY <1>2, <1>3, LayoutAssumption

LEMMA ZoneFacts ==
    ASSUME NEW t \in Tasks
    PROVE  /\ Len(Zone[t]) \in Nat
           /\ Len(Zone[t]) > 0
           /\ \A i \in 1 .. Len(Zone[t]) : Zone[t][i] \in Fields
<1>1. Zone[t] \in Seq(Fields) /\ Len(Zone[t]) > 0
  BY ZoneAssumption
<1>2. Len(Zone[t]) \in Nat
  BY <1>1, LenProperties
<1>3. \A i \in 1 .. Len(Zone[t]) : Zone[t][i] \in Fields
  BY <1>1, ElementOfSeq
<1> QED
  BY <1>1, <1>2, <1>3

-------------------------------------------------------------------------------
LEMMA InitIInv == Init => IInv
<1> SUFFICES ASSUME Init PROVE IInv
  OBVIOUS
<1> USE DEF Init
<1>1. TypeOK
  <2>1. ram \in [Fields -> Texts]
    BY TemplateAssumption
  <2>2. \A t \in Tasks : pos[t] \in 1 .. Len(Zone[t]) + 1
    BY ZoneFacts
  <2>3. next \in 0 .. Len(Layout)
    BY LayoutFacts
  <2> QED
    BY <2>1, <2>2, <2>3 DEF TypeOK
<1>2. AllAccounted
  BY DEF AllAccounted, Accounted
<1>3. CopiedPartFresh
  BY DEF CopiedPartFresh
<1> QED
  BY <1>1, <1>2, <1>3 DEF IInv

LEMMA WriteFieldIInv ==
    ASSUME IInv, NEW t \in Tasks, WriteField(t)
    PROVE  IInv'
<1> USE DEF IInv
<1>1. TypeOK' /\ Zone[t][pos[t]] \in Fields /\ pos[t] \in 1 .. Len(Zone[t])
  BY ZoneFacts, LayoutFacts DEF TypeOK, WriteField
<1>2. PICK x \in Texts : ram' = [ram EXCEPT ![Zone[t][pos[t]]] = x]
  BY DEF WriteField
<1>3. AllAccounted'
  <2> SUFFICES ASSUME NEW f \in Fields PROVE Accounted(f)'
    BY DEF AllAccounted
  <2>1. CASE f = Zone[t][pos[t]]
    <3>1. pos'[t] = pos[t] + 1
      BY DEF WriteField, TypeOK
    <3>2. pos[t] < pos'[t]
      BY <1>1, <3>1, ZoneFacts
    <3>3. Unannounced(f)'
      BY <1>1, <2>1, <3>2 DEF Unannounced
    <3> QED
      BY <3>3 DEF Accounted
  <2>2. CASE f # Zone[t][pos[t]]
    <3>1. ram'[f] = ram[f] /\ panel'[f] = panel[f] /\ ready' = ready
      BY <1>2, <2>2 DEF WriteField, TypeOK
    <3>2. BeingCopied(f) => BeingCopied(f)'
      BY DEF BeingCopied, WriteField
    <3>3. Unannounced(f) => Unannounced(f)'
      <4> SUFFICES ASSUME NEW u \in Tasks, NEW i \in 1 .. Len(Zone[u]),
                          i < pos[u], Zone[u][i] = f
                   PROVE  i < pos'[u]
        BY DEF Unannounced
      <4>1. pos[u] <= pos'[u] /\ pos[u] \in Nat /\ pos'[u] \in Nat
        BY DEF WriteField, TypeOK
      <4> QED
        BY <4>1, ZoneFacts
    <3> QED
      BY <3>1, <3>2, <3>3 DEF AllAccounted, Accounted
  <2> QED
    BY <2>1, <2>2
<1>4. CopiedPartFresh'
  BY DEF WriteField, WriterRuns, CopiedPartFresh
<1> QED
  BY <1>1, <1>3, <1>4

LEMMA NewDataIInv ==
    ASSUME IInv, NEW t \in Tasks, NewData(t)
    PROVE  IInv'
<1> USE DEF IInv
<1>1. TypeOK'
  BY ZoneFacts DEF TypeOK, NewData
<1>2. AllAccounted'
  BY DEF NewData, AllAccounted, Accounted
<1>3. CopiedPartFresh'
  BY DEF NewData, CopiedPartFresh
<1> QED
  BY <1>1, <1>2, <1>3

LEMMA WaitNewDataIInv ==
    ASSUME IInv, WaitNewData
    PROVE  IInv'
<1> USE DEF IInv
<1>1. TypeOK'
  <2>1. next' \in 0 .. Len(Layout)
    BY LayoutFacts DEF WaitNewData
  <2> QED
    BY <2>1 DEF TypeOK, WaitNewData
<1>2. AllAccounted'
  BY LayoutFacts DEF WaitNewData, AllAccounted, Accounted, BeingCopied
<1>3. CopiedPartFresh'
  BY DEF WaitNewData, CopiedPartFresh
<1> QED
  BY <1>1, <1>2, <1>3

LEMMA PutFieldIInv ==
    ASSUME IInv, PutField
    PROVE  IInv'
<1> USE DEF IInv
<1> DEFINE g == Layout[next]
<1>1. next \in 1 .. Len(Layout) /\ Len(Layout) \in Nat /\ g \in Fields
  BY LayoutFacts DEF TypeOK, PutField
<1>2. TypeOK'
  BY <1>1 DEF TypeOK, PutField, AfterPosition
<1>3. /\ panel'[g] = ram[g] /\ ram' = ram
      /\ \A f \in Fields : f # g => panel'[f] = panel[f]
  BY <1>1 DEF TypeOK, PutField
<1>4. AllAccounted'
  <2> SUFFICES ASSUME NEW f \in Fields, f # g PROVE Accounted(f)'
    BY <1>3 DEF AllAccounted, Accounted
  <2>1. BeingCopied(f) => BeingCopied(f)'
    BY <1>1 DEF BeingCopied, PutField, AfterPosition
  <2>2. Unannounced(f) => Unannounced(f)'
    BY DEF Unannounced, PutField
  <2> QED
    BY <1>3, <2>1, <2>2 DEF AllAccounted, Accounted, PutField
<1>5. CopiedPartFresh'
  <2> SUFFICES ASSUME ~driverYields', next' # 0,
                      NEW i \in 1 .. Len(Layout), i < next'
               PROVE  panel'[Layout[i]] = ram'[Layout[i]]
    BY DEF CopiedPartFresh
  <2>1. i = next \/ i < next
    BY <1>1 DEF PutField, AfterPosition
  <2>2. ~driverYields
    BY DEF PutField
  <2> QED
    BY <1>1, <1>3, <2>1, <2>2, LayoutFacts DEF CopiedPartFresh
<1> QED
  BY <1>2, <1>4, <1>5

LEMMA NextIInv == IInv /\ [Next]_vars => IInv'
<1> SUFFICES ASSUME IInv, [Next]_vars PROVE IInv'
  OBVIOUS
<1>1. CASE UNCHANGED vars
  BY <1>1 DEF vars, IInv, TypeOK, AllAccounted, Accounted, BeingCopied,
              Unannounced, CopiedPartFresh
<1>2. CASE Next
  BY <1>2, WriteFieldIInv, NewDataIInv, WaitNewDataIInv, PutFieldIInv
     DEF Next, DisplayTask
<1> QED
  BY <1>1, <1>2

-------------------------------------------------------------------------------
THEOREM Invariance == Spec => []IInv
<1>1. Init => IInv
  BY InitIInv
<1>2. IInv /\ [Next]_vars => IInv'
  BY NextIInv
<1> QED
  BY <1>1, <1>2, PTL DEF Spec

(* The variables keep their types. *)
THEOREM TypeCorrect == Spec => []TypeOK
<1>1. IInv => TypeOK
  BY DEF IInv
<1> QED
  BY <1>1, Invariance, PTL

(* No text is lost (lcd.c:25-32 with main.c:57-60): whenever everybody is  *)
(* at rest and the bit is clear, the panel shows lcd_ram.                  *)
THEOREM NothingLost == Spec => []NoLostUpdate
<1>1. IInv => NoLostUpdate
  <2> SUFFICES ASSUME IInv, Waiting, Quiet PROVE panel = ram
    BY DEF NoLostUpdate
  <2>1. ASSUME NEW f \in Fields PROVE panel[f] = ram[f]
    <3>1. ~Unannounced(f)
      BY ZoneFacts DEF Quiet, Unannounced
    <3> QED
      BY <3>1 DEF IInv, AllAccounted, Accounted, BeingCopied, Waiting
  <2>2. panel = [f \in Fields |-> panel[f]] /\ ram = [f \in Fields |-> ram[f]]
    BY DEF IInv, TypeOK
  <2> QED
    BY <2>1, <2>2
<1> QED
  BY <1>1, Invariance, PTL

(* With a driver that keeps the processor, every completed copy is an      *)
(* exact picture of lcd_ram at one instant (priorities of main.c:183-185). *)
THEOREM CopiesAreSnapshots == Spec => CopyIsSnapshot
<1>1. IInv /\ [Next]_vars =>
        [~driverYields /\ next # 0 /\ next' = 0 => panel' = ram]_vars
  <2> SUFFICES ASSUME IInv, Next, ~driverYields, next # 0, next' = 0
               PROVE  panel' = ram
    OBVIOUS
  <2>1. PutField
    BY DEF Next, DisplayTask, WriteField, NewData, WaitNewData
  <2>2. next = Len(Layout) /\ Len(Layout) \in Nat
    BY <2>1, LayoutFacts DEF PutField, AfterPosition, IInv, TypeOK
  <2>3. ASSUME NEW f \in Fields PROVE panel'[f] = ram[f]
    <3>1. PICK i \in 1 .. Len(Layout) : Layout[i] = f
      BY LayoutFacts
    <3>2. CASE f = Layout[next]
      BY <2>1, <3>2 DEF PutField, IInv, TypeOK
    <3>3. CASE f # Layout[next]
      <4>1. i < next
        BY <2>2, <3>1, <3>3
      <4>2. panel[f] = ram[f]
        BY <3>1, <4>1 DEF IInv, CopiedPartFresh
      <4> QED
        BY <2>1, <3>3, <4>2 DEF PutField, IInv, TypeOK
    <3> QED
      BY <3>2, <3>3
  <2>4. /\ panel' = [f \in Fields |-> panel'[f]]
        /\ ram = [f \in Fields |-> ram[f]]
    BY <2>1 DEF PutField, IInv, TypeOK
  <2> QED
    BY <2>3, <2>4
<1> QED
  BY <1>1, Invariance, PTL DEF Spec, CopyIsSnapshot

(* LcdRefresh implements the safety part of ScreenMirror: whatever the     *)
(* interleaving, each field of the panel only ever takes the text lcd_ram  *)
(* holds at that moment.                                                   *)
THEOREM ImplementsMirror == Spec => Mirror!MirrorSafety
<1>1. Init => Mirror!MirrorInit
  BY DEF Init, Mirror!MirrorInit
<1>2. IInv /\ [Next]_vars => [Mirror!MirrorNext]_<<ram, panel>>
  <2> SUFFICES ASSUME IInv, Next, ~UNCHANGED <<ram, panel>>
               PROVE  Mirror!MirrorNext
    BY DEF vars
  <2>1. ASSUME NEW t \in Tasks, WriteField(t) PROVE Mirror!MirrorNext
    <3>1. Zone[t][pos[t]] \in Fields
      BY <2>1, ZoneFacts DEF WriteField, IInv, TypeOK
    <3> QED
      BY <2>1, <3>1 DEF WriteField, Mirror!MirrorNext, Mirror!Write
  <2>2. ASSUME NEW t \in Tasks, NewData(t) PROVE Mirror!MirrorNext
    BY <2>2 DEF NewData
  <2>3. CASE WaitNewData
    BY <2>3 DEF WaitNewData
  <2>4. CASE PutField
    <3>1. Layout[next] \in Fields
      BY <2>4, LayoutFacts DEF PutField, IInv, TypeOK
    <3>2. panel[Layout[next]] # ram[Layout[next]]
      BY <2>4, <3>1 DEF PutField, IInv, TypeOK
    <3>3. Mirror!Show(Layout[next])
      BY <2>4, <3>2 DEF PutField, Mirror!Show
    <3> QED
      BY <3>1, <3>3 DEF Mirror!MirrorNext
  <2> QED
    BY <2>1, <2>2, <2>3, <2>4 DEF Next, DisplayTask
<1> QED
  BY <1>1, <1>2, Invariance, PTL
     DEF Spec, Mirror!MirrorSafety, Mirror!mirrorVars

-------------------------------------------------------------------------------
(* The contents of the screen: LcdScreen, whose lcd_ram has addresses.     *)

(* A text with this many characters. *)
Sized(text, n) == Len(text) = n /\ text = [i \in 1 .. n |-> text[i]]

(* What the format_ functions copy is as long as the code says, whatever   *)
(* snprintf made of the value.                                             *)
LEMMA PartIsSized ==
    ASSUME NEW buffer, NEW m \in Int, NEW n \in Int, m <= n
    PROVE  Sized(SubSeq(buffer, m, n), n - m + 1)
<1> DEFINE S == {buffer[i] : i \in m .. n}
           c == SubSeq(buffer, m, n)
<1>1. c \in Seq(S) /\ Len(c) = n - m + 1
  BY SubSeqProperties
<1>2. c = [i \in 1 .. n - m + 1 |-> c[i]]
  <2> HIDE DEF c, S
  <2> QED
    BY <1>1, LenProperties
<1> QED
  BY <1>1, <1>2 DEF Sized

LEMMA CopiedIsSized ==
    ASSUME NEW n \in Nat \ {0}, NEW buffer
    PROVE  Sized(Copied(n, buffer), n)
<1>1. Sized(SubSeq(buffer, 1, n), n - 1 + 1) /\ n - 1 + 1 = n
  BY PartIsSized
<1> QED
  BY <1>1 DEF Copied

LEMMA FieldsAreSized ==
    /\ \A v : Sized(FormatBusNumber(v), 5)
    /\ \A v : Sized(FormatDistance(v), 5)
    /\ \A v : Sized(FormatTime(v), 6)
    /\ \A v : Sized(FormatElapsed(v), 3)
    /\ \A v : Sized(FormatBusStop(v), 4)
    /\ \A v : Sized(FormatBusLine(v), 3)
<1>1. /\ \A buffer : Sized(Copied(3, buffer), 3)
      /\ \A buffer : Sized(Copied(4, buffer), 4)
      /\ \A buffer : Sized(Copied(5, buffer), 5)
      /\ \A buffer : Sized(Copied(6, buffer), 6)
  <2>1. 3 \in Nat \ {0} /\ 4 \in Nat \ {0} /\ 5 \in Nat \ {0} /\ 6 \in Nat \ {0}
    OBVIOUS
  <2> QED
    BY <2>1, CopiedIsSized
<1>2. \A v : Sized(FormatBusNumber(v), 5)
  BY <1>1 DEF FormatBusNumber
<1>3. \A v : Sized(FormatDistance(v), 5)
  BY <1>1 DEF FormatDistance
<1>4. \A v : Sized(FormatTime(v), 6)
  BY <1>1 DEF FormatTime
<1>5. \A v : Sized(FormatElapsed(v), 3)
  BY <1>1 DEF FormatElapsed
<1>6. \A v : Sized(FormatBusStop(v), 4)
  BY <1>1 DEF FormatBusStop
<1>7. \A v : Sized(FormatBusLine(v), 3)
  BY <1>1 DEF FormatBusLine
<1> QED
  BY <1>2, <1>3, <1>4, <1>5, <1>6, <1>7

LEMMA NoBusIs ==
    /\ Sized(NoBus, 20)
    /\ \A i \in {6, 7, 13, 14} : NoBus[i] = " "
  BY DEF Sized, NoBus

LEMMA Lines ==
    /\ Line(1) = 0 /\ Line(2) = 40
    /\ Line(3) = 20 /\ Line(4) = 60
  BY DEF Line

(* A text is in the RAM from an address on. *)
Holds(image, at, text, n) == \A i \in 1 .. n : image[at + i - 1] = text[i]

LEMMA PutHolds ==
    ASSUME NEW image, NEW at \in Nat, NEW text, NEW n \in Nat, Sized(text, n),
           at + n <= 80
    PROVE  Holds(Put(image, at, text), at, text, n)
<1> SUFFICES ASSUME NEW i \in 1 .. n
             PROVE  Put(image, at, text)[at + i - 1] = text[i]
  BY DEF Holds
<1>1. PICK a \in 0 .. 79 : a = at + i - 1
  OBVIOUS
<1>2. Len(text) = n
  BY DEF Sized
<1>3. a - at \in 0 .. n - 1 /\ a - at + 1 = i
  BY <1>1
<1>4. Put(image, at, text)[a] = text[i]
  BY <1>2, <1>3 DEF Put
<1> QED
  BY <1>1, <1>4

(* Two texts that do not overlap. *)
LEMMA PutKeeps ==
    ASSUME NEW image, NEW at \in Nat, NEW text, NEW n \in Nat, Sized(text, n),
           NEW there \in Nat, NEW other, NEW m \in Nat, there + m <= 80,
           there + m <= at \/ at + n <= there,
           Holds(image, there, other, m)
    PROVE  Holds(Put(image, at, text), there, other, m)
<1> SUFFICES ASSUME NEW i \in 1 .. m
             PROVE  Put(image, at, text)[there + i - 1] = other[i]
  BY DEF Holds
<1>1. PICK a \in 0 .. 79 : a = there + i - 1
  OBVIOUS
<1>2. Len(text) = n
  BY DEF Sized
<1>3. a - at \notin 0 .. n - 1
  BY <1>1
<1>4. Put(image, at, text)[a] = image[a]
  BY <1>2, <1>3 DEF Put
<1> QED
  BY <1>1, <1>4 DEF Holds

(* What belongs to no task, by its addresses: the header and the texts of  *)
(* the last row, and the gaps of the rows between them.                    *)
Fixed(image) ==
    /\ Holds(image, 0, Header, 20)
    /\ Holds(image, 60, SubSeq(Footer, 1, 5), 5)
    /\ Holds(image, 68, SubSeq(Footer, 9, 11), 3)
    /\ Holds(image, 71, FormatBusLine(BusLine), 3)
    /\ Holds(image, 76, FormatBusStop(BusStop), 4)

Gap(image, a) == Holds(image, a, Spaces(2), 2)
Gaps(image) == \A a \in {25, 32, 45, 52} : Gap(image, a)

Kept(image) == Fixed(image) /\ Gaps(image)

LEMMA TextsAreSized ==
    /\ Sized(Header, 20)
    /\ Sized(Footer, 20)
    /\ Sized(SubSeq(Footer, 1, 5), 5)
    /\ Sized(SubSeq(Footer, 9, 11), 3)
    /\ Sized(Spaces(2), 2)
<1>1. Sized(Header, 20)
  BY DEF Sized, Header
<1>2. Sized(Footer, 20)
  BY DEF Sized, Footer
<1>3. Sized(SubSeq(Footer, 1, 5), 5)
  BY PartIsSized
<1>4. Sized(SubSeq(Footer, 9, 11), 3)
  BY PartIsSized
<1>5. Sized(Spaces(2), 2)
  BY DEF Sized, Spaces
<1> QED
  BY <1>1, <1>2, <1>3, <1>4, <1>5

LEMMA GlassShows ==
    ASSUME NEW row, NEW col \in Nat, NEW n \in Nat, NEW at, NEW text,
           Line(row) \in Nat, at = Line(row) + col,
           Sized(text, n), Holds(lcd_ram, at, text, n)
    PROVE  OnGlass(row, col, n) = text
<1>1. OnGlass(row, col, n) = [i \in 1 .. n |-> lcd_ram[at + i - 1]]
  BY DEF OnGlass, Line
<1> QED
  BY <1>1 DEF Sized, Holds

LEMMA KeptIsReserved == Kept(lcd_ram) => ReservedSpace
<1> SUFFICES ASSUME Kept(lcd_ram) PROVE ReservedSpace
  OBVIOUS
<1>1. OnGlass(1, 0, 20) = Header
  BY Lines, TextsAreSized, GlassShows DEF Kept, Fixed, Gaps, Gap
<1>2. OnGlass(4, 0, 5) = SubSeq(Footer, 1, 5)
  <2> DEFINE part == SubSeq(Footer, 1, 5)
  <2>1. Sized(part, 5) /\ Holds(lcd_ram, 60, part, 5)
    BY TextsAreSized DEF Kept, Fixed
  <2> HIDE DEF part
  <2>2. OnGlass(4, 0, 5) = part
    BY <2>1, Lines, GlassShows
  <2> QED
    BY <2>2 DEF part
<1>3. OnGlass(4, 8, 3) = SubSeq(Footer, 9, 11)
  <2> DEFINE part == SubSeq(Footer, 9, 11)
  <2>1. Sized(part, 3) /\ Holds(lcd_ram, 68, part, 3)
    BY TextsAreSized DEF Kept, Fixed
  <2> HIDE DEF part
  <2>2. OnGlass(4, 8, 3) = part
    BY <2>1, Lines, GlassShows
  <2> QED
    BY <2>2 DEF part
<1>4. OnGlass(4, 11, 3) = FormatBusLine(BusLine)
  BY Lines, FieldsAreSized, GlassShows DEF Kept, Fixed, Gaps, Gap
<1>5. OnGlass(4, 16, 4) = FormatBusStop(BusStop)
  BY Lines, FieldsAreSized, GlassShows DEF Kept, Fixed, Gaps, Gap
<1>6. \A row \in 2 .. 3 :
        /\ OnGlass(row, 5, 2) = Spaces(2)
        /\ OnGlass(row, 12, 2) = Spaces(2)
  <2>1. /\ OnGlass(2, 5, 2) = Spaces(2)
        /\ OnGlass(2, 12, 2) = Spaces(2)
    BY Lines, TextsAreSized, GlassShows DEF Kept, Fixed, Gaps, Gap
  <2>2. /\ OnGlass(3, 5, 2) = Spaces(2)
        /\ OnGlass(3, 12, 2) = Spaces(2)
    BY Lines, TextsAreSized, GlassShows DEF Kept, Fixed, Gaps, Gap
  <2> QED
    BY <2>1, <2>2
<1> QED
  BY <1>1, <1>2, <1>3, <1>4, <1>5, <1>6 DEF ReservedSpace
-------------------------------------------------------------------------------
LEMMA PutFixed ==
    ASSUME NEW image, NEW at \in Nat, NEW text, NEW n \in Nat, Sized(text, n),
           Fixed(image),
           \/ at >= 20 /\ at + n <= 60
           \/ at >= 65 /\ at + n <= 68
    PROVE  Fixed(Put(image, at, text))
<1> DEFINE new == Put(image, at, text)
<1>1. Holds(new, 0, Header, 20)
  BY PutKeeps DEF Fixed
<1>2. Holds(new, 60, SubSeq(Footer, 1, 5), 5)
  <2> DEFINE part == SubSeq(Footer, 1, 5)
  <2>1. Holds(image, 60, part, 5)
    BY DEF Fixed
  <2> HIDE DEF part
  <2>2. Holds(new, 60, part, 5)
    BY <2>1, PutKeeps
  <2> QED
    BY <2>2 DEF part
<1>3. Holds(new, 68, SubSeq(Footer, 9, 11), 3)
  <2> DEFINE part == SubSeq(Footer, 9, 11)
  <2>1. Holds(image, 68, part, 3)
    BY DEF Fixed
  <2> HIDE DEF part
  <2>2. Holds(new, 68, part, 3)
    BY <2>1, PutKeeps
  <2> QED
    BY <2>2 DEF part
<1>4. Holds(new, 71, FormatBusLine(BusLine), 3)
  BY PutKeeps DEF Fixed
<1>5. Holds(new, 76, FormatBusStop(BusStop), 4)
  BY PutKeeps DEF Fixed
<1> QED
  BY <1>1, <1>2, <1>3, <1>4, <1>5 DEF Fixed

LEMMA PutGap ==
    ASSUME NEW image, NEW at \in Nat, NEW text, NEW n \in Nat, Sized(text, n),
           NEW a \in {25, 32, 45, 52}, Gap(image, a),
           a + 2 <= at \/ at + n <= a
    PROVE  Gap(Put(image, at, text), a)
<1>1. a \in Nat /\ a + 2 <= 80
  OBVIOUS
<1> QED
  BY <1>1, PutKeeps DEF Gap

(* A row of a bus, field by field. *)
LEMMA PutGaps ==
    ASSUME NEW image, NEW at \in Nat, NEW text, NEW n \in Nat, Sized(text, n),
           Gaps(image),
           \A a \in {25, 32, 45, 52} : a + 2 <= at \/ at + n <= a
    PROVE  Gaps(Put(image, at, text))
  BY PutGap DEF Gaps

(* What the text of a row without a bus shows where the gaps are. *)
LEMMA NoBusShows ==
    ASSUME NEW image
    PROVE  /\ Put(image, 20, NoBus)[25] = " "
           /\ Put(image, 20, NoBus)[26] = " "
           /\ Put(image, 20, NoBus)[32] = " "
           /\ Put(image, 20, NoBus)[33] = " "
           /\ Put(image, 40, NoBus)[45] = " "
           /\ Put(image, 40, NoBus)[46] = " "
           /\ Put(image, 40, NoBus)[52] = " "
           /\ Put(image, 40, NoBus)[53] = " "
<1> DEFINE text == NoBus
<1>1. Len(text) = 20
  BY NoBusIs DEF Sized
<1>2. text[6] = " " /\ text[7] = " " /\ text[13] = " " /\ text[14] = " "
  BY NoBusIs
<1> HIDE DEF text
<1>3. /\ Put(image, 20, text)[25] = text[6]
      /\ Put(image, 20, text)[26] = text[7]
      /\ Put(image, 20, text)[32] = text[13]
      /\ Put(image, 20, text)[33] = text[14]
  BY <1>1 DEF Put
<1>4. /\ Put(image, 40, text)[45] = text[6]
      /\ Put(image, 40, text)[46] = text[7]
      /\ Put(image, 40, text)[52] = text[13]
      /\ Put(image, 40, text)[53] = text[14]
  BY <1>1 DEF Put
<1> QED
  BY <1>2, <1>3, <1>4 DEF text

LEMMA TwoPlaces ==
    ASSUME NEW a \in Nat, NEW i \in 1 .. 2
    PROVE  a + i - 1 \in {a, a + 1}
  OBVIOUS

LEMMA GapIs ==
    ASSUME NEW image, NEW a \in Nat, \A b \in {a, a + 1} : image[b] = " "
    PROVE  Gap(image, a)
<1>1. \A i \in 1 .. 2 : Spaces(2)[i] = " "
  BY DEF Spaces
<1> QED
  BY <1>1, TwoPlaces DEF Gap, Holds

LEMMA NoBusGaps ==
    ASSUME NEW image
    PROVE  /\ Gap(Put(image, 20, NoBus), 25)
           /\ Gap(Put(image, 20, NoBus), 32)
           /\ Gap(Put(image, 40, NoBus), 45)
           /\ Gap(Put(image, 40, NoBus), 52)
<1>1. 25 + 1 = 26 /\ 32 + 1 = 33 /\ 25 \in Nat /\ 32 \in Nat
  OBVIOUS
<1>2. 45 + 1 = 46 /\ 52 + 1 = 53 /\ 45 \in Nat /\ 52 \in Nat
  OBVIOUS
<1>3. /\ Gap(Put(image, 20, NoBus), 25)
      /\ Gap(Put(image, 20, NoBus), 32)
  <2> DEFINE new == Put(image, 20, NoBus)
  <2>1. new[25] = " " /\ new[26] = " " /\ new[32] = " " /\ new[33] = " "
    BY NoBusShows
  <2> HIDE DEF new
  <2>2. \A b \in {25, 26, 32, 33} : new[b] = " "
    BY <2>1
  <2>3. Gap(new, 25)
    BY <1>1, <2>2, GapIs
  <2>4. Gap(new, 32)
    BY <1>1, <2>2, GapIs
  <2> QED
    BY <2>3, <2>4 DEF new
<1>4. /\ Gap(Put(image, 40, NoBus), 45)
      /\ Gap(Put(image, 40, NoBus), 52)
  <2> DEFINE new == Put(image, 40, NoBus)
  <2>1. new[45] = " " /\ new[46] = " " /\ new[52] = " " /\ new[53] = " "
    BY NoBusShows
  <2> HIDE DEF new
  <2>2. \A b \in {45, 46, 52, 53} : new[b] = " "
    BY <2>1
  <2>3. Gap(new, 45)
    BY <1>2, <2>2, GapIs
  <2>4. Gap(new, 52)
    BY <1>2, <2>2, GapIs
  <2> QED
    BY <2>3, <2>4 DEF new
<1> QED
  BY <1>3, <1>4

-------------------------------------------------------------------------------
(* A row without a bus keeps all of it. *)
LEMMA NoBusKeeps ==
    ASSUME NEW image, NEW row \in {2, 3}, Fixed(image), Gaps(image)
    PROVE  LET new == Put(image, Line(row), NoBus)
           IN  Fixed(new) /\ Gaps(new)
<1> DEFINE new(at) == Put(image, at, NoBus)
<1>1. 20 \in Nat /\ 40 \in Nat /\ Sized(NoBus, 20)
  BY NoBusIs
<1>2. Fixed(new(20)) /\ Fixed(new(40))
  BY <1>1, PutFixed
<1>3. /\ Gap(image, 25) /\ Gap(image, 32) /\ Gap(image, 45) /\ Gap(image, 52)
  BY DEF Gaps
<1>4. Gap(new(20), 45) /\ Gap(new(20), 52)
  BY <1>1, <1>3, PutGap
<1>5. Gap(new(40), 25) /\ Gap(new(40), 32)
  BY <1>1, <1>3, PutGap
<1>6. /\ Gap(new(20), 25) /\ Gap(new(20), 32)
      /\ Gap(new(40), 45) /\ Gap(new(40), 52)
  BY NoBusGaps
<1>7. Gaps(new(20)) /\ Gaps(new(40))
  BY <1>4, <1>5, <1>6 DEF Gaps
<1> HIDE DEF new
<1>8. Fixed(new(Line(row))) /\ Gaps(new(Line(row)))
  BY <1>2, <1>7, Lines
<1> QED
  BY <1>8 DEF new

(* A text that ends before what it must not touch. *)
LEMMA PutKept ==
    ASSUME NEW image, NEW at \in Nat, NEW text, NEW n \in Nat, Sized(text, n),
           Kept(image),
           \/ at >= 20 /\ at + n <= 60
           \/ at >= 65 /\ at + n <= 68,
           \A a \in {25, 32, 45, 52} : a + 2 <= at \/ at + n <= a
    PROVE  Kept(Put(image, at, text))
<1>1. Fixed(image) /\ Gaps(image)
  BY DEF Kept
<1>2. Fixed(Put(image, at, text))
  BY <1>1, PutFixed
<1>3. Gaps(Put(image, at, text))
  BY <1>1, PutGaps
<1> QED
  BY <1>2, <1>3 DEF Kept

(* The row of a bus is three such texts. *)
LEMMA BusRowKeeps ==
    ASSUME NEW image, NEW row \in {2, 3}, NEW bus, Kept(image)
    PROVE  Kept(BusRow(image, row, bus))
<1> DEFINE line == Line(row)
           numbered == Put(image, line, FormatBusNumber(bus.number))
           placed == Put(numbered, line + 7, FormatDistance(bus.distance))
           timed == Put(placed, line + 14, FormatTime(bus.time))
<1>1. line \in {20, 40}
  BY Lines
<1> HIDE DEF line
<1>2. Kept(numbered)
  <2>1. Sized(FormatBusNumber(bus.number), 5)
    BY FieldsAreSized
  <2> QED
    BY <1>1, <2>1, PutKept
<1> HIDE DEF numbered
<1>3. Kept(placed)
  <2>1. Sized(FormatDistance(bus.distance), 5)
    BY FieldsAreSized
  <2>2. line + 7 \in {27, 47}
    BY <1>1
  <2> QED
    BY <1>2, <2>1, <2>2, PutKept
<1> HIDE DEF placed
<1>4. Kept(timed)
  <2>1. Sized(FormatTime(bus.time), 6)
    BY FieldsAreSized
  <2>2. line + 14 \in {34, 54}
    BY <1>1
  <2> QED
    BY <1>3, <2>1, <2>2, PutKept
<1> QED
  BY <1>4 DEF timed, placed, numbered, line, BusRow

LEMMA RowForKeeps ==
    ASSUME NEW image, NEW k \in {1, 2}, NEW buses, Kept(image)
    PROVE  Kept(RowFor(image, k, buses))
<1>1. k + 1 \in {2, 3}
  OBVIOUS
<1>2. CASE Len(buses) >= k
  <2>1. RowFor(image, k, buses) = BusRow(image, k + 1, buses[k])
    BY <1>2 DEF RowFor
  <2> QED
    BY <1>1, <2>1, BusRowKeeps
<1>3. CASE ~(Len(buses) >= k)
  <2>1. RowFor(image, k, buses) =
            Put(image, Line(k + 1), NoBus)
    BY <1>3 DEF RowFor
  <2> QED
    BY <1>1, <2>1, NoBusKeeps DEF Kept
<1> QED
  BY <1>2, <1>3
LEMMA ElapsedKeeps ==
    ASSUME NEW image, NEW s, Kept(image)
    PROVE  Kept(Put(image, Line(4) + 5, FormatElapsed(s)))
<1>1. Line(4) + 5 = 65 /\ 65 \in Nat /\ 3 \in Nat
  BY Lines
<1>2. Sized(FormatElapsed(s), 3)
  BY FieldsAreSized
<1> QED
  BY <1>1, <1>2, PutKept

-------------------------------------------------------------------------------
(* The start-up screen is laid out the same way: its texts one after the   *)
(* other, each beside those before it or over the place they leave for it. *)
LEMMA TemplateKept == Kept(StartUpScreen)
<1> DEFINE blank == [a \in 0 .. 79 |-> " "]
           titled == Put(blank, 0, Header)
           first == Put(titled, 40, NoBus)
           second == Put(first, 20, NoBus)
           texts == Put(second, 60, Footer)
           stop == Put(texts, 76, FormatBusStop(BusStop))
           lined == Put(stop, 71, FormatBusLine(BusLine))
<1>1. StartUpScreen = lined
  <2>1. Line(4) + 16 = 76 /\ Line(4) + 11 = 71
    BY Lines
  <2> QED
    BY <2>1, Lines DEF StartUpScreen
<1> DEFINE header == Header
           footer == Footer
           left == SubSeq(Footer, 1, 5)
           right == SubSeq(Footer, 9, 11)
           number == FormatBusStop(BusStop)
           name == FormatBusLine(BusLine)
<1>2. /\ Sized(header, 20) /\ Sized(footer, 20) /\ Sized(left, 5)
      /\ Sized(right, 3) /\ Sized(number, 4) /\ Sized(name, 3)
      /\ Sized(NoBus, 20)
  BY TextsAreSized, FieldsAreSized, NoBusIs
<1>3. /\ \A i \in 1 .. 5 : left[i] = footer[i]
      /\ \A i \in 1 .. 3 : right[i] = footer[i + 8]
  BY DEF Footer
<1> HIDE DEF blank, header, footer, left, right, number, name
<1>4. Holds(titled, 0, header, 20)
  BY <1>2, PutHolds DEF header
<1>5. Gap(first, 45) /\ Gap(first, 52)
  BY NoBusGaps
<1>6. Gap(second, 25) /\ Gap(second, 32)
  BY NoBusGaps
<1>7. Holds(texts, 60, footer, 20)
  BY <1>2, PutHolds DEF footer
<1>8. Holds(stop, 76, number, 4)
  BY <1>2, PutHolds DEF number
<1>9. Holds(lined, 71, name, 3)
  BY <1>2, PutHolds DEF name
<1> HIDE DEF titled
<1>10. Holds(first, 0, header, 20)
  BY <1>2, <1>4, PutKeeps
<1> HIDE DEF first
<1>11. Holds(second, 0, header, 20)
  BY <1>2, <1>10, PutKeeps
<1>12. Gaps(second)
  <2>1. Gap(second, 45) /\ Gap(second, 52)
    BY <1>2, <1>5, PutGap
  <2> QED
    BY <1>6, <2>1 DEF Gaps
<1> HIDE DEF second
<1>13. Holds(texts, 0, header, 20)
  BY <1>2, <1>11, PutKeeps DEF footer
<1>14. Gaps(texts)
  BY <1>2, <1>12, PutGaps DEF footer
<1>15. Holds(texts, 60, left, 5) /\ Holds(texts, 68, right, 3)
  BY <1>3, <1>7 DEF Holds
<1> HIDE DEF texts
<1>16. /\ Holds(stop, 0, header, 20) /\ Holds(stop, 60, left, 5)
       /\ Holds(stop, 68, right, 3)
  BY <1>2, <1>13, <1>15, PutKeeps DEF number
<1>17. Gaps(stop)
  BY <1>2, <1>14, PutGaps DEF number
<1> HIDE DEF stop
<1>18. /\ Holds(lined, 0, header, 20) /\ Holds(lined, 60, left, 5)
       /\ Holds(lined, 68, right, 3) /\ Holds(lined, 76, number, 4)
  BY <1>2, <1>8, <1>16, PutKeeps DEF name
<1>19. Gaps(lined)
  BY <1>2, <1>17, PutGaps DEF name
<1> HIDE DEF lined
<1> QED
  BY <1>1, <1>9, <1>18, <1>19 DEF Kept, Fixed, header, left, right, number, name

-------------------------------------------------------------------------------
(* "Each part of the program alters its reserved space" (main.c:34):       *)
(* whatever the buses, the ages, the stop and the line are, the header and *)
(* the texts of the last row stay what they were, and the places between   *)
(* two fields blank.                                                       *)
THEOREM ReservedSpaceKept == ScreenSpec => []ReservedSpace
<1>1. ScreenInit => Kept(lcd_ram)
  BY TemplateKept DEF ScreenInit
<1>2. Kept(lcd_ram) /\ [ScreenNext]_screenVars => Kept(lcd_ram)'
  <2> SUFFICES ASSUME Kept(lcd_ram), [ScreenNext]_screenVars
               PROVE  Kept(lcd_ram')
    BY DEF Kept, Fixed, Gaps, Gap, Holds
  <2>1. ASSUME NEW buses, ShowBuses(buses) PROVE Kept(lcd_ram')
    <3>1. Kept(RowFor(lcd_ram, 1, buses))
      BY RowForKeeps
    <3>2. Kept(RowFor(RowFor(lcd_ram, 1, buses), 2, buses))
      BY <3>1, RowForKeeps
    <3> QED
      BY <2>1, <3>2 DEF ShowBuses
  <2>2. ASSUME NEW s, ShowElapsed(s) PROVE Kept(lcd_ram')
    BY <2>2, ElapsedKeeps DEF ShowElapsed
  <2>3. CASE UNCHANGED screenVars
    BY <2>3 DEF screenVars
  <2> QED
    BY <2>1, <2>2, <2>3 DEF ScreenNext
<1> QED
  BY <1>1, <1>2, KeptIsReserved, PTL DEF ScreenSpec

-------------------------------------------------------------------------------
(* What snprintf prints: the digits of a number, and how wide it is. *)
LEMMA DigitIs ==
    ASSUME NEW d \in 0 .. 9
    PROVE  /\ Digit(d) \in Characters
           /\ Digit(d) \notin {" ", "-", ".", "?", ">", "m", "s", "k", "NUL"}
<1>1. Digit(d) \in Characters
  BY DEF Characters
<1>2. d \in {0, 1, 2, 3, 4, 5, 6, 7, 8, 9}
  OBVIOUS
<1>3. Digit(d) \in {"0", "1", "2", "3", "4", "5", "6", "7", "8", "9"}
  BY <1>2 DEF Digit
<1> QED
  BY <1>1, <1>3

LEMMA DigitsDiffer ==
    ASSUME NEW d \in 0 .. 9, NEW e \in 0 .. 9, Digit(d) = Digit(e)
    PROVE  d = e
<1>1. d \in {0, 1, 2, 3, 4, 5, 6, 7, 8, 9} /\ e \in {0, 1, 2, 3, 4, 5, 6, 7, 8, 9}
  OBVIOUS
<1> QED
  BY <1>1 DEF Digit

LEMMA PowerIs ==
    /\ \A w \in 1 .. 10 : Power[w] \in Nat \ {0}
    /\ Power[1] = 1 /\ Power[2] = 10 /\ Power[3] = 100
    /\ Power[4] = 1000 /\ Power[5] = 10000 /\ Power[6] = 100000
<1>1. \A w \in 1 .. 10 : w \in {1, 2, 3, 4, 5, 6, 7, 8, 9, 10}
  OBVIOUS
<1> QED
  BY <1>1 DEF Power

Wide(n, w) == (w = 1 \/ Power[w] <= n) /\ (w = 10 \/ n < Power[w + 1])

LEMMA WidthIs ==
    ASSUME NEW n \in Nat
    PROVE  Width(n) \in 1 .. 10 /\ Wide(n, Width(n))
<1>1. \E w \in 1 .. 10 : Wide(n, w)
  <2>1. CASE n < 10
    BY <2>1 DEF Wide, Power
  <2>2. CASE n >= 10 /\ n < 100
    BY <2>2 DEF Wide, Power
  <2>3. CASE n >= 100 /\ n < 1000
    BY <2>3 DEF Wide, Power
  <2>4. CASE n >= 1000 /\ n < 10000
    BY <2>4 DEF Wide, Power
  <2>5. CASE n >= 10000 /\ n < 100000
    BY <2>5 DEF Wide, Power
  <2>6. CASE n >= 100000 /\ n < 1000000
    BY <2>6 DEF Wide, Power
  <2>7. CASE n >= 1000000 /\ n < 10000000
    BY <2>7 DEF Wide, Power
  <2>8. CASE n >= 10000000 /\ n < 100000000
    BY <2>8 DEF Wide, Power
  <2>9. CASE n >= 100000000 /\ n < 1000000000
    BY <2>9 DEF Wide, Power
  <2>10. CASE n >= 1000000000
    BY <2>10 DEF Wide, Power
  <2> QED
    BY <2>1, <2>2, <2>3, <2>4, <2>5, <2>6, <2>7, <2>8, <2>9, <2>10
<1> QED
  BY <1>1 DEF Width, Wide

(* The widths that the zones have. *)
LEMMA WidthOf ==
    ASSUME NEW n \in Nat
    PROVE  /\ Width(n) <= 1 <=> n < 10
           /\ Width(n) <= 2 <=> n < 100
           /\ Width(n) <= 3 <=> n < 1000
           /\ Width(n) <= 4 <=> n < 10000
           /\ Width(n) <= 5 <=> n < 100000
<1>1. PICK w \in {1, 2, 3, 4, 5, 6, 7, 8, 9, 10} : w = Width(n) /\ Wide(n, w)
  <2>1. Width(n) \in {1, 2, 3, 4, 5, 6, 7, 8, 9, 10}
    BY WidthIs
  <2> QED
    BY <2>1, WidthIs
<1> QED
  BY <1>1 DEF Wide, Power

LEMMA NumberIs ==
    ASSUME NEW n \in Nat
    PROVE  /\ Number(n) \in Seq(Characters)
           /\ Len(Number(n)) = Width(n)
           /\ \A i \in 1 .. Width(n) :
                Number(n)[i] = Digit((n \div Power[Width(n) + 1 - i]) % 10)
<1> DEFINE w == Width(n)
<1>1. w \in 1 .. 10
  BY WidthIs
<1> HIDE DEF w
<1>2. \A i \in 1 .. w : Digit((n \div Power[w + 1 - i]) % 10) \in Characters
  <2> SUFFICES ASSUME NEW i \in 1 .. w
               PROVE  Digit((n \div Power[w + 1 - i]) % 10) \in Characters
    OBVIOUS
  <2>1. w + 1 - i \in 1 .. 10
    BY <1>1
  <2>2. PICK p \in Nat \ {0} : p = Power[w + 1 - i]
    BY <2>1, PowerIs
  <2>3. n \div p \in Int
    OBVIOUS
  <2>4. (n \div p) % 10 \in 0 .. 9
    BY <2>3
  <2> QED
    BY <2>2, <2>4, DigitIs
<1>3. Number(n) = [i \in 1 .. w |-> Digit((n \div Power[w + 1 - i]) % 10)]
  BY DEF Number, w
<1>4. Number(n) \in [1 .. w -> Characters]
  BY <1>2, <1>3
<1>5. w \in Nat
  BY <1>1
<1>6. Number(n) \in Seq(Characters) /\ Len(Number(n)) = w
  BY <1>4, <1>5
<1> QED
  BY <1>3, <1>6 DEF w
-------------------------------------------------------------------------------
(* What stands e places from the end of a number printed with a width.     *)
DigitAt(n, e) == (n \div Power[e]) % 10
Place(n, e) == IF e > Width(n) THEN " " ELSE Digit(DigitAt(n, e))

LEMMA DigitAtIs ==
    ASSUME NEW n \in Nat, NEW e \in 1 .. 10
    PROVE  DigitAt(n, e) \in 0 .. 9
<1>1. PICK p \in Nat \ {0} : p = Power[e]
  BY PowerIs
<1>2. n \div p \in Int
  OBVIOUS
<1>3. (n \div p) % 10 \in 0 .. 9
  BY <1>2
<1> QED
  BY <1>1, <1>3 DEF DigitAt

(* Texts one after the other. *)
Join(a, b) == a \o b

Follows(c, a, m, b, n) ==
    /\ c \in Seq(Characters)
    /\ Len(c) = m + n
    /\ \A i \in 1 .. m + n : c[i] = IF i <= m THEN a[i] ELSE b[i - m]

LEMMA JoinIs ==
    ASSUME NEW a \in Seq(Characters), NEW b \in Seq(Characters),
           NEW m \in Nat, NEW n \in Nat, Len(a) = m, Len(b) = n
    PROVE  Follows(Join(a, b), a, m, b, n)
<1>1. /\ a \o b \in Seq(Characters)
      /\ Len(a \o b) = Len(a) + Len(b)
      /\ \A i \in 1 .. Len(a) + Len(b) :
            (a \o b)[i] = IF i <= Len(a) THEN a[i] ELSE b[i - Len(a)]
  BY ConcatProperties
<1>2. /\ Join(a, b) \in Seq(Characters)
      /\ Len(Join(a, b)) = Len(a) + Len(b)
      /\ \A i \in 1 .. Len(a) + Len(b) :
            Join(a, b)[i] = IF i <= Len(a) THEN a[i] ELSE b[i - Len(a)]
  BY <1>1, Zenon DEF Join
<1> QED
  BY <1>2 DEF Follows

LEMMA SpacesAre ==
    ASSUME NEW n \in Nat
    PROVE  /\ Spaces(n) \in Seq(Characters)
           /\ Len(Spaces(n)) = n
           /\ \A i \in 1 .. n : Spaces(n)[i] = " "
<1>1. " " \in Characters
  BY DEF Characters
<1>2. Spaces(n) = [i \in 1 .. n |-> " "]
  BY DEF Spaces
<1>3. Spaces(n) \in [1 .. n -> Characters]
  BY <1>1, <1>2
<1>4. Spaces(n) \in Seq(Characters) /\ Len(Spaces(n)) = n
  BY <1>3
<1>5. \A i \in 1 .. n : Spaces(n)[i] = " "
  BY <1>2
<1> QED
  BY <1>4, <1>5

(* The field width of snprintf, m spaces before the text. *)
RightAligned(c, w, m, text) ==
    /\ c \in Seq(Characters)
    /\ Len(c) = w
    /\ \A i \in 1 .. w : c[i] = IF i <= m THEN " " ELSE text[i - m]

LEMMA PaddedIs ==
    ASSUME NEW w \in Nat, NEW text \in Seq(Characters), NEW n \in Nat,
           Len(text) = n, NEW m \in Nat, m + n = w
    PROVE  RightAligned(Padded(w, text), w, m, text)
<1>1. CASE n < w
  <2> DEFINE blank == Spaces(m)
             padded == Join(blank, text)
  <2>1. w - n = m
    OBVIOUS
  <2>2. Padded(w, text) = padded
    BY <1>1, <2>1, Zenon DEF Padded, Join
  <2>3. /\ blank \in Seq(Characters) /\ Len(blank) = m
        /\ \A i \in 1 .. m : blank[i] = " "
    BY SpacesAre
  <2> HIDE DEF blank
  <2>4. Follows(padded, blank, m, text, n)
    BY <2>3, JoinIs
  <2> HIDE DEF padded
  <2>5. ASSUME NEW i \in 1 .. w
        PROVE  padded[i] = IF i <= m THEN " " ELSE text[i - m]
    <3>1. i \in 1 .. m + n
      OBVIOUS
    <3>2. padded[i] = IF i <= m THEN blank[i] ELSE text[i - m]
      BY <2>4, <3>1 DEF Follows
    <3>3. i <= m => i \in 1 .. m
      OBVIOUS
    <3> QED
      BY <2>3, <3>2, <3>3
  <2>6. padded \in Seq(Characters) /\ Len(padded) = w
    BY <2>4 DEF Follows
  <2> QED
    BY <2>2, <2>5, <2>6 DEF RightAligned
<1>2. CASE ~(n < w)
  <2>1. Padded(w, text) = text
    BY <1>2, Zenon DEF Padded
  <2>2. m = 0 /\ n = w
    BY <1>2
  <2>3. ASSUME NEW i \in 1 .. w
        PROVE  text[i] = IF i <= m THEN " " ELSE text[i - m]
    <3>1. ~(i <= m) /\ i - m = i
      BY <2>2
    <3> QED
      BY <3>1
  <2> QED
    BY <2>1, <2>2, <2>3 DEF RightAligned
<1> QED
  BY <1>1, <1>2

(* Counting from either end. *)
LEMMA FromTheEnd ==
    ASSUME NEW m \in Nat, NEW v \in Nat, NEW w \in Nat, m + v = w,
           NEW i \in 1 .. w
    PROVE  /\ i <= m => w + 1 - i > v
           /\ ~(i <= m) => /\ i - m \in 1 .. v /\ v + 1 - (i - m) = w + 1 - i
                           /\ ~(w + 1 - i > v)
  OBVIOUS

LEMMA PlacesAre ==
    ASSUME NEW n \in Nat, NEW w \in 1 .. 10, Width(n) <= w
    PROVE  /\ Padded(w, Number(n)) \in Seq(Characters)
           /\ Len(Padded(w, Number(n))) = w
           /\ \A i \in 1 .. w : Padded(w, Number(n))[i] = Place(n, w + 1 - i)
<1>1. PICK v \in 1 .. 10 : v = Width(n) /\ v <= w
  BY WidthIs
<1> DEFINE text == Number(n)
           padded == Padded(w, text)
<1>2. /\ text \in Seq(Characters) /\ Len(text) = v
      /\ \A i \in 1 .. v : text[i] = Digit(DigitAt(n, v + 1 - i))
  BY <1>1, NumberIs DEF DigitAt
<1>3. \A e : Place(n, e) = IF e > v THEN " " ELSE Digit(DigitAt(n, e))
  BY <1>1 DEF Place
<1> HIDE DEF text
<1>4. PICK m \in Nat : m + v = w
  <2>1. w - v \in Nat /\ (w - v) + v = w
    BY <1>1
  <2> QED
    BY <2>1
<1>5. v \in Nat /\ w \in Nat /\ ~(w < v)
  BY <1>1
<1>6. RightAligned(padded, w, m, text)
  BY <1>2, <1>4, <1>5, PaddedIs
<1> HIDE DEF padded
<1>7. padded \in Seq(Characters) /\ Len(padded) = w
  BY <1>6 DEF RightAligned
<1>10. \A i \in 1 .. w : padded[i] = IF i <= m THEN " " ELSE text[i - m]
  BY <1>6 DEF RightAligned
<1>8. ASSUME NEW i \in 1 .. w PROVE padded[i] = Place(n, w + 1 - i)
  <2>1. CASE i <= m
    <3>1. w + 1 - i > v
      BY <1>4, <1>5, <2>1, FromTheEnd
    <3>2. padded[i] = " "
      BY <1>10, <2>1
    <3>3. Place(n, w + 1 - i) = " "
      BY <1>3, <3>1
    <3> QED
      BY <3>2, <3>3
  <2>2. CASE ~(i <= m)
    <3>1. /\ i - m \in 1 .. v /\ v + 1 - (i - m) = w + 1 - i
          /\ ~(w + 1 - i > v)
      BY <1>4, <1>5, <2>2, FromTheEnd
    <3>2. padded[i] = text[i - m]
      BY <1>10, <2>2
    <3>3. text[i - m] = Digit(DigitAt(n, v + 1 - (i - m)))
      BY <1>2, <3>1
    <3>4. Place(n, w + 1 - i) = Digit(DigitAt(n, w + 1 - i))
      BY <1>3, <3>1
    <3> QED
      BY <3>1, <3>2, <3>3, <3>4
  <2> QED
    BY <2>1, <2>2
<1> QED
  BY <1>7, <1>8 DEF text, padded

(* The places tell the number. *)
LEMMA PlaceIs ==
    ASSUME NEW n \in Nat, NEW e \in 1 .. 10
    PROVE  /\ Place(n, e) \in Characters
           /\ Place(n, e) \notin {"-", ".", "?", ">", "m", "s", "k", "NUL"}
           /\ Place(n, e) = " " <=> e > Width(n)
<1>1. DigitAt(n, e) \in 0 .. 9
  BY DigitAtIs
<1>2. " " \in Characters
  BY DEF Characters
<1> QED
  BY <1>1, <1>2, DigitIs DEF Place

LEMMA PlaceTells ==
    ASSUME NEW n \in Nat, NEW k \in Nat, NEW e \in 1 .. 10,
           Place(n, e) = Place(k, e)
    PROVE  /\ e > Width(n) <=> e > Width(k)
           /\ e <= Width(n) => DigitAt(n, e) = DigitAt(k, e)
<1>1. e > Width(n) <=> e > Width(k)
  BY PlaceIs
<1>2. PICK v \in Int, u \in Int : v = Width(n) /\ u = Width(k)
  BY WidthIs
<1>3. CASE e <= Width(n)
  <2>1. ~(e > Width(n)) /\ ~(e > Width(k))
    BY <1>1, <1>2, <1>3
  <2>2. Digit(DigitAt(n, e)) = Digit(DigitAt(k, e))
    BY <2>1 DEF Place
  <2>3. DigitAt(n, e) = DigitAt(k, e)
    <3>1. DigitAt(n, e) \in 0 .. 9 /\ DigitAt(k, e) \in 0 .. 9
      BY DigitAtIs
    <3> QED
      BY <2>2, <3>1, DigitsDiffer
  <2> QED
    BY <1>1, <2>3
<1> QED
  BY <1>1, <1>2, <1>3

LEMMA OutOfWidth ==
    ASSUME NEW n \in Nat, n < 100000, NEW e \in 1 .. 5, e > Width(n)
    PROVE  DigitAt(n, e) = 0
<1>1. Width(n) \in 1 .. 10
  BY WidthIs
<1>2. PICK d \in {2, 3, 4, 5} : d = e
  BY <1>1
<1>3. n \in Nat
  OBVIOUS
<1>4. CASE d = 2
  BY <1>1, <1>2, <1>3, <1>4, WidthOf, PowerIs DEF DigitAt
<1>5. CASE d = 3
  BY <1>1, <1>2, <1>3, <1>5, WidthOf, PowerIs DEF DigitAt
<1>6. CASE d = 4
  BY <1>1, <1>2, <1>3, <1>6, WidthOf, PowerIs DEF DigitAt
<1>7. CASE d = 5
  BY <1>1, <1>2, <1>3, <1>7, WidthOf, PowerIs DEF DigitAt
<1> QED
  BY <1>2, <1>4, <1>5, <1>6, <1>7

LEMMA DigitsAre ==
    ASSUME NEW n \in Nat
    PROVE  /\ DigitAt(n, 1) = n % 10
           /\ DigitAt(n, 2) = (n \div 10) % 10
           /\ DigitAt(n, 3) = (n \div 100) % 10
           /\ DigitAt(n, 4) = (n \div 1000) % 10
           /\ DigitAt(n, 5) = (n \div 10000) % 10
<1>1. n \div 1 = n
  OBVIOUS
<1> QED
  BY <1>1, PowerIs DEF DigitAt

(* A number of five digits is their sum.                                   *)
LEMMA SumOfDigits ==
    ASSUME NEW n \in Nat, n < 100000
    PROVE  n = (n % 10) + 10 * ((n \div 10) % 10) + 100 * ((n \div 100) % 10)
               + 1000 * ((n \div 1000) % 10) + 10000 * ((n \div 10000) % 10)
<1>1. n \div 100 = (n \div 10) \div 10
  OBVIOUS
<1>2. n \div 1000 = (n \div 100) \div 10
  OBVIOUS
<1>3. n \div 10000 = (n \div 1000) \div 10
  OBVIOUS
<1>4. n \div 10000 \in 0 .. 9
  OBVIOUS
<1> QED
  BY <1>1, <1>2, <1>3, <1>4

LEMMA PlacesTell ==
    ASSUME NEW n \in Nat, NEW k \in Nat, n < 100000, k < 100000,
           \A e \in 1 .. 5 : Place(n, e) = Place(k, e)
    PROVE  n = k
<1>1. n \in Nat /\ k \in Nat
  OBVIOUS
<1>2. \A e \in 1 .. 5 : DigitAt(n, e) = DigitAt(k, e)
  <2> SUFFICES ASSUME NEW e \in 1 .. 5 PROVE DigitAt(n, e) = DigitAt(k, e)
    OBVIOUS
  <2>1. e \in 1 .. 10
    OBVIOUS
  <2>2. /\ e > Width(n) <=> e > Width(k)
        /\ e <= Width(n) => DigitAt(n, e) = DigitAt(k, e)
    BY <1>1, <2>1, PlaceTells
  <2>3. CASE e > Width(n)
    BY <2>2, <2>3, OutOfWidth
  <2>4. CASE e <= Width(n)
    BY <2>2, <2>4
  <2>5. Width(n) \in 1 .. 10
    BY <1>1, WidthIs
  <2> QED
    BY <2>3, <2>4, <2>5
<1>3. /\ n % 10 = k % 10
      /\ (n \div 10) % 10 = (k \div 10) % 10
      /\ (n \div 100) % 10 = (k \div 100) % 10
      /\ (n \div 1000) % 10 = (k \div 1000) % 10
      /\ (n \div 10000) % 10 = (k \div 10000) % 10
  <2>1. /\ DigitAt(n, 1) = DigitAt(k, 1) /\ DigitAt(n, 2) = DigitAt(k, 2)
        /\ DigitAt(n, 3) = DigitAt(k, 3) /\ DigitAt(n, 4) = DigitAt(k, 4)
        /\ DigitAt(n, 5) = DigitAt(k, 5)
    BY <1>2
  <2>2. /\ DigitAt(n, 1) = n % 10
        /\ DigitAt(n, 2) = (n \div 10) % 10
        /\ DigitAt(n, 3) = (n \div 100) % 10
        /\ DigitAt(n, 4) = (n \div 1000) % 10
        /\ DigitAt(n, 5) = (n \div 10000) % 10
    BY DigitsAre
  <2>3. /\ DigitAt(k, 1) = k % 10
        /\ DigitAt(k, 2) = (k \div 10) % 10
        /\ DigitAt(k, 3) = (k \div 100) % 10
        /\ DigitAt(k, 4) = (k \div 1000) % 10
        /\ DigitAt(k, 5) = (k \div 10000) % 10
    BY DigitsAre
  <2> QED
    BY <2>1, <2>2, <2>3
<1> QED
  BY <1>3, SumOfDigits
-------------------------------------------------------------------------------
(* A field has the first characters of its text. *)
LEMMA CopiedIs ==
    ASSUME NEW n \in 1 .. 6, NEW buffer
    PROVE  \A i \in 1 .. n : Copied(n, buffer)[i] = buffer[i]
<1> DEFINE T == {buffer[i] : i \in 1 .. n}
<1>1. \A i \in 1 .. n : buffer[i] \in T
  OBVIOUS
<1> HIDE DEF T
<1>2. 1 \in Int /\ n \in Int
  OBVIOUS
<1>3. \A i \in 1 .. n - 1 + 1 : SubSeq(buffer, 1, n)[i] = buffer[1 + i - 1]
  BY <1>1, <1>2, SubSeqProperties
<1>4. \A i \in 1 .. n : i \in 1 .. n - 1 + 1 /\ 1 + i - 1 = i
  OBVIOUS
<1> QED
  BY <1>3, <1>4 DEF Copied

LEMMA FieldIs ==
    ASSUME NEW n \in 1 .. 6, NEW text \in Seq(Characters), NEW l \in Nat,
           Len(text) = l, n <= l
    PROVE  \A i \in 1 .. n : Copied(n, Printed(n + 1, text))[i] = text[i]
<1> DEFINE buffer == Printed(n + 1, text)
<1>1. ASSUME NEW i \in 1 .. n PROVE buffer[i] = text[i]
  <2>1. i \in 1 .. n + 1 /\ ~(i > l + 1) /\ ~(i = l + 1) /\ ~(i = n + 1)
    OBVIOUS
  <2> QED
    BY <2>1 DEF Printed
<1> HIDE DEF buffer
<1>2. \A i \in 1 .. n : Copied(n, buffer)[i] = buffer[i]
  BY CopiedIs
<1> QED
  BY <1>1, <1>2 DEF buffer

(* The constant parts of the forms. *)
Dot == <<".">>
KmText == <<"k", "m">>
MText == <<"m">>
SText == <<"s">>
MBlank == <<"m", " ">>

LEMMA TuplesAreSeqs ==
    ASSUME NEW T, NEW x \in T, NEW y \in T
    PROVE  <<x>> \in Seq(T) /\ <<x, y>> \in Seq(T)
  OBVIOUS

LEMMA LiteralsAre ==
    /\ Dot \in Seq(Characters) /\ Len(Dot) = 1 /\ Dot[1] = "."
    /\ KmText \in Seq(Characters) /\ Len(KmText) = 2 /\ KmText[1] = "k" /\ KmText[2] = "m"
    /\ MText \in Seq(Characters) /\ Len(MText) = 1 /\ MText[1] = "m"
    /\ SText \in Seq(Characters) /\ Len(SText) = 1 /\ SText[1] = "s"
    /\ MBlank \in Seq(Characters) /\ Len(MBlank) = 2
    /\ MBlank[1] = "m" /\ MBlank[2] = " "
<1>1. "." \in Characters /\ "k" \in Characters /\ "m" \in Characters
      /\ "s" \in Characters /\ " " \in Characters
  BY DEF Characters
<1>2. /\ Dot \in Seq(Characters) /\ KmText \in Seq(Characters)
      /\ MText \in Seq(Characters) /\ SText \in Seq(Characters)
      /\ MBlank \in Seq(Characters)
  BY <1>1, TuplesAreSeqs, Zenon DEF Dot, KmText, MText, SText, MBlank
<1>3. /\ Len(Dot) = 1 /\ Len(KmText) = 2 /\ Len(MText) = 1 /\ Len(SText) = 1
      /\ Len(MBlank) = 2
  BY DEF Dot, KmText, MText, SText, MBlank
<1>4. /\ Dot[1] = "." /\ KmText[1] = "k" /\ KmText[2] = "m" /\ MText[1] = "m"
      /\ SText[1] = "s" /\ MBlank[1] = "m" /\ MBlank[2] = " "
  BY DEF Dot, KmText, MText, SText, MBlank
<1> QED
  BY <1>2, <1>3, <1>4

LEMMA OneDigit ==
    ASSUME NEW n \in 0 .. 9
    PROVE  /\ Number(n) \in Seq(Characters) /\ Len(Number(n)) = 1
           /\ Number(n)[1] = Digit(n)
<1>1. n \in Nat /\ n < 10 /\ n % 10 = n
  OBVIOUS
<1>2. Width(n) = 1
  <2>1. Width(n) <= 1 /\ Width(n) \in 1 .. 10
    BY <1>1, WidthIs, WidthOf
  <2> QED
    BY <2>1
<1>3. /\ Number(n) \in Seq(Characters)
      /\ Len(Number(n)) = Width(n)
      /\ \A i \in 1 .. Width(n) :
            Number(n)[i] = Digit((n \div Power[Width(n) + 1 - i]) % 10)
  BY <1>1, NumberIs
<1>4. Number(n)[1] = Digit((n \div Power[1]) % 10)
  <2>1. 1 \in 1 .. 1 /\ 1 + 1 - 1 = 1
    OBVIOUS
  <2> QED
    BY <1>2, <1>3, <2>1
<1>5. n \div 1 = n
  OBVIOUS
<1> QED
  BY <1>1, <1>2, <1>3, <1>4, <1>5, PowerIs

(* format_busnumber *)
LEMMA BusNumberIs ==
    ASSUME NEW n \in Nat, n < 100000
    PROVE  \A i \in 1 .. 5 : FormatBusNumber(n)[i] = Place(n, 6 - i)
<1> DEFINE text == Padded(5, Number(n))
<1>1. Width(n) <= 5 /\ 5 \in 1 .. 10
  BY WidthOf
<1>2. /\ text \in Seq(Characters) /\ Len(text) = 5
      /\ \A i \in 1 .. 5 : text[i] = Place(n, 5 + 1 - i)
  BY <1>1, PlacesAre
<1> HIDE DEF text
<1>3. 5 \in 1 .. 6 /\ 5 + 1 = 6 /\ 5 \in Nat /\ 5 <= 5
  OBVIOUS
<1>4. \A i \in 1 .. 5 : Copied(5, Printed(6, text))[i] = text[i]
  BY <1>2, <1>3, FieldIs
<1>5. \A i \in 1 .. 5 : 5 + 1 - i = 6 - i
  OBVIOUS
<1> QED
  BY <1>2, <1>4, <1>5 DEF text, FormatBusNumber

-------------------------------------------------------------------------------
(* The distance of a bus. *)
(* What the forms are made of. *)
Parts(c, a, m, b, n) ==
    /\ c \in Seq(Characters) /\ Len(c) = m + n
    /\ \A i \in 1 .. m : c[i] = a[i]
    /\ n >= 1 => c[m + 1] = b[1]
    /\ n >= 2 => c[m + 2] = b[2]

LEMMA PartsAre ==
    ASSUME NEW c, NEW a, NEW m \in Nat, NEW b, NEW n \in Nat,
           Follows(c, a, m, b, n)
    PROVE  Parts(c, a, m, b, n)
<1>1. c \in Seq(Characters) /\ Len(c) = m + n
      /\ \A i \in 1 .. m + n : c[i] = IF i <= m THEN a[i] ELSE b[i - m]
  BY DEF Follows
<1>2. ASSUME NEW i \in 1 .. m PROVE c[i] = a[i]
  <2>1. i \in 1 .. m + n /\ i <= m
    OBVIOUS
  <2> QED
    BY <1>1, <2>1
<1>3. ASSUME n >= 1 PROVE c[m + 1] = b[1]
  <2>1. m + 1 \in 1 .. m + n /\ ~(m + 1 <= m) /\ (m + 1) - m = 1
    BY <1>3
  <2> QED
    BY <1>1, <2>1
<1>4. ASSUME n >= 2 PROVE c[m + 2] = b[2]
  <2>1. m + 2 \in 1 .. m + n /\ ~(m + 2 <= m) /\ (m + 2) - m = 2
    BY <1>4
  <2> QED
    BY <1>1, <2>1
<1> QED
  BY <1>1, <1>2, <1>3, <1>4 DEF Parts

LEMMA LongTuplesAreSeqs ==
    ASSUME NEW T, NEW a \in T, NEW b \in T, NEW c \in T, NEW d \in T, NEW e \in T,
           NEW f \in T
    PROVE  /\ <<a, b, c>> \in Seq(T)
           /\ <<a, b, c, d, e>> \in Seq(T)
           /\ <<a, b, c, d, e, f>> \in Seq(T)
  OBVIOUS

LEMMA SignsAre ==
    /\ " " \in Characters /\ "." \in Characters /\ "?" \in Characters
    /\ ">" \in Characters /\ "k" \in Characters /\ "m" \in Characters
    /\ "s" \in Characters
  BY DEF Characters

LEMMA FiguresAre ==
    /\ "0" \in Characters /\ "1" \in Characters /\ "2" \in Characters
    /\ "5" \in Characters /\ "9" \in Characters
<1>1. 0 \in 0 .. 9 /\ 1 \in 0 .. 9 /\ 2 \in 0 .. 9 /\ 5 \in 0 .. 9 /\ 9 \in 0 .. 9
  OBVIOUS
<1>2. /\ Digit(0) \in Characters /\ Digit(1) \in Characters
      /\ Digit(2) \in Characters /\ Digit(5) \in Characters
      /\ Digit(9) \in Characters
  BY <1>1, DigitIs
<1>3. /\ Digit(0) = "0" /\ Digit(1) = "1" /\ Digit(2) = "2"
      /\ Digit(5) = "5" /\ Digit(9) = "9"
  BY DEF Digit
<1> QED
  BY <1>2, <1>3

(* The texts without numbers. *)
LEMMA FixedTextsAre ==
    /\ NotKnown \in Seq(Characters) /\ Len(NotKnown) = 5 /\ NotKnown[4] = "?" /\ NotKnown[5] = "m"
    /\ FarAway \in Seq(Characters) /\ Len(FarAway) = 6 /\ FarAway[4] = "0"
       /\ FarAway[5] = "k"
    /\ TooLong \in Seq(Characters) /\ Len(TooLong) = 6 /\ TooLong[3] = ">"
       /\ TooLong[6] = "m"
    /\ TooOld \in Seq(Characters) /\ Len(TooOld) = 3 /\ TooOld[1] = ">"
<1>1. /\ NotKnown \in Seq(Characters) /\ FarAway \in Seq(Characters)
      /\ TooLong \in Seq(Characters) /\ TooOld \in Seq(Characters)
  BY SignsAre, FiguresAre, LongTuplesAreSeqs, Zenon
  DEF NotKnown, FarAway, TooLong, TooOld
<1>2. Len(NotKnown) = 5 /\ NotKnown[4] = "?" /\ NotKnown[5] = "m"
  BY DEF NotKnown
<1>3. Len(FarAway) = 6 /\ FarAway[4] = "0" /\ FarAway[5] = "k"
  BY DEF FarAway
<1>4. Len(TooLong) = 6 /\ TooLong[3] = ">" /\ TooLong[6] = "m"
  BY DEF TooLong
<1>5. Len(TooOld) = 3 /\ TooOld[1] = ">"
  BY DEF TooOld
<1> QED
  BY <1>1, <1>2, <1>3, <1>4, <1>5

LEMMA Joined ==
    ASSUME NEW a \in Seq(Characters), NEW b \in Seq(Characters),
           NEW m \in Nat, NEW n \in Nat, Len(a) = m, Len(b) = n
    PROVE  Parts(Join(a, b), a, m, b, n)
<1>1. Follows(Join(a, b), a, m, b, n)
  BY JoinIs
<1> QED
  BY <1>1, PartsAre

(* Places followed by a unit. *)
InPlaces(text, n, w) ==
    /\ text \in Seq(Characters)
    /\ \A i \in 1 .. w : text[i] = Place(n, w + 1 - i)

LEMMA PlacesAndUnit ==
    ASSUME NEW n \in Nat, NEW w \in 1 .. 9, Width(n) <= w,
           NEW unit \in Seq(Characters), NEW u \in {1, 2}, Len(unit) = u
    PROVE  /\ InPlaces(Join(Padded(w, Number(n)), unit), n, w)
           /\ Parts(Join(Padded(w, Number(n)), unit), Padded(w, Number(n)), w, unit, u)
<1> DEFINE padded == Padded(w, Number(n))
           text == Join(padded, unit)
<1>1. w \in 1 .. 10 /\ w \in Nat /\ u \in Nat
  OBVIOUS
<1>2. /\ padded \in Seq(Characters) /\ Len(padded) = w
      /\ \A i \in 1 .. w : padded[i] = Place(n, w + 1 - i)
  BY <1>1, PlacesAre
<1> HIDE DEF padded
<1>3. Parts(text, padded, w, unit, u)
  BY <1>1, <1>2, Joined
<1> HIDE DEF text
<1>4. InPlaces(text, n, w)
  BY <1>2, <1>3 DEF Parts, InPlaces
<1> QED
  BY <1>3, <1>4 DEF text, padded

(* The forms of a distance. *)
Whole(n, w, unit) == Join(Padded(w, Number(n)), unit)
Tenths(n, m) == Join(Join(Join(Number(n), Dot), Number(m)), KmText)

LEMMA DistanceForms ==
    ASSUME NEW d
    PROVE  /\ InMetres(d) = Whole(d, 4, MText)
           /\ InKilometres(d) = Whole(d \div 1000, 3, KmText)
           /\ InHectometres(d) =
                Tenths(d \div 1000, (d - 1000 * (d \div 1000)) \div 100)
  BY Zenon DEF InMetres, InKilometres, InHectometres, Whole, Tenths, Join, MText, KmText, Dot

LEMMA MTextIs == MText \in Seq(Characters) /\ Len(MText) = 1 /\ MText[1] = "m"
  BY LiteralsAre, Zenon
LEMMA STextIs == SText \in Seq(Characters) /\ Len(SText) = 1 /\ SText[1] = "s"
  BY LiteralsAre, Zenon
LEMMA DotIs == Dot \in Seq(Characters) /\ Len(Dot) = 1 /\ Dot[1] = "."
  BY LiteralsAre, Zenon
LEMMA KmTextIs ==
    KmText \in Seq(Characters) /\ Len(KmText) = 2 /\ KmText[1] = "k" /\ KmText[2] = "m"
  BY LiteralsAre, Zenon

LEMMA WholeIs ==
    ASSUME NEW n \in Nat, NEW w \in 1 .. 9, Width(n) <= w
    PROVE  /\ InPlaces(Whole(n, w, MText), n, w)
           /\ Len(Whole(n, w, MText)) = w + 1 /\ Whole(n, w, MText)[w + 1] = "m"
           /\ InPlaces(Whole(n, w, SText), n, w)
           /\ Len(Whole(n, w, SText)) = w + 1 /\ Whole(n, w, SText)[w + 1] = "s"
           /\ InPlaces(Whole(n, w, KmText), n, w)
           /\ Len(Whole(n, w, KmText)) = w + 2
           /\ Whole(n, w, KmText)[w + 1] = "k" /\ Whole(n, w, KmText)[w + 2] = "m"
<1>0. 1 \in {1, 2} /\ 2 \in {1, 2}
  OBVIOUS
<1>1. /\ InPlaces(Whole(n, w, MText), n, w)
      /\ Parts(Whole(n, w, MText), Padded(w, Number(n)), w, MText, 1)
  BY <1>0, MTextIs, PlacesAndUnit DEF Whole
<1>2. /\ InPlaces(Whole(n, w, SText), n, w)
      /\ Parts(Whole(n, w, SText), Padded(w, Number(n)), w, SText, 1)
  BY <1>0, STextIs, PlacesAndUnit DEF Whole
<1>3. /\ InPlaces(Whole(n, w, KmText), n, w)
      /\ Parts(Whole(n, w, KmText), Padded(w, Number(n)), w, KmText, 2)
  BY <1>0, KmTextIs, PlacesAndUnit DEF Whole
<1>4. Len(Whole(n, w, MText)) = w + 1 /\ Whole(n, w, MText)[w + 1] = "m"
  BY <1>1, MTextIs DEF Parts
<1>5. Len(Whole(n, w, SText)) = w + 1 /\ Whole(n, w, SText)[w + 1] = "s"
  BY <1>2, STextIs DEF Parts
<1>6. /\ Len(Whole(n, w, KmText)) = w + 2
      /\ Whole(n, w, KmText)[w + 1] = "k" /\ Whole(n, w, KmText)[w + 2] = "m"
  BY <1>3, KmTextIs DEF Parts
<1> QED
  BY <1>1, <1>2, <1>3, <1>4, <1>5, <1>6

LEMMA TenthsAre ==
    ASSUME NEW n \in 0 .. 9, NEW m \in 0 .. 9
    PROVE  /\ Tenths(n, m) \in Seq(Characters) /\ Len(Tenths(n, m)) = 5
           /\ Tenths(n, m)[1] = Digit(n)
           /\ Tenths(n, m)[2] = "."
           /\ Tenths(n, m)[3] = Digit(m)
           /\ Tenths(n, m)[4] = "k" /\ Tenths(n, m)[5] = "m"
<1> DEFINE point == Join(Number(n), Dot)
           digits == Join(point, Number(m))
           text == Join(digits, KmText)
<1>1. /\ Number(n) \in Seq(Characters) /\ Len(Number(n)) = 1
      /\ Number(n)[1] = Digit(n)
  BY OneDigit
<1>2. /\ Number(m) \in Seq(Characters) /\ Len(Number(m)) = 1
      /\ Number(m)[1] = Digit(m)
  BY OneDigit
<1>3. 1 \in Nat /\ 2 \in Nat /\ 3 \in Nat
  OBVIOUS
<1>4. Parts(point, Number(n), 1, Dot, 1)
  BY <1>1, <1>3, DotIs, Joined
<1> HIDE DEF point
<1>5. /\ point \in Seq(Characters) /\ Len(point) = 2
      /\ point[1] = Digit(n) /\ point[2] = "."
  BY <1>1, <1>4, DotIs DEF Parts
<1>6. Parts(digits, point, 2, Number(m), 1)
  BY <1>2, <1>3, <1>5, Joined
<1> HIDE DEF digits
<1>7. /\ digits \in Seq(Characters) /\ Len(digits) = 3
      /\ digits[1] = Digit(n) /\ digits[2] = "." /\ digits[3] = Digit(m)
  BY <1>2, <1>5, <1>6 DEF Parts
<1>8. Parts(text, digits, 3, KmText, 2)
  BY <1>3, <1>7, KmTextIs, Joined
<1> HIDE DEF text
<1>9. /\ text \in Seq(Characters) /\ Len(text) = 5
      /\ text[1] = Digit(n) /\ text[2] = "." /\ text[3] = Digit(m)
      /\ text[4] = "k" /\ text[5] = "m"
  BY <1>7, <1>8, KmTextIs DEF Parts
<1> QED
  BY <1>9 DEF Tenths, text, digits, point
LEMMA CharactersOf ==
    ASSUME NEW text \in Seq(Characters), NEW l \in Nat, Len(text) = l
    PROVE  \A i \in 1 .. l : text[i] \in Characters
  OBVIOUS

(* The five characters of a distance. *)
Five(text) == Copied(5, Printed(6, text))

LEMMA FiveIs ==
    ASSUME NEW text \in Seq(Characters), NEW l \in {5, 6}, Len(text) = l
    PROVE  /\ \A i \in 1 .. 5 : Five(text)[i] \in Characters
           /\ Five(text)[1] = text[1] /\ Five(text)[2] = text[2]
           /\ Five(text)[3] = text[3] /\ Five(text)[4] = text[4]
           /\ Five(text)[5] = text[5]
<1>1. 5 \in 1 .. 6 /\ 5 + 1 = 6 /\ l \in Nat /\ 5 <= l
  OBVIOUS
<1>2. \A i \in 1 .. 5 : Copied(5, Printed(6, text))[i] = text[i]
  BY <1>1, FieldIs
<1>3. \A i \in 1 .. 5 : Five(text)[i] = text[i]
  BY <1>2 DEF Five
<1>4. \A i \in 1 .. 5 : Five(text)[i] \in Characters
  <2>1. \A i \in 1 .. l : text[i] \in Characters
    BY <1>1, CharactersOf
  <2>2. \A i \in 1 .. 5 : i \in 1 .. l
    BY <1>1
  <2> QED
    BY <1>3, <2>1, <2>2
<1>5. 1 \in 1 .. 5 /\ 2 \in 1 .. 5 /\ 3 \in 1 .. 5 /\ 4 \in 1 .. 5 /\ 5 \in 1 .. 5
  OBVIOUS
<1> QED
  BY <1>3, <1>4, <1>5

LEMMA DistanceIs ==
    ASSUME NEW d \in Int
    PROVE  /\ d < 0 => FormatDistance(d) = Five(NotKnown)
           /\ d >= 0 /\ d < 1100 => FormatDistance(d) = Five(Whole(d, 4, MText))
           /\ d >= 1100 /\ d < 10000 =>
                FormatDistance(d) =
                    Five(Tenths(d \div 1000, (d - 1000 * (d \div 1000)) \div 100))
           /\ d >= 10000 /\ d < 20000 =>
                FormatDistance(d) = Five(Whole(d \div 1000, 3, KmText))
           /\ d >= 20000 => FormatDistance(d) = Five(FarAway)
<1>1. FormatDistance(d) = Five(DistanceText(d))
  BY Zenon DEF FormatDistance, Five
<1>2. /\ InMetres(d) = Whole(d, 4, MText)
      /\ InKilometres(d) = Whole(d \div 1000, 3, KmText)
      /\ InHectometres(d) =
            Tenths(d \div 1000, (d - 1000 * (d \div 1000)) \div 100)
  BY DistanceForms
<1>3. CASE d < 0
  BY <1>1, <1>3 DEF DistanceText
<1>4. CASE d >= 0 /\ d < 1100
  BY <1>1, <1>2, <1>4 DEF DistanceText
<1>5. CASE d >= 1100 /\ d < 10000
  BY <1>1, <1>2, <1>5 DEF DistanceText
<1>6. CASE d >= 10000 /\ d < 20000
  BY <1>1, <1>2, <1>6 DEF DistanceText
<1>7. CASE d >= 20000
  BY <1>1, <1>7 DEF DistanceText
<1> QED
  BY <1>3, <1>4, <1>5, <1>6, <1>7

LEMMA WholeMetresAre ==
    ASSUME NEW n \in Nat, Width(n) <= 4
    PROVE  /\ \A i \in 1 .. 5 : Five(Whole(n, 4, MText))[i] \in Characters
           /\ Five(Whole(n, 4, MText))[1] = Place(n, 4)
           /\ Five(Whole(n, 4, MText))[2] = Place(n, 3)
           /\ Five(Whole(n, 4, MText))[3] = Place(n, 2)
           /\ Five(Whole(n, 4, MText))[4] = Place(n, 1)
           /\ Five(Whole(n, 4, MText))[5] = "m"
<1> DEFINE text == Whole(n, 4, MText)
<1>1. InPlaces(text, n, 4) /\ Len(text) = 5 /\ text[5] = "m"
  <2>1. 4 \in 1 .. 9 /\ 4 + 1 = 5
    OBVIOUS
  <2> QED
    BY <2>1, WholeIs
<1> HIDE DEF text
<1>2. /\ text \in Seq(Characters)
      /\ text[1] = Place(n, 4) /\ text[2] = Place(n, 3)
      /\ text[3] = Place(n, 2) /\ text[4] = Place(n, 1)
  BY <1>1 DEF InPlaces
<1>3. 5 \in {5, 6}
  OBVIOUS
<1>4. /\ \A i \in 1 .. 5 : Five(text)[i] \in Characters
      /\ Five(text)[1] = text[1] /\ Five(text)[2] = text[2]
      /\ Five(text)[3] = text[3] /\ Five(text)[4] = text[4]
      /\ Five(text)[5] = text[5]
  BY <1>1, <1>2, <1>3, FiveIs
<1> QED
  BY <1>1, <1>2, <1>4 DEF text

LEMMA KilometresAre ==
    ASSUME NEW n \in Nat, Width(n) <= 3
    PROVE  /\ \A i \in 1 .. 5 : Five(Whole(n, 3, KmText))[i] \in Characters
           /\ Five(Whole(n, 3, KmText))[1] = Place(n, 3)
           /\ Five(Whole(n, 3, KmText))[2] = Place(n, 2)
           /\ Five(Whole(n, 3, KmText))[3] = Place(n, 1)
           /\ Five(Whole(n, 3, KmText))[4] = "k"
           /\ Five(Whole(n, 3, KmText))[5] = "m"
<1> DEFINE text == Whole(n, 3, KmText)
<1>1. InPlaces(text, n, 3) /\ Len(text) = 5 /\ text[4] = "k" /\ text[5] = "m"
  <2>1. 3 \in 1 .. 9 /\ 3 + 1 = 4 /\ 3 + 2 = 5
    OBVIOUS
  <2> QED
    BY <2>1, WholeIs
<1> HIDE DEF text
<1>2. /\ text \in Seq(Characters)
      /\ text[1] = Place(n, 3) /\ text[2] = Place(n, 2)
      /\ text[3] = Place(n, 1)
  BY <1>1 DEF InPlaces
<1>3. 5 \in {5, 6}
  OBVIOUS
<1>4. /\ \A i \in 1 .. 5 : Five(text)[i] \in Characters
      /\ Five(text)[1] = text[1] /\ Five(text)[2] = text[2]
      /\ Five(text)[3] = text[3] /\ Five(text)[4] = text[4]
      /\ Five(text)[5] = text[5]
  BY <1>1, <1>2, <1>3, FiveIs
<1> QED
  BY <1>1, <1>2, <1>4 DEF text

LEMMA HectometresAre ==
    ASSUME NEW n \in 0 .. 9, NEW m \in 0 .. 9
    PROVE  /\ \A i \in 1 .. 5 : Five(Tenths(n, m))[i] \in Characters
           /\ Five(Tenths(n, m))[1] = Digit(n)
           /\ Five(Tenths(n, m))[2] = "."
           /\ Five(Tenths(n, m))[3] = Digit(m)
           /\ Five(Tenths(n, m))[4] = "k"
           /\ Five(Tenths(n, m))[5] = "m"
<1> DEFINE text == Tenths(n, m)
<1>1. /\ text \in Seq(Characters) /\ Len(text) = 5
      /\ text[1] = Digit(n)
      /\ text[2] = "."
      /\ text[3] = Digit(m)
      /\ text[4] = "k" /\ text[5] = "m"
  BY TenthsAre
<1> HIDE DEF text
<1>2. 5 \in {5, 6}
  OBVIOUS
<1>3. /\ \A i \in 1 .. 5 : Five(text)[i] \in Characters
      /\ Five(text)[1] = text[1] /\ Five(text)[2] = text[2]
      /\ Five(text)[3] = text[3] /\ Five(text)[4] = text[4]
      /\ Five(text)[5] = text[5]
  BY <1>1, <1>2, FiveIs
<1> QED
  BY <1>1, <1>3 DEF text

LEMMA ExtremesAre ==
    /\ \A i \in 1 .. 5 : Five(NotKnown)[i] \in Characters
    /\ Five(NotKnown)[4] = "?"
    /\ \A i \in 1 .. 5 : Five(FarAway)[i] \in Characters
    /\ Five(FarAway)[4] = "0" /\ Five(FarAway)[5] = "k"
    /\ Five(NotKnown)[5] = "m"
<1>1. NotKnown \in Seq(Characters) /\ Len(NotKnown) = 5 /\ NotKnown[4] = "?" /\ NotKnown[5] = "m"
  BY FixedTextsAre, Zenon
<1>2. /\ FarAway \in Seq(Characters) /\ Len(FarAway) = 6
      /\ FarAway[4] = "0" /\ FarAway[5] = "k"
  BY FixedTextsAre, Zenon
<1>3. 5 \in {5, 6} /\ 6 \in {5, 6}
  OBVIOUS
<1>4. /\ \A i \in 1 .. 5 : Five(NotKnown)[i] \in Characters
      /\ Five(NotKnown)[4] = NotKnown[4] /\ Five(NotKnown)[5] = NotKnown[5]
  BY <1>1, <1>3, FiveIs
<1>5. /\ \A i \in 1 .. 5 : Five(FarAway)[i] \in Characters
      /\ Five(FarAway)[4] = FarAway[4] /\ Five(FarAway)[5] = FarAway[5]
  BY <1>2, <1>3, FiveIs
<1> QED
  BY <1>1, <1>2, <1>4, <1>5
(* Which form a distance has shows. *)
Form(d) ==
    IF d < 0 THEN "unknown" ELSE IF d < 1100 THEN "m" ELSE IF d < 10000 THEN "hm"
    ELSE IF d < 20000 THEN "km" ELSE "far"

(* What Distance and format_distance make of it in that form. *)
Km(d) == d \div 1000
Hm(d) == (d - 1000 * (d \div 1000)) \div 100

AsUnknown(d) ==
    Distance(d) = <<"unknown">> /\ FormatDistance(d) = Five(NotKnown)
AsMetres(d) ==
    /\ d \in Nat /\ d < 10000
    /\ Distance(d) = <<"m", d>> /\ Distance(d)[2] = d
    /\ FormatDistance(d) = Five(Whole(d, 4, MText))
AsHectometres(d) ==
    /\ d \in Nat /\ d < 10000
    /\ Distance(d) = <<"hm", d \div 100>> /\ Distance(d)[2] = d \div 100
    /\ FormatDistance(d) = Five(Tenths(Km(d), Hm(d)))
AsKilometres(d) ==
    /\ d \in Nat /\ d < 20000
    /\ Distance(d) = <<"km", Km(d)>> /\ Distance(d)[2] = Km(d)
    /\ FormatDistance(d) = Five(Whole(Km(d), 3, KmText))
AsFar(d) ==
    Distance(d) = <<"far">> /\ FormatDistance(d) = Five(FarAway)

LEMMA FormIs ==
    ASSUME NEW d \in Int
    PROVE  /\ Distance(d)[1] = Form(d)
           /\ Form(d) \in {"unknown", "m", "hm", "km", "far"}
           /\ Form(d) = "unknown" => AsUnknown(d)
           /\ Form(d) = "m" => AsMetres(d)
           /\ Form(d) = "hm" => AsHectometres(d)
           /\ Form(d) = "km" => AsKilometres(d)
           /\ Form(d) = "far" => AsFar(d)
<1>1. CASE d < 0
  <2>1. /\ Form(d) = "unknown" /\ Distance(d) = <<"unknown">>
        /\ Distance(d)[1] = "unknown"
    BY <1>1 DEF Form, Distance
  <2>2. FormatDistance(d) = Five(NotKnown)
    BY <1>1, DistanceIs
  <2> QED
    BY <2>1, <2>2 DEF AsUnknown
<1>2. CASE d >= 0 /\ d < 1100
  <2>1. /\ Form(d) = "m" /\ Distance(d) = <<"m", d>> /\ d \in Nat /\ d < 10000
        /\ Distance(d)[1] = "m" /\ Distance(d)[2] = d
    BY <1>2 DEF Form, Distance
  <2>2. FormatDistance(d) = Five(Whole(d, 4, MText))
    BY <1>2, DistanceIs
  <2> QED
    BY <2>1, <2>2 DEF AsMetres
<1>3. CASE d >= 1100 /\ d < 10000
  <2>1. /\ Form(d) = "hm" /\ Distance(d) = <<"hm", d \div 100>> /\ d \in Nat
        /\ Distance(d)[1] = "hm" /\ Distance(d)[2] = d \div 100
    BY <1>3 DEF Form, Distance
  <2>2. FormatDistance(d) = Five(Tenths(Km(d), Hm(d)))
    BY <1>3, DistanceIs DEF Km, Hm
  <2> QED
    BY <1>3, <2>1, <2>2 DEF AsHectometres
<1>4. CASE d >= 10000 /\ d < 20000
  <2>1. /\ Form(d) = "km" /\ Distance(d) = <<"km", Km(d)>> /\ d \in Nat
        /\ Distance(d)[1] = "km" /\ Distance(d)[2] = Km(d)
    BY <1>4 DEF Form, Distance, Km
  <2>2. FormatDistance(d) = Five(Whole(Km(d), 3, KmText))
    BY <1>4, DistanceIs DEF Km
  <2> QED
    BY <1>4, <2>1, <2>2 DEF AsKilometres
<1>5. CASE d >= 20000
  <2>1. Form(d) = "far" /\ Distance(d) = <<"far">> /\ Distance(d)[1] = "far"
    BY <1>5 DEF Form, Distance
  <2>2. FormatDistance(d) = Five(FarAway)
    BY <1>5, DistanceIs
  <2> QED
    BY <2>1, <2>2 DEF AsFar
<1> QED
  BY <1>1, <1>2, <1>3, <1>4, <1>5

LEMMA Quotients ==
    ASSUME NEW d \in Nat
    PROVE  /\ Km(d) \in Nat
           /\ d < 20000 => Km(d) < 1000
           /\ d < 10000 =>
                /\ Km(d) \in 0 .. 9 /\ Hm(d) \in 0 .. 9
                /\ d \div 100 = 10 * Km(d) + Hm(d)
<1>1. PICK q \in Nat : q = d \div 1000 /\ 1000 * q <= d /\ d < 1000 * q + 1000
  OBVIOUS
<1>2. PICK r \in Int : r = d - 1000 * q /\ r \in 0 .. 999
  BY <1>1
<1>3. PICK h \in Nat : h = r \div 100 /\ 100 * h <= r /\ r < 100 * h + 100
  BY <1>2
<1>4. PICK p \in Nat : p = d \div 100 /\ 100 * p <= d /\ d < 100 * p + 100
  OBVIOUS
<1> QED
  BY <1>1, <1>2, <1>3, <1>4 DEF Km, Hm

LEMMA FivePlacesTell ==
    ASSUME NEW n \in Nat, NEW k \in Nat, n < 100000, k < 100000,
           Place(n, 1) = Place(k, 1), Place(n, 2) = Place(k, 2),
           Place(n, 3) = Place(k, 3), Place(n, 4) = Place(k, 4),
           Place(n, 5) = Place(k, 5)
    PROVE  n = k
<1>1. \A e \in {1, 2, 3, 4, 5} : Place(n, e) = Place(k, e)
  OBVIOUS
<1>2. \A e \in 1 .. 5 : e \in {1, 2, 3, 4, 5}
  OBVIOUS
<1>3. \A e \in 1 .. 5 : Place(n, e) = Place(k, e)
  BY <1>1, <1>2
<1> QED
  BY <1>3, PlacesTell

LEMMA PlaceIsNot ==
    ASSUME NEW n \in Nat, NEW e \in 1 .. 10
    PROVE  Place(n, e) \notin {"-", ".", "?", ">", "m", "s", "k", "NUL"}
  BY PlaceIs, Zenon

Blank(n, e) == Place(n, e) = " "

LEMMA BeyondWidth ==
    ASSUME NEW n \in Nat, NEW w \in 1 .. 9, Width(n) <= w, NEW e \in 1 .. 10, e > w
    PROVE  Blank(n, e)
<1>1. PICK v \in 1 .. 10 : v = Width(n)
  BY WidthIs
<1>2. e > Width(n)
  BY <1>1
<1> QED
  BY <1>2 DEF Place, Blank

LEMMA FormShows ==
    ASSUME NEW d \in Int
    PROVE  LET text == FormatDistance(d)
           IN  /\ \A i \in 1 .. 5 : text[i] \in Characters
               /\ \/ Form(d) = "unknown" /\ text[4] = "?"
                  \/ Form(d) = "m" /\ text[4] \notin {"?", "k"} /\ text[5] = "m"
                  \/ Form(d) = "hm" /\ text[4] = "k" /\ text[2] = "."
                  \/ Form(d) = "km" /\ text[4] = "k" /\ text[2] # "."
                  \/ Form(d) = "far" /\ text[4] \notin {"?", "k"} /\ text[5] = "k"
<1> DEFINE text == FormatDistance(d)
<1>1. Form(d) \in {"unknown", "m", "hm", "km", "far"}
  BY FormIs
<1>2. CASE Form(d) = "unknown"
  <2>1. text = Five(NotKnown)
    BY <1>2, FormIs DEF AsUnknown
  <2> HIDE DEF text
  <2>2. text[4] = "?" /\ \A i \in 1 .. 5 : text[i] \in Characters
    BY <2>1, ExtremesAre
  <2> QED
    BY <1>2, <2>2 DEF text
<1>3. CASE Form(d) = "m"
  <2>1. text = Five(Whole(d, 4, MText)) /\ d \in Nat /\ d < 10000
    BY <1>3, FormIs DEF AsMetres
  <2>2. Width(d) <= 4
    BY <2>1, WidthOf
  <2> HIDE DEF text
  <2>3. /\ text[4] = Place(d, 1) /\ text[5] = "m"
        /\ \A i \in 1 .. 5 : text[i] \in Characters
    BY <2>1, <2>2, WholeMetresAre
  <2>4. Place(d, 1) \notin {"?", "k"}
    <3>1. 1 \in 1 .. 10
      OBVIOUS
    <3> QED
      BY <2>1, <3>1, PlaceIsNot
  <2> QED
    BY <1>3, <2>3, <2>4 DEF text
<1>4. CASE Form(d) = "hm"
  <2>1. text = Five(Tenths(Km(d), Hm(d))) /\ d \in Nat /\ d < 10000
    BY <1>4, FormIs DEF AsHectometres
  <2>2. Km(d) \in 0 .. 9 /\ Hm(d) \in 0 .. 9
    BY <2>1, Quotients
  <2> HIDE DEF text
  <2>3. /\ text[4] = "k" /\ text[2] = "."
        /\ \A i \in 1 .. 5 : text[i] \in Characters
    BY <2>1, <2>2, HectometresAre
  <2> QED
    BY <1>4, <2>3 DEF text
<1>5. CASE Form(d) = "km"
  <2> DEFINE km == Km(d)
  <2>1. text = Five(Whole(km, 3, KmText)) /\ d \in Nat /\ d < 20000
    BY <1>5, FormIs DEF AsKilometres
  <2>2. km \in Nat /\ km < 1000 /\ 2 \in 1 .. 10
    BY <2>1, Quotients
  <2> HIDE DEF text, km
  <2>3. Width(km) <= 3
    BY <2>2, WidthOf
  <2>4. /\ text[4] = "k" /\ text[2] = Place(km, 2)
        /\ \A i \in 1 .. 5 : text[i] \in Characters
    BY <2>1, <2>2, <2>3, KilometresAre
  <2>5. Place(km, 2) # "."
    BY <2>2, PlaceIsNot
  <2> QED
    BY <1>5, <2>4, <2>5 DEF text
<1>6. CASE Form(d) = "far"
  <2>1. text = Five(FarAway)
    BY <1>6, FormIs DEF AsFar
  <2> HIDE DEF text
  <2>2. /\ text[4] = "0" /\ text[5] = "k"
        /\ \A i \in 1 .. 5 : text[i] \in Characters
    BY <2>1, ExtremesAre
  <2> QED
    BY <1>6, <2>2 DEF text
<1> QED
  BY <1>1, <1>2, <1>3, <1>4, <1>5, <1>6

LEMMA TwoFiguresTell ==
    ASSUME NEW p \in 0 .. 9, NEW q \in 0 .. 9, NEW r \in 0 .. 9, NEW s \in 0 .. 9,
           10 * p + q = 10 * r + s
    PROVE  p = r /\ q = s
  OBVIOUS

LEMMA BlanksAgree ==
    ASSUME NEW n, NEW k, NEW e, Blank(n, e), Blank(k, e)
    PROVE  Place(n, e) = Place(k, e)
  BY Zenon DEF Blank

(* Two distances are shown alike if and only if they are the same to the   *)
(* accuracy of their form.                                                 *)
LEMMA SameDistance ==
    ASSUME NEW a \in Int, NEW b \in Int, Distance(a) = Distance(b)
    PROVE  FormatDistance(a) = FormatDistance(b)
<1>1. Form(a) = Form(b) /\ Form(a) \in {"unknown", "m", "hm", "km", "far"}
  BY FormIs
<1>2. CASE Form(a) = "unknown"
  <2>1. AsUnknown(a) /\ AsUnknown(b)
    BY <1>1, <1>2, FormIs
  <2> QED
    BY <2>1 DEF AsUnknown
<1>3. CASE Form(a) = "m"
  <2>1. AsMetres(a) /\ AsMetres(b)
    BY <1>1, <1>3, FormIs
  <2>2. a = b
    BY <2>1 DEF AsMetres
  <2> QED
    BY <2>2
<1>4. CASE Form(a) = "hm"
  <2>1. AsHectometres(a) /\ AsHectometres(b)
    BY <1>1, <1>4, FormIs
  <2>2. a \div 100 = b \div 100
    BY <2>1 DEF AsHectometres
  <2>3. a \in Nat /\ b \in Nat /\ a < 10000 /\ b < 10000
    BY <2>1 DEF AsHectometres
  <2>4. /\ Km(a) \in 0 .. 9 /\ Hm(a) \in 0 .. 9
        /\ Km(b) \in 0 .. 9 /\ Hm(b) \in 0 .. 9
        /\ a \div 100 = 10 * Km(a) + Hm(a) /\ b \div 100 = 10 * Km(b) + Hm(b)
    BY <2>3, Quotients
  <2>5. Km(a) = Km(b) /\ Hm(a) = Hm(b)
    BY <2>2, <2>4, TwoFiguresTell
  <2> QED
    BY <2>1, <2>5 DEF AsHectometres
<1>5. CASE Form(a) = "km"
  <2>1. AsKilometres(a) /\ AsKilometres(b)
    BY <1>1, <1>5, FormIs
  <2>2. Km(a) = Km(b)
    BY <2>1 DEF AsKilometres
  <2> QED
    BY <2>1, <2>2 DEF AsKilometres
<1>6. CASE Form(a) = "far"
  <2>1. AsFar(a) /\ AsFar(b)
    BY <1>1, <1>6, FormIs
  <2> QED
    BY <2>1 DEF AsFar
<1> QED
  BY <1>1, <1>2, <1>3, <1>4, <1>5, <1>6

(* The numbers that the texts tell, for one distance. *)
LEMMA MetresText ==
    ASSUME NEW d \in Int, AsMetres(d)
    PROVE  /\ d \in Nat /\ d < 100000
           /\ FormatDistance(d)[1] = Place(d, 4) /\ FormatDistance(d)[2] = Place(d, 3)
           /\ FormatDistance(d)[3] = Place(d, 2) /\ FormatDistance(d)[4] = Place(d, 1)
           /\ Blank(d, 5)
<1>1. d \in Nat /\ d < 10000 /\ FormatDistance(d) = Five(Whole(d, 4, MText))
  BY DEF AsMetres
<1>2. Width(d) <= 4
  BY <1>1, WidthOf
<1>3. /\ FormatDistance(d)[1] = Place(d, 4) /\ FormatDistance(d)[2] = Place(d, 3)
      /\ FormatDistance(d)[3] = Place(d, 2) /\ FormatDistance(d)[4] = Place(d, 1)
  BY <1>1, <1>2, WholeMetresAre
<1>5. d \in Nat
  BY <1>1
<1>4. Blank(d, 5)
  <2>1. 5 \in 1 .. 10 /\ 4 \in 1 .. 9 /\ 5 > 4
    OBVIOUS
  <2> QED
    BY <1>2, <1>5, <2>1, BeyondWidth
<1>6. d < 100000
  BY <1>1
<1> QED
  BY <1>3, <1>4, <1>5, <1>6

LEMMA HectometresText ==
    ASSUME NEW d \in Int, AsHectometres(d)
    PROVE  /\ Km(d) \in 0 .. 9 /\ Hm(d) \in 0 .. 9
           /\ d \div 100 = 10 * Km(d) + Hm(d)
           /\ FormatDistance(d)[1] = Digit(Km(d))
           /\ FormatDistance(d)[3] = Digit(Hm(d))
<1>1. d \in Nat /\ d < 10000 /\ FormatDistance(d) = Five(Tenths(Km(d), Hm(d)))
  BY DEF AsHectometres
<1>2. /\ Km(d) \in 0 .. 9 /\ Hm(d) \in 0 .. 9
      /\ d \div 100 = 10 * Km(d) + Hm(d)
  BY <1>1, Quotients
<1>3. Km(d) \in 0 .. 9 /\ Hm(d) \in 0 .. 9
  BY <1>2
<1>4. FormatDistance(d)[1] = Digit(Km(d)) /\ FormatDistance(d)[3] = Digit(Hm(d))
  BY <1>1, <1>3, HectometresAre
<1> QED
  BY <1>2, <1>4

LEMMA KilometresText ==
    ASSUME NEW d \in Int, AsKilometres(d)
    PROVE  /\ Km(d) \in Nat /\ Km(d) < 100000
           /\ FormatDistance(d)[1] = Place(Km(d), 3)
           /\ FormatDistance(d)[2] = Place(Km(d), 2)
           /\ FormatDistance(d)[3] = Place(Km(d), 1)
           /\ Blank(Km(d), 4) /\ Blank(Km(d), 5)
<1>1. d \in Nat /\ d < 20000 /\ FormatDistance(d) = Five(Whole(Km(d), 3, KmText))
  BY DEF AsKilometres
<1>2. Km(d) \in Nat /\ Km(d) < 1000
  BY <1>1, Quotients
<1>3. Width(Km(d)) <= 3
  BY <1>2, WidthOf
<1>4. /\ FormatDistance(d)[1] = Place(Km(d), 3)
      /\ FormatDistance(d)[2] = Place(Km(d), 2)
      /\ FormatDistance(d)[3] = Place(Km(d), 1)
  BY <1>1, <1>2, <1>3, KilometresAre
<1>5. Blank(Km(d), 4) /\ Blank(Km(d), 5)
  <2>1. 5 \in 1 .. 10 /\ 4 \in 1 .. 10 /\ 3 \in 1 .. 9 /\ 5 > 3 /\ 4 > 3
    OBVIOUS
  <2> QED
    BY <1>2, <1>3, <2>1, BeyondWidth
<1>6. Km(d) \in Nat /\ Km(d) < 100000
  BY <1>2
<1> QED
  BY <1>4, <1>5, <1>6

LEMMA SameDistanceText ==
    ASSUME NEW a \in Int, NEW b \in Int, FormatDistance(a) = FormatDistance(b)
    PROVE  Distance(a) = Distance(b)
<1>1. Form(a) \in {"unknown", "m", "hm", "km", "far"} /\ Form(a) = Form(b)
  BY FormShows
<1>2. CASE Form(a) = "unknown"
  <2>1. AsUnknown(a) /\ AsUnknown(b)
    BY <1>1, <1>2, FormIs
  <2> QED
    BY <2>1 DEF AsUnknown
<1>3. CASE Form(a) = "m"
  <2>1. AsMetres(a) /\ AsMetres(b)
    BY <1>1, <1>3, FormIs
  <2>2. /\ a \in Nat /\ a < 100000
        /\ FormatDistance(a)[1] = Place(a, 4) /\ FormatDistance(a)[2] = Place(a, 3)
        /\ FormatDistance(a)[3] = Place(a, 2) /\ FormatDistance(a)[4] = Place(a, 1)
        /\ Blank(a, 5)
    BY <2>1, MetresText
  <2>3. /\ b \in Nat /\ b < 100000
        /\ FormatDistance(b)[1] = Place(b, 4) /\ FormatDistance(b)[2] = Place(b, 3)
        /\ FormatDistance(b)[3] = Place(b, 2) /\ FormatDistance(b)[4] = Place(b, 1)
        /\ Blank(b, 5)
    BY <2>1, MetresText
  <2>4. /\ Place(a, 1) = Place(b, 1) /\ Place(a, 2) = Place(b, 2)
        /\ Place(a, 3) = Place(b, 3) /\ Place(a, 4) = Place(b, 4)
        /\ Place(a, 5) = Place(b, 5)
    BY <2>2, <2>3, BlanksAgree
  <2>5. a \in Nat /\ a < 100000 /\ b \in Nat /\ b < 100000
    BY <2>2, <2>3
  <2>6. a = b
    BY <2>4, <2>5, FivePlacesTell
  <2> QED
    BY <2>6
<1>4. CASE Form(a) = "hm"
  <2>1. AsHectometres(a) /\ AsHectometres(b)
    BY <1>1, <1>4, FormIs
  <2>2. /\ Km(a) \in 0 .. 9 /\ Hm(a) \in 0 .. 9 /\ Km(b) \in 0 .. 9 /\ Hm(b) \in 0 .. 9
        /\ Digit(Km(a)) = Digit(Km(b)) /\ Digit(Hm(a)) = Digit(Hm(b))
    BY <2>1, HectometresText
  <2>3. Km(a) = Km(b) /\ Hm(a) = Hm(b)
    BY <2>2, DigitsDiffer
  <2>4. a \div 100 = 10 * Km(a) + Hm(a) /\ b \div 100 = 10 * Km(b) + Hm(b)
    BY <2>1, HectometresText
  <2>5. a \div 100 = b \div 100
    BY <2>3, <2>4
  <2> QED
    BY <2>1, <2>5 DEF AsHectometres
<1>5. CASE Form(a) = "km"
  <2>1. AsKilometres(a) /\ AsKilometres(b)
    BY <1>1, <1>5, FormIs
  <2>2. /\ Km(a) \in Nat /\ Km(a) < 100000
        /\ FormatDistance(a)[1] = Place(Km(a), 3)
        /\ FormatDistance(a)[2] = Place(Km(a), 2)
        /\ FormatDistance(a)[3] = Place(Km(a), 1)
        /\ Blank(Km(a), 4) /\ Blank(Km(a), 5)
    BY <2>1, KilometresText
  <2>3. /\ Km(b) \in Nat /\ Km(b) < 100000
        /\ FormatDistance(b)[1] = Place(Km(b), 3)
        /\ FormatDistance(b)[2] = Place(Km(b), 2)
        /\ FormatDistance(b)[3] = Place(Km(b), 1)
        /\ Blank(Km(b), 4) /\ Blank(Km(b), 5)
    BY <2>1, KilometresText
  <2>4. /\ Place(Km(a), 1) = Place(Km(b), 1) /\ Place(Km(a), 2) = Place(Km(b), 2)
        /\ Place(Km(a), 3) = Place(Km(b), 3) /\ Place(Km(a), 4) = Place(Km(b), 4)
        /\ Place(Km(a), 5) = Place(Km(b), 5)
    BY <2>2, <2>3, BlanksAgree
  <2>5. Km(a) \in Nat /\ Km(a) < 100000 /\ Km(b) \in Nat /\ Km(b) < 100000
    BY <2>2, <2>3
  <2>6. Km(a) = Km(b)
    BY <2>4, <2>5, FivePlacesTell
  <2> QED
    BY <2>1, <2>6 DEF AsKilometres
<1>6. CASE Form(a) = "far"
  <2>1. AsFar(a) /\ AsFar(b)
    BY <1>1, <1>6, FormIs
  <2> QED
    BY <2>1 DEF AsFar
<1> QED
  BY <1>1, <1>2, <1>3, <1>4, <1>5, <1>6

LEMMA DistanceTells ==
    ASSUME NEW a \in Int, NEW b \in Int
    PROVE  FormatDistance(a) = FormatDistance(b) <=> Distance(a) = Distance(b)
  BY SameDistance, SameDistanceText

-------------------------------------------------------------------------------
(* The time of a bus. *)
Minutes(t) == t \div 60
Seconds(t) == t - 60 * (t \div 60)

MinSec(m, s) == Join(Join(Join(Number(m), MBlank), TwoDigits(s)), SText)

LEMMA TimeForms ==
    ASSUME NEW t
    PROVE  /\ InSeconds(t) = Whole(Seconds(t), 5, SText)
           /\ InMinutesAndSeconds(t) = MinSec(Minutes(t), Seconds(t))
           /\ InMinutes(t) = Whole(Minutes(t), 5, MText)
  BY Zenon DEF InSeconds, InMinutesAndSeconds, InMinutes, Whole, MinSec, Minutes, Seconds,
               Join, MText, SText, MBlank

LEMMA MBlankIs ==
    /\ MBlank \in Seq(Characters) /\ Len(MBlank) = 2
    /\ MBlank[1] = "m" /\ MBlank[2] = " "
  BY LiteralsAre, Zenon

LEMMA TwoDigitsAre ==
    ASSUME NEW s \in 0 .. 99
    PROVE  /\ TwoDigits(s) \in Seq(Characters) /\ Len(TwoDigits(s)) = 2
           /\ TwoDigits(s)[1] = Digit(s \div 10) /\ TwoDigits(s)[2] = Digit(s % 10)
           /\ s \div 10 \in 0 .. 9 /\ s % 10 \in 0 .. 9
<1>1. PICK q \in 0 .. 9, r \in 0 .. 9 : q = s \div 10 /\ r = s % 10
  <2>1. s \div 10 \in 0 .. 9 /\ s % 10 \in 0 .. 9
    OBVIOUS
  <2> QED
    BY <2>1
<1>2. Digit(q) \in Characters /\ Digit(r) \in Characters
  BY DigitIs
<1>3. TwoDigits(s) = <<Digit(q), Digit(r)>>
  BY <1>1 DEF TwoDigits
<1>4. <<Digit(q), Digit(r)>> \in Seq(Characters)
  BY <1>2, TuplesAreSeqs
<1> QED
  BY <1>1, <1>3, <1>4

LEMMA MinSecIs ==
    ASSUME NEW m \in 0 .. 9, NEW s \in 0 .. 99
    PROVE  /\ MinSec(m, s) \in Seq(Characters) /\ Len(MinSec(m, s)) = 6
           /\ MinSec(m, s)[1] = Digit(m)
           /\ MinSec(m, s)[2] = "m" /\ MinSec(m, s)[3] = " "
           /\ MinSec(m, s)[4] = Digit(s \div 10)
           /\ MinSec(m, s)[5] = Digit(s % 10)
           /\ MinSec(m, s)[6] = "s"
<1> DEFINE minutes == Join(Number(m), MBlank)
           digits == Join(minutes, TwoDigits(s))
           text == Join(digits, SText)
<1>1. /\ Number(m) \in Seq(Characters) /\ Len(Number(m)) = 1
      /\ Number(m)[1] = Digit(m)
  BY OneDigit
<1>2. /\ TwoDigits(s) \in Seq(Characters) /\ Len(TwoDigits(s)) = 2
      /\ TwoDigits(s)[1] = Digit(s \div 10) /\ TwoDigits(s)[2] = Digit(s % 10)
  BY TwoDigitsAre
<1>3. 1 \in Nat /\ 2 \in Nat /\ 3 \in Nat /\ 5 \in Nat
  OBVIOUS
<1>4. Parts(minutes, Number(m), 1, MBlank, 2)
  BY <1>1, <1>3, MBlankIs, Joined
<1> HIDE DEF minutes
<1>5. /\ minutes \in Seq(Characters) /\ Len(minutes) = 3
      /\ minutes[1] = Digit(m) /\ minutes[2] = "m" /\ minutes[3] = " "
  <2>1. /\ minutes \in Seq(Characters) /\ Len(minutes) = 3
        /\ minutes[2] = MBlank[1] /\ minutes[3] = MBlank[2]
    BY <1>4 DEF Parts
  <2>2. minutes[1] = Number(m)[1]
    BY <1>4 DEF Parts
  <2> QED
    BY <1>1, <2>1, <2>2, MBlankIs
<1>6. Parts(digits, minutes, 3, TwoDigits(s), 2)
  BY <1>2, <1>3, <1>5, Joined
<1> HIDE DEF digits
<1>7. /\ digits \in Seq(Characters) /\ Len(digits) = 5
      /\ digits[1] = Digit(m) /\ digits[2] = "m" /\ digits[3] = " "
      /\ digits[4] = TwoDigits(s)[1] /\ digits[5] = TwoDigits(s)[2]
  <2>1. /\ digits \in Seq(Characters) /\ Len(digits) = 5
        /\ digits[4] = TwoDigits(s)[1] /\ digits[5] = TwoDigits(s)[2]
    BY <1>6 DEF Parts
  <2>2. /\ digits[1] = minutes[1] /\ digits[2] = minutes[2]
        /\ digits[3] = minutes[3]
    BY <1>6 DEF Parts
  <2> QED
    BY <1>5, <2>1, <2>2
<1>8. Parts(text, digits, 5, SText, 1)
  BY <1>3, <1>7, STextIs, Joined
<1> HIDE DEF text
<1>9. /\ text \in Seq(Characters) /\ Len(text) = 6
      /\ text[1] = Digit(m) /\ text[2] = "m" /\ text[3] = " "
      /\ text[4] = TwoDigits(s)[1] /\ text[5] = TwoDigits(s)[2]
      /\ text[6] = "s"
  <2>1. text \in Seq(Characters) /\ Len(text) = 6 /\ text[6] = SText[1]
    BY <1>8 DEF Parts
  <2>2. /\ text[1] = digits[1] /\ text[2] = digits[2] /\ text[3] = digits[3]
        /\ text[4] = digits[4] /\ text[5] = digits[5]
    BY <1>8 DEF Parts
  <2> QED
    BY <1>7, <2>1, <2>2, STextIs
<1> QED
  BY <1>2, <1>9 DEF MinSec, text, digits, minutes

(* The six characters of a time. *)
Six(text) == Copied(6, Printed(7, text))

LEMMA SixIs ==
    ASSUME NEW text \in Seq(Characters), Len(text) = 6
    PROVE  /\ \A i \in 1 .. 6 : Six(text)[i] \in Characters
           /\ Six(text)[1] = text[1] /\ Six(text)[2] = text[2]
           /\ Six(text)[3] = text[3] /\ Six(text)[4] = text[4]
           /\ Six(text)[5] = text[5] /\ Six(text)[6] = text[6]
<1>1. 6 \in 1 .. 6 /\ 6 + 1 = 7 /\ 6 \in Nat /\ 6 <= 6
  OBVIOUS
<1>2. \A i \in 1 .. 6 : Copied(6, Printed(7, text))[i] = text[i]
  BY <1>1, FieldIs
<1>3. \A i \in 1 .. 6 : Six(text)[i] = text[i]
  BY <1>2 DEF Six
<1>4. \A i \in 1 .. 6 : Six(text)[i] \in Characters
  <2>1. \A i \in 1 .. 6 : text[i] \in Characters
    BY <1>1, CharactersOf
  <2> QED
    BY <1>3, <2>1
<1>5. /\ 1 \in 1 .. 6 /\ 2 \in 1 .. 6 /\ 3 \in 1 .. 6
      /\ 4 \in 1 .. 6 /\ 5 \in 1 .. 6 /\ 6 \in 1 .. 6
  OBVIOUS
<1> QED
  BY <1>3, <1>4, <1>5

LEMMA TimeIs ==
    ASSUME NEW t \in Nat
    PROVE  /\ t < 60 => FormatTime(t) = Six(Whole(Seconds(t), 5, SText))
           /\ t >= 60 /\ t < 600 => FormatTime(t) = Six(MinSec(Minutes(t), Seconds(t)))
           /\ t >= 600 /\ t < 900 => FormatTime(t) = Six(Whole(Minutes(t), 5, MText))
           /\ t >= 900 => FormatTime(t) = Six(TooLong)
<1>1. FormatTime(t) = Six(TimeText(t))
  BY Zenon DEF FormatTime, Six
<1>2. /\ InSeconds(t) = Whole(Seconds(t), 5, SText)
      /\ InMinutesAndSeconds(t) = MinSec(Minutes(t), Seconds(t))
      /\ InMinutes(t) = Whole(Minutes(t), 5, MText)
  BY TimeForms
<1>3. CASE t < 60
  BY <1>1, <1>2, <1>3 DEF TimeText
<1>4. CASE t >= 60 /\ t < 600
  BY <1>1, <1>2, <1>4 DEF TimeText
<1>5. CASE t >= 600 /\ t < 900
  BY <1>1, <1>2, <1>5 DEF TimeText
<1>6. CASE t >= 900
  BY <1>1, <1>6 DEF TimeText
<1> QED
  BY <1>3, <1>4, <1>5, <1>6

LEMMA WholeSixIs ==
    ASSUME NEW n \in Nat, Width(n) <= 5, NEW unit \in {MText, SText}
    PROVE  /\ \A i \in 1 .. 6 : Six(Whole(n, 5, unit))[i] \in Characters
           /\ Six(Whole(n, 5, unit))[1] = Place(n, 5)
           /\ Six(Whole(n, 5, unit))[2] = Place(n, 4)
           /\ Six(Whole(n, 5, unit))[3] = Place(n, 3)
           /\ Six(Whole(n, 5, unit))[4] = Place(n, 2)
           /\ Six(Whole(n, 5, unit))[5] = Place(n, 1)
           /\ unit = MText => Six(Whole(n, 5, unit))[6] = "m"
           /\ unit = SText => Six(Whole(n, 5, unit))[6] = "s"
<1> DEFINE text == Whole(n, 5, unit)
<1>1. /\ InPlaces(text, n, 5) /\ Len(text) = 6
      /\ unit = MText => text[6] = "m"
      /\ unit = SText => text[6] = "s"
  <2>1. 5 \in 1 .. 9 /\ 5 + 1 = 6
    OBVIOUS
  <2>2. /\ InPlaces(Whole(n, 5, MText), n, 5) /\ Len(Whole(n, 5, MText)) = 6
        /\ Whole(n, 5, MText)[6] = "m"
    BY <2>1, WholeIs
  <2>3. /\ InPlaces(Whole(n, 5, SText), n, 5) /\ Len(Whole(n, 5, SText)) = 6
        /\ Whole(n, 5, SText)[6] = "s"
    BY <2>1, WholeIs
  <2> QED
    BY <2>2, <2>3
<1> HIDE DEF text
<1>2. /\ text \in Seq(Characters)
      /\ text[1] = Place(n, 5) /\ text[2] = Place(n, 4) /\ text[3] = Place(n, 3)
      /\ text[4] = Place(n, 2) /\ text[5] = Place(n, 1)
  BY <1>1 DEF InPlaces
<1>3. /\ \A i \in 1 .. 6 : Six(text)[i] \in Characters
      /\ Six(text)[1] = text[1] /\ Six(text)[2] = text[2]
      /\ Six(text)[3] = text[3] /\ Six(text)[4] = text[4]
      /\ Six(text)[5] = text[5] /\ Six(text)[6] = text[6]
  BY <1>1, <1>2, SixIs
<1> QED
  BY <1>1, <1>2, <1>3 DEF text

LEMMA SixMinSecIs ==
    ASSUME NEW m \in 0 .. 9, NEW s \in 0 .. 99
    PROVE  /\ \A i \in 1 .. 6 : Six(MinSec(m, s))[i] \in Characters
           /\ Six(MinSec(m, s))[1] = Digit(m)
           /\ Six(MinSec(m, s))[2] = "m"
           /\ Six(MinSec(m, s))[4] = Digit(s \div 10)
           /\ Six(MinSec(m, s))[5] = Digit(s % 10)
           /\ Six(MinSec(m, s))[6] = "s"
<1> DEFINE text == MinSec(m, s)
<1>1. /\ text \in Seq(Characters) /\ Len(text) = 6
      /\ text[1] = Digit(m) /\ text[2] = "m"
      /\ text[4] = Digit(s \div 10) /\ text[5] = Digit(s % 10) /\ text[6] = "s"
  BY MinSecIs
<1> HIDE DEF text
<1>2. /\ \A i \in 1 .. 6 : Six(text)[i] \in Characters
      /\ Six(text)[1] = text[1] /\ Six(text)[2] = text[2]
      /\ Six(text)[3] = text[3] /\ Six(text)[4] = text[4]
      /\ Six(text)[5] = text[5] /\ Six(text)[6] = text[6]
  BY <1>1, SixIs
<1> QED
  BY <1>1, <1>2 DEF text

LEMMA TooLongIs ==
    /\ \A i \in 1 .. 6 : Six(TooLong)[i] \in Characters
    /\ Six(TooLong)[3] = ">" /\ Six(TooLong)[6] = "m"
<1>1. /\ TooLong \in Seq(Characters) /\ Len(TooLong) = 6
      /\ TooLong[3] = ">" /\ TooLong[6] = "m"
  BY FixedTextsAre, Zenon
<1>2. /\ \A i \in 1 .. 6 : Six(TooLong)[i] \in Characters
      /\ Six(TooLong)[3] = TooLong[3] /\ Six(TooLong)[6] = TooLong[6]
  BY <1>1, SixIs
<1> QED
  BY <1>1, <1>2

(* Which form a time has shows. *)
TimeForm(t) ==
    IF t < 60 THEN "s" ELSE IF t < 600 THEN "ms" ELSE IF t < 900 THEN "m" ELSE "long"

(* What Time and format_time make of it in that form. *)
AsSeconds(t) ==
    /\ t \in Nat /\ t < 60
    /\ Time(t) = <<"s", t>> /\ Time(t)[2] = t
    /\ FormatTime(t) = Six(Whole(Seconds(t), 5, SText))
AsMinSec(t) ==
    /\ t \in Nat /\ t < 600
    /\ Time(t) = <<"s", t>> /\ Time(t)[2] = t
    /\ FormatTime(t) = Six(MinSec(Minutes(t), Seconds(t)))
AsMinutes(t) ==
    /\ t \in Nat /\ t < 900
    /\ Time(t) = <<"min", Minutes(t)>> /\ Time(t)[2] = Minutes(t)
    /\ FormatTime(t) = Six(Whole(Minutes(t), 5, MText))
AsLong(t) ==
    Time(t) = <<"long">> /\ FormatTime(t) = Six(TooLong)

LEMMA TimeFormIs ==
    ASSUME NEW t \in Nat
    PROVE  /\ TimeForm(t) \in {"s", "ms", "m", "long"}
           /\ Time(t)[1] \in {"s", "min", "long"}
           /\ Time(t)[1] = "s" <=> TimeForm(t) \in {"s", "ms"}
           /\ Time(t)[1] = "min" <=> TimeForm(t) = "m"
           /\ TimeForm(t) = "s" => AsSeconds(t)
           /\ TimeForm(t) = "ms" => AsMinSec(t)
           /\ TimeForm(t) = "m" => AsMinutes(t)
           /\ TimeForm(t) = "long" => AsLong(t)
<1>1. CASE t < 60
  <2>1. /\ TimeForm(t) = "s" /\ Time(t) = <<"s", t>>
        /\ Time(t)[1] = "s" /\ Time(t)[2] = t
    BY <1>1 DEF TimeForm, Time
  <2>2. FormatTime(t) = Six(Whole(Seconds(t), 5, SText))
    BY <1>1, TimeIs
  <2>3. AsSeconds(t)
    BY <1>1, <2>1, <2>2 DEF AsSeconds
  <2> QED
    BY <2>1, <2>3
<1>2. CASE t >= 60 /\ t < 600
  <2>1. /\ TimeForm(t) = "ms" /\ Time(t) = <<"s", t>>
        /\ Time(t)[1] = "s" /\ Time(t)[2] = t
    BY <1>2 DEF TimeForm, Time
  <2>2. FormatTime(t) = Six(MinSec(Minutes(t), Seconds(t)))
    BY <1>2, TimeIs
  <2>3. AsMinSec(t)
    BY <1>2, <2>1, <2>2 DEF AsMinSec
  <2> QED
    BY <2>1, <2>3
<1>3. CASE t >= 600 /\ t < 900
  <2>1. /\ TimeForm(t) = "m" /\ Time(t) = <<"min", Minutes(t)>>
        /\ Time(t)[1] = "min" /\ Time(t)[2] = Minutes(t)
    BY <1>3 DEF TimeForm, Time, Minutes
  <2>2. FormatTime(t) = Six(Whole(Minutes(t), 5, MText))
    BY <1>3, TimeIs
  <2>3. AsMinutes(t)
    BY <1>3, <2>1, <2>2 DEF AsMinutes
  <2> QED
    BY <2>1, <2>3
<1>4. CASE t >= 900
  <2>1. TimeForm(t) = "long" /\ Time(t) = <<"long">> /\ Time(t)[1] = "long"
    BY <1>4 DEF TimeForm, Time
  <2>2. FormatTime(t) = Six(TooLong)
    BY <1>4, TimeIs
  <2>3. AsLong(t)
    BY <2>1, <2>2 DEF AsLong
  <2> QED
    BY <2>1, <2>3
<1> QED
  BY <1>1, <1>2, <1>3, <1>4

LEMMA MinutesAndSeconds ==
    ASSUME NEW t \in Nat
    PROVE  /\ t < 60 => Seconds(t) = t
           /\ Minutes(t) \in Nat
           /\ Seconds(t) \in 0 .. 99
           /\ t < 600 => Minutes(t) \in 0 .. 9
           /\ t < 900 => Minutes(t) < 100
           /\ t = 60 * Minutes(t) + Seconds(t)
<1>1. PICK q \in Nat : q = t \div 60 /\ 60 * q <= t /\ t < 60 * q + 60
  OBVIOUS
<1> QED
  BY <1>1 DEF Minutes, Seconds

LEMMA SecondsText ==
    ASSUME NEW t \in Int, AsSeconds(t)
    PROVE  /\ t \in Nat /\ t < 100000
           /\ \A i \in 1 .. 6 : FormatTime(t)[i] \in Characters
           /\ FormatTime(t)[1] = Place(t, 5) /\ FormatTime(t)[2] = Place(t, 4)
           /\ FormatTime(t)[3] = Place(t, 3) /\ FormatTime(t)[4] = Place(t, 2)
           /\ FormatTime(t)[5] = Place(t, 1)
<1>1. t \in Nat /\ t < 60 /\ FormatTime(t) = Six(Whole(Seconds(t), 5, SText))
  BY DEF AsSeconds
<1>2. Seconds(t) = t
  BY <1>1, MinutesAndSeconds
<1>3. Width(t) <= 5 /\ SText \in {MText, SText}
  BY <1>1, WidthOf
<1>4. FormatTime(t) = Six(Whole(t, 5, SText))
  BY <1>1, <1>2
<1>5. /\ \A i \in 1 .. 6 : FormatTime(t)[i] \in Characters
      /\ FormatTime(t)[1] = Place(t, 5) /\ FormatTime(t)[2] = Place(t, 4)
      /\ FormatTime(t)[3] = Place(t, 3) /\ FormatTime(t)[4] = Place(t, 2)
      /\ FormatTime(t)[5] = Place(t, 1)
  BY <1>1, <1>3, <1>4, WholeSixIs
<1>6. t < 100000
  BY <1>1
<1> QED
  BY <1>1, <1>5, <1>6

LEMMA MinutesText ==
    ASSUME NEW t \in Int, AsMinutes(t)
    PROVE  /\ Minutes(t) \in Nat /\ Minutes(t) < 100000
           /\ \A i \in 1 .. 6 : FormatTime(t)[i] \in Characters
           /\ FormatTime(t)[1] = Place(Minutes(t), 5)
           /\ FormatTime(t)[2] = Place(Minutes(t), 4)
           /\ FormatTime(t)[3] = Place(Minutes(t), 3)
           /\ FormatTime(t)[4] = Place(Minutes(t), 2)
           /\ FormatTime(t)[5] = Place(Minutes(t), 1)
<1>1. t \in Nat /\ t < 900 /\ FormatTime(t) = Six(Whole(Minutes(t), 5, MText))
  BY DEF AsMinutes
<1>2. Minutes(t) \in Nat /\ Minutes(t) < 100
  BY <1>1, MinutesAndSeconds
<1>3. Width(Minutes(t)) <= 5 /\ MText \in {MText, SText}
  BY <1>2, WidthOf
<1>4. /\ \A i \in 1 .. 6 : FormatTime(t)[i] \in Characters
      /\ FormatTime(t)[1] = Place(Minutes(t), 5)
      /\ FormatTime(t)[2] = Place(Minutes(t), 4)
      /\ FormatTime(t)[3] = Place(Minutes(t), 3)
      /\ FormatTime(t)[4] = Place(Minutes(t), 2)
      /\ FormatTime(t)[5] = Place(Minutes(t), 1)
  BY <1>1, <1>2, <1>3, WholeSixIs
<1>5. Minutes(t) < 100000
  BY <1>2
<1> QED
  BY <1>2, <1>4, <1>5

LEMMA MinSecText ==
    ASSUME NEW t \in Int, AsMinSec(t)
    PROVE  /\ Minutes(t) \in 0 .. 9 /\ Seconds(t) \in 0 .. 99
           /\ t = 60 * Minutes(t) + Seconds(t)
           /\ \A i \in 1 .. 6 : FormatTime(t)[i] \in Characters
           /\ FormatTime(t)[1] = Digit(Minutes(t))
           /\ FormatTime(t)[4] = Digit(Seconds(t) \div 10)
           /\ FormatTime(t)[5] = Digit(Seconds(t) % 10)
<1>1. t \in Nat /\ t < 600 /\ FormatTime(t) = Six(MinSec(Minutes(t), Seconds(t)))
  BY DEF AsMinSec
<1>2. Minutes(t) \in 0 .. 9 /\ Seconds(t) \in 0 .. 99
  BY <1>1, MinutesAndSeconds
<1>3. t = 60 * Minutes(t) + Seconds(t)
  BY <1>1, MinutesAndSeconds
<1>4. /\ \A i \in 1 .. 6 : FormatTime(t)[i] \in Characters
      /\ FormatTime(t)[1] = Digit(Minutes(t))
      /\ FormatTime(t)[4] = Digit(Seconds(t) \div 10)
      /\ FormatTime(t)[5] = Digit(Seconds(t) % 10)
  BY <1>1, <1>2, SixMinSecIs
<1> QED
  BY <1>2, <1>3, <1>4

LEMMA TimeFormShows ==
    ASSUME NEW t \in Nat
    PROVE  LET text == FormatTime(t)
           IN  /\ \A i \in 1 .. 6 : text[i] \in Characters
               /\ \/ TimeForm(t) = "s" /\ text[2] # "m" /\ text[6] = "s"
                  \/ TimeForm(t) = "ms" /\ text[2] = "m" /\ text[6] = "s"
                  \/ TimeForm(t) = "m" /\ text[3] # ">" /\ text[6] = "m"
                  \/ TimeForm(t) = "long" /\ text[3] = ">" /\ text[6] = "m"
<1> DEFINE text == FormatTime(t)
<1>1. TimeForm(t) \in {"s", "ms", "m", "long"}
  BY TimeFormIs
<1>2. CASE TimeForm(t) = "s"
  <2>1. text = Six(Whole(Seconds(t), 5, SText)) /\ t < 60
    BY <1>2, TimeFormIs DEF AsSeconds
  <2>2. Seconds(t) \in Nat /\ Seconds(t) < 60
    BY <2>1, MinutesAndSeconds
  <2>3. Width(Seconds(t)) <= 5 /\ SText \in {MText, SText} /\ 4 \in 1 .. 10
    BY <2>2, WidthOf
  <2> HIDE DEF text
  <2>4. /\ text[2] = Place(Seconds(t), 4) /\ text[6] = "s"
        /\ \A i \in 1 .. 6 : text[i] \in Characters
    BY <2>1, <2>2, <2>3, WholeSixIs
  <2>5. Place(Seconds(t), 4) # "m"
    BY <2>2, <2>3, PlaceIsNot
  <2> QED
    BY <1>2, <2>4, <2>5 DEF text
<1>3. CASE TimeForm(t) = "ms"
  <2>1. text = Six(MinSec(Minutes(t), Seconds(t))) /\ t < 600
    BY <1>3, TimeFormIs DEF AsMinSec
  <2>2. Minutes(t) \in 0 .. 9 /\ Seconds(t) \in 0 .. 99
    BY <2>1, MinutesAndSeconds
  <2> HIDE DEF text
  <2>3. /\ text[2] = "m" /\ text[6] = "s"
        /\ \A i \in 1 .. 6 : text[i] \in Characters
    BY <2>1, <2>2, SixMinSecIs
  <2> QED
    BY <1>3, <2>3 DEF text
<1>4. CASE TimeForm(t) = "m"
  <2>1. text = Six(Whole(Minutes(t), 5, MText)) /\ t < 900
    BY <1>4, TimeFormIs DEF AsMinutes
  <2>2. Minutes(t) \in Nat /\ Minutes(t) < 100
    BY <2>1, MinutesAndSeconds
  <2>3. Width(Minutes(t)) <= 5 /\ MText \in {MText, SText} /\ 3 \in 1 .. 10
    BY <2>2, WidthOf
  <2> HIDE DEF text
  <2>4. /\ text[3] = Place(Minutes(t), 3) /\ text[6] = "m"
        /\ \A i \in 1 .. 6 : text[i] \in Characters
    BY <2>1, <2>2, <2>3, WholeSixIs
  <2>5. Place(Minutes(t), 3) # ">"
    BY <2>2, <2>3, PlaceIsNot
  <2> QED
    BY <1>4, <2>4, <2>5 DEF text
<1>5. CASE TimeForm(t) = "long"
  <2>1. text = Six(TooLong)
    BY <1>5, TimeFormIs DEF AsLong
  <2> HIDE DEF text
  <2>2. /\ text[3] = ">" /\ text[6] = "m"
        /\ \A i \in 1 .. 6 : text[i] \in Characters
    BY <2>1, TooLongIs
  <2> QED
    BY <1>5, <2>2 DEF text
<1> QED
  BY <1>1, <1>2, <1>3, <1>4, <1>5

(* Two times are shown alike if and only if they are the same to the       *)
(* accuracy of their form.                                                 *)
LEMMA SameTime ==
    ASSUME NEW a \in Nat, NEW b \in Nat, Time(a) = Time(b)
    PROVE  FormatTime(a) = FormatTime(b)
<1>1. TimeForm(a) \in {"s", "ms", "m", "long"}
  BY TimeFormIs
<1>2. CASE TimeForm(a) \in {"s", "ms"}
  <2>1. TimeForm(b) \in {"s", "ms"}
    BY <1>2, TimeFormIs
  <2>2. Time(a)[2] = a
    BY <1>2, TimeFormIs DEF AsSeconds, AsMinSec
  <2>3. Time(b)[2] = b
    BY <2>1, TimeFormIs DEF AsSeconds, AsMinSec
  <2> QED
    BY <2>2, <2>3
<1>3. CASE TimeForm(a) = "m"
  <2>1. TimeForm(b) = "m"
    BY <1>3, TimeFormIs
  <2>2. AsMinutes(a) /\ AsMinutes(b)
    BY <1>3, <2>1, TimeFormIs
  <2>3. Minutes(a) = Minutes(b)
    BY <2>2 DEF AsMinutes
  <2> QED
    BY <2>2, <2>3 DEF AsMinutes
<1>4. CASE TimeForm(a) = "long"
  <2>1. TimeForm(b) = "long"
    BY <1>4, TimeFormIs
  <2>2. AsLong(a) /\ AsLong(b)
    BY <1>4, <2>1, TimeFormIs
  <2> QED
    BY <2>2 DEF AsLong
<1> QED
  BY <1>1, <1>2, <1>3, <1>4

LEMMA SameTimeText ==
    ASSUME NEW a \in Nat, NEW b \in Nat, FormatTime(a) = FormatTime(b)
    PROVE  Time(a) = Time(b)
<1>1. TimeForm(a) \in {"s", "ms", "m", "long"} /\ TimeForm(a) = TimeForm(b)
  BY TimeFormShows
<1>2. CASE TimeForm(a) = "s"
  <2>1. AsSeconds(a) /\ AsSeconds(b)
    BY <1>1, <1>2, TimeFormIs
  <2>2. /\ a < 100000
        /\ FormatTime(a)[1] = Place(a, 5) /\ FormatTime(a)[2] = Place(a, 4)
        /\ FormatTime(a)[3] = Place(a, 3) /\ FormatTime(a)[4] = Place(a, 2)
        /\ FormatTime(a)[5] = Place(a, 1)
    BY <2>1, SecondsText
  <2>3. /\ b < 100000
        /\ FormatTime(b)[1] = Place(b, 5) /\ FormatTime(b)[2] = Place(b, 4)
        /\ FormatTime(b)[3] = Place(b, 3) /\ FormatTime(b)[4] = Place(b, 2)
        /\ FormatTime(b)[5] = Place(b, 1)
    BY <2>1, SecondsText
  <2>4. /\ Place(a, 1) = Place(b, 1) /\ Place(a, 2) = Place(b, 2)
        /\ Place(a, 3) = Place(b, 3) /\ Place(a, 4) = Place(b, 4)
        /\ Place(a, 5) = Place(b, 5)
    BY <2>2, <2>3
  <2>5. a < 100000 /\ b < 100000
    BY <2>2, <2>3
  <2>6. a = b
    BY <2>4, <2>5, FivePlacesTell
  <2> QED
    BY <2>6
<1>3. CASE TimeForm(a) = "ms"
  <2>1. AsMinSec(a) /\ AsMinSec(b)
    BY <1>1, <1>3, TimeFormIs
  <2>2. /\ Minutes(a) \in 0 .. 9 /\ Seconds(a) \in 0 .. 99
        /\ FormatTime(a)[1] = Digit(Minutes(a))
        /\ FormatTime(a)[4] = Digit(Seconds(a) \div 10)
        /\ FormatTime(a)[5] = Digit(Seconds(a) % 10)
    BY <2>1, MinSecText
  <2>3. /\ Minutes(b) \in 0 .. 9 /\ Seconds(b) \in 0 .. 99
        /\ FormatTime(b)[1] = Digit(Minutes(b))
        /\ FormatTime(b)[4] = Digit(Seconds(b) \div 10)
        /\ FormatTime(b)[5] = Digit(Seconds(b) % 10)
    BY <2>1, MinSecText
  <2>4. /\ Digit(Minutes(a)) = Digit(Minutes(b))
        /\ Digit(Seconds(a) \div 10) = Digit(Seconds(b) \div 10)
        /\ Digit(Seconds(a) % 10) = Digit(Seconds(b) % 10)
    BY <2>2, <2>3
  <2>5. Minutes(a) = Minutes(b)
    BY <2>2, <2>3, <2>4, DigitsDiffer
  <2>6. Seconds(a) = Seconds(b)
    <3>1. /\ Seconds(a) \div 10 \in 0 .. 9 /\ Seconds(a) % 10 \in 0 .. 9
          /\ Seconds(b) \div 10 \in 0 .. 9 /\ Seconds(b) % 10 \in 0 .. 9
      BY <2>2, <2>3
    <3>2. Seconds(a) \div 10 = Seconds(b) \div 10 /\ Seconds(a) % 10 = Seconds(b) % 10
      BY <2>4, <3>1, DigitsDiffer
    <3> QED
      BY <2>2, <2>3, <3>2
  <2>7. a = 60 * Minutes(a) + Seconds(a) /\ b = 60 * Minutes(b) + Seconds(b)
    BY <2>1, MinSecText
  <2>8. a = b
    BY <2>5, <2>6, <2>7
  <2> QED
    BY <2>8
<1>4. CASE TimeForm(a) = "m"
  <2>1. AsMinutes(a) /\ AsMinutes(b)
    BY <1>1, <1>4, TimeFormIs
  <2>2. /\ Minutes(a) \in Nat /\ Minutes(a) < 100000
        /\ FormatTime(a)[1] = Place(Minutes(a), 5) /\ FormatTime(a)[2] = Place(Minutes(a), 4)
        /\ FormatTime(a)[3] = Place(Minutes(a), 3) /\ FormatTime(a)[4] = Place(Minutes(a), 2)
        /\ FormatTime(a)[5] = Place(Minutes(a), 1)
    BY <2>1, MinutesText
  <2>3. /\ Minutes(b) \in Nat /\ Minutes(b) < 100000
        /\ FormatTime(b)[1] = Place(Minutes(b), 5) /\ FormatTime(b)[2] = Place(Minutes(b), 4)
        /\ FormatTime(b)[3] = Place(Minutes(b), 3) /\ FormatTime(b)[4] = Place(Minutes(b), 2)
        /\ FormatTime(b)[5] = Place(Minutes(b), 1)
    BY <2>1, MinutesText
  <2>4. /\ Place(Minutes(a), 1) = Place(Minutes(b), 1) /\ Place(Minutes(a), 2) = Place(Minutes(b), 2)
        /\ Place(Minutes(a), 3) = Place(Minutes(b), 3) /\ Place(Minutes(a), 4) = Place(Minutes(b), 4)
        /\ Place(Minutes(a), 5) = Place(Minutes(b), 5)
    BY <2>2, <2>3
  <2>5. Minutes(a) \in Nat /\ Minutes(a) < 100000 /\ Minutes(b) \in Nat /\ Minutes(b) < 100000
    BY <2>2, <2>3
  <2>6. Minutes(a) = Minutes(b)
    BY <2>4, <2>5, FivePlacesTell
  <2> QED
    BY <2>1, <2>6 DEF AsMinutes
<1>5. CASE TimeForm(a) = "long"
  <2>1. AsLong(a) /\ AsLong(b)
    BY <1>1, <1>5, TimeFormIs
  <2> QED
    BY <2>1 DEF AsLong
<1> QED
  BY <1>1, <1>2, <1>3, <1>4, <1>5

LEMMA TimeTells ==
    ASSUME NEW a \in Nat, NEW b \in Nat
    PROVE  FormatTime(a) = FormatTime(b) <=> Time(a) = Time(b)
  BY SameTime, SameTimeText

-------------------------------------------------------------------------------
(* The age. *)
LEMMA TwoDigitNumber ==
    ASSUME NEW n \in 10 .. 99
    PROVE  /\ Number(n) \in Seq(Characters) /\ Len(Number(n)) = 2
           /\ Number(n)[1] = Digit(n \div 10) /\ Number(n)[2] = Digit(n % 10)
<1>1. n \in Nat /\ ~(n < 10) /\ n < 100
  OBVIOUS
<1>2. Width(n) = 2
  <2>1. Width(n) \in 1 .. 10 /\ ~(Width(n) <= 1) /\ Width(n) <= 2
    BY <1>1, WidthIs, WidthOf
  <2> QED
    BY <2>1
<1>3. /\ Number(n) \in Seq(Characters)
      /\ Len(Number(n)) = Width(n)
      /\ \A i \in 1 .. Width(n) :
            Number(n)[i] = Digit((n \div Power[Width(n) + 1 - i]) % 10)
  BY <1>1, NumberIs
<1>4. Number(n)[1] = Digit((n \div Power[2]) % 10)
  <2>1. 1 \in 1 .. 2 /\ 2 + 1 - 1 = 2
    OBVIOUS
  <2> QED
    BY <1>2, <1>3, <2>1
<1>5. Number(n)[2] = Digit((n \div Power[1]) % 10)
  <2>1. 2 \in 1 .. 2 /\ 2 + 1 - 2 = 1
    OBVIOUS
  <2> QED
    BY <1>2, <1>3, <2>1
<1>6. n \div 1 = n /\ (n \div 10) % 10 = n \div 10
  OBVIOUS
<1> QED
  BY <1>2, <1>3, <1>4, <1>5, <1>6, PowerIs

Filled(text) ==
    Copied(3, [Printed(4, text) EXCEPT ![3] = IF @ = "NUL" THEN " " ELSE @])

LEMMA FilledIs ==
    ASSUME NEW text \in Seq(Characters), NEW l \in {2, 3}, Len(text) = l,
           l = 3 => text[3] # "NUL"
    PROVE  /\ Filled(text)[1] = text[1] /\ Filled(text)[2] = text[2]
           /\ l = 2 => Filled(text)[3] = " "
           /\ l = 3 => Filled(text)[3] = text[3]
<1> DEFINE buffer == Printed(4, text)
           new == [buffer EXCEPT ![3] = IF @ = "NUL" THEN " " ELSE @]
<1>1. buffer = [i \in 1 .. 4 |-> IF i > l + 1 THEN "stack"
                ELSE IF i = l + 1 \/ i = 4 THEN "NUL" ELSE text[i]]
  BY DEF Printed
<1> HIDE DEF buffer
<1>2. /\ buffer[1] = text[1] /\ buffer[2] = text[2]
      /\ l = 2 => buffer[3] = "NUL"
      /\ l = 3 => buffer[3] = text[3]
      /\ DOMAIN buffer = 1 .. 4
  BY <1>1
<1>3. /\ new[1] = buffer[1] /\ new[2] = buffer[2]
      /\ new[3] = IF buffer[3] = "NUL" THEN " " ELSE buffer[3]
  BY <1>2
<1> HIDE DEF new
<1>4. Filled(text)[1] = new[1] /\ Filled(text)[2] = new[2] /\ Filled(text)[3] = new[3]
  <2>1. Filled(text) = Copied(3, new)
    BY DEF Filled, new, buffer
  <2>2. 3 \in 1 .. 6 /\ 1 \in 1 .. 3 /\ 2 \in 1 .. 3 /\ 3 \in 1 .. 3
    OBVIOUS
  <2>3. \A i \in 1 .. 3 : Copied(3, new)[i] = new[i]
    BY <2>2, CopiedIs
  <2> QED
    BY <2>1, <2>2, <2>3
<1> QED
  BY <1>2, <1>3, <1>4

Unit(n, unit) == Join(Number(n), unit)

LEMMA AgeForms ==
    ASSUME NEW s
    PROVE  SecondsOld(s) = Unit(s, SText) /\ MinutesOld(s) = Unit(s \div 60, MText)
  BY Zenon DEF SecondsOld, MinutesOld, Unit, Join, SText, MText

LEMMA OneAndUnit ==
    ASSUME NEW n \in 0 .. 9, NEW unit \in Seq(Characters), Len(unit) = 1
    PROVE  /\ Filled(Unit(n, unit))[1] = Digit(n)
           /\ Filled(Unit(n, unit))[2] = unit[1]
           /\ Filled(Unit(n, unit))[3] = " "
<1> DEFINE text == Unit(n, unit)
<1>1. /\ Number(n) \in Seq(Characters) /\ Len(Number(n)) = 1
      /\ Number(n)[1] = Digit(n)
  BY OneDigit
<1>2. Parts(text, Number(n), 1, unit, 1)
  <2>1. 1 \in Nat
    OBVIOUS
  <2> QED
    BY <1>1, <2>1, Joined DEF Unit
<1> HIDE DEF text
<1>3. text \in Seq(Characters) /\ Len(text) = 2 /\ text[2] = unit[1]
  BY <1>2 DEF Parts
<1>4. text[1] = Number(n)[1]
  BY <1>2 DEF Parts
<1>5. Filled(text)[1] = text[1] /\ Filled(text)[2] = text[2] /\ Filled(text)[3] = " "
  <2>1. 2 \in {2, 3} /\ (2 = 3 => text[3] # "NUL")
    OBVIOUS
  <2> QED
    BY <1>3, <2>1, FilledIs
<1> QED
  BY <1>1, <1>3, <1>4, <1>5 DEF text

LEMMA TwoAndUnit ==
    ASSUME NEW n \in 10 .. 99
    PROVE  /\ Filled(Unit(n, SText))[1] = Digit(n \div 10)
           /\ Filled(Unit(n, SText))[2] = Digit(n % 10)
           /\ Filled(Unit(n, SText))[3] = "s"
<1> DEFINE text == Unit(n, SText)
<1>1. /\ Number(n) \in Seq(Characters) /\ Len(Number(n)) = 2
      /\ Number(n)[1] = Digit(n \div 10) /\ Number(n)[2] = Digit(n % 10)
  BY TwoDigitNumber
<1>2. Parts(text, Number(n), 2, SText, 1)
  <2>1. 1 \in Nat /\ 2 \in Nat
    OBVIOUS
  <2> QED
    BY <1>1, <2>1, STextIs, Joined DEF Unit
<1> HIDE DEF text
<1>3. text \in Seq(Characters) /\ Len(text) = 3 /\ text[3] = SText[1]
  BY <1>2 DEF Parts
<1>4. text[1] = Number(n)[1] /\ text[2] = Number(n)[2]
  BY <1>2 DEF Parts
<1>5. SText[1] = "s" /\ SText[1] # "NUL"
  BY STextIs
<1>6. /\ Filled(text)[1] = text[1] /\ Filled(text)[2] = text[2]
      /\ Filled(text)[3] = text[3]
  <2>1. 3 \in {2, 3} /\ text[3] # "NUL"
    BY <1>3, <1>5
  <2> QED
    BY <1>3, <2>1, FilledIs
<1> QED
  BY <1>1, <1>3, <1>4, <1>5, <1>6 DEF text

LEMMA TooOldIs ==
    Filled(TooOld)[1] = ">" /\ Filled(TooOld)[2] = "9" /\ Filled(TooOld)[3] = "m"
<1>1. TooOld \in Seq(Characters) /\ Len(TooOld) = 3
  BY FixedTextsAre, Zenon
<1>2. TooOld[1] = ">" /\ TooOld[2] = "9" /\ TooOld[3] = "m"
  BY DEF TooOld
<1>3. /\ Filled(TooOld)[1] = TooOld[1] /\ Filled(TooOld)[2] = TooOld[2]
      /\ Filled(TooOld)[3] = TooOld[3]
  <2>1. 3 \in {2, 3} /\ TooOld[3] # "NUL"
    BY <1>2
  <2> QED
    BY <1>1, <2>1, FilledIs
<1> QED
  BY <1>2, <1>3

AgeForm(s) ==
    IF s < 10 THEN "s" ELSE IF s < 60 THEN "ss" ELSE IF s < 540 THEN "m" ELSE "old"

(* What Age and format_elapsed make of it in that form. *)
AsOneDigit(s) ==
    /\ s \in 0 .. 9
    /\ Age(s) = <<"s", s>> /\ Age(s)[2] = s
    /\ FormatElapsed(s) = Filled(Unit(s, SText))
AsTwoDigits(s) ==
    /\ s \in 10 .. 99
    /\ Age(s) = <<"s", s>> /\ Age(s)[2] = s
    /\ FormatElapsed(s) = Filled(Unit(s, SText))
AsMinutesOld(s) ==
    /\ s \div 60 \in 0 .. 9
    /\ Age(s) = <<"min", s \div 60>> /\ Age(s)[2] = s \div 60
    /\ FormatElapsed(s) = Filled(Unit(s \div 60, MText))
AsOld(s) ==
    Age(s) = <<"old">> /\ FormatElapsed(s) = Filled(TooOld)

LEMMA AgeFormIs ==
    ASSUME NEW s \in Nat
    PROVE  /\ AgeForm(s) \in {"s", "ss", "m", "old"}
           /\ Age(s)[1] \in {"s", "min", "old"}
           /\ Age(s)[1] = "s" <=> AgeForm(s) \in {"s", "ss"}
           /\ Age(s)[1] = "min" <=> AgeForm(s) = "m"
           /\ AgeForm(s) = "s" => AsOneDigit(s)
           /\ AgeForm(s) = "ss" => AsTwoDigits(s)
           /\ AgeForm(s) = "m" => AsMinutesOld(s)
           /\ AgeForm(s) = "old" => AsOld(s)
<1>1. FormatElapsed(s) = Filled(ElapsedText(s))
  BY Zenon DEF FormatElapsed, Filled
<1>2. SecondsOld(s) = Unit(s, SText) /\ MinutesOld(s) = Unit(s \div 60, MText)
  BY AgeForms
<1>3. CASE s < 10
  <2>1. /\ AgeForm(s) = "s" /\ Age(s) = <<"s", s>> /\ s \in 0 .. 9
        /\ Age(s)[1] = "s" /\ Age(s)[2] = s
    BY <1>3 DEF AgeForm, Age
  <2>2. ElapsedText(s) = Unit(s, SText)
    BY <1>2, <1>3 DEF ElapsedText
  <2>3. AsOneDigit(s)
    BY <1>1, <2>1, <2>2 DEF AsOneDigit
  <2> QED
    BY <2>1, <2>3
<1>4. CASE s >= 10 /\ s < 60
  <2>1. /\ AgeForm(s) = "ss" /\ Age(s) = <<"s", s>> /\ s \in 10 .. 99
        /\ Age(s)[1] = "s" /\ Age(s)[2] = s
    BY <1>4 DEF AgeForm, Age
  <2>2. ElapsedText(s) = Unit(s, SText)
    BY <1>2, <1>4 DEF ElapsedText
  <2>3. AsTwoDigits(s)
    BY <1>1, <2>1, <2>2 DEF AsTwoDigits
  <2> QED
    BY <2>1, <2>3
<1>5. CASE s >= 60 /\ s < 540
  <2>1. /\ AgeForm(s) = "m" /\ Age(s) = <<"min", s \div 60>>
        /\ Age(s)[1] = "min" /\ Age(s)[2] = s \div 60
    BY <1>5 DEF AgeForm, Age
  <2>2. ElapsedText(s) = Unit(s \div 60, MText)
    BY <1>2, <1>5 DEF ElapsedText
  <2>3. s \div 60 \in 0 .. 9
    BY <1>5
  <2>4. AsMinutesOld(s)
    BY <1>1, <2>1, <2>2, <2>3 DEF AsMinutesOld
  <2> QED
    BY <2>1, <2>4
<1>6. CASE s >= 540
  <2>1. AgeForm(s) = "old" /\ Age(s) = <<"old">> /\ Age(s)[1] = "old"
    BY <1>6 DEF AgeForm, Age
  <2>2. ElapsedText(s) = TooOld
    BY <1>6 DEF ElapsedText
  <2>3. AsOld(s)
    BY <1>1, <2>1, <2>2 DEF AsOld
  <2> QED
    BY <2>1, <2>3
<1> QED
  BY <1>3, <1>4, <1>5, <1>6

(* Three characters. *)
Three(text, a, b, c) == text[1] = a /\ text[2] = b /\ text[3] = c

LEMMA ThreeCharacters ==
    ASSUME NEW text, NEW a \in Characters, NEW b \in Characters, NEW c \in Characters,
           Three(text, a, b, c)
    PROVE  \A i \in 1 .. 3 : text[i] \in Characters
<1>1. \A i \in {1, 2, 3} : text[i] \in Characters
  BY DEF Three
<1>2. \A i \in 1 .. 3 : i \in {1, 2, 3}
  OBVIOUS
<1> QED
  BY <1>1, <1>2

LEMMA SameThree ==
    ASSUME NEW text, NEW a, NEW b, NEW c, NEW p, NEW q, NEW r,
           Three(text, a, b, c), Three(text, p, q, r)
    PROVE  a = p /\ b = q /\ c = r
  BY DEF Three

LEMMA OneDigitText ==
    ASSUME NEW s \in Int, AsOneDigit(s)
    PROVE  Three(FormatElapsed(s), Digit(s), "s", " ")
<1>1. s \in 0 .. 9 /\ FormatElapsed(s) = Filled(Unit(s, SText))
  BY DEF AsOneDigit
<1>2. /\ Filled(Unit(s, SText))[1] = Digit(s)
      /\ Filled(Unit(s, SText))[2] = SText[1]
      /\ Filled(Unit(s, SText))[3] = " "
  BY <1>1, STextIs, OneAndUnit
<1> QED
  BY <1>1, <1>2, STextIs DEF Three

LEMMA TwoDigitText ==
    ASSUME NEW s \in Int, AsTwoDigits(s)
    PROVE  /\ s \in 10 .. 99
           /\ Three(FormatElapsed(s), Digit(s \div 10), Digit(s % 10), "s")
<1>1. s \in 10 .. 99 /\ FormatElapsed(s) = Filled(Unit(s, SText))
  BY DEF AsTwoDigits
<1>2. /\ Filled(Unit(s, SText))[1] = Digit(s \div 10)
      /\ Filled(Unit(s, SText))[2] = Digit(s % 10)
      /\ Filled(Unit(s, SText))[3] = "s"
  BY <1>1, TwoAndUnit
<1> QED
  BY <1>1, <1>2 DEF Three

LEMMA MinutesOldText ==
    ASSUME NEW s \in Int, AsMinutesOld(s)
    PROVE  Three(FormatElapsed(s), Digit(s \div 60), "m", " ")
<1>1. s \div 60 \in 0 .. 9 /\ FormatElapsed(s) = Filled(Unit(s \div 60, MText))
  BY DEF AsMinutesOld
<1> DEFINE n == s \div 60
<1>2. n \in 0 .. 9
  BY <1>1
<1> HIDE DEF n
<1>3. /\ Filled(Unit(n, MText))[1] = Digit(n)
      /\ Filled(Unit(n, MText))[2] = MText[1]
      /\ Filled(Unit(n, MText))[3] = " "
  BY <1>2, MTextIs, OneAndUnit
<1> QED
  BY <1>1, <1>3, MTextIs DEF n, Three

LEMMA OldText ==
    ASSUME NEW s, AsOld(s)
    PROVE  Three(FormatElapsed(s), ">", "9", "m")
  BY TooOldIs DEF AsOld, Three

LEMMA AgeFormShows ==
    ASSUME NEW s \in Nat
    PROVE  LET text == FormatElapsed(s)
           IN  /\ \A i \in 1 .. 3 : text[i] \in Characters
               /\ \/ AgeForm(s) = "s" /\ text[1] # ">" /\ text[2] = "s"
                  \/ AgeForm(s) = "ss" /\ text[1] # ">" /\ text[2] \notin {"s", "m"}
                  \/ AgeForm(s) = "m" /\ text[1] # ">" /\ text[2] = "m"
                  \/ AgeForm(s) = "old" /\ text[1] = ">"
<1> DEFINE text == FormatElapsed(s)
<1>0. s \in Int
  OBVIOUS
<1>1. AgeForm(s) \in {"s", "ss", "m", "old"}
  BY AgeFormIs
<1>2. CASE AgeForm(s) = "s"
  <2>1. AsOneDigit(s)
    BY <1>2, AgeFormIs
  <2>2. Three(text, Digit(s), "s", " ")
    BY <1>0, <2>1, OneDigitText, Zenon
  <2>3. Digit(s) \in Characters /\ Digit(s) # ">"
    BY <2>1, DigitIs DEF AsOneDigit
  <2> HIDE DEF text
  <2>4. \A i \in 1 .. 3 : text[i] \in Characters
    BY <2>2, <2>3, SignsAre, ThreeCharacters
  <2>5. text[1] = Digit(s) /\ text[2] = "s"
    BY <2>2 DEF Three
  <2> QED
    BY <1>2, <2>3, <2>4, <2>5 DEF text
<1>3. CASE AgeForm(s) = "ss"
  <2>1. AsTwoDigits(s)
    BY <1>3, AgeFormIs
  <2>2. s \in 10 .. 99 /\ Three(text, Digit(s \div 10), Digit(s % 10), "s")
    BY <2>1, TwoDigitText
  <2>3. s \div 10 \in 0 .. 9 /\ s % 10 \in 0 .. 9
    BY <2>2
  <2>4. /\ Digit(s \div 10) \in Characters /\ Digit(s \div 10) # ">"
        /\ Digit(s % 10) \in Characters /\ Digit(s % 10) \notin {"s", "m"}
    BY <2>3, DigitIs
  <2> HIDE DEF text
  <2>5. \A i \in 1 .. 3 : text[i] \in Characters
    BY <2>2, <2>4, SignsAre, ThreeCharacters
  <2>6. text[1] = Digit(s \div 10) /\ text[2] = Digit(s % 10)
    BY <2>2 DEF Three
  <2> QED
    BY <1>3, <2>4, <2>5, <2>6 DEF text
<1>4. CASE AgeForm(s) = "m"
  <2>1. AsMinutesOld(s)
    BY <1>4, AgeFormIs
  <2>2. Three(text, Digit(s \div 60), "m", " ")
    BY <1>0, <2>1, MinutesOldText, Zenon
  <2>3. Digit(s \div 60) \in Characters /\ Digit(s \div 60) # ">"
    BY <2>1, DigitIs DEF AsMinutesOld
  <2> HIDE DEF text
  <2>4. \A i \in 1 .. 3 : text[i] \in Characters
    BY <2>2, <2>3, SignsAre, ThreeCharacters
  <2>5. text[1] = Digit(s \div 60) /\ text[2] = "m"
    BY <2>2 DEF Three
  <2> QED
    BY <1>4, <2>3, <2>4, <2>5 DEF text
<1>5. CASE AgeForm(s) = "old"
  <2>1. AsOld(s)
    BY <1>5, AgeFormIs
  <2>2. Three(text, ">", "9", "m")
    BY <2>1, OldText
  <2> HIDE DEF text
  <2>3. \A i \in 1 .. 3 : text[i] \in Characters
    BY <2>2, SignsAre, FiguresAre, ThreeCharacters
  <2>4. text[1] = ">"
    BY <2>2 DEF Three
  <2> QED
    BY <1>5, <2>3, <2>4 DEF text
<1> QED
  BY <1>1, <1>2, <1>3, <1>4, <1>5

(* Two ages are shown alike if and only if they are the same to the        *)
(* accuracy of their form.                                                 *)
LEMMA SameAge ==
    ASSUME NEW a \in Nat, NEW b \in Nat, Age(a) = Age(b)
    PROVE  FormatElapsed(a) = FormatElapsed(b)
<1>1. AgeForm(a) \in {"s", "ss", "m", "old"}
  BY AgeFormIs
<1>2. CASE AgeForm(a) \in {"s", "ss"}
  <2>1. AgeForm(b) \in {"s", "ss"}
    BY <1>2, AgeFormIs
  <2>2. Age(a)[2] = a
    BY <1>2, AgeFormIs DEF AsOneDigit, AsTwoDigits
  <2>3. Age(b)[2] = b
    BY <2>1, AgeFormIs DEF AsOneDigit, AsTwoDigits
  <2> QED
    BY <2>2, <2>3
<1>3. CASE AgeForm(a) = "m"
  <2>1. AgeForm(b) = "m"
    BY <1>3, AgeFormIs
  <2>2. AsMinutesOld(a) /\ AsMinutesOld(b)
    BY <1>3, <2>1, AgeFormIs
  <2>3. a \div 60 = b \div 60
    BY <2>2 DEF AsMinutesOld
  <2> QED
    BY <2>2, <2>3 DEF AsMinutesOld
<1>4. CASE AgeForm(a) = "old"
  <2>1. AgeForm(b) = "old"
    BY <1>4, AgeFormIs
  <2>2. AsOld(a) /\ AsOld(b)
    BY <1>4, <2>1, AgeFormIs
  <2> QED
    BY <2>2 DEF AsOld
<1> QED
  BY <1>1, <1>2, <1>3, <1>4

LEMMA SameAgeText ==
    ASSUME NEW a \in Nat, NEW b \in Nat, FormatElapsed(a) = FormatElapsed(b)
    PROVE  Age(a) = Age(b)
<1>0. a \in Int /\ b \in Int
  OBVIOUS
<1>1. AgeForm(a) \in {"s", "ss", "m", "old"} /\ AgeForm(a) = AgeForm(b)
  BY AgeFormShows
<1>2. CASE AgeForm(a) = "s"
  <2>1. AsOneDigit(a) /\ AsOneDigit(b)
    BY <1>1, <1>2, AgeFormIs
  <2>2. /\ Three(FormatElapsed(a), Digit(a), "s", " ")
        /\ Three(FormatElapsed(a), Digit(b), "s", " ")
    BY <1>0, <2>1, OneDigitText, Zenon
  <2>3. Digit(a) = Digit(b)
    BY <2>2, SameThree, Zenon
  <2>4. a = b
    BY <2>1, <2>3, DigitsDiffer DEF AsOneDigit
  <2> QED
    BY <2>4
<1>3. CASE AgeForm(a) = "ss"
  <2>1. AsTwoDigits(a) /\ AsTwoDigits(b)
    BY <1>1, <1>3, AgeFormIs
  <2>2. /\ a \in 10 .. 99
        /\ Three(FormatElapsed(a), Digit(a \div 10), Digit(a % 10), "s")
        /\ b \in 10 .. 99
        /\ Three(FormatElapsed(a), Digit(b \div 10), Digit(b % 10), "s")
    BY <2>1, TwoDigitText
  <2>6. Digit(a \div 10) = Digit(b \div 10) /\ Digit(a % 10) = Digit(b % 10)
    BY <2>2, SameThree
  <2>3. /\ a \div 10 \in 0 .. 9 /\ b \div 10 \in 0 .. 9
        /\ a % 10 \in 0 .. 9 /\ b % 10 \in 0 .. 9
    BY <2>2
  <2>4. a \div 10 = b \div 10 /\ a % 10 = b % 10
    BY <2>3, <2>6, DigitsDiffer
  <2>5. a = b
    BY <2>2, <2>4
  <2> QED
    BY <2>5
<1>4. CASE AgeForm(a) = "m"
  <2>1. AsMinutesOld(a) /\ AsMinutesOld(b)
    BY <1>1, <1>4, AgeFormIs
  <2>2. /\ Three(FormatElapsed(a), Digit(a \div 60), "m", " ")
        /\ Three(FormatElapsed(a), Digit(b \div 60), "m", " ")
    BY <1>0, <2>1, MinutesOldText, Zenon
  <2>3. Digit(a \div 60) = Digit(b \div 60)
    BY <2>2, SameThree, Zenon
  <2>4. a \div 60 = b \div 60
    BY <2>1, <2>3, DigitsDiffer DEF AsMinutesOld
  <2> QED
    BY <2>1, <2>4 DEF AsMinutesOld
<1>5. CASE AgeForm(a) = "old"
  <2>1. AsOld(a) /\ AsOld(b)
    BY <1>1, <1>5, AgeFormIs
  <2> QED
    BY <2>1 DEF AsOld
<1> QED
  BY <1>1, <1>2, <1>3, <1>4, <1>5

LEMMA AgeTells ==
    ASSUME NEW a \in Nat, NEW b \in Nat
    PROVE  FormatElapsed(a) = FormatElapsed(b) <=> Age(a) = Age(b)
  BY SameAge, SameAgeText

-------------------------------------------------------------------------------
(* The number of a bus, the stop and the line. *)
LEMMA BusNumberTells ==
    ASSUME NEW n \in Nat, NEW k \in Nat, n < 100000, k < 100000
    PROVE  FormatBusNumber(n) = FormatBusNumber(k) <=> n = k
<1>1. ASSUME FormatBusNumber(n) = FormatBusNumber(k) PROVE n = k
  <2>1. \A i \in 1 .. 5 : FormatBusNumber(n)[i] = Place(n, 6 - i)
    BY BusNumberIs
  <2>2. \A i \in 1 .. 5 : FormatBusNumber(k)[i] = Place(k, 6 - i)
    BY BusNumberIs
  <2>3. /\ Place(n, 1) = Place(k, 1) /\ Place(n, 2) = Place(k, 2)
        /\ Place(n, 3) = Place(k, 3) /\ Place(n, 4) = Place(k, 4)
        /\ Place(n, 5) = Place(k, 5)
    <3>1. /\ 1 \in 1 .. 5 /\ 2 \in 1 .. 5 /\ 3 \in 1 .. 5 /\ 4 \in 1 .. 5 /\ 5 \in 1 .. 5
          /\ 6 - 1 = 5 /\ 6 - 2 = 4 /\ 6 - 3 = 3 /\ 6 - 4 = 2 /\ 6 - 5 = 1
      OBVIOUS
    <3> QED
      BY <1>1, <2>1, <2>2, <3>1
  <2> QED
    BY <2>3, FivePlacesTell
<1> QED
  BY <1>1

LEMMA PlaceIsCharacter ==
    ASSUME NEW n \in Nat, NEW e \in 1 .. 10
    PROVE  Place(n, e) \in Characters
  BY PlaceIs, Zenon

LEMMA BusNumberCharacters ==
    ASSUME NEW n \in Nat, n < 100000
    PROVE  \A i \in 1 .. 5 : FormatBusNumber(n)[i] \in Characters
<1>1. ASSUME NEW i \in 1 .. 5 PROVE FormatBusNumber(n)[i] \in Characters
  <2>1. FormatBusNumber(n)[i] = Place(n, 6 - i) /\ 6 - i \in 1 .. 10
    BY BusNumberIs
  <2> QED
    BY <2>1, PlaceIsCharacter
<1> QED
  BY <1>1

LEMMA BusStopCharacters ==
    ASSUME NEW n \in Nat, n < 10000
    PROVE  \A i \in 1 .. 4 : FormatBusStop(n)[i] \in Characters
<1> DEFINE text == Padded(4, Number(n))
<1>1. Width(n) <= 4 /\ 4 \in 1 .. 10
  BY WidthOf
<1>2. text \in Seq(Characters) /\ Len(text) = 4
  BY <1>1, PlacesAre
<1> HIDE DEF text
<1>3. 4 \in 1 .. 6 /\ 4 + 1 = 5 /\ 4 \in Nat /\ 4 <= 4
  OBVIOUS
<1>4. \A i \in 1 .. 4 : Copied(4, Printed(5, text))[i] = text[i]
  BY <1>2, <1>3, FieldIs
<1>5. \A i \in 1 .. 4 : text[i] \in Characters
  BY <1>2
<1> QED
  BY <1>4, <1>5 DEF text, FormatBusStop

LEMMA BusLineCharacters ==
    \A i \in 1 .. 3 : FormatBusLine(BusLine)[i] \in Characters
<1> DEFINE text == Padded(3, BusLine)
<1>1. BusLine \in Seq(Characters)
  <2>1. BusLine \in Seq(Range(BusLine))
    BY ScreenAssumption
  <2>2. Range(BusLine) \subseteq Characters
    BY DEF Characters
  <2> QED
    BY <2>1, <2>2
<1>2. text \in Seq(Characters) /\ Len(text) \in Nat /\ Len(text) >= 3
  <2>1. PICK n \in Nat : n = Len(BusLine)
    BY <1>1
  <2>2. CASE n <= 3
    <3>1. PICK m \in Nat : m + n = 3
      <4>1. 3 - n \in Nat /\ (3 - n) + n = 3
        BY <2>2
      <4> QED
        BY <4>1
    <3>2. 3 \in Nat /\ Len(BusLine) = n
      BY <2>1
    <3>3. RightAligned(text, 3, m, BusLine)
      BY <1>1, <2>1, <3>1, <3>2, PaddedIs
    <3>4. text \in Seq(Characters) /\ Len(text) = 3
      BY <3>3 DEF RightAligned
    <3>5. 3 \in Nat /\ 3 >= 3
      OBVIOUS
    <3> QED
      BY <3>4, <3>5
  <2>3. CASE ~(n <= 3)
    <3>1. ~(Len(BusLine) < 3)
      BY <2>1, <2>3
    <3>2. text = BusLine
      BY <3>1, Zenon DEF Padded
    <3> QED
      BY <1>1, <2>1, <2>3, <3>2
  <2> QED
    BY <2>2, <2>3
<1> HIDE DEF text
<1>3. PICK l \in Nat : l = Len(text) /\ 3 <= l
  BY <1>2
<1>4. 3 \in 1 .. 6 /\ 3 + 1 = 4
  OBVIOUS
<1>5. \A i \in 1 .. 3 : Copied(3, Printed(4, text))[i] = text[i]
  BY <1>2, <1>3, <1>4, FieldIs
<1>6. \A i \in 1 .. 3 : text[i] \in Characters
  <2>1. \A i \in 1 .. l : text[i] \in Characters
    BY <1>2, <1>3, CharactersOf
  <2>2. \A i \in 1 .. 3 : i \in 1 .. l
    BY <1>3
  <2> QED
    BY <2>1, <2>2
<1> QED
  BY <1>5, <1>6 DEF text, FormatBusLine

-------------------------------------------------------------------------------
(* Only characters get into lcd_ram. *)
Shown(text, n) == Sized(text, n) /\ \A i \in 1 .. n : text[i] \in Characters

Screens == [0 .. 79 -> Characters]

LEMMA PutShown ==
    ASSUME NEW image \in Screens, NEW at \in Nat, NEW text, NEW n \in Nat,
           Shown(text, n)
    PROVE  Put(image, at, text) \in Screens
<1>1. Len(text) = n /\ \A i \in 1 .. n : text[i] \in Characters
  BY DEF Shown, Sized
<1>2. ASSUME NEW a \in 0 .. 79
      PROVE  (IF a - at \in 0 .. n - 1 THEN text[a - at + 1] ELSE image[a]) \in Characters
  <2>1. CASE a - at \in 0 .. n - 1
    <3>1. a - at + 1 \in 1 .. n
      BY <2>1
    <3> QED
      BY <1>1, <2>1, <3>1
  <2>2. CASE a - at \notin 0 .. n - 1
    BY <2>2 DEF Screens
  <2> QED
    BY <2>1, <2>2
<1> QED
  BY <1>1, <1>2 DEF Put, Screens

LEMMA BlankAndDash == " " \in Characters /\ "-" \in Characters
  BY DEF Characters

LEMMA FixedTextsShown ==
    Shown(NoBus, 20) /\ Shown(Header, 20) /\ Shown(Footer, 20)
<1>0. \A i \in 1 .. 20 : i \in
        {1, 2, 3, 4, 5, 6, 7, 8, 9, 10, 11, 12, 13, 14, 15, 16, 17, 18, 19, 20}
  OBVIOUS
<1>1. Shown(NoBus, 20)
  <2>1. \A i \in 1 .. 20 : NoBus[i] \in {"-", " "}
    BY DEF NoBus
  <2> QED
    BY <2>1, NoBusIs, BlankAndDash DEF Shown
<1>2. Shown(Header, 20)
  <2>1. \A i \in 1 .. 20 : Header[i] \in
            {"B", "u", "s", "#", " ", "D", "i", "t", "T", "e", "m", "p", "o"}
    <3>1. /\ Header[1] = "B" /\ Header[2] = "u" /\ Header[3] = "s" /\ Header[4] = "#"
          /\ Header[5] = " " /\ Header[6] = " " /\ Header[7] = " " /\ Header[8] = " "
          /\ Header[9] = "D" /\ Header[10] = "i" /\ Header[11] = "s" /\ Header[12] = "t"
          /\ Header[13] = " " /\ Header[14] = " " /\ Header[15] = "T" /\ Header[16] = "i"
          /\ Header[17] = "e" /\ Header[18] = "m" /\ Header[19] = "p" /\ Header[20] = "o"
      BY DEF Header
    <3> QED
      BY <1>0, <3>1
  <2>2. {"B", "u", "s", "#", " ", "D", "i", "t", "T", "e", "m", "p", "o"} \subseteq Characters
    BY DEF Characters
  <2> QED
    BY <2>1, <2>2, TextsAreSized DEF Shown
<1>3. Shown(Footer, 20)
  <2>1. \A i \in 1 .. 20 : Footer[i] \in
            {"H", "a", "c", "e", " ", "-", "s", "L", "P"}
    <3>1. /\ Footer[1] = "H" /\ Footer[2] = "a" /\ Footer[3] = "c" /\ Footer[4] = "e"
          /\ Footer[5] = " " /\ Footer[6] = "-" /\ Footer[7] = "-" /\ Footer[8] = "s"
          /\ Footer[9] = " " /\ Footer[10] = " " /\ Footer[11] = "L" /\ Footer[12] = "-"
          /\ Footer[13] = "-" /\ Footer[14] = "-" /\ Footer[15] = " " /\ Footer[16] = "P"
          /\ Footer[17] = "-" /\ Footer[18] = "-" /\ Footer[19] = "-" /\ Footer[20] = "-"
      BY DEF Footer
    <3> QED
      BY <1>0, <3>1
  <2>2. {"H", "a", "c", "e", " ", "-", "s", "L", "P"} \subseteq Characters
    BY DEF Characters
  <2> QED
    BY <2>1, <2>2, TextsAreSized DEF Shown
<1> QED
  BY <1>1, <1>2, <1>3

LEMMA StopAndLineShown ==
    Shown(FormatBusStop(BusStop), 4) /\ Shown(FormatBusLine(BusLine), 3)
<1>1. BusStop \in Nat /\ BusStop < 10000
  BY ScreenAssumption
<1>2. \A i \in 1 .. 4 : FormatBusStop(BusStop)[i] \in Characters
  BY <1>1, BusStopCharacters
<1> QED
  BY <1>2, BusLineCharacters, FieldsAreSized DEF Shown

LEMMA BusIs ==
    ASSUME NEW bus \in Buses
    PROVE  /\ bus.number \in Nat /\ bus.number < 100000
           /\ bus.distance \in Int /\ bus.time \in Nat
  BY ScreenAssumption

LEMMA FieldsShown ==
    ASSUME NEW bus \in Buses
    PROVE  /\ Shown(FormatBusNumber(bus.number), 5)
           /\ Shown(FormatDistance(bus.distance), 5)
           /\ Shown(FormatTime(bus.time), 6)
<1>1. \A i \in 1 .. 5 : FormatBusNumber(bus.number)[i] \in Characters
  BY BusIs, BusNumberCharacters
<1>2. \A i \in 1 .. 5 : FormatDistance(bus.distance)[i] \in Characters
  BY BusIs, FormShows
<1>3. \A i \in 1 .. 6 : FormatTime(bus.time)[i] \in Characters
  BY BusIs, TimeFormShows
<1> QED
  BY <1>1, <1>2, <1>3, FieldsAreSized DEF Shown

LEMMA AgeShown ==
    ASSUME NEW s \in Ages
    PROVE  Shown(FormatElapsed(s), 3)
<1>1. s \in Nat
  BY ScreenAssumption
<1>2. \A i \in 1 .. 3 : FormatElapsed(s)[i] \in Characters
  BY <1>1, AgeFormShows
<1> QED
  BY <1>2, FieldsAreSized DEF Shown

LEMMA StartUpShown == StartUpScreen \in Screens
<1> DEFINE blank == [a \in 0 .. 79 |-> " "]
           titled == Put(blank, 0, Header)
           first == Put(titled, 40, NoBus)
           second == Put(first, 20, NoBus)
           texts == Put(second, 60, Footer)
           stop == Put(texts, 76, FormatBusStop(BusStop))
           lined == Put(stop, 71, FormatBusLine(BusLine))
<1>1. StartUpScreen = lined
  <2>1. Line(4) + 16 = 76 /\ Line(4) + 11 = 71
    BY Lines
  <2> QED
    BY <2>1, Lines DEF StartUpScreen
<1>2. blank \in Screens
  BY BlankAndDash DEF Screens
<1> HIDE DEF blank
<1>3. titled \in Screens
  BY <1>2, FixedTextsShown, PutShown
<1> HIDE DEF titled
<1>4. first \in Screens
  BY <1>3, FixedTextsShown, PutShown
<1> HIDE DEF first
<1>5. second \in Screens
  BY <1>4, FixedTextsShown, PutShown
<1> HIDE DEF second
<1>6. texts \in Screens
  BY <1>5, FixedTextsShown, PutShown
<1> HIDE DEF texts
<1>7. stop \in Screens
  BY <1>6, StopAndLineShown, PutShown
<1> HIDE DEF stop
<1>8. lined \in Screens
  BY <1>7, StopAndLineShown, PutShown
<1> QED
  BY <1>1, <1>8

LEMMA BusRowShown ==
    ASSUME NEW image \in Screens, NEW row \in {2, 3}, NEW bus \in Buses
    PROVE  BusRow(image, row, bus) \in Screens
<1> DEFINE line == Line(row)
           numbered == Put(image, line, FormatBusNumber(bus.number))
           placed == Put(numbered, line + 7, FormatDistance(bus.distance))
           timed == Put(placed, line + 14, FormatTime(bus.time))
<1>1. line \in Nat /\ line + 7 \in Nat /\ line + 14 \in Nat
  BY Lines
<1> HIDE DEF line
<1>2. numbered \in Screens
  BY <1>1, FieldsShown, PutShown
<1> HIDE DEF numbered
<1>3. placed \in Screens
  BY <1>1, <1>2, FieldsShown, PutShown
<1> HIDE DEF placed
<1>4. timed \in Screens
  BY <1>1, <1>3, FieldsShown, PutShown
<1> QED
  BY <1>4 DEF timed, placed, numbered, line, BusRow

(* An answer: none, one or two buses. *)
LEMMA AnswerIs ==
    ASSUME NEW buses \in SeqOf(Buses, 2)
    PROVE  /\ Len(buses) \in 0 .. 2
           /\ DOMAIN buses = 1 .. Len(buses)
           /\ \A k \in 1 .. Len(buses) : buses[k] \in Buses
<1>1. PICK m \in 0 .. 2 : buses \in [1 .. m -> Buses]
  BY Zenon DEF SeqOf
<1>2. Len(buses) = m
  BY <1>1
<1> QED
  BY <1>1, <1>2

LEMMA RowForShown ==
    ASSUME NEW image \in Screens, NEW k \in {1, 2}, NEW buses \in SeqOf(Buses, 2)
    PROVE  RowFor(image, k, buses) \in Screens
<1>1. k + 1 \in {2, 3} /\ Line(k + 1) \in Nat
  BY Lines
<1>2. CASE Len(buses) >= k
  <2>1. buses[k] \in Buses
    BY <1>2, AnswerIs
  <2>2. RowFor(image, k, buses) = BusRow(image, k + 1, buses[k])
    BY <1>2 DEF RowFor
  <2> QED
    BY <1>1, <2>1, <2>2, BusRowShown
<1>3. CASE ~(Len(buses) >= k)
  <2>1. RowFor(image, k, buses) = Put(image, Line(k + 1), NoBus)
    BY <1>3 DEF RowFor
  <2> QED
    BY <1>1, <2>1, FixedTextsShown, PutShown
<1> QED
  BY <1>2, <1>3

LEMMA ElapsedShown ==
    ASSUME NEW image \in Screens, NEW s \in Ages
    PROVE  Put(image, Line(4) + 5, FormatElapsed(s)) \in Screens
<1>1. Line(4) + 5 \in Nat
  BY Lines
<1> QED
  BY <1>1, AgeShown, PutShown

-------------------------------------------------------------------------------
(* Neither a NUL nor what the stack held ever gets into lcd_ram, whatever  *)
(* the service reports and however the stop and the line are called        *)
(* (lcd.c:65-190): snprintf has filled what each format_ function copies.  *)
THEOREM OnlyCharacters == ScreenSpec => []ScreenTypeOK
<1>1. ScreenInit => ScreenTypeOK
  <2> SUFFICES ASSUME ScreenInit PROVE ScreenTypeOK
    OBVIOUS
  <2>1. lcd_ram \in Screens
    BY StartUpShown DEF ScreenInit
  <2>2. <<>> \in SeqOf(Buses, 2)
    <3>1. <<>> \in [1 .. 0 -> Buses] /\ 0 \in 0 .. 2
      OBVIOUS
    <3> QED
      BY <3>1, Zenon DEF SeqOf
  <2> QED
    BY <2>1, <2>2 DEF ScreenInit, ScreenTypeOK, Screens
<1>2. ScreenTypeOK /\ [ScreenNext]_screenVars => ScreenTypeOK'
  <2> SUFFICES ASSUME ScreenTypeOK, [ScreenNext]_screenVars PROVE ScreenTypeOK'
    OBVIOUS
  <2>0. lcd_ram \in Screens
    BY DEF ScreenTypeOK, Screens
  <2>1. ASSUME NEW buses \in SeqOf(Buses, 2), ShowBuses(buses) PROVE ScreenTypeOK'
    <3>1. RowFor(lcd_ram, 1, buses) \in Screens
      BY <2>0, RowForShown
    <3>2. RowFor(RowFor(lcd_ram, 1, buses), 2, buses) \in Screens
      BY <3>1, RowForShown
    <3> QED
      BY <2>1, <3>2 DEF ShowBuses, ScreenTypeOK, Screens
  <2>2. ASSUME NEW s \in Ages, ShowElapsed(s) PROVE ScreenTypeOK'
    BY <2>0, <2>2, ElapsedShown DEF ShowElapsed, ScreenTypeOK, Screens
  <2>3. CASE UNCHANGED screenVars
    BY <2>3 DEF screenVars, ScreenTypeOK
  <2> QED
    BY <2>1, <2>2, <2>3 DEF ScreenNext
<1> QED
  BY <1>1, <1>2, PTL DEF ScreenSpec

-------------------------------------------------------------------------------
(* The rows hold the texts of the buses that are listed, and the last row  *)
(* the age that was written.                                               *)
Row(image, line, bus) ==
    /\ Holds(image, line, FormatBusNumber(bus.number), 5)
    /\ Holds(image, line + 7, FormatDistance(bus.distance), 5)
    /\ Holds(image, line + 14, FormatTime(bus.time), 6)

Rows(image, buses) ==
    \A k \in {1, 2} : k <= Len(buses) => Row(image, Line(k + 1), buses[k])

Aged(image, s) == s # -1 => Holds(image, 65, FormatElapsed(s), 3)

LEMMA BusRowHolds ==
    ASSUME NEW image, NEW row \in {2, 3}, NEW bus
    PROVE  Row(BusRow(image, row, bus), Line(row), bus)
<1> DEFINE number == FormatBusNumber(bus.number)
           distance == FormatDistance(bus.distance)
           time == FormatTime(bus.time)
           line == Line(row)
           numbered == Put(image, line, number)
           placed == Put(numbered, line + 7, distance)
           timed == Put(placed, line + 14, time)
<1>1. line \in {20, 40}
  BY Lines
<1>2. /\ Sized(number, 5) /\ Sized(distance, 5) /\ Sized(time, 6)
  BY FieldsAreSized
<1>3. /\ BusRow(image, row, bus) = timed
      /\ Row(timed, line, bus) <=>
            /\ Holds(timed, line, number, 5)
            /\ Holds(timed, line + 7, distance, 5)
            /\ Holds(timed, line + 14, time, 6)
  BY DEF BusRow, Row
<1> HIDE DEF line, number, distance, time
<1>4. /\ line \in Nat /\ line + 7 \in Nat /\ line + 14 \in Nat /\ line <= 40
  BY <1>1
<1>5. Holds(numbered, line, number, 5)
  BY <1>2, <1>4, PutHolds
<1> HIDE DEF numbered
<1>6. Holds(placed, line, number, 5)
  BY <1>2, <1>4, <1>5, PutKeeps
<1>7. Holds(placed, line + 7, distance, 5)
  BY <1>2, <1>4, PutHolds
<1> HIDE DEF placed
<1>8. Holds(timed, line, number, 5)
  BY <1>2, <1>4, <1>6, PutKeeps
<1>9. Holds(timed, line + 7, distance, 5)
  BY <1>2, <1>4, <1>7, PutKeeps
<1>10. Holds(timed, line + 14, time, 6)
  BY <1>2, <1>4, PutHolds
<1> HIDE DEF timed
<1> QED
  BY <1>3, <1>8, <1>9, <1>10 DEF line

(* What a row shows stays when something else is written. *)
LEMMA PutRow ==
    ASSUME NEW image, NEW at \in Nat, NEW text, NEW n \in Nat, Sized(text, n),
           NEW line \in Nat, line <= 40, NEW bus, Row(image, line, bus),
           line + 20 <= at \/ at + n <= line
    PROVE  Row(Put(image, at, text), line, bus)
<1> DEFINE number == FormatBusNumber(bus.number)
           distance == FormatDistance(bus.distance)
           time == FormatTime(bus.time)
           new == Put(image, at, text)
<1>1. /\ Holds(image, line, number, 5)
      /\ Holds(image, line + 7, distance, 5)
      /\ Holds(image, line + 14, time, 6)
  BY DEF Row
<1> HIDE DEF number, distance, time
<1>2. Holds(new, line, number, 5)
  BY <1>1, PutKeeps
<1>3. line + 7 \in Nat /\ line + 14 \in Nat
  OBVIOUS
<1>4. Holds(new, line + 7, distance, 5)
  BY <1>1, <1>3, PutKeeps
<1>5. Holds(new, line + 14, time, 6)
  BY <1>1, <1>3, PutKeeps
<1> HIDE DEF new
<1>6. Row(new, line, bus)
  BY <1>2, <1>4, <1>5 DEF Row, number, distance, time
<1> QED
  BY <1>6 DEF new

LEMMA BusRowKeepsRow ==
    ASSUME NEW image, NEW row \in {2, 3}, NEW bus,
           NEW line \in {20, 40}, line # Line(row), NEW other, Row(image, line, other)
    PROVE  Row(BusRow(image, row, bus), line, other)
<1> DEFINE here == Line(row)
           numbered == Put(image, here, FormatBusNumber(bus.number))
           placed == Put(numbered, here + 7, FormatDistance(bus.distance))
           timed == Put(placed, here + 14, FormatTime(bus.time))
<1>1. /\ here \in Nat /\ here + 7 \in Nat /\ here + 14 \in Nat
      /\ line \in Nat /\ line <= 40
      /\ line + 20 <= here \/ here + 20 <= line
  BY Lines
<1> HIDE DEF here
<1>2. Row(numbered, line, other)
  <2>1. Sized(FormatBusNumber(bus.number), 5)
    BY FieldsAreSized
  <2>2. line + 20 <= here \/ here + 5 <= line
    BY <1>1
  <2> QED
    BY <1>1, <2>1, <2>2, PutRow
<1> HIDE DEF numbered
<1>3. Row(placed, line, other)
  <2>1. Sized(FormatDistance(bus.distance), 5)
    BY FieldsAreSized
  <2>2. line + 20 <= here + 7 \/ here + 7 + 5 <= line
    BY <1>1
  <2> QED
    BY <1>1, <1>2, <2>1, <2>2, PutRow
<1> HIDE DEF placed
<1>4. Row(timed, line, other)
  <2>1. Sized(FormatTime(bus.time), 6)
    BY FieldsAreSized
  <2>2. line + 20 <= here + 14 \/ here + 14 + 6 <= line
    BY <1>1
  <2> QED
    BY <1>1, <1>3, <2>1, <2>2, PutRow
<1> QED
  BY <1>4 DEF timed, placed, numbered, here, BusRow

LEMMA RowForKeepsRow ==
    ASSUME NEW image, NEW k \in {1, 2}, NEW buses,
           NEW line \in {20, 40}, line # Line(k + 1), NEW other, Row(image, line, other)
    PROVE  Row(RowFor(image, k, buses), line, other)
<1>1. k + 1 \in {2, 3}
  OBVIOUS
<1>2. CASE Len(buses) >= k
  <2>1. RowFor(image, k, buses) = BusRow(image, k + 1, buses[k])
    BY <1>2 DEF RowFor
  <2> QED
    BY <1>1, <2>1, BusRowKeepsRow
<1>3. CASE ~(Len(buses) >= k)
  <2>1. RowFor(image, k, buses) = Put(image, Line(k + 1), NoBus)
    BY <1>3 DEF RowFor
  <2>2. /\ Line(k + 1) \in Nat /\ line \in Nat /\ line <= 40 /\ 20 \in Nat
        /\ line + 20 <= Line(k + 1) \/ Line(k + 1) + 20 <= line
    BY <1>1, Lines
  <2> QED
    BY <2>1, <2>2, NoBusIs, PutRow
<1> QED
  BY <1>2, <1>3

(* What the age shows stays when a row above it is written. *)
LEMMA PutAge ==
    ASSUME NEW image, NEW at \in Nat, NEW text, NEW n \in Nat, Sized(text, n),
           NEW s, Aged(image, s), at + n <= 65
    PROVE  Aged(Put(image, at, text), s)
<1>1. 65 \in Nat /\ 3 \in Nat /\ 65 + 3 <= 80
  OBVIOUS
<1> SUFFICES ASSUME s # -1 PROVE Holds(Put(image, at, text), 65, FormatElapsed(s), 3)
  BY DEF Aged
<1>2. Holds(image, 65, FormatElapsed(s), 3)
  BY DEF Aged
<1> QED
  BY <1>1, <1>2, PutKeeps

LEMMA RowForKeepsAge ==
    ASSUME NEW image, NEW k \in {1, 2}, NEW buses, NEW s, Aged(image, s)
    PROVE  Aged(RowFor(image, k, buses), s)
<1> DEFINE line == Line(k + 1)
<1>1. line \in {20, 40}
  BY Lines
<1> HIDE DEF line
<1>2. CASE Len(buses) >= k
  <2> DEFINE bus == buses[k]
             numbered == Put(image, line, FormatBusNumber(bus.number))
             placed == Put(numbered, line + 7, FormatDistance(bus.distance))
             timed == Put(placed, line + 14, FormatTime(bus.time))
  <2>1. RowFor(image, k, buses) = timed
    BY <1>2 DEF RowFor, BusRow, line
  <2>2. Aged(numbered, s)
    <3>1. Sized(FormatBusNumber(bus.number), 5)
      BY FieldsAreSized
    <3> QED
      BY <1>1, <3>1, PutAge
  <2> HIDE DEF numbered
  <2>3. Aged(placed, s)
    <3>1. Sized(FormatDistance(bus.distance), 5)
      BY FieldsAreSized
    <3>2. line + 7 \in {27, 47}
      BY <1>1
    <3> QED
      BY <2>2, <3>1, <3>2, PutAge
  <2> HIDE DEF placed
  <2>4. Aged(timed, s)
    <3>1. Sized(FormatTime(bus.time), 6)
      BY FieldsAreSized
    <3>2. line + 14 \in {34, 54}
      BY <1>1
    <3> QED
      BY <2>3, <3>1, <3>2, PutAge
  <2> QED
    BY <2>1, <2>4
<1>3. CASE ~(Len(buses) >= k)
  <2>1. RowFor(image, k, buses) = Put(image, line, NoBus)
    BY <1>3 DEF RowFor, line
  <2>2. line \in Nat /\ 20 \in Nat /\ line + 20 <= 65
    BY <1>1
  <2>3. Aged(Put(image, line, NoBus), s)
    BY <2>2, NoBusIs, PutAge
  <2> QED
    BY <2>1, <2>3
<1> QED
  BY <1>2, <1>3

-------------------------------------------------------------------------------
RowsHeld ==
    /\ listed \in SeqOf(Buses, 2)
    /\ age \in Ages \union {-1}
    /\ Rows(lcd_ram, listed)
    /\ Aged(lcd_ram, age)

LEMMA ShowBusesHolds ==
    ASSUME RowsHeld, NEW buses \in SeqOf(Buses, 2), ShowBuses(buses)
    PROVE  RowsHeld'
<1> DEFINE first == RowFor(lcd_ram, 1, buses)
           second == RowFor(first, 2, buses)
<1>1. lcd_ram' = second /\ listed' = buses /\ age' = age
  BY DEF ShowBuses
<1>2. Aged(second, age)
  <2>1. Aged(first, age)
    BY RowForKeepsAge DEF RowsHeld
  <2> HIDE DEF first
  <2> QED
    BY <2>1, RowForKeepsAge
<1>3. 1 + 1 = 2 /\ 2 + 1 = 3
  OBVIOUS
<1>4. ASSUME 1 <= Len(buses) PROVE Row(second, Line(1 + 1), buses[1])
  <2>1. first = BusRow(lcd_ram, 2, buses[1])
    BY <1>3, <1>4, AnswerIs DEF RowFor
  <2>2. Row(first, Line(2), buses[1])
    BY <2>1, BusRowHolds
  <2> HIDE DEF first
  <2>3. Line(2) \in {20, 40} /\ Line(2) # Line(2 + 1)
    BY <1>3, Lines
  <2> QED
    BY <1>3, <2>2, <2>3, RowForKeepsRow
<1>5. ASSUME 2 <= Len(buses) PROVE Row(second, Line(2 + 1), buses[2])
  <2>1. second = BusRow(first, 3, buses[2])
    BY <1>3, <1>5, AnswerIs DEF RowFor
  <2> HIDE DEF first
  <2> QED
    BY <1>3, <2>1, BusRowHolds
<1>6. Rows(second, buses)
  <2> HIDE DEF second
  <2> QED
    BY <1>4, <1>5 DEF Rows
<1> HIDE DEF second
<1> QED
  BY <1>1, <1>2, <1>6 DEF RowsHeld

LEMMA ShowElapsedHolds ==
    ASSUME RowsHeld, NEW s \in Ages, ShowElapsed(s)
    PROVE  RowsHeld'
<1> DEFINE text == FormatElapsed(s)
           new == Put(lcd_ram, 65, text)
<1>1. lcd_ram' = new /\ listed' = listed /\ age' = s
  <2>1. Line(4) + 5 = 65
    BY Lines
  <2> QED
    BY <2>1 DEF ShowElapsed
<1>2. Sized(text, 3) /\ 65 \in Nat /\ 3 \in Nat
  BY FieldsAreSized
<1>3. Aged(new, s)
  BY <1>2, PutHolds DEF Aged
<1> HIDE DEF text
<1>4. ASSUME NEW k \in {1, 2}, k <= Len(listed)
      PROVE  Row(new, Line(k + 1), listed[k])
  <2>1. Row(lcd_ram, Line(k + 1), listed[k])
    BY <1>4 DEF RowsHeld, Rows
  <2>2. Line(k + 1) \in Nat /\ Line(k + 1) <= 40 /\ 65 + 3 > Line(k + 1)
    BY Lines
  <2> QED
    BY <1>2, <2>1, <2>2, PutRow
<1> HIDE DEF new
<1> QED
  BY <1>1, <1>3, <1>4 DEF RowsHeld, Rows

(* So far what the tasks wrote; now what a reader sees of it. *)
LEMMA HeldRowsTell == RowsHeld => RowsTell
<1> SUFFICES ASSUME RowsHeld PROVE RowsTell
  OBVIOUS
<1>1. ASSUME NEW k \in DOMAIN listed, NEW other \in Buses
      PROVE  /\ OnGlass(k + 1, 0, 5) = FormatBusNumber(other.number) <=>
                    other.number = listed[k].number
             /\ OnGlass(k + 1, 7, 5) = FormatDistance(other.distance) <=>
                    Distance(other.distance) = Distance(listed[k].distance)
             /\ OnGlass(k + 1, 14, 6) = FormatTime(other.time) <=>
                    Time(other.time) = Time(listed[k].time)
  <2> DEFINE bus == listed[k]
             number == FormatBusNumber(bus.number)
             distance == FormatDistance(bus.distance)
             time == FormatTime(bus.time)
  <2>1. k \in {1, 2} /\ k <= Len(listed) /\ bus \in Buses
    BY <1>1, AnswerIs DEF RowsHeld
  <2>2. Row(lcd_ram, Line(k + 1), bus)
    BY <2>1 DEF RowsHeld, Rows
  <2>3. Line(k + 1) \in Nat
    BY <2>1, Lines
  <2>4. /\ Holds(lcd_ram, Line(k + 1), number, 5) /\ Sized(number, 5)
        /\ Holds(lcd_ram, Line(k + 1) + 7, distance, 5) /\ Sized(distance, 5)
        /\ Holds(lcd_ram, Line(k + 1) + 14, time, 6) /\ Sized(time, 6)
    BY <2>2, FieldsAreSized DEF Row
  <2>5. /\ OnGlass(k + 1, 0, 5) = number
        /\ OnGlass(k + 1, 7, 5) = distance
        /\ OnGlass(k + 1, 14, 6) = time
    <3> HIDE DEF number, distance, time
    <3>1. Line(k + 1) = Line(k + 1) + 0 /\ 0 \in Nat
      BY <2>3
    <3>2. OnGlass(k + 1, 0, 5) = number
      BY <2>3, <2>4, <3>1, GlassShows
    <3>3. OnGlass(k + 1, 7, 5) = distance
      BY <2>3, <2>4, GlassShows
    <3>4. OnGlass(k + 1, 14, 6) = time
      BY <2>3, <2>4, GlassShows
    <3> QED
      BY <3>2, <3>3, <3>4
  <2> HIDE DEF bus
  <2>6. /\ bus.number \in Nat /\ bus.number < 100000
        /\ bus.distance \in Int /\ bus.time \in Nat
    BY <2>1, BusIs
  <2>7. /\ other.number \in Nat /\ other.number < 100000
        /\ other.distance \in Int /\ other.time \in Nat
    BY BusIs
  <2>8. FormatBusNumber(other.number) = number <=> other.number = bus.number
    BY <2>6, <2>7, BusNumberTells
  <2>9. FormatDistance(other.distance) = distance <=>
            Distance(other.distance) = Distance(bus.distance)
    BY <2>6, <2>7, DistanceTells
  <2>10. FormatTime(other.time) = time <=> Time(other.time) = Time(bus.time)
    BY <2>6, <2>7, TimeTells
  <2> HIDE DEF number, distance, time
  <2> QED
    BY <2>5, <2>8, <2>9, <2>10 DEF bus
<1>2. ASSUME age # -1, NEW s \in Ages
      PROVE  OnGlass(4, 5, 3) = FormatElapsed(s) <=> Age(s) = Age(age)
  <2>1. age \in Nat /\ s \in Nat
    BY <1>2, ScreenAssumption DEF RowsHeld
  <2>2. OnGlass(4, 5, 3) = FormatElapsed(age)
    <3>1. Line(4) \in Nat /\ 65 = Line(4) + 5 /\ 5 \in Nat /\ 3 \in Nat
      BY Lines
    <3>2. Sized(FormatElapsed(age), 3) /\ Holds(lcd_ram, 65, FormatElapsed(age), 3)
      BY <1>2, FieldsAreSized DEF RowsHeld, Aged
    <3> QED
      BY <3>1, <3>2, GlassShows
  <2>3. FormatElapsed(s) = FormatElapsed(age) <=> Age(s) = Age(age)
    BY <2>1, AgeTells
  <2> QED
    BY <2>2, <2>3
<1> QED
  BY <1>1, <1>2, Zenon DEF RowsTell

(* A reader of the glass learns the number, the distance, the time and the *)
(* age as exactly as format_distance, format_time and format_elapsed say,  *)
(* whatever the service reports and in whichever order the answers come.   *)
THEOREM ScreenTells == ScreenSpec => []RowsTell
<1>1. ScreenInit => RowsHeld
  <2> SUFFICES ASSUME ScreenInit PROVE RowsHeld
    OBVIOUS
  <2>1. listed = <<>> /\ age = -1
    BY DEF ScreenInit
  <2>2. listed \in SeqOf(Buses, 2)
    <3>1. <<>> \in [1 .. 0 -> Buses] /\ 0 \in 0 .. 2
      OBVIOUS
    <3> QED
      BY <2>1, <3>1, Zenon DEF SeqOf
  <2>3. Rows(lcd_ram, listed)
    BY <2>1 DEF Rows
  <2>4. Aged(lcd_ram, age)
    BY <2>1 DEF Aged
  <2> QED
    BY <2>1, <2>2, <2>3, <2>4 DEF RowsHeld
<1>2. RowsHeld /\ [ScreenNext]_screenVars => RowsHeld'
  <2> SUFFICES ASSUME RowsHeld, [ScreenNext]_screenVars PROVE RowsHeld'
    OBVIOUS
  <2>1. CASE UNCHANGED screenVars
    BY <2>1 DEF screenVars, RowsHeld, Rows, Row, Aged, Holds
  <2> QED
    BY <2>1, ShowBusesHolds, ShowElapsedHolds DEF ScreenNext
<1> QED
  BY <1>1, <1>2, HeldRowsTell, PTL DEF ScreenSpec
===============================================================================
