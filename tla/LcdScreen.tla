------------------------------- MODULE LcdScreen -------------------------------
(***************************************************************************)
(* What esp_bus writes on its screen: the zones of lcd_ram that main.c     *)
(* gives to its tasks, and the texts that the format_ functions of lcd.c   *)
(* put there.  (How the tasks interleave is the business of LcdRefresh.)   *)
(*                                                                         *)
(* A text is a sequence of one-character strings.                          *)
(***************************************************************************)
EXTENDS Integers, Sequences, SequencesExt

CONSTANTS
    Buses,      \* what the service may report of a bus
    Ages,       \* ages of an answer, in seconds
    BusStop,    \* BUS_STOP, as a number
    BusLine     \* BUS_LINE, as a text

ASSUME ScreenAssumption ==
    /\ Buses \subseteq [number : Nat, distance : Int, time : Nat]
    /\ \A bus \in Buses : bus.number < 100000
    /\ Ages \subseteq Nat
    /\ BusStop \in Nat /\ BusStop < 10000
    /\ BusLine \in Seq(Range(BusLine))

VARIABLES
    lcd_ram,    \* its 80 characters
    listed,     \* history: the buses of the last answer
    age         \* history: the last age written, -1 for none

screenVars == <<lcd_ram, listed, age>>

-------------------------------------------------------------------------------
(* snprintf, for the conversions used here. *)

Spaces(n) == [i \in 1 .. n |-> " "]
Digit(d) == <<"0", "1", "2", "3", "4", "5", "6", "7", "8", "9">>[d + 1]

(* An int has ten digits at most, and no zeros lead it. *)
Power == <<1, 10, 100, 1000, 10000, 100000, 1000000, 10000000, 100000000,
           1000000000>>
Width(n) ==
    CHOOSE w \in 1 .. 10 :
        (w = 1 \/ Power[w] <= n) /\ (w = 10 \/ n < Power[w + 1])

(* (None that is printed is negative.) *)
Number(n) ==
    [i \in 1 .. Width(n) |-> Digit((n \div Power[Width(n) + 1 - i]) % 10)]

Padded(width, text) ==
    IF Len(text) < width THEN Spaces(width - Len(text)) \o text ELSE text

TwoDigits(n) == <<Digit(n \div 10), Digit(n % 10)>>

(* A buffer of size characters after snprintf: the text, cut if need be, a *)
(* NUL, and what the stack held.                                           *)
Printed(size, text) ==
    [i \in 1 .. size |->
        IF i > Len(text) + 1 THEN "stack"
        ELSE IF i = Len(text) + 1 \/ i = size THEN "NUL" ELSE text[i]]

(* memcpy of its first n characters. *)
Copied(n, buffer) == SubSeq(buffer, 1, n)

-------------------------------------------------------------------------------
(* The format_ functions. *)

FormatBusNumber(number) == Copied(5, Printed(6, Padded(5, Number(number))))

InMetres(distance) == Padded(4, Number(distance)) \o <<"m">>
InHectometres(distance) ==
    LET km == distance \div 1000
        hm == (distance - 1000 * km) \div 100
    IN  Number(km) \o <<".">> \o Number(hm) \o <<"k", "m">>
InKilometres(distance) == Padded(3, Number(distance \div 1000)) \o <<"k", "m">>
NotKnown == <<" ", " ", "?", "?", "m">>
FarAway == <<" ", ">", "2", "0", "k", "m">>

(* (DistanceTextFewMetres: metres up to 999 only.) *)
DistanceTextFewMetres(distance) ==
    IF distance < 0 THEN NotKnown
    ELSE IF distance < 1000 THEN InMetres(distance)
    ELSE IF distance < 20000 THEN InKilometres(distance)
    ELSE FarAway

DistanceText(distance) ==
    IF distance < 0 THEN NotKnown
    ELSE IF distance < 1100 THEN InMetres(distance)
    ELSE IF distance < 10000 THEN InHectometres(distance)
    ELSE IF distance < 20000 THEN InKilometres(distance)
    ELSE FarAway

FormatDistance(distance) == Copied(5, Printed(6, DistanceText(distance)))

InSeconds(time) == Padded(5, Number(time - 60 * (time \div 60))) \o <<"s">>
InMinutesAndSeconds(time) ==
    LET m == time \div 60
    IN  Number(m) \o <<"m", " ">> \o TwoDigits(time - 60 * m) \o <<"s">>
InMinutes(time) == Padded(5, Number(time \div 60)) \o <<"m">>
TooLong == <<" ", " ", ">", "1", "5", "m">>

TimeText(time) ==
    IF time < 60 THEN InSeconds(time)
    ELSE IF time < 600 THEN InMinutesAndSeconds(time)
    ELSE IF time < 900 THEN InMinutes(time)
    ELSE TooLong

(* (The first form copies the NUL too.) *)
FormatTimeWhole(time) == Copied(7, Printed(7, TimeText(time)))
FormatTime(time) == Copied(6, Printed(7, TimeText(time)))

SecondsOld(s) == Number(s) \o <<"s">>
MinutesOld(s) == Number(s \div 60) \o <<"m">>
TooOld == <<">", "9", "m">>

ElapsedText(s) ==
    IF s < 60 THEN SecondsOld(s) ELSE IF s < 540 THEN MinutesOld(s) ELSE TooOld

(* (The first form forgets "fill final space if needed".) *)
FormatElapsedUnfilled(s) == Copied(3, Printed(4, ElapsedText(s)))

FormatElapsed(s) ==
    LET buff == Printed(4, ElapsedText(s))
    IN  Copied(3, [buff EXCEPT ![3] = IF @ = "NUL" THEN " " ELSE @])

FormatBusStop(number) == Copied(4, Printed(5, Padded(4, Number(number))))
FormatBusLine(line) == Copied(3, Printed(4, Padded(3, line)))

-------------------------------------------------------------------------------
(* lcd_ram. *)

(* Where the rows of the glass begin (lcd.h). *)
Line(row) == <<0, 40, 20, 60>>[row]

Put(chars, at, text) ==
    [a \in 0 .. 79 |-> IF a - at \in 0 .. Len(text) - 1 THEN text[a - at + 1] ELSE chars[a]]

NoBus == [i \in 1 .. 20 |-> IF i = 10 THEN "-" ELSE " "]

(* The prologue of update_lcd_physical_task: its texts, and the two fields *)
(* it formats itself.                                                      *)
Header == <<"B", "u", "s", "#", " ", " ", " ", " ", "D", "i", "s", "t", " ", " ",
            "T", "i", "e", "m", "p", "o">>
Footer == <<"H", "a", "c", "e", " ", "-", "-", "s", " ", " ", "L", "-", "-", "-",
            " ", "P", "-", "-", "-", "-">>

StartUpScreen ==
    LET texts == Put(Put(Put(Put([a \in 0 .. 79 |-> " "], 0, Header),
                             Line(2), NoBus), Line(3), NoBus), Line(4), Footer)
    IN  Put(Put(texts, Line(4) + 16, FormatBusStop(BusStop)),
            Line(4) + 11, FormatBusLine(BusLine))

BusRow(chars, row, bus) ==
    Put(Put(Put(chars, Line(row), FormatBusNumber(bus.number)),
            Line(row) + 7, FormatDistance(bus.distance)),
        Line(row) + 14, FormatTime(bus.time))

(* The row of the k-th bus of an answer. *)
RowFor(chars, k, buses) ==
    IF Len(buses) >= k THEN BusRow(chars, k + 1, buses[k])
    ELSE Put(chars, Line(k + 1), NoBus)

-------------------------------------------------------------------------------
ScreenInit ==
    /\ lcd_ram = StartUpScreen
    /\ listed = <<>>
    /\ age = -1

(* update_bus_times_task, with the answer it has got. *)
ShowBuses(buses) ==
    /\ lcd_ram' = RowFor(RowFor(lcd_ram, 1, buses), 2, buses)
    /\ listed' = buses
    /\ UNCHANGED age

(* update_elapsed_task *)
ShowElapsed(s) ==
    /\ lcd_ram' = Put(lcd_ram, Line(4) + 5, FormatElapsed(s))
    /\ age' = s
    /\ UNCHANGED listed

ScreenNext ==
    \/ \E buses \in SeqOf(Buses, 2) : ShowBuses(buses)
    \/ \E s \in Ages : ShowElapsed(s)

ScreenSpec == ScreenInit /\ [][ScreenNext]_screenVars

-------------------------------------------------------------------------------
(* Properties. *)

Characters ==
    {Digit(d) : d \in 0 .. 9} \union
    {" ", "-", ".", "?", ">", "#", "m", "s", "k", "B", "u", "D", "i", "t", "T",
     "e", "p", "o", "H", "a", "c", "L", "P"} \union Range(BusLine)

(* Neither a NUL, which update_lcd_physical would show as a backslash, nor *)
(* what the stack held ever gets into lcd_ram.                             *)
ScreenTypeOK ==
    /\ lcd_ram \in [0 .. 79 -> Characters]
    /\ listed \in SeqOf(Buses, 2)
    /\ age \in Ages \union {-1}

(* What the glass shows in a row: the controller has the characters of     *)
(* lcd_ram in the order of rows 1, 3, 2 and 4.                             *)
OnGlass(row, col, n) ==
    [i \in 1 .. n |-> lcd_ram[(<<0, 40, 20, 60>>[row]) + col + i - 1]]

(* "Each part of the program alters its reserved space" (main.c:34): what  *)
(* belongs to no task stays as it was, and the places between two fields   *)
(* stay blank, also when rows change between buses and none.               *)
ReservedSpace ==
    /\ OnGlass(1, 0, 20) = Header
    /\ OnGlass(4, 0, 5) = SubSeq(Footer, 1, 5)
    /\ OnGlass(4, 8, 3) = SubSeq(Footer, 9, 11)
    /\ OnGlass(4, 11, 3) = FormatBusLine(BusLine)
    /\ OnGlass(4, 16, 4) = FormatBusStop(BusStop)
    /\ \A row \in 2 .. 3 :
        OnGlass(row, 5, 2) = Spaces(2) /\ OnGlass(row, 12, 2) = Spaces(2)

(* How exactly a quantity is to be shown (lcd.c:87-91,123-126,154-156).    *)
Distance(d) ==
    IF d < 0 THEN <<"unknown">>
    ELSE IF d < 1100 THEN <<"m", d>>
    ELSE IF d < 10000 THEN <<"hm", d \div 100>>
    ELSE IF d < 20000 THEN <<"km", d \div 1000>>
    ELSE <<"far">>
Time(t) ==
    IF t < 600 THEN <<"s", t>>
    ELSE IF t < 900 THEN <<"min", t \div 60>>
    ELSE <<"long">>

Age(s) ==
    IF s < 60 THEN <<"s", s>> ELSE IF s < 540 THEN <<"min", s \div 60>> ELSE <<"old">>

(* The k-th row under the header tells the number, the distance and the    *)
(* time of the k-th bus, and the last row the age, as exactly as is        *)
(* documented: two values have the same text if and only if they are the   *)
(* same to that accuracy.  Which text that is, it does not say: from 20 km *)
(* on it is not the documented one (FarAwayTold).                          *)
RowsTell ==
    /\ \A k \in DOMAIN listed, other \in Buses :
        /\ OnGlass(k + 1, 0, 5) = FormatBusNumber(other.number) <=>
                other.number = listed[k].number
        /\ OnGlass(k + 1, 7, 5) = FormatDistance(other.distance) <=>
                Distance(other.distance) = Distance(listed[k].distance)
        /\ OnGlass(k + 1, 14, 6) = FormatTime(other.time) <=>
                Time(other.time) = Time(listed[k].time)
    /\ age # -1 => \A s \in Ages :
            OnGlass(4, 5, 3) = FormatElapsed(s) <=> Age(s) = Age(age)

(* ">20km   (20000 or above)" (lcd.c:91). *)
FarAwayTold ==
    \A k \in DOMAIN listed :
        listed[k].distance >= 20000
            => OnGlass(k + 1, 7, 5) = <<">", "2", "0", "k", "m">>
===============================================================================
