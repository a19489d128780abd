-------------------------------- MODULE LcdText --------------------------------
(***************************************************************************)
(* soft_lcd.c as a library: the calls a program can make once lcd_create   *)
(* has configured the display, and what they do to the controller.  One    *)
(* task makes them one after the other; transfers succeed here (SoftLcd    *)
(* has those that fail).  A byte of text is a number, and a letter is the  *)
(* sequence of its bytes in UTF-8.                                         *)
(***************************************************************************)
EXTENDS Hd44780, Sequences, SequencesExt

CONSTANTS
    Displays,   \* the numbers of lines a display may have: 1, 2 or 4
    Letters,    \* what texts are made of
    Texts,      \* sequences of letters that are printed
    CellsOf,    \* what each letter is to look like: a sequence of cells
    AskedColumns, \* the columns lcd_pos is asked for, counted from 0
    Characters, \* the numbers given to lcd_create_char
    Pictures,   \* sequences of eight rows for characters of one's own
    LineSize,   \* linesize of lcd_printf: 64
    MaxCalls    \* calls a program makes

VARIABLES
    lcd,        \* the lcd_t: lines, display_set, backlight; live: allocated
    hd,         \* the controller
    lit,        \* the backlight, a line of the port expander
    got,        \* what lcd_read_data returned
    calls       \* how many calls

textVars == <<lcd, hd, lit, got, calls>>

TextTypeOK ==
    /\ lcd \in [lines : Displays, look : 0 .. 7, backlight : BOOLEAN,
               live : BOOLEAN]
    /\ hd \in Controllers
    /\ lit \in BOOLEAN
    /\ got \in 0 .. 255
    /\ calls \in 0 .. MaxCalls

-------------------------------------------------------------------------------
(* lcd_raw: a byte goes out as two nibbles. *)
Raw(c, rs, byte) == Strobe(Strobe(c, rs, byte \div 16), rs, byte % 16)

Putc(c, char) == Raw(c, 1, char)
PosRaw(c, address) == Raw(c, 0, 128 + address)

(* lcd_read_raw: two nibbles come in, and the reading moves the controller *)
(* like the writing (_pcf8574_get).                                        *)
ReadRaw(c, rs) == 16 * Sensed(c, rs) + Sensed(StrobeRead(c, rs), rs)
AfterRead(c, rs) == StrobeRead(StrobeRead(c, rs), rs)

(* lcd_pos *)
RowsValue == <<0, 64, 20, 84>>
Pos(c, row, col) == PosRaw(c, RowsValue[row + 1] + col)

(* _lcd_nextline (NextLineInclusive: with <= for the end of the first      *)
(* line of four).                                                          *)
NextLineInclusive(c, lines) ==
    LET pos == ReadRaw(c, 0)
        d == AfterRead(c, 0)
    IN  CASE lines = 1 -> PosRaw(d, 0)
          [] lines = 2 /\ pos < 64 -> PosRaw(d, 64)
          [] lines = 4 /\ pos <= 20 -> PosRaw(d, 64)
          [] lines = 4 /\ pos \in 64 .. 83 -> PosRaw(d, 20)
          [] lines = 4 /\ pos \in 21 .. 63 -> PosRaw(d, 84)
          [] OTHER -> d

NextLine(c, lines) ==
    LET pos == ReadRaw(c, 0)
        d == AfterRead(c, 0)
    IN  CASE lines = 1 -> PosRaw(d, 0)
          [] lines = 2 /\ pos < 64 -> PosRaw(d, 64)
          [] lines = 4 /\ pos < 20 -> PosRaw(d, 64)
          [] lines = 4 /\ pos \in 64 .. 83 -> PosRaw(d, 20)
          [] lines = 4 /\ pos \in 20 .. 63 -> PosRaw(d, 84)
          [] OTHER -> d

(* _replace_UTF8_chars: what stands for a letter of two bytes, or 0 if the  *)
(* bytes stay.  No second byte is the first one of another letter.         *)
Substitute(first, second) ==
    CASE first = 195 /\ second = 129 -> 65
      [] first = 195 /\ second = 137 -> 69
      [] first = 195 /\ second = 141 -> 73
      [] first = 195 /\ second = 147 -> 79
      [] first = 195 /\ second = 154 -> 85
      [] first = 195 /\ second = 161 -> 97
      [] first = 195 /\ second = 169 -> 101
      [] first = 195 /\ second = 173 -> 105
      [] first = 195 /\ second = 179 -> 111
      [] first = 195 /\ second = 186 -> 117
      [] first = 195 /\ second \in {145, 177} -> 238
      [] first = 194 /\ second = 186 -> 223
      [] OTHER -> 0

Known(s, i) == i < Len(s) /\ Substitute(s[i], s[i + 1]) # 0

Replaced(s) ==
    LET t[i \in 0 .. Len(s)] ==
            IF i = 0 THEN <<>>
            ELSE IF Known(s, i) THEN Append(t[i - 1], Substitute(s[i], s[i + 1]))
            ELSE IF i > 1 /\ Known(s, i - 1) THEN t[i - 1]
            ELSE Append(t[i - 1], s[i])
    IN  t[Len(s)]

(* lcd_print of a string of bytes.                                         *)
Printed(c, lines, s) ==
    LET chars == Replaced(s)
        after[i \in 0 .. Len(chars)] ==
            IF i = 0 THEN c
            ELSE IF chars[i] = 10 THEN NextLine(after[i - 1], lines)
            ELSE Putc(after[i - 1], chars[i])
    IN  after[Len(chars)]

(* lcd_printf: vsnprintf into linesize bytes, terminator included.         *)
Formatted(s) == SubSeq(s, 1, IF Len(s) < LineSize THEN Len(s) ELSE LineSize - 1)

(* lcd_create_char: set the address in the generator, write, go back.  The *)
(* generator holds characters 0 to 7; the code lets 8 pass, whose byte,    *)
(* 64 + 8 * 8, is the command that sets address 0 of the text.             *)
CreateChar(c, n, rows) ==
    IF n < 0 \/ n > 8 THEN c ELSE
    LET cursorPos == ReadRaw(c, 0)
        written[i \in 0 .. 8] ==
            IF i = 0 THEN Raw(AfterRead(c, 0), 0, 64 + 8 * n)
            ELSE Putc(written[i - 1], rows[i])
    IN  PosRaw(written[8], cursorPos)

-------------------------------------------------------------------------------
(* A letter in UTF-8, but for the null character, which ends a string.     *)
Letter(l) ==
    \/ l \in [1 .. 1 -> 1 .. 127]
    \/ \E n \in 2 .. 4 :
        /\ l \in [1 .. n -> 128 .. 255]
        /\ l[1] >= 194 /\ (l[1] < 224 <=> n = 2)
        /\ \A i \in 2 .. n : l[i] < 192

(* A letter the library knows has a cell to look like, the bytes of others *)
(* are shown as they are.                                                  *)
ASSUME TextAssumption ==
    /\ Displays \subseteq {1, 2, 4}
    /\ \A l \in Letters : Letter(l)
    /\ Texts \subseteq Seq(Letters)
    /\ DOMAIN CellsOf = Letters
    /\ \A l \in Letters :
        CellsOf[l] = IF Known(l, 1) THEN <<Substitute(l[1], l[2])>> ELSE l
    /\ AskedColumns \subseteq Nat
    /\ Characters \subseteq Int
    /\ Pictures \subseteq [1 .. 8 -> 0 .. 255]
    /\ LineSize \in Nat \ {0}
    /\ MaxCalls \in Nat

-------------------------------------------------------------------------------
(* lcd_create: function set by the number of lines, cursor, display and    *)
(* entry mode, clear and home, on a controller that lcd_reset has brought  *)
(* to 4-bit mode.                                                          *)
AfterReset ==
    [bits |-> 4, upper |-> -1, two |-> FALSE, addr |-> 0, right |-> TRUE,
     cg |-> FALSE, shift |-> 0, look |-> 0, text |-> [i \in 0 .. 79 |-> 88],
     glyphs |-> [i \in 0 .. 63 |-> 0]]

Configured(lines) ==
    LET function == Raw(AfterReset, 0, IF lines > 1 THEN 40 ELSE 32)
        cursorMove == Raw(function, 0, 16)
        display == Raw(cursorMove, 0, 12)
        entryMode == Raw(display, 0, 4)
        cleared == Raw(entryMode, 0, 1)
    IN  Raw(cleared, 0, 2)

TextInit ==
    /\ lcd \in [lines : Displays, look : {4}, backlight : {TRUE}, live : {TRUE}]
    /\ hd = Configured(lcd.lines)
    /\ lit = TRUE
    /\ got = 0
    /\ calls = 0

(* Every transfer carries the backlight bit with it.                       *)
Call(c) ==
    /\ lcd.live
    /\ calls < MaxCalls
    /\ calls' = calls + 1
    /\ hd' = c
    /\ lit' = lcd'.backlight

Bytes(t) == FlattenSeq(t)

LcdPrint ==
    /\ UNCHANGED <<lcd, got>>
    /\ \E t \in Texts : Call(Printed(hd, lcd.lines, Bytes(t)))

LcdPrintf ==
    /\ UNCHANGED <<lcd, got>>
    /\ \E t \in Texts : Call(Printed(hd, lcd.lines, Formatted(Bytes(t))))

Width(lines) == CASE lines = 4 -> 20 [] lines = 2 -> 40 [] OTHER -> 80

LcdPos ==
    /\ UNCHANGED <<lcd, got>>
    /\ \E row \in 0 .. lcd.lines - 1, col \in AskedColumns :
        col < Width(lcd.lines) /\ Call(Pos(hd, row, col))

LcdClear == UNCHANGED <<lcd, got>> /\ Call(Raw(hd, 0, 1))
LcdHome == UNCHANGED <<lcd, got>> /\ Call(Raw(hd, 0, 2))

LcdCreateChar ==
    /\ UNCHANGED <<lcd, got>>
    /\ \E n \in Characters, p \in Pictures : Call(CreateChar(hd, n, p))

LcdReadData ==
    /\ UNCHANGED lcd
    /\ Call(AfterRead(hd, 1))
    /\ got' = ReadRaw(hd, 1)

(* lcd_on, lcd_off, lcd_cursor_on, ..., lcd_blink_off: one bit of          *)
(* display_set changes and all of it is sent again.                        *)
LcdSwitch ==
    /\ \E bit \in {1, 2, 4}, on \in BOOLEAN :
        lcd' = [lcd EXCEPT !.look =
                   IF Bit(@, bit) = on THEN @ ELSE IF on THEN @ + bit ELSE @ - bit]
    /\ Call(Raw(hd, 0, 8 + lcd'.look))
    /\ UNCHANGED got

(* lcd_backlight_on, lcd_backlight_off *)
LcdBacklight ==
    /\ \E on \in BOOLEAN : lcd' = [lcd EXCEPT !.backlight = on]
    /\ Call(Raw(hd, 0, 8 + lcd'.look))
    /\ UNCHANGED got

(* lcd_reset, whose nibbles stand alone. *)
Reset(c) == Strobe(Strobe(Strobe(Strobe(c, 0, 3), 0, 3), 0, 3), 0, 2)

(* lcd_destroy: the display and the light go off; lcd_reset leaves the     *)
(* controller as it is before lcd_create.                                  *)
LcdDestroy ==
    /\ LET look == lcd.look - (IF Bit(lcd.look, 4) THEN 4 ELSE 0)
       IN  /\ lcd' = [lcd EXCEPT !.look = look, !.backlight = FALSE, !.live = FALSE]
           /\ Call(Reset(Raw(Raw(hd, 0, 8 + look), 0, 8 + look)))
    /\ UNCHANGED got

TextNext ==
    \/ LcdDestroy
    \/ LcdPrint \/ LcdPrintf \/ LcdPos \/ LcdClear \/ LcdHome
    \/ LcdCreateChar \/ LcdReadData \/ LcdSwitch \/ LcdBacklight

-------------------------------------------------------------------------------
(* Properties. *)

(* Where an address of the text is on the glass. *)
RowStart(lines) == IF lines = 4 THEN RowsValue ELSE <<0, 64>>
PlaceOf(a, lines) ==
    LET row == CHOOSE r \in 1 .. lines :
                   a - RowStart(lines)[r] \in 0 .. Width(lines) - 1
    IN  <<row, a - RowStart(lines)[row] + 1>>

(* lcd_printf takes only so many bytes, and may take half a letter.        *)
Shown(t) == FlattenSeq([i \in DOMAIN t |-> CellsOf[t[i]]])
ShownBytes(t, n) ==
    LET Used(k) == Len(Bytes(SubSeq(t, 1, k)))
        k == CHOOSE k \in 0 .. Len(t) :
                 Used(k) <= n /\ (k < Len(t) => Used(k + 1) > n)
        half == IF k < Len(t) THEN SubSeq(t[k + 1], 1, n - Used(k)) ELSE <<>>
    IN  Shown(SubSeq(t, 1, k)) \o half

(* The library implements TextScreen: whatever the calls before, a text    *)
(* comes out letter by letter at the cursor, which line feeds move         *)
(* (soft_lcd.c:213-230,284-356); drawing one of the eight characters       *)
(* disturbs neither text nor cursor (239-252), while drawing a ninth one   *)
(* overwrites the first eight cells (DrawingKeepsText); the light and the  *)
(* display stay as switched.                                               *)
Screen == INSTANCE TextScreen WITH
    Words <- {Shown(t) : t \in Texts} \union {ShownBytes(t, LineSize - 1) : t \in Texts},
    LineFeed <- 10,
    Blank <- Space,
    glass <- [r \in 1 .. lcd.lines |-> [c \in 1 .. Width(lcd.lines) |->
                 IF lcd.live THEN hd.text[Cell(hd, RowStart(lcd.lines)[r] + c - 1)]
                 ELSE Space]],
    cursor <- PlaceOf(hd.addr, lcd.lines),
    look <- {w \in {"text", "cursor", "blinking"} :
                Bit(hd.look, CASE w = "text" -> 4 [] w = "cursor" -> 2
                               [] w = "blinking" -> 1)},
    light <- lit,
    pictures <- [n \in 0 .. 7 |-> [i \in 1 .. 8 |-> hd.glyphs[8 * n + i - 1]]],
    answer <- got
ShowsText == Screen!ScreenSpec

(* lcd_create_char is to "create characters in the CGRAM table"            *)
(* (soft_lcd.c:236), so the text stays as it is.  It does not hold.        *)
DrawingKeepsText == [][LcdCreateChar => hd'.text = hd.text]_textVars
===============================================================================
