-------------------------------- MODULE SoftLcd --------------------------------
(***************************************************************************)
(* soft_lcd.c of esp_bus, as its display task uses it: lcd_create resets   *)
(* and configures an HD44780 behind a PCF8574 port expander, and then      *)
(* update_lcd_physical sends the 80 characters of lcd_ram over and over.   *)
(* The controller listens on four lines, so every byte goes out as two     *)
(* nibbles, each in an I2C transfer of its own that may fail.  Nothing     *)
(* tells the controller which nibble is which: both sides count.           *)
(***************************************************************************)
EXTENDS Hd44780, Sequences

CONSTANTS
    Ram,        \* lcd_ram, as character codes
    PowerOn,    \* the controllers lcd_create may find
    MaxFaults   \* I2C transfers that fail

ASSUME LcdAssumption ==
    /\ Ram \in [0 .. 79 -> 0 .. 255]
    /\ PowerOn \subseteq Controllers
    /\ \A c \in PowerOn : c.bits = 8 => c.upper = -1
    /\ MaxFaults \in Nat

VARIABLES
    stage,      \* the driver: "reset", "init" or "frame"
    step,       \* the byte (or, in lcd_reset, nibble) it sends next
    half,       \* the nibble of that byte: "upper" or "lower"
    err,        \* lcd->err, which nobody reads
    framed,     \* history: a whole frame has been sent
    faults,     \* transfers that failed
    panel       \* the controller

frameVars == <<stage, step, half, err, framed, faults, panel>>

-------------------------------------------------------------------------------
(* What the driver sends.  lcd_reset sends single nibbles (ResetTwice: one *)
(* too few), the rest sends bytes with their register select.              *)
ResetTwice == <<3, 3, 2>>
ResetNibbles == <<3, 3, 3, 2>>

(* lcd_init with the settings of lcd_create: function set, cursor, display *)
(* and entry mode, then clear and home.  The entry mode it sets moves the  *)
(* cursor to the left; that characters run to the right all the same is    *)
(* due to the clear that comes after it.                                   *)
Commands(bytes) == [i \in DOMAIN bytes |-> [rs |-> 0, byte |-> bytes[i]]]
InitClearingFirst == Commands(<<1, 2, 40, 16, 12, 4>>)
InitBytes == Commands(<<40, 16, 12, 4, 1, 2>>)

(* update_lcd_physical: lcd_pos(0, 0), then the 80 characters in the order *)
(* of their addresses; a null character goes out as a backslash.           *)
Char(i) == IF Ram[i] = 0 THEN 92 ELSE Ram[i]
FrameBytes ==
    [i \in 1 .. 81 |-> IF i = 1 THEN [rs |-> 0, byte |-> 128]
                       ELSE [rs |-> 1, byte |-> Char(i - 2)]]

Job(s) == IF s = "reset" THEN ResetNibbles
          ELSE IF s = "init" THEN InitBytes ELSE FrameBytes

RegisterSelect == IF stage = "reset" THEN 0 ELSE Job(stage)[step].rs

Nibble ==
    IF stage = "reset" THEN ResetNibbles[step]
    ELSE IF half = "upper" THEN Job(stage)[step].byte \div 16
    ELSE Job(stage)[step].byte % 16

-------------------------------------------------------------------------------
FrameTypeOK ==
    /\ stage \in {"reset", "init", "frame"}
    /\ step \in 1 .. Len(Job(stage))
    /\ half \in {"upper", "lower"}
    /\ err \in BOOLEAN
    /\ framed \in BOOLEAN
    /\ faults \in 0 .. MaxFaults
    /\ panel \in Controllers

(* A restart of the chip does not switch the panel off: lcd_create finds   *)
(* the controller as the last run left it, between any two nibbles.        *)
FrameInit ==
    /\ stage = "reset"
    /\ step = 1
    /\ half = "upper"
    /\ err = FALSE
    /\ framed = FALSE
    /\ faults = 0
    /\ panel \in PowerOn

(* The driver's position after this nibble.  Bytes have two halves, the    *)
(* nibbles of lcd_reset stand alone; frames follow each other for ever.    *)
LastStepTooFar == step > Len(Job(stage))
LastStep == step = Len(Job(stage))

Advance ==
    IF stage # "reset" /\ half = "upper"
    THEN half' = "lower" /\ UNCHANGED <<stage, step, framed>>
    ELSE /\ half' = "upper"
         /\ IF LastStep
            THEN /\ step' = 1
                 /\ stage' = IF stage = "reset" THEN "init" ELSE "frame"
                 /\ framed' = (framed \/ stage = "frame")
            ELSE step' = step + 1 /\ UNCHANGED <<stage, framed>>

(* _pcf8574_put: the transfer succeeds. *)
Put ==
    /\ panel' = Strobe(panel, RegisterSelect, Nibble)
    /\ Advance
    /\ UNCHANGED <<err, faults>>

(* _pcf8574_put: the transfer fails before or after the edge of Enable.    *)
(* The error is noted and the driver goes on.                              *)
PutFails ==
    /\ faults < MaxFaults
    /\ faults' = faults + 1
    /\ err' = TRUE
    /\ panel' \in {panel, Strobe(panel, RegisterSelect, Nibble)}
    /\ Advance

FrameNext == Put \/ PutFails

FrameSpec == FrameInit /\ [][FrameNext]_frameVars

(* The display task is given new data, and the processor, again and again. *)
FairSpec == FrameSpec /\ WF_frameVars(Put)

-------------------------------------------------------------------------------
(* Properties. *)

(* Driver and controller agree on the mode and on whose turn it is. *)
Synced == panel.bits = 4 /\ (panel.upper = -1 <=> half = "upper")

(* lcd_reset brings the controller from whatever state it was in "into a   *)
(* known state and set 4 bit mode" (soft_lcd.c:173), and the two stay in   *)
(* step as long as lcd->err has not been set.                              *)
SyncedOrError == stage # "reset" => Synced \/ err

(* The rows of the glass: row r of the RAM (lcd.h:25-28) is on row r of    *)
(* the panel, which lcd_pos addresses as soft_lcd.c:165 says.              *)
RowInRam == <<0, 40, 20, 60>>
RowAddress == <<0, 64, 20, 84>>

PanelRight ==
    /\ Bit(panel.look, 4) /\ panel.shift = 0
    /\ \A r \in 1 .. 4, c \in 0 .. 19 :
        panel.text[Cell(panel, RowAddress[r] + c)] = Char(RowInRam[r] + c)

BetweenFrames == stage = "frame" /\ step = 1 /\ half = "upper"

(* After a frame the panel shows every row of lcd_ram at its place, though *)
(* the driver sends 80 characters in one go and addresses only the first.  *)
FrameRight == framed /\ BetweenFrames /\ ~err => PanelRight

(* "Every second, the contets of this variable are transfer to the         *)
(* physical LCD device" (main.c:35): also after a transfer that failed.    *)
PanelRecovers == []<>PanelRight
===============================================================================
