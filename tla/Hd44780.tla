-------------------------------- MODULE Hd44780 --------------------------------
(***************************************************************************)
(* The HD44780 display controller as a program meets it, external to the   *)
(* repository: soft_lcd.c reaches it nibble by nibble through a port       *)
(* expander.  The time an instruction takes is left out.                   *)
(***************************************************************************)
EXTENDS Integers

(* bits is the width of its interface; upper the first nibble of a byte in *)
(* 4-bit mode, -1 if there is none; addr the address counter, which counts *)
(* in the character generator (cg) or in the text, whose 80 characters     *)
(* form two lines or one.                                                  *)
Controllers ==
    [bits : {4, 8}, upper : -1 .. 15, two : BOOLEAN, addr : 0 .. 127,
     right : BOOLEAN, cg : BOOLEAN, shift : 0 .. 39, look : 0 .. 7,
     text : [0 .. 79 -> 0 .. 255], glyphs : [0 .. 63 -> 0 .. 255]]

Space == 32
Blank == [i \in 0 .. 79 |-> Space]

(* The lines start at 0 and at 64, and the counter goes from the end of    *)
(* one to the start of the other.                                          *)
Address(c, toRight) ==
    IF c.two
    THEN IF toRight
         THEN CASE c.addr = 39 -> 64 [] c.addr = 103 -> 0
                [] OTHER -> (c.addr + 1) % 128
         ELSE CASE c.addr = 64 -> 39 [] c.addr = 0 -> 103
                [] OTHER -> (c.addr + 127) % 128
    ELSE IF toRight
         THEN IF c.addr = 79 THEN 0 ELSE (c.addr + 1) % 128
         ELSE IF c.addr = 0 THEN 79 ELSE c.addr - 1

(* The place in the text of an address, or of none.                        *)
Cell(c, a) ==
    CASE ~c.two /\ a \in 0 .. 79 -> a
      [] c.two /\ a \in 0 .. 39 -> a
      [] c.two /\ a \in 64 .. 103 -> a - 24
      [] OTHER -> -1

Bit(byte, weight) == (byte \div weight) % 2 = 1

Command(c, byte) ==
    CASE byte >= 128 -> [c EXCEPT !.addr = byte - 128, !.cg = FALSE]
      [] byte \in 64 .. 127 -> [c EXCEPT !.addr = byte - 64, !.cg = TRUE]
      [] byte \in 32 .. 63 ->
            [c EXCEPT !.bits = IF Bit(byte, 16) THEN 8 ELSE 4,
                      !.two = Bit(byte, 8)]
      [] byte \in 16 .. 31 ->
            IF Bit(byte, 8)
            THEN [c EXCEPT !.shift = (@ + IF Bit(byte, 4) THEN 1 ELSE -1) % 40]
            ELSE [c EXCEPT !.addr = Address(c, Bit(byte, 4))]
      [] byte \in 8 .. 15 -> [c EXCEPT !.look = byte - 8]
      [] byte \in 4 .. 7 -> [c EXCEPT !.right = Bit(byte, 2)]
      [] byte \in 2 .. 3 -> [c EXCEPT !.addr = 0, !.shift = 0, !.cg = FALSE]
      [] byte = 1 -> [c EXCEPT !.text = Blank, !.addr = 0, !.right = TRUE,
                               !.shift = 0, !.cg = FALSE]
      [] OTHER -> c

Moved(c) ==
    [c EXCEPT !.addr = IF c.cg THEN (@ + IF c.right THEN 1 ELSE 63) % 64
                       ELSE Address(c, c.right)]

Data(c, byte) ==
    IF c.cg THEN Moved([c EXCEPT !.glyphs[c.addr % 64] = byte])
    ELSE IF Cell(c, c.addr) = -1 THEN Moved(c)
    ELSE Moved([c EXCEPT !.text[Cell(c, c.addr)] = byte])

Execute(c, rs, byte) == IF rs = 1 THEN Data(c, byte) ELSE Command(c, byte)

(* A falling edge of Enable with nibble n on the data lines. *)
Strobe(c, rs, n) ==
    IF c.bits = 8 THEN Execute(c, rs, 16 * n)
    ELSE IF c.upper = -1 THEN [c EXCEPT !.upper = n]
    ELSE Execute([c EXCEPT !.upper = -1], rs, 16 * c.upper + n)

(* The byte that a read finds: the address counter (the busy flag, above   *)
(* it, is clear, since time is left out), or what is at the counter.       *)
Readable(c, rs) ==
    CASE rs = 0 -> c.addr
      [] rs = 1 /\ c.cg -> c.glyphs[c.addr % 64]
      [] rs = 1 /\ ~c.cg /\ Cell(c, c.addr) # -1 -> c.text[Cell(c, c.addr)]
      [] OTHER -> 0

(* The nibble on the data lines while Enable is high, and the controller   *)
(* when it falls: nibbles that are read count, and data read moves on.     *)
Sensed(c, rs) ==
    IF c.bits = 8 \/ c.upper = -1 THEN Readable(c, rs) \div 16
    ELSE Readable(c, rs) % 16

StrobeRead(c, rs) ==
    IF c.bits = 4 /\ c.upper = -1 THEN [c EXCEPT !.upper = 0]
    ELSE LET d == [c EXCEPT !.upper = -1] IN IF rs = 1 THEN Moved(d) ELSE d
===============================================================================
