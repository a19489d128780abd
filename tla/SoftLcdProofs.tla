------------------------------ MODULE SoftLcdProofs ------------------------------
(***************************************************************************)
(* Driver and display controller stay in step and the panel shows what is  *)
(* in the RAM of the display task, for every contents of that RAM and      *)
(* every state of the controller that a restart may find.  The library of  *)
(* calls implements TextScreen for every text, display and picture, and    *)
(* whatever number lcd_create_char is given.                               *)
(***************************************************************************)
EXTENDS LcdLibrary, SequenceTheorems, WellFoundedInduction, TLAPS

-------------------------------------------------------------------------------
(* The part of the controller that the two must agree on: how wide its     *)
(* interface is, and which nibble it waits for.                            *)
Interface(c) ==
    /\ {"bits", "upper"} \subseteq DOMAIN c
    /\ c.bits \in {4, 8}
    /\ c.upper \in -1 .. 15

Mode(c) == <<c.bits, c.upper>>

SameMode(c, d) == Interface(d) /\ Mode(d) = Mode(c)

(* A change of anything else leaves it alone. *)
LEMMA OtherField ==
    ASSUME NEW c, Interface(c), NEW f \in {"addr", "cg", "two", "shift", "look",
                   "right", "text", "glyphs"}, NEW v
    PROVE  SameMode(c, [c EXCEPT ![f] = v])
BY DEF Interface, SameMode, Mode

LEMMA MovedMode ==
    ASSUME NEW c, Interface(c)
    PROVE  SameMode(c, Moved(c))
<1> DEFINE a == IF c.cg THEN (c.addr + IF c.right THEN 1 ELSE 63) % 64
                ELSE Address(c, c.right)
<1>1. Moved(c) = [c EXCEPT !.addr = a]
  BY DEF Moved
<1> HIDE DEF a
<1> QED
  BY <1>1 DEF Interface, SameMode, Mode

LEMMA DataMode ==
    ASSUME NEW c, Interface(c), NEW byte
    PROVE  SameMode(c, Data(c, byte))
<1>1. CASE c.cg
  <2> DEFINE d == [c EXCEPT !.glyphs[c.addr % 64] = byte]
  <2>1. SameMode(c, d)
    BY DEF Interface, SameMode, Mode
  <2>2. Data(c, byte) = Moved(d)
    BY <1>1 DEF Data
  <2> HIDE DEF d
  <2> QED
    BY <2>1, <2>2, MovedMode DEF SameMode
<1>2. CASE ~c.cg /\ Cell(c, c.addr) = -1
  BY <1>2, MovedMode DEF Data
<1>3. CASE ~c.cg /\ Cell(c, c.addr) # -1
  <2> DEFINE d == [c EXCEPT !.text[Cell(c, c.addr)] = byte]
  <2>1. SameMode(c, d)
    BY DEF Interface, SameMode, Mode
  <2>2. Data(c, byte) = Moved(d)
    BY <1>3 DEF Data
  <2> HIDE DEF d
  <2> QED
    BY <2>1, <2>2, MovedMode DEF SameMode
<1> QED
  BY <1>1, <1>2, <1>3

(* Only the function set, 32 .. 63, changes the width of the interface.    *)
LEMMA CommandMode ==
    ASSUME NEW c, Interface(c), NEW byte \in 0 .. 255
    PROVE  /\ Interface(Command(c, byte))
           /\ Command(c, byte).upper = c.upper
           /\ ~(byte \in 32 .. 63) => Command(c, byte).bits = c.bits
           /\ byte \in 32 .. 63 /\ Bit(byte, 16) => Command(c, byte).bits = 8
           /\ byte \in 32 .. 63 /\ ~Bit(byte, 16) => Command(c, byte).bits = 4
<1>1. CASE byte >= 128
  <2>1. Command(c, byte) = [c EXCEPT !.addr = byte - 128, !.cg = FALSE]
    BY <1>1 DEF Command
  <2> QED
    BY <1>1, <2>1 DEF Interface
<1>2. CASE byte \in 64 .. 127
  <2>1. Command(c, byte) = [c EXCEPT !.addr = byte - 64, !.cg = TRUE]
    BY <1>2 DEF Command
  <2> QED
    BY <1>2, <2>1 DEF Interface
<1>3. CASE byte \in 32 .. 63
  <2> DEFINE w == IF Bit(byte, 16) THEN 8 ELSE 4
             l == Bit(byte, 8)
  <2>1. Command(c, byte) = [c EXCEPT !.bits = w, !.two = l]
    BY <1>3 DEF Command
  <2>2. w \in {4, 8}
    OBVIOUS
  <2> HIDE DEF l
  <2>3. Command(c, byte).bits = w
    BY <2>1 DEF Interface
  <2>4. Interface(Command(c, byte)) /\ Command(c, byte).upper = c.upper
    BY <2>1, <2>2 DEF Interface
  <2> QED
    BY <1>3, <2>3, <2>4
<1>4. CASE byte \in 16 .. 31
  <2> DEFINE s == (c.shift + IF Bit(byte, 4) THEN 1 ELSE -1) % 40
             a == Address(c, Bit(byte, 4))
  <2>1. \/ Command(c, byte) = [c EXCEPT !.shift = s]
        \/ Command(c, byte) = [c EXCEPT !.addr = a]
    BY <1>4 DEF Command
  <2> HIDE DEF s, a
  <2> QED
    BY <1>4, <2>1 DEF Interface
<1>5. CASE byte \in 8 .. 15
  <2>1. Command(c, byte) = [c EXCEPT !.look = byte - 8]
    BY <1>5 DEF Command
  <2> QED
    BY <1>5, <2>1 DEF Interface
<1>6. CASE byte \in 4 .. 7
  <2> DEFINE r == Bit(byte, 2)
  <2>1. Command(c, byte) = [c EXCEPT !.right = r]
    BY <1>6 DEF Command
  <2> HIDE DEF r
  <2> QED
    BY <1>6, <2>1 DEF Interface
<1>7. CASE byte \in 2 .. 3
  <2>1. Command(c, byte) = [c EXCEPT !.addr = 0, !.shift = 0, !.cg = FALSE]
    BY <1>7 DEF Command
  <2> QED
    BY <1>7, <2>1 DEF Interface
<1>8. CASE byte = 1
  <2>1. Command(c, byte) = [c EXCEPT !.text = Blank, !.addr = 0, !.right = TRUE,
                                     !.shift = 0, !.cg = FALSE]
    BY <1>8 DEF Command
  <2> DEFINE d == [c EXCEPT !.text = Blank, !.addr = 0]
             e == [d EXCEPT !.right = TRUE, !.shift = 0, !.cg = FALSE]
  <2>2. Command(c, byte) = e
    BY <2>1
  <2>3. SameMode(c, d)
    BY DEF Interface, SameMode, Mode
  <2> HIDE DEF d
  <2>4. SameMode(d, e)
    BY <2>3 DEF Interface, SameMode, Mode
  <2> HIDE DEF e
  <2> QED
    BY <1>8, <2>2, <2>3, <2>4 DEF SameMode, Mode
<1>9. CASE byte = 0
  <2>1. Command(c, byte) = c
    BY <1>9 DEF Command
  <2> QED
    BY <1>9, <2>1
<1>10. \/ byte >= 128 \/ byte \in 64 .. 127 \/ byte \in 32 .. 63
       \/ byte \in 16 .. 31 \/ byte \in 8 .. 15 \/ byte \in 4 .. 7
       \/ byte \in 2 .. 3 \/ byte = 1 \/ byte = 0
  OBVIOUS
<1> QED
  BY <1>1, <1>2, <1>3, <1>4, <1>5, <1>6, <1>7, <1>8, <1>9, <1>10

LEMMA ExecuteInterface ==
    ASSUME NEW c, Interface(c), NEW rs, NEW byte \in 0 .. 255
    PROVE  Interface(Execute(c, rs, byte)) /\ Execute(c, rs, byte).upper = c.upper
<1>1. CASE rs = 1
  BY <1>1, DataMode DEF Execute, SameMode, Mode
<1>2. CASE rs # 1
  BY <1>2, CommandMode DEF Execute
<1> QED
  BY <1>1, <1>2

(* A nibble that finds the controller in 8-bit mode, first in 4-bit mode,  *)
(* and second.                                                             *)
LEMMA StrobeWide ==
    ASSUME NEW c, Interface(c), c.bits = 8, NEW rs, NEW n \in 0 .. 15
    PROVE  /\ Strobe(c, rs, n) = Execute(c, rs, 16 * n)
           /\ Interface(Strobe(c, rs, n))
<1>1. Strobe(c, rs, n) = Execute(c, rs, 16 * n)
  BY DEF Strobe
<1>2. 16 * n \in 0 .. 255
  OBVIOUS
<1> QED
  BY <1>1, <1>2, ExecuteInterface

LEMMA StrobeFirst ==
    ASSUME NEW c, Interface(c), c.bits = 4, c.upper = -1, NEW rs, NEW n \in 0 .. 15
    PROVE  /\ Strobe(c, rs, n) = [c EXCEPT !.upper = n]
           /\ Interface(Strobe(c, rs, n))
           /\ Mode(Strobe(c, rs, n)) = <<4, n>>
<1>1. Strobe(c, rs, n) = [c EXCEPT !.upper = n]
  BY DEF Strobe
<1> QED
  BY <1>1 DEF Interface, Mode

LEMMA ExecuteMode ==
    ASSUME NEW d, Interface(d), d.bits = 4, d.upper = -1, NEW rs, NEW byte \in 0 .. 255
    PROVE  /\ Interface(Execute(d, rs, byte))
           /\ Execute(d, rs, byte).upper = -1
           /\ rs # 1 /\ byte \in 32 .. 63 /\ Bit(byte, 16) =>
                  Execute(d, rs, byte).bits = 8
           /\ rs = 1 \/ ~(byte \in 32 .. 63) \/ ~Bit(byte, 16) =>
                  Execute(d, rs, byte).bits = 4
<1>1. CASE rs = 1
  BY <1>1, DataMode, ExecuteInterface DEF Execute, SameMode, Mode
<1>2. CASE rs # 1
  <2>1. Execute(d, rs, byte) = Command(d, byte)
    BY <1>2 DEF Execute
  <2>2. Interface(Command(d, byte)) /\ Command(d, byte).upper = -1
    BY CommandMode
  <2>3. ASSUME ~(byte \in 32 .. 63) PROVE Command(d, byte).bits = 4
    <3>1. Command(d, byte).bits = d.bits
      BY <2>3, CommandMode, Zenon
    <3> QED
      BY <3>1
  <2>4. byte \in 32 .. 63 /\ Bit(byte, 16) => Command(d, byte).bits = 8
    BY CommandMode
  <2>5. byte \in 32 .. 63 /\ ~Bit(byte, 16) => Command(d, byte).bits = 4
    BY CommandMode
  <2> QED
    BY <1>2, <2>1, <2>2, <2>3, <2>4, <2>5
<1> QED
  BY <1>1, <1>2

LEMMA StrobeSecond ==
    ASSUME NEW c, Interface(c), c.bits = 4, c.upper # -1, NEW rs, NEW n \in 0 .. 15
    PROVE  \E d, byte : /\ Interface(d) /\ d.bits = 4 /\ d.upper = -1
                        /\ byte \in 0 .. 255 /\ byte = 16 * c.upper + n
                        /\ Strobe(c, rs, n) = Execute(d, rs, byte)
<1> DEFINE d == [c EXCEPT !.upper = -1]
<1>1. Strobe(c, rs, n) = Execute(d, rs, 16 * c.upper + n)
  BY DEF Strobe
<1>2. Interface(d) /\ d.bits = 4 /\ d.upper = -1
  BY DEF Interface
<1>3. 16 * c.upper + n \in 0 .. 255
  BY DEF Interface
<1> HIDE DEF d
<1> QED
  BY <1>1, <1>2, <1>3

LEMMA StrobeInterface ==
    ASSUME NEW c, Interface(c), NEW rs, NEW n \in 0 .. 15
    PROVE  Interface(Strobe(c, rs, n))
<1>1. CASE c.bits = 8
  BY <1>1, StrobeWide
<1>2. CASE c.bits = 4 /\ c.upper = -1
  BY <1>2, StrobeFirst
<1>3. CASE c.bits = 4 /\ c.upper # -1
  <2>1. \E d, byte : /\ Interface(d) /\ byte \in 0 .. 255
                     /\ Strobe(c, rs, n) = Execute(d, rs, byte)
    BY <1>3, StrobeSecond
  <2> QED
    BY <2>1, ExecuteInterface
<1> QED
  BY <1>1, <1>2, <1>3 DEF Interface

-------------------------------------------------------------------------------
(* What lcd_reset sends, and what it makes of a controller: 3 as the       *)
(* second half of any byte but 0x33 leaves 4-bit mode at a boundary, 0x33  *)
(* or 0x30 makes it an 8-bit one, where 2 is the command for 4-bit mode.   *)
LEMMA ThreeWide ==
    ASSUME NEW c, Interface(c), c.bits = 8, c.upper = -1
    PROVE  Mode(Strobe(c, 0, 3)) = <<8, -1>>
<1>1. Strobe(c, 0, 3) = Command(c, 48)
  BY StrobeWide DEF Execute
<1>2. Bit(48, 16)
  BY DEF Bit
<1> QED
  BY <1>1, <1>2, CommandMode DEF Mode

LEMMA TwoWide ==
    ASSUME NEW c, Interface(c), c.bits = 8, c.upper = -1
    PROVE  Mode(Strobe(c, 0, 2)) = <<4, -1>>
<1>1. Strobe(c, 0, 2) = Command(c, 32)
  BY StrobeWide DEF Execute
<1>2. ~Bit(32, 16)
  BY DEF Bit
<1> QED
  BY <1>1, <1>2, CommandMode DEF Mode

LEMMA ThreeSecond ==
    ASSUME NEW c, Interface(c), c.bits = 4, c.upper # -1
    PROVE  /\ Mode(Strobe(c, 0, 3)) \in {<<4, -1>>, <<8, -1>>}
           /\ c.upper = 3 => Mode(Strobe(c, 0, 3)) = <<8, -1>>
<1>1. PICK d, byte : /\ Interface(d) /\ d.bits = 4 /\ d.upper = -1
                     /\ byte \in 0 .. 255 /\ byte = 16 * c.upper + 3
                     /\ Strobe(c, 0, 3) = Execute(d, 0, byte)
  BY StrobeSecond
<1>2. Interface(Strobe(c, 0, 3)) /\ Strobe(c, 0, 3).upper = -1
  <2>1. byte \in 0 .. 255 /\ Interface(d) /\ d.upper = -1
    BY <1>1
  <2>2. Interface(Execute(d, 0, byte)) /\ Execute(d, 0, byte).upper = -1
    BY <2>1, ExecuteInterface
  <2> QED
    BY <1>1, <2>2
<1>3. ASSUME c.upper = 3 PROVE Strobe(c, 0, 3).bits = 8
  <2>1. Bit(51, 16)
    BY DEF Bit
  <2>2. Strobe(c, 0, 3) = Execute(d, 0, 51)
    BY <1>1, <1>3
  <2>3. 51 \in 0 .. 255 /\ 51 \in 32 .. 63 /\ 0 # 1
    OBVIOUS
  <2>4. Execute(d, 0, 51).bits = 8
    BY <1>1, <2>1, <2>3, ExecuteMode
  <2> QED
    BY <2>2, <2>4
<1> QED
  BY <1>2, <1>3 DEF Mode, Interface

-------------------------------------------------------------------------------
(* What the driver sends after it: bytes that leave the interface at four  *)
(* lines.                                                                  *)
LEMMA CharIsByte ==
    ASSUME NEW i \in 0 .. 79
    PROVE  Char(i) \in 0 .. 255
BY LcdAssumption DEF Char

LEMMA InitByte ==
    ASSUME NEW v \in {40, 16, 12, 4, 1, 2}
    PROVE  v \in 0 .. 255 /\ (v \in 32 .. 63 => ~Bit(v, 16))
BY DEF Bit

LEMMA InitJob ==
    /\ Len(InitBytes) = 6
    /\ \A i \in 1 .. 6 : /\ InitBytes[i].rs = 0
                         /\ InitBytes[i].byte \in {40, 16, 12, 4, 1, 2}
BY DEF InitBytes, Commands

LEMMA FrameJob ==
    /\ Len(FrameBytes) = 81
    /\ FrameBytes[1] = [rs |-> 0, byte |-> 128]
    /\ \A i \in 2 .. 81 : FrameBytes[i] = [rs |-> 1, byte |-> Char(i - 2)]
BY DEF FrameBytes

LEMMA JobBytes ==
    ASSUME NEW s \in {"init", "frame"}, NEW i \in 1 .. Len(Job(s))
    PROVE  /\ Job(s)[i].rs \in {0, 1}
           /\ Job(s)[i].byte \in 0 .. 255
           /\ Job(s)[i].rs = 0 /\ Job(s)[i].byte \in 32 .. 63 => ~Bit(Job(s)[i].byte, 16)
<1>1. CASE s = "init"
  <2>1. Job(s) = InitBytes
    BY <1>1 DEF Job
  <2>2. i \in 1 .. 6
    BY <2>1, InitJob
  <2> QED
    BY <2>1, <2>2, InitJob, InitByte
<1>2. CASE s = "frame"
  <2>1. Job(s) = FrameBytes
    BY <1>2 DEF Job
  <2>2. i = 1 \/ i \in 2 .. 81
    BY <2>1, FrameJob
  <2>3. CASE i = 1
    BY <2>1, <2>3, FrameJob
  <2>4. CASE i \in 2 .. 81
    <3>1. Job(s)[i] = [rs |-> 1, byte |-> Char(i - 2)]
      BY <2>1, <2>4, FrameJob
    <3>2. i - 2 \in 0 .. 79
      BY <2>4
    <3>3. Char(i - 2) \in 0 .. 255
      BY <3>2, CharIsByte
    <3> QED
      BY <3>1, <3>3
  <2> QED
    BY <2>2, <2>3, <2>4
<1> QED
  BY <1>1, <1>2

-------------------------------------------------------------------------------
(* The inductive invariant.  How far lcd_reset has brought the controller  *)
(* is told by the modes it may be in before each nibble; after it the      *)
(* controller holds the upper half of the byte that is under way, or       *)
(* nothing.  All of that holds until the first error.                      *)
Expected ==
    CASE stage = "reset" /\ step = 1 -> panel.bits = 8 => panel.upper = -1
      [] stage = "reset" /\ step = 2 -> Mode(panel) \in {<<8, -1>>, <<4, -1>>, <<4, 3>>}
      [] stage = "reset" /\ step = 3 -> Mode(panel) \in {<<8, -1>>, <<4, 3>>}
      [] stage = "reset" /\ step = 4 -> Mode(panel) = <<8, -1>>
      [] stage # "reset" /\ half = "upper" -> Mode(panel) = <<4, -1>>
      [] OTHER -> Mode(panel) = <<4, Job(stage)[step].byte \div 16>>

Position ==
    /\ stage \in {"reset", "init", "frame"}
    /\ step \in 1 .. Len(Job(stage))
    /\ half \in {"upper", "lower"}
    /\ stage = "reset" => half = "upper"

FrameInv ==
    /\ Position
    /\ err \in BOOLEAN
    /\ Interface(panel)
    /\ ~err => Expected

(* A controller that lcd_create may find.                                  *)
LEMMA ControllersHaveInterface ==
    ASSUME NEW c \in Controllers
    PROVE  Interface(c)
BY DEF Controllers, Interface

LEMMA InitFrameInv == FrameInit => FrameInv
<1> SUFFICES ASSUME FrameInit
             PROVE  FrameInv
  OBVIOUS
<1>1. panel \in PowerOn /\ panel \in Controllers
  BY LcdAssumption DEF FrameInit
<1>2. Interface(panel)
  BY <1>1, ControllersHaveInterface
<1>3. Position
  BY DEF FrameInit, Position, Job, ResetNibbles
<1>4. Expected
  BY <1>1, LcdAssumption DEF FrameInit, Expected
<1> QED
  BY <1>2, <1>3, <1>4 DEF FrameInv, FrameInit

LEMMA Halves ==
    ASSUME NEW b \in 0 .. 255
    PROVE  b \div 16 \in 0 .. 15 /\ b % 16 \in 0 .. 15 /\ 16 * (b \div 16) + (b % 16) = b
OBVIOUS

LEMMA NibbleType ==
    ASSUME Position
    PROVE  Nibble \in 0 .. 15
<1>1. CASE stage = "reset"
  <2>1. step \in 1 .. 4
    BY <1>1 DEF Position, Job, ResetNibbles
  <2> QED
    BY <1>1, <2>1 DEF Nibble, ResetNibbles
<1>2. CASE stage # "reset"
  <2> DEFINE b == Job(stage)[step].byte
  <2>1. b \in 0 .. 255
    BY <1>2, JobBytes DEF Position
  <2>2. Nibble = b \div 16 \/ Nibble = b % 16
    BY <1>2 DEF Nibble
  <2> HIDE DEF b
  <2> QED
    BY <2>1, <2>2
<1> QED
  BY <1>1, <1>2

LEMMA ResetLength == Len(ResetNibbles) = 4
BY DEF ResetNibbles

(* Where a step of the driver leads. *)
LEMMA AdvancePosition ==
    ASSUME Position, Advance
    PROVE  /\ Position'
           /\ stage # "reset" /\ half = "upper" =>
                  stage' = stage /\ step' = step /\ half' = "lower"
           /\ stage = "reset" \/ half = "lower" => half' = "upper"
           /\ stage = "reset" /\ step # 4 => stage' = "reset" /\ step' = step + 1
           /\ stage = "reset" /\ step = 4 => stage' = "init"
           /\ stage # "reset" => stage' # "reset"
<1> DEFINE n == Len(Job(stage))
<1>1. n \in Nat \ {0} /\ (stage = "reset" => n = 4)
  <2>1. stage = "reset" => n = 4
    BY ResetLength DEF Job
  <2>2. stage = "init" => n = 6
    BY InitJob DEF Job
  <2>3. stage = "frame" => n = 81
    BY FrameJob DEF Job
  <2> HIDE DEF n
  <2> QED
    BY <2>1, <2>2, <2>3 DEF Position
<1>2. Len(Job("init")) = 6 /\ Len(Job("frame")) = 81
  BY InitJob, FrameJob DEF Job
<1>3. CASE stage # "reset" /\ half = "upper"
  BY <1>3 DEF Advance, Position
<1>4. CASE (stage = "reset" \/ half = "lower") /\ step = n
  <2>1. /\ half' = "upper" /\ step' = 1
        /\ stage' = IF stage = "reset" THEN "init" ELSE "frame"
    BY <1>4 DEF Advance, LastStep, Position
  <2> HIDE DEF n
  <2>2. stage' \in {"init", "frame"}
    BY <2>1
  <2>3. Len(Job(stage')) \in {6, 81}
    BY <2>2, <1>2
  <2>4. step' \in 1 .. Len(Job(stage'))
    BY <2>1, <2>3
  <2> QED
    BY <1>1, <1>4, <2>1, <2>2, <2>4 DEF Position
<1>5. CASE (stage = "reset" \/ half = "lower") /\ step # n
  <2>1. half' = "upper" /\ step' = step + 1 /\ stage' = stage
    BY <1>5 DEF Advance, LastStep, Position
  <2>2. step \in 1 .. n
    BY DEF Position
  <2> HIDE DEF n
  <2>3. step + 1 \in 1 .. n
    BY <1>1, <1>5, <2>2
  <2>4. step' \in 1 .. Len(Job(stage'))
    BY <2>1, <2>3 DEF n
  <2> QED
    BY <1>1, <1>5, <2>1, <2>4 DEF Position
<1> QED
  BY <1>3, <1>4, <1>5 DEF Position

(* A transfer that succeeds keeps what is expected. *)
LEMMA PutKeepsStep ==
    ASSUME Position, Interface(panel), Expected, Put
    PROVE  Expected'
<1> DEFINE p == Strobe(panel, RegisterSelect, Nibble)
<1>1. panel' = p /\ Advance
  BY DEF Put
<1>2. CASE stage = "reset"
  <2>1. RegisterSelect = 0 /\ Nibble = IF step = 4 THEN 2 ELSE 3
    BY <1>2, ResetLength DEF RegisterSelect, Nibble, ResetNibbles, Position, Job
  <2>2. step \in 1 .. 4
    BY <1>2, ResetLength DEF Position, Job
  <2>3. half' = "upper" /\ IF step = 4 THEN stage' = "init"
                           ELSE stage' = "reset" /\ step' = step + 1
    BY <1>1, <1>2, AdvancePosition
  <2>4. panel.bits = 8 /\ panel.upper = -1 =>
            /\ step # 4 => Mode(panel') = <<8, -1>>
            /\ step = 4 => Mode(panel') = <<4, -1>>
    BY <1>1, <2>1, ThreeWide, TwoWide
  <2>5. panel.bits = 4 /\ panel.upper = -1 /\ step # 4 => Mode(panel') = <<4, 3>>
    BY <1>1, <2>1, StrobeFirst
  <2>6. panel.bits = 4 /\ panel.upper # -1 /\ step # 4 =>
            /\ Mode(panel') \in {<<4, -1>>, <<8, -1>>}
            /\ panel.upper = 3 => Mode(panel') = <<8, -1>>
    BY <1>1, <2>1, ThreeSecond
  <2> HIDE DEF p
  <2>7. CASE step = 1
    <3>1. Mode(panel') \in {<<8, -1>>, <<4, -1>>, <<4, 3>>}
      BY <1>2, <2>7, <2>4, <2>5, <2>6 DEF Expected, Interface
    <3> QED
      BY <3>1, <2>3, <2>7 DEF Expected
  <2>8. CASE step = 2
    <3>1. Mode(panel') \in {<<8, -1>>, <<4, 3>>}
      BY <1>2, <2>8, <2>4, <2>5, <2>6 DEF Expected, Mode
    <3> QED
      BY <3>1, <2>3, <2>8 DEF Expected
  <2>9. CASE step = 3
    <3>1. Mode(panel') = <<8, -1>>
      BY <1>2, <2>9, <2>4, <2>6 DEF Expected, Mode
    <3> QED
      BY <3>1, <2>3, <2>9 DEF Expected
  <2>10. CASE step = 4
    <3>1. Mode(panel') = <<4, -1>>
      BY <1>2, <2>10, <2>4 DEF Expected, Mode
    <3> QED
      BY <3>1, <2>3, <2>10 DEF Expected
  <2> QED
    BY <2>2, <2>7, <2>8, <2>9, <2>10
<1>3. CASE stage # "reset"
  <2> DEFINE b == Job(stage)[step].byte
             rs == Job(stage)[step].rs
  <2>1. /\ b \in 0 .. 255 /\ rs \in {0, 1}
        /\ rs = 0 /\ b \in 32 .. 63 => ~Bit(b, 16)
    BY <1>3, JobBytes DEF Position
  <2>2. RegisterSelect = rs /\ Nibble = IF half = "upper" THEN b \div 16 ELSE b % 16
    BY <1>3 DEF RegisterSelect, Nibble
  <2>3. b \div 16 \in 0 .. 15 /\ b % 16 \in 0 .. 15 /\ 16 * (b \div 16) + (b % 16) = b
    BY <2>1, Halves
  <2>4. CASE half = "upper"
    <3>1. panel.bits = 4 /\ panel.upper = -1
      BY <1>3, <2>4 DEF Expected, Mode
    <3>2. panel' = Strobe(panel, rs, b \div 16)
      BY <1>1, <2>2, <2>4
    <3>3. stage' = stage /\ step' = step /\ half' = "lower"
      BY <1>1, <1>3, <2>4, AdvancePosition
    <3>4. Mode(panel') = <<4, b \div 16>>
      BY <2>3, <3>1, <3>2, StrobeFirst
    <3> QED
      BY <1>3, <3>3, <3>4 DEF Expected
  <2>5. CASE half # "upper"
    <3>1. panel.bits = 4 /\ panel.upper = b \div 16
      BY <1>3, <2>5 DEF Expected, Mode
    <3>2. panel' = Strobe(panel, rs, b % 16)
      BY <1>1, <2>2, <2>5
    <3>3. stage' # "reset" /\ half' = "upper"
      BY <1>1, <1>3, <2>5, AdvancePosition DEF Position
    <3> HIDE DEF b, rs
    <3>4. panel.upper # -1
      BY <2>3, <3>1
    <3>10. b % 16 \in 0 .. 15
      BY <2>3
    <3>5. PICK d, byte : /\ Interface(d) /\ d.bits = 4 /\ d.upper = -1
                         /\ byte \in 0 .. 255 /\ byte = 16 * panel.upper + (b % 16)
                         /\ Strobe(panel, rs, b % 16) = Execute(d, rs, byte)
      BY <3>1, <3>4, <3>10, StrobeSecond
    <3>6. panel' = Execute(d, rs, b)
      BY <2>3, <3>1, <3>2, <3>5
    <3>7. rs = 1 \/ ~(b \in 32 .. 63) \/ ~Bit(b, 16)
      BY <2>1
    <3>8. Execute(d, rs, b).bits = 4 /\ Execute(d, rs, b).upper = -1
      BY <2>1, <3>5, <3>7, ExecuteMode
    <3>9. Mode(panel') = <<4, -1>>
      BY <3>6, <3>8 DEF Mode
    <3> QED
      BY <3>3, <3>9 DEF Expected
  <2> QED
    BY <2>4, <2>5
<1> QED
  BY <1>2, <1>3

LEMMA FrameNextInv == FrameInv /\ FrameNext => FrameInv'
<1> SUFFICES ASSUME FrameInv, FrameNext
             PROVE  FrameInv'
  OBVIOUS
<1>1. Position /\ Interface(panel) /\ Nibble \in 0 .. 15
  BY NibbleType DEF FrameInv
<1>2. CASE Put
  <2>1. Interface(panel')
    BY <1>1, <1>2, StrobeInterface DEF Put
  <2>2. Position'
    BY <1>1, <1>2, AdvancePosition DEF Put
  <2>3. ~err => Expected'
    BY <1>1, <1>2, PutKeepsStep DEF FrameInv
  <2> QED
    BY <1>2, <2>1, <2>2, <2>3 DEF FrameInv, Put
<1>3. CASE PutFails
  <2>1. Interface(panel')
    BY <1>1, <1>3, StrobeInterface DEF PutFails
  <2>2. Position'
    BY <1>1, <1>3, AdvancePosition DEF PutFails
  <2> QED
    BY <1>3, <2>1, <2>2 DEF FrameInv, PutFails
<1> QED
  BY <1>2, <1>3 DEF FrameNext

(* The other program does not touch the frames. *)
LEMMA SameFrame == FrameInv /\ UNCHANGED frameVars => FrameInv'
BY DEF FrameInv, frameVars, Position, Expected

-------------------------------------------------------------------------------
(* The controller remains one, whatever byte or nibble it gets.            *)
LEMMA AddressType ==
    ASSUME NEW c \in Controllers, NEW toRight \in BOOLEAN
    PROVE  Address(c, toRight) \in 0 .. 127
<1> DEFINE a == c.addr
<1>1. a \in 0 .. 127
  BY DEF Controllers
<1> HIDE DEF a
<1>2. (a + 1) % 128 \in 0 .. 127 /\ (a + 127) % 128 \in 0 .. 127
  BY <1>1
<1>3. a # 0 => a - 1 \in 0 .. 127
  BY <1>1
<1> QED
  BY <1>1, <1>2, <1>3 DEF Address, a

LEMMA CellType ==
    ASSUME NEW c, NEW a \in 0 .. 127
    PROVE  Cell(c, a) \in -1 .. 79
BY DEF Cell

LEMMA CommandType ==
    ASSUME NEW c \in Controllers, NEW byte \in 0 .. 255
    PROVE  Command(c, byte) \in Controllers
<1>1. ASSUME NEW a \in 0 .. 127, NEW g \in BOOLEAN
      PROVE  [c EXCEPT !.addr = a, !.cg = g] \in Controllers
  BY DEF Controllers
<1>2. ASSUME NEW b \in {4, 8}, NEW t \in BOOLEAN
      PROVE  [c EXCEPT !.bits = b, !.two = t] \in Controllers
  BY DEF Controllers
<1>3. ASSUME NEW s \in 0 .. 39 PROVE [c EXCEPT !.shift = s] \in Controllers
  BY DEF Controllers
<1>4. ASSUME NEW a \in 0 .. 127 PROVE [c EXCEPT !.addr = a] \in Controllers
  BY DEF Controllers
<1>5. ASSUME NEW l \in 0 .. 7 PROVE [c EXCEPT !.look = l] \in Controllers
  BY DEF Controllers
<1>6. ASSUME NEW r \in BOOLEAN PROVE [c EXCEPT !.right = r] \in Controllers
  BY DEF Controllers
<1>7. ASSUME NEW a \in 0 .. 127, NEW s \in 0 .. 39, NEW g \in BOOLEAN
      PROVE  [c EXCEPT !.addr = a, !.shift = s, !.cg = g] \in Controllers
  BY DEF Controllers
<1>8. ASSUME NEW t \in [0 .. 79 -> 0 .. 255] PROVE [c EXCEPT !.text = t] \in Controllers
  BY DEF Controllers
<1>9. /\ \A weight \in {2, 4, 8, 16} : Bit(byte, weight) \in BOOLEAN
      /\ Blank \in [0 .. 79 -> 0 .. 255]
  BY DEF Bit, Blank, Space
<1>10. CASE byte >= 128
  <2>1. Command(c, byte) = [c EXCEPT !.addr = byte - 128, !.cg = FALSE]
    BY <1>10 DEF Command
  <2>2. byte - 128 \in 0 .. 127
    BY <1>10
  <2> QED
    BY <1>1, <2>1, <2>2
<1>11. CASE byte \in 64 .. 127
  <2>1. Command(c, byte) = [c EXCEPT !.addr = byte - 64, !.cg = TRUE]
    BY <1>11 DEF Command
  <2>2. byte - 64 \in 0 .. 127
    BY <1>11
  <2> QED
    BY <1>1, <2>1, <2>2
<1>12. CASE byte \in 32 .. 63
  <2> DEFINE b == IF Bit(byte, 16) THEN 8 ELSE 4
             t == Bit(byte, 8)
  <2>1. Command(c, byte) = [c EXCEPT !.bits = b, !.two = t]
    BY <1>12 DEF Command
  <2>2. b \in {4, 8} /\ t \in BOOLEAN
    BY <1>9
  <2> HIDE DEF b, t
  <2> QED
    BY <1>2, <2>1, <2>2
<1>13. CASE byte \in 16 .. 31
  <2> DEFINE s == (c.shift + IF Bit(byte, 4) THEN 1 ELSE -1) % 40
             a == Address(c, Bit(byte, 4))
  <2>1. \/ Command(c, byte) = [c EXCEPT !.shift = s]
        \/ Command(c, byte) = [c EXCEPT !.addr = a]
    BY <1>13 DEF Command
  <2>2. s \in 0 .. 39
    <3>1. c.shift \in Int
      BY DEF Controllers
    <3> QED
      BY <3>1
  <2>3. a \in 0 .. 127
    BY <1>9, AddressType
  <2> HIDE DEF s, a
  <2> QED
    BY <1>3, <1>4, <2>1, <2>2, <2>3
<1>14. CASE byte \in 8 .. 15
  BY <1>5, <1>14 DEF Command
<1>15. CASE byte \in 4 .. 7
  <2> DEFINE r == Bit(byte, 2)
  <2>1. Command(c, byte) = [c EXCEPT !.right = r] /\ r \in BOOLEAN
    BY <1>9, <1>15 DEF Command
  <2> HIDE DEF r
  <2> QED
    BY <1>6, <2>1
<1>16. CASE byte \in 2 .. 3
  <2>1. Command(c, byte) = [c EXCEPT !.addr = 0, !.shift = 0, !.cg = FALSE]
    BY <1>16 DEF Command
  <2>2. 0 \in 0 .. 127 /\ 0 \in 0 .. 39 /\ FALSE \in BOOLEAN
    OBVIOUS
  <2> QED
    BY <1>7, <2>1, <2>2
<1>17. CASE byte = 1
  <2>1. Command(c, byte) = [c EXCEPT !.text = Blank, !.addr = 0, !.right = TRUE,
                                     !.shift = 0, !.cg = FALSE]
    BY <1>17 DEF Command
  <2> DEFINE d == [c EXCEPT !.text = Blank]
             e == [d EXCEPT !.right = TRUE]
             f == [e EXCEPT !.addr = 0, !.shift = 0, !.cg = FALSE]
  <2>2. Command(c, byte) = f
    BY <2>1 DEF Controllers
  <2>3. d \in Controllers
    BY <1>8, <1>9
  <2> HIDE DEF d
  <2>4. ASSUME NEW r \in BOOLEAN PROVE [d EXCEPT !.right = r] \in Controllers
    BY <2>3 DEF Controllers
  <2>5. e \in Controllers
    BY <2>4
  <2> HIDE DEF e
  <2>6. ASSUME NEW a \in 0 .. 127, NEW s \in 0 .. 39, NEW g \in BOOLEAN
        PROVE  [e EXCEPT !.addr = a, !.shift = s, !.cg = g] \in Controllers
    BY <2>5 DEF Controllers
  <2>7. 0 \in 0 .. 127 /\ 0 \in 0 .. 39 /\ FALSE \in BOOLEAN
    OBVIOUS
  <2>8. f \in Controllers
    BY <2>6, <2>7
  <2> HIDE DEF f
  <2> QED
    BY <2>2, <2>8
<1>18. CASE byte = 0
  BY <1>18 DEF Command
<1>19. \/ byte >= 128 \/ byte \in 64 .. 127 \/ byte \in 32 .. 63
       \/ byte \in 16 .. 31 \/ byte \in 8 .. 15 \/ byte \in 4 .. 7
       \/ byte \in 2 .. 3 \/ byte = 1 \/ byte = 0
  OBVIOUS
<1> QED
  BY <1>10, <1>11, <1>12, <1>13, <1>14, <1>15, <1>16, <1>17, <1>18, <1>19

LEMMA MovedType ==
    ASSUME NEW c \in Controllers
    PROVE  Moved(c) \in Controllers
<1> DEFINE a == IF c.cg THEN (c.addr + IF c.right THEN 1 ELSE 63) % 64
                ELSE Address(c, c.right)
<1>1. Moved(c) = [c EXCEPT !.addr = a]
  BY DEF Moved
<1>2. a \in 0 .. 127
  <2>1. c.addr \in Int /\ c.right \in BOOLEAN
    BY DEF Controllers
  <2>2. \A k \in {1, 63} : (c.addr + k) % 64 \in 0 .. 127
    BY <2>1
  <2> QED
    BY <2>1, <2>2, AddressType
<1>3. ASSUME NEW v \in 0 .. 127 PROVE [c EXCEPT !.addr = v] \in Controllers
  BY DEF Controllers
<1> HIDE DEF a
<1> QED
  BY <1>1, <1>2, <1>3

LEMMA DataType ==
    ASSUME NEW c \in Controllers, NEW byte \in 0 .. 255
    PROVE  Data(c, byte) \in Controllers
<1>1. ASSUME NEW i \in 0 .. 63
      PROVE  [c EXCEPT !.glyphs[i] = byte] \in Controllers
  BY DEF Controllers
<1>2. ASSUME NEW i \in 0 .. 79
      PROVE  [c EXCEPT !.text[i] = byte] \in Controllers
  BY DEF Controllers
<1>3. c.addr \in 0 .. 127 /\ c.addr % 64 \in 0 .. 63
  <2>1. c.addr \in 0 .. 127
    BY DEF Controllers
  <2> QED
    BY <2>1
<1>4. Cell(c, c.addr) = -1 \/ Cell(c, c.addr) \in 0 .. 79
  BY <1>3, CellType
<1> QED
  BY <1>1, <1>2, <1>3, <1>4, MovedType DEF Data

LEMMA StrobeType ==
    ASSUME NEW c \in Controllers, NEW rs, NEW n \in 0 .. 15
    PROVE  Strobe(c, rs, n) \in Controllers
<1>1. ASSUME NEW d \in Controllers, NEW byte \in 0 .. 255
      PROVE  Execute(d, rs, byte) \in Controllers
  BY <1>1, DataType, CommandType DEF Execute
<1>2. ASSUME NEW u \in -1 .. 15 PROVE [c EXCEPT !.upper = u] \in Controllers
  BY DEF Controllers
<1>3. c.bits \in {4, 8} /\ c.upper \in -1 .. 15
  BY DEF Controllers
<1>4. CASE c.bits = 8
  <2>1. 16 * n \in 0 .. 255
    OBVIOUS
  <2> QED
    BY <1>1, <1>4, <2>1 DEF Strobe
<1>5. CASE c.bits = 4 /\ c.upper = -1
  <2>1. n \in -1 .. 15
    OBVIOUS
  <2> QED
    BY <1>2, <1>5, <2>1 DEF Strobe
<1>6. CASE c.bits = 4 /\ c.upper # -1
  <2>1. 16 * c.upper + n \in 0 .. 255
    BY <1>3, <1>6
  <2>2. [c EXCEPT !.upper = -1] \in Controllers
    BY <1>2
  <2> QED
    BY <1>1, <1>6, <2>1, <2>2 DEF Strobe
<1> QED
  BY <1>3, <1>4, <1>5, <1>6

-------------------------------------------------------------------------------
(* What the display shows.  The commands of lcd_init arrange the           *)
(* controller one setting after the other: two lines by the first, the     *)
(* display on by the third, and the rest by clear, the fifth.  In a frame  *)
(* the address counter is where the next character belongs, and what has   *)
(* been sent is in its place: all of it, once a frame has been finished.   *)
AddressOf(i) == IF i < 40 THEN i ELSE i + 24

Arranged(k) == stage = "frame" \/ (stage = "init" /\ step > k)

Picture ==
    /\ Arranged(1) => panel.two = TRUE
    /\ Arranged(3) => panel.look = 4
    /\ Arranged(5) => panel.right = TRUE /\ panel.cg = FALSE /\ panel.shift = 0
    /\ stage = "frame" /\ step >= 2 => panel.addr = AddressOf(step - 2)
    /\ stage = "frame" =>
          \A i \in 0 .. 79 : framed \/ i < step - 2 => panel.text[i] = Char(i)

PictureInv ==
    /\ panel \in Controllers
    /\ faults \in 0 .. MaxFaults
    /\ framed \in BOOLEAN
    /\ framed => stage = "frame"
    /\ ~err => Picture

(* The half of a byte that is kept disturbs nothing else.                  *)
LEMMA UpperOnly ==
    ASSUME NEW c \in Controllers, NEW u \in -1 .. 15
    PROVE  /\ [c EXCEPT !.upper = u] \in Controllers
           /\ [c EXCEPT !.upper = u].two = c.two
           /\ [c EXCEPT !.upper = u].look = c.look
           /\ [c EXCEPT !.upper = u].right = c.right
           /\ [c EXCEPT !.upper = u].cg = c.cg
           /\ [c EXCEPT !.upper = u].shift = c.shift
           /\ [c EXCEPT !.upper = u].addr = c.addr
           /\ [c EXCEPT !.upper = u].text = c.text
BY DEF Controllers

(* The commands of lcd_init, and the one that starts a frame.              *)
LEMMA FunctionSet ==
    ASSUME NEW c \in Controllers
    PROVE  Command(c, 40).two = TRUE
<1>1. Bit(40, 8) /\ ~Bit(40, 16)
  BY DEF Bit
<1>2. ASSUME NEW b, NEW t PROVE [c EXCEPT !.bits = b, !.two = t].two = t
  BY DEF Controllers
<1> DEFINE b == IF Bit(40, 16) THEN 8 ELSE 4
           t == Bit(40, 8)
<1>3. Command(c, 40) = [c EXCEPT !.bits = b, !.two = t]
  BY DEF Command
<1>4. t = TRUE
  BY <1>1
<1> HIDE DEF b, t
<1> QED
  BY <1>2, <1>3, <1>4

LEMMA CursorMove ==
    ASSUME NEW c \in Controllers
    PROVE  Command(c, 16).two = c.two
<1> DEFINE s == (c.shift + IF Bit(16, 4) THEN 1 ELSE -1) % 40
           a == Address(c, Bit(16, 4))
<1>1. \/ Command(c, 16) = [c EXCEPT !.shift = s]
      \/ Command(c, 16) = [c EXCEPT !.addr = a]
  BY DEF Command
<1> HIDE DEF s, a
<1> QED
  BY <1>1 DEF Controllers

LEMMA DisplayOn ==
    ASSUME NEW c \in Controllers
    PROVE  Command(c, 12).two = c.two /\ Command(c, 12).look = 4
<1>1. Command(c, 12) = [c EXCEPT !.look = 4]
  BY DEF Command
<1> QED
  BY <1>1 DEF Controllers

LEMMA EntryMode ==
    ASSUME NEW c \in Controllers
    PROVE  Command(c, 4).two = c.two /\ Command(c, 4).look = c.look
<1> DEFINE r == Bit(4, 2)
<1>1. Command(c, 4) = [c EXCEPT !.right = r]
  BY DEF Command
<1> HIDE DEF r
<1> QED
  BY <1>1 DEF Controllers

LEMMA ClearDisplay ==
    ASSUME NEW c \in Controllers
    PROVE  /\ Command(c, 1).two = c.two /\ Command(c, 1).look = c.look
           /\ Command(c, 1).right = TRUE /\ Command(c, 1).cg = FALSE
           /\ Command(c, 1).shift = 0
<1>1. Command(c, 1) = [c EXCEPT !.text = Blank, !.addr = 0, !.right = TRUE,
                                !.shift = 0, !.cg = FALSE]
  BY DEF Command
<1>2. PICK r, g, z : /\ r = TRUE /\ g = FALSE /\ z = 0
                     /\ Command(c, 1) = [c EXCEPT !.text = Blank, !.addr = z, !.right = r,
                                                  !.shift = z, !.cg = g]
  BY <1>1
<1>3. /\ Command(c, 1).two = c.two /\ Command(c, 1).look = c.look
      /\ Command(c, 1).right = r /\ Command(c, 1).cg = g /\ Command(c, 1).shift = z
  BY <1>2 DEF Controllers
<1> QED
  BY <1>2, <1>3

LEMMA ReturnHome ==
    ASSUME NEW c \in Controllers
    PROVE  /\ Command(c, 2).two = c.two /\ Command(c, 2).look = c.look
           /\ Command(c, 2).right = c.right /\ Command(c, 2).cg = FALSE
           /\ Command(c, 2).shift = 0
<1>1. Command(c, 2) = [c EXCEPT !.addr = 0, !.shift = 0, !.cg = FALSE]
  BY DEF Command
<1>2. PICK g, z : /\ g = FALSE /\ z = 0
                  /\ Command(c, 2) = [c EXCEPT !.addr = z, !.shift = z, !.cg = g]
  BY <1>1
<1>3. /\ Command(c, 2).two = c.two /\ Command(c, 2).look = c.look
      /\ Command(c, 2).right = c.right /\ Command(c, 2).cg = g
      /\ Command(c, 2).shift = z
  BY <1>2 DEF Controllers
<1> QED
  BY <1>2, <1>3

LEMMA PositionFirst ==
    ASSUME NEW c \in Controllers
    PROVE  /\ Command(c, 128).two = c.two /\ Command(c, 128).look = c.look
           /\ Command(c, 128).right = c.right /\ Command(c, 128).cg = FALSE
           /\ Command(c, 128).shift = c.shift /\ Command(c, 128).text = c.text
           /\ Command(c, 128).addr = 0
<1>1. Command(c, 128) = [c EXCEPT !.addr = 128 - 128, !.cg = FALSE]
  BY DEF Command
<1>2. PICK a, g : /\ g = FALSE /\ a = 128 - 128
                  /\ Command(c, 128) = [c EXCEPT !.addr = a, !.cg = g]
  BY <1>1
<1>3. /\ Command(c, 128).two = c.two /\ Command(c, 128).look = c.look
      /\ Command(c, 128).right = c.right /\ Command(c, 128).cg = g
      /\ Command(c, 128).shift = c.shift /\ Command(c, 128).text = c.text
      /\ Command(c, 128).addr = a
  BY <1>2 DEF Controllers
<1> QED
  BY <1>2, <1>3

(* A character goes where the address counter says, and the next one goes  *)
(* behind it: from the 40th cell to the start of the second line.          *)
LEMMA CharacterGoes ==
    ASSUME NEW c \in Controllers, c.two = TRUE, c.cg = FALSE, c.right = TRUE,
           NEW i \in 0 .. 79, c.addr = AddressOf(i), NEW byte \in 0 .. 255
    PROVE  /\ Data(c, byte).two = c.two /\ Data(c, byte).look = c.look
           /\ Data(c, byte).right = c.right /\ Data(c, byte).cg = c.cg
           /\ Data(c, byte).shift = c.shift
           /\ Data(c, byte).text = [c.text EXCEPT ![i] = byte]
           /\ i < 79 => Data(c, byte).addr = AddressOf(i + 1)
<1> DEFINE e == [c EXCEPT !.text[i] = byte]
           a == Address(e, TRUE)
<1>1. Cell(c, c.addr) = i
  BY DEF Cell, AddressOf
<1>2. Data(c, byte) = Moved(e)
  BY <1>1 DEF Data
<1>3. /\ e.two = c.two /\ e.look = c.look /\ e.right = c.right /\ e.cg = c.cg
      /\ e.shift = c.shift /\ e.addr = c.addr /\ e.text = [c.text EXCEPT ![i] = byte]
      /\ e \in Controllers
  BY DEF Controllers
<1> HIDE DEF e
<1>4. Moved(e) = [e EXCEPT !.addr = a]
  BY <1>3 DEF Moved
<1>5. ASSUME i < 79 PROVE a = AddressOf(i + 1)
  <2>1. e.two = TRUE /\ e.addr = AddressOf(i)
    BY <1>3
  <2>2. i = 39 => AddressOf(i) = 39 /\ AddressOf(i + 1) = 64
    BY DEF AddressOf
  <2>3. i # 39 => /\ AddressOf(i + 1) = AddressOf(i) + 1
                  /\ AddressOf(i) # 39 /\ AddressOf(i) # 103
                  /\ (AddressOf(i) + 1) % 128 = AddressOf(i) + 1
    BY <1>5 DEF AddressOf
  <2> QED
    BY <2>1, <2>2, <2>3 DEF Address
<1>6. ASSUME NEW v
      PROVE  LET d == [e EXCEPT !.addr = v]
             IN  /\ d.two = e.two /\ d.look = e.look /\ d.right = e.right
                 /\ d.cg = e.cg /\ d.shift = e.shift
                 /\ d.text = e.text /\ d.addr = v
  BY <1>3 DEF Controllers
<1> HIDE DEF a
<1> QED
  BY <1>2, <1>3, <1>4, <1>5, <1>6

-------------------------------------------------------------------------------
(* What a transfer that succeeds does to the controller once the two are   *)
(* in step: it keeps the first half of a byte, and carries out the whole.  *)
LEMMA FirstNibble ==
    ASSUME Position, Expected, Put, stage # "reset", half = "upper",
           panel \in Controllers
    PROVE  Nibble \in 0 .. 15 /\ panel' = [panel EXCEPT !.upper = Nibble]
<1>1. panel.bits = 4 /\ panel.upper = -1
  BY DEF Expected, Mode
<1> QED
  BY <1>1, NibbleType DEF Put, Strobe

LEMMA SecondNibble ==
    ASSUME Position, Expected, Put, stage # "reset", half = "lower",
           panel \in Controllers
    PROVE  panel' = Execute([panel EXCEPT !.upper = -1], Job(stage)[step].rs,
                            Job(stage)[step].byte)
<1> DEFINE b == Job(stage)[step].byte
           d == [panel EXCEPT !.upper = -1]
<1>1. panel.bits = 4 /\ panel.upper = b \div 16
  BY DEF Expected, Mode
<1>2. b \in 0 .. 255
  BY JobBytes DEF Position
<1>3. RegisterSelect = Job(stage)[step].rs /\ Nibble = b % 16
  BY DEF RegisterSelect, Nibble
<1> HIDE DEF b
<1>4. 16 * (b \div 16) + (b % 16) = b /\ b \div 16 # -1
  BY <1>2, Halves
<1> HIDE DEF d
<1>5. Strobe(panel, RegisterSelect, Nibble) =
          Execute(d, RegisterSelect, 16 * panel.upper + Nibble)
  BY <1>1, <1>4 DEF Strobe, d
<1>6. 16 * panel.upper + Nibble = b
  BY <1>1, <1>3, <1>4
<1> QED
  BY <1>3, <1>5, <1>6 DEF Put, b, d

(* Which byte comes after this one. *)
LEMMA NextByte ==
    ASSUME Position, Advance, framed \in BOOLEAN
    PROVE  /\ stage # "reset" /\ half = "upper" => UNCHANGED <<stage, step, framed>>
           /\ stage = "reset" => /\ framed' = framed
                                 /\ \/ stage' = "reset"
                                    \/ stage' = "init" /\ step' = 1
           /\ stage = "init" /\ half = "lower" =>
                  /\ framed' = framed
                  /\ step = 6 => stage' = "frame" /\ step' = 1
                  /\ step # 6 => stage' = "init" /\ step' = step + 1
           /\ stage = "frame" /\ half = "lower" =>
                  /\ stage' = "frame"
                  /\ step = 81 => step' = 1 /\ framed' = TRUE
                  /\ step # 81 => step' = step + 1 /\ framed' = framed
<1>1. stage = "init" => Len(Job(stage)) = 6
  BY InitJob DEF Job
<1>2. stage = "frame" => Len(Job(stage)) = 81
  BY FrameJob DEF Job
<1>3. CASE stage # "reset" /\ half = "upper"
  BY <1>3 DEF Advance
<1>4. CASE (stage = "reset" \/ half = "lower") /\ LastStep
  <2>1. /\ step' = 1
        /\ stage' = IF stage = "reset" THEN "init" ELSE "frame"
        /\ framed' = (framed \/ stage = "frame")
    BY <1>4 DEF Advance
  <2>2. (stage = "init" => step = 6) /\ (stage = "frame" => step = 81)
    BY <1>1, <1>2, <1>4 DEF LastStep
  <2> QED
    BY <1>4, <2>1, <2>2
<1>5. CASE (stage = "reset" \/ half = "lower") /\ ~LastStep
  <2>1. step' = step + 1 /\ UNCHANGED <<stage, framed>>
    BY <1>5 DEF Advance
  <2>2. (stage = "init" => step # 6) /\ (stage = "frame" => step # 81)
    BY <1>1, <1>2, <1>5 DEF LastStep
  <2> QED
    BY <1>5, <2>1, <2>2
<1> QED
  BY <1>3, <1>4, <1>5 DEF Position

LEMMA PutPicture ==
    ASSUME Position, Expected, PictureInv, ~err, Put
    PROVE  Picture'
<1>1. /\ panel \in Controllers /\ Picture /\ (framed => stage = "frame") /\ Advance
      /\ framed \in BOOLEAN
  BY DEF PictureInv, Put
<1>2. CASE stage = "reset"
  <2>1. stage' = "reset" \/ (stage' = "init" /\ step' = 1)
    BY <1>1, <1>2, NextByte
  <2> QED
    BY <2>1 DEF Picture, Arranged
<1>3. CASE stage # "reset" /\ half = "upper"
  <2>1. UNCHANGED <<stage, step, framed>>
    BY <1>1, <1>3, NextByte
  <2>2. PICK n \in -1 .. 15 : panel' = [panel EXCEPT !.upper = n]
    <3>1. Nibble \in 0 .. 15 /\ panel' = [panel EXCEPT !.upper = Nibble]
      BY <1>1, <1>3, FirstNibble
    <3> QED
      BY <3>1
  <2>3. /\ panel'.two = panel.two /\ panel'.look = panel.look
        /\ panel'.right = panel.right /\ panel'.cg = panel.cg
        /\ panel'.shift = panel.shift /\ panel'.addr = panel.addr
        /\ panel'.text = panel.text
    BY <1>1, <2>2, UpperOnly
  <2> QED
    BY <1>1, <2>1, <2>3 DEF Picture, Arranged
<1>4. CASE stage # "reset" /\ half = "lower"
  <2> DEFINE d == [panel EXCEPT !.upper = -1]
             b == Job(stage)[step].byte
             rs == Job(stage)[step].rs
  <2>1. panel' = Execute(d, rs, b)
    BY <1>1, <1>4, SecondNibble
  <2>2. /\ d \in Controllers
        /\ d.two = panel.two /\ d.look = panel.look /\ d.right = panel.right
        /\ d.cg = panel.cg /\ d.shift = panel.shift /\ d.addr = panel.addr
        /\ d.text = panel.text
    <3>1. -1 \in -1 .. 15
      OBVIOUS
    <3> QED
      BY <1>1, <3>1, UpperOnly
  <2> HIDE DEF d
  <2>3. CASE stage = "init"
    <3>1. step \in 1 .. 6 /\ rs = 0 /\ b = <<40, 16, 12, 4, 1, 2>>[step]
      BY <2>3, InitJob DEF Position, Job, InitBytes, Commands
    <3>2. panel' = Command(d, b)
      BY <2>1, <3>1 DEF Execute
    <3> HIDE DEF b, rs
    <3>3. /\ framed' = framed
          /\ step = 6 => stage' = "frame" /\ step' = 1
          /\ step # 6 => stage' = "init" /\ step' = step + 1
      BY <1>1, <1>4, <2>3, NextByte
    <3>4. /\ step = 1 => b = 40
          /\ step = 2 => b = 16
          /\ step = 3 => b = 12
          /\ step = 4 => b = 4
          /\ step = 5 => b = 1
          /\ step = 6 => b = 2
      BY <3>1
    <3>5. /\ step > 1 => d.two = TRUE
          /\ step > 3 => d.look = 4
          /\ step > 5 => d.right = TRUE
      BY <1>1, <2>2, <2>3 DEF Picture, Arranged
    <3>6. /\ panel'.two = TRUE
          /\ step >= 3 => panel'.look = 4
          /\ step >= 5 => panel'.right = TRUE /\ panel'.cg = FALSE /\ panel'.shift = 0
      <4>1. CASE step = 1
        <5>1. panel' = Command(d, 40)
          BY <3>2, <3>4, <4>1
        <5>2. Command(d, 40).two = TRUE
          BY <2>2, FunctionSet
        <5> QED
          BY <4>1, <5>1, <5>2
      <4>2. CASE step = 2
        BY <2>2, <3>2, <3>4, <3>5, <4>2, CursorMove
      <4>3. CASE step = 3
        BY <2>2, <3>2, <3>4, <3>5, <4>3, DisplayOn
      <4>4. CASE step = 4
        BY <2>2, <3>2, <3>4, <3>5, <4>4, EntryMode
      <4>5. CASE step = 5
        <5>1. panel' = Command(d, 1)
          BY <3>2, <3>4, <4>5
        <5>2. /\ Command(d, 1).two = d.two /\ Command(d, 1).look = d.look
              /\ Command(d, 1).right = TRUE /\ Command(d, 1).cg = FALSE
              /\ Command(d, 1).shift = 0
          BY <2>2, ClearDisplay
        <5> QED
          BY <3>5, <4>5, <5>1, <5>2
      <4>6. CASE step = 6
        <5>1. panel' = Command(d, 2)
          BY <3>2, <3>4, <4>6
        <5>2. /\ Command(d, 2).two = d.two /\ Command(d, 2).look = d.look
              /\ Command(d, 2).right = d.right /\ Command(d, 2).cg = FALSE
              /\ Command(d, 2).shift = 0
          BY <2>2, ReturnHome
        <5> QED
          BY <3>5, <4>6, <5>1, <5>2
      <4> QED
        <5>1. \/ step = 1 \/ step = 2 \/ step = 3
              \/ step = 4 \/ step = 5 \/ step = 6
          BY <3>1
        <5> QED
          BY <4>1, <4>2, <4>3, <4>4, <4>5, <4>6, <5>1
    <3>8. ~framed
      BY <1>1, <2>3
    <3>9. \A k \in {1, 3, 5} : Arranged(k)' => step >= k
      BY <3>1, <3>3 DEF Arranged
    <3>10. stage' = "frame" => step' = 1 /\ ~framed'
      BY <3>3, <3>8
    <3> QED
      BY <3>6, <3>9, <3>10 DEF Picture
  <2>4. CASE stage = "frame"
    <3>1. step \in 1 .. 81 /\ FrameBytes[step] = Job(stage)[step]
      BY <2>4, FrameJob DEF Position, Job
    <3>2. /\ d.two = TRUE /\ d.look = 4 /\ d.right = TRUE /\ d.cg = FALSE /\ d.shift = 0
          /\ step >= 2 => d.addr = AddressOf(step - 2)
          /\ \A i \in 0 .. 79 : framed \/ i < step - 2 => d.text[i] = Char(i)
      BY <1>1, <2>2, <2>4 DEF Picture, Arranged
    <3>3. /\ stage' = "frame"
          /\ step = 81 => step' = 1 /\ framed' = TRUE
          /\ step # 81 => step' = step + 1 /\ framed' = framed
      BY <1>1, <1>4, <2>4, NextByte
    <3>4. CASE step = 1
      <4>1. rs = 0 /\ b = 128
        BY <3>1, <3>4, FrameJob
      <4> HIDE DEF b, rs
      <4>2. panel' = Command(d, 128)
        BY <2>1, <4>1 DEF Execute
      <4>3. /\ panel'.two = TRUE /\ panel'.look = 4 /\ panel'.right = TRUE
            /\ panel'.cg = FALSE /\ panel'.shift = 0 /\ panel'.addr = 0
            /\ panel'.text = d.text
        BY <2>2, <3>2, <4>2, PositionFirst
      <4>4. AddressOf(0) = 0
        BY DEF AddressOf
      <4>5. step' = 2 /\ framed' = framed /\ step' - 2 = 0
        BY <3>3, <3>4
      <4> QED
        BY <3>2, <3>3, <3>4, <4>3, <4>4, <4>5 DEF Picture
    <3>5. CASE step # 1
      <4> DEFINE i == step - 2
      <4>1. rs = 1 /\ b = Char(i) /\ i \in 0 .. 79
        BY <3>1, <3>5, FrameJob
      <4>2. panel' = Data(d, Char(i))
        BY <2>1, <4>1 DEF Execute
      <4> HIDE DEF b, rs
      <4>3. Char(i) \in 0 .. 255 /\ d.addr = AddressOf(i)
        BY <3>1, <3>2, <3>5, <4>1, CharIsByte
      <4>4. step = i + 2
        BY <3>1
      <4> HIDE DEF i
      <4>5. /\ panel'.two = d.two /\ panel'.look = d.look /\ panel'.right = d.right
            /\ panel'.cg = d.cg /\ panel'.shift = d.shift
            /\ panel'.text = [d.text EXCEPT ![i] = Char(i)]
            /\ i < 79 => panel'.addr = AddressOf(i + 1)
        <5> DEFINE e == Data(d, Char(i))
        <5>1. /\ e.two = d.two /\ e.look = d.look /\ e.right = d.right
              /\ e.cg = d.cg /\ e.shift = d.shift
              /\ e.text = [d.text EXCEPT ![i] = Char(i)]
              /\ i < 79 => e.addr = AddressOf(i + 1)
          <6>1. /\ d \in Controllers /\ d.two = TRUE /\ d.cg = FALSE /\ d.right = TRUE
                /\ d.addr = AddressOf(i) /\ i \in 0 .. 79 /\ Char(i) \in 0 .. 255
            BY <2>2, <3>2, <4>1, <4>3
          <6> QED
            BY <6>1, CharacterGoes
        <5> HIDE DEF e
        <5> QED
          BY <4>2, <5>1 DEF e
      <4>6. DOMAIN d.text = 0 .. 79
        BY <2>2 DEF Controllers
      <4>7. ASSUME NEW j \in 0 .. 79, framed' \/ j < step' - 2
            PROVE  panel'.text[j] = Char(j)
        <5>1. framed \/ j < i \/ j = i
          BY <3>3, <4>1, <4>4, <4>7
        <5>2. j # i => panel'.text[j] = d.text[j]
          BY <4>5, <4>6
        <5>3. (framed \/ j < i) => d.text[j] = Char(j)
          BY <3>2, <4>4, <4>1
        <5> QED
          BY <5>1, <5>2, <5>3, <4>1, <4>5, <4>6
      <4>8. step' >= 2 => panel'.addr = AddressOf(step' - 2)
        <5>1. step' >= 2 => i < 79 /\ step' - 2 = i + 1
          BY <3>3, <4>1, <4>4
        <5> QED
          BY <4>5, <5>1
      <4> QED
        BY <3>2, <3>3, <4>5, <4>7, <4>8 DEF Picture
    <3> QED
      BY <3>4, <3>5
  <2> QED
    BY <1>4, <2>3, <2>4 DEF Position
<1> QED
  BY <1>2, <1>3, <1>4 DEF Position

(* The panel of LcdLibrary, whoever moves.                                 *)
LEMMA PictureStep == FrameInv /\ PictureInv /\ [FrameNext]_frameVars => PictureInv'
<1> SUFFICES ASSUME FrameInv, PictureInv, [FrameNext]_frameVars
             PROVE  PictureInv'
  OBVIOUS
<1>1. Position /\ err \in BOOLEAN
  BY DEF FrameInv
<1>2. Strobe(panel, RegisterSelect, Nibble) \in Controllers
  BY <1>1, NibbleType, StrobeType DEF PictureInv
<1>3. ASSUME Advance PROVE framed' \in BOOLEAN /\ (framed' => stage' = "frame")
  <2>1. framed \in BOOLEAN /\ (framed => stage = "frame")
    BY DEF PictureInv
  <2>2. stage \in {"reset", "init", "frame"} /\ half \in {"upper", "lower"}
    BY <1>1 DEF Position
  <2>3. CASE stage # "reset" /\ half = "upper"
    BY <1>1, <1>3, <2>1, <2>3, NextByte
  <2>4. CASE stage = "reset"
    BY <1>1, <1>3, <2>1, <2>4, NextByte
  <2>5. CASE stage = "init" /\ half = "lower"
    BY <1>1, <1>3, <2>1, <2>5, NextByte
  <2>6. CASE stage = "frame" /\ half = "lower"
    BY <1>1, <1>3, <2>1, <2>6, NextByte
  <2> QED
    BY <2>2, <2>3, <2>4, <2>5, <2>6
<1>4. CASE Put
  <2>1. ~err => Picture'
    BY <1>1, <1>4, PutPicture DEF FrameInv
  <2>2. panel' \in Controllers
    BY <1>2, <1>4 DEF Put
  <2> QED
    BY <1>3, <1>4, <2>1, <2>2 DEF PictureInv, Put
<1>5. CASE PutFails
  <2>1. panel' \in Controllers
    BY <1>2, <1>5 DEF PutFails, PictureInv
  <2>2. faults' \in 0 .. MaxFaults
    BY <1>5, LcdAssumption DEF PutFails, PictureInv
  <2>3. err' = TRUE
    BY <1>5 DEF PutFails
  <2> QED
    BY <1>3, <1>5, <2>1, <2>2, <2>3 DEF PictureInv, PutFails
<1>6. CASE UNCHANGED frameVars
  BY <1>6 DEF frameVars, PictureInv, Picture, Arranged
<1> QED
  BY <1>4, <1>5, <1>6 DEF FrameNext

LEMMA FrameInvariance == Spec => [](FrameInv /\ PictureInv)
<1>1. Init => FrameInv /\ PictureInv
  <2>1. FrameInit => PictureInv
    <3> SUFFICES ASSUME FrameInit PROVE PictureInv
      OBVIOUS
    <3>1. panel \in Controllers /\ 0 \in 0 .. MaxFaults
      BY LcdAssumption DEF FrameInit
    <3>2. Picture
      BY DEF FrameInit, Picture, Arranged
    <3> QED
      BY <3>1, <3>2 DEF FrameInit, PictureInv
  <2> QED
    BY <2>1, InitFrameInv DEF Init
<1>2. [Next]_vars => [FrameNext]_frameVars
  BY DEF Next, vars
<1>3. FrameInv /\ [FrameNext]_frameVars => FrameInv'
  BY FrameNextInv, SameFrame
<1> QED
  BY <1>1, <1>2, <1>3, PictureStep, PTL DEF Spec

-------------------------------------------------------------------------------
(* lcd_reset finds the boundary of the bytes from any state a restart can  *)
(* leave the controller in, and the two sides agree on the mode and on     *)
(* whose turn it is until a transfer has failed (soft_lcd.c:173-186).      *)
THEOREM InStep == Spec => []SyncedOrError
<1>1. FrameInv => SyncedOrError
  <2> SUFFICES ASSUME FrameInv, stage # "reset", ~err
               PROVE  Synced
    BY DEF SyncedOrError
  <2>1. CASE half = "upper"
    BY <2>1 DEF FrameInv, Expected, Mode, Synced
  <2>2. CASE half # "upper"
    <3>1. Job(stage)[step].byte \in 0 .. 255
      BY JobBytes DEF FrameInv, Position
    <3>2. panel.bits = 4 /\ panel.upper = Job(stage)[step].byte \div 16
      BY <2>2 DEF FrameInv, Expected, Mode
    <3>3. panel.upper # -1
      BY <3>1, <3>2
    <3> QED
      BY <2>2, <3>2, <3>3 DEF Synced
  <2> QED
    BY <2>1, <2>2
<1> QED
  BY <1>1, FrameInvariance, PTL

(* The types of the driver and its panel, among them that whatever bytes   *)
(* and halves of bytes get lost, the controller stays one                  *)
(* (soft_lcd.c:351-408).                                                   *)
THEOREM FrameTypes == Spec => []FrameTypeOK
<1>1. FrameInv /\ PictureInv => FrameTypeOK
  BY DEF FrameInv, Position, PictureInv, FrameTypeOK
<1> QED
  BY <1>1, FrameInvariance, PTL

(* After a frame the panel shows every row of lcd_ram at its place, for    *)
(* any contents and whatever the controller was in before lcd_create       *)
(* (soft_lcd.c:165, lcd.c:52-66).                                          *)
THEOREM EveryRowShown == Spec => []FrameRight
<1>1. FrameInv /\ PictureInv => FrameRight
  <2> SUFFICES ASSUME FrameInv, PictureInv, framed, BetweenFrames, ~err
               PROVE  PanelRight
    BY DEF FrameRight
  <2>1. /\ panel.two = TRUE /\ panel.look = 4 /\ panel.shift = 0
        /\ \A i \in 0 .. 79 : panel.text[i] = Char(i)
    BY DEF PictureInv, Picture, Arranged, BetweenFrames
  <2>2. Bit(panel.look, 4)
    BY <2>1 DEF Bit
  <2>3. ASSUME NEW r \in 1 .. 4, NEW c \in 0 .. 19
        PROVE  /\ Cell(panel, RowAddress[r] + c) = RowInRam[r] + c
               /\ RowInRam[r] + c \in 0 .. 79
    <3>1. r = 1 \/ r = 2 \/ r = 3 \/ r = 4
      OBVIOUS
    <3> QED
      BY <2>1, <3>1 DEF Cell, RowAddress, RowInRam
  <2> QED
    BY <2>1, <2>2, <2>3 DEF PanelRight
<1> QED
  BY <1>1, FrameInvariance, PTL

-------------------------------------------------------------------------------
(* Induction up to a number, and what a loop computes. No operator is      *)
(* passed as a parameter: a property is the set of numbers that have it.   *)

(* Induction: a set of numbers that is not empty has a least one.          *)
LEMMA LeastNumber ==
    ASSUME NEW T \in SUBSET Nat, T # {}
    PROVE  \E x \in T : \A y \in T : x <= y
<1> DEFINE R == OpToRel(<, Nat)
<1>1. IsWellFoundedOn(R, Nat)
  BY NatLessThanWellFounded
<1>2. \A x \in Nat, y \in Nat : y < x => <<y, x>> \in R
  BY DEF OpToRel
<1> HIDE DEF R
<1>3. PICK x \in T : \A y \in T : ~(<<y, x>> \in R)
  BY <1>1, WFMin
<1>4. ASSUME NEW y \in T PROVE x <= y
  <2>1. ~(<<y, x>> \in R)
    BY <1>3
  <2>2. x \in Nat /\ y \in Nat
    OBVIOUS
  <2>3. ~(y < x)
    BY <1>2, <2>1, <2>2
  <2> QED
    BY <2>2, <2>3
<1> QED
  BY <1>4

(* Induction from 0 up to n.                                               *)
LEMMA UpTo ==
    ASSUME NEW n \in Nat, NEW T, 0 \in T,
           \A i \in 0 .. n : i < n /\ i \in T => i + 1 \in T
    PROVE  \A i \in 0 .. n : i \in T
<1> DEFINE U == (0 .. n) \ T
<1> SUFFICES ASSUME U # {} PROVE FALSE
  OBVIOUS
<1>1. U \in SUBSET Nat
  OBVIOUS
<1> HIDE DEF U
<1>2. PICK x \in U : \A y \in U : x <= y
  BY <1>1, LeastNumber
<1>3. x \in 0 .. n /\ x \notin T /\ x # 0
  BY <1>2 DEF U
<1>4. x - 1 \in 0 .. n /\ x - 1 < n /\ (x - 1) + 1 = x /\ ~(x <= x - 1)
  BY <1>3
<1>5. x - 1 \in T
  BY <1>2, <1>4 DEF U
<1> QED
  BY <1>3, <1>4, <1>5

(* What a loop of n rounds computes: F[i][x] is what round i makes of x.   *)
Runs(f, n, S, a, F) ==
    f \in [0 .. n -> S] /\ f[0] = a /\ \A i \in 1 .. n : f[i] = F[i][f[i - 1]]

(* Such a loop has a result, whatever its rounds.                          *)
LEMMA LoopExists ==
    ASSUME NEW n \in Nat, NEW S, NEW a \in S, NEW F,
           \A i \in 1 .. n : \A x \in S : F[i][x] \in S
    PROVE  \E f : Runs(f, n, S, a, F)
<1> DEFINE P(m) == \E f : Runs(f, m, S, a, F)
           T == {m \in 0 .. n : P(m)}
<1>1. 0 \in T
  <2> DEFINE f == [i \in 0 .. 0 |-> a]
  <2>1. Runs(f, 0, S, a, F)
    BY DEF Runs
  <2>2. P(0)
    BY <2>1
  <2> QED
    BY <2>2
<1>2. ASSUME NEW m \in 0 .. n, m < n, m \in T PROVE m + 1 \in T
  <2>1. PICK f : Runs(f, m, S, a, F)
    BY <1>2
  <2>8. f \in [0 .. m -> S] /\ f[0] = a /\ \A i \in 1 .. m : f[i] = F[i][f[i - 1]]
    BY <2>1 DEF Runs
  <2> DEFINE g == [i \in 0 .. m + 1 |-> IF i = m + 1 THEN F[m + 1][f[m]] ELSE f[i]]
  <2>2. f[m] \in S /\ F[m + 1][f[m]] \in S
    <3>1. m \in 0 .. m /\ m + 1 \in 1 .. n
      BY <1>2
    <3>2. f[m] \in S
      BY <2>8, <3>1
    <3> QED
      BY <3>1, <3>2
  <2>3. g \in [0 .. m + 1 -> S]
    BY <2>2, <2>8
  <2>4. g[0] = a
    BY <2>8
  <2>5. ASSUME NEW i \in 1 .. m + 1 PROVE g[i] = F[i][g[i - 1]]
    <3>1. CASE i = m + 1
      BY <3>1
    <3>2. CASE i # m + 1
      <4>1. i \in 1 .. m /\ i - 1 \in 0 .. m /\ i - 1 # m + 1
        BY <3>2
      <4> QED
        BY <2>8, <3>2, <4>1
    <3> QED
      BY <3>1, <3>2
  <2> HIDE DEF g
  <2>9. Runs(g, m + 1, S, a, F)
    BY <2>3, <2>4, <2>5 DEF Runs
  <2>6. P(m + 1)
    BY <2>9
  <2>7. m + 1 \in 0 .. n
    BY <1>2
  <2> QED
    BY <2>6, <2>7
<1> HIDE DEF T
<1>3. n \in T
  BY <1>1, <1>2, UpTo
<1> QED
  BY <1>3 DEF T

(* g does what the loop does as long as it stays in S.                     *)
Follows(g, n, S, a, F) ==
    /\ g = [i \in 0 .. n |-> g[i]] /\ g[0] = a
    /\ \A i \in 1 .. n : g[i - 1] \in S => g[i] = F[i][g[i - 1]]

(* ... and it is the loop: its result is the only one.                     *)
LEMMA RunsOnce ==
    ASSUME NEW n \in Nat, NEW S, NEW a \in S, NEW F, NEW f, Runs(f, n, S, a, F),
           NEW g, Follows(g, n, S, a, F)
    PROVE  g = f
<1>6. /\ g = [i \in 0 .. n |-> g[i]] /\ g[0] = a
      /\ \A i \in 1 .. n : g[i - 1] \in S => g[i] = F[i][g[i - 1]]
  BY DEF Follows
<1>1. f \in [0 .. n -> S] /\ f[0] = a /\ \A i \in 1 .. n : f[i] = F[i][f[i - 1]]
  BY DEF Runs
<1> DEFINE T == {i \in 0 .. n : g[i] = f[i]}
<1>2. 0 \in T
  BY <1>1, <1>6
<1>3. ASSUME NEW i \in 0 .. n, i < n, i \in T PROVE i + 1 \in T
  <2>1. i + 1 \in 1 .. n /\ (i + 1) - 1 = i /\ i + 1 \in 0 .. n
    BY <1>3
  <2>2. g[i] = f[i] /\ f[i] \in S
    BY <1>1, <1>3
  <2>3. g[i + 1] = F[i + 1][g[i]]
    BY <1>6, <2>1, <2>2
  <2>4. f[i + 1] = F[i + 1][f[i]]
    BY <1>1, <2>1
  <2> QED
    BY <2>1, <2>2, <2>3, <2>4
<1> HIDE DEF T
<1>4. \A i \in 0 .. n : i \in T
  BY <1>2, <1>3, UpTo
<1>5. \A i \in 0 .. n : g[i] = f[i]
  BY <1>4 DEF T
<1> QED
  BY <1>1, <1>5, <1>6

-------------------------------------------------------------------------------
(* Sequences of bytes. *)

(* Bytes. *)
Codes == 0 .. 255

(* What the table of _replace_UTF8_chars replaces, and by what.            *)
LEMMA Table ==
    ASSUME NEW a \in Codes, NEW b \in Codes
    PROVE  /\ Substitute(a, b) \in Codes
           /\ Substitute(a, b) # 0 => a \in {194, 195} /\ b \in 128 .. 191
           /\ Substitute(a, b) # 10
<1> DEFINE v == Substitute(a, b)
<1>1. \/ v = 0
      \/ /\ v \in {65, 69, 73, 79, 85, 97, 101, 105, 111, 117, 238, 223}
         /\ a \in {194, 195}
         /\ b \in {129, 137, 141, 147, 154, 161, 169, 173, 179, 186, 145, 177}
  BY DEF Substitute
<1> HIDE DEF v
<1>2. v \in Codes /\ v # 10
  BY <1>1 DEF Codes
<1>3. v # 0 => a \in {194, 195} /\ b \in 128 .. 191
  BY <1>1
<1> QED
  BY <1>2, <1>3 DEF v

(* Concatenation, as the provers are to see it. *)
Joined(a, b) == a \o b

(* Its bytes are those of the first, then those of the second.             *)
LEMMA JoinedIs ==
    ASSUME NEW S, NEW a \in Seq(S), NEW b \in Seq(S)
    PROVE  /\ Joined(a, b) \in Seq(S)
           /\ Len(Joined(a, b)) = Len(a) + Len(b)
           /\ \A i \in 1 .. Len(a) : Joined(a, b)[i] = a[i]
           /\ \A i \in 1 .. Len(b) : Joined(a, b)[Len(a) + i] = b[i]
<1> DEFINE j == Joined(a, b)
<1>1. /\ j \in Seq(S)
      /\ Len(j) = Len(a) + Len(b)
      /\ \A i \in 1 .. Len(a) + Len(b) : j[i] = IF i <= Len(a) THEN a[i] ELSE b[i - Len(a)]
  BY ConcatProperties, Zenon DEF Joined
<1>2. Len(a) \in Nat /\ Len(b) \in Nat
  BY LenProperties
<1> HIDE DEF j
<1>3. ASSUME NEW i \in 1 .. Len(a) PROVE j[i] = a[i]
  BY <1>1, <1>2
<1>4. ASSUME NEW i \in 1 .. Len(b) PROVE j[Len(a) + i] = b[i]
  <2>1. /\ Len(a) + i \in 1 .. Len(a) + Len(b) /\ ~(Len(a) + i <= Len(a))
        /\ (Len(a) + i) - Len(a) = i
    BY <1>2
  <2> QED
    BY <1>1, <2>1
<1> QED
  BY <1>1, <1>3, <1>4 DEF j

(* The second sequence begins where the first ends.                        *)
LEMMA JoinedSecond ==
    ASSUME NEW S, NEW a \in Seq(S), NEW b \in Seq(S)
    PROVE  \A i \in 1 .. Len(b) : Joined(a, b)[Len(a) + i] = b[i]
BY JoinedIs, SMT

(* Nothing to join. *)
LEMMA JoinedNothing ==
    ASSUME NEW S, NEW a \in Seq(S)
    PROVE  Joined(a, <<>>) = a /\ Joined(<<>>, a) = a
BY ConcatEmptySeq, Zenon DEF Joined

(* To append is to join a sequence of one. *)
LEMMA JoinedOne ==
    ASSUME NEW S, NEW a \in Seq(S), NEW e \in S
    PROVE  Append(a, e) = Joined(a, <<e>>)
BY AppendIsConcat, Zenon DEF Joined

(* One more byte of a sequence that is being copied behind another one.    *)
LEMMA JoinedLonger ==
    ASSUME NEW S, NEW a \in Seq(S), NEW b \in Seq(S), NEW m \in Nat, m < Len(b)
    PROVE  Append(Joined(a, SubSeq(b, 1, m)), b[m + 1]) = Joined(a, SubSeq(b, 1, m + 1))
<1>1. Len(b) \in Nat /\ m + 1 \in 1 .. Len(b) /\ b[m + 1] \in S
  <2>1. Len(b) \in Nat /\ m + 1 \in 1 .. Len(b)
    BY LenProperties
  <2> QED
    BY <2>1, ElementOfSeq
<1>2. \A i \in 1 .. m + 1 : b[i] \in S
  BY <1>1, ElementOfSeq
<1> DEFINE x == SubSeq(b, 1, m)
           y == SubSeq(b, 1, m + 1)
<1>3. x \in Seq(S) /\ Len(x) = m /\ \A i \in 1 .. m : x[i] = b[i]
  <2>1. \A i \in 1 .. m : b[i] \in S
    BY <1>2
  <2>2. /\ x \in Seq(S) /\ Len(x) = IF 1 <= m THEN m - 1 + 1 ELSE 0
        /\ \A i \in 1 .. m - 1 + 1 : x[i] = b[1 + i - 1]
    BY <2>1, SubSeqProperties
  <2> HIDE DEF x
  <2> QED
    BY <2>2
<1>4. y \in Seq(S) /\ Len(y) = m + 1 /\ \A i \in 1 .. m + 1 : y[i] = b[i]
  <2>1. m + 1 \in Int /\ 1 \in Int
    OBVIOUS
  <2>2. /\ y \in Seq(S) /\ Len(y) = IF 1 <= m + 1 THEN (m + 1) - 1 + 1 ELSE 0
        /\ \A i \in 1 .. (m + 1) - 1 + 1 : y[i] = b[1 + i - 1]
    BY <1>2, <2>1, SubSeqProperties
  <2> HIDE DEF y
  <2> QED
    BY <2>2
<1> HIDE DEF x, y
<1> DEFINE p == Joined(a, x)
           q == Joined(a, y)
           r == Append(p, b[m + 1])
<1>5. Len(a) \in Nat
  BY LenProperties
<1>6. /\ p \in Seq(S) /\ Len(p) = Len(a) + m
      /\ \A i \in 1 .. Len(a) : p[i] = a[i]
      /\ \A i \in 1 .. m : p[Len(a) + i] = b[i]
  <2>1. p \in Seq(S) /\ Len(p) = Len(a) + Len(x)
    BY <1>3, JoinedIs
  <2>2. \A i \in 1 .. Len(a) : p[i] = a[i]
    BY <1>3, JoinedIs
  <2>3. \A i \in 1 .. Len(x) : p[Len(a) + i] = x[i]
    <3>1. x \in Seq(S)
      BY <1>3
    <3> HIDE DEF p
    <3>2. \A i \in 1 .. Len(x) : Joined(a, x)[Len(a) + i] = x[i]
      BY <3>1, JoinedSecond, Zenon
    <3> QED
      BY <3>2, Zenon DEF p
  <2> HIDE DEF p
  <2> QED
    BY <1>3, <2>1, <2>2, <2>3
<1>7. /\ q \in Seq(S) /\ Len(q) = Len(a) + (m + 1)
      /\ \A i \in 1 .. Len(a) : q[i] = a[i]
      /\ \A i \in 1 .. m + 1 : q[Len(a) + i] = b[i]
  <2>1. q \in Seq(S) /\ Len(q) = Len(a) + Len(y)
    BY <1>4, JoinedIs
  <2>2. \A i \in 1 .. Len(a) : q[i] = a[i]
    BY <1>4, JoinedIs
  <2>3. \A i \in 1 .. Len(y) : q[Len(a) + i] = y[i]
    <3>1. y \in Seq(S)
      BY <1>4
    <3> HIDE DEF q
    <3>2. \A i \in 1 .. Len(y) : Joined(a, y)[Len(a) + i] = y[i]
      BY <3>1, JoinedSecond, Zenon
    <3> QED
      BY <3>2, Zenon DEF q
  <2> HIDE DEF q
  <2> QED
    BY <1>4, <2>1, <2>2, <2>3
<1> HIDE DEF p, q
<1>8. /\ r \in Seq(S) /\ Len(r) = Len(p) + 1
      /\ \A i \in 1 .. Len(p) : r[i] = p[i]
      /\ r[Len(p) + 1] = b[m + 1]
  BY <1>1, <1>6, AppendProperties
<1> HIDE DEF r
<1>9. ASSUME NEW i \in 1 .. Len(r) PROVE r[i] = q[i]
  <2>1. CASE i \in 1 .. Len(a)
    BY <1>5, <1>6, <1>7, <1>8, <2>1
  <2>2. CASE i \in Len(a) + 1 .. Len(a) + m
    <3>1. PICK k \in 1 .. m : i = Len(a) + k
      <4>1. i - Len(a) \in 1 .. m /\ i = Len(a) + (i - Len(a))
        BY <1>5, <2>2
      <4> QED
        BY <4>1
    <3>2. k \in 1 .. m + 1 /\ i \in 1 .. Len(p)
      BY <1>5, <1>6, <3>1
    <3>3. r[i] = p[i] /\ p[i] = b[k] /\ q[i] = b[k]
      BY <1>6, <1>7, <1>8, <3>1, <3>2
    <3> QED
      BY <3>3
  <2>3. CASE i = Len(a) + m + 1
    <3>1. m + 1 \in 1 .. m + 1 /\ i = Len(a) + (m + 1) /\ i = Len(p) + 1
      BY <1>5, <1>6, <2>3
    <3> QED
      BY <1>7, <1>8, <3>1
  <2> QED
    BY <1>5, <1>6, <1>8, <2>1, <2>2, <2>3
<1>10. Len(r) = Len(q)
  BY <1>5, <1>6, <1>7, <1>8
<1>11. r = q
  BY <1>7, <1>8, <1>9, <1>10, SeqEqual
<1> QED
  BY <1>11 DEF p, q, r, x, y

(* FlattenSeq runs through its argument from the left.                     *)
LEMMA FlattenIs ==
    ASSUME NEW S, NEW u \in Seq(Seq(S)), NEW n \in Nat, n # 0, Len(u) = n,
           NEW m \in Nat, n <= m, NEW f \in [0 .. m -> Seq(S)], f[0] = <<>>,
           \A i \in 1 .. n : f[i] = Joined(f[i - 1], u[i])
    PROVE  FlattenSeq(u) = f[n]
<1> DEFINE Round(g) == [i \in 1 .. n |-> IF i = 1 THEN u[i] ELSE Joined(g[i - 1], u[i])]
           h == [i \in 1 .. n |-> f[i]]
<1>2. \A i \in 1 .. n : u[i] \in Seq(S)
  BY ElementOfSeq
<1>3. FlattenSeq(u) = (CHOOSE g : g = Round(g))[n]
  BY Zenon DEF FlattenSeq, Joined
<1>4. f[1] = u[1]
  <2>1. 1 \in 1 .. n /\ 1 - 1 = 0
    OBVIOUS
  <2>2. f[1] = Joined(<<>>, u[1])
    BY <2>1
  <2> QED
    BY <1>2, <2>1, <2>2, JoinedNothing
<1>5. h = Round(h)
  <2>1. ASSUME NEW i \in 1 .. n PROVE h[i] = IF i = 1 THEN u[i] ELSE Joined(h[i - 1], u[i])
    <3>1. CASE i = 1
      BY <1>4, <3>1
    <3>2. CASE i # 1
      <4>1. i - 1 \in 1 .. n
        BY <3>2
      <4>2. h[i - 1] = f[i - 1] /\ h[i] = f[i]
        BY <4>1
      <4> QED
        BY <3>2, <4>2
    <3> QED
      BY <3>1, <3>2
  <2>2. h = [i \in 1 .. n |-> h[i]]
    OBVIOUS
  <2> HIDE DEF h
  <2> QED
    BY <2>1, <2>2
<1>6. PICK g : g = (CHOOSE x : x = Round(x)) /\ g = Round(g)
  <2> HIDE DEF h, Round
  <2> QED
    BY <1>5
<1>7. \A i \in 1 .. n : g[i] = IF i = 1 THEN u[i] ELSE Joined(g[i - 1], u[i])
  BY <1>6
<1> DEFINE T == {j \in 0 .. n : j = 0 \/ g[j] = f[j]}
<1>8. ASSUME NEW j \in 0 .. n, j < n, j \in T PROVE j + 1 \in T
  <2>1. j + 1 \in 1 .. n /\ (j + 1) - 1 = j
    BY <1>8
  <2>2. f[j + 1] = Joined(f[j], u[j + 1])
    BY <2>1
  <2>3. g[j + 1] = f[j + 1]
    BY <1>4, <1>7, <1>8, <2>1, <2>2
  <2> QED
    BY <2>1, <2>3
<1>9. 0 \in T
  OBVIOUS
<1> HIDE DEF T
<1>12. \A i \in 0 .. n : i \in T
  BY <1>8, <1>9, UpTo, Zenon
<1>10. n \in T
  BY <1>12
<1>11. g[n] = f[n]
  BY <1>10 DEF T
<1> QED
  BY <1>3, <1>6, <1>11

(* f[k]: the first k sequences of t, joined. *)
PrefixesAre(f, t, S) ==
    /\ f \in [0 .. Len(t) -> Seq(S)]
    /\ f[0] = <<>>
    /\ \A i \in 1 .. Len(t) : f[i] = Joined(f[i - 1], t[i])

(* ... which are what FlattenSeq makes of the first k.                     *)
Flattening(f, t, S) ==
    /\ PrefixesAre(f, t, S)
    /\ \A k \in 0 .. Len(t) : FlattenSeq(SubSeq(t, 1, k)) = f[k]

(* There are such prefixes for every sequence of sequences.                *)
LEMMA FlattenPrefixes ==
    ASSUME NEW S, NEW t \in Seq(Seq(S))
    PROVE  \E f : Flattening(f, t, S)
<1>1. PICK n \in Nat : n = Len(t)
  BY LenProperties
<1>2. \A i \in 1 .. n : t[i] \in Seq(S)
  BY <1>1, ElementOfSeq
<1>3. <<>> \in Seq(S)
  BY EmptySeq
<1> DEFINE F == [i \in 1 .. n |-> [x \in Seq(S) |-> Joined(x, t[i])]]
<1>4. \A i \in 1 .. n : \A x \in Seq(S) : F[i][x] = Joined(x, t[i]) /\ F[i][x] \in Seq(S)
  BY <1>2, JoinedIs
<1> HIDE DEF F
<1>8. \A i \in 1 .. n : \A x \in Seq(S) : F[i][x] \in Seq(S)
  BY <1>4
<1>9. PICK f : Runs(f, n, Seq(S), <<>>, F)
  BY <1>3, <1>8, LoopExists
<1>5. f \in [0 .. n -> Seq(S)] /\ f[0] = <<>> /\ \A i \in 1 .. n : f[i] = F[i][f[i - 1]]
  BY <1>9 DEF Runs
<1>6. \A i \in 1 .. n : f[i] = Joined(f[i - 1], t[i])
  <2> SUFFICES ASSUME NEW i \in 1 .. n PROVE f[i] = Joined(f[i - 1], t[i])
    OBVIOUS
  <2>1. i - 1 \in 0 .. n
    OBVIOUS
  <2> QED
    BY <1>4, <1>5, <2>1
<1>7. ASSUME NEW k \in 0 .. n PROVE FlattenSeq(SubSeq(t, 1, k)) = f[k]
  <2>1. CASE k = 0
    <3>1. SubSeq(t, 1, k) = <<>>
      BY <2>1, SubSeqEmpty
    <3>2. FlattenSeq(<<>>) = <<>>
      BY DEF FlattenSeq
    <3> QED
      BY <1>5, <2>1, <3>1, <3>2
  <2>2. CASE k # 0
    <3>1. PICK u : u = SubSeq(t, 1, k)
      OBVIOUS
    <3>2. \A i \in 1 .. k : t[i] \in Seq(S)
      BY <1>2
    <3>3. /\ u \in Seq(Seq(S)) /\ Len(u) = IF 1 <= k THEN k - 1 + 1 ELSE 0
          /\ \A i \in 1 .. k - 1 + 1 : u[i] = t[1 + i - 1]
      BY <3>1, <3>2, SubSeqProperties
    <3>4. Len(u) = k /\ \A i \in 1 .. k : u[i] = t[i]
      BY <2>2, <3>3
    <3>5. \A i \in 1 .. k : f[i] = Joined(f[i - 1], u[i])
      <4> SUFFICES ASSUME NEW i \in 1 .. k PROVE f[i] = Joined(f[i - 1], u[i])
        OBVIOUS
      <4>1. i \in 1 .. n
        OBVIOUS
      <4> QED
        BY <1>6, <3>4, <4>1
    <3>6. k \in Nat /\ k <= n /\ f[0] = <<>>
      BY <1>5
    <3>7. FlattenSeq(u) = f[k]
      BY <1>5, <2>2, <3>3, <3>4, <3>5, <3>6, FlattenIs
    <3> QED
      BY <3>1, <3>7
  <2> QED
    BY <2>1, <2>2
<1>10. PrefixesAre(f, t, S)
  BY <1>1, <1>5, <1>6 DEF PrefixesAre
<1>11. Flattening(f, t, S)
  BY <1>1, <1>7, <1>10 DEF Flattening
<1> QED
  BY <1>11

-------------------------------------------------------------------------------
(* _replace_UTF8_chars: letter by letter, whatever the letters are.        *)

(* Byte i of s makes of the text t, the replaced text up to it.            *)
NextOf(s, i, t) ==
    IF Known(s, i) THEN Append(t, Substitute(s[i], s[i + 1]))
    ELSE IF i > 1 /\ Known(s, i - 1) THEN t
    ELSE Append(t, s[i])

(* _replace_UTF8_chars as a loop over the bytes.                           *)
LEMMA ReplacedLoop ==
    ASSUME NEW s \in Seq(Codes), NEW n \in Nat, n = Len(s)
    PROVE  \E r \in [0 .. n -> Seq(Codes)] :
               /\ r[0] = <<>>
               /\ \A i \in 1 .. n : r[i] = NextOf(s, i, r[i - 1])
               /\ Replaced(s) = r[n]
<1> DEFINE Round(g) == [i \in 0 .. Len(s) |-> IF i = 0 THEN <<>> ELSE NextOf(s, i, g[i - 1])]
           F == [i \in 1 .. n |-> [x \in Seq(Codes) |-> NextOf(s, i, x)]]
<1>1. \A i \in 1 .. n : s[i] \in Codes
  BY ElementOfSeq
<1>2. ASSUME NEW i \in 1 .. n, NEW x \in Seq(Codes) PROVE NextOf(s, i, x) \in Seq(Codes)
  <2>1. Append(x, s[i]) \in Seq(Codes)
    BY <1>1, AppendProperties
  <2>2. CASE Known(s, i)
    <3>1. i + 1 \in 1 .. n
      BY <2>2 DEF Known
    <3>2. Substitute(s[i], s[i + 1]) \in Codes
      BY <1>1, <3>1, Table
    <3>3. Append(x, Substitute(s[i], s[i + 1])) \in Seq(Codes)
      BY <3>2, AppendProperties
    <3> QED
      BY <2>2, <3>3 DEF NextOf
  <2>3. CASE ~Known(s, i)
    BY <2>1, <2>3 DEF NextOf
  <2> QED
    BY <2>2, <2>3
<1>3. \A i \in 1 .. n : \A x \in Seq(Codes) : F[i][x] = NextOf(s, i, x)
  OBVIOUS
<1>4. \A i \in 1 .. n : \A x \in Seq(Codes) : F[i][x] \in Seq(Codes)
  BY <1>2, <1>3
<1>5. <<>> \in Seq(Codes)
  BY EmptySeq
<1> HIDE DEF F
<1>6. PICK r : Runs(r, n, Seq(Codes), <<>>, F)
  BY <1>4, <1>5, LoopExists
<1>7. r \in [0 .. n -> Seq(Codes)] /\ r[0] = <<>> /\ \A i \in 1 .. n : r[i] = F[i][r[i - 1]]
  BY <1>6 DEF Runs
<1>8. ASSUME NEW i \in 1 .. n PROVE r[i] = NextOf(s, i, r[i - 1])
  <2>1. i - 1 \in 0 .. n
    OBVIOUS
  <2> QED
    BY <1>3, <1>7, <2>1
<1>9. r = Round(r)
  BY <1>7, <1>8
<1>10. Replaced(s) = (CHOOSE g : g = Round(g))[Len(s)]
  BY Zenon DEF Replaced, NextOf
<1>11. PICK g : g = (CHOOSE x : x = Round(x)) /\ g = Round(g)
  <2> HIDE DEF Round
  <2> QED
    BY <1>9
<1>12. /\ g = [i \in 0 .. n |-> g[i]] /\ g[0] = <<>>
       /\ \A i \in 1 .. n : g[i] = NextOf(s, i, g[i - 1])
  BY <1>11
<1>13. \A i \in 1 .. n : g[i - 1] \in Seq(Codes) => g[i] = F[i][g[i - 1]]
  BY <1>3, <1>12
<1>16. Follows(g, n, Seq(Codes), <<>>, F)
  BY <1>12, <1>13, Zenon DEF Follows
<1>14. g = r
  BY <1>5, <1>6, <1>16, RunsOnce
<1>15. Replaced(s) = r[n]
  BY <1>10, <1>11, <1>14
<1> QED
  BY <1>7, <1>8, <1>15

(* r[i]: the replaced text up to byte i of s.                              *)
Replacing(r, s) ==
    /\ r \in [0 .. Len(s) -> Seq(Codes)]
    /\ \A i \in 1 .. Len(s) : r[i] = NextOf(s, i, r[i - 1])

(* Bytes that are not replaced are copied.                                 *)
LEMMA PlainBytes ==
    ASSUME NEW s \in Seq(Codes), NEW r, Replacing(r, s), NEW u \in Nat,
           NEW l \in Seq(Codes), NEW q \in Nat, q <= Len(l), u + q <= Len(s),
           \A m \in 1 .. q : s[u + m] = l[m] /\ ~Known(s, u + m),
           u = 0 \/ ~Known(s, u)
    PROVE  r[u + q] = Joined(r[u], SubSeq(l, 1, q))
<1>1. PICK n \in Nat : n = Len(s)
  BY LenProperties
<1>2. PICK k \in Nat : k = Len(l)
  BY LenProperties
<1>3. r \in [0 .. n -> Seq(Codes)] /\ \A i \in 1 .. n : r[i] = NextOf(s, i, r[i - 1])
  BY <1>1 DEF Replacing
<1>4. r[u] \in Seq(Codes)
  BY <1>1, <1>3
<1> DEFINE T == {m \in 0 .. q : r[u + m] = Joined(r[u], SubSeq(l, 1, m))}
<1>5. 0 \in T
  <2>1. SubSeq(l, 1, 0) = <<>>
    BY SubSeqEmpty
  <2>2. Joined(r[u], SubSeq(l, 1, 0)) = r[u]
    BY <1>4, <2>1, JoinedNothing
  <2> QED
    BY <2>2
<1>6. ASSUME NEW m \in 0 .. q, m < q, m \in T PROVE m + 1 \in T
  <2>1. m + 1 \in 1 .. q /\ u + (m + 1) \in 1 .. n /\ (u + (m + 1)) - 1 = u + m
    BY <1>1, <1>6
  <2>2. r[u + (m + 1)] = NextOf(s, u + (m + 1), r[u + m])
    BY <1>3, <2>1
  <2>3. s[u + (m + 1)] = l[m + 1] /\ ~Known(s, u + (m + 1))
    BY <2>1
  <2>4. ~(u + (m + 1) > 1 /\ Known(s, (u + (m + 1)) - 1))
    <3>1. CASE m = 0
      BY <3>1
    <3>2. CASE m # 0
      <4>1. m \in 1 .. q
        BY <1>6, <3>2
      <4>2. ~Known(s, u + m)
        BY <4>1
      <4> QED
        BY <2>1, <4>2
    <3> QED
      BY <3>1, <3>2
  <2>5. r[u + (m + 1)] = Append(r[u + m], l[m + 1])
    BY <2>2, <2>3, <2>4, Zenon DEF NextOf
  <2>6. r[u + m] = Joined(r[u], SubSeq(l, 1, m))
    BY <1>6
  <2>7. m \in Nat /\ m < Len(l)
    BY <1>2, <1>6
  <2>8. Append(Joined(r[u], SubSeq(l, 1, m)), l[m + 1]) = Joined(r[u], SubSeq(l, 1, m + 1))
    BY <1>4, <2>7, JoinedLonger
  <2>9. r[u + (m + 1)] = Joined(r[u], SubSeq(l, 1, m + 1))
    BY <2>5, <2>6, <2>8, Zenon
  <2>10. m + 1 \in 0 .. q
    BY <2>1
  <2> QED
    BY <2>9, <2>10
<1> HIDE DEF T
<1>7. \A m \in 0 .. q : m \in T
  BY <1>5, <1>6, UpTo
<1>8. q \in T
  BY <1>7
<1> QED
  BY <1>8 DEF T

(* A letter of k bytes. *)
Shape(l, k) ==
    /\ k \in 1 .. 4
    /\ l \in Seq(Codes) /\ Len(l) = k
    /\ \A i \in 1 .. k : l[i] \in Codes
    /\ \A i \in 2 .. k : l[i] < 192
    /\ ~(l[1] \in 128 .. 191)
    /\ k = 1 => l[1] \in 1 .. 127
    /\ k # 1 /\ l[1] < 224 => k = 2

(* Every letter has that shape. *)
LEMMA LetterShape ==
    ASSUME NEW l, Letter(l)
    PROVE  \E k : Shape(l, k)
<1>1. ASSUME NEW n \in 1 .. 4, l \in [1 .. n -> Codes]
      PROVE  l \in Seq(Codes) /\ Len(l) = n /\ \A i \in 1 .. n : l[i] \in Codes
  <2>1. \A k \in Nat : \A x \in [1 .. k -> Codes] : x \in Seq(Codes) /\ Len(x) = k
    OBVIOUS
  <2>2. n \in Nat
    OBVIOUS
  <2>3. l \in Seq(Codes) /\ Len(l) = n
    BY <1>1, <2>1, <2>2
  <2>4. \A i \in 1 .. n : l[i] \in Codes
    BY <1>1
  <2> QED
    BY <2>3, <2>4
<1>2. CASE l \in [1 .. 1 -> 1 .. 127]
  <2>1. PICK n \in 1 .. 4 : n = 1
    OBVIOUS
  <2>2. l \in [1 .. n -> Codes] /\ l[1] \in 1 .. 127
    BY <1>2, <2>1 DEF Codes
  <2>3. l \in Seq(Codes) /\ Len(l) = n /\ \A i \in 1 .. n : l[i] \in Codes
    BY <1>1, <2>2
  <2>4. \A i \in 2 .. n : l[i] < 192
    BY <2>1
  <2>5. /\ ~(l[1] \in 128 .. 191)
        /\ n = 1 => l[1] \in 1 .. 127
        /\ n # 1 /\ l[1] < 224 => n = 2
    BY <2>1, <2>2
  <2>6. Shape(l, n)
    BY <2>3, <2>4, <2>5, Zenon DEF Shape
  <2> QED
    BY <2>6
<1>3. ASSUME NEW n \in 2 .. 4, l \in [1 .. n -> 128 .. 255],
             l[1] >= 194 /\ (l[1] < 224 <=> n = 2),
             \A i \in 2 .. n : l[i] < 192
      PROVE  Shape(l, n)
  <2>1. l \in [1 .. n -> Codes] /\ n \in 1 .. 4
    BY <1>3 DEF Codes
  <2>2. l \in Seq(Codes) /\ Len(l) = n /\ \A i \in 1 .. n : l[i] \in Codes
    BY <1>1, <2>1
  <2>3. ~(l[1] \in 128 .. 191) /\ n # 1
    <3>1. l[1] \in 128 .. 255 /\ l[1] >= 194 /\ n # 1
      BY <1>3
    <3> QED
      BY <3>1
  <2>4. n = 1 => l[1] \in 1 .. 127
    BY <2>3
  <2>5. n # 1 /\ l[1] < 224 => n = 2
    BY <1>3
  <2> QED
    BY <1>3, <2>1, <2>2, <2>3, <2>4, <2>5, Zenon DEF Shape
<1> QED
  BY <1>2, <1>3 DEF Letter

(* A letter in the middle of a string: what stands for it is copied.       *)
Cells(l) == IF Known(l, 1) THEN <<Substitute(l[1], l[2])>> ELSE l

(* What is no pair of the table: a first byte that begins none, the end of *)
(* the string, a second byte that continues none.                          *)
LEMMA NotKnown ==
    ASSUME NEW s \in Seq(Codes), NEW i \in 1 .. Len(s)
    PROVE  /\ ~(s[i] \in {194, 195}) => ~Known(s, i)
           /\ i = Len(s) => ~Known(s, i)
           /\ i < Len(s) /\ ~(s[i + 1] \in 128 .. 191) => ~Known(s, i)
<1>1. PICK n \in Nat : n = Len(s)
  BY LenProperties
<1>2. s[i] \in Codes /\ (i < n => s[i + 1] \in Codes)
  <2>1. \A k \in 1 .. n : s[k] \in Codes
    BY <1>1, ElementOfSeq
  <2> QED
    BY <1>1, <2>1
<1>3. ASSUME Known(s, i)
      PROVE  i < n /\ s[i] \in {194, 195} /\ s[i + 1] \in 128 .. 191
  <2>1. i < n /\ Substitute(s[i], s[i + 1]) # 0
    BY <1>1, <1>3 DEF Known
  <2> QED
    BY <1>2, <2>1, Table
<1> QED
  BY <1>1, <1>3

(* A letter whose first q bytes lie behind byte u of a string.             *)
Behind(s, u, l, q) == u + q <= Len(s) /\ \A m \in 1 .. q : s[u + m] = l[m]

(* The byte before a letter is not the first of a known pair.              *)
LEMMA NotKnownBefore ==
    ASSUME NEW s \in Seq(Codes), NEW u \in Nat, NEW l, NEW k, Shape(l, k),
           NEW q \in 1 .. k, Behind(s, u, l, q)
    PROVE  u = 0 \/ ~Known(s, u)
<1>1. PICK n \in Nat : n = Len(s)
  BY LenProperties
<1>2. u + q <= n /\ s[u + 1] = l[1]
  <2>1. u + q <= n /\ \A m \in 1 .. q : s[u + m] = l[m]
    BY <1>1, Zenon DEF Behind
  <2> QED
    BY <2>1
<1>3. ~(l[1] \in 128 .. 191)
  BY Zenon DEF Shape
<1>4. k \in 1 .. 4
  BY Zenon DEF Shape
<1>5. CASE u # 0
  <2>1. u \in 1 .. n /\ u < n
    BY <1>2, <1>4, <1>5
  <2> QED
    BY <1>1, <1>2, <1>3, <2>1, NotKnown
<1> QED
  BY <1>5

(* The bytes of a letter the library does not know, or of a part of one.   *)
LEMMA UnknownLetter ==
    ASSUME NEW s \in Seq(Codes), NEW r, Replacing(r, s), NEW u \in Nat,
           NEW l, NEW k, Shape(l, k), NEW q \in 1 .. k, Behind(s, u, l, q),
           ~Known(s, u + 1)
    PROVE  r[u + q] = Joined(r[u], SubSeq(l, 1, q))
<1>1. PICK n \in Nat : n = Len(s)
  BY LenProperties
<1>2. k \in 1 .. 4 /\ l \in Seq(Codes) /\ Len(l) = k
  BY Zenon DEF Shape
<1>3. \A i \in 2 .. k : l[i] < 192 /\ l[i] \in Codes
  <2>1. (\A i \in 1 .. k : l[i] \in Codes) /\ \A i \in 2 .. k : l[i] < 192
    BY Zenon DEF Shape
  <2> QED
    BY <2>1
<1>4. u + q <= n /\ \A m \in 1 .. q : s[u + m] = l[m]
  BY <1>1, Zenon DEF Behind
<1>5. u = 0 \/ ~Known(s, u)
  BY NotKnownBefore, Zenon
<1>6. ASSUME NEW m \in 1 .. q PROVE s[u + m] = l[m] /\ ~Known(s, u + m)
  <2>1. s[u + m] = l[m] /\ u + m \in 1 .. n
    BY <1>2, <1>4
  <2>2. CASE m = 1
    BY <2>1, <2>2
  <2>3. CASE m # 1
    <3>1. m \in 2 .. k
      BY <1>2, <2>3
    <3>2. l[m] < 192 /\ l[m] \in Codes
      BY <1>3, <3>1
    <3>3. ~(s[u + m] \in {194, 195})
      BY <2>1, <3>2 DEF Codes
    <3> QED
      BY <1>1, <2>1, <3>3, NotKnown
  <2> QED
    BY <2>2, <2>3
<1>7. q \in Nat /\ q <= Len(l) /\ u + q <= Len(s)
  BY <1>1, <1>2, <1>4
<1> QED
  BY <1>2, <1>5, <1>6, <1>7, PlainBytes

(* A whole letter: what stands for it is copied.                           *)
LEMMA LetterReplaced ==
    ASSUME NEW s \in Seq(Codes), NEW r, Replacing(r, s), NEW u \in Nat,
           NEW l, NEW k, Shape(l, k), Behind(s, u, l, k)
    PROVE  r[u + k] = Joined(r[u], Cells(l))
<1>1. PICK n \in Nat : n = Len(s)
  BY LenProperties
<1>2. k \in 1 .. 4 /\ l \in Seq(Codes) /\ Len(l) = k
  BY Zenon DEF Shape
<1>3. \A i \in 1 .. k : l[i] \in Codes
  BY Zenon DEF Shape
<1>4. u + k <= n /\ \A m \in 1 .. k : s[u + m] = l[m]
  BY <1>1, Zenon DEF Behind
<1>5. s[u + 1] = l[1] /\ (k # 1 => s[u + 2] = l[2])
  BY <1>2, <1>4
<1>6. Known(s, u + 1) <=> Known(l, 1)
  <2>1. CASE k = 1
    <3>1. l[1] \in 1 .. 127
      BY <2>1, Zenon DEF Shape
    <3>2. ~Known(l, 1)
      BY <1>2, <2>1 DEF Known
    <3>3. u + 1 \in 1 .. n
      BY <1>4, <2>1
    <3>4. ~(s[u + 1] \in {194, 195})
      <4>3. \A v \in 1 .. 127 : ~(v \in {194, 195})
        OBVIOUS
      <4>1. ~(l[1] \in {194, 195})
        BY <3>1, <4>3
      <4>2. s[u + 1] = l[1]
        BY <1>5
      <4> QED
        BY <4>1, <4>2, Zenon
    <3> QED
      BY <1>1, <3>2, <3>3, <3>4, NotKnown
  <2>2. CASE k # 1
    <3>1. 1 < k /\ u + 1 < n /\ (u + 1) + 1 = u + 2 /\ 1 + 1 = 2
      BY <1>2, <1>4, <2>2
    <3> QED
      BY <1>1, <1>2, <1>5, <2>2, <3>1 DEF Known
  <2> QED
    BY <2>1, <2>2
<1>7. CASE ~Known(l, 1)
  <2>1. k \in 1 .. k
    BY <1>2
  <2>2. r[u + k] = Joined(r[u], SubSeq(l, 1, k))
    BY <1>6, <1>7, <2>1, UnknownLetter
  <2>3. SubSeq(l, 1, k) = l
    BY <1>2, SubSeqFull, Zenon
  <2> QED
    BY <1>7, <2>2, <2>3, Zenon DEF Cells
<1>8. CASE Known(l, 1)
  <2>1. k = 2 /\ l[2] < 192 /\ l[2] \in Codes /\ l[1] \in Codes
    <3>1. 1 < k /\ 1 \in 1 .. Len(l)
      BY <1>2, <1>8 DEF Known
    <3>2. l[1] \in {194, 195}
      BY <1>2, <1>8, <3>1, NotKnown
    <3>3. k # 1 /\ l[1] < 224
      BY <3>1, <3>2
    <3>4. k = 2
      BY <3>3, Zenon DEF Shape
    <3>5. 2 \in 2 .. k /\ 1 \in 1 .. k /\ 2 \in 1 .. k
      BY <3>4
    <3>6. \A i \in 2 .. k : l[i] < 192
      BY Zenon DEF Shape
    <3> QED
      BY <1>3, <3>4, <3>5, <3>6
  <2>2. r \in [0 .. n -> Seq(Codes)] /\ \A i \in 1 .. n : r[i] = NextOf(s, i, r[i - 1])
    BY <1>1, Zenon DEF Replacing
  <2>3. /\ u \in 0 .. n /\ u + 1 \in 1 .. n /\ u + 2 \in 1 .. n
        /\ (u + 1) - 1 = u /\ (u + 2) - 1 = u + 1 /\ (u + 1) + 1 = u + 2
    BY <1>4, <2>1
  <2>4. r[u + 1] = Append(r[u], Substitute(l[1], l[2]))
    <3>1. r[u + 1] = NextOf(s, u + 1, r[u])
      BY <2>2, <2>3
    <3>2. s[u + 1] = l[1] /\ s[(u + 1) + 1] = l[2]
      BY <1>5, <2>1, <2>3
    <3> QED
      BY <1>6, <1>8, <3>1, <3>2, Zenon DEF NextOf
  <2>5. r[u + 2] = r[u + 1]
    <3>1. r[u + 2] = NextOf(s, u + 2, r[u + 1])
      BY <2>2, <2>3
    <3>2. ~(s[u + 2] \in {194, 195})
      BY <1>5, <2>1
    <3>3. ~Known(s, u + 2)
      BY <1>1, <2>3, <3>2, NotKnown
    <3>4. u + 2 > 1 /\ Known(s, (u + 2) - 1)
      BY <1>6, <1>8, <2>3
    <3> QED
      BY <3>1, <3>3, <3>4, Zenon DEF NextOf
  <2>6. r[u] \in Seq(Codes) /\ Substitute(l[1], l[2]) \in Codes
    BY <2>1, <2>2, <2>3, Table
  <2>7. r[u + 2] = Joined(r[u], <<Substitute(l[1], l[2])>>)
    BY <2>4, <2>5, <2>6, JoinedOne
  <2> QED
    BY <1>8, <2>1, <2>7 DEF Cells
<1> QED
  BY <1>7, <1>8

(* c is a and then b. *)
Composed(a, b, c) ==
    /\ Len(a) \in Nat /\ Len(b) \in Nat /\ Len(c) = Len(a) + Len(b)
    /\ \A m \in 1 .. Len(a) : c[m] = a[m]
    /\ \A m \in 1 .. Len(b) : c[Len(a) + m] = b[m]

(* A prefix and the next sequence make the next prefix.                    *)
LEMMA PrefixStep ==
    ASSUME NEW S, NEW t \in Seq(Seq(S)), NEW f, PrefixesAre(f, t, S), NEW n \in Nat, n = Len(t),
           NEW i \in 0 .. n, i < n
    PROVE  /\ f[i] \in Seq(S) /\ t[i + 1] \in Seq(S)
           /\ f[i + 1] = Joined(f[i], t[i + 1])
           /\ Composed(f[i], t[i + 1], f[i + 1])
<1>1. /\ f \in [0 .. n -> Seq(S)]
      /\ \A j \in 1 .. n : f[j] = Joined(f[j - 1], t[j])
  BY Zenon DEF PrefixesAre
<1>2. i + 1 \in 1 .. n /\ (i + 1) - 1 = i
  OBVIOUS
<1>3. f[i] \in Seq(S)
  BY <1>1
<1>4. t[i + 1] \in Seq(S)
  BY <1>2, ElementOfSeq
<1>5. f[i + 1] = Joined(f[i], t[i + 1])
  <2>1. f[i + 1] = Joined(f[(i + 1) - 1], t[i + 1])
    BY <1>1, <1>2, Zenon
  <2> QED
    BY <1>2, <2>1, Zenon
<1>6. PICK a, b : a = f[i] /\ b = t[i + 1]
  OBVIOUS
<1>7. a \in Seq(S) /\ b \in Seq(S)
  BY <1>3, <1>4, <1>6
<1>8. Len(a) \in Nat /\ Len(b) \in Nat
  BY <1>7, LenProperties
<1>9. Len(Joined(a, b)) = Len(a) + Len(b)
  BY <1>7, JoinedIs
<1>10. \A m \in 1 .. Len(a) : Joined(a, b)[m] = a[m]
  BY <1>7, JoinedIs
<1>11. \A m \in 1 .. Len(b) : Joined(a, b)[Len(a) + m] = b[m]
  BY <1>7, JoinedSecond, Zenon
<1>12. Composed(a, b, Joined(a, b))
  BY <1>8, <1>9, <1>10, <1>11, Zenon DEF Composed
<1> QED
  BY <1>3, <1>4, <1>5, <1>6, <1>12, Zenon

(* b begins with a. *)
Extended(a, b) == Len(a) <= Len(b) /\ \A m \in 1 .. Len(a) : b[m] = a[m]

(* A shorter prefix is the beginning of a longer one.                      *)
LEMMA PrefixGrows ==
    ASSUME NEW S, NEW t \in Seq(Seq(S)), NEW f, PrefixesAre(f, t, S), NEW n \in Nat, n = Len(t),
           NEW j \in 0 .. n
    PROVE  \A k \in 0 .. n : j <= k => Extended(f[j], f[k])
<1> DEFINE T == {k \in 0 .. n : j <= k => Extended(f[j], f[k])}
<1>1. \A k \in 0 .. n : f[k] \in Seq(S) /\ Len(f[k]) \in Nat
  <2>1. \A k \in 0 .. n : f[k] \in Seq(S)
    BY DEF PrefixesAre
  <2> QED
    BY <2>1, LenProperties
<1>2. 0 \in T
  <2>1. CASE j = 0
    BY <1>1, <2>1 DEF Extended
  <2>2. CASE j # 0
    BY <2>2
  <2> QED
    BY <2>1, <2>2
<1>3. ASSUME NEW k \in 0 .. n, k < n, k \in T PROVE k + 1 \in T
  <2>1. k + 1 \in 0 .. n
    BY <1>3
  <2>2. CASE j = k + 1
    BY <1>1, <2>1, <2>2 DEF Extended
  <2>3. CASE j <= k
    <3>1. /\ Len(f[j]) <= Len(f[k])
          /\ \A m \in 1 .. Len(f[j]) : f[k][m] = f[j][m]
      BY <1>3, <2>3 DEF Extended
    <3>2. Composed(f[k], t[k + 1], f[k + 1])
      BY <1>3, PrefixStep
    <3>3. \A m \in 1 .. Len(f[k]) : f[k + 1][m] = f[k][m]
      BY <3>2, Zenon DEF Composed
    <3>4. Len(f[j]) <= Len(f[k + 1])
      <4>1. PICK x, y, z : x = Len(f[j]) /\ y = Len(f[k]) /\ z = Len(t[k + 1])
        OBVIOUS
      <4>2. x \in Nat /\ y \in Nat /\ x <= y
        BY <1>1, <3>1, <4>1, Zenon
      <4>3. z \in Nat /\ Len(f[k + 1]) = y + z
        BY <3>2, <4>1, Zenon DEF Composed
      <4>4. x <= y + z
        BY <4>2, <4>3
      <4> QED
        BY <4>1, <4>3, <4>4, Zenon
    <3>5. ASSUME NEW m \in 1 .. Len(f[j]) PROVE f[k + 1][m] = f[j][m]
      <4>1. m \in 1 .. Len(f[k])
        BY <1>1, <3>1
      <4> QED
        BY <3>1, <3>3, <4>1
    <3> QED
      BY <2>1, <3>4, <3>5 DEF Extended
  <2>4. CASE ~(j <= k) /\ j # k + 1
    <3>1. ~(j <= k + 1)
      BY <1>3, <2>4
    <3> QED
      BY <2>1, <3>1
  <2> QED
    BY <2>2, <2>3, <2>4
<1> HIDE DEF T
<1>4. \A k \in 0 .. n : k \in T
  BY <1>2, <1>3, UpTo
<1> QED
  BY <1>4 DEF T

(* What the first n letters of t look like.                                *)
CellsIn(t, n) == [i \in 1 .. n |-> Cells(t[i])]

(* A text of n letters; b[k] and w[k]: the bytes and the cells of the first k. *)
Named(t, n, b, w) ==
    /\ n \in Nat /\ n = Len(t) /\ t \in Seq(Seq(Codes))
    /\ \A i \in 1 .. n : Letter(t[i])
    /\ PrefixesAre(b, t, Codes)
    /\ CellsIn(t, n) \in Seq(Seq(Codes))
    /\ PrefixesAre(w, CellsIn(t, n), Codes)
    /\ \A k \in 0 .. n : Bytes(SubSeq(t, 1, k)) = b[k]
    /\ \A k \in 0 .. n : Shown(SubSeq(t, 1, k)) = w[k]
    /\ Bytes(t) = b[n] /\ Shown(t) = w[n]

(* The first bytes of a text, up to the end of a letter, come out as its   *)
(* cells.                                                                  *)
LEMMA LettersCopied ==
    ASSUME NEW t, NEW n, NEW b, NEW w, Named(t, n, b, w),
           NEW s \in Seq(Codes), NEW r, Replacing(r, s), r[0] = <<>>,
           NEW k \in 0 .. n, Extended(b[k], s)
    PROVE  r[Len(b[k])] = w[k]
<1>20. n \in Nat /\ n = Len(t) /\ t \in Seq(Seq(Codes))
  BY Zenon DEF Named
<1>21. \A i \in 1 .. n : Letter(t[i])
  BY Zenon DEF Named
<1>22. PrefixesAre(b, t, Codes)
  BY Zenon DEF Named
<1>23. /\ CellsIn(t, n) \in Seq(Seq(Codes))
      /\ PrefixesAre(w, CellsIn(t, n), Codes)
  BY Zenon DEF Named
<1>24. /\ Len(b[k]) <= Len(s)
      /\ \A m \in 1 .. Len(b[k]) : s[m] = b[k][m]
  BY Zenon DEF Extended
<1> DEFINE c == CellsIn(t, n)
           T == {j \in 0 .. k : r[Len(b[j])] = w[j]}
<1>1. Len(c) = n /\ \A i \in 1 .. n : c[i] = Cells(t[i])
  BY <1>20 DEF CellsIn
<1>2. c \in Seq(Seq(Codes)) /\ PrefixesAre(w, c, Codes)
  BY <1>23
<1> HIDE DEF c
<1>3. \A j \in 0 .. n : b[j] \in Seq(Codes) /\ Len(b[j]) \in Nat
  <2>1. \A j \in 0 .. n : b[j] \in Seq(Codes)
    BY <1>20, <1>22 DEF PrefixesAre
  <2> QED
    BY <2>1, LenProperties
<1>4. 0 \in T
  <2>1. b[0] = <<>> /\ w[0] = <<>>
    BY <1>2, <1>22, Zenon DEF PrefixesAre
  <2>2. Len(b[0]) = 0
    BY <2>1, EmptySeq
  <2> QED
    BY <2>1, <2>2
<1>5. ASSUME NEW j \in 0 .. k, j < k, j \in T PROVE j + 1 \in T
  <2>1. j \in 0 .. n /\ j < n /\ j + 1 \in 0 .. k /\ j + 1 \in 1 .. n /\ j + 1 \in 0 .. n /\ j + 1 <= k
    BY <1>5, <1>20
  <2>2. Composed(b[j], t[j + 1], b[j + 1])
    BY <1>20, <1>22, <2>1, PrefixStep
  <2>3. w[j + 1] = Joined(w[j], Cells(t[j + 1]))
    <3>1. w[j + 1] = Joined(w[j], c[j + 1])
      BY <1>1, <1>2, <1>20, <2>1, PrefixStep
    <3> QED
      BY <1>1, <2>1, <3>1
  <2>4. PICK l : l = t[j + 1]
    OBVIOUS
  <2>5. PICK q : Shape(l, q)
    BY <1>21, <2>1, <2>4, LetterShape
  <2>6. q \in Nat /\ Len(l) = q
    BY <2>5 DEF Shape
  <2>7. PICK u \in Nat : u = Len(b[j])
    BY <1>3, <2>1
  <2>8. Len(b[j + 1]) = u + q
    BY <2>2, <2>4, <2>6, <2>7, Zenon DEF Composed
  <2>9. \A m \in 1 .. q : b[j + 1][u + m] = l[m]
    BY <2>2, <2>4, <2>6, <2>7, Zenon DEF Composed
  <2>10. /\ Len(b[j + 1]) <= Len(b[k])
         /\ \A m \in 1 .. Len(b[j + 1]) : b[k][m] = b[j + 1][m]
    <3>1. k \in 0 .. n /\ j + 1 \in 0 .. n
      BY <1>20, <2>1
    <3>2. \A x \in 0 .. n : j + 1 <= x => Extended(b[j + 1], b[x])
      BY <1>20, <1>22, <2>1, PrefixGrows
    <3>3. Extended(b[j + 1], b[k])
      BY <2>1, <3>1, <3>2, Zenon
    <3> QED
      BY <3>3, Zenon DEF Extended
  <2>11. Behind(s, u, l, q)
    <3>1. PICK x, y : x = Len(b[k]) /\ y = Len(s)
      OBVIOUS
    <3>2. x \in Nat /\ y \in Nat /\ x <= y /\ u + q <= x
      BY <1>3, <1>20, <1>24, <2>8, <2>10, <3>1, LenProperties
    <3>3. u + q <= Len(s)
      <4>1. u + q <= y
        BY <3>2, <2>6
      <4> QED
        BY <3>1, <4>1, Zenon
    <3>4. ASSUME NEW m \in 1 .. q PROVE s[u + m] = l[m]
      <4>1. u + m \in 1 .. u + q /\ u + m \in 1 .. x
        BY <2>6, <3>2
      <4>2. s[u + m] = b[k][u + m]
        BY <1>24, <3>1, <4>1, Zenon
      <4>3. b[k][u + m] = b[j + 1][u + m]
        BY <2>8, <2>10, <4>1, Zenon
      <4> QED
        BY <2>9, <4>2, <4>3, Zenon
    <3> QED
      BY <3>3, <3>4, Zenon DEF Behind
  <2>12. r[u + q] = Joined(r[u], Cells(l))
    BY <2>5, <2>11, LetterReplaced
  <2>13. r[u] = w[j]
    BY <1>5, <2>7
  <2>14. r[Len(b[j + 1])] = w[j + 1]
    BY <2>3, <2>4, <2>8, <2>12, <2>13, Zenon
  <2> QED
    BY <2>1, <2>14
<1> HIDE DEF T
<1>6. \A j \in 0 .. k : j \in T
  <2>1. k \in Nat
    BY <1>20
  <2> QED
    BY <1>4, <1>5, <2>1, UpTo
<1>7. k \in T
  BY <1>6, <1>20
<1> QED
  BY <1>7 DEF T

(* Bytes and cells of a text. *)
LEMMA TextIs ==
    ASSUME NEW t \in Texts
    PROVE  \E n \in Nat :
               /\ n = Len(t) /\ t \in Seq(Seq(Codes)) /\ DOMAIN t = 1 .. n
               /\ \A i \in 1 .. n : Letter(t[i]) /\ CellsOf[t[i]] = Cells(t[i])
               /\ CellsIn(t, n) \in Seq(Seq(Codes))
<1>1. t \in Seq(Letters)
  BY TextAssumption
<1>2. PICK n \in Nat : n = Len(t) /\ DOMAIN t = 1 .. n
  BY <1>1, LenProperties
<1>3. \A i \in 1 .. n : t[i] \in Letters
  BY <1>1, <1>2, ElementOfSeq
<1>4. \A i \in 1 .. n : Letter(t[i]) /\ CellsOf[t[i]] = Cells(t[i])
  BY <1>3, TextAssumption DEF Cells
<1>5. ASSUME NEW l, Letter(l) PROVE l \in Seq(Codes) /\ Cells(l) \in Seq(Codes)
  <2>1. PICK k : Shape(l, k)
    BY <1>5, LetterShape
  <2>2. k \in 1 .. 4 /\ l \in Seq(Codes) /\ Len(l) = k /\ \A i \in 1 .. k : l[i] \in Codes
    BY <2>1, Zenon DEF Shape
  <2>3. CASE Known(l, 1)
    <3>1. 1 \in 1 .. k /\ 2 \in 1 .. k
      BY <2>2, <2>3 DEF Known
    <3>2. l[1] \in Codes /\ l[2] \in Codes
      BY <2>2, <3>1
    <3>3. Substitute(l[1], l[2]) \in Codes
      BY <3>2, Table
    <3>4. <<Substitute(l[1], l[2])>> \in Seq(Codes)
      BY <3>3
    <3> QED
      BY <2>2, <2>3, <3>4, Zenon DEF Cells
  <2>4. CASE ~Known(l, 1)
    BY <2>2, <2>4, Zenon DEF Cells
  <2> QED
    BY <2>3, <2>4
<1>6. \A k \in Nat : \A x \in [1 .. k -> Seq(Codes)] : x \in Seq(Seq(Codes))
  OBVIOUS
<1>7. t \in [1 .. n -> Seq(Codes)]
  <2>1. t \in [1 .. n -> Letters]
    BY <1>1, <1>2, LenProperties
  <2> QED
    BY <1>4, <1>5, <2>1
<1>8. CellsIn(t, n) \in [1 .. n -> Seq(Codes)]
  BY <1>4, <1>5 DEF CellsIn
<1> QED
  BY <1>2, <1>4, <1>6, <1>7, <1>8

(* How the prefixes of a text and of its cells are named in the model.     *)
LEMMA TextPrefixes ==
    ASSUME NEW t \in Texts, NEW n \in Nat, n = Len(t)
    PROVE  \E b, w :
               /\ PrefixesAre(b, t, Codes)
               /\ PrefixesAre(w, CellsIn(t, n), Codes)
               /\ \A k \in 0 .. n : Bytes(SubSeq(t, 1, k)) = b[k]
               /\ \A k \in 0 .. n : Shown(SubSeq(t, 1, k)) = w[k]
               /\ SubSeq(t, 1, n) = t
<1> DEFINE c == CellsIn(t, n)
<1>1. /\ t \in Seq(Seq(Codes)) /\ DOMAIN t = 1 .. n
      /\ \A i \in 1 .. n : CellsOf[t[i]] = Cells(t[i])
      /\ c \in Seq(Seq(Codes))
  BY TextIs
<1>2. Len(c) = n /\ \A i \in 1 .. n : c[i] = Cells(t[i])
  BY DEF CellsIn
<1> HIDE DEF c
<1>3. PICK b : Flattening(b, t, Codes)
  BY <1>1, FlattenPrefixes
<1>4. PICK w : Flattening(w, c, Codes)
  BY <1>1, FlattenPrefixes
<1>5. PrefixesAre(b, t, Codes) /\ PrefixesAre(w, c, Codes)
  BY <1>3, <1>4, Zenon DEF Flattening
<1>6. ASSUME NEW k \in 0 .. n PROVE Bytes(SubSeq(t, 1, k)) = b[k]
  <2>1. \A x \in 0 .. n : FlattenSeq(SubSeq(t, 1, x)) = b[x]
    BY <1>3, Zenon DEF Flattening
  <2> QED
    BY <2>1, Zenon DEF Bytes
<1>7. ASSUME NEW k \in 0 .. n PROVE Shown(SubSeq(t, 1, k)) = w[k]
  <2>1. PICK u, d : u = SubSeq(t, 1, k) /\ d = SubSeq(c, 1, k)
    OBVIOUS
  <2>2. \A i \in 1 .. k : t[i] \in Seq(Codes) /\ c[i] \in Seq(Codes)
    <3>1. \A i \in 1 .. n : t[i] \in Seq(Codes)
      BY <1>1, ElementOfSeq
    <3>2. \A i \in 1 .. n : c[i] \in Seq(Codes)
      BY <1>1, <1>2, ElementOfSeq
    <3> QED
      BY <3>1, <3>2
  <2>3. /\ u \in Seq(Seq(Codes)) /\ Len(u) = IF 1 <= k THEN k - 1 + 1 ELSE 0
        /\ \A i \in 1 .. k - 1 + 1 : u[i] = t[1 + i - 1]
    BY <2>1, <2>2, SubSeqProperties
  <2>4. /\ d \in Seq(Seq(Codes)) /\ Len(d) = IF 1 <= k THEN k - 1 + 1 ELSE 0
        /\ \A i \in 1 .. k - 1 + 1 : d[i] = c[1 + i - 1]
    BY <2>1, <2>2, SubSeqProperties
  <2>5. Len(u) = k /\ \A i \in 1 .. k : u[i] = t[i]
    BY <2>3
  <2>6. Len(d) = k /\ \A i \in 1 .. k : d[i] = c[i]
    BY <2>4
  <2>7. DOMAIN u = 1 .. k /\ d = [i \in 1 .. k |-> d[i]]
    <3>1. DOMAIN u = 1 .. Len(u)
      BY <2>3, LenProperties
    <3>2. d \in [1 .. Len(d) -> Seq(Codes)]
      BY <2>4, LenProperties
    <3> QED
      BY <2>5, <2>6, <3>1, <3>2
  <2>8. \A i \in 1 .. k : CellsOf[u[i]] = d[i]
    <3> SUFFICES ASSUME NEW i \in 1 .. k PROVE CellsOf[u[i]] = d[i]
      OBVIOUS
    <3>1. i \in 1 .. n
      OBVIOUS
    <3>2. u[i] = t[i] /\ d[i] = c[i]
      BY <2>5, <2>6, Zenon
    <3>3. CellsOf[t[i]] = Cells(t[i]) /\ c[i] = Cells(t[i])
      BY <1>1, <1>2, <3>1, Zenon
    <3> QED
      BY <3>2, <3>3, Zenon
  <2>9. [i \in DOMAIN u |-> CellsOf[u[i]]] = d
    BY <2>7, <2>8
  <2>10. Shown(u) = FlattenSeq(d)
    BY <2>9, Zenon DEF Shown
  <2>11. FlattenSeq(SubSeq(c, 1, k)) = w[k]
    <3>1. \A x \in 0 .. Len(c) : FlattenSeq(SubSeq(c, 1, x)) = w[x]
      BY <1>4, Zenon DEF Flattening
    <3> QED
      BY <1>2, <3>1
  <2> QED
    BY <2>1, <2>10, <2>11, Zenon
<1>8. SubSeq(t, 1, n) = t
  BY <1>1, SubSeqFull
<1> QED
  BY <1>5, <1>6, <1>7, <1>8 DEF c

(* Every text has such prefixes. *)
LEMMA TextNamed ==
    ASSUME NEW t \in Texts
    PROVE  \E n, b, w : Named(t, n, b, w)
<1>1. PICK n \in Nat : /\ n = Len(t) /\ t \in Seq(Seq(Codes))
                       /\ \A i \in 1 .. n : Letter(t[i])
                       /\ CellsIn(t, n) \in Seq(Seq(Codes))
  BY TextIs
<1>2. PICK b, w :
               /\ PrefixesAre(b, t, Codes)
               /\ PrefixesAre(w, CellsIn(t, n), Codes)
               /\ \A k \in 0 .. n : Bytes(SubSeq(t, 1, k)) = b[k]
               /\ \A k \in 0 .. n : Shown(SubSeq(t, 1, k)) = w[k]
               /\ SubSeq(t, 1, n) = t
  BY <1>1, TextPrefixes, Zenon
<1>3. n \in 0 .. n
  OBVIOUS
<1>4. Bytes(t) = b[n] /\ Shown(t) = w[n]
  BY <1>2, <1>3, Zenon
<1>5. Named(t, n, b, w)
  BY <1>1, <1>2, <1>4, Zenon DEF Named
<1> QED
  BY <1>5

(* _replace_UTF8_chars runs through any string of bytes ...                *)
LEMMA ReplacedRun ==
    ASSUME NEW s \in Seq(Codes)
    PROVE  \E r : Replacing(r, s) /\ r[0] = <<>> /\ Replaced(s) = r[Len(s)]
<1>1. PICK n \in Nat : n = Len(s)
  BY LenProperties
<1>2. PICK r \in [0 .. n -> Seq(Codes)] :
               /\ r[0] = <<>>
               /\ \A i \in 1 .. n : r[i] = NextOf(s, i, r[i - 1])
               /\ Replaced(s) = r[n]
  BY <1>1, ReplacedLoop
<1>3. Replacing(r, s)
  BY <1>1, <1>2, Zenon DEF Replacing
<1> QED
  BY <1>1, <1>2, <1>3

(* ... and leaves bytes. *)
LEMMA ReplacedType ==
    ASSUME NEW s \in Seq(Codes)
    PROVE  Replaced(s) \in Seq(Codes)
<1>1. PICK n \in Nat : n = Len(s)
  BY LenProperties
<1>2. PICK r \in [0 .. n -> Seq(Codes)] : Replaced(s) = r[n]
  BY <1>1, ReplacedLoop
<1> QED
  BY <1>2

(* What is printed is a string of bytes, cut off or not.                   *)
LEMMA BytesType ==
    ASSUME NEW t \in Texts
    PROVE  Bytes(t) \in Seq(Codes) /\ Formatted(Bytes(t)) \in Seq(Codes)
<1>1. PICK n, b, w : Named(t, n, b, w)
  BY TextNamed
<1>2. n \in Nat /\ n = Len(t) /\ PrefixesAre(b, t, Codes) /\ Bytes(t) = b[n]
  BY <1>1, Zenon DEF Named
<1>3. b \in [0 .. n -> Seq(Codes)]
  BY <1>2, Zenon DEF PrefixesAre
<1>4. PICK s : s = Bytes(t)
  OBVIOUS
<1>5. s \in Seq(Codes)
  BY <1>2, <1>3, <1>4
<1>6. Formatted(s) \in Seq(Codes)
  <2>1. PICK z \in Nat : z = Len(s)
    BY <1>5, LenProperties
  <2>6. LineSize \in Nat \ {0}
    BY TextAssumption
  <2>2. PICK m \in Int : m = IF Len(s) < LineSize THEN Len(s) ELSE LineSize - 1
    BY <2>1, <2>6
  <2>3. m <= z
    BY <2>1, <2>2, <2>6
  <2>4. \A i \in 1 .. m : s[i] \in Codes
    <3>1. \A i \in 1 .. z : s[i] \in Codes
      BY <1>5, <2>1, ElementOfSeq
    <3> QED
      BY <2>3, <3>1
  <2>5. SubSeq(s, 1, m) \in Seq(Codes)
    BY <2>4, SubSeqProperties
  <2> QED
    BY <2>2, <2>5, Zenon DEF Formatted
<1> QED
  BY <1>4, <1>5, <1>6

(* lcd_print shows the letters of a text.                                  *)
LEMMA TextShown ==
    ASSUME NEW t \in Texts
    PROVE  Replaced(Bytes(t)) = Shown(t)
<1>1. PICK n, b, w : Named(t, n, b, w)
  BY TextNamed
<1>2. n \in Nat /\ Bytes(t) = b[n] /\ Shown(t) = w[n]
  BY <1>1, Zenon DEF Named
<1>3. PICK s : s = Bytes(t)
  OBVIOUS
<1>4. s \in Seq(Codes) /\ s = b[n]
  BY <1>2, <1>3, BytesType
<1>5. PICK r : Replacing(r, s) /\ r[0] = <<>> /\ Replaced(s) = r[Len(s)]
  BY <1>4, ReplacedRun
<1>6. Len(s) \in Nat
  BY <1>4, LenProperties
<1>7. Len(b[n]) <= Len(s)
  BY <1>4, <1>6
<1>8. Extended(b[n], s)
  BY <1>4, <1>7, Zenon DEF Extended
<1>9. n \in 0 .. n
  BY <1>2
<1>10. r[Len(b[n])] = w[n]
  BY <1>1, <1>4, <1>5, <1>8, <1>9, LettersCopied
<1> QED
  BY <1>2, <1>3, <1>4, <1>5, <1>10, Zenon

(* lcd_printf takes m bytes: k whole letters of the text, and then half of *)
(* one, or nothing.                                                        *)
Cut(b, n, m, k) == Len(b[k]) <= m /\ (k < n => Len(b[k + 1]) > m)

(* There is a place to cut. *)
LEMMA CutExists ==
    ASSUME NEW n \in Nat, NEW b, \A k \in 0 .. n : Len(b[k]) \in Nat, b[0] = <<>>,
           NEW m \in Nat
    PROVE  \E k \in 0 .. n : Cut(b, n, m, k)
<1> SUFFICES ASSUME \A k \in 0 .. n : ~Cut(b, n, m, k) PROVE FALSE
  OBVIOUS
<1> DEFINE T == {k \in 0 .. n : Len(b[k]) <= m}
<1>1. 0 \in T
  BY EmptySeq
<1>2. ASSUME NEW k \in 0 .. n, k < n, k \in T PROVE k + 1 \in T
  <2>1. k + 1 \in 0 .. n
    BY <1>2
  <2>2. ~(Len(b[k + 1]) > m)
    BY <1>2 DEF Cut
  <2>3. Len(b[k + 1]) \in Nat
    BY <2>1
  <2> QED
    BY <2>1, <2>2, <2>3
<1> HIDE DEF T
<1>3. \A k \in 0 .. n : k \in T
  BY <1>1, <1>2, UpTo
<1>4. n \in T /\ n \in 0 .. n
  BY <1>3
<1>5. Len(b[n]) <= m
  BY <1>4 DEF T
<1> QED
  BY <1>4, <1>5 DEF Cut

(* The cells of the letters that are whole, and the bytes of the one that  *)
(* is not.                                                                 *)
LEMMA ShownBytesIs ==
    ASSUME NEW t, NEW n, NEW b, NEW w, Named(t, n, b, w), NEW m \in Nat
    PROVE  \E k \in 0 .. n :
               /\ Cut(b, n, m, k)
               /\ ShownBytes(t, m) =
                      Joined(w[k], IF k < n THEN SubSeq(t[k + 1], 1, m - Len(b[k])) ELSE <<>>)
<1>1. n \in Nat /\ n = Len(t) /\ t \in Seq(Seq(Codes)) /\ PrefixesAre(b, t, Codes)
  BY Zenon DEF Named
<1>2. \A k \in 0 .. n : Bytes(SubSeq(t, 1, k)) = b[k]
  BY Zenon DEF Named
<1>3. \A k \in 0 .. n : Shown(SubSeq(t, 1, k)) = w[k]
  BY Zenon DEF Named
<1>4. b \in [0 .. n -> Seq(Codes)] /\ b[0] = <<>>
  BY <1>1, Zenon DEF PrefixesAre
<1>5. \A k \in 0 .. n : Len(b[k]) \in Nat
  BY <1>4, LenProperties
<1> DEFINE Used(k) == Len(Bytes(SubSeq(t, 1, k)))
           Fits(k) == Used(k) <= m /\ (k < Len(t) => Used(k + 1) > m)
           k == CHOOSE x \in 0 .. Len(t) : Fits(x)
<1>6. \A x \in 0 .. n : Fits(x) <=> Cut(b, n, m, x)
  <2> SUFFICES ASSUME NEW x \in 0 .. n PROVE Fits(x) <=> Cut(b, n, m, x)
    OBVIOUS
  <2>1. Used(x) = Len(b[x])
    BY <1>2, Zenon
  <2>2. x < n => Used(x + 1) = Len(b[x + 1])
    <3>1. x < n => x + 1 \in 0 .. n
      BY <1>1
    <3> QED
      BY <1>2, <3>1, Zenon
  <2> QED
    BY <1>1, <2>1, <2>2, Zenon DEF Cut
<1>7. \E x \in 0 .. n : Cut(b, n, m, x)
  BY <1>1, <1>4, <1>5, CutExists
<1>8. k \in 0 .. n /\ Fits(k)
  <2> HIDE DEF Fits
  <2>1. \E x \in 0 .. Len(t) : Fits(x)
    BY <1>1, <1>6, <1>7, Zenon
  <2> QED
    BY <1>1, <2>1, Zenon
<1>9. ShownBytes(t, m) =
          Joined(Shown(SubSeq(t, 1, k)), IF k < Len(t) THEN SubSeq(t[k + 1], 1, m - Used(k)) ELSE <<>>)
  BY Zenon DEF ShownBytes, Joined
<1> HIDE DEF k, Fits
<1>10. Shown(SubSeq(t, 1, k)) = w[k] /\ Used(k) = Len(b[k])
  BY <1>2, <1>3, <1>8, Zenon
<1>11. Cut(b, n, m, k)
  BY <1>6, <1>8, Zenon
<1> HIDE DEF Used
<1>12. ShownBytes(t, m) = Joined(w[k], IF k < n THEN SubSeq(t[k + 1], 1, m - Len(b[k])) ELSE <<>>)
  BY <1>1, <1>9, <1>10, Zenon
<1> QED
  BY <1>8, <1>11, <1>12

(* lcd_printf shows a text, or as much of it as fits. *)
LEMMA CutShown ==
    ASSUME NEW t \in Texts
    PROVE  Replaced(Formatted(Bytes(t))) \in {Shown(t), ShownBytes(t, LineSize - 1)}
<1>1. PICK n, b, w : Named(t, n, b, w)
  BY TextNamed
<1>2. n \in Nat /\ n = Len(t) /\ t \in Seq(Seq(Codes)) /\ PrefixesAre(b, t, Codes)
  BY <1>1, Zenon DEF Named
<1>3. PICK y : y = Bytes(t) /\ y = b[n]
  BY <1>1, Zenon DEF Named
<1>4. y \in Seq(Codes)
  BY <1>3, BytesType
<1>5. PICK z \in Nat : z = Len(y)
  BY <1>4, LenProperties
<1>6. CASE z < LineSize
  <2>1. Formatted(y) = SubSeq(y, 1, Len(y))
    BY <1>5, <1>6, Zenon DEF Formatted
  <2>2. SubSeq(y, 1, Len(y)) = y
    BY <1>4, SubSeqFull
  <2> QED
    BY <1>3, <2>1, <2>2, TextShown, Zenon
<1>7. CASE ~(z < LineSize)
  <2>1. PICK m \in Nat : m = LineSize - 1 /\ m < z
    <3>1. LineSize \in Nat \ {0}
      BY TextAssumption
    <3> QED
      BY <1>7, <3>1
  <2>2. PICK s : s = SubSeq(y, 1, m)
    OBVIOUS
  <2>3. Formatted(y) = s
    BY <1>5, <1>7, <2>1, <2>2, Zenon DEF Formatted
  <2>4. s \in Seq(Codes) /\ Len(s) = m /\ \A i \in 1 .. m : s[i] = y[i]
    <3>1. \A i \in 1 .. z : y[i] \in Codes
      BY <1>4, <1>5, ElementOfSeq
    <3>2. \A i \in 1 .. m : y[i] \in Codes
      BY <2>1, <3>1
    <3>3. /\ s \in Seq(Codes) /\ Len(s) = IF 1 <= m THEN m - 1 + 1 ELSE 0
          /\ \A i \in 1 .. m - 1 + 1 : s[i] = y[1 + i - 1]
      BY <2>2, <3>2, SubSeqProperties
    <3> QED
      BY <3>3
  <2>5. PICK k \in 0 .. n :
               /\ Cut(b, n, m, k)
               /\ ShownBytes(t, m) =
                      Joined(w[k], IF k < n THEN SubSeq(t[k + 1], 1, m - Len(b[k])) ELSE <<>>)
    BY <1>1, ShownBytesIs
  <2>6. Len(b[k]) <= m /\ (k < n => Len(b[k + 1]) > m)
    BY <2>5, Zenon DEF Cut
  <2>7. k < n
    <3>1. k # n
      BY <1>3, <1>5, <2>1, <2>6
    <3> QED
      BY <1>2, <3>1
  <2>8. PICK l : l = t[k + 1]
    OBVIOUS
  <2>9. Composed(b[k], l, b[k + 1])
    BY <1>2, <2>7, <2>8, PrefixStep
  <2>10. PICK u \in Nat, c \in Nat : u = Len(b[k]) /\ c = Len(l) /\ Len(b[k + 1]) = u + c
    BY <2>9, Zenon DEF Composed
  <2>11. PICK q \in Nat : q = m - u /\ u + q = m /\ q < c
    <3>1. m - u \in Nat /\ u + (m - u) = m /\ m - u < c
      BY <2>6, <2>7, <2>10
    <3> QED
      BY <3>1
  <2>12. Shape(l, c)
    <3>1. k + 1 \in 1 .. n
      BY <1>2, <2>7
    <3>2. Letter(l)
      BY <1>1, <2>8, <3>1, Zenon DEF Named
    <3>3. PICK x : Shape(l, x)
      BY <3>2, LetterShape
    <3>4. x = c
      BY <2>10, <3>3, Zenon DEF Shape
    <3> QED
      BY <3>3, <3>4
  <2>13. PICK r : Replacing(r, s) /\ r[0] = <<>> /\ Replaced(s) = r[m]
    BY <2>4, ReplacedRun
  <2>14. Extended(b[k], b[n])
    <3>1. n \in 0 .. n /\ k <= n
      BY <1>2
    <3>2. \A x \in 0 .. n : k <= x => Extended(b[k], b[x])
      BY <1>2, PrefixGrows
    <3> QED
      BY <3>1, <3>2, Zenon
  <2>15. Extended(b[k], s)
    <3>1. ASSUME NEW i \in 1 .. u PROVE s[i] = b[k][i]
      <4>1. i \in 1 .. m
        BY <2>11
      <4>2. b[n][i] = b[k][i]
        BY <2>10, <2>14, Zenon DEF Extended
      <4> QED
        BY <1>3, <2>4, <4>1, <4>2, Zenon
    <3>2. Len(b[k]) <= Len(s)
      BY <2>4, <2>6, Zenon
    <3> QED
      BY <2>10, <3>1, <3>2, Zenon DEF Extended
  <2>16. r[u] = w[k]
    <3>1. r[Len(b[k])] = w[k]
      BY <1>1, <2>4, <2>13, <2>15, LettersCopied
    <3> QED
      BY <2>10, <3>1, Zenon
  <2>17. ShownBytes(t, m) = Joined(w[k], SubSeq(l, 1, q))
    BY <2>5, <2>7, <2>8, <2>10, <2>11, Zenon
  <2>18. r[m] = Joined(r[u], SubSeq(l, 1, q))
    <3>1. CASE q = 0
      <4>1. u = m
        BY <2>11, <3>1
      <4>2. SubSeq(l, 1, 0) = <<>>
        BY SubSeqEmpty
      <4>3. r[u] \in Seq(Codes)
        <5>1. r \in [0 .. m -> Seq(Codes)]
          BY <2>4, <2>13, Zenon DEF Replacing
        <5>2. u \in 0 .. m
          BY <4>1
        <5> QED
          BY <5>1, <5>2
      <4>4. Joined(r[u], <<>>) = r[u]
        BY <4>3, JoinedNothing
      <4> QED
        BY <3>1, <4>1, <4>2, <4>4, Zenon
    <3>2. CASE q # 0
      <4>1. q \in 1 .. c
        BY <2>11, <3>2
      <4>2. Behind(s, u, l, q)
        <5>1. u + q <= Len(s)
          BY <2>4, <2>11
        <5>2. ASSUME NEW i \in 1 .. q PROVE s[u + i] = l[i]
          <6>1. u + i \in 1 .. m /\ i \in 1 .. c /\ u + i \in 1 .. u + c
            BY <2>11
          <6>2. s[u + i] = b[n][u + i]
            BY <1>3, <2>4, <6>1, Zenon
          <6>3. b[k + 1][u + i] = l[i]
            BY <2>9, <2>10, <6>1, Zenon DEF Composed
          <6>4. Extended(b[k + 1], b[n])
            <7>1. k + 1 \in 0 .. n /\ n \in 0 .. n /\ k + 1 <= n
              BY <1>2, <2>7
            <7>2. \A x \in 0 .. n : k + 1 <= x => Extended(b[k + 1], b[x])
              BY <1>2, <7>1, PrefixGrows
            <7> QED
              BY <7>1, <7>2, Zenon
          <6>5. b[n][u + i] = b[k + 1][u + i]
            BY <2>10, <6>1, <6>4, Zenon DEF Extended
          <6> QED
            BY <6>2, <6>3, <6>5, Zenon
        <5> QED
          BY <5>1, <5>2, Zenon DEF Behind
      <4>3. ~Known(s, u + 1)
        <5>1. u + 1 \in 1 .. m
          BY <2>11, <3>2
        <5>2. CASE q = 1
          <6>1. u + 1 = Len(s)
            BY <2>4, <2>11, <5>2
          <6> QED
            BY <2>4, <5>1, <6>1, NotKnown
        <5>3. CASE q # 1
          <6>1. c # 1 /\ c # 2 /\ 1 \in 1 .. q
            BY <2>11, <3>2, <5>3
          <6>2. ~(l[1] < 224)
            BY <2>12, <6>1, Zenon DEF Shape
          <6>3. s[u + 1] = l[1]
            BY <4>2, <6>1, Zenon DEF Behind
          <6>4. l[1] \in Codes
            <7>1. 1 \in 1 .. c
              BY <2>11
            <7> QED
              BY <2>12, <7>1, Zenon DEF Shape
          <6>5. ~(s[u + 1] \in {194, 195})
            <7>1. \A v \in Codes : ~(v < 224) => ~(v \in {194, 195})
              BY DEF Codes
            <7> QED
              BY <6>2, <6>3, <6>4, <7>1
          <6> QED
            BY <2>4, <5>1, <6>5, NotKnown
        <5> QED
          BY <5>2, <5>3
      <4>4. r[u + q] = Joined(r[u], SubSeq(l, 1, q))
        BY <2>4, <2>12, <2>13, <4>1, <4>2, <4>3, UnknownLetter
      <4> QED
        BY <2>11, <4>4, Zenon
    <3> QED
      BY <3>1, <3>2
  <2>19. Replaced(s) = ShownBytes(t, m)
    BY <2>13, <2>16, <2>17, <2>18, Zenon
  <2> QED
    BY <1>3, <2>1, <2>3, <2>19, Zenon
<1> QED
  BY <1>6, <1>7

-------------------------------------------------------------------------------
(* Bytes on their way to the controller and back.                          *)

(* A controller that expects the first half of a byte. *)
Idle(c) == c \in Controllers /\ c.bits = 4 /\ c.upper = -1

(* Both halves of a byte together are the byte.                            *)
LEMMA RawIs ==
    ASSUME NEW c, Idle(c), NEW rs, NEW byte \in Codes
    PROVE  Raw(c, rs, byte) = Execute(c, rs, byte)
<1>1. c \in Controllers /\ c.bits = 4 /\ c.upper = -1
  BY DEF Idle
<1>2. PICK hi, lo : hi = byte \div 16 /\ lo = byte % 16
  OBVIOUS
<1>3. hi \in 0 .. 15 /\ lo \in 0 .. 15 /\ 16 * hi + lo = byte
  BY <1>2, Halves DEF Codes
<1>4. PICK d : d = [c EXCEPT !.upper = hi]
  OBVIOUS
<1>5. Strobe(c, rs, hi) = d
  BY <1>1, <1>4 DEF Strobe
<1>6. d.bits = 4 /\ d.upper = hi /\ [d EXCEPT !.upper = -1] = c
  BY <1>1, <1>4 DEF Controllers
<1>7. Strobe(d, rs, lo) = Execute(c, rs, byte)
  <2>1. d.bits # 8 /\ d.upper # -1
    BY <1>3, <1>6
  <2>2. Strobe(d, rs, lo) = Execute([d EXCEPT !.upper = -1], rs, 16 * d.upper + lo)
    BY <2>1 DEF Strobe
  <2> QED
    BY <1>3, <1>6, <2>2
<1> QED
  BY <1>2, <1>5, <1>7 DEF Raw

(* A byte is a command ... *)
LEMMA CommandIs ==
    ASSUME NEW c, Idle(c), NEW byte \in Codes
    PROVE  Raw(c, 0, byte) = Command(c, byte)
BY RawIs DEF Execute

(* ... or data. *)
LEMMA PutcIs ==
    ASSUME NEW c, Idle(c), NEW byte \in Codes
    PROVE  Putc(c, byte) = Data(c, byte)
BY RawIs DEF Execute, Putc

(* What is read in two halves: the address counter, which stays, or the    *)
(* data, behind which the counter moves.                                   *)
LEMMA ReadAddress ==
    ASSUME NEW c, Idle(c)
    PROVE  ReadRaw(c, 0) = c.addr /\ AfterRead(c, 0) = c
<1>1. c \in Controllers /\ c.bits = 4 /\ c.upper = -1 /\ c.addr \in 0 .. 127
  BY DEF Idle, Controllers
<1>2. PICK d : d = [c EXCEPT !.upper = 0]
  OBVIOUS
<1>3. d.bits = 4 /\ d.upper = 0 /\ d.addr = c.addr /\ [d EXCEPT !.upper = -1] = c
  BY <1>1, <1>2 DEF Controllers
<1>4. StrobeRead(c, 0) = d /\ StrobeRead(d, 0) = c
  BY <1>1, <1>2, <1>3 DEF StrobeRead
<1>5. Sensed(c, 0) = c.addr \div 16
  BY <1>1 DEF Sensed, Readable
<1>6. Sensed(d, 0) = c.addr % 16
  BY <1>3 DEF Sensed, Readable
<1>7. 16 * (c.addr \div 16) + (c.addr % 16) = c.addr
  <2>1. c.addr \in 0 .. 255
    BY <1>1
  <2> QED
    BY <2>1, Halves
<1> QED
  BY <1>4, <1>5, <1>6, <1>7 DEF ReadRaw, AfterRead

(* What is read is a byte. *)
LEMMA ReadablePlace ==
    ASSUME NEW c, Idle(c)
    PROVE  Readable(c, 1) \in Codes
<1>1. /\ c.addr \in 0 .. 127 /\ c.glyphs \in [0 .. 63 -> Codes]
      /\ c.text \in [0 .. 79 -> Codes] /\ c.cg \in BOOLEAN
  BY DEF Idle, Controllers, Codes
<1>2. Cell(c, c.addr) \in -1 .. 79
  BY <1>1, CellType
<1>3. c.addr % 64 \in 0 .. 63
  BY <1>1
<1>4. c.glyphs[c.addr % 64] \in Codes
  BY <1>1, <1>3
<1>5. CASE c.cg
  BY <1>4, <1>5 DEF Readable
<1>6. CASE ~c.cg /\ Cell(c, c.addr) # -1
  <2>1. Cell(c, c.addr) \in 0 .. 79
    BY <1>2, <1>6
  <2>2. c.text[Cell(c, c.addr)] \in Codes
    BY <1>1, <2>1
  <2> QED
    BY <1>6, <2>2 DEF Readable
<1>7. CASE ~c.cg /\ Cell(c, c.addr) = -1
  <2>1. Readable(c, 1) = 0
    BY <1>7 DEF Readable
  <2> QED
    BY <2>1 DEF Codes
<1> QED
  BY <1>5, <1>6, <1>7

(* lcd_read_data gets that byte and moves the counter.                     *)
LEMMA ReadDataIs ==
    ASSUME NEW c, Idle(c)
    PROVE  ReadRaw(c, 1) = Readable(c, 1) /\ AfterRead(c, 1) = Moved(c)
<1>1. c \in Controllers /\ c.bits = 4 /\ c.upper = -1
  BY DEF Idle
<1>2. PICK d : d = [c EXCEPT !.upper = 0]
  OBVIOUS
<1>3. /\ d.bits = 4 /\ d.upper = 0 /\ [d EXCEPT !.upper = -1] = c
      /\ d.addr = c.addr /\ d.cg = c.cg /\ d.glyphs = c.glyphs /\ d.text = c.text
      /\ d.two = c.two
  BY <1>1, <1>2 DEF Controllers
<1>4. StrobeRead(c, 1) = d
  BY <1>1, <1>2 DEF StrobeRead
<1>5. StrobeRead(d, 1) = Moved(c)
  BY <1>3 DEF StrobeRead
<1>6. Readable(d, 1) = Readable(c, 1)
  <2>1. Cell(d, d.addr) = Cell(c, c.addr)
    BY <1>3 DEF Cell
  <2> QED
    BY <1>3, <2>1, Zenon DEF Readable
<1>7. Sensed(c, 1) = Readable(c, 1) \div 16 /\ Sensed(d, 1) = Readable(c, 1) % 16
  BY <1>1, <1>3, <1>6 DEF Sensed
<1>8. 16 * (Readable(c, 1) \div 16) + (Readable(c, 1) % 16) = Readable(c, 1)
  BY ReadablePlace, Halves DEF Codes
<1> QED
  BY <1>4, <1>5, <1>7, <1>8 DEF ReadRaw, AfterRead

-------------------------------------------------------------------------------
(* Addresses, cells of the text and places on the glass.                   *)

(* Row r of a display begins at address s, and at x in the text.           *)
Lies(lines, r, s, x) ==
    \/ lines = 1 /\ r = 1 /\ s = 0 /\ x = 0
    \/ lines = 2 /\ r = 1 /\ s = 0 /\ x = 0
    \/ lines = 2 /\ r = 2 /\ s = 64 /\ x = 40
    \/ lines = 4 /\ r = 1 /\ s = 0 /\ x = 0
    \/ lines = 4 /\ r = 2 /\ s = 64 /\ x = 40
    \/ lines = 4 /\ r = 3 /\ s = 20 /\ x = 20
    \/ lines = 4 /\ r = 4 /\ s = 84 /\ x = 60

(* The width of a row. *)
LEMMA Widths ==
    Width(1) = 80 /\ Width(2) = 40 /\ Width(4) = 20
BY DEF Width

(* Every row lies somewhere ... *)
LEMMA RowLies ==
    ASSUME NEW lines \in {1, 2, 4}, NEW r \in 1 .. lines
    PROVE  \E s, x : Lies(lines, r, s, x) /\ RowStart(lines)[r] = s
<1>1. CASE lines = 1 \/ lines = 2
  <2>1. RowStart(lines)[1] = 0 /\ RowStart(lines)[2] = 64
    BY <1>1 DEF RowStart
  <2>2. Lies(1, 1, 0, 0) /\ Lies(2, 1, 0, 0) /\ Lies(2, 2, 64, 40)
    BY DEF Lies
  <2>3. r = 1 \/ (lines = 2 /\ r = 2)
    BY <1>1
  <2> QED
    BY <1>1, <2>1, <2>2, <2>3
<1>2. CASE lines = 4
  <2>1. /\ RowStart(4)[1] = 0 /\ RowStart(4)[2] = 64
        /\ RowStart(4)[3] = 20 /\ RowStart(4)[4] = 84
    BY DEF RowStart, RowsValue
  <2>2. /\ Lies(4, 1, 0, 0) /\ Lies(4, 2, 64, 40)
        /\ Lies(4, 3, 20, 20) /\ Lies(4, 4, 84, 60)
    BY DEF Lies
  <2>3. r \in {1, 2, 3, 4}
    BY <1>2
  <2> QED
    BY <1>2, <2>1, <2>2, <2>3
<1> QED
  BY <1>1, <1>2

(* ... and no two of them overlap, neither in addresses nor in cells.      *)
LEMMA LiesOnce ==
    ASSUME NEW lines \in {1, 2, 4}, NEW r, NEW s, NEW x, Lies(lines, r, s, x),
           NEW r2, NEW s2, NEW x2, Lies(lines, r2, s2, x2),
           NEW k \in 0 .. Width(lines) - 1, NEW k2 \in 0 .. Width(lines) - 1,
           s + k = s2 + k2 \/ x + k = x2 + k2
    PROVE  r = r2 /\ k = k2 /\ s = s2 /\ x = x2
<1>1. CASE lines = 1
  <2>1. r = 1 /\ s = 0 /\ x = 0 /\ r2 = 1 /\ s2 = 0 /\ x2 = 0
    BY <1>1 DEF Lies
  <2>2. k \in 0 .. 79 /\ k2 \in 0 .. 79
    BY <1>1, Widths
  <2> QED
    BY <2>1, <2>2
<1>2. CASE lines = 2
  <2>1. \/ r = 1 /\ s = 0 /\ x = 0
        \/ r = 2 /\ s = 64 /\ x = 40
    BY <1>2 DEF Lies
  <2>2. \/ r2 = 1 /\ s2 = 0 /\ x2 = 0
        \/ r2 = 2 /\ s2 = 64 /\ x2 = 40
    BY <1>2 DEF Lies
  <2>3. k \in 0 .. 39 /\ k2 \in 0 .. 39
    BY <1>2, Widths
  <2> QED
    BY <2>1, <2>2, <2>3
<1>3. CASE lines = 4
  <2>1. \/ r = 1 /\ s = 0 /\ x = 0
        \/ r = 2 /\ s = 64 /\ x = 40
        \/ r = 3 /\ s = 20 /\ x = 20
        \/ r = 4 /\ s = 84 /\ x = 60
    BY <1>3 DEF Lies
  <2>2. \/ r2 = 1 /\ s2 = 0 /\ x2 = 0
        \/ r2 = 2 /\ s2 = 64 /\ x2 = 40
        \/ r2 = 3 /\ s2 = 20 /\ x2 = 20
        \/ r2 = 4 /\ s2 = 84 /\ x2 = 60
    BY <1>3 DEF Lies
  <2>3. k \in 0 .. 19 /\ k2 \in 0 .. 19
    BY <1>3, Widths
  <2> QED
    BY <2>1, <2>2, <2>3
<1> QED
  BY <1>1, <1>2, <1>3

(* The beginning of a row as the model has it.                             *)
LEMMA RowIs ==
    ASSUME NEW lines \in {1, 2, 4}, NEW r, NEW s, NEW x, Lies(lines, r, s, x)
    PROVE  r \in 1 .. lines /\ RowStart(lines)[r] = s
<1>1. r \in 1 .. lines
  BY DEF Lies
<1>2. PICK s2, x2 : Lies(lines, r, s2, x2) /\ RowStart(lines)[r] = s2
  BY <1>1, RowLies
<1>3. s = s2
  BY <1>2 DEF Lies
<1> QED
  BY <1>1, <1>2, <1>3

(* The cell of an address. *)
LEMMA CellIs ==
    ASSUME NEW lines \in {1, 2, 4}, NEW r, NEW s, NEW x, Lies(lines, r, s, x),
           NEW k \in 0 .. Width(lines) - 1, NEW c, c.two <=> lines > 1
    PROVE  Cell(c, s + k) = x + k /\ x + k \in 0 .. 79 /\ s + k \in 0 .. 103
<1>1. CASE lines = 1
  <2>1. s = 0 /\ x = 0 /\ k \in 0 .. 79 /\ ~c.two
    BY <1>1, Widths DEF Lies
  <2> QED
    BY <2>1 DEF Cell
<1>2. CASE lines = 2
  <2>1. ((s = 0 /\ x = 0) \/ (s = 64 /\ x = 40)) /\ k \in 0 .. 39 /\ c.two
    BY <1>2, Widths DEF Lies
  <2> QED
    BY <2>1 DEF Cell
<1>3. CASE lines = 4
  <2>1. \/ s = 0 /\ x = 0
        \/ s = 64 /\ x = 40
        \/ s = 20 /\ x = 20
        \/ s = 84 /\ x = 60
    BY <1>3 DEF Lies
  <2>2. k \in 0 .. 19 /\ c.two
    BY <1>3, Widths
  <2> QED
    BY <2>1, <2>2 DEF Cell
<1> QED
  BY <1>1, <1>2, <1>3

(* The place of an address. *)
LEMMA PlaceIs ==
    ASSUME NEW lines \in {1, 2, 4}, NEW r, NEW s, NEW x, Lies(lines, r, s, x),
           NEW k \in 0 .. Width(lines) - 1
    PROVE  PlaceOf(s + k, lines) = <<r, k + 1>>
<1>1. PICK a : a = s + k
  OBVIOUS
<1> DEFINE Fits(q) == a - RowStart(lines)[q] \in 0 .. Width(lines) - 1
           row == CHOOSE q \in 1 .. lines : Fits(q)
<1>2. r \in 1 .. lines /\ RowStart(lines)[r] = s
  BY RowIs
<1>3. s \in Nat /\ k \in Nat
  BY Widths DEF Lies
<1>4. a - s = k
  BY <1>1, <1>3
<1>5. Fits(r)
  BY <1>2, <1>4
<1>6. row \in 1 .. lines /\ Fits(row)
  <2> HIDE DEF Fits
  <2> QED
    BY <1>2, <1>5
<1> HIDE DEF row
<1>7. PICK s2, x2 : Lies(lines, row, s2, x2) /\ RowStart(lines)[row] = s2
  BY <1>6, RowLies
<1>8. PICK k2 : k2 = a - s2 /\ k2 \in 0 .. Width(lines) - 1
  BY <1>6, <1>7
<1>9. s2 \in Nat
  BY <1>7 DEF Lies
<1>10. s + k = s2 + k2
  <2>1. a \in Nat
    BY <1>1, <1>3
  <2>2. s2 + (a - s2) = a
    BY <1>9, <2>1
  <2> QED
    BY <1>1, <1>8, <2>2
<1>11. row = r
  BY <1>7, <1>8, <1>10, LiesOnce
<1>12. PlaceOf(a, lines) = <<row, a - RowStart(lines)[row] + 1>>
  BY Zenon DEF PlaceOf, row
<1> QED
  BY <1>1, <1>2, <1>4, <1>11, <1>12

(* The row in which a row that is full goes on. *)
RowThen(lines, r) == IF lines = 4 THEN <<3, 4, 2, 1>>[r] ELSE (r % lines) + 1

(* Address a is column k of row r, both as the code counts them but for    *)
(* the row, which counts from 1.                                           *)
IsAt(lines, a, r, k) ==
    /\ k \in 0 .. Width(lines) - 1
    /\ \E s, x : Lies(lines, r, s, x) /\ a = s + k

(* The counter goes on in the row, or from its end to the next one: the    *)
(* addresses of the controller turn over as the rows of the glass follow   *)
(* each other.                                                             *)
LEMMA NextAddress ==
    ASSUME NEW lines \in {1, 2, 4}, NEW r, NEW k, NEW c, c.two <=> lines > 1,
           IsAt(lines, c.addr, r, k)
    PROVE  IF k + 1 = Width(lines) THEN IsAt(lines, Address(c, TRUE), RowThen(lines, r), 0)
           ELSE IsAt(lines, Address(c, TRUE), r, k + 1)
<1> PICK s, x : Lies(lines, r, s, x) /\ c.addr = s + k
  BY Zenon DEF IsAt
<1>3. k \in 0 .. Width(lines) - 1
  BY Zenon DEF IsAt
<1>1. CASE k + 1 # Width(lines)
  <2>1. k + 1 \in 0 .. Width(lines) - 1
    BY <1>1, <1>3, Widths
  <2>2. Address(c, TRUE) = s + (k + 1)
    <3>1. CASE lines = 1
      <4>1. s = 0 /\ k \in 0 .. 78 /\ ~c.two
        BY <1>1, <1>3, <3>1, Widths DEF Lies
      <4> QED
        BY <4>1 DEF Address
    <3>2. CASE lines = 2
      <4>1. (s = 0 \/ s = 64) /\ k \in 0 .. 38 /\ c.two
        BY <1>1, <1>3, <3>2, Widths DEF Lies
      <4> QED
        BY <4>1 DEF Address
    <3>3. CASE lines = 4
      <4>1. s = 0 \/ s = 64 \/ s = 20 \/ s = 84
        BY <3>3 DEF Lies
      <4>2. k \in 0 .. 18 /\ c.two
        BY <1>1, <1>3, <3>3, Widths
      <4> QED
        BY <4>1, <4>2 DEF Address
    <3> QED
      BY <3>1, <3>2, <3>3
  <2> QED
    BY <1>1, <2>1, <2>2 DEF IsAt
<1>2. CASE k + 1 = Width(lines)
  <2>1. \E s2, x2 : Lies(lines, RowThen(lines, r), s2, x2) /\ Address(c, TRUE) = s2 + 0
    <3>1. CASE lines = 1
      <4>1. s = 0 /\ r = 1 /\ k = 79 /\ ~c.two
        BY <1>2, <1>3, <3>1, Widths DEF Lies
      <4>2. Address(c, TRUE) = 0 + 0
        BY <4>1 DEF Address
      <4>3. Lies(lines, RowThen(lines, r), 0, 0)
        BY <3>1, <4>1 DEF Lies, RowThen
      <4> QED
        BY <4>2, <4>3
    <3>2. CASE lines = 2
      <4>1. k = 39 /\ c.two
        BY <1>2, <1>3, <3>2, Widths
      <4>2. CASE s = 0 /\ r = 1
        <5>1. Address(c, TRUE) = 64 + 0
          BY <4>1, <4>2 DEF Address
        <5>2. Lies(lines, RowThen(lines, r), 64, 40)
          BY <3>2, <4>2 DEF Lies, RowThen
        <5> QED
          BY <5>1, <5>2
      <4>3. CASE s = 64 /\ r = 2
        <5>1. Address(c, TRUE) = 0 + 0
          BY <4>1, <4>3 DEF Address
        <5>2. Lies(lines, RowThen(lines, r), 0, 0)
          BY <3>2, <4>3 DEF Lies, RowThen
        <5> QED
          BY <5>1, <5>2
      <4>4. (s = 0 /\ r = 1) \/ (s = 64 /\ r = 2)
        BY <3>2 DEF Lies
      <4> QED
        BY <4>2, <4>3, <4>4
    <3>3. CASE lines = 4
      <4>1. k = 19 /\ c.two
        BY <1>2, <1>3, <3>3, Widths
      <4>2. CASE s = 0 /\ r = 1
        <5>1. Address(c, TRUE) = 20 + 0
          BY <4>1, <4>2 DEF Address
        <5>2. Lies(lines, RowThen(lines, r), 20, 20)
          BY <3>3, <4>2 DEF Lies, RowThen
        <5> QED
          BY <5>1, <5>2
      <4>3. CASE s = 64 /\ r = 2
        <5>1. Address(c, TRUE) = 84 + 0
          BY <4>1, <4>3 DEF Address
        <5>2. Lies(lines, RowThen(lines, r), 84, 60)
          BY <3>3, <4>3 DEF Lies, RowThen
        <5> QED
          BY <5>1, <5>2
      <4>4. CASE s = 20 /\ r = 3
        <5>1. Address(c, TRUE) = 64 + 0
          BY <4>1, <4>4 DEF Address
        <5>2. Lies(lines, RowThen(lines, r), 64, 40)
          BY <3>3, <4>4 DEF Lies, RowThen
        <5> QED
          BY <5>1, <5>2
      <4>5. CASE s = 84 /\ r = 4
        <5>1. Address(c, TRUE) = 0 + 0
          BY <4>1, <4>5 DEF Address
        <5>2. Lies(lines, RowThen(lines, r), 0, 0)
          BY <3>3, <4>5 DEF Lies, RowThen
        <5> QED
          BY <5>1, <5>2
      <4> QED
        BY <3>3, <4>2, <4>3, <4>4, <4>5 DEF Lies
    <3> QED
      BY <3>1, <3>2, <3>3
  <2>2. 0 \in 0 .. Width(lines) - 1 /\ 0 + 1 = 1
    BY Widths
  <2> QED
    BY <1>2, <2>1, <2>2 DEF IsAt
<1> QED
  BY <1>1, <1>2

-------------------------------------------------------------------------------
(* The page that a controller shows, and what each command does to it.     *)

(* A controller as the calls of the library leave it for the next one.     *)
Ready(c, lines) ==
    /\ Idle(c)
    /\ c.two <=> lines > 1
    /\ c.right = TRUE /\ c.cg = FALSE
    /\ \E r, k : IsAt(lines, c.addr, r, k)

(* What is on the glass of a controller, and where its cursor is.          *)
GlassOf(c, lines) ==
    [r \in 1 .. lines |-> [j \in 1 .. Width(lines) |->
        c.text[Cell(c, RowStart(lines)[r] + j - 1)]]]
PageOf(c, lines) == [rows |-> GlassOf(c, lines), at |-> PlaceOf(c.addr, lines)]

(* The cursor of the screen for an address in the text.                    *)
LEMMA AtIs ==
    ASSUME NEW lines \in {1, 2, 4}, NEW a, NEW r, NEW k, IsAt(lines, a, r, k)
    PROVE  /\ r \in 1 .. lines /\ k \in 0 .. Width(lines) - 1
           /\ k + 1 \in 1 .. Width(lines) /\ a \in 0 .. 103
           /\ PlaceOf(a, lines) = <<r, k + 1>>
<1>1. PICK s, x : Lies(lines, r, s, x) /\ a = s + k
  BY Zenon DEF IsAt
<1>2. k \in 0 .. Width(lines) - 1
  BY Zenon DEF IsAt
<1>3. PlaceOf(a, lines) = <<r, k + 1>>
  BY <1>1, <1>2, PlaceIs
<1>4. r \in 1 .. lines
  BY <1>1, RowIs
<1>5. k + 1 \in 1 .. Width(lines)
  BY <1>2, Widths
<1>6. a \in 0 .. 103
  <2>1. PICK c : c = [two |-> lines > 1]
    OBVIOUS
  <2>2. c.two <=> lines > 1
    BY <2>1
  <2> QED
    BY <1>1, <1>2, <2>2, CellIs
<1> QED
  BY <1>2, <1>3, <1>4, <1>5, <1>6

(* A cell of the glass is one of the text. *)
LEMMA GlassIs ==
    ASSUME NEW lines \in {1, 2, 4}, NEW c, c.two <=> lines > 1,
           NEW r, NEW s, NEW x, Lies(lines, r, s, x), NEW j \in 1 .. Width(lines)
    PROVE  /\ GlassOf(c, lines)[r][j] = c.text[x + (j - 1)]
           /\ x + (j - 1) \in 0 .. 79 /\ j - 1 \in 0 .. Width(lines) - 1
<1>1. r \in 1 .. lines /\ RowStart(lines)[r] = s
  BY RowIs
<1>2. j - 1 \in 0 .. Width(lines) - 1 /\ s + (j - 1) = s + j - 1
  BY Widths DEF Lies
<1>3. Cell(c, s + (j - 1)) = x + (j - 1) /\ x + (j - 1) \in 0 .. 79
  BY <1>2, CellIs
<1>4. GlassOf(c, lines)[r][j] = c.text[Cell(c, s + j - 1)]
  BY <1>1 DEF GlassOf
<1> QED
  BY <1>2, <1>3, <1>4

(* The cell under the cursor is the one at the address counter.            *)
LEMMA GlassHere ==
    ASSUME NEW lines \in {1, 2, 4}, NEW c, c.two <=> lines > 1,
           NEW r, NEW k, IsAt(lines, c.addr, r, k)
    PROVE  /\ GlassOf(c, lines)[r][k + 1] = c.text[Cell(c, c.addr)]
           /\ Cell(c, c.addr) \in 0 .. 79
<1>1. PICK s, x : Lies(lines, r, s, x) /\ c.addr = s + k
  BY Zenon DEF IsAt
<1>2. k \in 0 .. Width(lines) - 1 /\ k + 1 \in 1 .. Width(lines) /\ (k + 1) - 1 = k
  BY AtIs
<1>3. GlassOf(c, lines)[r][k + 1] = c.text[x + ((k + 1) - 1)]
  BY <1>1, <1>2, GlassIs
<1>4. Cell(c, c.addr) = x + k /\ x + k \in 0 .. 79
  BY <1>1, <1>2, CellIs
<1> QED
  BY <1>2, <1>3, <1>4, Zenon

(* The glass shows the text and nothing else.                              *)
LEMMA SameGlass ==
    ASSUME NEW lines, NEW c, NEW d, d.two = c.two, d.text = c.text
    PROVE  GlassOf(d, lines) = GlassOf(c, lines)
<1>1. \A a : Cell(d, a) = Cell(c, a)
  BY Zenon DEF Cell
<1> QED
  BY <1>1, Zenon DEF GlassOf

(* The steps of the cursor and of the page, as TextScreen has them, by the *)
(* number of lines.                                                        *)
BeyondOn(lines, place) ==
    IF place[2] = Width(lines) THEN <<RowThen(lines, place[1]), 1>>
    ELSE <<place[1], place[2] + 1>>
BelowOn(lines, place) ==
    CASE lines = 1 -> <<1, 1>>
      [] lines > 1 /\ place[1] < lines -> <<place[1] + 1, 1>>
      [] OTHER -> place
WrittenOn(lines, page, cell) ==
    [rows |-> [page.rows EXCEPT ![page.at[1]][page.at[2]] = cell],
     at |-> BeyondOn(lines, page.at)]
TypedOn(lines, page, symbol) ==
    IF symbol = 10 THEN [page EXCEPT !.at = BelowOn(lines, @)]
    ELSE WrittenOn(lines, page, symbol)

(* The display stays as switched, and the characters as drawn.             *)
Kept(c, d) == d.look = c.look /\ d.glyphs = c.glyphs

(* The address counter moves to the right of what was at it.               *)
LEMMA MovedOn ==
    ASSUME NEW lines \in {1, 2, 4}, NEW c, Ready(c, lines)
    PROVE  /\ Ready(Moved(c), lines)
           /\ PlaceOf(Moved(c).addr, lines) = BeyondOn(lines, PlaceOf(c.addr, lines))
           /\ Moved(c).text = c.text /\ Moved(c).two = c.two
           /\ Kept(c, Moved(c))
<1>1. c \in Controllers /\ c.bits = 4 /\ c.upper = -1 /\ (c.two <=> lines > 1)
  BY DEF Ready, Idle
<1>8. c.right = TRUE /\ c.cg = FALSE
  BY Zenon DEF Ready
<1>2. PICK r, k : IsAt(lines, c.addr, r, k)
  BY Zenon DEF Ready
<1>3. PICK a : a = Address(c, TRUE)
  OBVIOUS
<1>4. Moved(c) = [c EXCEPT !.addr = a]
  BY <1>3, <1>8 DEF Moved
<1>5. Moved(c) \in Controllers
  BY <1>1, MovedType
<1>6. PICK d : d = Moved(c)
  OBVIOUS
<1>7. /\ d.addr = a /\ d.bits = 4 /\ d.upper = -1 /\ d.two = c.two /\ d.right = TRUE
      /\ d.cg = FALSE /\ d.text = c.text /\ Kept(c, d) /\ (d.two <=> lines > 1)
  BY <1>1, <1>4, <1>6, <1>8 DEF Controllers, Kept
<1>9. PlaceOf(c.addr, lines) = <<r, k + 1>>
  BY <1>2, AtIs
<1>10. /\ IF k + 1 = Width(lines) THEN IsAt(lines, a, RowThen(lines, r), 0)
          ELSE IsAt(lines, a, r, k + 1)
  BY <1>1, <1>2, <1>3, NextAddress
<1>11. (\E r2, k2 : IsAt(lines, a, r2, k2)) /\ PlaceOf(a, lines) = BeyondOn(lines, <<r, k + 1>>)
  <2>1. CASE k + 1 = Width(lines)
    <3>1. IsAt(lines, a, RowThen(lines, r), 0)
      BY <1>10, <2>1
    <3>2. PlaceOf(a, lines) = <<RowThen(lines, r), 0 + 1>>
      BY <3>1, AtIs
    <3> QED
      BY <2>1, <3>1, <3>2 DEF BeyondOn
  <2>2. CASE k + 1 # Width(lines)
    <3>1. IsAt(lines, a, r, k + 1)
      BY <1>10, <2>2
    <3>2. PlaceOf(a, lines) = <<r, (k + 1) + 1>>
      BY <3>1, AtIs
    <3> QED
      BY <2>2, <3>1, <3>2 DEF BeyondOn
  <2> QED
    BY <2>1, <2>2
<1>12. Ready(d, lines)
  BY <1>5, <1>6, <1>7, <1>11, Zenon DEF Ready, Idle
<1> QED
  BY <1>6, <1>7, <1>9, <1>11, <1>12, Zenon

(* A character goes to the cursor, and the cursor behind it.               *)
LEMMA PutcCell ==
    ASSUME NEW lines \in {1, 2, 4}, NEW c, Ready(c, lines), NEW b \in Codes
    PROVE  /\ Ready(Putc(c, b), lines)
           /\ PageOf(Putc(c, b), lines) = WrittenOn(lines, PageOf(c, lines), b)
           /\ Kept(c, Putc(c, b))
<1>1. Idle(c) /\ c \in Controllers /\ c.bits = 4 /\ c.upper = -1 /\ (c.two <=> lines > 1)
  BY DEF Ready, Idle
<1>2. c.right = TRUE /\ c.cg = FALSE
  BY Zenon DEF Ready
<1>3. PICK r, k : IsAt(lines, c.addr, r, k)
  BY Zenon DEF Ready
<1>4. PICK s, x : Lies(lines, r, s, x) /\ c.addr = s + k
  BY <1>3, Zenon DEF IsAt
<1>5. /\ r \in 1 .. lines /\ k \in 0 .. Width(lines) - 1 /\ k + 1 \in 1 .. Width(lines)
      /\ PlaceOf(c.addr, lines) = <<r, k + 1>>
  BY <1>3, AtIs
<1>6. PICK z \in 0 .. 79 : z = x + k /\ Cell(c, c.addr) = z
  BY <1>1, <1>4, <1>5, CellIs
<1>7. PICK e : e = [c EXCEPT !.text[z] = b]
  OBVIOUS
<1>8. Putc(c, b) = Moved(e)
  <2>1. Putc(c, b) = Data(c, b)
    BY <1>1, PutcIs
  <2>2. z # -1
    OBVIOUS
  <2> QED
    BY <1>2, <1>6, <1>7, <2>1, <2>2 DEF Data
<1>9. /\ e \in Controllers /\ e.bits = 4 /\ e.upper = -1 /\ e.two = c.two /\ e.right = TRUE
      /\ e.cg = FALSE /\ e.addr = c.addr /\ e.text = [c.text EXCEPT ![z] = b] /\ Kept(c, e)
  BY <1>1, <1>2, <1>7 DEF Controllers, Kept, Codes
<1>10. Ready(e, lines)
  <2>1. e.two <=> lines > 1
    BY <1>1, <1>9
  <2> QED
    BY <1>3, <1>9, <2>1, Zenon DEF Ready, Idle
<1>11. PICK d : d = Moved(e)
  OBVIOUS
<1>12. /\ Ready(d, lines)
       /\ PlaceOf(d.addr, lines) = BeyondOn(lines, <<r, k + 1>>)
       /\ d.text = [c.text EXCEPT ![z] = b] /\ d.two = c.two /\ Kept(e, d)
  BY <1>5, <1>9, <1>10, <1>11, MovedOn
<1>13. PICK G : G = GlassOf(c, lines)
  OBVIOUS
<1>14. G = [r2 \in 1 .. lines |-> [j \in 1 .. Width(lines) |-> G[r2][j]]]
  BY <1>13 DEF GlassOf
<1>15. PICK H : H = GlassOf(d, lines)
  OBVIOUS
<1>16. H = [r2 \in 1 .. lines |-> [j \in 1 .. Width(lines) |-> H[r2][j]]]
  BY <1>15 DEF GlassOf
<1>17. ASSUME NEW r2 \in 1 .. lines, NEW j \in 1 .. Width(lines)
       PROVE  H[r2][j] = IF r2 = r /\ j = k + 1 THEN b ELSE G[r2][j]
  <2>1. PICK s2, x2 : Lies(lines, r2, s2, x2)
    BY RowLies
  <2>2. /\ G[r2][j] = c.text[x2 + (j - 1)]
        /\ x2 + (j - 1) \in 0 .. 79 /\ j - 1 \in 0 .. Width(lines) - 1
    BY <1>1, <1>13, <2>1, GlassIs
  <2>3. H[r2][j] = d.text[x2 + (j - 1)]
    <3>1. d.two <=> lines > 1
      BY <1>1, <1>12
    <3> QED
      BY <1>15, <2>1, <3>1, GlassIs
  <2>4. c.text \in [0 .. 79 -> 0 .. 255]
    BY <1>1 DEF Controllers
  <2>5. CASE r2 = r /\ j = k + 1
    <3>1. x2 = x
      BY <1>4, <2>1, <2>5 DEF Lies
    <3>2. x2 + (j - 1) = z
      BY <1>5, <1>6, <2>5, <3>1, Widths
    <3> QED
      BY <1>12, <2>3, <2>4, <2>5, <3>2
  <2>6. CASE ~(r2 = r /\ j = k + 1)
    <3>1. x2 + (j - 1) # z
      <4> SUFFICES ASSUME x2 + (j - 1) = x + k PROVE FALSE
        BY <1>6
      <4>1. r2 = r /\ j - 1 = k
        BY <1>4, <1>5, <2>1, <2>2, LiesOnce
      <4>2. j = k + 1
        BY <1>5, <4>1, Widths
      <4> QED
        BY <2>6, <4>1, <4>2
    <3> QED
      BY <1>12, <2>2, <2>3, <2>4, <2>6, <3>1
  <2> QED
    BY <2>5, <2>6
<1>18. H = [G EXCEPT ![r][k + 1] = b]
  <2>1. PICK n \in Nat : n = lines
    OBVIOUS
  <2>2. PICK W : W = 1 .. Width(lines)
    OBVIOUS
  <2>3. ASSUME NEW r2 \in 1 .. n
        PROVE  G[r2] = [j \in W |-> G[r2][j]] /\ H[r2] = [j \in W |-> H[r2][j]]
    BY <1>14, <1>16, <2>1, <2>2
  <2>4. ASSUME NEW r2 \in 1 .. n, r2 # r PROVE H[r2] = G[r2]
    <3>1. \A j \in W : H[r2][j] = G[r2][j]
      BY <1>17, <2>1, <2>2, <2>4
    <3> QED
      BY <2>3, <3>1
  <2>5. H[r] = [G[r] EXCEPT ![k + 1] = b]
    <3>1. r \in 1 .. n /\ k + 1 \in W
      BY <1>5, <2>1, <2>2
    <3>2. \A j \in W : H[r][j] = IF j = k + 1 THEN b ELSE G[r][j]
      BY <1>17, <2>1, <2>2, <3>1
    <3> QED
      BY <2>3, <3>1, <3>2
  <2>6. H = [r2 \in 1 .. n |-> H[r2]] /\ DOMAIN G = 1 .. n
    BY <1>14, <1>16, <2>1
  <2> QED
    BY <2>1, <1>5, <2>4, <2>5, <2>6
<1>19. PageOf(d, lines) = [rows |-> H, at |-> BeyondOn(lines, <<r, k + 1>>)]
  BY <1>12, <1>15, Zenon DEF PageOf
<1>24. PICK page : page = PageOf(c, lines)
  OBVIOUS
<1>25. page = [rows |-> G, at |-> <<r, k + 1>>]
  BY <1>5, <1>13, <1>24, Zenon DEF PageOf
<1>20. page = PageOf(c, lines) /\ page.rows = G /\ page.at = <<r, k + 1>>
  BY <1>24, <1>25
<1>21. page.at[1] = r /\ page.at[2] = k + 1
  BY <1>20
<1>22. WrittenOn(lines, page, b) = [rows |-> H, at |-> BeyondOn(lines, <<r, k + 1>>)]
  BY <1>18, <1>20, <1>21, Zenon DEF WrittenOn
<1>23. Kept(c, d)
  BY <1>9, <1>12, Zenon DEF Kept
<1> QED
  BY <1>8, <1>11, <1>12, <1>19, <1>20, <1>22, <1>23, Zenon

(* So does any byte that is not a line feed to lcd_print.                  *)
LEMMA PutcPage ==
    ASSUME NEW lines \in {1, 2, 4}, NEW c, Ready(c, lines), NEW b \in Codes, b # 10
    PROVE  /\ Ready(Putc(c, b), lines)
           /\ PageOf(Putc(c, b), lines) = TypedOn(lines, PageOf(c, lines), b)
           /\ Kept(c, Putc(c, b))
<1>1. /\ Ready(Putc(c, b), lines) /\ Kept(c, Putc(c, b))
      /\ PageOf(Putc(c, b), lines) = WrittenOn(lines, PageOf(c, lines), b)
  BY PutcCell
<1>2. TypedOn(lines, PageOf(c, lines), b) = WrittenOn(lines, PageOf(c, lines), b)
  BY Zenon DEF TypedOn
<1> QED
  BY <1>1, <1>2

(* The command that sets an address of the text.                           *)
LEMMA PosIs ==
    ASSUME NEW c, Idle(c), NEW a \in 0 .. 127
    PROVE  PosRaw(c, a) = [c EXCEPT !.addr = a, !.cg = FALSE]
<1>1. 128 + a \in Codes /\ 128 + a >= 128 /\ (128 + a) - 128 = a
  BY DEF Codes
<1>3. PICK b : b = 128 + a
  OBVIOUS
<1>4. b >= 128 /\ b - 128 = a
  BY <1>1, <1>3
<1>5. Command(c, b) = [c EXCEPT !.addr = b - 128, !.cg = FALSE]
  <2>1. b \in Int /\ ~(b \in 64 .. 127) /\ ~(b \in 32 .. 63) /\ ~(b \in 16 .. 31)
        /\ ~(b \in 8 .. 15) /\ ~(b \in 4 .. 7) /\ ~(b \in 2 .. 3) /\ b # 1
    BY <1>1, <1>3
  <2> QED
    BY <1>4, <2>1 DEF Command
<1>2. Command(c, 128 + a) = [c EXCEPT !.addr = a, !.cg = FALSE]
  BY <1>3, <1>4, <1>5
<1> QED
  BY <1>1, <1>2, CommandIs DEF PosRaw

(* A controller that is ready once its cursor is in the text.              *)
Arranging(c, lines) == Idle(c) /\ (c.two <=> lines > 1) /\ c.right = TRUE

(* The cursor is put somewhere, out of the text or out of the generator.   *)
LEMMA PosPage ==
    ASSUME NEW lines \in {1, 2, 4}, NEW c, Arranging(c, lines),
           NEW a, NEW r, NEW k, IsAt(lines, a, r, k)
    PROVE  /\ Ready(PosRaw(c, a), lines)
           /\ PageOf(PosRaw(c, a), lines) = [rows |-> GlassOf(c, lines), at |-> <<r, k + 1>>]
           /\ PosRaw(c, a).two = c.two
           /\ PosRaw(c, a).text = c.text
           /\ PosRaw(c, a).addr = a
           /\ Kept(c, PosRaw(c, a))
<1>1. a \in 0 .. 127 /\ PlaceOf(a, lines) = <<r, k + 1>>
  BY AtIs
<1>2. /\ Idle(c) /\ c \in Controllers /\ c.bits = 4 /\ c.upper = -1
      /\ (c.two <=> lines > 1) /\ c.right = TRUE
  BY DEF Arranging, Idle
<1>3. PICK d : d = [c EXCEPT !.addr = a, !.cg = FALSE]
  OBVIOUS
<1>4. PosRaw(c, a) = d
  BY <1>1, <1>2, <1>3, PosIs
<1>5. /\ d \in Controllers /\ d.bits = 4 /\ d.upper = -1 /\ d.two = c.two /\ d.right = TRUE
      /\ d.cg = FALSE /\ d.addr = a /\ d.text = c.text /\ Kept(c, d)
  BY <1>1, <1>2, <1>3 DEF Controllers, Kept
<1>6. d.two <=> lines > 1
  BY <1>2, <1>5
<1>7. Ready(d, lines)
  BY <1>5, <1>6, Zenon DEF Ready, Idle
<1>8. GlassOf(d, lines) = GlassOf(c, lines)
  BY <1>5, SameGlass
<1>9. PageOf(d, lines) = [rows |-> GlassOf(c, lines), at |-> <<r, k + 1>>]
  BY <1>1, <1>5, <1>8, Zenon DEF PageOf
<1> QED
  BY <1>4, <1>5, <1>7, <1>9

(* A line feed leaves the cursor at the beginning of the next row.         *)
LEMMA NextLinePage ==
    ASSUME NEW lines \in {1, 2, 4}, NEW c, Ready(c, lines)
    PROVE  /\ Ready(NextLine(c, lines), lines)
           /\ PageOf(NextLine(c, lines), lines) = TypedOn(lines, PageOf(c, lines), 10)
           /\ Kept(c, NextLine(c, lines))
<1>1. Idle(c) /\ (c.two <=> lines > 1) /\ c.right = TRUE
  BY Zenon DEF Ready
<1>2. PICK r, k : IsAt(lines, c.addr, r, k)
  BY Zenon DEF Ready
<1>3. PICK s, x : Lies(lines, r, s, x) /\ c.addr = s + k
  BY <1>2, Zenon DEF IsAt
<1>4. PICK p : p = c.addr
  OBVIOUS
<1>5. /\ r \in 1 .. lines /\ k \in 0 .. Width(lines) - 1 /\ p = s + k
      /\ PlaceOf(p, lines) = <<r, k + 1>>
  BY <1>2, <1>3, <1>4, AtIs
<1>6. ReadRaw(c, 0) = p /\ AfterRead(c, 0) = c
  BY <1>1, <1>4, ReadAddress
<1>7. NextLine(c, lines) =
          CASE lines = 1 -> PosRaw(c, 0)
            [] lines = 2 /\ p < 64 -> PosRaw(c, 64)
            [] lines = 4 /\ p < 20 -> PosRaw(c, 64)
            [] lines = 4 /\ p \in 64 .. 83 -> PosRaw(c, 20)
            [] lines = 4 /\ p \in 20 .. 63 -> PosRaw(c, 84)
            [] OTHER -> c
  BY <1>6 DEF NextLine
<1>8. PICK page : page = PageOf(c, lines)
  OBVIOUS
<1>9. page = [rows |-> GlassOf(c, lines), at |-> <<r, k + 1>>]
  BY <1>4, <1>5, <1>8, Zenon DEF PageOf
<1>10. TypedOn(lines, page, 10) = [rows |-> GlassOf(c, lines), at |-> BelowOn(lines, <<r, k + 1>>)]
  BY <1>9 DEF TypedOn
<1>11. ASSUME NEW a, NEW r2, IsAt(lines, a, r2, 0), NextLine(c, lines) = PosRaw(c, a),
              BelowOn(lines, <<r, k + 1>>) = <<r2, 1>>
       PROVE  /\ Ready(NextLine(c, lines), lines)
              /\ PageOf(NextLine(c, lines), lines) = TypedOn(lines, PageOf(c, lines), 10)
              /\ Kept(c, NextLine(c, lines))
  <2>1. /\ Ready(PosRaw(c, a), lines) /\ Kept(c, PosRaw(c, a))
        /\ PageOf(PosRaw(c, a), lines) = [rows |-> GlassOf(c, lines), at |-> <<r2, 0 + 1>>]
    <3>1. Arranging(c, lines)
      BY <1>1, Zenon DEF Arranging
    <3>2. Ready(PosRaw(c, a), lines)
      BY <1>11, <3>1, PosPage
    <3>3. PageOf(PosRaw(c, a), lines) = [rows |-> GlassOf(c, lines), at |-> <<r2, 0 + 1>>]
      BY <1>11, <3>1, PosPage
    <3>4. Kept(c, PosRaw(c, a))
      BY <1>11, <3>1, PosPage
    <3> QED
      BY <3>2, <3>3, <3>4
  <2>2. 0 + 1 = 1
    OBVIOUS
  <2> QED
    BY <1>8, <1>10, <1>11, <2>1, <2>2, Zenon
<1>12. ASSUME NextLine(c, lines) = c, BelowOn(lines, <<r, k + 1>>) = <<r, k + 1>>
       PROVE  /\ Ready(NextLine(c, lines), lines)
              /\ PageOf(NextLine(c, lines), lines) = TypedOn(lines, PageOf(c, lines), 10)
              /\ Kept(c, NextLine(c, lines))
  BY <1>8, <1>9, <1>10, <1>12, Zenon DEF Kept
<1>13. CASE lines = 1
  <2>1. NextLine(c, lines) = PosRaw(c, 0)
    BY <1>7, <1>13
  <2>2. IsAt(lines, 0, 1, 0)
    <3>1. Lies(lines, 1, 0, 0) /\ 0 = 0 + 0 /\ 0 \in 0 .. Width(lines) - 1
      BY <1>13, Widths DEF Lies
    <3> QED
      BY <3>1, Zenon DEF IsAt
  <2>3. BelowOn(lines, <<r, k + 1>>) = <<1, 1>>
    BY <1>13 DEF BelowOn
  <2> QED
    BY <1>11, <2>1, <2>2, <2>3, Zenon
<1>14. CASE lines = 2 /\ r = 1
  <2>1. NextLine(c, lines) = PosRaw(c, 64)
    <3>1. p < 64
      BY <1>3, <1>5, <1>14, Widths DEF Lies
    <3> QED
      BY <1>7, <1>14, <3>1
  <2>2. IsAt(lines, 64, 2, 0)
    <3>1. Lies(lines, 2, 64, 40) /\ 64 = 64 + 0 /\ 0 \in 0 .. Width(lines) - 1
      BY <1>14, Widths DEF Lies
    <3> QED
      BY <3>1, Zenon DEF IsAt
  <2>3. BelowOn(lines, <<r, k + 1>>) = <<2, 1>>
    BY <1>14 DEF BelowOn
  <2> QED
    BY <1>11, <2>1, <2>2, <2>3, Zenon
<1>15. CASE lines = 2 /\ r = 2
  <2>1. NextLine(c, lines) = c
    <3>1. ~(p < 64)
      BY <1>3, <1>5, <1>15, Widths DEF Lies
    <3> QED
      BY <1>7, <1>15, <3>1
  <2>2. BelowOn(lines, <<r, k + 1>>) = <<r, k + 1>>
    BY <1>15 DEF BelowOn
  <2> QED
    BY <1>12, <2>1, <2>2, Zenon
<1>16. CASE lines = 4
  <2>0. k \in 0 .. 19
    BY <1>5, <1>16, Widths
  <2>1. CASE r = 1
    <3>1. NextLine(c, lines) = PosRaw(c, 64)
      <4>1. p \in 0 .. 19
        BY <1>3, <1>5, <1>16, <2>0, <2>1 DEF Lies
      <4> QED
        BY <1>7, <1>16, <4>1
    <3>2. IsAt(lines, 64, 2, 0)
      <4>1. Lies(lines, 2, 64, 40) /\ 64 = 64 + 0 /\ 0 \in 0 .. Width(lines) - 1
        BY <1>16, Widths DEF Lies
      <4> QED
        BY <4>1, Zenon DEF IsAt
    <3>3. BelowOn(lines, <<r, k + 1>>) = <<2, 1>>
      BY <1>16, <2>1 DEF BelowOn
    <3> QED
      BY <1>11, <3>1, <3>2, <3>3, Zenon
  <2>2. CASE r = 2
    <3>1. NextLine(c, lines) = PosRaw(c, 20)
      <4>1. p \in 64 .. 83
        BY <1>3, <1>5, <1>16, <2>0, <2>2 DEF Lies
      <4> QED
        BY <1>7, <1>16, <4>1
    <3>2. IsAt(lines, 20, 3, 0)
      <4>1. Lies(lines, 3, 20, 20) /\ 20 = 20 + 0 /\ 0 \in 0 .. Width(lines) - 1
        BY <1>16, Widths DEF Lies
      <4> QED
        BY <4>1, Zenon DEF IsAt
    <3>3. BelowOn(lines, <<r, k + 1>>) = <<3, 1>>
      BY <1>16, <2>2 DEF BelowOn
    <3> QED
      BY <1>11, <3>1, <3>2, <3>3, Zenon
  <2>3. CASE r = 3
    <3>1. NextLine(c, lines) = PosRaw(c, 84)
      <4>1. p \in 20 .. 39
        BY <1>3, <1>5, <1>16, <2>0, <2>3 DEF Lies
      <4> QED
        BY <1>7, <1>16, <4>1
    <3>2. IsAt(lines, 84, 4, 0)
      <4>1. Lies(lines, 4, 84, 60) /\ 84 = 84 + 0 /\ 0 \in 0 .. Width(lines) - 1
        BY <1>16, Widths DEF Lies
      <4> QED
        BY <4>1, Zenon DEF IsAt
    <3>3. BelowOn(lines, <<r, k + 1>>) = <<4, 1>>
      BY <1>16, <2>3 DEF BelowOn
    <3> QED
      BY <1>11, <3>1, <3>2, <3>3, Zenon
  <2>4. CASE r = 4
    <3>1. NextLine(c, lines) = c
      <4>1. p \in 84 .. 103
        BY <1>3, <1>5, <1>16, <2>0, <2>4 DEF Lies
      <4> QED
        BY <1>7, <1>16, <4>1
    <3>2. BelowOn(lines, <<r, k + 1>>) = <<r, k + 1>>
      BY <1>16, <2>4 DEF BelowOn
    <3> QED
      BY <1>12, <3>1, <3>2, Zenon
  <2>5. r \in {1, 2, 3, 4}
    BY <1>5, <1>16
  <2> QED
    BY <2>1, <2>2, <2>3, <2>4, <2>5
<1>17. lines = 1 \/ (lines = 2 /\ r = 1) \/ (lines = 2 /\ r = 2) \/ lines = 4
  BY <1>5
<1> QED
  BY <1>13, <1>14, <1>15, <1>16, <1>17, Zenon

(* The glass of TextScreen.                                                *)
ScreenGlass ==
    [r \in 1 .. lcd.lines |-> [c \in 1 .. Width(lcd.lines) |->
        IF lcd.live THEN hd.text[Cell(hd, RowStart(lcd.lines)[r] + c - 1)]
        ELSE Space]]

(* The glass has the rows and columns of the display.                      *)
LEMMA GlassSize ==
    ASSUME lcd.lines \in {1, 2, 4}
    PROVE  /\ Len(ScreenGlass) = lcd.lines /\ DOMAIN ScreenGlass = 1 .. lcd.lines
           /\ Len(ScreenGlass[1]) = Width(lcd.lines)
           /\ DOMAIN ScreenGlass[1] = 1 .. Width(lcd.lines)
<1>1. PICK n \in Nat : n = lcd.lines /\ 1 \in 1 .. n
  OBVIOUS
<1>2. PICK w \in Nat : w = Width(n)
  BY <1>1, Widths
<1>3. \A f, m : m \in Nat /\ f = [r \in 1 .. m |-> f[r]] => Len(f) = m /\ DOMAIN f = 1 .. m
  OBVIOUS
<1>4. /\ ScreenGlass = [r \in 1 .. n |-> ScreenGlass[r]]
      /\ ScreenGlass[1] = [c \in 1 .. w |-> ScreenGlass[1][c]]
  BY <1>1, <1>2 DEF ScreenGlass
<1>5. Len(ScreenGlass) = n /\ DOMAIN ScreenGlass = 1 .. n
  BY <1>3, <1>4
<1>6. Len(ScreenGlass[1]) = w /\ DOMAIN ScreenGlass[1] = 1 .. w
  BY <1>3, <1>4
<1> QED
  BY <1>1, <1>2, <1>5, <1>6

(* With them, the operators of TextScreen are those above.                 *)
LEMMA ScreenBeyond ==
    ASSUME lcd.lines \in {1, 2, 4}, NEW place
    PROVE  Screen!Beyond(place) = BeyondOn(lcd.lines, place)
<1>1. PICK n : n = lcd.lines
  OBVIOUS
<1>2. Len(ScreenGlass) = n /\ Len(ScreenGlass[1]) = Width(n)
  BY <1>1, GlassSize
<1>3. ASSUME NEW r PROVE Screen!RowAfter(r) = RowThen(n, r)
  <2>1. Screen!RowAfter(r) = IF Len(ScreenGlass) = 4 THEN <<3, 4, 2, 1>>[r]
                             ELSE (r % Len(ScreenGlass)) + 1
    BY Zenon DEF Screen!RowAfter, ScreenGlass
  <2> QED
    BY <1>2, <2>1, Zenon DEF RowThen
<1>4. Screen!Beyond(place) = IF place[2] = Len(ScreenGlass[1])
                             THEN <<Screen!RowAfter(place[1]), 1>>
                             ELSE <<place[1], place[2] + 1>>
  BY Zenon DEF Screen!Beyond, ScreenGlass
<1> QED
  BY <1>1, <1>2, <1>3, <1>4, Zenon DEF BeyondOn

(* So is a symbol typed on a page. *)
LEMMA ScreenTyped ==
    ASSUME lcd.lines \in {1, 2, 4}, NEW page, NEW symbol
    PROVE  Screen!Typed(page, symbol) = TypedOn(lcd.lines, page, symbol)
<1>1. PICK n : n = lcd.lines
  OBVIOUS
<1>2. Len(ScreenGlass) = n /\ Len(ScreenGlass[1]) = Width(n)
  BY <1>1, GlassSize
<1>3. ASSUME NEW place PROVE Screen!LineAfter(place) = BelowOn(n, place)
  <2>1. Screen!LineAfter(place) =
            CASE Len(ScreenGlass) = 1 -> <<1, 1>>
              [] Len(ScreenGlass) > 1 /\ place[1] < Len(ScreenGlass) -> <<place[1] + 1, 1>>
              [] OTHER -> place
    BY Zenon DEF Screen!LineAfter, Screen!Start, ScreenGlass
  <2> QED
    BY <1>2, <2>1, Zenon DEF BelowOn
<1>5. ASSUME NEW place PROVE Screen!Beyond(place) = BeyondOn(n, place)
  BY <1>1, ScreenBeyond
<1>6. Screen!Typed(page, symbol) =
          IF symbol = 10 THEN [page EXCEPT !.at = Screen!LineAfter(@)]
          ELSE [rows |-> [page.rows EXCEPT ![page.at[1]][page.at[2]] = symbol],
                at |-> Screen!Beyond(page.at)]
  BY Zenon DEF Screen!Typed
<1> QED
  BY <1>1, <1>3, <1>5, <1>6, Zenon DEF TypedOn, WrittenOn

(* One character of a string. *)
Drawn(c, lines, char) == IF char = 10 THEN NextLine(c, lines) ELSE Putc(c, char)

(* The controllers a string can lead to from c.                            *)
ReadyLike(c, lines) == {d \in Controllers : Ready(d, lines) /\ Kept(c, d)}

(* A character of a string is a symbol typed on the page.                  *)
LEMMA DrawnPage ==
    ASSUME NEW lines \in {1, 2, 4}, NEW c, NEW d \in ReadyLike(c, lines), NEW char \in Codes
    PROVE  /\ Drawn(d, lines, char) \in ReadyLike(c, lines)
           /\ PageOf(Drawn(d, lines, char), lines) = TypedOn(lines, PageOf(d, lines), char)
<1>1. Ready(d, lines) /\ Kept(c, d)
  BY DEF ReadyLike
<1>2. PICK e : e = Drawn(d, lines, char)
  OBVIOUS
<1>3. /\ Ready(e, lines) /\ Kept(d, e)
      /\ PageOf(e, lines) = TypedOn(lines, PageOf(d, lines), char)
  <2>1. CASE char = 10
    <3>1. e = NextLine(d, lines)
      BY <1>2, <2>1, Zenon DEF Drawn
    <3> QED
      BY <1>1, <2>1, <3>1, NextLinePage
  <2>2. CASE char # 10
    <3>1. e = Putc(d, char)
      BY <1>2, <2>2, Zenon DEF Drawn
    <3> QED
      BY <1>1, <2>2, <3>1, PutcPage
  <2> QED
    BY <2>1, <2>2
<1>4. e \in Controllers
  BY <1>3, Zenon DEF Ready, Idle
<1>5. Kept(c, e)
  BY <1>1, <1>3, Zenon DEF Kept
<1>6. e \in ReadyLike(c, lines)
  BY <1>3, <1>4, <1>5 DEF ReadyLike
<1> QED
  BY <1>2, <1>3, <1>6

(* What a string leaves behind is what its cells and line feeds do to the  *)
(* page, one after the other.                                              *)
LEMMA PrintedPage ==
    ASSUME lcd.lines \in {1, 2, 4}, NEW c, Ready(c, lcd.lines), NEW s \in Seq(Codes)
    PROVE  /\ Ready(Printed(c, lcd.lines, s), lcd.lines)
           /\ Kept(c, Printed(c, lcd.lines, s))
           /\ PageOf(Printed(c, lcd.lines, s), lcd.lines) =
                  Screen!PageAfter(PageOf(c, lcd.lines), Replaced(s))
<1>1. PICK lines \in {1, 2, 4} : lines = lcd.lines
  OBVIOUS
<1>2. PICK chars \in Seq(Codes) : chars = Replaced(s)
  BY ReplacedType
<1>3. PICK n \in Nat : n = Len(chars)
  BY LenProperties
<1>4. \A i \in 1 .. n : chars[i] \in Codes
  BY <1>3, ElementOfSeq
<1>5. PICK S : S = ReadyLike(c, lines)
  OBVIOUS
<1>6. c \in S
  <2>1. c \in Controllers /\ Kept(c, c)
    BY Zenon DEF Ready, Idle, Kept
  <2> QED
    BY <1>1, <1>5, <2>1 DEF ReadyLike
<1> DEFINE F == [i \in 1 .. n |-> [x \in S |-> Drawn(x, lines, chars[i])]]
<1>7. \A i \in 1 .. n : \A x \in S : F[i][x] = Drawn(x, lines, chars[i])
  OBVIOUS
<1>8. \A i \in 1 .. n : \A x \in S : Drawn(x, lines, chars[i]) \in S
  BY <1>4, <1>5, DrawnPage
<1>9. \A i \in 1 .. n : \A x \in S : F[i][x] \in S
  BY <1>7, <1>8
<1> HIDE DEF F
<1>10. PICK f : Runs(f, n, S, c, F)
  BY <1>6, <1>9, LoopExists
<1>11. f \in [0 .. n -> S] /\ f[0] = c /\ \A i \in 1 .. n : f[i] = F[i][f[i - 1]]
  BY <1>10 DEF Runs
<1>12. ASSUME NEW i \in 1 .. n PROVE f[i] = Drawn(f[i - 1], lines, chars[i])
  <2>1. i - 1 \in 0 .. n
    OBVIOUS
  <2>2. f[i - 1] \in S
    BY <1>11, <2>1
  <2> QED
    BY <1>7, <1>11, <2>2
<1> DEFINE Round(g) == [i \in 0 .. Len(chars) |-> IF i = 0 THEN c
                           ELSE IF chars[i] = 10 THEN NextLine(g[i - 1], lines)
                           ELSE Putc(g[i - 1], chars[i])]
<1>13. Printed(c, lines, s) = (CHOOSE g : g = Round(g))[Len(chars)]
  BY <1>2, Zenon DEF Printed
<1>14. \A g : \A i \in 1 .. n : i # 0 /\ Round(g)[i] = Drawn(g[i - 1], lines, chars[i])
  BY <1>3 DEF Drawn
<1>15. \A g : Round(g) = [i \in 0 .. n |-> Round(g)[i]] /\ Round(g)[0] = c
  BY <1>3
<1> HIDE DEF Round
<1>16. f = Round(f)
  <2>1. \A i \in 0 .. n : f[i] = Round(f)[i]
    <3> SUFFICES ASSUME NEW i \in 0 .. n PROVE f[i] = Round(f)[i]
      OBVIOUS
    <3>1. CASE i = 0
      BY <1>11, <1>15, <3>1
    <3>2. CASE i # 0
      <4>1. i \in 1 .. n
        BY <3>2
      <4> QED
        BY <1>12, <1>14, <4>1
    <3> QED
      BY <3>1, <3>2
  <2>2. f = [i \in 0 .. n |-> f[i]]
    BY <1>11
  <2> QED
    BY <1>15, <2>1, <2>2
<1>17. PICK g : g = (CHOOSE x : x = Round(x)) /\ g = Round(g)
  BY <1>16
<1>18. g = f
  <2>1. g = [i \in 0 .. n |-> g[i]] /\ g[0] = c
    BY <1>15, <1>17, Zenon
  <2>2. \A i \in 1 .. n : g[i] = Drawn(g[i - 1], lines, chars[i])
    BY <1>14, <1>17, Zenon
  <2>3. \A i \in 1 .. n : g[i - 1] \in S => g[i] = F[i][g[i - 1]]
    BY <1>7, <2>2
  <2> QED
    <3>1. Follows(g, n, S, c, F)
      BY <2>1, <2>3, Zenon DEF Follows
    <3> QED
      BY <1>6, <1>10, <3>1, RunsOnce
<1>19. Printed(c, lines, s) = f[n]
  BY <1>3, <1>13, <1>17, <1>18, Zenon
<1> DEFINE h == [i \in 0 .. n |-> PageOf(f[i], lines)]
           P == {PageOf(d, lines) : d \in S}
           E == [i \in 1 .. n |-> [p \in P |-> TypedOn(lines, p, chars[i])]]
           Turn(q) == [i \in 0 .. Len(chars) |-> IF i = 0 THEN PageOf(c, lines)
                          ELSE Screen!Typed(q[i - 1], chars[i])]
<1>20. Screen!PageAfter(PageOf(c, lines), chars) = (CHOOSE q : q = Turn(q))[Len(chars)]
  BY Zenon DEF Screen!PageAfter
<1>21. \A p, a : Screen!Typed(p, a) = TypedOn(lines, p, a)
  BY <1>1, ScreenTyped
<1>22. \A q : \A i \in 1 .. n : i # 0 /\ Turn(q)[i] = TypedOn(lines, q[i - 1], chars[i])
  <2>1. \A q : \A i \in 1 .. n : i # 0 /\ Turn(q)[i] = Screen!Typed(q[i - 1], chars[i])
    BY <1>3
  <2> HIDE DEF Turn
  <2> QED
    BY <1>21, <2>1
<1>23. \A q : Turn(q) = [i \in 0 .. n |-> Turn(q)[i]] /\ Turn(q)[0] = PageOf(c, lines)
  BY <1>3
<1> HIDE DEF Turn
<1>24. ASSUME NEW i \in 1 .. n PROVE h[i] = TypedOn(lines, h[i - 1], chars[i])
  <2>1. i - 1 \in 0 .. n
    OBVIOUS
  <2>2. f[i - 1] \in S
    BY <1>11, <2>1
  <2>3. PageOf(f[i], lines) = TypedOn(lines, PageOf(f[i - 1], lines), chars[i])
    BY <1>4, <1>5, <1>12, <2>2, DrawnPage
  <2> QED
    BY <2>1, <2>3
<1>25. h[0] = PageOf(c, lines) /\ h = [i \in 0 .. n |-> h[i]]
  BY <1>11
<1>26. h \in [0 .. n -> P]
  BY <1>11
<1> HIDE DEF h
<1>27. h = Turn(h)
  <2>1. \A i \in 0 .. n : h[i] = Turn(h)[i]
    <3> SUFFICES ASSUME NEW i \in 0 .. n PROVE h[i] = Turn(h)[i]
      OBVIOUS
    <3>1. CASE i = 0
      BY <1>23, <1>25, <3>1
    <3>2. CASE i # 0
      <4>1. i \in 1 .. n
        BY <3>2
      <4> QED
        BY <1>22, <1>24, <4>1
    <3> QED
      BY <3>1, <3>2
  <2> QED
    BY <1>23, <1>25, <2>1
<1>28. PICK q : q = (CHOOSE x : x = Turn(x)) /\ q = Turn(q)
  BY <1>27
<1>29. \A i \in 1 .. n : \A p \in P : E[i][p] = TypedOn(lines, p, chars[i])
  OBVIOUS
<1> HIDE DEF P, E
<1>30. \A i \in 1 .. n : h[i] = E[i][h[i - 1]]
  <2> SUFFICES ASSUME NEW i \in 1 .. n PROVE h[i] = E[i][h[i - 1]]
    OBVIOUS
  <2>1. i - 1 \in 0 .. n
    OBVIOUS
  <2>2. h[i - 1] \in P
    BY <1>26, <2>1
  <2> QED
    BY <1>24, <1>29, <2>2
<1>31. PageOf(c, lines) \in P
  <2>1. 0 \in 0 .. n
    OBVIOUS
  <2> QED
    BY <1>25, <1>26, <2>1
<1>32. Runs(h, n, P, PageOf(c, lines), E)
  BY <1>25, <1>26, <1>30 DEF Runs
<1>33. q = h
  <2>1. q = [i \in 0 .. n |-> q[i]] /\ q[0] = PageOf(c, lines)
    BY <1>23, <1>28, Zenon
  <2>2. \A i \in 1 .. n : q[i] = TypedOn(lines, q[i - 1], chars[i])
    BY <1>22, <1>28, Zenon
  <2>3. \A i \in 1 .. n : q[i - 1] \in P => q[i] = E[i][q[i - 1]]
    BY <1>29, <2>2
  <2> QED
    <3>1. Follows(q, n, P, PageOf(c, lines), E)
      BY <2>1, <2>3, Zenon DEF Follows
    <3> QED
      BY <1>31, <1>32, <3>1, RunsOnce
<1>34. n \in 0 .. n
  OBVIOUS
<1>35. Screen!PageAfter(PageOf(c, lines), chars) = PageOf(f[n], lines)
  <2>1. Screen!PageAfter(PageOf(c, lines), chars) = h[n]
    BY <1>3, <1>20, <1>28, <1>33, Zenon
  <2> QED
    BY <1>34, <2>1 DEF h
<1>36. Ready(f[n], lines) /\ Kept(c, f[n])
  <2>1. f[n] \in S
    BY <1>11, <1>34
  <2> QED
    BY <1>5, <2>1 DEF ReadyLike
<1> QED
  BY <1>1, <1>2, <1>19, <1>35, <1>36, Zenon

(* A byte of data leaves a controller a controller.                        *)
LEMMA PutcType ==
    ASSUME NEW c \in Controllers, NEW byte \in Codes
    PROVE  Putc(c, byte) \in Controllers
<1>1. byte \div 16 \in 0 .. 15 /\ byte % 16 \in 0 .. 15
  BY Halves DEF Codes
<1>2. Strobe(c, 1, byte \div 16) \in Controllers
  BY <1>1, StrobeType
<1> QED
  BY <1>1, <1>2, StrobeType DEF Putc, Raw

(* The first i rows of character n have been written.                      *)
Drawing(c, d, n, p, i) ==
    /\ Idle(d) /\ d.two = c.two /\ d.text = c.text /\ d.look = c.look
    /\ d.right = TRUE /\ d.cg = TRUE
    /\ d.addr = (8 * n + i) % 64
    /\ \A x \in 0 .. 63 :
          d.glyphs[x] = IF 8 * n <= x /\ x < 8 * n + i THEN p[x - 8 * n + 1] ELSE c.glyphs[x]

(* lcd_create_char sets the address of the first row ...                   *)
LEMMA DrawingStarts ==
    ASSUME NEW c, Idle(c), c.right = TRUE, NEW n \in 0 .. 7, NEW p
    PROVE  Drawing(c, Raw(c, 0, 64 + 8 * n), n, p, 0)
<1>1. PICK b \in 64 .. 120 : b = 64 + 8 * n
  OBVIOUS
<1>2. b \in Codes
  BY DEF Codes
<1>10. PICK a \in 0 .. 127 : a = b - 64 /\ a = 8 * n /\ a \in 0 .. 63
  <2>1. b - 64 \in 0 .. 127 /\ b - 64 = 8 * n /\ b - 64 \in 0 .. 63
    BY <1>1
  <2> QED
    BY <2>1
<1>3. PICK d : d = [c EXCEPT !.addr = a, !.cg = TRUE]
  OBVIOUS
<1>4. Raw(c, 0, b) = d
  <2>1. Raw(c, 0, b) = Command(c, b)
    BY <1>2, CommandIs
  <2>2. ~(b >= 128)
    BY <1>1
  <2> QED
    BY <1>3, <1>10, <2>1, <2>2 DEF Command
<1>5. c \in Controllers /\ c.bits = 4 /\ c.upper = -1
  BY DEF Idle
<1>6. /\ d \in Controllers /\ d.bits = 4 /\ d.upper = -1 /\ d.two = c.two /\ d.text = c.text
      /\ d.look = c.look /\ d.right = TRUE /\ d.cg = TRUE /\ d.addr = a
      /\ d.glyphs = c.glyphs
  BY <1>3, <1>5 DEF Controllers
<1>7. d.addr = (8 * n + 0) % 64
  BY <1>6, <1>10
<1>8. \A x \in 0 .. 63 :
          d.glyphs[x] = IF 8 * n <= x /\ x < 8 * n + 0 THEN p[x - 8 * n + 1] ELSE c.glyphs[x]
  BY <1>6
<1>9. Drawing(c, d, n, p, 0)
  BY <1>6, <1>7, <1>8, Zenon DEF Drawing, Idle
<1> QED
  BY <1>1, <1>4, <1>9

(* ... and writes one row after the other. *)
LEMMA DrawingGoesOn ==
    ASSUME NEW c, NEW n \in 0 .. 7, NEW p \in [1 .. 8 -> Codes], NEW i \in 0 .. 8, i < 8,
           NEW d, Drawing(c, d, n, p, i)
    PROVE  Drawing(c, Putc(d, p[i + 1]), n, p, i + 1)
<1>1. /\ Idle(d) /\ d.two = c.two /\ d.text = c.text /\ d.look = c.look
      /\ d.right = TRUE /\ d.cg = TRUE
  BY Zenon DEF Drawing
<1>2. d.addr = (8 * n + i) % 64
  BY Zenon DEF Drawing
<1>3. \A x \in 0 .. 63 :
          d.glyphs[x] = IF 8 * n <= x /\ x < 8 * n + i THEN p[x - 8 * n + 1] ELSE c.glyphs[x]
  BY Zenon DEF Drawing
<1>4. PICK a \in 0 .. 63 : a = 8 * n + i
  OBVIOUS
<1>5. d.addr = a /\ d.addr % 64 = a
  BY <1>2, <1>4
<1>6. PICK b \in Codes : b = p[i + 1]
  OBVIOUS
<1>7. d \in Controllers /\ d.bits = 4 /\ d.upper = -1
  BY <1>1 DEF Idle
<1>8. PICK e : e = [d EXCEPT !.glyphs[a] = b]
  OBVIOUS
<1>9. /\ e \in Controllers /\ e.bits = 4 /\ e.upper = -1 /\ e.two = c.two /\ e.right = TRUE
      /\ e.cg = TRUE /\ e.addr = a /\ e.text = c.text /\ e.look = c.look
      /\ e.glyphs = [d.glyphs EXCEPT ![a] = b]
  BY <1>1, <1>5, <1>7, <1>8 DEF Controllers, Codes
<1>10. PICK z \in 0 .. 127 : z = (a + 1) % 64
  OBVIOUS
<1>11. PICK h : h = [e EXCEPT !.addr = z]
  OBVIOUS
<1>12. Putc(d, b) = h
  <2>1. Putc(d, b) = Data(d, b)
    BY <1>1, PutcIs
  <2>2. Data(d, b) = Moved(e)
    BY <1>1, <1>5, <1>8 DEF Data
  <2>3. Moved(e) = h
    BY <1>9, <1>10, <1>11 DEF Moved
  <2> QED
    BY <2>1, <2>2, <2>3
<1>13. /\ h \in Controllers /\ h.bits = 4 /\ h.upper = -1 /\ h.two = c.two /\ h.right = TRUE
       /\ h.cg = TRUE /\ h.addr = z /\ h.text = c.text /\ h.look = c.look
       /\ h.glyphs = [d.glyphs EXCEPT ![a] = b]
  BY <1>9, <1>11 DEF Controllers
<1>14. h.addr = (8 * n + (i + 1)) % 64
  <2>1. a + 1 = 8 * n + (i + 1)
    BY <1>4
  <2> QED
    BY <1>10, <1>13, <2>1
<1>15. ASSUME NEW x \in 0 .. 63
       PROVE  h.glyphs[x] = IF 8 * n <= x /\ x < 8 * n + (i + 1) THEN p[x - 8 * n + 1]
                            ELSE c.glyphs[x]
  <2>1. d.glyphs \in [0 .. 63 -> 0 .. 255]
    BY <1>7 DEF Controllers
  <2>2. CASE x = a
    <3>1. h.glyphs[x] = b
      BY <1>13, <2>1, <2>2
    <3>2. 8 * n <= x /\ x < 8 * n + (i + 1) /\ x - 8 * n + 1 = i + 1
      BY <1>4, <2>2
    <3> QED
      BY <1>6, <3>1, <3>2
  <2>3. CASE x # a
    <3>1. h.glyphs[x] = d.glyphs[x]
      BY <1>13, <2>1, <2>3
    <3>2. x < 8 * n + (i + 1) <=> x < 8 * n + i
      BY <1>4, <2>3
    <3> QED
      BY <1>3, <3>1, <3>2
  <2> QED
    BY <2>2, <2>3
<1>16. Drawing(c, h, n, p, i + 1)
  BY <1>13, <1>14, <1>15, Zenon DEF Drawing, Idle
<1> QED
  BY <1>6, <1>12, <1>16, Zenon

(* lcd_create_char within its bounds: from the controller d that the       *)
(* command leaves, eight bytes, and the cursor back.                       *)
RowsWritten(f, d, p) ==
    /\ f[0] = d
    /\ \A i \in 1 .. 8 : f[i] = Putc(f[i - 1], p[i])

LEMMA CreateCharRuns ==
    ASSUME NEW c, Idle(c), NEW n \in 0 .. 8, NEW p \in [1 .. 8 -> Codes],
           NEW d \in Controllers, d = Raw(c, 0, 64 + 8 * n)
    PROVE  \E f \in [0 .. 8 -> Controllers] :
               RowsWritten(f, d, p) /\ CreateChar(c, n, p) = PosRaw(f[8], c.addr)
<1>3. ReadRaw(c, 0) = c.addr /\ AfterRead(c, 0) = c
  BY ReadAddress
<1>6. PICK m \in Nat : m = 8
  OBVIOUS
<1> DEFINE F == [i \in 1 .. m |-> [x \in Controllers |-> Putc(x, p[i])]]
<1>7. \A i \in 1 .. m : \A x \in Controllers : F[i][x] = Putc(x, p[i])
  OBVIOUS
<1>8. \A i \in 1 .. m : p[i] \in Codes
  BY <1>6
<1>9. \A i \in 1 .. m : \A x \in Controllers : F[i][x] \in Controllers
  BY <1>7, <1>8, PutcType
<1> HIDE DEF F
<1>10. PICK f : Runs(f, m, Controllers, d, F)
  BY <1>9, LoopExists
<1>11. f \in [0 .. m -> Controllers] /\ f[0] = d /\ \A i \in 1 .. m : f[i] = F[i][f[i - 1]]
  BY <1>10 DEF Runs
<1>12. ASSUME NEW i \in 1 .. m PROVE f[i] = Putc(f[i - 1], p[i])
  <2>1. i - 1 \in 0 .. m
    OBVIOUS
  <2>2. f[i - 1] \in Controllers
    BY <1>11, <2>1
  <2> QED
    BY <1>7, <1>11, <2>2
<1> DEFINE Round(g) == [i \in 0 .. 8 |-> IF i = 0 THEN Raw(AfterRead(c, 0), 0, 64 + 8 * n)
                           ELSE Putc(g[i - 1], p[i])]
<1>13. CreateChar(c, n, p) = PosRaw((CHOOSE g : g = Round(g))[8], ReadRaw(c, 0))
  <2>1. ~(n < 0 \/ n > 8)
    OBVIOUS
  <2> QED
    BY <2>1, Zenon DEF CreateChar
<1>14. \A g : \A i \in 1 .. m : i # 0 /\ Round(g)[i] = Putc(g[i - 1], p[i])
  BY <1>6
<1>15. \A g : Round(g) = [i \in 0 .. m |-> Round(g)[i]] /\ Round(g)[0] = d
  BY <1>3, <1>6
<1> HIDE DEF Round
<1>16. f = Round(f)
  <2>1. \A i \in 0 .. m : f[i] = Round(f)[i]
    <3> SUFFICES ASSUME NEW i \in 0 .. m PROVE f[i] = Round(f)[i]
      OBVIOUS
    <3>1. CASE i = 0
      BY <1>11, <1>15, <3>1
    <3>2. CASE i # 0
      <4>1. i \in 1 .. m
        BY <3>2
      <4> QED
        BY <1>12, <1>14, <4>1
    <3> QED
      BY <3>1, <3>2
  <2>2. f = [i \in 0 .. m |-> f[i]]
    BY <1>11
  <2> QED
    BY <1>15, <2>1, <2>2
<1>17. PICK g : g = (CHOOSE x : x = Round(x)) /\ g = Round(g)
  BY <1>16
<1>18. g = f
  <2>1. g = [i \in 0 .. m |-> g[i]] /\ g[0] = d
    BY <1>15, <1>17, Zenon
  <2>2. \A i \in 1 .. m : g[i] = Putc(g[i - 1], p[i])
    BY <1>14, <1>17, Zenon
  <2>3. \A i \in 1 .. m : g[i - 1] \in Controllers => g[i] = F[i][g[i - 1]]
    BY <1>7, <2>2
  <2>4. Follows(g, m, Controllers, d, F)
    BY <2>1, <2>3, Zenon DEF Follows
  <2> QED
    BY <1>10, <2>4, RunsOnce
<1>19. CreateChar(c, n, p) = PosRaw(f[8], c.addr)
  BY <1>3, <1>13, <1>17, <1>18, Zenon
<1>20. RowsWritten(f, d, p)
  BY <1>6, <1>11, <1>12 DEF RowsWritten
<1>21. f \in [0 .. 8 -> Controllers]
  BY <1>6, <1>11
<1> QED
  BY <1>19, <1>20, <1>21

(* lcd_create_char: the glyphs of one character, and nothing else.         *)
LEMMA CreateCharPage ==
    ASSUME NEW lines \in {1, 2, 4}, NEW c, Ready(c, lines),
           NEW n \in 0 .. 7, NEW p \in [1 .. 8 -> Codes]
    PROVE  /\ Ready(CreateChar(c, n, p), lines)
           /\ PageOf(CreateChar(c, n, p), lines) = PageOf(c, lines)
           /\ CreateChar(c, n, p).look = c.look
           /\ \A x \in 0 .. 63 : CreateChar(c, n, p).glyphs[x] =
                  IF 8 * n <= x /\ x < 8 * n + 8 THEN p[x - 8 * n + 1] ELSE c.glyphs[x]
<1>1. Idle(c) /\ (c.two <=> lines > 1) /\ c.right = TRUE
  BY Zenon DEF Ready
<1>2. PICK r, k : IsAt(lines, c.addr, r, k)
  BY Zenon DEF Ready
<1>4. PICK d : d = Raw(c, 0, 64 + 8 * n) /\ Drawing(c, d, n, p, 0)
  BY <1>1, DrawingStarts
<1>5. d \in Controllers
  BY <1>4, Zenon DEF Drawing, Idle
<1>6. PICK m \in Nat : m = 8
  OBVIOUS
<1>7. PICK f : RowsWritten(f, d, p) /\ CreateChar(c, n, p) = PosRaw(f[8], c.addr)
  <2>1. n \in 0 .. 8
    OBVIOUS
  <2> QED
    BY <1>1, <1>4, <1>5, <2>1, CreateCharRuns
<1> DEFINE T == {i \in 0 .. m : Drawing(c, f[i], n, p, i)}
<1>19. 0 \in T
  BY <1>4, <1>7 DEF RowsWritten
<1>20. ASSUME NEW i \in 0 .. m, i < m, i \in T PROVE i + 1 \in T
  <2>1. i + 1 \in 1 .. 8 /\ (i + 1) - 1 = i /\ i + 1 \in 0 .. m /\ i \in 0 .. 8 /\ i < 8
    BY <1>6, <1>20
  <2>2. Drawing(c, f[i], n, p, i)
    BY <1>20
  <2>3. f[i + 1] = Putc(f[i], p[i + 1])
    BY <1>7, <2>1 DEF RowsWritten
  <2>4. Drawing(c, Putc(f[i], p[i + 1]), n, p, i + 1)
    BY <2>1, <2>2, DrawingGoesOn
  <2> QED
    BY <2>1, <2>3, <2>4
<1> HIDE DEF T
<1>21. \A i \in 0 .. m : i \in T
  BY <1>19, <1>20, UpTo
<1>22. 8 \in T
  BY <1>6, <1>21
<1>23. PICK e : e = f[8] /\ Drawing(c, e, n, p, 8)
  BY <1>22 DEF T
<1>24. CreateChar(c, n, p) = PosRaw(e, c.addr)
  BY <1>7, <1>23, Zenon
<1>25. Idle(e) /\ e.two = c.two /\ e.text = c.text /\ e.look = c.look /\ e.right = TRUE
  BY <1>23, Zenon DEF Drawing
<1>26. \A x \in 0 .. 63 :
          e.glyphs[x] = IF 8 * n <= x /\ x < 8 * n + 8 THEN p[x - 8 * n + 1] ELSE c.glyphs[x]
  BY <1>23, Zenon DEF Drawing
<1>27. Arranging(e, lines)
  BY <1>1, <1>25, Zenon DEF Arranging
<1>28. PICK h : h = PosRaw(e, c.addr)
  OBVIOUS
<1>29. Ready(h, lines)
  BY <1>2, <1>27, <1>28, PosPage
<1>30. PageOf(h, lines) = [rows |-> GlassOf(e, lines), at |-> <<r, k + 1>>]
  BY <1>2, <1>27, <1>28, PosPage
<1>31. Kept(e, h)
  BY <1>2, <1>27, <1>28, PosPage
<1>32. GlassOf(e, lines) = GlassOf(c, lines)
  BY <1>25, SameGlass
<1>33. PlaceOf(c.addr, lines) = <<r, k + 1>>
  BY <1>2, AtIs
<1>34. PageOf(h, lines) = PageOf(c, lines)
  BY <1>30, <1>32, <1>33, Zenon DEF PageOf
<1>35. h.look = c.look /\ h.glyphs = e.glyphs
  BY <1>25, <1>31, Zenon DEF Kept
<1> QED
  BY <1>24, <1>26, <1>28, <1>29, <1>34, <1>35, Zenon

(* The page of a display that is cleared. *)
EmptyPage(lines) ==
    [rows |-> [r \in 1 .. lines |-> [j \in 1 .. Width(lines) |-> Space]], at |-> <<1, 1>>]

(* Address 0 is the first cell of the first row.                           *)
LEMMA AtStart ==
    ASSUME NEW lines \in {1, 2, 4}
    PROVE  IsAt(lines, 0, 1, 0) /\ PlaceOf(0, lines) = <<1, 1>>
<1>1. Lies(lines, 1, 0, 0) /\ 0 = 0 + 0 /\ 0 \in 0 .. Width(lines) - 1
  BY Widths DEF Lies
<1>2. IsAt(lines, 0, 1, 0)
  BY <1>1, Zenon DEF IsAt
<1>3. PlaceOf(0, lines) = <<1, 0 + 1>>
  BY <1>2, AtIs
<1> QED
  BY <1>2, <1>3

(* A page is its glass and its cursor. *)
LEMMA PageParts ==
    ASSUME NEW c, NEW lines
    PROVE  /\ PageOf(c, lines).rows = GlassOf(c, lines)
           /\ PageOf(c, lines).at = PlaceOf(c.addr, lines)
BY DEF PageOf

(* What a ninth character leaves on the glass after i of its rows.         *)
SpilledOn(glass, lines, p, i) ==
    [r \in 1 .. lines |-> [j \in 1 .. Width(lines) |->
        IF r = 1 /\ j <= i THEN p[j] ELSE glass[r][j]]]
Spilling(c, d, lines, p, i) ==
    /\ Ready(d, lines) /\ Kept(c, d)
    /\ PlaceOf(d.addr, lines) = <<1, i + 1>>
    /\ GlassOf(d, lines) = SpilledOn(GlassOf(c, lines), lines, p, i)

(* Its command is the one that puts the cursor at the first cell ...       *)
LEMMA SpillingStarts ==
    ASSUME NEW lines \in {1, 2, 4}, NEW c, Ready(c, lines), NEW p
    PROVE  Spilling(c, Raw(c, 0, 64 + 8 * 8), lines, p, 0)
<1>1. Arranging(c, lines)
  BY Zenon DEF Ready, Arranging
<1>2. IsAt(lines, 0, 1, 0)
  BY AtStart
<1>3. PICK d : d = PosRaw(c, 0)
  OBVIOUS
<1>4. /\ Ready(d, lines) /\ Kept(c, d)
      /\ PageOf(d, lines) = [rows |-> GlassOf(c, lines), at |-> <<1, 0 + 1>>]
  BY <1>1, <1>2, <1>3, PosPage
<1>5. Raw(c, 0, 64 + 8 * 8) = d
  <2>1. 64 + 8 * 8 = 128 + 0
    OBVIOUS
  <2> QED
    BY <1>3, <2>1 DEF PosRaw
<1>6. GlassOf(d, lines) = GlassOf(c, lines) /\ PlaceOf(d.addr, lines) = <<1, 0 + 1>>
  BY <1>4, PageParts
<1>7. PICK G : G = GlassOf(c, lines)
  OBVIOUS
<1>8. G = SpilledOn(G, lines, p, 0)
  <2>1. G = [r \in 1 .. lines |-> [j \in 1 .. Width(lines) |-> G[r][j]]]
    BY <1>7 DEF GlassOf
  <2>2. \A r \in 1 .. lines, j \in 1 .. Width(lines) : ~(r = 1 /\ j <= 0)
    OBVIOUS
  <2> QED
    BY <2>1, <2>2 DEF SpilledOn
<1> QED
  BY <1>4, <1>5, <1>6, <1>7, <1>8, Zenon DEF Spilling

(* ... and its rows follow each other there.                               *)
LEMMA SpillingGoesOn ==
    ASSUME NEW lines \in {1, 2, 4}, NEW c, NEW p \in [1 .. 8 -> Codes],
           NEW i \in 0 .. 8, i < 8, NEW d, Spilling(c, d, lines, p, i)
    PROVE  Spilling(c, Putc(d, p[i + 1]), lines, p, i + 1)
<1>1. /\ Ready(d, lines) /\ Kept(c, d)
      /\ PlaceOf(d.addr, lines) = <<1, i + 1>>
      /\ GlassOf(d, lines) = SpilledOn(GlassOf(c, lines), lines, p, i)
  BY Zenon DEF Spilling
<1>2. PICK b \in Codes : b = p[i + 1]
  OBVIOUS
<1>3. PICK e : e = Putc(d, b)
  OBVIOUS
<1>4. /\ Ready(e, lines) /\ Kept(d, e)
      /\ PageOf(e, lines) = WrittenOn(lines, PageOf(d, lines), b)
  BY <1>1, <1>3, PutcCell
<1>5. PICK G : G = GlassOf(c, lines)
  OBVIOUS
<1>6. PICK H : H = GlassOf(d, lines)
  OBVIOUS
<1>7. PageOf(d, lines) = [rows |-> H, at |-> <<1, i + 1>>]
  BY <1>1, <1>6, Zenon DEF PageOf
<1>8. WrittenOn(lines, PageOf(d, lines), b) =
          [rows |-> [H EXCEPT ![1][i + 1] = b], at |-> BeyondOn(lines, <<1, i + 1>>)]
  <2>1. PICK page : page = PageOf(d, lines)
    OBVIOUS
  <2>2. page.rows = H /\ page.at = <<1, i + 1>> /\ page.at[1] = 1 /\ page.at[2] = i + 1
    BY <1>7, <2>1
  <2> QED
    BY <2>1, <2>2, Zenon DEF WrittenOn
<1>9. /\ GlassOf(e, lines) = [H EXCEPT ![1][i + 1] = b]
      /\ PlaceOf(e.addr, lines) = BeyondOn(lines, <<1, i + 1>>)
  <2>1. PageOf(e, lines).rows = GlassOf(e, lines) /\ PageOf(e, lines).at = PlaceOf(e.addr, lines)
    BY PageParts
  <2> QED
    BY <1>4, <1>8, <2>1
<1>10. BeyondOn(lines, <<1, i + 1>>) = <<1, (i + 1) + 1>>
  <2>1. Width(lines) > 8
    BY Widths
  <2> QED
    BY <2>1 DEF BeyondOn
<1>11. [H EXCEPT ![1][i + 1] = b] = SpilledOn(G, lines, p, i + 1)
  <2>1. PICK n \in Nat : n = lines /\ 1 \in 1 .. n
    OBVIOUS
  <2>2. PICK w \in Nat : w = Width(lines) /\ w > 8
    BY Widths
  <2>3. H = [r \in 1 .. n |-> [j \in 1 .. w |->
                IF r = 1 /\ j <= i THEN p[j] ELSE G[r][j]]]
    BY <1>1, <1>5, <1>6, <2>1, <2>2, Zenon DEF SpilledOn
  <2>4. SpilledOn(G, lines, p, i + 1) = [r \in 1 .. n |-> [j \in 1 .. w |->
                IF r = 1 /\ j <= i + 1 THEN p[j] ELSE G[r][j]]]
    BY <2>1, <2>2, Zenon DEF SpilledOn
  <2>5. H[1] = [j \in 1 .. w |-> IF j <= i THEN p[j] ELSE G[1][j]]
    BY <2>1, <2>3
  <2>6. [H[1] EXCEPT ![i + 1] = b] =
            [j \in 1 .. w |-> IF j <= i + 1 THEN p[j] ELSE G[1][j]]
    BY <1>2, <2>2, <2>5
  <2>7. \A r \in 1 .. n : r # 1 => H[r] = [j \in 1 .. w |-> G[r][j]]
    BY <2>3
  <2>8. [H EXCEPT ![1][i + 1] = b] = [H EXCEPT ![1] = [H[1] EXCEPT ![i + 1] = b]]
    OBVIOUS
  <2>9. DOMAIN H = 1 .. n /\ H = [r \in 1 .. n |-> H[r]]
    BY <2>3
  <2>10. \A r \in 1 .. n : [H EXCEPT ![1] = [H[1] EXCEPT ![i + 1] = b]][r] =
             [j \in 1 .. w |-> IF r = 1 /\ j <= i + 1 THEN p[j] ELSE G[r][j]]
    <3>1. PICK row : row = [H[1] EXCEPT ![i + 1] = b]
      OBVIOUS
    <3>2. ASSUME NEW r \in 1 .. n, r = 1
          PROVE  [H EXCEPT ![1] = row][r] =
                     [j \in 1 .. w |-> IF r = 1 /\ j <= i + 1 THEN p[j] ELSE G[r][j]]
      BY <2>1, <2>6, <2>9, <3>1, <3>2
    <3>3. ASSUME NEW r \in 1 .. n, r # 1
          PROVE  [H EXCEPT ![1] = row][r] =
                     [j \in 1 .. w |-> IF r = 1 /\ j <= i + 1 THEN p[j] ELSE G[r][j]]
      BY <2>7, <2>9, <3>3
    <3> QED
      BY <3>1, <3>2, <3>3
  <2> QED
    BY <2>4, <2>8, <2>9, <2>10
<1>12. Kept(c, e)
  BY <1>1, <1>4, Zenon DEF Kept
<1>13. Spilling(c, e, lines, p, i + 1)
  BY <1>4, <1>5, <1>9, <1>10, <1>11, <1>12, Zenon DEF Spilling
<1> QED
  BY <1>2, <1>3, <1>13

(* A ninth character: the first eight cells, and nothing else.             *)
LEMMA NinthCharPage ==
    ASSUME NEW lines \in {1, 2, 4}, NEW c, Ready(c, lines), NEW p \in [1 .. 8 -> Codes]
    PROVE  /\ Ready(CreateChar(c, 8, p), lines)
           /\ Kept(c, CreateChar(c, 8, p))
           /\ PlaceOf(CreateChar(c, 8, p).addr, lines) = PlaceOf(c.addr, lines)
           /\ GlassOf(CreateChar(c, 8, p), lines) =
                  SpilledOn(GlassOf(c, lines), lines, p, 8)
<1>1. Idle(c)
  BY Zenon DEF Ready
<1>2. PICK r, k : IsAt(lines, c.addr, r, k)
  BY Zenon DEF Ready
<1>3. PICK d : d = Raw(c, 0, 64 + 8 * 8) /\ Spilling(c, d, lines, p, 0)
  BY SpillingStarts
<1>4. d \in Controllers
  BY <1>3, Zenon DEF Spilling, Ready, Idle
<1>5. PICK m \in Nat : m = 8 /\ m \in 0 .. 8
  OBVIOUS
<1>6. PICK f : RowsWritten(f, d, p) /\ CreateChar(c, m, p) = PosRaw(f[8], c.addr)
  BY <1>1, <1>3, <1>4, <1>5, CreateCharRuns
<1> DEFINE T == {i \in 0 .. m : Spilling(c, f[i], lines, p, i)}
<1>7. 0 \in T
  BY <1>3, <1>6 DEF RowsWritten
<1>8. ASSUME NEW i \in 0 .. m, i < m, i \in T PROVE i + 1 \in T
  <2>1. i + 1 \in 1 .. 8 /\ (i + 1) - 1 = i /\ i + 1 \in 0 .. m /\ i \in 0 .. 8 /\ i < 8
    BY <1>5, <1>8
  <2>2. Spilling(c, f[i], lines, p, i)
    BY <1>8
  <2>3. f[i + 1] = Putc(f[i], p[i + 1])
    BY <1>6, <2>1 DEF RowsWritten
  <2>4. Spilling(c, Putc(f[i], p[i + 1]), lines, p, i + 1)
    BY <2>1, <2>2, SpillingGoesOn
  <2> QED
    BY <2>1, <2>3, <2>4
<1> HIDE DEF T
<1>9. \A i \in 0 .. m : i \in T
  BY <1>7, <1>8, UpTo
<1>10. 8 \in T
  BY <1>5, <1>9
<1>11. PICK e : e = f[8] /\ Spilling(c, e, lines, p, 8)
  BY <1>10 DEF T
<1>12. PICK h : h = PosRaw(e, c.addr) /\ h = CreateChar(c, 8, p)
  BY <1>5, <1>6, <1>11
<1>13. Ready(e, lines) /\ Kept(c, e)
  BY <1>11, Zenon DEF Spilling
<1>14. Arranging(e, lines)
  BY <1>13, Zenon DEF Ready, Arranging
<1>15. /\ Ready(h, lines)
       /\ PageOf(h, lines) = [rows |-> GlassOf(e, lines), at |-> <<r, k + 1>>]
       /\ Kept(e, h)
  <2>1. h = PosRaw(e, c.addr)
    BY <1>12
  <2>2. Ready(h, lines)
    BY <1>2, <1>14, <2>1, PosPage
  <2>3. PageOf(h, lines) = [rows |-> GlassOf(e, lines), at |-> <<r, k + 1>>]
    BY <1>2, <1>14, <2>1, PosPage
  <2>4. Kept(e, h)
    BY <1>2, <1>14, <2>1, PosPage
  <2> QED
    BY <2>2, <2>3, <2>4
<1>16. GlassOf(h, lines) = GlassOf(e, lines) /\ PlaceOf(h.addr, lines) = <<r, k + 1>>
  BY <1>15, PageParts
<1>17. PlaceOf(c.addr, lines) = <<r, k + 1>>
  BY <1>2, AtIs
<1>18. GlassOf(e, lines) = SpilledOn(GlassOf(c, lines), lines, p, 8)
  BY <1>11, Zenon DEF Spilling
<1>19. Kept(c, h)
  BY <1>13, <1>15, Zenon DEF Kept
<1> QED
  BY <1>12, <1>15, <1>16, <1>17, <1>18, <1>19

(* lcd_clear *)
LEMMA ClearPage ==
    ASSUME NEW lines \in {1, 2, 4}, NEW c, Idle(c), c.two <=> lines > 1
    PROVE  /\ Ready(Raw(c, 0, 1), lines)
           /\ PageOf(Raw(c, 0, 1), lines) = EmptyPage(lines)
           /\ Kept(c, Raw(c, 0, 1))
<1>1. PICK d : d = [c EXCEPT !.text = Blank, !.addr = 0, !.right = TRUE,
                             !.shift = 0, !.cg = FALSE]
  OBVIOUS
<1>2. Raw(c, 0, 1) = d
  <2>1. Raw(c, 0, 1) = Command(c, 1)
    <3>1. 1 \in Codes
      BY DEF Codes
    <3> QED
      BY <3>1, CommandIs
  <2>2. Command(c, 1) = d
    BY <1>1 DEF Command
  <2> QED
    BY <2>1, <2>2
<1>3. c \in Controllers /\ c.bits = 4 /\ c.upper = -1
  BY DEF Idle
<1>4. Blank \in [0 .. 79 -> 0 .. 255] /\ \A x \in 0 .. 79 : Blank[x] = Space
  BY DEF Blank, Space
<1>5. /\ d \in Controllers /\ d.bits = 4 /\ d.upper = -1 /\ d.two = c.two /\ d.right = TRUE
      /\ d.cg = FALSE /\ d.addr = 0 /\ d.text = Blank /\ Kept(c, d)
  <2>1. 0 \in 0 .. 127 /\ 0 \in 0 .. 39
    OBVIOUS
  <2>2. d \in Controllers
    <3>1. Command(c, 1) = d
      BY <1>1 DEF Command
    <3>2. 1 \in 0 .. 255
      OBVIOUS
    <3> QED
      BY <1>3, <3>1, <3>2, CommandType
  <2>3. /\ d.bits = 4 /\ d.upper = -1 /\ d.two = c.two /\ d.right = TRUE
        /\ d.cg = FALSE /\ d.addr = 0 /\ d.text = Blank
    BY <1>1, <1>3 DEF Controllers
  <2>4. d.look = c.look /\ d.glyphs = c.glyphs
    BY <1>1, <1>3 DEF Controllers
  <2> QED
    BY <2>2, <2>3, <2>4 DEF Kept
<1>6. d.two <=> lines > 1
  BY <1>5
<1>7. Ready(d, lines)
  BY <1>5, <1>6, AtStart, Zenon DEF Ready, Idle
<1>8. ASSUME NEW r \in 1 .. lines, NEW j \in 1 .. Width(lines)
      PROVE  GlassOf(d, lines)[r][j] = Space
  <2>1. PICK s, x : Lies(lines, r, s, x)
    BY RowLies
  <2>2. GlassOf(d, lines)[r][j] = d.text[x + (j - 1)] /\ x + (j - 1) \in 0 .. 79
    BY <1>6, <2>1, GlassIs
  <2> QED
    BY <1>4, <1>5, <2>2, Zenon
<1>9. GlassOf(d, lines) = [r \in 1 .. lines |-> [j \in 1 .. Width(lines) |-> Space]]
  <2>1. PICK G : G = GlassOf(d, lines)
    OBVIOUS
  <2>2. G = [r \in 1 .. lines |-> [j \in 1 .. Width(lines) |-> G[r][j]]]
    BY <2>1 DEF GlassOf
  <2>3. \A r \in 1 .. lines : \A j \in 1 .. Width(lines) : G[r][j] = Space
    BY <1>8, <2>1
  <2> QED
    BY <2>1, <2>2, <2>3
<1>10. PageOf(d, lines) = EmptyPage(lines)
  BY <1>5, <1>9, AtStart, Zenon DEF PageOf, EmptyPage
<1> QED
  BY <1>2, <1>5, <1>7, <1>10

(* lcd_home *)
LEMMA HomePage ==
    ASSUME NEW lines \in {1, 2, 4}, NEW c, Arranging(c, lines)
    PROVE  /\ Ready(Raw(c, 0, 2), lines)
           /\ PageOf(Raw(c, 0, 2), lines) = [rows |-> GlassOf(c, lines), at |-> <<1, 1>>]
           /\ Kept(c, Raw(c, 0, 2))
<1>1. PICK d : d = [c EXCEPT !.addr = 0, !.shift = 0, !.cg = FALSE]
  OBVIOUS
<1>2. Idle(c) /\ (c.two <=> lines > 1) /\ c.right = TRUE
  BY Zenon DEF Arranging
<1>3. Raw(c, 0, 2) = d
  <2>1. Raw(c, 0, 2) = Command(c, 2)
    <3>1. 2 \in Codes
      BY DEF Codes
    <3> QED
      BY <1>2, <3>1, CommandIs
  <2>2. Command(c, 2) = d
    BY <1>1 DEF Command
  <2> QED
    BY <2>1, <2>2
<1>4. c \in Controllers /\ c.bits = 4 /\ c.upper = -1
  BY <1>2 DEF Idle
<1>5. /\ d \in Controllers /\ d.bits = 4 /\ d.upper = -1 /\ d.two = c.two /\ d.right = TRUE
      /\ d.cg = FALSE /\ d.addr = 0 /\ d.text = c.text /\ Kept(c, d)
  <2>2. d \in Controllers
    <3>1. Command(c, 2) = d
      BY <1>1 DEF Command
    <3>2. 2 \in 0 .. 255
      OBVIOUS
    <3> QED
      BY <1>4, <3>1, <3>2, CommandType
  <2>3. /\ d.bits = 4 /\ d.upper = -1 /\ d.two = c.two /\ d.right = c.right
        /\ d.cg = FALSE /\ d.addr = 0 /\ d.text = c.text
    BY <1>1, <1>4 DEF Controllers
  <2>4. d.look = c.look /\ d.glyphs = c.glyphs
    BY <1>1, <1>4 DEF Controllers
  <2> QED
    BY <1>2, <2>2, <2>3, <2>4 DEF Kept
<1>6. d.two <=> lines > 1
  BY <1>2, <1>5
<1>7. Ready(d, lines)
  BY <1>5, <1>6, AtStart, Zenon DEF Ready, Idle
<1>8. GlassOf(d, lines) = GlassOf(c, lines)
  BY <1>5, SameGlass
<1>9. PageOf(d, lines) = [rows |-> GlassOf(c, lines), at |-> <<1, 1>>]
  BY <1>5, <1>8, AtStart, Zenon DEF PageOf
<1> QED
  BY <1>3, <1>5, <1>7, <1>9

(* The bits of display_set are sent.                                       *)
LEMMA LookIs ==
    ASSUME NEW c, Idle(c), NEW v \in 0 .. 7
    PROVE  Raw(c, 0, 8 + v) = [c EXCEPT !.look = v]
<1>1. PICK b \in 8 .. 15 : b = 8 + v
  OBVIOUS
<1>2. b \in Codes /\ b - 8 = v
  BY <1>1 DEF Codes
<1>3. Raw(c, 0, b) = Command(c, b)
  BY <1>2, CommandIs
<1>4. Command(c, b) = [c EXCEPT !.look = b - 8]
  <2>1. /\ b \in Int /\ ~(b >= 128) /\ ~(b \in 64 .. 127) /\ ~(b \in 32 .. 63)
        /\ ~(b \in 16 .. 31)
    BY <1>1
  <2> QED
    BY <2>1 DEF Command
<1> QED
  BY <1>1, <1>2, <1>3, <1>4

(* They change nothing else of the controller.                             *)
LEMMA LookPage ==
    ASSUME NEW c, Idle(c), NEW v \in 0 .. 7
    PROVE  /\ Idle(Raw(c, 0, 8 + v))
           /\ Raw(c, 0, 8 + v).look = v
           /\ Raw(c, 0, 8 + v).glyphs = c.glyphs
           /\ Raw(c, 0, 8 + v).addr = c.addr
           /\ Raw(c, 0, 8 + v).text = c.text
           /\ Raw(c, 0, 8 + v).two = c.two
           /\ Raw(c, 0, 8 + v).right = c.right
           /\ Raw(c, 0, 8 + v).cg = c.cg
<1>1. PICK d : d = [c EXCEPT !.look = v]
  OBVIOUS
<1>2. Raw(c, 0, 8 + v) = d
  BY <1>1, LookIs
<1>3. c \in Controllers /\ c.bits = 4 /\ c.upper = -1
  BY DEF Idle
<1>4. /\ d \in Controllers /\ d.bits = 4 /\ d.upper = -1 /\ d.two = c.two /\ d.right = c.right
      /\ d.cg = c.cg /\ d.addr = c.addr /\ d.text = c.text /\ d.look = v /\ d.glyphs = c.glyphs
  BY <1>1, <1>3 DEF Controllers
<1> QED
  BY <1>2, <1>4 DEF Idle

(* Nor of the page. *)
LEMMA LookReady ==
    ASSUME NEW lines \in {1, 2, 4}, NEW c, Ready(c, lines), NEW v \in 0 .. 7
    PROVE  /\ Ready(Raw(c, 0, 8 + v), lines)
           /\ PageOf(Raw(c, 0, 8 + v), lines) = PageOf(c, lines)
<1>1. Idle(c) /\ (c.two <=> lines > 1) /\ c.right = TRUE /\ c.cg = FALSE
  BY Zenon DEF Ready
<1>2. PICK d : d = Raw(c, 0, 8 + v)
  OBVIOUS
<1>3. /\ Idle(d) /\ d.addr = c.addr /\ d.text = c.text /\ d.two = c.two /\ d.right = c.right
      /\ d.cg = c.cg
  BY <1>1, <1>2, LookPage
<1>4. d.two <=> lines > 1
  BY <1>1, <1>3
<1>5. \E r, k : IsAt(lines, d.addr, r, k)
  BY <1>3, Zenon DEF Ready
<1>6. Ready(d, lines)
  BY <1>1, <1>3, <1>4, <1>5, Zenon DEF Ready
<1>7. PageOf(d, lines) = PageOf(c, lines)
  BY <1>3, SameGlass, Zenon DEF PageOf
<1> QED
  BY <1>2, <1>6, <1>7

(* lcd_create: the commands of lcd_init in their order.                    *)
LEMMA FunctionSetIs ==
    ASSUME NEW c, Idle(c), NEW lines \in {1, 2, 4}
    PROVE  /\ Idle(Raw(c, 0, IF lines > 1 THEN 40 ELSE 32))
           /\ Raw(c, 0, IF lines > 1 THEN 40 ELSE 32).two <=> lines > 1
<1>1. PICK b \in {40, 32} : b = IF lines > 1 THEN 40 ELSE 32
  OBVIOUS
<1>2. b \in Codes
  BY DEF Codes
<1>3. PICK t \in BOOLEAN : t = Bit(b, 8)
  BY DEF Bit
<1>4. ~Bit(b, 16) /\ (t <=> lines > 1)
  <2>1. ~Bit(40, 16) /\ ~Bit(32, 16) /\ Bit(40, 8) /\ ~Bit(32, 8)
    BY DEF Bit
  <2>2. CASE lines > 1
    <3>1. b = 40
      BY <1>1, <2>2
    <3> QED
      BY <1>3, <2>1, <2>2, <3>1
  <2>3. CASE ~(lines > 1)
    <3>1. b = 32
      BY <1>1, <2>3
    <3> QED
      BY <1>3, <2>1, <2>3, <3>1
  <2> QED
    BY <2>2, <2>3
<1>5. PICK d : d = [c EXCEPT !.bits = 4, !.two = t]
  OBVIOUS
<1>6. Raw(c, 0, b) = d
  <2>1. Raw(c, 0, b) = Command(c, b)
    BY <1>2, CommandIs
  <2>2. Command(c, b) = [c EXCEPT !.bits = IF Bit(b, 16) THEN 8 ELSE 4, !.two = Bit(b, 8)]
    BY DEF Command
  <2> QED
    BY <1>3, <1>4, <1>5, <2>1, <2>2
<1>7. c \in Controllers /\ c.upper = -1
  BY DEF Idle
<1>8. d \in Controllers /\ d.bits = 4 /\ d.upper = -1 /\ d.two = t
  BY <1>5, <1>7 DEF Controllers
<1> QED
  BY <1>1, <1>4, <1>6, <1>8 DEF Idle

(* The next command, 0x10, shifts the cursor ...                           *)
LEMMA CursorMoveIs ==
    ASSUME NEW c, Idle(c)
    PROVE  Idle(Raw(c, 0, 16)) /\ Raw(c, 0, 16).two = c.two
<1>1. PICK b : b = 16
  OBVIOUS
<1>2. b \in Codes /\ b \in 0 .. 255
  BY <1>1 DEF Codes
<1>3. c \in Controllers /\ c.bits = 4 /\ c.upper = -1
  BY DEF Idle
<1>4. Raw(c, 0, b) = Command(c, b) /\ Command(c, b) \in Controllers
  BY <1>2, <1>3, CommandIs, CommandType
<1>5. Command(c, b).bits = 4 /\ Command(c, b).upper = -1
  <2>1. Interface(c) /\ ~(b \in 32 .. 63)
    BY <1>1, <1>3, ControllersHaveInterface
  <2> QED
    <3>1. b \in 0 .. 255 /\ ~(b \in 32 .. 63)
      BY <1>2, <2>1
    <3>2. Command(c, b).upper = c.upper
      BY <2>1, <3>1, CommandMode
    <3>3. ~(b \in 32 .. 63) => Command(c, b).bits = c.bits
      BY <2>1, <3>1, CommandMode
    <3> QED
      BY <1>3, <3>1, <3>2, <3>3
<1>6. Command(c, b).two = c.two
  BY <1>1, <1>3, CursorMove
<1> QED
  BY <1>1, <1>4, <1>5, <1>6 DEF Idle

(* ... and entry mode makes it move to the right.                          *)
LEMMA EntryModeIs ==
    ASSUME NEW c, Idle(c)
    PROVE  Idle(Raw(c, 0, 4)) /\ Raw(c, 0, 4).two = c.two /\ Raw(c, 0, 4).look = c.look
<1>1. PICK b : b = 4
  OBVIOUS
<1>2. b \in Codes /\ b \in 0 .. 255
  BY <1>1 DEF Codes
<1>3. c \in Controllers /\ c.bits = 4 /\ c.upper = -1
  BY DEF Idle
<1>4. Raw(c, 0, b) = Command(c, b) /\ Command(c, b) \in Controllers
  BY <1>2, <1>3, CommandIs, CommandType
<1>5. Command(c, b).bits = 4 /\ Command(c, b).upper = -1
  <2>1. Interface(c) /\ ~(b \in 32 .. 63)
    BY <1>1, <1>3, ControllersHaveInterface
  <2> QED
    <3>1. b \in 0 .. 255 /\ ~(b \in 32 .. 63)
      BY <1>2, <2>1
    <3>2. Command(c, b).upper = c.upper
      BY <2>1, <3>1, CommandMode
    <3>3. ~(b \in 32 .. 63) => Command(c, b).bits = c.bits
      BY <2>1, <3>1, CommandMode
    <3> QED
      BY <1>3, <3>1, <3>2, <3>3
<1>6. Command(c, b).two = c.two /\ Command(c, b).look = c.look
  BY <1>1, <1>3, EntryMode
<1> QED
  BY <1>1, <1>4, <1>5, <1>6 DEF Idle

(* All of lcd_create: the display is on and empty, the cursor at the       *)
(* start.                                                                  *)
LEMMA ConfiguredPage ==
    ASSUME NEW lines \in {1, 2, 4}
    PROVE  /\ Ready(Configured(lines), lines)
           /\ PageOf(Configured(lines), lines) = EmptyPage(lines)
           /\ Configured(lines).look = 4
<1>1. PICK function : function = Raw(AfterReset, 0, IF lines > 1 THEN 40 ELSE 32)
  OBVIOUS
<1>2. PICK cursorMove : cursorMove = Raw(function, 0, 16)
  OBVIOUS
<1>3. PICK display : display = Raw(cursorMove, 0, 12)
  OBVIOUS
<1>4. PICK entryMode : entryMode = Raw(display, 0, 4)
  OBVIOUS
<1>5. PICK cleared : cleared = Raw(entryMode, 0, 1)
  OBVIOUS
<1>6. PICK home : home = Raw(cleared, 0, 2)
  OBVIOUS
<1>7. Configured(lines) = home
  BY <1>1, <1>2, <1>3, <1>4, <1>5, <1>6, Zenon DEF Configured
<1>8. Idle(AfterReset)
  BY DEF Idle, AfterReset, Controllers
<1>9. Idle(function) /\ (function.two <=> lines > 1)
  BY <1>1, <1>8, FunctionSetIs
<1>10. Idle(cursorMove) /\ (cursorMove.two <=> lines > 1)
  BY <1>2, <1>9, CursorMoveIs
<1>11. Idle(display) /\ (display.two <=> lines > 1) /\ display.look = 4
  <2>1. display = Raw(cursorMove, 0, 8 + 4) /\ 4 \in 0 .. 7
    BY <1>3
  <2>2. Idle(display) /\ display.two = cursorMove.two /\ display.look = 4
    BY <1>10, <2>1, LookPage
  <2> QED
    BY <1>10, <2>2
<1>12. Idle(entryMode) /\ (entryMode.two <=> lines > 1) /\ entryMode.look = 4
  BY <1>4, <1>11, EntryModeIs
<1>13. /\ Ready(cleared, lines) /\ PageOf(cleared, lines) = EmptyPage(lines)
       /\ Kept(entryMode, cleared)
  BY <1>5, <1>12, ClearPage
<1>14. Arranging(cleared, lines)
  BY <1>13, Zenon DEF Ready, Arranging
<1>15. /\ Ready(home, lines) /\ Kept(cleared, home)
       /\ PageOf(home, lines) = [rows |-> GlassOf(cleared, lines), at |-> <<1, 1>>]
  BY <1>6, <1>14, HomePage
<1>16. PageOf(home, lines) = EmptyPage(lines)
  <2>1. PICK p, q : p = PageOf(cleared, lines) /\ q = EmptyPage(lines)
    OBVIOUS
  <2>2. p.rows = GlassOf(cleared, lines)
    BY <2>1 DEF PageOf
  <2>3. q = [rows |-> q.rows, at |-> <<1, 1>>]
    BY <2>1 DEF EmptyPage
  <2> QED
    BY <1>13, <1>15, <2>1, <2>2, <2>3, Zenon
<1>17. home.look = 4
  BY <1>12, <1>13, <1>15, Zenon DEF Kept
<1> QED
  BY <1>7, <1>15, <1>16, <1>17

(* lcd_reset at the end: the text, the cursor and the characters stay.     *)
LEMMA ResetIs ==
    ASSUME NEW c, Idle(c)
    PROVE  /\ Reset(c) \in Controllers
           /\ Reset(c).addr = c.addr /\ Kept(c, Reset(c))
<1>1. c \in Controllers /\ c.bits = 4 /\ c.upper = -1
  BY DEF Idle
<1>2. PICK d : d = [c EXCEPT !.upper = 3]
  OBVIOUS
<1>3. Strobe(c, 0, 3) = d
  BY <1>1, <1>2 DEF Strobe
<1>4. d.bits = 4 /\ d.upper = 3 /\ [d EXCEPT !.upper = -1] = c
  BY <1>1, <1>2 DEF Controllers
<1>5. ASSUME NEW e \in Controllers, NEW b \in 32 .. 63
      PROVE  /\ Command(e, b) \in Controllers
             /\ Command(e, b).bits = IF Bit(b, 16) THEN 8 ELSE 4
             /\ Command(e, b).addr = e.addr /\ Kept(e, Command(e, b))
  <2>1. PICK w \in {4, 8} : w = IF Bit(b, 16) THEN 8 ELSE 4
    OBVIOUS
  <2>2. PICK t : t = Bit(b, 8)
    OBVIOUS
  <2>3. PICK f : f = [e EXCEPT !.bits = w, !.two = t]
    OBVIOUS
  <2>4. Command(e, b) = f
    <3>1. b \in Int /\ ~(b >= 128) /\ ~(b \in 64 .. 127)
      OBVIOUS
    <3> QED
      BY <2>1, <2>2, <2>3, <3>1 DEF Command
  <2>5. f.bits = w /\ f.addr = e.addr /\ Kept(e, f)
    BY <2>3 DEF Controllers, Kept
  <2>6. Command(e, b) \in Controllers
    <3>1. b \in 0 .. 255
      OBVIOUS
    <3> QED
      BY <3>1, CommandType
  <2> QED
    BY <2>1, <2>4, <2>5, <2>6
<1>6. PICK f : f = Command(c, 51) /\ f \in Controllers /\ f.bits = 8 /\ f.addr = c.addr /\ Kept(c, f)
  <2>1. 51 \in 32 .. 63 /\ Bit(51, 16)
    BY DEF Bit
  <2> QED
    BY <1>1, <1>5, <2>1
<1>7. Strobe(d, 0, 3) = f
  BY <1>4, <1>6 DEF Strobe, Execute
<1>8. PICK g : g = Command(f, 48) /\ g \in Controllers /\ g.bits = 8 /\ g.addr = f.addr /\ Kept(f, g)
  <2>1. 48 \in 32 .. 63 /\ Bit(48, 16)
    BY DEF Bit
  <2> QED
    BY <1>5, <1>6, <2>1
<1>9. Strobe(f, 0, 3) = g
  BY <1>6, <1>8 DEF Strobe, Execute
<1>10. PICK h : h = Command(g, 32) /\ h \in Controllers /\ h.addr = g.addr /\ Kept(g, h)
  <2>1. 32 \in 32 .. 63
    OBVIOUS
  <2> QED
    BY <1>5, <1>8, <2>1
<1>11. Strobe(g, 0, 2) = h
  BY <1>8, <1>10 DEF Strobe, Execute
<1>12. Reset(c) = h
  BY <1>3, <1>7, <1>9, <1>11, Zenon DEF Reset
<1> QED
  BY <1>6, <1>8, <1>10, <1>12, Zenon DEF Kept

-------------------------------------------------------------------------------
(* The library as TextScreen. *)

(* The variables of TextScreen.                                            *)
GlassShown(l, c) ==
    [r \in 1 .. l.lines |-> [j \in 1 .. Width(l.lines) |->
        IF l.live THEN c.text[Cell(c, RowStart(l.lines)[r] + j - 1)] ELSE Space]]
LookOf(c) ==
    {w \in {"text", "cursor", "blinking"} :
        Bit(c.look, CASE w = "text" -> 4 [] w = "cursor" -> 2 [] w = "blinking" -> 1)}
PicturesOf(c) == [n \in 0 .. 7 |-> [i \in 1 .. 8 |-> c.glyphs[8 * n + i - 1]]]

Printable == {Shown(t) : t \in Texts} \union {ShownBytes(t, LineSize - 1) : t \in Texts}

(* The steps of TextScreen in these terms: lcd_print, lcd_printf           *)
LEMMA IsWrite ==
    ASSUME NEW w \in Printable, NEW page,
           page = Screen!PageAfter([rows |-> GlassShown(lcd, hd),
                                    at |-> PlaceOf(hd.addr, lcd.lines)], w),
           GlassShown(lcd', hd') = page.rows,
           PlaceOf(hd'.addr, lcd'.lines) = page.at,
           LookOf(hd') = LookOf(hd), lit' = lit, PicturesOf(hd') = PicturesOf(hd), got' = got
    PROVE  Screen!Write
BY Zenon DEF Screen!Write, GlassShown, LookOf, PicturesOf, Printable

(* lcd_pos, lcd_home *)
LEMMA IsPlace ==
    ASSUME lcd.lines \in {1, 2, 4},
           NEW r \in 1 .. lcd.lines, NEW j \in 1 .. Width(lcd.lines),
           PlaceOf(hd'.addr, lcd'.lines) = <<r, j>>,
           GlassShown(lcd', hd') = GlassShown(lcd, hd),
           LookOf(hd') = LookOf(hd), lit' = lit, PicturesOf(hd') = PicturesOf(hd), got' = got
    PROVE  Screen!Place
<1>1. Screen!Rows = 1 .. lcd.lines
  BY GlassSize, Zenon DEF Screen!Rows, ScreenGlass
<1>2. Screen!Columns = 1 .. Width(lcd.lines)
  BY GlassSize, Zenon DEF Screen!Columns, ScreenGlass
<1> QED
  BY <1>1, <1>2, Zenon DEF Screen!Place, GlassShown, LookOf, PicturesOf

(* lcd_clear *)
LEMMA IsWipe ==
    ASSUME lcd.lines \in {1, 2, 4},
           PlaceOf(hd'.addr, lcd'.lines) = <<1, 1>>,
           GlassShown(lcd', hd') =
               [r \in 1 .. lcd.lines |-> [j \in 1 .. Width(lcd.lines) |-> Space]],
           LookOf(hd') = LookOf(hd), lit' = lit, PicturesOf(hd') = PicturesOf(hd), got' = got
    PROVE  Screen!Wipe
<1>1. Screen!Rows = 1 .. lcd.lines
  BY GlassSize, Zenon DEF Screen!Rows, ScreenGlass
<1>2. Screen!Columns = 1 .. Width(lcd.lines)
  BY GlassSize, Zenon DEF Screen!Columns, ScreenGlass
<1>3. [r \in Screen!Rows |-> [c \in Screen!Columns |-> Space]] =
          [r \in 1 .. lcd.lines |-> [j \in 1 .. Width(lcd.lines) |-> Space]]
  BY <1>1, <1>2
<1> QED
  BY <1>3, Zenon DEF Screen!Wipe, Screen!Start, GlassShown, LookOf, PicturesOf

(* lcd_read_data *)
LEMMA IsRead ==
    ASSUME lcd.lines \in {1, 2, 4}, NEW place, place = PlaceOf(hd.addr, lcd.lines),
           got' = GlassShown(lcd, hd)[place[1]][place[2]],
           PlaceOf(hd'.addr, lcd'.lines) = BeyondOn(lcd.lines, place),
           GlassShown(lcd', hd') = GlassShown(lcd, hd),
           LookOf(hd') = LookOf(hd), lit' = lit, PicturesOf(hd') = PicturesOf(hd)
    PROVE  Screen!Read
<1>1. Screen!Beyond(place) = BeyondOn(lcd.lines, place)
  BY ScreenBeyond
<1> QED
  BY <1>1, Zenon DEF Screen!Read, GlassShown, LookOf, PicturesOf

(* lcd_create_char *)
LEMMA IsDraw ==
    ASSUME NEW n \in 0 .. 7, NEW p \in Pictures,
           PicturesOf(hd') = [PicturesOf(hd) EXCEPT ![n] = p],
           GlassShown(lcd', hd') = GlassShown(lcd, hd),
           PlaceOf(hd'.addr, lcd'.lines) = PlaceOf(hd.addr, lcd.lines),
           LookOf(hd') = LookOf(hd), lit' = lit, got' = got
    PROVE  Screen!Draw
<1>1. n \in DOMAIN PicturesOf(hd)
  BY DEF PicturesOf
<1> QED
  BY <1>1, Zenon DEF Screen!Draw, GlassShown, LookOf, PicturesOf

LEMMA IsSpill ==
    ASSUME lcd.lines \in {1, 2, 4}, NEW p \in Pictures,
           GlassShown(lcd', hd') = SpilledOn(GlassShown(lcd, hd), lcd.lines, p, 8),
           PlaceOf(hd'.addr, lcd'.lines) = PlaceOf(hd.addr, lcd.lines),
           LookOf(hd') = LookOf(hd), lit' = lit, PicturesOf(hd') = PicturesOf(hd), got' = got
    PROVE  Screen!Spill
<1>1. Screen!Columns = 1 .. Width(lcd.lines)
  BY GlassSize, Zenon DEF Screen!Columns, ScreenGlass
<1>2. PICK G : G = GlassShown(lcd, hd)
  OBVIOUS
<1>3. PICK C : C = Screen!Columns
  OBVIOUS
<1>4. PICK n \in Nat : n = lcd.lines /\ 1 \in 1 .. n
  OBVIOUS
<1>5. G = [r \in 1 .. n |-> [j \in C |-> G[r][j]]]
  BY <1>1, <1>2, <1>3, <1>4 DEF GlassShown
<1>6. SpilledOn(G, lcd.lines, p, 8) =
          [r \in 1 .. n |-> [j \in C |-> IF r = 1 /\ j <= 8 THEN p[j] ELSE G[r][j]]]
  BY <1>1, <1>3, <1>4, Zenon DEF SpilledOn
<1>7. SpilledOn(G, lcd.lines, p, 8) =
          [G EXCEPT ![1] = [j \in C |-> IF j <= 8 THEN p[j] ELSE @[j]]]
  <2>1. DOMAIN G = 1 .. n
    BY <1>5
  <2>2. \A r \in 1 .. n : G[r] = [j \in C |-> G[r][j]]
    BY <1>5
  <2> QED
    <3>1. PICK H : H = SpilledOn(G, lcd.lines, p, 8)
      OBVIOUS
    <3>2. H = [r \in 1 .. n |-> H[r]]
      BY <1>6, <3>1
    <3>3. H[1] = [j \in C |-> IF j <= 8 THEN p[j] ELSE G[1][j]]
      BY <1>4, <1>6, <3>1
    <3>4. \A r \in 1 .. n : r # 1 => H[r] = G[r]
      BY <1>6, <2>2, <3>1
    <3> QED
      BY <1>4, <2>1, <3>1, <3>2, <3>3, <3>4
<1>8. GlassShown(lcd', hd') =
          [GlassShown(lcd, hd) EXCEPT ![1] =
              [j \in Screen!Columns |-> IF j <= 8 THEN p[j] ELSE @[j]]]
  BY <1>2, <1>3, <1>7, Zenon
<1> QED
  BY <1>8, Zenon DEF Screen!Spill, GlassShown, LookOf, PicturesOf

(* lcd_destroy *)
LEMMA IsClose ==
    ASSUME lcd.lines \in {1, 2, 4},
           GlassShown(lcd', hd') =
               [r \in 1 .. lcd.lines |-> [j \in 1 .. Width(lcd.lines) |-> Space]],
           LookOf(hd') = LookOf(hd) \ {"text"}, lit' = FALSE,
           PlaceOf(hd'.addr, lcd'.lines) = PlaceOf(hd.addr, lcd.lines),
           PicturesOf(hd') = PicturesOf(hd), got' = got
    PROVE  Screen!Close
<1>1. Screen!Rows = 1 .. lcd.lines
  BY GlassSize, Zenon DEF Screen!Rows, ScreenGlass
<1>2. Screen!Columns = 1 .. Width(lcd.lines)
  BY GlassSize, Zenon DEF Screen!Columns, ScreenGlass
<1>3. [r \in Screen!Rows |-> [c \in Screen!Columns |-> Space]] =
          [r \in 1 .. lcd.lines |-> [j \in 1 .. Width(lcd.lines) |-> Space]]
  BY <1>1, <1>2
<1> QED
  BY <1>3, Zenon DEF Screen!Close, GlassShown, LookOf, PicturesOf

(* lcd_create *)
LEMMA IsScreenInit ==
    ASSUME lcd.lines \in {1, 2, 4},
           GlassShown(lcd, hd) =
               [r \in 1 .. lcd.lines |-> [j \in 1 .. Width(lcd.lines) |-> Space]],
           PlaceOf(hd.addr, lcd.lines) = <<1, 1>>
    PROVE  Screen!ScreenInit
<1>1. Screen!Rows = 1 .. lcd.lines
  BY GlassSize, Zenon DEF Screen!Rows, ScreenGlass
<1>2. Screen!Columns = 1 .. Width(lcd.lines)
  BY GlassSize, Zenon DEF Screen!Columns, ScreenGlass
<1>3. \A r \in 1 .. lcd.lines, j \in 1 .. Width(lcd.lines) : GlassShown(lcd, hd)[r][j] = Space
  OBVIOUS
<1> QED
  BY <1>1, <1>2, <1>3, Zenon DEF Screen!ScreenInit, Screen!Start, GlassShown

(* What is switched and drawn does not change with the text.               *)
LEMMA KeptShown ==
    ASSUME NEW c, NEW d, Kept(c, d)
    PROVE  LookOf(d) = LookOf(c) /\ PicturesOf(d) = PicturesOf(c)
BY Zenon DEF Kept, LookOf, PicturesOf

(* The glass of a display that is not destroyed.                           *)
LEMMA GlassLive ==
    ASSUME NEW l, NEW c, l.live
    PROVE  GlassShown(l, c) = GlassOf(c, l.lines)
BY Zenon DEF GlassShown, GlassOf

(* Equal pages show the same. *)
LEMMA SamePage ==
    ASSUME NEW c, NEW d, NEW lines, PageOf(d, lines) = PageOf(c, lines)
    PROVE  /\ GlassOf(d, lines) = GlassOf(c, lines)
           /\ PlaceOf(d.addr, lines) = PlaceOf(c.addr, lines)
BY PageParts, Zenon

(* The three bits of display_set. *)
LEMMA BitsOf ==
    ASSUME NEW a \in {0, 1}, NEW b \in {0, 1}, NEW c \in {0, 1}
    PROVE  /\ Bit(4 * a + 2 * b + c, 4) <=> a = 1
           /\ Bit(4 * a + 2 * b + c, 2) <=> b = 1
           /\ Bit(4 * a + 2 * b + c, 1) <=> c = 1
BY DEF Bit

(* Every value of display_set is made of three bits.                       *)
LEMMA LookBits ==
    ASSUME NEW v \in 0 .. 7
    PROVE  \E a, b, c \in {0, 1} : v = 4 * a + 2 * b + c
<1>1. /\ 0 = 4 * 0 + 2 * 0 + 0 /\ 1 = 4 * 0 + 2 * 0 + 1
      /\ 2 = 4 * 0 + 2 * 1 + 0 /\ 3 = 4 * 0 + 2 * 1 + 1
      /\ 4 = 4 * 1 + 2 * 0 + 0 /\ 5 = 4 * 1 + 2 * 0 + 1
      /\ 6 = 4 * 1 + 2 * 1 + 0 /\ 7 = 4 * 1 + 2 * 1 + 1
  OBVIOUS
<1>2. v \in {0, 1, 2, 3, 4, 5, 6, 7}
  OBVIOUS
<1> QED
  BY <1>1, <1>2, Zenon

(* One bit set or cleared (LcdSwitch). *)
Switched(v, bit, on) ==
    IF Bit(v, bit) = on THEN v ELSE IF on THEN v + bit ELSE v - bit

(* Only that bit changes. *)
LEMMA SwitchedBits ==
    ASSUME NEW v \in 0 .. 7, NEW bit \in {1, 2, 4}, NEW on \in BOOLEAN
    PROVE  /\ Switched(v, bit, on) \in 0 .. 7
           /\ Bit(Switched(v, bit, on), bit) <=> on
           /\ \A other \in {1, 2, 4} : other # bit =>
                  (Bit(Switched(v, bit, on), other) <=> Bit(v, other))
<1>1. PICK a \in {0, 1}, b \in {0, 1}, c \in {0, 1} : v = 4 * a + 2 * b + c
  BY LookBits
<1>2. /\ Bit(v, 4) <=> a = 1
      /\ Bit(v, 2) <=> b = 1
      /\ Bit(v, 1) <=> c = 1
  BY <1>1, BitsOf
<1>3. \A x, y : Bit(x, y) \in BOOLEAN
  BY DEF Bit
<1>4. PICK k \in {0, 1} : (k = 1) <=> on
  <2>1. 0 \in {0, 1} /\ 1 \in {0, 1} /\ 0 # 1
    OBVIOUS
  <2>2. CASE on
    BY <2>1, <2>2
  <2>3. CASE ~on
    BY <2>1, <2>3
  <2> QED
    BY <2>2, <2>3
<1>5. CASE bit = 4
  <2>1. Switched(v, 4, on) = 4 * k + 2 * b + c
    BY <1>1, <1>2, <1>3, <1>4 DEF Switched
  <2>2. 4 * k + 2 * b + c \in 0 .. 7
    OBVIOUS
  <2>3. /\ Bit(4 * k + 2 * b + c, 4) <=> k = 1
        /\ Bit(4 * k + 2 * b + c, 2) <=> b = 1
        /\ Bit(4 * k + 2 * b + c, 1) <=> c = 1
    BY BitsOf
  <2> QED
    BY <1>2, <1>4, <1>5, <2>1, <2>2, <2>3, Zenon
<1>6. CASE bit = 2
  <2>1. Switched(v, 2, on) = 4 * a + 2 * k + c
    BY <1>1, <1>2, <1>3, <1>4 DEF Switched
  <2>2. 4 * a + 2 * k + c \in 0 .. 7
    OBVIOUS
  <2>3. /\ Bit(4 * a + 2 * k + c, 4) <=> a = 1
        /\ Bit(4 * a + 2 * k + c, 2) <=> k = 1
        /\ Bit(4 * a + 2 * k + c, 1) <=> c = 1
    BY BitsOf
  <2> QED
    BY <1>2, <1>4, <1>6, <2>1, <2>2, <2>3, Zenon
<1>7. CASE bit = 1
  <2>1. Switched(v, 1, on) = 4 * a + 2 * b + k
    BY <1>1, <1>2, <1>3, <1>4 DEF Switched
  <2>2. 4 * a + 2 * b + k \in 0 .. 7
    OBVIOUS
  <2>3. /\ Bit(4 * a + 2 * b + k, 4) <=> a = 1
        /\ Bit(4 * a + 2 * b + k, 2) <=> b = 1
        /\ Bit(4 * a + 2 * b + k, 1) <=> k = 1
    BY BitsOf
  <2> QED
    BY <1>2, <1>4, <1>7, <2>1, <2>2, <2>3, Zenon
<1> QED
  BY <1>5, <1>6, <1>7

(* The names of the bits. *)
LEMMA LookNames ==
    ASSUME NEW c
    PROVE  /\ LookOf(c) \subseteq {"text", "cursor", "blinking"}
           /\ "text" \in LookOf(c) <=> Bit(c.look, 4)
           /\ "cursor" \in LookOf(c) <=> Bit(c.look, 2)
           /\ "blinking" \in LookOf(c) <=> Bit(c.look, 1)
BY DEF LookOf

(* The name of a bit. *)
NameOf(bit) == CASE bit = 4 -> "text" [] bit = 2 -> "cursor" [] OTHER -> "blinking"

(* One bit is one thing that is on or off.                                 *)
LEMMA SwitchedLook ==
    ASSUME NEW c, NEW d, NEW bit \in {1, 2, 4}, NEW on \in BOOLEAN, c.look \in 0 .. 7,
           d.look = Switched(c.look, bit, on)
    PROVE  LookOf(d) = IF on THEN LookOf(c) \union {NameOf(bit)} ELSE LookOf(c) \ {NameOf(bit)}
<1>1. Bit(d.look, bit) <=> on
  BY SwitchedBits
<1>2. \A other \in {1, 2, 4} : other # bit => (Bit(d.look, other) <=> Bit(c.look, other))
  BY SwitchedBits
<1>3. NameOf(4) = "text" /\ NameOf(2) = "cursor" /\ NameOf(1) = "blinking"
  BY DEF NameOf
<1>4. /\ LookOf(c) \subseteq {"text", "cursor", "blinking"}
      /\ "text" \in LookOf(c) <=> Bit(c.look, 4)
      /\ "cursor" \in LookOf(c) <=> Bit(c.look, 2)
      /\ "blinking" \in LookOf(c) <=> Bit(c.look, 1)
  BY LookNames
<1>5. /\ LookOf(d) \subseteq {"text", "cursor", "blinking"}
      /\ "text" \in LookOf(d) <=> Bit(d.look, 4)
      /\ "cursor" \in LookOf(d) <=> Bit(d.look, 2)
      /\ "blinking" \in LookOf(d) <=> Bit(d.look, 1)
  BY LookNames
<1>6. CASE bit = 4
  <2>1. /\ Bit(d.look, 4) <=> on
        /\ Bit(d.look, 2) <=> Bit(c.look, 2)
        /\ Bit(d.look, 1) <=> Bit(c.look, 1)
    BY <1>1, <1>2, <1>6
  <2> QED
    BY <1>3, <1>4, <1>5, <1>6, <2>1
<1>7. CASE bit = 2
  <2>1. /\ Bit(d.look, 2) <=> on
        /\ Bit(d.look, 4) <=> Bit(c.look, 4)
        /\ Bit(d.look, 1) <=> Bit(c.look, 1)
    BY <1>1, <1>2, <1>7
  <2> QED
    BY <1>3, <1>4, <1>5, <1>7, <2>1
<1>8. CASE bit = 1
  <2>1. /\ Bit(d.look, 1) <=> on
        /\ Bit(d.look, 2) <=> Bit(c.look, 2)
        /\ Bit(d.look, 4) <=> Bit(c.look, 4)
    BY <1>1, <1>2, <1>8
  <2> QED
    BY <1>3, <1>4, <1>5, <1>8, <2>1
<1> QED
  BY <1>6, <1>7, <1>8

(* What an lcd_t may be. *)
Descriptors == [lines : Displays, look : 0 .. 7, backlight : BOOLEAN, live : BOOLEAN]

(* What holds of the program that prints text: the descriptor says what    *)
(* the controller and the light do, and as long as it is allocated the     *)
(* controller expects a whole byte, with its cursor in the text.           *)
TextInv ==
    /\ TextTypeOK
    /\ lit = lcd.backlight
    /\ lcd.live => Ready(hd, lcd.lines) /\ hd.look = lcd.look

(* What a call finds. *)
LEMMA InvGives ==
    ASSUME TextInv, lcd.live
    PROVE  /\ lcd \in Descriptors /\ lcd.lines \in {1, 2, 4} /\ lcd.look \in 0 .. 7
           /\ Ready(hd, lcd.lines) /\ Idle(hd) /\ hd.look = lcd.look /\ hd \in Controllers
           /\ lit = lcd.backlight
<1>1. Displays \subseteq {1, 2, 4}
  BY TextAssumption
<1>2. lcd \in Descriptors /\ lcd.lines \in Displays /\ lcd.look \in 0 .. 7 /\ hd \in Controllers
  BY DEF TextInv, TextTypeOK, Descriptors
<1>3. Ready(hd, lcd.lines) /\ hd.look = lcd.look /\ lit = lcd.backlight
  BY DEF TextInv
<1>4. Idle(hd)
  BY <1>3, Zenon DEF Ready
<1> QED
  BY <1>1, <1>2, <1>3, <1>4

(* A call that returns leaves the controller to the next one.              *)
LEMMA CallKeeps ==
    ASSUME TextInv, NEW c, Call(c), lcd' \in Descriptors, got' \in 0 .. 255,
           c \in Controllers,
           lcd'.live => Ready(c, lcd'.lines) /\ c.look = lcd'.look
    PROVE  TextInv' /\ hd' = c /\ lit' = lcd'.backlight
<1>1. /\ lcd.live /\ calls < MaxCalls /\ calls' = calls + 1 /\ hd' = c
      /\ lit' = lcd'.backlight
  BY DEF Call
<1>2. calls' \in 0 .. MaxCalls
  <2>1. MaxCalls \in Nat
    BY TextAssumption
  <2>2. calls \in 0 .. MaxCalls
    BY DEF TextInv, TextTypeOK
  <2> QED
    BY <1>1, <2>1, <2>2
<1>3. lit' \in BOOLEAN
  BY <1>1 DEF Descriptors
<1>4. TextTypeOK'
  BY <1>1, <1>2, <1>3 DEF TextTypeOK, Descriptors
<1>5. lcd'.live => Ready(hd', lcd'.lines) /\ hd'.look = lcd'.look
  BY <1>1
<1>6. TextInv'
  BY <1>1, <1>4, <1>5 DEF TextInv
<1> QED
  BY <1>1, <1>6

(* A controller that is ready is one. *)
LEMMA ReadyController ==
    ASSUME NEW c, NEW lines, Ready(c, lines)
    PROVE  c \in Controllers /\ Idle(c)
BY Zenon DEF Ready, Idle

(* lcd_print and lcd_printf *)
LEMMA PrintStep ==
    ASSUME TextInv, UNCHANGED <<lcd, got>>, NEW s \in Seq(Codes), Replaced(s) \in Printable,
           Call(Printed(hd, lcd.lines, s))
    PROVE  TextInv' /\ Screen!Write
<1>1. lcd.live
  BY DEF Call
<1>2. /\ lcd \in Descriptors /\ lcd.lines \in {1, 2, 4}
      /\ Ready(hd, lcd.lines) /\ hd.look = lcd.look /\ lit = lcd.backlight
  BY <1>1, InvGives
<1>3. PICK c : c = Printed(hd, lcd.lines, s)
  OBVIOUS
<1>4. PICK w : w = Replaced(s)
  OBVIOUS
<1>5. /\ Ready(c, lcd.lines) /\ Kept(hd, c)
      /\ PageOf(c, lcd.lines) = Screen!PageAfter(PageOf(hd, lcd.lines), w)
  BY <1>2, <1>3, <1>4, PrintedPage
<1>6. c \in Controllers
  BY <1>5, ReadyController
<1>7. c.look = lcd.look
  BY <1>2, <1>5, Zenon DEF Kept
<1>8. lcd' = lcd /\ got' = got
  OBVIOUS
<1>9. got' \in 0 .. 255
  BY <1>8 DEF TextInv, TextTypeOK
<1>10. TextInv' /\ hd' = c /\ lit' = lcd'.backlight
  <2>1. Call(c)
    BY <1>3
  <2>2. lcd'.live => Ready(c, lcd'.lines) /\ c.look = lcd'.look
    BY <1>5, <1>7, <1>8
  <2>3. lcd' \in Descriptors
    BY <1>2, <1>8
  <2> QED
    BY <1>6, <1>9, <2>1, <2>2, <2>3, CallKeeps
<1>11. GlassShown(lcd, hd) = GlassOf(hd, lcd.lines) /\ GlassShown(lcd, c) = GlassOf(c, lcd.lines)
  BY <1>1, GlassLive
<1>12. PICK page : page = Screen!PageAfter(PageOf(hd, lcd.lines), w)
  OBVIOUS
<1>13. page = Screen!PageAfter([rows |-> GlassShown(lcd, hd), at |-> PlaceOf(hd.addr, lcd.lines)], w)
  BY <1>11, <1>12, Zenon DEF PageOf
<1>14. GlassShown(lcd', hd') = page.rows /\ PlaceOf(hd'.addr, lcd'.lines) = page.at
  BY <1>5, <1>8, <1>10, <1>11, <1>12, PageParts, Zenon
<1>15. LookOf(hd') = LookOf(hd) /\ PicturesOf(hd') = PicturesOf(hd)
  BY <1>5, <1>10, KeptShown, Zenon
<1>16. lit' = lit
  BY <1>2, <1>8, <1>10
<1>17. w \in Printable
  BY <1>4
<1>18. Screen!Write
  BY <1>8, <1>13, <1>14, <1>15, <1>16, <1>17, IsWrite, Zenon
<1> QED
  BY <1>10, <1>18

(* lcd_print with a text, lcd_printf with as much of it as fits.           *)
LEMMA LcdPrintStep == TextInv /\ (LcdPrint \/ LcdPrintf) => TextInv' /\ Screen!Write
<1> SUFFICES ASSUME TextInv, LcdPrint \/ LcdPrintf PROVE TextInv' /\ Screen!Write
  OBVIOUS
<1>1. CASE LcdPrint
  <2>1. UNCHANGED <<lcd, got>>
    BY <1>1, Zenon DEF LcdPrint
  <2>2. PICK t \in Texts : Call(Printed(hd, lcd.lines, Bytes(t)))
    BY <1>1, Zenon DEF LcdPrint
  <2>3. Bytes(t) \in Seq(Codes)
    BY BytesType
  <2>4. Replaced(Bytes(t)) \in Printable
    BY TextShown DEF Printable
  <2> QED
    BY <2>1, <2>2, <2>3, <2>4, PrintStep
<1>2. CASE LcdPrintf
  <2>1. UNCHANGED <<lcd, got>>
    BY <1>2, Zenon DEF LcdPrintf
  <2>2. PICK t \in Texts : Call(Printed(hd, lcd.lines, Formatted(Bytes(t))))
    BY <1>2, Zenon DEF LcdPrintf
  <2>3. Formatted(Bytes(t)) \in Seq(Codes)
    BY BytesType
  <2>4. Replaced(Formatted(Bytes(t))) \in Printable
    <3>1. Replaced(Formatted(Bytes(t))) \in {Shown(t), ShownBytes(t, LineSize - 1)}
      BY CutShown
    <3> QED
      BY <3>1 DEF Printable
  <2> QED
    BY <2>1, <2>2, <2>3, <2>4, PrintStep
<1> QED
  BY <1>1, <1>2

-------------------------------------------------------------------------------
(* Each call is a step of the screen. *)

(* A call that changes neither the descriptor nor what was read.           *)
LEMMA PlainCall ==
    ASSUME TextInv, lcd' = lcd, got' = got, NEW c, Call(c),
           Ready(c, lcd.lines), c.look = lcd.look
    PROVE  /\ TextInv' /\ hd' = c /\ lit' = lit /\ lcd.live /\ lcd.lines \in {1, 2, 4}
           /\ LookOf(hd') = LookOf(hd)
           /\ GlassShown(lcd, hd) = GlassOf(hd, lcd.lines)
           /\ GlassShown(lcd', hd') = GlassOf(c, lcd.lines)
<1>1. lcd.live
  BY DEF Call
<1>2. /\ lcd \in Descriptors /\ lcd.lines \in {1, 2, 4} /\ hd.look = lcd.look
      /\ lit = lcd.backlight
  BY <1>1, InvGives
<1>3. c \in Controllers
  BY ReadyController
<1>4. got' \in 0 .. 255
  BY DEF TextInv, TextTypeOK
<1>5. lcd'.live => Ready(c, lcd'.lines) /\ c.look = lcd'.look
  BY Zenon
<1>6. lcd' \in Descriptors
  BY <1>2
<1>7. TextInv' /\ hd' = c /\ lit' = lcd'.backlight
  BY <1>3, <1>4, <1>5, <1>6, CallKeeps
<1>8. LookOf(hd') = LookOf(hd)
  BY <1>2, <1>7, Zenon DEF LookOf
<1>9. GlassShown(lcd, hd) = GlassOf(hd, lcd.lines) /\ GlassShown(lcd, c) = GlassOf(c, lcd.lines)
  BY <1>1, GlassLive
<1> QED
  BY <1>1, <1>2, <1>7, <1>8, <1>9

(* lcd_pos *)
LEMMA LcdPosStep == TextInv /\ LcdPos => TextInv' /\ Screen!Place
<1> SUFFICES ASSUME TextInv, LcdPos PROVE TextInv' /\ Screen!Place
  OBVIOUS
<1>1. lcd' = lcd /\ got' = got
  BY DEF LcdPos
<1>2. PICK row \in 0 .. lcd.lines - 1, col \in AskedColumns :
          col < Width(lcd.lines) /\ Call(Pos(hd, row, col))
  BY DEF LcdPos
<1>3. lcd.live
  BY <1>2 DEF Call
<1>4. /\ lcd.lines \in {1, 2, 4} /\ Ready(hd, lcd.lines) /\ hd.look = lcd.look
  BY <1>3, InvGives
<1>5. col \in 0 .. Width(lcd.lines) - 1 /\ col + 1 \in 1 .. Width(lcd.lines)
  <2>1. col \in Nat
    BY TextAssumption
  <2> QED
    BY <1>2, <1>4, <2>1, Widths
<1>6. row + 1 \in 1 .. lcd.lines
  BY <1>4
<1>7. PICK s, x : Lies(lcd.lines, row + 1, s, x) /\ RowStart(lcd.lines)[row + 1] = s
  BY <1>4, <1>6, RowLies
<1>8. RowsValue[row + 1] = s
  <2>1. CASE lcd.lines = 4
    BY <1>7, <2>1 DEF RowStart
  <2>2. CASE lcd.lines # 4
    <3>1. row + 1 = 1 \/ row + 1 = 2
      BY <1>4, <1>6, <2>2
    <3>2. \A i \in {1, 2} : RowStart(lcd.lines)[i] = RowsValue[i]
      BY <2>2 DEF RowStart, RowsValue
    <3> QED
      BY <1>7, <3>1, <3>2
  <2> QED
    BY <2>1, <2>2
<1>9. IsAt(lcd.lines, s + col, row + 1, col)
  BY <1>5, <1>7, Zenon DEF IsAt
<1>10. PICK c : c = PosRaw(hd, s + col)
  OBVIOUS
<1>11. Call(c)
  BY <1>2, <1>8, <1>10, Zenon DEF Pos
<1>12. Arranging(hd, lcd.lines)
  BY <1>4, Zenon DEF Ready, Arranging
<1>13. Ready(c, lcd.lines)
  BY <1>4, <1>9, <1>10, <1>12, PosPage
<1>14. PageOf(c, lcd.lines) = [rows |-> GlassOf(hd, lcd.lines), at |-> <<row + 1, col + 1>>]
  BY <1>4, <1>9, <1>10, <1>12, PosPage
<1>15. Kept(hd, c)
  BY <1>4, <1>9, <1>10, <1>12, PosPage
<1>16. c.look = lcd.look
  BY <1>4, <1>15, Zenon DEF Kept
<1>17. /\ TextInv' /\ hd' = c /\ lit' = lit /\ LookOf(hd') = LookOf(hd)
       /\ GlassShown(lcd, hd) = GlassOf(hd, lcd.lines)
       /\ GlassShown(lcd', hd') = GlassOf(c, lcd.lines)
  BY <1>1, <1>11, <1>13, <1>16, PlainCall
<1>18. GlassOf(c, lcd.lines) = GlassOf(hd, lcd.lines)
       /\ PlaceOf(c.addr, lcd.lines) = <<row + 1, col + 1>>
  <2>1. /\ PageOf(c, lcd.lines).rows = GlassOf(hd, lcd.lines)
        /\ PageOf(c, lcd.lines).at = <<row + 1, col + 1>>
    BY <1>14
  <2> QED
    BY <2>1, PageParts, Zenon
<1>19. PicturesOf(hd') = PicturesOf(hd)
  BY <1>15, <1>17, KeptShown, Zenon
<1>20. /\ PlaceOf(hd'.addr, lcd'.lines) = <<row + 1, col + 1>>
       /\ GlassShown(lcd', hd') = GlassShown(lcd, hd)
  BY <1>1, <1>17, <1>18, Zenon
<1>21. Screen!Place
  BY <1>1, <1>4, <1>5, <1>6, <1>17, <1>19, <1>20, IsPlace, Zenon
<1> QED
  BY <1>17, <1>21

(* lcd_home *)
LEMMA LcdHomeStep == TextInv /\ LcdHome => TextInv' /\ Screen!Place
<1> SUFFICES ASSUME TextInv, LcdHome PROVE TextInv' /\ Screen!Place
  OBVIOUS
<1>1. lcd' = lcd /\ got' = got
  BY DEF LcdHome
<1>2. PICK c : c = Raw(hd, 0, 2) /\ Call(c)
  BY DEF LcdHome
<1>3. lcd.live
  BY <1>2 DEF Call
<1>4. /\ lcd.lines \in {1, 2, 4} /\ Ready(hd, lcd.lines) /\ hd.look = lcd.look
  BY <1>3, InvGives
<1>5. Arranging(hd, lcd.lines)
  BY <1>4, Zenon DEF Ready, Arranging
<1>6. Ready(c, lcd.lines)
  BY <1>2, <1>4, <1>5, HomePage
<1>7. PageOf(c, lcd.lines) = [rows |-> GlassOf(hd, lcd.lines), at |-> <<1, 1>>]
  BY <1>2, <1>4, <1>5, HomePage
<1>8. Kept(hd, c)
  BY <1>2, <1>4, <1>5, HomePage
<1>9. c.look = lcd.look
  BY <1>4, <1>8, Zenon DEF Kept
<1>10. /\ TextInv' /\ hd' = c /\ lit' = lit /\ LookOf(hd') = LookOf(hd)
       /\ GlassShown(lcd, hd) = GlassOf(hd, lcd.lines)
       /\ GlassShown(lcd', hd') = GlassOf(c, lcd.lines)
  BY <1>1, <1>2, <1>6, <1>9, PlainCall
<1>11. GlassOf(c, lcd.lines) = GlassOf(hd, lcd.lines) /\ PlaceOf(c.addr, lcd.lines) = <<1, 1>>
  <2>1. /\ PageOf(c, lcd.lines).rows = GlassOf(hd, lcd.lines)
        /\ PageOf(c, lcd.lines).at = <<1, 1>>
    BY <1>7
  <2> QED
    BY <2>1, PageParts, Zenon
<1>12. PicturesOf(hd') = PicturesOf(hd)
  BY <1>8, <1>10, KeptShown, Zenon
<1>13. /\ PlaceOf(hd'.addr, lcd'.lines) = <<1, 1>>
       /\ GlassShown(lcd', hd') = GlassShown(lcd, hd)
  BY <1>1, <1>10, <1>11, Zenon
<1>14. 1 \in 1 .. lcd.lines /\ 1 \in 1 .. Width(lcd.lines)
  BY <1>4, Widths
<1>15. Screen!Place
  BY <1>1, <1>4, <1>10, <1>12, <1>13, <1>14, IsPlace, Zenon
<1> QED
  BY <1>10, <1>15

(* lcd_clear *)
LEMMA LcdClearStep == TextInv /\ LcdClear => TextInv' /\ Screen!Wipe
<1> SUFFICES ASSUME TextInv, LcdClear PROVE TextInv' /\ Screen!Wipe
  OBVIOUS
<1>1. lcd' = lcd /\ got' = got
  BY DEF LcdClear
<1>2. PICK c : c = Raw(hd, 0, 1) /\ Call(c)
  BY DEF LcdClear
<1>3. lcd.live
  BY <1>2 DEF Call
<1>4. /\ lcd.lines \in {1, 2, 4} /\ Ready(hd, lcd.lines) /\ Idle(hd) /\ hd.look = lcd.look
      /\ (hd.two <=> lcd.lines > 1)
  BY <1>3, InvGives DEF Ready
<1>5. Ready(c, lcd.lines)
  BY <1>2, <1>4, ClearPage
<1>6. PageOf(c, lcd.lines) = EmptyPage(lcd.lines)
  BY <1>2, <1>4, ClearPage
<1>7. Kept(hd, c)
  BY <1>2, <1>4, ClearPage
<1>8. c.look = lcd.look
  BY <1>4, <1>7, Zenon DEF Kept
<1>9. /\ TextInv' /\ hd' = c /\ lit' = lit /\ LookOf(hd') = LookOf(hd)
      /\ GlassShown(lcd', hd') = GlassOf(c, lcd.lines)
  BY <1>1, <1>2, <1>5, <1>8, PlainCall
<1>10. /\ GlassOf(c, lcd.lines) =
              [r \in 1 .. lcd.lines |-> [j \in 1 .. Width(lcd.lines) |-> Space]]
       /\ PlaceOf(c.addr, lcd.lines) = <<1, 1>>
  <2>1. /\ EmptyPage(lcd.lines).rows =
               [r \in 1 .. lcd.lines |-> [j \in 1 .. Width(lcd.lines) |-> Space]]
        /\ EmptyPage(lcd.lines).at = <<1, 1>>
    BY DEF EmptyPage
  <2> QED
    BY <1>6, <2>1, PageParts, Zenon
<1>11. PicturesOf(hd') = PicturesOf(hd)
  BY <1>7, <1>9, KeptShown, Zenon
<1>12. /\ PlaceOf(hd'.addr, lcd'.lines) = <<1, 1>>
       /\ GlassShown(lcd', hd') =
              [r \in 1 .. lcd.lines |-> [j \in 1 .. Width(lcd.lines) |-> Space]]
  BY <1>1, <1>9, <1>10, Zenon
<1>13. Screen!Wipe
  BY <1>1, <1>4, <1>9, <1>11, <1>12, IsWipe, Zenon
<1> QED
  BY <1>9, <1>13

(* lcd_create_char with the number of a character.                         *)
LEMMA DrawStep ==
    ASSUME TextInv, lcd' = lcd, got' = got, NEW n \in 0 .. 7, NEW p \in Pictures,
           Call(CreateChar(hd, n, p))
    PROVE  TextInv' /\ Screen!Draw
<1>1. lcd' = lcd /\ got' = got
  OBVIOUS
<1>2. Call(CreateChar(hd, n, p))
  OBVIOUS
<1>3. n \in 0 .. 7 /\ p \in [1 .. 8 -> Codes]
  BY TextAssumption DEF Codes
<1>4. PICK c : c = CreateChar(hd, n, p)
  OBVIOUS
<1>5. lcd.live
  BY <1>2 DEF Call
<1>6. /\ lcd.lines \in {1, 2, 4} /\ Ready(hd, lcd.lines) /\ hd.look = lcd.look
  BY <1>5, InvGives
<1>7. /\ Ready(c, lcd.lines) /\ PageOf(c, lcd.lines) = PageOf(hd, lcd.lines) /\ c.look = hd.look
      /\ \A x \in 0 .. 63 : c.glyphs[x] =
             IF 8 * n <= x /\ x < 8 * n + 8 THEN p[x - 8 * n + 1] ELSE hd.glyphs[x]
  <2>1. Ready(hd, lcd.lines) /\ lcd.lines \in {1, 2, 4}
    BY <1>6
  <2> QED
    BY <1>3, <1>4, <2>1, CreateCharPage
<1>8. /\ TextInv' /\ hd' = c /\ lit' = lit /\ LookOf(hd') = LookOf(hd)
      /\ GlassShown(lcd, hd) = GlassOf(hd, lcd.lines)
      /\ GlassShown(lcd', hd') = GlassOf(c, lcd.lines)
  <2>1. Call(c) /\ c.look = lcd.look
    BY <1>2, <1>4, <1>6, <1>7
  <2> QED
    BY <1>1, <1>7, <2>1, PlainCall
<1>9. /\ GlassOf(c, lcd.lines) = GlassOf(hd, lcd.lines)
      /\ PlaceOf(c.addr, lcd.lines) = PlaceOf(hd.addr, lcd.lines)
  BY <1>7, SamePage
<1>10. PicturesOf(c) = [PicturesOf(hd) EXCEPT ![n] = p]
  <2>1. ASSUME NEW m \in 0 .. 7, NEW i \in 1 .. 8
        PROVE  c.glyphs[8 * m + i - 1] = IF m = n THEN p[i] ELSE hd.glyphs[8 * m + i - 1]
    <3>1. PICK x \in 0 .. 63 : x = 8 * m + i - 1
      OBVIOUS
    <3>2. c.glyphs[x] = IF 8 * n <= x /\ x < 8 * n + 8 THEN p[x - 8 * n + 1] ELSE hd.glyphs[x]
      BY <1>7
    <3>3. CASE m = n
      <4>1. 8 * n <= x /\ x < 8 * n + 8 /\ x - 8 * n + 1 = i
        BY <1>3, <3>1, <3>3
      <4> QED
        BY <3>1, <3>2, <3>3, <4>1
    <3>4. CASE m # n
      <4>1. ~(8 * n <= x /\ x < 8 * n + 8)
        BY <1>3, <3>1, <3>4
      <4> QED
        BY <3>1, <3>2, <3>4, <4>1
    <3> QED
      BY <3>3, <3>4
  <2>2. p = [i \in 1 .. 8 |-> p[i]]
    BY <1>3
  <2>3. ASSUME NEW m \in 0 .. 7
        PROVE  PicturesOf(c)[m] = IF m = n THEN p ELSE PicturesOf(hd)[m]
    <3>1. PicturesOf(c)[m] = [i \in 1 .. 8 |-> c.glyphs[8 * m + i - 1]]
      BY DEF PicturesOf
    <3>2. PicturesOf(hd)[m] = [i \in 1 .. 8 |-> hd.glyphs[8 * m + i - 1]]
      BY DEF PicturesOf
    <3>3. CASE m = n
      BY <2>1, <2>2, <3>1, <3>3
    <3>4. CASE m # n
      BY <2>1, <3>1, <3>2, <3>4
    <3> QED
      BY <3>3, <3>4
  <2>4. /\ PicturesOf(c) = [m \in 0 .. 7 |-> PicturesOf(c)[m]]
        /\ PicturesOf(hd) = [m \in 0 .. 7 |-> PicturesOf(hd)[m]]
    BY DEF PicturesOf
  <2> QED
    BY <1>3, <2>3, <2>4
<1>11. /\ PlaceOf(hd'.addr, lcd'.lines) = PlaceOf(hd.addr, lcd.lines)
       /\ GlassShown(lcd', hd') = GlassShown(lcd, hd)
       /\ PicturesOf(hd') = [PicturesOf(hd) EXCEPT ![n] = p]
  BY <1>1, <1>8, <1>9, <1>10, Zenon
<1>12. Screen!Draw
  BY <1>1, <1>3, <1>8, <1>11, IsDraw, Zenon
<1> QED
  BY <1>8, <1>12

(* With a ninth one. *)
LEMMA SpillStep ==
    ASSUME TextInv, lcd' = lcd, got' = got, NEW p \in Pictures,
           Call(CreateChar(hd, 8, p))
    PROVE  TextInv' /\ Screen!Spill
<1>1. p \in [1 .. 8 -> Codes]
  BY TextAssumption DEF Codes
<1>2. PICK c : c = CreateChar(hd, 8, p)
  OBVIOUS
<1>3. lcd.live
  BY DEF Call
<1>4. /\ lcd.lines \in {1, 2, 4} /\ Ready(hd, lcd.lines) /\ hd.look = lcd.look
  BY <1>3, InvGives
<1>5. /\ Ready(c, lcd.lines) /\ Kept(hd, c)
      /\ PlaceOf(c.addr, lcd.lines) = PlaceOf(hd.addr, lcd.lines)
      /\ GlassOf(c, lcd.lines) = SpilledOn(GlassOf(hd, lcd.lines), lcd.lines, p, 8)
  <2>1. Ready(hd, lcd.lines) /\ lcd.lines \in {1, 2, 4}
    BY <1>4
  <2> QED
    BY <1>1, <1>2, <2>1, NinthCharPage
<1>6. /\ TextInv' /\ hd' = c /\ lit' = lit /\ LookOf(hd') = LookOf(hd)
      /\ GlassShown(lcd, hd) = GlassOf(hd, lcd.lines)
      /\ GlassShown(lcd', hd') = GlassOf(c, lcd.lines)
  <2>1. Call(c)
    BY <1>2
  <2>2. c.look = lcd.look
    BY <1>4, <1>5, Zenon DEF Kept
  <2> QED
    BY <1>5, <2>1, <2>2, PlainCall
<1>7. PicturesOf(hd') = PicturesOf(hd)
  BY <1>5, <1>6, KeptShown, Zenon
<1>8. /\ PlaceOf(hd'.addr, lcd'.lines) = PlaceOf(hd.addr, lcd.lines)
      /\ GlassShown(lcd', hd') = SpilledOn(GlassShown(lcd, hd), lcd.lines, p, 8)
  BY <1>5, <1>6, Zenon
<1>9. Screen!Spill
  BY <1>4, <1>6, <1>7, <1>8, IsSpill
<1> QED
  BY <1>6, <1>9

(* Any other number returns at once. *)
LEMMA RefusedStep ==
    ASSUME TextInv, lcd' = lcd, got' = got, NEW p, NEW n \in Int, n < 0 \/ n > 8,
           Call(CreateChar(hd, n, p))
    PROVE  TextInv' /\ UNCHANGED Screen!screenVars
<1>1. CreateChar(hd, n, p) = hd
  BY Zenon DEF CreateChar
<1>2. Call(hd) /\ lcd.live
  BY <1>1 DEF Call
<1>3. Ready(hd, lcd.lines) /\ hd.look = lcd.look
  BY <1>2, InvGives
<1>4. TextInv' /\ hd' = hd /\ lit' = lit
  BY <1>2, <1>3, PlainCall
<1>5. UNCHANGED Screen!screenVars
  BY <1>4, Zenon DEF Screen!screenVars
<1> QED
  BY <1>4, <1>5

(* lcd_create_char *)
LEMMA LcdCreateCharStep ==
    TextInv /\ LcdCreateChar =>
        TextInv' /\ (Screen!Draw \/ Screen!Spill \/ UNCHANGED Screen!screenVars)
<1> SUFFICES ASSUME TextInv, LcdCreateChar
             PROVE  TextInv' /\ (Screen!Draw \/ Screen!Spill \/ UNCHANGED Screen!screenVars)
  OBVIOUS
<1>1. lcd' = lcd /\ got' = got
  BY DEF LcdCreateChar
<1>2. PICK n \in Characters, p \in Pictures : Call(CreateChar(hd, n, p))
  BY DEF LcdCreateChar
<1>3. n \in Int
  BY TextAssumption
<1>4. CASE n \in 0 .. 7
  BY <1>1, <1>2, <1>4, DrawStep
<1>5. CASE n = 8
  BY <1>1, <1>2, <1>5, SpillStep
<1>6. CASE n < 0 \/ n > 8
  BY <1>1, <1>2, <1>3, <1>6, RefusedStep
<1>7. n \in 0 .. 7 \/ n = 8 \/ n < 0 \/ n > 8
  BY <1>3
<1> QED
  BY <1>4, <1>5, <1>6, <1>7, Zenon

(* lcd_read_data: the cell under the cursor, which goes on.                *)
LEMMA LcdReadDataStep == TextInv /\ LcdReadData => TextInv' /\ Screen!Read
<1> SUFFICES ASSUME TextInv, LcdReadData PROVE TextInv' /\ Screen!Read
  OBVIOUS
<1>1. lcd' = lcd
  BY DEF LcdReadData
<1>2. PICK c : c = AfterRead(hd, 1) /\ Call(c)
  BY DEF LcdReadData
<1>3. got' = ReadRaw(hd, 1)
  BY DEF LcdReadData
<1>4. lcd.live
  BY <1>2 DEF Call
<1>5. /\ lcd.lines \in {1, 2, 4} /\ Ready(hd, lcd.lines) /\ Idle(hd) /\ hd.look = lcd.look
      /\ lcd \in Descriptors /\ lit = lcd.backlight
  BY <1>4, InvGives
<1>6. got' = Readable(hd, 1) /\ c = Moved(hd)
  BY <1>2, <1>3, <1>5, ReadDataIs
<1>7. got' \in 0 .. 255
  <2>1. Readable(hd, 1) \in Codes
    BY <1>5, ReadablePlace
  <2> QED
    BY <1>6, <2>1 DEF Codes
<1>8. Ready(c, lcd.lines)
  BY <1>5, <1>6, MovedOn
<1>9. PlaceOf(c.addr, lcd.lines) = BeyondOn(lcd.lines, PlaceOf(hd.addr, lcd.lines))
  BY <1>5, <1>6, MovedOn
<1>10. c.text = hd.text /\ c.two = hd.two
  BY <1>5, <1>6, MovedOn
<1>11. Kept(hd, c)
  BY <1>5, <1>6, MovedOn
<1>12. c.look = lcd.look
  BY <1>5, <1>11, Zenon DEF Kept
<1>13. TextInv' /\ hd' = c /\ lit' = lcd'.backlight
  <2>1. c \in Controllers
    BY <1>8, ReadyController
  <2>2. lcd'.live => Ready(c, lcd'.lines) /\ c.look = lcd'.look
    BY <1>1, <1>8, <1>12, Zenon
  <2>3. lcd' \in Descriptors
    BY <1>1, <1>5
  <2> QED
    BY <1>2, <1>7, <2>1, <2>2, <2>3, CallKeeps
<1>14. GlassShown(lcd, hd) = GlassOf(hd, lcd.lines) /\ GlassShown(lcd, c) = GlassOf(c, lcd.lines)
  BY <1>4, GlassLive
<1>15. GlassOf(c, lcd.lines) = GlassOf(hd, lcd.lines)
  BY <1>10, SameGlass
<1>16. LookOf(hd') = LookOf(hd) /\ PicturesOf(hd') = PicturesOf(hd)
  BY <1>11, <1>13, KeptShown, Zenon
<1>17. PICK r, k : IsAt(lcd.lines, hd.addr, r, k)
  BY <1>5, Zenon DEF Ready
<1>18. PlaceOf(hd.addr, lcd.lines) = <<r, k + 1>>
  BY <1>5, <1>17, AtIs
<1>19. GlassOf(hd, lcd.lines)[r][k + 1] = hd.text[Cell(hd, hd.addr)]
  <2>1. hd.two <=> lcd.lines > 1
    BY <1>5 DEF Ready
  <2> QED
    BY <1>5, <1>17, <2>1, GlassHere
<1>20. Readable(hd, 1) = hd.text[Cell(hd, hd.addr)]
  <2>1. hd.cg = FALSE
    BY <1>5, Zenon DEF Ready
  <2>2. Cell(hd, hd.addr) # -1
    <3>1. hd.two <=> lcd.lines > 1
      BY <1>5 DEF Ready
    <3>2. Cell(hd, hd.addr) \in 0 .. 79
      BY <1>5, <1>17, <3>1, GlassHere
    <3> QED
      BY <3>2
  <2> QED
    BY <2>1, <2>2 DEF Readable
<1>21. PICK place : place = PlaceOf(hd.addr, lcd.lines)
  OBVIOUS
<1>22. place[1] = r /\ place[2] = k + 1
  BY <1>18, <1>21
<1>23. got' = GlassShown(lcd, hd)[place[1]][place[2]]
  BY <1>6, <1>14, <1>19, <1>20, <1>22, Zenon
<1>24. PlaceOf(hd'.addr, lcd'.lines) = BeyondOn(lcd.lines, place)
  BY <1>1, <1>9, <1>13, <1>21, Zenon
<1>25. GlassShown(lcd', hd') = GlassShown(lcd, hd) /\ lit' = lit
  BY <1>1, <1>5, <1>13, <1>14, <1>15, Zenon
<1>26. Screen!Read
  BY <1>5, <1>16, <1>21, <1>23, <1>24, <1>25, IsRead
<1> QED
  BY <1>13, <1>26

(* What is on is sent again, the light with it.                            *)
LEMMA LookSent ==
    ASSUME TextInv, NEW l, l \in Descriptors, lcd' = l, got' = got,
           l.lines = lcd.lines, l.live = lcd.live, Call(Raw(hd, 0, 8 + l.look))
    PROVE  /\ TextInv' /\ hd'.look = l.look /\ lit' = l.backlight
           /\ lcd.live /\ lcd \in Descriptors /\ hd.look = lcd.look /\ lit = lcd.backlight
           /\ PicturesOf(hd') = PicturesOf(hd)
           /\ GlassShown(lcd', hd') = GlassShown(lcd, hd)
           /\ PlaceOf(hd'.addr, lcd'.lines) = PlaceOf(hd.addr, lcd.lines)
<1>1. PICK c : c = Raw(hd, 0, 8 + l.look) /\ Call(c)
  OBVIOUS
<1>2. lcd.live
  BY <1>1 DEF Call
<1>3. /\ lcd.lines \in {1, 2, 4} /\ Ready(hd, lcd.lines) /\ Idle(hd) /\ hd.look = lcd.look
      /\ lcd \in Descriptors /\ lit = lcd.backlight
  BY <1>2, InvGives
<1>4. l.look \in 0 .. 7
  BY DEF Descriptors
<1>5. Ready(c, lcd.lines)
  BY <1>1, <1>3, <1>4, LookReady
<1>6. PageOf(c, lcd.lines) = PageOf(hd, lcd.lines)
  BY <1>1, <1>3, <1>4, LookReady
<1>7. c.look = l.look /\ c.glyphs = hd.glyphs
  BY <1>1, <1>3, <1>4, LookPage
<1>8. got' \in 0 .. 255
  BY DEF TextInv, TextTypeOK
<1>9. TextInv' /\ hd' = c /\ lit' = lcd'.backlight
  <2>1. c \in Controllers
    BY <1>5, ReadyController
  <2>2. lcd'.live => Ready(c, lcd'.lines) /\ c.look = lcd'.look
    BY <1>5, <1>7, Zenon
  <2>3. lcd' \in Descriptors
    OBVIOUS
  <2> QED
    BY <1>1, <1>8, <2>1, <2>2, <2>3, CallKeeps
<1>10. /\ GlassOf(c, lcd.lines) = GlassOf(hd, lcd.lines)
       /\ PlaceOf(c.addr, lcd.lines) = PlaceOf(hd.addr, lcd.lines)
  BY <1>6, SamePage
<1>11. GlassShown(lcd, hd) = GlassOf(hd, lcd.lines)
  BY <1>2, GlassLive
<1>12. GlassShown(l, c) = GlassOf(c, l.lines)
  <2>1. l.live
    BY <1>2
  <2> QED
    BY <2>1, GlassLive
<1>13. GlassShown(lcd', hd') = GlassShown(lcd, hd)
  BY <1>9, <1>10, <1>11, <1>12, Zenon
<1>14. PlaceOf(hd'.addr, lcd'.lines) = PlaceOf(hd.addr, lcd.lines)
  BY <1>9, <1>10, Zenon
<1>15. PicturesOf(hd') = PicturesOf(hd)
  BY <1>7, <1>9, Zenon DEF PicturesOf
<1>16. hd'.look = l.look /\ lit' = l.backlight
  BY <1>7, <1>9, Zenon
<1> QED
  BY <1>2, <1>3, <1>9, <1>13, <1>14, <1>15, <1>16, Zenon

(* lcd_on to lcd_blink_off *)
LEMMA LcdSwitchStep == TextInv /\ LcdSwitch => TextInv' /\ Screen!Switch
<1> SUFFICES ASSUME TextInv, LcdSwitch PROVE TextInv' /\ Screen!Switch
  OBVIOUS
<1>1. PICK bit \in {1, 2, 4}, on \in BOOLEAN :
          lcd' = [lcd EXCEPT !.look =
                     IF Bit(@, bit) = on THEN @ ELSE IF on THEN @ + bit ELSE @ - bit]
  BY Zenon DEF LcdSwitch
<1>2. got' = got /\ Call(Raw(hd, 0, 8 + lcd'.look))
  BY Zenon DEF LcdSwitch
<1>3. lcd.live
  BY <1>2 DEF Call
<1>4. lcd \in Descriptors /\ lcd.look \in 0 .. 7
  BY <1>3, InvGives
<1>5. PICK v : v = Switched(lcd.look, bit, on)
  OBVIOUS
<1>6. v \in 0 .. 7
  BY <1>4, <1>5, SwitchedBits
<1>7. PICK l : l = [lcd EXCEPT !.look = v]
  OBVIOUS
<1>8. lcd' = l
  BY <1>1, <1>5, <1>7, Zenon DEF Switched
<1>9. /\ l \in Descriptors /\ l.lines = lcd.lines /\ l.live = lcd.live /\ l.look = v
      /\ l.backlight = lcd.backlight
  BY <1>4, <1>6, <1>7 DEF Descriptors
<1>10. Call(Raw(hd, 0, 8 + l.look))
  BY <1>2, <1>8, Zenon
<1>11. /\ TextInv' /\ hd'.look = l.look /\ lit' = l.backlight
       /\ hd.look = lcd.look /\ lit = lcd.backlight
       /\ PicturesOf(hd') = PicturesOf(hd)
       /\ GlassShown(lcd', hd') = GlassShown(lcd, hd)
       /\ PlaceOf(hd'.addr, lcd'.lines) = PlaceOf(hd.addr, lcd.lines)
  BY <1>2, <1>8, <1>9, <1>10, LookSent
<1>12. LookOf(hd') = IF on THEN LookOf(hd) \union {NameOf(bit)} ELSE LookOf(hd) \ {NameOf(bit)}
  <2>1. hd.look \in 0 .. 7 /\ hd'.look = Switched(hd.look, bit, on)
    BY <1>4, <1>5, <1>9, <1>11, Zenon
  <2> QED
    BY <2>1, SwitchedLook
<1>13. NameOf(bit) \in {"text", "cursor", "blinking"}
  BY DEF NameOf
<1>14. LookOf(hd') \in {LookOf(hd) \union {NameOf(bit)}, LookOf(hd) \ {NameOf(bit)}}
  BY <1>12
<1>15. lit' = lit
  BY <1>9, <1>11
<1>16. \E w \in {"text", "cursor", "blinking"} :
          LookOf(hd') \in {LookOf(hd) \union {w}, LookOf(hd) \ {w}}
  BY <1>13, <1>14, Zenon
<1>17. Screen!Switch
  BY <1>2, <1>11, <1>15, <1>16, Zenon DEF Screen!Switch, GlassShown, LookOf, PicturesOf
<1> QED
  BY <1>11, <1>17

(* lcd_backlight_on, lcd_backlight_off *)
LEMMA LcdBacklightStep == TextInv /\ LcdBacklight => TextInv' /\ Screen!Switch
<1> SUFFICES ASSUME TextInv, LcdBacklight PROVE TextInv' /\ Screen!Switch
  OBVIOUS
<1>1. PICK on \in BOOLEAN : lcd' = [lcd EXCEPT !.backlight = on]
  BY Zenon DEF LcdBacklight
<1>2. got' = got /\ Call(Raw(hd, 0, 8 + lcd'.look))
  BY Zenon DEF LcdBacklight
<1>3. lcd.live
  BY <1>2 DEF Call
<1>4. lcd \in Descriptors
  BY <1>3, InvGives
<1>5. PICK l : l = lcd'
  OBVIOUS
<1>6. /\ l \in Descriptors /\ l.lines = lcd.lines /\ l.live = lcd.live /\ l.look = lcd.look
      /\ l.backlight = on
  BY <1>1, <1>4, <1>5 DEF Descriptors
<1>7. Call(Raw(hd, 0, 8 + l.look))
  BY <1>2, <1>5, Zenon
<1>8. /\ TextInv' /\ hd'.look = l.look /\ lit' = l.backlight /\ hd.look = lcd.look
      /\ PicturesOf(hd') = PicturesOf(hd)
      /\ GlassShown(lcd', hd') = GlassShown(lcd, hd)
      /\ PlaceOf(hd'.addr, lcd'.lines) = PlaceOf(hd.addr, lcd.lines)
  BY <1>2, <1>5, <1>6, <1>7, LookSent
<1>9. LookOf(hd') = LookOf(hd)
  BY <1>6, <1>8, Zenon DEF LookOf
<1>10. lit' \in BOOLEAN
  BY <1>6, <1>8
<1>11. Screen!Switch
  BY <1>2, <1>8, <1>9, <1>10, Zenon DEF Screen!Switch, GlassShown, LookOf, PicturesOf
<1> QED
  BY <1>8, <1>11

(* lcd_destroy: nothing is seen any more, and the cursor stays.            *)
LEMMA LcdDestroyStep == TextInv /\ LcdDestroy => TextInv' /\ Screen!Close
<1> SUFFICES ASSUME TextInv, LcdDestroy PROVE TextInv' /\ Screen!Close
  OBVIOUS
<1>1. PICK v : v = lcd.look - (IF Bit(lcd.look, 4) THEN 4 ELSE 0)
  OBVIOUS
<1>2. lcd' = [lcd EXCEPT !.look = v, !.backlight = FALSE, !.live = FALSE]
  BY <1>1, Zenon DEF LcdDestroy
<1>3. PICK first : first = Raw(hd, 0, 8 + v)
  OBVIOUS
<1>4. PICK second : second = Raw(first, 0, 8 + v)
  OBVIOUS
<1>5. PICK c : c = Reset(second)
  OBVIOUS
<1>6. Call(c)
  BY <1>1, <1>3, <1>4, <1>5, Zenon DEF LcdDestroy
<1>7. got' = got
  BY Zenon DEF LcdDestroy
<1>8. lcd.live
  BY <1>6 DEF Call
<1>9. /\ lcd \in Descriptors /\ lcd.lines \in {1, 2, 4} /\ lcd.look \in 0 .. 7
      /\ Idle(hd) /\ hd.look = lcd.look
  BY <1>8, InvGives
<1>10. v = Switched(lcd.look, 4, FALSE)
  <2>1. Bit(lcd.look, 4) \in BOOLEAN
    BY DEF Bit
  <2> QED
    BY <1>1, <1>9, <2>1 DEF Switched
<1>11. v \in 0 .. 7
  BY <1>9, <1>10, SwitchedBits
<1>12. Idle(first) /\ first.addr = hd.addr /\ first.glyphs = hd.glyphs
  BY <1>3, <1>9, <1>11, LookPage
<1>13. Idle(second) /\ second.addr = first.addr /\ second.glyphs = first.glyphs
       /\ second.look = v
  BY <1>4, <1>11, <1>12, LookPage
<1>14. c \in Controllers /\ c.addr = second.addr /\ Kept(second, c)
  BY <1>5, <1>13, ResetIs
<1>15. c.addr = hd.addr /\ c.glyphs = hd.glyphs /\ c.look = v
  BY <1>12, <1>13, <1>14 DEF Kept
<1>16. PICK l : l = lcd'
  OBVIOUS
<1>17. /\ l \in Descriptors /\ l.lines = lcd.lines /\ l.look = v /\ l.backlight = FALSE
       /\ l.live = FALSE
  BY <1>2, <1>9, <1>11, <1>16 DEF Descriptors
<1>18. TextInv' /\ hd' = c /\ lit' = lcd'.backlight
  <2>1. got' \in 0 .. 255
    BY <1>7 DEF TextInv, TextTypeOK
  <2>2. lcd'.live => Ready(c, lcd'.lines) /\ c.look = lcd'.look
    BY <1>16, <1>17, Zenon
  <2>3. lcd' \in Descriptors
    BY <1>16, <1>17
  <2> QED
    BY <1>6, <1>14, <2>1, <2>2, <2>3, CallKeeps
<1>19. GlassShown(lcd', hd') =
           [r \in 1 .. lcd.lines |-> [j \in 1 .. Width(lcd.lines) |-> Space]]
  <2>1. GlassShown(l, c) = [r \in 1 .. l.lines |-> [j \in 1 .. Width(l.lines) |-> Space]]
    BY <1>17 DEF GlassShown
  <2> QED
    BY <1>16, <1>17, <1>18, <2>1, Zenon
<1>20. LookOf(hd') = LookOf(hd) \ {"text"}
  <2>1. hd.look \in 0 .. 7 /\ c.look = Switched(hd.look, 4, FALSE)
    BY <1>9, <1>10, <1>15, Zenon
  <2>2. LookOf(c) = LookOf(hd) \ {NameOf(4)}
    <3>1. 4 \in {1, 2, 4} /\ FALSE \in BOOLEAN
      OBVIOUS
    <3>2. LookOf(c) = IF FALSE THEN LookOf(hd) \union {NameOf(4)} ELSE LookOf(hd) \ {NameOf(4)}
      BY <2>1, <3>1, SwitchedLook
    <3> QED
      BY <3>2
  <2>3. NameOf(4) = "text"
    BY DEF NameOf
  <2> QED
    BY <1>18, <2>2, <2>3, Zenon
<1>21. PicturesOf(hd') = PicturesOf(hd)
  BY <1>15, <1>18, Zenon DEF PicturesOf
<1>22. PlaceOf(hd'.addr, lcd'.lines) = PlaceOf(hd.addr, lcd.lines)
  BY <1>15, <1>16, <1>17, <1>18, Zenon
<1>23. lit' = FALSE
  BY <1>16, <1>17, <1>18, Zenon
<1>24. Screen!Close
  BY <1>7, <1>9, <1>19, <1>20, <1>21, <1>22, <1>23, IsClose
<1> QED
  BY <1>18, <1>24

(* Every call of the library is a step of the screen, or none.             *)
LEMMA TextStep ==
    TextInv /\ TextNext => TextInv' /\ [Screen!ScreenNext]_Screen!screenVars
<1> SUFFICES ASSUME TextInv, TextNext
             PROVE  TextInv' /\ [Screen!ScreenNext]_Screen!screenVars
  OBVIOUS
<1>1. CASE LcdDestroy
  BY <1>1, LcdDestroyStep, Zenon DEF Screen!ScreenNext
<1>2. CASE LcdPrint \/ LcdPrintf
  BY <1>2, LcdPrintStep, Zenon DEF Screen!ScreenNext
<1>3. CASE LcdPos
  BY <1>3, LcdPosStep, Zenon DEF Screen!ScreenNext
<1>4. CASE LcdClear
  BY <1>4, LcdClearStep, Zenon DEF Screen!ScreenNext
<1>5. CASE LcdHome
  BY <1>5, LcdHomeStep, Zenon DEF Screen!ScreenNext
<1>6. CASE LcdCreateChar
  BY <1>6, LcdCreateCharStep, Zenon DEF Screen!ScreenNext
<1>7. CASE LcdReadData
  BY <1>7, LcdReadDataStep, Zenon DEF Screen!ScreenNext
<1>8. CASE LcdSwitch
  BY <1>8, LcdSwitchStep, Zenon DEF Screen!ScreenNext
<1>9. CASE LcdBacklight
  BY <1>9, LcdBacklightStep, Zenon DEF Screen!ScreenNext
<1> QED
  BY <1>1, <1>2, <1>3, <1>4, <1>5, <1>6, <1>7, <1>8, <1>9, Zenon DEF TextNext

(* The other program does not touch the text.                              *)
LEMMA SameText ==
    TextInv /\ UNCHANGED textVars => TextInv' /\ UNCHANGED Screen!screenVars
<1> SUFFICES ASSUME TextInv, UNCHANGED textVars
             PROVE  TextInv' /\ UNCHANGED Screen!screenVars
  OBVIOUS
<1>1. lcd' = lcd /\ hd' = hd /\ lit' = lit /\ got' = got /\ calls' = calls
  BY DEF textVars
<1>2. TextInv'
  BY <1>1, Zenon DEF TextInv, TextTypeOK
<1>3. UNCHANGED Screen!screenVars
  BY <1>1, Zenon DEF Screen!screenVars
<1> QED
  BY <1>2, <1>3

(* lcd_create leaves a display that is on and empty.                       *)
LEMMA InitText == TextInit => TextInv /\ Screen!ScreenInit
<1> SUFFICES ASSUME TextInit PROVE TextInv /\ Screen!ScreenInit
  OBVIOUS
<1>1. /\ lcd \in Descriptors /\ lcd.lines \in Displays /\ lcd.look = 4
      /\ lcd.backlight = TRUE /\ lcd.live = TRUE
  <2>1. lcd \in [lines : Displays, look : {4}, backlight : {TRUE}, live : {TRUE}]
    BY Zenon DEF TextInit
  <2>2. lcd.lines \in Displays /\ lcd.look = 4
    BY <2>1
  <2>3. {TRUE} \subseteq BOOLEAN /\ {4} \subseteq 0 .. 7
    OBVIOUS
  <2>4. PICK t : t = {TRUE}
    OBVIOUS
  <2>5. lcd \in [lines : Displays, look : {4}, backlight : t, live : t]
    BY <2>1, <2>4, Zenon
  <2>6. lcd \in [lines : Displays, look : 0 .. 7, backlight : BOOLEAN, live : BOOLEAN]
    BY <2>3, <2>4, <2>5
  <2>7. lcd.backlight \in t /\ lcd.live \in t
    BY <2>5
  <2>8. lcd.backlight = TRUE /\ lcd.live = TRUE
    BY <2>4, <2>7, Zenon
  <2> QED
    BY <2>2, <2>6, <2>8, Zenon DEF Descriptors
<1>2. lcd.lines \in {1, 2, 4}
  BY <1>1, TextAssumption
<1>3. PICK c : c = Configured(lcd.lines)
  OBVIOUS
<1>4. hd = c /\ lit = TRUE /\ got = 0 /\ calls = 0
  BY <1>3 DEF TextInit
<1>5. Ready(c, lcd.lines) /\ PageOf(c, lcd.lines) = EmptyPage(lcd.lines) /\ c.look = 4
  BY <1>2, <1>3, ConfiguredPage
<1>6. c \in Controllers
  BY <1>5, ReadyController
<1>7. TextTypeOK
  <2>1. 0 \in 0 .. MaxCalls
    BY TextAssumption
  <2> QED
    BY <1>1, <1>4, <1>6, <2>1 DEF TextTypeOK, Descriptors
<1>8. lcd.live => Ready(hd, lcd.lines) /\ hd.look = lcd.look
  BY <1>1, <1>4, <1>5, Zenon
<1>9. TextInv
  BY <1>1, <1>4, <1>7, <1>8 DEF TextInv
<1>10. GlassOf(c, lcd.lines) =
           [r \in 1 .. lcd.lines |-> [j \in 1 .. Width(lcd.lines) |-> Space]]
       /\ PlaceOf(c.addr, lcd.lines) = <<1, 1>>
  <2>1. /\ EmptyPage(lcd.lines).rows =
               [r \in 1 .. lcd.lines |-> [j \in 1 .. Width(lcd.lines) |-> Space]]
        /\ EmptyPage(lcd.lines).at = <<1, 1>>
    BY DEF EmptyPage
  <2>2. GlassOf(c, lcd.lines) = EmptyPage(lcd.lines).rows
    BY <1>5, PageParts, Zenon
  <2>3. PlaceOf(c.addr, lcd.lines) = EmptyPage(lcd.lines).at
    BY <1>5, PageParts, Zenon
  <2> QED
    BY <2>1, <2>2, <2>3
<1>11. GlassShown(lcd, hd) = GlassOf(c, lcd.lines)
  BY <1>1, <1>4, GlassLive
<1>12. Screen!ScreenInit
  BY <1>2, <1>4, <1>10, <1>11, IsScreenInit, Zenon
<1> QED
  BY <1>9, <1>12

(* The two programs together begin as the screen does.                     *)
LEMMA InitBoth == Init => TextInv /\ Screen!ScreenInit
BY InitText, Zenon DEF Init

(* A step of the two programs is a step of the screen or none.             *)
LEMMA StepBoth == TextInv /\ [Next]_vars => TextInv' /\ [Screen!ScreenNext]_Screen!screenVars
<1> SUFFICES ASSUME TextInv, [Next]_vars
             PROVE  TextInv' /\ [Screen!ScreenNext]_Screen!screenVars
  OBVIOUS
<1>1. TextNext \/ UNCHANGED textVars
  BY DEF Next, vars
<1> QED
  BY <1>1, TextStep, SameText, Zenon

(* The inductive invariant of the text. *)
LEMMA TextInvariance == Spec => []TextInv
<1>1. Init => TextInv
  BY InitBoth
<1>2. TextInv /\ [Next]_vars => TextInv'
  BY StepBoth
<1> QED
  BY <1>1, <1>2, PTL DEF Spec

(* The program stays the one it is. *)
LEMMA ProgramStays == Spec => [](program \in {"frames", "text"})
<1>1. Init => program \in {"frames", "text"}
  BY DEF Init
<1>2. program \in {"frames", "text"} /\ [Next]_vars => (program \in {"frames", "text"})'
  BY DEF Next, vars
<1> QED
  BY <1>1, <1>2, PTL DEF Spec

(* The types of the library under both programs: no call leaves the        *)
(* controller anything else, whatever is printed, drawn, read or switched. *)
THEOREM LibraryTypes == Spec => []TypeOK
<1>1. TextInv => TextTypeOK
  BY DEF TextInv
<1>2. FrameTypeOK /\ TextTypeOK /\ program \in {"frames", "text"} => TypeOK
  BY DEF TypeOK
<1> QED
  BY <1>1, <1>2, FrameTypes, TextInvariance, ProgramStays, PTL

(* The library implements the screen: texts come out at the cursor, and    *)
(* what is drawn, read or switched leaves them as they are - but for the   *)
(* ninth character that lcd_create_char lets pass (soft_lcd.c:240), whose  *)
(* rows take the first eight cells; any other number that is no character  *)
(* does nothing.                                                           *)
THEOREM LibraryShowsText == Spec => ShowsText
<1>1. Init => Screen!ScreenInit
  BY InitBoth
<1>2. TextInv /\ [Next]_vars => [Screen!ScreenNext]_Screen!screenVars
  BY StepBoth
<1> QED
  BY <1>1, <1>2, TextInvariance, PTL DEF Spec, ShowsText, Screen!ScreenSpec
===============================================================================
