------------------------------ MODULE TextScreen ------------------------------
(***************************************************************************)
(* What soft_lcd.c offers a program: a glass of rows, a cursor on it, a    *)
(* light behind it and eight characters of one's own.  A ninth one is let  *)
(* pass and spills over the text.  Addresses, bytes and encodings are the  *)
(* business of LcdText, which implements this module.                      *)
(***************************************************************************)
EXTENDS Naturals, Sequences

CONSTANTS
    Words,      \* what may be printed: sequences of cells and line feeds
    LineFeed,   \* the symbol that is no cell
    Blank,      \* an empty cell
    Pictures    \* what a character can be made to look like: eight rows

VARIABLES
    glass,      \* glass[r][c]: the cell in row r and column c
    cursor,     \* <<row, column>> of the next cell written
    look,       \* what of the display is on: text, cursor, blinking
    light,      \* the light is on
    pictures,   \* the characters of one's own
    answer      \* the cell that was read last

screenVars == <<glass, cursor, look, light, pictures, answer>>

Rows == DOMAIN glass
Columns == DOMAIN glass[1]

Start == <<1, 1>>

(* A row that is full goes on in another one: of four rows, the third and  *)
(* the fourth are the second halves of the first and the second.           *)
RowAfter(r) ==
    IF Len(glass) = 4 THEN <<3, 4, 2, 1>>[r] ELSE (r % Len(glass)) + 1

Beyond(place) ==
    IF place[2] = Len(glass[1]) THEN <<RowAfter(place[1]), 1>>
    ELSE <<place[1], place[2] + 1>>

(* A line feed goes to the next row; below the last there is none, and the *)
(* only one of a single row is the row itself.                             *)
LineAfter(place) ==
    CASE Len(glass) = 1 -> Start
      [] Len(glass) > 1 /\ place[1] < Len(glass) -> <<place[1] + 1, 1>>
      [] OTHER -> place

(* One symbol on a page: a glass and the place of its cursor.              *)
Typed(page, symbol) ==
    IF symbol = LineFeed THEN [page EXCEPT !.at = LineAfter(@)]
    ELSE [rows |-> [page.rows EXCEPT ![page.at[1]][page.at[2]] = symbol],
          at |-> Beyond(page.at)]

PageAfter(page, w) ==
    LET typed[i \in 0 .. Len(w)] ==
            IF i = 0 THEN page ELSE Typed(typed[i - 1], w[i])
    IN  typed[Len(w)]

ScreenInit ==
    /\ \A r \in Rows, c \in Columns : glass[r][c] = Blank
    /\ cursor = Start

Write ==
    /\ \E w \in Words :
        LET page == PageAfter([rows |-> glass, at |-> cursor], w)
        IN  glass' = page.rows /\ cursor' = page.at
    /\ UNCHANGED <<look, light, pictures, answer>>

Place ==
    /\ \E r \in Rows, c \in Columns : cursor' = <<r, c>>
    /\ UNCHANGED <<glass, look, light, pictures, answer>>

Wipe ==
    /\ glass' = [r \in Rows |-> [c \in Columns |-> Blank]]
    /\ cursor' = Start
    /\ UNCHANGED <<look, light, pictures, answer>>

Read ==
    /\ answer' = glass[cursor[1]][cursor[2]]
    /\ cursor' = Beyond(cursor)
    /\ UNCHANGED <<glass, look, light, pictures>>

(* A character is drawn: the text and the cursor stay.                     *)
Draw ==
    /\ \E n \in DOMAIN pictures, p \in Pictures :
        pictures' = [pictures EXCEPT ![n] = p]
    /\ UNCHANGED <<glass, cursor, look, light, answer>>

(* There is no ninth character: its eight rows take the first eight cells  *)
(* of the text, as if they were symbols.  The cursor stays.                *)
Spill ==
    /\ \E p \in Pictures :
        glass' = [glass EXCEPT ![1] =
                     [c \in Columns |-> IF c <= 8 THEN p[c] ELSE @[c]]]
    /\ UNCHANGED <<cursor, look, light, pictures, answer>>

(* One thing is switched, and the others stay as they are.                 *)
Switch ==
    /\ \/ /\ \E w \in {"text", "cursor", "blinking"} :
               look' \in {look \union {w}, look \ {w}}
          /\ UNCHANGED light
       \/ light' \in BOOLEAN /\ UNCHANGED look
    /\ UNCHANGED <<glass, cursor, pictures, answer>>

(* The end: nothing is seen. *)
Close ==
    /\ glass' = [r \in Rows |-> [c \in Columns |-> Blank]]
    /\ look' = look \ {"text"}
    /\ light' = FALSE
    /\ UNCHANGED <<cursor, pictures, answer>>

ScreenNext ==
    Write \/ Place \/ Wipe \/ Read \/ Draw \/ Spill \/ Switch \/ Close

ScreenSpec == ScreenInit /\ [][ScreenNext]_screenVars
================================================================================
