----------------------------- MODULE MCLcdLibrary -----------------------------
(* LcdLibrary with the frames of MCSoftLcd, and with texts of letters of   *)
(* every kind: of one byte, of two bytes that are replaced, of two that    *)
(* are not, and the line feed.  lcd_printf cuts the longest of them in     *)
(* the middle of a letter.  lcd_create_char is given numbers on either     *)
(* side of both its bounds.                                                *)
EXTENDS MCSoftLcd, LcdLibrary

A == <<97>>
Enye == <<195, 177>>
Ordinal == <<194, 186>>
Cedilla == <<195, 167>>
Feed == <<10>>

MCLetters == {A, Enye, Ordinal, Cedilla, Feed}
MCCellsOf ==
    A :> <<97>> @@ Enye :> <<238>> @@ Ordinal :> <<223>> @@
    Cedilla :> <<195, 167>> @@ Feed :> <<10>>

MCTexts ==
    {<<A, Feed, Enye>>, <<Cedilla, Ordinal>>, <<A, Feed>>,
     <<Enye, Enye, A, A, Enye, A>>}

MCCharacters == {-1, 0, 7, 8, 9}
MCPictures == {<<1, 2, 4, 8, 16, 8, 4, 2>>, <<31, 31, 31, 31, 31, 31, 31, 31>>}
===============================================================================
