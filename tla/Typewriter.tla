---------------------------- MODULE Typewriter -----------------------------
(***************************************************************************)
(* What a terminal promises to somebody who types: the screen shows the    *)
(* text that was typed, filled line by line, a backspace takes back the    *)
(* last character, and when the screen is full its first line makes room.  *)
(***************************************************************************)
EXTENDS Naturals, Sequences

CONSTANTS ROWS, COLS, Printable

VARIABLE text    \* the characters on the screen, in the order typed

Init == text = <<>>

Type(c) ==
  text' = IF Len(text) = ROWS * COLS THEN Append(SubSeq(text, COLS + 1, Len(text)), c)
          ELSE Append(text, c)

Erase == text # <<>> /\ text' = SubSeq(text, 1, Len(text) - 1)

Next == Erase \/ \E c \in Printable : Type(c)

Spec == Init /\ [][Next]_text
=============================================================================
