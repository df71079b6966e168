------------------------------- MODULE Vterm -------------------------------
(***************************************************************************)
(* The virtual terminal under every sequence of calls of its interface     *)
(* (src/src/include/vterm/vterm.h).  VtermOps has the functions; here each *)
(* call is an action on the terminal's data.  A behaviour has one of two   *)
(* users: a caller of the whole interface, or somebody who only types      *)
(* letters and backspaces, to whom more is promised.                       *)
(***************************************************************************)
EXTENDS VtermOps

CONSTANTS
  Chars,    \* the printable characters a caller writes
  Letters,  \* the printable characters somebody types
  Colors,   \* pairs of foreground and background colour
  Shapes,   \* cursor shapes
  Texts     \* strings passed to the terminal

ASSUME VtermAssumption ==
  /\ Texts \subseteq Seq(Chars \cup {"NL", "BS"})
  /\ {"LINE", "BLOCK"} \subseteq Shapes
  /\ Letters \cap {"NL", "BS"} = {}

VARIABLES
  t,        \* the terminal's data
  typing    \* the user only types; chosen once

vars == <<t, typing>>

RowArgs == 0 .. SCREEN_ROWS
ColArgs == 0 .. SCREEN_COLS + 1
Modes   == {"STREAM", "BLOCK"}

\* kernel_main hides the cursor, asks for BLOCK buffering and calls
\* vterm_init, which goes back to STREAM.
Init ==
  /\ typing \in BOOLEAN
  /\ \E color \in Colors :
       t = vterm_init([vterm_set_cursor_visible(PowerOn(color), FALSE) EXCEPT !.mode = "BLOCK"], color)

SetCursorVisible == \E v \in BOOLEAN : t' = vterm_set_cursor_visible(t, v)
SetCursorShape   == \E s \in Shapes : t' = vterm_set_cursor_shape(t, s)
MoveCursor       == \E r \in RowArgs, c \in ColArgs : t' = vterm_move_cursor(t, r, c)
SetBufferingMode == \E m \in Modes : t' = [t EXCEPT !.mode = m]
SetColor         == \E color \in Colors : t' = [t EXCEPT !.color = color]
Clear            == \E color \in Colors : t' = vterm_clear(t, color)
Reinit           == \E color \in Colors : t' = vterm_init(t, color)
Flush            == t' = vterm_flush(t)
WriteChar        == \E c \in Chars \cup {"NL", "BS"} : t' = vterm_write_char(t, c)
Write            == \E x \in Texts : t' = vterm_write(t, x)
WriteHex         == \E x \in Texts, color \in Colors : t' = vterm_write_hex(t, x, color)
WriteLabelHex    == \E x, y \in Texts, color \in Colors : t' = vterm_write_label_hex(t, x, y, color)
PrintAt          == \E r \in RowArgs, c \in ColArgs, x \in Texts : t' = vterm_print_at(t, r, c, x)
PrintAligned     == \E r \in RowArgs, x \in Texts, a \in {"LEFT", "CENTER", "RIGHT"} :
                      t' = vterm_print_aligned(t, r, x, a)

\* Newlines and cursor moves have no counterpart on a typewriter.
TypeLetter == \E c \in Letters : t' = vterm_write_char(t, c)
BackOne    == t' = vterm_write_char(t, "BS")

Call ==
  \/ SetCursorVisible \/ SetCursorShape \/ MoveCursor \/ SetBufferingMode
  \/ SetColor \/ Clear \/ Reinit \/ Flush
  \/ WriteChar \/ Write \/ WriteHex \/ WriteLabelHex \/ PrintAt \/ PrintAligned

Next ==
  \/ ~typing /\ UNCHANGED typing /\ Call
  \/ typing /\ UNCHANGED typing /\ (TypeLetter \/ BackOne)

Spec == Init /\ [][Next]_vars

-----------------------------------------------------------------------------
(* Properties.                                                             *)

Cells == [Rows \X Cols -> [ch : Chars \cup Letters \cup {Blank}, color : Colors]]

\* The type of the terminal's data.  Between calls the cursor is on a row of
\* the screen and at most one column past its end, so that the unchecked
\* indexing of screen_buffer and of the framebuffer stays inside both.
TypeOK ==
  /\ t.screen \in Cells /\ t.framebuffer \in Cells
  /\ t.row \in Rows /\ t.col \in 0 .. SCREEN_COLS
  /\ t.color \in Colors /\ t.shape \in Shapes /\ t.mode \in Modes
  /\ t.visible \in BOOLEAN
  /\ t.hw.pos \in 0 .. SCREEN_ROWS * SCREEN_COLS - 1
  /\ t.hw.hidden \in BOOLEAN /\ t.hw.shape \in Shapes

\* The hardware cursor agrees with the software cursor: a visible cursor is
\* shown and stands at the terminal's position, or on the last column while a
\* full line waits to wrap, an invisible one is hidden, whichever calls
\* moved it while it could not be seen.
HardwareCursor ==
  /\ t.visible <=> ~t.hw.hidden
  /\ t.visible => t.hw.pos = HwPos(t.row, t.col)

\* While the terminal streams, no call lets the characters on the display
\* fall behind screen_buffer: each path that writes a cell, scrolls or clears
\* also brings the framebuffer up to date.  (Colours may differ: a backspace
\* shows the current colours and leaves the cell's own in screen_buffer.)
StreamShows == [][t.mode = "STREAM" /\ Shown(t) /\ t'.mode = "STREAM" => Shown(t')]_vars

\* The text before the cursor, row by row.
TypedText ==
  [i \in 1 .. t.row * SCREEN_COLS + t.col |->
     t.screen[<<(i - 1) \div SCREEN_COLS, (i - 1) % SCREEN_COLS>>].ch]

Typist == INSTANCE Typewriter WITH ROWS <- SCREEN_ROWS, COLS <- SCREEN_COLS,
                                   Printable <- Letters,
                                   text <- IF typing THEN TypedText ELSE <<>>

\* For somebody who only types letters and backspaces the terminal is a
\* Typewriter: wrapping at a full line, scrolling a full screen and backspacing
\* over the start of a line lose and repeat no character.
ImplementsTypewriter == Typist!Spec

\* Everything after the cursor is blank on the display while somebody types,
\* also after a scroll and after a backspace to the line above.
BlankAhead ==
  typing => \A p \in Rows \X Cols :
    p[1] * SCREEN_COLS + p[2] >= t.row * SCREEN_COLS + t.col => t.framebuffer[p].ch = Blank
=============================================================================
