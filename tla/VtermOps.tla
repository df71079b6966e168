----------------------------- MODULE VtermOps ------------------------------
(***************************************************************************)
(* The virtual terminal of src/src/kernel/vterm/vterm.c.  Each function is *)
(* a function on the terminal's data t:                                    *)
(*   screen       screen_buffer: position |-> cell [ch, color]             *)
(*   framebuffer  what the VGA memory shows, cell by cell                  *)
(*   row, col     the cursor; col = SCREEN_COLS is "past the end"          *)
(*   color        current_fg and current_bg, as one attribute              *)
(*   visible, shape, mode                                                  *)
(*   hw           the CRTC: [pos, hidden, shape]                           *)
(* A character is a string; "NL" is the newline, "BS" the backspace.       *)
(* Rows and columns are uint16_t; the callers reduce modulo 2^16.          *)
(***************************************************************************)
EXTENDS Integers, Sequences

CONSTANTS SCREEN_ROWS, SCREEN_COLS

ASSUME ScreenAssumption ==
  /\ SCREEN_ROWS \in Nat \ {0} /\ SCREEN_COLS \in Nat \ {0}
  /\ SCREEN_ROWS * SCREEN_COLS < 65536

Rows == 0 .. SCREEN_ROWS - 1
Cols == 0 .. SCREEN_COLS - 1

\* The character of an empty cell.
Blank == " "

Cell(ch, color) == [ch |-> ch, color |-> color]

\* Where the CRTC shows the cursor when it is at (row, col).
HwPos(row, col) == row * SCREEN_COLS + (IF col >= SCREEN_COLS THEN SCREEN_COLS - 1 ELSE col)

\* A coordinate off the screen is ignored, each on its own.
vterm_move_cursor(t, r, c) ==
  LET row == IF r < SCREEN_ROWS THEN r ELSE t.row
      col == IF c <= SCREEN_COLS THEN c ELSE t.col
  IN  [t EXCEPT !.row = row, !.col = col,
                !.hw.pos = IF t.visible THEN HwPos(row, col) ELSE @]

\* A slip for vterm_set_cursor_visible: the CRTC is not brought up to date with
\* the moves made while the cursor was invisible.
SetVisibleOnly(t, visible) == [t EXCEPT !.visible = visible, !.hw.hidden = ~visible]

vterm_set_cursor_visible(t, visible) ==
  LET shown == [t EXCEPT !.visible = visible, !.hw.hidden = ~visible]
  IN  IF visible THEN vterm_move_cursor(shown, t.row, t.col) ELSE shown

\* Writing the start scanline clears the bit that hides the cursor.
vterm_set_cursor_shape(t, shape) ==
  IF t.visible THEN [t EXCEPT !.shape = shape, !.hw.shape = shape, !.hw.hidden = FALSE]
  ELSE [t EXCEPT !.shape = shape]

vterm_flush(t) ==
  vterm_move_cursor([t EXCEPT !.framebuffer = t.screen], t.row, t.col)

FlushIfStream(t) == IF t.mode = "STREAM" THEN vterm_flush(t) ELSE t

vterm_clear(t, color) ==
  FlushIfStream(vterm_move_cursor(
    [t EXCEPT !.color = color, !.screen = [p \in Rows \X Cols |-> Cell(Blank, color)]], 0, 0))

vterm_init(t, color) == vterm_flush(vterm_clear([t EXCEPT !.mode = "STREAM"], color))

\* A slip for vterm_scroll: the framebuffer is left as it is.
ScrollUnseen(t) ==
  vterm_move_cursor(
    [t EXCEPT !.screen = [p \in Rows \X Cols |->
        IF p[1] = SCREEN_ROWS - 1 THEN Cell(Blank, t.color) ELSE t.screen[<<p[1] + 1, p[2]>>]]],
    SCREEN_ROWS - 1, 0)

\* A slip for vterm_scroll: the last row is not cleared.
ScrollKeepsRow(t) ==
  FlushIfStream(vterm_move_cursor(
    [t EXCEPT !.screen = [p \in Rows \X Cols |->
        IF p[1] = SCREEN_ROWS - 1 THEN t.screen[p] ELSE t.screen[<<p[1] + 1, p[2]>>]]],
    SCREEN_ROWS - 1, 0))

\* A slip for vterm_scroll: the rows above the last one do not move.
ScrollInPlace(t) ==
  FlushIfStream(vterm_move_cursor(
    [t EXCEPT !.screen = [p \in Rows \X Cols |->
        IF p[1] = SCREEN_ROWS - 1 THEN Cell(Blank, t.color) ELSE t.screen[p]]],
    SCREEN_ROWS - 1, 0))

vterm_scroll(t) ==
  FlushIfStream(vterm_move_cursor(
    [t EXCEPT !.screen = [p \in Rows \X Cols |->
        IF p[1] = SCREEN_ROWS - 1 THEN Cell(Blank, t.color) ELSE t.screen[<<p[1] + 1, p[2]>>]]],
    SCREEN_ROWS - 1, 0))

\* Show ch, in the current colours, at the cursor, if the terminal streams.
Show(t, ch) ==
  IF t.mode = "STREAM" THEN [t EXCEPT !.framebuffer[<<t.row, t.col>>] = Cell(ch, t.color)] ELSE t

\* vterm_move_cursor refuses the row below the last one, so the test of the
\* code for a row to scroll to is false here: the cursor goes to the start of
\* the same row and nothing scrolls.
NewLine(t) ==
  LET moved == vterm_move_cursor(t, t.row + 1, 0)
  IN  IF moved.row >= SCREEN_ROWS THEN vterm_scroll(moved) ELSE moved

\* The cell keeps its colours in screen_buffer.
BackSpace(t) ==
  LET back  == IF t.col > 0 THEN vterm_move_cursor(t, t.row, t.col - 1)
               ELSE vterm_move_cursor(t, t.row - 1, SCREEN_COLS - 1)
  IN  IF t.col = 0 /\ t.row = 0 THEN t
      ELSE Show([back EXCEPT !.screen[<<back.row, back.col>>].ch = Blank], Blank)

\* A slip for Wrapped: the row is not checked after the line is full.
WrappedOnly(t) == IF t.col >= SCREEN_COLS THEN [t EXCEPT !.col = 0, !.row = @ + 1] ELSE t

\* The cursor is brought to a cell: a full line wraps, a full screen scrolls.
Wrapped(t) ==
  LET w == IF t.col >= SCREEN_COLS THEN [t EXCEPT !.col = 0, !.row = @ + 1] ELSE t
  IN  IF w.row >= SCREEN_ROWS THEN vterm_scroll(w) ELSE w

vterm_write_char(t, c) ==
  CASE c = "NL" -> NewLine(t)
    [] c = "BS" -> BackSpace(t)
    [] OTHER    ->
         LET w == Wrapped(t)
             p == Show([w EXCEPT !.screen[<<w.row, w.col>>] = Cell(c, w.color)], c)
         IN  vterm_move_cursor(p, p.row, p.col + 1)

vterm_write(t, text) ==
  LET after[k \in 0 .. Len(text)] ==
        IF k = 0 THEN t ELSE vterm_write_char(after[k - 1], text[k])
  IN  after[Len(text)]

vterm_print_at(t, row, col, text) ==
  FlushIfStream(vterm_write(vterm_move_cursor(t, row, col), text))

vterm_print_aligned(t, row, text, align) ==
  LET spare == IF Len(text) < SCREEN_COLS THEN SCREEN_COLS - Len(text) ELSE 0
  IN  vterm_print_at(t, row, CASE align = "LEFT"   -> 0
                               [] align = "CENTER" -> spare \div 2
                               [] align = "RIGHT"  -> spare, text)

\* vterm_write_hex: "0x" and the digits in colours of their own.
vterm_write_hex(t, digits, color) ==
  [vterm_write([t EXCEPT !.color = color], digits) EXCEPT !.color = t.color]

\* vterm_write_label_hex
vterm_write_label_hex(t, label, digits, color) ==
  vterm_write_char(vterm_write_hex(vterm_write(t, label), digits, color), "NL")

\* The terminal before the kernel's first call: C initialises screen_buffer
\* with zeros, the framebuffer shows what the firmware left there.
PowerOn(color) ==
  [screen |-> [p \in Rows \X Cols |-> Cell("NUL", color)],
   framebuffer |-> [p \in Rows \X Cols |-> Cell("bios", color)],
   row |-> 0, col |-> 0, color |-> color, visible |-> TRUE, shape |-> "BLOCK",
   mode |-> "STREAM", hw |-> [pos |-> 0, hidden |-> FALSE, shape |-> "LINE"]]

\* The display shows the characters of screen_buffer.
Shown(t) == \A p \in Rows \X Cols : t.framebuffer[p].ch = t.screen[p].ch
=============================================================================
