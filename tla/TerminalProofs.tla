--------------------------- MODULE TerminalProofs ---------------------------
(***************************************************************************)
(* The terminal under every sequence of calls, for screens of every size   *)
(* and every set of characters, colours and texts: the lemmas of           *)
(* VtermOpsProofs put together.  Then the console that writes to it: the   *)
(* keyboard driver catches up with the keyboard, and the keys and a panic  *)
(* leave the cursor on the screen, for every set of keys, size of the      *)
(* controller's buffer and size of the screen.                             *)
(***************************************************************************)
EXTENDS Vterm, Console, VtermOpsProofs

Ch == Chars \cup Letters \cup {Blank}

\* What holds between two calls.
TermInv == t \in Terminal(Ch, Colors, Shapes) /\ Synced(t)

\* The characters and texts of the callers are ones the terminal can show.
LEMMA TextsShowable ==
  /\ Blank \in Ch
  /\ Chars \cup {"NL", "BS"} \subseteq Ch \cup {"NL", "BS"}
  /\ Letters \subseteq Ch \cup {"NL", "BS"}
  /\ \A x \in Texts : x \in Seq(Ch \cup {"NL", "BS"})
<1>1. Chars \cup {"NL", "BS"} \subseteq Ch \cup {"NL", "BS"}
  BY DEF Ch
<1>2. ASSUME NEW x \in Texts PROVE x \in Seq(Ch \cup {"NL", "BS"})
  <2>1. x \in Seq(Chars \cup {"NL", "BS"})
    BY VtermAssumption
  <2> QED BY <1>1, <2>1
<1> QED BY <1>1, <1>2 DEF Ch

\* The terminal as kernel_main leaves it.
LEMMA TermEmpty ==
  ASSUME Init
  PROVE  TermInv /\ Streams(t) /\ Empty(Colors, t)
<1>1. PICK color \in Colors :
        t = vterm_init([vterm_set_cursor_visible(PowerOn(color), FALSE) EXCEPT !.mode = "BLOCK"],
                       color)
  BY DEF Init
<1> DEFINE Ch0 == {"NUL", "bios", Blank}
           x == PowerOn(color)
           y == vterm_set_cursor_visible(x, FALSE)
           z == [y EXCEPT !.mode = "BLOCK"]
<1>2. x \in Terminal(Ch0, Colors, Shapes)
  <2>1. /\ SCREEN_ROWS \in Nat /\ SCREEN_COLS \in Nat /\ SCREEN_ROWS > 0 /\ SCREEN_COLS > 0
    BY ScreenAssumption
  <2>2. 0 \in Rows /\ 0 \in Cols /\ 0 \in 0 .. SCREEN_COLS /\ 0 \in Nat
    BY <2>1 DEF Rows, Cols
  <2>3. 0 \in 0 .. SCREEN_ROWS * SCREEN_COLS - 1
    BY <2>1
  <2>4. [pos |-> 0, hidden |-> FALSE, shape |-> "LINE"] \in Crtc(Shapes)
    BY <2>3, VtermAssumption DEF Crtc
  <2>5. /\ [p \in Rows \X Cols |-> Cell("NUL", color)] \in Grid(Ch0, Colors)
        /\ [p \in Rows \X Cols |-> Cell("bios", color)] \in Grid(Ch0, Colors)
    BY DEF Grid, Cell
  <2>6. x \in Raw(Ch0, Colors, Shapes) /\ x.row = 0 /\ x.col = 0
    BY <2>2, <2>4, <2>5, VtermAssumption DEF Raw, PowerOn
  <2> QED BY <2>2, <2>6 DEF Terminal, OnScreen
<1> HIDE DEF x
<1>3. Kept(Ch0, Colors, Shapes, x, y)
  BY <1>2, SetCursorVisibleKept
<1> HIDE DEF y
<1>4. y \in Raw(Ch0, Colors, Shapes) /\ Flagged(y)
  BY <1>3 DEF Kept, Terminal, Synced
<1>5. z \in Raw(Ch0, Colors, Shapes) /\ z.visible = y.visible /\ z.hw = y.hw
  BY <1>4 DEF Raw
<1> HIDE DEF z
<1>6. Flagged(z)
  BY <1>4, <1>5 DEF Flagged
<1>7. /\ vterm_init(z, color) \in Terminal(Ch, Colors, Shapes)
      /\ Synced(vterm_init(z, color)) /\ Streams(vterm_init(z, color))
      /\ Empty(Colors, vterm_init(z, color))
  BY <1>5, <1>6, InitRenewed, TextsShowable
<1> QED BY <1>1, <1>7 DEF TermInv, x, y, z

\* So TermInv holds at first.
LEMMA TermInitial == Init => TermInv
BY TermEmpty

\* The step of a call that keeps what Kept says.
KeptStep == Kept(Ch, Colors, Shapes, t, t')

\* Every call but a change of the buffering mode and vterm_init keeps it.
LEMMA CallKept ==
  TermInv /\ (\/ SetCursorVisible \/ SetCursorShape \/ MoveCursor \/ SetColor \/ Clear \/ Flush
              \/ WriteChar \/ Write \/ WriteHex \/ WriteLabelHex \/ PrintAt \/ PrintAligned
              \/ TypeLetter \/ BackOne)
    => KeptStep
<1> SUFFICES ASSUME TermInv PROVE
       (\/ SetCursorVisible \/ SetCursorShape \/ MoveCursor \/ SetColor \/ Clear \/ Flush
        \/ WriteChar \/ Write \/ WriteHex \/ WriteLabelHex \/ PrintAt \/ PrintAligned
        \/ TypeLetter \/ BackOne) => KeptStep
  OBVIOUS
<1>0. /\ t \in Terminal(Ch, Colors, Shapes) /\ Synced(t) /\ Flagged(t) /\ Blank \in Ch
      /\ t \in Raw(Ch, Colors, Shapes) /\ t.row \in Rows /\ t.col \in 0 .. SCREEN_COLS
  BY TextsShowable DEF TermInv, Synced, Terminal, OnScreen
<1>00. RowArgs \subseteq Nat /\ ColArgs \subseteq Nat
  BY ScreenAssumption DEF RowArgs, ColArgs
<1>1. CASE SetCursorVisible
  BY <1>0, <1>1, SetCursorVisibleKept DEF SetCursorVisible, KeptStep
<1>2. CASE SetCursorShape
  BY <1>0, <1>2, SetCursorShapeKept DEF SetCursorShape, KeptStep
<1>3. CASE MoveCursor
  <2>1. PICK r \in RowArgs, c \in ColArgs : t' = vterm_move_cursor(t, r, c)
    BY <1>3 DEF MoveCursor
  <2> QED BY <1>0, <1>00, <2>1, MoveCursorKept DEF KeptStep
<1>4. CASE SetColor
  BY <1>0, <1>4, SetColorKept DEF SetColor, KeptStep
<1>5. CASE Clear
  <2>1. PICK color \in Colors : t' = vterm_clear(t, color)
    BY <1>5 DEF Clear
  <2>2. Renewed(Ch, Colors, Shapes, t, t')
    BY <1>0, <2>1, ClearRenewed
  <2> QED BY <2>2 DEF Renewed, Kept, KeptStep, Streams
<1>6. CASE Flush
  BY <1>0, <1>6, FlushKept DEF Flush, KeptStep
<1>7. CASE WriteChar
  <2>1. PICK c \in Chars \cup {"NL", "BS"} : t' = vterm_write_char(t, c)
    BY <1>7 DEF WriteChar
  <2>2. c \in Ch \cup {"NL", "BS"}
    BY TextsShowable
  <2> QED BY <1>0, <2>1, <2>2, WriteCharKept DEF KeptStep
<1>8. CASE Write
  BY <1>0, <1>8, TextsShowable, WriteKept DEF Write, KeptStep
<1>9. CASE WriteHex
  BY <1>0, <1>9, TextsShowable, WriteHexKept DEF WriteHex, KeptStep
<1>10. CASE WriteLabelHex
  BY <1>0, <1>10, TextsShowable, WriteLabelHexKept DEF WriteLabelHex, KeptStep
<1>11. CASE PrintAt
  <2>1. PICK r \in RowArgs, c \in ColArgs, x \in Texts : t' = vterm_print_at(t, r, c, x)
    BY <1>11 DEF PrintAt
  <2>2. r \in Nat /\ c \in Nat /\ x \in Seq(Ch \cup {"NL", "BS"})
    BY <1>00, TextsShowable
  <2> QED BY <1>0, <2>1, <2>2, PrintAtKept DEF KeptStep
<1>12. CASE PrintAligned
  <2>1. PICK r \in RowArgs, x \in Texts, a \in {"LEFT", "CENTER", "RIGHT"} :
          t' = vterm_print_aligned(t, r, x, a)
    BY <1>12 DEF PrintAligned
  <2>2. r \in Nat /\ x \in Seq(Ch \cup {"NL", "BS"})
    BY <1>00, TextsShowable
  <2> QED BY <1>0, <2>1, <2>2, PrintAlignedKept DEF KeptStep
<1>13. CASE TypeLetter
  <2>1. PICK c \in Letters : t' = vterm_write_char(t, c)
    BY <1>13 DEF TypeLetter
  <2>2. c \in Ch \cup {"NL", "BS"}
    BY TextsShowable
  <2> QED BY <1>0, <2>1, <2>2, WriteCharKept DEF KeptStep
<1>14. CASE BackOne
  BY <1>0, <1>14, WriteCharKept DEF BackOne, KeptStep
<1> QED
  BY <1>1, <1>2, <1>3, <1>4, <1>5, <1>6, <1>7, <1>8, <1>9, <1>10, <1>11, <1>12, <1>13, <1>14

\* A change of the buffering mode.
LEMMA ModeKept ==
  ASSUME TermInv, SetBufferingMode
  PROVE  TermInv' /\ t'.screen = t.screen /\ t'.framebuffer = t.framebuffer
<1>1. PICK m \in Modes : t' = [t EXCEPT !.mode = m]
  BY DEF SetBufferingMode
<1>2. /\ t' \in Raw(Ch, Colors, Shapes) /\ t'.visible = t.visible /\ t'.hw = t.hw
      /\ t'.screen = t.screen /\ t'.framebuffer = t.framebuffer
      /\ t'.row = t.row /\ t'.col = t.col
  BY <1>1 DEF TermInv, Terminal, Raw, Modes
<1>3. t' \in Terminal(Ch, Colors, Shapes)
  BY <1>2 DEF TermInv, Terminal, OnScreen
<1>4. Synced(t')
  BY <1>2, ShowSynced DEF TermInv
<1> QED BY <1>2, <1>3, <1>4 DEF TermInv

\* vterm_init, called again.
LEMMA ReinitKept ==
  ASSUME TermInv, Reinit
  PROVE  TermInv' /\ Streams(t')
<1>1. PICK color \in Colors : t' = vterm_init(t, color)
  BY DEF Reinit
<1>2. t \in Raw(Ch, Colors, Shapes) /\ Flagged(t)
  BY DEF TermInv, Terminal, Synced
<1> QED BY <1>1, <1>2, InitRenewed, TextsShowable DEF TermInv

\* Every step keeps the type of the data and the CRTC in step with it.
LEMMA TermStep == TermInv /\ [Next]_vars => TermInv'
<1> SUFFICES ASSUME TermInv, [Next]_vars PROVE TermInv'
  OBVIOUS
<1>1. CASE KeptStep
  BY <1>1 DEF KeptStep, Kept, TermInv
<1>2. CASE SetBufferingMode
  BY <1>2, ModeKept
<1>3. CASE Reinit
  BY <1>3, ReinitKept
<1>4. CASE UNCHANGED vars
  BY <1>4 DEF vars, TermInv
<1> QED BY <1>1, <1>2, <1>3, <1>4, CallKept DEF Next, Call

\* TermInv holds in every state.
LEMMA TermAlways == Spec => []TermInv
BY TermInitial, TermStep, PTL DEF Spec

\* The type of the terminal's data, for every size of the screen: between two
\* calls of the interface, the cursor that vterm_write_char and vterm_print_at
\* use, unchecked, as an index is on the screen or one column past its end.
THEOREM VtermTypeCorrect == Spec => []TypeOK
<1>1. TermInv => TypeOK
  <2> SUFFICES ASSUME TermInv PROVE TypeOK
    OBVIOUS
  <2>1. t \in Raw(Ch, Colors, Shapes) /\ t.row \in Rows /\ t.col \in 0 .. SCREEN_COLS
    BY DEF TermInv, Terminal, OnScreen
  <2>2. /\ t.screen \in Grid(Ch, Colors) /\ t.framebuffer \in Grid(Ch, Colors)
        /\ t.color \in Colors /\ t.shape \in Shapes /\ t.mode \in {"STREAM", "BLOCK"}
        /\ t.visible \in BOOLEAN /\ t.hw \in Crtc(Shapes)
    BY <2>1 DEF Raw
  <2>3. /\ t.hw.pos \in 0 .. SCREEN_ROWS * SCREEN_COLS - 1
        /\ t.hw.hidden \in BOOLEAN /\ t.hw.shape \in Shapes
    BY <2>2 DEF Crtc
  <2>4. Grid(Ch, Colors) = Cells
    BY DEF Grid, Cells, Ch
  <2> QED BY <2>1, <2>2, <2>3, <2>4 DEF TypeOK, Modes
<1> QED BY <1>1, TermAlways, PTL

\* The hardware cursor is where the terminal's cursor is whenever it is visible,
\* whichever calls moved it while it was hidden, wrapped a line or scrolled.
THEOREM VtermHardwareCursor == Spec => []HardwareCursor
<1>1. TermInv => HardwareCursor
  BY DEF TermInv, Synced, Flagged, HardwareCursor
<1> QED BY <1>1, TermAlways, PTL

\* No call made while the terminal streams lets the display fall behind
\* screen_buffer.
THEOREM VtermStreamShows == Spec => StreamShows
<1> DEFINE Step == t.mode = "STREAM" /\ Shown(t) /\ t'.mode = "STREAM" => Shown(t')
<1>1. TermInv /\ [Next]_vars => [Step]_vars
  <2> SUFFICES ASSUME TermInv, [Next]_vars, t.mode = "STREAM", Shown(t) PROVE Shown(t')
    OBVIOUS
  <2>1. CASE KeptStep
    BY <2>1 DEF KeptStep, Kept, Streams
  <2>2. CASE SetBufferingMode
    BY <2>2, ModeKept DEF Shown
  <2>3. CASE Reinit
    BY <2>3, ReinitKept DEF Streams
  <2>4. CASE UNCHANGED vars
    BY <2>4 DEF vars, Shown
  <2> QED BY <2>1, <2>2, <2>3, <2>4, CallKept DEF Next, Call
<1> QED BY <1>1, TermAlways, PTL DEF Spec, StreamShows

-----------------------------------------------------------------------------
(* The screen as one line: what somebody who types sees.                   *)

Size    == SCREEN_ROWS * SCREEN_COLS
Indices == 0 .. Size - 1

\* The cell with number k, counted row by row, and the number of a cell.
Place(k)    == <<k \div SCREEN_COLS, k % SCREEN_COLS>>
Index(r, c) == r * SCREEN_COLS + c

\* The numbers of the cells of different rows do not overlap.
LEMMA RowsApart ==
  ASSUME NEW q \in Nat, NEW r \in Nat, q < r
  PROVE  q * SCREEN_COLS + SCREEN_COLS <= r * SCREEN_COLS
<1>1. PICK d \in Nat : r = q + 1 + d
  <2>1. r - q - 1 \in Nat /\ r = q + 1 + (r - q - 1)
    OBVIOUS
  <2> QED BY <2>1
<1>2. PICK a \in Nat : a = q * SCREEN_COLS
  BY ScreenAssumption
<1>3. PICK b \in Nat : b = d * SCREEN_COLS
  BY ScreenAssumption
<1>4. r * SCREEN_COLS = a + SCREEN_COLS + b
  BY <1>1, <1>2, <1>3, ScreenAssumption
<1> QED BY <1>2, <1>3, <1>4, ScreenAssumption

\* Every cell has a number of its own.
LEMMA IndexInverse ==
  ASSUME NEW r \in Rows, NEW c \in Cols
  PROVE  Index(r, c) \in Indices /\ Place(Index(r, c)) = <<r, c>>
<1> DEFINE k == Index(r, c)
           q == k \div SCREEN_COLS
           m == k % SCREEN_COLS
<1>0. /\ SCREEN_ROWS \in Nat /\ SCREEN_COLS \in Nat \ {0} /\ r \in Nat /\ c \in Nat
      /\ c < SCREEN_COLS /\ r < SCREEN_ROWS
  BY ScreenAssumption DEF Rows, Cols
<1>1. PICK a \in Nat : a = r * SCREEN_COLS
  BY <1>0
<1>2. k \in Nat /\ k = a + c
  BY <1>0, <1>1 DEF Index
<1>3. a + SCREEN_COLS <= Size
  BY <1>0, <1>1, RowsApart DEF Size
<1>4. Size \in Nat
  BY <1>0 DEF Size
<1> HIDE DEF k
<1>5. q \in Nat /\ m \in Nat /\ m < SCREEN_COLS /\ k = SCREEN_COLS * q + m
  BY <1>0, <1>2
<1> HIDE DEF q, m
<1>6. PICK b \in Nat : b = q * SCREEN_COLS
  BY <1>0, <1>5
<1>7. k = b + m
  BY <1>0, <1>5, <1>6
<1>8. ~(q < r)
  <2> SUFFICES ASSUME q < r PROVE FALSE
    OBVIOUS
  <2>1. b + SCREEN_COLS <= a
    BY <1>0, <1>1, <1>5, <1>6, RowsApart
  <2> QED BY <1>0, <1>2, <1>5, <1>7, <2>1
<1>9. ~(r < q)
  <2> SUFFICES ASSUME r < q PROVE FALSE
    OBVIOUS
  <2>1. a + SCREEN_COLS <= b
    BY <1>0, <1>1, <1>5, <1>6, RowsApart
  <2> QED BY <1>0, <1>2, <1>5, <1>7, <2>1
<1>10. q = r /\ m = c
  BY <1>0, <1>1, <1>2, <1>5, <1>6, <1>7, <1>8, <1>9
<1>11. k \in Indices
  BY <1>0, <1>2, <1>3, <1>4 DEF Indices
<1> QED BY <1>10, <1>11 DEF Place, k, q, m

\* Every number is that of a cell.
LEMMA PlaceInverse ==
  ASSUME NEW k \in Indices
  PROVE  \E r \in Rows, c \in Cols : Place(k) = <<r, c>> /\ k = Index(r, c)
<1> DEFINE q == k \div SCREEN_COLS
           m == k % SCREEN_COLS
<1>0. /\ SCREEN_ROWS \in Nat /\ SCREEN_COLS \in Nat \ {0} /\ Size \in Nat
  BY ScreenAssumption DEF Size
<1>1. k \in Nat /\ k < Size
  BY <1>0 DEF Indices
<1>2. q \in Nat /\ m \in Cols /\ k = SCREEN_COLS * q + m
  BY <1>0, <1>1 DEF Cols
<1>3. Place(k) = <<q, m>>
  BY DEF Place
<1> HIDE DEF q, m
<1>4. PICK b \in Nat : b = q * SCREEN_COLS
  BY <1>0, <1>2
<1>5. k = Index(q, m) /\ b <= k
  BY <1>0, <1>1, <1>2, <1>4 DEF Index, Cols
<1>6. q < SCREEN_ROWS
  <2> SUFFICES ASSUME SCREEN_ROWS < q \/ SCREEN_ROWS = q PROVE FALSE
    BY <1>0, <1>2
  <2>1. CASE SCREEN_ROWS = q
    BY <1>0, <1>1, <1>4, <1>5, <2>1 DEF Size
  <2>2. CASE SCREEN_ROWS < q
    <3>1. Size + SCREEN_COLS <= b
      BY <1>0, <1>2, <1>4, <2>2, RowsApart DEF Size
    <3> QED BY <1>0, <1>1, <1>4, <1>5, <3>1
  <2> QED BY <2>1, <2>2
<1>7. q \in Rows
  BY <1>0, <1>2, <1>6 DEF Rows
<1> QED BY <1>2, <1>3, <1>5, <1>7

\* What Wrapped does to the cursor and to screen_buffer: nothing while the line
\* is not full, the start of the next line, or a scroll.
WrapsTo(u, w) ==
  \/ u.col < SCREEN_COLS /\ w = u
  \/ /\ u.col = SCREEN_COLS /\ u.row < SCREEN_ROWS - 1
     /\ w.row = u.row + 1 /\ w.col = 0 /\ w.screen = u.screen
  \/ /\ u.col = SCREEN_COLS /\ u.row = SCREEN_ROWS - 1
     /\ w.row = u.row /\ w.col = 0 /\ w.screen = UpOneRow(u)

\* Wrapped does one of these.
LEMMA WrappedWraps ==
  ASSUME NEW Co, NEW Sh, NEW A, Blank \in A, NEW u \in Terminal(A, Co, Sh), Synced(u)
  PROVE  WrapsTo(u, Wrapped(u))
<1>0. /\ u \in Raw(A, Co, Sh) /\ u.row \in Nat /\ u.col \in Nat
      /\ SCREEN_ROWS \in Nat /\ SCREEN_COLS \in Nat
      /\ u.row < SCREEN_ROWS /\ u.col <= SCREEN_COLS
  BY ScreenAssumption DEF Terminal, OnScreen, Raw, Rows
<1>1. CASE u.col < SCREEN_COLS
  <2>1. Wrapped(u) = u
    BY <1>0, <1>1 DEF Wrapped
  <2> QED BY <1>1, <2>1 DEF WrapsTo
<1>2. CASE u.col = SCREEN_COLS
  <2> DEFINE r == u.row + 1
             v == [u EXCEPT !.col = 0, !.row = r]
  <2>1. Wrapped(u) = IF v.row >= SCREEN_ROWS THEN vterm_scroll(v) ELSE v
    BY <1>0, <1>2 DEF Wrapped, Raw
  <2>2. r \in Nat /\ 0 \in Nat
    BY <1>0
  <2> HIDE DEF r
  <2>3. /\ v \in Raw(A, Co, Sh) /\ v.row = r /\ v.col = 0 /\ v.screen = u.screen
        /\ v.color = u.color /\ v.visible = u.visible /\ v.hw = u.hw
    BY <1>0, <2>2 DEF Raw
  <2> HIDE DEF v
  <2>4. Flagged(v)
    BY <2>3 DEF Synced, Flagged
  <2>5. CASE u.row < SCREEN_ROWS - 1
    BY <1>0, <1>2, <2>1, <2>3, <2>5 DEF WrapsTo, r
  <2>6. CASE u.row = SCREEN_ROWS - 1
    <3>1. Wrapped(u) = vterm_scroll(v)
      BY <1>0, <2>1, <2>3, <2>6 DEF r
    <3>2. /\ vterm_scroll(v).row = SCREEN_ROWS - 1 /\ vterm_scroll(v).col = 0
          /\ vterm_scroll(v).screen = UpOneRow(v)
      BY <2>3, <2>4, ScrollRenewed
    <3>3. UpOneRow(v) = UpOneRow(u)
      BY <2>3 DEF UpOneRow
    <3> QED BY <1>2, <2>6, <3>1, <3>2, <3>3 DEF WrapsTo
  <2> QED BY <1>0, <2>5, <2>6
<1> QED BY <1>0, <1>1, <1>2

\* A letter goes to the cell that Wrapped found.
LetterPut(u, v, c) ==
  LET w == Wrapped(u)
  IN  v.row = w.row /\ v.col = w.col + 1 /\ v.screen = WithCell(w, Cell(c, w.color))

\* vterm_write_char does so for every printable character.
LEMMA LetterWritten ==
  ASSUME NEW Co, NEW Sh, NEW A, Blank \in A, NEW u \in Terminal(A, Co, Sh), Synced(u),
         NEW c \in A, c \notin {"NL", "BS"}
  PROVE  LetterPut(u, vterm_write_char(u, c), c)
<1> DEFINE w == Wrapped(u)
           cell == Cell(c, w.color)
           v == Show([w EXCEPT !.screen[<<w.row, w.col>>] = cell], c)
           x == vterm_move_cursor(v, v.row, v.col + 1)
<1>1. vterm_write_char(u, c) = x
  BY Zenon DEF vterm_write_char
<1>2. w \in Raw(A, Co, Sh) /\ w.row \in Rows /\ w.col \in Cols
  BY WrappedFindsCell
<1> HIDE DEF w
<1>3. cell \in [ch : A, color : Co] /\ cell.ch = c
  BY <1>2 DEF Cell, Raw
<1> HIDE DEF cell
<1>4. /\ v \in Raw(A, Co, Sh) /\ v.row = w.row /\ v.col = w.col
      /\ v.screen = WithCell(w, cell)
  BY <1>2, <1>3, ShowKept
<1> HIDE DEF v
<1>5. /\ v.row \in Nat /\ v.row < SCREEN_ROWS /\ v.col + 1 \in Nat /\ v.col + 1 <= SCREEN_COLS
  BY <1>2, <1>4, ScreenAssumption DEF Rows, Cols
<1>6. x.row = v.row /\ x.col = v.col + 1 /\ x.screen = v.screen
  BY <1>4, <1>5, MoveCursorFields
<1> QED BY <1>1, <1>4, <1>6 DEF LetterPut, w, cell

\* The number of cells before the cursor, and the character of a cell.
Reach(u) == Index(u.row, u.col)
At(u, k) == u.screen[Place(k)].ch

\* What a letter does to the line of cells: it is added at its end, after the
\* first row made room if the screen is full.
Types(u, v, c) ==
  IF Reach(u) < Size
  THEN /\ Reach(v) = Reach(u) + 1
       /\ \A k \in Indices : At(v, k) = (IF k = Reach(u) THEN c ELSE At(u, k))
  ELSE /\ Reach(v) = Size - SCREEN_COLS + 1
       /\ \A k \in Indices :
            At(v, k) = (IF k < Size - SCREEN_COLS THEN At(u, k + SCREEN_COLS)
                        ELSE IF k = Size - SCREEN_COLS THEN c ELSE Blank)

\* What a backspace does to it: the last cell is emptied.
Erased(u, v) ==
  IF Reach(u) = 0 THEN v = u
  ELSE /\ Reach(v) = Reach(u) - 1
       /\ \A k \in Indices : At(v, k) = (IF k = Reach(u) - 1 THEN Blank ELSE At(u, k))

\* A cell is written at the cursor: the cell with that number changes and no other.
LEMMA CellChanged ==
  ASSUME NEW Co, NEW A, NEW w, w.screen \in Grid(A, Co), w.row \in Rows, w.col \in Cols,
         NEW cell
  PROVE  \A k \in Indices :
           WithCell(w, cell)[Place(k)] = (IF k = Reach(w) THEN cell ELSE w.screen[Place(k)])
<1> SUFFICES ASSUME NEW k \in Indices
             PROVE  WithCell(w, cell)[Place(k)]
                      = (IF k = Reach(w) THEN cell ELSE w.screen[Place(k)])
  OBVIOUS
<1>1. PICK q \in Rows, m \in Cols : Place(k) = <<q, m>> /\ k = Index(q, m)
  BY PlaceInverse
<1>2. Place(k) \in Rows \X Cols /\ DOMAIN w.screen = Rows \X Cols
  BY <1>1 DEF Grid
<1>3. CASE k = Reach(w)
  <2>1. Place(k) = <<w.row, w.col>>
    BY <1>3, IndexInverse DEF Reach
  <2> QED BY <1>2, <1>3, <2>1 DEF WithCell
<1>4. CASE k # Reach(w)
  <2>1. Place(k) # <<w.row, w.col>>
    BY <1>1, <1>4 DEF Reach
  <2> QED BY <1>2, <1>4, <2>1 DEF WithCell
<1> QED BY <1>3, <1>4

\* Where the row above starts, and the last row.
LEMMA ReachRows ==
  ASSUME NEW r \in Rows
  PROVE  /\ Index(r, SCREEN_COLS) = Index(r + 1, 0)
         /\ Index(SCREEN_ROWS - 1, 0) = Size - SCREEN_COLS
         /\ Size \in Nat /\ SCREEN_COLS <= Size
         /\ Index(r, SCREEN_COLS) = Size <=> r = SCREEN_ROWS - 1
<1>0. /\ SCREEN_ROWS \in Nat \ {0} /\ SCREEN_COLS \in Nat \ {0} /\ r \in Nat
      /\ r < SCREEN_ROWS /\ SCREEN_ROWS - 1 \in Nat
  BY ScreenAssumption DEF Rows
<1>1. PICK a \in Nat : a = r * SCREEN_COLS
  BY <1>0
<1>2. PICK b \in Nat : b = (SCREEN_ROWS - 1) * SCREEN_COLS
  BY <1>0
<1>3. Size = b + SCREEN_COLS
  BY <1>0, <1>2 DEF Size
<1>4. (r + 1) * SCREEN_COLS = a + SCREEN_COLS
  BY <1>0, <1>1
<1>5. r < SCREEN_ROWS - 1 => a + SCREEN_COLS <= b
  BY <1>0, <1>1, <1>2, RowsApart
<1>6. r = SCREEN_ROWS - 1 => a = b
  BY <1>1, <1>2
<1> QED BY <1>0, <1>1, <1>2, <1>3, <1>4, <1>5, <1>6 DEF Index

\* The backspace of vterm_write_char.
LEMMA BackSpaceErases ==
  ASSUME NEW Co, NEW Sh, NEW A, Blank \in A, NEW u \in Terminal(A, Co, Sh)
  PROVE  Erased(u, BackSpace(u))
<1>0. /\ u \in Raw(A, Co, Sh) /\ u.row \in Nat /\ u.col \in Nat /\ u.row \in Rows
      /\ SCREEN_ROWS \in Nat \ {0} /\ SCREEN_COLS \in Nat \ {0}
      /\ u.row < SCREEN_ROWS /\ u.col <= SCREEN_COLS
  BY ScreenAssumption DEF Terminal, OnScreen, Raw, Rows
<1>1. CASE u.col = 0 /\ u.row = 0
  <2>1. BackSpace(u) = u
    BY <1>1 DEF BackSpace
  <2>2. Reach(u) = 0
    BY <1>0, <1>1 DEF Reach, Index
  <2> QED BY <2>1, <2>2 DEF Erased
<1>2. CASE ~(u.col = 0 /\ u.row = 0)
  <2> DEFINE r == IF u.col > 0 THEN u.row ELSE u.row - 1
             c == IF u.col > 0 THEN u.col - 1 ELSE SCREEN_COLS - 1
             v == vterm_move_cursor(u, r, c)
             cell == [v.screen[<<v.row, v.col>>] EXCEPT !.ch = Blank]
             w == Show([v EXCEPT !.screen[<<v.row, v.col>>] = cell], cell.ch)
  <2>1. r \in Rows /\ c \in Cols /\ r \in Nat /\ c \in Nat /\ r < SCREEN_ROWS /\ c <= SCREEN_COLS
    BY <1>0, <1>2 DEF Rows, Cols
  <2>2. Reach(u) # 0 /\ Index(r, c) = Reach(u) - 1
    <3>1. PICK a \in Nat : a = u.row * SCREEN_COLS
      BY <1>0
    <3>2. Reach(u) = a + u.col
      BY <3>1 DEF Reach, Index
    <3>3. CASE u.col > 0
      BY <1>0, <3>1, <3>2, <3>3 DEF Index
    <3>4. CASE u.col = 0
      <4>1. u.row - 1 \in Rows /\ u.row - 1 \in Nat /\ (u.row - 1) + 1 = u.row
        BY <1>0, <1>2, <3>4 DEF Rows
      <4>2. Index(u.row - 1, SCREEN_COLS) = Index(u.row, 0)
        BY <4>1, ReachRows
      <4>3. PICK b \in Nat : b = (u.row - 1) * SCREEN_COLS
        BY <1>0, <4>1
      <4>4. b + SCREEN_COLS = a
        BY <1>0, <3>1, <4>2, <4>3 DEF Index
      <4>5. Index(r, c) = b + (SCREEN_COLS - 1)
        BY <1>0, <3>4, <4>3 DEF Index
      <4> QED BY <1>0, <3>2, <3>4, <4>4, <4>5
    <3> QED BY <1>0, <3>3, <3>4
  <2>3. BackSpace(u) = Show([v EXCEPT !.screen[<<v.row, v.col>>].ch = Blank], Blank)
    BY <1>2 DEF BackSpace
  <2> HIDE DEF r, c
  <2>4. v \in Terminal(A, Co, Sh) /\ v.row = r /\ v.col = c /\ v.screen = u.screen
    BY <1>0, <2>1, MoveCursorFields
  <2> HIDE DEF v
  <2>41. v \in Raw(A, Co, Sh)
    BY <2>4 DEF Terminal
  <2>5. v.screen \in Grid(A, Co) /\ <<v.row, v.col>> \in Rows \X Cols
    BY <2>1, <2>4, <2>41 DEF Raw
  <2>6. v.screen[<<v.row, v.col>>] \in [ch : A, color : Co]
    BY <2>5 DEF Grid
  <2>7. cell \in [ch : A, color : Co] /\ cell.ch = Blank
    BY <2>6
  <2>8. [v EXCEPT !.screen[<<v.row, v.col>>] = cell]
          = [v EXCEPT !.screen[<<v.row, v.col>>].ch = Blank]
    BY <2>41, <2>5 DEF Raw, Grid
  <2>9. BackSpace(u) = w
    BY <2>3, <2>7, <2>8
  <2> HIDE DEF cell
  <2>10. w.row = v.row /\ w.col = v.col /\ w.screen = WithCell(v, cell)
    BY <2>1, <2>4, <2>41, <2>7, ShowKept
  <2> HIDE DEF w
  <2>11. Reach(w) = Reach(u) - 1
    BY <2>2, <2>4, <2>10 DEF Reach
  <2>12. Reach(v) = Reach(u) - 1
    BY <2>2, <2>4 DEF Reach
  <2>13. \A k \in Indices :
           WithCell(v, cell)[Place(k)] = (IF k = Reach(v) THEN cell ELSE v.screen[Place(k)])
    BY <2>1, <2>4, <2>5, CellChanged
  <2>14. \A k \in Indices : At(w, k) = (IF k = Reach(u) - 1 THEN Blank ELSE At(u, k))
    BY <2>4, <2>7, <2>10, <2>12, <2>13 DEF At
  <2> QED BY <2>2, <2>9, <2>11, <2>14 DEF Erased
<1> QED BY <1>1, <1>2

\* A scroll moves every cell one row towards the start of the line of cells.
LEMMA ScrollShifts ==
  ASSUME NEW u
  PROVE  \A k \in Indices :
           UpOneRow(u)[Place(k)].ch = (IF k < Size - SCREEN_COLS THEN At(u, k + SCREEN_COLS)
                                       ELSE Blank)
<1> SUFFICES ASSUME NEW k \in Indices
             PROVE  UpOneRow(u)[Place(k)].ch = (IF k < Size - SCREEN_COLS THEN At(u, k + SCREEN_COLS)
                                                ELSE Blank)
  OBVIOUS
<1>0. /\ SCREEN_ROWS \in Nat \ {0} /\ SCREEN_COLS \in Nat \ {0} /\ SCREEN_ROWS - 1 \in Nat
  BY ScreenAssumption
<1>1. PICK q \in Rows, m \in Cols : Place(k) = <<q, m>> /\ k = Index(q, m)
  BY PlaceInverse
<1>2. q \in Nat /\ q < SCREEN_ROWS /\ m \in Nat /\ m < SCREEN_COLS
  BY <1>0 DEF Rows, Cols
<1>3. PICK a \in Nat : a = q * SCREEN_COLS
  BY <1>0, <1>2
<1>4. PICK b \in Nat : b = (SCREEN_ROWS - 1) * SCREEN_COLS
  BY <1>0
<1>5. Size - SCREEN_COLS = b
  BY <1>0, <1>4 DEF Size
<1>6. k = a + m
  BY <1>1, <1>3 DEF Index
<1>7. UpOneRow(u)[Place(k)] = IF q = SCREEN_ROWS - 1 THEN Cell(Blank, u.color)
                              ELSE u.screen[<<q + 1, m>>]
  BY <1>1 DEF UpOneRow
<1>8. CASE q = SCREEN_ROWS - 1
  <2>1. ~(k < Size - SCREEN_COLS)
    BY <1>2, <1>3, <1>4, <1>5, <1>6, <1>8
  <2>2. UpOneRow(u)[Place(k)] = Cell(Blank, u.color)
    BY <1>7, <1>8
  <2> QED BY <2>1, <2>2 DEF Cell
<1>9. CASE q # SCREEN_ROWS - 1
  <2>1. q < SCREEN_ROWS - 1
    BY <1>0, <1>2, <1>9
  <2>2. a + SCREEN_COLS <= b
    BY <1>0, <1>2, <1>3, <1>4, <2>1, RowsApart
  <2>3. k < Size - SCREEN_COLS
    BY <1>0, <1>2, <1>5, <1>6, <2>2
  <2>4. q + 1 \in Rows
    BY <1>0, <1>2, <2>1 DEF Rows
  <2>5. Index(q + 1, m) = k + SCREEN_COLS
    <3>1. (q + 1) * SCREEN_COLS = a + SCREEN_COLS
      BY <1>0, <1>2, <1>3
    <3> QED BY <1>0, <1>2, <1>6, <3>1 DEF Index
  <2>6. Place(k + SCREEN_COLS) = <<q + 1, m>>
    BY <2>4, <2>5, IndexInverse
  <2> QED BY <1>7, <1>9, <2>3, <2>6 DEF At
<1> QED BY <1>8, <1>9

\* A letter.
LEMMA LetterTypes ==
  ASSUME NEW Co, NEW Sh, NEW A, Blank \in A, NEW u \in Terminal(A, Co, Sh), Synced(u),
         NEW c \in A, c \notin {"NL", "BS"}
  PROVE  Types(u, vterm_write_char(u, c), c)
<1> DEFINE v == vterm_write_char(u, c)
           w == Wrapped(u)
           cell == Cell(c, w.color)
<1>0. /\ SCREEN_ROWS \in Nat \ {0} /\ SCREEN_COLS \in Nat \ {0}
      /\ u \in Raw(A, Co, Sh) /\ u.row \in Rows /\ u.row \in Nat /\ u.col \in Nat
      /\ u.col <= SCREEN_COLS
  BY ScreenAssumption DEF Terminal, OnScreen, Raw
<1>1. LetterPut(u, v, c)
  BY LetterWritten
<1>2. WrapsTo(u, w)
  BY WrappedWraps
<1>3. w \in Raw(A, Co, Sh) /\ w.row \in Rows /\ w.col \in Cols
  BY WrappedFindsCell
<1> HIDE DEF v
<1>4. v.row = w.row /\ v.col = w.col + 1 /\ v.screen = WithCell(w, cell)
  BY <1>1 DEF LetterPut
<1> HIDE DEF w
<1>5. cell.ch = c
  BY DEF Cell
<1> HIDE DEF cell
<1>6. w.screen \in Grid(A, Co) /\ w.row \in Nat /\ w.col \in Nat
  BY <1>0, <1>3 DEF Raw
<1>7. \A k \in Indices : v.screen[Place(k)] = (IF k = Reach(w) THEN cell ELSE w.screen[Place(k)])
  BY <1>3, <1>4, <1>6, CellChanged
<1>8. \A k \in Indices : At(v, k) = (IF k = Reach(w) THEN c ELSE At(w, k))
  BY <1>5, <1>7 DEF At
<1>9. Reach(w) \in Indices /\ Size \in Nat
  BY <1>3, IndexInverse, ReachRows DEF Reach
<1>10. Reach(v) = Reach(w) + 1
  <2>1. PICK a \in Nat : a = w.row * SCREEN_COLS
    BY <1>0, <1>6
  <2> QED BY <1>4, <1>6, <2>1 DEF Reach, Index
<1>11. Reach(w) < Size
  BY <1>9 DEF Indices
<1>12. CASE u.col < SCREEN_COLS
  <2>1. w = u
    BY <1>0, <1>2, <1>12 DEF WrapsTo
  <2> QED BY <1>8, <1>10, <1>11, <2>1 DEF Types, v
<1>13. CASE u.col = SCREEN_COLS /\ u.row < SCREEN_ROWS - 1
  <2>1. w.row = u.row + 1 /\ w.col = 0 /\ w.screen = u.screen
    BY <1>0, <1>2, <1>13 DEF WrapsTo
  <2>2. Reach(u) = Reach(w)
    BY <1>0, <1>13, <2>1, ReachRows DEF Reach
  <2>3. \A k \in Indices : At(w, k) = At(u, k)
    BY <2>1 DEF At
  <2> QED BY <1>8, <1>10, <1>11, <2>2, <2>3 DEF Types, v
<1>14. CASE u.col = SCREEN_COLS /\ u.row = SCREEN_ROWS - 1
  <2>1. w.row = u.row /\ w.col = 0 /\ w.screen = UpOneRow(u)
    BY <1>0, <1>2, <1>14 DEF WrapsTo
  <2>2. Reach(w) = Size - SCREEN_COLS
    BY <1>0, <1>14, <2>1, ReachRows DEF Reach
  <2>3. ~(Reach(u) < Size)
    BY <1>0, <1>9, <1>14, ReachRows DEF Reach
  <2>4. \A k \in Indices : At(w, k) = (IF k < Size - SCREEN_COLS THEN At(u, k + SCREEN_COLS)
                                       ELSE Blank)
    BY <2>1, ScrollShifts DEF At
  <2>5. \A k \in Indices :
          At(v, k) = (IF k < Size - SCREEN_COLS THEN At(u, k + SCREEN_COLS)
                      ELSE IF k = Size - SCREEN_COLS THEN c ELSE Blank)
    BY <1>8, <1>9, <2>2, <2>4, <1>0 DEF Indices
  <2> QED BY <1>10, <2>2, <2>3, <2>5 DEF Types, v
<1>15. u.row < SCREEN_ROWS - 1 \/ u.row = SCREEN_ROWS - 1
  BY <1>0 DEF Rows
<1> QED BY <1>0, <1>12, <1>13, <1>14, <1>15

\* The cells before the cursor are cells of the screen.
LEMMA ReachBound ==
  ASSUME NEW u, OnScreen(u)
  PROVE  Reach(u) \in 0 .. Size /\ Size \in Nat
<1>0. /\ SCREEN_ROWS \in Nat \ {0} /\ SCREEN_COLS \in Nat \ {0}
      /\ u.row \in Rows /\ u.row \in Nat /\ u.row < SCREEN_ROWS
      /\ u.col \in Nat /\ u.col <= SCREEN_COLS
  BY ScreenAssumption DEF OnScreen, Rows
<1>1. PICK a \in Nat : a = u.row * SCREEN_COLS
  BY <1>0
<1>2. a + SCREEN_COLS <= Size /\ Size \in Nat
  BY <1>0, <1>1, RowsApart DEF Size
<1>3. Reach(u) = a + u.col
  BY <1>1 DEF Reach, Index
<1> QED BY <1>0, <1>1, <1>2, <1>3

\* Nothing is written at or after the cursor.
Ahead(u) == \A k \in Indices : k >= Reach(u) => At(u, k) = Blank

\* A letter and a backspace leave nothing behind that is after the cursor.
LEMMA AheadKept ==
  ASSUME NEW u, NEW v, NEW c, OnScreen(u), Ahead(u), Types(u, v, c) \/ Erased(u, v)
  PROVE  Ahead(v)
<1>0. Reach(u) \in Nat /\ Reach(u) <= Size /\ Size \in Nat /\ SCREEN_COLS \in Nat
  BY ReachBound, ScreenAssumption
<1> SUFFICES ASSUME NEW k \in Indices, k >= Reach(v) PROVE At(v, k) = Blank
  BY DEF Ahead
<1>1. k \in Nat /\ k < Size
  BY <1>0 DEF Indices
<1>2. CASE Types(u, v, c) /\ Reach(u) < Size
  <2>1. Reach(v) = Reach(u) + 1 /\ At(v, k) = (IF k = Reach(u) THEN c ELSE At(u, k))
    BY <1>2 DEF Types
  <2>2. k # Reach(u) /\ k >= Reach(u)
    BY <1>0, <1>1, <2>1
  <2> QED BY <2>1, <2>2 DEF Ahead
<1>3. CASE Types(u, v, c) /\ ~(Reach(u) < Size)
  <2>1. /\ Reach(v) = Size - SCREEN_COLS + 1
        /\ At(v, k) = (IF k < Size - SCREEN_COLS THEN At(u, k + SCREEN_COLS)
                       ELSE IF k = Size - SCREEN_COLS THEN c ELSE Blank)
    BY <1>3 DEF Types
  <2>2. ~(k < Size - SCREEN_COLS) /\ k # Size - SCREEN_COLS
    BY <1>0, <1>1, <2>1
  <2> QED BY <2>1, <2>2
<1>4. CASE Erased(u, v) /\ Reach(u) = 0
  BY <1>4 DEF Erased, Ahead
<1>5. CASE Erased(u, v) /\ Reach(u) # 0
  <2>1. Reach(v) = Reach(u) - 1 /\ At(v, k) = (IF k = Reach(u) - 1 THEN Blank ELSE At(u, k))
    BY <1>5 DEF Erased
  <2>2. k # Reach(u) - 1 => k >= Reach(u)
    BY <1>0, <1>1, <2>1
  <2> QED BY <2>1, <2>2 DEF Ahead
<1> QED BY <1>2, <1>3, <1>4, <1>5

\* Somebody types on a terminal that streams.
TypistInv == typing => Streams(t) /\ Ahead(t)

\* The screen is empty when the typist starts.
LEMMA TypistInitial == Init => TypistInv
<1> SUFFICES ASSUME Init PROVE Streams(t) /\ Ahead(t)
  BY DEF TypistInv
<1>1. Streams(t) /\ Empty(Colors, t)
  BY TermEmpty
<1>2. ASSUME NEW k \in Indices PROVE At(t, k) = Blank
  <2>1. PICK q \in Rows, m \in Cols : Place(k) = <<q, m>> /\ k = Index(q, m)
    BY PlaceInverse
  <2>2. t.screen[Place(k)] \in [ch : {Blank}, color : Colors]
    BY <1>1, <2>1 DEF Empty, Grid
  <2> QED BY <2>2 DEF At
<1> QED BY <1>1, <1>2 DEF Ahead

\* Each step of somebody who types, on the line of cells.
LEMMA TypistStep ==
  ASSUME TermInv, TypeLetter \/ BackOne
  PROVE  Erased(t, t') \/ \E c \in Letters : Types(t, t', c)
<1>0. t \in Terminal(Ch, Colors, Shapes) /\ Synced(t) /\ Blank \in Ch
  BY DEF TermInv, Ch
<1>1. CASE TypeLetter
  <2>1. PICK c \in Letters : t' = vterm_write_char(t, c)
    BY <1>1 DEF TypeLetter
  <2>2. c \in Ch /\ c \notin {"NL", "BS"}
    BY VtermAssumption DEF Ch
  <2>3. Types(t, vterm_write_char(t, c), c)
    BY <1>0, <2>2, LetterTypes
  <2> QED BY <2>1, <2>3
<1>2. CASE BackOne
  <2>1. t' = BackSpace(t)
    BY <1>2 DEF BackOne, vterm_write_char
  <2> QED BY <1>0, <2>1, BackSpaceErases
<1> QED BY <1>1, <1>2

\* Every step keeps what holds for a typist.
LEMMA TypistKept == TermInv /\ TypistInv /\ [Next]_vars => TypistInv'
<1> SUFFICES ASSUME TermInv, TypistInv, [Next]_vars, typing' PROVE Streams(t') /\ Ahead(t')
  BY DEF TypistInv
<1>1. CASE UNCHANGED vars
  BY <1>1 DEF vars, TypistInv, Streams, Shown, Ahead, At, Reach
<1>2. CASE typing /\ (TypeLetter \/ BackOne)
  <2>1. KeptStep /\ OnScreen(t)
    BY <1>2, CallKept DEF TermInv, Terminal
  <2>2. Streams(t')
    BY <1>2, <2>1 DEF KeptStep, Kept, TypistInv
  <2>3. PICK c : Types(t, t', c) \/ Erased(t, t')
    BY <1>2, TypistStep
  <2>4. Ahead(t)
    BY <1>2 DEF TypistInv
  <2>5. Ahead(t')
    BY <2>1, <2>3, <2>4, AheadKept
  <2> QED BY <2>2, <2>5
<1> QED BY <1>1, <1>2 DEF Next

\* While somebody types, no scroll, wrap or backspace leaves a character on the
\* display at or after the cursor, for screens of every size.
THEOREM VtermBlankAhead == Spec => []BlankAhead
<1>1. Spec => []TypistInv
  BY TypistInitial, TypistKept, TermAlways, PTL DEF Spec
<1>2. TypistInv => BlankAhead
  <2> SUFFICES ASSUME Streams(t), Ahead(t), NEW p \in Rows \X Cols,
                      p[1] * SCREEN_COLS + p[2] >= t.row * SCREEN_COLS + t.col
               PROVE  t.framebuffer[p].ch = Blank
    BY DEF TypistInv, BlankAhead
  <2> DEFINE k == Index(p[1], p[2])
  <2>1. k \in Indices /\ Place(k) = p
    BY IndexInverse
  <2>2. k >= Reach(t)
    BY DEF Reach, Index
  <2>3. At(t, k) = Blank
    BY <2>1, <2>2 DEF Ahead
  <2> QED BY <2>1, <2>3 DEF At, Streams, Shown
<1> QED BY <1>1, <1>2, PTL

-----------------------------------------------------------------------------
(* The terminal implements Typewriter.                                     *)

\* The text before the cursor.
TextOf(u) == [i \in 1 .. Reach(u) |-> At(u, i - 1)]

\* It is a sequence of characters.
LEMMA TextIsSeq ==
  ASSUME NEW Co, NEW Sh, NEW A, NEW u \in Terminal(A, Co, Sh)
  PROVE  /\ TextOf(u) \in Seq(A) /\ Len(TextOf(u)) = Reach(u)
         /\ \A i \in 1 .. Reach(u) : TextOf(u)[i] = At(u, i - 1)
<1>0. OnScreen(u) /\ u.screen \in Grid(A, Co)
  BY DEF Terminal, Raw
<1>1. Reach(u) \in Nat /\ Reach(u) <= Size /\ Size \in Nat
  BY <1>0, ReachBound
<1>2. ASSUME NEW i \in 1 .. Reach(u) PROVE At(u, i - 1) \in A
  <2>1. i - 1 \in Indices
    BY <1>1 DEF Indices
  <2>2. PICK q \in Rows, m \in Cols : Place(i - 1) = <<q, m>>
    BY <2>1, PlaceInverse
  <2>3. u.screen[Place(i - 1)] \in [ch : A, color : Co]
    BY <1>0, <2>2 DEF Grid
  <2> QED BY <2>3 DEF At
<1>3. TextOf(u) \in [1 .. Reach(u) -> A]
  BY <1>2 DEF TextOf
<1>4. TextOf(u) \in Seq(A) /\ Len(TextOf(u)) = Reach(u)
  BY <1>1, <1>3
<1> QED BY <1>4 DEF TextOf

\* A letter is added to the text; the first row goes if the screen was full.
Lengthened(s, z, c) ==
  z = IF Len(s) = Size THEN Append(SubSeq(s, SCREEN_COLS + 1, Len(s)), c) ELSE Append(s, c)

\* What Types says of the cells, said of the text.
LEMMA LetterText ==
  ASSUME NEW Co, NEW Sh, NEW A, NEW u \in Terminal(A, Co, Sh), NEW v \in Terminal(A, Co, Sh),
         NEW c \in A, Types(u, v, c)
  PROVE  Lengthened(TextOf(u), TextOf(v), c)
<1> DEFINE s == TextOf(u)
           z == TextOf(v)
<1>1. s \in Seq(A) /\ Len(s) = Reach(u) /\ \A i \in 1 .. Reach(u) : s[i] = At(u, i - 1)
  BY TextIsSeq
<1>2. z \in Seq(A) /\ Len(z) = Reach(v) /\ \A i \in 1 .. Reach(v) : z[i] = At(v, i - 1)
  BY TextIsSeq
<1>3. /\ Reach(u) \in Nat /\ Reach(u) <= Size /\ Size \in Nat
      /\ SCREEN_COLS \in Nat \ {0} /\ SCREEN_COLS <= Size
  <2>1. OnScreen(u) /\ u.row \in Rows
    BY DEF Terminal, OnScreen
  <2> QED BY <2>1, ReachBound, ReachRows, ScreenAssumption
<1> HIDE DEF s, z
<1>4. CASE Len(s) # Size
  <2> DEFINE x == Append(s, c)
  <2>1. /\ Reach(v) = Reach(u) + 1
        /\ \A k \in Indices : At(v, k) = (IF k = Reach(u) THEN c ELSE At(u, k))
    BY <1>1, <1>3, <1>4 DEF Types
  <2>2. /\ x \in Seq(A) /\ Len(x) = Reach(u) + 1 /\ x[Reach(u) + 1] = c
        /\ \A i \in 1 .. Reach(u) : x[i] = s[i]
    BY <1>1, <1>3
  <2> HIDE DEF x
  <2>3. ASSUME NEW i \in 1 .. Reach(u) + 1 PROVE z[i] = x[i]
    <3>1. i - 1 \in Indices /\ i \in 1 .. Reach(v)
      BY <1>1, <1>3, <1>4, <2>1 DEF Indices
    <3>2. z[i] = At(v, i - 1)
      BY <1>2, <3>1
    <3>3. At(v, i - 1) = (IF i - 1 = Reach(u) THEN c ELSE At(u, i - 1))
      BY <2>1, <3>1
    <3>4. CASE i = Reach(u) + 1
      BY <1>3, <2>2, <3>2, <3>3, <3>4
    <3>5. CASE i # Reach(u) + 1
      <4>1. i \in 1 .. Reach(u) /\ i - 1 # Reach(u)
        BY <1>3, <3>5
      <4> QED BY <1>1, <2>2, <3>2, <3>3, <4>1
    <3> QED BY <3>4, <3>5
  <2>4. z = x
    BY <1>2, <1>3, <2>1, <2>2, <2>3, SeqEqual
  <2> QED BY <1>4, <2>4 DEF x, z, s, Lengthened
<1>5. CASE Len(s) = Size
  <2> DEFINE y == SubSeq(s, SCREEN_COLS + 1, Len(s))
             n == Size - SCREEN_COLS
             x == Append(y, c)
  <2>1. /\ Reach(v) = n + 1 /\ n \in Nat
        /\ \A k \in Indices : At(v, k) = (IF k < n THEN At(u, k + SCREEN_COLS)
                                          ELSE IF k = n THEN c ELSE Blank)
    BY <1>1, <1>3, <1>5 DEF Types
  <2>2. y \in Seq(A) /\ Len(y) = n /\ \A i \in 1 .. n : y[i] = s[i + SCREEN_COLS]
    <3>1. y \in Seq(A) /\ Len(y) = n
      BY <1>1, <1>3, <1>5
    <3>2. ASSUME NEW i \in 1 .. n PROVE y[i] = s[i + SCREEN_COLS]
      <4>1. y[i] = s[SCREEN_COLS + 1 + i - 1]
        BY <1>1, <1>3, <1>5
      <4>2. SCREEN_COLS + 1 + i - 1 = i + SCREEN_COLS
        BY <1>3
      <4> QED BY <4>1, <4>2
    <3> QED BY <3>1, <3>2
  <2> HIDE DEF y, n
  <2>3. /\ x \in Seq(A) /\ Len(x) = n + 1 /\ x[n + 1] = c
        /\ \A i \in 1 .. n : x[i] = y[i]
    BY <2>1, <2>2
  <2> HIDE DEF x
  <2>4. ASSUME NEW i \in 1 .. n + 1 PROVE z[i] = x[i]
    <3>1. i - 1 \in Indices /\ i \in 1 .. Reach(v)
      BY <1>3, <2>1 DEF Indices, n
    <3>2. z[i] = At(v, i - 1)
      BY <1>2, <3>1
    <3>3. CASE i = n + 1
      <4>1. i - 1 = n /\ ~(i - 1 < n)
        BY <2>1, <3>3
      <4>2. At(v, i - 1) = c
        BY <2>1, <3>1, <4>1
      <4> QED BY <2>3, <3>2, <3>3, <4>2
    <3>4. CASE i # n + 1
      <4>1. i \in 1 .. n /\ i - 1 < n /\ i + SCREEN_COLS \in 1 .. Reach(u)
            /\ (i + SCREEN_COLS) - 1 = (i - 1) + SCREEN_COLS
        BY <1>1, <1>3, <1>5, <2>1, <3>4 DEF n
      <4>2. At(v, i - 1) = At(u, (i - 1) + SCREEN_COLS)
        BY <2>1, <3>1, <4>1
      <4>3. s[i + SCREEN_COLS] = At(u, (i + SCREEN_COLS) - 1)
        BY <1>1, <4>1
      <4> QED BY <2>2, <2>3, <3>2, <4>1, <4>2, <4>3
    <3> QED BY <3>3, <3>4
  <2>5. z = x
    BY <1>2, <2>1, <2>3, <2>4, SeqEqual
  <2> QED BY <1>5, <2>5 DEF x, y, z, s, Lengthened
<1> QED BY <1>4, <1>5

\* A backspace takes the last character back.
LEMMA ErasedText ==
  ASSUME NEW Co, NEW Sh, NEW A, NEW u \in Terminal(A, Co, Sh), NEW v \in Terminal(A, Co, Sh),
         Erased(u, v), NEW s, s = TextOf(u)
  PROVE  v = u \/ (s # <<>> /\ TextOf(v) = SubSeq(s, 1, Len(s) - 1))
<1> DEFINE z == TextOf(v)
           x == SubSeq(s, 1, Len(s) - 1)
<1> SUFFICES ASSUME Reach(u) # 0 PROVE s # <<>> /\ z = x
  BY DEF Erased
<1>1. s \in Seq(A) /\ Len(s) = Reach(u) /\ \A i \in 1 .. Reach(u) : s[i] = At(u, i - 1)
  BY TextIsSeq
<1>2. z \in Seq(A) /\ Len(z) = Reach(v) /\ \A i \in 1 .. Reach(v) : z[i] = At(v, i - 1)
  BY TextIsSeq
<1>3. Reach(u) \in Nat /\ Reach(u) <= Size /\ Size \in Nat
  BY ReachBound DEF Terminal
<1> HIDE DEF z
<1>4. /\ Reach(v) = Reach(u) - 1
      /\ \A k \in Indices : At(v, k) = (IF k = Reach(u) - 1 THEN Blank ELSE At(u, k))
  BY DEF Erased
<1>5. s # <<>>
  BY <1>1
<1>6. /\ x \in Seq(A) /\ Len(x) = Reach(u) - 1
      /\ \A i \in 1 .. Reach(u) - 1 : x[i] = s[i]
  BY <1>1, <1>3
<1> HIDE DEF x
<1>7. ASSUME NEW i \in 1 .. Reach(u) - 1 PROVE z[i] = x[i]
  <2>1. i - 1 \in Indices /\ i \in 1 .. Reach(v) /\ i - 1 # Reach(u) - 1 /\ i \in 1 .. Reach(u)
    BY <1>3, <1>4 DEF Indices
  <2>2. z[i] = At(u, i - 1)
    BY <1>2, <1>4, <2>1
  <2> QED BY <1>1, <1>6, <2>1, <2>2
<1>8. z = x
  BY <1>2, <1>3, <1>4, <1>6, <1>7, SeqEqual
<1> QED BY <1>5, <1>8

\* The terminal is a Typewriter for somebody who only types letters and
\* backspaces, for screens of every size: every call of vterm_write_char maps
\* to one step of Typewriter or, for a backspace on an empty screen, to none.
THEOREM VtermImplements == Spec => ImplementsTypewriter
<1> DEFINE text == IF typing THEN TypedText ELSE <<>>
<1>1. TypedText = TextOf(t)
  BY DEF TypedText, TextOf, Reach, Index, At, Place
<1>2. Init => Typist!Init
  <2> SUFFICES ASSUME Init PROVE TextOf(t) = <<>>
    BY <1>1 DEF Typist!Init
  <2>1. t \in Terminal(Ch, Colors, Shapes) /\ t.row = 0 /\ t.col = 0
    BY TermEmpty DEF TermInv, Empty
  <2>2. Reach(t) = 0
    BY <2>1, ScreenAssumption DEF Reach, Index
  <2>3. TextOf(t) \in Seq(Ch) /\ Len(TextOf(t)) = 0
    BY <2>1, <2>2, TextIsSeq
  <2> QED BY <2>3
<1>3. TermInv /\ TermInv' /\ [Next]_vars => [Typist!Next]_text
  <2> SUFFICES ASSUME TermInv, TermInv', [Next]_vars PROVE [Typist!Next]_text
    OBVIOUS
  <2>1. TypedText' = TextOf(t')
    BY DEF TypedText, TextOf, Reach, Index, At, Place
  <2>2. CASE UNCHANGED vars
    BY <2>2, <1>1, <2>1 DEF vars
  <2>3. CASE ~typing /\ UNCHANGED typing
    BY <2>3
  <2>4. CASE typing /\ UNCHANGED typing /\ (TypeLetter \/ BackOne)
    <3>0. text = TextOf(t) /\ text' = TextOf(t')
      BY <1>1, <2>1, <2>4
    <3>1. t \in Terminal(Ch, Colors, Shapes) /\ t' \in Terminal(Ch, Colors, Shapes)
      BY DEF TermInv
    <3>2. CASE Erased(t, t')
      <4>1. t' = t \/ (text # <<>> /\ text' = SubSeq(text, 1, Len(text) - 1))
        BY <3>0, <3>1, <3>2, ErasedText
      <4>2. t' = t => text' = text
        BY <3>0
      <4> QED BY <4>1, <4>2 DEF Typist!Next, Typist!Erase
    <3>3. CASE \E c \in Letters : Types(t, t', c)
      <4>1. PICK c \in Letters : Types(t, t', c)
        BY <3>3
      <4>2. c \in Ch
        BY DEF Ch
      <4>3. Lengthened(TextOf(t), TextOf(t'), c)
        BY <3>1, <4>1, <4>2, LetterText
      <4>4. Typist!Type(c)
        BY <3>0, <4>3 DEF Typist!Type, Size, Lengthened
      <4> QED BY <4>4 DEF Typist!Next
    <3> QED BY <2>4, <3>2, <3>3, TypistStep
  <2> QED BY <2>2, <2>3, <2>4 DEF Next
<1> QED BY <1>2, <1>3, TermAlways, PTL DEF Spec, ImplementsTypewriter, Typist!Spec

-----------------------------------------------------------------------------
(* The keyboard driver.                                                    *)

Byte == 0 .. 255

\* Byte i of the buffer b is a code of its own: neither the prefix nor what follows
\* one; e says whether the byte before the first one was the prefix.
PlainCode(b, e, i) == b[i] # Prefix /\ ~(IF i = 1 THEN e ELSE b[i - 1] = Prefix)

\* The bytes that will change shift_pressed.
ShiftBytes(b, e) == {i \in 1 .. Len(b) : PlainCode(b, e, i) /\ b[i] % Release \in ShiftCodes}

\* No key is received in part.
NotCut(b, e) == IF b = <<>> THEN ~e ELSE b[Len(b)] # Prefix

\* When the buffer is read, shift is not pressed: the last byte about it is a
\* release.
ShiftEnds(b, e, pressed) ==
  /\ \A i \in ShiftBytes(b, e) : b[i] < Release => \E j \in ShiftBytes(b, e) : j > i
  /\ pressed => ShiftBytes(b, e) # {}

DriverInv ==
  /\ buffer \in Seq(Byte) /\ is_extended \in BOOLEAN /\ shift_pressed \in BOOLEAN
  /\ held \subseteq Shifts
  /\ NotCut(buffer, is_extended)
  /\ held = {} => ShiftEnds(buffer, is_extended, shift_pressed)

-----------------------------------------------------------------------------
(* What sending a code and reading a byte do to the shift bytes.           *)

\* The codes of a key.
LEMMA KeyCodes ==
  ASSUME NEW k \in Keys, NEW code \in {k.code, k.code + Release}
  PROVE  /\ code \in Byte /\ code # Prefix /\ k.ext \in BOOLEAN
         /\ code % Release = k.code
         /\ code < Release <=> code = k.code
<1>1. k.code \in 1 .. 127 /\ k.code # 96 /\ k.ext \in BOOLEAN
  BY KeysAssumption
<1> QED BY <1>1 DEF Byte, Prefix, Release

\* The buffer b becomes d when the code c is sent without a prefix, ...
SentPlain(b, e, c, d) ==
  /\ d \in Seq(Byte) /\ NotCut(d, e)
  /\ \A i \in 1 .. Len(b) : d[i] = b[i]
  /\ d[Len(b) + 1] = c
  /\ ShiftBytes(d, e) = ShiftBytes(b, e) \cup
       (IF c % Release \in ShiftCodes THEN {Len(b) + 1} ELSE {})

\* ... when a code is sent with a prefix, ...
SentPrefixed(b, e, d) ==
  /\ d \in Seq(Byte) /\ NotCut(d, e)
  /\ \A i \in 1 .. Len(b) : d[i] = b[i]
  /\ ShiftBytes(d, e) = ShiftBytes(b, e)

\* ... and when its first byte is read; f says whether that was the prefix.
OneRead(b, e, d, f) ==
  /\ d \in Seq(Byte) /\ NotCut(d, f)
  /\ \A i \in 1 .. Len(d) : d[i] = b[i + 1]
  /\ Len(b) = Len(d) + 1
  /\ \A i \in 1 .. Len(d) : i \in ShiftBytes(d, f) <=> i + 1 \in ShiftBytes(b, e)

\* A code without a prefix after a key that was received whole.
LEMMA PlainSent ==
  ASSUME NEW b \in Seq(Byte), NEW e \in BOOLEAN, NotCut(b, e), NEW c \in Byte, c # Prefix,
         NEW d, d = b \o <<c>>
  PROVE  SentPlain(b, e, c, d)
<1> DEFINE n == Len(b)
<1>1. /\ d \in Seq(Byte) /\ Len(d) = n + 1 /\ n \in Nat
      /\ \A i \in 1 .. n : d[i] = b[i]
      /\ d[n + 1] = c
  OBVIOUS
<1>2. d # <<>> /\ NotCut(d, e)
  BY <1>1 DEF NotCut
<1>3. n = 0 <=> b = <<>>
  OBVIOUS
<1>4. PlainCode(d, e, n + 1)
  <2>1. CASE n = 0
    BY <1>1, <1>3, <2>1 DEF PlainCode, NotCut
  <2>2. CASE n # 0
    <3>1. d[n] = b[n] /\ b[n] # Prefix /\ (n + 1) - 1 = n /\ n + 1 # 1
      BY <1>1, <1>3, <2>2 DEF NotCut
    <3> QED BY <1>1, <3>1 DEF PlainCode
  <2> QED BY <2>1, <2>2
<1>5. \A i \in 1 .. n : PlainCode(d, e, i) <=> PlainCode(b, e, i)
  <2> TAKE i \in 1 .. n
  <2>1. d[i] = b[i] /\ (i # 1 => d[i - 1] = b[i - 1])
    BY <1>1
  <2> QED BY <2>1 DEF PlainCode
<1>6. ASSUME NEW i
      PROVE  i \in ShiftBytes(d, e) <=>
               i \in ShiftBytes(b, e) \/ (i = n + 1 /\ c % Release \in ShiftCodes)
  BY <1>1, <1>4, <1>5 DEF ShiftBytes
<1> QED BY <1>1, <1>2, <1>6 DEF SentPlain

\* A code with a prefix says nothing about shift, whatever code it is.
LEMMA PrefixedSent ==
  ASSUME NEW b \in Seq(Byte), NEW e \in BOOLEAN, NEW c \in Byte, c # Prefix,
         NEW d, d = b \o <<Prefix, c>>
  PROVE  SentPrefixed(b, e, d)
<1> DEFINE n == Len(b)
<1>0. Prefix \in Byte
  BY DEF Prefix, Byte
<1>1. /\ d \in Seq(Byte) /\ Len(d) = n + 2 /\ n \in Nat
      /\ \A i \in 1 .. n : d[i] = b[i]
      /\ d[n + 1] = Prefix /\ d[n + 2] = c
  BY <1>0
<1>2. d # <<>> /\ NotCut(d, e)
  BY <1>1 DEF NotCut
<1>3. ~PlainCode(d, e, n + 1) /\ ~PlainCode(d, e, n + 2)
  <2>1. (n + 2) - 1 = n + 1 /\ n + 2 # 1
    BY <1>1
  <2> QED BY <1>1, <2>1 DEF PlainCode
<1>4. \A i \in 1 .. n : PlainCode(d, e, i) <=> PlainCode(b, e, i)
  <2> TAKE i \in 1 .. n
  <2>1. d[i] = b[i] /\ (i # 1 => d[i - 1] = b[i - 1])
    BY <1>1
  <2> QED BY <2>1 DEF PlainCode
<1>5. ASSUME NEW i PROVE i \in ShiftBytes(d, e) <=> i \in ShiftBytes(b, e)
  <2>1. i \in 1 .. n + 2 <=> i \in 1 .. n \/ i = n + 1 \/ i = n + 2
    BY <1>1
  <2> QED BY <1>1, <1>3, <1>4, <2>1 DEF ShiftBytes
<1> QED BY <1>1, <1>2, <1>5 DEF SentPrefixed

\* A byte is read: the others keep their meaning.
LEMMA ByteRead ==
  ASSUME NEW b \in Seq(Byte), b # <<>>, NEW e \in BOOLEAN, NotCut(b, e),
         NEW d, d = Tail(b), NEW f \in BOOLEAN, f <=> b[1] = Prefix
  PROVE  OneRead(b, e, d, f)
<1> DEFINE n == Len(d)
<1>1. /\ d \in Seq(Byte) /\ n \in Nat /\ Len(b) = n + 1
      /\ \A i \in 1 .. n : d[i] = b[i + 1]
      /\ n = 0 <=> d = <<>>
  <2>1. /\ d \in Seq(Byte) /\ Len(d) = Len(b) - 1
        /\ \A i \in 1 .. Len(d) : d[i] = b[i + 1]
    BY HeadTailProperties
  <2>2. Len(b) \in Nat /\ n \in Nat
    BY <2>1, LenProperties
  <2>3. (n = 0 <=> d = <<>>)
    BY <2>1, EmptySeq
  <2> QED BY <2>1, <2>2, <2>3
<1>2. NotCut(d, f)
  <2>1. CASE n = 0
    <3>1. b[1] # Prefix
      BY <1>1, <2>1 DEF NotCut
    <3> QED BY <1>1, <2>1, <3>1 DEF NotCut
  <2>2. CASE n # 0
    <3>1. d[n] = b[n + 1]
      BY <1>1, <2>2
    <3> QED BY <1>1, <2>2, <3>1 DEF NotCut
  <2> QED BY <2>1, <2>2
<1>3. ASSUME NEW i \in 1 .. n
      PROVE  i \in ShiftBytes(d, f) <=> i + 1 \in ShiftBytes(b, e)
  <2>1. /\ d[i] = b[i + 1] /\ (i + 1) - 1 = i /\ i + 1 # 1 /\ i + 1 \in 1 .. n + 1
        /\ i # 1 => d[i - 1] = b[i]
    <3>1. i # 1 => i - 1 \in 1 .. n /\ (i - 1) + 1 = i
      BY <1>1
    <3> QED BY <1>1, <3>1
  <2>2. PlainCode(d, f, i) <=> PlainCode(b, e, i + 1)
    BY <2>1 DEF PlainCode
  <2> QED BY <1>1, <2>1, <2>2 DEF ShiftBytes
<1> QED BY <1>1, <1>2, <1>3 DEF OneRead

-----------------------------------------------------------------------------
(* The steps of the typist and of the driver.                              *)

\* What Send appends.
LEMMA SentBytes ==
  ASSUME NEW k \in Keys, NEW code, Send(k, code)
  PROVE  /\ k.ext => buffer' = buffer \o <<Prefix, code>>
         /\ ~k.ext => buffer' = buffer \o <<code>>
         /\ UNCHANGED <<shift_pressed, is_extended>>
BY DEF Send

\* A key is struck or let go.
LEMMA KeyKeepsDriver ==
  ASSUME DriverInv, NEW k \in Keys, PressKey(k) \/ ReleaseKey(k)
  PROVE  DriverInv'
<1> DEFINE n == Len(buffer)
           E == ShiftBytes(buffer, is_extended)
<1>0. /\ buffer \in Seq(Byte) /\ is_extended \in BOOLEAN /\ shift_pressed \in BOOLEAN
      /\ held \subseteq Shifts /\ NotCut(buffer, is_extended)
  BY DEF DriverInv
<1>1. PICK code \in {k.code, k.code + Release} :
        /\ Send(k, code)
        /\ \/ code = k.code /\ held' = held \cup ({k} \cap Shifts)
           \/ code = k.code + Release /\ held' = held \ {k} /\ (k \in Shifts => k \in held)
  BY DEF PressKey, ReleaseKey
<1>2. /\ code \in Byte /\ code # Prefix /\ k.ext \in BOOLEAN /\ code % Release = k.code
      /\ code < Release <=> code = k.code
  BY KeyCodes
<1>3. /\ k.ext => buffer' = buffer \o <<Prefix, code>>
      /\ ~k.ext => buffer' = buffer \o <<code>>
      /\ UNCHANGED <<shift_pressed, is_extended>>
  BY <1>1, SentBytes
<1>4. held' \subseteq Shifts
  BY <1>0, <1>1
<1>5. n \in Nat
  BY <1>0
<1>6. \A i \in E : i \in 1 .. n
  BY DEF ShiftBytes
<1>7. CASE k.ext
  <2>1. /\ buffer' \in Seq(Byte) /\ NotCut(buffer', is_extended)
        /\ \A i \in 1 .. n : buffer'[i] = buffer[i]
        /\ ShiftBytes(buffer', is_extended) = E
    <3>1. buffer' = buffer \o <<Prefix, code>>
      BY <1>3, <1>7
    <3>2. SentPrefixed(buffer, is_extended, buffer')
      BY <1>0, <1>2, <3>1, PrefixedSent
    <3> QED BY <3>2 DEF SentPrefixed
  <2>2. k \notin Shifts
    BY <1>7 DEF Shifts
  <2>3. held' = held
    BY <1>0, <1>1, <2>2
  <2>4. held = {} => ShiftEnds(buffer', is_extended, shift_pressed)
    BY <1>6, <2>1 DEF DriverInv, ShiftEnds
  <2> QED BY <1>0, <1>3, <2>1, <2>3, <2>4 DEF DriverInv
<1>8. CASE ~k.ext
  <2>1. /\ buffer' \in Seq(Byte) /\ NotCut(buffer', is_extended)
        /\ \A i \in 1 .. n : buffer'[i] = buffer[i]
        /\ buffer'[n + 1] = code
        /\ ShiftBytes(buffer', is_extended) =
             E \cup (IF code % Release \in ShiftCodes THEN {n + 1} ELSE {})
    <3>1. buffer' = buffer \o <<code>>
      BY <1>3, <1>8
    <3>2. SentPlain(buffer, is_extended, code, buffer')
      BY <1>0, <1>2, <3>1, PlainSent
    <3> QED BY <3>2 DEF SentPlain
  <2> HIDE DEF E
  <2>2. CASE k.code \in ShiftCodes
    <3>1. k \in Shifts /\ ShiftBytes(buffer', is_extended) = E \cup {n + 1}
      BY <1>2, <1>8, <2>1, <2>2 DEF Shifts
    <3>2. CASE held' = {}
      <4>1. ~(buffer'[n + 1] < Release)
        <5>1. code = k.code + Release
          BY <1>1, <3>1, <3>2
        <5>2. k.code \in Nat
          BY KeysAssumption
        <5>3. code # k.code
          BY <5>1, <5>2 DEF Release
        <5> QED BY <1>2, <2>1, <5>3
      <4>2. \A i \in E : n + 1 > i
        BY <1>5, <1>6
      <4>3. ShiftEnds(buffer', is_extended, shift_pressed)
        BY <3>1, <4>1, <4>2 DEF ShiftEnds
      <4> QED BY <1>0, <1>3, <1>4, <2>1, <4>3 DEF DriverInv
    <3>3. CASE held' # {}
      BY <1>0, <1>3, <1>4, <2>1, <3>3 DEF DriverInv
    <3> QED BY <3>2, <3>3
  <2>3. CASE k.code \notin ShiftCodes
    <3>1. k \notin Shifts /\ ShiftBytes(buffer', is_extended) = E
      BY <1>2, <2>1, <2>3 DEF Shifts
    <3>2. held' = held
      BY <1>0, <1>1, <3>1
    <3>3. held = {} => ShiftEnds(buffer', is_extended, shift_pressed)
      BY <1>6, <2>1, <3>1 DEF DriverInv, ShiftEnds, E
    <3> QED BY <1>0, <1>3, <2>1, <3>2, <3>3 DEF DriverInv
  <2> QED BY <2>2, <2>3
<1> QED BY <1>2, <1>7, <1>8

\* keyboard_handler reads a byte.
LEMMA HandlerKeepsDriver ==
  ASSUME DriverInv, keyboard_handler
  PROVE  DriverInv'
<1> DEFINE c == buffer[1]
           E == ShiftBytes(buffer, is_extended)
           F == ShiftBytes(buffer', is_extended')
           n == Len(buffer')
<1>0. /\ buffer \in Seq(Byte) /\ is_extended \in BOOLEAN /\ shift_pressed \in BOOLEAN
      /\ held \subseteq Shifts /\ NotCut(buffer, is_extended)
  BY DEF DriverInv
<1>1. /\ buffer # <<>> /\ buffer' = Tail(buffer) /\ held' = held
      /\ is_extended' = (c = Prefix)
      /\ shift_pressed' = IF (c # Prefix /\ ~is_extended) /\ c % Release \in ShiftCodes
                          THEN ~(c >= Release) ELSE shift_pressed
  BY <1>0 DEF keyboard_handler, Extended
<1>2. /\ buffer' \in Seq(Byte) /\ NotCut(buffer', is_extended')
      /\ \A i \in 1 .. n : buffer'[i] = buffer[i + 1]
      /\ Len(buffer) = n + 1
      /\ \A i \in 1 .. n : i \in F <=> i + 1 \in E
  <2>1. is_extended' \in BOOLEAN /\ (is_extended' <=> buffer[1] = Prefix)
    BY <1>1
  <2>2. OneRead(buffer, is_extended, buffer', is_extended')
    BY <1>0, <1>1, <2>1, ByteRead
  <2> QED BY <2>2 DEF OneRead
<1>3. n \in Nat /\ c \in Byte
  BY <1>0, <1>1, <1>2
<1>4. is_extended' \in BOOLEAN /\ shift_pressed' \in BOOLEAN
  BY <1>0, <1>1
<1>5. 1 \in E <=> (c # Prefix /\ ~is_extended) /\ c % Release \in ShiftCodes
  BY <1>2, <1>3 DEF ShiftBytes, PlainCode
<1>6. E \subseteq 1 .. n + 1 /\ F \subseteq 1 .. n
  BY <1>2 DEF ShiftBytes
<1>7. ASSUME held = {} PROVE ShiftEnds(buffer', is_extended', shift_pressed')
  <2>1. /\ \A i \in E : buffer[i] < Release => \E j \in E : j > i
        /\ shift_pressed => E # {}
    BY <1>7 DEF DriverInv, ShiftEnds
  <2> HIDE DEF E, F, n
  <2>2. \A j \in E : j > 1 => j - 1 \in F
    <3> TAKE j \in E
    <3> HAVE j > 1
    <3>1. j - 1 \in 1 .. n /\ (j - 1) + 1 = j
      BY <1>3, <1>6
    <3> QED BY <1>2, <3>1
  <2>3. \A i \in F : buffer'[i] < Release => \E j \in F : j > i
    <3> SUFFICES ASSUME NEW i \in F, buffer'[i] < Release PROVE \E j \in F : j > i
      OBVIOUS
    <3>1. i \in 1 .. n /\ i + 1 \in E /\ buffer[i + 1] < Release
      BY <1>2, <1>6
    <3>2. PICK j \in E : j > i + 1
      BY <2>1, <3>1
    <3>3. j \in Nat /\ i \in Nat /\ j > 1
      BY <1>3, <1>6, <3>1, <3>2
    <3>4. j - 1 \in F /\ j - 1 > i
      BY <2>2, <3>2, <3>3
    <3> QED BY <3>4
  <2>4. ASSUME shift_pressed' PROVE F # {}
    <3>1. CASE 1 \in E
      <4>1. c < Release
        <5>1. ~(c >= Release)
          BY <1>1, <1>5, <2>4, <3>1
        <5> QED BY <1>3, <5>1 DEF Byte, Release
      <4>2. PICK j \in E : j > 1
        BY <2>1, <3>1, <4>1
      <4> QED BY <2>2, <4>2
    <3>2. CASE 1 \notin E
      <4>1. shift_pressed
        BY <1>1, <1>5, <2>4, <3>2
      <4>2. PICK j \in E : j # 1
        BY <2>1, <3>2, <4>1
      <4>3. j > 1
        BY <1>3, <1>6, <4>2
      <4> QED BY <2>2, <4>2, <4>3
    <3> QED BY <3>1, <3>2
  <2> QED BY <2>3, <2>4 DEF ShiftEnds, F
<1> QED BY <1>0, <1>1, <1>2, <1>4, <1>7 DEF DriverInv

\* Every step keeps DriverInv.
LEMMA DriverStep == DriverInv /\ [ConsoleNext]_consoleVars => DriverInv'
<1> SUFFICES ASSUME DriverInv, [ConsoleNext]_consoleVars PROVE DriverInv'
  OBVIOUS
<1>1. CASE \E k \in Keys : PressKey(k) \/ ReleaseKey(k)
  BY <1>1, KeyKeepsDriver
<1>2. CASE keyboard_handler
  BY <1>2, HandlerKeepsDriver
<1>3. CASE kernel_panic \/ UNCHANGED consoleVars
  <2>1. UNCHANGED <<shift_pressed, is_extended, buffer, held>>
    BY <1>3 DEF kernel_panic, consoleVars
  <2> QED BY <2>1 DEF DriverInv, NotCut, ShiftEnds, ShiftBytes, PlainCode
<1> QED BY <1>1, <1>2, <1>3 DEF ConsoleNext

\* For every keyboard: when the buffer is empty, the driver waits for no second
\* byte and shift is pressed only if a shift key is held.
THEOREM ConsoleCaughtUp == ConsoleSpec => []CaughtUp
<1>1. ConsoleInit => DriverInv
  <2> SUFFICES ASSUME ConsoleInit PROVE DriverInv
    OBVIOUS
  <2>1. buffer = <<>> /\ held = {} /\ shift_pressed = FALSE /\ is_extended = FALSE
    BY DEF ConsoleInit
  <2>2. ShiftBytes(buffer, is_extended) = {}
    BY <2>1 DEF ShiftBytes
  <2>3. NotCut(buffer, is_extended) /\ ShiftEnds(buffer, is_extended, shift_pressed)
    BY <2>1, <2>2 DEF NotCut, ShiftEnds
  <2>4. buffer \in Seq(Byte) /\ held \subseteq Shifts
    BY <2>1
  <2>5. is_extended \in BOOLEAN /\ shift_pressed \in BOOLEAN
    BY <2>1
  <2> QED BY <2>3, <2>4, <2>5 DEF DriverInv
<1>2. DriverInv => CaughtUp
  <2> SUFFICES ASSUME DriverInv, buffer = <<>> PROVE ~is_extended /\ (shift_pressed => held # {})
    BY DEF CaughtUp
  <2>1. ShiftBytes(buffer, is_extended) = {}
    BY DEF ShiftBytes
  <2> QED BY <2>1 DEF DriverInv, NotCut, ShiftEnds
<1> QED BY <1>1, <1>2, DriverStep, PTL DEF ConsoleSpec

-----------------------------------------------------------------------------
(* The cursor.                                                             *)

\* The characters of the panic screens, of the two tables and of a blank screen.
ScreenChars == STRING \cup {"a", "A", "1", "!", "BS", "NL"} \cup {"NUL", "bios", Blank}

TermShapes == {"LINE", "BLOCK"}

\* What holds of the terminal between two handlers.
ScreenInv == terminal \in Terminal(ScreenChars, {Color}, TermShapes) /\ Synced(terminal)

\* The characters and the texts that are written are ones the terminal can show.
LEMMA CharsShowable ==
  /\ Blank \in ScreenChars
  /\ \A s \in Seq(STRING) : s \in Seq(ScreenChars \cup {"NL", "BS"})
<1>1. Blank \in ScreenChars
  BY DEF ScreenChars
<1>2. STRING \subseteq ScreenChars \cup {"NL", "BS"}
  BY DEF ScreenChars
<1>3. \A A, B : A \subseteq B => \A s \in Seq(A) : s \in Seq(B)
  OBVIOUS
<1>4. \A s \in Seq(STRING) : s \in Seq(ScreenChars \cup {"NL", "BS"})
  BY <1>2, <1>3, Zenon
<1> QED BY <1>1, <1>4

\* The terminal as kernel_main leaves it.
LEMMA ScreenInitial == ConsoleInit => ScreenInv
<1> SUFFICES ASSUME ConsoleInit PROVE ScreenInv
  OBVIOUS
<1> DEFINE x == PowerOn(Color)
           y == vterm_set_cursor_visible(x, FALSE)
           z == [y EXCEPT !.mode = "BLOCK"]
<1>1. terminal = vterm_init(z, Color)
  BY DEF ConsoleInit
<1>2. x \in Terminal(ScreenChars, {Color}, TermShapes)
  <2>1. /\ SCREEN_ROWS \in Nat /\ SCREEN_COLS \in Nat /\ SCREEN_ROWS > 0 /\ SCREEN_COLS > 0
    BY ScreenAssumption
  <2>2. 0 \in Rows /\ 0 \in Cols /\ 0 \in 0 .. SCREEN_COLS /\ 0 \in Nat
    BY <2>1 DEF Rows, Cols
  <2>3. 0 \in 0 .. SCREEN_ROWS * SCREEN_COLS - 1
    BY <2>1
  <2>4. [pos |-> 0, hidden |-> FALSE, shape |-> "LINE"] \in Crtc(TermShapes)
    BY <2>3 DEF Crtc, TermShapes
  <2>5. /\ [p \in Rows \X Cols |-> Cell("NUL", Color)] \in Grid(ScreenChars, {Color})
        /\ [p \in Rows \X Cols |-> Cell("bios", Color)] \in Grid(ScreenChars, {Color})
    BY DEF Grid, Cell, ScreenChars
  <2>6. x \in Raw(ScreenChars, {Color}, TermShapes) /\ x.row = 0 /\ x.col = 0
    BY <2>2, <2>4, <2>5 DEF Raw, PowerOn, TermShapes
  <2> QED BY <2>2, <2>6 DEF Terminal, OnScreen
<1> HIDE DEF x
<1>3. Kept(ScreenChars, {Color}, TermShapes, x, y)
  BY <1>2, SetCursorVisibleKept
<1> HIDE DEF y
<1>4. y \in Raw(ScreenChars, {Color}, TermShapes) /\ Flagged(y)
  BY <1>3 DEF Kept, Terminal, Synced
<1>5. z \in Raw(ScreenChars, {Color}, TermShapes) /\ z.visible = y.visible /\ z.hw = y.hw
  BY <1>4 DEF Raw
<1> HIDE DEF z
<1>6. Flagged(z)
  BY <1>4, <1>5 DEF Flagged
<1>7. terminal \in Terminal(ScreenChars, {Color}, TermShapes) /\ Synced(terminal)
  BY <1>1, <1>5, <1>6, InitRenewed, CharsShowable
<1> QED BY <1>7 DEF ScreenInv

\* The arrow keys: a row or column of 65535 is refused.
LEMMA ArrowKept ==
  ASSUME ScreenInv, NEW s
  PROVE  Kept(ScreenChars, {Color}, TermShapes, terminal, Arrow(terminal, s))
<1>1. /\ terminal \in Raw(ScreenChars, {Color}, TermShapes) /\ Flagged(terminal)
      /\ terminal.row \in Nat /\ terminal.col \in Nat
      /\ terminal.row \in Rows /\ terminal.col \in 0 .. SCREEN_COLS
  BY DEF ScreenInv, Terminal, OnScreen, Synced, Raw
<1> DEFINE up == (terminal.row - 1) % 65536
           down == (terminal.row + 1) % 65536
           left == (terminal.col - 1) % 65536
           right == (terminal.col + 1) % 65536
<1>2. up \in Nat /\ down \in Nat /\ left \in Nat /\ right \in Nat
  <2>1. \A i \in Int : i % 65536 \in Nat
    OBVIOUS
  <2>2. /\ terminal.row - 1 \in Int /\ terminal.row + 1 \in Int
        /\ terminal.col - 1 \in Int /\ terminal.col + 1 \in Int
    BY <1>1
  <2> QED BY <2>1, <2>2
<1>3. \/ Arrow(terminal, s) = vterm_move_cursor(terminal, up, terminal.col)
      \/ Arrow(terminal, s) = vterm_move_cursor(terminal, down, terminal.col)
      \/ Arrow(terminal, s) = vterm_move_cursor(terminal, terminal.row, left)
      \/ Arrow(terminal, s) = vterm_move_cursor(terminal, terminal.row, right)
      \/ Arrow(terminal, s) = terminal
  <2> DEFINE a == vterm_move_cursor(terminal, up, terminal.col)
             b == vterm_move_cursor(terminal, down, terminal.col)
             c == vterm_move_cursor(terminal, terminal.row, left)
             d == vterm_move_cursor(terminal, terminal.row, right)
  <2>1. Arrow(terminal, s) =
          CASE s = 72 -> a [] s = 80 -> b [] s = 75 -> c [] s = 77 -> d [] OTHER -> terminal
    BY DEF Arrow
  <2> HIDE DEF a, b, c, d
  <2>2. \/ Arrow(terminal, s) = a \/ Arrow(terminal, s) = b
        \/ Arrow(terminal, s) = c \/ Arrow(terminal, s) = d
        \/ Arrow(terminal, s) = terminal
    BY <2>1, Zenon
  <2> QED BY <2>2 DEF a, b, c, d
<1> HIDE DEF up, down, left, right
<1>4. \A r, c \in Nat : Kept(ScreenChars, {Color}, TermShapes, terminal, vterm_move_cursor(terminal, r, c))
  BY <1>1, MoveCursorKept
<1>5. Kept(ScreenChars, {Color}, TermShapes, terminal, terminal)
  BY DEF Kept, ScreenInv
<1> QED BY <1>1, <1>2, <1>3, <1>4, <1>5

\* The two tables hold characters.
LEMMA MapsHoldChars ==
  \A s \in DOMAIN kbd_us_map : kbd_us_map[s] \in ScreenChars /\ kbd_us_shifted_map[s] \in ScreenChars
<1> SUFFICES ASSUME NEW s \in DOMAIN kbd_us_map
             PROVE  kbd_us_map[s] \in ScreenChars /\ kbd_us_shifted_map[s] \in ScreenChars
  OBVIOUS
<1>1. /\ s \in {2, 14, 28, 30}
      /\ kbd_us_map[s] = CASE s = 2 -> "1" [] s = 14 -> "BS" [] s = 28 -> "NL" [] s = 30 -> "a"
  BY DEF kbd_us_map
<1>2. kbd_us_map[s] \in {"1", "BS", "NL", "a"}
  BY <1>1
<1>3. kbd_us_shifted_map[s] \in {"!", "A", kbd_us_map[s]}
  BY DEF kbd_us_shifted_map
<1> QED BY <1>2, <1>3 DEF ScreenChars

\* The other keys.
LEMMA TypedKept ==
  ASSUME ScreenInv, NEW s
  PROVE  Kept(ScreenChars, {Color}, TermShapes, terminal, Typed(terminal, s))
<1>1. CASE s \notin DOMAIN kbd_us_map
  <2>1. Typed(terminal, s) = terminal
    BY <1>1, Zenon DEF Typed
  <2> QED BY <2>1 DEF Kept, ScreenInv
<1>2. CASE s \in DOMAIN kbd_us_map
  <2>1. \/ Typed(terminal, s) = vterm_write_char(terminal, kbd_us_shifted_map[s])
        \/ Typed(terminal, s) = vterm_write_char(terminal, kbd_us_map[s])
    BY <1>2, Zenon DEF Typed
  <2>2. /\ kbd_us_shifted_map[s] \in ScreenChars \cup {"NL", "BS"}
        /\ kbd_us_map[s] \in ScreenChars \cup {"NL", "BS"}
    BY <1>2, MapsHoldChars
  <2> QED BY <2>1, <2>2, WriteCharKept, CharsShowable DEF ScreenInv
<1> QED BY <1>1, <1>2

-----------------------------------------------------------------------------
(* The panic screen.                                                       *)

\* PanicClear leaves a terminal that does not stream and has no cursor.
LEMMA PanicClearKept ==
  ASSUME NEW x \in Terminal(ScreenChars, {Color}, TermShapes), Synced(x)
  PROVE  /\ PanicClear(x) \in Terminal(ScreenChars, {Color}, TermShapes) /\ Synced(PanicClear(x))
         /\ PanicClear(x).mode = "BLOCK" /\ PanicClear(x).visible = FALSE
<1> DEFINE w == [x EXCEPT !.mode = "BLOCK"]
           v == vterm_clear(w, Color)
           u == vterm_set_cursor_visible(v, FALSE)
<1>1. /\ w \in Raw(ScreenChars, {Color}, TermShapes) /\ w.visible = x.visible /\ w.hw = x.hw
      /\ w.mode = "BLOCK"
  BY DEF Terminal, Raw
<1> HIDE DEF w
<1>2. Flagged(w)
  BY <1>1 DEF Flagged, Synced
<1>3. Renewed(ScreenChars, {Color}, TermShapes, w, v)
  BY <1>1, <1>2, ClearRenewed, CharsShowable
<1> HIDE DEF v
<1>4. v \in Terminal(ScreenChars, {Color}, TermShapes) /\ v.mode = "BLOCK"
  BY <1>1, <1>3 DEF Renewed
<1>5. Kept(ScreenChars, {Color}, TermShapes, v, u)
  BY <1>4, SetCursorVisibleKept
<1>6. u.visible = FALSE
  <2>1. u = [v EXCEPT !.visible = FALSE, !.hw.hidden = ~FALSE]
    BY DEF vterm_set_cursor_visible
  <2> QED BY <1>4, <2>1 DEF Terminal, Raw
<1> QED BY <1>4, <1>5, <1>6 DEF Kept, PanicClear, u, v, w

\* The data after each of the first n lines.
PrintLoop(x, lines, n, f) ==
  f = [k \in 0 .. n |-> IF k = 0 THEN x ELSE PrintLine(f[k - 1], lines[k])]

\* The loop of the lines has a result after every number of rounds.
LEMMA PrintLoopRuns ==
  ASSUME NEW x, NEW lines, NEW n \in Nat
  PROVE  \E f : PrintLoop(x, lines, n, f)
<1> DEFINE S == {m \in Nat : \E f : PrintLoop(x, lines, m, f)}
<1>1. 0 \in S
  <2>1. PrintLoop(x, lines, 0, [k \in 0 .. 0 |-> x])
    BY DEF PrintLoop
  <2> QED BY <2>1
<1>2. ASSUME NEW m \in Nat, m \in S PROVE m + 1 \in S
  <2>1. PICK f : PrintLoop(x, lines, m, f)
    BY <1>2
  <2> DEFINE c == PrintLine(f[m], lines[m + 1])
             g == [k \in 0 .. m + 1 |-> IF k = m + 1 THEN c ELSE f[k]]
  <2>2. ASSUME NEW k \in 0 .. m + 1
        PROVE  g[k] = IF k = 0 THEN x ELSE PrintLine(g[k - 1], lines[k])
    <3>1. CASE k = m + 1
      <4>1. k - 1 = m /\ g[m] = f[m] /\ k # 0
        BY <3>1
      <4> QED BY <3>1, <4>1
    <3>2. CASE k # m + 1
      <4>1. k \in 0 .. m /\ g[k] = f[k] /\ (k # 0 => g[k - 1] = f[k - 1])
        BY <3>2
      <4> QED BY <2>1, <4>1 DEF PrintLoop
    <3> QED BY <3>1, <3>2
  <2>3. PrintLoop(x, lines, m + 1, g)
    BY <2>2 DEF PrintLoop
  <2> QED BY <2>3
<1> HIDE DEF S
<1>3. Nat \subseteq S
  BY <1>1, <1>2, SetInduction
<1> QED BY <1>3 DEF S

\* PrintLines returns what the loop computes.
LEMMA PrintUnfolds ==
  ASSUME NEW x, NEW lines, Len(lines) \in Nat
  PROVE  \E f : PrintLoop(x, lines, Len(lines), f) /\ PrintLines(x, lines) = f[Len(lines)]
<1> DEFINE f == CHOOSE g : PrintLoop(x, lines, Len(lines), g)
<1>1. \E g : PrintLoop(x, lines, Len(lines), g)
  BY PrintLoopRuns
<1>2. PrintLoop(x, lines, Len(lines), f)
  BY <1>1, Zenon
<1>3. PrintLines(x, lines) = f[Len(lines)]
  BY Zenon DEF PrintLines, PrintLoop
<1> QED BY <1>2, <1>3

\* The lines of a panic screen, one by one.
Printable(lines) ==
  /\ Len(lines) \in Nat /\ DOMAIN lines = 1 .. Len(lines)
  /\ \A k \in 1 .. Len(lines) :
       /\ lines[k].row \in Rows /\ lines[k].text \in Seq(ScreenChars)
       /\ Len(lines[k].text) <= SCREEN_COLS
       /\ \A i \in 1 .. Len(lines[k].text) : lines[k].text[i] \notin {"NL", "BS"}
  /\ \A i, j \in 1 .. Len(lines) : i # j => lines[i].row # lines[j].row

\* What kernel_panic prints is printable.
LEMMA PanicPrintable ==
  ASSUME NEW lines \in PanicScreens
  PROVE  Printable(lines)
<1> DEFINE Text == Seq(STRING \ {"NL", "BS"})
           Line == [row : Rows, text : Text]
<1>1. /\ lines \in Seq(Line)
      /\ \A i \in DOMAIN lines : Len(lines[i].text) <= SCREEN_COLS
      /\ \A i, j \in DOMAIN lines : i < j => lines[i].row < lines[j].row
  BY PanicAssumption, Zenon
<1>2. \A s \in Text : s \in Seq(ScreenChars) /\ \A i \in 1 .. Len(s) : s[i] \notin {"NL", "BS"}
  <2>1. \A A, B, C : A \subseteq B /\ (\A a \in A : a \notin C) =>
          \A s \in Seq(A) : s \in Seq(B) /\ \A i \in 1 .. Len(s) : s[i] \notin C
    OBVIOUS
  <2> DEFINE A == STRING \ {"NL", "BS"}
             C == {"NL", "BS"}
  <2>2. A \subseteq ScreenChars /\ \A a \in A : a \notin C
    BY Zenon DEF ScreenChars
  <2> HIDE DEF A, C
  <2>3. \A s \in Seq(A) : s \in Seq(ScreenChars) /\ \A i \in 1 .. Len(s) : s[i] \notin C
    BY <2>1, <2>2
  <2> QED BY <2>3 DEF A, C
<1> HIDE DEF Text
<1>3. \A line \in Line : line.row \in Rows /\ line.text \in Text
  OBVIOUS
<1> HIDE DEF Line
<1>4. /\ Len(lines) \in Nat /\ DOMAIN lines = 1 .. Len(lines)
      /\ \A k \in 1 .. Len(lines) : lines[k] \in Line
  BY <1>1
<1>5. \A k \in 1 .. Len(lines) : lines[k].row \in Rows /\ lines[k].text \in Text
  BY <1>3, <1>4
<1>6. \A i, j \in 1 .. Len(lines) : i # j => lines[i].row # lines[j].row
  <2>1. \A i \in 1 .. Len(lines) : lines[i].row \in Int
    BY <1>5, ScreenAssumption DEF Rows
  <2>2. ASSUME NEW i \in 1 .. Len(lines), NEW j \in 1 .. Len(lines), i < j
        PROVE  lines[i].row # lines[j].row
    <3>1. lines[i].row < lines[j].row
      BY <1>1, <1>4, <2>2
    <3> QED BY <2>1, <3>1
  <2>3. \A i, j \in 1 .. Len(lines) : i # j => i < j \/ j < i
    BY <1>4
  <2> QED BY <2>2, <2>3
<1>7. \A k \in 1 .. Len(lines) :
        /\ lines[k].row \in Rows /\ lines[k].text \in Seq(ScreenChars)
        /\ Len(lines[k].text) <= SCREEN_COLS
        /\ \A i \in 1 .. Len(lines[k].text) : lines[k].text[i] \notin {"NL", "BS"}
  BY <1>1, <1>2, <1>4, <1>5
<1> QED BY <1>4, <1>6, <1>7 DEF Printable

\* The line is in screen_buffer.
LineWritten(x, line) ==
  LET first == (SCREEN_COLS - Len(line.text)) \div 2
  IN  \A i \in 1 .. Len(line.text) : x.screen[<<line.row, first + i - 1>>].ch = line.text[i]

\* The first n lines are, and nothing is shown yet.
Written(x, u, lines, n) ==
  /\ u \in Terminal(ScreenChars, {Color}, TermShapes) /\ Synced(u) /\ u.mode = "BLOCK"
  /\ u.visible = x.visible
  /\ \A k \in 1 .. n : LineWritten(u, lines[k])

\* One more line: it is not written over the earlier ones.
LEMMA LineKept ==
  ASSUME NEW lines, Printable(lines), NEW n \in Nat, n + 1 \in 1 .. Len(lines), NEW x, NEW y,
         Written(x, y, lines, n)
  PROVE  Written(x, PrintLine(y, lines[n + 1]), lines, n + 1)
<1> DEFINE r == lines[n + 1].row
           text == lines[n + 1].text
           c == (SCREEN_COLS - Len(text)) \div 2
           u == PrintLine(y, lines[n + 1])
<1>1. /\ y \in Terminal(ScreenChars, {Color}, TermShapes) /\ Synced(y) /\ y.mode = "BLOCK"
      /\ y.visible = x.visible
      /\ \A k \in 1 .. n : LineWritten(y, lines[k])
  BY DEF Written
<1>2. /\ r \in Rows /\ text \in Seq(ScreenChars) /\ Len(text) <= SCREEN_COLS
      /\ \A i \in 1 .. Len(text) : text[i] \notin {"NL", "BS"}
  BY DEF Printable
<1>3. u = vterm_print_aligned(y, r, text, "CENTER")
  BY DEF PrintLine
<1> HIDE DEF r, text, c, u
<1>4. Put(ScreenChars, {Color}, TermShapes, y, u, r, c, text, Len(text))
  <2>1. Blank \in ScreenChars
    BY CharsShowable
  <2> QED BY <1>1, <1>2, <1>3, <2>1, PrintCenterPuts DEF c
<1>5. /\ u \in Terminal(ScreenChars, {Color}, TermShapes) /\ Synced(u) /\ u.mode = "BLOCK"
      /\ u.visible = y.visible
      /\ \A i \in 1 .. Len(text) : u.screen[<<r, c + i - 1>>].ch = text[i]
      /\ \A p \in Rows \X Cols : p[1] # r => u.screen[p].ch = y.screen[p].ch
  BY <1>4 DEF Put
<1>6. LineWritten(u, lines[n + 1])
  BY <1>5 DEF LineWritten, r, c, text
<1>7. ASSUME NEW k \in 1 .. n PROVE LineWritten(u, lines[k])
  <2> DEFINE q == lines[k].row
             s == lines[k].text
             d == (SCREEN_COLS - Len(s)) \div 2
  <2>1. k \in 1 .. Len(lines) /\ k # n + 1 /\ Len(lines) \in Nat
    BY DEF Printable
  <2>2. q \in Rows /\ q # r /\ s \in Seq(ScreenChars) /\ Len(s) <= SCREEN_COLS
    BY <2>1 DEF Printable, r
  <2>3. \A i \in 1 .. Len(s) : y.screen[<<q, d + i - 1>>].ch = s[i]
    BY <1>1 DEF LineWritten
  <2> HIDE DEF q, s
  <2>4. Len(s) \in Nat /\ SCREEN_COLS \in Nat
    BY <2>2, ScreenAssumption
  <2>5. d \in Nat /\ d + Len(s) <= SCREEN_COLS
    BY <2>2, <2>4, CentreFits
  <2> HIDE DEF d
  <2>6. \A i \in 1 .. Len(s) : d + i - 1 \in Cols
    BY <2>4, <2>5 DEF Cols
  <2>7. \A i \in 1 .. Len(s) : u.screen[<<q, d + i - 1>>].ch = s[i]
    <3> TAKE i \in 1 .. Len(s)
    <3> DEFINE p == <<q, d + i - 1>>
    <3>1. p \in Rows \X Cols /\ p[1] # r
      BY <2>2, <2>6
    <3> HIDE DEF p
    <3>2. u.screen[p].ch = y.screen[p].ch
      BY <1>5, <3>1
    <3> QED BY <2>3, <3>2 DEF p
  <2> QED BY <2>7 DEF LineWritten, q, s, d
<1>8. \A k \in 1 .. n + 1 : LineWritten(u, lines[k])
  <2>1. \A k \in 1 .. n + 1 : k \in 1 .. n \/ k = n + 1
    OBVIOUS
  <2> QED BY <1>6, <1>7, <2>1
<1>9. Written(x, u, lines, n + 1)
  BY <1>1, <1>5, <1>8 DEF Written
<1> QED BY <1>9 DEF u

\* All lines.
LEMMA LinesWritten ==
  ASSUME NEW x \in Terminal(ScreenChars, {Color}, TermShapes), Synced(x), x.mode = "BLOCK",
         NEW lines, Printable(lines)
  PROVE  Written(x, PrintLines(x, lines), lines, Len(lines))
<1> DEFINE n == Len(lines)
<1>1. n \in Nat
  BY DEF Printable
<1>2. PICK f : PrintLoop(x, lines, n, f) /\ PrintLines(x, lines) = f[n]
  BY <1>1, PrintUnfolds
<1> DEFINE S == {k \in Nat : k <= n => Written(x, f[k], lines, k)}
<1>3. f[0] = x /\ \A k \in 1 .. n : f[k] = PrintLine(f[k - 1], lines[k])
  BY <1>1, <1>2 DEF PrintLoop
<1>4. Written(x, x, lines, 0)
  BY DEF Written
<1>5. 0 \in S
  BY <1>3, <1>4
<1>6. ASSUME NEW k \in Nat, k \in S PROVE k + 1 \in S
  <2>1. CASE k + 1 <= n
    <3>1. Written(x, f[k], lines, k) /\ k + 1 \in 1 .. n /\ (k + 1) - 1 = k
      BY <1>1, <1>6, <2>1
    <3>2. f[k + 1] = PrintLine(f[k], lines[k + 1])
      BY <1>3, <3>1
    <3>3. Written(x, f[k + 1], lines, k + 1)
      BY <3>1, <3>2, LineKept
    <3> QED BY <3>3
  <2>2. CASE ~(k + 1 <= n)
    BY <2>2
  <2> QED BY <2>1, <2>2
<1> HIDE DEF S
<1>7. n \in S /\ n <= n
  BY <1>1, <1>5, <1>6, SetInduction
<1>8. Written(x, f[n], lines, n)
  BY <1>7 DEF S
<1> QED BY <1>2, <1>8

\* A panic.
LEMMA PanicKept ==
  ASSUME ScreenInv, kernel_panic
  PROVE  ScreenInv' /\ PanicReadable'
<1>1. PICK lines \in PanicScreens : terminal' = PanicScreen(terminal, lines)
  BY DEF kernel_panic
<1>2. Printable(lines)
  BY PanicPrintable
<1> DEFINE x == PanicClear(terminal)
           y == PrintLines(x, lines)
           z == vterm_flush(y)
<1>3. /\ x \in Terminal(ScreenChars, {Color}, TermShapes) /\ Synced(x)
      /\ x.mode = "BLOCK" /\ x.visible = FALSE
  BY PanicClearKept DEF ScreenInv
<1> HIDE DEF x
<1>4. Written(x, y, lines, Len(lines))
  BY <1>2, <1>3, LinesWritten
<1> HIDE DEF y
<1>5. /\ y \in Terminal(ScreenChars, {Color}, TermShapes) /\ Flagged(y) /\ y.visible = FALSE
      /\ \A k \in 1 .. Len(lines) : LineWritten(y, lines[k])
  BY <1>3, <1>4 DEF Written, Synced
<1>6. Kept(ScreenChars, {Color}, TermShapes, y, z) /\ z.framebuffer = y.screen /\ z.visible = y.visible
  BY <1>5, FlushKept, FlushScreen
<1>7. terminal' = z
  BY <1>1 DEF PanicScreen, x, y
<1> HIDE DEF z
<1>8. ScreenInv'
  BY <1>6, <1>7 DEF Kept, ScreenInv
<1>9. terminal'.hw.hidden
  BY <1>5, <1>6, <1>7 DEF Kept, Synced, Flagged
<1>10. terminal'.framebuffer = y.screen
  BY <1>6, <1>7
<1>11. \A i \in DOMAIN lines : LineShown(lines[i])'
  BY <1>2, <1>5, <1>10 DEF Printable, LineWritten, LineShown
<1> QED BY <1>8, <1>9, <1>11 DEF PanicReadable

\* Every step keeps the type of the terminal.
LEMMA ScreenStep == ScreenInv /\ [ConsoleNext]_consoleVars => ScreenInv'
<1> SUFFICES ASSUME ScreenInv, [ConsoleNext]_consoleVars PROVE ScreenInv'
  OBVIOUS
<1>1. CASE \E k \in Keys : PressKey(k) \/ ReleaseKey(k)
  <2>1. terminal' = terminal
    BY <1>1 DEF PressKey, ReleaseKey, Send
  <2> QED BY <2>1 DEF ScreenInv
<1>2. CASE keyboard_handler
  <2>1. \/ terminal' = terminal \/ (\E s : terminal' = Arrow(terminal, s))
        \/ (\E s : terminal' = Typed(terminal, s))
    BY <1>2, Zenon DEF keyboard_handler
  <2>2. CASE terminal' = terminal
    BY <2>2 DEF ScreenInv
  <2>3. CASE Kept(ScreenChars, {Color}, TermShapes, terminal, terminal')
    BY <2>3 DEF Kept, ScreenInv
  <2> QED BY <2>1, <2>2, <2>3, ArrowKept, TypedKept
<1>3. CASE kernel_panic
  BY <1>3, PanicKept
<1>4. CASE UNCHANGED consoleVars
  BY <1>4 DEF consoleVars, ScreenInv
<1> QED BY <1>1, <1>2, <1>3, <1>4 DEF ConsoleNext

\* For every screen and keyboard: whatever keys are struck, the unsigned
\* arithmetic of the arrow keys, a wrapped line and a panic leave the cursor on
\* the screen or one column past its end.
THEOREM ConsoleCursorOnScreen == ConsoleSpec => []CursorOnScreen
<1>1. ScreenInv => CursorOnScreen
  BY DEF ScreenInv, Terminal, OnScreen, CursorOnScreen
<1> QED BY <1>1, ScreenInitial, ScreenStep, PTL DEF ConsoleSpec

\* Nothing writes to the terminal of a halted machine.
LEMMA ReadableStep == ScreenInv /\ PanicReadable /\ [ConsoleNext]_consoleVars => PanicReadable'
<1> SUFFICES ASSUME ScreenInv, PanicReadable, [ConsoleNext]_consoleVars PROVE PanicReadable'
  OBVIOUS
<1>1. CASE kernel_panic
  BY <1>1, PanicKept
<1>2. CASE keyboard_handler
  BY <1>2 DEF keyboard_handler, PanicReadable
<1>3. CASE (\E k \in Keys : PressKey(k) \/ ReleaseKey(k)) \/ UNCHANGED consoleVars
  <2>1. terminal' = terminal /\ halted' = halted
    BY <1>3 DEF PressKey, ReleaseKey, Send, consoleVars
  <2> QED BY <2>1 DEF PanicReadable, LineShown
<1> QED BY <1>1, <1>2, <1>3 DEF ConsoleNext

\* For every screen and every message that fits it: after a panic, at whatever
\* moment, every line is on the display, in its place.
THEOREM ConsolePanicReadable == ConsoleSpec => []PanicReadable
<1>1. ConsoleInit => PanicReadable
  BY DEF ConsoleInit, PanicReadable
<1> QED BY <1>1, ScreenInitial, ScreenStep, ReadableStep, PTL DEF ConsoleSpec
=============================================================================
