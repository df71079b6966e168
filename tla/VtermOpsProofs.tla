--------------------------- MODULE VtermOpsProofs ---------------------------
(***************************************************************************)
(* What each function of vterm.c preserves: the type of the terminal's     *)
(* data, the agreement of the hardware cursor with the software one, and   *)
(* of the display with screen_buffer while the terminal streams.           *)
(*                                                                         *)
(* A function of the interface leaves the cursor on the screen, but on the *)
(* way a full line may have put it one row below: Raw is the type in the   *)
(* middle of a function, Terminal the one between two.                     *)
(***************************************************************************)
EXTENDS VtermOps, SeqFilterProofs

Grid(Ch, Co) == [Rows \X Cols -> [ch : Ch, color : Co]]

Crtc(Sh) == [pos : 0 .. SCREEN_ROWS * SCREEN_COLS - 1, hidden : BOOLEAN, shape : Sh]

Raw(Ch, Co, Sh) ==
  [screen : Grid(Ch, Co), framebuffer : Grid(Ch, Co), row : Nat, col : Nat,
   color : Co, visible : BOOLEAN, shape : Sh, mode : {"STREAM", "BLOCK"}, hw : Crtc(Sh)]

OnScreen(t) == t.row \in Rows /\ t.col \in 0 .. SCREEN_COLS

Terminal(Ch, Co, Sh) == {t \in Raw(Ch, Co, Sh) : OnScreen(t)}

\* The CRTC hides the cursor when it is not visible ...
Flagged(t) == t.visible <=> ~t.hw.hidden

\* ... and shows it where it is when it is visible.
Synced(t) == Flagged(t) /\ (t.visible => t.hw.pos = HwPos(t.row, t.col))

Streams(t) == t.mode = "STREAM" /\ Shown(t)

\* What a call promises of the data t before it and u after it.
Kept(Ch, Co, Sh, t, u) ==
  /\ u \in Terminal(Ch, Co, Sh) /\ Synced(u)
  /\ u.mode = t.mode
  /\ Streams(t) => Streams(u)

\* What it promises if it also writes all of screen_buffer.
Renewed(Ch, Co, Sh, t, u) ==
  /\ u \in Terminal(Ch, Co, Sh) /\ Synced(u)
  /\ u.mode = t.mode
  /\ t.mode = "STREAM" => Streams(u)

-----------------------------------------------------------------------------
(* The cursor.                                                             *)

\* The CRTC has a position for every place of the cursor.
LEMMA HwPosOnScreen ==
  ASSUME NEW r \in Rows, NEW c \in 0 .. SCREEN_COLS
  PROVE  HwPos(r, c) \in 0 .. SCREEN_ROWS * SCREEN_COLS - 1
<1> DEFINE k == IF c >= SCREEN_COLS THEN SCREEN_COLS - 1 ELSE c
<1>0. SCREEN_ROWS \in Nat /\ SCREEN_COLS \in Nat /\ SCREEN_ROWS > 0 /\ SCREEN_COLS > 0
  BY ScreenAssumption
<1>1. r \in Nat /\ SCREEN_ROWS - 1 - r \in Nat
  BY <1>0 DEF Rows
<1>2. k \in Nat /\ k <= SCREEN_COLS - 1 /\ HwPos(r, c) = r * SCREEN_COLS + k
  BY <1>0 DEF HwPos
<1>3. PICK a \in Nat : a = (SCREEN_ROWS - 1 - r) * SCREEN_COLS
  BY <1>0, <1>1
<1>4. PICK b \in Nat : b = r * SCREEN_COLS
  BY <1>0, <1>1
<1>5. SCREEN_ROWS * SCREEN_COLS = a + b + SCREEN_COLS
  BY <1>0, <1>1, <1>3, <1>4
<1> HIDE DEF k
<1> QED BY <1>0, <1>2, <1>4, <1>5

\* vterm_move_cursor changes the cursor and, if it is visible, the CRTC.
LEMMA MoveCursorFields ==
  ASSUME NEW Ch, NEW Co, NEW Sh, NEW t \in Raw(Ch, Co, Sh), NEW r \in Nat, NEW c \in Nat,
         r < SCREEN_ROWS \/ t.row \in Rows, c <= SCREEN_COLS \/ t.col \in 0 .. SCREEN_COLS,
         NEW u, u = vterm_move_cursor(t, r, c)
  PROVE  /\ u \in Terminal(Ch, Co, Sh)
         /\ u.screen = t.screen /\ u.framebuffer = t.framebuffer
         /\ u.color = t.color /\ u.visible = t.visible
         /\ u.shape = t.shape /\ u.mode = t.mode
         /\ u.hw.hidden = t.hw.hidden
         /\ u.row = (IF r < SCREEN_ROWS THEN r ELSE t.row)
         /\ u.col = (IF c <= SCREEN_COLS THEN c ELSE t.col)
         /\ t.visible => u.hw.pos = HwPos(u.row, u.col)
<1> DEFINE row == IF r < SCREEN_ROWS THEN r ELSE t.row
           col == IF c <= SCREEN_COLS THEN c ELSE t.col
           pos == IF t.visible THEN HwPos(row, col) ELSE t.hw.pos
<1>1. row \in Rows /\ col \in 0 .. SCREEN_COLS
  BY ScreenAssumption DEF Rows
<1>2. HwPos(row, col) \in 0 .. SCREEN_ROWS * SCREEN_COLS - 1
  BY <1>1, HwPosOnScreen
<1>3. t.hw \in Crtc(Sh)
  BY DEF Raw
<1>4. u = [t EXCEPT !.row = row, !.col = col, !.hw = [t.hw EXCEPT !.pos = pos]]
  BY DEF vterm_move_cursor, Raw
<1>5. [t.hw EXCEPT !.pos = pos] \in Crtc(Sh)
  BY <1>2, <1>3 DEF Crtc
<1>6. row \in Nat /\ col \in Nat
  BY <1>1, ScreenAssumption DEF Rows
<1> HIDE DEF row, col, pos
<1>7. u \in Raw(Ch, Co, Sh) /\ u.row = row /\ u.col = col
      /\ u.hw = [t.hw EXCEPT !.pos = pos]
  BY <1>4, <1>5, <1>6 DEF Raw
<1>8. u \in Terminal(Ch, Co, Sh)
  BY <1>1, <1>7 DEF Terminal, OnScreen
<1>9. u.hw.hidden = t.hw.hidden /\ u.hw.pos = pos
  BY <1>3, <1>7 DEF Crtc
<1>10. /\ u.screen = t.screen /\ u.framebuffer = t.framebuffer
       /\ u.color = t.color /\ u.visible = t.visible
       /\ u.shape = t.shape /\ u.mode = t.mode
  BY <1>4 DEF Raw
<1> QED BY <1>7, <1>8, <1>9, <1>10 DEF row, col, pos

\* A call of vterm_move_cursor brings the CRTC up to date.
LEMMA MoveCursorKept ==
  ASSUME NEW Ch, NEW Co, NEW Sh, NEW t \in Raw(Ch, Co, Sh), NEW r \in Nat, NEW c \in Nat,
         r < SCREEN_ROWS \/ t.row \in Rows, c <= SCREEN_COLS \/ t.col \in 0 .. SCREEN_COLS,
         Flagged(t)
  PROVE  Kept(Ch, Co, Sh, t, vterm_move_cursor(t, r, c))
<1> DEFINE u == vterm_move_cursor(t, r, c)
<1> HIDE DEF u
<1>1. /\ u \in Terminal(Ch, Co, Sh)
      /\ u.screen = t.screen /\ u.framebuffer = t.framebuffer
      /\ u.visible = t.visible /\ u.mode = t.mode
      /\ u.hw.hidden = t.hw.hidden
      /\ t.visible => u.hw.pos = HwPos(u.row, u.col)
  BY MoveCursorFields DEF u
<1>2. Synced(u)
  BY <1>1 DEF Synced, Flagged
<1>3. Shown(t) => Shown(u)
  BY <1>1 DEF Shown
<1>4. Kept(Ch, Co, Sh, t, u)
  BY <1>1, <1>2, <1>3 DEF Kept, Streams
<1> QED BY <1>4 DEF u

\* vterm_set_cursor_visible
LEMMA SetCursorVisibleKept ==
  ASSUME NEW Ch, NEW Co, NEW Sh, NEW t \in Terminal(Ch, Co, Sh), NEW v \in BOOLEAN
  PROVE  Kept(Ch, Co, Sh, t, vterm_set_cursor_visible(t, v))
<1> DEFINE w == [t EXCEPT !.visible = v, !.hw.hidden = ~v]
<1>0. t \in Raw(Ch, Co, Sh) /\ OnScreen(t) /\ t.hw \in Crtc(Sh)
  BY DEF Terminal, Raw
<1>1. w = [t EXCEPT !.visible = v, !.hw = [t.hw EXCEPT !.hidden = ~v]]
  BY <1>0 DEF Raw
<1>2. [t.hw EXCEPT !.hidden = ~v] \in Crtc(Sh) /\ [t.hw EXCEPT !.hidden = ~v].hidden = ~v
  BY <1>0 DEF Crtc
<1> HIDE DEF w
<1>3. /\ w \in Raw(Ch, Co, Sh) /\ w.visible = v /\ w.hw.hidden = ~v
      /\ w.screen = t.screen /\ w.framebuffer = t.framebuffer /\ w.mode = t.mode
      /\ w.row = t.row /\ w.col = t.col
  BY <1>0, <1>1, <1>2 DEF Raw
<1>4. Flagged(w) /\ (Streams(t) => Streams(w)) /\ w.mode = t.mode
  BY <1>3 DEF Flagged, Streams, Shown
<1>5. CASE v
  <2>1. vterm_set_cursor_visible(t, v) = vterm_move_cursor(w, t.row, t.col)
    BY <1>5 DEF vterm_set_cursor_visible, w
  <2>2. Kept(Ch, Co, Sh, w, vterm_move_cursor(w, t.row, t.col))
    BY <1>0, <1>3, <1>4, MoveCursorKept DEF OnScreen, Raw
  <2> QED BY <1>4, <2>1, <2>2 DEF Kept
<1>6. CASE ~v
  <2>1. vterm_set_cursor_visible(t, v) = w
    BY <1>6 DEF vterm_set_cursor_visible, w
  <2>2. w \in Terminal(Ch, Co, Sh) /\ Synced(w)
    BY <1>0, <1>3, <1>4, <1>6 DEF Terminal, OnScreen, Synced
  <2> QED BY <1>4, <2>1, <2>2 DEF Kept
<1> QED BY <1>5, <1>6

\* vterm_set_cursor_shape
LEMMA SetCursorShapeKept ==
  ASSUME NEW Ch, NEW Co, NEW Sh, NEW t \in Terminal(Ch, Co, Sh), Synced(t), NEW s \in Sh
  PROVE  Kept(Ch, Co, Sh, t, vterm_set_cursor_shape(t, s))
<1>0. t \in Raw(Ch, Co, Sh) /\ OnScreen(t) /\ t.hw \in Crtc(Sh)
  BY DEF Terminal, Raw
<1>1. CASE t.visible
  <2> DEFINE h == [t.hw EXCEPT !.shape = s, !.hidden = FALSE]
             w == [t EXCEPT !.shape = s, !.hw = h]
  <2>1. vterm_set_cursor_shape(t, s) = w
    BY <1>0, <1>1 DEF vterm_set_cursor_shape, Raw
  <2>2. h \in Crtc(Sh) /\ h.hidden = FALSE /\ h.pos = t.hw.pos
    BY <1>0 DEF Crtc
  <2> HIDE DEF h
  <2>3. /\ w \in Raw(Ch, Co, Sh) /\ w.visible = t.visible /\ w.hw = h
        /\ w.screen = t.screen /\ w.framebuffer = t.framebuffer /\ w.mode = t.mode
        /\ w.row = t.row /\ w.col = t.col
    BY <1>0, <2>2 DEF Raw
  <2> HIDE DEF w
  <2>4. w \in Terminal(Ch, Co, Sh) /\ Synced(w) /\ (Streams(t) => Streams(w))
    BY <1>0, <1>1, <2>2, <2>3 DEF Terminal, OnScreen, Synced, Flagged, Streams, Shown
  <2> QED BY <2>1, <2>3, <2>4 DEF Kept
<1>2. CASE ~t.visible
  <2> DEFINE w == [t EXCEPT !.shape = s]
  <2>1. vterm_set_cursor_shape(t, s) = w
    BY <1>2 DEF vterm_set_cursor_shape
  <2>3. /\ w \in Raw(Ch, Co, Sh) /\ w.visible = t.visible /\ w.hw = t.hw
        /\ w.screen = t.screen /\ w.framebuffer = t.framebuffer /\ w.mode = t.mode
        /\ w.row = t.row /\ w.col = t.col
    BY <1>0 DEF Raw
  <2> HIDE DEF w
  <2>4. w \in Terminal(Ch, Co, Sh) /\ Synced(w) /\ (Streams(t) => Streams(w))
    BY <1>0, <1>2, <2>3 DEF Terminal, OnScreen, Synced, Flagged, Streams, Shown
  <2> QED BY <2>1, <2>3, <2>4 DEF Kept
<1> QED BY <1>1, <1>2

-----------------------------------------------------------------------------
(* Flushing, clearing and scrolling.                                       *)

\* vterm_flush makes the display show screen_buffer.
LEMMA FlushKept ==
  ASSUME NEW Ch, NEW Co, NEW Sh, NEW t \in Terminal(Ch, Co, Sh), Flagged(t)
  PROVE  Kept(Ch, Co, Sh, t, vterm_flush(t)) /\ Shown(vterm_flush(t))
<1> DEFINE w == [t EXCEPT !.framebuffer = t.screen]
           u == vterm_move_cursor(w, t.row, t.col)
<1>0. t \in Raw(Ch, Co, Sh) /\ OnScreen(t) /\ t.row \in Nat /\ t.col \in Nat
  BY DEF Terminal, Raw
<1>1. /\ w \in Raw(Ch, Co, Sh) /\ w.visible = t.visible /\ w.hw = t.hw
      /\ w.screen = t.screen /\ w.framebuffer = t.screen /\ w.mode = t.mode
      /\ w.row = t.row /\ w.col = t.col
  BY <1>0 DEF Raw
<1> HIDE DEF w
<1>2. Shown(w) /\ Flagged(w)
  BY <1>1 DEF Shown, Flagged
<1>3. Kept(Ch, Co, Sh, w, u)
  BY <1>0, <1>1, <1>2, MoveCursorKept DEF OnScreen
<1>4. u.screen = w.screen /\ u.framebuffer = w.framebuffer
  BY <1>0, <1>1, MoveCursorFields DEF OnScreen
<1> HIDE DEF u
<1>5. Shown(u)
  BY <1>2, <1>4 DEF Shown
<1>6. Kept(Ch, Co, Sh, t, u)
  BY <1>1, <1>3, <1>5 DEF Kept, Streams
<1> QED BY <1>5, <1>6 DEF u, w, vterm_flush

\* What vterm_flush leaves alone, and what it copies.
LEMMA FlushScreen ==
  ASSUME NEW Ch, NEW Co, NEW Sh, NEW t \in Terminal(Ch, Co, Sh)
  PROVE  /\ vterm_flush(t).screen = t.screen /\ vterm_flush(t).framebuffer = t.screen
         /\ vterm_flush(t).row = t.row /\ vterm_flush(t).col = t.col
         /\ vterm_flush(t).color = t.color /\ vterm_flush(t).visible = t.visible
<1> DEFINE w == [t EXCEPT !.framebuffer = t.screen]
           u == vterm_move_cursor(w, t.row, t.col)
<1>0. t \in Raw(Ch, Co, Sh) /\ OnScreen(t) /\ t.row \in Nat /\ t.col \in Nat
      /\ t.row < SCREEN_ROWS /\ t.col <= SCREEN_COLS
  BY ScreenAssumption DEF Terminal, Raw, OnScreen, Rows
<1>1. /\ w \in Raw(Ch, Co, Sh) /\ w.screen = t.screen /\ w.framebuffer = t.screen
      /\ w.color = t.color /\ w.visible = t.visible
  BY <1>0 DEF Raw
<1> HIDE DEF w
<1>2. /\ u.screen = w.screen /\ u.framebuffer = w.framebuffer /\ u.color = w.color
      /\ u.row = t.row /\ u.col = t.col /\ u.visible = w.visible
  BY <1>0, <1>1, MoveCursorFields
<1> QED BY <1>1, <1>2 DEF w, vterm_flush

\* FlushIfStream changes neither screen_buffer nor the cursor.
LEMMA FlushIfStreamScreen ==
  ASSUME NEW Ch, NEW Co, NEW Sh, NEW t \in Terminal(Ch, Co, Sh)
  PROVE  /\ FlushIfStream(t).screen = t.screen
         /\ FlushIfStream(t).row = t.row /\ FlushIfStream(t).col = t.col
         /\ FlushIfStream(t).color = t.color
BY FlushScreen DEF FlushIfStream

\* A flush is made only while the terminal streams.  Whatever was written to
\* screen_buffer before is then on the display.
LEMMA FlushIfStreamKept ==
  ASSUME NEW Ch, NEW Co, NEW Sh, NEW t \in Terminal(Ch, Co, Sh), Synced(t)
  PROVE  /\ Kept(Ch, Co, Sh, t, FlushIfStream(t))
         /\ t.mode = "STREAM" => Streams(FlushIfStream(t))
<1>1. CASE t.mode = "STREAM"
  <2>1. FlushIfStream(t) = vterm_flush(t)
    BY <1>1 DEF FlushIfStream
  <2> QED BY <1>1, <2>1, FlushKept DEF Synced, Kept, Streams
<1>2. CASE t.mode # "STREAM"
  <2>1. FlushIfStream(t) = t
    BY <1>2 DEF FlushIfStream
  <2> QED BY <1>2, <2>1 DEF Kept
<1> QED BY <1>1, <1>2

\* New contents of screen_buffer, the cursor moved and a flush: what clearing
\* and scrolling have in common.
LEMMA RewriteKept ==
  ASSUME NEW Ch, NEW Co, NEW Sh, NEW w \in Raw(Ch, Co, Sh), Flagged(w),
         NEW r \in Rows, NEW c \in 0 .. SCREEN_COLS
  PROVE  Renewed(Ch, Co, Sh, w, FlushIfStream(vterm_move_cursor(w, r, c)))
<1> DEFINE v == vterm_move_cursor(w, r, c)
<1>1. r \in Nat /\ c \in Nat /\ r < SCREEN_ROWS /\ c <= SCREEN_COLS
  BY ScreenAssumption DEF Rows
<1>2. Kept(Ch, Co, Sh, w, v)
  BY <1>1, MoveCursorKept
<1> HIDE DEF v
<1>3. v \in Terminal(Ch, Co, Sh) /\ Synced(v) /\ v.mode = w.mode
  BY <1>2 DEF Kept
<1>4. Kept(Ch, Co, Sh, v, FlushIfStream(v)) /\ (v.mode = "STREAM" => Streams(FlushIfStream(v)))
  BY <1>3, FlushIfStreamKept
<1>5. Renewed(Ch, Co, Sh, w, FlushIfStream(v))
  BY <1>3, <1>4 DEF Kept, Renewed
<1> QED BY <1>5 DEF v

\* An empty screen with the cursor at its start.
Empty(Co, t) == t.screen \in Grid({Blank}, Co) /\ t.row = 0 /\ t.col = 0

\* vterm_clear
LEMMA ClearRenewed ==
  ASSUME NEW Ch, NEW Co, NEW Sh, NEW t \in Raw(Ch, Co, Sh), Flagged(t),
         NEW color \in Co, Blank \in Ch
  PROVE  /\ Renewed(Ch, Co, Sh, t, vterm_clear(t, color))
         /\ Empty(Co, vterm_clear(t, color))
<1> DEFINE g == [p \in Rows \X Cols |-> Cell(Blank, color)]
           w == [t EXCEPT !.color = color, !.screen = g]
           v == vterm_move_cursor(w, 0, 0)
<1>1. g \in Grid(Ch, Co) /\ g \in Grid({Blank}, Co)
  BY DEF Grid, Cell
<1> HIDE DEF g
<1>2. /\ w \in Raw(Ch, Co, Sh) /\ w.visible = t.visible /\ w.hw = t.hw
      /\ w.screen = g /\ w.mode = t.mode
  BY <1>1 DEF Raw
<1> HIDE DEF w
<1>3. Flagged(w)
  BY <1>2 DEF Flagged
<1>4. 0 \in Rows /\ 0 \in 0 .. SCREEN_COLS /\ 0 < SCREEN_ROWS /\ 0 <= SCREEN_COLS
  BY ScreenAssumption DEF Rows
<1>5. Renewed(Ch, Co, Sh, w, FlushIfStream(v))
  BY <1>2, <1>3, <1>4, RewriteKept
<1>6. v \in Terminal(Ch, Co, Sh) /\ v.screen = g /\ v.row = 0 /\ v.col = 0
  BY <1>2, <1>4, MoveCursorFields
<1> HIDE DEF v
<1>7. FlushIfStream(v).screen = g /\ FlushIfStream(v).row = 0 /\ FlushIfStream(v).col = 0
  BY <1>6, FlushIfStreamScreen
<1>8. vterm_clear(t, color) = FlushIfStream(v)
  BY DEF vterm_clear, v, w, g
<1> QED BY <1>1, <1>2, <1>5, <1>7, <1>8 DEF Renewed, Empty

\* vterm_init: whatever the screen showed, it shows blanks afterwards.
LEMMA InitRenewed ==
  ASSUME NEW Ch, NEW Ch0, NEW Co, NEW Sh, NEW t \in Raw(Ch0, Co, Sh), Flagged(t),
         NEW color \in Co, Blank \in Ch, Blank \in Ch0
  PROVE  /\ vterm_init(t, color) \in Terminal(Ch, Co, Sh)
         /\ Synced(vterm_init(t, color)) /\ Streams(vterm_init(t, color))
         /\ Empty(Co, vterm_init(t, color))
<1> DEFINE w == [t EXCEPT !.mode = "STREAM"]
           v == vterm_clear(w, color)
           u == vterm_flush(v)
<1>1. /\ w \in Raw(Ch0, Co, Sh) /\ w.visible = t.visible /\ w.hw = t.hw /\ w.mode = "STREAM"
  BY DEF Raw
<1> HIDE DEF w
<1>2. Flagged(w)
  BY <1>1 DEF Flagged
<1>3. Renewed(Ch0, Co, Sh, w, v) /\ Empty(Co, v)
  BY <1>1, <1>2, ClearRenewed
<1> HIDE DEF v
<1>4. v \in Terminal(Ch0, Co, Sh) /\ Flagged(v) /\ v.mode = "STREAM"
  BY <1>1, <1>3 DEF Renewed, Synced
<1>5. Kept(Ch0, Co, Sh, v, u) /\ Shown(u)
  BY <1>4, FlushKept
<1>6. u.screen = v.screen /\ u.framebuffer = v.screen /\ u.row = v.row /\ u.col = v.col
  BY <1>4, FlushScreen
<1> HIDE DEF u
<1>7. u \in Terminal(Ch0, Co, Sh) /\ Synced(u) /\ u.mode = "STREAM"
  BY <1>4, <1>5 DEF Kept
<1>8. u.screen \in Grid(Ch, Co) /\ u.framebuffer \in Grid(Ch, Co)
  <2>1. \A g \in Grid({Blank}, Co) : g \in Grid(Ch, Co)
    BY DEF Grid
  <2> QED BY <1>3, <1>6, <2>1 DEF Empty
<1>9. u \in Raw(Ch, Co, Sh) /\ OnScreen(u)
  BY <1>7, <1>8 DEF Terminal, Raw
<1>10. u \in Terminal(Ch, Co, Sh) /\ Synced(u) /\ Streams(u)
  BY <1>5, <1>7, <1>9 DEF Terminal, Streams
<1>11. Empty(Co, u)
  BY <1>3, <1>6 DEF Empty
<1> QED BY <1>10, <1>11 DEF u, v, w, vterm_init

\* screen_buffer after a scroll.
UpOneRow(t) ==
  [p \in Rows \X Cols |->
     IF p[1] = SCREEN_ROWS - 1 THEN Cell(Blank, t.color) ELSE t.screen[<<p[1] + 1, p[2]>>]]

\* vterm_scroll, which is called with the cursor one row below the screen.
LEMMA ScrollRenewed ==
  ASSUME NEW Ch, NEW Co, NEW Sh, NEW t \in Raw(Ch, Co, Sh), Flagged(t), Blank \in Ch
  PROVE  /\ Renewed(Ch, Co, Sh, t, vterm_scroll(t))
         /\ vterm_scroll(t).row = SCREEN_ROWS - 1 /\ vterm_scroll(t).col = 0
         /\ vterm_scroll(t).screen = UpOneRow(t)
<1> DEFINE g == [p \in Rows \X Cols |->
                   IF p[1] = SCREEN_ROWS - 1 THEN Cell(Blank, t.color)
                   ELSE t.screen[<<p[1] + 1, p[2]>>]]
           w == [t EXCEPT !.screen = g]
           v == vterm_move_cursor(w, SCREEN_ROWS - 1, 0)
<1>0. t.screen \in Grid(Ch, Co) /\ t.color \in Co
  BY DEF Raw
<1>1. g \in Grid(Ch, Co)
  <2>1. Cell(Blank, t.color) \in [ch : Ch, color : Co]
    BY <1>0 DEF Cell
  <2>2. ASSUME NEW p \in Rows \X Cols, p[1] # SCREEN_ROWS - 1
        PROVE  t.screen[<<p[1] + 1, p[2]>>] \in [ch : Ch, color : Co]
    <3>1. p[1] + 1 \in Rows /\ p[2] \in Cols
      BY <2>2, ScreenAssumption DEF Rows, Cols
    <3> QED BY <1>0, <3>1 DEF Grid
  <2> QED BY <2>1, <2>2 DEF Grid
<1> HIDE DEF g
<1>2. /\ w \in Raw(Ch, Co, Sh) /\ w.visible = t.visible /\ w.hw = t.hw /\ w.mode = t.mode
      /\ w.screen = g
  BY <1>1 DEF Raw
<1> HIDE DEF w
<1>3. Flagged(w)
  BY <1>2 DEF Flagged
<1>4. /\ SCREEN_ROWS - 1 \in Rows /\ 0 \in 0 .. SCREEN_COLS
      /\ SCREEN_ROWS - 1 \in Nat /\ SCREEN_ROWS - 1 < SCREEN_ROWS /\ 0 <= SCREEN_COLS
  BY ScreenAssumption DEF Rows
<1>5. Renewed(Ch, Co, Sh, w, FlushIfStream(v))
  BY <1>2, <1>3, <1>4, RewriteKept
<1>6. v \in Terminal(Ch, Co, Sh) /\ v.row = SCREEN_ROWS - 1 /\ v.col = 0 /\ v.screen = g
  BY <1>2, <1>4, MoveCursorFields
<1> HIDE DEF v
<1>7. /\ FlushIfStream(v).row = v.row /\ FlushIfStream(v).col = v.col
      /\ FlushIfStream(v).screen = v.screen
  BY <1>6, FlushIfStreamScreen
<1>8. vterm_scroll(t) = FlushIfStream(v)
  BY DEF vterm_scroll, v, w, g
<1>9. Renewed(Ch, Co, Sh, t, vterm_scroll(t))
  BY <1>2, <1>5, <1>8 DEF Renewed
<1>10. vterm_scroll(t).screen = g
  BY <1>6, <1>7, <1>8
<1>11. g = UpOneRow(t)
  BY DEF g, UpOneRow
<1> QED BY <1>6, <1>7, <1>8, <1>9, <1>10, <1>11

-----------------------------------------------------------------------------
(* Characters.                                                             *)

\* screen_buffer with a cell at the cursor.
WithCell(w, cell) == [w.screen EXCEPT ![<<w.row, w.col>>] = cell]

\* The terminal after a cell at the cursor was written to screen_buffer and shown.
LEMMA ShowKept ==
  ASSUME NEW Ch, NEW Co, NEW Sh, NEW w \in Raw(Ch, Co, Sh), w.row \in Rows, w.col \in Cols,
         NEW cell \in [ch : Ch, color : Co],
         NEW u, u = Show([w EXCEPT !.screen[<<w.row, w.col>>] = cell], cell.ch)
  PROVE  /\ u \in Raw(Ch, Co, Sh) /\ u.row = w.row /\ u.col = w.col
         /\ u.visible = w.visible /\ u.hw = w.hw /\ u.mode = w.mode /\ u.color = w.color
         /\ u.screen = WithCell(w, cell)
         /\ Streams(w) => Streams(u)
<1> DEFINE at == <<w.row, w.col>>
           g  == [w.screen EXCEPT ![at] = cell]
           x  == [w EXCEPT !.screen = g]
           d  == Cell(cell.ch, w.color)
           f  == [w.framebuffer EXCEPT ![at] = d]
<1>0. /\ w.screen \in Grid(Ch, Co) /\ w.framebuffer \in Grid(Ch, Co) /\ w.color \in Co
      /\ at \in Rows \X Cols
  BY DEF Raw
<1>1. g \in Grid(Ch, Co) /\ g[at] = cell /\ \A p \in (Rows \X Cols) \ {at} : g[p] = w.screen[p]
  BY <1>0 DEF Grid
<1>2. d \in [ch : Ch, color : Co] /\ d.ch = cell.ch
  BY <1>0 DEF Cell
<1>3. f \in Grid(Ch, Co) /\ f[at] = d /\ \A p \in (Rows \X Cols) \ {at} : f[p] = w.framebuffer[p]
  BY <1>0, <1>2 DEF Grid
<1>4. [w EXCEPT !.screen[<<w.row, w.col>>] = cell] = x
  BY DEF Raw
<1> HIDE DEF g, f, d, at
<1>5. /\ x \in Raw(Ch, Co, Sh) /\ x.screen = g /\ x.framebuffer = w.framebuffer
      /\ x.row = w.row /\ x.col = w.col /\ x.color = w.color
      /\ x.visible = w.visible /\ x.hw = w.hw /\ x.mode = w.mode
  BY <1>1 DEF Raw
<1> HIDE DEF x
<1> DEFINE Result == /\ u \in Raw(Ch, Co, Sh) /\ u.row = w.row /\ u.col = w.col
                     /\ u.visible = w.visible /\ u.hw = w.hw /\ u.mode = w.mode /\ u.color = w.color
                     /\ u.screen = g
                     /\ Streams(w) => Streams(u)
<1>6. ASSUME w.mode = "STREAM" PROVE Result
  <2>1. u = [x EXCEPT !.framebuffer[<<x.row, x.col>>] = Cell(cell.ch, x.color)]
    BY <1>4, <1>5, <1>6 DEF Show
  <2>2. u = [x EXCEPT !.framebuffer = f]
    BY <2>1, <1>5 DEF Raw, f, d, at
  <2>3. /\ u \in Raw(Ch, Co, Sh) /\ u.screen = g /\ u.framebuffer = f
        /\ u.row = w.row /\ u.col = w.col /\ u.color = w.color
        /\ u.visible = w.visible /\ u.hw = w.hw /\ u.mode = w.mode
    BY <1>3, <1>5, <2>2 DEF Raw
  <2>4. ASSUME Shown(w), NEW p \in Rows \X Cols
        PROVE  f[p].ch = g[p].ch
    BY <1>1, <1>2, <1>3, <2>4 DEF Shown
  <2>5. Shown(w) => Shown(u)
    BY <2>3, <2>4 DEF Shown
  <2> QED BY <2>3, <2>5 DEF Streams
<1>7. ASSUME w.mode # "STREAM" PROVE Result
  <2>1. u = x
    BY <1>4, <1>5, <1>7 DEF Show
  <2> QED BY <1>5, <1>7, <2>1 DEF Streams
<1>8. g = WithCell(w, cell)
  BY DEF g, at, WithCell
<1> QED BY <1>6, <1>7, <1>8

\* A cell is put at the cursor and nothing moves: the CRTC stays right.
LEMMA ShowSynced ==
  ASSUME NEW w, NEW u, u.row = w.row, u.col = w.col, u.visible = w.visible, u.hw = w.hw
  PROVE  (Flagged(w) => Flagged(u)) /\ (Synced(w) => Synced(u))
BY DEF Flagged, Synced

\* The newline of vterm_write_char.  The scroll after it is never made.
LEMMA NewLineKept ==
  ASSUME NEW Ch, NEW Co, NEW Sh, NEW t \in Terminal(Ch, Co, Sh), Synced(t)
  PROVE  Kept(Ch, Co, Sh, t, NewLine(t))
<1> DEFINE v == vterm_move_cursor(t, t.row + 1, 0)
<1>1. /\ t \in Raw(Ch, Co, Sh) /\ t.row \in Rows /\ t.row + 1 \in Nat /\ 0 \in Nat
      /\ 0 <= SCREEN_COLS /\ SCREEN_ROWS \in Nat
  BY ScreenAssumption DEF Terminal, OnScreen, Raw
<1>2. Kept(Ch, Co, Sh, t, v)
  BY <1>1, MoveCursorKept DEF Synced
<1> HIDE DEF v
<1>3. v.row \in Rows
  BY <1>2 DEF Kept, Terminal, OnScreen
<1>4. ~(v.row >= SCREEN_ROWS)
  BY <1>1, <1>3 DEF Rows
<1>5. NewLine(t) = v
  BY <1>4 DEF NewLine, v
<1> QED BY <1>2, <1>5

\* The backspace of vterm_write_char: the last column of the line above follows
\* the first one of a line.
LEMMA BackSpaceKept ==
  ASSUME NEW Ch, NEW Co, NEW Sh, NEW t \in Terminal(Ch, Co, Sh), Synced(t), Blank \in Ch
  PROVE  Kept(Ch, Co, Sh, t, BackSpace(t))
<1>1. CASE t.col = 0 /\ t.row = 0
  <2>1. BackSpace(t) = t
    BY <1>1 DEF BackSpace
  <2> QED BY <2>1 DEF Kept
<1>2. CASE ~(t.col = 0 /\ t.row = 0)
  <2> DEFINE r == IF t.col > 0 THEN t.row ELSE t.row - 1
             c == IF t.col > 0 THEN t.col - 1 ELSE SCREEN_COLS - 1
             v == vterm_move_cursor(t, r, c)
             cell == [v.screen[<<v.row, v.col>>] EXCEPT !.ch = Blank]
             x == [v EXCEPT !.screen[<<v.row, v.col>>] = cell]
             u == Show(x, cell.ch)
  <2>1. t \in Raw(Ch, Co, Sh) /\ t.row \in Rows /\ t.col \in 0 .. SCREEN_COLS
    BY DEF Terminal, OnScreen
  <2>2. r \in Nat /\ r < SCREEN_ROWS /\ r \in Rows /\ c \in Nat /\ c <= SCREEN_COLS /\ c \in Cols
    BY <1>2, <2>1, ScreenAssumption DEF Rows, Cols
  <2> HIDE DEF r, c
  <2>3. Kept(Ch, Co, Sh, t, v)
    BY <2>1, <2>2, MoveCursorKept DEF Synced
  <2>4. v.row = r /\ v.col = c
    BY <2>1, <2>2, MoveCursorFields
  <2> HIDE DEF v
  <2>5. v \in Raw(Ch, Co, Sh) /\ Synced(v) /\ v.screen \in Grid(Ch, Co)
    BY <2>3 DEF Kept, Terminal, Raw
  <2>6. <<v.row, v.col>> \in Rows \X Cols
    BY <2>2, <2>4
  <2>7. v.screen[<<v.row, v.col>>] \in [ch : Ch, color : Co]
    BY <2>5, <2>6 DEF Grid
  <2>8. cell \in [ch : Ch, color : Co] /\ cell.ch = Blank
    BY <2>7
  <2>9. x = [v EXCEPT !.screen[<<v.row, v.col>>].ch = Blank]
    BY <2>5, <2>6 DEF Raw, Grid
  <2>10. BackSpace(t) = Show([v EXCEPT !.screen[<<v.row, v.col>>].ch = Blank], Blank)
    BY <1>2 DEF BackSpace, v, r, c
  <2>11. BackSpace(t) = u
    BY <2>8, <2>9, <2>10
  <2> HIDE DEF cell
  <2>12. /\ u \in Raw(Ch, Co, Sh) /\ u.row = v.row /\ u.col = v.col
         /\ u.visible = v.visible /\ u.hw = v.hw /\ u.mode = v.mode
         /\ Streams(v) => Streams(u)
    BY <2>2, <2>4, <2>5, <2>8, ShowKept
  <2> HIDE DEF u, x
  <2>13. u \in Terminal(Ch, Co, Sh)
    <3>1. v \in Terminal(Ch, Co, Sh)
      BY <2>3 DEF Kept
    <3> QED BY <2>12, <3>1 DEF Terminal, OnScreen
  <2>14. Synced(u)
    BY <2>5, <2>12, ShowSynced
  <2> QED BY <2>3, <2>11, <2>12, <2>13, <2>14 DEF Kept
<1> QED BY <1>1, <1>2

\* A full line wraps, a full screen scrolls: a printable character finds a cell.
LEMMA WrappedFindsCell ==
  ASSUME NEW Ch, NEW Co, NEW Sh, NEW t \in Terminal(Ch, Co, Sh), Synced(t), Blank \in Ch
  PROVE  /\ Wrapped(t) \in Raw(Ch, Co, Sh) /\ Flagged(Wrapped(t))
         /\ Wrapped(t).row \in Rows /\ Wrapped(t).col \in Cols
         /\ Wrapped(t).mode = t.mode /\ (Streams(t) => Streams(Wrapped(t)))
<1> DEFINE w == IF t.col >= SCREEN_COLS THEN [t EXCEPT !.col = 0, !.row = @ + 1] ELSE t
<1>0. t \in Raw(Ch, Co, Sh) /\ t.row \in Rows /\ t.col \in 0 .. SCREEN_COLS
  BY DEF Terminal, OnScreen
<1>1. SCREEN_ROWS \in Nat /\ SCREEN_COLS \in Nat /\ SCREEN_ROWS > 0 /\ SCREEN_COLS > 0
  BY ScreenAssumption
<1>2. t.row \in Nat /\ t.row < SCREEN_ROWS /\ t.col \in Nat /\ t.col <= SCREEN_COLS
  BY <1>0, <1>1 DEF Rows
<1>3. CASE t.col >= SCREEN_COLS
  <2> DEFINE r == t.row + 1
  <2>0. w = [t EXCEPT !.col = 0, !.row = r] /\ r \in Nat /\ 0 \in Nat
    BY <1>0, <1>2, <1>3 DEF Raw
  <2> HIDE DEF w, r
  <2>1. /\ w \in Raw(Ch, Co, Sh) /\ w.row = r /\ w.col = 0 /\ w.mode = t.mode
        /\ w.visible = t.visible /\ w.hw = t.hw
        /\ w.screen = t.screen /\ w.framebuffer = t.framebuffer
    BY <1>0, <2>0 DEF Raw
  <2>2. Flagged(w) /\ (Streams(t) => Streams(w))
    BY <2>1 DEF Flagged, Synced, Streams, Shown
  <2>3. CASE w.row >= SCREEN_ROWS
    <3>1. Wrapped(t) = vterm_scroll(w)
      BY <2>3 DEF Wrapped, w
    <3>2. Renewed(Ch, Co, Sh, w, vterm_scroll(w)) /\ vterm_scroll(w).row = SCREEN_ROWS - 1
          /\ vterm_scroll(w).col = 0
      BY <2>1, <2>2, ScrollRenewed
    <3>3. SCREEN_ROWS - 1 \in Rows /\ 0 \in Cols
      BY <1>1 DEF Rows, Cols
    <3> QED BY <2>1, <2>2, <3>1, <3>2, <3>3 DEF Renewed, Terminal, Synced, Streams
  <2>4. CASE ~(w.row >= SCREEN_ROWS)
    <3>1. Wrapped(t) = w
      BY <2>4 DEF Wrapped, w
    <3>2. w.row \in Rows /\ w.col \in Cols
      BY <1>1, <1>2, <2>1, <2>4 DEF Rows, Cols, r
    <3> QED BY <2>1, <2>2, <3>1, <3>2
  <2> QED BY <2>3, <2>4
<1>4. CASE ~(t.col >= SCREEN_COLS)
  <2>1. w = t /\ ~(t.row >= SCREEN_ROWS)
    BY <1>1, <1>2, <1>4
  <2>2. Wrapped(t) = t
    BY <2>1 DEF Wrapped
  <2>3. t.col \in Cols
    BY <1>1, <1>2, <1>4 DEF Cols
  <2> QED BY <1>0, <2>2, <2>3 DEF Synced
<1> QED BY <1>3, <1>4

\* vterm_write_char
LEMMA WriteCharKept ==
  ASSUME NEW Ch, NEW Co, NEW Sh, NEW t \in Terminal(Ch, Co, Sh), Synced(t), Blank \in Ch,
         NEW c \in Ch \cup {"NL", "BS"}
  PROVE  Kept(Ch, Co, Sh, t, vterm_write_char(t, c))
<1>1. CASE vterm_write_char(t, c) = NewLine(t)
  BY <1>1, NewLineKept
<1>2. CASE vterm_write_char(t, c) = BackSpace(t)
  BY <1>2, BackSpaceKept
<1>3. CASE /\ c \notin {"NL", "BS"}
           /\ vterm_write_char(t, c) =
                LET w == Wrapped(t)
                    p == Show([w EXCEPT !.screen[<<w.row, w.col>>] = Cell(c, w.color)], c)
                IN  vterm_move_cursor(p, p.row, p.col + 1)
  <2> DEFINE w == Wrapped(t)
             cell == Cell(c, w.color)
             u == Show([w EXCEPT !.screen[<<w.row, w.col>>] = cell], cell.ch)
  <2>1. /\ w \in Raw(Ch, Co, Sh) /\ Flagged(w) /\ w.row \in Rows /\ w.col \in Cols
        /\ w.mode = t.mode /\ (Streams(t) => Streams(w))
    BY WrappedFindsCell
  <2> HIDE DEF w
  <2>2. cell \in [ch : Ch, color : Co] /\ cell.ch = c
    BY <1>3, <2>1 DEF Raw, Cell
  <2>3. vterm_write_char(t, c) = vterm_move_cursor(u, u.row, u.col + 1)
    BY <1>3, <2>2 DEF w
  <2> HIDE DEF cell
  <2>4. /\ u \in Raw(Ch, Co, Sh) /\ u.row = w.row /\ u.col = w.col
        /\ u.visible = w.visible /\ u.hw = w.hw /\ u.mode = w.mode
        /\ Streams(w) => Streams(u)
    BY <2>1, <2>2, ShowKept
  <2> HIDE DEF u
  <2>5. Flagged(u)
    BY <2>1, <2>4, ShowSynced
  <2>6. u.row \in Nat /\ u.row \in Rows /\ u.col + 1 \in Nat /\ u.col + 1 <= SCREEN_COLS
    BY <2>1, <2>4, ScreenAssumption DEF Rows, Cols
  <2>7. Kept(Ch, Co, Sh, u, vterm_move_cursor(u, u.row, u.col + 1))
    BY <2>4, <2>5, <2>6, MoveCursorKept
  <2> QED BY <2>1, <2>3, <2>4, <2>7 DEF Kept
<1>4. \/ vterm_write_char(t, c) = NewLine(t)
      \/ vterm_write_char(t, c) = BackSpace(t)
      \/ /\ c \notin {"NL", "BS"}
         /\ vterm_write_char(t, c) =
                LET w == Wrapped(t)
                    p == Show([w EXCEPT !.screen[<<w.row, w.col>>] = Cell(c, w.color)], c)
                IN  vterm_move_cursor(p, p.row, p.col + 1)
  BY Zenon DEF vterm_write_char
<1> QED BY <1>1, <1>2, <1>3, <1>4

-----------------------------------------------------------------------------
(* Texts.                                                                  *)

\* The data after each of the first n characters of a text.
WriteLoop(t, text, n, f) ==
  f = [k \in 0 .. n |-> IF k = 0 THEN t ELSE vterm_write_char(f[k - 1], text[k])]

\* The loop of vterm_write has a result after every number of rounds.
LEMMA WriteLoopRuns ==
  ASSUME NEW t, NEW text, NEW n \in Nat
  PROVE  \E f : WriteLoop(t, text, n, f)
<1> DEFINE S == {m \in Nat : \E f : WriteLoop(t, text, m, f)}
<1>1. 0 \in S
  <2>1. WriteLoop(t, text, 0, [k \in 0 .. 0 |-> t])
    BY DEF WriteLoop
  <2> QED BY <2>1
<1>2. ASSUME NEW m \in Nat, m \in S PROVE m + 1 \in S
  <2>1. PICK f : WriteLoop(t, text, m, f)
    BY <1>2
  <2> DEFINE c == vterm_write_char(f[m], text[m + 1])
             g == [k \in 0 .. m + 1 |-> IF k = m + 1 THEN c ELSE f[k]]
  <2>2. ASSUME NEW k \in 0 .. m + 1
        PROVE  g[k] = IF k = 0 THEN t ELSE vterm_write_char(g[k - 1], text[k])
    <3>1. CASE k = m + 1
      <4>1. k - 1 = m /\ g[m] = f[m] /\ k # 0
        BY <3>1
      <4> QED BY <3>1, <4>1
    <3>2. CASE k # m + 1
      <4>1. k \in 0 .. m /\ g[k] = f[k] /\ (k # 0 => g[k - 1] = f[k - 1])
        BY <3>2
      <4> QED BY <2>1, <4>1 DEF WriteLoop
    <3> QED BY <3>1, <3>2
  <2>3. WriteLoop(t, text, m + 1, g)
    BY <2>2 DEF WriteLoop
  <2> QED BY <2>3
<1> HIDE DEF S
<1>3. Nat \subseteq S
  BY <1>1, <1>2, SetInduction
<1> QED BY <1>3 DEF S

\* vterm_write returns what the loop computes.
LEMMA WriteUnfolds ==
  ASSUME NEW t, NEW text, Len(text) \in Nat
  PROVE  \E f : WriteLoop(t, text, Len(text), f) /\ vterm_write(t, text) = f[Len(text)]
<1> DEFINE f == CHOOSE g : WriteLoop(t, text, Len(text), g)
<1>1. \E g : WriteLoop(t, text, Len(text), g)
  BY WriteLoopRuns
<1>2. WriteLoop(t, text, Len(text), f)
  BY <1>1, Zenon
<1>3. vterm_write(t, text) = f[Len(text)]
  BY Zenon DEF vterm_write, WriteLoop
<1> QED BY <1>2, <1>3

\* vterm_write
LEMMA WriteKept ==
  ASSUME NEW Ch, NEW Co, NEW Sh, NEW t \in Terminal(Ch, Co, Sh), Synced(t), Blank \in Ch,
         NEW text \in Seq(Ch \cup {"NL", "BS"})
  PROVE  Kept(Ch, Co, Sh, t, vterm_write(t, text))
<1> DEFINE n == Len(text)
<1>1. PICK f : WriteLoop(t, text, n, f) /\ vterm_write(t, text) = f[n]
  BY WriteUnfolds
<1> DEFINE S == {k \in Nat : k <= n => Kept(Ch, Co, Sh, t, f[k])}
<1>2. n \in Nat
  OBVIOUS
<1>4. f[0] = t /\ \A k \in 1 .. n : f[k] = vterm_write_char(f[k - 1], text[k])
  BY <1>1, <1>2 DEF WriteLoop
<1>5. Kept(Ch, Co, Sh, t, t)
  BY DEF Kept
<1>6. 0 \in S
  BY <1>4, <1>5
<1>7. ASSUME NEW k \in Nat, k \in S PROVE k + 1 \in S
  <2>1. CASE k + 1 <= n
    <3>1. Kept(Ch, Co, Sh, t, f[k]) /\ k + 1 \in 1 .. n /\ (k + 1) - 1 = k
      BY <1>2, <1>7, <2>1
    <3>2. f[k + 1] = vterm_write_char(f[k], text[k + 1])
      BY <1>4, <3>1
    <3>3. text[k + 1] \in Ch \cup {"NL", "BS"}
      BY <3>1
    <3>4. Kept(Ch, Co, Sh, f[k], f[k + 1])
      BY <3>1, <3>2, <3>3, WriteCharKept DEF Kept
    <3>5. Kept(Ch, Co, Sh, t, f[k + 1])
      BY <3>1, <3>4 DEF Kept
    <3> QED BY <3>5
  <2>2. CASE ~(k + 1 <= n)
    BY <2>2
  <2> QED BY <2>1, <2>2
<1> HIDE DEF S
<1>8. Nat \subseteq S
  BY <1>6, <1>7, SetInduction
<1>9. Kept(Ch, Co, Sh, t, f[n])
  BY <1>2, <1>8 DEF S
<1> QED BY <1>1, <1>9

\* vterm_print_at
LEMMA PrintAtKept ==
  ASSUME NEW Ch, NEW Co, NEW Sh, NEW t \in Terminal(Ch, Co, Sh), Synced(t), Blank \in Ch,
         NEW row \in Nat, NEW col \in Nat, NEW text \in Seq(Ch \cup {"NL", "BS"})
  PROVE  Kept(Ch, Co, Sh, t, vterm_print_at(t, row, col, text))
<1> DEFINE v == vterm_move_cursor(t, row, col)
           w == vterm_write(v, text)
<1>0. t \in Raw(Ch, Co, Sh) /\ t.row \in Rows /\ t.col \in 0 .. SCREEN_COLS /\ Flagged(t)
  BY DEF Terminal, OnScreen, Synced
<1>1. Kept(Ch, Co, Sh, t, v)
  BY <1>0, MoveCursorKept
<1> HIDE DEF v
<1>2. Kept(Ch, Co, Sh, v, w)
  BY <1>1, WriteKept DEF Kept
<1> HIDE DEF w
<1>3. Kept(Ch, Co, Sh, w, FlushIfStream(w))
  BY <1>2, FlushIfStreamKept DEF Kept
<1>4. vterm_print_at(t, row, col, text) = FlushIfStream(w)
  BY DEF vterm_print_at, v, w
<1> QED BY <1>1, <1>2, <1>3, <1>4 DEF Kept

\* The columns a text of n characters leaves free.
LEMMA SpareColumns ==
  ASSUME NEW n \in Nat
  PROVE  LET spare == IF n < SCREEN_COLS THEN SCREEN_COLS - n ELSE 0
         IN  spare \in Nat /\ spare \div 2 \in Nat
<1>1. SCREEN_COLS \in Nat
  BY ScreenAssumption
<1> QED BY <1>1

\* vterm_print_aligned
LEMMA PrintAlignedKept ==
  ASSUME NEW Ch, NEW Co, NEW Sh, NEW t \in Terminal(Ch, Co, Sh), Synced(t), Blank \in Ch,
         NEW row \in Nat, NEW text \in Seq(Ch \cup {"NL", "BS"}),
         NEW align \in {"LEFT", "CENTER", "RIGHT"}
  PROVE  Kept(Ch, Co, Sh, t, vterm_print_aligned(t, row, text, align))
<1> DEFINE spare == IF Len(text) < SCREEN_COLS THEN SCREEN_COLS - Len(text) ELSE 0
<1>1. Len(text) \in Nat
  OBVIOUS
<1>2. 0 \in Nat /\ spare \in Nat /\ spare \div 2 \in Nat
  BY <1>1, SpareColumns
<1>3. PICK col : /\ col = 0 \/ col = spare \div 2 \/ col = spare
                 /\ vterm_print_aligned(t, row, text, align) = vterm_print_at(t, row, col, text)
  <2>1. CASE align = "LEFT"
    BY <2>1, Zenon DEF vterm_print_aligned
  <2>2. CASE align = "CENTER"
    BY <2>2, Zenon DEF vterm_print_aligned
  <2>3. CASE align = "RIGHT"
    BY <2>3, Zenon DEF vterm_print_aligned
  <2> QED BY <2>1, <2>2, <2>3
<1> HIDE DEF spare
<1>4. col \in Nat
  BY <1>2, <1>3
<1> QED BY <1>3, <1>4, PrintAtKept

\* Changing the colour changes nothing else.
LEMMA SetColorKept ==
  ASSUME NEW Ch, NEW Co, NEW Sh, NEW t \in Terminal(Ch, Co, Sh), Synced(t), NEW color \in Co
  PROVE  Kept(Ch, Co, Sh, t, [t EXCEPT !.color = color])
<1> DEFINE w == [t EXCEPT !.color = color]
<1>1. /\ w \in Raw(Ch, Co, Sh) /\ w.visible = t.visible /\ w.hw = t.hw /\ w.mode = t.mode
      /\ w.screen = t.screen /\ w.framebuffer = t.framebuffer
      /\ w.row = t.row /\ w.col = t.col
  BY DEF Terminal, Raw
<1> HIDE DEF w
<1>2. w \in Terminal(Ch, Co, Sh)
  BY <1>1 DEF Terminal, OnScreen
<1>3. Synced(w)
  BY <1>1, ShowSynced
<1>4. Streams(t) => Streams(w)
  BY <1>1 DEF Streams, Shown
<1>5. Kept(Ch, Co, Sh, t, w)
  BY <1>1, <1>2, <1>3, <1>4 DEF Kept
<1> QED BY <1>5 DEF w

\* vterm_write_hex
LEMMA WriteHexKept ==
  ASSUME NEW Ch, NEW Co, NEW Sh, NEW t \in Terminal(Ch, Co, Sh), Synced(t), Blank \in Ch,
         NEW digits \in Seq(Ch \cup {"NL", "BS"}), NEW color \in Co
  PROVE  Kept(Ch, Co, Sh, t, vterm_write_hex(t, digits, color))
<1> DEFINE v == [t EXCEPT !.color = color]
           w == vterm_write(v, digits)
           u == [w EXCEPT !.color = t.color]
<1>1. Kept(Ch, Co, Sh, t, v)
  BY SetColorKept
<1> HIDE DEF v
<1>2. Kept(Ch, Co, Sh, v, w)
  BY <1>1, WriteKept DEF Kept
<1> HIDE DEF w
<1>3. t.color \in Co
  BY DEF Terminal, Raw
<1>4. Kept(Ch, Co, Sh, w, u)
  BY <1>2, <1>3, SetColorKept DEF Kept
<1> HIDE DEF u
<1>5. vterm_write_hex(t, digits, color) = u
  BY DEF vterm_write_hex, v, w, u
<1> QED BY <1>1, <1>2, <1>4, <1>5 DEF Kept

\* vterm_write_label_hex
LEMMA WriteLabelHexKept ==
  ASSUME NEW Ch, NEW Co, NEW Sh, NEW t \in Terminal(Ch, Co, Sh), Synced(t), Blank \in Ch,
         NEW label \in Seq(Ch \cup {"NL", "BS"}), NEW digits \in Seq(Ch \cup {"NL", "BS"}),
         NEW color \in Co
  PROVE  Kept(Ch, Co, Sh, t, vterm_write_label_hex(t, label, digits, color))
<1> DEFINE v == vterm_write(t, label)
           w == vterm_write_hex(v, digits, color)
           u == vterm_write_char(w, "NL")
<1>1. Kept(Ch, Co, Sh, t, v)
  BY WriteKept
<1> HIDE DEF v
<1>2. Kept(Ch, Co, Sh, v, w)
  BY <1>1, WriteHexKept DEF Kept
<1> HIDE DEF w
<1>3. Kept(Ch, Co, Sh, w, u)
  BY <1>2, WriteCharKept DEF Kept
<1> HIDE DEF u
<1>4. vterm_write_label_hex(t, label, digits, color) = u
  BY DEF vterm_write_label_hex, v, w, u
<1> QED BY <1>1, <1>2, <1>3, <1>4 DEF Kept

-----------------------------------------------------------------------------
(* Where a text goes that fits on its row and is not shown yet.            *)

\* The first n characters of text are in row r of screen_buffer from column c
\* on, the cursor is behind them and the other rows are as they were.
Put(Ch, Co, Sh, t, u, r, c, text, n) ==
  /\ u \in Terminal(Ch, Co, Sh) /\ Synced(u) /\ u.mode = "BLOCK" /\ u.visible = t.visible
  /\ u.row = r /\ u.col = c + n
  /\ \A i \in 1 .. n : u.screen[<<r, c + i - 1>>].ch = text[i]
  /\ \A p \in Rows \X Cols : p[1] # r => u.screen[p].ch = t.screen[p].ch

\* The same of one character, at the cursor.
CharPut(Ch, Co, Sh, t, u, ch) ==
  /\ u \in Terminal(Ch, Co, Sh) /\ Synced(u) /\ u.mode = "BLOCK"
  /\ u.visible = t.visible /\ u.row = t.row /\ u.col = t.col + 1
  /\ u.screen = [t.screen EXCEPT ![<<t.row, t.col>>] = Cell(ch, t.color)]

\* A character in BLOCK mode, when the line is not full.
LEMMA WriteCharPuts ==
  ASSUME NEW Ch, NEW Co, NEW Sh, NEW t \in Terminal(Ch, Co, Sh), Synced(t), Blank \in Ch,
         t.mode = "BLOCK", t.col < SCREEN_COLS, NEW ch \in Ch, ch \notin {"NL", "BS"},
         NEW u, u = vterm_write_char(t, ch)
  PROVE  CharPut(Ch, Co, Sh, t, u, ch)
<1> DEFINE g == [t.screen EXCEPT ![<<t.row, t.col>>] = Cell(ch, t.color)]
           w == [t EXCEPT !.screen = g]
<1>0. /\ t \in Raw(Ch, Co, Sh) /\ t.row \in Rows /\ t.col \in Nat /\ t.row \in Nat
      /\ SCREEN_ROWS \in Nat /\ SCREEN_COLS \in Nat /\ t.screen \in Grid(Ch, Co)
  BY ScreenAssumption DEF Terminal, OnScreen, Raw
<1>1. Kept(Ch, Co, Sh, t, u)
  BY WriteCharKept
<1>2. t.row < SCREEN_ROWS /\ t.col + 1 \in Nat /\ t.col + 1 <= SCREEN_COLS
  BY <1>0 DEF Rows
<1>3. Wrapped(t) = t
  BY <1>0, <1>2 DEF Wrapped
<1>4. Cell(ch, t.color) \in [ch : Ch, color : Co]
  BY <1>0 DEF Raw, Cell
<1>5. g \in Grid(Ch, Co)
  BY <1>0, <1>4 DEF Grid
<1> HIDE DEF g
<1>6. /\ w \in Raw(Ch, Co, Sh) /\ w.row = t.row /\ w.col = t.col /\ w.mode = t.mode
      /\ w.screen = g /\ w.visible = t.visible
  BY <1>0, <1>5 DEF Raw
<1>7. w = [t EXCEPT !.screen[<<t.row, t.col>>] = Cell(ch, t.color)]
  BY <1>0 DEF g, Raw
<1> HIDE DEF w
<1>8. Show(w, ch) = w
  BY <1>6 DEF Show
<1>9. u = vterm_move_cursor(w, w.row, w.col + 1)
  <2>1. u = LET v == Wrapped(t)
                p == Show([v EXCEPT !.screen[<<v.row, v.col>>] = Cell(ch, v.color)], ch)
            IN  vterm_move_cursor(p, p.row, p.col + 1)
    BY Zenon DEF vterm_write_char
  <2> QED BY <1>3, <1>7, <1>8, <2>1, Zenon
<1>10. /\ u.screen = w.screen /\ u.visible = w.visible
       /\ u.row = w.row /\ u.col = w.col + 1
  BY <1>0, <1>2, <1>6, <1>9, MoveCursorFields
<1> QED BY <1>1, <1>6, <1>10 DEF Kept, CharPut, g

\* One more character of a text.
LEMMA PutOneMore ==
  ASSUME NEW Ch, NEW Co, NEW Sh, NEW t, NEW r \in Rows, NEW c \in Nat, NEW text, NEW n \in Nat,
         NEW x, Put(Ch, Co, Sh, t, x, r, c, text, n), Blank \in Ch,
         c + n < SCREEN_COLS, text[n + 1] \in Ch, text[n + 1] \notin {"NL", "BS"}
  PROVE  Put(Ch, Co, Sh, t, vterm_write_char(x, text[n + 1]), r, c, text, n + 1)
<1> DEFINE u == vterm_write_char(x, text[n + 1])
<1> HIDE DEF u
<1>1. /\ x \in Terminal(Ch, Co, Sh) /\ Synced(x) /\ x.mode = "BLOCK" /\ x.visible = t.visible
      /\ x.row = r /\ x.col = c + n
      /\ \A i \in 1 .. n : x.screen[<<r, c + i - 1>>].ch = text[i]
      /\ \A p \in Rows \X Cols : p[1] # r => x.screen[p].ch = t.screen[p].ch
  BY DEF Put
<1>2. /\ u \in Terminal(Ch, Co, Sh) /\ Synced(u) /\ u.mode = "BLOCK"
      /\ u.visible = x.visible /\ u.row = r /\ u.col = c + n + 1
      /\ u.screen = [x.screen EXCEPT ![<<r, c + n>>] = Cell(text[n + 1], x.color)]
  <2> DEFINE ch == text[n + 1]
  <2> HIDE DEF ch
  <2>1. ch \in Ch /\ ch \notin {"NL", "BS"} /\ x.col < SCREEN_COLS
    BY <1>1 DEF ch
  <2>2. CharPut(Ch, Co, Sh, x, u, ch)
    <3>1. u = vterm_write_char(x, ch)
      BY DEF u, ch
    <3> QED BY <1>1, <2>1, <3>1, WriteCharPuts
  <2>3. x.row = r /\ x.col = c + n
    BY <1>1
  <2> QED BY <2>2, <2>3, Zenon DEF CharPut, ch
<1>3. x.screen \in Grid(Ch, Co)
  BY <1>1 DEF Terminal, Raw
<1>4. SCREEN_COLS \in Nat
  BY ScreenAssumption
<1>5. \A i \in 1 .. n + 1 : <<r, c + i - 1>> \in Rows \X Cols
  BY <1>4 DEF Cols
<1>6. DOMAIN x.screen = Rows \X Cols
  BY <1>3 DEF Grid
<1>7. u.screen[<<r, c + n>>].ch = text[n + 1]
  <2>1. <<r, c + n>> \in Rows \X Cols
    BY <1>4 DEF Cols
  <2> QED BY <1>2, <1>6, <2>1 DEF Cell
<1>8. \A i \in 1 .. n + 1 : u.screen[<<r, c + i - 1>>].ch = text[i]
  <2> TAKE i \in 1 .. n + 1
  <2>1. CASE i = n + 1
    <3>1. c + i - 1 = c + n
      BY <2>1
    <3> QED BY <1>7, <2>1, <3>1
  <2>2. CASE i # n + 1
    <3>1. i \in 1 .. n /\ c + i - 1 # c + n
      BY <2>2
    <3>2. u.screen[<<r, c + i - 1>>] = x.screen[<<r, c + i - 1>>]
      BY <1>2, <1>5, <1>6, <3>1
    <3> QED BY <1>1, <3>1, <3>2
  <2> QED BY <2>1, <2>2
<1>9. \A p \in Rows \X Cols : p[1] # r => u.screen[p].ch = t.screen[p].ch
  <2> SUFFICES ASSUME NEW p \in Rows \X Cols, p[1] # r PROVE u.screen[p].ch = t.screen[p].ch
    OBVIOUS
  <2>1. p # <<r, c + n>>
    OBVIOUS
  <2>2. u.screen[p] = x.screen[p]
    BY <1>2, <1>6, <2>1
  <2> QED BY <1>1, <2>2
<1>10. u.col = c + (n + 1) /\ u.visible = t.visible
  BY <1>1, <1>2
<1>11. Put(Ch, Co, Sh, t, u, r, c, text, n + 1)
  BY <1>2, <1>8, <1>9, <1>10 DEF Put
<1> QED BY <1>11 DEF u

\* A text that fits.
LEMMA WritePuts ==
  ASSUME NEW Ch, NEW Co, NEW Sh, NEW t \in Terminal(Ch, Co, Sh), Synced(t), Blank \in Ch,
         t.mode = "BLOCK", NEW text \in Seq(Ch), t.col + Len(text) <= SCREEN_COLS,
         \A i \in 1 .. Len(text) : text[i] \notin {"NL", "BS"}
  PROVE  Put(Ch, Co, Sh, t, vterm_write(t, text), t.row, t.col, text, Len(text))
<1> DEFINE n == Len(text)
           r == t.row
           c == t.col
<1>1. PICK f : WriteLoop(t, text, n, f) /\ vterm_write(t, text) = f[n]
  BY WriteUnfolds
<1> DEFINE S == {k \in Nat : k <= n => Put(Ch, Co, Sh, t, f[k], r, c, text, k)}
<1>2. n \in Nat /\ \A i \in 1 .. n : text[i] \in Ch
  OBVIOUS
<1>3. r \in Rows /\ c \in Nat /\ SCREEN_COLS \in Nat
  BY ScreenAssumption DEF Terminal, OnScreen, Raw
<1>4. f[0] = t /\ \A k \in 1 .. n : f[k] = vterm_write_char(f[k - 1], text[k])
  BY <1>1, <1>2 DEF WriteLoop
<1> HIDE DEF r, c
<1>5. Put(Ch, Co, Sh, t, t, r, c, text, 0)
  BY <1>3 DEF Put, r, c
<1>6. 0 \in S
  BY <1>4, <1>5
<1>7. ASSUME NEW k \in Nat, k \in S PROVE k + 1 \in S
  <2>1. CASE k + 1 <= n
    <3>1. Put(Ch, Co, Sh, t, f[k], r, c, text, k) /\ k + 1 \in 1 .. n /\ (k + 1) - 1 = k
      BY <1>2, <1>7, <2>1
    <3>2. f[k + 1] = vterm_write_char(f[k], text[k + 1])
      BY <1>4, <3>1
    <3>3. text[k + 1] \in Ch /\ text[k + 1] \notin {"NL", "BS"}
      BY <1>2, <3>1
    <3>4. c + k < SCREEN_COLS
      BY <1>2, <1>3, <2>1 DEF c
    <3>5. Put(Ch, Co, Sh, t, f[k + 1], r, c, text, k + 1)
      BY <1>3, <3>1, <3>2, <3>3, <3>4, PutOneMore
    <3> QED BY <3>5
  <2>2. CASE ~(k + 1 <= n)
    BY <2>2
  <2> QED BY <2>1, <2>2
<1> HIDE DEF S
<1>8. n \in S /\ n <= n
  BY <1>2, <1>6, <1>7, SetInduction
<1>9. Put(Ch, Co, Sh, t, f[n], r, c, text, n)
  BY <1>8 DEF S
<1> QED BY <1>1, <1>9 DEF r, c

\* vterm_print_at, in BLOCK mode, of a text that fits.
LEMMA PrintAtPuts ==
  ASSUME NEW Ch, NEW Co, NEW Sh, NEW t \in Terminal(Ch, Co, Sh), Synced(t), Blank \in Ch,
         t.mode = "BLOCK", NEW text \in Seq(Ch), NEW r \in Rows, NEW c \in Nat,
         c + Len(text) <= SCREEN_COLS, \A i \in 1 .. Len(text) : text[i] \notin {"NL", "BS"}
  PROVE  Put(Ch, Co, Sh, t, vterm_print_at(t, r, c, text), r, c, text, Len(text))
<1> DEFINE v == vterm_move_cursor(t, r, c)
           w == vterm_write(v, text)
<1>0. /\ t \in Raw(Ch, Co, Sh) /\ t.row \in Rows /\ t.col \in 0 .. SCREEN_COLS /\ Flagged(t)
      /\ r \in Nat /\ r < SCREEN_ROWS /\ SCREEN_COLS \in Nat /\ Len(text) \in Nat
  BY ScreenAssumption DEF Terminal, OnScreen, Synced, Rows
<1>1. c <= SCREEN_COLS
  BY <1>0
<1>2. Kept(Ch, Co, Sh, t, v)
  BY <1>0, MoveCursorKept
<1>3. v.screen = t.screen /\ v.row = r /\ v.col = c /\ v.visible = t.visible
  BY <1>0, <1>1, MoveCursorFields
<1> HIDE DEF v
<1>4. v \in Terminal(Ch, Co, Sh) /\ Synced(v) /\ v.mode = "BLOCK"
  BY <1>2 DEF Kept
<1>5. Put(Ch, Co, Sh, v, w, r, c, text, Len(text))
  BY <1>3, <1>4, WritePuts
<1> HIDE DEF w
<1>6. Put(Ch, Co, Sh, t, w, r, c, text, Len(text)) /\ w.mode = "BLOCK"
  BY <1>3, <1>5 DEF Put
<1>7. FlushIfStream(w) = w
  BY <1>6 DEF FlushIfStream
<1> QED BY <1>6, <1>7 DEF vterm_print_at, v, w

\* Half of the free columns, on the left.
LEMMA CentreFits ==
  ASSUME NEW n \in Nat, NEW m \in Nat, n <= m
  PROVE  /\ (m - n) \div 2 \in Nat /\ (m - n) \div 2 + n <= m
         /\ (IF n < m THEN m - n ELSE 0) = m - n
OBVIOUS

\* vterm_print_aligned, in the middle of a row.
LEMMA PrintCenterPuts ==
  ASSUME NEW Ch, NEW Co, NEW Sh, NEW t \in Terminal(Ch, Co, Sh), Synced(t), Blank \in Ch,
         t.mode = "BLOCK", NEW text \in Seq(Ch), NEW r \in Rows, Len(text) <= SCREEN_COLS,
         \A i \in 1 .. Len(text) : text[i] \notin {"NL", "BS"}
  PROVE  Put(Ch, Co, Sh, t, vterm_print_aligned(t, r, text, "CENTER"),
             r, (SCREEN_COLS - Len(text)) \div 2, text, Len(text))
<1> DEFINE spare == IF Len(text) < SCREEN_COLS THEN SCREEN_COLS - Len(text) ELSE 0
           c == (SCREEN_COLS - Len(text)) \div 2
<1>1. Len(text) \in Nat /\ SCREEN_COLS \in Nat
  BY ScreenAssumption
<1>2. c \in Nat /\ c + Len(text) <= SCREEN_COLS /\ spare = SCREEN_COLS - Len(text)
  BY <1>1, CentreFits
<1>3. vterm_print_aligned(t, r, text, "CENTER") = vterm_print_at(t, r, spare \div 2, text)
  BY Zenon DEF vterm_print_aligned
<1>4. spare \div 2 = c
  BY <1>2
<1> HIDE DEF spare, c
<1>5. Put(Ch, Co, Sh, t, vterm_print_at(t, r, c, text), r, c, text, Len(text))
  BY <1>2, PrintAtPuts
<1> QED BY <1>3, <1>4, <1>5 DEF c
=============================================================================
