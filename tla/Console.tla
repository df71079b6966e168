------------------------------ MODULE Console ------------------------------
(***************************************************************************)
(* The console: the PS/2 keyboard and its driver                           *)
(* (src/src/kernel/arch/i386/drivers/keyboard.c) writing to the virtual    *)
(* terminal, and kernel_panic (interrupts/panic.c) taking the screen over. *)
(* Each handler is entered through an interrupt gate, with interrupts      *)
(* disabled, so it is one step; bytes keep arriving at the keyboard        *)
(* controller between the steps.                                           *)
(***************************************************************************)
EXTENDS VtermOps

CONSTANTS
  Keys,          \* the keys struck: [code |-> scancode, ext |-> sent with an E0 prefix]
  BUFFER_MAX,    \* bound: bytes waiting in the keyboard controller
  Color,         \* the one pair of colours the kernel writes with
  PanicScreens   \* what kernel_panic can print: sequences of [row, text]

\* A make code has 7 bits.  No key has the code 96: its release would be the
\* prefix.
ASSUME KeysAssumption ==
  /\ BUFFER_MAX \in Nat \ {0}
  /\ Keys \subseteq [code : 1 .. 127 \ {96}, ext : BOOLEAN]

\* kernel_panic counts current_row up from 2 to at most 13, and cuts its texts,
\* which have no control characters, to the width of the screen.
ASSUME PanicAssumption ==
  \A lines \in PanicScreens :
    /\ lines \in Seq([row : Rows, text : Seq(STRING \ {"NL", "BS"})])
    /\ \A i \in DOMAIN lines : Len(lines[i].text) <= SCREEN_COLS
    /\ \A i, j \in DOMAIN lines : i < j => lines[i].row < lines[j].row

VARIABLES
  shift_pressed, caps_lock_active, is_extended,   \* the driver
  terminal,      \* what the kernel writes to
  buffer,        \* bytes waiting in the controller, first in first out
  held,          \* the shift keys held down
  halted         \* kernel_panic has halted the machine

consoleVars == <<shift_pressed, caps_lock_active, is_extended, terminal, buffer, held, halted>>

ShiftCodes == {42, 54}
Shifts     == {k \in Keys : ~k.ext /\ k.code \in ShiftCodes}
Prefix     == 224
Release    == 128

\* kernel_main hides the cursor, asks for BLOCK buffering and calls
\* vterm_init, which goes back to STREAM.
ConsoleInit ==
  /\ shift_pressed = FALSE /\ caps_lock_active = FALSE /\ is_extended = FALSE
  /\ terminal = vterm_init([vterm_set_cursor_visible(PowerOn(Color), FALSE) EXCEPT !.mode = "BLOCK"],
                           Color)
  /\ buffer = <<>> /\ held = {} /\ halted = FALSE

-----------------------------------------------------------------------------
(* The keyboard.                                                           *)

Send(k, code) ==
  LET bytes == IF k.ext THEN <<Prefix, code>> ELSE <<code>>
  IN  /\ Len(buffer) + Len(bytes) <= BUFFER_MAX
      /\ buffer' = buffer \o bytes
      /\ UNCHANGED <<shift_pressed, caps_lock_active, is_extended, terminal, halted>>

\* A key is struck, or repeats while it is held.
PressKey(k) ==
  /\ Send(k, k.code)
  /\ held' = held \cup ({k} \cap Shifts)

ReleaseKey(k) ==
  /\ k \in Shifts => k \in held
  /\ Send(k, k.code + Release)
  /\ held' = held \ {k}

-----------------------------------------------------------------------------
(* keyboard_handler                                                        *)

\* The keys of the two tables that the properties tell apart: a letter, a
\* digit, backspace and newline; every other scancode maps to 0.
kbd_us_map ==
  [s \in {2, 14, 28, 30} |->
     CASE s = 2 -> "1" [] s = 14 -> "BS" [] s = 28 -> "NL" [] s = 30 -> "a"]
kbd_us_shifted_map == [kbd_us_map EXCEPT ![2] = "!", ![30] = "A"]
LowerCase          == {"a"}

\* What a make code writes to the terminal: caps lock inverts shift for
\* letters only.
Typed(x, scancode) ==
  LET use_uppercase ==
        IF caps_lock_active /\ kbd_us_map[scancode] \in LowerCase THEN ~shift_pressed ELSE shift_pressed
  IN  IF scancode \notin DOMAIN kbd_us_map THEN x
      ELSE vterm_write_char(x, IF use_uppercase THEN kbd_us_shifted_map[scancode]
                               ELSE kbd_us_map[scancode])

\* A slip for Arrow: the cursor moves without the checks of vterm_move_cursor.
ArrowUnchecked(x, scancode) ==
  CASE scancode = 72 -> [x EXCEPT !.row = (@ - 1) % 65536]
    [] scancode = 80 -> [x EXCEPT !.row = (@ + 1) % 65536]
    [] scancode = 75 -> [x EXCEPT !.col = (@ - 1) % 65536]
    [] scancode = 77 -> [x EXCEPT !.col = (@ + 1) % 65536]
    [] OTHER         -> x

\* The arrow keys; rows and columns are uint16_t, so 0 - 1 is 65535, which
\* vterm_move_cursor ignores.
Arrow(x, scancode) ==
  CASE scancode = 72 -> vterm_move_cursor(x, (x.row - 1) % 65536, x.col)
    [] scancode = 80 -> vterm_move_cursor(x, (x.row + 1) % 65536, x.col)
    [] scancode = 75 -> vterm_move_cursor(x, x.row, (x.col - 1) % 65536)
    [] scancode = 77 -> vterm_move_cursor(x, x.row, (x.col + 1) % 65536)
    [] OTHER         -> x

\* A slip for Extended: the flag is cleared only by make codes.
ExtendedUntilMake(scancode) == scancode = Prefix \/ (is_extended /\ scancode >= Release)

\* is_extended after the handler: the prefix sets it, the next byte clears it.
Extended(scancode) == scancode = Prefix

\* keyboard_handler takes one byte from the controller.  When the status port
\* shows none it returns and changes nothing of what is modelled here; which
\* of its returns acknowledge the interrupt is in Kernel!KeyboardHandler.
keyboard_handler ==
  LET scancode == Head(buffer)
      plain    == scancode # Prefix /\ ~is_extended
      released == scancode >= Release
  IN  /\ ~halted /\ buffer # <<>>
      /\ buffer' = Tail(buffer)
      /\ is_extended' = Extended(scancode)
      /\ shift_pressed' = IF plain /\ scancode % Release \in ShiftCodes THEN ~released ELSE shift_pressed
      /\ caps_lock_active' = IF plain /\ scancode = 58 THEN ~caps_lock_active ELSE caps_lock_active
      /\ terminal' = IF scancode = Prefix \/ released THEN terminal
                     ELSE IF is_extended THEN Arrow(terminal, scancode)
                     ELSE Typed(terminal, scancode)
      /\ UNCHANGED <<held, halted>>

-----------------------------------------------------------------------------
(* kernel_panic                                                            *)

PanicClear(x) ==
  vterm_set_cursor_visible(vterm_clear([x EXCEPT !.mode = "BLOCK"], Color), FALSE)

PrintLine(x, line) == vterm_print_aligned(x, line.row, line.text, "CENTER")

\* The lines, one after the other.
PrintLines(x, lines) ==
  LET after[k \in 0 .. Len(lines)] == IF k = 0 THEN x ELSE PrintLine(after[k - 1], lines[k])
  IN  after[Len(lines)]

\* A slip for PanicScreen: the text stays in screen_buffer.
PanicUnflushed(x, lines) == PrintLines(PanicClear(x), lines)

PanicScreen(x, lines) == vterm_flush(PrintLines(PanicClear(x), lines))

\* A CPU exception, at any moment: the screen is taken over and the machine
\* halts with interrupts disabled.
kernel_panic ==
  /\ ~halted
  /\ halted' = TRUE
  /\ \E lines \in PanicScreens : terminal' = PanicScreen(terminal, lines)
  /\ UNCHANGED <<shift_pressed, caps_lock_active, is_extended, buffer, held>>

-----------------------------------------------------------------------------
ConsoleNext ==
  \/ \E k \in Keys : PressKey(k) \/ ReleaseKey(k)
  \/ keyboard_handler
  \/ kernel_panic

\* No fairness: the properties are safety.  That the bytes are taken is KeysRead
\* of Kernel.
ConsoleSpec == ConsoleInit /\ [][ConsoleNext]_consoleVars

-----------------------------------------------------------------------------
(* Properties.                                                             *)

\* The cursor stays on the screen, at most one column past its end, whatever
\* keys are struck: the arrow keys compute row - 1 and column - 1 in unsigned
\* arithmetic, and every later write indexes the screen with the result.
CursorOnScreen == terminal.row \in Rows /\ terminal.col \in 0 .. SCREEN_COLS

\* When the driver has caught up with the keyboard it has not missed the end
\* of anything: it does not wait for the second byte of a key, and shift is
\* not stuck while no shift key is held.  Prefixed bytes that look like shift
\* keys (the fake shifts of the grey keys) do not disturb it.
CaughtUp == buffer = <<>> => ~is_extended /\ (shift_pressed => held # {})

LineShown(line) ==
  LET first == (SCREEN_COLS - Len(line.text)) \div 2
  IN  \A i \in 1 .. Len(line.text) :
        terminal.framebuffer[<<line.row, first + i - 1>>].ch = line.text[i]

\* After a panic every line of the message is on the display, centred on its
\* own row, whatever the terminal was doing (a full line waiting to wrap, a
\* cursor anywhere on the screen, a key half received), and it stays there
\* although keys are still struck.
PanicReadable ==
  halted => /\ \E lines \in PanicScreens : \A i \in DOMAIN lines : LineShown(lines[i])
            /\ terminal.hw.hidden
=============================================================================
