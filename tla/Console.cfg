\* Typing, moving, modifiers and panics on a screen of two rows and one column.
SPECIFICATION ConsoleSpec
CONSTANTS
  SCREEN_ROWS = 2
  SCREEN_COLS = 1
  Keys <- MCKeys
  BUFFER_MAX = 2
  Color = "white"
  PanicScreens <- MCPanic
INVARIANTS CaughtUp CursorOnScreen PanicReadable
CHECK_DEADLOCK FALSE
