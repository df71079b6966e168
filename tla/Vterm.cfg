\* Every sequence of calls, and every text typed, on a screen of two rows and
\* two columns.
SPECIFICATION Spec
CONSTANTS
  SCREEN_ROWS = 2
  SCREEN_COLS = 2
  Chars = {"a"}
  Letters = {"a", "b", "c"}
  Colors = {"white"}
  Shapes = {"LINE", "BLOCK"}
  Texts <- MCTexts
INVARIANTS TypeOK HardwareCursor BlankAhead
PROPERTIES StreamShows ImplementsTypewriter
