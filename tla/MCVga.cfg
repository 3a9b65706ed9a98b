CONSTANTS
  BUFFER_HEIGHT = 3
  BUFFER_WIDTH = 3
  ByteMod = 4
  Glyphs = {"a"}
  MainBytes = {"a", "newline", "return", "backspace", "del"}
  HandlerBytes = {"a", "newline", "backspace"}
  MaxInterrupts = 2
  Cached = TRUE
SPECIFICATION Spec
INVARIANT ShowsTerminal
INVARIANT OnlyRacesLoseColumn
INVARIANT CursorHeals
CHECK_DEADLOCK FALSE
