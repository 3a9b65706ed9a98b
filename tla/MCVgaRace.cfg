CONSTANTS
  BUFFER_HEIGHT = 2
  BUFFER_WIDTH = 3
  ByteMod = 4
  Glyphs = {"a"}
  MainBytes = {"a", "newline"}
  HandlerBytes = {"a", "newline", "backspace"}
  MaxInterrupts = 1
  Cached = FALSE
SPECIFICATION Spec
INVARIANT ColumnOnScreen
CHECK_DEADLOCK FALSE
