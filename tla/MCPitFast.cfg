CONSTANTS
  Channels = {0}
  Modes = {2}
  Frequencies <- MCFrequencies
SPECIFICATION PitSpec
INVARIANT NoCountOfOneInMode2
CHECK_DEADLOCK FALSE
