CONSTANTS
  Channels = {0, 1, 2}
  Modes = {2, 3, 4}
  Frequencies <- MCFrequencies
SPECIFICATION PitSpec
INVARIANT RateIsNearest
INVARIANT FasterIsFaster
CHECK_DEADLOCK FALSE
