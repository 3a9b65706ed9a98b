CONSTANTS
  OtherLines = {2, 4}
  Scancodes = {0, 1, 14, 25, 38, 50, 158}
  Regions = 1
  BootBytes = {0, 3}
  PanicRoom = 2
  MaxEvents = 4
  MaxDepth = 2
SPECIFICATION Spec
INVARIANT TypeOK
INVARIANT PanicsExplained
INVARIANT HandlersDoNotNest
INVARIANT InServiceIsHandled
PROPERTY EoiRetiresOwnLine
PROPERTY TimerServed
PROPERTY KeyServed
PROPERTY HandlersReturn
PROPERTY MainComesToRest
CHECK_DEADLOCK FALSE
