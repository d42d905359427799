SPECIFICATION Safety
CONSTANTS
  c1 = c1
  c2 = c2
  Clients = {c1, c2}
  Captures = {1, 2}
  Nil = Nil
  ScreenWidth = 8
  ScreenHeight = 6
  Scale = 1
  Toolbar <- Toolbars
  gMargin = 1
  GridUnits = 3
  gAlignment = "dynamic"
  EmptyTexts = {0, 2}
  MinFont = 1
  MaxFont = 3
  DefaultFont = 2
  LabelSize <- Labels
  Step = 1
  InitialSpot <- Start
  MaxChanges = 3
  WindowAfter <- WindowAt
  MaxPresses = 2
  MaxWindowMoves = 2
  Scenarios <- TwoCaptures
INVARIANT CaptureIsolation
CHECK_DEADLOCK FALSE
