SPECIFICATION Spec
CONSTANTS
  Nil = Nil
  ScreenWidth = 4
  ScreenHeight = 3
  Scale = 2
  Toolbar <- Toolbars
  Keys <- AllSides
  Kind <- AllSidesKind
  TriggerKey = "LeftCommand"
  BoundsKey = "RightControl"
  ToggleKey = "RightCommand"
  Users <- ConfiguredKeys
  Points <- Places
  Buffer = 1
  TestWindows <- Fronts
INVARIANTS OneTokenPerPress
