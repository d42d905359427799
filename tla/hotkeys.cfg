SPECIFICATION Spec
CONSTANTS
  Nil = Nil
  ScreenWidth = 4
  ScreenHeight = 3
  Scale = 2
  Toolbar <- Toolbars
  Keys <- Sides
  Kind <- SidesKind
  TriggerKey = "RightShift"
  BoundsKey = "RightOption"
  ToggleKey = "RightCommand"
  Users <- Mixes
  Points <- Places
  Buffer = 1
  TestWindows <- Fronts
INVARIANTS HotkeyInv OneTokenPerPress LatestHoldWins CapturesVisiblePart OCRReadsCanvas
