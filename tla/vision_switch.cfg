SPECIFICATION Spec
CONSTANTS
  None = None
  c1 = c1
  c2 = c2
  Cameras <- TwoCameras
  BootCamera = c1
  CalibCamera = c1
  MaxSwitches = 2
  MaxFrames = 2
  MaxOvertakes = 1
  SlowCalls <- AnyCallMayHang
INVARIANT TypeOK
INVARIANT HighlightsOnlyCalibrated
INVARIANT StoresAgree
INVARIANT NoThreadLeftBehind
INVARIANT CamerasAgree
PROPERTY ChangedAtRest
PROPERTY ViewIsLive
