SPECIFICATION Spec
CONSTANTS
  None = None
  c1 = c1
  c2 = c2
  Cameras <- TwoCameras
  BootCamera = c1
  CalibCamera = c1
  MaxSwitches = 1
  MaxFrames = 1
  MaxOvertakes = 0
  SlowCalls <- AnyCallMayHang
INVARIANT FailedSwitchGoesDark
