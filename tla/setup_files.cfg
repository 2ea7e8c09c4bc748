SPECIFICATION Spec
CONSTANTS
  None = None
  c1 = c1
  c2 = c2
  base = base
  moved = moved
  wider = wider
  other = other
  Cameras <- TwoCameras
  Layouts <- MCLayouts
  Keys <- MCKeys
  Plan <- MCPlan
  FirstCamera = c1
  FirstLayout = base
  Reflected <- MirroredToo
  Samples = 2
  MaxAnchors = 2
  MaxSaves = 1
  MaxSwitches = 1
  MaxBoots = 2
  MaxFaults = 2
INVARIANT TypeOK
INVARIANT OpenMapperIsCalibrated
INVARIANT UnmarkedDiskIsCalibrated
INVARIANT DraftIsSession
INVARIANT OneAnchorThroughout
INVARIANT OfferedStepsWork
