SPECIFICATION Spec
CONSTANTS
  None = None
  c1 = c1
  c2 = c2
  base = base
  moved = moved
  wider = wider
  other = other
  Cameras <- TwoCameras
  Layouts <- MCLayouts
  Keys <- MCKeys
  Plan <- MCPlan
  FirstCamera = c1
  FirstLayout = base
  Reflected <- MirroredToo
  Samples = 1
  MaxAnchors = 1
  MaxSaves = 1
  MaxSwitches = 0
  MaxBoots = 2
  MaxFaults = 1
INVARIANT ActiveSetLoads
