SPECIFICATION MCSpec
CONSTANTS
  None = None
  Foreign = Foreign
  p1 = p1
  p2 = p2
  Procs = {p1, p2}
  AutoPorts <- MCAutoPorts
  OtherPorts = {3}
  ForeignPorts = {1}
  Commands <- MCCommands
  Values = {0, 1}
  MaxBoots = 3
  MaxRequests = 2
  MaxEvents = 4
  MaxFields = 1
  Keys = {1, 2, 3}
  Places = {2, 3, 5, 8}
  Fingers = {"index"}
  Scores = {3, 10}
  MaxHands = 3
  TopN = 2
  MaxDistance = 2
  MinScore = 4
  MinPose = 3
  DirectWeight = 4
  DirectProbability = 1800
  Glow = TRUE
  GlowScale = 20
  DirectMin = 2000
  s1 = s1
  s2 = s2
  c1 = c1
  c2 = c2
  r1 = r1
  r2 = r2
  Sessions = {s1, s2}
  Sources = {c1, c2}
  Receivers = {r1, r2}
  Ttl = 2
  MaxSequence = 1
  MaxNow = 3
INVARIANT AllTypesOK
INVARIANT RunningServiceIsReused
INVARIANT RestartFlagHonest
INVARIANT EmittedIsAccepted
INVARIANT HighlightsFollowFingers
INVARIANT NewestOrNothing
PROPERTY SessionsNeverReturn
SYMMETRY MCSymmetry
CHECK_DEADLOCK FALSE
