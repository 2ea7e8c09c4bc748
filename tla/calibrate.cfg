SPECIFICATION MCSpec
CONSTANTS
  None = None
  Places = {0, 2, 3, 8}
  FewPlaces = {0}
  Jitter = 2
  Confirm = 1
  MaxCoast = 2
  MaxFrameAge = 1
  SetBack = 1
  MaxNow = 5
  k1 = k1
  k2 = k2
  Order <- MCOrder
  SamplesPerKey = 2
  MaxStarts = 2
  MaxRefusals = 2
  Markers = {0, 1, 2}
  Reference = 0
  Required = 3
  MaxSamples = 4
  MinMarkers = 2
  MaxFrames = 6
  MaxGlitches = 2
INVARIANT AllTypesOK
INVARIANT PoseIsRecent
INVARIANT SamplesInOrder
INVARIANT MapIsOfDraft
INVARIANT GlitchesDontWin
PROPERTY JumpNeedsTwo
CHECK_DEADLOCK FALSE
