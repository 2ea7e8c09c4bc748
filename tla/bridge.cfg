SPECIFICATION MCSpec
CONSTANTS
  Budget = 1
  Recent = 1
  PoseFresh = 1
  MaxEvents = 3
INVARIANT AllTypesOK
INVARIANT ShownWithConsent
INVARIANT DeadBridgeExpires
INVARIANT PoseIsWhole
INVARIANT QueueKeepsOrder
INVARIANT ReportsInOrder
PROPERTY StopEnds
