SPECIFICATION Spec
CONSTANTS
  Settings <- ThreeSettings
  Levels = {0, 2, 4}
  NoiseFrames = 5
  TailKeep = 1
  MaxPreRoll = 2
  MaxFrames = 8
INVARIANTS SegmentsAreSound NoRunIsMissed QuietWindowIsForgiven
CHECK_DEADLOCK FALSE
