SPECIFICATION Spec
CONSTANTS
  Settings <- Choppy
  Levels = {0, 2, 4}
  NoiseFrames = 5
  TailKeep = 1
  MaxPreRoll = 2
  MaxFrames = 9
INVARIANTS BackpadGuaranteed
CHECK_DEADLOCK FALSE
