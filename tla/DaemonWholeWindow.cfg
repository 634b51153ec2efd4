SPECIFICATION Spec
CONSTANTS
  MaxChunks = 3
  PreRollCap = 2
  MaxUtterance = 1
  Faint = {2}
  WholeWindow = TRUE
  Hold = TRUE
  IntentEnabled = TRUE
  Modes = {"ptt"}
  Fallbacks = {"wake"}
  AsrLoads = {TRUE}
  Envs <- HeadsetOnly
  Commands = {"ptt start", "ptt stop", "reload"}
  Verdicts = {"silent", "nothing", "command"}
  StreamFaults = TRUE
  Starts = {TRUE, FALSE}
INVARIANTS HeardOnce ReconnectsAreBackedOff NothingLostInWholeWindow
PROPERTIES ShutGateIsDeaf WindowNeverEndsInSilence
