SPECIFICATION Spec
CONSTANTS
  MaxChunks = 1
  PreRollCap = 1
  MaxUtterance = 2
  Faint = {2}
  WholeWindow = TRUE
  Hold = TRUE
  IntentEnabled = TRUE
  Modes = {"auto"}
  Fallbacks = {"wake"}
  AsrLoads = {TRUE}
  Envs <- ComingAndGoing
  Commands = {"ptt start"}
  Verdicts = {"silent", "command"}
  StreamFaults = TRUE
  Starts = {TRUE}
INVARIANTS StreamOnlyWhenWanted
PROPERTIES WatchdogSparesTheWindow StuckWindowCloses CaptureRecovers
