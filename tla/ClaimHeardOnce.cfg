SPECIFICATION Spec
CONSTANTS
  MaxChunks = 3
  PreRollCap = 2
  MaxUtterance = 2
  Faint = {2}
  WholeWindow = TRUE
  Hold = TRUE
  IntentEnabled = TRUE
  Modes = {"auto"}
  Fallbacks = {"wake"}
  AsrLoads = {TRUE}
  Envs <- ComingAndGoing
  Commands = {"ptt toggle"}
  Verdicts = {"command"}
  StreamFaults = FALSE
  Starts = {TRUE}
INVARIANTS HeardOnce
