SPECIFICATION Spec
CONSTANTS
  MaxChunks = 2
  PreRollCap = 1
  MaxUtterance = 2
  Faint = {2}
  WholeWindow = TRUE
  Hold = FALSE
  IntentEnabled = FALSE
  Modes = {"ptt"}
  Fallbacks = {"wake"}
  AsrLoads = {TRUE, FALSE}
  Envs <- ComingAndGoing
  Commands = {"ptt toggle", "reload"}
  Verdicts = {"silent", "command"}
  StreamFaults = FALSE
  Starts = {TRUE, FALSE}
PROPERTIES ImplementsSession
