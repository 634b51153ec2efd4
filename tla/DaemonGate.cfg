SPECIFICATION Spec
CONSTANTS
  MaxChunks = 3
  PreRollCap = 2
  MaxUtterance = 2
  Faint = {2}
  WholeWindow = TRUE
  Hold = TRUE
  IntentEnabled = TRUE
  Modes = {"auto"}
  Fallbacks = {"wake"}
  AsrLoads = {TRUE}
  Envs <- ComingAndGoing
  Commands = {"ptt toggle"}
  Verdicts = {"nothing", "command"}
  StreamFaults = FALSE
  Starts = {TRUE}
INVARIANTS TypeOK GateFollowsMachine PreRollIsContiguous WholeWindowIsOpen ListeningPanelIsOwned DeadlineGuardsTheWindow
PROPERTIES WholeWindowIsHeardWhole
