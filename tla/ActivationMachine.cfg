SPECIFICATION Spec
CONSTANTS
  Modes = {"auto", "ptt", "wake"}
  Fallbacks = {"wake", "gate"}
  Envs <- MCEnvs
INVARIANTS TypeOK BaseIsSettled
PROPERTIES NeverYanked ButtonLeavesWakeCapture OnlyAPressOpensAClosedGate
