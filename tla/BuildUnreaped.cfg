SPECIFICATION WorkersOnlySpec
CONSTANTS
  ready = ready
  other = other
  unready = unready
  closed = closed
  broken = broken
  Runs = {r1}
  Configs = {c1}
  Workers = {w1}
  Inputs = {ready}
  Unassemblable = {}
  Inconsistent = {}
  Closed = {}
  Unready = {}
  SolveAnswers = {"clean"}
  Garbled = TRUE
  Cap = 1
  RetryLimit = 0
  MaxJobs = 0
  MaxFaults = 0
  NoRun = NoRun
  NoConfig = NoConfig
  NoWorker = NoWorker
  NoInput = NoInput
CHECK_DEADLOCK FALSE
PROPERTIES RunningSettles
