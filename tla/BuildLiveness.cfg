SPECIFICATION OperatedSpec
CONSTANTS
  ready = ready
  other = other
  unready = unready
  closed = closed
  broken = broken
  Runs = {r1, r2}
  Configs = {c1, c2}
  Workers = {w1}
  Inputs = {ready}
  Unassemblable = {}
  Inconsistent = {}
  Closed = {}
  Unready = {}
  SolveAnswers = {"infeasible"}
  Garbled = FALSE
  Cap = 1
  RetryLimit = 0
  MaxJobs = 1
  MaxFaults = 1
  NoRun = NoRun
  NoConfig = NoConfig
  NoWorker = NoWorker
  NoInput = NoInput
CHECK_DEADLOCK FALSE
PROPERTIES SubmittedConcludes
