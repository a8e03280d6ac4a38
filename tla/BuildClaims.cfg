SPECIFICATION Spec
CONSTANTS
  ready = ready
  other = other
  unready = unready
  closed = closed
  broken = broken
  Runs = {r1, r2}
  Configs = {c1, c2}
  Workers = {w1, w2}
  Inputs = {ready}
  Unassemblable = {}
  Inconsistent = {}
  Closed = {}
  Unready = {}
  SolveAnswers = {"clean", "cancelled"}
  Garbled = FALSE
  Cap = 1
  RetryLimit = 0
  MaxJobs = 1
  MaxFaults = 1
  NoRun = NoRun
  NoConfig = NoConfig
  NoWorker = NoWorker
  NoInput = NoInput
SYMMETRY RunSymmetry
CHECK_DEADLOCK FALSE
INVARIANTS TypeOK CapRespected StandingSolvesWithinCap OneSolverPerRun ResultsAreFenced CancellationIsRecorded InFlightIsAttended
PROPERTIES HistoryIsFrozen HonoursTheContract
