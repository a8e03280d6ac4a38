SPECIFICATION Spec
CONSTANTS
  ready = ready
  other = other
  unready = unready
  closed = closed
  broken = broken
  Runs = {r1, r2}
  Configs = {c1, c2}
  Workers = {w1}
  Inputs = {ready, other, unready, closed, broken}
  Unassemblable = {broken}
  Inconsistent = {closed}
  Closed = {closed}
  Unready = {unready}
  SolveAnswers = {"clean", "unusable"}
  Garbled = TRUE
  Cap = 1
  RetryLimit = 1
  MaxJobs = 0
  MaxFaults = 1
  NoRun = NoRun
  NoConfig = NoConfig
  NoWorker = NoWorker
  NoInput = NoInput
SYMMETRY RunSymmetry
INVARIANTS ChainPosesOneProblem CandidatesWereChecked AtMostOneChosen
 
