SPECIFICATION PromptSpec
CONSTANTS
  Jobs = {1, 2, 3}
  HandledJobs = {2, 3}
  LegacyJobs = {}
  Workers = {w1, w2}
  NoWorker = NoWorker
  NoJob = NoJob
  NoTx = NoTx
  LeaseTicks = 5
  HeartbeatTicks = 2
  RecoveryLimit = 1
  Transient = {w1, w2}
  MaxDbErrors = 1
INVARIANTS
  LiveRunnerKeepsLease
