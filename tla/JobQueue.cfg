SPECIFICATION Spec
CONSTANTS
  Jobs = {1, 2}
  HandledJobs = {1, 2}
  LegacyJobs = {2}
  Workers = {w1, w2}
  NoWorker = NoWorker
  NoJob = NoJob
  NoTx = NoTx
  LeaseTicks = 2
  HeartbeatTicks = 1
  RecoveryLimit = 1
  Transient = {w1}
  MaxDbErrors = 1
INVARIANTS
  TypeOK
  RunsOnce
  LeaseMatchesRunner
PROPERTIES
  TerminalRowsFrozen
  CompletedByLeaseHolder
  RecoversOnlyExpired
  ImplementsLifecycle
  ProcessingEnds
  QueuedIsClaimed
