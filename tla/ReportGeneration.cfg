SPECIFICATION Spec
CONSTANTS
  Reports = {r1, r2}
  Workers = {w1, w2}
  None = None
INVARIANTS
  ReadyReportIsServed
  CompletedJobMeansReady
PROPERTIES
  DecidedReportFrozen
  ReportsAreDecided
CHECK_DEADLOCK FALSE
