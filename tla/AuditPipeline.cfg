SPECIFICATION Spec
CONSTANTS
  Audits = {1, 2, 3}
  Jobs = {1, 2, 3}
  Snapshots = {s1}
  Profiles = {p1}
  Unresolved = Unresolved
  Packs = {k1}
  Baseline = Baseline
  None = None
INVARIANTS
  CompletedIsWhole
  RevisionChain
  OneOpenReevaluation
  CompletedJobDecidesAudit
PROPERTIES
  DecidedAuditsFrozen
  PinsNeverChange
  SubmittedAuditEnds
CHECK_DEADLOCK FALSE
