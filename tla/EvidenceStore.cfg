SPECIFICATION Spec
CONSTANTS
  Artifacts = {x1, x2}
  Existing = {x2}
  Contents = {h1, h2}
  Snapshots = {s1, s2}
  Clients = {c1, c2}
  None = None
INVARIANTS
  AnsweredUploadKept
  SnapshotCoherent
PROPERTIES
  FinalizedEvidenceFrozen
  RequestsEnd
CHECK_DEADLOCK FALSE
