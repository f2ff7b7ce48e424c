SPECIFICATION Spec
CONSTANTS
  Artifacts = {x1}
  Existing = {}
  Contents = {h1}
  Snapshots = {s1}
  Clients = {c1, c2}
  None = None
PROPERTIES
  PersistedBytesKept
CHECK_DEADLOCK FALSE
