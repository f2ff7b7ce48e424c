SPECIFICATION Spec
CONSTANTS
  Artifacts = {a1}
  LastVty = 1
  Timeouts = {t1, t2}
  Hosts = {h1}
  Null = Null
  MaxStatements = 2
INVARIANTS
  LastStatementDecides
CHECK_DEADLOCK FALSE
