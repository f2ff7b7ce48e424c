SPECIFICATION Spec
CONSTANTS
  Artifacts = {a1, a2}
  LastVty = 3
  Timeouts = {t1, t2}
  Hosts = {h1, h2}
  Null = Null
  MaxStatements = 3
SYMMETRY Interchangeable
INVARIANTS
  OneStatePerVtyLine
  ResolvedMeansUnopposed
  ConflictIsReal
  CollectionHoldsMembers
CHECK_DEADLOCK FALSE
