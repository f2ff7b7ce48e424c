SPECIFICATION Spec
CONSTANTS
  Versions = {v1, v2}
  Mappings = {a, b}
  Runs = {1, 2, 3}
  p = p
  q = q
  m = m
  Definitions <- MCDefinitions
  PackKeys <- MCPackKeys
  None = None
INVARIANTS
  PublishedIsValidated
  PackHoldsOneVersion
  OnePublishedVersion
PROPERTIES
  PublicationIsFinal
  PublicationEnds
CHECK_DEADLOCK FALSE
