CONSTANTS
  Pieces <- MCPieces
  Number <- MCNumber
  Endpoint <- MCEndpoint
  Network <- MCNetwork
  Names <- MCNames
  Snapshots <- NtpRemovals
  Null = Null
  MaxNodes = 6
  MaxDepth = 2
  MaxBlockLines = 3
  MaxTreeDepth = 4
  MaxArtifacts = 2
  MaxArtifactLines = 8
  MaxSnapshotLines = 9
  MaxInspectedLines = 8
  HeadLines = 2
  MaxControls = 2
SPECIFICATION Spec
CHECK_DEADLOCK FALSE
INVARIANT DoubtedRemovalNeverPasses
