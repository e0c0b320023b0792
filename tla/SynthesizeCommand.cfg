SPECIFICATION Spec
CONSTANTS
  Segments <- MCSegments
  MaxSyllables = 2
  MaxPerSyllable = 3
  MaxSuffix = 2
  MaxPerWord = 5
  MaxRulesPerTarget = 4
  MaxDistance = 3
  MaxHeteronymsPerTarget = 4
  Contents <- MCContents
  Cases <- MCCases
  Changes <- MCChanges
  MaxReleaseBytes = 2
  MaxManifestBytes = 2
  MaxPayloadFiles = 12
  MaxPayloadBytes = 3
  MaxTotalBytes = 16
  MinGraphBytes = 2
  SmokeVector = "V"
  MaxBlocks = 3
  BlockFrames = 13
  WordSize = 64
INVARIANTS
  PinnedBytes
  EngineBound
  WavWhole
  NothingLeftBehind
  OthersKept
PROPERTIES
  AcceptsSoundPackages
CHECK_DEADLOCK FALSE
