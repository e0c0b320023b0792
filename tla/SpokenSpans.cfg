SPECIFICATION Spec
CONSTANTS
  MaxText = 3
  MaxInput = 4
  MaxOverrides = 2
  MaxReplacement = 2
  MaxTokens = 3
  MaxExpansion = 2
  ChunkWords = 2
CHECK_DEADLOCK FALSE
INVARIANT SpansAccepted
INVARIANT ReplacementsOwned
INVARIANT PhonesOwned
INVARIANT FailureLocated
