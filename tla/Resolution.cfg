SPECIFICATION Spec
CONSTANTS
  Segments <- MCSegments
  Bundles <- MCBundles
  Requests <- MCRequests
  StableRoles <- MCStableRoles
  MaxSyllables = 2
  MaxPerSyllable = 3
  MaxSuffix = 2
  MaxPerWord = 5
  MaxRulesPerTarget = 4
  MaxDistance = 3
  MaxHeteronymsPerTarget = 4
INVARIANTS
  WeakFormsSettled
  KnownNotGuessed
  DiagnosticsTrue
  OnlyGuessesRefused
  CandidatesAreInflections
CHECK_DEADLOCK FALSE
