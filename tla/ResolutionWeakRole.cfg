SPECIFICATION Spec
CONSTANTS
  Segments <- MCSegments
  Bundles <- MCBundles
  Requests <- MCRequests
  StableRoles <- MCStableRoles
  MaxSyllables = 2
  MaxPerSyllable = 3
  MaxSuffix = 2
  MaxPerWord = 5
  MaxRulesPerTarget = 4
  MaxDistance = 3
  MaxHeteronymsPerTarget = 4
INVARIANT MatchedRoleAvailable
CHECK_DEADLOCK FALSE
