SPECIFICATION Spec
CONSTANTS
  Nodes = {1, 2, 3, 4}
  Top = Top
  Letters = {"a"}
  Separators = {"-"}
  Features <- MCFeatures
  Leaves <- MCLeaves
  Graphs <- MCGraphs
  StepLimits = {2, 3}
  Words <- MCWords
  MaxSegments = 5
  MaxSyllables = 3
CHECK_DEADLOCK FALSE
INVARIANT GraphJudged
INVARIANT WalkReachesLeaf
INVARIANT OutputWhole
