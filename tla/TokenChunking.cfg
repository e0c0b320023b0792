SPECIFICATION FairSpec
CONSTANTS
  MaxWords = 4
  AtomSizes = {4, 10}
  Priorities = {1, 3, 5}
  Budgets = {12, 17}
  MaxSerialized = 30
CHECK_DEADLOCK FALSE
INVARIANT EveryWordOnce
INVARIANT WithinBudget
INVARIANT TooLargeIsAWord
INVARIANT CutsAreBest
INVARIANT BothSidesMarked
PROPERTY Terminates
