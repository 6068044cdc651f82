SPECIFICATION Spec
CONSTANTS
  Garbage = Garbage
  performance <- MCPerformance
  Id <- MCId
  Level <- MCLevel
INVARIANTS TypeOK LimitsInTable LevelInTable
PROPERTY KeepsContract
