SPECIFICATION Spec
CONSTANTS
  Plan <- RunPlan
  MaxGuesses = 3
  MaxMishaps = 3
INVARIANTS
  TypeOK
  ReportIsTheRun
PROPERTY RunEnds
CHECK_DEADLOCK FALSE
