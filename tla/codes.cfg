SPECIFICATION Spec
CONSTANTS
  MaxCodes = 3
  Emails = {e1}
  Workers = {w1, w2}
  None = None
  MaxAttempts = 2
INVARIANTS TypeOK CountsAreHonest AttemptsAreBounded SpentCodesAreGone SpentCodesTookEffect
CHECK_DEADLOCK FALSE
SYMMETRY WorkerSymmetry
