\* Up to three queries.
CONSTANTS
  MaxPolls = 3
SPECIFICATION Spec
CHECK_DEADLOCK FALSE
INVARIANTS
  ExitReasonIsTrue
