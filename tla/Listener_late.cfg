\* Two messages; an answer may arrive after its process has given up.
CONSTANTS
  MaxMessages = 2
  Networks = {"late"}
  Malformed = FALSE
SPECIFICATION Spec
INVARIANTS
  ChangedIsOwn
CHECK_DEADLOCK FALSE
