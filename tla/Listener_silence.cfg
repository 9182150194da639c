\* One message; its process receives an answer in time, a frame that fails a test.
CONSTANTS
  MaxMessages = 1
  Networks = {"prompt"}
  Malformed = TRUE
SPECIFICATION Spec
INVARIANTS
  NoResponseMeansSilence
CHECK_DEADLOCK FALSE
