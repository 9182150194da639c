\* Any controllers, any frames, two values for each id.
CONSTANTS
  Ids = {1, 2}
SPECIFICATION Spec
\* A frame with an unknown command byte ends the process.
CHECK_DEADLOCK FALSE
INVARIANTS
  TypeOK
  IdsFollowState
PROPERTIES
  ConfigFixedWhileRunning
