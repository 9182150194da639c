\* Two values for each id; up to two answers wait for the task.
CONSTANTS
  Ids = {1, 2}
  MaxQueue = 2
SPECIFICATION Spec
INVARIANTS
  TypeOK
  MimicsEreb
  AnswersLikeEreb
