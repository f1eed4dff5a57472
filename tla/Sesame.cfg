SPECIFICATION Spec
CONSTANTS
  Nil = Nil
  Inputs <- MCInputs
  Requests = {r1}
  MinOpenConnections = 1
  Steps = 4
  MaxConnections = 2
  MaxLate = 1
  MaxRestarts = 1
INVARIANTS
  Precedence ProbesAnswered SecretsWatched AnswerFollowsHook
PROPERTIES
  ComesUpOrEnds ShutdownAnswered DrainImplemented
CHECK_DEADLOCK FALSE
