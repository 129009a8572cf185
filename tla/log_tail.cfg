SPECIFICATION Spec
CONSTANTS
  Term = {1, 2}
  Command = {a}
  Process = {state}
  Nil = Nil
  Alone = TRUE
  MaxIndex = 2
  MaxCrashes = 0
INVARIANT LastTermIsOnFile
CHECK_DEADLOCK FALSE
