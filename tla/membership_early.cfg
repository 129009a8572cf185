SPECIFICATION Spec
SYMMETRY Symmetry
CONSTANTS
  Node = {n1, n2, n3, n4, n5}
  Nil = Nil
  Voter = {n1, n2, n3, n4}
  Added = {n5}
  Removed = {n1}
  Learner = {}
  Waits = FALSE
  Reordered = FALSE
  Electable = {n1, n2}
  MaxTerm = 3
  MaxLog = 3
  MaxRestarts = 0
INVARIANTS CommittedAgree
CHECK_DEADLOCK FALSE
