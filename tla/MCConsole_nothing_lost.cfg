SPECIFICATION Spec
CONSTANTS
  Cases      = {c1, c2}
  Others     = {}
  NoCase     = NoCase
  Limits     = {1}
  Filters    = {{"RESOLVED", "ESCALATE", "REFUSE"}}
  EventLimit = 1
  MaxGuarded = 0
  MaxEvents  = 4
INVARIANTS
  NothingIsLost
\* The user may stop acting.
CHECK_DEADLOCK FALSE
