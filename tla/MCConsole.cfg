\* Two submissions and two more user events: room for one interruption anywhere.
\* Lists of one row, which the other case's row can take: a request that timed
\* out is stored as late as any other client's.  Liveness is among the
\* properties: no symmetry.
SPECIFICATION Spec
CONSTANTS
  Cases      = {c1, c2}
  Others     = {}
  NoCase     = NoCase
  Limits     = {1}
  Filters    = {{"RESOLVED", "ESCALATE", "REFUSE"}, {"RESOLVED"}}
  EventLimit = 1
  MaxGuarded = 1
  MaxEvents  = 4
INVARIANTS
  TurnsMatch
  PostedAtMostOnce
  StatsAreStoredCases
  AnswerIsListed
PROPERTIES
  EverySubmissionEnds
\* The user may stop acting.
CHECK_DEADLOCK FALSE
