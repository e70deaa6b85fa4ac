\* A keyword and a number of three runs.
SPECIFICATION Spec
CONSTANTS
  MaxWords = 4
  MaxParts = 0
  MaxDepth = 0
  ScoredTexts <- None
  Scalars <- None
INVARIANT SsnsScrubbed
\* One input, handled once.
CHECK_DEADLOCK FALSE
