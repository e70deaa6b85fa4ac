\* Every text of up to five words; every text of up to three of the 22 signals;
\* lists and dicts of up to two entries, two levels deep.
SPECIFICATION Spec
CONSTANTS
  MaxWords = 5
  MaxParts = 2
  MaxDepth = 2
  ScoredTexts <- MCScoredTexts
  Scalars <- MCScalars
INVARIANTS
  RefsSurvive
  RedactionIsFinal
  RefusedByTier
  QuarantineIsExact
\* One input, handled once.
CHECK_DEADLOCK FALSE
