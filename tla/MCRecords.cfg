\* Two cases in two seconds, limits below, at and above what a route returns;
\* two threads, two LLM calls each, under four providers.
SPECIFICATION Spec
CONSTANTS
  Cases = {c1, c2}
  Kinds = {"resolved", "refused", "guarded", "leaked", "leaked_guarded"}
  Limits = {0, 2, 9}
  MaxLimit = 3
  MaxSeconds = 1
  Requests = {r1, r2}
  Deployments <- MCDeployments
  MaxLlmCalls = 2
  Reports <- MCReports
  Estimates <- MCEstimates
SYMMETRY Symmetry
INVARIANTS
  TypeOK
  NewestFirst
  ListsExplainEachOther
  BillsAreRight
  SpendTracksTickets
\* Every case and request ends, and a page is read once.
CHECK_DEADLOCK FALSE
