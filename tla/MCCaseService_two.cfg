\* Two threads and a crash; liveness is among the properties: no symmetry.  An
\* error answer that echoes is stored and counted like any other: left out.
SPECIFICATION Spec
CONSTANTS
  Requests   = {r1, r2}
  Allowlist  <- MCAllowlist
  ToolNames  <- MCAllowlist
  Settings   <- MCSettings
  Setting    <- OnePass
  Marks      = {"signal"}
  ToolAnswers = {"clean", "poisoned", "failure"}
  MaxPlan    = 1
  MaxCrashes = 1
INVARIANTS
  MetricsTrackAudit
PROPERTIES
  EveryRequestEnds
\* a request set is finite: every thread ends
CHECK_DEADLOCK FALSE
