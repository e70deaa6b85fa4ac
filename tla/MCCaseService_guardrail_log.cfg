SPECIFICATION Spec
CONSTANTS
  Requests   = {r1}
  Allowlist  <- MCAllowlist
  ToolNames  <- MCToolNames
  Settings   <- MCSettings
  Setting    <- OnePass
  Marks      = {"leak"}
  ToolAnswers = {"clean", "poisoned", "failure", "echo"}
  MaxPlan    = 1
  MaxCrashes = 0
INVARIANT
  GuardrailActionLogged
\* a request set is finite: every thread ends
CHECK_DEADLOCK FALSE
