SPECIFICATION Spec
CONSTANTS
  Requests   = {r1}
  Allowlist  <- MCAllowlist
  ToolNames  <- MCToolNames
  Settings   <- MCSettings
  Setting    <- TwoPasses
  Marks      = {"pii", "leak", "signal"}
  ToolAnswers = {"clean", "poisoned", "failure", "echo"}
  MaxPlan    = 3
  MaxCrashes = 1
INVARIANTS
  TypeOK
  AuditIsPrefix
  AnsweredIsDurable
  AtMostOneEventMissing
  LeakGate
  RefusedBeforeModel
  StoredTextIsRedacted
\* a request set is finite: every thread ends
CHECK_DEADLOCK FALSE
