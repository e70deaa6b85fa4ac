SPECIFICATION Spec
CONSTANTS
  Allowlist  <- MCAllowlist
  ToolNames  <- MCToolNames
  Settings   <- MCSettings
  Categories <- MCCategories
  Other      = "other"
  Marks      = {"pii", "leak"}
  ToolAnswers = {"clean", "poisoned", "failure", "echo"}
  MaxPlan    = 3
INVARIANTS
  TypeOK
  ReviewBounded
  DecisionsAgree
  ResearchIsFaithful
  OutOfStepsOnlyBelowCap
PROPERTIES
  ImplementsContract
  Terminates
\* graph.invoke returns or raises once, and the system stops there.
CHECK_DEADLOCK FALSE
