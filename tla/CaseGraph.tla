------------------------------ MODULE CaseGraph ------------------------------
(***************************************************************************)
(* One graph.invoke of the case-resolution graph                           *)
(*                                                                         *)
(*   classifier -> researcher -> responder -> reviewer -> (responder | END)*)
(*                                                                         *)
(* with the four nodes of graph/nodes.py, the routing of graph/edges.py    *)
(* and the tool dispatch of store/registry.py.  One action is one node,    *)
(* except the researcher, whose loop over the planned calls is a step per  *)
(* call.  The model's answers are chosen freely: a label, a plan, a draft  *)
(* and a verdict can be anything their types allow, and every model call   *)
(* may raise.  LangGraph itself is external: it runs the nodes in this     *)
(* order and raises when a graph has not ended within recursion_limit      *)
(* supersteps.                                                             *)
(***************************************************************************)
EXTENDS CaseVocabulary

CONSTANTS
  Categories,   \* constants.Category
  Other         \* Category.OTHER

ASSUME CategoryAssumption == Other \in Categories

VARIABLES
  settings,          \* the configuration of the process, fixed at start
  node,              \* the node about to run, or how the graph stopped
  steps,             \* supersteps LangGraph has run
  plan,              \* tool calls the researcher has still to dispatch
  category, facts, draft, reviewFeedback,
  decision, escalationReason, iterations, toolCalls    \* CaseState

caseState == <<category, facts, draft, reviewFeedback,
               decision, escalationReason, iterations, toolCalls>>
vars == <<settings, node, steps, plan, caseState>>

LlmNodes == {"classifier", "researcher", "responder", "reviewer"}
Stopped  == {"end", "llm_error", "out_of_steps"}

-----------------------------------------------------------------------------
(* Operators of the nodes *)

\* registry.dispatch_tool: an unlisted name is never called; a tool that
\* raises or answers {"error": ...} is recorded as an error, with its answer.
DispatchTool(request) ==
  IF request.tool \notin Allowlist THEN Record(request.tool, "not_allowlisted", "blocked")
  ELSE Record(request.tool, request.yields,
              IF request.yields \in ErrorAnswers THEN "error" ELSE "ok")

\* injection.scan_tool_result: a flagged payload is replaced by the marker.
Flagged(result) == result \in {"poisoned", "echo"}
ScanToolResult(result) ==
  [flagged   |-> Flagged(result),
   sanitized |-> IF Flagged(result) THEN "quarantined" ELSE result]

\* The researcher's treatment of a dispatched call: only a successful result
\* is scanned, an error answer is kept as it came.
Quarantined(record) ==
  LET scan == ScanToolResult(record.result)
  IN  IF record.status = "ok" /\ scan.flagged
      THEN Record(record.tool, scan.sanitized, "sanitized")
      ELSE record

ReviewerGivesUpLate(n) == n > settings.max_review_iterations         \* mutant

\* The reviewer's side of the cap: it ends a rejected case with ESCALATE.
ReviewerGivesUp(n) == n >= settings.max_review_iterations

RouteAfterReviewLate(d, n) ==                                        \* mutant
  IF d = "RESOLVED" \/ n > settings.max_review_iterations THEN "end" ELSE "responder"
RouteAfterApprovalOnly(d, n) ==                                      \* mutant
  IF d = "RESOLVED" THEN "end" ELSE "responder"

\* The router's side of the cap (edges.route_after_review).
RouteAfterReview(d, n) ==
  IF d = "RESOLVED" \/ n >= settings.max_review_iterations THEN "end" ELSE "responder"

\* A rejection without feedback gets the default sentence.
FeedbackOf(text) == IF text = NoText THEN {"words"} ELSE text

-----------------------------------------------------------------------------
Init ==
  /\ settings \in Settings
  /\ node = "classifier"
  /\ steps = 0
  /\ plan = <<>>
  /\ category = "none"
  /\ facts = <<>>
  /\ draft = NoText
  /\ reviewFeedback = NoText
  /\ decision = "none"
  /\ escalationReason = NoReason
  /\ iterations = 0
  /\ toolCalls = <<>>

\* LangGraph starts the node, if it may run another superstep.
Superstep(n) ==
  /\ node = n
  /\ steps < settings.recursion_limit
  /\ steps' = steps + 1
  /\ UNCHANGED settings

ClassifierTrusting ==                               \* mutant: label kept as is
  /\ Superstep("classifier")
  /\ category' \in Categories \cup {"unlisted"}
  /\ node' = "researcher"
  /\ UNCHANGED <<plan, facts, draft, reviewFeedback, decision,
                 escalationReason, iterations, toolCalls>>

Classifier ==
  /\ Superstep("classifier")
  /\ \E label \in Categories \cup {"unlisted"} :
       category' = IF label \in Categories THEN label ELSE Other
  /\ node' = "researcher"
  /\ UNCHANGED <<plan, facts, draft, reviewFeedback, decision,
                 escalationReason, iterations, toolCalls>>

PlanResearch ==
  /\ Superstep("researcher")
  /\ \E requests \in SeqsUpTo(ToolRequests, MaxPlan) :
       plan' = SubSeq(requests, 1, RoundsKept(settings, Len(requests)))
  /\ node' = "tools"
  /\ UNCHANGED caseState

RunToolEverythingIsFact ==                          \* mutant: status not tested
  /\ node = "tools"
  /\ plan # <<>>
  /\ LET record == Quarantined(DispatchTool(Head(plan)))
     IN  /\ toolCalls' = Append(toolCalls, record)
         /\ facts' = Append(facts, [tool |-> record.tool, data |-> record.result])
  /\ plan' = Tail(plan)
  /\ UNCHANGED <<settings, node, steps, category, draft, reviewFeedback,
                 decision, escalationReason, iterations>>

RunTool ==
  /\ node = "tools"
  /\ plan # <<>>
  /\ LET record == Quarantined(DispatchTool(Head(plan)))
     IN  /\ toolCalls' = Append(toolCalls, record)
         /\ facts' = IF record.status \in {"ok", "sanitized"}
                     THEN Append(facts, [tool |-> record.tool, data |-> record.result])
                     ELSE facts
  /\ plan' = Tail(plan)
  /\ UNCHANGED <<settings, node, steps, category, draft, reviewFeedback,
                 decision, escalationReason, iterations>>

ResearchDoneWithFacts ==                            \* mutant: needs a fact
  /\ node = "tools" /\ plan = <<>> /\ facts # <<>>
  /\ node' = "responder"
  /\ UNCHANGED <<settings, steps, plan, caseState>>

ResearchDone ==
  /\ node = "tools"
  /\ plan = <<>>
  /\ node' = "responder"
  /\ UNCHANGED <<settings, steps, plan, caseState>>

Responder ==
  /\ Superstep("responder")
  /\ \E text \in Texts : draft' = RedactPii(text)
  /\ node' = "reviewer"
  /\ UNCHANGED <<plan, category, facts, reviewFeedback, decision,
                 escalationReason, iterations, toolCalls>>

Approve ==
  /\ Superstep("reviewer")
  /\ iterations' = iterations + 1
  /\ decision' = "RESOLVED"
  /\ reviewFeedback' = NoText
  /\ node' = RouteAfterReview(decision', iterations')
  /\ UNCHANGED <<plan, category, facts, draft, escalationReason, toolCalls>>

Reject ==
  /\ Superstep("reviewer")
  /\ iterations' = iterations + 1
  /\ \E text \in Texts : reviewFeedback' = FeedbackOf(text)
  /\ IF ReviewerGivesUp(iterations')
     THEN /\ decision' = "ESCALATE"
          /\ escalationReason' = NotApproved(iterations', reviewFeedback')
     ELSE UNCHANGED <<decision, escalationReason>>
  /\ node' = RouteAfterReview(decision', iterations')
  /\ UNCHANGED <<plan, category, facts, draft, toolCalls>>

\* A node's model call raises, or the graph cannot be compiled at all.
LlmRaises ==
  /\ node \in LlmNodes
  /\ steps < settings.recursion_limit
  /\ node' = "llm_error"
  /\ UNCHANGED <<settings, steps, plan, caseState>>

\* LangGraph gives up with GraphRecursionError.
OutOfSteps ==
  /\ node \in LlmNodes
  /\ steps >= settings.recursion_limit
  /\ node' = "out_of_steps"
  /\ UNCHANGED <<settings, steps, plan, caseState>>

Next == \/ Classifier \/ PlanResearch \/ RunTool \/ ResearchDone
        \/ Responder \/ Approve \/ Reject
        \/ LlmRaises \/ OutOfSteps

\* graph.invoke is a synchronous loop whose every model call returns or raises.
Spec == Init /\ [][Next]_vars /\ WF_vars(Next)

-----------------------------------------------------------------------------
(* Properties *)

Results  == {"clean", "poisoned", "quarantined", "not_allowlisted"} \cup ErrorAnswers
Statuses == {"ok", "error", "blocked", "sanitized"}       \* constants.ToolStatus

\* The state is a CaseState: in particular the category is never a label that
\* the classifier's fallback should have replaced (nodes.py:25).
TypeOK ==
  /\ settings \in Settings
  /\ node \in LlmNodes \cup {"tools"} \cup Stopped
  /\ steps \in Nat
  /\ plan \in Seq(ToolRequests)
  /\ category \in Categories \cup {"none"}
  /\ facts \in Seq([tool : ToolNames, data : Results])
  /\ draft \in Texts
  /\ reviewFeedback \in Texts
  /\ decision \in {"none", "RESOLVED", "ESCALATE"}
  /\ escalationReason \in [kind : {"none", "not_approved"}, passes : Nat, text : Texts]
  /\ iterations \in Nat
  /\ toolCalls \in Seq([tool : ToolNames, result : Results, status : Statuses])

\* A reviewer that keeps rejecting cannot spin: no case takes more review
\* passes than the cap, or than one when the cap is zero or negative
\* (edges.py:20-25).
ReviewBounded == iterations <= Passes(settings)

\* The reviewer and the router test the cap separately (nodes.py:112,
\* edges.py:23) and must agree: the graph has ended exactly when a decision is
\* written, so it neither ends undecided nor runs on after ESCALATE.
DecidedExactlyAtEnd == (decision # "none") <=> (node = "end")

\* The terminal state explains itself: ESCALATE carries the count and the very
\* feedback of the pass that hit the cap, RESOLVED carries neither a reason nor
\* an earlier round's feedback (nodes.py:102-116).
ReasonMatchesDecision ==
  /\ decision = "ESCALATE" =>
       /\ iterations >= settings.max_review_iterations
       /\ reviewFeedback # NoText
       /\ escalationReason = NotApproved(iterations, reviewFeedback)
  /\ decision # "ESCALATE" => escalationReason = NoReason
  /\ decision = "RESOLVED" => reviewFeedback = NoText

\* A retry always has feedback to address, even when the reviewer's verdict
\* came without any (nodes.py:109).
RetryCarriesFeedback ==
  node = "responder" /\ iterations > 0 => reviewFeedback # NoText

\* A case's end, its reason and what a retry is given always fit together,
\* whatever the reviewer answers in whichever pass (nodes.py:102-116, edges.py:20-25).
DecisionsAgree == DecidedExactlyAtEnd /\ ReasonMatchesDecision /\ RetryCarriesFeedback

\* Every record kept for the audit trail says what became of the call: exactly
\* the unlisted tools are blocked, exactly the quarantined results are marked
\* sanitized, and text the scan would flag is left in the log only under the
\* status error, whose answers are never scanned (registry.py:84-113,
\* nodes.py:55-62).
LogSaysWhatHappened ==
  \A i \in DOMAIN toolCalls :
    /\ toolCalls[i].status = "blocked" <=> toolCalls[i].tool \notin Allowlist
    /\ toolCalls[i].status = "sanitized" <=> toolCalls[i].result = "quarantined"
    /\ Flagged(toolCalls[i].result) => toolCalls[i].status = "error"

\* Nothing the scan flags reaches the responder's prompt as a tool's data, be it
\* planted in a result or echoed by an error, nor does an error or a refused
\* call (nodes.py:55-63).
FactsAreQuarantined ==
  \A i \in DOMAIN facts : /\ facts[i].tool \in Allowlist
                          /\ facts[i].data \in {"clean", "quarantined"}

\* The responder is grounded in exactly the calls that succeeded: every fact
\* is the result of a logged ok or sanitized call, and every such call is a
\* fact (nodes.py:54-63).
FactsMatchLog ==
  /\ \A i \in DOMAIN facts : \E j \in DOMAIN toolCalls :
       /\ toolCalls[j].status \in {"ok", "sanitized"}
       /\ facts[i] = [tool |-> toolCalls[j].tool, data |-> toolCalls[j].result]
  /\ \A j \in DOMAIN toolCalls : toolCalls[j].status \in {"ok", "sanitized"} =>
       \E i \in DOMAIN facts :
         facts[i] = [tool |-> toolCalls[j].tool, data |-> toolCalls[j].result]

\* However long the model's plan is, no more calls are dispatched than a
\* non-negative max_tool_rounds allows (nodes.py:50).
ToolBudget ==
  settings.max_tool_rounds >= 0 =>
    Len(toolCalls) + Len(plan) <= settings.max_tool_rounds

\* Whatever the model plans and the tools answer, log, facts and budget agree
\* (registry.py:84-113, nodes.py:50-63).
ResearchIsFaithful ==
  LogSaysWhatHappened /\ FactsAreQuarantined /\ FactsMatchLog /\ ToolBudget

\* The recursion limit cannot pre-empt the review cap when it leaves room for
\* classifier, researcher and two supersteps per pass: rejection then ends in
\* ESCALATE with feedback, not in a graph error (edges.py:20-25).
OutOfStepsOnlyBelowCap ==
  node = "out_of_steps" => settings.recursion_limit < 2 + 2 * Passes(settings)

\* Under the fairness of the invoke loop every case leaves the graph.
Terminates == <>(node \in Stopped)

-----------------------------------------------------------------------------
(* The graph implements its contract *)

Outcome ==
  CASE node = "end" ->
         [status |-> "returned", decision |-> decision, reason |-> escalationReason,
          iterations |-> iterations, draft |-> draft, log |-> toolCalls]
    [] node \in {"llm_error", "out_of_steps"} ->
         [Pending EXCEPT !.status = "raised", !.log = toolCalls]
    [] OTHER -> Pending

Contract == INSTANCE CaseContract WITH outcome <- Outcome

\* One invocation yields one of the contract's outcomes, once: what
\* service.resolve_case relies on when graph.invoke returns or raises.
ImplementsContract == Contract!Spec
=============================================================================
