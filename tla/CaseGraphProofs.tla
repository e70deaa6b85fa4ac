--------------------------- MODULE CaseGraphProofs ---------------------------
(***************************************************************************)
(* Theorems about CaseGraph for every allowlist, every set of settings and *)
(* every bound on plans.  The inductive invariant Inv adds to the checked  *)
(* properties where the counters stand at each node: iterations is below   *)
(* the cap whenever the loop is entered, and steps is a function of node   *)
(* and iterations.                                                         *)
(***************************************************************************)
EXTENDS CaseGraph, SequenceTheorems, TLAPS

-----------------------------------------------------------------------------
(* Facts about the vocabulary *)

SettingType == [max_review_iterations : Int, max_tool_rounds : Int, recursion_limit : Nat]

\* The slice keeps at most n requests, never more than a longer plan would
\* leave, and never more than a non-negative max_tool_rounds (nodes.py:50).
LEMMA RoundsKeptBounds ==
  ASSUME NEW s \in SettingType, NEW m \in Nat, NEW n \in 0..m
  PROVE  /\ RoundsKept(s, n) \in 0..n
         /\ RoundsKept(s, n) <= RoundsKept(s, m)
         /\ s.max_tool_rounds >= 0 => RoundsKept(s, n) <= s.max_tool_rounds
  BY DEF RoundsKept, SettingType

\* The missing text is a text, redacted or not.
LEMMA NoTextIsText == NoText \in Texts /\ NoText \in RedactedTexts
  BY DEF Texts, RedactedTexts, TextsMarked

\* redact_pii leaves a text without PII, and only takes PII away (pii.py:63-71).
LEMMA RedactedText ==
  ASSUME NEW text \in Texts
  PROVE  RedactPii(text) \in RedactedTexts /\ RedactPii(text) \in Texts
<1>1. CASE text = NoText
  BY <1>1, NoTextIsText DEF RedactPii, NoText
<1>2. CASE text # NoText
  <2>1. PICK m \in SUBSET (Marks \ {"signal"}) : text = {"words"} \cup m
    BY <1>2 DEF Texts, TextsMarked
  <2>2. RedactPii(text) = {"words"} \cup (m \ {"pii"})
    BY <2>1 DEF RedactPii
  <2>3. /\ m \ {"pii"} \in SUBSET (Marks \ {"signal", "pii"})
        /\ m \ {"pii"} \in SUBSET (Marks \ {"signal"})
    BY <2>1
  <2> QED  BY <2>2, <2>3 DEF Texts, RedactedTexts, TextsMarked
<1> QED  BY <1>1, <1>2

\* At least one pass is always allowed, and the cap is met at Passes(s).
LEMMA PassesBounds ==
  ASSUME NEW s \in SettingType
  PROVE  /\ Passes(s) \in Nat \ {0}
         /\ \A n \in Nat \ {0} : n >= s.max_review_iterations <=> n >= Passes(s)
  BY DEF Passes, SettingType

\* A bounded sequence is a sequence, of bounded length, and conversely.
LEMMA SeqsUpToIsSeq ==
  ASSUME NEW S, NEW n \in Nat
  PROVE  \A seq : seq \in SeqsUpTo(S, n) <=> seq \in Seq(S) /\ Len(seq) <= n
<1>1. ASSUME NEW seq \in SeqsUpTo(S, n)
      PROVE  seq \in Seq(S) /\ Len(seq) <= n
  <2>1. PICK k \in 0..n : seq \in [1..k -> S]
    BY <1>1 DEF SeqsUpTo
  <2>2. seq \in Seq(S) /\ Len(seq) = k
    BY <2>1
  <2> QED  BY <2>1, <2>2
<1>2. ASSUME NEW seq \in Seq(S), Len(seq) <= n
      PROVE  seq \in SeqsUpTo(S, n)
  <2>1. seq \in [1..Len(seq) -> S] /\ Len(seq) \in 0..n
    BY <1>2, LenProperties
  <2> QED  BY <2>1 DEF SeqsUpTo
<1> QED  BY <1>1, <1>2

\* The researcher's record of a call is one of the audit's records: an unlisted
\* tool is blocked, a flagged payload replaced (registry.py:84-113).
LEMMA QuarantinedRecord ==
  ASSUME NEW request \in ToolRequests
  PROVE  Quarantined(DispatchTool(request)) \in CallRecords
  BY VocabularyAssumption DEF ToolRequests, ErrorAnswers, Quarantined, DispatchTool, ScanToolResult, Flagged,
         Record, CallRecords

\* A CallRecord's components are among those TypeOK allows.
LEMMA CallRecordType ==
  ASSUME NEW record \in CallRecords
  PROVE  record \in [tool : ToolNames, result : Results, status : Statuses]
  BY VocabularyAssumption DEF CallRecords, ErrorAnswers, Results, Statuses

-----------------------------------------------------------------------------
(* The inductive invariant *)

BeforeReview == {"classifier", "researcher", "tools"}

IterationsByNode ==
  /\ iterations <= Passes(settings)
  /\ node \in BeforeReview => iterations = 0
  /\ node \in {"responder", "reviewer"} => iterations < Passes(settings)
  /\ node = "end" => iterations > 0

StepsByNode ==
  /\ node = "classifier" => steps = 0
  /\ node = "researcher" => steps = 1
  /\ node = "tools" => steps = 2
  /\ node = "responder" => steps = 2 + 2 * iterations
  /\ node = "reviewer" => steps = 3 + 2 * iterations
  /\ node = "out_of_steps" => settings.recursion_limit < 2 + 2 * Passes(settings)

\* Every logged call is one of the audit's records.
LoggedCalls == \A i \in DOMAIN toolCalls : toolCalls[i] \in CallRecords

LogBounded ==
  /\ node \in {"classifier", "researcher"} => toolCalls = <<>> /\ plan = <<>>
  /\ Len(toolCalls) + Len(plan) <= RoundsKept(settings, MaxPlan)
  /\ settings.max_tool_rounds >= 0 =>
       Len(toolCalls) + Len(plan) <= settings.max_tool_rounds

Inv ==
  /\ TypeOK
  /\ IterationsByNode
  /\ StepsByNode
  /\ LogBounded
  /\ DecidedExactlyAtEnd
  /\ ReasonMatchesDecision
  /\ RetryCarriesFeedback
  /\ LoggedCalls
  /\ FactsMatchLog
  /\ draft \in RedactedTexts

\* What every step knows of the process's configuration.
LEMMA SettingFacts ==
  ASSUME Inv
  PROVE  /\ settings \in SettingType
         /\ Passes(settings) \in Nat \ {0}
         /\ \A n \in Nat \ {0} : n >= settings.max_review_iterations <=> n >= Passes(settings)
<1>1. settings \in SettingType
  BY VocabularyAssumption DEF Inv, TypeOK, SettingType
<1> QED  BY <1>1, PassesBounds

\* The initial states satisfy the invariant.
LEMMA InvInit == Init => Inv
<1> SUFFICES ASSUME Init PROVE Inv
  OBVIOUS
<1>1. settings \in SettingType
  BY VocabularyAssumption DEF Init, SettingType
<1>2. TypeOK
  BY EmptySeq DEF Init, TypeOK, LlmNodes, Texts, TextsMarked, NoText, NoReason
<1>3. IterationsByNode /\ StepsByNode
  BY <1>1, PassesBounds DEF Init, IterationsByNode, StepsByNode, BeforeReview
<1>4. LogBounded
  BY <1>1, VocabularyAssumption, RoundsKeptBounds, EmptySeq DEF Init, LogBounded
<1>5. DecidedExactlyAtEnd /\ ReasonMatchesDecision /\ RetryCarriesFeedback
  BY DEF Init, DecidedExactlyAtEnd, ReasonMatchesDecision, RetryCarriesFeedback
<1>6. LoggedCalls /\ FactsMatchLog
  BY DEF Init, LoggedCalls, FactsMatchLog
<1>7. draft \in RedactedTexts
  BY DEF Init, RedactedTexts, TextsMarked
<1> QED  BY <1>2, <1>3, <1>4, <1>5, <1>6, <1>7 DEF Inv

\* classifier: only the category changes.
LEMMA InvClassifier == Inv /\ Classifier => Inv'
<1> SUFFICES ASSUME Inv, Classifier PROVE Inv'
  OBVIOUS
<1> USE DEF Classifier, Superstep
<1>1. TypeOK'
  BY CategoryAssumption DEF Inv, TypeOK, LlmNodes
<1>2. IterationsByNode' /\ StepsByNode' /\ LogBounded'
  BY DEF Inv, IterationsByNode, StepsByNode, LogBounded, BeforeReview
<1>3. DecidedExactlyAtEnd' /\ ReasonMatchesDecision' /\ RetryCarriesFeedback'
  BY DEF Inv, DecidedExactlyAtEnd, ReasonMatchesDecision, RetryCarriesFeedback
<1>4. LoggedCalls' /\ FactsMatchLog' /\ (draft \in RedactedTexts)'
  BY DEF Inv, LoggedCalls, FactsMatchLog
<1> QED  BY <1>1, <1>2, <1>3, <1>4 DEF Inv

\* researcher, its model call: the plan is cut to the tool budget.
LEMMA InvPlanResearch == Inv /\ PlanResearch => Inv'
<1> SUFFICES ASSUME Inv, PlanResearch PROVE Inv'
  OBVIOUS
<1> USE DEF PlanResearch, Superstep, caseState
<1>1. settings \in SettingType /\ settings' = settings
  BY SettingFacts
<1>2. PICK requests \in SeqsUpTo(ToolRequests, MaxPlan) :
         plan' = SubSeq(requests, 1, RoundsKept(settings, Len(requests)))
  OBVIOUS
<1>3. requests \in Seq(ToolRequests) /\ Len(requests) \in 0..MaxPlan
  BY <1>2, SeqsUpToIsSeq, VocabularyAssumption
<1> DEFINE kept == RoundsKept(settings, Len(requests))
<1>4. /\ kept \in 0..Len(requests)
      /\ kept <= RoundsKept(settings, MaxPlan)
      /\ settings.max_tool_rounds >= 0 => kept <= settings.max_tool_rounds
  BY <1>1, <1>3, RoundsKeptBounds, VocabularyAssumption
<1>5. plan' \in Seq(ToolRequests) /\ Len(plan') = kept
  <2> HIDE DEF kept
  <2>1. \A i \in 1..kept : requests[i] \in ToolRequests
    BY <1>3, <1>4
  <2>2. kept \in Nat
    BY <1>3, <1>4
  <2>3. /\ SubSeq(requests, 1, kept) \in Seq(ToolRequests)
        /\ Len(SubSeq(requests, 1, kept)) = IF 1 <= kept THEN kept - 1 + 1 ELSE 0
    BY <2>1, <2>2, SubSeqProperties
  <2>4. (IF 1 <= kept THEN kept - 1 + 1 ELSE 0) = kept
    BY <2>2
  <2>5. plan' = SubSeq(requests, 1, kept)
    BY <1>2 DEF kept
  <2> QED  BY <2>3, <2>4, <2>5, Zenon
<1>6. TypeOK'
  BY <1>5 DEF Inv, TypeOK
<1>7. IterationsByNode' /\ StepsByNode'
  BY DEF Inv, IterationsByNode, StepsByNode, BeforeReview
<1>8. LogBounded'
  <2>1. toolCalls' = <<>> /\ Len(toolCalls') = 0
    BY EmptySeq DEF Inv, LogBounded
  <2> HIDE DEF kept
  <2> QED  BY <1>1, <1>4, <1>5, <2>1 DEF LogBounded
<1>9. DecidedExactlyAtEnd' /\ ReasonMatchesDecision' /\ RetryCarriesFeedback'
  BY DEF Inv, DecidedExactlyAtEnd, ReasonMatchesDecision, RetryCarriesFeedback
<1>10. LoggedCalls' /\ FactsMatchLog' /\ (draft \in RedactedTexts)'
  BY DEF Inv, LoggedCalls, FactsMatchLog
<1> QED  BY <1>6, <1>7, <1>8, <1>9, <1>10 DEF Inv

\* researcher, one call of its loop: the log and the facts grow together.
LEMMA InvRunTool == Inv /\ RunTool => Inv'
<1> SUFFICES ASSUME Inv, RunTool PROVE Inv'
  OBVIOUS
<1> USE DEF RunTool
<1> DEFINE record == Quarantined(DispatchTool(Head(plan)))
           fact   == [tool |-> record.tool, data |-> record.result]
<1>1. /\ plan \in Seq(ToolRequests)
      /\ toolCalls \in Seq([tool : ToolNames, result : Results, status : Statuses])
      /\ facts \in Seq([tool : ToolNames, data : Results])
  BY DEF Inv, TypeOK
<1>2. /\ Head(plan) \in ToolRequests
      /\ plan' \in Seq(ToolRequests)
      /\ Len(plan') = Len(plan) - 1
  BY <1>1, HeadTailProperties
<1>3. record \in CallRecords
  BY <1>2, QuarantinedRecord
<1>4. record \in [tool : ToolNames, result : Results, status : Statuses]
  BY <1>3, CallRecordType
<1>5. fact \in [tool : ToolNames, data : Results]
  BY <1>4
<1>6. /\ toolCalls' = Append(toolCalls, record)
      /\ facts' = IF record.status \in {"ok", "sanitized"} THEN Append(facts, fact) ELSE facts
  OBVIOUS
<1> HIDE DEF record, fact
<1>7. /\ toolCalls' \in Seq([tool : ToolNames, result : Results, status : Statuses])
      /\ Len(toolCalls') = Len(toolCalls) + 1
      /\ \A j \in 1..Len(toolCalls) : toolCalls'[j] = toolCalls[j]
      /\ toolCalls'[Len(toolCalls) + 1] = record
  BY <1>1, <1>4, <1>6, AppendProperties
<1>8. facts' \in Seq([tool : ToolNames, data : Results])
  <2>1. Append(facts, fact) \in Seq([tool : ToolNames, data : Results])
    BY <1>1, <1>5, AppendProperties
  <2> QED  BY <1>1, <1>6, <2>1
<1>9. TypeOK'
  BY <1>2, <1>7, <1>8 DEF Inv, TypeOK
<1>10. IterationsByNode' /\ StepsByNode'
  BY DEF Inv, IterationsByNode, StepsByNode, BeforeReview
<1>11. LogBounded'
  <2>1. Len(toolCalls') + Len(plan') = Len(toolCalls) + Len(plan)
    BY <1>1, <1>2, <1>7, LenProperties
  <2> QED  BY <2>1 DEF Inv, LogBounded
<1>12. DecidedExactlyAtEnd' /\ ReasonMatchesDecision' /\ RetryCarriesFeedback'
  BY DEF Inv, DecidedExactlyAtEnd, ReasonMatchesDecision, RetryCarriesFeedback
<1>13. DOMAIN toolCalls = 1..Len(toolCalls) /\ DOMAIN toolCalls' = 1..(Len(toolCalls) + 1)
  BY <1>1, <1>7, LenProperties
<1>14. LoggedCalls'
  BY <1>3, <1>7, <1>13 DEF Inv, LoggedCalls
<1>15. FactsMatchLog'
  <2>1. Len(toolCalls) \in Nat /\ Len(facts) \in Nat /\ DOMAIN facts = 1..Len(facts)
    BY <1>1, LenProperties
  <2>2. CASE record.status \in {"ok", "sanitized"}
    <3>1. /\ DOMAIN facts' = 1..(Len(facts) + 1)
          /\ \A i \in 1..Len(facts) : facts'[i] = facts[i]
          /\ facts'[Len(facts) + 1] = fact
      BY <1>1, <1>5, <1>6, <2>2, AppendProperties, LenProperties
    <3>2. ASSUME NEW i \in DOMAIN facts'
          PROVE  \E j \in DOMAIN toolCalls' :
                   /\ toolCalls'[j].status \in {"ok", "sanitized"}
                   /\ facts'[i] = [tool |-> toolCalls'[j].tool, data |-> toolCalls'[j].result]
      <4>1. CASE i \in 1..Len(facts)
        BY <4>1, <1>7, <1>13, <2>1, <3>1 DEF Inv, FactsMatchLog
      <4>2. CASE i = Len(facts) + 1
        BY <4>2, <1>7, <1>13, <2>1, <2>2, <3>1 DEF fact
      <4>3. i \in 1..Len(facts) \/ i = Len(facts) + 1
        BY <2>1, <3>1
      <4> QED  BY <4>1, <4>2, <4>3
    <3>3. ASSUME NEW j \in DOMAIN toolCalls', toolCalls'[j].status \in {"ok", "sanitized"}
          PROVE  \E i \in DOMAIN facts' :
                   facts'[i] = [tool |-> toolCalls'[j].tool, data |-> toolCalls'[j].result]
      <4>1. CASE j \in 1..Len(toolCalls)
        BY <3>3, <4>1, <1>7, <1>13, <2>1, <3>1 DEF Inv, FactsMatchLog
      <4>2. CASE j = Len(toolCalls) + 1
        BY <4>2, <1>7, <2>1, <3>1 DEF fact
      <4> QED  BY <1>13, <2>1, <4>1, <4>2
    <3> QED  BY <3>2, <3>3 DEF FactsMatchLog
  <2>3. CASE record.status \notin {"ok", "sanitized"}
    <3>1. facts' = facts
      BY <1>6, <2>3
    <3>2. ASSUME NEW i \in DOMAIN facts'
          PROVE  \E j \in DOMAIN toolCalls' :
                   /\ toolCalls'[j].status \in {"ok", "sanitized"}
                   /\ facts'[i] = [tool |-> toolCalls'[j].tool, data |-> toolCalls'[j].result]
      <4>1. PICK j \in 1..Len(toolCalls) :
              /\ toolCalls[j].status \in {"ok", "sanitized"}
              /\ facts[i] = [tool |-> toolCalls[j].tool, data |-> toolCalls[j].result]
        BY <1>13, <3>1 DEF Inv, FactsMatchLog
      <4>2. j \in DOMAIN toolCalls' /\ toolCalls'[j] = toolCalls[j]
        BY <1>7, <1>13, <2>1
      <4> QED  BY <3>1, <4>1, <4>2
    <3>3. ASSUME NEW j \in DOMAIN toolCalls', toolCalls'[j].status \in {"ok", "sanitized"}
          PROVE  \E i \in DOMAIN facts' :
                   facts'[i] = [tool |-> toolCalls'[j].tool, data |-> toolCalls'[j].result]
      <4>1. j \in 1..Len(toolCalls) /\ toolCalls'[j] = toolCalls[j]
        BY <1>7, <1>13, <2>1, <2>3, <3>3
      <4> QED  BY <1>13, <3>1, <3>3, <4>1 DEF Inv, FactsMatchLog
    <3> QED  BY <3>2, <3>3 DEF FactsMatchLog
  <2> QED  BY <2>2, <2>3
<1>16. (draft \in RedactedTexts)'
  BY DEF Inv
<1> QED  BY <1>9, <1>10, <1>11, <1>12, <1>14, <1>15, <1>16 DEF Inv

\* researcher, its end: the first draft is due, and one pass is always allowed.
LEMMA InvResearchDone == Inv /\ ResearchDone => Inv'
<1> SUFFICES ASSUME Inv, ResearchDone PROVE Inv'
  OBVIOUS
<1> USE DEF ResearchDone, caseState
<1>1. TypeOK'
  BY DEF Inv, TypeOK, LlmNodes
<1>2. IterationsByNode' /\ StepsByNode' /\ LogBounded'
  BY SettingFacts DEF Inv, TypeOK, IterationsByNode, StepsByNode, LogBounded, BeforeReview
<1>3. DecidedExactlyAtEnd' /\ ReasonMatchesDecision' /\ RetryCarriesFeedback'
  BY DEF Inv, IterationsByNode, BeforeReview,
         DecidedExactlyAtEnd, ReasonMatchesDecision, RetryCarriesFeedback
<1>4. LoggedCalls' /\ FactsMatchLog' /\ (draft \in RedactedTexts)'
  BY DEF Inv, LoggedCalls, FactsMatchLog
<1> QED  BY <1>1, <1>2, <1>3, <1>4 DEF Inv

\* responder: the draft is redacted before it enters the state.
LEMMA InvResponder == Inv /\ Responder => Inv'
<1> SUFFICES ASSUME Inv, Responder PROVE Inv'
  OBVIOUS
<1> USE DEF Responder, Superstep
<1>1. draft' \in RedactedTexts /\ draft' \in Texts
  BY RedactedText
<1>2. TypeOK'
  BY <1>1 DEF Inv, TypeOK, LlmNodes
<1>3. IterationsByNode' /\ StepsByNode' /\ LogBounded'
  BY DEF Inv, TypeOK, IterationsByNode, StepsByNode, LogBounded, BeforeReview
<1>4. DecidedExactlyAtEnd' /\ ReasonMatchesDecision' /\ RetryCarriesFeedback'
  BY DEF Inv, DecidedExactlyAtEnd, ReasonMatchesDecision, RetryCarriesFeedback
<1>5. LoggedCalls' /\ FactsMatchLog'
  BY DEF Inv, LoggedCalls, FactsMatchLog
<1> QED  BY <1>1, <1>2, <1>3, <1>4, <1>5 DEF Inv

\* reviewer, approving: RESOLVED, and the router ends the graph whatever the cap.
LEMMA InvApprove == Inv /\ Approve => Inv'
<1> SUFFICES ASSUME Inv, Approve PROVE Inv'
  OBVIOUS
<1> USE DEF Approve, Superstep
<1>1. node' = "end"
  BY DEF RouteAfterReview
<1>2. TypeOK'
  BY <1>1, NoTextIsText DEF Inv, TypeOK, Stopped
<1>3. IterationsByNode' /\ StepsByNode' /\ LogBounded'
  BY <1>1, SettingFacts
  DEF Inv, TypeOK, IterationsByNode, StepsByNode, LogBounded, BeforeReview
<1>4. DecidedExactlyAtEnd' /\ ReasonMatchesDecision' /\ RetryCarriesFeedback'
  BY <1>1 DEF Inv, DecidedExactlyAtEnd, ReasonMatchesDecision, RetryCarriesFeedback
<1>5. LoggedCalls' /\ FactsMatchLog' /\ (draft \in RedactedTexts)'
  BY DEF Inv, LoggedCalls, FactsMatchLog
<1> QED  BY <1>2, <1>3, <1>4, <1>5 DEF Inv

\* reviewer, rejecting: its own test of the cap and the router's agree.
LEMMA InvReject == Inv /\ Reject => Inv'
<1> SUFFICES ASSUME Inv, Reject PROVE Inv'
  OBVIOUS
<1> USE DEF Reject, Superstep
<1>1. /\ iterations \in Nat /\ iterations' = iterations + 1
      /\ Passes(settings) \in Nat \ {0}
      /\ iterations < Passes(settings)
      /\ settings' = settings
      /\ decision = "none"
  BY SettingFacts DEF Inv, TypeOK, IterationsByNode, DecidedExactlyAtEnd
<1>2. ReviewerGivesUp(iterations') <=> iterations' >= Passes(settings)
  BY <1>1, SettingFacts DEF ReviewerGivesUp
<1>3. reviewFeedback' \in Texts /\ reviewFeedback' # NoText
  BY DEF FeedbackOf, Texts, TextsMarked, NoText
<1>4. CASE iterations' >= Passes(settings)
  <2>1. /\ node' = "end"
        /\ decision' = "ESCALATE"
        /\ escalationReason' = NotApproved(iterations', reviewFeedback')
    BY <1>2, <1>4 DEF RouteAfterReview, ReviewerGivesUp
  <2>2. TypeOK'
    BY <1>1, <1>3, <2>1 DEF Inv, TypeOK, Stopped, NotApproved
  <2>3. IterationsByNode' /\ StepsByNode' /\ LogBounded'
    BY <1>1, <2>1 DEF Inv, TypeOK, IterationsByNode, StepsByNode, LogBounded, BeforeReview
  <2>4. DecidedExactlyAtEnd' /\ ReasonMatchesDecision' /\ RetryCarriesFeedback'
    BY <1>1, <1>2, <1>3, <1>4, <2>1
    DEF DecidedExactlyAtEnd, ReasonMatchesDecision, RetryCarriesFeedback, ReviewerGivesUp
  <2>5. LoggedCalls' /\ FactsMatchLog' /\ (draft \in RedactedTexts)'
    BY DEF Inv, LoggedCalls, FactsMatchLog
  <2> QED  BY <2>2, <2>3, <2>4, <2>5 DEF Inv
<1>5. CASE iterations' < Passes(settings)
  <2>1. /\ node' = "responder"
        /\ decision' = "none"
        /\ escalationReason' = escalationReason
    BY <1>1, <1>2, <1>5 DEF RouteAfterReview, ReviewerGivesUp
  <2>2. TypeOK'
    BY <1>1, <1>3, <2>1 DEF Inv, TypeOK, LlmNodes
  <2>3. IterationsByNode' /\ StepsByNode' /\ LogBounded'
    BY <1>1, <1>5, <2>1 DEF Inv, TypeOK, IterationsByNode, StepsByNode, LogBounded, BeforeReview
  <2>4. DecidedExactlyAtEnd' /\ ReasonMatchesDecision' /\ RetryCarriesFeedback'
    BY <1>1, <1>3, <2>1
    DEF Inv, DecidedExactlyAtEnd, ReasonMatchesDecision, RetryCarriesFeedback
  <2>5. LoggedCalls' /\ FactsMatchLog' /\ (draft \in RedactedTexts)'
    BY DEF Inv, LoggedCalls, FactsMatchLog
  <2> QED  BY <2>2, <2>3, <2>4, <2>5 DEF Inv
<1> QED  BY <1>1, <1>4, <1>5

\* An exception, the model's or LangGraph's, only stops the graph; the steps
\* taken show that LangGraph's needs a limit too small for the cap.
LEMMA InvRaised == Inv /\ (LlmRaises \/ OutOfSteps) => Inv'
<1> SUFFICES ASSUME Inv, LlmRaises \/ OutOfSteps PROVE Inv'
  OBVIOUS
<1> USE DEF LlmRaises, OutOfSteps, caseState
<1>1. TypeOK'
  BY DEF Inv, TypeOK, Stopped
<1>2. IterationsByNode' /\ LogBounded'
  BY DEF Inv, IterationsByNode, LogBounded, BeforeReview
<1>3. StepsByNode'
  <2>1. CASE LlmRaises
    BY <2>1 DEF StepsByNode
  <2>2. CASE OutOfSteps
    <3>1. /\ settings \in SettingType
          /\ Passes(settings) \in Nat \ {0}
          /\ iterations \in Nat
      BY SettingFacts DEF Inv, TypeOK
    <3>2. steps < 2 + 2 * Passes(settings)
      BY <2>2, <3>1 DEF Inv, IterationsByNode, StepsByNode, BeforeReview, LlmNodes
    <3>3. settings.recursion_limit < 2 + 2 * Passes(settings)
      BY <2>2, <3>1, <3>2 DEF Inv, TypeOK, SettingType
    <3> QED  BY <2>2, <3>3 DEF StepsByNode
  <2> QED  BY <2>1, <2>2
<1>4. DecidedExactlyAtEnd' /\ ReasonMatchesDecision' /\ RetryCarriesFeedback'
  BY DEF Inv, LlmNodes, DecidedExactlyAtEnd, ReasonMatchesDecision, RetryCarriesFeedback
<1>5. LoggedCalls' /\ FactsMatchLog' /\ (draft \in RedactedTexts)'
  BY DEF Inv, LoggedCalls, FactsMatchLog
<1> QED  BY <1>1, <1>2, <1>3, <1>4, <1>5 DEF Inv

\* Every step of the graph preserves the invariant.
LEMMA InvStep == Inv /\ [Next]_vars => Inv'
<1> SUFFICES ASSUME Inv, [Next]_vars PROVE Inv'
  OBVIOUS
<1>1. CASE UNCHANGED vars
  BY <1>1 DEF vars, caseState, Inv, TypeOK, IterationsByNode, StepsByNode, LogBounded,
              DecidedExactlyAtEnd, ReasonMatchesDecision, RetryCarriesFeedback,
              LoggedCalls, FactsMatchLog
<1> QED  BY <1>1, InvClassifier, InvPlanResearch, InvRunTool, InvResearchDone,
            InvResponder, InvApprove, InvReject, InvRaised DEF Next

-----------------------------------------------------------------------------
(* Theorems *)

\* Every reachable state satisfies the inductive invariant.
THEOREM Invariance == Spec => []Inv
  BY InvInit, InvStep, PTL DEF Spec

\* The state is always a CaseState.
THEOREM TypeCorrectness == Spec => []TypeOK
<1>1. Inv => TypeOK
  BY DEF Inv
<1> QED  BY Invariance, <1>1, PTL

\* No setting and no reviewer can make the review loop exceed its cap
\* (edges.py:20-25).
THEOREM ReviewLoopBounded == Spec => []ReviewBounded
<1>1. Inv => ReviewBounded
  BY DEF Inv, IterationsByNode, ReviewBounded
<1> QED  BY Invariance, <1>1, PTL

\* The reviewer's and the router's tests of the cap always agree, and the
\* decision they end with explains itself (nodes.py:102-116, edges.py:20-25).
THEOREM DecisionsAreConsistent == Spec => []DecisionsAgree
<1>1. Inv => DecisionsAgree
  BY DEF Inv, DecisionsAgree
<1> QED  BY Invariance, <1>1, PTL

\* A record of the audit says what became of its call.
LEMMA RecordSaysWhatHappened ==
  ASSUME NEW record \in CallRecords
  PROVE  /\ record.status = "blocked" <=> record.tool \notin Allowlist
         /\ record.status = "sanitized" <=> record.result = "quarantined"
         /\ Flagged(record.result) => record.status = "error"
         /\ record.status \in {"ok", "sanitized"} =>
              record.tool \in Allowlist /\ record.result \in {"clean", "quarantined"}
  BY DEF CallRecords, ErrorAnswers, Flagged

\* For every allowlist and plan: the blocked calls are the unlisted ones, text
\* the scan would flag is left in the log only as an error's answer and never
\* in a fact, and the facts are exactly the calls that succeeded
\* (registry.py:84-113, nodes.py:50-63).
THEOREM ResearchIsSafe == Spec => []ResearchIsFaithful
<1>1. Inv => LogSaysWhatHappened
  BY RecordSaysWhatHappened DEF Inv, LoggedCalls, LogSaysWhatHappened
<1>2. Inv => FactsAreQuarantined
  <2> SUFFICES ASSUME Inv, NEW i \in DOMAIN facts
               PROVE  facts[i].tool \in Allowlist /\ facts[i].data \in {"clean", "quarantined"}
    BY DEF FactsAreQuarantined
  <2>1. PICK j \in DOMAIN toolCalls :
          /\ toolCalls[j].status \in {"ok", "sanitized"}
          /\ facts[i] = [tool |-> toolCalls[j].tool, data |-> toolCalls[j].result]
    BY DEF Inv, FactsMatchLog
  <2>2. toolCalls[j] \in CallRecords
    BY DEF Inv, LoggedCalls
  <2> QED  BY <2>1, <2>2, RecordSaysWhatHappened
<1>3. Inv => ResearchIsFaithful
  BY <1>1, <1>2 DEF Inv, LogBounded, ToolBudget, ResearchIsFaithful
<1> QED  BY Invariance, <1>3, PTL

\* A recursion limit of 2 + 2 * Passes supersteps is enough for every case.
THEOREM LimitSuffices == Spec => []OutOfStepsOnlyBelowCap
<1>1. Inv => OutOfStepsOnlyBelowCap
  BY DEF Inv, StepsByNode, OutOfStepsOnlyBelowCap
<1> QED  BY Invariance, <1>1, PTL

-----------------------------------------------------------------------------
(* The graph implements its contract *)

\* A log within the invariant is one of the contract's logs.
LEMMA LogIsOutcomeLog ==
  ASSUME Inv
  PROVE  toolCalls \in Logs(settings)
<1>1. /\ toolCalls \in Seq([tool : ToolNames, result : Results, status : Statuses])
      /\ plan \in Seq(ToolRequests)
  BY DEF Inv, TypeOK
<1>2. /\ Len(toolCalls) \in Nat /\ Len(plan) \in Nat
      /\ DOMAIN toolCalls = 1..Len(toolCalls)
      /\ toolCalls \in [1..Len(toolCalls) -> [tool : ToolNames, result : Results, status : Statuses]]
  BY <1>1, LenProperties
<1>3. RoundsKept(settings, MaxPlan) \in Nat
  BY SettingFacts, VocabularyAssumption, RoundsKeptBounds
<1>4. Len(toolCalls) \in 0..RoundsKept(settings, MaxPlan)
  BY <1>2, <1>3 DEF Inv, LogBounded
<1>5. toolCalls \in [1..Len(toolCalls) -> CallRecords]
  BY <1>2 DEF Inv, LoggedCalls
<1> QED  BY <1>4, <1>5 DEF Logs, SeqsUpTo

\* Where the graph has stopped, what it yields is one of the contract's outcomes.
LEMMA StoppedIsOutcome == Inv /\ node \in Stopped => Outcome \in Outcomes(settings)
<1> SUFFICES ASSUME Inv, node \in Stopped PROVE Outcome \in Outcomes(settings)
  OBVIOUS
<1>1. toolCalls \in Logs(settings)
  BY LogIsOutcomeLog
<1>2. CASE node = "end"
  <2>1. Outcome = [status |-> "returned", decision |-> decision, reason |-> escalationReason,
                   iterations |-> iterations, draft |-> draft, log |-> toolCalls]
    BY <1>2 DEF Outcome
  <2>2. /\ iterations \in 1..Passes(settings)
        /\ draft \in RedactedTexts
        /\ decision \in {"RESOLVED", "ESCALATE"}
    BY <1>2, SettingFacts DEF Inv, TypeOK, IterationsByNode, DecidedExactlyAtEnd
  <2>3. CASE decision = "RESOLVED"
    <3>1. escalationReason = NoReason
      BY <2>3 DEF Inv, ReasonMatchesDecision
    <3>2. Outcome \in Resolved(settings)
      BY <1>1, <2>1, <2>2, <2>3, <3>1 DEF Resolved
    <3> QED  BY <3>2 DEF Outcomes
  <2>4. CASE decision = "ESCALATE"
    <3>1. /\ iterations >= settings.max_review_iterations
          /\ reviewFeedback \in Texts \ {NoText}
          /\ escalationReason = NotApproved(iterations, reviewFeedback)
      BY <2>4 DEF Inv, TypeOK, ReasonMatchesDecision
    <3>2. iterations = Passes(settings)
      BY <2>2, <3>1, SettingFacts
    <3>3. escalationReason \in {NotApproved(Passes(settings), text) : text \in Texts \ {NoText}}
      BY <3>1, <3>2
    <3>4. Outcome \in Escalated(settings)
      BY <1>1, <2>1, <2>2, <2>4, <3>2, <3>3 DEF Escalated
    <3> QED  BY <3>4 DEF Outcomes
  <2> QED  BY <2>2, <2>3, <2>4
<1>3. CASE node \in {"llm_error", "out_of_steps"}
  <2>1. Outcome = [Pending EXCEPT !.status = "raised", !.log = toolCalls]
    BY <1>3 DEF Outcome
  <2> QED  BY <1>1, <2>1 DEF Outcomes, Raised
<1> QED  BY <1>2, <1>3 DEF Stopped

\* The contract's instance speaks of the same outcomes.
LEMMA SameOutcomes ==
  /\ Contract!Pending = Pending
  /\ \A s : Contract!Outcomes(s) = Outcomes(s)
<1>1. Contract!NoReason = NoReason /\ Contract!NoText = NoText
  BY DEF Contract!NoReason, NoReason, Contract!NoText, NoText
<1>2. Contract!Pending = Pending
  BY <1>1 DEF Contract!Pending, Pending
<1>3. Contract!Texts = Texts /\ Contract!RedactedTexts = RedactedTexts
  BY <1>1 DEF Contract!Texts, Texts, Contract!RedactedTexts, RedactedTexts,
              Contract!TextsMarked, TextsMarked
<1>4. \A s : Contract!Passes(s) = Passes(s)
  BY DEF Contract!Passes, Passes
<1>5. \A s : Contract!Logs(s) = Logs(s)
  <2>1. \A s : Contract!RoundsKept(s, MaxPlan) = RoundsKept(s, MaxPlan)
    BY DEF Contract!RoundsKept, RoundsKept
  <2>2. Contract!CallRecords = CallRecords
    BY DEF Contract!CallRecords, CallRecords, Contract!ErrorAnswers, ErrorAnswers
  <2>3. \A S, n : Contract!SeqsUpTo(S, n) = SeqsUpTo(S, n)
    BY DEF Contract!SeqsUpTo, SeqsUpTo
  <2> QED  BY <2>1, <2>2, <2>3 DEF Contract!Logs, Logs
<1>6. \A n, text : Contract!NotApproved(n, text) = NotApproved(n, text)
  BY DEF Contract!NotApproved, NotApproved
<1>7. ASSUME NEW s
      PROVE  Contract!Outcomes(s) = Outcomes(s)
  <2>1. Contract!Resolved(s) = Resolved(s)
    BY <1>1, <1>3, <1>4, <1>5 DEF Contract!Resolved, Resolved
  <2>2. Contract!Escalated(s) = Escalated(s)
    BY ZenonT(30), <1>1, <1>3, <1>4, <1>5, <1>6 DEF Contract!Escalated, Escalated
  <2>3. Contract!Raised(s) = Raised(s)
    BY <1>2, <1>5 DEF Contract!Raised, Raised
  <2> QED  BY <2>1, <2>2, <2>3 DEF Contract!Outcomes, Outcomes
<1> QED  BY <1>2, <1>7

\* Every graph is an implementation of the contract: one invocation yields one
\* of its outcomes, once (service.py:144-152 relies on it).
THEOREM GraphImplementsContract == Spec => ImplementsContract
<1>1. Init => Contract!Init
  BY SameOutcomes DEF Init, Contract!Init, Outcome
<1>2. Inv /\ Inv' /\ [Next]_vars => [Contract!Next]_<<settings, Outcome>>
  <2> SUFFICES ASSUME Inv, Inv', [Next]_vars
               PROVE  [Contract!Next]_<<settings, Outcome>>
    OBVIOUS
  <2>1. CASE UNCHANGED vars
    <3>1. UNCHANGED <<settings, Outcome>>
      BY <2>1 DEF vars, caseState, Outcome
    <3> QED  BY <3>1
  <2>2. CASE Next
    <3>1. node \notin Stopped /\ settings' = settings
      BY <2>2 DEF Next, Classifier, PlanResearch, RunTool, ResearchDone, Responder,
                  Approve, Reject, LlmRaises, OutOfSteps, Superstep, LlmNodes, Stopped
    <3>2. Outcome = Pending
      BY <3>1 DEF Outcome, Stopped
    <3>3. CASE node' \in Stopped
      <4>1. Outcome' \in Outcomes(settings')
        <5>1. (Inv /\ node \in Stopped => Outcome \in Outcomes(settings))'
          BY StoppedIsOutcome, PTL
        <5> QED  BY <3>3, <5>1 DEF Stopped
      <4> QED  BY <3>1, <3>2, <4>1, SameOutcomes DEF Contract!Next
    <3>4. CASE node' \notin Stopped
      <4>1. Outcome' = Pending
        BY <3>4 DEF Outcome, Stopped
      <4> QED  BY <3>1, <3>2, <4>1
    <3> QED  BY <3>3, <3>4
  <2> QED  BY <2>1, <2>2
<1> QED  BY <1>1, <1>2, Invariance, PTL DEF Spec, ImplementsContract, Contract!Spec
=============================================================================
