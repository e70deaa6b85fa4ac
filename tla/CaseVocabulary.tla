---------------------------- MODULE CaseVocabulary ----------------------------
(***************************************************************************)
(* The values a support case is made of, shared by the graph that resolves *)
(* it (CaseGraph), the promise that graph makes (CaseContract) and the     *)
(* service around it (CaseService).                                        *)
(*                                                                         *)
(* A text is the set of things its reader can tell about it: that it has   *)
(* "words", that it carries "pii" which redact_pii would mask, that it     *)
(* trips detect_prompt_leak ("leak") or the injection score ("signal").    *)
(* The empty set is both None and "": the code tests texts for falsity.    *)
(***************************************************************************)
EXTENDS Integers, Sequences

CONSTANTS
  Allowlist,   \* the names in registry.ALLOWLIST
  ToolNames,   \* every name the model may ask for, listed or not
  Settings,    \* the configurations a process may be started with
  Marks,       \* what a text can carry besides its words
  ToolAnswers, \* what a tool called by name may answer
  MaxPlan      \* bound: the longest list of tool calls the model returns

ASSUME VocabularyAssumption ==
  /\ Allowlist \subseteq ToolNames
  /\ Settings \subseteq [max_review_iterations : Int,
                         max_tool_rounds       : Int,
                         recursion_limit       : Nat]
  /\ Marks \subseteq {"pii", "leak", "signal"}
  /\ ToolAnswers \subseteq {"clean", "poisoned", "failure", "echo"}
  /\ MaxPlan \in Nat

-----------------------------------------------------------------------------
(* Texts *)

NoText == {}
TextsMarked(marks) == {NoText} \cup {{"words"} \cup m : m \in SUBSET marks}

Texts == TextsMarked(Marks \ {"signal"})             \* what the model may write
RedactedTexts == TextsMarked(Marks \ {"signal", "pii"})
Tickets == TextsMarked(Marks \ {"leak"}) \ {NoText}  \* never blank (schemas.py)

RedactPiiSkipped(text) == text                      \* mutant: no redaction
RedactPii(text) == text \ {"pii"}
DetectPromptLeak(text) == "leak" \in text

-----------------------------------------------------------------------------
(* Tool calls: what the model asks for, with what the tool would answer,   *)
(* and the records dispatch_tool and the researcher make of them.          *)
(* A "poisoned" answer is a successful one the injection scan flags.  An   *)
(* error answer is plain ("failure"), or an "echo": one that repeats an    *)
(* argument the scan would flag (catalog.py:23, 61) or whose exception     *)
(* text does (registry.py:95-108).  The arguments themselves, which the    *)
(* model wrote and every record keeps as given, are left out.              *)

ErrorAnswers == {"failure", "echo"}
ToolRequests == [tool : ToolNames, yields : ToolAnswers]

Record(tool, result, status) ==
  [tool |-> tool, result |-> result, status |-> status]

CallRecords ==
       [tool : ToolNames \ Allowlist, result : {"not_allowlisted"}, status : {"blocked"}]
  \cup [tool : Allowlist, result : ToolAnswers \cap ErrorAnswers, status : {"error"}]
  \cup [tool : Allowlist, result : {"clean"},       status : {"ok"}]
  \cup [tool : Allowlist, result : {"quarantined"}, status : {"sanitized"}]

SeqsUpTo(S, n) == UNION {[1..k -> S] : k \in 0..n}

\* How many of n requests the slice requests[:max_tool_rounds] keeps; a
\* negative setting drops requests from the end.
RoundsKept(s, n) ==
  LET kept == IF s.max_tool_rounds < 0 THEN n + s.max_tool_rounds
                                       ELSE s.max_tool_rounds
  IN  IF kept < 0 THEN 0 ELSE IF kept < n THEN kept ELSE n

Logs(s) == SeqsUpTo(CallRecords, RoundsKept(s, MaxPlan))

-----------------------------------------------------------------------------
(* What one graph.invoke can yield *)

NoReason == [kind |-> "none", passes |-> 0, text |-> NoText]
NotApproved(n, feedback) ==
  [kind |-> "not_approved", passes |-> n, text |-> feedback]

\* The review passes a case may take: the first one always runs.
Passes(s) == IF s.max_review_iterations > 1 THEN s.max_review_iterations ELSE 1

Pending == [status |-> "pending", decision |-> "none", reason |-> NoReason,
            iterations |-> 0, draft |-> NoText, log |-> <<>>]

Resolved(s) ==
  [status : {"returned"}, decision : {"RESOLVED"}, reason : {NoReason},
   iterations : 1..Passes(s), draft : RedactedTexts, log : Logs(s)]

Escalated(s) ==
  [status     : {"returned"},
   decision   : {"ESCALATE"},
   reason     : {NotApproved(Passes(s), text) : text \in Texts \ {NoText}},
   iterations : {Passes(s)},
   draft      : RedactedTexts,
   log        : Logs(s)]

\* An exception leaves graph.invoke without a state; the calls it had already
\* dispatched are remembered here as history.
Raised(s) == {[Pending EXCEPT !.status = "raised", !.log = log] : log \in Logs(s)}

Outcomes(s) == Resolved(s) \cup Escalated(s) \cup Raised(s)
=============================================================================
