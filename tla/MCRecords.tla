------------------------------ MODULE MCRecords ------------------------------
(* What the process keeps of its cases, for TLC: the audit lists and the bill *)
(* share no variable, so a behaviour is one's while the other stays at rest.  *)
EXTENDS AuditReads, UsageAccounting, TLC

VARIABLE part   \* whose behaviour this is

\* No invariant names a case or a request: sound for the safety run it is used in.
Symmetry == Permutations(Cases) \cup Permutations(Requests)

Counts(p, c) == [status |-> "counts", prompt |-> p, completion |-> c]
Broken == [Absent EXCEPT !.status = "broken"]
Report(modern, legacy) == [modern |-> modern, legacy |-> legacy]

\* Both shapes, the legacy one behind a neutral zero, nothing, and a neutral
\* one that cannot be read.
MCReports == {Report(Counts(3, 1), Counts(3, 1)), Report(Counts(0, 0), Counts(2, 0)),
              Report(Absent, Absent), Report(Broken, Counts(2, 1))}
\* Listed, priced by the provider's fallback, free, and unknown.
On(provider, model) == [provider |-> provider, model |-> model]
MCDeployments == {On("openai", "gpt-4o"), On("anthropic", "claude-opus"),
                  On("ollama", "llama3.1:8b"), On("mistral", "small")}
MCEstimates == {Tokens(1, 0), Tokens(1, 1)}

\* At rest: nothing stored, no request made.
ReadsRest == ReadsInit /\ case = [c \in Cases |-> [kind |-> "resolved", done |-> 0, end |-> "open"]]
UsageRest == UsageInit /\ settings = On("openai", "gpt-4o")

Init ==
  \/ part = "reads" /\ ReadsInit /\ UsageRest
  \/ part = "usage" /\ UsageInit /\ ReadsRest

Next ==
  /\ UNCHANGED part
  /\ \/ part = "reads" /\ ReadsNext /\ UNCHANGED usageVars
     \/ part = "usage" /\ UsageNext /\ UNCHANGED readsVars

Spec == Init /\ [][Next]_<<part, readsVars, usageVars>>

\* Rows are their cases' commits and tokens their cases' bills (each part's own).
TypeOK == ReadsTypeOK /\ UsageTypeOK
=============================================================================
