----------------------------- MODULE CaseContract -----------------------------
(***************************************************************************)
(* What one graph.invoke promises its caller: it yields at most one        *)
(* outcome, a decided case or an exception, and a decided case is one the  *)
(* service may persist: RESOLVED within the review cap, or ESCALATE at the *)
(* cap with the reviewer's reason; a redacted draft; a tool log whose      *)
(* every result is clean, quarantined, or the answer of a call that was    *)
(* blocked or failed.                                                      *)
(***************************************************************************)
EXTENDS CaseVocabulary

VARIABLES
  settings,   \* the configuration of the process
  outcome     \* what graph.invoke has yielded

Init ==
  /\ settings \in Settings
  /\ outcome = Pending

Next ==
  /\ outcome = Pending
  /\ outcome' \in Outcomes(settings)
  /\ UNCHANGED settings

Spec == Init /\ [][Next]_<<settings, outcome>>
=============================================================================
