---------------------------- MODULE MCCaseService ----------------------------
(* Small instances of CaseService for TLC. *)
EXTENDS CaseService, TLC

MCAllowlist == {"search_catalog"}
MCToolNames == {"search_catalog", "issue_refund"}

\* No property names a request: sound for the safety run it is used in.
RequestSymmetry == Permutations(Requests)

SettingOf(reviews, rounds) ==
  [max_review_iterations |-> reviews, max_tool_rounds |-> rounds, recursion_limit |-> 25]

\* The code's defaults, and the smallest setting for two threads.
TwoPasses == SettingOf(2, 3)
OnePass   == SettingOf(1, 1)
MCSettings == {TwoPasses, OnePass}
=============================================================================
