----------------------------- MODULE MCCaseGraph -----------------------------
(* A small instance of CaseGraph for TLC. *)
EXTENDS CaseGraph

MCAllowlist  == {"search_catalog"}
MCToolNames  == {"search_catalog", "issue_refund"}
MCCategories == {"order", "other"}

Setting(reviews, rounds, limit) ==
  [max_review_iterations |-> reviews, max_tool_rounds |-> rounds, recursion_limit |-> limit]

\* The default cap with ample supersteps; a limit that fits the cap exactly; one
\* that falls short; a cap of zero; a negative slice.
MCSettings == { Setting(2, 3, 25), Setting(3, 1, 8), Setting(3, 0, 7),
                Setting(0, 2, 4), Setting(1, -1, 25) }
=============================================================================
