---------------------------- MODULE MCGuardrails ----------------------------
(* Small instances of Guardrails for TLC. *)
EXTENDS Guardrails

\* Every set of up to three signals, plain, hidden in part, or only apparent.
MCScoredTexts ==
  LET sets == UNION {kSubset(k, AllSignals) : k \in 0..3}
  IN  UNION {{Text(w, f) : w \in SUBSET f} : f \in sets} \cup {Text({"jailbreak_persona"}, {})}

\* A text of each kind of score: none, hidden, apparent, stacked, below the threshold.
MCScalars ==
  {Number, Text({}, {}), Text({}, {"role_tag_smuggling"}), Text({"jailbreak_persona"}, {}),
   Text({"new_rules"}, {"new_rules", "prompt_probing"}), Text({"new_rules"}, {"new_rules"})}

None == {}
=============================================================================
