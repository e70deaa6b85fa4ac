---------------------------- MODULE InjectionScan ----------------------------
(***************************************************************************)
(* guardrails/injection.py: the scored scan of a text, and the quarantine  *)
(* of flagged strings inside the nested result of a tool.                  *)
(*                                                                         *)
(* A text is what the patterns find in it: written are the signals that    *)
(* match it as it stands, folded those that match once it is normalised.   *)
(* Normalising adds signals (a word split by a zero-width character) and   *)
(* can take one away (the character was the word's boundary).              *)
(***************************************************************************)
EXTENDS Naturals, Sequences, Functions, FiniteSetsExt

HighSignals ==
  {"override_instructions", "forget_instructions", "exfiltrate_prompt", "role_tag_smuggling",
   "special_token_smuggling", "chat_template_smuggling", "code_fence_role_smuggling",
   "jailbreak_persona", "privilege_escalation", "tool_coercion", "encoded_payload",
   "execute_coercion", "echo_coercion", "translate_coercion", "persistent_reframe"}
MediumSignals ==
  {"persona_hijack", "roleplay_coercion", "new_rules", "safety_override", "identity_suppression"}
LowSignals == {"prompt_probing", "hypothetical_framing"}
AllSignals == HighSignals \cup MediumSignals \cup LowSignals

Weight(signal) ==
  CASE signal \in HighSignals -> 3
    [] signal \in MediumSignals -> 2
    [] signal \in LowSignals -> 1

RefuseThreshold == 3

-----------------------------------------------------------------------------
(* Values: a text, a number, or a list or dict of values *)

Text(written, folded) == [type |-> "str", written |-> written, folded |-> folded, parts |-> <<>>]
Number == [type |-> "number", written |-> {}, folded |-> {}, parts |-> <<>>]
Nest(type, parts) == [type |-> type, written |-> {}, folded |-> {}, parts |-> parts]
Quarantined == [type |-> "quarantined", written |-> {}, folded |-> {}, parts |-> <<>>]
IsText(value) == value.type \in {"str", "quarantined"}
IsNest(value) == value.type \in {"list", "dict"}

ScannedTexts ==
  [type : {"str"}, written : SUBSET AllSignals, folded : SUBSET AllSignals, parts : {<<>>}]

CONSTANTS
  ScoredTexts,  \* the texts that may arrive
  Scalars,      \* the texts and numbers a tool's result is made of
  MaxParts,     \* bounds: the entries of a list or dict in it,
  MaxDepth      \* and how deep these nest

ASSUME ScanAssumption ==
  /\ ScoredTexts \subseteq ScannedTexts
  /\ \A value \in Scalars : value \in ScannedTexts \/ value = Number
  /\ MaxParts \in Nat /\ MaxDepth \in Nat

Nested(values) ==
  {Nest(type, parts) : type \in {"list", "dict"},
                       parts \in UNION {[1..n -> values] : n \in 0..MaxParts}}

\* What a tool may answer; what was quarantined may come back.
Results ==
  LET Level[depth \in 0..MaxDepth] ==
        IF depth = 0 THEN Scalars \cup {Quarantined}
        ELSE Level[depth - 1] \cup Nested(Level[depth - 1])
  IN  Level[MaxDepth]

-----------------------------------------------------------------------------
(* detect_injection *)

Normalize(text) == [text EXCEPT !.written = text.folded]

FirstMatchScore(text) ==                            \* mutant: first match only
  IF text.written = {} THEN 0 ELSE Max({Weight(s) : s \in text.written})
RiskScore(text) == SumFunction([s \in text.written |-> Weight(s)])

DetectInjection(text) == RiskScore(Normalize(text)) >= RefuseThreshold

-----------------------------------------------------------------------------
(* scan_tool_result *)

ScanTopLevel(result) ==                             \* mutant: nested entries not cleaned
  LET Flat(value) == IF IsText(value) /\ DetectInjection(value) THEN Quarantined ELSE value
      cleaned == [Flat(result) EXCEPT !.parts = [k \in DOMAIN result.parts |-> Flat(result.parts[k])]]
  IN  [flagged |-> cleaned # result, sanitized |-> cleaned]

\* _clean, and whether its walk set the flag.
ScanToolResult(result) ==
  LET Cleaned[value \in Results] ==
        IF IsText(value)
        THEN [flagged |-> DetectInjection(value),
              sanitized |-> IF DetectInjection(value) THEN Quarantined ELSE value]
        ELSE IF IsNest(value)
        THEN [flagged |-> \E k \in DOMAIN value.parts : Cleaned[value.parts[k]].flagged,
              sanitized |-> Nest(value.type, [k \in DOMAIN value.parts |->
                                                Cleaned[value.parts[k]].sanitized])]
        ELSE [flagged |-> FALSE, sanitized |-> value]
  IN  Cleaned[result]
=============================================================================
