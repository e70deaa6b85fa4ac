----------------------------- MODULE Guardrails -----------------------------
(***************************************************************************)
(* The guardrails where the code applies them: a case's text is redacted   *)
(* and scanned on arrival, what quotes it is redacted again on its way     *)
(* out, and the result of a tool is scanned before the responder sees it.  *)
(*                                                                         *)
(* The two guardrails look at a text in different ways, so an input is     *)
(* either words (PiiRedaction) or signals (InjectionScan).                 *)
(***************************************************************************)
EXTENDS PiiRedaction, InjectionScan

VARIABLES
  kind,        \* of the input: "words", "signals" or "result"
  input,       \* what arrived
  once,        \* its words redacted
  twice,       \* and redacted again
  refused,     \* what detect_injection said of its signals
  scan,        \* what scan_tool_result returned
  step

vars == <<kind, input, once, twice, refused, scan, step>>

NoScan == [flagged |-> FALSE, sanitized |-> Number]

Init ==
  /\ \/ kind = "words"   /\ input \in CaseTexts
     \/ kind = "signals" /\ input \in ScoredTexts
     \/ kind = "result"  /\ input \in Results
  /\ once = <<>> /\ twice = <<>> /\ refused = FALSE /\ scan = NoScan
  /\ step = "received"

Inbound ==
  /\ kind = "words" /\ step = "received"
  /\ step' = "inbound" /\ once' = RedactPii(input)
  /\ UNCHANGED <<kind, input, twice, refused, scan>>

Outbound ==
  /\ kind = "words" /\ step = "inbound"
  /\ step' = "outbound" /\ twice' = RedactPii(once)
  /\ UNCHANGED <<kind, input, once, refused, scan>>

Detect ==
  /\ kind = "signals" /\ step = "received"
  /\ step' = "detected" /\ refused' = DetectInjection(input)
  /\ UNCHANGED <<kind, input, once, twice, scan>>

\* The responder is shown the sanitized result.
Scan ==
  /\ kind = "result" /\ step = "received"
  /\ step' = "scanned" /\ scan' = ScanToolResult(input)
  /\ UNCHANGED <<kind, input, once, twice, refused>>

Next == Inbound \/ Outbound \/ Detect \/ Scan

Spec == Init /\ [][Next]_vars

-----------------------------------------------------------------------------
(* Properties *)

\* The digits of a text's references, in order.
Refs(t) ==
  Sub(t, [i \in DOMAIN t |-> 1],
         [i \in DOMAIN t |-> IF BusinessRef(t, i) > 0 THEN <<t[i + 1].word>> ELSE <<>>])

\* The references of a case are those of the redacted case, in order, although
\* their digits alone are a phone or part of a card, and no placeholder for one is
\* left (pii.py:26-60).
RefsSurvive ==
  step \in {"inbound", "outbound"} =>
    /\ Refs(once) = Refs(input)
    /\ \A i \in DOMAIN once : once[i].word # "placeholder"

\* Redacting a redacted text changes nothing, whatever the masks have cut off or
\* brought together, and the count of PII in it is zero, its references not being
\* any (pii.py:3, 63-85).
RedactionIsFinal == step = "outbound" => twice = once /\ FindPii(once) = {}

\* A text is refused for one HIGH signal, or for a MEDIUM one stacked with another
\* MEDIUM or a LOW one, and for nothing less, however its words are split or
\* joined by invisible characters (injection.py:4-17, 48, 117-119, 138-139).
RefusedByTier ==
  LET Hits(tier) == Cardinality(input.folded \cap tier)
  IN  step = "detected" =>
        (refused <=> \/ Hits(HighSignals) >= 1
                     \/ Hits(MediumSignals) >= 2
                     \/ Hits(MediumSignals) = 1 /\ Hits(LowSignals) >= 1)

\* Every entry of a value with its place, an outer one before the places in it.
Leaves(value) ==
  LET Of[v \in Results] ==
        IF IsNest(v)
        THEN {[at |-> <<v.type>>, leaf |-> Number]} \cup
             UNION {{[at |-> <<v.type, k, l.at>>, leaf |-> l.leaf] : l \in Of[v.parts[k]]} :
                      k \in DOMAIN v.parts}
        ELSE {[at |-> <<>>, leaf |-> v]}
  IN  Of[value]

\* What the responder is shown is the result with exactly the flagged strings
\* replaced: nothing left would be flagged at any depth, every other entry is in its
\* place in the same structure, and the flag says whether there was one
\* (injection.py:197-221).
QuarantineIsExact ==
  step = "scanned" =>
    LET before == Leaves(input)  after == Leaves(scan.sanitized)
    IN  /\ \A l \in after : IsText(l.leaf) => ~ DetectInjection(l.leaf)
        /\ {l.at : l \in before} = {l.at : l \in after}
        /\ \A l \in before \ after : IsText(l.leaf) /\ DetectInjection(l.leaf)
        /\ scan.flagged <=> before # after

-----------------------------------------------------------------------------
(* What the documentation says and the code does not do *)

\* README.md:168: "Emails/phones/SSNs/cards/IPs scrubbed inbound, outbound, and in
\* persistence".  The first group of a number behind a keyword is shielded as a
\* reference, and the rest alone matches no pattern (pii.py:26-30).
SsnsScrubbed == step = "outbound" => Found(Ssns(twice)) = {}
=============================================================================
