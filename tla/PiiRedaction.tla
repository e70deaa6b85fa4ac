----------------------------- MODULE PiiRedaction -----------------------------
(***************************************************************************)
(* guardrails/pii.py: business references are shielded, the PII patterns   *)
(* are masked one after the other, and the references are restored.  A     *)
(* case's text is redacted on arrival, and again in whatever quotes it.    *)
(*                                                                         *)
(* A text is a sequence of words, each after a space or a hyphen: "order"  *)
(* (any keyword of _BUSINESS_REF), "email" (an address its pattern takes   *)
(* whole) or a run of 2, 3, 4 or 10 digits.  Runs of digits are where the  *)
(* patterns compete: ten are a phone, and next to three more a card.       *)
(*                                                                         *)
(* Assumed of a text that arrives: it does not spell a placeholder itself, *)
(* "REF" and a number between two NUL characters.  So a placeholder, which *)
(* the code finds again by its spelling, is one that was put there, and is *)
(* modelled by the span it stands for.  The code does not check for one    *)
(* that arrived, and would put a reference of the case in its place.       *)
(***************************************************************************)
EXTENDS Naturals, Sequences, Functions, FiniteSetsExt

CONSTANT MaxWords   \* bound: the longest text

ASSUME RedactionAssumption == MaxWords \in Nat

Digits == [d2 |-> 2, d3 |-> 3, d4 |-> 4, d10 |-> 10]

Seps == {" ", "-"}
Word(sep, word) == [sep |-> sep, word |-> word, ref |-> <<>>]
Mask(sep) == Word(sep, "[REDACTED]")
Words == [sep : Seps, word : DOMAIN Digits \cup {"order"}, ref : {<<>>}] \cup {Word(" ", "email")}
CaseTexts == {t \in UNION {[1..n -> Words] : n \in 1..MaxWords} : t[1].sep = " "}

-----------------------------------------------------------------------------
(* Patterns: how many words the match at word i of t takes, 0 for none *)

Fits(t, i, words, seps) ==
  /\ i + Len(words) - 1 <= Len(t)
  /\ \A k \in 1..Len(words) :
       /\ t[i + k - 1].word = words[k]
       /\ k > 1 => t[i + k - 1].sep \in seps

BusinessRef(t, i) ==
  IF \E d \in {"d3", "d4", "d10"} : Fits(t, i, <<"order", d>>, {" "}) THEN 2 ELSE 0

Email(t, i) == IF t[i].word = "email" THEN 1 ELSE 0

Ssn(t, i) == IF Fits(t, i, <<"d3", "d2", "d4">>, {"-"}) THEN 3 ELSE 0

\* Whole runs of 13 to 16 digits.  The separators between digits are taken lazily,
\* so the match ends with the first run that makes thirteen.
Card(t, i) ==
  LET runs == {n \in 1..(Len(t) - i + 1) :
                 /\ \A k \in 1..n : t[i + k - 1].word \in DOMAIN Digits
                 /\ SumFunction([k \in 1..n |-> Digits[t[i + k - 1].word]]) \in 13..16}
  IN  IF runs = {} THEN 0 ELSE Min(runs)

\* Three, three and four digits, in one run or three; a country code is a run of
\* its own or the first of four digits.
Phone(t, i) ==
  CASE Fits(t, i, <<"d2", "d3", "d3", "d4">>, Seps) -> 4
    [] Fits(t, i, <<"d2", "d10">>, Seps) -> 2
    [] Fits(t, i, <<"d10">>, Seps) -> 1
    [] \E d \in {"d3", "d4"} : Fits(t, i, <<d, "d3", "d4">>, Seps) -> 3
    [] OTHER -> 0

-----------------------------------------------------------------------------
(* Redaction *)

\* re.sub: for the leftmost match what is put there, then on behind it.
Sub(t, match, put) ==
  LET From[i \in 1..(Len(t) + 1)] ==
        IF i > Len(t) THEN <<>>
        ELSE IF match[i] = 0 THEN <<t[i]>> \o From[i + 1]
        ELSE put[i] \o From[i + match[i]]
  IN  From[1]

ShieldNothing(t) == t                               \* mutant: references unprotected

Placeholder(span) == [sep |-> span[1].sep, word |-> "placeholder", ref |-> span]

ShieldBusinessRefs(t) ==
  Sub(t, [i \in DOMAIN t |-> BusinessRef(t, i)],
         [i \in DOMAIN t |-> <<Placeholder(SubSeq(t, i, i + 1))>>])

\* str.replace of each placeholder by what it stands for: as no text that arrives
\* spells one, each occurs where its reference was.
UnshieldBusinessRefs(t) ==
  Sub(t, [i \in DOMAIN t |-> IF t[i].word = "placeholder" THEN 1 ELSE 0],
         [i \in DOMAIN t |-> t[i].ref])

Hide(t, match) == Sub(t, match, [i \in DOMAIN t |-> <<Mask(t[i].sep)>>])

\* Each pattern's matches in a text.
Emails(t) == [i \in DOMAIN t |-> Email(t, i)]
Ssns(t)   == [i \in DOMAIN t |-> Ssn(t, i)]
Cards(t)  == [i \in DOMAIN t |-> Card(t, i)]
Phones(t) == [i \in DOMAIN t |-> Phone(t, i)]

HideEmails(t) == Hide(t, Emails(t))
HideSsns(t)   == Hide(t, Ssns(t))
HideCards(t)  == Hide(t, Cards(t))
HidePhones(t) == Hide(t, Phones(t))

MaskToLastFour(t) ==                                \* mutant: the last four digits stay
  LET Keep(u, match) == Sub(u, match, [i \in DOMAIN u |-> <<Mask(u[i].sep), Word("-", "d4")>>])
      s == HideSsns(HideEmails(t))
      c == Keep(s, Cards(s))
  IN  Keep(c, Phones(c))

\* _PII_PATTERNS, in order.
MaskPii(t) == HidePhones(HideCards(HideSsns(HideEmails(t))))

RedactPii(t) == UnshieldBusinessRefs(MaskPii(ShieldBusinessRefs(t)))

Found(match) == {i \in DOMAIN match : match[i] > 0}

FindPii(t) ==
  LET shielded == ShieldBusinessRefs(t)
  IN  Found(Emails(shielded)) \cup Found(Ssns(shielded))
        \cup Found(Cards(shielded)) \cup Found(Phones(shielded))
=============================================================================
