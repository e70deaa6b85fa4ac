---------------------------- MODULE UsageAccounting ----------------------------
(***************************************************************************)
(* What a case costs: the UsageCollector that listens to the LLM calls of  *)
(* one graph.invoke (usage.py), the price of its tokens (costing.py), the  *)
(* cost stored with the ticket and the process's running totals            *)
(* (metrics.py).  Requests run in threads of their own; each total is      *)
(* bumped by itself, after the ticket is stored.                           *)
(*                                                                         *)
(* Money is in units of 10^-8 USD, the precision estimate_cost rounds to:  *)
(* every price of the table is a whole number of them per token.           *)
(***************************************************************************)
EXTENDS Naturals, Sequences, FiniteSets, Functions

CONSTANTS
  Requests,
  Deployments,       \* settings.llm_provider (lower case) and settings.llm_model
  Reports,           \* what an LLMResult may say of its tokens
  Estimates,         \* what tiktoken may count in a case and its reply
  MaxLlmCalls        \* bound: LLM calls of one case

\* What one shape of usage holds: nothing, something int() rejects, or counts.
Shapes == [status : {"absent", "broken"}, prompt : {0}, completion : {0}]
          \cup [status : {"counts"}, prompt : Nat, completion : Nat]
Absent == [status |-> "absent", prompt |-> 0, completion |-> 0]

ASSUME UsageAssumption ==
  /\ IsFiniteSet(Requests)
  /\ \A report \in Reports : {report.modern, report.legacy} \subseteq Shapes
  /\ \A e \in Estimates : {e.prompt, e.completion} \subseteq Nat
  /\ MaxLlmCalls \in Nat

VARIABLES
  settings,    \* read once
  pc,
  collector,   \* each request's UsageCollector
  seen,        \* the reports of its calls (history)
  made,        \* the LLM calls it made, failed ones included (history)
  bill,        \* tokens, source and cost of its case
  stored,      \* tickets.cost_usd, NotStored before
  totals       \* the process's counters

usageVars == <<settings, pc, collector, seen, made, bill, stored, totals>>

-----------------------------------------------------------------------------
(* Prices *)

Price(prompt, completion) == [prompt |-> prompt, completion |-> completion]

Priced(provider, model, prompt, completion) ==
  [key |-> <<provider, model>>, price |-> Price(prompt, completion)]

PriceRows == {
  Priced("openai", "gpt-4o-mini", 15, 60),
  Priced("openai", "gpt-4o", 250, 1000),
  Priced("openai", "gpt-4-turbo", 1000, 3000),
  Priced("openai", "gpt-3.5-turbo", 50, 150),
  Priced("openai", "*", 15, 60),
  Priced("groq", "llama-3.3-70b-versatile", 59, 79),
  Priced("groq", "llama-3.1-8b-instant", 5, 8),
  Priced("groq", "*", 59, 79),
  Priced("gemini", "gemini-2.0-flash", 10, 40),
  Priced("gemini", "gemini-1.5-pro", 125, 500),
  Priced("gemini", "*", 10, 40),
  Priced("anthropic", "claude-sonnet-4-6", 300, 1500),
  Priced("anthropic", "claude-haiku-4-5-20251001", 80, 400),
  Priced("anthropic", "*", 300, 1500),
  Priced("nvidia", "*", 0, 0),
  Priced("ollama", "*", 0, 0)}

PriceTable ==
  [key \in {row.key : row \in PriceRows} |-> (CHOOSE row \in PriceRows : row.key = key).price]

Exact    == <<settings.provider, settings.model>>
Fallback == <<settings.provider, "*">>
DefaultPrice == PriceTable[<<"openai", "gpt-4o-mini">>]

\* The model's price, else its provider's, else the default; a price of zero is
\* still a price (a non-empty tuple is true).
PriceFor ==
  LET listed == {Exact, Fallback} \cap DOMAIN PriceTable
  IN  IF Exact \in listed THEN PriceTable[Exact]
      ELSE IF listed # {} THEN PriceTable[Fallback] ELSE DefaultPrice

EstimateCost(prompt, completion) == prompt * PriceFor.prompt + completion * PriceFor.completion

-----------------------------------------------------------------------------
(* Usage *)

Tokens(prompt, completion) == [prompt |-> prompt, completion |-> completion]
AddTokens(t, u) == Tokens(t.prompt + u.prompt, t.completion + u.completion)
NoTokens == Tokens(0, 0)

\* The neutral shape, else the legacy one; an unreadable number loses the whole
\* report, since on_llm_end drops whatever raises.
Extract(report) ==
  IF report.modern.status = "broken" THEN NoTokens
  ELSE IF report.modern.prompt + report.modern.completion > 0
       THEN Tokens(report.modern.prompt, report.modern.completion)
  ELSE Tokens(report.legacy.prompt, report.legacy.completion)

NewCollector == [tokens |-> NoTokens, calls |-> 0]
HasUsage(c) == c.tokens # NoTokens

NoBill == [tokens |-> NoTokens, cost |-> 0, source |-> "none"]
NotStored == [done |-> FALSE, cost |-> 0]

UsageInit ==
  /\ settings  \in Deployments
  /\ pc        = [r \in Requests |-> "idle"]
  /\ collector = [r \in Requests |-> NewCollector]
  /\ seen      = [r \in Requests |-> <<>>]
  /\ made      = [r \in Requests |-> 0]
  /\ bill      = [r \in Requests |-> NoBill]
  /\ stored    = [r \in Requests |-> NotStored]
  /\ totals    = [tokens |-> NoTokens, cost |-> 0, calls |-> 0, provider |-> 0, estimated |-> 0]

Goto(r, from, to) == pc[r] = from /\ pc' = [pc EXCEPT ![r] = to] /\ UNCHANGED settings

\* A case is refused, with nothing to bill, or invokes the graph.
Receive(r) ==
  /\ Goto(r, "idle", "graph") \/ Goto(r, "idle", "refused")
  /\ UNCHANGED <<collector, seen, made, bill, stored, totals>>

OnLlmEndShared(r) ==                                \* mutant: one collector for all
  /\ pc[r] = "graph" /\ made[r] < MaxLlmCalls
  /\ made' = [made EXCEPT ![r] = @ + 1]
  /\ \E report \in Reports :
       /\ seen' = [seen EXCEPT ![r] = Append(@, report)]
       /\ collector' = [s \in Requests |->
            [tokens |-> AddTokens(collector[s].tokens, Extract(report)), calls |-> collector[s].calls + 1]]
  /\ UNCHANGED <<settings, pc, bill, stored, totals>>

\* One LLM call of the case's graph returns: its collector hears of it.
OnLlmEnd(r) ==
  /\ pc[r] = "graph" /\ made[r] < MaxLlmCalls
  /\ made' = [made EXCEPT ![r] = @ + 1]
  /\ \E report \in Reports :
       /\ seen' = [seen EXCEPT ![r] = Append(@, report)]
       /\ collector' = [collector EXCEPT ![r] =
            [tokens |-> AddTokens(@.tokens, Extract(report)), calls |-> @.calls + 1]]
  /\ UNCHANGED <<settings, pc, bill, stored, totals>>

\* An LLM call that raises ends the graph; no on_llm_end is called for it.
LlmRaises(r) ==
  /\ Goto(r, "graph", "account") /\ made[r] < MaxLlmCalls
  /\ made' = [made EXCEPT ![r] = @ + 1]
  /\ UNCHANGED <<collector, seen, bill, stored, totals>>

GraphReturns(r) ==
  /\ Goto(r, "graph", "account")
  /\ UNCHANGED <<collector, seen, made, bill, stored, totals>>

Account(r) ==
  /\ Goto(r, "account", "persist")
  /\ \E t \in IF HasUsage(collector[r]) THEN {collector[r].tokens} ELSE Estimates :
       LET source == IF HasUsage(collector[r]) THEN "provider" ELSE "estimated"
       IN  /\ bill' = [bill EXCEPT ![r] = [tokens |-> t, source |-> source,
                                           cost |-> EstimateCost(t.prompt, t.completion)]]
           /\ totals' = [totals EXCEPT ![source] = @ + 1]
  /\ UNCHANGED <<collector, seen, made, stored>>

\* _persist stores the cost, or an insert raises and the request is a 500.
Persist(r) ==
  /\ \/ Goto(r, "persist", "count_tokens") \/ Goto(r, "refused", "answered")
  /\ stored' = [stored EXCEPT ![r] = [done |-> TRUE, cost |-> bill[r].cost]]
  /\ UNCHANGED <<collector, seen, made, bill, totals>>

PersistFails(r) ==
  /\ \/ Goto(r, "persist", "failed") \/ Goto(r, "refused", "failed")
  /\ \/ stored' = [stored EXCEPT ![r] = [done |-> TRUE, cost |-> bill[r].cost]]
     \/ UNCHANGED stored
  /\ UNCHANGED <<collector, seen, made, bill, totals>>

RecordTokens(r) ==
  /\ Goto(r, "count_tokens", "count_cost")
  /\ totals' = [totals EXCEPT !.tokens = AddTokens(@, bill[r].tokens)]
  /\ UNCHANGED <<collector, seen, made, bill, stored>>

RecordRunningCost(r) ==                             \* mutant: adds the total itself
  /\ Goto(r, "count_cost", "count_calls")
  /\ totals' = [totals EXCEPT !.cost = @ + EstimateCost(totals.tokens.prompt, totals.tokens.completion)]
  /\ UNCHANGED <<collector, seen, made, bill, stored>>

RecordCost(r) ==
  /\ Goto(r, "count_cost", "count_calls")
  /\ totals' = [totals EXCEPT !.cost = @ + bill[r].cost]
  /\ UNCHANGED <<collector, seen, made, bill, stored>>

RecordLlmCalls(r) ==
  /\ Goto(r, "count_calls", "answered")
  /\ totals' = [totals EXCEPT !.calls = @ + collector[r].calls]
  /\ UNCHANGED <<collector, seen, made, bill, stored>>

Step(r) == \/ Receive(r) \/ OnLlmEnd(r) \/ LlmRaises(r) \/ GraphReturns(r) \/ Account(r)
           \/ Persist(r) \/ PersistFails(r)
           \/ RecordTokens(r) \/ RecordCost(r) \/ RecordLlmCalls(r)

UsageNext == \E r \in Requests : Step(r)

UsageSpec == UsageInit /\ [][UsageNext]_usageVars

-----------------------------------------------------------------------------
(* Properties *)

\* What a message or its legacy twin says it used: the two describe the same
\* tokens, so one of them counts, the other never does.
Used(shape) == shape.prompt + shape.completion
UsedBy(report) ==
  IF report.modern.status # "broken" /\ Used(report.modern) > 0 THEN Used(report.modern)
  ELSE IF report.modern.status = "broken" THEN 0 ELSE Used(report.legacy)

Billed(r) == bill[r].tokens.prompt + bill[r].tokens.completion
Own(r) == SumFunction([i \in DOMAIN seen[r] |-> UsedBy(seen[r][i])])
StoredCosts == [r \in Requests |-> stored[r].cost]
BilledPrompts == [r \in Requests |-> bill[r].tokens.prompt]
BilledCompletions == [r \in Requests |-> bill[r].tokens.completion]
At(labels) == {r \in Requests : pc[r] \in labels}
Accounted == {"persist", "count_tokens", "count_cost", "count_calls", "answered", "failed"}

\* Tokens never appear from nowhere: the process has counted no more of them
\* than its cases were billed, and a refused case has no bill and no calls.
UsageTypeOK ==
  /\ pc \in [Requests -> Accounted \cup {"idle", "refused", "graph", "account"}]
  /\ \A r \in Requests :
       /\ bill[r].source = "none" => bill[r] = NoBill
       /\ pc[r] = "refused" => made[r] = 0
       /\ made[r] - Len(seen[r]) \in {0, 1}
  /\ totals.tokens.prompt <= SumFunction(BilledPrompts)
  /\ totals.tokens.completion <= SumFunction(BilledCompletions)

\* A case is billed for the tokens its own calls reported, each report once,
\* whatever runs beside it, and for an estimate exactly when they reported none
\* (usage.py:29-73, service.py:182-189).
CaseBillsItsOwnCalls ==
  \A r \in Requests :
    /\ bill[r].source = "provider" => Billed(r) = Own(r)
    /\ bill[r].source = "estimated" => Own(r) = 0 /\ bill[r].tokens \in Estimates

\* The running spend is what the stored cases cost, up to the threads that have
\* yet to add theirs and those whose insert raised: it never runs ahead of the
\* tickets (service.py:191-203).
SpendTracksTickets ==
  totals.cost + SumFunctionOnSet(StoredCosts, At({"count_tokens", "count_cost", "failed"}))
    = SumFunction(StoredCosts)

\* A provider whose price is zero never costs anything, and any other, unknown
\* ones included, is never free (costing.py:19-46).
OnlyLocalIsFree ==
  \A r \in Requests : Billed(r) > 0 =>
    (bill[r].cost = 0 <=> settings.provider \in {"nvidia", "ollama"})

\* A case is billed for its own tokens, at a price that is never by accident zero.
BillsAreRight == CaseBillsItsOwnCalls /\ OnlyLocalIsFree
=============================================================================
