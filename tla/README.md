# A TLA+ model of DeskFleet TicketWarden

TicketWarden answers support cases: a FastAPI service redacts and scans the case
text, runs a LangGraph graph of four LLM-backed nodes over it, guards the reply
and stores the case with two audit trails in SQLite. This directory models that
program in TLA+, checks it with TLC on small instances and proves what matters
most with TLAPS. Every definition is translated from the code; a comment or a
document is quoted only where the code does something else.

## 1. Inventory

| component | state it keeps | operations | made correct by |
|---|---|---|---|
| **Case graph** `graph/{nodes,edges,build,state}.py` | `CaseState` of one invocation | classifier, researcher, responder, reviewer, routing | bounded review loop; ends exactly when decided; the reason explains the decision; facts = successful calls |
| **Tool registry** `store/registry.py` | none | `dispatch_tool` | an unlisted tool never runs and is recorded as blocked; a tool's failure never crashes the graph |
| **Orchestration** `service.py` | one `state`/`final` dict per request | `resolve_case`, `_persist`, `_log_security_event` | redact, scan, then graph; gate the reply; store everything that is answered |
| **Audit storage** `storage/{repo,db}.py` | tables `tickets`, `tool_calls`, `security_events` | three inserts, three queries, `init_db` | per case the tables are a prefix of what it owes; an answered case is complete; lists are the newest rows without a gap |
| **HTTP API** `main.py`, `schemas.py` | `app.state.graph`, the thread pool's queue | `/resolve`, `/tickets`, `/security-events`, `/health`, `/metrics`, lifespan | every call is answered, in order of arrival for a thread; no model still means REFUSE and ESCALATE; never more graphs than threads |
| **Injection guardrail** `guardrails/injection.py` | none | `detect_injection`, `scan_tool_result`, `detect_prompt_leak` | the weights of all signals add up; no flagged string of a nested result survives |
| **PII redaction** `guardrails/pii.py` | none | `redact_pii`, `find_pii` | idempotent; business references survive |
| **Metrics** `observability/metrics.py` | in-memory counters | `record_*` | counters mirror the tables until a restart |
| **Usage and cost** `observability/{usage,costing}.py` | one collector per request | `on_llm_end`, `estimate_cost` | a case is billed for its own calls, each once; spend follows the tickets; only local models are free |
| **LLM client** `graph/llm.py` | none | `classify`, `plan_research`, `draft`, `review` | any answer or exception is tolerated by its caller |
| **Settings** `config.py` | constants read at start | | any integer is accepted for the loop bounds |
| **Tracing** `observability/tracing.py` | environment variables | `configure_tracing`, `trace_run` | the deployment's environment wins; the URL is that of the case's own run; the SDK traces when the API says so |
| **Catalog** `store/{catalog,seed}.py` | fixture tables in a file that outlives processes | create, seed, `check_order_status` and two single reads | a process that serves has the whole fixture; seeding is atomic and keeps what is there |
| **Console** `apps/ui/app.py` | Streamlit session | type, queue an example, cancel, clear, refresh, audit tabs with a filter and a limit | an answer follows its own question; one submission opens at most one case; every submission ends |
| **Scripts, infrastructure** | | seed tickets, smoke test, Prometheus, Grafana | |

**How they interact.** The console posts to `/resolve`. FastAPI runs the
synchronous route in a thread pool, so several `resolve_case` calls run at once;
they share the SQLite file (each statement on its own short connection, its own
commit) and the process's counters, and nothing else: the graph's state, the
usage collector and the trace handle belong to one call. `resolve_case` calls
`graph.invoke` synchronously; the graph calls the LLM client and the registry.
Metrics and read routes look at the shared state from outside.

**What is hard.** The commits of one case are not one transaction: a failing
insert (a locked or full database) or a killed process leaves a prefix of them,
and the audit routes read in between. An exception in a late node discards what
earlier nodes did. The review cap is tested in two places that must agree, and the
settings accept values nobody tested (zero, negative). Counters restart at zero
while tables persist. Guardrails depend on the order of redaction, decision and
gate, and redaction on the order of its patterns. Threads race for the first
graph; boots race for the catalog file. Streamlit interrupts a script run at any
call. `PROJECT.json` lists each of these hazards with its line and the properties
that cover it.

## 2. Modules

    CaseVocabulary          texts, tool calls, outcomes of one graph.invoke
      |-- CaseContract      abstract: one invocation yields one allowed outcome
      |-- CaseGraph         the four nodes, the routing, LangGraph's step limit
      |     |-- MCCaseGraph             instance for TLC
      |     `-- CaseGraphProofs         theorems (TLAPS)
      `-- CaseService       resolve_case in threads over tables and counters
            |-- MCCaseService           instances for TLC
            `-- CaseServiceProofs       theorems
    PiiRedaction            operators: shield, patterns, restore, find_pii
    InjectionScan           operators: signals, score, quarantine of nested results
      `-- Guardrails        the two where the code applies them (with PiiRedaction)
            |-- MCGuardrails            instances for TLC
            `-- GuardrailsProofs        theorems
    ApiServer               start-up, thread pool, the lazily compiled graph
    CatalogStore            boots, seeding and lookups over one SQLite file
    Tracing                 exported environment, the traced run and its URL
      `-- MCProcess         ApiServer, CatalogStore and Tracing for TLC
            `-- ProcessProofs           theorems about the three
    AuditReads              the audit lists while cases are being stored
    UsageAccounting         tokens, prices, stored cost and running totals
      |-- UsageAccountingProofs         theorems
      `-- MCRecords         AuditReads and UsageAccounting for TLC
            `-- RecordsProofs           theorems about AuditReads and the two together
    Console                 one Streamlit session in front of the API
      `-- ConsoleProofs     theorems
    DataTheorems            lemmas on counting, sums, sequences and induction

**CaseVocabulary.** A text is the set of what its readers can tell about it:
`"words"`, `"pii"` (what `redact_pii` masks), `"leak"` (what `detect_prompt_leak`
matches), `"signal"` (an injection score at or above the threshold). `{}` is both
`None` and `""`, which the code never tells apart (`if final.get("draft")`).
A tool's answer is `clean`, `poisoned` (a successful one with a string that would be
refused), a `failure` (it raised, or answered `{"error": ...}`) or an `echo`: an error
that repeats an argument which would be refused (`catalog.py:23`, `:61`) or an
exception's text that does (`registry.py:95-108`). The arguments themselves are left
out: the model wrote them, and every record keeps them as given. The settings are
records of any two integers and a step limit.

**CaseGraph.** The variables are the fields of `CaseState`, the node about to run,
the researcher's remaining plan and LangGraph's step count. Only a successful answer
is scanned (`nodes.py:55`): an `echo` stays in the log as it came, under the status
error, and does not become a fact. One action is one node;
`Approve` and `Reject` are the two returns of the reviewer followed by
`route_after_review`. The researcher's loop takes one step per call
(`RunTool`) and its slice is `RoundsKept`, including the negative bound Python
accepts. The model is free: each label, plan, draft and verdict is chosen from all
values of its type, and every node that calls it may raise (`LlmRaises`, which at
the classifier also stands for a graph that cannot be compiled for want of a key).
LangGraph is external: it runs the nodes in order and raises when the graph has not
ended after `recursion_limit` supersteps (`OutOfSteps`); its default is not part
of this repository, so no value is assumed.

**CaseContract** says what `resolve_case` may rely on: an invocation yields at most
one outcome; if it returns, the case is RESOLVED within the cap or ESCALATE exactly
at the cap with non-empty feedback, its draft is redacted and its log is within the
tool budget, with no successful call's answer left unscanned; if it raises, nothing
but the exception is left (the log is kept as history).
`CaseGraph!ImplementsContract` is the refinement, with `Outcome` as the mapping.

**CaseService.** Each request is a thread with a program counter. Its steps are cut
where another thread, a failing insert or a crash can come between: at every
`INSERT` (one transaction each in `repo.py`) and after every counter. What is local
to the call (redaction, scanning, the gate) is part of the step it precedes.
`graph.invoke` is one step with any outcome of the contract; its duration is where
other threads interleave. `_log_security_event` is a two-step procedure
(`InsertEvent`, `CountEvent`) with three callers, told apart by the event type.
`InsertFails` is any of the inserts raising, which the route turns into a 500;
`Crash` kills the threads and the counters and keeps the tables. A request stands
for its ticket id, which is a fresh uuid4; the upsert in `insert_ticket` is
therefore always an insert.

**PiiRedaction, InjectionScan, Guardrails.** A text that is redacted is a sequence
of words, each behind a space or a hyphen: a keyword of `_BUSINESS_REF`, an address
a pattern takes whole (an email; an IP address is treated alike) or a run of 2, 3, 4
or 10 digits, the runs over which references, SSNs, cards and phones compete. `Sub`
is `re.sub`: leftmost match, then on behind it; each pattern is the number of words
its match takes, and `Hide` puts a mask for each. `RedactPii` gives the same result
as `redact_pii` on every text of the instance, spelled out; this was compared with
the code itself. One assumption is made of a text that arrives: it does not spell a
placeholder itself ("REF" and a number between two NUL characters). The code
restores placeholders with `str.replace` and does not check for one that was there
before; such a text would get a reference of its own case in its place. A text that
is scanned is the set of signals the patterns find in it as it stands and once it is
normalised; weights, threshold and the walk through lists and dicts are the code's.
A tool's `Results` are built level by level, lists and dicts of what is below, from
`Scalars` and from what an earlier scan quarantined. `Guardrails` applies both to
every input of the bound: text in, text quoted again on its way out, and a tool's
result before the responder sees it.

**ApiServer.** A call waits for a thread of the pool, which serves in order of
arrival (anyio, external). It is cut after the route has read `app.state.graph`,
after `get_graph` has read it again, and between compiling and assigning, where
another thread can compile too. Provider, key and SDK are chosen at the start:
`ActiveLlmApiKey`, `HasLlmCredentials` and `BuildLlmClient` are the code's tests.

**CatalogStore.** `executescript` creates each table on its own; the three
`executemany` of `seed_catalog` run in one transaction that holds the write lock
until the commit. The file is new, or holds any part of the fixture, some of it
edited, with lines between any orders and products: SQLite does not enforce the
references of `db.py:64-65` unless told to. Rows of orders and products the fixture
does not have are left out. A second boot can find the lock taken and give up
(`Locked`), and any process can be killed anywhere (`Crash`). SQLite's locking and
rollback are external. `check_order_status` reads the order and its joined lines in
two statements.

**Tracing.** `os.environ`, `.env` and what the settings made of the two at import;
`configure_tracing` at start-up and when the graph is compiled. That the SDK reads
its switch from `LANGCHAIN_TRACING_V2` is assumed; the code sets that one on every
path. The runs of a case end innermost first and are collected or not, whatever the
SDK likes; the block behind the `yield` may fail at any of its calls. Project and
endpoint are exported as the key is and are left out.

**AuditReads.** A case commits its ticket row and events in the order
`CaseService` stores them, is answered after the last or fails at one; a client reads
the two lists at any moments. A leak may be withheld from a case that has tool events
too. Rows carry the clock in whole seconds, which never
steps back.

**UsageAccounting.** Each LLM call reports its tokens in the neutral shape, the
legacy one, both, not at all or unreadably, or raises. Money is in units of 10^-8
USD, the precision `estimate_cost` rounds to, so that all prices are whole numbers.
An insert may raise; tokens, cost and calls are counted one by one afterwards.

**Console.** A script run is `main()` cut at its `st.*` calls, where a waiting event
interrupts it: local variables are lost, `st.session_state` stays. A blocking
request is not interrupted, but returns with an answer or an error whatever the API
does. One event can wait at a time (Streamlit, external, coalesces them). The API's
tables grow by commits, this session's cases and those of other clients (`Others`)
alike. A tab asks for the newest rows up to a limit, `EventLimit` for events and the
slider's value for cases, and filters afterwards what it got; the slider and the
filters may stand anywhere at every run. `fate`, `posts` and `acted` are history
variables.

**MCProcess, MCRecords.** These parts share no variable, so interleaving them
would only multiply their states: `part` says whose behaviour it is while the others
rest in one state.

## 3. Runs

| run | question | instance | shows |
|---|---|---|---|
| `graph` | does the graph keep its promises for every answer of the model and its tools? | one listed and one unlisted tool, each tool answering in any of the four ways, plans of up to 3 calls, two categories, five settings: defaults (2 passes, 3 calls), 3 passes with exactly enough supersteps, 3 with too few and no tool calls, a cap of 0, a negative slice | type invariant; the review bound, decisions that explain themselves, faithful research, the step limit; the contract; termination |
| `service_one` | what do the tables and the client hold at any moment of one case? | one request, the default settings, all texts, one crash, any insert failing | six safety invariants |
| `service_two` | do threads disturb each other's audit, and does every case end? | two requests, one pass, one call, one crash | counters against tables, liveness |
| `guardrails` | what do the guardrails keep, hide and refuse? | all texts of up to 5 words; all texts of up to 3 of the 22 signals, hidden or in sight; results of up to 2 entries of six kinds, two levels deep | references survive, redaction is final; refusal by tier; nothing flagged is left and nothing else is touched |
| `process` | does the process around the cases stand up? | 3 calls of any kind on 2 threads under 6 settings; 2 processes that boot 3 times over a catalog of 2 orders and 3 lines, from any earlier file; every environment and `.env` with one traced case | answers without a model, bounded compiles, an honest `/health`, liveness; complete, atomic and conservative seeding; the SDK's key is the deployment's, the SDK's switch is on if the API traces and only if its own switch is, a URL is its case's own |
| `records` | do the records agree with the cases? | 2 cases of 5 kinds in 2 seconds, limits 0, 2 and 9 over a cap of 3; 2 threads of up to 2 LLM calls with 4 kinds of report under 4 providers; up to symmetry | lists are complete, ordered and explained; each token is billed once and the spend follows the tickets |
| `console` | does the session tell the truth about the API? | 2 cases, 4 user events anywhere in a script run, an API that answers, fails, hangs or is down; lists of one row, of all decisions or of one | turns match, one post per submission, honest statistics, where the answer on screen must be listed; liveness |
| `guardrail_log`, `leak_sent`, `reason_redacted`, `pii_ssn`, `console_nothing_lost` | is a sentence of the documentation true of the code? | one request, text or session | the counterexample of section 5 |

**Bounds.** `MaxPlan` bounds the model's plan; three calls are the default budget
and give every order of two kinds of records around a third. One listed tool is
enough because `dispatch_tool` treats listed tools alike; categories other than
the fallback are alike too. Two requests are enough for interference: a step
touches one request's rows and one counter. One crash is enough because a restart
forgets everything but the tables, which no later step of another request reads.
The counters are bounded by the number of requests and calls. Requests and cases are
interchangeable, so `records` checks them up to permutation; runs with temporal
properties do not.

`MaxWords` = 5 holds a keyword with the longest number (four runs), or a number with
a neighbour on either side; the patterns look no further. Three signals
(`MCScoredTexts`) are one more than any pair that reaches the threshold. Two entries
and two levels are a neighbour and a parent of every entry. Three calls on two threads are the
smallest pool with somebody waiting. Three boots of two processes allow a crash, an
overlap and a repair. `MaxSeconds` = 1 gives rows of the same and of different
seconds, and the `Limits` lie below, at and above what a route returns. `MaxEvents`
= 4 allows two submissions through a form, or a chip and a form that overtake a
queued case. Lists of one row are the shortest that cut something
off: the answer on screen, another case, or nothing. Cases of other clients are left to
the proofs (`Others` is empty): a submission that timed out is stored as late as theirs.

**Deadlock** is off in every run: a graph invocation, a guarded text, a traced case
and a finite set of requests end, and users and clients may stop.

**Fairness.** `CaseGraph` assumes that the invoke loop goes on
(`WF_vars(Next)`): it is a synchronous loop and every call in it returns or raises
(provider clients have their own timeouts). `CaseService` assumes that a request's
thread keeps running (`WF_vars(Step(r))` for each request), as a thread-pool thread
does; arrival, failing inserts and crashes are not fair. Under it every received
request is answered, fails at an insert or dies with the process. `ApiServer`
assumes the same of start-up and of each call that has a thread or is the next to
get one; that calls arrive is not assumed. `Console` assumes that the script goes
on, `REQUEST_TIMEOUT` included; of the user and of the API nothing is assumed, so
`EverySubmissionEnds` holds even if the API hangs for ever.

## 4. Proofs

Every invariant and action property that a run checks is also proved, for every value
of the constants that the named assumption of its module allows
(`VocabularyAssumption`, `ServiceAssumption` and so on: what is finite, what is a
natural number, which special values are no members). None of them bounds what TLC
has to bound: requests, calls, cases, words of a text, boots, crashes and prices are
arbitrary.

| module | for every | proved |
|---|---|---|
| `CaseGraphProofs` | allowlist, tool set, settings and plan bound | `TypeOK`, `ReviewBounded`, `DecisionsAgree`, `ResearchIsFaithful`, `OutOfStepsOnlyBelowCap`; `GraphImplementsContract`: every step is a step or a stutter of `CaseContract` under `Outcome` |
| `CaseServiceProofs` | finite set of requests, setting, plan bound, number of crashes | `TypeOK`, `AuditIsPrefix`, `AnsweredIsDurable`, `AtMostOneEventMissing`, `LeakGate`, `RefusedBeforeModel`, `StoredTextIsRedacted`, `MetricsTrackAudit` |
| `ProcessProofs` | set of calls, pool size, configuration | `ServerTypeOK`, `NoModelStillAnswers`, `CompilesBounded`, `HealthIsHonest` |
| | set of processes, fixture, number of boots | `CatalogTypeOK`, `UpMeansComplete`, `SeedingKeepsAndCompletes`, and `AnswerIsWhole`, which is proved only: every order of the fixture is found with all the lines the fixture gives it and none of another order, whatever commits between the two reads |
| | environment and `.env` | `TracingTypeOK`, `SdkKeyIsTheDeployments`, `SdkTracesWhenApiDoes`, `TraceIsTheCases` |
| `UsageAccountingProofs` | finite set of requests, report, estimate, number of LLM calls | `UsageTypeOK`, `BillsAreRight`, `SpendTracksTickets` |
| `RecordsProofs` | set of cases, limit, number of seconds | `ReadsTypeOK`, `NewestFirst`, `ListsExplainEachOther` |
| `GuardrailsProofs` | length of a text, sets of signals, depth and width of a result | `RefsSurvive`, `RedactionIsFinal`, `RefusedByTier`, `QuarantineIsExact` |
| `ConsoleProofs` | set of submissions and of other cases, limits, filters, number of user events | `TurnsMatch`, `PostedAtMostOnce`, `StatsAreStoredCases`, `AnswerIsListed` |

The `TypeOK` of the joint instances `MCProcess` and `MCRecords` follows from the
parts' (`ProcessTypeCorrectness`, `RecordsTypeCorrectness`).

Hardly any of these is inductive as it stands. Each module conjoins the properties
with what they rest on into one invariant, has one lemma per action that keeps it,
and derives the properties at the end.

**CaseGraph.** That the loop stays within its cap needs `iterations < Passes` at the
responder and the reviewer (`IterationsByNode`); that the limit suffices needs
`steps` as a function of node and iterations (`StepsByNode`); that the log stays
within the budget needs the plan's remainder (`LogBounded`). The two tests of the cap
meet in `InvReject`: for a positive count, `iterations >= max_review_iterations` and
`iterations >= Passes` are the same (`PassesBounds`), whatever the sign of the
setting. The contract follows because every stopped state is in `Outcomes`.

**CaseService.** `RequestInv` says for one request, and for each place its thread can
be at, exactly which rows the case has and what its client was told: the stored calls
are the log up to `next`, the stored events are those of the calls before it behind
a withheld reply's (`Logged`). It names no other request, so a step of one thread
keeps the others' (`SameKeepsInv`), and a thread that dies or fails keeps its rows:
what they are then is a prefix of what the case owes. `Counted` is a ledger for each
counter: it equals the rows in the tables less the threads that are between an insert
and its counter, as long as nothing has crashed, and is at most that afterwards.
`ToolEvents` is a fold; that it adds the events of one call at a time is proved by
induction over the log (`EventsOfFirstExist`, `ToolEventsByFirst`).

**ApiServer.** That no more graphs are compiled than there are threads rests on
`ThreadsInv`: until a graph is assigned, whoever has compiled one still holds its
thread; from then on nobody joins the compilers. `QueueIsWaiting` says that the queue
holds each waiting call once, without which a call could get two threads.

**CatalogStore.** That a process which serves has the whole fixture rests on what its
transaction holds before the commit: the holder's rows extend the committed ones and
contain the fixture of every table it is past (`WorkExtends`), and the lock is held
exactly from the first insert to the commit (`HolderSeeds`), so nobody else commits
in between. `InsertOrIgnoreMerges` is the fact about `INSERT OR IGNORE` it all needs.
A commit is then the only step that changes the catalog, into something complete
that has every row there was.

**Tracing.** `KeySources` keeps where the exported key and switch came from. The
root of a case is found by name or as the chain that has no parent; both searches
return the one run without a parent if it was collected (`RootIsTheInvocation`, by
the least and the greatest index of the runs).

**UsageAccounting.** Each running total is `Balanced`: total and amounts still owed by
requests that are not yet counted make up what all cases were billed (tokens), or
what their tickets store (cost). The sums are `SumFunctionOnSet` of the community
modules, a recursive function; `DataTheorems` unfolds it once (`SumsExist`,
`SumUnfolded`) and gives the step of a ledger (`LedgerStep`). That only a local
provider is free is a fact about the price table (`RowsOk`).

**AuditReads.** The tables hold the commits of each case's script so far, counted by
kind (`Accounts`), in the order of their ids and times (`InOrder`). A list that was
read is what the table holds up to a number of rows (`IsNewest`), which stays true
because tables only grow; `ORDER BY ... LIMIT` is a choice of rows by their rank from
the end (`RanksFromTheEnd`, `RecentIsTheEnd`).

**Console.** A submission is in one place at a time: waiting, the event of the run, in
the queue or being asked (`Places`), and what is dropped stays so. Statistics and
lists follow from what the API had decided when the session saw it (`Asked`,
`Listed`); the cases counted are finite by induction over the messages.

**Guardrails, redaction.** `re.sub` works from the left; everything about it is proved
from the right (`FromTheEnd`), by induction over what it makes of the rest of a text
(`Unfolds`). Each pattern is the set of word sequences it matches (`EmailL`, `SsnL`,
`CardL`, `PhoneL`, and `Spans` for a reference; the `...AreFound` lemmas). None of
these sequences holds a mask or a placeholder, so nothing is matched across what was
cut out: a pattern leaves nothing of its own behind (`HideClears`) and brings nothing
of the others about (`MaskPiiClears`). What a text holds behind its placeholders is
never touched (`HideHolds`). Shielding a restored text therefore gives the shielded
text back (`ShieldRestores`): a keyword in front of a restored reference does not take
its digits, because the reference starts with a keyword itself. Both theorems follow.

**Guardrails, scan.** A score of three is taken apart signal by signal
(`RefusedFor`). Results are covered level by level (`LevelInduction`); the cleaned
value of a level is a value of that level, with the same places, and differs from it
only where a string was flagged (`Exact`, `ResultsExact`).

**Induction.** The library's induction theorems take an operator, which no backend
here can instantiate. `NatSetInduction` and `FiniteFamilyInduction` say the same of a
set, so that a proof by induction is a proof that a set of numbers contains 0 and is
closed under successor. What was proved to hold of `[]` is the safety part of each
specification; fairness plays no role in it.

*Only model-checked:* the liveness properties (`Terminates`, `EveryRequestEnds`,
`EveryCallIsAnswered`, `EverySubmissionEnds`), which are out of TLAPS's reach.

## 5. Where documentation and code differ

1. **A raised graph loses its guardrail actions** (`guardrail_log`). If a node after
   the researcher raises, `resolve_case` goes on from `initial`, whose `tool_calls`
   is empty (`service.py:147-152`); a call that was blocked or sanitized leaves
   neither a `tool_calls` nor a `security_events` row, where `README.md:99` promises
   a row for every guardrail decision.
2. **The leak gate is for RESOLVED cases only** (`leak_sent`, `service.py:165`). An
   escalated case returns and stores its draft ungated; `README.md:173` says such a
   reply is never sent.
3. **Unredacted escalation reason** (`reason_redacted`, `nodes.py:109-116`): the
   reviewer's feedback is stored as written; `README.md:168` says persisted text is
   scrubbed.
4. **An SSN behind a keyword** (`pii_ssn`, `pii.py:26-30`): "order 123-12-1234" is
   returned as it is, because "order 123" is shielded as a reference and the rest is
   no SSN; `README.md:168` says SSNs are scrubbed.
5. **A question that was never asked** (`console_nothing_lost`, `app.py:437`): a
   click between the append of a question and its request leaves it in the session
   with no case and no error, where `app.py:692` says that nothing is lost.

Smaller ones, met while modelling and not kept as runs: an approved empty draft is
RESOLVED without a reply (`service.py:155`; `README.md:29`); a REFUSE row can lack
its event, the two being two commits (`service.py:102-103`; `db.py:36`); lifespan
only logs a missing key (`main.py:36`; `README.md:371` says boot fails fast); with
the environment docker-compose makes of `.env.example` the API takes tracing to be
off, and the SDK's switch stays on because it was already set (`tracing.py:48`;
`.env.example:26` says that it stays off); the LLM call that raises is not counted
(`usage.py:68`; `metrics.py:42`); one reporting call hides the silent ones from the
bill (`usage.py:84`; `README.md:431`); the console filters by decision after the limit
and then says that no case matches, while one may lie below (`app.py:735`); it shows a
new question above the previous answer after an interruption (`app.py:696`), and says
"Couldn't reach the API" of a request that timed out (`app.py:449`).

## 6. Not modelled, and the plan

Abstracted on purpose: wording, latency, prompts, the structured-output method, SQL
text, CSS, dashboards. Of the LLM client the choice of provider and key is
modelled, and what its four methods may return or raise; how they ask is not.
`get_product_details` and `search_catalog` are single reads that change nothing, and
their answers are among those `CaseGraph` leaves free. The seed and smoke scripts
are sequential clients of `/resolve`; Prometheus, Grafana and Docker files are
configuration without state. A submission that timed out and is sent again
opens a second case (`app.py:347`): no key ties the two together and no document
promises one, so no property forbids it. `TurnsMatch` allows only questions
whose run was interrupted to stand above another's answer; what happens to those is
`NothingIsLost`, which fails.
LangGraph, LangSmith, Streamlit, anyio, tiktoken,
SQLite and the providers are external and modelled by what the code sees of them.

Next: for each liveness property the safety half that can be proved, a rank of each
request, call and script that every step of its own lowers and nobody else's raises;
and the audit trail as an abstract specification that `CaseService` implements, step
by step.
