----------------------------- MODULE CaseService -----------------------------
(***************************************************************************)
(* service.resolve_case, run by several request threads over one SQLite    *)
(* file and one in-memory metrics registry.                                *)
(*                                                                         *)
(* A request thread's steps are cut where another thread, a crash or a     *)
(* failing insert can come between: every INSERT of storage/repo.py is a   *)
(* transaction of its own, and every counter is bumped after the row it    *)
(* counts.  graph.invoke is one step that yields any outcome of the        *)
(* contract CaseGraph implements.  Ticket ids are fresh (uuid4), so a      *)
(* request stands for its ticket id.                                       *)
(***************************************************************************)
EXTENDS CaseVocabulary, FiniteSets

CONSTANTS
  Requests,     \* POST /resolve calls
  Setting,      \* the configuration the process runs with
  MaxCrashes    \* bound: how often the process is killed and restarted

ASSUME ServiceAssumption ==
  /\ IsFiniteSet(Requests)
  /\ Setting \in Settings
  /\ MaxCrashes \in Nat

VARIABLES
  pc,           \* where each request's thread is
  case,         \* resolve_case's state dict: `state`, `initial`, then `final`
  outcome,      \* what graph.invoke yielded, Pending before (history)
  next,         \* index of the tool call _persist is at
  event,        \* the security event being logged
  response,     \* what the client got
  tickets, toolRows, eventRows,     \* the three tables, by ticket id
  metrics,      \* the process's counters
  crashes

local  == <<pc, case, outcome, next, event, response>>
tables == <<tickets, toolRows, eventRows>>
vars   == <<local, tables, metrics, crashes>>

Decisions  == {"RESOLVED", "ESCALATE", "REFUSE"}
Statuses   == {"ok", "error", "blocked", "sanitized"}
EventTypes == {"injection_refused", "tool_blocked",
               "tool_output_sanitized", "outbound_leak_blocked"}
Sources    == {"provider", "estimated"}

Finished == {"answered", "failed", "lost"}

-----------------------------------------------------------------------------
(* Operators of the service *)

DetectInjectionOff(text) == FALSE                   \* mutant: no inbound scan
DetectInjection(text) == "signal" \in text

Because(kind) == [kind |-> kind, passes |-> 0, text |-> {"words"}]

\* The dict resolve_case starts from, and the one it refuses with.
Initial(body) == [body |-> body, decision |-> "none", reason |-> NoReason,
                  iterations |-> 0, draft |-> NoText, log |-> <<>>]
Refusal(body) == [Initial(body) EXCEPT !.decision = "REFUSE", !.reason = Because("refused")]

\* What graph.invoke leaves: its final state, or the initial one with an
\* ESCALATE written over it, whatever had already been dispatched.
Final(c, o) ==
  IF o.status = "returned"
  THEN [c EXCEPT !.decision = o.decision, !.reason = o.reason,
                 !.iterations = o.iterations, !.draft = o.draft, !.log = o.log]
  ELSE [c EXCEPT !.decision = "ESCALATE", !.reason = Because("graph_error")]

TicketRow(c) == [body |-> c.body, decision |-> c.decision, reason |-> c.reason,
                 iterations |-> c.iterations, reply |-> c.draft]
NoRow == [TicketRow(Initial(NoText)) EXCEPT !.decision = "absent"]

NoResponse == [code |-> 0]
ServerError == [code |-> 500]
Response(c) == [code |-> 200, decision |-> c.decision, reason |-> c.reason,
                iterations |-> c.iterations, reply |-> c.draft, log |-> c.log]

\* What the leak gate makes of a case.
WithheldStillDrafted(c) ==                          \* mutant: reply kept
  [c EXCEPT !.decision = "ESCALATE", !.reason = Because("outbound_leak")]
Withheld(c) ==
  [c EXCEPT !.decision = "ESCALATE", !.reason = Because("outbound_leak"), !.draft = NoText]

\* The event _persist logs for a call of that status, if any.
EventOfStatus(status) == IF status = "ok" THEN "none" ELSE status        \* mutant
EventOfBlocked(status) == IF status = "blocked" THEN "tool_blocked" ELSE "none" \* mutant
EventOf(status) ==
  CASE status = "blocked"   -> "tool_blocked"
    [] status = "sanitized" -> "tool_output_sanitized"
    [] OTHER                -> "none"

Bump(counter, label) == [metrics EXCEPT ![counter][label] = @ + 1]
NoMetrics == [cases   |-> [d \in Decisions  |-> 0], tools  |-> [s \in Statuses   |-> 0],
              sources |-> [s \in Sources    |-> 0], events |-> [e \in EventTypes |-> 0]]

-----------------------------------------------------------------------------
Init ==
  /\ pc        = [r \in Requests |-> "idle"]
  /\ case      = [r \in Requests |-> Initial(NoText)]
  /\ outcome   = [r \in Requests |-> Pending]
  /\ next      = [r \in Requests |-> 1]
  /\ event     = [r \in Requests |-> "none"]
  /\ response  = [r \in Requests |-> NoResponse]
  /\ tickets   = [r \in Requests |-> NoRow]
  /\ toolRows  = [r \in Requests |-> <<>>]
  /\ eventRows = [r \in Requests |-> <<>>]
  /\ metrics   = NoMetrics
  /\ crashes   = 0

Goto(r, from, to) ==
  /\ pc[r] = from
  /\ pc' = [pc EXCEPT ![r] = to]
  /\ UNCHANGED crashes

\* Start _log_security_event: its insert and its counter are the next steps.
LogEvent(r, type) == event' = [event EXCEPT ![r] = type]

ReceiveRefusesRaw(r) ==                             \* mutant: refusal not redacted
  /\ \E text \in Tickets :
       IF DetectInjection(RedactPii(text))
       THEN Goto(r, "idle", "ticket") /\ case' = [case EXCEPT ![r] = Refusal(text)]
       ELSE Goto(r, "idle", "graph")  /\ case' = [case EXCEPT ![r] = Initial(RedactPii(text))]
  /\ UNCHANGED <<outcome, next, event, response, tables, metrics>>

\* A request arrives: redact, scan the redacted text, refuse or admit.
Receive(r) ==
  /\ \E text \in Tickets :
       LET body == RedactPii(text)
       IN  IF DetectInjection(body)
           THEN Goto(r, "idle", "ticket") /\ case' = [case EXCEPT ![r] = Refusal(body)]
           ELSE Goto(r, "idle", "graph")  /\ case' = [case EXCEPT ![r] = Initial(body)]
  /\ UNCHANGED <<outcome, next, event, response, tables, metrics>>

InvokeGraph(r) ==
  /\ Goto(r, "graph", "outbound")
  /\ \E o \in Outcomes(Setting) :
       /\ outcome' = [outcome EXCEPT ![r] = o]
       /\ case' = [case EXCEPT ![r] = Final(@, o)]
  /\ UNCHANGED <<next, event, response, tables, metrics>>

\* Outbound redaction, then the leak gate, which only a RESOLVED case meets.
GuardOutbound(r) ==
  LET reply    == RedactPii(case[r].draft)
      decision == IF case[r].decision = "none" THEN "ESCALATE" ELSE case[r].decision
  IN  /\ IF DetectPromptLeak(reply) /\ decision = "RESOLVED"
         THEN /\ Goto(r, "outbound", "event")
              /\ LogEvent(r, "outbound_leak_blocked")
              /\ case' = [case EXCEPT ![r] = Withheld(@)]
         ELSE /\ Goto(r, "outbound", "account")
              /\ case' = [case EXCEPT ![r].decision = decision, ![r].draft = reply]
              /\ UNCHANGED event
      /\ UNCHANGED <<outcome, next, response, tables, metrics>>

\* Token source: the provider's counts when the collector saw any.
Account(r) ==
  /\ Goto(r, "account", "ticket")
  /\ \E source \in Sources : metrics' = Bump("sources", source)
  /\ UNCHANGED <<case, outcome, next, event, response, tables>>

InsertTicket(r) ==
  /\ Goto(r, "ticket", "calls")
  /\ tickets' = [tickets EXCEPT ![r] = TicketRow(case[r])]
  /\ UNCHANGED <<case, outcome, next, event, response, toolRows, eventRows, metrics>>

InsertFirstToolCall(r) ==                           \* mutant: wrong row
  /\ next[r] <= Len(case[r].log)
  /\ Goto(r, "calls", "count_call")
  /\ toolRows' = [toolRows EXCEPT ![r] = Append(@, Head(case[r].log))]
  /\ UNCHANGED <<case, outcome, next, event, response, tickets, eventRows, metrics>>

InsertToolCall(r) ==
  /\ next[r] <= Len(case[r].log)
  /\ Goto(r, "calls", "count_call")
  /\ toolRows' = [toolRows EXCEPT ![r] = Append(@, case[r].log[next[r]])]
  /\ UNCHANGED <<case, outcome, next, event, response, tickets, eventRows, metrics>>

CountToolCall(r) ==
  LET status == case[r].log[next[r]].status
  IN  /\ pc[r] = "count_call"
      /\ metrics' = Bump("tools", status)
      /\ IF EventOf(status) = "none"
         THEN /\ Goto(r, "count_call", "calls")
              /\ next' = [next EXCEPT ![r] = @ + 1]
              /\ UNCHANGED event
         ELSE /\ Goto(r, "count_call", "event")
              /\ LogEvent(r, EventOf(status))
              /\ UNCHANGED next
      /\ UNCHANGED <<case, outcome, response, tables>>

CallsDoneEarly(r) ==                               \* mutant: off by one
  /\ next[r] >= Len(case[r].log)
  /\ IF case[r].decision = "REFUSE"
     THEN Goto(r, "calls", "event") /\ LogEvent(r, "injection_refused")
     ELSE Goto(r, "calls", "count_case") /\ UNCHANGED event
  /\ UNCHANGED <<case, outcome, next, response, tables, metrics>>

CallsDoneAtLast(r) ==                              \* mutant: off by one
  /\ next[r] = Len(case[r].log)
  /\ IF case[r].decision = "REFUSE"
     THEN Goto(r, "calls", "event") /\ LogEvent(r, "injection_refused")
     ELSE Goto(r, "calls", "count_case") /\ UNCHANGED event
  /\ UNCHANGED <<case, outcome, next, response, tables, metrics>>

\* _persist returns; only a refusal has one more event to log.
CallsDone(r) ==
  /\ next[r] > Len(case[r].log)
  /\ IF case[r].decision = "REFUSE"
     THEN Goto(r, "calls", "event") /\ LogEvent(r, "injection_refused")
     ELSE Goto(r, "calls", "count_case") /\ UNCHANGED event
  /\ UNCHANGED <<case, outcome, next, response, tables, metrics>>

InsertEvent(r) ==
  /\ Goto(r, "event", "count_event")
  /\ eventRows' = [eventRows EXCEPT ![r] = Append(@, event[r])]
  /\ UNCHANGED <<case, outcome, next, event, response, tickets, toolRows, metrics>>

\* _log_security_event returns to whoever called it.
CountEvent(r) ==
  /\ pc[r] = "count_event"
  /\ metrics' = Bump("events", event[r])
  /\ CASE event[r] = "outbound_leak_blocked" -> Goto(r, "count_event", "account") /\ UNCHANGED next
       [] event[r] = "injection_refused" -> Goto(r, "count_event", "count_case") /\ UNCHANGED next
       [] OTHER -> Goto(r, "count_event", "calls") /\ next' = [next EXCEPT ![r] = @ + 1]
  /\ UNCHANGED <<case, outcome, event, response, tables>>

CountDecidedCase(r) ==                              \* mutant: graph's cases only
  /\ Goto(r, "count_case", "respond")
  /\ IF outcome[r].status = "returned" THEN metrics' = Bump("cases", case[r].decision)
                                       ELSE UNCHANGED metrics
  /\ UNCHANGED <<case, outcome, next, event, response, tables>>

CountCase(r) ==
  /\ Goto(r, "count_case", "respond")
  /\ metrics' = Bump("cases", case[r].decision)
  /\ UNCHANGED <<case, outcome, next, event, response, tables>>

Respond(r) ==
  /\ Goto(r, "respond", "answered")
  /\ response' = [response EXCEPT ![r] = Response(case[r])]
  /\ UNCHANGED <<case, outcome, next, event, tables, metrics>>

\* An insert raises (locked, disk full): main.resolve answers 500.
AtInsert(r) == \/ pc[r] \in {"ticket", "event"}
               \/ pc[r] = "calls" /\ next[r] <= Len(case[r].log)

InsertFails(r) ==
  /\ AtInsert(r)
  /\ Goto(r, pc[r], "failed")
  /\ response' = [response EXCEPT ![r] = ServerError]
  /\ UNCHANGED <<case, outcome, next, event, tables, metrics>>

\* The process dies and is restarted: threads and counters are gone, the
\* tables stay.
Crash ==
  /\ crashes < MaxCrashes
  /\ crashes' = crashes + 1
  /\ pc' = [r \in Requests |-> IF pc[r] \in Finished \cup {"idle"} THEN pc[r] ELSE "lost"]
  /\ metrics' = NoMetrics
  /\ UNCHANGED <<case, outcome, next, event, response, tables>>

\* The steps of resolve_case after a request has arrived.
Step(r) == \/ InvokeGraph(r) \/ GuardOutbound(r) \/ Account(r)
           \/ InsertTicket(r) \/ InsertToolCall(r) \/ CountToolCall(r) \/ CallsDone(r)
           \/ InsertEvent(r) \/ CountEvent(r) \/ CountCase(r) \/ Respond(r)

Next == \/ \E r \in Requests : Receive(r) \/ Step(r) \/ InsertFails(r)
        \/ Crash

\* A received request keeps its thread until it is answered.
Spec == Init /\ [][Next]_vars /\ \A r \in Requests : WF_vars(Step(r))

-----------------------------------------------------------------------------
(* Properties *)

\* The tables hold labels of the service's vocabulary, and a thread's place is
\* one of resolve_case's; a decision is never missing once a case is stored.
TypeOK ==
  /\ pc \in [Requests -> Finished \cup
        {"idle", "graph", "outbound", "account", "ticket", "calls", "count_call",
         "event", "count_event", "count_case", "respond"}]
  /\ \A r \in Requests :
       /\ case[r].body \in TextsMarked(Marks \ {"leak"})
       /\ case[r].draft \in Texts
       /\ case[r].log \in Seq(CallRecords)
       /\ tickets[r] = NoRow \/ tickets[r].decision \in Decisions
       /\ toolRows[r] \in Seq(CallRecords)
       /\ eventRows[r] \in Seq(EventTypes)
       /\ next[r] \in Nat \ {0}
       /\ event[r] \in EventTypes \cup {"none"}
  /\ metrics \in [cases  : [Decisions -> Nat],  tools   : [Statuses -> Nat],
                  events : [EventTypes -> Nat], sources : [Sources -> Nat]]
  /\ crashes \in 0..MaxCrashes

\* The calls a guardrail acted on, and the events a case owes, in the order
\* the code logs them.
GuardrailEvent == [blocked |-> "tool_blocked", sanitized |-> "tool_output_sanitized"]
Guarded == DOMAIN GuardrailEvent

WithEventOf(call, events) ==
  IF call.status \in Guarded THEN Append(events, GuardrailEvent[call.status]) ELSE events

ToolEvents(log) ==
  LET OfFirst[n \in 0..Len(log)] ==
        IF n = 0 THEN <<>> ELSE WithEventOf(log[n], OfFirst[n - 1])
  IN  OfFirst[Len(log)]

OwedEvents(c) ==
  IF c.reason.kind = "outbound_leak" THEN <<"outbound_leak_blocked">> \o ToolEvents(c.log)
  ELSE IF c.decision = "REFUSE" THEN <<"injection_refused">>
  ELSE ToolEvents(c.log)

PrefixOf(s, t) == Len(s) <= Len(t) /\ s = SubSeq(t, 1, Len(s))

\* Whatever crashes or fails between the commits of one case, its three tables
\* hold a prefix of what the case should have left: never a row of another
\* decision, a call or event out of order or twice, and nothing but the leak
\* event without its ticket row (service.py:45-77, 102-103, 168).
AuditIsPrefix ==
  \A r \in Requests :
    /\ tickets[r] \in {NoRow, TicketRow(case[r])}
    /\ PrefixOf(toolRows[r], case[r].log)
    /\ PrefixOf(eventRows[r], OwedEvents(case[r]))
    /\ tickets[r] = NoRow =>
         /\ toolRows[r] = <<>>
         /\ PrefixOf(eventRows[r], <<"outbound_leak_blocked">>)

\* A client that got a 200 can find everything it was told in the tables, and
\* every event the case owes (service.py:197-226).
AnsweredIsDurable ==
  \A r \in Requests : response[r].code = 200 =>
    /\ response[r] = Response(case[r])
    /\ tickets[r] = TicketRow(case[r])
    /\ toolRows[r] = response[r].log
    /\ eventRows[r] = OwedEvents(case[r])

\* A case interrupted between a call's row and its event loses that one event
\* and no other: the audit never trails the stored calls by more than one
\* (service.py:60-77).
AtMostOneEventMissing ==
  \A r \in Requests :
    Len(ToolEvents(toolRows[r]))
      - Cardinality({i \in DOMAIN eventRows[r] :
                       eventRows[r][i] \in {GuardrailEvent[s] : s \in Guarded}})
    \in {0, 1}

\* A resolved reply never trips the leak gate, and where the gate has logged
\* its event no reply is stored or sent and the case is escalated
\* (service.py:164-172).
LeakGate ==
  \A r \in Requests :
    /\ tickets[r].decision = "RESOLVED" => ~DetectPromptLeak(tickets[r].reply)
    /\ \A i \in DOMAIN eventRows[r] : eventRows[r][i] = "outbound_leak_blocked" =>
         /\ tickets[r] # NoRow => tickets[r].reply = NoText /\ tickets[r].decision = "ESCALATE"
         /\ response[r].code = 200 => response[r].reply = NoText

\* An inbound signal means REFUSE without the graph, no signal means the graph
\* decides: no stored case is refused after a model call, and none that should
\* have been refused reached one (service.py:88-117).
RefusedBeforeModel ==
  \A r \in Requests :
    /\ "signal" \in case[r].body => outcome[r] = Pending
    /\ tickets[r] # NoRow => (tickets[r].decision = "REFUSE" <=> outcome[r] = Pending)

\* Case text and replies are stored and returned redacted on every path, the
\* refusal and the graph error included (service.py:86, 155-156).
StoredTextIsRedacted ==
  \A r \in Requests :
    /\ "pii" \notin tickets[r].body \cup tickets[r].reply
    /\ response[r].code = 200 => "pii" \notin response[r].reply

\* The rows of a table with a status or type, as pairs of ticket and position.
ToolRowsWith(status) ==
  {row \in Requests \X (1..MaxPlan) :
     row[2] \in DOMAIN toolRows[row[1]] /\ toolRows[row[1]][row[2]].status = status}
EventRowsWith(type) ==
  {row \in Requests \X (1..MaxPlan + 1) :
     row[2] \in DOMAIN eventRows[row[1]] /\ eventRows[row[1]][row[2]] = type}
At(label) == {r \in Requests : pc[r] = label}

\* The counters never run ahead of the tables they mirror, and until a restart
\* they equal them, up to the rows whose counting is the next step; a case that
\* ends in a 500 keeps its rows but is not counted as a case.  Every stored case
\* that reached the graph has a token source, and no refusal has
\* (service.py:41-42, 60-67, 182-203).
MetricsTrackAudit ==
  /\ \A s \in Statuses :
       LET counted == metrics.tools[s] + Cardinality({r \in At("count_call") :
                                            case[r].log[next[r]].status = s})
           stored  == Cardinality(ToolRowsWith(s))
       IN  counted <= stored /\ (crashes = 0 => counted = stored)
  /\ \A e \in EventTypes :
       LET counted == metrics.events[e] + Cardinality({r \in At("count_event") : event[r] = e})
           stored  == Cardinality(EventRowsWith(e))
       IN  counted <= stored /\ (crashes = 0 => counted = stored)
  /\ \A d \in Decisions :
       /\ metrics.cases[d] <= Cardinality({r \in Requests : tickets[r].decision = d})
       /\ crashes = 0 => metrics.cases[d] = Cardinality({r \in At("respond") \cup At("answered") :
                                                          case[r].decision = d})
  /\ LET sourced == metrics.sources.provider + metrics.sources.estimated
     IN  /\ sourced <= Cardinality({r \in Requests : outcome[r] # Pending})
         /\ crashes = 0 => sourced >= Cardinality({r \in Requests :
              tickets[r].decision \in {"RESOLVED", "ESCALATE"}})

\* A received request is answered, fails at an insert or dies with the process,
\* graph error or not, whatever the other threads do.
EveryRequestEnds == \A r \in Requests : pc[r] # "idle" ~> pc[r] \in Finished

-----------------------------------------------------------------------------
(* What the documentation says and the code does not do *)

\* README.md:99: "every guardrail decision -- a refusal, a blocked tool, a
\* sanitized tool result, a withheld outbound leak -- lands in its own
\* security_events table".  A graph that raises after the researcher loses the
\* calls it had dispatched (service.py:147-152).
GuardrailActionLogged ==
  \A r \in Requests : pc[r] = "answered" =>
    \A i \in DOMAIN outcome[r].log : outcome[r].log[i].status \in Guarded =>
      \E k \in DOMAIN eventRows[r] : eventRows[r][k] = GuardrailEvent[outcome[r].log[i].status]

\* README.md:173: "A reply that narrates its instructions or echoes role tags is
\* never sent".  The gate is only met by a RESOLVED case (service.py:165).
LeakNeverSent ==
  \A r \in Requests : response[r].code = 200 => ~DetectPromptLeak(response[r].reply)

\* README.md:168: PII is "scrubbed inbound, outbound, and in persistence".  The
\* reviewer's feedback reaches escalation_reason as the model wrote it
\* (nodes.py:109-116).
EscalationReasonRedacted ==
  \A r \in Requests : "pii" \notin tickets[r].reason.text
=============================================================================
