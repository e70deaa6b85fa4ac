-------------------------- MODULE CaseServiceProofs --------------------------
(***************************************************************************)
(* What holds of CaseService for every number of requests, every setting,  *)
(* plan bound and number of crashes.                                       *)
(*                                                                         *)
(* The invariant has three parts.  Types bounds every variable.            *)
(* RequestInv says, for one request and for each place its thread can be   *)
(* at, which rows its case has and what the client was told; it names no   *)
(* other request's variables, so a step of one thread keeps the others'.   *)
(* Counted relates the process-wide counters to the rows of all requests   *)
(* through the number of threads between a row's insert and its counter.   *)
(***************************************************************************)
EXTENDS CaseService, DataTheorems

-----------------------------------------------------------------------------
(* The events a tool log owes *)

ToolEventTypes == {GuardrailEvent[s] : s \in Guarded}

\* The events of a log's first n calls, for every n up to its length.
CountsFirst(log, f) ==
  /\ f \in [0..Len(log) -> Seq(ToolEventTypes)]
  /\ f[0] = <<>>
  /\ \A n \in 1..Len(log) : f[n] = WithEventOf(log[n], f[n - 1])

\* One call adds at most one event, and only of a guardrail's kind.
LEMMA WithEventType ==
  ASSUME NEW call, NEW events \in Seq(ToolEventTypes)
  PROVE  WithEventOf(call, events) \in Seq(ToolEventTypes)
<1>1. CASE call.status \in Guarded
  BY <1>1 DEF WithEventOf, ToolEventTypes
<1>2. CASE call.status \notin Guarded
  BY <1>2 DEF WithEventOf
<1> QED  BY <1>1, <1>2

\* Every log has its events: by induction over its calls.
LEMMA EventsOfFirstExist ==
  ASSUME NEW log \in Seq(CallRecords)
  PROVE  \E f : CountsFirst(log, f)
<1> DEFINE Upto(k, f) == /\ f \in [0..k -> Seq(ToolEventTypes)]
                         /\ f[0] = <<>>
                         /\ \A n \in 1..k : f[n] = WithEventOf(log[n], f[n - 1])
           T == {k \in Nat : \E f : Upto(k, f)}
<1>1. 0 \in T
  <2>1. Upto(0, [n \in 0..0 |-> <<>>])
    OBVIOUS
  <2> QED  BY <2>1
<1>2. ASSUME NEW k \in T PROVE k + 1 \in T
  <2>1. PICK f : Upto(k, f)
    BY <1>2
  <2> DEFINE g == [n \in 0..k + 1 |-> IF n = k + 1 THEN WithEventOf(log[k + 1], f[k]) ELSE f[n]]
  <2>2. k \in Nat /\ f[k] \in Seq(ToolEventTypes)
    BY <2>1
  <2>3. WithEventOf(log[k + 1], f[k]) \in Seq(ToolEventTypes)
    BY <2>2, WithEventType
  <2>4. g \in [0..k + 1 -> Seq(ToolEventTypes)]
    BY <2>1, <2>2, <2>3
  <2>5. g[0] = <<>>
    BY <2>1, <2>2
  <2>6. ASSUME NEW n \in 1..k + 1 PROVE g[n] = WithEventOf(log[n], g[n - 1])
    <3>1. n \in 0..k + 1 /\ n - 1 \in 0..k /\ g[n - 1] = f[n - 1]
      BY <2>2
    <3>2. CASE n = k + 1
      BY <2>2, <3>1, <3>2
    <3>3. CASE n # k + 1
      BY <2>1, <2>2, <3>1, <3>3
    <3> QED  BY <3>2, <3>3
  <2> HIDE DEF g
  <2>7. Upto(k + 1, g)
    BY <2>2, <2>4, <2>5, <2>6
  <2> HIDE DEF Upto
  <2> QED  BY <2>2, <2>7
<1>3. T = Nat
  <2>1. T \in SUBSET Nat
    OBVIOUS
  <2> HIDE DEF T
  <2> QED  BY <1>1, <1>2, <2>1, NatSetInduction
<1>4. Len(log) \in T
  BY SMTT(20), <1>3
<1> QED  BY <1>4 DEF CountsFirst

\* ToolEvents is what any such function says of all the calls.
LEMMA ToolEventsByFirst ==
  ASSUME NEW log \in Seq(CallRecords), NEW f, CountsFirst(log, f)
  PROVE  ToolEvents(log) = f[Len(log)]
<1> DEFINE Body(g) == [n \in 0..Len(log) |-> IF n = 0 THEN <<>> ELSE WithEventOf(log[n], g[n - 1])]
           F == CHOOSE g : g = Body(g)
<1>1. f = Body(f)
  BY DEF CountsFirst
<1>2. F = Body(F)
  BY <1>1
<1>3. ToolEvents(log) = F[Len(log)]
  BY DEF ToolEvents
<1> HIDE DEF F
<1> DEFINE T == {n \in Nat : n <= Len(log) => F[n] = f[n]}
<1>4. 0 \in T
  BY <1>2 DEF CountsFirst
<1>5. ASSUME NEW n \in T PROVE n + 1 \in T
  BY <1>2 DEF CountsFirst
<1>6. T = Nat
  <2>1. T \in SUBSET Nat
    OBVIOUS
  <2> HIDE DEF T
  <2> QED  BY <1>4, <1>5, <2>1, NatSetInduction
<1>7. Len(log) \in T
  BY <1>6
<1> QED  BY <1>3, <1>7
\* The first n calls owe what f says of n.
LEMMA ToolEventsOfFirst ==
  ASSUME NEW log \in Seq(CallRecords), NEW f, CountsFirst(log, f), NEW n \in 0..Len(log)
  PROVE  ToolEvents(SubSeq(log, 1, n)) = f[n]
<1> DEFINE first == SubSeq(log, 1, n)
           g == [k \in 0..n |-> f[k]]
<1>1. /\ first \in Seq(CallRecords)
      /\ Len(first) = n
      /\ \A k \in 1..n : first[k] = log[k]
  BY FirstElements
<1>2. CountsFirst(first, g)
  <2>1. g \in [0..Len(first) -> Seq(ToolEventTypes)] /\ g[0] = <<>>
    BY <1>1 DEF CountsFirst
  <2>2. ASSUME NEW k \in 1..Len(first) PROVE g[k] = WithEventOf(first[k], g[k - 1])
    <3>1. k \in 1..Len(log) /\ first[k] = log[k] /\ g[k] = f[k] /\ g[k - 1] = f[k - 1]
      BY <1>1
    <3> QED  BY <3>1 DEF CountsFirst
  <2> HIDE DEF g, first
  <2> QED  BY <2>1, <2>2 DEF CountsFirst
<1>3. g[n] = f[n]
  OBVIOUS
<1> HIDE DEF g, first
<1>4. ToolEvents(first) = g[Len(first)]
  BY <1>1, <1>2, ToolEventsByFirst
<1> QED  BY <1>1, <1>3, <1>4 DEF first

\* A log's events call by call: each call adds its own after those of the calls
\* before it.
LEMMA ToolEventsByCall ==
  ASSUME NEW log \in Seq(CallRecords)
  PROVE  /\ ToolEvents(SubSeq(log, 1, 0)) = <<>>
         /\ \A n \in 0..Len(log) :
              /\ ToolEvents(SubSeq(log, 1, n)) \in Seq(ToolEventTypes)
              /\ n < Len(log) => ToolEvents(SubSeq(log, 1, n + 1))
                                   = WithEventOf(log[n + 1], ToolEvents(SubSeq(log, 1, n)))
<1>1. PICK f : CountsFirst(log, f)
  BY EventsOfFirstExist
<1>2. \A n \in 0..Len(log) : ToolEvents(SubSeq(log, 1, n)) = f[n]
  BY <1>1, ToolEventsOfFirst
<1>3. Len(log) \in Nat
  OBVIOUS
<1> QED  BY <1>1, <1>2, <1>3 DEF CountsFirst

\* The events of the first n calls are a prefix of the events of the log, no
\* longer than n.
LEMMA ToolEventsPrefix ==
  ASSUME NEW log \in Seq(CallRecords), NEW n \in 0..Len(log)
  PROVE  /\ PrefixOf(ToolEvents(SubSeq(log, 1, n)), ToolEvents(log))
         /\ Len(ToolEvents(SubSeq(log, 1, n))) <= n
<1> DEFINE E(k) == ToolEvents(SubSeq(log, 1, k))
<1>1. /\ Len(log) \in Nat
      /\ E(0) = <<>>
      /\ E(Len(log)) = ToolEvents(log)
      /\ \A k \in 0..Len(log) : E(k) \in Seq(ToolEventTypes)
      /\ \A k \in 0..Len(log) : k < Len(log) => E(k + 1) = WithEventOf(log[k + 1], E(k))
  <2>1. Len(log) \in Nat /\ SubSeq(log, 1, Len(log)) = log
    BY AllElements
  <2> QED  BY <2>1, ToolEventsByCall, Zenon
<1> HIDE DEF E
<1>2. ASSUME NEW k \in 0..Len(log), k < Len(log)
      PROVE  /\ Len(E(k + 1)) <= Len(E(k)) + 1
             /\ Len(E(k)) <= Len(E(k + 1))
             /\ E(k) = SubSeq(E(k + 1), 1, Len(E(k)))
  <2>1. E(k + 1) = E(k) \/ \E e \in ToolEventTypes : E(k + 1) = Append(E(k), e)
    BY <1>1, <1>2 DEF WithEventOf, ToolEventTypes
  <2>2. E(k) \in Seq(ToolEventTypes)
    BY <1>1
  <2>3. CASE E(k + 1) = E(k)
    BY <2>2, <2>3
  <2>4. ASSUME NEW e \in ToolEventTypes, E(k + 1) = Append(E(k), e)
        PROVE  /\ Len(E(k + 1)) = Len(E(k)) + 1
               /\ E(k) = SubSeq(E(k + 1), 1, Len(E(k)))
    BY <2>2, <2>4
  <2>5. Len(E(k)) \in Nat
    BY <2>2
  <2> QED  BY <2>1, <2>3, <2>4, <2>5
<1> DEFINE Short == {k \in Nat : k <= Len(log) => Len(E(k)) <= k}
<1>3. Short = Nat
  <2>1. Short \in SUBSET Nat /\ 0 \in Short
    BY <1>1
  <2>2. ASSUME NEW k \in Short PROVE k + 1 \in Short
    <3>1. CASE k + 1 <= Len(log)
      <4>1. k \in 0..Len(log) /\ k + 1 \in 0..Len(log) /\ k < Len(log) /\ Len(E(k)) <= k
        BY <1>1, <3>1
      <4>2. Len(E(k + 1)) \in Nat /\ Len(E(k)) \in Nat /\ Len(E(k + 1)) <= Len(E(k)) + 1
        BY <1>1, <1>2, <4>1
      <4> QED  BY <4>1, <4>2
    <3> QED  BY <3>1
  <2> HIDE DEF Short
  <2> QED  BY <2>1, <2>2, NatSetInduction
<1> DEFINE Extends == {k \in Nat : n + k <= Len(log) => PrefixOf(E(n), E(n + k))}
<1>4. Extends = Nat
  <2>1. Extends \in SUBSET Nat
    OBVIOUS
  <2>2. 0 \in Extends
    <3>1. E(n) \in Seq(ToolEventTypes) /\ n + 0 = n
      BY <1>1
    <3> QED  BY <3>1 DEF PrefixOf
  <2>3. ASSUME NEW k \in Extends PROVE k + 1 \in Extends
    <3>1. CASE n + (k + 1) <= Len(log)
      <4> DEFINE s == E(n)
                 t == E(n + k)
                 u == E(n + (k + 1))
      <4>1. n + k \in 0..Len(log) /\ n + k < Len(log) /\ n + (k + 1) = (n + k) + 1
            /\ n + (k + 1) \in 0..Len(log)
        BY <1>1, <3>1
      <4>2. s \in Seq(ToolEventTypes) /\ t \in Seq(ToolEventTypes) /\ u \in Seq(ToolEventTypes)
        BY <1>1, <4>1
      <4>3. Len(s) <= Len(t) /\ s = SubSeq(t, 1, Len(s))
        BY <4>1 DEF PrefixOf
      <4>4. Len(t) <= Len(u) /\ t = SubSeq(u, 1, Len(t))
        BY <1>2, <4>1
      <4> HIDE DEF s, t, u
      <4>5. Len(s) <= Len(u) /\ s = SubSeq(u, 1, Len(s))
        BY <4>2, <4>3, <4>4
      <4> QED  BY <4>5 DEF PrefixOf, s, u
    <3> QED  BY <3>1
  <2> HIDE DEF Extends
  <2> QED  BY <2>1, <2>2, <2>3, NatSetInduction
<1> HIDE DEF Extends, Short
<1>5. Len(log) - n \in Extends /\ n \in Short
  BY <1>1, <1>3, <1>4
<1>6. n + (Len(log) - n) = Len(log)
  BY <1>1
<1> QED  BY <1>1, <1>5, <1>6 DEF E, Extends, Short
-----------------------------------------------------------------------------
(* The inductive invariant *)

Places == Finished \cup
  {"idle", "graph", "outbound", "account", "ticket", "calls", "count_call",
   "event", "count_event", "count_case", "respond"}
Reasons == [kind   : {"none", "refused", "graph_error", "outbound_leak", "not_approved"},
            passes : Nat,
            text   : Texts]
Cases == [body       : TextsMarked(Marks \ {"leak"}),
          decision   : Decisions \cup {"none"},
          reason     : Reasons,
          iterations : Nat,
          draft      : RedactedTexts,
          log        : SeqsUpTo(CallRecords, MaxPlan)]

Answers  == {NoResponse, ServerError} \cup {Response(c) : c \in Cases}
Rows     == {NoRow} \cup {TicketRow(c) : c \in Cases}
Yields   == Outcomes(Setting) \cup {Pending}
Logging  == EventTypes \cup {"none"}
Counters == [cases  : [Decisions -> Nat],  tools   : [Statuses -> Nat],
             events : [EventTypes -> Nat], sources : [Sources -> Nat]]

Types ==
  /\ pc \in [Requests -> Places]
  /\ case \in [Requests -> Cases]
  /\ outcome \in [Requests -> Yields]
  /\ next \in [Requests -> Nat \ {0}]
  /\ event \in [Requests -> Logging]
  /\ response \in [Requests -> Answers]
  /\ tickets \in [Requests -> Rows]
  /\ toolRows \in [Requests -> Seq(CallRecords)]
  /\ eventRows \in [Requests -> Seq(EventTypes)]
  /\ metrics \in Counters
  /\ crashes \in 0..MaxCrashes

\* What a case's decision says of everything else in it.
DecisionExplains(r) ==
  LET c == case[r]
  IN  /\ "pii" \notin c.body
      /\ c.decision = "none" =>
           /\ pc[r] \in {"idle", "graph", "lost"}
           /\ c = Initial(c.body)
           /\ outcome[r] = Pending
           /\ tickets[r] = NoRow
           /\ "signal" \notin c.body
      /\ c.decision = "REFUSE" =>
           /\ pc[r] \notin {"idle", "graph", "outbound", "account"}
           /\ c = Refusal(c.body)
           /\ outcome[r] = Pending
           /\ "signal" \in c.body
      /\ c.decision \in {"RESOLVED", "ESCALATE"} =>
           /\ pc[r] \notin {"idle", "graph"}
           /\ outcome[r] # Pending
           /\ "signal" \notin c.body
      /\ c.reason.kind = "outbound_leak" =>
           c.decision = "ESCALATE" /\ c.draft = NoText /\ pc[r] # "outbound"
      /\ c.decision = "RESOLVED" /\ (pc[r] \notin {"outbound", "lost"} \/ tickets[r] # NoRow) =>
           ~DetectPromptLeak(c.draft)

LogsLeak(r) == pc[r] \in {"event", "count_event"} /\ event[r] = "outbound_leak_blocked"
LogsCall(r) == pc[r] \in {"event", "count_event"} /\ event[r] \in ToolEventTypes
Unstored    == {"idle", "graph", "outbound", "account", "ticket"}
Stored      == {"calls", "count_call", "count_case", "respond", "answered"}

\* Which event a thread is logging, and why.
EventHasCause(r) ==
  pc[r] \in {"event", "count_event"} =>
    \/ event[r] = "outbound_leak_blocked" /\ case[r].reason.kind = "outbound_leak"
    \/ event[r] = "injection_refused" /\ case[r].decision = "REFUSE"
    \/ /\ next[r] <= Len(case[r].log)
       /\ case[r].log[next[r]].status \in Guarded
       /\ event[r] = GuardrailEvent[case[r].log[next[r]].status]

\* What the client has, and whether the ticket row is there.
AnswerByPlace(r) ==
  response[r] = IF pc[r] = "answered" THEN Response(case[r])
                ELSE IF pc[r] = "failed" THEN ServerError ELSE NoResponse
TicketByPlace(r) ==
  /\ tickets[r] \in {NoRow, TicketRow(case[r])}
  /\ pc[r] \in Unstored \/ LogsLeak(r) => tickets[r] = NoRow
  /\ pc[r] \in Stored \/ (pc[r] \in {"event", "count_event"} /\ ~LogsLeak(r)) =>
       tickets[r] = TicketRow(case[r])

\* The stored calls are the first ones of the log: those before `next`, and the
\* one at it from its insert until _persist moves on.
CallsByPlace(r) ==
  LET stored == Len(toolRows[r])
  IN  /\ stored <= Len(case[r].log)
      /\ toolRows[r] = SubSeq(case[r].log, 1, stored)
      /\ stored \in {next[r] - 1, next[r]}
      /\ pc[r] = "count_call" \/ LogsCall(r) => stored = next[r]
      /\ pc[r] \notin {"count_call", "failed", "lost"} /\ ~LogsCall(r) => stored = next[r] - 1
      /\ pc[r] \in {"count_case", "respond", "answered"} => stored = Len(case[r].log)
      /\ tickets[r] = NoRow => toolRows[r] = <<>>

\* The events a case has logged when its first n calls have been.
Lead(c) == IF c.reason.kind = "outbound_leak" THEN <<"outbound_leak_blocked">> ELSE <<>>
Logged(c, n) == Lead(c) \o ToolEvents(SubSeq(c.log, 1, n))

\* The events of a thread that may have stopped anywhere.
EventsTrail(r) ==
  LET c      == case[r]
      stored == Len(toolRows[r])
  IN  IF c.decision = "REFUSE"
      THEN /\ eventRows[r] \in {<<>>, <<"injection_refused">>}
           /\ tickets[r] = NoRow => eventRows[r] = <<>>
      ELSE IF tickets[r] = NoRow THEN eventRows[r] \in {<<>>, Lead(c)}
      ELSE \/ eventRows[r] = Logged(c, stored)
           \/ /\ stored > 0
              /\ c.log[stored].status \in Guarded
              /\ eventRows[r] = Logged(c, stored - 1)

\* The events of a thread that is at a place.
EventsByPlace(r) ==
  LET c      == case[r]
      stored == Len(toolRows[r])
  IN  /\ EventsTrail(r)
      /\ pc[r] \in {"idle", "graph", "outbound"} => eventRows[r] = <<>>
      /\ c.decision = "REFUSE" =>
           /\ pc[r] \in {"ticket", "calls", "event"} => eventRows[r] = <<>>
           /\ pc[r] \in {"count_event", "count_case", "respond", "answered"} =>
                eventRows[r] = <<"injection_refused">>
      /\ c.decision # "REFUSE" =>
           /\ pc[r] \in {"account", "ticket"} => eventRows[r] = Lead(c)
           /\ LogsLeak(r) => eventRows[r] = IF pc[r] = "event" THEN <<>> ELSE Lead(c)
           /\ pc[r] \in {"calls", "count_case", "respond", "answered"} =>
                eventRows[r] = Logged(c, stored)
           /\ pc[r] = "count_call" => eventRows[r] = Logged(c, next[r] - 1)
           /\ LogsCall(r) =>
                eventRows[r] = Logged(c, IF pc[r] = "event" THEN next[r] - 1 ELSE next[r])

RequestInv(r) ==
  /\ DecisionExplains(r)
  /\ EventHasCause(r)
  /\ AnswerByPlace(r)
  /\ TicketByPlace(r)
  /\ CallsByPlace(r)
  /\ EventsByPlace(r)

\* The requests whose token source has been counted, at most and at least.
HasSource(r) ==
  outcome[r] # Pending /\ pc[r] \notin {"graph", "outbound", "account"} /\ ~LogsLeak(r)
NeedsSource(r) ==
  outcome[r] # Pending /\ (pc[r] = "ticket" \/ tickets[r] # NoRow)
Sourced       == {r \in Requests : HasSource(r)}
SourcedSurely == {r \in Requests : NeedsSource(r)}
CountingCall(s) == {r \in At("count_call") : case[r].log[next[r]].status = s}
CountingEvent(e) == {r \in At("count_event") : event[r] = e}
CountedCases(d) == {r \in At("respond") \cup At("answered") : case[r].decision = d}

CallsCounted ==
  \A s \in Statuses :
    /\ metrics.tools[s] + Cardinality(CountingCall(s)) <= Cardinality(ToolRowsWith(s))
    /\ crashes = 0 =>
         metrics.tools[s] + Cardinality(CountingCall(s)) = Cardinality(ToolRowsWith(s))
EventsCounted ==
  \A e \in EventTypes :
    /\ metrics.events[e] + Cardinality(CountingEvent(e)) <= Cardinality(EventRowsWith(e))
    /\ crashes = 0 =>
         metrics.events[e] + Cardinality(CountingEvent(e)) = Cardinality(EventRowsWith(e))
CasesCounted ==
  \A d \in Decisions :
    /\ metrics.cases[d] <= Cardinality(CountedCases(d))
    /\ crashes = 0 => metrics.cases[d] = Cardinality(CountedCases(d))
SourcesCounted ==
  /\ metrics.sources.provider + metrics.sources.estimated <= Cardinality(Sourced)
  /\ crashes = 0 =>
       metrics.sources.provider + metrics.sources.estimated >= Cardinality(SourcedSurely)

RequestsInv == \A r \in Requests : RequestInv(r)
Counted == CallsCounted /\ EventsCounted /\ CasesCounted /\ SourcesCounted

Inv == Types /\ RequestsInv /\ Counted

-----------------------------------------------------------------------------
(* What the steps know of the values they handle *)

\* A case has a log of bounded length, its ticket row is not the missing one,
\* and its texts are texts.
LEMMA CaseFacts ==
  ASSUME NEW c \in Cases
  PROVE  /\ c.log \in Seq(CallRecords) /\ Len(c.log) \in 0..MaxPlan
         /\ c.decision \in Decisions \cup {"none"}
         /\ c.draft \in RedactedTexts /\ "pii" \notin c.draft
         /\ c.reason \in Reasons
         /\ TicketRow(c) # NoRow
<1>1. MaxPlan \in Nat
  BY VocabularyAssumption
<1>2. c.log \in SeqsUpTo(CallRecords, MaxPlan)
  BY DEF Cases
<1>3. c.log \in Seq(CallRecords) /\ Len(c.log) <= MaxPlan
  BY <1>1, <1>2, BoundedSequences DEF SeqsUpTo
<1>4. c.draft \in RedactedTexts /\ c.reason \in Reasons /\ c.decision \in Decisions \cup {"none"}
  BY DEF Cases
<1>5. "pii" \notin c.draft
  BY <1>4 DEF RedactedTexts, TextsMarked, NoText
<1>6. TicketRow(c) # NoRow
  BY <1>4 DEF TicketRow, NoRow, Decisions
<1> QED  BY <1>1, <1>3, <1>4, <1>5, <1>6

\* The slice of the plan is never longer than the plan.
LEMMA LogsAreBounded == Logs(Setting) \subseteq SeqsUpTo(CallRecords, MaxPlan)
<1>1. /\ MaxPlan \in Nat
      /\ Setting \in [max_review_iterations : Int, max_tool_rounds : Int, recursion_limit : Nat]
  BY VocabularyAssumption, ServiceAssumption
<1>2. RoundsKept(Setting, MaxPlan) \in 0..MaxPlan
  BY <1>1 DEF RoundsKept
<1> QED  BY <1>1, <1>2 DEF Logs, SeqsUpTo

\* Words alone are a text.
LEMMA WordsAreText ==
  /\ {"words"} \in Texts /\ {"words"} \in RedactedTexts
  /\ NoText \in Texts /\ NoText \in RedactedTexts
  /\ NoText \in TextsMarked(Marks \ {"leak"})
<1>1. {"words"} = {"words"} \cup {} /\ \A S : {} \in SUBSET S
  OBVIOUS
<1> QED  BY <1>1 DEF Texts, RedactedTexts, TextsMarked

\* What graph.invoke yields is a decided case, with a reason that is none of
\* the service's own, or an exception.
LEMMA OutcomeFacts ==
  ASSUME NEW o \in Outcomes(Setting)
  PROVE  /\ o # Pending
         /\ o.status = "returned" =>
              /\ o.decision \in {"RESOLVED", "ESCALATE"}
              /\ o.reason \in Reasons /\ o.reason.kind \in {"none", "not_approved"}
              /\ o.iterations \in Nat
              /\ o.draft \in RedactedTexts
              /\ o.log \in SeqsUpTo(CallRecords, MaxPlan)
<1>1. Setting \in [max_review_iterations : Int, max_tool_rounds : Int, recursion_limit : Nat]
  BY VocabularyAssumption, ServiceAssumption
<1>2. Passes(Setting) \in Nat \ {0}
  BY <1>1 DEF Passes
<1>3. CASE o \in Resolved(Setting)
  <2>1. NoReason \in Reasons /\ NoReason.kind = "none"
    BY WordsAreText DEF NoReason, Reasons
  <2>2. 1..Passes(Setting) \subseteq Nat
    BY <1>2
  <2> QED  BY <1>3, <2>1, <2>2, LogsAreBounded DEF Resolved, Pending
<1>4. CASE o \in Escalated(Setting)
  <2>1. \A text \in Texts : /\ NotApproved(Passes(Setting), text) \in Reasons
                            /\ NotApproved(Passes(Setting), text).kind = "not_approved"
    BY <1>2 DEF NotApproved, Reasons
  <2> QED  BY <1>2, <1>4, <2>1, LogsAreBounded DEF Escalated, Pending
<1>5. CASE o \in Raised(Setting)
  <2>1. PICK log \in Logs(Setting) : o = [Pending EXCEPT !.status = "raised", !.log = log]
    BY <1>5 DEF Raised
  <2>2. o.status = "raised" /\ Pending.status = "pending"
    BY <2>1 DEF Pending
  <2> QED  BY <2>2
<1> QED  BY <1>3, <1>4, <1>5 DEF Outcomes

\* The events of one more call.
LEMMA LoggedFacts ==
  ASSUME NEW c \in Cases
  PROVE  /\ Logged(c, 0) = Lead(c)
         /\ \A n \in 0..Len(c.log) :
              /\ Logged(c, n) \in Seq(EventTypes)
              /\ Len(Logged(c, n)) <= n + 1
         /\ \A n \in 1..Len(c.log) :
              Logged(c, n) = IF c.log[n].status \in Guarded
                             THEN Append(Logged(c, n - 1), GuardrailEvent[c.log[n].status])
                             ELSE Logged(c, n - 1)
<1> DEFINE E(n) == ToolEvents(SubSeq(c.log, 1, n))
           lead == Lead(c)
<1>1. c.log \in Seq(CallRecords) /\ Len(c.log) \in Nat
  BY CaseFacts
<1>2. ToolEventTypes \subseteq EventTypes
  BY DEF ToolEventTypes, EventTypes, GuardrailEvent, Guarded
<1>3. /\ E(0) = <<>>
      /\ \A n \in 0..Len(c.log) : /\ E(n) \in Seq(ToolEventTypes)
                                  /\ E(n) \in Seq(EventTypes)
                                  /\ Len(E(n)) <= n
                                  /\ n < Len(c.log) => E(n + 1) = WithEventOf(c.log[n + 1], E(n))
  BY <1>1, <1>2, ToolEventsByCall, ToolEventsPrefix
<1>4. lead \in Seq(EventTypes) /\ Len(lead) <= 1
  <2>1. CASE c.reason.kind = "outbound_leak"
    BY <2>1 DEF Lead, EventTypes
  <2>2. CASE c.reason.kind # "outbound_leak"
    BY <2>2 DEF Lead, EventTypes
  <2> QED  BY <2>1, <2>2
<1> HIDE DEF E, lead
<1>5. \A n : Logged(c, n) = lead \o E(n)
  BY DEF Logged, E, lead
<1>6. ASSUME NEW n \in 0..Len(c.log)
      PROVE  Logged(c, n) \in Seq(EventTypes) /\ Len(Logged(c, n)) <= n + 1
  <2>1. E(n) \in Seq(EventTypes) /\ Len(E(n)) <= n /\ Len(E(n)) \in Nat /\ Len(lead) \in Nat
    BY <1>3, <1>4
  <2>2. lead \o E(n) \in Seq(EventTypes) /\ Len(lead \o E(n)) = Len(lead) + Len(E(n))
    BY <1>4, <2>1
  <2>3. Logged(c, n) = lead \o E(n)
    BY <1>5
  <2>4. n \in Nat
    BY <1>1
  <2> QED  BY <1>4, <2>1, <2>2, <2>3, <2>4
<1>7. ASSUME NEW n \in 1..Len(c.log)
      PROVE  Logged(c, n) = IF c.log[n].status \in Guarded
                            THEN Append(Logged(c, n - 1), GuardrailEvent[c.log[n].status])
                            ELSE Logged(c, n - 1)
  <2>1. n - 1 \in 0..Len(c.log) /\ n - 1 < Len(c.log) /\ (n - 1) + 1 = n
    BY <1>1
  <2>2. E(n) = WithEventOf(c.log[n], E(n - 1)) /\ E(n - 1) \in Seq(EventTypes)
    BY <1>3, <2>1
  <2>3. ASSUME NEW e \in EventTypes
        PROVE  lead \o Append(E(n - 1), e) = Append(lead \o E(n - 1), e)
    BY <1>4, <2>2
  <2>4. CASE c.log[n].status \in Guarded
    <3>1. GuardrailEvent[c.log[n].status] \in EventTypes
      BY <1>2, <2>4 DEF ToolEventTypes
    <3> QED  BY <1>5, <2>2, <2>3, <2>4, <3>1 DEF WithEventOf
  <2>5. CASE c.log[n].status \notin Guarded
    BY <1>5, <2>2, <2>5 DEF WithEventOf
  <2> QED  BY <2>4, <2>5
<1>8. Logged(c, 0) = lead
  BY <1>3, <1>4, <1>5
<1> QED  BY <1>6, <1>7, <1>8 DEF lead

-----------------------------------------------------------------------------
(* Steps of one request *)

\* Nothing of a request changes.
Same(q) ==
  /\ pc'[q] = pc[q] /\ case'[q] = case[q] /\ outcome'[q] = outcome[q]
  /\ next'[q] = next[q] /\ event'[q] = event[q] /\ response'[q] = response[q]
  /\ tickets'[q] = tickets[q] /\ toolRows'[q] = toolRows[q] /\ eventRows'[q] = eventRows[q]
Others(r) == \A q \in Requests \ {r} : Same(q)

\* A request's invariant is about its own rows and variables only.
LEMMA SameKeepsInv ==
  ASSUME NEW q \in Requests, RequestInv(q), Same(q)
  PROVE  RequestInv(q)'
  BY DEF Same, RequestInv, DecisionExplains, EventHasCause, AnswerByPlace, TicketByPlace,
         CallsByPlace, EventsByPlace, EventsTrail, LogsLeak, LogsCall

\* The initial states satisfy the invariant.
LEMMA InitTypes == Init => Types /\ RequestsInv
<1> SUFFICES ASSUME Init PROVE Types /\ RequestsInv
  OBVIOUS
<1>1. Initial(NoText) \in Cases
  <2>1. MaxPlan \in Nat /\ <<>> \in Seq(CallRecords) /\ Len(<<>>) = 0
    BY VocabularyAssumption
  <2>2. <<>> \in SeqsUpTo(CallRecords, MaxPlan)
    BY <2>1, BoundedSequences DEF SeqsUpTo
  <2> QED  BY <2>2, WordsAreText DEF Initial, Cases, Reasons, NoReason
<1>2. Types
  BY <1>1, ServiceAssumption
  DEF Init, Types, Places, NoMetrics, Counters, Logging, Yields, Answers, Rows
<1>3. ASSUME NEW r \in Requests PROVE RequestInv(r)
  <2>1. /\ pc[r] = "idle" /\ case[r] = Initial(NoText) /\ outcome[r] = Pending /\ next[r] = 1
        /\ event[r] = "none" /\ response[r] = NoResponse /\ tickets[r] = NoRow
        /\ toolRows[r] = <<>> /\ eventRows[r] = <<>>
    BY DEF Init
  <2>2. SubSeq(<<>>, 1, 0) = <<>>
    OBVIOUS
  <2> QED
    BY <2>1, <2>2 DEF RequestInv, DecisionExplains, EventHasCause, AnswerByPlace, TicketByPlace,
         CallsByPlace, EventsByPlace, EventsTrail, LogsLeak, LogsCall, Initial, NoReason, NoText,
         Stored
<1> QED  BY <1>2, <1>3 DEF RequestsInv

\* A step of one request keeps the others' invariant.
LEMMA OthersKeepInv ==
  ASSUME RequestsInv, NEW r \in Requests, RequestInv(r)', Others(r)
  PROVE  RequestsInv'
<1> SUFFICES ASSUME NEW q \in Requests PROVE RequestInv(q)'
  BY DEF RequestsInv
<1>1. CASE q = r
  BY <1>1
<1>2. CASE q # r
  <2>1. RequestInv(q) /\ Same(q)
    BY <1>2 DEF RequestsInv, Others
  <2> QED  BY <2>1, SameKeepsInv
<1> QED  BY <1>1, <1>2

\* The places and the kinds of event a step may name.
LEMMA Names ==
  /\ {"idle", "graph", "outbound", "account", "ticket", "calls", "count_call", "event",
      "count_event", "count_case", "respond", "answered", "failed", "lost"} = Places
  /\ EventTypes \subseteq Logging
  /\ ToolEventTypes = {"tool_blocked", "tool_output_sanitized"}
  /\ "injection_refused" \in EventTypes /\ "outbound_leak_blocked" \in EventTypes
  /\ ToolEventTypes \subseteq EventTypes
  BY DEF Places, Finished, Logging, EventTypes, ToolEventTypes, GuardrailEvent, Guarded

\* Before the outbound guard nothing is stored, counted or answered.
LEMMA BeforeOutbound ==
  ASSUME Types, RequestsInv, NEW r \in Requests, pc[r] \in {"idle", "graph", "outbound"}
  PROVE  /\ case[r] \in Cases /\ RequestInv(r)
         /\ tickets[r] = NoRow /\ toolRows[r] = <<>> /\ eventRows[r] = <<>>
         /\ next[r] = 1 /\ response[r] = NoResponse
         /\ pc[r] # "outbound" => /\ case[r] = Initial(case[r].body)
                                 /\ outcome[r] = Pending /\ "signal" \notin case[r].body
         /\ pc[r] = "outbound" => /\ case[r].decision \in {"RESOLVED", "ESCALATE"}
                                 /\ case[r].reason.kind # "outbound_leak"
<1>1. case[r] \in Cases /\ case[r].decision \in Decisions \cup {"none"} /\ next[r] \in Nat
  BY CaseFacts DEF Types
<1>2. RequestInv(r)
  BY DEF RequestsInv
<1>3. tickets[r] = NoRow /\ response[r] = NoResponse /\ toolRows[r] = <<>> /\ eventRows[r] = <<>>
  BY <1>2 DEF RequestInv, TicketByPlace, AnswerByPlace, CallsByPlace, EventsByPlace, Unstored
<1>4. next[r] = 1
  <2>1. Len(toolRows[r]) = next[r] - 1
    BY <1>2 DEF RequestInv, CallsByPlace, LogsCall
  <2> QED  BY <1>1, <1>3, <2>1
<1>5. /\ pc[r] # "outbound" => /\ case[r] = Initial(case[r].body)
                              /\ outcome[r] = Pending /\ "signal" \notin case[r].body
      /\ pc[r] = "outbound" => /\ case[r].decision \in {"RESOLVED", "ESCALATE"}
                              /\ case[r].reason.kind # "outbound_leak"
  BY <1>1, <1>2 DEF RequestInv, DecisionExplains, Decisions
<1> QED  BY <1>1, <1>2, <1>3, <1>4, <1>5

\* redact_pii keeps an inbound text a text, without its PII (pii.py:63-71).
LEMMA RedactedBody ==
  ASSUME NEW text \in Tickets
  PROVE  /\ RedactPii(text) \in TextsMarked(Marks \ {"leak"})
         /\ "pii" \notin RedactPii(text)
<1>1. PICK m \in SUBSET (Marks \ {"leak"}) : text = {"words"} \cup m
  BY DEF Tickets, TextsMarked
<1>2. RedactPii(text) = {"words"} \cup (m \ {"pii"}) /\ m \ {"pii"} \in SUBSET (Marks \ {"leak"})
  BY <1>1 DEF RedactPii
<1> QED  BY <1>1, <1>2 DEF TextsMarked

\* An admitted and a refused case are cases.
LEMMA NewCases ==
  ASSUME NEW body \in TextsMarked(Marks \ {"leak"})
  PROVE  Initial(body) \in Cases /\ Refusal(body) \in Cases
<1>1. MaxPlan \in Nat /\ <<>> \in Seq(CallRecords) /\ Len(<<>>) = 0
  BY VocabularyAssumption
<1>2. <<>> \in SeqsUpTo(CallRecords, MaxPlan)
  BY SMTT(20), <1>1, BoundedSequences DEF SeqsUpTo
<1>3. Initial(body) \in Cases
  BY <1>2, WordsAreText DEF Initial, Cases, Reasons, NoReason
<1>4. Because("refused") \in Reasons
  BY WordsAreText DEF Because, Reasons
<1> QED  BY <1>3, <1>4 DEF Refusal, Cases, Decisions

\* A request arrives and is refused or admitted (service.py:86-117).
LEMMA ReceiveInv ==
  ASSUME Types, RequestsInv, NEW r \in Requests, Receive(r)
  PROVE  Types' /\ RequestsInv'
<1>1. PICK text \in Tickets :
        LET body == RedactPii(text)
        IN  IF DetectInjection(body)
            THEN Goto(r, "idle", "ticket") /\ case' = [case EXCEPT ![r] = Refusal(body)]
            ELSE Goto(r, "idle", "graph")  /\ case' = [case EXCEPT ![r] = Initial(body)]
  BY DEF Receive
<1> DEFINE body == RedactPii(text)
<1>2. body \in TextsMarked(Marks \ {"leak"}) /\ "pii" \notin body
  BY RedactedBody
<1>3. Initial(body) \in Cases /\ Refusal(body) \in Cases
  BY <1>2, NewCases
<1>4. PICK to \in Places, c \in Cases :
        /\ pc[r] = "idle" /\ pc' = [pc EXCEPT ![r] = to] /\ case' = [case EXCEPT ![r] = c]
        /\ \/ "signal" \in body /\ to = "ticket" /\ c = Refusal(body)
           \/ "signal" \notin body /\ to = "graph" /\ c = Initial(body)
  BY <1>1, <1>3, Names DEF Goto, DetectInjection
<1> HIDE DEF body
<1>5. UNCHANGED <<outcome, next, event, response, tickets, toolRows, eventRows, metrics, crashes>>
  BY <1>1 DEF Receive, Goto, tables
<1>6. Types' /\ Others(r) /\ pc'[r] = to /\ case'[r] = c
  BY <1>4, <1>5 DEF Types, Others, Same
<1>7. /\ tickets[r] = NoRow /\ toolRows[r] = <<>> /\ eventRows[r] = <<>>
      /\ next[r] = 1 /\ response[r] = NoResponse /\ outcome[r] = Pending
  BY <1>4, BeforeOutbound
<1>8. /\ c.log = <<>> /\ c.body = body /\ c.reason.kind # "outbound_leak" /\ c.draft = NoText
      /\ to = "ticket" => c.decision = "REFUSE"
      /\ to = "graph" => c.decision = "none"
  <2>1. /\ Initial(body).log = <<>> /\ Initial(body).body = body /\ Initial(body).draft = NoText
        /\ Initial(body).decision = "none" /\ Initial(body).reason.kind = "none"
    BY DEF Initial, NoReason
  <2>2. /\ Refusal(body).log = <<>> /\ Refusal(body).body = body /\ Refusal(body).draft = NoText
        /\ Refusal(body).decision = "REFUSE" /\ Refusal(body).reason.kind = "refused"
    BY <2>1 DEF Refusal, Initial, Because
  <2> QED  BY <1>4, <2>1, <2>2
<1>9. RequestInv(r)'
  <2>1. DecisionExplains(r)'
    BY <1>2, <1>4, <1>5, <1>6, <1>7, <1>8 DEF DecisionExplains
  <2>2. EventHasCause(r)' /\ AnswerByPlace(r)' /\ TicketByPlace(r)'
    BY <1>4, <1>5, <1>6, <1>7
    DEF EventHasCause, AnswerByPlace, TicketByPlace, LogsLeak, Unstored, Stored
  <2>3. CallsByPlace(r)'
    <3>1. SubSeq(<<>>, 1, 0) = <<>> /\ Len(<<>>) = 0
      OBVIOUS
    <3> QED  BY <1>4, <1>5, <1>6, <1>7, <1>8, <3>1 DEF CallsByPlace, LogsCall
  <2>4. EventsByPlace(r)'
    BY <1>4, <1>5, <1>6, <1>7, <1>8
    DEF EventsByPlace, EventsTrail, LogsLeak, LogsCall, Lead
  <2> QED  BY <2>1, <2>2, <2>3, <2>4 DEF RequestInv
<1> QED  BY <1>6, <1>9, OthersKeepInv

\* graph.invoke returns a decided case or raises (service.py:120-152).
LEMMA InvokeGraphInv ==
  ASSUME Types, RequestsInv, NEW r \in Requests, InvokeGraph(r)
  PROVE  Types' /\ RequestsInv'
<1>1. PICK o \in Outcomes(Setting) : /\ outcome' = [outcome EXCEPT ![r] = o]
                                     /\ case' = [case EXCEPT ![r] = Final(@, o)]
  BY DEF InvokeGraph
<1> DEFINE c == Final(case[r], o)
<1>2. /\ UNCHANGED <<next, event, response, tickets, toolRows, eventRows, metrics, crashes>>
      /\ pc[r] = "graph" /\ pc' = [pc EXCEPT ![r] = "outbound"]
  BY DEF InvokeGraph, Goto, tables
<1>3. /\ case[r] \in Cases
      /\ case[r] = Initial(case[r].body) /\ "signal" \notin case[r].body
      /\ tickets[r] = NoRow /\ toolRows[r] = <<>> /\ eventRows[r] = <<>>
      /\ next[r] = 1 /\ response[r] = NoResponse
      /\ "pii" \notin case[r].body
  BY <1>2, BeforeOutbound DEF RequestInv, DecisionExplains
<1>4. o # Pending /\ o \in Yields
  BY OutcomeFacts DEF Yields
<1>5. /\ c \in Cases /\ c.body = case[r].body /\ c.decision \in {"RESOLVED", "ESCALATE"}
      /\ c.reason.kind # "outbound_leak"
  <2>1. CASE o.status = "returned"
    BY <1>3, <2>1, OutcomeFacts DEF Final, Cases, Decisions
  <2>2. CASE o.status # "returned"
    <3>1. Because("graph_error") \in Reasons /\ Because("graph_error").kind = "graph_error"
      BY WordsAreText DEF Because, Reasons
    <3>2. c = [case[r] EXCEPT !.decision = "ESCALATE", !.reason = Because("graph_error")]
      BY <2>2 DEF Final
    <3> HIDE DEF c
    <3> QED  BY <1>3, <3>1, <3>2 DEF Cases, Decisions
  <2> QED  BY <2>1, <2>2
<1>6. case' = [case EXCEPT ![r] = c]
  BY <1>1
<1> HIDE DEF c
<1>7. Types' /\ Others(r) /\ pc'[r] = "outbound" /\ case'[r] = c /\ outcome'[r] = o
  BY <1>1, <1>2, <1>4, <1>5, <1>6, Names DEF Types, Others, Same
<1>8. RequestInv(r)'
  <2>1. DecisionExplains(r)'
    BY <1>2, <1>3, <1>4, <1>5, <1>7 DEF DecisionExplains
  <2>2. EventHasCause(r)' /\ AnswerByPlace(r)' /\ TicketByPlace(r)'
    BY <1>2, <1>3, <1>7
    DEF EventHasCause, AnswerByPlace, TicketByPlace, LogsLeak, Unstored, Stored
  <2>3. CallsByPlace(r)'
    <3>1. SubSeq(c.log, 1, 0) = <<>> /\ Len(<<>>) = 0 /\ Len(c.log) \in Nat
      BY <1>5, CaseFacts
    <3> QED  BY <1>2, <1>3, <1>7, <3>1 DEF CallsByPlace, LogsCall
  <2>4. EventsByPlace(r)'
    BY <1>2, <1>3, <1>5, <1>7
    DEF EventsByPlace, EventsTrail, LogsLeak, LogsCall
  <2> QED  BY <2>1, <2>2, <2>3, <2>4 DEF RequestInv
<1> QED  BY <1>7, <1>8, OthersKeepInv

\* The reply is redacted and a resolved one that leaks is withheld
\* (service.py:155-172).
LEMMA GuardOutboundInv ==
  ASSUME Types, RequestsInv, NEW r \in Requests, GuardOutbound(r)
  PROVE  Types' /\ RequestsInv'
<1> DEFINE reply == RedactPii(case[r].draft)
<1>1. /\ UNCHANGED <<outcome, next, response, tickets, toolRows, eventRows, metrics, crashes>>
      /\ pc[r] = "outbound"
  BY DEF GuardOutbound, Goto, tables
<1>2. /\ case[r] \in Cases /\ RequestInv(r)
      /\ case[r].decision \in {"RESOLVED", "ESCALATE"} /\ case[r].reason.kind # "outbound_leak"
      /\ tickets[r] = NoRow /\ toolRows[r] = <<>> /\ eventRows[r] = <<>>
      /\ next[r] = 1 /\ response[r] = NoResponse
  BY <1>1, BeforeOutbound
<1>3. reply = case[r].draft /\ case[r].log \in Seq(CallRecords) /\ Len(case[r].log) \in Nat
  BY <1>2, CaseFacts DEF RedactPii
<1>4. \/ /\ DetectPromptLeak(reply) /\ case[r].decision = "RESOLVED"
         /\ pc' = [pc EXCEPT ![r] = "event"]
         /\ event' = [event EXCEPT ![r] = "outbound_leak_blocked"]
         /\ case' = [case EXCEPT ![r] = Withheld(@)]
      \/ /\ ~(DetectPromptLeak(reply) /\ case[r].decision = "RESOLVED")
         /\ pc' = [pc EXCEPT ![r] = "account"]
         /\ case' = case
         /\ UNCHANGED event
  <2>1. [case EXCEPT ![r].decision = case[r].decision, ![r].draft = reply] = case
    BY <1>2, <1>3 DEF Types, Cases
  <2>2. (IF case[r].decision = "none" THEN "ESCALATE" ELSE case[r].decision) = case[r].decision
    BY <1>2
  <2> HIDE DEF reply
  <2> QED  BY <1>2, <2>1, <2>2 DEF GuardOutbound, Goto, LogEvent, reply
<1>5. /\ Withheld(case[r]) \in Cases
      /\ Withheld(case[r]).body = case[r].body /\ Withheld(case[r]).decision = "ESCALATE"
      /\ Withheld(case[r]).reason.kind = "outbound_leak" /\ Withheld(case[r]).draft = NoText
      /\ Withheld(case[r]).log = case[r].log
  <2>1. Because("outbound_leak") \in Reasons /\ Because("outbound_leak").kind = "outbound_leak"
    BY WordsAreText DEF Because, Reasons
  <2> QED  BY <1>2, <2>1, WordsAreText DEF Withheld, Cases, Decisions
<1>6. PICK to \in Places, c \in Cases, e \in Logging :
        /\ pc' = [pc EXCEPT ![r] = to] /\ case' = [case EXCEPT ![r] = c]
        /\ event' = [event EXCEPT ![r] = e]
        /\ \/ to = "event" /\ c = Withheld(case[r]) /\ e = "outbound_leak_blocked"
           \/ /\ to = "account" /\ c = case[r]
              /\ c.decision = "RESOLVED" => ~DetectPromptLeak(c.draft)
  <2>1. case = [case EXCEPT ![r] = case[r]] /\ event = [event EXCEPT ![r] = event[r]]
        /\ event[r] \in Logging
    BY DEF Types
  <2>2. CASE pc' = [pc EXCEPT ![r] = "event"] /\ event' = [event EXCEPT ![r] = "outbound_leak_blocked"]
             /\ case' = [case EXCEPT ![r] = Withheld(@)]
    BY <1>5, <2>2, Names
  <2>3. CASE ~(DetectPromptLeak(reply) /\ case[r].decision = "RESOLVED")
             /\ pc' = [pc EXCEPT ![r] = "account"] /\ case' = case /\ event' = event
    BY <1>2, <1>3, <2>1, <2>3, Names
  <2> QED  BY <1>4, <2>2, <2>3
<1>7. Types' /\ Others(r) /\ pc'[r] = to /\ case'[r] = c /\ event'[r] = e
  BY <1>1, <1>6 DEF Types, Others, Same
<1>8. RequestInv(r)'
  <2>1. DecisionExplains(r)'
    BY <1>1, <1>2, <1>5, <1>6, <1>7 DEF RequestInv, DecisionExplains
  <2>2. EventHasCause(r)' /\ AnswerByPlace(r)' /\ TicketByPlace(r)'
    BY <1>1, <1>2, <1>5, <1>6, <1>7
    DEF EventHasCause, AnswerByPlace, TicketByPlace, LogsLeak, Unstored, Stored
  <2>3. CallsByPlace(r)'
    <3>1. SubSeq(c.log, 1, 0) = <<>> /\ Len(<<>>) = 0 /\ Len(c.log) \in Nat
      BY <1>6, CaseFacts
    <3> QED  BY <1>1, <1>2, <1>6, <1>7, <3>1, Names DEF CallsByPlace, LogsCall
  <2>4. EventsByPlace(r)'
    BY <1>1, <1>2, <1>5, <1>6, <1>7, Names
    DEF EventsByPlace, EventsTrail, LogsLeak, LogsCall, Lead
  <2> QED  BY <2>1, <2>2, <2>3, <2>4 DEF RequestInv
<1> QED  BY <1>7, <1>8, OthersKeepInv

Bumped(counter, label) ==
  /\ Bump(counter, label) \in Counters
  /\ Bump(counter, label)[counter] = [metrics[counter] EXCEPT ![label] = @ + 1]
  /\ \A other \in {"cases", "tools", "events", "sources"} \ {counter} :
       Bump(counter, label)[other] = metrics[other]

\* Bumping a counter adds one to it and leaves the others alone (metrics.py:58-92).
LEMMA BumpFacts ==
  ASSUME metrics \in Counters
  PROVE  /\ \A l \in Decisions  : Bumped("cases", l)
         /\ \A l \in Statuses   : Bumped("tools", l)
         /\ \A l \in EventTypes : Bumped("events", l)
         /\ \A l \in Sources    : Bumped("sources", l)
<1>1. ASSUME NEW l \in Decisions
      PROVE  Bumped("cases", l)
  <2> DEFINE bumped == [metrics.cases EXCEPT ![l] = @ + 1]
  <2>1. bumped \in [Decisions -> Nat]
    BY DEF Counters
  <2>2. Bump("cases", l) = [metrics EXCEPT !.cases = bumped]
    BY DEF Bump
  <2> HIDE DEF bumped
  <2>3. [metrics EXCEPT !.cases = bumped] \in Counters
    BY <2>1 DEF Counters
  <2>4. /\ [metrics EXCEPT !.cases = bumped].cases = bumped
        /\ [metrics EXCEPT !.cases = bumped].tools = metrics.tools
        /\ [metrics EXCEPT !.cases = bumped].events = metrics.events
        /\ [metrics EXCEPT !.cases = bumped].sources = metrics.sources
    BY DEF Counters
  <2> QED  BY <2>2, <2>3, <2>4 DEF bumped, Bumped
<1>2. ASSUME NEW l \in Statuses
      PROVE  Bumped("tools", l)
  <2> DEFINE bumped == [metrics.tools EXCEPT ![l] = @ + 1]
  <2>1. bumped \in [Statuses -> Nat]
    BY DEF Counters
  <2>2. Bump("tools", l) = [metrics EXCEPT !.tools = bumped]
    BY DEF Bump
  <2> HIDE DEF bumped
  <2>3. [metrics EXCEPT !.tools = bumped] \in Counters
    BY <2>1 DEF Counters
  <2>4. /\ [metrics EXCEPT !.tools = bumped].tools = bumped
        /\ [metrics EXCEPT !.tools = bumped].cases = metrics.cases
        /\ [metrics EXCEPT !.tools = bumped].events = metrics.events
        /\ [metrics EXCEPT !.tools = bumped].sources = metrics.sources
    BY DEF Counters
  <2> QED  BY <2>2, <2>3, <2>4 DEF bumped, Bumped
<1>3. ASSUME NEW l \in EventTypes
      PROVE  Bumped("events", l)
  <2> DEFINE bumped == [metrics.events EXCEPT ![l] = @ + 1]
  <2>1. bumped \in [EventTypes -> Nat]
    BY DEF Counters
  <2>2. Bump("events", l) = [metrics EXCEPT !.events = bumped]
    BY DEF Bump
  <2> HIDE DEF bumped
  <2>3. [metrics EXCEPT !.events = bumped] \in Counters
    BY <2>1 DEF Counters
  <2>4. /\ [metrics EXCEPT !.events = bumped].events = bumped
        /\ [metrics EXCEPT !.events = bumped].cases = metrics.cases
        /\ [metrics EXCEPT !.events = bumped].tools = metrics.tools
        /\ [metrics EXCEPT !.events = bumped].sources = metrics.sources
    BY DEF Counters
  <2> QED  BY <2>2, <2>3, <2>4 DEF bumped, Bumped
<1>4. ASSUME NEW l \in Sources
      PROVE  Bumped("sources", l)
  <2> DEFINE bumped == [metrics.sources EXCEPT ![l] = @ + 1]
  <2>1. bumped \in [Sources -> Nat]
    BY DEF Counters
  <2>2. Bump("sources", l) = [metrics EXCEPT !.sources = bumped]
    BY DEF Bump
  <2> HIDE DEF bumped
  <2>3. [metrics EXCEPT !.sources = bumped] \in Counters
    BY <2>1 DEF Counters
  <2>4. /\ [metrics EXCEPT !.sources = bumped].sources = bumped
        /\ [metrics EXCEPT !.sources = bumped].cases = metrics.cases
        /\ [metrics EXCEPT !.sources = bumped].tools = metrics.tools
        /\ [metrics EXCEPT !.sources = bumped].events = metrics.events
    BY DEF Counters
  <2> QED  BY <2>2, <2>3, <2>4 DEF bumped, Bumped
<1> QED  BY <1>1, <1>2, <1>3, <1>4

\* The token source is counted (service.py:178-182).
LEMMA AccountInv ==
  ASSUME Types, RequestsInv, NEW r \in Requests, Account(r)
  PROVE  Types' /\ RequestsInv'
<1>1. /\ UNCHANGED <<case, outcome, next, event, response, tickets, toolRows, eventRows, crashes>>
      /\ pc[r] = "account" /\ pc' = [pc EXCEPT ![r] = "ticket"]
  BY DEF Account, Goto, tables
<1>2. metrics' \in Counters
  <2>1. PICK source \in Sources : metrics' = Bump("sources", source)
    BY DEF Account
  <2> QED  BY <2>1, BumpFacts DEF Types, Bumped
<1>3. Types' /\ Others(r) /\ pc'[r] = "ticket"
  BY <1>1, <1>2, Names DEF Types, Others, Same
<1>4. RequestInv(r)
  BY DEF RequestsInv
<1>5. RequestInv(r)'
  BY <1>1, <1>3, <1>4
  DEF RequestInv, DecisionExplains, EventHasCause, AnswerByPlace, TicketByPlace,
      CallsByPlace, EventsByPlace, EventsTrail, LogsLeak, LogsCall, Unstored, Stored
<1> QED  BY <1>3, <1>5, OthersKeepInv

\* The ticket row is committed (repo.py:20-47).
LEMMA InsertTicketInv ==
  ASSUME Types, RequestsInv, NEW r \in Requests, InsertTicket(r)
  PROVE  Types' /\ RequestsInv'
<1>1. /\ UNCHANGED <<case, outcome, next, event, response, toolRows, eventRows, metrics, crashes>>
      /\ pc[r] = "ticket" /\ pc' = [pc EXCEPT ![r] = "calls"]
      /\ tickets' = [tickets EXCEPT ![r] = TicketRow(case[r])]
  BY DEF InsertTicket, Goto
<1>2. case[r] \in Cases /\ TicketRow(case[r]) \in Rows /\ next[r] \in Nat
  BY DEF Types, Rows
<1>3. Types' /\ Others(r) /\ pc'[r] = "calls" /\ tickets'[r] = TicketRow(case[r])
  BY <1>1, <1>2, Names DEF Types, Others, Same
<1>4. /\ RequestInv(r) /\ tickets[r] = NoRow /\ toolRows[r] = <<>>
  BY <1>1 DEF RequestsInv, RequestInv, TicketByPlace, CallsByPlace, Unstored
<1>5. Logged(case[r], 0) = Lead(case[r]) /\ TicketRow(case[r]) # NoRow
  BY <1>2, LoggedFacts, CaseFacts
<1>6. RequestInv(r)'
  <2>1. DecisionExplains(r)'
    BY <1>1, <1>3, <1>4 DEF RequestInv, DecisionExplains
  <2>2. EventHasCause(r)' /\ AnswerByPlace(r)' /\ TicketByPlace(r)'
    BY <1>1, <1>3, <1>4
    DEF RequestInv, EventHasCause, AnswerByPlace, TicketByPlace, LogsLeak, Unstored, Stored
  <2>3. CallsByPlace(r)'
    BY <1>1, <1>3, <1>4, <1>5 DEF RequestInv, CallsByPlace, LogsCall
  <2>4. EventsByPlace(r)'
    <3>1. Len(<<>>) = 0
      OBVIOUS
    <3> QED
      BY <1>1, <1>3, <1>4, <1>5, <3>1
      DEF RequestInv, EventsByPlace, EventsTrail, LogsLeak, LogsCall
  <2> QED  BY <2>1, <2>2, <2>3, <2>4 DEF RequestInv
<1> QED  BY <1>3, <1>6, OthersKeepInv

\* The event of a call's status is its guardrail's, if it has one
\* (service.py:69-77).
LEMMA EventOfCall ==
  ASSUME NEW c \in Cases, NEW n \in 1..Len(c.log)
  PROVE  /\ c.log[n] \in CallRecords /\ c.log[n].status \in Statuses
         /\ c.log[n].status \in Guarded =>
              /\ EventOf(c.log[n].status) = GuardrailEvent[c.log[n].status]
              /\ EventOf(c.log[n].status) \in ToolEventTypes
         /\ c.log[n].status \notin Guarded => EventOf(c.log[n].status) = "none"
<1>1. c.log[n] \in CallRecords
  BY CaseFacts
<1>2. c.log[n].status \in Statuses
  BY <1>1 DEF CallRecords, Statuses
<1> QED  BY <1>1, <1>2 DEF EventOf, Guarded, GuardrailEvent, ToolEventTypes, Statuses

\* The row of the next call is committed (service.py:60-66, repo.py:50-67).
LEMMA InsertToolCallInv ==
  ASSUME Types, RequestsInv, NEW r \in Requests, InsertToolCall(r)
  PROVE  Types' /\ RequestsInv'
<1> DEFINE c == case[r]
           n == next[r]
<1>1. /\ UNCHANGED <<case, outcome, next, event, response, tickets, eventRows, metrics, crashes>>
      /\ pc[r] = "calls" /\ pc' = [pc EXCEPT ![r] = "count_call"]
      /\ n <= Len(c.log)
      /\ toolRows' = [toolRows EXCEPT ![r] = Append(@, c.log[n])]
  BY DEF InsertToolCall, Goto
<1>2. /\ c \in Cases /\ c.log \in Seq(CallRecords) /\ Len(c.log) \in Nat
      /\ n \in 1..Len(c.log) /\ c.log[n] \in CallRecords
  BY <1>1, CaseFacts, EventOfCall DEF Types
<1>3. /\ RequestInv(r) /\ Len(toolRows[r]) = n - 1 /\ toolRows[r] = SubSeq(c.log, 1, n - 1)
      /\ tickets[r] = TicketRow(c) /\ TicketRow(c) # NoRow
      /\ c.decision \notin {"REFUSE", "none"}
  <2>1. RequestInv(r)
    BY DEF RequestsInv
  <2>2. /\ Len(toolRows[r]) = n - 1 /\ toolRows[r] = SubSeq(c.log, 1, n - 1)
        /\ tickets[r] = TicketRow(c) /\ TicketRow(c) # NoRow
    BY <1>1, <1>2, <2>1, CaseFacts DEF RequestInv, CallsByPlace, TicketByPlace, LogsCall, Stored
  <2>3. c.decision \notin {"REFUSE", "none"}
    <3>1. Refusal(c.body).log = <<>> /\ Len(<<>>) = 0
      BY DEF Refusal, Initial
    <3> QED  BY <1>1, <1>2, <2>1, <3>1 DEF RequestInv, DecisionExplains
  <2> QED  BY <2>1, <2>2, <2>3
<1>4. /\ Append(toolRows[r], c.log[n]) = SubSeq(c.log, 1, n)
      /\ Append(toolRows[r], c.log[n]) \in Seq(CallRecords)
      /\ Len(Append(toolRows[r], c.log[n])) = n
      /\ n \in Nat
  <2>1. n - 1 \in 0..Len(c.log) /\ n - 1 < Len(c.log) /\ (n - 1) + 1 = n
    BY <1>2
  <2> QED  BY <1>2, <1>3, <2>1, FirstElements
<1>5. /\ Types' /\ Others(r) /\ pc'[r] = "count_call"
      /\ toolRows'[r] = Append(toolRows[r], c.log[n])
  BY <1>1, <1>4, Names DEF Types, Others, Same
<1>6. RequestInv(r)'
  <2>1. DecisionExplains(r)'
    BY <1>1, <1>3, <1>5 DEF RequestInv, DecisionExplains
  <2>2. EventHasCause(r)' /\ AnswerByPlace(r)' /\ TicketByPlace(r)'
    BY <1>1, <1>3, <1>5
    DEF RequestInv, EventHasCause, AnswerByPlace, TicketByPlace, LogsLeak, Unstored, Stored
  <2>3. CallsByPlace(r)'
    BY <1>1, <1>2, <1>3, <1>4, <1>5 DEF CallsByPlace, LogsCall
  <2>4. EventsByPlace(r)'
    <3>1. eventRows[r] = Logged(c, n - 1)
      BY <1>1, <1>3 DEF RequestInv, EventsByPlace
    <3>2. Logged(c, n) = IF c.log[n].status \in Guarded
                         THEN Append(Logged(c, n - 1), GuardrailEvent[c.log[n].status])
                         ELSE Logged(c, n - 1)
      BY <1>2, LoggedFacts
    <3>3. /\ pc'[r] = "count_call" /\ case'[r] = c /\ next'[r] = n /\ event'[r] = event[r]
          /\ tickets'[r] # NoRow /\ eventRows'[r] = Logged(c, n - 1)
          /\ Len(toolRows'[r]) = n /\ n > 0
      BY <1>1, <1>2, <1>3, <1>4, <1>5, <3>1
    <3> HIDE DEF c, n
    <3>4. EventsTrail(r)'
      <4>1. CASE c.log[n].status \in Guarded
        BY <1>3, <3>3, <4>1 DEF EventsTrail
      <4>2. CASE c.log[n].status \notin Guarded
        BY <1>3, <3>2, <3>3, <4>2 DEF EventsTrail
      <4> QED  BY <4>1, <4>2
    <3> QED  BY <1>3, <3>3, <3>4 DEF EventsByPlace, LogsLeak, LogsCall
  <2> QED  BY <2>1, <2>2, <2>3, <2>4 DEF RequestInv
<1> QED  BY <1>5, <1>6, OthersKeepInv

\* The call is counted; a guarded one has an event to log (service.py:67-77).
LEMMA CountToolCallInv ==
  ASSUME Types, RequestsInv, NEW r \in Requests, CountToolCall(r)
  PROVE  Types' /\ RequestsInv'
<1> DEFINE c == case[r]
           n == next[r]
<1>1. /\ UNCHANGED <<case, outcome, response, tickets, toolRows, eventRows, crashes>>
      /\ pc[r] = "count_call"
  BY DEF CountToolCall, Goto, tables
<1>2. /\ c \in Cases /\ c.log \in Seq(CallRecords) /\ Len(c.log) \in Nat /\ n \in Nat \ {0}
  BY CaseFacts DEF Types
<1>3. /\ RequestInv(r) /\ Len(toolRows[r]) = n /\ n \in 1..Len(c.log)
      /\ tickets[r] = TicketRow(c) /\ eventRows[r] = Logged(c, n - 1)
      /\ c.decision \notin {"REFUSE", "none"}
  <2>1. RequestInv(r)
    BY DEF RequestsInv
  <2>2. Len(toolRows[r]) = n /\ tickets[r] = TicketRow(c) /\ n \in 1..Len(c.log)
    BY <1>1, <1>2, <2>1 DEF RequestInv, CallsByPlace, TicketByPlace, LogsCall, Stored
  <2>3. c.decision \notin {"REFUSE", "none"}
    <3>1. Refusal(c.body).log = <<>> /\ Len(<<>>) = 0
      BY DEF Refusal, Initial
    <3> QED  BY <1>1, <1>2, <2>1, <2>2, <3>1 DEF RequestInv, DecisionExplains
  <2>4. eventRows[r] = Logged(c, n - 1)
    BY <1>1, <2>1, <2>3 DEF RequestInv, EventsByPlace
  <2> QED  BY <2>1, <2>2, <2>3, <2>4
<1>4. metrics' \in Counters
  BY <1>2, <1>3, EventOfCall, BumpFacts DEF CountToolCall, Types, Bumped
<1>5. CASE c.log[n].status \in Guarded
  <2>1. /\ UNCHANGED next /\ pc' = [pc EXCEPT ![r] = "event"]
        /\ event' = [event EXCEPT ![r] = GuardrailEvent[c.log[n].status]]
        /\ GuardrailEvent[c.log[n].status] \in ToolEventTypes
    <3>1. /\ EventOf(c.log[n].status) = GuardrailEvent[c.log[n].status]
          /\ EventOf(c.log[n].status) \in {"tool_blocked", "tool_output_sanitized"}
      BY <1>2, <1>3, <1>5, EventOfCall, Names
    <3> QED  BY <3>1, Names DEF CountToolCall, Goto, LogEvent
  <2>2. /\ Types' /\ Others(r) /\ pc'[r] = "event"
        /\ event'[r] = GuardrailEvent[c.log[n].status]
    BY <1>1, <1>4, <2>1, Names DEF Types, Others, Same
  <2>3. RequestInv(r)'
    <3>1. DecisionExplains(r)'
      BY <1>1, <1>3, <2>1, <2>2 DEF RequestInv, DecisionExplains
    <3>2. EventHasCause(r)' /\ AnswerByPlace(r)' /\ TicketByPlace(r)'
      <4>1. EventHasCause(r)'
        BY <1>1, <1>3, <1>5, <2>1, <2>2 DEF EventHasCause
      <4>2. response[r] = NoResponse
        BY <1>1, <1>3 DEF RequestInv, AnswerByPlace
      <4>3. AnswerByPlace(r)'
        BY <1>1, <2>2, <4>2 DEF AnswerByPlace
      <4>4. ~LogsLeak(r)'
        BY <2>1, <2>2, Names DEF LogsLeak
      <4>5. TicketByPlace(r)'
        BY <1>1, <1>3, <2>2, <4>4 DEF TicketByPlace, Unstored
      <4> QED  BY <4>1, <4>3, <4>5
    <3>3. CallsByPlace(r)'
      BY <1>1, <1>2, <1>3, <2>1, <2>2 DEF RequestInv, CallsByPlace, LogsCall
    <3>4. EventsByPlace(r)'
      <4>1. EventsTrail(r)'
        BY <1>1, <1>3, <2>1, <2>2 DEF RequestInv, EventsByPlace, EventsTrail
      <4>2. ~LogsLeak(r)'
        BY <2>1, <2>2, Names DEF LogsLeak
      <4> QED  BY <1>1, <1>3, <2>1, <2>2, <4>1, <4>2 DEF EventsByPlace, LogsCall
    <3> QED  BY <3>1, <3>2, <3>3, <3>4 DEF RequestInv
  <2> QED  BY <2>2, <2>3, OthersKeepInv
<1>6. CASE c.log[n].status \notin Guarded
  <2>1. /\ UNCHANGED event /\ pc' = [pc EXCEPT ![r] = "calls"]
        /\ next' = [next EXCEPT ![r] = n + 1]
    <3>1. EventOf(c.log[n].status) = "none"
      BY <1>2, <1>3, <1>6, EventOfCall
    <3> QED  BY <3>1 DEF CountToolCall, Goto
  <2>2. Types' /\ Others(r) /\ pc'[r] = "calls" /\ next'[r] = n + 1
    BY <1>1, <1>2, <1>4, <2>1, Names DEF Types, Others, Same
  <2>3. RequestInv(r)'
    <3>1. DecisionExplains(r)'
      BY <1>1, <1>3, <2>1, <2>2 DEF RequestInv, DecisionExplains
    <3>2. EventHasCause(r)' /\ AnswerByPlace(r)' /\ TicketByPlace(r)'
      BY <1>1, <1>3, <2>1, <2>2
      DEF RequestInv, EventHasCause, AnswerByPlace, TicketByPlace, LogsLeak, Unstored, Stored
    <3>3. CallsByPlace(r)'
      BY <1>1, <1>2, <1>3, <2>1, <2>2 DEF RequestInv, CallsByPlace, LogsCall
    <3>4. EventsByPlace(r)'
      <4>1. Logged(c, n) = Logged(c, n - 1)
        BY <1>2, <1>3, <1>6, LoggedFacts
      <4> QED
        BY <1>1, <1>2, <1>3, <2>1, <2>2, <4>1
        DEF RequestInv, EventsByPlace, EventsTrail, LogsLeak, LogsCall
    <3> QED  BY <3>1, <3>2, <3>3, <3>4 DEF RequestInv
  <2> QED  BY <2>2, <2>3, OthersKeepInv
<1> QED  BY <1>5, <1>6

\* _persist has stored every call; a refusal has one event more to log
\* (service.py:102-103, 197).
LEMMA CallsDoneInv ==
  ASSUME Types, RequestsInv, NEW r \in Requests, CallsDone(r)
  PROVE  Types' /\ RequestsInv'
<1> DEFINE c == case[r]
<1>1. /\ UNCHANGED <<case, outcome, next, response, tickets, toolRows, eventRows, metrics, crashes>>
      /\ pc[r] = "calls" /\ next[r] > Len(c.log)
  BY DEF CallsDone, Goto, tables
<1>2. /\ c \in Cases /\ c.log \in Seq(CallRecords) /\ Len(c.log) \in Nat /\ next[r] \in Nat \ {0}
  BY CaseFacts DEF Types
<1>3. /\ RequestInv(r) /\ Len(toolRows[r]) = next[r] - 1 /\ Len(toolRows[r]) = Len(c.log)
      /\ tickets[r] = TicketRow(c)
      /\ c.decision = "REFUSE" => eventRows[r] = <<>>
      /\ c.decision # "REFUSE" => eventRows[r] = Logged(c, Len(toolRows[r]))
  <2>1. RequestInv(r)
    BY DEF RequestsInv
  <2>2. /\ Len(toolRows[r]) = next[r] - 1 /\ Len(toolRows[r]) <= Len(c.log)
        /\ tickets[r] = TicketRow(c)
    BY <1>1, <2>1 DEF RequestInv, CallsByPlace, TicketByPlace, LogsCall, Stored
  <2>3. /\ c.decision = "REFUSE" => eventRows[r] = <<>>
        /\ c.decision # "REFUSE" => eventRows[r] = Logged(c, Len(toolRows[r]))
    BY <1>1, <2>1 DEF RequestInv, EventsByPlace
  <2> QED  BY <1>1, <1>2, <2>1, <2>2, <2>3
<1>4. PICK to \in Places, e \in Logging :
        /\ pc' = [pc EXCEPT ![r] = to] /\ event' = [event EXCEPT ![r] = e]
        /\ \/ to = "event" /\ e = "injection_refused" /\ c.decision = "REFUSE"
           \/ to = "count_case" /\ c.decision # "REFUSE"
  <2>1. event = [event EXCEPT ![r] = event[r]] /\ event[r] \in Logging
    BY DEF Types
  <2> QED  BY <2>1, Names DEF CallsDone, Goto, LogEvent
<1>5. Types' /\ Others(r) /\ pc'[r] = to /\ event'[r] = e
  BY <1>1, <1>4 DEF Types, Others, Same
<1>6. RequestInv(r)'
  <2>1. DecisionExplains(r)'
    BY <1>1, <1>3, <1>4, <1>5 DEF RequestInv, DecisionExplains
  <2>2. EventHasCause(r)' /\ AnswerByPlace(r)' /\ TicketByPlace(r)'
    BY <1>1, <1>3, <1>4, <1>5
    DEF RequestInv, EventHasCause, AnswerByPlace, TicketByPlace, LogsLeak, Unstored, Stored
  <2>3. CallsByPlace(r)'
    BY <1>1, <1>2, <1>3, <1>4, <1>5, Names DEF RequestInv, CallsByPlace, LogsCall
  <2>4. EventsByPlace(r)'
    BY <1>1, <1>2, <1>3, <1>4, <1>5, Names
    DEF RequestInv, EventsByPlace, EventsTrail, LogsLeak, LogsCall
  <2> QED  BY <2>1, <2>2, <2>3, <2>4 DEF RequestInv
<1> QED  BY <1>5, <1>6, OthersKeepInv

\* Where a logging thread stands: the event, its cause, and what is stored.
LEMMA AtEvent ==
  ASSUME Types, RequestsInv, NEW r \in Requests, pc[r] \in {"event", "count_event"}
  PROVE  LET c == case[r]
             before == eventRows[r]
         IN  /\ c \in Cases /\ RequestInv(r) /\ TicketRow(c) # NoRow
             /\ event[r] \in EventTypes
             /\ next[r] \in Nat \ {0} /\ Len(c.log) \in Nat
             /\ \/ /\ event[r] = "outbound_leak_blocked"
                   /\ c.decision = "ESCALATE" /\ Lead(c) = <<"outbound_leak_blocked">>
                   /\ tickets[r] = NoRow /\ toolRows[r] = <<>>
                   /\ before = IF pc[r] = "event" THEN <<>> ELSE Lead(c)
                \/ /\ event[r] = "injection_refused"
                   /\ c.decision = "REFUSE"
                   /\ tickets[r] = TicketRow(c)
                   /\ Len(toolRows[r]) = next[r] - 1 /\ Len(toolRows[r]) = Len(c.log)
                   /\ before = IF pc[r] = "event" THEN <<>> ELSE <<"injection_refused">>
                \/ /\ event[r] \in ToolEventTypes
                   /\ c.decision \notin {"REFUSE", "none"}
                   /\ next[r] \in 1..Len(c.log)
                   /\ c.log[next[r]].status \in Guarded
                   /\ event[r] = GuardrailEvent[c.log[next[r]].status]
                   /\ tickets[r] = TicketRow(c)
                   /\ Len(toolRows[r]) = next[r]
                   /\ before = Logged(c, IF pc[r] = "event" THEN next[r] - 1 ELSE next[r])
<1> DEFINE c == case[r]
<1>1. /\ c \in Cases /\ c.log \in Seq(CallRecords) /\ Len(c.log) \in Nat /\ next[r] \in Nat \ {0}
      /\ TicketRow(c) # NoRow
  BY CaseFacts DEF Types
<1>2. RequestInv(r)
  BY DEF RequestsInv
<1>3. \/ event[r] = "outbound_leak_blocked" /\ c.reason.kind = "outbound_leak"
      \/ event[r] = "injection_refused" /\ c.decision = "REFUSE"
      \/ /\ next[r] <= Len(c.log)
         /\ c.log[next[r]].status \in Guarded
         /\ event[r] = GuardrailEvent[c.log[next[r]].status]
  BY <1>2 DEF RequestInv, EventHasCause
<1>4. CASE event[r] = "outbound_leak_blocked" /\ c.reason.kind = "outbound_leak"
  <2>1. LogsLeak(r)
    BY <1>4 DEF LogsLeak
  <2>2. c.decision = "ESCALATE" /\ Lead(c) = <<"outbound_leak_blocked">>
    BY <1>2, <1>4 DEF RequestInv, DecisionExplains, Lead
  <2>3. tickets[r] = NoRow /\ toolRows[r] = <<>>
    BY <1>2, <2>1 DEF RequestInv, TicketByPlace, CallsByPlace
  <2>4. eventRows[r] = IF pc[r] = "event" THEN <<>> ELSE Lead(c)
    BY <1>2, <2>1, <2>2 DEF RequestInv, EventsByPlace
  <2> QED  BY <1>1, <1>2, <1>4, <2>2, <2>3, <2>4, Names
<1>5. CASE event[r] = "injection_refused" /\ c.decision = "REFUSE"
  <2>1. ~LogsLeak(r) /\ ~LogsCall(r)
    BY <1>5, Names DEF LogsLeak, LogsCall
  <2>2. tickets[r] = TicketRow(c) /\ Len(toolRows[r]) = next[r] - 1 /\ Len(toolRows[r]) <= Len(c.log)
    BY <1>2, <2>1 DEF RequestInv, TicketByPlace, CallsByPlace
  <2>3. Len(c.log) = 0
    <3>1. Refusal(c.body).log = <<>> /\ Len(<<>>) = 0
      BY DEF Refusal, Initial
    <3> QED  BY <1>2, <1>5, <3>1 DEF RequestInv, DecisionExplains
  <2>4. eventRows[r] = IF pc[r] = "event" THEN <<>> ELSE <<"injection_refused">>
    BY <1>2, <1>5 DEF RequestInv, EventsByPlace
  <2> QED  BY <1>1, <1>2, <1>5, <2>2, <2>3, <2>4, Names
<1>6. CASE /\ next[r] <= Len(c.log)
           /\ c.log[next[r]].status \in Guarded
           /\ event[r] = GuardrailEvent[c.log[next[r]].status]
  <2>1. event[r] \in ToolEventTypes /\ next[r] \in 1..Len(c.log)
    BY <1>1, <1>6 DEF ToolEventTypes
  <2>2. ~LogsLeak(r) /\ LogsCall(r)
    BY <2>1, Names DEF LogsLeak, LogsCall
  <2>3. tickets[r] = TicketRow(c) /\ Len(toolRows[r]) = next[r]
    BY <1>2, <2>2 DEF RequestInv, TicketByPlace, CallsByPlace
  <2>4. c.decision \notin {"REFUSE", "none"}
    <3>1. Refusal(c.body).log = <<>> /\ Len(<<>>) = 0
      BY DEF Refusal, Initial
    <3> QED  BY <1>2, <2>1, <3>1 DEF RequestInv, DecisionExplains
  <2>5. eventRows[r] = Logged(c, IF pc[r] = "event" THEN next[r] - 1 ELSE next[r])
    BY <1>2, <2>2, <2>4 DEF RequestInv, EventsByPlace
  <2> QED  BY <1>1, <1>2, <1>6, <2>1, <2>3, <2>4, <2>5, Names
<1> QED  BY <1>3, <1>4, <1>5, <1>6

\* The event's row is committed (service.py:41, repo.py:70-80).
LEMMA InsertEventInv ==
  ASSUME Types, RequestsInv, NEW r \in Requests, InsertEvent(r)
  PROVE  Types' /\ RequestsInv'
<1> DEFINE c == case[r]
           rows == Append(eventRows[r], event[r])
<1>1. /\ UNCHANGED <<case, outcome, next, event, response, tickets, toolRows, metrics, crashes>>
      /\ pc[r] = "event" /\ pc' = [pc EXCEPT ![r] = "count_event"]
      /\ eventRows' = [eventRows EXCEPT ![r] = rows]
  BY DEF InsertEvent, Goto
<1>2. /\ c \in Cases /\ RequestInv(r) /\ event[r] \in EventTypes /\ TicketRow(c) # NoRow
      /\ next[r] \in Nat \ {0} /\ Len(c.log) \in Nat
      /\ \/ /\ event[r] = "outbound_leak_blocked" /\ c.decision = "ESCALATE"
            /\ tickets[r] = NoRow /\ rows = Lead(c)
         \/ /\ event[r] = "injection_refused" /\ c.decision = "REFUSE"
            /\ tickets[r] = TicketRow(c) /\ rows = <<"injection_refused">>
         \/ /\ event[r] \in ToolEventTypes /\ c.decision \notin {"REFUSE", "none"}
            /\ next[r] \in 1..Len(c.log) /\ Len(toolRows[r]) = next[r]
            /\ tickets[r] = TicketRow(c) /\ rows = Logged(c, next[r])
  <2>1. \A e : Append(<<>>, e) = <<e>>
    OBVIOUS
  <2>2. ASSUME NEW n \in 1..Len(c.log), c.log[n].status \in Guarded, c \in Cases
        PROVE  Logged(c, n) = Append(Logged(c, n - 1), GuardrailEvent[c.log[n].status])
    BY <2>2, LoggedFacts
  <2>3. /\ c \in Cases /\ RequestInv(r) /\ event[r] \in EventTypes /\ TicketRow(c) # NoRow
        /\ next[r] \in Nat \ {0} /\ Len(c.log) \in Nat
    BY <1>1, AtEvent
  <2>4. \/ /\ event[r] = "outbound_leak_blocked" /\ c.decision = "ESCALATE"
           /\ tickets[r] = NoRow /\ eventRows[r] = <<>> /\ Lead(c) = <<"outbound_leak_blocked">>
        \/ /\ event[r] = "injection_refused" /\ c.decision = "REFUSE"
           /\ tickets[r] = TicketRow(c) /\ eventRows[r] = <<>>
        \/ /\ event[r] \in ToolEventTypes /\ c.decision \notin {"REFUSE", "none"}
           /\ next[r] \in 1..Len(c.log) /\ Len(toolRows[r]) = next[r]
           /\ c.log[next[r]].status \in Guarded
           /\ event[r] = GuardrailEvent[c.log[next[r]].status]
           /\ tickets[r] = TicketRow(c) /\ eventRows[r] = Logged(c, next[r] - 1)
    BY <1>1, AtEvent
  <2> HIDE DEF c
  <2> QED  BY <2>1, <2>2, <2>3, <2>4
<1>3. rows \in Seq(EventTypes)
  BY <1>2 DEF Types
<1> HIDE DEF rows
<1>4. Types' /\ Others(r) /\ pc'[r] = "count_event" /\ eventRows'[r] = rows
  BY <1>1, <1>3, Names DEF Types, Others, Same
<1>5. RequestInv(r)'
  <2>1. DecisionExplains(r)'
    BY <1>1, <1>2, <1>4 DEF RequestInv, DecisionExplains
  <2>2. EventHasCause(r)' /\ AnswerByPlace(r)' /\ TicketByPlace(r)'
    BY <1>1, <1>2, <1>4
    DEF RequestInv, EventHasCause, AnswerByPlace, TicketByPlace, LogsLeak, Unstored, Stored
  <2>3. CallsByPlace(r)'
    BY <1>1, <1>2, <1>4 DEF RequestInv, CallsByPlace, LogsCall
  <2>4. EventsByPlace(r)'
    BY <1>1, <1>2, <1>4, Names
    DEF EventsByPlace, EventsTrail, LogsLeak, LogsCall
  <2> QED  BY <2>1, <2>2, <2>3, <2>4 DEF RequestInv
<1> QED  BY <1>4, <1>5, OthersKeepInv

\* The event is counted, and its logger goes on where it was called
\* (service.py:42, 77, 103, 172).
LEMMA CountEventInv ==
  ASSUME Types, RequestsInv, NEW r \in Requests, CountEvent(r)
  PROVE  Types' /\ RequestsInv'
<1> DEFINE c == case[r]
<1>1. /\ UNCHANGED <<case, outcome, event, response, tickets, toolRows, eventRows, crashes>>
      /\ pc[r] = "count_event"
  BY DEF CountEvent, Goto, tables
<1>2. /\ c \in Cases /\ RequestInv(r) /\ event[r] \in EventTypes /\ TicketRow(c) # NoRow
      /\ next[r] \in Nat \ {0} /\ Len(c.log) \in Nat
      /\ \/ /\ event[r] = "outbound_leak_blocked" /\ c.decision = "ESCALATE"
            /\ tickets[r] = NoRow /\ toolRows[r] = <<>> /\ eventRows[r] = Lead(c)
         \/ /\ event[r] = "injection_refused" /\ c.decision = "REFUSE"
            /\ Len(toolRows[r]) = next[r] - 1 /\ Len(toolRows[r]) = Len(c.log)
            /\ tickets[r] = TicketRow(c) /\ eventRows[r] = <<"injection_refused">>
         \/ /\ event[r] \in ToolEventTypes /\ c.decision \notin {"REFUSE", "none"}
            /\ next[r] \in 1..Len(c.log) /\ Len(toolRows[r]) = next[r]
            /\ tickets[r] = TicketRow(c) /\ eventRows[r] = Logged(c, next[r])
  <2> HIDE DEF c
  <2> QED  BY <1>1, AtEvent DEF c
<1>3. metrics' \in Counters
  <2>1. metrics' = Bump("events", event[r]) /\ metrics \in Counters
    BY DEF CountEvent, Types
  <2> QED  BY <1>2, <2>1, BumpFacts DEF Bumped
<1>4. PICK to \in Places, n \in Nat \ {0} :
        /\ pc' = [pc EXCEPT ![r] = to] /\ next' = [next EXCEPT ![r] = n]
        /\ \/ event[r] = "outbound_leak_blocked" /\ to = "account" /\ n = next[r]
           \/ event[r] = "injection_refused" /\ to = "count_case" /\ n = next[r]
           \/ event[r] \in ToolEventTypes /\ to = "calls" /\ n = next[r] + 1
  <2>1. next = [next EXCEPT ![r] = next[r]] /\ next[r] \in Nat \ {0} /\ next[r] + 1 \in Nat \ {0}
    BY DEF Types
  <2>2. CASE event[r] = "outbound_leak_blocked"
    BY <2>1, <2>2, Names DEF CountEvent, Goto
  <2>3. CASE event[r] = "injection_refused"
    BY <2>1, <2>3, Names DEF CountEvent, Goto
  <2>4. CASE event[r] \in ToolEventTypes
    <3>1. /\ event[r] # "outbound_leak_blocked" /\ event[r] # "injection_refused"
      BY <2>4, Names
    <3>2. pc' = [pc EXCEPT ![r] = "calls"] /\ next' = [next EXCEPT ![r] = next[r] + 1]
      BY <3>1 DEF CountEvent, Goto
    <3> QED  BY <2>1, <2>4, <3>2, Names
  <2> QED  BY <1>2, <2>2, <2>3, <2>4
<1>5. Types' /\ Others(r) /\ pc'[r] = to /\ next'[r] = n
  BY <1>1, <1>3, <1>4 DEF Types, Others, Same
<1>6. RequestInv(r)'
  <2>1. DecisionExplains(r)'
    BY <1>1, <1>2, <1>4, <1>5, Names DEF RequestInv, DecisionExplains
  <2>2. EventHasCause(r)' /\ AnswerByPlace(r)' /\ TicketByPlace(r)'
    BY <1>1, <1>2, <1>4, <1>5, Names
    DEF RequestInv, EventHasCause, AnswerByPlace, TicketByPlace, LogsLeak, Unstored, Stored
  <2>3. CallsByPlace(r)'
    BY <1>1, <1>2, <1>4, <1>5, Names DEF RequestInv, CallsByPlace, LogsCall
  <2>4. EventsByPlace(r)'
    BY <1>1, <1>2, <1>4, <1>5, Names
    DEF RequestInv, EventsByPlace, EventsTrail, LogsLeak, LogsCall
  <2> QED  BY <2>1, <2>2, <2>3, <2>4 DEF RequestInv
<1> QED  BY <1>5, <1>6, OthersKeepInv

\* The case is counted by its decision (service.py:203).
LEMMA CountCaseInv ==
  ASSUME Types, RequestsInv, NEW r \in Requests, CountCase(r)
  PROVE  Types' /\ RequestsInv'
<1>1. /\ UNCHANGED <<case, outcome, next, event, response, tickets, toolRows, eventRows, crashes>>
      /\ pc[r] = "count_case" /\ pc' = [pc EXCEPT ![r] = "respond"]
  BY DEF CountCase, Goto, tables
<1>2. case[r] \in Cases /\ RequestInv(r) /\ case[r].decision \in Decisions
  <2>1. case[r] \in Cases /\ RequestInv(r)
    BY DEF Types, RequestsInv
  <2> QED  BY <1>1, <2>1, CaseFacts DEF RequestInv, DecisionExplains
<1>3. metrics' \in Counters
  BY <1>2, BumpFacts DEF CountCase, Types, Bumped
<1>4. Types' /\ Others(r) /\ pc'[r] = "respond"
  BY <1>1, <1>3, Names DEF Types, Others, Same
<1>5. RequestInv(r)'
  <2>1. DecisionExplains(r)'
    BY <1>1, <1>2, <1>4 DEF RequestInv, DecisionExplains
  <2>2. EventHasCause(r)' /\ AnswerByPlace(r)' /\ TicketByPlace(r)'
    BY <1>1, <1>2, <1>4
    DEF RequestInv, EventHasCause, AnswerByPlace, TicketByPlace, LogsLeak, Unstored, Stored
  <2>3. CallsByPlace(r)'
    BY <1>1, <1>2, <1>4 DEF RequestInv, CallsByPlace, LogsCall
  <2>4. EventsByPlace(r)'
    BY <1>1, <1>2, <1>4 DEF RequestInv, EventsByPlace, EventsTrail, LogsLeak, LogsCall
  <2> QED  BY <2>1, <2>2, <2>3, <2>4 DEF RequestInv
<1> QED  BY <1>4, <1>5, OthersKeepInv

\* The client gets what the case holds (service.py:215-226).
LEMMA RespondInv ==
  ASSUME Types, RequestsInv, NEW r \in Requests, Respond(r)
  PROVE  Types' /\ RequestsInv'
<1>1. /\ UNCHANGED <<case, outcome, next, event, tickets, toolRows, eventRows, metrics, crashes>>
      /\ pc[r] = "respond" /\ pc' = [pc EXCEPT ![r] = "answered"]
      /\ response' = [response EXCEPT ![r] = Response(case[r])]
  BY DEF Respond, Goto, tables
<1>2. RequestInv(r) /\ Response(case[r]) \in Answers
  BY DEF Types, RequestsInv, Answers
<1>3. Types' /\ Others(r) /\ pc'[r] = "answered" /\ response'[r] = Response(case[r])
  BY <1>1, <1>2, Names DEF Types, Others, Same
<1>4. RequestInv(r)'
  <2>1. DecisionExplains(r)'
    BY <1>1, <1>2, <1>3 DEF RequestInv, DecisionExplains
  <2>2. EventHasCause(r)' /\ AnswerByPlace(r)' /\ TicketByPlace(r)'
    BY <1>1, <1>2, <1>3
    DEF RequestInv, EventHasCause, AnswerByPlace, TicketByPlace, LogsLeak, Unstored, Stored
  <2>3. CallsByPlace(r)'
    BY <1>1, <1>2, <1>3 DEF RequestInv, CallsByPlace, LogsCall
  <2>4. EventsByPlace(r)'
    BY <1>1, <1>2, <1>3 DEF RequestInv, EventsByPlace, EventsTrail, LogsLeak, LogsCall
  <2> QED  BY <2>1, <2>2, <2>3, <2>4 DEF RequestInv
<1> QED  BY <1>3, <1>4, OthersKeepInv

\* A thread may stop at any insert: nothing it leaves says more than it did
\* (main.py:96-99).
LEMMA StoppedKeepsInv ==
  ASSUME NEW r \in Requests, RequestInv(r),
         pc'[r] \in {"failed", "lost"},
         pc'[r] = "lost"   => pc[r] \notin Finished \cup {"idle"} /\ response'[r] = response[r],
         pc'[r] = "failed" => AtInsert(r) /\ response'[r] = ServerError,
         case'[r] = case[r], outcome'[r] = outcome[r], next'[r] = next[r], event'[r] = event[r],
         tickets'[r] = tickets[r], toolRows'[r] = toolRows[r], eventRows'[r] = eventRows[r]
  PROVE  RequestInv(r)'
<1>1. DecisionExplains(r)'
  BY DEF RequestInv, DecisionExplains, AtInsert, TicketByPlace, Unstored
<1>2. EventHasCause(r)' /\ AnswerByPlace(r)' /\ TicketByPlace(r)'
  BY DEF RequestInv, EventHasCause, AnswerByPlace, TicketByPlace, LogsLeak, Unstored, Stored, Finished
<1>3. CallsByPlace(r)'
  BY DEF RequestInv, CallsByPlace, LogsCall
<1>4. EventsByPlace(r)'
  BY DEF RequestInv, EventsByPlace, EventsTrail, LogsLeak, LogsCall
<1> QED  BY <1>1, <1>2, <1>3, <1>4 DEF RequestInv

\* An insert raises and the client gets a 500 (main.py:96-99).
LEMMA InsertFailsInv ==
  ASSUME Types, RequestsInv, NEW r \in Requests, InsertFails(r)
  PROVE  Types' /\ RequestsInv'
<1>1. /\ UNCHANGED <<case, outcome, next, event, tickets, toolRows, eventRows, metrics, crashes>>
      /\ AtInsert(r) /\ pc' = [pc EXCEPT ![r] = "failed"]
      /\ response' = [response EXCEPT ![r] = ServerError]
  BY DEF InsertFails, Goto, tables
<1>2. ServerError \in Answers
  BY DEF Answers
<1>3. Types' /\ Others(r) /\ pc'[r] = "failed" /\ response'[r] = ServerError
  BY <1>1, <1>2, Names DEF Types, Others, Same
<1>4. RequestInv(r)'
  BY <1>1, <1>3, StoppedKeepsInv DEF RequestsInv
<1> QED  BY <1>3, <1>4, OthersKeepInv

\* The process dies and is restarted: its threads are gone, the tables stay.
LEMMA CrashInv ==
  ASSUME Types, RequestsInv, Crash
  PROVE  Types' /\ RequestsInv'
<1>1. /\ UNCHANGED <<case, outcome, next, event, response, tickets, toolRows, eventRows>>
      /\ pc' = [r \in Requests |-> IF pc[r] \in Finished \cup {"idle"} THEN pc[r] ELSE "lost"]
      /\ metrics' = NoMetrics /\ crashes' = crashes + 1 /\ crashes < MaxCrashes
  BY DEF Crash, tables
<1>2. NoMetrics \in Counters
  BY DEF NoMetrics, Counters
<1>3. Types'
  BY <1>1, <1>2, Names, ServiceAssumption DEF Types
<1>4. ASSUME NEW r \in Requests PROVE RequestInv(r)'
  <2>1. RequestInv(r)
    BY DEF RequestsInv
  <2>2. CASE pc[r] \in Finished \cup {"idle"}
    <3>1. Same(r)
      BY <1>1, <2>2 DEF Same
    <3> QED  BY <2>1, <3>1, SameKeepsInv
  <2>3. CASE pc[r] \notin Finished \cup {"idle"}
    <3>1. pc'[r] = "lost"
      BY <1>1, <2>3
    <3> QED  BY <1>1, <2>1, <2>3, <3>1, StoppedKeepsInv
  <2> QED  BY <2>2, <2>3
<1> QED  BY <1>3, <1>4 DEF RequestsInv

\* Every step keeps the types and every request's invariant.
LEMMA NextKeepsRequests == Types /\ RequestsInv /\ [Next]_vars => Types' /\ RequestsInv'
<1> SUFFICES ASSUME Types, RequestsInv, [Next]_vars PROVE Types' /\ RequestsInv'
  OBVIOUS
<1>1. CASE UNCHANGED vars
  <2>1. Types'
    BY <1>1 DEF vars, local, tables, Types
  <2>2. \A q \in Requests : Same(q)
    BY <1>1 DEF vars, local, tables, Same
  <2> QED  BY <2>1, <2>2, SameKeepsInv DEF RequestsInv
<1>2. ASSUME NEW r \in Requests, Receive(r) \/ Step(r) \/ InsertFails(r)
      PROVE  Types' /\ RequestsInv'
  <2>1. CASE Receive(r)  BY <2>1, ReceiveInv
  <2>2. CASE InsertFails(r)  BY <2>2, InsertFailsInv
  <2>3. CASE InvokeGraph(r)  BY <2>3, InvokeGraphInv
  <2>4. CASE GuardOutbound(r)  BY <2>4, GuardOutboundInv
  <2>5. CASE Account(r)  BY <2>5, AccountInv
  <2>6. CASE InsertTicket(r)  BY <2>6, InsertTicketInv
  <2>7. CASE InsertToolCall(r)  BY <2>7, InsertToolCallInv
  <2>8. CASE CountToolCall(r)  BY <2>8, CountToolCallInv
  <2>9. CASE CallsDone(r)  BY <2>9, CallsDoneInv
  <2>10. CASE InsertEvent(r)  BY <2>10, InsertEventInv
  <2>11. CASE CountEvent(r)  BY <2>11, CountEventInv
  <2>12. CASE CountCase(r)  BY <2>12, CountCaseInv
  <2>13. CASE Respond(r)  BY <2>13, RespondInv
  <2> QED
    BY <1>2, <2>1, <2>2, <2>3, <2>4, <2>5, <2>6, <2>7, <2>8, <2>9, <2>10, <2>11, <2>12, <2>13
    DEF Step
<1>3. CASE Crash
  BY <1>3, CrashInv
<1> QED  BY <1>1, <1>2, <1>3 DEF Next

-----------------------------------------------------------------------------
(* What the invariant says of the tables and the client *)

\* What a case owes is its lead and its calls' events, or its refusal.
LEMMA OwedIsLogged ==
  ASSUME NEW c \in Cases, c.decision # "REFUSE"
  PROVE  /\ OwedEvents(c) = Logged(c, Len(c.log))
         /\ \A n \in 0..Len(c.log) : PrefixOf(Logged(c, n), OwedEvents(c))
         /\ PrefixOf(Lead(c), OwedEvents(c)) /\ PrefixOf(<<>>, OwedEvents(c))
<1> DEFINE E(n) == ToolEvents(SubSeq(c.log, 1, n))
           lead == Lead(c)
           all == ToolEvents(c.log)
<1>1. c.log \in Seq(CallRecords) /\ Len(c.log) \in Nat
  BY CaseFacts
<1>2. SubSeq(c.log, 1, Len(c.log)) = c.log
  BY <1>1, AllElements
<1>3. \A n \in 0..Len(c.log) : E(n) \in Seq(ToolEventTypes) /\ PrefixOf(E(n), all)
  BY <1>1, ToolEventsByCall, ToolEventsPrefix
<1>4. all \in Seq(ToolEventTypes)
  <2>1. Len(c.log) \in 0..Len(c.log)
    BY <1>1
  <2>2. E(Len(c.log)) = all
    BY <1>2
  <2>3. E(Len(c.log)) \in Seq(ToolEventTypes)
    BY <1>3, <2>1
  <2> QED  BY <2>2, <2>3
<1>5. lead \in Seq(EventTypes)
  <2>1. CASE c.reason.kind = "outbound_leak"
    BY <2>1, Names DEF Lead
  <2>2. CASE c.reason.kind # "outbound_leak"
    BY <2>2 DEF Lead
  <2> QED  BY <2>1, <2>2
<1>6. OwedEvents(c) = lead \o all
  <2>1. <<>> \o all = all
    BY <1>4
  <2> QED  BY <2>1 DEF OwedEvents, Lead
<1>7. \A n : Logged(c, n) = lead \o E(n)
  BY DEF Logged
<1>8. ASSUME NEW n \in 0..Len(c.log) PROVE PrefixOf(lead \o E(n), lead \o all)
  <2>1. /\ E(n) \in Seq(ToolEventTypes) /\ Len(E(n)) <= Len(all)
        /\ E(n) = SubSeq(all, 1, Len(E(n)))
    BY <1>3 DEF PrefixOf
  <2> HIDE DEF E, lead, all
  <2> DEFINE short == lead \o E(n)
             long == lead \o all
  <2>2. /\ short \in Seq(EventTypes) /\ Len(short) = Len(lead) + Len(E(n))
        /\ long \in Seq(EventTypes) /\ Len(long) = Len(lead) + Len(all)
        /\ Len(lead) \in Nat /\ Len(E(n)) \in Nat /\ Len(all) \in Nat
    BY SMTT(20), <1>4, <1>5, <2>1, Names
  <2>3. ASSUME NEW i \in 1..Len(short) PROVE short[i] = SubSeq(long, 1, Len(short))[i]
    <3>1. SubSeq(long, 1, Len(short))[i] = long[i]
      BY <2>1, <2>2
    <3>2. CASE i <= Len(lead)
      BY <1>4, <1>5, <2>1, <2>2, <3>1, <3>2
    <3>3. CASE i > Len(lead)
      <4>1. /\ short[i] = E(n)[i - Len(lead)] /\ long[i] = all[i - Len(lead)]
            /\ i - Len(lead) \in 1..Len(E(n))
        BY <1>4, <1>5, <2>1, <2>2, <3>3
      <4>2. E(n)[i - Len(lead)] = all[i - Len(lead)]
        BY <1>4, <2>1, <2>2, <4>1
      <4> QED  BY <3>1, <4>1, <4>2
    <3>4. i \in Nat /\ Len(lead) \in Nat
      BY <2>2
    <3> HIDE DEF short, long
    <3> QED  BY <3>2, <3>3, <3>4
  <2>4. SubSeq(long, 1, Len(short)) \in Seq(EventTypes) /\ Len(SubSeq(long, 1, Len(short))) = Len(short)
    BY <2>1, <2>2
  <2>5. short = SubSeq(long, 1, Len(short)) /\ Len(short) <= Len(long)
    <3> HIDE DEF short, long
    <3>1. short = SubSeq(long, 1, Len(short))
      BY <2>2, <2>3, <2>4, SeqEqual
    <3> QED  BY <2>1, <2>2, <3>1
  <2> QED  BY <2>5 DEF PrefixOf
<1>9. /\ PrefixOf(lead, OwedEvents(c)) /\ PrefixOf(<<>>, OwedEvents(c))
  <2>1. E(0) = <<>> /\ lead \o <<>> = lead /\ 0 \in 0..Len(c.log)
    BY <1>1, <1>5, ToolEventsByCall
  <2>2. lead \o all \in Seq(EventTypes)
    BY <1>4, <1>5, Names
  <2>3. PrefixOf(<<>>, lead \o all)
    <3>1. Len(<<>>) = 0 /\ 0 <= Len(lead \o all) /\ SubSeq(lead \o all, 1, 0) = <<>>
      BY <2>2
    <3> QED  BY <3>1 DEF PrefixOf
  <2>4. PrefixOf(lead \o E(0), lead \o all)
    BY <1>8, <2>1
  <2> HIDE DEF E, lead, all
  <2> QED  BY <1>6, <2>1, <2>3, <2>4
<1> HIDE DEF E, lead
<1>10. OwedEvents(c) = Logged(c, Len(c.log))
  BY <1>2, <1>6, <1>7 DEF E
<1> QED  BY <1>6, <1>7, <1>8, <1>9, <1>10 DEF lead

\* The tables of one request are prefixes of what its case leaves.
LEMMA InvAuditIsPrefix == Types /\ RequestsInv => AuditIsPrefix
<1> SUFFICES ASSUME Types, RequestsInv, NEW r \in Requests
             PROVE  /\ tickets[r] \in {NoRow, TicketRow(case[r])}
                    /\ PrefixOf(toolRows[r], case[r].log)
                    /\ PrefixOf(eventRows[r], OwedEvents(case[r]))
                    /\ tickets[r] = NoRow =>
                         /\ toolRows[r] = <<>>
                         /\ PrefixOf(eventRows[r], <<"outbound_leak_blocked">>)
  BY DEF AuditIsPrefix
<1> DEFINE c == case[r]
           stored == Len(toolRows[r])
<1>1. /\ c \in Cases /\ RequestInv(r) /\ Len(c.log) \in Nat /\ c.log \in Seq(CallRecords)
      /\ stored \in 0..Len(c.log) /\ EventsTrail(r)
  <2>1. c \in Cases /\ RequestInv(r) /\ toolRows[r] \in Seq(CallRecords)
    BY DEF Types, RequestsInv
  <2> QED  BY <2>1, CaseFacts DEF RequestInv, CallsByPlace, EventsByPlace
<1>2. tickets[r] \in {NoRow, TicketRow(c)} /\ (tickets[r] = NoRow => toolRows[r] = <<>>)
  BY <1>1 DEF RequestInv, TicketByPlace, CallsByPlace
<1>3. PrefixOf(toolRows[r], c.log)
  BY <1>1 DEF RequestInv, CallsByPlace, PrefixOf
<1>4. \A e : PrefixOf(<<>>, <<e>>) /\ PrefixOf(<<e>>, <<e>>) /\ PrefixOf(<<>>, <<>>)
  BY DEF PrefixOf
<1> HIDE DEF c, stored
<1>5. CASE c.decision = "REFUSE"
  <2>1. OwedEvents(c) = <<"injection_refused">>
    <3>1. Refusal(c.body).reason.kind = "refused" /\ Refusal(c.body).decision = "REFUSE"
      BY DEF Refusal, Initial, Because
    <3> QED  BY <1>1, <1>5, <3>1 DEF RequestInv, DecisionExplains, OwedEvents, c
  <2>2. /\ eventRows[r] \in {<<>>, <<"injection_refused">>}
        /\ tickets[r] = NoRow => eventRows[r] = <<>>
    BY <1>1, <1>5 DEF EventsTrail, c
  <2> QED  BY <1>2, <1>3, <1>4, <2>1, <2>2 DEF c
<1>6. CASE c.decision # "REFUSE" /\ tickets[r] = NoRow
  <2>1. eventRows[r] \in {<<>>, Lead(c)} /\ Lead(c) \in {<<>>, <<"outbound_leak_blocked">>}
    BY <1>1, <1>6 DEF EventsTrail, Lead, c
  <2> QED  BY <1>1, <1>2, <1>3, <1>4, <1>6, <2>1, OwedIsLogged DEF c
<1>7. CASE c.decision # "REFUSE" /\ tickets[r] # NoRow
  <2>1. \E n \in 0..Len(c.log) : eventRows[r] = Logged(c, n)
    <3>1. stored - 1 \in 0..Len(c.log) \/ ~(stored > 0)
      BY <1>1
    <3> QED  BY <1>1, <1>7, <3>1 DEF EventsTrail, c, stored
  <2> QED  BY <1>1, <1>2, <1>3, <1>7, <2>1, OwedIsLogged DEF c
<1> QED  BY <1>5, <1>6, <1>7

\* A 200 is given by an answered thread only, from a case whose rows are there.
LEMMA InvAnswered ==
  ASSUME Types, RequestsInv, NEW r \in Requests, response[r].code = 200
  PROVE  pc[r] = "answered" /\ response[r] = Response(case[r]) /\ tickets[r] = TicketRow(case[r])
<1>1. RequestInv(r)
  BY DEF RequestsInv
<1>2. ServerError.code # 200 /\ NoResponse.code # 200
  BY DEF ServerError, NoResponse
<1> QED  BY <1>1, <1>2 DEF RequestInv, AnswerByPlace, TicketByPlace, Stored

\* A thread is answered only after its last row (service.py:197-226).
LEMMA InvAnsweredIsDurable == Types /\ RequestsInv => AnsweredIsDurable
<1> SUFFICES ASSUME Types, RequestsInv, NEW r \in Requests, response[r].code = 200
             PROVE  /\ response[r] = Response(case[r])
                    /\ tickets[r] = TicketRow(case[r])
                    /\ toolRows[r] = response[r].log
                    /\ eventRows[r] = OwedEvents(case[r])
  BY DEF AnsweredIsDurable
<1>1. /\ pc[r] = "answered" /\ response[r] = Response(case[r])
      /\ tickets[r] = TicketRow(case[r])
  BY InvAnswered
<1>2. /\ case[r] \in Cases /\ RequestInv(r) /\ case[r].log \in Seq(CallRecords)
  BY CaseFacts DEF Types, RequestsInv
<1>3. toolRows[r] = case[r].log /\ Len(toolRows[r]) = Len(case[r].log)
  BY <1>1, <1>2, AllElements DEF RequestInv, CallsByPlace
<1>4. response[r].log = case[r].log
  BY <1>1 DEF Response
<1>5. eventRows[r] = OwedEvents(case[r])
  <2>1. CASE case[r].decision = "REFUSE"
    <3>1. Refusal(case[r].body).reason.kind = "refused"
      BY DEF Refusal, Initial, Because
    <3> QED  BY <1>1, <1>2, <2>1, <3>1
             DEF RequestInv, DecisionExplains, EventsByPlace, OwedEvents
  <2>2. CASE case[r].decision # "REFUSE"
    BY <1>1, <1>2, <1>3, <2>2, OwedIsLogged DEF RequestInv, EventsByPlace
  <2> QED  BY <2>1, <2>2
<1> QED  BY <1>1, <1>3, <1>4, <1>5

\* A lead that is no tool event, followed by tool events, holds as many tool
\* events as follow it.
LEMMA CountsToolEvents ==
  ASSUME NEW lead \in Seq(EventTypes), Len(lead) <= 1,
         \A i \in 1..Len(lead) : lead[i] \notin ToolEventTypes,
         NEW events \in Seq(ToolEventTypes)
  PROVE  Cardinality({i \in DOMAIN (lead \o events) : (lead \o events)[i] \in ToolEventTypes})
           = Len(events)
<1> DEFINE all == lead \o events
<1>1. /\ Len(lead) \in Nat /\ Len(events) \in Nat
      /\ all \in Seq(EventTypes) /\ Len(all) = Len(lead) + Len(events)
  BY Names
<1>2. \A i \in 1..Len(lead) : all[i] = lead[i]
  BY <1>1
<1>3. \A i \in Len(lead) + 1..Len(all) : all[i] \in ToolEventTypes
  <2>1. ASSUME NEW i \in Len(lead) + 1..Len(all) PROVE all[i] \in ToolEventTypes
    <3>1. i - Len(lead) \in 1..Len(events) /\ all[i] = events[i - Len(lead)]
      BY <1>1
    <3> QED  BY <3>1
  <2> QED  BY <2>1
<1> HIDE DEF all
<1>4. {i \in DOMAIN all : all[i] \in ToolEventTypes} = Len(lead) + 1..Len(all)
  <2>1. DOMAIN all = 1..Len(all)
    BY <1>1
  <2> QED  BY <1>1, <1>2, <1>3, <2>1
<1>5. Cardinality(Len(lead) + 1..Len(all)) = Len(events)
  <2>1. Len(lead) + 1 \in Int /\ Len(all) \in Int
    BY <1>1
  <2>2. Cardinality(Len(lead) + 1..Len(all))
          = IF Len(lead) + 1 > Len(all) THEN 0 ELSE Len(all) - (Len(lead) + 1) + 1
    BY <2>1, FS_Interval
  <2> QED  BY <1>1, <2>2
<1> QED  BY <1>4, <1>5 DEF all

\* The stored events that calls owe are those of the stored calls, or of all but
\* the last (service.py:60-77).
LEMMA InvAtMostOneEventMissing == Types /\ RequestsInv => AtMostOneEventMissing
<1> SUFFICES ASSUME Types, RequestsInv, NEW r \in Requests
             PROVE  Len(ToolEvents(toolRows[r]))
                      - Cardinality({i \in DOMAIN eventRows[r] : eventRows[r][i] \in ToolEventTypes})
                    \in {0, 1}
  BY DEF AtMostOneEventMissing, ToolEventTypes
<1> DEFINE c == case[r]
           stored == Len(toolRows[r])
           E(n) == ToolEvents(SubSeq(c.log, 1, n))
           Acted(rows) == Cardinality({i \in DOMAIN rows : rows[i] \in ToolEventTypes})
<1>1. /\ c \in Cases /\ RequestInv(r) /\ Len(c.log) \in Nat /\ c.log \in Seq(CallRecords)
      /\ stored \in 0..Len(c.log) /\ EventsTrail(r)
  <2>1. c \in Cases /\ RequestInv(r) /\ toolRows[r] \in Seq(CallRecords)
    BY DEF Types, RequestsInv
  <2> QED  BY <2>1, CaseFacts DEF RequestInv, CallsByPlace, EventsByPlace
<1>2. toolRows[r] = SubSeq(c.log, 1, stored) /\ (tickets[r] = NoRow => toolRows[r] = <<>>)
  BY <1>1 DEF RequestInv, CallsByPlace
<1>3. ToolEvents(toolRows[r]) = E(stored)
  BY <1>2
<1>4. /\ E(0) = <<>>
      /\ \A n \in 0..Len(c.log) : E(n) \in Seq(ToolEventTypes)
      /\ \A n \in 0..Len(c.log) : n < Len(c.log) => E(n + 1) = WithEventOf(c.log[n + 1], E(n))
  BY <1>1, ToolEventsByCall
<1>5. \A lead \in {<<>>, <<"injection_refused">>, <<"outbound_leak_blocked">>} :
        \A events \in Seq(ToolEventTypes) : Acted(lead \o events) = Len(events)
  <2>1. ASSUME NEW lead \in {<<>>, <<"injection_refused">>, <<"outbound_leak_blocked">>},
               NEW events \in Seq(ToolEventTypes)
        PROVE  Acted(lead \o events) = Len(events)
    <3>1. /\ lead \in Seq(EventTypes) /\ Len(lead) <= 1
          /\ \A i \in 1..Len(lead) : lead[i] \notin ToolEventTypes
      <4>1. CASE lead = <<>>  BY <4>1
      <4>2. CASE lead = <<"injection_refused">>  BY <4>2, Names
      <4>3. CASE lead = <<"outbound_leak_blocked">>  BY <4>3, Names
      <4> QED  BY <4>1, <4>2, <4>3
    <3> QED  BY <3>1, CountsToolEvents
  <2> QED  BY <2>1
<1>6. Lead(c) \in {<<>>, <<"outbound_leak_blocked">>}
  BY DEF Lead
<1>7. \A lead \in {<<>>, <<"injection_refused">>, <<"outbound_leak_blocked">>} : Acted(lead) = 0
  <2>1. \A lead \in {<<>>, <<"injection_refused">>, <<"outbound_leak_blocked">>} : lead \o <<>> = lead
    OBVIOUS
  <2>2. <<>> \in Seq(ToolEventTypes) /\ Len(<<>>) = 0
    OBVIOUS
  <2> HIDE DEF Acted
  <2> QED  BY <1>5, <2>1, <2>2
<1>8. \A n \in 0..Len(c.log) : Acted(Logged(c, n)) = Len(E(n))
  <2>1. \A n : Logged(c, n) = Lead(c) \o E(n)
    BY DEF Logged
  <2> HIDE DEF Acted, E, c
  <2> QED  BY <1>4, <1>5, <1>6, <2>1
<1>9. Len(E(0)) = 0
  BY <1>4
<1> HIDE DEF Acted, E
<1>10. CASE c.decision = "REFUSE"
  <2>1. c.log = <<>> /\ Len(c.log) = 0
    <3>1. Refusal(c.body).log = <<>> /\ Len(<<>>) = 0
      BY DEF Refusal, Initial
    <3> QED  BY <1>1, <1>10, <3>1 DEF RequestInv, DecisionExplains
  <2>2. stored = 0 /\ eventRows[r] \in {<<>>, <<"injection_refused">>}
    BY <1>1, <1>10, <2>1 DEF EventsTrail
  <2>3. Acted(eventRows[r]) = 0 /\ Len(E(stored)) = 0
    BY <1>7, <1>9, <2>2
  <2> QED  BY <1>3, <2>3 DEF Acted
<1>11. CASE c.decision # "REFUSE" /\ tickets[r] = NoRow
  <2>1. stored = 0
    BY <1>2, <1>11
  <2>2. eventRows[r] \in {<<>>, Lead(c)}
    BY <1>1, <1>11 DEF EventsTrail
  <2>3. Acted(eventRows[r]) = 0 /\ Len(E(stored)) = 0
    BY <1>6, <1>7, <1>9, <2>1, <2>2
  <2> QED  BY <1>3, <2>3 DEF Acted
<1>12. CASE c.decision # "REFUSE" /\ tickets[r] # NoRow
  <2>1. Len(E(stored)) \in Nat
    BY <1>1, <1>4
  <2>2. CASE eventRows[r] = Logged(c, stored)
    BY <1>1, <1>3, <1>8, <2>1, <2>2 DEF Acted
  <2>3. CASE /\ stored > 0 /\ c.log[stored].status \in Guarded
             /\ eventRows[r] = Logged(c, stored - 1)
    <3>1. stored - 1 \in 0..Len(c.log) /\ stored - 1 < Len(c.log) /\ (stored - 1) + 1 = stored
      BY <1>1, <2>3
    <3>2. E(stored - 1) \in Seq(ToolEventTypes) /\ E(stored) = WithEventOf(c.log[stored], E(stored - 1))
      BY <1>4, <3>1
    <3>3. Len(E(stored)) = Len(E(stored - 1)) + 1 /\ Len(E(stored - 1)) \in Nat
      BY <2>3, <3>2 DEF WithEventOf
    <3>4. Acted(eventRows[r]) = Len(E(stored - 1))
      BY <1>8, <2>3, <3>1
    <3> QED  BY <1>3, <3>3, <3>4 DEF Acted
  <2> QED  BY <1>1, <1>12, <2>2, <2>3 DEF EventsTrail
<1> QED  BY <1>10, <1>11, <1>12

\* The leak event is only among the rows of a withheld case.
LEMMA LeakEventIsWithheld ==
  ASSUME Types, RequestsInv, NEW r \in Requests,
         NEW i \in DOMAIN eventRows[r], eventRows[r][i] = "outbound_leak_blocked"
  PROVE  case[r].reason.kind = "outbound_leak"
<1> DEFINE c == case[r]
           rows == eventRows[r]
<1>1. c \in Cases /\ EventsTrail(r) /\ Len(toolRows[r]) \in 0..Len(c.log) /\ Len(c.log) \in Nat
      /\ c.log \in Seq(CallRecords)
  <2>1. c \in Cases /\ RequestInv(r) /\ toolRows[r] \in Seq(CallRecords)
    BY DEF Types, RequestsInv
  <2> QED  BY <2>1, CaseFacts DEF RequestInv, CallsByPlace, EventsByPlace
<1>2. SUFFICES ASSUME c.reason.kind # "outbound_leak" PROVE FALSE
  OBVIOUS
<1>3. Lead(c) = <<>>
  BY <1>2 DEF Lead
<1>4. \A n \in 0..Len(c.log) : Logged(c, n) \in Seq(ToolEventTypes)
  <2>1. ASSUME NEW n \in 0..Len(c.log) PROVE Logged(c, n) \in Seq(ToolEventTypes)
    <3>1. ToolEvents(SubSeq(c.log, 1, n)) \in Seq(ToolEventTypes)
      BY <1>1, ToolEventsByCall
    <3> QED  BY <1>3, <3>1 DEF Logged
  <2> QED  BY <2>1
<1>5. rows = <<"injection_refused">> \/ rows \in Seq(ToolEventTypes)
  <2>1. <<>> \in Seq(ToolEventTypes)
    OBVIOUS
  <2>2. Len(toolRows[r]) > 0 => Len(toolRows[r]) - 1 \in 0..Len(c.log)
    BY <1>1
  <2> QED  BY <1>1, <1>3, <1>4, <2>1, <2>2 DEF EventsTrail
<1>6. CASE rows = <<"injection_refused">>
  BY <1>6
<1>7. CASE rows \in Seq(ToolEventTypes)
  <2>1. rows[i] \in ToolEventTypes
    BY <1>7
  <2> QED  BY <2>1, Names
<1> QED  BY <1>5, <1>6, <1>7

\* A resolved draft passed the gate, and a withheld one is gone before its event is
\* logged (service.py:164-172).
LEMMA InvLeakGate == Types /\ RequestsInv => LeakGate
<1> SUFFICES ASSUME Types, RequestsInv, NEW r \in Requests
             PROVE  /\ tickets[r].decision = "RESOLVED" => ~DetectPromptLeak(tickets[r].reply)
                    /\ \A i \in DOMAIN eventRows[r] : eventRows[r][i] = "outbound_leak_blocked" =>
                         /\ tickets[r] # NoRow =>
                              tickets[r].reply = NoText /\ tickets[r].decision = "ESCALATE"
                         /\ response[r].code = 200 => response[r].reply = NoText
  BY DEF LeakGate
<1>1. RequestInv(r) /\ tickets[r] \in {NoRow, TicketRow(case[r])} /\ case[r] \in Cases
  BY DEF Types, RequestsInv, RequestInv, TicketByPlace
<1>2. /\ TicketRow(case[r]).decision = case[r].decision /\ TicketRow(case[r]).reply = case[r].draft
      /\ NoRow.decision = "absent"
      /\ Response(case[r]).reply = case[r].draft
  BY DEF TicketRow, NoRow, Response
<1>3. tickets[r].decision = "RESOLVED" => ~DetectPromptLeak(tickets[r].reply)
  BY <1>1, <1>2, CaseFacts DEF RequestInv, DecisionExplains
<1>4. ASSUME NEW i \in DOMAIN eventRows[r], eventRows[r][i] = "outbound_leak_blocked"
      PROVE  /\ tickets[r] # NoRow => tickets[r].reply = NoText /\ tickets[r].decision = "ESCALATE"
             /\ response[r].code = 200 => response[r].reply = NoText
  <2>1. case[r].decision = "ESCALATE" /\ case[r].draft = NoText
    BY <1>1, <1>4, LeakEventIsWithheld DEF RequestInv, DecisionExplains
  <2> QED  BY <1>1, <1>2, <2>1, InvAnswered
<1> QED  BY <1>3, <1>4

\* A signal and an outcome of the graph exclude each other (service.py:88-117).
LEMMA InvRefusedBeforeModel == Types /\ RequestsInv => RefusedBeforeModel
<1> SUFFICES ASSUME Types, RequestsInv, NEW r \in Requests
             PROVE  /\ "signal" \in case[r].body => outcome[r] = Pending
                    /\ tickets[r] # NoRow =>
                         (tickets[r].decision = "REFUSE" <=> outcome[r] = Pending)
  BY DEF RefusedBeforeModel
<1>1. /\ RequestInv(r) /\ tickets[r] \in {NoRow, TicketRow(case[r])}
      /\ case[r].decision \in Decisions \cup {"none"}
  BY CaseFacts DEF Types, RequestsInv, RequestInv, TicketByPlace
<1>2. TicketRow(case[r]).decision = case[r].decision
  BY DEF TicketRow
<1> QED  BY <1>1, <1>2 DEF RequestInv, DecisionExplains, Decisions

\* A stored or sent text is the case's, which is redacted (service.py:86, 155-156).
LEMMA InvStoredTextIsRedacted == Types /\ RequestsInv => StoredTextIsRedacted
<1> SUFFICES ASSUME Types, RequestsInv, NEW r \in Requests
             PROVE  /\ "pii" \notin tickets[r].body \cup tickets[r].reply
                    /\ response[r].code = 200 => "pii" \notin response[r].reply
  BY DEF StoredTextIsRedacted
<1>1. /\ RequestInv(r) /\ tickets[r] \in {NoRow, TicketRow(case[r])}
      /\ "pii" \notin case[r].body /\ "pii" \notin case[r].draft
  BY CaseFacts DEF Types, RequestsInv, RequestInv, TicketByPlace, DecisionExplains
<1>2. /\ TicketRow(case[r]).body = case[r].body /\ TicketRow(case[r]).reply = case[r].draft
      /\ NoRow.body = {} /\ NoRow.reply = {}
      /\ Response(case[r]).reply = case[r].draft
  BY DEF TicketRow, NoRow, Response, Initial, NoText
<1> QED  BY <1>1, <1>2, InvAnswered

\* The types of the invariant are narrower than TypeOK's.
LEMMA InvTypeOK == Types /\ RequestsInv => TypeOK
<1> SUFFICES ASSUME Types, RequestsInv PROVE TypeOK
  OBVIOUS
<1>1. ASSUME NEW r \in Requests
      PROVE  /\ case[r].body \in TextsMarked(Marks \ {"leak"})
             /\ case[r].draft \in Texts
             /\ case[r].log \in Seq(CallRecords)
             /\ tickets[r] = NoRow \/ tickets[r].decision \in Decisions
             /\ toolRows[r] \in Seq(CallRecords)
             /\ eventRows[r] \in Seq(EventTypes)
             /\ next[r] \in Nat \ {0}
             /\ event[r] \in EventTypes \cup {"none"}
  <2>1. case[r] \in Cases /\ RequestInv(r)
    BY DEF Types, RequestsInv
  <2>2. case[r].draft \in Texts
    <3>1. RedactedTexts \subseteq Texts
      BY DEF RedactedTexts, Texts, TextsMarked
    <3> QED  BY <2>1, <3>1 DEF Cases
  <2>3. tickets[r] = NoRow \/ tickets[r].decision \in Decisions
    <3>1. TicketRow(case[r]).decision = case[r].decision
      BY DEF TicketRow
    <3> QED  BY <2>1, <3>1, CaseFacts DEF RequestInv, DecisionExplains, TicketByPlace
  <2> QED  BY <2>1, <2>2, <2>3, CaseFacts DEF Cases, Types, Logging
<1> QED  BY <1>1 DEF Types, TypeOK, Places, Counters

-----------------------------------------------------------------------------
(* The counters *)

\* What a step of request r does to what is counted: the calls, the events, the
\* cases and the token sources.
CallsEffect(r) ==
  \/ InsertToolCall(r)
  \/ CountToolCall(r)
  \/ /\ pc[r] # "count_call" /\ pc'[r] # "count_call"
     /\ UNCHANGED toolRows /\ metrics'.tools = metrics.tools
EventsEffect(r) ==
  \/ InsertEvent(r)
  \/ CountEvent(r)
  \/ /\ pc[r] # "count_event" /\ pc'[r] # "count_event"
     /\ UNCHANGED eventRows /\ metrics'.events = metrics.events
CasesEffect(r) ==
  \/ CountCase(r)
  \/ /\ pc[r] \in {"respond", "answered"} <=> pc'[r] \in {"respond", "answered"}
     /\ pc[r] \in {"respond", "answered"} => case'[r].decision = case[r].decision
     /\ metrics'.cases = metrics.cases
SourcesEffect(r) ==
  \/ Account(r)
  \/ /\ HasSource(r) => HasSource(r)'
     /\ NeedsSource(r)' => NeedsSource(r)
     /\ metrics'.sources = metrics.sources
Effects(r) ==
  /\ Others(r) /\ crashes' = crashes
  /\ CallsEffect(r) /\ EventsEffect(r) /\ CasesEffect(r) /\ SourcesEffect(r)

\* Each step is one counter's bump, one row's insert, or none of what is counted
\* (service.py:41-42, 60-67, 182-203).
LEMMA StepEffects ==
  ASSUME Types, RequestsInv, NEW r \in Requests, Receive(r) \/ Step(r) \/ InsertFails(r)
  PROVE  Effects(r)
<1> USE DEF Effects, CallsEffect, EventsEffect, CasesEffect, SourcesEffect,
            HasSource, NeedsSource, Goto, LogsLeak, tables, Others, Same
<1>1. RequestInv(r) /\ case[r] \in Cases /\ metrics \in Counters /\ pc \in [Requests -> Places]
      /\ event \in [Requests -> Logging]
  BY DEF Types, RequestsInv
<1>2. CASE Receive(r)
  <2>1. outcome[r] = Pending /\ pc[r] = "idle"
    BY <1>2, BeforeOutbound DEF Receive
  <2> QED  BY <1>2, <2>1 DEF Receive, Types
<1>3. CASE InvokeGraph(r)
  <2>1. tickets[r] = NoRow
    BY <1>3, BeforeOutbound DEF InvokeGraph
  <2> QED  BY <1>3, <2>1 DEF InvokeGraph, Types
<1>4. CASE GuardOutbound(r)
  <2>1. UNCHANGED <<outcome, next, response, tickets, toolRows, eventRows, metrics, crashes>>
        /\ pc[r] = "outbound"
    BY <1>4 DEF GuardOutbound
  <2>2. \E to \in {"event", "account"} : pc' = [pc EXCEPT ![r] = to]
    BY <1>4 DEF GuardOutbound
  <2>3. \A q \in Requests \ {r} : case'[q] = case[q] /\ event'[q] = event[q]
    BY <1>4 DEF GuardOutbound, LogEvent, Types
  <2> QED  BY <1>1, <2>1, <2>2, <2>3
<1>5. CASE Account(r)
  <2>1. PICK source \in Sources : metrics' = Bump("sources", source)
    BY <1>5 DEF Account
  <2>2. metrics'.tools = metrics.tools /\ metrics'.events = metrics.events
        /\ metrics'.cases = metrics.cases
    <3>1. Bumped("sources", source)
      BY <1>1, BumpFacts
    <3> QED  BY <2>1, <3>1 DEF Bumped
  <2> QED  BY <1>1, <1>5, <2>2 DEF Account
<1>6. CASE InsertTicket(r)
  BY <1>1, <1>6 DEF InsertTicket, Types
<1>7. CASE InsertToolCall(r)
  BY <1>1, <1>7 DEF InsertToolCall, Types
<1>8. CASE CountToolCall(r)
  <2>1. /\ pc[r] = "count_call"
        /\ UNCHANGED <<case, outcome, response, tickets, toolRows, eventRows, crashes>>
        /\ metrics' = Bump("tools", case[r].log[next[r]].status)
    BY <1>8 DEF CountToolCall
  <2>2. next[r] \in 1..Len(case[r].log)
    BY <1>1, <2>1, CaseFacts DEF RequestInv, CallsByPlace, Types
  <2>3. metrics'.cases = metrics.cases /\ metrics'.events = metrics.events
        /\ metrics'.sources = metrics.sources
    <3>1. Bumped("tools", case[r].log[next[r]].status)
      BY <1>1, <2>2, EventOfCall, BumpFacts
    <3> QED  BY <2>1, <3>1 DEF Bumped
  <2>4. \/ pc' = [pc EXCEPT ![r] = "calls"] /\ next' = [next EXCEPT ![r] = @ + 1] /\ UNCHANGED event
        \/ /\ pc' = [pc EXCEPT ![r] = "event"] /\ UNCHANGED next
           /\ event' = [event EXCEPT ![r] = EventOf(case[r].log[next[r]].status)]
    BY <1>8 DEF CountToolCall, LogEvent
  <2>5. EventOf(case[r].log[next[r]].status) # "outbound_leak_blocked"
    BY <1>1, <2>2, EventOfCall, Names
  <2> QED  BY <1>1, <1>8, <2>1, <2>3, <2>4, <2>5 DEF Types
<1>9. CASE CallsDone(r)
  <2>1. /\ pc[r] = "calls"
        /\ UNCHANGED <<case, outcome, next, response, tickets, toolRows, eventRows, metrics, crashes>>
    BY <1>9 DEF CallsDone
  <2>2. \/ pc' = [pc EXCEPT ![r] = "count_case"] /\ UNCHANGED event
        \/ pc' = [pc EXCEPT ![r] = "event"] /\ event' = [event EXCEPT ![r] = "injection_refused"]
    BY <1>9 DEF CallsDone, LogEvent
  <2> QED  BY <1>1, <2>1, <2>2
<1>10. CASE InsertEvent(r)
  BY <1>1, <1>10 DEF InsertEvent, Types
<1>11. CASE CountEvent(r)
  <2>1. /\ pc[r] = "count_event" /\ metrics' = Bump("events", event[r])
        /\ UNCHANGED <<case, outcome, event, response, tickets, toolRows, eventRows, crashes>>
    BY <1>11 DEF CountEvent
  <2>2. event[r] \in EventTypes /\ (event[r] = "outbound_leak_blocked" => tickets[r] = NoRow)
    BY <2>1, AtEvent, Names
  <2>3. metrics'.cases = metrics.cases /\ metrics'.tools = metrics.tools
        /\ metrics'.sources = metrics.sources
    BY ZenonT(30), <1>1, <2>1, <2>2, BumpFacts DEF Bumped
  <2>4. \/ pc' = [pc EXCEPT ![r] = "account"] /\ UNCHANGED next /\ event[r] = "outbound_leak_blocked"
        \/ pc' = [pc EXCEPT ![r] = "count_case"] /\ UNCHANGED next
        \/ pc' = [pc EXCEPT ![r] = "calls"] /\ next' = [next EXCEPT ![r] = @ + 1]
    BY <1>11 DEF CountEvent
  <2> QED  BY <1>1, <1>11, <2>1, <2>2, <2>3, <2>4 DEF Types
<1>12. CASE CountCase(r)
  <2>1. /\ pc[r] = "count_case" /\ pc' = [pc EXCEPT ![r] = "respond"]
        /\ metrics' = Bump("cases", case[r].decision)
        /\ UNCHANGED <<case, outcome, next, event, response, tickets, toolRows, eventRows, crashes>>
    BY <1>12 DEF CountCase
  <2>2. case[r].decision \in Decisions
    BY <1>1, <2>1, CaseFacts DEF RequestInv, DecisionExplains
  <2>3. metrics'.tools = metrics.tools /\ metrics'.events = metrics.events
        /\ metrics'.sources = metrics.sources
    BY ZenonT(30), <1>1, <2>1, <2>2, BumpFacts DEF Bumped
  <2> QED  BY <1>1, <1>12, <2>1, <2>3
<1>13. CASE Respond(r)
  BY <1>1, <1>13 DEF Respond, Types
<1>14. CASE InsertFails(r)
  <2>1. /\ pc[r] \in {"ticket", "event", "calls"} /\ pc' = [pc EXCEPT ![r] = "failed"]
        /\ response' = [response EXCEPT ![r] = ServerError]
        /\ UNCHANGED <<case, outcome, next, event, tickets, toolRows, eventRows, metrics, crashes>>
    BY <1>14 DEF InsertFails, AtInsert
  <2> QED  BY <1>1, <2>1 DEF Types
<1> QED
  BY <1>2, <1>3, <1>4, <1>5, <1>6, <1>7, <1>8, <1>9, <1>10, <1>11, <1>12, <1>13, <1>14 DEF Step

\* A request's step moves only itself in and out of what is being counted.
LEMMA CountingMoves ==
  ASSUME NEW r \in Requests, Others(r)
  PROVE  /\ \A s : CountingCall(s)' \ {r} = CountingCall(s) \ {r}
         /\ \A e : CountingEvent(e)' \ {r} = CountingEvent(e) \ {r}
         /\ \A d : CountedCases(d)' \ {r} = CountedCases(d) \ {r}
         /\ Sourced' \ {r} = Sourced \ {r}
         /\ SourcedSurely' \ {r} = SourcedSurely \ {r}
<1>1. \A s : CountingCall(s)' \ {r} = CountingCall(s) \ {r}
  BY DEF Others, Same, CountingCall, At
<1>2. \A e : CountingEvent(e)' \ {r} = CountingEvent(e) \ {r}
  BY DEF Others, Same, CountingEvent, At
<1>3. \A d : CountedCases(d)' \ {r} = CountedCases(d) \ {r}
  BY DEF Others, Same, CountedCases, At
<1>4. Sourced' \ {r} = Sourced \ {r} /\ SourcedSurely' \ {r} = SourcedSurely \ {r}
  BY DEF Others, Same, Sourced, SourcedSurely, HasSource, NeedsSource, LogsLeak
<1> QED  BY <1>1, <1>2, <1>3, <1>4

\* These sets are sets of requests, and finite.
LEMMA CountingFinite ==
  /\ \A s : IsFiniteSet(CountingCall(s)) /\ CountingCall(s) \subseteq Requests
  /\ \A e : IsFiniteSet(CountingEvent(e)) /\ CountingEvent(e) \subseteq Requests
  /\ \A d : IsFiniteSet(CountedCases(d)) /\ CountedCases(d) \subseteq Requests
  /\ IsFiniteSet(Sourced) /\ IsFiniteSet(SourcedSurely)
<1>1. /\ \A s : CountingCall(s) \subseteq Requests
      /\ \A e : CountingEvent(e) \subseteq Requests
      /\ \A d : CountedCases(d) \subseteq Requests
      /\ Sourced \subseteq Requests /\ SourcedSurely \subseteq Requests
  BY DEF CountingCall, CountingEvent, CountedCases, At, Sourced, SourcedSurely
<1> QED  BY <1>1, FS_Subset, ServiceAssumption

\* No table of one case is longer than its log and its lead.
RowsFit == \A r \in Requests : Len(toolRows[r]) <= MaxPlan /\ Len(eventRows[r]) <= MaxPlan + 1

\* The bounds of the counted positions leave out no row.
LEMMA RowsAreShort == Types /\ RequestsInv => RowsFit
<1> SUFFICES ASSUME Types, RequestsInv, NEW r \in Requests
             PROVE  Len(toolRows[r]) <= MaxPlan /\ Len(eventRows[r]) <= MaxPlan + 1
  BY DEF RowsFit
<1> DEFINE c == case[r]
           stored == Len(toolRows[r])
<1>1. /\ c \in Cases /\ EventsTrail(r) /\ Len(c.log) \in 0..MaxPlan /\ MaxPlan \in Nat
      /\ stored \in 0..Len(c.log)
  <2>1. c \in Cases /\ RequestInv(r) /\ toolRows[r] \in Seq(CallRecords)
    BY DEF Types, RequestsInv
  <2> QED  BY <2>1, CaseFacts, VocabularyAssumption DEF RequestInv, CallsByPlace, EventsByPlace
<1>2. Len(<<>>) = 0 /\ Len(<<"injection_refused">>) = 1 /\ Len(<<"outbound_leak_blocked">>) = 1
  OBVIOUS
<1>3. Lead(c) \in {<<>>, <<"outbound_leak_blocked">>}
  BY DEF Lead
<1>4. \A n \in 0..Len(c.log) : Len(Logged(c, n)) <= n + 1 /\ Len(Logged(c, n)) \in Nat
  BY <1>1, LoggedFacts
<1>5. Len(eventRows[r]) \in {0, 1} \/ \E n \in 0..Len(c.log) : eventRows[r] = Logged(c, n)
  <2>1. stored > 0 => stored - 1 \in 0..Len(c.log)
    BY <1>1
  <2> QED  BY <1>1, <1>2, <1>3, <2>1 DEF EventsTrail
<1>6. Len(eventRows[r]) <= MaxPlan + 1
  <2>1. CASE Len(eventRows[r]) \in {0, 1}
    <3>1. \A k \in {0, 1} : k <= MaxPlan + 1
      BY <1>1
    <3> QED  BY <2>1, <3>1
  <2>2. ASSUME NEW n \in 0..Len(c.log), eventRows[r] = Logged(c, n)
        PROVE  Len(eventRows[r]) <= MaxPlan + 1
    <3>1. Len(eventRows[r]) <= n + 1 /\ Len(eventRows[r]) \in Nat
      BY <1>4, <2>2
    <3>2. n \in Nat /\ n <= MaxPlan
      BY <1>1
    <3> QED  BY <1>1, <3>1, <3>2
  <2> QED  BY <1>5, <2>1, <2>2
<1>7. stored <= MaxPlan
  BY <1>1
<1> QED  BY <1>6, <1>7

\* The properties' tables in the form of the counting lemma.
WithStatus(s) == {call \in CallRecords : call.status = s}

\* They are the same rows, before a step and after it.
LEMMA RowsAsRowsIn ==
  ASSUME Types, Types'
  PROVE  /\ \A s : /\ ToolRowsWith(s) = RowsIn(Requests, toolRows, MaxPlan, WithStatus(s))
                  /\ ToolRowsWith(s)' = RowsIn(Requests, toolRows', MaxPlan, WithStatus(s))
         /\ \A e : /\ EventRowsWith(e) = RowsIn(Requests, eventRows, MaxPlan + 1, {e})
                  /\ EventRowsWith(e)' = RowsIn(Requests, eventRows', MaxPlan + 1, {e})
<1>1. \A q \in Requests : /\ \A i \in DOMAIN toolRows[q] : toolRows[q][i] \in CallRecords
                         /\ \A i \in DOMAIN toolRows'[q] : toolRows'[q][i] \in CallRecords
  BY DEF Types
<1>2. \A s : ToolRowsWith(s) = RowsIn(Requests, toolRows, MaxPlan, WithStatus(s))
  BY <1>1 DEF ToolRowsWith, RowsIn, WithStatus
<1>3. \A s : ToolRowsWith(s)' = RowsIn(Requests, toolRows', MaxPlan, WithStatus(s))
  BY <1>1 DEF ToolRowsWith, RowsIn, WithStatus
<1>4. \A e : /\ EventRowsWith(e) = RowsIn(Requests, eventRows, MaxPlan + 1, {e})
             /\ EventRowsWith(e)' = RowsIn(Requests, eventRows', MaxPlan + 1, {e})
  BY DEF EventRowsWith, RowsIn
<1> QED  BY <1>2, <1>3, <1>4

\* A call's row is counted by the next step of its thread (service.py:60-67).
LEMMA CallsStayCounted ==
  ASSUME Types, Types', RequestsInv, CallsCounted, NEW r \in Requests, Effects(r)
  PROVE  CallsCounted'
<1> SUFFICES ASSUME NEW s \in Statuses
             PROVE  LET counted == metrics.tools[s] + Cardinality(CountingCall(s))
                        stored  == Cardinality(ToolRowsWith(s))
                    IN  (counted <= stored /\ (crashes = 0 => counted = stored))'
  BY DEF CallsCounted
<1> DEFINE A == CountingCall(s)
           B == CountingCall(s)'
           before == Cardinality(ToolRowsWith(s))
           after == Cardinality(ToolRowsWith(s)')
           m == metrics.tools[s]
           n == metrics'.tools[s]
<1>1. /\ m + Cardinality(A) <= before
      /\ crashes = 0 => m + Cardinality(A) = before
      /\ crashes' = crashes
  BY DEF CallsCounted, Effects
<1>2. m \in Nat /\ MaxPlan \in Nat
  BY VocabularyAssumption DEF Types, Counters
<1>3. before \in Nat
  <2>1. IsFiniteSet(1..MaxPlan)
    BY <1>2, FS_Interval
  <2>2. IsFiniteSet(Requests \X (1..MaxPlan))
    BY <2>1, ServiceAssumption, FS_Product
  <2>3. ToolRowsWith(s) \subseteq Requests \X (1..MaxPlan)
    BY DEF ToolRowsWith
  <2> QED  BY <2>2, <2>3, FS_Subset, FS_CardinalityType
<1>4. /\ Cardinality(A) \in Nat /\ Cardinality(B) \in Nat
      /\ r \in A /\ r \in B => Cardinality(B) = Cardinality(A)
      /\ r \notin A /\ r \notin B => Cardinality(B) = Cardinality(A)
      /\ r \notin A /\ r \in B => Cardinality(B) = Cardinality(A) + 1
      /\ r \in A /\ r \notin B => Cardinality(B) = Cardinality(A) - 1
  <2>1. IsFiniteSet(A) /\ B \ {r} = A \ {r}
    BY CountingFinite, CountingMoves DEF Effects
  <2> HIDE DEF A, B
  <2> QED  BY <2>1, ChangeOne
<1>5. CASE InsertToolCall(r)
  <2> DEFINE call == case[r].log[next[r]]
  <2>1. /\ pc[r] = "calls" /\ pc' = [pc EXCEPT ![r] = "count_call"] /\ UNCHANGED <<case, next, metrics>>
        /\ next[r] <= Len(case[r].log) /\ toolRows' = [toolRows EXCEPT ![r] = Append(@, call)]
    BY <1>5 DEF InsertToolCall, Goto
  <2>2. call \in CallRecords
    <3>1. case[r] \in Cases /\ next[r] \in 1..Len(case[r].log)
      BY <2>1, CaseFacts DEF Types
    <3> QED  BY <3>1, EventOfCall
  <2>3. r \notin A /\ (r \in B <=> call.status = s)
    BY <2>1 DEF CountingCall, At, Types
  <2>4. Len(toolRows[r]) < MaxPlan
    <3>1. Len(toolRows[r]) = next[r] - 1 /\ case[r] \in Cases /\ next[r] \in Nat
      BY <2>1 DEF RequestsInv, RequestInv, CallsByPlace, LogsCall, Types
    <3> QED  BY <1>2, <2>1, <3>1, CaseFacts
  <2>5. toolRows \in [Requests -> Seq(CallRecords)]
    BY DEF Types
  <2>6. /\ call \in WithStatus(s) => after = before + 1
        /\ call \notin WithStatus(s) => after = before
    <3>1. /\ ToolRowsWith(s) = RowsIn(Requests, toolRows, MaxPlan, WithStatus(s))
          /\ ToolRowsWith(s)' = RowsIn(Requests, toolRows', MaxPlan, WithStatus(s))
      BY RowsAsRowsIn
    <3> DEFINE Q == WithStatus(s)
    <3> HIDE DEF call, Q, A, B, m, n
    <3>2. /\ toolRows \in TablesOf(Requests, CallRecords) /\ IsFiniteSet(Requests)
          /\ toolRows' = Appended(toolRows, r, call)
      BY <2>1, <2>5, ServiceAssumption DEF TablesOf, Appended
    <3>3. /\ call \in Q => Cardinality(RowsIn(Requests, toolRows', MaxPlan, Q))
                           = Cardinality(RowsIn(Requests, toolRows, MaxPlan, Q)) + 1
          /\ call \notin Q => Cardinality(RowsIn(Requests, toolRows', MaxPlan, Q))
                              = Cardinality(RowsIn(Requests, toolRows, MaxPlan, Q))
      BY <1>2, <2>2, <2>4, <3>2, AppendRow
    <3> QED  BY <3>1, <3>3 DEF Q
  <2>7. call \in WithStatus(s) <=> call.status = s
    BY <2>2 DEF WithStatus
  <2>8. n = m
    BY <2>1
  <2> HIDE DEF call, A, B, before, after, m, n
  <2> QED  BY <1>1, <1>2, <1>3, <1>4, <2>3, <2>6, <2>7, <2>8 DEF A, B, before, after, m, n
<1>6. CASE CountToolCall(r)
  <2> DEFINE status == case[r].log[next[r]].status
  <2>1. /\ pc[r] = "count_call" /\ metrics' = Bump("tools", status)
        /\ pc'[r] # "count_call" /\ UNCHANGED toolRows
    BY <1>6 DEF CountToolCall, Goto, tables, Types
  <2>2. status \in Statuses
    <3>1. case[r] \in Cases /\ next[r] \in 1..Len(case[r].log)
      BY <2>1, CaseFacts DEF RequestsInv, RequestInv, CallsByPlace, Types
    <3> QED  BY <3>1, EventOfCall
  <2>3. r \notin B /\ (r \in A <=> status = s)
    BY <2>1 DEF CountingCall, At
  <2>4. after = before
    BY <2>1 DEF ToolRowsWith
  <2>5. n = IF status = s THEN m + 1 ELSE m
    <3>1. Bumped("tools", status) /\ metrics.tools \in [Statuses -> Nat]
      BY <2>2, BumpFacts DEF Types, Counters
    <3>2. metrics'.tools = [metrics.tools EXCEPT ![status] = @ + 1]
      BY <2>1, <3>1 DEF Bumped
    <3> HIDE DEF status
    <3> QED  BY <2>2, <3>1, <3>2
  <2> HIDE DEF status, A, B, before, after, m, n
  <2> QED  BY <1>1, <1>2, <1>3, <1>4, <2>3, <2>4, <2>5 DEF A, B, before, after, m, n
<1>7. CASE /\ pc[r] # "count_call" /\ pc'[r] # "count_call"
           /\ UNCHANGED toolRows /\ metrics'.tools = metrics.tools
  <2>1. r \notin A /\ r \notin B /\ after = before /\ n = m
    BY <1>7 DEF CountingCall, At, ToolRowsWith
  <2> HIDE DEF A, B, before, after, m, n
  <2> QED  BY <1>1, <1>4, <2>1 DEF A, B, before, after, m, n
<1> QED  BY <1>5, <1>6, <1>7 DEF Effects, CallsEffect

\* An event's row is counted by the next step of its thread (service.py:40-42).
LEMMA EventsStayCounted ==
  ASSUME Types, Types', RequestsInv, RequestsInv', EventsCounted, NEW r \in Requests, Effects(r)
  PROVE  EventsCounted'
<1> SUFFICES ASSUME NEW e \in EventTypes
             PROVE  LET counted == metrics.events[e] + Cardinality(CountingEvent(e))
                        stored  == Cardinality(EventRowsWith(e))
                    IN  (counted <= stored /\ (crashes = 0 => counted = stored))'
  BY DEF EventsCounted
<1> DEFINE A == CountingEvent(e)
           B == CountingEvent(e)'
           before == Cardinality(EventRowsWith(e))
           after == Cardinality(EventRowsWith(e)')
           m == metrics.events[e]
           n == metrics'.events[e]
<1>1. /\ m + Cardinality(A) <= before
      /\ crashes = 0 => m + Cardinality(A) = before
      /\ crashes' = crashes
  BY DEF EventsCounted, Effects
<1>2. m \in Nat /\ MaxPlan \in Nat /\ MaxPlan + 1 \in Nat
  BY VocabularyAssumption DEF Types, Counters
<1>3. before \in Nat
  <2>1. IsFiniteSet(1..MaxPlan + 1)
    BY <1>2, FS_Interval
  <2>2. IsFiniteSet(Requests \X (1..MaxPlan + 1))
    BY <2>1, ServiceAssumption, FS_Product
  <2>3. EventRowsWith(e) \subseteq Requests \X (1..MaxPlan + 1)
    BY DEF EventRowsWith
  <2> QED  BY <2>2, <2>3, FS_Subset, FS_CardinalityType
<1>4. /\ Cardinality(A) \in Nat /\ Cardinality(B) \in Nat
      /\ r \in A /\ r \in B => Cardinality(B) = Cardinality(A)
      /\ r \notin A /\ r \notin B => Cardinality(B) = Cardinality(A)
      /\ r \notin A /\ r \in B => Cardinality(B) = Cardinality(A) + 1
      /\ r \in A /\ r \notin B => Cardinality(B) = Cardinality(A) - 1
  <2>1. IsFiniteSet(A) /\ B \ {r} = A \ {r}
    BY CountingFinite, CountingMoves DEF Effects
  <2> HIDE DEF A, B
  <2> QED  BY <2>1, ChangeOne
<1>5. CASE InsertEvent(r)
  <2>1. /\ pc[r] = "event" /\ pc' = [pc EXCEPT ![r] = "count_event"] /\ UNCHANGED <<event, metrics>>
        /\ eventRows' = [eventRows EXCEPT ![r] = Append(@, event[r])]
    BY <1>5 DEF InsertEvent, Goto
  <2>2. event[r] \in EventTypes
    BY <2>1, AtEvent
  <2>3. r \notin A /\ (r \in B <=> event[r] = e)
    BY <2>1 DEF CountingEvent, At, Types
  <2>4. eventRows \in [Requests -> Seq(EventTypes)]
    BY DEF Types
  <2>5. Len(eventRows[r]) < MaxPlan + 1
    <3>1. (Types /\ RequestsInv => RowsFit)'
      BY RowsAreShort, PTL
    <3>2. Len(eventRows'[r]) <= MaxPlan + 1
      BY <3>1 DEF RowsFit
    <3>3. Len(eventRows'[r]) = Len(eventRows[r]) + 1 /\ Len(eventRows[r]) \in Nat
      BY <2>1, <2>2, <2>4
    <3> QED  BY <1>2, <3>2, <3>3
  <2>6. /\ event[r] \in {e} => after = before + 1
        /\ event[r] \notin {e} => after = before
    <3>1. /\ EventRowsWith(e) = RowsIn(Requests, eventRows, MaxPlan + 1, {e})
          /\ EventRowsWith(e)' = RowsIn(Requests, eventRows', MaxPlan + 1, {e})
      BY RowsAsRowsIn
    <3> DEFINE Q == {e}
               limit == MaxPlan + 1
    <3> HIDE DEF Q, limit, A, B, m, n
    <3>2. /\ eventRows \in TablesOf(Requests, EventTypes) /\ IsFiniteSet(Requests)
          /\ eventRows' = Appended(eventRows, r, event[r])
      BY <2>1, <2>4, ServiceAssumption DEF TablesOf, Appended
    <3>3. limit \in Nat /\ Len(eventRows[r]) < limit
      BY <1>2, <2>5 DEF limit
    <3>4. /\ event[r] \in Q => Cardinality(RowsIn(Requests, eventRows', limit, Q))
                               = Cardinality(RowsIn(Requests, eventRows, limit, Q)) + 1
          /\ event[r] \notin Q => Cardinality(RowsIn(Requests, eventRows', limit, Q))
                                  = Cardinality(RowsIn(Requests, eventRows, limit, Q))
      BY <2>2, <3>2, <3>3, AppendRow
    <3> QED  BY <3>1, <3>4 DEF Q, limit
  <2>7. n = m
    BY <2>1
  <2> HIDE DEF A, B, before, after, m, n
  <2> QED  BY <1>1, <1>2, <1>3, <1>4, <2>3, <2>6, <2>7 DEF A, B, before, after, m, n
<1>6. CASE CountEvent(r)
  <2>1. /\ pc[r] = "count_event" /\ metrics' = Bump("events", event[r])
        /\ pc'[r] # "count_event" /\ UNCHANGED eventRows
    BY <1>6 DEF CountEvent, Goto, tables, Types
  <2>2. event[r] \in EventTypes
    BY <2>1, AtEvent
  <2>3. r \notin B /\ (r \in A <=> event[r] = e)
    BY <2>1 DEF CountingEvent, At
  <2>4. after = before
    BY <2>1 DEF EventRowsWith
  <2>5. n = IF event[r] = e THEN m + 1 ELSE m
    <3>1. Bumped("events", event[r]) /\ metrics.events \in [EventTypes -> Nat]
      BY <2>2, BumpFacts DEF Types, Counters
    <3>2. metrics'.events = [metrics.events EXCEPT ![event[r]] = @ + 1]
      BY <2>1, <3>1 DEF Bumped
    <3> QED  BY <2>2, <3>1, <3>2
  <2> HIDE DEF A, B, before, after, m, n
  <2> QED  BY <1>1, <1>2, <1>3, <1>4, <2>3, <2>4, <2>5 DEF A, B, before, after, m, n
<1>7. CASE /\ pc[r] # "count_event" /\ pc'[r] # "count_event"
           /\ UNCHANGED eventRows /\ metrics'.events = metrics.events
  <2>1. r \notin A /\ r \notin B /\ after = before /\ n = m
    BY <1>7 DEF CountingEvent, At, EventRowsWith
  <2> HIDE DEF A, B, before, after, m, n
  <2> QED  BY <1>1, <1>4, <2>1 DEF A, B, before, after, m, n
<1> QED  BY <1>5, <1>6, <1>7 DEF Effects, EventsEffect

\* A case is counted by its decision once, before its answer (service.py:203).
LEMMA CasesStayCounted ==
  ASSUME Types, Types', RequestsInv, CasesCounted, NEW r \in Requests, Effects(r)
  PROVE  CasesCounted'
<1> SUFFICES ASSUME NEW d \in Decisions
             PROVE  LET counted == metrics.cases[d]
                        cases   == Cardinality(CountedCases(d))
                    IN  (counted <= cases /\ (crashes = 0 => counted = cases))'
  BY DEF CasesCounted
<1> DEFINE A == CountedCases(d)
           B == CountedCases(d)'
           m == metrics.cases[d]
           n == metrics'.cases[d]
<1>1. /\ m <= Cardinality(A)
      /\ crashes = 0 => m = Cardinality(A)
      /\ crashes' = crashes
      /\ m \in Nat
  BY DEF CasesCounted, Effects, Types, Counters
<1>2. /\ Cardinality(A) \in Nat /\ Cardinality(B) \in Nat
      /\ r \in A /\ r \in B => Cardinality(B) = Cardinality(A)
      /\ r \notin A /\ r \notin B => Cardinality(B) = Cardinality(A)
      /\ r \notin A /\ r \in B => Cardinality(B) = Cardinality(A) + 1
  <2>1. IsFiniteSet(A) /\ B \ {r} = A \ {r}
    BY CountingFinite, CountingMoves DEF Effects
  <2> HIDE DEF A, B
  <2> QED  BY <2>1, ChangeOne
<1>3. CASE CountCase(r)
  <2>1. /\ pc[r] = "count_case" /\ pc' = [pc EXCEPT ![r] = "respond"]
        /\ metrics' = Bump("cases", case[r].decision) /\ UNCHANGED case
    BY <1>3 DEF CountCase, Goto
  <2>2. case[r].decision \in Decisions
    BY <2>1, CaseFacts DEF Types, RequestsInv, RequestInv, DecisionExplains
  <2>3. r \notin A /\ (r \in B <=> case[r].decision = d)
    BY <2>1 DEF CountedCases, At, Types
  <2>4. n = IF case[r].decision = d THEN m + 1 ELSE m
    <3>1. Bumped("cases", case[r].decision) /\ metrics.cases \in [Decisions -> Nat]
      BY <2>2, BumpFacts DEF Types, Counters
    <3>2. metrics'.cases = [metrics.cases EXCEPT ![case[r].decision] = @ + 1]
      BY <2>1, <3>1 DEF Bumped
    <3> QED  BY <2>2, <3>1, <3>2
  <2> HIDE DEF A, B, m, n
  <2> QED  BY <1>1, <1>2, <2>3, <2>4 DEF A, B, m, n
<1>4. CASE /\ pc[r] \in {"respond", "answered"} <=> pc'[r] \in {"respond", "answered"}
           /\ pc[r] \in {"respond", "answered"} => case'[r].decision = case[r].decision
           /\ metrics'.cases = metrics.cases
  <2>1. n = m /\ (r \in A <=> r \in B)
    BY <1>4 DEF CountedCases, At
  <2> HIDE DEF A, B, m, n
  <2> QED  BY <1>1, <1>2, <2>1 DEF A, B, m, n
<1> QED  BY <1>3, <1>4 DEF Effects, CasesEffect

\* Every case that goes on to be stored after the graph has a source, and one
\* only (service.py:182-189).
LEMMA SourcesStayCounted ==
  ASSUME Types, Types', RequestsInv, SourcesCounted, NEW r \in Requests, Effects(r)
  PROVE  SourcesCounted'
<1> DEFINE A == Sourced
           B == Sourced'
           C == SourcedSurely
           D == SourcedSurely'
           m == metrics.sources.provider + metrics.sources.estimated
           n == metrics'.sources.provider + metrics'.sources.estimated
<1>1. /\ m <= Cardinality(A)
      /\ crashes = 0 => m >= Cardinality(C)
      /\ crashes' = crashes
  BY DEF SourcesCounted, Effects
<1>2. m \in Nat
  BY DEF Types, Counters, Sources
<1>3. /\ Cardinality(A) \in Nat /\ Cardinality(B) \in Nat
      /\ r \in A /\ r \in B => Cardinality(B) = Cardinality(A)
      /\ r \notin A /\ r \notin B => Cardinality(B) = Cardinality(A)
      /\ r \notin A /\ r \in B => Cardinality(B) = Cardinality(A) + 1
  <2>1. IsFiniteSet(A) /\ B \ {r} = A \ {r}
    BY CountingFinite, CountingMoves DEF Effects
  <2> HIDE DEF A, B
  <2> QED  BY <2>1, ChangeOne
<1>4. /\ Cardinality(C) \in Nat /\ Cardinality(D) \in Nat
      /\ r \in C /\ r \in D => Cardinality(D) = Cardinality(C)
      /\ r \notin C /\ r \notin D => Cardinality(D) = Cardinality(C)
      /\ r \notin C /\ r \in D => Cardinality(D) = Cardinality(C) + 1
      /\ r \in C /\ r \notin D => Cardinality(D) = Cardinality(C) - 1
  <2>1. IsFiniteSet(C) /\ D \ {r} = C \ {r}
    BY CountingFinite, CountingMoves DEF Effects
  <2> HIDE DEF C, D
  <2> QED  BY <2>1, ChangeOne
<1>5. CASE Account(r)
  <2>1. /\ pc[r] = "account" /\ pc'[r] = "ticket" /\ UNCHANGED outcome
        /\ \E source \in Sources : metrics' = Bump("sources", source)
    BY <1>5 DEF Account, Goto, Types
  <2>2. outcome[r] # Pending
    BY <2>1, CaseFacts DEF Types, RequestsInv, RequestInv, DecisionExplains, Decisions
  <2>3. r \notin A /\ r \in B
    BY <2>1, <2>2 DEF Sourced, HasSource, LogsLeak
  <2>4. n = m + 1
    <3>1. PICK source \in Sources : metrics' = Bump("sources", source)
      BY <2>1
    <3>2. Bumped("sources", source) /\ metrics.sources \in [Sources -> Nat]
      BY <3>1, BumpFacts DEF Types, Counters
    <3>3. metrics'.sources = [metrics.sources EXCEPT ![source] = @ + 1]
      BY <3>1, <3>2 DEF Bumped
    <3>4. CASE source = "provider"
      BY <3>2, <3>3, <3>4 DEF Sources
    <3>5. CASE source = "estimated"
      BY <3>2, <3>3, <3>5 DEF Sources
    <3> QED  BY <3>4, <3>5 DEF Sources
  <2> HIDE DEF A, B, C, D, m, n
  <2>5. Cardinality(D) <= Cardinality(C) + 1
    BY <1>4
  <2> QED  BY <1>1, <1>2, <1>3, <1>4, <2>3, <2>4, <2>5 DEF A, B, C, D, m, n, SourcesCounted
<1>6. CASE /\ HasSource(r) => HasSource(r)'
           /\ NeedsSource(r)' => NeedsSource(r)
           /\ metrics'.sources = metrics.sources
  <2>1. n = m /\ (r \in A => r \in B) /\ (r \in D => r \in C)
    BY <1>6 DEF Sourced, SourcedSurely
  <2> HIDE DEF A, B, C, D, m, n
  <2>2. Cardinality(A) <= Cardinality(B) /\ Cardinality(D) <= Cardinality(C)
    BY <1>3, <1>4, <2>1
  <2> QED  BY <1>1, <1>2, <1>3, <1>4, <2>1, <2>2 DEF A, B, C, D, m, n, SourcesCounted
<1> QED  BY <1>5, <1>6 DEF Effects, SourcesEffect

\* What is counted and what is stored are numbers.
StoredIsFinite ==
  /\ \A s : Cardinality(ToolRowsWith(s)) \in Nat
  /\ \A e : Cardinality(EventRowsWith(e)) \in Nat
  /\ \A d : Cardinality(CountedCases(d)) \in Nat
  /\ Cardinality(Sourced) \in Nat

\* There are finitely many rows, for MaxPlan bounds the positions.
LEMMA RowsAreFinite == StoredIsFinite
<1>1. MaxPlan \in Nat /\ MaxPlan + 1 \in Nat
  BY VocabularyAssumption
<1>2. IsFiniteSet(1..MaxPlan) /\ IsFiniteSet(1..MaxPlan + 1)
  BY <1>1, FS_Interval
<1>3. IsFiniteSet(Requests \X (1..MaxPlan)) /\ IsFiniteSet(Requests \X (1..MaxPlan + 1))
  BY <1>2, ServiceAssumption, FS_Product
<1>4. /\ \A s : ToolRowsWith(s) \subseteq Requests \X (1..MaxPlan)
      /\ \A e : EventRowsWith(e) \subseteq Requests \X (1..MaxPlan + 1)
  BY DEF ToolRowsWith, EventRowsWith
<1>5. /\ \A s : Cardinality(ToolRowsWith(s)) \in Nat
      /\ \A e : Cardinality(EventRowsWith(e)) \in Nat
  BY <1>3, <1>4, FS_Subset, FS_CardinalityType
<1> QED  BY <1>5, CountingFinite, FS_CardinalityType DEF StoredIsFinite

\* A restart forgets the counters, and the threads with them.
LEMMA CrashKeepsCounted ==
  ASSUME Types, Types', Crash
  PROVE  Counted'
<1>1. /\ UNCHANGED <<case, outcome, next, event, response, tickets, toolRows, eventRows>>
      /\ pc' = [r \in Requests |-> IF pc[r] \in Finished \cup {"idle"} THEN pc[r] ELSE "lost"]
      /\ metrics' = NoMetrics /\ crashes' # 0
  BY DEF Crash, tables, Types
<1>2. \A r \in Requests : pc'[r] \notin {"count_call", "count_event"}
  BY <1>1 DEF Finished
<1>3. /\ \A s \in Statuses : metrics'.tools[s] = 0
      /\ \A e \in EventTypes : metrics'.events[e] = 0
      /\ \A d \in Decisions : metrics'.cases[d] = 0
      /\ metrics'.sources.provider = 0 /\ metrics'.sources.estimated = 0
  BY <1>1 DEF NoMetrics, Sources
<1>4. /\ \A s : CountingCall(s)' = {}
      /\ \A e : CountingEvent(e)' = {}
  BY <1>2 DEF CountingCall, CountingEvent, At
<1>5. /\ \A s : Cardinality(ToolRowsWith(s)') \in Nat
      /\ \A e : Cardinality(EventRowsWith(e)') \in Nat
      /\ \A d : Cardinality(CountedCases(d)') \in Nat
      /\ Cardinality(Sourced') \in Nat
  <2>1. StoredIsFinite'
    BY RowsAreFinite, PTL
  <2> QED  BY <2>1 DEF StoredIsFinite
<1>6. Cardinality({}) = 0
  BY FS_EmptySet
<1>7. CallsCounted'
  BY <1>1, <1>3, <1>4, <1>5, <1>6 DEF CallsCounted
<1>8. EventsCounted'
  BY <1>1, <1>3, <1>4, <1>5, <1>6 DEF EventsCounted
<1>9. CasesCounted'
  BY <1>1, <1>3, <1>5 DEF CasesCounted
<1>10. SourcesCounted'
  BY <1>1, <1>3, <1>5 DEF SourcesCounted
<1> QED  BY <1>7, <1>8, <1>9, <1>10 DEF Counted

\* Nothing is stored or counted when the service starts.
LEMMA InitCounted == Init => Counted
<1> SUFFICES ASSUME Init PROVE Counted
  OBVIOUS
<1>1. \A r \in Requests : /\ pc[r] = "idle" /\ outcome[r] = Pending
                         /\ toolRows[r] = <<>> /\ eventRows[r] = <<>>
  BY DEF Init
<1>2. /\ \A s \in Statuses : metrics.tools[s] = 0
      /\ \A e \in EventTypes : metrics.events[e] = 0
      /\ \A d \in Decisions : metrics.cases[d] = 0
      /\ metrics.sources.provider = 0 /\ metrics.sources.estimated = 0
  BY DEF Init, NoMetrics, Sources
<1>3. /\ \A s : CountingCall(s) = {}
      /\ \A e : CountingEvent(e) = {}
      /\ \A d : CountedCases(d) = {}
      /\ Sourced = {} /\ SourcedSurely = {}
  BY <1>1 DEF CountingCall, CountingEvent, CountedCases, At, Sourced, SourcedSurely, HasSource,
              NeedsSource
<1>4. DOMAIN <<>> = {}
  OBVIOUS
<1>5. \A s : ToolRowsWith(s) = {}
  <2> SUFFICES ASSUME NEW s, NEW row \in ToolRowsWith(s) PROVE FALSE
    OBVIOUS
  <2>1. row[1] \in Requests /\ row[2] \in DOMAIN toolRows[row[1]]
    BY DEF ToolRowsWith
  <2> QED  BY <1>1, <1>4, <2>1
<1>6. \A e : EventRowsWith(e) = {}
  <2> SUFFICES ASSUME NEW e, NEW row \in EventRowsWith(e) PROVE FALSE
    OBVIOUS
  <2>1. row[1] \in Requests /\ row[2] \in DOMAIN eventRows[row[1]]
    BY DEF EventRowsWith
  <2> QED  BY <1>1, <1>4, <2>1
<1>7. Cardinality({}) = 0
  BY FS_EmptySet
<1>8. CallsCounted /\ EventsCounted
  BY <1>2, <1>3, <1>5, <1>6, <1>7 DEF CallsCounted, EventsCounted
<1>9. CasesCounted /\ SourcesCounted
  BY <1>2, <1>3, <1>7 DEF CasesCounted, SourcesCounted
<1> QED  BY <1>8, <1>9 DEF Counted

\* Every step keeps the invariant.
LEMMA NextKeepsInv == Inv /\ [Next]_vars => Inv'
<1> SUFFICES ASSUME Inv, [Next]_vars PROVE Inv'
  OBVIOUS
<1>1. Types' /\ RequestsInv'
  BY NextKeepsRequests DEF Inv
<1>2. CASE UNCHANGED vars
  <2>1. /\ \A s : CountingCall(s)' = CountingCall(s) /\ ToolRowsWith(s)' = ToolRowsWith(s)
        /\ \A e : CountingEvent(e)' = CountingEvent(e) /\ EventRowsWith(e)' = EventRowsWith(e)
        /\ \A d : CountedCases(d)' = CountedCases(d)
        /\ Sourced' = Sourced /\ SourcedSurely' = SourcedSurely
        /\ metrics' = metrics /\ crashes' = crashes
    BY <1>2 DEF vars, local, tables, CountingCall, ToolRowsWith, CountingEvent, EventRowsWith,
                CountedCases, At, Sourced, SourcedSurely, HasSource, NeedsSource, LogsLeak
  <2> QED
    BY <1>1, <2>1 DEF Inv, Counted, CallsCounted, EventsCounted, CasesCounted, SourcesCounted
<1>3. ASSUME NEW r \in Requests, Receive(r) \/ Step(r) \/ InsertFails(r)
      PROVE  Inv'
  <2>1. Types /\ RequestsInv /\ Effects(r)
    BY <1>3, StepEffects DEF Inv
  <2> QED
    BY <1>1, <2>1, CallsStayCounted, EventsStayCounted, CasesStayCounted, SourcesStayCounted
    DEF Inv, Counted
<1>4. CASE Crash
  BY <1>1, <1>4, CrashKeepsCounted DEF Inv
<1> QED  BY <1>2, <1>3, <1>4 DEF Next

\* The counted cases are stored ones, and every stored case the graph decided
\* has a source that no other case has.
LEMMA InvMetricsTrackAudit == Inv => MetricsTrackAudit
<1> SUFFICES ASSUME Inv PROVE MetricsTrackAudit
  OBVIOUS
<1>1. ASSUME NEW d \in Decisions
      PROVE  Cardinality(CountedCases(d)) <= Cardinality({r \in Requests : tickets[r].decision = d})
  <2> DEFINE T == {r \in Requests : tickets[r].decision = d}
  <2>1. ASSUME NEW r \in CountedCases(d) PROVE r \in T
    <3>1. r \in Requests /\ pc[r] \in {"respond", "answered"} /\ case[r].decision = d
      BY DEF CountedCases, At
    <3>2. tickets[r] = TicketRow(case[r])
      BY <3>1 DEF Inv, RequestsInv, RequestInv, TicketByPlace, Stored
    <3> QED  BY <3>1, <3>2 DEF TicketRow
  <2>2. IsFiniteSet(T) /\ CountedCases(d) \subseteq T
    BY <2>1, ServiceAssumption, FS_Subset
  <2> QED  BY <2>2, FS_Subset
<1>2. Cardinality(Sourced) <= Cardinality({r \in Requests : outcome[r] # Pending})
  <2> DEFINE T == {r \in Requests : outcome[r] # Pending}
  <2>1. IsFiniteSet(T) /\ Sourced \subseteq T
    BY ServiceAssumption, FS_Subset DEF Sourced, HasSource
  <2> QED  BY <2>1, FS_Subset
<1>3. Cardinality({r \in Requests : tickets[r].decision \in {"RESOLVED", "ESCALATE"}})
        <= Cardinality(SourcedSurely)
  <2> DEFINE T == {r \in Requests : tickets[r].decision \in {"RESOLVED", "ESCALATE"}}
  <2>1. ASSUME NEW r \in T PROVE r \in SourcedSurely
    <3>1. /\ tickets[r] \in {NoRow, TicketRow(case[r])}
          /\ case[r].decision \in {"RESOLVED", "ESCALATE"} => outcome[r] # Pending
      BY DEF Inv, RequestsInv, RequestInv, TicketByPlace, DecisionExplains
    <3>2. NoRow.decision = "absent" /\ TicketRow(case[r]).decision = case[r].decision
      BY DEF NoRow, TicketRow
    <3> QED  BY <3>1, <3>2 DEF SourcedSurely, NeedsSource
  <2>2. IsFiniteSet(SourcedSurely) /\ T \subseteq SourcedSurely
    BY <2>1, CountingFinite
  <2> QED  BY <2>2, FS_Subset
<1>4. /\ \A d \in Decisions : /\ metrics.cases[d] \in Nat
                              /\ Cardinality(CountedCases(d)) \in Nat
                              /\ Cardinality({r \in Requests : tickets[r].decision = d}) \in Nat
      /\ metrics.sources.provider + metrics.sources.estimated \in Nat
      /\ Cardinality(Sourced) \in Nat /\ Cardinality(SourcedSurely) \in Nat
      /\ Cardinality({r \in Requests : outcome[r] # Pending}) \in Nat
      /\ Cardinality({r \in Requests : tickets[r].decision \in {"RESOLVED", "ESCALATE"}}) \in Nat
  <2>1. \A T \in SUBSET Requests : Cardinality(T) \in Nat
    BY ServiceAssumption, FS_Subset, FS_CardinalityType
  <2>2. \A d \in Decisions : /\ CountedCases(d) \in SUBSET Requests
                             /\ {r \in Requests : tickets[r].decision = d} \in SUBSET Requests
    BY CountingFinite
  <2>3. Sourced \in SUBSET Requests /\ SourcedSurely \in SUBSET Requests
    BY DEF Sourced, SourcedSurely
  <2>4. metrics \in Counters
    BY DEF Inv, Types
  <2> QED  BY <2>1, <2>2, <2>3, <2>4 DEF Counters, Sources
<1>5. Counted
  BY DEF Inv
<1> DEFINE StoredAs(d) == {r \in Requests : tickets[r].decision = d}
           Yielded == {r \in Requests : outcome[r] # Pending}
           Decided == {r \in Requests : tickets[r].decision \in {"RESOLVED", "ESCALATE"}}
           sourced == metrics.sources.provider + metrics.sources.estimated
<1>6. \A d \in Decisions : metrics.cases[d] <= Cardinality(StoredAs(d))
  <2> SUFFICES ASSUME NEW d \in Decisions PROVE metrics.cases[d] <= Cardinality(StoredAs(d))
    OBVIOUS
  <2>1. metrics.cases[d] <= Cardinality(CountedCases(d))
    BY <1>5 DEF Counted, CasesCounted
  <2> QED  BY <1>1, <1>4, <2>1
<1>7. sourced <= Cardinality(Yielded) /\ (crashes = 0 => sourced >= Cardinality(Decided))
  <2>1. sourced <= Cardinality(Sourced) /\ (crashes = 0 => sourced >= Cardinality(SourcedSurely))
    BY <1>5 DEF Counted, SourcesCounted
  <2> HIDE DEF sourced, Yielded, Decided
  <2> QED  BY <1>2, <1>3, <1>4, <2>1 DEF sourced, Yielded, Decided
<1> QED
  BY <1>5, <1>6, <1>7 DEF MetricsTrackAudit, Counted, CallsCounted, EventsCounted, CasesCounted,
                         CountingCall, CountingEvent, CountedCases

-----------------------------------------------------------------------------
(* The theorems *)

\* Every reachable state satisfies the inductive invariant, for any number of
\* requests, any setting and any number of crashes.
THEOREM Invariance == Spec => []Inv
<1>1. Init => Inv
  BY InitTypes, InitCounted DEF Inv
<1> QED  BY <1>1, NextKeepsInv, PTL DEF Spec

\* The tables hold labels of the service's vocabulary only.
THEOREM ServiceTypeCorrectness == Spec => []TypeOK
<1>1. Inv => TypeOK
  BY InvTypeOK DEF Inv
<1> QED  BY Invariance, <1>1, PTL

\* Whatever crashes or fails between the commits of a case, its rows are a prefix
\* of what it should have left (service.py:45-77, 102-103, 168).
THEOREM AuditIsAlwaysPrefix == Spec => []AuditIsPrefix
<1>1. Inv => AuditIsPrefix
  BY InvAuditIsPrefix DEF Inv
<1> QED  BY Invariance, <1>1, PTL

\* A client with a 200 finds everything it was told in the tables, whatever the
\* other threads do (service.py:197-226).
THEOREM AnswersAreDurable == Spec => []AnsweredIsDurable
<1>1. Inv => AnsweredIsDurable
  BY InvAnsweredIsDurable DEF Inv
<1> QED  BY Invariance, <1>1, PTL

\* A thread that stops between a call's row and its event loses that one event,
\* for a log of any length (service.py:60-77).
THEOREM EventsTrailByOne == Spec => []AtMostOneEventMissing
<1>1. Inv => AtMostOneEventMissing
  BY InvAtMostOneEventMissing DEF Inv
<1> QED  BY Invariance, <1>1, PTL

\* No RESOLVED reply trips the leak gate, and one that was withheld is neither
\* stored nor sent (service.py:164-172).
THEOREM NoLeakIsResolved == Spec => []LeakGate
<1>1. Inv => LeakGate
  BY InvLeakGate DEF Inv
<1> QED  BY Invariance, <1>1, PTL

\* A text with a signal never reaches the graph, and only such a text is refused
\* (service.py:88-117).
THEOREM RefusalsNeverReachTheModel == Spec => []RefusedBeforeModel
<1>1. Inv => RefusedBeforeModel
  BY InvRefusedBeforeModel DEF Inv
<1> QED  BY Invariance, <1>1, PTL

\* No path stores or returns a case's text or reply unredacted
\* (service.py:86, 155-156).
THEOREM StoredTextRedacted == Spec => []StoredTextIsRedacted
<1>1. Inv => StoredTextIsRedacted
  BY InvStoredTextIsRedacted DEF Inv
<1> QED  BY Invariance, <1>1, PTL

\* The counters mirror the tables, for any interleaving of any number of requests
\* (service.py:41-42, 60-67, 182-203).
THEOREM MetricsAlwaysTrackAudit == Spec => []MetricsTrackAudit
  BY Invariance, InvMetricsTrackAudit, PTL
=============================================================================
