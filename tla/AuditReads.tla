------------------------------ MODULE AuditReads ------------------------------
(***************************************************************************)
(* The audit lists: GET /tickets and GET /security-events read the tables  *)
(* while resolve_case threads are between two commits of a case.           *)
(*                                                                         *)
(* A case is its script, the order in which it commits its ticket row and  *)
(* its events (CaseService); it is answered after the last of them, or     *)
(* fails at one.  created_at has the resolution of a second, so rows of    *)
(* different cases may carry the same time; the clock never steps back.    *)
(***************************************************************************)
EXTENDS Integers, Sequences, FiniteSets

CONSTANTS
  Cases,
  Kinds,      \* which of the scripts below the cases may follow
  Limits,     \* what a client may ask for
  MaxLimit,   \* the most rows a route returns (100 in main.py)
  MaxSeconds  \* bound: how far the clock goes

Leaks == {"leaked", "leaked_guarded"}

ASSUME AuditAssumption ==
  /\ Kinds \subseteq {"resolved", "refused", "guarded"} \cup Leaks
  /\ Limits \subseteq Int /\ MaxLimit \in Nat \ {0} /\ MaxSeconds \in Nat

VARIABLES
  now,
  case,       \* each case's kind, commits so far and end
  tickets, events,      \* the tables, in order of commit
  page        \* what a client has read: each list, and what it could know then

readsVars == <<now, case, tickets, events, page>>

\* A leak is logged before its ticket is stored, every other event after it.
Script(kind) ==
  CASE kind = "resolved" -> <<"ticket">>
    [] kind = "refused"  -> <<"ticket", "event">>
    [] kind = "guarded"  -> <<"ticket", "event", "event">>
    [] kind = "leaked"   -> <<"event", "ticket">>
    [] kind = "leaked_guarded" -> <<"event", "ticket", "event">>

Unread == [read |-> FALSE, rows |-> <<>>, limit |-> 1, total |-> 0, known |-> 0, answered |-> {}]

ReadsInit ==
  /\ now = 0
  /\ case \in [Cases -> [kind : Kinds, done : {0}, end : {"open"}]]
  /\ tickets = <<>> /\ events = <<>>
  /\ page = [tickets |-> Unread, events |-> Unread]

Tick == now < MaxSeconds /\ now' = now + 1 /\ UNCHANGED <<case, tickets, events, page>>

RowNumberedOnce(c, table) ==                        \* mutant: one number for both tables
  [case |-> c, at |-> now, id |-> Len(tickets) + Len(events) + 1]

Row(c, table) == [case |-> c, at |-> now, id |-> Len(table) + 1]

\* The next row of a case's script, in a transaction of its own.
Commit(c) ==
  LET script == Script(case[c].kind)
      step   == case[c].done + 1
  IN  /\ case[c].end = "open" /\ step <= Len(script)
      /\ case' = [case EXCEPT ![c].done = step]
      /\ IF script[step] = "ticket"
         THEN tickets' = Append(tickets, Row(c, tickets)) /\ UNCHANGED events
         ELSE events'  = Append(events, Row(c, events))   /\ UNCHANGED tickets
      /\ UNCHANGED <<now, page>>

AnswerOnceStored(c) ==                              \* mutant: events in the background
  /\ case[c].end = "open" /\ \E i \in DOMAIN tickets : tickets[i].case = c
  /\ case' = [case EXCEPT ![c].end = "answered"]
  /\ UNCHANGED <<now, tickets, events, page>>

Answer(c) ==
  /\ case[c].end = "open" /\ case[c].done = Len(Script(case[c].kind))
  /\ case' = [case EXCEPT ![c].end = "answered"]
  /\ UNCHANGED <<now, tickets, events, page>>

\* An insert raises or the process dies: the rows committed so far stay.
Fail(c) ==
  /\ case[c].end = "open" /\ case[c].done < Len(Script(case[c].kind))
  /\ case' = [case EXCEPT ![c].end = "failed"]
  /\ UNCHANGED <<now, tickets, events, page>>

Clamp(limit) == IF limit > MaxLimit THEN MaxLimit ELSE IF limit < 1 THEN 1 ELSE limit

\* The first rows of a table in an order of its positions.
Ranked(table, limit, Before(_, _)) ==
  LET n == IF limit < Len(table) THEN limit ELSE Len(table)
      At(rank) == CHOOSE i \in DOMAIN table : Cardinality({j \in DOMAIN table : Before(j, i)}) = rank
  IN  [k \in 1..n |-> table[At(k - 1)]]

RecentByTime(table, limit) ==                       \* mutant: no second sort key
  LET Before(j, i) == table[j].at > table[i].at \/ (table[j].at = table[i].at /\ j < i)
  IN  Ranked(table, limit, Before)

\* ORDER BY created_at DESC, rowid DESC LIMIT n
Recent(table, limit) ==
  LET Before(j, i) == \/ table[j].at > table[i].at
                      \/ table[j].at = table[i].at /\ table[j].id > table[i].id
  IN  Ranked(table, limit, Before)

Listing(table, limit) ==
  [read |-> TRUE, rows |-> Recent(table, Clamp(limit)), limit |-> Clamp(limit),
   total |-> Len(table), known |-> Len(events), answered |-> {c \in Cases : case[c].end = "answered"}]

GetTickets ==
  /\ ~page.tickets.read
  /\ \E limit \in Limits : page' = [page EXCEPT !.tickets = Listing(tickets, limit)]
  /\ UNCHANGED <<now, case, tickets, events>>

GetEvents ==
  /\ ~page.events.read
  /\ \E limit \in Limits : page' = [page EXCEPT !.events = Listing(events, limit)]
  /\ UNCHANGED <<now, case, tickets, events>>

ReadsNext == \/ Tick \/ GetTickets \/ GetEvents
        \/ \E c \in Cases : Commit(c) \/ Answer(c) \/ Fail(c)

ReadsSpec == ReadsInit /\ [][ReadsNext]_readsVars

-----------------------------------------------------------------------------
(* Properties *)

Full(list) == Len(list.rows) = list.limit
Listed(list, c) == \E i \in DOMAIN list.rows : list.rows[i].case = c
TableOf(name) == IF name = "tickets" THEN tickets ELSE events

\* A table's rows are its cases' commits, one ticket row a case, and numbered in
\* the order of their times.
ReadsTypeOK ==
  /\ now \in 0..MaxSeconds
  /\ \A c \in Cases :
       LET done == SubSeq(Script(case[c].kind), 1, case[c].done) IN
       /\ case[c].end \in {"open", "answered", "failed"}
       /\ Cardinality({i \in DOMAIN tickets : tickets[i].case = c})
            = Cardinality({i \in DOMAIN done : done[i] = "ticket"})
       /\ Cardinality({i \in DOMAIN events : events[i].case = c})
            = Cardinality({i \in DOMAIN done : done[i] = "event"})
  /\ \A t \in {tickets, events} : \A i \in DOMAIN t :
       t[i].id = i /\ (i > 1 => t[i - 1].at <= t[i].at)

\* A list is the table's newest rows, newest first and without a gap, though
\* several share a second; at least one and at most MaxLimit whatever limit was
\* asked for (repo.py:114-147, main.py:117-136).
NewestFirst ==
  \A name \in DOMAIN page : page[name].read =>
    LET list == page[name]
        n    == Len(list.rows)
    IN  /\ list.total > 0 => n \in 1..MaxLimit
        /\ n < list.limit => n = list.total
        /\ \A i \in 1..n : list.rows[i] = TableOf(name)[list.total + 1 - i]

\* A case that was answered before a list was read is on it, and on the events
\* list too if a guardrail acted on it, unless newer rows fill that list
\* (service.py:45-77, 102-116).
AnsweredCasesAreExplained ==
  /\ page.tickets.read /\ ~Full(page.tickets) =>
       \A c \in page.tickets.answered : Listed(page.tickets, c)
  /\ page.events.read /\ ~Full(page.events) =>
       \A c \in page.events.answered : case[c].kind # "resolved" => Listed(page.events, c)

\* An event that was stored when the tickets were read has its case among them,
\* unless newer cases fill the list; only a withheld leak may have none, as its
\* event is stored first (service.py:103, 168).
OnlyLeaksAreOrphans ==
  page.tickets.read /\ page.events.read /\ ~Full(page.tickets) =>
    \A i \in DOMAIN page.events.rows :
      LET row == page.events.rows[i]
      IN  row.id <= page.tickets.known =>
            case[row.case].kind \in Leaks \/ Listed(page.tickets, row.case)

\* Neither list has what the other, read before or after, cannot account for.
ListsExplainEachOther == AnsweredCasesAreExplained /\ OnlyLeaksAreOrphans
=============================================================================
