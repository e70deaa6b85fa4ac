-------------------------------- MODULE Console --------------------------------
(***************************************************************************)
(* The support console (apps/ui/app.py): one Streamlit session in front of *)
(* the API.                                                                *)
(*                                                                         *)
(* Streamlit runs main() from the top for every user event.  An event that *)
(* arrives while a run is under way interrupts it at its next st.* call,   *)
(* never inside a blocking request; what the run held in local variables   *)
(* is gone, st.session_state stays.  The phases of a run are cut at those  *)
(* calls.  A case stands for one submission of the user, fresh each time,  *)
(* or for one that another client of the API has posted.                   *)
(***************************************************************************)
EXTENDS Naturals, Sequences, FiniteSets

CONSTANTS
  Cases,      \* the submissions the user makes
  Others,     \* cases other clients have posted
  NoCase,
  Limits,     \* the options of the Show slider
  Filters,    \* the options of the Decision box, as the decisions they let pass
  EventLimit, \* how many security events the console asks for
  MaxGuarded, \* bound: the tool and leak events one case may log
  MaxEvents   \* bound: how often the user acts

ASSUME ConsoleAssumption ==
  /\ NoCase \notin Cases \cup Others /\ Cases \cap Others = {}
  /\ Limits \subseteq Nat \ {0} /\ EventLimit \in Nat \ {0}
  /\ Filters \subseteq SUBSET {"RESOLVED", "ESCALATE", "REFUSE"}
  /\ MaxGuarded \in Nat /\ MaxEvents \in Nat

VARIABLES
  run,        \* the script run: its phase, event, case, result and loaded tabs
  pending,    \* an event that will interrupt it
  messages, queued, example,   \* st.session_state
  screen,     \* the turn drawn in the chat tab
  server,     \* what the API has made of each case
  tickets, securityEvents,     \* its tables, in order of commit
  posts,      \* how often each case was posted (history)
  fate,       \* what became of each case (history)
  acted       \* how often the user has acted

session == <<messages, queued, example>>
api     == <<server, tickets, securityEvents>>
history == <<posts, fate, acted>>
vars    == <<run, pending, session, screen, api, history>>

Decisions  == {"RESOLVED", "ESCALATE", "REFUSE"}
EventTypes == {"injection_refused", "tool_or_leak"}     \* the other three are one here
Known      == Cases \cup Others
Event(kind, c) == [kind |-> kind, case |-> c]
NoEvent == Event("none", NoCase)

Message(role, c, result) == [role |-> role, case |-> c, result |-> result]
NoMessage == Message("nobody", NoCase, "none")

Row(c, kind) == [case |-> c, kind |-> kind]
NotLoaded == [loaded |-> FALSE, limit |-> 0, upto |-> 0, filter |-> {}, cases |-> {}]

\* The positions of a table's newest rows (AuditReads).
Newest(table, limit) == {i \in DOMAIN table : i + limit > Len(table)}

ListingOldest(table, limit, filter) ==              \* mutant: sorted the other way
  [loaded |-> TRUE, limit |-> limit, upto |-> Len(table), filter |-> filter,
   cases  |-> {table[i].case : i \in {j \in DOMAIN table : j <= limit /\ table[j].kind \in filter}}]

\* What a tab lists: the API returns the newest rows, and only then the console
\* drops those of them that the filter does not let pass.
Listing(table, limit, filter) ==
  [loaded |-> TRUE, limit |-> limit, upto |-> Len(table), filter |-> filter,
   cases  |-> {table[i].case : i \in {j \in Newest(table, limit) : table[j].kind \in filter}}]

\* The last message of a role: the chat tab looks the two up independently.
Last(role) ==
  LET of == {i \in DOMAIN messages : messages[i].role = role}
  IN  IF of = {} THEN NoMessage ELSE messages[CHOOSE i \in of : \A j \in of : j <= i]

SessionStats(d) == Cardinality({i \in DOMAIN messages : messages[i].result = d})

-----------------------------------------------------------------------------
Fresh(event) ==
  [phase |-> "sidebar", event |-> event, case |-> NoCase, result |-> "none",
   tabs  |-> [cases |-> NotLoaded, events |-> NotLoaded]]

Init ==
  /\ run = Fresh(NoEvent) /\ pending = NoEvent
  /\ messages = <<>> /\ queued = NoCase /\ example = FALSE
  /\ screen = [user |-> NoMessage, assistant |-> NoMessage]
  /\ server = [c \in Known |-> IF c \in Others THEN "running" ELSE "unposted"]
  /\ tickets = <<>> /\ securityEvents = <<>>
  /\ posts  = [c \in Cases |-> 0]
  /\ fate   = [c \in Cases |-> "none"]
  /\ acted  = 0

\* st.rerun: the run ends here and the next one takes the waiting event.
Rerun == run' = Fresh(pending) /\ pending' = NoEvent

Goto(from, to) == run.phase = from /\ run' = [run EXCEPT !.phase = to]

Drop(cases) == fate' = [c \in Cases |-> IF c \in cases THEN "dropped" ELSE fate[c]]

\* What the user can do: type a case, press Clear, a category chip, Refresh, move
\* a filter or the slider, or submit or cancel the form on screen; a form may be
\* submitted blank.
Inputs ==
  LET new == {c \in Cases : fate[c] = "none"}
  IN  {Event(kind, NoCase) : kind \in {"clear", "chip", "refresh", "widget"}}
      \cup {Event("prompt", c) : c \in new}
      \cup (IF example THEN {Event("cancel", NoCase)}
                            \cup {Event("submit", c) : c \in new \cup {NoCase}} ELSE {})

UserActs ==
  /\ acted < MaxEvents /\ pending = NoEvent
  /\ \E e \in Inputs :
       /\ fate' = [c \in Cases |-> IF c = e.case THEN "submitted" ELSE fate[c]]
       /\ IF run.phase = "idle" THEN run' = Fresh(e) /\ UNCHANGED pending
                                ELSE pending' = e /\ UNCHANGED run
  /\ acted' = acted + 1
  /\ UNCHANGED <<session, screen, api, posts>>

\* A waiting event interrupts the run, or starts the next one: what the run had
\* taken but not put into the session is lost.
Interrupt ==
  /\ pending # NoEvent /\ run.phase # "posting"
  /\ Rerun
  /\ Drop({run.event.case, run.case})
  /\ UNCHANGED <<session, screen, api, posts, acted>>

Sidebar ==
  /\ run.phase = "sidebar"
  /\ IF run.event.kind = "clear" THEN messages' = <<>> /\ Rerun
     ELSE Goto("sidebar", "form") /\ UNCHANGED <<messages, pending>>
  /\ UNCHANGED <<queued, example, screen, api, history>>

\* The form takes an event only while it is drawn; a blank field is a warning.
Form ==
  LET e == run.event IN
  /\ run.phase = "form"
  /\ \/ /\ e.kind = "chip"
        /\ example' = TRUE
        /\ Goto("form", "input") /\ UNCHANGED <<queued, pending, fate>>
     \/ /\ example /\ e.kind = "cancel"
        /\ example' = FALSE
        /\ Rerun /\ UNCHANGED <<queued, fate>>
     \/ /\ example /\ e.kind = "submit" /\ e.case # NoCase
        /\ queued' = e.case /\ example' = FALSE
        /\ Drop({queued})                             \* overwritten
        /\ Rerun
     \/ /\ e.kind # "chip"
        /\ example => ~(e.kind = "cancel" \/ (e.kind = "submit" /\ e.case # NoCase))
        /\ IF e.kind = "submit" THEN Drop({e.case}) ELSE UNCHANGED fate
        /\ Goto("form", "input") /\ UNCHANGED <<queued, example, pending>>
  /\ UNCHANGED <<messages, screen, api, posts, acted>>

Prompt == IF run.event.kind = "prompt" THEN run.event.case ELSE NoCase

\* The fresh submission of this run: a queued case goes before a typed one.
Submission == IF queued # NoCase THEN queued ELSE Prompt

TakeInputKeepsQueue ==                              \* mutant: get for pop
  /\ IF Submission # NoCase
     THEN /\ run.phase = "input"
          /\ run' = [run EXCEPT !.phase = "taken", !.case = Submission]
          /\ screen' = [user |-> Message("user", Submission, "none"), assistant |-> NoMessage]
          /\ Drop({Prompt} \ {Submission})
     ELSE /\ Goto("input", "cases")
          /\ screen' = [user |-> Last("user"), assistant |-> Last("assistant")]
          /\ UNCHANGED fate
  /\ UNCHANGED <<queued, pending, messages, example, api, posts, acted>>

TakeInputBelowOldTurn ==                            \* mutant: old turn drawn first
  /\ IF Submission # NoCase
     THEN /\ run.phase = "input"
          /\ run' = [run EXCEPT !.phase = "taken", !.case = Submission]
          /\ screen' = [user |-> Message("user", Submission, "none"), assistant |-> Last("assistant")]
          /\ Drop({Prompt} \ {Submission})
     ELSE /\ Goto("input", "cases")
          /\ screen' = [user |-> Last("user"), assistant |-> Last("assistant")]
          /\ UNCHANGED fate
  /\ queued' = NoCase
  /\ UNCHANGED <<pending, messages, example, api, posts, acted>>

\* The queue is popped; with nothing submitted the last turn is drawn.
TakeInput ==
  /\ IF Submission # NoCase
     THEN /\ run.phase = "input"
          /\ run' = [run EXCEPT !.phase = "taken", !.case = Submission]
          /\ screen' = [user |-> Message("user", Submission, "none"), assistant |-> NoMessage]
          /\ Drop({Prompt} \ {Submission})
     ELSE /\ Goto("input", "cases")
          /\ screen' = [user |-> Last("user"), assistant |-> Last("assistant")]
          /\ UNCHANGED fate
  /\ queued' = NoCase
  /\ UNCHANGED <<pending, messages, example, api, posts, acted>>

Ask ==
  /\ Goto("taken", "asked")
  /\ messages' = Append(messages, Message("user", run.case, "none"))
  /\ UNCHANGED <<pending, queued, example, screen, api, history>>

Answered(result) == run' = [run EXCEPT !.phase = "answered", !.result = result]

\* requests.post: the API is reached or it is not.
Post ==
  /\ run.phase = "asked"
  /\ \/ /\ Goto("asked", "posting")
        /\ server' = [server EXCEPT ![run.case] = "running"]
        /\ posts'  = [posts  EXCEPT ![run.case] = @ + 1]
     \/ Answered("error") /\ UNCHANGED <<server, posts>>
  /\ UNCHANGED <<pending, session, screen, tickets, securityEvents, fate, acted>>

ReceiveWhenDone ==                                  \* mutant: no timeout
  /\ run.phase = "posting"
  /\ \/ server[run.case] \in Decisions /\ Answered(server[run.case])
     \/ server[run.case] \in Decisions \cup {"failed"} /\ Answered("error")
  /\ UNCHANGED <<pending, session, screen, api, history>>

ReceiveEscalatesErrors ==                           \* mutant: an error is a decision
  /\ run.phase = "posting"
  /\ \/ server[run.case] \in Decisions /\ Answered(server[run.case])
     \/ Answered("ESCALATE")
  /\ UNCHANGED <<pending, session, screen, api, history>>

\* The request returns: with the answer, or with an error (a 422, a 500, a
\* broken connection or REQUEST_TIMEOUT) whatever the API has done or still does.
Receive ==
  /\ run.phase = "posting"
  /\ \/ server[run.case] \in Decisions /\ Answered(server[run.case])
     \/ Answered("error")
  /\ UNCHANGED <<pending, session, screen, api, history>>

Store ==
  /\ run.phase = "answered"
  /\ messages' = Append(messages, Message("assistant", run.case, run.result))
  /\ fate' = [fate EXCEPT ![run.case] = "answered"]
  /\ Rerun
  /\ UNCHANGED <<queued, example, screen, api, posts, acted>>

\* GET /tickets, unless Refresh was pressed: that reruns the script first.  The
\* filter and the slider may stand at any of their options.
ListCases ==
  /\ run.phase = "cases"
  /\ IF run.event.kind = "refresh" THEN Rerun
     ELSE /\ \E limit \in Limits, filter \in Filters :
               \E got \in {Listing(tickets, limit, filter), NotLoaded} :
                 run' = [run EXCEPT !.phase = "events", !.tabs.cases = got]
          /\ UNCHANGED pending
  /\ UNCHANGED <<session, screen, api, history>>

\* GET /security-events: the type box offers all types, and each one fetched.
ListEvents ==
  LET fetched == Newest(securityEvents, EventLimit) IN
  /\ run.phase = "events"
  /\ \E filter \in {EventTypes} \cup {{securityEvents[i].kind} : i \in fetched} :
       \E got \in {Listing(securityEvents, EventLimit, filter), NotLoaded} :
         run' = [run EXCEPT !.phase = "idle", !.tabs.events = got]
  /\ UNCHANGED <<pending, session, screen, api, history>>

\* The security events of a case that ends with a decision (CaseService).
Trails(c, d) ==
  IF d = "REFUSE" THEN {<<Row(c, "injection_refused")>>}
  ELSE {[i \in 1..n |-> Row(c, "tool_or_leak")] : n \in 0..MaxGuarded}

\* The API decides a case and stores it, or fails; nobody tells it of a timeout.
\* A failure that leaves the ticket behind is, for the console, a decision whose
\* answer gets lost.
Resolve(c) ==
  /\ server[c] = "running"
  /\ \/ /\ server' = [server EXCEPT ![c] = "failed"]
        /\ UNCHANGED <<tickets, securityEvents>>
     \/ \E d \in Decisions : \E trail \in Trails(c, d) :
          /\ server' = [server EXCEPT ![c] = d]
          /\ tickets' = Append(tickets, Row(c, d))
          /\ securityEvents' = securityEvents \o trail
  /\ UNCHANGED <<run, pending, session, screen, history>>

Step == \/ Interrupt \/ Sidebar \/ Form \/ TakeInput \/ Ask \/ Post \/ Receive
        \/ Store \/ ListCases \/ ListEvents

Next == UserActs \/ Step \/ \E c \in Known : Resolve(c)

\* The script goes on while it can, REQUEST_TIMEOUT included; nothing is
\* assumed of the user or of the API.
Spec == Init /\ [][Next]_vars /\ WF_vars(Step)

-----------------------------------------------------------------------------
(* Properties *)

\* Every answer in the session comes right after its own question, whatever was
\* interrupted, cleared or queued in between (app.py:436-465, 524-526).
EachAnswerFollowsItsQuestion ==
  \A i \in DOMAIN messages : messages[i].role = "assistant" =>
    i > 1 /\ messages[i - 1] = Message("user", messages[i].case, "none")

\* A question whose run was never interrupted is never shown above the answer to
\* another one (app.py:669-713).
UninterruptedTurnsMatch ==
  screen.assistant # NoMessage /\ screen.user # NoMessage =>
    \/ screen.user.case = screen.assistant.case
    \/ fate[screen.user.case] = "dropped"

\* Question and answer belong together, in the session and on the screen.
TurnsMatch == EachAnswerFollowsItsQuestion /\ UninterruptedTurnsMatch

\* One submission opens at most one case, although every st.rerun runs the
\* submitting branch again (app.py:676-688).
PostedAtMostOnce == \A c \in Cases : posts[c] <= 1

\* "This session" never counts more cases of a decision than the API has stored,
\* errors and timeouts included (app.py:468-474).
StatsAreStoredCases ==
  \A d \in Decisions : SessionStats(d) <= Cardinality({c \in Cases : server[c] = d})

\* A case is in a tab, or below at least as many rows as the tab asked for.
Lists(tab, c, table) ==
  \/ c \in tab.cases
  \/ \E i \in DOMAIN table : table[i].case = c /\ i + tab.limit <= tab.upto

\* Once the page is complete, the answer it shows is in each audit tab it has
\* loaded, if the tab's filter lets it pass, and unless at least as many newer
\* rows as the tab asks for were stored before it was read: the tabs are read
\* after the chat tab is drawn (app.py:719-735, 765-796, 842-847).
AnswerIsListed ==
  LET answer == screen.assistant
      cases  == run.tabs.cases
      events == run.tabs.events
  IN  run.phase = "idle" /\ answer.result \in Decisions =>
        /\ cases.loaded /\ answer.result \in cases.filter => Lists(cases, answer.case, tickets)
        /\ events.loaded /\ answer.result = "REFUSE" /\ "injection_refused" \in events.filter
             => Lists(events, answer.case, securityEvents)

\* Every submission ends, answered, with an error, or dropped by a later event,
\* even if the API never answers: the request has a timeout (app.py:347).
EverySubmissionEnds ==
  \A c \in Cases : fate[c] = "submitted" ~> fate[c] \in {"answered", "dropped"}

-----------------------------------------------------------------------------
(* What comments and messages say and the code does not do *)

\* app.py:692-695: "Full history still accumulates in session_state ... and
\* permanently in the audit trail ..., so nothing is actually lost".  A run
\* interrupted before requests.post leaves a question nobody was ever asked.
NothingIsLost ==
  run.phase = "idle" => \A i \in DOMAIN messages :
    messages[i].role = "user" =>
      \/ posts[messages[i].case] > 0
      \/ \E j \in DOMAIN messages : messages[j] = Message("assistant", messages[i].case, "error")
=============================================================================
