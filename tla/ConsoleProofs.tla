---------------------------- MODULE ConsoleProofs ----------------------------
(***************************************************************************)
(* What Console promises, for any set of submissions and however often the *)
(* user interrupts the script: question and answer belong together, a      *)
(* submission opens at most one case, the session's counts and the audit   *)
(* tabs agree with what the API has stored.                                *)
(*                                                                         *)
(* The argument follows each submission through the places that may hold   *)
(* it: the waiting event, the run's event, the queue, the run.  It is      *)
(* never in two of them that could both post it, and whatever is lost on   *)
(* the way has the fate "dropped", which is final.                         *)
(***************************************************************************)
EXTENDS Console, DataTheorems, FiniteSetTheorems, FunctionTheorems, TLAPS

-----------------------------------------------------------------------------
(* The invariant *)

MaybeCase == Cases \cup {NoCase}
Kinds     == {"none", "clear", "chip", "refresh", "widget", "prompt", "cancel", "submit"}
Events    == [kind : Kinds, case : MaybeCase]
InWork    == {"asked", "posting", "answered"}       \* the question is in the session
Phases    == {"sidebar", "form", "input", "taken", "cases", "events", "idle"} \cup InWork
Results   == Decisions \cup {"none", "error"}
Messages  == [role : {"user", "assistant"}, case : Cases, result : Results]
Drawn     == Messages \cup {NoMessage}
Rows      == [case : Known, kind : Decisions \cup EventTypes]
Tabs      == [loaded : BOOLEAN, limit : Nat, upto : Nat,
              filter : SUBSET (Decisions \cup EventTypes), cases : SUBSET Known]
Runs      == [phase : Phases, event : Events, case : MaybeCase, result : Results,
              tabs  : [cases : Tabs, events : Tabs]]

Types ==
  /\ run      \in Runs
  /\ pending  \in Events
  /\ messages \in Seq(Messages)
  /\ queued   \in MaybeCase
  /\ example  \in BOOLEAN
  /\ screen   \in [user : Drawn, assistant : Drawn]
  /\ server   \in [Known -> Decisions \cup {"unposted", "running", "failed"}]
  /\ tickets  \in Seq(Rows)
  /\ securityEvents \in Seq(Rows)
  /\ posts    \in [Cases -> Nat]
  /\ fate     \in [Cases -> {"none", "submitted", "dropped", "answered"}]

\* A submission that may still be posted.
Open(c) == fate[c] = "submitted" /\ posts[c] = 0

\* The event of this run still counts.
EventCounts == run.phase \in {"sidebar", "form"} \/ (run.phase = "input" /\ run.event.kind = "prompt")

\* Where a submission is.
Places ==
  /\ run.event.kind = "prompt" => run.event.case # NoCase
  /\ pending.kind = "prompt" => pending.case # NoCase
  /\ pending.case # NoCase => Open(pending.case) /\ pending.case \notin {run.event.case, run.case, queued}
  /\ queued # NoCase => Open(queued) /\ queued \notin {run.event.case, run.case}
  /\ run.event.case # NoCase => /\ fate[run.event.case] \in {"submitted", "dropped"}
                                /\ EventCounts => Open(run.event.case)
  /\ run.case # NoCase <=> run.phase \in InWork \cup {"taken"}
  /\ run.case # NoCase => /\ fate[run.case] = "submitted"
                          /\ run.phase \in {"taken", "asked"} => posts[run.case] = 0

\* What the API has been asked, and has decided.
Asked ==
  /\ \A c \in Cases : /\ posts[c] <= 1
                      /\ posts[c] = 0 <=> server[c] = "unposted"
                      /\ fate[c] = "none" => posts[c] = 0
  /\ run.phase = "answered" => run.result = "error" \/ (run.result \in Decisions /\ server[run.case] = run.result)
  /\ IsFiniteSet({c \in Cases : server[c] # "unposted"})

IsQuestion(i) ==
  /\ messages[i].result = "none"
  /\ \/ i < Len(messages) /\ messages[i + 1].role = "assistant"
     \/ fate[messages[i].case] = "dropped"
     \/ i = Len(messages) /\ run.phase \in InWork /\ messages[i].case = run.case

IsAnswer(i) ==
  /\ i > 1 /\ messages[i - 1] = Message("user", messages[i].case, "none")
  /\ fate[messages[i].case] = "answered"
  /\ messages[i].result = "error"
       \/ (messages[i].result \in Decisions /\ server[messages[i].case] = messages[i].result)

\* The session: a question is answered next, or dropped, or is the run's.
Talk ==
  /\ \A i \in DOMAIN messages : /\ messages[i].role = "user" => IsQuestion(i)
                                /\ messages[i].role = "assistant" => IsAnswer(i)
  /\ \A i, j \in DOMAIN messages :
       messages[i].role = "assistant" /\ messages[j].role = "assistant" /\ i # j =>
         messages[i].case # messages[j].case
  /\ run.phase \in InWork => /\ Len(messages) > 0
                             /\ messages[Len(messages)] = Message("user", run.case, "none")

Shown ==
  /\ UninterruptedTurnsMatch
  /\ screen.assistant.result \in Decisions =>
       screen.assistant.case \in Cases /\ server[screen.assistant.case] = screen.assistant.result

\* What the API has decided, it has stored.
Kept ==
  \A c \in Known :
    /\ server[c] \in Decisions => \E i \in DOMAIN tickets : tickets[i] = Row(c, server[c])
    /\ server[c] = "REFUSE" =>
         \E i \in DOMAIN securityEvents : securityEvents[i] = Row(c, "injection_refused")

CasesListed ==
  run.phase \in {"events", "idle"} /\ screen.assistant.result \in Decisions =>
    (run.tabs.cases.loaded /\ screen.assistant.result \in run.tabs.cases.filter =>
       Lists(run.tabs.cases, screen.assistant.case, tickets))

EventsListed ==
  run.phase = "idle" /\ screen.assistant.result = "REFUSE" =>
    (run.tabs.events.loaded /\ "injection_refused" \in run.tabs.events.filter =>
       Lists(run.tabs.events, screen.assistant.case, securityEvents))

Listed == Kept /\ CasesListed /\ EventsListed

Inv == Types /\ Places /\ Asked /\ Talk /\ Shown /\ Listed

-----------------------------------------------------------------------------
(* Steps of the script *)

\* A run goes on, and its event, case and result stay.
LEMMA Moves ==
  ASSUME Types, NEW from, NEW to \in Phases, Goto(from, to)
  PROVE  /\ run' \in Runs /\ run.phase = from /\ run'.phase = to
         /\ run'.event = run.event /\ run'.case = run.case /\ run'.result = run.result
         /\ run'.tabs = run.tabs
BY DEF Goto, Types, Runs

\* A run starts, with an event and nothing else.
LEMMA Starts ==
  ASSUME NEW e \in Events
  PROVE  /\ Fresh(e) \in Runs /\ Fresh(e).phase = "sidebar" /\ Fresh(e).event = e
         /\ Fresh(e).case = NoCase /\ Fresh(e).result = "none"
<1>1. NotLoaded \in Tabs
  BY DEF NotLoaded, Tabs
<1> QED  BY <1>1 DEF Fresh, Runs, Phases, MaybeCase, Results

LEMMA NoEventIsOne ==
  NoEvent \in Events /\ NoEvent.case = NoCase /\ NoEvent.kind = "none"
BY DEF NoEvent, Event, Events, Kinds, MaybeCase

LEMMA Restarts ==
  ASSUME Types, Rerun
  PROVE  /\ run' \in Runs /\ run'.phase = "sidebar" /\ run'.event = pending
         /\ run'.case = NoCase /\ run'.result = "none"
         /\ pending' \in Events /\ pending'.case = NoCase /\ pending'.kind = "none"
<1>1. pending \in Events
  BY DEF Types
<1>2. run' = Fresh(pending) /\ pending' = NoEvent
  BY DEF Rerun
<1> QED  BY <1>1, <1>2, Starts, NoEventIsOne

\* What is answered or dropped stays so, and nobody forgets a submission.
FateForward ==
  \A c \in Cases : /\ fate[c] = "dropped" => fate'[c] = "dropped"
                   /\ fate[c] = "answered" => fate'[c] = "answered"
                   /\ fate'[c] = "none" => fate[c] = "none"

\* What is decided stays so.
ServerForward == \A c \in Cases : server[c] \in Decisions => server'[c] = server[c]

\* Dropping loses only what was not answered.
LEMMA Drops ==
  ASSUME Types, NEW lost, Drop(lost), \A c \in Cases \cap lost : fate[c] # "answered"
  PROVE  /\ FateForward
         /\ fate' \in [Cases -> {"none", "submitted", "dropped", "answered"}]
         /\ \A c \in Cases : fate'[c] = IF c \in lost THEN "dropped" ELSE fate[c]
BY DEF Types, Drop, FateForward

\* Steps that do not touch a part keep what is said of it.
LEMMA AskedKept ==
  ASSUME Asked, server' = server, posts' = posts, FateForward, run'.phase # "answered"
  PROVE  Asked'
BY DEF Asked, FateForward

LEMMA TalkKept ==
  ASSUME Types, Places, Talk, messages' = messages, FateForward, ServerForward,
         run.phase \in InWork => \/ run'.phase \in InWork /\ run'.case = run.case
                                 \/ fate'[run.case] = "dropped",
         run'.phase \in InWork => run.phase \in InWork /\ run'.case = run.case
  PROVE  Talk'
<1>1. \A i \in DOMAIN messages : messages[i].case \in Cases
  <2>1. messages \in Seq(Messages)
    BY DEF Types
  <2>2. \A i \in DOMAIN messages : messages[i] \in Messages
    BY <2>1
  <2> QED  BY <2>2 DEF Messages
<1>2. ASSUME NEW i \in DOMAIN messages, messages[i].role = "user"
      PROVE  IsQuestion(i)'
  BY <1>1, <1>2 DEF Talk, IsQuestion, FateForward
<1>3. ASSUME NEW i \in DOMAIN messages, messages[i].role = "assistant"
      PROVE  IsAnswer(i)'
  BY <1>1, <1>3 DEF Talk, IsAnswer, FateForward, ServerForward
<1> QED  BY <1>2, <1>3 DEF Talk

LEMMA ShownKept ==
  ASSUME Types, Shown, screen' = screen, FateForward, ServerForward
  PROVE  Shown'
<1>1. screen.user # NoMessage => screen.user.case \in Cases
  BY DEF Types, Drawn, Messages
<1> QED  BY <1>1 DEF Shown, UninterruptedTurnsMatch, FateForward, ServerForward

\* A table that grows keeps its rows where they were.
Grows(table, after) == \A i \in DOMAIN table : i \in DOMAIN after /\ after[i] = table[i]

LEMMA ListsForever ==
  ASSUME NEW table, NEW after, Grows(table, after), NEW tab, NEW c, Lists(tab, c, table)
  PROVE  Lists(tab, c, after)
BY DEF Grows, Lists

LEMMA ListedKept ==
  ASSUME Listed, screen' = screen, tickets' = tickets, securityEvents' = securityEvents,
         \A c \in Known : server'[c] \in Decisions => server'[c] = server[c],
         run'.phase \notin {"events", "idle"} \/ run' = run
  PROVE  Listed'
<1>1. Kept'
  BY DEF Listed, Kept, Decisions
<1>2. CasesListed' /\ EventsListed'
  BY DEF Listed, CasesListed, EventsListed, Lists
<1> QED  BY <1>1, <1>2 DEF Listed

-----------------------------------------------------------------------------
(* The invariant holds *)

LEMMA InitHolds == Init => Inv
<1> SUFFICES ASSUME Init PROVE Inv
  OBVIOUS
<1> USE DEF Init
<1>1. run \in Runs /\ run.phase = "sidebar" /\ run.event = NoEvent /\ run.case = NoCase
  BY Starts, NoEventIsOne
<1>2. Types
  <2>1. screen \in [user : Drawn, assistant : Drawn]
    BY DEF Drawn
  <2>2. messages \in Seq(Messages) /\ queued \in MaybeCase
    BY DEF MaybeCase
  <2>3. tickets \in Seq(Rows) /\ securityEvents \in Seq(Rows)
    BY EmptySeq
  <2>4. \A c \in Cases : c \in Known /\ c \notin Others
    BY ConsoleAssumption DEF Known
  <2> QED  BY <1>1, <2>1, <2>2, <2>3, <2>4, NoEventIsOne DEF Types
<1>3. Places
  BY <1>1, NoEventIsOne DEF Places, InWork
<1>4. Asked
  <2>1. {c \in Cases : server[c] # "unposted"} = {}
    BY ConsoleAssumption DEF Known
  <2>2. IsFiniteSet({c \in Cases : server[c] # "unposted"})
    BY <2>1, FS_EmptySet
  <2>3. \A c \in Cases : server[c] = "unposted" /\ posts[c] = 0
    BY ConsoleAssumption DEF Known
  <2> QED  BY <1>1, <2>2, <2>3 DEF Asked
<1>5. Talk
  BY <1>1 DEF Talk, InWork
<1>6. Shown /\ Listed
  BY DEF Shown, UninterruptedTurnsMatch, Listed, Kept, CasesListed, EventsListed,
         NoMessage, Message, Decisions
<1> QED  BY <1>2, <1>3, <1>4, <1>5, <1>6 DEF Inv

\* The user acts: a new submission is in no other place.
LEMMA UserActsKeeps == ASSUME Inv, UserActs PROVE Inv'
<1>1. PICK e \in Inputs :
        /\ fate' = [c \in Cases |-> IF c = e.case THEN "submitted" ELSE fate[c]]
        /\ IF run.phase = "idle" THEN run' = Fresh(e) /\ pending' = pending
                                 ELSE pending' = e /\ run' = run
  BY DEF UserActs
<1>2. /\ pending = NoEvent /\ messages' = messages /\ queued' = queued /\ example' = example
      /\ screen' = screen /\ tickets' = tickets /\ securityEvents' = securityEvents /\ server' = server /\ posts' = posts
  BY DEF UserActs, session, api
<1>3. /\ e \in Events /\ (e.kind = "prompt" => e.case # NoCase)
      /\ e.case # NoCase => e.case \in Cases /\ fate[e.case] = "none"
  BY ConsoleAssumption DEF Inputs, Event, Events, Kinds, MaybeCase
<1>4. /\ fate' \in [Cases -> {"none", "submitted", "dropped", "answered"}] /\ FateForward /\ ServerForward
      /\ \A c \in Cases : fate'[c] = IF c = e.case THEN "submitted" ELSE fate[c]
  BY <1>1, <1>2, <1>3, ConsoleAssumption DEF Inv, Types, FateForward, ServerForward
<1>5. \/ /\ run.phase = "idle" /\ run' = Fresh(e) /\ run' \in Runs /\ pending' = NoEvent
         /\ run'.phase = "sidebar" /\ run'.event = e /\ run'.case = NoCase
      \/ run.phase # "idle" /\ pending' = e /\ run' = run
  BY <1>1, <1>2, <1>3, Starts
<1>6. Types'
  BY <1>2, <1>3, <1>4, <1>5, NoEventIsOne DEF Inv, Types
<1>7. Places'
  <2>1. e.case # NoCase => posts[e.case] = 0
    BY <1>3 DEF Inv, Asked
  <2>2. /\ run.event.case \in MaybeCase /\ run.case \in MaybeCase /\ queued \in MaybeCase
    BY DEF Inv, Types, Runs, Events
  <2>3. e.case # NoCase => e.case \notin {run.event.case, run.case, queued}
    BY <1>3, <2>2 DEF Inv, Places, Open
  <2>4. CASE run.phase = "idle"
    BY <1>2, <1>3, <1>4, <1>5, <2>1, <2>2, <2>3, <2>4, NoEventIsOne, ConsoleAssumption
       DEF Inv, Places, Open, EventCounts, MaybeCase, InWork
  <2>5. CASE run.phase # "idle"
    BY <1>2, <1>3, <1>4, <1>5, <2>1, <2>2, <2>3, <2>5, NoEventIsOne, ConsoleAssumption
       DEF Inv, Places, Open, EventCounts, MaybeCase, InWork
  <2> QED  BY <2>4, <2>5
<1>8. Asked'
  BY <1>2, <1>4, <1>5 DEF Inv, Asked, FateForward
<1>9. Talk'
  BY <1>2, <1>4, <1>5, TalkKept DEF Inv, InWork
<1>10. Shown' /\ Listed'
  BY <1>2, <1>4, <1>5, ShownKept, ListedKept DEF Inv
<1> QED  BY <1>6, <1>7, <1>8, <1>9, <1>10 DEF Inv

\* A waiting event interrupts the run: what it had taken is dropped.
LEMMA InterruptKeeps == ASSUME Inv, Interrupt PROVE Inv'
<1>1. /\ Drop({run.event.case, run.case}) /\ Rerun
      /\ messages' = messages /\ queued' = queued /\ example' = example
      /\ screen' = screen /\ tickets' = tickets /\ securityEvents' = securityEvents /\ server' = server /\ posts' = posts
  BY DEF Interrupt, session, api
<1>2. /\ run' \in Runs /\ run'.phase = "sidebar" /\ run'.event = pending /\ run'.case = NoCase
      /\ pending' \in Events /\ pending'.case = NoCase /\ pending'.kind = "none"
  BY <1>1, Restarts DEF Inv
<1>3. \A c \in Cases \cap {run.event.case, run.case} : fate[c] # "answered"
  BY ConsoleAssumption DEF Inv, Places
<1>4. /\ fate' \in [Cases -> {"none", "submitted", "dropped", "answered"}] /\ FateForward /\ ServerForward
      /\ \A c \in Cases : fate'[c] = IF c \in {run.event.case, run.case} THEN "dropped" ELSE fate[c]
  BY <1>1, <1>3, Drops DEF Inv, ServerForward
<1>5. Types'
  BY <1>1, <1>2, <1>4 DEF Inv, Types
<1>6. Places'
  <2>1. pending.case \in MaybeCase /\ queued \in MaybeCase
    BY DEF Inv, Types, Events
  <2> QED  BY <1>1, <1>2, <1>4, <2>1 DEF Inv, Places, Open, EventCounts, MaybeCase, InWork
<1>7. Asked'
  BY <1>1, <1>2, <1>4, AskedKept DEF Inv
<1>8. Talk'
  <2>1. run.phase \in InWork => run.case \in Cases
    BY DEF Inv, Types, Runs, Places, MaybeCase
  <2> QED  BY <1>1, <1>2, <1>4, <2>1, TalkKept DEF Inv, InWork
<1>9. Shown' /\ Listed'
  BY <1>1, <1>2, <1>4, ShownKept, ListedKept DEF Inv
<1> QED  BY <1>5, <1>6, <1>7, <1>8, <1>9 DEF Inv

LEMMA SidebarKeeps == ASSUME Inv, Sidebar PROVE Inv'
<1>1. /\ run.phase = "sidebar" /\ queued' = queued /\ example' = example
      /\ screen' = screen /\ tickets' = tickets /\ securityEvents' = securityEvents /\ server' = server /\ posts' = posts /\ fate' = fate
  BY DEF Sidebar, api, history
<1>2. FateForward /\ ServerForward
  BY <1>1 DEF FateForward, ServerForward
<1>3. CASE run.event.kind = "clear" /\ messages' = <<>> /\ Rerun
  <2>1. /\ run' \in Runs /\ run'.phase = "sidebar" /\ run'.event = pending /\ run'.case = NoCase
        /\ pending' \in Events /\ pending'.case = NoCase /\ pending'.kind = "none"
    BY <1>3, Restarts DEF Inv
  <2>2. Types'
    BY <1>1, <1>3, <2>1 DEF Inv, Types
  <2>3. Places'
    BY <1>1, <2>1 DEF Inv, Places, Open, EventCounts, InWork
  <2>4. Asked'
    BY <1>1, <1>2, <2>1, AskedKept DEF Inv
  <2>5. Talk'
    BY <1>3, <2>1 DEF Talk, InWork
  <2>6. Shown' /\ Listed'
    BY <1>1, <1>2, <2>1, ShownKept, ListedKept DEF Inv
  <2> QED  BY <2>2, <2>3, <2>4, <2>5, <2>6 DEF Inv
<1>4. CASE Goto("sidebar", "form") /\ messages' = messages /\ pending' = pending
  <2>1. /\ run' \in Runs /\ run'.phase = "form"
        /\ run'.event = run.event /\ run'.case = run.case /\ run'.result = run.result
    BY <1>4, Moves DEF Inv, Phases
  <2>2. Types'
    BY <1>1, <1>4, <2>1 DEF Inv, Types
  <2>3. Places'
    BY <1>1, <1>4, <2>1 DEF Inv, Places, Open, EventCounts, InWork
  <2>4. Asked'
    BY <1>1, <1>2, <2>1, AskedKept DEF Inv
  <2>5. Talk'
    BY <1>1, <1>2, <1>4, <2>1, TalkKept DEF Inv, InWork
  <2>6. Shown' /\ Listed'
    BY <1>1, <1>2, <2>1, ShownKept, ListedKept DEF Inv
  <2> QED  BY <2>2, <2>3, <2>4, <2>5, <2>6 DEF Inv
<1> QED  BY <1>3, <1>4 DEF Sidebar

\* The form takes the run's event, or lets it pass.
LEMMA FormKeeps == ASSUME Inv, Form PROVE Inv'
<1> DEFINE e == run.event
<1>1. /\ run.phase = "form" /\ messages' = messages
      /\ screen' = screen /\ tickets' = tickets /\ securityEvents' = securityEvents /\ server' = server /\ posts' = posts
  BY DEF Form, api
<1>2. /\ e \in Events /\ run.case = NoCase /\ queued \in MaybeCase /\ e.case \in MaybeCase
      /\ e.case # NoCase => Open(e.case)
      /\ queued # NoCase => Open(queued) /\ queued # e.case
  <2>1. e \in Events /\ queued \in MaybeCase
    BY DEF Inv, Types, Runs
  <2> QED  BY <1>1, <2>1 DEF Inv, Places, EventCounts, InWork, Events
<1>3. ServerForward
  BY <1>1 DEF ServerForward
\* What is put into the queue drops what was there.
<1>4. CASE /\ e.case # NoCase /\ queued' = e.case /\ example' = FALSE /\ Drop({queued}) /\ Rerun
  <2>1. /\ run' \in Runs /\ run'.phase = "sidebar" /\ run'.event = pending /\ run'.case = NoCase
        /\ pending' \in Events /\ pending'.case = NoCase /\ pending'.kind = "none"
    BY <1>4, Restarts DEF Inv
  <2>2. /\ fate' \in [Cases -> {"none", "submitted", "dropped", "answered"}] /\ FateForward
        /\ \A c \in Cases : fate'[c] = IF c \in {queued} THEN "dropped" ELSE fate[c]
    <3>1. \A c \in Cases \cap {queued} : fate[c] # "answered"
      BY <1>2, ConsoleAssumption DEF Open
    <3> QED  BY <1>4, <3>1, Drops DEF Inv
  <2>3. Types'
    BY <1>1, <1>2, <1>4, <2>1, <2>2 DEF Inv, Types
  <2>4. Places'
    <3>1. pending.case \in MaybeCase
      BY DEF Inv, Types, Events
    <3> QED  BY <1>1, <1>2, <1>4, <2>1, <2>2, <3>1 DEF Inv, Places, Open, EventCounts, MaybeCase, InWork
  <2>5. Asked'
    BY <1>1, <2>1, <2>2, AskedKept DEF Inv
  <2>6. Talk'
    BY <1>1, <1>3, <2>1, <2>2, TalkKept DEF Inv, InWork
  <2>7. Shown' /\ Listed'
    BY <1>1, <1>3, <2>1, <2>2, ShownKept, ListedKept DEF Inv
  <2> QED  BY <2>3, <2>4, <2>5, <2>6, <2>7 DEF Inv
\* A cancelled form leaves the queue alone.
<1>5. CASE example' = FALSE /\ Rerun /\ queued' = queued /\ fate' = fate
  <2>1. /\ run' \in Runs /\ run'.phase = "sidebar" /\ run'.event = pending /\ run'.case = NoCase
        /\ pending' \in Events /\ pending'.case = NoCase /\ pending'.kind = "none"
    BY <1>5, Restarts DEF Inv
  <2>2. FateForward
    BY <1>5 DEF FateForward
  <2>3. Types'
    BY <1>1, <1>5, <2>1 DEF Inv, Types
  <2>4. Places'
    BY <1>1, <1>5, <2>1 DEF Inv, Places, Open, EventCounts, InWork
  <2>5. Asked'
    BY <1>1, <2>1, <2>2, AskedKept DEF Inv
  <2>6. Talk'
    BY <1>1, <1>3, <2>1, <2>2, TalkKept DEF Inv, InWork
  <2>7. Shown' /\ Listed'
    BY <1>1, <1>3, <2>1, <2>2, ShownKept, ListedKept DEF Inv
  <2> QED  BY <2>3, <2>4, <2>5, <2>6, <2>7 DEF Inv
\* Otherwise the run goes on; a submission the form did not take is dropped.
<1>6. CASE /\ Goto("form", "input") /\ queued' = queued /\ pending' = pending /\ example' \in BOOLEAN
           /\ (e.kind = "submit" /\ Drop({e.case})) \/ fate' = fate
  <2>1. /\ run' \in Runs /\ run'.phase = "input"
        /\ run'.event = run.event /\ run'.case = run.case /\ run'.result = run.result
    BY <1>6, Moves DEF Inv, Phases
  <2>2. /\ fate' \in [Cases -> {"none", "submitted", "dropped", "answered"}] /\ FateForward
        /\ \A c \in Cases : fate'[c] = fate[c]
                            \/ (e.kind = "submit" /\ c = e.case /\ fate'[c] = "dropped")
    <3>1. CASE fate' = fate
      BY <3>1 DEF FateForward, Inv, Types
    <3>2. CASE e.kind = "submit" /\ Drop({e.case})
      <4>1. \A c \in Cases \cap {e.case} : fate[c] # "answered"
        BY <1>2, ConsoleAssumption DEF Open
      <4>2. /\ fate' \in [Cases -> {"none", "submitted", "dropped", "answered"}] /\ FateForward
            /\ \A c \in Cases : fate'[c] = IF c \in {e.case} THEN "dropped" ELSE fate[c]
        BY <3>2, <4>1, Drops DEF Inv
      <4> QED  BY <3>2, <4>2
    <3> QED  BY <1>6, <3>1, <3>2
  <2>3. Types'
    BY <1>1, <1>6, <2>1, <2>2 DEF Inv, Types
  <2>4. Places'
    <3>1. pending.case \in MaybeCase
      BY DEF Inv, Types, Events
    <3> QED  BY <1>1, <1>2, <1>6, <2>1, <2>2, <3>1 DEF Inv, Places, Open, EventCounts, MaybeCase, InWork
  <2>5. Asked'
    BY <1>1, <2>1, <2>2, AskedKept DEF Inv
  <2>6. Talk'
    BY <1>1, <1>3, <2>1, <2>2, TalkKept DEF Inv, InWork
  <2>7. Shown' /\ Listed'
    BY <1>1, <1>3, <2>1, <2>2, ShownKept, ListedKept DEF Inv
  <2> QED  BY <2>3, <2>4, <2>5, <2>6, <2>7 DEF Inv
<1>7. example \in BOOLEAN
  BY DEF Inv, Types
<1> QED  BY <1>4, <1>5, <1>6, <1>7 DEF Form

\* The last message of a role, if it has one.
LEMMA LastIs ==
  ASSUME Types, NEW role
  PROVE  \/ Last(role) = NoMessage
         \/ \E i \in DOMAIN messages :
              /\ Last(role) = messages[i] /\ messages[i].role = role
              /\ \A j \in DOMAIN messages : messages[j].role = role => j <= i
<1> DEFINE of == {i \in DOMAIN messages : messages[i].role = role}
<1>1. Len(messages) \in Nat /\ of \in SUBSET (1..Len(messages))
  BY DEF Types
<1>2. CASE of = {}
  BY <1>2 DEF Last
<1>3. CASE of # {}
  <2> DEFINE i == CHOOSE i \in of : \A j \in of : j <= i
  <2>1. i \in of /\ \A j \in of : j <= i
    <3> HIDE DEF of
    <3> QED  BY <1>1, <1>3, GreatestIndex
  <2>2. Last(role) = messages[i]
    BY <1>3 DEF Last
  <2> QED  BY <2>1, <2>2
<1> QED  BY <1>2, <1>3

\* With no run in work, the last question and the last answer belong together
\* or the question was dropped.
LEMMA LastTurn ==
  ASSUME Types, Talk, run.phase \notin InWork
  PROVE  /\ Last("user") \in Drawn /\ Last("assistant") \in Drawn
         /\ Last("assistant") # NoMessage /\ Last("user") # NoMessage =>
              \/ Last("user").case = Last("assistant").case
              \/ fate[Last("user").case] = "dropped"
         /\ Last("assistant").result \in Decisions =>
              /\ Last("assistant").case \in Cases
              /\ server[Last("assistant").case] = Last("assistant").result
<1>1. messages \in Seq(Messages) /\ Len(messages) \in Nat /\ DOMAIN messages = 1..Len(messages)
  BY DEF Types
<1>2. \A i \in DOMAIN messages : messages[i] \in Messages
  BY <1>1
<1>3. Last("user") \in Drawn /\ Last("assistant") \in Drawn
  BY <1>2, LastIs DEF Drawn
<1>4. ASSUME Last("assistant") # NoMessage, Last("user") # NoMessage
      PROVE  Last("user").case = Last("assistant").case \/ fate[Last("user").case] = "dropped"
  <2>1. PICK i \in DOMAIN messages :
          /\ Last("user") = messages[i] /\ messages[i].role = "user"
          /\ \A k \in DOMAIN messages : messages[k].role = "user" => k <= i
    BY <1>4, LastIs
  <2>2. PICK j \in DOMAIN messages :
          /\ Last("assistant") = messages[j] /\ messages[j].role = "assistant"
          /\ \A k \in DOMAIN messages : messages[k].role = "assistant" => k <= j
    BY <1>4, LastIs
  <2>3. j > 1 /\ messages[j - 1] = Message("user", messages[j].case, "none")
    BY <2>2 DEF Talk, IsAnswer
  <2>4. j - 1 \in DOMAIN messages /\ messages[j - 1].role = "user"
    BY <1>1, <2>3 DEF Message
  <2>5. j - 1 <= i
    BY <2>1, <2>4
  <2>6. IsQuestion(i)
    BY <2>1 DEF Talk
  <2>7. CASE i < Len(messages) /\ messages[i + 1].role = "assistant"
    <3>1. i + 1 \in DOMAIN messages
      BY <1>1, <2>7
    <3>2. i + 1 <= j
      BY <2>2, <2>7, <3>1
    <3>3. i \in Nat /\ j \in Nat
      BY <1>1
    <3>4. i = j - 1
      BY <2>5, <3>2, <3>3
    <3> QED  BY <2>1, <2>2, <2>3, <3>4 DEF Message
  <2> QED  BY <2>1, <2>6, <2>7 DEF IsQuestion
<1>5. ASSUME Last("assistant").result \in Decisions
      PROVE  /\ Last("assistant").case \in Cases
             /\ server[Last("assistant").case] = Last("assistant").result
  <2>1. Last("assistant") # NoMessage
    BY <1>5 DEF NoMessage, Message, Decisions
  <2>2. PICK j \in DOMAIN messages :
          Last("assistant") = messages[j] /\ messages[j].role = "assistant"
    BY <2>1, LastIs
  <2>3. IsAnswer(j) /\ messages[j].case \in Cases
    BY <1>2, <2>2 DEF Talk, Messages
  <2> QED  BY <1>5, <2>2, <2>3 DEF IsAnswer, Decisions
<1> QED  BY <1>3, <1>4, <1>5

\* The run takes a submission, or draws the last turn.
LEMMA TakeInputKeeps == ASSUME Inv, TakeInput PROVE Inv'
<1>1. /\ queued' = NoCase /\ pending' = pending /\ messages' = messages /\ example' = example
      /\ tickets' = tickets /\ securityEvents' = securityEvents /\ server' = server /\ posts' = posts
  BY DEF TakeInput, api
<1>2. ServerForward
  BY <1>1 DEF ServerForward
<1>3. CASE Submission # NoCase
  <2>1. /\ run.phase = "input" /\ run' = [run EXCEPT !.phase = "taken", !.case = Submission]
        /\ screen' = [user |-> Message("user", Submission, "none"), assistant |-> NoMessage]
        /\ Drop({Prompt} \ {Submission})
    BY <1>3 DEF TakeInput
  <2>2. /\ run.event \in Events /\ run.event.case \in MaybeCase /\ queued \in MaybeCase
        /\ pending.case \in MaybeCase
    BY DEF Inv, Types, Runs, Events
  <2>3. /\ Submission \in Cases /\ Open(Submission) /\ pending.case # Submission
        /\ Prompt \in MaybeCase /\ (Prompt # NoCase => Open(Prompt) /\ pending.case # Prompt)
    BY <1>3, <2>1, <2>2 DEF Submission, Prompt, Inv, Places, EventCounts, MaybeCase
  <2>4. /\ run' \in Runs /\ run'.phase = "taken" /\ run'.case = Submission
        /\ run'.event = run.event
    BY <2>1, <2>3 DEF Inv, Types, Runs, Phases, MaybeCase
  <2>5. /\ fate' \in [Cases -> {"none", "submitted", "dropped", "answered"}] /\ FateForward
        /\ \A c \in Cases : fate'[c] = IF c \in {Prompt} \ {Submission} THEN "dropped" ELSE fate[c]
    <3>1. \A c \in Cases \cap ({Prompt} \ {Submission}) : fate[c] # "answered"
      BY <2>3, ConsoleAssumption DEF Open
    <3> QED  BY <2>1, <3>1, Drops DEF Inv
  <2>6. Types'
    <3>1. screen' \in [user : Drawn, assistant : Drawn]
      BY <2>1, <2>3 DEF Drawn, Messages, Message, Results
    <3> QED  BY <1>1, <2>4, <2>5, <3>1 DEF Inv, Types, MaybeCase
  <2>7. Places'
    <3>1. /\ run'.event.case # NoCase => fate'[run'.event.case] \in {"submitted", "dropped"}
          /\ ~EventCounts'
      BY <2>2, <2>4, <2>5 DEF Inv, Places, EventCounts, MaybeCase
    <3>2. fate'[Submission] = "submitted" /\ posts'[Submission] = 0
      BY <1>1, <2>3, <2>5 DEF Open
    <3>3. pending.case # NoCase => Open(pending.case)' /\ pending.case # run.event.case
      BY <1>1, <2>2, <2>3, <2>5 DEF Inv, Places, Open, MaybeCase
    <3> QED  BY <1>1, <1>3, <2>3, <2>4, <3>1, <3>2, <3>3 DEF Inv, Places, Open, InWork
  <2>8. Asked'
    BY <1>1, <2>4, <2>5, AskedKept DEF Inv
  <2>9. Talk'
    BY <1>1, <1>2, <2>1, <2>4, <2>5, TalkKept DEF Inv, InWork
  <2>10. Shown' /\ Listed'
    <3>1. screen'.assistant = NoMessage
      BY <2>1
    <3>2. Kept'
      BY <1>1 DEF Inv, Listed, Kept
    <3> QED  BY <3>1, <3>2 DEF Shown, UninterruptedTurnsMatch, Listed, CasesListed, EventsListed,
                               NoMessage, Message, Decisions
  <2> QED  BY <2>6, <2>7, <2>8, <2>9, <2>10 DEF Inv
<1>4. CASE Submission = NoCase
  <2>1. /\ Goto("input", "cases") /\ fate' = fate
        /\ screen' = [user |-> Last("user"), assistant |-> Last("assistant")]
    BY <1>4 DEF TakeInput
  <2>2. /\ run' \in Runs /\ run.phase = "input" /\ run'.phase = "cases"
        /\ run'.event = run.event /\ run'.case = run.case /\ run'.result = run.result
    BY <2>1, Moves DEF Inv, Phases
  <2>3. FateForward
    BY <2>1 DEF FateForward
  <2>4. run.phase \notin InWork
    BY <2>2 DEF InWork
  <2>5. Types'
    BY <1>1, <2>1, <2>2, <2>4, LastTurn DEF Inv, Types, MaybeCase
  <2>6. Places'
    BY <1>1, <2>1, <2>2, <2>4 DEF Inv, Places, Open, EventCounts, InWork
  <2>7. Asked'
    BY <1>1, <2>2, <2>3, AskedKept DEF Inv
  <2>8. Talk'
    BY <1>1, <1>2, <2>2, <2>3, <2>4, TalkKept DEF Inv, InWork
  <2>9. Shown'
    BY <1>1, <2>1, <2>4, LastTurn DEF Inv, Shown, UninterruptedTurnsMatch
  <2>10. Listed'
    <3>1. Kept'
      BY <1>1 DEF Inv, Listed, Kept
    <3> QED  BY <2>2, <3>1 DEF Listed, CasesListed, EventsListed
  <2> QED  BY <2>5, <2>6, <2>7, <2>8, <2>9, <2>10 DEF Inv
<1> QED  BY <1>3, <1>4

\* The session grows at its end.
LEMMA Appending ==
  ASSUME Types, NEW m \in Messages, messages' = Append(messages, m)
  PROVE  /\ Len(messages) \in Nat /\ DOMAIN messages = 1..Len(messages)
         /\ Len(messages)' = Len(messages) + 1 /\ DOMAIN messages' = 1..(Len(messages) + 1)
         /\ messages' \in Seq(Messages)
         /\ \A i \in 1..Len(messages) : messages'[i] = messages[i] /\ messages[i] \in Messages
         /\ messages'[Len(messages) + 1] = m
<1>1. messages \in Seq(Messages)
  BY DEF Types
<1> QED  BY <1>1

\* The question is put into the session.
LEMMA AskKeeps == ASSUME Inv, Ask PROVE Inv'
<1> DEFINE question == Message("user", run.case, "none")
<1>0. PICK n \in Nat : n = Len(messages)
  BY DEF Inv, Types
<1>1. /\ Goto("taken", "asked") /\ messages' = Append(messages, question)
      /\ pending' = pending /\ queued' = queued /\ example' = example
      /\ screen' = screen /\ tickets' = tickets /\ securityEvents' = securityEvents /\ server' = server /\ posts' = posts /\ fate' = fate
  BY DEF Ask, api, history
<1>2. /\ run' \in Runs /\ run.phase = "taken" /\ run'.phase = "asked"
      /\ run'.event = run.event /\ run'.case = run.case /\ run'.result = run.result
  BY <1>1, Moves DEF Inv, Phases, InWork
<1>3. FateForward /\ ServerForward
  BY <1>1 DEF FateForward, ServerForward
<1>4. question \in Messages
  BY <1>2 DEF Inv, Types, Runs, Places, MaybeCase, Messages, Message, Results
<1>5. /\ n \in Nat /\ DOMAIN messages = 1..n /\ Len(messages)' = n + 1 /\ DOMAIN messages' = 1..(n + 1)
      /\ messages' \in Seq(Messages)
      /\ \A i \in 1..n : messages'[i] = messages[i] /\ messages[i] \in Messages
      /\ messages'[n + 1] = question
  BY <1>0, <1>1, <1>4, Appending DEF Inv
<1>6. Types'
  BY <1>1, <1>2, <1>5 DEF Inv, Types
<1>7. Places'
  BY <1>1, <1>2 DEF Inv, Places, Open, EventCounts, InWork
<1>8. Asked'
  BY <1>1, <1>2, <1>3, AskedKept DEF Inv
<1>9. Talk'
  <2>1. question.role = "user" /\ question.case = run.case /\ question.result = "none"
    BY DEF Message
  <2> HIDE DEF question
  <2>2. ASSUME NEW i \in 1..n, messages[i].role = "user"
        PROVE  IsQuestion(i)'
    <3>1. IsQuestion(i) /\ run.phase \notin InWork
      BY <1>2, <1>5, <2>2 DEF Inv, Talk, InWork
    <3>2. CASE i < Len(messages) /\ messages[i + 1].role = "assistant"
      <4>1. i + 1 \in 1..n /\ i < n + 1
        BY <1>5, <1>0, <3>2
      <4> QED  BY <1>5, <3>1, <3>2, <4>1 DEF IsQuestion
    <3>3. CASE fate[messages[i].case] = "dropped"
      BY <1>1, <1>5, <3>1, <3>3 DEF IsQuestion
    <3> QED  BY <3>1, <3>2, <3>3 DEF IsQuestion
  <2>3. IsQuestion(n + 1)'
    BY <1>2, <1>5, <2>1 DEF IsQuestion, InWork
  <2>4. ASSUME NEW i \in 1..n, messages[i].role = "assistant"
        PROVE  IsAnswer(i)'
    <3>1. IsAnswer(i)
      BY <1>5, <2>4 DEF Inv, Talk
    <3>2. i - 1 \in 1..n
      BY <1>5, <3>1 DEF IsAnswer
    <3> QED  BY <1>1, <1>5, <3>1, <3>2 DEF IsAnswer
  <2>5. \A i \in 1..(n + 1) : i \in 1..n \/ i = n + 1
    BY <1>5
  <2>6. \A i \in DOMAIN messages' : /\ messages'[i].role = "user" => IsQuestion(i)'
                                    /\ messages'[i].role = "assistant" => IsAnswer(i)'
    BY <1>5, <2>1, <2>2, <2>3, <2>4, <2>5
  <2>7. \A i, j \in DOMAIN messages' :
          messages'[i].role = "assistant" /\ messages'[j].role = "assistant" /\ i # j =>
            messages'[i].case # messages'[j].case
    BY <1>5, <2>1, <2>5 DEF Inv, Talk
  <2>8. Len(messages)' > 0 /\ messages'[Len(messages)'] = Message("user", run'.case, "none")
    BY <1>2, <1>5 DEF question
  <2> QED  BY <2>6, <2>7, <2>8 DEF Talk
<1>10. Shown' /\ Listed'
  BY <1>1, <1>2, <1>3, ShownKept, ListedKept DEF Inv
<1> QED  BY <1>6, <1>7, <1>8, <1>9, <1>10 DEF Inv

\* The case is posted, once, or the API is not reached.
LEMMA PostKeeps == ASSUME Inv, Post PROVE Inv'
<1>1. /\ run.phase = "asked" /\ pending' = pending /\ messages' = messages /\ queued' = queued
      /\ example' = example /\ screen' = screen /\ fate' = fate
      /\ tickets' = tickets /\ securityEvents' = securityEvents
  BY DEF Post, session
<1>2. FateForward
  BY <1>1 DEF FateForward
<1>3. /\ run.case \in Cases /\ run.case # NoCase /\ posts[run.case] = 0 /\ server[run.case] = "unposted"
      /\ fate[run.case] = "submitted"
  BY <1>1 DEF Inv, Types, Runs, Places, MaybeCase, Asked, InWork
<1>4. CASE /\ Goto("asked", "posting")
           /\ server' = [server EXCEPT ![run.case] = "running"]
           /\ posts' = [posts EXCEPT ![run.case] = @ + 1]
  <2>1. /\ run' \in Runs /\ run'.phase = "posting"
        /\ run'.event = run.event /\ run'.case = run.case /\ run'.result = run.result
    BY <1>4, Moves DEF Inv, Phases, InWork
  <2>2. /\ server' \in [Known -> Decisions \cup {"unposted", "running", "failed"}]
        /\ posts' \in [Cases -> Nat]
        /\ \A c \in Known : server'[c] = IF c = run.case THEN "running" ELSE server[c]
        /\ \A c \in Cases : /\ server'[c] = IF c = run.case THEN "running" ELSE server[c]
                            /\ posts'[c] = IF c = run.case THEN 1 ELSE posts[c]
    BY <1>3, <1>4 DEF Inv, Types, Known
  <2>3. ServerForward
    BY <1>3, <2>2 DEF ServerForward, Decisions
  <2>4. Types'
    BY <1>1, <2>1, <2>2 DEF Inv, Types
  <2>5. Places'
    <3>1. pending.case \in MaybeCase /\ queued \in MaybeCase /\ run.event.case \in MaybeCase
      BY DEF Inv, Types, Runs, Events
    <3> QED  BY <1>1, <2>1, <2>2, <3>1 DEF Inv, Places, Open, EventCounts, MaybeCase, InWork
  <2>6. Asked'
    <3> DEFINE W == {c \in Cases : server[c] # "unposted"}
               W2 == {c \in Cases : server'[c] # "unposted"}
    <3>1. W2 = W \cup {run.case}
      BY <1>3, <2>2
    <3>2. IsFiniteSet(W)
      BY DEF Inv, Asked
    <3> HIDE DEF W, W2
    <3>3. IsFiniteSet(W2)
      BY <3>1, <3>2, FS_AddElement
    <3>4. \A c \in Cases : /\ posts'[c] <= 1
                           /\ posts'[c] = 0 <=> server'[c] = "unposted"
                           /\ fate'[c] = "none" => posts'[c] = 0
      BY <1>1, <1>3, <2>2 DEF Inv, Asked
    <3> QED  BY <2>1, <3>3, <3>4 DEF Asked, W2
  <2>7. Talk'
    BY <1>1, <1>2, <2>1, <2>3, TalkKept DEF Inv, InWork
  <2>8. Shown' /\ Listed'
    <3>1. \A c \in Known : server'[c] \in Decisions => server'[c] = server[c]
      BY <2>2 DEF Decisions
    <3> QED  BY <1>1, <1>2, <2>1, <2>3, <3>1, ShownKept, ListedKept DEF Inv
  <2> QED  BY <2>4, <2>5, <2>6, <2>7, <2>8 DEF Inv
<1>5. CASE Answered("error") /\ server' = server /\ posts' = posts
  <2>1. /\ run' \in Runs /\ run'.phase = "answered" /\ run'.result = "error"
        /\ run'.event = run.event /\ run'.case = run.case
    BY <1>5 DEF Answered, Inv, Types, Runs, Phases, InWork, Results
  <2>2. ServerForward
    BY <1>5 DEF ServerForward
  <2>3. Types'
    BY <1>1, <1>5, <2>1 DEF Inv, Types
  <2>4. Places'
    BY <1>1, <1>5, <2>1 DEF Inv, Places, Open, EventCounts, InWork
  <2>5. Asked'
    BY <1>1, <1>5, <2>1 DEF Inv, Asked
  <2>6. Talk'
    BY <1>1, <1>2, <2>1, <2>2, TalkKept DEF Inv, InWork
  <2>7. Shown' /\ Listed'
    BY <1>1, <1>2, <1>5, <2>1, <2>2, ShownKept, ListedKept DEF Inv
  <2> QED  BY <2>3, <2>4, <2>5, <2>6, <2>7 DEF Inv
<1> QED  BY <1>4, <1>5 DEF Post

\* The answer, or an error: what the run reports as a decision is one.
LEMMA ReceiveKeeps == ASSUME Inv, Receive PROVE Inv'
<1>1. /\ run.phase = "posting" /\ pending' = pending /\ messages' = messages /\ queued' = queued
      /\ example' = example /\ screen' = screen /\ tickets' = tickets /\ securityEvents' = securityEvents /\ fate' = fate
      /\ server' = server /\ posts' = posts
  BY DEF Receive, session, api, history
<1>2. PICK result \in Decisions \cup {"error"} :
        Answered(result) /\ (result = "error" \/ server[run.case] = result)
  BY DEF Receive
<1>3. /\ run' \in Runs /\ run'.phase = "answered" /\ run'.result = result
      /\ run'.event = run.event /\ run'.case = run.case
  BY <1>2 DEF Answered, Inv, Types, Runs, Phases, InWork, Results
<1>4. FateForward /\ ServerForward
  BY <1>1 DEF FateForward, ServerForward
<1>5. Types'
  BY <1>1, <1>3 DEF Inv, Types
<1>6. Places'
  BY <1>1, <1>3 DEF Inv, Places, Open, EventCounts, InWork
<1>7. Asked'
  BY <1>1, <1>2, <1>3 DEF Inv, Asked
<1>8. Talk'
  BY <1>1, <1>3, <1>4, TalkKept DEF Inv, InWork
<1>9. Shown' /\ Listed'
  BY <1>1, <1>3, <1>4, ShownKept, ListedKept DEF Inv
<1> QED  BY <1>5, <1>6, <1>7, <1>8, <1>9 DEF Inv

\* The answer follows its question, and no case is answered twice.
LEMMA StoreKeeps == ASSUME Inv, Store PROVE Inv'
<1> DEFINE answer == Message("assistant", run.case, run.result)
<1>0. PICK n \in Nat : n = Len(messages)
  BY DEF Inv, Types
<1>1. /\ run.phase = "answered" /\ messages' = Append(messages, answer)
      /\ fate' = [fate EXCEPT ![run.case] = "answered"] /\ Rerun
      /\ queued' = queued /\ example' = example /\ screen' = screen /\ tickets' = tickets /\ securityEvents' = securityEvents
      /\ server' = server /\ posts' = posts
  BY DEF Store, api
<1>2. /\ run' \in Runs /\ run'.phase = "sidebar" /\ run'.event = pending /\ run'.case = NoCase
      /\ pending' \in Events /\ pending'.case = NoCase /\ pending'.kind = "none"
  BY <1>1, Restarts DEF Inv
<1>3. /\ run.case \in Cases /\ run.case # NoCase /\ fate[run.case] = "submitted"
      /\ run.result \in Decisions \cup {"error"}
      /\ run.result = "error" \/ server[run.case] = run.result
      /\ n > 0 /\ messages[n] = Message("user", run.case, "none")
  BY <1>0, <1>1 DEF Inv, Types, Runs, Places, MaybeCase, Asked, Talk, InWork
<1>4. /\ fate' \in [Cases -> {"none", "submitted", "dropped", "answered"}]
      /\ \A c \in Cases : fate'[c] = IF c = run.case THEN "answered" ELSE fate[c]
      /\ FateForward /\ ServerForward
  BY <1>1, <1>3 DEF Inv, Types, FateForward, ServerForward
<1>5. answer \in Messages
  BY <1>3 DEF Messages, Message, Results
<1>6. /\ DOMAIN messages = 1..n /\ Len(messages)' = n + 1 /\ DOMAIN messages' = 1..(n + 1)
      /\ messages' \in Seq(Messages)
      /\ \A i \in 1..n : messages'[i] = messages[i] /\ messages[i] \in Messages
      /\ messages'[n + 1] = answer
  BY <1>0, <1>1, <1>5, Appending DEF Inv
<1>7. Types'
  BY <1>1, <1>2, <1>4, <1>6 DEF Inv, Types
<1>8. Places'
  <2>1. pending.case \in MaybeCase /\ queued \in MaybeCase
    BY DEF Inv, Types, Events
  <2> QED  BY <1>1, <1>2, <1>3, <1>4, <2>1 DEF Inv, Places, Open, EventCounts, MaybeCase, InWork
<1>9. Asked'
  BY <1>1, <1>2, <1>4, AskedKept DEF Inv
<1>10. Talk'
  <2>1. answer.role = "assistant" /\ answer.case = run.case /\ answer.result = run.result
    BY DEF Message
  <2> HIDE DEF answer
  <2>2. ASSUME NEW i \in 1..n, messages[i].role = "user"
        PROVE  IsQuestion(i)'
    <3>1. IsQuestion(i) /\ messages[i].case \in Cases
      BY <1>6, <2>2 DEF Inv, Talk, Messages
    <3>2. CASE i = n
      BY <1>6, <2>1, <3>1, <3>2 DEF IsQuestion
    <3>3. CASE i < n /\ messages[i + 1].role = "assistant"
      <4>1. i + 1 \in 1..n /\ i < n + 1
        BY <3>3
      <4> QED  BY <1>6, <3>1, <3>3, <4>1 DEF IsQuestion
    <3>4. CASE fate[messages[i].case] = "dropped"
      <4>1. fate'[messages[i].case] = "dropped"
        BY <1>4, <3>1, <3>4 DEF FateForward
      <4> QED  BY <1>6, <3>1, <4>1 DEF IsQuestion
    <3> QED  BY <1>0, <3>1, <3>2, <3>3, <3>4 DEF IsQuestion
  <2>3. ASSUME NEW i \in 1..n, messages[i].role = "assistant"
        PROVE  IsAnswer(i)' /\ messages[i].case # run.case
    <3>1. IsAnswer(i) /\ messages[i].case \in Cases
      BY <1>6, <2>3 DEF Inv, Talk, Messages
    <3>2. i - 1 \in 1..n /\ fate'[messages[i].case] = "answered"
      BY <1>4, <3>1 DEF IsAnswer
    <3>3. IsAnswer(i)'
      BY <1>1, <1>6, <3>1, <3>2 DEF IsAnswer
    <3> QED  BY <1>3, <3>1, <3>3 DEF IsAnswer
  <2>4. IsAnswer(n + 1)'
    <3>1. (n + 1) - 1 = n /\ n + 1 > 1 /\ n \in 1..n
      BY <1>3
    <3>2. messages'[n] = Message("user", run.case, "none") /\ fate'[run.case] = "answered"
      BY <1>3, <1>4, <1>6, <3>1
    <3> QED  BY <1>1, <1>3, <1>6, <2>1, <3>1, <3>2 DEF IsAnswer
  <2>5. \A i \in 1..(n + 1) : i \in 1..n \/ i = n + 1
    OBVIOUS
  <2>6. \A i \in DOMAIN messages' : /\ messages'[i].role = "user" => IsQuestion(i)'
                                    /\ messages'[i].role = "assistant" => IsAnswer(i)'
    BY <1>6, <2>1, <2>2, <2>3, <2>4, <2>5
  <2>7. \A i, j \in DOMAIN messages' :
          messages'[i].role = "assistant" /\ messages'[j].role = "assistant" /\ i # j =>
            messages'[i].case # messages'[j].case
    BY <1>6, <2>1, <2>3, <2>5 DEF Inv, Talk
  <2> QED  BY <1>2, <2>6, <2>7 DEF Talk, InWork
<1>11. Shown' /\ Listed'
  BY <1>1, <1>2, <1>4, ShownKept, ListedKept DEF Inv
<1> QED  BY <1>7, <1>8, <1>9, <1>10, <1>11 DEF Inv

\* A tab is what a request returned, or it failed to load.
LEMMA TabIsOne ==
  ASSUME NEW table \in Seq(Rows), NEW limit \in Nat \ {0},
         NEW filter \in SUBSET (Decisions \cup EventTypes),
         NEW tab \in {Listing(table, limit, filter), NotLoaded}
  PROVE  /\ tab \in Tabs
         /\ tab.loaded => /\ tab.limit = limit /\ tab.upto = Len(table) /\ tab.filter = filter
                          /\ tab.cases = {table[i].case : i \in
                               {j \in Newest(table, limit) : table[j].kind \in filter}}
<1>1. CASE tab = NotLoaded
  <2>1. NotLoaded \in Tabs /\ NotLoaded.loaded = FALSE
    BY DEF NotLoaded, Tabs
  <2> QED  BY <1>1, <2>1
<1>2. CASE tab = Listing(table, limit, filter)
  <2> DEFINE shown == {table[i].case : i \in {j \in Newest(table, limit) : table[j].kind \in filter}}
  <2>1. tab = [loaded |-> TRUE, limit |-> limit, upto |-> Len(table), filter |-> filter,
               cases |-> shown]
    BY <1>2 DEF Listing
  <2>2. shown \in SUBSET Known
    <3>1. \A i \in DOMAIN table : table[i] \in Rows
      OBVIOUS
    <3>2. \A i \in DOMAIN table : table[i].case \in Known
      BY <3>1 DEF Rows
    <3> QED  BY <3>2 DEF Newest
  <2>3. Len(table) \in Nat
    OBVIOUS
  <2> HIDE DEF shown
  <2>4. tab \in Tabs
    BY <2>1, <2>2, <2>3 DEF Tabs
  <2>5. tab.limit = limit /\ tab.upto = Len(table) /\ tab.filter = filter /\ tab.cases = shown
    BY <2>1
  <2> QED  BY <2>4, <2>5 DEF shown
<1> QED  BY <1>1, <1>2

\* A row the filter lets pass is in the listing, or below enough others.
LEMMA RowIsListed ==
  ASSUME NEW table \in Seq(Rows), NEW limit \in Nat \ {0},
         NEW filter \in SUBSET (Decisions \cup EventTypes),
         NEW tab \in {Listing(table, limit, filter), NotLoaded}, tab.loaded,
         NEW c, NEW kind \in filter, \E i \in DOMAIN table : table[i] = Row(c, kind)
  PROVE  Lists(tab, c, table)
<1>1. /\ tab.limit = limit /\ tab.upto = Len(table) /\ tab.filter = filter
      /\ tab.cases = {table[i].case : i \in {j \in Newest(table, limit) : table[j].kind \in filter}}
  BY TabIsOne
<1>2. PICK i \in DOMAIN table : table[i] = Row(c, kind)
  OBVIOUS
<1>3. table[i].case = c /\ table[i].kind = kind
  BY <1>2 DEF Row
<1>4. i \in Nat /\ Len(table) \in Nat
  OBVIOUS
<1>5. CASE i + limit > Len(table)
  <2>1. i \in {j \in Newest(table, limit) : table[j].kind \in filter}
    BY <1>3, <1>5 DEF Newest
  <2>2. c \in tab.cases
    BY <1>1, <1>3, <2>1
  <2> QED  BY <2>2 DEF Lists
<1>6. CASE i + limit <= Len(table)
  BY <1>1, <1>3, <1>6 DEF Lists
<1> QED  BY <1>4, <1>5, <1>6

\* The tabs are read after the chat is drawn, and what is stored stays stored.
LEMMA ListCasesKeeps == ASSUME Inv, ListCases PROVE Inv'
<1>1. /\ run.phase = "cases" /\ messages' = messages /\ queued' = queued /\ example' = example
      /\ screen' = screen /\ server' = server /\ posts' = posts /\ fate' = fate
      /\ tickets' = tickets /\ securityEvents' = securityEvents
  BY DEF ListCases, session, api, history
<1>2. FateForward /\ ServerForward
  BY <1>1 DEF FateForward, ServerForward
<1>3. CASE Rerun
  <2>1. /\ run' \in Runs /\ run'.phase = "sidebar" /\ run'.event = pending /\ run'.case = NoCase
        /\ pending' \in Events /\ pending'.case = NoCase /\ pending'.kind = "none"
    BY <1>3, Restarts DEF Inv
  <2>2. Types'
    BY <1>1, <2>1 DEF Inv, Types
  <2>3. Places'
    BY <1>1, <2>1 DEF Inv, Places, Open, EventCounts, InWork
  <2>4. Asked'
    <3>1. run'.phase # "answered"
      BY <2>1
    <3> QED  BY <1>1, <1>2, <3>1, AskedKept DEF Inv
  <2>5. Talk'
    BY <1>1, <1>2, <2>1, TalkKept DEF Inv, InWork
  <2>6. Shown' /\ Listed'
    BY <1>1, <1>2, <2>1, ShownKept, ListedKept DEF Inv
  <2> QED  BY <2>2, <2>3, <2>4, <2>5, <2>6 DEF Inv
<1>4. ASSUME NEW limit \in Limits, NEW filter \in Filters,
             NEW got \in {Listing(tickets, limit, filter), NotLoaded},
             run' = [run EXCEPT !.phase = "events", !.tabs.cases = got], pending' = pending
      PROVE  Inv'
  <2>1. /\ tickets \in Seq(Rows) /\ limit \in Nat \ {0}
        /\ filter \in SUBSET (Decisions \cup EventTypes)
    BY ConsoleAssumption DEF Inv, Types, Decisions
  <2>2. got \in Tabs /\ (got.loaded => got.filter = filter)
    <3>1. \A tab \in {Listing(tickets, limit, filter), NotLoaded} :
            tab \in Tabs /\ (tab.loaded => tab.filter = filter)
      BY <2>1, TabIsOne, SMTT(60)
    <3> QED  BY <3>1
  <2>3. /\ run' \in Runs /\ run'.phase = "events"
        /\ run'.event = run.event /\ run'.case = run.case /\ run'.result = run.result
        /\ run'.tabs.cases = got
    BY <1>4, <2>2 DEF Inv, Types, Runs, Phases
  <2>4. Types'
    BY <1>1, <1>4, <2>3 DEF Inv, Types
  <2>5. Places'
    BY <1>1, <1>4, <2>3 DEF Inv, Places, Open, EventCounts, InWork
  <2>6. Asked'
    BY <1>1, <1>2, <2>3, AskedKept DEF Inv
  <2>7. Talk'
    BY <1>1, <1>2, <2>3, TalkKept DEF Inv, InWork
  <2>8. Shown'
    BY <1>1, <1>2, ShownKept DEF Inv
  <2>9. CasesListed'
    <3> DEFINE d == screen.assistant.result
               c == screen.assistant.case
    <3> SUFFICES ASSUME d \in Decisions, got.loaded, d \in got.filter
                 PROVE  Lists(got, c, tickets)
      BY <1>1, <2>3 DEF CasesListed
    <3>1. c \in Known /\ server[c] = d
      BY DEF Inv, Shown, Known
    <3>2. \E i \in DOMAIN tickets : tickets[i] = Row(c, d)
      BY <3>1 DEF Inv, Listed, Kept
    <3>3. d \in filter
      BY <2>2
    <3> HIDE DEF d, c
    <3> QED  BY <1>4, <2>1, <3>2, <3>3, RowIsListed
  <2>10. Kept' /\ EventsListed'
    BY <1>1, <2>3 DEF Inv, Listed, Kept, EventsListed
  <2> QED  BY <2>4, <2>5, <2>6, <2>7, <2>8, <2>9, <2>10 DEF Inv, Listed
<1>5. CASE run.event.kind = "refresh"
  BY <1>3, <1>5 DEF ListCases
<1>6. CASE run.event.kind # "refresh"
  <2>1. pending' = pending
    BY <1>6 DEF ListCases
  <2>2. PICK limit \in Limits, filter \in Filters :
          \E got \in {Listing(tickets, limit, filter), NotLoaded} :
            run' = [run EXCEPT !.phase = "events", !.tabs.cases = got]
    BY <1>6 DEF ListCases
  <2>3. PICK got \in {Listing(tickets, limit, filter), NotLoaded} :
          run' = [run EXCEPT !.phase = "events", !.tabs.cases = got]
    BY <2>2
  <2> QED  BY <1>4, <2>1, <2>3
<1> QED  BY <1>5, <1>6

LEMMA ListEventsKeeps == ASSUME Inv, ListEvents PROVE Inv'
<1>1. /\ run.phase = "events" /\ pending' = pending
      /\ messages' = messages /\ queued' = queued /\ example' = example
      /\ screen' = screen /\ server' = server /\ posts' = posts /\ fate' = fate
      /\ tickets' = tickets /\ securityEvents' = securityEvents
  BY DEF ListEvents, session, api, history
<1> DEFINE fetched == Newest(securityEvents, EventLimit)
<1>2. PICK filter \in {EventTypes} \cup {{securityEvents[i].kind} : i \in fetched} :
        \E got \in {Listing(securityEvents, EventLimit, filter), NotLoaded} :
          run' = [run EXCEPT !.phase = "idle", !.tabs.events = got]
  BY DEF ListEvents
<1>3. PICK got \in {Listing(securityEvents, EventLimit, filter), NotLoaded} :
        run' = [run EXCEPT !.phase = "idle", !.tabs.events = got]
  BY <1>2
<1>4. FateForward /\ ServerForward
  BY <1>1 DEF FateForward, ServerForward
<1>5. /\ securityEvents \in Seq(Rows) /\ EventLimit \in Nat \ {0}
      /\ filter \in SUBSET (Decisions \cup EventTypes)
  <2>1. securityEvents \in Seq(Rows)
    BY DEF Inv, Types
  <2>2. \A i \in DOMAIN securityEvents : securityEvents[i].kind \in Decisions \cup EventTypes
    <3>1. \A i \in DOMAIN securityEvents : securityEvents[i] \in Rows
      BY <2>1
    <3> QED  BY <3>1 DEF Rows
  <2>3. \A i \in fetched : {securityEvents[i].kind} \in SUBSET (Decisions \cup EventTypes)
    BY <2>2 DEF Newest
  <2> QED  BY <1>2, <2>1, <2>3, ConsoleAssumption
<1> HIDE DEF fetched
<1>6. got \in Tabs /\ (got.loaded => got.filter = filter)
  <2>1. \A tab \in {Listing(securityEvents, EventLimit, filter), NotLoaded} :
          tab \in Tabs /\ (tab.loaded => tab.filter = filter)
    BY <1>5, TabIsOne, SMTT(60)
  <2> QED  BY <2>1
<1>7. /\ run' \in Runs /\ run'.phase = "idle"
      /\ run'.event = run.event /\ run'.case = run.case /\ run'.result = run.result
      /\ run'.tabs.events = got /\ run'.tabs.cases = run.tabs.cases
  BY <1>3, <1>6 DEF Inv, Types, Runs, Phases
<1>8. Types'
  BY <1>1, <1>7 DEF Inv, Types
<1>9. Places'
  BY <1>1, <1>7 DEF Inv, Places, Open, EventCounts, InWork
<1>10. Asked'
  BY <1>1, <1>4, <1>7, AskedKept DEF Inv
<1>11. Talk'
  BY <1>1, <1>4, <1>7, TalkKept DEF Inv, InWork
<1>12. Shown'
  BY <1>1, <1>4, ShownKept DEF Inv
<1>13. EventsListed'
  <2> DEFINE c == screen.assistant.case
  <2> SUFFICES ASSUME screen.assistant.result = "REFUSE", got.loaded,
                      "injection_refused" \in got.filter
               PROVE  Lists(got, c, securityEvents)
    BY <1>1, <1>7 DEF EventsListed
  <2>1. c \in Known /\ server[c] = "REFUSE"
    BY DEF Inv, Shown, Known, Decisions
  <2>2. \E i \in DOMAIN securityEvents : securityEvents[i] = Row(c, "injection_refused")
    BY <2>1 DEF Inv, Listed, Kept
  <2>3. "injection_refused" \in filter
    BY <1>6
  <2> HIDE DEF c
  <2> QED  BY <1>5, <2>2, <2>3, RowIsListed
<1>14. Kept' /\ CasesListed'
  BY <1>1, <1>7 DEF Inv, Listed, Kept, CasesListed
<1> QED  BY <1>8, <1>9, <1>10, <1>11, <1>12, <1>13, <1>14 DEF Inv, Listed

\* The events of a case are rows, a refusal's the one row of its type.
LEMMA TrailIsRows ==
  ASSUME NEW c \in Known, NEW d \in Decisions, NEW trail \in Trails(c, d)
  PROVE  /\ trail \in Seq(Rows)
         /\ d = "REFUSE" => trail = <<Row(c, "injection_refused")>>
<1>1. CASE d = "REFUSE"
  <2>1. Row(c, "injection_refused") \in Rows
    BY DEF Row, Rows, EventTypes
  <2> QED  BY <1>1, <2>1 DEF Trails
<1>2. CASE d # "REFUSE"
  <2>1. PICK n \in 0..MaxGuarded : trail = [i \in 1..n |-> Row(c, "tool_or_leak")]
    BY <1>2 DEF Trails
  <2>2. Row(c, "tool_or_leak") \in Rows
    BY DEF Row, Rows, EventTypes
  <2>3. n \in Nat
    BY <2>1, ConsoleAssumption
  <2>4. trail \in Seq(Rows)
    BY <2>1, <2>2, <2>3
  <2> QED  BY <1>2, <2>4
<1> QED  BY <1>1, <1>2

\* Rows put behind a table are in it, and those it had stay where they were.
LEMMA Behind ==
  ASSUME NEW table \in Seq(Rows), NEW more \in Seq(Rows)
  PROVE  /\ table \o more \in Seq(Rows) /\ Grows(table, table \o more)
         /\ \A j \in DOMAIN more : \E i \in DOMAIN (table \o more) : (table \o more)[i] = more[j]
<1> DEFINE all == table \o more
<1>1. /\ all \in Seq(Rows) /\ Len(all) = Len(table) + Len(more)
      /\ \A i \in 1..Len(table) : all[i] = table[i]
      /\ \A j \in 1..Len(more) : all[Len(table) + j] = more[j]
  BY ConcatProperties
<1>2. /\ Len(table) \in Nat /\ Len(more) \in Nat /\ DOMAIN table = 1..Len(table)
      /\ DOMAIN more = 1..Len(more) /\ DOMAIN all = 1..Len(all)
  BY <1>1, LenProperties
<1> HIDE DEF all
<1>3. Grows(table, all)
  BY <1>1, <1>2 DEF Grows
<1>4. ASSUME NEW j \in DOMAIN more PROVE \E i \in DOMAIN all : all[i] = more[j]
  <2>1. Len(table) + j \in DOMAIN all
    BY <1>1, <1>2
  <2> QED  BY <1>1, <1>2, <2>1
<1> QED  BY <1>1, <1>3, <1>4 DEF all

\* The API decides a case it has been asked and stores its rows, or fails.
LEMMA ResolveKeeps == ASSUME Inv, NEW c \in Known, Resolve(c) PROVE Inv'
<1>1. /\ run' = run /\ pending' = pending /\ messages' = messages /\ queued' = queued
      /\ example' = example /\ screen' = screen /\ posts' = posts /\ fate' = fate
      /\ server[c] = "running"
  BY DEF Resolve, session, history
<1>2. PICK end \in Decisions \cup {"failed"} :
        /\ server' = [server EXCEPT ![c] = end]
        /\ end = "failed" => tickets' = tickets /\ securityEvents' = securityEvents
        /\ end # "failed" => \E trail \in Trails(c, end) :
                              /\ tickets' = Append(tickets, Row(c, end))
                              /\ securityEvents' = securityEvents \o trail
  BY DEF Resolve, Decisions
<1>3. /\ server' \in [Known -> Decisions \cup {"unposted", "running", "failed"}]
      /\ \A d \in Known : /\ server'[d] = IF d = c THEN end ELSE server[d]
                          /\ server[d] \in Decisions => server'[d] = server[d]
                          /\ server'[d] = "unposted" <=> server[d] = "unposted"
  BY <1>1, <1>2 DEF Inv, Types, Decisions
<1>4. Cases \subseteq Known
  BY DEF Known
<1>5. FateForward /\ ServerForward
  BY <1>1, <1>3, <1>4 DEF FateForward, ServerForward
<1>6. tickets \in Seq(Rows) /\ securityEvents \in Seq(Rows)
  BY DEF Inv, Types
<1>7. /\ tickets' \in Seq(Rows) /\ Grows(tickets, tickets')
      /\ securityEvents' \in Seq(Rows) /\ Grows(securityEvents, securityEvents')
      /\ end # "failed" => \E i \in DOMAIN tickets' : tickets'[i] = Row(c, end)
      /\ end = "REFUSE" => \E i \in DOMAIN securityEvents' :
                             securityEvents'[i] = Row(c, "injection_refused")
  <2>1. CASE end = "failed"
    BY <1>2, <1>6, <2>1 DEF Grows
  <2>2. CASE end \in Decisions
    <3>1. PICK trail \in Trails(c, end) : /\ tickets' = Append(tickets, Row(c, end))
                                          /\ securityEvents' = securityEvents \o trail
      BY <1>2, <2>2 DEF Decisions
    <3>2. trail \in Seq(Rows) /\ (end = "REFUSE" => trail = <<Row(c, "injection_refused")>>)
      BY <2>2, <3>1, TrailIsRows
    <3>3. Row(c, end) \in Rows
      BY <2>2 DEF Row, Rows
    <3>4. tickets' \in Seq(Rows) /\ Grows(tickets, tickets')
      BY <1>6, <3>1, <3>3 DEF Grows
    <3>5. Len(tickets) + 1 \in DOMAIN tickets' /\ tickets'[Len(tickets) + 1] = Row(c, end)
      BY <1>6, <3>1, <3>3
    <3>6. /\ securityEvents' \in Seq(Rows) /\ Grows(securityEvents, securityEvents')
          /\ \A j \in DOMAIN trail : \E i \in DOMAIN securityEvents' : securityEvents'[i] = trail[j]
      BY <1>6, <3>1, <3>2, Behind
    <3>7. end = "REFUSE" => 1 \in DOMAIN trail /\ trail[1] = Row(c, "injection_refused")
      BY <3>2
    <3> QED  BY <3>4, <3>5, <3>6, <3>7
  <2> QED  BY <2>1, <2>2
<1>8. Types'
  BY <1>1, <1>3, <1>7 DEF Inv, Types
<1>9. Places'
  BY <1>1 DEF Inv, Places, Open, EventCounts
<1>10. Asked'
  <2>1. {d \in Cases : server'[d] # "unposted"} = {d \in Cases : server[d] # "unposted"}
    BY <1>3, <1>4
  <2>2. run.phase = "answered" => run.case \in Cases
    BY DEF Inv, Types, Runs, Places, MaybeCase, InWork
  <2> QED  BY <1>1, <1>3, <1>4, <2>1, <2>2 DEF Inv, Asked
<1>11. Talk'
  BY <1>1, <1>5, TalkKept DEF Inv
<1>12. Shown'
  BY <1>1, <1>5, ShownKept DEF Inv
<1>13. Kept'
  <2> SUFFICES ASSUME NEW d \in Known
               PROVE  /\ server'[d] \in Decisions =>
                           \E i \in DOMAIN tickets' : tickets'[i] = Row(d, server'[d])
                      /\ server'[d] = "REFUSE" =>
                           \E i \in DOMAIN securityEvents' :
                             securityEvents'[i] = Row(d, "injection_refused")
    BY DEF Kept
  <2>1. CASE d = c
    BY <1>3, <1>7, <2>1 DEF Decisions
  <2>2. CASE d # c
    <3>1. server'[d] = server[d]
      BY <1>3, <2>2
    <3> QED  BY <1>7, <3>1 DEF Inv, Listed, Kept, Grows
  <2> QED  BY <2>1, <2>2
<1>14. CasesListed' /\ EventsListed'
  BY <1>1, <1>7, ListsForever DEF Inv, Listed, CasesListed, EventsListed
<1> QED  BY <1>8, <1>9, <1>10, <1>11, <1>12, <1>13, <1>14 DEF Inv, Listed

LEMMA StutterKeeps == ASSUME Inv, UNCHANGED vars PROVE Inv'
<1>1. /\ run' = run /\ pending' = pending /\ messages' = messages /\ queued' = queued
      /\ example' = example /\ screen' = screen /\ tickets' = tickets /\ securityEvents' = securityEvents /\ server' = server
      /\ posts' = posts /\ fate' = fate
  BY DEF vars, session, api, history
<1>2. FateForward /\ ServerForward
  BY <1>1 DEF FateForward, ServerForward
<1>3. Types' /\ Places' /\ Asked'
  BY <1>1 DEF Inv, Types, Places, Open, EventCounts, Asked
<1>4. Talk'
  BY <1>1, <1>2, TalkKept DEF Inv
<1>5. Shown' /\ Listed'
  BY <1>1, <1>2, ShownKept, ListedKept DEF Inv
<1> QED  BY <1>3, <1>4, <1>5 DEF Inv

\* The invariant holds of every reachable state.
THEOREM ConsoleInvariance == Spec => []Inv
<1>1. Inv /\ [Next]_vars => Inv'
  <2> SUFFICES ASSUME Inv, [Next]_vars PROVE Inv'
    OBVIOUS
  <2>1. CASE UserActs
    BY <2>1, UserActsKeeps
  <2>2. CASE Step
    BY <2>2, InterruptKeeps, SidebarKeeps, FormKeeps, TakeInputKeeps, AskKeeps, PostKeeps,
       ReceiveKeeps, StoreKeeps, ListCasesKeeps, ListEventsKeeps DEF Step
  <2>3. CASE \E c \in Known : Resolve(c)
    BY <2>3, ResolveKeeps
  <2>4. CASE UNCHANGED vars
    BY <2>4, StutterKeeps
  <2> QED  BY <2>1, <2>2, <2>3, <2>4 DEF Next
<1> QED  BY <1>1, InitHolds, PTL DEF Spec

-----------------------------------------------------------------------------
(* What it says *)

\* Whatever was interrupted, cleared or queued, an answer follows its own
\* question in the session, and the chat tab shows no question above the answer
\* to another unless its run was interrupted (app.py:436-465, 669-713).
THEOREM TurnsAlwaysMatch == Spec => []TurnsMatch
<1>1. Inv => TurnsMatch
  BY DEF Inv, Talk, IsAnswer, Shown, TurnsMatch, EachAnswerFollowsItsQuestion
<1> QED  BY <1>1, ConsoleInvariance, PTL

\* However often the script runs again, a submission is posted at most once
\* (app.py:676-688).
THEOREM NeverPostedTwice == Spec => []PostedAtMostOnce
<1>1. Inv => PostedAtMostOnce
  BY DEF Inv, Asked, PostedAtMostOnce
<1> QED  BY <1>1, ConsoleInvariance, PTL

\* The answers of a decision in the session are of different cases, each stored
\* with that decision: the session never counts more (app.py:468-474).
THEOREM StatsAlwaysStored == Spec => []StatsAreStoredCases
<1>1. Inv => StatsAreStoredCases
  <2> SUFFICES ASSUME Inv, NEW d \in Decisions
               PROVE  SessionStats(d) <= Cardinality({c \in Cases : server[c] = d})
    BY DEF StatsAreStoredCases
  <2> DEFINE I == {i \in DOMAIN messages : messages[i].result = d}
             S == {c \in Cases : server[c] = d}
             f == [i \in I |-> messages[i].case]
  <2>1. \A i \in I : messages[i].case \in Cases /\ messages[i].role = "assistant" /\ IsAnswer(i)
    <3>1. messages \in Seq(Messages)
      BY DEF Inv, Types
    <3>2. \A i \in I : messages[i] \in Messages
      BY <3>1
    <3>3. \A i \in I : messages[i].role # "user"
      BY DEF Inv, Talk, IsQuestion, Decisions
    <3> QED  BY <3>2, <3>3 DEF Messages, Inv, Talk
  <2>2. f \in Injection(I, S)
    <3>1. \A i \in I : server[messages[i].case] = d
      BY <2>1 DEF IsAnswer, Decisions
    <3>2. f \in [I -> S]
      BY <2>1, <3>1
    <3>3. \A i, j \in I : f[i] = f[j] => i = j
      BY <2>1 DEF Inv, Talk
    <3> QED  BY <3>2, <3>3, Fun_IsInj
  <2>3. IsFiniteSet(S)
    <3>1. S \subseteq {c \in Cases : server[c] # "unposted"}
      BY DEF Decisions
    <3> QED  BY <3>1, FS_Subset DEF Inv, Asked
  <2> HIDE DEF I, S, f
  <2>4. Cardinality(I) <= Cardinality(S)
    BY <2>2, <2>3, FS_Injection
  <2> QED  BY <2>4 DEF I, S, SessionStats
<1> QED  BY <1>1, ConsoleInvariance, PTL

\* Whatever the filters and limits, a complete page lists the answer it shows in
\* the audit tabs that loaded and let it pass, unless as many newer rows as they
\* ask for were stored before they were read (app.py:719-735, 765-796, 842-847).
THEOREM AnswerIsAlwaysListed == Spec => []AnswerIsListed
<1>1. Inv => AnswerIsListed
  BY DEF Inv, Listed, CasesListed, EventsListed, AnswerIsListed, Decisions
<1> QED  BY <1>1, ConsoleInvariance, PTL
=============================================================================
