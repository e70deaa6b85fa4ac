------------------------------- MODULE ApiServer -------------------------------
(***************************************************************************)
(* The API process around resolve_case: start-up (main.lifespan), the      *)
(* thread pool FastAPI runs its synchronous routes in, and the graph that  *)
(* the first case needing a model compiles and caches on app.state.        *)
(*                                                                         *)
(* A call's steps are cut where another thread can come between: after the *)
(* route has read app.state.graph, after get_graph has read it again, and  *)
(* between compiling a graph and caching it.  What resolve_case does with  *)
(* the tables is CaseService's; a 500 stands here only for an exception of *)
(* the steps below.                                                        *)
(***************************************************************************)
EXTENDS Naturals, Sequences, FiniteSets

CONSTANTS
  Calls,      \* HTTP calls
  NoGraph,
  Configs,    \* what .env may say of the provider
  PoolSize    \* threads that run synchronous routes

ASSUME ServerAssumption ==
  /\ NoGraph \notin Calls
  /\ PoolSize \in Nat \ {0}
  /\ Configs \subseteq [provider : STRING, key : {"", "placeholder", "real"}, installed : BOOLEAN]

VARIABLES
  config,     \* settings, read once
  boot,       \* where lifespan is
  queue,      \* calls waiting for a thread
  calls,      \* each call: its kind, place, bound graph and reply
  graph,      \* app.state.graph: NoGraph, or the call that compiled it
  compiled    \* the calls that compiled a graph (history)

serverVars == <<config, boot, queue, calls, graph, compiled>>

Supported == {"openai", "groq", "nvidia", "ollama", "anthropic", "gemini"}

ActiveLlmApiKey ==
  IF config.provider = "ollama" THEN "local"
  ELSE IF config.provider \notin Supported \/ config.key = "placeholder" THEN ""
  ELSE config.key

HasLlmCredentials == ActiveLlmApiKey # ""

\* build_chat_model imports the provider's SDK and raises for an unknown name.
BuildChatModel == config.provider \in Supported /\ config.installed

BuildLlmClientRawKey ==                             \* mutant: placeholder is a key
  (config.key # "" \/ config.provider = "ollama") /\ BuildChatModel
BuildLlmClient == HasLlmCredentials /\ BuildChatModel

NoCall == [kind |-> "none", pc |-> "away", graph |-> NoGraph, reply |-> "none"]

ServerInit ==
  /\ config \in Configs
  /\ boot = "starting" /\ queue = <<>>
  /\ calls = [c \in Calls |-> NoCall]
  /\ graph = NoGraph /\ compiled = {}

Move(c, from, to) == calls[c].pc = from /\ calls' = [calls EXCEPT ![c].pc = to]

Answer(c, from, reply) ==
  /\ calls[c].pc = from
  /\ calls' = [calls EXCEPT ![c].pc = "answered", ![c].reply = reply]

-----------------------------------------------------------------------------
(* Start-up: tables, tracing, a log line about the key *)

BootDb == boot = "starting" /\ boot' = "tables" /\ UNCHANGED <<config, queue, calls, graph, compiled>>
BootTracing == boot = "tables" /\ boot' = "up" /\ UNCHANGED <<config, queue, calls, graph, compiled>>

-----------------------------------------------------------------------------
(* A call: probe stands for the routes that answer without a graph         *)
(* (/health, /metrics, the audit lists), refused and live for the cases    *)
(* resolve_case refuses and those it invokes the graph for.                *)

Arrive(c) ==
  /\ boot = "up" /\ calls[c].pc = "away"
  /\ \E kind \in {"probe", "refused", "live"} :
       calls' = [calls EXCEPT ![c].pc = "queued", ![c].kind = kind]
  /\ queue' = Append(queue, c)
  /\ UNCHANGED <<config, boot, graph, compiled>>

Busy == {c \in Calls : calls[c].pc \notin {"away", "queued", "answered"}}

\* The pool serves its waiters in order of arrival.
Start(c) ==
  /\ queue # <<>> /\ Head(queue) = c /\ Cardinality(Busy) < PoolSize
  /\ queue' = Tail(queue)
  /\ Move(c, "queued", "route")
  /\ UNCHANGED <<config, boot, graph, compiled>>

RouteEager(c) ==                                    \* mutant: graph compiled first
  /\ \/ /\ calls[c].kind = "probe"
        /\ Answer(c, "route", IF HasLlmCredentials THEN "live LLM" ELSE "no key")
     \/ /\ calls[c].kind # "probe" /\ graph = NoGraph /\ ~BuildLlmClient
        /\ Answer(c, "route", "500")
     \/ /\ calls[c].kind # "probe" /\ (graph # NoGraph \/ BuildLlmClient)
        /\ IF calls[c].kind = "refused" THEN Answer(c, "route", "REFUSE")
           ELSE Move(c, "route", "lookup")
  /\ UNCHANGED <<config, boot, queue, graph, compiled>>

\* /health answers from the settings; resolve binds the cached graph or a lazy
\* one, and a refusal never touches it.
Route(c) ==
  /\ \/ /\ calls[c].kind = "probe"
        /\ Answer(c, "route", IF HasLlmCredentials THEN "live LLM" ELSE "no key")
     \/ /\ calls[c].kind = "refused"
        /\ Answer(c, "route", "REFUSE")
     \/ /\ calls[c].kind = "live"
        /\ calls[c].pc = "route"
        /\ calls' = [calls EXCEPT ![c].pc = IF graph = NoGraph THEN "lookup" ELSE "graph",
                                  ![c].graph = graph]
  /\ UNCHANGED <<config, boot, queue, graph, compiled>>

LookUpStale(c) ==                                   \* mutant: tests, then uses the old read
  /\ Move(c, "lookup", IF graph = NoGraph THEN "compile" ELSE "graph")
  /\ UNCHANGED <<config, boot, queue, graph, compiled>>

\* get_graph reads the cache again: another thread may have filled it.
LookUp(c) ==
  /\ calls[c].pc = "lookup"
  /\ calls' = [calls EXCEPT ![c].pc = IF graph = NoGraph THEN "compile" ELSE "graph",
                            ![c].graph = graph]
  /\ UNCHANGED <<config, boot, queue, graph, compiled>>

CompileRetries(c) ==                                \* mutant: tries until it can
  /\ BuildLlmClient
  /\ calls[c].pc = "compile"
  /\ calls' = [calls EXCEPT ![c].pc = "cache", ![c].graph = c]
  /\ compiled' = compiled \cup {c}
  /\ UNCHANGED <<config, boot, queue, graph>>

\* compile_graph; without a client it raises into resolve_case, which escalates.
Compile(c) ==
  /\ IF BuildLlmClient
     THEN /\ calls[c].pc = "compile"
          /\ calls' = [calls EXCEPT ![c].pc = "cache", ![c].graph = c]
          /\ compiled' = compiled \cup {c}
     ELSE Answer(c, "compile", "ESCALATE") /\ UNCHANGED compiled
  /\ UNCHANGED <<config, boot, queue, graph>>

CacheNothing(c) ==                                  \* mutant: not assigned
  Move(c, "cache", "graph") /\ UNCHANGED <<config, boot, queue, graph, compiled>>

Cache(c) ==
  /\ Move(c, "cache", "graph")
  /\ graph' = c
  /\ UNCHANGED <<config, boot, queue, compiled>>

\* The model answers, or raises and the case is escalated.
RunGraph(c) ==
  /\ \E reply \in {"case", "ESCALATE"} : Answer(c, "graph", reply)
  /\ UNCHANGED <<config, boot, queue, graph, compiled>>

Step(c) == Start(c) \/ Route(c) \/ LookUp(c) \/ Compile(c) \/ Cache(c) \/ RunGraph(c)

ServerNext == BootDb \/ BootTracing \/ \E c \in Calls : Arrive(c) \/ Step(c)

\* Start-up goes on, and a call that has a thread, or the next to get one, goes
\* on; that calls arrive is not assumed.
ServerFairness ==
  /\ WF_serverVars(BootDb \/ BootTracing)
  /\ \A c \in Calls : WF_serverVars(Step(c))

ServerSpec == ServerInit /\ [][ServerNext]_serverVars /\ ServerFairness

-----------------------------------------------------------------------------
(* Properties *)

\* A call waits in the queue exactly while it says so, once; a graph is bound by
\* those that run one, and the cached graph is one that was compiled.
ServerTypeOK ==
  /\ config \in Configs
  /\ boot \in {"starting", "tables", "up"}
  /\ \A c \in Calls :
       /\ calls[c].pc \in {"away", "queued", "route", "lookup", "compile", "cache", "graph", "answered"}
       /\ calls[c].reply \in {"none", "live LLM", "no key", "REFUSE", "ESCALATE", "case", "500"}
       /\ calls[c].pc = "queued" <=> Cardinality({i \in DOMAIN queue : queue[i] = c}) = 1
       /\ calls[c].pc = "graph" => calls[c].graph \in compiled
       /\ calls[c].pc = "away" => calls[c] = NoCall
  /\ compiled \subseteq Calls
  /\ graph \in compiled \cup {NoGraph}

\* An injected case is refused, and any other escalated, without a usable model:
\* compiling is put off until a case needs it (main.py:59-75, 108-115).
NoModelStillAnswers ==
  \A c \in Calls :
    /\ calls[c].reply # "500"
    /\ calls[c].kind = "refused" /\ calls[c].pc = "answered" =>
         calls[c].reply = "REFUSE" /\ c \notin compiled
    /\ ~BuildLlmClient => calls[c].reply # "case"

\* Two first cases may compile a graph each, but only cases that held a thread
\* at the same time: never more graphs than threads (main.py:50-56).
CompilesBounded == Cardinality(compiled) <= PoolSize

\* What /health says of the model is what cases find: without a key none is
\* ever resolved by one, and with a key and the SDK none is turned away before
\* the graph (main.py:95-101, llm.py:235-245).
HealthIsHonest ==
  /\ (\E p \in Calls : calls[p].reply = "no key") => compiled = {}
  /\ (\E p \in Calls : calls[p].reply = "live LLM") /\ BuildChatModel =>
       \A c \in Calls : calls[c].reply = "ESCALATE" => calls[c].graph # NoGraph

\* Every call is answered, however many wait and whether or not a graph can be
\* compiled.
EveryCallIsAnswered == \A c \in Calls : calls[c].pc = "queued" ~> calls[c].pc = "answered"
=============================================================================
