------------------------------- MODULE Tracing -------------------------------
(***************************************************************************)
(* observability/tracing.py: the LangSmith settings are exported to the    *)
(* environment the SDK reads, at start-up and again when the graph is      *)
(* compiled, and the run of a case is collected for its URL.               *)
(*                                                                         *)
(* Of the exported pairs the switch and the key are modelled; project and  *)
(* endpoint are exported as the key is.  The SDK, which opens, ends and    *)
(* collects the runs, is external.                                         *)
(***************************************************************************)
EXTENDS Naturals, Sequences, FiniteSets, SequencesExt

VARIABLES
  env,         \* os.environ
  dotenv,      \* the .env file
  settings,    \* what pydantic made of the two at import
  booted,      \* "no", "lifespan", "compiled"
  runs,        \* the runs of the case that are under way
  traced,      \* the collector's runs, in the order they ended
  invocation,  \* of the graph for the case: "idle", "running" or "ended"
  collector,   \* "none" outside a case, "off" or "on"
  handle       \* TraceHandle: which run its URL is of

tracingVars == <<env, dotenv, settings, booted, runs, traced, invocation, collector, handle>>

Vars == {"LANGCHAIN_TRACING_V2", "LANGCHAIN_API_KEY", "LANGSMITH_TRACING", "LANGSMITH_API_KEY"}
Placeholder == "lsv2_..."

RootRunName == "ticketwarden.resolve"
Run(name, type, parent) == [name |-> name, type |-> type, parent |-> parent]
\* The invocation, a node of the graph in it, and the node's model call.
RunTree(root) ==
  {Run(root, "chain", "none"), Run("classifier", "chain", root), Run("ChatModel", "llm", "classifier")}

-----------------------------------------------------------------------------
(* Activation *)

LoadSettingsDotenvFirst(e, d) ==                      \* mutant: .env wins
  [tracing |-> IF d.tracing # "unset" THEN d.tracing ELSE e["LANGCHAIN_TRACING_V2"],
   key |-> IF e["LANGCHAIN_API_KEY"] # "unset" THEN e["LANGCHAIN_API_KEY"] ELSE d.key]

\* BaseSettings: the environment, else .env; "unset" counts as false, or empty.
LoadSettings(e, d) ==
  [tracing |-> IF e["LANGCHAIN_TRACING_V2"] # "unset" THEN e["LANGCHAIN_TRACING_V2"] ELSE d.tracing,
   key |-> IF e["LANGCHAIN_API_KEY"] # "unset" THEN e["LANGCHAIN_API_KEY"] ELSE d.key]

EnabledWithAnyKey ==                                  \* mutant: the placeholder is a key
  settings.key # "unset" /\ settings.tracing = "true"

TracingEnabled ==
  /\ settings.key \notin {"unset", Placeholder}
  /\ settings.tracing = "true"

SetDefault(var, value) == IF env[var] = "unset" THEN value ELSE env[var]

ConfigureTracing ==
  env' = IF TracingEnabled
         THEN [var \in Vars |-> SetDefault(var, IF var \in {"LANGCHAIN_TRACING_V2", "LANGSMITH_TRACING"}
                                                THEN "true" ELSE settings.key)]
         ELSE [env EXCEPT !["LANGCHAIN_TRACING_V2"] =
                 SetDefault("LANGCHAIN_TRACING_V2", "false")]

-----------------------------------------------------------------------------
(* Capture *)

FirstTraced(ended) == <<Head(ended)>>                 \* mutant: in order of insertion

\* The root as a sequence of one, or none: the named run, else the chain without
\* a parent that ended last, else whatever ended last.
SelectRoot(ended) ==
  LET named  == {k \in DOMAIN ended : ended[k].name = RootRunName}
      chains == {k \in DOMAIN ended : ended[k].type = "chain" /\ ended[k].parent = "none"}
  IN  CASE ended = <<>>  -> <<>>
        [] named # {}    -> <<ended[Min(named)]>>
        [] OTHER         -> <<ended[IF chains # {} THEN Max(chains) ELSE Len(ended)]>>

NoHandle == [run |-> <<>>, url |-> "none"]

UrlForRun(run, client) == IF client = "ok" THEN "client" ELSE "constructed"

-----------------------------------------------------------------------------
\* docker-compose puts .env into the environment as it is, the placeholder included.
TracingInit ==
  /\ env \in {e \in [Vars -> {"unset", "true", "false", "deployed", Placeholder}] :
                /\ \A var \in {"LANGCHAIN_TRACING_V2", "LANGSMITH_TRACING"} :
                     e[var] \in {"unset", "true", "false"}
                /\ e["LANGCHAIN_API_KEY"] \in {"unset", "deployed", Placeholder}
                /\ e["LANGSMITH_API_KEY"] \in {"unset", "deployed"}}
  /\ dotenv \in [tracing : {"unset", "true", "false"}, key : {"unset", "local", Placeholder}]
  /\ settings = LoadSettings(env, dotenv)
  /\ booted = "no" /\ runs = {} /\ traced = <<>> /\ invocation = "idle" /\ collector = "none"
  /\ handle = NoHandle

Lifespan ==
  /\ booted = "no" /\ booted' = "lifespan"
  /\ ConfigureTracing
  /\ UNCHANGED <<dotenv, settings, runs, traced, invocation, collector, handle>>

\* The case's first step compiles the graph; in a script or a test nothing ran before.
CompileGraph ==
  /\ collector # "none" /\ invocation = "idle" /\ booted # "compiled"
  /\ booted' = "compiled"
  /\ ConfigureTracing
  /\ UNCHANGED <<dotenv, settings, runs, traced, invocation, collector, handle>>

\* trace_run up to its yield; collect_runs may be missing.
EnterTrace ==
  /\ booted # "compiled" /\ collector = "none"
  /\ handle' = NoHandle
  /\ collector' \in IF TracingEnabled THEN {"on", "off"} ELSE {"off"}
  /\ UNCHANGED <<env, dotenv, settings, booted, runs, traced, invocation>>

\* External: the SDK opens the runs; a run keeps the configured name or loses it.
Invoke ==
  /\ booted = "compiled" /\ invocation = "idle"
  /\ invocation' = "running"
  /\ \E root \in {RootRunName, "LangGraph"} : runs' = RunTree(root)
  /\ UNCHANGED <<env, dotenv, settings, booted, traced, collector, handle>>

\* External: a run ends after the runs inside it.  Whether the collector keeps it
\* is the SDK's affair, and so is the type it gives a model call.
RunEnds ==
  /\ invocation = "running"
  /\ \E run \in runs :
       /\ \A inner \in runs : inner.parent # run.name
       /\ runs' = runs \ {run}
       /\ traced' \in IF collector = "on" THEN {traced, Append(traced, run)} ELSE {traced}
  /\ UNCHANGED <<env, dotenv, settings, booted, invocation, collector, handle>>

\* invoke returns, or raises and is caught inside the traced block.
GraphEnds ==
  /\ invocation = "running" /\ runs = {}
  /\ invocation' = "ended"
  /\ UNCHANGED <<env, dotenv, settings, booted, runs, traced, collector, handle>>

\* The block behind the yield.  What fails in it is caught, and leaves the handle
\* as it was.
ExitTrace ==
  /\ invocation = "ended" /\ collector # "none"
  /\ collector' = "none"
  /\ IF collector = "off" \/ traced = <<>> THEN UNCHANGED handle
     ELSE \/ \E client \in {"ok", "raises"} :
               handle' = [run |-> SelectRoot(traced), url |-> UrlForRun(SelectRoot(traced), client)]
          \/ UNCHANGED handle
  /\ UNCHANGED <<env, dotenv, settings, booted, runs, traced, invocation>>

TracingNext ==
  \/ Lifespan \/ CompileGraph
  \/ EnterTrace \/ Invoke \/ RunEnds \/ GraphEnds \/ ExitTrace

TracingSpec == TracingInit /\ [][TracingNext]_tracingVars

-----------------------------------------------------------------------------
(* Properties *)

\* A run collected for a case is one the SDK opened for it, and only a case under
\* way collects (tracing.py:120-154).
TracingTypeOK ==
  /\ runs \cup ToSet(traced) \subseteq UNION {RunTree(root) : root \in {RootRunName, "LangGraph"}}
  /\ traced # <<>> => invocation # "idle"
  /\ handle.run # <<>> => handle.run[1] \in ToSet(traced)

\* The key the SDK reads first, LANGSMITH_* before LANGCHAIN_*, is the deployment's
\* if it sets any, and the placeholder of .env is exported nowhere (tracing.py:31-35, 53-61).
SdkKeyIsTheDeployments ==
  LET key == IF env["LANGSMITH_API_KEY"] # "unset" THEN env["LANGSMITH_API_KEY"]
             ELSE env["LANGCHAIN_API_KEY"]
  IN  /\ (\E var \in Vars : env[var] = "deployed") => key = "deployed"
      /\ env["LANGSMITH_API_KEY"] # Placeholder

\* Once the settings are exported the SDK, which reads LANGCHAIN_TRACING_V2, traces
\* if the API believes it does (/health, trace_run), and only if the switch that
\* pydantic read says so: neither the deployment nor a stale .env can leave the two
\* with different switches (config.py:15-21, 37; tracing.py:31-58).
SdkTracesWhenApiDoes ==
  booted # "no" =>
    /\ TracingEnabled => env["LANGCHAIN_TRACING_V2"] = "true"
    /\ env["LANGCHAIN_TRACING_V2"] = "true" => settings.tracing = "true"

\* A trace URL is that of the case's own invocation whenever that was collected,
\* whatever ended before it; a run id comes with a URL although the client may
\* fail, and with none when tracing is off (tracing.py:68-107, 129-152).
TraceIsTheCases ==
  handle # NoHandle =>
    /\ TracingEnabled
    /\ handle.url # "none"
    /\ (\E k \in DOMAIN traced : traced[k].parent = "none") => handle.run[1].parent = "none"
=============================================================================
