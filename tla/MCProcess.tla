------------------------------ MODULE MCProcess ------------------------------
(* The parts of the API process that share no variable, for TLC: a behaviour *)
(* is one part's, in small instances, while the others stay at rest.         *)
EXTENDS ApiServer, CatalogStore, Tracing

VARIABLE part   \* whose behaviour this is

\* A working key, none, the placeholder of .env.example, a missing SDK, a
\* provider without a key and one that does not exist.
Config(provider, key, installed) == [provider |-> provider, key |-> key, installed |-> installed]
MCConfigs == {Config("openai", "real", TRUE), Config("openai", "", TRUE),
              Config("groq", "placeholder", TRUE), Config("anthropic", "real", FALSE),
              Config("ollama", "", TRUE), Config("mistral", "real", TRUE)}

\* Two orders, one of two lines, share a product.
MCLines == {<<"o1", "p1">>, <<"o1", "p2">>, <<"o2", "p1">>}

\* At rest: a server nobody calls, an empty file nobody boots on, no settings.
ServerRest ==
  /\ config \in Configs /\ config = Config("openai", "real", TRUE) /\ boot = "up" /\ queue = <<>>
  /\ calls = [c \in Calls |-> NoCall] /\ graph = NoGraph /\ compiled = {}
CatalogRest == CatalogInit /\ exists = {}
TracingRest == TracingInit /\ env = [var \in Vars |-> "unset"] /\ settings.key = "unset"
                           /\ dotenv.tracing = "unset"

Init ==
  \/ part = "server"  /\ ServerInit  /\ CatalogRest /\ TracingRest
  \/ part = "catalog" /\ CatalogInit /\ ServerRest  /\ TracingRest
  \/ part = "tracing" /\ TracingInit /\ ServerRest  /\ CatalogRest

Next ==
  /\ UNCHANGED part
  /\ \/ part = "server"  /\ ServerNext  /\ UNCHANGED <<catalogVars, tracingVars>>
     \/ part = "catalog" /\ CatalogNext /\ UNCHANGED <<serverVars, tracingVars>>
     \/ part = "tracing" /\ TracingNext /\ UNCHANGED <<serverVars, catalogVars>>

Spec ==
  /\ Init /\ [][Next]_<<part, serverVars, catalogVars, tracingVars>>
  /\ ServerFairness

\* What is queued, bound, locked, opened and collected is known (each part's own).
TypeOK == ServerTypeOK /\ CatalogTypeOK /\ TracingTypeOK
=============================================================================
