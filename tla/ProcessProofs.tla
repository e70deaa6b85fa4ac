---------------------------- MODULE ProcessProofs ----------------------------
(***************************************************************************)
(* What holds of the process around the cases: of ApiServer for every set  *)
(* of calls, however large, every configuration and every size of the      *)
(* thread pool; of CatalogStore for every set of processes, every fixture  *)
(* and every number of boots; of Tracing for every environment.            *)
(*                                                                         *)
(* That no more graphs are compiled than there are threads is not          *)
(* inductive: it rests on the calls that are about to compile being under  *)
(* way as long as no graph is cached (ThreadsInv), and on nobody joining   *)
(* them afterwards.                                                        *)
(***************************************************************************)
EXTENDS MCProcess, DataTheorems, TLAPS

-----------------------------------------------------------------------------
(* ApiServer *)

Kinds   == {"none", "probe", "refused", "live"}
Places  == {"away", "queued", "route", "lookup", "compile", "cache", "graph", "answered"}
Replies == {"none", "live LLM", "no key", "REFUSE", "ESCALATE", "case", "500"}

Shape == [kind : Kinds, pc : Places, graph : Calls \cup {NoGraph}, reply : Replies]

Types ==
  /\ config \in Configs
  /\ boot \in {"starting", "tables", "up"}
  /\ queue \in Seq(Calls)
  /\ calls \in [Calls -> Shape]
  /\ graph \in compiled \cup {NoGraph}
  /\ compiled \subseteq Calls

\* The queue holds each waiting call once, and nobody else.
QueueIsWaiting ==
  /\ \A i, j \in DOMAIN queue : queue[i] = queue[j] => i = j
  /\ \A c \in Calls : calls[c].pc = "queued" <=> \E i \in DOMAIN queue : queue[i] = c

\* What a call's place says of it.
CallInv(c) ==
  LET call == calls[c]
  IN  /\ call.pc = "away" => call = NoCall
      /\ call.pc # "away" => call.kind # "none"
      /\ call.pc # "answered" => call.reply = "none"
      /\ call.pc \in {"lookup", "compile", "cache", "graph"} => call.kind = "live"
      /\ call.pc = "graph" => call.graph \in compiled
      /\ call.pc = "cache" => call.graph = c /\ c \in compiled
      /\ call.graph # NoGraph => call.graph \in compiled
      /\ call.reply # "500"
      /\ call.pc = "answered" /\ call.kind = "probe" =>
           call.reply = IF HasLlmCredentials THEN "live LLM" ELSE "no key"
      /\ call.pc = "answered" /\ call.kind = "refused" =>
           call.reply = "REFUSE"
      /\ call.pc = "answered" /\ call.kind = "live" =>
           \/ call.reply \in {"case", "ESCALATE"} /\ call.graph \in compiled
           \/ call.reply = "ESCALATE" /\ ~BuildLlmClient

\* Only a live call that got to compile has compiled, and only with a client.
CompilersInv ==
  /\ compiled # {} => BuildLlmClient
  /\ \A c \in compiled : calls[c].kind = "live"

\* Those that have compiled a graph or are about to.
Compilers == compiled \cup {c \in Calls : calls[c].pc = "compile"}

\* The threads bound the calls that are under way; until a graph is cached the
\* compilers are among them, and from then on none joins them.
ThreadsInv ==
  /\ IsFiniteSet(Busy) /\ Cardinality(Busy) <= PoolSize
  /\ graph = NoGraph => compiled \subseteq {c \in Calls : calls[c].pc = "cache"}
  /\ IsFiniteSet(Compilers) /\ Cardinality(Compilers) <= PoolSize

ServerInv ==
  /\ Types
  /\ QueueIsWaiting
  /\ \A c \in Calls : CallInv(c)
  /\ CompilersInv
  /\ ThreadsInv

-----------------------------------------------------------------------------
(* The steps *)

\* Every call but c is as it was.
Others(c) == \A d \in Calls \ {c} : calls'[d] = calls[d]

\* A set that does not grow stays within the pool's size.
LEMMA SubsetWithinPool ==
  ASSUME NEW S, NEW T, IsFiniteSet(S), Cardinality(S) <= PoolSize, T \subseteq S
  PROVE  IsFiniteSet(T) /\ Cardinality(T) <= PoolSize
<1>1. IsFiniteSet(T) /\ Cardinality(T) <= Cardinality(S)
  BY FS_Subset
<1>2. Cardinality(T) \in Nat /\ Cardinality(S) \in Nat /\ PoolSize \in Nat
  BY <1>1, FS_CardinalityType, ServerAssumption
<1> QED  BY <1>1, <1>2

\* What a step of one call keeps of the pool: a thread is only taken where the
\* pool has one, and a call only joins the compilers before a graph is cached.
LEMMA ThreadsKept ==
  ASSUME Types, ThreadsInv, Busy' \subseteq Busy, Compilers' \subseteq Compilers,
         graph' = NoGraph => graph = NoGraph,
         graph' = NoGraph => compiled' \subseteq {c \in Calls : calls[c].pc = "cache"}'
  PROVE  ThreadsInv'
  BY SubsetWithinPool DEF ThreadsInv

\* The settings are read once: what follows from them stays.
LEMMA SettingsStay ==
  ASSUME config' = config
  PROVE  (HasLlmCredentials' <=> HasLlmCredentials) /\ (BuildLlmClient' <=> BuildLlmClient)
  BY DEF BuildLlmClient, HasLlmCredentials, ActiveLlmApiKey, BuildChatModel

\* Nothing is queued or compiled when the process starts.
LEMMA ServerInitHolds == ServerInit => ServerInv
<1> SUFFICES ASSUME ServerInit PROVE ServerInv
  OBVIOUS
<1>1. Types
  BY DEF ServerInit, Types, Shape, NoCall, Kinds, Places, Replies
<1>2. QueueIsWaiting
  BY DEF ServerInit, QueueIsWaiting, NoCall
<1>3. \A c \in Calls : CallInv(c)
  BY DEF ServerInit, CallInv, NoCall
<1>4. CompilersInv
  BY DEF ServerInit, CompilersInv
<1>5. ThreadsInv
  <2>1. Busy = {} /\ Compilers = {}
    BY DEF ServerInit, Busy, Compilers, NoCall
  <2>2. IsFiniteSet({}) /\ Cardinality({}) = 0 /\ PoolSize \in Nat
    BY FS_EmptySet, ServerAssumption
  <2> QED  BY <2>1, <2>2 DEF ThreadsInv, ServerInit
<1> QED  BY <1>1, <1>2, <1>3, <1>4, <1>5 DEF ServerInv

\* A step that takes no call off the queue and puts none on it leaves it valid.
LEMMA QueueKept ==
  ASSUME Types, QueueIsWaiting, NEW c \in Calls, Others(c), queue' = queue,
         calls[c].pc # "queued", calls'[c].pc # "queued"
  PROVE  QueueIsWaiting'
  BY DEF QueueIsWaiting, Others

\* What a call's place says of it stays so while the compilers only grow.
LEMMA CallKept ==
  ASSUME NEW d \in Calls, CallInv(d), calls'[d] = calls[d], compiled \subseteq compiled',
         config' = config
  PROVE  CallInv(d)'
<1>1. (HasLlmCredentials' <=> HasLlmCredentials) /\ (BuildLlmClient' <=> BuildLlmClient)
  BY SettingsStay
<1>2. \A g : g \in compiled => g \in compiled'
  OBVIOUS
<1> QED  BY <1>1, <1>2 DEF CallInv

\* So a step that keeps its own call's part keeps every call's.
LEMMA OthersKept ==
  ASSUME NEW c \in Calls, Others(c), \A d \in Calls : CallInv(d), CallInv(c)',
         compiled \subseteq compiled', config' = config
  PROVE  \A d \in Calls : CallInv(d)'
<1> SUFFICES ASSUME NEW d \in Calls PROVE CallInv(d)'
  OBVIOUS
<1>1. CASE d # c
  BY <1>1, CallKept DEF Others
<1> QED  BY <1>1

\* Start-up only moves lifespan on (main.py:28-47).
LEMMA InvBoot ==
  ASSUME ServerInv, BootDb \/ BootTracing \/ UNCHANGED serverVars
  PROVE  ServerInv'
<1>1. /\ UNCHANGED <<config, queue, calls, graph, compiled>>
      /\ boot' \in {"starting", "tables", "up"}
  BY DEF BootDb, BootTracing, serverVars, ServerInv, Types
<1>2. Types' /\ QueueIsWaiting'
  BY <1>1 DEF ServerInv, Types, QueueIsWaiting
<1>3. \A c \in Calls : CallInv(c)'
  BY <1>1, SettingsStay DEF ServerInv, CallInv
<1>4. CompilersInv' /\ ThreadsInv'
  BY <1>1, SettingsStay DEF ServerInv, CompilersInv, ThreadsInv, Busy, Compilers
<1> QED  BY <1>2, <1>3, <1>4 DEF ServerInv

\* A call that arrives waits behind the others.
LEMMA InvArrive ==
  ASSUME ServerInv, NEW c \in Calls, Arrive(c)
  PROVE  ServerInv'
<1>1. PICK kind \in {"probe", "refused", "live"} :
        calls' = [calls EXCEPT ![c].pc = "queued", ![c].kind = kind]
  BY DEF Arrive
<1>2. /\ calls[c].pc = "away" /\ calls[c] = NoCall
      /\ queue' = Append(queue, c) /\ UNCHANGED <<config, boot, graph, compiled>>
  BY DEF Arrive, ServerInv, CallInv
<1>3. /\ Others(c)
      /\ calls'[c] = [kind |-> kind, pc |-> "queued", graph |-> NoGraph, reply |-> "none"]
  BY <1>1, <1>2 DEF Others, ServerInv, Types, Shape, NoCall
<1>4. Types'
  <2>1. [calls[c] EXCEPT !.pc = "queued", !.kind = kind] \in Shape
    BY DEF ServerInv, Types, Shape, Kinds, Places
  <2>2. calls' = [calls EXCEPT ![c] = [calls[c] EXCEPT !.pc = "queued", !.kind = kind]]
    BY <1>1 DEF ServerInv, Types
  <2> HIDE DEF Shape
  <2>3. calls' \in [Calls -> Shape]
    BY <2>1, <2>2 DEF ServerInv, Types
  <2>4. queue' \in Seq(Calls)
    BY <1>2 DEF ServerInv, Types
  <2> QED  BY <1>2, <2>3, <2>4 DEF ServerInv, Types
<1>5. QueueIsWaiting'
  <2> DEFINE n == Len(queue)
  <2>1. /\ queue \in Seq(Calls) /\ n \in Nat /\ DOMAIN queue = 1..n
        /\ \A i \in 1..n : queue'[i] = queue[i] /\ queue[i] # c
        /\ DOMAIN queue' = 1..n + 1 /\ queue'[n + 1] = c
    BY <1>2 DEF ServerInv, Types, QueueIsWaiting
  <2> HIDE DEF n
  <2>2. \A i \in DOMAIN queue' : i \in 1..n \/ i = n + 1
    BY <2>1
  <2>3. 1..n \subseteq DOMAIN queue' /\ n + 1 \in DOMAIN queue' /\ n + 1 \notin 1..n
    BY <2>1
  <2>4. ASSUME NEW i \in DOMAIN queue', NEW j \in DOMAIN queue', queue'[i] = queue'[j]
        PROVE  i = j
    BY <2>1, <2>2, <2>4 DEF ServerInv, QueueIsWaiting
  <2>5. ASSUME NEW d \in Calls
        PROVE  calls'[d].pc = "queued" <=> \E i \in DOMAIN queue' : queue'[i] = d
    <3>1. CASE d = c
      BY <1>3, <2>1, <2>3, <3>1
    <3>2. CASE d # c
      BY <1>3, <2>1, <2>2, <2>3, <3>2 DEF Others, ServerInv, QueueIsWaiting
    <3> QED  BY <3>1, <3>2
  <2> QED  BY <2>4, <2>5 DEF QueueIsWaiting
<1>6. \A d \in Calls : CallInv(d)'
  <2>1. CallInv(c)'
    BY <1>3 DEF CallInv
  <2> QED  BY <1>2, <1>3, <2>1, OthersKept DEF ServerInv
<1>7. CompilersInv'
  <2>1. c \notin compiled
    BY <1>2 DEF ServerInv, CompilersInv, NoCall
  <2>2. \A d \in compiled : calls'[d] = calls[d]
    BY <1>3, <2>1 DEF Others, ServerInv, Types
  <2> QED  BY <1>2, <2>2, SettingsStay DEF ServerInv, CompilersInv
<1>8. ThreadsInv'
  <2>1. Busy' \subseteq Busy /\ Compilers' \subseteq Compilers
    BY <1>2, <1>3 DEF Busy, Compilers, Others
  <2>2. {d \in Calls : calls[d].pc = "cache"} \subseteq {d \in Calls : calls[d].pc = "cache"}'
    BY <1>2, <1>3 DEF Others
  <2> QED  BY <1>2, <2>1, <2>2, ThreadsKept DEF ServerInv, ThreadsInv
<1> QED  BY <1>4, <1>5, <1>6, <1>7, <1>8 DEF ServerInv

\* A thread takes the call that waited longest.
LEMMA InvStart ==
  ASSUME ServerInv, NEW c \in Calls, Start(c)
  PROVE  ServerInv'
<1>1. /\ queue # <<>> /\ Head(queue) = c /\ Cardinality(Busy) < PoolSize /\ queue' = Tail(queue)
      /\ calls[c].pc = "queued" /\ calls' = [calls EXCEPT ![c].pc = "route"]
      /\ UNCHANGED <<config, boot, graph, compiled>>
  BY DEF Start, Move
<1>2. /\ Others(c) /\ calls'[c].pc = "route" /\ calls'[c].kind = calls[c].kind
      /\ calls'[c].graph = calls[c].graph /\ calls'[c].reply = calls[c].reply
  BY <1>1 DEF Others, ServerInv, Types, Shape
<1>3. Types'
  <2>1. calls' \in [Calls -> Shape]
    BY <1>1 DEF ServerInv, Types, Shape, Places
  <2>2. queue' \in Seq(Calls)
    BY <1>1 DEF ServerInv, Types
  <2> QED  BY <1>1, <2>1, <2>2 DEF ServerInv, Types
<1>4. QueueIsWaiting'
  <2> DEFINE n == Len(queue)
  <2>1. /\ queue \in Seq(Calls) /\ n \in Nat /\ n >= 1 /\ DOMAIN queue = 1..n /\ queue[1] = c
        /\ DOMAIN queue' = 1..n - 1 /\ \A i \in 1..n - 1 : queue'[i] = queue[i + 1]
    BY <1>1 DEF ServerInv, Types
  <2> HIDE DEF n
  <2>2. \A i \in 1..n - 1 : i + 1 \in 1..n /\ i + 1 # 1
    BY <2>1
  <2>3. \A i \in 1..n : i # 1 => i - 1 \in 1..n - 1 /\ (i - 1) + 1 = i
    BY <2>1
  <2>4. ASSUME NEW i \in DOMAIN queue', NEW j \in DOMAIN queue', queue'[i] = queue'[j]
        PROVE  i = j
    <3>1. i + 1 \in DOMAIN queue /\ j + 1 \in DOMAIN queue /\ queue[i + 1] = queue[j + 1]
      BY <2>1, <2>2, <2>4
    <3>2. \A a, b \in DOMAIN queue : queue[a] = queue[b] => a = b
      BY DEF ServerInv, QueueIsWaiting
    <3>3. i + 1 = j + 1
      BY <3>1, <3>2
    <3>4. i \in Int /\ j \in Int
      BY <2>1
    <3> QED  BY <3>3, <3>4
  <2>5. ASSUME NEW d \in Calls
        PROVE  calls'[d].pc = "queued" <=> \E i \in DOMAIN queue' : queue'[i] = d
    <3>1. CASE d = c
      <4>1. \A i \in DOMAIN queue' : queue'[i] # c
        <5>1. 1 \in DOMAIN queue
          BY <2>1
        <5>2. ASSUME NEW i \in DOMAIN queue', queue'[i] = c PROVE FALSE
          <6>1. i + 1 \in DOMAIN queue /\ queue[i + 1] = queue[1] /\ i + 1 # 1
            BY <2>1, <2>2, <5>2
          <6> QED  BY <5>1, <6>1 DEF ServerInv, QueueIsWaiting
        <5> QED  BY <5>2
      <4> QED  BY <1>2, <3>1, <4>1
    <3>2. CASE d # c
      <4>1. calls'[d].pc = "queued" <=> \E i \in DOMAIN queue : queue[i] = d
        BY <1>2, <3>2 DEF Others, ServerInv, QueueIsWaiting
      <4>2. ASSUME NEW i \in DOMAIN queue, queue[i] = d
            PROVE  \E k \in DOMAIN queue' : queue'[k] = d
        <5>1. i # 1
          BY <2>1, <3>2, <4>2
        <5>2. i - 1 \in DOMAIN queue' /\ queue'[i - 1] = queue[(i - 1) + 1] /\ (i - 1) + 1 = i
          BY <2>1, <2>3, <5>1
        <5> QED  BY <4>2, <5>2
      <4>3. ASSUME NEW i \in DOMAIN queue', queue'[i] = d
            PROVE  \E k \in DOMAIN queue : queue[k] = d
        BY <2>1, <2>2, <4>3
      <4> QED  BY <4>1, <4>2, <4>3
    <3> QED  BY <3>1, <3>2
  <2> QED  BY <2>4, <2>5 DEF QueueIsWaiting
<1>5. \A d \in Calls : CallInv(d)'
  <2>1. CallInv(c) /\ calls[c].pc = "queued" /\ compiled' = compiled
    BY <1>1 DEF ServerInv
  <2>2. CallInv(c)'
    BY <1>2, <2>1 DEF CallInv
  <2> QED  BY <1>1, <1>2, <2>2, OthersKept DEF ServerInv
<1>6. CompilersInv'
  <2>1. \A d \in compiled : calls'[d].kind = calls[d].kind
    BY <1>2 DEF Others, ServerInv, Types, Shape
  <2> QED  BY <1>1, <2>1, SettingsStay DEF ServerInv, CompilersInv
<1>7. ThreadsInv'
  <2>1. IsFiniteSet(Busy') /\ Cardinality(Busy') <= PoolSize
    <3>1. c \notin Busy /\ Busy' = Busy \cup {c}
      BY <1>1, <1>2 DEF Busy, Others
    <3>2. IsFiniteSet(Busy)
      BY DEF ServerInv, ThreadsInv
    <3>3. IsFiniteSet(Busy') /\ Cardinality(Busy') = Cardinality(Busy) + 1
      BY <3>1, <3>2, FS_AddElement
    <3>4. Cardinality(Busy) \in Nat /\ PoolSize \in Nat
      BY <3>2, FS_CardinalityType, ServerAssumption
    <3> QED  BY <1>1, <3>3, <3>4
  <2>2. Compilers' = Compilers
        /\ {d \in Calls : calls[d].pc = "cache"} \subseteq {d \in Calls : calls[d].pc = "cache"}'
    BY <1>1, <1>2 DEF Compilers, Others
  <2> QED  BY <1>1, <2>1, <2>2 DEF ServerInv, ThreadsInv
<1> QED  BY <1>3, <1>4, <1>5, <1>6, <1>7 DEF ServerInv

\* What a step of a call that has a thread keeps, if it keeps its own part.
LEMMA OneCallSteps ==
  ASSUME ServerInv, NEW c \in Calls, Others(c),
         calls[c].pc \in {"route", "lookup", "compile", "cache", "graph"},
         calls'[c].pc \notin {"away", "queued"}, calls'[c].kind = calls[c].kind,
         UNCHANGED <<config, boot, queue>>, compiled \subseteq compiled',
         Types', CallInv(c)',
         compiled' \subseteq compiled \cup {c},
         c \in compiled' \ compiled => BuildLlmClient /\ calls[c].kind = "live"
  PROVE  /\ Types' /\ QueueIsWaiting' /\ CompilersInv' /\ \A d \in Calls : CallInv(d)'
         /\ Busy' \subseteq Busy
<1>1. QueueIsWaiting'
  BY QueueKept DEF ServerInv
<1>2. \A d \in Calls : CallInv(d)'
  BY OthersKept DEF ServerInv
<1>3. CompilersInv'
  <2>1. BuildLlmClient' <=> BuildLlmClient
    BY SettingsStay
  <2>2. \A d \in compiled' : calls'[d].kind = "live"
    BY DEF ServerInv, Types, CompilersInv, Others
  <2>3. compiled' # {} => BuildLlmClient
    BY DEF ServerInv, CompilersInv
  <2> QED  BY <2>1, <2>2, <2>3 DEF CompilersInv
<1>4. Busy' \subseteq Busy
  BY DEF Busy, Others
<1> QED  BY <1>1, <1>2, <1>3, <1>4

\* A probe or a refusal is answered at once; a live call binds the cached graph
\* or goes to look for one (main.py:59-75, 95-101).
LEMMA InvRoute ==
  ASSUME ServerInv, NEW c \in Calls, Route(c)
  PROVE  ServerInv'
<1>1. calls[c].pc = "route" /\ UNCHANGED <<config, boot, queue, graph, compiled>>
  BY DEF Route, Answer
<1>2. /\ calls[c] \in Shape /\ CallInv(c) /\ calls \in [Calls -> Shape]
      /\ graph \in compiled \cup {NoGraph} /\ compiled \subseteq Calls
  BY DEF ServerInv, Types
<1>3. \E call \in Shape :
        /\ calls' = [calls EXCEPT ![c] = call]
        /\ call.kind = calls[c].kind
        /\ \/ /\ call.kind = "probe" /\ call.pc = "answered" /\ call.graph = calls[c].graph
              /\ call.reply = IF HasLlmCredentials THEN "live LLM" ELSE "no key"
           \/ /\ call.kind = "refused" /\ call.pc = "answered" /\ call.graph = calls[c].graph
              /\ call.reply = "REFUSE"
           \/ /\ call.kind = "live" /\ call.graph = graph /\ call.reply = calls[c].reply
              /\ call.pc = IF graph = NoGraph THEN "lookup" ELSE "graph"
  <2>1. CASE calls[c].kind = "probe" /\ Answer(c, "route", IF HasLlmCredentials THEN "live LLM" ELSE "no key")
    <3> DEFINE call == [calls[c] EXCEPT !.pc = "answered",
                                        !.reply = IF HasLlmCredentials THEN "live LLM" ELSE "no key"]
    <3>1. call \in Shape /\ calls' = [calls EXCEPT ![c] = call]
      BY <1>2, <2>1 DEF Answer, Shape, Places, Replies
    <3>2. /\ call.kind = calls[c].kind /\ call.pc = "answered" /\ call.graph = calls[c].graph
          /\ call.reply = IF HasLlmCredentials THEN "live LLM" ELSE "no key"
      BY <1>2 DEF Shape
    <3> QED  BY <2>1, <3>1, <3>2
  <2>2. CASE calls[c].kind = "refused" /\ Answer(c, "route", "REFUSE")
    <3> DEFINE call == [calls[c] EXCEPT !.pc = "answered", !.reply = "REFUSE"]
    <3>1. call \in Shape /\ calls' = [calls EXCEPT ![c] = call]
      BY <1>2, <2>2 DEF Answer, Shape, Places, Replies
    <3>2. /\ call.kind = calls[c].kind /\ call.pc = "answered" /\ call.graph = calls[c].graph
          /\ call.reply = "REFUSE"
      BY <1>2 DEF Shape
    <3> QED  BY <2>2, <3>1, <3>2
  <2>3. CASE /\ calls[c].kind = "live"
             /\ calls' = [calls EXCEPT ![c].pc = IF graph = NoGraph THEN "lookup" ELSE "graph",
                                       ![c].graph = graph]
    <3> DEFINE call == [calls[c] EXCEPT !.pc = IF graph = NoGraph THEN "lookup" ELSE "graph",
                                        !.graph = graph]
    <3>1. call \in Shape /\ calls' = [calls EXCEPT ![c] = call]
      BY <1>2, <2>3 DEF Shape, Places
    <3>2. /\ call.kind = calls[c].kind /\ call.reply = calls[c].reply /\ call.graph = graph
          /\ call.pc = IF graph = NoGraph THEN "lookup" ELSE "graph"
      BY <1>2 DEF Shape
    <3> QED  BY <2>3, <3>1, <3>2
  <2> QED  BY <2>1, <2>2, <2>3 DEF Route
<1>4. PICK call \in Shape : <1>3!(call)
  BY <1>3
<1>5. calls'[c] = call /\ Others(c) /\ Types'
  BY <1>1, <1>2, <1>4 DEF ServerInv, Types, Others
<1>6. CallInv(c)'
  <2>1. HasLlmCredentials' <=> HasLlmCredentials
    BY <1>1, SettingsStay
  <2> QED  BY <1>1, <1>2, <1>4, <1>5, <2>1 DEF CallInv
<1>7. /\ Types' /\ QueueIsWaiting' /\ CompilersInv' /\ \A d \in Calls : CallInv(d)'
      /\ Busy' \subseteq Busy
  BY <1>1, <1>4, <1>5, <1>6, OneCallSteps
<1>8. ThreadsInv'
  <2>1. Compilers' \subseteq Compilers
    BY <1>1, <1>4, <1>5 DEF Compilers, Others
  <2>2. {d \in Calls : calls[d].pc = "cache"} \subseteq {d \in Calls : calls[d].pc = "cache"}'
    BY <1>1, <1>5 DEF Others
  <2> QED  BY <1>1, <1>7, <2>1, <2>2, ThreadsKept DEF ServerInv, ThreadsInv
<1> QED  BY <1>7, <1>8 DEF ServerInv

\* get_graph's second look: as long as nothing is cached, whoever is about to
\* compile has a thread (main.py:50-56).
LEMMA InvLookUp ==
  ASSUME ServerInv, NEW c \in Calls, LookUp(c)
  PROVE  ServerInv'
<1> DEFINE call == [calls[c] EXCEPT !.pc = IF graph = NoGraph THEN "compile" ELSE "graph",
                                    !.graph = graph]
<1>1. /\ calls[c].pc = "lookup" /\ UNCHANGED <<config, boot, queue, graph, compiled>>
      /\ calls[c] \in Shape /\ CallInv(c) /\ calls \in [Calls -> Shape]
      /\ graph \in compiled \cup {NoGraph} /\ compiled \subseteq Calls
  BY DEF LookUp, ServerInv, Types
<1>2. call \in Shape /\ calls' = [calls EXCEPT ![c] = call]
  BY <1>1 DEF LookUp, Shape, Places
<1>3. /\ call.kind = calls[c].kind /\ call.reply = calls[c].reply /\ call.graph = graph
      /\ call.pc = IF graph = NoGraph THEN "compile" ELSE "graph"
  BY <1>1 DEF Shape
<1> HIDE DEF call
<1>4. calls'[c] = call /\ Others(c) /\ Types'
  BY <1>1, <1>2 DEF ServerInv, Types, Others
<1>5. CallInv(c)'
  BY <1>1, <1>3, <1>4 DEF CallInv
<1>6. /\ Types' /\ QueueIsWaiting' /\ CompilersInv' /\ \A d \in Calls : CallInv(d)'
      /\ Busy' \subseteq Busy
  BY <1>1, <1>3, <1>4, <1>5, OneCallSteps
<1>7. {d \in Calls : calls[d].pc = "cache"} \subseteq {d \in Calls : calls[d].pc = "cache"}'
  BY <1>1, <1>4 DEF Others
<1>8. CASE graph = NoGraph
  <2>1. Compilers' \subseteq Busy
    <3>1. \A d \in compiled : calls[d].pc = "cache"
      BY <1>8 DEF ServerInv, ThreadsInv
    <3> QED  BY <1>1, <1>4, <3>1 DEF Compilers, Busy, Others
  <2>2. IsFiniteSet(Compilers') /\ Cardinality(Compilers') <= PoolSize
    BY <2>1, SubsetWithinPool DEF ServerInv, ThreadsInv
  <2>3. IsFiniteSet(Busy') /\ Cardinality(Busy') <= PoolSize
    BY <1>6, SubsetWithinPool DEF ServerInv, ThreadsInv
  <2> QED  BY <1>1, <1>6, <1>7, <2>2, <2>3 DEF ServerInv, ThreadsInv
<1>9. CASE graph # NoGraph
  <2>1. Compilers' \subseteq Compilers
    BY <1>1, <1>3, <1>4, <1>9 DEF Compilers, Others
  <2> QED  BY <1>1, <1>6, <1>7, <2>1, ThreadsKept DEF ServerInv, ThreadsInv
<1> QED  BY <1>6, <1>8, <1>9 DEF ServerInv

\* A graph is compiled by a call that has a client for it, and a call that has
\* none is escalated (llm.py:235-245, service.py:147-152).
LEMMA InvCompile ==
  ASSUME ServerInv, NEW c \in Calls, Compile(c)
  PROVE  ServerInv'
<1>1. /\ calls[c].pc = "compile" /\ UNCHANGED <<config, boot, queue, graph>>
      /\ calls[c] \in Shape /\ CallInv(c) /\ calls \in [Calls -> Shape]
      /\ graph \in compiled \cup {NoGraph} /\ compiled \subseteq Calls /\ c # NoGraph
  BY ServerAssumption DEF Compile, Answer, ServerInv, Types
<1>2. \E call \in Shape :
        /\ calls' = [calls EXCEPT ![c] = call] /\ call.kind = calls[c].kind
        /\ \/ /\ BuildLlmClient /\ compiled' = compiled \cup {c}
              /\ call.pc = "cache" /\ call.graph = c /\ call.reply = calls[c].reply
           \/ /\ ~BuildLlmClient /\ compiled' = compiled
              /\ call.pc = "answered" /\ call.graph = calls[c].graph /\ call.reply = "ESCALATE"
  <2>1. CASE BuildLlmClient
    <3> DEFINE call == [calls[c] EXCEPT !.pc = "cache", !.graph = c]
    <3>1. call \in Shape /\ calls' = [calls EXCEPT ![c] = call] /\ compiled' = compiled \cup {c}
      BY <1>1, <2>1 DEF Compile, Shape, Places
    <3>2. call.kind = calls[c].kind /\ call.pc = "cache" /\ call.graph = c
          /\ call.reply = calls[c].reply
      BY <1>1 DEF Shape
    <3> QED  BY <2>1, <3>1, <3>2
  <2>2. CASE ~BuildLlmClient
    <3> DEFINE call == [calls[c] EXCEPT !.pc = "answered", !.reply = "ESCALATE"]
    <3>1. call \in Shape /\ calls' = [calls EXCEPT ![c] = call] /\ compiled' = compiled
      BY <1>1, <2>2 DEF Compile, Answer, Shape, Places, Replies
    <3>2. call.kind = calls[c].kind /\ call.pc = "answered" /\ call.graph = calls[c].graph
          /\ call.reply = "ESCALATE"
      BY <1>1 DEF Shape
    <3> QED  BY <2>2, <3>1, <3>2
  <2> QED  BY <2>1, <2>2
<1>3. PICK call \in Shape : <1>2!(call)
  BY <1>2
<1>4. calls'[c] = call /\ Others(c) /\ Types'
  BY <1>1, <1>3 DEF ServerInv, Types, Others
<1>5. BuildLlmClient' <=> BuildLlmClient
  BY <1>1, SettingsStay
<1>6. CallInv(c)'
  BY <1>1, <1>3, <1>4, <1>5 DEF CallInv
<1>7. /\ compiled \subseteq compiled' /\ compiled' \subseteq compiled \cup {c}
      /\ c \in compiled' \ compiled => BuildLlmClient /\ calls[c].kind = "live"
  BY <1>1, <1>3 DEF CallInv
<1>8. /\ Types' /\ QueueIsWaiting' /\ CompilersInv' /\ \A d \in Calls : CallInv(d)'
      /\ Busy' \subseteq Busy
  BY <1>1, <1>3, <1>4, <1>6, <1>7, OneCallSteps
<1>9. ThreadsInv'
  <2>1. Compilers' \subseteq Compilers
    BY <1>1, <1>3, <1>4 DEF Compilers, Others
  <2>2. graph' = NoGraph => compiled' \subseteq {d \in Calls : calls[d].pc = "cache"}'
    BY <1>1, <1>3, <1>4 DEF Others, ServerInv, ThreadsInv
  <2> QED  BY <1>1, <1>8, <2>1, <2>2, ThreadsKept DEF ServerInv
<1> QED  BY <1>8, <1>9 DEF ServerInv

\* The compiled graph is put where the next case finds it (main.py:55).
LEMMA InvCache ==
  ASSUME ServerInv, NEW c \in Calls, Cache(c)
  PROVE  ServerInv'
<1> DEFINE call == [calls[c] EXCEPT !.pc = "graph"]
<1>1. /\ calls[c].pc = "cache" /\ UNCHANGED <<config, boot, queue, compiled>> /\ graph' = c
      /\ calls[c] \in Shape /\ CallInv(c) /\ calls \in [Calls -> Shape]
      /\ compiled \subseteq Calls /\ c # NoGraph
  BY ServerAssumption DEF Cache, Move, ServerInv, Types
<1>2. call \in Shape /\ calls' = [calls EXCEPT ![c] = call]
  BY <1>1 DEF Cache, Move, Shape, Places
<1>3. /\ call.kind = calls[c].kind /\ call.reply = calls[c].reply /\ call.graph = calls[c].graph
      /\ call.pc = "graph"
  BY <1>1 DEF Shape
<1> HIDE DEF call
<1>4. calls'[c] = call /\ Others(c) /\ c \in compiled
  BY <1>1, <1>2 DEF Others, CallInv
<1>5. Types'
  BY <1>1, <1>2, <1>4 DEF ServerInv, Types
<1>6. CallInv(c)'
  BY <1>1, <1>3, <1>4 DEF CallInv
<1>7. /\ Types' /\ QueueIsWaiting' /\ CompilersInv' /\ \A d \in Calls : CallInv(d)'
      /\ Busy' \subseteq Busy
  BY <1>1, <1>3, <1>4, <1>5, <1>6, OneCallSteps
<1>8. ThreadsInv'
  <2>1. Compilers' \subseteq Compilers
    BY <1>1, <1>3, <1>4 DEF Compilers, Others
  <2> QED  BY <1>1, <1>7, <2>1, ThreadsKept DEF ServerInv
<1> QED  BY <1>7, <1>8 DEF ServerInv

\* The graph ends with a case or an exception; either way the client is answered
\* (service.py:144-152).
LEMMA InvRunGraph ==
  ASSUME ServerInv, NEW c \in Calls, RunGraph(c)
  PROVE  ServerInv'
<1>1. PICK reply \in {"case", "ESCALATE"} : Answer(c, "graph", reply)
  BY DEF RunGraph
<1> DEFINE call == [calls[c] EXCEPT !.pc = "answered", !.reply = reply]
<1>2. /\ calls[c].pc = "graph" /\ UNCHANGED <<config, boot, queue, graph, compiled>>
      /\ calls[c] \in Shape /\ CallInv(c) /\ calls \in [Calls -> Shape]
  BY <1>1 DEF RunGraph, Answer, ServerInv, Types
<1>3. call \in Shape /\ calls' = [calls EXCEPT ![c] = call]
  BY <1>1, <1>2 DEF Answer, Shape, Places, Replies
<1>4. /\ call.kind = calls[c].kind /\ call.reply = reply /\ call.graph = calls[c].graph
      /\ call.pc = "answered"
  BY <1>2 DEF Shape
<1> HIDE DEF call
<1>5. calls'[c] = call /\ Others(c) /\ Types'
  BY <1>2, <1>3 DEF ServerInv, Types, Others
<1>6. CallInv(c)'
  BY <1>2, <1>4, <1>5 DEF CallInv
<1>7. /\ Types' /\ QueueIsWaiting' /\ CompilersInv' /\ \A d \in Calls : CallInv(d)'
      /\ Busy' \subseteq Busy
  BY <1>2, <1>4, <1>5, <1>6, OneCallSteps
<1>8. ThreadsInv'
  <2>1. Compilers' \subseteq Compilers
    BY <1>2, <1>4, <1>5 DEF Compilers, Others
  <2>2. {d \in Calls : calls[d].pc = "cache"} \subseteq {d \in Calls : calls[d].pc = "cache"}'
    BY <1>2, <1>5 DEF Others
  <2> QED  BY <1>2, <1>7, <2>1, <2>2, ThreadsKept DEF ServerInv, ThreadsInv
<1> QED  BY <1>7, <1>8 DEF ServerInv

\* Every step keeps the invariant.
LEMMA ServerStepKeeps == ServerInv /\ [ServerNext]_serverVars => ServerInv'
<1> SUFFICES ASSUME ServerInv, [ServerNext]_serverVars PROVE ServerInv'
  OBVIOUS
<1>1. CASE BootDb \/ BootTracing \/ UNCHANGED serverVars  BY <1>1, InvBoot
<1>2. ASSUME NEW c \in Calls, Arrive(c) \/ Step(c) PROVE ServerInv'
  BY <1>2, InvArrive, InvStart, InvRoute, InvLookUp, InvCompile, InvCache, InvRunGraph DEF Step
<1> QED  BY <1>1, <1>2 DEF ServerNext

-----------------------------------------------------------------------------
(* The theorems *)

\* Every reachable state satisfies the inductive invariant.
THEOREM ServerInvariance == ServerSpec => []ServerInv
  BY ServerInitHolds, ServerStepKeeps, PTL DEF ServerSpec

LEMMA ServerTyped == ServerInv => ServerTypeOK
<1> SUFFICES ASSUME ServerInv PROVE ServerTypeOK
  OBVIOUS
<1>1. ASSUME NEW c \in Calls
      PROVE  calls[c].pc = "queued" <=> Cardinality({i \in DOMAIN queue : queue[i] = c}) = 1
  <2> DEFINE S == {i \in DOMAIN queue : queue[i] = c}
  <2>1. CASE calls[c].pc = "queued"
    <3>1. PICK i \in DOMAIN queue : queue[i] = c
      BY <2>1 DEF ServerInv, QueueIsWaiting
    <3>2. S = {i}
      BY <3>1 DEF ServerInv, QueueIsWaiting
    <3> QED  BY <2>1, <3>2, FS_Singleton
  <2>2. CASE calls[c].pc # "queued"
    <3>1. S = {}
      BY <2>2 DEF ServerInv, QueueIsWaiting
    <3> QED  BY <2>2, <3>1, FS_EmptySet
  <2> QED  BY <2>1, <2>2
<1>2. ASSUME NEW c \in Calls
      PROVE  /\ calls[c].pc \in Places /\ calls[c].reply \in Replies
             /\ calls[c].pc = "graph" => calls[c].graph \in compiled
             /\ calls[c].pc = "away" => calls[c] = NoCall
  BY DEF ServerInv, Types, Shape, CallInv
<1> QED  BY <1>1, <1>2 DEF ServerInv, Types, ServerTypeOK, Places, Replies

\* The queue and the cache are what they say, for any number of calls
\* (main.py:50-75).
THEOREM ServerTypeCorrectness == ServerSpec => []ServerTypeOK
BY ServerTyped, ServerInvariance, PTL

\* No case is a 500 for want of a model, a refusal never compiles one, and no
\* case is a model's without one (main.py:59-75, 108-115).
THEOREM AnsweredWithoutModel == ServerSpec => []NoModelStillAnswers
<1>1. ServerInv => NoModelStillAnswers
  <2> SUFFICES ASSUME ServerInv, NEW c \in Calls
               PROVE  /\ calls[c].reply # "500"
                      /\ calls[c].kind = "refused" /\ calls[c].pc = "answered" =>
                           calls[c].reply = "REFUSE" /\ c \notin compiled
                      /\ ~BuildLlmClient => calls[c].reply # "case"
    BY DEF NoModelStillAnswers
  <2>1. CallInv(c) /\ CompilersInv /\ calls[c].kind \in Kinds
    BY DEF ServerInv, Types, Shape
  <2> QED  BY <2>1 DEF CallInv, CompilersInv, Kinds
<1> QED  BY ServerInvariance, <1>1, PTL

\* However many first cases race, no more graphs are compiled than the pool has
\* threads (main.py:50-56).
THEOREM GraphsPerPool == ServerSpec => []CompilesBounded
<1>1. ServerInv => CompilesBounded
  <2> SUFFICES ASSUME ServerInv PROVE Cardinality(compiled) <= PoolSize
    BY DEF CompilesBounded
  <2>1. compiled \subseteq Compilers
    BY DEF Compilers
  <2> QED  BY <2>1, SubsetWithinPool DEF ServerInv, ThreadsInv
<1> QED  BY ServerInvariance, <1>1, PTL

\* /health tells, for every configuration, what cases will find
\* (main.py:95-101, llm.py:235-245).
THEOREM HealthTellsTheTruth == ServerSpec => []HealthIsHonest
<1>1. ServerInv => HealthIsHonest
  <2> SUFFICES ASSUME ServerInv PROVE HealthIsHonest
    OBVIOUS
  <2>1. \A c \in Calls : CallInv(c) /\ calls[c].kind \in Kinds
    BY DEF ServerInv, Types, Shape
  <2>2. ASSUME NEW p \in Calls, calls[p].reply = "no key"
        PROVE  compiled = {}
    <3>1. ~HasLlmCredentials
      BY <2>1, <2>2 DEF CallInv, Kinds
    <3> QED  BY <3>1 DEF ServerInv, CompilersInv, BuildLlmClient
  <2>3. ASSUME NEW p \in Calls, calls[p].reply = "live LLM", BuildChatModel,
               NEW c \in Calls, calls[c].reply = "ESCALATE"
        PROVE  calls[c].graph # NoGraph
    <3>1. BuildLlmClient
      <4>1. HasLlmCredentials
        BY <2>1, <2>3 DEF CallInv, Kinds
      <4> QED  BY <2>3, <4>1 DEF BuildLlmClient
    <3>2. calls[c].graph \in compiled
      BY <2>1, <2>3, <3>1 DEF CallInv, Kinds
    <3> QED  BY <3>2, ServerAssumption DEF ServerInv, Types
  <2> QED  BY <2>2, <2>3 DEF HealthIsHonest
<1> QED  BY ServerInvariance, <1>1, PTL

-----------------------------------------------------------------------------
(* CatalogStore *)

(* The inductive invariant *)

PCs == {"down", "schema", "seed", "commit", "up"}

Shapes ==
  /\ exists \subseteq TableSet
  /\ catalog = [t \in TableSet |-> catalog[t]] /\ work = [t \in TableSet |-> work[t]]
  /\ lock \in Procs \cup {Free}
  /\ pc \in [Procs -> PCs] /\ next \in [Procs -> 1..3]
  /\ reading \in [Procs -> Orders \cup {"unknown", "none"}]

\* A row is a product's, an order's or a line between the two.
KnownKeys == \A t \in TableSet : DOMAIN catalog[t] \subseteq Ids(t) /\ DOMAIN work[t] \subseteq Ids(t)

\* The lock is held from the first insert to the commit.
HolderSeeds ==
  \A p \in Procs : (lock = p) <=> (pc[p] = "commit" \/ (pc[p] = "seed" /\ next[p] > 1))

\* The holder's rows are the committed ones and those of the tables it is past.
WorkExtends ==
  /\ lock = Free => work = NoRows
  /\ \A p \in Procs : lock = p =>
       \A k \in 1..3 :
         LET t == Tables[k]
         IN  /\ DOMAIN catalog[t] \subseteq DOMAIN work[t]
             /\ \A id \in DOMAIN catalog[t] : work[t][id] = catalog[t][id]
             /\ (pc[p] = "commit" \/ k < next[p]) => Keys(t) \subseteq DOMAIN work[t]

TablesMade ==
  \A p \in Procs :
    /\ pc[p] \in {"seed", "commit", "up"} => exists = TableSet
    /\ pc[p] = "schema" => \A k \in 1..3 : k < next[p] => Tables[k] \in exists

CompleteOnceUp == (\E p \in Procs : pc[p] = "up") => Complete(catalog)

ReadsFound ==
  \A p \in Procs : reading[p] # "none" => pc[p] = "up" /\ reading[p] \in Orders

CatalogInv ==
  /\ Shapes /\ KnownKeys /\ HolderSeeds /\ WorkExtends /\ TablesMade /\ CompleteOnceUp
  /\ ReadsFound /\ AnswerIsWhole

-----------------------------------------------------------------------------
(* Lemmas *)

\* The fixture's rows are among those a table may have.
LEMMA KeysAreIds == \A t \in TableSet : Keys(t) \subseteq Ids(t)
BY CatalogAssumption DEF CatalogAssumption, TableSet, Keys, Ids

\* INSERT OR IGNORE keeps what is there and adds what is missing of the fixture.
LEMMA InsertOrIgnoreMerges ==
  ASSUME NEW rows, NEW table \in TableSet, DOMAIN rows \subseteq Ids(table)
  PROVE  /\ Keys(table) \subseteq DOMAIN InsertOrIgnore(rows, table)
         /\ DOMAIN InsertOrIgnore(rows, table) \subseteq Ids(table)
         /\ DOMAIN rows \subseteq DOMAIN InsertOrIgnore(rows, table)
         /\ \A id \in DOMAIN rows : InsertOrIgnore(rows, table)[id] = rows[id]
BY KeysAreIds DEF InsertOrIgnore

\* The tables by their place in the schema.
LEMMA TablesAre ==
  /\ Len(Tables) = 3
  /\ Tables[1] = "products" /\ Tables[2] = "orders" /\ Tables[3] = "order_items"
  /\ \A k \in 1..3 : Tables[k] \in TableSet
  /\ \A t \in TableSet : \E k \in 1..3 : Tables[k] = t
  /\ \A j, k \in 1..3 : Tables[j] = Tables[k] => j = k
BY DEF Tables, TableSet

\* A step of a boot moves on by one table, or past the last.
LEMMA AdvanceMoves ==
  ASSUME Shapes, NEW p \in Procs, NEW done \in PCs, Advance(p, done)
  PROVE  /\ pc' \in [Procs -> PCs] /\ next' \in [Procs -> 1..3]
         /\ \A q \in Procs \ {p} : pc'[q] = pc[q] /\ next'[q] = next[q]
         /\ \/ next[p] < 3 /\ next'[p] = next[p] + 1 /\ pc'[p] = pc[p]
            \/ next[p] = 3 /\ next'[p] = 1 /\ pc'[p] = done
BY TablesAre DEF Advance, Shapes

-----------------------------------------------------------------------------
(* The invariant holds initially *)

LEMMA CatalogInitHolds == CatalogInit => CatalogInv
<1> SUFFICES ASSUME CatalogInit PROVE CatalogInv
  OBVIOUS
<1>1. catalog = [t \in TableSet |-> catalog[t]] /\ (\A t \in TableSet : DOMAIN catalog[t] \subseteq Ids(t))
  <2>1. CASE catalog = NoRows
    BY <2>1 DEF NoRows
  <2>2. ASSUME NEW ps \in SUBSET Products, NEW os \in SUBSET Orders,
               NEW lines \in SUBSET (Orders \X Products),
               NEW product \in [ps -> {"fixture", "edited"}],
               NEW order \in [os -> {"fixture", "edited"}],
               catalog = Earlier(product, order, lines)
        PROVE  /\ catalog = [t \in TableSet |-> catalog[t]]
               /\ \A t \in TableSet : DOMAIN catalog[t] \subseteq Ids(t)
    BY <2>2 DEF Earlier, TableSet, Keys, Ids
  <2> QED BY <2>1, <2>2 DEF CatalogInit
<1>2. work = [t \in TableSet |-> work[t]] /\ (\A t \in TableSet : DOMAIN work[t] \subseteq Ids(t))
  BY DEF CatalogInit, NoRows
<1>3. Shapes
  BY <1>1, <1>2 DEF CatalogInit, Shapes, PCs, TableSet
<1>4. KnownKeys
  BY <1>1, <1>2 DEF KnownKeys
<1>5. HolderSeeds /\ WorkExtends /\ TablesMade /\ CompleteOnceUp /\ ReadsFound
  BY CatalogAssumption DEF CatalogInit, HolderSeeds, WorkExtends, TablesMade, CompleteOnceUp, ReadsFound, Free
<1>6. AnswerIsWhole
  BY CatalogAssumption DEF CatalogInit, AnswerIsWhole, NoAnswer
<1> QED BY <1>3, <1>4, <1>5, <1>6 DEF CatalogInv

-----------------------------------------------------------------------------
(* Every action keeps it *)

\* A complete catalog finds every order and loses no line.
LEMMA CompleteReadsAreWhole ==
  ASSUME KnownKeys, Complete(catalog), NEW order \in Orders
  PROVE  /\ order \in DOMAIN catalog["orders"]
         /\ {l \in Lines : l[1] = order} \subseteq Join(order)
         /\ Join(order) \subseteq {order} \X Products
<1>1. /\ DOMAIN catalog["orders"] = Orders /\ DOMAIN catalog["products"] = Products
      /\ Lines \subseteq DOMAIN catalog["order_items"]
      /\ DOMAIN catalog["order_items"] \subseteq Orders \X Products
  BY DEF KnownKeys, Complete, TableSet, Keys, Ids
<1>2. \A l \in Lines : l[2] \in Products
  BY CatalogAssumption DEF CatalogAssumption
<1> QED BY <1>1, <1>2 DEF Join

LEMMA BootKeeps == ASSUME CatalogInv, NEW p \in Procs, Boot(p) PROVE CatalogInv'
<1> USE DEF Boot
<1>1. Shapes' /\ KnownKeys'
  BY DEF CatalogInv, Shapes, KnownKeys, PCs
<1>2. HolderSeeds'
  BY DEF CatalogInv, Shapes, HolderSeeds
<1>3. WorkExtends'
  BY ZenonT(30) DEF CatalogInv, Shapes, HolderSeeds, WorkExtends
<1>4. TablesMade'
  BY DEF CatalogInv, Shapes, TablesMade
<1>5. CompleteOnceUp' /\ ReadsFound' /\ AnswerIsWhole'
  BY DEF CatalogInv, Shapes, CompleteOnceUp, Complete, ReadsFound, AnswerIsWhole
<1> QED BY <1>1, <1>2, <1>3, <1>4, <1>5 DEF CatalogInv

LEMMA CreateTableKeeps == ASSUME CatalogInv, NEW p \in Procs, CreateTable(p) PROVE CatalogInv'
<1> USE DEF CreateTable
<1>1. /\ pc' \in [Procs -> PCs] /\ next' \in [Procs -> 1..3]
      /\ \A q \in Procs \ {p} : pc'[q] = pc[q] /\ next'[q] = next[q]
      /\ \/ next[p] < 3 /\ next'[p] = next[p] + 1 /\ pc'[p] = pc[p]
         \/ next[p] = 3 /\ next'[p] = 1 /\ pc'[p] = "seed"
  BY AdvanceMoves DEF CatalogInv, PCs
<1>2. next[p] \in 1..3 /\ pc[p] = "schema"
  BY DEF CatalogInv, Shapes
<1>3. Shapes' /\ KnownKeys'
  BY <1>1, <1>2, TablesAre DEF CatalogInv, Shapes, KnownKeys
<1>4. HolderSeeds'
  BY <1>1, <1>2 DEF CatalogInv, HolderSeeds
<1>5. WorkExtends'
  BY <1>1, <1>2 DEF CatalogInv, HolderSeeds, WorkExtends
<1>6. TablesMade'
  <2>1. ASSUME NEW q \in Procs, q # p
        PROVE  /\ pc'[q] \in {"seed", "commit", "up"} => exists' = TableSet
               /\ pc'[q] = "schema" => \A k \in 1..3 : k < next'[q] => Tables[k] \in exists'
    BY <1>1, <1>2, <2>1, TablesAre DEF CatalogInv, Shapes, TablesMade
  <2>2. /\ pc'[p] \in {"seed", "commit", "up"} => exists' = TableSet
        /\ pc'[p] = "schema" => \A k \in 1..3 : k < next'[p] => Tables[k] \in exists'
    BY <1>1, <1>2, TablesAre DEF CatalogInv, Shapes, TablesMade, TableSet
  <2> QED BY <2>1, <2>2 DEF TablesMade
<1>7. CompleteOnceUp' /\ ReadsFound' /\ AnswerIsWhole'
  BY <1>1, <1>2 DEF CatalogInv, CompleteOnceUp, Complete, ReadsFound, AnswerIsWhole
<1> QED BY <1>3, <1>4, <1>5, <1>6, <1>7 DEF CatalogInv

LEMMA InsertKeeps == ASSUME CatalogInv, NEW p \in Procs, Insert(p) PROVE CatalogInv'
<1> DEFINE T == Tables[next[p]]
           rows == IF lock = p THEN work ELSE catalog
<1> USE DEF Insert
<1>1. /\ pc' \in [Procs -> PCs] /\ next' \in [Procs -> 1..3]
      /\ \A q \in Procs \ {p} : pc'[q] = pc[q] /\ next'[q] = next[q]
      /\ \/ next[p] < 3 /\ next'[p] = next[p] + 1 /\ pc'[p] = pc[p]
         \/ next[p] = 3 /\ next'[p] = 1 /\ pc'[p] = "commit"
  BY AdvanceMoves DEF CatalogInv, PCs
<1>2. next[p] \in 1..3 /\ pc[p] = "seed" /\ T \in TableSet /\ lock' = p
  BY TablesAre DEF CatalogInv, Shapes
<1>3. \A q \in Procs : q # p => lock # q
  BY CatalogAssumption DEF CatalogAssumption, Free
<1>4. /\ rows = [t \in TableSet |-> rows[t]]
      /\ \A t \in TableSet : DOMAIN rows[t] \subseteq Ids(t)
  BY DEF CatalogInv, Shapes, KnownKeys
<1>5. /\ \A t \in TableSet : DOMAIN catalog[t] \subseteq DOMAIN rows[t]
      /\ \A t \in TableSet : \A id \in DOMAIN catalog[t] : rows[t][id] = catalog[t][id]
      /\ \A k \in 1..3 : k < next[p] => Keys(Tables[k]) \subseteq DOMAIN rows[Tables[k]]
  <2>1. CASE lock = p
    BY <2>1, TablesAre DEF CatalogInv, WorkExtends
  <2>2. CASE lock # p
    BY <2>2, <1>2 DEF CatalogInv, HolderSeeds
  <2> QED BY <2>1, <2>2
<1>6. /\ work' = [t \in TableSet |-> work'[t]]
      /\ work'[T] = InsertOrIgnore(rows[T], T)
      /\ \A t \in TableSet \ {T} : work'[t] = rows[t]
  BY <1>2, <1>4
<1>7. /\ Keys(T) \subseteq DOMAIN work'[T] /\ DOMAIN work'[T] \subseteq Ids(T)
      /\ DOMAIN rows[T] \subseteq DOMAIN work'[T]
      /\ \A id \in DOMAIN rows[T] : work'[T][id] = rows[T][id]
  BY SMTT(20), <1>2, <1>4, <1>6, InsertOrIgnoreMerges
<1> HIDE DEF rows
<1>8. Shapes' /\ KnownKeys'
  BY <1>1, <1>2, <1>4, <1>6, <1>7 DEF CatalogInv, Shapes, KnownKeys
<1>9. HolderSeeds'
  BY <1>1, <1>2, <1>3 DEF CatalogInv, HolderSeeds
<1>10. WorkExtends'
  <2>1. /\ \A t \in TableSet : DOMAIN catalog[t] \subseteq DOMAIN work'[t]
        /\ \A t \in TableSet : \A id \in DOMAIN catalog[t] : work'[t][id] = catalog[t][id]
    <3>1. ASSUME NEW t \in TableSet \ {T}
          PROVE  /\ DOMAIN catalog[t] \subseteq DOMAIN work'[t]
                 /\ \A id \in DOMAIN catalog[t] : work'[t][id] = catalog[t][id]
      BY <1>5, <1>6
    <3>2. /\ DOMAIN catalog[T] \subseteq DOMAIN work'[T]
          /\ \A id \in DOMAIN catalog[T] : work'[T][id] = catalog[T][id]
      BY <1>2, <1>4, <1>5, <1>7
    <3> QED  BY <3>1, <3>2
  <2>2. \A k \in 1..3 : k <= next[p] => Keys(Tables[k]) \subseteq DOMAIN work'[Tables[k]]
    <3> SUFFICES ASSUME NEW k \in 1..3, k <= next[p]
                 PROVE  Keys(Tables[k]) \subseteq DOMAIN work'[Tables[k]]
      OBVIOUS
    <3>1. Tables[k] \in TableSet
      BY TablesAre
    <3>2. CASE Tables[k] = T
      BY <1>7, <3>2
    <3>3. CASE Tables[k] # T
      <4>1. k < next[p]
        BY <1>2, <3>3
      <4>2. Keys(Tables[k]) \subseteq DOMAIN rows[Tables[k]]
        BY <1>5, <4>1
      <4> QED  BY <1>6, <3>1, <3>3, <4>2
    <3> QED  BY <3>2, <3>3
  <2>3. ASSUME NEW k \in 1..3, pc'[p] = "commit" \/ k < next'[p]
        PROVE  k <= next[p]
    BY <1>1, <1>2, <2>3
  <2>4. lock' # Free /\ catalog' = catalog
    BY <1>2, CatalogAssumption DEF CatalogAssumption, Free
  <2>5. \A q \in Procs : lock' = q => q = p
    BY <1>2
  <2> QED BY SMTT(20), <2>1, <2>2, <2>3, <2>4, <2>5, TablesAre DEF WorkExtends
<1>11. TablesMade' /\ CompleteOnceUp'
  BY <1>1, <1>2 DEF CatalogInv, TablesMade, CompleteOnceUp, Complete
<1>12. ReadsFound' /\ AnswerIsWhole'
  BY <1>1, <1>2 DEF CatalogInv, ReadsFound, AnswerIsWhole
<1> QED BY <1>8, <1>9, <1>10, <1>11, <1>12 DEF CatalogInv

\* What is committed extends what was, and is complete.
LEMMA CommitCompletes ==
  ASSUME CatalogInv, NEW p \in Procs, Commit(p)
  PROVE  lock = p /\ catalog' = work /\ Complete(catalog') /\ RowsKept
<1>1. lock = p /\ pc[p] = "commit" /\ catalog' = work
  BY DEF CatalogInv, HolderSeeds, Commit
<1>2. \A t \in TableSet : \E k \in 1..3 : Tables[k] = t
  BY TablesAre
<1> QED BY <1>1, <1>2 DEF CatalogInv, WorkExtends, Complete, RowsKept

LEMMA CommitKeeps == ASSUME CatalogInv, NEW p \in Procs, Commit(p) PROVE CatalogInv'
<1>1. lock = p /\ catalog' = work /\ Complete(catalog')
  BY CommitCompletes
<1> USE DEF Commit
<1>2. Shapes' /\ KnownKeys'
  BY DEF CatalogInv, Shapes, KnownKeys, PCs, NoRows, TableSet, Free
<1>3. HolderSeeds'
  BY <1>1, CatalogAssumption DEF CatalogInv, Shapes, HolderSeeds, CatalogAssumption, Free
<1>4. WorkExtends'
  BY CatalogAssumption DEF WorkExtends, CatalogAssumption, Free
<1>5. TablesMade'
  BY DEF CatalogInv, Shapes, TablesMade
<1>6. CompleteOnceUp'
  BY <1>1 DEF CompleteOnceUp, Complete
<1>7. ReadsFound' /\ AnswerIsWhole'
  BY DEF CatalogInv, Shapes, ReadsFound, AnswerIsWhole
<1> QED BY <1>2, <1>3, <1>4, <1>5, <1>6, <1>7 DEF CatalogInv

LEMMA LockedKeeps == ASSUME CatalogInv, NEW p \in Procs, Locked(p) PROVE CatalogInv'
<1> USE DEF Locked
<1>1. Shapes' /\ KnownKeys'
  BY DEF CatalogInv, Shapes, KnownKeys, PCs
<1>2. HolderSeeds' /\ WorkExtends'
  BY ZenonT(30) DEF CatalogInv, Shapes, HolderSeeds, WorkExtends
<1>3. TablesMade' /\ CompleteOnceUp'
  BY DEF CatalogInv, Shapes, TablesMade, CompleteOnceUp, Complete
<1>4. ReadsFound' /\ AnswerIsWhole'
  BY DEF CatalogInv, Shapes, ReadsFound, AnswerIsWhole
<1> QED BY <1>1, <1>2, <1>3, <1>4 DEF CatalogInv

LEMMA CrashKeeps == ASSUME CatalogInv, NEW p \in Procs, Crash(p) PROVE CatalogInv'
<1> USE DEF Crash
<1>1. Shapes' /\ KnownKeys'
  BY DEF CatalogInv, Shapes, KnownKeys, PCs, NoRows, TableSet, Free
<1>2. HolderSeeds'
  BY CatalogAssumption DEF CatalogInv, Shapes, HolderSeeds, CatalogAssumption, Free
<1>3. WorkExtends'
  <2>1. CASE lock = p
    BY <2>1, CatalogAssumption DEF WorkExtends, CatalogAssumption, Free
  <2>2. CASE lock # p
    BY ZenonT(30), <2>2 DEF CatalogInv, Shapes, WorkExtends
  <2> QED BY <2>1, <2>2
<1>4. TablesMade' /\ CompleteOnceUp'
  BY DEF CatalogInv, Shapes, TablesMade, CompleteOnceUp, Complete
<1>5. ReadsFound' /\ AnswerIsWhole'
  BY DEF CatalogInv, Shapes, ReadsFound, AnswerIsWhole
<1> QED BY <1>1, <1>2, <1>3, <1>4, <1>5 DEF CatalogInv

LEMMA ReadOrderKeeps == ASSUME CatalogInv, NEW p \in Procs, ReadOrder(p) PROVE CatalogInv'
<1>1. pc[p] = "up" /\ Complete(catalog)
  BY DEF CatalogInv, CompleteOnceUp, ReadOrder
<1>2. PICK order \in Orders \cup {"unknown"} :
        IF order \in DOMAIN catalog["orders"]
          THEN reading' = [reading EXCEPT ![p] = order] /\ UNCHANGED answer
          ELSE answer' = NotFound(order) /\ UNCHANGED reading
  BY DEF ReadOrder
<1>3. order \in DOMAIN catalog["orders"] <=> order \in Orders
  BY <1>1, CompleteReadsAreWhole DEF CatalogInv, KnownKeys, TableSet, Keys, Ids
<1>4. UNCHANGED <<exists, catalog, lock, work, pc, next>>
  BY DEF ReadOrder
<1>5. Shapes' /\ KnownKeys'
  BY <1>2, <1>4 DEF CatalogInv, Shapes, KnownKeys
<1>6. HolderSeeds' /\ WorkExtends' /\ TablesMade' /\ CompleteOnceUp'
  BY <1>4 DEF CatalogInv, HolderSeeds, WorkExtends, TablesMade, CompleteOnceUp, Complete
<1>7. ReadsFound'
  BY <1>1, <1>2, <1>3, <1>4 DEF CatalogInv, Shapes, ReadsFound
<1>8. AnswerIsWhole'
  BY <1>2, <1>3 DEF CatalogInv, AnswerIsWhole, NotFound
<1> QED BY <1>5, <1>6, <1>7, <1>8 DEF CatalogInv

LEMMA ReadItemsKeeps == ASSUME CatalogInv, NEW p \in Procs, ReadItems(p) PROVE CatalogInv'
<1>1. pc[p] = "up" /\ Complete(catalog) /\ reading[p] \in Orders
  BY DEF CatalogInv, CompleteOnceUp, ReadsFound, ReadItems
<1>2. UNCHANGED <<exists, catalog, lock, work, pc, next>>
  BY DEF ReadItems
<1>3. Shapes' /\ KnownKeys'
  BY <1>2 DEF CatalogInv, Shapes, KnownKeys, ReadItems
<1>4. HolderSeeds' /\ WorkExtends' /\ TablesMade' /\ CompleteOnceUp'
  BY <1>2 DEF CatalogInv, HolderSeeds, WorkExtends, TablesMade, CompleteOnceUp, Complete
<1>5. ReadsFound'
  BY <1>2 DEF CatalogInv, Shapes, ReadsFound, ReadItems
<1>6. /\ {l \in Lines : l[1] = reading[p]} \subseteq Join(reading[p])
      /\ Join(reading[p]) \subseteq {reading[p]} \X Products
  BY <1>1, CompleteReadsAreWhole DEF CatalogInv
<1>7. AnswerIsWhole'
  BY <1>6 DEF AnswerIsWhole, ReadItems
<1> QED BY <1>3, <1>4, <1>5, <1>7 DEF CatalogInv

LEMMA CatalogStepKeeps == CatalogInv /\ [CatalogNext]_catalogVars => CatalogInv'
<1> SUFFICES ASSUME CatalogInv, [CatalogNext]_catalogVars PROVE CatalogInv'
  OBVIOUS
<1>1. CASE CatalogNext
  <2>1. PICK p \in Procs : \/ Boot(p) \/ CreateTable(p) \/ Insert(p) \/ Commit(p) \/ Locked(p)
                           \/ Crash(p) \/ ReadOrder(p) \/ ReadItems(p)
    BY <1>1 DEF CatalogNext
  <2> QED BY <2>1, BootKeeps, CreateTableKeeps, InsertKeeps, CommitKeeps, LockedKeeps,
             CrashKeeps, ReadOrderKeeps, ReadItemsKeeps
<1>2. CASE UNCHANGED catalogVars
  <2>1. Shapes' /\ KnownKeys' /\ HolderSeeds' /\ WorkExtends'
    BY <1>2 DEF catalogVars, CatalogInv, Shapes, KnownKeys, HolderSeeds, WorkExtends
  <2>2. TablesMade' /\ CompleteOnceUp' /\ ReadsFound' /\ AnswerIsWhole'
    BY <1>2 DEF catalogVars, CatalogInv, TablesMade, CompleteOnceUp, Complete, ReadsFound, AnswerIsWhole
  <2> QED BY <2>1, <2>2 DEF CatalogInv
<1> QED BY <1>1, <1>2

LEMMA CatalogInvariance == CatalogSpec => []CatalogInv
BY CatalogInitHolds, CatalogStepKeeps, PTL DEF CatalogSpec

-----------------------------------------------------------------------------
(* The theorems *)

LEMMA CatalogTyped == CatalogInv => CatalogTypeOK
BY DEF CatalogInv, Shapes, KnownKeys, HolderSeeds, WorkExtends, CatalogTypeOK, NoRows, TableSet

\* The lock's holder owns the open transaction, for every number of processes
\* (db.py:92-100, seed.py:66-82).
THEOREM CatalogTypeCorrectness == CatalogSpec => []CatalogTypeOK
BY CatalogTyped, CatalogInvariance, PTL

\* Whatever file it booted on, whoever crashed over it and however many boot at once,
\* a process that serves has the whole fixture (main.py:30-32, db.py:92-100).
THEOREM ServesComplete == CatalogSpec => []UpMeansComplete
<1>1. CatalogInv => UpMeansComplete
  BY DEF CatalogInv, TablesMade, CompleteOnceUp, UpMeansComplete
<1> QED BY CatalogInvariance, <1>1, PTL

\* An order of the fixture is found with all its lines, for every fixture
\* (catalog.py:25-53).
THEOREM LookupsAreWhole == CatalogSpec => []AnswerIsWhole
<1>1. CatalogInv => AnswerIsWhole
  BY DEF CatalogInv
<1> QED BY CatalogInvariance, <1>1, PTL

\* A step changes the catalog only into a complete one that has every row it had,
\* unchanged (seed.py:66-82).
THEOREM SeedingIsSafe == CatalogSpec => SeedingKeepsAndCompletes
<1>1. ASSUME CatalogInv, [CatalogNext]_catalogVars
      PROVE  catalog' # catalog => Complete(catalog') /\ RowsKept
  <2>1. CASE \E p \in Procs : Commit(p)
    BY <1>1, <2>1, CommitCompletes
  <2>2. CASE ~ \E p \in Procs : Commit(p)
    <3>1. catalog' = catalog
      BY <1>1, <2>2 DEF CatalogNext, catalogVars, Boot, CreateTable, Insert, Locked, Crash,
                        ReadOrder, ReadItems
    <3> QED BY <3>1
  <2> QED BY <2>1, <2>2
<1>2. CatalogInv /\ [CatalogNext]_catalogVars =>
        [catalog' # catalog => Complete(catalog') /\ RowsKept]_catalogVars
  BY <1>1
<1> QED BY CatalogInvariance, <1>2, PTL DEF CatalogSpec, SeedingKeepsAndCompletes

-----------------------------------------------------------------------------
(* Tracing *)

Roots   == {RootRunName, "LangGraph"}
AllRuns == UNION {RunTree(root) : root \in Roots}

\* Where a key comes from: LANGSMITH_API_KEY is the deployment's, or the one the
\* settings hold, which are the deployment's LANGCHAIN_API_KEY if there is one.
\* Where the switch comes from: a set one is what the settings were read from, or
\* what they were exported as, and it is set once they were.
KeySources ==
  /\ DOMAIN env = Vars
  /\ {env["LANGCHAIN_TRACING_V2"], env["LANGSMITH_TRACING"]} \subseteq {"unset", "true", "false"}
  /\ env["LANGCHAIN_TRACING_V2"] = "false" => ~ TracingEnabled
  /\ env["LANGCHAIN_TRACING_V2"] = "true" => settings.tracing = "true"
  /\ booted # "no" => env["LANGCHAIN_TRACING_V2"] # "unset"
  /\ settings.key \in {"unset", "deployed", "local", Placeholder}
  /\ env["LANGCHAIN_API_KEY"] = "deployed" => settings.key = "deployed"
  /\ \/ env["LANGSMITH_API_KEY"] \in {"unset", "deployed"}
     \/ env["LANGSMITH_API_KEY"] = settings.key /\ settings.key # Placeholder

\* A case is traced while its graph runs, if tracing is on, and its handle names
\* what was collected.
CaseTraced ==
  /\ runs \in SUBSET AllRuns /\ traced \in Seq(AllRuns)
  /\ invocation \in {"idle", "running", "ended"}
  /\ invocation # "idle" => booted = "compiled"
  /\ traced # <<>> => invocation # "idle" /\ TracingEnabled
  /\ collector = "on" => TracingEnabled
  /\ handle # NoHandle => /\ traced # <<>> /\ invocation = "ended"
                          /\ handle.run = SelectRoot(traced) /\ handle.url \in {"client", "constructed"}

TracingInv == KeySources /\ CaseTraced

-----------------------------------------------------------------------------
(* The root *)

\* Of the runs the SDK opens for a case, the named one has no parent, and one
\* without a parent is a chain.
LEMMA RootRuns ==
  ASSUME NEW run \in AllRuns
  PROVE  /\ run.name = RootRunName => run.parent = "none"
         /\ run.parent = "none" => run.type = "chain"
BY DEF AllRuns, Roots, RunTree, Run, RootRunName

\* The selected run was collected, and is the invocation if that was.
LEMMA RootIsTheInvocation ==
  ASSUME NEW ended \in Seq(AllRuns), ended # <<>>
  PROVE  /\ \E k \in DOMAIN ended : SelectRoot(ended) = <<ended[k]>>
         /\ (\E k \in DOMAIN ended : ended[k].parent = "none") => SelectRoot(ended)[1].parent = "none"
<1> DEFINE n == Len(ended)
           named  == {k \in DOMAIN ended : ended[k].name = RootRunName}
           chains == {k \in DOMAIN ended : ended[k].type = "chain" /\ ended[k].parent = "none"}
<1>1. n \in Nat /\ DOMAIN ended = 1..n /\ n \in DOMAIN ended
  OBVIOUS
<1>2. \A k \in DOMAIN ended : ended[k] \in AllRuns
  OBVIOUS
<1>3. named \in SUBSET (1..n) /\ chains \in SUBSET (1..n)
  BY <1>1
<1>4. CASE named # {}
  <2>1. Min(named) \in named
    <3> HIDE DEF named, n
    <3>1. \E x \in named : \A y \in named : x <= y
      BY <1>1, <1>3, <1>4, LeastNatural
    <3> QED  BY <3>1 DEF Min
  <2>2. SelectRoot(ended) = <<ended[Min(named)]>>
    BY <1>4 DEF SelectRoot
  <2>3. PICK k \in DOMAIN ended : k = Min(named) /\ ended[k].name = RootRunName
    BY <2>1
  <2>4. ended[k].parent = "none"
    BY <1>2, <2>3, RootRuns
  <2>5. SelectRoot(ended) = <<ended[k]>>
    BY <2>2, <2>3
  <2> QED  BY <2>4, <2>5
<1>5. CASE named = {} /\ chains # {}
  <2>1. Max(chains) \in chains
    <3> HIDE DEF chains, n
    <3>1. \E x \in chains : \A y \in chains : x >= y
      BY <1>1, <1>3, <1>5, GreatestIndex
    <3> QED  BY <3>1 DEF Max
  <2>2. SelectRoot(ended) = <<ended[Max(chains)]>>
    BY <1>5 DEF SelectRoot
  <2>3. PICK k \in DOMAIN ended : k = Max(chains) /\ ended[k].parent = "none"
    BY <2>1
  <2>4. ended[k].parent = "none" /\ SelectRoot(ended) = <<ended[k]>>
    BY <2>2, <2>3
  <2>5. SelectRoot(ended)[1] = ended[k]
    BY <2>4
  <2> HIDE DEF named, chains, n
  <2> QED  BY <2>4, <2>5
<1>6. CASE named = {} /\ chains = {}
  <2>1. SelectRoot(ended) = <<ended[n]>>
    BY <1>6 DEF SelectRoot
  <2>2. \A k \in DOMAIN ended : ended[k].parent # "none"
    BY <1>2, <1>6, RootRuns
  <2> QED  BY <1>1, <2>1, <2>2
<1> QED  BY <1>4, <1>5, <1>6

-----------------------------------------------------------------------------
(* The invariant holds *)

LEMMA TracingInitHolds == TracingInit => TracingInv
<1> SUFFICES ASSUME TracingInit PROVE TracingInv
  OBVIOUS
<1> USE DEF TracingInit
<1>1. KeySources
  <2>1. DOMAIN env = Vars /\ settings = LoadSettings(env, dotenv)
    OBVIOUS
  <2>2. /\ env["LANGCHAIN_TRACING_V2"] \in {"unset", "true", "false"}
        /\ env["LANGSMITH_TRACING"] \in {"unset", "true", "false"}
        /\ env["LANGCHAIN_API_KEY"] \in {"unset", "deployed", Placeholder}
        /\ env["LANGSMITH_API_KEY"] \in {"unset", "deployed"}
    BY DEF Vars
  <2>3. /\ settings.key \in {"unset", "deployed", "local", Placeholder}
        /\ env["LANGCHAIN_API_KEY"] = "deployed" => settings.key = "deployed"
        /\ env["LANGCHAIN_TRACING_V2"] # "unset" => settings.tracing = env["LANGCHAIN_TRACING_V2"]
    BY <2>1, <2>2 DEF LoadSettings
  <2> HIDE DEF TracingInit
  <2>4. booted = "no"
    BY DEF TracingInit
  <2> QED  BY <2>1, <2>2, <2>3, <2>4 DEF KeySources, TracingEnabled
<1>2. CaseTraced
  BY DEF CaseTraced
<1> QED  BY <1>1, <1>2 DEF TracingInv

\* Exporting the settings never replaces what the deployment has set.
LEMMA KeysKept ==
  ASSUME KeySources, settings' = settings, ConfigureTracing \/ env' = env,
         booted' # booted => ConfigureTracing
  PROVE  KeySources'
<1>1. CASE ConfigureTracing /\ TracingEnabled
  <2> DEFINE value(var) == IF var \in {"LANGCHAIN_TRACING_V2", "LANGSMITH_TRACING"}
                           THEN "true" ELSE settings.key
  <2>1. DOMAIN env' = Vars /\ \A var \in Vars : env'[var] = IF env[var] = "unset" THEN value(var) ELSE env[var]
    BY <1>1 DEF ConfigureTracing, SetDefault
  <2>2. settings.key \notin {"unset", Placeholder}
    BY <1>1 DEF TracingEnabled
  <2>3. value("LANGCHAIN_API_KEY") = settings.key /\ value("LANGSMITH_API_KEY") = settings.key
        /\ value("LANGCHAIN_TRACING_V2") = "true" /\ value("LANGSMITH_TRACING") = "true"
    OBVIOUS
  <2>4. settings.tracing = "true"
    BY <1>1 DEF TracingEnabled
  <2> HIDE DEF value
  <2>5. /\ env'["LANGCHAIN_TRACING_V2"] \in {"true", "false"}
        /\ env'["LANGSMITH_TRACING"] \in {"unset", "true", "false"}
        /\ env'["LANGCHAIN_TRACING_V2"] = "false" => env["LANGCHAIN_TRACING_V2"] = "false"
    BY <2>1, <2>3 DEF KeySources, Vars
  <2>6. env["LANGCHAIN_TRACING_V2"] # "false"
    BY <1>1 DEF KeySources
  <2>7. /\ env'["LANGCHAIN_API_KEY"] = "deployed" => settings.key = "deployed"
        /\ \/ env'["LANGSMITH_API_KEY"] \in {"unset", "deployed"}
           \/ env'["LANGSMITH_API_KEY"] = settings.key
    BY <2>1, <2>3 DEF KeySources, Vars
  <2> QED  BY <2>1, <2>2, <2>4, <2>5, <2>6, <2>7 DEF KeySources
<1>2. CASE ConfigureTracing /\ ~TracingEnabled
  <2>1. env' = [env EXCEPT !["LANGCHAIN_TRACING_V2"] = SetDefault("LANGCHAIN_TRACING_V2", "false")]
    BY <1>2 DEF ConfigureTracing
  <2>2. /\ SetDefault("LANGCHAIN_TRACING_V2", "false") \in {"true", "false"}
        /\ SetDefault("LANGCHAIN_TRACING_V2", "false") = "true" => env["LANGCHAIN_TRACING_V2"] = "true"
    BY DEF SetDefault, KeySources
  <2>3. ~TracingEnabled'
    BY <1>2 DEF TracingEnabled
  <2>4. DOMAIN env' = Vars /\ \A var \in Vars :
          env'[var] = IF var = "LANGCHAIN_TRACING_V2" THEN SetDefault(var, "false") ELSE env[var]
    BY <2>1 DEF KeySources
  <2> HIDE DEF SetDefault
  <2> QED  BY <2>2, <2>3, <2>4 DEF KeySources, Vars
<1>3. CASE ~ConfigureTracing /\ env' = env
  <2>1. TracingEnabled' = TracingEnabled
    BY DEF TracingEnabled
  <2> QED  BY <1>3, <2>1 DEF KeySources
<1> QED  BY <1>1, <1>2, <1>3

\* One step of the process, of the SDK or of the case.
LEMMA TracingStepKeeps == TracingInv /\ [TracingNext]_tracingVars => TracingInv'
<1> SUFFICES ASSUME TracingInv, [TracingNext]_tracingVars PROVE TracingInv'
  OBVIOUS
<1>1. settings' = settings
  BY DEF Lifespan, CompileGraph, EnterTrace, Invoke, RunEnds, GraphEnds, ExitTrace,
         TracingNext, tracingVars
<1>2. TracingEnabled' = TracingEnabled
  BY <1>1 DEF TracingEnabled
<1>3. KeySources'
  <2>1. ConfigureTracing \/ env' = env
    BY DEF Lifespan, CompileGraph, EnterTrace, Invoke, RunEnds, GraphEnds, ExitTrace,
           TracingNext, tracingVars
  <2>2. booted' # booted => ConfigureTracing
    BY DEF Lifespan, CompileGraph, EnterTrace, Invoke, RunEnds, GraphEnds, ExitTrace,
           TracingNext, tracingVars
  <2> QED  BY <1>1, <2>1, <2>2, KeysKept DEF TracingInv
<1>4. CaseTraced'
  <2>1. CASE Lifespan \/ CompileGraph
    BY <1>2, <2>1 DEF TracingInv, CaseTraced, Lifespan, CompileGraph
  <2>2. CASE EnterTrace
    BY <1>2, <2>2 DEF TracingInv, CaseTraced, EnterTrace
  <2>3. CASE Invoke
    BY <1>2, <2>3 DEF TracingInv, CaseTraced, Invoke, AllRuns, Roots
  <2>4. CASE RunEnds
    <3>1. PICK run \in runs :
            /\ runs' = runs \ {run}
            /\ traced' = traced \/ (collector = "on" /\ traced' = Append(traced, run))
      BY <2>4 DEF RunEnds
    <3>2. traced' \in Seq(AllRuns) /\ (traced' # <<>> => traced # <<>> \/ collector = "on")
      BY <3>1 DEF TracingInv, CaseTraced
    <3> QED  BY <1>2, <2>4, <3>1, <3>2 DEF TracingInv, CaseTraced, RunEnds
  <2>5. CASE GraphEnds
    BY <1>2, <2>5 DEF TracingInv, CaseTraced, GraphEnds
  <2>6. CASE ExitTrace
    <3>1. \/ handle' = handle
          \/ traced # <<>> /\ \E client \in {"ok", "raises"} :
               handle' = [run |-> SelectRoot(traced), url |-> UrlForRun(SelectRoot(traced), client)]
      BY <2>6 DEF ExitTrace
    <3>2. handle' # NoHandle =>
            /\ traced # <<>>
            /\ handle'.run = SelectRoot(traced) /\ handle'.url \in {"client", "constructed"}
      BY <3>1 DEF TracingInv, CaseTraced, UrlForRun
    <3>3. /\ invocation = "ended" /\ collector' = "none"
          /\ traced' = traced /\ runs' = runs /\ invocation' = invocation /\ booted' = booted
      BY <2>6 DEF ExitTrace
    <3> QED  BY <1>2, <3>2, <3>3 DEF TracingInv, CaseTraced
  <2>7. CASE UNCHANGED tracingVars
    BY <1>2, <2>7 DEF TracingInv, CaseTraced, tracingVars
  <2> QED  BY <2>1, <2>2, <2>3, <2>4, <2>5, <2>6, <2>7 DEF TracingNext
<1> QED  BY <1>3, <1>4 DEF TracingInv

\* The invariant holds of every reachable state.
THEOREM TracingInvariance == TracingSpec => []TracingInv
BY TracingInitHolds, TracingStepKeeps, PTL DEF TracingSpec

-----------------------------------------------------------------------------
(* What it says *)

LEMMA TracingTyped == TracingInv => TracingTypeOK
<1> SUFFICES ASSUME TracingInv PROVE TracingTypeOK
  OBVIOUS
<1>1. ToSet(traced) \subseteq AllRuns
  BY DEF TracingInv, CaseTraced, ToSet
<1>2. handle.run # <<>> => handle.run[1] \in ToSet(traced)
  <2> SUFFICES ASSUME handle.run # <<>> PROVE handle.run[1] \in ToSet(traced)
    OBVIOUS
  <2>1. handle # NoHandle
    BY DEF NoHandle
  <2>2. \E k \in DOMAIN traced : handle.run = <<traced[k]>>
    BY <2>1, RootIsTheInvocation DEF TracingInv, CaseTraced
  <2> QED  BY <2>2 DEF ToSet
<1> QED  BY <1>1, <1>2 DEF TracingInv, CaseTraced, TracingTypeOK, AllRuns, Roots

\* Runs collected for a case are the SDK's, and the URL's run is one of them
\* (tracing.py:120-154).
THEOREM TracingTypeCorrectness == TracingSpec => []TracingTypeOK
BY TracingTyped, TracingInvariance, PTL

\* The key the SDK reads first is the deployment's, if it sets any, and never the
\* placeholder, for every environment and .env (tracing.py:31-61).
THEOREM SdkReadsTheDeploymentsKey == TracingSpec => []SdkKeyIsTheDeployments
<1>1. TracingInv => SdkKeyIsTheDeployments
  BY DEF TracingInv, KeySources, SdkKeyIsTheDeployments, Vars, Placeholder
<1> QED  BY <1>1, TracingInvariance, PTL

\* In whatever order runs end, and however few of them the collector keeps, the
\* URL is of the invocation if that was collected (tracing.py:68-107).
THEOREM TraceIsAlwaysTheCases == TracingSpec => []TraceIsTheCases
<1>1. TracingInv => TraceIsTheCases
  BY RootIsTheInvocation DEF TracingInv, CaseTraced, TraceIsTheCases
<1> QED  BY <1>1, TracingInvariance, PTL

\* The SDK traces when the API believes it does, and only when the switch pydantic
\* read says so, for every environment and .env (config.py:15-21, tracing.py:31-58).
THEOREM SdkAndApiAgree == TracingSpec => []SdkTracesWhenApiDoes
<1>1. TracingInv => SdkTracesWhenApiDoes
  BY DEF TracingInv, KeySources, SdkTracesWhenApiDoes
<1> QED  BY <1>1, TracingInvariance, PTL

-----------------------------------------------------------------------------
(* The three side by side *)

\* A server that is up and that nobody calls satisfies its invariant.
LEMMA ServerAtRest == ServerRest => ServerInv
<1> SUFFICES ASSUME ServerRest PROVE ServerInv
  OBVIOUS
<1>1. Types
  BY DEF ServerRest, Config, Types, Shape, NoCall, Kinds, Places, Replies
<1>2. QueueIsWaiting
  BY DEF ServerRest, QueueIsWaiting, NoCall
<1>3. \A c \in Calls : CallInv(c)
  BY DEF ServerRest, CallInv, NoCall
<1>4. CompilersInv
  BY DEF ServerRest, CompilersInv
<1>5. ThreadsInv
  <2>1. Busy = {} /\ Compilers = {}
    BY DEF ServerRest, Busy, Compilers, NoCall
  <2>2. IsFiniteSet({}) /\ Cardinality({}) = 0 /\ PoolSize \in Nat
    BY FS_EmptySet, ServerAssumption
  <2> QED  BY <2>1, <2>2 DEF ThreadsInv, ServerRest
<1> QED  BY <1>1, <1>2, <1>3, <1>4, <1>5 DEF ServerInv

\* Whichever part moves while the others rest, every part's state is of its types:
\* what the process keeps is known at every moment.
THEOREM ProcessTypeCorrectness == Spec => []TypeOK
<1> DEFINE All == ServerInv /\ CatalogInv /\ TracingInv
<1>1. Init => All
  <2>1. /\ ServerInit \/ ServerRest => ServerInv
        /\ CatalogInit => CatalogInv
        /\ TracingInit => TracingInv
    BY ServerInitHolds, ServerAtRest, CatalogInitHolds, TracingInitHolds
  <2> QED  BY <2>1 DEF Init, CatalogRest, TracingRest
<1>2. All /\ [Next]_<<part, serverVars, catalogVars, tracingVars>> => All'
  <2>1. [Next]_<<part, serverVars, catalogVars, tracingVars>> =>
          [ServerNext]_serverVars /\ [CatalogNext]_catalogVars /\ [TracingNext]_tracingVars
    BY DEF Next
  <2> QED  BY <2>1, ServerStepKeeps, CatalogStepKeeps, TracingStepKeeps
<1>3. All => TypeOK
  BY ServerTyped, CatalogTyped, TracingTyped DEF TypeOK
<1> HIDE DEF All
<1> QED  BY <1>1, <1>2, <1>3, PTL DEF Spec
=============================================================================
