------------------------ MODULE UsageAccountingProofs ------------------------
(***************************************************************************)
(* What UsageAccounting promises, for every set of requests, deployment,   *)
(* report and estimate: a case is billed for its own tokens at a price     *)
(* that is zero only for a local provider, and the running totals are      *)
(* ledgers: what is counted and what is still owed make up what the cases  *)
(* were billed and what their tickets store.                               *)
(***************************************************************************)
EXTENDS UsageAccounting, DataTheorems, FunctionTheorems, TLAPS

-----------------------------------------------------------------------------
(* The invariant *)

Labels == Accounted \cup {"idle", "refused", "graph", "account"}
SomeTokens == [prompt : Nat, completion : Nat]
Sources == {"none", "provider", "estimated"}

Types ==
  /\ pc        \in [Requests -> Labels]
  /\ collector \in [Requests -> [tokens : SomeTokens, calls : Nat]]
  /\ seen      \in [Requests -> Seq(Reports)]
  /\ made      \in [Requests -> Nat]
  /\ bill      \in [Requests -> [tokens : SomeTokens \cup Estimates, source : Sources, cost : Nat]]
  /\ stored    \in [Requests -> [done : BOOLEAN, cost : Nat]]
  /\ totals    \in [tokens : SomeTokens, cost : Nat, calls : Nat, provider : Nat, estimated : Nat]

\* The collector holds what the case's own calls reported, and is at rest once
\* the graph has returned.
Collected(r) ==
  /\ collector[r].tokens.prompt + collector[r].tokens.completion = Own(r)
  /\ pc[r] \in {"idle", "refused"} => made[r] = 0
  /\ pc[r] \in {"idle", "refused", "graph"} => made[r] = Len(seen[r])
  /\ made[r] \in {Len(seen[r]), Len(seen[r]) + 1}

\* There is no bill before the accounting; afterwards it is for the collected
\* tokens, or for an estimate of a case that reported none, at the price listed.
BilledRight(r) ==
  /\ pc[r] \in {"idle", "refused", "graph", "account"} => bill[r] = NoBill
  /\ bill[r].source = "none" => bill[r] = NoBill
  /\ bill[r].source = "provider" => Billed(r) = Own(r)
  /\ bill[r].source = "estimated" => Own(r) = 0 /\ bill[r].tokens \in Estimates
  /\ bill[r].cost = EstimateCost(bill[r].tokens.prompt, bill[r].tokens.completion)

\* The ticket stores the bill's cost, and nothing before it is written.
StoredRight(r) ==
  /\ pc[r] \in {"idle", "refused", "graph", "account", "persist"} => stored[r] = NotStored
  /\ pc[r] \in {"count_tokens", "count_cost"} => stored[r].cost = bill[r].cost

RequestOK(r) == Collected(r) /\ BilledRight(r) /\ StoredRight(r)

\* Those whose tokens the totals do not hold.
Uncounted == {r \in Requests : pc[r] \notin {"count_cost", "count_calls", "answered"}}

TokensLedger ==
  /\ Balanced(totals.tokens.prompt, BilledPrompts, Uncounted, Requests)
  /\ Balanced(totals.tokens.completion, BilledCompletions, Uncounted, Requests)

Unpaid == At({"count_tokens", "count_cost", "failed"})

CostLedger == Balanced(totals.cost, StoredCosts, Unpaid, Requests)

Inv == Types /\ (\A r \in Requests : RequestOK(r)) /\ TokensLedger /\ CostLedger

-----------------------------------------------------------------------------
(* Prices *)

Local == {"nvidia", "ollama"}

\* Every row of the table prices its key: zero for the local providers, which
\* serve their own models, above zero for everybody else.
LEMMA RowsOk ==
  \A row \in PriceRows :
    /\ row.price.prompt \in Nat /\ row.price.completion \in Nat
    /\ IF row.key[1] \in Local THEN row.price.prompt = 0 /\ row.price.completion = 0
       ELSE row.price.prompt > 0 /\ row.price.completion > 0
BY DEF PriceRows, Priced, Price, Local

\* The table is its rows, and it lists the default, and every local provider
\* for whatever model.
LEMMA TableOk ==
  /\ \A key \in DOMAIN PriceTable :
       /\ PriceTable[key].prompt \in Nat /\ PriceTable[key].completion \in Nat
       /\ IF key[1] \in Local THEN PriceTable[key].prompt = 0 /\ PriceTable[key].completion = 0
          ELSE PriceTable[key].prompt > 0 /\ PriceTable[key].completion > 0
  /\ {<<"openai", "gpt-4o-mini">>, <<"nvidia", "*">>, <<"ollama", "*">>} \subseteq DOMAIN PriceTable
<1>1. DOMAIN PriceTable = {row.key : row \in PriceRows}
  BY DEF PriceTable
<1>2. ASSUME NEW key \in DOMAIN PriceTable
      PROVE  \E row \in PriceRows : row.key = key /\ PriceTable[key] = row.price
  <2> DEFINE row == CHOOSE row \in PriceRows : row.key = key
  <2>1. row \in PriceRows /\ row.key = key
    BY <1>1
  <2>2. PriceTable[key] = row.price
    BY <1>1 DEF PriceTable
  <2> QED  BY <2>1, <2>2
<1>3. {Priced("openai", "gpt-4o-mini", 15, 60), Priced("nvidia", "*", 0, 0), Priced("ollama", "*", 0, 0)}
        \subseteq PriceRows
  BY DEF PriceRows
<1>4. \A p, m, x, y : Priced(p, m, x, y).key = <<p, m>>
  BY DEF Priced
<1> QED  BY <1>1, <1>2, <1>3, <1>4, RowsOk

\* Whatever the deployment, a price is found: zero for a local provider, and
\* above zero for any other.
LEMMA PriceForIsRight ==
  /\ PriceFor.prompt \in Nat /\ PriceFor.completion \in Nat
  /\ IF settings.provider \in Local THEN PriceFor.prompt = 0 /\ PriceFor.completion = 0
     ELSE PriceFor.prompt > 0 /\ PriceFor.completion > 0
<1>1. Exact[1] = settings.provider /\ Fallback[1] = settings.provider
  BY DEF Exact, Fallback
<1>2. CASE Exact \in DOMAIN PriceTable
  BY <1>1, <1>2, TableOk DEF PriceFor
<1>3. CASE Exact \notin DOMAIN PriceTable /\ Fallback \in DOMAIN PriceTable
  BY <1>1, <1>3, TableOk DEF PriceFor
<1>4. CASE Exact \notin DOMAIN PriceTable /\ Fallback \notin DOMAIN PriceTable
  <2>1. settings.provider \notin Local
    BY <1>4, TableOk DEF Fallback, Local
  <2>2. PriceFor = DefaultPrice
    BY <1>4 DEF PriceFor
  <2>3. <<"openai", "gpt-4o-mini">>[1] = "openai" /\ "openai" \notin Local
    BY DEF Local
  <2> QED  BY <2>1, <2>2, <2>3, TableOk DEF DefaultPrice
<1> QED  BY <1>2, <1>3, <1>4

\* Products of naturals: what a cost is made of.
LEMMA Products ==
  \A m, n \in Nat : /\ m * n \in Nat
                    /\ m * n = 0 <=> m = 0 \/ n = 0
OBVIOUS

LEMMA CostOfTokens ==
  ASSUME NEW p \in Nat, NEW c \in Nat
  PROVE  /\ EstimateCost(p, c) \in Nat
         /\ p + c > 0 => (EstimateCost(p, c) = 0 <=> settings.provider \in Local)
<1> DEFINE pp == PriceFor.prompt
           pc2 == PriceFor.completion
           x == p * pp
           y == c * pc2
<1>1. pp \in Nat /\ pc2 \in Nat
  BY PriceForIsRight
<1>2. x \in Nat /\ y \in Nat /\ (x = 0 <=> p = 0 \/ pp = 0) /\ (y = 0 <=> c = 0 \/ pc2 = 0)
  BY <1>1, Products
<1>3. EstimateCost(p, c) = x + y
  BY DEF EstimateCost
<1>4. IF settings.provider \in Local THEN pp = 0 /\ pc2 = 0 ELSE pp > 0 /\ pc2 > 0
  BY PriceForIsRight
<1> HIDE DEF pp, pc2, x, y
<1> QED  BY <1>1, <1>2, <1>3, <1>4

-----------------------------------------------------------------------------
(* Reports *)

\* Of each report the collector takes what one of its two shapes says.
LEMMA ExtractIsUsed ==
  ASSUME NEW report \in Reports
  PROVE  /\ Extract(report) \in SomeTokens
         /\ Extract(report).prompt + Extract(report).completion = UsedBy(report)
         /\ UsedBy(report) \in Nat
<1>1. report.modern \in Shapes /\ report.legacy \in Shapes
  BY UsageAssumption
<1>2. /\ report.modern.prompt \in Nat /\ report.modern.completion \in Nat
      /\ report.legacy.prompt \in Nat /\ report.legacy.completion \in Nat
      /\ report.modern.status = "broken" => report.modern.prompt + report.modern.completion = 0
  BY <1>1 DEF Shapes
<1> QED  BY <1>2 DEF Extract, UsedBy, Used, SomeTokens, Tokens, NoTokens

\* What a sequence of reports used.
UsedIn(s) == SumFunction([i \in DOMAIN s |-> UsedBy(s[i])])

LEMMA UsedInEmpty == UsedIn(<<>>) = 0
<1>1. DOMAIN [i \in DOMAIN <<>> |-> UsedBy((<<>>)[i])] = {}
  OBVIOUS
<1> QED  BY <1>1, SumEmpty DEF UsedIn, SumFunction

LEMMA UsedInAppend ==
  ASSUME NEW s \in Seq(Reports), NEW report \in Reports
  PROVE  UsedIn(Append(s, report)) = UsedIn(s) + UsedBy(report) /\ UsedIn(s) \in Nat
<1> DEFINE n == Len(s)
           f == [i \in DOMAIN s |-> UsedBy(s[i])]
           t == Append(s, report)
           g == [i \in DOMAIN t |-> UsedBy(t[i])]
<1>1. n \in Nat /\ DOMAIN f = 1..n /\ DOMAIN g = 1..(n + 1) /\ g[n + 1] = UsedBy(report)
  OBVIOUS
<1>2. \A i \in 1..n : f[i] \in Nat /\ f[i] = g[i]
  <2> SUFFICES ASSUME NEW i \in 1..n PROVE f[i] \in Nat /\ f[i] = g[i]
    OBVIOUS
  <2>1. s[i] \in Reports /\ t[i] = s[i] /\ i \in DOMAIN s /\ i \in DOMAIN t
    OBVIOUS
  <2> QED  BY <2>1, ExtractIsUsed
<1>3. \A i \in 1..(n + 1) : g[i] \in Nat
  BY <1>1, <1>2, ExtractIsUsed
<1>4. UsedIn(t) = SumFunctionOnSet(g, 1..(n + 1)) /\ UsedIn(s) = SumFunctionOnSet(f, 1..n)
  BY <1>1 DEF UsedIn, SumFunction
<1>5. IsFiniteSet(1..n)
  BY <1>1, FS_Interval
<1> HIDE DEF f, g, n
<1>6. SumFunctionOnSet(g, 1..(n + 1)) = g[n + 1] + SumFunctionOnSet(g, 1..n)
  BY <1>1, <1>3, SumAppend
<1>7. SumFunctionOnSet(f, 1..n) = SumFunctionOnSet(g, 1..n) /\ SumFunctionOnSet(f, 1..n) \in Nat
  BY <1>2, <1>5, SumSame, SumIsNat
<1>8. UsedBy(report) \in Nat
  BY ExtractIsUsed
<1> QED  BY <1>1, <1>4, <1>6, <1>7, <1>8

LEMMA OwnIsUsedIn == \A r : Own(r) = UsedIn(seen[r])
BY DEF Own, UsedIn

-----------------------------------------------------------------------------
(* Ledgers *)

\* What the request r still owes the totals, and what it makes up of the sums.
OwesCost(r) == IF pc[r] \in {"count_tokens", "count_cost", "failed"} THEN stored[r].cost ELSE 0
Counted(r) == pc[r] \in {"count_cost", "count_calls", "answered"}
OwesPrompt(r) == IF Counted(r) THEN 0 ELSE bill[r].tokens.prompt
OwesCompletion(r) == IF Counted(r) THEN 0 ELSE bill[r].tokens.completion

\* A step of one request.
OnlyMoves(r) ==
  \A q \in Requests \ {r} : pc'[q] = pc[q] /\ bill'[q] = bill[q] /\ stored'[q] = stored[q]

\* The ledgers are of naturals.
Tallies ==
  /\ \A q \in Requests : /\ stored[q].cost \in Nat /\ StoredCosts[q] = stored[q].cost
                         /\ bill[q].tokens.prompt \in Nat
                         /\ BilledPrompts[q] = bill[q].tokens.prompt
                         /\ bill[q].tokens.completion \in Nat
                         /\ BilledCompletions[q] = bill[q].tokens.completion
  /\ totals.cost \in Nat /\ totals.tokens.prompt \in Nat /\ totals.tokens.completion \in Nat

LEMMA TalliesAreNat == Types => Tallies
<1> SUFFICES ASSUME Types PROVE Tallies
  OBVIOUS
<1>1. \A q \in Requests : stored[q] \in [done : BOOLEAN, cost : Nat]
                          /\ bill[q].tokens \in SomeTokens \cup Estimates
  BY DEF Types
<1>2. \A t \in SomeTokens \cup Estimates : t.prompt \in Nat /\ t.completion \in Nat
  BY UsageAssumption DEF SomeTokens
<1>3. /\ totals.cost \in Nat /\ totals.tokens \in SomeTokens
      /\ totals.tokens.prompt \in Nat /\ totals.tokens.completion \in Nat
  BY DEF Types, SomeTokens
<1> QED  BY <1>1, <1>2, <1>3 DEF Tallies, StoredCosts, BilledPrompts, BilledCompletions

\* A step that changes a total by what its request owes less, or is billed
\* more, keeps the ledgers.
LEMMA CostLedgerKept ==
  ASSUME Types, Types', NEW r \in Requests, OnlyMoves(r), CostLedger,
         totals'.cost + stored[r].cost + OwesCost(r)' = totals.cost + stored'[r].cost + OwesCost(r)
  PROVE  CostLedger'
<1> DEFINE f == StoredCosts
           f2 == StoredCosts'
           U == Unpaid
           U2 == Unpaid'
<1>0. Tallies /\ Tallies'
  BY TalliesAreNat, PTL
<1>1. /\ \A q \in Requests : f[q] \in Nat /\ f[q] = stored[q].cost
      /\ totals.cost \in Nat
  BY <1>0 DEF Tallies
<1>2. /\ \A q \in Requests : f2[q] \in Nat /\ f2[q] = stored'[q].cost
      /\ totals'.cost \in Nat
  BY <1>0 DEF Tallies
<1>3. \A q \in Requests \ {r} : f[q] = f2[q]
  BY <1>1, <1>2 DEF OnlyMoves
<1>4. U \in SUBSET Requests /\ U2 \in SUBSET Requests /\ U \ {r} = U2 \ {r}
  BY DEF Unpaid, At, OnlyMoves
<1>5. Share(f, U, r) = OwesCost(r) /\ Share(f2, U2, r) = OwesCost(r)'
  BY <1>1, <1>2 DEF Share, OwesCost, Unpaid, At
<1>6. Balanced(totals.cost, f, U, Requests)
  BY DEF CostLedger
<1> HIDE DEF f, f2, U, U2
<1>7. totals'.cost + f[r] + Share(f2, U2, r) = totals.cost + f2[r] + Share(f, U, r)
  BY <1>1, <1>2, <1>5
<1>8. Balanced(totals'.cost, f2, U2, Requests)
  BY <1>1, <1>2, <1>3, <1>4, <1>6, <1>7, LedgerStep, UsageAssumption
<1> QED  BY <1>8 DEF CostLedger, f2, U2

LEMMA TokensLedgerKept ==
  ASSUME Types, Types', NEW r \in Requests, OnlyMoves(r), TokensLedger,
         totals'.tokens.prompt + bill[r].tokens.prompt + OwesPrompt(r)'
           = totals.tokens.prompt + bill'[r].tokens.prompt + OwesPrompt(r),
         totals'.tokens.completion + bill[r].tokens.completion + OwesCompletion(r)'
           = totals.tokens.completion + bill'[r].tokens.completion + OwesCompletion(r)
  PROVE  TokensLedger'
<1> DEFINE f == BilledPrompts
           f2 == BilledPrompts'
           g == BilledCompletions
           g2 == BilledCompletions'
           U == Uncounted
           U2 == Uncounted'
<1>0. Tallies /\ Tallies'
  BY TalliesAreNat, PTL
<1>1. /\ \A q \in Requests : f[q] \in Nat /\ f[q] = bill[q].tokens.prompt
      /\ \A q \in Requests : g[q] \in Nat /\ g[q] = bill[q].tokens.completion
      /\ totals.tokens.prompt \in Nat /\ totals.tokens.completion \in Nat
  BY <1>0 DEF Tallies
<1>2. /\ \A q \in Requests : f2[q] \in Nat /\ f2[q] = bill'[q].tokens.prompt
      /\ \A q \in Requests : g2[q] \in Nat /\ g2[q] = bill'[q].tokens.completion
      /\ totals'.tokens.prompt \in Nat /\ totals'.tokens.completion \in Nat
  BY <1>0 DEF Tallies
<1>3. \A q \in Requests \ {r} : f[q] = f2[q] /\ g[q] = g2[q]
  BY <1>1, <1>2 DEF OnlyMoves
<1>4. U \in SUBSET Requests /\ U2 \in SUBSET Requests /\ U \ {r} = U2 \ {r}
  BY DEF Uncounted, OnlyMoves
<1>5. /\ Share(f, U, r) = OwesPrompt(r) /\ Share(f2, U2, r) = OwesPrompt(r)'
      /\ Share(g, U, r) = OwesCompletion(r) /\ Share(g2, U2, r) = OwesCompletion(r)'
  BY <1>1, <1>2 DEF Share, OwesPrompt, OwesCompletion, Counted, Uncounted
<1>6. /\ Balanced(totals.tokens.prompt, f, U, Requests)
      /\ Balanced(totals.tokens.completion, g, U, Requests)
  BY DEF TokensLedger
<1> HIDE DEF f, f2, g, g2, U, U2
<1>7. /\ totals'.tokens.prompt + f[r] + Share(f2, U2, r) = totals.tokens.prompt + f2[r] + Share(f, U, r)
      /\ totals'.tokens.completion + g[r] + Share(g2, U2, r)
           = totals.tokens.completion + g2[r] + Share(g, U, r)
  BY <1>1, <1>2, <1>5
<1>8. Balanced(totals'.tokens.prompt, f2, U2, Requests)
  <2> DEFINE t == totals.tokens.prompt
             t2 == totals'.tokens.prompt
  <2>1. /\ \A q \in Requests : f[q] \in Nat /\ f2[q] \in Nat
        /\ \A q \in Requests \ {r} : f[q] = f2[q]
        /\ t \in Nat /\ t2 \in Nat
    BY <1>1, <1>2, <1>3
  <2>2. t2 + f[r] + Share(f2, U2, r) = t + f2[r] + Share(f, U, r)
    BY <1>7
  <2>3. Balanced(t, f, U, Requests)
    BY <1>6
  <2> HIDE DEF t, t2
  <2>4. Balanced(t2, f2, U2, Requests)
    BY <1>4, <2>1, <2>2, <2>3, LedgerStep, UsageAssumption
  <2> QED  BY <2>4 DEF t2
<1>9. Balanced(totals'.tokens.completion, g2, U2, Requests)
  <2> DEFINE t == totals.tokens.completion
             t2 == totals'.tokens.completion
  <2>1. /\ \A q \in Requests : g[q] \in Nat /\ g2[q] \in Nat
        /\ \A q \in Requests \ {r} : g[q] = g2[q]
        /\ t \in Nat /\ t2 \in Nat
    BY <1>1, <1>2, <1>3
  <2>2. t2 + g[r] + Share(g2, U2, r) = t + g2[r] + Share(g, U, r)
    BY <1>7
  <2>3. Balanced(t, g, U, Requests)
    BY <1>6
  <2> HIDE DEF t, t2
  <2>4. Balanced(t2, g2, U2, Requests)
    BY <1>4, <2>1, <2>2, <2>3, LedgerStep, UsageAssumption
  <2> QED  BY <2>4 DEF t2
<1> QED  BY <1>8, <1>9 DEF TokensLedger, f2, g2, U2

-----------------------------------------------------------------------------
(* The invariant holds *)

LEMMA InitHolds == UsageInit => Inv
<1> SUFFICES ASSUME UsageInit PROVE Inv
  OBVIOUS
<1> USE DEF UsageInit
<1>1. Types
  BY DEF Types, Labels, SomeTokens, Sources, NewCollector, NoBill, NotStored, NoTokens, Tokens
<1>2. ASSUME NEW r \in Requests
      PROVE  RequestOK(r)
  <2>1. Own(r) = 0
    BY OwnIsUsedIn, UsedInEmpty
  <2>2. Len(<<>>) = 0
    OBVIOUS
  <2>3. Collected(r)
    BY <2>1, <2>2 DEF Collected, NewCollector, NoTokens, Tokens
  <2>4. EstimateCost(0, 0) = 0
    <3>1. 0 * PriceFor.prompt = 0 /\ 0 * PriceFor.completion = 0
      BY PriceForIsRight, Products
    <3> QED  BY <3>1 DEF EstimateCost
  <2>5. BilledRight(r) /\ StoredRight(r)
    BY <2>4 DEF BilledRight, StoredRight, NoBill, NoTokens, Tokens
  <2> QED  BY <2>3, <2>5 DEF RequestOK
<1>3. TokensLedger
  <2>1. Uncounted = Requests /\ totals.tokens.prompt = 0 /\ totals.tokens.completion = 0
    BY DEF Uncounted, NoTokens, Tokens
  <2>2. \A r \in Requests : BilledPrompts[r] \in Nat /\ BilledCompletions[r] \in Nat
    BY <1>1, TalliesAreNat DEF Tallies
  <2>3. /\ SumFunctionOnSet(BilledPrompts, Requests) \in Nat
        /\ SumFunctionOnSet(BilledCompletions, Requests) \in Nat
    BY <2>2, SumIsNat, UsageAssumption
  <2> QED  BY <2>1, <2>3 DEF TokensLedger, Balanced
<1>4. CostLedger
  <2> DEFINE none == [r \in Requests |-> 0]
  <2>1. Unpaid = {} /\ totals.cost = 0 /\ StoredCosts = none
    BY DEF Unpaid, At, StoredCosts, NotStored
  <2>2. SumFunctionOnSet(none, {}) = 0
    BY SumEmpty
  <2>3. SumFunctionOnSet(none, Requests) = 0
    BY SumOfZeros, UsageAssumption
  <2> HIDE DEF none
  <2> QED  BY <2>1, <2>2, <2>3 DEF CostLedger, Balanced
<1> QED  BY <1>1, <1>2, <1>3, <1>4 DEF Inv

\* What a step of r has to show: it leaves the others alone, keeps its own
\* state right, and moves the totals by what it owes less or is billed more.
KeepsOthers(r) ==
  /\ settings' = settings
  /\ OnlyMoves(r)
  /\ \A q \in Requests \ {r} :
       collector'[q] = collector[q] /\ seen'[q] = seen[q] /\ made'[q] = made[q]

PaysCost(r) == totals'.cost + stored[r].cost + OwesCost(r)' = totals.cost + stored'[r].cost + OwesCost(r)

PaysTokens(r) ==
  /\ totals'.tokens.prompt + bill[r].tokens.prompt + OwesPrompt(r)'
       = totals.tokens.prompt + bill'[r].tokens.prompt + OwesPrompt(r)
  /\ totals'.tokens.completion + bill[r].tokens.completion + OwesCompletion(r)'
       = totals.tokens.completion + bill'[r].tokens.completion + OwesCompletion(r)

\* The price does not change, and another's step is not seen in one's own state.
LEMMA SamePrice == settings' = settings => PriceFor' = PriceFor
BY DEF PriceFor, Exact, Fallback

LEMMA OthersKept ==
  ASSUME NEW r \in Requests, KeepsOthers(r), NEW q \in Requests \ {r}, RequestOK(q)
  PROVE  RequestOK(q)'
<1>1. /\ pc'[q] = pc[q] /\ bill'[q] = bill[q] /\ stored'[q] = stored[q]
      /\ collector'[q] = collector[q] /\ seen'[q] = seen[q] /\ made'[q] = made[q]
      /\ PriceFor' = PriceFor
  BY SamePrice DEF KeepsOthers, OnlyMoves
<1>2. Own(q)' = Own(q)
  BY <1>1 DEF Own
<1>3. Collected(q)'
  BY <1>1, <1>2 DEF RequestOK, Collected
<1>4. BilledRight(q)'
  BY <1>1, <1>2 DEF RequestOK, BilledRight, Billed, EstimateCost
<1>5. StoredRight(q)'
  BY <1>1 DEF RequestOK, StoredRight
<1> QED  BY <1>3, <1>4, <1>5 DEF RequestOK

LEMMA StepKeeps ==
  ASSUME Inv, NEW r \in Requests, Types', KeepsOthers(r), RequestOK(r)', PaysCost(r), PaysTokens(r)
  PROVE  Inv'
<1>1. \A q \in Requests : RequestOK(q)'
  BY OthersKept DEF Inv
<1>2. CostLedger'
  BY CostLedgerKept DEF Inv, KeepsOthers, PaysCost
<1>3. TokensLedger'
  BY TokensLedgerKept DEF Inv, KeepsOthers, PaysTokens
<1> QED  BY <1>1, <1>2, <1>3 DEF Inv

\* The steps, one by one.
LEMMA ReceiveKeeps == ASSUME Inv, NEW r \in Requests, Receive(r) PROVE Inv'
<1> USE DEF Receive, Goto
<1>1. Types'
  BY DEF Inv, Types, Labels, Accounted
<1>2. KeepsOthers(r)
  BY DEF Inv, Types, KeepsOthers, OnlyMoves
<1>3. pc[r] = "idle" /\ pc'[r] \in {"graph", "refused"}
  BY DEF Inv, Types
<1>4. RequestOK(r)'
  <2>1. RequestOK(r) /\ PriceFor' = PriceFor /\ Own(r)' = Own(r)
    BY SamePrice DEF Inv, Own
  <2>2. Collected(r)'
    BY <1>3, <2>1 DEF RequestOK, Collected
  <2>3. BilledRight(r)'
    BY <1>3, <2>1 DEF RequestOK, BilledRight, Billed, EstimateCost
  <2>4. StoredRight(r)'
    BY <1>3, <2>1 DEF RequestOK, StoredRight
  <2> QED  BY <2>2, <2>3, <2>4 DEF RequestOK
<1>5. PaysCost(r)
  BY <1>3 DEF PaysCost, OwesCost
<1>6. PaysTokens(r)
  BY <1>3 DEF PaysTokens, OwesPrompt, OwesCompletion, Counted
<1> QED  BY <1>1, <1>2, <1>4, <1>5, <1>6, StepKeeps

LEMMA OnLlmEndKeeps == ASSUME Inv, NEW r \in Requests, OnLlmEnd(r) PROVE Inv'
<1>1. PICK report \in Reports :
        /\ seen' = [seen EXCEPT ![r] = Append(@, report)]
        /\ collector' = [collector EXCEPT ![r] =
             [tokens |-> AddTokens(@.tokens, Extract(report)), calls |-> @.calls + 1]]
  BY DEF OnLlmEnd
<1>2. /\ pc[r] = "graph" /\ pc' = pc /\ settings' = settings /\ bill' = bill /\ stored' = stored
      /\ totals' = totals /\ made' = [made EXCEPT ![r] = @ + 1]
  BY DEF OnLlmEnd
<1>3. /\ collector[r].tokens \in SomeTokens /\ collector[r].calls \in Nat
      /\ seen[r] \in Seq(Reports) /\ made[r] \in Nat /\ Types
  BY DEF Inv, Types
<1> DEFINE heard == [tokens |-> AddTokens(collector[r].tokens, Extract(report)),
                     calls |-> collector[r].calls + 1]
<1>4. /\ heard \in [tokens : SomeTokens, calls : Nat]
      /\ heard.tokens.prompt + heard.tokens.completion
           = collector[r].tokens.prompt + collector[r].tokens.completion + UsedBy(report)
  <2>1. /\ Extract(report) \in SomeTokens
        /\ Extract(report).prompt + Extract(report).completion = UsedBy(report)
    BY ExtractIsUsed
  <2> DEFINE e == Extract(report)
             held == collector[r].tokens
  <2>2. /\ e.prompt \in Nat /\ e.completion \in Nat /\ held.prompt \in Nat /\ held.completion \in Nat
    BY <1>3, <2>1 DEF SomeTokens
  <2>3. heard.tokens = [prompt |-> held.prompt + e.prompt, completion |-> held.completion + e.completion]
    BY DEF AddTokens, Tokens
  <2>4. heard \in [tokens : SomeTokens, calls : Nat]
    <3>1. heard.tokens \in SomeTokens
      BY <2>2, <2>3 DEF SomeTokens
    <3>2. collector[r].calls + 1 \in Nat
      BY <1>3
    <3>3. heard = [tokens |-> heard.tokens, calls |-> collector[r].calls + 1]
      OBVIOUS
    <3> HIDE DEF heard
    <3> QED  BY <3>1, <3>2, <3>3
  <2> HIDE DEF e, held, heard
  <2>5. heard.tokens.prompt = held.prompt + e.prompt
        /\ heard.tokens.completion = held.completion + e.completion
    BY <2>3
  <2>6. e.prompt + e.completion = UsedBy(report)
    BY <2>1 DEF e
  <2>7. heard.tokens.prompt + heard.tokens.completion = held.prompt + held.completion + UsedBy(report)
    BY <2>2, <2>5, <2>6
  <2> QED  BY <2>4, <2>7 DEF held
<1>5. /\ collector' = [collector EXCEPT ![r] = heard]
      /\ collector'[r] = heard /\ seen'[r] = Append(seen[r], report) /\ made'[r] = made[r] + 1
  BY <1>1, <1>2 DEF Inv, Types
<1> HIDE DEF heard
<1>6. Types'
  <2>1. seen' \in [Requests -> Seq(Reports)] /\ made' \in [Requests -> Nat]
    BY <1>1, <1>2, <1>3 DEF Types
  <2>2. collector' \in [Requests -> [tokens : SomeTokens, calls : Nat]]
    BY <1>3, <1>4, <1>5 DEF Types
  <2> QED  BY <1>2, <1>3, <2>1, <2>2 DEF Types
<1>7. KeepsOthers(r)
  BY <1>1, <1>2, <1>3 DEF Types, KeepsOthers, OnlyMoves
<1>8. RequestOK(r)'
  <2>1. RequestOK(r) /\ PriceFor' = PriceFor
    BY <1>2, SamePrice DEF Inv
  <2>2. Own(r)' = Own(r) + UsedBy(report) /\ Len(seen'[r]) = Len(seen[r]) + 1
    <3>1. Own(r)' = UsedIn(seen'[r])
      BY DEF Own, UsedIn
    <3> QED  BY <1>3, <1>5, <3>1, OwnIsUsedIn, UsedInAppend
  <2>3. Collected(r)'
    <3>1. /\ collector[r].tokens.prompt + collector[r].tokens.completion = Own(r)
          /\ made[r] = Len(seen[r])
      BY <1>2, <2>1 DEF RequestOK, Collected
    <3>2. collector'[r].tokens.prompt + collector'[r].tokens.completion = Own(r)'
      BY <1>4, <1>5, <2>2, <3>1
    <3>3. made'[r] = Len(seen'[r]) /\ pc'[r] = "graph"
      BY <1>2, <1>5, <2>2, <3>1
    <3> QED  BY <3>2, <3>3 DEF Collected
  <2>4. BilledRight(r)'
    <3>1. bill[r] = NoBill /\ bill[r].cost = EstimateCost(bill[r].tokens.prompt, bill[r].tokens.completion)
      BY <1>2, <2>1 DEF RequestOK, BilledRight
    <3> QED  BY <1>2, <2>1, <3>1 DEF BilledRight, NoBill, EstimateCost
  <2>5. StoredRight(r)'
    BY <1>2, <2>1 DEF RequestOK, StoredRight
  <2> QED  BY <2>3, <2>4, <2>5 DEF RequestOK
<1>9. PaysCost(r) /\ PaysTokens(r)
  BY <1>2 DEF PaysCost, OwesCost, PaysTokens, OwesPrompt, OwesCompletion, Counted
<1> QED  BY <1>6, <1>7, <1>8, <1>9, StepKeeps

\* The graph ends, after a call that failed or without one.
LEMMA GraphEndsKeeps ==
  ASSUME Inv, NEW r \in Requests, LlmRaises(r) \/ GraphReturns(r) PROVE Inv'
<1>1. /\ pc[r] = "graph" /\ pc' = [pc EXCEPT ![r] = "account"] /\ settings' = settings
      /\ collector' = collector /\ seen' = seen /\ bill' = bill /\ stored' = stored /\ totals' = totals
      /\ made' = made \/ made' = [made EXCEPT ![r] = @ + 1]
  BY DEF LlmRaises, GraphReturns, Goto
<1>2. pc'[r] = "account" /\ made'[r] \in {made[r], made[r] + 1} /\ Types
  BY <1>1 DEF Inv, Types
<1>3. Types'
  <2>1. made' \in [Requests -> Nat]
    <3>1. made \in [Requests -> Nat] /\ made[r] + 1 \in Nat
      BY <1>2 DEF Types
    <3> QED  BY <1>1, <3>1
  <2>2. pc' \in [Requests -> Labels]
    BY <1>1, <1>2 DEF Types, Labels
  <2> QED  BY <1>1, <1>2, <2>1, <2>2 DEF Types
<1>4. KeepsOthers(r)
  BY <1>1, <1>2 DEF Types, KeepsOthers, OnlyMoves
<1>5. RequestOK(r)'
  <2>1. RequestOK(r) /\ PriceFor' = PriceFor /\ Own(r)' = Own(r)
    BY <1>1, SamePrice DEF Inv, Own
  <2>2. Collected(r)'
    BY <1>1, <1>2, <2>1 DEF RequestOK, Collected
  <2>3. BilledRight(r)'
    BY <1>1, <1>2, <2>1 DEF RequestOK, BilledRight, Billed, EstimateCost
  <2>4. StoredRight(r)'
    BY <1>1, <1>2, <2>1 DEF RequestOK, StoredRight
  <2> QED  BY <2>2, <2>3, <2>4 DEF RequestOK
<1>6. PaysCost(r) /\ PaysTokens(r)
  BY <1>1, <1>2 DEF PaysCost, OwesCost, PaysTokens, OwesPrompt, OwesCompletion, Counted
<1> QED  BY <1>3, <1>4, <1>5, <1>6, StepKeeps

\* The bill: for what was collected, or for an estimate.
LEMMA AccountKeeps == ASSUME Inv, NEW r \in Requests, Account(r) PROVE Inv'
<1> DEFINE source == IF HasUsage(collector[r]) THEN "provider" ELSE "estimated"
<1>1. PICK t \in IF HasUsage(collector[r]) THEN {collector[r].tokens} ELSE Estimates :
        /\ bill' = [bill EXCEPT ![r] = [tokens |-> t, source |-> source,
                                        cost |-> EstimateCost(t.prompt, t.completion)]]
        /\ totals' = [totals EXCEPT ![source] = @ + 1]
  BY DEF Account
<1>2. /\ pc[r] = "account" /\ pc' = [pc EXCEPT ![r] = "persist"] /\ settings' = settings
      /\ collector' = collector /\ seen' = seen /\ made' = made /\ stored' = stored
  BY DEF Account, Goto
<1>3. Types /\ RequestOK(r) /\ PriceFor' = PriceFor /\ Own(r)' = Own(r) /\ pc'[r] = "persist"
  BY <1>2, SamePrice DEF Inv, Types, Own
<1>4. /\ t \in SomeTokens \cup Estimates /\ t.prompt \in Nat /\ t.completion \in Nat
      /\ collector[r].tokens \in SomeTokens
  BY <1>3, UsageAssumption DEF Types, SomeTokens
<1> DEFINE cost == EstimateCost(t.prompt, t.completion)
           new == [tokens |-> t, source |-> source, cost |-> cost]
<1>5. /\ new \in [tokens : SomeTokens \cup Estimates, source : Sources, cost : Nat]
      /\ new.tokens = t /\ new.source = source /\ new.cost = cost
  BY <1>4, CostOfTokens DEF Sources
<1>6. bill' = [bill EXCEPT ![r] = new] /\ bill'[r] = new
  BY <1>1, <1>3 DEF Types
<1>7. /\ totals' \in [tokens : SomeTokens, cost : Nat, calls : Nat, provider : Nat, estimated : Nat]
      /\ totals'.cost = totals.cost /\ totals'.tokens = totals.tokens
  <2>1. totals \in [tokens : SomeTokens, cost : Nat, calls : Nat, provider : Nat, estimated : Nat]
    BY <1>3 DEF Types
  <2>2. CASE source = "provider"
    BY <1>1, <2>1, <2>2
  <2>3. CASE source = "estimated"
    BY <1>1, <2>1, <2>3
  <2> QED  BY <2>2, <2>3
<1>8. NoBill.tokens.prompt = 0 /\ NoBill.tokens.completion = 0 /\ bill[r] = NoBill
  BY <1>2, <1>3 DEF RequestOK, BilledRight, NoBill, NoTokens, Tokens
<1>9. Types'
  <2> HIDE DEF new
  <2>1. bill' \in [Requests -> [tokens : SomeTokens \cup Estimates, source : Sources, cost : Nat]]
    BY <1>3, <1>5, <1>6 DEF Types
  <2>2. pc' \in [Requests -> Labels]
    BY <1>2, <1>3 DEF Types, Labels, Accounted
  <2> QED  BY <1>2, <1>3, <1>7, <2>1, <2>2 DEF Types
<1>10. KeepsOthers(r)
  BY <1>2, <1>3, <1>6 DEF Types, KeepsOthers, OnlyMoves
<1>11. RequestOK(r)'
  <2>1. Collected(r)'
    BY <1>2, <1>3 DEF RequestOK, Collected
  <2>2. BilledRight(r)'
    <3>1. bill'[r].cost = EstimateCost(bill'[r].tokens.prompt, bill'[r].tokens.completion)
      BY <1>5, <1>6
    <3>2. CASE HasUsage(collector[r])
      <4>1. source = "provider" /\ t = collector[r].tokens
        BY <1>1, <3>2
      <4>2. t.prompt + t.completion = Own(r)
        BY <1>3, <4>1 DEF RequestOK, Collected
      <4> HIDE DEF new
      <4> QED  BY <1>3, <1>5, <1>6, <3>1, <4>1, <4>2 DEF BilledRight, Billed, EstimateCost
    <3>3. CASE ~HasUsage(collector[r])
      <4>1. source = "estimated" /\ t \in Estimates
        BY <1>1, <3>3
      <4>2. Own(r) = 0
        BY <1>3, <3>3 DEF RequestOK, Collected, HasUsage, NoTokens, Tokens
      <4> HIDE DEF new
      <4> QED  BY <1>3, <1>5, <1>6, <3>1, <4>1, <4>2 DEF BilledRight, EstimateCost
    <3> QED  BY <3>2, <3>3
  <2>3. StoredRight(r)'
    BY <1>2, <1>3 DEF RequestOK, StoredRight
  <2> QED  BY <2>1, <2>2, <2>3 DEF RequestOK
<1>12. PaysCost(r)
  BY <1>2, <1>3, <1>7 DEF PaysCost, OwesCost
<1>13. PaysTokens(r)
  <2> HIDE DEF new
  <2>1. Tallies
    BY <1>3, TalliesAreNat
  <2>2. OwesPrompt(r) = 0 /\ OwesCompletion(r) = 0
    BY <1>2, <1>8 DEF OwesPrompt, OwesCompletion
  <2>3. OwesPrompt(r)' = t.prompt /\ OwesCompletion(r)' = t.completion
    BY <1>3, <1>5, <1>6 DEF OwesPrompt, OwesCompletion, Counted
  <2> QED  BY <1>4, <1>5, <1>6, <1>7, <1>8, <2>1, <2>2, <2>3 DEF PaysTokens, Tallies
<1> QED  BY <1>9, <1>10, <1>11, <1>12, <1>13, StepKeeps

\* The ticket: what is stored is owed to the totals, until it is counted, or
\* for good when the insert raised.  A refused case stores no cost at all.
LEMMA PersistKeeps ==
  ASSUME Inv, NEW r \in Requests, Persist(r) \/ PersistFails(r) PROVE Inv'
<1> DEFINE row == [done |-> TRUE, cost |-> bill[r].cost]
<1>1. PICK to \in {"count_tokens", "answered", "failed"} :
        /\ pc' = [pc EXCEPT ![r] = to]
        /\ \/ pc[r] = "persist" /\ to \in {"count_tokens", "failed"}
           \/ pc[r] = "refused" /\ to \in {"answered", "failed"}
        /\ \/ stored' = [stored EXCEPT ![r] = row]
           \/ to = "failed" /\ stored' = stored
  BY DEF Persist, PersistFails, Goto
<1>2. /\ settings' = settings /\ collector' = collector /\ seen' = seen /\ made' = made
      /\ bill' = bill /\ totals' = totals
  BY DEF Persist, PersistFails, Goto
<1>3. Types /\ RequestOK(r) /\ PriceFor' = PriceFor /\ Own(r)' = Own(r) /\ pc'[r] = to
  BY <1>1, <1>2, SamePrice DEF Inv, Types, Own
<1>4. /\ bill[r].cost \in Nat /\ bill[r].tokens.prompt \in Nat /\ bill[r].tokens.completion \in Nat
      /\ totals.cost \in Nat /\ totals.tokens.prompt \in Nat /\ totals.tokens.completion \in Nat
  <2>1. Tallies
    BY <1>3, TalliesAreNat
  <2> QED  BY <1>3, <2>1 DEF Tallies, Types
<1>5. row \in [done : BOOLEAN, cost : Nat] /\ row.cost = bill[r].cost
  BY <1>4
<1>6. /\ pc[r] = "refused" => bill[r].tokens.prompt = 0 /\ bill[r].tokens.completion = 0
                              /\ bill[r].cost = 0
      /\ stored[r].cost = 0
  BY <1>1, <1>3 DEF RequestOK, BilledRight, StoredRight, NoBill, NoTokens, Tokens, NotStored
<1> HIDE DEF row
<1>7. stored'[r] \in {row, stored[r]} /\ (to # "failed" => stored'[r] = row)
  BY <1>1, <1>3 DEF Types
<1>8. Types'
  <2>1. stored' \in [Requests -> [done : BOOLEAN, cost : Nat]]
    BY <1>1, <1>3, <1>5 DEF Types
  <2>2. pc' \in [Requests -> Labels]
    BY <1>1, <1>3 DEF Types, Labels, Accounted
  <2> QED  BY <1>2, <1>3, <2>1, <2>2 DEF Types
<1>9. KeepsOthers(r)
  BY <1>1, <1>2, <1>3 DEF Types, KeepsOthers, OnlyMoves
<1>10. RequestOK(r)'
  <2>1. Collected(r)'
    BY <1>1, <1>2, <1>3 DEF RequestOK, Collected
  <2>2. BilledRight(r)'
    BY <1>1, <1>2, <1>3 DEF RequestOK, BilledRight, Billed, EstimateCost
  <2>3. StoredRight(r)'
    BY <1>1, <1>2, <1>3, <1>5, <1>7 DEF StoredRight
  <2> QED  BY <2>1, <2>2, <2>3 DEF RequestOK
<1>11. PaysCost(r)
  <2>1. OwesCost(r) = 0
    BY <1>1 DEF OwesCost
  <2>2. stored'[r].cost \in Nat
    BY <1>4, <1>5, <1>6, <1>7
  <2>3. OwesCost(r)' = stored'[r].cost
    BY <1>1, <1>3, <1>5, <1>6, <1>7 DEF OwesCost
  <2> QED  BY <1>2, <1>4, <1>6, <2>1, <2>2, <2>3 DEF PaysCost
<1>12. PaysTokens(r)
  <2>1. OwesPrompt(r)' = OwesPrompt(r) /\ OwesCompletion(r)' = OwesCompletion(r)
    BY <1>1, <1>2, <1>3, <1>6 DEF OwesPrompt, OwesCompletion, Counted
  <2> QED  BY <1>2, <2>1 DEF PaysTokens
<1> QED  BY <1>8, <1>9, <1>10, <1>11, <1>12, StepKeeps

\* The totals: what was owed is paid, one counter at a time.
LEMMA RecordKeeps ==
  ASSUME Inv, NEW r \in Requests, RecordTokens(r) \/ RecordCost(r) \/ RecordLlmCalls(r) PROVE Inv'
<1>1. PICK to \in {"count_cost", "count_calls", "answered"} :
        /\ pc' = [pc EXCEPT ![r] = to]
        /\ \/ /\ pc[r] = "count_tokens" /\ to = "count_cost"
              /\ totals' = [totals EXCEPT !.tokens = AddTokens(@, bill[r].tokens)]
           \/ /\ pc[r] = "count_cost" /\ to = "count_calls"
              /\ totals' = [totals EXCEPT !.cost = @ + bill[r].cost]
           \/ /\ pc[r] = "count_calls" /\ to = "answered"
              /\ totals' = [totals EXCEPT !.calls = @ + collector[r].calls]
  BY DEF RecordTokens, RecordCost, RecordLlmCalls, Goto
<1>2. /\ settings' = settings /\ collector' = collector /\ seen' = seen /\ made' = made
      /\ bill' = bill /\ stored' = stored
  BY DEF RecordTokens, RecordCost, RecordLlmCalls, Goto
<1>3. Types /\ RequestOK(r) /\ PriceFor' = PriceFor /\ Own(r)' = Own(r) /\ pc'[r] = to
  BY <1>1, <1>2, SamePrice DEF Inv, Types, Own
<1>4. /\ bill[r].cost \in Nat /\ bill[r].tokens.prompt \in Nat /\ bill[r].tokens.completion \in Nat
      /\ totals.cost \in Nat /\ totals.tokens.prompt \in Nat /\ totals.tokens.completion \in Nat
      /\ stored[r].cost \in Nat
  <2>1. Tallies
    BY <1>3, TalliesAreNat
  <2> QED  BY <1>3, <2>1 DEF Tallies, Types
<1>5. totals \in [tokens : SomeTokens, cost : Nat, calls : Nat, provider : Nat, estimated : Nat]
      /\ collector[r].calls \in Nat
  BY <1>3 DEF Types
<1>6. /\ totals' \in [tokens : SomeTokens, cost : Nat, calls : Nat, provider : Nat, estimated : Nat]
      /\ pc[r] = "count_tokens" => /\ totals'.cost = totals.cost
                                   /\ totals'.tokens.prompt = totals.tokens.prompt + bill[r].tokens.prompt
                                   /\ totals'.tokens.completion
                                        = totals.tokens.completion + bill[r].tokens.completion
      /\ pc[r] = "count_cost" => totals'.cost = totals.cost + bill[r].cost /\ totals'.tokens = totals.tokens
      /\ pc[r] = "count_calls" => totals'.cost = totals.cost /\ totals'.tokens = totals.tokens
  <2>1. CASE pc[r] = "count_tokens"
    <3> DEFINE sum == AddTokens(totals.tokens, bill[r].tokens)
    <3>1. /\ sum \in SomeTokens
          /\ sum.prompt = totals.tokens.prompt + bill[r].tokens.prompt
          /\ sum.completion = totals.tokens.completion + bill[r].tokens.completion
      BY <1>4 DEF AddTokens, Tokens, SomeTokens
    <3>2. totals' = [totals EXCEPT !.tokens = sum]
      BY <1>1, <2>1
    <3> HIDE DEF sum
    <3> QED  BY <1>5, <2>1, <3>1, <3>2
  <2>2. CASE pc[r] = "count_cost"
    <3>1. totals' = [totals EXCEPT !.cost = totals.cost + bill[r].cost]
      BY <1>1, <2>2
    <3>2. totals.cost + bill[r].cost \in Nat
      BY <1>4
    <3> QED  BY <1>5, <2>2, <3>1, <3>2
  <2>3. CASE pc[r] = "count_calls"
    <3>1. totals' = [totals EXCEPT !.calls = totals.calls + collector[r].calls]
      BY <1>1, <2>3
    <3>2. totals.calls + collector[r].calls \in Nat
      BY <1>5
    <3> QED  BY <1>5, <2>3, <3>1, <3>2
  <2> QED  BY <1>1, <2>1, <2>2, <2>3
<1>7. Types'
  <2>1. pc' \in [Requests -> Labels]
    BY <1>1, <1>3 DEF Types, Labels, Accounted
  <2> QED  BY <1>2, <1>3, <1>6, <2>1 DEF Types
<1>8. KeepsOthers(r)
  BY <1>1, <1>2, <1>3 DEF Types, KeepsOthers, OnlyMoves
<1>9. RequestOK(r)'
  <2>1. Collected(r)'
    BY <1>1, <1>2, <1>3 DEF RequestOK, Collected
  <2>2. BilledRight(r)'
    BY <1>1, <1>2, <1>3 DEF RequestOK, BilledRight, Billed, EstimateCost
  <2>3. StoredRight(r)'
    BY <1>1, <1>2, <1>3 DEF RequestOK, StoredRight
  <2> QED  BY <2>1, <2>2, <2>3 DEF RequestOK
<1>10. PaysCost(r)
  <2>1. pc[r] \in {"count_tokens", "count_cost"} => stored[r].cost = bill[r].cost
    BY <1>3 DEF RequestOK, StoredRight
  <2>2. CASE pc[r] = "count_tokens"
    BY <1>1, <1>2, <1>3, <1>6, <2>2 DEF PaysCost, OwesCost
  <2>3. CASE pc[r] = "count_cost"
    BY <1>1, <1>2, <1>3, <1>4, <1>6, <2>1, <2>3 DEF PaysCost, OwesCost
  <2>4. CASE pc[r] = "count_calls"
    BY <1>1, <1>2, <1>3, <1>6, <2>4 DEF PaysCost, OwesCost
  <2> QED  BY <1>1, <2>2, <2>3, <2>4
<1>11. PaysTokens(r)
  <2>1. CASE pc[r] = "count_tokens"
    <3>1. OwesPrompt(r) = bill[r].tokens.prompt /\ OwesCompletion(r) = bill[r].tokens.completion
      BY <2>1 DEF OwesPrompt, OwesCompletion, Counted
    <3>2. OwesPrompt(r)' = 0 /\ OwesCompletion(r)' = 0
      BY <1>1, <1>3, <2>1 DEF OwesPrompt, OwesCompletion, Counted
    <3> QED  BY <1>2, <1>4, <1>6, <2>1, <3>1, <3>2 DEF PaysTokens
  <2>2. CASE pc[r] # "count_tokens"
    <3>1. OwesPrompt(r) = 0 /\ OwesCompletion(r) = 0
      BY <1>1, <2>2 DEF OwesPrompt, OwesCompletion, Counted
    <3>2. OwesPrompt(r)' = 0 /\ OwesCompletion(r)' = 0
      BY <1>1, <1>3 DEF OwesPrompt, OwesCompletion, Counted
    <3> QED  BY <1>1, <1>2, <1>6, <2>2, <3>1, <3>2 DEF PaysTokens
  <2> QED  BY <2>1, <2>2
<1> QED  BY <1>7, <1>8, <1>9, <1>10, <1>11, StepKeeps

LEMMA StutterKeeps == ASSUME Inv, UNCHANGED usageVars PROVE Inv'
<1>1. /\ settings' = settings /\ pc' = pc /\ collector' = collector /\ seen' = seen /\ made' = made
      /\ bill' = bill /\ stored' = stored /\ totals' = totals
  BY DEF usageVars
<1>2. PriceFor' = PriceFor /\ \A r \in Requests : Own(r)' = Own(r)
  BY <1>1, SamePrice DEF Own
<1>3. Types'
  BY <1>1 DEF Inv, Types
<1>4. ASSUME NEW r \in Requests
      PROVE  RequestOK(r)'
  BY <1>1, <1>2 DEF Inv, RequestOK, Collected, BilledRight, StoredRight, Billed, EstimateCost
<1>5. TokensLedger' /\ CostLedger'
  BY <1>1 DEF Inv, TokensLedger, CostLedger, BilledPrompts, BilledCompletions, StoredCosts,
              Uncounted, Unpaid, At
<1> QED  BY <1>3, <1>4, <1>5 DEF Inv

LEMMA UsageStepKeeps == Inv /\ [UsageNext]_usageVars => Inv'
<1> SUFFICES ASSUME Inv, [UsageNext]_usageVars PROVE Inv'
  OBVIOUS
<1>1. CASE UsageNext
  <2>1. PICK r \in Requests : Step(r)
    BY <1>1 DEF UsageNext
  <2> QED  BY <2>1, ReceiveKeeps, OnLlmEndKeeps, GraphEndsKeeps, AccountKeeps, PersistKeeps,
              RecordKeeps DEF Step
<1>2. CASE UNCHANGED usageVars
  BY <1>2, StutterKeeps
<1> QED  BY <1>1, <1>2

\* The invariant holds of every reachable state.
THEOREM UsageInvariance == UsageSpec => []Inv
BY InitHolds, UsageStepKeeps, PTL DEF UsageSpec

-----------------------------------------------------------------------------
(* What it says *)

LEMMA UsageTyped == Inv => UsageTypeOK
<1> SUFFICES ASSUME Inv PROVE UsageTypeOK
  OBVIOUS
<1>1. pc \in [Requests -> Accounted \cup {"idle", "refused", "graph", "account"}]
  BY DEF Inv, Types, Labels
<1>2. ASSUME NEW r \in Requests
      PROVE  /\ bill[r].source = "none" => bill[r] = NoBill
             /\ pc[r] = "refused" => made[r] = 0
             /\ made[r] - Len(seen[r]) \in {0, 1}
  <2>1. Len(seen[r]) \in Nat
    BY DEF Inv, Types
  <2> QED  BY <2>1 DEF Inv, RequestOK, Collected, BilledRight
<1>3. Tallies
  BY TalliesAreNat DEF Inv
<1>4. /\ SumFunction(BilledPrompts) = SumFunctionOnSet(BilledPrompts, Requests)
      /\ SumFunction(BilledCompletions) = SumFunctionOnSet(BilledCompletions, Requests)
  BY DEF SumFunction, BilledPrompts, BilledCompletions
<1>5. IsFiniteSet(Uncounted) /\ Uncounted \subseteq Requests
  BY FS_Subset, UsageAssumption DEF Uncounted
<1>6. /\ SumFunctionOnSet(BilledPrompts, Uncounted) \in Nat
      /\ SumFunctionOnSet(BilledCompletions, Uncounted) \in Nat
  BY <1>3, <1>5, SumIsNat DEF Tallies
<1>7. /\ totals.tokens.prompt <= SumFunction(BilledPrompts)
      /\ totals.tokens.completion <= SumFunction(BilledCompletions)
  BY <1>3, <1>4, <1>6 DEF Inv, TokensLedger, Balanced, Tallies
<1> QED  BY <1>1, <1>2, <1>7 DEF UsageTypeOK

\* The state keeps its shape, a refused case has no calls, and no tokens are
\* counted that no case was billed (metrics.py, service.py:191-203).
THEOREM UsageTypeCorrectness == UsageSpec => []UsageTypeOK
BY UsageTyped, UsageInvariance, PTL

\* Whatever runs beside it, a case is billed for what its own LLM calls
\* reported, and for an estimate when they reported none; the price of its
\* tokens is zero for nvidia and ollama only (usage.py, costing.py).
THEOREM BillsAreAlwaysRight == UsageSpec => []BillsAreRight
<1>1. Inv => BillsAreRight
  <2> SUFFICES ASSUME Inv PROVE BillsAreRight
    OBVIOUS
  <2>1. CaseBillsItsOwnCalls
    BY DEF Inv, RequestOK, BilledRight, CaseBillsItsOwnCalls
  <2>2. OnlyLocalIsFree
    <3> SUFFICES ASSUME NEW r \in Requests, Billed(r) > 0
                 PROVE  bill[r].cost = 0 <=> settings.provider \in {"nvidia", "ollama"}
      BY DEF OnlyLocalIsFree
    <3>1. bill[r].tokens.prompt \in Nat /\ bill[r].tokens.completion \in Nat
      BY TalliesAreNat DEF Inv, Tallies
    <3>2. bill[r].cost = EstimateCost(bill[r].tokens.prompt, bill[r].tokens.completion)
      BY DEF Inv, RequestOK, BilledRight
    <3> QED  BY <3>1, <3>2, CostOfTokens DEF Billed, Local
  <2> QED  BY <2>1, <2>2 DEF BillsAreRight
<1> QED  BY <1>1, UsageInvariance, PTL

\* The running spend and what the threads still owe it are what the tickets
\* store, at every moment and for any number of requests (service.py:191-203).
THEOREM SpendAlwaysTracksTickets == UsageSpec => []SpendTracksTickets
<1>1. Inv => SpendTracksTickets
  <2>1. SumFunction(StoredCosts) = SumFunctionOnSet(StoredCosts, Requests)
    BY DEF SumFunction, StoredCosts
  <2> QED  BY <2>1 DEF Inv, CostLedger, Balanced, Unpaid, SpendTracksTickets
<1> QED  BY <1>1, UsageInvariance, PTL
=============================================================================
