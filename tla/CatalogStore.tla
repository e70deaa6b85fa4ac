---------------------------- MODULE CatalogStore ----------------------------
(***************************************************************************)
(* storage/db.py, store/seed.py and store/catalog.py: processes that boot  *)
(* on one SQLite file create its tables, seed the fixture catalog, and     *)
(* then look orders up in it.  The file outlives them: it may be new, or   *)
(* hold the rows of earlier releases, some of them edited since.           *)
(*                                                                         *)
(* SQLite is external: a statement outside a transaction commits by        *)
(* itself, a transaction holds the write lock from its first write until   *)
(* it commits, a killed process leaves none of it, and reads see what is   *)
(* committed.                                                              *)
(***************************************************************************)
EXTENDS Naturals, Sequences, FiniteSets

CONSTANTS
  Procs,      \* API processes on the file: a restart overlaps its predecessor
  Products,   \* ids of PRODUCTS
  Orders,     \* ids of ORDERS
  Lines,      \* ORDER_ITEMS, as pairs of an order and a product
  MaxBoots    \* bound: boots in all

ASSUME CatalogAssumption ==
  /\ Lines \subseteq Orders \X Products
  /\ "free" \notin Procs /\ "none" \notin Orders \cup {"unknown"}
  /\ MaxBoots \in Nat

VARIABLES
  exists,     \* the tables there are
  catalog,    \* the committed rows of each, by primary key: as in the fixture, or edited
  lock,       \* who holds the write lock
  work,       \* the rows as the holder's transaction has them
  pc,         \* where each process is
  next,       \* the table its boot is at
  reading,    \* the order it looks up
  answer,     \* what the latest lookup returned
  boots

catalogVars == <<exists, catalog, lock, work, pc, next, reading, answer, boots>>

Tables == <<"products", "orders", "order_items">>
TableSet == {"products", "orders", "order_items"}

Keys(table) ==
  CASE table = "products" -> Products
    [] table = "orders" -> Orders
    [] table = "order_items" -> Lines
Fixture == [t \in TableSet |-> [id \in Keys(t) |-> "fixture"]]

\* The keys a row may have: rows of other orders and products, which no statement
\* here reads or writes, are left out.
Ids(table) == IF table = "order_items" THEN Orders \X Products ELSE Keys(table)

NoRows == [t \in TableSet |-> [id \in {} |-> "fixture"]]
Free == "free"
NoAnswer == [order |-> "none", items |-> {}]
NotFound(order) == [order |-> order, items |-> {"order_not_found"}]

-----------------------------------------------------------------------------
(* seed_catalog *)

SkipIfAny(rows, table) ==                             \* mutant: seeded once is seeded
  IF DOMAIN rows = {} THEN Fixture[table] ELSE rows

\* A row that is there stays as it is.
InsertOrIgnore(rows, table) ==
  [id \in DOMAIN rows \cup Keys(table) |-> IF id \in DOMAIN rows THEN rows[id] ELSE Fixture[table][id]]

-----------------------------------------------------------------------------
(* A new file, or what earlier seeds and later edits made of it *)

\* Any of the rows, and lines between any of the orders and products: nothing holds
\* a line to its order or its product.  A line the fixture does not have is an edit.
Earlier(product, order, lines) ==
  [t \in TableSet |->
     CASE t = "products" -> product
       [] t = "orders" -> order
       [] OTHER -> [id \in lines |-> IF id \in Lines THEN "fixture" ELSE "edited"]]

CatalogInit ==
  /\ \/ exists = {} /\ catalog = NoRows
     \/ /\ exists = TableSet
        /\ \E ps \in SUBSET Products, os \in SUBSET Orders, lines \in SUBSET (Orders \X Products) :
             \E product \in [ps -> {"fixture", "edited"}], order \in [os -> {"fixture", "edited"}] :
               catalog = Earlier(product, order, lines)
  /\ lock = Free /\ work = NoRows
  /\ pc = [p \in Procs |-> "down"] /\ next = [p \in Procs |-> 1]
  /\ reading = [p \in Procs |-> "none"] /\ answer = NoAnswer
  /\ boots = 0

Boot(p) ==
  /\ pc[p] = "down" /\ boots < MaxBoots
  /\ pc' = [pc EXCEPT ![p] = "schema"] /\ next' = [next EXCEPT ![p] = 1]
  /\ boots' = boots + 1
  /\ UNCHANGED <<exists, catalog, lock, work, reading, answer>>

Advance(p, done) ==
  IF next[p] < Len(Tables)
    THEN next' = [next EXCEPT ![p] = @ + 1] /\ UNCHANGED pc
    ELSE next' = [next EXCEPT ![p] = 1] /\ pc' = [pc EXCEPT ![p] = done]

\* executescript: CREATE TABLE IF NOT EXISTS, each statement on its own.
CreateTable(p) ==
  /\ pc[p] = "schema"
  /\ Tables[next[p]] \in exists \/ lock = Free
  /\ exists' = exists \cup {Tables[next[p]]}
  /\ Advance(p, "seed")
  /\ UNCHANGED <<catalog, lock, work, reading, answer, boots>>

InsertCommits(p) ==                                   \* mutant: autocommit
  /\ pc[p] = "seed" /\ lock \in {Free, p}
  /\ lock' = p
  /\ LET rows == IF lock = p THEN work ELSE catalog
         table == Tables[next[p]]
     IN  work' = [rows EXCEPT ![table] = InsertOrIgnore(@, table)]
  /\ catalog' = work'
  /\ Advance(p, "commit")
  /\ UNCHANGED <<exists, reading, answer, boots>>

\* One executemany: the first opens the transaction.
Insert(p) ==
  /\ pc[p] = "seed" /\ lock \in {Free, p}
  /\ lock' = p
  /\ LET rows == IF lock = p THEN work ELSE catalog
         table == Tables[next[p]]
     IN  work' = [rows EXCEPT ![table] = InsertOrIgnore(@, table)]
  /\ Advance(p, "commit")
  /\ UNCHANGED <<exists, catalog, reading, answer, boots>>

Commit(p) ==
  /\ pc[p] = "commit"
  /\ catalog' = work /\ work' = NoRows /\ lock' = Free
  /\ pc' = [pc EXCEPT ![p] = "up"]
  /\ UNCHANGED <<exists, next, reading, answer, boots>>

\* The write lock was not free for five seconds: OperationalError leaves lifespan.
Locked(p) ==
  /\ pc[p] \in {"schema", "seed"} /\ lock \notin {Free, p}
  /\ pc' = [pc EXCEPT ![p] = "down"]
  /\ UNCHANGED <<exists, catalog, lock, work, next, reading, answer, boots>>

\* The process is killed, anywhere.
Crash(p) ==
  /\ pc[p] # "down"
  /\ pc' = [pc EXCEPT ![p] = "down"] /\ reading' = [reading EXCEPT ![p] = "none"]
  /\ IF lock = p THEN lock' = Free /\ work' = NoRows ELSE UNCHANGED <<lock, work>>
  /\ UNCHANGED <<exists, catalog, next, answer, boots>>

-----------------------------------------------------------------------------
(* check_order_status: the order, then its lines joined with their products *)

ReadOrder(p) ==
  /\ pc[p] = "up" /\ reading[p] = "none"
  /\ \E order \in Orders \cup {"unknown"} :
       IF order \in DOMAIN catalog["orders"]
         THEN reading' = [reading EXCEPT ![p] = order] /\ UNCHANGED answer
         ELSE answer' = NotFound(order) /\ UNCHANGED reading
  /\ UNCHANGED <<exists, catalog, lock, work, pc, next, boots>>

Join(order) ==
  {l \in DOMAIN catalog["order_items"] : l[1] = order /\ l[2] \in DOMAIN catalog["products"]}

ReadItems(p) ==
  /\ pc[p] = "up" /\ reading[p] # "none"
  /\ answer' = [order |-> reading[p], items |-> Join(reading[p])]
  /\ reading' = [reading EXCEPT ![p] = "none"]
  /\ UNCHANGED <<exists, catalog, lock, work, pc, next, boots>>

CatalogNext ==
  \E p \in Procs :
    \/ Boot(p) \/ CreateTable(p) \/ Insert(p) \/ Commit(p) \/ Locked(p) \/ Crash(p)
    \/ ReadOrder(p) \/ ReadItems(p)

CatalogSpec == CatalogInit /\ [][CatalogNext]_catalogVars

-----------------------------------------------------------------------------
(* Properties *)

Complete(rows) == \A t \in TableSet : Keys(t) \subseteq DOMAIN rows[t]

\* A transaction belongs to the lock's holder, and only a process that holds it is
\* about to commit (db.py:92-100, seed.py:66-82).
CatalogTypeOK ==
  /\ exists \subseteq TableSet /\ lock \in Procs \cup {Free}
  /\ \A t \in TableSet : DOMAIN catalog[t] \subseteq Ids(t)
  /\ (\E t \in TableSet : DOMAIN work[t] # {}) => lock # Free
  /\ \A p \in Procs : pc[p] = "commit" => lock = p

\* A process that serves has every table and the whole fixture, whatever file it
\* booted on and whoever crashed over it (main.py:30-32, db.py:92-100).
UpMeansComplete == (\E p \in Procs : pc[p] = "up") => exists = TableSet /\ Complete(catalog)

\* No row there is goes or changes, an edited one included.
RowsKept ==
  \A t \in TableSet : \A id \in DOMAIN catalog[t] :
    id \in DOMAIN catalog'[t] /\ catalog'[t][id] = catalog[t][id]

\* The catalog changes from what it was to complete at once, keeping every row: no
\* reader, no second boot and no crash meets one half seeded (seed.py:66-82).
SeedingKeepsAndCompletes ==
  [][catalog' # catalog => Complete(catalog') /\ RowsKept]_catalogVars

\* A fixture order is always found, with every line the fixture gives it and with
\* lines of its own only: none is lost in the join although another process may
\* commit between its two reads (catalog.py:25-53).
AnswerIsWhole ==
  answer.order \in Orders =>
    /\ {l \in Lines : l[1] = answer.order} \subseteq answer.items
    /\ answer.items \subseteq {answer.order} \X Products
=============================================================================
