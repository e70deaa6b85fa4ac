---------------------------- MODULE RecordsProofs ----------------------------
(***************************************************************************)
(* What AuditReads promises, for every set of cases, limit and number of   *)
(* seconds: the lists are the newest rows, and neither holds what the      *)
(* other cannot account for.  The bill has a module of its own; that both  *)
(* are typed is stated at the end.                                         *)
(***************************************************************************)
EXTENDS MCRecords, UsageAccountingProofs

-----------------------------------------------------------------------------
(* The invariant *)

AuditRow == [case : Cases, at : Nat, id : Nat]

\* How many rows of a kind ("ticket" or "event") the first n steps of a script store.
Committed(kind, n, what) == Cardinality({i \in 1..n : Script(kind)[i] = what})
RowsOfCase(table, c) == {i \in DOMAIN table : table[i].case = c}

ReadsTypes ==
  /\ now \in 0..MaxSeconds
  /\ case \in [Cases -> [kind : Kinds, done : Nat, end : {"open", "answered", "failed"}]]
  /\ \A c \in Cases : /\ case[c].done <= Len(Script(case[c].kind))
                      /\ case[c].end = "answered" => case[c].done = Len(Script(case[c].kind))
  /\ tickets \in Seq(AuditRow) /\ events \in Seq(AuditRow)

\* Row i has the number i, and the rows' times do not decrease.
InOrder(table) ==
  \A i \in DOMAIN table : /\ table[i].id = i
                          /\ table[i].at <= now
                          /\ \A j \in 1..i : table[j].at <= table[i].at

\* The tables hold the commits of their cases and no other row.
Accounts ==
  \A c \in Cases :
    /\ Cardinality(RowsOfCase(tickets, c)) = Committed(case[c].kind, case[c].done, "ticket")
    /\ Cardinality(RowsOfCase(events, c)) = Committed(case[c].kind, case[c].done, "event")

\* A list that was read is what the table, which only grew since, holds up to it.
IsNewest(list, table) ==
  /\ list.limit \in 1..MaxLimit /\ list.total \in 0..Len(table)
  /\ list.rows \in Seq(AuditRow)
  /\ Len(list.rows) = IF list.limit < list.total THEN list.limit ELSE list.total
  /\ \A k \in 1..Len(list.rows) : list.rows[k] = table[list.total + 1 - k]

Within(table, n, c) == \E i \in 1..n : table[i].case = c

\* What had been answered when a list was read has its rows below the list's total;
\* and so have the events stored when the tickets were read.
Explained ==
  /\ page.tickets.read =>
       /\ IsNewest(page.tickets, tickets)
       /\ \A c \in page.tickets.answered : c \in Cases /\ Within(tickets, page.tickets.total, c)
       /\ page.tickets.known \in 0..Len(events)
       /\ \A i \in 1..page.tickets.known :
            \/ case[events[i].case].kind \in Leaks
            \/ Within(tickets, page.tickets.total, events[i].case)
  /\ page.events.read =>
       /\ IsNewest(page.events, events)
       /\ \A c \in page.events.answered :
            c \in Cases /\ (case[c].kind # "resolved" => Within(events, page.events.total, c))

Pages ==
  /\ DOMAIN page = {"tickets", "events"}
  /\ Explained

ReadsInv == ReadsTypes /\ InOrder(tickets) /\ InOrder(events) /\ Accounts /\ Pages

-----------------------------------------------------------------------------
(* Scripts *)

\* Every script stores one ticket, before any event unless a leak was withheld, and
\* an event unless the case was resolved.
LEMMA Scripts ==
  ASSUME NEW kind \in Kinds
  PROVE  /\ Len(Script(kind)) \in 1..3 /\ DOMAIN Script(kind) = 1..Len(Script(kind))
         /\ \A i \in 1..Len(Script(kind)) : Script(kind)[i] \in {"ticket", "event"}
         /\ \E i \in 1..Len(Script(kind)) : Script(kind)[i] = "ticket"
         /\ kind # "resolved" => \E i \in 1..Len(Script(kind)) : Script(kind)[i] = "event"
         /\ kind \notin Leaks => Script(kind)[1] = "ticket"
<1>1. CASE kind = "resolved"
  BY <1>1 DEF Script
<1>2. CASE kind = "refused"
  BY <1>2 DEF Script
<1>3. CASE kind = "guarded"
  BY <1>3 DEF Script
<1>4. CASE kind = "leaked"
  BY <1>4 DEF Script, Leaks
<1>5. CASE kind = "leaked_guarded"
  BY <1>5 DEF Script, Leaks
<1> QED  BY <1>1, <1>2, <1>3, <1>4, <1>5, AuditAssumption DEF Leaks

\* A step adds one to what it stores.
LEMMA CommittedNext ==
  ASSUME NEW kind \in Kinds, NEW n \in Nat, n < Len(Script(kind)), NEW what
  PROVE  /\ Committed(kind, n, what) \in Nat
         /\ Committed(kind, n + 1, what) =
              IF Script(kind)[n + 1] = what THEN Committed(kind, n, what) + 1 ELSE Committed(kind, n, what)
<1> DEFINE A == {i \in 1..n : Script(kind)[i] = what}
           B == {i \in 1..(n + 1) : Script(kind)[i] = what}
<1>1. IsFiniteSet(A)
  <2>1. IsFiniteSet(1..n) /\ A \subseteq 1..n
    BY FS_Interval
  <2> QED  BY <2>1, FS_Subset
<1>2. B \ {n + 1} = A \ {n + 1} /\ n + 1 \notin A /\ (n + 1 \in B <=> Script(kind)[n + 1] = what)
  OBVIOUS
<1>3. Committed(kind, n, what) = Cardinality(A) /\ Committed(kind, n + 1, what) = Cardinality(B)
  BY DEF Committed
<1> HIDE DEF A, B
<1> QED  BY <1>1, <1>2, <1>3, ChangeOne

\* An appended row counts for its case.
LEMMA RowAppended ==
  ASSUME NEW table \in Seq(AuditRow), NEW row \in AuditRow, NEW c
  PROVE  /\ Cardinality(RowsOfCase(table, c)) \in Nat
         /\ Cardinality(RowsOfCase(Append(table, row), c)) =
              IF row.case = c THEN Cardinality(RowsOfCase(table, c)) + 1 ELSE Cardinality(RowsOfCase(table, c))
<1> DEFINE n == Len(table)
           longer == Append(table, row)
           A == RowsOfCase(table, c)
           B == RowsOfCase(longer, c)
<1>1. n \in Nat /\ A \subseteq 1..n /\ IsFiniteSet(1..n)
  BY FS_Interval DEF RowsOfCase
<1>2. IsFiniteSet(A)
  BY <1>1, FS_Subset
<1>3. DOMAIN longer = 1..(n + 1) /\ longer[n + 1] = row /\ \A i \in 1..n : longer[i] = table[i]
  OBVIOUS
<1>4. B \ {n + 1} = A \ {n + 1} /\ n + 1 \notin A /\ (n + 1 \in B <=> row.case = c)
  <2>1. DOMAIN table = 1..n
    OBVIOUS
  <2> HIDE DEF longer, n
  <2> QED  BY <1>1, <1>3, <2>1 DEF RowsOfCase
<1> HIDE DEF A, B, n
<1>5. Cardinality(A) \in Nat /\ Cardinality(B) = IF row.case = c THEN Cardinality(A) + 1 ELSE Cardinality(A)
  BY <1>2, <1>4, ChangeOne
<1> QED  BY <1>5 DEF A, B

\* A case has a row of a kind in a table if its commits hold one.
LEMMA HasRow ==
  ASSUME NEW table \in Seq(AuditRow), NEW c, NEW kind \in Kinds, NEW n \in Nat, NEW what,
         Cardinality(RowsOfCase(table, c)) = Committed(kind, n, what)
  PROVE  /\ (\E i \in 1..n : Script(kind)[i] = what) => Within(table, Len(table), c)
         /\ Within(table, Len(table), c) => \E i \in 1..n : Script(kind)[i] = what
<1> DEFINE A == RowsOfCase(table, c)
           B == {i \in 1..n : Script(kind)[i] = what}
<1>1. IsFiniteSet(A) /\ IsFiniteSet(B)
  <2>1. A \subseteq 1..Len(table) /\ B \subseteq 1..n /\ Len(table) \in Nat
    BY DEF RowsOfCase
  <2>2. IsFiniteSet(1..Len(table)) /\ IsFiniteSet(1..n)
    BY <2>1, FS_Interval
  <2> HIDE DEF A, B
  <2> QED  BY <2>1, <2>2, FS_Subset
<1>2. Cardinality(A) = Cardinality(B)
  BY DEF Committed
<1>3. A = {} <=> B = {}
  BY <1>1, <1>2, FS_EmptySet
<1>4. A # {} <=> Within(table, Len(table), c)
  BY DEF RowsOfCase, Within
<1> QED  BY <1>3, <1>4

-----------------------------------------------------------------------------
(* The newest rows *)

\* The positions of the rows that a list has before row i.
Before(table, i) ==
  {j \in DOMAIN table : \/ table[j].at > table[i].at
                        \/ table[j].at = table[i].at /\ table[j].id > table[i].id}

\* In an ordered table they are those behind it.
LEMMA RanksFromTheEnd ==
  ASSUME NEW table \in Seq(AuditRow), InOrder(table), now \in Nat, NEW i \in 1..Len(table)
  PROVE  Cardinality(Before(table, i)) = Len(table) - i
<1> DEFINE N == Len(table)
           newer == Before(table, i)
<1>1. N \in Nat /\ DOMAIN table = 1..N /\ i \in 1..N
  OBVIOUS
<1>2. ASSUME NEW j \in 1..N
      PROVE  j \in newer <=> j > i
  <2>0. table[j] \in AuditRow /\ table[i] \in AuditRow
    OBVIOUS
  <2>1. table[j].at \in Nat /\ table[i].at \in Nat /\ table[j].id = j /\ table[i].id = i
    BY <1>1, <2>0 DEF InOrder, AuditRow
  <2>2. CASE j > i
    <3>1. table[i].at <= table[j].at
      BY <1>1, <2>2 DEF InOrder
    <3> QED  BY <1>1, <2>1, <2>2, <3>1 DEF Before
  <2>3. CASE j <= i
    <3>1. table[j].at <= table[i].at
      BY <1>1, <2>3 DEF InOrder
    <3> QED  BY <1>1, <2>1, <2>3, <3>1 DEF Before
  <2> QED  BY <1>1, <2>2, <2>3
<1>3. newer \subseteq 1..N
  BY <1>1 DEF Before
<1> HIDE DEF newer, N
<1>4. newer = (i + 1)..N
  <2>1. \A j \in 1..N : j > i <=> j \in (i + 1)..N
    BY <1>1
  <2>2. (i + 1)..N \subseteq 1..N
    BY <1>1
  <2> QED  BY <1>2, <1>3, <2>1, <2>2
<1>5. Cardinality(newer) = N - i
  BY <1>1, <1>4, FS_Interval DEF N
<1> QED  BY <1>5 DEF newer, N

\* ORDER BY created_at DESC, rowid DESC LIMIT n: the last rows, backwards.
LEMMA RecentIsTheEnd ==
  ASSUME NEW table \in Seq(AuditRow), InOrder(table), now \in Nat, NEW limit \in Nat
  PROVE  /\ Recent(table, limit) \in Seq(AuditRow)
         /\ Len(Recent(table, limit)) = IF limit < Len(table) THEN limit ELSE Len(table)
         /\ \A k \in 1..Len(Recent(table, limit)) : Recent(table, limit)[k] = table[Len(table) + 1 - k]
<1> DEFINE N == Len(table)
           n == IF limit < N THEN limit ELSE N
           Size(i) == Cardinality(Before(table, i))
           Place(rank) == CHOOSE i \in DOMAIN table : Size(i) = rank
           rows == [k \in 1..n |-> table[Place(k - 1)]]
<1>1. N \in Nat /\ DOMAIN table = 1..N /\ n \in 0..N
  OBVIOUS
<1>2. Recent(table, limit) = rows
  BY DEF Recent, Ranked, Before
<1>3. \A i \in 1..N : Size(i) = N - i
  BY RanksFromTheEnd
<1>4. ASSUME NEW k \in 1..n
      PROVE  Place(k - 1) = N + 1 - k
  <2> HIDE DEF Size, N, n
  <2>1. N + 1 - k \in 1..N /\ Size(N + 1 - k) = k - 1
    BY <1>1, <1>3
  <2>2. \A i \in 1..N : Size(i) = k - 1 => i = N + 1 - k
    BY <1>1, <1>3
  <2> QED  BY <1>1, <2>1, <2>2
<1>5. \A k \in 1..n : rows[k] = table[N + 1 - k] /\ N + 1 - k \in 1..N
  <2> HIDE DEF Place, N, n
  <2> QED  BY <1>1, <1>4
<1> HIDE DEF Place, N
<1>6. rows \in [1..n -> AuditRow]
  <2>1. \A i \in 1..N : table[i] \in AuditRow
    BY <1>1
  <2> QED  BY <1>5, <2>1
<1> HIDE DEF rows
<1>7. rows \in Seq(AuditRow) /\ Len(rows) = n
  BY <1>1, <1>6
<1> QED  BY <1>2, <1>5, <1>7 DEF N

\* What a route returns is the newest rows of the table at that moment.
LEMMA ListingIsNewest ==
  ASSUME NEW table \in Seq(AuditRow), InOrder(table), now \in Nat, NEW limit \in Limits
  PROVE  /\ IsNewest(Listing(table, limit), table)
         /\ Listing(table, limit).read /\ Listing(table, limit).total = Len(table)
         /\ Listing(table, limit).known = Len(events)
         /\ Listing(table, limit).answered = {c \in Cases : case[c].end = "answered"}
<1>1. Clamp(limit) \in 1..MaxLimit
  BY AuditAssumption DEF Clamp
<1>2. Clamp(limit) \in Nat
  BY <1>1, AuditAssumption
<1>3. Len(table) \in Nat
  OBVIOUS
<1> HIDE DEF Clamp, Recent
<1> QED  BY <1>1, <1>2, <1>3, RecentIsTheEnd DEF Listing, IsNewest

-----------------------------------------------------------------------------
(* Tables only grow *)

LEMMA OrderKept ==
  ASSUME NEW table \in Seq(AuditRow), InOrder(table), now \in Nat,
         NEW row \in AuditRow, row.id = Len(table) + 1, row.at = now
  PROVE  InOrder(Append(table, row))
<1> DEFINE n == Len(table)
           longer == Append(table, row)
<1>1. n \in Nat /\ DOMAIN table = 1..n
  OBVIOUS
<1>2. DOMAIN longer = 1..(n + 1) /\ longer[n + 1] = row /\ \A i \in 1..n : longer[i] = table[i]
  OBVIOUS
<1> HIDE DEF longer
<1>3. ASSUME NEW i \in 1..(n + 1)
      PROVE  /\ longer[i].id = i /\ longer[i].at <= now
             /\ \A j \in 1..i : longer[j].at <= longer[i].at
  <2>1. CASE i \in 1..n
    <3>1. \A j \in 1..i : j \in 1..n
      BY <1>1, <2>1
    <3> QED  BY <1>1, <1>2, <2>1, <3>1 DEF InOrder
  <2>2. CASE i = n + 1
    <3>1. \A j \in 1..n : longer[j].at <= now
      BY <1>1, <1>2 DEF InOrder
    <3>2. \A j \in 1..i : j \in 1..n \/ j = i
      BY <1>1, <2>2
    <3> QED  BY <1>2, <2>2, <3>1, <3>2 DEF AuditRow
  <2> QED  BY <1>1, <2>1, <2>2
<1>4. InOrder(longer)
  BY <1>2, <1>3 DEF InOrder
<1> QED  BY <1>4 DEF longer

LEMMA NewestKept ==
  ASSUME NEW table \in Seq(AuditRow), NEW row \in AuditRow, NEW list, IsNewest(list, table)
  PROVE  IsNewest(list, Append(table, row))
<1> DEFINE n == Len(table)
           longer == Append(table, row)
<1>1. n \in Nat /\ Len(longer) = n + 1 /\ \A i \in 1..n : longer[i] = table[i]
  OBVIOUS
<1> HIDE DEF longer
<1>2. list.total \in 0..n /\ list.total \in 0..(n + 1) /\ Len(list.rows) <= list.total
  BY <1>1, AuditAssumption DEF IsNewest
<1>3. \A k \in 1..Len(list.rows) : list.total + 1 - k \in 1..n
  BY <1>1, <1>2 DEF IsNewest
<1>4. IsNewest(list, longer)
  BY <1>1, <1>2, <1>3 DEF IsNewest
<1> QED  BY <1>4 DEF longer

LEMMA WithinKept ==
  ASSUME NEW table \in Seq(AuditRow), NEW row \in AuditRow, NEW n \in 0..Len(table), NEW c
  PROVE  Within(Append(table, row), n, c) <=> Within(table, n, c)
<1>1. \A i \in 1..n : i \in 1..Len(table) /\ Append(table, row)[i] = table[i]
  OBVIOUS
<1> QED  BY <1>1 DEF Within

\* A list still holds what it did after a commit.
LEMMA ExplainedKept ==
  ASSUME ReadsTypes, Pages, UNCHANGED page, \A c \in Cases : case'[c].kind = case[c].kind,
         tickets' = tickets \/ \E row \in AuditRow : tickets' = Append(tickets, row),
         events' = events \/ \E row \in AuditRow : events' = Append(events, row)
  PROVE  Pages'
<1>1. \A list : IsNewest(list, tickets) => IsNewest(list, tickets')
  BY NewestKept DEF ReadsTypes
<1>2. \A list : IsNewest(list, events) => IsNewest(list, events')
  BY NewestKept DEF ReadsTypes
<1>3. \A n \in 0..Len(tickets) : \A c : Within(tickets', n, c) <=> Within(tickets, n, c)
  <2>1. CASE tickets' = tickets
    BY <2>1
  <2>2. CASE \E row \in AuditRow : tickets' = Append(tickets, row)
    BY <2>2, WithinKept DEF ReadsTypes
  <2> QED  BY <2>1, <2>2
<1>4. \A n \in 0..Len(events) : \A c : Within(events', n, c) <=> Within(events, n, c)
  <2>1. CASE events' = events
    BY <2>1
  <2>2. CASE \E row \in AuditRow : events' = Append(events, row)
    BY <2>2, WithinKept DEF ReadsTypes
  <2> QED  BY <2>1, <2>2
<1>5. /\ Len(events) \in Nat /\ Len(events') \in Nat /\ Len(events) <= Len(events')
      /\ \A i \in 1..Len(events) : events'[i] = events[i] /\ events[i].case \in Cases
  <2>1. \A i \in 1..Len(events) : events[i] \in AuditRow
    BY DEF ReadsTypes
  <2>2. \A i \in 1..Len(events) : events[i].case \in Cases
    BY <2>1 DEF AuditRow
  <2>3. CASE events' = events
    BY <2>2, <2>3 DEF ReadsTypes
  <2>4. CASE \E row \in AuditRow : events' = Append(events, row)
    BY <2>2, <2>4 DEF ReadsTypes
  <2> QED  BY <2>3, <2>4
<1>6. ASSUME page.tickets.read
      PROVE  /\ IsNewest(page.tickets, tickets')
             /\ \A c \in page.tickets.answered : c \in Cases /\ Within(tickets', page.tickets.total, c)
             /\ page.tickets.known \in 0..Len(events')
             /\ \A i \in 1..page.tickets.known :
                  \/ case'[events'[i].case].kind \in Leaks
                  \/ Within(tickets', page.tickets.total, events'[i].case)
  <2>1. IsNewest(page.tickets, tickets) /\ page.tickets.total \in 0..Len(tickets)
    BY <1>6 DEF Pages, Explained, IsNewest
  <2>2. page.tickets.known \in 0..Len(events) /\ page.tickets.known \in 0..Len(events')
    BY <1>5, <1>6 DEF Pages, Explained
  <2>3. \A i \in 1..page.tickets.known :
          \/ case'[events'[i].case].kind \in Leaks
          \/ Within(tickets', page.tickets.total, events'[i].case)
    <3>1. \A i \in 1..page.tickets.known : i \in 1..Len(events)
      BY <1>5, <2>2
    <3> QED  BY <1>3, <1>5, <1>6, <2>1, <3>1 DEF Pages, Explained
  <2>4. \A c \in page.tickets.answered : c \in Cases /\ Within(tickets', page.tickets.total, c)
    BY <1>3, <1>6, <2>1 DEF Pages, Explained
  <2> QED  BY <1>1, <2>1, <2>2, <2>3, <2>4
<1>7. ASSUME page.events.read
      PROVE  /\ IsNewest(page.events, events')
             /\ \A c \in page.events.answered :
                  c \in Cases /\ (case'[c].kind # "resolved" => Within(events', page.events.total, c))
  <2>1. IsNewest(page.events, events) /\ page.events.total \in 0..Len(events)
    BY <1>7 DEF Pages, Explained, IsNewest
  <2>2. \A c \in page.events.answered :
          c \in Cases /\ (case'[c].kind # "resolved" => Within(events', page.events.total, c))
    BY <1>4, <1>7, <2>1 DEF Pages, Explained
  <2> QED  BY <1>2, <2>1, <2>2
<1>8. Explained'
  BY <1>6, <1>7 DEF Explained
<1> QED  BY <1>8 DEF Pages

-----------------------------------------------------------------------------
(* The invariant holds *)

LEMMA ReadsInitHolds == ReadsInit => ReadsInv
<1> SUFFICES ASSUME ReadsInit PROVE ReadsInv
  OBVIOUS
<1>1. ReadsTypes
  <2>1. \A c \in Cases : case[c].done = 0 /\ case[c].end = "open" /\ case[c].kind \in Kinds
    BY DEF ReadsInit
  <2>2. case \in [Cases -> [kind : Kinds, done : Nat, end : {"open", "answered", "failed"}]]
    BY DEF ReadsInit
  <2>3. \A c \in Cases : Len(Script(case[c].kind)) \in 1..3
    BY <2>1, Scripts
  <2> QED  BY <2>1, <2>2, <2>3, AuditAssumption DEF ReadsInit, ReadsTypes
<1>2. InOrder(tickets) /\ InOrder(events)
  BY DEF ReadsInit, InOrder
<1>3. Accounts
  <2> SUFFICES ASSUME NEW c \in Cases, NEW what
               PROVE  /\ Cardinality(RowsOfCase(tickets, c)) = Committed(case[c].kind, case[c].done, what)
                      /\ Cardinality(RowsOfCase(events, c)) = Committed(case[c].kind, case[c].done, what)
    BY DEF Accounts
  <2>1. RowsOfCase(tickets, c) = {} /\ RowsOfCase(events, c) = {}
    BY DEF ReadsInit, RowsOfCase
  <2>2. case[c].done = 0
    BY DEF ReadsInit
  <2>3. {i \in 1..0 : Script(case[c].kind)[i] = what} = {}
    OBVIOUS
  <2> QED  BY <2>1, <2>2, <2>3 DEF Committed
<1>4. Pages
  BY DEF ReadsInit, Pages, Explained, Unread
<1> QED  BY <1>1, <1>2, <1>3, <1>4 DEF ReadsInv

\* A commit adds a row of its case, numbered and dated last.
LEMMA CommitKeeps ==
  ASSUME ReadsInv, NEW c \in Cases, Commit(c)
  PROVE  ReadsInv'
<1> DEFINE kind == case[c].kind
           done == case[c].done
           step == done + 1
           what == Script(kind)[step]
           ticket == Row(c, tickets)
           event  == Row(c, events)
<1>1. /\ case \in [Cases -> [kind : Kinds, done : Nat, end : {"open", "answered", "failed"}]]
      /\ tickets \in Seq(AuditRow) /\ events \in Seq(AuditRow) /\ now \in Nat
      /\ kind \in Kinds /\ done \in Nat /\ case[c].end = "open"
  BY AuditAssumption DEF ReadsInv, ReadsTypes, Commit
<1>2. /\ now' = now /\ page' = page /\ step <= Len(Script(kind))
      /\ case' = [case EXCEPT ![c].done = step]
      /\ IF what = "ticket" THEN tickets' = Append(tickets, ticket) /\ events' = events
                            ELSE events' = Append(events, event) /\ tickets' = tickets
  BY DEF Commit
<1>3. what \in {"ticket", "event"} /\ Len(Script(kind)) \in 1..3
  BY <1>1, <1>2, Scripts
<1>4. /\ ticket \in AuditRow /\ ticket.case = c /\ ticket.at = now /\ ticket.id = Len(tickets) + 1
      /\ event \in AuditRow /\ event.case = c /\ event.at = now /\ event.id = Len(events) + 1
  BY <1>1 DEF Row, AuditRow
<1>5. /\ \A x \in Cases : case'[x].kind = case[x].kind /\ case'[x].end = case[x].end
      /\ \A x \in Cases \ {c} : case'[x].done = case[x].done
      /\ case'[c].done = step
      /\ case' \in [Cases -> [kind : Kinds, done : Nat, end : {"open", "answered", "failed"}]]
  <2>1. step \in Nat
    BY <1>1
  <2> HIDE DEF step
  <2> QED  BY <1>1, <1>2, <2>1
<1> HIDE DEF kind, done, step, what, ticket, event
<1>6. ReadsTypes'
  <2>1. tickets' \in Seq(AuditRow) /\ events' \in Seq(AuditRow)
    <3>1. Append(tickets, ticket) \in Seq(AuditRow) /\ Append(events, event) \in Seq(AuditRow)
      BY <1>1, <1>4
    <3> QED  BY <1>1, <1>2, <3>1
  <2>2. \A x \in Cases : /\ case'[x].done <= Len(Script(case'[x].kind))
                         /\ case'[x].end = "answered" => case'[x].done = Len(Script(case'[x].kind))
    <3> SUFFICES ASSUME NEW x \in Cases
                 PROVE  /\ case'[x].done <= Len(Script(case'[x].kind))
                        /\ case'[x].end = "answered" => case'[x].done = Len(Script(case'[x].kind))
      OBVIOUS
    <3>1. CASE x = c
      BY <1>1, <1>2, <1>5, <3>1 DEF kind
    <3>2. CASE x # c
      BY <1>5, <3>2 DEF ReadsInv, ReadsTypes
    <3> QED  BY <3>1, <3>2
  <2> QED  BY <1>2, <1>5, <2>1, <2>2 DEF ReadsInv, ReadsTypes
<1>7. InOrder(tickets)' /\ InOrder(events)'
  <2>1. InOrder(tickets') /\ InOrder(events')
    BY <1>1, <1>2, <1>4, OrderKept DEF ReadsInv
  <2> QED  BY <1>2, <2>1 DEF InOrder
<1>8. Accounts'
  <2> SUFFICES ASSUME NEW x \in Cases
               PROVE  /\ Cardinality(RowsOfCase(tickets', x)) = Committed(case'[x].kind, case'[x].done, "ticket")
                      /\ Cardinality(RowsOfCase(events', x)) = Committed(case'[x].kind, case'[x].done, "event")
    BY DEF Accounts
  <2>1. /\ Cardinality(RowsOfCase(tickets, x)) = Committed(case[x].kind, case[x].done, "ticket")
        /\ Cardinality(RowsOfCase(events, x)) = Committed(case[x].kind, case[x].done, "event")
    BY DEF ReadsInv, Accounts
  <2>2. /\ Cardinality(RowsOfCase(tickets', x)) = Cardinality(RowsOfCase(tickets, x)) + (IF x = c /\ what = "ticket" THEN 1 ELSE 0)
        /\ Cardinality(RowsOfCase(events', x)) = Cardinality(RowsOfCase(events, x)) + (IF x = c /\ what = "event" THEN 1 ELSE 0)
    <3>1. Cardinality(RowsOfCase(tickets, x)) \in Nat /\ Cardinality(RowsOfCase(events, x)) \in Nat
      BY <1>1, <1>4, RowAppended
    <3>a. Cardinality(RowsOfCase(Append(tickets, ticket), x)) =
            IF c = x THEN Cardinality(RowsOfCase(tickets, x)) + 1 ELSE Cardinality(RowsOfCase(tickets, x))
      BY <1>1, <1>4, RowAppended
    <3>b. Cardinality(RowsOfCase(Append(events, event), x)) =
            IF c = x THEN Cardinality(RowsOfCase(events, x)) + 1 ELSE Cardinality(RowsOfCase(events, x))
      BY <1>1, <1>4, RowAppended
    <3>2. CASE what = "ticket"
      <4>1. tickets' = Append(tickets, ticket) /\ events' = events /\ what # "event"
        BY <1>2, <3>2
      <4> QED  BY <3>1, <3>2, <3>a, <4>1
    <3>3. CASE what = "event"
      <4>1. events' = Append(events, event) /\ tickets' = tickets /\ what # "ticket"
        BY <1>2, <3>3
      <4> QED  BY <3>1, <3>3, <3>b, <4>1
    <3> QED  BY <1>3, <3>2, <3>3
  <2>3. CASE x # c
    <3>1. case'[x].kind = case[x].kind /\ case'[x].done = case[x].done
      BY <1>5, <2>3
    <3>2. Cardinality(RowsOfCase(tickets, x)) \in Nat /\ Cardinality(RowsOfCase(events, x)) \in Nat
      BY <1>1, <1>4, RowAppended
    <3> QED  BY <2>1, <2>2, <2>3, <3>1, <3>2
  <2>4. CASE x = c
    <3>1. done < Len(Script(kind))
      BY <1>1, <1>2, <1>3 DEF step
    <3>2. \A w : Committed(kind, step, w) = IF what = w THEN Committed(kind, done, w) + 1 ELSE Committed(kind, done, w)
      BY <1>1, <3>1, CommittedNext DEF step, what
    <3>3. \A w : Committed(kind, done, w) \in Nat
      BY <1>1, <3>1, CommittedNext
    <3>4. case'[x].kind = kind /\ case'[x].done = step
      BY <1>5, <2>4 DEF kind
    <3>5. case[x].kind = kind /\ case[x].done = done
      BY <2>4 DEF kind, done
    <3> QED  BY <1>3, <2>1, <2>2, <2>4, <3>2, <3>3, <3>4, <3>5
  <2> QED  BY <2>3, <2>4
<1>9. Pages'
  <2>1. tickets' = tickets \/ \E row \in AuditRow : tickets' = Append(tickets, row)
    BY <1>2, <1>4
  <2>2. events' = events \/ \E row \in AuditRow : events' = Append(events, row)
    BY <1>2, <1>4
  <2> QED  BY <1>2, <1>5, <2>1, <2>2, ExplainedKept DEF ReadsInv
<1> QED  BY <1>6, <1>7, <1>8, <1>9 DEF ReadsInv

\* A step that leaves rows, kinds and commits alone.
LEMMA SameTablesKeep ==
  ASSUME ReadsInv, UNCHANGED <<tickets, events, page>>, now' \in now..MaxSeconds,
         case' \in [Cases -> [kind : Kinds, done : Nat, end : {"open", "answered", "failed"}]],
         \A c \in Cases : /\ case'[c].kind = case[c].kind /\ case'[c].done = case[c].done
                          /\ case'[c].end = "answered" => case[c].done = Len(Script(case[c].kind))
  PROVE  ReadsInv'
<1>1. ReadsTypes'
  BY DEF ReadsInv, ReadsTypes
<1>2. InOrder(tickets)' /\ InOrder(events)'
  <2>1. ASSUME NEW table \in Seq(AuditRow), InOrder(table), NEW i \in DOMAIN table
        PROVE  table[i].at <= now'
    <3>1. table[i] \in AuditRow
      OBVIOUS
    <3>2. table[i].at \in Nat /\ table[i].at <= now /\ now \in Nat
      BY <2>1, <3>1, AuditAssumption DEF AuditRow, InOrder, ReadsInv, ReadsTypes
    <3> QED  BY <3>2, AuditAssumption
  <2> QED  BY <2>1 DEF InOrder, ReadsInv, ReadsTypes
<1>3. Accounts'
  BY DEF ReadsInv, Accounts
<1>4. Pages'
  BY ExplainedKept DEF ReadsInv
<1> QED  BY <1>1, <1>2, <1>3, <1>4 DEF ReadsInv

\* A case that was answered has its rows.
LEMMA AnsweredIsStored ==
  ASSUME ReadsInv, NEW c \in Cases, case[c].end = "answered"
  PROVE  /\ Within(tickets, Len(tickets), c)
         /\ case[c].kind # "resolved" => Within(events, Len(events), c)
<1>1. case[c].kind \in Kinds /\ case[c].done = Len(Script(case[c].kind)) /\ case[c].done \in Nat
  BY DEF ReadsInv, ReadsTypes
<1>2. /\ \E i \in 1..case[c].done : Script(case[c].kind)[i] = "ticket"
      /\ case[c].kind # "resolved" => \E i \in 1..case[c].done : Script(case[c].kind)[i] = "event"
  BY <1>1, Scripts
<1>3. /\ Cardinality(RowsOfCase(tickets, c)) = Committed(case[c].kind, case[c].done, "ticket")
      /\ Cardinality(RowsOfCase(events, c)) = Committed(case[c].kind, case[c].done, "event")
      /\ tickets \in Seq(AuditRow) /\ events \in Seq(AuditRow)
  BY DEF ReadsInv, Accounts, ReadsTypes
<1> QED  BY <1>1, <1>2, <1>3, HasRow

\* A case with an event has its ticket, unless a leak of it was withheld.
LEMMA EventFollowsTicket ==
  ASSUME ReadsInv, NEW i \in 1..Len(events)
  PROVE  \/ case[events[i].case].kind \in Leaks
         \/ Within(tickets, Len(tickets), events[i].case)
<1> DEFINE c == events[i].case
           kind == case[c].kind
           done == case[c].done
<1>1. tickets \in Seq(AuditRow) /\ events \in Seq(AuditRow)
  BY DEF ReadsInv, ReadsTypes
<1>2. events[i] \in AuditRow
  BY <1>1
<1>3. c \in Cases /\ Within(events, Len(events), c)
  BY <1>2 DEF AuditRow, Within
<1>4. kind \in Kinds /\ done \in Nat
  BY <1>3 DEF ReadsInv, ReadsTypes
<1>5. /\ Cardinality(RowsOfCase(tickets, c)) = Committed(kind, done, "ticket")
      /\ Cardinality(RowsOfCase(events, c)) = Committed(kind, done, "event")
  BY <1>3 DEF ReadsInv, Accounts
<1> HIDE DEF c, kind, done
<1>6. \E k \in 1..done : Script(kind)[k] = "event"
  BY <1>1, <1>3, <1>4, <1>5, HasRow
<1>7. CASE kind \notin Leaks
  <2>1. 1 \in 1..done /\ Script(kind)[1] = "ticket"
    BY <1>4, <1>6, <1>7, Scripts
  <2>2. Within(tickets, Len(tickets), c)
    BY <1>1, <1>4, <1>5, <2>1, HasRow
  <2> QED  BY <2>2 DEF c
<1> QED  BY <1>7 DEF c, kind

LEMMA GetTicketsKeeps == ReadsInv /\ GetTickets => ReadsInv'
<1> SUFFICES ASSUME ReadsInv, GetTickets PROVE ReadsInv'
  OBVIOUS
<1>1. UNCHANGED <<now, case, tickets, events>>
  BY DEF GetTickets
<1>2. ReadsTypes' /\ InOrder(tickets)' /\ InOrder(events)' /\ Accounts'
  BY <1>1 DEF ReadsInv, ReadsTypes, InOrder, Accounts
<1>3. PICK limit \in Limits : page' = [page EXCEPT !.tickets = Listing(tickets, limit)]
  BY DEF GetTickets
<1> DEFINE list == Listing(tickets, limit)
<1>4. /\ tickets \in Seq(AuditRow) /\ InOrder(tickets) /\ now \in Nat /\ Len(events) \in Nat
      /\ DOMAIN page = {"tickets", "events"}
  BY AuditAssumption DEF ReadsInv, ReadsTypes, Pages
<1>5. /\ IsNewest(list, tickets) /\ list.total = Len(tickets) /\ list.known = Len(events)
      /\ list.answered = {c \in Cases : case[c].end = "answered"}
  BY <1>4, ListingIsNewest
<1> HIDE DEF list
<1>6. page'.tickets = list /\ page'.events = page.events /\ DOMAIN page' = {"tickets", "events"}
  BY <1>3, <1>4 DEF list
<1>7. \A c \in list.answered : c \in Cases /\ Within(tickets, list.total, c)
  BY <1>5, AnsweredIsStored
<1>8. \A i \in 1..list.known : \/ case[events[i].case].kind \in Leaks
                               \/ Within(tickets, list.total, events[i].case)
  BY <1>5, EventFollowsTicket
<1>9. Pages'
  <2>1. /\ IsNewest(page'.tickets, tickets')
        /\ \A c \in page'.tickets.answered : c \in Cases /\ Within(tickets', page'.tickets.total, c)
        /\ page'.tickets.known \in 0..Len(events')
        /\ \A i \in 1..page'.tickets.known :
             \/ case'[events'[i].case].kind \in Leaks
             \/ Within(tickets', page'.tickets.total, events'[i].case)
    BY <1>1, <1>4, <1>5, <1>6, <1>7, <1>8
  <2>2. page'.events.read =>
          /\ IsNewest(page'.events, events')
          /\ \A c \in page'.events.answered :
               c \in Cases /\ (case'[c].kind # "resolved" => Within(events', page'.events.total, c))
    BY <1>1, <1>6 DEF ReadsInv, Pages, Explained
  <2>3. Explained'
    BY <2>1, <2>2 DEF Explained
  <2> QED  BY <1>6, <2>3 DEF Pages
<1> QED  BY <1>2, <1>9 DEF ReadsInv

LEMMA GetEventsKeeps == ReadsInv /\ GetEvents => ReadsInv'
<1> SUFFICES ASSUME ReadsInv, GetEvents PROVE ReadsInv'
  OBVIOUS
<1>1. UNCHANGED <<now, case, tickets, events>>
  BY DEF GetEvents
<1>2. ReadsTypes' /\ InOrder(tickets)' /\ InOrder(events)' /\ Accounts'
  BY <1>1 DEF ReadsInv, ReadsTypes, InOrder, Accounts
<1>3. PICK limit \in Limits : page' = [page EXCEPT !.events = Listing(events, limit)]
  BY DEF GetEvents
<1> DEFINE list == Listing(events, limit)
<1>4. /\ events \in Seq(AuditRow) /\ InOrder(events) /\ now \in Nat
      /\ DOMAIN page = {"tickets", "events"}
  BY AuditAssumption DEF ReadsInv, ReadsTypes, Pages
<1>5. /\ IsNewest(list, events) /\ list.total = Len(events)
      /\ list.answered = {c \in Cases : case[c].end = "answered"}
  BY <1>4, ListingIsNewest
<1> HIDE DEF list
<1>6. page'.events = list /\ page'.tickets = page.tickets /\ DOMAIN page' = {"tickets", "events"}
  BY <1>3, <1>4 DEF list
<1>7. \A c \in list.answered : c \in Cases /\ (case[c].kind # "resolved" => Within(events, list.total, c))
  BY <1>5, AnsweredIsStored
<1>8. Pages'
  <2>1. /\ IsNewest(page'.events, events')
        /\ \A c \in page'.events.answered :
             c \in Cases /\ (case'[c].kind # "resolved" => Within(events', page'.events.total, c))
    BY <1>1, <1>5, <1>6, <1>7
  <2>2. page'.tickets.read =>
          /\ IsNewest(page'.tickets, tickets')
          /\ \A c \in page'.tickets.answered : c \in Cases /\ Within(tickets', page'.tickets.total, c)
          /\ page'.tickets.known \in 0..Len(events')
          /\ \A i \in 1..page'.tickets.known :
               \/ case'[events'[i].case].kind \in Leaks
               \/ Within(tickets', page'.tickets.total, events'[i].case)
    BY <1>1, <1>6 DEF ReadsInv, Pages, Explained
  <2>3. Explained'
    BY <2>1, <2>2 DEF Explained
  <2> QED  BY <1>6, <2>3 DEF Pages
<1> QED  BY <1>2, <1>8 DEF ReadsInv

LEMMA ReadsStepKeeps == ReadsInv /\ [ReadsNext]_readsVars => ReadsInv'
<1> SUFFICES ASSUME ReadsInv, [ReadsNext]_readsVars PROVE ReadsInv'
  OBVIOUS
<1>1. /\ case \in [Cases -> [kind : Kinds, done : Nat, end : {"open", "answered", "failed"}]]
      /\ now \in 0..MaxSeconds /\ now \in now..MaxSeconds
      /\ \A c \in Cases : case[c].end = "answered" => case[c].done = Len(Script(case[c].kind))
  BY AuditAssumption DEF ReadsInv, ReadsTypes
<1>2. CASE Tick
  <2>1. now' \in now..MaxSeconds
    BY <1>1, <1>2, AuditAssumption DEF Tick
  <2> QED  BY <1>1, <1>2, <2>1, SameTablesKeep DEF Tick
<1>3. ASSUME NEW c \in Cases, Answer(c) \/ Fail(c)
      PROVE  ReadsInv'
  <2>1. PICK end \in {"answered", "failed"} :
          /\ case' = [case EXCEPT ![c].end = end]
          /\ end = "answered" => case[c].done = Len(Script(case[c].kind))
    BY <1>3 DEF Answer, Fail
  <2>2. UNCHANGED <<now, tickets, events, page>>
    BY <1>3 DEF Answer, Fail
  <2>3. /\ case' \in [Cases -> [kind : Kinds, done : Nat, end : {"open", "answered", "failed"}]]
        /\ \A x \in Cases : case'[x].kind = case[x].kind /\ case'[x].done = case[x].done
        /\ \A x \in Cases : case'[x].end = IF x = c THEN end ELSE case[x].end
    BY <1>1, <2>1
  <2>4. \A x \in Cases : case'[x].end = "answered" => case[x].done = Len(Script(case[x].kind))
    BY <1>1, <2>1, <2>3
  <2> QED  BY <1>1, <2>2, <2>3, <2>4, SameTablesKeep
<1>4. CASE UNCHANGED readsVars
  BY <1>1, <1>4, SameTablesKeep DEF readsVars
<1> QED  BY <1>2, <1>3, <1>4, CommitKeeps, GetTicketsKeeps, GetEventsKeeps DEF ReadsNext

\* The invariant holds of every reachable state.
THEOREM ReadsInvariance == ReadsSpec => []ReadsInv
BY ReadsInitHolds, ReadsStepKeeps, PTL DEF ReadsSpec

-----------------------------------------------------------------------------
(* What it says *)

\* A table's rows are its cases' commits, numbered in the order of their times.
LEMMA ReadsTyped == ReadsInv => ReadsTypeOK
<1> SUFFICES ASSUME ReadsInv PROVE ReadsTypeOK
  OBVIOUS
<1>1. ASSUME NEW c \in Cases
      PROVE  LET done == SubSeq(Script(case[c].kind), 1, case[c].done) IN
             /\ case[c].end \in {"open", "answered", "failed"}
             /\ Cardinality({i \in DOMAIN tickets : tickets[i].case = c})
                  = Cardinality({i \in DOMAIN done : done[i] = "ticket"})
             /\ Cardinality({i \in DOMAIN events : events[i].case = c})
                  = Cardinality({i \in DOMAIN done : done[i] = "event"})
  <2> DEFINE script == Script(case[c].kind)
             n == case[c].done
             done == SubSeq(script, 1, n)
  <2>1. /\ case[c].kind \in Kinds /\ n \in Nat /\ n <= Len(script)
        /\ case[c].end \in {"open", "answered", "failed"}
    BY DEF ReadsInv, ReadsTypes
  <2>2. script \in Seq({"ticket", "event"}) /\ n \in 0..Len(script)
    <3>1. script \in [1..Len(script) -> {"ticket", "event"}] /\ Len(script) \in Nat
      <4>1. \A kind : Script(kind) = [i \in DOMAIN Script(kind) |-> Script(kind)[i]]
               \/ kind \notin {"resolved", "refused", "guarded"} \cup Leaks
        BY DEF Script, Leaks
      <4> QED  BY <2>1, <4>1, Scripts, AuditAssumption
    <3> QED  BY <2>1, <3>1
  <2> HIDE DEF script, n
  <2>3. DOMAIN done = 1..n /\ \A i \in 1..n : done[i] = script[i]
    <3>1. done \in Seq({"ticket", "event"}) /\ Len(done) = n /\ \A i \in 1..n : done[i] = script[i]
      BY <2>2, FirstElements
    <3> QED  BY <3>1
  <2> HIDE DEF done
  <2>4. \A what : {i \in DOMAIN done : done[i] = what} = {i \in 1..n : script[i] = what}
    BY <2>3
  <2>5. \A what : Cardinality({i \in DOMAIN done : done[i] = what}) = Committed(case[c].kind, case[c].done, what)
    BY <2>4 DEF Committed, script, n
  <2>6. /\ Cardinality({i \in DOMAIN tickets : tickets[i].case = c}) = Committed(case[c].kind, case[c].done, "ticket")
        /\ Cardinality({i \in DOMAIN events : events[i].case = c}) = Committed(case[c].kind, case[c].done, "event")
    BY DEF ReadsInv, Accounts, RowsOfCase
  <2> QED  BY <2>1, <2>5, <2>6 DEF done, script, n
<1>2. ASSUME NEW table \in {tickets, events}, NEW i \in DOMAIN table
      PROVE  table[i].id = i /\ (i > 1 => table[i - 1].at <= table[i].at)
  <2>1. table \in Seq(AuditRow) /\ InOrder(table)
    BY DEF ReadsInv, ReadsTypes
  <2>2. i > 1 => i - 1 \in 1..i
    BY <2>1
  <2> QED  BY <2>1, <2>2 DEF InOrder
<1> QED  BY <1>1, <1>2 DEF ReadsInv, ReadsTypes, ReadsTypeOK

THEOREM ReadsTypeCorrectness == ReadsSpec => []ReadsTypeOK
BY ReadsTyped, ReadsInvariance, PTL

\* A list is the table's newest rows, newest first and without a gap, for every
\* limit asked for (repo.py:114-147, main.py:117-136).
THEOREM ListsAreNewestFirst == ReadsSpec => []NewestFirst
<1>1. ReadsInv => NewestFirst
  <2> SUFFICES ASSUME ReadsInv, NEW name \in {"tickets", "events"}, page[name].read
               PROVE  LET list == page[name]
                          n    == Len(list.rows)
                      IN  /\ list.total > 0 => n \in 1..MaxLimit
                          /\ n < list.limit => n = list.total
                          /\ \A i \in 1..n : list.rows[i] = TableOf(name)[list.total + 1 - i]
    BY DEF NewestFirst, ReadsInv, Pages
  <2>1. IsNewest(page[name], TableOf(name))
    BY DEF TableOf, ReadsInv, Pages, Explained
  <2>2. Len(TableOf(name)) \in Nat
    BY DEF TableOf, ReadsInv, ReadsTypes
  <2> QED  BY <2>1, <2>2, AuditAssumption DEF IsNewest
<1> QED  BY <1>1, ReadsInvariance, PTL

\* A list that is not full holds its whole table as it was.
LEMMA NotFullIsWhole ==
  ASSUME NEW list, NEW table, Len(table) \in Nat, IsNewest(list, table), ~Full(list)
  PROVE  /\ Len(list.rows) = list.total
         /\ \A c : Within(table, list.total, c) => Listed(list, c)
<1>1. list.total \in Nat /\ Len(list.rows) = list.total /\ DOMAIN list.rows = 1..list.total
  BY AuditAssumption DEF IsNewest, Full
<1>2. ASSUME NEW i \in 1..list.total
      PROVE  list.total + 1 - i \in 1..list.total /\ list.rows[list.total + 1 - i] = table[i]
  <2>1. list.total + 1 - i \in 1..list.total /\ list.total + 1 - (list.total + 1 - i) = i
    BY <1>1
  <2> QED  BY <1>1, <2>1 DEF IsNewest
<1> QED  BY <1>1, <1>2 DEF Within, Listed

\* Neither list has what the other, read before or after, cannot account for, for
\* every number of cases and whenever the client reads (service.py:45-77, 102-116).
THEOREM ListsAlwaysExplain == ReadsSpec => []ListsExplainEachOther
<1>1. ReadsInv => AnsweredCasesAreExplained
  <2> SUFFICES ASSUME ReadsInv PROVE AnsweredCasesAreExplained
    OBVIOUS
  <2>1. Len(tickets) \in Nat /\ Len(events) \in Nat
    BY DEF ReadsInv, ReadsTypes
  <2> QED  BY <2>1, NotFullIsWhole DEF ReadsInv, Pages, Explained, AnsweredCasesAreExplained
<1>2. ReadsInv => OnlyLeaksAreOrphans
  <2> SUFFICES ASSUME ReadsInv, page.tickets.read, page.events.read, ~Full(page.tickets),
                      NEW k \in DOMAIN page.events.rows,
                      page.events.rows[k].id <= page.tickets.known
               PROVE  \/ case[page.events.rows[k].case].kind \in Leaks
                      \/ Listed(page.tickets, page.events.rows[k].case)
    BY DEF OnlyLeaksAreOrphans
  <2>1. Len(tickets) \in Nat /\ Len(events) \in Nat /\ DOMAIN events = 1..Len(events)
    BY DEF ReadsInv, ReadsTypes
  <2>2. /\ page.events.total \in 0..Len(events) /\ Len(page.events.rows) <= page.events.total
        /\ k \in 1..Len(page.events.rows) /\ Len(page.events.rows) \in Nat
        /\ page.events.rows[k] = events[page.events.total + 1 - k]
    <3>1. IsNewest(page.events, events)
      BY DEF ReadsInv, Pages, Explained
    <3>2. DOMAIN page.events.rows = 1..Len(page.events.rows) /\ Len(page.events.rows) \in Nat
      BY <3>1 DEF IsNewest
    <3>3. page.events.total \in 0..Len(events) /\ page.events.limit \in Nat
      BY <3>1, AuditAssumption DEF IsNewest
    <3>4. Len(page.events.rows) <= page.events.total
      BY <2>1, <3>1, <3>3 DEF IsNewest
    <3>5. k \in 1..Len(page.events.rows)
      BY <3>2
    <3> QED  BY <3>1, <3>2, <3>3, <3>4, <3>5 DEF IsNewest
  <2>3. PICK i \in 1..Len(events) : i = page.events.total + 1 - k
    BY SMTT(20), <2>1, <2>2
  <2>4. page.events.rows[k] = events[i] /\ events[i].id = i
    BY <2>1, <2>2, <2>3 DEF ReadsInv, InOrder
  <2>5. page.tickets.known \in 0..Len(events)
    BY DEF ReadsInv, Pages, Explained
  <2>6. i \in 1..page.tickets.known
    BY <2>1, <2>4, <2>5
  <2>7. \/ case[events[i].case].kind \in Leaks
        \/ Within(tickets, page.tickets.total, events[i].case)
    BY <2>6 DEF ReadsInv, Pages, Explained
  <2>8. IsNewest(page.tickets, tickets)
    BY DEF ReadsInv, Pages, Explained
  <2> QED  BY <2>1, <2>4, <2>7, <2>8, NotFullIsWhole
<1> QED  BY <1>1, <1>2, ReadsInvariance, PTL DEF ListsExplainEachOther

-----------------------------------------------------------------------------
(* Both records side by side *)

\* Whichever record moves while the other rests, both are of their types.
THEOREM RecordsTypeCorrectness == Spec => []TypeOK
<1> DEFINE Both == ReadsInv /\ Inv
<1>1. Init => Both
  BY ReadsInitHolds, InitHolds DEF Init, ReadsRest, UsageRest
<1>2. Both /\ [Next]_<<part, readsVars, usageVars>> => Both'
  <2>1. [Next]_<<part, readsVars, usageVars>> => [ReadsNext]_readsVars /\ [UsageNext]_usageVars
    BY DEF Next
  <2> QED  BY <2>1, ReadsStepKeeps, UsageStepKeeps
<1>3. Both => TypeOK
  BY ReadsTyped, UsageTyped DEF TypeOK
<1> HIDE DEF Both
<1> QED  BY <1>1, <1>2, <1>3, PTL DEF Spec
=============================================================================
