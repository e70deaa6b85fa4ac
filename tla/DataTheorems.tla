---------------------------- MODULE DataTheorems ----------------------------
(***************************************************************************)
(* Facts about numbers, finite sets and sequences that the proofs of the   *)
(* components share.  The library's induction theorems take an operator as *)
(* a parameter; the ones here take a set, so that any backend can use      *)
(* them: to prove P(n) for every n, show that {n \in Nat : P(n)} holds 0   *)
(* and is closed under successor.                                          *)
(***************************************************************************)
EXTENDS Integers, Sequences, FiniteSets, Functions,
        FiniteSetTheorems, SequenceTheorems, TLAPS

-----------------------------------------------------------------------------
(* Induction *)

\* Every set of naturals has a least one: the intervals 1..n are finite sets,
\* and strict inclusion of finite sets is well-founded.
LEMMA LeastNatural ==
  ASSUME NEW T \in SUBSET Nat, T # {}
  PROVE  \E n \in T : \A m \in T : n <= m
<1> DEFINE Below == {1..n : n \in T}
<1>1. \A n \in T : IsFiniteSet(1..n) /\ 1..n \in SUBSET Nat
  BY FS_Interval
<1>2. Below \subseteq FiniteSubsetsOf(Nat) /\ Below # {}
  BY <1>1 DEF FiniteSubsetsOf
<1>3. \E x \in Below : \A y \in Below : ~ (<<y, x>> \in StrictSubsetOrdering(Nat))
  BY <1>2, WFMin, FS_StrictSubsetOrderingWellFounded
<1>4. PICK n \in T : \A m \in T : ~ (<<1..m, 1..n>> \in StrictSubsetOrdering(Nat))
  BY <1>3
<1>5. ASSUME NEW m \in T, m < n PROVE FALSE
  <2>1. n \in 1..n /\ n \notin 1..m
    BY <1>5
  <2>2. 1..m \subseteq 1..n /\ 1..m # 1..n /\ 1..m \in SUBSET Nat /\ 1..n \in SUBSET Nat
    BY <1>5, <1>1, <2>1
  <2> QED  BY <2>2, <1>4 DEF StrictSubsetOrdering
<1> QED  BY <1>4, <1>5

\* The last index of a set of them.
LEMMA GreatestIndex ==
  ASSUME NEW n \in Nat, NEW T \in SUBSET (1..n), T # {}
  PROVE  \E i \in T : \A j \in T : j <= i
<1> DEFINE D == {n - i : i \in T}
<1>1. D \in SUBSET Nat /\ D # {}
  <2>1. \A i \in T : n - i \in Nat
    OBVIOUS
  <2> QED  BY <2>1
<1>2. PICK d \in D : \A m \in D : d <= m
  <2> HIDE DEF D
  <2> QED  BY <1>1, LeastNatural
<1>3. PICK i \in T : d = n - i
  OBVIOUS
<1>4. \A j \in T : n - i <= n - j
  BY <1>2, <1>3
<1>5. \A j \in T : j \in Nat
  OBVIOUS
<1> QED  BY <1>4, <1>5

\* A set with 0 that is closed under successor holds every natural.
LEMMA NatSetInduction ==
  ASSUME NEW T \in SUBSET Nat, 0 \in T, \A n \in T : n + 1 \in T
  PROVE  T = Nat
<1>1. SUFFICES ASSUME T # Nat PROVE FALSE
  OBVIOUS
<1>2. PICK n \in Nat \ T : \A m \in Nat \ T : n <= m
  BY <1>1, LeastNatural
<1>3. n - 1 \in Nat /\ n - 1 \in T
  BY <1>2
<1> QED  BY <1>2, <1>3

\* A family of subsets of a finite set S that holds the empty one and is closed
\* under adding an element of S holds S.
LEMMA FiniteFamilyInduction ==
  ASSUME NEW S, IsFiniteSet(S), NEW G \in SUBSET (SUBSET S), {} \in G,
         \A A \in G : \A x \in S \ A : A \cup {x} \in G
  PROVE  S \in G
<1> DEFINE T == {n \in Nat : \A A \in SUBSET S : Cardinality(A) = n => A \in G}
<1>1. \A A \in SUBSET S : IsFiniteSet(A) /\ Cardinality(A) \in Nat
  BY FS_Subset, FS_CardinalityType
<1>2. 0 \in T
  BY <1>1, FS_EmptySet
<1>3. ASSUME NEW n \in T PROVE n + 1 \in T
  <2>1. SUFFICES ASSUME NEW A \in SUBSET S, Cardinality(A) = n + 1
                 PROVE  A \in G
    OBVIOUS
  <2>2. PICK x \in A : TRUE
    BY <2>1, <1>1, FS_EmptySet
  <2>3. A \ {x} \in SUBSET S /\ Cardinality(A \ {x}) = n
    <3>1. IsFiniteSet(A) /\ A \ {x} \in SUBSET S
      BY <1>1
    <3>2. Cardinality(A \ {x}) = Cardinality(A) - 1
      BY <3>1, FS_RemoveElement
    <3>3. n \in Nat
      OBVIOUS
    <3> QED  BY <2>1, <3>1, <3>2, <3>3
  <2>4. A \ {x} \in G /\ x \in S \ (A \ {x}) /\ A = (A \ {x}) \cup {x}
    BY <2>2, <2>3
  <2> QED  BY <2>4
<1>4. T = Nat
  <2> HIDE DEF T
  <2> QED  BY <1>2, <1>3, NatSetInduction, T \in SUBSET Nat DEF T
<1> QED  BY <1>1, <1>4
-----------------------------------------------------------------------------
(* Sequences *)

\* The functions on 1..k, for k up to n, are the sequences of length up to n.
LEMMA BoundedSequences ==
  ASSUME NEW S, NEW n \in Nat
  PROVE  \A seq : seq \in UNION {[1..k -> S] : k \in 0..n} <=> seq \in Seq(S) /\ Len(seq) <= n
<1>1. ASSUME NEW seq \in UNION {[1..k -> S] : k \in 0..n}
      PROVE  seq \in Seq(S) /\ Len(seq) <= n
  <2>1. PICK k \in 0..n : seq \in [1..k -> S]
    BY <1>1
  <2>2. seq \in Seq(S) /\ Len(seq) = k
    BY <2>1
  <2> QED  BY <2>1, <2>2
<1>2. ASSUME NEW seq \in Seq(S), Len(seq) <= n
      PROVE  seq \in UNION {[1..k -> S] : k \in 0..n}
  <2>1. seq \in [1..Len(seq) -> S] /\ Len(seq) \in 0..n
    BY <1>2, LenProperties
  <2> QED  BY <2>1
<1> QED  BY <1>1, <1>2

\* The first n elements, and then one more.
LEMMA FirstElements ==
  ASSUME NEW S, NEW seq \in Seq(S), NEW n \in 0..Len(seq)
  PROVE  /\ SubSeq(seq, 1, n) \in Seq(S)
         /\ Len(SubSeq(seq, 1, n)) = n
         /\ \A i \in 1..n : SubSeq(seq, 1, n)[i] = seq[i]
         /\ n < Len(seq) => SubSeq(seq, 1, n + 1) = Append(SubSeq(seq, 1, n), seq[n + 1])
  OBVIOUS

\* All the first elements are the sequence.
LEMMA AllElements ==
  ASSUME NEW S, NEW seq \in Seq(S)
  PROVE  SubSeq(seq, 1, Len(seq)) = seq
  OBVIOUS

-----------------------------------------------------------------------------
(* Counting *)

\* Two sets that differ in one element at most differ by one at most.
LEMMA ChangeOne ==
  ASSUME NEW A, IsFiniteSet(A), NEW B, NEW x, B \ {x} = A \ {x}
  PROVE  /\ IsFiniteSet(B) /\ Cardinality(A) \in Nat /\ Cardinality(B) \in Nat
         /\ x \in A /\ x \in B => Cardinality(B) = Cardinality(A)
         /\ x \notin A /\ x \notin B => Cardinality(B) = Cardinality(A)
         /\ x \notin A /\ x \in B => Cardinality(B) = Cardinality(A) + 1
         /\ x \in A /\ x \notin B => Cardinality(B) = Cardinality(A) - 1
<1>1. CASE (x \in A) <=> (x \in B)
  <2>1. A = B
    BY <1>1
  <2> QED  BY <2>1, FS_CardinalityType
<1>2. CASE x \notin A /\ x \in B
  <2>1. B = A \cup {x}
    BY <1>2
  <2> QED  BY <1>2, <2>1, FS_AddElement, FS_CardinalityType
<1>3. CASE x \in A /\ x \notin B
  <2>1. B = A \ {x}
    BY <1>3
  <2>2. IsFiniteSet(B) /\ Cardinality(B) = Cardinality(A) - 1
    BY <1>3, <2>1, FS_RemoveElement
  <2> QED  BY <1>3, <2>2, FS_CardinalityType
<1> QED  BY <1>1, <1>2, <1>3

\* Tables of rows of S by key; named, as the next two are, for the provers do
\* not find a set of functions or an EXCEPT to apply a lemma to.
TablesOf(R, S) == [R -> Seq(S)]

\* A table with one more row under a key.
Appended(table, r, e) == [table EXCEPT ![r] = Append(@, e)]

\* The positions, among the first m of each sequence of a table, that hold an
\* element of Q.
RowsIn(R, table, m, Q) ==
  {row \in R \X (1..m) : row[2] \in DOMAIN table[row[1]] /\ table[row[1]][row[2]] \in Q}

\* Appending to one sequence adds one row at most.
LEMMA AppendRow ==
  ASSUME NEW R, IsFiniteSet(R), NEW S, NEW table \in TablesOf(R, S), NEW m \in Nat, NEW Q,
         NEW r \in R, NEW e \in S, Len(table[r]) < m
  PROVE  LET before == Cardinality(RowsIn(R, table, m, Q))
             now    == Cardinality(RowsIn(R, Appended(table, r, e), m, Q))
         IN  /\ before \in Nat /\ now \in Nat
             /\ e \in Q => now = before + 1
             /\ e \notin Q => now = before
<1> DEFINE after == Appended(table, r, e)
           n == Len(table[r]) + 1
           A == RowsIn(R, table, m, Q)
           B == RowsIn(R, after, m, Q)
<1> USE DEF TablesOf, Appended
<1>1. table[r] \in Seq(S) /\ n \in 1..m /\ Len(table[r]) \in Nat
  OBVIOUS
<1>2. /\ after \in [R -> Seq(S)]
      /\ DOMAIN table[r] = 1..n - 1 /\ DOMAIN after[r] = 1..n
      /\ after[r][n] = e /\ \A i \in 1..n - 1 : after[r][i] = table[r][i]
      /\ \A q \in R : q # r => after[q] = table[q]
  BY <1>1
<1>3. IsFiniteSet(A)
  <2>1. IsFiniteSet(1..m)
    BY FS_Interval
  <2>2. IsFiniteSet(R \X (1..m))
    BY <2>1, FS_Product
  <2>3. A \subseteq R \X (1..m)
    BY DEF RowsIn
  <2> QED  BY <2>2, <2>3, FS_Subset
<1>4. <<r, n>> \notin A /\ (<<r, n>> \in B <=> e \in Q)
  BY <1>1, <1>2 DEF RowsIn
<1>5. B \ {<<r, n>>} = A \ {<<r, n>>}
  <2>1. ASSUME NEW row \in R \X (1..m), row # <<r, n>>
        PROVE  row \in B <=> row \in A
    <3>1. row = <<row[1], row[2]>> /\ row[1] \in R /\ row[2] \in 1..m
      OBVIOUS
    <3>2. CASE row[1] = r
      <4>1. row[2] # n
        BY <2>1, <3>1, <3>2
      <4> HIDE DEF n, after
      <4>2. row[2] \in DOMAIN after[r] <=> row[2] \in DOMAIN table[r]
        BY <1>1, <1>2, <3>1, <4>1
      <4>3. row[2] \in DOMAIN table[r] => after[r][row[2]] = table[r][row[2]]
        BY <1>2
      <4> QED  BY <3>2, <4>2, <4>3 DEF RowsIn
    <3>3. CASE row[1] # r
      <4> HIDE DEF n, after
      <4>1. after[row[1]] = table[row[1]]
        BY <1>2, <3>1, <3>3
      <4> QED  BY <4>1 DEF RowsIn
    <3> QED  BY <3>2, <3>3
  <2>2. A \subseteq R \X (1..m) /\ B \subseteq R \X (1..m)
    BY DEF RowsIn
  <2> HIDE DEF A, B, n
  <2> QED  BY <2>1, <2>2
<1> HIDE DEF A, B, n, after
<1>6. /\ Cardinality(A) \in Nat /\ Cardinality(B) \in Nat
      /\ <<r, n>> \in B => Cardinality(B) = Cardinality(A) + 1
      /\ <<r, n>> \notin B => Cardinality(B) = Cardinality(A)
  BY <1>3, <1>4, <1>5, ChangeOne
<1> QED  BY <1>4, <1>6 DEF A, B, after

-----------------------------------------------------------------------------
(* Sums: Functions!SumFunctionOnSet, unfolded *)

Pick(s) == CHOOSE x \in s : TRUE

\* The recursion SumFunctionOnSet(f, S) unfolds to.
SumsUp(f, S, g) == g = [s \in SUBSET S |-> IF s = {} THEN 0 ELSE f[Pick(s)] + g[s \ {Pick(s)}]]

\* g is the sum of f over every subset of S.
SumsOver(f, S, g) ==
  /\ DOMAIN g = SUBSET S
  /\ g[{}] = 0
  /\ \A s \in SUBSET S : /\ g[s] \in Nat
                         /\ s # {} => g[s] = f[Pick(s)] + g[s \ {Pick(s)}]

\* Such sums exist: by induction on the size of the subsets.
LEMMA SumsExist ==
  ASSUME NEW S, IsFiniteSet(S), NEW f, \A x \in S : f[x] \in Nat
  PROVE  \E g : SumsUp(f, S, g)
<1> DEFINE Good(g, n) == /\ g \in [SUBSET S -> Nat] /\ g[{}] = 0
                         /\ \A s \in SUBSET S : s # {} /\ Cardinality(s) <= n =>
                              g[s] = f[Pick(s)] + g[s \ {Pick(s)}]
           T == {n \in Nat : \E g : Good(g, n)}
<1>1. \A s \in SUBSET S : IsFiniteSet(s) /\ Cardinality(s) \in Nat
  BY FS_Subset, FS_CardinalityType
<1>2. ASSUME NEW s \in SUBSET S, s # {}
      PROVE  /\ Pick(s) \in s /\ s \ {Pick(s)} \in SUBSET S
             /\ Cardinality(s \ {Pick(s)}) = Cardinality(s) - 1
             /\ f[Pick(s)] \in Nat
  <2>1. Pick(s) \in s
    BY <1>2 DEF Pick
  <2> QED  BY <1>1, <2>1, FS_RemoveElement
<1>3. \A s \in SUBSET S : Cardinality(s) = 0 => s = {}
  BY <1>1, FS_EmptySet
<1>4. 0 \in T
  <2>1. Good([s \in SUBSET S |-> 0], 0)
    <3>1. \A s \in SUBSET S : Cardinality(s) <= 0 => s = {}
      BY <1>1, <1>3
    <3> QED  BY <3>1
  <2> HIDE DEF Good
  <2> QED  BY <2>1
<1>5. ASSUME NEW n \in T PROVE n + 1 \in T
  <2>1. PICK g : Good(g, n)
    BY <1>5
  <2> DEFINE h == [s \in SUBSET S |-> IF s # {} /\ Cardinality(s) = n + 1
                                      THEN f[Pick(s)] + g[s \ {Pick(s)}] ELSE g[s]]
  <2>2. h \in [SUBSET S -> Nat] /\ h[{}] = 0
    BY <1>2, <2>1
  <2>3. ASSUME NEW s \in SUBSET S, s # {}, Cardinality(s) <= n + 1
        PROVE  h[s] = f[Pick(s)] + h[s \ {Pick(s)}]
    <3>1. /\ s \ {Pick(s)} \in SUBSET S /\ Cardinality(s \ {Pick(s)}) = Cardinality(s) - 1
          /\ Cardinality(s) \in Nat /\ n \in Nat
      BY <1>1, <1>2, <2>3
    <3>2. h[s \ {Pick(s)}] = g[s \ {Pick(s)}]
      <4>1. Cardinality(s \ {Pick(s)}) # n + 1
        BY <2>3, <3>1
      <4> QED  BY <3>1, <4>1
    <3>3. CASE Cardinality(s) = n + 1
      BY <2>3, <3>2, <3>3
    <3>4. CASE Cardinality(s) <= n
      <4>1. Cardinality(s) # n + 1
        BY <3>1, <3>4
      <4>2. h[s] = g[s]
        BY <4>1
      <4>3. g[s] = f[Pick(s)] + g[s \ {Pick(s)}]
        BY <2>1, <2>3, <3>4
      <4> QED  BY <3>2, <4>2, <4>3
    <3> QED  BY <2>3, <3>1, <3>3, <3>4
  <2>4. Good(h, n + 1)
    BY <2>2, <2>3
  <2> HIDE DEF Good, h
  <2> QED  BY <2>4
<1>6. Cardinality(S) \in T
  <2>1. T \in SUBSET Nat
    OBVIOUS
  <2> HIDE DEF T
  <2>2. T = Nat
    BY <1>4, <1>5, <2>1, NatSetInduction
  <2> QED  BY <1>1, <2>2
<1>7. PICK g : Good(g, Cardinality(S))
  BY <1>6
<1>8. \A s \in SUBSET S : Cardinality(s) <= Cardinality(S)
  BY FS_Subset
<1>9. /\ g \in [SUBSET S -> Nat] /\ g[{}] = 0
      /\ \A s \in SUBSET S : s # {} => g[s] = f[Pick(s)] + g[s \ {Pick(s)}]
  BY <1>7, <1>8
<1> HIDE DEF Good
<1> QED  BY <1>9 DEF SumsUp

\* They are naturals.
LEMMA SumsAreNat ==
  ASSUME NEW S, IsFiniteSet(S), NEW f, \A x \in S : f[x] \in Nat, NEW g, SumsUp(f, S, g)
  PROVE  SumsOver(f, S, g)
<1> DEFINE T == {n \in Nat : \A s \in SUBSET S : Cardinality(s) = n => g[s] \in Nat}
<1>1. /\ DOMAIN g = SUBSET S /\ g[{}] = 0
      /\ \A s \in SUBSET S : s # {} => g[s] = f[Pick(s)] + g[s \ {Pick(s)}]
  BY DEF SumsUp
<1>2. \A s \in SUBSET S : IsFiniteSet(s) /\ Cardinality(s) \in Nat /\ (Cardinality(s) = 0 => s = {})
  BY FS_Subset, FS_CardinalityType, FS_EmptySet
<1>3. 0 \in T
  BY <1>1, <1>2
<1>4. ASSUME NEW n \in T PROVE n + 1 \in T
  <2>1. SUFFICES ASSUME NEW s \in SUBSET S, Cardinality(s) = n + 1
                 PROVE  g[s] \in Nat
    OBVIOUS
  <2>2. s # {}
    <3>1. IsFiniteSet(s) /\ Cardinality(s) # 0
      BY <1>2, <2>1
    <3> QED  BY <3>1, FS_EmptySet
  <2>3. Pick(s) \in s
    BY <2>2 DEF Pick
  <2>4. Cardinality(s \ {Pick(s)}) = Cardinality(s) - 1
    BY <1>2, <2>3, FS_RemoveElement
  <2>5. g[s \ {Pick(s)}] \in Nat
    BY <2>1, <2>4
  <2> QED  BY <1>1, <2>2, <2>3, <2>5
<1>5. T \in SUBSET Nat
  OBVIOUS
<1> HIDE DEF T
<1>6. T = Nat
  BY <1>3, <1>4, <1>5, NatSetInduction
<1>7. \A s \in SUBSET S : g[s] \in Nat
  BY <1>2, <1>6 DEF T
<1> QED  BY <1>1, <1>7 DEF SumsOver

\* The sum over S is its value at S.
LEMMA SumUnfolded ==
  ASSUME NEW S, IsFiniteSet(S), NEW f, \A x \in S : f[x] \in Nat
  PROVE  \E g : SumsOver(f, S, g) /\ SumFunctionOnSet(f, S) = g[S]
<1> DEFINE g == CHOOSE g : SumsUp(f, S, g)
<1>1. SumsUp(f, S, g)
  BY SumsExist
<1>2. SumFunctionOnSet(f, S) = g[S]
  BY DEF SumsUp, SumFunctionOnSet, FoldFunctionOnSet, MapThenFoldSet, Pick
<1> QED  BY <1>1, <1>2, SumsAreNat

\* The sum does not look outside its set.
LEMMA SumsAgree ==
  ASSUME NEW S, IsFiniteSet(S), NEW f, NEW g, SumsOver(f, S, g),
         NEW S2, NEW f2, NEW g2, SumsOver(f2, S2, g2), S \subseteq S2,
         \A x \in S : f[x] = f2[x]
  PROVE  g[S] = g2[S]
<1> DEFINE T == {n \in Nat : \A s \in SUBSET S : Cardinality(s) = n => g[s] = g2[s]}
<1>2. \A s \in SUBSET S : IsFiniteSet(s) /\ Cardinality(s) \in Nat /\ (Cardinality(s) = 0 => s = {})
  BY FS_Subset, FS_CardinalityType, FS_EmptySet
<1>3. 0 \in T
  BY <1>2 DEF SumsOver
<1>4. ASSUME NEW n \in T PROVE n + 1 \in T
  <2>1. SUFFICES ASSUME NEW s \in SUBSET S, Cardinality(s) = n + 1
                 PROVE  g[s] = g2[s]
    OBVIOUS
  <2>2. s # {}
    <3>1. IsFiniteSet(s) /\ Cardinality(s) # 0
      BY <1>2, <2>1
    <3> QED  BY <3>1, FS_EmptySet
  <2>3. Pick(s) \in s
    BY <2>2 DEF Pick
  <2>4. Cardinality(s \ {Pick(s)}) = Cardinality(s) - 1
    BY <1>2, <2>3, FS_RemoveElement
  <2>5. g[s \ {Pick(s)}] = g2[s \ {Pick(s)}]
    BY <2>1, <2>4
  <2>6. s \in SUBSET S2 /\ f[Pick(s)] = f2[Pick(s)]
    BY <2>3
  <2> QED  BY <2>2, <2>5, <2>6 DEF SumsOver
<1>5. T \in SUBSET Nat
  OBVIOUS
<1> HIDE DEF T
<1>6. T = Nat
  BY <1>3, <1>4, <1>5, NatSetInduction
<1> QED  BY <1>2, <1>6 DEF T

\* Whichever summand is taken out first, the sum is the same.
LEMMA SumsRemove ==
  ASSUME NEW S, IsFiniteSet(S), NEW f, NEW g, SumsOver(f, S, g), \A x \in S : f[x] \in Nat
  PROVE  \A s \in SUBSET S : \A x \in s : g[s] = f[x] + g[s \ {x}]
<1> DEFINE T == {n \in Nat : \A s \in SUBSET S : Cardinality(s) = n =>
                               \A x \in s : g[s] = f[x] + g[s \ {x}]}
<1>2. \A s \in SUBSET S : IsFiniteSet(s) /\ Cardinality(s) \in Nat /\ (Cardinality(s) = 0 => s = {})
  BY FS_Subset, FS_CardinalityType, FS_EmptySet
<1>3. 0 \in T
  BY <1>2
<1>4. ASSUME NEW n \in T PROVE n + 1 \in T
  <2>1. SUFFICES ASSUME NEW s \in SUBSET S, Cardinality(s) = n + 1, NEW x \in s
                 PROVE  g[s] = f[x] + g[s \ {x}]
    OBVIOUS
  <2> DEFINE p == Pick(s)
  <2>2. p \in s /\ g[s] = f[p] + g[s \ {p}]
    BY DEF Pick, SumsOver
  <2>3. CASE x = p
    BY <2>2, <2>3
  <2>4. CASE x # p
    <3> DEFINE q == Pick(s \ {x})
               rest == (s \ {x}) \ {p}
    <3>1. x \in s \ {p} /\ p \in s \ {x} /\ (s \ {p}) \ {x} = rest
          /\ s \ {x} \in SUBSET S /\ s \ {p} \in SUBSET S /\ rest \in SUBSET S
      BY <2>2, <2>4
    <3>2. Cardinality(s \ {x}) = n /\ Cardinality(s \ {p}) = n
      <4>1. IsFiniteSet(s) /\ n \in Nat
        BY <1>2
      <4>2. Cardinality(s \ {x}) = Cardinality(s) - 1 /\ Cardinality(s \ {p}) = Cardinality(s) - 1
        BY <2>2, <4>1, FS_RemoveElement
      <4> QED  BY <2>1, <4>1, <4>2
    <3> HIDE DEF rest, p
    <3>3. g[s \ {p}] = f[x] + g[rest]
      BY <3>1, <3>2
    <3>4. g[s \ {x}] = f[p] + g[rest]
      BY <3>1, <3>2 DEF rest
    <3>5. f[x] \in Nat /\ f[p] \in Nat /\ g[rest] \in Nat
      BY <2>2, <3>1 DEF SumsOver
    <3> QED  BY <2>2, <3>3, <3>4, <3>5
  <2> QED  BY <2>3, <2>4
<1>5. T \in SUBSET Nat
  OBVIOUS
<1> HIDE DEF T
<1>6. T = Nat
  BY <1>3, <1>4, <1>5, NatSetInduction
<1> QED  BY <1>2, <1>6 DEF T

\* The facts about sums that proofs cite.
LEMMA SumEmpty ==
  ASSUME NEW f
  PROVE  SumFunctionOnSet(f, {}) = 0
<1>1. IsFiniteSet({}) /\ \A x \in {} : f[x] \in Nat
  BY FS_EmptySet
<1>2. PICK g : SumsOver(f, {}, g) /\ SumFunctionOnSet(f, {}) = g[{}]
  BY <1>1, SumUnfolded
<1> QED  BY <1>2 DEF SumsOver

LEMMA SumOfZeros ==
  ASSUME NEW S, IsFiniteSet(S), NEW f, \A x \in S : f[x] = 0
  PROVE  SumFunctionOnSet(f, S) = 0
<1>1. PICK g : SumsOver(f, S, g) /\ SumFunctionOnSet(f, S) = g[S]
  BY SumUnfolded
<1> DEFINE zero == [s \in SUBSET S |-> 0]
<1>2. SumsOver(f, S, zero)
  <2>1. \A s \in SUBSET S : s # {} => Pick(s) \in s
    BY DEF Pick
  <2> QED  BY <2>1 DEF SumsOver
<1>3. g[S] = zero[S]
  BY <1>1, <1>2, SumsAgree
<1> QED  BY <1>1, <1>3

LEMMA SumIsNat ==
  ASSUME NEW S, IsFiniteSet(S), NEW f, \A x \in S : f[x] \in Nat
  PROVE  SumFunctionOnSet(f, S) \in Nat
<1>1. PICK g : SumsOver(f, S, g) /\ SumFunctionOnSet(f, S) = g[S]
  BY SumUnfolded
<1> QED  BY <1>1 DEF SumsOver

LEMMA SumSame ==
  ASSUME NEW S, IsFiniteSet(S), NEW f, NEW f2,
         \A x \in S : f[x] \in Nat /\ f[x] = f2[x]
  PROVE  SumFunctionOnSet(f, S) = SumFunctionOnSet(f2, S)
<1>1. PICK g : SumsOver(f, S, g) /\ SumFunctionOnSet(f, S) = g[S]
  BY SumUnfolded
<1>2. PICK g2 : SumsOver(f2, S, g2) /\ SumFunctionOnSet(f2, S) = g2[S]
  BY SumUnfolded
<1> QED  BY <1>1, <1>2, SumsAgree

LEMMA SumRemove ==
  ASSUME NEW S, IsFiniteSet(S), NEW f, \A x \in S : f[x] \in Nat, NEW x \in S
  PROVE  SumFunctionOnSet(f, S) = f[x] + SumFunctionOnSet(f, S \ {x})
<1> DEFINE R == S \ {x}
<1>1. PICK g : SumsOver(f, S, g) /\ SumFunctionOnSet(f, S) = g[S]
  BY SumUnfolded
<1>2. IsFiniteSet(R) /\ R \subseteq S
  BY FS_Subset
<1>3. PICK g2 : SumsOver(f, R, g2) /\ SumFunctionOnSet(f, R) = g2[R]
  BY <1>2, SumUnfolded
<1>4. g[S] = f[x] + g[R]
  BY <1>1, SumsRemove
<1>5. g2[R] = g[R]
  BY <1>1, <1>2, <1>3, SumsAgree
<1> QED  BY <1>1, <1>3, <1>4, <1>5

\* What r adds to the sum of f over U.
Share(f, U, r) == IF r \in U THEN f[r] ELSE 0

LEMMA SumShare ==
  ASSUME NEW U, IsFiniteSet(U), NEW f, \A x \in U : f[x] \in Nat, NEW r
  PROVE  SumFunctionOnSet(f, U) = Share(f, U, r) + SumFunctionOnSet(f, U \ {r})
<1>1. CASE r \in U
  BY <1>1, SumRemove DEF Share
<1>2. CASE r \notin U
  <2>1. U \ {r} = U
    BY <1>2
  <2> QED  BY <1>2, <2>1, SumIsNat DEF Share
<1> QED  BY <1>1, <1>2

\* A ledger: the total and what U still owes make up the sum over R.
Balanced(t, f, U, R) == t + SumFunctionOnSet(f, U) = SumFunctionOnSet(f, R)

\* A step that changes only what r owes, and the total by as much, keeps it.
LEMMA LedgerStep ==
  ASSUME NEW R, IsFiniteSet(R), NEW r \in R,
         NEW f, NEW f2, \A x \in R : f[x] \in Nat /\ f2[x] \in Nat,
         \A x \in R \ {r} : f[x] = f2[x],
         NEW U \in SUBSET R, NEW U2 \in SUBSET R, U \ {r} = U2 \ {r},
         NEW t \in Nat, NEW t2 \in Nat,
         Balanced(t, f, U, R),
         t2 + f[r] + Share(f2, U2, r) = t + f2[r] + Share(f, U, r)
  PROVE  Balanced(t2, f2, U2, R)
<1> DEFINE rest == SumFunctionOnSet(f, U \ {r})
           all  == SumFunctionOnSet(f, R \ {r})
<1>1. IsFiniteSet(U) /\ IsFiniteSet(U2) /\ IsFiniteSet(R \ {r}) /\ IsFiniteSet(U \ {r})
  BY FS_Subset
<1>2. SumFunctionOnSet(f, U) = Share(f, U, r) + rest
  BY <1>1, SumShare
<1>3. SumFunctionOnSet(f2, U2) = Share(f2, U2, r) + rest
  <2>1. SumFunctionOnSet(f2, U2) = Share(f2, U2, r) + SumFunctionOnSet(f2, U2 \ {r})
    BY <1>1, SumShare
  <2>2. SumFunctionOnSet(f2, U2 \ {r}) = rest
    <3> DEFINE W == U \ {r}
    <3>1. IsFiniteSet(W) /\ \A x \in W : f2[x] \in Nat /\ f2[x] = f[x]
      BY <1>1
    <3>2. SumFunctionOnSet(f2, W) = SumFunctionOnSet(f, W)
      BY <3>1, SumSame
    <3> QED  BY <3>2
  <2> QED  BY <2>1, <2>2
<1>4. SumFunctionOnSet(f, R) = f[r] + all
  BY SumRemove
<1>5. SumFunctionOnSet(f2, R) = f2[r] + all
  <2>1. SumFunctionOnSet(f2, R) = f2[r] + SumFunctionOnSet(f2, R \ {r})
    BY SumRemove
  <2>2. SumFunctionOnSet(f2, R \ {r}) = all
    <3> DEFINE W == R \ {r}
    <3>1. IsFiniteSet(W) /\ \A x \in W : f2[x] \in Nat /\ f2[x] = f[x]
      BY <1>1
    <3>2. SumFunctionOnSet(f2, W) = SumFunctionOnSet(f, W)
      BY <3>1, SumSame
    <3> QED  BY <3>2
  <2> QED  BY <2>1, <2>2
<1>6. rest \in Nat /\ all \in Nat
  BY <1>1, SumIsNat
<1>7. /\ f[r] \in Nat /\ f2[r] \in Nat
      /\ Share(f, U, r) \in Nat /\ Share(f2, U2, r) \in Nat
  BY DEF Share
<1> DEFINE fr == f[r]
           fr2 == f2[r]
           s == Share(f, U, r)
           s2 == Share(f2, U2, r)
<1>8. t + (s + rest) = fr + all /\ t2 + fr + s2 = t + fr2 + s
  BY <1>2, <1>4 DEF Balanced
<1>9. {fr, fr2, s, s2, rest, all} \subseteq Nat
  BY <1>6, <1>7
<1> HIDE DEF rest, all, fr, fr2, s, s2
<1>10. t2 + (s2 + rest) = fr2 + all
  BY <1>8, <1>9
<1> QED  BY <1>3, <1>5, <1>10 DEF Balanced, fr2, s2

\* Appending to a sequence adds its last entry to the sum.
LEMMA SumAppend ==
  ASSUME NEW n \in Nat, NEW f, \A i \in 1..(n + 1) : f[i] \in Nat
  PROVE  SumFunctionOnSet(f, 1..(n + 1)) = f[n + 1] + SumFunctionOnSet(f, 1..n)
<1>1. IsFiniteSet(1..(n + 1)) /\ n + 1 \in 1..(n + 1)
  BY FS_Interval
<1>2. (1..(n + 1)) \ {n + 1} = 1..n
  OBVIOUS
<1>3. SumFunctionOnSet(f, 1..(n + 1)) = f[n + 1] + SumFunctionOnSet(f, (1..(n + 1)) \ {n + 1})
  BY <1>1, SumRemove
<1> QED  BY <1>2, <1>3
=============================================================================
