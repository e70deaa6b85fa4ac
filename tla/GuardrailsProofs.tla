-------------------------- MODULE GuardrailsProofs --------------------------
(***************************************************************************)
(* What the guardrails promise for texts of any length, any set of signals *)
(* and results of any depth and width.                                     *)
(*                                                                         *)
(* Redaction works from the left; everything about it is proved from the   *)
(* right, by induction over what re.sub makes of the rest of a text.  A    *)
(* pattern is the set of word sequences it matches: none of them holds a   *)
(* mask or a placeholder, so what was cut out of a text cannot be matched  *)
(* across, and a pattern that found nothing once finds nothing later.      *)
(***************************************************************************)
EXTENDS Guardrails, DataTheorems, TLAPS

-----------------------------------------------------------------------------
(* re.sub *)

\* A set of positions of a text, and the one behind it, that holds a position
\* whenever it holds all later ones, holds every position.
LEMMA FromTheEnd ==
  ASSUME NEW n \in Nat, NEW T \in SUBSET (1..n + 1),
         \A i \in 1..n + 1 : (\A j \in 1..n + 1 : j > i => j \in T) => i \in T
  PROVE  T = 1..n + 1
<1> DEFINE U == (1..n + 1) \ T
<1>1. SUFFICES ASSUME U # {} PROVE FALSE
  OBVIOUS
<1>2. U \in SUBSET (1..n + 1) /\ n + 1 \in Nat
  OBVIOUS
<1> HIDE DEF U
<1>3. PICK i \in U : \A j \in U : j <= i
  BY <1>1, <1>2, GreatestIndex
<1>4. \A j \in 1..n + 1 : j > i => j \in T
  BY <1>3 DEF U
<1> QED  BY <1>3, <1>4 DEF U

\* A match at each position that ends within the text, and what is put there;
\* what is left of the text is in W as well.
Plan(W, t, match, put) ==
  /\ Len(t) \in Nat
  /\ \A i \in 1..Len(t) : /\ match[i] \in Nat /\ i + match[i] <= Len(t) + 1
                          /\ match[i] # 0 => put[i] \in Seq(W)
                          /\ match[i] = 0 => t[i] \in W

\* f[i] is what becomes of the text from i on.
Unfolds(W, t, match, put, f) ==
  /\ \A i \in 1..Len(t) + 1 : f[i] \in Seq(W)
  /\ f[Len(t) + 1] = <<>>
  /\ \A i \in 1..Len(t) :
       f[i] = IF match[i] = 0 THEN <<t[i]>> \o f[i + 1] ELSE put[i] \o f[i + match[i]]

SubbedFrom(t, match, put, f) ==
  f = [i \in 1..(Len(t) + 1) |->
         IF i > Len(t) THEN <<>>
         ELSE IF match[i] = 0 THEN <<t[i]>> \o f[i + 1]
         ELSE put[i] \o f[i + match[i]]]

\* The recursion of Sub has a solution: by induction on how much of the text is left.
LEMMA SubbedExists ==
  ASSUME NEW W, NEW t, NEW match, NEW put, Plan(W, t, match, put)
  PROVE  \E f : SubbedFrom(t, match, put, f)
<1> DEFINE n == Len(t)
           Step(f, i) == IF match[i] = 0 THEN <<t[i]>> \o f[i + 1] ELSE put[i] \o f[i + match[i]]
           Upto(m, f) == /\ f \in [1..n + 1 -> Seq(W)]
                         /\ f[n + 1] = <<>>
                         /\ \A i \in 1..n : i + m > n => f[i] = Step(f, i)
           T == {m \in Nat : \E f : Upto(m, f)}
<1>1. /\ n \in Nat
      /\ \A i \in 1..n : /\ match[i] \in Nat /\ i + match[i] <= n + 1
                         /\ match[i] # 0 => put[i] \in Seq(W)
                         /\ match[i] = 0 => t[i] \in W
  BY DEF Plan
<1> HIDE DEF n
<1>2. 0 \in T
  <2>1. Upto(0, [i \in 1..n + 1 |-> <<>>])
    BY <1>1
  <2> QED  BY <2>1
<1>3. ASSUME NEW m \in T PROVE m + 1 \in T
  <2>1. m \in Nat /\ \E f : Upto(m, f)
    OBVIOUS
  <2>2. PICK f : Upto(m, f)
    BY <2>1
  <2>3. CASE m + 1 > n
    <3>1. \A i \in 1..n : i + m > n
      BY <1>1, <2>1, <2>3
    <3>2. Upto(m + 1, f)
      BY <2>2, <3>1
    <3> HIDE DEF Upto
    <3> QED  BY <2>1, <3>2
  <2>4. CASE m + 1 <= n
    <3> DEFINE k == n - m
               g == [i \in 1..n + 1 |-> IF i = k THEN Step(f, k) ELSE f[i]]
    <3>1. k \in 1..n /\ k # n + 1
      BY <1>1, <2>1, <2>4
    <3>2. Step(f, k) \in Seq(W)
      <4>1. CASE match[k] = 0
        <5>1. t[k] \in W /\ k + 1 \in 1..n + 1
          BY <1>1, <3>1, <4>1
        <5>2. <<t[k]>> \in Seq(W) /\ f[k + 1] \in Seq(W)
          BY <2>2, <5>1
        <5> QED  BY <4>1, <5>2
      <4>2. CASE match[k] # 0
        <5>1. put[k] \in Seq(W) /\ k + match[k] \in 1..n + 1
          BY <1>1, <3>1, <4>2
        <5>2. f[k + match[k]] \in Seq(W)
          BY <2>2, <5>1
        <5> QED  BY <4>2, <5>1, <5>2
      <4> QED  BY <4>1, <4>2
    <3> HIDE DEF k
    <3>3. g \in [1..n + 1 -> Seq(W)] /\ g[n + 1] = <<>>
      BY <1>1, <2>2, <3>1, <3>2
    <3>4. ASSUME NEW i \in 1..n, i + (m + 1) > n PROVE g[i] = Step(g, i)
      <4>1. i >= k
        BY <1>1, <2>1, <3>1, <3>4 DEF k
      <4>2. Step(g, i) = Step(f, i)
        <5>1. CASE match[i] = 0
          <6>1. i + 1 \in 1..n + 1 /\ i + 1 # k
            BY <1>1, <3>1, <4>1
          <6> QED  BY <5>1, <6>1
        <5>2. CASE match[i] # 0
          <6>1. match[i] \in Nat /\ i + match[i] <= n + 1
            BY <1>1
          <6>2. \A v \in Nat : v # 0 /\ i + v <= n + 1 => i + v \in 1..n + 1 /\ i + v # k
            BY <1>1, <3>1, <4>1
          <6>3. i + match[i] \in 1..n + 1 /\ i + match[i] # k
            BY <5>2, <6>1, <6>2
          <6>4. g[i + match[i]] = f[i + match[i]]
            BY <6>3
          <6>5. Step(g, i) = put[i] \o g[i + match[i]] /\ Step(f, i) = put[i] \o f[i + match[i]]
            BY <5>2
          <6> HIDE DEF Step, g
          <6> QED  BY <6>4, <6>5
        <5> QED  BY <5>1, <5>2
      <4>3. i # k => f[i] = Step(f, i)
        <5>1. i # k => i + m > n
          BY <1>1, <2>1, <3>1, <4>1 DEF k
        <5> QED  BY <2>2, <5>1
      <4>4. g[i] = IF i = k THEN Step(f, k) ELSE f[i]
        BY <1>1
      <4> HIDE DEF g, Step
      <4> QED  BY <4>2, <4>3, <4>4
    <3>5. Upto(m + 1, g)
      BY <3>3, <3>4
    <3>6. m + 1 \in Nat
      BY <2>1
    <3> HIDE DEF g, Upto
    <3> QED  BY <3>5, <3>6
  <2> HIDE DEF T
  <2> QED  BY <1>1, <2>1, <2>3, <2>4
<1>4. n \in T
  <2>1. T \in SUBSET Nat
    OBVIOUS
  <2> HIDE DEF T
  <2>2. T = Nat
    BY <1>2, <1>3, <2>1, NatSetInduction
  <2> QED  BY <1>1, <2>2
<1>5. PICK f : Upto(n, f)
  BY <1>4
<1>6. \A i \in 1..n : i + n > n
  BY <1>1
<1>7. \A i \in 1..n : f[i] = Step(f, i)
  BY <1>5, <1>6
<1>8. \A i \in 1..n + 1 : i > n <=> i = n + 1
  BY <1>1
<1>9. \A i \in 1..n + 1 : f[i] = IF i > n THEN <<>> ELSE Step(f, i)
  <2>1. \A i \in 1..n + 1 : i > n \/ i \in 1..n
    BY <1>1
  <2> HIDE DEF Step
  <2> QED  BY <1>5, <1>7, <1>8, <2>1
<1>10. SubbedFrom(t, match, put, f)
  BY <1>5, <1>9 DEF SubbedFrom, n
<1> QED  BY <1>10

\* Every solution unfolds, and consists of what is left and what is put.
LEMMA SubbedUnfolds ==
  ASSUME NEW W, NEW t, NEW match, NEW put, Plan(W, t, match, put),
         NEW f, SubbedFrom(t, match, put, f)
  PROVE  Unfolds(W, t, match, put, f)
<1> DEFINE n == Len(t)
           T == {i \in 1..n + 1 : f[i] \in Seq(W)}
<1>1. /\ n \in Nat
      /\ \A i \in 1..n : /\ match[i] \in Nat /\ i + match[i] <= n + 1
                         /\ match[i] # 0 => put[i] \in Seq(W)
                         /\ match[i] = 0 => t[i] \in W
  BY DEF Plan
<1>2. \A i \in 1..n + 1 : f[i] = IF i > n THEN <<>> ELSE IF match[i] = 0 THEN <<t[i]>> \o f[i + 1]
                                 ELSE put[i] \o f[i + match[i]]
  BY DEF SubbedFrom
<1> HIDE DEF n
<1>3. f[n + 1] = <<>>
  <2>1. n + 1 \in 1..n + 1 /\ n + 1 > n
    BY <1>1
  <2> QED  BY <1>2, <2>1
<1>4. ASSUME NEW i \in 1..n
      PROVE  f[i] = IF match[i] = 0 THEN <<t[i]>> \o f[i + 1] ELSE put[i] \o f[i + match[i]]
  <2>1. i \in 1..n + 1 /\ ~ (i > n)
    BY <1>1
  <2> QED  BY <1>2, <2>1
<1>5. ASSUME NEW i \in 1..n + 1, \A j \in 1..n + 1 : j > i => f[j] \in Seq(W)
      PROVE  f[i] \in Seq(W)
  <2>1. CASE i = n + 1
    <3>1. f[i] = <<>> /\ <<>> \in Seq(W)
      BY <1>3, <2>1
    <3> QED  BY <3>1
  <2>2. CASE i # n + 1
    <3>1. i \in 1..n /\ i + 1 \in 1..n + 1 /\ i + 1 > i
      BY <1>1, <2>2
    <3>2. CASE match[i] = 0
      <4>1. f[i + 1] \in Seq(W) /\ <<t[i]>> \in Seq(W)
        BY <1>1, <1>5, <3>1, <3>2
      <4>2. f[i] = <<t[i]>> \o f[i + 1]
        BY <1>4, <3>1, <3>2
      <4> QED  BY <4>1, <4>2
    <3>3. CASE match[i] # 0
      <4>1. i + match[i] \in 1..n + 1 /\ i + match[i] > i /\ put[i] \in Seq(W)
        BY <1>1, <3>1, <3>3
      <4>2. f[i + match[i]] \in Seq(W)
        BY <1>5, <4>1
      <4>3. f[i] = put[i] \o f[i + match[i]]
        BY <1>4, <3>1, <3>3
      <4> QED  BY <4>1, <4>2, <4>3
    <3> QED  BY <3>2, <3>3
  <2> QED  BY <2>1, <2>2
<1>6. T \in SUBSET (1..n + 1)
  OBVIOUS
<1> HIDE DEF T
<1>7. T = 1..n + 1
  <2>1. \A i \in 1..n + 1 : (\A j \in 1..n + 1 : j > i => j \in T) => i \in T
    BY <1>5 DEF T
  <2> QED  BY <1>1, <1>6, <2>1, FromTheEnd
<1>8. \A i \in 1..n + 1 : f[i] \in Seq(W)
  BY <1>7 DEF T
<1> QED  BY <1>1, <1>3, <1>4, <1>8 DEF Unfolds, n

\* Sub is what becomes of the text from its first word on.
LEMMA SubUnfolds ==
  ASSUME NEW W, NEW t, NEW match, NEW put, Plan(W, t, match, put)
  PROVE  \E f : Unfolds(W, t, match, put, f) /\ Sub(t, match, put) = f[1]
<1> DEFINE From == CHOOSE f : SubbedFrom(t, match, put, f)
<1>1. \E f : SubbedFrom(t, match, put, f)
  BY SubbedExists
<1>2. SubbedFrom(t, match, put, From)
  BY <1>1
<1>3. Sub(t, match, put) = From[1]
  BY DEF Sub, SubbedFrom
<1> HIDE DEF From
<1>4. Unfolds(W, t, match, put, From)
  BY <1>2, SubbedUnfolds
<1> QED  BY <1>3, <1>4

-----------------------------------------------------------------------------
(* What re.sub leaves *)

\* A text that starts with w.
LEMMA StartsWith ==
  ASSUME NEW W, NEW w \in W, NEW r \in Seq(W)
  PROVE  LET s == <<w>> \o r
         IN  /\ s \in Seq(W) /\ Len(s) = Len(r) + 1 /\ Len(r) \in Nat
             /\ s[1] = w /\ \A k \in 1..Len(r) : s[k + 1] = r[k]
  OBVIOUS

\* n words of t from i on, and a text none of whose segments is in L.
Segment(t, i, n) == [k \in 1..n |-> t[i + k - 1]]
NoneFrom(L, t, i) == \A n \in 1..(Len(t) - i + 1) : Segment(t, i, n) \notin L
Clear(L, t) == \A i \in 1..Len(t) : NoneFrom(L, t, i)

\* Only the segments at its start are new in a text that starts with w.
LEMMA ClearStart ==
  ASSUME NEW W, NEW w \in W, NEW r \in Seq(W), NEW L, Clear(L, r), NoneFrom(L, <<w>> \o r, 1)
  PROVE  Clear(L, <<w>> \o r)
<1> DEFINE s == <<w>> \o r
<1>1. /\ Len(s) = Len(r) + 1 /\ Len(r) \in Nat
      /\ \A k \in 1..Len(r) : s[k + 1] = r[k]
  BY StartsWith
<1> HIDE DEF s
<1>2. ASSUME NEW i \in 1..Len(s), i # 1, NEW n \in 1..(Len(s) - i + 1)
      PROVE  Segment(s, i, n) \notin L
  <2>1. i - 1 \in 1..Len(r) /\ n \in 1..(Len(r) - (i - 1) + 1)
    BY <1>1, <1>2
  <2>2. Segment(s, i, n) = Segment(r, i - 1, n)
    <3>1. ASSUME NEW k \in 1..n PROVE s[i + k - 1] = r[(i - 1) + k - 1]
      <4> DEFINE j == (i - 1) + k - 1
      <4>1. j \in 1..Len(r) /\ i + k - 1 = j + 1
        BY <1>1, <2>1
      <4> HIDE DEF j
      <4>2. s[i + k - 1] = r[j]
        BY <1>1, <4>1
      <4> QED  BY <4>2 DEF j
    <3> QED  BY <3>1 DEF Segment
  <2> QED  BY <2>1, <2>2 DEF Clear, NoneFrom
<1> QED  BY <1>2 DEF Clear, NoneFrom, s

\* Where nothing of L starts at a word that is left, and one word that no sequence
\* of L holds is put for each match, nothing of L is in the result.
LEMMA SubClears ==
  ASSUME NEW W, NEW t, NEW match, NEW put, Plan(W, t, match, put),
         NEW Plain, NEW L, \A s \in L : s \in Seq(Plain),
         \A i \in 1..Len(t) : match[i] = 0 => NoneFrom(L, t, i),
         \A i \in 1..Len(t) : match[i] # 0 => \E w \in W \ Plain : put[i] = <<w>>
  PROVE  Sub(t, match, put) \in Seq(W) /\ Clear(L, Sub(t, match, put))
<1>1. PICK f : Unfolds(W, t, match, put, f) /\ Sub(t, match, put) = f[1]
  BY SubUnfolds
<1> DEFINE n == Len(t)
           Same(s, i) == \A m \in 1..Len(s) :
                           (\A k \in 1..m : s[k] \in Plain) =>
                             i + m <= n + 1 /\ \A k \in 1..m : s[k] = t[i + k - 1]
           Good(i) == Same(f[i], i) /\ Clear(L, f[i])
           T == {i \in 1..n + 1 : Good(i)}
<1>2. /\ n \in Nat /\ f[n + 1] = <<>>
      /\ \A i \in 1..n + 1 : f[i] \in Seq(W)
      /\ \A i \in 1..n : /\ match[i] \in Nat /\ i + match[i] <= n + 1
                         /\ match[i] = 0 => t[i] \in W /\ f[i] = <<t[i]>> \o f[i + 1]
                         /\ match[i] # 0 => f[i] = put[i] \o f[i + match[i]]
  BY <1>1 DEF Plan, Unfolds
<1> HIDE DEF n
<1>3. ASSUME NEW i \in 1..n + 1, \A j \in 1..n + 1 : j > i => Good(j)
      PROVE  Good(i)
  <2>1. CASE i = n + 1
    <3>1. Len(f[i]) = 0
      BY <1>2, <2>1
    <3> QED  BY <3>1 DEF Clear
  <2>2. CASE i # n + 1 /\ match[i] = 0
    <3> DEFINE r == f[i + 1]
               s == <<t[i]>> \o r
    <3>1. i \in 1..n /\ i + 1 \in 1..n + 1 /\ i + 1 > i
      BY <1>2, <2>2
    <3>2. t[i] \in W /\ f[i] = s /\ r \in Seq(W) /\ Good(i + 1)
      BY <1>2, <1>3, <2>2, <3>1
    <3>3. Same(r, i + 1) /\ Clear(L, r)
      BY <3>2
    <3>4. /\ Len(s) = Len(r) + 1 /\ Len(r) \in Nat /\ s[1] = t[i]
          /\ \A k \in 1..Len(r) : s[k + 1] = r[k]
      BY <3>2, StartsWith
    <3> HIDE DEF r, s
    <3>5. Same(s, i)
      <4> SUFFICES ASSUME NEW m \in 1..Len(s), \A k \in 1..m : s[k] \in Plain
                   PROVE  i + m <= n + 1 /\ \A k \in 1..m : s[k] = t[i + k - 1]
        OBVIOUS
      <4>1. CASE m = 1
        <5>1. \A k \in 1..m : k = 1 /\ i + k - 1 = i
          BY <3>1, <4>1
        <5> QED  BY <1>2, <3>1, <3>4, <4>1, <5>1
      <4>2. CASE m # 1
        <5>1. m - 1 \in 1..Len(r)
          BY <3>4, <4>2
        <5>2. ASSUME NEW k \in 1..m - 1 PROVE r[k] \in Plain
          <6>1. k + 1 \in 1..m /\ k \in 1..Len(r)
            BY <5>1
          <6> QED  BY <3>4, <6>1
        <5>3. (i + 1) + (m - 1) <= n + 1 /\ \A k \in 1..m - 1 : r[k] = t[(i + 1) + k - 1]
          BY <3>3, <5>1, <5>2
        <5>4. ASSUME NEW k \in 1..m PROVE s[k] = t[i + k - 1]
          <6>1. CASE k = 1
            <7>1. i + k - 1 = i
              BY <3>1, <6>1
            <7> QED  BY <3>4, <6>1, <7>1
          <6>2. CASE k # 1
            <7> DEFINE j == k - 1
            <7>1. j \in 1..m - 1 /\ j \in 1..Len(r) /\ k = j + 1 /\ (i + 1) + j - 1 = i + k - 1
              BY <3>1, <5>1, <6>2
            <7> HIDE DEF j
            <7> QED  BY <3>4, <5>3, <7>1
          <6> QED  BY <6>1, <6>2
        <5>5. i + m <= n + 1
          BY <1>2, <3>1, <5>3
        <5> QED  BY <5>4, <5>5
      <4> QED  BY <4>1, <4>2
    <3>6. NoneFrom(L, s, 1)
      <4> SUFFICES ASSUME NEW m \in 1..(Len(s) - 1 + 1), Segment(s, 1, m) \in L
                   PROVE  FALSE
        BY DEF NoneFrom
      <4>1. m \in 1..Len(s)
        BY <3>4
      <4>2. \A k \in 1..m : 1 + k - 1 = k
        OBVIOUS
      <4>3. Segment(s, 1, m) = [k \in 1..m |-> s[k]]
        BY <4>2 DEF Segment
      <4>4. \A k \in 1..m : s[k] \in Plain
        <5>1. Segment(s, 1, m) \in Seq(Plain)
          OBVIOUS
        <5>2. DOMAIN Segment(s, 1, m) = 1..m /\ m \in Nat
          BY <4>3
        <5>3. \A k \in 1..m : Segment(s, 1, m)[k] \in Plain
          BY <5>1, <5>2
        <5> QED  BY <4>3, <5>3
      <4>5. i + m <= n + 1 /\ \A k \in 1..m : s[k] = t[i + k - 1]
        BY <3>5, <4>1, <4>4
      <4>6. Segment(s, 1, m) = Segment(t, i, m)
        BY <4>3, <4>5 DEF Segment
      <4>7. m \in 1..(n - i + 1)
        BY <1>2, <3>1, <4>5
      <4> QED  BY <2>2, <3>1, <4>6, <4>7 DEF NoneFrom, n
    <3>7. Clear(L, s)
      BY <3>2, <3>3, <3>6, ClearStart DEF s
    <3> QED  BY <3>2, <3>5, <3>7
  <2>3. CASE i # n + 1 /\ match[i] # 0
    <3>1. i \in 1..n /\ i + match[i] \in 1..n + 1 /\ i + match[i] > i
      <4>1. i \in 1..n
        BY <1>2, <2>3
      <4>2. match[i] \in Nat /\ i + match[i] <= n + 1
        BY <1>2, <4>1
      <4> QED  BY <1>2, <2>3, <4>1, <4>2
    <3>2. PICK w \in W \ Plain : put[i] = <<w>>
      BY <2>3, <3>1 DEF n
    <3> DEFINE r == f[i + match[i]]
               s == <<w>> \o r
    <3>3. f[i] = s /\ r \in Seq(W) /\ Clear(L, r)
      BY <1>2, <1>3, <2>3, <3>1, <3>2
    <3>4. Len(s) = Len(r) + 1 /\ Len(r) \in Nat /\ s[1] = w
      BY <3>3, StartsWith
    <3> HIDE DEF r, s
    <3>5. Same(s, i)
      <4>1. \A m \in 1..Len(s) : 1 \in 1..m
        OBVIOUS
      <4> QED  BY <3>2, <3>4, <4>1
    <3>6. NoneFrom(L, s, 1)
      <4> SUFFICES ASSUME NEW m \in 1..(Len(s) - 1 + 1), Segment(s, 1, m) \in L
                   PROVE  FALSE
        BY DEF NoneFrom
      <4>1. Segment(s, 1, m) \in Seq(Plain)
        OBVIOUS
      <4>2. 1 \in 1..m /\ 1 + 1 - 1 = 1
        OBVIOUS
      <4>3. DOMAIN Segment(s, 1, m) = 1..m /\ Segment(s, 1, m)[1] = s[1]
        BY <4>2 DEF Segment
      <4>4. Segment(s, 1, m)[1] \in Plain
        BY <4>1, <4>2, <4>3
      <4> QED  BY <3>2, <3>4, <4>3, <4>4
    <3>7. Clear(L, s)
      BY <3>2, <3>3, <3>6, ClearStart DEF s
    <3> QED  BY <3>3, <3>5, <3>7
  <2> QED  BY <2>1, <2>2, <2>3
<1>4. T = 1..n + 1
  <2>1. T \in SUBSET (1..n + 1) /\ \A i \in 1..n + 1 : i \in T <=> Good(i)
    OBVIOUS
  <2> HIDE DEF T, Good
  <2>2. \A i \in 1..n + 1 : (\A j \in 1..n + 1 : j > i => j \in T) => i \in T
    BY <1>3, <2>1
  <2> QED  BY <1>2, <2>1, <2>2, FromTheEnd
<1>5. 1 \in 1..n + 1
  BY <1>2
<1>6. f[1] \in Seq(W) /\ Clear(L, f[1])
  BY <1>2, <1>4, <1>5
<1> QED  BY <1>1, <1>6

-----------------------------------------------------------------------------
(* Words and patterns *)

PlainNames == {"d2", "d3", "d4", "d10", "order", "email"}
Masks      == {Mask(sep) : sep \in Seps}
Spans      == {s \in Seq(Words) : /\ Len(s) = 2 /\ s[1].word = "order"
                                  /\ s[2].sep = " " /\ s[2].word \in {"d3", "d4", "d10"}}
Holders    == {Placeholder(s) : s \in Spans}
Open       == Words \cup Masks          \* the words of a text that is not shielded
Shielded   == Open \cup Holders

\* A word, a mask and a placeholder are told apart by what they say.
LEMMA WordKinds ==
  /\ \A w \in Words : w.word \in PlainNames /\ w = Word(w.sep, w.word)
  /\ \A w \in Masks : w.word = "[REDACTED]"
  /\ \A w \in Holders : w.word = "placeholder"
  /\ \A w \in Shielded : w.sep \in Seps
<1>1. /\ \A w \in Words : w.word \in PlainNames /\ w = Word(w.sep, w.word) /\ w.sep \in Seps
      /\ \A w \in Masks : w.word = "[REDACTED]" /\ w.sep \in Seps
  <2>1. DOMAIN Digits \cup {"order"} \subseteq PlainNames /\ "email" \in PlainNames
    BY DEF Digits, PlainNames
  <2>2. ASSUME NEW w \in Words
        PROVE  w.word \in PlainNames /\ w = Word(w.sep, w.word) /\ w.sep \in Seps
    <3>1. CASE w = Word(" ", "email")
      <4>1. w.sep = " " /\ w.word = "email"
        BY <3>1 DEF Word
      <4> QED  BY <2>1, <3>1, <4>1 DEF Seps
    <3>2. CASE w \in [sep : Seps, word : DOMAIN Digits \cup {"order"}, ref : {<<>>}]
      <4>1. w = [sep |-> w.sep, word |-> w.word, ref |-> <<>>]
        BY <3>2
      <4> QED  BY <2>1, <3>2, <4>1 DEF Word
    <3> QED  BY <3>1, <3>2 DEF Words
  <2>3. ASSUME NEW w \in Masks PROVE w.word = "[REDACTED]" /\ w.sep \in Seps
    <3>1. PICK sep \in Seps : w = Mask(sep)
      BY DEF Masks
    <3> QED  BY <3>1 DEF Mask, Word
  <2> QED  BY <2>2, <2>3
<1>2. \A w \in Holders : w.word = "placeholder" /\ w.sep \in Seps
  <2> SUFFICES ASSUME NEW s \in Spans
               PROVE  Placeholder(s).word = "placeholder" /\ Placeholder(s).sep \in Seps
    BY DEF Holders
  <2>1. s \in Seq(Words) /\ Len(s) = 2
    BY DEF Spans
  <2>2. s[1] \in Words
    BY <2>1
  <2> QED  BY <1>1, <2>2 DEF Placeholder
<1> QED  BY <1>1, <1>2 DEF Shielded, Open

\* What a word says tells its kind.
LEMMA WordsByName ==
  ASSUME NEW w \in Shielded
  PROVE  /\ w.word \in PlainNames <=> w \in Words
         /\ w.word = "placeholder" <=> w \in Holders
<1>1. "placeholder" \notin PlainNames /\ "[REDACTED]" \notin PlainNames
  BY DEF PlainNames
<1> QED  BY <1>1, WordKinds DEF Shielded, Open

\* What a pattern finds in t: nothing at i exactly if no segment from i on is in L,
\* and otherwise only words.
Finds(L, t, match) ==
  /\ \A s \in L : s \in Seq(Words)
  /\ \A i \in 1..Len(t) : /\ match[i] \in Nat /\ i + match[i] <= Len(t) + 1
                          /\ match[i] = 0 <=> NoneFrom(L, t, i)
                          /\ \A k \in 1..Len(t) : i <= k /\ k < i + match[i] => t[k] \in Words

\* The sequences of words with given names behind given separators.
Form(words, seps) ==
  {s \in Seq(Words) : /\ Len(s) = Len(words)
                      /\ \A k \in 1..Len(words) : /\ s[k].word = words[k]
                                                  /\ k > 1 => s[k].sep \in seps}

\* A segment's length and words.
LEMMA SegmentIsSeq ==
  ASSUME NEW W, NEW t \in Seq(W), NEW i \in 1..Len(t), NEW n \in 1..(Len(t) - i + 1)
  PROVE  /\ Segment(t, i, n) \in Seq(W) /\ Len(Segment(t, i, n)) = n
         /\ \A k \in 1..n : i + k - 1 \in 1..Len(t) /\ Segment(t, i, n)[k] = t[i + k - 1]
<1>1. \A k \in 1..n : i + k - 1 \in 1..Len(t)
  OBVIOUS
<1>2. \A k \in 1..n : t[i + k - 1] \in W
  BY <1>1
<1>3. Segment(t, i, n) \in [1..n -> W] /\ n \in Nat
  BY <1>2 DEF Segment
<1>4. Segment(t, i, n) \in Seq(W) /\ Len(Segment(t, i, n)) = n
  BY <1>3
<1> QED  BY <1>1, <1>4 DEF Segment

\* A form fits at i exactly if it is a segment from i on.
LEMMA FitsForm ==
  ASSUME NEW t \in Seq(Shielded), NEW i \in 1..Len(t),
         NEW words \in Seq(PlainNames), Len(words) # 0, NEW seps
  PROVE  /\ Fits(t, i, words, seps) <=> ~ NoneFrom(Form(words, seps), t, i)
         /\ Fits(t, i, words, seps) =>
              /\ i + Len(words) <= Len(t) + 1
              /\ \A k \in 1..Len(t) : i <= k /\ k < i + Len(words) => t[k] \in Words
<1> DEFINE m == Len(words)
           F == Form(words, seps)
<1>1. m \in Nat /\ m # 0 /\ Len(t) \in Nat /\ \A k \in 1..m : words[k] \in PlainNames
  OBVIOUS
<1> HIDE DEF m
<1>2. ASSUME Fits(t, i, words, seps)
      PROVE  /\ m \in 1..(Len(t) - i + 1)
             /\ \A k \in 1..Len(t) : i <= k /\ k < i + m => t[k] \in Words
             /\ Segment(t, i, m) \in F
  <2>1. /\ i + m - 1 <= Len(t)
        /\ \A k \in 1..m : t[i + k - 1].word = words[k] /\ (k > 1 => t[i + k - 1].sep \in seps)
    BY <1>2 DEF Fits, m
  <2>2. m \in 1..(Len(t) - i + 1)
    BY <1>1, <2>1
  <2>3. \A k \in 1..m : t[i + k - 1] \in Words
    <3>1. \A k \in 1..m : i + k - 1 \in 1..Len(t)
      BY <1>1, <2>1
    <3>2. \A k \in 1..m : t[i + k - 1] \in Shielded
      BY <3>1
    <3> QED  BY <1>1, <2>1, <3>2, WordsByName
  <2>4. ASSUME NEW k \in 1..Len(t), i <= k, k < i + m PROVE t[k] \in Words
    <3>1. k - i + 1 \in 1..m /\ i + (k - i + 1) - 1 = k
      BY <1>1, <2>4
    <3> QED  BY <2>3, <3>1
  <2>5. Segment(t, i, m) \in Seq(Words) /\ Len(Segment(t, i, m)) = m
    <3>1. Segment(t, i, m) \in [1..m -> Words]
      BY <2>3 DEF Segment
    <3> QED  BY <1>1, <3>1
  <2>6. \A k \in 1..m : Segment(t, i, m)[k] = t[i + k - 1]
    BY DEF Segment
  <2>7. Segment(t, i, m) \in F
    BY <2>1, <2>5, <2>6 DEF Form, m
  <2> QED  BY <2>2, <2>4, <2>7
<1>3. ASSUME NEW n \in 1..(Len(t) - i + 1), Segment(t, i, n) \in F
      PROVE  Fits(t, i, words, seps)
  <2>1. Len(Segment(t, i, n)) = n /\ \A k \in 1..n : Segment(t, i, n)[k] = t[i + k - 1]
    BY SegmentIsSeq
  <2>2. /\ Len(Segment(t, i, n)) = m
        /\ \A k \in 1..m : /\ Segment(t, i, n)[k].word = words[k]
                           /\ k > 1 => Segment(t, i, n)[k].sep \in seps
    BY <1>3 DEF Form, m
  <2>3. n = m /\ i + m - 1 <= Len(t)
    BY <1>1, <2>1, <2>2
  <2>4. \A k \in 1..m : t[i + k - 1].word = words[k] /\ (k > 1 => t[i + k - 1].sep \in seps)
    BY <2>1, <2>2, <2>3
  <2> QED  BY <2>3, <2>4 DEF Fits, m
<1>4. Fits(t, i, words, seps) <=> ~ NoneFrom(F, t, i)
  BY <1>2, <1>3 DEF NoneFrom
<1>5. m \in 1..(Len(t) - i + 1) => i + m <= Len(t) + 1
  BY <1>1
<1> QED  BY <1>2, <1>4, <1>5 DEF m

-----------------------------------------------------------------------------
(* What re.sub makes of the rest of a text *)

\* What is left of a text from i on.
End(t, i) == Segment(t, i, Len(t) - i + 1)

\* A text from the first word on, from behind the last, and from a word and the next.
LEMMA Ends ==
  ASSUME NEW W, NEW t \in Seq(W)
  PROVE  /\ End(t, 1) = t /\ End(t, Len(t) + 1) = <<>>
         /\ \A i \in 1..Len(t) : End(t, i) = <<t[i]>> \o End(t, i + 1)
         /\ \A i \in 1..Len(t) + 1 : End(t, i) \in Seq(W)
<1> DEFINE n == Len(t)
<1>1. n \in Nat /\ t = [k \in 1..n |-> t[k]] /\ \A k \in 1..n : t[k] \in W
  OBVIOUS
<1> HIDE DEF n
<1>2. End(t, 1) = t
  <2>1. n - 1 + 1 = n /\ \A k \in 1..n : 1 + k - 1 = k
    BY <1>1
  <2> QED  BY <1>1, <2>1 DEF End, Segment, n
<1>3. ASSUME NEW i \in 1..n + 1
      PROVE  /\ End(t, i) \in Seq(W) /\ Len(End(t, i)) = n - i + 1
             /\ \A k \in 1..(n - i + 1) : End(t, i)[k] = t[i + k - 1]
  <2>1. \A k \in 1..(n - i + 1) : i + k - 1 \in 1..n
    BY <1>1
  <2>2. n - i + 1 \in Nat
    BY <1>1
  <2> DEFINE m == n - i + 1
  <2>3. End(t, i) = [k \in 1..m |-> t[i + k - 1]]
    BY DEF End, Segment, n
  <2> HIDE DEF m
  <2>4. End(t, i) \in [1..m -> W]
    BY <1>1, <2>1, <2>3 DEF m
  <2>5. m \in Nat
    BY <2>2 DEF m
  <2>6. End(t, i) \in Seq(W) /\ Len(End(t, i)) = m
    BY <2>4, <2>5
  <2> QED  BY <2>3, <2>6 DEF m
<1>4. End(t, n + 1) = <<>>
  <2>1. n + 1 \in 1..n + 1 /\ n - (n + 1) + 1 = 0
    BY <1>1
  <2>2. End(t, n + 1) \in Seq(W) /\ Len(End(t, n + 1)) = 0
    BY <1>3, <2>1
  <2> QED  BY <2>2
<1>5. ASSUME NEW i \in 1..n PROVE End(t, i) = <<t[i]>> \o End(t, i + 1)
  <2> DEFINE a == End(t, i)
             r == End(t, i + 1)
             b == <<t[i]>> \o r
  <2>1. i \in 1..n + 1 /\ i + 1 \in 1..n + 1 /\ n - (i + 1) + 1 = n - i
    BY <1>1
  <2>2. a \in Seq(W) /\ Len(a) = n - i + 1 /\ \A k \in 1..(n - i + 1) : a[k] = t[i + k - 1]
    BY <1>3, <2>1
  <2>3. r \in Seq(W) /\ Len(r) = n - i /\ \A k \in 1..(n - i) : r[k] = t[(i + 1) + k - 1]
    BY <1>3, <2>1
  <2> HIDE DEF a, r
  <2>4. /\ b \in Seq(W) /\ Len(b) = Len(r) + 1 /\ Len(r) \in Nat /\ b[1] = t[i]
        /\ \A k \in 1..Len(r) : b[k + 1] = r[k]
    <3>1. t[i] \in W
      BY <1>1
    <3> QED  BY <2>3, <3>1, StartsWith
  <2> HIDE DEF b
  <2>5. ASSUME NEW k \in 1..Len(a) PROVE a[k] = b[k]
    <3>1. a[k] = t[i + k - 1]
      BY <2>2
    <3>2. CASE k = 1
      BY <1>1, <2>4, <3>1, <3>2
    <3>3. CASE k # 1
      <4> DEFINE j == k - 1
      <4>1. j \in 1..(n - i) /\ k = j + 1 /\ (i + 1) + j - 1 = i + k - 1
        BY <1>1, <2>2, <3>3
      <4> HIDE DEF j
      <4> QED  BY <2>3, <2>4, <3>1, <4>1
    <3> QED  BY <3>2, <3>3
  <2>6. Len(a) = Len(b)
    BY <1>1, <2>2, <2>3, <2>4
  <2>7. a = b
    BY <2>2, <2>4, <2>5, <2>6
  <2> QED  BY <2>7 DEF a, b, r
<1> QED  BY <1>2, <1>3, <1>4, <1>5 DEF n

\* Nothing found, nothing changed.
LEMMA SubNone ==
  ASSUME NEW W, NEW t \in Seq(W), NEW match, NEW put, \A i \in 1..Len(t) : match[i] = 0
  PROVE  Sub(t, match, put) = t
<1> DEFINE n == Len(t)
<1>1. Plan(W, t, match, put)
  BY DEF Plan
<1>2. PICK f : Unfolds(W, t, match, put, f) /\ Sub(t, match, put) = f[1]
  BY <1>1, SubUnfolds
<1>3. n \in Nat /\ f[n + 1] = <<>> /\ \A i \in 1..n : f[i] = <<t[i]>> \o f[i + 1]
  <2>1. /\ f[n + 1] = <<>>
        /\ \A i \in 1..n : f[i] = IF match[i] = 0 THEN <<t[i]>> \o f[i + 1] ELSE put[i] \o f[i + match[i]]
    BY <1>2 DEF Unfolds
  <2>2. n \in Nat /\ \A i \in 1..n : match[i] = 0
    OBVIOUS
  <2> HIDE DEF n
  <2> QED  BY <2>1, <2>2
<1>4. End(t, n + 1) = <<>> /\ \A i \in 1..n : End(t, i) = <<t[i]>> \o End(t, i + 1)
  BY Ends
<1> DEFINE T == {i \in 1..n + 1 : f[i] = End(t, i)}
<1> HIDE DEF n
<1>5. ASSUME NEW i \in 1..n + 1, \A j \in 1..n + 1 : j > i => f[j] = End(t, j)
      PROVE  f[i] = End(t, i)
  <2>1. CASE i = n + 1
    BY <1>3, <1>4, <2>1
  <2>2. CASE i # n + 1
    <3>1. i \in 1..n /\ i + 1 \in 1..n + 1 /\ i + 1 > i
      BY <1>3, <2>2
    <3> QED  BY <1>3, <1>4, <1>5, <3>1
  <2> QED  BY <2>1, <2>2
<1>6. T \in SUBSET (1..n + 1) /\ \A i \in 1..n + 1 : i \in T <=> f[i] = End(t, i)
  OBVIOUS
<1> HIDE DEF T
<1>7. T = 1..n + 1
  BY <1>3, <1>5, <1>6, FromTheEnd
<1>8. 1 \in 1..n + 1
  BY <1>3
<1> QED  BY <1>2, <1>6, <1>7, <1>8, Ends

\* Behind the first c words, re.sub does what it does to the rest of the text alone.
LEMMA SubBehind ==
  ASSUME NEW W, NEW s, NEW match, NEW put, Plan(W, s, match, put),
         NEW f, Unfolds(W, s, match, put, f),
         NEW r, NEW match2, NEW put2, Plan(W, r, match2, put2),
         NEW c \in Nat, Len(s) = Len(r) + c,
         \A i \in 1..Len(r) : /\ s[i + c] = r[i] /\ match[i + c] = match2[i]
                              /\ match2[i] # 0 => put[i + c] = put2[i]
  PROVE  f[c + 1] = Sub(r, match2, put2)
<1> DEFINE n == Len(r)
<1>1. PICK g : Unfolds(W, r, match2, put2, g) /\ Sub(r, match2, put2) = g[1]
  BY SubUnfolds
<1>2. /\ n \in Nat /\ g[n + 1] = <<>>
      /\ \A i \in 1..n : /\ match2[i] \in Nat /\ i + match2[i] <= n + 1
                         /\ match2[i] = 0 => g[i] = <<r[i]>> \o g[i + 1]
                         /\ match2[i] # 0 => g[i] = put2[i] \o g[i + match2[i]]
  BY <1>1 DEF Unfolds, Plan
<1>3. \A i \in 1..n : /\ s[i + c] = r[i] /\ match[i + c] = match2[i]
                      /\ match2[i] # 0 => put[i + c] = put2[i]
  OBVIOUS
<1>4. Len(s) = n + c /\ n \in Nat /\ c \in Nat
  BY <1>2
<1> HIDE DEF n
<1>5. f[(n + 1) + c] = <<>>
  <2>1. Len(s) + 1 = (n + 1) + c
    BY <1>4
  <2> QED  BY <2>1 DEF Unfolds
<1>6. ASSUME NEW i \in 1..n
      PROVE  /\ match2[i] = 0 => f[i + c] = <<r[i]>> \o f[(i + 1) + c]
             /\ match2[i] # 0 => f[i + c] = put2[i] \o f[(i + match2[i]) + c]
  <2> DEFINE j == i + c
  <2>1. j \in 1..Len(s) /\ match2[i] \in Nat
    <3>1. j \in 1..(n + c)
      BY <1>4
    <3>2. match2[i] \in Nat
      BY <1>2
    <3> QED  BY <1>4, <3>1, <3>2
  <2>2. f[j] = IF match[j] = 0 THEN <<s[j]>> \o f[j + 1] ELSE put[j] \o f[j + match[j]]
    BY <2>1 DEF Unfolds
  <2>3. j + 1 = (i + 1) + c /\ j + match2[i] = (i + match2[i]) + c
    BY <1>4, <2>1
  <2>4. s[j] = r[i] /\ match[j] = match2[i] /\ (match2[i] # 0 => put[j] = put2[i])
    BY <1>3
  <2>5. match2[i] = 0 => f[j] = <<r[i]>> \o f[(i + 1) + c]
    BY <2>2, <2>3, <2>4
  <2>6. match2[i] # 0 => f[j] = put2[i] \o f[(i + match2[i]) + c]
    BY <2>2, <2>3, <2>4
  <2> QED  BY <2>5, <2>6
<1> DEFINE T == {i \in 1..n + 1 : f[i + c] = g[i]}
<1>7. ASSUME NEW i \in 1..n + 1, \A j \in 1..n + 1 : j > i => f[j + c] = g[j]
      PROVE  f[i + c] = g[i]
  <2>1. CASE i = n + 1
    BY <1>2, <1>5, <2>1
  <2>2. CASE i # n + 1
    <3>1. i \in 1..n /\ i + 1 \in 1..n + 1 /\ i + 1 > i
      BY <1>2, <2>2
    <3>2. CASE match2[i] = 0
      <4>1. f[(i + 1) + c] = g[i + 1]
        BY <1>7, <3>1
      <4>2. f[i + c] = <<r[i]>> \o f[(i + 1) + c]
        BY <1>6, <3>1, <3>2
      <4>3. g[i] = <<r[i]>> \o g[i + 1]
        BY <1>2, <3>1, <3>2
      <4> QED  BY <4>1, <4>2, <4>3
    <3>3. CASE match2[i] # 0
      <4>1. i + match2[i] \in 1..n + 1 /\ i + match2[i] > i
        <5>1. match2[i] \in Nat /\ i + match2[i] <= n + 1
          BY <1>2, <3>1
        <5> QED  BY <1>4, <3>1, <3>3, <5>1
      <4>2. f[(i + match2[i]) + c] = g[i + match2[i]]
        BY <1>7, <4>1
      <4>3. f[i + c] = put2[i] \o f[(i + match2[i]) + c]
        BY <1>6, <3>1, <3>3
      <4>4. g[i] = put2[i] \o g[i + match2[i]]
        BY <1>2, <3>1, <3>3
      <4> QED  BY <4>2, <4>3, <4>4
    <3> QED  BY <3>2, <3>3
  <2> QED  BY <2>1, <2>2
<1>8. T \in SUBSET (1..n + 1) /\ \A i \in 1..n + 1 : i \in T <=> f[i + c] = g[i]
  OBVIOUS
<1> HIDE DEF T
<1>9. T = 1..n + 1
  BY <1>2, <1>7, <1>8, FromTheEnd
<1>10. 1 \in 1..n + 1 /\ 1 + c = c + 1
  BY <1>2
<1> QED  BY <1>1, <1>8, <1>9, <1>10

-----------------------------------------------------------------------------
(* The references a text holds in its placeholders *)

HeldBy(w)  == IF w.word = "placeholder" THEN <<w.ref[2].word>> ELSE <<>>
HeldOne(s) == [i \in DOMAIN s |-> 1]
HeldPut(s) == [i \in DOMAIN s |-> HeldBy(s[i])]
Held(s)    == Sub(s, HeldOne(s), HeldPut(s))

\* A placeholder and nothing else holds a reference, of two words.
LEMMA HolderRefs ==
  ASSUME NEW w \in Shielded
  PROVE  /\ w \in Holders => /\ w = Placeholder(w.ref) /\ w.ref \in Spans
                             /\ w.ref \in Seq(Words) /\ w.ref = <<w.ref[1], w.ref[2]>>
                             /\ w.ref[1] \in Words /\ w.ref[2] \in Words
         /\ w \notin Holders => w.ref = <<>>
<1>1. CASE w \in Holders
  <2>1. PICK s \in Spans : w = Placeholder(s)
    BY <1>1 DEF Holders
  <2>2. w.ref = s
    <3>1. Placeholder(s).ref = s
      BY DEF Placeholder
    <3> QED  BY <2>1, <3>1
  <2>3. s \in Seq(Words) /\ Len(s) = 2
    BY DEF Spans
  <2>4. s[1] \in Words /\ s[2] \in Words
    BY <2>3
  <2>5. s = <<s[1], s[2]>>
    BY <2>3
  <2>6. w = Placeholder(w.ref) /\ w.ref \in Spans
    BY <2>1, <2>2
  <2> QED  BY <1>1, <2>2, <2>3, <2>4, <2>5, <2>6
<1>2. CASE w \notin Holders
  <2>1. w \in Words => w.ref = <<>>
    <3>1. w \in Words => w = Word(w.sep, w.word)
      BY WordKinds
    <3>2. Word(w.sep, w.word).ref = <<>>
      BY DEF Word
    <3> QED  BY <3>1, <3>2
  <2>2. w \in Masks => w.ref = <<>>
    <3> SUFFICES ASSUME w \in Masks PROVE w.ref = <<>>
      OBVIOUS
    <3>1. PICK sep \in Seps : w = Mask(sep)
      BY DEF Masks
    <3> QED  BY <3>1 DEF Mask, Word
  <2> QED  BY <1>2, <2>1, <2>2 DEF Shielded, Open
<1> QED  BY <1>1, <1>2

\* What a word holds for its reference.
LEMMA HeldByName ==
  ASSUME NEW w \in Shielded
  PROVE  HeldBy(w) \in Seq(PlainNames) /\ (w \notin Holders => HeldBy(w) = <<>>)
<1>1. CASE w \in Holders
  <2>1. w.ref[2] \in Words
    BY <1>1, HolderRefs
  <2>2. w.ref[2].word \in PlainNames
    BY <2>1, WordKinds
  <2>3. HeldBy(w) = <<w.ref[2].word>>
    BY <1>1, WordKinds DEF HeldBy
  <2> QED  BY <1>1, <2>2, <2>3
<1>2. CASE w \notin Holders
  <2>1. HeldBy(w) = <<>>
    BY <1>2, WordsByName DEF HeldBy
  <2> QED  BY <2>1
<1> QED  BY <1>1, <1>2

\* Reading off what is held goes word by word.
LEMMA HeldPlan ==
  ASSUME NEW s \in Seq(Shielded)
  PROVE  Plan(PlainNames, s, HeldOne(s), HeldPut(s))
<1>1. DOMAIN s = 1..Len(s) /\ Len(s) \in Nat
  OBVIOUS
<1>2. ASSUME NEW i \in 1..Len(s)
      PROVE  HeldOne(s)[i] = 1 /\ HeldPut(s)[i] \in Seq(PlainNames) /\ i + 1 <= Len(s) + 1
  <2>1. HeldOne(s)[i] = 1 /\ HeldPut(s)[i] = HeldBy(s[i])
    BY <1>1 DEF HeldOne, HeldPut
  <2>2. s[i] \in Shielded
    OBVIOUS
  <2>3. i + 1 <= Len(s) + 1
    BY <1>1
  <2> QED  BY <2>1, <2>2, <2>3, HeldByName
<1> QED  BY <1>1, <1>2 DEF Plan

\* Word by word.
LEMMA HeldRest ==
  /\ Held(<<>>) = <<>>
  /\ \A w \in Shielded : \A r \in Seq(Shielded) :
       Held(r) \in Seq(PlainNames) /\ Held(<<w>> \o r) = HeldBy(w) \o Held(r)
<1>1. Held(<<>>) = <<>>
  <2> DEFINE e == <<>>
  <2>1. e \in Seq(Shielded) /\ Len(e) = 0
    OBVIOUS
  <2> HIDE DEF e
  <2>2. PICK f : Unfolds(PlainNames, e, HeldOne(e), HeldPut(e), f)
                 /\ Sub(e, HeldOne(e), HeldPut(e)) = f[1]
    <3>1. Plan(PlainNames, e, HeldOne(e), HeldPut(e))
      BY <2>1, HeldPlan
    <3> QED  BY <3>1, SubUnfolds
  <2>3. f[0 + 1] = <<>>
    BY <2>1, <2>2 DEF Unfolds
  <2>4. Held(e) = <<>>
    BY <2>2, <2>3 DEF Held
  <2> QED  BY <2>4 DEF e
<1>2. ASSUME NEW w \in Shielded, NEW r \in Seq(Shielded)
      PROVE  Held(r) \in Seq(PlainNames) /\ Held(<<w>> \o r) = HeldBy(w) \o Held(r)
  <2> DEFINE s == <<w>> \o r
  <2>1. /\ s \in Seq(Shielded) /\ Len(s) = Len(r) + 1 /\ Len(r) \in Nat
        /\ s[1] = w /\ \A k \in 1..Len(r) : s[k + 1] = r[k]
    BY StartsWith
  <2> HIDE DEF s
  <2>2. Plan(PlainNames, s, HeldOne(s), HeldPut(s)) /\ Plan(PlainNames, r, HeldOne(r), HeldPut(r))
    BY <2>1, HeldPlan
  <2>3. PICK f : Unfolds(PlainNames, s, HeldOne(s), HeldPut(s), f)
                 /\ Sub(s, HeldOne(s), HeldPut(s)) = f[1]
    BY <2>2, SubUnfolds
  <2>4. PICK g : Unfolds(PlainNames, r, HeldOne(r), HeldPut(r), g)
                 /\ Sub(r, HeldOne(r), HeldPut(r)) = g[1]
    BY <2>2, SubUnfolds
  <2>5. Held(r) \in Seq(PlainNames)
    <3>1. 1 \in 1..Len(r) + 1
      BY <2>1
    <3> QED  BY <2>4, <3>1 DEF Held, Unfolds
  <2>6. ASSUME NEW i \in 1..Len(r)
        PROVE  s[i + 1] = r[i] /\ HeldOne(s)[i + 1] = HeldOne(r)[i] /\ HeldPut(s)[i + 1] = HeldPut(r)[i]
    <3>1. i + 1 \in DOMAIN s /\ i \in DOMAIN r /\ s[i + 1] = r[i]
      BY <2>1
    <3> QED  BY <3>1 DEF HeldOne, HeldPut
  <2>7. f[1 + 1] = Held(r)
    BY <2>1, <2>2, <2>3, <2>6, SubBehind DEF Held
  <2>8. 1 \in 1..Len(s) /\ 1 \in DOMAIN s
    BY <2>1
  <2>9. HeldOne(s)[1] = 1 /\ HeldPut(s)[1] = HeldBy(w)
    BY <2>1, <2>8 DEF HeldOne, HeldPut
  <2>10. f[1] = HeldBy(w) \o f[1 + 1]
    <3>1. f[1] = IF HeldOne(s)[1] = 0 THEN <<s[1]>> \o f[1 + 1]
                 ELSE HeldPut(s)[1] \o f[1 + HeldOne(s)[1]]
      BY <2>3, <2>8 DEF Unfolds
    <3> QED  BY <2>9, <3>1
  <2> QED  BY <2>3, <2>5, <2>7, <2>10 DEF Held, s
<1> QED  BY <1>1, <1>2

-----------------------------------------------------------------------------
(* What hiding the matches of a pattern leaves *)

HidePut(t) == [i \in DOMAIN t |-> <<Mask(t[i].sep)>>]

\* A mask is neither a word of a text that arrives nor a placeholder.
LEMMA MaskIsMask ==
  ASSUME NEW w \in Shielded
  PROVE  Mask(w.sep) \in Masks /\ Mask(w.sep) \in Shielded \ Words /\ Mask(w.sep) \notin Holders
<1>1. Mask(w.sep) \in Masks
  BY WordKinds DEF Masks
<1>2. Mask(w.sep).word = "[REDACTED]"
  BY <1>1, WordKinds
<1>3. "[REDACTED]" \notin PlainNames
  BY DEF PlainNames
<1>4. Mask(w.sep) \in Shielded
  BY <1>1 DEF Shielded, Open
<1> QED  BY <1>1, <1>2, <1>3, <1>4, WordKinds

\* A pattern's matches are replaced by one mask each.
LEMMA HidePlan ==
  ASSUME NEW t \in Seq(Shielded), NEW L, NEW match, Finds(L, t, match)
  PROVE  /\ Plan(Shielded, t, match, HidePut(t)) /\ Hide(t, match) = Sub(t, match, HidePut(t))
         /\ \A i \in 1..Len(t) : HidePut(t)[i] = <<Mask(t[i].sep)>>
<1>1. \A i \in 1..Len(t) : t[i] \in Shielded /\ match[i] \in Nat /\ i + match[i] <= Len(t) + 1
  BY DEF Finds
<1>2. \A i \in 1..Len(t) : HidePut(t)[i] = <<Mask(t[i].sep)>>
  BY DEF HidePut
<1>3. \A i \in 1..Len(t) : HidePut(t)[i] \in Seq(Shielded)
  <2>1. \A i \in 1..Len(t) : Mask(t[i].sep) \in Shielded
    BY <1>1, MaskIsMask
  <2>2. \A w \in Shielded : <<w>> \in Seq(Shielded)
    OBVIOUS
  <2> QED  BY <1>2, <2>1, <2>2
<1>4. Len(t) \in Nat
  OBVIOUS
<1>5. Plan(Shielded, t, match, HidePut(t))
  BY <1>1, <1>3, <1>4 DEF Plan
<1> QED  BY <1>2, <1>5 DEF Hide, HidePut

\* It clears the text of what the pattern matches, and keeps it clear of any other.
LEMMA HideClears ==
  ASSUME NEW t \in Seq(Shielded), NEW L, NEW match, Finds(L, t, match),
         NEW K, \A s \in K : s \in Seq(Words), K = L \/ Clear(K, t)
  PROVE  Hide(t, match) \in Seq(Shielded) /\ Clear(K, Hide(t, match))
<1>1. /\ Plan(Shielded, t, match, HidePut(t)) /\ Hide(t, match) = Sub(t, match, HidePut(t))
      /\ \A i \in 1..Len(t) : HidePut(t)[i] = <<Mask(t[i].sep)>>
  BY HidePlan
<1>2. \A i \in 1..Len(t) : match[i] = 0 => NoneFrom(K, t, i)
  BY DEF Finds, Clear
<1>3. \A i \in 1..Len(t) : \E w \in Shielded \ Words : HidePut(t)[i] = <<w>>
  <2>1. \A i \in 1..Len(t) : t[i] \in Shielded
    OBVIOUS
  <2>2. \A i \in 1..Len(t) : Mask(t[i].sep) \in Shielded \ Words
    BY <2>1, MaskIsMask
  <2> QED  BY <1>1, <2>2
<1>4. Sub(t, match, HidePut(t)) \in Seq(Shielded) /\ Clear(K, Sub(t, match, HidePut(t)))
  BY <1>1, <1>2, <1>3, SubClears
<1> QED  BY <1>1, <1>4

\* What is held by the ends of a text, one word after the other.
LEMMA HeldEnds ==
  ASSUME NEW t \in Seq(Shielded)
  PROVE  /\ Held(End(t, Len(t) + 1)) = <<>> /\ Held(End(t, 1)) = Held(t)
         /\ \A i \in 1..Len(t) + 1 : Held(End(t, i)) \in Seq(PlainNames)
         /\ \A i \in 1..Len(t) : Held(End(t, i)) = HeldBy(t[i]) \o Held(End(t, i + 1))
<1>1. /\ End(t, 1) = t /\ End(t, Len(t) + 1) = <<>>
      /\ \A i \in 1..Len(t) : End(t, i) = <<t[i]>> \o End(t, i + 1)
      /\ \A i \in 1..Len(t) + 1 : End(t, i) \in Seq(Shielded)
  BY Ends
<1>2. Held(End(t, Len(t) + 1)) = <<>>
  BY <1>1, HeldRest
<1>3. ASSUME NEW i \in 1..Len(t) PROVE Held(End(t, i)) = HeldBy(t[i]) \o Held(End(t, i + 1))
  <2>1. t[i] \in Shielded /\ i + 1 \in 1..Len(t) + 1
    OBVIOUS
  <2>2. End(t, i + 1) \in Seq(Shielded)
    BY <1>1, <2>1
  <2>3. Held(<<t[i]>> \o End(t, i + 1)) = HeldBy(t[i]) \o Held(End(t, i + 1))
    BY <2>1, <2>2, HeldRest
  <2> QED  BY <1>1, <2>3
<1>4. \A i \in 1..Len(t) + 1 : Held(End(t, i)) \in Seq(PlainNames)
  <2>1. \E w \in Shielded : TRUE
    <3>1. " " \in Seps
      BY DEF Seps
    <3>2. Mask(" ") \in Shielded
      BY <3>1 DEF Masks, Open, Shielded
    <3> QED  BY <3>2
  <2> QED  BY <1>1, <2>1, HeldRest
<1> QED  BY <1>1, <1>2, <1>3, <1>4

\* Words hold nothing.
LEMMA HeldSkips ==
  ASSUME NEW t \in Seq(Shielded), NEW i \in 1..Len(t), NEW m \in Nat, i + m <= Len(t) + 1,
         \A k \in 1..Len(t) : i <= k /\ k < i + m => t[k] \in Words
  PROVE  Held(End(t, i)) = Held(End(t, i + m))
<1> DEFINE n == Len(t)
           h(j) == Held(End(t, j))
           T == {c \in Nat : c <= m => h(i) = h(i + c)}
<1>1. n \in Nat /\ i \in 1..n /\ i + m <= n + 1
  OBVIOUS
<1>2. \A j \in 1..n + 1 : h(j) \in Seq(PlainNames)
  BY HeldEnds
<1>3. \A j \in 1..n : h(j) = HeldBy(t[j]) \o h(j + 1)
  BY HeldEnds
<1>4. \A j \in 1..n : t[j] \in Words => HeldBy(t[j]) = <<>>
  <2> SUFFICES ASSUME NEW j \in 1..n, t[j] \in Words PROVE HeldBy(t[j]) = <<>>
    OBVIOUS
  <2>1. t[j] \in Shielded
    OBVIOUS
  <2>2. t[j].word # "placeholder"
    <3>1. "placeholder" \notin PlainNames
      BY DEF PlainNames
    <3> QED  BY <3>1, WordKinds
  <2> QED  BY <2>2 DEF HeldBy
<1>5. \A k \in 1..n : i <= k /\ k < i + m => t[k] \in Words
  OBVIOUS
<1> HIDE DEF n, h
<1>6. 0 \in T
  <2>1. i + 0 = i
    BY <1>1
  <2> QED  BY <2>1
<1>7. ASSUME NEW c \in T PROVE c + 1 \in T
  <2> SUFFICES ASSUME c + 1 <= m PROVE h(i) = h(i + (c + 1))
    OBVIOUS
  <2> DEFINE j == i + c
  <2>1. c \in Nat /\ c <= m
    OBVIOUS
  <2>2. /\ j \in 1..n /\ i <= j /\ j < i + m /\ j + 1 = i + (c + 1)
        /\ j + 1 \in 1..n + 1
    BY <1>1, <2>1
  <2>3. h(i) = h(j)
    BY <2>1
  <2> HIDE DEF j
  <2>4. HeldBy(t[j]) = <<>>
    BY <1>4, <1>5, <2>2
  <2>5. h(j) = <<>> \o h(j + 1) /\ h(j + 1) \in Seq(PlainNames)
    BY <1>2, <1>3, <2>2, <2>4
  <2>6. h(j) = h(j + 1)
    BY <2>5
  <2> QED  BY <2>2, <2>3, <2>6
<1>8. T \in SUBSET Nat
  OBVIOUS
<1> HIDE DEF T
<1>9. T = Nat
  BY <1>6, <1>7, <1>8, NatSetInduction
<1>10. h(i) = h(i + m)
  <2>1. m \in T /\ m <= m
    BY <1>9
  <2> QED  BY <2>1 DEF T
<1> QED  BY <1>10 DEF h

\* Hiding words leaves the references held as they are.
LEMMA HideHolds ==
  ASSUME NEW t \in Seq(Shielded), NEW L, NEW match, Finds(L, t, match)
  PROVE  Held(Hide(t, match)) = Held(t)
<1> DEFINE n == Len(t)
           h(j) == Held(End(t, j))
<1>1. /\ Plan(Shielded, t, match, HidePut(t)) /\ Hide(t, match) = Sub(t, match, HidePut(t))
      /\ \A i \in 1..n : HidePut(t)[i] = <<Mask(t[i].sep)>>
  BY HidePlan
<1>2. PICK f : Unfolds(Shielded, t, match, HidePut(t), f) /\ Sub(t, match, HidePut(t)) = f[1]
  BY <1>1, SubUnfolds
<1>3. /\ n \in Nat /\ f[n + 1] = <<>>
      /\ \A i \in 1..n + 1 : f[i] \in Seq(Shielded)
      /\ \A i \in 1..n : f[i] = IF match[i] = 0 THEN <<t[i]>> \o f[i + 1]
                                ELSE HidePut(t)[i] \o f[i + match[i]]
  BY <1>2 DEF Unfolds
<1>4. /\ h(n + 1) = <<>> /\ h(1) = Held(t)
      /\ \A i \in 1..n + 1 : h(i) \in Seq(PlainNames)
      /\ \A i \in 1..n : h(i) = HeldBy(t[i]) \o h(i + 1)
  BY HeldEnds
<1>5. \A i \in 1..n : t[i] \in Shielded /\ match[i] \in Nat /\ i + match[i] <= n + 1
  BY DEF Finds
<1>6. \A i \in 1..n : h(i) = h(i + match[i])
  <2> SUFFICES ASSUME NEW i \in 1..n PROVE h(i) = h(i + match[i])
    OBVIOUS
  <2>1. match[i] \in Nat /\ i + match[i] <= n + 1
    BY <1>5
  <2>2. \A k \in 1..n : i <= k /\ k < i + match[i] => t[k] \in Words
    BY DEF Finds
  <2> QED  BY <2>1, <2>2, HeldSkips
<1> HIDE DEF n, h
<1> DEFINE T == {i \in 1..n + 1 : Held(f[i]) = h(i)}
<1>7. ASSUME NEW i \in 1..n + 1, \A j \in 1..n + 1 : j > i => Held(f[j]) = h(j)
      PROVE  Held(f[i]) = h(i)
  <2>1. CASE i = n + 1
    BY <1>3, <1>4, <2>1, HeldRest
  <2>2. CASE i # n + 1 /\ match[i] = 0
    <3>1. i \in 1..n /\ i + 1 \in 1..n + 1 /\ i + 1 > i
      BY <1>3, <2>2
    <3>2. f[i] = <<t[i]>> \o f[i + 1] /\ f[i + 1] \in Seq(Shielded) /\ t[i] \in Shielded
      BY <1>3, <1>5, <2>2, <3>1
    <3>3. Held(f[i]) = HeldBy(t[i]) \o Held(f[i + 1])
      BY <3>2, HeldRest
    <3>4. Held(f[i + 1]) = h(i + 1)
      BY <1>7, <3>1
    <3> QED  BY <1>4, <3>1, <3>3, <3>4
  <2>3. CASE i # n + 1 /\ match[i] # 0
    <3>1. i \in 1..n
      BY <1>3, <2>3
    <3> DEFINE j == i + match[i]
               w == Mask(t[i].sep)
    <3>2. j \in 1..n + 1 /\ j > i
      <4>1. match[i] \in Nat /\ j <= n + 1
        BY <1>5, <3>1
      <4> QED  BY <1>3, <2>3, <3>1, <4>1
    <3>3. f[i] = <<w>> \o f[j]
      BY <1>1, <1>3, <2>3, <3>1 DEF n
    <3>4. h(i) = h(j)
      BY <1>6, <3>1
    <3>5. w \in Shielded /\ w \notin Holders
      <4>1. t[i] \in Shielded
        BY <1>5, <3>1
      <4> QED  BY <4>1, MaskIsMask
    <3> HIDE DEF j, w
    <3>6. f[j] \in Seq(Shielded) /\ Held(f[j]) = h(j) /\ h(j) \in Seq(PlainNames)
      BY <1>3, <1>4, <1>7, <3>2
    <3>7. Held(f[i]) = HeldBy(w) \o Held(f[j]) /\ HeldBy(w) = <<>>
      BY <3>3, <3>5, <3>6, HeldRest, HeldByName
    <3>8. Held(f[i]) = <<>> \o h(j)
      BY <3>6, <3>7
    <3>9. Held(f[i]) = h(j)
      BY <3>6, <3>8
    <3> QED  BY <3>4, <3>9
  <2> QED  BY <2>1, <2>2, <2>3
<1>8. T \in SUBSET (1..n + 1) /\ \A i \in 1..n + 1 : i \in T <=> Held(f[i]) = h(i)
  OBVIOUS
<1> HIDE DEF T
<1>9. T = 1..n + 1
  BY <1>3, <1>7, <1>8, FromTheEnd
<1>10. 1 \in 1..n + 1
  BY <1>3
<1> QED  BY <1>1, <1>2, <1>4, <1>8, <1>9, <1>10

-----------------------------------------------------------------------------
(* The languages of the patterns *)

EmailL == Form(<<"email">>, {})
SsnL   == Form(<<"d3", "d2", "d4">>, {"-"})
PhoneL == UNION {Form(<<"d2", "d3", "d3", "d4">>, Seps), Form(<<"d2", "d10">>, Seps),
                 Form(<<"d10">>, Seps), Form(<<"d3", "d3", "d4">>, Seps),
                 Form(<<"d4", "d3", "d4">>, Seps)}
CardL  == {s \in Seq(Words) :
             /\ \A k \in 1..Len(s) : s[k].word \in DOMAIN Digits
             /\ SumFunction([k \in 1..Len(s) |-> Digits[s[k].word]]) \in 13..16}

\* What one pattern finds at i.
FindsAt(L, t, i, m) ==
  /\ m \in Nat /\ i + m <= Len(t) + 1
  /\ m = 0 <=> NoneFrom(L, t, i)
  /\ \A k \in 1..Len(t) : i <= k /\ k < i + m => t[k] \in Words

\* A pattern of one form.
LEMMA FormIsFound ==
  ASSUME NEW t \in Seq(Shielded), NEW i \in 1..Len(t),
         NEW words \in Seq(PlainNames), NEW m \in Nat, Len(words) = m, m # 0, NEW seps
  PROVE  /\ Fits(t, i, words, seps) => FindsAt(Form(words, seps), t, i, m)
         /\ ~ Fits(t, i, words, seps) => FindsAt(Form(words, seps), t, i, 0)
<1>1. Len(t) \in Nat /\ Len(words) # 0
  OBVIOUS
<1>2. /\ Fits(t, i, words, seps) <=> ~ NoneFrom(Form(words, seps), t, i)
      /\ Fits(t, i, words, seps) =>
           i + m <= Len(t) + 1 /\ \A k \in 1..Len(t) : i <= k /\ k < i + m => t[k] \in Words
  BY <1>1, FitsForm
<1>3. CASE Fits(t, i, words, seps)
  BY <1>1, <1>2, <1>3 DEF FindsAt
<1>4. CASE ~ Fits(t, i, words, seps)
  <2>1. FindsAt(Form(words, seps), t, i, 0)
    BY <1>1, <1>2, <1>4 DEF FindsAt
  <2> QED  BY <1>4, <2>1
<1> QED  BY <1>3, <1>4

\* Email matches where its word sequence is, and nowhere else.
LEMMA EmailsAreFound ==
  ASSUME NEW t \in Seq(Shielded)
  PROVE  Finds(EmailL, t, Emails(t))
<1> DEFINE words == <<"email">>
<1>1. words \in Seq(PlainNames) /\ Len(words) = 1 /\ words[1] = "email" /\ 1 \in Nat /\ 1 # 0
  BY DEF PlainNames
<1>2. EmailL = Form(words, {})
  BY DEF EmailL
<1> HIDE DEF words
<1>3. ASSUME NEW i \in 1..Len(t) PROVE FindsAt(EmailL, t, i, Emails(t)[i])
  <2>1. Fits(t, i, words, {}) <=> t[i].word = "email"
    <3>1. 1..Len(words) = {1} /\ i + Len(words) - 1 = i /\ i + 1 - 1 = i /\ i <= Len(t)
      BY <1>1
    <3>2. ~ (1 > 1)
      OBVIOUS
    <3> QED  BY <1>1, <3>1, <3>2 DEF Fits
  <2>2. Emails(t)[i] = IF Fits(t, i, words, {}) THEN 1 ELSE 0
    BY <2>1 DEF Emails, Email
  <2>3. /\ Fits(t, i, words, {}) => FindsAt(Form(words, {}), t, i, 1)
        /\ ~ Fits(t, i, words, {}) => FindsAt(Form(words, {}), t, i, 0)
    BY <1>1, FormIsFound, Zenon
  <2> QED  BY <1>2, <2>2, <2>3
<1>4. \A s \in EmailL : s \in Seq(Words)
  BY DEF EmailL, Form
<1> QED  BY <1>3, <1>4 DEF Finds, FindsAt

\* So does Ssn,
LEMMA SsnsAreFound ==
  ASSUME NEW t \in Seq(Shielded)
  PROVE  Finds(SsnL, t, Ssns(t))
<1> DEFINE words == <<"d3", "d2", "d4">>
           seps  == {"-"}
<1>1. words \in Seq(PlainNames) /\ Len(words) = 3 /\ 3 \in Nat /\ 3 # 0
  BY DEF PlainNames
<1>2. SsnL = Form(words, seps)
  BY DEF SsnL
<1>3. ASSUME NEW i \in 1..Len(t) PROVE FindsAt(SsnL, t, i, Ssns(t)[i])
  <2>1. Ssns(t)[i] = IF Fits(t, i, words, seps) THEN 3 ELSE 0
    BY DEF Ssns, Ssn
  <2> HIDE DEF words, seps
  <2>2. /\ Fits(t, i, words, seps) => FindsAt(Form(words, seps), t, i, 3)
        /\ ~ Fits(t, i, words, seps) => FindsAt(Form(words, seps), t, i, 0)
    BY <1>1, FormIsFound, Zenon
  <2> QED  BY <1>2, <2>1, <2>2
<1>4. \A s \in SsnL : s \in Seq(Words)
  BY DEF SsnL, Form
<1> QED  BY <1>3, <1>4 DEF Finds, FindsAt

\* Phone, whose alternatives start with different words or go on differently,
LEMMA PhonesAreFound ==
  ASSUME NEW t \in Seq(Shielded)
  PROVE  Finds(PhoneL, t, Phones(t))
<1> DEFINE w1 == <<"d2", "d3", "d3", "d4">>
           w2 == <<"d2", "d10">>
           w3 == <<"d10">>
           w4 == <<"d3", "d3", "d4">>
           w5 == <<"d4", "d3", "d4">>
           L(w) == Form(w, Seps)
<1>1. /\ w1 \in Seq(PlainNames) /\ Len(w1) = 4 /\ w2 \in Seq(PlainNames) /\ Len(w2) = 2
      /\ w3 \in Seq(PlainNames) /\ Len(w3) = 1 /\ w4 \in Seq(PlainNames) /\ Len(w4) = 3
      /\ w5 \in Seq(PlainNames) /\ Len(w5) = 3
      /\ 1 \in Nat /\ 1 # 0 /\ 2 \in Nat /\ 2 # 0 /\ 3 \in Nat /\ 3 # 0 /\ 4 \in Nat /\ 4 # 0
  BY DEF PlainNames
<1>2. PhoneL = UNION {L(w1), L(w2), L(w3), L(w4), L(w5)}
  BY DEF PhoneL
<1>3. \A i \in 1..Len(t) :
        Phones(t)[i] = CASE Fits(t, i, w1, Seps) -> 4
                         [] Fits(t, i, w2, Seps) -> 2
                         [] Fits(t, i, w3, Seps) -> 1
                         [] Fits(t, i, w4, Seps) \/ Fits(t, i, w5, Seps) -> 3
                         [] OTHER -> 0
  BY DEF Phones, Phone
<1> HIDE DEF w1, w2, w3, w4, w5
<1>4. ASSUME NEW i \in 1..Len(t) PROVE FindsAt(PhoneL, t, i, Phones(t)[i])
  <2> DEFINE F(w) == Fits(t, i, w, Seps)
             N(w) == NoneFrom(L(w), t, i)
  <2>1. Phones(t)[i] = CASE F(w1) -> 4 [] F(w2) -> 2 [] F(w3) -> 1
                         [] F(w4) \/ F(w5) -> 3 [] OTHER -> 0
    BY <1>3
  <2>2. NoneFrom(PhoneL, t, i) <=> N(w1) /\ N(w2) /\ N(w3) /\ N(w4) /\ N(w5)
    BY <1>2 DEF NoneFrom
  <2> HIDE DEF N
  <2>3. (F(w1) => FindsAt(L(w1), t, i, 4)) /\ (~ F(w1) => FindsAt(L(w1), t, i, 0))
    BY <1>1, FormIsFound, Zenon
  <2>4. (F(w2) => FindsAt(L(w2), t, i, 2)) /\ (~ F(w2) => FindsAt(L(w2), t, i, 0))
    BY <1>1, FormIsFound, Zenon
  <2>5. (F(w3) => FindsAt(L(w3), t, i, 1)) /\ (~ F(w3) => FindsAt(L(w3), t, i, 0))
    BY <1>1, FormIsFound, Zenon
  <2>6. (F(w4) => FindsAt(L(w4), t, i, 3)) /\ (~ F(w4) => FindsAt(L(w4), t, i, 0))
    BY <1>1, FormIsFound, Zenon
  <2>7. (F(w5) => FindsAt(L(w5), t, i, 3)) /\ (~ F(w5) => FindsAt(L(w5), t, i, 0))
    BY <1>1, FormIsFound, Zenon
  <2>8. /\ F(w1) <=> ~ N(w1)
        /\ F(w2) <=> ~ N(w2)
        /\ F(w3) <=> ~ N(w3)
        /\ F(w4) <=> ~ N(w4)
        /\ F(w5) <=> ~ N(w5)
    BY <2>3, <2>4, <2>5, <2>6, <2>7 DEF FindsAt, N
  <2>9. ASSUME NEW K, NEW m \in Nat, m # 0, FindsAt(K, t, i, m),
                ~ NoneFrom(PhoneL, t, i), Phones(t)[i] = m
         PROVE  FindsAt(PhoneL, t, i, Phones(t)[i])
    BY <2>9 DEF FindsAt
  <2>10. \/ F(w1) /\ Phones(t)[i] = 4
         \/ F(w2) /\ Phones(t)[i] = 2
         \/ F(w3) /\ Phones(t)[i] = 1
         \/ F(w4) /\ Phones(t)[i] = 3
         \/ F(w5) /\ Phones(t)[i] = 3
         \/ ~ F(w1) /\ ~ F(w2) /\ ~ F(w3) /\ ~ F(w4) /\ ~ F(w5) /\ Phones(t)[i] = 0
    BY <2>1
  <2>11. CASE F(w1) /\ Phones(t)[i] = 4
    BY <2>2, <2>3, <2>8, <2>9, <2>11
  <2>12. CASE F(w2) /\ Phones(t)[i] = 2
    BY <2>2, <2>4, <2>8, <2>9, <2>12
  <2>13. CASE F(w3) /\ Phones(t)[i] = 1
    BY <2>2, <2>5, <2>8, <2>9, <2>13
  <2>14. CASE F(w4) /\ Phones(t)[i] = 3
    BY <2>2, <2>6, <2>8, <2>9, <2>14
  <2>15. CASE F(w5) /\ Phones(t)[i] = 3
    BY <2>2, <2>7, <2>8, <2>9, <2>15
  <2>16. CASE ~ F(w1) /\ ~ F(w2) /\ ~ F(w3) /\ ~ F(w4) /\ ~ F(w5) /\ Phones(t)[i] = 0
    <3>1. NoneFrom(PhoneL, t, i) /\ Phones(t)[i] = 0
      BY <2>2, <2>8, <2>16
    <3> QED  BY <3>1 DEF FindsAt
  <2> QED  BY <2>10, <2>11, <2>12, <2>13, <2>14, <2>15, <2>16
<1>5. \A s \in PhoneL : s \in Seq(Words)
  <2>1. \A w : \A s \in L(w) : s \in Seq(Words)
    BY DEF Form
  <2> HIDE DEF L
  <2> QED  BY <1>2, <2>1
<1> QED  BY <1>4, <1>5 DEF Finds, FindsAt

\* and Card, which takes the first of several lengths.
LEMMA CardsAreFound ==
  ASSUME NEW t \in Seq(Shielded)
  PROVE  Finds(CardL, t, Cards(t))
<1>1. ASSUME NEW i \in 1..Len(t) PROVE FindsAt(CardL, t, i, Cards(t)[i])
  <2> DEFINE left == Len(t) - i + 1
             IsRun(n) == /\ \A k \in 1..n : t[i + k - 1].word \in DOMAIN Digits
                         /\ SumFunction([k \in 1..n |-> Digits[t[i + k - 1].word]]) \in 13..16
             runs == {n \in 1..left : IsRun(n)}
  <2>1. Cards(t)[i] = IF runs = {} THEN 0 ELSE Min(runs)
    BY DEF Cards, Card
  <2>2. left \in Nat /\ left + i = Len(t) + 1 /\ Len(t) \in Nat
    OBVIOUS
  <2>3. ASSUME NEW n \in 1..left, \A k \in 1..n : t[i + k - 1].word \in DOMAIN Digits
        PROVE  \A k \in 1..n : i + k - 1 \in 1..Len(t) /\ t[i + k - 1] \in Words
    <3>1. \A k \in 1..n : i + k - 1 \in 1..Len(t)
      BY <2>2
    <3>2. DOMAIN Digits \subseteq PlainNames
      BY DEF Digits, PlainNames
    <3>3. \A k \in 1..n : t[i + k - 1] \in Shielded
      BY <3>1
    <3> QED  BY <2>3, <3>1, <3>2, <3>3, WordsByName
  <2>4. ASSUME NEW n \in 1..left PROVE IsRun(n) <=> Segment(t, i, n) \in CardL
    <3> DEFINE s == Segment(t, i, n)
    <3>1. /\ s \in Seq(Shielded) /\ Len(s) = n
          /\ \A k \in 1..n : i + k - 1 \in 1..Len(t) /\ s[k] = t[i + k - 1]
      BY SegmentIsSeq
    <3>2. (\A k \in 1..n : t[i + k - 1].word \in DOMAIN Digits) => s \in Seq(Words)
      <4> SUFFICES ASSUME \A k \in 1..n : t[i + k - 1].word \in DOMAIN Digits PROVE s \in Seq(Words)
        OBVIOUS
      <4>1. \A k \in 1..n : t[i + k - 1] \in Words
        BY <2>3
      <4>2. n \in Nat
        BY <2>2
      <4>3. s \in [1..n -> Words]
        <5> HIDE DEF left
        <5> QED  BY <4>1 DEF Segment
      <4> HIDE DEF s
      <4> QED  BY <4>2, <4>3
    <3> HIDE DEF s
    <3>3. [k \in 1..n |-> Digits[t[i + k - 1].word]] = [k \in 1..Len(s) |-> Digits[s[k].word]]
      BY <3>1
    <3>4. (\A k \in 1..n : t[i + k - 1].word \in DOMAIN Digits)
          <=> \A k \in 1..Len(s) : s[k].word \in DOMAIN Digits
      BY <3>1
    <3> DEFINE total == SumFunction([k \in 1..Len(s) |-> Digits[s[k].word]])
    <3>5. SumFunction([k \in 1..n |-> Digits[t[i + k - 1].word]]) = total
      BY <3>3
    <3>6. s \in CardL <=> /\ s \in Seq(Words) /\ \A k \in 1..Len(s) : s[k].word \in DOMAIN Digits
                          /\ total \in 13..16
      BY DEF CardL
    <3> HIDE DEF total
    <3> QED  BY <3>2, <3>4, <3>5, <3>6 DEF s
  <2>5. ASSUME NEW n \in 1..left, IsRun(n)
        PROVE  i + n <= Len(t) + 1 /\ \A k \in 1..Len(t) : i <= k /\ k < i + n => t[k] \in Words
    <3>1. \A k \in 1..n : t[i + k - 1] \in Words
      BY <2>3, <2>5
    <3>2. ASSUME NEW k \in 1..Len(t), i <= k, k < i + n PROVE t[k] \in Words
      <4> DEFINE j == k - i + 1
      <4>1. j \in 1..n /\ i + j - 1 = k
        BY <3>2
      <4> HIDE DEF j
      <4> QED  BY <3>1, <4>1
    <3>3. i + n <= Len(t) + 1
      BY <2>2
    <3> QED  BY <3>2, <3>3
  <2> HIDE DEF IsRun
  <2>6. NoneFrom(CardL, t, i) <=> runs = {}
    BY <2>4 DEF NoneFrom
  <2>7. CASE runs = {}
    <3>1. Cards(t)[i] = 0
      BY <2>1, <2>7
    <3> QED  BY <2>2, <2>6, <2>7, <3>1 DEF FindsAt
  <2>8. CASE runs # {}
    <3>1. runs \in SUBSET Nat
      BY <2>2
    <3> DEFINE m == Min(runs)
    <3>2. m \in runs
      <4> HIDE DEF runs
      <4>1. \E x \in runs : \A y \in runs : x <= y
        BY <2>8, <3>1, LeastNatural
      <4> QED  BY <4>1 DEF Min
    <3>3. m \in 1..left /\ IsRun(m)
      BY <3>2
    <3>4. Cards(t)[i] = m
      BY <2>1, <2>8
    <3> HIDE DEF m, runs
    <3>5. m \in Nat /\ m # 0
      BY <2>2, <3>3
    <3>6. i + m <= Len(t) + 1 /\ \A k \in 1..Len(t) : i <= k /\ k < i + m => t[k] \in Words
      BY <2>5, <3>3
    <3>7. FindsAt(CardL, t, i, m)
      BY <2>6, <2>8, <3>5, <3>6 DEF FindsAt
    <3> QED  BY <3>4, <3>7
  <2> QED  BY <2>7, <2>8
<1>2. \A s \in CardL : s \in Seq(Words)
  BY DEF CardL
<1> QED  BY <1>1, <1>2 DEF Finds, FindsAt

\* All four.
LEMMA MaskPiiClears ==
  ASSUME NEW s \in Seq(Shielded)
  PROVE  LET m == MaskPii(s)
         IN  /\ m \in Seq(Shielded) /\ Held(m) = Held(s)
             /\ Clear(EmailL, m) /\ Clear(SsnL, m) /\ Clear(CardL, m) /\ Clear(PhoneL, m)
             /\ \A K : (\A x \in K : x \in Seq(Words)) /\ Clear(K, s) => Clear(K, m)
<1> DEFINE a == HideEmails(s)
           b == HideSsns(a)
           c == HideCards(b)
           d == HidePhones(c)
           Lang(K) == \A x \in K : x \in Seq(Words)
<1>0. Lang(EmailL) /\ Lang(SsnL) /\ Lang(CardL) /\ Lang(PhoneL)
  <2>1. \A words, seps : Lang(Form(words, seps))
    BY DEF Form
  <2>2. Lang(CardL)
    BY DEF CardL
  <2>3. Lang(EmailL) /\ Lang(SsnL)
    BY <2>1 DEF EmailL, SsnL
  <2>4. Lang(PhoneL)
    BY <2>1 DEF PhoneL
  <2> QED  BY <2>2, <2>3, <2>4
<1>1. Finds(EmailL, s, Emails(s)) /\ a = Hide(s, Emails(s))
  BY EmailsAreFound DEF HideEmails
<1>2. /\ a \in Seq(Shielded) /\ Clear(EmailL, a) /\ Held(a) = Held(s)
      /\ \A K : Lang(K) /\ Clear(K, s) => Clear(K, a)
  BY <1>0, <1>1, HideClears, HideHolds
<1> HIDE DEF a
<1>3. Finds(SsnL, a, Ssns(a)) /\ b = Hide(a, Ssns(a))
  BY <1>2, SsnsAreFound DEF HideSsns
<1>4. /\ b \in Seq(Shielded) /\ Clear(SsnL, b) /\ Held(b) = Held(a)
      /\ \A K : Lang(K) /\ Clear(K, a) => Clear(K, b)
  BY <1>0, <1>2, <1>3, HideClears, HideHolds
<1> HIDE DEF b
<1>5. Finds(CardL, b, Cards(b)) /\ c = Hide(b, Cards(b))
  BY <1>4, CardsAreFound DEF HideCards
<1>6. /\ c \in Seq(Shielded) /\ Clear(CardL, c) /\ Held(c) = Held(b)
      /\ \A K : Lang(K) /\ Clear(K, b) => Clear(K, c)
  BY <1>0, <1>4, <1>5, HideClears, HideHolds
<1> HIDE DEF c
<1>7. Finds(PhoneL, c, Phones(c)) /\ d = Hide(c, Phones(c))
  BY <1>6, PhonesAreFound DEF HidePhones
<1>8. /\ d \in Seq(Shielded) /\ Clear(PhoneL, d) /\ Held(d) = Held(c)
      /\ \A K : Lang(K) /\ Clear(K, c) => Clear(K, d)
  BY <1>0, <1>6, <1>7, HideClears, HideHolds
<1>9. MaskPii(s) = d
  BY DEF MaskPii, a, b, c
<1> HIDE DEF d
<1>10. Clear(EmailL, d) /\ Clear(SsnL, d) /\ Clear(CardL, d)
  <2> HIDE DEF Lang
  <2> QED  BY <1>0, <1>2, <1>4, <1>6, <1>8
<1>11. ASSUME NEW K, Lang(K), Clear(K, s) PROVE Clear(K, d)
  BY <1>2, <1>4, <1>6, <1>8, <1>11
<1> QED  BY <1>2, <1>4, <1>6, <1>8, <1>9, <1>10, <1>11

\* In a text that is clear of all four there is nothing to hide, and nothing to count.
LEMMA ClearIsFinal ==
  ASSUME NEW m \in Seq(Shielded),
         Clear(EmailL, m), Clear(SsnL, m), Clear(CardL, m), Clear(PhoneL, m)
  PROVE  /\ MaskPii(m) = m
         /\ Found(Emails(m)) = {} /\ Found(Ssns(m)) = {}
         /\ Found(Cards(m)) = {} /\ Found(Phones(m)) = {}
<1>1. ASSUME NEW L, NEW match, DOMAIN match = DOMAIN m, Finds(L, m, match), Clear(L, m)
      PROVE  Hide(m, match) = m /\ Found(match) = {}
  <2>1. \A i \in 1..Len(m) : match[i] = 0
    BY <1>1 DEF Finds, Clear
  <2>2. Hide(m, match) = m
    BY <2>1, SubNone DEF Hide
  <2>3. \A i \in DOMAIN match : match[i] = 0
    BY <1>1, <2>1
  <2> QED  BY <2>2, <2>3 DEF Found
<1>2. /\ DOMAIN Emails(m) = DOMAIN m /\ DOMAIN Ssns(m) = DOMAIN m
      /\ DOMAIN Cards(m) = DOMAIN m /\ DOMAIN Phones(m) = DOMAIN m
  BY DEF Emails, Ssns, Cards, Phones
<1>3. /\ Finds(EmailL, m, Emails(m)) /\ Finds(SsnL, m, Ssns(m))
      /\ Finds(CardL, m, Cards(m)) /\ Finds(PhoneL, m, Phones(m))
  BY EmailsAreFound, SsnsAreFound, CardsAreFound, PhonesAreFound
<1>4. HideEmails(m) = m /\ Found(Emails(m)) = {}
  BY <1>1, <1>2, <1>3 DEF HideEmails
<1>5. HideSsns(m) = m /\ Found(Ssns(m)) = {}
  BY <1>1, <1>2, <1>3 DEF HideSsns
<1>6. HideCards(m) = m /\ Found(Cards(m)) = {}
  BY <1>1, <1>2, <1>3 DEF HideCards
<1>7. HidePhones(m) = m /\ Found(Phones(m)) = {}
  BY <1>1, <1>2, <1>3 DEF HidePhones
<1> QED  BY <1>4, <1>5, <1>6, <1>7 DEF MaskPii

-----------------------------------------------------------------------------
(* The shield *)

RefMatch(t) == [i \in DOMAIN t |-> BusinessRef(t, i)]
RefPut(t)   == [i \in DOMAIN t |-> <<Placeholder(SubSeq(t, i, i + 1))>>]

RefNames == {"d3", "d4", "d10"}

\* A reference is a keyword and a run of three or more digits behind a space.
LEMMA RefIsPair ==
  ASSUME NEW t \in Seq(Shielded), NEW i \in 1..Len(t)
  PROVE  /\ BusinessRef(t, i) \in {0, 2}
         /\ BusinessRef(t, i) = 2 <=> /\ i + 1 \in 1..Len(t) /\ t[i].word = "order"
                                      /\ t[i + 1].sep = " " /\ t[i + 1].word \in RefNames
<1>1. ASSUME NEW d
      PROVE  Fits(t, i, <<"order", d>>, {" "}) <=>
               i + 1 \in 1..Len(t) /\ t[i].word = "order" /\ t[i + 1].sep = " " /\ t[i + 1].word = d
  <2> DEFINE words == <<"order", d>>
  <2>1. Len(words) = 2 /\ words[1] = "order" /\ words[2] = d
    OBVIOUS
  <2>2. Len(t) \in Nat /\ i \in 1..Len(t)
    OBVIOUS
  <2> HIDE DEF words
  <2>3. 1..Len(words) = {1, 2} /\ i + Len(words) - 1 = i + 1 /\ i + 1 - 1 = i /\ i + 2 - 1 = i + 1
    BY <2>1, <2>2
  <2>4. Fits(t, i, words, {" "}) <=>
          /\ i + 1 <= Len(t)
          /\ \A k \in {1, 2} : t[i + k - 1].word = words[k] /\ (k > 1 => t[i + k - 1].sep \in {" "})
    BY <2>3 DEF Fits
  <2>5. (\A k \in {1, 2} : t[i + k - 1].word = words[k] /\ (k > 1 => t[i + k - 1].sep \in {" "}))
        <=> t[i].word = words[1] /\ t[i + 1].word = words[2] /\ t[i + 1].sep = " "
    BY <2>3
  <2>6. i + 1 <= Len(t) <=> i + 1 \in 1..Len(t)
    BY <2>2
  <2> QED  BY <2>1, <2>4, <2>5, <2>6 DEF words
<1>2. BusinessRef(t, i) = IF \E d \in RefNames : Fits(t, i, <<"order", d>>, {" "}) THEN 2 ELSE 0
  BY DEF BusinessRef, RefNames
<1>3. (\E d \in RefNames : Fits(t, i, <<"order", d>>, {" "})) <=>
        /\ i + 1 \in 1..Len(t) /\ t[i].word = "order"
        /\ t[i + 1].sep = " " /\ t[i + 1].word \in RefNames
  BY <1>1
<1> DEFINE found == \E d \in RefNames : Fits(t, i, <<"order", d>>, {" "})
<1>4. BusinessRef(t, i) = IF found THEN 2 ELSE 0
  BY <1>2
<1>5. found <=> /\ i + 1 \in 1..Len(t) /\ t[i].word = "order"
                /\ t[i + 1].sep = " " /\ t[i + 1].word \in RefNames
  BY <1>3
<1> HIDE DEF found
<1>6. BusinessRef(t, i) \in {0, 2} /\ (BusinessRef(t, i) = 2 <=> found)
  BY <1>4
<1> QED  BY <1>5, <1>6

\* As a language: the spans a placeholder may hold.
LEMMA RefsAreFound ==
  ASSUME NEW t \in Seq(Shielded), NEW i \in 1..Len(t)
  PROVE  /\ BusinessRef(t, i) = 0 <=> NoneFrom(Spans, t, i)
         /\ BusinessRef(t, i) = 2 => /\ i + 1 \in 1..Len(t) /\ t[i] \in Words /\ t[i + 1] \in Words
                                     /\ SubSeq(t, i, i + 1) = <<t[i], t[i + 1]>>
                                     /\ SubSeq(t, i, i + 1) \in Spans
<1>1. Spans = {s \in Seq(Words) : /\ Len(s) = 2 /\ s[1].word = "order"
                                  /\ s[2].sep = " " /\ s[2].word \in RefNames}
  BY DEF Spans, RefNames
<1>2. Len(t) \in Nat /\ i \in 1..Len(t) /\ RefNames \subseteq PlainNames /\ "order" \in PlainNames
  BY DEF RefNames, PlainNames
<1>3. ASSUME BusinessRef(t, i) = 2
      PROVE  /\ i + 1 \in 1..Len(t) /\ t[i] \in Words /\ t[i + 1] \in Words
             /\ SubSeq(t, i, i + 1) = <<t[i], t[i + 1]>> /\ <<t[i], t[i + 1]>> \in Spans
  <2>1. /\ i + 1 \in 1..Len(t) /\ t[i].word = "order"
        /\ t[i + 1].sep = " " /\ t[i + 1].word \in RefNames
    BY <1>3, RefIsPair
  <2>2. t[i] \in Shielded /\ t[i + 1] \in Shielded
    <3>1. \A k \in 1..Len(t) : t[k] \in Shielded
      OBVIOUS
    <3> QED  BY <2>1, <3>1
  <2>3. t[i] \in Words /\ t[i + 1] \in Words
    BY <1>2, <2>1, <2>2, WordsByName
  <2>4. SubSeq(t, i, i + 1) = <<t[i], t[i + 1]>>
    <3> DEFINE j == i + 1
               s == SubSeq(t, i, j)
    <3>1. i \in Int /\ j \in Int /\ i <= j /\ j - i + 1 = 2 /\ i..j = {i, j}
      BY <1>2
    <3>2. \A k \in i..j : t[k] \in Words
      BY <2>3, <3>1
    <3> HIDE DEF j
    <3>3. s \in Seq(Words) /\ Len(s) = 2 /\ \A k \in 1..2 : s[k] = t[i + k - 1]
      BY <3>1, <3>2, SubSeqProperties
    <3> HIDE DEF s
    <3>4. i + 1 - 1 = i /\ i + 2 - 1 = j
      BY <1>2 DEF j
    <3>5. s[1] = t[i] /\ s[2] = t[j]
      BY <3>3, <3>4
    <3>6. s = <<s[1], s[2]>>
      BY <3>3
    <3> QED  BY <3>5, <3>6 DEF s, j
  <2>5. <<t[i], t[i + 1]>> \in Spans
    <3> DEFINE s == <<t[i], t[i + 1]>>
    <3>1. s \in Seq(Words) /\ Len(s) = 2 /\ s[1] = t[i] /\ s[2] = t[i + 1]
      BY <2>3
    <3> HIDE DEF s
    <3>2. s \in Spans
      BY <1>1, <2>1, <3>1
    <3> QED  BY <3>2 DEF s
  <2> QED  BY <2>1, <2>3, <2>4, <2>5
<1>4. ASSUME BusinessRef(t, i) = 2 PROVE ~ NoneFrom(Spans, t, i)
  <2>1. i + 1 \in 1..Len(t) /\ <<t[i], t[i + 1]>> \in Spans
    BY <1>3, <1>4
  <2>2. 2 \in 1..(Len(t) - i + 1)
    BY <1>2, <2>1
  <2>3. i + 1 - 1 = i /\ i + 2 - 1 = i + 1
    BY <1>2
  <2>4. Segment(t, i, 2) = <<t[i], t[i + 1]>>
    BY <2>3 DEF Segment
  <2> QED  BY <2>1, <2>2, <2>4 DEF NoneFrom
<1>5. ASSUME NEW n \in 1..(Len(t) - i + 1), Segment(t, i, n) \in Spans
      PROVE  BusinessRef(t, i) = 2
  <2> DEFINE s == Segment(t, i, n)
  <2>1. Len(s) = n /\ \A k \in 1..n : i + k - 1 \in 1..Len(t) /\ s[k] = t[i + k - 1]
    BY SegmentIsSeq
  <2> HIDE DEF s
  <2>2. Len(s) = 2 /\ s[1].word = "order" /\ s[2].sep = " " /\ s[2].word \in RefNames
    BY <1>1, <1>5 DEF s
  <2>3. n = 2
    BY <2>1, <2>2
  <2>4. i + 1 - 1 = i /\ i + 2 - 1 = i + 1 /\ 1 \in 1..n /\ 2 \in 1..n
    BY <1>2, <2>3
  <2>5. s[1] = t[i] /\ s[2] = t[i + 1] /\ i + 1 \in 1..Len(t)
    BY <2>1, <2>4
  <2>6. /\ i + 1 \in 1..Len(t) /\ t[i].word = "order"
        /\ t[i + 1].sep = " " /\ t[i + 1].word \in RefNames
    BY <2>2, <2>5
  <2> QED  BY <2>6, RefIsPair
<1>6. BusinessRef(t, i) \in {0, 2}
  BY RefIsPair
<1>7. BusinessRef(t, i) = 2 <=> ~ NoneFrom(Spans, t, i)
  BY <1>4, <1>5 DEF NoneFrom
<1>8. BusinessRef(t, i) = 0 <=> NoneFrom(Spans, t, i)
  BY <1>6, <1>7
<1> QED  BY <1>3, <1>8

\* A reference is replaced by one placeholder for its two words.
LEMMA ShieldPlan ==
  ASSUME NEW t \in Seq(Open)
  PROVE  /\ t \in Seq(Shielded) /\ Plan(Shielded, t, RefMatch(t), RefPut(t))
         /\ ShieldBusinessRefs(t) = Sub(t, RefMatch(t), RefPut(t))
         /\ \A i \in 1..Len(t) : /\ RefMatch(t)[i] = BusinessRef(t, i)
                                 /\ RefPut(t)[i] = <<Placeholder(SubSeq(t, i, i + 1))>>
                                 /\ RefMatch(t)[i] # 0 =>
                                      Placeholder(SubSeq(t, i, i + 1)) \in Holders
<1>1. t \in Seq(Shielded)
  <2>1. Open \subseteq Shielded
    BY DEF Shielded
  <2> QED  BY <2>1
<1>2. ASSUME NEW i \in 1..Len(t)
      PROVE  /\ RefMatch(t)[i] = BusinessRef(t, i)
             /\ RefPut(t)[i] = <<Placeholder(SubSeq(t, i, i + 1))>>
             /\ RefMatch(t)[i] # 0 => Placeholder(SubSeq(t, i, i + 1)) \in Holders
  <2>1. RefMatch(t)[i] = BusinessRef(t, i) /\ RefPut(t)[i] = <<Placeholder(SubSeq(t, i, i + 1))>>
    BY DEF RefMatch, RefPut
  <2>2. RefMatch(t)[i] # 0 => SubSeq(t, i, i + 1) \in Spans
    BY <1>1, <2>1, RefIsPair, RefsAreFound
  <2> QED  BY <2>1, <2>2 DEF Holders
<1>3. ASSUME NEW i \in 1..Len(t)
      PROVE  /\ RefMatch(t)[i] \in Nat /\ i + RefMatch(t)[i] <= Len(t) + 1
             /\ RefMatch(t)[i] # 0 => RefPut(t)[i] \in Seq(Shielded)
             /\ t[i] \in Shielded
  <2>1. RefMatch(t)[i] \in {0, 2} /\ (RefMatch(t)[i] = 2 => i + 1 \in 1..Len(t))
    BY <1>1, <1>2, RefIsPair
  <2>2. RefMatch(t)[i] \in Nat /\ i + RefMatch(t)[i] <= Len(t) + 1
    BY <2>1
  <2>3. RefMatch(t)[i] # 0 => RefPut(t)[i] \in Seq(Shielded)
    <3> DEFINE w == Placeholder(SubSeq(t, i, i + 1))
    <3>1. RefMatch(t)[i] # 0 => w \in Shielded
      BY <1>2 DEF Shielded
    <3>2. RefPut(t)[i] = <<w>>
      BY <1>2
    <3> HIDE DEF w
    <3> QED  BY <3>1, <3>2
  <2>4. t[i] \in Shielded
    BY <1>1
  <2> QED  BY <2>2, <2>3, <2>4
<1>4. Plan(Shielded, t, RefMatch(t), RefPut(t))
  <2>1. Len(t) \in Nat
    OBVIOUS
  <2> QED  BY <1>3, <2>1 DEF Plan
<1> QED  BY <1>1, <1>2, <1>4 DEF ShieldBusinessRefs, RefMatch, RefPut

\* No reference is left outside of a placeholder.
LEMMA ShieldClears ==
  ASSUME NEW t \in Seq(Open)
  PROVE  ShieldBusinessRefs(t) \in Seq(Shielded) /\ Clear(Spans, ShieldBusinessRefs(t))
<1>1. /\ t \in Seq(Shielded) /\ Plan(Shielded, t, RefMatch(t), RefPut(t))
      /\ ShieldBusinessRefs(t) = Sub(t, RefMatch(t), RefPut(t))
      /\ \A i \in 1..Len(t) : /\ RefMatch(t)[i] = BusinessRef(t, i)
                              /\ RefPut(t)[i] = <<Placeholder(SubSeq(t, i, i + 1))>>
                              /\ RefMatch(t)[i] # 0 => Placeholder(SubSeq(t, i, i + 1)) \in Holders
  BY ShieldPlan
<1>2. \A i \in 1..Len(t) : RefMatch(t)[i] = 0 => NoneFrom(Spans, t, i)
  BY <1>1, RefsAreFound
<1>3. Holders \subseteq Shielded \ Words
  <2>1. "placeholder" \notin PlainNames
    BY DEF PlainNames
  <2> QED  BY <2>1, WordKinds DEF Shielded
<1>4. \A i \in 1..Len(t) : RefMatch(t)[i] # 0 => \E w \in Shielded \ Words : RefPut(t)[i] = <<w>>
  BY <1>1, <1>3
<1>5. \A s \in Spans : s \in Seq(Words)
  BY DEF Spans
<1> HIDE DEF Clear
<1>6. /\ Sub(t, RefMatch(t), RefPut(t)) \in Seq(Shielded)
      /\ Clear(Spans, Sub(t, RefMatch(t), RefPut(t)))
  BY <1>1, <1>2, <1>4, <1>5, SubClears
<1> QED  BY <1>1, <1>6

\* The placeholders hold the references, in order.
LEMMA RefsAreHeld ==
  ASSUME NEW t \in Seq(Open)
  PROVE  Held(ShieldBusinessRefs(t)) = Refs(t)
<1> DEFINE n == Len(t)
           one == [i \in DOMAIN t |-> 1]
           put == [i \in DOMAIN t |-> IF BusinessRef(t, i) > 0 THEN <<t[i + 1].word>> ELSE <<>>]
           match == RefMatch(t)
           b(i) == BusinessRef(t, i)
           holder(i) == Placeholder(SubSeq(t, i, i + 1))
<1>1. /\ t \in Seq(Shielded) /\ Plan(Shielded, t, match, RefPut(t))
      /\ ShieldBusinessRefs(t) = Sub(t, match, RefPut(t))
      /\ \A i \in 1..n : /\ match[i] = b(i) /\ RefPut(t)[i] = <<holder(i)>>
                         /\ match[i] # 0 => holder(i) \in Holders
  BY ShieldPlan
<1>2. \A i \in 1..n : b(i) \in {0, 2} /\ t[i] \in Shielded /\ t[i] \notin Holders
  <2>1. \A i \in 1..n : t[i] \in Open
    OBVIOUS
  <2>2. \A w \in Open : w \in Shielded /\ w \notin Holders
    <3>1. "placeholder" \notin PlainNames
      BY DEF PlainNames
    <3> QED  BY <3>1, WordKinds DEF Shielded, Open
  <2> QED  BY <1>1, <2>1, <2>2, RefIsPair
<1>3. ASSUME NEW i \in 1..n, b(i) # 0
      PROVE  /\ b(i) = 2 /\ i + 1 \in 1..n /\ b(i + 1) = 0
             /\ t[i + 1].word \in PlainNames
             /\ holder(i) \in Shielded /\ HeldBy(holder(i)) = <<t[i + 1].word>>
  <2>1. b(i) = 2
    BY <1>2, <1>3
  <2>2. i + 1 \in 1..n /\ t[i + 1].word \in RefNames
    BY <1>1, <2>1, RefIsPair
  <2>3. t[i + 1].word # "order" /\ t[i + 1].word \in PlainNames
    BY <2>2 DEF RefNames, PlainNames
  <2>4. b(i + 1) = 0
    <3>1. b(i + 1) # 2
      BY <1>1, <2>2, <2>3, RefIsPair
    <3> QED  BY <1>2, <2>2, <3>1
  <2>5. SubSeq(t, i, i + 1) = <<t[i], t[i + 1]>>
    BY <1>1, <2>1, RefsAreFound
  <2>6. holder(i) \in Holders /\ holder(i) \in Shielded
    BY <1>1, <1>3 DEF Shielded
  <2>7. HeldBy(holder(i)) = <<t[i + 1].word>>
    <3>1. holder(i).word = "placeholder" /\ holder(i).ref = <<t[i], t[i + 1]>>
      BY <2>5 DEF Placeholder
    <3>2. <<t[i], t[i + 1]>>[2] = t[i + 1]
      OBVIOUS
    <3> HIDE DEF holder
    <3> QED  BY <3>1, <3>2 DEF HeldBy
  <2> QED  BY <2>1, <2>2, <2>3, <2>4, <2>6, <2>7
<1>4. \A i \in 1..n : one[i] = 1 /\ put[i] = IF b(i) = 0 THEN <<>> ELSE <<t[i + 1].word>>
  <2>1. \A i \in 1..n : b(i) > 0 <=> b(i) # 0
    BY <1>2
  <2> HIDE DEF b
  <2>2. \A i \in 1..n : one[i] = 1 /\ put[i] = IF b(i) > 0 THEN <<t[i + 1].word>> ELSE <<>>
    BY DEF b
  <2> HIDE DEF one, put
  <2> QED  BY <2>1, <2>2
<1>5. Refs(t) = Sub(t, one, put)
  BY DEF Refs
<1>6. n \in Nat
  OBVIOUS
<1> HIDE DEF n, one, put, match, b, holder
<1>7. Plan(PlainNames, t, one, put)
  <2>1. ASSUME NEW i \in 1..n PROVE put[i] \in Seq(PlainNames)
    <3> DEFINE w == t[i + 1].word
    <3>1. put[i] = IF b(i) = 0 THEN <<>> ELSE <<w>>
      BY <1>4
    <3>2. b(i) # 0 => w \in PlainNames
      BY <1>3
    <3> HIDE DEF w
    <3>3. CASE b(i) = 0
      <4>1. put[i] = <<>>
        BY <3>1, <3>3
      <4> QED  BY <4>1
    <3>4. CASE b(i) # 0
      <4>1. put[i] = <<w>> /\ w \in PlainNames
        BY <3>1, <3>2, <3>4
      <4> QED  BY <4>1
    <3> QED  BY <3>3, <3>4
  <2>2. ASSUME NEW i \in 1..n
        PROVE  /\ one[i] \in Nat /\ i + one[i] <= n + 1
               /\ one[i] # 0 => put[i] \in Seq(PlainNames)
               /\ one[i] = 0 => t[i] \in PlainNames
    <3>1. one[i] = 1
      BY <1>4
    <3>2. i + 1 <= n + 1 /\ 1 \in Nat /\ 1 # 0
      BY <1>6
    <3> QED  BY <2>1, <3>1, <3>2
  <2>3. Len(t) \in Nat /\ n = Len(t)
    BY DEF n
  <2> QED  BY <2>2, <2>3 DEF Plan
<1>8. PICK u : Unfolds(PlainNames, t, one, put, u) /\ Sub(t, one, put) = u[1]
  BY <1>7, SubUnfolds
<1>9. /\ u[n + 1] = <<>>
      /\ \A i \in 1..n + 1 : u[i] \in Seq(PlainNames)
      /\ \A i \in 1..n : u[i] = put[i] \o u[i + 1]
  <2>1. /\ u[n + 1] = <<>>
        /\ \A i \in 1..n + 1 : u[i] \in Seq(PlainNames)
        /\ \A i \in 1..n : u[i] = IF one[i] = 0 THEN <<t[i]>> \o u[i + 1] ELSE put[i] \o u[i + one[i]]
    BY <1>8 DEF Unfolds, n
  <2>2. ASSUME NEW i \in 1..n PROVE u[i] = put[i] \o u[i + 1]
    <3>1. one[i] = 1
      BY <1>4
    <3>2. u[i] = IF one[i] = 0 THEN <<t[i]>> \o u[i + 1] ELSE put[i] \o u[i + one[i]]
      BY <2>1
    <3>3. 1 # 0
      OBVIOUS
    <3> QED  BY <3>1, <3>2, <3>3
  <2> QED  BY <2>1, <2>2
<1>10. PICK f : Unfolds(Shielded, t, match, RefPut(t), f) /\ Sub(t, match, RefPut(t)) = f[1]
  BY <1>1, SubUnfolds
<1>11. /\ f[n + 1] = <<>>
       /\ \A i \in 1..n + 1 : f[i] \in Seq(Shielded)
       /\ \A i \in 1..n : f[i] = IF b(i) = 0 THEN <<t[i]>> \o f[i + 1] ELSE <<holder(i)>> \o f[i + b(i)]
  <2>1. /\ f[n + 1] = <<>>
        /\ \A i \in 1..n + 1 : f[i] \in Seq(Shielded)
        /\ \A i \in 1..n : f[i] = IF match[i] = 0 THEN <<t[i]>> \o f[i + 1]
                                  ELSE RefPut(t)[i] \o f[i + match[i]]
    BY <1>10 DEF Unfolds, n
  <2> QED  BY <1>1, <2>1
<1> DEFINE T == {i \in 1..n + 1 : Held(f[i]) = u[i]}
<1>12. ASSUME NEW i \in 1..n + 1, \A j \in 1..n + 1 : j > i => Held(f[j]) = u[j]
       PROVE  Held(f[i]) = u[i]
  <2>1. CASE i = n + 1
    BY <1>9, <1>11, <2>1, HeldRest
  <2>2. CASE i # n + 1 /\ b(i) = 0
    <3>1. i \in 1..n /\ i + 1 \in 1..n + 1 /\ i + 1 > i
      BY <1>6, <2>2
    <3>2. f[i] = <<t[i]>> \o f[i + 1] /\ f[i + 1] \in Seq(Shielded) /\ t[i] \in Shielded
      BY <1>2, <1>11, <2>2, <3>1
    <3>3. Held(f[i]) = HeldBy(t[i]) \o Held(f[i + 1]) /\ HeldBy(t[i]) = <<>>
      BY <1>2, <3>1, <3>2, HeldRest, HeldByName
    <3>4. Held(f[i + 1]) = u[i + 1]
      BY <1>12, <3>1
    <3>5. u[i] = <<>> \o u[i + 1]
      BY <1>4, <1>9, <2>2, <3>1
    <3> QED  BY <3>3, <3>4, <3>5
  <2>3. CASE i # n + 1 /\ b(i) # 0
    <3>1. i \in 1..n
      BY <1>6, <2>3
    <3>2. /\ b(i) = 2 /\ i + 1 \in 1..n /\ b(i + 1) = 0
          /\ holder(i) \in Shielded /\ HeldBy(holder(i)) = <<t[i + 1].word>>
      BY <1>3, <2>3, <3>1
    <3>3. i + 2 \in 1..n + 1 /\ i + 2 > i /\ (i + 1) + 1 = i + 2
      BY <1>6, <3>2
    <3>4. f[i] = <<holder(i)>> \o f[i + 2] /\ f[i + 2] \in Seq(Shielded)
      BY <1>11, <2>3, <3>1, <3>2, <3>3
    <3>5. Held(f[i]) = HeldBy(holder(i)) \o Held(f[i + 2])
      BY <3>2, <3>4, HeldRest
    <3>6. Held(f[i + 2]) = u[i + 2] /\ u[i + 2] \in Seq(PlainNames)
      BY <1>9, <1>12, <3>3
    <3>7. u[i + 1] = <<>> \o u[i + 2]
      BY <1>4, <1>9, <3>2, <3>3
    <3>8. u[i + 1] = u[i + 2]
      BY <3>6, <3>7
    <3>9. u[i] = <<t[i + 1].word>> \o u[i + 1]
      BY <1>4, <1>9, <2>3, <3>1
    <3> QED  BY <3>2, <3>5, <3>6, <3>8, <3>9
  <2> QED  BY <2>1, <2>2, <2>3
<1>13. T \in SUBSET (1..n + 1) /\ \A i \in 1..n + 1 : i \in T <=> Held(f[i]) = u[i]
  OBVIOUS
<1> HIDE DEF T
<1>14. T = 1..n + 1
  BY <1>6, <1>12, <1>13, FromTheEnd
<1>15. 1 \in 1..n + 1
  BY <1>6
<1> QED  BY <1>1, <1>5, <1>8, <1>10, <1>13, <1>14, <1>15

\* What the shield makes of a text that starts with a word, or with a reference.
LEMMA ShieldRest ==
  ASSUME NEW s \in Seq(Open), NEW r \in Seq(Open), NEW c \in {1, 2}, Len(s) = Len(r) + c,
         \A i \in 1..Len(r) : s[i + c] = r[i],
         BusinessRef(s, 1) = IF c = 1 THEN 0 ELSE 2
  PROVE  ShieldBusinessRefs(s) = IF c = 1 THEN <<s[1]>> \o ShieldBusinessRefs(r)
                                 ELSE <<Placeholder(<<s[1], s[2]>>)>> \o ShieldBusinessRefs(r)
<1>1. /\ s \in Seq(Shielded) /\ Plan(Shielded, s, RefMatch(s), RefPut(s))
      /\ ShieldBusinessRefs(s) = Sub(s, RefMatch(s), RefPut(s))
      /\ \A i \in 1..Len(s) : /\ RefMatch(s)[i] = BusinessRef(s, i)
                              /\ RefPut(s)[i] = <<Placeholder(SubSeq(s, i, i + 1))>>
  BY ShieldPlan
<1>2. /\ r \in Seq(Shielded) /\ Plan(Shielded, r, RefMatch(r), RefPut(r))
      /\ ShieldBusinessRefs(r) = Sub(r, RefMatch(r), RefPut(r))
      /\ \A i \in 1..Len(r) : /\ RefMatch(r)[i] = BusinessRef(r, i)
                              /\ RefPut(r)[i] = <<Placeholder(SubSeq(r, i, i + 1))>>
  BY ShieldPlan
<1>3. c \in Nat /\ Len(r) \in Nat /\ Len(s) \in Nat /\ 1 \in 1..Len(s) /\ Len(s) = Len(r) + c
  OBVIOUS
<1>4. ASSUME NEW i \in 1..Len(r)
      PROVE  /\ s[i + c] = r[i] /\ RefMatch(s)[i + c] = RefMatch(r)[i]
             /\ RefMatch(r)[i] # 0 => RefPut(s)[i + c] = RefPut(r)[i]
  <2> DEFINE j == i + c
  <2>1. /\ j \in 1..Len(s) /\ s[j] = r[i]
        /\ i + 1 \in 1..Len(r) <=> j + 1 \in 1..Len(s)
        /\ j + 1 = (i + 1) + c
    BY <1>3
  <2>2. i + 1 \in 1..Len(r) => s[j + 1] = r[i + 1]
    BY <2>1
  <2> HIDE DEF j
  <2>3. BusinessRef(s, j) \in {0, 2} /\ BusinessRef(r, i) \in {0, 2}
    BY <1>1, <1>2, <2>1, RefIsPair
  <2>4. BusinessRef(s, j) = 2 <=> /\ j + 1 \in 1..Len(s) /\ s[j].word = "order"
                                  /\ s[j + 1].sep = " " /\ s[j + 1].word \in RefNames
    BY <1>1, <2>1, RefIsPair
  <2>5. BusinessRef(r, i) = 2 <=> /\ i + 1 \in 1..Len(r) /\ r[i].word = "order"
                                  /\ r[i + 1].sep = " " /\ r[i + 1].word \in RefNames
    BY <1>2, RefIsPair
  <2>6. BusinessRef(s, j) = 2 <=> BusinessRef(r, i) = 2
    <3>1. CASE i + 1 \in 1..Len(r)
      <4>1. s[j] = r[i] /\ s[j + 1] = r[i + 1] /\ j + 1 \in 1..Len(s)
        BY <2>1, <2>2, <3>1
      <4> QED  BY <2>4, <2>5, <3>1, <4>1
    <3>2. CASE i + 1 \notin 1..Len(r)
      BY <2>1, <2>4, <2>5, <3>2
    <3> QED  BY <3>1, <3>2
  <2>7. BusinessRef(s, j) = BusinessRef(r, i)
    <3>1. CASE BusinessRef(r, i) = 2
      BY <2>6, <3>1
    <3>2. CASE BusinessRef(r, i) # 2
      <4>1. BusinessRef(r, i) = 0 /\ BusinessRef(s, j) = 0
        BY <2>3, <2>6, <3>2, Zenon
      <4> QED  BY <4>1
    <3> QED  BY <3>1, <3>2
  <2>8. ASSUME BusinessRef(r, i) = 2 PROVE SubSeq(s, j, j + 1) = SubSeq(r, i, i + 1)
    <3>1. i + 1 \in 1..Len(r) /\ SubSeq(r, i, i + 1) = <<r[i], r[i + 1]>>
      BY <1>2, <2>8, RefsAreFound
    <3>2. s \in Seq(Shielded) /\ j \in 1..Len(s) /\ BusinessRef(s, j) = 2
      BY <1>1, <2>1, <2>7, <2>8
    <3>3. SubSeq(s, j, j + 1) = <<s[j], s[j + 1]>>
      BY <3>2, RefsAreFound
    <3> QED  BY <2>1, <2>2, <3>1, <3>3
  <2>9. RefMatch(s)[j] = BusinessRef(s, j) /\ RefMatch(r)[i] = BusinessRef(r, i)
    BY <1>1, <1>2, <2>1
  <2>10. RefMatch(r)[i] # 0 => RefPut(s)[j] = RefPut(r)[i]
    <3>1. RefPut(s)[j] = <<Placeholder(SubSeq(s, j, j + 1))>>
      BY <1>1, <2>1
    <3>2. RefPut(r)[i] = <<Placeholder(SubSeq(r, i, i + 1))>>
      BY <1>2
    <3>3. RefMatch(r)[i] # 0 => SubSeq(s, j, j + 1) = SubSeq(r, i, i + 1)
      BY <2>3, <2>8, <2>9
    <3> QED  BY <3>1, <3>2, <3>3
  <2> QED  BY <2>1, <2>7, <2>9, <2>10 DEF j
<1>5. PICK f : Unfolds(Shielded, s, RefMatch(s), RefPut(s), f) /\ Sub(s, RefMatch(s), RefPut(s)) = f[1]
  BY <1>1, SubUnfolds
<1>6. f[c + 1] = Sub(r, RefMatch(r), RefPut(r))
  BY <1>1, <1>2, <1>3, <1>4, <1>5, SubBehind
<1>7. f[1] = IF RefMatch(s)[1] = 0 THEN <<s[1]>> \o f[1 + 1]
             ELSE RefPut(s)[1] \o f[1 + RefMatch(s)[1]]
  BY <1>3, <1>5 DEF Unfolds
<1>8. RefMatch(s)[1] = BusinessRef(s, 1)
  BY <1>1, <1>3
<1>9. CASE c = 1
  <2>1. RefMatch(s)[1] = 0
    BY <1>8, <1>9
  <2>2. f[1] = <<s[1]>> \o f[c + 1]
    BY <1>7, <1>9, <2>1
  <2> QED  BY <1>1, <1>2, <1>5, <1>6, <1>9, <2>2
<1>10. CASE c = 2
  <2>1. RefMatch(s)[1] = 2 /\ BusinessRef(s, 1) = 2
    BY <1>8, <1>10
  <2>2. 1 + RefMatch(s)[1] = c + 1 /\ 2 # 0 /\ 2 # 1 /\ 1 + 1 = 2
    BY <1>10, <2>1
  <2>3. f[1] = RefPut(s)[1] \o f[c + 1]
    BY <1>7, <2>1, <2>2
  <2>4. SubSeq(s, 1, 1 + 1) = <<s[1], s[1 + 1]>>
    BY <1>1, <1>3, <2>1, RefsAreFound
  <2>5. RefPut(s)[1] = <<Placeholder(<<s[1], s[2]>>)>>
    <3>1. RefPut(s)[1] = <<Placeholder(SubSeq(s, 1, 1 + 1))>>
      BY <1>1, <1>3
    <3> QED  BY <2>2, <2>4, <3>1
  <2> QED  BY <1>1, <1>2, <1>5, <1>6, <1>10, <2>2, <2>3, <2>5
<1> QED  BY <1>9, <1>10

-----------------------------------------------------------------------------
(* What is restored *)

HolderMatch(m) == [i \in DOMAIN m |-> IF m[i].word = "placeholder" THEN 1 ELSE 0]
HolderPut(m)   == [i \in DOMAIN m |-> m[i].ref]

\* Every placeholder gives way to its reference; what is left is open.
LEMMA UnshieldUnfolds ==
  ASSUME NEW m \in Seq(Shielded)
  PROVE  \E f : /\ UnshieldBusinessRefs(m) = f[1] /\ f[Len(m) + 1] = <<>>
                /\ \A i \in 1..Len(m) + 1 : f[i] \in Seq(Open)
                /\ \A i \in 1..Len(m) :
                     /\ m[i] \in Holders => f[i] = m[i].ref \o f[i + 1]
                     /\ m[i] \notin Holders => f[i] = <<m[i]>> \o f[i + 1]
<1> DEFINE n == Len(m)
           match == HolderMatch(m)
           put == HolderPut(m)
<1>1. n \in Nat /\ \A i \in 1..n : m[i] \in Shielded
  OBVIOUS
<1>2. UnshieldBusinessRefs(m) = Sub(m, match, put)
  BY DEF UnshieldBusinessRefs, HolderMatch, HolderPut
<1>3. ASSUME NEW i \in 1..n
      PROVE  /\ put[i] = m[i].ref
             /\ m[i] \in Holders => match[i] = 1 /\ m[i].ref \in Seq(Open)
             /\ m[i] \notin Holders => match[i] = 0 /\ m[i] \in Open
  <2>1. put[i] = m[i].ref /\ match[i] = IF m[i].word = "placeholder" THEN 1 ELSE 0
    BY DEF HolderPut, HolderMatch
  <2>2. m[i].word = "placeholder" <=> m[i] \in Holders
    BY <1>1, WordsByName
  <2>3. m[i] \in Holders => m[i].ref \in Seq(Open)
    <3>1. m[i] \in Holders => m[i].ref \in Seq(Words)
      BY <1>1, HolderRefs
    <3>2. Words \subseteq Open
      BY DEF Open
    <3> QED  BY <3>1, <3>2
  <2>4. m[i] \notin Holders => m[i] \in Open
    BY <1>1 DEF Shielded
  <2> HIDE DEF match, put
  <2>5. m[i] \in Holders => match[i] = 1
    BY <2>1, <2>2
  <2>6. m[i] \notin Holders => match[i] = 0
    BY <2>1, <2>2
  <2> QED  BY <2>1, <2>3, <2>4, <2>5, <2>6
<1> HIDE DEF match, put, n
<1>4. Plan(Open, m, match, put)
  <2>1. ASSUME NEW i \in 1..n
        PROVE  /\ match[i] \in Nat /\ i + match[i] <= n + 1
               /\ match[i] # 0 => put[i] \in Seq(Open)
               /\ match[i] = 0 => m[i] \in Open
    <3>1. i + 1 <= n + 1 /\ i + 0 <= n + 1 /\ 1 \in Nat /\ 0 \in Nat
      BY <1>1
    <3>2. 1 # 0
      OBVIOUS
    <3>3. CASE m[i] \in Holders
      BY <1>3, <3>1, <3>2, <3>3
    <3>4. CASE m[i] \notin Holders
      BY <1>3, <3>1, <3>4
    <3> QED  BY <3>3, <3>4
  <2>2. n = Len(m)
    BY DEF n
  <2> QED  BY <1>1, <2>1, <2>2 DEF Plan
<1>5. PICK f : Unfolds(Open, m, match, put, f) /\ Sub(m, match, put) = f[1]
  BY <1>4, SubUnfolds
<1>6. /\ f[n + 1] = <<>> /\ \A i \in 1..n + 1 : f[i] \in Seq(Open)
      /\ \A i \in 1..n : f[i] = IF match[i] = 0 THEN <<m[i]>> \o f[i + 1] ELSE put[i] \o f[i + match[i]]
  BY <1>5 DEF Unfolds, n
<1>7. ASSUME NEW i \in 1..n
      PROVE  /\ m[i] \in Holders => f[i] = m[i].ref \o f[i + 1]
             /\ m[i] \notin Holders => f[i] = <<m[i]>> \o f[i + 1]
  <2>1. f[i] = IF match[i] = 0 THEN <<m[i]>> \o f[i + 1] ELSE put[i] \o f[i + match[i]]
    BY <1>6
  <2>2. 1 # 0
    OBVIOUS
  <2>3. m[i] \in Holders => f[i] = m[i].ref \o f[i + 1]
    BY <1>3, <2>1, <2>2
  <2>4. m[i] \notin Holders => f[i] = <<m[i]>> \o f[i + 1]
    BY <1>3, <2>1
  <2> QED  BY <2>3, <2>4
<1> QED  BY <1>2, <1>5, <1>6, <1>7 DEF n

\* A reference that starts an open text.
LEMMA SpanStarts ==
  ASSUME NEW a \in Words, NEW b \in Words, <<a, b>> \in Spans, NEW r \in Seq(Open)
  PROVE  LET s == <<a, b>> \o r
         IN  /\ s \in Seq(Open) /\ Len(s) = Len(r) + 2 /\ s[1] = a /\ s[2] = b
             /\ \A i \in 1..Len(r) : s[i + 2] = r[i]
             /\ a.word = "order" /\ BusinessRef(s, 1) = 2
<1> DEFINE s == <<a, b>> \o r
<1>1. a \in Open /\ b \in Open
  BY DEF Open
<1>2. /\ s \in Seq(Open) /\ Len(s) = Len(r) + 2 /\ Len(r) \in Nat /\ s[1] = a /\ s[2] = b
      /\ \A i \in 1..Len(r) : s[i + 2] = r[i]
  BY <1>1
<1>3. a.word = "order" /\ b.sep = " " /\ b.word \in RefNames
  <2>1. <<a, b>>[1] = a /\ <<a, b>>[2] = b
    OBVIOUS
  <2> QED  BY <2>1 DEF Spans, RefNames
<1>4. s \in Seq(Shielded)
  <2>1. Open \subseteq Shielded
    BY DEF Shielded
  <2> HIDE DEF s
  <2> QED  BY <1>2, <2>1
<1> HIDE DEF s
<1>5. 1 \in 1..Len(s) /\ 1 + 1 \in 1..Len(s) /\ 1 + 1 = 2
  BY <1>2
<1>6. BusinessRef(s, 1) = 2
  <2>1. /\ 1 + 1 \in 1..Len(s) /\ s[1].word = "order"
        /\ s[1 + 1].sep = " " /\ s[1 + 1].word \in RefNames
    BY <1>2, <1>3, <1>5
  <2> QED  BY <1>4, <1>5, <2>1, RefIsPair
<1> QED  BY <1>2, <1>3, <1>6 DEF s

\* Shielding what was restored gives the shielded text back: no reference has come
\* about, and none has gone.
LEMMA ShieldRestores ==
  ASSUME NEW m \in Seq(Shielded), Clear(Spans, m)
  PROVE  /\ UnshieldBusinessRefs(m) \in Seq(Open)
         /\ ShieldBusinessRefs(UnshieldBusinessRefs(m)) = m
<1> DEFINE n == Len(m)
<1>1. PICK f : /\ UnshieldBusinessRefs(m) = f[1] /\ f[n + 1] = <<>>
               /\ \A i \in 1..n + 1 : f[i] \in Seq(Open)
               /\ \A i \in 1..n : /\ m[i] \in Holders => f[i] = m[i].ref \o f[i + 1]
                                  /\ m[i] \notin Holders => f[i] = <<m[i]>> \o f[i + 1]
  BY UnshieldUnfolds
<1>2. n \in Nat /\ \A i \in 1..n : m[i] \in Shielded
  OBVIOUS
<1>3. /\ End(m, 1) = m /\ End(m, n + 1) = <<>>
      /\ \A i \in 1..n : End(m, i) = <<m[i]>> \o End(m, i + 1)
  BY Ends
<1>4. \A i \in 1..n : BusinessRef(m, i) # 2
  <2>1. \A i \in 1..n : NoneFrom(Spans, m, i)
    BY DEF Clear
  <2>2. \A i \in 1..n : BusinessRef(m, i) = 0
    BY <2>1, RefsAreFound
  <2>3. 0 # 2
    OBVIOUS
  <2> QED  BY <2>2, <2>3
<1>5. \A i \in 1..n : BusinessRef(m, i) = 2 <=>
                        /\ i + 1 \in 1..n /\ m[i].word = "order"
                        /\ m[i + 1].sep = " " /\ m[i + 1].word \in RefNames
  BY RefIsPair
<1> HIDE DEF n
<1>6. ASSUME NEW i \in 1..n, m[i] \in Holders
      PROVE  \E a, b : /\ a \in Words /\ b \in Words /\ <<a, b>> \in Spans
                       /\ m[i] = Placeholder(<<a, b>>) /\ f[i] = <<a, b>> \o f[i + 1]
  <2>1. /\ m[i] = Placeholder(m[i].ref) /\ m[i].ref \in Spans /\ m[i].ref = <<m[i].ref[1], m[i].ref[2]>>
        /\ m[i].ref[1] \in Words /\ m[i].ref[2] \in Words
    BY <1>2, <1>6, HolderRefs
  <2>2. f[i] = m[i].ref \o f[i + 1]
    BY <1>1, <1>6
  <2> QED  BY <2>1, <2>2
<1>7. ASSUME NEW i \in 1..n
      PROVE  /\ m[i] \in Holders => f[i][1].word = "order"
             /\ m[i] \notin Holders => f[i][1] = m[i]
  <2>1. f[i + 1] \in Seq(Open)
    <3>1. i + 1 \in 1..n + 1
      BY <1>2
    <3> QED  BY <1>1, <3>1
  <2>2. CASE m[i] \in Holders
    <3>1. PICK a, b : /\ a \in Words /\ b \in Words /\ <<a, b>> \in Spans
                      /\ m[i] = Placeholder(<<a, b>>) /\ f[i] = <<a, b>> \o f[i + 1]
      BY <1>6, <2>2
    <3> QED  BY <2>1, <2>2, <3>1, SpanStarts
  <2>3. CASE m[i] \notin Holders
    <3>1. f[i] = <<m[i]>> \o f[i + 1]
      BY <1>1, <2>3
    <3> QED  BY <2>1, <2>3, <3>1
  <2> QED  BY <2>2, <2>3
<1>8. ShieldBusinessRefs(<<>>) = <<>>
  <2>1. /\ <<>> \in Seq(Open) /\ <<>> \in Seq(Shielded) /\ Len(<<>>) = 0
    OBVIOUS
  <2>2. \A i \in 1..Len(<<>>) : RefMatch(<<>>)[i] = 0
    BY <2>1
  <2>3. Sub(<<>>, RefMatch(<<>>), RefPut(<<>>)) = <<>>
    BY <2>1, <2>2, SubNone
  <2> QED  BY <2>1, <2>3, ShieldPlan
<1> DEFINE T == {i \in 1..n + 1 : ShieldBusinessRefs(f[i]) = End(m, i)}
<1>9. ASSUME NEW i \in 1..n + 1,
             \A j \in 1..n + 1 : j > i => ShieldBusinessRefs(f[j]) = End(m, j)
      PROVE  ShieldBusinessRefs(f[i]) = End(m, i)
  <2>1. CASE i = n + 1
    BY <1>1, <1>3, <1>8, <2>1
  <2>2. CASE i # n + 1
    <3> DEFINE s == f[i]
               r == f[i + 1]
    <3>1. i \in 1..n /\ i + 1 \in 1..n + 1 /\ i + 1 > i
      BY <1>2, <2>2
    <3>2. s \in Seq(Open) /\ r \in Seq(Open) /\ ShieldBusinessRefs(r) = End(m, i + 1)
      BY <1>1, <1>9, <3>1
    <3>3. CASE m[i] \in Holders
      <4>1. PICK a, b : /\ a \in Words /\ b \in Words /\ <<a, b>> \in Spans
                        /\ m[i] = Placeholder(<<a, b>>) /\ s = <<a, b>> \o r
        BY <1>6, <3>1, <3>3
      <4> HIDE DEF s, r
      <4>2. /\ Len(s) = Len(r) + 2 /\ s[1] = a /\ s[2] = b
            /\ \A k \in 1..Len(r) : s[k + 2] = r[k]
            /\ BusinessRef(s, 1) = 2
        BY <3>2, <4>1, SpanStarts
      <4>3. ShieldBusinessRefs(s) = <<Placeholder(<<s[1], s[2]>>)>> \o ShieldBusinessRefs(r)
        <5>1. 2 \in {1, 2} /\ 2 # 1
          OBVIOUS
        <5> QED  BY <3>2, <4>2, <5>1, ShieldRest
      <4>4. ShieldBusinessRefs(s) = <<m[i]>> \o End(m, i + 1)
        BY <3>2, <4>1, <4>2, <4>3
      <4> QED  BY <1>3, <3>1, <4>4 DEF s
    <3>4. CASE m[i] \notin Holders
      <4>1. s = <<m[i]>> \o r /\ m[i] \in Open
        <5>1. m[i] \in Open
          BY <1>2, <3>1, <3>4 DEF Shielded
        <5> QED  BY <1>1, <3>1, <3>4, <5>1
      <4>2. r # <<>> => i + 1 \in 1..n
        <5>1. r # <<>> => i + 1 # n + 1
          BY <1>1
        <5> QED  BY <1>2, <3>1, <5>1
      <4>3. i + 1 \in 1..n => \/ m[i + 1] \in Holders /\ r[1].word = "order"
                              \/ r[1] = m[i + 1]
        BY <1>7
      <4> HIDE DEF s, r
      <4>4. /\ Len(s) = Len(r) + 1 /\ Len(r) \in Nat /\ s[1] = m[i]
            /\ \A k \in 1..Len(r) : s[k + 1] = r[k]
        BY <3>2, <4>1, StartsWith
      <4>5. BusinessRef(s, 1) = 0
        <5>1. s \in Seq(Shielded) /\ 1 \in 1..Len(s)
          <6>1. Open \subseteq Shielded
            BY DEF Shielded
          <6> QED  BY <3>2, <4>4, <6>1
        <5>2. SUFFICES ASSUME BusinessRef(s, 1) = 2 PROVE FALSE
          BY <5>1, RefIsPair
        <5>3. /\ 1 + 1 \in 1..Len(s) /\ s[1].word = "order"
              /\ s[1 + 1].sep = " " /\ s[1 + 1].word \in RefNames
          BY <5>1, <5>2, RefIsPair
        <5>4. 1 \in 1..Len(r)
          <6>1. 1 + 1 \in 1..Len(r) + 1 /\ Len(r) \in Nat
            BY <4>4, <5>3
          <6> QED  BY <6>1
        <5>5. s[1 + 1] = r[1] /\ r # <<>>
          BY <4>4, <5>4
        <5>6. i + 1 \in 1..n /\ r[1].word # "order"
          <6>1. "order" \notin RefNames
            BY DEF RefNames
          <6> QED  BY <4>2, <5>3, <5>5, <6>1
        <5>7. r[1] = m[i + 1]
          BY <4>3, <5>6
        <5>8. BusinessRef(m, i) = 2
          <6>1. m[i].word = "order" /\ m[i + 1].sep = " " /\ m[i + 1].word \in RefNames
            BY <4>4, <5>3, <5>5, <5>7
          <6> QED  BY <1>5, <3>1, <5>6, <6>1
        <5> QED  BY <1>4, <3>1, <5>8
      <4>6. ShieldBusinessRefs(s) = <<s[1]>> \o ShieldBusinessRefs(r)
        <5>1. 1 \in {1, 2}
          OBVIOUS
        <5> QED  BY <3>2, <4>4, <4>5, <5>1, ShieldRest
      <4> QED  BY <1>3, <3>1, <3>2, <4>4, <4>6 DEF s
    <3> QED  BY <3>3, <3>4
  <2> QED  BY <2>1, <2>2
<1>10. T \in SUBSET (1..n + 1) /\ \A i \in 1..n + 1 : i \in T <=> ShieldBusinessRefs(f[i]) = End(m, i)
  OBVIOUS
<1> HIDE DEF T
<1>11. T = 1..n + 1
  BY <1>2, <1>9, <1>10, FromTheEnd
<1>12. 1 \in 1..n + 1
  BY <1>2
<1>13. ShieldBusinessRefs(f[1]) = m /\ f[1] \in Seq(Open)
  BY <1>1, <1>3, <1>10, <1>11, <1>12
<1> QED  BY <1>1, <1>13

\* A case's text is open: it holds neither a mask nor a placeholder.
LEMMA CasesAreOpen == CaseTexts \subseteq Seq(Open)
<1>1. Words \subseteq Open
  BY DEF Open
<1>2. CaseTexts \subseteq UNION {[1..n -> Words] : n \in 1..MaxWords}
  BY DEF CaseTexts
<1>3. ASSUME NEW n \in 1..MaxWords, NEW t \in [1..n -> Words]
      PROVE  t \in Seq(Open)
  <2>1. n \in Nat /\ \A i \in 1..n : t[i] \in Open
    BY <1>1, RedactionAssumption
  <2>2. t \in [1..n -> Open]
    BY <2>1
  <2> QED  BY <2>1, <2>2
<1> QED  BY <1>2, <1>3

\* What one redaction makes of an open text: shielded again it is what the patterns
\* left, which holds the references of the text and nothing any pattern finds.
LEMMA RedactedOnce ==
  ASSUME NEW t \in Seq(Open)
  PROVE  LET redacted == RedactPii(t)
             m == MaskPii(ShieldBusinessRefs(t))
         IN  /\ redacted \in Seq(Open) /\ ShieldBusinessRefs(redacted) = m
             /\ redacted = UnshieldBusinessRefs(m) /\ m \in Seq(Shielded)
             /\ Clear(EmailL, m) /\ Clear(SsnL, m) /\ Clear(CardL, m) /\ Clear(PhoneL, m)
             /\ Refs(redacted) = Refs(t)
<1> DEFINE s == ShieldBusinessRefs(t)
           m == MaskPii(s)
           redacted == RedactPii(t)
<1>1. s \in Seq(Shielded) /\ Clear(Spans, s) /\ Held(s) = Refs(t)
  BY ShieldClears, RefsAreHeld
<1>2. redacted = UnshieldBusinessRefs(m)
  BY DEF RedactPii
<1> HIDE DEF s, redacted
<1>3. \A x \in Spans : x \in Seq(Words)
  BY DEF Spans
<1>4. /\ m \in Seq(Shielded) /\ Held(m) = Held(s)
      /\ Clear(EmailL, m) /\ Clear(SsnL, m) /\ Clear(CardL, m) /\ Clear(PhoneL, m)
      /\ Clear(Spans, m)
  <2> HIDE DEF Clear
  <2>1. \A K : (\A x \in K : x \in Seq(Words)) /\ Clear(K, s) => Clear(K, m)
    BY <1>1, MaskPiiClears
  <2>2. Clear(Spans, m)
    BY <1>1, <1>3, <2>1
  <2> QED  BY <1>1, <2>2, MaskPiiClears
<1> HIDE DEF m
<1>5. redacted \in Seq(Open) /\ ShieldBusinessRefs(redacted) = m
  BY <1>2, <1>4, ShieldRestores
<1>6. Refs(redacted) = Refs(t)
  BY <1>1, <1>4, <1>5, RefsAreHeld
<1> QED  BY <1>2, <1>4, <1>5, <1>6 DEF m, s, redacted

-----------------------------------------------------------------------------
(* The score of a text *)

\* Five more signals.
LEMMA FiniteWithFive ==
  ASSUME NEW S, IsFiniteSet(S), NEW a, NEW b, NEW c, NEW d, NEW e
  PROVE  IsFiniteSet(S \cup {a, b, c, d, e})
<1>1. IsFiniteSet((((S \cup {a}) \cup {b}) \cup {c}) \cup {d})
  BY FS_AddElement
<1> DEFINE T == (((S \cup {a}) \cup {b}) \cup {c}) \cup {d}
<1>2. IsFiniteSet(T \cup {e})
  BY <1>1, FS_AddElement
<1>3. T \cup {e} = S \cup {a, b, c, d, e}
  OBVIOUS
<1> QED  BY <1>2, <1>3

\* There are finitely many signals.
LEMMA SignalsFinite == IsFiniteSet(AllSignals)
<1> DEFINE A == {} \cup {"override_instructions", "forget_instructions", "exfiltrate_prompt",
                         "role_tag_smuggling", "special_token_smuggling"}
           B == A \cup {"chat_template_smuggling", "code_fence_role_smuggling",
                        "jailbreak_persona", "privilege_escalation", "tool_coercion"}
           C == B \cup {"encoded_payload", "execute_coercion", "echo_coercion",
                        "translate_coercion", "persistent_reframe"}
           D == C \cup {"persona_hijack", "roleplay_coercion", "new_rules", "safety_override",
                        "identity_suppression"}
           E == D \cup {"prompt_probing", "hypothetical_framing", "new_rules", "new_rules",
                        "new_rules"}
<1>1. AllSignals = E
  BY DEF AllSignals, HighSignals, MediumSignals, LowSignals
<1>2. IsFiniteSet(A)
  BY FS_EmptySet, FiniteWithFive
<1> HIDE DEF A
<1>3. IsFiniteSet(B)
  BY <1>2, FiniteWithFive
<1> HIDE DEF B
<1>4. IsFiniteSet(C)
  BY <1>3, FiniteWithFive
<1> HIDE DEF C
<1>5. IsFiniteSet(D)
  BY <1>4, FiniteWithFive
<1> HIDE DEF D
<1>6. IsFiniteSet(E)
  BY <1>5, FiniteWithFive
<1> QED  BY <1>1, <1>6

\* The tiers are disjoint, and a signal weighs 3, 2 or 1.
LEMMA Weights ==
  /\ \A s \in HighSignals : Weight(s) = 3
  /\ \A s \in MediumSignals : Weight(s) = 2
  /\ \A s \in LowSignals : Weight(s) = 1
  /\ \A s \in AllSignals : Weight(s) \in Nat
<1>1. MediumSignals \cap HighSignals = {} /\ LowSignals \cap (HighSignals \cup MediumSignals) = {}
  BY DEF HighSignals, MediumSignals, LowSignals
<1>2. /\ \A s \in HighSignals : Weight(s) = 3
      /\ \A s \in MediumSignals : Weight(s) = 2
      /\ \A s \in LowSignals : Weight(s) = 1
  BY <1>1 DEF Weight
<1> QED  BY <1>2 DEF AllSignals

\* How many elements: one, or two different ones.
LEMMA CountToTwo ==
  ASSUME NEW S, IsFiniteSet(S)
  PROVE  /\ Cardinality(S) >= 1 <=> S # {}
         /\ Cardinality(S) >= 2 <=> \E x \in S, y \in S : x # y
         /\ Cardinality(S) = 1 <=> \E x : S = {x}
<1>1. Cardinality(S) \in Nat /\ (Cardinality(S) = 0 <=> S = {})
  BY FS_CardinalityType, FS_EmptySet
<1>2. \A x : Cardinality({x}) = 1
  BY FS_Singleton
<1>3. ASSUME NEW x \in S, NEW y \in S, x # y PROVE Cardinality(S) >= 2
  <2>1. y \in S \ {x}
    BY <1>3
  <2>2. IsFiniteSet(S \ {x}) /\ Cardinality(S \ {x}) = Cardinality(S) - 1
    BY FS_RemoveElement
  <2>3. Cardinality(S \ {x}) \in Nat /\ Cardinality(S \ {x}) # 0
    BY <2>1, <2>2, FS_CardinalityType, FS_EmptySet
  <2> QED  BY <1>1, <2>2, <2>3
<1>4. Cardinality(S) = 1 <=> \E x : S = {x}
  BY FS_Singleton
<1>5. ASSUME Cardinality(S) >= 2 PROVE \E x \in S, y \in S : x # y
  <2>1. S # {} /\ ~ \E x : S = {x}
    BY <1>1, <1>4, <1>5
  <2> QED  BY <2>1
<1>6. Cardinality(S) >= 1 <=> S # {}
  BY <1>1
<1> QED  BY <1>3, <1>4, <1>5, <1>6

\* Taking out one signal takes its weight from the sum.
LEMMA ScoreStep ==
  ASSUME NEW S \in SUBSET AllSignals, NEW f, \A s \in AllSignals : f[s] = Weight(s), NEW x \in S
  PROVE  /\ SumFunctionOnSet(f, S) = Weight(x) + SumFunctionOnSet(f, S \ {x})
         /\ SumFunctionOnSet(f, S) \in Nat /\ SumFunctionOnSet(f, S \ {x}) \in Nat
<1>1. IsFiniteSet(S) /\ IsFiniteSet(S \ {x}) /\ \A s \in S : f[s] \in Nat
  BY SignalsFinite, FS_Subset, Weights
<1>2. SumFunctionOnSet(f, S) = f[x] + SumFunctionOnSet(f, S \ {x})
  BY <1>1, SumRemove
<1>3. SumFunctionOnSet(f, S) \in Nat /\ SumFunctionOnSet(f, S \ {x}) \in Nat
  BY <1>1, SumIsNat
<1> QED  BY <1>2, <1>3

\* The text is refused exactly for one HIGH, two MEDIUM, or a MEDIUM and a LOW signal.
LEMMA RefusedFor ==
  ASSUME NEW text, text.folded \in SUBSET AllSignals, "written" \in DOMAIN text
  PROVE  DetectInjection(text) <=>
           \/ text.folded \cap HighSignals # {}
           \/ \E x \in text.folded \cap MediumSignals :
                \E y \in text.folded \cap (MediumSignals \cup LowSignals) : x # y
<1> DEFINE S == text.folded
           f == [s \in AllSignals |-> Weight(s)]
           Sum(T) == SumFunctionOnSet(f, T)
<1>1. RiskScore(Normalize(text)) = Sum(S)
  <2>1. Normalize(text).written = S
    BY DEF Normalize
  <2> DEFINE g == [s \in S |-> Weight(s)]
  <2>2. SumFunction(g) = SumFunctionOnSet(g, S)
    BY DEF SumFunction
  <2>3. IsFiniteSet(S) /\ \A s \in S : g[s] \in Nat /\ g[s] = f[s]
    BY SignalsFinite, FS_Subset, Weights
  <2> HIDE DEF f, g
  <2>4. SumFunctionOnSet(g, S) = SumFunctionOnSet(f, S)
    BY <2>3, SumSame
  <2> QED  BY <2>1, <2>2, <2>4 DEF RiskScore, g
<1>2. \A s \in AllSignals : f[s] = Weight(s)
  OBVIOUS
<1> HIDE DEF f
<1>3. S \in SUBSET AllSignals /\ (DetectInjection(text) <=> Sum(S) >= 3)
  BY <1>1 DEF DetectInjection, RefuseThreshold
<1> HIDE DEF S
<1>4. Sum({}) = 0
  BY SumEmpty
<1>5. \A T \in SUBSET AllSignals : \A x \in T :
        Sum(T) = Weight(x) + Sum(T \ {x}) /\ Sum(T) \in Nat /\ Sum(T \ {x}) \in Nat
  BY <1>2, ScoreStep
<1> HIDE DEF Sum
<1>6. ASSUME NEW x \in S \cap HighSignals PROVE Sum(S) >= 3
  <2>1. Sum(S) = Weight(x) + Sum(S \ {x}) /\ Sum(S \ {x}) \in Nat
    BY <1>3, <1>5
  <2>2. Weight(x) = 3
    BY Weights
  <2> QED  BY <2>1, <2>2
<1>7. ASSUME NEW x \in S \cap MediumSignals, NEW y \in S \cap (MediumSignals \cup LowSignals), x # y
      PROVE  Sum(S) >= 3
  <2>1. Sum(S) = 2 + Sum(S \ {x})
    BY <1>3, <1>5, Weights
  <2>2. S \ {x} \in SUBSET AllSignals /\ y \in S \ {x}
    BY <1>3, <1>7
  <2>3. Sum(S \ {x}) = Weight(y) + Sum((S \ {x}) \ {y}) /\ Sum((S \ {x}) \ {y}) \in Nat
    BY <1>5, <2>2
  <2>4. Weight(y) = 2 \/ Weight(y) = 1
    BY Weights
  <2> QED  BY <2>1, <2>3, <2>4
<1>8. ASSUME S \cap HighSignals = {},
             \A x \in S \cap MediumSignals : \A y \in S \cap (MediumSignals \cup LowSignals) : x = y
      PROVE  Sum(S) < 3
  <2>1. CASE S \cap MediumSignals # {}
    <3>1. PICK x \in S \cap MediumSignals : TRUE
      BY <2>1
    <3>2. S \ {x} = {}
      BY <1>3, <1>8, <3>1 DEF AllSignals
    <3>3. Sum(S) = 2 + Sum(S \ {x})
      BY <1>3, <1>5, <3>1, Weights
    <3> QED  BY <1>4, <3>2, <3>3
  <2>2. CASE S \cap MediumSignals = {}
    <3>1. S \subseteq LowSignals
      BY <1>3, <1>8, <2>2 DEF AllSignals
    <3>2. CASE S = {}
      BY <1>4, <3>2
    <3>3. CASE S # {}
      <4>1. PICK x \in S : TRUE
        BY <3>3
      <4>2. Sum(S) = 1 + Sum(S \ {x}) /\ Sum(S \ {x}) \in Nat
        BY <1>3, <1>5, <3>1, <4>1, Weights
      <4>3. CASE S \ {x} = {}
        BY <1>4, <4>2, <4>3
      <4>4. CASE S \ {x} # {}
        <5>1. PICK y \in S \ {x} : TRUE
          BY <4>4
        <5>2. Sum(S \ {x}) = 1 + Sum((S \ {x}) \ {y})
          <6>1. S \ {x} \in SUBSET AllSignals /\ y \in LowSignals
            BY <1>3, <3>1, <5>1
          <6> QED  BY <1>5, <5>1, <6>1, Weights
        <5>3. (S \ {x}) \ {y} = {}
          BY <3>1, <4>1, <5>1 DEF LowSignals
        <5>4. Sum((S \ {x}) \ {y}) = 0
          BY <1>4, <5>3
        <5> QED  BY <4>2, <5>2, <5>4
      <4> QED  BY <4>3, <4>4
    <3> QED  BY <3>2, <3>3
  <2> QED  BY <2>1, <2>2
<1>9. Sum(S) \in Nat
  <2>1. CASE S = {}
    BY <1>4, <2>1
  <2>2. CASE S # {}
    <3>1. PICK x \in S : TRUE
      BY <2>2
    <3> QED  BY <1>3, <1>5, <3>1
  <2> QED  BY <2>1, <2>2
<1>10. (Sum(S) >= 3) <=> \/ S \cap HighSignals # {}
                         \/ \E x \in S \cap MediumSignals :
                              \E y \in S \cap (MediumSignals \cup LowSignals) : x # y
  <2>1. Sum(S) < 3 <=> ~ (Sum(S) >= 3)
    BY <1>9
  <2> QED  BY <1>6, <1>7, <1>8, <2>1
<1> QED  BY <1>3, <1>10 DEF S

-----------------------------------------------------------------------------
(* Nested results *)

\* The sets the definition of Results counts up through.
LevelsTo(n, f) == f = [depth \in 0..n |-> IF depth = 0 THEN Scalars \cup {Quarantined}
                                           ELSE f[depth - 1] \cup Nested(f[depth - 1])]

\* The recursion of Results has a solution for every depth,
LEMMA LevelsExist == \A n \in Nat : \E f : LevelsTo(n, f)
<1> DEFINE T == {n \in Nat : \E f : LevelsTo(n, f)}
<1>1. 0 \in T
  <2>1. LevelsTo(0, [depth \in 0..0 |-> Scalars \cup {Quarantined}])
    BY DEF LevelsTo
  <2> QED  BY <2>1
<1>2. ASSUME NEW n \in T PROVE n + 1 \in T
  <2>1. PICK f : LevelsTo(n, f)
    OBVIOUS
  <2> DEFINE g == [depth \in 0..n + 1 |-> IF depth = n + 1 THEN f[n] \cup Nested(f[n]) ELSE f[depth]]
  <2>2. n \in Nat /\ n + 1 \in Nat
    OBVIOUS
  <2>3. ASSUME NEW d \in 0..n + 1
        PROVE  g[d] = IF d = 0 THEN Scalars \cup {Quarantined} ELSE g[d - 1] \cup Nested(g[d - 1])
    <3>1. CASE d = 0
      <4>1. d \in 0..n /\ d # n + 1
        BY <2>2, <3>1
      <4>2. g[d] = f[d]
        BY <2>3, <4>1
      <4> HIDE DEF g
      <4> QED  BY <2>1, <3>1, <4>1, <4>2 DEF LevelsTo
    <3>2. CASE d # 0
      <4>1. d - 1 \in 0..n /\ d - 1 \in 0..n + 1 /\ d - 1 # n + 1
        BY <2>2, <3>2
      <4>2. g[d - 1] = f[d - 1]
        BY <4>1
      <4>3. g[d] = f[d - 1] \cup Nested(f[d - 1])
        <5>1. CASE d = n + 1
          BY <2>2, <5>1
        <5>2. CASE d # n + 1
          <6>1. d \in 0..n
            BY <2>2, <5>2
          <6>2. g[d] = f[d]
            BY <5>2
          <6> HIDE DEF g
          <6> QED  BY <2>1, <3>2, <6>1, <6>2 DEF LevelsTo
        <5> QED  BY <5>1, <5>2
      <4> HIDE DEF g
      <4> QED  BY <3>2, <4>2, <4>3
    <3> QED  BY <3>1, <3>2
  <2>4. LevelsTo(n + 1, g)
    <3>1. g = [depth \in 0..n + 1 |-> g[depth]]
      OBVIOUS
    <3> HIDE DEF g
    <3> QED  BY <2>3, <3>1 DEF LevelsTo
  <2> HIDE DEF g
  <2> QED  BY <2>2, <2>4
<1>3. T \in SUBSET Nat
  OBVIOUS
<1> HIDE DEF T
<1>4. T = Nat
  BY <1>1, <1>2, <1>3, NatSetInduction
<1> QED  BY <1>4 DEF T

\* Level[0] holds the texts and numbers, Level[d + 1] adds what nests those of Level[d].
Level == CHOOSE f : LevelsTo(MaxDepth, f)

\* which Results is the last level of.
LEMMA Levels ==
  /\ Results = Level[MaxDepth]
  /\ Level[0] = Scalars \cup {Quarantined}
  /\ \A d \in 1..MaxDepth : Level[d] = Level[d - 1] \cup Nested(Level[d - 1])
<1>1. MaxDepth \in Nat
  BY ScanAssumption
<1>2. LevelsTo(MaxDepth, Level)
  BY <1>1, LevelsExist DEF Level
<1>3. Results = Level[MaxDepth]
  BY DEF Results, Level, LevelsTo
<1>4. \A d \in 1..MaxDepth : d \in 0..MaxDepth /\ d # 0
  BY <1>1
<1>5. 0 \in 0..MaxDepth
  BY <1>1
<1> HIDE DEF Level
<1>6. Level[0] = Scalars \cup {Quarantined}
  BY <1>2, <1>5 DEF LevelsTo
<1>7. \A d \in 1..MaxDepth : Level[d] = Level[d - 1] \cup Nested(Level[d - 1])
  BY <1>2, <1>4 DEF LevelsTo
<1> QED  BY <1>3, <1>6, <1>7

\* A list or dict at a level has the entries of a lower one.
LEMMA NestedValues ==
  ASSUME NEW A, NEW v
  PROVE  v \in Nested(A) <=> \E type, n, parts :
                               /\ type \in {"list", "dict"} /\ n \in 0..MaxParts
                               /\ parts \in [1..n -> A] /\ v = Nest(type, parts)
<1>1. ASSUME v \in Nested(A)
      PROVE  \E type, n, parts : /\ type \in {"list", "dict"} /\ n \in 0..MaxParts
                                  /\ parts \in [1..n -> A] /\ v = Nest(type, parts)
  <2>1. PICK type \in {"list", "dict"}, parts \in UNION {[1..n -> A] : n \in 0..MaxParts} :
               v = Nest(type, parts)
    BY <1>1 DEF Nested
  <2>2. PICK n \in 0..MaxParts : parts \in [1..n -> A]
    OBVIOUS
  <2> QED  BY <2>1, <2>2
<1>2. ASSUME NEW type \in {"list", "dict"}, NEW n \in 0..MaxParts, NEW parts \in [1..n -> A],
             v = Nest(type, parts)
      PROVE  v \in Nested(A)
  <2>1. parts \in UNION {[1..k -> A] : k \in 0..MaxParts}
    OBVIOUS
  <2> QED  BY <1>2, <2>1 DEF Nested
<1> QED  BY <1>1, <1>2

\* Lists and dicts of more values are more lists and dicts.
LEMMA NestedGrows ==
  ASSUME NEW A, NEW B, A \subseteq B
  PROVE  Nested(A) \subseteq Nested(B)
<1> SUFFICES ASSUME NEW v \in Nested(A) PROVE v \in Nested(B)
  OBVIOUS
<1>1. PICK type, n, parts : /\ type \in {"list", "dict"} /\ n \in 0..MaxParts
                            /\ parts \in [1..n -> A] /\ v = Nest(type, parts)
  BY NestedValues
<1>2. parts \in [1..n -> B]
  BY <1>1
<1> QED  BY <1>1, <1>2, NestedValues

\* The values at level 0, and those above, by their kind.
LEMMA LevelZero ==
  ASSUME NEW v \in Level[0]
  PROVE  ~ IsNest(v)
<1>1. v \in Scalars \/ v = Quarantined
  BY Levels
<1>2. v \in Scalars => v.type = "str" \/ v = Number
  BY ScanAssumption DEF ScannedTexts
<1> QED  BY <1>1, <1>2 DEF IsNest, Number, Quarantined

\* The entries of a list or dict are values of the level below.
LEMMA NestsBelow ==
  \A d \in 0..MaxDepth : \A v \in Level[d] :
    IsNest(v) => d # 0 /\ v \in Nested(Level[d - 1])
<1> DEFINE P(d) == \A v \in Level[d] : IsNest(v) => d # 0 /\ v \in Nested(Level[d - 1])
           T == {d \in Nat : d <= MaxDepth => P(d)}
<1>1. MaxDepth \in Nat
  BY ScanAssumption
<1>2. P(0)
  BY LevelZero
<1>3. ASSUME NEW d \in Nat, d + 1 <= MaxDepth, P(d) PROVE P(d + 1)
  <2>1. d + 1 \in 1..MaxDepth /\ (d + 1) - 1 = d /\ d + 1 # 0
    BY <1>1, <1>3
  <2>2. Level[d + 1] = Level[d] \cup Nested(Level[d])
    BY <2>1, Levels
  <2>3. ASSUME NEW v \in Level[d], IsNest(v) PROVE v \in Nested(Level[d])
    <3>1. d # 0 /\ v \in Nested(Level[d - 1])
      BY <1>3, <2>3
    <3>2. d \in 1..MaxDepth
      BY <1>1, <1>3, <3>1
    <3>3. Level[d - 1] \subseteq Level[d]
      BY <3>2, Levels
    <3> QED  BY <3>1, <3>3, NestedGrows
  <2> QED  BY <2>1, <2>2, <2>3
<1>4. T \in SUBSET Nat /\ \A d \in Nat : d \in T <=> (d <= MaxDepth => P(d))
  OBVIOUS
<1> HIDE DEF P, T
<1>5. 0 \in T
  BY <1>2, <1>4
<1>6. ASSUME NEW d \in T PROVE d + 1 \in T
  <2>1. d \in Nat /\ d + 1 \in Nat /\ (d + 1 <= MaxDepth => d <= MaxDepth)
    BY <1>1, <1>4
  <2> QED  BY <1>3, <1>4, <2>1
<1>7. T = Nat
  BY <1>4, <1>5, <1>6, NatSetInduction
<1>8. \A d \in 0..MaxDepth : d \in Nat /\ d <= MaxDepth
  BY <1>1
<1> QED  BY <1>4, <1>7, <1>8 DEF P

\* Every level holds the one below and the lists and dicts of its values.
LEMMA LevelsGrow ==
  \A d \in Nat : d + 1 <= MaxDepth =>
    /\ d \in 0..MaxDepth /\ d + 1 \in 0..MaxDepth
    /\ Level[d] \subseteq Level[d + 1] /\ Nested(Level[d]) \subseteq Level[d + 1]
    /\ \A v \in Level[d + 1] : IsNest(v) => v \in Nested(Level[d])
<1> SUFFICES ASSUME NEW d \in Nat, d + 1 <= MaxDepth
             PROVE  /\ d \in 0..MaxDepth /\ d + 1 \in 0..MaxDepth
                    /\ Level[d] \subseteq Level[d + 1] /\ Nested(Level[d]) \subseteq Level[d + 1]
                    /\ \A v \in Level[d + 1] : IsNest(v) => v \in Nested(Level[d])
  OBVIOUS
<1>1. MaxDepth \in Nat
  BY ScanAssumption
<1>2. d \in 0..MaxDepth /\ d + 1 \in 0..MaxDepth /\ d + 1 \in 1..MaxDepth /\ (d + 1) - 1 = d
  BY <1>1
<1>3. Level[d + 1] = Level[d] \cup Nested(Level[d])
  BY <1>2, Levels
<1>4. \A v \in Level[d + 1] : IsNest(v) => v \in Nested(Level[d])
  BY <1>2, NestsBelow
<1> QED  BY <1>2, <1>3, <1>4

\* What is true of the lowest level, and of each if of the one below, is true of Results.
LEMMA LevelInduction ==
  ASSUME NEW T \in SUBSET Nat, 0 \in T,
         \A d \in T : d + 1 <= MaxDepth => d + 1 \in T
  PROVE  MaxDepth \in T
<1> DEFINE U == {d \in Nat : d <= MaxDepth => d \in T}
<1>1. MaxDepth \in Nat
  BY ScanAssumption
<1>2. 0 \in U
  OBVIOUS
<1>3. ASSUME NEW d \in U PROVE d + 1 \in U
  BY <1>1
<1>4. U \in SUBSET Nat
  OBVIOUS
<1> HIDE DEF U
<1>5. U = Nat
  BY <1>2, <1>3, <1>4, NatSetInduction
<1> QED  BY <1>1, <1>5 DEF U

\* What the recursions of ScanToolResult and Leaves say of one value, and of all in D.
CleanedAt(f, value) ==
  IF IsText(value)
  THEN [flagged |-> DetectInjection(value),
        sanitized |-> IF DetectInjection(value) THEN Quarantined ELSE value]
  ELSE IF IsNest(value)
  THEN [flagged |-> \E k \in DOMAIN value.parts : f[value.parts[k]].flagged,
        sanitized |-> Nest(value.type, [k \in DOMAIN value.parts |-> f[value.parts[k]].sanitized])]
  ELSE [flagged |-> FALSE, sanitized |-> value]

LeavesAt(f, v) ==
  IF IsNest(v)
  THEN {[at |-> <<v.type>>, leaf |-> Number]} \cup
       UNION {{[at |-> <<v.type, k, l.at>>, leaf |-> l.leaf] : l \in f[v.parts[k]]} : k \in DOMAIN v.parts}
  ELSE {[at |-> <<>>, leaf |-> v]}

CleanedIn(D, f) == f = [value \in D |-> CleanedAt(f, value)]
LeavesIn(D, f) == f = [v \in D |-> LeavesAt(f, v)]

\* They look only at the entries.
LEMMA LooksAtParts ==
  ASSUME NEW v, NEW f, NEW g,
         IsNest(v) => \A k \in DOMAIN v.parts : f[v.parts[k]] = g[v.parts[k]]
  PROVE  CleanedAt(f, v) = CleanedAt(g, v) /\ LeavesAt(f, v) = LeavesAt(g, v)
<1>1. CASE ~ IsNest(v)
  BY <1>1 DEF CleanedAt, LeavesAt
<1>2. CASE IsNest(v)
  <2>1. \A k \in DOMAIN v.parts : f[v.parts[k]] = g[v.parts[k]]
    BY <1>2
  <2>2. [k \in DOMAIN v.parts |-> f[v.parts[k]].sanitized] = [k \in DOMAIN v.parts |-> g[v.parts[k]].sanitized]
    BY <2>1
  <2>3. (\E k \in DOMAIN v.parts : f[v.parts[k]].flagged) = (\E k \in DOMAIN v.parts : g[v.parts[k]].flagged)
    BY <2>1
  <2>4. CleanedAt(f, v) = CleanedAt(g, v)
    BY <2>2, <2>3, Zenon DEF CleanedAt
  <2>5. UNION {{[at |-> <<v.type, k, l.at>>, leaf |-> l.leaf] : l \in f[v.parts[k]]} : k \in DOMAIN v.parts}
        = UNION {{[at |-> <<v.type, k, l.at>>, leaf |-> l.leaf] : l \in g[v.parts[k]]} : k \in DOMAIN v.parts}
    BY <2>1
  <2>6. LeavesAt(f, v) = LeavesAt(g, v)
    BY <2>5 DEF LeavesAt
  <2> QED  BY <2>4, <2>6
<1> QED  BY <1>1, <1>2

\* A list or dict is its type and its entries.
LEMMA PartsBelow ==
  ASSUME NEW A, NEW v \in Nested(A)
  PROVE  /\ IsNest(v) /\ ~ IsText(v)
         /\ v.type \in {"list", "dict"} /\ v = Nest(v.type, v.parts)
         /\ \E n \in 0..MaxParts : v.parts \in [1..n -> A]
         /\ \A k \in DOMAIN v.parts : v.parts[k] \in A
<1>1. PICK type, n, parts : /\ type \in {"list", "dict"} /\ n \in 0..MaxParts
                            /\ parts \in [1..n -> A] /\ v = Nest(type, parts)
  BY NestedValues
<1>2. v.type = type /\ v.parts = parts
  BY <1>1 DEF Nest
<1>3. IsNest(v) /\ ~ IsText(v)
  BY <1>1, <1>2 DEF IsNest, IsText
<1> QED  BY <1>1, <1>2, <1>3

\* The recursions have solutions.
LEMMA WalksExist ==
  /\ \E f : CleanedIn(Results, f)
  /\ \E f : LeavesIn(Results, f)
<1> DEFINE P(d) == (\E f : CleanedIn(Level[d], f)) /\ (\E f : LeavesIn(Level[d], f))
           T == {d \in Nat : P(d)}
<1>1. P(0)
  <2> DEFINE c == [v \in Level[0] |-> CleanedAt(<<>>, v)]
             l == [v \in Level[0] |-> LeavesAt(<<>>, v)]
  <2>1. \A v \in Level[0] : CleanedAt(c, v) = CleanedAt(<<>>, v) /\ LeavesAt(l, v) = LeavesAt(<<>>, v)
    <3> HIDE DEF c, l
    <3> QED  BY LevelZero, LooksAtParts
  <2>2. CleanedIn(Level[0], c) /\ LeavesIn(Level[0], l)
    BY <2>1 DEF CleanedIn, LeavesIn
  <2> QED  BY <2>2
<1>2. ASSUME NEW d \in Nat, d + 1 <= MaxDepth, P(d) PROVE P(d + 1)
  <2> DEFINE A == Level[d]
             B == Level[d + 1]
  <2>1. /\ A \subseteq B
        /\ \A v \in B : IsNest(v) => v \in Nested(A)
    BY <1>2, LevelsGrow
  <2>2. (\E f : CleanedIn(A, f)) /\ (\E f : LeavesIn(A, f))
    BY <1>2
  <2> HIDE DEF A, B
  <2>3. \A v \in B : IsNest(v) => \A k \in DOMAIN v.parts : v.parts[k] \in A
    BY <2>1, PartsBelow
  <2>4. \E f : CleanedIn(B, f)
    <3>1. PICK f : CleanedIn(A, f)
      BY <2>2
    <3> DEFINE g == [v \in B |-> CleanedAt(f, v)]
    <3>2. \A v \in A : f[v] = g[v]
      BY <2>1, <3>1 DEF CleanedIn
    <3>3. \A v \in B : CleanedAt(f, v) = CleanedAt(g, v)
      <4> HIDE DEF g
      <4> QED  BY <2>3, <3>2, LooksAtParts
    <3>4. CleanedIn(B, g)
      BY <3>3 DEF CleanedIn
    <3> QED  BY <3>4
  <2>5. \E f : LeavesIn(B, f)
    <3>1. PICK f : LeavesIn(A, f)
      BY <2>2
    <3> DEFINE g == [v \in B |-> LeavesAt(f, v)]
    <3>2. \A v \in A : f[v] = g[v]
      BY <2>1, <3>1 DEF LeavesIn
    <3>3. \A v \in B : LeavesAt(f, v) = LeavesAt(g, v)
      <4> HIDE DEF g
      <4> QED  BY <2>3, <3>2, LooksAtParts
    <3>4. LeavesIn(B, g)
      BY <3>3 DEF LeavesIn
    <3> QED  BY <3>4
  <2> QED  BY <2>4, <2>5 DEF B
<1>3. T \in SUBSET Nat /\ \A d \in Nat : d \in T <=> P(d)
  OBVIOUS
<1>4. MaxDepth \in Nat
  BY ScanAssumption
<1> HIDE DEF P, T
<1>5. 0 \in T /\ \A d \in T : d + 1 <= MaxDepth => d + 1 \in T
  BY <1>1, <1>2, <1>3
<1>6. MaxDepth \in T
  BY <1>3, <1>5, LevelInduction
<1>7. P(MaxDepth)
  BY <1>3, <1>4, <1>6
<1> QED  BY <1>7, Levels DEF P
CleanedMap == CHOOSE f : CleanedIn(Results, f)
LeavesMap == CHOOSE f : LeavesIn(Results, f)

\* ScanToolResult and Leaves are the solutions of their recursions.
LEMMA Walks ==
  /\ \A v : ScanToolResult(v) = CleanedMap[v] /\ Leaves(v) = LeavesMap[v]
  /\ \A v \in Results : /\ CleanedMap[v] = CleanedAt(CleanedMap, v)
                        /\ LeavesMap[v] = LeavesAt(LeavesMap, v)
<1>1. \A v : ScanToolResult(v) = CleanedMap[v]
  BY DEF ScanToolResult, CleanedMap, CleanedIn, CleanedAt
<1>2. \A v : Leaves(v) = LeavesMap[v]
  BY DEF Leaves, LeavesMap, LeavesIn, LeavesAt
<1>3. CleanedIn(Results, CleanedMap) /\ LeavesIn(Results, LeavesMap)
  BY WalksExist DEF CleanedMap, LeavesMap
<1> HIDE DEF CleanedMap, LeavesMap
<1>4. \A v \in Results : /\ CleanedMap[v] = CleanedAt(CleanedMap, v)
                         /\ LeavesMap[v] = LeavesAt(LeavesMap, v)
  <2>1. DOMAIN [value \in Results |-> CleanedAt(CleanedMap, value)] = Results
    OBVIOUS
  <2> QED  BY <1>3, <2>1 DEF CleanedIn, LeavesIn
<1> QED  BY <1>1, <1>2, <1>4

\* What was quarantined has no signals.
LEMMA QuarantinedIsClean == ~ DetectInjection(Quarantined)
<1>1. Quarantined.folded = {} /\ "written" \in DOMAIN Quarantined
  BY DEF Quarantined
<1> QED  BY <1>1, RefusedFor

\* The walk stays among the results, flags what it replaces, and nothing else changes.
Exact(v, c, before, after) ==
  /\ c.flagged \in BOOLEAN
  /\ \A l \in after : IsText(l.leaf) => ~ DetectInjection(l.leaf)
  /\ {l.at : l \in before} = {l.at : l \in after}
  /\ \A l \in before \ after : IsText(l.leaf) /\ DetectInjection(l.leaf)
  /\ c.flagged => \E l \in before : IsText(l.leaf) /\ DetectInjection(l.leaf)
  /\ ~ c.flagged => c.sanitized = v

\* At a text or a number.
LEMMA ExactAtLeaf ==
  ASSUME NEW v \in Results, ~ IsNest(v), Quarantined \in Results
  PROVE  LET c == CleanedMap[v]
         IN  /\ c.sanitized \in {v, Quarantined}
             /\ Exact(v, c, LeavesMap[v], LeavesMap[c.sanitized])
<1> DEFINE c == CleanedMap[v]
<1>1. ~ IsNest(Quarantined) /\ IsText(Quarantined)
  BY DEF IsNest, IsText, Quarantined
<1>2. c = IF IsText(v) THEN [flagged |-> DetectInjection(v),
                             sanitized |-> IF DetectInjection(v) THEN Quarantined ELSE v]
          ELSE [flagged |-> FALSE, sanitized |-> v]
  BY Walks DEF CleanedAt
<1>3. LeavesMap[v] = {[at |-> <<>>, leaf |-> v]}
  BY Walks DEF LeavesAt
<1>4. LeavesMap[Quarantined] = {[at |-> <<>>, leaf |-> Quarantined]}
  BY <1>1, Walks DEF LeavesAt
<1>5. DetectInjection(v) \in BOOLEAN
  BY DEF DetectInjection
<1> HIDE DEF c
<1> SUFFICES c.sanitized \in {v, Quarantined} /\ Exact(v, c, LeavesMap[v], LeavesMap[c.sanitized])
  BY DEF c
<1>6. CASE IsText(v) /\ DetectInjection(v)
  <2>1. c.flagged = TRUE /\ c.sanitized = Quarantined
    BY <1>2, <1>6
  <2>2. LeavesMap[c.sanitized] = {[at |-> <<>>, leaf |-> Quarantined]}
    BY <1>4, <2>1
  <2> DEFINE x == [at |-> <<>>, leaf |-> v]
             y == [at |-> <<>>, leaf |-> Quarantined]
  <2>3. x.at = y.at /\ x.leaf = v /\ y.leaf = Quarantined
    OBVIOUS
  <2>4. LeavesMap[v] = {x} /\ LeavesMap[c.sanitized] = {y}
    BY <1>3, <2>2
  <2> HIDE DEF x, y
  <2>5. {l.at : l \in {x}} = {l.at : l \in {y}}
    BY <2>3
  <2>6. Exact(v, c, {x}, {y})
    BY <1>6, <2>1, <2>3, <2>5, QuarantinedIsClean DEF Exact
  <2> QED  BY <2>1, <2>4, <2>6
<1>7. CASE ~ (IsText(v) /\ DetectInjection(v))
  <2>1. c.flagged = FALSE /\ c.sanitized = v
    BY <1>2, <1>5, <1>7
  <2>2. LeavesMap[c.sanitized] = {[at |-> <<>>, leaf |-> v]}
    BY <1>3, <2>1
  <2> DEFINE x == [at |-> <<>>, leaf |-> v]
  <2>3. x.leaf = v
    OBVIOUS
  <2>4. LeavesMap[v] = {x} /\ LeavesMap[c.sanitized] = {x}
    BY <1>3, <2>2
  <2> HIDE DEF x
  <2>5. Exact(v, c, {x}, {x})
    BY <1>7, <2>1, <2>3 DEF Exact
  <2> QED  BY <2>1, <2>4, <2>5
<1> QED  BY <1>6, <1>7

\* At a list or dict whose entries are exactly cleaned.
LEMMA ExactAtNest ==
  ASSUME NEW A \in SUBSET Results, NEW v \in Results, v \in Nested(A), Nested(A) \subseteq Results,
         \A u \in A : LET c == CleanedMap[u]
                      IN  c.sanitized \in A /\ Exact(u, c, LeavesMap[u], LeavesMap[c.sanitized])
  PROVE  LET c == CleanedMap[v]
         IN  /\ c.sanitized \in Nested(A)
             /\ Exact(v, c, LeavesMap[v], LeavesMap[c.sanitized])
<1> DEFINE D == DOMAIN v.parts
           p(k) == v.parts[k]
           q(k) == CleanedMap[v.parts[k]].sanitized
           parts == [k \in D |-> q(k)]
           w == Nest(v.type, parts)
           flagged == \E k \in D : CleanedMap[p(k)].flagged
           Root == [at |-> <<v.type>>, leaf |-> Number]
           Up(k, l) == [at |-> <<v.type, k, l.at>>, leaf |-> l.leaf]
<1>1. /\ IsNest(v) /\ ~ IsText(v) /\ v.type \in {"list", "dict"} /\ v = Nest(v.type, v.parts)
      /\ \E n \in 0..MaxParts : v.parts \in [1..n -> A]
      /\ \A k \in D : p(k) \in A
  BY PartsBelow
<1>2. CleanedMap[v] = [flagged |-> flagged, sanitized |-> w]
  BY <1>1, Walks DEF CleanedAt
<1>3. \A k \in D : q(k) \in A /\ Exact(p(k), CleanedMap[p(k)], LeavesMap[p(k)], LeavesMap[q(k)])
  BY <1>1
<1>4. w \in Nested(A) /\ IsNest(w) /\ w.type = v.type /\ w.parts = parts
  <2>1. PICK n \in 0..MaxParts : v.parts \in [1..n -> A]
    BY <1>1
  <2>2. parts \in [1..n -> A]
    BY <1>3, <2>1
  <2>3. w \in Nested(A)
    BY <1>1, <2>2, NestedValues
  <2>4. w.type = v.type /\ w.parts = parts
    BY DEF Nest
  <2>5. IsNest(w)
    BY <2>3, PartsBelow
  <2> QED  BY <2>3, <2>4, <2>5
<1> DEFINE before == LeavesMap[v]
           after == LeavesMap[w]
<1>5. \A l : l \in before <=> l = Root \/ \E k \in D : \E m \in LeavesMap[p(k)] : l = Up(k, m)
  <2>1. before = {Root} \cup UNION {{Up(k, m) : m \in LeavesMap[p(k)]} : k \in D}
    BY <1>1, Walks DEF LeavesAt
  <2> HIDE DEF before, Root, Up, p, D
  <2> QED  BY <2>1
<1>6. \A l : l \in after <=> l = Root \/ \E k \in D : \E m \in LeavesMap[q(k)] : l = Up(k, m)
  <2>1. w \in Results
    BY <1>4
  <2>2. after = {Root} \cup UNION {{Up(k, m) : m \in LeavesMap[w.parts[k]]} : k \in DOMAIN w.parts}
    <3>1. after = LeavesAt(LeavesMap, w)
      BY <2>1, Walks
    <3>2. IsNest(w) /\ w.type = v.type
      BY <1>4
    <3> HIDE DEF w, after
    <3> QED  BY <3>1, <3>2 DEF LeavesAt
  <2>3. DOMAIN w.parts = D /\ \A k \in D : w.parts[k] = q(k)
    BY <1>4
  <2> HIDE DEF after, Root, Up, q, D, w
  <2> QED  BY <2>2, <2>3
<1>7. ~ IsText(Root.leaf)
  BY DEF IsText, Number
<1>8. \A k, m : Up(k, m).leaf = m.leaf /\ Up(k, m).at = <<v.type, k, m.at>>
  OBVIOUS
<1> HIDE DEF before, after, Root, Up, p, q, D, w, parts
<1>9. \A l \in after : IsText(l.leaf) => ~ DetectInjection(l.leaf)
  BY <1>3, <1>6, <1>7, <1>8 DEF Exact
<1>10. {l.at : l \in before} = {l.at : l \in after}
  <2>1. ASSUME NEW l \in before PROVE \E m \in after : m.at = l.at
    <3>1. CASE l = Root
      BY <1>6, <3>1
    <3>2. ASSUME NEW k \in D, NEW m \in LeavesMap[p(k)], l = Up(k, m)
          PROVE  \E o \in after : o.at = l.at
      <4>1. {x.at : x \in LeavesMap[p(k)]} = {x.at : x \in LeavesMap[q(k)]}
        BY <1>3 DEF Exact
      <4>2. PICK o \in LeavesMap[q(k)] : o.at = m.at
        BY <4>1
      <4>3. Up(k, o) \in after /\ Up(k, o).at = l.at
        BY <1>6, <1>8, <3>2, <4>2
      <4> QED  BY <4>3
    <3> QED  BY <1>5, <3>1, <3>2
  <2>2. ASSUME NEW l \in after PROVE \E m \in before : m.at = l.at
    <3>1. CASE l = Root
      BY <1>5, <3>1
    <3>2. ASSUME NEW k \in D, NEW m \in LeavesMap[q(k)], l = Up(k, m)
          PROVE  \E o \in before : o.at = l.at
      <4>1. {x.at : x \in LeavesMap[p(k)]} = {x.at : x \in LeavesMap[q(k)]}
        BY <1>3 DEF Exact
      <4>2. PICK o \in LeavesMap[p(k)] : o.at = m.at
        BY <4>1
      <4>3. Up(k, o) \in before /\ Up(k, o).at = l.at
        BY <1>5, <1>8, <3>2, <4>2
      <4> QED  BY <4>3
    <3> QED  BY <1>6, <3>1, <3>2
  <2> QED  BY <2>1, <2>2
<1>11. ASSUME NEW l \in before \ after PROVE IsText(l.leaf) /\ DetectInjection(l.leaf)
  <2>1. PICK k \in D : \E m \in LeavesMap[p(k)] : l = Up(k, m)
    BY <1>5, <1>6
  <2>2. PICK m \in LeavesMap[p(k)] : l = Up(k, m)
    BY <2>1
  <2>3. m \notin LeavesMap[q(k)]
    BY <1>6, <2>2
  <2>4. IsText(m.leaf) /\ DetectInjection(m.leaf)
    BY <1>3, <2>3 DEF Exact
  <2> QED  BY <1>8, <2>2, <2>4
<1>12. ASSUME flagged PROVE \E l \in before : IsText(l.leaf) /\ DetectInjection(l.leaf)
  <2>1. PICK k \in D : CleanedMap[p(k)].flagged
    BY <1>12
  <2>2. PICK m \in LeavesMap[p(k)] : IsText(m.leaf) /\ DetectInjection(m.leaf)
    BY <1>3, <2>1 DEF Exact
  <2>3. Up(k, m) \in before
    BY <1>5
  <2> QED  BY <1>8, <2>2, <2>3
<1>13. ASSUME ~ flagged PROVE w = v
  <2>1. \A k \in D : q(k) = p(k)
    BY <1>3, <1>13 DEF Exact, p, q
  <2>2. PICK n \in 0..MaxParts : v.parts \in [1..n -> A]
    BY <1>1
  <2>3. [k \in D |-> p(k)] = v.parts
    BY <2>2 DEF p, D
  <2>4. parts = v.parts
    BY <2>1, <2>3 DEF parts
  <2> QED  BY <1>1, <2>4 DEF w
<1>14. Exact(v, [flagged |-> flagged, sanitized |-> w], before, after)
  BY <1>9, <1>10, <1>11, <1>12, <1>13 DEF Exact
<1> QED  BY <1>2, <1>4, <1>14 DEF before, after

\* So at every level.
LEMMA ResultsExact ==
  ASSUME NEW v \in Results
  PROVE  LET c == CleanedMap[v]
         IN  c.sanitized \in Results /\ Exact(v, c, LeavesMap[v], LeavesMap[c.sanitized])
<1> DEFINE Holds(A, u) == LET c == CleanedMap[u]
                          IN  c.sanitized \in A /\ Exact(u, c, LeavesMap[u], LeavesMap[c.sanitized])
           P(d) == Level[d] \subseteq Results => \A u \in Level[d] : Holds(Level[d], u)
           T == {d \in Nat : P(d)}
<1>1. Level[0] = Scalars \cup {Quarantined} /\ Results = Level[MaxDepth]
  BY Levels
<1>2. P(0)
  <2> SUFFICES ASSUME Level[0] \subseteq Results, NEW u \in Level[0] PROVE Holds(Level[0], u)
    OBVIOUS
  <2>1. ~ IsNest(u) /\ Quarantined \in Level[0]
    BY <1>1, LevelZero
  <2>2. LET c == CleanedMap[u]
        IN  /\ c.sanitized \in {u, Quarantined}
            /\ Exact(u, c, LeavesMap[u], LeavesMap[c.sanitized])
    BY <2>1, ExactAtLeaf
  <2> QED  BY <2>1, <2>2
<1>3. ASSUME NEW d \in Nat, d + 1 <= MaxDepth, P(d) PROVE P(d + 1)
  <2> DEFINE A == Level[d]
             B == Level[d + 1]
  <2> SUFFICES ASSUME B \subseteq Results, NEW u \in B PROVE Holds(B, u)
    OBVIOUS
  <2>1. A \subseteq B /\ Nested(A) \subseteq B /\ (IsNest(u) => u \in Nested(A))
    BY <1>3, LevelsGrow
  <2>2. \A x \in A : Holds(A, x)
    BY <1>3, <2>1
  <2>3. Quarantined \in B
    <3> DEFINE S == {n \in Nat : n <= d + 1 => Quarantined \in Level[n]}
    <3>1. 0 \in S
      BY <1>1
    <3>2. ASSUME NEW n \in S PROVE n + 1 \in S
      <4>1. MaxDepth \in Nat
        BY ScanAssumption
      <4>2. n + 1 <= d + 1 => n <= d + 1 /\ n + 1 <= MaxDepth
        BY <1>3, <4>1
      <4>3. n + 1 <= d + 1 => Level[n] \subseteq Level[n + 1]
        BY <4>2, LevelsGrow
      <4> QED  BY <4>2, <4>3
    <3>3. S \in SUBSET Nat
      OBVIOUS
    <3> HIDE DEF S
    <3>4. S = Nat
      BY <3>1, <3>2, <3>3, NatSetInduction
    <3> QED  BY <3>4 DEF S
  <2>4. CASE IsNest(u)
    <3>1. u \in Nested(A) /\ A \in SUBSET Results /\ Nested(A) \subseteq Results
      BY <2>1, <2>4
    <3> HIDE DEF A, B, P
    <3>2. LET c == CleanedMap[u]
          IN  c.sanitized \in Nested(A) /\ Exact(u, c, LeavesMap[u], LeavesMap[c.sanitized])
      BY <2>2, <3>1, ExactAtNest
    <3> QED  BY <2>1, <3>2
  <2>5. CASE ~ IsNest(u)
    <3> HIDE DEF A, B, P
    <3>1. LET c == CleanedMap[u]
          IN  /\ c.sanitized \in {u, Quarantined}
              /\ Exact(u, c, LeavesMap[u], LeavesMap[c.sanitized])
      BY <2>3, <2>5, ExactAtLeaf
    <3> QED  BY <2>3, <3>1
  <2> QED  BY <2>4, <2>5
<1>4. T \in SUBSET Nat /\ \A d \in Nat : d \in T <=> P(d)
  OBVIOUS
<1>5. MaxDepth \in Nat
  BY ScanAssumption
<1> HIDE DEF P, T
<1>6. 0 \in T /\ \A d \in T : d + 1 <= MaxDepth => d + 1 \in T
  BY <1>2, <1>3, <1>4
<1>7. P(MaxDepth)
  BY <1>4, <1>5, <1>6, LevelInduction
<1> QED  BY <1>1, <1>7 DEF P

-----------------------------------------------------------------------------
(* The guardrails as a system *)

\* What is known of the input, and that each step applied its guardrail to it.
Handled ==
  /\ /\ kind = "words" => input \in CaseTexts
     /\ kind = "signals" => input \in ScoredTexts
     /\ kind = "result" => input \in Results
  /\ step \in {"inbound", "outbound"} => kind = "words" /\ once = RedactPii(input)
  /\ step = "outbound" => twice = RedactPii(once)
  /\ step = "detected" => kind = "signals" /\ refused = DetectInjection(input)
  /\ step = "scanned" => kind = "result" /\ scan = ScanToolResult(input)

\* Every step keeps that.
LEMMA HandledHolds == Spec => []Handled
<1>1. Init => Handled
  BY DEF Init, Handled
<1>2. Handled /\ [Next]_vars => Handled'
  <2> SUFFICES ASSUME Handled, [Next]_vars PROVE Handled'
    OBVIOUS
  <2>1. CASE Inbound
    BY <2>1 DEF Handled, Inbound
  <2>2. CASE Outbound
    BY <2>2 DEF Handled, Outbound
  <2>3. CASE Detect
    BY <2>3 DEF Handled, Detect
  <2>4. CASE Scan
    BY <2>4 DEF Handled, Scan
  <2>5. CASE UNCHANGED vars
    BY <2>5 DEF Handled, vars
  <2> QED  BY <2>1, <2>2, <2>3, <2>4, <2>5 DEF Next
<1> QED  BY <1>1, <1>2, PTL DEF Spec

\* A text of any signals is refused exactly for one HIGH signal, two MEDIUM ones, or a
\* MEDIUM and a LOW one (injection.py:187): the sum of the weights, taken apart
\* signal by signal.
THEOREM RefusalIsByTier == Spec => []RefusedByTier
<1>1. Handled => RefusedByTier
  <2> SUFFICES ASSUME Handled, step = "detected" PROVE RefusedByTier
    BY DEF RefusedByTier
  <2> DEFINE S == input.folded
             H == S \cap HighSignals
             M == S \cap MediumSignals
             L == S \cap LowSignals
  <2>1. input \in ScannedTexts /\ refused = DetectInjection(input)
    BY ScanAssumption DEF Handled
  <2>2. S \in SUBSET AllSignals /\ "written" \in DOMAIN input
    BY <2>1 DEF ScannedTexts
  <2>3. refused <=> H # {} \/ \E x \in M : \E y \in S \cap (MediumSignals \cup LowSignals) : x # y
    BY <2>1, <2>2, RefusedFor
  <2>4. IsFiniteSet(H) /\ IsFiniteSet(M) /\ IsFiniteSet(L)
    BY <2>2, SignalsFinite, FS_Subset
  <2>5. M \cap L = {}
    BY DEF MediumSignals, LowSignals
  <2>6. S \cap (MediumSignals \cup LowSignals) = M \cup L
    OBVIOUS
  <2> DEFINE h == Cardinality(H)
             m == Cardinality(M)
             l == Cardinality(L)
  <2>7. /\ h >= 1 <=> H # {}
        /\ m >= 2 <=> \E x \in M, y \in M : x # y
        /\ m = 1 <=> \E x : M = {x}
        /\ m >= 1 <=> M # {}
        /\ l >= 1 <=> L # {}
    BY <2>4, CountToTwo
  <2> HIDE DEF H, M, L
  <2>8. refused <=> H # {} \/ (\E x \in M, y \in M : x # y) \/ (M # {} /\ L # {})
    BY <2>3, <2>5, <2>6
  <2>9. M # {} <=> (\E x \in M, y \in M : x # y) \/ \E x : M = {x}
    OBVIOUS
  <2>10. refused <=> h >= 1 \/ m >= 2 \/ (m = 1 /\ l >= 1)
    <3> HIDE DEF h, m, l
    <3> QED  BY <2>7, <2>8, <2>9
  <2> QED  BY <2>10 DEF RefusedByTier, H, M, L
<1> QED  BY <1>1, HandledHolds, PTL

\* The responder is shown the result of a tool with exactly its flagged strings
\* replaced, however wide and deep it is (injection.py:197-221).
THEOREM ScanIsExact == Spec => []QuarantineIsExact
<1>1. Handled => QuarantineIsExact
  <2> SUFFICES ASSUME Handled, step = "scanned" PROVE QuarantineIsExact
    BY DEF QuarantineIsExact
  <2> DEFINE before == LeavesMap[input]
             after == LeavesMap[scan.sanitized]
  <2>1. input \in Results /\ scan = CleanedMap[input]
    BY Walks DEF Handled
  <2>2. Exact(input, scan, before, after)
    BY <2>1, ResultsExact
  <2>3. Leaves(input) = before /\ Leaves(scan.sanitized) = after
    BY Walks
  <2>4. ~ scan.flagged => before = after
    <3>1. ~ scan.flagged => scan.sanitized = input
      BY <2>2 DEF Exact
    <3> QED  BY <3>1
  <2> HIDE DEF before, after
  <2>5. scan.flagged <=> before # after
    BY <2>2, <2>4 DEF Exact
  <2> QED  BY <2>2, <2>3, <2>5 DEF Exact, QuarantineIsExact
<1> QED  BY <1>1, HandledHolds, PTL

\* Redacting what was redacted on arrival, in the audit or in an answer that quotes it,
\* changes nothing, and the count of PII in it is zero, for texts of any length
\* (pii.py:55-85): a mask is matched by no pattern, so nothing is brought together.
THEOREM RedactionFinal == Spec => []RedactionIsFinal
<1>1. Handled => RedactionIsFinal
  <2> SUFFICES ASSUME Handled, step = "outbound" PROVE twice = once /\ FindPii(once) = {}
    BY DEF RedactionIsFinal
  <2> DEFINE m == MaskPii(ShieldBusinessRefs(input))
  <2>1. input \in Seq(Open) /\ once = RedactPii(input) /\ twice = RedactPii(once)
    BY CasesAreOpen DEF Handled
  <2>2. /\ ShieldBusinessRefs(once) = m /\ once = UnshieldBusinessRefs(m) /\ m \in Seq(Shielded)
        /\ Clear(EmailL, m) /\ Clear(SsnL, m) /\ Clear(CardL, m) /\ Clear(PhoneL, m)
    BY <2>1, RedactedOnce
  <2> HIDE DEF m, Clear
  <2>3. /\ MaskPii(m) = m
        /\ Found(Emails(m)) = {} /\ Found(Ssns(m)) = {}
        /\ Found(Cards(m)) = {} /\ Found(Phones(m)) = {}
    BY <2>2, ClearIsFinal
  <2>4. twice = once
    BY <2>1, <2>2, <2>3 DEF RedactPii
  <2>5. FindPii(once) = {}
    BY <2>2, <2>3 DEF FindPii
  <2> QED  BY <2>4, <2>5
<1> QED  BY <1>1, HandledHolds, PTL

\* The references of a case come through every redaction, in order, and no placeholder
\* for one is left in the text, for texts of any length (pii.py:26-60).
THEOREM ReferencesSurvive == Spec => []RefsSurvive
<1>1. Handled => RefsSurvive
  <2> SUFFICES ASSUME Handled, step \in {"inbound", "outbound"}
               PROVE  Refs(once) = Refs(input) /\ \A i \in DOMAIN once : once[i].word # "placeholder"
    BY DEF RefsSurvive
  <2>1. input \in Seq(Open) /\ once = RedactPii(input)
    BY CasesAreOpen DEF Handled
  <2>2. once \in Seq(Open) /\ Refs(once) = Refs(input)
    BY <2>1, RedactedOnce
  <2>3. \A w \in Open : w.word # "placeholder"
    <3>1. "placeholder" \notin PlainNames /\ "placeholder" # "[REDACTED]"
      BY DEF PlainNames
    <3> QED  BY <3>1, WordKinds DEF Open
  <2>4. \A i \in DOMAIN once : once[i] \in Open
    BY <2>2
  <2> QED  BY <2>2, <2>3, <2>4
<1> QED  BY <1>1, HandledHolds, PTL
=============================================================================
