-------------------------- MODULE PatternTreeProofs --------------------------
(***************************************************************************)
(* add() keeps the array a forest that stores what was added, a search for *)
(* a pattern finds exactly that, find() reports the longest pattern at     *)
(* each position, and censor() hides them all and nothing else: for        *)
(* patterns and texts of any length.                                       *)
(*                                                                         *)
(* The recursive functions are first shown to be what their equations say; *)
(* then what a family and a path hold; then what attaching a chain of new  *)
(* leaves does to a forest and to its words, and that add() does no more.  *)
(* The search is shown to find the longest pattern from later positions to *)
(* earlier ones: to read a pattern from a family is to read a character    *)
(* that a leaf of it carries, and the rest from the family below.  A text  *)
(* that is censored in part covers the text, so that no pattern without    *)
(* the character written over it occurs in it which did not before.        *)
(***************************************************************************)
EXTENDS PatternTree, FiniteSetTheorems, SequenceTheorems, WellFoundedInduction, TLAPS

-----------------------------------------------------------------------------
(* Recursion along the array                                               *)

\* A set of numbers has a least one.
LEMMA LeastOf ==
  ASSUME NEW T, T \subseteq Nat, T # {}
  PROVE  \E n \in T : \A m \in T : n <= m
<1>1. \E n \in T : \A m \in T : ~(<<m, n>> \in OpToRel(<, Nat))
  BY NatLessThanWellFounded, WFMin
<1>2. PICK n \in T : \A m \in T : ~(<<m, n>> \in OpToRel(<, Nat))
  BY <1>1
<1>3. ASSUME NEW m \in T
      PROVE  n <= m
  <2>1. m \in Nat /\ n \in Nat
    OBVIOUS
  <2>2. ~(m < n)
    BY <1>2, <2>1 DEF OpToRel
  <2> QED BY <2>1, <2>2
<1> QED BY <1>3

\* What leaf i adds to the word that g has for its parent.
Spelt(t, g, i) ==
  LET above == IF t[i].parent = None THEN <<>> ELSE g[t[i].parent]
  IN  IF t[i].end THEN above ELSE Append(above, t[i].value)

\* The words of extract() are well defined: a parent comes before its children.
LEMMA WordsIs ==
  ASSUME NEW t, Shape(t)
  PROVE  Words(t) = [i \in DOMAIN t |-> Spelt(t, Words(t), i)]
<1> DEFINE Good(n) == \E g : g = [i \in 0 .. n - 1 |-> Spelt(t, g, i)]
           Bad == {n \in 0 .. Size(t) : ~Good(n)}
<1>1. /\ Size(t) \in Nat /\ DOMAIN t = 0 .. Size(t) - 1
      /\ \A i \in DOMAIN t : t[i].parent \in None .. i - 1
  BY DEF Shape
<1>2. Bad = {}
  <2> SUFFICES ASSUME Bad # {} PROVE FALSE
    OBVIOUS
  <2>1. PICK n \in Bad : \A m \in Bad : n <= m
    <3>1. Bad \subseteq Nat
      BY <1>1
    <3> HIDE DEF Bad
    <3> QED BY <3>1, LeastOf
  <2>2. n # 0
    <3>1. Good(0)
      <4>1. [i \in {} |-> 0] = [i \in 0 .. 0 - 1 |-> Spelt(t, [j \in {} |-> 0], i)]
        OBVIOUS
      <4> QED BY <4>1
    <3> QED BY <3>1
  <2>3. Good(n - 1)
    <3>1. n \in 1 .. Size(t) /\ n - 1 \in 0 .. Size(t)
      BY <1>1, <2>2
    <3>2. n - 1 \notin Bad
      <4> HIDE DEF Bad
      <4> QED BY <1>1, <2>1, <3>1
    <3> HIDE DEF Good
    <3> QED BY <3>1, <3>2
  <2>4. PICK g : g = [i \in 0 .. n - 2 |-> Spelt(t, g, i)]
    BY <1>1, <2>3
  <2> DEFINE h == [i \in 0 .. n - 1 |-> IF i = n - 1 THEN Spelt(t, g, i) ELSE g[i]]
  <2>5. ASSUME NEW i \in 0 .. n - 1
        PROVE  Spelt(t, h, i) = Spelt(t, g, i)
    <3>1. t[i].parent \in None .. i - 1
      BY <1>1
    <3>2. t[i].parent # None => h[t[i].parent] = g[t[i].parent]
      BY <1>1, <3>1 DEF None
    <3> HIDE DEF h
    <3> QED BY <3>2 DEF Spelt
  <2>6. h = [i \in 0 .. n - 1 |-> Spelt(t, h, i)]
    <3>1. ASSUME NEW i \in 0 .. n - 1
          PROVE  h[i] = Spelt(t, g, i)
      <4>1. n \in 1 .. Size(t)
        BY <1>1, <2>2
      <4>2. i # n - 1 => g[i] = Spelt(t, g, i)
        <5>1. i # n - 1 => i \in 0 .. n - 2
          BY <4>1, <1>1
        <5> QED BY <2>4, <5>1
      <4> QED BY <4>2
    <3>2. h = [i \in 0 .. n - 1 |-> h[i]]
      OBVIOUS
    <3> HIDE DEF h
    <3> QED BY <2>5, <3>1, <3>2
  <2>7. Good(n)
    BY <2>6
  <2> QED BY <2>1, <2>7
<1>3. \E g : g = [i \in DOMAIN t |-> Spelt(t, g, i)]
  <2>1. Good(Size(t))
    BY <1>1, <1>2
  <2> QED BY <1>1, <2>1
<1>4. Words(t) = CHOOSE g : g = [i \in DOMAIN t |-> Spelt(t, g, i)]
  BY DEF Words, Spelt
<1> QED BY <1>3, <1>4

\* Where the walk from leaf j on stops, when g says so of the younger brothers.
Stops(t, S, g, j) == IF j \in S \/ t[j].sibling = 0 THEN j ELSE g[t[j].sibling]

\* Looking along a family is well defined: a brother comes after his elder ones.
LEMMA WalkIs ==
  ASSUME NEW t, Forest(t), NEW S
  PROVE  Walk(t, S) = [j \in DOMAIN t |-> Stops(t, S, Walk(t, S), j)]
<1> DEFINE N == Size(t)
           From(n) == {j \in DOMAIN t : j >= N - n}
           Good(n) == \E g : g = [j \in From(n) |-> Stops(t, S, g, j)]
           Bad == {n \in 0 .. N : ~Good(n)}
<1>1. /\ N \in Nat /\ DOMAIN t = 0 .. N - 1
      /\ \A j \in DOMAIN t : t[j].sibling # 0 => t[j].sibling \in DOMAIN t /\ t[j].sibling > j
  BY DEF Forest, Shape, SiblingLinked
<1> HIDE DEF N
<1>2. Bad = {}
  <2> SUFFICES ASSUME Bad # {} PROVE FALSE
    OBVIOUS
  <2>1. PICK n \in Bad : \A m \in Bad : n <= m
    <3>1. Bad \subseteq Nat
      BY <1>1
    <3> HIDE DEF Bad
    <3> QED BY <3>1, LeastOf
  <2>2. n # 0
    <3>1. From(0) = {}
      BY <1>1
    <3>2. Good(0)
      <4>1. [j \in {} |-> 0] = [j \in From(0) |-> Stops(t, S, [l \in {} |-> 0], j)]
        BY <3>1
      <4> QED BY <4>1
    <3> QED BY <3>2
  <2>3. n \in 1 .. N
    BY <1>1, <2>2
  <2>4. Good(n - 1)
    <3>1. n - 1 \in 0 .. N
      BY <1>1, <2>3
    <3>2. n - 1 \notin Bad
      <4> HIDE DEF Bad
      <4> QED BY <1>1, <2>1, <2>3
    <3> HIDE DEF Good
    <3> QED BY <3>1, <3>2
  <2>5. PICK g : g = [j \in From(n - 1) |-> Stops(t, S, g, j)]
    BY <2>4
  <2>6. /\ From(n) = From(n - 1) \cup {N - n} /\ N - n \notin From(n - 1)
        /\ \A j \in From(n) : t[j].sibling # 0 => t[j].sibling \in From(n - 1)
    BY <1>1, <2>3
  <2> HIDE DEF From
  <2> DEFINE h == [j \in From(n) |-> IF j = N - n THEN Stops(t, S, g, j) ELSE g[j]]
  <2>7. ASSUME NEW j \in From(n)
        PROVE  Stops(t, S, h, j) = Stops(t, S, g, j)
    <3>1. t[j].sibling # 0 => h[t[j].sibling] = g[t[j].sibling]
      BY <2>6
    <3> HIDE DEF h
    <3> QED BY <3>1 DEF Stops
  <2>8. h = [j \in From(n) |-> Stops(t, S, h, j)]
    <3>1. ASSUME NEW j \in From(n)
          PROVE  h[j] = Stops(t, S, g, j)
      <4>1. j # N - n => g[j] = Stops(t, S, g, j)
        BY <2>5, <2>6
      <4> QED BY <4>1
    <3>2. h = [j \in From(n) |-> h[j]]
      OBVIOUS
    <3> HIDE DEF h
    <3> QED BY <2>7, <3>1, <3>2
  <2>9. Good(n)
    BY <2>8
  <2> QED BY <2>1, <2>9
<1>3. \E g : g = [j \in DOMAIN t |-> Stops(t, S, g, j)]
  <2>1. Good(N)
    <3> HIDE DEF Good
    <3> QED BY <1>1, <1>2
  <2>2. From(N) = DOMAIN t
    BY <1>1
  <2> HIDE DEF From
  <2> QED BY <2>1, <2>2
<1>4. Walk(t, S) = CHOOSE g : g = [j \in DOMAIN t |-> Stops(t, S, g, j)]
  BY DEF Walk, Stops
<1> QED BY <1>3, <1>4

\* The family that the first k - 1 characters of s lead to, when g says so of fewer.
Reached(t, s, g, k) ==
  IF k = 1 THEN 0
  ELSE LET i == g[k - 1] IN IF i = None THEN None ELSE Descend(t, i, s[k - 1])

\* Going down along a pattern is well defined.
LEMMA PathIs ==
  ASSUME NEW t, NEW s \in Seq(Chars)
  PROVE  Path(t, s) = [k \in 1 .. Len(s) + 1 |-> Reached(t, s, Path(t, s), k)]
<1> DEFINE N == Len(s) + 1
           Good(n) == \E g : g = [k \in 1 .. n |-> Reached(t, s, g, k)]
           Bad == {n \in 0 .. N : ~Good(n)}
<1>1. N \in Nat
  BY LenProperties
<1> HIDE DEF N
<1>2. Bad = {}
  <2> SUFFICES ASSUME Bad # {} PROVE FALSE
    OBVIOUS
  <2>1. PICK n \in Bad : \A m \in Bad : n <= m
    <3>1. Bad \subseteq Nat
      BY <1>1
    <3> HIDE DEF Bad
    <3> QED BY <3>1, LeastOf
  <2>2. n # 0
    <3>1. Good(0)
      <4>1. [k \in {} |-> 0] = [k \in 1 .. 0 |-> Reached(t, s, [l \in {} |-> 0], k)]
        OBVIOUS
      <4> QED BY <4>1
    <3> QED BY <3>1
  <2>3. n \in 1 .. N
    BY <1>1, <2>2
  <2>4. Good(n - 1)
    <3>1. n - 1 \in 0 .. N
      BY <1>1, <2>3
    <3>2. n - 1 \notin Bad
      <4> HIDE DEF Bad
      <4> QED BY <1>1, <2>1, <2>3
    <3> HIDE DEF Good
    <3> QED BY <3>1, <3>2
  <2>5. PICK g : g = [k \in 1 .. n - 1 |-> Reached(t, s, g, k)]
    BY <2>4
  <2> DEFINE h == [k \in 1 .. n |-> IF k = n THEN Reached(t, s, g, k) ELSE g[k]]
  <2>6. ASSUME NEW k \in 1 .. n
        PROVE  Reached(t, s, h, k) = Reached(t, s, g, k)
    <3>1. k # 1 => h[k - 1] = g[k - 1]
      BY <1>1, <2>3
    <3> HIDE DEF h
    <3> QED BY <3>1 DEF Reached
  <2>7. h = [k \in 1 .. n |-> Reached(t, s, h, k)]
    <3>1. ASSUME NEW k \in 1 .. n
          PROVE  h[k] = Reached(t, s, g, k)
      <4>1. k # n => k \in 1 .. n - 1
        BY <1>1, <2>3
      <4>2. k # n => g[k] = Reached(t, s, g, k)
        BY <2>5, <4>1
      <4> QED BY <4>2
    <3>2. h = [k \in 1 .. n |-> h[k]]
      OBVIOUS
    <3> HIDE DEF h
    <3> QED BY <2>6, <3>1, <3>2
  <2>8. Good(n)
    BY <2>7
  <2> QED BY <2>1, <2>8
<1>3. \E g : g = [k \in 1 .. N |-> Reached(t, s, g, k)]
  <2>1. Good(N)
    <3> HIDE DEF Good
    <3> QED BY <1>1, <1>2
  <2> QED BY <2>1
<1>4. Path(t, s) = CHOOSE g : g = [k \in 1 .. N |-> Reached(t, s, g, k)]
  BY DEF Path, Reached, N
<1> QED BY <1>3, <1>4 DEF N

-----------------------------------------------------------------------------
(* Families                                                                *)

\* What a forest says of leaf i.
LEMMA LeafOf ==
  ASSUME NEW t, Forest(t), NEW i \in DOMAIN t
  PROVE  /\ Size(t) \in Nat /\ DOMAIN t = 0 .. Size(t) - 1 /\ i \in Nat
         /\ t[i].parent \in None .. i - 1 /\ t[i].end \in BOOLEAN
         /\ t[i].value \in Chars \cup {Nul} /\ (~t[i].end => t[i].value \in Chars)
         /\ t[i].end <=> t[i].child = 0
         /\ t[i].child \in {0} \cup DOMAIN t /\ t[i].sibling \in {0} \cup DOMAIN t
         /\ ChildLinked(t, i) /\ SiblingLinked(t, i)
BY DEF Forest, Shape

\* Leaf j is where looking along the family from leaf i on for S may stop.
Stopped(t, S, i, j) ==
  /\ j \in DOMAIN t /\ i <= j /\ Family(t, i, j)
  /\ j \in S \/ t[j].sibling = 0
  /\ \A m \in DOMAIN t : Family(t, i, m) /\ i <= m /\ m < j => m \notin S

\* Looking along a family ends in the first that is in S, or in the last of all.
LEMMA AlongIs ==
  ASSUME NEW t, Forest(t), NEW S, NEW i \in DOMAIN t, ~Stray(t, i)
  PROVE  Stopped(t, S, i, Along(t, i, S))
<1> DEFINE N == Size(t)
           Good(j) == ~Stray(t, j) => Stopped(t, S, j, Along(t, j, S))
           Bad == {n \in 0 .. N : N - n \in DOMAIN t /\ ~Good(N - n)}
<1>1. N \in Nat /\ DOMAIN t = 0 .. N - 1
  BY LeafOf
<1> HIDE DEF N
<1>2. Bad = {}
  <2> SUFFICES ASSUME Bad # {} PROVE FALSE
    OBVIOUS
  <2>1. PICK n \in Bad : \A m \in Bad : n <= m
    <3>1. Bad \subseteq Nat
      BY <1>1
    <3> HIDE DEF Bad
    <3> QED BY <3>1, LeastOf
  <2> DEFINE j == N - n
             b == t[j].sibling
  <2>2. n \in 0 .. N /\ j \in DOMAIN t /\ ~Good(j)
    OBVIOUS
  <2>3. ~Stray(t, j)
    BY <2>2
  <2>4. Along(t, j, S) = Stops(t, S, Walk(t, S), j)
    BY <2>2, WalkIs DEF Along
  <2> HIDE DEF j
  <2>5. CASE j \in S \/ b = 0
    <3>1. Along(t, j, S) = j
      BY <2>4, <2>5 DEF Stops
    <3>2. Stopped(t, S, j, j)
      BY <1>1, <2>2, <2>3, <2>5 DEF Stopped, Family
    <3> QED BY <2>2, <3>1, <3>2
  <2>6. CASE ~(j \in S \/ b = 0)
    <3>1. Along(t, j, S) = Along(t, b, S)
      BY <2>4, <2>6 DEF Stops, Along
    <3>2. /\ b \in DOMAIN t /\ j < b /\ Family(t, j, b)
          /\ \A m \in DOMAIN t : j < m /\ Family(t, j, m) => b <= m
      BY <2>2, <2>6, LeafOf DEF SiblingLinked
    <3>3. Good(b)
      <4> DEFINE m == N - b
      <4>1. m \in 0 .. N /\ m < n /\ N - m = b
        BY <1>1, <2>2, <3>2 DEF j
      <4>2. m \notin Bad
        <5> HIDE DEF Bad, m
        <5> QED BY <1>1, <2>1, <2>2, <4>1
      <4> HIDE DEF Good, m
      <4> QED BY <3>2, <4>1, <4>2
    <3>4. Stopped(t, S, b, Along(t, b, S))
      BY <3>2, <3>3 DEF Family
    <3> HIDE DEF b, Good
    <3>5. Stopped(t, S, j, Along(t, b, S))
      <4> DEFINE a == Along(t, b, S)
      <4>1. a \in DOMAIN t /\ j <= a /\ Family(t, j, a) /\ (a \in S \/ t[a].sibling = 0)
        BY <1>1, <2>2, <3>2, <3>4 DEF Stopped, Family
      <4>2. ASSUME NEW m \in DOMAIN t, Family(t, j, m), j <= m, m < a
            PROVE  m \notin S
        <5>1. CASE m = j
          BY <2>6, <5>1 DEF b
        <5>2. CASE m # j
          <6>1. b <= m
            BY <1>1, <2>2, <3>2, <4>2, <5>2
          <6>2. Family(t, b, m)
            BY <3>2, <4>2 DEF Family
          <6> QED BY <3>4, <4>2, <6>1, <6>2 DEF Stopped
        <5> QED BY <5>1, <5>2
      <4> HIDE DEF a
      <4>3. Stopped(t, S, j, a)
        BY <4>1, <4>2 DEF Stopped
      <4> QED BY <4>3 DEF a
    <3> QED BY <2>2, <2>3, <3>1, <3>5 DEF Good
  <2> QED BY <2>5, <2>6
<1>3. Good(i)
  <2> DEFINE n == N - i
  <2>1. n \in 0 .. N /\ N - n = i
    BY <1>1
  <2> HIDE DEF n, Good
  <2> QED BY <1>2, <2>1
<1> QED BY <1>3

\* Leaf i is the first of a family.
First(t, i) ==
  /\ i \in DOMAIN t /\ ~Stray(t, i)
  /\ \A m \in DOMAIN t : Family(t, i, m) => i <= m

\* The last brother has all the others before him.
LEMMA LastIs ==
  ASSUME NEW t, Forest(t), NEW j \in DOMAIN t, t[j].sibling = 0,
         NEW m \in DOMAIN t, Family(t, j, m)
  PROVE  m <= j
BY LeafOf DEF SiblingLinked

\* Looking along a whole family finds a member that is in S, if there is one.
LEMMA AlongAll ==
  ASSUME NEW t, Forest(t), NEW S, NEW i, First(t, i)
  PROVE  LET j == Along(t, i, S) IN
         /\ j \in DOMAIN t /\ Family(t, i, j)
         /\ j \notin S =>
              /\ t[j].sibling = 0
              /\ \A m \in DOMAIN t : Family(t, i, m) => m \notin S
<1> DEFINE j == Along(t, i, S)
<1>1. Stopped(t, S, i, j)
  BY AlongIs DEF First
<1> HIDE DEF j
<1>2. j \in DOMAIN t /\ Family(t, i, j) /\ (j \notin S => t[j].sibling = 0)
  BY <1>1 DEF Stopped
<1>3. ASSUME j \notin S, NEW m \in DOMAIN t, Family(t, i, m)
      PROVE  m \notin S
  <2>1. Family(t, j, m)
    BY <1>2, <1>3 DEF Family
  <2>2. m <= j
    BY <1>2, <1>3, <2>1, LastIs
  <2>3. i <= m
    BY <1>3 DEF First
  <2>4. m # j => m < j
    BY <1>2, <2>2, LeafOf
  <2> QED BY <1>1, <1>3, <2>3, <2>4 DEF Stopped
<1>4. /\ j \in DOMAIN t /\ Family(t, i, j)
      /\ j \notin S => /\ t[j].sibling = 0
                      /\ \A m \in DOMAIN t : Family(t, i, m) => m \notin S
  BY <1>2, <1>3
<1> QED BY <1>4 DEF j

\* The first leaf of all is the first of the top family.
LEMMA TopFirst ==
  ASSUME NEW t, Forest(t), Size(t) > 0
  PROVE  First(t, 0) /\ t[0].parent = None
<1>1. 0 \in DOMAIN t /\ DOMAIN t \subseteq Nat
  BY DEF Forest, Shape
<1>2. t[0].parent = None
  BY <1>1, LeafOf DEF None
<1> QED BY <1>1, <1>2 DEF First, Stray

\* A first child is the first of his family.
LEMMA ChildFirst ==
  ASSUME NEW t, Forest(t), NEW p \in DOMAIN t, t[p].child # 0
  PROVE  LET c == t[p].child IN First(t, c) /\ t[c].parent = p
<1> DEFINE c == t[p].child
<1>1. c \in DOMAIN t /\ t[c].parent = p /\ \A j \in DOMAIN t : t[j].parent = p => c <= j
  BY LeafOf DEF ChildLinked
<1>2. p # None
  BY LeafOf DEF None
<1> HIDE DEF c
<1>3. First(t, c) /\ t[c].parent = p
  BY <1>1, <1>2 DEF First, Family, Stray
<1> QED BY <1>3 DEF c

-----------------------------------------------------------------------------
(* Words and paths                                                         *)

\* The word above leaf i.
Above(t, i) == IF t[i].parent = None THEN <<>> ELSE Words(t)[t[i].parent]

\* A leaf's word is the one above it and its character; an end has none.
LEMMA WordOf ==
  ASSUME NEW t, Forest(t), NEW i \in DOMAIN t
  PROVE  Words(t)[i] = IF t[i].end THEN Above(t, i) ELSE Append(Above(t, i), t[i].value)
BY WordsIs DEF Forest, Spelt, Above

\* A leaf and what is above it spell words.
LEMMA WordsType ==
  ASSUME NEW t, Forest(t), NEW i \in DOMAIN t
  PROVE  Words(t)[i] \in Seq(Chars) /\ Above(t, i) \in Seq(Chars)
<1> DEFINE Bad == {j \in DOMAIN t : Words(t)[j] \notin Seq(Chars)}
<1>1. Bad = {}
  <2> SUFFICES ASSUME Bad # {} PROVE FALSE
    OBVIOUS
  <2>1. PICK j \in Bad : \A m \in Bad : j <= m
    <3>1. Bad \subseteq Nat
      BY LeafOf
    <3> HIDE DEF Bad
    <3> QED BY <3>1, LeastOf
  <2>2. Above(t, j) \in Seq(Chars)
    <3>1. CASE t[j].parent = None
      BY <3>1 DEF Above
    <3>2. CASE t[j].parent # None
      <4> DEFINE p == t[j].parent
      <4>1. p \in DOMAIN t /\ p < j
        BY <3>2, LeafOf DEF None
      <4>2. p \notin Bad
        <5>1. p \in Nat /\ j \in Nat
          BY <4>1, LeafOf
        <5> HIDE DEF Bad, p
        <5> QED BY <2>1, <4>1, <5>1
      <4>3. Words(t)[p] \in Seq(Chars)
        BY <4>1, <4>2
      <4> QED BY <3>2, <4>3 DEF Above
    <3> QED BY <3>1, <3>2
  <2>3. t[j].end \in BOOLEAN /\ (~t[j].end => t[j].value \in Chars)
    BY LeafOf
  <2>4. Words(t)[j] \in Seq(Chars)
    <3>1. Words(t)[j] = IF t[j].end THEN Above(t, j) ELSE Append(Above(t, j), t[j].value)
      BY WordOf
    <3>2. ~t[j].end => Append(Above(t, j), t[j].value) \in Seq(Chars)
      BY <2>2, <2>3, AppendProperties
    <3> QED BY <2>2, <2>3, <3>1, <3>2
  <2> QED BY <2>4
<1>2. \A j \in DOMAIN t : Words(t)[j] \in Seq(Chars)
  BY <1>1
<1>3. t[i].parent # None => t[i].parent \in DOMAIN t
  BY LeafOf DEF None
<1> QED BY <1>2, <1>3 DEF Above

\* Leaf p goes on with c.
Carries(t, p, c) == p \in DOMAIN t /\ ~t[p].end /\ t[p].value = c

\* find_sibling() finds the one brother that goes on with c, or the last of all.
LEMMA FindSiblingIs ==
  ASSUME NEW t, Forest(t), NEW i, First(t, i), NEW c
  PROVE  LET f == FindSibling(t, i, c) IN
         /\ f.found \in BOOLEAN /\ f.item \in DOMAIN t /\ Family(t, i, f.item)
         /\ f.found => Carries(t, f.item, c)
         /\ ~f.found => /\ t[f.item].sibling = 0
                        /\ \A p : Family(t, i, p) => ~Carries(t, p, c)
         /\ \A p : Family(t, i, p) /\ Carries(t, p, c) => f.found /\ f.item = p
<1> DEFINE S == Holding(t, c)
           j == Along(t, i, S)
<1>1. FindSibling(t, i, c) = [found |-> j \in S, item |-> j]
  BY DEF FindSibling
<1>2. \A p : p \in S <=> Carries(t, p, c)
  BY DEF Holding, Carries
<1> HIDE DEF S
<1>3. /\ j \in DOMAIN t /\ Family(t, i, j)
      /\ j \notin S => /\ t[j].sibling = 0
                      /\ \A m \in DOMAIN t : Family(t, i, m) => m \notin S
  BY AlongAll
<1> HIDE DEF j
<1>4. ASSUME NEW p, Family(t, i, p), Carries(t, p, c)
      PROVE  j \in S /\ j = p
  <2>1. j \in S
    BY <1>2, <1>3, <1>4 DEF Carries
  <2>2. Family(t, j, p) /\ Carries(t, j, c)
    BY <1>2, <1>3, <1>4, <2>1 DEF Family
  <2> QED BY <1>4, <2>1, <2>2 DEF Carries, Forest, Distinct
<1> DEFINE f == FindSibling(t, i, c)
<1>5. f.found \in BOOLEAN /\ (f.found <=> j \in S) /\ f.item = j
  <2>1. f.found = (j \in S) /\ f.item = j
    BY <1>1
  <2>2. (j \in S) \in BOOLEAN
    OBVIOUS
  <2> HIDE DEF f
  <2>3. f.found \in BOOLEAN
    BY <2>1, <2>2, Zenon
  <2>4. f.found <=> j \in S
    BY <2>1, Zenon
  <2> QED BY <2>1, <2>3, <2>4
<1>6. /\ j \in S => Carries(t, j, c)
      /\ j \notin S => \A p : Family(t, i, p) => ~Carries(t, p, c)
  BY <1>2, <1>4
<1> HIDE DEF f
<1>7. f.found => Carries(t, f.item, c)
  BY <1>5, <1>6
<1>8. ~f.found => /\ t[f.item].sibling = 0
                  /\ \A p : Family(t, i, p) => ~Carries(t, p, c)
  BY <1>3, <1>5, <1>6
<1>9. \A p : Family(t, i, p) /\ Carries(t, p, c) => f.found /\ f.item = p
  BY <1>4, <1>5
<1>10. f.item \in DOMAIN t /\ Family(t, i, f.item)
  BY <1>3, <1>5
<1> QED BY <1>5, <1>7, <1>8, <1>9, <1>10 DEF f

\* Going down from the family of i with c leads to the children of the one leaf that
\* goes on with c, and nowhere if there is none.
LEMMA DescendIs ==
  ASSUME NEW t, Forest(t), NEW i, First(t, i), NEW c
  PROVE  /\ Descend(t, i, c) # None =>
              \E p : Family(t, i, p) /\ Carries(t, p, c) /\ Descend(t, i, c) = t[p].child
         /\ \A p : Family(t, i, p) /\ Carries(t, p, c) =>
               Descend(t, i, c) = t[p].child /\ t[p].child # None /\ t[p].child # 0
<1> DEFINE f == FindSibling(t, i, c)
<1>1. /\ f.found \in BOOLEAN /\ f.item \in DOMAIN t /\ Family(t, i, f.item)
      /\ f.found => Carries(t, f.item, c)
      /\ \A p : Family(t, i, p) /\ Carries(t, p, c) => f.found /\ f.item = p
  BY FindSiblingIs
<1>2. Descend(t, i, c) = IF f.found /\ t[f.item].child # 0 THEN t[f.item].child ELSE None
  BY DEF Descend
<1>3. \A p : Carries(t, p, c) => t[p].child # 0 /\ t[p].child # None
  BY LeafOf DEF Carries, None
<1> HIDE DEF f
<1> QED BY <1>1, <1>2, <1>3

\* Where going down along a pattern leads, each family is below what came before.
LEMMA PathLeads ==
  ASSUME NEW t, Forest(t), Size(t) > 0, NEW s \in Seq(Chars),
         NEW k \in 1 .. Len(s) + 1, Path(t, s)[k] # None
  PROVE  LET i == Path(t, s)[k] IN First(t, i) /\ Above(t, i) = SubSeq(s, 1, k - 1)
<1> DEFINE Holds1(m) == Path(t, s)[m] # None =>
                         /\ First(t, Path(t, s)[m])
                         /\ Above(t, Path(t, s)[m]) = SubSeq(s, 1, m - 1)
           Bad == {m \in 1 .. Len(s) + 1 : ~Holds1(m)}
<1>1. Len(s) \in Nat
  BY LenProperties
<1>2. Bad = {}
  <2> SUFFICES ASSUME Bad # {} PROVE FALSE
    OBVIOUS
  <2>1. PICK m \in Bad : \A l \in Bad : m <= l
    <3>1. Bad \subseteq Nat
      BY <1>1
    <3> HIDE DEF Bad
    <3> QED BY <3>1, LeastOf
  <2>2. m \in 1 .. Len(s) + 1 /\ ~Holds1(m)
    OBVIOUS
  <2> DEFINE here == Path(t, s)[m]
             before == Path(t, s)[m - 1]
  <2>3. here = IF m = 1 THEN 0 ELSE IF before = None THEN None ELSE Descend(t, before, s[m - 1])
    BY <2>2, PathIs DEF Reached
  <2>4. CASE m = 1
    <3>1. First(t, 0) /\ Above(t, 0) = <<>>
      BY TopFirst DEF Above
    <3>2. SubSeq(s, 1, m - 1) = <<>>
      BY <2>4, SubSeqEmpty
    <3> QED BY <2>2, <2>3, <2>4, <3>1, <3>2
  <2>5. CASE m # 1
    <3>1. m - 1 \in 1 .. Len(s) /\ m - 1 \in 1 .. Len(s) + 1
      BY <1>1, <2>2, <2>5
    <3>2. Holds1(m - 1)
      <4>1. m - 1 \notin Bad
        <5> HIDE DEF Bad
        <5> QED BY <1>1, <2>1, <2>2, <3>1
      <4> HIDE DEF Holds1
      <4> QED BY <3>1, <4>1
    <3>3. here # None /\ before # None /\ here = Descend(t, before, s[m - 1])
      BY <2>2, <2>3, <2>5
    <3>4. First(t, before) /\ Above(t, before) = SubSeq(s, 1, m - 2)
      BY <1>1, <2>2, <3>2, <3>3
    <3> HIDE DEF here, before
    <3>5. PICK p : Family(t, before, p) /\ Carries(t, p, s[m - 1]) /\ here = t[p].child
      <4>1. Descend(t, before, s[m - 1]) # None
        BY <3>3
      <4>2. \E p : /\ Family(t, before, p) /\ Carries(t, p, s[m - 1])
                   /\ Descend(t, before, s[m - 1]) = t[p].child
        BY <3>4, <4>1, DescendIs, SMTT(30)
      <4> QED BY <3>3, <4>2
    <3>6. p \in DOMAIN t /\ ~t[p].end /\ t[p].value = s[m - 1] /\ t[p].child # 0
      BY <3>5, LeafOf DEF Carries
    <3>7. First(t, here) /\ t[here].parent = p
      BY <3>5, <3>6, ChildFirst
    <3>8. Above(t, here) = Words(t)[p]
      BY <3>6, <3>7, LeafOf DEF Above, None
    <3>9. Words(t)[p] = Append(Above(t, p), s[m - 1])
      BY <3>6, WordOf
    <3>10. Above(t, p) = SubSeq(s, 1, m - 2)
      BY <3>4, <3>5 DEF Family, Above
    <3>11. SubSeq(s, 1, m - 1) = Append(SubSeq(s, 1, m - 2), s[m - 1])
      BY <1>1, <2>2, <3>1
    <3> QED BY <2>2, <3>7, <3>8, <3>9, <3>10, <3>11 DEF here
  <2> QED BY <2>4, <2>5
<1>3. Holds1(k)
  <2> HIDE DEF Holds1
  <2> QED BY <1>2
<1> QED BY <1>3

\* Whoever has children is no end.
LEMMA ParentOf ==
  ASSUME NEW t, Forest(t), NEW j \in DOMAIN t, t[j].parent # None
  PROVE  LET p == t[j].parent IN
         /\ p \in DOMAIN t /\ p < j /\ ~t[p].end /\ t[p].child # 0
         /\ First(t, t[p].child) /\ Family(t, t[p].child, j)
<1> DEFINE p == t[j].parent
<1>1. p \in DOMAIN t /\ p < j
  BY LeafOf DEF None
<1>2. t[p].child # 0
  BY <1>1, LeafOf DEF ChildLinked
<1>3. ~t[p].end /\ First(t, t[p].child) /\ t[t[p].child].parent = p
  BY <1>1, <1>2, LeafOf, ChildFirst
<1>4. Family(t, t[p].child, j)
  BY <1>3 DEF Family, First, Stray
<1> HIDE DEF p
<1>5. /\ p \in DOMAIN t /\ p < j /\ ~t[p].end /\ t[p].child # 0
      /\ First(t, t[p].child) /\ Family(t, t[p].child, j)
  BY <1>1, <1>2, <1>3, <1>4
<1> QED BY <1>5 DEF p

\* Going down along a text leads to the children of each leaf whose word it begins with.
LEMMA PathFinds ==
  ASSUME NEW t, Forest(t), NEW s \in Seq(Chars), NEW p \in DOMAIN t, ~t[p].end,
         LET w == Words(t)[p] IN Len(w) <= Len(s) /\ \A m \in 1 .. Len(w) : s[m] = w[m]
  PROVE  Path(t, s)[Len(Words(t)[p]) + 1] = t[p].child
<1> DEFINE W(q) == Words(t)[q]
           Begins(q) == Len(W(q)) <= Len(s) /\ \A m \in 1 .. Len(W(q)) : s[m] = W(q)[m]
           Good(q) == ~t[q].end /\ Begins(q) => Path(t, s)[Len(W(q)) + 1] = t[q].child
           Bad == {q \in DOMAIN t : ~Good(q)}
<1>1. Bad = {}
  <2> SUFFICES ASSUME Bad # {} PROVE FALSE
    OBVIOUS
  <2>1. PICK q \in Bad : \A l \in Bad : q <= l
    <3>1. Bad \subseteq Nat
      BY LeafOf
    <3> HIDE DEF Bad
    <3> QED BY <3>1, LeastOf
  <2>2. q \in DOMAIN t /\ ~Good(q)
    OBVIOUS
  <2>3. ~t[q].end /\ Begins(q)
    BY <2>2
  <2> DEFINE a == Above(t, q)
  <2>4. /\ a \in Seq(Chars) /\ Len(a) \in Nat /\ W(q) = Append(a, t[q].value)
        /\ t[q].value \in Chars
    BY <2>2, <2>3, WordOf, WordsType, LenProperties, LeafOf
  <2> HIDE DEF a
  <2>5. /\ Len(W(q)) = Len(a) + 1 /\ W(q)[Len(a) + 1] = t[q].value
        /\ \A m \in 1 .. Len(a) : W(q)[m] = a[m]
    BY <2>4, AppendProperties
  <2>6. Len(s) \in Nat
    BY LenProperties
  <2>7. /\ Len(a) < Len(s) /\ s[Len(a) + 1] = t[q].value
        /\ \A m \in 1 .. Len(a) : s[m] = a[m]
    <3>1. Len(W(q)) <= Len(s) /\ \A m \in 1 .. Len(W(q)) : s[m] = W(q)[m]
      BY <2>3
    <3> HIDE DEF W, Bad, Begins
    <3>2. Len(a) + 1 <= Len(s) /\ \A m \in 1 .. Len(a) + 1 : s[m] = W(q)[m]
      BY <2>5, <3>1
    <3>3. Len(a) + 1 \in 1 .. Len(a) + 1 /\ 1 .. Len(a) \subseteq 1 .. Len(a) + 1
      BY <2>4
    <3>4. Len(a) < Len(s)
      BY <2>4, <2>6, <3>2
    <3> QED BY <2>5, <3>2, <3>3, <3>4
  <2> DEFINE i == Path(t, s)[Len(a) + 1]
  <2>8. First(t, i) /\ Family(t, i, q) /\ i # None
    <3>1. CASE t[q].parent = None
      <4>1. Len(a) = 0
        BY <3>1, EmptySeq DEF a, Above
      <4>2. i = 0
        BY <2>6, <4>1, PathIs DEF Reached
      <4>3. Size(t) > 0
        BY <2>2, LeafOf
      <4>4. First(t, 0) /\ t[0].parent = None
        BY <4>3, TopFirst
      <4> QED BY <2>3, <3>1, <4>2, <4>4 DEF First, Family, Stray, None
    <3>2. CASE t[q].parent # None
      <4> DEFINE r == t[q].parent
      <4>1. /\ r \in DOMAIN t /\ r < q /\ ~t[r].end /\ t[r].child # 0
            /\ First(t, t[r].child) /\ Family(t, t[r].child, q)
        BY <2>2, <3>2, ParentOf
      <4>2. W(r) = a
        BY <3>2 DEF a, Above
      <4>3. Good(r)
        <5>1. r \notin Bad
          <6>1. r \in Nat /\ q \in Nat
            BY <2>2, <4>1, LeafOf
          <6> HIDE DEF Bad, r
          <6> QED BY <2>1, <4>1, <6>1
        <5> HIDE DEF Good
        <5> QED BY <4>1, <5>1
      <4>4. Begins(r)
        <5> HIDE DEF W
        <5> QED BY <2>4, <2>6, <2>7, <4>2
      <4>5. i = t[r].child
        <5> HIDE DEF W, Begins
        <5> QED BY <4>1, <4>2, <4>3, <4>4
      <4>6. t[r].child # None
        BY <4>1 DEF First, None, Forest, Shape
      <4> QED BY <4>1, <4>5, <4>6
    <3> QED BY <3>1, <3>2
  <2>9. Descend(t, i, t[q].value) = t[q].child
    <3>1. Carries(t, q, t[q].value)
      BY <2>2, <2>3 DEF Carries
    <3> HIDE DEF i
    <3> QED BY <2>8, <3>1, DescendIs
  <2>10. Path(t, s)[Len(a) + 2] = Descend(t, i, s[Len(a) + 1])
    <3>1. Len(a) + 2 \in 1 .. Len(s) + 1 /\ Len(a) + 2 # 1 /\ Len(a) + 2 - 1 = Len(a) + 1
      BY <2>4, <2>6, <2>7
    <3>2. Path(t, s)[Len(a) + 2] = Reached(t, s, Path(t, s), Len(a) + 2)
      BY <3>1, PathIs
    <3> QED BY <2>8, <3>1, <3>2 DEF Reached
  <2>11. Path(t, s)[Len(W(q)) + 1] = t[q].child
    <3> HIDE DEF W, i
    <3> QED BY <2>4, <2>5, <2>7, <2>9, <2>10
  <2> QED BY <2>2, <2>11
<1>2. Good(p)
  <2> HIDE DEF Good
  <2> QED BY <1>1
<1> QED BY <1>2

\* A search that goes to its end is for a pattern of the tree, and the other way round.
LEMMA MemberIsStored ==
  ASSUME NEW t, Forest(t), NEW s \in Seq(Chars), s # <<>>
  PROVE  Member(t, s) <=> s \in Stored(t)
<1>1. Len(s) \in Nat \ {0}
  BY EmptySeq
<1> DEFINE i == Path(t, s)[Len(s) + 1]
<1>2. EndAmong(t, i) = LET j == Along(t, i, Ends(t)) IN IF j \in Ends(t) THEN j ELSE None
  BY DEF EndAmong
<1>3. ASSUME Member(t, s)
      PROVE  s \in Stored(t)
  <2>1. Size(t) > 0 /\ i # None /\ EndAmong(t, i) # None
    BY <1>3 DEF Member
  <2>2. Len(s) + 1 \in 1 .. Len(s) + 1
    BY <1>1
  <2>3. First(t, i) /\ Above(t, i) = SubSeq(s, 1, Len(s) + 1 - 1)
    BY <2>1, <2>2, PathLeads
  <2>4. SubSeq(s, 1, Len(s) + 1 - 1) = s
    BY <1>1, SubSeqFull
  <2> HIDE DEF i
  <2> DEFINE j == Along(t, i, Ends(t))
  <2>5. j \in Ends(t) /\ j \in DOMAIN t /\ Family(t, i, j)
    BY <1>2, <2>1, <2>3, AlongAll
  <2> HIDE DEF j
  <2>6. Words(t)[j] = Above(t, i)
    <3>1. t[j].end
      BY <2>5 DEF Ends
    <3>2. Words(t)[j] = Above(t, j)
      BY <2>5, <3>1, WordOf
    <3> QED BY <2>5, <3>2 DEF Above, Family
  <2> QED BY <2>3, <2>4, <2>5, <2>6 DEF Stored
<1>4. ASSUME s \in Stored(t)
      PROVE  Member(t, s)
  <2>1. PICK e \in Ends(t) : Words(t)[e] = s
    BY <1>4 DEF Stored
  <2>2. e \in DOMAIN t /\ t[e].end
    BY DEF Ends
  <2>3. Above(t, e) = s
    BY <2>1, <2>2, WordOf
  <2>4. t[e].parent # None
    BY <2>3 DEF Above
  <2> DEFINE p == t[e].parent
  <2>5. /\ p \in DOMAIN t /\ ~t[p].end /\ t[p].child # 0
        /\ First(t, t[p].child) /\ Family(t, t[p].child, e)
    BY <2>2, <2>4, ParentOf
  <2>6. Words(t)[p] = s
    BY <2>3, <2>4 DEF Above
  <2> HIDE DEF p
  <2>7. i = t[p].child
    BY <1>1, <2>5, <2>6, PathFinds
  <2> HIDE DEF i
  <2>8. EndAmong(t, i) # None
    <3> DEFINE j == Along(t, i, Ends(t))
    <3>1. j \in DOMAIN t /\ j \in Ends(t)
      BY <2>2, <2>5, <2>7, AlongAll
    <3>2. j # None
      BY <3>1, LeafOf DEF None
    <3> HIDE DEF j
    <3> QED BY <1>2, <3>1, <3>2 DEF j
  <2>9. Size(t) > 0 /\ i # None
    BY <2>2, <2>5, <2>7, LeafOf DEF First, None
  <2> QED BY <2>8, <2>9 DEF Member, i
<1> QED BY <1>3, <1>4

-----------------------------------------------------------------------------
(* A pattern's rest is attached                                            *)

\* Where the rest of s from the k-th character on belongs: behind leaf j, the last of
\* a family whose leaves the beginning of s leads to and none of which goes on as s
\* does.  It belongs to no family when j is none.
Fits(t, j, s, k) ==
  /\ k \in 1 .. Len(s) + 1
  /\ j = None => k = 1 /\ (Size(t) = 0 \/ s = <<>>)
  /\ j # None =>
       /\ j \in DOMAIN t /\ ~Stray(t, j) /\ t[j].sibling = 0
       /\ Above(t, j) = SubSeq(s, 1, k - 1)
       /\ k <= Len(s) => \A m : Family(t, j, m) => ~Carries(t, m, s[k])
       /\ t[j].parent = None => k <= Len(s)

Parent(t, j) == IF j = None THEN None ELSE t[j].parent

\* Array u is t with the rest of s behind leaf j.
Attached(t, u, j, s, k) ==
  LET n == Size(t)
      e == n + Len(s) - k + 1
  IN  /\ Size(u) = e + 1 /\ DOMAIN u = 0 .. e
      /\ \A i \in DOMAIN t : u[i] = IF i = j THEN [t[i] EXCEPT !.sibling = n] ELSE t[i]
      /\ \A i \in n .. e :
           u[i] = [value |-> IF i = e THEN Nul ELSE s[k + i - n], end |-> (i = e),
                   parent |-> IF i = n THEN Parent(t, j) ELSE i - 1,
                   child |-> IF i = e THEN 0 ELSE i + 1, sibling |-> 0]

\* The fields of an array with a rest attached.
LEMMA AttachedFields ==
  ASSUME NEW t, Forest(t), NEW s \in Seq(Chars), NEW j, NEW k, Fits(t, j, s, k),
         NEW u, Attached(t, u, j, s, k)
  PROVE  LET n == Size(t)
             e == n + Len(s) - k + 1 IN
         /\ n \in Nat /\ e \in Nat /\ n <= e /\ DOMAIN t = 0 .. n - 1 /\ DOMAIN u = 0 .. e
         /\ Size(u) = e + 1 /\ Len(s) \in Nat /\ k \in 1 .. Len(s) + 1
         /\ \A i \in 0 .. n - 1 :
              /\ u[i].value = t[i].value /\ u[i].end = t[i].end
              /\ u[i].parent = t[i].parent /\ u[i].child = t[i].child
              /\ u[i].sibling = IF i = j THEN n ELSE t[i].sibling
              /\ u[i] \in [value : Chars \cup {Nul}, end : BOOLEAN, parent : None .. i - 1,
                           child : {0} \cup DOMAIN u, sibling : {0} \cup DOMAIN u]
              /\ Stray(u, i) <=> Stray(t, i)
         /\ \A i \in n .. e :
              /\ u[i].value = (IF i = e THEN Nul ELSE s[k + i - n]) /\ (u[i].end <=> i = e)
              /\ u[i].end \in BOOLEAN
              /\ u[i].parent = (IF i = n THEN Parent(t, j) ELSE i - 1)
              /\ u[i].child = (IF i = e THEN 0 ELSE i + 1) /\ u[i].sibling = 0
              /\ u[i] \in [value : Chars \cup {Nul}, end : BOOLEAN, parent : None .. i - 1,
                           child : {0} \cup DOMAIN u, sibling : {0} \cup DOMAIN u]
              /\ i # e => u[i].value \in Chars
              /\ Stray(u, i) <=> i = n /\ j = None /\ n # 0
         /\ Parent(t, j) \in None .. n - 1
<1> DEFINE n == Size(t)
           e == n + Len(s) - k + 1
           Typed(i) == u[i] \in [value : Chars \cup {Nul}, end : BOOLEAN, parent : None .. i - 1,
                                 child : {0} \cup DOMAIN u, sibling : {0} \cup DOMAIN u]
<1>1. /\ n \in Nat /\ Len(s) \in Nat /\ k \in 1 .. Len(s) + 1
      /\ DOMAIN t = 0 .. n - 1 /\ DOMAIN u = 0 .. e /\ Size(u) = e + 1
  BY LenProperties DEF Forest, Shape, Fits, Attached
<1>2. /\ \A i \in DOMAIN t : u[i] = IF i = j THEN [t[i] EXCEPT !.sibling = n] ELSE t[i]
      /\ \A i \in n .. e :
           u[i] = [value |-> IF i = e THEN Nul ELSE s[k + i - n], end |-> (i = e),
                   parent |-> IF i = n THEN Parent(t, j) ELSE i - 1,
                   child |-> IF i = e THEN 0 ELSE i + 1, sibling |-> 0]
  BY DEF Attached
<1> HIDE DEF n
<1>3. e \in Nat /\ n <= e
  BY <1>1
<1> HIDE DEF e
<1>4. Parent(t, j) \in None .. n - 1
  <2>1. j # None => j \in DOMAIN t
    BY DEF Fits
  <2>2. j # None => t[j].parent \in None .. j - 1
    BY <2>1, LeafOf
  <2> QED BY <1>1, <2>1, <2>2 DEF Parent, None
<1>5. ASSUME NEW i \in 0 .. n - 1
      PROVE  /\ u[i].value = t[i].value /\ u[i].end = t[i].end
             /\ u[i].parent = t[i].parent /\ u[i].child = t[i].child
             /\ u[i].sibling = IF i = j THEN n ELSE t[i].sibling
             /\ Typed(i) /\ (Stray(u, i) <=> Stray(t, i))
  <2>1. t[i] \in [value : Chars \cup {Nul}, end : BOOLEAN, parent : None .. i - 1,
                  child : {0} \cup DOMAIN t, sibling : {0} \cup DOMAIN t]
    BY <1>1 DEF Forest, Shape
  <2>2. u[i] = IF i = j THEN [t[i] EXCEPT !.sibling = n] ELSE t[i]
    BY <1>1, <1>2
  <2>3. DOMAIN t \subseteq DOMAIN u /\ n \in DOMAIN u
    BY <1>1, <1>3
  <2>4. /\ u[i].value = t[i].value /\ u[i].end = t[i].end
        /\ u[i].parent = t[i].parent /\ u[i].child = t[i].child
        /\ u[i].sibling = IF i = j THEN n ELSE t[i].sibling
    BY <2>1, <2>2
  <2>5. Typed(i)
    BY <2>1, <2>2, <2>3
  <2> QED BY <2>4, <2>5 DEF Stray
<1>6. ASSUME NEW i \in n .. e
      PROVE  /\ u[i].value = (IF i = e THEN Nul ELSE s[k + i - n])
             /\ (u[i].end <=> i = e) /\ u[i].end \in BOOLEAN
             /\ u[i].parent = (IF i = n THEN Parent(t, j) ELSE i - 1)
             /\ u[i].child = (IF i = e THEN 0 ELSE i + 1) /\ u[i].sibling = 0
             /\ Typed(i)
             /\ i # e => u[i].value \in Chars
             /\ Stray(u, i) <=> i = n /\ j = None /\ n # 0
  <2>1. u[i] = [value |-> IF i = e THEN Nul ELSE s[k + i - n], end |-> (i = e),
                parent |-> IF i = n THEN Parent(t, j) ELSE i - 1,
                child |-> IF i = e THEN 0 ELSE i + 1, sibling |-> 0]
    BY <1>2
  <2>2. /\ u[i].value = (IF i = e THEN Nul ELSE s[k + i - n])
        /\ (u[i].end <=> i = e) /\ u[i].end \in BOOLEAN
        /\ u[i].parent = (IF i = n THEN Parent(t, j) ELSE i - 1)
        /\ u[i].child = (IF i = e THEN 0 ELSE i + 1) /\ u[i].sibling = 0
    <3>1. u[i].end = (i = e)
      BY <2>1
    <3>2. (i = e) \in BOOLEAN
      OBVIOUS
    <3>3. (u[i].end <=> i = e) /\ u[i].end \in BOOLEAN
      BY <3>1, <3>2, Zenon
    <3>4. /\ u[i].value = (IF i = e THEN Nul ELSE s[k + i - n])
          /\ u[i].parent = (IF i = n THEN Parent(t, j) ELSE i - 1)
          /\ u[i].child = (IF i = e THEN 0 ELSE i + 1) /\ u[i].sibling = 0
      BY <2>1
    <3> QED BY <3>3, <3>4
  <2>3. i # e => s[k + i - n] \in Chars
    <3>1. i # e => k + i - n \in 1 .. Len(s)
      BY <1>1, <1>3 DEF e
    <3> QED BY <3>1, ElementOfSeq
  <2>4. Typed(i)
    <3>1. (IF i = e THEN Nul ELSE s[k + i - n]) \in Chars \cup {Nul}
      BY <2>3
    <3>2. (IF i = n THEN Parent(t, j) ELSE i - 1) \in None .. i - 1
      BY <1>1, <1>3, <1>4 DEF None
    <3>3. (IF i = e THEN 0 ELSE i + 1) \in {0} \cup DOMAIN u
      BY <1>1, <1>3
    <3>4. (i = e) \in BOOLEAN
      OBVIOUS
    <3> QED BY <2>1, <3>1, <3>2, <3>3, <3>4
  <2>5. Stray(u, i) <=> i = n /\ j = None /\ n # 0
    <3>1. i # n => u[i].parent # None
      BY <1>1, <1>3, <2>2 DEF None
    <3>2. ASSUME i = n, j = None
          PROVE  (i = e /\ Parent(t, j) = None) \/ n = 0
      <4>1. k = 1 /\ (n = 0 \/ s = <<>>)
        BY <3>2 DEF Fits, n
      <4>2. s = <<>> => Len(s) = 0
        BY EmptySeq
      <4> QED BY <1>1, <3>2, <4>1, <4>2 DEF e, Parent
    <3>3. ASSUME i = n, j # None, Parent(t, j) = None
          PROVE  i # e
      <4>1. k <= Len(s)
        BY <3>3 DEF Fits, Parent
      <4> QED BY <1>1, <3>3, <4>1 DEF e
    <3> QED BY <2>2, <3>1, <3>2, <3>3 DEF Stray
  <2> QED BY <2>2, <2>3, <2>4, <2>5
<1> HIDE DEF Typed
<1>7. /\ n \in Nat /\ e \in Nat /\ n <= e /\ DOMAIN t = 0 .. n - 1 /\ DOMAIN u = 0 .. e
      /\ Size(u) = e + 1 /\ Len(s) \in Nat /\ k \in 1 .. Len(s) + 1
  BY <1>1, <1>3
<1> QED BY <1>4, <1>5, <1>6, <1>7 DEF n, e, Typed

\* An array with a rest attached is a forest again.
LEMMA AttachedForest ==
  ASSUME NEW t, Forest(t), NEW s \in Seq(Chars), NEW j, NEW k, Fits(t, j, s, k),
         NEW u, Attached(t, u, j, s, k)
  PROVE  Forest(u)
<1> DEFINE n == Size(t)
           e == n + Len(s) - k + 1
<1>1. /\ n \in Nat /\ e \in Nat /\ n <= e /\ DOMAIN t = 0 .. n - 1 /\ DOMAIN u = 0 .. e
      /\ Size(u) = e + 1 /\ Len(s) \in Nat /\ k \in 1 .. Len(s) + 1
  BY AttachedFields
<1>2. \A i \in 0 .. n - 1 :
        /\ u[i].value = t[i].value /\ u[i].end = t[i].end
        /\ u[i].parent = t[i].parent /\ u[i].child = t[i].child
        /\ u[i].sibling = IF i = j THEN n ELSE t[i].sibling
        /\ u[i] \in [value : Chars \cup {Nul}, end : BOOLEAN, parent : None .. i - 1,
                     child : {0} \cup DOMAIN u, sibling : {0} \cup DOMAIN u]
        /\ Stray(u, i) <=> Stray(t, i)
  BY AttachedFields
<1>3. \A i \in n .. e :
        /\ u[i].value = (IF i = e THEN Nul ELSE s[k + i - n]) /\ (u[i].end <=> i = e)
        /\ u[i].parent = (IF i = n THEN Parent(t, j) ELSE i - 1)
        /\ u[i].child = (IF i = e THEN 0 ELSE i + 1) /\ u[i].sibling = 0
        /\ u[i] \in [value : Chars \cup {Nul}, end : BOOLEAN, parent : None .. i - 1,
                     child : {0} \cup DOMAIN u, sibling : {0} \cup DOMAIN u]
        /\ i # e => u[i].value \in Chars
        /\ Stray(u, i) <=> i = n /\ j = None /\ n # 0
  BY AttachedFields
<1>4. Parent(t, j) \in None .. n - 1
  BY AttachedFields
<1>5. j # None => /\ j \in 0 .. n - 1 /\ ~Stray(t, j) /\ t[j].sibling = 0
                  /\ Parent(t, j) = t[j].parent
  BY <1>1 DEF Fits, Parent
<1>6. k <= Len(s) /\ j # None => \A m : Family(t, j, m) => ~Carries(t, m, s[k])
  BY DEF Fits
<1>7. \A i \in 0 .. n - 1 :
        /\ t[i].parent \in None .. i - 1 /\ t[i].child \in 0 .. n - 1 /\ t[i].sibling \in 0 .. n - 1
        /\ (t[i].end <=> t[i].child = 0) /\ (~t[i].end => t[i].value \in Chars)
        /\ ChildLinked(t, i) /\ SiblingLinked(t, i)
  <2> TAKE i \in 0 .. n - 1
  <2>1. i \in DOMAIN t
    BY <1>1
  <2>2. {0} \cup DOMAIN t = 0 .. n - 1
    BY <1>1
  <2> QED BY <2>1, <2>2, LeafOf
<1>8. \A m \in 0 .. n - 1 : j # None /\ Family(t, j, m) => m <= j
  BY <1>1, <1>5, LastIs
<1>9. \A i \in 0 .. e : i < n \/ i \in n .. e
  BY <1>1
<1> HIDE DEF n
<1>10. k + n - n = k /\ (k <= Len(s) <=> n # e)
  BY <1>1 DEF e
<1> HIDE DEF e
<1>11. Shape(u)
  <2>1. Size(u) \in Nat /\ DOMAIN u = 0 .. Size(u) - 1
    BY <1>1
  <2>2. ASSUME NEW i \in DOMAIN u
        PROVE  /\ u[i] \in [value : Chars \cup {Nul}, end : BOOLEAN, parent : None .. i - 1,
                            child : {0} \cup DOMAIN u, sibling : {0} \cup DOMAIN u]
               /\ ~u[i].end => u[i].value \in Chars
               /\ u[i].end <=> u[i].child = 0
    <3>1. CASE i < n
      <4>1. i \in 0 .. n - 1
        BY <1>1, <3>1
      <4> QED BY <1>2, <1>7, <4>1
    <3>2. CASE i \in n .. e
      <4>1. i + 1 # 0
        BY <1>1, <3>2
      <4> QED BY <1>3, <3>2, <4>1
    <3> QED BY <1>1, <3>1, <3>2
  <2> QED BY <2>1, <2>2 DEF Shape
\* Who is whose brother.
<1>12. \A a, b \in 0 .. n - 1 : Family(u, a, b) <=> Family(t, a, b)
  BY <1>2 DEF Family
<1>13. ASSUME NEW a \in 0 .. n - 1, NEW b \in n .. e
       PROVE  /\ Family(u, a, b) <=> b = n /\ j # None /\ Family(t, a, j)
              /\ Family(u, b, a) <=> Family(u, a, b)
  <2>1. a \in Nat /\ n # 0 /\ t[a].parent < n
    BY <1>1, <1>7 DEF None
  <2>2. Family(u, a, b) <=> t[a].parent = u[b].parent /\ ~Stray(t, a) /\ ~Stray(u, b)
    BY <1>2 DEF Family
  <2>3. b # n => u[b].parent >= n
    BY <1>1, <1>3
  <2>4. b # n => t[a].parent # u[b].parent
    BY <1>1, <1>7, <2>1, <2>3 DEF None
  <2>5. b = n => /\ Stray(u, b) <=> j = None
                 /\ u[b].parent = Parent(t, j)
    BY <1>3, <2>1
  <2> QED BY <1>5, <2>2, <2>4, <2>5 DEF Family
<1>14. ASSUME NEW a \in n .. e, NEW b \in n .. e, a # b
       PROVE  ~Family(u, a, b)
  <2>1. u[a].parent = (IF a = n THEN Parent(t, j) ELSE a - 1)
    BY <1>3
  <2>2. u[b].parent = (IF b = n THEN Parent(t, j) ELSE b - 1)
    BY <1>3
  <2>3. u[a].parent # u[b].parent
    BY <1>1, <1>4, <1>14, <2>1, <2>2 DEF None
  <2> QED BY <2>3 DEF Family
<1>15. ASSUME NEW i \in DOMAIN u
       PROVE  ChildLinked(u, i)
  <2>1. CASE i < n
    <3> DEFINE c == t[i].child
    <3>1. i \in 0 .. n - 1 /\ u[i].child = c /\ c \in 0 .. n - 1
      BY <1>1, <1>2, <1>7, <2>1
    <3>2. c # 0 => t[c].parent = i
      BY <1>7, <3>1 DEF ChildLinked
    <3>3. \A x \in 0 .. n - 1 : t[x].parent = i => c # 0 /\ c <= x
      BY <1>1, <1>7, <3>1 DEF ChildLinked
    <3> HIDE DEF c
    <3>4. c # 0 => u[c].parent = i
      BY <1>2, <3>1, <3>2
    <3>5. ASSUME NEW x \in DOMAIN u, u[x].parent = i
          PROVE  c # 0 /\ c <= x
      <4>1. CASE x < n
        <5>1. x \in 0 .. n - 1
          BY <1>1, <4>1
        <5> QED BY <1>2, <3>3, <3>5, <5>1
      <4>2. CASE x = n
        <5>1. Parent(t, j) = i
          BY <1>1, <1>3, <3>5, <4>2, SMTT(30)
        <5>2. j \in 0 .. n - 1 /\ t[j].parent = i
          BY <1>1, <1>5, <3>1, <5>1 DEF Parent, None
        <5>3. c # 0 /\ c <= j
          BY <3>3, <5>2
        <5> QED BY <1>1, <3>1, <4>2, <5>2, <5>3
      <4>3. CASE x > n
        <5>1. u[x].parent = x - 1
          BY <1>1, <1>3, <4>3
        <5> QED BY <1>1, <2>1, <3>5, <4>3, <5>1
      <4> QED BY <1>1, <4>1, <4>2, <4>3
    <3> QED BY <3>1, <3>4, <3>5 DEF ChildLinked
  <2>2. CASE i \in n .. e
    <3>1. u[i].child = (IF i = e THEN 0 ELSE i + 1)
      BY <1>3, <2>2
    <3>2. i # e => i + 1 \in n .. e /\ i + 1 # n
      BY <1>1, <2>2
    <3>3. i # e => u[i + 1].parent = i
      BY <1>1, <1>3, <2>2, <3>2
    <3>4. ASSUME NEW x \in DOMAIN u, u[x].parent = i
          PROVE  i # e /\ x = i + 1
      <4>1. CASE x < n
        <5>1. x \in 0 .. n - 1
          BY <1>1, <4>1
        <5>2. u[x].parent \in None .. x - 1
          BY <1>2, <1>7, <5>1
        <5> QED BY <1>1, <2>2, <3>4, <5>1, <5>2 DEF None
      <4>2. CASE x = n
        <5>1. Parent(t, j) = i
          BY <1>1, <1>3, <3>4, <4>2, SMTT(30)
        <5> QED BY <1>1, <1>4, <2>2, <5>1 DEF None
      <4>3. CASE x > n
        <5>1. u[x].parent = x - 1
          BY <1>1, <1>3, <4>3
        <5> QED BY <1>1, <2>2, <3>4, <4>3, <5>1
      <4> QED BY <1>1, <4>1, <4>2, <4>3
    <3>5. i + 1 # 0 /\ i + 1 <= i + 1
      BY <1>1, <2>2
    <3> QED BY <3>1, <3>3, <3>4, <3>5 DEF ChildLinked
  <2> QED BY <1>1, <2>1, <2>2
<1>16. ASSUME NEW i \in DOMAIN u
       PROVE  SiblingLinked(u, i)
  <2>1. CASE i < n
    <3>1. i \in 0 .. n - 1 /\ u[i].sibling = IF i = j THEN n ELSE t[i].sibling
      BY <1>1, <1>2, <2>1
    <3>2. CASE i = j
      <4>1. j # None
        BY <1>1, <3>1, <3>2 DEF None
      <4>2. Family(u, i, n)
        BY <1>1, <1>5, <1>13, <3>1, <3>2, <4>1 DEF Family
      <4>3. ASSUME NEW x \in DOMAIN u, i < x, Family(u, i, x)
            PROVE  n <= x
        <5>1. SUFFICES ASSUME x < n PROVE FALSE
          BY <1>1
        <5>2. x \in 0 .. n - 1 /\ Family(t, j, x)
          BY <1>1, <1>12, <3>1, <3>2, <4>3, <5>1
        <5>3. x <= j
          BY <1>8, <4>1, <5>2
        <5> QED BY <1>1, <3>1, <3>2, <4>3, <5>2, <5>3
      <4>4. n # 0 /\ i < n
        BY <1>1, <2>1
      <4> QED BY <3>1, <3>2, <4>2, <4>3, <4>4 DEF SiblingLinked
    <3>3. CASE i # j
      <4> DEFINE b == t[i].sibling
      <4>1. u[i].sibling = b /\ b \in 0 .. n - 1
        BY <1>7, <3>1, <3>3
      <4>2. b # 0 => i < b /\ Family(t, i, b)
        BY <1>7, <3>1 DEF SiblingLinked
      <4>3. \A x \in 0 .. n - 1 : i < x /\ Family(t, i, x) => b # 0 /\ b <= x
        BY <1>1, <1>7, <3>1 DEF SiblingLinked
      <4> HIDE DEF b
      <4>4. b # 0 => i < b /\ Family(u, i, b)
        BY <1>12, <3>1, <4>1, <4>2
      <4>5. ASSUME NEW x \in DOMAIN u, i < x, Family(u, i, x)
            PROVE  b # 0 /\ b <= x
        <5>1. CASE x < n
          <6>1. x \in 0 .. n - 1
            BY <1>1, <5>1
          <6> QED BY <1>12, <3>1, <4>3, <4>5, <6>1
        <5>2. CASE ~(x < n)
          <6>1. x \in n .. e
            BY <1>1, <5>2
          <6>2. x = n /\ j # None /\ Family(t, i, j)
            BY <1>13, <3>1, <4>5, <6>1
          <6>3. j \in 0 .. n - 1
            BY <1>5, <6>2
          <6>4. Family(t, j, i)
            BY <6>2 DEF Family
          <6>5. i <= j
            BY <1>8, <3>1, <6>2, <6>4
          <6>6. i < j
            BY <1>1, <3>1, <3>3, <6>3, <6>5
          <6>7. b # 0 /\ b <= j
            BY <4>3, <6>2, <6>3, <6>6
          <6> QED BY <1>1, <4>1, <6>2, <6>3, <6>7
        <5> QED BY <5>1, <5>2
      <4> QED BY <4>1, <4>4, <4>5 DEF SiblingLinked
    <3> QED BY <3>2, <3>3
  <2>2. CASE i \in n .. e
    <3>1. u[i].sibling = 0
      BY <1>3, <2>2
    <3>2. ASSUME NEW x \in DOMAIN u, i < x
          PROVE  ~Family(u, i, x)
      <4>1. x \in n .. e /\ x # i
        BY <1>1, <2>2, <3>2
      <4> QED BY <1>14, <2>2, <4>1
    <3> QED BY <3>1, <3>2 DEF SiblingLinked
  <2> QED BY <1>1, <2>1, <2>2
<1>17. Distinct(u)
  <2> DEFINE Like(a, b) == /\ Family(u, a, b) /\ ~u[a].end /\ ~u[b].end
                           /\ u[a].value = u[b].value
  <2>1. ASSUME NEW a \in 0 .. n - 1, NEW b \in 0 .. n - 1, Like(a, b)
        PROVE  a = b
    <3>1. a \in DOMAIN t /\ b \in DOMAIN t /\ Family(t, a, b)
      BY <1>1, <1>12, <2>1
    <3>2. ~t[a].end /\ ~t[b].end /\ t[a].value = t[b].value
      BY <1>2, <2>1
    <3> QED BY <3>1, <3>2 DEF Forest, Distinct
  <2>2. ASSUME NEW a \in 0 .. n - 1, NEW b \in n .. e, Like(a, b)
        PROVE  FALSE
    <3>1. b = n /\ j # None /\ Family(t, a, j)
      BY <1>13, <2>2
    <3>2. n # e /\ n \in n .. e
      BY <1>1, <1>3, <2>2, <3>1
    <3>3. u[n].value = s[k] /\ k <= Len(s)
      BY <1>3, <1>10, <3>2
    <3>4. Family(t, j, a) /\ Carries(t, a, s[k])
      BY <1>1, <1>2, <2>2, <3>1, <3>3 DEF Family, Carries
    <3> QED BY <1>6, <3>1, <3>3, <3>4
  <2>3. ASSUME NEW a \in DOMAIN u, NEW b \in DOMAIN u, Like(a, b)
        PROVE  a = b
    <3>1. a \in 0 .. n - 1 \/ a \in n .. e
      BY <1>1
    <3>2. b \in 0 .. n - 1 \/ b \in n .. e
      BY <1>1
    <3>3. CASE a \in 0 .. n - 1
      BY <2>1, <2>2, <2>3, <3>2, <3>3
    <3>4. CASE a \in n .. e /\ b \in 0 .. n - 1
      <4>1. Like(b, a)
        BY <2>3 DEF Family
      <4> HIDE DEF Like
      <4> QED BY <2>2, <3>4, <4>1
    <3>5. CASE a \in n .. e /\ b \in n .. e
      BY <1>14, <2>3, <3>5
    <3> QED BY <3>1, <3>2, <3>3, <3>4, <3>5
  <2> QED BY <2>3 DEF Distinct
<1> QED BY <1>11, <1>15, <1>16, <1>17 DEF Forest

\* A prefix and the character after it.
LEMMA PrefixGrows ==
  ASSUME NEW s \in Seq(Chars), NEW m \in 1 .. Len(s)
  PROVE  SubSeq(s, 1, m) = Append(SubSeq(s, 1, m - 1), s[m])
BY LenProperties

\* The words of the leaves there were stay; above each new leaf are the characters of s
\* that come before its own.
LEMMA AttachedWords ==
  ASSUME NEW t, Forest(t), NEW s \in Seq(Chars), NEW j, NEW k, Fits(t, j, s, k),
         NEW u, Attached(t, u, j, s, k)
  PROVE  /\ \A i \in DOMAIN t : Words(u)[i] = Words(t)[i]
         /\ \A i \in Size(t) .. Size(t) + Len(s) - k + 1 :
              Above(u, i) = SubSeq(s, 1, k - 1 + i - Size(t))
<1> DEFINE n == Size(t)
           e == n + Len(s) - k + 1
<1>1. /\ n \in Nat /\ e \in Nat /\ n <= e /\ DOMAIN t = 0 .. n - 1 /\ DOMAIN u = 0 .. e
      /\ Len(s) \in Nat /\ k \in 1 .. Len(s) + 1
  BY AttachedFields
<1>2. \A i \in 0 .. n - 1 :
        u[i].value = t[i].value /\ u[i].end = t[i].end /\ u[i].parent = t[i].parent
  BY AttachedFields, SMTT(30)
<1>3. \A i \in n .. e :
        /\ u[i].value = (IF i = e THEN Nul ELSE s[k + i - n]) /\ (u[i].end <=> i = e)
        /\ u[i].parent = (IF i = n THEN Parent(t, j) ELSE i - 1)
  BY AttachedFields
<1>4. Forest(u)
  BY AttachedForest
<1>5. j = None => k = 1
  BY DEF Fits
<1>6. j # None => j \in 0 .. n - 1 /\ Above(t, j) = SubSeq(s, 1, k - 1)
  BY <1>1 DEF Fits
<1>10. j # None => t[j].parent \in None .. n - 1
  <2> SUFFICES ASSUME j # None PROVE t[j].parent \in None .. n - 1
    OBVIOUS
  <2>1. j \in DOMAIN t /\ j \in 0 .. n - 1
    BY <1>1, <1>6
  <2>2. t[j].parent \in None .. j - 1
    BY <2>1, LeafOf
  <2> HIDE DEF n
  <2> QED BY <1>1, <2>1, <2>2 DEF None
<1> HIDE DEF n
<1>7. e - n = Len(s) - k + 1
  BY <1>1
<1> HIDE DEF e
<1>8. \A i \in 0 .. n - 1 : Words(u)[i] = Words(t)[i]
  <2> DEFINE Bad == {i \in 0 .. n - 1 : Words(u)[i] # Words(t)[i]}
  <2> SUFFICES ASSUME Bad # {} PROVE FALSE
    OBVIOUS
  <2>1. PICK i \in Bad : \A l \in Bad : i <= l
    <3>1. Bad \subseteq Nat
      BY <1>1
    <3> HIDE DEF Bad
    <3> QED BY <3>1, LeastOf
  <2>2. i \in 0 .. n - 1 /\ i \in DOMAIN t /\ i \in DOMAIN u /\ Words(u)[i] # Words(t)[i]
    BY <1>1
  <2>3. Above(u, i) = Above(t, i)
    <3> DEFINE p == t[i].parent
    <3>1. u[i].parent = p
      BY <1>2, <2>2
    <3>2. ASSUME p # None
          PROVE  Words(u)[p] = Words(t)[p]
      <4>1. p \in 0 .. n - 1 /\ p < i
        BY <1>1, <2>2, <3>2, LeafOf DEF None
      <4>2. p \notin Bad
        <5> HIDE DEF Bad, p
        <5> QED BY <1>1, <2>1, <2>2, <4>1
      <4> QED BY <4>1, <4>2
    <3> QED BY <3>1, <3>2 DEF Above
  <2>4. u[i].end = t[i].end /\ u[i].value = t[i].value
    BY <1>2, <2>2
  <2> QED BY <1>4, <2>2, <2>3, <2>4, WordOf
<1>9. \A i \in n .. e : Above(u, i) = SubSeq(s, 1, k - 1 + i - n)
  <2> DEFINE Good(i) == Above(u, i) = SubSeq(s, 1, k - 1 + i - n)
             Bad == {i \in n .. e : ~Good(i)}
  <2> SUFFICES ASSUME Bad # {} PROVE FALSE
    OBVIOUS
  <2>1. PICK i \in Bad : \A l \in Bad : i <= l
    <3>1. Bad \subseteq Nat
      BY <1>1
    <3> HIDE DEF Bad
    <3> QED BY <3>1, LeastOf
  <2>2. i \in n .. e /\ ~Good(i)
    OBVIOUS
  <2>3. CASE i = n
    <3>1. k - 1 + i - n = k - 1
      BY <1>1, <2>3
    <3>2. u[i].parent = Parent(t, j)
      BY <1>3, <2>2, <2>3
    <3>3. CASE j = None
      <4>1. Above(u, i) = <<>>
        BY <3>2, <3>3 DEF Above, Parent
      <4>2. SubSeq(s, 1, k - 1) = <<>>
        BY <1>5, <3>3, SubSeqEmpty
      <4> QED BY <2>2, <3>1, <4>1, <4>2
    <3>4. CASE j # None
      <4>1. u[i].parent = t[j].parent
        BY <3>2, <3>4 DEF Parent
      <4>2. t[j].parent # None => t[j].parent \in 0 .. n - 1
        BY <1>10, <1>1, <3>4 DEF None
      <4>3. Above(u, i) = Above(t, j)
        BY <1>8, <4>1, <4>2 DEF Above
      <4> QED BY <1>6, <2>2, <3>1, <3>4, <4>3
    <3> QED BY <3>3, <3>4
  <2>4. CASE i # n
    <3> DEFINE p == i - 1
               m == k - 1 + i - n
    <3>1. /\ p \in n .. e /\ p \in DOMAIN u /\ p # e /\ p < i /\ p # None /\ i \in Nat
          /\ m \in 1 .. Len(s) /\ k + p - n = m /\ k - 1 + p - n = m - 1
      BY <1>1, <1>7, <2>2, <2>4 DEF None
    <3>2. u[i].parent = p
      BY <1>3, <2>2, <2>4
    <3>3. Good(p)
      <4>1. p \notin Bad
        <5> HIDE DEF Bad, p
        <5> QED BY <1>1, <2>1, <3>1
      <4> HIDE DEF Good
      <4> QED BY <3>1, <4>1
    <3>4. Above(u, p) = SubSeq(s, 1, m - 1)
      BY <3>1, <3>3
    <3>5. u[p].value = s[m] /\ ~u[p].end
      BY <1>3, <3>1
    <3> HIDE DEF p, m
    <3>6. Words(u)[p] = Append(SubSeq(s, 1, m - 1), s[m])
      BY <1>4, <3>1, <3>4, <3>5, WordOf
    <3>7. Words(u)[p] = SubSeq(s, 1, m)
      BY <3>1, <3>6, PrefixGrows
    <3>8. Above(u, i) = Words(u)[p]
      BY <3>1, <3>2 DEF Above
    <3> QED BY <2>2, <3>7, <3>8 DEF m
  <2> QED BY <2>3, <2>4
<1> QED BY <1>1, <1>8, <1>9 DEF n, e

\* What is stored is what was, and s.
LEMMA AttachedStored ==
  ASSUME NEW t, Forest(t), NEW s \in Seq(Chars), NEW j, NEW k, Fits(t, j, s, k),
         NEW u, Attached(t, u, j, s, k)
  PROVE  Stored(u) = Stored(t) \cup {s}
<1> DEFINE n == Size(t)
           e == n + Len(s) - k + 1
<1>1. /\ n \in Nat /\ e \in Nat /\ n <= e /\ DOMAIN t = 0 .. n - 1 /\ DOMAIN u = 0 .. e
      /\ Len(s) \in Nat /\ k \in 1 .. Len(s) + 1
  BY AttachedFields
<1>2. /\ \A i \in 0 .. n - 1 : u[i].end = t[i].end
      /\ \A i \in n .. e : u[i].end <=> i = e
  BY AttachedFields
<1>3. Forest(u)
  BY AttachedForest
<1>4. /\ \A i \in DOMAIN t : Words(u)[i] = Words(t)[i]
      /\ \A i \in n .. e : Above(u, i) = SubSeq(s, 1, k - 1 + i - n)
  BY AttachedWords
<1> HIDE DEF n
<1>5. e \in n .. e /\ k - 1 + e - n = Len(s)
  BY <1>1
<1> HIDE DEF e
<1>6. Words(u)[e] = s
  <2>1. Above(u, e) = s
    BY <1>4, <1>5, SubSeqFull
  <2>2. u[e].end /\ e \in DOMAIN u
    BY <1>1, <1>2, <1>5
  <2> QED BY <1>3, <2>1, <2>2, WordOf
<1>7. Ends(u) = Ends(t) \cup {e}
  <2>1. \A i \in 0 .. e : i \in 0 .. n - 1 \/ i \in n .. e
    BY <1>1
  <2>2. 0 .. n - 1 \subseteq 0 .. e
    BY <1>1
  <2> QED BY <1>1, <1>2, <1>5, <2>1, <2>2 DEF Ends
<1>8. \A i \in Ends(t) : Words(u)[i] = Words(t)[i]
  BY <1>4 DEF Ends
<1> QED BY <1>6, <1>7, <1>8 DEF Stored

\* Array u is v with new leaves, below p, for s from the k-th character on.
Chained(v, u, n, p, s, k) ==
  LET e == n + Len(s) - k + 1 IN
  /\ Size(u) = e + 1 /\ DOMAIN u = 0 .. e
  /\ \A i \in 0 .. n - 1 : u[i] = v[i]
  /\ \A i \in n .. e :
       u[i] = [value |-> IF i = e THEN Nul ELSE s[k + i - n], end |-> (i = e),
               parent |-> IF i = n THEN p ELSE i - 1,
               child |-> IF i = e THEN 0 ELSE i + 1, sibling |-> 0]

\* What Chain builds.
LEMMA ChainIs ==
  ASSUME NEW v, NEW n \in Nat, DOMAIN v = 0 .. n - 1, NEW p,
         NEW s \in Seq(Chars), NEW k \in 1 .. Len(s) + 1
  PROVE  Chained(v, Chain(v, p, s, k), n, p, s, k)
<1> DEFINE u == Chain(v, p, s, k)
           e == n + Len(s) - k + 1
           above(i) == IF i = n THEN p ELSE i - 1
<1>1. Len(s) \in Nat
  BY LenProperties
<1>2. Size(v) = n
  BY FS_Interval DEF Size
<1>3. e \in Nat /\ n <= e
  BY <1>1
<1>4. u = [i \in 0 .. e |->
             IF i < n THEN v[i]
             ELSE IF i < e THEN Leaf(above(i), s[k + i - n], i + 1)
             ELSE EndLeaf(above(i))]
  BY <1>2 DEF Chain
<1> HIDE DEF u, e
<1>5. DOMAIN u = 0 .. e
  BY <1>4
<1>6. Size(u) = e + 1
  BY <1>3, <1>5, FS_Interval DEF Size
<1>7. \A i \in 0 .. n - 1 : u[i] = v[i]
  BY <1>3, <1>4
<1>8. ASSUME NEW i \in n .. e
      PROVE  u[i] = [value |-> IF i = e THEN Nul ELSE s[k + i - n], end |-> (i = e),
                     parent |-> above(i), child |-> IF i = e THEN 0 ELSE i + 1, sibling |-> 0]
  <2>1. i \in 0 .. e /\ ~(i < n)
    BY <1>3
  <2>2. CASE i = e
    <3>1. u[i] = EndLeaf(above(i))
      BY <1>3, <1>4, <2>1, <2>2
    <3>2. (i = e) = TRUE
      BY <2>2
    <3> HIDE DEF above
    <3> QED BY <2>2, <3>1, <3>2 DEF EndLeaf
  <2>3. CASE i # e
    <3>1. u[i] = Leaf(above(i), s[k + i - n], i + 1)
      BY <1>3, <1>4, <2>1, <2>3
    <3>2. (i = e) = FALSE
      BY <2>3
    <3> HIDE DEF above
    <3> QED BY <2>3, <3>1, <3>2 DEF Leaf
  <2> QED BY <2>2, <2>3
<1>9. Chained(v, u, n, p, s, k)
  BY <1>5, <1>6, <1>7, <1>8 DEF Chained, e
<1> QED BY <1>9 DEF u

\* How far a pattern is known already is well defined.
LEMMA KnownIs ==
  ASSUME NEW t, NEW s \in Seq(Chars)
  PROVE  LET k == Known(t, s) IN
         /\ k \in 1 .. Len(s) + 1 /\ Path(t, s)[k] # None
         /\ \A m \in k + 1 .. Len(s) + 1 : Path(t, s)[m] = None
<1> DEFINE N == Len(s) + 1
           T == {n \in 0 .. N - 1 : Path(t, s)[N - n] # None}
<1>1. N \in Nat \ {0}
  BY LenProperties
<1>2. Path(t, s)[1] = 0
  BY <1>1, PathIs DEF Reached
<1> HIDE DEF N
<1>3. PICK n \in T : \A m \in T : n <= m
  <2>1. T \subseteq Nat
    BY <1>1
  <2>2. N - 1 \in T
    BY <1>1, <1>2 DEF None
  <2> HIDE DEF T
  <2> QED BY <2>1, <2>2, LeastOf
<1> DEFINE k == N - n
<1>4. k \in 1 .. N /\ Path(t, s)[k] # None
  BY <1>1
<1>5. ASSUME NEW m \in k + 1 .. N
      PROVE  Path(t, s)[m] = None
  <2>1. N - m \in 0 .. N - 1 /\ N - m < n /\ N - (N - m) = m /\ n \in Nat /\ N - m \in Nat
    BY <1>1, <1>4
  <2>2. N - m \notin T
    <3> HIDE DEF T
    <3> QED BY <1>3, <2>1
  <2> QED BY <2>1, <2>2
<1> HIDE DEF k
<1>6. \E l \in 1 .. N : /\ Path(t, s)[l] # None
                        /\ \A m \in l + 1 .. N : Path(t, s)[m] = None
  BY <1>4, <1>5
<1> QED BY <1>6 DEF Known, N

\* A chain that begins where the rest fits is attached there.
LEMMA ChainAttached ==
  ASSUME NEW t, Forest(t), NEW s \in Seq(Chars), NEW j, NEW k, Fits(t, j, s, k),
         NEW v, v = IF j = None THEN t ELSE [t EXCEPT ![j].sibling = Size(t)]
  PROVE  Attached(t, Chain(v, Parent(t, j), s, k), j, s, k)
<1> DEFINE n == Size(t)
           u == Chain(v, Parent(t, j), s, k)
           e == n + Len(s) - k + 1
<1>1. n \in Nat /\ DOMAIN t = 0 .. n - 1 /\ k \in 1 .. Len(s) + 1
  BY DEF Forest, Shape, Fits
<1>2. j # None => j \in DOMAIN t
  BY DEF Fits
<1>3. DOMAIN v = 0 .. n - 1
  BY <1>1
<1>4. \A i \in 0 .. n - 1 : v[i] = IF i = j THEN [t[i] EXCEPT !.sibling = n] ELSE t[i]
  BY <1>1, <1>2 DEF None
<1>5. Chained(v, u, n, Parent(t, j), s, k)
  BY <1>1, <1>3, ChainIs
<1> HIDE DEF u
<1>6. \A i \in DOMAIN t : u[i] = IF i = j THEN [t[i] EXCEPT !.sibling = n] ELSE t[i]
  BY <1>1, <1>4, <1>5 DEF Chained
<1>7. Attached(t, u, j, s, k)
  BY <1>5, <1>6 DEF Attached, Chained
<1> QED BY <1>7 DEF u

\* add() attaches what the tree has not yet of a pattern, where it fits.
LEMMA AddedAttached ==
  ASSUME NEW t, Forest(t), NEW s \in Seq(Chars)
  PROVE  \E j, k : Fits(t, j, s, k) /\ Attached(t, Added(t, s), j, s, k)
<1>1. Len(s) \in Nat /\ Size(t) \in Nat
  BY LenProperties DEF Forest, Shape
<1>2. CASE Size(t) = 0
  <2>1. Fits(t, None, s, 1)
    BY <1>1, <1>2 DEF Fits
  <2>2. Added(t, s) = Chain(t, None, s, 1)
    BY <1>2 DEF Added, AddBelow, Below
  <2>3. Parent(t, None) = None
    BY DEF Parent
  <2>4. Attached(t, Added(t, s), None, s, 1)
    BY <2>1, <2>2, <2>3, ChainAttached
  <2> QED BY <2>1, <2>4
<1>3. CASE Size(t) # 0
  <2> DEFINE k == Known(t, s)
             i == Path(t, s)[k]
             f == FindSibling(t, i, s[k])
             p == t[i].parent
  <2>1. /\ k \in 1 .. Len(s) + 1 /\ i # None
        /\ \A m \in k + 1 .. Len(s) + 1 : Path(t, s)[m] = None
    BY KnownIs
  <2>2. Added(t, s) = IF k = Len(s) + 1 THEN AddBelow(t, p, s, k)
                      ELSE IF f.found THEN AddBelow(t, f.item, s, k + 1)
                      ELSE AddBeside(t, f.item, s, k)
    BY <1>3 DEF Added
  <2>3. Size(t) > 0
    BY <1>1, <1>3
  <2>4. First(t, i) /\ Above(t, i) = SubSeq(s, 1, k - 1)
    BY <2>1, <2>3, PathLeads
  <2>5. k # Len(s) + 1 =>
          k + 1 \in 1 .. Len(s) + 1 /\ Path(t, s)[k + 1] = Descend(t, i, s[k])
    <3>1. ASSUME k # Len(s) + 1
          PROVE  k + 1 \in 1 .. Len(s) + 1 /\ k + 1 # 1 /\ k + 1 - 1 = k
      BY <1>1, <2>1, <3>1
    <3> QED BY <2>1, <3>1, PathIs DEF Reached
  <2> HIDE DEF k, i
  <2>6. i \in DOMAIN t /\ ~Stray(t, i)
    BY <2>4 DEF First
  <2>7. CASE k = Len(s) + 1 /\ p = None
    <3>1. Above(t, i) = <<>> /\ SubSeq(s, 1, k - 1) = s
      BY <1>1, <2>7, SubSeqFull DEF Above
    <3>2. s = <<>> /\ k = 1
      BY <2>4, <2>7, <3>1, EmptySeq
    <3>3. Fits(t, None, s, k)
      BY <2>1, <3>2 DEF Fits
    <3>4. Added(t, s) = Chain(t, None, s, k)
      BY <2>2, <2>7 DEF AddBelow, Below
    <3>5. Parent(t, None) = None
      BY DEF Parent
    <3>6. Attached(t, Added(t, s), None, s, k)
      BY <3>3, <3>4, <3>5, ChainAttached
    <3> QED BY <3>3, <3>6
  <2>8. CASE k = Len(s) + 1 /\ p # None
    <3> DEFINE c == t[p].child
               j == LastSibling(t, c)
    <3>1. c # 0 /\ First(t, c) /\ Family(t, c, i)
      BY <2>6, <2>8, ParentOf
    <3>2. j \in DOMAIN t /\ Family(t, c, j) /\ t[j].sibling = 0
      <4>1. j = Along(t, c, {})
        BY DEF LastSibling
      <4> HIDE DEF c, j
      <4> QED BY <3>1, <4>1, AlongAll
    <3>3. Added(t, s) = Chain([t EXCEPT ![j].sibling = Size(t)], p, s, k)
      BY <2>2, <2>8, <3>1 DEF AddBelow, Below
    <3> HIDE DEF c, j
    <3>4. t[j].parent = p /\ ~Stray(t, j) /\ j # None
      BY <3>1, <3>2, LeafOf DEF Family, None
    <3>5. Above(t, j) = Above(t, i)
      BY <3>4 DEF Above
    <3>6. Fits(t, j, s, k)
      BY <1>1, <2>1, <2>4, <2>8, <3>2, <3>4, <3>5 DEF Fits
    <3>7. Parent(t, j) = p
      BY <3>4 DEF Parent
    <3>8. Attached(t, Added(t, s), j, s, k)
      BY <3>3, <3>4, <3>6, <3>7, ChainAttached
    <3> QED BY <3>6, <3>8
  <2>9. CASE k # Len(s) + 1
    <3>1. /\ f.item \in DOMAIN t /\ Family(t, i, f.item) /\ f.found \in BOOLEAN
          /\ f.found => Carries(t, f.item, s[k])
          /\ ~f.found => /\ t[f.item].sibling = 0
                         /\ \A m : Family(t, i, m) => ~Carries(t, m, s[k])
      BY <2>4, FindSiblingIs
    <3> DEFINE j == f.item
    <3>2. ~f.found
      <4> SUFFICES ASSUME f.found PROVE FALSE
        OBVIOUS
      <4> HIDE DEF f
      <4>1. Descend(t, i, s[k]) = t[j].child /\ t[j].child # None
        <5>1. Family(t, i, j) /\ Carries(t, j, s[k])
          BY <3>1
        <5> HIDE DEF j
        <5> QED BY <2>4, <5>1, DescendIs
      <4>2. k + 1 \in k + 1 .. Len(s) + 1
        BY <1>1, <2>1, <2>9
      <4> QED BY <2>1, <2>5, <2>9, <4>1, <4>2
    <3>3. Added(t, s) = AddBeside(t, j, s, k)
      BY <2>2, <2>9, <3>2
    <3> HIDE DEF f
    <3>4. j \in DOMAIN t /\ Family(t, i, j) /\ t[j].sibling = 0
          /\ \A m : Family(t, i, m) => ~Carries(t, m, s[k])
      BY <3>1, <3>2
    <3> HIDE DEF j
    <3>5. ~Stray(t, j) /\ j # None /\ t[j].parent = p /\ Above(t, j) = Above(t, i)
      BY <3>4, LeafOf DEF Family, Above, None
    <3>6. \A m : Family(t, j, m) => Family(t, i, m)
      BY <3>4 DEF Family
    <3>7. k <= Len(s)
      BY <1>1, <2>1, <2>9
    <3>8. Fits(t, j, s, k)
      BY <2>1, <2>4, <3>4, <3>5, <3>6, <3>7 DEF Fits
    <3>9. Added(t, s) = Chain([t EXCEPT ![j].sibling = Size(t)], Parent(t, j), s, k)
      BY <3>3, <3>5 DEF AddBeside, Parent
    <3>10. Attached(t, Added(t, s), j, s, k)
      BY <3>5, <3>8, <3>9, ChainAttached
    <3> QED BY <3>8, <3>10
  <2> QED BY <2>7, <2>8, <2>9
<1> QED BY <1>2, <1>3

-----------------------------------------------------------------------------
(* Every tree that add() fills                                             *)

\* One more pattern, whichever: the array stays a forest, and what it held and the
\* pattern is what it holds.
LEMMA AddedIs ==
  ASSUME NEW t, Forest(t), NEW s \in Seq(Chars)
  PROVE  Forest(Added(t, s)) /\ Stored(Added(t, s)) = Stored(t) \cup {s}
<1>1. PICK j, k : Fits(t, j, s, k) /\ Attached(t, Added(t, s), j, s, k)
  BY AddedAttached
<1> QED BY <1>1, AttachedForest, AttachedStored

\* The empty array is a forest that holds nothing.
LEMMA EmptyForest == Forest(<<>>) /\ Stored(<<>>) = {}
<1>1. DOMAIN <<>> = {} /\ 0 .. 0 - 1 = {} /\ Size(<<>>) = 0
  BY FS_EmptySet DEF Size
<1>2. Forest(<<>>)
  BY <1>1 DEF Forest, Shape, Distinct
<1>3. Ends(<<>>) = {}
  BY <1>1 DEF Ends
<1> QED BY <1>2, <1>3 DEF Stored

\* What add() maintains: a forest that stores exactly what was added.
Inv == TypeOK /\ Stored(leaves) = added

LEMMA InvInit == TreeInit => Inv
BY EmptyForest DEF TreeInit, Inv, TypeOK

LEMMA InvNext == Inv /\ [TreeNext]_<<leaves, added>> => Inv'
<1> SUFFICES ASSUME Inv, [TreeNext]_<<leaves, added>>
             PROVE  Inv'
  OBVIOUS
<1>1. ASSUME NEW s \in Seq(Chars), Add(s)
      PROVE  Inv'
  BY <1>1, AddedIs DEF Inv, TypeOK, Add
<1>2. CASE UNCHANGED <<leaves, added>>
  BY <1>2 DEF Inv, TypeOK
<1> QED BY <1>1, <1>2 DEF TreeNext

LEMMA Invariance == TreeSpec => []Inv
BY InvInit, InvNext, PTL DEF TreeSpec

\* However many patterns are added, in whatever order, empty ones and known ones
\* included, the array is a forest: every link of add_child() and add_sibling() leads to
\* the leaf it is for.
THEOREM TreeTypeCorrect == TreeSpec => []TypeOK
<1>1. Inv => TypeOK
  BY DEF Inv
<1> QED BY <1>1, Invariance, PTL

\* The non-empty texts that a search along the families comes to an end for are exactly
\* the patterns added.
Exact == \A s \in Seq(Chars) : s # <<>> => (Member(leaves, s) <=> s \in added)

LEMMA InvExact == Inv => Exact
BY MemberIsStored DEF Inv, TypeOK, Exact

\* Of all texts, of any length, add() makes just the patterns it was given findable:
\* none that came later hides one, and none that shares its beginning with others
\* makes up a third.
THEOREM SearchExact == TreeSpec => []Exact
<1> QED BY Invariance, InvExact, PTL

\* The beginnings of patterns are texts, and not empty.
LEMMA BeginningsAreTexts ==
  ASSUME added \subseteq Seq(Chars), NEW s \in Beginnings
  PROVE  s \in Seq(Chars) /\ s # <<>>
<1>1. PICK p \in added : \E n \in 1 .. Len(p) : s = SubSeq(p, 1, n)
  BY DEF Beginnings
<1>2. PICK n \in 1 .. Len(p) : s = SubSeq(p, 1, n)
  BY <1>1
<1>3. p \in Seq(Chars) /\ Len(p) \in Nat
  BY LenProperties
<1>4. \A m \in 1 .. n : p[m] \in Chars
  BY <1>3, ElementOfSeq
<1>5. s \in Seq(Chars) /\ Len(s) = n
  BY <1>2, <1>3, <1>4, SubSeqProperties
<1>6. Len(s) # 0
  BY <1>3, <1>5
<1> QED BY <1>5, <1>6, EmptySeq

\* What the array stores, as extract() reads it, is what was added, and of the patterns
\* and their beginnings a search finds exactly the patterns.
THEOREM NothingLost == TreeSpec => []Holds
<1>1. Inv => Holds
  <2> SUFFICES ASSUME Inv PROVE Holds
    OBVIOUS
  <2>1. Exact
    BY InvExact
  <2>2. \A s \in Beginnings : s \in Seq(Chars) /\ s # <<>>
    BY BeginningsAreTexts DEF Inv, TypeOK
  <2> QED BY <2>1, <2>2 DEF Inv, Exact, Holds
<1> QED BY <1>1, Invariance, PTL

-----------------------------------------------------------------------------
(* Reading a text                                                          *)

\* Skipping what is ignored stops at the first character that is not, or behind the text.
LEMMA SkipIs ==
  ASSUME NEW text \in Seq(Chars), NEW k \in 1 .. Len(text) + 1
  PROVE  LET pos == SkipIgnored(text, k) IN
         /\ pos \in k .. Len(text) + 1
         /\ pos <= Len(text) => pos \in DOMAIN text /\ text[pos] \notin Ignored
         /\ \A l \in k .. pos - 1 : text[l] \in Ignored
<1> DEFINE rest == {j \in k .. Len(text) : text[j] \notin Ignored}
           pos == SkipIgnored(text, k)
<1>1. Len(text) \in Nat /\ DOMAIN text = 1 .. Len(text)
  BY LenProperties
<1>2. pos = IF rest = {} THEN Len(text) + 1 ELSE CHOOSE j \in rest : \A l \in rest : j <= l
  BY DEF SkipIgnored
<1>3. \A l : l \in rest <=> l \in k .. Len(text) /\ text[l] \notin Ignored
  OBVIOUS
<1>4. rest \subseteq Nat
  BY <1>1
<1> HIDE DEF rest, pos
<1>5. CASE rest = {}
  BY <1>1, <1>2, <1>3, <1>5 DEF pos
<1>6. CASE rest # {}
  <2>1. pos \in rest /\ \A l \in rest : pos <= l
    BY <1>2, <1>4, <1>6, LeastOf
  <2>2. ASSUME NEW l \in k .. pos - 1
        PROVE  text[l] \in Ignored
    <3>1. l \notin rest
      BY <1>1, <1>3, <2>1
    <3>2. l \in k .. Len(text)
      BY <1>1, <1>3, <2>1
    <3> QED BY <1>3, <3>1, <3>2
  <2> QED BY <1>1, <1>3, <2>1, <2>2 DEF pos
<1> QED BY <1>5, <1>6

\* How many characters count from k to j.
Counted(text, k, j) == Cardinality(Counting(text, k, j))

\* A count is a number, and none when nothing counts.
LEMMA CountedIs ==
  ASSUME NEW text, NEW k \in Int, NEW j \in Int
  PROVE  /\ Counted(text, k, j) \in Nat
         /\ IsFiniteSet(Counting(text, k, j))
         /\ Counted(text, k, j) = 0 <=> Counting(text, k, j) = {}
<1>1. IsFiniteSet(k .. j)
  BY FS_Interval
<1>2. IsFiniteSet(Counting(text, k, j))
  BY <1>1, FS_Subset DEF Counting
<1> QED BY <1>2, FS_CardinalityType, FS_EmptySet DEF Counted

\* The first character that counts is counted once, and the others behind it.
LEMMA CountedFirst ==
  ASSUME NEW text \in Seq(Chars), NEW k \in 1 .. Len(text),
         SkipIgnored(text, k) <= Len(text), NEW j \in k .. Len(text)
  PROVE  LET pos == SkipIgnored(text, k) IN
         /\ j < pos => Counting(text, k, j) = {}
         /\ j >= pos => /\ Counting(text, k, j) = {pos} \cup Counting(text, pos + 1, j)
                        /\ Counted(text, k, j) = 1 + Counted(text, pos + 1, j)
<1> DEFINE pos == SkipIgnored(text, k)
<1>1. Len(text) \in Nat
  BY LenProperties
<1>2. /\ pos \in k .. Len(text) /\ text[pos] \notin Ignored
      /\ \A l \in k .. pos - 1 : text[l] \in Ignored
  BY <1>1, SkipIs
<1> HIDE DEF pos
<1>3. ASSUME j < pos
      PROVE  Counting(text, k, j) = {}
  BY <1>1, <1>2, <1>3 DEF Counting
<1>4. ASSUME j >= pos
      PROVE  /\ Counting(text, k, j) = {pos} \cup Counting(text, pos + 1, j)
             /\ Counted(text, k, j) = 1 + Counted(text, pos + 1, j)
  <2>1. ASSUME NEW l
        PROVE  l \in Counting(text, k, j) <=> l = pos \/ l \in Counting(text, pos + 1, j)
    BY <1>1, <1>2, <1>4 DEF Counting
  <2>2. Counting(text, k, j) = {pos} \cup Counting(text, pos + 1, j)
    BY <2>1
  <2>3. pos \notin Counting(text, pos + 1, j)
    BY <1>1, <1>2 DEF Counting
  <2>4. IsFiniteSet(Counting(text, pos + 1, j)) /\ Counted(text, pos + 1, j) \in Nat
    BY <1>1, <1>2, CountedIs
  <2>5. Counted(text, k, j) = 1 + Counted(text, pos + 1, j)
    <3> DEFINE S == Counting(text, pos + 1, j)
    <3>1. Counting(text, k, j) = S \cup {pos} /\ IsFiniteSet(S) /\ pos \notin S
      BY <2>2, <2>3, <2>4
    <3>2. Cardinality(S \cup {pos}) = Cardinality(S) + 1
      <4> HIDE DEF S
      <4> QED BY <3>1, FS_AddElement
    <3> QED BY <2>4, <3>1, <3>2 DEF Counted
  <2> QED BY <2>2, <2>5
<1> QED BY <1>3, <1>4 DEF pos

\* What counts of the text from k to j are the characters of q behind the n-th.
Goes(text, k, j, q, n) ==
  /\ Counted(text, k, j) + n = Len(q)
  /\ \A l \in Counting(text, k, j) : text[l] = q[n + Counted(text, k, l)]

\* To be spelled is to go on from the beginning of the pattern.
LEMMA SpellsGoes ==
  ASSUME NEW text \in Seq(Chars), NEW k \in 1 .. Len(text), NEW j \in k .. Len(text),
         NEW p \in Seq(Chars)
  PROVE  Spells(text, k, j, p) <=> Goes(text, k, j, p, 0)
<1>1. Len(text) \in Nat /\ Len(p) \in Nat
  BY LenProperties
<1>2. \A l \in Counting(text, k, j) : l \in Int
  BY <1>1 DEF Counting
<1>3. \A l \in Int : Counted(text, k, l) \in Nat /\ 0 + Counted(text, k, l) = Counted(text, k, l)
  BY CountedIs
<1>4. \A l \in Counting(text, k, j) : 0 + Counted(text, k, l) = Counted(text, k, l)
  BY <1>2, <1>3
<1>5. Counted(text, k, j) + 0 = Counted(text, k, j)
  <2>1. j \in Int
    BY <1>1
  <2>2. Counted(text, k, j) \in Nat
    BY <1>3, <2>1
  <2> QED BY <2>2
<1> QED BY <1>4, <1>5 DEF Spells, Goes, Counted

\* To go on in a text is to find the next character that counts, and to go on from it.
LEMMA GoesOn ==
  ASSUME NEW text \in Seq(Chars), NEW k \in 1 .. Len(text),
         SkipIgnored(text, k) <= Len(text),
         NEW j \in k .. Len(text), text[j] \notin Ignored,
         NEW q \in Seq(Chars), NEW n \in Nat
  PROVE  LET pos == SkipIgnored(text, k) IN
         /\ j >= pos
         /\ Goes(text, k, j, q, n) => n < Len(q)
         /\ Goes(text, k, j, q, n) /\ j = pos => n + 1 = Len(q)
         /\ j > pos => (Goes(text, k, j, q, n) <=>
                          n < Len(q) /\ q[n + 1] = text[pos] /\ Goes(text, pos + 1, j, q, n + 1))
         /\ j = pos => (Goes(text, k, j, q, n) <=> n + 1 = Len(q) /\ q[n + 1] = text[pos])
<1> DEFINE pos == SkipIgnored(text, k)
           A(l) == Counted(text, k, l)
           B(l) == Counted(text, pos + 1, l)
<1>1. Len(text) \in Nat /\ Len(q) \in Nat
  BY LenProperties
<1>2. /\ pos \in k .. Len(text) /\ text[pos] \notin Ignored
      /\ \A l \in k .. pos - 1 : text[l] \in Ignored
  BY <1>1, SkipIs
<1>3. \A l \in pos .. Len(text) :
        /\ Counting(text, k, l) = {pos} \cup Counting(text, pos + 1, l)
        /\ A(l) = 1 + B(l)
  BY <1>1, <1>2, CountedFirst
<1> HIDE DEF pos
<1>4. \A l \in Int : B(l) \in Nat /\ (B(l) = 0 <=> Counting(text, pos + 1, l) = {})
  BY <1>1, <1>2, CountedIs
<1>5. j >= pos /\ j \in pos .. Len(text)
  BY <1>1, <1>2
<1> HIDE DEF A, B
<1>6. Counting(text, pos + 1, pos) = {} /\ B(pos) = 0
  <2>1. Counting(text, pos + 1, pos) = {}
    BY <1>1, <1>2 DEF Counting
  <2>2. pos \in Int
    BY <1>1, <1>2
  <2> QED BY <1>4, <2>1, <2>2
<1>7. Goes(text, k, j, q, n) <=>
        /\ 1 + B(j) + n = Len(q)
        /\ text[pos] = q[n + 1]
        /\ \A l \in Counting(text, pos + 1, j) : text[l] = q[n + 1 + B(l)]
  <2>1. /\ A(j) = 1 + B(j) /\ A(pos) = 1 + B(pos) /\ B(j) \in Nat
        /\ Counting(text, k, j) = {pos} \cup Counting(text, pos + 1, j)
    BY <1>1, <1>2, <1>3, <1>4, <1>5
  <2>2. n + A(pos) = n + 1
    BY <1>6, <2>1
  <2>3. \A l \in Counting(text, pos + 1, j) : n + A(l) = n + 1 + B(l)
    <3>1. \A l \in Counting(text, pos + 1, j) : l \in pos .. Len(text) /\ l \in Int
      BY <1>1, <1>2, <1>5 DEF Counting
    <3>2. \A l \in Counting(text, pos + 1, j) : A(l) = 1 + B(l) /\ B(l) \in Nat
      BY <1>3, <1>4, <3>1
    <3> QED BY <3>2
  <2>4. Goes(text, k, j, q, n) <=>
          /\ A(j) + n = Len(q)
          /\ \A l \in Counting(text, k, j) : text[l] = q[n + A(l)]
    BY DEF Goes, A
  <2>5. (\A l \in Counting(text, k, j) : text[l] = q[n + A(l)]) <=>
          /\ text[pos] = q[n + 1]
          /\ \A l \in Counting(text, pos + 1, j) : text[l] = q[n + 1 + B(l)]
    BY <2>1, <2>2, <2>3
  <2> QED BY <2>1, <2>4, <2>5
<1>8. Goes(text, pos + 1, j, q, n + 1) <=>
        /\ B(j) + (n + 1) = Len(q)
        /\ \A l \in Counting(text, pos + 1, j) : text[l] = q[n + 1 + B(l)]
  BY DEF Goes, B
<1>9. B(j) \in Nat
  BY <1>1, <1>2, <1>4, <1>5
<1>10. Goes(text, k, j, q, n) => n < Len(q)
  BY <1>1, <1>7, <1>9
<1>11. ASSUME j = pos
       PROVE  Goes(text, k, j, q, n) <=> n + 1 = Len(q) /\ q[n + 1] = text[pos]
  BY <1>1, <1>6, <1>7, <1>11
<1>12. 1 + B(j) + n = Len(q) <=> B(j) + (n + 1) = Len(q)
  BY <1>1, <1>9
<1>13. Goes(text, k, j, q, n) <=>
         n < Len(q) /\ q[n + 1] = text[pos] /\ Goes(text, pos + 1, j, q, n + 1)
  BY <1>7, <1>8, <1>10, <1>12
<1> QED BY <1>5, <1>10, <1>11, <1>13 DEF pos

-----------------------------------------------------------------------------
(* Families and words                                                      *)

\* find_sibling() finds the leaf where looking along the family stops, if it has c.
LEMMA FoundIs ==
  ASSUME NEW t, NEW i, NEW c
  PROVE  LET j == Along(t, i, Holding(t, c)) IN
         /\ FindSibling(t, i, c) = [found |-> j \in Holding(t, c), item |-> j]
         /\ FindSibling(t, i, c).found <=> j \in Holding(t, c)
         /\ FindSibling(t, i, c).item = j
<1> DEFINE S == Holding(t, c)
           j == Along(t, i, S)
           f == FindSibling(t, i, c)
<1>1. f = [found |-> j \in S, item |-> j]
  BY DEF FindSibling
<1> HIDE DEF S, j, f
<1>2. f.found = (j \in S) /\ f.item = j
  BY <1>1
<1>3. f.found <=> j \in S
  BY <1>2, Zenon
<1> QED BY <1>1, <1>2, <1>3 DEF S, j, f

\* What is found from a brother on is what is found from the first on.
LEMMA FoundFrom ==
  ASSUME NEW t, Forest(t), NEW i, First(t, i), NEW j \in DOMAIN t, Family(t, i, j), NEW c,
         FindSibling(t, j, c).found
  PROVE  FindSibling(t, j, c) = FindSibling(t, i, c)
<1> DEFINE S == Holding(t, c)
           J == Along(t, j, S)
           I == Along(t, i, S)
<1>1. /\ FindSibling(t, j, c) = [found |-> J \in S, item |-> J]
      /\ FindSibling(t, i, c) = [found |-> I \in S, item |-> I]
  BY FoundIs
<1>2. \A p : p \in S <=> Carries(t, p, c)
  BY DEF Holding, Carries
<1> HIDE DEF S
<1>3. Stopped(t, S, j, J)
  BY AlongIs DEF Family
<1> HIDE DEF J, I
<1>4. J \in S
  BY FoundIs DEF J, S
<1>5. FindSibling(t, i, c).item = I
  BY <1>1
<1>6. Family(t, i, J) /\ Carries(t, J, c)
  BY <1>2, <1>3, <1>4 DEF Stopped, Family
<1>7. I = J
  BY <1>5, <1>6, FindSiblingIs
<1> QED BY <1>1, <1>7

\* Below a leaf is a family whose word goes on with its character.
LEMMA Grows ==
  ASSUME NEW t, Forest(t), NEW p \in DOMAIN t, ~t[p].end
  PROVE  LET d == t[p].child IN
         /\ d # 0 /\ d \in DOMAIN t /\ d > p /\ First(t, d)
         /\ t[d].parent = p /\ t[d].parent # None
         /\ Above(t, d) = Words(t)[p]
         /\ Above(t, d) = Append(Above(t, p), t[p].value)
<1> DEFINE d == t[p].child
<1>1. d # 0
  BY LeafOf
<1>2. First(t, d) /\ t[d].parent = p
  BY <1>1, ChildFirst
<1>3. d \in DOMAIN t /\ p # None /\ p \in Nat
  BY <1>2, LeafOf DEF First, None
<1> HIDE DEF d
<1>4. d > p
  BY <1>2, <1>3, LeafOf DEF None
<1>5. Above(t, d) = Words(t)[p]
  BY <1>2, <1>3 DEF Above
<1>6. Words(t)[p] = Append(Above(t, p), t[p].value)
  BY WordOf
<1> QED BY <1>1, <1>2, <1>3, <1>4, <1>5, <1>6 DEF d

\* The word above a family tells which it is.
LEMMA FirstUnique ==
  ASSUME NEW t, Forest(t), NEW i, First(t, i), NEW j, First(t, j), Above(t, i) = Above(t, j)
  PROVE  i = j
<1>1. /\ i \in DOMAIN t /\ j \in DOMAIN t /\ i \in Nat /\ j \in Nat
      /\ ~Stray(t, i) /\ ~Stray(t, j)
  BY LeafOf DEF First
<1>2. ASSUME NEW x \in DOMAIN t, t[x].parent # None
      PROVE  /\ t[x].parent \in DOMAIN t /\ ~t[t[x].parent].end
             /\ Above(t, x) = Words(t)[t[x].parent]
             /\ Above(t, x) \in Seq(Chars) /\ Above(t, x) # <<>>
  <2> DEFINE p == t[x].parent
  <2>1. p \in DOMAIN t /\ ~t[p].end
    BY <1>2, ParentOf
  <2>2. Above(t, x) = Words(t)[p]
    BY <1>2 DEF Above
  <2> HIDE DEF p
  <2>3. Words(t)[p] = Append(Above(t, p), t[p].value)
    BY <2>1, WordOf
  <2>4. Above(t, p) \in Seq(Chars) /\ t[p].value \in Chars /\ Above(t, x) \in Seq(Chars)
    BY <2>1, WordsType, LeafOf
  <2>5. Append(Above(t, p), t[p].value) # <<>>
    BY <2>4
  <2> QED BY <2>1, <2>2, <2>3, <2>4, <2>5 DEF p
<1>3. ASSUME t[i].parent = None, t[j].parent = None
      PROVE  i = j
  BY <1>1, <1>3 DEF First, Family
<1>4. ASSUME t[i].parent # None, t[j].parent # None
      PROVE  i = j
  <2> DEFINE p == t[i].parent
             q == t[j].parent
  <2>1. /\ p \in DOMAIN t /\ q \in DOMAIN t /\ ~t[p].end /\ ~t[q].end
        /\ Words(t)[p] = Above(t, i) /\ Words(t)[q] = Above(t, i)
        /\ Above(t, i) \in Seq(Chars)
    BY <1>1, <1>2, <1>4
  <2> DEFINE w == Above(t, i)
  <2>2. Len(w) \in Nat
    BY <2>1, LenProperties
  <2>3. t[p].child = t[q].child
    <3> HIDE DEF w, p, q
    <3>0. /\ w \in Seq(Chars) /\ Words(t)[p] = w /\ Words(t)[q] = w
          /\ Len(w) <= Len(w) /\ \A m \in 1 .. Len(w) : w[m] = w[m]
      BY <2>1, <2>2 DEF w
    <3>1. Path(t, w)[Len(w) + 1] = t[p].child
      BY <2>1, <3>0, PathFinds
    <3>2. Path(t, w)[Len(w) + 1] = t[q].child
      BY <2>1, <3>0, PathFinds
    <3> QED BY <3>1, <3>2
  <2>4. /\ First(t, t[p].child) /\ Family(t, t[p].child, i)
        /\ First(t, t[q].child) /\ Family(t, t[q].child, j)
    BY <1>1, <1>4, ParentOf
  <2>5. Family(t, i, j)
    BY <2>3, <2>4 DEF Family
  <2> QED BY <1>1, <2>5 DEF First, Family
<1>5. ASSUME t[i].parent = None, t[j].parent # None
      PROVE  FALSE
  BY <1>1, <1>2, <1>5 DEF Above
<1>6. ASSUME t[i].parent # None, t[j].parent = None
      PROVE  FALSE
  BY <1>1, <1>2, <1>6 DEF Above
<1> QED BY <1>3, <1>4, <1>5, <1>6

\* An end in a family below a leaf ends the word above it, and one is there if that word
\* is stored.
LEMMA EndBelow ==
  ASSUME NEW t, Forest(t), NEW d, First(t, d), t[d].parent # None
  PROVE  LET e == EndAmong(t, d) IN
         /\ e # None => e \in Ends(t) /\ Words(t)[e] = Above(t, d)
         /\ e = None => Above(t, d) \notin Stored(t)
<1> DEFINE j == Along(t, d, Ends(t))
           e == EndAmong(t, d)
<1>1. e = IF j \in Ends(t) THEN j ELSE None
  BY DEF EndAmong
<1>2. /\ j \in DOMAIN t /\ Family(t, d, j)
      /\ j \notin Ends(t) => \A m \in DOMAIN t : Family(t, d, m) => m \notin Ends(t)
  BY AlongAll
<1> HIDE DEF j, e
<1>3. ASSUME e # None
      PROVE  e \in Ends(t) /\ Words(t)[e] = Above(t, d)
  <2>1. e = j /\ j \in Ends(t) /\ t[j].end
    BY <1>1, <1>3 DEF Ends
  <2>2. Words(t)[j] = Above(t, j)
    BY <1>2, <2>1, WordOf
  <2> QED BY <1>2, <2>1, <2>2 DEF Above, Family
<1>4. ASSUME e = None, NEW x \in Ends(t), Words(t)[x] = Above(t, d)
      PROVE  FALSE
  <2>1. x \in DOMAIN t /\ t[x].end
    BY DEF Ends
  <2>2. Above(t, x) = Above(t, d)
    BY <1>4, <2>1, WordOf
  <2>3. d \in DOMAIN t /\ t[d].parent \in DOMAIN t /\ ~t[t[d].parent].end
    BY ParentOf DEF First
  <2>4. Above(t, d) # <<>>
    <3> DEFINE p == t[d].parent
    <3>1. Above(t, d) = Words(t)[p]
      BY DEF Above
    <3> HIDE DEF p
    <3>2. Words(t)[p] = Append(Above(t, p), t[p].value)
      BY <2>3, WordOf DEF p
    <3>3. Above(t, p) \in Seq(Chars) /\ t[p].value \in Chars
      BY <2>3, WordsType, LeafOf DEF p
    <3> QED BY <3>1, <3>2, <3>3
  <2>5. t[x].parent # None
    BY <2>2, <2>4 DEF Above
  <2> DEFINE f == t[t[x].parent].child
  <2>6. First(t, f) /\ Family(t, f, x)
    BY <2>1, <2>5, ParentOf
  <2> HIDE DEF f
  <2>7. Above(t, f) = Above(t, d)
    BY <2>2, <2>6 DEF Above, Family
  <2>8. f = d
    BY <2>6, <2>7, FirstUnique
  <2>9. j \in Ends(t)
    BY <1>2, <2>1, <2>6, <2>8
  <2>10. j # None
    BY <1>2, LeafOf DEF None
  <2> QED BY <1>1, <1>4, <2>9, <2>10
<1>5. e = None => Above(t, d) \notin Stored(t)
  BY <1>4 DEF Stored
<1> QED BY <1>3, <1>5 DEF e

\* Below each leaf is an end, whose word begins with that of the leaf.
LEMMA EndUnder ==
  ASSUME NEW t, Forest(t), NEW p \in DOMAIN t, ~t[p].end
  PROVE  \E e \in Ends(t) :
           /\ Len(Words(t)[p]) <= Len(Words(t)[e])
           /\ \A m \in 1 .. Len(Words(t)[p]) : Words(t)[e][m] = Words(t)[p][m]
<1> DEFINE W(x) == Words(t)[x]
           Begins(x, e) == Len(W(x)) <= Len(W(e)) /\ \A m \in 1 .. Len(W(x)) : W(e)[m] = W(x)[m]
           Good(x) == ~t[x].end => \E e \in Ends(t) : Begins(x, e)
           N == Size(t)
           Bad == {n \in 0 .. N : N - n \in DOMAIN t /\ ~Good(N - n)}
<1>1. N \in Nat /\ DOMAIN t = 0 .. N - 1
  BY LeafOf
<1> HIDE DEF N
<1>2. Bad = {}
  <2> SUFFICES ASSUME Bad # {} PROVE FALSE
    OBVIOUS
  <2>1. PICK n \in Bad : \A m \in Bad : n <= m
    <3>1. Bad \subseteq Nat
      BY <1>1
    <3> HIDE DEF Bad
    <3> QED BY <3>1, LeastOf
  <2> DEFINE x == N - n
             d == t[x].child
  <2>2. n \in 0 .. N /\ x \in DOMAIN t /\ ~Good(x)
    OBVIOUS
  <2>3. ~t[x].end /\ \A e \in Ends(t) : ~Begins(x, e)
    BY <2>2
  <2>4. d \in DOMAIN t /\ d > x /\ Above(t, d) = W(x)
    BY <2>2, <2>3, Grows
  <2>5. W(x) \in Seq(Chars) /\ W(d) \in Seq(Chars) /\ Above(t, d) \in Seq(Chars)
    BY <2>2, <2>4, WordsType
  <2>6. Good(d)
    <3> HIDE DEF Good, d
    <3>1. N - d \notin Bad
      <4> HIDE DEF Bad
      <4> QED BY <1>1, <2>1, <2>2, <2>4
    <3>2. N - (N - d) = d /\ N - d \in 0 .. N
      BY <1>1, <2>4
    <3> QED BY <2>4, <3>1, <3>2
  <2> HIDE DEF x, d
  <2>7. CASE t[d].end
    <3>1. W(d) = W(x)
      BY <2>4, <2>7, WordOf
    <3>2. d \in Ends(t) /\ Len(W(x)) \in Nat
      BY <2>4, <2>5, <2>7, LenProperties DEF Ends
    <3> QED BY <2>3, <3>1, <3>2
  <2>8. CASE ~t[d].end
    <3>1. PICK e \in Ends(t) : Begins(d, e)
      BY <2>6, <2>8
    <3>2. W(d) = Append(W(x), t[d].value) /\ t[d].value \in Chars
      BY <2>4, <2>8, WordOf, LeafOf
    <3>3. e \in DOMAIN t /\ W(e) \in Seq(Chars)
      BY WordsType DEF Ends
    <3> HIDE DEF W
    <3>4. /\ Len(W(x)) \in Nat /\ Len(W(e)) \in Nat /\ Len(W(d)) = Len(W(x)) + 1
          /\ \A m \in 1 .. Len(W(x)) : W(d)[m] = W(x)[m]
      BY <2>5, <3>2, <3>3, LenProperties, AppendProperties
    <3>5. Begins(x, e)
      BY <3>1, <3>4
    <3> QED BY <2>3, <3>5
  <2> QED BY <2>7, <2>8
<1>3. Good(p)
  <2> HIDE DEF Good
  <2>1. N - p \notin Bad /\ N - (N - p) = p /\ N - p \in 0 .. N
    BY <1>1, <1>2
  <2> QED BY <2>1
<1> QED BY <1>3

\* Word q begins with w.
Begins(q, w) == Len(w) <= Len(q) /\ SubSeq(q, 1, Len(w)) = w

\* A word that is stored and goes on behind the word above a family goes on with the
\* character of a leaf in it.
LEMMA Branches ==
  ASSUME NEW t, Forest(t), NEW i, First(t, i), NEW q \in Stored(t),
         Begins(q, Above(t, i)), Len(Above(t, i)) < Len(q)
  PROVE  \E p \in DOMAIN t : Family(t, i, p) /\ Carries(t, p, q[Len(Above(t, i)) + 1])
<1> DEFINE w == Above(t, i)
           n == Len(w)
           at(m) == Path(t, q)[m]
<1>1. PICK e \in Ends(t) : Words(t)[e] = q
  BY DEF Stored
<1>2. e \in DOMAIN t /\ t[e].end /\ i \in DOMAIN t
  BY DEF Ends, First
<1>3. q \in Seq(Chars) /\ w \in Seq(Chars)
  BY <1>1, <1>2, WordsType
<1>4. Len(q) \in Nat /\ n \in Nat /\ n < Len(q) /\ SubSeq(q, 1, n) = w
  BY <1>3, LenProperties DEF Begins
<1>5. Above(t, e) = q /\ t[e].parent # None
  <2>1. Above(t, e) = q
    BY <1>1, <1>2, WordOf
  <2>2. q # <<>>
    BY <1>3, <1>4, EmptySeq
  <2> QED BY <2>1, <2>2 DEF Above
<1> HIDE DEF w, n
<1>6. at(Len(q) + 1) # None
  <2> DEFINE p == t[e].parent
  <2>1. /\ p \in DOMAIN t /\ ~t[p].end /\ t[p].child # 0
        /\ First(t, t[p].child)
    BY <1>2, <1>5, ParentOf
  <2>2. Words(t)[p] = q
    BY <1>5 DEF Above
  <2> HIDE DEF p
  <2>5. Len(q) <= Len(q) /\ \A m \in 1 .. Len(q) : q[m] = q[m]
    BY <1>4
  <2>3. Path(t, q)[Len(q) + 1] = t[p].child
    BY <1>3, <2>1, <2>2, <2>5, PathFinds
  <2>4. t[p].child # None
    BY <2>1, LeafOf DEF First, None
  <2> QED BY <2>3, <2>4
<1>7. \A m \in 1 .. Len(q) + 1 :
        at(m) = IF m = 1 THEN 0 ELSE IF at(m - 1) = None THEN None ELSE Descend(t, at(m - 1), q[m - 1])
  BY <1>3, PathIs DEF Reached
<1> HIDE DEF at
<1>8. \A m \in 1 .. Len(q) + 1 : at(m) # None
  <2> DEFINE Bad == {r \in 0 .. Len(q) : at(Len(q) + 1 - r) = None}
  <2> SUFFICES ASSUME Bad # {} PROVE FALSE
    <3>1. \A m \in 1 .. Len(q) + 1 : Len(q) + 1 - m \in 0 .. Len(q) /\ Len(q) + 1 - (Len(q) + 1 - m) = m
      BY <1>4
    <3>2. Bad = {} => \A m \in 1 .. Len(q) + 1 : at(m) # None
      BY <3>1
    <3> QED BY <3>2
  <2>1. PICK r \in Bad : \A l \in Bad : r <= l
    <3>1. Bad \subseteq Nat
      BY <1>4
    <3> HIDE DEF Bad
    <3> QED BY <3>1, LeastOf
  <2>2. r \in 0 .. Len(q) /\ at(Len(q) + 1 - r) = None
    OBVIOUS
  <2>3. r # 0
    BY <1>4, <1>6, <2>2
  <2>4. r - 1 \notin Bad /\ r - 1 \in 0 .. Len(q)
    <3> HIDE DEF Bad
    <3> QED BY <1>4, <2>1, <2>2, <2>3
  <2>5. at(Len(q) + 1 - (r - 1)) # None
    BY <2>4
  <2>6. at(Len(q) + 1 - (r - 1)) = None
    <3> DEFINE m == Len(q) + 1 - (r - 1)
    <3>1. m \in 1 .. Len(q) + 1 /\ m # 1 /\ m - 1 = Len(q) + 1 - r
      BY <1>4, <2>2, <2>3
    <3>2. at(m - 1) = None
      BY <2>2, <3>1
    <3> HIDE DEF m
    <3>3. at(m) = None
      BY <1>7, <3>1, <3>2
    <3> QED BY <3>3 DEF m
  <2> QED BY <2>5, <2>6
<1>9. First(t, at(n + 1)) /\ Above(t, at(n + 1)) = w
  <2>1. n + 1 \in 1 .. Len(q) + 1 /\ n + 1 - 1 = n
    BY <1>4
  <2>2. Path(t, q)[n + 1] # None
    BY <1>8, <2>1 DEF at
  <2>3. Size(t) > 0
    BY <1>2, LeafOf
  <2>4. ASSUME NEW m \in 1 .. Len(q) + 1, Path(t, q)[m] # None
        PROVE  First(t, Path(t, q)[m]) /\ Above(t, Path(t, q)[m]) = SubSeq(q, 1, m - 1)
    BY <1>3, <2>3, <2>4, PathLeads
  <2>5. First(t, Path(t, q)[n + 1]) /\ Above(t, Path(t, q)[n + 1]) = SubSeq(q, 1, n)
    <3>1. ASSUME NEW m, m = n + 1
          PROVE  First(t, Path(t, q)[m]) /\ Above(t, Path(t, q)[m]) = SubSeq(q, 1, n)
      <4>1. m \in 1 .. Len(q) + 1 /\ Path(t, q)[m] # None /\ m - 1 = n
        BY <1>4, <2>1, <2>2, <3>1
      <4>2. First(t, Path(t, q)[m]) /\ Above(t, Path(t, q)[m]) = SubSeq(q, 1, m - 1)
        BY <2>4, <4>1
      <4> QED BY <4>1, <4>2
    <3> QED BY <3>1
  <2> QED BY <1>4, <2>5 DEF at
<1>10. at(n + 1) = i
  BY <1>9, FirstUnique DEF w
<1>11. Descend(t, i, q[n + 1]) # None
  <2>1. n + 2 \in 1 .. Len(q) + 1 /\ n + 2 # 1 /\ n + 2 - 1 = n + 1
    BY <1>4
  <2>2. at(n + 2) # None /\ at(n + 2 - 1) = i
    BY <1>8, <1>10, <2>1
  <2>3. ASSUME NEW m \in 1 .. Len(q) + 1, m # 1
        PROVE  at(m) = IF at(m - 1) = None THEN None ELSE Descend(t, at(m - 1), q[m - 1])
    BY <1>7, <2>3
  <2>4. ASSUME NEW m, m = n + 2
        PROVE  at(m) = Descend(t, i, q[n + 1])
    <3>1. m \in 1 .. Len(q) + 1 /\ m # 1 /\ m - 1 = n + 1
      BY <1>4, <2>4
    <3>2. i # None
      BY <1>2, LeafOf DEF None
    <3>3. at(m - 1) = i
      BY <1>10, <3>1
    <3>4. at(m) = Descend(t, at(m - 1), q[m - 1])
      BY <2>3, <3>1, <3>2, <3>3
    <3> QED BY <3>1, <3>3, <3>4
  <2> QED BY <2>2, <2>4
<1>12. \E p : Family(t, i, p) /\ Carries(t, p, q[n + 1])
  BY <1>11, DescendIs
<1> QED BY <1>12 DEF Carries, n, w

-----------------------------------------------------------------------------
(* The search is well defined                                              *)

\* The search's equation.
Sought(t, text, g, at) ==
  LET pos == SkipIgnored(text, at[1])
      f == FindSibling(t, at[2], text[pos])
      below == t[f.item].child
      end == EndAmong(t, below)
      next(j) == g[<<pos + 1, j>>]
      further == {j \in DOMAIN t : Family(t, below, j) /\ next(j) # NoMatch}
  IN  IF pos > Len(text) THEN NoMatch
      ELSE IF ~f.found THEN NoMatch
      ELSE IF below = 0 THEN Match(f.item, pos)
      ELSE IF end = None THEN next(below)
      ELSE Longer(Match(end, pos), next(Along(t, below, further)))

\* Leaf i, wherever it is, is in the array and what is found from it on too.
LEMMA FoundIn ==
  ASSUME NEW t, Forest(t), NEW i \in DOMAIN t, NEW c, FindSibling(t, i, c).found
  PROVE  LET f == FindSibling(t, i, c) IN
         /\ f.item \in DOMAIN t /\ ~t[f.item].end /\ t[f.item].value = c
<1> DEFINE f == FindSibling(t, i, c)
<1>1. f.item \in Holding(t, c)
  BY FoundIs
<1> HIDE DEF f
<1> QED BY <1>1 DEF Holding, f

\* The equation looks at later positions only.
LEMMA SoughtSame ==
  ASSUME NEW t, Forest(t), NEW text \in Seq(Chars), NEW k \in 1 .. Len(text) + 1,
         NEW i \in DOMAIN t, NEW g, NEW h,
         \A l \in k + 1 .. Len(text) + 1, j \in DOMAIN t : g[<<l, j>>] = h[<<l, j>>]
  PROVE  Sought(t, text, g, <<k, i>>) = Sought(t, text, h, <<k, i>>)
<1> DEFINE pos == SkipIgnored(text, k)
           f == FindSibling(t, i, text[pos])
           below == t[f.item].child
           end == EndAmong(t, below)
           further(m) == {j \in DOMAIN t : Family(t, below, j) /\ m[<<pos + 1, j>>] # NoMatch}
           Found(m) ==
             IF below = 0 THEN Match(f.item, pos)
             ELSE IF end = None THEN m[<<pos + 1, below>>]
             ELSE Longer(Match(end, pos), m[<<pos + 1, Along(t, below, further(m))>>])
<1>1. \A m : Sought(t, text, m, <<k, i>>) =
        IF pos > Len(text) THEN NoMatch ELSE IF ~f.found THEN NoMatch ELSE Found(m)
  BY DEF Sought
<1>2. ASSUME ~(pos > Len(text)), f.found
      PROVE  Found(g) = Found(h)
  <2>1. pos \in k .. Len(text) + 1 /\ Len(text) \in Nat
    BY SkipIs, LenProperties
  <2>2. pos + 1 \in k + 1 .. Len(text) + 1
    BY <1>2, <2>1
  <2>3. f.item \in DOMAIN t /\ ~t[f.item].end
    BY <1>2, FoundIn
  <2>4. below \in DOMAIN t /\ First(t, below)
    BY <2>3, Grows
  <2> HIDE DEF pos, f, below, end
  <2>5. \A j \in DOMAIN t : g[<<pos + 1, j>>] = h[<<pos + 1, j>>]
    BY <2>2
  <2>6. further(g) = further(h)
    BY <2>5
  <2>7. Along(t, below, further(g)) \in DOMAIN t
    <3> HIDE DEF further
    <3> QED BY <2>4, AlongAll
  <2> HIDE DEF further
  <2>8. /\ g[<<pos + 1, below>>] = h[<<pos + 1, below>>]
        /\ g[<<pos + 1, Along(t, below, further(g))>>] = h[<<pos + 1, Along(t, below, further(h))>>]
    BY <2>4, <2>5, <2>6, <2>7
  <2> QED BY <2>8
<1> HIDE DEF Found
<1> QED BY <1>1, <1>2

\* The search is the function that its equation says.
LEMMA SearchIs ==
  ASSUME NEW t, Forest(t), NEW text \in Seq(Chars)
  PROVE  Search(t, text) =
           [at \in (1 .. Len(text) + 1) \X DOMAIN t |-> Sought(t, text, Search(t, text), at)]
<1> DEFINE N == Len(text) + 1
           From(n) == (N + 1 - n .. N) \X DOMAIN t
           Good(n) == \E g : g = [at \in From(n) |-> Sought(t, text, g, at)]
           Bad == {n \in 0 .. N : ~Good(n)}
<1>1. N \in Nat /\ Len(text) \in Nat
  BY LenProperties
<1>2. Bad = {}
  <2> SUFFICES ASSUME Bad # {} PROVE FALSE
    OBVIOUS
  <2>1. PICK n \in Bad : \A m \in Bad : n <= m
    <3>1. Bad \subseteq Nat
      BY <1>1
    <3> HIDE DEF Bad
    <3> QED BY <3>1, LeastOf
  <2>2. n \in 0 .. N /\ ~Good(n)
    OBVIOUS
  <2>3. n # 0
    <3>1. From(0) = {}
      BY <1>1
    <3>2. Good(0)
      <4> HIDE DEF From
      <4>1. [at \in {} |-> 0] = [at \in From(0) |-> Sought(t, text, [l \in {} |-> 0], at)]
        BY <3>1
      <4> QED BY <4>1
    <3> QED BY <2>2, <3>2
  <2>4. n - 1 \in 0 .. N /\ Good(n - 1)
    <3>1. n - 1 \in 0 .. N /\ n - 1 \notin Bad
      <4> HIDE DEF Bad
      <4> QED BY <1>1, <2>1, <2>2, <2>3
    <3> HIDE DEF Good
    <3> QED BY <3>1
  <2>5. PICK g : g = [at \in From(n - 1) |-> Sought(t, text, g, at)]
    BY <2>4
  <2> DEFINE k == N + 1 - n
             h == [at \in From(n) |-> IF at[1] = k THEN Sought(t, text, g, at) ELSE g[at]]
  <2>6. k \in 1 .. N /\ N + 1 - (n - 1) = k + 1
    BY <1>1, <2>2, <2>3
  <2> HIDE DEF k
  <2>7. From(n) = (k .. N) \X DOMAIN t /\ From(n - 1) = (k + 1 .. N) \X DOMAIN t
    BY <2>6 DEF k
  <2>8. \A l \in k + 1 .. N, j \in DOMAIN t : g[<<l, j>>] = h[<<l, j>>]
    <3> SUFFICES ASSUME NEW l \in k + 1 .. N, NEW j \in DOMAIN t
                 PROVE  g[<<l, j>>] = h[<<l, j>>]
      OBVIOUS
    <3>1. <<l, j>> \in From(n) /\ <<l, j>>[1] = l /\ l # k
      BY <1>1, <2>6, <2>7
    <3> QED BY <3>1
  <2> HIDE DEF h
  <2>9. ASSUME NEW l \in k .. N, NEW j \in DOMAIN t
        PROVE  /\ Sought(t, text, h, <<l, j>>) = Sought(t, text, g, <<l, j>>)
               /\ h[<<l, j>>] = Sought(t, text, g, <<l, j>>)
    <3>1. l \in 1 .. Len(text) + 1 /\ l \in 1 .. N
      BY <1>1, <2>6
    <3>2. ASSUME NEW m \in l + 1 .. Len(text) + 1, NEW x \in DOMAIN t
          PROVE  h[<<m, x>>] = g[<<m, x>>]
      <4>1. m \in k + 1 .. N
        BY <1>1, <2>6
      <4> HIDE DEF N
      <4> QED BY <2>8, <4>1
    <3>3. Sought(t, text, h, <<l, j>>) = Sought(t, text, g, <<l, j>>)
      <4> HIDE DEF N
      <4> QED BY <3>1, <3>2, SoughtSame
    <3>4. h[<<l, j>>] = Sought(t, text, g, <<l, j>>)
      <4>1. <<l, j>> \in From(n) /\ <<l, j>>[1] = l
        BY <2>7
      <4>2. l # k => <<l, j>> \in From(n - 1)
        BY <1>1, <2>6, <2>7
      <4>3. h[<<l, j>>] = IF l = k THEN Sought(t, text, g, <<l, j>>) ELSE g[<<l, j>>]
        BY <4>1 DEF h
      <4> HIDE DEF From
      <4>4. l # k => g[<<l, j>>] = Sought(t, text, g, <<l, j>>)
        BY <2>5, <4>2
      <4> QED BY <4>3, <4>4
    <3> QED BY <3>3, <3>4
  <2>10. h = [at \in From(n) |-> Sought(t, text, h, at)]
    <3>1. h = [at \in From(n) |-> h[at]]
      BY DEF h
    <3>2. ASSUME NEW at \in From(n)
          PROVE  h[at] = Sought(t, text, h, at)
      <4>1. PICK l \in k .. N, j \in DOMAIN t : at = <<l, j>>
        BY <2>7
      <4> QED BY <2>9, <4>1
    <3> HIDE DEF From
    <3> QED BY <3>1, <3>2
  <2>11. Good(n)
    BY <2>10
  <2> QED BY <2>2, <2>11
<1>3. \E g : g = [at \in (1 .. N) \X DOMAIN t |-> Sought(t, text, g, at)]
  <2>1. N \in 0 .. N /\ N + 1 - N = 1
    BY <1>1
  <2>2. Good(N)
    <3> HIDE DEF Good
    <3> QED BY <1>2, <2>1
  <2> QED BY <2>1, <2>2
<1>4. Search(t, text) = CHOOSE g : g = [at \in (1 .. N) \X DOMAIN t |-> Sought(t, text, g, at)]
  BY DEF Search, Sought
<1> QED BY <1>3, <1>4

\* To begin with one character more is to have it next.
LEMMA BeginsGrows ==
  ASSUME NEW q \in Seq(Chars), NEW w \in Seq(Chars), NEW c \in Chars
  PROVE  /\ Begins(q, Append(w, c)) <=>
              Len(w) < Len(q) /\ Begins(q, w) /\ q[Len(w) + 1] = c
         /\ Begins(q, w) /\ Len(w) + 1 = Len(q) /\ q[Len(w) + 1] = c => q = Append(w, c)
<1> DEFINE n == Len(w)
           u == Append(w, c)
<1>1. n \in Nat /\ Len(q) \in Nat
  BY LenProperties
<1>2. u \in Seq(Chars) /\ Len(u) = n + 1 /\ u[n + 1] = c /\ \A m \in 1 .. n : u[m] = w[m]
  BY AppendProperties
<1>3. ASSUME NEW l \in 0 .. Len(q)
      PROVE  /\ SubSeq(q, 1, l) \in Seq(Chars) /\ Len(SubSeq(q, 1, l)) = l
             /\ \A m \in 1 .. l : SubSeq(q, 1, l)[m] = q[m]
  <2>1. \A m \in 1 .. l : q[m] \in Chars
    BY <1>1, ElementOfSeq
  <2> QED BY <1>1, <2>1, SubSeqProperties
<1>4. ASSUME NEW v \in Seq(Chars)
      PROVE  Begins(q, v) <=> Len(v) <= Len(q) /\ \A m \in 1 .. Len(v) : q[m] = v[m]
  <2>1. Len(v) \in Nat
    BY LenProperties
  <2>2. ASSUME Len(v) <= Len(q), \A m \in 1 .. Len(v) : q[m] = v[m]
        PROVE  SubSeq(q, 1, Len(v)) = v
    <3> DEFINE r == SubSeq(q, 1, Len(v))
    <3>1. r \in Seq(Chars) /\ Len(r) = Len(v) /\ \A m \in 1 .. Len(v) : r[m] = v[m]
      BY <1>1, <1>3, <2>1, <2>2
    <3> HIDE DEF r
    <3>2. r = v
      BY <3>1, SeqEqual
    <3> QED BY <3>2 DEF r
  <2>3. ASSUME Len(v) <= Len(q), SubSeq(q, 1, Len(v)) = v, NEW m \in 1 .. Len(v)
        PROVE  q[m] = v[m]
    BY <1>1, <1>3, <2>1, <2>3
  <2> QED BY <2>2, <2>3 DEF Begins
<1> HIDE DEF n, u
<1>5. Begins(q, u) <=> n < Len(q) /\ Begins(q, w) /\ q[n + 1] = c
  <2>1. Begins(q, u) <=> n + 1 <= Len(q) /\ \A m \in 1 .. n + 1 : q[m] = u[m]
    BY <1>2, <1>4
  <2>2. Begins(q, w) <=> n <= Len(q) /\ \A m \in 1 .. n : q[m] = w[m]
    BY <1>4 DEF n
  <2>3. (\A m \in 1 .. n + 1 : q[m] = u[m]) <=>
          (\A m \in 1 .. n : q[m] = w[m]) /\ q[n + 1] = c
    BY <1>1, <1>2
  <2> QED BY <1>1, <2>1, <2>2, <2>3
<1>6. ASSUME Begins(q, w), n + 1 = Len(q), q[n + 1] = c
      PROVE  q = u
  <2>1. Begins(q, u)
    BY <1>1, <1>5, <1>6
  <2>2. Len(u) = Len(q) /\ \A m \in 1 .. Len(u) : q[m] = u[m]
    BY <1>2, <1>4, <1>6, <2>1
  <2> QED BY <1>2, <2>2, SeqEqual
<1> QED BY <1>5, <1>6 DEF n, u

\* Word q is stored, it goes on behind the word above the family of i, and what counts
\* of the text from k to j is the rest of it.
Reads(t, text, k, i, j, q) ==
  /\ q \in Stored(t) /\ Begins(q, Above(t, i))
  /\ j \in k .. Len(text) /\ text[j] \notin Ignored
  /\ Goes(text, k, j, q, Len(Above(t, i)))

\* Nothing is read where nothing counts any more.
LEMMA ReadsNothing ==
  ASSUME NEW t, NEW text \in Seq(Chars), NEW k \in 1 .. Len(text) + 1, NEW i,
         SkipIgnored(text, k) > Len(text), NEW j, NEW q
  PROVE  ~Reads(t, text, k, i, j, q)
<1>1. Len(text) \in Nat
  BY LenProperties
<1>2. \A l \in k .. SkipIgnored(text, k) - 1 : text[l] \in Ignored
  BY SkipIs
<1>3. SkipIgnored(text, k) \in k .. Len(text) + 1
  BY SkipIs
<1>4. j \in k .. Len(text) => j \in k .. SkipIgnored(text, k) - 1
  BY <1>1, <1>3
<1> QED BY <1>2, <1>4 DEF Reads

\* A word that is read goes on with the next character that counts, of which there is a
\* leaf then.
LEMMA ReadsOne ==
  ASSUME NEW t, Forest(t), NEW text \in Seq(Chars), NEW k \in 1 .. Len(text),
         NEW i, First(t, i), SkipIgnored(text, k) <= Len(text),
         NEW j, NEW q, Reads(t, text, k, i, j, q)
  PROVE  LET pos == SkipIgnored(text, k) IN
         /\ j \in pos .. Len(text) /\ q \in Seq(Chars)
         /\ Len(Above(t, i)) < Len(q) /\ q[Len(Above(t, i)) + 1] = text[pos]
         /\ \E p \in DOMAIN t : Family(t, i, p) /\ Carries(t, p, text[pos])
<1> DEFINE pos == SkipIgnored(text, k)
           n == Len(Above(t, i))
<1>1. /\ q \in Stored(t) /\ Begins(q, Above(t, i))
      /\ j \in k .. Len(text) /\ text[j] \notin Ignored /\ Goes(text, k, j, q, n)
  BY DEF Reads
<1>2. q \in Seq(Chars)
  BY <1>1, WordsType DEF Stored, Ends
<1>3. Above(t, i) \in Seq(Chars) /\ n \in Nat /\ Len(text) \in Nat
  BY WordsType, LenProperties DEF First
<1>4. pos \in k .. Len(text)
  BY <1>3, SkipIs
<1> HIDE DEF n
<1>5. /\ j >= pos
      /\ Goes(text, k, j, q, n) => n < Len(q)
      /\ j > pos => (Goes(text, k, j, q, n) =>
                          n < Len(q) /\ q[n + 1] = text[pos] /\ Goes(text, pos + 1, j, q, n + 1))
      /\ j = pos => (Goes(text, k, j, q, n) => n + 1 = Len(q) /\ q[n + 1] = text[pos])
  BY <1>1, <1>2, <1>3, GoesOn
<1> HIDE DEF pos
<1>6. n < Len(q) /\ q[n + 1] = text[pos] /\ j \in pos .. Len(text)
  BY <1>1, <1>3, <1>4, <1>5
<1>7. \E p \in DOMAIN t : Family(t, i, p) /\ Carries(t, p, q[n + 1])
  BY <1>1, <1>6, Branches DEF n
<1> QED BY <1>2, <1>6, <1>7 DEF pos, n

\* What is read from the family of i on is the word that ends with the next leaf, or is
\* read from the family below that on.
LEMMA ReadsOn ==
  ASSUME NEW t, Forest(t), NEW text \in Seq(Chars), NEW k \in 1 .. Len(text),
         NEW i, First(t, i), SkipIgnored(text, k) <= Len(text),
         NEW p \in DOMAIN t, Family(t, i, p), Carries(t, p, text[SkipIgnored(text, k)]),
         NEW j, NEW q
  PROVE  LET pos == SkipIgnored(text, k)
             d == t[p].child IN
         Reads(t, text, k, i, j, q) <=>
           \/ j = pos /\ q = Above(t, d) /\ q \in Stored(t)
           \/ Reads(t, text, pos + 1, d, j, q)
<1> DEFINE pos == SkipIgnored(text, k)
           d == t[p].child
           w == Above(t, i)
           n == Len(w)
           c == text[pos]
<1>1. /\ First(t, d) /\ Above(t, d) = Append(w, c) /\ c \in Chars
      /\ ~t[p].end
  <2>1. ~t[p].end /\ t[p].value = c
    BY DEF Carries
  <2>2. Above(t, p) = w
    BY DEF Family, Above
  <2> HIDE DEF c, w
  <2> QED BY <2>1, <2>2, Grows, LeafOf
<1>2. w \in Seq(Chars) /\ n \in Nat /\ Len(text) \in Nat
  BY WordsType, LenProperties DEF First
<1>3. pos \in k .. Len(text) /\ c \notin Ignored
  BY <1>2, SkipIs
<1>4. Above(t, d) \in Seq(Chars) /\ Len(Above(t, d)) = n + 1
  BY <1>1, <1>2, AppendProperties
<1>5. /\ Reads(t, text, k, i, j, q) <=>
           /\ q \in Stored(t) /\ Begins(q, w)
           /\ j \in k .. Len(text) /\ text[j] \notin Ignored
           /\ Goes(text, k, j, q, n)
      /\ Reads(t, text, pos + 1, d, j, q) <=>
           /\ q \in Stored(t) /\ Begins(q, Append(w, c))
           /\ j \in pos + 1 .. Len(text) /\ text[j] \notin Ignored
           /\ Goes(text, pos + 1, j, q, n + 1)
  <2> HIDE DEF pos, c, d
  <2> QED BY <1>1, <1>4 DEF Reads
<1> HIDE DEF d, w, n
<1>6. q \in Stored(t) => q \in Seq(Chars)
  BY WordsType DEF Stored, Ends
<1>7. ASSUME j \in k .. Len(text), text[j] \notin Ignored, q \in Seq(Chars)
      PROVE  /\ j >= pos
             /\ j > pos => (Goes(text, k, j, q, n) <=>
                              n < Len(q) /\ q[n + 1] = c /\ Goes(text, pos + 1, j, q, n + 1))
             /\ j = pos => (Goes(text, k, j, q, n) <=> n + 1 = Len(q) /\ q[n + 1] = c)
  BY <1>2, <1>7, GoesOn
<1>8. ASSUME q \in Seq(Chars)
      PROVE  /\ Begins(q, Append(w, c)) <=> n < Len(q) /\ Begins(q, w) /\ q[n + 1] = c
             /\ Begins(q, w) /\ n + 1 = Len(q) /\ q[n + 1] = c => q = Append(w, c)
  BY <1>1, <1>2, <1>8, BeginsGrows DEF n
<1> HIDE DEF pos, c
<1>9. ASSUME Reads(t, text, k, i, j, q)
      PROVE  \/ j = pos /\ q = Above(t, d) /\ q \in Stored(t)
             \/ Reads(t, text, pos + 1, d, j, q)
  <2>1. /\ q \in Stored(t) /\ q \in Seq(Chars) /\ Begins(q, w)
        /\ j \in k .. Len(text) /\ text[j] \notin Ignored /\ Goes(text, k, j, q, n)
    BY <1>5, <1>6, <1>9
  <2>2. CASE j = pos
    BY <1>1, <1>7, <1>8, <2>1, <2>2
  <2>3. CASE j # pos
    <3>1. j > pos /\ j \in pos + 1 .. Len(text)
      BY <1>2, <1>3, <1>7, <2>1, <2>3
    <3> QED BY <1>5, <1>7, <1>8, <2>1, <3>1
  <2> QED BY <2>2, <2>3
<1>10. ASSUME j = pos, q = Above(t, d), q \in Stored(t)
       PROVE  Reads(t, text, k, i, j, q)
  <2>1. q \in Seq(Chars) /\ q = Append(w, c) /\ Len(q) = n + 1
    BY <1>1, <1>4, <1>10
  <2>2. Begins(q, Append(w, c))
    <3>1. SubSeq(q, 1, Len(q)) = q
      BY <2>1, SubSeqFull
    <3>2. Len(q) <= Len(q)
      BY <1>2, <2>1
    <3> QED BY <2>1, <3>1, <3>2 DEF Begins
  <2>3. Begins(q, w) /\ q[n + 1] = c
    BY <1>8, <2>1, <2>2
  <2>4. Goes(text, k, j, q, n)
    BY <1>2, <1>3, <1>7, <1>10, <2>1, <2>3 DEF c
  <2>5. j \in k .. Len(text) /\ text[j] \notin Ignored
    BY <1>3, <1>10 DEF c
  <2> QED BY <1>5, <1>10, <2>3, <2>4, <2>5
<1>11. ASSUME Reads(t, text, pos + 1, d, j, q)
       PROVE  Reads(t, text, k, i, j, q)
  <2>1. /\ q \in Stored(t) /\ q \in Seq(Chars) /\ Begins(q, Append(w, c))
        /\ j \in pos + 1 .. Len(text) /\ text[j] \notin Ignored
        /\ Goes(text, pos + 1, j, q, n + 1)
    BY <1>5, <1>6, <1>11
  <2>2. j \in k .. Len(text) /\ j > pos
    BY <1>2, <1>3, <2>1
  <2>3. n < Len(q) /\ Begins(q, w) /\ q[n + 1] = c
    BY <1>8, <2>1
  <2> QED BY <1>5, <1>7, <2>1, <2>2, <2>3
<1> QED BY <1>9, <1>10, <1>11 DEF pos, d

\* What the search does at leaf i.
LEMMA SearchAt ==
  ASSUME NEW t, Forest(t), NEW text \in Seq(Chars), NEW k \in 1 .. Len(text) + 1,
         NEW i \in DOMAIN t
  PROVE  Search(t, text)[<<k, i>>] = Sought(t, text, Search(t, text), <<k, i>>)
<1> DEFINE g == Search(t, text)
           At == (1 .. Len(text) + 1) \X DOMAIN t
<1>1. g = [at \in At |-> Sought(t, text, g, at)]
  BY SearchIs
<1>2. <<k, i>> \in At
  OBVIOUS
<1> HIDE DEF g, At
<1>3. g[<<k, i>>] = Sought(t, text, g, <<k, i>>)
  BY <1>1, <1>2
<1> QED BY <1>3 DEF g

\* Match m is the longest of what is read from position k and the family of i on, and
\* there is none only if nothing is read.
Longest(t, text, k, i, m) ==
  /\ m = NoMatch => \A j, q : ~Reads(t, text, k, i, j, q)
  /\ m # NoMatch =>
       /\ m.item \in Ends(t)
       /\ Reads(t, text, k, i, m.to, Words(t)[m.item])
       /\ \A j, q : Reads(t, text, k, i, j, q) => Len(q) <= Len(Words(t)[m.item])

\* A brother from whom on something is found makes no difference to the search.
LEMMA BrotherSearch ==
  ASSUME NEW t, Forest(t), NEW text \in Seq(Chars), NEW k \in 1 .. Len(text) + 1,
         NEW i, First(t, i), NEW j \in DOMAIN t, Family(t, i, j),
         FindSibling(t, j, text[SkipIgnored(text, k)]).found
  PROVE  Search(t, text)[<<k, j>>] = Search(t, text)[<<k, i>>]
<1> DEFINE g == Search(t, text)
           pos == SkipIgnored(text, k)
<1>1. /\ g[<<k, j>>] = Sought(t, text, g, <<k, j>>)
      /\ g[<<k, i>>] = Sought(t, text, g, <<k, i>>)
  BY SearchAt DEF First
<1> HIDE DEF g
<1>2. FindSibling(t, j, text[pos]) = FindSibling(t, i, text[pos])
  BY FoundFrom
<1>3. Sought(t, text, g, <<k, j>>) = Sought(t, text, g, <<k, i>>)
  BY <1>2 DEF Sought
<1> QED BY <1>1, <1>3 DEF g

\* A search with a brother that finds something finds what one with the first does.
LEMMA AmongIs ==
  ASSUME NEW t, Forest(t), NEW text \in Seq(Chars), NEW k \in 1 .. Len(text) + 1,
         NEW i, First(t, i), NEW j \in DOMAIN t, Family(t, i, j),
         Search(t, text)[<<k, j>>] # NoMatch
  PROVE  Search(t, text)[<<k, j>>] = Search(t, text)[<<k, i>>]
<1> DEFINE g == Search(t, text)
<1>1. g[<<k, j>>] = Sought(t, text, g, <<k, j>>)
  BY SearchAt
<1> HIDE DEF g
<1>2. FindSibling(t, j, text[SkipIgnored(text, k)]).found
  BY <1>1 DEF Sought, g
<1> QED BY <1>2, BrotherSearch

\* What the search does at a leaf where a family begins.
LEMMA SearchStep ==
  ASSUME NEW t, Forest(t), NEW text \in Seq(Chars), NEW k \in 1 .. Len(text) + 1,
         NEW i, First(t, i)
  PROVE  LET pos == SkipIgnored(text, k)
             f == FindSibling(t, i, text[pos])
             d == t[f.item].child
             end == EndAmong(t, d)
             m == Search(t, text)[<<k, i>>]
             next == Search(t, text)[<<pos + 1, d>>]
         IN  /\ pos > Len(text) => m = NoMatch
             /\ pos <= Len(text) /\ ~f.found => m = NoMatch
             /\ pos <= Len(text) /\ f.found =>
                  m = IF end = None THEN next ELSE Longer(Match(end, pos), next)
<1> DEFINE g == Search(t, text)
           pos == SkipIgnored(text, k)
           f == FindSibling(t, i, text[pos])
           d == t[f.item].child
           end == EndAmong(t, d)
           further == {j \in DOMAIN t : Family(t, d, j) /\ g[<<pos + 1, j>>] # NoMatch}
           J == Along(t, d, further)
<1>1. i \in DOMAIN t
  BY DEF First
<1>2. pos \in k .. Len(text) + 1 /\ Len(text) \in Nat
  BY SkipIs, LenProperties
<1>3. g[<<k, i>>] = Sought(t, text, g, <<k, i>>)
  BY <1>1, SearchAt
<1> HIDE DEF g
<1>4. Sought(t, text, g, <<k, i>>) =
        IF pos > Len(text) THEN NoMatch
        ELSE IF ~f.found THEN NoMatch
        ELSE IF d = 0 THEN Match(f.item, pos)
        ELSE IF end = None THEN g[<<pos + 1, d>>]
        ELSE Longer(Match(end, pos), g[<<pos + 1, J>>])
  BY DEF Sought
<1>5. ASSUME pos <= Len(text), f.found
      PROVE  d # 0 /\ g[<<pos + 1, J>>] = g[<<pos + 1, d>>]
  <2>1. f.item \in DOMAIN t /\ ~t[f.item].end
    BY <1>1, <1>5, FoundIn
  <2>2. d # 0 /\ d \in DOMAIN t /\ First(t, d)
    BY <2>1, Grows
  <2> HIDE DEF pos, f, d
  <2>3. /\ J \in DOMAIN t /\ Family(t, d, J)
        /\ J \notin further => \A x \in DOMAIN t : Family(t, d, x) => x \notin further
    <3> HIDE DEF further
    <3> QED BY <2>2, AlongAll
  <2>4. Family(t, d, d)
    BY <2>2 DEF First, Family
  <2> HIDE DEF J
  <2>5. CASE g[<<pos + 1, J>>] # NoMatch
    <3>1. pos + 1 \in 1 .. Len(text) + 1
      BY <1>2, <1>5
    <3>2. \A l \in 1 .. Len(text) + 1 : g[<<l, J>>] # NoMatch => g[<<l, J>>] = g[<<l, d>>]
      BY <2>2, <2>3, AmongIs DEF g
    <3> QED BY <2>2, <2>5, <3>1, <3>2
  <2>6. CASE g[<<pos + 1, J>>] = NoMatch
    <3>1. J \notin further
      BY <2>6
    <3>2. d \notin further
      BY <2>2, <2>3, <2>4, <3>1
    <3> QED BY <2>2, <2>4, <2>6, <3>2
  <2> QED BY <2>2, <2>5, <2>6
<1> HIDE DEF pos, f, d, end, J
<1>6. /\ pos > Len(text) => g[<<k, i>>] = NoMatch
      /\ pos <= Len(text) /\ ~f.found => g[<<k, i>>] = NoMatch
      /\ pos <= Len(text) /\ f.found =>
           g[<<k, i>>] = IF end = None THEN g[<<pos + 1, d>>]
                         ELSE Longer(Match(end, pos), g[<<pos + 1, d>>])
  <2>1. pos > Len(text) \/ pos <= Len(text)
    BY <1>2
  <2>2. pos <= Len(text) => ~(pos > Len(text))
    BY <1>2
  <2> QED BY <1>3, <1>4, <1>5, <2>1, <2>2
<1> QED BY <1>6 DEF g, pos, f, d, end

\* From each place the search finds the longest, if it does from all places behind.
LEMMA LongestStep ==
  ASSUME NEW t, Forest(t), NEW text \in Seq(Chars), NEW k \in 1 .. Len(text) + 1,
         NEW i, First(t, i),
         \A l \in k + 1 .. Len(text) + 1 : \A d :
           First(t, d) => Longest(t, text, l, d, Search(t, text)[<<l, d>>])
  PROVE  Longest(t, text, k, i, Search(t, text)[<<k, i>>])
<1> DEFINE pos == SkipIgnored(text, k)
           c == text[pos]
           f == FindSibling(t, i, c)
           p == f.item
           d == t[p].child
           end == EndAmong(t, d)
           m == Search(t, text)[<<k, i>>]
           next == Search(t, text)[<<pos + 1, d>>]
           R(j, q) == Reads(t, text, k, i, j, q)
           S(j, q) == Reads(t, text, pos + 1, d, j, q)
<1>1. Len(text) \in Nat /\ pos \in k .. Len(text) + 1
  BY SkipIs, LenProperties
<1>2. /\ pos > Len(text) => m = NoMatch
      /\ pos <= Len(text) /\ ~f.found => m = NoMatch
      /\ pos <= Len(text) /\ f.found => m = IF end = None THEN next ELSE Longer(Match(end, pos), next)
  BY SearchStep
<1>3. CASE pos > Len(text)
  <2>1. \A j, q : ~R(j, q)
    BY <1>3, ReadsNothing
  <2> HIDE DEF m, R
  <2>2. m = NoMatch
    BY <1>2, <1>3
  <2> QED BY <2>1, <2>2 DEF Longest, R, m
<1>4. CASE pos <= Len(text) /\ ~f.found
  <2>1. k \in 1 .. Len(text)
    BY <1>1, <1>4
  <2>2. \A x : Family(t, i, x) => ~Carries(t, x, c)
    BY <1>4, FindSiblingIs
  <2>3. ASSUME NEW j, NEW q, R(j, q)
        PROVE  FALSE
    <3>1. \E x \in DOMAIN t : Family(t, i, x) /\ Carries(t, x, c)
      BY <1>4, <2>1, <2>3, ReadsOne
    <3> QED BY <2>2, <3>1
  <2> HIDE DEF m, R
  <2>4. m = NoMatch
    BY <1>2, <1>4
  <2> QED BY <2>3, <2>4 DEF Longest, R, m
<1>5. CASE pos <= Len(text) /\ f.found
  <2>1. k \in 1 .. Len(text) /\ pos + 1 \in k + 1 .. Len(text) + 1
    BY <1>1, <1>5
  <2>2. p \in DOMAIN t /\ Family(t, i, p) /\ Carries(t, p, c)
    BY <1>5, FindSiblingIs
  <2>3. /\ First(t, d) /\ t[d].parent # None
        /\ Above(t, d) \in Seq(Chars)
    <3>1. ~t[p].end
      BY <2>2 DEF Carries
    <3>2. First(t, d) /\ t[d].parent # None /\ d \in DOMAIN t
      BY <2>2, <3>1, Grows
    <3> HIDE DEF d
    <3> QED BY <3>2, WordsType
  <2>4. ASSUME NEW j, NEW q
        PROVE  R(j, q) <=> \/ j = pos /\ q = Above(t, d) /\ q \in Stored(t)
                           \/ S(j, q)
    BY <1>5, <2>1, <2>2, ReadsOn
  <2>5. Longest(t, text, pos + 1, d, next)
    <3> HIDE DEF pos, d
    <3> QED BY <2>1, <2>3
  <2>6. /\ end # None => end \in Ends(t) /\ Words(t)[end] = Above(t, d)
        /\ end = None => Above(t, d) \notin Stored(t)
    BY <2>3, EndBelow
  <2>7. /\ next = NoMatch => \A j, q : ~S(j, q)
        /\ next # NoMatch =>
             /\ next.item \in Ends(t) /\ S(next.to, Words(t)[next.item])
             /\ \A j, q : S(j, q) => Len(q) <= Len(Words(t)[next.item])
    BY <2>5 DEF Longest
  <2> HIDE DEF m, next, end, d, R, S, pos, f
  <2>8. m = IF end = None THEN next ELSE Longer(Match(end, pos), next)
    BY <1>2, <1>5
  <2>9. CASE end = None
    <3>1. m = next
      BY <2>8, <2>9
    <3>2. \A j, q : R(j, q) <=> S(j, q)
      BY <2>4, <2>6, <2>9
    <3>3. /\ m = NoMatch => \A j, q : ~R(j, q)
          /\ m # NoMatch => /\ m.item \in Ends(t) /\ R(m.to, Words(t)[m.item])
                           /\ \A j, q : R(j, q) => Len(q) <= Len(Words(t)[m.item])
      BY <2>7, <3>1, <3>2
    <3> QED BY <3>3 DEF Longest, R, m
  <2>10. CASE end # None /\ next = NoMatch
    <3>1. m = Match(end, pos) /\ m.item = end /\ m.to = pos
      BY <2>8, <2>10 DEF Longer, Match
    <3>2. Above(t, d) \in Stored(t)
      BY <2>6, <2>10 DEF Stored
    <3>3. R(pos, Above(t, d))
      BY <2>4, <3>2
    <3>4. \A j, q : R(j, q) => q = Above(t, d)
      BY <2>4, <2>7, <2>10
    <3>5. end \in Ends(t) /\ Words(t)[end] = Above(t, d) /\ Len(Above(t, d)) \in Nat
      BY <2>3, <2>6, <2>10, LenProperties
    <3>6. m # NoMatch
      <4>1. NoMatch.item = None
        BY DEF NoMatch, Match
      <4> QED BY <2>10, <3>1, <4>1
    <3>7. /\ m.item \in Ends(t) /\ R(m.to, Words(t)[m.item])
          /\ \A j, q : R(j, q) => Len(q) <= Len(Words(t)[m.item])
      BY <3>1, <3>3, <3>4, <3>5
    <3> QED BY <3>6, <3>7 DEF Longest, R, m
  <2>11. CASE end # None /\ next # NoMatch
    <3>1. m = next
      BY <2>8, <2>11 DEF Longer
    <3> DEFINE w == Words(t)[next.item]
    <3>2. next.item \in Ends(t) /\ S(next.to, w) /\ \A j, q : S(j, q) => Len(q) <= Len(w)
      BY <2>7, <2>11
    <3>3. R(next.to, w)
      BY <2>4, <3>2
    <3>4. Len(Above(t, d)) <= Len(w)
      BY <3>2 DEF S, Reads, Begins
    <3> HIDE DEF w
    <3>5. \A j, q : R(j, q) => Len(q) <= Len(w)
      BY <2>4, <3>2, <3>4
    <3>6. /\ m # NoMatch /\ m.item \in Ends(t) /\ R(m.to, Words(t)[m.item])
          /\ \A j, q : R(j, q) => Len(q) <= Len(Words(t)[m.item])
      BY <2>11, <3>1, <3>2, <3>3, <3>5 DEF w
    <3> QED BY <3>6 DEF Longest, R, m
  <2> QED BY <2>9, <2>10, <2>11
<1> QED BY <1>1, <1>3, <1>4, <1>5

\* From every place the search finds the longest.
LEMMA SearchLongest ==
  ASSUME NEW t, Forest(t), NEW text \in Seq(Chars), NEW k \in 1 .. Len(text) + 1,
         NEW i, First(t, i)
  PROVE  Longest(t, text, k, i, Search(t, text)[<<k, i>>])
<1> DEFINE N == Len(text) + 1
           Good(l) == \A d : First(t, d) => Longest(t, text, l, d, Search(t, text)[<<l, d>>])
           Bad == {n \in 0 .. N - 1 : ~Good(N - n)}
<1>1. N \in Nat \ {0} /\ Len(text) \in Nat
  BY LenProperties
<1>2. Bad = {}
  <2> SUFFICES ASSUME Bad # {} PROVE FALSE
    OBVIOUS
  <2>1. PICK n \in Bad : \A m \in Bad : n <= m
    <3>1. Bad \subseteq Nat
      BY <1>1
    <3> HIDE DEF Bad
    <3> QED BY <3>1, LeastOf
  <2>2. n \in 0 .. N - 1 /\ ~Good(N - n)
    OBVIOUS
  <2>3. ASSUME NEW l \in N - n + 1 .. N
        PROVE  Good(l)
    <3>1. N - l \in 0 .. N - 1 /\ N - l < n /\ N - (N - l) = l
      BY <1>1, <2>2
    <3>2. N - l \notin Bad
      <4> HIDE DEF Bad
      <4> QED BY <1>1, <2>1, <2>2, <3>1
    <3> HIDE DEF Good
    <3> QED BY <3>1, <3>2
  <2>4. N - n \in 1 .. Len(text) + 1
    BY <1>1, <2>2
  <2>5. ASSUME NEW l, l = N - n, NEW d, First(t, d)
        PROVE  Longest(t, text, l, d, Search(t, text)[<<l, d>>])
    <3>1. l \in 1 .. Len(text) + 1
      BY <2>4, <2>5
    <3>2. \A x \in l + 1 .. Len(text) + 1 : Good(x)
      <4> HIDE DEF Good
      <4> QED BY <2>3, <2>5
    <3> HIDE DEF N
    <3> QED BY <2>5, <3>1, <3>2, LongestStep
  <2> QED BY <2>2, <2>5
<1>3. Good(k)
  <2>1. N - k \in 0 .. N - 1 /\ N - (N - k) = k
    BY <1>1
  <2> HIDE DEF Good
  <2> QED BY <1>2, <2>1
<1> QED BY <1>3

-----------------------------------------------------------------------------
(* The tree as it is loaded                                                *)

\* Beside what add() maintains: no pattern has a character that is ignored, and the
\* shortcuts are those of the tree when it is searched.
SearchInv ==
  /\ Inv
  /\ kind \in Kinds
  /\ added \subseteq Seq(Chars \ Ignored)
  /\ phase \in {"loading", "ready"}
  /\ phase = "ready" => shortcuts = IF Size(leaves) = 0 THEN NoShortcuts ELSE Shortcuts(leaves)

LEMMA SearchInvInit == SearchInit => SearchInv
BY InvInit DEF SearchInit, SearchInv, TreeInit

LEMMA SearchInvNext == SearchInv /\ [SearchNext]_vars => SearchInv'
<1> SUFFICES ASSUME SearchInv, [SearchNext]_vars
             PROVE  SearchInv'
  OBVIOUS
<1>1. ASSUME NEW s \in Seq(Chars \ Ignored), AddPattern(s)
      PROVE  SearchInv'
  <2>1. s \in Seq(Chars) /\ Add(s) /\ UNCHANGED <<kind, shortcuts, phase>> /\ phase = "loading"
    BY <1>1 DEF AddPattern
  <2>2. Inv'
    BY <2>1, InvNext DEF SearchInv, TreeNext
  <2>3. Ignored' = Ignored /\ added' = added \cup {s}
    BY <2>1 DEF Ignored, Add
  <2> QED BY <2>1, <2>2, <2>3 DEF SearchInv
<1>2. CASE MakeShortcuts
  <2>1. UNCHANGED <<leaves, added>> /\ kind' = kind
    BY <1>2 DEF MakeShortcuts
  <2>2. Inv' /\ Ignored' = Ignored
    BY <2>1 DEF SearchInv, Inv, TypeOK, Ignored
  <2> QED BY <1>2, <2>1, <2>2 DEF SearchInv, MakeShortcuts
<1>3. CASE Clear
  <2>1. UNCHANGED <<leaves, added>> /\ kind' = kind
    BY <1>3 DEF Clear
  <2>2. Inv' /\ Ignored' = Ignored
    BY <2>1 DEF SearchInv, Inv, TypeOK, Ignored
  <2> QED BY <1>3, <2>1, <2>2 DEF SearchInv, Clear
<1>4. CASE UNCHANGED vars
  <2>1. UNCHANGED <<leaves, added>> /\ kind' = kind /\ phase' = phase /\ shortcuts' = shortcuts
    BY <1>4 DEF vars
  <2>2. Inv' /\ Ignored' = Ignored
    BY <2>1 DEF SearchInv, Inv, TypeOK, Ignored
  <2> QED BY <2>1, <2>2 DEF SearchInv
<1> QED BY <1>1, <1>2, <1>3, <1>4 DEF SearchNext

LEMMA SearchInvariance == SearchSpec => []SearchInv
BY SearchInvInit, SearchInvNext, PTL DEF SearchSpec

\* Looking along a family stops where it begins, if that will do.
LEMMA AlongAtOnce ==
  ASSUME NEW t, Forest(t), NEW S, NEW i \in DOMAIN t, ~Stray(t, i), i \in S
  PROVE  Along(t, i, S) = i
<1> DEFINE j == Along(t, i, S)
<1>1. Stopped(t, S, i, j)
  BY AlongIs
<1> HIDE DEF j
<1>2. Family(t, i, i) /\ i \in Nat /\ j \in Nat
  BY <1>1, LeafOf DEF Family, Stopped
<1> QED BY <1>1, <1>2 DEF Stopped, j

\* The shortcut for a character is the leaf in the top family that has it.
LEMMA ShortcutIs ==
  ASSUME SearchInv, phase = "ready", Size(leaves) > 0, NEW c \in Chars
  PROVE  LET j == shortcuts[c] IN
         /\ Blank => j = None
         /\ ~Blank /\ j = None =>
              \A p \in DOMAIN leaves : Family(leaves, 0, p) => ~Carries(leaves, p, c)
         /\ j # None => j \in DOMAIN leaves /\ Family(leaves, 0, j) /\ Carries(leaves, j, c)
<1> DEFINE t == leaves
           S == Holding(t, c)
           E == Ends(t)
           i == Along(t, 0, S \cup E)
           j == shortcuts[c]
<1>1. Forest(t) /\ First(t, 0) /\ t[0].parent = None /\ 0 \in DOMAIN t
  BY TopFirst DEF SearchInv, Inv, TypeOK, First
<1>2. j = IF i \in S THEN i ELSE None
  BY DEF SearchInv, Shortcuts
<1>3. \A p : p \in S <=> Carries(t, p, c)
  BY DEF Holding, Carries
<1>4. \A p : p \in E <=> p \in DOMAIN t /\ t[p].end
  BY DEF Ends
<1>5. Blank <=> t[0].end
  BY DEF Blank
<1> HIDE DEF t, S, E
<1>6. /\ i \in DOMAIN t /\ Family(t, 0, i)
      /\ i \notin S \cup E => \A m \in DOMAIN t : Family(t, 0, m) => m \notin S \cup E
  BY <1>1, AlongAll
<1>7. ASSUME Blank
      PROVE  j = None
  <2>1. 0 \in S \cup E /\ 0 \notin S
    BY <1>1, <1>3, <1>4, <1>5, <1>7 DEF Carries
  <2>2. i = 0
    BY <1>1, <2>1, AlongAtOnce DEF First
  <2> QED BY <1>2, <2>1, <2>2
<1> HIDE DEF i, j
<1>8. ASSUME ~Blank, NEW p \in DOMAIN t, Family(t, 0, p)
      PROVE  p \notin E
  <2>1. ~Stray(t, p) /\ t[p].parent = None
    BY <1>1, <1>8 DEF Family
  <2> QED BY <1>4, <1>5, <1>8, <2>1 DEF Stray
<1>9. ASSUME ~Blank, j = None, NEW p \in DOMAIN t, Family(t, 0, p)
      PROVE  ~Carries(t, p, c)
  <2>1. i \notin S
    BY <1>1, <1>2, <1>6, <1>9, LeafOf DEF None
  <2>2. i \notin E
    BY <1>6, <1>8, <1>9
  <2> QED BY <1>3, <1>6, <1>9, <2>1, <2>2
<1>10. ASSUME j # None
       PROVE  j \in DOMAIN t /\ Family(t, 0, j) /\ Carries(t, j, c)
  BY <1>2, <1>3, <1>6, <1>10
<1> QED BY <1>7, <1>9, <1>10 DEF t, j

\* Nothing ignored has a shortcut.
LEMMA ShortcutCounts ==
  ASSUME SearchInv, phase = "ready", Size(leaves) > 0, NEW c \in Chars, shortcuts[c] # None
  PROVE  c \notin Ignored
<1> DEFINE t == leaves
           p == shortcuts[c]
<1>1. Forest(t) /\ t[0].parent = None /\ Stored(t) = added
  BY TopFirst DEF SearchInv, Inv, TypeOK
<1>2. p \in DOMAIN t /\ Family(t, 0, p) /\ ~t[p].end /\ t[p].value = c
  BY ShortcutIs DEF Carries
<1>3. added \subseteq Seq(Chars \ Ignored)
  BY DEF SearchInv
<1> HIDE DEF t, p
<1>4. Words(t)[p] = Append(<<>>, c)
  <2>1. Above(t, p) = <<>>
    BY <1>1, <1>2 DEF Above, Family
  <2> QED BY <1>1, <1>2, <2>1, WordOf
<1>5. Len(Words(t)[p]) = 1 /\ Words(t)[p][1] = c
  BY <1>4
<1>6. PICK e \in Ends(t) :
        /\ Len(Words(t)[p]) <= Len(Words(t)[e])
        /\ \A m \in 1 .. Len(Words(t)[p]) : Words(t)[e][m] = Words(t)[p][m]
  BY <1>1, <1>2, EndUnder
<1> DEFINE w == Words(t)[e]
<1>7. w \in Seq(Chars \ Ignored)
  BY <1>1, <1>3 DEF Stored
<1>8. 1 <= Len(w) /\ w[1] = c
  BY <1>5, <1>6
<1> HIDE DEF w
<1>9. 1 \in 1 .. Len(w)
  BY <1>7, <1>8, LenProperties
<1> QED BY <1>7, <1>8, <1>9, ElementOfSeq

-----------------------------------------------------------------------------
(* What is matched                                                         *)

\* Where a match may begin there is a character.
LEMMA StartsIn ==
  ASSUME NEW text \in Seq(Chars), NEW k \in Starts(text)
  PROVE  k \in 1 .. Len(text) /\ k \in DOMAIN text /\ text[k] \in Chars
BY LenProperties, ElementOfSeq DEF Starts

\* Nothing is skipped at a character that counts.
LEMMA NotSkipped ==
  ASSUME NEW text \in Seq(Chars), NEW k \in 1 .. Len(text), text[k] \notin Ignored
  PROVE  SkipIgnored(text, k) = k
<1> DEFINE pos == SkipIgnored(text, k)
<1>1. Len(text) \in Nat
  BY LenProperties
<1>2. pos \in k .. Len(text) + 1 /\ \A l \in k .. pos - 1 : text[l] \in Ignored
  BY <1>1, SkipIs
<1>3. k \notin k .. pos - 1
  BY <1>2
<1> HIDE DEF pos
<1> QED BY <1>1, <1>2, <1>3 DEF pos

\* For a pattern to occur is to be read from the top.
LEMMA OccursReads ==
  ASSUME SearchInv, Size(leaves) > 0, NEW text \in Seq(Chars), NEW k \in Starts(text),
         text[k] \notin Ignored, NEW j, NEW q
  PROVE  Occurs(q, text, k, j) <=> Reads(leaves, text, k, 0, j, q)
<1> DEFINE t == leaves
<1>1. Forest(t) /\ t[0].parent = None /\ Stored(t) = added /\ added \subseteq Seq(Chars)
  BY TopFirst DEF SearchInv, Inv, TypeOK
<1>2. Above(t, 0) = <<>> /\ Len(Above(t, 0)) = 0
  BY <1>1 DEF Above
<1> HIDE DEF t
<1>3. k \in 1 .. Len(text)
  BY StartsIn
<1>4. SkipIgnored(text, k) = k
  BY <1>3, NotSkipped
<1>5. ASSUME q \in added, j \in k .. Len(text), text[j] \notin Ignored
      PROVE  (q # <<>> /\ Spells(text, k, j, q)) <=> (Begins(q, <<>>) /\ Goes(text, k, j, q, 0))
  <2>1. q \in Seq(Chars) /\ Len(q) \in Nat
    BY <1>1, <1>5, LenProperties
  <2>2. Spells(text, k, j, q) <=> Goes(text, k, j, q, 0)
    BY <1>3, <1>5, <2>1, SpellsGoes
  <2>3. Goes(text, k, j, q, 0) => 0 < Len(q)
    <3>1. k <= Len(text)
      BY <1>3
    <3> QED BY <1>3, <1>4, <1>5, <2>1, <3>1, GoesOn
  <2>4. 0 < Len(q) => q # <<>>
    BY <2>1, EmptySeq
  <2>5. Begins(q, <<>>)
    BY <2>1, SubSeqEmpty DEF Begins
  <2> QED BY <2>2, <2>3, <2>4, <2>5
<1>6. Reads(t, text, k, 0, j, q) <=>
        /\ q \in added /\ Begins(q, <<>>)
        /\ j \in k .. Len(text) /\ text[j] \notin Ignored /\ Goes(text, k, j, q, 0)
  BY <1>1, <1>2 DEF Reads
<1>7. Occurs(q, text, k, j) <=>
        /\ q \in added /\ j \in k .. Len(text) /\ text[j] \notin Ignored
        /\ q # <<>> /\ Spells(text, k, j, q)
  BY DEF Occurs
<1> QED BY <1>5, <1>6, <1>7 DEF t

\* The match at a position is the longest pattern that occurs there.
LEMMA MatchAtIs ==
  ASSUME SearchInv, Searchable, NEW text \in Seq(Chars), NEW k
  PROVE  LET m == MatchAt(text, k) IN
         /\ m = NoMatch => OccursAt(text, k) = {}
         /\ m # NoMatch =>
              /\ Occurs(Extract(m.item), text, k, m.to)
              /\ OccursAt(text, k) # {}
              /\ \A q \in OccursAt(text, k) : Len(q) <= Len(Extract(m.item))
<1> DEFINE t == leaves
           m == MatchAt(text, k)
           s == shortcuts[text[k]]
           g == Search(t, text)[<<k, 0>>]
<1>1. phase = "ready" /\ ~Blank /\ Forest(t) /\ Stored(t) = added /\ Size(t) \in Nat
  BY DEF Searchable, SearchInv, Inv, TypeOK, Forest, Shape
<1>2. m = IF k \notin Starts(text) \/ s = None THEN NoMatch ELSE Search(t, text)[<<k, s>>]
  BY DEF MatchAt
<1>3. ASSUME m = NoMatch, \A j, q : ~Occurs(q, text, k, j)
      PROVE  OccursAt(text, k) = {}
  BY <1>3 DEF OccursAt
<1> HIDE DEF t, m, s, g
<1>4. CASE k \notin Starts(text)
  <2>1. \A j, q : ~Occurs(q, text, k, j)
    BY <1>4 DEF Occurs
  <2> QED BY <1>2, <1>3, <1>4, <2>1 DEF m
<1>5. CASE k \in Starts(text) /\ Size(t) = 0
  <2>1. text[k] \in Chars
    BY <1>5, StartsIn
  <2>2. s = None
    BY <1>1, <1>5, <2>1 DEF SearchInv, NoShortcuts, s, t
  <2>3. added = {}
    <3>1. DOMAIN t = {}
      BY <1>1, <1>5 DEF Forest, Shape
    <3> QED BY <1>1, <3>1 DEF Stored, Ends
  <2>4. \A j, q : ~Occurs(q, text, k, j)
    BY <2>3 DEF Occurs
  <2> QED BY <1>2, <1>3, <2>2, <2>4 DEF m
<1>6. CASE k \in Starts(text) /\ Size(t) > 0 /\ text[k] \in Ignored
  <2>1. text[k] \in Chars
    BY <1>6, StartsIn
  <2>2. s = None
    BY <1>1, <1>6, <2>1, ShortcutCounts DEF s, t
  <2>3. \A j, q : ~Occurs(q, text, k, j)
    BY <1>6 DEF Occurs
  <2> QED BY <1>2, <1>3, <2>2, <2>3 DEF m
<1>7. CASE k \in Starts(text) /\ Size(t) > 0 /\ text[k] \notin Ignored
  <2> DEFINE c == text[k]
  <2>1. k \in 1 .. Len(text) /\ k \in DOMAIN text /\ c \in Chars
    BY <1>7, StartsIn
  <2>2. SkipIgnored(text, k) = k
    BY <1>7, <2>1, NotSkipped
  <2>3. Len(text) \in Nat /\ k <= Len(text) /\ k \in 1 .. Len(text) + 1
    BY <2>1, LenProperties
  <2>4. First(t, 0)
    BY <1>1, <1>7, TopFirst
  <2>5. /\ s = None => \A p \in DOMAIN t : Family(t, 0, p) => ~Carries(t, p, c)
        /\ s # None => s \in DOMAIN t /\ Family(t, 0, s) /\ Carries(t, s, c)
    BY <1>1, <1>7, <2>1, ShortcutIs DEF s, t
  <2> HIDE DEF c
  <2>6. m = g
    <3>1. CASE s = None
      <4>1. ~FindSibling(t, 0, c).found
        BY <1>1, <2>4, <2>5, <3>1, FindSiblingIs
      <4>2. ~FindSibling(t, 0, text[SkipIgnored(text, k)]).found /\ SkipIgnored(text, k) <= Len(text)
        BY <2>2, <2>3, <4>1 DEF c
      <4>3. g = NoMatch
        BY <1>1, <2>3, <2>4, <4>2, SearchStep DEF g
      <4> QED BY <1>2, <3>1, <4>3
    <3>2. CASE s # None
      <4>1. s \in DOMAIN t /\ Family(t, 0, s) /\ s \in Holding(t, c)
        BY <2>5, <3>2 DEF Holding, Carries
      <4>2. FindSibling(t, s, c).found
        <5>1. Along(t, s, Holding(t, c)) = s
          BY <1>1, <4>1, AlongAtOnce DEF Family
        <5> QED BY <4>1, <5>1, FoundIs
      <4>3. FindSibling(t, s, text[SkipIgnored(text, k)]).found
        BY <2>2, <4>2 DEF c
      <4>4. Search(t, text)[<<k, s>>] = g
        BY <1>1, <2>3, <2>4, <4>1, <4>3, BrotherSearch DEF g
      <4> QED BY <1>2, <1>7, <3>2, <4>4
    <3> QED BY <3>1, <3>2
  <2>7. Longest(t, text, k, 0, m)
    BY <1>1, <2>3, <2>4, <2>6, SearchLongest DEF g
  <2>8. \A j, q : Occurs(q, text, k, j) <=> Reads(t, text, k, 0, j, q)
    BY <1>7, OccursReads DEF t
  <2>9. CASE m = NoMatch
    BY <1>3, <2>7, <2>8, <2>9 DEF Longest, m
  <2>10. CASE m # NoMatch
    <3> DEFINE w == Extract(m.item)
    <3>1. w = Words(t)[m.item]
      BY DEF Extract, t
    <3>2. Reads(t, text, k, 0, m.to, w) /\ \A j, q : Reads(t, text, k, 0, j, q) => Len(q) <= Len(w)
      BY <2>7, <2>10, <3>1 DEF Longest
    <3> HIDE DEF w
    <3>3. Occurs(w, text, k, m.to) /\ \A j, q : Occurs(q, text, k, j) => Len(q) <= Len(w)
      BY <2>8, <3>2
    <3>4. w \in added /\ m.to \in DOMAIN text
      BY <2>1, <3>3, LenProperties DEF Occurs
    <3>5. w \in OccursAt(text, k) /\ \A q \in OccursAt(text, k) : Len(q) <= Len(w)
      BY <3>3, <3>4 DEF OccursAt
    <3> QED BY <2>10, <3>3, <3>5 DEF w, m
  <2> QED BY <2>9, <2>10
<1>8. Size(t) = 0 \/ Size(t) > 0
  BY <1>1
<1> QED BY <1>4, <1>5, <1>6, <1>7, <1>8

\* ReportsLongest, whatever patterns are added: what find() reports of a text is, at
\* each position where a pattern begins, the longest, and nothing else.
THEOREM FindsLongest == SearchSpec => []ReportsLongest
<1>1. SearchInv => ReportsLongest
  <2> SUFFICES ASSUME SearchInv, Searchable, NEW text \in Texts[kind]
               PROVE  LET found == Find(text) IN
                      /\ DOMAIN found = {k \in DOMAIN text : OccursAt(text, k) # {}}
                      /\ \A k \in DOMAIN found :
                           LET p == Extract(found[k].item) IN
                           /\ Occurs(p, text, k, found[k].to)
                           /\ \A q \in OccursAt(text, k) : Len(q) <= Len(p)
    BY DEF ReportsLongest
  <2> DEFINE found == Find(text)
             p(k) == Extract(MatchAt(text, k).item)
  <2>1. text \in Seq(Chars) /\ Len(text) >= MinText
    BY PatternTreeAssumption DEF SearchInv
  <2>2. ASSUME NEW k
        PROVE  /\ MatchAt(text, k) = NoMatch => OccursAt(text, k) = {}
               /\ MatchAt(text, k) # NoMatch =>
                    /\ Occurs(p(k), text, k, MatchAt(text, k).to)
                    /\ OccursAt(text, k) # {}
                    /\ \A q \in OccursAt(text, k) : Len(q) <= Len(p(k))
    BY <2>1, MatchAtIs
  <2>3. /\ DOMAIN found = {k \in DOMAIN text : MatchAt(text, k) # NoMatch}
        /\ \A k \in DOMAIN found : found[k] = MatchAt(text, k)
    BY <2>1 DEF Find
  <2> HIDE DEF found
  <2>4. ASSUME NEW k \in DOMAIN found
        PROVE  /\ Occurs(Extract(found[k].item), text, k, found[k].to)
               /\ \A q \in OccursAt(text, k) : Len(q) <= Len(Extract(found[k].item))
    BY <2>2, <2>3
  <2>5. DOMAIN found = {k \in DOMAIN text : OccursAt(text, k) # {}}
    <3> HIDE DEF p
    <3> QED BY <2>2, <2>3
  <2> QED BY <2>4, <2>5 DEF found
<1> QED BY <1>1, SearchInvariance, PTL

-----------------------------------------------------------------------------
(* Censoring                                                               *)

\* What censor() makes of a text up to position k.
Step(g, k) ==
  LET m == MatchAt(g[k - 1], k)
  IN  IF m = NoMatch THEN g[k - 1] ELSE Censored(g[k - 1], k, m.to)

\* Censoring begins with the text and goes on step by step.
LEMMA CensoringIs ==
  ASSUME NEW text \in Seq(Chars)
  PROVE  LET g == Censoring(text) IN
         /\ g[0] = text
         /\ \A k \in 1 .. Len(text) : g[k] = Step(g, k)
<1> DEFINE N == Len(text)
           H(g, k) == IF k = 0 THEN text ELSE Step(g, k)
           Good(n) == \E g : g = [k \in 0 .. n |-> H(g, k)]
           Bad == {n \in 0 .. N : ~Good(n)}
<1>1. N \in Nat
  BY LenProperties
<1> HIDE DEF N
<1>2. Bad = {}
  <2> SUFFICES ASSUME Bad # {} PROVE FALSE
    OBVIOUS
  <2>1. PICK n \in Bad : \A m \in Bad : n <= m
    <3>1. Bad \subseteq Nat
      BY <1>1
    <3> HIDE DEF Bad
    <3> QED BY <3>1, LeastOf
  <2>2. n \in 0 .. N /\ ~Good(n)
    OBVIOUS
  <2>3. CASE n = 0
    <3> DEFINE g == [k \in 0 .. 0 |-> text]
    <3>1. g = [k \in 0 .. 0 |-> H(g, k)]
      OBVIOUS
    <3> HIDE DEF g, H
    <3>2. Good(0)
      BY <3>1
    <3> QED BY <2>2, <2>3, <3>2
  <2>4. CASE n # 0
    <3>1. n - 1 \in 0 .. N /\ n - 1 < n
      BY <1>1, <2>2, <2>4
    <3>2. Good(n - 1)
      <4>1. n - 1 \notin Bad
        <5> HIDE DEF Bad
        <5> QED BY <1>1, <2>1, <2>2, <3>1
      <4> HIDE DEF Good
      <4> QED BY <3>1, <4>1
    <3>3. PICK h : h = [k \in 0 .. n - 1 |-> H(h, k)]
      BY <3>2
    <3> DEFINE g == [k \in 0 .. n |-> H(h, k)]
    <3>4. ASSUME NEW k \in 0 .. n
          PROVE  H(h, k) = H(g, k)
      <4>1. CASE k = 0
        BY <4>1
      <4>2. CASE k # 0
        <5>1. k - 1 \in 0 .. n - 1 /\ k - 1 \in 0 .. n
          BY <1>1, <2>2, <4>2
        <5>2. h[k - 1] = H(h, k - 1)
          <6> HIDE DEF H
          <6> QED BY <3>3, <5>1
        <5>3. g[k - 1] = H(h, k - 1)
          <6> HIDE DEF H
          <6> QED BY <5>1
        <5> HIDE DEF g
        <5> QED BY <5>2, <5>3 DEF Step
      <4> QED BY <4>1, <4>2
    <3>5. g = [k \in 0 .. n |-> H(g, k)]
      <4> DEFINE G(k) == H(g, k)
      <4>1. \A k \in 0 .. n : H(h, k) = G(k)
        BY <3>4
      <4>2. g = [k \in 0 .. n |-> G(k)]
        <5> HIDE DEF G, H
        <5> QED BY <4>1
      <4> QED BY <4>2
    <3> HIDE DEF g, H
    <3>6. Good(n)
      BY <3>5
    <3> QED BY <2>2, <3>6
  <2> QED BY <2>3, <2>4
<1>3. Good(N)
  <2> HIDE DEF Good
  <2> QED BY <1>1, <1>2
<1> DEFINE g == Censoring(text)
<1>4. g = [k \in 0 .. N |-> H(g, k)]
  <2>1. PICK h : h = [k \in 0 .. N |-> H(h, k)]
    BY <1>3
  <2>2. g = CHOOSE x : x = [k \in 0 .. N |-> H(x, k)]
    BY DEF Censoring, Step, N
  <2> HIDE DEF g, H
  <2> QED BY <2>1, <2>2
<1> HIDE DEF g
<1>5. g[0] = text
  <2>1. 0 \in 0 .. N
    BY <1>1
  <2> QED BY <1>4, <2>1
<1>6. ASSUME NEW k \in 1 .. N
      PROVE  g[k] = Step(g, k)
  <2>1. k \in 0 .. N /\ k # 0
    BY <1>1
  <2>2. g[k] = H(g, k)
    <3> HIDE DEF H
    <3> QED BY <1>4, <2>1
  <2> QED BY <2>1, <2>2
<1> QED BY <1>5, <1>6 DEF N, g

\* Text u is what text is, but for characters that are censored.
Covers(text, u) ==
  /\ text \in Seq(Chars) /\ u \in Seq(Chars) /\ Len(u) = Len(text)
  /\ \A l \in 1 .. Len(text) : u[l] = text[l] \/ (u[l] = Star /\ text[l] \notin Ignored)

\* What censor() writes is not ignored, and is no prefix character.
LEMMA StarCounts == Star \notin Ignored /\ Star # Slash /\ Star \in Chars
BY PatternTreeAssumption DEF Ignored, Star, Space, Slash

\* Censoring from one position to another covers the text,
LEMMA CensoredCovers ==
  ASSUME NEW text \in Seq(Chars), NEW from, NEW to
  PROVE  Covers(text, Censored(text, from, to))
<1> DEFINE u == Censored(text, from, to)
<1>1. DOMAIN text = 1 .. Len(text) /\ Len(text) \in Nat
  BY LenProperties
<1>2. \A l \in 1 .. Len(text) : text[l] \in Chars
  BY ElementOfSeq
<1>3. u = [j \in 1 .. Len(text) |->
             IF from <= j /\ j <= to /\ text[j] \notin Ignored THEN Star ELSE text[j]]
  BY <1>1 DEF Censored
<1> HIDE DEF u
<1>4. u \in [1 .. Len(text) -> Chars]
  BY <1>2, <1>3, StarCounts
<1>5. u \in Seq(Chars) /\ Len(u) = Len(text)
  BY <1>1, <1>4, LenProperties
<1>6. \A l \in 1 .. Len(text) : u[l] = text[l] \/ (u[l] = Star /\ text[l] \notin Ignored)
  BY <1>3
<1> QED BY <1>5, <1>6 DEF Covers, u

\* and so does censoring what has been censored.
LEMMA CoversOn ==
  ASSUME NEW a, NEW b, NEW c, Covers(a, b), Covers(b, c)
  PROVE  Covers(a, c)
BY StarCounts DEF Covers

\* The same positions count in a text that has been censored, and no match begins at a
\* position where none could.
LEMMA CoversCount ==
  ASSUME NEW text, NEW u, Covers(text, u)
  PROVE  /\ DOMAIN u = DOMAIN text /\ DOMAIN text = 1 .. Len(text) /\ Len(text) \in Nat
         /\ \A l \in 1 .. Len(text) : u[l] \in Ignored <=> text[l] \in Ignored
         /\ \A k \in 1 .. Len(text) : \A j \in 1 .. Len(text) :
              Counting(u, k, j) = Counting(text, k, j)
         /\ Starts(u) \subseteq Starts(text)
<1>1. text \in Seq(Chars) /\ u \in Seq(Chars) /\ Len(u) = Len(text)
  BY DEF Covers
<1>2. DOMAIN u = DOMAIN text /\ DOMAIN text = 1 .. Len(text) /\ Len(text) \in Nat
  BY <1>1, LenProperties
<1>3. \A l \in 1 .. Len(text) : u[l] \in Ignored <=> text[l] \in Ignored
  BY StarCounts DEF Covers
<1>4. ASSUME NEW k \in 1 .. Len(text), NEW j \in 1 .. Len(text)
      PROVE  Counting(u, k, j) = Counting(text, k, j)
  <2>1. \A l \in k .. j : l \in 1 .. Len(text)
    BY <1>2
  <2> QED BY <1>3, <2>1 DEF Counting
<1>5. Starts(u) \subseteq Starts(text)
  <2>1. \A k \in 2 .. Len(text) : u[k - 1] = Slash => text[k - 1] = Slash
    <3>1. \A k \in 2 .. Len(text) : k - 1 \in 1 .. Len(text)
      BY <1>2
    <3> QED BY <3>1, StarCounts DEF Covers
  <2> QED BY <1>1, <1>2, <2>1 DEF Starts
<1> QED BY <1>2, <1>3, <1>4, <1>5

\* Of a character that counts, a pattern that occurs there has its own.
LEMMA CountedIn ==
  ASSUME NEW text, NEW k \in Int, NEW j \in Int, NEW l \in Counting(text, k, j)
  PROVE  Counted(text, k, l) \in 1 .. Counted(text, k, j)
<1>1. l \in k .. j /\ l \in Int
  BY DEF Counting
<1>2. Counting(text, k, l) \subseteq Counting(text, k, j) /\ l \in Counting(text, k, l)
  BY <1>1 DEF Counting
<1>3. /\ Counted(text, k, l) \in Nat /\ Counted(text, k, j) \in Nat
      /\ IsFiniteSet(Counting(text, k, j)) /\ Counted(text, k, l) # 0
  BY <1>1, <1>2, CountedIs
<1>4. Counted(text, k, l) <= Counted(text, k, j)
  BY <1>2, <1>3, FS_Subset DEF Counted
<1> QED BY <1>3, <1>4

\* A plain pattern does not occur over what is censored.
LEMMA OccursPlain ==
  ASSUME SearchInv, Plain, NEW text \in Seq(Chars), NEW k, NEW j, NEW p,
         Occurs(p, text, k, j)
  PROVE  /\ \A l \in Counting(text, k, j) : text[l] # Star
         /\ k \in Counting(text, k, j) /\ k \in 1 .. Len(text) /\ j \in 1 .. Len(text)
<1>1. k \in 1 .. Len(text) /\ j \in k .. Len(text) /\ text[k] \notin Ignored
  BY StartsIn DEF Occurs
<1>2. Len(text) \in Nat
  BY LenProperties
<1>3. k \in Counting(text, k, j)
  BY <1>1, <1>2 DEF Counting
<1>4. p \in added /\ p \in Seq(Chars) /\ DOMAIN p = 1 .. Len(p)
  BY LenProperties DEF Occurs, SearchInv, Inv, TypeOK
<1>5. ASSUME NEW l \in Counting(text, k, j)
      PROVE  text[l] # Star
  <2>1. Counted(text, k, l) \in 1 .. Counted(text, k, j)
    BY <1>1, <1>2, CountedIn
  <2>2. Counted(text, k, j) = Len(p) /\ text[l] = p[Counted(text, k, l)]
    BY DEF Occurs, Spells, Counted
  <2> QED BY <1>4, <2>1, <2>2 DEF Plain
<1> QED BY <1>1, <1>2, <1>3, <1>5

\* What occurs in a text that has been censored occurs in the text.
LEMMA OccursBack ==
  ASSUME SearchInv, Plain, NEW text, NEW u, Covers(text, u), NEW k, NEW j, NEW p,
         Occurs(p, u, k, j)
  PROVE  Occurs(p, text, k, j)
<1>1. text \in Seq(Chars) /\ u \in Seq(Chars) /\ Len(u) = Len(text)
  BY DEF Covers
<1>2. /\ \A l \in Counting(u, k, j) : u[l] # Star
      /\ k \in 1 .. Len(text) /\ j \in 1 .. Len(text)
  BY <1>1, OccursPlain
<1>3. /\ Counting(u, k, j) = Counting(text, k, j)
      /\ Starts(u) \subseteq Starts(text) /\ Len(text) \in Nat
      /\ \A l \in 1 .. Len(text) : u[l] \in Ignored <=> text[l] \in Ignored
  BY <1>2, CoversCount
<1>4. ASSUME NEW l \in Counting(text, k, j)
      PROVE  text[l] = u[l] /\ Counting(u, k, l) = Counting(text, k, l)
  <2>1. l \in k .. j
    BY DEF Counting
  <2>2. l \in 1 .. Len(text)
    BY <1>2, <1>3, <2>1
  <2> QED BY <1>2, <1>3, <2>2, CoversCount DEF Covers
<1>5. Spells(text, k, j, p)
  <2>1. Spells(u, k, j, p)
    BY DEF Occurs
  <2> QED BY <1>3, <1>4, <2>1 DEF Spells
<1> QED BY <1>1, <1>2, <1>3, <1>5 DEF Occurs

\* Each step of censor() covers what was there before it.
LEMMA CensoringCovers ==
  ASSUME NEW text \in Seq(Chars), NEW a \in 0 .. Len(text), Censoring(text)[a] \in Seq(Chars),
         Len(Censoring(text)[a]) = Len(text), NEW b \in a .. Len(text)
  PROVE  Covers(Censoring(text)[a], Censoring(text)[b])
<1> DEFINE g == Censoring(text)
           Bad == {n \in a .. Len(text) : ~Covers(g[a], g[n])}
<1>1. Len(text) \in Nat
  BY LenProperties
<1>2. \A k \in 1 .. Len(text) : g[k] = Step(g, k)
  BY CensoringIs
<1> HIDE DEF g
<1>3. Bad = {}
  <2> SUFFICES ASSUME Bad # {} PROVE FALSE
    OBVIOUS
  <2>1. PICK n \in Bad : \A m \in Bad : n <= m
    <3>1. Bad \subseteq Nat
      BY <1>1
    <3> HIDE DEF Bad
    <3> QED BY <3>1, LeastOf
  <2>2. n \in a .. Len(text) /\ ~Covers(g[a], g[n])
    OBVIOUS
  <2>3. n # a
    <3>1. Covers(g[a], g[a])
      BY DEF Covers, g
    <3> QED BY <2>2, <3>1
  <2>4. n - 1 \in a .. Len(text) /\ n \in 1 .. Len(text)
    BY <1>1, <2>2, <2>3
  <2>5. Covers(g[a], g[n - 1])
    <3>1. n - 1 \notin Bad
      <4>1. n \in Int /\ ~(n <= n - 1)
        BY <1>1, <2>2
      <4> HIDE DEF Bad
      <4> QED BY <2>1, <4>1
    <3> QED BY <2>4, <3>1
  <2>6. Covers(g[n - 1], g[n])
    <3> DEFINE h == g[n - 1]
               m == MatchAt(h, n)
    <3>1. h \in Seq(Chars)
      BY <2>5 DEF Covers
    <3>2. g[n] = IF m = NoMatch THEN h ELSE Censored(h, n, m.to)
      BY <1>2, <2>4 DEF Step
    <3> HIDE DEF h, m
    <3>3. Covers(h, h) /\ Covers(h, Censored(h, n, m.to))
      <4>1. Covers(h, h)
        BY <3>1 DEF Covers
      <4> QED BY <3>1, <4>1, CensoredCovers
    <3>4. Covers(h, g[n])
      BY <3>2, <3>3
    <3> QED BY <3>4 DEF h
  <2> QED BY <2>2, <2>5, <2>6, CoversOn
<1> QED BY <1>3 DEF g

\* Nothing is found any more where censor() has looked.
LEMMA Hidden ==
  ASSUME SearchInv, phase = "ready", Plain, NEW text \in Seq(Chars), NEW k
  PROVE  MatchAt(Censor(text), k) = NoMatch
<1> DEFINE g == Censoring(text)
           N == Len(text)
           u == g[N]
           m == MatchAt(u, k)
           p == Extract(m.item)
           j == m.to
<1>1. N \in Nat /\ g[0] = text /\ (\A n \in 1 .. N : g[n] = Step(g, n)) /\ u = Censor(text)
  BY CensoringIs, LenProperties DEF Censor
<1>2. \A a \in 0 .. N : Covers(text, g[a])
  <2>1. 0 \in 0 .. N /\ g[0] \in Seq(Chars) /\ Len(g[0]) = Len(text)
    BY <1>1
  <2> QED BY <1>1, <2>1, CensoringCovers
<1>3. \A a \in 0 .. N : g[a] \in Seq(Chars) /\ Len(g[a]) = N
  BY <1>2 DEF Covers
<1>4. \A a \in 0 .. N : \A b \in a .. N : Covers(g[a], g[b])
  BY <1>3, CensoringCovers
<1> HIDE DEF g
<1>5. u \in Seq(Chars) /\ Len(u) = N
  BY <1>1, <1>3
<1> HIDE DEF u, N
<1>6. CASE Blank
  <2>1. ASSUME k \in Starts(u)
        PROVE  shortcuts[u[k]] = None
    <3>1. u[k] \in Chars
      BY <1>5, <2>1, StartsIn
    <3> QED BY <1>6, <3>1, ShortcutIs DEF Blank
  <2> QED BY <1>1, <2>1 DEF MatchAt
<1>7. CASE ~Blank
  <2>1. Searchable
    BY <1>7 DEF Searchable
  <2> SUFFICES ASSUME m # NoMatch
               PROVE  FALSE
    BY <1>1
  <2>2. Occurs(p, u, k, j)
    BY <1>5, <2>1, MatchAtIs
  <2> HIDE DEF m, p, j
  <2>3. k \in 1 .. N
    BY <1>5, <2>2, OccursPlain
  <2>4. Covers(g[k], u) /\ Covers(g[k - 1], g[k]) /\ g[k] \in Seq(Chars) /\ g[k - 1] \in Seq(Chars)
    <3>1. k \in 0 .. N /\ k - 1 \in 0 .. N /\ k \in k - 1 .. N /\ N \in k .. N
      BY <1>1, <2>3
    <3> QED BY <1>3, <1>4, <3>1 DEF u
  <2>5. Occurs(p, g[k], k, j)
    BY <2>2, <2>4, OccursBack
  <2>6. Occurs(p, g[k - 1], k, j)
    BY <2>4, <2>5, OccursBack
  <2> DEFINE h == g[k - 1]
             x == MatchAt(h, k)
  <2>7. x # NoMatch
    <3>1. p \in OccursAt(h, k)
      <4>1. j \in DOMAIN h /\ p \in added
        BY <2>4, <2>6, OccursPlain, LenProperties DEF Occurs
      <4> QED BY <2>6, <4>1 DEF OccursAt
    <3> QED BY <2>1, <2>4, <3>1, MatchAtIs
  <2>8. g[k] = Censored(h, k, x.to)
    BY <1>1, <2>3, <2>7 DEF Step
  <2>9. Occurs(Extract(x.item), h, k, x.to)
    BY <2>1, <2>4, <2>7, MatchAtIs
  <2> HIDE DEF h, x
  <2>10. k <= x.to /\ h[k] \notin Ignored /\ k \in DOMAIN h /\ k <= k
    <3>1. h \in Seq(Chars)
      BY <2>4 DEF h
    <3>2. k \in 1 .. Len(h) /\ k \in DOMAIN h
      BY <2>9, <3>1, StartsIn DEF Occurs
    <3>3. Len(h) \in Nat
      BY <3>1, LenProperties
    <3> QED BY <2>9, <3>2, <3>3 DEF Occurs
  <2>11. g[k][k] = Star
    BY <2>8, <2>10 DEF Censored
  <2> QED BY <2>4, <2>5, <2>11, OccursPlain
<1> QED BY <1>6, <1>7

\* CensorHides, whatever plain patterns are added: nothing is found in a text that has
\* been censored, overlapping matches included.
THEOREM CensorsAll == SearchSpec => []CensorHides
<1>1. SearchInv => CensorHides
  <2> SUFFICES ASSUME SearchInv, phase = "ready", Plain, NEW text \in Texts[kind]
               PROVE  DOMAIN Find(Censor(text)) = {}
    BY DEF CensorHides
  <2>1. text \in Seq(Chars)
    BY PatternTreeAssumption DEF SearchInv
  <2>2. \A k : MatchAt(Censor(text), k) = NoMatch
    BY <2>1, Hidden
  <2> QED BY <2>2 DEF Find
<1> QED BY <1>1, SearchInvariance, PTL

\* What censor() changes belongs to an occurrence in the text as it was.
LEMMA ChangedIn ==
  ASSUME SearchInv, Searchable, Plain, NEW text \in Seq(Chars), NEW l \in 1 .. Len(text),
         Censor(text)[l] # text[l]
  PROVE  \E k, j \in DOMAIN text, p \in added : k <= l /\ l <= j /\ Occurs(p, text, k, j)
<1> DEFINE g == Censoring(text)
           N == Len(text)
           Changed == {n \in 0 .. N : g[n][l] # text[l]}
<1>1. N \in Nat /\ g[0] = text /\ (\A n \in 1 .. N : g[n] = Step(g, n)) /\ g[N][l] # text[l]
  BY CensoringIs, LenProperties DEF Censor
<1>2. \A a \in 0 .. N : Covers(text, g[a])
  <2>1. 0 \in 0 .. N /\ g[0] \in Seq(Chars) /\ Len(g[0]) = Len(text)
    BY <1>1
  <2> QED BY <1>1, <2>1, CensoringCovers
<1> HIDE DEF g, N
<1>3. PICK n \in Changed : \A a \in Changed : n <= a
  <2>1. N \in Changed /\ Changed \subseteq Nat
    BY <1>1
  <2> HIDE DEF Changed
  <2> QED BY <2>1, LeastOf
<1>4. n \in 0 .. N /\ g[n][l] # text[l] /\ n # 0
  BY <1>1
<1>5. n - 1 \in 0 .. N /\ n \in 1 .. N
  BY <1>1, <1>4
<1> DEFINE h == g[n - 1]
           x == MatchAt(h, n)
<1>6. h[l] = text[l]
  <2>1. n - 1 \notin Changed
    <3>1. ~(n <= n - 1)
      BY <1>1, <1>4
    <3> HIDE DEF Changed
    <3> QED BY <1>3, <3>1
  <2> QED BY <1>5, <2>1
<1>7. g[n] = IF x = NoMatch THEN h ELSE Censored(h, n, x.to)
  BY <1>1, <1>5 DEF Step
<1>8. Covers(text, h) /\ h \in Seq(Chars) /\ DOMAIN h = DOMAIN text
  BY <1>2, <1>5, CoversCount DEF Covers
<1>9. x # NoMatch /\ (x # NoMatch => Occurs(Extract(x.item), h, n, x.to))
  BY <1>4, <1>6, <1>7, <1>8, MatchAtIs
<1> DEFINE p == Extract(x.item)
           j == x.to
<1> HIDE DEF Changed, h, p, j
<1>10. l \in DOMAIN h
  BY <1>8, LenProperties
<1>11. n <= l /\ l <= j
  <2>1. g[n] = Censored(h, n, j) /\ g[n][l] # h[l]
    BY <1>4, <1>6, <1>7, <1>9 DEF j
  <2> QED BY <1>10, <2>1 DEF Censored
<1>12. Occurs(p, text, n, j)
  BY <1>8, <1>9, OccursBack DEF p, j
<1>13. n \in DOMAIN text /\ j \in DOMAIN text /\ p \in added
  BY <1>12, OccursPlain, LenProperties DEF Occurs
<1> QED BY <1>11, <1>12, <1>13

\* CensorsMatchesOnly, whatever plain patterns are added: only characters of a pattern's
\* occurrence are censored, and none is when there is no occurrence and only then.
THEOREM CensorsNoMore == SearchSpec => []CensorsMatchesOnly
<1>1. SearchInv => CensorsMatchesOnly
  <2> SUFFICES ASSUME SearchInv, Searchable, Plain, NEW text \in Texts[kind]
               PROVE  LET after == Censor(text) IN
                      /\ \A l \in DOMAIN text : after[l] # text[l] =>
                           \E k, j \in DOMAIN text, p \in added :
                             k <= l /\ l <= j /\ Occurs(p, text, k, j)
                      /\ after = text <=> \A k \in DOMAIN text : OccursAt(text, k) = {}
    BY DEF CensorsMatchesOnly
  <2> DEFINE after == Censor(text)
  <2>1. text \in Seq(Chars) /\ DOMAIN text = 1 .. Len(text) /\ Len(text) \in Nat
    BY PatternTreeAssumption, LenProperties DEF SearchInv
  <2>2. \A l \in DOMAIN text : after[l] # text[l] =>
          \E k, j \in DOMAIN text, p \in added : k <= l /\ l <= j /\ Occurs(p, text, k, j)
    BY <2>1, ChangedIn
  <2>3. after \in Seq(Chars) /\ Len(after) = Len(text)
    <3> DEFINE g == Censoring(text)
    <3>1. g[0] = text
      BY <2>1, CensoringIs
    <3> HIDE DEF g
    <3>2. Covers(g[0], g[Len(text)])
      <4>1. 0 \in 0 .. Len(text) /\ Len(text) \in 0 .. Len(text)
        BY <2>1
      <4> QED BY <2>1, <3>1, <4>1, CensoringCovers DEF g
    <3> QED BY <3>1, <3>2 DEF Covers, Censor, g
  <2>4. \A k : MatchAt(after, k) = NoMatch
    BY <2>1, Hidden DEF Searchable
  <2> HIDE DEF after
  <2>5. ASSUME after = text, NEW k
        PROVE  OccursAt(text, k) = {}
    BY <2>1, <2>4, <2>5, MatchAtIs
  <2>6. ASSUME \A k \in DOMAIN text : OccursAt(text, k) = {}
        PROVE  after = text
    <3>1. \A l \in 1 .. Len(text) : after[l] = text[l]
      <4>1. \A k, j \in DOMAIN text : \A p \in added : ~Occurs(p, text, k, j)
        BY <2>6 DEF OccursAt
      <4> QED BY <2>1, <2>2, <4>1
    <3> QED BY <2>1, <2>3, <3>1, SeqEqual
  <2> QED BY <2>2, <2>5, <2>6 DEF after
<1> QED BY <1>1, SearchInvariance, PTL
=============================================================================
