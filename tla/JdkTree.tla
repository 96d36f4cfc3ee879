-------------------------------- MODULE JdkTree --------------------------------
(***************************************************************************)
(* jdk_tree as lists of patterns fill it: leaves linked by sibling and     *)
(* child indices in one array, where index 0 is the first leaf of the top  *)
(* family and, as a link, means "none".  A pattern ends in a leaf of its   *)
(* own.  No leaf is ever released.                                         *)
(*                                                                         *)
(* The loops of the code that search are recursive functions over the      *)
(* array and over the pattern; what a loop adds is given at once.          *)
(***************************************************************************)
EXTENDS Integers, Sequences, FiniteSets

CONSTANT Chars   \* what the patterns are made of

VARIABLES
  leaves,   \* the leaves in use, by index
  added     \* the patterns added since the tree was made

None == -1
Nul == ""

\* The leaves in use: find_next_free() gives the one behind the last.
Size(t) == Cardinality(DOMAIN t)

\* A leaf below p that goes on with c, to child d; and the end of a pattern.
Leaf(p, c, d) == [value |-> c, end |-> FALSE, parent |-> p, child |-> d, sibling |-> 0]
EndLeaf(p) == [value |-> Nul, end |-> TRUE, parent |-> p, child |-> 0, sibling |-> 0]

-----------------------------------------------------------------------------
(* Looking along a family                                                  *)

\* The first of leaf i and its younger siblings that is in S, or the last of them.
Walk(t, S) ==
  LET walk[j \in DOMAIN t] ==
        IF j \in S \/ t[j].sibling = 0 THEN j ELSE walk[t[j].sibling]
  IN  walk

Along(t, i, S) == Walk(t, S)[i]

Ends(t) == {j \in DOMAIN t : t[j].end}
Holding(t, c) == {j \in DOMAIN t : ~t[j].end /\ t[j].value = c}

\* find_sibling(): the leaf for c in the family from leaf i on, or else the last.
FindSibling(t, i, c) ==
  LET j == Along(t, i, Holding(t, c))
  IN  [found |-> j \in Holding(t, c), item |-> j]

LastSibling(t, i) == Along(t, i, {})

EndAmong(t, i) ==
  LET j == Along(t, i, Ends(t)) IN IF j \in Ends(t) THEN j ELSE None

-----------------------------------------------------------------------------
(* add()                                                                   *)

\* New leaves for the characters of s from the k-th on, and the end, below p.
Chain(t, p, s, k) ==
  LET new == Size(t)
      end == new + Len(s) - k + 1
      above(j) == IF j = new THEN p ELSE j - 1
  IN  [j \in 0 .. end |->
         IF j < new THEN t[j]
         ELSE IF j < end THEN Leaf(above(j), s[k + j - new], j + 1)
         ELSE EndLeaf(above(j))]

\* add_child(): the next leaf is the last child of p.  There is no family to link
\* it into when p is none.
Below(t, p) ==
  IF p = None THEN t
  ELSE IF t[p].child = 0 THEN [t EXCEPT ![p].child = Size(t)]
  ELSE [t EXCEPT ![LastSibling(t, t[p].child)].sibling = Size(t)]

\* Mutant: the older brother is taken for the parent.
BugAddBeside(t, i, s, k) == Chain([t EXCEPT ![i].sibling = Size(t)], i, s, k)

\* Mutant: there is nothing to add of a pattern that another begins with.
BugAddBelow(t, p, s, k) == IF k > Len(s) THEN t ELSE Chain(Below(t, p), p, s, k)

AddBelow(t, p, s, k) == Chain(Below(t, p), p, s, k)

\* add_sibling(), and the rest of the pattern below.
AddBeside(t, i, s, k) == Chain([t EXCEPT ![i].sibling = Size(t)], t[i].parent, s, k)

\* The family below the leaf for c in the family from leaf i on.
Descend(t, i, c) ==
  LET f == FindSibling(t, i, c)
  IN  IF f.found /\ t[f.item].child # 0 THEN t[f.item].child ELSE None

\* The families that the characters of s lead to, one by one, from the top.
Path(t, s) ==
  LET family[k \in 1 .. Len(s) + 1] ==
        IF k = 1 THEN 0
        ELSE LET i == family[k - 1] IN IF i = None THEN None ELSE Descend(t, i, s[k - 1])
  IN  family

\* How far the tree has s already.
Known(t, s) ==
  CHOOSE k \in 1 .. Len(s) + 1 :
    /\ Path(t, s)[k] # None
    /\ \A j \in k + 1 .. Len(s) + 1 : Path(t, s)[j] = None

Added(t, s) ==
  IF Size(t) = 0 THEN AddBelow(t, None, s, 1)
  ELSE LET k == Known(t, s)
           i == Path(t, s)[k]
           f == FindSibling(t, i, s[k])
       IN  IF k = Len(s) + 1 THEN AddBelow(t, t[i].parent, s, k)
           ELSE IF f.found THEN AddBelow(t, f.item, s, k + 1)
           ELSE AddBeside(t, f.item, s, k)

Add(s) ==
  /\ leaves' = Added(leaves, s)
  /\ added' = added \cup {s}

TreeInit == leaves = <<>> /\ added = {}

TreeNext == \E s \in Seq(Chars) : Add(s)

TreeSpec == TreeInit /\ [][TreeNext]_<<leaves, added>>

-----------------------------------------------------------------------------
(* extract()                                                               *)

\* The pattern down to each leaf, which its parents spell.
Words(t) ==
  LET word[i \in DOMAIN t] ==
        LET above == IF t[i].parent = None THEN <<>> ELSE word[t[i].parent]
        IN  IF t[i].end THEN above ELSE Append(above, t[i].value)
  IN  word

Stored(t) == {Words(t)[i] : i \in Ends(t)}

-----------------------------------------------------------------------------
(* Properties                                                              *)

\* The end of an empty pattern, added when there is a top family already, is in no
\* family.
Stray(t, i) == i # 0 /\ t[i].end /\ t[i].parent = None

\* Leaves i and j are brothers.
Family(t, i, j) == t[i].parent = t[j].parent /\ ~Stray(t, i) /\ ~Stray(t, j)

\* A leaf comes after its parent, and only an end has no children.
Shape(t) ==
  /\ Size(t) \in Nat /\ DOMAIN t = 0 .. Size(t) - 1
  /\ \A i \in DOMAIN t :
       /\ t[i] \in [value : Chars \cup {Nul}, end : BOOLEAN, parent : None .. i - 1,
                     child : {0} \cup DOMAIN t, sibling : {0} \cup DOMAIN t]
       /\ ~t[i].end => t[i].value \in Chars
       /\ t[i].end <=> t[i].child = 0

\* The link to the children leads to the first of them.
ChildLinked(t, i) ==
  LET c == t[i].child IN
  /\ c # 0 => t[c].parent = i
  /\ \A j \in DOMAIN t : t[j].parent = i => c # 0 /\ c <= j

\* The link to a brother leads to the next.
SiblingLinked(t, i) ==
  LET b == t[i].sibling IN
  /\ b # 0 => i < b /\ Family(t, i, b)
  /\ \A j \in DOMAIN t : i < j /\ Family(t, i, j) => b # 0 /\ b <= j

\* No two leaves of a family go on with one character.
Distinct(t) ==
  \A i, j \in DOMAIN t :
    Family(t, i, j) /\ ~t[i].end /\ ~t[j].end /\ t[i].value = t[j].value => i = j

Forest(t) ==
  /\ Shape(t)
  /\ \A i \in DOMAIN t : ChildLinked(t, i) /\ SiblingLinked(t, i)
  /\ Distinct(t)

\* The array is a forest of families: each link leads to the leaf it is for and every
\* leaf that can be searched for is reached, whatever patterns are added, in whatever
\* order, and however often.
TypeOK == Forest(leaves) /\ added \subseteq Seq(Chars)

\* A search along s, from family to family, comes to an end of it.
Member(t, s) ==
  /\ Size(t) > 0
  /\ LET i == Path(t, s)[Len(s) + 1] IN i # None /\ EndAmong(t, i) # None

\* The beginnings of the patterns, the patterns themselves included.
Beginnings == UNION {{SubSeq(s, 1, n) : n \in 1 .. Len(s)} : s \in added}

\* The tree holds what was added to it: no pattern is lost or hidden by a later one, no
\* beginning of one becomes a pattern unless it was added, and extract() gives each.
Holds ==
  /\ Stored(leaves) = added
  /\ \A s \in Beginnings : Member(leaves, s) <=> s \in added
=============================================================================
