---------------------------- MODULE PatternTree ----------------------------
(***************************************************************************)
(* The tree of patterns that a scanner searches: if2k_mini_tree, on the    *)
(* jdk_tree of module JdkTree.                                             *)
(*                                                                         *)
(* There are two kinds of tree.  One of phrases matches anywhere and       *)
(* ignores spaces; one of addresses matches after a prefix character only. *)
(* Characters that differ in case alone are one character here.  Which     *)
(* patterns a list holds is the matter of module PatternList.              *)
(***************************************************************************)
EXTENDS JdkTree

CONSTANT Texts   \* per kind: the texts searched in

VARIABLES
  kind,        \* which kind of tree (the traits)
  shortcuts,   \* initial_shortcuts: per character, its leaf in the top family
  phase        \* "loading", or "ready" to search

vars == <<kind, leaves, shortcuts, phase, added>>

Space == " "
Slash == "/"
Star == "*"

Kinds == {"phrases", "urls"}

\* find() looks at no text that is shorter.
MinText == 4

ASSUME PatternTreeAssumption ==
  /\ {Space, Slash, Star, Nul} \subseteq Chars
  /\ \A k \in Kinds : \A text \in Texts[k] : text \in Seq(Chars) /\ Len(text) >= MinText

Ignored == IF kind = "phrases" THEN {Space} ELSE {}

-----------------------------------------------------------------------------
(* find_longest()                                                          *)

\* A match ends in a leaf and at a position of the text.
Match(item, to) == [item |-> item, to |-> to]
NoMatch == Match(None, 0)

\* The first position from k on whose character is not ignored.
SkipIgnored(text, k) ==
  LET rest == {j \in k .. Len(text) : text[j] \notin Ignored}
  IN  IF rest = {} THEN Len(text) + 1 ELSE CHOOSE j \in rest : \A l \in rest : j <= l

\* Mutant: a longer match is not looked for.
BugLonger(m, deeper) == m

\* Deeper in the family there may be a longer match.
Longer(m, deeper) == IF deeper = NoMatch THEN m ELSE deeper

\* The longest match of text, for each position and each leaf, from that position on
\* and with the family from that leaf on.  Where a pattern ends, the search begins
\* anew with each leaf of the family below.
Search(t, text) ==
  LET search[at \in (1 .. Len(text) + 1) \X DOMAIN t] ==
        LET pos == SkipIgnored(text, at[1])
            f == FindSibling(t, at[2], text[pos])
            below == t[f.item].child
            end == EndAmong(t, below)
            next(j) == search[<<pos + 1, j>>]
            further == {j \in DOMAIN t : Family(t, below, j) /\ next(j) # NoMatch}
        IN  IF pos > Len(text) THEN NoMatch
            ELSE IF ~f.found THEN NoMatch
            ELSE IF below = 0 THEN Match(f.item, pos)
            ELSE IF end = None THEN next(below)
            ELSE Longer(Match(end, pos), next(Along(t, below, further)))
  IN  search

-----------------------------------------------------------------------------
(* if2k_mini_tree                                                          *)

\* Where a match may begin.
Starts(text) ==
  IF kind = "phrases" THEN DOMAIN text
  ELSE {k \in 2 .. Len(text) : text[k - 1] = Slash}

MatchAt(text, k) ==
  IF k \notin Starts(text) \/ shortcuts[text[k]] = None THEN NoMatch
  ELSE Search(leaves, text)[<<k, shortcuts[text[k]]>>]

\* find(): the matches it reports, by the positions where they begin.
Find(text) ==
  [k \in {k \in DOMAIN text : Len(text) >= MinText /\ MatchAt(text, k) # NoMatch} |->
     MatchAt(text, k)]

\* Mutant: one character too many is censored.
BugCensoredMore(text, from, to) ==
  [j \in DOMAIN text |->
     IF from <= j /\ j <= to + 1 /\ text[j] \notin Ignored THEN Star ELSE text[j]]

\* Mutant: the last character of a match is not censored.
BugCensoredLess(text, from, to) ==
  [j \in DOMAIN text |->
     IF from <= j /\ j < to /\ text[j] \notin Ignored THEN Star ELSE text[j]]

\* perform_censor(); what a deeper search does not overwrite, the one around it does.
Censored(text, from, to) ==
  [j \in DOMAIN text |->
     IF from <= j /\ j <= to /\ text[j] \notin Ignored THEN Star ELSE text[j]]

\* censor(): each match is censored before the next is looked for.
Censoring(text) ==
  LET after[k \in 0 .. Len(text)] ==
        IF k = 0 THEN text
        ELSE LET before == after[k - 1]
                 m == MatchAt(before, k)
             IN  IF m = NoMatch THEN before ELSE Censored(before, k, m.to)
  IN  after

Censor(text) == Censoring(text)[Len(text)]

\* extract(): the pattern that leaf i is the end of.
Extract(i) == Words(leaves)[i]

NoShortcuts == [c \in Chars |-> None]

\* What the walk along the top family notes; it stops at an end.
Shortcuts(t) ==
  [c \in Chars |->
     LET j == Along(t, 0, Holding(t, c) \cup Ends(t))
     IN  IF j \in Holding(t, c) THEN j ELSE None]

-----------------------------------------------------------------------------
(* A tree is filled and searched                                           *)

SearchInit ==
  /\ kind \in Kinds
  /\ TreeInit /\ shortcuts = NoShortcuts
  /\ phase = "loading"

\* A pattern, without the characters that add() ignores.
AddPattern(s) ==
  /\ phase = "loading"
  /\ Add(s)
  /\ UNCHANGED <<kind, shortcuts, phase>>

MakeShortcuts ==
  /\ phase = "loading"
  /\ shortcuts' = IF Size(leaves) = 0 THEN NoShortcuts ELSE Shortcuts(leaves)
  /\ phase' = "ready"
  /\ UNCHANGED <<kind, leaves, added>>

\* clear() before the next list: no leaf is released, and the old patterns stay.
Clear ==
  /\ phase = "ready"
  /\ shortcuts' = NoShortcuts
  /\ phase' = "loading"
  /\ UNCHANGED <<kind, leaves, added>>

SearchNext ==
  \/ \E s \in Seq(Chars \ Ignored) : AddPattern(s)
  \/ MakeShortcuts
  \/ Clear

SearchSpec == SearchInit /\ [][SearchNext]_vars

-----------------------------------------------------------------------------
(* Properties                                                              *)

\* The positions from k to j whose characters count.
Counting(text, k, j) == {l \in k .. j : text[l] \notin Ignored}

\* What counts of the text from k to j are the characters of p, in order.
Spells(text, k, j, p) ==
  /\ Cardinality(Counting(text, k, j)) = Len(p)
  /\ \A l \in Counting(text, k, j) : text[l] = p[Cardinality(Counting(text, k, l))]

\* Pattern p is at position k of the text, and its last character is at position j.
Occurs(p, text, k, j) ==
  /\ k \in Starts(text) /\ j \in k .. Len(text) /\ p \in added /\ p # <<>>
  /\ text[k] \notin Ignored /\ text[j] \notin Ignored
  /\ Spells(text, k, j, p)

OccursAt(text, k) == {p \in added : \E j \in DOMAIN text : Occurs(p, text, k, j)}

\* make_shortcuts() stops at once when the first pattern of all was empty.
Blank == Size(leaves) > 0 /\ leaves[0].end

Searchable == phase = "ready" /\ ~Blank

\* What find() reports of a text is the longest pattern at each position where one
\* begins, and nothing else: each pattern added since the tree was made counts, and
\* neither their order, nor one that is part of another, hides any.
ReportsLongest ==
  Searchable =>
    \A text \in Texts[kind] :
      LET found == Find(text) IN
      /\ DOMAIN found = {k \in DOMAIN text : OccursAt(text, k) # {}}
      /\ \A k \in DOMAIN found :
           LET p == Extract(found[k].item) IN
           /\ Occurs(p, text, k, found[k].to)
           /\ \A q \in OccursAt(text, k) : Len(q) <= Len(p)

\* A pattern with the character that censor() writes may match what was censored.
Plain == \A p \in added : \A n \in DOMAIN p : p[n] # Star

\* Nothing is found in a text that has been censored, overlapping matches included.
CensorHides ==
  phase = "ready" /\ Plain => \A text \in Texts[kind] : DOMAIN Find(Censor(text)) = {}

\* Only characters of a pattern's occurrence are censored, and none is when there
\* is no occurrence and only then.
CensorsMatchesOnly ==
  Searchable /\ Plain =>
    \A text \in Texts[kind] :
      LET after == Censor(text) IN
      /\ \A l \in DOMAIN text : after[l] # text[l] =>
           \E k, j \in DOMAIN text, p \in added : k <= l /\ l <= j /\ Occurs(p, text, k, j)
      /\ after = text <=> \A k \in DOMAIN text : OccursAt(text, k) = {}
=============================================================================
