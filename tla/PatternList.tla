---------------------------- MODULE PatternList ----------------------------
(***************************************************************************)
(* The lists that a PatternTree is loaded from.  The patterns come from    *)
(* the lines of a list, each of which may stand for many: sections in      *)
(* brackets, of which one word each is taken.                              *)
(***************************************************************************)
EXTENDS PatternTree, SequencesExt

CONSTANTS
  Letters,    \* the characters neither kind treats differently
  Lines,      \* per kind: the lines a list may hold, each a sequence of sections
  MaxWords,   \* the words of a section that are kept (16)
  MaxAdds,    \* bound: lines loaded
  MaxLoads    \* bound: lists loaded into one tree

VARIABLES adds, loads  \* the bounds' counters

ASSUME LettersAssumption == Letters \subseteq Chars

Significant(s) == SelectSeq(s, LAMBDA c : c \notin Ignored)

-----------------------------------------------------------------------------
(* The lines of a list                                                     *)

\* A section's words, and whether its brackets are there.
Section(words, opened, closed) == [words |-> words, opened |-> opened, closed |-> closed]

Written(section) ==
  LET text(i) == (IF i = 1 THEN <<>> ELSE <<",">>) \o section.words[i]
  IN  (IF section.opened THEN <<"[">> ELSE <<>>)
      \o FlattenSeq([i \in DOMAIN section.words |-> text(i)])
      \o (IF section.closed THEN <<"]">> ELSE <<>>)

Line(sections) == FlattenSeq([i \in DOMAIN sections |-> Written(sections[i])])

\* The patterns a line stands for: a word of each section, one after the other.
Meant(sections) ==
  LET kept(i) == 1 .. Len(sections[i].words) \cap 1 .. MaxWords
      choices == {c \in [DOMAIN sections -> 1 .. MaxWords] : \A i \in DOMAIN c : c[i] \in kept(i)}
  IN  {FlattenSeq([i \in DOMAIN c |-> sections[i].words[c[i]]]) : c \in choices}

-----------------------------------------------------------------------------
(* if2_pattern_expander_standard::expand()                                 *)

AddString(sections, w) ==
  LET last == sections[Len(sections)]
  IN  IF Len(last) < MaxWords THEN [sections EXCEPT ![Len(sections)] = Append(last, w)]
      ELSE sections

\* The word being read, if there is one, ends.
Ended(p) == IF p.word = <<>> THEN p.sections ELSE AddString(p.sections, p.word[1])

Parsed(sections, word, inside) == [sections |-> sections, word |-> word, inside |-> inside]

\* One character of the line.  A bracket that is missing is assumed.
Parse(p, c) ==
  IF c = "[" THEN Parsed(Append(Ended(p), <<>>), <<<<>>>>, TRUE)
  ELSE IF c = "]" THEN Parsed(Ended(p), <<>>, FALSE)
  ELSE IF c = "," /\ p.inside THEN Parsed(Ended(p), <<<<>>>>, TRUE)
  ELSE IF ~p.inside THEN Parsed(Append(p.sections, <<>>), <<<<c>>>>, TRUE)
  ELSE Parsed(p.sections, <<Append(p.word[1], c)>>, TRUE)

Sections(line) ==
  LET p == FoldLeft(Parse, Parsed(<<>>, <<>>, FALSE), line)
  IN  IF p.inside THEN Ended(p) ELSE p.sections

\* exp_strings(): the combinations, in the order they are added in.
RECURSIVE ExpStrings(_, _)
ExpStrings(pre, sections) ==
  IF sections = <<>> THEN <<pre>>
  ELSE LET words == Head(sections)
       IN  FlattenSeq([i \in DOMAIN words |-> ExpStrings(pre \o words[i], Tail(sections))])

Expand(line) == IF line[1] # "[" THEN <<line>> ELSE ExpStrings(<<>>, Sections(line))

-----------------------------------------------------------------------------
(* A list is loaded into the tree                                          *)

Init == SearchInit /\ adds = 0 /\ loads = 1

\* load() passes over short lines.
MinLine == 5

Load(sections) ==
  LET line == Line(sections) IN
  /\ phase = "loading" /\ adds < MaxAdds
  /\ IF Len(line) < MinLine THEN UNCHANGED <<leaves, added>>
     ELSE /\ leaves' = FoldLeft(LAMBDA t, p : Added(t, Significant(p)), leaves, Expand(line))
          /\ added' = added \cup {Significant(p) : p \in Meant(sections)}
  /\ adds' = adds + 1
  /\ UNCHANGED <<kind, shortcuts, phase, loads>>

Loaded == MakeShortcuts /\ UNCHANGED <<adds, loads>>

Again ==
  /\ loads < MaxLoads
  /\ Clear
  /\ loads' = loads + 1
  /\ UNCHANGED adds

Next == Loaded \/ Again \/ \E line \in Lines[kind] : Load(line)

Spec == Init /\ [][Next]_<<kind, leaves, shortcuts, phase, added, adds, loads>>
=============================================================================
