--------------------------- MODULE MCPatternList ---------------------------
(***************************************************************************)
(* Small instances of PatternList for TLC.  The patterns begin alike, end  *)
(* inside one another and overlap; one of the phrases is empty but for     *)
(* what is ignored, and one holds a character that is ignored.  Of the     *)
(* lines, some lack brackets, one has too many words, one is too short.    *)
(***************************************************************************)
EXTENDS PatternList

MCChars == Letters \cup {Space, Slash, Star, Nul}

A == <<"a">>
B == <<"b">>
AB == A \o B
Full(words) == Section(words, TRUE, TRUE)
Open(words) == Section(words, TRUE, FALSE)
Bare(words) == Section(words, FALSE, FALSE)

Shared ==
  {<<Full(<<A, B>>)>>,                             \* [a,b]
   <<Full(<<A>>), Full(<<B, <<>>>>)>>,             \* [a][b,]
   <<Full(<<AB, B \o A, AB \o A, B>>)>>,           \* [ab,ba,aba,b]
   <<Full(<<B>>), Bare(<<A>>), Full(<<B, A>>)>>,   \* [b]a[b,a]
   <<Open(<<B>>), Full(<<B \o A>>)>>,              \* [b[ba]
   <<Bare(<<AB \o AB \o A>>)>>,                    \* ababa
   <<Bare(<<B>>)>>}                                \* b

MCLines ==
  [phrases |-> Shared \cup {<<Full(<<<<Space>>>>), Full(<<<<Space>>>>)>>,
                            <<Full(<<<<"a", Space>>>>), Open(<<B \o B>>)>>},
   urls |-> Shared \cup {<<Full(<<<<"a", Slash>>>>), Bare(<<B, <<>>>>)>>}]

MCTexts ==
  [phrases |-> [1 .. 4 -> Letters \cup {Space}] \cup [1 .. 5 -> Letters],
   urls |-> {<<Slash>> \o s : s \in [1 .. 4 -> Letters \cup {Slash}]}]
=============================================================================
