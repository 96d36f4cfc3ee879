------------------------------ MODULE MCFilter ------------------------------
(***************************************************************************)
(* Small instances of Filter for TLC.  g is on a good list, b on a bad one *)
(* of category 1; p is on a good list, and on a list of phrases of         *)
(* category 1 and of postbad addresses of category 2: what it is depends   *)
(* on the categories that are enabled.  s has a '*' in its host.           *)
(***************************************************************************)
EXTENDS Filter, TLC

CONSTANTS w1, w2, g, b, p, s

WorkerSymmetry == Permutations(Workers)

MCGood == <<{g}, {p}>>
MCBad == <<{b}, {}>>
MCPostbad == <<{}, {p}>>
MCPhrases == <<{p}, {}>>

Default ==
  [blocking_enable |-> TRUE, block_bad |-> TRUE, block_unknown |-> FALSE,
   blocking_referer_enable |-> TRUE, override_allow |-> TRUE, block_content |-> TRUE,
   content_match_threshold |-> 1, good_categories |-> {1, 2}, categories |-> {1, 2}]

\* As delivered, but with the override allowed; the override as it was loaded, for
\* good; unknown addresses blocked; one category of two, with and without an excuse
\* by the referer; the filter off.
MCSettings ==
  {Default,
   [Default EXCEPT !.override_allow = FALSE],
   [Default EXCEPT !.block_unknown = TRUE, !.good_categories = {1}],
   [Default EXCEPT !.categories = {2}],
   [Default EXCEPT !.categories = {2}, !.blocking_referer_enable = FALSE],
   [Default EXCEPT !.blocking_enable = FALSE]}
=============================================================================
