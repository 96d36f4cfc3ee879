--------------------------- MODULE MCElasticQueue ---------------------------
(***************************************************************************)
(* A small instance of ElasticQueue for TLC: from two slots the buffer     *)
(* grows to 3, 4, 6 and 9, with its contents wrapped and not.              *)
(***************************************************************************)
EXTENDS ElasticQueue

CONSTANTS a, b
=============================================================================
