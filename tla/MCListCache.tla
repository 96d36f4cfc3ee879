---------------------------- MODULE MCListCache ----------------------------
(***************************************************************************)
(* Small instances of ListCache for TLC.                                   *)
(***************************************************************************)
EXTENDS ListCache
=============================================================================
