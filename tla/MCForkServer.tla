---------------------------- MODULE MCForkServer ----------------------------
(* Two servers, so that one registry serves both and a death can be reported *)
(* to the wrong one; one number more than there are children, so that a      *)
(* number is used again, and is not.                                         *)
EXTENDS ForkServer

CONSTANTS p1, p2, p3

\* num_forks of the two servers; MaxChild = 2 leaves the registry no spare place.
OneEach == <<1, 1>>
=============================================================================
