--------------------------- MODULE ReentrantLock ----------------------------
(***************************************************************************)
(* What a recursive mutex promises: one thread at a time holds it, that    *)
(* thread may take it again, and it is free for the others once the holder *)
(* has released it as often as it took it.                                 *)
(***************************************************************************)
EXTENDS Naturals

CONSTANTS Threads, NoThread

VARIABLES holder, count

Init == holder = NoThread /\ count = 0

Take(t) ==
  \/ holder = NoThread /\ holder' = t /\ count' = 1
  \/ holder = t /\ count' = count + 1 /\ UNCHANGED holder

Drop(t) ==
  /\ holder = t
  /\ holder' = IF count = 1 THEN NoThread ELSE t
  /\ count' = count - 1

Next == \E t \in Threads : Take(t) \/ Drop(t)

Spec == Init /\ [][Next]_<<holder, count>>
=============================================================================
