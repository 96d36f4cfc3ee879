-------------------------------- MODULE Fifo --------------------------------
(***************************************************************************)
(* What a byte queue between two sockets promises: the bytes come out in   *)
(* the order in which they went in, none twice and none lost, unless the   *)
(* queue is cleared.                                                       *)
(***************************************************************************)
EXTENDS Naturals, Sequences

CONSTANTS
  Values,     \* what can be queued
  MaxLength   \* bound on the length, so that the queue is finite

VARIABLE queue

Init == queue = <<>>

Put(v) == Len(queue) < MaxLength /\ queue' = Append(queue, v)

Skip(n) == n <= Len(queue) /\ queue' = SubSeq(queue, n + 1, Len(queue))

Clear == queue' = <<>>

Next ==
  \/ \E v \in Values : Put(v)
  \/ \E n \in 1 .. MaxLength : Skip(n)
  \/ Clear

Spec == Init /\ [][Next]_queue
=============================================================================
