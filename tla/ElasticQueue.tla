---------------------------- MODULE ElasticQueue ----------------------------
(***************************************************************************)
(* jdk_elastic_queue<T> (libjdk/include/jdk_elastic_queue.h): a circular   *)
(* buffer that grows by half when one free slot is left.  The two-way      *)
(* tunnel keeps the bytes it has read from one peer and not yet written to *)
(* the other in such queues (libif2k/include/if2k_mini_tunnel.h:68).       *)
(***************************************************************************)
EXTENDS Integers, Sequences

CONSTANTS
  Values,     \* the elements, T
  Unwritten,  \* what fresh memory holds
  StartSize,  \* constructor argument
  MaxLength   \* bound: put() is not called with this many elements queued

ASSUME ElasticQueueAssumption ==
  /\ StartSize \in Nat \ {0, 1}
  /\ MaxLength \in Nat \ {0}
  /\ Unwritten \notin Values

VARIABLES
  buf,              \* the memory of the jdk_dynbuf, one slot per element
  buf_data_length,  \* the jdk_dynbuf's own idea of how much of it is used
  next_in,
  next_out,
  buffer_size,
  data_length

vars == <<buf, buf_data_length, next_in, next_out, buffer_size, data_length>>

Slots(size) == 0 .. size - 1

Init ==
  /\ buf = [s \in Slots(StartSize) |-> Unwritten]
  /\ buf_data_length = 0
  /\ next_in = 0
  /\ next_out = 0
  /\ buffer_size = StartSize
  /\ data_length = 0

-----------------------------------------------------------------------------
(* The slot that is reached from `from' in n steps, n at most buffer_size. *)
Slot(from, n) ==
  IF from + n < buffer_size THEN from + n ELSE from + n - buffer_size

(* peek(result, sz): the first sz elements.                                *)
Peek(sz) == [k \in 1 .. sz |-> buf[Slot(next_out, k - 1)]]

-----------------------------------------------------------------------------
(* The geometry of the queue after put() has made room.                    *)
Full == 1 >= buffer_size - data_length
NewSize == IF Full THEN (buffer_size * 3) \div 2 ELSE buffer_size

(* Mutant: the part that wrapped to the front of the buffer is not copied. *)
BugTailCopied ==
  [s \in Slots(NewSize) |->
     IF next_out + s < buffer_size THEN buf[next_out + s] ELSE Unwritten]

(* The new buffer: the queued elements, moved to the front.                *)
Copied ==
  [s \in Slots(NewSize) |->
     IF s < data_length THEN buf[Slot(next_out, s)] ELSE Unwritten]

(* When growing, the indices are reset only if the contents wrapped.       *)
Wrapped == Full /\ next_out > next_in

(* put(o)                                                                  *)
Put(v) ==
  /\ data_length < MaxLength
  /\ LET room == IF Full THEN Copied ELSE buf
         in   == IF Wrapped THEN data_length ELSE next_in
         pre  == IF next_in < next_out THEN next_in ELSE next_out
     IN  /\ buf' = [room EXCEPT ![in] = v]
         /\ next_in' = IF in + 1 = NewSize THEN 0 ELSE in + 1
         /\ buf_data_length' = data_length + 1 + pre
  /\ next_out' = IF Wrapped THEN 0 ELSE next_out
  /\ buffer_size' = NewSize
  /\ data_length' = data_length + 1

(* Mutant: the index wraps one slot too late.                              *)
BugSkipWrap(n) ==
  /\ n <= data_length
  /\ next_out' = IF next_out + n > buffer_size THEN next_out + n - buffer_size
                                               ELSE next_out + n
  /\ data_length' = data_length - n
  /\ UNCHANGED <<buf, buf_data_length, next_in, buffer_size>>

(* skip(n); its caller has seen at least n elements.                       *)
Skip(n) ==
  /\ n <= data_length
  /\ next_out' = IF next_out + n >= buffer_size THEN next_out + n - buffer_size
                                                ELSE next_out + n
  /\ data_length' = data_length - n
  /\ UNCHANGED <<buf, buf_data_length, next_in, buffer_size>>

Clear ==
  /\ next_in' = 0
  /\ next_out' = 0
  /\ data_length' = 0
  /\ UNCHANGED <<buf, buf_data_length, buffer_size>>

Next ==
  \/ \E v \in Values : Put(v)
  \/ \E n \in 1 .. MaxLength : Skip(n)
  \/ Clear

Spec == Init /\ [][Next]_vars

-----------------------------------------------------------------------------
(***************************************************************************)
(* Properties.                                                             *)
(***************************************************************************)

(* The indices are slots of the buffer, and its memory is as large as the  *)
(* queue believes.                                                         *)
TypeOK ==
  /\ buffer_size \in Nat \ {0, 1}
  /\ buf \in [Slots(buffer_size) -> Values \cup {Unwritten}]
  /\ buf_data_length \in Nat
  /\ next_in \in Slots(buffer_size)
  /\ next_out \in Slots(buffer_size)
  /\ data_length \in 0 .. MaxLength

(* validate(), which a debug build runs before and after every operation:  *)
(* the two indices are slots of the buffer, they and the length agree, and *)
(* the queue is never so full that a full one could be taken for an empty  *)
(* one.                                                                    *)
Valid ==
  /\ {next_in, next_out} \subseteq Slots(buffer_size)
  /\ data_length = IF next_out <= next_in THEN next_in - next_out
                                          ELSE buffer_size + next_in - next_out
  /\ data_length <= buf_data_length

(* The queue is a FIFO of what peek() returns: neither growing, nor        *)
(* wrapping, nor the order of the two ever changes, loses or repeats an    *)
(* element.                                                                *)
Queue == INSTANCE Fifo WITH queue <- Peek(data_length)
ImplementsFifo == Queue!Spec
=============================================================================
