------------------------- MODULE ElasticQueueProofs -------------------------
(***************************************************************************)
(* jdk_elastic_queue is a FIFO, for every start size and every length.     *)
(***************************************************************************)
EXTENDS ElasticQueue, SequenceTheorems, TLAPS

IInv == TypeOK /\ Valid

(* The slots of the queued elements are slots of the buffer, and one is    *)
(* always free.                                                            *)
LEMMA Room ==
  ASSUME IInv
  PROVE  /\ data_length < buffer_size
         /\ \A n \in 0 .. data_length : Slot(next_out, n) \in Slots(buffer_size)
         /\ Slot(next_out, data_length) = next_in
  BY DEF IInv, TypeOK, Valid, Slot, Slots

(* Growing makes the buffer longer by at least one, and puts the contents  *)
(* where the indices, reset or not, will look for them.                    *)
LEMMA Growth ==
  ASSUME IInv
  PROVE  /\ NewSize \in Nat \ {0, 1}
         /\ data_length + 1 < NewSize
         /\ Full => data_length = buffer_size - 1
         /\ Full /\ ~Wrapped => next_out = 0 /\ next_in = data_length
         /\ Wrapped => next_in < next_out
  BY DEF IInv, TypeOK, Valid, Full, NewSize, Wrapped, Slots

LEMMA InitIInv == Init => IInv
  BY ElasticQueueAssumption DEF Init, IInv, TypeOK, Valid, Slots

LEMMA PutIInv ==
  ASSUME IInv, NEW v \in Values, Put(v)
  PROVE  IInv'
<1> USE DEF IInv, TypeOK, Valid
<1>1. buffer_size' = NewSize /\ buffer_size' \in Nat \ {0, 1}
  BY Growth DEF Put
<1>2. buf' \in [Slots(buffer_size') -> Values \cup {Unwritten}]
  <2>1. CASE Full
    <3>1. Copied \in [Slots(NewSize) -> Values \cup {Unwritten}]
      <4>1. ASSUME NEW s \in Slots(NewSize), s < data_length
            PROVE  buf[Slot(next_out, s)] \in Values \cup {Unwritten}
        BY <4>1, Room DEF Slots
      <4> QED
        BY <4>1 DEF Copied
    <3> QED
      BY <1>1, <2>1, <3>1 DEF Put
  <2>2. CASE ~Full
    BY <1>1, <2>2 DEF Put, NewSize
  <2> QED
    BY <2>1, <2>2
<1>3. CASE Full
  <2>1. next_out' = 0 /\ next_in' = data_length + 1
    BY <1>3, Growth DEF Put
  <2> QED
    BY <1>1, <1>2, <2>1, Growth, ElasticQueueAssumption DEF Put, Slots
<1>4. CASE ~Full
  BY <1>1, <1>2, <1>4, ElasticQueueAssumption
     DEF Put, Full, NewSize, Wrapped, Slots
<1> QED
  BY <1>3, <1>4

LEMMA SkipIInv ==
  ASSUME IInv, NEW n \in 1 .. MaxLength, Skip(n)
  PROVE  IInv'
  BY ElasticQueueAssumption DEF IInv, TypeOK, Valid, Skip, Slots

LEMMA ClearIInv == IInv /\ Clear => IInv'
  BY ElasticQueueAssumption DEF IInv, TypeOK, Valid, Clear, Slots

LEMMA Invariant == Spec => []IInv
<1>1. IInv /\ [Next]_vars => IInv'
  <2>1. IInv /\ UNCHANGED vars => IInv'
    BY DEF IInv, TypeOK, Valid, vars
  <2> QED
    BY <2>1, PutIInv, SkipIInv, ClearIInv DEF Next
<1> QED
  BY <1>1, InitIInv, PTL DEF Spec

-----------------------------------------------------------------------------
(***************************************************************************)
(* The contents.                                                           *)
(***************************************************************************)

Contents == Peek(data_length)

LEMMA ContentsSeq ==
  ASSUME IInv
  PROVE  /\ Contents \in Seq(Values \cup {Unwritten})
         /\ Len(Contents) = data_length
         /\ \A k \in 1 .. data_length : Contents[k] = buf[Slot(next_out, k - 1)]
<1>1. \A k \in 1 .. data_length : buf[Slot(next_out, k - 1)] \in Values \cup {Unwritten}
  BY Room DEF IInv, TypeOK
<1>2. data_length \in Nat
  BY DEF IInv, TypeOK
<1> QED
  BY <1>1, <1>2 DEF Contents, Peek

(* put() leaves what is queued, and adds its element behind it.            *)
LEMMA PutAppends ==
  ASSUME IInv, NEW v \in Values, Put(v)
  PROVE  Contents' = Append(Contents, v)
<1> USE DEF IInv, TypeOK
<1>1. IInv'
  BY PutIInv
<1>2. /\ data_length \in Nat /\ data_length' = data_length + 1
      /\ buffer_size' = NewSize
  BY DEF Put
<1>3. \A k \in 1 .. data_length :
        buf'[Slot(next_out, k - 1)'] = buf[Slot(next_out, k - 1)]
  <2> SUFFICES ASSUME NEW k \in 1 .. data_length
               PROVE  buf'[Slot(next_out, k - 1)'] = buf[Slot(next_out, k - 1)]
    OBVIOUS
  <2>1. CASE Full
    <3>1. Slot(next_out, k - 1)' = k - 1
      BY <1>2, <2>1, Growth DEF Put, Slot
    <3>2. Copied[k - 1] = buf[Slot(next_out, k - 1)]
      BY Growth DEF Copied, Slots
    <3>3. buf' = [Copied EXCEPT ![data_length] = v]
      BY <2>1, Growth DEF Put
    <3> QED
      BY <3>1, <3>2, <3>3 DEF Copied, Slots
  <2>2. CASE ~Full
    <3>1. buf' = [buf EXCEPT ![next_in] = v]
      BY <2>2 DEF Put, Wrapped
    <3>2. Slot(next_out, k - 1)' = Slot(next_out, k - 1)
      BY <2>2 DEF Put, Slot, NewSize, Wrapped
    <3>3. Slot(next_out, k - 1) # next_in /\ Slot(next_out, k - 1) \in Slots(buffer_size)
      BY DEF Slot, Slots, Valid
    <3> QED
      BY <3>1, <3>2, <3>3
  <2> QED
    BY <2>1, <2>2
<1>4. ASSUME NEW n, n = data_length
      PROVE  buf'[Slot(next_out, n)'] = v
  <2>1. CASE Full
    <3>1. buf' = [Copied EXCEPT ![n] = v]
      BY <1>4, <2>1, Growth DEF Put
    <3>2. Slot(next_out, n)' = n
      BY <1>2, <1>4, <2>1, Growth DEF Put, Slot
    <3>3. n \in Slots(NewSize)
      BY <1>4, Growth DEF Slots
    <3> QED
      BY <3>1, <3>2, <3>3 DEF Copied
  <2>2. CASE ~Full
    <3>1. buf' = [buf EXCEPT ![next_in] = v]
      BY <2>2 DEF Put, Wrapped
    <3>2. Slot(next_out, n)' = next_in
      BY <1>4, <2>2, Room DEF Put, Slot, NewSize, Wrapped
    <3> QED
      BY <3>1, <3>2
  <2> QED
    BY <2>1, <2>2
<1>5. \A k \in 1 .. data_length + 1 : Contents'[k] = Append(Contents, v)[k]
  <2> SUFFICES ASSUME NEW k \in 1 .. data_length + 1
               PROVE  Contents'[k] = Append(Contents, v)[k]
    OBVIOUS
  <2>1. Contents'[k] = buf'[Slot(next_out, k - 1)']
    BY <1>2 DEF Contents, Peek
  <2>2. CASE k = data_length + 1
    <3>1. Contents'[k] = v
      BY <1>4, <2>1, <2>2, k - 1 = data_length, <1>2
    <3> QED
      BY <3>1, <2>2, ContentsSeq, AppendProperties
  <2>3. CASE k \in 1 .. data_length
    BY <1>3, <2>1, <2>3, ContentsSeq, AppendProperties
  <2>4. k = data_length + 1 \/ k \in 1 .. data_length
    BY <1>2
  <2> QED
    BY <2>2, <2>3, <2>4
<1>6. /\ Contents' \in Seq(Values \cup {Unwritten})
      /\ Len(Contents') = data_length + 1
  <2>1. Contents' = [k \in 1 .. data_length + 1 |-> buf'[Slot(next_out, k - 1)']]
    BY <1>2 DEF Contents, Peek
  <2>2. \A k \in 1 .. data_length + 1 : Contents'[k] \in Values \cup {Unwritten}
    BY <1>2, <1>5, ContentsSeq, AppendProperties
  <2> QED
    BY <1>2, <2>1, <2>2
<1> QED
  BY <1>2, <1>5, <1>6, ContentsSeq, AppendProperties, SeqEqual

(* skip(n) takes the first n elements away and leaves the others.          *)
LEMMA SkipTakes ==
  ASSUME IInv, NEW n \in 1 .. MaxLength, Skip(n)
  PROVE  Contents' = SubSeq(Contents, n + 1, Len(Contents))
<1> USE DEF IInv, TypeOK
<1> DEFINE rest == SubSeq(Contents, n + 1, data_length)
<1>1. /\ data_length \in Nat /\ data_length' = data_length - n
      /\ n \in Nat /\ n <= data_length
  BY ElasticQueueAssumption DEF Skip
<1>2. Contents' = [k \in 1 .. data_length - n |-> buf[Slot(next_out, n + k - 1)]]
  <2>1. \A k \in 1 .. data_length - n : Slot(next_out, k - 1)' = Slot(next_out, n + k - 1)
    BY <1>1 DEF Skip, Slot, Slots, Valid
  <2> QED
    BY <1>1, <2>1 DEF Contents, Peek, Skip
<1>3. \A k \in 1 .. data_length - n : buf[Slot(next_out, n + k - 1)] = Contents[n + k]
  BY <1>1, ContentsSeq
<1>4. /\ rest \in Seq(Values \cup {Unwritten})
      /\ Len(rest) = data_length - n
      /\ \A k \in 1 .. data_length - n : rest[k] = Contents[n + k]
  <2>1. \A k \in n + 1 .. data_length : Contents[k] \in Values \cup {Unwritten}
    BY <1>1, ContentsSeq
  <2> QED
    BY <1>1, <2>1, SubSeqProperties
<1>5. /\ Contents' \in Seq(Values \cup {Unwritten})
      /\ Len(Contents') = data_length - n
      /\ \A k \in 1 .. data_length - n : Contents'[k] = Contents[n + k]
  <2>1. \A k \in 1 .. data_length - n : Contents[n + k] \in Values \cup {Unwritten}
    BY <1>1, ContentsSeq
  <2>2. \A k \in 1 .. data_length - n : Contents'[k] = Contents[n + k]
    BY <1>2, <1>3
  <2>3. data_length - n \in Nat
    BY <1>1
  <2>4. Contents' \in [1 .. data_length - n -> Values \cup {Unwritten}]
    BY <1>2, <1>3, <2>1
  <2> QED
    BY <2>2, <2>3, <2>4
<1> QED
  BY <1>4, <1>5, ContentsSeq, SeqEqual

-----------------------------------------------------------------------------
(* Every variable keeps its type.                                          *)
THEOREM TypeCorrect == Spec => []TypeOK
  BY Invariant, PTL DEF IInv

(* validate() never throws, whatever the start size.                       *)
THEOREM AlwaysValid == Spec => []Valid
  BY Invariant, PTL DEF IInv

(* The circular, growing buffer implements the FIFO.                       *)
THEOREM IsFifo == Spec => ImplementsFifo
<1>1. Init => Queue!Init
  BY DEF Init, Queue!Init, Peek
<1>2. ASSUME IInv, NEW v \in Values, Put(v)
      PROVE  Queue!Put(v)
  BY <1>2, PutAppends, ContentsSeq DEF Put, Queue!Put, Contents
<1>3. ASSUME IInv, NEW n \in 1 .. MaxLength, Skip(n)
      PROVE  Queue!Skip(n)
  BY <1>3, SkipTakes, ContentsSeq DEF Skip, Queue!Skip, Contents
<1>4. Clear => Queue!Clear
  BY DEF Clear, Queue!Clear, Peek
<1>5. UNCHANGED vars => UNCHANGED Contents
  BY DEF vars, Contents, Peek, Slot
<1>6. IInv /\ [Next]_vars => [Queue!Next]_Contents
  BY <1>2, <1>3, <1>4, <1>5 DEF Next, Queue!Next
<1> QED
  BY <1>1, <1>6, Invariant, PTL DEF Spec, ImplementsFifo, Queue!Spec, Contents
=============================================================================
