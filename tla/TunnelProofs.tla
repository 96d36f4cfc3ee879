---------------------------- MODULE TunnelProofs ----------------------------
(***************************************************************************)
(* What the tunnel keeps, for every queue limit, buffer, window and number *)
(* of bytes.  The queues of IInv are measured against ready, which is what *)
(* select() found before the first of this pass's reads and writes.        *)
(***************************************************************************)
EXTENDS Tunnel, SequenceTheorems, TLAPS

(* How much data is queued for side s, the redirect not counted.           *)
Load(s) ==
  IF s = "client" /\ blocking_applied THEN Len(queue[s]) - 1 ELSE Len(queue[s])

(* The prefix data are the first that is read of a peer.                   *)
PrefixFresh ==
  /\ pc = "prefix client" =>
       \A s \in Sides : Load(s) <= 0 /\ got[s] = 0
  /\ pc = "prefix server" =>
       Load("client") <= 0 /\ got["server"] = 0

(* What select() found writable still has data when its turn comes.        *)
ReadyHasData ==
  /\ pc \in {"read client", "read server", "write client"} =>
       \A s \in ready.write : queue[s] # <<>>
  /\ pc = "write server" /\ "server" \in ready.write => queue["server"] # <<>>

(* What select() found readable still has room when its turn comes.        *)
ReadyHasRoom ==
  /\ pc = "read client" => \A s \in ready.read : Load(Other(s)) < QueueLimit
  /\ pc = "read server" /\ "server" \in ready.read => Load("client") < QueueLimit

(* A buffer may be read when there was room for one byte; the prefix data  *)
(* need no room, and are all there is until there is room again.           *)
Within(s) ==
  \/ Load(s) < QueueLimit + BufferSize
  \/ Load(s) <= prefix[Other(s)] /\ got[Other(s)] = prefix[Other(s)]

Bounded == \A s \in Sides : Within(s)

IInv ==
  /\ TypeOK
  /\ NeverThrown
  /\ InOrder
  /\ PrefixFresh
  /\ ReadyHasData
  /\ ReadyHasRoom
  /\ Bounded

-----------------------------------------------------------------------------
(* Sequences.                                                              *)

LEMMA BytesSeq ==
  ASSUME NEW from \in Nat, NEW to \in Nat, from <= to
  PROVE  /\ Bytes(from, to) \in Seq(Item)
         /\ Len(Bytes(from, to)) = to - from
         /\ \A k \in 1 .. to - from : Bytes(from, to)[k] = from + k
<1> DEFINE n == to - from
<1>1. n \in Nat /\ \A k \in 1 .. n : from + k \in Item
  BY DEF Item
<1> HIDE DEF n
<1>2. [k \in 1 .. n |-> from + k] \in Seq(Item) /\ Len([k \in 1 .. n |-> from + k]) = n
  BY <1>1
<1> QED
  BY <1>2 DEF Bytes, n

LEMMA BytesFromZero ==
  ASSUME NEW n \in Nat
  PROVE  /\ Bytes(0, n) \in Seq(Item)
         /\ Len(Bytes(0, n)) = n
         /\ \A k \in 1 .. n : Bytes(0, n)[k] = k
<1>1. 0 \in Nat /\ 0 <= n /\ n - 0 = n /\ \A k \in 1 .. n : 0 + k = k
  OBVIOUS
<1>2. /\ Bytes(0, n) \in Seq(Item)
      /\ Len(Bytes(0, n)) = n - 0
      /\ \A k \in 1 .. n - 0 : Bytes(0, n)[k] = 0 + k
  BY <1>1, BytesSeq, Zenon
<1> QED
  BY <1>1, <1>2

(* Consecutive pieces of a peer's data make one piece.                     *)
LEMMA BytesJoin ==
  ASSUME NEW mid \in Nat, NEW to \in Nat, mid <= to
  PROVE  Bytes(0, mid) \o Bytes(mid, to) = Bytes(0, to)
<1>1. /\ Bytes(0, mid) \in Seq(Item)
      /\ Len(Bytes(0, mid)) = mid
      /\ \A k \in 1 .. mid : Bytes(0, mid)[k] = k
  BY BytesFromZero
<1>2. /\ Bytes(mid, to) \in Seq(Item)
      /\ Len(Bytes(mid, to)) = to - mid
      /\ \A k \in 1 .. to - mid : Bytes(mid, to)[k] = mid + k
  BY BytesSeq
<1>3. /\ Bytes(0, to) \in Seq(Item)
      /\ Len(Bytes(0, to)) = to
      /\ \A k \in 1 .. to : Bytes(0, to)[k] = k
  BY BytesFromZero
<1> DEFINE both == Bytes(0, mid) \o Bytes(mid, to)
<1>4. /\ both \in Seq(Item)
      /\ Len(both) = to
      /\ \A k \in 1 .. to :
           both[k] = IF k <= mid THEN Bytes(0, mid)[k] ELSE Bytes(mid, to)[k - mid]
  BY <1>1, <1>2, ConcatProperties
<1>5. \A k \in 1 .. to : both[k] = k
  BY <1>1, <1>2, <1>4
<1> QED
  BY <1>3, <1>4, <1>5, SeqEqual

(* Moving the front of one sequence to the end of another leaves the two,  *)
(* one behind the other, as they were.                                     *)
LEMMA MoveFront ==
  ASSUME NEW S, NEW a \in Seq(S), NEW b \in Seq(S), NEW n \in 0 .. Len(b)
  PROVE  /\ SubSeq(b, 1, n) \in Seq(S)
         /\ SubSeq(b, n + 1, Len(b)) \in Seq(S)
         /\ Len(SubSeq(b, n + 1, Len(b))) = Len(b) - n
         /\ (a \o SubSeq(b, 1, n)) \o SubSeq(b, n + 1, Len(b)) = a \o b
<1>1. Len(b) \in Nat /\ \A k \in 1 .. Len(b) : b[k] \in S
  BY LenProperties, ElementOfSeq
<1>2. SubSeq(b, 1, n) \in Seq(S)
  BY <1>1, SubSeqProperties
<1>3. /\ SubSeq(b, n + 1, Len(b)) \in Seq(S)
      /\ Len(SubSeq(b, n + 1, Len(b))) = Len(b) - n
  <2>1. \A k \in n + 1 .. Len(b) : b[k] \in S
    BY <1>1
  <2>2. n + 1 \in Int /\ Len(b) \in Int
    BY <1>1
  <2> QED
    BY <1>1, <2>1, <2>2, SubSeqProperties
<1>4. SubSeq(b, 1, n) \o SubSeq(b, n + 1, Len(b)) = b
  <2>1. SubSeq(b, 1, n) \o SubSeq(b, n + 1, Len(b)) = SubSeq(b, 1, Len(b))
    <3>1. /\ 1 \in 1 .. Len(b) + 1
          /\ n \in 1 - 1 .. Len(b)
          /\ Len(b) \in n .. Len(b)
      BY <1>1
    <3> QED
      BY <3>1, ConcatAdjacentSubSeq
  <2> QED
    BY <2>1, SubSeqFull
<1>5. \A front, rest \in Seq(S) : (a \o front) \o rest = a \o (front \o rest)
  BY ConcatAssociative
<1>6. (a \o SubSeq(b, 1, n)) \o SubSeq(b, n + 1, Len(b)) = a \o b
  <2> DEFINE front == SubSeq(b, 1, n)
             rest == SubSeq(b, n + 1, Len(b))
  <2>1. front \in Seq(S) /\ rest \in Seq(S) /\ front \o rest = b
    BY <1>2, <1>3, <1>4
  <2> HIDE DEF front, rest
  <2>2. (a \o front) \o rest = a \o (front \o rest)
    BY <1>5, <2>1
  <2>3. (a \o front) \o rest = a \o b
    BY <2>1, <2>2, Zenon
  <2> QED
    BY <2>3 DEF front, rest
<1> QED
  BY <1>2, <1>3, <1>6, Zenon

-----------------------------------------------------------------------------
LEMMA ConstantTypes ==
  /\ Scanning \in BOOLEAN
  /\ QueueLimit \in Nat \ {0}
  /\ BufferSize \in Nat \ {0}
  /\ Window \in Nat \ {0}
  BY TunnelAssumption

(* What SMT needs to know of the queues before it can count.               *)
LEMMA QueueTypes ==
  ASSUME TypeOK
  PROVE  \A s \in Sides :
           /\ Other(s) \in Sides /\ Other(s) # s /\ Other(Other(s)) = s
           /\ queue[s] \in Seq(Item) /\ delivered[s] \in Seq(Item)
           /\ Len(queue[s]) \in Nat
           /\ Load(s) \in Int /\ Load(s) <= Len(queue[s]) /\ Len(queue[s]) <= Load(s) + 1
<1> SUFFICES ASSUME NEW s \in Sides
             PROVE  /\ Other(s) \in Sides /\ Other(s) # s /\ Other(Other(s)) = s
                    /\ queue[s] \in Seq(Item) /\ delivered[s] \in Seq(Item)
                    /\ Len(queue[s]) \in Nat
                    /\ Load(s) \in Int /\ Load(s) <= Len(queue[s]) /\ Len(queue[s]) <= Load(s) + 1
  OBVIOUS
<1>1. Other(s) \in Sides /\ Other(s) # s /\ Other(Other(s)) = s
  BY DEF Sides, Other
<1>2. queue[s] \in Seq(Item) /\ delivered[s] \in Seq(Item)
  BY DEF TypeOK
<1>3. Len(queue[s]) \in Nat
  BY <1>2, LenProperties
<1>4. Load(s) = Len(queue[s]) - 1 \/ Load(s) = Len(queue[s])
  BY Zenon DEF Load
<1> QED
  BY <1>1, <1>2, <1>3, <1>4

(* The bound holds on as long as nothing is read or queued.                *)
LEMMA BoundedKept ==
  ASSUME TypeOK, Bounded, UNCHANGED <<prefix, got>>,
         \A s \in Sides : Load(s)' \in Int /\ Load(s)' <= Load(s)
  PROVE  Bounded'
<1> SUFFICES ASSUME NEW s \in Sides PROVE Within(s)'
  BY Zenon DEF Bounded
<1>1. Within(s) /\ Load(s) \in Int /\ Other(s) \in Sides
  BY QueueTypes DEF Bounded
<1>2. prefix[Other(s)] \in Nat /\ Load(s)' \in Int /\ Load(s)' <= Load(s)
  BY <1>1 DEF TypeOK
<1> QED
  BY <1>1, <1>2, ConstantTypes DEF Within

-----------------------------------------------------------------------------
LEMMA InitIInv == Init => IInv
<1> SUFFICES ASSUME Init PROVE IInv
  OBVIOUS
<1> USE ConstantTypes DEF Init
<1>1. \A s \in Sides : queue[s] = <<>> /\ delivered[s] = <<>> /\ got[s] = 0
  BY Zenon
<1>2. /\ prefix \in [Sides -> Nat] /\ sent \in [Sides -> Nat]
      /\ \A s \in Sides : got[s] <= sent[s] /\ prefix[s] <= sent[s]
  <2>1. /\ prefix \in [Sides -> UNION {0 .. MaxBytes[s] : s \in Sides}]
        /\ sent = prefix /\ got = [s \in Sides |-> 0]
    BY Zenon
  <2> HIDE DEF Init
  <2>2. ASSUME NEW s \in Sides PROVE 0 .. MaxBytes[s] \subseteq Nat
    <3>1. MaxBytes[s] \in Nat
      BY TunnelAssumption
    <3> QED
      BY <3>1
  <2>3. UNION {0 .. MaxBytes[s] : s \in Sides} \subseteq Nat
    BY <2>2, Zenon
  <2> QED
    BY <2>1, <2>3
<1>3. TypeOK
  <2>1. queue \in [Sides -> Seq(Item)] /\ delivered \in [Sides -> Seq(Item)]
    BY EmptySeq
  <2>2. unread \in [Sides -> 0 .. Window]
    <3>1. unread = [s \in Sides |-> 0]
      BY Zenon
    <3> HIDE DEF Init
    <3> QED
      BY <3>1
  <2> QED
    BY <1>2, <2>1, <2>2 DEF TypeOK, NoneReady
<1>4. InOrder
  <2>1. Bytes(0, 0) = <<>>
    BY BytesFromZero, EmptySeq
  <2>2. <<>> \o <<>> = <<>>
    BY EmptySeq, ConcatEmptySeq
  <2>3. \A s \in Sides : Other(s) \in Sides
    BY DEF Sides, Other
  <2> QED
    BY <1>1, <2>1, <2>2, <2>3, Zenon DEF InOrder
<1>5. \A s \in Sides : Load(s) = 0
  <2>1. \A s \in Sides : Load(s) = Len(<<>>)
    BY <1>1, Zenon DEF Load
  <2> QED
    BY <2>1, EmptySeq
<1>6. pc = "prefix client"
  BY Zenon
<1> HIDE DEF Init
<1>7. PrefixFresh
  <2>1. "client" \in Sides /\ "server" \in Sides
    BY DEF Sides
  <2>2. \A s \in Sides : Load(s) <= 0 /\ got[s] = 0
    BY <1>1, <1>5
  <2> QED
    BY <1>6, <2>1, <2>2 DEF PrefixFresh
<1>8. Bounded
  BY <1>5 DEF Bounded, Within
<1> QED
  BY <1>3, <1>4, <1>6, <1>7, <1>8 DEF IInv, NeverThrown, ReadyHasData, ReadyHasRoom

(* What handling a piece of data does: it goes to the other side's queue,  *)
(* or the redirect goes to the client's.                                   *)
LEMMA HandleFacts ==
  ASSUME TypeOK, NEW s \in Sides, NEW from \in Nat, NEW to \in Nat, from <= to,
         NEW next, Handle(s, Bytes(from, to), next)
  PROVE  /\ queue' \in [Sides -> Seq(Item)]
         /\ shutdown' \in [Sides -> BOOLEAN]
         /\ is_blocked' \in BOOLEAN
         /\ blocking_applied' \in BOOLEAN
         /\ is_blocked => is_blocked'
         /\ pc' \in {next, "done"}
         /\ \A t \in Sides : queue[t] # <<>> => queue'[t] # <<>>
         /\ Load(s)' <= Load(s) /\ Load(s)' \in Int
         /\ Load(Other(s))' <= Load(Other(s)) + (to - from) /\ Load(Other(s))' \in Int
         /\ ~is_blocked' => queue' = [queue EXCEPT ![Other(s)] = @ \o Bytes(from, to)]
<1>1. Bytes(from, to) \in Seq(Item) /\ Len(Bytes(from, to)) = to - from
  BY BytesSeq
<1>2. is_blocked' \in BOOLEAN /\ (is_blocked => is_blocked')
  BY DEF Handle, Verdict, TypeOK
<1>3. CASE Forward(s, Bytes(from, to), next)
  <2> DEFINE q == queue[Other(s)] \o Bytes(from, to)
  <2>1. /\ q \in Seq(Item)
        /\ Len(q) = Len(queue[Other(s)]) + (to - from)
        /\ queue[Other(s)] # <<>> => q # <<>>
    <3>1. queue[Other(s)] \in Seq(Item)
      BY QueueTypes
    <3>2. q \in Seq(Item) /\ Len(q) = Len(queue[Other(s)]) + Len(Bytes(from, to))
      BY <1>1, <3>1, ConcatProperties
    <3>3. q = <<>> <=> queue[Other(s)] = <<>> /\ Bytes(from, to) = <<>>
      BY <1>1, <3>1, ConcatEqualIffEmpty
    <3> QED
      BY <1>1, <3>2, <3>3
  <2>2. queue' = [queue EXCEPT ![Other(s)] = q] /\ pc' = next
    BY <1>3 DEF Forward
  <2>3. /\ blocking_applied' = blocking_applied
        /\ shutdown' \in [Sides -> BOOLEAN] /\ blocking_applied' \in BOOLEAN
    BY <1>3 DEF Forward, TypeOK
  <2> HIDE DEF q
  <2>4. queue'[Other(s)] = q /\ queue'[s] = queue[s]
    BY <2>2, QueueTypes DEF TypeOK
  <2>5. Load(s)' = Load(s)
    BY <2>3, <2>4, Zenon DEF Load
  <2>6. Load(Other(s))' = Load(Other(s)) + (to - from)
    <3>1. CASE Other(s) = "client" /\ blocking_applied
      <4>1. Load(Other(s))' = Len(q) - 1 /\ Load(Other(s)) = Len(queue[Other(s)]) - 1
        BY <2>3, <2>4, <3>1, Zenon DEF Load
      <4> QED
        BY <2>1, <4>1, QueueTypes
    <3>2. CASE ~(Other(s) = "client" /\ blocking_applied)
      <4>1. Load(Other(s))' = Len(q) /\ Load(Other(s)) = Len(queue[Other(s)])
        BY <2>3, <2>4, <3>2, Zenon DEF Load
      <4> QED
        BY <2>1, <4>1
    <3> QED
      BY <3>1, <3>2
  <2>7. queue' \in [Sides -> Seq(Item)] /\ \A t \in Sides : queue[t] # <<>> => queue'[t] # <<>>
    BY <2>1, <2>2 DEF TypeOK
  <2> QED
    BY <1>2, <2>2, <2>3, <2>5, <2>6, <2>7, QueueTypes DEF q
<1>4. CASE Block(next)
  <2> DEFINE q == Append(queue["client"], Redirect)
  <2>1. "client" \in Sides /\ "server" \in Sides /\ Redirect \in Item
    BY DEF Sides, Item
  <2>2. q \in Seq(Item) /\ Len(q) = Len(queue["client"]) + 1 /\ q # <<>>
    BY <2>1, QueueTypes, AppendProperties
  <2>3. queue' = [queue EXCEPT !["client"] = q] /\ pc' = next /\ is_blocked'
    BY <1>4 DEF Block
  <2>4. /\ blocking_applied' /\ ~blocking_applied
        /\ shutdown' \in [Sides -> BOOLEAN] /\ blocking_applied' \in BOOLEAN
    BY <1>4 DEF Block, TypeOK
  <2> HIDE DEF q
  <2>5. queue'["client"] = q /\ queue'["server"] = queue["server"]
    BY <2>1, <2>3 DEF TypeOK
  <2>6. Load("client")' = Load("client") /\ Load("server")' = Load("server")
    <3>1. /\ Load("client")' = Len(q) - 1 /\ Load("client") = Len(queue["client"])
          /\ Load("server")' = Load("server")
      BY <2>4, <2>5 DEF Load
    <3> QED
      BY <2>1, <2>2, <3>1, QueueTypes
  <2>7. queue' \in [Sides -> Seq(Item)] /\ \A t \in Sides : queue[t] # <<>> => queue'[t] # <<>>
    BY <2>1, <2>2, <2>3 DEF TypeOK
  <2>8. Load(s)' = Load(s) /\ Load(Other(s))' = Load(Other(s))
    BY <2>6 DEF Sides, Other
  <2> QED
    BY <1>2, <2>3, <2>4, <2>7, <2>8, QueueTypes
<1>5. CASE Break
  <2>1. /\ queue' = queue /\ shutdown' = shutdown /\ blocking_applied' = blocking_applied
        /\ is_blocked' /\ pc' = "done"
    BY <1>5 DEF Break
  <2>2. Load(s)' = Load(s) /\ Load(Other(s))' = Load(Other(s))
    BY <2>1, Zenon DEF Load
  <2>3. /\ queue' \in [Sides -> Seq(Item)] /\ shutdown' \in [Sides -> BOOLEAN]
        /\ blocking_applied' \in BOOLEAN
    BY <2>1 DEF TypeOK
  <2>4. /\ Load(s)' <= Load(s) /\ Load(s)' \in Int
        /\ Load(Other(s))' <= Load(Other(s)) + (to - from) /\ Load(Other(s))' \in Int
    BY <2>2, QueueTypes
  <2>5. \A t \in Sides : queue[t] # <<>> => queue'[t] # <<>>
    BY <2>1
  <2> QED
    BY <1>2, <2>1, <2>3, <2>4, <2>5
<1> QED
  BY <1>3, <1>4, <1>5 DEF Handle

-----------------------------------------------------------------------------
(* Data that is read keeps its order behind what is already queued.        *)
LEMMA HandleInOrder ==
  ASSUME TypeOK, InOrder, NEW s \in Sides, NEW to \in Nat, got[s] <= to,
         NEW next, Handle(s, Bytes(got[s], to), next),
         got' = [got EXCEPT ![s] = to], delivered' = delivered
  PROVE  InOrder'
<1> SUFFICES ASSUME ~is_blocked', NEW t \in Sides
             PROVE  delivered[t] \o queue'[t] = Bytes(0, got'[Other(t)])
  BY Zenon DEF InOrder
<1>1. got[s] \in Nat
  BY DEF TypeOK
<1>2. ~is_blocked /\ queue' = [queue EXCEPT ![Other(s)] = @ \o Bytes(got[s], to)]
  BY <1>1, HandleFacts
<1>3. delivered[t] \o queue[t] = Bytes(0, got[Other(t)])
  BY <1>2 DEF InOrder
<1>4. CASE t = s
  <2>1. queue'[t] = queue[t] /\ got'[Other(t)] = got[Other(t)]
    BY <1>2, <1>4, QueueTypes DEF TypeOK
  <2> QED
    BY <1>3, <2>1, Zenon
<1>5. CASE t # s
  <2>1. t = Other(s) /\ Other(t) = s
    BY <1>5 DEF Sides, Other
  <2>2. queue'[t] = queue[t] \o Bytes(got[s], to) /\ got'[Other(t)] = to
    BY <1>2, <2>1 DEF TypeOK
  <2>3. Bytes(0, got[s]) \o Bytes(got[s], to) = Bytes(0, to)
    BY <1>1, BytesJoin
  <2>4. Bytes(got[s], to) \in Seq(Item)
    BY <1>1, BytesSeq
  <2>5. delivered[t] \o (queue[t] \o Bytes(got[s], to))
          = (delivered[t] \o queue[t]) \o Bytes(got[s], to)
    <3>1. \A u, v, w \in Seq(Item) : u \o (v \o w) = (u \o v) \o w
      BY ConcatAssociative
    <3>2. delivered[t] \in Seq(Item) /\ queue[t] \in Seq(Item)
      BY QueueTypes
    <3> QED
      BY <2>4, <3>1, <3>2, Zenon
  <2> QED
    BY <1>3, <2>1, <2>2, <2>3, <2>5, Zenon
<1> QED
  BY <1>4, <1>5

(* Where handle_transaction() handles a side's prefix data, and where it   *)
(* goes from there.                                                        *)
PrefixPlace(s, here, next) ==
  \/ s = "client" /\ here = "prefix client" /\ next = "prefix server"
  \/ s = "server" /\ here = "prefix server" /\ next = "head"

LEMMA PrefixStep ==
  ASSUME IInv, NEW s \in Sides, NEW here, NEW next,
         PrefixPlace(s, here, next), Prefix(s, here, next)
  PROVE  IInv'
<1>0. TypeOK /\ InOrder /\ PrefixFresh /\ Bounded
  BY DEF IInv
<1>1. /\ pc = here /\ ready' = ready /\ delivered' = delivered
      /\ sent' = sent /\ prefix' = prefix
      /\ UNCHANGED <<sockets, peers, outputs>>
  BY DEF Prefix, peers, outputs
<1>2. /\ got[s] = 0 /\ Load(Other(s)) <= 0 /\ Within(s)
      /\ prefix \in [Sides -> Nat] /\ sent \in [Sides -> Nat]
      /\ prefix[s] \in Nat /\ prefix[s] <= sent[s]
  <2>1. got[s] = 0 /\ Load(Other(s)) <= 0
    BY <1>0, <1>1 DEF PrefixFresh, Sides, Other, PrefixPlace
  <2>2. /\ prefix \in [Sides -> Nat] /\ sent \in [Sides -> Nat]
        /\ prefix[s] \in Nat /\ prefix[s] <= sent[s]
    BY <1>0 DEF TypeOK
  <2> QED
    BY <1>0, <2>1, <2>2 DEF Bounded
<1>3. CASE prefix[s] > 0
  <2>1. Handle(s, Bytes(got[s], prefix[s]), next) /\ got' = [got EXCEPT ![s] = prefix[s]]
    BY <1>2, <1>3, Zenon DEF Prefix
  <2>2. got[s] \in Nat /\ got[s] <= prefix[s]
    BY <1>2
  <2>3. /\ queue' \in [Sides -> Seq(Item)]
        /\ shutdown' \in [Sides -> BOOLEAN]
        /\ is_blocked' \in BOOLEAN
        /\ blocking_applied' \in BOOLEAN
        /\ pc' \in {next, "done"}
        /\ Load(s)' <= Load(s) /\ Load(s)' \in Int
        /\ Load(Other(s))' <= Load(Other(s)) + (prefix[s] - got[s])
        /\ Load(Other(s))' \in Int
    BY <1>0, <2>1, <2>2, <1>2, HandleFacts
  <2>4. TypeOK'
    <3>1. got' \in [Sides -> Nat] /\ \A t \in Sides : got'[t] <= sent[t]
      <4>1. got \in [Sides -> Nat] /\ \A t \in Sides : got[t] <= sent[t]
        BY <1>0 DEF TypeOK
      <4>2. \A t \in Sides : got'[t] = IF t = s THEN prefix[s] ELSE got[t]
        BY <2>1, <4>1
      <4> QED
        BY <1>2, <2>1, <4>1, <4>2
    <3>2. pc' \in {"prefix server", "head", "done"}
      BY <2>3 DEF PrefixPlace
    <3> QED
      BY <1>0, <1>1, <2>3, <3>1, <3>2 DEF TypeOK, sockets, peers, outputs
  <2>5. InOrder'
    BY <1>0, <1>1, <1>2, <2>1, <2>2, HandleInOrder
  <2>6. Bounded'
    <3>1. Load(s) \in Int /\ Load(Other(s)) \in Int /\ Other(s) \in Sides
          /\ Other(s) # s /\ Other(Other(s)) = s
      BY <1>0, QueueTypes
    <3>2. got \in [Sides -> Nat]
      BY <1>0 DEF TypeOK
    <3>3. got'[s] = prefix[s] /\ got'[Other(s)] = got[Other(s)]
      BY <2>1, <3>1, <3>2
    <3>4. Within(s)'
      <4>1. Within(s)
        BY <1>2
      <4> QED
        BY <1>1, <1>2, <2>3, <3>1, <3>3, <4>1, ConstantTypes DEF Within
    <3>5. Within(Other(s))'
      <4>1. Load(Other(s))' <= prefix'[s] /\ got'[s] = prefix'[s]
        BY <1>1, <1>2, <2>3, <3>1, <3>3
      <4> QED
        BY <3>1, <4>1, Zenon DEF Within
    <3>6. \A t \in Sides : t = s \/ t = Other(s)
      BY DEF Sides, Other
    <3> QED
      BY <3>4, <3>5, <3>6, Zenon DEF Bounded
  <2>7. PrefixFresh'
    <3>1. s = "server" => pc' # "prefix server"
      BY <2>3 DEF PrefixPlace
    <3>2. s = "client" => Load("client")' <= 0
      <4>1. s = "client" => Load(s) <= 0
        BY <1>0, <1>1 DEF PrefixFresh, PrefixPlace
      <4>2. Load(s) <= 0 => Load(s)' <= 0
        BY <1>0, <2>3, QueueTypes
      <4> QED
        BY <4>1, <4>2
    <3>3. s = "client" => got'["server"] = 0
      BY <1>0, <1>1, <2>1 DEF PrefixFresh, Sides, TypeOK, PrefixPlace
    <3> QED
      BY <2>3, <3>1, <3>2, <3>3 DEF PrefixFresh, PrefixPlace
  <2> QED
    BY <2>3, <2>4, <2>5, <2>6, <2>7 DEF PrefixPlace, IInv, NeverThrown, ReadyHasData, ReadyHasRoom
<1>4. CASE ~(prefix[s] > 0)
  <2>1. pc' = next /\ UNCHANGED <<queue, shutdown, verdict, got>>
    BY <1>4 DEF Prefix
  <2>2. \A t \in Sides : Load(t)' = Load(t)
    BY <2>1, Zenon DEF Load, verdict
  <2>3. TypeOK' /\ InOrder'
    BY <1>0, <1>1, <2>1 DEF PrefixPlace, TypeOK, InOrder, sockets, peers, outputs, verdict
  <2>4. PrefixFresh' /\ Bounded'
    BY <1>0, <1>1, <1>2, <2>1, <2>2 DEF PrefixPlace, PrefixFresh, Bounded, Within, Sides, verdict, peers
  <2> QED
    BY <2>1, <2>3, <2>4 DEF PrefixPlace, IInv, NeverThrown, ReadyHasData, ReadyHasRoom
<1> QED
  BY <1>3, <1>4

LEMMA PrefixIInv == IInv /\ PrefixData => IInv'
  BY PrefixStep DEF PrefixData, PrefixPlace, Sides

-----------------------------------------------------------------------------
(* Reading.                                                                *)

ReadPlace(s, here, next) ==
  \/ s = "client" /\ here = "read client" /\ next = "read server"
  \/ s = "server" /\ here = "read server" /\ next = "write client"

LEMMA ChunkFacts ==
  ASSUME TypeOK, NEW s \in Sides, sent[s] > got[s]
  PROVE  /\ got[s] \in Nat /\ Chunk(s) \in Nat
         /\ got[s] <= Chunk(s) /\ Chunk(s) <= sent[s]
         /\ Chunk(s) - got[s] <= BufferSize
<1>1. sent[s] \in Nat /\ got[s] \in Nat
  BY DEF TypeOK
<1>2. CASE sent[s] - got[s] < BufferSize
  <2>1. Chunk(s) = sent[s]
    BY <1>2 DEF Chunk
  <2> QED
    BY <1>1, <1>2, <2>1, ConstantTypes
<1>3. CASE ~(sent[s] - got[s] < BufferSize)
  <2>1. Chunk(s) = got[s] + BufferSize
    BY <1>3 DEF Chunk
  <2> QED
    BY <1>1, <1>3, <2>1, ConstantTypes
<1> QED
  BY <1>2, <1>3

LEMMA ReadDataStep ==
  ASSUME IInv, NEW s \in Sides, NEW here, NEW next, ReadPlace(s, here, next),
         pc = here, s \in ready.read, ReadData(s, next),
         UNCHANGED <<ready, peers, outputs>>
  PROVE  IInv'
<1>0. TypeOK /\ InOrder /\ ReadyHasData /\ ReadyHasRoom /\ Bounded
  BY DEF IInv
<1>1. /\ ready' = ready /\ delivered' = delivered
      /\ sent' = sent /\ prefix' = prefix
      /\ UNCHANGED <<sockets, peers, outputs>>
      /\ Handle(s, Bytes(got[s], Chunk(s)), next)
      /\ got' = [got EXCEPT ![s] = Chunk(s)]
  BY DEF ReadData, peers, outputs
<1>2. /\ got[s] \in Nat /\ Chunk(s) \in Nat
      /\ got[s] <= Chunk(s) /\ Chunk(s) <= sent[s]
      /\ Chunk(s) - got[s] <= BufferSize
  BY <1>0, ChunkFacts DEF ReadData
<1>3. /\ queue' \in [Sides -> Seq(Item)]
      /\ shutdown' \in [Sides -> BOOLEAN]
      /\ is_blocked' \in BOOLEAN
      /\ blocking_applied' \in BOOLEAN
      /\ pc' \in {next, "done"}
      /\ \A t \in Sides : queue[t] # <<>> => queue'[t] # <<>>
      /\ Load(s)' <= Load(s) /\ Load(s)' \in Int
      /\ Load(Other(s))' <= Load(Other(s)) + (Chunk(s) - got[s])
      /\ Load(Other(s))' \in Int
  BY <1>0, <1>1, <1>2, HandleFacts
<1>4. pc' \in {"read server", "write client", "done"}
  BY <1>3 DEF ReadPlace
<1>5. TypeOK'
  <2>1. got \in [Sides -> Nat] /\ \A t \in Sides : got[t] <= sent[t]
    BY <1>0 DEF TypeOK
  <2>2. \A t \in Sides : got'[t] = IF t = s THEN Chunk(s) ELSE got[t]
    BY <1>1, <2>1
  <2>3. got' \in [Sides -> Nat] /\ \A t \in Sides : got'[t] <= sent[t]
    BY <1>1, <1>2, <2>1, <2>2
  <2> QED
    BY <1>0, <1>1, <1>3, <1>4, <2>3 DEF TypeOK, sockets, peers, outputs
<1>6. InOrder'
  BY <1>0, <1>1, <1>2, HandleInOrder
<1>7. Load(s) \in Int /\ Load(Other(s)) \in Int
  BY <1>0, QueueTypes
<1>8. Bounded'
  <2>1. Load(Other(s)) < QueueLimit
    BY <1>0 DEF ReadyHasRoom, ReadPlace, Other
  <2>2. Within(s)'
    <3>1. Within(s) /\ Other(s) # s /\ Other(s) \in Sides
      BY <1>0, QueueTypes DEF Bounded
    <3>2. got'[Other(s)] = got[Other(s)]
      BY <1>0, <1>1, <3>1 DEF TypeOK
    <3>3. prefix[Other(s)] \in Nat
      BY <1>0, <3>1 DEF TypeOK
    <3> QED
      BY <1>1, <1>3, <1>7, <3>1, <3>2, <3>3, ConstantTypes DEF Within
  <2>3. Within(Other(s))'
    BY <1>2, <1>3, <1>7, <2>1, ConstantTypes DEF Within
  <2>4. \A t \in Sides : t = s \/ t = Other(s)
    BY DEF Sides, Other
  <2> QED
    BY <2>2, <2>3, <2>4, Zenon DEF Bounded
<1>9. Load(s) < QueueLimit => Load(s)' < QueueLimit
  BY <1>3, <1>7, ConstantTypes
<1>10. ReadyHasRoom'
  <2> SUFFICES ASSUME pc' = "read server", "server" \in ready.read
               PROVE  Load("client")' < QueueLimit
    BY <1>1, <1>4 DEF ReadyHasRoom
  <2>1. s = "client" /\ pc = "read client"
    BY <1>3 DEF ReadPlace
  <2>2. Load("client") < QueueLimit
    BY <1>0, <2>1 DEF ReadyHasRoom, Other
  <2> QED
    BY <1>9, <2>1, <2>2
<1>11. ReadyHasData'
  <2>1. pc \in {"read client", "read server"} /\ ready.write \in SUBSET Sides
    BY <1>0 DEF ReadPlace, TypeOK
  <2> QED
    BY <1>0, <1>1, <1>3, <1>4, <2>1 DEF ReadyHasData
<1> QED
  BY <1>4, <1>5, <1>6, <1>8, <1>10, <1>11 DEF IInv, NeverThrown, PrefixFresh

(* A read that brings no data moves none.                                  *)
LEMMA ReadNothingStep ==
  ASSUME IInv, NEW s \in Sides, NEW here, NEW next, ReadPlace(s, here, next),
         pc = here, pc' = next,
         UNCHANGED <<ready, queue, verdict, got, peers, outputs>>,
         shutdown' \in [Sides -> BOOLEAN],
         readable' \in [Sides -> BOOLEAN], writable' \in [Sides -> BOOLEAN]
  PROVE  IInv'
<1>0. TypeOK /\ InOrder /\ ReadyHasData /\ ReadyHasRoom /\ Bounded
  BY DEF IInv
<1>1. pc' \in {"read server", "write client"}
  BY DEF ReadPlace
<1>2. TypeOK' /\ InOrder'
  BY <1>0, <1>1 DEF TypeOK, InOrder, verdict, peers, outputs
<1>3. \A t \in Sides : Load(t)' = Load(t)
  BY Zenon DEF Load, verdict
<1>4. Bounded'
  BY <1>0, <1>3, BoundedKept, QueueTypes DEF peers
<1>5. ReadyHasData'
  BY <1>0 DEF ReadyHasData, ReadPlace
<1>6. ReadyHasRoom'
  <2> SUFFICES ASSUME pc' = "read server", "server" \in ready.read
               PROVE  Load("client")' < QueueLimit
    BY <1>1 DEF ReadyHasRoom
  <2>1. pc = "read client"
    BY DEF ReadPlace
  <2>2. Load("client") < QueueLimit
    BY <1>0, <2>1 DEF ReadyHasRoom, Other
  <2> QED
    BY <1>3, <2>2 DEF Sides
<1> QED
  BY <1>1, <1>2, <1>4, <1>5, <1>6 DEF IInv, NeverThrown, PrefixFresh

LEMMA ReadStep ==
  ASSUME IInv, NEW s \in Sides, NEW here, NEW next, ReadPlace(s, here, next),
         Read(s, here, next)
  PROVE  IInv'
<1>0. TypeOK
  BY DEF IInv
<1>1. pc = here /\ UNCHANGED <<ready, peers, outputs>>
  BY DEF Read
<1>2. CASE s \in ready.read /\ readable[s]
  <2>1. CASE ReadData(s, next)
    BY <1>1, <1>2, <2>1, ReadDataStep
  <2>2. CASE ReadEnd(s, next) \/ ReadRefused(s, next)
    <3>1. pc' = next /\ UNCHANGED <<queue, verdict, got>>
      BY <2>2 DEF ReadEnd, ReadRefused
    <3>2. readable' \in [Sides -> BOOLEAN] /\ writable' \in [Sides -> BOOLEAN]
      BY <1>0, <2>2 DEF ReadEnd, ReadRefused, Close, TypeOK
    <3>3. shutdown' \in [Sides -> BOOLEAN]
      BY <1>0, <2>2 DEF ReadEnd, ReadRefused, TypeOK
    <3> QED
      BY <1>1, <3>1, <3>2, <3>3, ReadNothingStep
  <2> QED
    BY <1>2, <2>1, <2>2 DEF Read
<1>3. CASE ~(s \in ready.read /\ readable[s])
  <2>1. pc' = next /\ UNCHANGED <<sockets, queue, shutdown, verdict, got>>
    BY <1>3 DEF Read
  <2>2. /\ shutdown' \in [Sides -> BOOLEAN]
        /\ readable' \in [Sides -> BOOLEAN] /\ writable' \in [Sides -> BOOLEAN]
    BY <1>0, <2>1 DEF TypeOK, sockets
  <2> QED
    BY <1>1, <2>1, <2>2, ReadNothingStep
<1> QED
  BY <1>2, <1>3

-----------------------------------------------------------------------------
(* Writing.                                                                *)

WritePlace(s, here, next) ==
  \/ s = "client" /\ here = "write client" /\ next = "write server"
  \/ s = "server" /\ here = "write server" /\ next = "shutdown"

LEMMA WriteDataStep ==
  ASSUME IInv, NEW s \in Sides, NEW here, NEW next, WritePlace(s, here, next),
         pc = here, WriteData(s, next),
         UNCHANGED <<ready, readable, shutdown, verdict, peers, got>>
  PROVE  IInv'
<1>0. TypeOK /\ InOrder /\ ReadyHasData /\ Bounded
  BY DEF IInv
<1> DEFINE room == Window - unread[s]
           n == IF room < Len(queue[s]) THEN room ELSE Len(queue[s])
           rest == SubSeq(queue[s], n + 1, Len(queue[s]))
           moved == delivered[s] \o SubSeq(queue[s], 1, n)
<1>1. unread[s] \in 0 .. Window /\ Len(queue[s]) \in Nat
  BY <1>0, QueueTypes DEF TypeOK
<1>2. n \in 0 .. Len(queue[s]) /\ unread[s] + n \in 0 .. Window
  BY <1>1, ConstantTypes
<1>3. /\ delivered' = [delivered EXCEPT ![s] = moved]
      /\ queue' = [queue EXCEPT ![s] = rest]
      /\ unread' = [unread EXCEPT ![s] = @ + n]
      /\ pc' = next /\ writable' = writable
  BY DEF WriteData, Rest
<1>4. /\ rest \in Seq(Item) /\ moved \in Seq(Item)
      /\ Len(rest) = Len(queue[s]) - n
      /\ moved \o rest = delivered[s] \o queue[s]
  <2> HIDE DEF n
  <2>1. queue[s] \in Seq(Item) /\ delivered[s] \in Seq(Item)
    BY <1>0, QueueTypes
  <2>2. /\ SubSeq(queue[s], 1, n) \in Seq(Item) /\ rest \in Seq(Item)
        /\ Len(rest) = Len(queue[s]) - n
        /\ moved \o rest = delivered[s] \o queue[s]
    <3>1. \A a, b \in Seq(Item) : \A m \in 0 .. Len(b) :
            /\ SubSeq(b, 1, m) \in Seq(Item)
            /\ SubSeq(b, m + 1, Len(b)) \in Seq(Item)
            /\ Len(SubSeq(b, m + 1, Len(b))) = Len(b) - m
            /\ (a \o SubSeq(b, 1, m)) \o SubSeq(b, m + 1, Len(b)) = a \o b
      BY MoveFront
    <3> QED
      BY <1>2, <2>1, <3>1, Zenon
  <2>3. moved \in Seq(Item)
    BY <2>1, <2>2, ConcatProperties
  <2> QED
    BY <2>2, <2>3
<1> HIDE DEF room, n, rest, moved
<1>5. pc' \in {"write server", "shutdown"}
  BY <1>3 DEF WritePlace
<1>6. \A t \in Sides :
        /\ queue'[t] = IF t = s THEN rest ELSE queue[t]
        /\ delivered'[t] = IF t = s THEN moved ELSE delivered[t]
  BY <1>0, <1>3 DEF TypeOK
<1>7. TypeOK'
  <2>1. /\ queue' \in [Sides -> Seq(Item)] /\ delivered' \in [Sides -> Seq(Item)]
        /\ unread' \in [Sides -> 0 .. Window]
    BY <1>0, <1>2, <1>3, <1>4 DEF TypeOK
  <2> QED
    BY <1>0, <1>3, <1>5, <2>1 DEF TypeOK, verdict, peers
<1>8. InOrder'
  <2>1. \A t \in Sides : delivered'[t] \o queue'[t] = delivered[t] \o queue[t]
    BY <1>4, <1>6, Zenon
  <2> QED
    BY <1>0, <2>1, Zenon DEF InOrder, verdict
<1>9. Bounded'
  <2> SUFFICES ASSUME NEW t \in Sides PROVE Load(t)' \in Int /\ Load(t)' <= Load(t)
    BY <1>0, BoundedKept DEF peers
  <2>0. Load(t) \in Int /\ Len(rest) \in Nat /\ Len(rest) <= Len(queue[s])
    BY <1>0, <1>1, <1>2, <1>4, QueueTypes
  <2>1. CASE t = s /\ t = "client" /\ blocking_applied
    <3>1. Load(t)' = Len(rest) - 1 /\ Load(t) = Len(queue[s]) - 1
      BY <1>6, <2>1, Zenon DEF Load, verdict
    <3> QED
      BY <1>1, <2>0, <3>1
  <2>2. CASE t = s /\ ~(t = "client" /\ blocking_applied)
    <3>1. Load(t)' = Len(rest) /\ Load(t) = Len(queue[s])
      BY <1>6, <2>2, Zenon DEF Load, verdict
    <3> QED
      BY <1>1, <2>0, <3>1
  <2>3. CASE t # s
    <3>1. Load(t)' = Load(t)
      BY <1>6, <2>3, Zenon DEF Load, verdict
    <3> QED
      BY <2>0, <3>1
  <2> QED
    BY <2>1, <2>2, <2>3
<1>10. ReadyHasData'
  <2> SUFFICES ASSUME pc' = "write server", "server" \in ready.write
               PROVE  queue'["server"] # <<>>
    BY <1>5 DEF ReadyHasData
  <2>1. s = "client" /\ pc = "write client"
    BY <1>3 DEF WritePlace
  <2>2. queue'["server"] = queue["server"] /\ queue["server"] # <<>>
    BY <1>0, <1>6, <2>1 DEF ReadyHasData, Sides
  <2> QED
    BY <2>2
<1> QED
  BY <1>5, <1>7, <1>8, <1>9, <1>10 DEF IInv, NeverThrown, PrefixFresh, ReadyHasRoom

LEMMA WriteNothingStep ==
  ASSUME IInv, NEW s \in Sides, NEW here, NEW next, WritePlace(s, here, next),
         pc = here, pc' = next, writable' \in [Sides -> BOOLEAN],
         UNCHANGED <<ready, readable, queue, shutdown, verdict, peers, got, outputs>>
  PROVE  IInv'
<1>0. TypeOK /\ InOrder /\ ReadyHasData /\ Bounded
  BY DEF IInv
<1>1. pc' \in {"write server", "shutdown"}
  BY DEF WritePlace
<1>2. TypeOK' /\ InOrder'
  BY <1>0, <1>1 DEF TypeOK, InOrder, verdict, peers, outputs
<1>3. \A t \in Sides : Load(t)' = Load(t)
  BY Zenon DEF Load, verdict
<1>4. Bounded'
  BY <1>0, <1>3, BoundedKept, QueueTypes DEF peers
<1>5. ReadyHasData'
  BY <1>0, <1>1 DEF ReadyHasData, WritePlace
<1> QED
  BY <1>1, <1>2, <1>4, <1>5 DEF IInv, NeverThrown, PrefixFresh, ReadyHasRoom

LEMMA WriteStep ==
  ASSUME IInv, NEW s \in Sides, NEW here, NEW next, WritePlace(s, here, next),
         Write(s, here, next)
  PROVE  IInv'
<1>0. TypeOK /\ ReadyHasData
  BY DEF IInv
<1>1. pc = here /\ UNCHANGED <<ready, readable, shutdown, verdict, peers, got>>
  BY DEF Write
<1>2. ~Thrown(s)
  BY <1>0, <1>1 DEF Thrown, ReadyHasData, WritePlace
<1>3. CASE WriteData(s, next)
  BY <1>1, <1>3, WriteDataStep
<1>4. CASE ~WriteData(s, next)
  <2>1. pc' = next /\ UNCHANGED <<queue, outputs>> /\ writable' \in [Sides -> BOOLEAN]
    BY <1>0, <1>2, <1>4 DEF Write, WriteEnd, TypeOK
  <2> QED
    BY <1>1, <2>1, WriteNothingStep
<1> QED
  BY <1>3, <1>4

-----------------------------------------------------------------------------
(* The other steps.                                                        *)

LEMMA SelectIInv == IInv /\ Select => IInv'
<1> SUFFICES ASSUME IInv, Select PROVE IInv'
  OBVIOUS
<1>0. TypeOK /\ InOrder /\ Bounded
  BY DEF IInv
<1>1. /\ ready' = [read  |-> {s \in Sides : WantRead(s) /\ CanRead(s)},
                   write |-> {s \in Sides : WantWrite(s) /\ CanWrite(s)}]
      /\ pc' = "read client"
      /\ UNCHANGED <<sockets, queue, shutdown, verdict, peers, got, outputs>>
  BY DEF Select
<1>2. ready' \in [read : SUBSET Sides, write : SUBSET Sides]
  BY <1>1
<1>3. TypeOK' /\ InOrder'
  BY <1>0, <1>1, <1>2 DEF TypeOK, InOrder, sockets, verdict, peers, outputs
<1>4. \A t \in Sides : Load(t)' = Load(t)
  BY <1>1, Zenon DEF Load, verdict
<1>5. Bounded'
  <2>1. UNCHANGED <<prefix, got>>
    BY <1>1 DEF peers
  <2> QED
    BY <1>0, <1>4, <2>1, BoundedKept, QueueTypes
<1>6. \A s \in ready'.write : queue'[s] # <<>>
  BY <1>1 DEF WantWrite, Pending
<1>7. \A s \in ready'.read : Load(Other(s))' < QueueLimit
  <2> SUFFICES ASSUME NEW s \in ready'.read PROVE Load(Other(s))' < QueueLimit
    OBVIOUS
  <2>1. s \in Sides /\ Len(queue[Other(s)]) < QueueLimit
    BY <1>1 DEF WantRead
  <2>2. Load(Other(s)) < QueueLimit
    BY <1>0, <2>1, QueueTypes, ConstantTypes
  <2> QED
    BY <1>0, <1>4, <2>1, <2>2, QueueTypes
<1> QED
  BY <1>1, <1>3, <1>5, <1>6, <1>7
     DEF IInv, NeverThrown, PrefixFresh, ReadyHasData, ReadyHasRoom

(* Steps that leave data, queues and verdict alone and go where nothing is *)
(* promised.                                                               *)
LEMMA QuietStep ==
  ASSUME IInv, TypeOK', pc' \in {"head", "done", "failed"},
         UNCHANGED <<queue, verdict, prefix, got, outputs>>
  PROVE  IInv'
<1>0. TypeOK /\ InOrder /\ Bounded
  BY DEF IInv
<1>1. InOrder'
  BY <1>0 DEF InOrder, verdict, outputs
<1>2. \A t \in Sides : Load(t)' = Load(t)
  BY Zenon DEF Load, verdict
<1>3. Bounded'
  BY <1>0, <1>2, BoundedKept, QueueTypes
<1> QED
  BY <1>1, <1>3 DEF IInv, NeverThrown, PrefixFresh, ReadyHasData, ReadyHasRoom

(* The peers' steps, and stuttering.                                       *)
LEMMA OutsideStep ==
  ASSUME IInv, TypeOK', UNCHANGED <<pc, ready, queue, verdict, prefix, got, delivered>>
  PROVE  IInv'
<1>0. /\ TypeOK /\ InOrder /\ Bounded /\ NeverThrown /\ PrefixFresh
      /\ ReadyHasData /\ ReadyHasRoom
  BY DEF IInv
<1>1. InOrder'
  BY <1>0 DEF InOrder, verdict
<1>2. \A t : Load(t)' = Load(t)
  BY Zenon DEF Load, verdict
<1>3. Bounded' /\ NeverThrown'
  BY <1>0, <1>2, BoundedKept, QueueTypes DEF NeverThrown
<1>4. PrefixFresh'
  BY <1>0, <1>2 DEF PrefixFresh
<1>5. ReadyHasData'
  BY <1>0 DEF ReadyHasData
<1>6. ReadyHasRoom'
  BY <1>0, <1>2 DEF ReadyHasRoom
<1> QED
  BY <1>1, <1>3, <1>4, <1>5, <1>6 DEF IInv

LEMMA PeerIInv ==
  ASSUME IInv, NEW s \in Sides, Peer(s)
  PROVE  IInv'
<1>0. TypeOK
  BY DEF IInv
<1>1. /\ UNCHANGED <<pc, ready, sockets, queue, shutdown, verdict, prefix, got, delivered>>
      /\ pc \notin {"prefix client", "prefix server"}
  <2>1. pc \notin {"prefix client", "prefix server"}
    BY DEF Peer, Send, FinishSending, Reset, Receive, Started
  <2>2. UNCHANGED <<pc, ready, sockets, queue, shutdown, verdict, prefix, got, delivered>>
    <3>1. Send(s) => UNCHANGED <<pc, ready, sockets, queue, shutdown, verdict, prefix, got, delivered>>
      BY DEF Send, outputs
    <3>2. FinishSending(s) => UNCHANGED <<pc, ready, sockets, queue, shutdown, verdict, prefix, got, delivered>>
      BY DEF FinishSending, outputs
    <3>3. Reset(s) => UNCHANGED <<pc, ready, sockets, queue, shutdown, verdict, prefix, got, delivered>>
      BY DEF Reset, outputs
    <3>4. Receive(s) => UNCHANGED <<pc, ready, sockets, queue, shutdown, verdict, prefix, got, delivered>>
      BY DEF Receive, peers
    <3> QED
      BY <3>1, <3>2, <3>3, <3>4, Zenon DEF Peer
  <2> QED
    BY <2>1, <2>2, Zenon
<1>2. CASE Send(s)
  <2>1. /\ sent' = [sent EXCEPT ![s] = @ + 1]
        /\ UNCHANGED <<eof, broken, outputs>>
    BY <1>2 DEF Send, outputs
  <2>2. sent' \in [Sides -> Nat] /\ \A t \in Sides : got[t] <= sent'[t] /\ prefix[t] <= sent'[t]
    <3>1. /\ sent \in [Sides -> Nat] /\ got \in [Sides -> Nat] /\ prefix \in [Sides -> Nat]
          /\ \A t \in Sides : got[t] <= sent[t] /\ prefix[t] <= sent[t]
      BY <1>0 DEF TypeOK
    <3>2. \A t \in Sides : sent'[t] = IF t = s THEN sent[s] + 1 ELSE sent[t]
      BY <2>1, <3>1
    <3> QED
      BY <2>1, <3>1, <3>2
  <2>3. TypeOK'
    BY <1>0, <1>1, <2>1, <2>2 DEF TypeOK, sockets, verdict, outputs
  <2> QED
    BY <1>1, <2>3, OutsideStep
<1>3. CASE FinishSending(s)
  <2>1. TypeOK'
    BY <1>0, <1>3 DEF FinishSending, TypeOK, sockets, verdict, outputs
  <2> QED
    BY <1>1, <2>1, OutsideStep
<1>4. CASE Reset(s)
  <2>1. TypeOK'
    BY <1>0, <1>4 DEF Reset, TypeOK, sockets, verdict, outputs
  <2> QED
    BY <1>1, <2>1, OutsideStep
<1>5. CASE Receive(s)
  <2>1. unread' = [unread EXCEPT ![s] = @ - 1] /\ unread[s] > 0
    BY <1>5 DEF Receive
  <2>2. unread' \in [Sides -> 0 .. Window]
    <3>1. unread \in [Sides -> 0 .. Window] /\ unread[s] - 1 \in 0 .. Window
      <4>1. unread \in [Sides -> 0 .. Window] /\ unread[s] \in 0 .. Window
        BY <1>0 DEF TypeOK
      <4> QED
        BY <2>1, <4>1, ConstantTypes
    <3> QED
      BY <2>1, <3>1
  <2>3. TypeOK'
    BY <1>0, <1>5, <2>2 DEF Receive, TypeOK, sockets, verdict, peers
  <2> QED
    BY <1>1, <2>3, OutsideStep
<1> QED
  BY <1>2, <1>3, <1>4, <1>5 DEF Peer

LEMMA ShutdownIInv == IInv /\ Shutdown => IInv'
<1> SUFFICES ASSUME IInv, Shutdown PROVE IInv'
  OBVIOUS
<1>1. TypeOK
  BY DEF IInv
<1>2. readable' \in [Sides -> BOOLEAN] /\ writable' \in [Sides -> BOOLEAN]
  BY DEF Shutdown
<1>3. TypeOK'
  BY <1>1, <1>2 DEF Shutdown, TypeOK, NoneReady, verdict, peers, outputs
<1> QED
  BY <1>3, QuietStep DEF Shutdown, peers

LEMMA StopIInv == IInv /\ (Stop \/ SelectFails) => IInv'
<1> SUFFICES ASSUME IInv, Stop \/ SelectFails PROVE IInv'
  OBVIOUS
<1>1. /\ pc' \in {"done", "failed"}
      /\ UNCHANGED <<ready, sockets, queue, shutdown, verdict, peers, got, outputs>>
  BY DEF Stop, SelectFails
<1>2. TypeOK'
  BY <1>1 DEF IInv, TypeOK, sockets, verdict, peers, outputs
<1> QED
  BY <1>1, <1>2, QuietStep DEF peers

LEMMA TransactionIInv == IInv /\ Transaction => IInv'
<1> SUFFICES ASSUME IInv, Transaction PROVE IInv'
  OBVIOUS
<1>1. "client" \in Sides /\ "server" \in Sides
  BY DEF Sides
<1>2. CASE Read("client", "read client", "read server")
  BY <1>1, <1>2, ReadStep DEF ReadPlace
<1>3. CASE Read("server", "read server", "write client")
  BY <1>1, <1>3, ReadStep DEF ReadPlace
<1>4. CASE Write("client", "write client", "write server")
  BY <1>1, <1>4, WriteStep DEF WritePlace
<1>5. CASE Write("server", "write server", "shutdown")
  BY <1>1, <1>5, WriteStep DEF WritePlace
<1> QED
  BY <1>2, <1>3, <1>4, <1>5, PrefixIInv, SelectIInv, ShutdownIInv, StopIInv
     DEF Transaction

LEMMA Invariant == Spec => []IInv
<1>1. IInv /\ [Next]_vars => IInv'
  <2> SUFFICES ASSUME IInv, [Next]_vars PROVE IInv'
    OBVIOUS
  <2>1. CASE UNCHANGED vars
    <3>1. TypeOK'
      BY <2>1 DEF IInv, TypeOK, vars, sockets, verdict, peers, outputs
    <3> QED
      BY <2>1, <3>1, OutsideStep DEF vars, peers, outputs
  <2> QED
    BY <2>1, TransactionIInv, StopIInv, PeerIInv DEF Next, Ended
<1> QED
  BY <1>1, InitIInv, PTL DEF Spec

-----------------------------------------------------------------------------
(* The values every variable keeps, for every choice of the constants.     *)
THEOREM TypeCorrect == Spec => []TypeOK
<1>1. IInv => TypeOK
  BY DEF IInv
<1> QED
  BY <1>1, Invariant, PTL

(* The tunnel never finds an empty queue behind a socket that select()     *)
(* reported writable: its two exceptions are never thrown.                 *)
THEOREM NoException == Spec => []NeverThrown
<1>1. IInv => NeverThrown
  BY DEF IInv
<1> QED
  BY <1>1, Invariant, PTL

(* What arrives at a peer is, byte for byte and in order, what the other   *)
(* one sent, as long as the kernel has nothing against it.                 *)
THEOREM KeepsOrder == Spec => []InOrder
<1>1. IInv => InOrder
  BY DEF IInv
<1> QED
  BY <1>1, Invariant, PTL

(* No queue holds more than its limit and one buffer, unless it holds the  *)
(* prefix data of the other peer; then nothing more has been read of it.   *)
THEOREM BoundsQueues == Spec => []QueuesBounded
<1>1. IInv => QueuesBounded
  <2> SUFFICES ASSUME IInv, NEW s \in Sides
               PROVE  Len(queue[s]) <= QueueLimit + BufferSize \/ OnlyPrefix(s)
    BY DEF QueuesBounded
  <2>1. TypeOK /\ Within(s)
    BY DEF IInv, Bounded
  <2>2. /\ Load(s) \in Int /\ Len(queue[s]) \in Nat /\ Len(queue[s]) <= Load(s) + 1
        /\ prefix[Other(s)] \in Nat
    BY <2>1, QueueTypes DEF TypeOK
  <2> QED
    BY <2>1, <2>2, ConstantTypes DEF Within, OnlyPrefix
<1> QED
  BY <1>1, Invariant, PTL

-----------------------------------------------------------------------------
(* How a transaction ends.  As long as nothing is blocked, a socket is     *)
(* closed or scheduled for it only when one of the peers is gone, and the  *)
(* client's own side only when the client is, or has sent what nobody is   *)
(* going to read.                                                          *)

Gone(s) == eof[s] \/ broken[s]

(* The prefix data are handled before anything is closed.                  *)
Opening ==
  pc \in {"prefix client", "prefix server"} =>
    \A s \in Sides : readable[s] /\ writable[s]

(* What select() found readable still has data, or an end, when its turn   *)
(* comes.                                                                  *)
ReadyToRead ==
  /\ pc = "read client" => \A s \in ready.read : CanRead(s)
  /\ pc = "read server" /\ "server" \in ready.read => CanRead("server")

ShutdownCause == \A s \in Sides : shutdown[s] => Gone(Other(s))

ClosedCause ==
  (\E s \in Sides : ~readable[s] \/ ~writable[s]) => \E s \in Sides : Gone(s)

ClientCause ==
  ~writable["client"] =>
    Gone("client") \/ (~readable["client"] /\ sent["client"] > got["client"])

EndInv ==
  /\ Opening
  /\ ReadyToRead
  /\ ~is_blocked => ShutdownCause /\ ClosedCause /\ ClientCause
  /\ ResponseFlushed
  /\ NoEarlyEnd

LEMMA InitEnd == Init => EndInv
<1> SUFFICES ASSUME Init PROVE EndInv
  OBVIOUS
<1>1. /\ pc = "prefix client"
      /\ \A s \in Sides : readable[s] /\ writable[s] /\ ~shutdown[s]
  BY Zenon DEF Init
<1>2. "client" \in Sides
  BY DEF Sides
<1> QED
  BY <1>1, <1>2 DEF EndInv, Opening, ReadyToRead, ShutdownCause, ClosedCause, ClientCause,
       ResponseFlushed, NoEarlyEnd

(* What SMT needs to know of the peers before it can compare.              *)
LEMMA Counts ==
  ASSUME TypeOK
  PROVE  \A s \in Sides : sent[s] \in Nat /\ got[s] \in Nat /\ got[s] <= sent[s]
BY Zenon DEF TypeOK

(* Data that is not blocked goes to the other side's queue, and nothing    *)
(* else happens.                                                           *)
LEMMA HandleUnblocked ==
  ASSUME TypeOK, NEW s, NEW data, NEW next, Handle(s, data, next)
  PROVE  /\ is_blocked => is_blocked'
         /\ pc' = next \/ (pc' = "done" /\ is_blocked')
         /\ ~is_blocked' => pc' = next /\ shutdown' = shutdown
BY DEF Handle, Verdict, Forward, Block, Break, TypeOK

(* What can be read when there is no more data is the end.                 *)
LEMMA AtTheEnd ==
  ASSUME TypeOK, NEW s \in Sides, CanRead(s), sent[s] = got[s] \/ broken[s]
  PROVE  Gone(s)
<1>1. sent[s] \in Nat /\ got[s] \in Nat
  BY Counts
<1>2. sent[s] = got[s] => ~(sent[s] > got[s])
  BY <1>1
<1> QED
  BY <1>2, Zenon DEF CanRead, Gone

LEMMA PrefixEnd ==
  ASSUME TypeOK, EndInv, PrefixData
  PROVE  EndInv'
<1>1. /\ Opening /\ ReadyToRead
      /\ ~is_blocked => ShutdownCause /\ ClosedCause /\ ClientCause
  BY DEF EndInv
<1>2. /\ UNCHANGED <<ready, readable, writable, sent, eof, broken>>
      /\ \A s \in Sides : readable[s] /\ writable[s]
      /\ pc' \in {"prefix server", "head"} \/ (pc' = "done" /\ is_blocked')
      /\ is_blocked => is_blocked'
      /\ ~is_blocked' => shutdown' = shutdown
  <2>1. ASSUME NEW s \in Sides, NEW here \in {"prefix client", "prefix server"},
               NEW next \in {"prefix server", "head"}, Prefix(s, here, next)
        PROVE  <1>2
    BY <1>1, <2>1, HandleUnblocked DEF Prefix, Opening, sockets, peers, verdict
  <2> QED  BY <2>1 DEF PrefixData, Sides
<1> QED
  BY <1>1, <1>2 DEF EndInv, Opening, ReadyToRead, ShutdownCause, ClosedCause, ClientCause,
       ResponseFlushed, NoEarlyEnd, Gone, Sides

LEMMA StopEnd ==
  ASSUME TypeOK, EndInv, Stop
  PROVE  EndInv'
<1>1. /\ pc' = "done" /\ UNCHANGED <<ready, sockets, queue, shutdown, verdict, peers, got>>
      /\ ~continue_running \/ Finished
  BY DEF Stop
<1>2. ASSUME ~is_blocked
      PROVE  \E s \in Sides : Gone(s)
  <2>1. ShutdownCause /\ ClosedCause
    BY <1>2 DEF EndInv
  <2>2. CASE ~continue_running
    BY <2>1, <2>2 DEF continue_running, Open, ClosedCause, Sides, Other
  <2>3. CASE Finished
    BY <2>1, <2>3 DEF Finished, ShutdownCause, Sides, Other
  <2> QED  BY <1>1, <2>2, <2>3
<1>3. ASSUME ~is_blocked, Quiet("client")
      PROVE  queue["client"] = <<>>
  <2>1. ClientCause
    BY <1>3 DEF EndInv
  <2>2. writable["client"]
    <3>1. sent["client"] \in Nat /\ ~(sent["client"] > sent["client"])
      BY Counts DEF Sides
    <3> QED  BY <1>3, <2>1, <3>1 DEF ClientCause, Quiet, Gone
  <2>3. ~Pending("client")
    BY <1>1 DEF continue_running, Finished, Sides
  <2> QED  BY <2>2, <2>3 DEF Pending
<1>4. ResponseFlushed' /\ NoEarlyEnd'
  BY <1>1, <1>2, <1>3 DEF ResponseFlushed, NoEarlyEnd, Quiet, Gone, verdict, peers
<1> QED
  BY <1>1, <1>4 DEF EndInv, Opening, ReadyToRead, ShutdownCause, ClosedCause, ClientCause,
       Gone, sockets, verdict, peers

LEMMA SelectEnd ==
  ASSUME TypeOK, EndInv, Select
  PROVE  EndInv'
BY DEF Select, EndInv, Opening, ReadyToRead, ShutdownCause, ClosedCause, ClientCause,
       ResponseFlushed, NoEarlyEnd, Gone, CanRead, sockets, verdict, peers

LEMMA ReadEndInv ==
  ASSUME TypeOK, EndInv, NEW s \in Sides,
         NEW here \in {"read client", "read server"},
         NEW next \in {"read server", "write client"},
         s = "client" <=> here = "read client",
         s = "client" <=> next = "read server",
         Read(s, here, next)
  PROVE  EndInv'
<1>1. /\ pc = here /\ UNCHANGED <<ready, sent, eof, broken>>
      /\ ReadyToRead
      /\ ~is_blocked => ShutdownCause /\ ClosedCause /\ ClientCause
  BY DEF Read, EndInv, peers
<1>2. CASE ~(s \in ready.read /\ readable[s])
  BY <1>1, <1>2 DEF Read, EndInv, Opening, ReadyToRead, ShutdownCause, ClosedCause,
       ClientCause, ResponseFlushed, NoEarlyEnd, Gone, CanRead, sockets, verdict, Sides
<1>3. CASE s \in ready.read /\ readable[s]
  <2>1. CanRead(s)
    BY <1>1, <1>3 DEF ReadyToRead, Sides
  <2>2. CASE ReadData(s, next)
    <3>1. /\ UNCHANGED <<readable, writable>>
          /\ got' = [got EXCEPT ![s] = Chunk(s)]
          /\ is_blocked => is_blocked'
          /\ pc' = next \/ (pc' = "done" /\ is_blocked')
          /\ ~is_blocked' => shutdown' = shutdown
      BY <2>2, HandleUnblocked DEF ReadData, sockets
    <3>2. /\ (Opening /\ ResponseFlushed /\ NoEarlyEnd)'
      BY <3>1 DEF Opening, ResponseFlushed, NoEarlyEnd
    <3>3. ReadyToRead'
      BY <1>1, <3>1 DEF ReadyToRead, CanRead, TypeOK, Sides
    <3>4. ASSUME ~is_blocked'
          PROVE  (ShutdownCause /\ ClosedCause /\ ClientCause)'
      BY <1>1, <1>3, <3>1, <3>4 DEF ShutdownCause, ClosedCause, ClientCause, Gone, TypeOK, Sides
    <3> QED  BY <3>2, <3>3, <3>4 DEF EndInv
  <2>3. CASE ReadEnd(s, next)
    <3>1. /\ shutdown' = [shutdown EXCEPT ![Other(s)] = TRUE]
          /\ readable' = [readable EXCEPT ![s] = FALSE]
          /\ writable' = [writable EXCEPT ![s] = FALSE]
          /\ pc' = next /\ UNCHANGED <<queue, is_blocked, got>>
      BY <2>3 DEF ReadEnd, Scheduled, Close, verdict
    <3>2. Gone(s)
      BY <2>1, <2>3, AtTheEnd DEF ReadEnd
    <3>3. (Opening /\ ReadyToRead /\ ResponseFlushed /\ NoEarlyEnd)'
      BY <1>1, <3>1 DEF Opening, ReadyToRead, CanRead, ResponseFlushed, NoEarlyEnd, Sides
    <3>4. ASSUME ~is_blocked
          PROVE  (ShutdownCause /\ ClosedCause /\ ClientCause)'
      BY <1>1, <3>1, <3>2, <3>4
         DEF ShutdownCause, ClosedCause, ClientCause, Gone, TypeOK, Sides, Other
    <3> QED  BY <3>1, <3>3, <3>4 DEF EndInv
  <2>4. CASE ReadRefused(s, next)
    <3>1. /\ readable' = [readable EXCEPT ![s] = FALSE]
          /\ writable' = [writable EXCEPT ![s] = FALSE]
          /\ ~writable[Other(s)]
          /\ pc' = next /\ UNCHANGED <<queue, shutdown, is_blocked, got>>
      BY <2>4 DEF ReadRefused, Close, verdict
    <3>2. (Opening /\ ReadyToRead /\ ResponseFlushed /\ NoEarlyEnd)'
      BY <1>1, <3>1 DEF Opening, ReadyToRead, CanRead, ResponseFlushed, NoEarlyEnd, Sides
    <3>3. ASSUME ~is_blocked
          PROVE  (ShutdownCause /\ ClosedCause /\ ClientCause)'
      BY <1>1, <2>1, <3>1, <3>3
         DEF ShutdownCause, ClosedCause, ClientCause, Gone, CanRead, TypeOK, Sides, Other
    <3> QED  BY <3>1, <3>2, <3>3 DEF EndInv
  <2> QED  BY <1>3, <2>2, <2>3, <2>4 DEF Read
<1> QED  BY <1>2, <1>3

LEMMA WriteEndInv ==
  ASSUME TypeOK, EndInv, NEW s \in Sides,
         NEW here, NEW next \in {"write server", "shutdown"},
         Write(s, here, next)
  PROVE  EndInv'
<1>1. /\ UNCHANGED <<ready, readable, shutdown, is_blocked, sent, got, eof, broken>>
      /\ pc' \in {"write server", "shutdown", "thrown"}
  BY DEF Write, WriteData, WriteEnd, verdict, peers
<1>2. writable' = writable \/ (writable' = [writable EXCEPT ![s] = FALSE] /\ broken[s])
  BY DEF Write, WriteData, WriteEnd
<1>3. (Opening /\ ReadyToRead /\ ResponseFlushed /\ NoEarlyEnd)'
  BY <1>1 DEF Opening, ReadyToRead, ResponseFlushed, NoEarlyEnd
<1>4. ASSUME ~is_blocked
      PROVE  (ShutdownCause /\ ClosedCause /\ ClientCause)'
  BY <1>1, <1>2, <1>4 DEF EndInv, ShutdownCause, ClosedCause, ClientCause, Gone, TypeOK, Sides
<1> QED  BY <1>1, <1>3, <1>4 DEF EndInv

LEMMA ShutdownEnd ==
  ASSUME TypeOK, EndInv, Shutdown
  PROVE  EndInv'
<1>1. /\ UNCHANGED <<shutdown, is_blocked, sent, got, eof, broken>> /\ pc' = "head"
      /\ readable' = [s \in Sides |-> readable[s] /\ ~Drained(s)]
      /\ writable' = [s \in Sides |-> writable[s] /\ ~Drained(Other(s))]
  BY DEF Shutdown, verdict, peers
<1>2. (Opening /\ ReadyToRead /\ ResponseFlushed /\ NoEarlyEnd)'
  BY <1>1 DEF Opening, ReadyToRead, ResponseFlushed, NoEarlyEnd
<1>3. ASSUME ~is_blocked
      PROVE  (ShutdownCause /\ ClosedCause /\ ClientCause)'
  BY <1>1, <1>3
     DEF EndInv, ShutdownCause, ClosedCause, ClientCause, Gone, Drained, TypeOK, Sides, Other
<1> QED  BY <1>1, <1>2, <1>3 DEF EndInv

LEMMA PeerEnd ==
  ASSUME TypeOK, EndInv, NEW s \in Sides, Peer(s)
  PROVE  EndInv'
<1>1. UNCHANGED <<pc, ready, readable, writable, shutdown, is_blocked, got>> /\ pc # "done"
  BY DEF Peer, Send, FinishSending, Reset, Receive, Started, Over, sockets, verdict, peers
<1>2. /\ sent' = sent \/ sent' = [sent EXCEPT ![s] = @ + 1]
      /\ eof' = eof \/ eof' = [eof EXCEPT ![s] = TRUE]
      /\ broken' = broken \/ broken' = [broken EXCEPT ![s] = TRUE]
  BY DEF Peer, Send, FinishSending, Reset, Receive, peers
<1>3. \A t \in Sides : Gone(t) => Gone(t)'
  BY <1>2 DEF Gone, TypeOK
<1>4. \A t \in Sides : sent[t] > got[t] => sent'[t] > got'[t]
  <2>1. \A t \in Sides : sent'[t] = sent[t] \/ sent'[t] = sent[t] + 1
    <3>1. sent \in [Sides -> Nat]
      BY DEF TypeOK
    <3> QED  BY <1>2, <3>1
  <2> QED  BY <1>1, <2>1, Counts
<1>5. \A t \in Sides : CanRead(t) => CanRead(t)'
  BY <1>3, <1>4, Zenon DEF CanRead, Gone
<1>6. \A t \in ready.read : t \in Sides
  BY DEF TypeOK
<1>7. ReadyToRead'
  BY <1>1, <1>5, <1>6 DEF EndInv, ReadyToRead, Sides
<1>8. ASSUME ~is_blocked
      PROVE  (ShutdownCause /\ ClosedCause /\ ClientCause)'
  <2>1. ShutdownCause /\ ClosedCause /\ ClientCause
    BY <1>8 DEF EndInv
  <2>2. \A t \in Sides : Other(t) \in Sides
    BY DEF Sides, Other
  <2>3. ShutdownCause' /\ ClosedCause'
    BY <1>1, <1>3, <2>1, <2>2 DEF ShutdownCause, ClosedCause
  <2>4. ClientCause'
    BY <1>1, <1>3, <1>4, <2>1 DEF ClientCause, Sides
  <2> QED  BY <2>3, <2>4
<1> QED  BY <1>1, <1>7, <1>8 DEF EndInv, Opening, ResponseFlushed, NoEarlyEnd

LEMMA QuietEnd ==
  ASSUME EndInv,
         UNCHANGED <<ready, sockets, queue, shutdown, verdict, peers, got>>,
         pc' = "failed" \/ pc' = pc
  PROVE  EndInv'
BY DEF EndInv, Opening, ReadyToRead, ShutdownCause, ClosedCause, ClientCause,
       ResponseFlushed, NoEarlyEnd, Gone, CanRead, Quiet, sockets, verdict, peers

LEMMA EndInvariant == Spec => []EndInv
<1>1. TypeOK /\ EndInv /\ [Next]_vars => EndInv'
  <2> SUFFICES ASSUME TypeOK, EndInv, [Next]_vars PROVE EndInv'
    OBVIOUS
  <2>1. CASE Transaction
    <3>1. CASE Read("client", "read client", "read server")
      BY <3>1, ReadEndInv DEF Sides
    <3>2. CASE Read("server", "read server", "write client")
      BY <3>2, ReadEndInv DEF Sides
    <3>3. CASE Write("client", "write client", "write server")
      BY <3>3, WriteEndInv DEF Sides
    <3>4. CASE Write("server", "write server", "shutdown")
      BY <3>4, WriteEndInv DEF Sides
    <3> QED
      BY <2>1, <3>1, <3>2, <3>3, <3>4, PrefixEnd, StopEnd, SelectEnd, ShutdownEnd DEF Transaction
  <2>2. CASE SelectFails
    BY <2>2, QuietEnd DEF SelectFails
  <2>3. CASE Ended \/ UNCHANGED vars
    BY <2>3, QuietEnd DEF Ended, vars
  <2> QED
    BY <2>1, <2>2, <2>3, PeerEnd DEF Next
<1> QED
  BY <1>1, InitEnd, TypeCorrect, PTL DEF Spec

(* The worker is not taken away from two peers that may still talk to each *)
(* other, whatever was half-closed or scheduled on the way.                *)
THEOREM NotTooEarly == Spec => []NoEarlyEnd
<1>1. EndInv => NoEarlyEnd
  BY DEF EndInv
<1> QED
  BY <1>1, EndInvariant, PTL

(* When the tunnel ends by itself, a client that waits quietly has been    *)
(* sent all of the response that was read for it.                          *)
THEOREM FlushesResponse == Spec => []ResponseFlushed
<1>1. EndInv => ResponseFlushed
  BY DEF EndInv
<1> QED
  BY <1>1, EndInvariant, PTL
=============================================================================
