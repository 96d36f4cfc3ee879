------------------------------- MODULE Tunnel -------------------------------
(***************************************************************************)
(* if2k_mini_tunnel (libif2k/src/if2k_mini_tunnel.cpp), one transaction:   *)
(* the relay between the client that connected to the daemon, `incoming'   *)
(* in the code, and the server that was connected to for it, `outgoing';   *)
(* and if2k_mini_scanning_tunnel (libif2k/src/if2k_mini_http_proxy.cpp),   *)
(* which shows the kernel the data on its way and puts a redirect in the   *)
(* place of what it blocks.                                                *)
(*                                                                         *)
(* The code treats its two directions alike, and so does the model: what   *)
(* it does with one socket is written once, for either side.  The bytes of *)
(* each peer are numbered in the order in which the peer sends them.  The  *)
(* two queues are sequences: ElasticQueue implements Fifo.  The byte       *)
(* limits of handle_transaction() are 0, no limit, or too large to matter  *)
(* (a subtraction that underflowed, if2k_mini_http_proxy.cpp:806).         *)
(***************************************************************************)
EXTENDS Integers, Sequences

CONSTANTS
  Scanning,     \* the tunnel is an if2k_mini_scanning_tunnel
  QueueLimit,   \* a queue of this length takes no more (8192)
  BufferSize,   \* most that is read at once (4096)
  Window,       \* what the kernel keeps for a peer that does not read
  MaxBytes,     \* bound: bytes that each peer sends, the prefix data included
  Redirect      \* the redirect response

Sides == {"client", "server"}
Other(s) == IF s = "client" THEN "server" ELSE "client"

ASSUME TunnelAssumption ==
  /\ Scanning \in BOOLEAN
  /\ {QueueLimit, BufferSize, Window} \subseteq Nat \ {0}
  /\ MaxBytes \in [Sides -> Nat \ {0}]
  /\ Redirect \notin Nat

VARIABLES
  pc,                \* where handle_transaction() is
  ready,             \* what select() found: [read, write]
  readable,          \* is_open_for_reading() of each socket
  writable,          \* is_open_for_writing()
  queue,             \* data_to_client and data_to_server
  shutdown,          \* incoming_shutdown and outgoing_shutdown
  is_blocked,        \* the kernel's verdict on the transaction
  blocking_applied,  \* the redirect has been queued
  prefix,            \* length of client_prefix_data and server_prefix_data
  sent,              \* bytes each peer has sent
  got,               \* bytes of it that the tunnel has read
  eof,               \* the peer has sent all it will send
  broken,            \* the peer's connection is reset
  unread,            \* what the peer has yet to read of what was sent to it
  delivered          \* all that was sent to the peer

sockets == <<readable, writable>>
verdict == <<is_blocked, blocking_applied>>
peers == <<prefix, sent, eof, broken>>
outputs == <<unread, delivered>>
vars == <<pc, ready, sockets, queue, shutdown, verdict, peers, got, outputs>>

Bytes(from, to) == [k \in 1 .. to - from |-> from + k]

NoneReady == [read |-> {}, write |-> {}]

(* The header parsers may have read more than the header: these bytes are  *)
(* the prefix data of the transaction, and a response's header is a part   *)
(* of its prefix.  They are as long as the header and what came with it,   *)
(* which has nothing to do with the limits of the tunnel.                  *)
Init ==
  /\ pc = "prefix client"
  /\ ready = NoneReady
  /\ readable = [s \in Sides |-> TRUE]
  /\ writable = [s \in Sides |-> TRUE]
  /\ queue = [s \in Sides |-> <<>>]
  /\ shutdown = [s \in Sides |-> FALSE]
  /\ is_blocked = FALSE
  /\ blocking_applied = FALSE
  /\ prefix \in [Sides -> UNION {0 .. MaxBytes[s] : s \in Sides}]
  /\ \A s \in Sides : prefix[s] <= MaxBytes[s]
  /\ Scanning => prefix["server"] > 0
  /\ sent = prefix
  /\ got = [s \in Sides |-> 0]
  /\ eof = [s \in Sides |-> FALSE]
  /\ broken = [s \in Sides |-> FALSE]
  /\ unread = [s \in Sides |-> 0]
  /\ delivered = [s \in Sides |-> <<>>]

-----------------------------------------------------------------------------
(* What handle_client_incoming_data() and handle_server_incoming_data() do *)
(* with data from side s, and where handle_transaction() goes from there.  *)

Verdict == is_blocked' \in (IF Scanning THEN {is_blocked, TRUE} ELSE {is_blocked})

Forward(s, data, next) ==
  /\ ~is_blocked' \/ blocking_applied
  /\ queue' = [queue EXCEPT ![Other(s)] = @ \o data]
  /\ pc' = next
  /\ UNCHANGED <<shutdown, blocking_applied>>

Block(next) ==
  /\ is_blocked' /\ ~blocking_applied
  /\ delivered["client"] = <<>>
  /\ queue' = [queue EXCEPT !["client"] = Append(@, Redirect)]
  /\ shutdown' = [shutdown EXCEPT !["server"] = TRUE]
  /\ blocking_applied' = TRUE
  /\ pc' = next

(* Too late for a redirect: the transaction is finished.                   *)
Break ==
  /\ is_blocked' /\ ~blocking_applied
  /\ delivered["client"] # <<>>
  /\ pc' = "done"
  /\ UNCHANGED <<queue, shutdown, blocking_applied>>

Handle(s, data, next) ==
  Verdict /\ (Forward(s, data, next) \/ Block(next) \/ Break)

-----------------------------------------------------------------------------
(* handle_transaction()                                                    *)

(* The prefix data are queued whole, whatever the queue's limit.           *)
Prefix(s, here, next) ==
  /\ pc = here
  /\ IF prefix[s] > 0
     THEN /\ Handle(s, Bytes(0, prefix[s]), next)
          /\ got' = [got EXCEPT ![s] = prefix[s]]
     ELSE pc' = next /\ UNCHANGED <<queue, shutdown, verdict, got>>
  /\ UNCHANGED <<ready, sockets, peers, outputs>>

PrefixData ==
  \/ Prefix("client", "prefix client", "prefix server")
  \/ Prefix("server", "prefix server", "head")

Open(s) == writable[s] /\ readable[Other(s)]
Pending(s) == writable[s] /\ queue[s] # <<>>
continue_running == \E s \in Sides : Open(s) \/ Pending(s)

(* Mutant: an idle tunnel is taken for a finished one.                     *)
BugIdle == \A s \in Sides : ~Pending(s)

Finished == (\A s \in Sides : ~Pending(s)) /\ (\E s \in Sides : shutdown[s])

(* The loop ends, by its condition or by the break before select().        *)
Stop ==
  /\ pc = "head"
  /\ ~continue_running \/ Finished
  /\ pc' = "done"
  /\ UNCHANGED <<ready, sockets, queue, shutdown, verdict, peers, got, outputs>>

(* Mutants: a full queue does not stop the reading; or the wrong one does. *)
BugNoLimit(s) == readable[s]
BugOwnQueue(s) == readable[s] /\ Len(queue[s]) < QueueLimit

(* What is given to select().                                              *)
WantRead(s) == readable[s] /\ Len(queue[Other(s)]) < QueueLimit

(* Mutant: the socket is polled for writing whenever it is open.           *)
BugPollAlways(s) == writable[s]

WantWrite(s) == Pending(s)

(* What the operating system answers.                                      *)
CanRead(s) == sent[s] > got[s] \/ eof[s] \/ broken[s]
CanWrite(s) == unread[s] < Window \/ broken[s]

(* select() waits until something is ready; if its two seconds pass before *)
(* that, the loop comes round with nothing changed.                        *)
Select ==
  /\ pc = "head"
  /\ continue_running /\ ~Finished
  /\ ready' = [read  |-> {s \in Sides : WantRead(s) /\ CanRead(s)},
               write |-> {s \in Sides : WantWrite(s) /\ CanWrite(s)}]
  /\ ready' # NoneReady
  /\ pc' = "read client"
  /\ UNCHANGED <<sockets, queue, shutdown, verdict, peers, got, outputs>>

SelectFails ==
  /\ pc = "head"
  /\ continue_running /\ ~Finished
  /\ pc' = "failed"
  /\ UNCHANGED <<ready, sockets, queue, shutdown, verdict, peers, got, outputs>>

Close(s) ==
  /\ readable' = [readable EXCEPT ![s] = FALSE]
  /\ writable' = [writable EXCEPT ![s] = FALSE]

Chunk(s) == IF sent[s] - got[s] < BufferSize THEN sent[s] ELSE got[s] + BufferSize

(* can_read(s), with len > 0.                                              *)
ReadData(s, next) ==
  /\ writable[Other(s)]
  /\ sent[s] > got[s]
  /\ Handle(s, Bytes(got[s], Chunk(s)), next)
  /\ got' = [got EXCEPT ![s] = Chunk(s)]
  /\ UNCHANGED sockets

(* Mutant: the end of one peer's data is an order to stop writing to it.   *)
BugWrongSide(s) == s

(* The side that is to be shut down once its queue is empty.               *)
Scheduled(s) == Other(s)

(* len <= 0: the peer has finished, or the connection is broken; what was  *)
(* received before it broke may still be read, or be lost.                 *)
ReadEnd(s, next) ==
  /\ writable[Other(s)]
  /\ sent[s] = got[s] \/ broken[s]
  /\ shutdown' = [shutdown EXCEPT ![Scheduled(s)] = TRUE]
  /\ Close(s)
  /\ pc' = next
  /\ UNCHANGED <<queue, verdict, got>>

(* There is nobody to send it to.                                          *)
ReadRefused(s, next) ==
  /\ ~writable[Other(s)]
  /\ Close(s)
  /\ pc' = next
  /\ UNCHANGED <<queue, shutdown, verdict, got>>

Read(s, here, next) ==
  /\ pc = here
  /\ IF s \in ready.read /\ readable[s]
     THEN ReadData(s, next) \/ ReadEnd(s, next) \/ ReadRefused(s, next)
     ELSE pc' = next /\ UNCHANGED <<sockets, queue, shutdown, verdict, got>>
  /\ UNCHANGED <<ready, peers, outputs>>

(* Mutant: all that was offered to send() is taken off the queue.          *)
BugSkipAll(s, n) == <<>>

(* skip( len )                                                             *)
Rest(s, n) == SubSeq(queue[s], n + 1, Len(queue[s]))

(* can_write(s), with len > 0: all that fits in the window.                *)
WriteData(s, next) ==
  /\ queue[s] # <<>>
  /\ ~broken[s]
  /\ LET room == Window - unread[s]
         n == IF room < Len(queue[s]) THEN room ELSE Len(queue[s])
     IN  /\ delivered' = [delivered EXCEPT ![s] = @ \o SubSeq(queue[s], 1, n)]
         /\ unread' = [unread EXCEPT ![s] = @ + n]
         /\ queue' = [queue EXCEPT ![s] = Rest(s, n)]
  /\ pc' = next
  /\ UNCHANGED writable

(* len <= 0: shutdown_write().                                             *)
WriteEnd(s, next) ==
  /\ queue[s] # <<>>
  /\ broken[s]
  /\ writable' = [writable EXCEPT ![s] = FALSE]
  /\ pc' = next
  /\ UNCHANGED <<queue, outputs>>

(* The socket is writable, and there is no data to send: an exception.     *)
Thrown(s) == s \in ready.write /\ writable[s] /\ queue[s] = <<>>

Write(s, here, next) ==
  /\ pc = here
  /\ IF s \in ready.write /\ writable[s] /\ ~Thrown(s)
     THEN WriteData(s, next) \/ WriteEnd(s, next)
     ELSE /\ pc' = IF Thrown(s) THEN "thrown" ELSE next
          /\ UNCHANGED <<writable, queue, outputs>>
  /\ UNCHANGED <<ready, readable, shutdown, verdict, peers, got>>

Drained(s) == shutdown[s] /\ queue[s] = <<>>

(* The end of the loop's body: what was scheduled is done.                 *)
Shutdown ==
  /\ pc = "shutdown"
  /\ readable' = [s \in Sides |-> readable[s] /\ ~Drained(s)]
  /\ writable' = [s \in Sides |-> writable[s] /\ ~Drained(Other(s))]
  /\ ready' = NoneReady
  /\ pc' = "head"
  /\ UNCHANGED <<queue, shutdown, verdict, peers, got, outputs>>

Transaction ==
  \/ PrefixData \/ Stop \/ Select
  \/ Read("client", "read client", "read server")
  \/ Read("server", "read server", "write client")
  \/ Write("client", "write client", "write server")
  \/ Write("server", "write server", "shutdown")
  \/ Shutdown

-----------------------------------------------------------------------------
(* The peers.  Their steps come at any time; what they do after the        *)
(* transaction is nobody's concern.                                        *)

Over == pc \in {"done", "failed", "thrown"}
Started == pc \notin {"prefix client", "prefix server"} /\ ~Over

Send(s) ==
  /\ Started /\ ~eof[s] /\ ~broken[s] /\ sent[s] < MaxBytes[s]
  /\ sent' = [sent EXCEPT ![s] = @ + 1]
  /\ UNCHANGED <<pc, ready, sockets, queue, shutdown, verdict, prefix, eof, broken, got, outputs>>

FinishSending(s) ==
  /\ Started /\ ~eof[s] /\ ~broken[s]
  /\ eof' = [eof EXCEPT ![s] = TRUE]
  /\ UNCHANGED <<pc, ready, sockets, queue, shutdown, verdict, prefix, sent, broken, got, outputs>>

Reset(s) ==
  /\ Started /\ ~broken[s]
  /\ broken' = [broken EXCEPT ![s] = TRUE]
  /\ UNCHANGED <<pc, ready, sockets, queue, shutdown, verdict, prefix, sent, eof, got, outputs>>

Receive(s) ==
  /\ Started /\ unread[s] > 0 /\ ~broken[s]
  /\ unread' = [unread EXCEPT ![s] = @ - 1]
  /\ UNCHANGED <<pc, ready, sockets, queue, shutdown, verdict, peers, got, delivered>>

Peer(s) == Send(s) \/ FinishSending(s) \/ Reset(s) \/ Receive(s)

Ended == Over /\ UNCHANGED vars

Next ==
  \/ Transaction
  \/ SelectFails
  \/ \E s \in Sides : Peer(s)
  \/ Ended

Spec == Init /\ [][Next]_vars

(* The worker's thread runs, and the peers read what they are sent; no     *)
(* peer has to send anything or to stop.                                   *)
FairSpec ==
  /\ Spec
  /\ WF_vars(Transaction)
  /\ \A s \in Sides : WF_vars(Receive(s))

-----------------------------------------------------------------------------
(***************************************************************************)
(* Properties.                                                             *)
(***************************************************************************)

Item == Nat \cup {Redirect}

(* The values every variable keeps.                                        *)
TypeOK ==
  /\ pc \in {"prefix client", "prefix server", "head", "read client",
             "read server", "write client", "write server", "shutdown",
             "done", "failed", "thrown"}
  /\ ready \in [read : SUBSET Sides, write : SUBSET Sides]
  /\ readable \in [Sides -> BOOLEAN]
  /\ writable \in [Sides -> BOOLEAN]
  /\ queue \in [Sides -> Seq(Item)]
  /\ shutdown \in [Sides -> BOOLEAN]
  /\ is_blocked \in BOOLEAN
  /\ blocking_applied \in BOOLEAN
  /\ sent \in [Sides -> Nat]
  /\ got \in [Sides -> Nat]
  /\ prefix \in [Sides -> Nat]
  /\ \A s \in Sides : got[s] <= sent[s] /\ prefix[s] <= sent[s]
  /\ eof \in [Sides -> BOOLEAN]
  /\ broken \in [Sides -> BOOLEAN]
  /\ unread \in [Sides -> 0 .. Window]
  /\ delivered \in [Sides -> Seq(Item)]

(* The exceptions "writable but no data to send" are never thrown: what    *)
(* was queued when select() was asked is still queued when it has          *)
(* answered.                                                               *)
NeverThrown == pc # "thrown"

(* As long as nothing is blocked, what a peer was sent and what is queued  *)
(* for it are what was read from the other peer, in order, whatever part   *)
(* of it each send() took.                                                 *)
InOrder ==
  ~is_blocked =>
    \A s \in Sides : delivered[s] \o queue[s] = Bytes(0, got[Other(s)])

(* A peer that does not read holds up the other one: no queue grows by     *)
(* more than a buffer beyond its limit, the redirect included.  Only the   *)
(* prefix data, which are queued whole, may make it longer; then nothing   *)
(* more is read of the other peer until it has drained.                    *)
OnlyPrefix(s) ==
  /\ got[Other(s)] = prefix[Other(s)]
  /\ Len(queue[s]) <= prefix[Other(s)] + 1

QueuesBounded ==
  \A s \in Sides : Len(queue[s]) <= QueueLimit + BufferSize \/ OnlyPrefix(s)

(* The client has neither finished nor broken off, and has sent nothing    *)
(* that was not read.                                                      *)
Quiet(s) == ~eof[s] /\ ~broken[s] /\ sent[s] = got[s]

(* The tunnel does not drop the end of a response: when it ends by itself, *)
(* a client that waits quietly has been sent all that was read for it.     *)
ResponseFlushed ==
  pc = "done" /\ Quiet("client") /\ ~is_blocked => queue["client"] = <<>>

(* It does not end while both peers may still have something to say.       *)
NoEarlyEnd ==
  pc = "done" /\ ~is_blocked => \E s \in Sides : eof[s] \/ broken[s]

(* To a client that waits quietly the whole response of a server that      *)
(* closes the connection after it is delivered.                            *)
Undisturbed ==
  /\ ~eof["client"]
  /\ \A s \in Sides : ~broken[s]
  /\ eof["server"] => sent["client"] = got["client"]
  /\ pc # "failed"

ResponseDelivered ==
  []Undisturbed =>
    (eof["server"] ~> delivered["client"] = Bytes(0, sent["server"]))

(* When one of the peers has finished or is gone, the transaction ends,    *)
(* and the worker is free for another client.                              *)
TunnelEnds == (\E s \in Sides : eof[s] \/ broken[s]) ~> Over
=============================================================================
