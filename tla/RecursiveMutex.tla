--------------------------- MODULE RecursiveMutex ---------------------------
(***************************************************************************)
(* jdk_recursivemutex (libjdk/src/jdk_thread_mutex.cpp): a recursive mutex *)
(* made of a plain one, an owner and a count; a second plain mutex, the    *)
(* guard, protects the owner and the count, except where release() reads   *)
(* them.                                                                   *)
(*                                                                         *)
(* A section under the guard that touches the pair once is one step, which *)
(* waits for the guard to be free.  The section that writes first the      *)
(* owner and then the count holds the guard over two steps, and release()  *)
(* reads the two without it, in two steps of its own.                      *)
(***************************************************************************)
EXTENDS Integers

CONSTANTS
  Threads,   \* the threads that use the mutex
  NoThread,  \* owner of a free mutex; owner_id before its first owner
  MaxDepth   \* bound: a thread does not call get() with this many to release

ASSUME RecursiveMutexAssumption ==
  /\ NoThread \notin Threads
  /\ MaxDepth \in Nat \ {0}

VARIABLES
  pc,           \* where each thread is in get() or release()
  depth,        \* how often its caller has the mutex, by the caller's count
  base,         \* the thread that has the inherited jdk_mutex
  guard,        \* the thread that has the guard between two steps
  owner_id,
  owner_count,
  last          \* release()'s previous_count = 0

vars == <<pc, depth, base, guard, owner_id, owner_count, last>>

Init ==
  /\ pc = [t \in Threads |-> "idle"]
  /\ depth = [t \in Threads |-> 0]
  /\ base = NoThread
  /\ guard = NoThread
  /\ owner_id = NoThread
  /\ owner_count = 0
  /\ last = [t \in Threads |-> FALSE]

Goes(t, from, to) == pc[t] = from /\ pc' = [pc EXCEPT ![t] = to]
Returns(t, from, n) == /\ Goes(t, from, "idle")
                       /\ depth' = [depth EXCEPT ![t] = @ + n]

-----------------------------------------------------------------------------
(* get()                                                                   *)

(* Mutant: the owner is not compared, only the count.                      *)
BugAnyOwner(t) == owner_count > 0

(* What both checks in get() ask of the owner and the count.               *)
HasIt(t) == owner_id = t /\ owner_count > 0

Get(t) ==
  /\ guard = NoThread
  /\ depth[t] < MaxDepth
  /\ Goes(t, "idle", IF HasIt(t) THEN "again" ELSE "lock")
  /\ UNCHANGED <<depth, base, guard, owner_id, owner_count, last>>

(* The second check, and the increment, in one section.                    *)
GetAgain(t) ==
  /\ guard = NoThread
  /\ IF HasIt(t)
     THEN Returns(t, "again", 1) /\ owner_count' = owner_count + 1
     ELSE Goes(t, "again", "lock") /\ UNCHANGED <<depth, owner_count>>
  /\ UNCHANGED <<base, guard, owner_id, last>>

Lock(t) ==
  /\ base = NoThread
  /\ base' = t
  /\ Goes(t, "lock", "own")
  /\ UNCHANGED <<depth, guard, owner_id, owner_count, last>>

SetOwner(t) ==
  /\ guard = NoThread
  /\ guard' = t
  /\ owner_id' = t
  /\ Goes(t, "own", "count")
  /\ UNCHANGED <<depth, base, owner_count, last>>

SetCount(t) ==
  /\ owner_count' = 1
  /\ guard' = NoThread
  /\ Returns(t, "count", 1)
  /\ UNCHANGED <<base, owner_id, last>>

-----------------------------------------------------------------------------
(* release()                                                               *)

CheckOwner(t) ==
  /\ Goes(t, "idle", IF owner_id = t THEN "counted" ELSE "error")
  /\ UNCHANGED <<depth, base, guard, owner_id, owner_count, last>>

Release(t) == depth[t] > 0 /\ CheckOwner(t)

CheckCount(t) ==
  /\ Goes(t, "counted", IF owner_count > 0 THEN "drop" ELSE "error")
  /\ UNCHANGED <<depth, base, guard, owner_id, owner_count, last>>

(* Mutant: the base mutex is released at every level.                      *)
BugUnlockEarly(n) == TRUE

IsLast(n) == n = 0

Drop(t) ==
  /\ guard = NoThread
  /\ owner_count' = owner_count - 1
  /\ last' = [last EXCEPT ![t] = IsLast(owner_count')]
  /\ Goes(t, "drop", "unlock")
  /\ UNCHANGED <<depth, base, guard, owner_id>>

(* jdk_mutex::release(): unlocks whoever it was locked by.                 *)
Unlock(t) ==
  /\ base' = IF last[t] THEN NoThread ELSE base
  /\ Returns(t, "unlock", -1)
  /\ UNCHANGED <<guard, owner_id, owner_count, last>>

Step(t) ==
  \/ Get(t) \/ GetAgain(t) \/ Lock(t) \/ SetOwner(t) \/ SetCount(t)
  \/ Release(t) \/ CheckCount(t) \/ Drop(t) \/ Unlock(t)

Next == \E t \in Threads : Step(t)

(* Callers release what they took, as jdk_synchronized() does.             *)
Spec == Init /\ [][Next]_vars

-----------------------------------------------------------------------------
(***************************************************************************)
(* Properties.                                                             *)
(***************************************************************************)

(* Every thread is at a place of get(), of release() or of its caller.     *)
TypeOK ==
  /\ pc \in [Threads -> {"idle", "again", "lock", "own", "count",
                         "counted", "drop", "unlock", "error"}]
  /\ depth \in [Threads -> Nat]
  /\ base \in Threads \cup {NoThread}
  /\ guard \in Threads \cup {NoThread}
  /\ owner_id \in Threads \cup {NoThread}
  /\ owner_count \in Nat
  /\ last \in [Threads -> BOOLEAN]

(* Two threads never believe at once that they have the mutex, whatever    *)
(* one of them read of the owner while the other was writing it.           *)
MutualExclusion ==
  \A t, u \in Threads : depth[t] > 0 /\ depth[u] > 0 => t = u

(* The mutex agrees with its caller about how often the caller has it, and *)
(* it is not left locked by a caller that has released it.                 *)
CountKept ==
  \A t \in Threads : base = t /\ pc[t] = "idle" =>
    owner_id = t /\ owner_count = depth[t] /\ depth[t] > 0

(* A caller that releases what it took never gets the exception, although  *)
(* release() looks at the owner and the count without the guard.           *)
NoLogicError == \A t \in Threads : pc[t] # "error"

(* The two mutexes, the owner and the count together are a reentrant lock. *)
Reentrant == INSTANCE ReentrantLock
  WITH holder <- IF owner_count > 0 THEN owner_id ELSE NoThread,
       count <- owner_count
ImplementsReentrantLock == Reentrant!Spec
=============================================================================
