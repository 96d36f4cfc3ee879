------------------------ MODULE RecursiveMutexProofs ------------------------
(***************************************************************************)
(* jdk_recursivemutex excludes, and is a reentrant lock, for every number  *)
(* of threads and every depth.                                             *)
(***************************************************************************)
EXTENDS RecursiveMutex, TLAPS

Held(t) ==
  base = t /\ owner_id = t /\ owner_count = depth[t] /\ depth[t] > 0

(* What is true of the mutex at each place of a thread.                    *)
Place(t) ==
  /\ pc[t] = "idle" => IF depth[t] = 0 THEN base # t ELSE Held(t)
  /\ pc[t] \in {"again", "counted", "drop"} => Held(t)
  /\ pc[t] = "lock" => depth[t] = 0 /\ base # t
  /\ pc[t] \in {"own", "count"} => base = t /\ depth[t] = 0 /\ owner_count = 0
  /\ pc[t] = "count" => owner_id = t /\ guard = t
  /\ pc[t] = "unlock" => /\ base = t /\ owner_id = t
                         /\ depth[t] = owner_count + 1
                         /\ last[t] = (owner_count = 0)
  /\ pc[t] # "error"

(* Only the thread that has the mutex has a count in it, and only the      *)
(* section that writes the owner keeps the guard.                          *)
Shared ==
  /\ owner_count > 0 => base = owner_id
  /\ base = NoThread => owner_count = 0
  /\ \A t \in Threads : guard = t => pc[t] = "count"

IInv == TypeOK /\ Shared /\ \A t \in Threads : Place(t)

LEMMA InitIInv == Init => IInv
  BY RecursiveMutexAssumption DEF Init, IInv, TypeOK, Shared, Place

LEMMA StepTypeOK ==
  ASSUME IInv, NEW t \in Threads, Step(t)
  PROVE  TypeOK'
<1> USE DEF IInv, TypeOK, Goes, Returns
<1>1. CASE Get(t)
  BY <1>1 DEF Get
<1>2. CASE GetAgain(t)
  BY <1>2 DEF GetAgain
<1>3. CASE Lock(t)
  BY <1>3 DEF Lock
<1>4. CASE SetOwner(t)
  BY <1>4 DEF SetOwner
<1>5. CASE SetCount(t)
  BY <1>5 DEF SetCount
<1>6. CASE Release(t)
  BY <1>6 DEF Release, CheckOwner
<1>7. CASE CheckCount(t)
  BY <1>7 DEF CheckCount
<1>8. CASE Drop(t)
  <2>1. owner_count > 0
    BY <1>8 DEF Drop, Place, Held
  <2> QED
    BY <1>8, <2>1 DEF Drop, IsLast
<1>9. CASE Unlock(t)
  <2>1. depth[t] > 0
    BY <1>9 DEF Unlock, Place
  <2> QED
    BY <1>9, <2>1 DEF Unlock
<1> QED
  BY <1>1, <1>2, <1>3, <1>4, <1>5, <1>6, <1>7, <1>8, <1>9 DEF Step

(* A thread without the base mutex is not disturbed by what happens to the *)
(* rest.                                                                   *)
LEMMA Undisturbed ==
  ASSUME NEW u \in Threads, Place(u),
         pc'[u] = pc[u], depth'[u] = depth[u], last'[u] = last[u],
         \/ UNCHANGED <<base, guard, owner_id, owner_count>>
         \/ base # u /\ base' # u
  PROVE  Place(u)'
  BY DEF Place, Held

LEMMA StepOthers ==
  ASSUME IInv, NEW t \in Threads, Step(t), NEW u \in Threads, u # t
  PROVE  Place(u)'
<1> USE DEF IInv, TypeOK
<1>1. pc'[u] = pc[u] /\ depth'[u] = depth[u] /\ last'[u] = last[u]
  BY DEF Step, Get, GetAgain, Lock, SetOwner, SetCount, Release, CheckOwner,
         CheckCount, Drop, Unlock, Goes, Returns
<1>2. CASE UNCHANGED <<base, guard, owner_id, owner_count>>
  BY <1>1, <1>2, Undisturbed
<1>3. CASE Lock(t)
  <2>1. base # u /\ base' # u
    BY <1>3, RecursiveMutexAssumption DEF Lock
  <2> QED
    BY <1>1, <2>1, Undisturbed
<1>4. CASE GetAgain(t) \/ SetOwner(t) \/ SetCount(t) \/ Drop(t) \/ Unlock(t)
  <2>1. base = t
    BY <1>4 DEF GetAgain, SetOwner, SetCount, Drop, Unlock, Goes, Returns, Place, Held
  <2>2. base' \in {t, NoThread}
    BY <1>4, <2>1 DEF GetAgain, SetOwner, SetCount, Drop, Unlock
  <2>3. base # u /\ base' # u
    BY <2>1, <2>2, RecursiveMutexAssumption
  <2> QED
    BY <1>1, <2>3, Undisturbed
<1> QED
  BY <1>2, <1>3, <1>4 DEF Step, Get, Release, CheckOwner, CheckCount

LEMMA StepOwn ==
  ASSUME IInv, NEW t \in Threads, Step(t)
  PROVE  Shared' /\ Place(t)'
<1> USE DEF IInv, TypeOK, Goes, Returns, Place, Held, Shared
<1>0. t # NoThread
  BY RecursiveMutexAssumption
<1>1. CASE Get(t)
  BY <1>0, <1>1 DEF Get, HasIt
<1>2. CASE GetAgain(t)
  BY <1>0, <1>2 DEF GetAgain, HasIt
<1>3. CASE Lock(t)
  BY <1>0, <1>3 DEF Lock
<1>4. CASE SetOwner(t)
  BY <1>0, <1>4 DEF SetOwner
<1>5. CASE SetCount(t)
  BY <1>0, <1>5, RecursiveMutexAssumption DEF SetCount
<1>6. CASE Release(t)
  BY <1>0, <1>6 DEF Release, CheckOwner
<1>7. CASE CheckCount(t)
  BY <1>0, <1>7 DEF CheckCount
<1>8. CASE Drop(t)
  BY <1>0, <1>8, RecursiveMutexAssumption DEF Drop, IsLast
<1>9. CASE Unlock(t)
  BY <1>0, <1>9, RecursiveMutexAssumption DEF Unlock
<1> QED
  BY <1>1, <1>2, <1>3, <1>4, <1>5, <1>6, <1>7, <1>8, <1>9 DEF Step

LEMMA Invariant == Spec => []IInv
<1>1. IInv /\ [Next]_vars => IInv'
  <2> SUFFICES ASSUME IInv, [Next]_vars
               PROVE  IInv'
    OBVIOUS
  <2>1. ASSUME NEW t \in Threads, Step(t)
        PROVE  IInv'
    BY <2>1, StepTypeOK, StepOwn, StepOthers DEF IInv
  <2>2. CASE UNCHANGED vars
    BY <2>2 DEF IInv, TypeOK, Shared, Place, Held, vars
  <2> QED
    BY <2>1, <2>2 DEF Next
<1> QED
  BY <1>1, InitIInv, PTL DEF Spec

-----------------------------------------------------------------------------
(* Every variable keeps its type, whatever the number of threads.          *)
THEOREM TypeCorrect == Spec => []TypeOK
  BY Invariant, PTL DEF IInv

(* At most one thread has the mutex between its get() and the end of its   *)
(* last release().                                                         *)
THEOREM Excludes == Spec => []MutualExclusion
<1>1. IInv => MutualExclusion
  BY DEF IInv, TypeOK, Place, Held, MutualExclusion
<1> QED
  BY <1>1, Invariant, PTL

(* The count is the caller's, and a released mutex is not left locked.     *)
THEOREM KeepsCount == Spec => []CountKept
<1>1. IInv => CountKept
  BY DEF IInv, TypeOK, Place, Held, CountKept
<1> QED
  BY <1>1, Invariant, PTL

(* A caller that releases what it took does not get the exception.         *)
THEOREM NeverLogicError == Spec => []NoLogicError
<1>1. IInv => NoLogicError
  BY DEF IInv, Place, NoLogicError
<1> QED
  BY <1>1, Invariant, PTL

(* The recursive mutex implements the reentrant lock.                      *)
THEOREM IsReentrantLock == Spec => ImplementsReentrantLock
<1> DEFINE holder == IF owner_count > 0 THEN owner_id ELSE NoThread
<1>1. Init => Reentrant!Init
  BY DEF Init, Reentrant!Init
<1>2. ASSUME IInv, NEW t \in Threads, Step(t)
      PROVE  Reentrant!Next \/ UNCHANGED <<holder, owner_count>>
  <2> USE DEF IInv, TypeOK, Goes, Returns, Place, Held
  <2>1. CASE GetAgain(t)
    <3>1. Reentrant!Take(t) \/ UNCHANGED <<holder, owner_count>>
      BY <1>2, <2>1 DEF GetAgain, HasIt, Reentrant!Take
    <3> QED
      BY <3>1 DEF Reentrant!Next
  <2>2. CASE SetOwner(t)
    BY <1>2, <2>2 DEF SetOwner
  <2>3. CASE SetCount(t)
    <3>1. Reentrant!Take(t)
      BY <1>2, <2>3 DEF SetCount, Reentrant!Take
    <3> QED
      BY <3>1 DEF Reentrant!Next
  <2>4. CASE Drop(t)
    <3>1. Reentrant!Drop(t)
      BY <1>2, <2>4 DEF Drop, Reentrant!Drop
    <3> QED
      BY <3>1 DEF Reentrant!Next
  <2>5. CASE UNCHANGED <<owner_id, owner_count>>
    BY <2>5
  <2> QED
    BY <1>2, <2>1, <2>2, <2>3, <2>4, <2>5
       DEF Step, Get, Lock, Release, CheckOwner, CheckCount, Unlock
<1>3. IInv /\ [Next]_vars => [Reentrant!Next]_<<holder, owner_count>>
  BY <1>2 DEF Next, vars
<1> QED
  BY <1>1, <1>3, Invariant, PTL DEF Spec, ImplementsReentrantLock, Reentrant!Spec
=============================================================================
