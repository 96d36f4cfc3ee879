---------------------------- MODULE DaemonProofs ----------------------------
(***************************************************************************)
(* The safety of the daemon, for every number of threads and every         *)
(* setting: no worker escapes the service thread while its kernel exists,  *)
(* and those that outlive it have been told to stop.                       *)
(***************************************************************************)
EXTENDS Daemon, TLAPS

(* Between generations every worker that is left is stale.                 *)
Between == {"reload", "precompile", "load"}
OnlyStaleBetween ==
  pc \in Between => \A t \in Threads : Live(t) => t \in stale

(* While the start loop runs, the generation is in the slots behind it.    *)
Owned(t, k) ==
  /\ k < num_threads
  /\ pc = "start" => k < i
  /\ threads[k] = t
  /\ \A j \in Index : threads[j] = t => j = k

WorkersOwnedSoFar ==
  \A t \in Threads : Live(t) /\ t \notin stale => \E k \in Index : Owned(t, k)

(* Once stop_worker_threads() sleeps, every worker has been told to stop.  *)
AllAsked ==
  pc = "reap" => \A t \in Threads : Live(t) => please_stop[t]

(* With TypeOK, the inductive invariant.                                   *)
Ownership ==
  OnlyStaleBetween /\ WorkersOwnedSoFar /\ StaleAskedToStop /\ AllAsked


-----------------------------------------------------------------------------
(***************************************************************************)
(* Type correctness.                                                       *)
(***************************************************************************)

(* A generation is never larger than threads[].                            *)
LEMMA NumThreadsBounded ==
  ASSUME NEW n \in Sockets
  PROVE  NumThreads(n) \in Int /\ NumThreads(n) <= MaxThreads
  BY DaemonAssumption DEF NumThreads

(* A trigger is set whatever else is known of the kernel.                  *)
Kernels == [alive : BOOLEAN, restart_triggered : BOOLEAN,
            precompile_triggered : BOOLEAN]

LEMMA TriggeredKernel ==
  ASSUME NEW k \in Kernels, NEW b \in BOOLEAN
  PROVE  [k EXCEPT !.restart_triggered = @ \/ b] \in Kernels
<1>1. (k.restart_triggered \/ b) \in BOOLEAN
  OBVIOUS
<1> QED
  BY <1>1 DEF Kernels

LEMMA InitTypeOK == Init => TypeOK
<1> SUFFICES ASSUME Init PROVE TypeOK
  OBVIOUS
<1>1. threads \in [Index -> Threads \cup {NoThread, Unstarted}]
  BY DEF Init
<1>2. /\ at \in [Threads -> {"free", "loop", "select", "connection", "done"}]
      /\ please_stop \in [Threads -> BOOLEAN]
  BY DEF Init
<1>3. kernel \in Kernels
  BY DEF Init, NoKernel, Kernels
<1>4. num_threads \in Int /\ num_threads <= MaxThreads
  BY DaemonAssumption DEF Init
<1> QED
  BY <1>1, <1>2, <1>3, <1>4 DEF Init, TypeOK, Kernels

(* What a worker does leaves the service thread's variables alone.         *)
LEMMA WorkerTypeOK ==
  ASSUME TypeOK, NEW t \in Threads, Worker(t)
  PROVE  TypeOK'
<1>1. /\ at' \in [Threads -> {"free", "loop", "select", "connection", "done"}]
      /\ UNCHANGED <<service, saw, please_stop, stale>>
  BY DEF TypeOK, Worker, Goes, CheckStop, NothingToAccept, SelectFails, Accept,
         ServeRequest, PostSettings, GetRestart, GetPrecompile
<1>2. kernel' \in [alive : BOOLEAN, restart_triggered : BOOLEAN,
                   precompile_triggered : BOOLEAN]
  BY DEF TypeOK, Worker, CheckStop, NothingToAccept, SelectFails, Accept,
         ServeRequest, PostSettings, GetRestart, GetPrecompile, Trigger
<1>3. settings' \in Settings /\ disk' \in Settings
  BY DEF TypeOK, Settings, Worker, CheckStop, NothingToAccept, SelectFails, Accept,
         ServeRequest, PostSettings, GetRestart, GetPrecompile
<1> QED
  BY <1>1, <1>2, <1>3 DEF TypeOK, service

LEMMA ServiceTypeOK ==
  ASSUME TypeOK, Service
  PROVE  TypeOK'
<1> USE DaemonAssumption DEF TypeOK, workers
<1>1. CASE ReloadSettings
  BY <1>1 DEF ReloadSettings
<1>2. CASE DoPrecompiling
  BY <1>2 DEF DoPrecompiling
<1>3. CASE LoadKernel
  <2>1. num_threads' \in Int /\ num_threads' <= MaxThreads
    BY <1>3, NumThreadsBounded DEF LoadKernel, Settings
  <2> QED
    BY <1>3, <2>1 DEF LoadKernel, NoKernel
<1>4. CASE StartWorker
  <2>1. threads' \in [Index -> Threads \cup {NoThread, Unstarted}]
    BY <1>4 DEF StartWorker
  <2>2. /\ at' \in [Threads -> {"free", "loop", "select", "connection", "done"}]
        /\ please_stop' \in [Threads -> BOOLEAN]
        /\ stale' \subseteq Threads
    <3>1. CASE UNCHANGED workers
      BY <3>1
    <3>2. ASSUME NEW t \in Threads,
                 at' = [at EXCEPT ![t] = "loop"],
                 please_stop' = [please_stop EXCEPT ![t] = FALSE],
                 stale' = stale \ {t}
          PROVE  <2>2!1 /\ <2>2!2 /\ <2>2!3
      BY <3>2
    <3> QED
      BY <1>4, <3>1, <3>2 DEF StartWorker
  <2>3. i' \in Nat /\ threads_started' \in Nat
    BY <1>4 DEF StartWorker
  <2> QED
    BY <1>4, <2>1, <2>2, <2>3 DEF StartWorker
<1>5. CASE WorkersStarted
  <2>1. settings.reload \in Nat
    BY DEF Settings
  <2> QED
    BY <1>5, <2>1 DEF WorkersStarted
<1>6. CASE CheckTriggers
  <2>1. kernel' \in Kernels
    <3>1. [kernel EXCEPT !.restart_triggered = @ \/ "HUP" \in saw] \in Kernels
      <4>1. CASE "HUP" \in saw
        BY <4>1, TriggeredKernel DEF Kernels
      <4>2. CASE "HUP" \notin saw
        BY <4>2, TriggeredKernel DEF Kernels
      <4> QED
        BY <4>1, <4>2
    <3> QED
      BY <1>6, <3>1 DEF CheckTriggers, HandleSignals, Kernels
  <2> QED
    BY <1>6, <2>1 DEF CheckTriggers, HandleSignals, Kernels
<1>7. CASE RestartCountdown
  <2>1. kernel' \in Kernels
    BY <1>7, TriggeredKernel DEF RestartCountdown, Kernels
  <2> QED
    BY <1>7, <2>1 DEF RestartCountdown, Kernels
<1>8. CASE CollectTriggers
  BY <1>8 DEF CollectTriggers
<1>9. CASE AskToStop
  BY <1>9 DEF AskToStop
<1>10. CASE ReapWorker
  BY <1>10 DEF ReapWorker
<1>11. CASE EndGeneration
  BY <1>11 DEF EndGeneration, NoKernel
<1> QED
  BY <1>1, <1>2, <1>3, <1>4, <1>5, <1>6, <1>7, <1>8, <1>9, <1>10, <1>11
     DEF Service

LEMMA NextTypeOK == TypeOK /\ [Next]_vars => TypeOK'
<1> SUFFICES ASSUME TypeOK, [Next]_vars
             PROVE  TypeOK'
  OBVIOUS
<1>1. CASE Service
  BY <1>1, ServiceTypeOK
<1>2. ASSUME NEW t \in Threads, Worker(t)
      PROVE  TypeOK'
  BY <1>2, WorkerTypeOK
<1>3. ASSUME NEW s \in Signals, Signal(s)
      PROVE  TypeOK'
  BY <1>3 DEF TypeOK, Signal, service, workers
<1>4. CASE UNCHANGED vars
  BY <1>4 DEF TypeOK, vars, service, workers
<1> QED
  BY <1>1, <1>2, <1>3, <1>4 DEF Next, Exited

(* Every variable keeps its type, for every value of the constants.        *)
THEOREM TypeCorrect == Spec => []TypeOK
  BY InitTypeOK, NextTypeOK, PTL DEF Spec

-----------------------------------------------------------------------------
(***************************************************************************)
(* The workers and their slots.                                            *)
(***************************************************************************)

LEMMA InitOwnership == Init => Ownership
  BY DEF Init, Ownership, OnlyStaleBetween, Between, WorkersOwnedSoFar,
         StaleAskedToStop, AllAsked, Live

(* A step that touches neither threads[] nor the flags of the workers, and *)
(* starts no worker, disturbs nothing.                                     *)
LEMMA QuietStep ==
  ASSUME Ownership,
         UNCHANGED <<i, num_threads, threads, please_stop, stale>>,
         pc' \in Between => pc \in Between,
         pc' \in {"start", "reap"} => pc' = pc,
         \A u \in Threads : Live(u)' => Live(u)
  PROVE  Ownership'
<1> USE DEF Ownership
<1>1. OnlyStaleBetween'
  BY DEF OnlyStaleBetween, Between
<1>2. WorkersOwnedSoFar'
  <2> SUFFICES ASSUME NEW u \in Threads, Live(u)', u \notin stale'
               PROVE  \E k \in Index : Owned(u, k)'
    BY DEF WorkersOwnedSoFar
  <2>1. PICK k \in Index : Owned(u, k)
    BY DEF WorkersOwnedSoFar
  <2>2. Owned(u, k)'
    BY <2>1 DEF Owned
  <2> QED
    BY <2>2
<1>3. StaleAskedToStop'
  BY DEF StaleAskedToStop
<1>4. AllAsked'
  BY DEF AllAsked
<1> QED
  BY <1>1, <1>2, <1>3, <1>4

(* No worker starts a worker.                                              *)
LEMMA WorkerQuiet ==
  ASSUME TypeOK, NEW t \in Threads, Worker(t)
  PROVE  /\ UNCHANGED <<service, please_stop, stale>>
         /\ \A u \in Threads : Live(u)' => Live(u)
<1>1. /\ UNCHANGED <<service, please_stop, stale>>
      /\ at[t] \in {"loop", "select", "connection"}
      /\ \E to \in {"loop", "select", "connection", "done"} : at' = [at EXCEPT ![t] = to]
  BY DEF Worker, Goes, CheckStop, NothingToAccept, SelectFails, Accept,
         ServeRequest, PostSettings, GetRestart, GetPrecompile
<1> QED
  BY <1>1 DEF TypeOK, Live

LEMMA SignalQuiet ==
  ASSUME TypeOK, NEW s \in Signals, Signal(s)
  PROVE  /\ UNCHANGED <<service, please_stop, stale>>
         /\ \A u \in Threads : Live(u)' => Live(u)
  BY DEF Signal, TypeOK, Live, workers

LEMMA LoadKernelOwnership ==
  ASSUME Ownership, LoadKernel
  PROVE  Ownership'
  BY DEF Ownership, LoadKernel, OnlyStaleBetween, WorkersOwnedSoFar,
         StaleAskedToStop, AllAsked, Between, Live, workers

(* The slot that is overwritten held nobody of this generation.            *)
LEMMA StartWorkerOwnership ==
  ASSUME TypeOK, Ownership, StartWorker
  PROVE  Ownership'
<1> USE DEF Ownership
<1>1. /\ pc = "start" /\ pc' = "start"
      /\ i \in Index /\ i < num_threads
      /\ i' = i + 1 /\ num_threads' = num_threads
  BY DaemonAssumption DEF StartWorker, TypeOK, Index
<1>2. ASSUME NEW u \in Threads, NEW k \in Index, Owned(u, k),
             NEW x, x # u, threads' = [threads EXCEPT ![i] = x]
      PROVE  Owned(u, k)'
  <2>1. k # i /\ k < i
    BY <1>1, <1>2 DEF Owned, Index
  <2>2. threads'[k] = u
    BY <1>2, <2>1 DEF TypeOK, Owned
  <2>3. \A j \in Index : threads'[j] = u => j = k
    BY <1>1, <1>2 DEF TypeOK, Owned
  <2> QED
    BY <1>1, <1>2, <2>1, <2>2, <2>3 DEF Owned, Index
<1>3. CASE /\ threads' = [threads EXCEPT ![i] = Unstarted]
           /\ UNCHANGED workers
  <2>1. ASSUME NEW u \in Threads, Live(u)', u \notin stale'
        PROVE  \E k \in Index : Owned(u, k)'
    <3>1. PICK k \in Index : Owned(u, k)
      BY <1>3, <2>1 DEF WorkersOwnedSoFar, Live, workers
    <3>2. Owned(u, k)'
      BY <1>2, <1>3, <3>1, DaemonAssumption
    <3> QED
      BY <3>2
  <2> QED
    BY <1>1, <1>3, <2>1 DEF OnlyStaleBetween, Between, WorkersOwnedSoFar,
       StaleAskedToStop, AllAsked, Live, workers
<1>4. ASSUME NEW t \in Threads,
             ~Live(t),
             ~InSlot(t),
             threads' = [threads EXCEPT ![i] = t],
             at' = [at EXCEPT ![t] = "loop"],
             please_stop' = [please_stop EXCEPT ![t] = FALSE],
             stale' = stale \ {t}
      PROVE  Ownership'
  <2>1. \E k \in Index : Owned(t, k)'
    <3>1. PICK k \in Index : k = i
      BY <1>1
    <3>2. threads'[k] = t /\ \A j \in Index : threads'[j] = t => j = k
      BY <1>4, <3>1 DEF InSlot, TypeOK
    <3>3. Owned(t, k)'
      BY <1>1, <3>1, <3>2 DEF Owned, Index
    <3> QED
      BY <3>3
  <2>2. ASSUME NEW u \in Threads, u # t, Live(u)', u \notin stale'
        PROVE  \E k \in Index : Owned(u, k)'
    <3>1. PICK k \in Index : Owned(u, k)
      BY <1>4, <2>2 DEF WorkersOwnedSoFar, Live, TypeOK
    <3>2. Owned(u, k)'
      BY <1>2, <1>4, <2>2, <3>1
    <3> QED
      BY <3>2
  <2>3. WorkersOwnedSoFar'
    BY <2>1, <2>2 DEF WorkersOwnedSoFar
  <2>4. StaleAskedToStop'
    BY <1>4 DEF StaleAskedToStop, Live, TypeOK
  <2> QED
    BY <1>1, <2>3, <2>4 DEF OnlyStaleBetween, Between, AllAsked
<1> QED
  BY <1>3, <1>4 DEF StartWorker

(* Every worker is asked: one of this generation is in a slot the loop     *)
(* visits, a stale one has been asked before.                              *)
LEMMA AskToStopOwnership ==
  ASSUME TypeOK, Ownership, AskToStop
  PROVE  Ownership'
<1> USE DEF Ownership, AskToStop
<1>1. WorkersOwnedSoFar'
  <2> SUFFICES ASSUME NEW u \in Threads, Live(u)', u \notin stale'
               PROVE  \E k \in Index : Owned(u, k)'
    BY DEF WorkersOwnedSoFar
  <2>1. PICK k \in Index : Owned(u, k)
    BY DEF WorkersOwnedSoFar, Live
  <2>2. Owned(u, k)'
    BY <2>1 DEF Owned
  <2> QED
    BY <2>2
<1>2. \A u \in Threads : Live(u) => please_stop'[u]
  BY DEF WorkersOwnedSoFar, Owned, Visited, StaleAskedToStop
<1>3. StaleAskedToStop' /\ AllAsked'
  BY <1>2 DEF StaleAskedToStop, AllAsked, Live
<1> QED
  BY <1>1, <1>3 DEF OnlyStaleBetween, Between

(* Only the slot of a worker that is done is cleared.                      *)
LEMMA ReapWorkerOwnership ==
  ASSUME TypeOK, Ownership, ReapWorker
  PROVE  Ownership'
<1> USE DEF Ownership
<1>1. i \in Index
  BY DaemonAssumption DEF ReapWorker, TypeOK, Index
<1>2. \A u \in Threads : Live(u)' => Live(u)
  BY DEF ReapWorker, TypeOK, Live
<1>3. WorkersOwnedSoFar'
  <2> SUFFICES ASSUME NEW u \in Threads, Live(u)', u \notin stale'
               PROVE  \E k \in Index : Owned(u, k)'
    BY DEF WorkersOwnedSoFar
  <2>1. PICK k \in Index : Owned(u, k)
    BY <1>2 DEF WorkersOwnedSoFar, ReapWorker
  <2>2. CASE UNCHANGED threads
    BY <2>1, <2>2 DEF Owned, ReapWorker
  <2>3. CASE /\ threads[i] \in Threads /\ ~Live(threads[i])
             /\ threads' = [threads EXCEPT ![i] = NoThread]
    <3>1. k # i
      BY <1>2, <2>1, <2>3 DEF Owned
    <3>2. threads'[k] = u /\ \A j \in Index : threads'[j] = u => j = k
      BY <1>1, <2>1, <2>3, <3>1, DaemonAssumption DEF Owned, TypeOK
    <3>3. Owned(u, k)'
      BY <2>1, <3>2 DEF Owned, ReapWorker
    <3> QED
      BY <3>3
  <2> QED
    BY <2>2, <2>3 DEF ReapWorker
<1>4. StaleAskedToStop' /\ AllAsked'
  BY <1>2 DEF StaleAskedToStop, AllAsked, ReapWorker
<1> QED
  BY <1>3, <1>4 DEF OnlyStaleBetween, Between, ReapWorker

(* All that is left becomes stale, and all of it has been asked to stop.   *)
LEMMA EndGenerationOwnership ==
  ASSUME Ownership, EndGeneration
  PROVE  Ownership'
  BY DEF Ownership, EndGeneration, OnlyStaleBetween, WorkersOwnedSoFar,
         StaleAskedToStop, AllAsked, Between, Live

LEMMA ServiceOwnership ==
  ASSUME TypeOK, Ownership, Service
  PROVE  Ownership'
<1>1. CASE LoadKernel
  BY <1>1, LoadKernelOwnership
<1>2. CASE StartWorker
  BY <1>2, StartWorkerOwnership
<1>3. CASE AskToStop
  BY <1>3, AskToStopOwnership
<1>4. CASE ReapWorker
  BY <1>4, ReapWorkerOwnership
<1>5. CASE EndGeneration
  BY <1>5, EndGenerationOwnership
<1>6. CASE \/ ReloadSettings \/ DoPrecompiling \/ WorkersStarted
           \/ CheckTriggers \/ RestartCountdown \/ CollectTriggers
  <2>1. UNCHANGED <<i, num_threads, threads, at, please_stop, stale>>
    BY <1>6 DEF ReloadSettings, DoPrecompiling, WorkersStarted, CheckTriggers,
       RestartCountdown, CollectTriggers, workers
  <2>2. /\ pc' \in Between => pc \in Between
        /\ pc' \notin {"start", "reap"}
    BY <1>6 DEF ReloadSettings, DoPrecompiling, WorkersStarted, CheckTriggers,
       HandleSignals, RestartCountdown, CollectTriggers, Between
  <2> QED
    BY <2>1, <2>2, QuietStep DEF Live
<1> QED
  BY <1>1, <1>2, <1>3, <1>4, <1>5, <1>6 DEF Service

LEMMA NextOwnership == TypeOK /\ Ownership /\ [Next]_vars => Ownership'
<1> SUFFICES ASSUME TypeOK, Ownership, [Next]_vars
             PROVE  Ownership'
  OBVIOUS
<1>1. CASE Service
  BY <1>1, ServiceOwnership
<1>2. ASSUME NEW t \in Threads, Worker(t)
      PROVE  Ownership'
  BY <1>2, WorkerQuiet, QuietStep DEF service
<1>3. ASSUME NEW s \in Signals, Signal(s)
      PROVE  Ownership'
  BY <1>3, SignalQuiet, QuietStep DEF service
<1>4. CASE UNCHANGED vars
  BY <1>4, QuietStep DEF vars, service, workers, Live
<1> QED
  BY <1>1, <1>2, <1>3, <1>4 DEF Next, Exited

LEMMA OwnershipInvariant == Spec => [](TypeOK /\ Ownership)
<1>1. Init => TypeOK /\ Ownership
  BY InitTypeOK, InitOwnership
<1>2. TypeOK /\ Ownership /\ [Next]_vars => (TypeOK /\ Ownership)'
  BY NextTypeOK, NextOwnership
<1> QED
  BY <1>1, <1>2, PTL DEF Spec

-----------------------------------------------------------------------------
(***************************************************************************)
(* Theorems.                                                               *)
(***************************************************************************)

(* stop_worker_threads() can always reach every worker of the generation.  *)
THEOREM NoWorkerEscapes == Spec => []WorkersOwned
<1>1. Ownership => WorkersOwned
  BY DEF Ownership, WorkersOwnedSoFar, WorkersOwned, Owned
<1> QED
  BY <1>1, OwnershipInvariant, PTL

(* A worker that holds a dangling kernel has been told to stop.            *)
THEOREM StaleWorkersStop == Spec => []StaleAskedToStop
<1>1. Ownership => StaleAskedToStop
  BY DEF Ownership
<1> QED
  BY <1>1, OwnershipInvariant, PTL

(* No slot is lost with a worker of the present generation in it.          *)
THEOREM SlotsSafe == Spec => SlotsNotClobbered
<1> DEFINE Safe(k) ==
      threads[k] \in Threads /\ threads'[k] # threads[k] =>
        ~Live(threads[k]) \/ threads[k] \in stale
<1>1. TypeOK /\ Ownership /\ [Next]_vars => [\A k \in Index : Safe(k)]_vars
  <2> SUFFICES ASSUME TypeOK, Ownership, [Next]_vars, NEW k \in Index,
                      threads[k] \in Threads, threads'[k] # threads[k],
                      Live(threads[k]), threads[k] \notin stale
               PROVE  FALSE
    OBVIOUS
  <2>1. \A x : threads' = [threads EXCEPT ![i] = x] => k = i
    BY DEF TypeOK
  <2>2. CASE StartWorker
    <3>1. k = i
      BY <2>1, <2>2 DEF StartWorker
    <3>2. \E j \in Index : j < i /\ threads[j] = threads[k] /\ k = j
      BY <2>2 DEF Ownership, WorkersOwnedSoFar, Owned, StartWorker
    <3> QED
      BY <3>1, <3>2 DEF Index
  <2>3. CASE ReapWorker
    BY <2>1, <2>3 DEF ReapWorker
  <2>4. CASE Service /\ ~StartWorker /\ ~ReapWorker
    BY <2>4 DEF Service, ReloadSettings, DoPrecompiling, LoadKernel,
       WorkersStarted, CheckTriggers, RestartCountdown, CollectTriggers,
       AskToStop, EndGeneration
  <2>5. ASSUME NEW t \in Threads, Worker(t)
        PROVE  FALSE
    BY <2>5, WorkerQuiet DEF service
  <2>6. ASSUME NEW s \in Signals, Signal(s)
        PROVE  FALSE
    BY <2>6, SignalQuiet DEF service
  <2>7. CASE UNCHANGED vars
    BY <2>7 DEF vars, service
  <2> QED
    BY <2>2, <2>3, <2>4, <2>5, <2>6, <2>7 DEF Next, Exited
<1> QED
  BY <1>1, OwnershipInvariant, PTL DEF Spec, SlotsNotClobbered
=============================================================================
