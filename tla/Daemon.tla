------------------------------- MODULE Daemon -------------------------------
(***************************************************************************)
(* The filter daemon if2kd (libif2k/tool/if2kd.cpp and if2kd.h): the       *)
(* service thread, which reloads the settings, builds a kernel, starts the *)
(* worker threads and waits for a reason to restart or to stop; the        *)
(* workers, which accept connections and serve them with references to     *)
(* that kernel; and the signals and CGI requests that end a generation.    *)
(*                                                                         *)
(* One pass of main()'s do-while loop is called a generation.  The kernel  *)
(* is a local variable of the pass: it is destroyed when the pass ends,    *)
(* whether or not every worker has stopped.  A worker that outlives its    *)
(* generation is called stale; the reference it holds dangles, and since   *)
(* the next kernel is built in the same stack slot, what it writes there   *)
(* either reaches the new kernel or is lost.                               *)
(***************************************************************************)
EXTENDS Integers, FiniteSets

CONSTANTS
  Threads,      \* the threads the operating system can give the process
  MaxThreads,   \* IF2K_MAX_THREADS, the length of threads[]
  Sockets,      \* values "httpfilter.max.sockets" may be set to
  ReloadTimes,  \* values get_reload_time_in_seconds() may return
  NoThread,     \* a null pointer in threads[]
  Unstarted     \* in threads[]: an object whose pthread_create() failed

ASSUME DaemonAssumption ==
  /\ MaxThreads \in Nat \ {0}
  /\ Sockets \subseteq Int
  /\ ReloadTimes \subseteq Nat
  /\ NoThread \notin Threads
  /\ Unstarted \notin Threads
  /\ NoThread # Unstarted

VARIABLES
  pc,                       \* where the service thread is in main()
  i,                        \* loop index of the start and stop loops
  threads_started,          \* start_worker_threads()'s count
  num_threads,              \* size of the generation
  threads,                  \* threads[], indexed from 0
  reload_time,              \* seconds until a restart by itself, 0 = never
  is_restart_triggered,     \* the service thread's copies of the kernel's
  is_precompile_triggered,  \*   flags, read when the generation ends
  kernel,                   \* the kernel of this generation
  settings,                 \* the merged settings in memory
  disk,                     \* the settings files
  saw,                      \* signals whose jdk_fork_server_saw_* flag is set
  at,                       \* where each worker is
  please_stop,              \* jdk_thread::please_stop of each worker
  stale                     \* workers whose kernel has been destroyed

service == <<pc, i, threads_started, num_threads, threads, reload_time,
             is_restart_triggered, is_precompile_triggered>>
workers == <<at, please_stop, stale>>
vars == <<service, kernel, settings, disk, saw, workers>>

Index    == 0 .. MaxThreads - 1
Signals  == {"HUP", "TERM", "ALRM"}
Settings == [sockets : Sockets, reload : ReloadTimes]

Live(t) == at[t] \in {"loop", "select", "connection"}
InSlot(t) == \E k \in Index : threads[k] = t

(* The kernel while no generation exists.                                  *)
NoKernel == [alive |-> FALSE, restart_triggered |-> FALSE,
             precompile_triggered |-> FALSE]

Init ==
  /\ pc = "reload"
  /\ i = 0
  /\ threads_started = 0
  /\ num_threads = 0
  /\ threads = [k \in Index |-> NoThread]
  /\ reload_time = 0
  /\ is_restart_triggered = FALSE
  /\ is_precompile_triggered = FALSE
  /\ kernel = NoKernel
  /\ disk \in Settings
  /\ settings = disk
  /\ saw = {}
  /\ at = [t \in Threads |-> "free"]
  /\ please_stop = [t \in Threads |-> FALSE]
  /\ stale = {}

-----------------------------------------------------------------------------
(***************************************************************************)
(* The service thread: if2k_mini_service_thread::main().                   *)
(***************************************************************************)

(* Mutant: the files are read once, when the daemon starts.                *)
BugSettingsKept ==
  /\ pc = "reload"
  /\ is_restart_triggered' = FALSE
  /\ pc' = "precompile"
  /\ UNCHANGED <<i, threads_started, num_threads, threads, reload_time,
                 is_precompile_triggered, kernel, settings, disk, saw, workers>>

(* settings_collection.reload() reads the files over the defaults.         *)
ReloadSettings ==
  /\ pc = "reload"
  /\ is_restart_triggered' = FALSE
  /\ settings' = disk
  /\ pc' = "precompile"
  /\ UNCHANGED <<i, threads_started, num_threads, threads, reload_time,
                 is_precompile_triggered, kernel, disk, saw, workers>>

(* do_precompiling(): recompile the databases if the last generation was   *)
(* asked to.                                                               *)
DoPrecompiling ==
  /\ pc = "precompile"
  /\ is_precompile_triggered' = FALSE
  /\ pc' = "load"
  /\ UNCHANGED <<i, threads_started, num_threads, threads, reload_time,
                 is_restart_triggered, kernel, settings, disk, saw, workers>>

(* Mutant: the size is not limited to the length of threads[].             *)
BugNoCap(sockets) == IF sockets = 0 THEN 1 ELSE sockets

(* The size start_worker_threads() gives the generation.                   *)
NumThreads(sockets) ==
  LET capped == IF sockets > MaxThreads THEN MaxThreads ELSE sockets
  IN  IF capped = 0 THEN 1 ELSE capped

(* Construct and load() the kernel, which clears both of its triggers, and *)
(* enter start_worker_threads().                                           *)
LoadKernel ==
  /\ pc = "load"
  /\ kernel' = [NoKernel EXCEPT !.alive = TRUE]
  /\ num_threads' = NumThreads(settings.sockets)
  /\ i' = 0
  /\ threads_started' = 0
  /\ pc' = "start"
  /\ UNCHANGED <<threads, reload_time, is_restart_triggered,
                 is_precompile_triggered, settings, disk, saw, workers>>

(* What jdk_thread::run() returns for pthread_create()'s result: that is 0 *)
(* or a positive error number, and run() tests for a negative one.         *)
EAGAIN == 11
RunReturns(ret) == ~(ret < 0)

(* The slot is overwritten whatever it held before.                        *)
StartWorker ==
  /\ pc = "start"
  /\ i < num_threads
  /\ \/ \E t \in Threads :
          /\ ~Live(t)
          /\ ~InSlot(t)
          /\ threads' = [threads EXCEPT ![i] = t]
          /\ at' = [at EXCEPT ![t] = "loop"]
          /\ please_stop' = [please_stop EXCEPT ![t] = FALSE]
          /\ stale' = stale \ {t}
          /\ threads_started' = threads_started + (IF RunReturns(0) THEN 1 ELSE 0)
     \/ /\ threads' = [threads EXCEPT ![i] = Unstarted]
        /\ threads_started' = threads_started + (IF RunReturns(EAGAIN) THEN 1 ELSE 0)
        /\ UNCHANGED workers
  /\ i' = i + 1
  /\ UNCHANGED <<pc, num_threads, reload_time, is_restart_triggered,
                 is_precompile_triggered, kernel, settings, disk, saw>>

(* Mutant: the generation is cut to the number of threads that exist.      *)
BugCountIsSize ==
  /\ pc = "start"
  /\ i >= num_threads
  /\ num_threads' = Cardinality({k \in Index : k < i /\ threads[k] # Unstarted})
  /\ IF threads_started = num_threads
     THEN pc' = "check" /\ reload_time' = settings.reload
     ELSE pc' = "collect" /\ UNCHANGED reload_time
  /\ UNCHANGED <<i, threads_started, threads, is_restart_triggered,
                 is_precompile_triggered, kernel, settings, disk, saw, workers>>

(* start_worker_threads() returns.  On failure main() skips the wait.      *)
WorkersStarted ==
  /\ pc = "start"
  /\ i >= num_threads
  /\ IF threads_started = num_threads
     THEN pc' = "check" /\ reload_time' = settings.reload
     ELSE pc' = "collect" /\ UNCHANGED reload_time
  /\ UNCHANGED <<i, threads_started, num_threads, threads,
                 is_restart_triggered, is_precompile_triggered,
                 kernel, settings, disk, saw, workers>>

(* Mutant: one of the two signals that end the daemon is not looked at.    *)
BugNoTerm == "ALRM" \in saw

(* handle_signals(): the flags are read and left as they are.              *)
StopRequested == saw \cap {"TERM", "ALRM"} # {}
HandleSignals ==
  /\ kernel' = [kernel EXCEPT !.restart_triggered = @ \/ "HUP" \in saw]
  /\ pc' = IF StopRequested THEN "collect" ELSE "sleep"

(* The condition of the inner while loop.                                  *)
CheckTriggers ==
  /\ pc = "check"
  /\ IF kernel.restart_triggered
     THEN pc' = "collect" /\ UNCHANGED kernel
     ELSE HandleSignals
  /\ UNCHANGED <<i, threads_started, num_threads, threads, reload_time,
                 is_restart_triggered, is_precompile_triggered,
                 settings, disk, saw, workers>>

(* sleep(1) has passed: do_restart_countdown().                            *)
RestartCountdown ==
  /\ pc = "sleep"
  /\ reload_time' = IF reload_time = 0 THEN 0 ELSE reload_time - 1
  /\ kernel' = [kernel EXCEPT !.restart_triggered = @ \/ reload_time = 1]
  /\ pc' = "check"
  /\ UNCHANGED <<i, threads_started, num_threads, threads,
                 is_restart_triggered, is_precompile_triggered,
                 settings, disk, saw, workers>>

(* Mutant: a restart hides a precompile that was asked for with it.        *)
BugRestartElsePrecompile ==
  /\ pc = "collect"
  /\ is_restart_triggered' = kernel.restart_triggered
  /\ is_precompile_triggered' = (kernel.precompile_triggered /\ ~kernel.restart_triggered)
  /\ pc' = "ask"
  /\ UNCHANGED <<i, threads_started, num_threads, threads, reload_time,
                 kernel, settings, disk, saw, workers>>

(* The generation ends: the kernel's triggers are read, once.              *)
CollectTriggers ==
  /\ pc = "collect"
  /\ is_restart_triggered' = kernel.restart_triggered
  /\ is_precompile_triggered' = kernel.precompile_triggered
  /\ pc' = "ask"
  /\ UNCHANGED <<i, threads_started, num_threads, threads, reload_time,
                 kernel, settings, disk, saw, workers>>

(* Mutant: the last slot is not visited.                                   *)
BugLastSlotMissed ==
  {t \in Threads : \E k \in Index : k < num_threads - 1 /\ threads[k] = t}

(* The workers in the slots that stop_worker_threads() visits.             *)
Visited == {t \in Threads : \E k \in Index : k < num_threads /\ threads[k] = t}

(* Mutant: the second loop starts where the last loop left the index.      *)
BugIndexKept ==
  /\ pc = "ask"
  /\ please_stop' = [t \in Threads |-> please_stop[t] \/ t \in Visited]
  /\ pc' = "reap"
  /\ UNCHANGED <<i, threads_started, num_threads, threads, reload_time,
                 is_restart_triggered, is_precompile_triggered,
                 kernel, settings, disk, saw, at, stale>>

(* First loop of stop_worker_threads().                                    *)
AskToStop ==
  /\ pc = "ask"
  /\ please_stop' = [t \in Threads |-> please_stop[t] \/ t \in Visited]
  /\ i' = 0
  /\ pc' = "reap"
  /\ UNCHANGED <<threads_started, num_threads, threads, reload_time,
                 is_restart_triggered, is_precompile_triggered,
                 kernel, settings, disk, saw, at, stale>>

(* Mutant: the worker is deleted without asking thread_isdone().           *)
BugReapLive ==
  /\ pc = "reap"
  /\ i < num_threads
  /\ threads' = [threads EXCEPT ![i] = NoThread]
  /\ i' = i + 1
  /\ UNCHANGED <<pc, threads_started, num_threads, reload_time,
                 is_restart_triggered, is_precompile_triggered, kernel,
                 settings, disk, saw, workers>>

(* Second loop, after sleep(2): delete a worker that is done; one that is  *)
(* not stays in its slot.  An object that never ran is never done.         *)
ReapWorker ==
  /\ pc = "reap"
  /\ i < num_threads
  /\ IF threads[i] \in Threads /\ ~Live(threads[i])
     THEN /\ threads' = [threads EXCEPT ![i] = NoThread]
          /\ at' = [at EXCEPT ![threads[i]] = "free"]
     ELSE UNCHANGED <<threads, at>>
  /\ i' = i + 1
  /\ UNCHANGED <<pc, threads_started, num_threads, reload_time,
                 is_restart_triggered, is_precompile_triggered, kernel,
                 settings, disk, saw, please_stop, stale>>

(* stop_worker_threads() returns true whatever it counted, so              *)
(* finish_worker_threads() neither retries nor kills; the pass ends, the   *)
(* kernel is destroyed under the workers that are left, and main() loops   *)
(* or closes the socket and lets the process end.                          *)
EndGeneration ==
  /\ pc = "reap"
  /\ i >= num_threads
  /\ kernel' = NoKernel
  /\ stale' = {t \in Threads : Live(t)}
  /\ pc' = IF is_restart_triggered THEN "reload" ELSE "exited"
  /\ UNCHANGED <<i, threads_started, num_threads, threads, reload_time,
                 is_restart_triggered, is_precompile_triggered,
                 settings, disk, saw, at, please_stop>>

Service ==
  \/ ReloadSettings \/ DoPrecompiling \/ LoadKernel
  \/ StartWorker \/ WorkersStarted
  \/ CheckTriggers \/ RestartCountdown \/ CollectTriggers
  \/ AskToStop \/ ReapWorker \/ EndGeneration

-----------------------------------------------------------------------------
(***************************************************************************)
(* A worker: if2k_server_thread::main().                                   *)
(***************************************************************************)

Goes(t, from, to) ==
  /\ pc # "exited"
  /\ at[t] = from
  /\ at' = [at EXCEPT ![t] = to]
  /\ UNCHANGED <<service, saw, please_stop, stale>>

(* while( !please_stop )                                                   *)
CheckStop(t) ==
  /\ Goes(t, "loop", IF please_stop[t] THEN "done" ELSE "select")
  /\ UNCHANGED <<kernel, settings, disk>>

(* select() timed out, or another worker's accept() was faster.            *)
NothingToAccept(t) ==
  /\ Goes(t, "select", "loop")
  /\ UNCHANGED <<kernel, settings, disk>>

(* select() fails, for want of memory say: the worker leaves its loop.     *)
SelectFails(t) ==
  /\ Goes(t, "select", "done")
  /\ UNCHANGED <<kernel, settings, disk>>

Accept(t) ==
  /\ Goes(t, "select", "connection")
  /\ UNCHANGED <<kernel, settings, disk>>

(* The connection ends after one request that leaves the daemon as it is.  *)
ServeRequest(t) ==
  /\ Goes(t, "connection", "loop")
  /\ UNCHANGED <<kernel, settings, disk>>

(* POST /cgi/settings.cgi writes a settings file, and only the file.       *)
PostSettings(t) ==
  /\ Goes(t, "connection", "loop")
  /\ \/ \E n \in Sockets : disk' = [disk EXCEPT !.sockets = n]
     \/ \E n \in ReloadTimes : disk' = [disk EXCEPT !.reload = n]
  /\ UNCHANGED <<kernel, settings>>

(* A worker sets a flag of the kernel it holds; a stale one may hit the    *)
(* kernel that now lives at that address, or nothing at all.               *)
Trigger(t, changed) ==
  \/ kernel' = IF kernel.alive THEN changed ELSE kernel
  \/ t \in stale /\ kernel' = kernel

GetRestart(t) ==
  /\ Goes(t, "connection", "loop")
  /\ Trigger(t, [kernel EXCEPT !.restart_triggered = TRUE])
  /\ UNCHANGED <<settings, disk>>

GetPrecompile(t) ==
  /\ Goes(t, "connection", "loop")
  /\ Trigger(t, [kernel EXCEPT !.precompile_triggered = TRUE])
  /\ UNCHANGED <<settings, disk>>

Worker(t) ==
  \/ CheckStop(t) \/ NothingToAccept(t) \/ SelectFails(t) \/ Accept(t)
  \/ ServeRequest(t) \/ PostSettings(t) \/ GetRestart(t) \/ GetPrecompile(t)

-----------------------------------------------------------------------------
(* A signal sets its flag for good.  The calls it interrupts are made      *)
(* again (JDK_LOOP_CONDITION1), so nobody else notices.                    *)
Signal(s) ==
  /\ pc # "exited"
  /\ saw' = saw \cup {s}
  /\ UNCHANGED <<service, kernel, settings, disk, workers>>

Exited == pc = "exited" /\ UNCHANGED vars

Next ==
  \/ Service
  \/ \E t \in Threads : Worker(t)
  \/ \E s \in Signals : Signal(s)
  \/ Exited

Spec == Init /\ [][Next]_vars

(* Only the service thread is relied on to run: it never waits for anyone  *)
(* but the clock.  A worker may be held by its client for ever, and nobody *)
(* has to send a signal.                                                   *)
FairSpec == Spec /\ WF_vars(Service)

-----------------------------------------------------------------------------
(***************************************************************************)
(* Properties.                                                             *)
(***************************************************************************)

(* The values every variable keeps: the daemon's counters, slots and flags *)
(* and the places a worker can be in.                                      *)
TypeOK ==
  /\ pc \in {"reload", "precompile", "load", "start", "check", "sleep",
             "collect", "ask", "reap", "exited"}
  /\ i \in Nat
  /\ threads_started \in Nat
  /\ num_threads \in Int /\ num_threads <= MaxThreads
  /\ threads \in [Index -> Threads \cup {NoThread, Unstarted}]
  /\ reload_time \in Nat
  /\ is_restart_triggered \in BOOLEAN
  /\ is_precompile_triggered \in BOOLEAN
  /\ kernel \in [alive : BOOLEAN, restart_triggered : BOOLEAN,
                 precompile_triggered : BOOLEAN]
  /\ settings \in Settings
  /\ disk \in Settings
  /\ saw \subseteq Signals
  /\ at \in [Threads -> {"free", "loop", "select", "connection", "done"}]
  /\ please_stop \in [Threads -> BOOLEAN]
  /\ stale \subseteq Threads

(* A worker of the present generation is never out of the service thread's *)
(* reach: it is in a slot that stop_worker_threads() visits, and in one    *)
(* only, whatever older workers were left in threads[] before it.          *)
WorkersOwned ==
  \A t \in Threads : Live(t) /\ t \notin stale =>
    \E k \in Index : /\ k < num_threads
                     /\ threads[k] = t
                     /\ \A j \in Index : threads[j] = t => j = k

(* A worker that has outlived its kernel has been told to stop, so the     *)
(* dangling reference is used for the connection in hand and not for ever. *)
StaleAskedToStop ==
  \A t \in Threads : Live(t) /\ t \in stale => please_stop[t]

(* A slot of threads[] is cleared or overwritten only when the worker in   *)
(* it is finished or already written off as stale.                         *)
SlotsNotClobbered ==
  [][\A k \in Index :
       threads[k] \in Threads /\ threads'[k] # threads[k] =>
         ~Live(threads[k]) \/ threads[k] \in stale]_vars

(* The service thread is in the loop that waits for a trigger.             *)
Waiting == pc \in {"check", "sleep"}

(* Settings on disk when a restart is requested from a running daemon are  *)
(* in force after it, unless somebody writes them again in the meantime.   *)
RestartLoadsSettings ==
  \A s \in Settings :
    (Waiting /\ kernel.restart_triggered /\ disk = s)
      ~> (disk # s \/ (pc = "start" /\ settings = s))

(* A precompile requested before the restart is carried out by it: the     *)
(* request survives the end of the kernel it was made to.                  *)
PrecompileRuns ==
  (Waiting /\ kernel.restart_triggered /\ kernel.precompile_triggered)
    ~> (pc = "precompile" /\ is_precompile_triggered)

(* A worker that left its loop before a restart was asked for is deleted   *)
(* by the restart, which gives its place to a new one.                     *)
FinishedWorkerReaped ==
  \A t \in Threads :
    (Waiting /\ kernel.restart_triggered /\ at[t] = "done" /\ t \in Visited)
      ~> at[t] = "free"

(* SIGTERM and SIGALRM end a daemon that has not been sent SIGHUP and that *)
(* clients stop restarting.                                                *)
NoMoreRestarts == <>[][\A t \in Threads : ~GetRestart(t)]_vars
TermExits ==
  []("HUP" \notin saw) /\ NoMoreRestarts =>
    (saw \cap {"TERM", "ALRM"} # {} ~> pc = "exited")

-----------------------------------------------------------------------------
(***************************************************************************)
(* What the documentation and the comments say, and the code does not do.  *)
(***************************************************************************)

(* SIGTERM requests the daemon's exit.                                     *)
TermRequestsExit == NoMoreRestarts => ("TERM" \in saw ~> pc = "exited")
=============================================================================
