----------------------------- MODULE ForkServer -----------------------------
(***************************************************************************)
(* The pre-forking servers of libjdk (jdk_fork_server.cpp): one parent     *)
(* process runs jdk_fork_server_run_list(), keeps NumForks[s] children     *)
(* alive for every server s, and replaces those that end.                  *)
(*                                                                         *)
(* The parent has one thread, and its SIGCHLD handler interrupts it        *)
(* between any two of its steps.  Between them are four tables:            *)
(*    children_ids[s]   the children that server s believes it has         *)
(*    children_died[s]  a ring the handler writes and the parent empties   *)
(*    the registry      fork_child_pids/fork_servers, shared by all the    *)
(*                      servers, where the handler looks a process up      *)
(* A number in any of them may be that of a process long gone, and the     *)
(* system may give it to a new child.                                      *)
(*                                                                         *)
(* Ended and reaped are one step: nobody can tell an ended process from a  *)
(* living one before the handler has waited for it.                        *)
(***************************************************************************)
EXTENDS Integers, FiniteSets

CONSTANTS
  NumServers,   \* servers_count
  NumForks,     \* num_forks of each, already cut down by prep_this()
  MaxChild,     \* JDK_FORK_SERVER_MAX_CHILD, the size of every table
  Pids,         \* process numbers the system hands out
  NoPid,        \* 0, "no process"
  MaxHups,      \* bound: SIGHUPs sent to the parent
  MaxDeaths,    \* bound: children that end unasked while the parent runs
  MaxFailures   \* bound: forks that fail

Place == 0 .. MaxChild - 1
Servers == 1 .. NumServers   \* in the order of servers[]

ASSUME ForkServerAssumption ==
  /\ MaxChild \in Nat /\ MaxChild > 1
  /\ NumServers \in Nat /\ NumServers > 0
  /\ NumForks \in [Servers -> 1 .. MaxChild - 1]
  /\ NoPid \notin Pids
  /\ MaxHups \in Nat /\ MaxDeaths \in Nat /\ MaxFailures \in Nat

VARIABLES
  pc,            \* where the parent stands
  phase,         \* the loop over the servers it is in
  cur,           \* the server that loop has reached
  n,             \* i of start() and of restart_dead_children()
  pid,           \* the process number the parent has in hand
  stopping,      \* per server: stop() was called, and nothing since
  children_ids, children_died, children_died_count,
  registry,      \* fork_child_pids and fork_servers, place by place
  saw_sighup, saw_sigterm,                  \* the parent's flags
  child,         \* the living children, by process number
  hups, deaths, failures                    \* the bounds' counters

tables == <<stopping, children_ids, children_died, children_died_count, registry>>
control == <<pc, phase, cur, n, pid>>
flags == <<saw_sighup, saw_sigterm, hups>>
vars == <<control, tables, flags, child, deaths, failures>>

\* A child is "new" until run() begins, "serving" in its loop, and "busy" in
\* accept() or handle_connection().  Its saw_sigterm is "seen" when it is set, and
\* "lost" when it was set and the child has reset it since.
None == [server |-> 0, stage |-> "none", sigterm |-> "none"]
NoEntry == [pid |-> NoPid, server |-> 0]

Living == {p \in Pids : child[p] # None}
LivingOf(s) == {p \in Pids : child[p].server = s}
Ended == pc = "ended"

TypeOK ==
  /\ pc \in {"fork", "place", "register", "next", "sleep", "hup", "term", "stop",
             "restart", "look", "clear", "ended"}
  /\ phase \in {"start", "restart", "hup", "term", "last", "destroy", "kill"}
  /\ cur \in Servers /\ n \in Place /\ pid \in Pids \cup {NoPid}
  /\ pc \in {"place", "register", "clear"} => pid # NoPid
  /\ stopping \in [Servers -> BOOLEAN]
  /\ children_ids \in [Servers -> [Place -> Pids \cup {NoPid}]]
  /\ children_died \in [Servers -> [Place -> Pids \cup {NoPid}]]
  /\ children_died_count \in [Servers -> Place]
  /\ registry \in [Place -> [pid : Pids, server : Servers] \cup {NoEntry}]
  /\ saw_sighup \in BOOLEAN /\ saw_sigterm \in BOOLEAN
  /\ child \in [Pids -> [server : Servers, stage : {"new", "serving", "busy"},
                         sigterm : {"none", "seen", "lost"}] \cup {None}]
  /\ hups \in 0 .. MaxHups /\ deaths \in 0 .. MaxDeaths
  /\ failures \in 0 .. MaxFailures

Init ==
  /\ pc = "fork" /\ phase = "start" /\ cur = 1 /\ n = 0 /\ pid = NoPid
  /\ stopping = [s \in Servers |-> FALSE]
  /\ children_ids = [s \in Servers |-> [k \in Place |-> NoPid]]
  /\ children_died = [s \in Servers |-> [k \in Place |-> NoPid]]
  /\ children_died_count = [s \in Servers |-> 0]
  /\ registry = [k \in Place |-> NoEntry]
  /\ saw_sighup = FALSE /\ saw_sigterm = FALSE
  /\ child = [p \in Pids |-> None]
  /\ hups = 0 /\ deaths = 0 /\ failures = 0

-----------------------------------------------------------------------------
(* The loops over the servers.                                             *)

Last == cur + 1 \notin Servers

\* On to the next server of the loop, at `where', or after the last to `after'.
NextServer(where, after) ==
  /\ n' = 0
  /\ IF Last THEN cur' = 1 /\ pc' = after
             ELSE cur' = cur + 1 /\ pc' = where

Sleep ==
  /\ pc = "sleep"
  /\ pc' = "hup"
  /\ UNCHANGED <<phase, cur, n, pid, tables, flags, child, deaths, failures>>

\* if( jdk_fork_server_saw_sighup ): reload, then stop every server.
CheckHup ==
  /\ pc = "hup"
  /\ saw_sighup' = FALSE
  /\ IF saw_sighup THEN pc' = "stop" /\ phase' = "hup"
                   ELSE pc' = "term" /\ UNCHANGED phase
  /\ UNCHANGED <<cur, n, pid, tables, saw_sigterm, hups, child, deaths, failures>>

\* if( jdk_fork_server_saw_sigterm ): stop every server and leave the loop.
CheckTerm ==
  /\ pc = "term"
  /\ IF saw_sigterm THEN pc' = "stop" /\ phase' = "term"
                    ELSE pc' = "restart" /\ phase' = "restart"
  /\ UNCHANGED <<cur, n, pid, tables, flags, child, deaths, failures>>

\* The numbers that stop() signals, whoever has them now.  It sends SIGTERM
\* whatever it is given.
Signalled(s) == {children_ids[s][k] : k \in Place} \ {NoPid}

\* Mutant: SIGTERM stops the servers, and the loop goes on.
BugGoesOn == CASE phase = "hup" -> <<"term", "hup">>
               [] OTHER -> <<"restart", "restart">>

AfterStop == CASE phase = "hup" -> <<"term", "hup">>
               [] phase = "term" -> <<"stop", "last">>
               [] phase = "last" -> <<"stop", "destroy">>
               [] phase = "destroy" -> <<"stop", "kill">>
               [] OTHER -> <<"ended", "kill">>

\* stop(): after SIGHUP, after SIGTERM, once more when the loop is left, and
\* twice by the destructor, since nobody clears children_ids any more.
Stop ==
  /\ pc = "stop"
  /\ stopping' = [stopping EXCEPT ![cur] = TRUE]
  /\ child' = [p \in Pids |-> IF p \in Signalled(cur) \cap Living
                              THEN [child[p] EXCEPT !.sigterm = "seen"] ELSE child[p]]
  /\ NextServer("stop", AfterStop[1])
  /\ phase' = IF Last THEN AfterStop[2] ELSE phase
  /\ UNCHANGED <<pid, children_ids, children_died, children_died_count, registry,
                 flags, deaths, failures>>

-----------------------------------------------------------------------------
(* restart_dead_children()                                                 *)

\* Mutant: the ring is emptied before it is read.
BugRingEmptied ==
  /\ pc = "restart"
  /\ stopping' = [stopping EXCEPT ![cur] = FALSE]
  /\ children_died' = [children_died EXCEPT ![cur] = [k \in Place |-> NoPid]]
  /\ pc' = "look"
  /\ UNCHANGED <<phase, cur, n, pid, children_ids, children_died_count,
                 registry, flags, child, deaths, failures>>

Restart ==
  /\ pc = "restart"
  /\ stopping' = [stopping EXCEPT ![cur] = FALSE]
  /\ pc' = "look"
  /\ UNCHANGED <<phase, cur, n, pid, children_ids, children_died, children_died_count,
                 registry, flags, child, deaths, failures>>

\* int pid = children_died[i]
Look ==
  /\ pc = "look"
  /\ IF children_died[cur][n] = NoPid
     THEN pc' = "next" /\ UNCHANGED pid
     ELSE pc' = "clear" /\ pid' = children_died[cur][n]
  /\ UNCHANGED <<phase, cur, n, tables, flags, child, deaths, failures>>

\* Mutant: the number is not taken out of children_ids.
BugIdKept(t, p) == t

\* The loop over children_ids clears one place that holds p, if there is one.
Cleared(t, p) ==
  IF \E k \in Place : t[k] = p
  THEN [t EXCEPT ![CHOOSE k \in Place : t[k] = p] = NoPid]
  ELSE t

\* Mutant: the death stays in the ring.
BugDeathKept ==
  /\ pc = "clear"
  /\ children_ids' = [children_ids EXCEPT ![cur] = Cleared(@, pid)]
  /\ pc' = "fork" /\ pid' = NoPid
  /\ UNCHANGED <<phase, cur, n, stopping, children_died, children_died_count, registry,
                 flags, child, deaths, failures>>

Clear ==
  /\ pc = "clear"
  /\ children_died' = [children_died EXCEPT ![cur][n] = NoPid]
  /\ children_ids' = [children_ids EXCEPT ![cur] = Cleared(@, pid)]
  /\ pc' = "fork" /\ pid' = NoPid
  /\ UNCHANGED <<phase, cur, n, stopping, children_died_count, registry, flags,
                 child, deaths, failures>>

\* Mutant: the last place of the ring is not looked at.
BugLastPlace == n + 2 \notin Place

LastPlace == n + 1 \notin Place

\* To the next place of the ring, or the next child that start() owes.
NextChild ==
  /\ pc = "next"
  /\ IF phase = "restart"
     THEN IF LastPlace THEN NextServer("restart", "sleep")
                       ELSE n' = n + 1 /\ pc' = "look" /\ UNCHANGED cur
     ELSE IF n + 1 < NumForks[cur] THEN n' = n + 1 /\ pc' = "fork" /\ UNCHANGED cur
                                   ELSE NextServer("fork", "sleep")
  /\ UNCHANGED <<phase, pid, tables, flags, child, deaths, failures>>

-----------------------------------------------------------------------------
(* start_one_child(), called by start() and by restart_dead_children()     *)

\* fork(); the number may be one that some table still holds.
ForkChild ==
  /\ pc = "fork"
  /\ stopping' = [stopping EXCEPT ![cur] = FALSE]
  /\ \E p \in Pids \ Living :
       /\ child' = [child EXCEPT ![p] = [server |-> cur, stage |-> "new", sigterm |-> "none"]]
       /\ pid' = p
  /\ pc' = "place"
  /\ UNCHANGED <<phase, cur, n, children_ids, children_died, children_died_count,
                 registry, flags, deaths, failures>>

\* fork() fails: both callers give up this server, and run_list() goes on.
ForkFails ==
  /\ pc = "fork" /\ failures < MaxFailures
  /\ failures' = failures + 1
  /\ stopping' = [stopping EXCEPT ![cur] = FALSE]
  /\ NextServer(IF phase = "start" THEN "fork" ELSE "restart", "sleep")
  /\ pid' = NoPid
  /\ UNCHANGED <<phase, children_ids, children_died, children_died_count,
                 registry, flags, child, deaths>>

\* The searches for a free place begin at the last place used and go round until
\* they find one.  Which place it is makes no difference, so take the first.
EnterId ==
  /\ pc = "place"
  /\ \E k \in Place :
       /\ children_ids[cur][k] = NoPid
       /\ \A j \in 0 .. k - 1 : children_ids[cur][j] # NoPid
       /\ children_ids' = [children_ids EXCEPT ![cur][k] = pid]
  /\ pc' = "register"
  /\ UNCHANGED <<phase, cur, n, pid, stopping, children_died, children_died_count,
                 registry, flags, child, deaths, failures>>

\* jdk_fork_register_child()
Register ==
  /\ pc = "register"
  /\ \E k \in Place :
       /\ registry[k] = NoEntry
       /\ \A j \in 0 .. k - 1 : registry[j] # NoEntry
       /\ registry' = [registry EXCEPT ![k] = [pid |-> pid, server |-> cur]]
  /\ pc' = "next" /\ pid' = NoPid
  /\ UNCHANGED <<phase, cur, n, stopping, children_ids, children_died,
                 children_died_count, flags, child, deaths, failures>>

-----------------------------------------------------------------------------
(* Signals to the parent                                                   *)

SigHup ==
  /\ ~Ended /\ hups < MaxHups
  /\ saw_sighup' = TRUE /\ hups' = hups + 1
  /\ UNCHANGED <<control, tables, saw_sigterm, child, deaths, failures>>

SigTerm ==
  /\ ~Ended /\ ~saw_sigterm
  /\ saw_sigterm' = TRUE
  /\ UNCHANGED <<control, tables, saw_sighup, hups, child, deaths, failures>>

\* Mutant: the index of the ring runs on.
BugNoWrap(c) == c + 1

NextPlace(c) == IF c + 1 = MaxChild THEN 0 ELSE c + 1

\* notify_sig_chld(): the death is written into the ring, unless stopping.
Notify(s, p) ==
  IF stopping[s]
  THEN UNCHANGED <<children_died, children_died_count>>
  ELSE /\ children_died' = [children_died EXCEPT ![s][children_died_count[s]] = p]
       /\ children_died_count' = [children_died_count EXCEPT ![s] = NextPlace(@)]

\* Mutant: the entry of a child that ended stays in the registry.
BugEntryKept(k) == registry

Without(k) == [registry EXCEPT ![k] = NoEntry]

\* sig_chld() when p has ended.  It takes a place of the registry that holds p,
\* and if there is none nobody hears of it.
SigChld(p) ==
  \/ \E k \in Place :
       /\ registry[k].pid = p
       /\ Notify(registry[k].server, p)
       /\ registry' = Without(k)
  \/ /\ \A k \in Place : registry[k].pid # p
     /\ UNCHANGED <<registry, children_died, children_died_count>>

-----------------------------------------------------------------------------
(* The children                                                            *)

Asked(p) == child[p].sigterm = "seen"

\* After fork() the child resets the flags it inherited: a SIGTERM that came
\* before is forgotten.  Then run() begins.
ChildStart(p) ==
  /\ child[p].stage = "new"
  /\ child' = [child EXCEPT ![p].stage = "serving",
                            ![p].sigterm = IF Asked(p) THEN "lost" ELSE @]
  /\ UNCHANGED <<control, tables, flags, deaths, failures>>

\* select() found the server's socket readable; it may have done so before the
\* signal that came since.
ChildAccepts(p) ==
  /\ child[p].stage = "serving"
  /\ child' = [child EXCEPT ![p].stage = "busy"]
  /\ UNCHANGED <<control, tables, flags, deaths, failures>>

\* The connection is over, or another child took it; and no flag is set when the
\* loop comes round.
ChildReturns(p) ==
  /\ child[p].stage = "busy" /\ ~Asked(p)
  /\ child' = [child EXCEPT ![p].stage = "serving"]
  /\ UNCHANGED <<control, tables, flags, deaths, failures>>

\* run() returns: asked to, its requests or its time used up, select() failed,
\* or the handler of a connection said so.
ChildEnds(p) ==
  /\ child[p].stage \in {"serving", "busy"}
  /\ IF Asked(p) \/ Ended THEN UNCHANGED deaths
     ELSE deaths < MaxDeaths /\ deaths' = deaths + 1
  /\ child' = [child EXCEPT ![p] = None]
  /\ IF Ended THEN UNCHANGED <<registry, children_died, children_died_count>>
              ELSE SigChld(p)
  /\ UNCHANGED <<control, stopping, children_ids, flags, failures>>

-----------------------------------------------------------------------------
Parent == Sleep \/ CheckHup \/ CheckTerm \/ Stop \/ Restart \/ Look \/ Clear
            \/ NextChild \/ ForkChild \/ ForkFails \/ EnterId \/ Register

ChildMoves(p) == ChildStart(p) \/ ChildAccepts(p) \/ ChildReturns(p)

Next == \/ Parent \/ SigHup \/ SigTerm
        \/ \E p \in Pids : ChildMoves(p) \/ ChildEnds(p)

\* The child is in its loop, where select() waits for a second at most, and the
\* flag is set: it sees it at the loop's head, or is off to accept() first.
ChildObeys(p) == child[p].stage = "serving" /\ Asked(p) /\ ChildEnds(p)

\* The parent's loop never waits for more than a second.  A child begins, and one
\* that has been asked to end does so from its loop.  Nothing brings it back from
\* accept() or from its connection, and nothing ends a child that was not asked:
\* max_child_time may be 0, which sets no alarm.
Fairness == /\ WF_vars(Parent)
            /\ \A p \in Pids : WF_vars(ChildStart(p)) /\ WF_vars(ChildObeys(p))

Spec == Init /\ [][Next]_vars /\ Fairness

-----------------------------------------------------------------------------
(* Properties                                                              *)

Forking == pc \in {"fork", "place", "register", "next"}
Placed == IF pc \in {"fork", "place"} THEN 0 ELSE 1

\* The places of children_ids that the loop in progress is still to take for s.
Owed(s) ==
  IF ~Forking \/ s < cur THEN 0
  ELSE IF phase = "start"
       THEN IF s = cur THEN NumForks[s] - n - Placed ELSE NumForks[s]
       ELSE IF s = cur THEN 1 - Placed ELSE 0

Taken(s) == {k \in Place : children_ids[s][k] # NoPid}

\* A server never believes it has more children than num_forks, the forks it
\* has begun included.  start_one_child() (:141) looks for a free place in
\* children_ids without a way out: this is what ends the search.
IdsHaveRoom == \A s \in Servers : Cardinality(Taken(s)) + Owed(s) <= NumForks[s]

\* No server ever has more than num_forks living children, whatever deaths are
\* missed, reported to another server or reported twice, and whichever process
\* numbers are used again (restart_dead_children(), :200).
NoSurplus == \A s \in Servers : Cardinality(LivingOf(s)) <= NumForks[s]

\* A place for each child of each server: as many as all the num_forks together.
AllForks == UNION {{s} \X (1 .. NumForks[s]) : s \in Servers}

\* The search of jdk_fork_register_child() (:405) for a free place, which has no
\* way out either, finds one, although entries of children that ended before
\* they were registered stay in the registry.  prep_this() limits each server,
\* but the registry is for all of them: they have to fit in together.
RegisterEnds ==
  pc = "register" /\ Cardinality(AllForks) <= MaxChild => \E k \in Place : registry[k] = NoEntry

\* The deaths that server s has recorded and not replaced yet; the one in the
\* parent's hand counts, and the place of the ring it came from does not.
Recorded(s) ==
  Cardinality({k \in Place : /\ children_died[s][k] # NoPid
                             /\ ~(pc = "clear" /\ s = cur /\ k = n)})
    + (IF pc = "clear" /\ s = cur THEN 1 ELSE 0)

\* The children that server s is short of, with no prospect of getting them.
Missing(s) ==
  NumForks[s] - Cardinality(LivingOf(s)) - Recorded(s)
    - (IF pc = "place" /\ s = cur THEN Owed(s) - 1 ELSE Owed(s))

\* A child of s is lost in this step, for one of the reasons there are.
LossExplained(s) ==
  \/ \E p \in LivingOf(s) :
       /\ child'[p] = None
       /\ \/ stopping[s]                                    \* not recorded
          \/ \A k \in Place : registry[k] # [pid |-> p, server |-> s]  \* too early
          \/ \E k \in Place : /\ registry[k].pid = p        \* for another
                              /\ registry[k].server # s
          \/ children_died[s][children_died_count[s]] # NoPid  \* ring full
  \/ failures' > failures /\ s = cur                       \* fork() failed

\* While the parent runs, every child that ended is recorded and replaced but
\* for these: it ended between stop() and the next restart_dead_children(), or
\* before it was registered, or under a number that the registry holds for
\* another server as well, or MaxChild deaths came between two looks at one
\* place of the ring, or the fork for its successor failed.
LossesExplained ==
  [][\A s \in Servers : (~Ended /\ Missing(s)' > Missing(s)) => LossExplained(s)]_vars

\* A recorded death is replaced in the end, unless the parent ends first
\* (run_list(), :625).
RecordedReplaced ==
  \A s \in Servers : Recorded(s) > 0 ~> (Recorded(s) = 0 \/ saw_sigterm)

HeldUp(p) == Asked(p) /\ child[p].stage = "busy"
Forgot(p) == child[p].sigterm = "lost"

\* After SIGTERM the parent ends, and it has asked every child it had to end, also
\* those that it forked meanwhile: a child that lives on is held up in accept() or
\* in its connection, or it forgot the signal because it was just starting (run()
\* looks at the flags at :252-268 only, and they were cleared at :354-372).
TermEndsAll ==
  saw_sigterm ~> (Ended /\ \A p \in Living : HeldUp(p) \/ Forgot(p))
=============================================================================
