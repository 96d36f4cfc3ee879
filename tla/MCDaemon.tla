------------------------------ MODULE MCDaemon ------------------------------
(***************************************************************************)
(* Small instances of Daemon for TLC.                                      *)
(***************************************************************************)
EXTENDS Daemon, TLC

CONSTANTS t1, t2, t3

ThreadSymmetry == Permutations(Threads)

(* "max.sockets" of 3 is cut to MaxThreads = 2, 0 stands for 1, and a      *)
(* negative value makes start_worker_threads() fail.                       *)
MCAllSizes == {-1, 0, 3}
MCZero == {0}
MCOneSocket == {1}
MCReloadTimes == {0, 1}
MCNoReload == {0}
=============================================================================
