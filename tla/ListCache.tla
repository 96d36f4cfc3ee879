----------------------------- MODULE ListCache -----------------------------
(***************************************************************************)
(* One list of sites that if2kd fetches from a server (the class           *)
(* if2k_mini_scanner over two jdk_remote_buf): the list itself and its     *)
(* fingerprint, each with a copy on disk and, in a second file, the date   *)
(* the server gave for it.  A copy is fetched again when the server's date *)
(* is not the one on disk, and the list is put to use when its fingerprint *)
(* is the one fetched: its patterns are added to the scanner's tree, which *)
(* jdk_tree::clear() does not empty.                                       *)
(*                                                                         *)
(* The two files are published, asked for, fetched and written one after   *)
(* the other, and the copy and its date are two writes: the server may     *)
(* publish, the daemon be killed, the network or the disk fail between any *)
(* two of these steps.                                                     *)
(*                                                                         *)
(* A version stands for the contents of a file and for its date.           *)
(***************************************************************************)
EXTENDS Integers

CONSTANTS
  MaxVersion,       \* bound: versions the server publishes
  MaxFaults,        \* bound: requests that fail, downloads cut short, kills
  MaxFailedWrites   \* bound: writes to the disk that fail

ASSUME ListCacheAssumption ==
  MaxVersion \in Nat \ {0} /\ MaxFaults \in Nat /\ MaxFailedWrites \in Nat

VARIABLES
  served,        \* per file: the version the server has now
  content, date, \* per file: the copy on disk and the date in its .date file
  buf, stamp,    \* per file: the jdk_remote_buf of this load_settings()
  tree,          \* the contents whose patterns are in the scanner's tree
  pc, file,      \* the step load_settings() is at, and for which file
  pass,          \* 1: the scanner's constructor; 2: kernel.load() once more
  faults, failedWrites   \* the bounds' counters

disk == <<content, date>>
memory == <<buf, stamp, tree>>
control == <<pc, file, pass>>
bounds == <<faults, failedWrites>>
vars == <<served, disk, memory, control, bounds>>

Files == {"data", "fp"}
Versions == 1 .. MaxVersion

\* Contents are whole, or what is left of a version when its download was cut
\* short, when a write was and was seen to be, or when a write failed unseen.
State == {"whole", "cut", "torn", "unflushed"}
Contents == [version : 0 .. MaxVersion, state : State]
Copy(v, s) == [version |-> v, state |-> s]
Nothing == Copy(0, "whole")
NoDate == 0

TypeOK ==
  /\ served \in [Files -> Versions]
  /\ content \in [Files -> Contents] /\ date \in [Files -> 0 .. MaxVersion]
  /\ buf \in [Files -> Contents] /\ stamp \in [Files -> 0 .. MaxVersion]
  /\ tree \subseteq Contents
  /\ pc \in {"check", "grab", "write", "date", "match", "idle"}
  /\ file \in Files /\ pass \in 1 .. 2
  /\ faults \in 0 .. MaxFaults /\ failedWrites \in 0 .. MaxFailedWrites

Init ==
  /\ served = [f \in Files |-> 1]
  /\ content = [f \in Files |-> Nothing] /\ date = [f \in Files |-> NoDate]
  /\ buf = [f \in Files |-> Nothing] /\ stamp = [f \in Files |-> NoDate]
  /\ tree = {}
  /\ pc = "check" /\ file = "data" /\ pass = 1
  /\ faults = 0 /\ failedWrites = 0

Fault == faults < MaxFaults /\ faults' = faults + 1
FailedWrite == failedWrites < MaxFailedWrites /\ failedWrites' = failedWrites + 1

-----------------------------------------------------------------------------
(* The server                                                              *)

\* The files of a version are published one after the other, in either order.
Publish(f) ==
  /\ served[f] < MaxVersion
  /\ \A g \in Files : served[f] <= served[g]
  /\ served' = [served EXCEPT ![f] = @ + 1]
  /\ UNCHANGED <<disk, memory, control, bounds>>

-----------------------------------------------------------------------------
(* jdk_remote_buf::check_and_grab() for the list, then for the fingerprint *)

NextFile ==
  IF file = "data" THEN file' = "fp" /\ pc' = "check"
                   ELSE pc' = "match" /\ UNCHANGED file

\* Mutant: a file that is there with a date is not asked for again.
BugGrabOnce == date[file] = NoDate

\* check(): HEAD, and the date the server gives is not the one on disk.
\* load_local() appends the date to what it read before, and the comparison
\* looks at no more than its beginning.
Newer == served[file] # date[file]

\* load_local(), then check().
Check ==
  /\ pc = "check"
  /\ buf' = [buf EXCEPT ![file] = content[file]]
  /\ stamp' = [stamp EXCEPT ![file] = date[file]]
  /\ \/ Newer /\ pc' = "grab" /\ UNCHANGED <<file, faults>>
     \/ ~Newer /\ NextFile /\ UNCHANGED faults
     \/ Fault /\ NextFile                             \* the HEAD fails
  /\ UNCHANGED <<served, disk, tree, pass, failedWrites>>

\* grab(): GET whatever the server has by now, with its date.  The end of the
\* connection is the end of the file: the length is not looked at.
Grab ==
  /\ pc = "grab"
  /\ \/ /\ \/ /\ buf' = [buf EXCEPT ![file] = Copy(served[file], "whole")]
              /\ UNCHANGED faults
           \/ /\ buf' = [buf EXCEPT ![file] = Copy(served[file], "cut")]
              /\ Fault
        /\ stamp' = [stamp EXCEPT ![file] = served[file]]
        /\ pc' = "write" /\ UNCHANGED file
     \/ Fault /\ NextFile /\ UNCHANGED <<buf, stamp>>
  /\ UNCHANGED <<served, disk, tree, pass, failedWrites>>

\* Mutant: the result of the write is not looked at.
BugResultIgnored == pc' = "date" /\ UNCHANGED file

\* The date is not written after a write that failed.
AfterFailedWrite == NextFile

\* Mutant: a file that is there already is not replaced.
BugNotReplaced == IF content[file] = Nothing THEN buf[file] ELSE content[file]

\* The file is opened anew, and all of the buffer is written to it.
Stored == buf[file]

Torn(s) == [content EXCEPT ![file] = Copy(buf[file].version, s)]

\* extract_to_file(): the file cannot be opened; fwrite() fails; fclose() fails,
\* which is not looked at.
Write ==
  /\ pc = "write"
  /\ \/ content' = [content EXCEPT ![file] = Stored]
        /\ pc' = "date" /\ UNCHANGED <<file, failedWrites>>
     \/ FailedWrite /\ AfterFailedWrite /\ UNCHANGED content
     \/ FailedWrite /\ AfterFailedWrite /\ content' = Torn("torn")
     \/ FailedWrite /\ content' = Torn("unflushed")
        /\ pc' = "date" /\ UNCHANGED file
  /\ UNCHANGED <<served, date, memory, pass, faults>>

\* The .date file is written, is left as it was, or is left empty.
WriteDate ==
  /\ pc = "date"
  /\ \/ date' = [date EXCEPT ![file] = stamp[file]] /\ UNCHANGED failedWrites
     \/ FailedWrite /\ UNCHANGED date
     \/ FailedWrite /\ date' = [date EXCEPT ![file] = NoDate]
  /\ NextFile
  /\ UNCHANGED <<served, content, memory, pass, faults>>

-----------------------------------------------------------------------------
(* if2k_mini_scanner::load_settings()                                      *)

\* Mutant: any fingerprint will do.
BugAnyFingerprint == buf["fp"].version > 0

\* The fingerprint fetched is the one of the list fetched.
FingerprintFits ==
  /\ buf["fp"].version > 0
  /\ buf["fp"].state = "whole"
  /\ buf["data"] = buf["fp"]

\* The list goes into use.  jdk_tree::clear() releases no leaf, so it is added to
\* what the scanner has loaded before.
Loaded == IF FingerprintFits THEN tree \cup {buf["data"]} ELSE tree

\* kernel.load() makes the scanner, whose constructor loads it, and then loads it
\* once more.  The second time is only for a list whose category is enabled.
Match ==
  /\ pc = "match"
  /\ tree' = Loaded
  /\ \/ pass < 2 /\ pass' = pass + 1 /\ pc' = "check" /\ file' = "data"
     \/ pc' = "idle" /\ UNCHANGED <<pass, file>>
  /\ UNCHANGED <<served, disk, buf, stamp, bounds>>

NewScanner ==
  /\ pc' = "check" /\ file' = "data" /\ pass' = 1
  /\ tree' = {}
  /\ UNCHANGED <<buf, stamp>>

\* The daemon restarts its kernel.
Restart ==
  /\ pc = "idle"
  /\ NewScanner
  /\ UNCHANGED <<served, disk, bounds>>

\* The daemon is killed and started again.  A file it was writing may be cut short.
Kill ==
  /\ Fault
  /\ NewScanner
  /\ \/ UNCHANGED disk
     \/ pc = "write" /\ content' = Torn("torn") /\ UNCHANGED date
     \/ pc = "date" /\ date' = [date EXCEPT ![file] = NoDate] /\ UNCHANGED content
  /\ UNCHANGED <<served, failedWrites>>

-----------------------------------------------------------------------------
Loads == Check \/ Grab \/ Write \/ WriteDate \/ Match
Next == Loads \/ Restart \/ Kill \/ \E f \in Files : Publish(f)

(* load_settings() goes on when it can.  Nothing has to bring a restart:    *)
(* the daemon's countdown does not run when update.rate is 0, its default. *)
Spec == Init /\ [][Next]_vars /\ WF_vars(Loads)

-----------------------------------------------------------------------------
(* Properties                                                              *)

\* Every list in use is one whole version, and both its files had been published:
\* never a list whose download or write was cut short, and never one that the
\* fingerprint of another version let in.
Authentic ==
  \A c \in tree :
    c.state = "whole" /\ c.version \in Versions
    /\ \A f \in Files : c.version <= served[f]

\* A date on disk never promises more than the copy next to it: after a kill or
\* a failed write at any point, the copy is newer than its date, and is fetched
\* again, or the copy is the version of the date, and no write of it was seen to
\* fail.
DateKept ==
  \A f \in Files : date[f] # NoDate =>
    \/ content[f].version > date[f]
    \/ content[f].version = date[f] /\ content[f].state # "torn"

\* What a scanner loads is never older than what it has loaded before, unless a
\* write to the disk has failed.
NeverOlder ==
  [][failedWrites = 0 =>
       \A c \in tree' \ tree : \A d \in tree : d.version <= c.version]_vars

\* The copy of f passes for current, and is not what was published.
Stuck(f) ==
  /\ date[f] = served[f]
  /\ content[f].state \in {"cut", "unflushed"}

\* Whatever failed on the way: if the daemon restarts its kernel again and again
\* (its countdown runs, or somebody asks for it), the list in use is again and again
\* the one the server has and no other, once the server has both files of it, unless
\* a copy cut short passes for current.
CatchesUp ==
  []<><<Restart>>_vars =>
    []<>(\/ served["data"] # served["fp"]
         \/ \E f \in Files : Stuck(f)
         \/ tree = {Copy(served["data"], "whole")})
=============================================================================
