-------------------------- MODULE ListCacheProofs --------------------------
(***************************************************************************)
(* What holds of one list and its copies for any number of versions and    *)
(* faults: types, that only whole published versions are used, that a date *)
(* on disk never promises too much, and when an older list may be loaded.  *)
(***************************************************************************)
EXTENDS ListCache, TLAPS

\* Nothing is newer than what the server has.
Published ==
  \A f \in Files : content[f].version <= served[f] /\ buf[f].version <= served[f]

\* load_settings() asks for the list before the fingerprint.
Order == pc \in {"match", "idle"} => file = "fp"

\* A file is fetched only when it is newer than its date, and its date is the one
\* it came with.
Dated ==
  /\ pc = "grab" => date[file] < served[file]
  /\ pc = "write" => /\ date[file] < buf[file].version
                     /\ stamp[file] = buf[file].version
                     /\ buf[file].state # "torn"
  /\ pc = "date" => /\ content[file].version = stamp[file]
                    /\ content[file].state # "torn"

DateBounded ==
  \A f \in Files : /\ date[f] <= content[f].version
                   /\ content[f].state = "torn" => date[f] < content[f].version

\* This load_settings() has read its copy of f.
HasRead(f) == (f = file /\ pc # "check") \/ (f = "data" /\ file = "fp")

\* What it has read is no older than the copy on disk, and as long as no write has
\* failed no newer once it is written, and no list in use is newer than the disk.
Kept ==
  /\ \A f \in Files : HasRead(f) => content[f].version <= buf[f].version
  /\ failedWrites = 0 =>
       \A f \in Files :
         /\ HasRead(f) /\ ~(f = file /\ pc = "write")
              => buf[f].version <= content[f].version
         /\ \A c \in tree : c.version <= content[f].version

IInv == TypeOK /\ Published /\ Order /\ Dated /\ DateBounded /\ Authentic /\ Kept

USE ListCacheAssumption

-----------------------------------------------------------------------------
(* What copies are.                                                        *)

\* A copy of a version is among the contents, and keeps its version and state.
LEMMA CopyIsContents ==
  ASSUME NEW v \in 0 .. MaxVersion, NEW s \in State
  PROVE  Copy(v, s) \in Contents /\ Copy(v, s).version = v /\ Copy(v, s).state = s
BY DEF Copy, Contents

\* Nothing is version 0, and is whole.
LEMMA NothingIsContents ==
  Nothing \in Contents /\ Nothing.version = 0 /\ Nothing.state = "whole"
<1>1. 0 \in 0 .. MaxVersion /\ "whole" \in State
  BY DEF ListCacheAssumption, State
<1> QED  BY <1>1, CopyIsContents DEF Nothing

\* The parts of a contents.
LEMMA ContentsParts ==
  ASSUME NEW c \in Contents
  PROVE  c.version \in 0 .. MaxVersion /\ c.state \in State
BY DEF Contents

\* A write cut short leaves the version that was written, in the state given, in
\* the place of the file written, and the other file alone.
LEMMA TornParts ==
  ASSUME TypeOK, NEW s \in State
  PROVE  /\ Torn(s) \in [Files -> Contents]
         /\ Torn(s)[file].version = buf[file].version
         /\ Torn(s)[file].state = s
         /\ \A f \in Files : f # file => Torn(s)[f] = content[f]
<1>1. buf[file] \in Contents /\ content \in [Files -> Contents] /\ file \in Files
  BY DEF TypeOK
<1>2. buf[file].version \in 0 .. MaxVersion
  BY <1>1, ContentsParts
<1>3. Copy(buf[file].version, s) \in Contents
      /\ Copy(buf[file].version, s).version = buf[file].version
      /\ Copy(buf[file].version, s).state = s
  BY <1>2, CopyIsContents
<1> QED  BY <1>1, <1>3 DEF Torn

-----------------------------------------------------------------------------
(* The parts of the invariant, step by step.                               *)

LEMMA InitInv == Init => IInv
<1> SUFFICES ASSUME Init PROVE IInv
  OBVIOUS
<1>1. TypeOK
  <2>1. 1 \in Versions /\ 0 \in 0 .. MaxVersion /\ 0 \in 0 .. MaxFaults
        /\ 0 \in 0 .. MaxFailedWrites
    BY DEF ListCacheAssumption, Versions
  <2> QED  BY <2>1, NothingIsContents DEF Init, TypeOK, Files, NoDate
<1>2. \A f \in Files : /\ content[f] = Nothing /\ buf[f] = Nothing
                       /\ date[f] = 0 /\ served[f] = 1
  BY DEF Init, NoDate
<1>3. Published /\ DateBounded
  BY <1>2, NothingIsContents DEF Published, DateBounded
<1>4. Order /\ Dated /\ Authentic
  BY DEF Init, Order, Dated, Authentic
<1>5. Kept
  BY <1>2, NothingIsContents DEF Init, Kept, HasRead
<1> QED  BY <1>1, <1>3, <1>4, <1>5 DEF IInv

LEMMA TypeStep ==
  ASSUME TypeOK, [Next]_vars
  PROVE  TypeOK'
<1> USE DEF TypeOK
<1>0. \A v \in 0 .. MaxVersion : \A s \in State : Copy(v, s) \in Contents
  BY CopyIsContents
<1>1. CASE Check
  <2>1. pc' \in {"grab", "check", "match"} /\ file' \in Files
    BY <1>1 DEF Check, NextFile, Files
  <2>2. faults' \in 0 .. MaxFaults
    BY <1>1 DEF Check, Fault
  <2>3. buf' \in [Files -> Contents] /\ stamp' \in [Files -> 0 .. MaxVersion]
    BY <1>1 DEF Check
  <2> QED  BY <1>1, <2>1, <2>2, <2>3 DEF Check, disk
<1>2. CASE Grab
  <2>1. served[file] \in 0 .. MaxVersion /\ served[file] \in Versions
    BY DEF Versions
  <2>2. Copy(served[file], "whole") \in Contents /\ Copy(served[file], "cut") \in Contents
    BY <2>1, <1>0 DEF State
  <2>3. buf' \in [Files -> Contents] /\ stamp' \in [Files -> 0 .. MaxVersion]
    BY <1>2, <2>1, <2>2 DEF Grab
  <2>4. faults' \in 0 .. MaxFaults
    BY <1>2 DEF Grab, Fault
  <2>5. pc' \in {"write", "check", "match"} /\ file' \in Files
    BY <1>2 DEF Grab, NextFile, Files
  <2> QED  BY <1>2, <2>3, <2>4, <2>5 DEF Grab, disk
<1>3. CASE Write
  <2>1. "torn" \in State /\ "unflushed" \in State
    BY DEF State
  <2>2. Torn("torn") \in [Files -> Contents] /\ Torn("unflushed") \in [Files -> Contents]
    BY <2>1, TornParts
  <2>3. content' \in [Files -> Contents]
    BY <1>3, <2>2 DEF Write, Stored
  <2>4. failedWrites' \in 0 .. MaxFailedWrites
    BY <1>3 DEF Write, FailedWrite
  <2>5. pc' \in {"date", "check", "match"} /\ file' \in Files
    BY <1>3 DEF Write, AfterFailedWrite, NextFile, Files
  <2> QED  BY <1>3, <2>3, <2>4, <2>5 DEF Write, memory
<1>4. CASE WriteDate
  BY <1>4 DEF WriteDate, NextFile, FailedWrite, NoDate, memory, ListCacheAssumption, Files
<1>5. CASE Match
  <2>1. "data" \in Files
    BY DEF Files
  <2>2. tree' \subseteq Contents
    BY <1>5, <2>1 DEF Match, Loaded
  <2> QED  BY <1>5, <2>1, <2>2 DEF Match, disk, bounds
<1>6. CASE Restart
  BY <1>6, NothingIsContents DEF Restart, NewScanner, disk, bounds, Files
<1>7. CASE Kill
  <2>1. "torn" \in State
    BY DEF State
  <2>2. content' \in [Files -> Contents]
    BY <1>7, <2>1, TornParts DEF Kill, disk
  <2>3. date' \in [Files -> 0 .. MaxVersion]
    BY <1>7 DEF Kill, disk, NoDate, ListCacheAssumption
  <2>4. faults' \in 0 .. MaxFaults
    BY <1>7 DEF Kill, Fault
  <2> QED  BY <1>7, <2>2, <2>3, <2>4, NothingIsContents DEF Kill, NewScanner, Files
<1>8. ASSUME NEW f \in Files, Publish(f)
      PROVE  TypeOK'
  <2>1. served' \in [Files -> Versions]
    BY <1>8 DEF Publish, Versions
  <2> QED  BY <1>8, <2>1 DEF Publish, disk, memory, control, bounds
<1>9. CASE UNCHANGED vars
  BY <1>9 DEF vars, disk, memory, control, bounds
<1> QED
  BY <1>1, <1>2, <1>3, <1>4, <1>5, <1>6, <1>7, <1>8, <1>9 DEF Next, Loads

\* The parts that speak of numbers, with the types they need.
LEMMA Numbers ==
  ASSUME TypeOK
  PROVE  /\ \A f \in Files : /\ served[f] \in Int /\ date[f] \in Int
                            /\ content[f].version \in Int /\ buf[f].version \in Int
                            /\ content[f].version >= 0 /\ date[f] >= 0
         /\ \A c \in tree : c.version \in Int
         /\ failedWrites \in Int
BY ContentsParts DEF TypeOK, Versions

\* What each step does to the copies and to what is read of them.
LEMMA CheckDoes ==
  ASSUME TypeOK, Check
  PROVE  /\ buf'[file] = content[file]
         /\ \A f \in Files : f # file => buf'[f] = buf[f]
         /\ pc' = "grab" => file' = file /\ served[file] # date[file]
         /\ pc' # "grab" => NextFile
BY DEF Check, TypeOK, NextFile, Newer

LEMMA GrabDoes ==
  ASSUME TypeOK, Grab
  PROVE  /\ \A f \in Files : f # file => buf'[f] = buf[f]
         /\ \/ /\ pc' = "write" /\ file' = file
               /\ buf'[file].version = served[file] /\ stamp'[file] = served[file]
               /\ buf'[file].state # "torn"
            \/ NextFile /\ buf' = buf /\ stamp' = stamp
<1>1. served[file] \in 0 .. MaxVersion /\ file \in Files
  BY DEF TypeOK, Versions
<1>2. \A s \in State : /\ Copy(served[file], s).version = served[file]
                        /\ Copy(served[file], s).state = s
  BY <1>1, CopyIsContents
<1>3. "whole" \in State /\ "cut" \in State
  BY DEF State
<1>4. \A f \in Files : f # file => buf'[f] = buf[f]
  BY DEF Grab, TypeOK
<1>5. CASE NextFile /\ UNCHANGED <<buf, stamp>>
  BY <1>4, <1>5
<1>6. CASE /\ \/ buf' = [buf EXCEPT ![file] = Copy(served[file], "whole")]
              \/ buf' = [buf EXCEPT ![file] = Copy(served[file], "cut")]
           /\ stamp' = [stamp EXCEPT ![file] = served[file]]
           /\ pc' = "write" /\ file' = file
  <2>1. stamp'[file] = served[file]
    BY <1>1, <1>6 DEF TypeOK
  <2>2. buf'[file] = Copy(served[file], "whole") \/ buf'[file] = Copy(served[file], "cut")
    BY <1>1, <1>6 DEF TypeOK
  <2> QED  BY <1>2, <1>3, <1>4, <1>6, <2>1, <2>2
<1> QED  BY <1>5, <1>6 DEF Grab

LEMMA WriteDoes ==
  ASSUME TypeOK, Write
  PROVE  /\ \A f \in Files : f # file => content'[f] = content[f]
         /\ \/ pc' = "date" /\ file' = file /\ content'[file] = buf[file]
               /\ failedWrites' = failedWrites
            \/ /\ failedWrites' = failedWrites + 1
               /\ NextFile /\ content'[file] = content[file]
            \/ /\ failedWrites' = failedWrites + 1
               /\ NextFile
               /\ content'[file].version = buf[file].version
            \/ /\ failedWrites' = failedWrites + 1
               /\ pc' = "date" /\ file' = file
               /\ content'[file].version = buf[file].version
               /\ content'[file].state = "unflushed"
<1>1. "torn" \in State /\ "unflushed" \in State /\ file \in Files
  BY DEF State, TypeOK
<1>2. CASE content' = [content EXCEPT ![file] = Stored] /\ pc' = "date"
           /\ UNCHANGED <<file, failedWrites>>
  BY <1>1, <1>2 DEF TypeOK, Stored
<1>3. CASE FailedWrite /\ AfterFailedWrite /\ UNCHANGED content
  BY <1>3 DEF FailedWrite, AfterFailedWrite
<1>4. CASE FailedWrite /\ AfterFailedWrite /\ content' = Torn("torn")
  BY <1>1, <1>4, TornParts DEF FailedWrite, AfterFailedWrite
<1>5. CASE FailedWrite /\ content' = Torn("unflushed") /\ pc' = "date" /\ UNCHANGED file
  BY <1>1, <1>5, TornParts DEF FailedWrite
<1> QED  BY <1>2, <1>3, <1>4, <1>5 DEF Write

LEMMA WriteDateDoes ==
  ASSUME TypeOK, WriteDate
  PROVE  /\ \A f \in Files : f # file => date'[f] = date[f]
         /\ date'[file] \in {stamp[file], date[file], 0}
         /\ failedWrites' = failedWrites \/ failedWrites' = failedWrites + 1
BY DEF WriteDate, TypeOK, FailedWrite, NoDate

LEMMA KillDoes ==
  ASSUME TypeOK, Kill
  PROVE  /\ \A f \in Files : f # file => content'[f] = content[f] /\ date'[f] = date[f]
         /\ \/ content'[file] = content[file] /\ date'[file] = date[file]
            \/ /\ pc = "write" /\ content'[file].version = buf[file].version
               /\ date'[file] = date[file]
            \/ pc = "date" /\ date'[file] = 0 /\ content'[file] = content[file]
<1>1. "torn" \in State /\ file \in Files
  BY DEF State, TypeOK
<1>2. CASE UNCHANGED disk
  BY <1>2 DEF disk
<1>3. CASE pc = "write" /\ content' = Torn("torn") /\ UNCHANGED date
  BY <1>1, <1>3, TornParts
<1>4. CASE pc = "date" /\ date' = [date EXCEPT ![file] = NoDate] /\ UNCHANGED content
  BY <1>1, <1>4 DEF TypeOK, NoDate
<1> QED  BY <1>2, <1>3, <1>4 DEF Kill

LEMMA PublishedStep ==
  ASSUME TypeOK, Published, [Next]_vars
  PROVE  Published'
<1> USE DEF Published
<1>0. TypeOK' /\ file \in Files
  BY TypeStep DEF TypeOK
<1>1. CASE Check
  BY <1>0, <1>1, CheckDoes DEF Check, disk
<1>2. CASE Grab
  <2>1. \A f \in Files : buf'[f].version <= served[f]
    BY <1>0, <1>2, GrabDoes, Numbers
  <2> QED  BY <1>2, <2>1 DEF Grab, disk
<1>3. CASE Write
  <2>1. \A f \in Files : content'[f].version <= served[f]
    BY <1>0, <1>3, WriteDoes
  <2> QED  BY <1>3, <2>1 DEF Write, memory
<1>4. CASE WriteDate
  BY <1>4 DEF WriteDate, memory
<1>5. CASE Match \/ Restart
  BY <1>5 DEF Match, Restart, NewScanner, disk
<1>6. CASE Kill
  <2>1. \A f \in Files : content'[f].version <= served[f]
    BY <1>0, <1>6, KillDoes
  <2> QED  BY <1>6, <2>1 DEF Kill, NewScanner
<1>7. ASSUME NEW g \in Files, Publish(g)
      PROVE  Published'
  <2>1. \A f \in Files : served[f] <= served'[f]
    BY <1>7 DEF Publish, TypeOK, Versions
  <2>2. \A f \in Files : served'[f] \in Int
    BY <1>0 DEF TypeOK, Versions
  <2>3. content' = content /\ buf' = buf
    BY <1>7 DEF Publish, disk, memory
  <2> QED  BY <2>1, <2>2, <2>3, Numbers
<1>8. CASE UNCHANGED vars
  BY <1>8 DEF vars, disk, memory
<1> QED
  BY <1>1, <1>2, <1>3, <1>4, <1>5, <1>6, <1>7, <1>8 DEF Next, Loads

LEMMA OrderStep ==
  ASSUME TypeOK, Order, [Next]_vars
  PROVE  Order'
<1> USE DEF Order
<1>1. NextFile => Order'
  BY DEF NextFile, TypeOK, Files
<1>2. CASE Check
  BY <1>1, <1>2 DEF Check
<1>3. CASE Grab
  BY <1>1, <1>3 DEF Grab
<1>4. CASE Write
  BY <1>1, <1>4 DEF Write, AfterFailedWrite
<1>5. CASE WriteDate
  BY <1>1, <1>5 DEF WriteDate
<1>6. CASE Match
  BY <1>6 DEF Match
<1>7. CASE Restart \/ Kill
  BY <1>7 DEF Restart, Kill, NewScanner
<1>8. CASE UNCHANGED control
  BY <1>8 DEF control
<1> QED
  BY <1>2, <1>3, <1>4, <1>5, <1>6, <1>7, <1>8 DEF Next, Loads, Publish, vars

LEMMA DatedStep ==
  ASSUME TypeOK, Published, DateBounded, Dated, [Next]_vars
  PROVE  Dated'
<1> USE DEF Dated
<1>0. TypeOK' /\ file \in Files
  BY TypeStep DEF TypeOK
<1>1. NextFile => Dated'
  BY DEF NextFile
<1>2. CASE Check
  <2>1. CASE NextFile
    BY <1>1, <2>1
  <2>2. CASE ~NextFile
    <3>1. pc' = "grab" /\ file' = file /\ served[file] # date[file]
      BY <1>2, <2>2, CheckDoes
    <3>2. date[file] <= content[file].version /\ content[file].version <= served[file]
      BY <1>0 DEF DateBounded, Published
    <3>3. date[file] < served[file]
      BY <1>0, <3>1, <3>2, Numbers
    <3>4. served' = served /\ date' = date
      BY <1>2 DEF Check, disk
    <3> QED  BY <3>1, <3>3, <3>4
  <2> QED  BY <2>1, <2>2
<1>3. CASE Grab
  <2>1. CASE NextFile
    BY <1>1, <2>1
  <2>2. CASE ~NextFile
    <3>1. pc' = "write" /\ file' = file
          /\ buf'[file].version = served[file] /\ stamp'[file] = served[file]
          /\ buf'[file].state # "torn"
      BY <1>3, <2>2, GrabDoes
    <3>2. pc = "grab" /\ date' = date
      BY <1>3 DEF Grab, disk
    <3> QED  BY <3>1, <3>2
  <2> QED  BY <2>1, <2>2
<1>4. CASE Write
  <2>1. CASE NextFile
    BY <1>1, <2>1
  <2>2. CASE ~NextFile
    <3>1. pc' = "date" /\ file' = file
          /\ content'[file].version = buf[file].version
          /\ (content'[file].state = buf[file].state \/ content'[file].state = "unflushed")
      BY <1>4, <2>2, WriteDoes
    <3>2. pc = "write" /\ stamp' = stamp
      BY <1>4 DEF Write, memory
    <3> QED  BY <3>1, <3>2
  <2> QED  BY <2>1, <2>2
<1>5. CASE WriteDate
  BY <1>1, <1>5 DEF WriteDate
<1>6. CASE Match \/ Restart \/ Kill
  BY <1>6 DEF Match, Restart, Kill, NewScanner
<1>7. ASSUME NEW g \in Files, Publish(g)
      PROVE  Dated'
  <2>1. served[file] <= served'[file]
    BY <1>0, <1>7 DEF Publish, TypeOK, Versions
  <2>2. served'[file] \in Int
    BY <1>0 DEF TypeOK, Versions
  <2>3. UNCHANGED <<disk, memory, control>>
    BY <1>7 DEF Publish
  <2>4. pc = "grab" => date[file] < served'[file]
    BY <1>0, <2>1, <2>2, Numbers
  <2> QED  BY <2>3, <2>4 DEF disk, memory, control
<1>8. CASE UNCHANGED vars
  BY <1>8 DEF vars, disk, memory, control
<1> QED
  BY <1>2, <1>3, <1>4, <1>5, <1>6, <1>7, <1>8 DEF Next, Loads

LEMMA DateBoundedStep ==
  ASSUME TypeOK, Dated, DateBounded, [Next]_vars
  PROVE  DateBounded'
<1> USE DEF DateBounded
<1>0. file \in Files
  BY DEF TypeOK
<1>1. CASE Write
  <2>1. date[file] < buf[file].version /\ date' = date
    BY <1>1 DEF Write, Dated
  <2>2. \A f \in Files : f # file => content'[f] = content[f]
    BY <1>1, WriteDoes
  <2>3. content'[file] = content[file] \/ content'[file].version = buf[file].version
    BY <1>1, WriteDoes
  <2>4. CASE content'[file] = content[file]
    BY <2>1, <2>2, <2>4
  <2>5. CASE content'[file].version = buf[file].version
    BY <1>0, <2>1, <2>2, <2>5, Numbers
  <2> QED  BY <2>3, <2>4, <2>5
<1>2. CASE WriteDate
  <2>1. content[file].version = stamp[file] /\ content[file].state # "torn"
        /\ content' = content
    BY <1>2 DEF WriteDate, Dated
  <2>2. (\A f \in Files : f # file => date'[f] = date[f])
        /\ date'[file] \in {stamp[file], date[file], 0}
    BY <1>2, WriteDateDoes
  <2> QED  BY <1>0, <2>1, <2>2, Numbers
<1>3. CASE Kill
  <2>1. \A f \in Files : f # file => content'[f] = content[f] /\ date'[f] = date[f]
    BY <1>3, KillDoes
  <2>2. CASE content'[file] = content[file] /\ date'[file] = date[file]
    BY <2>1, <2>2
  <2>3. CASE pc = "write" /\ content'[file].version = buf[file].version
             /\ date'[file] = date[file]
    BY <1>0, <2>1, <2>3, Numbers DEF Dated
  <2>4. CASE pc = "date" /\ date'[file] = 0 /\ content'[file] = content[file]
    BY <1>0, <2>1, <2>4, Numbers DEF Dated
  <2> QED  BY <1>3, <2>2, <2>3, <2>4, KillDoes
<1>4. CASE UNCHANGED disk
  BY <1>4 DEF disk
<1> QED
  BY <1>1, <1>2, <1>3, <1>4 DEF Next, Loads, Check, Grab, Match, Restart, Publish, vars

LEMMA AuthenticStep ==
  ASSUME TypeOK, Published, Authentic, [Next]_vars
  PROVE  Authentic'
<1> USE DEF Authentic
<1>0. TypeOK' /\ "data" \in Files /\ "fp" \in Files /\ Files = {"data", "fp"}
  BY TypeStep DEF Files
<1>1. CASE Match
  <2>1. served' = served
    BY <1>1 DEF Match
  <2>2. CASE FingerprintFits
    <3>1. /\ tree' = tree \cup {buf["data"]} /\ buf["data"] = buf["fp"]
          /\ buf["fp"].version > 0 /\ buf["fp"].state = "whole"
      BY <1>1, <2>2 DEF Match, Loaded, FingerprintFits
    <3>2. buf["fp"].version <= served["data"] /\ buf["fp"].version <= served["fp"]
      BY <1>0, <3>1 DEF Published
    <3>3. buf["fp"].version \in Versions
      BY <1>0, <3>1, ContentsParts DEF TypeOK, Versions
    <3>4. \A f \in Files : buf["data"].version <= served'[f]
      BY <1>0, <2>1, <3>1, <3>2
    <3>5. \A c \in tree : /\ c.state = "whole" /\ c.version \in Versions
                        /\ \A f \in Files : c.version <= served'[f]
      BY <2>1
    <3> QED  BY <3>1, <3>3, <3>4, <3>5
  <2>3. CASE ~FingerprintFits
    BY <1>1, <2>1, <2>3 DEF Match, Loaded
  <2> QED  BY <2>2, <2>3
<1>2. CASE tree' = {}
  BY <1>2
<1>3. ASSUME NEW g \in Files, Publish(g)
      PROVE  Authentic'
  <2>1. \A f \in Files : served[f] <= served'[f] /\ served'[f] \in Int
    BY <1>0, <1>3 DEF Publish, TypeOK, Versions
  <2>2. tree' = tree
    BY <1>3 DEF Publish, memory
  <2> QED  BY <2>1, <2>2, Numbers
<1>4. CASE UNCHANGED <<served, tree>>
  BY <1>4
<1> QED
  BY <1>1, <1>2, <1>3, <1>4
     DEF Next, Loads, Check, Grab, Write, WriteDate, Restart, Kill, NewScanner,
         vars, memory

LEMMA KeptStep ==
  ASSUME TypeOK, Published, Order, Dated, Kept, [Next]_vars
  PROVE  Kept'
<1> USE DEF Kept
<1>0. TypeOK' /\ file \in Files /\ file' \in Files /\ Files = {"data", "fp"}
  BY TypeStep DEF TypeOK, Files
<1>1. ASSUME NextFile, NEW f \in Files, HasRead(f)'
      PROVE  HasRead(f) \/ f = file
  BY <1>0, <1>1 DEF NextFile, HasRead
<1>2. CASE Check
  <2>1. content' = content /\ tree' = tree /\ failedWrites' = failedWrites
    BY <1>2 DEF Check, disk
  <2>2. pc = "check"
    BY <1>2 DEF Check
  <2>3. \A f \in Files : HasRead(f)' => HasRead(f) \/ f = file
    BY <1>0, <1>1, <1>2, CheckDoes DEF HasRead
  <2>4. ~HasRead(file)
    BY <2>2 DEF HasRead
  <2>5. buf'[file] = content[file] /\ \A f \in Files : f # file => buf'[f] = buf[f]
    BY <1>2, CheckDoes
  <2> QED  BY <1>0, <2>1, <2>2, <2>3, <2>5, Numbers
<1>3. CASE Grab
  <2>1. content' = content /\ tree' = tree /\ failedWrites' = failedWrites /\ pc = "grab"
    BY <1>3 DEF Grab, disk
  <2>2. HasRead(file) /\ content[file].version <= served[file]
    BY <1>0, <2>1 DEF HasRead, Published
  <2>3. \A f \in Files : HasRead(f)' => HasRead(f)
    BY <1>0, <1>1, <1>3, <2>2, GrabDoes DEF HasRead
  <2>4. CASE NextFile /\ buf' = buf
    BY <2>1, <2>3, <2>4
  <2>5. CASE /\ \A f \in Files : f # file => buf'[f] = buf[f]
             /\ pc' = "write" /\ file' = file
             /\ buf'[file].version = served[file]
    BY <1>0, <2>1, <2>2, <2>3, <2>5
  <2> QED  BY <1>3, <2>4, <2>5, GrabDoes
<1>4. CASE Write
  <2>1. buf' = buf /\ tree' = tree /\ pc = "write"
    BY <1>4 DEF Write, memory
  <2>2. HasRead(file)
    BY <2>1 DEF HasRead
  <2>3. \A f \in Files : HasRead(f)' => HasRead(f)
    BY <1>0, <1>1, <1>4, <2>2, WriteDoes DEF HasRead
  <2>4. \A f \in Files : f # file => content'[f] = content[f]
    BY <1>4, WriteDoes
  <2>5. CASE failedWrites' = failedWrites + 1
    <3>1. failedWrites' # 0
      BY <1>0, <2>5 DEF TypeOK
    <3>2. content'[file] = content[file] \/ content'[file].version = buf[file].version
      BY <1>4, WriteDoes
    <3>3. \A f \in Files : HasRead(f) => content'[f].version <= buf[f].version
      BY <1>0, <2>2, <2>4, <3>2, Numbers
    <3> QED  BY <2>1, <2>3, <3>1, <3>3
  <2>6. CASE pc' = "date" /\ file' = file /\ content'[file] = buf[file]
             /\ failedWrites' = failedWrites
    <3>1. content[file].version <= buf[file].version
      BY <1>0, <2>2
    <3>2. \A f \in Files : HasRead(f) => content'[f].version <= buf[f].version
      BY <1>0, <2>2, <2>4, <2>6, Numbers
    <3>3. failedWrites = 0 =>
            \A f \in Files : /\ HasRead(f) => buf[f].version <= content'[f].version
                             /\ \A c \in tree : c.version <= content'[f].version
      BY <1>0, <2>4, <2>6, <3>1, Numbers
    <3> QED  BY <2>1, <2>3, <2>6, <3>2, <3>3
  <2> QED  BY <1>4, <2>5, <2>6, WriteDoes
<1>5. CASE WriteDate
  <2>1. content' = content /\ buf' = buf /\ tree' = tree /\ pc = "date" /\ NextFile
    BY <1>5 DEF WriteDate, memory
  <2>2. \A f \in Files : HasRead(f)' => HasRead(f)
    BY <1>0, <1>1, <2>1 DEF HasRead
  <2>3. failedWrites' = 0 => failedWrites = 0
    BY <1>0, <1>5, WriteDateDoes DEF TypeOK
  <2> QED  BY <2>1, <2>2, <2>3
<1>6. CASE Match
  <2>1. content' = content /\ buf' = buf /\ failedWrites' = failedWrites
        /\ pc = "match" /\ file = "fp"
    BY <1>6 DEF Match, disk, bounds, Order
  <2>2. \A f \in Files : HasRead(f)
    BY <1>0, <2>1 DEF HasRead
  <2>3. pc' # "write"
    BY <1>6 DEF Match
  <2>4. tree' = tree \/ (tree' = tree \cup {buf["data"]} /\ buf["data"] = buf["fp"])
    BY <1>6 DEF Match, Loaded, FingerprintFits
  <2>5. failedWrites = 0 =>
          \A f \in Files : \A c \in tree' : c.version <= content[f].version
    BY <1>0, <2>1, <2>2, <2>4
  <2> QED  BY <2>1, <2>2, <2>3, <2>5
<1>7. CASE Restart \/ Kill
  <2>1. pc' = "check" /\ file' = "data" /\ tree' = {}
    BY <1>7 DEF Restart, Kill, NewScanner
  <2>2. \A f \in Files : ~HasRead(f)'
    BY <2>1 DEF HasRead
  <2> QED  BY <2>1, <2>2
<1>8. CASE UNCHANGED <<disk, memory, control>> /\ failedWrites' = failedWrites
  BY <1>8 DEF disk, memory, control, HasRead
<1> QED
  BY <1>2, <1>3, <1>4, <1>5, <1>6, <1>7, <1>8 DEF Next, Loads, Publish, vars, bounds

-----------------------------------------------------------------------------
(* The theorems                                                            *)

LEMMA Invariance == Spec => []IInv
<1>1. IInv /\ [Next]_vars => IInv'
  BY TypeStep, PublishedStep, OrderStep, DatedStep, DateBoundedStep, AuthenticStep,
     KeptStep DEF IInv
<1> QED  BY InitInv, <1>1, PTL DEF Spec

\* Every variable of the cache keeps its type, for any number of versions and of
\* faults (load_settings(), check_and_grab()).
THEOREM TypeCorrect == Spec => []TypeOK
<1>1. IInv => TypeOK
  BY DEF IInv
<1> QED  BY <1>1, Invariance, PTL

\* Every list in use is one whole version of which both files had been published,
\* however publications, downloads, writes and kills interleave.
THEOREM OnlyAuthenticLists == Spec => []Authentic
<1>1. IInv => Authentic
  BY DEF IInv
<1> QED  BY <1>1, Invariance, PTL

\* The date on disk never promises more than the copy next to it, wherever the
\* daemon was killed and whichever write failed.
THEOREM DatesAreKept == Spec => []DateKept
<1>1. IInv => DateKept
  <2> SUFFICES ASSUME IInv, NEW f \in Files, date[f] # NoDate
               PROVE  \/ content[f].version > date[f]
                      \/ content[f].version = date[f] /\ content[f].state # "torn"
    BY DEF DateKept
  <2>1. /\ date[f] <= content[f].version
        /\ content[f].state = "torn" => date[f] < content[f].version
    BY DEF IInv, DateBounded
  <2>2. date[f] \in Int /\ content[f].version \in Int
    BY Numbers DEF IInv
  <2> QED  BY <2>1, <2>2
<1> QED  BY <1>1, Invariance, PTL

LEMMA NoOlderStep ==
  ASSUME IInv, [Next]_vars
  PROVE  failedWrites = 0 =>
           \A c \in tree' \ tree : \A d \in tree : d.version <= c.version
<1> SUFFICES ASSUME failedWrites = 0, NEW c \in tree' \ tree, NEW d \in tree
             PROVE  d.version <= c.version
  OBVIOUS
<1> USE DEF IInv
<1>1. CASE Match
  <2>1. pc = "match" /\ file = "fp" /\ "data" \in Files /\ "fp" \in Files
    BY <1>1 DEF Match, Order, Files
  <2>2. HasRead("data")
    BY <2>1 DEF HasRead
  <2>3. d.version <= content["data"].version
        /\ content["data"].version <= buf["data"].version
    BY <2>1, <2>2 DEF Kept
  <2>4. c = buf["data"]
    BY <1>1 DEF Match, Loaded
  <2> QED  BY <2>1, <2>3, <2>4, Numbers
<1>2. CASE tree' = tree \/ tree' = {}
  BY <1>2
<1> QED
  BY <1>1, <1>2
     DEF Next, Loads, Check, Grab, Write, WriteDate, Restart, Kill, NewScanner, Publish,
         vars, memory

\* Loading the same scanner again never adds an older list to a newer one, unless a
\* write has failed.
THEOREM NeverGoesBack == Spec => NeverOlder
<1>1. IInv /\ [Next]_vars => (failedWrites = 0 =>
        \A c \in tree' \ tree : \A d \in tree : d.version <= c.version)
  BY NoOlderStep
<1> QED  BY <1>1, Invariance, PTL DEF Spec, NeverOlder
=============================================================================
