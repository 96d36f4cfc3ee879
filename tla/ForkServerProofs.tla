-------------------------- MODULE ForkServerProofs --------------------------
(***************************************************************************)
(* Theorems about ForkServer, for any number of servers, children, process *)
(* numbers and faults.                                                     *)
(*                                                                         *)
(* NoSurplus needs IdsHaveRoom, and IdsHaveRoom needs to know that a death *)
(* which is replaced has its number in children_ids: Covered counts, for   *)
(* every server and number, the entries of the registry and of the ring    *)
(* against the places of children_ids that stand behind them.              *)
(*                                                                         *)
(* RegisterEnds sends every entry of the registry to a place that stands   *)
(* behind it, and that place to one of its server's forks: two entries     *)
(* that met there would be one.  LossesExplained balances, step by step,   *)
(* the children that live, the deaths that wait and the forks to come.     *)
(***************************************************************************)
EXTENDS ForkServer, FiniteSetTheorems, FunctionTheorems, TLAPS

HeldAt(s, p) == {k \in Place : children_ids[s][k] = p}
RegisteredAt(s, p) == {k \in Place : registry[k] = [pid |-> p, server |-> s]}
DiedAt(s, p) ==
  {k \in Place : children_died[s][k] = p /\ ~(pc = "clear" /\ s = cur /\ k = n)}
InHand(s, p) == IF s = cur /\ p = pid /\ pc \in {"clear", "register"} THEN 1 ELSE 0

\* Every entry for p is backed by a place of its own in children_ids.
Covered ==
  \A s \in Servers, p \in Pids :
    Cardinality(RegisteredAt(s, p)) + Cardinality(DiedAt(s, p)) + InHand(s, p)
      <= Cardinality(HeldAt(s, p))

\* A living child is in the registry, unless it is just being entered.
Known ==
  \A s \in Servers, p \in Pids :
    child[p].server = s => \/ RegisteredAt(s, p) # {}
                           \/ p = pid /\ s = cur /\ pc \in {"place", "register"}

\* Which loop each step belongs to.
Flow ==
  /\ Forking => phase \in {"start", "restart"}
  /\ pc \in {"restart", "look", "clear"} => phase = "restart"
  /\ Forking /\ phase = "start" => n < NumForks[cur]

IInv == TypeOK /\ Flow /\ Covered /\ Known /\ IdsHaveRoom

-----------------------------------------------------------------------------
(* Sets of places                                                          *)

\* One place more or less changes the size of a set of places by at most one.
LEMMA PlaceSets ==
  ASSUME NEW S \in SUBSET Place, NEW T \in SUBSET Place
  PROVE  /\ Cardinality(S) \in Nat
         /\ S \subseteq T => Cardinality(S) <= Cardinality(T)
         /\ \A k \in T : S \subseteq T \ {k} => Cardinality(S) + 1 <= Cardinality(T)
         /\ \A k \in Place : T \subseteq S \cup {k} => Cardinality(T) <= Cardinality(S) + 1
<1>1. IsFiniteSet(Place)
  BY ForkServerAssumption, FS_Interval DEF Place
<1>2. \A U \in SUBSET Place : IsFiniteSet(U) /\ Cardinality(U) \in Nat
  BY <1>1, FS_Subset, FS_CardinalityType
<1>3. ASSUME NEW U \in SUBSET Place, NEW V \in SUBSET Place, U \subseteq V
      PROVE  Cardinality(U) <= Cardinality(V)
  BY <1>2, <1>3, FS_Subset
<1>4. ASSUME NEW k \in T, S \subseteq T \ {k}
      PROVE  Cardinality(S) + 1 <= Cardinality(T)
  <2>1. Cardinality(T \ {k}) = Cardinality(T) - 1
    BY <1>2, FS_RemoveElement
  <2>2. Cardinality(S) <= Cardinality(T \ {k})
    BY <1>3, <1>4
  <2> QED
    BY <2>1, <2>2, <1>2
<1>5. ASSUME NEW k \in Place, T \subseteq S \cup {k}
      PROVE  Cardinality(T) <= Cardinality(S) + 1
  <2>1. Cardinality(S \cup {k}) <= Cardinality(S) + 1
    BY <1>2, FS_AddElement
  <2>2. Cardinality(T) <= Cardinality(S \cup {k})
    BY <1>3, <1>5
  <2> QED
    BY <2>1, <2>2, <1>2
<1> QED
  BY <1>2, <1>3, <1>4, <1>5

-----------------------------------------------------------------------------
(* Types                                                                   *)

Numbers == Pids \cup {NoPid}
Child == [server : Servers, stage : {"new", "serving", "busy"},
          sigterm : {"none", "seen", "lost"}]

LEMMA InitTypeOK == Init => TypeOK
<1> SUFFICES ASSUME Init PROVE TypeOK
  OBVIOUS
<1> USE ForkServerAssumption DEF Init
<1>1. 1 \in Servers /\ 0 \in Place
  BY DEF Servers, Place
<1>2. /\ stopping \in [Servers -> BOOLEAN]
      /\ children_ids \in [Servers -> [Place -> Numbers]]
      /\ children_died \in [Servers -> [Place -> Numbers]]
      /\ children_died_count \in [Servers -> Place]
  BY <1>1 DEF Numbers
<1>3. registry \in [Place -> [pid : Pids, server : Servers] \cup {NoEntry}]
  OBVIOUS
<1>4. child \in [Pids -> Child \cup {None}]
  OBVIOUS
<1>5. /\ hups \in 0 .. MaxHups /\ deaths \in 0 .. MaxDeaths
      /\ failures \in 0 .. MaxFailures
  OBVIOUS
<1>6. /\ pc = "fork" /\ phase = "start" /\ pid = NoPid
      /\ cur \in Servers /\ n \in Place
      /\ saw_sighup \in BOOLEAN /\ saw_sigterm \in BOOLEAN
  BY <1>1
<1> USE ONLY <1>2, <1>3, <1>4, <1>5, <1>6
<1> QED
  BY DEF TypeOK, Numbers, Child

LEMMA NextServerType ==
  ASSUME TypeOK, NEW w, NEW a, NextServer(w, a)
  PROVE  cur' \in Servers /\ n' \in Place /\ pc' \in {w, a}
  BY ForkServerAssumption DEF TypeOK, NextServer, Last, Place, Servers

LEMMA ParentTypeOK == TypeOK /\ Parent => TypeOK'
<1> SUFFICES ASSUME TypeOK, Parent PROVE TypeOK'
  OBVIOUS
<1> USE DEF TypeOK, tables, control, flags
<1>1. CASE Sleep
  BY <1>1 DEF Sleep
<1>2. CASE CheckHup
  BY <1>2 DEF CheckHup
<1>3. CASE CheckTerm
  BY <1>3 DEF CheckTerm
<1>4. CASE Stop
  <2>1. child' \in [Pids -> Child \cup {None}]
    <3>1. \A p \in Living : [child[p] EXCEPT !.sigterm = "seen"] \in Child
      BY DEF Living, Child
    <3> QED
      BY <1>4, <3>1 DEF Stop, Child
  <2>2. AfterStop \in {"term", "stop", "ended"} \X {"hup", "last", "destroy", "kill"}
    BY DEF AfterStop
  <2>3. /\ cur' \in Servers /\ n' \in Place
        /\ pc' \in {"stop", "term", "ended"}
    BY <1>4, <2>2, NextServerType DEF Stop
  <2>4. phase' \in {"start", "restart", "hup", "term", "last", "destroy", "kill"}
    BY <1>4, <2>2 DEF Stop
  <2> QED
    BY <1>4, <2>1, <2>3, <2>4 DEF Stop, Child
<1>5. CASE Restart
  BY <1>5 DEF Restart
<1>6. CASE Look
  BY <1>6 DEF Look
<1>7. CASE Clear
  <2>1. Cleared(children_ids[cur], pid) \in [Place -> Numbers]
    BY DEF Cleared, Numbers
  <2>2. children_ids' \in [Servers -> [Place -> Numbers]]
    BY <1>7, <2>1 DEF Clear, Numbers
  <2>3. children_died' \in [Servers -> [Place -> Numbers]]
    BY <1>7 DEF Clear, Numbers
  <2> QED
    BY <1>7, <2>2, <2>3 DEF Clear, Numbers
<1>8. CASE NextChild
  <2>1. /\ cur' \in Servers /\ n' \in Place
        /\ pc' \in {"look", "fork", "restart", "sleep"}
    <3>1. CASE NextServer("restart", "sleep")
      BY <3>1, NextServerType
    <3>2. CASE NextServer("fork", "sleep")
      BY <3>2, NextServerType
    <3>3. CASE n' = n + 1 /\ pc' \in {"look", "fork"} /\ UNCHANGED cur /\ n' \in Place
      BY <3>3
    <3>4. n + 1 < NumForks[cur] => n + 1 \in Place
      BY ForkServerAssumption DEF Place
    <3> QED
      BY <1>8, <3>1, <3>2, <3>3, <3>4 DEF NextChild, LastPlace
  <2> QED
    BY <1>8, <2>1 DEF NextChild, LastPlace
<1>9. CASE ForkChild
  <2>1. child' \in [Pids -> Child \cup {None}] /\ pid' \in Pids
    BY <1>9 DEF ForkChild, Child
  <2> QED
    BY <1>9, <2>1, ForkServerAssumption DEF ForkChild, Child
<1>10. CASE ForkFails
  <2>1. cur' \in Servers /\ n' \in Place /\ pc' \in {"fork", "restart", "sleep"}
    BY <1>10, NextServerType DEF ForkFails
  <2> QED
    BY <1>10, <2>1, ForkServerAssumption DEF ForkFails
<1>11. CASE EnterId
  BY <1>11 DEF EnterId
<1>12. CASE Register
  <2>1. registry' \in [Place -> [pid : Pids, server : Servers] \cup {NoEntry}]
    BY <1>12 DEF Register
  <2> QED
    BY <1>12, <2>1 DEF Register
<1> QED
  BY <1>1, <1>2, <1>3, <1>4, <1>5, <1>6, <1>7, <1>8, <1>9, <1>10, <1>11, <1>12 DEF Parent

\* What a child does while it lives changes nothing but its own stage and flag.
LEMMA MoveFacts ==
  ASSUME TypeOK, NEW p \in Pids, ChildMoves(p)
  PROVE  /\ UNCHANGED <<control, tables, flags, deaths, failures>>
         /\ child' \in [Pids -> Child \cup {None}]
         /\ \A q \in Pids : child'[q].server = child[q].server
<1>1. child \in [Pids -> Child \cup {None}]
  BY DEF TypeOK, Child
<1>2. UNCHANGED <<control, tables, flags, deaths, failures>>
  BY DEF ChildMoves, ChildStart, ChildAccepts, ChildReturns
<1>3. child[p] \in Child
  BY <1>1 DEF ChildMoves, ChildStart, ChildAccepts, ChildReturns, None
<1> DEFINE started == [child[p] EXCEPT !.stage = "serving",
                                       !.sigterm = IF Asked(p) THEN "lost" ELSE @]
           accepting == [child[p] EXCEPT !.stage = "busy"]
           returned == [child[p] EXCEPT !.stage = "serving"]
<1>4. \A c \in {started, accepting, returned} : c \in Child /\ c.server = child[p].server
  BY <1>3 DEF Child
<1>5. /\ ChildStart(p) => child' = [child EXCEPT ![p] = started]
      /\ ChildAccepts(p) => child' = [child EXCEPT ![p] = accepting]
      /\ ChildReturns(p) => child' = [child EXCEPT ![p] = returned]
  <2>1. ChildStart(p) => child' = [child EXCEPT ![p] = started]
    BY <1>1 DEF ChildStart
  <2>2. ChildAccepts(p) => child' = [child EXCEPT ![p] = accepting]
    BY <1>1 DEF ChildAccepts
  <2>3. ChildReturns(p) => child' = [child EXCEPT ![p] = returned]
    BY <1>1 DEF ChildReturns
  <2> QED
    BY <2>1, <2>2, <2>3
<1> HIDE DEF started, accepting, returned
<1>6. PICK c \in {started, accepting, returned} : child' = [child EXCEPT ![p] = c]
  BY <1>5 DEF ChildMoves
<1> QED
  BY <1>1, <1>2, <1>4, <1>6

LEMMA ChildTypeOK ==
  ASSUME TypeOK, NEW p \in Pids, ChildMoves(p) \/ ChildEnds(p)
  PROVE  TypeOK'
<1> USE DEF TypeOK, tables, control, flags
<1>1. CASE ChildMoves(p)
  <2>1. /\ UNCHANGED <<control, tables, flags, deaths, failures>>
        /\ child' \in [Pids -> Child \cup {None}]
    BY <1>1, MoveFacts
  <2> QED
    BY <2>1 DEF Child
<1>2. CASE ChildEnds(p)
  <2>1. /\ registry' \in [Place -> [pid : Pids, server : Servers] \cup {NoEntry}]
        /\ children_died' \in [Servers -> [Place -> Numbers]]
        /\ children_died_count' \in [Servers -> Place]
    <3>1. CASE ~Ended
      <4>1. CASE \A k \in Place : registry[k].pid # p
        BY <1>2, <3>1, <4>1 DEF ChildEnds, SigChld, Numbers
      <4>2. ASSUME NEW k \in Place, registry[k].pid = p, Notify(registry[k].server, p),
                   registry' = [registry EXCEPT ![k] = NoEntry]
            PROVE  <2>1
        <5>1. registry[k].server \in Servers \/ registry[k] = NoEntry
          OBVIOUS
        <5>2. registry[k] # NoEntry
          BY <4>2, ForkServerAssumption DEF NoEntry
        <5>3. registry' \in [Place -> [pid : Pids, server : Servers] \cup {NoEntry}]
          BY <4>2
        <5>4. \A c \in Place : NextPlace(c) \in Place
          BY ForkServerAssumption DEF Place, NextPlace
        <5>5. CASE stopping[registry[k].server]
          BY <4>2, <5>3, <5>5 DEF Notify, Numbers
        <5>6. CASE ~stopping[registry[k].server]
          <6> DEFINE s == registry[k].server
          <6>1. children_died' \in [Servers -> [Place -> Numbers]]
            <7> DEFINE c == children_died_count[s]
            <7>1. s \in Servers /\ c \in Place
              BY <5>1, <5>2
            <7>2. children_died' = [children_died EXCEPT ![s][c] = p]
              BY <4>2, <5>6 DEF Notify
            <7>3. children_died \in [Servers -> [Place -> Numbers]] /\ p \in Numbers
              BY DEF Numbers
            <7> HIDE DEF s, c, TypeOK
            <7> QED
              BY <7>1, <7>2, <7>3
          <6>2. children_died_count' \in [Servers -> Place]
            <7> DEFINE c == NextPlace(children_died_count[s])
            <7>1. s \in Servers /\ c \in Place
              BY <5>1, <5>2, <5>4
            <7>2. children_died_count' = [children_died_count EXCEPT ![s] = c]
              BY <4>2, <5>6 DEF Notify
            <7>3. children_died_count \in [Servers -> Place]
              OBVIOUS
            <7> HIDE DEF s, c, TypeOK
            <7> QED
              BY <7>1, <7>2, <7>3
          <6> QED
            BY <5>3, <6>1, <6>2
        <5> QED
          BY <5>5, <5>6
      <4> QED
        BY <1>2, <3>1, <4>1, <4>2 DEF ChildEnds, SigChld, Without
    <3> QED
      BY <1>2, <3>1 DEF ChildEnds, Numbers
  <2>2. child' \in [Pids -> Child \cup {None}] /\ deaths' \in 0 .. MaxDeaths
    BY <1>2, ForkServerAssumption DEF ChildEnds, Child
  <2> QED
    BY <1>2, <2>1, <2>2 DEF ChildEnds, Child, Numbers
<1> QED
  BY <1>1, <1>2

LEMMA NextTypeOK == TypeOK /\ [Next]_vars => TypeOK'
<1> SUFFICES ASSUME TypeOK, [Next]_vars PROVE TypeOK'
  OBVIOUS
<1>1. CASE SigHup
  BY <1>1, ForkServerAssumption DEF SigHup, TypeOK, control, tables
<1>2. CASE SigTerm
  BY <1>2 DEF SigTerm, TypeOK, control, tables
<1>3. CASE UNCHANGED vars
  BY <1>3 DEF vars, TypeOK, control, tables, flags
<1> QED
  BY <1>1, <1>2, <1>3, ParentTypeOK, ChildTypeOK DEF Next

-----------------------------------------------------------------------------
(* The loops                                                               *)

LEMMA FlowStep == TypeOK /\ Flow /\ [Next]_vars => Flow'
<1> SUFFICES ASSUME TypeOK, Flow, [Next]_vars PROVE Flow'
  OBVIOUS
<1> USE DEF Flow, Forking
<1>1. CASE Parent
  <2>1. NumForks \in [Servers -> 1 .. MaxChild - 1]
    BY ForkServerAssumption
  <2>2. CASE Sleep \/ CheckHup \/ CheckTerm \/ Restart \/ Look \/ Clear
    BY <2>2 DEF Sleep, CheckHup, CheckTerm, Restart, Look, Clear
  <2>3. CASE Stop
    BY <2>3 DEF Stop, NextServer, AfterStop
  <2>4. CASE NextChild
    <3>1. CASE phase = "restart"
      BY <2>4, <3>1 DEF NextChild, NextServer, LastPlace
    <3>2. CASE phase = "start"
      <4>1. CASE NextServer("fork", "sleep")
        <5>1. cur' \in Servers /\ n' = 0
          BY <4>1, NextServerType DEF NextServer
        <5>2. pc' \in {"fork", "sleep"} /\ phase' = "start"
          BY <2>4, <3>2, <4>1 DEF NextChild, NextServer, LastPlace
        <5>3. n' < NumForks[cur']
          BY <2>1, <5>1 DEF NextChild, LastPlace
        <5> QED
          BY <2>1, <5>2, <5>3, ForkServerAssumption
      <4>2. CASE n + 1 < NumForks[cur] /\ n' = n + 1 /\ pc' = "fork" /\ UNCHANGED cur
        BY <2>4, <3>2, <4>2 DEF NextChild, LastPlace
      <4> QED
        BY <2>4, <3>2, <4>1, <4>2 DEF NextChild, LastPlace
    <3> QED
      BY <2>4, <3>1, <3>2 DEF NextChild, LastPlace
  <2>5. CASE ForkChild \/ EnterId \/ Register
    BY <2>5 DEF ForkChild, EnterId, Register
  <2>6. CASE ForkFails
    BY <2>1, <2>6, NextServerType DEF ForkFails, NextServer
  <2> QED
    BY <1>1, <2>2, <2>3, <2>4, <2>5, <2>6 DEF Parent
<1>2. CASE UNCHANGED control
  BY <1>2 DEF control
<1>3. CASE UNCHANGED vars
  BY <1>3 DEF vars, control
<1> QED
  BY <1>1, <1>2, <1>3 DEF Next, SigHup, SigTerm, ChildMoves, ChildStart, ChildAccepts, ChildReturns, ChildEnds

-----------------------------------------------------------------------------
(* Every entry is covered                                                  *)

\* The steps that leave the tables of numbers alone, and what is in hand.
Idle == ~(pc \in {"clear", "register"})

LEMMA CoveredQuiet ==
  ASSUME Covered, UNCHANGED <<children_ids, children_died, registry>>,
         UNCHANGED control \/ (Idle /\ Idle')
  PROVE  Covered'
<1> SUFFICES ASSUME NEW s \in Servers, NEW p \in Pids
             PROVE  (Cardinality(RegisteredAt(s, p)) + Cardinality(DiedAt(s, p))
                       + InHand(s, p) <= Cardinality(HeldAt(s, p)))'
  BY DEF Covered
<1>1. /\ RegisteredAt(s, p)' = RegisteredAt(s, p)
      /\ HeldAt(s, p)' = HeldAt(s, p)
      /\ DiedAt(s, p)' = DiedAt(s, p)
      /\ InHand(s, p)' = InHand(s, p)
  BY DEF RegisteredAt, HeldAt, DiedAt, InHand, Idle, control
<1> QED
  BY <1>1 DEF Covered

LEMMA Sets ==
  ASSUME NEW s, NEW p
  PROVE  /\ RegisteredAt(s, p) \in SUBSET Place /\ RegisteredAt(s, p)' \in SUBSET Place
         /\ DiedAt(s, p) \in SUBSET Place /\ DiedAt(s, p)' \in SUBSET Place
         /\ HeldAt(s, p) \in SUBSET Place /\ HeldAt(s, p)' \in SUBSET Place
  BY DEF RegisteredAt, DiedAt, HeldAt

LEMMA LookCovered == TypeOK /\ Covered /\ Look => Covered'
<1> SUFFICES ASSUME TypeOK, Covered, Look, NEW s \in Servers, NEW p \in Pids
             PROVE  (Cardinality(RegisteredAt(s, p)) + Cardinality(DiedAt(s, p))
                       + InHand(s, p) <= Cardinality(HeldAt(s, p)))'
  BY DEF Covered
<1>1. RegisteredAt(s, p)' = RegisteredAt(s, p) /\ HeldAt(s, p)' = HeldAt(s, p)
  BY DEF Look, tables, RegisteredAt, HeldAt
<1>2. DiedAt(s, p)' \subseteq DiedAt(s, p)
  BY DEF Look, tables, DiedAt
<1>3. InHand(s, p)' = 1 => n \in DiedAt(s, p) /\ DiedAt(s, p)' \subseteq DiedAt(s, p) \ {n}
  BY DEF Look, tables, DiedAt, InHand, TypeOK
<1>4. InHand(s, p) = 0 /\ InHand(s, p)' \in {0, 1}
  BY DEF Look, InHand
<1>5. Cardinality(DiedAt(s, p)') + InHand(s, p)' <= Cardinality(DiedAt(s, p))
  BY <1>2, <1>3, <1>4, Sets, PlaceSets
<1>6. /\ Cardinality(DiedAt(s, p)') \in Nat /\ Cardinality(DiedAt(s, p)) \in Nat
      /\ Cardinality(RegisteredAt(s, p)) \in Nat /\ Cardinality(HeldAt(s, p)) \in Nat
  BY Sets, PlaceSets
<1>7. Cardinality(RegisteredAt(s, p)) + Cardinality(DiedAt(s, p)) + InHand(s, p)
        <= Cardinality(HeldAt(s, p))
  BY DEF Covered
<1> QED
  BY <1>1, <1>4, <1>5, <1>6, <1>7

\* A death that is replaced has its number in children_ids.
LEMMA ClearedHeld ==
  ASSUME TypeOK, Covered, Clear
  PROVE  \E k \in Place : /\ children_ids[cur][k] = pid
                          /\ children_ids' = [children_ids EXCEPT ![cur][k] = NoPid]
<1>1. pid \in Pids /\ cur \in Servers
  BY DEF TypeOK, Clear
<1>2. Cardinality(HeldAt(cur, pid)) >= 1
  <2>1. InHand(cur, pid) = 1
    BY DEF InHand, Clear
  <2>2. /\ Cardinality(RegisteredAt(cur, pid)) \in Nat
        /\ Cardinality(DiedAt(cur, pid)) \in Nat
        /\ Cardinality(HeldAt(cur, pid)) \in Nat
    BY Sets, PlaceSets
  <2>3. Cardinality(RegisteredAt(cur, pid)) + Cardinality(DiedAt(cur, pid))
          + InHand(cur, pid) <= Cardinality(HeldAt(cur, pid))
    BY <1>1 DEF Covered
  <2> QED
    BY <2>1, <2>2, <2>3
<1>3. HeldAt(cur, pid) # {}
  BY <1>2, FS_EmptySet
<1>4. \E k \in Place : children_ids[cur][k] = pid
  BY <1>3 DEF HeldAt
<1> DEFINE k == CHOOSE k \in Place : children_ids[cur][k] = pid
<1>5. k \in Place /\ children_ids[cur][k] = pid
  BY <1>4
<1>6. children_ids' = [children_ids EXCEPT ![cur][k] = NoPid]
  BY <1>4 DEF Clear, Cleared
<1> QED
  BY <1>5, <1>6

LEMMA ClearCovered == TypeOK /\ Covered /\ Clear => Covered'
<1> SUFFICES ASSUME TypeOK, Covered, Clear, NEW s \in Servers, NEW p \in Pids
             PROVE  (Cardinality(RegisteredAt(s, p)) + Cardinality(DiedAt(s, p))
                       + InHand(s, p) <= Cardinality(HeldAt(s, p)))'
  BY DEF Covered
<1>0. pid \in Pids /\ cur \in Servers /\ n \in Place /\ NoPid \notin Pids
  BY ForkServerAssumption DEF TypeOK, Clear
<1>1. RegisteredAt(s, p)' = RegisteredAt(s, p)
  BY DEF Clear, RegisteredAt
<1>2. DiedAt(s, p)' \subseteq DiedAt(s, p)
  BY <1>0 DEF Clear, DiedAt, TypeOK
<1>3. InHand(s, p)' = 0 /\ InHand(s, p) \in {0, 1}
  BY DEF Clear, InHand
<1>4. PICK k \in Place : /\ children_ids[cur][k] = pid
                        /\ children_ids' = [children_ids EXCEPT ![cur][k] = NoPid]
  BY ClearedHeld
<1>5. HeldAt(s, p) \subseteq HeldAt(s, p)' \cup {k}
  BY <1>4, <1>0 DEF HeldAt, TypeOK
<1>6. InHand(s, p) = 0 => HeldAt(s, p) \subseteq HeldAt(s, p)'
  BY <1>4, <1>0 DEF HeldAt, TypeOK, InHand, Clear
<1>7. Cardinality(HeldAt(s, p)) <= Cardinality(HeldAt(s, p)') + InHand(s, p)
  BY <1>3, <1>5, <1>6, Sets, PlaceSets
<1>8. Cardinality(DiedAt(s, p)') <= Cardinality(DiedAt(s, p))
  BY <1>2, Sets, PlaceSets
<1>9. /\ Cardinality(DiedAt(s, p)') \in Nat /\ Cardinality(DiedAt(s, p)) \in Nat
      /\ Cardinality(RegisteredAt(s, p)) \in Nat
      /\ Cardinality(HeldAt(s, p)) \in Nat /\ Cardinality(HeldAt(s, p)') \in Nat
  BY Sets, PlaceSets
<1>10. Cardinality(RegisteredAt(s, p)) + Cardinality(DiedAt(s, p)) + InHand(s, p)
         <= Cardinality(HeldAt(s, p))
  BY DEF Covered
<1> QED
  BY <1>1, <1>3, <1>7, <1>8, <1>9, <1>10

LEMMA EnterCovered == TypeOK /\ Covered /\ EnterId => Covered'
<1> SUFFICES ASSUME TypeOK, Covered, EnterId, NEW s \in Servers, NEW p \in Pids
             PROVE  (Cardinality(RegisteredAt(s, p)) + Cardinality(DiedAt(s, p))
                       + InHand(s, p) <= Cardinality(HeldAt(s, p)))'
  BY DEF Covered
<1>0. pid \in Pids /\ cur \in Servers /\ NoPid \notin Pids
  BY ForkServerAssumption DEF TypeOK, EnterId
<1>1. RegisteredAt(s, p)' = RegisteredAt(s, p) /\ DiedAt(s, p)' = DiedAt(s, p)
  BY DEF EnterId, RegisteredAt, DiedAt
<1>2. InHand(s, p) = 0 /\ InHand(s, p)' \in {0, 1}
  BY DEF EnterId, InHand
<1>3. PICK k \in Place : /\ children_ids[cur][k] = NoPid
                        /\ children_ids' = [children_ids EXCEPT ![cur][k] = pid]
  BY DEF EnterId
<1>4. HeldAt(s, p) \subseteq HeldAt(s, p)'
  BY <1>3, <1>0 DEF HeldAt, TypeOK
<1>5. InHand(s, p)' = 1 => k \in HeldAt(s, p)' /\ k \notin HeldAt(s, p)
  BY <1>3, <1>0 DEF HeldAt, TypeOK, InHand, EnterId
<1>6. Cardinality(HeldAt(s, p)) + InHand(s, p)' <= Cardinality(HeldAt(s, p)')
  <2>1. CASE InHand(s, p)' = 0
    BY <2>1, <1>4, Sets, PlaceSets
  <2>2. CASE InHand(s, p)' = 1
    <3>1. HeldAt(s, p) \subseteq HeldAt(s, p)' \ {k}
      BY <2>2, <1>4, <1>5
    <3> QED
      BY <2>2, <3>1, <1>5, Sets, PlaceSets
  <2> QED
    BY <1>2, <2>1, <2>2
<1>7. /\ Cardinality(DiedAt(s, p)) \in Nat /\ Cardinality(RegisteredAt(s, p)) \in Nat
      /\ Cardinality(HeldAt(s, p)) \in Nat /\ Cardinality(HeldAt(s, p)') \in Nat
  BY Sets, PlaceSets
<1>8. Cardinality(RegisteredAt(s, p)) + Cardinality(DiedAt(s, p)) + InHand(s, p)
        <= Cardinality(HeldAt(s, p))
  BY DEF Covered
<1> QED
  BY <1>1, <1>2, <1>6, <1>7, <1>8

LEMMA RegisterCovered == TypeOK /\ Covered /\ Register => Covered'
<1> SUFFICES ASSUME TypeOK, Covered, Register, NEW s \in Servers, NEW p \in Pids
             PROVE  (Cardinality(RegisteredAt(s, p)) + Cardinality(DiedAt(s, p))
                       + InHand(s, p) <= Cardinality(HeldAt(s, p)))'
  BY DEF Covered
<1>1. HeldAt(s, p)' = HeldAt(s, p) /\ DiedAt(s, p)' = DiedAt(s, p)
  BY DEF Register, HeldAt, DiedAt
<1>2. InHand(s, p)' = 0 /\ InHand(s, p) \in {0, 1}
  BY DEF Register, InHand
<1>3. PICK k \in Place :
        registry' = [registry EXCEPT ![k] = [pid |-> pid, server |-> cur]]
  BY DEF Register
<1>4. RegisteredAt(s, p)' \subseteq RegisteredAt(s, p) \cup {k}
  BY <1>3 DEF RegisteredAt, TypeOK
<1>5. InHand(s, p) = 0 => RegisteredAt(s, p)' \subseteq RegisteredAt(s, p)
  BY <1>3 DEF RegisteredAt, TypeOK, InHand, Register
<1>6. Cardinality(RegisteredAt(s, p)') <= Cardinality(RegisteredAt(s, p)) + InHand(s, p)
  BY <1>2, <1>4, <1>5, Sets, PlaceSets
<1>7. /\ Cardinality(DiedAt(s, p)) \in Nat /\ Cardinality(HeldAt(s, p)) \in Nat
      /\ Cardinality(RegisteredAt(s, p)) \in Nat
      /\ Cardinality(RegisteredAt(s, p)') \in Nat
  BY Sets, PlaceSets
<1>8. Cardinality(RegisteredAt(s, p)) + Cardinality(DiedAt(s, p)) + InHand(s, p)
        <= Cardinality(HeldAt(s, p))
  BY DEF Covered
<1> QED
  BY <1>1, <1>2, <1>6, <1>7, <1>8

\* SIGCHLD: an entry leaves the registry, and at most one enters the ring.
LEMMA EndsCovered ==
  ASSUME TypeOK, Covered, NEW q \in Pids, ChildEnds(q)
  PROVE  Covered'
<1> SUFFICES ASSUME NEW s \in Servers, NEW p \in Pids
             PROVE  (Cardinality(RegisteredAt(s, p)) + Cardinality(DiedAt(s, p))
                       + InHand(s, p) <= Cardinality(HeldAt(s, p)))'
  BY DEF Covered
<1>1. HeldAt(s, p)' = HeldAt(s, p) /\ InHand(s, p)' = InHand(s, p)
  BY DEF ChildEnds, HeldAt, InHand, control
<1>2. pc' = pc /\ cur' = cur /\ n' = n
  BY DEF ChildEnds, control
<1>3. /\ Cardinality(DiedAt(s, p)) \in Nat /\ Cardinality(DiedAt(s, p)') \in Nat
      /\ Cardinality(RegisteredAt(s, p)) \in Nat
      /\ Cardinality(RegisteredAt(s, p)') \in Nat
      /\ Cardinality(HeldAt(s, p)) \in Nat
      /\ InHand(s, p) \in Nat
  BY Sets, PlaceSets DEF InHand
<1>4. Cardinality(RegisteredAt(s, p)') + Cardinality(DiedAt(s, p)')
        <= Cardinality(RegisteredAt(s, p)) + Cardinality(DiedAt(s, p))
  <2>1. CASE UNCHANGED <<registry, children_died>>
    <3>1. RegisteredAt(s, p)' = RegisteredAt(s, p) /\ DiedAt(s, p)' = DiedAt(s, p)
      BY <1>2, <2>1 DEF RegisteredAt, DiedAt
    <3> QED
      BY <3>1, <1>3
  <2>2. ASSUME NEW k \in Place, registry[k].pid = q, Notify(registry[k].server, q),
               registry' = [registry EXCEPT ![k] = NoEntry]
        PROVE  <1>4
    <3>1. registry[k] = [pid |-> q, server |-> registry[k].server]
          /\ registry[k].server \in Servers
      BY <2>2, ForkServerAssumption DEF TypeOK, NoEntry
    <3>2. RegisteredAt(s, p)' \subseteq RegisteredAt(s, p)
      BY <2>2, ForkServerAssumption DEF RegisteredAt, TypeOK, NoEntry
    <3>3. CASE s = registry[k].server /\ p = q
      <4>1. /\ k \in RegisteredAt(s, p)
            /\ RegisteredAt(s, p)' \subseteq RegisteredAt(s, p) \ {k}
        BY <2>2, <3>1, <3>2, <3>3, ForkServerAssumption DEF RegisteredAt, TypeOK, NoEntry
      <4>2. Cardinality(RegisteredAt(s, p)') + 1 <= Cardinality(RegisteredAt(s, p))
        BY <4>1, Sets, PlaceSets
      <4>3. \E c \in Place : DiedAt(s, p)' \subseteq DiedAt(s, p) \cup {c}
        <5>1. children_died_count[s] \in Place
          BY DEF TypeOK
        <5>2. DiedAt(s, p)' \subseteq DiedAt(s, p) \cup {children_died_count[s]}
          BY <1>2, <2>2, <3>3, <5>1 DEF DiedAt, Notify, TypeOK
        <5> QED
          BY <5>1, <5>2
      <4>4. Cardinality(DiedAt(s, p)') <= Cardinality(DiedAt(s, p)) + 1
        BY <4>3, Sets, PlaceSets
      <4> QED
        BY <4>2, <4>4, <1>3
    <3>4. CASE ~(s = registry[k].server /\ p = q)
      <4>1. DiedAt(s, p)' \subseteq DiedAt(s, p)
        <5> DEFINE r == registry[k].server
        <5>1. CASE stopping[r]
          BY <1>2, <2>2, <5>1 DEF DiedAt, Notify
        <5>2. CASE ~stopping[r]
          <6> DEFINE c == children_died_count[r]
          <6>1. children_died' = [children_died EXCEPT ![r][c] = q]
            BY <2>2, <5>2 DEF Notify
          <6>2. r \in Servers /\ c \in Place /\ (s # r \/ p # q)
            BY <3>1, <3>4 DEF TypeOK
          <6>3. \A j \in Place : children_died'[s][j] = p => children_died[s][j] = p
            <7> HIDE DEF r, c
            <7>1. children_died \in [Servers -> [Place -> Numbers]]
              BY DEF TypeOK, Numbers
            <7> QED
              BY <6>1, <6>2, <7>1
          <6> QED
            BY <1>2, <6>3 DEF DiedAt
        <5> QED
          BY <5>1, <5>2
      <4>2. /\ Cardinality(DiedAt(s, p)') <= Cardinality(DiedAt(s, p))
            /\ Cardinality(RegisteredAt(s, p)') <= Cardinality(RegisteredAt(s, p))
        BY <3>2, <4>1, Sets, PlaceSets
      <4> QED
        BY <4>2, <1>3
    <3> QED
      BY <3>3, <3>4
  <2> QED
    BY <2>1, <2>2 DEF ChildEnds, SigChld, Without
<1>5. Cardinality(RegisteredAt(s, p)) + Cardinality(DiedAt(s, p)) + InHand(s, p)
        <= Cardinality(HeldAt(s, p))
  BY DEF Covered
<1> QED
  BY <1>1, <1>3, <1>4, <1>5

LEMMA CoveredStep == TypeOK /\ Flow /\ Covered /\ [Next]_vars => Covered'
<1> SUFFICES ASSUME TypeOK, Covered, [Next]_vars PROVE Covered'
  OBVIOUS
<1>1. CASE Parent
  <2>1. CASE Sleep \/ CheckHup \/ CheckTerm
    BY <2>1, CoveredQuiet DEF Sleep, CheckHup, CheckTerm, tables, Idle
  <2>2. CASE Stop
    <3>1. pc' \in {"stop", "term", "ended"}
      BY <2>2 DEF Stop, NextServer, AfterStop
    <3> QED
      BY <2>2, <3>1, CoveredQuiet DEF Stop, Idle
  <2>3. CASE Restart
    BY <2>3, CoveredQuiet DEF Restart, Idle
  <2>4. CASE NextChild
    <3>1. pc' \in {"look", "fork", "restart", "sleep"}
      BY <2>4 DEF NextChild, NextServer, LastPlace
    <3> QED
      BY <2>4, <3>1, CoveredQuiet DEF NextChild, tables, Idle
  <2>5. CASE ForkChild
    BY <2>5, CoveredQuiet DEF ForkChild, Idle
  <2>6. CASE ForkFails
    <3>1. pc' \in {"fork", "restart", "sleep"}
      BY <2>6 DEF ForkFails, NextServer
    <3> QED
      BY <2>6, <3>1, CoveredQuiet DEF ForkFails, Idle
  <2> QED
    BY <1>1, <2>1, <2>2, <2>3, <2>4, <2>5, <2>6, LookCovered, ClearCovered,
       EnterCovered, RegisterCovered DEF Parent
<1>2. CASE UNCHANGED <<control, tables>>
  BY <1>2, CoveredQuiet DEF tables
<1> QED
  BY <1>1, <1>2, EndsCovered DEF Next, SigHup, SigTerm, ChildMoves, ChildStart, ChildAccepts, ChildReturns, vars

-----------------------------------------------------------------------------
(* Every living child is known                                             *)

\* Entries stay, and children stay where they are: nobody is lost to the registry.
LEMMA KnownQuiet ==
  ASSUME Known, registry' = registry,
         \A p \in Pids : child'[p].server # 0 => child'[p].server = child[p].server,
         UNCHANGED <<pid, cur, pc>> \/ ~(pc \in {"place", "register"})
         \/ (pc = "place" /\ pc' = "register" /\ UNCHANGED <<pid, cur>>)
  PROVE  Known'
<1> SUFFICES ASSUME NEW s \in Servers, NEW p \in Pids, child'[p].server = s
             PROVE  (\/ RegisteredAt(s, p) # {}
                     \/ p = pid /\ s = cur /\ pc \in {"place", "register"})'
  BY DEF Known
<1>1. RegisteredAt(s, p)' = RegisteredAt(s, p)
  BY DEF RegisteredAt
<1>2. s # 0
  BY DEF Servers
<1> QED
  BY <1>1, <1>2 DEF Known

LEMMA KnownStep == TypeOK /\ Known /\ [Next]_vars => Known'
<1> SUFFICES ASSUME TypeOK, Known, [Next]_vars PROVE Known'
  OBVIOUS
<1>1. CASE Parent
  <2>1. CASE Sleep \/ CheckHup \/ CheckTerm \/ Look
    BY <2>1, KnownQuiet DEF Sleep, CheckHup, CheckTerm, Look, tables
  <2>2. CASE Restart \/ NextChild
    BY <2>2, KnownQuiet DEF Restart, NextChild, tables
  <2>3. CASE Clear
    BY <2>3, KnownQuiet DEF Clear
  <2>4. CASE ForkFails
    BY <2>4, KnownQuiet DEF ForkFails
  <2>5. CASE EnterId
    BY <2>5, KnownQuiet DEF EnterId
  <2>6. CASE Stop
    <3>1. \A p \in Pids : child'[p].server = child[p].server
      BY <2>6 DEF Stop, TypeOK, Living, None
    <3> QED
      BY <2>6, <3>1, KnownQuiet DEF Stop
  <2>7. CASE ForkChild
    <3> SUFFICES ASSUME NEW s \in Servers, NEW p \in Pids, child'[p].server = s
                 PROVE  (\/ RegisteredAt(s, p) # {}
                         \/ p = pid /\ s = cur /\ pc \in {"place", "register"})'
      BY DEF Known
    <3>1. CASE p = pid'
      BY <2>7, <3>1 DEF ForkChild, TypeOK
    <3>2. CASE p # pid'
      <4>1. child'[p] = child[p]
        BY <2>7, <3>2 DEF ForkChild, TypeOK
      <4>2. RegisteredAt(s, p) # {}
        BY <2>7, <4>1 DEF Known, ForkChild
      <4> QED
        BY <2>7, <4>2 DEF ForkChild, RegisteredAt
    <3> QED
      BY <3>1, <3>2
  <2>8. CASE Register
    <3> SUFFICES ASSUME NEW s \in Servers, NEW p \in Pids, child'[p].server = s
                 PROVE  RegisteredAt(s, p)' # {}
      BY DEF Known
    <3>1. PICK k \in Place :
            /\ registry[k] = NoEntry
            /\ registry' = [registry EXCEPT ![k] = [pid |-> pid, server |-> cur]]
      BY <2>8 DEF Register
    <3>2. CASE p = pid /\ s = cur
      <4>1. k \in RegisteredAt(s, p)'
        BY <3>1, <3>2 DEF RegisteredAt, TypeOK
      <4> QED
        BY <4>1
    <3>3. CASE ~(p = pid /\ s = cur)
      <4>1. RegisteredAt(s, p) # {}
        BY <2>8, <3>3 DEF Known, Register
      <4>2. PICK j \in Place : registry[j] = [pid |-> p, server |-> s]
        BY <4>1 DEF RegisteredAt
      <4>3. j # k
        BY <3>1, <4>2, ForkServerAssumption DEF NoEntry
      <4>4. j \in RegisteredAt(s, p)'
        BY <3>1, <4>2, <4>3 DEF RegisteredAt, TypeOK
      <4> QED
        BY <4>4
    <3> QED
      BY <3>2, <3>3
  <2> QED
    BY <1>1, <2>1, <2>2, <2>3, <2>4, <2>5, <2>6, <2>7, <2>8 DEF Parent
<1>2. ASSUME NEW q \in Pids, ChildEnds(q)
      PROVE  Known'
  <2> SUFFICES ASSUME NEW s \in Servers, NEW p \in Pids, child'[p].server = s
               PROVE  (\/ RegisteredAt(s, p) # {}
                       \/ p = pid /\ s = cur /\ pc \in {"place", "register"})'
    BY DEF Known
  <2>1. p # q /\ child'[p] = child[p]
    BY <1>2 DEF ChildEnds, TypeOK, None, Servers
  <2>2. UNCHANGED <<pid, cur, pc>>
    BY <1>2 DEF ChildEnds, control
  <2>3. RegisteredAt(s, p) \subseteq RegisteredAt(s, p)'
    BY <1>2, <2>1 DEF ChildEnds, SigChld, Without, RegisteredAt, TypeOK
  <2> QED
    BY <2>1, <2>2, <2>3 DEF Known
<1>3. ASSUME NEW q \in Pids, ChildMoves(q)
      PROVE  Known'
  <2>1. /\ \A p \in Pids : child'[p].server = child[p].server
        /\ UNCHANGED <<control, tables>>
    BY <1>3, MoveFacts
  <2> QED
    BY <2>1, KnownQuiet DEF control, tables
<1>4. CASE UNCHANGED <<control, tables, child>>
  BY <1>4, KnownQuiet DEF control, tables
<1> QED
  BY <1>1, <1>2, <1>3, <1>4 DEF Next, SigHup, SigTerm, vars

-----------------------------------------------------------------------------
(* Room in children_ids                                                    *)

LEMMA TakenSets ==
  ASSUME NEW s
  PROVE  /\ Taken(s) \in SUBSET Place /\ Taken(s)' \in SUBSET Place
         /\ Cardinality(Taken(s)) \in Nat /\ Cardinality(Taken(s)') \in Nat
<1>1. Taken(s) \in SUBSET Place /\ Taken(s)' \in SUBSET Place
  BY DEF Taken
<1> QED
  BY <1>1, PlaceSets

LEMMA OwedType ==
  ASSUME NEW s \in Servers
  PROVE  /\ TypeOK /\ Flow => Owed(s) \in Nat
         /\ TypeOK' /\ Flow' => Owed(s)' \in Nat
<1>1. NumForks[s] \in Nat
  BY ForkServerAssumption
<1>2. ASSUME TypeOK, Flow PROVE Owed(s) \in Nat
  <2>1. n \in Nat
    BY <1>2, ForkServerAssumption DEF TypeOK, Place
  <2> QED
    BY <1>1, <1>2, <2>1 DEF Flow, Owed, Placed, Forking
<1>3. ASSUME TypeOK', Flow' PROVE Owed(s)' \in Nat
  <2>1. n' \in Nat
    BY <1>3, ForkServerAssumption DEF TypeOK, Place
  <2> QED
    BY <1>1, <1>3, <2>1 DEF Flow, Owed, Placed, Forking
<1> QED
  BY <1>2, <1>3

\* A step that takes no place and begins no fork.
LEMMA RoomQuiet ==
  ASSUME IdsHaveRoom, TypeOK, Flow, Flow', TypeOK', children_ids' = children_ids,
         \A s \in Servers : Owed(s)' <= Owed(s)
  PROVE  IdsHaveRoom'
<1> SUFFICES ASSUME NEW s \in Servers
             PROVE  Cardinality(Taken(s)') + Owed(s)' <= NumForks[s]
  BY DEF IdsHaveRoom
<1>1. Taken(s)' = Taken(s)
  BY DEF Taken
<1>2. Owed(s) \in Nat /\ Owed(s)' \in Nat /\ Cardinality(Taken(s)) \in Nat
      /\ NumForks[s] \in Nat
  BY OwedType, TakenSets, ForkServerAssumption
<1>3. Cardinality(Taken(s)) + Owed(s) <= NumForks[s]
  BY DEF IdsHaveRoom
<1> QED
  BY <1>1, <1>2, <1>3

LEMMA IdsHaveRoomStep ==
  ASSUME TypeOK, TypeOK', Flow, Flow', Covered, IdsHaveRoom, [Next]_vars
  PROVE  IdsHaveRoom'
<1> USE ForkServerAssumption DEF Owed, Placed, Forking
<1>1. CASE Parent
  <2>1. CASE Sleep \/ CheckHup \/ CheckTerm \/ Restart \/ Look
    BY <2>1, RoomQuiet DEF Sleep, CheckHup, CheckTerm, Restart, Look, tables, TypeOK, Flow
  <2>2. CASE Stop
    <3>1. pc' \in {"stop", "term", "ended"}
      BY <2>2 DEF Stop, NextServer, AfterStop
    <3> QED
      BY <2>2, <3>1, RoomQuiet DEF Stop
  <2>3. CASE NextChild
    <3>0. /\ cur \in Servers /\ n \in Nat /\ phase \in {"start", "restart"}
          /\ phase = "start" => n < NumForks[cur]
          /\ pc = "next" /\ phase' = phase
      BY <2>3 DEF NextChild, TypeOK, Flow, Place
    <3>1. ASSUME NEW s \in Servers
          PROVE  Owed(s)' <= Owed(s)
      <4>1. NumForks[s] \in Nat /\ NumForks[cur] \in Nat /\ NumForks[s] >= 1
        BY <3>0
      <4>2. CASE n' = n + 1 /\ pc' \in {"look", "fork"} /\ cur' = cur
                 /\ (pc' = "fork" => phase = "start")
        BY <3>0, <4>1, <4>2 DEF Servers
      <4>3. CASE Last /\ pc' \in {"restart", "sleep"}
        BY <3>0, <4>1, <4>3 DEF Servers
      <4>4. CASE /\ cur' = cur + 1 /\ n' = 0
                 /\ phase = "start" /\ pc' = "fork"
        BY <3>0, <4>1, <4>4 DEF Servers
      <4>5. CASE pc' = "restart"
        BY <3>0, <4>1, <4>5 DEF Servers
      <4> QED
        BY <2>3, <3>0, <4>2, <4>3, <4>4, <4>5 DEF NextChild, NextServer, LastPlace
    <3> QED
      BY <2>3, <3>1, RoomQuiet DEF NextChild, tables
  <2>4. CASE ForkChild
    <3>1. \A s \in Servers : Owed(s)' = Owed(s)
      BY <2>4 DEF ForkChild
    <3>2. \A s \in Servers : Owed(s) \in Nat
      BY OwedType
    <3> QED
      BY <2>4, <3>1, <3>2, RoomQuiet DEF ForkChild
  <2>5. CASE ForkFails
    <3>1. \A s \in Servers : Owed(s)' <= Owed(s)
      BY <2>5, SMTT(30) DEF ForkFails, NextServer, Last, TypeOK, Flow, Place, Servers
    <3> QED
      BY <2>5, <3>1, RoomQuiet DEF ForkFails
  <2>6. CASE Register
    <3>1. \A s \in Servers : Owed(s)' = Owed(s)
      BY <2>6 DEF Register
    <3>2. \A s \in Servers : Owed(s) \in Nat
      BY OwedType
    <3> QED
      BY <2>6, <3>1, <3>2, RoomQuiet DEF Register
  <2>7. CASE Clear
    <3> SUFFICES ASSUME NEW s \in Servers
                 PROVE  Cardinality(Taken(s)') + Owed(s)' <= NumForks[s]
      BY DEF IdsHaveRoom
    <3>1. PICK k \in Place : /\ children_ids[cur][k] = pid
                            /\ children_ids' = [children_ids EXCEPT ![cur][k] = NoPid]
      BY <2>7, ClearedHeld
    <3>2. Cardinality(Taken(s)) + Owed(s) <= NumForks[s]
      BY DEF IdsHaveRoom
    <3>3. CASE s = cur
      <4>1. Owed(s) = 0 /\ Owed(s)' = 1
        BY <2>7, <3>3 DEF Clear, Flow, TypeOK, Servers
      <4>2. k \in Taken(s) /\ Taken(s)' \subseteq Taken(s) \ {k}
        <5>1. /\ children_ids \in [Servers -> [Place -> Numbers]]
              /\ pid # NoPid /\ cur \in Servers
          BY <2>7 DEF TypeOK, Clear, Numbers
        <5> QED
          BY <3>1, <3>3, <5>1 DEF Taken
      <4>3. Cardinality(Taken(s)') + 1 <= Cardinality(Taken(s))
        BY <4>2, TakenSets, PlaceSets
      <4> QED
        BY <3>2, <4>1, <4>3, TakenSets
    <3>4. CASE s # cur
      <4>1. Owed(s) = 0 /\ Owed(s)' = 0
        BY <2>7, <3>4 DEF Clear, Flow, TypeOK, Servers
      <4>2. Taken(s)' = Taken(s)
        BY <3>1, <3>4 DEF Taken, TypeOK
      <4> QED
        BY <3>2, <4>1, <4>2
    <3> QED
      BY <3>3, <3>4
  <2>8. CASE EnterId
    <3> SUFFICES ASSUME NEW s \in Servers
                 PROVE  Cardinality(Taken(s)') + Owed(s)' <= NumForks[s]
      BY DEF IdsHaveRoom
    <3>1. PICK k \in Place : children_ids' = [children_ids EXCEPT ![cur][k] = pid]
      BY <2>8 DEF EnterId
    <3>2. Cardinality(Taken(s)) + Owed(s) <= NumForks[s] /\ Owed(s) \in Nat
      BY OwedType DEF IdsHaveRoom
    <3>3. CASE s = cur
      <4>1. Owed(s)' + 1 = Owed(s)
        BY <2>8, <3>3 DEF EnterId, Flow, TypeOK, Servers, Place
      <4>2. Taken(s)' \subseteq Taken(s) \cup {k}
        BY <3>1, <3>3 DEF Taken, TypeOK
      <4>3. Cardinality(Taken(s)') <= Cardinality(Taken(s)) + 1
        BY <4>2, TakenSets, PlaceSets
      <4>4. Owed(s)' \in Nat
        BY OwedType
      <4> HIDE DEF Owed
      <4> QED
        BY <3>2, <4>1, <4>3, <4>4, TakenSets
    <3>4. CASE s # cur
      <4>1. Owed(s)' = Owed(s)
        BY <2>8, <3>4 DEF EnterId
      <4>2. Taken(s)' = Taken(s)
        BY <3>1, <3>4 DEF Taken, TypeOK
      <4> HIDE DEF Owed
      <4> QED
        BY <3>2, <4>1, <4>2
    <3> QED
      BY <3>3, <3>4
  <2> QED
    BY <1>1, <2>1, <2>2, <2>3, <2>4, <2>5, <2>6, <2>7, <2>8 DEF Parent
<1>2. CASE UNCHANGED <<control, children_ids>>
  <2>1. \A s \in Servers : Owed(s)' = Owed(s) /\ Owed(s) \in Nat
    BY <1>2, OwedType DEF control
  <2> QED
    BY <1>2, <2>1, RoomQuiet
<1> QED
  BY <1>1, <1>2 DEF Next, SigHup, SigTerm, ChildMoves, ChildStart, ChildAccepts, ChildReturns, ChildEnds, vars, tables

-----------------------------------------------------------------------------
(* The theorems                                                            *)

LEMMA InitIInv == Init => IInv
<1> SUFFICES ASSUME Init PROVE IInv
  OBVIOUS
<1>1. TypeOK
  BY InitTypeOK
<1>2. Flow /\ 1 \in Servers /\ NumForks[1] \in Nat
  BY ForkServerAssumption DEF Init, Flow, Servers
<1>3. \A s \in Servers : Cardinality(Taken(s)) = 0
  <2>1. \A s \in Servers : Taken(s) = {}
    BY DEF Init, Taken
  <2> QED
    BY <2>1, FS_EmptySet
<1>4. \A s \in Servers : Owed(s) = NumForks[s] /\ NumForks[s] \in Nat
  BY ForkServerAssumption DEF Init, Owed, Forking, Placed, Servers
<1>5. IdsHaveRoom
  BY <1>3, <1>4 DEF IdsHaveRoom
<1>6. Covered
  <2> SUFFICES ASSUME NEW s \in Servers, NEW p \in Pids
               PROVE  Cardinality(RegisteredAt(s, p)) + Cardinality(DiedAt(s, p))
                        + InHand(s, p) <= Cardinality(HeldAt(s, p))
    BY DEF Covered
  <2>1. RegisteredAt(s, p) = {} /\ DiedAt(s, p) = {} /\ HeldAt(s, p) = {}
    BY ForkServerAssumption DEF Init, RegisteredAt, DiedAt, HeldAt, NoEntry
  <2>2. InHand(s, p) = 0
    BY DEF Init, InHand
  <2> QED
    BY <2>1, <2>2, FS_EmptySet
<1>7. Known
  BY DEF Init, Known, None, Servers
<1> QED
  BY <1>1, <1>2, <1>5, <1>6, <1>7 DEF IInv

LEMMA Invariant == Spec => []IInv
<1>1. IInv /\ [Next]_vars => IInv'
  BY NextTypeOK, FlowStep, CoveredStep, KnownStep, IdsHaveRoomStep DEF IInv
<1> QED
  BY <1>1, InitIInv, PTL DEF Spec

\* Every table holds what its type says, whatever signals, deaths and failing
\* forks interrupt the parent.
THEOREM TypeCorrect == Spec => []TypeOK
<1>1. IInv => TypeOK
  BY DEF IInv
<1> QED
  BY <1>1, Invariant, PTL

\* start_one_child() always finds a free place in children_ids: no history of
\* missed, misreported or repeated deaths fills it.
THEOREM PlaceForEveryChild == Spec => []IdsHaveRoom
<1>1. IInv => IdsHaveRoom
  BY DEF IInv
<1> QED
  BY <1>1, Invariant, PTL

LEMMA OneMore ==
  ASSUME NEW S, IsFiniteSet(S), NEW x
  PROVE  IsFiniteSet(S \cup {x}) /\ Cardinality(S \cup {x}) <= Cardinality(S) + 1
<1>1. Cardinality(S) \in Nat
  BY FS_CardinalityType
<1>2. IsFiniteSet(S \cup {x})
      /\ Cardinality(S \cup {x}) = IF x \in S THEN Cardinality(S) ELSE Cardinality(S) + 1
  BY FS_AddElement
<1> QED
  BY <1>1, <1>2

\* The living children of s are among those it believes it has, and the one it
\* is entering.
LEMMA LivingHeld ==
  ASSUME IInv, NEW s \in Servers, NEW p \in LivingOf(s)
  PROVE  \/ \E k \in Taken(s) : children_ids[s][k] = p
         \/ p = pid /\ s = cur /\ pc = "place"
<1>1. p \in Pids /\ child[p].server = s
  BY DEF LivingOf
<1>2. ASSUME ~(p = pid /\ s = cur /\ pc = "place")
      PROVE  Cardinality(HeldAt(s, p)) >= 1
  <2>1. /\ Cardinality(RegisteredAt(s, p)) \in Nat
        /\ Cardinality(DiedAt(s, p)) \in Nat
        /\ Cardinality(HeldAt(s, p)) \in Nat
        /\ InHand(s, p) \in Nat
    BY Sets, PlaceSets DEF InHand
  <2>2. Cardinality(RegisteredAt(s, p)) + Cardinality(DiedAt(s, p)) + InHand(s, p)
          <= Cardinality(HeldAt(s, p))
    BY <1>1 DEF IInv, Covered
  <2>3. RegisteredAt(s, p) # {} \/ InHand(s, p) = 1
    BY <1>1, <1>2 DEF IInv, Known, InHand
  <2>4. RegisteredAt(s, p) # {} => Cardinality(RegisteredAt(s, p)) >= 1
    <3>1. ASSUME NEW k \in RegisteredAt(s, p)
          PROVE  Cardinality(RegisteredAt(s, p)) >= 1
      <4>1. {} \in SUBSET Place /\ RegisteredAt(s, p) \in SUBSET Place
            /\ {} \subseteq RegisteredAt(s, p) \ {k}
        BY Sets
      <4>2. Cardinality({}) + 1 <= Cardinality(RegisteredAt(s, p))
        BY <4>1, PlaceSets
      <4> QED
        BY <4>2, FS_EmptySet
    <3> QED
      BY <3>1
  <2> QED
    BY <2>1, <2>2, <2>3, <2>4
<1>3. ASSUME Cardinality(HeldAt(s, p)) >= 1
      PROVE  \E k \in Taken(s) : children_ids[s][k] = p
  <2>1. HeldAt(s, p) # {}
    BY <1>3, FS_EmptySet
  <2> QED
    BY <1>1, <2>1, ForkServerAssumption DEF HeldAt, Taken
<1> QED
  BY <1>2, <1>3

\* No server has more living children than num_forks, although its tables may
\* hold the numbers of children long gone, and more than once.
THEOREM NeverTooMany == Spec => []NoSurplus
<1>1. IInv => NoSurplus
  <2> SUFFICES ASSUME IInv, NEW s \in Servers
               PROVE  Cardinality(LivingOf(s)) <= NumForks[s]
    BY DEF NoSurplus
  <2> DEFINE H == {children_ids[s][k] : k \in Taken(s)}
             L == LivingOf(s)
             A == IF pc = "place" /\ s = cur THEN {pid} ELSE {}
  <2>1. IsFiniteSet(Place) /\ IsFiniteSet(Taken(s))
    <3>1. IsFiniteSet(Place)
      BY ForkServerAssumption, FS_Interval DEF Place
    <3> QED
      BY <3>1, FS_Subset DEF Taken
  <2>2. IsFiniteSet(H) /\ Cardinality(H) <= Cardinality(Taken(s))
    <3>1. [k \in Taken(s) |-> children_ids[s][k]] \in Surjection(Taken(s), H)
      BY DEF Surjection
    <3> QED
      BY <2>1, <3>1, FS_Surjection
  <2>3. L \subseteq H \cup A
    BY LivingHeld
  <2>4. Cardinality(Taken(s)) + Owed(s) <= NumForks[s] /\ NumForks[s] \in Nat
        /\ Owed(s) \in Nat /\ Cardinality(Taken(s)) \in Nat
    BY OwedType, TakenSets, ForkServerAssumption DEF IInv, IdsHaveRoom
  <2>5. CASE pc = "place" /\ s = cur
    <3>1. Owed(s) >= 1
      BY <2>5, ForkServerAssumption DEF IInv, Flow, TypeOK, Owed, Forking, Placed, Place,
         Servers
    <3>2. IsFiniteSet(H \cup {pid}) /\ Cardinality(H \cup {pid}) <= Cardinality(H) + 1
      BY <2>2, OneMore
    <3>3. Cardinality(L) <= Cardinality(H \cup {pid}) /\ Cardinality(L) \in Nat
      BY <2>3, <2>5, <3>2, FS_Subset, FS_CardinalityType
    <3>4. Cardinality(H) \in Nat /\ Cardinality(H \cup {pid}) \in Nat
      BY <2>2, <3>2, FS_CardinalityType
    <3> QED
      BY <2>2, <2>4, <3>1, <3>2, <3>3, <3>4
  <2>6. CASE ~(pc = "place" /\ s = cur)
    <3>1. Cardinality(L) <= Cardinality(H) /\ Cardinality(L) \in Nat
      BY <2>2, <2>3, <2>6, FS_Subset, FS_CardinalityType
    <3>2. Cardinality(H) \in Nat
      BY <2>2, FS_CardinalityType
    <3> QED
      BY <2>2, <2>4, <3>1, <3>2
  <2> QED
    BY <2>5, <2>6
<1> QED
  BY <1>1, Invariant, PTL

-----------------------------------------------------------------------------
(* The registry                                                            *)

LEMMA Injective ==
  ASSUME NEW S, NEW T, NEW f \in Injection(S, T)
  PROVE  f \in [S -> T] /\ \A x, y \in S : f[x] = f[y] => x = y
BY DEF Injection, IsInjective

\* A set that is no larger than another has an injection into it.
LEMMA Embeds ==
  ASSUME NEW S, NEW T, IsFiniteSet(S), IsFiniteSet(T), Cardinality(S) <= Cardinality(T)
  PROVE  ExistsInjection(S, T)
<1> DEFINE c == Cardinality(S)
           d == Cardinality(T)
<1>1. c \in Nat /\ d \in Nat /\ ExistsBijection(1 .. c, S) /\ ExistsBijection(1 .. d, T)
  BY FS_CardinalityType
<1>2. ExistsInjection(S, 1 .. c) /\ ExistsInjection(1 .. d, T)
  BY <1>1, Fun_ExistsBijSymmetric DEF ExistsBijection, ExistsInjection, Bijection
<1>3. ExistsInjection(1 .. c, 1 .. d)
  <2>1. [i \in 1 .. c |-> i] \in Injection(1 .. c, 1 .. d)
    BY <1>1 DEF Injection, IsInjective
  <2> QED
    BY <2>1 DEF ExistsInjection
<1> QED
  BY <1>2, <1>3, Fun_ExistsInjTransitive

LEMMA PlaceFinite ==
  /\ IsFiniteSet(Place) /\ Cardinality(Place) = MaxChild
  /\ \A S \in SUBSET Place : IsFiniteSet(S) /\ Cardinality(S) \in Nat
<1>1. IsFiniteSet(Place) /\ Cardinality(Place) = MaxChild
  BY ForkServerAssumption, FS_Interval DEF Place
<1> QED
  BY <1>1, FS_Subset, FS_CardinalityType

\* The places of children_ids[s] that hold p, but for one of the current server.
HeldBut(spare, s, p) == HeldAt(s, p) \ (IF s = cur THEN {spare} ELSE {})

\* When a child is registered, the entries that its server and the others already
\* have leave a place of children_ids to it.
LEMMA Backed ==
  ASSUME IInv, pc = "register"
  PROVE  \E spare \in HeldAt(cur, pid) :
           \A s \in Servers, p \in Pids :
             Injection(RegisteredAt(s, p), HeldBut(spare, s, p)) # {}
<1>1. cur \in Servers /\ pid \in Pids
  BY DEF IInv, TypeOK
<1>2. ASSUME NEW s \in Servers, NEW p \in Pids
      PROVE  /\ Cardinality(RegisteredAt(s, p)) <= Cardinality(HeldAt(s, p))
             /\ s = cur /\ p = pid =>
                  Cardinality(RegisteredAt(s, p)) + 1 <= Cardinality(HeldAt(s, p))
  <2>1. Cardinality(RegisteredAt(s, p)) + Cardinality(DiedAt(s, p)) + InHand(s, p)
          <= Cardinality(HeldAt(s, p))
    BY DEF IInv, Covered
  <2>2. /\ Cardinality(RegisteredAt(s, p)) \in Nat /\ Cardinality(DiedAt(s, p)) \in Nat
        /\ Cardinality(HeldAt(s, p)) \in Nat /\ InHand(s, p) \in Nat
        /\ s = cur /\ p = pid => InHand(s, p) = 1
    BY Sets, PlaceFinite DEF InHand
  <2> QED
    BY <2>1, <2>2
<1>3. PICK spare : spare \in HeldAt(cur, pid)
  <2>1. /\ Cardinality(RegisteredAt(cur, pid)) \in Nat
        /\ Cardinality(HeldAt(cur, pid)) \in Nat
    BY Sets, PlaceFinite
  <2>2. Cardinality(HeldAt(cur, pid)) # 0
    BY <1>1, <1>2, <2>1
  <2> QED
    BY <2>2, FS_EmptySet
<1>4. ASSUME NEW s \in Servers, NEW p \in Pids
      PROVE  Injection(RegisteredAt(s, p), HeldBut(spare, s, p)) # {}
  <2> DEFINE R == RegisteredAt(s, p)
             H == HeldBut(spare, s, p)
  <2>1. R \in SUBSET Place /\ H \in SUBSET Place
    BY Sets DEF HeldBut
  <2>2. Cardinality(R) <= Cardinality(H)
    <3>1. CASE s = cur /\ p = pid
      <4>1. H = HeldAt(s, p) \ {spare}
        BY <3>1 DEF HeldBut
      <4>2. Cardinality(H) = Cardinality(HeldAt(s, p)) - 1
        BY <1>3, <3>1, <4>1, Sets, PlaceFinite, FS_RemoveElement
      <4> QED
        BY <1>2, <3>1, <4>2, <2>1, Sets, PlaceFinite
    <3>2. CASE ~(s = cur /\ p = pid)
      <4>1. H = HeldAt(s, p)
        BY <1>3, <3>2 DEF HeldBut, HeldAt
      <4> QED
        BY <1>2, <4>1
    <3> QED
      BY <3>1, <3>2
  <2>3. ExistsInjection(R, H)
    <3> HIDE DEF R, H
    <3> QED
      BY <2>1, <2>2, PlaceFinite, Embeds
  <2> QED
    BY <2>3 DEF ExistsInjection
<1> QED
  BY <1>3, <1>4

\* Each server has room among its forks for the places it has taken.
LEMMA TakenFit ==
  ASSUME IInv, NEW s \in Servers
  PROVE  Injection(Taken(s), 1 .. NumForks[s]) # {}
<1>1. /\ Cardinality(Taken(s)) + Owed(s) <= NumForks[s]
      /\ Owed(s) \in Nat /\ NumForks[s] \in Nat
  BY OwedType, ForkServerAssumption DEF IInv, IdsHaveRoom
<1>2. IsFiniteSet(1 .. NumForks[s]) /\ Cardinality(1 .. NumForks[s]) = NumForks[s]
  BY <1>1, FS_Interval
<1>3. IsFiniteSet(Taken(s)) /\ Cardinality(Taken(s)) \in Nat
  BY TakenSets, PlaceFinite
<1>4. Cardinality(Taken(s)) <= Cardinality(1 .. NumForks[s])
  BY <1>1, <1>2, <1>3
<1> QED
  BY <1>2, <1>3, <1>4, Embeds DEF ExistsInjection

LEMMA AllForksFinite == IsFiniteSet(AllForks) /\ Cardinality(AllForks) \in Nat
<1>1. IsFiniteSet(Servers) /\ IsFiniteSet(1 .. MaxChild)
  BY ForkServerAssumption, FS_Interval DEF Servers
<1>2. IsFiniteSet(Servers \X (1 .. MaxChild))
  BY <1>1, FS_Product
<1>3. AllForks \in SUBSET (Servers \X (1 .. MaxChild))
  BY ForkServerAssumption DEF AllForks
<1> QED
  BY <1>2, <1>3, FS_Subset, FS_CardinalityType

\* jdk_fork_register_child() finds a free place whenever all the children that the
\* servers may have fit into the registry together.
THEOREM PlaceToRegister == Spec => []RegisterEnds
<1>1. IInv => RegisterEnds
  <2> SUFFICES ASSUME IInv, pc = "register", Cardinality(AllForks) <= MaxChild,
                      \A k \in Place : registry[k] # NoEntry
               PROVE  FALSE
    BY DEF RegisterEnds
  <2>1. PICK spare \in HeldAt(cur, pid) :
          \A s \in Servers, p \in Pids :
            Injection(RegisteredAt(s, p), HeldBut(spare, s, p)) # {}
    BY Backed
  \* Every entry goes to a place that backs it, and that to one of the forks.
  <2> DEFINE srv == [k \in Place |-> registry[k].server]
             num == [k \in Place |-> registry[k].pid]
             back(k) == CHOOSE f :
               f \in Injection(RegisteredAt(srv[k], num[k]), HeldBut(spare, srv[k], num[k]))
             b == [k \in Place |-> back(k)[k]]
             g == [s \in Servers |-> CHOOSE f : f \in Injection(Taken(s), 1 .. NumForks[s])]
             h == [k \in Place |-> <<srv[k], g[srv[k]][b[k]]>>]
             x == <<cur, g[cur][spare]>>
  <2>2. \A k \in Place : /\ srv[k] \in Servers /\ num[k] \in Pids
                         /\ k \in RegisteredAt(srv[k], num[k])
    BY DEF IInv, TypeOK, RegisteredAt
  <2>3. ASSUME NEW k \in Place
        PROVE  /\ b[k] \in HeldBut(spare, srv[k], num[k])
               /\ \A l \in Place : srv[l] = srv[k] /\ num[l] = num[k] /\ b[l] = b[k] => l = k
    <3> DEFINE R == RegisteredAt(srv[k], num[k])
               T == HeldBut(spare, srv[k], num[k])
    <3>1. back(k) \in Injection(R, T)
      <4> HIDE DEF srv, num
      <4> QED
        BY <2>1, <2>2
    <3>2. back(k) \in [R -> T] /\ \A i, j \in R : back(k)[i] = back(k)[j] => i = j
      <4> HIDE DEF R, T, back
      <4> QED
        BY <3>1, Injective
    <3>3. ASSUME NEW l \in Place, srv[l] = srv[k], num[l] = num[k], b[l] = b[k]
          PROVE  l = k
      <4>1. back(l) = back(k) /\ l \in R
        BY <2>2, <3>3
      <4> HIDE DEF back, R, T, srv, num
      <4> QED
        BY <2>2, <3>2, <3>3, <4>1 DEF R
    <3>4. b[k] \in T
      <4> HIDE DEF back, T, srv, num
      <4> QED
        BY <2>2, <3>2
    <3> QED
      BY <3>3, <3>4
  <2>4. ASSUME NEW s \in Servers
        PROVE  /\ \A i \in Taken(s) : g[s][i] \in 1 .. NumForks[s]
               /\ \A i, j \in Taken(s) : g[s][i] = g[s][j] => i = j
    <3>1. g[s] \in Injection(Taken(s), 1 .. NumForks[s])
      BY TakenFit
    <3> HIDE DEF g
    <3>2. /\ g[s] \in [Taken(s) -> 1 .. NumForks[s]]
          /\ \A i, j \in Taken(s) : g[s][i] = g[s][j] => i = j
      BY <3>1 DEF Injection, IsInjective
    <3> QED
      BY <3>2
  <2> HIDE DEF b, g, srv, num
  <2>5. \A k \in Place : /\ b[k] \in Taken(srv[k])
                         /\ children_ids[srv[k]][b[k]] = num[k]
                         /\ srv[k] = cur => b[k] # spare
    BY <2>2, <2>3, ForkServerAssumption DEF HeldBut, HeldAt, Taken
  <2>6. cur \in Servers /\ spare \in Taken(cur)
    BY <2>1, ForkServerAssumption DEF IInv, TypeOK, HeldAt, Taken
  <2>7. x \in AllForks /\ h \in [Place -> AllForks \ {x}]
    <3>1. g[cur][spare] \in 1 .. NumForks[cur]
      BY <2>4, <2>6
    <3>2. ASSUME NEW k \in Place
          PROVE  h[k] \in AllForks \ {x}
      <4>1. /\ g[srv[k]][b[k]] \in 1 .. NumForks[srv[k]]
            /\ srv[k] = cur => g[srv[k]][b[k]] # g[cur][spare]
        BY <2>2, <2>4, <2>5, <2>6
      <4> QED
        BY <2>2, <4>1 DEF AllForks
    <3> QED
      BY <2>6, <3>1, <3>2 DEF AllForks
  <2>8. ASSUME NEW k \in Place, NEW l \in Place, h[k] = h[l]
        PROVE  k = l
    <3>1. srv[k] = srv[l] /\ g[srv[k]][b[k]] = g[srv[l]][b[l]]
      BY <2>8
    <3>2. b[k] = b[l]
      BY <2>2, <2>4, <2>5, <3>1
    <3>3. num[k] = num[l]
      BY <2>5, <3>1, <3>2
    <3> QED
      BY <2>3, <3>1, <3>2, <3>3
  <2> HIDE DEF h, x
  <2>9. /\ IsFiniteSet(AllForks \ {x})
        /\ Cardinality(AllForks \ {x}) = Cardinality(AllForks) - 1
    BY <2>7, AllForksFinite, FS_RemoveElement
  <2>10. Cardinality(AllForks \ {x}) < Cardinality(Place)
    BY <2>9, AllForksFinite, PlaceFinite, ForkServerAssumption
  <2>11. \E k, l \in Place : k # l /\ h[k] = h[l]
    BY <2>7, <2>9, <2>10, PlaceFinite, FS_PigeonHole
  <2> QED
    BY <2>8, <2>11
<1> QED
  BY <1>1, Invariant, PTL

-----------------------------------------------------------------------------
(* Losses                                                                  *)

\* The place of the ring that is being replaced held a death, and holds one still.
AtDeath == pc = "clear" => children_died[cur][n] # NoPid

LEMMA AtDeathStep == TypeOK /\ AtDeath /\ [Next]_vars => AtDeath'
<1> SUFFICES ASSUME TypeOK, AtDeath, [Next]_vars, pc' = "clear"
             PROVE  children_died'[cur'][n'] # NoPid
  BY DEF AtDeath
<1>1. CASE Parent
  <2>1. Look
    <3>1. ~(Sleep \/ CheckHup \/ CheckTerm \/ Restart \/ Clear \/ ForkChild \/ EnterId \/ Register)
      BY DEF Sleep, CheckHup, CheckTerm, Restart, Clear, ForkChild, EnterId, Register
    <3>2. ~(Stop \/ NextChild \/ ForkFails)
      BY DEF Stop, NextServer, AfterStop, NextChild, LastPlace, ForkFails
    <3> QED
      BY <1>1, <3>1, <3>2 DEF Parent
  <2> QED
    BY <2>1 DEF Look, tables
<1>2. ASSUME NEW p \in Pids, ChildEnds(p)
      PROVE  children_died'[cur'][n'] # NoPid
  <2>1. pc' = pc /\ cur' = cur /\ n' = n /\ cur \in Servers /\ n \in Place
    BY <1>2 DEF ChildEnds, control, TypeOK
  <2>2. children_died[cur][n] # NoPid
    BY <2>1 DEF AtDeath
  <2>3. CASE children_died' = children_died
    BY <2>1, <2>2, <2>3
  <2>4. ASSUME NEW s, NEW k, children_died' = [children_died EXCEPT ![s][k] = p]
        PROVE  children_died'[cur][n] # NoPid
    <3>1. children_died \in [Servers -> [Place -> Numbers]] /\ p # NoPid
      BY ForkServerAssumption DEF TypeOK, Numbers
    <3> QED
      BY <2>1, <2>2, <2>4, <3>1
  <2> QED
    BY <1>2, <2>1, <2>3, <2>4 DEF ChildEnds, SigChld, Notify
<1>3. CASE UNCHANGED <<pc, cur, n, children_died>>
  BY <1>3 DEF AtDeath
<1> QED
  BY <1>1, <1>2, <1>3 DEF Next, SigHup, SigTerm, ChildMoves, ChildStart, ChildAccepts, ChildReturns, vars, control, tables

LEMMA LivingFinite ==
  ASSUME IInv, NEW s \in Servers
  PROVE  IsFiniteSet(LivingOf(s)) /\ Cardinality(LivingOf(s)) \in Nat
<1> DEFINE H == {children_ids[s][k] : k \in Taken(s)}
<1>1. IsFiniteSet(Place)
  BY ForkServerAssumption, FS_Interval DEF Place
<1>2. IsFiniteSet(Taken(s))
  BY <1>1, FS_Subset DEF Taken
<1>3. [k \in Taken(s) |-> children_ids[s][k]] \in Surjection(Taken(s), H)
  BY DEF Surjection
<1>4. IsFiniteSet(H)
  BY <1>2, <1>3, FS_Surjection
<1>5. IsFiniteSet(H \cup {pid})
  BY <1>4, OneMore
<1>6. LivingOf(s) \in SUBSET (H \cup {pid})
  BY LivingHeld
<1> QED
  BY <1>5, <1>6, FS_Subset, FS_CardinalityType

\* The places of the ring that Recorded counts, and the death in hand.
Waiting(s) == {k \in Place : /\ children_died[s][k] # NoPid
                             /\ ~(pc = "clear" /\ s = cur /\ k = n)}
Replacing(s) == IF pc = "clear" /\ s = cur THEN 1 ELSE 0

\* The forks that are to come, the one in progress not counted once it has been made.
Coming(s) == IF pc = "place" /\ s = cur THEN Owed(s) - 1 ELSE Owed(s)

LEMMA RecordedIs ==
  ASSUME NEW s
  PROVE  /\ Recorded(s) = Cardinality(Waiting(s)) + Replacing(s)
         /\ Recorded(s)' = Cardinality(Waiting(s)') + Replacing(s)'
         /\ Waiting(s) \in SUBSET Place /\ Waiting(s)' \in SUBSET Place
         /\ Cardinality(Waiting(s)) \in Nat /\ Cardinality(Waiting(s)') \in Nat
         /\ Replacing(s) \in Nat /\ Replacing(s)' \in Nat
<1>1. /\ Recorded(s) = Cardinality(Waiting(s)) + Replacing(s)
      /\ Recorded(s)' = Cardinality(Waiting(s)') + Replacing(s)'
  BY DEF Recorded, Waiting, Replacing
<1>2. /\ Waiting(s) \in SUBSET Place /\ Waiting(s)' \in SUBSET Place
      /\ Replacing(s) \in Nat /\ Replacing(s)' \in Nat
  BY DEF Waiting, Replacing
<1>3. Cardinality(Waiting(s)) \in Nat /\ Cardinality(Waiting(s)') \in Nat
  BY <1>2, PlaceSets
<1> QED
  BY <1>1, <1>2, <1>3

LEMMA ComingType ==
  ASSUME NEW s \in Servers
  PROVE  /\ TypeOK /\ Flow => Coming(s) \in Int
         /\ TypeOK' /\ Flow' => Coming(s)' \in Int
BY OwedType DEF Coming

\* What a server is short of, when as many children live, wait and are to come.
LEMMA NotShort ==
  ASSUME IInv, TypeOK', Flow', NEW s \in Servers,
         LivingOf(s) \subseteq LivingOf(s)', LivingOf(s)' \subseteq LivingOf(s),
         Recorded(s) + Coming(s) <= Recorded(s)' + Coming(s)'
  PROVE  ~(Missing(s)' > Missing(s))
<1>1. LivingOf(s)' = LivingOf(s)
  OBVIOUS
<1>2. /\ NumForks[s] \in Nat /\ Cardinality(LivingOf(s)) \in Nat
      /\ Recorded(s) \in Nat /\ Recorded(s)' \in Nat
      /\ Coming(s) \in Int /\ Coming(s)' \in Int
  BY ForkServerAssumption, LivingFinite, RecordedIs, ComingType DEF IInv
<1>3. /\ Missing(s) = NumForks[s] - Cardinality(LivingOf(s)) - Recorded(s) - Coming(s)
      /\ Missing(s)' = NumForks[s] - Cardinality(LivingOf(s)') - Recorded(s)' - Coming(s)'
  BY DEF Missing, Coming
<1> QED
  BY <1>1, <1>2, <1>3


LEMMA SameRingIdle ==
  ASSUME NEW s, children_died'[s] = children_died[s], pc # "clear", pc' # "clear"
  PROVE  Recorded(s)' = Recorded(s)
<1>1. Waiting(s)' = Waiting(s) /\ Replacing(s) = 0 /\ Replacing(s)' = 0
  BY DEF Waiting, Replacing
<1> QED
  BY <1>1, RecordedIs

\* The parent's steps leave no server short, but for a fork that fails.
LEMMA ParentLoses ==
  ASSUME IInv, AtDeath, TypeOK', Flow', Parent, NEW s \in Servers
  PROVE  Missing(s)' > Missing(s) => LossExplained(s)
<1>0. /\ TypeOK /\ Flow /\ cur \in Servers /\ n \in Nat /\ cur \in Nat /\ s \in Nat
      /\ NumForks[s] \in Nat /\ NumForks[cur] \in Nat
  <2>1. TypeOK /\ Flow /\ cur \in Servers /\ n \in Place
    BY DEF IInv, TypeOK
  <2> QED
    BY <2>1, ForkServerAssumption DEF Place, Servers
<1> USE <1>0
<1> DEFINE Same == LivingOf(s)' = LivingOf(s)
           Steady == Recorded(s)' = Recorded(s) /\ Coming(s)' = Coming(s)
<1>q. ASSUME Same, Steady PROVE ~(Missing(s)' > Missing(s))
  <2>1. Recorded(s) + Coming(s) <= Recorded(s)' + Coming(s)'
    BY <1>q, RecordedIs, ComingType
  <2> QED
    BY <1>q, <2>1, NotShort
<1>1. CASE Sleep \/ CheckHup \/ CheckTerm \/ Restart
  <2>1. Same /\ children_died' = children_died /\ ~(pc \in {"clear", "place"})
        /\ ~(pc' \in {"clear", "place"}) /\ ~Forking /\ ~Forking'
    BY <1>1 DEF Sleep, CheckHup, CheckTerm, Restart, tables, LivingOf, Forking
  <2>2. Steady
    BY <2>1, SameRingIdle DEF Coming, Owed
  <2> QED
    BY <1>q, <2>1, <2>2
<1>2. CASE Stop
  <2>1. \A p \in Pids : child'[p].server = child[p].server
    BY <1>2 DEF Stop, TypeOK, Living, None
  <2>2. Same
    BY <2>1 DEF LivingOf
  <2>3. pc = "stop" /\ pc' \in {"stop", "term", "ended"} /\ children_died' = children_died
    BY <1>2 DEF Stop, NextServer, AfterStop
  <2>4. Steady
    BY <2>3, SameRingIdle DEF Coming, Owed, Forking
  <2> QED
    BY <1>q, <2>2, <2>4
<1>3. CASE Look
  <2>1. Same /\ Coming(s) = 0
    BY <1>3 DEF Look, LivingOf, Coming, Owed, Forking
  <2>2. CASE children_died[cur][n] = NoPid
    <3>1. pc = "look" /\ pc' = "next" /\ children_died' = children_died /\ cur' = cur
          /\ phase' = phase
      BY <1>3, <2>2 DEF Look, tables
    <3>2. Recorded(s)' = Recorded(s)
      BY <3>1, SameRingIdle
    <3>3. Coming(s)' = 0
      BY <3>1 DEF Coming, Owed, Forking, Placed, Flow
    <3> QED
      BY <1>q, <2>1, <3>2, <3>3
  <2>3. CASE children_died[cur][n] # NoPid
    <3>1. pc = "look" /\ pc' = "clear" /\ children_died' = children_died /\ cur' = cur
          /\ n' = n /\ n \in Place
      BY <1>3, <2>3 DEF Look, tables, TypeOK
    <3>2. Coming(s)' = 0
      BY <3>1 DEF Coming, Owed, Forking
    <3>3. CASE s = cur
      <4>1. n \in Waiting(s) /\ Waiting(s)' = Waiting(s) \ {n}
        BY <2>3, <3>1, <3>3 DEF Waiting
      <4>2. Cardinality(Waiting(s)') = Cardinality(Waiting(s)) - 1
        BY <4>1, RecordedIs, PlaceFinite, FS_RemoveElement
      <4>3. Replacing(s) = 0 /\ Replacing(s)' = 1
        BY <3>1, <3>3 DEF Replacing
      <4> QED
        BY <1>q, <2>1, <3>2, <4>2, <4>3, RecordedIs
    <3>4. CASE s # cur
      <4>1. Waiting(s)' = Waiting(s) /\ Replacing(s)' = Replacing(s)
        BY <3>1, <3>4 DEF Waiting, Replacing
      <4> QED
        BY <1>q, <2>1, <3>2, <4>1, RecordedIs
    <3> QED
      BY <3>3, <3>4
  <2> QED
    BY <2>2, <2>3
<1>4. CASE Clear
  <2>1. /\ Same /\ pc = "clear" /\ pc' = "fork" /\ phase = "restart" /\ phase' = phase
        /\ cur' = cur /\ n' = n /\ n \in Place
        /\ children_died' = [children_died EXCEPT ![cur][n] = NoPid]
        /\ children_died \in [Servers -> [Place -> Numbers]]
    BY <1>4 DEF Clear, LivingOf, Flow, TypeOK, Numbers
  <2>2. Waiting(s)' = Waiting(s)
    BY <2>1 DEF Waiting
  <2>3. Replacing(s) + Coming(s) = Replacing(s)' + Coming(s)'
    BY <2>1 DEF Replacing, Coming, Owed, Forking, Placed
  <2>4. Coming(s) \in Int /\ Coming(s)' \in Int
    BY ComingType
  <2>5. Recorded(s) + Coming(s) = Recorded(s)' + Coming(s)'
    BY <2>2, <2>3, <2>4, RecordedIs
  <2> QED
    BY <2>1, <2>4, <2>5, RecordedIs, NotShort
<1>5. CASE NextChild
  <2>1. /\ Same /\ pc = "next" /\ phase \in {"start", "restart"} /\ phase' = phase
        /\ children_died' = children_died
        /\ phase = "start" => n < NumForks[cur]
        /\ pc' \in {"look", "fork", "restart", "sleep"}
    BY <1>5 DEF NextChild, NextServer, LastPlace, LivingOf, Flow, Forking, tables
  <2>2. Recorded(s)' = Recorded(s)
    BY <2>1, SameRingIdle
  <2>3. Coming(s)' = Coming(s)
    <3>1. CASE phase = "restart"
      <4>1. ~Forking'
        BY <1>5, <3>1 DEF NextChild, NextServer, LastPlace, Forking
      <4> QED
        BY <2>1, <3>1, <4>1 DEF Coming, Owed, Placed
    <3>2. CASE phase = "start" /\ n + 1 < NumForks[cur]
      <4>1. n' = n + 1 /\ pc' = "fork" /\ cur' = cur
        BY <1>5, <3>2 DEF NextChild
      <4> QED
        BY <2>1, <3>2, <4>1 DEF Coming, Owed, Placed, Forking
    <3>3. CASE phase = "start" /\ ~(n + 1 < NumForks[cur])
      <4>1. NextServer("fork", "sleep") /\ n + 1 = NumForks[cur]
        BY <1>5, <2>1, <3>3 DEF NextChild
      <4>2. CASE Last
        <5>1. s <= cur /\ pc' = "sleep"
          BY <4>1, <4>2, ForkServerAssumption DEF Last, NextServer, Servers
        <5> QED
          BY <2>1, <3>3, <4>1, <5>1 DEF Coming, Owed, Placed, Forking
      <4>3. CASE ~Last
        <5>1. cur' = cur + 1 /\ pc' = "fork" /\ n' = 0
          BY <4>1, <4>3 DEF NextServer
        <5> QED
          BY <2>1, <3>3, <4>1, <5>1 DEF Coming, Owed, Placed, Forking
      <4> QED
        BY <4>2, <4>3
    <3> QED
      BY <2>1, <3>1, <3>2, <3>3
  <2> QED
    BY <1>q, <2>1, <2>2, <2>3
<1>6. CASE ForkChild
  <2>1. PICK p \in Pids \ Living :
          child' = [child EXCEPT ![p] = [server |-> cur, stage |-> "new", sigterm |-> "none"]]
    BY <1>6 DEF ForkChild
  <2>2. /\ pc = "fork" /\ pc' = "place" /\ children_died' = children_died
        /\ cur' = cur /\ n' = n /\ phase' = phase
    BY <1>6 DEF ForkChild
  <2>3. Recorded(s)' = Recorded(s) /\ Owed(s)' = Owed(s) /\ Owed(s) \in Nat
    BY <2>2, SameRingIdle, OwedType DEF Owed, Forking, Placed
  <2>4. CASE s # cur
    <3>1. Same
      BY <2>1, <2>4 DEF LivingOf, Living, None, TypeOK, Servers
    <3> QED
      BY <1>q, <2>2, <2>3, <2>4, <3>1 DEF Coming
  <2>5. CASE s = cur
    <3>1. p \notin LivingOf(s) /\ LivingOf(s)' = LivingOf(s) \cup {p}
      BY <2>1, <2>5 DEF LivingOf, Living, None, TypeOK, Servers
    <3>2. Cardinality(LivingOf(s)') = Cardinality(LivingOf(s)) + 1
      BY <3>1, LivingFinite, FS_AddElement
    <3>3. Coming(s) = Owed(s) /\ Coming(s)' = Owed(s) - 1
      BY <2>2, <2>3, <2>5 DEF Coming
    <3>4. Missing(s)' = Missing(s)
      <4>1. /\ Missing(s) = NumForks[s] - Cardinality(LivingOf(s)) - Recorded(s) - Coming(s)
            /\ Missing(s)' = NumForks[s] - Cardinality(LivingOf(s)') - Recorded(s)' - Coming(s)'
        BY DEF Missing, Coming
      <4> QED
        BY <2>3, <3>2, <3>3, <4>1, LivingFinite, RecordedIs
    <3>5. Missing(s) \in Int
      BY <2>3, <3>3, LivingFinite, RecordedIs DEF Missing, Coming
    <3> QED
      BY <3>4, <3>5
  <2> QED
    BY <2>4, <2>5
<1>7. CASE ForkFails
  <2>1. CASE s = cur
    <3>1. failures' > failures
      BY <1>7, ForkServerAssumption DEF ForkFails, TypeOK
    <3> QED
      BY <2>1, <3>1 DEF LossExplained
  <2>2. CASE s # cur
    <3>1. /\ Same /\ pc = "fork" /\ children_died' = children_died /\ phase' = phase
          /\ phase \in {"start", "restart"}
          /\ NextServer(IF phase = "start" THEN "fork" ELSE "restart", "sleep")
      BY <1>7 DEF ForkFails, LivingOf, Flow, Forking
    <3>2. Recorded(s)' = Recorded(s)
      BY <3>1, SameRingIdle DEF NextServer
    <3>3. Coming(s)' = Coming(s)
      <4>1. CASE phase = "start" /\ ~Last
        BY <2>2, <3>1, <4>1 DEF NextServer, Coming, Owed, Placed, Forking
      <4>2. CASE Last \/ phase = "restart"
        <5>1. Last => s < cur
          BY <2>2, ForkServerAssumption DEF Last, Servers
        <5>2. pc' \in {"sleep", "restart"}
          BY <3>1, <4>2 DEF NextServer
        <5> QED
          BY <2>2, <3>1, <4>2, <5>1, <5>2 DEF Coming, Owed, Placed, Forking
      <4> QED
        BY <3>1, <4>1, <4>2
    <3> QED
      BY <1>q, <3>1, <3>2, <3>3
  <2> QED
    BY <2>1, <2>2
<1>8. CASE EnterId
  <2>1. /\ Same /\ pc = "place" /\ pc' = "register" /\ children_died' = children_died
        /\ phase' = phase /\ cur' = cur /\ n' = n
        /\ phase \in {"start", "restart"}
    BY <1>8 DEF EnterId, LivingOf, Flow, Forking
  <2>2. Recorded(s)' = Recorded(s)
    BY <2>1, SameRingIdle
  <2>3. Coming(s)' = Coming(s)
    BY <2>1 DEF Coming, Owed, Placed, Forking
  <2> QED
    BY <1>q, <2>1, <2>2, <2>3
<1>9. CASE Register
  <2>1. /\ Same /\ pc = "register" /\ pc' = "next" /\ children_died' = children_died
        /\ phase' = phase /\ cur' = cur /\ n' = n
    BY <1>9 DEF Register, LivingOf
  <2>2. Recorded(s)' = Recorded(s)
    BY <2>1, SameRingIdle
  <2>3. Coming(s)' = Coming(s)
    BY <2>1 DEF Coming, Owed, Placed, Forking
  <2> QED
    BY <1>q, <2>1, <2>2, <2>3
<1> QED
  BY <1>1, <1>2, <1>3, <1>4, <1>5, <1>6, <1>7, <1>8, <1>9 DEF Parent

\* A child that ends is missing from then on only if one of the reasons holds.
LEMMA EndLoses ==
  ASSUME IInv, AtDeath, TypeOK', Flow', NEW p \in Pids, ChildEnds(p), ~Ended,
         NEW s \in Servers
  PROVE  Missing(s)' > Missing(s) => LossExplained(s)
<1>0. /\ TypeOK /\ cur \in Servers /\ n \in Place
      /\ UNCHANGED <<pc, phase, cur, n>> /\ child'[p] = None
      /\ LivingOf(s)' = LivingOf(s) \ {p} /\ LivingOf(s)' \subseteq LivingOf(s)
  BY DEF IInv, TypeOK, ChildEnds, control, LivingOf, None, Servers
<1>1. Coming(s)' = Coming(s) /\ Coming(s) \in Int
  BY <1>0, ComingType DEF IInv, Coming, Owed, Placed, Forking
<1>2. Recorded(s)' >= Recorded(s)
  <2>1. \A k \in Place : children_died[s][k] # NoPid => children_died'[s][k] # NoPid
    <3>1. CASE children_died' = children_died
      BY <3>1
    <3>2. ASSUME NEW r, NEW k, children_died' = [children_died EXCEPT ![r][k] = p]
          PROVE  <2>1
      BY <1>0, <3>2, ForkServerAssumption DEF TypeOK
    <3> QED
      BY <3>1, <3>2 DEF ChildEnds, SigChld, Notify
  <2>2. Waiting(s) \subseteq Waiting(s)' /\ Replacing(s)' = Replacing(s)
    BY <1>0, <2>1 DEF Waiting, Replacing
  <2> QED
    BY <2>2, RecordedIs, PlaceSets
<1>3. CASE p \notin LivingOf(s)
  <2>1. LivingOf(s) \subseteq LivingOf(s)'
    BY <1>0, <1>3
  <2>2. Recorded(s) + Coming(s) <= Recorded(s)' + Coming(s)'
    BY <1>1, <1>2, RecordedIs
  <2> QED
    BY <1>0, <2>1, <2>2, NotShort
<1>4. CASE p \in LivingOf(s) /\ ~LossExplained(s)
  <2>1. /\ ~stopping[s]
        /\ \E k \in Place : registry[k] = [pid |-> p, server |-> s]
        /\ \A k \in Place : registry[k].pid = p => registry[k].server = s
        /\ children_died[s][children_died_count[s]] = NoPid
    BY <1>0, <1>4 DEF LossExplained
  <2> DEFINE c == children_died_count[s]
  <2>2. children_died' = [children_died EXCEPT ![s][c] = p] /\ c \in Place
    <3>1. Notify(s, p)
      BY <2>1 DEF ChildEnds, SigChld
    <3> QED
      BY <1>0, <2>1, <3>1 DEF Notify, TypeOK
  <2>3. ~(pc = "clear" /\ s = cur /\ c = n)
    BY <2>1 DEF AtDeath
  <2>4. c \notin Waiting(s) /\ c \in Waiting(s)' /\ Waiting(s) \subseteq Waiting(s)'
    <3>1. children_died \in [Servers -> [Place -> Numbers]] /\ p # NoPid
      BY <1>0, ForkServerAssumption DEF TypeOK, Numbers
    <3> HIDE DEF c
    <3>2. children_died'[s] = [children_died[s] EXCEPT ![c] = p]
      BY <2>2, <3>1
    <3>3. children_died[s][c] = NoPid
      BY <2>1 DEF c
    <3> QED
      BY <1>0, <2>2, <2>3, <3>1, <3>2, <3>3 DEF Waiting
  <2>5. Cardinality(Waiting(s)) + 1 <= Cardinality(Waiting(s)')
    <3>1. Waiting(s) \subseteq Waiting(s)' \ {c}
      BY <2>4
    <3> QED
      BY <2>4, <3>1, RecordedIs, PlaceSets
  <2>6. Replacing(s)' = Replacing(s)
    BY <1>0 DEF Replacing
  <2>7. Recorded(s)' >= Recorded(s) + 1
    BY <2>5, <2>6, RecordedIs
  <2>8. Cardinality(LivingOf(s)') = Cardinality(LivingOf(s)) - 1
    BY <1>0, <1>4, LivingFinite, FS_RemoveElement
  <2>9. /\ Missing(s) = NumForks[s] - Cardinality(LivingOf(s)) - Recorded(s) - Coming(s)
        /\ Missing(s)' = NumForks[s] - Cardinality(LivingOf(s)') - Recorded(s)' - Coming(s)'
    BY DEF Missing, Coming
  <2>10. NumForks[s] \in Nat
    BY ForkServerAssumption
  <2> QED
    BY <1>1, <2>7, <2>8, <2>9, <2>10, LivingFinite, RecordedIs
<1> QED
  BY <1>3, <1>4

\* No child is lost for good while the parent runs, but for the reasons that
\* LossExplained names: notify_sig_chld() and restart_dead_children() lose no other.
THEOREM NoOtherLoss == Spec => LossesExplained
<1>1. Init => AtDeath
  BY DEF Init, AtDeath
<1>2. IInv => TypeOK
  BY DEF IInv
<1>3. Spec => []AtDeath
  BY <1>1, <1>2, AtDeathStep, Invariant, PTL DEF Spec
<1>4. IInv /\ IInv' /\ AtDeath /\ [Next]_vars
        => [\A s \in Servers : (~Ended /\ Missing(s)' > Missing(s)) => LossExplained(s)]_vars
  <2> SUFFICES ASSUME IInv, IInv', AtDeath, Next, ~Ended, NEW s \in Servers
               PROVE  Missing(s)' > Missing(s) => LossExplained(s)
    OBVIOUS
  <2>1. TypeOK' /\ Flow'
    BY DEF IInv
  <2>2. CASE Parent
    BY <2>1, <2>2, ParentLoses
  <2>3. ASSUME NEW p \in Pids, ChildEnds(p)
        PROVE  Missing(s)' > Missing(s) => LossExplained(s)
    BY <2>1, <2>3, EndLoses
  <2>4. CASE SigHup \/ SigTerm \/ \E p \in Pids : ChildMoves(p)
    <3>1. /\ UNCHANGED <<control, tables>>
          /\ \A p \in Pids : child'[p].server = child[p].server
      <4>1. ASSUME NEW q \in Pids, ChildMoves(q)
            PROVE  <3>1
        BY <4>1, MoveFacts DEF IInv
      <4> QED
        BY <2>4, <4>1 DEF SigHup, SigTerm
    <3>3. LivingOf(s)' = LivingOf(s)
      BY <3>1 DEF LivingOf
    <3>4. Recorded(s)' = Recorded(s) /\ Coming(s)' = Coming(s)
      BY <3>1 DEF control, tables, Recorded, Coming, Owed, Placed, Forking
    <3>5. Recorded(s) + Coming(s) <= Recorded(s)' + Coming(s)'
      BY <3>4, RecordedIs, ComingType DEF IInv
    <3> QED
      BY <2>1, <3>3, <3>5, NotShort
  <2> QED
    BY <2>2, <2>3, <2>4 DEF Next
<1> QED
  BY <1>3, <1>4, Invariant, PTL DEF Spec, LossesExplained
=============================================================================
