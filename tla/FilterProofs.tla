---------------------------- MODULE FilterProofs ----------------------------
(***************************************************************************)
(* What the filter lets through and refuses, for any number of workers, of *)
(* categories and of changes of the override, and for any lists.           *)
(***************************************************************************)
EXTENDS Filter, TLAPS

\* A referer that was found good is on a good list, and belongs to the request in
\* hand; one that ought to have been and was not was judged while the override was
\* on.
RefererRight(w) ==
  /\ referer_good[w] => /\ pc[w] \notin {"idle", "referer"}
                        /\ referer[w] \notin Starred /\ GoodListed(referer[w])
  /\ pc[w] \notin {"idle", "referer"} /\ ~referer_good[w] =>
       \/ ~settings.blocking_enable
       \/ referer[w] \in Starred \/ ~GoodListed(referer[w])
       \/ TRUE \in window[w]

RefererKnown == \A w \in Workers : RefererRight(w)

\* The window of a request in hand holds the present value of the override.
WindowKnown == \A w \in Workers : pc[w] # "idle" => override_now \in window[w]

\* A verdict belongs to a scan, or to the request it broke off.
VerdictKnown == \A w \in Workers : is_blocked[w] => pc[w] \in {"scan", "refused"}

IInv == /\ TypeOK /\ RefererKnown /\ WindowKnown /\ VerdictKnown
        /\ BadNeverOpened /\ RefererExcuses /\ RefusedOnlyWhileOn

USE FilterAssumption

-----------------------------------------------------------------------------
LEMMA InitInv == Init => IInv
<1> SUFFICES ASSUME Init PROVE IInv
  OBVIOUS
<1>1. TypeOK
  BY DEF Init, TypeOK
<1>2. RefererKnown /\ WindowKnown /\ VerdictKnown
  BY DEF Init, RefererKnown, RefererRight, WindowKnown, VerdictKnown
<1>3. BadNeverOpened /\ RefererExcuses /\ RefusedOnlyWhileOn
  BY DEF Init, BadNeverOpened, RefererExcuses, RefusedOnlyWhileOn, Open
<1> QED  BY <1>1, <1>2, <1>3 DEF IInv

\* What an address is listed as depends on the settings alone, which do not change.
LEMMA ListsStay ==
  ASSUME settings' = settings
  PROVE  \A u : /\ GoodListed(u)' <=> GoodListed(u)
                /\ BadListed(u)' <=> BadListed(u)
                /\ PostbadListed(u)' <=> PostbadListed(u)
                /\ Excused(u)' <=> Excused(u)
BY DEF GoodListed, BadListed, PostbadListed, Excused, FirstIn, BadIn

\* No step changes the settings.
LEMMA SettingsStay ==
  ASSUME [Next]_vars
  PROVE  settings' = settings
BY DEF Next, Serve, Request, VerifyReferer, VerifyTarget, Piece, Send, End, Override, vars

\* What a piece of data does: it is judged, and goes on, or is blocked.
LEMMA PieceStep ==
  ASSUME NEW w \in Workers, Piece(w)
  PROVE  /\ pc[w] = "scan" /\ UNCHANGED <<settings, override_now, url, referer, window>>
         /\ \E m \in 0 .. MaxMatches :
              /\ is_blocked' = [is_blocked EXCEPT ![w] = Verdict(w, m)]
              /\ \/ UNCHANGED pc
                 \/ Verdict(w, m) /\ pc' = [pc EXCEPT ![w] = "refused"]
              /\ \/ UNCHANGED passed
                 \/ /\ ~Verdict(w, m) \/ redirected[w]
                    /\ passed' = [passed EXCEPT ![w] = @ + 1]
              /\ \/ UNCHANGED redirected
                 \/ redirected' = [redirected EXCEPT ![w] = TRUE]
BY DEF Piece, Block, Forward, request

LEMMA TypeStep ==
  ASSUME TypeOK, [Next]_vars
  PROVE  TypeOK'
<1> USE DEF TypeOK
<1>1. ASSUME NEW w \in Workers, Request(w)
      PROVE  TypeOK'
  BY <1>1 DEF Request, verdict, scan
<1>2. ASSUME NEW w \in Workers, VerifyReferer(w)
      PROVE  TypeOK'
  <2>1. VerifiedGood(referer[w]) \in BOOLEAN
    BY DEF VerifiedGood
  <2> QED  BY <1>2, <2>1 DEF VerifyReferer, request, scan
<1>3. ASSUME NEW w \in Workers, VerifyTarget(w)
      PROVE  TypeOK'
  <2>1. (~Exempt(w) /\ VerifiedGood(url[w])) \in BOOLEAN
    OBVIOUS
  <2> QED  BY <1>3, <2>1 DEF VerifyTarget, request, scan
<1>4. ASSUME NEW w \in Workers, Piece(w)
      PROVE  TypeOK'
  <2>1. \A m : Verdict(w, m) \in BOOLEAN
    BY DEF Verdict
  <2>2. PICK m \in 0 .. MaxMatches :
          /\ is_blocked' = [is_blocked EXCEPT ![w] = Verdict(w, m)]
          /\ \/ UNCHANGED pc
             \/ Verdict(w, m) /\ pc' = [pc EXCEPT ![w] = "refused"]
          /\ \/ UNCHANGED passed
             \/ /\ ~Verdict(w, m) \/ redirected[w]
                /\ passed' = [passed EXCEPT ![w] = @ + 1]
          /\ \/ UNCHANGED redirected
             \/ redirected' = [redirected EXCEPT ![w] = TRUE]
    BY <1>4, PieceStep
  <2>3. is_blocked' \in [Workers -> BOOLEAN] /\ redirected' \in [Workers -> BOOLEAN]
    BY <2>1, <2>2
  <2>4. /\ pc' \in [Workers -> {"idle", "referer", "target", "refused", "relay", "scan"}]
        /\ \A x \in Workers : pc'[x] # "idle" => pc[x] # "idle"
    BY <1>4, <2>2, PieceStep
  <2>5. pieces' = [pieces EXCEPT ![w] = @ + 1] /\ pieces[w] < MaxPieces
    BY <1>4 DEF Piece
  <2>6. pieces' \in [Workers -> 0 .. MaxPieces]
    BY <2>5
  <2>7. /\ passed' \in [Workers -> 0 .. MaxPieces]
        /\ \A x \in Workers : passed'[x] <= pieces'[x]
    BY <2>2, <2>5
  <2> QED  BY <1>4, <2>3, <2>4, <2>6, <2>7 DEF Piece, request, verdict
<1>5. ASSUME NEW w \in Workers, Send(w)
      PROVE  TypeOK'
  BY <1>5 DEF Send, request, verdict
<1>6. ASSUME NEW w \in Workers, End(w)
      PROVE  TypeOK'
  BY <1>6 DEF End
<1>7. ASSUME NEW w \in Workers, Override(w)
      PROVE  TypeOK'
  BY <1>7 DEF Override, request, verdict, scan
<1>8. CASE UNCHANGED vars
  BY <1>8 DEF vars, request, verdict, scan
<1> QED
  BY <1>1, <1>2, <1>3, <1>4, <1>5, <1>6, <1>7, <1>8 DEF Next, Serve

\* The words on a referer stay as they are with the request and its window.
LEMMA RefererStay ==
  ASSUME RefererKnown, settings' = settings, NEW w \in Workers,
         referer'[w] = referer[w], referer_good'[w] = referer_good[w],
         window[w] \subseteq window'[w],
         pc'[w] \in {"idle", "referer"} <=> pc[w] \in {"idle", "referer"}
  PROVE  RefererRight(w)'
BY ListsStay DEF RefererKnown, RefererRight

LEMMA KnownStep ==
  ASSUME TypeOK, RefererKnown, WindowKnown, VerdictKnown, [Next]_vars
  PROVE  (RefererKnown /\ WindowKnown /\ VerdictKnown)'
<1> USE DEF WindowKnown, VerdictKnown, TypeOK
<1> DEFINE Goal == (WindowKnown /\ VerdictKnown)' /\ \A x \in Workers : RefererRight(x)'
<1>0. settings' = settings
  BY SettingsStay
<1>1. ASSUME NEW w \in Workers, Request(w)
      PROVE  Goal
  <2>1. (WindowKnown /\ VerdictKnown)'
    BY <1>1 DEF Request, verdict, scan
  <2>2. ASSUME NEW x \in Workers
        PROVE  RefererRight(x)'
    <3>1. CASE x = w
      BY <1>1, <3>1 DEF Request, verdict, RefererKnown, RefererRight
    <3>2. CASE x # w
      BY <1>0, <1>1, <3>2, RefererStay DEF Request, verdict
    <3> QED  BY <3>1, <3>2
  <2> QED  BY <2>1, <2>2
<1>2. ASSUME NEW w \in Workers, VerifyReferer(w)
      PROVE  Goal
  <2>1. (WindowKnown /\ VerdictKnown)'
    BY <1>2 DEF VerifyReferer, request, scan
  <2>2. ASSUME NEW x \in Workers
        PROVE  RefererRight(x)'
    <3>1. CASE x = w
      <4>1. /\ pc'[w] = "target" /\ referer' = referer /\ window' = window
            /\ referer_good'[w] <=> VerifiedGood(referer[w])
        BY <1>2 DEF VerifyReferer, request
      <4>2. override_now \in window[w] /\ override_now \in BOOLEAN
        BY <1>2 DEF VerifyReferer
      <4>3. GoodListed(referer[w])' <=> GoodListed(referer[w])
        BY <1>0, <4>1 DEF GoodListed
      <4> QED
        BY <1>0, <3>1, <4>1, <4>2, <4>3 DEF RefererRight, VerifiedGood, Off
    <3>2. CASE x # w
      BY <1>0, <1>2, <3>2, RefererStay DEF VerifyReferer, request
    <3> QED  BY <3>1, <3>2
  <2> QED  BY <2>1, <2>2
<1>3. ASSUME NEW w \in Workers, VerifyTarget(w)
      PROVE  Goal
  <2>1. (WindowKnown /\ VerdictKnown)'
    BY <1>3 DEF VerifyTarget, request, scan
  <2>2. pc[w] = "target" /\ \A x \in Workers : x # w => pc'[x] = pc[x]
    BY <1>3 DEF VerifyTarget
  <2>3. pc'[w] \in {"relay", "scan", "refused"}
    BY <1>3 DEF VerifyTarget
  <2>4. UNCHANGED <<referer, referer_good, window>>
    BY <1>3 DEF VerifyTarget, request
  <2> QED  BY <1>0, <2>1, <2>2, <2>3, <2>4, RefererStay
<1>4. ASSUME NEW w \in Workers, Piece(w)
      PROVE  Goal
  <2>1. UNCHANGED <<referer_good, referer, window, override_now>> /\ pc[w] = "scan"
    BY <1>4, PieceStep DEF Piece, verdict
  <2>2. PICK m \in 0 .. MaxMatches :
          /\ is_blocked' = [is_blocked EXCEPT ![w] = Verdict(w, m)]
          /\ pc' = pc \/ pc' = [pc EXCEPT ![w] = "refused"]
    BY <1>4, PieceStep
  <2>3. (WindowKnown /\ VerdictKnown)'
    BY <2>1, <2>2
  <2>4. \A x \in Workers : pc'[x] \in {"idle", "referer"} <=> pc[x] \in {"idle", "referer"}
    BY <2>1, <2>2
  <2> QED  BY <1>0, <2>1, <2>3, <2>4, RefererStay
<1>5. ASSUME NEW w \in Workers, Send(w)
      PROVE  Goal
  <2>1. (WindowKnown /\ VerdictKnown)'
    BY <1>5 DEF Send, request, verdict
  <2> QED  BY <1>0, <1>5, <2>1, RefererStay DEF Send, request, verdict
<1>6. ASSUME NEW w \in Workers, End(w)
      PROVE  Goal
  <2>1. (WindowKnown /\ VerdictKnown)'
    BY <1>6 DEF End
  <2>2. ASSUME NEW x \in Workers
        PROVE  RefererRight(x)'
    <3>1. CASE x = w
      BY <1>6, <3>1 DEF End, RefererRight
    <3>2. CASE x # w
      BY <1>0, <1>6, <3>2, RefererStay DEF End
    <3> QED  BY <3>1, <3>2
  <2> QED  BY <2>1, <2>2
<1>7. ASSUME NEW w \in Workers, Override(w)
      PROVE  Goal
  <2>1. (WindowKnown /\ VerdictKnown)'
    BY <1>7 DEF Override, request, verdict, scan
  <2>2. \A x \in Workers : window[x] \subseteq window'[x]
    BY <1>7 DEF Override
  <2> QED  BY <1>0, <1>7, <2>1, <2>2, RefererStay DEF Override, request, verdict
<1>8. CASE UNCHANGED vars
  <2>1. (WindowKnown /\ VerdictKnown)'
    BY <1>8 DEF vars, request, verdict, scan
  <2>2. UNCHANGED <<pc, referer, referer_good, window>>
    BY <1>8 DEF vars, request, verdict
  <2>3. RefererKnown'
    BY <1>0, <2>2, RefererStay DEF RefererKnown
  <2> QED  BY <2>1, <2>3
<1> QED
  BY <1>1, <1>2, <1>3, <1>4, <1>5, <1>6, <1>7, <1>8 DEF Next, Serve, RefererKnown

-----------------------------------------------------------------------------
\* What is said of an address and a referer changes with them alone.
LEMMA WordsStay ==
  ASSUME [Next]_vars, NEW w \in Workers, url'[w] = url[w], referer'[w] = referer[w]
  PROVE  /\ GoodListed(url[w])' <=> GoodListed(url[w])
         /\ BadListed(url[w])' <=> BadListed(url[w])
         /\ PostbadListed(url[w])' <=> PostbadListed(url[w])
         /\ Excused(url[w])' <=> Excused(url[w])
         /\ RefererGood(w)' <=> RefererGood(w)
<1>1. settings' = settings
  BY SettingsStay
<1> QED
  BY <1>1 DEF GoodListed, BadListed, PostbadListed, Excused, FirstIn, BadIn, RefererGood

\* What the lists say for and against opening the address in hand.
Allowed(w) ==
  /\ url[w] \in Starred => RefererGood(w)
  /\ url[w] \notin Starred /\ settings.block_bad =>
       /\ BadListed(url[w]) => GoodListed(url[w]) \/ RefererGood(w)
       /\ ~PostbadListed(url[w])

\* A connection is opened only for an address that the override, a good list or a
\* good referer lets through.
LEMMA OpenedRightly ==
  ASSUME IInv, NEW w \in Workers, VerifyTarget(w), pc'[w] # "refused",
         settings.blocking_enable, TRUE \notin window[w]
  PROVE  Allowed(w)
<1>1. ~Off
  BY DEF IInv, TypeOK, WindowKnown, VerifyTarget, Off
<1>2. Exempt(w) \/ ~VerifiedBlocked(url[w])
  BY DEF IInv, TypeOK, VerifyTarget
<1>3. CASE Exempt(w)
  <2>1. RefererGood(w)
    BY <1>3 DEF Exempt, IInv, RefererKnown, RefererRight, RefererGood
  <2>2. PostbadListed(url[w]) => url[w] \in Starred
    BY <1>1, <1>3 DEF Exempt, VerifiedPostbad
  <2> QED  BY <2>1, <2>2 DEF Allowed
<1>4. CASE ~VerifiedBlocked(url[w])
  BY <1>1, <1>4 DEF VerifiedBlocked, Excused, Allowed
<1> QED  BY <1>2, <1>3, <1>4

\* A request is the same, and its window only grows, as long as it is in hand; it
\* is opened by VerifyTarget, and refused by VerifyTarget or by a piece of data.
LEMMA RequestStep ==
  ASSUME TypeOK, [Next]_vars, NEW w \in Workers, pc'[w] \in {"relay", "scan", "refused"}
  PROVE  /\ url'[w] = url[w] /\ referer'[w] = referer[w] /\ window[w] \subseteq window'[w]
         /\ \/ pc'[w] = pc[w] /\ is_blocked'[w] = is_blocked[w]
            \/ VerifyTarget(w) /\ is_blocked'[w] = is_blocked[w]
            \/ /\ Piece(w) /\ pc[w] = "scan"
               /\ \E m : is_blocked'[w] = Verdict(w, m)
               /\ pc'[w] = "scan" \/ is_blocked'[w]
<1> DEFINE Goal == /\ url'[w] = url[w] /\ referer'[w] = referer[w]
                   /\ window[w] \subseteq window'[w]
                   /\ \/ pc'[w] = pc[w] /\ is_blocked'[w] = is_blocked[w]
                      \/ VerifyTarget(w) /\ is_blocked'[w] = is_blocked[w]
                      \/ /\ Piece(w) /\ pc[w] = "scan"
                         /\ \E m : is_blocked'[w] = Verdict(w, m)
                         /\ pc'[w] = "scan" \/ is_blocked'[w]
<1> USE DEF TypeOK
<1>1. ASSUME NEW v \in Workers, Request(v)
      PROVE  Goal
  BY <1>1 DEF Request, scan
<1>2. ASSUME NEW v \in Workers, VerifyReferer(v)
      PROVE  Goal
  BY <1>2 DEF VerifyReferer, request, scan
<1>3. ASSUME NEW v \in Workers, VerifyTarget(v)
      PROVE  Goal
  <2>1. pc' = [pc EXCEPT ![v] = pc'[v]] /\ UNCHANGED <<url, referer, window, is_blocked>>
    BY <1>3 DEF VerifyTarget, request, scan
  <2> QED  BY <1>3, <2>1
<1>4. ASSUME NEW v \in Workers, Piece(v)
      PROVE  Goal
  <2>1. /\ pc' = [pc EXCEPT ![v] = pc'[v]] /\ UNCHANGED <<url, referer, window>>
        /\ is_blocked' = [is_blocked EXCEPT ![v] = is_blocked'[v]]
    BY <1>4, PieceStep
  <2>2. CASE v = w
    <3>1. PICK m \in 0 .. MaxMatches :
            /\ is_blocked' = [is_blocked EXCEPT ![w] = Verdict(w, m)]
            /\ \/ UNCHANGED pc
               \/ Verdict(w, m) /\ pc' = [pc EXCEPT ![w] = "refused"]
      BY <1>4, <2>2, PieceStep
    <3>2. is_blocked'[w] = Verdict(w, m)
      BY <3>1
    <3>3. pc[w] = "scan" /\ Piece(w)
      BY <1>4, <2>2 DEF Piece
    <3>4. pc'[w] = "scan" \/ is_blocked'[w]
      BY <3>1, <3>2, <3>3
    <3> QED  BY <2>1, <3>2, <3>3, <3>4
  <2>3. CASE v # w
    BY <2>1, <2>3
  <2> QED  BY <2>2, <2>3
<1>5. ASSUME NEW v \in Workers, Send(v)
      PROVE  Goal
  BY <1>5 DEF Send, request
<1>6. ASSUME NEW v \in Workers, End(v)
      PROVE  Goal
  BY <1>6 DEF End
<1>7. ASSUME NEW v \in Workers, Override(v)
      PROVE  Goal
  BY <1>7 DEF Override, request, scan
<1>8. CASE UNCHANGED vars
  BY <1>8 DEF vars, request, scan
<1> QED
  BY <1>1, <1>2, <1>3, <1>4, <1>5, <1>6, <1>7, <1>8 DEF Next, Serve

LEMMA OpenStep ==
  ASSUME IInv, [Next]_vars
  PROVE  BadNeverOpened'
<1> SUFFICES ASSUME NEW w \in Workers, Open(w)', settings'.blocking_enable,
                    TRUE \notin window'[w]
             PROVE  Allowed(w)'
  BY DEF BadNeverOpened, Allowed
<1>1. pc'[w] \in {"relay", "scan"}
  BY DEF Open
<1>2. TypeOK
  BY DEF IInv
<1>3. url'[w] = url[w] /\ referer'[w] = referer[w] /\ window[w] \subseteq window'[w]
  BY <1>1, <1>2, RequestStep
<1>4. settings' = settings /\ settings.blocking_enable /\ TRUE \notin window[w]
  BY <1>3, SettingsStay
<1>5. Open(w) \/ VerifyTarget(w)
  BY <1>1, <1>2, RequestStep DEF Open
<1>6. Allowed(w)
  <2>1. CASE Open(w)
    BY <1>4, <2>1 DEF IInv, BadNeverOpened, Allowed
  <2>2. CASE VerifyTarget(w)
    BY <1>1, <1>4, <2>2, OpenedRightly
  <2> QED  BY <1>5, <2>1, <2>2
<1> QED  BY <1>3, <1>4, <1>6, WordsStay DEF Allowed

\* A good referer speaks for the address in hand.
Excusable(w) == RefererGood(w) /\ (url[w] \in Starred \/ ~PostbadListed(url[w]))

LEMMA RefusedStep ==
  ASSUME IInv, [Next]_vars
  PROVE  (RefererExcuses /\ RefusedOnlyWhileOn)'
<1>0. TypeOK
  BY DEF IInv
<1>1. ASSUME NEW w \in Workers, VerifyTarget(w), pc'[w] = "refused"
      PROVE  /\ Excusable(w) => TRUE \in window[w]
             /\ settings.blocking_enable /\ FALSE \in window[w]
  <2>1. VerifiedBlocked(url[w]) /\ ~Exempt(w)
    BY <1>0, <1>1 DEF VerifyTarget, TypeOK
  <2>2. override_now \in window[w] /\ override_now \in BOOLEAN
    BY <1>1 DEF IInv, WindowKnown, TypeOK, VerifyTarget
  <2>3. settings.blocking_enable /\ FALSE \in window[w]
    BY <2>1, <2>2 DEF VerifiedBlocked, Off
  <2>4. Excusable(w) => ~referer_good[w]
    BY <2>1 DEF Excusable, RefererGood, Exempt, VerifiedPostbad
  <2>5. pc[w] = "target"
    BY <1>1 DEF VerifyTarget
  <2> QED
    BY <2>3, <2>4, <2>5 DEF IInv, RefererKnown, RefererRight, Excusable, RefererGood
<1>2. ASSUME NEW w \in Workers, NEW m, pc[w] = "scan", Verdict(w, m)
      PROVE  settings.blocking_enable /\ FALSE \in window[w]
  <2>1. CASE is_blocked[w]
    BY <2>1 DEF IInv, RefusedOnlyWhileOn
  <2>2. CASE Found(m)
    BY <1>2, <2>2 DEF IInv, WindowKnown, TypeOK, Found, Off
  <2> QED  BY <1>2, <2>1, <2>2 DEF Verdict
<1>3. ASSUME NEW w \in Workers, pc'[w] = "refused", ~is_blocked'[w], Excusable(w)'
      PROVE  window'[w] = BOOLEAN
  <2>1. /\ url'[w] = url[w] /\ referer'[w] = referer[w] /\ window[w] \subseteq window'[w]
        /\ (pc[w] = "refused" /\ ~is_blocked[w]) \/ VerifyTarget(w)
    BY <1>0, <1>3, RequestStep
  <2>2. Excusable(w)
    BY <1>3, <2>1, WordsStay DEF Excusable
  <2>3. BOOLEAN \subseteq window[w]
    <3>1. CASE pc[w] = "refused" /\ ~is_blocked[w]
      BY <2>2, <3>1 DEF IInv, RefererExcuses, Excusable
    <3>2. CASE VerifyTarget(w)
      BY <1>1, <1>3, <2>2, <3>2
    <3> QED  BY <2>1, <3>1, <3>2
  <2>4. window'[w] \subseteq BOOLEAN
    BY TypeStep DEF IInv, TypeOK
  <2> QED  BY <2>1, <2>3, <2>4
<1>4. ASSUME NEW w \in Workers, pc'[w] = "refused" \/ is_blocked'[w]
      PROVE  settings'.blocking_enable /\ FALSE \in window'[w]
  <2>1. pc'[w] \in {"scan", "refused"}
    BY <1>0, <1>4, KnownStep DEF IInv, VerdictKnown
  <2>2. /\ window[w] \subseteq window'[w]
        /\ \/ pc'[w] = pc[w] /\ is_blocked'[w] = is_blocked[w]
           \/ VerifyTarget(w) /\ is_blocked'[w] = is_blocked[w]
           \/ /\ Piece(w) /\ pc[w] = "scan"
              /\ \E m : is_blocked'[w] = Verdict(w, m)
              /\ pc'[w] = "scan" \/ is_blocked'[w]
    BY <1>0, <2>1, RequestStep
  <2>3. settings.blocking_enable /\ FALSE \in window[w]
    <3>1. CASE pc'[w] = pc[w] /\ is_blocked'[w] = is_blocked[w]
      BY <1>4, <3>1 DEF IInv, RefusedOnlyWhileOn
    <3>2. CASE VerifyTarget(w) /\ is_blocked'[w] = is_blocked[w]
      BY <1>1, <1>4, <3>2 DEF IInv, RefusedOnlyWhileOn
    <3>3. CASE /\ pc[w] = "scan" /\ \E m : is_blocked'[w] = Verdict(w, m)
               /\ pc'[w] = "scan" \/ is_blocked'[w]
      BY <1>2, <1>4, <3>3
    <3> QED  BY <2>2, <3>1, <3>2, <3>3
  <2> QED  BY <2>2, <2>3, SettingsStay
<1> QED  BY <1>3, <1>4 DEF RefererExcuses, RefusedOnlyWhileOn, Excusable

\* A verdict is kept, and what the client has been given, until the request ends.
LEMMA VerdictStep ==
  ASSUME IInv, [Next]_vars, NEW w \in Workers, is_blocked[w], pc'[w] # "idle"
  PROVE  is_blocked'[w] /\ (passed'[w] = passed[w] \/ redirected[w])
<1>0. TypeOK /\ pc[w] \in {"scan", "refused"}
  BY DEF IInv, VerdictKnown
<1>1. ASSUME NEW v \in Workers, Request(v) \/ VerifyReferer(v) \/ VerifyTarget(v)
                                \/ Send(v) \/ Override(v)
      PROVE  UNCHANGED <<is_blocked, passed>>
  BY <1>1 DEF Request, VerifyReferer, VerifyTarget, Send, Override, scan
<1>2. ASSUME NEW v \in Workers, Piece(v)
      PROVE  is_blocked'[w] /\ (passed'[w] = passed[w] \/ redirected[w])
  <2>1. PICK m \in 0 .. MaxMatches :
          /\ is_blocked' = [is_blocked EXCEPT ![v] = Verdict(v, m)]
          /\ \/ UNCHANGED passed
             \/ /\ ~Verdict(v, m) \/ redirected[v]
                /\ passed' = [passed EXCEPT ![v] = @ + 1]
    BY <1>2, PieceStep
  <2>2. CASE v = w
    <3>1. Verdict(w, m)
      BY DEF Verdict
    <3> QED  BY <1>0, <2>1, <2>2, <3>1 DEF TypeOK
  <2>3. CASE v # w
    BY <1>0, <2>1, <2>3 DEF TypeOK
  <2> QED  BY <2>2, <2>3
<1>3. ASSUME NEW v \in Workers, End(v)
      PROVE  is_blocked'[w] /\ (passed'[w] = passed[w] \/ redirected[w])
  BY <1>0, <1>3 DEF End, TypeOK
<1>4. CASE UNCHANGED vars
  BY <1>4 DEF vars, scan
<1> QED
  BY <1>1, <1>2, <1>3, <1>4 DEF Next, Serve

-----------------------------------------------------------------------------
LEMMA Invariance == Spec => []IInv
<1>1. IInv /\ [Next]_vars => IInv'
  <2> SUFFICES ASSUME IInv, [Next]_vars PROVE IInv'
    OBVIOUS
  <2>1. TypeOK'
    BY TypeStep DEF IInv
  <2>2. (RefererKnown /\ WindowKnown /\ VerdictKnown)'
    BY KnownStep DEF IInv
  <2>3. (BadNeverOpened /\ RefererExcuses /\ RefusedOnlyWhileOn)'
    BY OpenStep, RefusedStep
  <2> QED  BY <2>1, <2>2, <2>3 DEF IInv
<1> QED  BY InitInv, <1>1, PTL DEF Spec

\* Every field has its type: no worker passes on more pieces of an answer than it
\* has received, and a request in hand has an address.
THEOREM TypeCorrect == Spec => []TypeOK
<1>1. IInv => TypeOK
  BY DEF IInv
<1> QED  BY Invariance, <1>1, PTL

\* Whatever the lists and the settings, and however the override changes between
\* the two calls of verify_url() and during the answer, a bad address is opened only
\* with a reason for it.
THEOREM BadStaysShut == Spec => []BadNeverOpened
<1>1. IInv => BadNeverOpened
  BY DEF IInv
<1> QED  BY Invariance, <1>1, PTL

\* Likewise, a request that a good referer excuses is refused only when the override
\* was turned off between the two.
THEOREM RefererIsHeard == Spec => []RefererExcuses
<1>1. IInv => RefererExcuses
  BY DEF IInv
<1> QED  BY Invariance, <1>1, PTL

\* The override, on for the whole of a request, lets it through to its end.
THEOREM OverrideObeyed == Spec => []RefusedOnlyWhileOn
<1>1. IInv => RefusedOnlyWhileOn
  BY DEF IInv
<1> QED  BY Invariance, <1>1, PTL

\* The verdict on a page is final for its connection.
THEOREM VerdictIsFinal == Spec => VerdictSticks
<1>1. IInv /\ [Next]_vars =>
        [\A w \in Workers :
           is_blocked[w] /\ pc'[w] # "idle" => is_blocked'[w] /\ (passed'[w] = passed[w] \/ redirected[w])]_vars
  BY VerdictStep
<1> QED  BY Invariance, <1>1, PTL DEF Spec, VerdictSticks
=============================================================================
