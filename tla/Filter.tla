------------------------------- MODULE Filter -------------------------------
(***************************************************************************)
(* What one kernel of if2kd lets through: the requests that the workers    *)
(* serve (if2k_mini_http_proxy::handle_connection()), what the kernel says *)
(* of their addresses and of what comes back (verify_url(),                *)
(* verify_received_data(), verify_transmitted_data()), and the override,   *)
(* which a request to the daemon itself turns on and off for all of them.  *)
(*                                                                         *)
(* override_now is one field that every worker reads without a lock, once  *)
(* for the address of the referer, once for the address asked for and once *)
(* for every piece of data: it may change between any two of them.  All    *)
(* the other settings are read when the kernel is loaded, and stay.        *)
(***************************************************************************)
EXTENDS Integers

CONSTANTS
  Workers,
  Urls,           \* the addresses asked for
  NoUrl,          \* the referer of a request that has none
  NumCategories,  \* 8 in the code
  GoodUrls,       \* per category: what its good lists match
  BadUrls,        \* ... its lists of bad addresses
  PostbadUrls,    \* ... its lists of bad addresses that no good list excuses
  BadPhrases,     \* ... its lists of phrases, looked up after those
  Starred,        \* addresses with a '*' in the name of the host
  Settings,       \* the settings a kernel may be loaded with
  MaxMatches,     \* bound: matches in one piece of data
  MaxPieces,      \* bound: pieces of data of one answer
  MaxToggles      \* bound: requests that set the override

Categories == 1 .. NumCategories
Lists == [Categories -> SUBSET Urls]
Setting == [blocking_enable : BOOLEAN, block_bad : BOOLEAN, block_unknown : BOOLEAN,
            blocking_referer_enable : BOOLEAN, override_allow : BOOLEAN,
            block_content : BOOLEAN, content_match_threshold : Int,
            good_categories : SUBSET Categories, categories : SUBSET Categories]

ASSUME FilterAssumption ==
  /\ NumCategories \in Nat /\ MaxMatches \in Nat /\ MaxPieces \in Nat /\ MaxToggles \in Nat
  /\ NoUrl \notin Urls
  /\ GoodUrls \in Lists /\ BadUrls \in Lists /\ PostbadUrls \in Lists /\ BadPhrases \in Lists
  /\ Starred \subseteq Urls
  /\ Settings \subseteq Setting

VARIABLES
  settings,      \* as load() left them; see the README for the licence
  override_now,
  pc,            \* per worker: where it stands
  url, referer,  \* per worker: the request in hand
  referer_good,  \* per worker: referer_request.is_good
  is_good,       \* per worker: is_good of the request handed on
  is_blocked,    \* per worker: is_blocked of the scanning tunnel's own request
  pieces,        \* per worker: pieces of data received
  passed,        \* per worker: how many of them were put in the client's queue
  begun,         \* per worker: something has been sent to the client
  redirected,    \* per worker: blocking_applied, the redirect is in the client's queue
  window,        \* per worker: the values of override_now since the request came
  toggles

request == <<url, referer>>
scan == <<is_blocked, pieces, passed, begun, redirected>>
verdict == <<referer_good, is_good>>
vars == <<settings, override_now, pc, request, verdict, scan, window, toggles>>

TypeOK ==
  /\ settings \in Settings /\ override_now \in BOOLEAN /\ toggles \in 0 .. MaxToggles
  /\ pc \in [Workers -> {"idle", "referer", "target", "refused", "relay", "scan"}]
  /\ url \in [Workers -> Urls \cup {NoUrl}]
  /\ \A w \in Workers : pc[w] # "idle" => url[w] \in Urls
  /\ referer \in [Workers -> Urls \cup {NoUrl}]
  /\ referer_good \in [Workers -> BOOLEAN] /\ is_good \in [Workers -> BOOLEAN]
  /\ is_blocked \in [Workers -> BOOLEAN]
  /\ pieces \in [Workers -> 0 .. MaxPieces]
  /\ passed \in [Workers -> 0 .. MaxPieces]
  /\ begun \in [Workers -> BOOLEAN] /\ redirected \in [Workers -> BOOLEAN]
  /\ \A w \in Workers : passed[w] <= pieces[w]
  /\ window \in [Workers -> SUBSET BOOLEAN]

Init ==
  /\ settings \in Settings /\ override_now \in BOOLEAN /\ toggles = 0
  /\ pc = [w \in Workers |-> "idle"]
  /\ url = [w \in Workers |-> NoUrl] /\ referer = [w \in Workers |-> NoUrl]
  /\ referer_good = [w \in Workers |-> FALSE] /\ is_good = [w \in Workers |-> FALSE]
  /\ is_blocked = [w \in Workers |-> FALSE]
  /\ pieces = [w \in Workers |-> 0] /\ passed = [w \in Workers |-> 0]
  /\ begun = [w \in Workers |-> FALSE] /\ redirected = [w \in Workers |-> FALSE]
  /\ window = [w \in Workers |-> {}]

-----------------------------------------------------------------------------
(* The kernel: verify_url()                                                *)

Off == override_now \/ ~settings.blocking_enable

GoodListed(u) == \E c \in settings.good_categories : u \in GoodUrls[c]
BadIn(c) == BadUrls[c] \cup PostbadUrls[c] \cup BadPhrases[c]

\* The search goes through the categories, and the lists of each, in order, and
\* ends with the first match: it alone says whether the address is bad or postbad.
FirstIn(u, c) == \A d \in settings.categories : d < c => u \notin BadIn(d)
BadListed(u) ==
  \E c \in settings.categories :
    FirstIn(u, c) /\ u \in BadUrls[c] \cup (BadPhrases[c] \ PostbadUrls[c])
PostbadListed(u) ==
  \E c \in settings.categories : FirstIn(u, c) /\ u \in PostbadUrls[c] \ BadUrls[c]

Unlisted(u) == ~GoodListed(u) /\ ~BadListed(u) /\ ~PostbadListed(u)

Excused(u) == GoodListed(u) /\ ~PostbadListed(u)

\* request.is_good, request.is_postbad and request.is_blocked after verify_url().
VerifiedGood(u) == ~Off /\ u \notin Starred /\ GoodListed(u)
VerifiedPostbad(u) == ~Off /\ u \notin Starred /\ PostbadListed(u)

VerifiedBlocked(u) ==
  /\ ~Off
  /\ \/ u \in Starred
     \/ /\ \/ settings.block_bad /\ (BadListed(u) \/ PostbadListed(u))
           \/ settings.block_unknown /\ Unlisted(u)
        /\ ~Excused(u)

-----------------------------------------------------------------------------
(* handle_connection() and is_request_blocked()                            *)

\* A request comes with its header.
Request(w) ==
  /\ pc[w] = "idle"
  /\ \E u \in Urls : url' = [url EXCEPT ![w] = u]
  /\ \E u \in Urls \cup {NoUrl} : referer' = [referer EXCEPT ![w] = u]
  /\ pc' = [pc EXCEPT ![w] = "referer"]
  /\ window' = [window EXCEPT ![w] = {override_now}]
  /\ UNCHANGED <<settings, override_now, verdict, scan, toggles>>

VerifyReferer(w) ==
  /\ pc[w] = "referer"
  /\ pc' = [pc EXCEPT ![w] = "target"]
  /\ referer_good' = [referer_good EXCEPT ![w] = VerifiedGood(referer[w])]
  /\ UNCHANGED <<settings, override_now, request, is_good, scan, window, toggles>>

\* Mutant: the referer excuses every target.
BugExempt(w) == settings.blocking_referer_enable /\ referer_good[w]

\* Mutant: the wrong flag of the target is asked.
BugNotBlocked(w) ==
  settings.blocking_referer_enable /\ referer_good[w] /\ ~VerifiedBlocked(url[w])

\* A good referer excuses whatever is not postbad.
Exempt(w) == settings.blocking_referer_enable /\ referer_good[w] /\ ~VerifiedPostbad(url[w])

\* An exempt request is handed on with the flags of no verdict at all, any other
\* with those of the target.  The answer is scanned unless it is not text, the
\* request was handed on as good, has content of its own, or is a CONNECT.
VerifyTarget(w) ==
  /\ pc[w] = "target"
  /\ is_good' = [is_good EXCEPT ![w] = ~Exempt(w) /\ VerifiedGood(url[w])]
  /\ \/ /\ ~Exempt(w) /\ VerifiedBlocked(url[w])
        /\ pc' = [pc EXCEPT ![w] = "refused"]
     \/ /\ Exempt(w) \/ ~VerifiedBlocked(url[w])
        /\ \/ pc' = [pc EXCEPT ![w] = "relay"]
           \/ ~is_good'[w] /\ pc' = [pc EXCEPT ![w] = "scan"]
  /\ UNCHANGED <<settings, override_now, request, referer_good, scan, window, toggles>>

-----------------------------------------------------------------------------
(* The scanning tunnel: verify_received_data(), verify_transmitted_data()  *)

\* Mutant: the data is judged whether the filter is on or off.
BugFound(m) ==
  settings.block_bad /\ settings.block_content /\ m >= settings.content_match_threshold

\* The matches of this piece reach the threshold.  The tunnel's request is its
\* own, and is not good whatever the lists say of the address.
Found(m) ==
  /\ ~Off
  /\ settings.block_bad /\ settings.block_content
  /\ m >= settings.content_match_threshold

\* Mutant: the verdict is the verdict of the piece.
BugVerdict(w, m) == Found(m)

Verdict(w, m) == is_blocked[w] \/ Found(m)

\* The piece goes on, to the client or, when it is the client's, to the server.
Forward(w) ==
  /\ \/ UNCHANGED passed
     \/ passed' = [passed EXCEPT ![w] = @ + 1]
  /\ UNCHANGED <<pc, redirected>>

\* The piece goes nowhere: the redirect takes its place, or the transaction is
\* broken off if something has been sent to the client already.
Block(w) ==
  /\ \/ ~begun[w] /\ redirected' = [redirected EXCEPT ![w] = TRUE] /\ UNCHANGED pc
     \/ begun[w] /\ pc' = [pc EXCEPT ![w] = "refused"] /\ UNCHANGED redirected
  /\ UNCHANGED passed

\* A piece of the answer, or of what the client still sends.  Behind the redirect,
\* what the server sends is put in the client's queue again.
Piece(w) ==
  /\ pc[w] = "scan" /\ pieces[w] < MaxPieces
  /\ pieces' = [pieces EXCEPT ![w] = @ + 1]
  /\ \E m \in 0 .. MaxMatches :
       /\ is_blocked' = [is_blocked EXCEPT ![w] = Verdict(w, m)]
       /\ \/ Verdict(w, m) /\ ~redirected[w] /\ Block(w)
          \/ ~(Verdict(w, m) /\ ~redirected[w]) /\ Forward(w)
  /\ UNCHANGED <<settings, override_now, request, verdict, begun, window, toggles>>

\* The header of the answer, or more of it, is sent to the client.
Send(w) ==
  /\ pc[w] = "scan" /\ ~begun[w]
  /\ begun' = [begun EXCEPT ![w] = TRUE]
  /\ UNCHANGED <<settings, override_now, pc, request, verdict, is_blocked, pieces,
                 passed, redirected, window, toggles>>

\* The redirect is sent, or one of the connections is closed.
End(w) ==
  /\ pc[w] \in {"refused", "relay", "scan"}
  /\ pc' = [pc EXCEPT ![w] = "idle"]
  /\ url' = [url EXCEPT ![w] = NoUrl] /\ referer' = [referer EXCEPT ![w] = NoUrl]
  /\ referer_good' = [referer_good EXCEPT ![w] = FALSE]
  /\ is_good' = [is_good EXCEPT ![w] = FALSE]
  /\ is_blocked' = [is_blocked EXCEPT ![w] = FALSE]
  /\ pieces' = [pieces EXCEPT ![w] = 0] /\ passed' = [passed EXCEPT ![w] = 0]
  /\ begun' = [begun EXCEPT ![w] = FALSE] /\ redirected' = [redirected EXCEPT ![w] = FALSE]
  /\ window' = [window EXCEPT ![w] = {}]
  /\ UNCHANGED <<settings, override_now, toggles>>

-----------------------------------------------------------------------------
(* handle_post_override() and set_override_mode()                          *)

\* A worker serves a request to the daemon itself.  Its address is verified too,
\* to no effect.
Override(w) ==
  /\ pc[w] = "idle" /\ settings.override_allow
  /\ toggles < MaxToggles /\ toggles' = toggles + 1
  /\ \E f \in BOOLEAN : override_now' = f
  /\ window' = [x \in Workers |-> IF pc[x] = "idle" THEN window[x]
                                  ELSE window[x] \cup {override_now'}]
  /\ UNCHANGED <<settings, pc, request, verdict, scan>>

-----------------------------------------------------------------------------
Serve(w) == Request(w) \/ VerifyReferer(w) \/ VerifyTarget(w)
            \/ Piece(w) \/ Send(w) \/ End(w)
Next == \E w \in Workers : Serve(w) \/ Override(w)
Spec == Init /\ [][Next]_vars

-----------------------------------------------------------------------------
(* Properties                                                              *)

Open(w) == pc[w] \in {"relay", "scan"}

\* The referer's host has no '*', and a good list matches it.
RefererGood(w) ==
  /\ settings.blocking_referer_enable
  /\ referer[w] \notin Starred /\ GoodListed(referer[w])

\* Unless the override was on at some moment since the request came: an address
\* listed as bad is opened only if a good list or a good referer excuses it, one
\* listed as postbad, and not as bad first, never.  An address with a '*' in its
\* host is not looked up in any list (verify_url(), :662-667): only a good referer
\* opens it, and it does so even if the address is on a list of postbad ones.
BadNeverOpened ==
  \A w \in Workers :
    Open(w) /\ settings.blocking_enable /\ TRUE \notin window[w] =>
      /\ url[w] \in Starred => RefererGood(w)
      /\ url[w] \notin Starred /\ settings.block_bad =>
           /\ BadListed(url[w]) => GoodListed(url[w]) \/ RefererGood(w)
           /\ ~PostbadListed(url[w])

\* A good referer is judged before the address it excuses, by another reading of
\* override_now: a request that it excuses is refused at its address only if the
\* override was on when the referer was judged, which leaves the referer unknown,
\* and off again when the address was.
RefererExcuses ==
  \A w \in Workers :
    pc[w] = "refused" /\ ~is_blocked[w] /\ RefererGood(w)
      /\ (url[w] \in Starred \/ ~PostbadListed(url[w])) => window[w] = BOOLEAN

\* Nothing is refused or cut off but at a moment when the filter was on: while the
\* override stays on from the request to its end, everything passes.
RefusedOnlyWhileOn ==
  \A w \in Workers :
    pc[w] = "refused" \/ is_blocked[w] => settings.blocking_enable /\ FALSE \in window[w]

\* Once a page was found bad, nothing more of it is put in the client's queue but
\* behind the redirect, and a later override does not bring it back.
VerdictSticks ==
  [][\A w \in Workers :
       is_blocked[w] /\ pc'[w] # "idle" =>
         is_blocked'[w] /\ (passed'[w] = passed[w] \/ redirected[w])]_vars

\* The manual says that matches are counted "in an unknown website before the
\* filter blocks the entire page": a good site is not blocked for its contents.
GoodNotBlockedForContents ==
  \A w \in Workers : is_blocked[w] => ~GoodListed(url[w])
=============================================================================
