--------------------------- MODULE FollowUpProofs ----------------------------
(*****************************************************************************)
(* Proofs about what follows a change of the database outside it, for any    *)
(* users, requests of the page and bounds: a page shows the desk of who is   *)
(* signed in and is never taken back by a refresh. A request that still is   *)
(* current was made for the page as it is now; this, and that only one       *)
(* refresh is current at a time, is the inductive invariant.                 *)
(*****************************************************************************)
EXTENDS MCFollowUp, AdmissionProofs

-----------------------------------------------------------------------------
(* The desk.                                                               *)

Refreshes == {"poll", "live"}
Refresh(f) == fetch[f].kind \in Refreshes

Fetch == [kind : {"none", "hydrate", "login", "logout", "campaign", "mutation",
                  "poll", "live"},
          at : {"free", "sent", "answered"}, current : SUBSET Counters,
          who : Users \cup {Nobody}, answer : {"none", "ok", "refused", "failed"},
          version : 0 .. MaxChanges]

(* What a request says of itself.                                          *)
FetchInv(f) ==
  /\ fetch[f].current \subseteq Checked(fetch[f].kind)
  /\ fetch[f].version <= news
  /\ fetch[f].at = "answered" /\ Succeeds(f) /\ fetch[f].kind # "logout"
       => fetch[f].who # Nobody
  /\ fetch[f].kind = "hydrate" /\ Valid(f) => fetch[f].who = cookie
  /\ fetch[f].kind \in Refreshes \cup {"campaign"} /\ Valid(f)
       => fetch[f].who = signedIn
  /\ Refresh(f) /\ Valid(f) /\ fetch[f].at = "answered" /\ Succeeds(f)
       => fetch[f].version >= shown.version

(* Who signs in has no other session and asks for one only, and a session  *)
(* that was asked for before will not be shown.                            *)
OneLogin ==
  \A f \in Fetches : fetch[f].kind = "login" =>
    /\ signedIn = Nobody
    /\ \A g \in Fetches : /\ fetch[g].kind = "hydrate" => ~Valid(g)
                          /\ fetch[g].kind = "login" => g = f

OneRefresh ==
  \A f, g \in Fetches : Refresh(f) /\ Valid(f) /\ Refresh(g) /\ Valid(g) => f = g

PageInv ==
  /\ shown.user = signedIn /\ shown.version <= news
  /\ signedIn # Nobody => cookie = signedIn
  /\ signedIn = Nobody => ~hint /\ ~debounce

DeskInv == /\ DeskTypeOK /\ PageInv /\ OneLogin /\ OneRefresh
           /\ \A f \in Fetches : FetchInv(f)

(* The counters of each kind.                                              *)
LEMMA CheckedKinds ==
  /\ \A k : Checked(k) \in SUBSET Counters
  /\ Checked("hydrate") = {"session"} /\ Checked("campaign") = {"desk"}
  /\ Checked("poll") = {"desk", "background"}
  /\ Checked("live") = {"desk", "background", "live"}
BY DEF Checked, Counters

\* A request that is not consumed stays what it was, but for the counters in moved.
Rides(g, moved) ==
  /\ fetch'[g].kind = fetch[g].kind /\ fetch'[g].at = fetch[g].at
  /\ fetch'[g].current = fetch[g].current \ moved
  /\ fetch'[g].who = fetch[g].who /\ fetch'[g].answer = fetch[g].answer
  /\ fetch'[g].version = fetch[g].version

LEMMA NoFetchTyped ==
  ASSUME MaxChanges \in Nat
  PROVE  /\ NoFetch \in Fetch /\ NoFetch.kind = "none" /\ NoFetch.at = "free"
         /\ NoFetch.current = {} /\ NoFetch.who = Nobody /\ NoFetch.answer = "none"
         /\ NoFetch.version = 0
BY DEF NoFetch, Fetch

LEMMA SentTyped ==
  ASSUME MaxChanges \in Nat, NEW who \in Users \cup {Nobody},
         NEW k \in {"hydrate", "login", "logout", "campaign", "mutation", "poll", "live"}
  PROVE  /\ Sent(k, who) \in Fetch /\ Sent(k, who).kind = k /\ Sent(k, who).at = "sent"
         /\ Sent(k, who).current = Checked(k) /\ Sent(k, who).who = who
         /\ Sent(k, who).answer = "none" /\ Sent(k, who).version = 0
BY CheckedKinds DEF Sent, Fetch

(* What Bumped does to the requests.                                       *)
LEMMA BumpedFetches ==
  ASSUME NEW F \in [Fetches -> Fetch], NEW moved \in SUBSET Counters
  PROVE  /\ Bumped(F, moved) \in [Fetches -> Fetch]
         /\ \A g \in Fetches :
              LET b == Bumped(F, moved)[g] IN
              /\ b.kind = F[g].kind /\ b.at = F[g].at /\ b.current = F[g].current \ moved
              /\ b.who = F[g].who /\ b.answer = F[g].answer /\ b.version = F[g].version
<1> SUFFICES ASSUME NEW g \in Fetches
             PROVE  LET b == [F[g] EXCEPT !.current = @ \ moved] IN
                    /\ b \in Fetch /\ b.kind = F[g].kind /\ b.at = F[g].at
                    /\ b.current = F[g].current \ moved
                    /\ b.who = F[g].who /\ b.answer = F[g].answer /\ b.version = F[g].version
  BY DEF Bumped
<1>1. F[g] \in Fetch OBVIOUS
<1> QED BY <1>1 DEF Fetch

LEMMA ConsumedFetches ==
  ASSUME MaxChanges \in Nat, fetch \in [Fetches -> Fetch], NEW f \in Fetches,
         NEW moved \in SUBSET Counters, Consumed(f, moved)
  PROVE  /\ fetch' \in [Fetches -> Fetch]
         /\ fetch'[f].kind = "none" /\ fetch'[f].at = "free" /\ fetch'[f].version = 0
         /\ fetch'[f].current = {}
         /\ \A g \in Fetches \ {f} : Rides(g, moved)
<1> DEFINE F == [fetch EXCEPT ![f] = NoFetch]
<1>1. F \in [Fetches -> Fetch] /\ F[f] = NoFetch /\ \A g \in Fetches \ {f} : F[g] = fetch[g]
  BY NoFetchTyped
<1>2. fetch' = Bumped(F, moved) BY DEF Consumed
<1> HIDE DEF F
<1> QED BY <1>1, <1>2, BumpedFetches, NoFetchTyped DEF Rides

LEMMA SentFetches ==
  ASSUME MaxChanges \in Nat, fetch \in [Fetches -> Fetch], cookie \in Users \cup {Nobody},
         NEW moved \in SUBSET Counters,
         NEW k \in {"hydrate", "login", "logout", "campaign", "mutation", "poll", "live"},
         Send(k, moved)
  PROVE  \E f \in Fetches :
           /\ FreeFetch(f) /\ fetch' \in [Fetches -> Fetch]
           /\ fetch'[f] = Sent(k, cookie)
           /\ \A g \in Fetches \ {f} : Rides(g, moved)
<1> DEFINE F == Bumped(fetch, moved)
<1>1. PICK f \in Fetches : FreeFetch(f) /\ fetch' = [F EXCEPT ![f] = Sent(k, cookie)]
  BY DEF Send
<1>2. F \in [Fetches -> Fetch] BY BumpedFetches
<1>3. Sent(k, cookie) \in Fetch BY SentTyped
<1>4. \A g \in Fetches :
              /\ F[g].kind = fetch[g].kind /\ F[g].at = fetch[g].at
              /\ F[g].current = fetch[g].current \ moved
              /\ F[g].who = fetch[g].who /\ F[g].answer = fetch[g].answer
              /\ F[g].version = fetch[g].version
  BY BumpedFetches
<1> HIDE DEF F
<1>5. \A g \in Fetches \ {f} : Rides(g, moved) BY <1>1, <1>2, <1>4 DEF Rides
<1> QED BY <1>1, <1>2, <1>3, <1>5

(* What a request says of itself stays true while it is under way: a       *)
(* change of what it is compared with moves a counter that it checks.      *)
LEMMA RidingStays ==
  ASSUME NEW g \in Fetches, NEW moved \in SUBSET Counters, Rides(g, moved), FetchInv(g),
         news \in Nat, news' \in Nat, news' >= news, fetch[g].version \in Nat,
         cookie' = cookie \/ "session" \in moved,
         signedIn' = signedIn \/ "desk" \in moved,
         \/ shown' = shown \/ "desk" \in moved \/ "background" \in moved
         \/ ~(Refresh(g) /\ Valid(g))
  PROVE  /\ FetchInv(g)' /\ (Valid(g)' => Valid(g))
         /\ Refresh(g)' = Refresh(g)
<1>1. Valid(g)' => Valid(g) /\ moved \cap Checked(fetch[g].kind) = {}
  BY DEF Rides, Valid, FetchInv
<1>2. (fetch[g].current \subseteq Checked(fetch[g].kind))' BY DEF Rides, FetchInv
<1>3. (fetch[g].version <= news)' BY DEF Rides, FetchInv
<1>4. (fetch[g].at = "answered" /\ Succeeds(g) /\ fetch[g].kind # "logout"
         => fetch[g].who # Nobody)'
  BY DEF Rides, FetchInv, Succeeds
<1>5. (fetch[g].kind = "hydrate" /\ Valid(g) => fetch[g].who = cookie)'
  BY <1>1, CheckedKinds DEF Rides, FetchInv
<1>6. (fetch[g].kind \in Refreshes \cup {"campaign"} /\ Valid(g)
       => fetch[g].who = signedIn)'
  BY <1>1, CheckedKinds DEF Rides, FetchInv, Refreshes
<1>7. (Refresh(g) /\ Valid(g) /\ fetch[g].at = "answered" /\ Succeeds(g)
       => fetch[g].version >= shown.version)'
  BY <1>1, CheckedKinds DEF Rides, FetchInv, Refreshes, Refresh, Succeeds
<1> QED BY <1>1, <1>2, <1>3, <1>4, <1>5, <1>6, <1>7 DEF FetchInv, Refresh, Rides

Emptied(g) == /\ fetch'[g].kind = "none" /\ fetch'[g].at = "free"
              /\ fetch'[g].version = 0 /\ fetch'[g].current = {}

LEMMA EmptiedStays ==
  ASSUME NEW g \in Fetches, Emptied(g), news' \in Nat
  PROVE  FetchInv(g)' /\ ~Refresh(g)'
BY DEF Emptied, FetchInv, Refresh, Refreshes

(* What the page does to its requests when none is sent ...                *)
LEMMA RequestsStay ==
  ASSUME DeskInv, NEW moved \in SUBSET Counters,
         \A g \in Fetches : Emptied(g) \/ Rides(g, moved),
         news' \in Nat, news' >= news,
         cookie' = cookie \/ "session" \in moved,
         signedIn' = signedIn \/ "desk" \in moved,
         \/ shown' = shown \/ "desk" \in moved \/ "background" \in moved
         \/ \A g \in Fetches : Emptied(g) \/ ~(Refresh(g) /\ Valid(g)),
         \/ signedIn' = signedIn \/ signedIn' = Nobody
         \/ \A g \in Fetches : fetch[g].kind # "login"
  PROVE  OneLogin' /\ OneRefresh' /\ \A g \in Fetches : FetchInv(g)'
<1>1. /\ news \in Nat /\ \A g \in Fetches : fetch[g].version \in Nat /\ FetchInv(g)
  <2>1. MaxChanges \in Nat BY DeskAssumption
  <2> QED BY <2>1 DEF DeskInv, DeskTypeOK
<1>2. ASSUME NEW g \in Fetches
      PROVE  /\ FetchInv(g)'
             /\ (Refresh(g) /\ Valid(g))' => Refresh(g) /\ Valid(g)
             /\ fetch'[g].kind = "hydrate" /\ Valid(g)' => fetch[g].kind = "hydrate" /\ Valid(g)
  <2>1. CASE Emptied(g) BY <2>1, EmptiedStays DEF Emptied
  <2>2. CASE Rides(g, moved) /\ ~Emptied(g)
    <3>1. \/ shown' = shown \/ "desk" \in moved \/ "background" \in moved
          \/ ~(Refresh(g) /\ Valid(g))
      BY <2>2
    <3>2. fetch'[g].kind = fetch[g].kind BY <2>2 DEF Rides
    <3> QED BY <2>2, <1>1, <3>1, <3>2, RidingStays
  <2> QED BY <2>1, <2>2
<1>3. OneRefresh' BY <1>2 DEF OneRefresh, DeskInv
<1>4. OneLogin'
  <2>1. \A g \in Fetches : fetch'[g].kind \in {"none", fetch[g].kind} BY DEF Emptied, Rides
  <2>2. \A f \in Fetches : fetch[f].kind = "login" =>
          /\ signedIn = Nobody
          /\ \A g \in Fetches : /\ fetch[g].kind = "hydrate" => ~Valid(g)
                                /\ fetch[g].kind = "login" => g = f
    BY DEF DeskInv, OneLogin
  <2> QED BY <1>2, <2>1, <2>2 DEF OneLogin
<1> QED BY <1>2, <1>3, <1>4

(* ... and when one is.                                                    *)
LEMMA RequestsAndOneMore ==
  ASSUME DeskInv, NEW moved \in SUBSET Counters, NEW f \in Fetches,
         NEW k \in {"hydrate", "login", "logout", "campaign", "mutation", "poll", "live"},
         NEW who \in Users \cup {Nobody}, fetch'[f] = Sent(k, who),
         \A g \in Fetches \ {f} : Rides(g, moved),
         UNCHANGED <<news, signedIn, shown>>,
         cookie' = cookie \/ "session" \in moved,
         k = "hydrate" => who = cookie',
         k \in Refreshes \cup {"campaign"} => who = signedIn,
         k \in Refreshes => "background" \in moved,
         k \in {"hydrate", "login"} => \A g \in Fetches \ {f} : fetch[g].kind # "login",
         k = "login" => /\ signedIn = Nobody
                        /\ \A g \in Fetches \ {f} : fetch[g].kind = "hydrate" => ~Valid(g)
  PROVE  OneLogin' /\ OneRefresh' /\ \A g \in Fetches : FetchInv(g)'
<1>0. MaxChanges \in Nat BY DeskAssumption
<1>1. /\ news \in Nat /\ \A g \in Fetches : fetch[g].version \in Nat /\ FetchInv(g)
  BY <1>0 DEF DeskInv, DeskTypeOK
<1>2. /\ fetch'[f].kind = k /\ fetch'[f].at = "sent" /\ fetch'[f].current = Checked(k)
      /\ fetch'[f].who = who /\ fetch'[f].version = 0
  BY <1>0, SentTyped
<1>3. \A g \in Fetches \ {f} : FetchInv(g)' /\ (Valid(g)' => Valid(g)) /\ Refresh(g)' = Refresh(g)
  BY <1>1, RidingStays
<1>4. FetchInv(f)' BY <1>1, <1>2 DEF FetchInv, Valid, Refresh, Refreshes
<1>5. OneRefresh'
  <2>1. CASE k \in Refreshes
    <3>1. ASSUME NEW g \in Fetches \ {f}, Refresh(g)' PROVE ~Valid(g)'
      <4>1. fetch'[g].kind = fetch[g].kind /\ fetch'[g].current = fetch[g].current \ moved
        BY DEF Rides
      <4>2. "background" \in Checked(fetch'[g].kind) BY <3>1, CheckedKinds DEF Refresh, Refreshes
      <4> QED BY <4>1, <4>2, <2>1 DEF Valid
    <3> QED BY <3>1 DEF OneRefresh
  <2>2. CASE k \notin Refreshes
    <3>1. ~Refresh(f)' BY <1>2, <2>2 DEF Refresh
    <3> QED BY <3>1, <1>3 DEF OneRefresh, DeskInv
  <2> QED BY <2>1, <2>2
<1>6. OneLogin'
  <2>1. \A g \in Fetches \ {f} : fetch'[g].kind = fetch[g].kind BY DEF Rides
  <2>2. \A h \in Fetches : fetch[h].kind = "login" =>
          /\ signedIn = Nobody
          /\ \A g \in Fetches : /\ fetch[g].kind = "hydrate" => ~Valid(g)
                                /\ fetch[g].kind = "login" => g = h
    BY DEF DeskInv, OneLogin
  <2> QED BY <1>2, <1>3, <2>1, <2>2 DEF OneLogin
<1> QED BY <1>3, <1>4, <1>5, <1>6

(* The parts of DeskInv that are not about requests.                       *)
LEMMA DeskInvTogether ==
  ASSUME fetch' \in [Fetches -> Fetch],
         (/\ news \in 0 .. MaxChanges
          /\ cookie \in Users \cup {Nobody}
          /\ listener \in {"acquiring", "up", "waiting"}
          /\ stream \in {"closed", "connecting", "open"}
          /\ hint \in BOOLEAN /\ debounce \in BOOLEAN /\ acting \in BOOLEAN
          /\ signedIn \in Users \cup {Nobody}
          /\ shown \in [user : Users \cup {Nobody}, version : 0 .. MaxChanges]
          /\ faults \in 0 .. MaxTroubles
          /\ signedIn = Nobody => stream = "closed" /\ shown = NoDesk)',
         PageInv', OneLogin', OneRefresh', \A g \in Fetches : FetchInv(g)'
  PROVE  DeskInv'
BY DEF DeskInv, DeskTypeOK, Fetch

LEMMA FetchTyped == DeskInv => fetch \in [Fetches -> Fetch]
BY DEF DeskInv, DeskTypeOK, Fetch

LEMMA DeskStart == DeskInit => DeskInv
<1> SUFFICES ASSUME DeskInit PROVE DeskInv OBVIOUS
<1> USE DEF DeskInit
<1>0. MaxChanges \in Nat /\ MaxTroubles \in Nat BY DeskAssumption
<1>1. PICK f \in Fetches : fetch = [x \in Fetches |->
                             IF x = f THEN Sent("hydrate", cookie) ELSE NoFetch]
  OBVIOUS
<1>2. /\ Sent("hydrate", cookie) \in Fetch /\ fetch[f].kind = "hydrate"
      /\ fetch[f].at = "sent" /\ fetch[f].current = Checked("hydrate")
      /\ fetch[f].who = cookie /\ fetch[f].version = 0
  BY <1>0, <1>1, SentTyped
<1>3. \A g \in Fetches \ {f} : fetch[g] = NoFetch BY <1>1
<1>4. fetch \in [Fetches -> Fetch] BY <1>0, <1>1, <1>2, NoFetchTyped
<1>5. \A g \in Fetches : FetchInv(g)
  <2>1. FetchInv(f) BY <1>2 DEF FetchInv, Refresh, Refreshes
  <2>2. ASSUME NEW g \in Fetches \ {f} PROVE FetchInv(g)
    <3>1. fetch[g].kind = "none" /\ fetch[g].at = "free" /\ fetch[g].current = {}
          /\ fetch[g].version = 0
      BY <1>0, <1>3, NoFetchTyped
    <3> QED BY <3>1 DEF FetchInv, Refresh, Refreshes
  <2> QED BY <2>1, <2>2
<1>6. \A g \in Fetches : fetch[g].kind \in {"hydrate", "none"}
  BY <1>0, <1>2, <1>3, NoFetchTyped
<1>7. OneLogin /\ OneRefresh BY <1>6 DEF OneLogin, OneRefresh, Refresh, Refreshes
<1>8. shown \in [user : Users \cup {Nobody}, version : 0 .. MaxChanges] /\ PageInv
  BY <1>0 DEF NoDesk, PageInv
<1>9. DeskTypeOK
  <2>1. 0 \in 0 .. MaxChanges /\ 0 \in 0 .. MaxTroubles BY <1>0
  <2> QED BY <2>1, <1>4, <1>8 DEF DeskTypeOK, Fetch
<1> QED BY <1>5, <1>7, <1>8, <1>9 DEF DeskInv

LEMMA NothingMoves == ASSUME UNCHANGED fetch PROVE \A g \in Fetches : Rides(g, {})
BY DEF Rides

(* Steps of the feed, which leave the requests as they are.                *)
LEMMA FeedStep ==
  ASSUME DeskInv, \/ DataChanges \/ ListenerStep \/ StreamOpens \/ StreamBreaks
                  \/ HintArrives \/ UNCHANGED deskVars
  PROVE  DeskInv'
<1>0. MaxChanges \in Nat /\ MaxTroubles \in Nat BY DeskAssumption
<1>1. UNCHANGED <<fetch, cookie, signedIn, shown, acting>>
  BY DEF DataChanges, ListenerStep, StreamOpens, StreamBreaks, HintArrives, pageVars, deskVars
<1>2. news' \in 0 .. MaxChanges /\ news' >= news /\ news \in Nat
  BY <1>0 DEF DataChanges, ListenerStep, StreamOpens, StreamBreaks, HintArrives, pageVars,
              deskVars, DeskInv, DeskTypeOK
<1>3. \A g \in Fetches : Rides(g, {}) BY <1>1, NothingMoves
<1>4. OneLogin' /\ OneRefresh' /\ \A g \in Fetches : FetchInv(g)'
  BY <1>0, <1>1, <1>2, <1>3, RequestsStay
<1>5. faults' \in 0 .. MaxTroubles
  BY <1>0 DEF DataChanges, ListenerStep, StreamOpens, StreamBreaks, HintArrives, Fault,
              deskVars, DeskInv, DeskTypeOK
<1>6. /\ listener' \in {"acquiring", "up", "waiting"}
      /\ stream' \in {"closed", "connecting", "open"}
      /\ hint' \in BOOLEAN /\ debounce' \in BOOLEAN
      /\ signedIn = Nobody => stream' = "closed" /\ ~hint' /\ ~debounce'
  <2> USE DEF DeskInv, DeskTypeOK, PageInv
  <2>1. CASE DataChanges BY <2>1 DEF DataChanges, pageVars
  <2>2. CASE ListenerStep BY <2>2 DEF ListenerStep, pageVars
  <2>3. CASE StreamOpens BY <2>3 DEF StreamOpens, pageVars
  <2>4. CASE StreamBreaks BY <2>4 DEF StreamBreaks
  <2>5. CASE HintArrives BY <2>5 DEF HintArrives
  <2>6. CASE UNCHANGED deskVars BY <2>6 DEF deskVars
  <2> QED BY <2>1, <2>2, <2>3, <2>4, <2>5, <2>6
<1>7. PageInv'
  <2>1. shown.version \in Nat BY <1>0 DEF DeskInv, DeskTypeOK
  <2> QED BY <2>1, <1>1, <1>2, <1>6 DEF PageInv, DeskInv
<1>8. fetch' \in [Fetches -> Fetch] BY <1>1, FetchTyped
<1> QED BY <1>1, <1>2, <1>4, <1>5, <1>6, <1>7, <1>8, DeskInvTogether DEF DeskInv, DeskTypeOK, NoDesk

(* What the page sends ...                                                 *)
LEMMA SendStep ==
  ASSUME DeskInv, \/ HandleLogout \/ Rehydrate \/ ChangeCampaign \/ Mutate \/ PollDesk
                  \/ (Debounced \/ Fallback) /\ ~acting
  PROVE  DeskInv'
<1>0. MaxChanges \in Nat /\ MaxTroubles \in Nat BY DeskAssumption
<1>1. /\ UNCHANGED <<news, cookie, listener, stream, hint, signedIn, shown, faults>>
      /\ debounce' \in {debounce, FALSE} /\ acting' \in BOOLEAN /\ signedIn # Nobody
  BY DEF HandleLogout, Rehydrate, ChangeCampaign, Mutate, PollDesk, Debounced, Fallback,
         pageVars, feedVars, DeskInv, DeskTypeOK, PageInv
<1>2. PICK k \in {"hydrate", "logout", "campaign", "mutation", "poll", "live"},
           moved \in SUBSET Counters :
        Send(k, moved) /\ (k \in Refreshes => "background" \in moved)
  BY DEF HandleLogout, Rehydrate, ChangeCampaign, Mutate, PollDesk, Debounced, Fallback,
         LiveRefresh, Counters, Refreshes
<1>3. PICK f \in Fetches : /\ FreeFetch(f) /\ fetch' \in [Fetches -> Fetch]
                           /\ fetch'[f] = Sent(k, cookie)
                           /\ \A g \in Fetches \ {f} : Rides(g, moved)
  BY <1>0, <1>2, FetchTyped, SentFetches DEF DeskInv, DeskTypeOK
<1>4. cookie = signedIn /\ cookie \in Users \cup {Nobody}
  BY <1>1 DEF DeskInv, PageInv, DeskTypeOK
<1>5. \A g \in Fetches : fetch[g].kind # "login" BY <1>1 DEF DeskInv, OneLogin
<1>6. OneLogin' /\ OneRefresh' /\ \A g \in Fetches : FetchInv(g)'
  BY <1>1, <1>2, <1>3, <1>4, <1>5, RequestsAndOneMore
<1>7. PageInv' BY <1>1 DEF PageInv, DeskInv
<1> QED BY <1>1, <1>3, <1>6, <1>7, DeskInvTogether DEF DeskInv, DeskTypeOK, NoDesk

LEMMA LoginSent ==
  ASSUME DeskInv, HandleLogin
  PROVE  DeskInv'
<1>0. MaxChanges \in Nat /\ MaxTroubles \in Nat BY DeskAssumption
<1>1. PICK f \in Fetches, u \in Users :
        fetch' = [Bumped(fetch, {"session"}) EXCEPT ![f] = Sent("login", u)]
  BY DEF HandleLogin
<1>2. {"session"} \in SUBSET Counters BY DEF Counters
<1>3. Bumped(fetch, {"session"}) \in [Fetches -> Fetch] BY <1>2, FetchTyped, BumpedFetches
<1>4. /\ Sent("login", u) \in Fetch
      /\ fetch'[f] = Sent("login", u)
      /\ \A g \in Fetches \ {f} : fetch'[g] = Bumped(fetch, {"session"})[g]
  BY <1>0, <1>1, <1>3, SentTyped
<1>5. fetch' \in [Fetches -> Fetch] BY <1>1, <1>3, <1>4
<1>6. \A g \in Fetches \ {f} : Rides(g, {"session"})
  BY <1>2, <1>4, FetchTyped, BumpedFetches DEF Rides
<1>7. /\ UNCHANGED <<news, cookie, listener, stream, hint, signedIn, shown, faults, debounce, acting>>
      /\ signedIn = Nobody
      /\ \A g \in Fetches : /\ fetch[g].kind # "login"
                            /\ fetch[g].kind = "hydrate" => ~Valid(g)
  BY DEF HandleLogin, pageVars, feedVars
<1>8. OneLogin' /\ OneRefresh' /\ \A g \in Fetches : FetchInv(g)'
  BY <1>2, <1>4, <1>6, <1>7, RequestsAndOneMore DEF Refreshes
<1>9. PageInv' BY <1>7 DEF PageInv, DeskInv
<1> QED BY <1>5, <1>7, <1>8, <1>9, DeskInvTogether DEF DeskInv, DeskTypeOK, NoDesk

(* ... and what only makes its requests stale.                             *)
LEMMA MoveStep ==
  ASSUME DeskInv, ChangeView \/ Debounced \/ Fallback,
         NEW moved \in SUBSET Counters, fetch' = Bumped(fetch, moved)
  PROVE  DeskInv'
<1>0. MaxChanges \in Nat /\ MaxTroubles \in Nat BY DeskAssumption
<1>2. fetch' \in [Fetches -> Fetch] /\ \A g \in Fetches : Rides(g, moved)
  BY FetchTyped, BumpedFetches DEF Rides
<1>3. /\ UNCHANGED <<news, cookie, listener, signedIn, shown, acting, faults>>
      /\ stream' \in {"closed", "connecting", "open"}
      /\ hint' \in BOOLEAN /\ debounce' \in BOOLEAN
      /\ signedIn # Nobody
  BY DEF ChangeView, Debounced, Fallback, Restarted, pageVars, feedVars, DeskInv, DeskTypeOK, PageInv
<1>4. OneLogin' /\ OneRefresh' /\ \A g \in Fetches : FetchInv(g)'
  <2>1. news' \in Nat /\ news' >= news BY <1>0, <1>3 DEF DeskInv, DeskTypeOK
  <2> QED BY <1>2, <1>3, <2>1, RequestsStay
<1>5. PageInv' BY <1>3 DEF PageInv, DeskInv
<1> QED BY <1>2, <1>3, <1>4, <1>5, DeskInvTogether DEF DeskInv, DeskTypeOK, NoDesk

(* The server answers: what it says is as new as anything shown.           *)
LEMMA AnswerStep ==
  ASSUME DeskInv, NEW f \in Fetches, ServerAnswers(f)
  PROVE  DeskInv'
<1>0. MaxChanges \in Nat /\ MaxTroubles \in Nat BY DeskAssumption
<1>1. PICK answer \in {"ok", "refused", "failed"} :
        /\ answer = "failed" => faults < MaxTroubles
        /\ answer = "refused" => fetch[f].kind \notin {"login", "logout"}
                                 /\ (fetch[f].who = Nobody \/ faults < MaxTroubles)
        /\ answer = "ok" /\ fetch[f].kind # "logout" => fetch[f].who # Nobody
        /\ faults' = IF answer = "ok" \/ fetch[f].who = Nobody THEN faults
                                                               ELSE faults + 1
        /\ news' = IF fetch[f].kind = "mutation" /\ answer = "ok" /\ news < MaxChanges
                   THEN news + 1 ELSE news
        /\ fetch' = [fetch EXCEPT ![f].at = "answered", ![f].answer = answer,
                       ![f].version = IF answer = "ok" /\ fetch[f].kind \notin {"login", "logout"}
                                      THEN news' ELSE 0]
  BY DEF ServerAnswers
<1>2. UNCHANGED <<cookie, listener, stream, hint, signedIn, shown, acting, debounce>>
  BY DEF ServerAnswers, feedVars, pageVars
<1>3. news \in Nat /\ news' \in 0 .. MaxChanges /\ news' >= news /\ shown.version \in Nat
  BY <1>0, <1>1 DEF DeskInv, DeskTypeOK
<1>4. faults' \in 0 .. MaxTroubles
  BY <1>0, <1>1 DEF DeskInv, DeskTypeOK
<1>5. PICK v \in 0 .. MaxChanges :
        /\ fetch' = [fetch EXCEPT ![f].at = "answered", ![f].answer = answer, ![f].version = v]
        /\ v <= news'
        /\ answer = "ok" /\ fetch[f].kind \notin {"login", "logout"} => v = news'
  <2>1. PICK v : v = IF answer = "ok" /\ fetch[f].kind \notin {"login", "logout"}
                     THEN news' ELSE 0
    OBVIOUS
  <2>2. v \in 0 .. MaxChanges /\ v <= news' BY <2>1, <1>0, <1>3
  <2> QED BY <2>1, <2>2, <1>1
<1>6. fetch[f] \in Fetch BY FetchTyped
<1>7. /\ fetch' \in [Fetches -> Fetch]
      /\ fetch'[f].kind = fetch[f].kind /\ fetch'[f].at = "answered"
      /\ fetch'[f].current = fetch[f].current /\ fetch'[f].who = fetch[f].who
      /\ fetch'[f].answer = answer /\ fetch'[f].version = v
      /\ \A g \in Fetches \ {f} : fetch'[g] = fetch[g]
  <2>1. PICK r : r = [fetch[f] EXCEPT !.at = "answered", !.answer = answer, !.version = v]
    OBVIOUS
  <2>2. /\ r \in Fetch /\ r.kind = fetch[f].kind /\ r.at = "answered"
        /\ r.current = fetch[f].current /\ r.who = fetch[f].who
        /\ r.answer = answer /\ r.version = v
    BY <2>1, <1>6 DEF Fetch
  <2>3. fetch' = [fetch EXCEPT ![f] = r] BY <1>5, <2>1
  <2> QED BY <2>2, <2>3, FetchTyped
<1>8. \A g \in Fetches \ {f} : Rides(g, {}) BY <1>7 DEF Rides
<1>9. \A g \in Fetches : (Valid(g)' <=> Valid(g)) /\ (Refresh(g)' <=> Refresh(g))
  BY <1>7 DEF Valid, Refresh
<1>10. ASSUME NEW g \in Fetches \ {f} PROVE FetchInv(g)'
  <2>1. FetchInv(g) /\ fetch[g].version \in Nat BY <1>0 DEF DeskInv, DeskTypeOK
  <2> QED BY <2>1, <1>2, <1>3, <1>8, RidingStays
<1>11. FetchInv(f)'
  <2>1. FetchInv(f) BY DEF DeskInv
  <2>2. (fetch[f].current \subseteq Checked(fetch[f].kind))' BY <2>1, <1>7 DEF FetchInv
  <2>3. (fetch[f].at = "answered" /\ Succeeds(f) /\ fetch[f].kind # "logout"
           => fetch[f].who # Nobody)'
    BY <1>1, <1>7 DEF Succeeds
  <2>4. (fetch[f].kind = "hydrate" /\ Valid(f) => fetch[f].who = cookie)'
    BY <2>1, <1>2, <1>7, <1>9 DEF FetchInv
  <2>5. (fetch[f].kind \in Refreshes \cup {"campaign"} /\ Valid(f)
         => fetch[f].who = signedIn)'
    BY <2>1, <1>2, <1>7, <1>9 DEF FetchInv
  <2>6. (Refresh(f) /\ Valid(f) /\ fetch[f].at = "answered" /\ Succeeds(f)
         => fetch[f].version >= shown.version)'
    BY <1>2, <1>3, <1>5, <1>7 DEF Refresh, Refreshes, Succeeds, DeskInv, PageInv
  <2> QED BY <2>2, <2>3, <2>4, <2>5, <2>6, <1>5, <1>7 DEF FetchInv
<1>12. OneRefresh' BY <1>9 DEF OneRefresh, DeskInv
<1>13. OneLogin'
  <2>1. \A g \in Fetches : fetch'[g].kind = fetch[g].kind BY <1>7
  <2>2. \A h \in Fetches : fetch[h].kind = "login" =>
          /\ signedIn = Nobody
          /\ \A g \in Fetches : /\ fetch[g].kind = "hydrate" => ~Valid(g)
                                /\ fetch[g].kind = "login" => g = h
    BY DEF DeskInv, OneLogin
  <2> QED BY <1>2, <1>9, <2>1, <2>2 DEF OneLogin
<1>14. PageInv'
  BY <1>2, <1>3 DEF PageInv, DeskInv
<1> QED BY <1>2, <1>3, <1>4, <1>7, <1>10, <1>11, <1>12, <1>13, <1>14, DeskInvTogether
        DEF DeskInv, DeskTypeOK, NoDesk

(* The page consumes an answer.                                            *)
LEMMA ConsumedStays ==
  ASSUME DeskInv, NEW f \in Fetches, NEW moved \in SUBSET Counters, Consumed(f, moved),
         UNCHANGED news,
         cookie' = cookie \/ "session" \in moved,
         signedIn' = signedIn \/ "desk" \in moved,
         \/ shown' = shown \/ "desk" \in moved \/ "background" \in moved
         \/ Refresh(f) /\ Valid(f),
         \/ signedIn' = signedIn \/ signedIn' = Nobody
         \/ \A g \in Fetches : fetch[g].kind # "login"
  PROVE  /\ fetch' \in [Fetches -> Fetch]
         /\ OneLogin' /\ OneRefresh' /\ \A g \in Fetches : FetchInv(g)'
<1>0. MaxChanges \in Nat BY DeskAssumption
<1>1. /\ fetch' \in [Fetches -> Fetch]
      /\ \A g \in Fetches : Emptied(g) \/ (g # f /\ Rides(g, moved))
  BY <1>0, FetchTyped, ConsumedFetches DEF Emptied
<1>2. \/ shown' = shown \/ "desk" \in moved \/ "background" \in moved
      \/ \A g \in Fetches : Emptied(g) \/ ~(Refresh(g) /\ Valid(g))
  BY <1>1 DEF DeskInv, OneRefresh
<1>3. news' \in Nat /\ news' >= news BY <1>0 DEF DeskInv, DeskTypeOK
<1> QED BY <1>1, <1>2, <1>3, RequestsStay

LEMMA ResetStep ==
  ASSUME DeskInv, NEW f \in Fetches, ResetSession(f), UNCHANGED <<news, listener, faults>>,
         cookie' \in Users \cup {Nobody}
  PROVE  DeskInv'
<1>0. MaxChanges \in Nat BY DeskAssumption
<1>1. /\ signedIn' = Nobody /\ shown' = NoDesk /\ acting' = FALSE
      /\ stream' = "closed" /\ hint' = FALSE /\ debounce' = FALSE
      /\ Consumed(f, Counters)
  BY DEF ResetSession, Restarted
<1>2. /\ fetch' \in [Fetches -> Fetch]
      /\ OneLogin' /\ OneRefresh' /\ \A g \in Fetches : FetchInv(g)'
  <2>1. "session" \in Counters /\ "desk" \in Counters /\ Counters \in SUBSET Counters
    BY DEF Counters
  <2> QED BY <1>1, <2>1, ConsumedStays
<1>3. /\ NoDesk \in [user : Users \cup {Nobody}, version : 0 .. MaxChanges]
      /\ NoDesk.user = Nobody /\ NoDesk.version = 0
  BY <1>0 DEF NoDesk
<1>4. news \in Nat BY <1>0 DEF DeskInv, DeskTypeOK
<1>5. PageInv' BY <1>1, <1>3, <1>4 DEF PageInv
<1> QED BY <1>1, <1>2, <1>3, <1>5, DeskInvTogether DEF DeskInv, DeskTypeOK, NoDesk

LEMMA DropStep ==
  ASSUME DeskInv, NEW f \in Fetches, Drop(f), UNCHANGED <<news, faults>>
  PROVE  DeskInv'
<1>1. /\ UNCHANGED <<cookie, listener, stream, hint, signedIn, shown, acting, debounce>>
      /\ Consumed(f, {})
  BY DEF Drop, feedVars, pageVars
<1>2. /\ fetch' \in [Fetches -> Fetch]
      /\ OneLogin' /\ OneRefresh' /\ \A g \in Fetches : FetchInv(g)'
  BY <1>1, ConsumedStays
<1>3. PageInv' BY <1>1 DEF PageInv, DeskInv
<1> QED BY <1>1, <1>2, <1>3, DeskInvTogether DEF DeskInv, DeskTypeOK, NoDesk

LEMMA DeskTyped ==
  ASSUME DeskInv, NEW f \in Fetches
  PROVE  /\ Desk(f) \in [user : Users \cup {Nobody}, version : 0 .. MaxChanges]
         /\ Desk(f).user = fetch[f].who /\ Desk(f).version = fetch[f].version
         /\ fetch[f].version <= news
<1>1. fetch[f] \in Fetch BY FetchTyped
<1> QED BY <1>1 DEF Desk, Fetch, DeskInv, FetchInv

LEMMA HydratedStep ==
  ASSUME DeskInv, NEW f \in Fetches, Hydrated(f)
  PROVE  DeskInv'
<1>1. UNCHANGED <<news, faults>> /\ Arrived(f, "hydrate") BY DEF Hydrated
<1>2. CASE ~Valid(f) /\ Drop(f) BY <1>1, <1>2, DropStep
<1>3. CASE /\ Valid(f) /\ Succeeds(f)
           /\ Consumed(f, {"desk", "background"})
           /\ signedIn' = fetch[f].who /\ shown' = Desk(f)
           /\ IF signedIn' = signedIn THEN UNCHANGED <<stream, hint, debounce>>
                                      ELSE Restarted(signedIn')
           /\ UNCHANGED <<cookie, listener, acting>>
  <2>1. fetch[f].who = cookie /\ fetch[f].who # Nobody /\ fetch[f].kind = "hydrate"
    BY <1>1, <1>3 DEF DeskInv, FetchInv, Arrived
  <2>2. \A g \in Fetches : fetch[g].kind # "login" BY <1>3, <2>1 DEF DeskInv, OneLogin
  <2>3. {"desk", "background"} \in SUBSET Counters BY DEF Counters
  <2>4. /\ fetch' \in [Fetches -> Fetch]
        /\ OneLogin' /\ OneRefresh' /\ \A g \in Fetches : FetchInv(g)'
    BY <1>1, <1>3, <2>2, <2>3, ConsumedStays
  <2>5. PageInv' BY <1>1, <1>3, <2>1, DeskTyped DEF PageInv
  <2>6. /\ stream' \in {"closed", "connecting", "open"}
        /\ hint' \in BOOLEAN /\ debounce' \in BOOLEAN
    BY <1>3 DEF Restarted, DeskInv, DeskTypeOK
  <2> QED BY <1>1, <1>3, <2>1, <2>4, <2>5, <2>6, DeskTyped, DeskInvTogether
          DEF DeskInv, DeskTypeOK
<1>4. CASE Valid(f) /\ ~Succeeds(f) /\ ResetSession(f) /\ UNCHANGED <<cookie, listener>>
  BY <1>1, <1>4, ResetStep DEF DeskInv, DeskTypeOK
<1> QED BY <1>2, <1>3, <1>4 DEF Hydrated

LEMMA LoggedInStep ==
  ASSUME DeskInv, NEW f \in Fetches, LoggedIn(f)
  PROVE  DeskInv'
<1>0. MaxChanges \in Nat BY DeskAssumption
<1>1. /\ UNCHANGED <<news, listener, stream, hint, signedIn, shown, acting, debounce, faults>>
      /\ fetch[f].kind = "login" /\ fetch[f].at = "answered"
  BY DEF LoggedIn, feedVars, pageVars, Arrived
<1>2. /\ signedIn = Nobody
      /\ \A g \in Fetches \ {f} : fetch[g].kind # "login"
  BY <1>1 DEF DeskInv, OneLogin
<1>3. CASE ~Succeeds(f)
  <2>1. Consumed(f, {}) /\ UNCHANGED cookie BY <1>3 DEF LoggedIn
  <2>2. /\ fetch' \in [Fetches -> Fetch]
        /\ OneLogin' /\ OneRefresh' /\ \A g \in Fetches : FetchInv(g)'
    BY <1>1, <2>1, ConsumedStays
  <2>3. PageInv' BY <1>1, <2>1 DEF PageInv, DeskInv
  <2> QED BY <1>1, <2>1, <2>2, <2>3, DeskInvTogether DEF DeskInv, DeskTypeOK, NoDesk
<1>4. CASE Succeeds(f)
  <2>1. /\ cookie' = fetch[f].who
        /\ fetch' = [Bumped(fetch, {"session"}) EXCEPT ![f] = Sent("hydrate", fetch[f].who)]
    BY <1>4 DEF LoggedIn
  <2>2. fetch[f] \in Fetch BY FetchTyped
  <2>3. fetch[f].who \in Users \cup {Nobody} BY <2>2 DEF Fetch
  <2>4. {"session"} \in SUBSET Counters BY DEF Counters
  <2>5. Bumped(fetch, {"session"}) \in [Fetches -> Fetch] BY <2>4, FetchTyped, BumpedFetches
  <2>6. /\ Sent("hydrate", fetch[f].who) \in Fetch
        /\ fetch'[f] = Sent("hydrate", fetch[f].who)
        /\ \A g \in Fetches \ {f} : fetch'[g] = Bumped(fetch, {"session"})[g]
    BY <1>0, <2>1, <2>3, <2>5, SentTyped
  <2>7. fetch' \in [Fetches -> Fetch] BY <2>1, <2>5, <2>6
  <2>8. \A g \in Fetches \ {f} : Rides(g, {"session"})
    BY <2>4, <2>6, FetchTyped, BumpedFetches DEF Rides
  <2>9. OneLogin' /\ OneRefresh' /\ \A g \in Fetches : FetchInv(g)'
    BY <1>1, <1>2, <2>1, <2>3, <2>4, <2>6, <2>8, RequestsAndOneMore DEF Refreshes
  <2>10. PageInv' BY <1>1, <1>2 DEF PageInv, DeskInv
  <2> QED BY <1>1, <2>1, <2>3, <2>7, <2>9, <2>10, DeskInvTogether DEF DeskInv, DeskTypeOK, NoDesk
<1> QED BY <1>3, <1>4

LEMMA LoggedOutStep ==
  ASSUME DeskInv, NEW f \in Fetches, LoggedOut(f)
  PROVE  DeskInv'
<1>1. UNCHANGED <<news, listener, faults>> /\ ResetSession(f) BY DEF LoggedOut
<1>2. cookie' \in Users \cup {Nobody} BY DEF LoggedOut, DeskInv, DeskTypeOK
<1> QED BY <1>1, <1>2, ResetStep

LEMMA CampaignChangedStep ==
  ASSUME DeskInv, NEW f \in Fetches, CampaignChanged(f)
  PROVE  DeskInv'
<1>1. UNCHANGED <<news, faults>> /\ Arrived(f, "campaign") BY DEF CampaignChanged
<1>2. CASE ~Valid(f) /\ Drop(f) BY <1>1, <1>2, DropStep
<1>3. CASE /\ Valid(f) /\ Succeeds(f)
           /\ shown' = Desk(f) /\ acting' = FALSE
           /\ Consumed(f, {"live", "background"})
           /\ Restarted(signedIn)
           /\ UNCHANGED <<cookie, listener, signedIn>>
  <2>1. fetch[f].who = signedIn /\ fetch[f].who # Nobody
    BY <1>1, <1>3 DEF DeskInv, FetchInv, Arrived
  <2>2. {"live", "background"} \in SUBSET Counters BY DEF Counters
  <2>3. /\ fetch' \in [Fetches -> Fetch]
        /\ OneLogin' /\ OneRefresh' /\ \A g \in Fetches : FetchInv(g)'
    BY <1>1, <1>3, <2>2, ConsumedStays
  <2>4. PageInv' BY <1>1, <1>3, <2>1, DeskTyped DEF PageInv, DeskInv
  <2>5. /\ stream' \in {"closed", "connecting", "open"}
        /\ hint' \in BOOLEAN /\ debounce' \in BOOLEAN
    BY <1>3 DEF Restarted
  <2> QED BY <1>1, <1>3, <2>1, <2>3, <2>4, <2>5, DeskTyped, DeskInvTogether
          DEF DeskInv, DeskTypeOK
<1>4. CASE /\ acting' = FALSE
           /\ Consumed(f, {})
           /\ UNCHANGED <<cookie, feedVars, signedIn, shown, debounce>>
  <2>1. /\ fetch' \in [Fetches -> Fetch]
        /\ OneLogin' /\ OneRefresh' /\ \A g \in Fetches : FetchInv(g)'
    BY <1>1, <1>4, ConsumedStays
  <2>2. UNCHANGED <<listener, stream, hint>> BY <1>4 DEF feedVars
  <2>3. PageInv' BY <1>1, <1>4, <2>2 DEF PageInv, DeskInv
  <2> QED BY <1>1, <1>4, <2>1, <2>2, <2>3, DeskInvTogether DEF DeskInv, DeskTypeOK, NoDesk
<1> QED BY <1>2, <1>3, <1>4 DEF CampaignChanged

LEMMA MutatedStep ==
  ASSUME DeskInv, NEW f \in Fetches, Mutated(f)
  PROVE  DeskInv'
<1>1. UNCHANGED <<news, faults>> /\ Arrived(f, "mutation") BY DEF Mutated
<1>2. CASE Drop(f) BY <1>1, <1>2, DropStep
<1>3. CASE ~Drop(f)
  <2>1. /\ Succeeds(f) /\ signedIn = fetch[f].who
        /\ shown' = Desk(f)
        /\ Consumed(f, {"desk"})
        /\ UNCHANGED <<cookie, feedVars, signedIn, acting, debounce>>
    BY <1>3 DEF Mutated
  <2>2. fetch[f].who # Nobody BY <1>1, <2>1 DEF DeskInv, FetchInv, Arrived
  <2>3. {"desk"} \in SUBSET Counters BY DEF Counters
  <2>4. /\ fetch' \in [Fetches -> Fetch]
        /\ OneLogin' /\ OneRefresh' /\ \A g \in Fetches : FetchInv(g)'
    BY <1>1, <2>1, <2>3, ConsumedStays
  <2>5. UNCHANGED <<listener, stream, hint>> BY <2>1 DEF feedVars
  <2>6. PageInv' BY <1>1, <2>1, <2>2, <2>5, DeskTyped DEF PageInv, DeskInv
  <2> QED BY <1>1, <2>1, <2>2, <2>4, <2>5, <2>6, DeskTyped, DeskInvTogether
          DEF DeskInv, DeskTypeOK
<1> QED BY <1>2, <1>3

LEMMA RefreshedStep ==
  ASSUME DeskInv, NEW f \in Fetches, Refreshed(f)
  PROVE  DeskInv'
<1>1. UNCHANGED <<news, faults>> /\ (Arrived(f, "poll") \/ Arrived(f, "live"))
  BY DEF Refreshed
<1>2. CASE Drop(f) BY <1>1, <1>2, DropStep
<1>3. CASE ResetSession(f) /\ UNCHANGED <<cookie, listener>>
  BY <1>1, <1>3, ResetStep DEF DeskInv, DeskTypeOK
<1>4. CASE /\ Succeeds(f) /\ Valid(f)
           /\ shown' = Desk(f)
           /\ Consumed(f, {})
           /\ UNCHANGED <<cookie, feedVars, signedIn, acting, debounce>>
  <2>1. Refresh(f) /\ fetch[f].kind \in Refreshes /\ fetch[f].kind # "logout"
    BY <1>1 DEF Refresh, Refreshes, Arrived
  <2>2. fetch[f].who = signedIn /\ fetch[f].who # Nobody
    BY <1>1, <1>4, <2>1 DEF DeskInv, FetchInv, Arrived
  <2>3. /\ fetch' \in [Fetches -> Fetch]
        /\ OneLogin' /\ OneRefresh' /\ \A g \in Fetches : FetchInv(g)'
    BY <1>1, <1>4, <2>1, ConsumedStays
  <2>4. UNCHANGED <<listener, stream, hint>> BY <1>4 DEF feedVars
  <2>5. PageInv' BY <1>1, <1>4, <2>2, <2>4, DeskTyped DEF PageInv, DeskInv
  <2> QED BY <1>1, <1>4, <2>2, <2>3, <2>4, <2>5, DeskTyped, DeskInvTogether
          DEF DeskInv, DeskTypeOK
<1> QED BY <1>2, <1>3, <1>4 DEF Refreshed

LEMMA DeskStep == DeskInv /\ [DeskNext]_deskVars => DeskInv'
<1> SUFFICES ASSUME DeskInv, [DeskNext]_deskVars PROVE DeskInv' OBVIOUS
<1>1. CASE \E f \in Fetches : ServerAnswers(f) \/ ResponseArrives(f)
  <2> PICK f \in Fetches : ServerAnswers(f) \/ ResponseArrives(f) BY <1>1
  <2> QED BY AnswerStep, HydratedStep, LoggedInStep, LoggedOutStep, CampaignChangedStep,
             MutatedStep, RefreshedStep DEF ResponseArrives
<1>2. CASE \/ DataChanges \/ ListenerStep \/ StreamOpens \/ StreamBreaks \/ HintArrives
           \/ UNCHANGED deskVars
  BY <1>2, FeedStep
<1>3. CASE \/ HandleLogout \/ Rehydrate \/ ChangeCampaign \/ Mutate \/ PollDesk
           \/ Debounced \/ Fallback \/ ChangeView
  <2>1. CASE HandleLogout \/ Rehydrate \/ ChangeCampaign \/ Mutate \/ PollDesk
    BY <2>1, SendStep
  <2>2. CASE ChangeView
    <3>1. {"live", "background"} \in SUBSET Counters BY DEF Counters
    <3> QED BY <2>2, <3>1, MoveStep DEF ChangeView
  <2>3. CASE Debounced \/ Fallback
    <3>1. {"live"} \in SUBSET Counters BY DEF Counters
    <3>2. CASE acting
      <4>1. fetch' = Bumped(fetch, {"live"}) BY <2>3, <3>2 DEF Debounced, Fallback, LiveRefresh
      <4> QED BY <2>3, <3>1, <4>1, MoveStep
    <3>3. CASE ~acting BY <2>3, <3>3, SendStep
    <3> QED BY <3>2, <3>3
  <2> QED BY <1>3, <2>1, <2>2, <2>3
<1>4. CASE HandleLogin BY <1>4, LoginSent
<1> QED BY <1>1, <1>2, <1>3, <1>4 DEF DeskNext

(* A refresh is over only when its answer is consumed: what it shows then, *)
(* if anything, is at least as new.                                        *)
LEMMA ConsumedOthers ==
  ASSUME DeskInv, NEW f \in Fetches, NEW g \in Fetches, fetch'[f].at = "free",
         fetch[f].at = "answered", ServerAnswers(g) \/ ResponseArrives(g)
  PROVE  f = g
<1> SUFFICES ASSUME f # g PROVE FALSE OBVIOUS
<1>0. MaxChanges \in Nat BY DeskAssumption
<1>1. CASE ServerAnswers(g)
  <2>1. fetch'[f] = fetch[f] BY <1>1, FetchTyped DEF ServerAnswers
  <2> QED BY <2>1
<1>2. ASSUME NEW moved \in SUBSET Counters, Consumed(g, moved) PROVE FALSE
  BY <1>0, <1>2, FetchTyped, ConsumedFetches DEF Rides
<1>3. CASE LoggedIn(g) /\ Succeeds(g)
  <2>1. {"session"} \in SUBSET Counters BY DEF Counters
  <2>2. /\ Bumped(fetch, {"session"}) \in [Fetches -> Fetch]
        /\ Bumped(fetch, {"session"})[f].at = fetch[f].at
    BY <2>1, FetchTyped, BumpedFetches
  <2>3. fetch'[f] = Bumped(fetch, {"session"})[f] BY <1>3, <2>2 DEF LoggedIn
  <2> QED BY <2>2, <2>3
<1>4. {} \in SUBSET Counters /\ Counters \in SUBSET Counters
      /\ {"desk", "background"} \in SUBSET Counters /\ {"desk"} \in SUBSET Counters
      /\ {"live", "background"} \in SUBSET Counters
  BY DEF Counters
<1>5. CASE ResponseArrives(g) /\ ~(LoggedIn(g) /\ Succeeds(g))
  <2>1. \E moved \in SUBSET Counters : Consumed(g, moved)
    BY <1>4, <1>5 DEF ResponseArrives, Hydrated, LoggedIn, LoggedOut, CampaignChanged, Mutated,
              Refreshed, ResetSession, Drop
  <2> QED BY <2>1, <1>2
<1> QED BY <1>1, <1>3, <1>5

LEMMA SendingKeeps ==
  ASSUME DeskInv, NEW f \in Fetches, fetch'[f].at = "free", fetch[f].at = "answered",
         DeskNext
  PROVE  ResponseArrives(f)
<1>0. MaxChanges \in Nat BY DeskAssumption
<1>1. CASE \E g \in Fetches : ServerAnswers(g) \/ ResponseArrives(g)
  <2>1. PICK g \in Fetches : ServerAnswers(g) \/ ResponseArrives(g) BY <1>1
  <2>2. f = g BY <2>1, ConsumedOthers
  <2>3. ~ServerAnswers(f) BY DEF ServerAnswers
  <2> QED BY <2>1, <2>2, <2>3
<1>2. CASE UNCHANGED fetch BY <1>2
<1>3. ASSUME NEW moved \in SUBSET Counters, fetch' = Bumped(fetch, moved) PROVE FALSE
  BY <1>3, FetchTyped, BumpedFetches
<1>4. ASSUME NEW k \in {"hydrate", "logout", "campaign", "mutation", "poll", "live"},
             NEW moved \in SUBSET Counters, Send(k, moved) PROVE FALSE
  <2>1. PICK g \in Fetches : /\ FreeFetch(g) /\ fetch'[g] = Sent(k, cookie)
                             /\ \A h \in Fetches \ {g} : Rides(h, moved)
    BY <1>0, <1>4, FetchTyped, SentFetches DEF DeskInv, DeskTypeOK
  <2>2. f # g BY <2>1 DEF FreeFetch
  <2> QED BY <2>1, <2>2 DEF Rides
<1>5. CASE HandleLogin
  <2>1. PICK g \in Fetches, u \in Users :
          FreeFetch(g) /\ fetch' = [Bumped(fetch, {"session"}) EXCEPT ![g] = Sent("login", u)]
    BY <1>5 DEF HandleLogin
  <2>2. {"session"} \in SUBSET Counters BY DEF Counters
  <2>3. /\ Bumped(fetch, {"session"}) \in [Fetches -> Fetch]
        /\ Bumped(fetch, {"session"})[f].at = fetch[f].at
    BY <2>2, FetchTyped, BumpedFetches
  <2>4. f # g BY <2>1 DEF FreeFetch
  <2> QED BY <2>1, <2>3, <2>4
<1>6. CASE \/ HandleLogout \/ Rehydrate \/ ChangeCampaign \/ Mutate \/ PollDesk
           \/ Debounced \/ Fallback \/ ChangeView
  <2>1. \/ \E moved \in SUBSET Counters : fetch' = Bumped(fetch, moved)
        \/ \E k \in {"hydrate", "logout", "campaign", "mutation", "poll", "live"},
              moved \in SUBSET Counters : Send(k, moved)
    BY <1>6 DEF HandleLogout, Rehydrate, ChangeCampaign, Mutate, PollDesk, Debounced, Fallback,
           ChangeView, LiveRefresh, Counters
  <2> QED BY <2>1, <1>3, <1>4
<1>7. CASE DataChanges \/ ListenerStep \/ StreamOpens \/ StreamBreaks \/ HintArrives
  BY <1>2, <1>7 DEF DataChanges, ListenerStep, StreamOpens, StreamBreaks, HintArrives
<1> QED BY <1>1, <1>5, <1>6, <1>7 DEF DeskNext

\* What RefreshNeverGoesBack says of a step.
NotBack == \A f \in Fetches :
             (Arrived(f, "poll") \/ Arrived(f, "live")) /\ fetch'[f].at = "free"
               /\ signedIn' = signedIn
             => shown'.version >= shown.version

LEMMA RefreshesGoForth == DeskInv /\ [DeskNext]_deskVars => NotBack
<1> SUFFICES ASSUME DeskInv, [DeskNext]_deskVars, NEW f \in Fetches,
                    Arrived(f, "poll") \/ Arrived(f, "live"),
                    fetch'[f].at = "free", signedIn' = signedIn
             PROVE  shown'.version >= shown.version
  BY DEF NotBack
<1>0. MaxChanges \in Nat BY DeskAssumption
<1>1. shown.version \in Nat BY <1>0 DEF DeskInv, DeskTypeOK
<1>2. CASE UNCHANGED shown BY <1>1, <1>2
<1>3. fetch[f].at = "answered" /\ fetch[f].kind \in Refreshes BY DEF Arrived, Refreshes
<1>4. CASE UNCHANGED deskVars BY <1>4, <1>2 DEF deskVars
<1>5. CASE DeskNext
  <2>1. ResponseArrives(f) BY <1>3, <1>5, SendingKeeps
  <2>2. Refreshed(f)
    BY <1>3, <2>1 DEF ResponseArrives, Hydrated, LoggedIn, LoggedOut, CampaignChanged, Mutated,
                      Arrived, Refreshes
  <2>3. CASE Drop(f) BY <1>2, <2>3 DEF Drop, pageVars
  <2>4. CASE ResetSession(f)
    <3>1. shown' = NoDesk /\ signedIn = Nobody BY <2>4 DEF ResetSession
    <3>2. shown = NoDesk BY <3>1 DEF DeskInv, DeskTypeOK
    <3> QED BY <3>1, <3>2, <1>2
  <2>5. CASE Succeeds(f) /\ Valid(f) /\ shown' = Desk(f)
    <3>1. fetch[f].version >= shown.version
      BY <1>3, <2>5 DEF DeskInv, FetchInv, Refresh
    <3> QED BY <2>5, <3>1, DeskTyped
  <2> QED BY <2>2, <2>3, <2>4, <2>5 DEF Refreshed
<1> QED BY <1>4, <1>5

(* The types of the desk.                                                  *)
THEOREM DeskTypeCorrect == DeskSpec => []DeskTypeOK
<1>1. DeskInv => DeskTypeOK BY DEF DeskInv
<1> QED BY <1>1, DeskStart, DeskStep, PTL DEF DeskSpec

(* The page shows the desk of who is signed in, and no refresh takes it    *)
(* back, however its requests and their answers overtake each other.       *)
THEOREM DeskStaysSound == DeskSpec => DeskIsSound
<1>1. DeskInv => DeskIsOwn BY DEF DeskInv, PageInv, DeskIsOwn
<1>2. DeskInv /\ [DeskNext]_deskVars => [NotBack]_deskVars BY RefreshesGoForth
<1>3. DeskSpec => [][NotBack]_deskVars BY <1>2, DeskStart, DeskStep, PTL DEF DeskSpec
<1>4. DeskSpec => RefreshNeverGoesBack BY <1>3 DEF RefreshNeverGoesBack, NotBack
<1> QED BY <1>1, <1>4, DeskStart, DeskStep, PTL DEF DeskSpec, DeskIsSound

-----------------------------------------------------------------------------
(* The desk and the accounts, which share no state.                        *)

LEMMA FollowUpRuns == FollowUpSpec => DeskSpec /\ AccountsSpec
<1>1. FollowUpInit => DeskInit /\ AccountsInit BY DEF FollowUpInit
<1>2. [FollowUpNext]_followUpVars => [DeskNext]_deskVars /\ [AccountsNext]_accountsVars
  BY DEF FollowUpNext, DeskRuns, AccountsRun, followUpVars
<1> QED BY <1>1, <1>2, PTL DEF FollowUpSpec, DeskSpec, AccountsSpec

(* The types of both.                                                      *)
THEOREM FollowUpTypeCorrect == FollowUpSpec => []FollowUpTypeOK
BY FollowUpRuns, DeskTypeCorrect, AccountsTypeCorrect, PTL DEF FollowUpTypeOK

(* The page shows the desk of who is signed in, and no refresh takes it    *)
(* back, in the specification that is model-checked.                       *)
THEOREM FollowUpKeepsDeskSound == FollowUpSpec => DeskIsSound
BY FollowUpRuns, DeskStaysSound, PTL
==============================================================================
