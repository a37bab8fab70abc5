------------------------------ MODULE LiveDesk ------------------------------
(***************************************************************************)
(* What one browser shows of the agent desk: the page's session and desk   *)
(* requests (apps/web/src/App.tsx, api.ts, features/agent-desk) and the    *)
(* hints that a change of the database sends to it (live-events.ts).       *)
(*                                                                         *)
(* The content of a desk is the number of the change it reflects.  The     *)
(* page drops answers by comparing counters it had when it asked; a fetch  *)
(* carries the names of the counters that have not moved since.            *)
(***************************************************************************)
EXTENDS Naturals

CONSTANTS Users, Nobody,
          Fetches,       \* requests of the page under way at a time
          MaxChanges,    \* bound on changes of the desk in the database
          MaxTroubles      \* bound on failed requests and lost connections

ASSUME DeskAssumption ==
  /\ Nobody \notin Users
  /\ MaxChanges \in Nat /\ MaxTroubles \in Nat

VARIABLES news,      \* how many changes have been committed
          cookie,    \* whose session cookie the browser has
          listener,  \* the API's LISTEN connection: up, acquiring, waiting
          stream,    \* the page's EventSource: closed, connecting, open
          hint,      \* an event is on its way to the page
          signedIn,  \* the page's user
          shown,     \* the desk it shows: whose, and how new
          acting,    \* deskActionPendingRef
          debounce,  \* a refresh is about to start
          fetch,     \* the page's requests
          faults

deskVars == <<news, cookie, listener, stream, hint, signedIn, shown, acting,
              debounce, fetch, faults>>
pageVars == <<signedIn, shown, acting, debounce>>
feedVars == <<listener, stream, hint>>

Counters == {"session", "desk", "background", "live"}
NoFetch == [kind |-> "none", at |-> "free", current |-> {}, who |-> Nobody,
            answer |-> "none", version |-> 0]
NoDesk == [user |-> Nobody, version |-> 0]

\* Faulty: a refresh does not know of the actions of the user.
CheckedInBackground(kind) == CASE kind = "hydrate"  -> {"session"}
                               [] kind = "campaign" -> {"desk"}
                               [] kind = "poll"     -> {"background"}
                               [] kind = "live"     -> {"background", "live"}
                               [] OTHER             -> {}

\* The counters a request of a kind was made under, and is checked against.
Checked(kind) == CASE kind = "hydrate"  -> {"session"}
                   [] kind = "campaign" -> {"desk"}
                   [] kind = "poll"     -> {"desk", "background"}
                   [] kind = "live"     -> {"desk", "background", "live"}
                   [] OTHER             -> {}

Sent(kind, who) == [kind |-> kind, at |-> "sent", current |-> Checked(kind),
                    who |-> who, answer |-> "none", version |-> 0]

\* The counters in moved are incremented.
Bumped(fetches, moved) ==
  [f \in Fetches |-> [fetches[f] EXCEPT !.current = @ \ moved]]

FreeFetch(f) == fetch[f].at = "free"
Valid(f) == fetch[f].current = Checked(fetch[f].kind)
Arrived(f, kind) == fetch[f].at = "answered" /\ fetch[f].kind = kind
Succeeds(f) == fetch[f].answer = "ok"
Fault == faults < MaxTroubles /\ faults' = faults + 1
Desk(f) == [user |-> fetch[f].who, version |-> fetch[f].version]

\* f is consumed and the counters in moved are incremented.
Consumed(f, moved) == fetch' = Bumped([fetch EXCEPT ![f] = NoFetch], moved)

DeskInit ==
  /\ news = 0
  /\ cookie \in Users \cup {Nobody}
  /\ listener = "acquiring" /\ stream = "closed" /\ hint = FALSE
  /\ signedIn = Nobody /\ shown = NoDesk /\ acting = FALSE /\ debounce = FALSE
  /\ \E f \in Fetches : fetch = [x \in Fetches |->
                          IF x = f THEN Sent("hydrate", cookie) ELSE NoFetch]
  /\ faults = 0

-----------------------------------------------------------------------------
(* The feed: live-events.ts.                                               *)

\* A commit whose trigger notifies; the hint reaches a page whose stream is
\* open if the API is listening.
DataChanges ==
  /\ news < MaxChanges
  /\ news' = news + 1
  /\ hint' = (hint \/ (listener = "up" /\ stream = "open"))
  /\ UNCHANGED <<cookie, listener, stream, pageVars, fetch, faults>>

\* connect: a client of the pool listens, or cannot; then, and when its
\* connection breaks, the timer is set.
ListenerStep ==
  /\ \/ listener = "acquiring" /\ listener' = "up" /\ UNCHANGED faults
     \/ listener \in {"acquiring", "up"} /\ listener' = "waiting" /\ Fault
     \/ listener = "waiting" /\ listener' = "acquiring" /\ UNCHANGED faults
  /\ UNCHANGED <<news, cookie, stream, hint, pageVars, fetch>>

\* The route accepts a user's stream and sends nothing but "ready".
StreamOpens ==
  /\ stream = "connecting" /\ cookie # Nobody
  /\ stream' = "open"
  /\ UNCHANGED <<news, cookie, listener, hint, pageVars, fetch, faults>>

\* The stream breaks: the page schedules a refresh, the EventSource retries.
StreamBreaks ==
  /\ stream # "closed"
  /\ Fault
  /\ stream' = "connecting" /\ hint' = FALSE
  /\ debounce' = TRUE
  /\ UNCHANGED <<news, cookie, listener, signedIn, shown, acting, fetch>>

HintArrives ==
  /\ hint
  /\ hint' = FALSE /\ debounce' = TRUE
  /\ UNCHANGED <<news, cookie, listener, stream, signedIn, shown, acting,
                 fetch, faults>>

-----------------------------------------------------------------------------
(* The server answers, the page's effects and the user act.                *)

ServerAnswers(f) ==
  LET kind == fetch[f].kind IN
  /\ fetch[f].at = "sent"
  /\ \E answer \in {"ok", "refused", "failed"} :
       /\ answer = "failed" => faults < MaxTroubles
       /\ answer = "refused" => kind \notin {"login", "logout"}
                                /\ (fetch[f].who = Nobody \/ faults < MaxTroubles)
       /\ answer = "ok" /\ kind # "logout" => fetch[f].who # Nobody
       /\ faults' = IF answer = "ok" \/ fetch[f].who = Nobody THEN faults
                                                              ELSE faults + 1
       /\ news' = IF kind = "mutation" /\ answer = "ok" /\ news < MaxChanges
                  THEN news + 1 ELSE news
       /\ fetch' = [fetch EXCEPT ![f].at = "answered", ![f].answer = answer,
                      ![f].version = IF answer = "ok" /\ kind \notin {"login", "logout"}
                                     THEN news' ELSE 0]
  /\ UNCHANGED <<cookie, feedVars, pageVars>>

\* The effect that holds the stream, the timers and the debounce runs anew
\* (another user, view or campaign): nothing is refreshed by that itself.
Restarted(user) ==
  /\ stream' = IF user = Nobody THEN "closed" ELSE "connecting"
  /\ hint' = FALSE
  /\ debounce' = FALSE

\* Faulty: the stream and the timers go on.
ResetPageOnly(f) ==
  /\ Consumed(f, Counters)
  /\ signedIn' = Nobody /\ shown' = NoDesk /\ acting' = FALSE
  /\ UNCHANGED <<stream, hint, debounce>>

\* resetSession.
ResetSession(f) ==
  /\ Consumed(f, Counters)
  /\ signedIn' = Nobody /\ shown' = NoDesk /\ acting' = FALSE
  /\ Restarted(Nobody)

Send(kind, moved) ==
  \E f \in Fetches :
    /\ FreeFetch(f)
    /\ fetch' = [Bumped(fetch, moved) EXCEPT ![f] = Sent(kind, cookie)]

\* handleLogin; handleLogout; hydrateSession after a change in the admin UI.
\* The login form waits for its own login and the hydration after it, and is
\* not there before the first one has returned; a hydration that a logout or
\* an expired session has superseded may still be under way.
HandleLogin ==
  /\ signedIn = Nobody
  /\ \A f \in Fetches : /\ fetch[f].kind # "login"
                        /\ fetch[f].kind = "hydrate" => ~Valid(f)
  /\ \E f \in Fetches, u \in Users :
       /\ FreeFetch(f)
       /\ fetch' = [Bumped(fetch, {"session"}) EXCEPT ![f] = Sent("login", u)]
  /\ UNCHANGED <<news, cookie, feedVars, pageVars, faults>>

HandleLogout ==
  /\ signedIn # Nobody /\ \A f \in Fetches : fetch[f].kind # "logout"
  /\ Send("logout", {"session"})
  /\ UNCHANGED <<news, cookie, feedVars, pageVars, faults>>

Rehydrate ==
  /\ signedIn # Nobody
  /\ Send("hydrate", {"session"})
  /\ UNCHANGED <<news, cookie, feedVars, pageVars, faults>>

\* handleCampaignChange; the selector is disabled until it has returned.
ChangeCampaign ==
  /\ signedIn # Nobody /\ \A f \in Fetches : fetch[f].kind # "campaign"
  /\ Send("campaign", {"desk", "background"})
  /\ acting' = TRUE
  /\ UNCHANGED <<news, cookie, feedVars, signedIn, shown, debounce, faults>>

\* runCallStart, runCallControl and toggleAvailability.
Mutate ==
  /\ signedIn # Nobody
  /\ Send("mutation", {})
  /\ UNCHANGED <<news, cookie, feedVars, pageVars, faults>>

\* navigateToView and popstate.
ChangeView ==
  /\ signedIn # Nobody
  /\ fetch' = Bumped(fetch, {"live", "background"})
  /\ Restarted(signedIn)
  /\ UNCHANGED <<news, cookie, listener, signedIn, shown, acting, faults>>

\* refreshDesk, every 2 s during a call.
PollDesk ==
  /\ signedIn # Nobody /\ ~acting
  /\ Send("poll", {"background"})
  /\ UNCHANGED <<news, cookie, feedVars, pageVars, faults>>

\* refresh, after the debounce and every 30 s.
LiveRefresh ==
  IF acting THEN fetch' = Bumped(fetch, {"live"})
            ELSE Send("live", {"live", "background"})

Debounced ==
  /\ debounce
  /\ LiveRefresh
  /\ debounce' = FALSE
  /\ UNCHANGED <<news, cookie, feedVars, signedIn, shown, acting, faults>>

\* Faulty: the timer belongs to an open stream.
FallbackWhileOpen ==
  /\ signedIn # Nobody /\ stream = "open"
  /\ LiveRefresh
  /\ UNCHANGED <<news, cookie, feedVars, pageVars, faults>>

Fallback ==
  /\ signedIn # Nobody
  /\ LiveRefresh
  /\ UNCHANGED <<news, cookie, feedVars, pageVars, faults>>

-----------------------------------------------------------------------------
(* Answers.                                                                *)

Drop(f) == Consumed(f, {}) /\ UNCHANGED <<cookie, feedVars, pageVars>>

\* A session that is known: its user and desk; refused or failed: none.
Hydrated(f) ==
  /\ Arrived(f, "hydrate")
  /\ \/ ~Valid(f) /\ Drop(f)
     \/ /\ Valid(f) /\ Succeeds(f)
        /\ Consumed(f, {"desk", "background"})
        /\ signedIn' = fetch[f].who /\ shown' = Desk(f)
        /\ IF signedIn' = signedIn THEN UNCHANGED <<stream, hint, debounce>>
                                   ELSE Restarted(signedIn')
        /\ UNCHANGED <<cookie, listener, acting>>
     \/ /\ Valid(f) /\ ~Succeeds(f)
        /\ ResetSession(f)
        /\ UNCHANGED <<cookie, listener>>
  /\ UNCHANGED <<news, faults>>

\* The cookie comes with the answer; hydrateSession follows.
LoggedIn(f) ==
  /\ Arrived(f, "login")
  /\ IF Succeeds(f)
     THEN /\ cookie' = fetch[f].who
          /\ fetch' = [Bumped(fetch, {"session"}) EXCEPT
                         ![f] = Sent("hydrate", fetch[f].who)]
     ELSE Consumed(f, {}) /\ UNCHANGED cookie
  /\ UNCHANGED <<news, feedVars, pageVars, faults>>

LoggedOut(f) ==
  /\ Arrived(f, "logout")
  /\ cookie' = IF Succeeds(f) THEN Nobody ELSE cookie
  /\ ResetSession(f)
  /\ UNCHANGED <<news, listener, faults>>

\* An answer that is no longer current also leaves deskActionPendingRef set.
CampaignChanged(f) ==
  /\ Arrived(f, "campaign")
  /\ \/ ~Valid(f) /\ Drop(f)
     \/ /\ Valid(f) /\ Succeeds(f)
        /\ shown' = Desk(f) /\ acting' = FALSE
        /\ Consumed(f, {"live", "background"})
        /\ Restarted(signedIn)
        /\ UNCHANGED <<cookie, listener, signedIn>>
     \/ /\ Valid(f) /\ ~Succeeds(f)
        /\ acting' = FALSE
        /\ Consumed(f, {})
        /\ UNCHANGED <<cookie, feedVars, signedIn, shown, debounce>>
  /\ UNCHANGED <<news, faults>>

\* commitDeskMutation.
Mutated(f) ==
  /\ Arrived(f, "mutation")
  /\ IF Succeeds(f) /\ signedIn = fetch[f].who
     THEN /\ shown' = Desk(f)
          /\ Consumed(f, {"desk"})
          /\ UNCHANGED <<cookie, feedVars, signedIn, acting, debounce>>
     ELSE Drop(f)
  /\ UNCHANGED <<news, faults>>

\* The answers to refreshDesk and refresh.
Refreshed(f) ==
  /\ Arrived(f, "poll") \/ Arrived(f, "live")
  /\ \/ /\ Succeeds(f) /\ Valid(f) /\ ~acting
        /\ shown' = Desk(f)
        /\ Consumed(f, {})
        /\ UNCHANGED <<cookie, feedVars, signedIn, acting, debounce>>
     \/ Succeeds(f) /\ (~Valid(f) \/ acting) /\ Drop(f)
     \/ /\ fetch[f].answer = "refused"
        /\ IF Arrived(f, "poll") THEN Valid(f) ELSE "live" \in fetch[f].current
        /\ ResetSession(f)
        /\ UNCHANGED <<cookie, listener>>
     \/ /\ ~Succeeds(f)
        /\ ~(/\ fetch[f].answer = "refused"
             /\ IF Arrived(f, "poll") THEN Valid(f) ELSE "live" \in fetch[f].current)
        /\ Drop(f)
  /\ UNCHANGED <<news, faults>>

ResponseArrives(f) == Hydrated(f) \/ LoggedIn(f) \/ LoggedOut(f) \/ CampaignChanged(f)
               \/ Mutated(f) \/ Refreshed(f)

DeskNext ==
  \/ DataChanges \/ ListenerStep \/ StreamOpens \/ StreamBreaks \/ HintArrives
  \/ HandleLogin \/ HandleLogout \/ Rehydrate \/ ChangeCampaign \/ Mutate \/ ChangeView
  \/ PollDesk \/ Debounced \/ Fallback
  \/ \E f \in Fetches : ServerAnswers(f) \/ ResponseArrives(f)

DeskSpec == DeskInit /\ [][DeskNext]_deskVars

\* Requests return, the 30 s timer goes on, and an answer normally comes
\* before the next refresh supersedes it.
DeskFairness ==
  /\ \A f \in Fetches : /\ WF_deskVars(ServerAnswers(f)) /\ WF_deskVars(ResponseArrives(f))
                        /\ SF_deskVars(ServerAnswers(f) /\ Valid(f))
                        /\ SF_deskVars(ResponseArrives(f) /\ Valid(f))
  /\ SF_deskVars(Fallback)

DeskFairSpec == DeskSpec /\ DeskFairness

-----------------------------------------------------------------------------
(* Properties.                                                             *)

\* Types of the variables.
DeskTypeOK ==
  /\ news \in 0 .. MaxChanges
  /\ cookie \in Users \cup {Nobody}
  /\ listener \in {"acquiring", "up", "waiting"}
  /\ stream \in {"closed", "connecting", "open"}
  /\ hint \in BOOLEAN /\ debounce \in BOOLEAN /\ acting \in BOOLEAN
  /\ signedIn \in Users \cup {Nobody}
  /\ shown \in [user : Users \cup {Nobody}, version : 0 .. MaxChanges]
  /\ fetch \in [Fetches ->
       [kind : {"none", "hydrate", "login", "logout", "campaign", "mutation",
                "poll", "live"},
        at : {"free", "sent", "answered"}, current : SUBSET Counters,
        who : Users \cup {Nobody}, answer : {"none", "ok", "refused", "failed"},
        version : 0 .. MaxChanges]]
  /\ faults \in 0 .. MaxTroubles
  /\ signedIn = Nobody => stream = "closed" /\ shown = NoDesk

\* The desk that is shown is that of the user who is signed in, whatever is
\* still under way from an earlier session when somebody else signs in.
DeskIsOwn == shown.user = signedIn

\* A background refresh never takes the page back: what it shows is at least
\* as new as what a call started or a campaign chosen meanwhile has shown.
RefreshNeverGoesBack ==
  [][\A f \in Fetches :
       (Arrived(f, "poll") \/ Arrived(f, "live")) /\ fetch'[f].at = "free"
         /\ signedIn' = signedIn
       => shown'.version >= shown.version]_deskVars

DeskIsSound == []DeskIsOwn /\ RefreshNeverGoesBack

Stale == signedIn # Nobody /\ shown.version < news

\* Whoever stays signed in sees every change in the end, hints lost or not,
\* unless an action on the desk is still recorded as pending.
DeskCatchesUp == Stale ~> ~Stale \/ acting

\* The same without the exception: the periodic refresh is a fallback.
FallbackAlwaysWorks == Stale ~> ~Stale
=============================================================================
