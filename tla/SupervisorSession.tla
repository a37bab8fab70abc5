------------------------- MODULE SupervisorSession -------------------------
(***************************************************************************)
(* The monitoring of live calls by one administrator:                      *)
(* dashboard/supervisor.ts, and what shares the user's media lock with it: *)
(* the creation of a call of their own (dashboard/calls.ts) and changes of *)
(* their account (auth/routes.ts).                                         *)
(*                                                                         *)
(* A session is a row of call_supervisor_sessions; a leg is the uuid of a  *)
(* channel that eavesdrops, and also stands for the job that originates    *)
(* it.  A request is interrupted at every await.  The lock is an advisory  *)
(* lock of PostgreSQL: a transaction that takes it for itself is one step, *)
(* a change of mode and a stop hold it over several.                       *)
(***************************************************************************)
EXTENDS Naturals, Sequences

CONSTANTS Sessions,    \* ids of session rows
          Legs,        \* uuids of supervisor channels
          Tabs,        \* requests of the administrator under way at a time
          Nothing,     \* no session, no leg, no holder of the lock
          MaxDoubts    \* bound: commands without an answer, failed statements

ASSUME SupervisorAssumption ==
  /\ Nothing \notin Sessions \cup Legs \cup Tabs
  /\ MaxDoubts \in Nat

VARIABLES user,     \* the row of users: active, admin
          desk,     \* the user has an open interactive call of their own
          target,   \* the monitored call: row open, channels up
          session,  \* call_supervisor_sessions
          mediaLock, \* who holds the user's media lock across statements
          asked,  \* per tab: where its request is, and what it has read
          eaves,    \* FreeSWITCH: the originate and channel of each leg
          report,   \* events on their way to the database
          doubts    \* how many commands and statements failed so far

supervisorVars ==
  <<user, desk, target, session, mediaLock, asked, eaves, report, doubts>>

Modes == {"listen", "whisper"}
LiveStates == {"connecting", "active"}
Alive == {"ringing", "answered"}
Idle == [at |-> "idle", session |-> Nothing, leg |-> Nothing,
         old |-> Nothing, mode |-> "listen", seen |-> "none"]
NoSession == [state |-> "none", mode |-> "listen", leg |-> Nothing,
              job |-> Nothing]

Places == {"idle", "probe", "insert", "startOriginate", "startStore", "startFail",
           "modeRead", "modeProbe", "modeKill", "modeUpdate",
           "modeOriginate", "modeStore", "modeFail",
           "stopRead", "stopKill", "stopUpdate"}

Live(s) == session[s].state \in LiveStates
Monitoring == \E s \in Sessions : Live(s)
HasRow(l) == eaves[l] \in Alive

\* The uuid of a new leg: which of the unused ones is immaterial.
FreshLegs ==
  LET unused == {l \in Legs : /\ eaves[l] = "none"
                              /\ \A s \in Sessions : session[s].leg # l
                              /\ \A t \in Tabs : asked[t].leg # l}
  IN {l \in unused : l = CHOOSE one \in unused : TRUE}

SupervisorInit ==
  /\ user = [active |-> TRUE, admin |-> TRUE]
  /\ desk = FALSE
  /\ target = [open |-> TRUE, up |-> TRUE]
  /\ session = [s \in Sessions |-> NoSession]
  /\ mediaLock = Nothing
  /\ asked = [t \in Tabs |-> Idle]
  /\ eaves = [l \in Legs |-> "none"]
  /\ report = << >>
  /\ doubts = 0

Goto(t, place) == asked' = [asked EXCEPT ![t].at = place]
Leave(t) == asked' = [asked EXCEPT ![t] = Idle]
At(t, place) == asked[t].at = place
Doubt == doubts < MaxDoubts /\ doubts' = doubts + 1

-----------------------------------------------------------------------------
(* startSupervisorSession.                                                 *)

\* requireSupervisorEndpoint, requireSupervisorRegistration and
\* requireMonitorableCall; the route has checked the administrator.
Start(t) ==
  /\ At(t, "idle") /\ user.active /\ user.admin
  /\ target.open
  /\ \E l \in FreshLegs :
       asked' = [asked EXCEPT ![t] = [Idle EXCEPT !.at = "probe", !.leg = l]]
  /\ UNCHANGED <<user, desk, target, session, mediaLock, eaves, report, doubts>>

\* requireTargetChannels, then the uuid of the leg.
StartProbes(t) ==
  /\ At(t, "probe")
  /\ IF target.up THEN Goto(t, "insert") ELSE Leave(t)
  /\ UNCHANGED <<user, desk, target, session, mediaLock, eaves, report, doubts>>

\* Sessions are inserted in one order, so that only the next one is offered.
UnusedSessions ==
  LET unused == {s \in Sessions : session[s].state = "none"}
  IN {s \in unused : s = CHOOSE one \in unused : TRUE}

\* The transaction that takes the media lock and inserts the session; the
\* unique index leaves an actor one live session.
StartInserts(t) ==
  /\ At(t, "insert") /\ mediaLock = Nothing
  /\ \/ /\ user.active /\ user.admin /\ ~desk /\ ~Monitoring
        /\ \E s \in UnusedSessions :
             /\ session' = [session EXCEPT ![s] =
                  [state |-> "connecting", mode |-> "listen",
                   leg |-> asked[t].leg, job |-> Nothing]]
             /\ asked' = [asked EXCEPT ![t].at = "startOriginate",
                                           ![t].session = s]
     \/ /\ ~user.active \/ ~user.admin \/ desk \/ Monitoring
        /\ Leave(t)
        /\ UNCHANGED session
  /\ UNCHANGED <<user, desk, target, mediaLock, eaves, report, doubts>>

\* originateSupervisorEavesdrop: bgapi answers with a job before the channel
\* exists; without an answer the job may run all the same.
Originate(t, here, answered, unanswered) ==
  /\ At(t, here)
  /\ \/ /\ eaves' = [eaves EXCEPT ![asked[t].leg] = "pending"]
        /\ Goto(t, answered)
        /\ UNCHANGED doubts
     \/ /\ Doubt
        /\ \E left \in {"none", "pending"} :
             eaves' = [eaves EXCEPT ![asked[t].leg] = left]
        /\ Goto(t, unanswered)
  /\ UNCHANGED <<user, desk, target, session, mediaLock, report>>

StartOriginates(t) == Originate(t, "startOriginate", "startStore", "startFail")

\* The job's uuid is stored, whatever the session has become meanwhile.
StartStoresJob(t) ==
  /\ At(t, "startStore")
  /\ \/ /\ session' = [session EXCEPT ![asked[t].session].job = asked[t].leg]
        /\ Leave(t)
        /\ UNCHANGED doubts
     \/ Doubt /\ Goto(t, "startFail") /\ UNCHANGED session
  /\ UNCHANGED <<user, desk, target, mediaLock, eaves, report>>

\* failSupervisorSession without a leg: no condition on the row's state.
StartFails(t) ==
  /\ At(t, "startFail")
  /\ session' = [session EXCEPT ![asked[t].session].state = "failed"]
  /\ Leave(t)
  /\ UNCHANGED <<user, desk, target, mediaLock, eaves, report, doubts>>

-----------------------------------------------------------------------------
(* updateSupervisorSessionMode, under the lock from its first statement to *)
(* its last.                                                               *)

\* withUserMediaSessionLock.
TakeLock(t, first) ==
  /\ At(t, "idle") /\ user.active /\ user.admin /\ mediaLock = Nothing
  /\ mediaLock' = t
  /\ \E s \in Sessions, m \in Modes :
       /\ session[s].state # "none"
       /\ asked' = [asked EXCEPT ![t] = [Idle EXCEPT
                        !.at = first, !.session = s, !.mode = m]]
  /\ UNCHANGED <<user, desk, target, session, eaves, report, doubts>>

ReleaseLock(t) == mediaLock' = Nothing /\ Leave(t)

ChangeMode(t) == TakeLock(t, "modeRead")

\* requireOwnedSupervisorSession, the checks on its state and mode, and
\* requireMonitorableCall.
ModeReads(t) ==
  LET row == session[asked[t].session] IN
  /\ At(t, "modeRead")
  /\ \/ /\ row.state = "active" /\ row.mode # asked[t].mode /\ target.open
        /\ \E l \in FreshLegs : asked' = [asked EXCEPT ![t].at = "modeProbe",
                                              ![t].old = row.leg, ![t].leg = l]
        /\ UNCHANGED mediaLock
     \/ /\ row.state # "active" \/ row.mode = asked[t].mode \/ ~target.open
        /\ ReleaseLock(t)
  /\ UNCHANGED <<user, desk, target, session, eaves, report, doubts>>

ModeProbes(t) ==
  /\ At(t, "modeProbe")
  /\ IF target.up THEN Goto(t, "modeKill") /\ UNCHANGED mediaLock
                  ELSE ReleaseLock(t)
  /\ UNCHANGED <<user, desk, target, session, eaves, report, doubts>>

\* uuid_kill of a channel that exists: its hangup is reported.
Killed(l) == /\ eaves' = [eaves EXCEPT ![l] = "gone"]
             /\ report' = Append(report, [what |-> "hangup", leg |-> l])

\* The previous leg is stopped before anything is written; an unanswered
\* command leaves the row as it is.
ModeKills(t) ==
  LET old == asked[t].old IN
  /\ At(t, "modeKill")
  /\ \/ /\ IF HasRow(old) THEN Killed(old) ELSE UNCHANGED <<eaves, report>>
        /\ Goto(t, "modeUpdate")
        /\ UNCHANGED <<mediaLock, doubts>>
     \/ /\ Doubt
        /\ \/ HasRow(old) /\ Killed(old)
           \/ UNCHANGED <<eaves, report>>
        /\ ReleaseLock(t)
  /\ UNCHANGED <<user, desk, target, session>>

ModeUpdates(t) ==
  LET s == asked[t].session IN
  /\ At(t, "modeUpdate")
  /\ IF session[s].state = "active"
     THEN /\ session' = [session EXCEPT ![s] =
               [state |-> "connecting", mode |-> asked[t].mode,
                leg |-> asked[t].leg, job |-> Nothing]]
          /\ Goto(t, "modeOriginate")
          /\ UNCHANGED mediaLock
     ELSE ReleaseLock(t) /\ UNCHANGED session
  /\ UNCHANGED <<user, desk, target, eaves, report, doubts>>

ModeOriginates(t) == Originate(t, "modeOriginate", "modeStore", "modeFail")

ModeStoresJob(t) ==
  LET s == asked[t].session IN
  /\ At(t, "modeStore")
  /\ \/ /\ session' = IF session[s].leg = asked[t].leg
                      THEN [session EXCEPT ![s].job = asked[t].leg]
                      ELSE session
        /\ ReleaseLock(t)
        /\ UNCHANGED doubts
     \/ Doubt /\ Goto(t, "modeFail") /\ UNCHANGED <<session, mediaLock>>
  /\ UNCHANGED <<user, desk, target, eaves, report>>

\* failSupervisorSession for the leg of this change of mode.
ModeFails(t) ==
  LET s == asked[t].session IN
  /\ At(t, "modeFail")
  /\ session' = IF session[s].leg = asked[t].leg
                THEN [session EXCEPT ![s].state = "failed"] ELSE session
  /\ ReleaseLock(t)
  /\ UNCHANGED <<user, desk, target, eaves, report, doubts>>

-----------------------------------------------------------------------------
(* stopSupervisorSession.                                                  *)

StopSession(t) == TakeLock(t, "stopRead")

StopReads(t) ==
  LET row == session[asked[t].session] IN
  /\ At(t, "stopRead")
  /\ IF row.state \in LiveStates
     THEN /\ asked' = [asked EXCEPT ![t].at = "stopKill",
                                        ![t].old = row.leg,
                                        ![t].seen = row.state]
          /\ UNCHANGED mediaLock
     ELSE ReleaseLock(t)
  /\ UNCHANGED <<user, desk, target, session, eaves, report, doubts>>

\* Faulty: a session without a channel is ended, though it may still connect.
StopKillsAnyhow(t) ==
  LET old == asked[t].old IN
  /\ At(t, "stopKill")
  /\ IF HasRow(old) THEN Killed(old) ELSE UNCHANGED <<eaves, report>>
  /\ Goto(t, "stopUpdate")
  /\ UNCHANGED <<user, desk, target, session, mediaLock, doubts>>

\* A connection that has not made its channel yet cannot be stopped.
StopKills(t) ==
  LET old == asked[t].old IN
  /\ At(t, "stopKill")
  /\ \/ /\ HasRow(old) /\ Killed(old)
        /\ Goto(t, "stopUpdate")
        /\ UNCHANGED <<mediaLock, doubts>>
     \/ /\ ~HasRow(old)
        /\ IF asked[t].seen = "connecting"
           THEN ReleaseLock(t)
           ELSE Goto(t, "stopUpdate") /\ UNCHANGED mediaLock
        /\ UNCHANGED <<eaves, report, doubts>>
     \/ /\ Doubt
        /\ \/ HasRow(old) /\ Killed(old)
           \/ UNCHANGED <<eaves, report>>
        /\ ReleaseLock(t)
  /\ UNCHANGED <<user, desk, target, session>>

StopUpdates(t) ==
  LET s == asked[t].session IN
  /\ At(t, "stopUpdate")
  /\ session' = IF session[s].leg = asked[t].old
                THEN [session EXCEPT ![s].state = "ended"] ELSE session
  /\ ReleaseLock(t)
  /\ UNCHANGED <<user, desk, target, eaves, report, doubts>>

-----------------------------------------------------------------------------
(* What else takes the media lock, each in one transaction.                *)

\* createDialerCall for the user's own agent, as far as it concerns them.
StartOwnCall ==
  /\ mediaLock = Nothing
  /\ user.active /\ ~Monitoring /\ ~desk
  /\ desk' = TRUE
  /\ UNCHANGED <<user, target, session, mediaLock, asked, eaves, report, doubts>>

OwnCallEnds ==
  /\ desk
  /\ desk' = FALSE
  /\ UNCHANGED <<user, target, session, mediaLock, asked, eaves, report, doubts>>

\* updateUser with isActive false, and deleteUser.
Deactivate ==
  /\ mediaLock = Nothing
  /\ user.active /\ ~desk /\ ~Monitoring
  /\ user' = [user EXCEPT !.active = FALSE]
  /\ UNCHANGED <<desk, target, session, mediaLock, asked, eaves, report, doubts>>

\* updateUser with role agent.
RemoveAdmin ==
  /\ mediaLock = Nothing
  /\ user.admin /\ ~Monitoring
  /\ user' = [user EXCEPT !.admin = FALSE]
  /\ UNCHANGED <<desk, target, session, mediaLock, asked, eaves, report, doubts>>

-----------------------------------------------------------------------------
(* FreeSWITCH, the monitored call, and the events.                         *)

\* The originate makes its channel, or fails before it has one.
ChannelRings(l) ==
  /\ eaves[l] = "pending"
  /\ eaves' = [eaves EXCEPT ![l] = "ringing"]
  /\ UNCHANGED <<user, desk, target, session, mediaLock, asked, report, doubts>>

JobFails(l) ==
  /\ eaves[l] = "pending"
  /\ eaves' = [eaves EXCEPT ![l] = "failed"]
  /\ report' = Append(report, [what |-> "jobFailed", leg |-> l])
  /\ UNCHANGED <<user, desk, target, session, mediaLock, asked, doubts>>

ChannelAnswers(l) ==
  /\ eaves[l] = "ringing"
  /\ eaves' = [eaves EXCEPT ![l] = "answered"]
  /\ report' = Append(report, [what |-> "answer", leg |-> l])
  /\ UNCHANGED <<user, desk, target, session, mediaLock, asked, doubts>>

\* The browser hangs up, the phone is lost or the monitored call is over.
ChannelEnds(l) ==
  /\ HasRow(l)
  /\ Killed(l)
  /\ UNCHANGED <<user, desk, target, session, mediaLock, asked, doubts>>

TargetHangsUp ==
  /\ target.up
  /\ target' = [target EXCEPT !.up = FALSE]
  /\ UNCHANGED <<user, desk, session, mediaLock, asked, eaves, report, doubts>>

TargetIsFinalized ==
  /\ ~target.up /\ target.open
  /\ target' = [target EXCEPT !.open = FALSE]
  /\ UNCHANGED <<user, desk, session, mediaLock, asked, eaves, report, doubts>>

\* Faulty: an answer counts whatever the session has become.
ReportedAnyhow(row, event) ==
  CASE event.what = "answer" /\ row.leg = event.leg -> [row EXCEPT !.state = "active"]
    [] event.what = "hangup" /\ row.leg = event.leg /\ row.state \in LiveStates
         -> [row EXCEPT !.state = "ended"]
    [] event.what = "jobFailed" /\ row.job = event.leg /\ row.state = "connecting"
         -> [row EXCEPT !.state = "failed"]
    [] OTHER -> row

\* What an event does to a session.
Reported(row, event) ==
  CASE event.what = "answer" /\ row.leg = event.leg /\ row.state = "connecting"
         -> [row EXCEPT !.state = "active"]
    [] event.what = "hangup" /\ row.leg = event.leg /\ row.state \in LiveStates
         -> [row EXCEPT !.state = "ended"]
    [] event.what = "jobFailed" /\ row.job = event.leg /\ row.state = "connecting"
         -> [row EXCEPT !.state = "failed"]
    [] OTHER -> row

\* persistSupervisorFreeSwitchEvent and persistSupervisorBackgroundJobFailure.
PersistReport ==
  /\ report # << >>
  /\ session' = [s \in Sessions |-> Reported(session[s], Head(report))]
  /\ report' = Tail(report)
  /\ UNCHANGED <<user, desk, target, mediaLock, asked, eaves, doubts>>

\* The connection of the listener drops: what it carried is lost.
ReportsLost ==
  /\ report # << >>
  /\ Doubt
  /\ report' = << >>
  /\ UNCHANGED <<user, desk, target, session, mediaLock, asked, eaves>>

\* The process dies: requests are forgotten, their lock goes with the
\* connection to the database.
SupervisorCrash ==
  /\ \E t \in Tabs : asked[t].at # "idle"
  /\ Doubt
  /\ asked' = [t \in Tabs |-> Idle]
  /\ mediaLock' = Nothing
  /\ report' = << >>
  /\ UNCHANGED <<user, desk, target, session, eaves>>

TabStep(t) ==
  \/ Start(t) \/ StartProbes(t) \/ StartInserts(t) \/ StartOriginates(t)
  \/ StartStoresJob(t) \/ StartFails(t)
  \/ ChangeMode(t) \/ ModeReads(t) \/ ModeProbes(t) \/ ModeKills(t)
  \/ ModeUpdates(t) \/ ModeOriginates(t) \/ ModeStoresJob(t) \/ ModeFails(t)
  \/ StopSession(t) \/ StopReads(t) \/ StopKills(t) \/ StopUpdates(t)

SupervisorNext ==
  \/ \E t \in Tabs : TabStep(t)
  \/ StartOwnCall \/ OwnCallEnds \/ Deactivate \/ RemoveAdmin
  \/ \E l \in Legs : ChannelRings(l) \/ JobFails(l) \/ ChannelAnswers(l)
                     \/ ChannelEnds(l)
  \/ TargetHangsUp \/ TargetIsFinalized
  \/ PersistReport \/ ReportsLost \/ SupervisorCrash

SupervisorSpec == SupervisorInit /\ [][SupervisorNext]_supervisorVars

-----------------------------------------------------------------------------
(* Properties.                                                             *)

\* Types of the variables.
SupervisorTypeOK ==
  /\ user \in [active : BOOLEAN, admin : BOOLEAN]
  /\ desk \in BOOLEAN
  /\ target \in [open : BOOLEAN, up : BOOLEAN]
  /\ session \in [Sessions -> [state : LiveStates \cup {"none", "ended", "failed"},
                               mode : Modes, leg : Legs \cup {Nothing},
                               job : Legs \cup {Nothing}]]
  /\ mediaLock \in Tabs \cup {Nothing}
  /\ asked \in [Tabs -> [at : Places, session : Sessions \cup {Nothing},
                           leg : Legs \cup {Nothing}, old : Legs \cup {Nothing},
                           mode : Modes, seen : LiveStates \cup {"none"}]]
  /\ eaves \in [Legs -> {"none", "pending", "ringing", "answered", "gone", "failed"}]
  /\ report \in Seq([what : {"answer", "hangup", "jobFailed"}, leg : Legs])
  /\ doubts \in 0 .. MaxDoubts

\* Whoever monitors is an active administrator, is on no call of their own
\* and has one session: the media lock serializes starting a session,
\* starting a call, deactivating the user and taking their role away, while
\* events, failures and changes of mode never bring a session back to life.
OneMediaRole ==
  /\ Monitoring => user.active /\ user.admin /\ ~desk
  /\ \A s1, s2 \in Sessions : Live(s1) /\ Live(s2) => s1 = s2

\* As long as every command was answered, every statement done and no event
\* lost, each channel that eavesdrops (or is about to) is that of a live
\* session, which its administrator can see and stop.
NoHiddenChannel ==
  doubts = 0 =>
    \A l \in Legs : eaves[l] \in Alive \cup {"pending"} =>
      \E s \in Sessions : Live(s) /\ session[s].leg = l

\* A session whose originate failed is marked failed once the failure has
\* been handled and no request is under way.
FailedOriginateIsMarked ==
  \A s \in Sessions :
    session[s].state = "connecting" /\ eaves[session[s].leg] = "failed"
      => report # << >> \/ (\E t \in Tabs : asked[t].at # "idle")
=============================================================================
