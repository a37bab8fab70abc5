-------------------------- MODULE SupervisorProofs ---------------------------
(*****************************************************************************)
(* Proofs about SupervisorSession, for any sessions, legs, tabs and bounds:  *)
(* a session has one media role at a time, and no channel is hidden from its *)
(* row; and about the phones in the browser, for any runs of their effects:  *)
(* the one the supervisor listens with and the one an agent calls with.      *)
(*****************************************************************************)
EXTENDS SupervisorSession, SupervisorPhone, Softphone, SequenceTheorems, TLAPS

-----------------------------------------------------------------------------
(* The monitoring of live calls (SupervisorSession).                       *)

Channels == {"none", "pending", "ringing", "answered", "gone", "failed"}
SessionRows ==
  [state : LiveStates \cup {"none", "ended", "failed"}, mode : Modes,
   leg : Legs \cup {Nothing}, job : Legs \cup {Nothing}]
TabRequests ==
  [at : Places, session : Sessions \cup {Nothing}, leg : Legs \cup {Nothing},
   old : Legs \cup {Nothing}, mode : Modes, seen : LiveStates \cup {"none"}]
Reports == [what : {"answer", "hangup", "jobFailed"}, leg : Legs]

LockedAt == {"modeRead", "modeProbe", "modeKill", "modeUpdate", "modeOriginate",
             "modeStore", "modeFail", "stopRead", "stopKill", "stopUpdate"}

NewLegAt == {"probe", "insert", "startOriginate", "startStore", "modeProbe", "modeKill",
             "modeUpdate", "modeOriginate", "modeStore"}
OldLegAt == {"modeProbe", "modeKill", "modeUpdate", "stopKill", "stopUpdate"}

\* A request knows the session it is about, the leg it makes and the one it
\* stops.
Named(a) ==
  /\ a.at \in LockedAt => a.session \in Sessions
  /\ a.at \in NewLegAt => a.leg \in Legs
  /\ a.at \in OldLegAt => a.old \in Legs

\* A change of mode and a stop hold the lock from their first statement to
\* their last.
LockInv ==
  \A t \in Tabs : /\ asked[t].at \in LockedAt => mediaLock = t
                  /\ Named(asked[t])

LiveRowsAreNamed == \A s \in Sessions : Live(s) => session[s].leg \in Legs

\* Where a request knows as much as it does at the place it comes from.
Follows(from, to) ==
  /\ to \in LockedAt => from \in LockedAt
  /\ to \in NewLegAt => from \in NewLegAt
  /\ to \in OldLegAt => from \in OldLegAt

LEMMA PlacesFollow ==
  /\ Follows("probe", "insert")
  /\ Follows("startOriginate", "startStore") /\ Follows("startOriginate", "startFail")
  /\ Follows("startStore", "startFail")
  /\ Follows("modeProbe", "modeKill") /\ Follows("modeKill", "modeUpdate")
  /\ Follows("modeUpdate", "modeOriginate")
  /\ Follows("modeOriginate", "modeStore") /\ Follows("modeOriginate", "modeFail")
  /\ Follows("modeStore", "modeFail")
  /\ Follows("stopKill", "stopUpdate")
  BY DEF Follows, LockedAt, NewLegAt, OldLegAt

LEMMA PlacesAre ==
  /\ LockedAt \subseteq Places /\ NewLegAt \subseteq Places
  /\ "startFail" \in Places /\ "idle" \in Places
  /\ {"idle", "probe", "insert", "startOriginate", "startStore", "startFail"}
     \cap LockedAt = {}
  /\ {"modeFail", "stopKill", "stopUpdate", "modeRead", "stopRead", "idle", "startFail"}
     \cap NewLegAt = {}
  /\ {"idle", "probe", "insert", "startOriginate", "modeRead", "stopRead"} \cap OldLegAt = {}
  BY DEF Places, LockedAt, NewLegAt, OldLegAt

LEMMA SupervisorTypes ==
  SupervisorTypeOK <=>
    /\ user \in [active : BOOLEAN, admin : BOOLEAN]
    /\ desk \in BOOLEAN
    /\ target \in [open : BOOLEAN, up : BOOLEAN]
    /\ session \in [Sessions -> SessionRows]
    /\ mediaLock \in Tabs \cup {Nothing}
    /\ asked \in [Tabs -> TabRequests]
    /\ eaves \in [Legs -> Channels]
    /\ report \in Seq(Reports)
    /\ doubts \in 0 .. MaxDoubts
  BY DEF SupervisorTypeOK, SessionRows, TabRequests, Channels, Reports

LEMMA IdleIsARequest ==
  /\ Idle \in TabRequests
  /\ Idle.at = "idle" /\ Idle.session = Nothing /\ Idle.leg = Nothing /\ Idle.old = Nothing
  BY DEF Idle, TabRequests, Places, Modes

\* One tab's request changes, and the lock with it.
LEMMA TabChanges ==
  ASSUME asked \in [Tabs -> TabRequests], LockInv, NEW t \in Tabs, NEW a \in TabRequests,
         asked' = [asked EXCEPT ![t] = a],
         mediaLock \in Tabs \cup {Nothing},
         a.at \in LockedAt => mediaLock' = t,
         Named(a),
         \/ mediaLock' = mediaLock
         \/ mediaLock = Nothing /\ mediaLock' = t
         \/ mediaLock = t /\ mediaLock' = Nothing
  PROVE  /\ asked' \in [Tabs -> TabRequests]
         /\ mediaLock' \in Tabs \cup {Nothing}
         /\ LockInv'
         /\ asked'[t] = a
         /\ \A u \in Tabs : u # t => asked'[u] = asked[u]
<1>1. asked' \in [Tabs -> TabRequests] /\ asked'[t] = a
      /\ \A u \in Tabs : u # t => asked'[u] = asked[u]
  OBVIOUS
<1>2. LockInv'
  <2> SUFFICES ASSUME NEW u \in Tabs
               PROVE (asked'[u].at \in LockedAt => mediaLock' = u) /\ Named(asked'[u])
    BY DEF LockInv, Named
  <2>1. (asked[u].at \in LockedAt => mediaLock = u) /\ Named(asked[u])
    BY DEF LockInv
  <2>2. t # Nothing /\ u # Nothing
    BY SupervisorAssumption
  <2> QED
    BY <1>1, <2>1, <2>2
<1> QED
  BY <1>1, <1>2

\* What the tab goes on with.
LEMMA GotoChanges ==
  ASSUME asked \in [Tabs -> TabRequests], LockInv, NEW t \in Tabs, NEW place \in Places,
         Goto(t, place), mediaLock \in Tabs \cup {Nothing}, UNCHANGED mediaLock,
         Follows(asked[t].at, place)
  PROVE  /\ asked' \in [Tabs -> TabRequests]
         /\ LockInv'
         /\ asked'[t] \in TabRequests
         /\ asked'[t].at = place /\ asked'[t].session = asked[t].session
         /\ asked'[t].leg = asked[t].leg /\ asked'[t].old = asked[t].old
         /\ asked'[t].mode = asked[t].mode /\ asked'[t].seen = asked[t].seen
         /\ \A u \in Tabs : u # t => asked'[u] = asked[u]
<1>1. PICK a : a = [asked[t] EXCEPT !.at = place]
  OBVIOUS
<1>2. asked[t] \in TabRequests
  OBVIOUS
<1>3. a \in TabRequests /\ a.at = place /\ a.session = asked[t].session
      /\ a.leg = asked[t].leg /\ a.old = asked[t].old
      /\ a.mode = asked[t].mode /\ a.seen = asked[t].seen
  BY <1>1, <1>2 DEF TabRequests
<1>4. asked' = [asked EXCEPT ![t] = a]
  BY <1>1 DEF Goto
<1>5. a.at \in LockedAt => mediaLock' = t
  BY <1>3 DEF LockInv, Follows
<1>6. Named(a)
  BY <1>3 DEF LockInv, Follows, Named
<1> QED
  BY <1>3, <1>4, <1>5, <1>6, TabChanges

LEMMA LeaveChanges ==
  ASSUME asked \in [Tabs -> TabRequests], LockInv, NEW t \in Tabs, Leave(t),
         mediaLock \in Tabs \cup {Nothing},
         \/ UNCHANGED mediaLock
         \/ asked[t].at \in LockedAt /\ mediaLock' = Nothing
  PROVE  /\ asked' \in [Tabs -> TabRequests]
         /\ mediaLock' \in Tabs \cup {Nothing}
         /\ LockInv'
         /\ asked'[t] = Idle
         /\ \A u \in Tabs : u # t => asked'[u] = asked[u]
<1>1. asked' = [asked EXCEPT ![t] = Idle]
  BY DEF Leave
<1>2. Idle.at \notin LockedAt /\ Named(Idle)
  BY IdleIsARequest, PlacesAre DEF Named
<1>3. asked[t].at \in LockedAt => mediaLock = t
  BY DEF LockInv
<1> QED
  BY <1>1, <1>2, <1>3, IdleIsARequest, TabChanges

\* A step that brings no session to life, and leaves user and desk alone,
\* keeps the roles apart.
LEMMA RolesStay ==
  ASSUME OneMediaRole, UNCHANGED <<user, desk>>, \A s \in Sessions : Live(s)' => Live(s)
  PROVE  OneMediaRole'
<1>1. Monitoring' => Monitoring
  BY DEF Monitoring
<1>2. Monitoring' => user'.active /\ user'.admin /\ ~desk'
  BY <1>1 DEF OneMediaRole
<1>3. \A s1, s2 \in Sessions : Live(s1)' /\ Live(s2)' => s1 = s2
  BY DEF OneMediaRole
<1> QED
  BY <1>2, <1>3 DEF OneMediaRole

\* One row changes to x, which is live only if it was.
LEMMA RowChanges ==
  ASSUME session \in [Sessions -> SessionRows], NEW s \in Sessions, NEW x \in SessionRows,
         session' = [session EXCEPT ![s] = x],
         x.state \in LiveStates => session[s].state \in LiveStates,
         x.state \in LiveStates => x.leg \in Legs \/ x.leg = session[s].leg,
         LiveRowsAreNamed
  PROVE  /\ session' \in [Sessions -> SessionRows]
         /\ session'[s] = x
         /\ \A r \in Sessions : r # s => session'[r] = session[r]
         /\ \A r \in Sessions : Live(r)' => Live(r)
         /\ LiveRowsAreNamed'
<1>1. session' \in [Sessions -> SessionRows] /\ session'[s] = x
      /\ \A r \in Sessions : r # s => session'[r] = session[r]
  OBVIOUS
<1>2. \A r \in Sessions : Live(r)' => Live(r)
  BY <1>1 DEF Live
<1>3. LiveRowsAreNamed'
  BY <1>1 DEF LiveRowsAreNamed, Live
<1> QED
  BY <1>1, <1>2, <1>3

LEMMA ReportedRow ==
  ASSUME NEW row \in SessionRows, NEW e \in Reports
  PROVE  /\ Reported(row, e) \in SessionRows
         /\ Reported(row, e).leg = row.leg /\ Reported(row, e).job = row.job
         /\ Reported(row, e).state \in LiveStates => row.state \in LiveStates
         /\ Reported(row, e).state = "none" <=> row.state = "none"
         /\ \/ Reported(row, e) = row
            \/ /\ e.what = "answer" /\ row.leg = e.leg /\ row.state = "connecting"
               /\ Reported(row, e).state = "active"
            \/ /\ e.what = "hangup" /\ row.leg = e.leg
               /\ Reported(row, e).state = "ended"
            \/ /\ e.what = "jobFailed" /\ row.job = e.leg
               /\ Reported(row, e).state = "failed"
<1>1. PICK a : a = [row EXCEPT !.state = "active"]
  OBVIOUS
<1>2. PICK b : b = [row EXCEPT !.state = "ended"]
  OBVIOUS
<1>3. PICK c : c = [row EXCEPT !.state = "failed"]
  OBVIOUS
<1>4. a \in SessionRows /\ a.leg = row.leg /\ a.job = row.job /\ a.state = "active"
  BY <1>1 DEF SessionRows, LiveStates
<1>5. b \in SessionRows /\ b.leg = row.leg /\ b.job = row.job /\ b.state = "ended"
  BY <1>2 DEF SessionRows, LiveStates
<1>6. c \in SessionRows /\ c.leg = row.leg /\ c.job = row.job /\ c.state = "failed"
  BY <1>3 DEF SessionRows, LiveStates
<1>7. \/ Reported(row, e) = row
      \/ e.what = "answer" /\ row.leg = e.leg /\ row.state = "connecting" /\ Reported(row, e) = a
      \/ e.what = "hangup" /\ row.leg = e.leg /\ row.state \in LiveStates /\ Reported(row, e) = b
      \/ e.what = "jobFailed" /\ row.job = e.leg /\ row.state = "connecting" /\ Reported(row, e) = c
  BY <1>1, <1>2, <1>3 DEF Reported, LiveStates
<1> QED
  BY <1>4, <1>5, <1>6, <1>7 DEF LiveStates

SupervisorBase == SupervisorTypeOK /\ LockInv /\ LiveRowsAreNamed /\ OneMediaRole

LEMMA SupervisorBaseBegins == SupervisorInit => SupervisorBase
<1> SUFFICES ASSUME SupervisorInit PROVE SupervisorBase
  OBVIOUS
<1>1. NoSession \in SessionRows /\ NoSession.state = "none"
  BY DEF NoSession, SessionRows, Modes
<1>2. << >> \in Seq(Reports) /\ 0 \in 0 .. MaxDoubts
  BY SupervisorAssumption
<1>3. SupervisorTypeOK
  BY <1>1, <1>2, IdleIsARequest, SupervisorTypes DEF SupervisorInit, Channels
<1>4. LockInv
  BY IdleIsARequest, PlacesAre DEF SupervisorInit, LockInv, Named
<1>5. \A s \in Sessions : ~Live(s)
  BY <1>1 DEF SupervisorInit, Live, LiveStates
<1> QED
  BY <1>3, <1>4, <1>5 DEF SupervisorBase, OneMediaRole, Monitoring, LiveRowsAreNamed

LEMMA SupervisorBaseStep ==
  SupervisorBase /\ [SupervisorNext]_supervisorVars => SupervisorBase'
<1> SUFFICES ASSUME SupervisorBase, [SupervisorNext]_supervisorVars PROVE SupervisorBase'
  OBVIOUS
<1> DEFINE Kept ==
      /\ user' \in [active : BOOLEAN, admin : BOOLEAN]
      /\ desk' \in BOOLEAN
      /\ target' \in [open : BOOLEAN, up : BOOLEAN]
      /\ session' \in [Sessions -> SessionRows]
      /\ mediaLock' \in Tabs \cup {Nothing}
      /\ asked' \in [Tabs -> TabRequests]
      /\ eaves' \in [Legs -> Channels]
      /\ report' \in Seq(Reports)
      /\ doubts' \in 0 .. MaxDoubts
      /\ LockInv'
      /\ LiveRowsAreNamed'
      /\ OneMediaRole'
<1> SUFFICES Kept
  BY DEF SupervisorBase, SupervisorTypeOK, SessionRows, TabRequests, Channels, Reports
<1>1. /\ user \in [active : BOOLEAN, admin : BOOLEAN]
      /\ desk \in BOOLEAN
      /\ target \in [open : BOOLEAN, up : BOOLEAN]
      /\ session \in [Sessions -> SessionRows]
      /\ mediaLock \in Tabs \cup {Nothing}
      /\ asked \in [Tabs -> TabRequests]
      /\ eaves \in [Legs -> Channels]
      /\ report \in Seq(Reports)
      /\ doubts \in 0 .. MaxDoubts
  BY SupervisorTypes DEF SupervisorBase
<1>2. LockInv /\ OneMediaRole /\ LiveRowsAreNamed
  BY DEF SupervisorBase
<1>3. UNCHANGED session => LiveRowsAreNamed'
  BY <1>2 DEF LiveRowsAreNamed, Live
<1>4. UNCHANGED doubts \/ Doubt => doubts' \in 0 .. MaxDoubts
  BY <1>1, SupervisorAssumption DEF Doubt
<1>5. UNCHANGED <<asked, mediaLock>> => LockInv'
  BY <1>2 DEF LockInv
\* The user is left alone, no session comes to life, the tab changes.
<1>6. ASSUME NEW l \in Legs, NEW what \in {"answer", "hangup", "jobFailed"}
      PROVE  Append(report, [what |-> what, leg |-> l]) \in Seq(Reports)
  <2>1. [what |-> what, leg |-> l] \in Reports
    BY <1>6 DEF Reports
  <2> QED
    BY <1>1, <2>1, AppendProperties
<1>7. ASSUME NEW l, (HasRow(l) /\ Killed(l)) \/ UNCHANGED <<eaves, report>>, l \in Legs
      PROVE  eaves' \in [Legs -> Channels] /\ report' \in Seq(Reports)
  BY <1>1, <1>6, <1>7 DEF Killed, Channels
<1>8. Idle \in TabRequests
  BY IdleIsARequest
<1>9. ASSUME NEW a \in TabRequests, NEW place \in Places, NEW s \in Sessions \cup {Nothing},
             NEW l \in Legs \cup {Nothing}
      PROVE  /\ [a EXCEPT !.at = place, !.session = s] \in TabRequests
             /\ [a EXCEPT !.at = place, !.leg = l] \in TabRequests
             /\ [a EXCEPT !.at = place] \in TabRequests
  BY DEF TabRequests
<1> DEFINE Base ==
      /\ user' = user /\ desk' = desk /\ target' = target
      /\ UNCHANGED doubts \/ Doubt
<1> DEFINE TabMoved ==
      /\ asked' \in [Tabs -> TabRequests] /\ mediaLock' \in Tabs \cup {Nothing} /\ LockInv'
<1> DEFINE Rows ==
      /\ session' \in [Sessions -> SessionRows]
      /\ \A s \in Sessions : Live(s)' => Live(s)
      /\ LiveRowsAreNamed'
<1> DEFINE Media == eaves' \in [Legs -> Channels] /\ report' \in Seq(Reports)
<1>10. UNCHANGED session => Rows
  BY <1>1, <1>3 DEF Live
<1>11. UNCHANGED <<eaves, report>> => Media
  BY <1>1
<1>12. Base /\ TabMoved /\ Rows /\ Media => Kept
  <2> SUFFICES ASSUME Base, TabMoved, Rows, Media PROVE Kept
    OBVIOUS
  <2>1. UNCHANGED <<user, desk, target>> /\ \A s \in Sessions : Live(s)' => Live(s)
    BY DEF Base, Rows
  <2>2. OneMediaRole'
    BY <1>2, <2>1, RolesStay
  <2>3. doubts' \in 0 .. MaxDoubts
    <3>1. doubts' = doubts \/ Doubt
      BY DEF Base
    <3>2. CASE doubts' = doubts
      BY <1>1, <3>2
    <3>3. CASE Doubt
      BY <1>4, <3>3
    <3> QED
      BY <3>1, <3>2, <3>3
  <2>4. /\ user' \in [active : BOOLEAN, admin : BOOLEAN] /\ desk' \in BOOLEAN
        /\ target' \in [open : BOOLEAN, up : BOOLEAN]
    BY <1>1, <2>1
  <2>5. TabMoved /\ Rows /\ Media
    OBVIOUS
  <2>6. /\ session' \in [Sessions -> SessionRows] /\ LiveRowsAreNamed'
        /\ eaves' \in [Legs -> Channels] /\ report' \in Seq(Reports)
        /\ asked' \in [Tabs -> TabRequests] /\ mediaLock' \in Tabs \cup {Nothing} /\ LockInv'
    BY <2>5 DEF TabMoved, Rows, Media
  <2> QED
    BY <2>2, <2>3, <2>4, <2>6
<1> HIDE DEF Base, TabMoved, Rows, Media
<1>13. ASSUME NEW t \in Tabs, NEW place \in Places, Goto(t, place), UNCHANGED mediaLock,
              Follows(asked[t].at, place)
       PROVE  TabMoved
  BY <1>1, <1>2, <1>13, GotoChanges DEF TabMoved
<1>14. ASSUME NEW t \in Tabs, Leave(t), UNCHANGED mediaLock PROVE TabMoved
  BY <1>1, <1>2, <1>14, LeaveChanges DEF TabMoved
<1>15. ASSUME NEW t \in Tabs, ReleaseLock(t), asked[t].at \in LockedAt PROVE TabMoved
  BY <1>1, <1>2, <1>15, LeaveChanges DEF TabMoved, ReleaseLock
<1>16. {"probe", "insert", "startOriginate", "startStore", "startFail"} \subseteq Places
       /\ LockedAt \subseteq Places
  BY PlacesAre DEF Places
<1>20. ASSUME NEW t \in Tabs, Start(t) PROVE Kept
  <2>1. PICK l \in FreshLegs : asked' = [asked EXCEPT ![t] = [Idle EXCEPT !.at = "probe", !.leg = l]]
    BY <1>20 DEF Start
  <2>2. PICK a : a = [Idle EXCEPT !.at = "probe", !.leg = l]
    OBVIOUS
  <2>3. a \in TabRequests /\ a.at = "probe" /\ a.leg \in Legs
    BY <2>1, <2>2, <1>8 DEF FreshLegs, TabRequests, Places
  <2>5. Named(a) /\ a.at \notin LockedAt
    BY <2>3, PlacesAre DEF Named
  <2>4. TabMoved
    BY <1>1, <1>2, <2>5, <1>20, <2>1, <2>2, <2>3, TabChanges DEF TabMoved, Start
  <2> QED
    BY <1>10, <1>11, <1>12, <1>20, <2>4 DEF Start, Base
<1>21. ASSUME NEW t \in Tabs, StartProbes(t) PROVE Kept
  <2>1. TabMoved
    BY <1>13, <1>14, <1>16, <1>21, PlacesFollow DEF StartProbes, At
  <2> QED
    BY <1>10, <1>11, <1>12, <1>21, <2>1 DEF StartProbes, Base
<1>22. ASSUME NEW t \in Tabs, StartInserts(t) PROVE Kept
  <2>1. CASE Leave(t) /\ UNCHANGED session
    <3>1. TabMoved
      BY <1>14, <1>22, <2>1 DEF StartInserts
    <3> QED
      BY <1>10, <1>11, <1>12, <1>22, <2>1, <3>1 DEF StartInserts, Base
  <2>2. CASE ~(Leave(t) /\ UNCHANGED session)
    <3>1. /\ user.active /\ user.admin /\ ~desk /\ ~Monitoring
          /\ UNCHANGED <<user, desk, target, mediaLock, eaves, report, doubts>>
      BY <1>22, <2>2 DEF StartInserts
    <3>2. PICK s \in UnusedSessions :
            /\ session' = [session EXCEPT ![s] =
                  [state |-> "connecting", mode |-> "listen",
                   leg |-> asked[t].leg, job |-> Nothing]]
            /\ asked' = [asked EXCEPT ![t].at = "startOriginate", ![t].session = s]
      BY <1>22, <2>2 DEF StartInserts
    <3>3. PICK x : x = [state |-> "connecting", mode |-> "listen",
                        leg |-> asked[t].leg, job |-> Nothing]
      OBVIOUS
    <3>4. PICK a : a = [asked[t] EXCEPT !.at = "startOriginate", !.session = s]
      OBVIOUS
    <3>5. asked[t] \in TabRequests /\ s \in Sessions /\ asked[t].leg \in Legs
      BY <1>1, <1>2, <1>22, <3>2 DEF UnusedSessions, StartInserts, At, LockInv, Named, NewLegAt
    <3>6. x \in SessionRows
      BY <3>3, <3>5 DEF SessionRows, TabRequests, LiveStates, Modes
    <3>7. a \in TabRequests /\ a.at = "startOriginate" /\ a.leg = asked[t].leg
      BY <3>4, <3>5, <1>16 DEF TabRequests
    <3>14. Named(a) /\ a.at \notin LockedAt
      BY <3>5, <3>7, PlacesAre DEF Named
    <3>8. asked' = [asked EXCEPT ![t] = a]
      BY <3>2, <3>4, <3>5, <1>1 DEF TabRequests
    <3>9. TabMoved
      BY <1>1, <1>2, <3>14, <3>1, <3>7, <3>8, TabChanges DEF TabMoved
    <3>10. session' = [session EXCEPT ![s] = x]
      BY <3>2, <3>3
    <3>11. session' \in [Sessions -> SessionRows]
           /\ \A r \in Sessions : r # s => session'[r] = session[r]
      BY <1>1, <3>5, <3>6, <3>10
    <3>12. \A r \in Sessions : Live(r)' => r = s
      BY <3>1, <3>11 DEF Live, Monitoring
    <3>13. OneMediaRole'
      BY <3>1, <3>12 DEF OneMediaRole
    <3>15. LiveRowsAreNamed'
      BY <1>1, <3>3, <3>5, <3>10, <3>12 DEF LiveRowsAreNamed
    <3> QED
      BY <1>1, <3>1, <3>9, <3>11, <3>13, <3>15 DEF TabMoved
  <2> QED
    BY <2>1, <2>2
<1>23. ASSUME NEW t \in Tabs, NEW here, NEW yes \in Places, NEW no \in Places,
              asked[t].leg \in Legs \cup {Nothing}, Originate(t, here, yes, no),
              Follows(here, yes), Follows(here, no)
       PROVE  Kept
  <2>1. asked[t].at = here /\ UNCHANGED <<user, desk, target, session, mediaLock, report>>
    BY <1>23 DEF Originate, At
  <2>2. TabMoved
    BY <1>13, <1>23, <2>1 DEF Originate
  <2>3. eaves' \in [Legs -> Channels]
    BY <1>1, <1>23 DEF Originate, Channels
  <2>4. UNCHANGED doubts \/ Doubt
    BY <1>23 DEF Originate
  <2>5. Rows /\ Media
    BY <1>1, <1>10, <2>1, <2>3 DEF Media
  <2> QED
    BY <1>12, <2>1, <2>2, <2>4, <2>5 DEF Base
<1>24. \A t \in Tabs : asked[t] \in TabRequests /\ asked[t].leg \in Legs \cup {Nothing}
                       /\ asked[t].old \in Legs \cup {Nothing}
                       /\ asked[t].session \in Sessions \cup {Nothing}
                       /\ asked[t].mode \in Modes
  BY <1>1 DEF TabRequests
<1>25. ASSUME NEW t \in Tabs, StartOriginates(t) PROVE Kept
  BY <1>16, <1>23, <1>24, <1>25, PlacesFollow DEF StartOriginates
<1>26. ASSUME NEW s \in Sessions \cup {Nothing}, NEW l \in Legs \cup {Nothing},
              session' = [session EXCEPT ![s].job = l]
       PROVE  Rows
  <2>1. CASE s \in Sessions
    <3>1. PICK x : x = [session[s] EXCEPT !.job = l]
      OBVIOUS
    <3>2. session[s] \in SessionRows
      BY <1>1, <2>1
    <3>3. x \in SessionRows /\ x.state = session[s].state /\ x.leg = session[s].leg
      BY <3>1, <3>2 DEF SessionRows
    <3>4. session' = [session EXCEPT ![s] = x]
      BY <1>26, <3>1
    <3> QED
      BY <1>1, <1>2, <2>1, <3>3, <3>4, RowChanges DEF Rows
  <2>2. CASE s \notin Sessions
    <3>1. session' = session
      BY <1>1, <1>26, <2>2
    <3> QED
      BY <3>1, <1>10
  <2> QED
    BY <2>1, <2>2
<1>27. ASSUME NEW s \in Sessions \cup {Nothing}, NEW st \in {"failed", "ended"},
              session' = [session EXCEPT ![s].state = st]
       PROVE  Rows
  <2>1. CASE s \in Sessions
    <3>1. PICK x : x = [session[s] EXCEPT !.state = st]
      OBVIOUS
    <3>2. session[s] \in SessionRows
      BY <1>1, <2>1
    <3>3. x \in SessionRows /\ x.state = st
      BY <3>1, <3>2, <1>27 DEF SessionRows
    <3>4. x.state \notin LiveStates
      BY <3>3, <1>27 DEF LiveStates
    <3>5. session' = [session EXCEPT ![s] = x]
      BY <1>27, <3>1
    <3> QED
      BY <1>1, <1>2, <2>1, <3>3, <3>4, <3>5, RowChanges DEF Rows
  <2>2. CASE s \notin Sessions
    <3>1. session' = session
      BY <1>1, <1>27, <2>2
    <3> QED
      BY <3>1, <1>10
  <2> QED
    BY <2>1, <2>2
<1>28. ASSUME NEW t \in Tabs, StartStoresJob(t) PROVE Kept
  <2>1. TabMoved
    BY <1>13, <1>14, <1>16, <1>28, PlacesFollow DEF StartStoresJob, At
  <2>2. Rows
    BY <1>10, <1>24, <1>26, <1>28 DEF StartStoresJob
  <2> QED
    BY <1>11, <1>12, <1>28, <2>1, <2>2 DEF StartStoresJob, Base
<1>29. ASSUME NEW t \in Tabs, StartFails(t) PROVE Kept
  <2>1. TabMoved
    BY <1>14, <1>29 DEF StartFails
  <2>2. Rows
    BY <1>24, <1>27, <1>29 DEF StartFails
  <2> QED
    BY <1>11, <1>12, <1>29, <2>1, <2>2 DEF StartFails, Base
<1>30. ASSUME NEW t \in Tabs, NEW first \in {"modeRead", "stopRead"}, TakeLock(t, first) PROVE Kept
  <2>1. PICK s \in Sessions, m \in Modes :
          asked' = [asked EXCEPT ![t] = [Idle EXCEPT !.at = first, !.session = s, !.mode = m]]
    BY <1>30 DEF TakeLock
  <2>2. PICK a : a = [Idle EXCEPT !.at = first, !.session = s, !.mode = m]
    OBVIOUS
  <2>3. a \in TabRequests /\ a.at = first /\ a.session = s
    BY <2>2, <1>8 DEF TabRequests, Places
  <2>5. Named(a)
    BY <2>3, PlacesAre DEF Named
  <2>4. TabMoved
    BY <1>1, <1>2, <1>30, <2>1, <2>2, <2>3, <2>5, TabChanges DEF TabMoved, TakeLock
  <2> QED
    BY <1>10, <1>11, <1>12, <1>30, <2>4 DEF TakeLock, Base
<1>31. ASSUME NEW t \in Tabs, ChangeMode(t) \/ StopSession(t) PROVE Kept
  BY <1>30, <1>31 DEF ChangeMode, StopSession
<1>32. ASSUME NEW t \in Tabs, ModeReads(t) PROVE Kept
  <2>1. asked[t].at = "modeRead" /\ asked[t].at \in LockedAt
    BY <1>32 DEF ModeReads, At, LockedAt
  <2>2. TabMoved
    <3>1. CASE ReleaseLock(t)
      BY <3>1, <2>1, <1>15
    <3>2. CASE ~ReleaseLock(t)
      <4>1. UNCHANGED mediaLock
        BY <1>32, <3>2 DEF ModeReads
      <4>2. PICK l \in FreshLegs :
              asked' = [asked EXCEPT ![t].at = "modeProbe",
                         ![t].old = session[asked[t].session].leg, ![t].leg = l]
        BY <1>32, <3>2 DEF ModeReads
      <4>3. PICK a : a = [asked[t] EXCEPT !.at = "modeProbe",
                           !.old = session[asked[t].session].leg, !.leg = l]
        OBVIOUS
      <4>4. asked[t].session \in Sessions /\ mediaLock = t
        BY <1>2, <2>1 DEF LockInv, Named
      <4>5. session[asked[t].session].state = "active"
        BY <1>32, <3>2 DEF ModeReads
      <4>6. session[asked[t].session].leg \in Legs
        BY <1>2, <4>4, <4>5 DEF LiveRowsAreNamed, Live, LiveStates
      <4>7. a \in TabRequests /\ a.at = "modeProbe" /\ a.session = asked[t].session
            /\ a.leg \in Legs /\ a.old \in Legs
        BY <1>1, <4>2, <4>3, <4>6 DEF TabRequests, FreshLegs, Places
      <4>8. asked' = [asked EXCEPT ![t] = a]
        BY <1>1, <4>2, <4>3 DEF TabRequests
      <4>9. Named(a)
        BY <4>4, <4>7 DEF Named
      <4> QED
        BY <1>1, <1>2, <4>1, <4>4, <4>7, <4>8, <4>9, TabChanges DEF TabMoved
    <3> QED
      BY <3>1, <3>2
  <2> QED
    BY <1>10, <1>11, <1>12, <1>32, <2>2 DEF ModeReads, Base
<1>33. ASSUME NEW t \in Tabs, ModeProbes(t) PROVE Kept
  <2>1. asked[t].at = "modeProbe" /\ asked[t].at \in LockedAt
    BY <1>33 DEF ModeProbes, At, LockedAt
  <2>2. TabMoved
    BY <2>1, <1>13, <1>15, <1>33, PlacesFollow DEF ModeProbes, Places
  <2> QED
    BY <1>10, <1>11, <1>12, <1>33, <2>2 DEF ModeProbes, Base
<1>34. ASSUME NEW t \in Tabs, ModeKills(t) PROVE Kept
  <2>1. asked[t].at = "modeKill" /\ asked[t].at \in LockedAt /\ asked[t].at \in OldLegAt
    BY <1>34 DEF ModeKills, At, LockedAt, OldLegAt
  <2>3. TabMoved
    BY <2>1, <1>13, <1>15, <1>34, PlacesFollow DEF ModeKills, Places
  <2>4. asked[t].old \in Legs
    BY <1>2, <2>1 DEF LockInv, Named
  <2>5. (HasRow(asked[t].old) /\ Killed(asked[t].old)) \/ UNCHANGED <<eaves, report>>
    BY <1>34 DEF ModeKills
  <2>6. Media
    BY <1>7, <2>4, <2>5 DEF Media
  <2>7. UNCHANGED <<user, desk, target, session>> /\ (UNCHANGED doubts \/ Doubt)
    BY <1>34 DEF ModeKills
  <2> QED
    BY <1>10, <1>12, <2>3, <2>6, <2>7 DEF Base
<1>35. ASSUME NEW t \in Tabs, ModeUpdates(t) PROVE Kept
  <2>1. /\ asked[t].at = "modeUpdate" /\ asked[t].at \in LockedAt /\ asked[t].at \in NewLegAt
        /\ UNCHANGED <<user, desk, target, eaves, report, doubts>>
    BY <1>35 DEF ModeUpdates, At, LockedAt, NewLegAt
  <2>2. asked[t].session \in Sessions /\ asked[t].leg \in Legs /\ asked[t].mode \in Modes
    BY <1>2, <1>24, <2>1 DEF LockInv, Named
  <2>3. TabMoved
    BY <2>1, <1>13, <1>15, <1>35, PlacesFollow DEF ModeUpdates, Places
  <2>4. Rows
    <3>1. CASE UNCHANGED session
      BY <3>1, <1>10
    <3>2. CASE ~UNCHANGED session
      <4>1. PICK x : x = [state |-> "connecting", mode |-> asked[t].mode,
                          leg |-> asked[t].leg, job |-> Nothing]
        OBVIOUS
      <4>2. session[asked[t].session].state = "active"
            /\ session' = [session EXCEPT ![asked[t].session] = x]
        BY <1>35, <3>2, <4>1 DEF ModeUpdates
      <4>3. x \in SessionRows /\ x.leg \in Legs
        BY <2>2, <4>1 DEF SessionRows, LiveStates
      <4> QED
        BY <1>1, <1>2, <2>2, <4>2, <4>3, RowChanges DEF Rows, LiveStates
    <3> QED
      BY <3>1, <3>2
  <2> QED
    BY <1>11, <1>12, <2>1, <2>3, <2>4 DEF Base
<1>36. ASSUME NEW t \in Tabs, ModeOriginates(t) PROVE Kept
  BY <1>23, <1>24, <1>36, PlacesFollow DEF ModeOriginates, Places
<1>37. ASSUME NEW t \in Tabs, ModeStoresJob(t) PROVE Kept
  <2>1. asked[t].at = "modeStore" /\ asked[t].at \in LockedAt
        /\ UNCHANGED <<user, desk, target, eaves, report>> /\ (UNCHANGED doubts \/ Doubt)
    BY <1>37 DEF ModeStoresJob, At, LockedAt
  <2>2. TabMoved
    BY <2>1, <1>13, <1>15, <1>37, PlacesFollow DEF ModeStoresJob, Places
  <2>3. UNCHANGED session \/ session' = [session EXCEPT ![asked[t].session].job = asked[t].leg]
    BY <1>37 DEF ModeStoresJob
  <2>4. Rows
    BY <1>10, <1>24, <1>26, <2>3
  <2> QED
    BY <1>11, <1>12, <2>1, <2>2, <2>4 DEF Base
<1>38. ASSUME NEW t \in Tabs, ModeFails(t) PROVE Kept
  <2>1. asked[t].at = "modeFail" /\ asked[t].at \in LockedAt
        /\ UNCHANGED <<user, desk, target, eaves, report, doubts>>
    BY <1>38 DEF ModeFails, At, LockedAt
  <2>2. TabMoved
    BY <2>1, <1>15, <1>38 DEF ModeFails
  <2>3. UNCHANGED session \/ session' = [session EXCEPT ![asked[t].session].state = "failed"]
    BY <1>38 DEF ModeFails
  <2>4. Rows
    BY <1>10, <1>24, <1>27, <2>3
  <2> QED
    BY <1>11, <1>12, <2>1, <2>2, <2>4 DEF Base
<1>39. ASSUME NEW t \in Tabs, StopReads(t) PROVE Kept
  <2>1. asked[t].at = "stopRead" /\ asked[t].at \in LockedAt
    BY <1>39 DEF StopReads, At, LockedAt
  <2>2. TabMoved
    <3>1. CASE ReleaseLock(t)
      BY <3>1, <2>1, <1>15
    <3>2. CASE ~ReleaseLock(t)
      <4>1. UNCHANGED mediaLock /\ session[asked[t].session].state \in LiveStates
            /\ asked' = [asked EXCEPT ![t].at = "stopKill",
                          ![t].old = session[asked[t].session].leg,
                          ![t].seen = session[asked[t].session].state]
        BY <1>39, <3>2 DEF StopReads
      <4>2. PICK a : a = [asked[t] EXCEPT !.at = "stopKill",
                           !.old = session[asked[t].session].leg,
                           !.seen = session[asked[t].session].state]
        OBVIOUS
      <4>3. asked[t].session \in Sessions /\ mediaLock = t
        BY <1>2, <2>1 DEF LockInv, Named
      <4>4. session[asked[t].session].leg \in Legs
        BY <1>2, <4>1, <4>3 DEF LiveRowsAreNamed, Live
      <4>5. a \in TabRequests /\ a.at = "stopKill" /\ a.session = asked[t].session
            /\ a.old \in Legs
        BY ZenonT(60), <1>1, <4>1, <4>2, <4>4 DEF TabRequests, Places
      <4>6. asked' = [asked EXCEPT ![t] = a]
        BY <1>1, <4>1, <4>2 DEF TabRequests
      <4>7. Named(a)
        BY <4>3, <4>5, PlacesAre DEF Named
      <4> QED
        BY <1>1, <1>2, <4>1, <4>3, <4>5, <4>6, <4>7, TabChanges DEF TabMoved
    <3> QED
      BY <3>1, <3>2
  <2> QED
    BY <1>10, <1>11, <1>12, <1>39, <2>2 DEF StopReads, Base
<1>40. ASSUME NEW t \in Tabs, StopKills(t) PROVE Kept
  <2>1. asked[t].at = "stopKill" /\ asked[t].at \in LockedAt /\ asked[t].at \in OldLegAt
    BY <1>40 DEF StopKills, At, LockedAt, OldLegAt
  <2>2. ReleaseLock(t) \/ (Goto(t, "stopUpdate") /\ UNCHANGED mediaLock)
    BY <1>40 DEF StopKills
  <2>3. TabMoved
    BY <2>1, <2>2, <1>13, <1>15, PlacesFollow DEF Places
  <2>4. asked[t].old \in Legs
    BY <1>2, <2>1 DEF LockInv, Named
  <2>5. (HasRow(asked[t].old) /\ Killed(asked[t].old)) \/ UNCHANGED <<eaves, report>>
    BY <1>40 DEF StopKills
  <2>6. Media
    BY <1>7, <2>4, <2>5 DEF Media
  <2>7. UNCHANGED <<user, desk, target, session>> /\ (UNCHANGED doubts \/ Doubt)
    BY <1>40 DEF StopKills
  <2> QED
    BY <1>10, <1>12, <2>3, <2>6, <2>7 DEF Base
<1>41. ASSUME NEW t \in Tabs, StopUpdates(t) PROVE Kept
  <2>1. asked[t].at = "stopUpdate" /\ asked[t].at \in LockedAt
        /\ UNCHANGED <<user, desk, target, eaves, report, doubts>>
    BY <1>41 DEF StopUpdates, At, LockedAt
  <2>2. TabMoved
    BY <2>1, <1>15, <1>41 DEF StopUpdates
  <2>3. UNCHANGED session \/ session' = [session EXCEPT ![asked[t].session].state = "ended"]
    BY <1>41 DEF StopUpdates
  <2>4. Rows
    BY <1>10, <1>24, <1>27, <2>3
  <2> QED
    BY <1>11, <1>12, <2>1, <2>2, <2>4 DEF Base
\* The media lock's other holders: none of them acts while the user monitors.
<1>42. ASSUME StartOwnCall \/ OwnCallEnds \/ Deactivate \/ RemoveAdmin PROVE Kept
  <2>1. UNCHANGED <<target, session, mediaLock, asked, eaves, report, doubts>>
    BY <1>42 DEF StartOwnCall, OwnCallEnds, Deactivate, RemoveAdmin
  <2>2. user' \in [active : BOOLEAN, admin : BOOLEAN] /\ desk' \in BOOLEAN
    BY <1>1, <1>42 DEF StartOwnCall, OwnCallEnds, Deactivate, RemoveAdmin
  <2>3. Monitoring => user'.active /\ user'.admin /\ ~desk'
    BY <1>1, <1>2, <1>42 DEF StartOwnCall, OwnCallEnds, Deactivate, RemoveAdmin, OneMediaRole
  <2>4. \A s \in Sessions : Live(s)' <=> Live(s)
    BY <2>1 DEF Live
  <2>5. OneMediaRole'
    BY <1>2, <2>3, <2>4 DEF OneMediaRole, Monitoring
  <2> QED
    BY <1>1, <1>3, <1>5, <2>1, <2>2, <2>5
<1>43. ASSUME NEW l \in Legs,
              ChannelRings(l) \/ JobFails(l) \/ ChannelAnswers(l) \/ ChannelEnds(l)
       PROVE  Kept
  <2>1. UNCHANGED <<user, desk, target, session, mediaLock, asked, doubts>>
    BY <1>43 DEF ChannelRings, JobFails, ChannelAnswers, ChannelEnds
  <2>2. Media
    BY <1>1, <1>6, <1>43 DEF ChannelRings, JobFails, ChannelAnswers, ChannelEnds, Killed,
       Media, Channels
  <2>3. TabMoved
    BY <1>1, <1>5, <2>1 DEF TabMoved
  <2> QED
    BY <1>10, <1>12, <2>1, <2>2, <2>3 DEF Base
<1>44. ASSUME TargetHangsUp \/ TargetIsFinalized PROVE Kept
  <2>1. UNCHANGED <<user, desk, session, mediaLock, asked, eaves, report, doubts>>
        /\ target' \in [open : BOOLEAN, up : BOOLEAN]
    BY <1>1, <1>44 DEF TargetHangsUp, TargetIsFinalized
  <2>2. OneMediaRole'
    BY <1>2, <2>1, RolesStay DEF Live
  <2> QED
    BY <1>1, <1>3, <1>5, <2>1, <2>2
<1>45. ASSUME PersistReport PROVE Kept
  <2>1. /\ report # << >>
        /\ session' = [s \in Sessions |-> Reported(session[s], Head(report))]
        /\ report' = Tail(report)
        /\ UNCHANGED <<user, desk, target, mediaLock, asked, eaves, doubts>>
    BY <1>45 DEF PersistReport
  <2>2. Head(report) \in Reports /\ report' \in Seq(Reports)
    BY <1>1, <2>1, HeadTailProperties
  <2>3. PICK e : e = Head(report)
    OBVIOUS
  <2>4. \A s \in Sessions : session'[s] = Reported(session[s], e)
    BY <2>1, <2>3
  <2>5. session' \in [Sessions -> SessionRows]
    BY <1>1, <2>1, <2>2, ReportedRow
  <2>6. \A s \in Sessions : session'[s].leg = session[s].leg /\ (Live(s)' => Live(s))
    BY <1>1, <2>2, <2>3, <2>4, ReportedRow DEF Live
  <2>7. LiveRowsAreNamed'
    BY <1>2, <2>6 DEF LiveRowsAreNamed
  <2>8. Rows /\ Media /\ TabMoved
    BY <1>1, <1>5, <2>1, <2>2, <2>5, <2>6, <2>7 DEF Rows, Media, TabMoved
  <2> QED
    BY <1>12, <2>1, <2>8 DEF Base
<1>46. ASSUME ReportsLost PROVE Kept
  <2>1. Media /\ TabMoved
    BY <1>1, <1>5, <1>46, EmptySeq DEF ReportsLost, Media, TabMoved
  <2> QED
    BY <1>10, <1>12, <1>46, <2>1 DEF ReportsLost, Base
<1>47. ASSUME SupervisorCrash PROVE Kept
  <2>1. asked' = [t \in Tabs |-> Idle] /\ mediaLock' = Nothing /\ report' = << >>
        /\ UNCHANGED <<user, desk, target, session, eaves>> /\ Doubt
    BY <1>47 DEF SupervisorCrash
  <2>2. LockInv'
    BY <2>1, IdleIsARequest, PlacesAre DEF LockInv, Named
  <2>3. Media /\ TabMoved
    BY <1>1, <1>8, <2>1, <2>2, EmptySeq DEF Media, TabMoved
  <2> QED
    BY <1>10, <1>12, <2>1, <2>3 DEF Base
<1>48. CASE UNCHANGED supervisorVars
  <2>1. OneMediaRole'
    BY <1>2, <1>48, RolesStay DEF Live, supervisorVars
  <2> QED
    BY <1>1, <1>3, <1>5, <1>48, <2>1 DEF supervisorVars
<1>49. ASSUME NEW t \in Tabs, TabStep(t) PROVE Kept
  BY <1>49, <1>20, <1>21, <1>22, <1>25, <1>28, <1>29, <1>31, <1>32, <1>33, <1>34, <1>35, <1>36,
     <1>37, <1>38, <1>39, <1>40, <1>41 DEF TabStep
<1>50. CASE SupervisorNext
  BY <1>50, <1>49, <1>42, <1>43, <1>44, <1>45, <1>46, <1>47 DEF SupervisorNext
<1> QED
  BY <1>48, <1>50

Settled == {"answered", "gone"}
Heard == Alive \cup {"pending"}

\* What a request knows of the rows and channels it found, for as long as no
\* answer was missed: a new leg is unused until it is originated; the leg a
\* change of mode or a stop replaces had its channel, and is gone when the row
\* is written.
RequestKnows(a, rows, chan) ==
  /\ a.at \in {"probe", "insert", "modeProbe", "modeKill", "modeUpdate"} =>
       chan[a.leg] = "none" /\ \A s \in Sessions : rows[s].leg # a.leg
  /\ a.at \in {"startOriginate", "modeOriginate"} =>
       /\ a.session \in Sessions /\ chan[a.leg] = "none"
       /\ rows[a.session].leg = a.leg /\ rows[a.session].state = "connecting"
  /\ a.at = "startStore" =>
       /\ a.session \in Sessions /\ rows[a.session].state # "none"
       /\ rows[a.session].leg = a.leg \/ chan[a.leg] \in Settled
  /\ a.at \in {"modeProbe", "modeKill", "modeUpdate"} =>
       rows[a.session].leg = a.old /\ chan[a.old] \in Settled
  /\ a.at = "modeUpdate" => chan[a.old] = "gone"
  /\ a.at = "stopKill" => a.seen \in LiveStates /\ (a.seen = "active" => chan[a.old] \in Settled)
  /\ a.at = "stopUpdate" => chan[a.old] = "gone"
  /\ a.at \notin {"startFail", "modeFail"}

\* An active session had its channel; a job is that of the session's leg, or
\* of one that had its channel and so can no longer fail.
RowKnows(row, chan) ==
  /\ row.state = "active" => chan[row.leg] \in Settled
  /\ row.job # Nothing => row.leg = row.job \/ chan[row.job] \in Settled

EventKnows(e, chan) ==
  /\ e.what = "answer" => chan[e.leg] \in Settled
  /\ e.what = "hangup" => chan[e.leg] = "gone"
  /\ e.what = "jobFailed" => chan[e.leg] = "failed"

ChannelsInv ==
  /\ \A t \in Tabs : RequestKnows(asked[t], session, eaves)
  /\ \A s \in Sessions : RowKnows(session[s], eaves)
  /\ \A i \in 1 .. Len(report) : EventKnows(report[i], eaves)
  /\ \A t, u \in Tabs : t # u => asked[t].leg = Nothing \/ asked[t].leg # asked[u].leg
  /\ \A l \in Legs : eaves[l] \in Heard => \E s \in Sessions : Live(s) /\ session[s].leg = l

\* A channel that goes on, but is not begun.
Forward(x, y) ==
  /\ x = "none" => y = "none"
  /\ x \in Settled => y \in Settled
  /\ x = "gone" => y = "gone"
  /\ x = "failed" => y = "failed"
  /\ y \in Heard => x \in Heard

LEMMA RequestsFollowChannels ==
  ASSUME NEW chan, NEW chan2, \A l \in Legs : Forward(chan[l], chan2[l]),
         NEW rows, NEW a, Named(a), RequestKnows(a, rows, chan)
  PROVE  RequestKnows(a, rows, chan2)
<1>1. a.at \in NewLegAt => Forward(chan[a.leg], chan2[a.leg])
  BY DEF Named
<1>2. a.at \in OldLegAt => Forward(chan[a.old], chan2[a.old])
  BY DEF Named
<1> QED
  BY <1>1, <1>2 DEF RequestKnows, NewLegAt, OldLegAt, Forward

LEMMA RowsFollowChannels ==
  ASSUME NEW chan, NEW chan2, \A l \in Legs : Forward(chan[l], chan2[l]),
         NEW row \in SessionRows, row.state = "active" => row.leg \in Legs,
         RowKnows(row, chan)
  PROVE  RowKnows(row, chan2)
<1>1. row.job \in Legs \cup {Nothing}
  BY DEF SessionRows
<1>2. row.job # Nothing => Forward(chan[row.job], chan2[row.job])
  BY <1>1
<1>3. row.state = "active" => Forward(chan[row.leg], chan2[row.leg])
  OBVIOUS
<1> QED
  BY <1>2, <1>3 DEF RowKnows, Forward

LEMMA EventsFollowChannels ==
  ASSUME NEW chan, NEW chan2, \A l \in Legs : Forward(chan[l], chan2[l]),
         NEW e \in Reports, EventKnows(e, chan)
  PROVE  EventKnows(e, chan2)
<1>1. e.leg \in Legs
  BY DEF Reports
<1>2. Forward(chan[e.leg], chan2[e.leg])
  BY <1>1
<1> QED
  BY <1>2 DEF EventKnows, Forward

\* Rows that keep their legs, stay rows, and stay connecting while their
\* channel has not begun.
LEMMA RequestsFollowRows ==
  ASSUME NEW chan, NEW rows, NEW rows2,
         \A s \in Sessions :
           /\ rows2[s].leg = rows[s].leg
           /\ rows[s].state # "none" => rows2[s].state # "none"
           /\ rows[s].state = "connecting" /\ chan[rows[s].leg] = "none"
              => rows2[s].state = "connecting",
         NEW a, Named(a), RequestKnows(a, rows, chan)
  PROVE  RequestKnows(a, rows2, chan)
<1>1. a.at \in {"modeProbe", "modeKill", "modeUpdate"} => a.session \in Sessions
  BY DEF Named, LockedAt
<1> QED
  BY <1>1 DEF RequestKnows

\* Only t changes, and what it changes is as the invariant asks.
LEMMA ChannelsKept ==
  ASSUME ChannelsInv, NEW t \in Tabs,
         \A u \in Tabs : u # t => asked'[u] = asked[u],
         \A u \in Tabs : u # t => RequestKnows(asked[u], session', eaves'),
         RequestKnows(asked'[t], session', eaves'),
         \/ asked'[t].leg \in {Nothing, asked[t].leg}
         \/ \A u \in Tabs : asked[u].leg # asked'[t].leg,
         \A s \in Sessions : RowKnows(session'[s], eaves'),
         \A i \in 1 .. Len(report') : EventKnows(report'[i], eaves'),
         \A l \in Legs : eaves'[l] \in Heard =>
            \E s \in Sessions : session'[s].state \in LiveStates /\ session'[s].leg = l
  PROVE  ChannelsInv'
<1>1. \A u \in Tabs : RequestKnows(asked'[u], session', eaves')
  OBVIOUS
<1>2. \A u, v \in Tabs : u # v => asked'[u].leg = Nothing \/ asked'[u].leg # asked'[v].leg
  <2> SUFFICES ASSUME NEW u \in Tabs, NEW v \in Tabs, u # v
               PROVE  asked'[u].leg = Nothing \/ asked'[u].leg # asked'[v].leg
    OBVIOUS
  <2>1. /\ asked[u].leg = Nothing \/ asked[u].leg # asked[v].leg
        /\ asked[v].leg = Nothing \/ asked[u].leg # asked[v].leg
    BY DEF ChannelsInv
  <2>2. (u # t => asked'[u] = asked[u]) /\ (v # t => asked'[v] = asked[v])
    OBVIOUS
  <2> QED
    BY <2>1, <2>2
<1>3. \A l \in Legs : eaves'[l] \in Heard =>
        \E s \in Sessions : Live(s)' /\ session'[s].leg = l
  BY DEF Live
<1> QED
  BY <1>1, <1>2, <1>3 DEF ChannelsInv

LEMMA ChannelsBegin == SupervisorInit => ChannelsInv
<1> SUFFICES ASSUME SupervisorInit PROVE ChannelsInv
  OBVIOUS
<1>1. NoSession.state = "none" /\ NoSession.job = Nothing
  BY DEF NoSession
<1>2. \A t \in Tabs : RequestKnows(asked[t], session, eaves)
  BY IdleIsARequest DEF SupervisorInit, RequestKnows
<1>3. \A s \in Sessions : RowKnows(session[s], eaves)
  BY <1>1 DEF SupervisorInit, RowKnows
<1>4. Len(report) = 0
  BY EmptySeq DEF SupervisorInit
<1>5. \A t \in Tabs : asked[t].leg = Nothing
  BY IdleIsARequest DEF SupervisorInit
<1>6. \A l \in Legs : eaves[l] \notin Heard
  BY DEF SupervisorInit, Heard, Alive
<1> QED
  BY <1>2, <1>3, <1>4, <1>5, <1>6 DEF ChannelsInv

LEMMA ChannelsStep ==
  SupervisorBase /\ SupervisorBase' /\ ChannelsInv /\ doubts = 0 /\ doubts' = 0
  /\ [SupervisorNext]_supervisorVars => ChannelsInv'
<1> SUFFICES ASSUME SupervisorBase, SupervisorBase', ChannelsInv, doubts = 0, doubts' = 0,
                    [SupervisorNext]_supervisorVars
             PROVE  ChannelsInv'
  OBVIOUS
<1>1. /\ session \in [Sessions -> SessionRows]
      /\ asked \in [Tabs -> TabRequests]
      /\ eaves \in [Legs -> Channels]
      /\ report \in Seq(Reports)
  BY SupervisorTypes DEF SupervisorBase
<1>2. /\ session' \in [Sessions -> SessionRows]
      /\ asked' \in [Tabs -> TabRequests]
      /\ eaves' \in [Legs -> Channels]
      /\ report' \in Seq(Reports)
  BY DEF SupervisorBase, SupervisorTypeOK, SessionRows, TabRequests, Channels, Reports
<1>3. /\ LockInv
      /\ \A t \in Tabs : Named(asked[t])
      /\ \A t \in Tabs : Named(asked'[t])
      /\ \A s \in Sessions : Live(s) => session[s].leg \in Legs
      /\ mediaLock \in Tabs \cup {Nothing}
  BY DEF SupervisorBase, LockInv, LiveRowsAreNamed, Named, SupervisorTypeOK
<1>4. ~Doubt
  BY DEF Doubt
<1>5. /\ \A t \in Tabs : RequestKnows(asked[t], session, eaves)
      /\ \A s \in Sessions : RowKnows(session[s], eaves)
      /\ \A i \in 1 .. Len(report) : EventKnows(report[i], eaves)
      /\ \A l \in Legs : eaves[l] \in Heard =>
            \E s \in Sessions : session[s].state \in LiveStates /\ session[s].leg = l
  BY DEF ChannelsInv, Live
<1>6. \A s \in Sessions : session[s].state = "active" => session[s].leg \in Legs
  BY <1>3 DEF Live, LiveStates
\* A tab moves, and nothing else.
<1>7. ASSUME NEW t \in Tabs, UNCHANGED <<session, eaves, report>>,
             \A u \in Tabs : u # t => asked'[u] = asked[u],
             RequestKnows(asked'[t], session, eaves),
             \/ asked'[t].leg \in {Nothing, asked[t].leg}
             \/ \A u \in Tabs : asked[u].leg # asked'[t].leg
      PROVE  ChannelsInv'
  BY <1>5, <1>7, ChannelsKept
<1>8. \A rows, chan : RequestKnows(Idle, rows, chan)
  BY IdleIsARequest DEF RequestKnows
<1>9. ASSUME NEW t \in Tabs, NEW a, asked' = [asked EXCEPT ![t] = a]
      PROVE  asked'[t] = a /\ \A u \in Tabs : u # t => asked'[u] = asked[u]
  BY <1>1, <1>9
<1>10. ASSUME NEW t \in Tabs, NEW place, Goto(t, place)
       PROVE  /\ asked'[t].at = place /\ asked'[t].session = asked[t].session
              /\ asked'[t].leg = asked[t].leg /\ asked'[t].old = asked[t].old
              /\ asked'[t].mode = asked[t].mode /\ asked'[t].seen = asked[t].seen
              /\ \A u \in Tabs : u # t => asked'[u] = asked[u]
  <2>1. PICK a : a = [asked[t] EXCEPT !.at = place]
    OBVIOUS
  <2>2. asked[t] \in TabRequests
    BY <1>1
  <2>3. a.at = place /\ a.session = asked[t].session /\ a.leg = asked[t].leg
        /\ a.old = asked[t].old /\ a.mode = asked[t].mode /\ a.seen = asked[t].seen
    BY <2>1, <2>2 DEF TabRequests
  <2>4. asked' = [asked EXCEPT ![t] = a]
    BY <1>10, <2>1 DEF Goto
  <2> QED
    BY <2>3, <2>4, <1>9
<1>11. ASSUME NEW t \in Tabs, Leave(t)
       PROVE  /\ asked'[t] = Idle /\ Idle.leg = Nothing
              /\ \A u \in Tabs : u # t => asked'[u] = asked[u]
  BY <1>9, <1>11, IdleIsARequest DEF Leave
<1>12. ASSUME NEW t \in Tabs, Leave(t), UNCHANGED <<session, eaves, report>>
       PROVE  ChannelsInv'
  BY <1>7, <1>8, <1>11, <1>12
<1>13. ASSUME NEW l \in FreshLegs
       PROVE  /\ l \in Legs /\ eaves[l] = "none"
              /\ \A s \in Sessions : session[s].leg # l
              /\ \A t \in Tabs : asked[t].leg # l
  BY <1>13 DEF FreshLegs
<1>14. ASSUME NEW t \in Tabs, NEW to \in {"insert", "modeKill"}, Goto(t, to),
              UNCHANGED <<session, eaves, report>>,
              asked[t].at = IF to = "insert" THEN "probe" ELSE "modeProbe"
       PROVE  ChannelsInv'
  <2>1. asked'[t].at = to /\ asked'[t].session = asked[t].session
        /\ asked'[t].leg = asked[t].leg /\ asked'[t].old = asked[t].old
        /\ \A u \in Tabs : u # t => asked'[u] = asked[u]
    BY <1>10, <1>14
  <2>2. RequestKnows(asked[t], session, eaves)
    BY <1>5
  <2>3. RequestKnows(asked'[t], session, eaves)
    BY <2>1, <2>2, <1>14 DEF RequestKnows
  <2> QED
    BY <1>7, <1>14, <2>1, <2>3
\* Channels go on.
<1>15. ASSUME \A l \in Legs : Forward(eaves[l], eaves'[l])
       PROVE  /\ \A t \in Tabs : RequestKnows(asked[t], session, eaves')
              /\ \A s \in Sessions : RowKnows(session[s], eaves')
              /\ \A i \in 1 .. Len(report) : EventKnows(report[i], eaves')
              /\ \A l \in Legs : eaves'[l] \in Heard => eaves[l] \in Heard
  <2>1. \A t \in Tabs : RequestKnows(asked[t], session, eaves')
    BY <1>3, <1>5, <1>15, RequestsFollowChannels
  <2>2. \A s \in Sessions : RowKnows(session[s], eaves')
    BY <1>1, <1>5, <1>6, <1>15, RowsFollowChannels
  <2>3. \A i \in 1 .. Len(report) : report[i] \in Reports
    BY <1>1, ElementOfSeq
  <2>4. \A i \in 1 .. Len(report) : EventKnows(report[i], eaves')
    BY <2>3, <1>5, <1>15, EventsFollowChannels
  <2>5. \A l \in Legs : eaves'[l] \in Heard => eaves[l] \in Heard
    BY <1>15 DEF Forward
  <2> QED
    BY <2>1, <2>2, <2>4, <2>5
<1>16. ASSUME NEW l \in Legs, NEW to, eaves' = [eaves EXCEPT ![l] = to], Forward(eaves[l], to)
       PROVE  /\ \A k \in Legs : Forward(eaves[k], eaves'[k])
              /\ eaves'[l] = to
  <2>1. eaves'[l] = to /\ \A k \in Legs : k # l => eaves'[k] = eaves[k]
    BY <1>1, <1>16
  <2>2. \A x : Forward(x, x)
    BY DEF Forward
  <2> QED
    BY <2>1, <2>2, <1>16
<1>17. ASSUME NEW e \in Reports, report' = Append(report, e), EventKnows(e, eaves'),
              \A i \in 1 .. Len(report) : EventKnows(report[i], eaves')
       PROVE  \A i \in 1 .. Len(report') : EventKnows(report'[i], eaves')
  <2>1. Len(report) \in Nat /\ Len(report') = Len(report) + 1 /\ report'[Len(report) + 1] = e
        /\ \A i \in 1 .. Len(report) : report'[i] = report[i]
    BY <1>1, <1>17, AppendProperties, LenProperties
  <2> QED
    BY <2>1, <1>17
<1>18. ASSUME NEW l \in Legs, HasRow(l), Killed(l)
       PROVE  /\ \A k \in Legs : Forward(eaves[k], eaves'[k])
              /\ eaves'[l] = "gone"
              /\ \A i \in 1 .. Len(report') : EventKnows(report'[i], eaves')
  <2>1. Forward(eaves[l], "gone")
    BY <1>18 DEF HasRow, Alive, Forward, Settled, Heard
  <2>2. eaves' = [eaves EXCEPT ![l] = "gone"]
    BY <1>18 DEF Killed
  <2>3. (\A k \in Legs : Forward(eaves[k], eaves'[k])) /\ eaves'[l] = "gone"
    BY <2>1, <2>2, <1>16
  <2>4. PICK e : e = [what |-> "hangup", leg |-> l]
    OBVIOUS
  <2>5. e \in Reports /\ EventKnows(e, eaves')
    BY <2>3, <2>4 DEF Reports, EventKnows
  <2>6. report' = Append(report, e)
    BY <1>18, <2>4 DEF Killed
  <2> QED
    BY <1>15, <1>17, <2>3, <2>5, <2>6
\* Rows that follow: nothing but what a request or an event may do to them.
<1>19. ASSUME \A s \in Sessions :
                /\ session'[s].leg = session[s].leg
                /\ session[s].state # "none" => session'[s].state # "none"
                /\ session[s].state = "connecting" /\ eaves[session[s].leg] = "none"
                   => session'[s].state = "connecting"
       PROVE  \A t \in Tabs : RequestKnows(asked[t], session', eaves)
  BY <1>3, <1>5, <1>19, RequestsFollowRows
<1>20. ASSUME NEW t \in Tabs, Start(t) PROVE ChannelsInv'
  <2>1. PICK l \in FreshLegs : asked' = [asked EXCEPT ![t] = [Idle EXCEPT !.at = "probe", !.leg = l]]
    BY <1>20 DEF Start
  <2>2. PICK a : a = [Idle EXCEPT !.at = "probe", !.leg = l]
    OBVIOUS
  <2>3. a.at = "probe" /\ a.leg = l
    BY <2>2, IdleIsARequest DEF TabRequests
  <2>4. asked'[t] = a /\ \A u \in Tabs : u # t => asked'[u] = asked[u]
    BY <2>1, <2>2, <1>9
  <2>5. RequestKnows(a, session, eaves)
    BY <2>3, <1>13 DEF RequestKnows
  <2>6. UNCHANGED <<session, eaves, report>>
    BY <1>20 DEF Start
  <2> QED
    BY <1>7, <1>13, <2>3, <2>4, <2>5, <2>6
<1>21. ASSUME NEW t \in Tabs, StartProbes(t) PROVE ChannelsInv'
  <2>1. asked[t].at = "probe" /\ UNCHANGED <<session, eaves, report>>
        /\ (Goto(t, "insert") \/ Leave(t))
    BY <1>21 DEF StartProbes, At
  <2>2. CASE Goto(t, "insert")
    BY <2>1, <2>2, <1>14
  <2>3. CASE Leave(t)
    BY <2>1, <2>3, <1>12
  <2> QED
    BY <2>1, <2>2, <2>3
<1>22. ASSUME NEW t \in Tabs, StartInserts(t) PROVE ChannelsInv'
  <2>1. CASE Leave(t) /\ UNCHANGED session
    BY <2>1, <1>12, <1>22 DEF StartInserts
  <2>2. CASE ~(Leave(t) /\ UNCHANGED session)
    <3>1. /\ asked[t].at = "insert" /\ mediaLock = Nothing /\ UNCHANGED <<eaves, report>>
      BY <1>22, <2>2 DEF StartInserts, At
    <3>2. PICK s \in UnusedSessions :
            /\ session' = [session EXCEPT ![s] =
                  [state |-> "connecting", mode |-> "listen",
                   leg |-> asked[t].leg, job |-> Nothing]]
            /\ asked' = [asked EXCEPT ![t].at = "startOriginate", ![t].session = s]
      BY <1>22, <2>2 DEF StartInserts
    <3>3. PICK x : x = [state |-> "connecting", mode |-> "listen",
                        leg |-> asked[t].leg, job |-> Nothing]
      OBVIOUS
    <3>4. x.state = "connecting" /\ x.leg = asked[t].leg /\ x.job = Nothing
      BY <3>3
    <3>5. PICK a : a = [asked[t] EXCEPT !.at = "startOriginate", !.session = s]
      OBVIOUS
    <3>6. asked[t] \in TabRequests /\ s \in Sessions /\ session[s].state = "none"
      BY <1>1, <3>2 DEF UnusedSessions
    <3>7. a.at = "startOriginate" /\ a.session = s /\ a.leg = asked[t].leg
      BY <3>5, <3>6 DEF TabRequests
    <3>8. asked' = [asked EXCEPT ![t] = a]
      BY <3>2, <3>5, <3>6, <1>1 DEF TabRequests
    <3>9. asked'[t] = a /\ \A u \in Tabs : u # t => asked'[u] = asked[u]
      BY <3>8, <1>9
    <3>10. session'[s] = x /\ \A r \in Sessions : r # s => session'[r] = session[r]
      BY <1>1, <3>2, <3>3, <3>6
    <3>11. RequestKnows(asked[t], session, eaves)
      BY <1>5
    <3>12. RequestKnows(asked'[t], session', eaves)
      BY <3>1, <3>4, <3>6, <3>7, <3>9, <3>10, <3>11 DEF RequestKnows
    <3>13. \A r \in Sessions : RowKnows(session'[r], eaves)
      <4>1. RowKnows(x, eaves)
        BY <3>4 DEF RowKnows
      <4> QED
        BY <1>5, <3>10, <4>1
    <3>14. ASSUME NEW u \in Tabs, u # t PROVE RequestKnows(asked[u], session', eaves)
      <4>1. RequestKnows(asked[u], session, eaves)
        BY <1>5
      <4>2. asked[u].at \notin LockedAt
        BY <1>3, <3>1, SupervisorAssumption DEF LockInv
      <4>3. asked[u].leg = Nothing \/ asked[u].leg # asked[t].leg
        BY <3>14 DEF ChannelsInv
      <4>4. asked[u].at \in NewLegAt => asked[u].leg # Nothing
        BY <1>3, SupervisorAssumption DEF Named
      <4> QED
        BY <3>4, <3>6, <3>10, <4>1, <4>2, <4>3, <4>4 DEF RequestKnows, LockedAt, NewLegAt
    <3>15. \A l \in Legs : eaves[l] \in Heard =>
             \E r \in Sessions : session'[r].state \in LiveStates /\ session'[r].leg = l
      <4> SUFFICES ASSUME NEW l \in Legs, eaves[l] \in Heard
                   PROVE  \E r \in Sessions : session'[r].state \in LiveStates /\ session'[r].leg = l
        OBVIOUS
      <4>1. PICK r \in Sessions : session[r].state \in LiveStates /\ session[r].leg = l
        BY <1>5
      <4>2. r # s
        BY <4>1, <3>6 DEF LiveStates
      <4> QED
        BY <4>1, <4>2, <3>10
    <3> QED
      BY <1>5, <3>1, <3>7, <3>9, <3>12, <3>13, <3>14, <3>15, ChannelsKept
  <2> QED
    BY <2>1, <2>2
<1>23. ASSUME NEW t \in Tabs, NEW here \in {"startOriginate", "modeOriginate"},
              NEW yes \in {"startStore", "modeStore"},
              NEW no \in {"startFail", "modeFail"}, Originate(t, here, yes, no)
       PROVE  ChannelsInv'
  <2>1. /\ asked[t].at = here /\ eaves' = [eaves EXCEPT ![asked[t].leg] = "pending"]
        /\ Goto(t, yes) /\ UNCHANGED <<session, report>>
    BY <1>4, <1>23 DEF Originate, At
  <2>2. PICK l \in Legs : l = asked[t].leg
    BY <1>3, <1>23, <2>1 DEF Named, NewLegAt
  <2>3. RequestKnows(asked[t], session, eaves)
    BY <1>5
  <2>4. /\ eaves[l] = "none" /\ asked[t].session \in Sessions
        /\ session[asked[t].session].leg = l /\ session[asked[t].session].state = "connecting"
    BY <2>1, <2>2, <2>3, <1>23 DEF RequestKnows
  <2>5. eaves'[l] = "pending" /\ \A k \in Legs : k # l => eaves'[k] = eaves[k]
    BY <1>1, <2>1, <2>2
  <2>6. /\ asked'[t].at = yes /\ asked'[t].session = asked[t].session
        /\ asked'[t].leg = l
        /\ \A u \in Tabs : u # t => asked'[u] = asked[u]
    BY <1>10, <2>1, <2>2
  <2>7. RequestKnows(asked'[t], session, eaves')
    BY <2>4, <2>6, <1>23 DEF RequestKnows
  <2>8. ASSUME NEW u \in Tabs, u # t PROVE RequestKnows(asked[u], session, eaves')
    <3>1. RequestKnows(asked[u], session, eaves)
      BY <1>5
    <3>2. asked[u].at \in NewLegAt => asked[u].leg \in Legs /\ asked[u].leg # l
      BY <1>3, <2>2, <2>8, SupervisorAssumption DEF Named, ChannelsInv
    <3>3. asked[u].at \in OldLegAt => asked[u].old \in Legs
      BY <1>3 DEF Named
    <3> QED
      BY <2>4, <2>5, <3>1, <3>2, <3>3 DEF RequestKnows, NewLegAt, OldLegAt, Settled
  <2>9. ASSUME NEW s \in Sessions PROVE RowKnows(session[s], eaves')
    <3>1. RowKnows(session[s], eaves) /\ session[s] \in SessionRows
      BY <1>1, <1>5
    <3>2. session[s].job \in Legs \cup {Nothing}
      BY <3>1 DEF SessionRows
    <3> QED
      BY <1>6, <2>4, <2>5, <3>1, <3>2 DEF RowKnows, Settled
  <2>10. ASSUME NEW i \in 1 .. Len(report) PROVE EventKnows(report[i], eaves')
    <3>1. report[i] \in Reports /\ EventKnows(report[i], eaves)
      BY <1>1, <1>5, ElementOfSeq
    <3>2. report[i].leg \in Legs /\ report[i].what \in {"answer", "hangup", "jobFailed"}
      BY <3>1 DEF Reports
    <3> QED
      BY <2>4, <2>5, <3>1, <3>2 DEF EventKnows, Settled
  <2>11. \A k \in Legs : eaves'[k] \in Heard =>
           \E s \in Sessions : session[s].state \in LiveStates /\ session[s].leg = k
    BY <1>5, <2>4, <2>5 DEF LiveStates
  <2> QED
    BY <2>1, <2>2, <2>6, <2>7, <2>8, <2>9, <2>10, <2>11, ChannelsKept
<1>24. ASSUME NEW t \in Tabs, StartOriginates(t) \/ ModeOriginates(t) PROVE ChannelsInv'
  <2>1. CASE StartOriginates(t)
    <3>1. Originate(t, "startOriginate", "startStore", "startFail")
      BY <2>1 DEF StartOriginates
    <3> QED
      BY <3>1, <1>23
  <2>2. CASE ModeOriginates(t)
    <3>1. Originate(t, "modeOriginate", "modeStore", "modeFail")
      BY <2>2 DEF ModeOriginates
    <3> QED
      BY <3>1, <1>23
  <2> QED
    BY <1>24, <2>1, <2>2
\* The job of a leg is stored in the row of a session.
<1>25. ASSUME NEW t \in Tabs, NEW s \in Sessions, NEW l \in Legs, Leave(t),
              session' = [session EXCEPT ![s].job = l], UNCHANGED <<eaves, report>>,
              session[s].leg = l \/ eaves[l] \in Settled
       PROVE  ChannelsInv'
  <2>1. PICK x : x = [session[s] EXCEPT !.job = l]
    OBVIOUS
  <2>2. session[s] \in SessionRows
    BY <1>1
  <2>3. x.state = session[s].state /\ x.leg = session[s].leg /\ x.job = l
    BY <2>1, <2>2 DEF SessionRows
  <2>4. session'[s] = x /\ \A r \in Sessions : r # s => session'[r] = session[r]
    BY <1>1, <1>25, <2>1
  <2>5. RowKnows(x, eaves)
    BY <1>5, <1>25, <2>3 DEF RowKnows
  <2>6. \A r \in Sessions : RowKnows(session'[r], eaves)
    BY <1>5, <2>4, <2>5
  <2>7. \A r \in Sessions : session'[r].leg = session[r].leg
                            /\ session'[r].state = session[r].state
    BY <2>3, <2>4
  <2>8. \A u \in Tabs : RequestKnows(asked[u], session', eaves)
    BY <1>19, <2>7
  <2>9. \A k \in Legs : eaves[k] \in Heard =>
           \E r \in Sessions : session'[r].state \in LiveStates /\ session'[r].leg = k
    BY <1>5, <2>7
  <2>10. /\ asked'[t] = Idle /\ asked'[t].leg = Nothing
         /\ \A u \in Tabs : u # t => asked'[u] = asked[u]
    BY <1>11, <1>25
  <2>11. RequestKnows(asked'[t], session', eaves') /\ eaves' = eaves /\ report' = report
    BY <1>8, <1>25, <2>10
  <2> QED
    BY <1>5, <2>6, <2>8, <2>9, <2>10, <2>11, ChannelsKept
<1>26. ASSUME NEW t \in Tabs, StartStoresJob(t) PROVE ChannelsInv'
  <2>1. /\ asked[t].at = "startStore" /\ Leave(t) /\ UNCHANGED <<eaves, report>>
        /\ session' = [session EXCEPT ![asked[t].session].job = asked[t].leg]
    BY <1>4, <1>26 DEF StartStoresJob, At
  <2>2. RequestKnows(asked[t], session, eaves)
    BY <1>5
  <2>3. asked[t].session \in Sessions /\ asked[t].leg \in Legs
        /\ (session[asked[t].session].leg = asked[t].leg \/ eaves[asked[t].leg] \in Settled)
    BY <1>3, <2>1, <2>2 DEF RequestKnows, Named, NewLegAt
  <2> QED
    BY <1>25, <2>1, <2>3
<1>27. ASSUME NEW t \in Tabs, StartFails(t) \/ ModeFails(t) PROVE ChannelsInv'
  <2>1. asked[t].at \in {"startFail", "modeFail"}
    BY <1>27 DEF StartFails, ModeFails, At
  <2> QED
    BY <1>5, <2>1 DEF RequestKnows
<1>28. ASSUME NEW t \in Tabs, ModeStoresJob(t) PROVE ChannelsInv'
  <2>1. /\ asked[t].at = "modeStore" /\ Leave(t) /\ UNCHANGED <<eaves, report>>
    BY <1>4, <1>28 DEF ModeStoresJob, At, ReleaseLock
  <2>2. asked[t].session \in Sessions /\ asked[t].leg \in Legs
    BY <1>3, <2>1 DEF Named, NewLegAt, LockedAt
  <2>3. CASE UNCHANGED session
    BY <2>1, <2>3, <1>12
  <2>4. CASE ~UNCHANGED session
    <3>1. session[asked[t].session].leg = asked[t].leg
          /\ session' = [session EXCEPT ![asked[t].session].job = asked[t].leg]
      BY <1>4, <1>28, <2>4 DEF ModeStoresJob
    <3> QED
      BY <1>25, <2>1, <2>2, <3>1
  <2> QED
    BY <2>3, <2>4
<1>29. ASSUME NEW t \in Tabs, ChangeMode(t) \/ StopSession(t) PROVE ChannelsInv'
  <2>1. PICK first \in {"modeRead", "stopRead"} : TakeLock(t, first)
    BY <1>29 DEF ChangeMode, StopSession
  <2>2. PICK s \in Sessions, m \in Modes :
          asked' = [asked EXCEPT ![t] = [Idle EXCEPT !.at = first, !.session = s, !.mode = m]]
    BY <2>1 DEF TakeLock
  <2>3. PICK a : a = [Idle EXCEPT !.at = first, !.session = s, !.mode = m]
    OBVIOUS
  <2>4. a.at = first /\ a.leg = Nothing
    BY <2>3, IdleIsARequest DEF TabRequests
  <2>5. asked'[t] = a /\ \A u \in Tabs : u # t => asked'[u] = asked[u]
    BY <2>2, <2>3, <1>9
  <2>6. RequestKnows(a, session, eaves)
    BY <2>1, <2>4 DEF RequestKnows
  <2>7. UNCHANGED <<session, eaves, report>>
    BY <2>1 DEF TakeLock
  <2> QED
    BY <1>7, <2>4, <2>5, <2>6, <2>7
<1>30. ASSUME NEW t \in Tabs, ModeReads(t) PROVE ChannelsInv'
  <2>1. asked[t].at = "modeRead" /\ UNCHANGED <<session, eaves, report>>
    BY <1>30 DEF ModeReads, At
  <2>2. CASE ReleaseLock(t)
    BY <2>1, <2>2, <1>12 DEF ReleaseLock
  <2>3. CASE ~ReleaseLock(t)
    <3>1. PICK s \in Sessions : s = asked[t].session
      BY <1>3, <2>1 DEF Named, LockedAt
    <3>2. PICK l \in FreshLegs :
            asked' = [asked EXCEPT ![t].at = "modeProbe",
                       ![t].old = session[asked[t].session].leg, ![t].leg = l]
      BY <1>30, <2>3 DEF ModeReads
    <3>3. PICK a : a = [asked[t] EXCEPT !.at = "modeProbe", !.old = session[s].leg, !.leg = l]
      OBVIOUS
    <3>4. asked[t] \in TabRequests /\ session[s].state = "active"
      BY <1>1, <1>30, <2>3, <3>1 DEF ModeReads
    <3>5. a.at = "modeProbe" /\ a.session = s /\ a.leg = l /\ a.old = session[s].leg
      BY <3>1, <3>3, <3>4 DEF TabRequests
    <3>6. asked' = [asked EXCEPT ![t] = a]
      BY <1>1, <3>1, <3>2, <3>3 DEF TabRequests
    <3>7. asked'[t] = a /\ \A u \in Tabs : u # t => asked'[u] = asked[u]
      BY <3>6, <1>9
    <3>8. RowKnows(session[s], eaves)
      BY <1>5
    <3>9. RequestKnows(a, session, eaves)
      BY <1>13, <3>4, <3>5, <3>8 DEF RequestKnows, RowKnows
    <3> QED
      BY <1>7, <1>13, <2>1, <3>5, <3>7, <3>9
  <2> QED
    BY <2>2, <2>3
<1>31. ASSUME NEW t \in Tabs, ModeProbes(t) PROVE ChannelsInv'
  BY <1>12, <1>14, <1>31 DEF ModeProbes, At, ReleaseLock
\* A channel is killed, or there was none, and the tab goes on to to.
<1>32. ASSUME NEW t \in Tabs, NEW l \in Legs, UNCHANGED session,
              (HasRow(l) /\ Killed(l)) \/ UNCHANGED <<eaves, report>>,
              \A u \in Tabs : u # t => asked'[u] = asked[u],
              asked'[t].leg \in {Nothing, asked[t].leg},
              RequestKnows(asked'[t], session, eaves')
       PROVE  ChannelsInv'
  <2>1. CASE UNCHANGED <<eaves, report>>
    BY <1>7, <1>32, <2>1
  <2>2. CASE HasRow(l) /\ Killed(l)
    <3>1. /\ \A k \in Legs : Forward(eaves[k], eaves'[k])
          /\ \A i \in 1 .. Len(report') : EventKnows(report'[i], eaves')
      BY <2>2, <1>18
    <3>2. /\ \A u \in Tabs : RequestKnows(asked[u], session, eaves')
          /\ \A s \in Sessions : RowKnows(session[s], eaves')
          /\ \A k \in Legs : eaves'[k] \in Heard => eaves[k] \in Heard
      BY <3>1, <1>15
    <3>3. \A k \in Legs : eaves'[k] \in Heard =>
            \E s \in Sessions : session'[s].state \in LiveStates /\ session'[s].leg = k
      BY <1>5, <1>32, <3>2
    <3> QED
      BY <1>32, <3>1, <3>2, <3>3, ChannelsKept
  <2> QED
    BY <1>32, <2>1, <2>2
<1>33. ASSUME NEW t \in Tabs, ModeKills(t) PROVE ChannelsInv'
  <2>1. /\ asked[t].at = "modeKill" /\ UNCHANGED session /\ Goto(t, "modeUpdate")
        /\ IF HasRow(asked[t].old) THEN Killed(asked[t].old) ELSE UNCHANGED <<eaves, report>>
    BY <1>4, <1>33 DEF ModeKills, At
  <2>2. PICK l \in Legs : l = asked[t].old
    BY <1>3, <2>1 DEF Named, OldLegAt
  <2>3. RequestKnows(asked[t], session, eaves) /\ asked[t].leg \in Legs
    BY <1>3, <1>5, <2>1 DEF Named, NewLegAt
  <2>4. eaves[l] \in Settled
    BY <2>1, <2>2, <2>3 DEF RequestKnows
  <2>5. /\ asked'[t].at = "modeUpdate" /\ asked'[t].session = asked[t].session
        /\ asked'[t].leg = asked[t].leg /\ asked'[t].old = l
        /\ \A u \in Tabs : u # t => asked'[u] = asked[u]
    BY <1>10, <2>1, <2>2
  <2>6. eaves'[l] = "gone" /\ \A k \in Legs : Forward(eaves[k], eaves'[k])
    <3>1. CASE HasRow(l)
      BY <1>18, <2>1, <2>2, <3>1
    <3>2. CASE ~HasRow(l)
      BY <2>1, <2>2, <2>4, <3>2 DEF HasRow, Alive, Settled, Forward
    <3> QED
      BY <3>1, <3>2
  <2>7. eaves[asked[t].leg] = "none" => eaves'[asked[t].leg] = "none"
    BY <2>3, <2>6 DEF Forward
  <2>8. RequestKnows(asked'[t], session, eaves')
    BY <2>1, <2>2, <2>3, <2>5, <2>6, <2>7 DEF RequestKnows, Settled
  <2> QED
    BY <1>32, <2>1, <2>2, <2>5, <2>8
<1>34. ASSUME NEW t \in Tabs, ModeUpdates(t) PROVE ChannelsInv'
  <2>1. asked[t].at = "modeUpdate" /\ UNCHANGED <<eaves, report>>
    BY <1>34 DEF ModeUpdates, At
  <2>2. CASE Leave(t) /\ UNCHANGED session
    BY <2>1, <2>2, <1>12
  <2>3. CASE ~(Leave(t) /\ UNCHANGED session)
    <3>1. PICK s \in Sessions : s = asked[t].session
      BY <1>3, <2>1 DEF Named, LockedAt
    <3>2. PICK l \in Legs : l = asked[t].leg
      BY <1>3, <2>1 DEF Named, NewLegAt
    <3>3. PICK x : x = [state |-> "connecting", mode |-> asked[t].mode, leg |-> l, job |-> Nothing]
      OBVIOUS
    <3>4. /\ session[s].state = "active" /\ session' = [session EXCEPT ![s] = x]
          /\ Goto(t, "modeOriginate")
      BY <1>34, <2>3, <3>1, <3>2, <3>3 DEF ModeUpdates, ReleaseLock
    <3>5. x.state = "connecting" /\ x.leg = l /\ x.job = Nothing
      BY <3>3
    <3>6. session'[s] = x /\ \A r \in Sessions : r # s => session'[r] = session[r]
      BY <1>1, <3>4
    <3>7. /\ asked'[t].at = "modeOriginate" /\ asked'[t].session = s
          /\ asked'[t].leg = l
          /\ \A u \in Tabs : u # t => asked'[u] = asked[u]
      BY <1>10, <3>1, <3>2, <3>4
    <3>8. RequestKnows(asked[t], session, eaves)
      BY <1>5
    <3>9. /\ eaves[l] = "none" /\ (\A r \in Sessions : session[r].leg # l)
          /\ eaves[session[s].leg] = "gone"
      BY <2>1, <3>1, <3>2, <3>8 DEF RequestKnows
    <3>10. RequestKnows(asked'[t], session', eaves)
      BY <3>5, <3>6, <3>7, <3>9 DEF RequestKnows
    <3>11. ASSUME NEW u \in Tabs, u # t PROVE RequestKnows(asked[u], session', eaves)
      <4>1. RequestKnows(asked[u], session, eaves)
        BY <1>5
      <4>2. asked[u].at \notin LockedAt
        BY <1>3, <2>1, <3>11 DEF LockInv, LockedAt
      <4>3. asked[u].at \in NewLegAt => asked[u].leg # l
        BY <1>3, <3>2, <3>11, SupervisorAssumption DEF Named, ChannelsInv
      <4> QED
        BY <3>4, <3>5, <3>6, <3>9, <4>1, <4>2, <4>3 DEF RequestKnows, LockedAt, NewLegAt, Settled
    <3>12. \A r \in Sessions : RowKnows(session'[r], eaves)
      <4>1. RowKnows(x, eaves)
        BY <3>5 DEF RowKnows
      <4> QED
        BY <1>5, <3>6, <4>1
    <3>13. \A k \in Legs : eaves[k] \in Heard =>
             \E r \in Sessions : session'[r].state \in LiveStates /\ session'[r].leg = k
      <4> SUFFICES ASSUME NEW k \in Legs, eaves[k] \in Heard
                   PROVE  \E r \in Sessions : session'[r].state \in LiveStates /\ session'[r].leg = k
        OBVIOUS
      <4>1. PICK r \in Sessions : session[r].state \in LiveStates /\ session[r].leg = k
        BY <1>5
      <4>2. r # s
        BY <4>1, <3>9 DEF Heard, Alive
      <4> QED
        BY <4>1, <4>2, <3>6
    <3> QED
      BY <1>5, <2>1, <3>2, <3>7, <3>10, <3>11, <3>12, <3>13, ChannelsKept
  <2> QED
    BY <2>2, <2>3
<1>35. ASSUME NEW t \in Tabs, StopReads(t) PROVE ChannelsInv'
  <2>1. asked[t].at = "stopRead" /\ UNCHANGED <<session, eaves, report>>
    BY <1>35 DEF StopReads, At
  <2>2. CASE ReleaseLock(t)
    BY <2>1, <2>2, <1>12 DEF ReleaseLock
  <2>3. CASE ~ReleaseLock(t)
    <3>1. PICK s \in Sessions : s = asked[t].session
      BY <1>3, <2>1 DEF Named, LockedAt
    <3>2. session[s].state \in LiveStates
          /\ asked' = [asked EXCEPT ![t].at = "stopKill", ![t].old = session[asked[t].session].leg,
                         ![t].seen = session[asked[t].session].state]
      BY <1>35, <2>3, <3>1 DEF StopReads
    <3>3. PICK a : a = [asked[t] EXCEPT !.at = "stopKill", !.old = session[s].leg,
                                        !.seen = session[s].state]
      OBVIOUS
    <3>4. asked[t] \in TabRequests
      BY <1>1
    <3>5. a.at = "stopKill" /\ a.leg = asked[t].leg /\ a.old = session[s].leg
          /\ a.seen = session[s].state
      BY <3>3, <3>4 DEF TabRequests
    <3>6. asked' = [asked EXCEPT ![t] = a]
      BY <1>1, <3>1, <3>2, <3>3 DEF TabRequests
    <3>7. asked'[t] = a /\ \A u \in Tabs : u # t => asked'[u] = asked[u]
      BY <3>6, <1>9
    <3>8. RowKnows(session[s], eaves)
      BY <1>5
    <3>9. RequestKnows(a, session, eaves)
      BY <3>2, <3>5, <3>8 DEF RequestKnows, RowKnows
    <3> QED
      BY <1>7, <2>1, <3>5, <3>7, <3>9
  <2> QED
    BY <2>2, <2>3
<1>36. ASSUME NEW t \in Tabs, StopKills(t) PROVE ChannelsInv'
  <2>1. asked[t].at = "stopKill" /\ UNCHANGED session
    BY <1>36 DEF StopKills, At
  <2>2. PICK l \in Legs : l = asked[t].old
    BY <1>3, <2>1 DEF Named, OldLegAt
  <2>3. RequestKnows(asked[t], session, eaves)
    BY <1>5
  <2>4. CASE ReleaseLock(t) /\ UNCHANGED <<eaves, report>>
    BY <2>1, <2>4, <1>12 DEF ReleaseLock
  <2>5. CASE ~(ReleaseLock(t) /\ UNCHANGED <<eaves, report>>)
    <3>1. /\ Goto(t, "stopUpdate")
          /\ \/ HasRow(l) /\ Killed(l)
             \/ ~HasRow(l) /\ asked[t].seen # "connecting" /\ UNCHANGED <<eaves, report>>
      BY <1>4, <1>36, <2>2, <2>5 DEF StopKills
    <3>2. /\ asked'[t].at = "stopUpdate" /\ asked'[t].leg = asked[t].leg /\ asked'[t].old = l
          /\ \A u \in Tabs : u # t => asked'[u] = asked[u]
      BY <1>10, <2>2, <3>1
    <3>3. eaves'[l] = "gone"
      <4>1. CASE HasRow(l) /\ Killed(l)
        BY <1>18, <4>1
      <4>2. CASE ~HasRow(l) /\ asked[t].seen # "connecting" /\ UNCHANGED <<eaves, report>>
        <5>1. eaves[l] \in Settled
          BY <2>1, <2>2, <2>3, <4>2 DEF RequestKnows, LiveStates
        <5> QED
          BY <4>2, <5>1 DEF HasRow, Alive, Settled
      <4> QED
        BY <3>1, <4>1, <4>2
    <3>4. RequestKnows(asked'[t], session, eaves')
      BY <3>2, <3>3 DEF RequestKnows
    <3> QED
      BY <1>32, <2>1, <3>1, <3>2, <3>4
  <2> QED
    BY <2>4, <2>5
<1>37. ASSUME NEW t \in Tabs, StopUpdates(t) PROVE ChannelsInv'
  <2>1. asked[t].at = "stopUpdate" /\ UNCHANGED <<eaves, report>> /\ Leave(t)
    BY <1>37 DEF StopUpdates, At, ReleaseLock
  <2>2. CASE UNCHANGED session
    BY <2>1, <2>2, <1>12
  <2>3. CASE ~UNCHANGED session
    <3>1. PICK s \in Sessions : s = asked[t].session
      BY <1>3, <2>1 DEF Named, LockedAt
    <3>2. PICK x : x = [session[s] EXCEPT !.state = "ended"]
      OBVIOUS
    <3>3. session[s].leg = asked[t].old /\ session' = [session EXCEPT ![s] = x]
      BY <1>37, <2>3, <3>1, <3>2 DEF StopUpdates
    <3>4. session[s] \in SessionRows /\ RowKnows(session[s], eaves)
          /\ RequestKnows(asked[t], session, eaves)
      BY <1>1, <1>5
    <3>5. eaves[session[s].leg] = "gone"
      BY <2>1, <3>3, <3>4 DEF RequestKnows
    <3>6. x.state = "ended" /\ x.leg = session[s].leg /\ x.job = session[s].job
      BY <3>2, <3>4 DEF SessionRows
    <3>7. session'[s] = x /\ \A r \in Sessions : r # s => session'[r] = session[r]
      BY <1>1, <3>3
    <3>8. \A r \in Sessions : RowKnows(session'[r], eaves)
      <4>1. RowKnows(x, eaves)
        BY <3>4, <3>6 DEF RowKnows
      <4> QED
        BY <1>5, <3>7, <4>1
    <3>9. \A u \in Tabs : RequestKnows(asked[u], session', eaves)
      <4>1. \A r \in Sessions :
              /\ session'[r].leg = session[r].leg
              /\ session[r].state # "none" => session'[r].state # "none"
              /\ session[r].state = "connecting" /\ eaves[session[r].leg] = "none"
                 => session'[r].state = "connecting"
        BY <3>5, <3>6, <3>7
      <4> QED
        BY <1>19, <4>1
    <3>10. \A k \in Legs : eaves[k] \in Heard =>
             \E r \in Sessions : session'[r].state \in LiveStates /\ session'[r].leg = k
      <4> SUFFICES ASSUME NEW k \in Legs, eaves[k] \in Heard
                   PROVE  \E r \in Sessions : session'[r].state \in LiveStates /\ session'[r].leg = k
        OBVIOUS
      <4>1. PICK r \in Sessions : session[r].state \in LiveStates /\ session[r].leg = k
        BY <1>5
      <4>2. r # s
        BY <4>1, <3>5 DEF Heard, Alive
      <4> QED
        BY <4>1, <4>2, <3>7
    <3> QED
      BY <1>5, <1>8, <1>11, <2>1, <3>8, <3>9, <3>10, ChannelsKept
  <2> QED
    BY <2>2, <2>3
<1>38. ASSUME NEW l \in Legs, ChannelRings(l) \/ JobFails(l) \/ ChannelAnswers(l) \/ ChannelEnds(l)
       PROVE  ChannelsInv'
  <2>1. UNCHANGED <<session, asked>>
    BY <1>38 DEF ChannelRings, JobFails, ChannelAnswers, ChannelEnds
  <2>2. /\ \A k \in Legs : Forward(eaves[k], eaves'[k])
        /\ \A i \in 1 .. Len(report') : EventKnows(report'[i], eaves')
    <3>1. CASE ChannelRings(l)
      <4>1. eaves' = [eaves EXCEPT ![l] = "ringing"] /\ Forward(eaves[l], "ringing")
            /\ UNCHANGED report
        BY <3>1 DEF ChannelRings, Forward, Settled, Heard, Alive
      <4> QED
        BY <4>1, <1>15, <1>16
    <3>2. CASE JobFails(l)
      <4>1. eaves' = [eaves EXCEPT ![l] = "failed"] /\ Forward(eaves[l], "failed")
        BY <3>2 DEF JobFails, Forward, Settled, Heard, Alive
      <4>2. PICK e : e = [what |-> "jobFailed", leg |-> l]
        OBVIOUS
      <4>3. (\A k \in Legs : Forward(eaves[k], eaves'[k])) /\ eaves'[l] = "failed"
        BY <4>1, <1>16
      <4>4. e \in Reports /\ EventKnows(e, eaves')
        BY <4>2, <4>3 DEF Reports, EventKnows
      <4>5. report' = Append(report, e)
        BY <3>2, <4>2 DEF JobFails
      <4> QED
        BY <4>3, <4>4, <4>5, <1>15, <1>17
    <3>3. CASE ChannelAnswers(l)
      <4>1. eaves' = [eaves EXCEPT ![l] = "answered"] /\ Forward(eaves[l], "answered")
        BY <3>3 DEF ChannelAnswers, Forward, Settled, Heard, Alive
      <4>2. PICK e : e = [what |-> "answer", leg |-> l]
        OBVIOUS
      <4>3. (\A k \in Legs : Forward(eaves[k], eaves'[k])) /\ eaves'[l] = "answered"
        BY <4>1, <1>16
      <4>4. e \in Reports /\ EventKnows(e, eaves')
        BY <4>2, <4>3 DEF Reports, EventKnows, Settled
      <4>5. report' = Append(report, e)
        BY <3>3, <4>2 DEF ChannelAnswers
      <4> QED
        BY <4>3, <4>4, <4>5, <1>15, <1>17
    <3>4. CASE ChannelEnds(l)
      BY <3>4, <1>18 DEF ChannelEnds
    <3> QED
      BY <1>38, <3>1, <3>2, <3>3, <3>4
  <2>3. /\ \A t \in Tabs : RequestKnows(asked[t], session, eaves')
        /\ \A s \in Sessions : RowKnows(session[s], eaves')
        /\ \A k \in Legs : eaves'[k] \in Heard => eaves[k] \in Heard
    BY <2>2, <1>15
  <2>4. \A k \in Legs : eaves'[k] \in Heard => \E s \in Sessions : Live(s) /\ session[s].leg = k
    BY <2>3 DEF ChannelsInv
  <2> QED
    BY <2>1, <2>2, <2>3, <2>4 DEF ChannelsInv, Live
<1>39. ASSUME UNCHANGED <<session, asked, eaves, report>> PROVE ChannelsInv'
  BY <1>39 DEF ChannelsInv, Live
<1>40. ASSUME StartOwnCall \/ OwnCallEnds \/ Deactivate \/ RemoveAdmin
              \/ TargetHangsUp \/ TargetIsFinalized
       PROVE  ChannelsInv'
  BY <1>39, <1>40 DEF StartOwnCall, OwnCallEnds, Deactivate, RemoveAdmin, TargetHangsUp,
     TargetIsFinalized
<1>41. ASSUME PersistReport PROVE ChannelsInv'
  <2>1. /\ report # << >>
        /\ session' = [s \in Sessions |-> Reported(session[s], Head(report))]
        /\ report' = Tail(report)
        /\ UNCHANGED <<asked, eaves>>
    BY <1>41 DEF PersistReport
  <2>2. PICK e : e = Head(report)
    OBVIOUS
  <2>3. /\ Len(report) \in Nat /\ Len(report) >= 1 /\ e = report[1] /\ e \in Reports
        /\ Len(report') = Len(report) - 1
        /\ \A i \in 1 .. Len(report') : report'[i] = report[i + 1]
    BY <1>1, <2>1, <2>2, HeadTailProperties, LenProperties, EmptySeq
  <2>4. \A i \in 1 .. Len(report') : EventKnows(report'[i], eaves)
    BY <1>5, <2>3
  <2>5. EventKnows(e, eaves)
    BY <1>5, <2>3
  <2>6. \A s \in Sessions : session'[s] = Reported(session[s], e)
    BY <2>1, <2>2
  <2>7. e.leg \in Legs /\ e.leg # Nothing
    BY <2>3, SupervisorAssumption DEF Reports
  \* A row that changes had its channel answered, or gone; one whose job
  \* failed is the row of that leg.
  <2>8. ASSUME NEW s \in Sessions
        PROVE  /\ session'[s].leg = session[s].leg
               /\ session[s].state # "none" => session'[s].state # "none"
               /\ session[s].state = "connecting" /\ eaves[session[s].leg] = "none"
                  => session'[s].state = "connecting"
               /\ RowKnows(session'[s], eaves)
               /\ session[s].state \in LiveStates /\ eaves[session[s].leg] \in Heard
                  => session'[s].state \in LiveStates
    <3>1. RowKnows(session[s], eaves) /\ session[s] \in SessionRows
      BY <1>1, <1>5
    <3>2. PICK x : x = session'[s]
      OBVIOUS
    <3>3. /\ x.leg = session[s].leg /\ x.job = session[s].job
          /\ x.state = "none" <=> session[s].state = "none"
          /\ \/ x = session[s]
             \/ /\ e.what = "answer" /\ session[s].leg = e.leg /\ session[s].state = "connecting"
                /\ x.state = "active"
             \/ /\ e.what = "hangup" /\ session[s].leg = e.leg
                /\ x.state = "ended"
             \/ /\ e.what = "jobFailed" /\ session[s].job = e.leg
                /\ x.state = "failed"
      BY <2>3, <2>6, <3>1, <3>2, ReportedRow
    <3>4. CASE x = session[s]
      BY <3>1, <3>2, <3>4
    <3>5. CASE e.what = "answer" /\ session[s].leg = e.leg /\ session[s].state = "connecting"
               /\ x.state = "active"
      <4>1. eaves[session[s].leg] \in Settled
        BY <2>5, <3>5 DEF EventKnows
      <4>2. RowKnows(x, eaves)
        BY <3>1, <3>3, <3>5, <4>1 DEF RowKnows
      <4> QED
        BY <3>2, <3>3, <3>5, <4>1, <4>2 DEF Settled, LiveStates
    <3>6. CASE e.what = "hangup" /\ session[s].leg = e.leg /\ x.state = "ended"
      <4>1. eaves[session[s].leg] = "gone"
        BY <2>5, <3>6 DEF EventKnows
      <4>2. RowKnows(x, eaves)
        BY <3>1, <3>3, <3>6 DEF RowKnows
      <4> QED
        BY <3>2, <3>3, <3>6, <4>1, <4>2 DEF Heard, Alive
    <3>7. CASE e.what = "jobFailed" /\ session[s].job = e.leg /\ x.state = "failed"
      <4>1. eaves[e.leg] = "failed"
        BY <2>5, <3>7 DEF EventKnows
      <4>2. session[s].leg = e.leg
        BY <2>7, <3>1, <3>7, <4>1 DEF RowKnows, Settled
      <4>3. RowKnows(x, eaves)
        BY <3>1, <3>3, <3>7 DEF RowKnows
      <4> QED
        BY <3>2, <3>3, <3>7, <4>1, <4>2, <4>3 DEF Heard, Alive
    <3> QED
      BY <3>3, <3>4, <3>5, <3>6, <3>7
  <2>9. \A t \in Tabs : RequestKnows(asked[t], session', eaves)
    BY <1>19, <2>8
  <2>10. \A l \in Legs : eaves[l] \in Heard =>
           \E s \in Sessions : session'[s].state \in LiveStates /\ session'[s].leg = l
    <3> SUFFICES ASSUME NEW l \in Legs, eaves[l] \in Heard
                 PROVE  \E s \in Sessions : session'[s].state \in LiveStates /\ session'[s].leg = l
      OBVIOUS
    <3>1. PICK s \in Sessions : session[s].state \in LiveStates /\ session[s].leg = l
      BY <1>5
    <3> QED
      BY <2>8, <3>1
  <2> QED
    BY <2>1, <2>4, <2>8, <2>9, <2>10 DEF ChannelsInv, Live
<1>42. ASSUME NEW t \in Tabs, TabStep(t) PROVE ChannelsInv'
  BY <1>42, <1>20, <1>21, <1>22, <1>24, <1>26, <1>27, <1>28, <1>29, <1>30, <1>31, <1>33, <1>34,
     <1>35, <1>36, <1>37 DEF TabStep
<1>43. CASE SupervisorNext
  BY <1>4, <1>38, <1>40, <1>41, <1>42, <1>43 DEF SupervisorNext, ReportsLost, SupervisorCrash
<1>44. CASE UNCHANGED supervisorVars
  BY <1>39, <1>44 DEF supervisorVars
<1> QED
  BY <1>43, <1>44

\* As long as nothing went unanswered, failed or was lost, every channel is
\* known of.
SupervisorInv == SupervisorBase /\ (doubts = 0 => ChannelsInv)

LEMMA SupervisorStep == SupervisorInv /\ [SupervisorNext]_supervisorVars => SupervisorInv'
<1> SUFFICES ASSUME SupervisorInv, [SupervisorNext]_supervisorVars PROVE SupervisorInv'
  OBVIOUS
<1>1. SupervisorBase'
  BY SupervisorBaseStep DEF SupervisorInv
<1>2. doubts' = 0 => doubts = 0
  <2>1. doubts \in Nat
    BY SupervisorAssumption DEF SupervisorInv, SupervisorBase, SupervisorTypeOK
  <2>2. UNCHANGED doubts \/ Doubt
    BY ZenonT(60) DEF SupervisorNext, supervisorVars, TabStep, Start, StartProbes, StartInserts,
       StartOriginates, StartStoresJob, StartFails, ChangeMode, ModeReads, ModeProbes,
       ModeKills, ModeUpdates, ModeOriginates, ModeStoresJob, ModeFails, StopSession,
       StopReads, StopKills, StopUpdates, TakeLock, Originate, StartOwnCall, OwnCallEnds,
       Deactivate, RemoveAdmin, ChannelRings, JobFails, ChannelAnswers, ChannelEnds,
       TargetHangsUp, TargetIsFinalized, PersistReport, ReportsLost, SupervisorCrash
  <2> QED
    BY <2>1, <2>2 DEF Doubt
<1>3. doubts' = 0 => ChannelsInv'
  BY <1>1, <1>2, ChannelsStep DEF SupervisorInv
<1> QED
  BY <1>1, <1>3 DEF SupervisorInv

\* An administrator who monitors is active, on no call of their own, and has
\* one session; the media lock's transactions and the events keep it so.
THEOREM OneMediaRoleHolds == SupervisorSpec => []OneMediaRole
<1>1. SupervisorInit => SupervisorInv
  BY SupervisorBaseBegins, ChannelsBegin DEF SupervisorInv
<1>2. SupervisorInv => OneMediaRole
  BY DEF SupervisorInv, SupervisorBase
<1> QED
  BY <1>1, <1>2, SupervisorStep, PTL DEF SupervisorSpec

\* As long as every command was answered, every statement done and no event
\* lost, a channel that eavesdrops, or is about to, has a live session: the
\* invariant follows the legs through their requests, rows, jobs and events.
THEOREM NoChannelIsHidden == SupervisorSpec => []NoHiddenChannel
<1>1. SupervisorInit => SupervisorInv
  BY SupervisorBaseBegins, ChannelsBegin DEF SupervisorInv
<1>2. SupervisorInv => NoHiddenChannel
  BY DEF SupervisorInv, ChannelsInv, NoHiddenChannel, Heard
<1> QED
  BY <1>1, <1>2, SupervisorStep, PTL DEF SupervisorSpec

------------------------------------------------------------------------------
(* The supervisor's phone.                                                 *)

HandsetRow == [at : {"unused", "provisioning", "starting", "registering", "registered", "failed",
                     "over"},
               agent : {"none", "running", "stopping", "stopped"}]
PhoneLegRow == [run : Mounts \cup {NoLeg},
           state : {"unsent", "establishing", "established", "ended"},
           accepting : BOOLEAN, mode : LegModes \cup {"none"}, session : Monitored \cup {NoLeg}]
LegShownRow == [call : {"none", "answering", "active"}, mode : LegModes \cup {"none"},
                session : Monitored \cup {NoLeg}]

\* The effect runs once: a run that is mounted is not being stopped.
MountedInv ==
  /\ \A r \in Mounts : handset[r].at \in {"unused", "provisioning"} => handset[r].agent = "none"
  /\ \A r \in Mounts : handset[r].agent \in {"stopping", "stopped"} => r # mounted
  /\ mounted # NoLeg => handset[mounted].at \notin {"unused", "over"}

\* The current invitation is a live leg of the mounted run, which has
\* registered; what is shown is that leg, unless the registration has failed.
CurrentLegInv ==
  /\ legRef # NoLeg =>
       /\ mounted # NoLeg /\ legs[legRef].run = mounted
       /\ legs[legRef].state \in {"establishing", "established"}
       /\ handset[mounted].at \in {"registered", "failed"}
  /\ mounted = NoLeg \/ handset[mounted].at \in {"provisioning", "starting", "registering"}
       => legShown.call = "none"
  /\ legRef # NoLeg /\ handset[mounted].at = "registered" => legShown.call # "none"
  /\ legShown.call # "none" /\ handset[mounted].at = "registered" =>
       /\ legRef # NoLeg
       /\ legs[legRef].mode = legShown.mode /\ legs[legRef].session = legShown.session
       /\ legShown.call = "active" => legs[legRef].state = "established"

SupervisorPhoneInv == SupervisorPhoneTypeOK /\ MountedInv /\ CurrentLegInv

LEMMA SupervisorPhoneBegins == SupervisorPhoneInit => SupervisorPhoneInv
<1> SUFFICES ASSUME SupervisorPhoneInit PROVE SupervisorPhoneInv
  OBVIOUS
<1>1. SupervisorPhoneTypeOK
  BY DEF SupervisorPhoneInit, SupervisorPhoneTypeOK, NotInvited, NoLegShown
<1>2. MountedInv /\ CurrentLegInv
  BY DEF SupervisorPhoneInit, MountedInv, CurrentLegInv, NoLegShown
<1> QED
  BY <1>1, <1>2 DEF SupervisorPhoneInv

\* Dialogs that end, of which the current one is not one.
LEMMA LegsEnd ==
  ASSUME legs \in [LegInvites -> PhoneLegRow], NEW gone \in SUBSET LegInvites
  PROVE  /\ EndedLegs(gone) \in [LegInvites -> PhoneLegRow]
         /\ \A i \in LegInvites : i \notin gone => EndedLegs(gone)[i] = legs[i]
BY DEF EndedLegs, PhoneLegRow

LEMMA SupervisorPhoneStep ==
  SupervisorPhoneInv /\ [SupervisorPhoneNext]_supervisorPhoneVars => SupervisorPhoneInv'
<1> SUFFICES ASSUME SupervisorPhoneInv, [SupervisorPhoneNext]_supervisorPhoneVars
             PROVE  SupervisorPhoneInv'
  OBVIOUS
<1>1. /\ mounted \in Mounts \cup {NoLeg} /\ handset \in [Mounts -> HandsetRow]
      /\ legRef \in LegInvites \cup {NoLeg} /\ legs \in [LegInvites -> PhoneLegRow]
      /\ legShown \in LegShownRow
      /\ MountedInv /\ CurrentLegInv
      /\ NoLeg \notin Mounts /\ NoLeg \notin LegInvites /\ NoLeg \notin Monitored
  BY SupervisorPhoneAssumption
  DEF SupervisorPhoneInv, SupervisorPhoneTypeOK, HandsetRow, PhoneLegRow, LegShownRow
<1> DEFINE Typed ==
      /\ mounted' \in Mounts \cup {NoLeg} /\ handset' \in [Mounts -> HandsetRow]
      /\ legRef' \in LegInvites \cup {NoLeg} /\ legs' \in [LegInvites -> PhoneLegRow]
      /\ legShown' \in LegShownRow
           Preserved == Typed /\ MountedInv' /\ CurrentLegInv'
<1>2. SUFFICES Preserved
  BY DEF SupervisorPhoneInv, SupervisorPhoneTypeOK, HandsetRow, PhoneLegRow, LegShownRow
<1>3. NoLegShown \in LegShownRow /\ NoLegShown.call = "none"
  BY DEF NoLegShown, LegShownRow
<1>4. ASSUME NEW r \in Mounts, Mount(r) PROVE Preserved
  <2>1. handset' \in [Mounts -> HandsetRow]
    BY <1>1, <1>4 DEF Mount, HandsetRow
  <2>2. legRef = NoLeg
    BY <1>1, <1>4 DEF Mount, CurrentLegInv
  <2>3. MountedInv' /\ CurrentLegInv'
    BY <1>1, <1>3, <1>4, <2>1, <2>2 DEF Mount, MountedInv, CurrentLegInv, HandsetRow
  <2> QED
    BY <1>1, <1>3, <1>4, <2>1, <2>3 DEF Mount
<1>5. ASSUME NEW r \in Mounts, Unmount(r) PROVE Preserved
  <2>1. /\ handset' = [handset EXCEPT ![r].agent =
                         IF handset[r].agent = "running" THEN "stopping" ELSE handset[r].agent]
        /\ mounted' = NoLeg /\ legRef' = NoLeg /\ legShown' = NoLegShown
        /\ legs' = EndedLegs({i \in LegInvites : i = legRef /\ LiveLeg(i)})
    BY <1>1, <1>5 DEF Unmount
  <2>2. handset' \in [Mounts -> HandsetRow]
    BY <1>1, <2>1 DEF HandsetRow
  <2>3. legs' \in [LegInvites -> PhoneLegRow]
    BY <1>1, <2>1, LegsEnd
  <2>4. MountedInv' /\ CurrentLegInv'
    BY <1>1, <1>3, <2>1, <2>2 DEF MountedInv, CurrentLegInv, HandsetRow
  <2> QED
    BY <1>1, <1>3, <2>1, <2>2, <2>3, <2>4
<1>6. ASSUME NEW r \in Mounts, HandsetStopped(r) PROVE Preserved
  <2> DEFINE gone == {i \in LegInvites : legs[i].run = r /\ LiveLeg(i)}
  <2>1. /\ handset' = [handset EXCEPT ![r].agent = "stopped"] /\ handset[r].agent = "stopping"
        /\ legs' = EndedLegs(gone) /\ UNCHANGED <<mounted, legRef, legShown>>
    BY <1>6 DEF HandsetStopped
  <2>2. r # mounted /\ legRef \notin gone
    BY <1>1, <2>1 DEF MountedInv, CurrentLegInv
  <2> HIDE DEF gone
  <2>3. handset' \in [Mounts -> HandsetRow] /\ legs' \in [LegInvites -> PhoneLegRow]
    <3>1. gone \subseteq LegInvites
      BY DEF gone
    <3> QED
      BY <1>1, <2>1, <3>1, LegsEnd DEF HandsetRow
  <2>4. legRef \in LegInvites => legs'[legRef] = legs[legRef]
    BY <1>1, <2>1, <2>2, LegsEnd DEF gone
  <2>5. MountedInv' /\ CurrentLegInv'
    BY <1>1, <2>1, <2>2, <2>3, <2>4 DEF MountedInv, CurrentLegInv, HandsetRow
  <2> QED
    BY <1>1, <2>1, <2>3, <2>5
<1>7. ASSUME NEW r \in Mounts, HandsetProvisioned(r) PROVE Preserved
  <2>1. /\ \E h \in HandsetRow :
             /\ handset' = [handset EXCEPT ![r] = h]
             /\ h.at = (IF r = mounted THEN "starting" ELSE "over")
             /\ h.agent = (IF r = mounted THEN "running" ELSE handset[r].agent)
        /\ handset[r].at = "provisioning" /\ UNCHANGED <<mounted, legRef, legs, legShown>>
    <3>1. handset[r].at = "provisioning" /\ UNCHANGED <<mounted, legRef, legs, legShown>>
      BY <1>7 DEF HandsetProvisioned
    <3>2. CASE r = mounted
      <4>1. handset' = [handset EXCEPT ![r] = [at |-> "starting", agent |-> "running"]]
        BY <1>1, <1>7, <3>2 DEF HandsetProvisioned
      <4>2. [at |-> "starting", agent |-> "running"] \in HandsetRow
        BY DEF HandsetRow
      <4> QED BY <3>1, <3>2, <4>1, <4>2
    <3>3. CASE r # mounted
      <4>1. PICK h : h = [handset[r] EXCEPT !.at = "over"]
        OBVIOUS
      <4>2. handset' = [handset EXCEPT ![r] = h]
        BY <1>1, <1>7, <3>3, <4>1 DEF HandsetProvisioned
      <4>3. h \in HandsetRow /\ h.at = "over" /\ h.agent = handset[r].agent
        BY <1>1, <4>1 DEF HandsetRow
      <4> QED BY <3>1, <3>3, <4>2, <4>3
    <3> QED BY <3>2, <3>3
  <2>2. MountedInv' /\ CurrentLegInv'
    BY <1>1, <2>1 DEF MountedInv, CurrentLegInv, HandsetRow
  <2> QED
    BY <1>1, <2>1, <2>2
<1>8. ASSUME NEW r \in Mounts, HandsetStarted(r) \/ HandsetRegistered(r) PROVE Preserved
  <2>1. /\ handset' \in [Mounts -> HandsetRow] /\ UNCHANGED <<mounted, legRef, legs, legShown>>
        /\ handset[r].at \in {"starting", "registering"}
        /\ \A q \in Mounts : /\ handset'[q].agent = handset[q].agent
                             /\ q # r => handset'[q].at = handset[q].at
        /\ handset'[r].at \in (IF r = mounted THEN {"registering", "registered"} ELSE {"over"})
    <3>1. CASE HandsetStarted(r)
      BY <1>1, <3>1 DEF HandsetStarted, HandsetRow
    <3>2. CASE HandsetRegistered(r)
      BY <1>1, <3>2 DEF HandsetRegistered, HandsetRow
    <3> QED BY <1>8, <3>1, <3>2
  <2>2. MountedInv' /\ CurrentLegInv'
    BY <1>1, <2>1 DEF MountedInv, CurrentLegInv
  <2> QED
    BY <1>1, <2>1, <2>2
<1>9. ASSUME NEW r \in Mounts, HandsetFails(r) PROVE Preserved
  <2>1. /\ handset' \in [Mounts -> HandsetRow] /\ UNCHANGED <<mounted, legRef, legs>> /\ r = mounted
        /\ legShown' = NoLegShown
        /\ handset[r].at \in {"provisioning", "starting", "registering", "registered"}
        /\ \A q \in Mounts : /\ handset'[q].agent = handset[q].agent
                             /\ q # r => handset'[q].at = handset[q].at
        /\ handset'[r].at = (IF handset[r].at = "registering" THEN "registering" ELSE "failed")
    BY <1>1, <1>9 DEF HandsetFails, HandsetRow
  <2>2. MountedInv' /\ CurrentLegInv'
    BY <1>1, <1>3, <2>1 DEF MountedInv, CurrentLegInv
  <2> QED
    BY <1>1, <1>3, <2>1, <2>2
<1>10. ASSUME NEW i \in LegInvites, NEW r \in Mounts, LegArrives(i, r) PROVE Preserved
  <2>1. PICK chosen \in Monitored, mode \in LegModes :
          /\ legs[i] = NotInvited /\ handset[r].at = "registered"
          /\ LET invited == [run |-> r, state |-> "establishing", accepting |-> TRUE,
                             mode |-> mode, session |-> chosen] IN
             IF r # mounted \/ (legRef # NoLeg /\ legs[legRef].session # chosen)
             THEN /\ legs' = [legs EXCEPT ![i] = [invited EXCEPT !.state = "ended",
                                                                 !.accepting = FALSE]]
                  /\ UNCHANGED <<legRef, legShown>>
             ELSE /\ legs' = [legs EXCEPT ![i] = invited]
                  /\ legRef' = i
                  /\ legShown' = [call |-> "answering", mode |-> mode, session |-> chosen]
          /\ UNCHANGED <<mounted, handset>>
    BY <1>10 DEF LegArrives
  <2>2. PICK invited : invited = [run |-> r, state |-> "establishing", accepting |-> TRUE,
                                  mode |-> mode, session |-> chosen]
    OBVIOUS
  <2>3. invited \in PhoneLegRow /\ invited.run = r /\ invited.state = "establishing"
        /\ invited.mode = mode /\ invited.session = chosen
    BY <2>2 DEF PhoneLegRow
  <2>4. i # legRef
    BY <1>1, <2>1 DEF CurrentLegInv, NotInvited
  <2>5. CASE r # mounted \/ (legRef # NoLeg /\ legs[legRef].session # chosen)
    <3>1. legs' = [legs EXCEPT ![i] = [invited EXCEPT !.state = "ended", !.accepting = FALSE]]
          /\ UNCHANGED <<legRef, legShown, mounted, handset>>
      BY <2>1, <2>2, <2>5
    <3>2. legs' \in [LegInvites -> PhoneLegRow]
          /\ (legRef \in LegInvites => legs'[legRef] = legs[legRef])
      BY <1>1, <2>3, <2>4, <3>1 DEF PhoneLegRow
    <3>3. MountedInv' /\ CurrentLegInv'
      BY <1>1, <3>1, <3>2 DEF MountedInv, CurrentLegInv
    <3> QED
      BY <1>1, <3>1, <3>2, <3>3
  <2>6. CASE r = mounted /\ (legRef = NoLeg \/ legs[legRef].session = chosen)
    <3>1. /\ legs' = [legs EXCEPT ![i] = invited] /\ legRef' = i /\ UNCHANGED <<mounted, handset>>
          /\ legShown' = [call |-> "answering", mode |-> mode, session |-> chosen]
      BY <2>1, <2>2, <2>6
    <3>2. /\ legs' \in [LegInvites -> PhoneLegRow] /\ legs'[i] = invited
          /\ legShown' \in LegShownRow /\ legShown'.call = "answering"
          /\ legShown'.mode = mode /\ legShown'.session = chosen
      BY <1>1, <2>3, <3>1 DEF LegShownRow
    <3>3. MountedInv' /\ CurrentLegInv'
      BY <1>1, <2>1, <2>3, <2>6, <3>1, <3>2 DEF MountedInv, CurrentLegInv
    <3> QED
      BY <1>1, <3>1, <3>2, <3>3
  <2> QED
    BY <2>5, <2>6
<1>11. ASSUME NEW i \in LegInvites, LegEstablished(i) PROVE Preserved
  <2>1. /\ legs' = [legs EXCEPT ![i].accepting = FALSE, ![i].state = "established"]
        /\ legShown' = IF legs[i].run = mounted /\ legRef = i
                       THEN [legShown EXCEPT !.call = "active"] ELSE legShown
        /\ UNCHANGED <<mounted, handset, legRef>> /\ legs[i].state = "establishing"
    BY <1>11 DEF LegEstablished
  <2>2. /\ legs' \in [LegInvites -> PhoneLegRow] /\ legs'[i].state = "established"
        /\ legs'[i].run = legs[i].run /\ legs'[i].mode = legs[i].mode
        /\ legs'[i].session = legs[i].session
        /\ \A j \in LegInvites \ {i} : legs'[j] = legs[j]
    BY <1>1, <2>1 DEF PhoneLegRow
  <2>3. CASE legRef = i
    <3>1. /\ legShown' \in LegShownRow /\ legShown'.mode = legShown.mode
          /\ legShown'.session = legShown.session /\ legShown'.call = "active"
      BY <1>1, <2>1, <2>3 DEF CurrentLegInv, LegShownRow
    <3>2. handset[mounted].at = "registered" => legShown.call # "none"
      BY <1>1, <2>3 DEF CurrentLegInv
    <3>3. MountedInv' /\ CurrentLegInv'
      BY <1>1, <2>1, <2>2, <2>3, <3>1, <3>2 DEF MountedInv, CurrentLegInv
    <3> QED
      BY <1>1, <2>1, <2>2, <3>1, <3>3
  <2>4. CASE legRef # i
    <3>1. MountedInv' /\ CurrentLegInv'
      BY <1>1, <2>1, <2>2, <2>4 DEF MountedInv, CurrentLegInv
    <3> QED
      BY <1>1, <2>1, <2>2, <2>4, <3>1
  <2> QED
    BY <2>3, <2>4
\* A leg that is over is not the current one afterwards.
<1>12. ASSUME NEW i \in LegInvites, LegRefused(i) \/ LegEnds(i) PROVE Preserved
  <2>1. /\ legs' \in [LegInvites -> PhoneLegRow] /\ \A j \in LegInvites \ {i} : legs'[j] = legs[j]
        /\ LegOver(i) /\ UNCHANGED <<mounted, handset>>
    <3>1. CASE LegRefused(i)
      <4>1. legs' = [legs EXCEPT ![i].accepting = FALSE, ![i].state = "ended"]
        BY <3>1 DEF LegRefused
      <4>2. PICK done : done = [legs[i] EXCEPT !.accepting = FALSE, !.state = "ended"]
        OBVIOUS
      <4>3. done \in PhoneLegRow
        BY <1>1, <4>2 DEF PhoneLegRow
      <4>4. legs' = [legs EXCEPT ![i] = done]
        BY <1>1, <4>1, <4>2 DEF PhoneLegRow
      <4> QED BY <1>1, <3>1, <4>3, <4>4 DEF LegRefused
    <3>2. CASE LegEnds(i)
      BY <1>1, <3>2, LegsEnd DEF LegEnds
    <3> QED BY <1>12, <3>1, <3>2
  <2>2. CASE legRef = i
    <3>1. legRef' = NoLeg /\ legShown' = NoLegShown
      BY <1>1, <2>1, <2>2 DEF LegOver, CurrentLegInv
    <3>2. MountedInv' /\ CurrentLegInv'
      BY <1>1, <1>3, <2>1, <3>1 DEF MountedInv, CurrentLegInv
    <3> QED
      BY <1>1, <1>3, <2>1, <3>1, <3>2
  <2>3. CASE legRef # i
    <3>1. UNCHANGED <<legRef, legShown>>
      BY <2>1, <2>3 DEF LegOver
    <3>2. MountedInv' /\ CurrentLegInv'
      BY <1>1, <2>1, <2>3, <3>1 DEF MountedInv, CurrentLegInv
    <3> QED
      BY <1>1, <2>1, <3>1, <3>2
  <2> QED
    BY <2>2, <2>3
<1>13. CASE UNCHANGED supervisorPhoneVars
  <2>1. MountedInv' /\ CurrentLegInv'
    BY <1>1, <1>13 DEF supervisorPhoneVars, MountedInv, CurrentLegInv
  <2> QED
    BY <1>1, <1>13, <2>1 DEF supervisorPhoneVars
<1> QED
  BY <1>4, <1>5, <1>6, <1>7, <1>8, <1>9, <1>10, <1>11, <1>12, <1>13 DEF SupervisorPhoneNext

LEMMA ShownLegIsHeard == SupervisorPhoneInv => ShownLegIsLive
BY DEF SupervisorPhoneInv, CurrentLegInv, ShownLegIsLive

-----------------------------------------------------------------------------
(* The agent's phone (Softphone).                                          *)

PhoneRuns ==
  [at : {"unused", "microphone", "devices", "provisioning", "starting",
         "registering", "over"},
   mic : BOOLEAN, agent : {"none", "running", "stopping", "stopped"},
   registerer : {"none", "held"}, cleaned : BOOLEAN, timer : BOOLEAN]
Rings ==
  [run : Effects \cup {NoPhone},
   state : {"unsent", "establishing", "established", "ended"},
   accepting : BOOLEAN]

Early == {"microphone", "devices", "provisioning"}

\* What a run holds: it begins with nothing, has no user agent before it is
\* provisioned, and has let go of everything but its microphone when it was
\* cleaned up, as every run but the current one was.
RunInv(r) ==
  /\ phone[r].at = "unused" => phone[r] = NotRun /\ r # current
  /\ phone[r].mic => phone[r].at = "devices" \/ (phone[r].at = "over" /\ r = current)
  /\ phone[r].cleaned => /\ ~phone[r].timer /\ phone[r].registerer = "none"
                         /\ phone[r].agent # "running"
  /\ phone[r].at # "unused" /\ ~phone[r].cleaned => r = current
  /\ phone[r].at \in Early => phone[r].agent = "none" /\ ~phone[r].timer
  /\ phone[r].at \in Early /\ r = current => ~phone[r].cleaned

\* A dialog is one of a user agent that has not stopped.
RingInv(i) ==
  /\ ring[i].state = "unsent" => ring[i].run = NoPhone /\ ~ring[i].accepting
  /\ ring[i].state \in InDialog =>
       /\ ring[i].run \in Effects
       /\ phone[ring[i].run].agent \in {"running", "stopping"}

SoftphoneInv ==
  /\ SoftphoneTypeOK
  /\ \A r \in Effects : RunInv(r)
  /\ \A i \in Invitations : RingInv(i)

LEMMA SoftphoneTypes ==
  SoftphoneTypeOK <=>
    /\ current \in Effects \cup {NoPhone}
    /\ phone \in [Effects -> PhoneRuns]
    /\ invitation \in Invitations \cup {NoPhone}
    /\ ring \in [Invitations -> Rings]
    /\ phoneShows \in
         [state : {"idle", "requesting_microphone", "registering", "registered", "failed"},
          call : {"none", "answering", "active"}]
  BY DEF SoftphoneTypeOK, PhoneRuns, Rings

LEMMA SoftphoneBegins == SoftphoneInit => SoftphoneInv
<1> SUFFICES ASSUME SoftphoneInit PROVE SoftphoneInv
  OBVIOUS
<1>1. NotRun \in PhoneRuns /\ NotSent \in Rings
  BY DEF NotRun, NotSent, PhoneRuns, Rings
<1>2. SoftphoneTypeOK
  BY <1>1, SoftphoneTypes DEF SoftphoneInit
<1>3. \A r \in Effects : RunInv(r)
  BY SoftphoneAssumption DEF SoftphoneInit, RunInv, NotRun, Early
<1>4. \A i \in Invitations : RingInv(i)
  BY DEF SoftphoneInit, RingInv, NotSent, InDialog
<1> QED
  BY <1>2, <1>3, <1>4 DEF SoftphoneInv

\* StopBegun: everything but the microphone and the place is let go of, and a
\* user agent that ran is stopping.
LEMMA StopBegunLetsGo ==
  ASSUME NEW p \in PhoneRuns,
         p.cleaned => ~p.timer /\ p.registerer = "none" /\ p.agent # "running"
  PROVE  /\ StopBegun(p) \in PhoneRuns
         /\ StopBegun(p).cleaned /\ ~StopBegun(p).timer
         /\ StopBegun(p).registerer = "none"
         /\ StopBegun(p).agent # "running"
         /\ StopBegun(p).agent = "none" <=> p.agent = "none"
         /\ p.agent \in {"running", "stopping"} => StopBegun(p).agent = "stopping"
         /\ StopBegun(p).at = p.at /\ StopBegun(p).mic = p.mic
  BY DEF StopBegun, PhoneRuns

\* A run changes to p: what its invariant and those of its dialogs ask of p.
LEMMA RunChanges ==
  ASSUME SoftphoneInv, NEW r \in Effects, NEW p \in PhoneRuns,
         phone' = [phone EXCEPT ![r] = p],
         current' \in Effects \cup {NoPhone},
         \A s \in Effects : s # r => (s = current' <=> s = current),
         p.at # "unused",
         p.mic => p.at = "devices" \/ (p.at = "over" /\ r = current'),
         p.cleaned => ~p.timer /\ p.registerer = "none" /\ p.agent # "running",
         ~p.cleaned => r = current',
         p.at \in Early => p.agent = "none" /\ ~p.timer,
         p.at \in Early /\ r = current' => ~p.cleaned
  PROVE  /\ phone' \in [Effects -> PhoneRuns]
         /\ \A s \in Effects : RunInv(s)'
<1>1. phone \in [Effects -> PhoneRuns]
  BY SoftphoneTypes DEF SoftphoneInv
<1>2. phone'[r] = p /\ \A s \in Effects : s # r => phone'[s] = phone[s]
  BY <1>1
<1>3. phone' \in [Effects -> PhoneRuns]
  BY <1>1
<1>4. ASSUME NEW s \in Effects PROVE RunInv(s)'
  <2>1. RunInv(s)
    BY DEF SoftphoneInv
  <2>2. CASE s = r
    BY <1>2, <2>2 DEF RunInv
  <2>3. CASE s # r
    <3>1. phone'[s] = phone[s] /\ (s = current' <=> s = current)
      BY <1>2, <2>3
    <3> QED
      BY <2>1, <3>1 DEF RunInv
  <2> QED
    BY <2>2, <2>3
<1> QED
  BY <1>3, <1>4

\* The dialogs stay as they are, or end, and user agents only stop once their
\* dialogs have ended.
LEMMA RingsEnd ==
  ASSUME SoftphoneInv, ring' \in [Invitations -> Rings],
         \A i \in Invitations : ring'[i] = ring[i] \/ ring'[i].state = "ended",
         \A r \in Effects : phone'[r].agent \in {"running", "stopping"}
           \/ phone[r].agent \notin {"running", "stopping"}
           \/ \A i \in Invitations : ring'[i].run = r => ring'[i].state \notin InDialog
  PROVE  \A i \in Invitations : RingInv(i)'
<1> SUFFICES ASSUME NEW i \in Invitations PROVE RingInv(i)'
  OBVIOUS
<1>1. RingInv(i)
  BY DEF SoftphoneInv
<1>2. CASE ring'[i].state = "ended"
  BY <1>2 DEF RingInv, InDialog
<1>3. CASE ring'[i] = ring[i]
  BY <1>1, <1>3 DEF RingInv
<1> QED
  BY <1>2, <1>3

LEMMA HungEnds ==
  ASSUME ring \in [Invitations -> Rings], NEW gone
  PROVE  /\ Hung(ring, gone) \in [Invitations -> Rings]
         /\ \A i \in Invitations : i \in gone => Hung(ring, gone)[i].state = "ended"
         /\ \A i \in Invitations : i \notin gone => Hung(ring, gone)[i] = ring[i]
<1>1. \A i \in Invitations : [ring[i] EXCEPT !.state = "ended"] \in Rings
                             /\ [ring[i] EXCEPT !.state = "ended"].state = "ended"
  BY DEF Rings
<1> QED
  BY <1>1 DEF Hung

LEMMA SoftphoneStep == SoftphoneInv /\ [SoftphoneNext]_phoneVars => SoftphoneInv'
<1> SUFFICES ASSUME SoftphoneInv, [SoftphoneNext]_phoneVars PROVE SoftphoneInv'
  OBVIOUS
<1> DEFINE Screens ==
      [state : {"idle", "requesting_microphone", "registering", "registered", "failed"},
       call : {"none", "answering", "active"}]
<1> DEFINE Preserved ==
      /\ current' \in Effects \cup {NoPhone}
      /\ phone' \in [Effects -> PhoneRuns]
      /\ invitation' \in Invitations \cup {NoPhone}
      /\ ring' \in [Invitations -> Rings]
      /\ phoneShows' \in Screens
      /\ \A r \in Effects : RunInv(r)'
      /\ \A i \in Invitations : RingInv(i)'
<1> SUFFICES Preserved
  BY DEF SoftphoneInv, SoftphoneTypeOK, PhoneRuns, Rings
<1>1. /\ current \in Effects \cup {NoPhone}
      /\ phone \in [Effects -> PhoneRuns]
      /\ invitation \in Invitations \cup {NoPhone}
      /\ ring \in [Invitations -> Rings]
      /\ phoneShows \in Screens
  BY SoftphoneTypes DEF SoftphoneInv
<1>2. /\ \A r \in Effects : RunInv(r)
      /\ \A i \in Invitations : RingInv(i)
  BY DEF SoftphoneInv
<1>3. UNCHANGED phone /\ UNCHANGED current
      => phone' \in [Effects -> PhoneRuns] /\ \A r \in Effects : RunInv(r)'
  BY <1>1, <1>2 DEF RunInv
<1>4. ASSUME NEW s \in {"idle", "requesting_microphone", "registering", "registered", "failed"},
             NEW c \in {"none", "answering", "active"}, Showing(s, c)
      PROVE  phoneShows' \in Screens
  BY <1>4 DEF Showing
<1>5. phoneShows.state \in {"idle", "requesting_microphone", "registering", "registered",
                            "failed"}
      /\ phoneShows.call \in {"none", "answering", "active"}
  BY <1>1
\* The run r changes to p; the dialogs are left alone, and so is a user agent.
<1>6. ASSUME NEW r \in Effects, NEW p \in PhoneRuns,
             phone' = [phone EXCEPT ![r] = p], UNCHANGED ring,
             phone[r].agent \in {"running", "stopping"} => p.agent \in {"running", "stopping"}
      PROVE  \A i \in Invitations : RingInv(i)'
  <2>1. phone'[r] = p /\ \A s \in Effects : s # r => phone'[s] = phone[s]
    BY <1>1, <1>6
  <2>2. \A s \in Effects : phone'[s].agent \in {"running", "stopping"}
                           \/ phone[s].agent \notin {"running", "stopping"}
    BY <2>1, <1>6
  <2> QED
    BY <1>1, <1>6, <2>2, RingsEnd
<1> HIDE DEF Screens
<1>10. ASSUME NEW r \in Effects, EffectRuns(r) PROVE Preserved
  <2>1. PICK p : p = [phone[r] EXCEPT !.at = "microphone"]
    OBVIOUS
  <2>2. phone[r] = NotRun /\ phone[r] \in PhoneRuns
    BY <1>1, <1>2, <1>10 DEF EffectRuns, RunInv
  <2>9. ~phone[r].mic /\ phone[r].agent = "none" /\ ~phone[r].cleaned /\ ~phone[r].timer
    BY <2>2 DEF NotRun
  <2>3. p \in PhoneRuns /\ p.at = "microphone" /\ ~p.mic /\ p.agent = "none" /\ ~p.cleaned /\ ~p.timer
    BY <2>1, <2>2, <2>9 DEF PhoneRuns
  <2>4. phone' = [phone EXCEPT ![r] = p] /\ current' = r /\ current = NoPhone
    BY <2>1, <1>10 DEF EffectRuns, Reaches
  <2>5. phone' \in [Effects -> PhoneRuns] /\ \A s \in Effects : RunInv(s)'
    BY <2>3, <2>4, RunChanges, SoftphoneAssumption DEF Early
  <2>6. UNCHANGED <<invitation, ring>> /\ Showing("requesting_microphone", "none")
    BY <1>10 DEF EffectRuns
  <2>7. \A i \in Invitations : RingInv(i)'
    BY <1>6, <2>9, <2>3, <2>4, <2>6
  <2>8. phoneShows' \in Screens
    BY <2>6, <1>4
  <2> QED
    BY <1>1, <2>4, <2>5, <2>6, <2>7, <2>8
<1>11. ASSUME NEW r \in Effects, EffectCleanup(r) PROVE Preserved
  <2>0. phone[r] \in PhoneRuns /\ RunInv(r) /\ current = r
    BY <1>1, <1>2, <1>11 DEF EffectCleanup
  <2>1. PICK q : q = StopBegun(phone[r])
    OBVIOUS
  <2>2. /\ q \in PhoneRuns /\ q.cleaned /\ ~q.timer /\ q.registerer = "none"
        /\ q.agent # "running" /\ (q.agent = "none" <=> phone[r].agent = "none")
        /\ phone[r].agent \in {"running", "stopping"} => q.agent = "stopping"
        /\ q.at = phone[r].at
    BY <2>0, <2>1, StopBegunLetsGo DEF RunInv
  <2>3. PICK p : p = [q EXCEPT !.mic = FALSE]
    OBVIOUS
  <2>4. /\ p \in PhoneRuns /\ p.cleaned /\ ~p.timer /\ p.registerer = "none" /\ ~p.mic
        /\ p.agent = q.agent /\ p.at = q.at
    BY <2>2, <2>3 DEF PhoneRuns
  <2>5. phone' = [phone EXCEPT ![r] = p] /\ current' = NoPhone /\ invitation' = NoPhone
        /\ Showing("idle", "none")
    BY <2>1, <2>3, <1>11 DEF EffectCleanup
  <2>6. r # NoPhone /\ \A s \in Effects : s # r => (s = current' <=> s = current)
    BY <2>5, <2>0, SoftphoneAssumption
  <2>7. p.at # "unused" /\ (p.at \in Early => p.agent = "none")
    BY <2>0, <2>2, <2>4 DEF RunInv
  <2>8. phone' \in [Effects -> PhoneRuns] /\ \A s \in Effects : RunInv(s)'
    <3>1. current' \in Effects \cup {NoPhone} /\ (r # current')
      BY <2>5, <2>6
    <3> QED
      BY <2>2, <2>4, <2>5, <2>6, <2>7, <3>1, RunChanges
  <2>9. PICK gone : ring' = Hung(ring, gone)
    BY <1>11 DEF EffectCleanup
  <2>10. /\ ring' \in [Invitations -> Rings]
         /\ \A i \in Invitations : ring'[i] = ring[i] \/ ring'[i].state = "ended"
    BY <1>1, <2>9, HungEnds
  <2>11. \A s \in Effects : phone'[s].agent \in {"running", "stopping"}
                            \/ phone[s].agent \notin {"running", "stopping"}
    <3>1. phone'[r] = p /\ \A s \in Effects : s # r => phone'[s] = phone[s]
      BY <1>1, <2>5
    <3> QED
      BY <3>1, <2>2, <2>4
  <2>12. \A i \in Invitations : RingInv(i)'
    BY <2>10, <2>11, RingsEnd
  <2>13. phoneShows' \in Screens
    BY <2>5, <1>4
  <2> QED
    BY <2>5, <2>8, <2>10, <2>12, <2>13
<1>12. ASSUME NEW r \in Effects, MicrophoneOpens(r) PROVE Preserved
  <2>1. PICK p : p = [phone[r] EXCEPT !.at = "devices", !.mic = TRUE]
    OBVIOUS
  <2>2. phone[r] \in PhoneRuns /\ RunInv(r) /\ phone[r].at = "microphone"
    BY <1>1, <1>2, <1>12 DEF MicrophoneOpens
  <2>3. p \in PhoneRuns /\ p.at = "devices" /\ p.agent = phone[r].agent /\ p.cleaned = phone[r].cleaned
        /\ p.timer = phone[r].timer /\ p.registerer = phone[r].registerer
    BY <2>1, <2>2 DEF PhoneRuns
  <2>4. phone' = [phone EXCEPT ![r] = p] /\ UNCHANGED <<current, invitation, ring, phoneShows>>
    BY <2>1, <1>1, <1>12 DEF MicrophoneOpens, PhoneRuns
  <2>5. phone' \in [Effects -> PhoneRuns] /\ \A s \in Effects : RunInv(s)'
    BY <1>1, <2>2, <2>3, <2>4, RunChanges DEF Early, RunInv
  <2>6. \A i \in Invitations : RingInv(i)'
    BY <1>6, <2>2, <2>3, <2>4
  <2> QED
    BY <1>1, <2>4, <2>5, <2>6
<1>13. ASSUME NEW r \in Effects, DevicesListed(r) PROVE Preserved
  <2>1. PICK p : p = [phone[r] EXCEPT !.mic = FALSE,
                        !.at = IF r = current THEN "provisioning" ELSE "over"]
    OBVIOUS
  <2>2. phone[r] \in PhoneRuns /\ RunInv(r) /\ phone[r].at = "devices"
    BY <1>1, <1>2, <1>13 DEF DevicesListed
  <2>3. p \in PhoneRuns /\ p.agent = phone[r].agent /\ p.cleaned = phone[r].cleaned
        /\ p.timer = phone[r].timer /\ p.registerer = phone[r].registerer /\ ~p.mic
        /\ p.at = IF r = current THEN "provisioning" ELSE "over"
    BY <2>1, <2>2 DEF PhoneRuns
  <2>4. phone' = [phone EXCEPT ![r] = p] /\ UNCHANGED <<current, invitation, ring>>
        /\ (Showing("registering", "none") \/ UNCHANGED phoneShows)
    BY <2>1, <1>1, <1>13 DEF DevicesListed, PhoneRuns
  <2>5. phone' \in [Effects -> PhoneRuns] /\ \A s \in Effects : RunInv(s)'
    BY <1>1, <2>2, <2>3, <2>4, RunChanges DEF Early, RunInv
  <2>6. \A i \in Invitations : RingInv(i)'
    BY <1>6, <2>2, <2>3, <2>4
  <2>7. phoneShows' \in Screens
    BY <1>1, <2>4, <1>4
  <2> QED
    BY <1>1, <2>4, <2>5, <2>6, <2>7
<1>14. ASSUME NEW r \in Effects, Provisioned(r) PROVE Preserved
  <2>1. PICK p : p = IF r = current
                     THEN [phone[r] EXCEPT !.at = "starting", !.agent = "running",
                                           !.registerer = "held"]
                     ELSE [phone[r] EXCEPT !.at = "over"]
    OBVIOUS
  <2>2. phone[r] \in PhoneRuns /\ RunInv(r) /\ phone[r].at = "provisioning"
    BY <1>1, <1>2, <1>14 DEF Provisioned
  <2>3. ~phone[r].mic /\ phone[r].agent = "none" /\ (r = current => ~phone[r].cleaned)
    BY <2>2 DEF RunInv, Early
  <2>4. p \in PhoneRuns /\ p.at \in {"starting", "over"} /\ ~p.mic
        /\ p.cleaned = phone[r].cleaned
    BY <2>1, <2>2, <2>3 DEF PhoneRuns
  <2>5. p.cleaned => ~p.timer /\ p.registerer = "none" /\ p.agent # "running"
    BY <2>1, <2>2, <2>3, <2>4 DEF PhoneRuns, RunInv
  <2>6. phone' = [phone EXCEPT ![r] = p] /\ UNCHANGED <<current, invitation, ring, phoneShows>>
    BY <2>1, <1>1, <1>14 DEF Provisioned
  <2>7. phone' \in [Effects -> PhoneRuns] /\ \A s \in Effects : RunInv(s)'
    BY <1>1, <2>2, <2>4, <2>5, <2>6, RunChanges DEF Early, RunInv
  <2>8. \A i \in Invitations : RingInv(i)'
    BY <1>6, <2>3, <2>4, <2>6
  <2> QED
    BY <1>1, <2>6, <2>7, <2>8
\* Abandoned: only a run that is not current.
<1>15. ASSUME NEW r \in Effects, r # current, phone[r].at \notin {"unused", "over"},
              phone' = [phone EXCEPT ![r] = Abandoned(phone[r])], UNCHANGED <<current, ring>>
       PROVE  /\ phone' \in [Effects -> PhoneRuns]
              /\ \A s \in Effects : RunInv(s)'
              /\ \A i \in Invitations : RingInv(i)'
  <2>1. PICK p : p = Abandoned(phone[r])
    OBVIOUS
  <2>2. phone[r] \in PhoneRuns /\ RunInv(r)
    BY <1>1, <1>2
  <2>3. phone[r].cleaned /\ phone[r].registerer = "none"
    BY <2>2, <1>15 DEF RunInv
  <2>4. p \in PhoneRuns /\ p.at = "over" /\ ~p.mic /\ p.agent = phone[r].agent
        /\ p.cleaned = phone[r].cleaned /\ p.timer = phone[r].timer
        /\ p.registerer = phone[r].registerer
    BY <2>1, <2>2, <2>3 DEF PhoneRuns, Abandoned
  <2>5. phone' = [phone EXCEPT ![r] = p]
    BY <2>1, <1>15
  <2>6. phone' \in [Effects -> PhoneRuns] /\ \A s \in Effects : RunInv(s)'
    BY <1>1, <1>15, <2>2, <2>4, <2>5, RunChanges DEF Early, RunInv
  <2>7. \A i \in Invitations : RingInv(i)'
    BY <1>6, <1>15, <2>4, <2>5
  <2> QED
    BY <2>6, <2>7
\* StopBegun, where there was a user agent or a place past the early ones, and
\* wherever the run then is.
<1>16. ASSUME NEW r \in Effects, r = current, NEW p,
              \/ p = StopBegun(phone[r]) /\ phone[r].at \notin Early
              \/ p = [StopBegun(phone[r]) EXCEPT !.at = "over"],
              phone' = [phone EXCEPT ![r] = p], UNCHANGED <<current, ring>>
       PROVE  /\ phone' \in [Effects -> PhoneRuns]
              /\ \A s \in Effects : RunInv(s)'
              /\ \A i \in Invitations : RingInv(i)'
  <2>1. PICK q : q = StopBegun(phone[r])
    OBVIOUS
  <2>2. phone[r] \in PhoneRuns /\ RunInv(r)
    BY <1>1, <1>2
  <2>3. /\ q \in PhoneRuns /\ q.cleaned /\ ~q.timer /\ q.registerer = "none"
        /\ q.agent # "running"
        /\ phone[r].agent \in {"running", "stopping"} => q.agent = "stopping"
        /\ q.at = phone[r].at /\ q.mic = phone[r].mic
    BY <2>1, <2>2, StopBegunLetsGo DEF RunInv
  <2>4. /\ p \in PhoneRuns /\ p.cleaned /\ ~p.timer /\ p.registerer = "none"
        /\ p.agent = q.agent /\ p.mic = q.mic
        /\ (p.at = q.at /\ phone[r].at \notin Early) \/ p.at = "over"
    BY <1>16, <2>1, <2>3 DEF PhoneRuns
  <2>5. p.at # "unused" /\ p.at \notin Early
    BY <2>2, <2>3, <2>4, <1>16 DEF RunInv, Early
  <2>6. p.mic => p.at = "devices" \/ (p.at = "over" /\ r = current')
    BY <2>2, <2>3, <2>4, <1>16 DEF RunInv
  <2>7. phone' \in [Effects -> PhoneRuns] /\ \A s \in Effects : RunInv(s)'
    BY <1>1, <1>16, <2>3, <2>4, <2>5, <2>6, RunChanges
  <2>8. \A i \in Invitations : RingInv(i)'
    BY <1>6, <1>16, <2>3, <2>4
  <2> QED
    BY <2>7, <2>8
<1>17. ASSUME NEW r \in Effects, phone[r].at \notin {"unused", "over"}, Caught(r) PROVE Preserved
  <2>1. UNCHANGED <<current, invitation, ring>>
    BY <1>17 DEF Caught
  <2>2. phoneShows' \in Screens
    BY <1>1, <1>4, <1>5, <1>17 DEF Caught
  <2>3. /\ phone' \in [Effects -> PhoneRuns]
        /\ \A s \in Effects : RunInv(s)'
        /\ \A i \in Invitations : RingInv(i)'
    <3>1. CASE r = current
      BY <3>1, <2>1, <1>16, <1>17 DEF Caught
    <3>2. CASE r # current
      BY <3>2, <2>1, <1>15, <1>17 DEF Caught
    <3> QED
      BY <3>1, <3>2
  <2> QED
    BY <1>1, <2>1, <2>2, <2>3
<1>18. ASSUME NEW r \in Effects, AgentStarted(r) PROVE Preserved
  <2>1. phone[r].at = "starting" /\ phone[r] \in PhoneRuns /\ RunInv(r)
    BY <1>1, <1>2, <1>18 DEF AgentStarted
  <2>2. CASE r # current /\ phone' = [phone EXCEPT ![r] = Abandoned(phone[r])]
             /\ UNCHANGED <<current, invitation, ring, phoneShows>>
    BY <2>1, <2>2, <1>1, <1>15
  <2>3. CASE r = current /\ Caught(r)
    BY <2>1, <2>3, <1>17
  <2>4. CASE /\ r = current /\ phone[r].registerer = "held"
             /\ phone' = [phone EXCEPT ![r].at = "registering", ![r].timer = TRUE]
             /\ UNCHANGED <<current, invitation, ring, phoneShows>>
    <3>1. PICK p : p = [phone[r] EXCEPT !.at = "registering", !.timer = TRUE]
      OBVIOUS
    <3>2. p \in PhoneRuns /\ p.at = "registering" /\ p.agent = phone[r].agent
          /\ p.cleaned = phone[r].cleaned /\ p.mic = phone[r].mic
      BY <2>1, <3>1 DEF PhoneRuns
    <3>3. phone' = [phone EXCEPT ![r] = p]
      BY <2>4, <3>1, <1>1 DEF PhoneRuns
    <3>4. ~phone[r].cleaned /\ ~phone[r].mic
      BY <2>1, <2>4 DEF RunInv
    <3>5. phone' \in [Effects -> PhoneRuns] /\ \A s \in Effects : RunInv(s)'
      BY <1>1, <2>4, <3>2, <3>3, <3>4, RunChanges DEF Early
    <3>6. \A i \in Invitations : RingInv(i)'
      BY <1>6, <2>4, <3>2, <3>3
    <3> QED
      BY <1>1, <2>4, <3>5, <3>6
  <2> QED
    BY <1>18, <2>2, <2>3, <2>4 DEF AgentStarted
<1>19. ASSUME NEW r \in Effects, RegisterSent(r) PROVE Preserved
  <2>1. phone[r].at = "registering" /\ phone[r] \in PhoneRuns /\ RunInv(r)
        /\ UNCHANGED <<current, invitation, ring>>
    BY <1>1, <1>2, <1>19 DEF RegisterSent
  <2>2. phoneShows' \in Screens
    BY <1>1, <1>4, <1>5, <1>19 DEF RegisterSent
  <2>3. CASE r = current
    <3>1. PICK p : p = [phone[r] EXCEPT !.at = "over"]
      OBVIOUS
    <3>2. p \in PhoneRuns /\ p.at = "over" /\ p.agent = phone[r].agent
          /\ p.cleaned = phone[r].cleaned /\ p.mic = phone[r].mic
          /\ p.timer = phone[r].timer /\ p.registerer = phone[r].registerer
      BY <2>1, <3>1 DEF PhoneRuns
    <3>3. phone' = [phone EXCEPT ![r] = p]
      BY <2>3, <3>1, <1>1, <1>19 DEF RegisterSent
    <3>4. phone' \in [Effects -> PhoneRuns] /\ \A s \in Effects : RunInv(s)'
      BY <1>1, <2>1, <2>3, <3>2, <3>3, RunChanges DEF Early, RunInv
    <3>5. \A i \in Invitations : RingInv(i)'
      BY <1>6, <2>1, <3>2, <3>3
    <3> QED
      BY <1>1, <2>1, <2>2, <3>4, <3>5
  <2>4. CASE r # current
    <3>1. phone' = [phone EXCEPT ![r] = Abandoned(phone[r])]
      BY <2>4, <1>1, <1>19 DEF RegisterSent
    <3> QED
      BY <1>1, <2>1, <2>2, <2>4, <3>1, <1>15
  <2> QED
    BY <2>3, <2>4
<1>20. ASSUME NEW r \in Effects, RegisterThrows(r) PROVE Preserved
  BY <1>17, <1>20 DEF RegisterThrows
<1>21. ASSUME NEW r \in Effects, Registered(r) PROVE Preserved
  <2>1. PICK p : p = [phone[r] EXCEPT !.timer = FALSE]
    OBVIOUS
  <2>2. phone[r] \in PhoneRuns /\ RunInv(r) /\ phone[r].at \in {"registering", "over"}
    BY <1>1, <1>2, <1>21 DEF Registered
  <2>3. p \in PhoneRuns /\ p.agent = phone[r].agent /\ p.cleaned = phone[r].cleaned
        /\ ~p.timer /\ p.registerer = phone[r].registerer /\ p.mic = phone[r].mic
        /\ p.at = phone[r].at
    BY <2>1, <2>2 DEF PhoneRuns
  <2>4. phone' = [phone EXCEPT ![r] = p] /\ UNCHANGED <<current, invitation, ring>>
        /\ Showing("registered", phoneShows.call)
    BY <2>1, <1>1, <1>21 DEF Registered, PhoneRuns
  <2>5. phone' \in [Effects -> PhoneRuns] /\ \A s \in Effects : RunInv(s)'
    BY ZenonT(60), <1>1, <2>2, <2>3, <2>4, RunChanges DEF Early, RunInv
  <2>6. \A i \in Invitations : RingInv(i)'
    BY <1>6, <2>2, <2>3, <2>4
  <2>7. phoneShows' \in Screens
    BY <1>5, <2>4, <1>4
  <2> QED
    BY <1>1, <2>4, <2>5, <2>6, <2>7
<1>22. ASSUME NEW r \in Effects, RegistrationLost(r) PROVE Preserved
  <2>1. FailRegistration(r) /\ phone[r].at \notin Early
    BY <1>2, <1>22 DEF RegistrationLost, RunInv
  <2>2. UNCHANGED <<current, ring>> /\ invitation' \in Invitations \cup {NoPhone}
    BY <1>1, <2>1 DEF FailRegistration
  <2>3. phoneShows' \in Screens
    <3>1. Showing("failed", "none") \/ UNCHANGED phoneShows
      BY <2>1 DEF FailRegistration
    <3> QED
      BY <1>1, <1>4, <1>5, <3>1
  <2>4. CASE r = current
    <3>1. phone' = [phone EXCEPT ![r] = StopBegun(phone[r])]
      BY <2>1, <2>4 DEF FailRegistration
    <3>2. /\ phone' \in [Effects -> PhoneRuns]
          /\ \A s \in Effects : RunInv(s)'
          /\ \A i \in Invitations : RingInv(i)'
      BY <3>1, <2>1, <2>2, <2>4, <1>16
    <3> QED
      BY <1>1, <2>2, <2>3, <3>2
  <2>5. CASE r # current
    <3>1. UNCHANGED <<phone, current, ring>>
      BY <2>1, <2>2, <2>5 DEF FailRegistration
    <3>2. \A i \in Invitations : RingInv(i)'
      BY <1>2, <3>1 DEF RingInv
    <3> QED
      BY <1>1, <1>3, <2>2, <2>3, <3>1, <3>2
  <2> QED
    BY <2>4, <2>5
<1>23. ASSUME NEW r \in Effects, NEW gone \in SUBSET Invitations, Ended(r, gone)
       PROVE  /\ ring' \in [Invitations -> Rings]
              /\ \A i \in gone : ring'[i].state = "ended"
              /\ \A i \in Invitations : i \notin gone => ring'[i] = ring[i]
              /\ invitation' \in Invitations \cup {NoPhone}
              /\ phoneShows' \in Screens
  <2>1. ring' = Hung(ring, gone)
    BY <1>23 DEF Ended
  <2>2. invitation' \in Invitations \cup {NoPhone}
    BY <1>1, <1>23 DEF Ended
  <2>3. phoneShows' \in Screens
    BY <1>1, <1>4, <1>5, <1>23 DEF Ended
  <2> QED
    BY <1>1, <2>1, <2>2, <2>3, HungEnds
<1>24. ASSUME NEW r \in Effects, AgentStopped(r) PROVE Preserved
  <2>0. PICK gone : gone = {i \in Invitations : ring[i].run = r /\ ring[i].state \in InDialog}
    OBVIOUS
  <2>1. PICK p : p = [phone[r] EXCEPT !.agent = "stopped"]
    OBVIOUS
  <2>2. phone[r] \in PhoneRuns /\ RunInv(r) /\ phone[r].agent = "stopping"
    BY <1>1, <1>2, <1>24 DEF AgentStopped
  <2>3. p \in PhoneRuns /\ p.agent = "stopped" /\ p.cleaned = phone[r].cleaned
        /\ p.timer = phone[r].timer /\ p.registerer = phone[r].registerer
        /\ p.mic = phone[r].mic /\ p.at = phone[r].at
    BY <2>1, <2>2 DEF PhoneRuns
  <2>4. phone' = [phone EXCEPT ![r] = p] /\ UNCHANGED current /\ Ended(r, gone)
    BY <2>0, <2>1, <1>1, <1>24 DEF AgentStopped
  <2>5. p.at # "unused" /\ p.at \notin Early
    BY <2>2, <2>3 DEF RunInv, NotRun
  <2>6. phone' \in [Effects -> PhoneRuns] /\ \A s \in Effects : RunInv(s)'
    BY <1>1, <2>2, <2>3, <2>4, <2>5, RunChanges DEF RunInv
  <2>7. /\ ring' \in [Invitations -> Rings]
        /\ \A i \in gone : ring'[i].state = "ended"
        /\ \A i \in Invitations : i \notin gone => ring'[i] = ring[i]
        /\ invitation' \in Invitations \cup {NoPhone}
        /\ phoneShows' \in Screens
    BY <1>23, <2>0, <2>4
  <2>8. \A i \in Invitations : ring'[i] = ring[i] \/ ring'[i].state = "ended"
    BY <2>7
  <2>9. \A i \in Invitations : ring'[i].run = r => ring'[i].state \notin InDialog
    BY <2>0, <2>7 DEF InDialog
  <2>10. \A s \in Effects : s # r => phone'[s] = phone[s]
    BY <1>1, <2>4
  <2>11. \A i \in Invitations : RingInv(i)'
    BY <2>7, <2>8, <2>9, <2>10, RingsEnd
  <2> QED
    BY <1>1, <2>4, <2>6, <2>7, <2>11
<1>25. ASSUME NEW r \in Effects, NEW i \in Invitations, OnInvite(i, r) PROVE Preserved
  <2>1. /\ UNCHANGED <<current, phone>> /\ ring[i] = NotSent
        /\ phone[r].agent \in {"running", "stopping"}
    BY <1>25 DEF OnInvite
  <2>2. PICK x : /\ x \in Rings /\ x.run = r /\ x.state \in {"ended", "establishing"}
                 /\ ring' = [ring EXCEPT ![i] = x]
    <3>1. PICK a : a = [NotSent EXCEPT !.run = r, !.state = "ended"]
      OBVIOUS
    <3>2. PICK b : b = [run |-> r, state |-> "establishing", accepting |-> TRUE]
      OBVIOUS
    <3>3. a \in Rings /\ a.run = r /\ a.state = "ended"
      BY <3>1 DEF NotSent, Rings
    <3>4. b \in Rings /\ b.run = r /\ b.state = "establishing"
      BY <3>2 DEF Rings
    <3>5. ring' = [ring EXCEPT ![i] = a] \/ ring' = [ring EXCEPT ![i] = b]
      BY <3>1, <3>2, <1>25 DEF OnInvite
    <3> QED
      BY <3>3, <3>4, <3>5
  <2>3. ring'[i] = x /\ \A j \in Invitations : j # i => ring'[j] = ring[j]
    BY <1>1, <2>2
  <2>4. ring' \in [Invitations -> Rings]
    BY <1>1, <2>2
  <2>5. ASSUME NEW j \in Invitations PROVE RingInv(j)'
    <3>1. CASE j = i
      BY <2>1, <2>2, <2>3, <3>1 DEF RingInv
    <3>2. CASE j # i
      BY <1>2, <2>1, <2>3, <3>2 DEF RingInv
    <3> QED
      BY <3>1, <3>2
  <2>6. invitation' \in Invitations \cup {NoPhone}
    BY <1>1, <1>25 DEF OnInvite
  <2>7. phoneShows' \in Screens
    BY <1>1, <1>4, <1>5, <1>25 DEF OnInvite
  <2> QED
    BY <1>1, <1>3, <2>1, <2>4, <2>5, <2>6, <2>7
<1>26. ASSUME NEW i \in Invitations, Accepted(i) PROVE Preserved
  <2>1. UNCHANGED <<current, phone, invitation>> /\ ring[i].state = "establishing"
    BY <1>26 DEF Accepted
  <2>2. PICK x : x = [ring[i] EXCEPT !.accepting = FALSE,
                        !.state = IF ring[i].run = current THEN "established" ELSE "ended"]
    OBVIOUS
  <2>3. x \in Rings /\ x.run = ring[i].run /\ x.state \in {"established", "ended"}
    BY <1>1, <2>2 DEF Rings
  <2>4. ring' = [ring EXCEPT ![i] = x]
    BY <2>2, <1>1, <1>26 DEF Accepted, Rings
  <2>5. ring'[i] = x /\ \A j \in Invitations : j # i => ring'[j] = ring[j]
    BY <1>1, <2>4
  <2>6. ring' \in [Invitations -> Rings]
    BY <1>1, <2>3, <2>4
  <2>7. ASSUME NEW j \in Invitations PROVE RingInv(j)'
    <3>1. CASE j = i
      BY <1>2, <2>1, <2>3, <2>5, <3>1 DEF RingInv, InDialog
    <3>2. CASE j # i
      BY <1>2, <2>1, <2>5, <3>2 DEF RingInv
    <3> QED
      BY <3>1, <3>2
  <2>8. phoneShows' \in Screens
    BY <1>1, <1>4, <1>5, <1>26 DEF Accepted
  <2> QED
    BY <1>1, <1>3, <2>1, <2>6, <2>7, <2>8
<1>27. ASSUME NEW i \in Invitations, RefusedLate(i) PROVE Preserved
  <2>1. UNCHANGED <<current, phone>>
    BY <1>27 DEF RefusedLate
  <2>2. PICK x : x = [ring[i] EXCEPT !.accepting = FALSE, !.state = "ended"]
    OBVIOUS
  <2>3. x \in Rings /\ x.state = "ended"
    BY <1>1, <2>2 DEF Rings
  <2>4. ring' = [ring EXCEPT ![i] = x]
    BY <2>2, <1>1, <1>27 DEF RefusedLate, Rings
  <2>5. ring' \in [Invitations -> Rings]
        /\ \A j \in Invitations : ring'[j] = ring[j] \/ ring'[j].state = "ended"
    BY <1>1, <2>3, <2>4
  <2>6. \A j \in Invitations : RingInv(j)'
    BY <2>1, <2>5, RingsEnd
  <2>7. invitation' \in Invitations \cup {NoPhone}
    BY <1>1, <1>27 DEF RefusedLate
  <2>8. phoneShows' \in Screens
    BY <1>1, <1>4, <1>5, <1>27 DEF RefusedLate
  <2> QED
    BY <1>1, <1>3, <2>1, <2>5, <2>6, <2>7, <2>8
<1>28. ASSUME NEW i \in Invitations, RemoteEnds(i) PROVE Preserved
  <2>1. UNCHANGED <<current, phone>> /\ ring[i].run \in Effects /\ Ended(ring[i].run, {i})
    BY <1>2, <1>28 DEF RemoteEnds, RingInv
  <2>2. /\ ring' \in [Invitations -> Rings]
        /\ \A j \in {i} : ring'[j].state = "ended"
        /\ \A j \in Invitations : j \notin {i} => ring'[j] = ring[j]
        /\ invitation' \in Invitations \cup {NoPhone}
        /\ phoneShows' \in Screens
    BY <1>23, <2>1
  <2>3. \A j \in Invitations : RingInv(j)'
    BY <2>1, <2>2, RingsEnd
  <2> QED
    BY <1>1, <1>3, <2>1, <2>2, <2>3
<1>29. ASSUME HangUpPhone PROVE Preserved
  <2>1. UNCHANGED <<current, phone>> /\ invitation' = NoPhone /\ ring' = Hung(ring, {invitation})
    BY <1>29 DEF HangUpPhone
  <2>2. ring' \in [Invitations -> Rings]
        /\ \A j \in Invitations : ring'[j] = ring[j] \/ ring'[j].state = "ended"
    BY <1>1, <2>1, HungEnds
  <2>3. \A j \in Invitations : RingInv(j)'
    BY <2>1, <2>2, RingsEnd
  <2>4. phoneShows' \in Screens
    BY <1>4, <1>5, <1>29 DEF HangUpPhone
  <2> QED
    BY <1>1, <1>3, <2>1, <2>2, <2>3, <2>4
<1>30. CASE UNCHANGED phoneVars
  BY <1>1, <1>2, <1>30 DEF phoneVars, RunInv, RingInv
<1>31. CASE SoftphoneNext
  BY <1>31, <1>10, <1>11, <1>12, <1>13, <1>14, <1>18, <1>19, <1>20, <1>21, <1>22, <1>24,
     <1>25, <1>26, <1>27, <1>28, <1>29 DEF SoftphoneNext
<1> QED
  BY <1>30, <1>31

\* A run that is over and not current holds nothing: it was cleaned up, and
\* its dialogs ended with its user agent.
LEMMA SoftphoneIsStopped == SoftphoneInv => AbandonedPhoneIsStopped
<1> SUFFICES ASSUME SoftphoneInv, NEW r \in Effects, r # current,
                    phone[r].at \in {"unused", "over"}, phone[r].agent # "stopping"
             PROVE  /\ ~phone[r].mic /\ ~phone[r].timer
                    /\ phone[r].agent # "running"
                    /\ \A i \in Invitations : ring[i].run = r => ring[i].state = "ended"
  BY DEF AbandonedPhoneIsStopped
<1>1. RunInv(r) /\ phone[r] \in PhoneRuns
  BY SoftphoneTypes DEF SoftphoneInv
<1>2. ~phone[r].mic /\ ~phone[r].timer /\ phone[r].agent # "running"
  BY <1>1 DEF RunInv, NotRun
<1>3. ASSUME NEW i \in Invitations, ring[i].run = r PROVE ring[i].state = "ended"
  <2>1. RingInv(i) /\ ring[i] \in Rings
    BY SoftphoneTypes DEF SoftphoneInv
  <2> QED
    BY <1>2, <1>3, <2>1, SoftphoneAssumption DEF RingInv, InDialog, Rings
<1> QED
  BY <1>2, <1>3
==============================================================================
