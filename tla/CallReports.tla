---------------------------- MODULE CallReports ----------------------------
(***************************************************************************)
(* What the read models say of the rows of CallStore.  Every page, report  *)
(* and gauge has a query of its own with its own copy of the predicates on *)
(* state, outcome and ended_at (dashboard/responders.ts, supervisor.ts and *)
(* analytics.ts, metrics.ts); each is here the set of calls that its WHERE *)
(* or FILTER clause keeps.  Ages, limits, names and counts are left out.   *)
(***************************************************************************)
EXTENDS CallStore, Naturals, FiniteSets

Rows == {c \in Calls : Exists(call[c])}

\* The list of states that the queries exclude from live calls.
NotLive == Terminal \cup {"agent_released"}

-----------------------------------------------------------------------------
(* The agent's desk.                                                       *)

\* getActiveCall, of which the newest is shown.
DeskCalls(a) == {c \in Rows : /\ call[c].agent = a
                                 /\ ~call[c].ended /\ call[c].state \notin NotLive}

\* Faulty: a released call is not yet listed.
RecentWithoutReleased(a) ==
  {c \in Rows : call[c].agent = a /\ call[c].state \in Terminal}

\* getAgentRecentCalls.
RecentCalls(a) == {c \in Rows : call[c].agent = a /\ call[c].state \in NotLive}

\* getActiveCallActions: the drop and the tones are offered.
ActionsOffered(c) == leg[c].customer.uuid /\ call[c].state = "bridged"

\* getAgentVoicemailJobs.
DeskVoicemailJobs(a) == {c \in Rows : call[c].agent = a /\ call[c].requested}

\* getLeadQueue: the lead is shown as ready to be called.
LeadReady(k) == contact[k] \notin {"calling", "completed"}

-----------------------------------------------------------------------------
(* The administrator's pages.                                              *)

\* getAdminStats, and the agents it counts as active.
LiveCalls == {c \in Rows : ~call[c].ended /\ call[c].state \notin NotLive}
FailedCalls == {c \in Rows : call[c].outcome = "failed"}
ActiveAgents == {a \in Agents : agent[a].status \in {"ready", "in_call"}}

\* getAdminLiveCalls: calls a supervisor may choose.
ChoosableCalls == {c \in Rows : /\ ~call[c].ended /\ call[c].state = "bridged"
                                   /\ \A t \in LegTypes : leg[c][t].uuid /\ ~leg[c][t].ended}

\* requireMonitorableCall, which the choice is checked with.
Monitorable(c) ==
  /\ Exists(call[c]) /\ ~call[c].ended /\ call[c].state = "bridged"
  /\ leg[c].agent.uuid /\ ~leg[c].agent.ended
  /\ leg[c].customer.uuid /\ ~leg[c].customer.ended

-----------------------------------------------------------------------------
(* Analytics.                                                              *)

Voicemails == {"voicemail_detected", "voicemail_dropped"}

\* connectedPredicate and the columns of overviewSql.
Attempts  == Rows
Answered  == {c \in Attempts : call[c].answered}
Connected == {c \in Answered : call[c].outcome \notin Voicemails}
Talked    == {c \in Connected : call[c].ended}
Completed == {c \in Answered : /\ call[c].ended /\ call[c].outcome # "none"
                               /\ call[c].outcome \notin Voicemails \cup {"failed"}}
Requested == {c \in Attempts : call[c].requested}
Released  == {c \in Attempts : call[c].released}

\* campaignSql and dataQualitySql: leads that may be called.
CallableLeads == {k \in Contacts : contact[k] # "completed"}

\* agentSql: whether the agent is in a call.
AgentInCall(a) == \E c \in Rows : /\ call[c].agent = a /\ ~call[c].ended
                                     /\ call[c].state \notin NotLive

-----------------------------------------------------------------------------
(* Gauges.                                                                 *)

\* The snapshot and the window of refreshDatabaseMetrics.
ActiveCallsGauge == {c \in Rows : ~call[c].ended /\ call[c].state \notin NotLive}
VoicemailJobsGauge == {c \in Rows : ~call[c].ended /\ call[c].state \in VoicemailActive}
FailedGauge == {c \in Rows : call[c].ended /\ (call[c].state = "failed" \/ call[c].outcome = "failed")}

-----------------------------------------------------------------------------
(* Properties.                                                             *)

\* The desk accounts for every call of the agent once: it is the one in the
\* panel or in the list of recent ones, never in both or in neither, and
\* there is never a second one that the panel's limit would hide.
DeskAccounts ==
  \A a \in Agents :
    /\ DeskCalls(a) \cup RecentCalls(a) = {c \in Rows : call[c].agent = a}
    /\ DeskCalls(a) \cap RecentCalls(a) = {}
    /\ Cardinality(DeskCalls(a)) <= 1

\* The copies of the predicates do not drift apart: every open call is in a
\* gauge, an agent with a live call is counted as active, who may be chosen
\* for monitoring may be monitored, a failure is counted in the same way by
\* the statistics and by the gauge, whatever analytics call completed has
\* talk time, a released call is among the desk's voicemail jobs and no
\* longer its live call, and a lead in an open call is not shown as ready.
ReportsAgree ==
  /\ DeskAccounts
  /\ \A c \in Rows :
       /\ Active(call[c]) <=> c \in ActiveCallsGauge \cup VoicemailJobsGauge
       /\ c \in FailedCalls <=> c \in FailedGauge
       /\ c \in Completed => c \in Talked
       /\ c \in ChoosableCalls => Monitorable(c) /\ c \in LiveCalls
       /\ AgentInCall(call[c].agent) => call[c].agent \in ActiveAgents
       /\ c \in DeskCalls(call[c].agent) => ~(ActionsOffered(c) /\ c \in Released)
       /\ c \in Released =>
            c \in DeskVoicemailJobs(call[c].agent) \ DeskCalls(call[c].agent)
       /\ Active(call[c]) /\ call[c].contact # NoContact => ~LeadReady(call[c].contact)
  /\ \A k \in Contacts : LeadReady(k) => k \in CallableLeads
=============================================================================
