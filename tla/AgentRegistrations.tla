------------------------- MODULE AgentRegistrations -------------------------
(***************************************************************************)
(* Who is registered at FreeSWITCH, as the API knows it: registration      *)
(* events of agents, persisted one by one when they are not lost, and the  *)
(* reconciler that every five seconds copies FreeSWITCH's list of agents   *)
(* and supervisor endpoints into the database, statement by statement      *)
(* (agent-registrations.ts, esl-events.ts).  The list is already old when  *)
(* it is written, and an event may be persisted in between.                *)
(***************************************************************************)
EXTENDS Naturals, Sequences, FiniteSets

CONSTANTS AgentPhones, SupervisorPhones,
          MaxMoves,     \* bound on registrations, expiries and calls
          MaxFailedRuns \* bound on runs that fail

ASSUME RegistrationsAssumption == /\ AgentPhones \cap SupervisorPhones = {}
                                  /\ MaxMoves \in Nat /\ MaxFailedRuns \in Nat

VARIABLES online,    \* phones registered at FreeSWITCH
          enrolled,  \* agents.registered and admin_supervisor_endpoints.registered
          status,    \* agents.status
          calling,   \* agents with an open call
          events,    \* registration events on their way, in order
          pass,      \* the reconciler's run: where it is, FreeSWITCH's list
          report,    \* telephony_observability_state
          moves, failedRuns
registrationsVars == <<online, enrolled, status, calling, events, pass, report, moves, failedRuns>>

AllPhones == AgentPhones \cup SupervisorPhones
NoRun == [at |-> "idle", list |-> {}, drift |-> 0]

RegistrationsInit ==
  /\ online = {} /\ enrolled = {} /\ calling = {}
  /\ status = [a \in AgentPhones |-> "offline"]
  /\ events = <<>>
  /\ pass = NoRun
  /\ report = [status |-> "none", drift |-> 0]
  /\ moves = 0 /\ failedRuns = 0

\* The status that a registration, or its end, leaves an agent with; the
\* same expression in the event's update and in the reconciler's.
StatusAfter(a, isOnline) ==
  CASE isOnline /\ status[a] = "offline" -> "ready"
    [] ~isOnline /\ status[a] = "ready" /\ a \notin calling -> "offline"
    [] OTHER -> status[a]

-----------------------------------------------------------------------------
(* Phones, events and calls.                                               *)

Move == moves < MaxMoves /\ moves' = moves + 1

\* A phone registers, or its registration ends; an agent's makes an event,
\* which the listener may lose.
PhoneMoves(p) ==
  /\ Move
  /\ online' = IF p \in online THEN online \ {p} ELSE online \cup {p}
  /\ events' \in {events} \cup IF p \in AgentPhones
                               THEN {Append(events, [phone |-> p, online |-> p \notin online])} ELSE {}
  /\ UNCHANGED <<enrolled, status, calling, pass, report, failedRuns>>

\* persistAgentRegistrationEvent.
PersistEvent ==
  /\ events # <<>>
  /\ LET event == Head(events)
     IN /\ enrolled' = IF event.online THEN enrolled \cup {event.phone}
                         ELSE enrolled \ {event.phone}
        /\ status' = [status EXCEPT ![event.phone] = StatusAfter(event.phone, event.online)]
  /\ events' = Tail(events)
  /\ UNCHANGED <<online, calling, pass, report, moves, failedRuns>>

\* createDialerCall needs a registered agent; finalizeCallTransaction, and
\* the release to the background, give it the status its registration asks for.
CallMoves(a) ==
  /\ Move
  /\ \/ a \in enrolled /\ a \notin calling
        /\ calling' = calling \cup {a} /\ status' = [status EXCEPT ![a] = "in_call"]
     \/ a \in calling /\ calling' = calling \ {a}
        /\ status' = [status EXCEPT ![a] = IF a \in enrolled THEN "ready" ELSE "offline"]
     \/ a \in calling /\ status[a] = "in_call" /\ UNCHANGED calling
        /\ status' = [status EXCEPT ![a] = IF a \in enrolled THEN "ready" ELSE "offline"]
  /\ UNCHANGED <<online, enrolled, events, pass, report, failedRuns>>

-----------------------------------------------------------------------------
(* The reconciler.                                                         *)

\* The interval, unless the last run is still under way.
Tick ==
  /\ pass.at = "idle"
  /\ pass' = [pass EXCEPT !.at = "list"]
  /\ UNCHANGED <<online, enrolled, status, calling, events, report, moves, failedRuns>>

\* sofia status profile internal-webrtc reg.
ListRegistrations ==
  /\ pass.at = "list"
  /\ pass' = [pass EXCEPT !.at = "compare", !.list = online]
  /\ UNCHANGED <<online, enrolled, status, calling, events, report, moves, failedRuns>>

\* The names of the supervisor endpoints are taken out of the agents' list;
\* the drift is what agents.registered differs from it.
CompareRegistrations ==
  /\ pass.at = "compare"
  /\ LET listed == pass.list \ SupervisorPhones
         stored == enrolled \cap AgentPhones
     IN pass' = [pass EXCEPT !.at = "agents", !.drift = Cardinality((listed \ stored) \cup (stored \ listed))]
  /\ UNCHANGED <<online, enrolled, status, calling, events, report, moves, failedRuns>>

\* Faulty: only phones that are listed are looked at.
UpdateListedAgents ==
  /\ pass.at = "agents"
  /\ enrolled' = enrolled \cup (pass.list \cap AgentPhones)
  /\ status' = [a \in AgentPhones |-> IF a \in pass.list THEN StatusAfter(a, TRUE) ELSE status[a]]
  /\ pass' = [pass EXCEPT !.at = "endpoints"]
  /\ UNCHANGED <<online, calling, events, report, moves, failedRuns>>

UpdateAgents ==
  /\ pass.at = "agents"
  /\ enrolled' = (enrolled \ AgentPhones) \cup (pass.list \cap AgentPhones)
  /\ status' = [a \in AgentPhones |-> StatusAfter(a, a \in pass.list)]
  /\ pass' = [pass EXCEPT !.at = "endpoints"]
  /\ UNCHANGED <<online, calling, events, report, moves, failedRuns>>

UpdateEndpoints ==
  /\ pass.at = "endpoints"
  /\ enrolled' = (enrolled \ SupervisorPhones) \cup (pass.list \cap SupervisorPhones)
  /\ pass' = [pass EXCEPT !.at = "record"]
  /\ UNCHANGED <<online, status, calling, events, report, moves, failedRuns>>

RecordRun ==
  /\ pass.at = "record"
  /\ report' = [status |-> "ok", drift |-> pass.drift]
  /\ pass' = NoRun
  /\ UNCHANGED <<online, enrolled, status, calling, events, moves, failedRuns>>

\* A command or a statement fails; what the run has written stays, and the
\* failure is recorded if the database lets it.
RunFails ==
  /\ pass.at # "idle" /\ failedRuns < MaxFailedRuns
  /\ failedRuns' = failedRuns + 1
  /\ report' \in {report, [report EXCEPT !.status = "failed"]}
  /\ pass' = NoRun
  /\ UNCHANGED <<online, enrolled, status, calling, events, moves>>

RunGoesOn == ListRegistrations \/ CompareRegistrations \/ UpdateAgents \/ UpdateEndpoints \/ RecordRun

RegistrationsNext ==
  \/ \E p \in AllPhones : PhoneMoves(p)
  \/ \E a \in AgentPhones : CallMoves(a)
  \/ PersistEvent \/ Tick \/ RunGoesOn \/ RunFails

\* The timer fires, commands time out, and the event queue is worked off.
RegistrationsFairness ==
  /\ WF_registrationsVars(PersistEvent)
  /\ WF_registrationsVars(Tick)
  /\ WF_registrationsVars(RunGoesOn)

RegistrationsSpec == RegistrationsInit /\ [][RegistrationsNext]_registrationsVars /\ RegistrationsFairness

-----------------------------------------------------------------------------
(* Properties.                                                             *)

RegistrationsTypeOK ==
  /\ online \subseteq AllPhones /\ enrolled \subseteq AllPhones /\ calling \subseteq AgentPhones
  /\ status \in [AgentPhones -> {"offline", "ready", "in_call"}]
  /\ pass.at \in {"idle", "list", "compare", "agents", "endpoints", "record"} /\ pass.list \subseteq AllPhones
  /\ report.status \in {"none", "ok", "failed"}

\* Once phones and calls stay as they are, the database comes to say of each
\* phone what FreeSWITCH says, shows an agent as ready just if it may be
\* called, and reports no drift, whatever events were lost or were applied
\* in the middle of a run and whichever runs failed half way.
RegistrationsAgree ==
  <>[](/\ enrolled = online
       /\ \A a \in AgentPhones \ calling : status[a] = IF a \in online THEN "ready" ELSE "offline"
       /\ report = [status |-> "ok", drift |-> 0])
=============================================================================
