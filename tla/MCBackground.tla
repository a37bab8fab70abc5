---------------------------- MODULE MCBackground ----------------------------
(* The components whose promise is that something happens in the end.      *)
(* They share no state, so a behaviour runs one of them, chosen at the     *)
(* beginning, and leaves the others in their initial states.               *)
EXTENDS EventListener, EarlyMediaFallback, RecordingFinalizer, AgentRegistrations

VARIABLE part   \* the component that runs

backgroundVars ==
  <<vars, mediaVars, callVars, recordingVars, registrationsVars, part>>

BackgroundInit ==
  /\ Init /\ MediaInit /\ EndedCallInit /\ RecordingInit /\ RegistrationsInit
  /\ part \in {"listener", "media", "recording", "registrations"}

ListenerRuns ==
  /\ part = "listener" /\ Next
  /\ UNCHANGED <<mediaVars, callVars, recordingVars, registrationsVars, part>>

MediaRuns ==
  /\ part = "media" /\ MediaNext
  /\ UNCHANGED <<vars, callVars, recordingVars, registrationsVars, part>>

GraceEnds == PeriodEnds /\ over' = {"grace"}

RecordingRuns ==
  /\ part = "recording"
  /\ \/ RecordingNext
     \/ (CallEnds \/ GraceEnds) /\ UNCHANGED recordingVars
  /\ UNCHANGED <<vars, mediaVars, registrationsVars, part>>

RegistrationsRun ==
  /\ part = "registrations" /\ RegistrationsNext
  /\ UNCHANGED <<vars, mediaVars, callVars, recordingVars, part>>

BackgroundNext == ListenerRuns \/ MediaRuns \/ RecordingRuns \/ RegistrationsRun

(* The fairness of each component, while it is the one that runs.          *)
BackgroundFairness ==
  /\ WF_vars(part = "listener" /\ \E n \in 1 .. MaxEvents : Data(n))
  /\ WF_vars(part = "listener" /\ socket = "destroyed" /\ Close)
  /\ WF_vars(part = "listener" /\ Connect)
  /\ WF_vars(part = "listener" /\ Subscribe)
  /\ WF_vars(part = "listener" /\ HandlerDone)
  /\ WF_vars(part = "listener" /\ RetryTimer)
  /\ WF_vars(part = "listener" /\ ReconcileEnds)
  /\ WF_mediaVars(part = "media" /\ Handle)
  /\ WF_mediaVars(part = "media" /\ Poll)
  /\ WF_mediaVars(part = "media" /\ OperationStarts)
  /\ WF_mediaVars(part = "media" /\ InspectMedia)
  /\ WF_mediaVars(part = "media" /\ InstallHook)
  /\ WF_mediaVars(part = "media" /\ Broadcast)
  /\ WF_mediaVars(part = "media" /\ Break)
  /\ WF_callVars(part = "recording" /\ GraceEnds)
  /\ WF_recordingVars(part = "recording" /\ (RecordingStarts \/ RecordingStartFails))
  /\ WF_recordingVars(part = "recording" /\ UndoPath)
  /\ WF_recordingVars(part = "recording" /\ ClaimGoesStale)
  /\ \A r \in Runs : WF_recordingVars(part = "recording" /\ RunStep(r))
  /\ WF_registrationsVars(part = "registrations" /\ PersistEvent)
  /\ WF_registrationsVars(part = "registrations" /\ Tick)
  /\ WF_registrationsVars(part = "registrations" /\ RunGoesOn)

BackgroundSpec == BackgroundInit /\ [][BackgroundNext]_backgroundVars /\ BackgroundFairness

\* Types of the variables of every component.
BackgroundTypeOK == TypeOK /\ MediaTypeOK /\ RecordingTypeOK /\ RegistrationsTypeOK

\* The promises of the components, each of them about the behaviours in which
\* the component runs.  The listener starts nothing after a shutdown; it
\* reconciles what was lost on a connection, and a reconciliation that waits
\* for the event queue gets its turn.
ListenerRecovers ==
  /\ QuietAfterStop
  /\ part = "listener" => LossIsReconciled /\ ReconciliationRuns

\* The tone never starts again, leaves the conversation, and the polling ends
\* with the call.
ToneEnds ==
  /\ NoRestart
  /\ part = "media" => ConversationIsQuiet /\ PollingEnds

\* Every recording of an ended call is judged, see EveryRecordingIsJudged,
\* and the verdict stands.
RecordingsAreJudged ==
  /\ VerdictStands
  /\ part = "recording" => EveryRecordingIsJudged

\* The database comes to agree with FreeSWITCH, see RegistrationsAgree.
AgentsAreShownAsTheyAre == part = "registrations" => RegistrationsAgree
=============================================================================
