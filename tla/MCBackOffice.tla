---------------------------- MODULE MCBackOffice ----------------------------
(* The components whose properties are safety.  Their models share no      *)
(* state, so a behaviour runs one of them, chosen at the beginning, and    *)
(* leaves the others as they were.                                         *)
EXTENDS CallReports, SupervisorSession, Retention, VoicemailLibrary, Softphone,
        SupervisorPhone, CsvImport, AgentAccounts, RuntimeSettings, CallHistory,
        CampaignLeads, Suppression, AdminAudit, MediaTelemetry, MonitoringSnapshot

VARIABLE part   \* the component that runs

backOfficeVars ==
  <<storeVars, supervisorVars, filesVars, libraryVars, phoneVars, supervisorPhoneVars,
    csvVars, accountsVars, settingsVars, historyVars, leadsVars, suppressionVars,
    auditVars, telemetryVars, monitoringVars, part>>

Parts == {"store", "supervisor", "files", "library", "phone", "supervisor phone", "csv",
          "accounts", "settings", "history", "leads", "suppression", "audit",
          "telemetry", "monitoring"}

BackOfficeInit ==
  /\ part \in Parts
  /\ Init /\ SupervisorInit /\ FilesInit /\ LibraryInit /\ SoftphoneInit
  /\ SupervisorPhoneInit /\ CsvInit /\ AccountsInit /\ SettingsInit /\ HistoryInit
  /\ LeadsInit /\ SuppressionInit /\ AuditInit /\ TelemetryInit /\ MonitoringInit
  /\ part # "settings" => row = Environment
  /\ part # "history" => created = [c \in CallIds |-> 1]

Stays(p, vars) == IF part = p THEN TRUE ELSE UNCHANGED vars

BackOfficeNext ==
  /\ \/ part = "store" /\ Next
     \/ part = "supervisor" /\ SupervisorNext
     \/ part = "files" /\ FilesNext
     \/ part = "library" /\ LibraryNext
     \/ part = "phone" /\ SoftphoneNext
     \/ part = "supervisor phone" /\ SupervisorPhoneNext
     \/ part = "csv" /\ CsvNext
     \/ part = "accounts" /\ AccountsNext
     \/ part = "settings" /\ SettingsNext
     \/ part = "history" /\ HistoryNext
        /\ (csv'.at = "idle" \/ zip'.at = "idle")   \* the exports do not interact
     \/ part = "leads" /\ LeadsNext
     \/ part = "suppression" /\ SuppressionNext
     \/ part = "audit" /\ AuditNext
     \/ part = "telemetry" /\ TelemetryNext
     \/ part = "monitoring" /\ MonitoringNext
  /\ Stays("store", storeVars) /\ Stays("supervisor", supervisorVars)
  /\ Stays("files", filesVars) /\ Stays("library", libraryVars)
  /\ Stays("phone", phoneVars) /\ Stays("supervisor phone", supervisorPhoneVars)
  /\ Stays("csv", csvVars) /\ Stays("accounts", accountsVars)
  /\ Stays("settings", settingsVars) /\ Stays("history", historyVars)
  /\ Stays("leads", leadsVars) /\ Stays("suppression", suppressionVars)
  /\ Stays("audit", auditVars) /\ Stays("telemetry", telemetryVars)
  /\ Stays("monitoring", monitoringVars)
  /\ UNCHANGED part

BackOfficeSpec == BackOfficeInit /\ [][BackOfficeNext]_backOfficeVars

-----------------------------------------------------------------------------
AllChannelEvents == LegTypes \X LegEvents
ImportedFiles ==
  LET R(n, v) == [number |-> n, value |-> v]
      v == CHOOSE v \in Values : TRUE
      w == CHOOSE w \in Values : w # v
  IN { <<R(1, v), R(2, v)>>, <<R(2, w), R(1, w)>>, <<R(1, v), R(0, v), R(1, w)>>,
       <<R(3, v), R(1, w), R(3, w), R(2, v)>>, <<R(0, v)>> }

\* Types of the variables of the component that runs.
BackOfficeTypeOK ==
  /\ part = "store" => TypeOK
  /\ part = "supervisor" => SupervisorTypeOK
  /\ part = "files" => RecordingTypeOK /\ PcapTypeOK
  /\ part = "library" => LibraryTypeOK
  /\ part = "phone" => SoftphoneTypeOK
  /\ part = "supervisor phone" => SupervisorPhoneTypeOK
  /\ part = "csv" => CsvTypeOK
  /\ part = "accounts" => AccountsTypeOK
  /\ part = "settings" => SettingsTypeOK
  /\ part = "history" => HistoryTypeOK
  /\ part = "leads" => LeadsTypeOK
  /\ part = "suppression" => SuppressionTypeOK
  /\ part = "audit" => AuditTypeOK
  /\ part = "telemetry" => TelemetryTypeOK
  /\ part = "monitoring" => MonitoringTypeOK

\* Files on disk and the rows that name them agree: recordings, captures and
\* their retention (NothingIsLeftBehind, YoungFilesStay), and the voicemails
\* of the library (LibraryIsUsable).
FilesAndRowsAgree == [](NothingIsLeftBehind /\ LibraryIsUsable) /\ YoungFilesStay

\* The phones in the browser: nothing is left of one that was abandoned, and
\* what the supervisor's phone shows is what is heard.
BrowserPhonesAreSound == AbandonedPhoneIsStopped /\ ShownLegIsLive

\* What is written down about the system is true: the audit, the summary of
\* a call's media, and the gauges.
RecordsAreTrue == AuditPrecedesAction /\ LongestSummaryStays /\ MonitoringIsSound
=============================================================================
