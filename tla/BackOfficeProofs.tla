-------------------------- MODULE BackOfficeProofs ---------------------------
(*****************************************************************************)
(* Proofs about the components of MCBackOffice, for any values of the        *)
(* constants: those whose theorems are not in a module of their own, and the *)
(* back office as a whole. Each component has its inductive invariant;       *)
(* BackOfficeSpec implies the steps of every component, and what holds of    *)
(* each holds of them together.                                              *)
(*****************************************************************************)
EXTENDS MCBackOffice, FilesProofs, SupervisorProofs, AdmissionProofs, CallStoreProofs

------------------------------------------------------------------------------
(* The settings that change while the system runs.                         *)

\* The update that runs has not touched the published file.
FileUntouched == saving.at \in {"idle", "staged", "written"}

\* What is stored is what the process works with, or a commit was answered
\* by an error; so is the file, until it is published, and again when it has
\* been taken back.  Alertmanager, once it has read the file, has those
\* settings, unless a file was taken back since.
SettingsInv ==
  /\ SettingsTypeOK
  /\ reload.sent => reload.attempt < MaxAttempts
  /\ row = memory \/ "commit" \in loose
  /\ FileUntouched => config = memory \/ "config" \in loose
  /\ Saving("published") => config = saving.value
  /\ "config" \in loose => undone
  /\ FileUntouched /\ (status = "applied" \/ reload.ok) => alerting = memory \/ undone

LEMMA SettingsBegin == SettingsInit => SettingsInv
<1> SUFFICES ASSUME SettingsInit PROVE SettingsInv
  OBVIOUS
<1>1. SettingsTypeOK
  <2>1. /\ {memory, row, config, alerting} \subseteq Settings
        /\ saves \in 0 .. MaxSaves /\ slips \in 0 .. MaxSlips
    BY SettingsAssumption DEF SettingsInit
  <2>2. reload \in [attempt : 0 .. MaxAttempts, sent : BOOLEAN, ok : BOOLEAN]
    BY SettingsAssumption DEF SettingsInit, FirstAttempt
  <2>3. saving \in [at : {"idle", "staged", "written", "published", "undo"}, value : Settings]
    BY SettingsAssumption DEF SettingsInit, NoSave
  <2>4. updateQueue \in Seq(Settings)
    BY EmptySeq DEF SettingsInit
  <2> QED
    BY <2>1, <2>2, <2>3, <2>4 DEF SettingsInit, SettingsTypeOK
<1> QED
  BY <1>1, SettingsAssumption DEF SettingsInit, SettingsInv, FileUntouched, Saving, NoSave, FirstAttempt

LEMMA SettingsStep == SettingsInv /\ [SettingsNext]_settingsVars => SettingsInv'
<1> SUFFICES ASSUME SettingsInv, [SettingsNext]_settingsVars PROVE SettingsInv'
  OBVIOUS
<1> DEFINE Reloads == [attempt : 0 .. MaxAttempts, sent : BOOLEAN, ok : BOOLEAN]
           Saves == [at : {"idle", "staged", "written", "published", "undo"}, value : Settings]
<1>1. /\ memory \in Settings /\ row \in Settings /\ config \in Settings /\ alerting \in Settings
      /\ status \in {"pending", "applied", "failed"} /\ reload \in Reloads
      /\ updateQueue \in Seq(Settings) /\ saving \in Saves
      /\ undone \in BOOLEAN /\ loose \subseteq {"commit", "config"}
      /\ saves \in 0 .. MaxSaves /\ slips \in 0 .. MaxSlips
      /\ MaxAttempts \in Nat \ {0} /\ MaxSaves \in Nat /\ MaxSlips \in Nat
      /\ Environment \in Settings
  BY SettingsAssumption DEF SettingsInv, SettingsTypeOK
<1>2. NoSave \in Saves /\ NoReload \in Reloads /\ FirstAttempt \in Reloads
  BY <1>1 DEF NoSave, NoReload, FirstAttempt
<1>3. Slip => slips' \in 0 .. MaxSlips
  BY <1>1 DEF Slip
<1> DEFINE Typed ==
      /\ {memory', row', config', alerting'} \subseteq Settings
      /\ status' \in {"pending", "applied", "failed"} /\ reload' \in Reloads
      /\ updateQueue' \in Seq(Settings) /\ saving' \in Saves
      /\ undone' \in BOOLEAN /\ loose' \subseteq {"commit", "config"}
      /\ saves' \in 0 .. MaxSaves /\ slips' \in 0 .. MaxSlips
<1>4. Typed => SettingsTypeOK'
  BY DEF SettingsTypeOK
<1>5. CASE AskToSave
  <2>1. saves' \in 0 .. MaxSaves /\ updateQueue' \in Seq(Settings)
    BY <1>1, <1>5, AppendProperties DEF AskToSave
  <2> QED
    BY <1>1, <1>4, <1>5, <2>1 DEF AskToSave, SettingsInv, FileUntouched, Saving
<1>6. CASE BeginSave
  <2>1. Head(updateQueue) \in Settings /\ updateQueue' \in Seq(Settings)
    BY <1>1, <1>6, HeadTailProperties DEF BeginSave
  <2>2. saving' \in {saving, [at |-> "staged", value |-> Head(updateQueue)]}
    BY <1>6 DEF BeginSave
  <2>3. saving' \in Saves /\ saving'.at \in {"idle", "staged"} /\ slips' \in 0 .. MaxSlips
    BY <1>1, <1>3, <1>6, <2>1, <2>2 DEF BeginSave, Saving
  <2>4. FileUntouched
    BY <1>6 DEF BeginSave, Saving, FileUntouched
  <2> QED
    BY <1>1, <1>4, <1>6, <2>1, <2>3, <2>4 DEF BeginSave, SettingsInv, FileUntouched, Saving
<1>7. CASE WriteRow
  <2>1. saving' \in Saves /\ saving'.at \in {"idle", "written"} /\ slips' \in 0 .. MaxSlips
    BY <1>1, <1>2, <1>3, <1>7 DEF WriteRow, NoSave
  <2>2. FileUntouched
    BY <1>7 DEF WriteRow, Saving, FileUntouched
  <2> QED
    BY <1>1, <1>4, <1>7, <2>1, <2>2 DEF WriteRow, SettingsInv, FileUntouched, Saving
<1>8. CASE Publish
  <2>1. /\ saving' \in Saves /\ saving'.at \in {"published", "undo"} /\ slips' \in 0 .. MaxSlips
        /\ config' \in Settings
        /\ saving'.at = "published" => config' = saving'.value
    BY <1>1, <1>3, <1>8 DEF Publish
  <2> QED
    BY <1>1, <1>4, <1>8, <2>1 DEF Publish, SettingsInv, FileUntouched, Saving
<1>9. CASE Commit
  <2>1. config = saving.value
    BY <1>9 DEF Commit, SettingsInv
  <2> QED
    BY <1>1, <1>2, <1>4, <1>9, <2>1 DEF Commit, SchedulesReload, SettingsInv, FileUntouched, Saving,
       NoSave, FirstAttempt
<1>10. CASE CommitFails
  <2>1. saving' \in Saves /\ saving'.at = "undo" /\ slips' \in 0 .. MaxSlips
    BY <1>1, <1>3, <1>10 DEF CommitFails
  <2> QED
    BY <1>1, <1>4, <1>10, <2>1 DEF CommitFails, SettingsInv, FileUntouched, Saving
<1>11. CASE Undo
  <2>1. saving' \in Saves /\ saving'.at = "idle" /\ slips' \in 0 .. MaxSlips
    BY <1>1, <1>2, <1>3, <1>11 DEF Undo, NoSave
  <2> QED
    BY <1>1, <1>4, <1>11, <2>1 DEF Undo, SettingsInv, FileUntouched, Saving
<1>12. CASE SendReload
  <2>1. reload' \in Reloads /\ ~reload'.ok
    BY <1>1, <1>12 DEF SendReload
  <2> QED
    BY <1>1, <1>4, <1>12, <2>1 DEF SendReload, SettingsInv, FileUntouched, Saving
<1>13. CASE AlertmanagerReads
  <2>1. reload' \in Reloads
    BY <1>1, <1>13 DEF AlertmanagerReads
  <2> QED
    BY <1>1, <1>4, <1>13, <2>1 DEF AlertmanagerReads, SettingsInv, FileUntouched, Saving
<1>14. CASE ReloadAnswered
  <2>1. CASE reload.ok /\ status' = "applied" /\ reload' = NoReload /\ UNCHANGED slips
    BY <1>1, <1>2, <1>4, <1>14, <2>1 DEF ReloadAnswered, SettingsInv, FileUntouched, Saving, NoReload
  <2>2. CASE /\ Slip
             /\ reload' = [attempt |-> reload.attempt + 1, sent |-> FALSE, ok |-> FALSE]
             /\ status' = IF reload'.attempt = MaxAttempts THEN "failed" ELSE status
    <3>1. reload.attempt < MaxAttempts => reload' \in Reloads
      BY <1>1, <2>2
    <3>2. reload.attempt < MaxAttempts
      BY <1>1, <1>14 DEF ReloadAnswered, SettingsInv
    <3> QED
      BY <1>1, <1>3, <1>4, <1>14, <2>2, <3>1, <3>2 DEF ReloadAnswered, SettingsInv, FileUntouched, Saving
  <2> QED
    BY <1>14, <2>1, <2>2 DEF ReloadAnswered
<1>15. CASE ProcessRestarts
  <2>1. updateQueue' \in Seq(Settings)
    BY <1>15, EmptySeq DEF ProcessRestarts
  <2> QED
    BY <1>1, <1>2, <1>3, <1>4, <1>15, <2>1 DEF ProcessRestarts, SchedulesReload, SettingsInv,
       FileUntouched, Saving, NoSave, FirstAttempt
<1>16. CASE UNCHANGED settingsVars
  BY <1>1, <1>4, <1>16 DEF settingsVars, SettingsInv, FileUntouched, Saving
<1> QED
  BY <1>5, <1>6, <1>7, <1>8, <1>9, <1>10, <1>11, <1>12, <1>13, <1>14, <1>15, <1>16 DEF SettingsNext

(* Between updates, whatever failed and whenever the process died, stored, *)
(* working and published settings agree, and "applied" is true.            *)
THEOREM SettingsStayInForce == SettingsSpec => []SettingsHold
<1>1. SettingsInv => SettingsHold
  BY DEF SettingsInv, SettingsHold, SettingsAgree, AppliedIsInForce, FileUntouched, Saving
<1> QED
  BY <1>1, SettingsBegin, SettingsStep, PTL DEF SettingsSpec

------------------------------------------------------------------------------
(* The audit.                                                              *)

ServedRow == [at : {"new", "received", "audited", "handle", "describe", "stream", "send", "sent",
                    "lost"},
              code : {Succeeded, Forbidden, Broken}, kind : {"mutation", "export"},
              faithful : BOOLEAN]

\* What is known of a request, its row and its change where it is.
RequestInv(r) ==
  LET q == served[r]
      auditedAs == auditRow[r]
      done == r \in acted IN
  \* the change comes after the check of the role, the answer after the change
  /\ q.at \in {"new", "received", "audited", "handle", "stream"} => ~done
  /\ q.at = "describe" => done /\ q.kind = "mutation"
  /\ q.at = "send" /\ q.code = Succeeded => done
  /\ q.at \in {"new", "received", "audited", "handle", "describe", "stream"} => q.code = Succeeded
  \* the row of a mutation is decided by the answer, that of an export before
  /\ q.at \in {"new", "received"} => auditedAs = NoRow
  /\ q.at = "received" => q.kind = "mutation"
  /\ q.kind = "mutation" /\ q.at \notin {"sent", "lost"} => auditedAs \in {NoRow, Processing}
  /\ q.kind = "export" /\ q.at \in {"audited", "handle"} => auditedAs = NoRow
  /\ q.at = "stream" => q.kind = "export" /\ auditedAs = Succeeded
  \* an administrator has a row
  /\ q.kind = "mutation" /\ q.faithful /\ (q.at = "handle" \/ (q.at = "audited" /\ role = "admin"))
       => auditedAs # NoRow
  /\ done /\ q.faithful => auditedAs # NoRow
  \* neither the row nor the answer denies a change, or tells of one that is none
  /\ q.code = Forbidden \/ auditedAs = Forbidden => ~done
  /\ auditedAs = Succeeded /\ q.at \in {"send", "sent"} => done

AuditInv ==
  /\ AuditTypeOK /\ served \in [AuditRequests -> ServedRow]
  /\ \A r \in AuditRequests : RequestInv(r)

LEMMA AuditBegins == AuditInit => AuditInv
BY AuditAssumption DEF AuditInit, AuditInv, AuditTypeOK, RequestInv, ServedRow, NotReceived, NoRow,
   Processing, Succeeded, Forbidden, Broken

LEMMA AuditStep == AuditInv /\ [AuditNext]_auditVars => AuditInv'
<1> SUFFICES ASSUME AuditInv, [AuditNext]_auditVars PROVE AuditInv'
  OBVIOUS
<1> DEFINE Codes == {NoRow, Processing, Succeeded, Forbidden, Broken}
<1>0. /\ NoRow # Processing /\ NoRow # Succeeded /\ NoRow # Forbidden /\ NoRow # Broken
      /\ Processing # Succeeded /\ Processing # Forbidden /\ Processing # Broken
      /\ Succeeded # Forbidden /\ Succeeded # Broken /\ Forbidden # Broken
  BY DEF NoRow, Processing, Succeeded, Forbidden, Broken
<1>1. /\ role \in {"admin", "agent"} /\ auditRow \in [AuditRequests -> Codes]
      /\ acted \subseteq AuditRequests /\ auditFaults \in 0 .. MaxAuditFaults
      /\ served \in [AuditRequests -> ServedRow] /\ MaxAuditFaults \in Nat
      /\ \A r \in AuditRequests : RequestInv(r)
  BY AuditAssumption DEF AuditInv, AuditTypeOK
<1> DEFINE Typed ==
      /\ role' \in {"admin", "agent"} /\ auditRow' \in [AuditRequests -> Codes]
      /\ acted' \subseteq AuditRequests /\ auditFaults' \in 0 .. MaxAuditFaults
      /\ served' \in [AuditRequests -> ServedRow]
<1>2. Fault => auditFaults' \in 0 .. MaxAuditFaults
  BY <1>1 DEF Fault
<1>3. SUFFICES Typed /\ \A r \in AuditRequests : RequestInv(r)'
  BY DEF AuditInv, AuditTypeOK
\* A step of one request leaves the others as they are.
<1> DEFINE OnlyFor(r) == /\ role' = role
                         /\ \A q \in AuditRequests \ {r} :
                              /\ served'[q] = served[q] /\ auditRow'[q] = auditRow[q]
                              /\ q \in acted' <=> q \in acted
<1>4. ASSUME NEW r \in AuditRequests, OnlyFor(r), RequestInv(r)'
      PROVE  \A q \in AuditRequests : RequestInv(q)'
  <2>1. ASSUME NEW q \in AuditRequests, q # r PROVE RequestInv(q)'
    <3>1. /\ served'[q] = served[q] /\ auditRow'[q] = auditRow[q] /\ (q \in acted' <=> q \in acted)
          /\ role' = role /\ RequestInv(q)
      BY <1>1, <1>4, <2>1
    <3> QED
      BY <3>1 DEF RequestInv
  <2> QED
    BY <1>4, <2>1
<1>5. ASSUME NEW r \in AuditRequests, NEW kind \in {"mutation", "export"}, Receive(r, kind)
      PROVE  Typed /\ OnlyFor(r) /\ RequestInv(r)'
  <2>1. PICK old : old = NotReceived
    OBVIOUS
  <2>2. old \in ServedRow /\ old.code = Succeeded /\ old.faithful = TRUE
    BY <2>1 DEF NotReceived, ServedRow
  <2>3. /\ served' = [served EXCEPT ![r] = [old EXCEPT !.kind = kind,
                        !.at = IF kind = "mutation" THEN "received" ELSE "audited"]]
        /\ UNCHANGED <<role, auditRow, acted, auditFaults>> /\ served[r].at = "new"
    BY <1>5, <2>1 DEF Receive
  <2>4. Typed /\ OnlyFor(r)
    <3>1. \E s \in ServedRow : served' = [served EXCEPT ![r] = s]
      BY <1>1, <2>2, <2>3 DEF ServedRow
    <3> QED
      BY <1>1, <2>3, <3>1
  <2>5. /\ served'[r].at = (IF kind = "mutation" THEN "received" ELSE "audited")
        /\ served'[r].kind = kind /\ served'[r].code = Succeeded
    BY <1>1, <2>2, <2>3 DEF ServedRow
  <2>6. r \notin acted' /\ auditRow'[r] = NoRow
    BY <1>0, <1>1, <2>3 DEF RequestInv
  <2>7. kind = "mutation" => served'[r].at = "received"
    BY <2>5
  <2>8. kind = "export" => served'[r].at = "audited"
    BY <2>5
  <2> QED
    BY <1>0, <2>4, <2>5, <2>6, <2>7, <2>8 DEF RequestInv
<1>6. ASSUME NEW r \in AuditRequests,
             \/ InsertRow(r) \/ InsertFails(r) \/ RequireAdmin(r) \/ Handle(r)
             \/ AppendMetadata(r) \/ AppendFails(r)
             \/ RecordExport(r) \/ RecordExportFails(r) \/ StreamExport(r)
             \/ Send(r) \/ SendFails(r)
      PROVE  Typed /\ OnlyFor(r) /\ RequestInv(r)'
  <2>1. served[r] \in ServedRow /\ RequestInv(r) /\ auditRow[r] \in Codes
    BY <1>1
  <2>2. CASE InsertRow(r)
    <3>1. Typed /\ OnlyFor(r)
      BY <1>1, <1>2, <2>2 DEF InsertRow, ServedRow
    <3>2. RequestInv(r)'
      BY <1>0, <1>1, <2>1, <2>2 DEF InsertRow, RequestInv, ServedRow
    <3> QED BY <3>1, <3>2
  <2>3. CASE InsertFails(r)
    <3>1. Typed /\ OnlyFor(r)
      <4>1. \E s \in ServedRow : served' = [served EXCEPT ![r] = s]
        BY <1>1, <2>1, <2>3 DEF InsertFails, ServedRow
      <4>2. /\ UNCHANGED <<role, auditRow, acted>>
            /\ auditFaults' \in 0 .. MaxAuditFaults
        BY <1>1, <1>2, <2>3 DEF InsertFails
      <4> QED
        BY <1>1, <4>1, <4>2
    <3>2. RequestInv(r)'
      BY <1>0, <1>1, <2>1, <2>3 DEF InsertFails, RequestInv, ServedRow
    <3> QED BY <3>1, <3>2
  <2>4. CASE RequireAdmin(r)
    <3>1. Typed /\ OnlyFor(r)
      <4>1. \E s \in ServedRow : served' = [served EXCEPT ![r] = s]
        BY <1>1, <2>1, <2>4 DEF RequireAdmin, ServedRow
      <4>2. /\ UNCHANGED <<role, auditRow, acted>>
            /\ auditFaults' \in 0 .. MaxAuditFaults
        BY <1>1, <1>2, <2>4 DEF RequireAdmin
      <4> QED
        BY <1>1, <4>1, <4>2
    <3>2. RequestInv(r)'
      BY <1>0, <1>1, <2>1, <2>4 DEF RequireAdmin, RequestInv, ServedRow
    <3> QED BY <3>1, <3>2
  <2>5. CASE Handle(r)
    <3>1. Typed /\ OnlyFor(r)
      BY <1>1, <1>2, <2>5 DEF Handle, ServedRow
    <3>2. RequestInv(r)'
      BY <1>0, <1>1, <2>1, <2>5 DEF Handle, RequestInv, ServedRow
    <3> QED BY <3>1, <3>2
  <2>6. CASE AppendMetadata(r)
    <3>1. Typed /\ OnlyFor(r)
      BY <1>1, <1>2, <2>6 DEF AppendMetadata, ServedRow
    <3>2. RequestInv(r)'
      BY <1>0, <1>1, <2>1, <2>6 DEF AppendMetadata, RequestInv, ServedRow
    <3> QED BY <3>1, <3>2
  <2>7. CASE AppendFails(r)
    <3>1. Typed /\ OnlyFor(r)
      <4>1. \E s \in ServedRow : served' = [served EXCEPT ![r] = s]
        BY <1>1, <2>1, <2>7 DEF AppendFails, ServedRow
      <4>2. /\ UNCHANGED <<role, auditRow, acted>>
            /\ auditFaults' \in 0 .. MaxAuditFaults
        BY <1>1, <1>2, <2>7 DEF AppendFails
      <4> QED
        BY <1>1, <4>1, <4>2
    <3>2. RequestInv(r)'
      BY <1>0, <1>1, <2>1, <2>7 DEF AppendFails, RequestInv, ServedRow
    <3> QED BY <3>1, <3>2
  <2>8. CASE RecordExport(r)
    <3>1. Typed /\ OnlyFor(r)
      BY <1>1, <1>2, <2>8 DEF RecordExport, ServedRow
    <3>2. RequestInv(r)'
      BY <1>0, <1>1, <2>1, <2>8 DEF RecordExport, RequestInv, ServedRow
    <3> QED BY <3>1, <3>2
  <2>9. CASE RecordExportFails(r)
    <3>1. Typed /\ OnlyFor(r)
      <4>1. \E s \in ServedRow : served' = [served EXCEPT ![r] = s]
        BY <1>1, <2>1, <2>9 DEF RecordExportFails, ServedRow
      <4>2. /\ UNCHANGED <<role, auditRow, acted>>
            /\ auditFaults' \in 0 .. MaxAuditFaults
        BY <1>1, <1>2, <2>9 DEF RecordExportFails
      <4> QED
        BY <1>1, <4>1, <4>2
    <3>2. RequestInv(r)'
      BY <1>0, <1>1, <2>1, <2>9 DEF RecordExportFails, RequestInv, ServedRow
    <3> QED BY <3>1, <3>2
  <2>10. CASE StreamExport(r)
    <3>1. Typed /\ OnlyFor(r)
      BY <1>1, <1>2, <2>10 DEF StreamExport, ServedRow
    <3>2. RequestInv(r)'
      BY <1>0, <1>1, <2>1, <2>10 DEF StreamExport, RequestInv, ServedRow
    <3> QED BY <3>1, <3>2
  <2>11. CASE Send(r)
    <3>1. Typed /\ OnlyFor(r)
      BY <1>1, <1>2, <2>11 DEF Send, ServedRow
    <3>2. RequestInv(r)'
      BY <1>0, <1>1, <2>1, <2>11 DEF Send, RequestInv, ServedRow
    <3> QED BY <3>1, <3>2
  <2>12. CASE SendFails(r)
    <3>1. Typed /\ OnlyFor(r)
      <4>1. \E s \in ServedRow : served' = [served EXCEPT ![r] = s]
        BY <1>1, <2>1, <2>12 DEF SendFails, ServedRow
      <4>2. /\ UNCHANGED <<role, auditRow, acted>>
            /\ auditFaults' \in 0 .. MaxAuditFaults
        BY <1>1, <1>2, <2>12 DEF SendFails
      <4> QED
        BY <1>1, <4>1, <4>2
    <3>2. RequestInv(r)'
      BY <1>0, <1>1, <2>1, <2>12 DEF SendFails, RequestInv, ServedRow
    <3> QED BY <3>1, <3>2
  <2> QED
    BY <1>6, <2>2, <2>3, <2>4, <2>5, <2>6, <2>7, <2>8, <2>9, <2>10, <2>11, <2>12
<1>7. CASE ChangeRole
  <2>1. Typed
    <3>1. /\ \A r \in AuditRequests : served'[r] \in {served[r], [served[r] EXCEPT !.faithful = FALSE]}
          /\ served' = [r \in AuditRequests |-> served'[r]]
      BY <1>7 DEF ChangeRole
    <3>2. \A r \in AuditRequests : served'[r] \in ServedRow
      BY <1>1, <3>1 DEF ServedRow
    <3>3. role' \in {"admin", "agent"} /\ UNCHANGED <<auditRow, acted>> /\ Fault
      BY <1>1, <1>7 DEF ChangeRole
    <3> QED
      BY <1>1, <1>2, <3>1, <3>2, <3>3
  <2>2. ASSUME NEW r \in AuditRequests PROVE RequestInv(r)'
    BY <1>0, <1>1, <1>7 DEF ChangeRole, RequestInv, ServedRow
  <2> QED BY <2>1, <2>2
<1>8. CASE ApiDies
  <2>1. Typed
    BY <1>1, <1>2, <1>8 DEF ApiDies, ServedRow
  <2>2. ASSUME NEW r \in AuditRequests PROVE RequestInv(r)'
    BY <1>0, <1>1, <1>8 DEF ApiDies, RequestInv, ServedRow
  <2> QED BY <2>1, <2>2
<1>9. CASE UNCHANGED auditVars
  <2>1. Typed
    BY <1>1, <1>9 DEF auditVars
  <2>2. ASSUME NEW r \in AuditRequests PROVE RequestInv(r)'
    BY <1>0, <1>1, <1>9 DEF auditVars, RequestInv
  <2> QED BY <2>1, <2>2
<1> HIDE DEF Typed, OnlyFor
<1> QED
  BY <1>4, <1>5, <1>6, <1>7, <1>8, <1>9 DEF AuditNext

LEMMA AuditIsTrue == AuditInv => AuditPrecedesAction
BY DEF AuditInv, RequestInv, AuditPrecedesAction

------------------------------------------------------------------------------
(* Browser media telemetry.                                                *)

CollectorRow == [used : BOOLEAN, inFlight : BOOLEAN, waiting : SUBSET {"interval", "final"},
                 count : 0 .. (MaxSamples + 1)]

TelemetryInv ==
  /\ TelemetryTypeOK /\ LongestSummaryStays
  /\ collector \in [Collectors -> CollectorRow]

LEMMA TelemetryBegins == TelemetryInit => TelemetryInv
<1> SUFFICES ASSUME TelemetryInit PROVE TelemetryInv
  OBVIOUS
<1>1. 0 \in 0 .. (MaxSamples + 1)
  BY TelemetryAssumption
<1>2. collector \in [Collectors -> CollectorRow]
  BY <1>1 DEF TelemetryInit, CollectorRow
<1>3. \A d \in Collectors : collector[d].count = 0 /\ collector[d].inFlight = (collector[d].waiting # {})
  BY DEF TelemetryInit
<1> QED
  BY <1>1, <1>2, <1>3 DEF TelemetryInit, TelemetryInv, TelemetryTypeOK, LongestSummaryStays

\* Whoever asks for a sample waits for the one in flight.
LEMMA SamplingTypes ==
  ASSUME NEW cs \in [Collectors -> CollectorRow], NEW d \in Collectors,
         NEW who \in {"interval", "final"},
         \A e \in Collectors : cs[e].inFlight = (cs[e].waiting # {})
  PROVE  /\ Sampling(cs, d, who) \in [Collectors -> CollectorRow]
         /\ \A e \in Collectors :
              Sampling(cs, d, who)[e].inFlight = (Sampling(cs, d, who)[e].waiting # {})
<1>1. PICK new : new = [cs[d] EXCEPT !.inFlight = TRUE, !.waiting = @ \cup {who}]
  OBVIOUS
<1>2. /\ new \in CollectorRow /\ new.inFlight = TRUE /\ who \in new.waiting
  BY <1>1 DEF CollectorRow
<1>3. Sampling(cs, d, who) = [cs EXCEPT ![d] = new]
  BY <1>1 DEF Sampling, CollectorRow
<1>4. new.inFlight = (new.waiting # {})
  BY <1>2
<1> QED
  BY <1>2, <1>3, <1>4

LEMMA TelemetryStep == TelemetryInv /\ [TelemetryNext]_telemetryVars => TelemetryInv'
<1> SUFFICES ASSUME TelemetryInv, [TelemetryNext]_telemetryVars PROVE TelemetryInv'
  OBVIOUS
<1> DEFINE Waits(cs) == \A d \in Collectors : cs[d].inFlight = (cs[d].waiting # {})
<1>1. /\ active \in Collectors \cup {NoCollector} /\ collector \in [Collectors -> CollectorRow]
      /\ Waits(collector)
      /\ uploads \cup delivered \subseteq Summaries /\ summary \in Summaries \cup {NoSummary}
      /\ \A u \in delivered : u.count <= summary.count
      /\ NoCollector \notin Collectors /\ MaxSamples \in Nat /\ UploadEvery \in Nat \ {0}
  BY TelemetryAssumption DEF TelemetryInv, TelemetryTypeOK, LongestSummaryStays
<1> DEFINE Preserved ==
      /\ active' \in Collectors \cup {NoCollector} /\ collector' \in [Collectors -> CollectorRow]
      /\ Waits(collector')
      /\ uploads' \cup delivered' \subseteq Summaries /\ summary' \in Summaries \cup {NoSummary}
      /\ \A u \in delivered' : u.count <= summary'.count
<1>2. SUFFICES Preserved
  BY DEF TelemetryInv, TelemetryTypeOK, LongestSummaryStays, CollectorRow
<1>3. Finalized(collector) \in [Collectors -> CollectorRow] /\ Waits(Finalized(collector))
  <2>1. CASE active = NoCollector
    BY <1>1, <2>1 DEF Finalized
  <2>2. CASE active \in Collectors
    <3>1. /\ Sampling(collector, active, "final") \in [Collectors -> CollectorRow]
          /\ Waits(Sampling(collector, active, "final"))
      BY <1>1, <2>2, SamplingTypes
    <3>2. Finalized(collector) = Sampling(collector, active, "final")
      BY <1>1, <2>2 DEF Finalized
    <3> QED
      BY <3>1, <3>2
  <2> QED
    BY <1>1, <2>1, <2>2
<1>4. ASSUME NEW d \in Collectors, StartCollector(d) PROVE Preserved
  <2>1. PICK cs : cs = [Finalized(collector) EXCEPT ![d].used = TRUE]
    OBVIOUS
  <2>2. cs \in [Collectors -> CollectorRow] /\ Waits(cs)
    BY <1>3, <2>1 DEF CollectorRow
  <2>3. collector' = Sampling(cs, d, "interval") /\ active' = d /\ UNCHANGED <<uploads, summary, delivered>>
    BY <1>4, <2>1 DEF StartCollector
  <2>4. collector' \in [Collectors -> CollectorRow] /\ Waits(collector')
    BY <2>2, <2>3, SamplingTypes
  <2> QED
    BY <1>1, <2>3, <2>4
<1>5. CASE IntervalSamples
  <2>1. active \in Collectors
    BY <1>1, <1>5 DEF IntervalSamples
  <2>2. /\ Sampling(collector, active, "interval") \in [Collectors -> CollectorRow]
        /\ Waits(Sampling(collector, active, "interval"))
    BY <1>1, <2>1, SamplingTypes
  <2> QED
    BY <1>1, <1>5, <2>2 DEF IntervalSamples
<1>6. CASE FinalizeTelemetry
  BY <1>1, <1>3, <1>6 DEF FinalizeTelemetry
<1>7. ASSUME NEW d \in Collectors, SampleEnds(d) PROVE Preserved
  <2>0. collector[d].count \in 0 .. (MaxSamples + 1)
    BY <1>1 DEF CollectorRow
  <2>1. PICK ok \in {TRUE, FALSE}, count \in 0 .. (MaxSamples + 1) :
          /\ count = collector[d].count + IF ok THEN 1 ELSE 0
          /\ count <= MaxSamples + 1
          /\ collector' = [collector EXCEPT ![d].inFlight = FALSE, ![d].waiting = {}, ![d].count = count]
          /\ \/ uploads' = uploads
             \/ count > 0 /\ uploads' = uploads \cup {[from |-> d, count |-> count]}
    <3>1. \A ok \in {TRUE, FALSE} :
            LET count == collector[d].count + IF ok THEN 1 ELSE 0
            IN  count <= MaxSamples + 1 => count \in 0 .. (MaxSamples + 1)
      BY <1>1, <2>0
    <3> QED
      BY <1>7, <3>1 DEF SampleEnds
  <2>2. count \in 0 .. (MaxSamples + 1)
    OBVIOUS
  <2>3. count > 0 => [from |-> d, count |-> count] \in Summaries
    BY <1>1, <2>2 DEF Summaries
  <2>4. PICK new : new = [collector[d] EXCEPT !.inFlight = FALSE, !.waiting = {}, !.count = count]
    OBVIOUS
  <2>5. new \in CollectorRow /\ new.inFlight = FALSE /\ new.waiting = {}
    BY <1>1, <2>2, <2>4 DEF CollectorRow
  <2>6. collector' = [collector EXCEPT ![d] = new]
    BY <1>1, <2>1, <2>4 DEF CollectorRow
  <2>7. new.inFlight = (new.waiting # {})
    BY <2>5
  <2>8. collector' \in [Collectors -> CollectorRow] /\ Waits(collector')
    BY <1>1, <2>5, <2>6, <2>7
  <2>9. UNCHANGED <<active, summary, delivered>>
    BY <1>7 DEF SampleEnds
  <2> QED
    BY <1>1, <2>1, <2>3, <2>8, <2>9
<1>8. CASE PageGoes
  <2>1. /\ \A d \in Collectors : collector'[d] = [collector[d] EXCEPT !.inFlight = FALSE, !.waiting = {}]
        /\ collector' = [d \in Collectors |-> collector'[d]]
        /\ active' = NoCollector /\ UNCHANGED <<uploads, summary, delivered>>
    BY <1>8 DEF PageGoes
  <2>2. \A d \in Collectors : /\ collector'[d] \in CollectorRow
                              /\ collector'[d].inFlight = FALSE /\ collector'[d].waiting = {}
    <3>1. SUFFICES ASSUME NEW d \in Collectors
                   PROVE  /\ collector'[d] \in CollectorRow
                          /\ collector'[d].inFlight = FALSE /\ collector'[d].waiting = {}
      OBVIOUS
    <3>2. PICK old : old = collector[d]
      OBVIOUS
    <3>3. old \in CollectorRow /\ collector'[d] = [old EXCEPT !.inFlight = FALSE, !.waiting = {}]
      BY <1>1, <2>1, <3>2
    <3>4. {} \in SUBSET {"interval", "final"}
      OBVIOUS
    <3> QED
      BY <3>3, <3>4 DEF CollectorRow
  <2>3. Waits(collector')
    BY <2>2
  <2> QED
    BY <1>1, <2>1, <2>2, <2>3
<1>9. ASSUME NEW u \in uploads, UploadLost(u) PROVE Preserved
  BY <1>1, <1>9 DEF UploadLost
<1>10. ASSUME NEW u \in uploads, Upsert(u) PROVE Preserved
  <2>1. u \in Summaries /\ u.count \in Nat /\ summary.count \in Nat
    BY <1>1 DEF Summaries, NoSummary
  <2>2. \A v \in delivered : v.count \in Nat
    BY <1>1 DEF Summaries
  <2>3. summary'.count \in Nat /\ summary'.count >= summary.count /\ summary'.count >= u.count
        /\ summary' \in Summaries \cup {NoSummary}
    BY <1>1, <1>10, <2>1 DEF Upsert
  <2>4. delivered' = delivered \cup {u} /\ uploads' \subseteq uploads /\ UNCHANGED <<active, collector>>
    BY <1>10 DEF Upsert
  <2>5. \A v \in delivered' : v.count <= summary'.count
    BY <1>1, <2>1, <2>2, <2>3, <2>4
  <2> QED
    BY <1>1, <2>1, <2>3, <2>4, <2>5
<1>11. CASE UNCHANGED telemetryVars
  BY <1>1, <1>11 DEF telemetryVars
<1> QED
  BY <1>4, <1>5, <1>6, <1>7, <1>8, <1>9, <1>10, <1>11 DEF TelemetryNext

------------------------------------------------------------------------------
(* The gauges of the metrics.                                              *)

ChainRow == [seen : Seq(0 .. MaxDbChanges), inFlight : BOOLEAN, broken : BOOLEAN]
RefreshRow == [at : {"idle", "reading", "commit", "rollback", "done"}, since : 0 .. MaxDbChanges,
               ok : BOOLEAN]
GaugesRow == [seen : [1 .. Queries -> 0 .. MaxDbChanges], since : 0 .. MaxDbChanges, up : BOOLEAN,
              fresh : 0 .. MaxRefreshes, remote : [RemoteParts -> BOOLEAN]]

\* A chain whose queries may still be issued belongs to the refresh that
\* reads, and a refresh that reads, commits or rolls back has the client.
ClientInv ==
  /\ borrower = "refresh" <=> refresh.at \in {"reading", "commit", "rollback"}
  /\ ~chain.broken /\ Len(chain.seen) < Queries => refresh.at = "reading"
  /\ chain.inFlight => ~chain.broken /\ Len(chain.seen) < Queries

\* What the queries have seen grows from the beginning of the refresh.
ChainInOrder ==
  /\ \A q \in 1 .. Len(chain.seen) : chain.seen[q] <= dbChanges
  /\ \A q \in 2 .. Len(chain.seen) : chain.seen[q - 1] <= chain.seen[q]
  /\ refresh.at = "reading" =>
       /\ refresh.since <= dbChanges
       /\ \A q \in 1 .. Len(chain.seen) : refresh.since <= chain.seen[q]

MonitoringInv ==
  /\ MonitoringTypeOK /\ chain \in ChainRow /\ refresh \in RefreshRow /\ gauges \in GaugesRow
  /\ ClientInv /\ ChainInOrder /\ GaugesAreOneRefresh

LEMMA MonitoringBegins == MonitoringInit => MonitoringInv
<1> SUFFICES ASSUME MonitoringInit PROVE MonitoringInv
  OBVIOUS
<1>1. 0 \in 0 .. MaxDbChanges /\ 0 \in 0 .. MaxRefreshes /\ Queries \in Nat \ {0}
  BY MonitoringAssumption
<1>2. /\ chain = [seen |-> <<>>, inFlight |-> FALSE, broken |-> TRUE]
      /\ refresh = [at |-> "idle", since |-> 0, ok |-> TRUE]
      /\ dbChanges = 0 /\ borrower = "pool" /\ refreshes = 0
      /\ gauges.since = 0 /\ \A q \in 1 .. Queries : gauges.seen[q] = 0
  BY DEF MonitoringInit, NewChain, NoRefresh
<1>3. Len(chain.seen) = 0 /\ chain \in ChainRow
  BY <1>2, EmptySeq DEF ChainRow
<1>4. refresh \in RefreshRow
  BY <1>1, <1>2 DEF RefreshRow
<1>5. gauges \in GaugesRow
  <2>1. [q \in 1 .. Queries |-> 0] \in [1 .. Queries -> 0 .. MaxDbChanges]
    BY <1>1
  <2>2. [p \in RemoteParts |-> FALSE] \in [RemoteParts -> BOOLEAN]
    OBVIOUS
  <2> QED
    BY <1>1, <2>1, <2>2 DEF MonitoringInit, GaugesRow
<1>6. GaugesAreOneRefresh
  BY <1>1, <1>2 DEF GaugesAreOneRefresh
<1>7. ClientInv /\ ChainInOrder
  BY <1>1, <1>2, <1>3 DEF ClientInv, ChainInOrder
<1>8. MonitoringTypeOK
  BY <1>1, <1>2, <1>3, <1>5 DEF MonitoringTypeOK, GaugesRow
<1> QED
  BY <1>3, <1>4, <1>5, <1>6, <1>7, <1>8 DEF MonitoringInv

\* What a refresh changes of the gauges leaves them gauges.
LEMMA GaugesChange ==
  ASSUME NEW A, NEW B, NEW C, NEW D, NEW E,
         NEW g \in [seen : A, since : B, up : C, fresh : D, remote : E]
  PROVE  /\ \A up \in C : /\ [g EXCEPT !.up = up] \in [seen : A, since : B, up : C, fresh : D, remote : E]
                         /\ [g EXCEPT !.up = up].seen = g.seen
                         /\ [g EXCEPT !.up = up].since = g.since
         /\ \A n \in D : /\ [g EXCEPT !.fresh = n] \in [seen : A, since : B, up : C, fresh : D, remote : E]
                        /\ [g EXCEPT !.fresh = n].seen = g.seen
                        /\ [g EXCEPT !.fresh = n].since = g.since
OBVIOUS

LEMMA GaugesStayTyped ==
  ASSUME NEW g \in GaugesRow
  PROVE  /\ \A up \in BOOLEAN : /\ [g EXCEPT !.up = up] \in GaugesRow
                               /\ [g EXCEPT !.up = up].seen = g.seen
                               /\ [g EXCEPT !.up = up].since = g.since
         /\ \A n \in 0 .. MaxRefreshes : /\ [g EXCEPT !.fresh = n] \in GaugesRow
                                        /\ [g EXCEPT !.fresh = n].seen = g.seen
                                        /\ [g EXCEPT !.fresh = n].since = g.since
BY GaugesChange DEF GaugesRow

LEMMA MonitoringStep == MonitoringInv /\ [MonitoringNext]_monitoringVars => MonitoringInv'
<1> SUFFICES ASSUME MonitoringInv, [MonitoringNext]_monitoringVars PROVE MonitoringInv'
  OBVIOUS
<1>1. /\ borrower \in {"pool", "refresh", "request"} /\ Len(chain.seen) \in 0 .. Queries
      /\ dbChanges \in 0 .. MaxDbChanges /\ refreshes \in 0 .. MaxRefreshes
      /\ chain \in ChainRow /\ refresh \in RefreshRow /\ gauges \in GaugesRow
      /\ ClientInv /\ ChainInOrder /\ GaugesAreOneRefresh
      /\ Queries \in Nat \ {0} /\ MaxDbChanges \in Nat /\ MaxRefreshes \in Nat
      /\ chain.seen \in Seq(0 .. MaxDbChanges) /\ Len(chain.seen) \in Nat
  BY MonitoringAssumption, LenProperties DEF MonitoringInv, MonitoringTypeOK, ChainRow
<1> DEFINE Typed ==
      /\ borrower' \in {"pool", "refresh", "request"} /\ Len(chain'.seen) <= Queries
      /\ dbChanges' \in 0 .. MaxDbChanges /\ refreshes' \in 0 .. MaxRefreshes
      /\ chain' \in ChainRow /\ refresh' \in RefreshRow /\ gauges' \in GaugesRow
           Preserved == Typed /\ ClientInv' /\ ChainInOrder' /\ GaugesAreOneRefresh'
<1>2. SUFFICES Preserved
  BY DEF MonitoringInv, MonitoringTypeOK, RefreshRow, GaugesRow
<1>3. UNCHANGED gauges => GaugesAreOneRefresh'
  BY <1>1 DEF GaugesAreOneRefresh
<1>4. CASE StartRefresh
  <2>1. refreshes' \in 0 .. MaxRefreshes /\ dbChanges' = dbChanges /\ refresh.at = "idle"
    BY <1>1, <1>4 DEF StartRefresh
  <2>2. CASE /\ borrower = "pool" /\ borrower' = "refresh" /\ chain' = NewChain
             /\ refresh' = [NoRefresh EXCEPT !.at = "reading", !.since = dbChanges]
             /\ UNCHANGED gauges
    <3>1. /\ refresh' = [at |-> "reading", since |-> dbChanges, ok |-> TRUE]
          /\ chain' = [seen |-> <<>>, inFlight |-> FALSE, broken |-> FALSE]
      BY <2>2 DEF NoRefresh, NewChain
    <3>2. Len(chain'.seen) = 0 /\ chain' \in ChainRow /\ refresh' \in RefreshRow
      BY <1>1, <3>1, EmptySeq DEF ChainRow, RefreshRow
    <3>3. ClientInv' /\ ChainInOrder'
      BY <1>1, <2>1, <2>2, <3>1, <3>2 DEF ClientInv, ChainInOrder
    <3> QED
      BY <1>1, <1>3, <2>1, <2>2, <3>2, <3>3
  <2>3. CASE /\ refresh' = [NoRefresh EXCEPT !.at = "done", !.ok = FALSE]
             /\ gauges' = [gauges EXCEPT !.up = FALSE] /\ UNCHANGED <<borrower, chain>>
    <3>1. refresh' = [at |-> "done", since |-> 0, ok |-> FALSE]
      BY <2>3 DEF NoRefresh
    <3>2. refresh' \in RefreshRow /\ gauges' \in GaugesRow /\ gauges'.seen = gauges.seen
          /\ gauges'.since = gauges.since
      <4>1. refresh' \in RefreshRow
        BY <1>1, <3>1 DEF RefreshRow
      <4> QED
        BY <1>1, <2>3, <4>1, GaugesStayTyped
    <3>3. ClientInv' /\ ChainInOrder' /\ GaugesAreOneRefresh'
      BY <1>1, <2>1, <2>3, <3>1, <3>2 DEF ClientInv, ChainInOrder, GaugesAreOneRefresh
    <3> QED
      BY <1>1, <2>1, <2>3, <3>2, <3>3
  <2> QED
    BY <1>4, <2>2, <2>3 DEF StartRefresh
<1>5. CASE IssueQuery
  <2>1. chain' \in ChainRow /\ chain'.seen = chain.seen /\ chain'.broken = chain.broken /\ chain'.inFlight
    BY <1>1, <1>5 DEF IssueQuery, ChainRow
  <2>2. ClientInv' /\ ChainInOrder'
    BY <1>1, <1>5, <2>1 DEF IssueQuery, ClientInv, ChainInOrder
  <2> QED
    BY <1>1, <1>3, <1>5, <2>1, <2>2 DEF IssueQuery
<1>6. CASE QueryAnswers
  <2> DEFINE seen == Append(chain.seen, dbChanges)
  <2>1. chain' = [chain EXCEPT !.inFlight = FALSE, !.seen = seen]
        /\ UNCHANGED <<dbChanges, borrower, refresh, gauges, refreshes>>
        /\ chain.inFlight
    BY <1>6 DEF QueryAnswers
  <2>2. /\ seen \in Seq(0 .. MaxDbChanges) /\ Len(seen) = Len(chain.seen) + 1
        /\ seen[Len(chain.seen) + 1] = dbChanges
        /\ \A q \in 1 .. Len(chain.seen) : seen[q] = chain.seen[q]
    BY <1>1, AppendProperties
  <2> HIDE DEF seen
  <2>3. chain' \in ChainRow /\ chain'.seen = seen /\ ~chain'.inFlight /\ chain'.broken = chain.broken
    BY <1>1, <2>1, <2>2 DEF ChainRow
  <2>4. Len(chain.seen) < Queries /\ ~chain.broken /\ refresh.at = "reading"
    BY <1>1, <2>1 DEF ClientInv
  <2>5. ClientInv'
    BY <1>1, <2>1, <2>2, <2>3, <2>4 DEF ClientInv
  <2>6. ChainInOrder'
    <3>1. refresh.since \in Nat /\ \A q \in 1 .. Len(chain.seen) : chain.seen[q] \in Nat
      BY <1>1, ElementOfSeq DEF RefreshRow
    <3>2. \A q \in 1 .. Len(seen) : /\ q = Len(chain.seen) + 1 \/ q \in 1 .. Len(chain.seen)
                                    /\ seen[q] <= dbChanges /\ refresh.since <= seen[q]
      <4>1. SUFFICES ASSUME NEW q \in 1 .. Len(seen)
                     PROVE  /\ q = Len(chain.seen) + 1 \/ q \in 1 .. Len(chain.seen)
                            /\ seen[q] <= dbChanges /\ refresh.since <= seen[q]
        OBVIOUS
      <4>2. q = Len(chain.seen) + 1 \/ q \in 1 .. Len(chain.seen)
        BY <1>1, <2>2
      <4>3. CASE q = Len(chain.seen) + 1
        BY <1>1, <2>2, <2>4, <4>3 DEF ChainInOrder
      <4>4. CASE q \in 1 .. Len(chain.seen)
        <5>1. seen[q] = chain.seen[q] /\ chain.seen[q] <= dbChanges /\ refresh.since <= chain.seen[q]
          BY <1>1, <2>2, <2>4, <4>4 DEF ChainInOrder
        <5> QED
          BY <4>4, <5>1
      <4> QED
        BY <4>2, <4>3, <4>4
    <3>3. \A q \in 2 .. Len(seen) : seen[q - 1] <= seen[q]
      <4>1. SUFFICES ASSUME NEW q \in 2 .. Len(seen) PROVE seen[q - 1] <= seen[q]
        OBVIOUS
      <4>2. q - 1 \in 1 .. Len(chain.seen)
        BY <1>1, <2>2, <4>1
      <4>3. CASE q = Len(chain.seen) + 1
        BY <1>1, <2>2, <4>2, <4>3 DEF ChainInOrder
      <4>4. CASE q \in 2 .. Len(chain.seen)
        <5>1. q \in 1 .. Len(chain.seen) /\ chain.seen[q - 1] <= chain.seen[q]
          BY <1>1, <4>4 DEF ChainInOrder
        <5>2. seen[q] = chain.seen[q] /\ seen[q - 1] = chain.seen[q - 1]
          BY <2>2, <4>2, <5>1
        <5> QED
          BY <5>1, <5>2
      <4> QED
        BY SMTT(30), <1>1, <2>2, <4>3, <4>4
    <3> QED
      BY <1>1, <2>1, <2>3, <2>4, <3>2, <3>3 DEF ChainInOrder
  <2> QED
    BY <1>1, <1>3, <2>1, <2>2, <2>3, <2>4, <2>5, <2>6
<1>7. CASE QueryFails
  <2>1. /\ chain' \in ChainRow /\ chain'.seen = chain.seen /\ chain'.broken /\ ~chain'.inFlight
        /\ chain.inFlight
    BY <1>1, <1>7 DEF QueryFails, ChainRow
  <2>2. /\ refresh' \in RefreshRow /\ refresh.at = "reading" /\ refresh'.at = "rollback"
    BY <1>1, <1>7 DEF QueryFails, RefreshRow, ClientInv
  <2>3. ClientInv' /\ ChainInOrder'
    BY <1>1, <1>7, <2>1, <2>2 DEF QueryFails, ClientInv, ChainInOrder
  <2> QED
    BY <1>1, <1>3, <1>7, <2>1, <2>2, <2>3 DEF QueryFails
<1>8. CASE SetGauges
  <2>1. /\ refresh.at = "reading" /\ Len(chain.seen) = Queries
        /\ gauges' = [gauges EXCEPT !.seen = chain.seen, !.since = refresh.since]
        /\ refresh' = [refresh EXCEPT !.at = "commit"]
        /\ UNCHANGED <<dbChanges, borrower, chain, refreshes>>
    BY <1>8 DEF SetGauges
  <2>2. chain.seen \in [1 .. Queries -> 0 .. MaxDbChanges]
    BY <1>1, <2>1, LenProperties
  <2>3. refresh' \in RefreshRow /\ refresh'.at = "commit" /\ refresh.since \in 0 .. MaxDbChanges
    BY <1>1, <2>1 DEF RefreshRow
  <2>4. gauges' \in GaugesRow /\ gauges'.seen = chain.seen /\ gauges'.since = refresh.since
    BY <1>1, <2>1, <2>2, <2>3 DEF GaugesRow
  <2>5. ClientInv' /\ ChainInOrder'
    BY <1>1, <2>1, <2>3 DEF ClientInv, ChainInOrder
  <2>6. GaugesAreOneRefresh'
    BY <1>1, <2>1, <2>4 DEF GaugesAreOneRefresh, ChainInOrder
  <2> QED
    BY <1>1, <2>1, <2>3, <2>4, <2>5, <2>6
<1>9. CASE CommitRefresh \/ RollBack
  <2>1. refresh.at \in {"commit", "rollback"} /\ UNCHANGED <<dbChanges, chain, refreshes>>
    BY <1>9 DEF CommitRefresh, RollBack
  <2>2. /\ refresh' \in RefreshRow
        /\ gauges' \in GaugesRow /\ gauges'.seen = gauges.seen /\ gauges'.since = gauges.since
        /\ \/ refresh'.at = "done" /\ borrower' = "pool"
           \/ refresh'.at = "rollback" /\ borrower' = borrower
    <3>1. gauges' = gauges \/ \E up \in BOOLEAN : gauges' = [gauges EXCEPT !.up = up]
      BY <1>9 DEF CommitRefresh, RollBack
    <3>2. gauges' \in GaugesRow /\ gauges'.seen = gauges.seen /\ gauges'.since = gauges.since
      BY ZenonT(60), <1>1, <3>1, GaugesStayTyped
    <3>3. /\ refresh' \in RefreshRow
          /\ \/ refresh'.at = "done" /\ borrower' = "pool"
             \/ refresh'.at = "rollback" /\ borrower' = borrower
      BY <1>1, <1>9 DEF CommitRefresh, RollBack, RefreshRow
    <3> QED BY <3>2, <3>3
  <2>3. ClientInv' /\ ChainInOrder' /\ GaugesAreOneRefresh'
    BY <1>1, <2>1, <2>2 DEF ClientInv, ChainInOrder, GaugesAreOneRefresh
  <2> QED
    BY <1>1, <2>1, <2>2, <2>3
<1>10. ASSUME NEW p \in RemoteParts, NEW ok \in BOOLEAN, RemoteAnswers(p, ok) PROVE Preserved
  <2>1. /\ gauges' = [gauges EXCEPT !.remote[p] = ok]
        /\ UNCHANGED <<dbChanges, borrower, chain, refresh, refreshes>>
    BY <1>10 DEF RemoteAnswers
  <2>2. gauges' \in GaugesRow /\ gauges'.seen = gauges.seen /\ gauges'.since = gauges.since
    <3>1. PICK answers : answers = [gauges.remote EXCEPT ![p] = ok]
      OBVIOUS
    <3>2. answers \in [RemoteParts -> BOOLEAN]
      BY <1>1, <3>1 DEF GaugesRow
    <3>3. gauges' = [gauges EXCEPT !.remote = answers]
      BY <2>1, <3>1
    <3> QED
      BY <1>1, <3>2, <3>3 DEF GaugesRow
  <2>3. ClientInv' /\ ChainInOrder' /\ GaugesAreOneRefresh'
    BY <1>1, <2>1, <2>2 DEF ClientInv, ChainInOrder, GaugesAreOneRefresh
  <2> QED
    BY <1>1, <2>1, <2>2, <2>3
<1>11. CASE FinishRefresh
  <2>1. /\ refresh' = NoRefresh /\ refresh.at = "done"
        /\ \/ gauges' = gauges
           \/ gauges' = [gauges EXCEPT !.fresh = refreshes]
        /\ UNCHANGED <<dbChanges, borrower, chain, refreshes>>
    BY <1>1, <1>11 DEF FinishRefresh, GaugesRow
  <2>2. /\ refresh' \in RefreshRow /\ refresh'.at = "idle"
        /\ gauges' \in GaugesRow /\ gauges'.seen = gauges.seen /\ gauges'.since = gauges.since
    <3>1. refresh' \in RefreshRow /\ refresh'.at = "idle"
      BY <1>1, <2>1 DEF NoRefresh, RefreshRow
    <3> QED
      BY <1>1, <2>1, <3>1, GaugesStayTyped
  <2>3. ClientInv' /\ ChainInOrder' /\ GaugesAreOneRefresh'
    BY <1>1, <2>1, <2>2 DEF ClientInv, ChainInOrder, GaugesAreOneRefresh
  <2> QED
    BY <1>1, <2>1, <2>2, <2>3
<1>12. CASE DatabaseChanges
  <2>1. /\ dbChanges' \in 0 .. MaxDbChanges /\ dbChanges' = dbChanges + 1
        /\ UNCHANGED <<borrower, chain, refresh, gauges, refreshes>>
    BY <1>1, <1>12 DEF DatabaseChanges
  <2>2. refresh.since \in Nat /\ \A q \in 1 .. Len(chain.seen) : chain.seen[q] \in Nat
    BY <1>1, ElementOfSeq DEF RefreshRow
  <2>3. ChainInOrder'
    BY SMTT(30), <1>1, <2>1, <2>2 DEF ChainInOrder
  <2>4. ClientInv'
    BY <1>1, <2>1 DEF ClientInv
  <2> QED
    BY <1>1, <1>3, <2>1, <2>3, <2>4
<1>13. CASE RequestUsesClient
  <2>1. UNCHANGED <<dbChanges, chain, refresh, gauges, refreshes>>
        /\ borrower \in {"pool", "request"} /\ borrower' \in {"pool", "request"}
    BY <1>13 DEF RequestUsesClient
  <2>2. ClientInv' /\ ChainInOrder'
    BY <1>1, <2>1 DEF ClientInv, ChainInOrder
  <2> QED
    BY <1>1, <1>3, <2>1, <2>2
<1>14. CASE UNCHANGED monitoringVars
  <2>1. ClientInv' /\ ChainInOrder'
    BY <1>1, <1>14 DEF monitoringVars, ClientInv, ChainInOrder
  <2> QED
    BY <1>1, <1>3, <1>14, <2>1 DEF monitoringVars
<1> QED
  BY <1>4, <1>5, <1>6, <1>7, <1>8, <1>9, <1>10, <1>11, <1>12, <1>13, <1>14 DEF MonitoringNext

LEMMA MonitoringIsTrue == MonitoringInv => MonitoringIsSound
BY DEF MonitoringInv, ClientInv, MonitoringIsSound, ClientIsNotShared

------------------------------------------------------------------------------
(* The read models.                                                        *)

\* The desk shows each call of an agent in one place.
LEMMA DeskAccountsHolds == IInv => DeskAccounts
<1> SUFFICES ASSUME IInv, NEW a \in Agents
             PROVE  /\ DeskCalls(a) \cup RecentCalls(a) = {c \in Rows : call[c].agent = a}
                    /\ DeskCalls(a) \cap RecentCalls(a) = {}
                    /\ Cardinality(DeskCalls(a)) <= 1
  BY DEF DeskAccounts
<1>1. \A c \in Rows : call[c].ended <=> call[c].state \in Terminal
  BY DEF IInv, RowsOK, RowInv, Rows
<1>2. DeskCalls(a) \cup RecentCalls(a) = {c \in Rows : call[c].agent = a}
  BY <1>1 DEF DeskCalls, RecentCalls, NotLive
<1>3. DeskCalls(a) \cap RecentCalls(a) = {}
  BY DEF DeskCalls, RecentCalls
<1>4. \A c, d \in DeskCalls(a) : c = d
  <2>1. \A c \in DeskCalls(a) : c \in Calls /\ Interactive(call[c]) /\ call[c].agent = a
    BY DEF DeskCalls, Rows, NotLive, Interactive, Active
  <2> QED BY <2>1 DEF IInv, OneInteractiveCallPerAgent
<1>5. Cardinality(DeskCalls(a)) <= 1
  <2>1. CASE DeskCalls(a) = {}
    BY <2>1, FS_EmptySet
  <2>2. CASE DeskCalls(a) # {}
    <3>1. PICK c \in DeskCalls(a) : DeskCalls(a) = {c}
      BY <1>4, <2>2
    <3>2. Cardinality({c}) = 1
      BY FS_Singleton
    <3> QED BY <3>1, <3>2
  <2> QED BY <2>1, <2>2
<1> QED BY <1>2, <1>3, <1>5

\* What the pages, the statistics and the gauges say of one call.
LEMMA OneCallIsReportedAlike ==
  ASSUME IInv, NEW c \in Rows
  PROVE  /\ Active(call[c]) <=> c \in ActiveCallsGauge \cup VoicemailJobsGauge
         /\ c \in FailedCalls <=> c \in FailedGauge
         /\ c \in Completed => c \in Talked
         /\ c \in ChoosableCalls => Monitorable(c) /\ c \in LiveCalls
         /\ AgentInCall(call[c].agent) => call[c].agent \in ActiveAgents
         /\ c \in DeskCalls(call[c].agent) => ~(ActionsOffered(c) /\ c \in Released)
         /\ c \in Released =>
              c \in DeskVoicemailJobs(call[c].agent) \ DeskCalls(call[c].agent)
         /\ Active(call[c]) /\ call[c].contact # NoContact => ~LeadReady(call[c].contact)
<1>1. c \in Calls /\ Exists(call[c]) /\ RowInv(call[c])
  BY DEF Rows, IInv, RowsOK
<1>2. call[c].agent \in Agents /\ call[c].contact \in Contacts \cup {NoContact}
  BY <1>1 DEF IInv, TypeOK, CallRow
<1>3. Active(call[c]) <=> c \in ActiveCallsGauge \cup VoicemailJobsGauge
  BY <1>1 DEF Active, ActiveCallsGauge, VoicemailJobsGauge, NotLive, VoicemailActive, Terminal
<1>4. c \in FailedCalls <=> c \in FailedGauge
  BY <1>1 DEF FailedCalls, FailedGauge, RowInv
<1>5. c \in Completed => c \in Talked
  BY DEF Completed, Talked, Connected
<1>6. c \in ChoosableCalls => Monitorable(c) /\ c \in LiveCalls
  BY <1>1 DEF ChoosableCalls, Monitorable, LiveCalls, NotLive, Terminal, LegTypes
<1>7. AgentInCall(call[c].agent) => call[c].agent \in ActiveAgents
  <2>1. SUFFICES ASSUME NEW d \in Rows, call[d].agent = call[c].agent, ~call[d].ended,
                        call[d].state \notin NotLive
                 PROVE  call[c].agent \in ActiveAgents
    BY DEF AgentInCall
  <2>2. d \in Calls /\ Interactive(call[d])
    BY <2>1 DEF Rows, Interactive, Active, NotLive
  <2>3. agent[call[c].agent].status = "in_call"
    BY <2>1, <2>2 DEF IInv, InteractiveAgentIsBusy
  <2> QED BY <1>2, <2>3 DEF ActiveAgents
<1>8. c \in Released => call[c].state \in NotLive /\ call[c].requested
  BY <1>1 DEF Released, RowInv, NotLive
<1>9. c \in DeskCalls(call[c].agent) => call[c].state \notin NotLive
  BY DEF DeskCalls
<1>10. Active(call[c]) /\ call[c].contact # NoContact => ~LeadReady(call[c].contact)
  <2>1. SUFFICES ASSUME Active(call[c]), call[c].contact # NoContact
                 PROVE  ~LeadReady(call[c].contact)
    OBVIOUS
  <2>2. contact[call[c].contact] # "new"
    BY <1>1, <2>1 DEF IInv, LeadsInv, OpenLeadIsNotCallable
  <2>3. contact[call[c].contact] \in {"new", "calling", "completed"}
    BY <1>2, <2>1 DEF IInv, TypeOK
  <2> QED BY <2>2, <2>3 DEF LeadReady
<1> QED BY <1>3, <1>4, <1>5, <1>6, <1>7, <1>8, <1>9, <1>10 DEF DeskVoicemailJobs, DeskCalls

(* The reports agree whatever calls there are, and whatever is done to     *)
(* them in whatever order.                                                 *)
THEOREM ReportsAlwaysAgree == Spec => []ReportsAgree
<1>1. IInv => ReportsAgree
  BY DeskAccountsHolds, OneCallIsReportedAlike
  DEF ReportsAgree, LeadReady, CallableLeads
<1> QED BY <1>1, IInvHolds, PTL

------------------------------------------------------------------------------
(* The exports.  Rows are ordered by time and id, which only a deletion    *)
(* takes from them, and no id comes back.                                  *)

ExportRow == [at : {"idle", "yield", "read", "done", "refused"},
              first : Nat \X Nat, cursor : Nat \X Nat, budget : Nat,
              page : SUBSET CallIds, emitted : SUBSET CallIds,
              initial : SUBSET CallIds, stable : SUBSET CallIds]
ArchiveRow == [at : {"idle", "check", "pack", "done", "aborted"},
               listed : SUBSET CallIds, included : SUBSET CallIds, packed : SUBSET CallIds]

\* Rows that were read are at or before the cursor, or gone.
ReadRowsArePassed ==
  \A c \in csv.emitted \cup csv.page :
    c \in removed \/ (created[c] # 0 /\ ~Precedes(csv.cursor, Place(c)))

\* A row that nobody touched is still there, within the export, and is read
\* before the cursor passes it; a short page has all that are left.
UntouchedRowsAreRead ==
  \A c \in csv.stable :
    /\ c \in Kept /\ ~Precedes(Place(c), csv.first)
    /\ Precedes(csv.cursor, Place(c)) => csv.at = "read" \/ Cardinality(csv.page) = PageSize
    /\ ~Precedes(csv.cursor, Place(c)) => c \in csv.emitted \cup csv.page

CsvInv ==
  /\ csv.page \cap csv.emitted = {} /\ csv.stable \subseteq csv.initial
  /\ csv.budget = Cardinality(csv.initial) /\ Cardinality(csv.emitted) <= csv.budget
  /\ csv.at = "idle" => csv.stable = {}
  /\ csv.at = "read" => csv.page = {}
  /\ csv.at \in {"yield", "read"} => ReadRowsArePassed /\ UntouchedRowsAreRead
  /\ csv.at = "done" => Cardinality(csv.stable \ csv.emitted)
                          <= Cardinality(csv.emitted \ csv.initial)

HistoryInv ==
  /\ HistoryTypeOK /\ csv \in ExportRow /\ zip \in ArchiveRow
  /\ CsvInv
  /\ zip.at = "done" => zip.packed = zip.included

(* Places are strictly and totally ordered, and no two rows share one.     *)
LEMMA PlacesAreOrdered ==
  ASSUME NEW p \in Nat \X Nat, NEW q \in Nat \X Nat, NEW r \in Nat \X Nat
  PROVE  /\ ~Precedes(p, p)
         /\ Precedes(p, q) => ~Precedes(q, p)
         /\ p # q => Precedes(p, q) \/ Precedes(q, p)
         /\ Precedes(p, q) /\ Precedes(q, r) => Precedes(p, r)
<1>1. PICK p1 \in Nat, p2 \in Nat : p = <<p1, p2>> OBVIOUS
<1>2. PICK q1 \in Nat, q2 \in Nat : q = <<q1, q2>> OBVIOUS
<1>3. PICK r1 \in Nat, r2 \in Nat : r = <<r1, r2>> OBVIOUS
<1> QED BY <1>1, <1>2, <1>3 DEF Precedes

RowsOrdered == created \in [CallIds -> {0} \cup Times]

LEMMA RowsHavePlaces ==
  ASSUME RowsOrdered, NEW c \in CallIds, NEW d \in CallIds
  PROVE  Place(c) \in Nat \X Nat /\ (c # d => Place(c) # Place(d))
<1>1. c \in Nat /\ d \in Nat /\ created[c] \in Nat /\ created[d] \in Nat
  <2>1. created[c] \in {0} \cup Times /\ created[d] \in {0} \cup Times BY DEF RowsOrdered
  <2>2. CallIds \subseteq Nat /\ {0} \cup Times \subseteq Nat BY HistoryAssumption
  <2> QED BY <2>1, <2>2
<1> QED BY <1>1 DEF Place

(* The number of rows of a set ahead of a row grows along the order.       *)
Ahead(S, c) == {d \in S : Precedes(Place(d), Place(c))}
Rank(S, c) == Cardinality(Ahead(S, c))

LEMMA RankGrows ==
  ASSUME RowsOrdered, NEW S \in SUBSET CallIds, NEW c \in S, NEW d \in S
  PROVE  /\ Rank(S, c) \in Nat /\ Rank(S, c) < Cardinality(S)
         /\ Precedes(Place(c), Place(d)) => Rank(S, c) < Rank(S, d)
         /\ c # d => Rank(S, c) # Rank(S, d)
<1>0. IsFiniteSet(S) BY HistoryAssumption, FS_Subset
<1>1. ASSUME NEW x \in S, NEW y \in S, Precedes(Place(x), Place(y))
      PROVE  Rank(S, x) < Rank(S, y)
  <2>1. Ahead(S, x) \subseteq Ahead(S, y)
    <3>1. ASSUME NEW z \in S, Precedes(Place(z), Place(x))
          PROVE  Precedes(Place(z), Place(y))
      BY <1>1, <3>1, RowsHavePlaces, PlacesAreOrdered
    <3> QED BY <3>1 DEF Ahead
  <2>2. x \in Ahead(S, y) /\ x \notin Ahead(S, x)
    BY <1>1, RowsHavePlaces, PlacesAreOrdered DEF Ahead
  <2>3. IsFiniteSet(Ahead(S, y)) BY <1>0, FS_Subset DEF Ahead
  <2>4. Ahead(S, x) # Ahead(S, y) BY <2>2
  <2>5. Cardinality(Ahead(S, x)) \in Nat /\ Cardinality(Ahead(S, y)) \in Nat
    BY <2>1, <2>3, FS_Subset, FS_CardinalityType
  <2>6. /\ Cardinality(Ahead(S, x)) <= Cardinality(Ahead(S, y))
        /\ Cardinality(Ahead(S, x)) # Cardinality(Ahead(S, y))
    BY <2>1, <2>3, <2>4, FS_Subset
  <2> QED BY <2>5, <2>6 DEF Rank
<1>2. Rank(S, c) \in Nat /\ Rank(S, c) < Cardinality(S)
  <2>1. Ahead(S, c) \subseteq S /\ c \notin Ahead(S, c)
    BY RowsHavePlaces, PlacesAreOrdered DEF Ahead
  <2>2. Ahead(S, c) # S BY <2>1
  <2>3. /\ Cardinality(Ahead(S, c)) \in Nat /\ Cardinality(S) \in Nat
        /\ Cardinality(Ahead(S, c)) <= Cardinality(S)
        /\ Cardinality(Ahead(S, c)) # Cardinality(S)
    BY <1>0, <2>1, <2>2, FS_Subset, FS_CardinalityType
  <2> QED BY <2>3 DEF Rank
<1>3. Rank(S, d) \in Nat
  BY <1>0, FS_Subset, FS_CardinalityType DEF Rank, Ahead
<1>4. c # d => Precedes(Place(c), Place(d)) \/ Precedes(Place(d), Place(c))
  BY RowsHavePlaces, PlacesAreOrdered
<1> QED BY <1>1, <1>2, <1>3, <1>4

(* Ranks are different numbers below the number of rows, so that a set of  *)
(* rows has a row of the lowest and one of the highest rank.               *)
LEMMA RanksFit ==
  ASSUME RowsOrdered, NEW S \in SUBSET CallIds, NEW T \in SUBSET S,
         NEW a \in Int, NEW b \in Int, a <= b + 1, \A c \in T : Rank(S, c) \in a..b
  PROVE  IsFiniteSet(T) /\ Cardinality(T) <= b - a + 1
<1> DEFINE f == [c \in T |-> Rank(S, c)]
<1>1. \A c \in T, d \in T : Rank(S, c) = Rank(S, d) => c = d BY RankGrows
<1>2. f \in [T -> a..b] OBVIOUS
<1>3. ASSUME NEW c \in T, NEW d \in T, f[c] = f[d] PROVE c = d BY <1>1, <1>3
<1> HIDE DEF f
<1>4. f \in Injection(T, a..b) BY <1>2, <1>3 DEF Injection, IsInjective
<1>5. IsFiniteSet(a..b) /\ Cardinality(a..b) = b - a + 1 BY FS_Interval
<1>6. IsFiniteSet(T) /\ Cardinality(T) <= Cardinality(a..b) BY <1>4, <1>5, FS_Injection
<1> QED BY <1>5, <1>6

LEMMA FirstAndLast ==
  ASSUME RowsOrdered, NEW S \in SUBSET CallIds, S # {}
  PROVE  /\ \E c \in S : /\ FirstOf(S) = Place(c)
                         /\ \A d \in S \ {c} : Precedes(Place(c), Place(d))
         /\ \E c \in S : /\ LastOf(S) = Place(c)
                         /\ \A d \in S \ {c} : Precedes(Place(d), Place(c))
<1>0. IsFiniteSet(S) /\ Cardinality(S) \in Nat /\ Cardinality(S) # 0
  BY HistoryAssumption, FS_Subset, FS_CardinalityType, FS_EmptySet
<1> DEFINE n == Cardinality(S)
<1> HIDE DEF n
<1>1. n \in Nat /\ n >= 1 /\ n = Cardinality(S) BY <1>0 DEF n
<1>2. \A c \in S : Rank(S, c) \in Nat /\ Rank(S, c) < n BY <1>1, RankGrows
<1>3. \A c \in S, d \in S : Precedes(Place(c), Place(d)) => Rank(S, c) < Rank(S, d)
  BY RankGrows
<1>4. \A c \in S, d \in S : c # d => Precedes(Place(c), Place(d)) \/ Precedes(Place(d), Place(c))
  BY RowsHavePlaces, PlacesAreOrdered
<1>5. \E c \in S : \A d \in S \ {c} : Precedes(Place(c), Place(d))
  <2>1. PICK c \in S : Rank(S, c) = 0
    <3>1. SUFFICES ASSUME \A c \in S : Rank(S, c) # 0 PROVE FALSE OBVIOUS
    <3>2. \A c \in S : Rank(S, c) \in 1..(n - 1) BY <1>1, <1>2, <3>1
    <3>3. S \in SUBSET S /\ 1 \in Int /\ n - 1 \in Int /\ 1 <= (n - 1) + 1 BY <1>1
    <3>4. Cardinality(S) <= (n - 1) - 1 + 1 BY <3>2, <3>3, RanksFit
    <3> QED BY <1>1, <3>4
  <2> QED BY <1>2, <1>3, <1>4, <2>1
<1>6. \E c \in S : \A d \in S \ {c} : Precedes(Place(d), Place(c))
  <2>1. PICK c \in S : Rank(S, c) = n - 1
    <3>1. SUFFICES ASSUME \A c \in S : Rank(S, c) # n - 1 PROVE FALSE OBVIOUS
    <3>2. \A c \in S : Rank(S, c) \in 0..(n - 2) BY <1>1, <1>2, <3>1
    <3>3. S \in SUBSET S /\ 0 \in Int /\ n - 2 \in Int /\ 0 <= (n - 2) + 1 BY <1>1
    <3>4. Cardinality(S) <= (n - 2) - 0 + 1 BY <3>2, <3>3, RanksFit
    <3> QED BY <1>1, <3>4
  <2> QED BY <1>1, <1>2, <1>3, <1>4, <2>1
<1> QED BY <1>5, <1>6 DEF FirstOf, LastOf

(* A page has at most its size, precedes the rows it leaves, and leaves    *)
(* none unless it is full.                                                 *)
LEMMA PageIsTheTop ==
  ASSUME RowsOrdered, NEW S \in SUBSET CallIds, NEW n \in Nat
  PROVE  /\ Top(S, n) \subseteq S
         /\ IsFiniteSet(Top(S, n)) /\ Cardinality(Top(S, n)) \in Nat
         /\ Cardinality(Top(S, n)) <= n
         /\ \A c \in S \ Top(S, n), d \in Top(S, n) : Precedes(Place(d), Place(c))
         /\ Top(S, n) # S => Cardinality(Top(S, n)) = n
<1> DEFINE T == Top(S, n)
<1>0. T = {c \in S : Rank(S, c) < n} BY DEF Top, Rank, Ahead
<1>1. T \subseteq S /\ IsFiniteSet(T) /\ Cardinality(T) \in Nat
  BY <1>0, HistoryAssumption, FS_Subset, FS_CardinalityType
<1>2. Cardinality(T) <= n
  <2> HIDE DEF T
  <2>1. ASSUME NEW c \in T PROVE Rank(S, c) \in 0..(n - 1)
    <3>1. c \in S /\ Rank(S, c) < n BY <1>0
    <3>2. Rank(S, c) \in Nat BY <3>1, RankGrows
    <3> QED BY <3>1, <3>2
  <2>2. 0 \in Int /\ n - 1 \in Int /\ 0 <= (n - 1) + 1 OBVIOUS
  <2>3. Cardinality(T) <= (n - 1) - 0 + 1 BY <1>1, <2>1, <2>2, RanksFit
  <2> QED BY <1>1, <2>3
<1>3. ASSUME NEW c \in S \ T, NEW d \in T PROVE Precedes(Place(d), Place(c))
  <2>1. c # d /\ d \in S /\ Rank(S, d) < n /\ ~(Rank(S, c) < n) BY <1>0
  <2>2. Precedes(Place(c), Place(d)) \/ Precedes(Place(d), Place(c))
    BY <2>1, RowsHavePlaces, PlacesAreOrdered
  <2>3. Precedes(Place(c), Place(d)) => Rank(S, c) < Rank(S, d) BY <2>1, RankGrows
  <2>4. Rank(S, c) \in Nat /\ Rank(S, d) \in Nat BY <2>1, RankGrows
  <2> QED BY <2>1, <2>2, <2>3, <2>4
<1>4. ASSUME T # S PROVE Cardinality(T) = n
  <2>1. S \ T # {} /\ S \ T \in SUBSET CallIds BY <1>1, <1>4
  <2> HIDE DEF T
  <2>2. PICK c \in S \ T : \A d \in (S \ T) \ {c} : Precedes(Place(c), Place(d))
    BY <2>1, FirstAndLast
  <2>3. Ahead(S, c) \subseteq T
    BY <2>2, RowsHavePlaces, PlacesAreOrdered DEF Ahead
  <2>4. ~(Rank(S, c) < n) /\ Rank(S, c) \in Nat BY <1>0, <2>2, RankGrows
  <2>5. Rank(S, c) <= Cardinality(T) BY <2>3, <1>1, FS_Subset DEF Rank
  <2> QED BY <1>1, <1>2, <2>4, <2>5
<1> QED BY <1>1, <1>2, <1>3, <1>4

LEMMA HistoryBegins == HistoryInit => HistoryInv
<1> SUFFICES ASSUME HistoryInit PROVE HistoryInv OBVIOUS
<1> USE DEF HistoryInit
<1>1. csv \in ExportRow /\ zip \in ArchiveRow
  BY DEF ExportRow, ArchiveRow, NoPlace
<1>2. HistoryTypeOK BY HistoryAssumption DEF HistoryTypeOK
<1>3. CsvInv
  BY FS_EmptySet DEF CsvInv
<1> QED BY <1>1, <1>2, <1>3 DEF HistoryInv

LEMMA InvGivesOrder == HistoryInv => RowsOrdered /\ IsFiniteSet(CallIds)
BY HistoryAssumption DEF HistoryInv, HistoryTypeOK, RowsOrdered

(* A set of calls has a number of elements, and a part of it no more.      *)
LEMMA Counts ==
  ASSUME NEW S \in SUBSET CallIds, NEW T \in SUBSET S
  PROVE  /\ IsFiniteSet(S) /\ Cardinality(S) \in Nat
         /\ IsFiniteSet(T) /\ Cardinality(T) \in Nat /\ Cardinality(T) <= Cardinality(S)
         /\ Cardinality(S \ T) = Cardinality(S) - Cardinality(T)
<1>1. IsFiniteSet(S) BY HistoryAssumption, FS_Subset
<1>2. IsFiniteSet(T) /\ Cardinality(T) <= Cardinality(S) BY <1>1, FS_Subset
<1>3. S \cap T = T OBVIOUS
<1>4. Cardinality(S \ T) = Cardinality(S) - Cardinality(S \cap T) BY <1>1, FS_Difference
<1> QED BY <1>1, <1>2, <1>3, <1>4, FS_CardinalityType

(* What is missing from a full export is made up for by what is new.       *)
LEMMA FullExport ==
  ASSUME NEW I \in SUBSET CallIds, NEW E \in SUBSET CallIds, NEW S \in SUBSET I,
         Cardinality(E) >= Cardinality(I)
  PROVE  Cardinality(S \ E) <= Cardinality(E \ I)
<1>1. Cardinality(I \ (I \cap E)) = Cardinality(I) - Cardinality(I \cap E) BY Counts
<1>2. Cardinality(E \ (I \cap E)) = Cardinality(E) - Cardinality(I \cap E) BY Counts
<1>3. I \ (I \cap E) = I \ E /\ E \ (I \cap E) = E \ I OBVIOUS
<1>4. S \ E \in SUBSET (I \ E) /\ I \ E \in SUBSET CallIds /\ E \ I \in SUBSET CallIds OBVIOUS
<1>5. /\ Cardinality(S \ E) \in Nat /\ Cardinality(I \ E) \in Nat
      /\ Cardinality(S \ E) <= Cardinality(I \ E)
  BY <1>4, Counts
<1>6. /\ Cardinality(I \cap E) \in Nat /\ Cardinality(I) \in Nat
      /\ Cardinality(E) \in Nat /\ Cardinality(E \ I) \in Nat
  BY <1>4, Counts
<1> QED BY <1>1, <1>2, <1>3, <1>5, <1>6

LEMMA NothingMissing ==
  ASSUME NEW I \in SUBSET CallIds, NEW E \in SUBSET CallIds, NEW S \in SUBSET E
  PROVE  Cardinality(S \ E) <= Cardinality(E \ I)
<1>1. S \ E = {} OBVIOUS
<1>2. Cardinality(E \ I) \in Nat BY Counts
<1> QED BY <1>1, <1>2, FS_EmptySet

LEMMA OpenKeepsHistory == ASSUME HistoryInv, OpenCsvExport PROVE HistoryInv'
<1> USE InvGivesOrder
<1> DEFINE K == Kept
           T == Top(K, PageSize)
<1>0. PageSize \in Nat /\ PageSize > 0 BY HistoryAssumption
<1>1. K \in SUBSET CallIds /\ PageSize \in Nat /\ PageSize > 0
  BY <1>0 DEF HistoryInv, HistoryTypeOK, Kept
<1>2. /\ T \subseteq K /\ Cardinality(T) \in Nat /\ Cardinality(T) <= PageSize
      /\ \A c \in K \ T, d \in T : Precedes(Place(d), Place(c))
      /\ T # K => Cardinality(T) = PageSize
  BY <1>1, PageIsTheTop
<1>3. csv \in ExportRow /\ csv.at = "idle" /\ CsvInv /\ HistoryTypeOK /\ zip \in ArchiveRow
      /\ (zip.at = "done" => zip.packed = zip.included)
  BY DEF HistoryInv, OpenCsvExport
<1>4. UNCHANGED <<created, matching, recorded, files, removed, zip, changes>>
  BY DEF OpenCsvExport, tableVars
<1>5. CASE csv' = [csv EXCEPT !.at = "refused"]
  <2>1. csv' \in ExportRow BY <1>3, <1>5 DEF ExportRow
  <2>2. CsvInv' BY <1>3, <1>5 DEF CsvInv, ExportRow
  <2>3. HistoryTypeOK' BY <1>3, <1>4, <1>5 DEF HistoryTypeOK, ExportRow
  <2> QED BY <1>3, <1>4, <2>1, <2>2, <2>3 DEF HistoryInv
<1>6. CASE K = {} /\ csv' = [csv EXCEPT !.at = "done"]
  <2>1. csv' \in ExportRow BY <1>3, <1>6 DEF ExportRow
  <2>2. CsvInv'
    <3>1. csv.emitted \in SUBSET CallIds /\ csv.initial \in SUBSET CallIds /\ csv.stable = {}
      BY <1>3 DEF ExportRow, CsvInv
    <3>2. Cardinality(csv.stable \ csv.emitted) <= Cardinality(csv.emitted \ csv.initial)
      BY <3>1, NothingMissing
    <3> QED BY <1>3, <1>6, <3>2 DEF CsvInv, ExportRow
  <2>3. HistoryTypeOK' BY <1>3, <1>4, <1>6 DEF HistoryTypeOK, ExportRow
  <2> QED BY <1>3, <1>4, <2>1, <2>2, <2>3 DEF HistoryInv
<1>7. CASE /\ K # {}
           /\ csv' = [at |-> "yield", first |-> FirstOf(K), cursor |-> LastOf(T),
                      budget |-> Cardinality(K), page |-> T, emitted |-> {},
                      initial |-> K, stable |-> K]
  <2> HIDE DEF T, K
  <2>1. T # {}
    <3>1. T = {} => Cardinality(T) = 0 BY FS_EmptySet
    <3> QED BY <1>1, <1>2, <1>7, <3>1
  <2>2. PICK f \in K : /\ FirstOf(K) = Place(f)
                       /\ \A d \in K \ {f} : Precedes(Place(f), Place(d))
    BY <1>1, <1>7, FirstAndLast
  <2>3. PICK l \in T : /\ LastOf(T) = Place(l)
                       /\ \A d \in T \ {l} : Precedes(Place(d), Place(l))
    BY <1>1, <1>2, <2>1, FirstAndLast
  <2>4. Cardinality(K) \in Nat BY <1>1, Counts
  <2>5. csv' \in ExportRow
    BY <1>1, <1>2, <1>7, <2>2, <2>3, <2>4, RowsHavePlaces DEF ExportRow
  <2>6. ReadRowsArePassed'
    <3>1. ASSUME NEW c \in T PROVE created[c] # 0 /\ ~Precedes(Place(l), Place(c))
      <4>1. created[c] # 0 BY <1>2 DEF K, Kept
      <4> QED BY <4>1, <1>1, <1>2, <2>3, RowsHavePlaces, PlacesAreOrdered
    <3>2. \A c : Place(c)' = Place(c) BY <1>4 DEF Place
    <3> QED BY <1>4, <1>7, <2>3, <3>1, <3>2 DEF ReadRowsArePassed
  <2>7. UntouchedRowsAreRead'
    <3>1. ASSUME NEW c \in K
          PROVE  /\ ~Precedes(Place(c), Place(f))
                 /\ Precedes(Place(l), Place(c)) => Cardinality(T) = PageSize
                 /\ ~Precedes(Place(l), Place(c)) => c \in T
      <4>1. ~Precedes(Place(c), Place(f))
        BY <1>1, <2>2, RowsHavePlaces, PlacesAreOrdered
      <4>2. c \in T => ~Precedes(Place(l), Place(c))
        BY <1>1, <1>2, <2>3, RowsHavePlaces, PlacesAreOrdered
      <4>3. c \notin T => Precedes(Place(l), Place(c)) BY <1>2, <2>3
      <4> QED BY <1>2, <4>1, <4>2, <4>3
    <3>2. \A c : Place(c)' = Place(c) BY <1>4 DEF Place
    <3>3. Kept' = K BY <1>4 DEF Kept, K
    <3>4. csv'.first = Place(f) /\ csv'.cursor = Place(l) /\ csv'.page = T /\ csv'.stable = K
      BY <1>7, <2>2, <2>3
    <3> QED BY <3>1, <3>2, <3>3, <3>4 DEF UntouchedRowsAreRead
  <2>8. CsvInv' BY <1>2, <1>7, <2>4, <2>6, <2>7, FS_EmptySet DEF CsvInv
  <2>9. HistoryTypeOK'
    BY <1>1, <1>2, <1>3, <1>4, <1>7 DEF HistoryTypeOK
  <2> QED BY <1>3, <1>4, <2>5, <2>8, <2>9 DEF HistoryInv
<1> QED BY <1>5, <1>6, <1>7 DEF OpenCsvExport

LEMMA YieldKeepsHistory == ASSUME HistoryInv, YieldPage PROVE HistoryInv'
<1> USE InvGivesOrder
<1> DEFINE E == csv.emitted
           P == csv.page
           n == csv.budget - Cardinality(E)
           T == Top(P, n)
           F == E \cup T
<1>1. csv \in ExportRow /\ csv.at = "yield" /\ CsvInv /\ HistoryTypeOK /\ zip \in ArchiveRow
      /\ (zip.at = "done" => zip.packed = zip.included)
  BY DEF HistoryInv, YieldPage
<1>2. UNCHANGED <<created, matching, recorded, files, removed, zip, changes>>
  BY DEF YieldPage, tableVars
<1>3. /\ E \in SUBSET CallIds /\ P \in SUBSET CallIds /\ P \cap E = {}
      /\ csv.initial \in SUBSET CallIds /\ csv.stable \in SUBSET csv.initial
      /\ csv.budget = Cardinality(csv.initial) /\ Cardinality(E) <= csv.budget
      /\ ReadRowsArePassed /\ UntouchedRowsAreRead
  BY <1>1 DEF ExportRow, CsvInv
<1>4. Cardinality(E) \in Nat /\ csv.budget \in Nat /\ n \in Nat /\ Cardinality(P) \in Nat
  <2>1. Cardinality(E) \in Nat /\ Cardinality(P) \in Nat BY <1>3, Counts, P \in SUBSET P, E \in SUBSET E
  <2>2. csv.budget \in Nat BY <1>1 DEF ExportRow
  <2> QED BY <1>3, <2>1, <2>2
<1>5. T \subseteq P /\ Cardinality(T) <= n /\ (T # P => Cardinality(T) = n)
      /\ Cardinality(T) \in Nat
  BY <1>3, <1>4, PageIsTheTop
<1> HIDE DEF T
<1>6. Cardinality(F) = Cardinality(E) + Cardinality(T)
  <2>1. F \in SUBSET CallIds /\ T \in SUBSET F /\ F \ T = E BY <1>3, <1>5
  <2>2. Cardinality(F \ T) = Cardinality(F) - Cardinality(T) /\ Cardinality(F) \in Nat
    BY <2>1, Counts
  <2>3. Cardinality(E) = Cardinality(F) - Cardinality(T) BY <2>1, <2>2
  <2> HIDE DEF F
  <2> QED BY <1>4, <1>5, <2>2, <2>3
<1>7. Cardinality(F) \in Nat /\ Cardinality(F) <= csv.budget BY <1>4, <1>5, <1>6
<1>8. T # P => Cardinality(F) = csv.budget BY <1>4, <1>5, <1>6
<1>9. PageSize \in Nat BY HistoryAssumption
<1> DEFINE complete == Cardinality(F) >= csv.budget \/ Cardinality(P) < PageSize
<1>10. csv' = [csv EXCEPT !.emitted = F, !.page = {}, !.at = IF complete THEN "done" ELSE "read"]
  BY DEF YieldPage, T
<1> HIDE DEF complete
<1>11. /\ csv'.at = IF complete THEN "done" ELSE "read"
       /\ csv'.emitted = F /\ csv'.page = {} /\ csv'.first = csv.first
       /\ csv'.cursor = csv.cursor /\ csv'.budget = csv.budget
       /\ csv'.initial = csv.initial /\ csv'.stable = csv.stable
  BY <1>1, <1>10 DEF ExportRow
<1>12. csv' \in ExportRow BY <1>1, <1>3, <1>5, <1>10 DEF ExportRow
<1>13. \A c : Place(c)' = Place(c) BY <1>2 DEF Place
<1>14. Kept' = Kept BY <1>2 DEF Kept
<1>15. CASE ~complete
  <2>1. F = E \cup P BY <1>4, <1>7, <1>8, <1>15 DEF complete
  <2>2. ReadRowsArePassed'
    BY <1>2, <1>3, <1>11, <1>13, <2>1 DEF ReadRowsArePassed
  <2>3. UntouchedRowsAreRead'
    BY <1>3, <1>11, <1>13, <1>14, <1>15, <2>1 DEF UntouchedRowsAreRead
  <2> QED BY <1>1, <1>2, <1>3, <1>7, <1>11, <1>12, <1>15, <2>2, <2>3
          DEF HistoryInv, HistoryTypeOK, CsvInv, ExportRow
<1>16. CASE complete
  <2>1. Cardinality(csv.stable \ F) <= Cardinality(F \ csv.initial)
    <3>1. CASE Cardinality(F) >= csv.budget
      BY <1>3, <1>5, <3>1, FullExport
    <3>2. CASE ~(Cardinality(F) >= csv.budget)
      <4>1. F = E \cup P /\ Cardinality(P) # PageSize
        BY <1>4, <1>7, <1>8, <1>9, <1>16, <3>2 DEF complete
      <4>2. csv.stable \in SUBSET F
        BY <1>1, <1>3, <4>1 DEF UntouchedRowsAreRead
      <4> QED BY <1>3, <1>5, <4>2, NothingMissing
    <3> QED BY <3>1, <3>2
  <2> QED BY <1>1, <1>2, <1>3, <1>7, <1>11, <1>12, <1>16, <2>1
          DEF HistoryInv, HistoryTypeOK, CsvInv, ExportRow
<1> QED BY <1>15, <1>16

LEMMA ReadKeepsHistory == ASSUME HistoryInv, ReadPage PROVE HistoryInv'
<1> USE InvGivesOrder
<1> DEFINE E == csv.emitted
           W == {c \in Kept : Within(c)}
           T == Top(W, PageSize)
<1>1. csv \in ExportRow /\ csv.at = "read" /\ CsvInv /\ HistoryTypeOK /\ zip \in ArchiveRow
      /\ (zip.at = "done" => zip.packed = zip.included)
  BY DEF HistoryInv, ReadPage
<1>2. UNCHANGED <<created, matching, recorded, files, removed, zip, changes>>
  BY DEF ReadPage, tableVars
<1>3. /\ E \in SUBSET CallIds /\ csv.page = {}
      /\ csv.initial \in SUBSET CallIds /\ csv.stable \in SUBSET csv.initial
      /\ csv.budget = Cardinality(csv.initial) /\ Cardinality(E) <= csv.budget
      /\ ReadRowsArePassed /\ UntouchedRowsAreRead
      /\ csv.cursor \in Nat \X Nat /\ csv.first \in Nat \X Nat
  BY <1>1 DEF ExportRow, CsvInv
<1>4. PageSize \in Nat /\ PageSize > 0 BY HistoryAssumption
<1>5. W \in SUBSET CallIds /\ Kept \in SUBSET CallIds BY <1>1 DEF Kept, HistoryTypeOK
<1>6. /\ T \subseteq W /\ Cardinality(T) \in Nat
      /\ \A c \in W \ T, d \in T : Precedes(Place(d), Place(c))
      /\ T # W => Cardinality(T) = PageSize
  BY <1>4, <1>5, PageIsTheTop
<1>7. \A c \in W : c \in Kept /\ Precedes(csv.cursor, Place(c)) BY DEF Within
<1>8. \A c \in csv.stable : Precedes(csv.cursor, Place(c)) => c \in W
  BY <1>3 DEF UntouchedRowsAreRead, Within
<1>9. csv' = IF T = {} THEN [csv EXCEPT !.at = "done"]
             ELSE [csv EXCEPT !.at = "yield", !.page = T, !.cursor = LastOf(T)]
  BY DEF ReadPage
<1> HIDE DEF T, W
<1>10. \A c : Place(c)' = Place(c) BY <1>2 DEF Place
<1>11. Kept' = Kept BY <1>2 DEF Kept
<1>12. CASE T = {}
  <2>1. W = {}
    <3>1. Cardinality(T) = 0 BY <1>12, FS_EmptySet
    <3> QED BY <1>4, <1>6, <1>12, <3>1
  <2>2. csv.stable \in SUBSET E BY <1>3, <1>8, <2>1 DEF UntouchedRowsAreRead
  <2>3. Cardinality(csv.stable \ E) <= Cardinality(E \ csv.initial)
    BY <1>3, <2>2, NothingMissing
  <2> QED BY <1>1, <1>2, <1>3, <1>9, <1>12, <2>3
          DEF HistoryInv, HistoryTypeOK, CsvInv, ExportRow
<1>13. CASE T # {}
  <2>1. PICK l \in T : /\ LastOf(T) = Place(l)
                       /\ \A d \in T \ {l} : Precedes(Place(d), Place(l))
    BY <1>5, <1>6, <1>13, FirstAndLast
  <2>2. /\ csv'.at = "yield" /\ csv'.page = T /\ csv'.cursor = Place(l)
        /\ csv'.emitted = E /\ csv'.first = csv.first /\ csv'.budget = csv.budget
        /\ csv'.initial = csv.initial /\ csv'.stable = csv.stable
    BY <1>1, <1>9, <1>13, <2>1 DEF ExportRow
  <2>3. csv' \in ExportRow
    <3>1. Place(l) \in Nat \X Nat BY <1>5, <1>6, <2>1, RowsHavePlaces
    <3>2. T \in SUBSET CallIds BY <1>5, <1>6
    <3>3. csv' = [csv EXCEPT !.at = "yield", !.page = T, !.cursor = Place(l)]
      BY <1>9, <1>13, <2>1
    <3> QED BY <1>1, <3>1, <3>2, <3>3 DEF ExportRow
  <2>4. ASSUME NEW c \in CallIds, Precedes(Place(l), Place(c))
        PROVE  Precedes(csv.cursor, Place(c))
    <3>1. Precedes(csv.cursor, Place(l)) /\ l \in CallIds BY <1>5, <1>6, <1>7, <2>1
    <3>2. Place(l) \in Nat \X Nat /\ Place(c) \in Nat \X Nat BY <3>1, RowsHavePlaces
    <3> QED BY <1>3, <2>4, <3>1, <3>2, PlacesAreOrdered
  <2>5. \A c \in T : ~Precedes(Place(l), Place(c))
    <3>1. ASSUME NEW c \in T PROVE ~Precedes(Place(l), Place(c))
      <4>1. Place(l) \in Nat \X Nat /\ Place(c) \in Nat \X Nat
        BY <1>5, <1>6, <2>1, RowsHavePlaces
      <4> QED BY <2>1, <4>1, PlacesAreOrdered
    <3> QED BY <3>1
  <2>6. T \cap E = {}
    <3>1. \A c \in T : created[c] # 0 /\ c \notin removed
      BY <1>1, <1>6, <1>7 DEF Kept, HistoryTypeOK
    <3> QED BY <1>3, <1>6, <1>7, <3>1 DEF ReadRowsArePassed
  <2>7. ReadRowsArePassed'
    <3>1. ASSUME NEW c \in E \cup T
          PROVE  c \in removed \/ (created[c] # 0 /\ ~Precedes(Place(l), Place(c)))
      <4>1. CASE c \in E BY <1>3, <2>4, <4>1 DEF ReadRowsArePassed
      <4>2. CASE c \in T BY <1>6, <1>7, <2>5, <4>2 DEF Kept
      <4> QED BY <4>1, <4>2
    <3> QED BY <1>2, <1>10, <2>2, <3>1 DEF ReadRowsArePassed
  <2>8. UntouchedRowsAreRead'
    <3>1. ASSUME NEW c \in csv.stable
          PROVE  /\ Precedes(Place(l), Place(c)) => Cardinality(T) = PageSize
                 /\ ~Precedes(Place(l), Place(c)) => c \in E \cup T
      <4>1. c \in CallIds BY <1>3
      <4>2. Precedes(Place(l), Place(c)) => c \in W /\ c \notin T
        BY <1>8, <2>4, <2>5, <4>1
      <4>3. ~Precedes(csv.cursor, Place(c)) => c \in E
        BY <1>3 DEF UntouchedRowsAreRead
      <4>4. c \in W \ T => Precedes(Place(l), Place(c)) BY <1>6, <2>1
      <4> QED BY <1>6, <1>8, <4>2, <4>3, <4>4
    <3> QED BY <1>3, <1>10, <1>11, <2>2, <3>1 DEF UntouchedRowsAreRead
  <2>9. CsvInv' BY <1>3, <2>2, <2>6, <2>7, <2>8 DEF CsvInv
  <2>10. HistoryTypeOK' BY <1>1, <1>2, <1>3, <1>5, <1>6, <2>2 DEF HistoryTypeOK
  <2> QED BY <1>1, <1>2, <2>3, <2>9, <2>10 DEF HistoryInv
<1> QED BY <1>12, <1>13

LEMMA ArchiveKeepsHistory ==
  ASSUME HistoryInv,
         OpenArchive \/ WriteManifest \/ FinishArchive
           \/ \E c \in CallIds : CheckFile(c) \/ PackFile(c)
  PROVE  HistoryInv'
<1>1. UNCHANGED <<created, matching, recorded, files, removed, csv, changes>>
  BY DEF OpenArchive, WriteManifest, FinishArchive, CheckFile, PackFile, tableVars
<1>2. zip \in ArchiveRow /\ csv \in ExportRow /\ CsvInv /\ HistoryTypeOK
      /\ (zip.at = "done" => zip.packed = zip.included)
  BY DEF HistoryInv
<1>3. CsvInv'
  <2>1. \A c : Place(c)' = Place(c) BY <1>1 DEF Place
  <2>2. Kept' = Kept BY <1>1 DEF Kept
  <2> QED BY <1>1, <1>2, <2>1, <2>2 DEF CsvInv, ReadRowsArePassed, UntouchedRowsAreRead
<1>4. /\ zip' \in ArchiveRow /\ zip'.packed \subseteq zip'.included
      /\ (zip'.at = "done" => zip'.packed = zip'.included)
  <2>1. recorded \subseteq CallIds /\ zip.packed \subseteq zip.included
    BY <1>2 DEF HistoryTypeOK
  <2>2. CASE OpenArchive BY <1>2, <2>1, <2>2 DEF OpenArchive, ArchiveRow
  <2>3. CASE WriteManifest BY <1>2, <2>1, <2>3 DEF WriteManifest, ArchiveRow
  <2>4. CASE FinishArchive BY <1>2, <2>1, <2>4 DEF FinishArchive, ArchiveRow
  <2>5. ASSUME NEW c \in CallIds, CheckFile(c)
        PROVE  /\ zip' \in ArchiveRow /\ zip'.packed \subseteq zip'.included
               /\ (zip'.at = "done" => zip'.packed = zip'.included)
    BY <1>2, <2>1, <2>5 DEF CheckFile, ArchiveRow
  <2>6. ASSUME NEW c \in CallIds, PackFile(c)
        PROVE  /\ zip' \in ArchiveRow /\ zip'.packed \subseteq zip'.included
               /\ (zip'.at = "done" => zip'.packed = zip'.included)
    BY <1>2, <2>1, <2>6 DEF PackFile, ArchiveRow
  <2> QED BY <2>2, <2>3, <2>4, <2>5, <2>6
<1>5. HistoryTypeOK' BY <1>1, <1>2, <1>4 DEF HistoryTypeOK, ArchiveRow
<1> QED BY <1>1, <1>2, <1>3, <1>4, <1>5 DEF HistoryInv

(* A change of one row leaves the others where they are; a row that was    *)
(* read keeps its place or is gone for good.                               *)
LEMMA ChangeKeepsHistory ==
  ASSUME HistoryInv, NEW c \in CallIds, RowsChange(c), UNCHANGED zip,
         created' \in [CallIds -> {0} \cup Times],
         matching' \subseteq CallIds, recorded' \subseteq CallIds, files' \subseteq recorded',
         removed \subseteq removed', removed' \subseteq {d \in CallIds : created'[d] = 0},
         \A d \in CallIds \ {c} : /\ created'[d] = created[d]
                                  /\ (d \in matching') = (d \in matching),
         c \in removed \/ created[c] # 0 => c \in removed' \/ created'[c] = created[c]
  PROVE  HistoryInv'
<1>1. zip \in ArchiveRow /\ csv \in ExportRow /\ CsvInv /\ HistoryTypeOK
      /\ (zip.at = "done" => zip.packed = zip.included)
  BY DEF HistoryInv
<1>2. /\ csv'.at = csv.at /\ csv'.first = csv.first /\ csv'.cursor = csv.cursor
      /\ csv'.budget = csv.budget /\ csv'.page = csv.page /\ csv'.emitted = csv.emitted
      /\ csv'.initial = csv.initial /\ csv'.stable = csv.stable \ {c}
      /\ csv' \in ExportRow
  BY <1>1 DEF RowsChange, ExportRow
<1>3. /\ csv.emitted \in SUBSET CallIds /\ csv.page \in SUBSET CallIds
      /\ csv.stable \in SUBSET CallIds /\ csv.initial \in SUBSET CallIds
  BY <1>1 DEF ExportRow
<1>4. \A d \in CallIds : created'[d] = created[d] => Place(d)' = Place(d) BY DEF Place
<1>5. ReadRowsArePassed => ReadRowsArePassed'
  <2>1. ASSUME ReadRowsArePassed, NEW d \in csv.emitted \cup csv.page
        PROVE  d \in removed' \/ (created'[d] # 0 /\ ~Precedes(csv.cursor, Place(d)'))
    <3>1. d \in CallIds /\ (d \in removed \/ (created[d] # 0 /\ ~Precedes(csv.cursor, Place(d))))
      BY <1>3, <2>1 DEF ReadRowsArePassed
    <3> QED BY <1>4, <3>1
  <2> QED BY <1>2, <2>1 DEF ReadRowsArePassed
<1>6. UntouchedRowsAreRead => UntouchedRowsAreRead'
  <2>1. ASSUME UntouchedRowsAreRead, NEW d \in csv.stable \ {c}
        PROVE  /\ d \in Kept' /\ ~Precedes(Place(d)', csv.first)
               /\ Precedes(csv.cursor, Place(d)') => csv.at = "read" \/ Cardinality(csv.page) = PageSize
               /\ ~Precedes(csv.cursor, Place(d)') => d \in csv.emitted \cup csv.page
    <3>1. d \in CallIds \ {c} BY <1>3
    <3>2. Place(d)' = Place(d) BY <1>4, <3>1
    <3>3. d \in Kept BY <2>1 DEF UntouchedRowsAreRead
    <3>4. d \in Kept' BY <3>1, <3>3 DEF Kept
    <3> QED BY <2>1, <3>2, <3>4 DEF UntouchedRowsAreRead
  <2> QED BY <1>2, <2>1 DEF UntouchedRowsAreRead
<1>7. Cardinality(csv.stable \ csv.emitted) <= Cardinality(csv.emitted \ csv.initial)
        => Cardinality((csv.stable \ {c}) \ csv.emitted) <= Cardinality(csv.emitted \ csv.initial)
  <2>1. /\ csv.stable \ csv.emitted \in SUBSET CallIds
        /\ (csv.stable \ {c}) \ csv.emitted \in SUBSET (csv.stable \ csv.emitted)
        /\ csv.emitted \ csv.initial \in SUBSET CallIds
    BY <1>3
  <2>2. /\ Cardinality((csv.stable \ {c}) \ csv.emitted) \in Nat
        /\ Cardinality(csv.stable \ csv.emitted) \in Nat
        /\ Cardinality((csv.stable \ {c}) \ csv.emitted) <= Cardinality(csv.stable \ csv.emitted)
    BY <2>1, Counts
  <2>3. Cardinality(csv.emitted \ csv.initial) \in Nat
    BY <2>1, Counts, {} \in SUBSET (csv.emitted \ csv.initial)
  <2> QED BY <2>2, <2>3
<1>8. CsvInv' BY <1>1, <1>2, <1>5, <1>6, <1>7 DEF CsvInv
<1>9. changes' \in 0..MaxChanges
  BY <1>1, HistoryAssumption DEF RowsChange, HistoryTypeOK
<1>10. HistoryTypeOK' BY <1>1, <1>2, <1>3, <1>9 DEF HistoryTypeOK
<1> QED BY <1>1, <1>2, <1>8, <1>10 DEF HistoryInv

LEMMA HistoryStep == ASSUME HistoryInv, [HistoryNext]_historyVars PROVE HistoryInv'
<1>0. HistoryTypeOK BY DEF HistoryInv
<1>1. CASE OpenCsvExport BY <1>1, OpenKeepsHistory
<1>2. CASE YieldPage BY <1>2, YieldKeepsHistory
<1>3. CASE ReadPage BY <1>3, ReadKeepsHistory
<1>4. CASE OpenArchive \/ WriteManifest \/ FinishArchive
             \/ \E c \in CallIds : CheckFile(c) \/ PackFile(c)
  BY <1>4, ArchiveKeepsHistory
<1>5. ASSUME NEW c \in CallIds, CallStored(c) PROVE HistoryInv'
  <2>1. PICK t \in Times : created' = [created EXCEPT ![c] = t] BY <1>5 DEF CallStored
  <2>2. t # 0 BY HistoryAssumption
  <2> QED BY <1>0, <1>5, <2>1, <2>2, ChangeKeepsHistory DEF CallStored, HistoryTypeOK
<1>6. ASSUME NEW c \in CallIds, CallChanged(c) PROVE HistoryInv'
  BY <1>0, <1>6, ChangeKeepsHistory DEF CallChanged, HistoryTypeOK
<1>7. ASSUME NEW c \in CallIds, FileRemoved(c) PROVE HistoryInv'
  BY <1>0, <1>7, ChangeKeepsHistory DEF FileRemoved, HistoryTypeOK
<1>8. ASSUME NEW c \in CallIds, RowRemoved(c) PROVE HistoryInv'
  BY <1>0, <1>8, ChangeKeepsHistory DEF RowRemoved, HistoryTypeOK
<1>9. CASE UNCHANGED historyVars
  <2>1. UNCHANGED <<created, matching, recorded, files, removed, csv, zip, changes>>
    BY <1>9 DEF historyVars, tableVars
  <2>2. \A c : Place(c)' = Place(c) BY <2>1 DEF Place
  <2>3. Kept' = Kept BY <2>1 DEF Kept
  <2> QED BY <2>1, <2>2, <2>3 DEF HistoryInv, HistoryTypeOK, CsvInv, ReadRowsArePassed,
          UntouchedRowsAreRead
<1> QED BY <1>1, <1>2, <1>3, <1>4, <1>5, <1>6, <1>7, <1>8, <1>9 DEF HistoryNext

(* An export is as good as a snapshot: no row twice, no more rows than     *)
(* were counted, no untouched row missing unless a new one took its place; *)
(* and a whole archive holds what its manifest lists.                      *)
THEOREM ExportsStayTrue == HistorySpec => []ExportsAreTrue
<1>1. HistoryInv => ExportsAreTrue
  BY DEF HistoryInv, CsvInv, ExportsAreTrue, CsvIsASnapshot
<1> QED BY <1>1, HistoryBegins, HistoryStep, PTL DEF HistorySpec

-----------------------------------------------------------------------------
(* The back office: the components of MCBackOffice share no state, so a    *)
(* step of it is a step of each or leaves it alone, and what is true of    *)
(* each component is true of all.                                          *)

LEMMA PartsBegin ==
  BackOfficeInit =>
    /\ Init /\ SupervisorInit /\ FilesInit /\ LibraryInit /\ SoftphoneInit
    /\ SupervisorPhoneInit /\ CsvInit /\ AccountsInit /\ SettingsInit /\ HistoryInit
    /\ LeadsInit /\ SuppressionInit /\ AuditInit /\ TelemetryInit /\ MonitoringInit
BY DEF BackOfficeInit

LEMMA PartsStep ==
  [BackOfficeNext]_backOfficeVars =>
    /\ [Next]_storeVars /\ [SupervisorNext]_supervisorVars
    /\ [FilesNext]_filesVars /\ [LibraryNext]_libraryVars
    /\ [SoftphoneNext]_phoneVars /\ [SupervisorPhoneNext]_supervisorPhoneVars
    /\ [CsvNext]_csvVars /\ [AccountsNext]_accountsVars
    /\ [SettingsNext]_settingsVars /\ [HistoryNext]_historyVars
    /\ [LeadsNext]_leadsVars /\ [SuppressionNext]_suppressionVars
    /\ [AuditNext]_auditVars /\ [TelemetryNext]_telemetryVars
    /\ [MonitoringNext]_monitoringVars
<1>1. BackOfficeNext =>
        /\ Next \/ UNCHANGED storeVars
        /\ SupervisorNext \/ UNCHANGED supervisorVars
        /\ FilesNext \/ UNCHANGED filesVars
        /\ LibraryNext \/ UNCHANGED libraryVars
        /\ SoftphoneNext \/ UNCHANGED phoneVars
        /\ SupervisorPhoneNext \/ UNCHANGED supervisorPhoneVars
        /\ CsvNext \/ UNCHANGED csvVars
        /\ AccountsNext \/ UNCHANGED accountsVars
        /\ SettingsNext \/ UNCHANGED settingsVars
        /\ HistoryNext \/ UNCHANGED historyVars
        /\ LeadsNext \/ UNCHANGED leadsVars
        /\ SuppressionNext \/ UNCHANGED suppressionVars
        /\ AuditNext \/ UNCHANGED auditVars
        /\ TelemetryNext \/ UNCHANGED telemetryVars
        /\ MonitoringNext \/ UNCHANGED monitoringVars
  BY Zenon DEF BackOfficeNext, Stays
<1>2. UNCHANGED backOfficeVars =>
        UNCHANGED <<storeVars, supervisorVars, filesVars, libraryVars, phoneVars,
                    supervisorPhoneVars, csvVars, accountsVars, settingsVars, historyVars,
                    leadsVars, suppressionVars, auditVars, telemetryVars, monitoringVars>>
  BY DEF backOfficeVars
<1> QED BY <1>1, <1>2

\* A behaviour of the back office is one of every component.
LEMMA PartsRun ==
  BackOfficeSpec =>
    /\ Spec /\ SupervisorSpec /\ FilesSpec /\ LibrarySpec /\ SoftphoneSpec
    /\ SupervisorPhoneSpec /\ CsvSpec /\ AccountsSpec /\ SettingsSpec /\ HistorySpec
    /\ LeadsSpec /\ SuppressionSpec /\ AuditSpec /\ TelemetrySpec /\ MonitoringSpec
BY PartsBegin, PartsStep, PTL
   DEF BackOfficeSpec, Spec, SupervisorSpec, FilesSpec, LibrarySpec, SoftphoneSpec,
       SupervisorPhoneSpec, CsvSpec, AccountsSpec, SettingsSpec, HistorySpec, LeadsSpec,
       SuppressionSpec, AuditSpec, TelemetrySpec, MonitoringSpec

\* What is written down about the system is true: what an administrator did
\* is on record whatever fails afterwards (admin-audit.ts), the row of a call
\* keeps its longest media summary (dashboard/browser-media.ts), and the
\* gauges of a scrape belong to one refresh (metrics.ts).
THEOREM RecordsStayTrue == BackOfficeSpec => []RecordsAreTrue
<1> DEFINE Inv == AuditInv /\ TelemetryInv /\ MonitoringInv
<1>1. BackOfficeInit => Inv
  BY PartsBegin, AuditBegins, TelemetryBegins, MonitoringBegins
<1>2. Inv /\ [BackOfficeNext]_backOfficeVars => Inv'
  BY PartsStep, AuditStep, TelemetryStep, MonitoringStep
<1>3. Inv => RecordsAreTrue
  BY AuditIsTrue, MonitoringIsTrue DEF TelemetryInv, RecordsAreTrue
<1> QED
  BY <1>1, <1>2, <1>3, PTL DEF BackOfficeSpec

\* The phones in the browser: wherever an abandoned run of the effect was,
\* once its stops have returned nothing of it is left (softphone.ts), and the
\* leg that the supervisor's page shows as heard is heard, in the mode and
\* session shown (supervisor-softphone.ts).
THEOREM BrowserPhonesStaySound == BackOfficeSpec => []BrowserPhonesAreSound
<1> DEFINE Inv == SoftphoneInv /\ SupervisorPhoneInv
<1>1. BackOfficeInit => Inv
  BY PartsBegin, SoftphoneBegins, SupervisorPhoneBegins
<1>2. Inv /\ [BackOfficeNext]_backOfficeVars => Inv'
  BY PartsStep, SoftphoneStep, SupervisorPhoneStep
<1>3. Inv => BrowserPhonesAreSound
  BY SoftphoneIsStopped, ShownLegIsHeard DEF BrowserPhonesAreSound
<1> QED
  BY <1>1, <1>2, <1>3, PTL DEF BackOfficeSpec

\* Files on disk and the rows that name them agree: no recording or capture
\* is deleted early or forgotten (dashboard/retention.ts), and while there is
\* a voicemail to choose there is one default, on disk
\* (dashboard/recordings.ts).
THEOREM FilesAndRowsStayInStep == BackOfficeSpec => FilesAndRowsAgree
<1> DEFINE Inv == FilesInv /\ LeftInv /\ LibraryInv
<1>1. BackOfficeInit => Inv
  BY PartsBegin, FilesBegin, LeftBegins, LibraryBegins
<1>2. Inv /\ [BackOfficeNext]_backOfficeVars => Inv'
  BY PartsStep, FilesStep, LeftStep, LibraryStep
<1>3. Inv => NothingIsLeftBehind /\ LibraryIsUsable
  BY LeftIsFound, LibraryIsSound
<1>4. Inv /\ [BackOfficeNext]_backOfficeVars => [YoungFileKept]_filesVars
  BY PartsStep, YoungFilesAreKept
<1> QED
  BY <1>1, <1>2, <1>3, <1>4, PTL
     DEF BackOfficeSpec, FilesAndRowsAgree, YoungFilesStay, YoungFileKept

\* Every component is well typed, whichever runs: what each of their inductive
\* invariants says first.
THEOREM BackOfficeTypeCorrect == BackOfficeSpec => []BackOfficeTypeOK
<1>1. SupervisorSpec => []SupervisorTypeOK
  <2>1. SupervisorInit => SupervisorInv
    BY SupervisorBaseBegins, ChannelsBegin DEF SupervisorInv
  <2>2. SupervisorInv => SupervisorTypeOK BY DEF SupervisorInv, SupervisorBase
  <2> QED BY <2>1, <2>2, SupervisorStep, PTL DEF SupervisorSpec
<1>2. FilesSpec => [](RecordingTypeOK /\ PcapTypeOK)
  <2>1. FilesInv => RecordingTypeOK /\ PcapTypeOK BY DEF FilesInv, PcapInv
  <2> QED BY <2>1, FilesBegin, FilesStep, PTL DEF FilesSpec
<1>3. LibrarySpec => []LibraryTypeOK
  <2>1. LibraryInv => LibraryTypeOK BY DEF LibraryInv
  <2> QED BY <2>1, LibraryBegins, LibraryStep, PTL DEF LibrarySpec
<1>4. SoftphoneSpec => []SoftphoneTypeOK
  <2>1. SoftphoneInv => SoftphoneTypeOK BY DEF SoftphoneInv
  <2> QED BY <2>1, SoftphoneBegins, SoftphoneStep, PTL DEF SoftphoneSpec
<1>5. SupervisorPhoneSpec => []SupervisorPhoneTypeOK
  <2>1. SupervisorPhoneInv => SupervisorPhoneTypeOK BY DEF SupervisorPhoneInv
  <2> QED BY <2>1, SupervisorPhoneBegins, SupervisorPhoneStep, PTL DEF SupervisorPhoneSpec
<1>6. SettingsSpec => []SettingsTypeOK
  <2>1. SettingsInv => SettingsTypeOK BY DEF SettingsInv
  <2> QED BY <2>1, SettingsBegin, SettingsStep, PTL DEF SettingsSpec
<1>7. HistorySpec => []HistoryTypeOK
  <2>1. HistoryInv => HistoryTypeOK BY DEF HistoryInv
  <2>2. HistoryInv /\ [HistoryNext]_historyVars => HistoryInv' BY HistoryStep
  <2> QED BY <2>1, <2>2, HistoryBegins, PTL DEF HistorySpec
<1>8. SuppressionSpec => []SuppressionTypeOK
  <2>1. SInv => SuppressionTypeOK BY DEF SInv
  <2> QED BY <2>1, SuppressionInitHolds, SuppressionStep, PTL DEF SuppressionSpec
<1>9. AuditSpec => []AuditTypeOK
  <2>1. AuditInv => AuditTypeOK BY DEF AuditInv
  <2> QED BY <2>1, AuditBegins, AuditStep, PTL DEF AuditSpec
<1>10. TelemetrySpec => []TelemetryTypeOK
  <2>1. TelemetryInv => TelemetryTypeOK BY DEF TelemetryInv
  <2> QED BY <2>1, TelemetryBegins, TelemetryStep, PTL DEF TelemetrySpec
<1>11. MonitoringSpec => []MonitoringTypeOK
  <2>1. MonitoringInv => MonitoringTypeOK BY DEF MonitoringInv
  <2> QED BY <2>1, MonitoringBegins, MonitoringStep, PTL DEF MonitoringSpec
<1>12. BackOfficeSpec =>
         /\ []TypeOK /\ []SupervisorTypeOK /\ []RecordingTypeOK /\ []PcapTypeOK
         /\ []LibraryTypeOK /\ []SoftphoneTypeOK /\ []SupervisorPhoneTypeOK /\ []CsvTypeOK
         /\ []AccountsTypeOK /\ []SettingsTypeOK /\ []HistoryTypeOK /\ []LeadsTypeOK
         /\ []SuppressionTypeOK /\ []AuditTypeOK /\ []TelemetryTypeOK /\ []MonitoringTypeOK
  BY <1>1, <1>2, <1>3, <1>4, <1>5, <1>6, <1>7, <1>8, <1>9, <1>10, <1>11, PartsRun,
     TypeCorrect, ImportTypesCorrect, AccountsTypeCorrect, LeadTypesCorrect, PTL
<1>13. /\ TypeOK /\ SupervisorTypeOK /\ RecordingTypeOK /\ PcapTypeOK
       /\ LibraryTypeOK /\ SoftphoneTypeOK /\ SupervisorPhoneTypeOK /\ CsvTypeOK
       /\ AccountsTypeOK /\ SettingsTypeOK /\ HistoryTypeOK /\ LeadsTypeOK
       /\ SuppressionTypeOK /\ AuditTypeOK /\ TelemetryTypeOK /\ MonitoringTypeOK
       => BackOfficeTypeOK
  BY DEF BackOfficeTypeOK
<1> QED BY <1>12, <1>13, PTL

\* The safety of every component holds in the specification that is
\* model-checked: what their theorems say carries over to the back office.
THEOREM BackOfficeStaysSafe ==
  BackOfficeSpec =>
    /\ []OutcomeIsEarned /\ FirstOutcomeWins /\ LeadFollowsOutcome /\ ImplementsLedger
    /\ []OneMediaRole /\ []NoHiddenChannel /\ []OneCaptureOperation
    /\ []ImportsAreExact /\ []RevokedSessionStaysOut /\ []SettingsHold /\ []LeadsAreSafe
    /\ []ExportsAreTrue /\ []ListedNumbersAreNotDialed
BY PartsRun, OutcomesAreEarned, FirstOutcomeIsKept, LeadsFollowOutcomes, RowsImplementLedger,
   OneMediaRoleHolds, NoChannelIsHidden, OneCaptureAtATime, ImportsStayExact,
   RevokedSessionsStayOut, SettingsStayInForce, LeadsStaySafe, ExportsStayTrue,
   ListedNumbersStayUndialed, PTL
==============================================================================
