---------------------------- MODULE AdminAudit ----------------------------
(***************************************************************************)
(* The audit of what administrators do: a row with status 102 before the   *)
(* handler of a mutating /admin request runs, and its outcome when the     *)
(* answer is sent (admin-audit.ts); details some handlers append to it,    *)
(* and the row of an export, which is a GET (dashboard/routes.ts).  The    *)
(* role is read by the hook and again by the handler, and nothing here is  *)
(* in the transaction of the change itself.                                *)
(***************************************************************************)
EXTENDS Naturals, FiniteSets

CONSTANTS AuditRequests,
          MaxAuditFaults  \* bound on failed statements, crashes and changes of role

ASSUME AuditAssumption == MaxAuditFaults \in Nat

VARIABLES role,      \* users.role of the one who sends the requests
          auditRow,  \* the request's row of admin_audit_events: its status code
          served,    \* where each request is
          acted,     \* requests whose change is committed or whose export began
          auditFaults
auditVars == <<role, auditRow, served, acted, auditFaults>>

NoRow == 0
Processing == 102
Succeeded == 200
Forbidden == 403
Broken == 500

\* A request that has not come; "faithful": the role did not change since.
NotReceived == [at |-> "new", code |-> Succeeded, kind |-> "mutation", faithful |-> TRUE]

AuditInit ==
  /\ role = "admin"
  /\ auditRow = [r \in AuditRequests |-> NoRow]
  /\ served = [r \in AuditRequests |-> NotReceived]
  /\ acted = {}
  /\ auditFaults = 0

Fault == auditFaults < MaxAuditFaults /\ auditFaults' = auditFaults + 1

-----------------------------------------------------------------------------
(* A request.                                                              *)

Receive(r, kind) ==
  /\ served[r].at = "new"
  /\ served' = [served EXCEPT ![r] = [NotReceived EXCEPT !.kind = kind,
                  !.at = IF kind = "mutation" THEN "received" ELSE "audited"]]
  /\ UNCHANGED <<role, auditRow, acted, auditFaults>>

\* The preHandler hook.
InsertRow(r) ==
  /\ served[r].at = "received"
  /\ auditRow' = [auditRow EXCEPT ![r] = IF role = "admin" THEN Processing ELSE @]
  /\ served' = [served EXCEPT ![r].at = "audited"]
  /\ UNCHANGED <<role, acted, auditFaults>>

\* The insert fails, and so does the request.
InsertFails(r) ==
  /\ served[r].at = "received" /\ role = "admin" /\ Fault
  /\ served' = [served EXCEPT ![r].at = "send", ![r].code = Broken]
  /\ UNCHANGED <<role, auditRow, acted>>

RequireAdmin(r) ==
  /\ served[r].at = "audited"
  /\ served' = IF role = "admin" THEN [served EXCEPT ![r].at = "handle"]
               ELSE [served EXCEPT ![r].at = "send", ![r].code = Forbidden]
  /\ UNCHANGED <<role, auditRow, acted, auditFaults>>

\* The handler commits its change, or an error leaves nothing behind.
Handle(r) ==
  /\ served[r].at = "handle" /\ served[r].kind = "mutation"
  /\ \/ acted' = acted \cup {r} /\ served' = [served EXCEPT ![r].at = "describe"]
     \/ acted' = acted /\ served' = [served EXCEPT ![r].at = "send", ![r].code = Broken]
  /\ UNCHANGED <<role, auditRow, auditFaults>>

\* Settings, supervisor sessions and others append what they did.
AppendMetadata(r) ==
  /\ served[r].at = "describe"
  /\ served' = [served EXCEPT ![r].at = "send"]
  /\ UNCHANGED <<role, auditRow, acted, auditFaults>>

AppendFails(r) ==
  /\ served[r].at = "describe" /\ Fault
  /\ served' = [served EXCEPT ![r].at = "send", ![r].code = Broken]
  /\ UNCHANGED <<role, auditRow, acted>>

\* recordCampaignRecordingExportAudit, before the archive is sent.
RecordExport(r) ==
  /\ served[r].at = "handle" /\ served[r].kind = "export"
  /\ auditRow' = [auditRow EXCEPT ![r] = Succeeded]
  /\ served' = [served EXCEPT ![r].at = "stream"]
  /\ UNCHANGED <<role, acted, auditFaults>>

RecordExportFails(r) ==
  /\ served[r].at = "handle" /\ served[r].kind = "export" /\ Fault
  /\ served' = [served EXCEPT ![r].at = "send", ![r].code = Broken]
  /\ UNCHANGED <<role, auditRow, acted>>

StreamExport(r) ==
  /\ served[r].at = "stream"
  /\ acted' = acted \cup {r}
  /\ served' = [served EXCEPT ![r].at = "send"]
  /\ UNCHANGED <<role, auditRow, auditFaults>>

\* The onSend hook.
Send(r) ==
  /\ served[r].at = "send"
  /\ auditRow' = [auditRow EXCEPT ![r] = IF served[r].kind = "export" \/ @ = NoRow THEN @
                               ELSE served[r].code]
  /\ served' = [served EXCEPT ![r].at = "sent"]
  /\ UNCHANGED <<role, acted, auditFaults>>

\* The update fails: the error is the answer, and the row is not tried again.
SendFails(r) ==
  /\ served[r].at = "send" /\ auditRow[r] = Processing /\ Fault
  /\ served' = [served EXCEPT ![r].at = "sent", ![r].code = Broken]
  /\ UNCHANGED <<role, auditRow, acted>>

-----------------------------------------------------------------------------
(* The rest of the system.                                                 *)

\* updateUser changes the role without ending the user's sessions.
ChangeRole ==
  /\ Fault
  /\ role' = IF role = "admin" THEN "agent" ELSE "admin"
  /\ served' = [r \in AuditRequests |-> IF served[r].at = "new" THEN served[r]
                                        ELSE [served[r] EXCEPT !.faithful = FALSE]]
  /\ UNCHANGED <<auditRow, acted>>

\* The process dies with the requests in it.
ApiDies ==
  /\ Fault
  /\ served' = [r \in AuditRequests |-> IF served[r].at \in {"new", "sent"} THEN served[r]
                                        ELSE [served[r] EXCEPT !.at = "lost"]]
  /\ UNCHANGED <<role, auditRow, acted>>

AuditNext ==
  \/ \E r \in AuditRequests :
       \/ \E kind \in {"mutation", "export"} : Receive(r, kind)
       \/ InsertRow(r) \/ InsertFails(r) \/ RequireAdmin(r) \/ Handle(r)
       \/ AppendMetadata(r) \/ AppendFails(r)
       \/ RecordExport(r) \/ RecordExportFails(r) \/ StreamExport(r)
       \/ Send(r) \/ SendFails(r)
  \/ ChangeRole \/ ApiDies

AuditSpec == AuditInit /\ [][AuditNext]_auditVars

-----------------------------------------------------------------------------
(* Properties.                                                             *)

AuditTypeOK ==
  /\ role \in {"admin", "agent"}
  /\ auditRow \in [AuditRequests -> {NoRow, Processing, Succeeded, Forbidden, Broken}]
  /\ acted \subseteq AuditRequests
  /\ auditFaults \in 0..MaxAuditFaults

\* What was done is in the audit before anybody can see that it was done,
\* and stays there whatever fails or crashes afterwards, unless the role was
\* changed while the request was handled; a row that tells of a refusal or
\* of an answer that was sent never belongs to a change that the row denies.
AuditPrecedesAction ==
  \A r \in AuditRequests :
    /\ r \in acted /\ served[r].faithful => auditRow[r] # NoRow
    /\ auditRow[r] = Forbidden => r \notin acted
    /\ auditRow[r] = Succeeded /\ served[r].at = "sent" => r \in acted
=============================================================================
