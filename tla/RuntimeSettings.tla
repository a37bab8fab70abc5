-------------------------- MODULE RuntimeSettings --------------------------
(***************************************************************************)
(* The settings an administrator changes while the system runs             *)
(* (runtime-settings.ts): a row of system_settings, the configuration in   *)
(* the memory of the process, the file that Alertmanager reads, and what   *)
(* Alertmanager has read of it.                                            *)
(*                                                                         *)
(* Updates run one after the other; the reload of Alertmanager runs beside *)
(* them, with an HTTP request that takes its time.                         *)
(***************************************************************************)
EXTENDS Naturals, Sequences

CONSTANTS Settings,       \* values that can be set
          Refused,        \* those that enable a channel without credentials
          Environment,        \* the settings of the environment
          MaxAttempts,    \* attempts to reload, 10 in the code
          MaxSaves,       \* bound on updates
          MaxSlips        \* bound on failures

ASSUME SettingsAssumption ==
  /\ Environment \in Settings /\ Refused \subseteq Settings \ {Environment}
  /\ MaxAttempts \in Nat \ {0} /\ MaxSaves \in Nat /\ MaxSlips \in Nat

VARIABLES memory,     \* the configuration of the process
          row,        \* system_settings
          config,       \* Alertmanager's configuration file
          alerting,   \* the configuration Alertmanager runs with
          status,     \* alertmanagerApplyStatus
          reload,     \* the newest reload: attempts made, request under way
          updateQueue,      \* updateQueue: values whose update has not begun
          saving,     \* the update that runs
          undone,     \* a published file was taken back since a reload began
          loose,       \* what the last failure left behind: an unknown commit,
                      \* a file that could not be taken back
          saves, slips

settingsVars == <<memory, row, config, alerting, status, reload, updateQueue, saving,
                  undone, loose, saves, slips>>

NoSave == [at |-> "idle", value |-> Environment]
NoReload == [attempt |-> MaxAttempts, sent |-> FALSE, ok |-> FALSE]
FirstAttempt == [attempt |-> 0, sent |-> FALSE, ok |-> FALSE]
Saving(step) == saving.at = step
Slip == slips < MaxSlips /\ slips' = slips + 1

\* scheduleAlertmanagerReload; the reload before it is aborted.
SchedulesReload ==
  /\ reload' = FirstAttempt
  /\ status' = "pending"
  /\ undone' = FALSE

\* initialize has read the row, if any, and has written the file.
SettingsInit ==
  /\ row \in Settings \ Refused
  /\ memory = row /\ config = row /\ alerting = Environment
  /\ status = "pending" /\ reload = FirstAttempt
  /\ updateQueue = << >> /\ saving = NoSave
  /\ undone = FALSE /\ loose = {}
  /\ saves = 0 /\ slips = 0

-----------------------------------------------------------------------------
(* update and performUpdate.                                               *)

AskToSave ==
  /\ saves < MaxSaves
  /\ saves' = saves + 1
  /\ \E value \in Settings : updateQueue' = Append(updateQueue, value)
  /\ UNCHANGED <<memory, row, config, alerting, status, reload, saving, undone,
                 loose, slips>>

\* The schema and the channels are checked, then the new file is staged.
BeginSave ==
  /\ Saving("idle") /\ updateQueue # << >>
  /\ updateQueue' = Tail(updateQueue)
  /\ \/ /\ Head(updateQueue) \notin Refused
        /\ saving' = [at |-> "staged", value |-> Head(updateQueue)]
        /\ UNCHANGED slips
     \/ Head(updateQueue) \in Refused /\ UNCHANGED <<saving, slips>>
     \/ Slip /\ UNCHANGED saving
  /\ UNCHANGED <<memory, row, config, alerting, status, reload, undone, loose, saves>>

\* A connection, begin and the upsert, which nobody sees yet.
WriteRow ==
  /\ Saving("staged")
  /\ \/ saving' = [saving EXCEPT !.at = "written"] /\ UNCHANGED slips
     \/ Slip /\ saving' = NoSave
  /\ UNCHANGED <<memory, row, config, alerting, status, reload, updateQueue, undone,
                 loose, saves>>

\* rename of the staged file; the error is the same before and after it.
Publish ==
  /\ Saving("written")
  /\ \/ /\ config' = saving.value
        /\ saving' = [saving EXCEPT !.at = "published"]
        /\ UNCHANGED slips
     \/ /\ Slip
        /\ config' \in {config, saving.value}
        /\ saving' = [saving EXCEPT !.at = "undo"]
  /\ UNCHANGED <<memory, row, alerting, status, reload, updateQueue, undone,
                 loose, saves>>

\* commit, and everything up to the answer.
Commit ==
  /\ Saving("published")
  /\ row' = saving.value /\ memory' = saving.value
  /\ SchedulesReload
  /\ loose' = {}
  /\ saving' = NoSave
  /\ UNCHANGED <<config, alerting, updateQueue, saves, slips>>

\* The commit fails, or its answer is lost.
CommitFails ==
  /\ Saving("published")
  /\ Slip
  /\ \/ UNCHANGED <<row, loose>>
     \/ row' = saving.value /\ loose' = loose \cup {"commit"}
  /\ saving' = [saving EXCEPT !.at = "undo"]
  /\ UNCHANGED <<memory, config, alerting, status, reload, updateQueue, undone, saves>>

\* Faulty: rollback alone, the file stays published.
UndoRowOnly ==
  /\ Saving("undo")
  /\ undone' = TRUE
  /\ saving' = NoSave
  /\ UNCHANGED <<memory, row, config, alerting, status, reload, updateQueue, loose,
                 saves, slips>>

\* rollback and writeAlertmanagerConfig with the configuration in memory.
\* Nothing makes Alertmanager read the file again.
Undo ==
  /\ Saving("undo")
  /\ \/ config' = memory /\ loose' = loose \ {"config"} /\ UNCHANGED slips
     \/ Slip /\ loose' = loose \cup {"config"} /\ UNCHANGED config
  /\ undone' = TRUE
  /\ saving' = NoSave
  /\ UNCHANGED <<memory, row, alerting, status, reload, updateQueue, saves>>

-----------------------------------------------------------------------------
(* reloadAlertmanagerEventually.                                           *)

SendReload ==
  /\ status = "pending" /\ ~reload.sent /\ reload.attempt < MaxAttempts
  /\ reload' = [reload EXCEPT !.sent = TRUE, !.ok = FALSE]
  /\ UNCHANGED <<memory, row, config, alerting, status, updateQueue, saving, undone,
                 loose, saves, slips>>

\* Alertmanager reads the file that is there when it gets the request; a
\* request that was aborted may still arrive.
AlertmanagerReads ==
  /\ alerting' = config
  /\ reload' = [reload EXCEPT !.ok = reload.sent]
  /\ UNCHANGED <<memory, row, config, status, updateQueue, saving, undone, loose,
                 saves, slips>>

ReloadAnswered ==
  /\ reload.sent
  /\ \/ /\ reload.ok
        /\ status' = "applied" /\ reload' = NoReload
        /\ UNCHANGED slips
     \/ /\ Slip
        /\ reload' = [attempt |-> reload.attempt + 1, sent |-> FALSE, ok |-> FALSE]
        /\ status' = IF reload'.attempt = MaxAttempts THEN "failed" ELSE status
  /\ UNCHANGED <<memory, row, config, alerting, updateQueue, saving, undone, loose, saves>>

\* The process dies and starts anew: initialize.
ProcessRestarts ==
  /\ Slip
  /\ memory' = row /\ config' = row
  /\ SchedulesReload
  /\ updateQueue' = << >> /\ saving' = NoSave /\ loose' = {}
  /\ UNCHANGED <<row, alerting, saves>>

SettingsNext ==
  \/ AskToSave \/ BeginSave \/ WriteRow \/ Publish \/ Commit \/ CommitFails \/ Undo
  \/ SendReload \/ AlertmanagerReads \/ ReloadAnswered \/ ProcessRestarts

SettingsSpec == SettingsInit /\ [][SettingsNext]_settingsVars

-----------------------------------------------------------------------------
(* Properties.                                                             *)

\* Types of the variables.
SettingsTypeOK ==
  /\ {memory, row, config, alerting} \subseteq Settings
  /\ status \in {"pending", "applied", "failed"}
  /\ reload \in [attempt : 0 .. MaxAttempts, sent : BOOLEAN, ok : BOOLEAN]
  /\ updateQueue \in Seq(Settings)
  /\ saving \in [at : {"idle", "staged", "written", "published", "undo"},
                 value : Settings]
  /\ undone \in BOOLEAN /\ loose \subseteq {"commit", "config"}
  /\ saves \in 0 .. MaxSaves /\ slips \in 0 .. MaxSlips

\* Between updates, however they ended and whenever the process died, what
\* is stored, what the process works with and what Alertmanager will read
\* are the same settings.  The exceptions: a commit that took effect although
\* it was answered by an error, and a file that could not be taken back;
\* the next update or start repairs both.
SettingsAgree ==
  Saving("idle") => /\ config = memory \/ "config" \in loose
                    /\ row = memory \/ "commit" \in loose

\* "applied" is true: Alertmanager runs with the settings in force.  Not so
\* when a file was published and taken back while a reload was under way.
AppliedIsInForce ==
  status = "applied" /\ Saving("idle") => alerting = memory \/ undone

SettingsHold == SettingsAgree /\ AppliedIsInForce
=============================================================================
