------------------------- MODULE RecordingFinalizer -------------------------
(***************************************************************************)
(* The recording of one call that has recording enabled: its start from an *)
(* event (startCallRecording in esl-events.ts) and its inspection after    *)
(* the call (call-recording-finalizer.ts), by the runs of several API      *)
(* processes, of which an old one may come back late.                      *)
(***************************************************************************)
EXTENDS EndedCall

CONSTANTS Runs,        \* runs of the finalizer that may overlap
          MaxClaims    \* bound on claims

ASSUME RecordingAssumption == MaxClaims \in Nat /\ IsFiniteSet(Runs)

VARIABLES recording,   \* the call_recording_* columns of the call
          file,        \* the recording on disk
          starter,     \* startCallRecording between its statements
          run          \* per run: where it is, its claim, what it has found

recordingVars == <<recording, file, starter, run>>

Undecided == {"pending", "recording", "finalizing"}
Resting == [at |-> "idle", token |-> 0, good |-> FALSE]

RecordingInit ==
  /\ recording = [status |-> "pending", path |-> FALSE, token |-> 0,
                  stale |-> FALSE]
  /\ file = "none"
  /\ starter = "idle"
  /\ run = [r \in Runs |-> Resting]

-----------------------------------------------------------------------------
(* startCallRecording.  Events are handled one at a time.                  *)

\* The path is claimed: once per call unless a start has failed.
ClaimPath ==
  /\ starter = "idle"
  /\ life = "open" /\ ~recording.path
  /\ recording' = [recording EXCEPT !.status = "recording", !.path = TRUE]
  /\ starter' = "command"
  /\ UNCHANGED <<callVars, file, run>>

\* uuid_record succeeds.
RecordingStarts ==
  /\ starter = "command"
  /\ file' = "growing"
  /\ starter' = "idle"
  /\ UNCHANGED <<callVars, recording, run>>

\* uuid_record is refused (the channel is gone), or is not answered, or the
\* statement after it fails; in the last two cases it may be recording.
RecordingStartFails ==
  /\ starter = "command"
  /\ \/ UNCHANGED <<file, mishaps>>
     \/ Mishap /\ file' = "growing"
  /\ starter' = "undo"
  /\ UNCHANGED <<life, over, recording, run>>

\* The path is given back, whatever the status has become.
UndoPath ==
  /\ starter = "undo"
  /\ recording' = IF recording.path
                  THEN [recording EXCEPT !.status = "failed", !.path = FALSE]
                  ELSE recording
  /\ starter' = "idle"
  /\ UNCHANGED <<callVars, file, run>>

\* The process dies before it has stored the outcome of the command.
StarterDies ==
  /\ starter # "idle"
  /\ Mishap
  /\ \/ UNCHANGED file
     \/ starter = "command" /\ file' = "growing"
  /\ starter' = "idle"
  /\ UNCHANGED <<life, over, recording, run>>

\* FreeSWITCH closes the file with the channel.
RecordingStops ==
  /\ file = "growing"
  /\ file' \in {"whole", "broken"}
  /\ UNCHANGED <<callVars, recording, starter, run>>

-----------------------------------------------------------------------------
(* runCallRecordingFinalization.                                           *)

\* markTerminalRecordingsWithoutPath.
MarkWithoutPath(r) ==
  /\ run[r].at = "idle"
  /\ CallIsOver /\ "grace" \in over
  /\ recording.status = "pending" /\ ~recording.path
  /\ recording' = [recording EXCEPT !.status = "failed"]
  /\ UNCHANGED <<callVars, file, starter, run>>

\* Faulty: a claim is not taken over.
ClaimableOnce ==
  /\ CallIsOver /\ recording.path
  /\ recording.status \in {"pending", "recording"} /\ "grace" \in over

Claimable ==
  /\ CallIsOver /\ recording.path
  /\ \/ recording.status \in {"pending", "recording"} /\ "grace" \in over
     \/ recording.status = "finalizing" /\ recording.stale

\* claimTerminalRecordings: the time of the claim is its token.
Claim(r) ==
  /\ run[r].at = "idle"
  /\ Claimable
  /\ recording.token < MaxClaims
  /\ recording' = [recording EXCEPT !.status = "finalizing", !.token = @ + 1,
                                    !.stale = FALSE]
  /\ run' = [run EXCEPT ![r] = [at |-> "inspect", token |-> recording.token + 1,
                                good |-> FALSE]]
  /\ UNCHANGED <<callVars, file, starter>>

\* inspectCallRecording: a file still being written may pass or not.
Inspect(r) ==
  /\ run[r].at = "inspect"
  /\ \E good \in BOOLEAN :
       /\ good => file \in {"whole", "growing"}
       /\ ~good => file # "whole"
       /\ run' = [run EXCEPT ![r].at = "mark", ![r].good = good]
  /\ UNCHANGED <<callVars, recording, file, starter>>

HoldsClaim(r) ==
  recording.status = "finalizing" /\ recording.token = run[r].token

\* markRecordingAvailable and markRecordingFailed write for the claim they
\* were made under, or not at all.
Mark(r) ==
  /\ run[r].at = "mark"
  /\ recording' = IF HoldsClaim(r)
                  THEN [recording EXCEPT !.status =
                          IF run[r].good THEN "available" ELSE "failed"]
                  ELSE recording
  /\ run' = [run EXCEPT ![r] = Resting]
  /\ UNCHANGED <<callVars, file, starter>>

\* The statement fails: after markRecordingAvailable the failure is recorded
\* instead, after markRecordingFailed the run is over.
MarkThrows(r) ==
  /\ run[r].at = "mark"
  /\ Mishap
  /\ run' = [run EXCEPT ![r] = IF run[r].good
                               THEN [run[r] EXCEPT !.good = FALSE]
                               ELSE Resting]
  /\ UNCHANGED <<life, over, recording, file, starter>>

\* Five minutes after the claim.
ClaimGoesStale ==
  /\ recording.status = "finalizing" /\ ~recording.stale
  /\ recording' = [recording EXCEPT !.stale = TRUE]
  /\ UNCHANGED <<callVars, file, starter, run>>

\* The process of one run dies.
RunDies(r) ==
  /\ run[r].at # "idle"
  /\ Mishap
  /\ run' = [run EXCEPT ![r] = Resting]
  /\ UNCHANGED <<life, over, recording, file, starter>>

RunStep(r) ==
  MarkWithoutPath(r) \/ Claim(r) \/ Inspect(r) \/ Mark(r)

RecordingNext ==
  \/ ClaimPath \/ RecordingStarts \/ RecordingStartFails \/ UndoPath
  \/ StarterDies \/ RecordingStops \/ ClaimGoesStale
  \/ \E r \in Runs : RunStep(r) \/ MarkThrows(r) \/ RunDies(r)

\* Timers run the finalizer, claims grow old, commands return.
RecordingFairness ==
  /\ WF_recordingVars(RecordingStarts \/ RecordingStartFails)
  /\ WF_recordingVars(UndoPath)
  /\ WF_recordingVars(ClaimGoesStale)
  /\ \A r \in Runs : WF_recordingVars(RunStep(r))

-----------------------------------------------------------------------------
(* Properties.                                                             *)

\* Types of the variables.
RecordingTypeOK ==
  /\ recording \in [status : Undecided \cup {"available", "failed", "expired"},
                    path : BOOLEAN, token : 0 .. MaxClaims, stale : BOOLEAN]
  /\ file \in {"none", "growing", "whole", "broken"}
  /\ starter \in {"idle", "command", "undo"}
  /\ run \in [Runs -> [at : {"idle", "inspect", "mark"}, token : 0 .. MaxClaims,
                       good : BOOLEAN]]

\* The verdict on a recording stands.  A run whose claim was taken over, that
\* comes back after another has judged the recording, changes nothing; only
\* retention may let it expire, and only a failing start of the recording
\* (whose undoing looks at the path alone) may fail it.
VerdictStands ==
  [][recording.status \in {"available", "failed"} /\ starter = "idle" /\ life = "ended"
       => recording'.status \in {recording.status, "expired"}]_recordingVars

\* Every recording of an ended call is judged, through claims that were
\* abandoned by a process that died and results that came too late.
EveryRecordingIsJudged ==
  CallIsOver /\ recording.status \in Undecided
    ~> \/ recording.status \notin Undecided
       \/ recording.token = MaxClaims /\ \A r \in Runs : run[r].token # MaxClaims
=============================================================================
