----------------------------- MODULE Retention -----------------------------
(***************************************************************************)
(* What becomes of a call's files: the recording, the packet capture and   *)
(* the retention run that deletes both and finally the call                *)
(* (dashboard/retention.ts), which only an advisory lock                   *)
(* (dashboard/retention-scheduler.ts) keeps from running twice.            *)
(***************************************************************************)
EXTENDS RecordingFinalizer, PcapCapture

CONSTANTS Sweeps,     \* retention runs: schedulers and the administrator's
          NoSweep

ASSUME RetentionAssumption == NoSweep \notin Sweeps

VARIABLES sweep,      \* per run: where it is, what it listed and unlinked
          sweepLock   \* who holds the advisory lock

retentionVars == <<sweep, sweepLock>>
filesVars == <<callVars, recordingVars, pcapVars, retentionVars>>

Still == [at |-> "idle", files |-> {}, unlinked |-> {}]

FilesInit ==
  /\ EndedCallInit /\ RecordingInit /\ PcapInit
  /\ sweep = [w \in Sweeps |-> Still]
  /\ sweepLock = NoSweep

\* runRetentionWithAdvisoryLock: a run that does not get the lock is over.
SweepBegins(w) ==
  /\ sweep[w].at = "idle" /\ sweepLock = NoSweep
  /\ over \cap Periods # {}
  /\ sweepLock' = w
  /\ sweep' = [sweep EXCEPT ![w] = [Still EXCEPT !.at = "list"]]
  /\ UNCHANGED <<callVars, recordingVars, pcapVars>>

\* The files of terminal calls that have a path and are past their period.
Listed == {f \in {"recording", "pcap"} :
             /\ CallIsOver /\ f \in over
             /\ IF f = "recording" THEN recording.path ELSE pcap.path}

ListFiles(w) ==
  /\ sweep[w].at = "list"
  /\ sweep' = [sweep EXCEPT ![w] = [at |-> "unlink", files |-> Listed,
                                    unlinked |-> {}]]
  /\ UNCHANGED <<callVars, recordingVars, pcapVars, sweepLock>>

\* A file that is missing counts as unlinked; one that cannot be unlinked
\* keeps its metadata.
Unlink(w) ==
  /\ sweep[w].at = "unlink" /\ sweep[w].files # {}
  /\ \E f \in sweep[w].files :
       /\ \E gone \in BOOLEAN :
            /\ sweep' = [sweep EXCEPT ![w].files = @ \ {f},
                           ![w].unlinked = IF gone THEN @ \cup {f} ELSE @]
            /\ file' = IF gone /\ f = "recording" THEN "none" ELSE file
            /\ final' = IF gone /\ f = "pcap" THEN FALSE ELSE final
  /\ UNCHANGED <<callVars, recording, starter, run, pcap, client, request,
                 inFlight, tcpdump, raw, startAsked, stray, sweepLock>>

RecordingCleared(w) ==
  IF "recording" \in sweep[w].unlinked /\ recording.path /\ CallIsOver
  THEN [recording EXCEPT !.status = "expired", !.path = FALSE]
  ELSE recording

PcapCleared(w) ==
  IF "pcap" \in sweep[w].unlinked /\ pcap.path
     /\ pcap.status \in {"available", "failed"}
  THEN [pcap EXCEPT !.status = "expired", !.path = FALSE]
  ELSE pcap

\* Faulty: the paths of files that are still there go with the row.
DeletesOldCall(recordingRow, pcapRow) == CallIsOver /\ "call" \in over

DeletesCall(recordingRow, pcapRow) ==
  CallIsOver /\ "call" \in over /\ ~recordingRow.path /\ ~pcapRow.path

\* The transaction: metadata of what was unlinked, then the call when it is
\* past its own period and has no path left.
SweepCommits(w) ==
  /\ sweep[w].at = "unlink" /\ sweep[w].files = {}
  /\ recording' = RecordingCleared(w)
  /\ pcap' = PcapCleared(w)
  /\ stray' = (stray \/ (final /\ pcap'.path # pcap.path))
  /\ life' = IF DeletesCall(RecordingCleared(w), PcapCleared(w)) THEN "deleted" ELSE life
  /\ sweep' = [sweep EXCEPT ![w] = Still]
  /\ sweepLock' = NoSweep
  /\ UNCHANGED <<over, mishaps, file, starter, run, client, request, inFlight,
                 tcpdump, raw, final, startAsked>>

\* The process dies or its transaction fails, and its lock goes with its
\* connection: what it unlinked stays unlinked, and the rows stay as they are.
SweepDies(w) ==
  /\ sweep[w].at # "idle"
  /\ sweep' = [sweep EXCEPT ![w] = Still]
  /\ sweepLock' = NoSweep
  /\ UNCHANGED <<callVars, recordingVars, pcapVars>>

\* Periods are days, requests and statements take seconds: whatever was under
\* way when the call ended is over before the first of them ends.
AtRest == /\ starter = "idle" /\ startAsked
          /\ \A r \in Runs : run[r].at = "idle"
          /\ \A c \in Clients : client[c] = NoRequest
          /\ \A q \in Requests : request[q].at = "free"

FilesNext ==
  \/ /\ CallEnds \/ (PeriodEnds /\ (AtRest \/ over' \ over = {"grace"}))
     /\ UNCHANGED <<recordingVars, pcapVars, retentionVars>>
  \/ RecordingNext /\ UNCHANGED <<pcapVars, retentionVars>>
  \/ PcapNext /\ UNCHANGED <<recordingVars, retentionVars>>
  \/ \E w \in Sweeps : SweepBegins(w) \/ ListFiles(w) \/ Unlink(w)
                       \/ SweepCommits(w) \/ SweepDies(w)

FilesSpec == FilesInit /\ [][FilesNext]_filesVars

-----------------------------------------------------------------------------

\* A file is deleted only past its own period, and a recording that is
\* available can be played until then.
YoungFilesStay ==
  [][/\ file # "none" /\ file' = "none" => "recording" \in over
     /\ final /\ ~final' => "pcap" \in over
     /\ recording'.status = "available" /\ recording.status # "available"
          => file # "none" \/ "recording" \in over]_filesVars

\* Nothing is left behind that no later run would find, also when a retention
\* run dies between the files and their rows: a file on disk belongs to a call
\* whose row has its path or will get it, unless a command was not answered, a
\* statement of the recording or of the capture failed, one of their processes
\* died, or the capture is a stray one.
NothingIsLeftBehind ==
  mishaps = 0 /\ ~stray =>
    /\ file # "none" => life # "deleted" /\ recording.path
    /\ raw \/ final => life # "deleted" /\ (pcap.path \/ pcap.status = "pending")
=============================================================================
