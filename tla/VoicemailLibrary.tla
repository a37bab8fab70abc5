-------------------------- MODULE VoicemailLibrary --------------------------
(***************************************************************************)
(* The library of voicemail recordings: upload, choice of the default,     *)
(* deletion (dashboard/recordings.ts and the routes that call it), and the *)
(* calls that take a recording from it (dashboard/calls.ts).               *)
(*                                                                         *)
(* Each transaction takes the advisory lock of the default selection first *)
(* (lockDefaultRecordingSelection), so it is one step; the files and the   *)
(* transactions of one request are steps of their own.  A voicemail drop   *)
(* does not take that lock.                                                *)
(***************************************************************************)
EXTENDS Naturals, FiniteSets

CONSTANTS Recordings,   \* ids of recordings ever uploaded
          Admins,       \* requests of administrators under way at a time
          Dials,        \* calls
          NoRecording,
          MaxLost       \* bound: commits whose answer is lost, processes dead

ASSUME LibraryAssumption ==
  /\ NoRecording \notin Recordings
  /\ MaxLost \in Nat

VARIABLES library,      \* the rows of recordings
          disk,         \* recordings whose file exists
          errand,       \* per request: where it is, and its recording
          dial,         \* per call: open, its recording and who gave it
          setbacks      \* how many mishaps there have been

libraryVars == <<library, disk, errand, dial, setbacks>>

NoTask == [at |-> "idle", recording |-> NoRecording]
InLibrary == {r \in Recordings : library[r] # "none"}
Usable == {r \in Recordings : library[r] \in {"active", "default"}}
DefaultOnes == {r \in Recordings : library[r] = "default"}
AssignedTo(r) == {c \in Dials : dial[c].open /\ dial[c].recording = r}
Lose == setbacks < MaxLost /\ setbacks' = setbacks + 1

LibraryInit ==
  /\ library = [r \in Recordings |-> "none"]
  /\ disk = {}
  /\ errand = [a \in Admins |-> NoTask]
  /\ dial = [c \in Dials |-> [open |-> FALSE, recording |-> NoRecording,
                              by |-> "none", drop |-> NoRecording]]
  /\ setbacks = 0

\* r is the default and no other recording is: update recordings set
\* is_default = false, then the new default.
OnlyDefault(rows, r) ==
  [x \in Recordings |-> IF x = r THEN "default"
                        ELSE IF rows[x] = "default" THEN "active" ELSE rows[x]]

Proceed(a, place) == errand' = [errand EXCEPT ![a].at = place]
Finish(a) == errand' = [errand EXCEPT ![a] = NoTask]

-----------------------------------------------------------------------------
(* Upload.                                                                 *)

\* The file is received and transcoded; if either fails nothing is left.
Upload(a) ==
  /\ errand[a].at = "idle"
  /\ \E r \in Recordings :
       /\ r \notin InLibrary \cup disk
       /\ \A b \in Admins : errand[b].recording # r
       /\ disk' = disk \cup {r}
       /\ errand' = [errand EXCEPT ![a] = [at |-> "insert", recording |-> r]]
  /\ UNCHANGED <<library, dial, setbacks>>

\* createRecording: the row, as the default if asked or if there is none.
Inserted(r, makeDefault) ==
  IF makeDefault \/ DefaultOnes = {} THEN OnlyDefault(library, r)
                                 ELSE [library EXCEPT ![r] = "active"]

\* The transaction commits, rolls back, or commits and its answer is lost.
CreateRecording(a) ==
  /\ errand[a].at = "insert"
  /\ \E makeDefault \in BOOLEAN :
       \/ /\ library' = Inserted(errand[a].recording, makeDefault)
          /\ Finish(a)
          /\ UNCHANGED setbacks
       \/ /\ Proceed(a, "undoUpload")
          /\ UNCHANGED <<library, setbacks>>
       \/ /\ Lose
          /\ library' = Inserted(errand[a].recording, makeDefault)
          /\ Proceed(a, "undoUpload")
  /\ UNCHANGED <<disk, dial>>

\* The error path of the upload removes its file.
UndoUpload(a) ==
  /\ errand[a].at = "undoUpload"
  /\ disk' = disk \ {errand[a].recording}
  /\ Finish(a)
  /\ UNCHANGED <<library, dial, setbacks>>

-----------------------------------------------------------------------------
(* Default and deletion.                                                   *)

SetDefaultRecording(r) ==
  /\ r \in Usable
  /\ library' = OnlyDefault(library, r)
  /\ UNCHANGED <<disk, errand, dial, setbacks>>

\* deleteRecording: refused while an open call has the recording; the newest
\* active recording (any stands for it) takes the place of a default.
DeleteRecording(a) ==
  /\ errand[a].at = "idle"
  /\ \E r \in Usable :
       /\ AssignedTo(r) = {}
       /\ LET rest == [library EXCEPT ![r] = "deleted"] IN
          IF r \notin DefaultOnes \/ Usable = {r}
          THEN library' = rest
          ELSE \E next \in Usable \ {r} : library' = OnlyDefault(rest, next)
       /\ errand' = [errand EXCEPT ![a] = [at |-> "unlink", recording |-> r]]
  /\ UNCHANGED <<disk, dial, setbacks>>

\* The route unlinks the file after the commit; one that cannot be unlinked
\* stays, and its row is restored.
UnlinkRecording(a) ==
  /\ errand[a].at = "unlink"
  /\ \/ disk' = disk \ {errand[a].recording} /\ Finish(a)
     \/ Proceed(a, "restore") /\ UNCHANGED disk
  /\ UNCHANGED <<library, dial, setbacks>>

\* restoreDeletedRecording: active again, the default only if there is none.
RestoreDeletedRecording(a) ==
  LET r == errand[a].recording IN
  /\ errand[a].at = "restore"
  /\ library' = IF library[r] # "deleted" THEN library
                ELSE [library EXCEPT ![r] = IF DefaultOnes = {} THEN "default"
                                                            ELSE "active"]
  /\ Finish(a)
  /\ UNCHANGED <<disk, dial, setbacks>>

\* The process dies between the steps of a request.
AdminRequestDies(a) ==
  /\ errand[a].at # "idle"
  /\ Lose
  /\ Finish(a)
  /\ UNCHANGED <<library, disk, dial>>

-----------------------------------------------------------------------------
(* Calls.                                                                  *)

\* createDialerCall takes the default under the lock; there may be none.
CreateCall(c) ==
  /\ ~dial[c].open
  /\ \E r \in IF DefaultOnes = {} THEN {NoRecording} ELSE DefaultOnes :
       dial' = [dial EXCEPT ![c] = [open |-> TRUE, recording |-> r,
                                    by |-> "creation", drop |-> NoRecording]]
  /\ UNCHANGED <<library, disk, errand, setbacks>>

\* dropVoicemailForCall reads an active recording for key share, which the
\* deletion's update does not wait for ...
SelectForDrop(c) ==
  /\ dial[c].open /\ dial[c].by = "creation" /\ dial[c].drop = NoRecording
  /\ \E r \in Usable : dial' = [dial EXCEPT ![c].drop = r]
  /\ UNCHANGED <<library, disk, errand, setbacks>>

\* ... and commits the call with it.
CommitDrop(c) ==
  /\ dial[c].open /\ dial[c].drop # NoRecording
  /\ dial' = [dial EXCEPT ![c].recording = dial[c].drop, ![c].by = "drop",
                          ![c].drop = NoRecording]
  /\ UNCHANGED <<library, disk, errand, setbacks>>

EndCall(c) ==
  /\ dial[c].open /\ dial[c].drop = NoRecording
  /\ dial' = [dial EXCEPT ![c].open = FALSE]
  /\ UNCHANGED <<library, disk, errand, setbacks>>

LibraryNext ==
  \/ \E a \in Admins : Upload(a) \/ CreateRecording(a) \/ UndoUpload(a)
                       \/ DeleteRecording(a) \/ UnlinkRecording(a)
                       \/ RestoreDeletedRecording(a) \/ AdminRequestDies(a)
  \/ \E r \in Recordings : SetDefaultRecording(r)
  \/ \E c \in Dials : CreateCall(c) \/ SelectForDrop(c) \/ CommitDrop(c)
                      \/ EndCall(c)

LibrarySpec == LibraryInit /\ [][LibraryNext]_libraryVars

-----------------------------------------------------------------------------
(* Properties.                                                             *)

\* Types of the variables.
LibraryTypeOK ==
  /\ library \in [Recordings -> {"none", "active", "default", "deleted"}]
  /\ disk \subseteq Recordings
  /\ errand \in [Admins -> [at : {"idle", "insert", "undoUpload", "unlink", "restore"},
                            recording : Recordings \cup {NoRecording}]]
  /\ dial \in [Dials -> [open : BOOLEAN, recording : Recordings \cup {NoRecording},
                         by : {"none", "creation", "drop"},
                         drop : Recordings \cup {NoRecording}]]
  /\ setbacks \in 0 .. MaxLost

\* There is exactly one default as soon as a recording is active, through
\* uploads, deletions and restorations that overlap; a recording that can be
\* chosen has its file, unless the answer to a commit was lost; and what a
\* call was given at its creation is not deleted under it.
LibraryIsUsable ==
  /\ Usable # {} => Cardinality(DefaultOnes) = 1
  /\ setbacks = 0 => Usable \subseteq disk
  /\ \A c \in Dials :
       dial[c].open /\ dial[c].by = "creation" /\ dial[c].recording # NoRecording
         => dial[c].recording \in Usable
=============================================================================
