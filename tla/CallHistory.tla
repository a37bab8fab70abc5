---------------------------- MODULE CallHistory ----------------------------
(***************************************************************************)
(* The two exports of past calls, which hold no snapshot of the database   *)
(* while a slow client downloads them: the CSV of the history, read by     *)
(* pages between a first row and a cursor (dashboard/routes.ts,            *)
(* responders.ts), and the ZIP of a campaign's recordings, whose files are *)
(* looked at, listed in a manifest and then packed                         *)
(* (dashboard/campaign-recording-export.ts).  Meanwhile calls are stored   *)
(* (a transaction that commits late stores one with an old created_at),    *)
(* changed and deleted, and retention removes files.                       *)
(***************************************************************************)
EXTENDS Naturals, FiniteSets

CONSTANTS CallIds,    \* numbers, in the order of the ids
          Times,      \* values of created_at
          PageSize,   \* rows of a page: 1,000
          MaxRows,    \* CALL_HISTORY_EXPORT_MAX_ROWS
          MaxChanges  \* bound on rows stored, changed or deleted meanwhile

ASSUME HistoryAssumption ==
  /\ CallIds \subseteq Nat /\ IsFiniteSet(CallIds) /\ Times \subseteq Nat \ {0}
  /\ PageSize \in Nat \ {0} /\ MaxRows \in Nat /\ MaxChanges \in Nat

VARIABLES created,  \* when a call was created, 0: there is no such row
          matching, \* the rows the export's filters keep
          recorded, \* rows whose recording is available
          files,    \* recordings on the disk
          removed,  \* calls that were deleted: no other gets their id
          csv,      \* the CSV export
          zip,      \* the ZIP export
          changes
tableVars   == <<created, matching, recorded, files, removed>>
historyVars == <<tableVars, csv, zip, changes>>

Kept == {c \in matching : created[c] # 0}
Place(c) == <<created[c], c>>
NoPlace == <<0, 0>>

\* order by created_at desc, id desc
Precedes(p, q) == p[1] > q[1] \/ (p[1] = q[1] /\ p[2] > q[2])
Top(S, n) == {c \in S : Cardinality({d \in S : Precedes(Place(d), Place(c))}) < n}
FirstOf(S) == Place(CHOOSE c \in S : \A d \in S \ {c} : Precedes(Place(c), Place(d)))
LastOf(S)  == Place(CHOOSE c \in S : \A d \in S \ {c} : Precedes(Place(d), Place(c)))

HistoryInit ==
  /\ created \in [CallIds -> {0} \cup Times]
  /\ matching = CallIds
  /\ recorded = {c \in CallIds : created[c] # 0} /\ files = recorded
  /\ removed = {}
  /\ csv = [at |-> "idle", first |-> NoPlace, cursor |-> NoPlace, budget |-> 0,
            page |-> {}, emitted |-> {}, initial |-> {}, stable |-> {}]
  /\ zip = [at |-> "idle", listed |-> {}, included |-> {}, packed |-> {}]
  /\ changes = 0

-----------------------------------------------------------------------------
(* The CSV export.                                                         *)

\* openCallHistoryCsvExport: the first page and the count, or 413.
OpenCsvExport ==
  /\ csv.at = "idle"
  /\ csv' = IF Cardinality(Kept) > MaxRows THEN [csv EXCEPT !.at = "refused"]
            ELSE IF Kept = {} THEN [csv EXCEPT !.at = "done"]
            ELSE [at |-> "yield", first |-> FirstOf(Kept), cursor |-> LastOf(Top(Kept, PageSize)),
                  budget |-> Cardinality(Kept), page |-> Top(Kept, PageSize), emitted |-> {},
                  initial |-> Kept, stable |-> Kept]
  /\ UNCHANGED <<tableVars, zip, changes>>

\* The client takes a page; streamCallHistoryCsv keeps to its row budget and
\* knows from a short page that it was the last one.  (A row of the page
\* that was deleted since is emitted as it was read.)
YieldPage ==
  /\ csv.at = "yield"
  /\ LET emitted == csv.emitted \cup
                    Top(csv.page, csv.budget - Cardinality(csv.emitted))
     IN csv' = [csv EXCEPT !.emitted = emitted, !.page = {},
                  !.at = IF \/ Cardinality(emitted) >= csv.budget
                            \/ Cardinality(csv.page) < PageSize
                         THEN "done" ELSE "read"]
  /\ UNCHANGED <<tableVars, zip, changes>>

\* Faulty: the cursor is the time alone.
AfterTime(c) == created[c] < csv.cursor[1] /\ ~Precedes(Place(c), csv.first)

\* The bounds of getCallHistoryPage: not before the first row of the export,
\* and after the cursor.
Within(c) == Precedes(csv.cursor, Place(c)) /\ ~Precedes(Place(c), csv.first)

ReadPage ==
  /\ csv.at = "read"
  /\ LET page == Top({c \in Kept : Within(c)}, PageSize)
     IN csv' = IF page = {} THEN [csv EXCEPT !.at = "done"]
               ELSE [csv EXCEPT !.at = "yield", !.page = page, !.cursor = LastOf(page)]
  /\ UNCHANGED <<tableVars, zip, changes>>

-----------------------------------------------------------------------------
(* The ZIP export.                                                         *)

\* openCampaignRecordingExport reads the rows with a recording ...
OpenArchive ==
  /\ zip.at = "idle"
  /\ zip' = [zip EXCEPT !.at = "check", !.listed = {c \in recorded : created[c] # 0}]
  /\ UNCHANGED <<tableVars, csv, changes>>

\* ... and filterExportableRecordings looks at each file ...
CheckFile(c) ==
  /\ zip.at = "check" /\ c \in zip.listed
  /\ zip' = [zip EXCEPT !.listed = @ \ {c},
               !.included = IF c \in files THEN @ \cup {c} ELSE @]
  /\ UNCHANGED <<tableVars, csv, changes>>

\* ... before createRecordingArchive writes the manifest, unless nothing is
\* left, the audit of the export fails or the client has gone.
WriteManifest ==
  /\ zip.at = "check" /\ zip.listed = {}
  /\ \/ zip.included # {} /\ zip' = [zip EXCEPT !.at = "pack"]
     \/ zip' = [zip EXCEPT !.at = "aborted"]
  /\ UNCHANGED <<tableVars, csv, changes>>

\* A file that is gone is a warning of the archiver, which aborts.
PackFile(c) ==
  /\ zip.at = "pack" /\ c \in zip.included \ zip.packed
  /\ zip' = IF c \in files THEN [zip EXCEPT !.packed = @ \cup {c}]
            ELSE [zip EXCEPT !.at = "aborted"]
  /\ UNCHANGED <<tableVars, csv, changes>>

FinishArchive ==
  /\ zip.at = "pack"
  /\ \/ zip.packed = zip.included /\ zip' = [zip EXCEPT !.at = "done"]
     \/ zip' = [zip EXCEPT !.at = "aborted"]
  /\ UNCHANGED <<tableVars, csv, changes>>

-----------------------------------------------------------------------------
(* The rest of the system.                                                 *)

RowsChange(c) == changes < MaxChanges /\ changes' = changes + 1
                 /\ csv' = [csv EXCEPT !.stable = @ \ {c}]

\* createDialerCall commits a call that it began at some time.
CallStored(c) ==
  /\ RowsChange(c) /\ created[c] = 0 /\ c \notin removed
  /\ \E t \in Times : created' = [created EXCEPT ![c] = t]
  /\ UNCHANGED <<matching, recorded, files, removed, zip>>

\* An outcome, a review or a name changes whether the filters keep it.
CallChanged(c) ==
  /\ RowsChange(c) /\ created[c] # 0
  /\ matching' = IF c \in matching THEN matching \ {c} ELSE matching \cup {c}
  /\ UNCHANGED <<created, recorded, files, removed, zip>>

\* runRetention: the file of an old call goes before its row is cleared.
FileRemoved(c) ==
  /\ RowsChange(c) /\ c \in files
  /\ files' = files \ {c}
  /\ UNCHANGED <<created, matching, recorded, removed, zip>>

RowRemoved(c) ==
  /\ RowsChange(c) /\ c \in recorded \ files
  /\ recorded' = recorded \ {c} /\ created' = [created EXCEPT ![c] = 0]
  /\ removed' = removed \cup {c}
  /\ UNCHANGED <<matching, files, zip>>

HistoryNext ==
  \/ OpenCsvExport \/ YieldPage \/ ReadPage
  \/ OpenArchive \/ WriteManifest \/ FinishArchive
  \/ \E c \in CallIds : \/ CheckFile(c) \/ PackFile(c)
                        \/ CallStored(c) \/ CallChanged(c)
                        \/ FileRemoved(c) \/ RowRemoved(c)

HistorySpec == HistoryInit /\ [][HistoryNext]_historyVars

-----------------------------------------------------------------------------
(* Properties.                                                             *)

HistoryTypeOK ==
  /\ created \in [CallIds -> {0} \cup Times]
  /\ matching \subseteq CallIds /\ recorded \subseteq CallIds /\ files \subseteq recorded
  /\ removed \subseteq {c \in CallIds : created[c] = 0}
  /\ csv.at \in {"idle", "yield", "read", "done", "refused"}
  /\ csv.page \cup csv.emitted \cup csv.stable \subseteq CallIds
  /\ zip.at \in {"idle", "check", "pack", "done", "aborted"}
  /\ zip.packed \subseteq zip.included /\ zip.listed \subseteq CallIds
  /\ changes \in 0..MaxChanges

\* A CSV export is as good as a snapshot, although it holds none: no row is
\* emitted twice, there are never more rows than were counted at the start,
\* and a row nobody touched is only missing when a row that appeared in the
\* meantime took its place in the count.
CsvIsASnapshot ==
  /\ csv.page \cap csv.emitted = {}
  /\ Cardinality(csv.emitted) <= csv.budget
  /\ csv.at = "done" => Cardinality(csv.stable \ csv.emitted)
                          <= Cardinality(csv.emitted \ csv.initial)

\* An archive that arrives whole contains what its manifest lists, whenever
\* retention unlinked files; CheckFile decides what the manifest lists.
ExportsAreTrue == CsvIsASnapshot /\ (zip.at = "done" => zip.packed = zip.included)
=============================================================================
