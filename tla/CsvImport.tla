----------------------------- MODULE CsvImport -----------------------------
(***************************************************************************)
(* CSV files imported into the suppression list and into the contacts of a *)
(* campaign (dashboard/csv.ts), beside the routes that add and remove one  *)
(* suppression entry (dashboard/routes.ts).  An import is one transaction  *)
(* that locks its numbers in order, writes them by chunks and commits, its *)
(* result computed from what the chunks found.                             *)
(*                                                                         *)
(* A file is parsed and its numbers normalised before: a row is a number,  *)
(* or none (no name, no valid number), and the value to be stored, a       *)
(* reason or a name.  A job's writes are seen by others when it commits.   *)
(***************************************************************************)
EXTENDS Naturals, Sequences, FiniteSets

CONSTANTS Jobs,
          Numbers,     \* phone numbers, as naturals in their order
          Values, NoValue,
          Lists,       \* campaigns whose contacts are imported
          Files,       \* the files, sequences of rows
          ChunkSize,   \* CSV_DATABASE_CHUNK_SIZE
          MaxEdits     \* bound on single entries added or removed

Row == [number : Numbers \cup {0}, value : Values]

ASSUME CsvAssumption ==
  /\ \A file \in Files : file \in Seq(Row)
  /\ Numbers \subseteq Nat \ {0} /\ IsFiniteSet(Numbers)
  /\ NoValue \notin Values /\ "suppression" \notin Lists
  /\ ChunkSize \in Nat \ {0} /\ MaxEdits \in Nat

VARIABLES stored,  \* suppression and contacts: target -> number -> value
          job,     \* the imports
          edits

csvVars == <<stored, job, edits>>

Targets == Lists \cup {"suppression"}
NotAJob == [at |-> "idle", target |-> "none", rows |-> <<>>, held |-> {},
            found |-> <<>>, result |-> <<>>]

CsvInit ==
  /\ stored = [t \in Targets |-> [n \in Numbers |-> NoValue]]
  /\ job = [j \in Jobs |-> NotAJob]
  /\ edits = 0

-----------------------------------------------------------------------------
(* What an import does with its rows.                                      *)

ValidRows(rows) == {r \in DOMAIN rows : rows[r].number # 0}
NumbersIn(rows) == {rows[r].number : r \in ValidRows(rows)}

\* The row that stands for a number: the last one of a suppression file, the
\* first one of a contacts file.
ChosenRow(target, rows, n) ==
  LET same == {r \in ValidRows(rows) : rows[r].number = n} IN
  CHOOSE r \in same : \A o \in same : IF target = "suppression" THEN o <= r ELSE r <= o

\* Conflicts update an entry and leave a contact alone.
Written(target, rows, found) ==
  [n \in DOMAIN found |->
     IF target = "suppression" \/ found[n] = NoValue
     THEN rows[ChosenRow(target, rows, n)].value ELSE found[n]]

\* importedRows, and the rows that were updates or duplicates.
Result(target, rows, found) ==
  LET inserted == {n \in DOMAIN found : found[n] = NoValue} IN
  [imported |-> Cardinality(inserted),
   others   |-> IF target = "suppression"
                THEN Cardinality(ValidRows(rows)) - Cardinality(inserted)
                ELSE Cardinality({r \in ValidRows(rows) :
                       \/ r # ChosenRow(target, rows, rows[r].number)
                       \/ rows[r].number \notin inserted}),
   written  |-> Written(target, rows, found)]

-----------------------------------------------------------------------------
(* The imports.                                                            *)

\* A file is accepted; a suppression file without a valid row needs no
\* transaction.
StartImport(j) ==
  /\ job[j] = NotAJob
  /\ \E target \in Targets, rows \in Files :
       job' = [job EXCEPT ![j] =
                 IF target = "suppression" /\ ValidRows(rows) = {}
                 THEN [NotAJob EXCEPT !.at = "committed", !.target = target, !.rows = rows,
                                      !.result = Result(target, rows, <<>>)]
                 ELSE [NotAJob EXCEPT !.at = "open", !.target = target, !.rows = rows]]
  /\ UNCHANGED <<stored, edits>>

\* lockNormalizedPhoneNumbers: all numbers of the file, in order, before any
\* of them is written.
ToLock(j) == NumbersIn(job[j].rows) \ job[j].held
\* Faulty: in the order of the file.
NextLockOfFile(j) ==
  LET rows == job[j].rows
      toLock == {r \in ValidRows(rows) : rows[r].number \in ToLock(j)}
  IN rows[CHOOSE r \in toLock : \A o \in toLock : r <= o].number
NextLock(j) == CHOOSE n \in ToLock(j) : \A m \in ToLock(j) : n <= m
Locked(j) == ToLock(j) = {}
Waiting(j) == /\ job[j].at = "open" /\ ~Locked(j)
              /\ \E k \in Jobs \ {j} : NextLock(j) \in job[k].held

LockNumber(j) ==
  /\ job[j].at = "open" /\ ~Locked(j) /\ ~Waiting(j)
  /\ job' = [job EXCEPT ![j].held = @ \cup {NextLock(j)}]
  /\ UNCHANGED <<stored, edits>>

\* One chunk of the unique rows; what it finds decides inserted or not.
WriteChunk(j) ==
  LET left == NumbersIn(job[j].rows) \ DOMAIN job[j].found
      chunk == {n \in left : Cardinality({m \in left : m < n}) < ChunkSize}
  IN
  /\ job[j].at = "open" /\ Locked(j) /\ left # {}
  /\ job' = [job EXCEPT ![j].found =
               [n \in DOMAIN @ \cup chunk |->
                  IF n \in chunk THEN stored[job[j].target][n] ELSE @[n]]]
  /\ UNCHANGED <<stored, edits>>

\* Events or failures are written, and the transaction commits.
CommitImport(j) ==
  LET t == job[j].target
      outcome == Result(t, job[j].rows, job[j].found)
  IN
  /\ job[j].at = "open" /\ Locked(j)
  /\ DOMAIN job[j].found = NumbersIn(job[j].rows)
  /\ stored' = [stored EXCEPT ![t] =
                  [n \in Numbers |-> IF n \in DOMAIN outcome.written
                                     THEN outcome.written[n] ELSE @[n]]]
  /\ job' = [job EXCEPT ![j].at = "committed", ![j].held = {}, ![j].result = outcome]
  /\ UNCHANGED edits

\* A statement fails: rollback.
FailImport(j) ==
  /\ job[j].at = "open"
  /\ job' = [job EXCEPT ![j] = [NotAJob EXCEPT !.at = "failed"]]
  /\ UNCHANGED <<stored, edits>>

\* POST and DELETE /admin/suppression; the row of an uncommitted import is
\* locked.
EditEntry(n) ==
  /\ edits < MaxEdits
  /\ \A j \in Jobs : job[j].at = "open" /\ job[j].target = "suppression"
                     => n \notin DOMAIN job[j].found
  /\ \/ \E v \in Values : stored' = [stored EXCEPT !["suppression"][n] = v]
     \/ /\ stored["suppression"][n] # NoValue
        /\ stored' = [stored EXCEPT !["suppression"][n] = NoValue]
  /\ edits' = edits + 1
  /\ UNCHANGED job

CsvNext ==
  \/ \E j \in Jobs : \/ StartImport(j) \/ LockNumber(j) \/ WriteChunk(j)
                     \/ CommitImport(j) \/ FailImport(j)
  \/ \E n \in Numbers : EditEntry(n)

CsvSpec == CsvInit /\ [][CsvNext]_csvVars

-----------------------------------------------------------------------------
(* Properties.                                                             *)

\* Types of the variables.
CsvTypeOK ==
  /\ stored \in [Targets -> [Numbers -> Values \cup {NoValue}]]
  /\ \A j \in Jobs :
       /\ job[j].at \in {"idle", "open", "committed", "failed"}
       /\ job[j].target \in Targets \cup {"none"}
       /\ job[j].rows \in Files \cup {<<>>}
       /\ job[j].held \subseteq Numbers
       /\ DOMAIN job[j].found \subseteq Numbers
  /\ edits \in 0 .. MaxEdits

\* The import as the loop it replaced: each row upserts its entry, or inserts
\* its contact unless there is one.
ImportRow(target, sofar, row) ==
  IF row.number = 0 THEN sofar
  ELSE IF sofar.written[row.number] = NoValue
  THEN [sofar EXCEPT !.imported = @ + 1, !.written[row.number] = row.value]
  ELSE [sofar EXCEPT !.others = @ + 1,
                     !.written[row.number] =
                        IF target = "suppression" THEN row.value ELSE @]
LoopStates(target, rows, found) ==
  LET after[r \in 0 .. Len(rows)] ==
        IF r = 0 THEN [imported |-> 0, others |-> 0, written |-> found]
        ELSE ImportRow(target, after[r - 1], rows[r])
  IN  after
LoopImport(target, rows, found) == LoopStates(target, rows, found)[Len(rows)]

\* An import that has committed wrote and reported what the loop over its
\* rows would have (csv.ts: "Preserve the loop import's final-value
\* semantics"), wherever its chunks end and whatever else ran.
BatchEqualsLoop ==
  \A j \in Jobs : job[j].at = "committed" =>
    job[j].result = LoopImport(job[j].target, job[j].rows, job[j].found)

\* Imports that share numbers wait for each other, never in a circle.
ImportsDoNotDeadlock ==
  (\E j \in Jobs : Waiting(j)) =>
    \E k \in Jobs : job[k].at = "open" /\ ~Waiting(k)

\* Two imports that share a number do not overlap: what the later one found
\* is what the earlier one left, so each new number is claimed once.
SharedNumbersAreSerial ==
  \A j, k \in Jobs : j # k /\ job[j].at = "open" /\ job[k].at = "open" =>
    DOMAIN job[j].found \cap DOMAIN job[k].found = {}

ImportsAreExact == BatchEqualsLoop /\ ImportsDoNotDeadlock /\ SharedNumbersAreSerial
=============================================================================
