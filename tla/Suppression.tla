---------------------------- MODULE Suppression ----------------------------
(***************************************************************************)
(* The list of numbers that may not be called, the evidence kept of its    *)
(* changes (suppression_events), and the requests for calls that have to   *)
(* respect it: manual dials, checked before the transaction that makes the *)
(* call, and leads, selected by a join inside it (dashboard/routes.ts,     *)
(* manual-dial.ts, calls.ts, csv.ts).                                      *)
(*                                                                         *)
(* A number is the one normalizePhoneNumber returns; each belongs to a     *)
(* lead as well.  An entry is its reason, and of a reason only whether it  *)
(* is null or contains the word "suppression".                             *)
(***************************************************************************)
CONSTANTS Asks,         \* requests for a call
          PhoneNumbers

VARIABLES list,           \* suppression_entries
          evidence,       \* the list as the created, updated, imported and
                          \* removed events tell it
          blockedDials,   \* numbers of which a manual dial was refused as listed
          blockedEvents,  \* numbers with a blocked_manual_dial event
          ask
suppressionVars == <<list, evidence, blockedDials, blockedEvents, ask>>

Unlisted == "unlisted"
Reasons == {"null", "suppression", "other"}
NoAsk == [at |-> "idle"]

SuppressionInit ==
  /\ list = [n \in PhoneNumbers |-> Unlisted] /\ evidence = list
  /\ blockedDials = {} /\ blockedEvents = {}
  /\ ask = [r \in Asks |-> NoAsk]

-----------------------------------------------------------------------------
(* The administrators.                                                     *)

\* A request in progress was free to dial for a moment.
FreedFor(n) == [r \in Asks |-> IF ask[r].at # "idle" /\ ask[r].number = n
                                   THEN [ask[r] EXCEPT !.free = TRUE] ELSE ask[r]]

\* POST /admin/suppression: the entry and its event in one transaction.
AddEntry(n, reason) ==
  /\ list' = [list EXCEPT ![n] = reason] /\ evidence' = [evidence EXCEPT ![n] = reason]
  /\ UNCHANGED <<blockedDials, blockedEvents, ask>>

\* importSuppressionFromCsv; a row without a reason gets "Suppression CSV
\* import".
ImportEntries(reasons) ==
  /\ \A n \in DOMAIN reasons : reasons[n] # "null"
  /\ list' = [n \in PhoneNumbers |-> IF n \in DOMAIN reasons THEN reasons[n] ELSE list[n]]
  /\ evidence' = [n \in PhoneNumbers |-> IF n \in DOMAIN reasons THEN reasons[n] ELSE evidence[n]]
  /\ UNCHANGED <<blockedDials, blockedEvents, ask>>

RemoveEntry(n) ==
  /\ list[n] # Unlisted
  /\ list' = [list EXCEPT ![n] = Unlisted] /\ evidence' = [evidence EXCEPT ![n] = Unlisted]
  /\ ask' = FreedFor(n)
  /\ UNCHANGED <<blockedDials, blockedEvents>>

\* POST /admin/contacts/:contactId/suppress; the default reason is
\* "Suppressed from campaign contact list".
SuppressContact(n, reason) ==
  /\ reason # "null"
  /\ list' = [list EXCEPT ![n] = reason]
  /\ UNCHANGED <<evidence, blockedDials, blockedEvents, ask>>

-----------------------------------------------------------------------------
(* The requests.                                                           *)

\* POST /agent/manual-dial/start, /agent/call-next or /agent/leads/:id/call
\* arrives; its user is read before the list.
AskToDial(r, n, kind) ==
  /\ ask[r].at = "idle"
  /\ ask' = [ask EXCEPT ![r] = [at |-> "asked", kind |-> kind, number |-> n,
                                          free |-> list[n] = Unlisted]]
  /\ UNCHANGED <<list, evidence, blockedDials, blockedEvents>>

\* validateDialableNumber lets a number pass that is not on the list.
CheckManualDial(r) ==
  /\ ask[r].at = "asked" /\ ask[r].kind = "manual"
  /\ list[ask[r].number] = Unlisted
  /\ ask' = [ask EXCEPT ![r].at = "allowed"]
  /\ UNCHANGED <<list, evidence, blockedDials, blockedEvents>>

\* The reason of the refusal is the entry's, or "Number is suppressed"; the
\* event is written when it contains "suppression".
BlockManualDial(r) ==
  /\ ask[r].at = "asked" /\ ask[r].kind = "manual"
  /\ LET n == ask[r].number
     IN /\ list[n] # Unlisted
        /\ blockedDials' = blockedDials \cup {n}
        /\ blockedEvents' = IF list[n] = "suppression" THEN blockedEvents \cup {n} ELSE blockedEvents
  /\ ask' = [ask EXCEPT ![r] = NoAsk]
  /\ UNCHANGED <<list, evidence>>

\* Faulty: the lead is selected without the join.
SelectAnyLead(r) ==
  /\ ask[r].at = "asked" /\ ask[r].kind = "lead"
  /\ ask' = [ask EXCEPT ![r].at = "allowed"]
  /\ UNCHANGED <<list, evidence, blockedDials, blockedEvents>>

\* getNextCallableContactForUpdate and getCallableContactForUpdate: the
\* list is as the statement finds it when it begins, although it may then
\* wait for the lead's row.
SelectListedLead(r) ==
  /\ ask[r].at = "asked" /\ ask[r].kind = "lead"
  /\ list[ask[r].number] = Unlisted
  /\ ask' = [ask EXCEPT ![r].at = "allowed"]
  /\ UNCHANGED <<list, evidence, blockedDials, blockedEvents>>

\* createDialerCall commits the call and originates it.
Dial(r) ==
  /\ ask[r].at = "allowed"
  /\ ask' = [ask EXCEPT ![r].at = "dialed"]
  /\ UNCHANGED <<list, evidence, blockedDials, blockedEvents>>

\* The request is refused for another reason or fails, its lead is not
\* callable, or its call is over.
GiveUpDial(r) ==
  /\ ask[r].at # "idle"
  /\ ask' = [ask EXCEPT ![r] = NoAsk]
  /\ UNCHANGED <<list, evidence, blockedDials, blockedEvents>>

SuppressionNext ==
  \/ \E n \in PhoneNumbers : RemoveEntry(n)
  \/ \E n \in PhoneNumbers, reason \in Reasons : AddEntry(n, reason) \/ SuppressContact(n, reason)
  \/ \E S \in SUBSET PhoneNumbers : \E reasons \in [S -> Reasons] : ImportEntries(reasons)
  \/ \E r \in Asks :
       \/ \E n \in PhoneNumbers, kind \in {"manual", "lead"} : AskToDial(r, n, kind)
       \/ CheckManualDial(r) \/ BlockManualDial(r) \/ SelectListedLead(r) \/ Dial(r) \/ GiveUpDial(r)

SuppressionSpec == SuppressionInit /\ [][SuppressionNext]_suppressionVars

-----------------------------------------------------------------------------
(* Properties.                                                             *)

AskRow == {NoAsk} \cup [at : {"asked", "allowed", "dialed"}, kind : {"manual", "lead"},
                        number : PhoneNumbers, free : BOOLEAN]

SuppressionTypeOK ==
  /\ list \in [PhoneNumbers -> Reasons \cup {Unlisted}]
  /\ evidence \in [PhoneNumbers -> Reasons \cup {Unlisted}]
  /\ blockedEvents \subseteq blockedDials /\ blockedDials \subseteq PhoneNumbers
  /\ ask \in [Asks -> AskRow]

\* A number that was on the list when the call was asked for, and has been
\* on it ever since, is not dialed, neither as a lead nor by hand; an entry
\* that is made while the request is handled may come too late.
ListedNumbersAreNotDialed ==
  \A r \in Asks : ask[r].at = "dialed" => ask[r].free

\* "Suppression changes and blocked manual-dial attempts create durable
\* suppression_events" (docs/requirements.md): the events tell the list as
\* it is, and every blocked dial has one.
EvidenceIsComplete == evidence = list /\ blockedEvents = blockedDials
=============================================================================
