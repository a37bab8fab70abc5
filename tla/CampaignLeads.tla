--------------------------- MODULE CampaignLeads ---------------------------
(***************************************************************************)
(* The row locks with which a call takes a lead of a campaign              *)
(* (createDialerCall, dashboard/calls.ts) while an administrator resets    *)
(* the campaign's leads or archives it (dashboard/campaigns.ts).  The      *)
(* transactions are at READ COMMITTED and are taken apart into the         *)
(* statements that lock; CallStore shows them as one step each.            *)
(*                                                                         *)
(* One campaign.  A lead's status and attempts stand for its columns, the  *)
(* retry delay for a choice; attempts are not counted beyond one above the *)
(* limit.  Every lock is held until its transaction ends; a cycle of waits *)
(* is broken by PostgreSQL, which aborts one side.                         *)
(***************************************************************************)
EXTENDS Naturals, FiniteSets

CONSTANTS Callers, Leads, NoLead,
          MaxDials,  \* CONTACT_MAX_ATTEMPTS
          MaxReforms    \* bound on transactions of administrators

ASSUME LeadsAssumption == /\ NoLead \notin Leads /\ Callers \cap {"nobody", "reformer"} = {}
                          /\ MaxDials \in Nat \ {0} /\ MaxReforms \in Nat

VARIABLES campaign,  \* its status, and who holds its row for update or for key share
          lead,      \* the rows of contacts, and who holds them
          caller,    \* one agent's call each
          reform,    \* the administrator's transaction
          reforms
leadsVars == <<campaign, lead, caller, reform, reforms>>

NoHolder == "nobody"
Reformer == "reformer"
NoReform == [at |-> "idle", kind |-> "none", todo |-> {}, before |-> <<>>]
NotCalling == [at |-> "idle", lead |-> NoLead, confirmed |-> FALSE]

LeadsInit ==
  /\ campaign = [status |-> "active", update |-> FALSE, shared |-> {}]
  /\ lead = [k \in Leads |-> [status |-> "new", attempts |-> 0, holder |-> NoHolder]]
  /\ caller = [r \in Callers |-> NotCalling]
  /\ reform = NoReform
  /\ reforms = 0

-----------------------------------------------------------------------------
(* Which leads may be called.                                              *)

\* The count of callable leads in getAgentCampaign, getAgentCampaigns, the
\* campaign library and the overview.
CountedCallable(k) == lead[k].status # "completed" /\ lead[k].attempts < MaxDials

\* getNextCallableContactForUpdate skips a row that somebody holds.
NextCallable(k) ==
  /\ campaign.status = "active"
  /\ lead[k].status \notin {"calling", "completed"} /\ lead[k].attempts < MaxDials
  /\ lead[k].holder = NoHolder

\* getCallableContactForUpdate waits for the row and looks at it again; a
\* completed lead has to be confirmed.
ChosenCallable(k, confirmed) ==
  /\ campaign.status = "active"
  /\ lead[k].status # "calling"
  /\ IF lead[k].status = "completed" THEN confirmed ELSE lead[k].attempts < MaxDials
  /\ lead[k].holder = NoHolder

-----------------------------------------------------------------------------
(* createDialerCall.                                                       *)

SelectLead(r, k) ==
  /\ caller[r].at = "idle"
  /\ \E confirmed \in BOOLEAN :
       /\ NextCallable(k) \/ ChosenCallable(k, confirmed)
       /\ caller' = [caller EXCEPT ![r] = [at |-> "selected", lead |-> k,
                       confirmed |-> confirmed /\ lead[k].status = "completed"]]
  /\ lead' = [lead EXCEPT ![k].holder = r]
  /\ UNCHANGED <<campaign, reform, reforms>>

\* The insert of the call: its foreign key locks the campaign for key share.
InsertCall(r) ==
  /\ caller[r].at = "selected" /\ ~campaign.update
  /\ campaign' = [campaign EXCEPT !.shared = @ \cup {r}]
  /\ caller' = [caller EXCEPT ![r].at = "inserted"]
  /\ UNCHANGED <<lead, reform, reforms>>

CommitCall(r) ==
  /\ caller[r].at = "inserted"
  /\ lead' = [lead EXCEPT ![caller[r].lead] =
                [status |-> "calling", holder |-> NoHolder,
                 attempts |-> IF @.attempts > MaxDials THEN @.attempts ELSE @.attempts + 1]]
  /\ campaign' = [campaign EXCEPT !.shared = @ \ {r}]
  /\ caller' = [caller EXCEPT ![r].at = "calling"]
  /\ UNCHANGED <<reform, reforms>>

RollBackCall(r) ==
  /\ lead' = [lead EXCEPT ![caller[r].lead].holder = NoHolder]
  /\ campaign' = [campaign EXCEPT !.shared = @ \ {r}]
  /\ caller' = [caller EXCEPT ![r] = NotCalling]
  /\ UNCHANGED <<reform, reforms>>

\* A statement of the transaction fails.
CallFails(r) == caller[r].at \in {"selected", "inserted"} /\ RollBackCall(r)

\* finalizeCallTransaction gives the lead back.
CallFinished(r) ==
  /\ caller[r].at = "calling" /\ lead[caller[r].lead].holder = NoHolder
  /\ \E status \in {"new", "completed"} :
       lead' = [lead EXCEPT ![caller[r].lead].status = IF @ = "calling" THEN status ELSE @]
  /\ caller' = [caller EXCEPT ![r] = NotCalling]
  /\ UNCHANGED <<campaign, reform, reforms>>

-----------------------------------------------------------------------------
(* resetCampaignLeads and deleteCampaign.                                  *)

\* Faulty: the campaign is read without "for update".
ReadCampaign(kind) ==
  /\ reform.at = "idle" /\ reforms < MaxReforms
  /\ reform' = [reform EXCEPT !.at = "check", !.kind = kind]
  /\ reforms' = reforms + 1
  /\ UNCHANGED <<campaign, lead, caller>>

LockCampaign(kind) ==
  /\ reform.at = "idle" /\ reforms < MaxReforms
  /\ campaign.shared = {}
  /\ campaign' = [campaign EXCEPT !.update = TRUE]
  /\ reform' = [reform EXCEPT !.at = "check", !.kind = kind]
  /\ reforms' = reforms + 1
  /\ UNCHANGED <<lead, caller>>

\* The committed calls of the campaign that are open.
CheckActiveCalls ==
  /\ reform.at = "check"
  /\ IF \E r \in Callers : caller[r].at = "calling"
     THEN reform' = NoReform /\ campaign' = [campaign EXCEPT !.update = FALSE]
     ELSE /\ reform' = [reform EXCEPT !.at = "update", !.before = lead, !.todo =
                          IF reform.kind = "reset"
                          THEN {k \in Leads : lead[k].status # "new" \/ lead[k].attempts # 0}
                          ELSE {}]
          /\ UNCHANGED campaign
  /\ UNCHANGED <<lead, caller, reforms>>

\* The update of contacts, row by row as it gets their locks.
ResetLead(k) ==
  /\ reform.at = "update" /\ k \in reform.todo
  /\ lead[k].holder = NoHolder
  /\ lead' = [lead EXCEPT ![k] = [status |-> "new", attempts |-> 0, holder |-> Reformer]]
  /\ reform' = [reform EXCEPT !.todo = @ \ {k}]
  /\ UNCHANGED <<campaign, caller, reforms>>

CommitReform ==
  /\ reform.at = "update" /\ reform.todo = {}
  /\ campaign' = [campaign EXCEPT !.update = FALSE,
                    !.status = IF reform.kind = "archive" THEN "archived" ELSE @]
  /\ lead' = [k \in Leads |-> [lead[k] EXCEPT !.holder = IF @ = Reformer THEN NoHolder ELSE @]]
  /\ reform' = NoReform
  /\ UNCHANGED <<caller, reforms>>

RollBackReform ==
  /\ campaign' = [campaign EXCEPT !.update = FALSE]
  /\ lead' = [k \in Leads |-> IF lead[k].holder = Reformer
                              THEN [reform.before[k] EXCEPT !.holder = NoHolder] ELSE lead[k]]
  /\ reform' = NoReform
  /\ UNCHANGED <<caller, reforms>>

\* The caller holds a lead that the reset waits for, and waits for the
\* campaign that the reset holds.
Deadlocked(r) ==
  /\ caller[r].at = "selected" /\ campaign.update
  /\ reform.at = "update" /\ caller[r].lead \in reform.todo

BreakDeadlock(r) == Deadlocked(r) /\ (RollBackCall(r) \/ RollBackReform)

\* PATCH /admin/campaigns/:campaignId, which takes no lock that an insert
\* of a call waits for, and lets an archived campaign be made active again.
EditCampaign ==
  /\ reforms < MaxReforms /\ reforms' = reforms + 1 /\ ~campaign.update
  /\ \E status \in {"active", "paused"} : campaign' = [campaign EXCEPT !.status = status]
  /\ UNCHANGED <<lead, caller, reform>>

LeadsNext ==
  \/ \E r \in Callers : \/ \E k \in Leads : SelectLead(r, k)
                        \/ InsertCall(r) \/ CommitCall(r) \/ CallFails(r)
                        \/ CallFinished(r) \/ BreakDeadlock(r)
  \/ \E kind \in {"reset", "archive"} : LockCampaign(kind)
  \/ CheckActiveCalls \/ CommitReform \/ EditCampaign
  \/ \E k \in Leads : ResetLead(k)

LeadsSpec == LeadsInit /\ [][LeadsNext]_leadsVars

-----------------------------------------------------------------------------
(* Properties.                                                             *)

LeadsTypeOK ==
  /\ campaign.status \in {"active", "paused", "archived"}
  /\ campaign.update = (reform.at # "idle") /\ campaign.shared \subseteq Callers
  /\ \A k \in Leads : /\ lead[k].status \in {"new", "calling", "completed"}
                      /\ lead[k].attempts \in 0..(MaxDials + 1)
                      /\ lead[k].holder \in Callers \cup {NoHolder, Reformer}
  /\ \A r \in Callers : /\ caller[r].at \in {"idle", "selected", "inserted", "calling"}
                        /\ caller[r].lead \in Leads \cup {NoLead}

\* A reset never gives back the lead of an open call, and an archive never
\* overtakes a call that has been inserted: the check for active calls still
\* holds when the transaction writes what it decided.
ReformsSpareLiveCalls ==
  \A r \in Callers :
    /\ caller[r].at = "calling" => lead[caller[r].lead].status = "calling"
    /\ caller[r].at \in {"inserted", "calling"} => reform.at # "update"

\* Two calls never hold one lead, and a lead that nobody confirmed is not
\* dialed more often than the policy allows, whoever waits for its row.
LeadsAreDialedOnce ==
  \A r \in Callers : caller[r].at # "idle" =>
    /\ \A o \in Callers \ {r} : caller[o].at # "idle" => caller[o].lead # caller[r].lead
    /\ ~caller[r].confirmed => lead[caller[r].lead].attempts <= MaxDials

LeadsAreSafe == ReformsSpareLiveCalls /\ LeadsAreDialedOnce
=============================================================================
