----------------------------- MODULE MCFollowUp -----------------------------
(* What follows a change of the database outside it: the desk in a browser *)
(* (LiveDesk) and the phones of a user (AgentAccounts).  They share no     *)
(* state, so a behaviour runs one of them, chosen at the beginning.        *)
EXTENDS LiveDesk, AgentAccounts

VARIABLE part   \* the component that runs

followUpVars == <<deskVars, accountsVars, part>>

FollowUpInit ==
  /\ DeskInit /\ AccountsInit
  /\ \/ part = "desk"
     \/ part = "accounts" /\ cookie = Nobody
                          /\ fetch[CHOOSE f \in Fetches : TRUE] # NoFetch

DeskRuns == part = "desk" /\ DeskNext /\ UNCHANGED <<accountsVars, part>>
AccountsRun == part = "accounts" /\ AccountsNext /\ UNCHANGED <<deskVars, part>>

FollowUpNext == DeskRuns \/ AccountsRun

(* The fairness of each component, while it is the one that runs.          *)
FollowUpFairness ==
  /\ \A f \in Fetches :
       /\ WF_deskVars(part = "desk" /\ ServerAnswers(f))
       /\ WF_deskVars(part = "desk" /\ ResponseArrives(f))
       /\ SF_deskVars(part = "desk" /\ ServerAnswers(f) /\ Valid(f))
       /\ SF_deskVars(part = "desk" /\ ResponseArrives(f) /\ Valid(f))
  /\ SF_deskVars(part = "desk" /\ Fallback)
  /\ WF_accountsVars(part = "accounts" /\ Reconcile)
  /\ \A h \in Handlers :
       WF_accountsVars(part = "accounts"
         /\ (Ensure(h) \/ InsertAgent(h) \/ WriteEntry(h) \/ LoadEntries(h)))

FollowUpSpec == FollowUpInit /\ [][FollowUpNext]_followUpVars /\ FollowUpFairness

\* Types of the variables of both components.
FollowUpTypeOK == DeskTypeOK /\ AccountsTypeOK

\* A desk that is signed in sees every change, see DeskCatchesUp.
DeskRecovers == part = "desk" => DeskCatchesUp

\* The phone of a deactivated user is cut off, see RevokedPhoneIsCutOff, and
\* that of any other user has its file, see EntitledPhoneHasEntry.
DirectoryFollowsAccount ==
  part = "accounts" => RevokedPhoneIsCutOff /\ EntitledPhoneHasEntry
=============================================================================
