--------------------------- MODULE AgentAccounts ---------------------------
(***************************************************************************)
(* One user's account and what follows from it outside the database: the   *)
(* tokens of their sessions (auth/routes.ts, auth/tokens.ts) and the SIP   *)
(* credentials of their phones, which are files that FreeSWITCH loads      *)
(* (users.ts, freeswitch/provisioning.ts, dashboard/supervisor.ts).        *)
(*                                                                         *)
(* A transaction is one step; everything after its commit, and every file  *)
(* and every command, is a step of its own, interleaved with the other     *)
(* requests and with the reconciler of the directory.                      *)
(***************************************************************************)
EXTENDS Naturals, FiniteSets

CONSTANTS Handlers,      \* requests under way at a time
          Phones,        \* which of the user's phones: agent, supervisor
          MaxUpdates,    \* bound on changes of the account
          MaxOutages     \* bound on failed files, commands and restarts

ASSUME AccountsAssumption ==
  /\ Phones \subseteq {"agent", "supervisor"}
  /\ MaxUpdates \in Nat /\ MaxOutages \in Nat

VARIABLES account,     \* the row of users
          endpoint,    \* phones that have a row with credentials
          tokens,      \* tokens that have been issued
          entry,       \* files of the directory
          loaded,      \* what FreeSWITCH has read of them
          registered,  \* the phones that are registered with FreeSWITCH
          errandOf,    \* per request: where it is, and for which phones
          reconciler,  \* the same for the periodic reconciliation
          updates, outages

directoryVars == <<entry, loaded, registered>>
accountsVars == <<account, endpoint, tokens, directoryVars, errandOf,
                  reconciler, updates, outages>>

\* What a token says: the version of the account when its owner logged in;
\* the password they gave and the number of deactivations until then are
\* recorded for the properties.
Credentials == [version |-> account.version, password |-> account.password,
                closed |-> account.closed]
NoToken == [version |-> 1, password |-> 1, closed |-> 0]
NoErrand == [at |-> "idle", phones |-> {}, asks |-> FALSE, token |-> NoToken]
Steps == {"idle", "issue", "ensure", "insert", "write", "rewrite", "load",
          "remove", "reload", "flush"}
ReconcilerSteps == {"idle", "write", "select", "remove", "reload", "flush"}

Entitled(p) == /\ account.made /\ account.active /\ p \in endpoint
               /\ p = "supervisor" => account.admin
Disentitled(p) == p \in endpoint /\ ~Entitled(p)

\* requireUser.
TokenHolds(token) == account.active /\ account.version = token.version

Outage == outages < MaxOutages /\ outages' = outages + 1
To(r, step) == errandOf' = [errandOf EXCEPT ![r].at = step]
Rests(r) == errandOf' = [errandOf EXCEPT ![r] = NoErrand]
AwaitsIn(r, step) == errandOf[r].at = step
StartsErrand(r, step, phones, asks) ==
  errandOf' = [errandOf EXCEPT ![r] =
    [NoErrand EXCEPT !.at = step, !.phones = phones, !.asks = asks]]

AccountsInit ==
  /\ account = [made |-> FALSE, active |-> TRUE, admin |-> FALSE,
                version |-> 1, password |-> 1, closed |-> 0]
  /\ endpoint = {} /\ tokens = {}
  /\ entry = {} /\ loaded = {} /\ registered = {}
  /\ errandOf = [r \in Handlers |-> NoErrand]
  /\ reconciler = [at |-> "idle", phones |-> {}]
  /\ updates = 0 /\ outages = 0

-----------------------------------------------------------------------------
(* Sessions.                                                               *)

\* POST /auth/login reads the row and verifies the password ...
Login(r) ==
  /\ AwaitsIn(r, "idle")
  /\ account.made /\ account.active
  /\ errandOf' = [errandOf EXCEPT ![r] =
                    [NoErrand EXCEPT !.at = "issue", !.token = Credentials]]
  /\ UNCHANGED <<account, endpoint, tokens, directoryVars, reconciler, updates, outages>>

\* Faulty: the version is that of the moment of signing.
IssueForNewVersion(r) ==
  /\ AwaitsIn(r, "issue")
  /\ tokens' = tokens \cup {[errandOf[r].token EXCEPT !.version = account.version]}
  /\ Rests(r)
  /\ UNCHANGED <<account, endpoint, directoryVars, reconciler, updates, outages>>

\* ... and signs a token for the version that it read.
Issue(r) ==
  /\ AwaitsIn(r, "issue")
  /\ tokens' = tokens \cup {errandOf[r].token}
  /\ Rests(r)
  /\ UNCHANGED <<account, endpoint, directoryVars, reconciler, updates, outages>>

-----------------------------------------------------------------------------
(* Changes of the account, by an administrator.                            *)

\* createUserWithOptionalAgent.
CreateUser(r) ==
  /\ AwaitsIn(r, "idle") /\ ~account.made
  /\ \E admin \in BOOLEAN :
       /\ account' = [account EXCEPT !.made = TRUE, !.admin = admin]
       /\ IF admin \/ "agent" \notin Phones
          THEN UNCHANGED <<endpoint, errandOf>>
          ELSE /\ endpoint' = {"agent"}
               /\ StartsErrand(r, "write", {"agent"}, FALSE)
  /\ UNCHANGED <<tokens, directoryVars, reconciler, updates, outages>>

Changed == updates < MaxUpdates /\ updates' = updates + 1

\* updateUser: a new password or a deactivation revokes the sessions; who
\* loses a phone has its file removed, who stays active is given one.
UpdateUser(r) ==
  /\ AwaitsIn(r, "idle") /\ account.made
  /\ Changed
  /\ \E active, admin, newPassword \in BOOLEAN :
       LET deactivated == account.active /\ ~active
           lost == IF deactivated THEN endpoint
                   ELSE IF account.admin /\ ~admin THEN endpoint \cap {"supervisor"}
                   ELSE {}
       IN /\ account' = [account EXCEPT
                !.active = active, !.admin = admin,
                !.password = IF newPassword THEN @ + 1 ELSE @,
                !.closed = IF deactivated THEN @ + 1 ELSE @,
                !.version = IF newPassword \/ deactivated THEN @ + 1 ELSE @]
          /\ IF lost # {} THEN StartsErrand(r, "remove", lost, FALSE)
             ELSE IF active /\ "agent" \in Phones
                  THEN StartsErrand(r, "ensure", {"agent"}, FALSE)
                  ELSE UNCHANGED errandOf
  /\ UNCHANGED <<endpoint, tokens, directoryVars, reconciler, outages>>

\* deleteUser, which also finds users who are no longer active.
DeleteUser(r) ==
  /\ AwaitsIn(r, "idle") /\ account.made
  /\ Changed
  /\ account' = [account EXCEPT !.active = FALSE, !.version = @ + 1,
                                !.closed = @ + 1]
  /\ StartsErrand(r, "remove", endpoint, FALSE)
  /\ UNCHANGED <<endpoint, tokens, directoryVars, reconciler, outages>>

-----------------------------------------------------------------------------
(* Credentials for a phone.                                                *)

\* A page of the user's asks for the agent's credentials, or opens the desk.
AskForAgent(r) ==
  /\ AwaitsIn(r, "idle") /\ "agent" \in Phones
  /\ \E token \in tokens : TokenHolds(token)
  /\ \E asks \in BOOLEAN : StartsErrand(r, "ensure", {"agent"}, asks)
  /\ UNCHANGED <<account, endpoint, tokens, directoryVars, reconciler, updates, outages>>

\* getSupervisorProvisioning for an administrator; their endpoint is made
\* at most once.
AskForSupervisor(r) ==
  /\ AwaitsIn(r, "idle") /\ "supervisor" \in Phones
  /\ account.admin /\ \E token \in tokens : TokenHolds(token)
  /\ endpoint' = endpoint \cup {"supervisor"}
  /\ StartsErrand(r, "rewrite", {"supervisor"}, TRUE)
  /\ UNCHANGED <<account, tokens, directoryVars, reconciler, updates, outages>>

\* ensureAgentForUser, whether or not the user is active by now.
Ensure(r) ==
  /\ AwaitsIn(r, "ensure")
  /\ To(r, IF "agent" \in endpoint THEN "write" ELSE "insert")
  /\ UNCHANGED <<account, endpoint, tokens, directoryVars, reconciler, updates, outages>>

\* The unique index of agents.user_id fails the second of two inserts.
InsertAgent(r) ==
  /\ AwaitsIn(r, "insert")
  /\ IF "agent" \in endpoint THEN Rests(r) ELSE To(r, "write")
  /\ endpoint' = endpoint \cup {"agent"}
  /\ UNCHANGED <<account, tokens, directoryVars, reconciler, updates, outages>>

\* provisionAgentDirectory; getSoftphoneProvisioningForUser calls it twice.
WriteEntry(r) ==
  /\ \/ AwaitsIn(r, "write") /\ IF errandOf[r].asks THEN To(r, "rewrite") ELSE Rests(r)
     \/ AwaitsIn(r, "rewrite") /\ To(r, "load")
  /\ entry' = entry \cup errandOf[r].phones
  /\ UNCHANGED <<account, endpoint, tokens, loaded, registered, reconciler,
                 updates, outages>>

\* reloadAgentDirectories.
LoadEntries(r) ==
  /\ AwaitsIn(r, "load")
  /\ loaded' = entry
  /\ Rests(r)
  /\ UNCHANGED <<account, endpoint, tokens, entry, registered, reconciler,
                 updates, outages>>

-----------------------------------------------------------------------------
(* Removal of a phone: deleteAgentDirectory, then                          *)
(* refreshDeletedAgentRegistrations, whose commands fail one by one.       *)

RemoveEntries(r) ==
  /\ AwaitsIn(r, "remove")
  /\ entry' = entry \ errandOf[r].phones
  /\ IF errandOf[r].phones = {} THEN Rests(r) ELSE To(r, "reload")
  /\ UNCHANGED <<account, endpoint, tokens, loaded, registered, reconciler,
                 updates, outages>>

Reload(r) ==
  /\ AwaitsIn(r, "reload")
  /\ \/ loaded' = entry /\ UNCHANGED outages
     \/ Outage /\ UNCHANGED loaded
  /\ To(r, "flush")
  /\ UNCHANGED <<account, endpoint, tokens, entry, registered, reconciler, updates>>

Flush(r) ==
  /\ AwaitsIn(r, "flush")
  /\ \/ registered' = registered \ errandOf[r].phones /\ UNCHANGED outages
     \/ Outage /\ UNCHANGED registered
  /\ Rests(r)
  /\ UNCHANGED <<account, endpoint, tokens, entry, loaded, reconciler, updates>>

\* A file or a command fails and ends the request.
RequestFails(r) ==
  /\ errandOf[r].at \in {"write", "rewrite", "load", "remove"}
  /\ Outage
  /\ IF AwaitsIn(r, "remove")
     THEN \E removed \in SUBSET errandOf[r].phones : entry' = entry \ removed
     ELSE UNCHANGED entry
  /\ Rests(r)
  /\ UNCHANGED <<account, endpoint, tokens, loaded, registered, reconciler, updates>>

-----------------------------------------------------------------------------
(* reconcileAgentDirectories, every 60 seconds.                            *)

ReconcilerGoes(step, phones) == reconciler' = [at |-> step, phones |-> phones]

\* provisionAllAgentDirectories: the rows are read once, then written.
ReconcileReads ==
  /\ reconciler.at = "idle"
  /\ ReconcilerGoes("write", {p \in Phones : Entitled(p)})
  /\ UNCHANGED <<account, endpoint, tokens, directoryVars, errandOf, updates, outages>>

ReconcileWrites ==
  /\ reconciler.at = "write"
  /\ \/ /\ reconciler.phones = {} /\ ReconcilerGoes("select", {})
        /\ UNCHANGED entry
     \/ \E p \in reconciler.phones :
          /\ entry' = entry \cup {p}
          /\ ReconcilerGoes("write", reconciler.phones \ {p})
  /\ UNCHANGED <<account, endpoint, tokens, loaded, registered, errandOf,
                 updates, outages>>

\* The rows whose user may not have a phone.
ReconcileSelects ==
  /\ reconciler.at = "select"
  /\ LET gone == {p \in Phones : Disentitled(p)} IN
       ReconcilerGoes(IF gone = {} THEN "idle" ELSE "remove", gone)
  /\ UNCHANGED <<account, endpoint, tokens, directoryVars, errandOf, updates, outages>>

\* Faulty: FreeSWITCH is not told.
ReconcileRemovesOnly ==
  /\ reconciler.at = "remove"
  /\ entry' = entry \ reconciler.phones
  /\ ReconcilerGoes("idle", {})
  /\ UNCHANGED <<account, endpoint, tokens, loaded, registered, errandOf,
                 updates, outages>>

ReconcileRemoves ==
  /\ reconciler.at = "remove"
  /\ entry' = entry \ reconciler.phones
  /\ ReconcilerGoes("reload", reconciler.phones)
  /\ UNCHANGED <<account, endpoint, tokens, loaded, registered, errandOf,
                 updates, outages>>

ReconcileRefreshes ==
  /\ \/ /\ reconciler.at = "reload"
        /\ \/ loaded' = entry /\ UNCHANGED outages
           \/ Outage /\ UNCHANGED loaded
        /\ ReconcilerGoes("flush", reconciler.phones)
        /\ UNCHANGED registered
     \/ /\ reconciler.at = "flush"
        /\ \/ registered' = registered \ reconciler.phones /\ UNCHANGED outages
           \/ Outage /\ UNCHANGED registered
        /\ ReconcilerGoes("idle", {})
        /\ UNCHANGED loaded
  /\ UNCHANGED <<account, endpoint, tokens, entry, errandOf, updates>>

\* A file that cannot be written or removed ends this reconciliation.
ReconcileFails ==
  /\ reconciler.at \in {"write", "remove"}
  /\ Outage
  /\ ReconcilerGoes("idle", {})
  /\ UNCHANGED <<account, endpoint, tokens, directoryVars, errandOf, updates>>

Reconcile == ReconcileReads \/ ReconcileWrites \/ ReconcileSelects
             \/ ReconcileRemoves \/ ReconcileRefreshes

-----------------------------------------------------------------------------
(* The process and FreeSWITCH.                                             *)

\* The process restarts: what it was doing is forgotten.
Restart ==
  /\ Outage
  /\ errandOf' = [r \in Handlers |-> NoErrand]
  /\ ReconcilerGoes("idle", {})
  /\ UNCHANGED <<account, endpoint, tokens, directoryVars, updates>>

\* A phone that has its credentials registers while FreeSWITCH knows them.
Register(p) ==
  /\ p \in loaded \ registered
  /\ registered' = registered \cup {p}
  /\ UNCHANGED <<account, endpoint, tokens, entry, loaded, errandOf, reconciler,
                 updates, outages>>

AccountsNext ==
  \/ \E r \in Handlers :
       \/ Login(r) \/ Issue(r)
       \/ CreateUser(r) \/ UpdateUser(r) \/ DeleteUser(r)
       \/ AskForAgent(r) \/ AskForSupervisor(r) \/ Ensure(r) \/ InsertAgent(r)
       \/ WriteEntry(r) \/ LoadEntries(r)
       \/ RemoveEntries(r) \/ Reload(r) \/ Flush(r) \/ RequestFails(r)
  \/ Reconcile \/ ReconcileFails \/ Restart
  \/ \E p \in Phones : Register(p)

AccountsSpec == AccountsInit /\ [][AccountsNext]_accountsVars

\* The timer of the reconciler goes on, requests that write files return.
AccountsFairness ==
  /\ WF_accountsVars(Reconcile)
  /\ \A r \in Handlers :
       WF_accountsVars(Ensure(r) \/ InsertAgent(r) \/ WriteEntry(r) \/ LoadEntries(r))

-----------------------------------------------------------------------------
(* Properties.                                                             *)

Token == [version : 1 .. MaxUpdates + 1, password : 1 .. MaxUpdates + 1,
          closed : 0 .. MaxUpdates]

\* Types of the variables.
AccountsTypeOK ==
  /\ account \in [made : BOOLEAN, active : BOOLEAN, admin : BOOLEAN,
                  version : 1 .. MaxUpdates + 1, password : 1 .. MaxUpdates + 1,
                  closed : 0 .. MaxUpdates]
  /\ endpoint \subseteq Phones /\ tokens \subseteq Token
  /\ entry \subseteq Phones /\ loaded \subseteq Phones /\ registered \subseteq Phones
  /\ errandOf \in [Handlers -> [at : Steps, phones : SUBSET Phones,
                                asks : BOOLEAN, token : Token]]
  /\ reconciler \in [at : ReconcilerSteps, phones : SUBSET Phones]
  /\ updates \in 0 .. MaxUpdates /\ outages \in 0 .. MaxOutages

\* A session that is let in belongs to somebody who gave the password that
\* is in force, after the last deactivation, also when the password changed
\* between the reading of the row and the signature of the token.
RevokedSessionStaysOut ==
  \A token \in tokens :
    TokenHolds(token) => /\ token.password = account.password
                       /\ token.closed = account.closed

\* Once the account changes no more, the directory follows it, whichever
\* request wrote or removed a file last: who may not have a phone loses the
\* file, the loaded credentials and the registration, for good.
RevokedPhoneIsCutOff ==
  \A p \in Phones :
    <>[](Disentitled(p) => p \notin entry \cup loaded \cup registered)

\* The same for the file of who may have a phone.
EntitledPhoneHasEntry ==
  \A p \in Phones : <>[](Entitled(p) => p \in entry)
=============================================================================
