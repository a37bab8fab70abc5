--------------------------- MODULE AdmissionProofs ---------------------------
(*****************************************************************************)
(* Proofs about who may log in and what may be dialed, for any requests,     *)
(* accounts, leads and numbers: a session which requireUser lets in was      *)
(* opened with the password and in the period of activity that still are in  *)
(* force; a reset or an archive spares live calls and no lead is in two      *)
(* calls; no number which has been on the list since its call was asked for  *)
(* is dialed; and an import of leads or numbers, written by chunks beside    *)
(* others, stores and reports what the loop over its rows would have.        *)
(*****************************************************************************)
EXTENDS AgentAccounts, CampaignLeads, Suppression, CsvImport, FiniteSetTheorems, TLAPS

-----------------------------------------------------------------------------
(* Accounts.  The inductive invariant speaks of the tokens that have been  *)
(* issued and of those that a login has read but not yet signed: neither   *)
(* is of a later version than the account, and one of the account's own    *)
(* version has its password and its count of deactivations.                *)

Account == [made : BOOLEAN, active : BOOLEAN, admin : BOOLEAN, version : 1 .. MaxUpdates + 1,
            password : 1 .. MaxUpdates + 1, closed : 0 .. MaxUpdates]
Wide    == [made : BOOLEAN, active : BOOLEAN, admin : BOOLEAN,
            version : Nat, password : Nat, closed : Nat]
Errand  == [at : Steps, phones : SUBSET Phones, asks : BOOLEAN, token : Token]

\* No counter of the account runs ahead of its changes.
Counted == /\ account.version <= updates + 1 /\ account.password <= updates + 1
           /\ account.closed <= updates

\* What the token says is of the account's present or of its past.
OfAccount(token) ==
  /\ token.version <= account.version
  /\ token.version = account.version =>
       token.password = account.password /\ token.closed = account.closed

\* Only where agents have a phone is an agent made.
MakesAgent == \A r \in Handlers : errandOf[r].at \in {"ensure", "insert"} => "agent" \in Phones

AInv == /\ AccountsTypeOK /\ Counted /\ MakesAgent
        /\ \A token \in tokens : OfAccount(token)
        /\ \A r \in Handlers : errandOf[r].at = "issue" => OfAccount(errandOf[r].token)

-----------------------------------------------------------------------------
(* A counter that goes up by at most one with a change stays within what   *)
(* the changes allow.                                                      *)

LEMMA CounterStaysBounded ==
  ASSUME NEW n \in 1 .. MaxUpdates + 1, NEW m \in Nat, NEW u \in Nat, NEW v \in Nat,
         MaxUpdates \in Nat, n <= u + 1, n <= m, m <= n + 1,
         v = u => m <= n, u <= v, v <= MaxUpdates
  PROVE  m \in 1 .. MaxUpdates + 1 /\ m <= v + 1
  OBVIOUS

LEMMA CountStaysBounded ==
  ASSUME NEW n \in 0 .. MaxUpdates, NEW m \in Nat, NEW u \in Nat, NEW v \in Nat,
         MaxUpdates \in Nat, n <= u, m <= n + 1,
         v = u => m <= n, u <= v, v <= MaxUpdates
  PROVE  m \in 0 .. MaxUpdates /\ m <= v
  OBVIOUS

-----------------------------------------------------------------------------
(* The steps of a request that leave the account and the tokens alone.     *)

LEMMA TypesInit == AccountsInit => AccountsTypeOK /\ Counted /\ MakesAgent
  BY AccountsAssumption
  DEF AccountsInit, AccountsTypeOK, Counted, MakesAgent, NoErrand, NoToken, Token, Steps, ReconcilerSteps

\* What a request may move on to.
LEMMA ErrandMoves ==
  ASSUME errandOf \in [Handlers -> Errand], NEW r \in Handlers
  PROVE  /\ \A step \in Steps : To(r, step) => errandOf' \in [Handlers -> Errand]
         /\ Rests(r) => errandOf' \in [Handlers -> Errand]
         /\ \A step \in Steps, phones \in SUBSET Phones, asks \in BOOLEAN :
              StartsErrand(r, step, phones, asks) => errandOf' \in [Handlers -> Errand]
<1>1. NoToken \in Token
  BY AccountsAssumption DEF NoToken, Token
<1>2. NoErrand \in Errand
  BY <1>1 DEF NoErrand, Errand, Steps
<1>3. ASSUME NEW step \in Steps, To(r, step) PROVE errandOf' \in [Handlers -> Errand]
  BY <1>3 DEF To, Errand
<1>4. ASSUME Rests(r) PROVE errandOf' \in [Handlers -> Errand]
  BY <1>2, <1>4 DEF Rests
<1>5. ASSUME NEW step \in Steps, NEW phones \in SUBSET Phones, NEW asks \in BOOLEAN,
             StartsErrand(r, step, phones, asks)
      PROVE  errandOf' \in [Handlers -> Errand]
  BY <1>1, <1>5 DEF StartsErrand, NoErrand, Errand
<1> QED BY <1>3, <1>4, <1>5

\* A request that goes on, ends or starts elsewhere than at a login leaves
\* no token to be signed that was not there before.
LEMMA NoNewLogin ==
  ASSUME NEW r \in Handlers,
         \/ \E step \in Steps \ {"issue"} : To(r, step)
         \/ Rests(r)
         \/ \E step \in Steps \ {"issue"}, phones \in SUBSET Phones, asks \in BOOLEAN :
              StartsErrand(r, step, phones, asks),
         errandOf \in [Handlers -> Errand]
  PROVE  \A h \in Handlers : errandOf'[h].at = "issue" => errandOf'[h] = errandOf[h]
<1>1. ASSUME NEW step \in Steps \ {"issue"}, To(r, step)
      PROVE  \A h \in Handlers : errandOf'[h].at = "issue" => errandOf'[h] = errandOf[h]
  BY <1>1 DEF To, Errand
<1>2. ASSUME Rests(r)
      PROVE  \A h \in Handlers : errandOf'[h].at = "issue" => errandOf'[h] = errandOf[h]
  BY <1>2 DEF Rests, NoErrand
<1>3. ASSUME NEW step \in Steps \ {"issue"}, NEW phones, NEW asks,
             StartsErrand(r, step, phones, asks)
      PROVE  \A h \in Handlers : errandOf'[h].at = "issue" => errandOf'[h] = errandOf[h]
  BY <1>3 DEF StartsErrand, NoErrand
<1> QED BY <1>1, <1>2, <1>3

-----------------------------------------------------------------------------
(* Type correctness.                                                       *)

\* The requests for phones and files.
LEMMA DirectoryTypes ==
  ASSUME AccountsTypeOK, MakesAgent, NEW r \in Handlers,
         \/ AskForAgent(r) \/ AskForSupervisor(r) \/ Ensure(r) \/ InsertAgent(r)
         \/ WriteEntry(r) \/ LoadEntries(r) \/ RemoveEntries(r) \/ Reload(r) \/ Flush(r)
         \/ RequestFails(r)
  PROVE  /\ AccountsTypeOK' /\ MakesAgent' /\ UNCHANGED <<account, tokens, updates>>
         /\ \A h \in Handlers : errandOf'[h].at = "issue" => errandOf'[h] = errandOf[h]
<1> DEFINE Kept == \A h \in Handlers : errandOf'[h].at = "issue" => errandOf'[h] = errandOf[h]
<1> USE ErrandMoves, NoNewLogin DEF AccountsTypeOK, Errand
<1>1. errandOf[r] \in Errand /\ errandOf \in [Handlers -> Errand]
  OBVIOUS
<1> HIDE DEF Errand
<1>2. {"ensure", "rewrite", "write", "insert", "load", "reload", "flush", "idle", "remove"}
        \subseteq Steps \ {"issue"}
  BY DEF Steps
<1>3. ASSUME AskForAgent(r) PROVE errandOf' \in [Handlers -> Errand] /\ Kept
  <2>1. PICK asks \in BOOLEAN : StartsErrand(r, "ensure", {"agent"}, asks)
    BY <1>3 DEF AskForAgent
  <2>2. {"agent"} \in SUBSET Phones
    BY <1>3 DEF AskForAgent
  <2> QED BY <1>1, <1>2, <2>1, <2>2
<1>4. ASSUME AskForSupervisor(r) PROVE errandOf' \in [Handlers -> Errand] /\ Kept
  <2>1. StartsErrand(r, "rewrite", {"supervisor"}, TRUE) /\ {"supervisor"} \in SUBSET Phones
    BY <1>4 DEF AskForSupervisor
  <2> QED BY <1>1, <1>2, <2>1
<1>5. ASSUME Ensure(r) PROVE errandOf' \in [Handlers -> Errand] /\ Kept
  <2>1. To(r, "write") \/ To(r, "insert")
    BY <1>5 DEF Ensure
  <2> QED BY <1>1, <1>2, <2>1
<1>6. ASSUME InsertAgent(r) \/ WriteEntry(r) \/ LoadEntries(r) \/ RemoveEntries(r)
             \/ Reload(r) \/ Flush(r) \/ RequestFails(r)
      PROVE  errandOf' \in [Handlers -> Errand] /\ Kept
  <2>1. \/ Rests(r)
        \/ \E step \in {"write", "rewrite", "load", "reload", "flush"} : To(r, step)
    BY <1>6 DEF InsertAgent, WriteEntry, LoadEntries, RemoveEntries, Reload, Flush, RequestFails
  <2> QED BY <1>1, <1>2, <2>1
<1>7. errandOf' \in [Handlers -> Errand] /\ Kept
  BY <1>3, <1>4, <1>5, <1>6
<1>8. UNCHANGED <<account, tokens, reconciler, updates>>
  BY DEF AskForAgent, AskForSupervisor, Ensure, InsertAgent, WriteEntry, LoadEntries,
         RemoveEntries, Reload, Flush, RequestFails
<1>9. endpoint' \subseteq Phones
  <2>1. CASE InsertAgent(r)
    <3>1. "agent" \in Phones
      BY <2>1 DEF InsertAgent, AwaitsIn, MakesAgent
    <3> QED BY <2>1, <3>1 DEF InsertAgent
  <2>2. CASE ~InsertAgent(r)
    BY <2>2 DEF AskForAgent, AskForSupervisor, Ensure, WriteEntry, LoadEntries,
                RemoveEntries, Reload, Flush, RequestFails
  <2> QED BY <2>1, <2>2
<1>10. errandOf[r].phones \subseteq Phones
  BY <1>1 DEF Errand
<1>11. entry' \subseteq Phones /\ loaded' \subseteq Phones /\ registered' \subseteq Phones
  BY <1>10 DEF AskForAgent, AskForSupervisor, Ensure, InsertAgent, WriteEntry, LoadEntries,
               RemoveEntries, Reload, Flush, RequestFails, directoryVars
<1>12. outages' \in 0 .. MaxOutages
  <2>1. Outage \/ UNCHANGED outages
    BY DEF AskForAgent, AskForSupervisor, Ensure, InsertAgent, WriteEntry, LoadEntries,
           RemoveEntries, Reload, Flush, RequestFails
  <2> QED BY ONLY <2>1, AccountsAssumption, outages \in 0 .. MaxOutages DEF Outage
<1>13. MakesAgent'
  <2>1. CASE AskForAgent(r)
    <3>1. PICK asks \in BOOLEAN : StartsErrand(r, "ensure", {"agent"}, asks)
      BY <2>1 DEF AskForAgent
    <3> QED BY <2>1, <3>1 DEF AskForAgent, StartsErrand, MakesAgent, NoErrand
  <2>2. CASE Ensure(r)
    BY <1>1, <2>2 DEF Ensure, AwaitsIn, To, MakesAgent, Errand
  <2>3. CASE ~AskForAgent(r) /\ ~Ensure(r)
    <3>1. \/ Rests(r) \/ StartsErrand(r, "rewrite", {"supervisor"}, TRUE)
          \/ \E step \in {"write", "rewrite", "load", "reload", "flush"} : To(r, step)
      BY <2>3 DEF AskForSupervisor, InsertAgent, WriteEntry, LoadEntries, RemoveEntries, Reload,
                  Flush, RequestFails
    <3>2. CASE Rests(r)
      BY <1>1, <3>2 DEF Rests, NoErrand, MakesAgent
    <3>3. CASE StartsErrand(r, "rewrite", {"supervisor"}, TRUE)
      BY <1>1, <3>3 DEF StartsErrand, NoErrand, MakesAgent
    <3>4. ASSUME NEW step \in {"write", "rewrite", "load", "reload", "flush"}, To(r, step)
          PROVE  MakesAgent'
      BY <1>1, <3>4 DEF To, MakesAgent, Errand
    <3> QED BY <3>1, <3>2, <3>3, <3>4
  <2> QED BY <2>1, <2>2, <2>3
<1> QED BY <1>7, <1>8, <1>9, <1>11, <1>12, <1>13 DEF Errand

\* The reconciler and FreeSWITCH.
LEMMA ReconcilerTypes ==
  ASSUME AccountsTypeOK,
         \/ Reconcile \/ ReconcileFails \/ \E p \in Phones : Register(p)
  PROVE  AccountsTypeOK' /\ UNCHANGED <<account, tokens, errandOf, updates>>
<1> USE DEF AccountsTypeOK
<1> DEFINE Places == [at : ReconcilerSteps, phones : SUBSET Phones]
<1>1. ASSUME NEW step \in ReconcilerSteps, NEW phones \in SUBSET Phones,
             ReconcilerGoes(step, phones)
      PROVE  reconciler' \in Places
  BY <1>1 DEF ReconcilerGoes
<1>2. {"idle", "write", "select", "remove", "reload", "flush"} \subseteq ReconcilerSteps
  BY DEF ReconcilerSteps
<1>3. reconciler.phones \subseteq Phones
  OBVIOUS
<1>4. CASE ReconcileReads
  BY <1>1, <1>2, <1>4 DEF ReconcileReads, directoryVars
<1>5. CASE ReconcileWrites
  BY <1>1, <1>2, <1>3, <1>5 DEF ReconcileWrites
<1>6. CASE ReconcileSelects
  BY <1>1, <1>2, <1>6 DEF ReconcileSelects, directoryVars
<1>7. CASE ReconcileRemoves
  BY <1>1, <1>2, <1>3, <1>7 DEF ReconcileRemoves
<1>8. CASE ReconcileRefreshes
  <2>1. Outage \/ UNCHANGED outages
    BY <1>8 DEF ReconcileRefreshes
  <2>2. outages' \in 0 .. MaxOutages
    BY ONLY <2>1, AccountsAssumption, outages \in 0 .. MaxOutages DEF Outage
  <2>3. /\ loaded' \subseteq Phones /\ registered' \subseteq Phones
        /\ UNCHANGED <<account, endpoint, tokens, entry, errandOf, updates>>
    BY <1>8 DEF ReconcileRefreshes
  <2>4. reconciler' \in Places
    BY <1>1, <1>2, <1>3, <1>8 DEF ReconcileRefreshes
  <2> QED BY <2>2, <2>3, <2>4
<1>9. CASE ReconcileFails
  <2>1. outages' \in 0 .. MaxOutages
    BY <1>9, AccountsAssumption DEF ReconcileFails, Outage
  <2>2. UNCHANGED <<account, endpoint, tokens, entry, loaded, registered, errandOf, updates>>
    BY <1>9 DEF ReconcileFails, directoryVars
  <2>3. reconciler' \in Places
    BY <1>1, <1>2, <1>9 DEF ReconcileFails
  <2> QED BY <2>1, <2>2, <2>3
<1>10. CASE \E p \in Phones : Register(p)
  BY <1>10 DEF Register
<1> QED BY <1>4, <1>5, <1>6, <1>7, <1>8, <1>9, <1>10 DEF Reconcile

-----------------------------------------------------------------------------
(* Sessions.                                                               *)

LEMMA AccountsInitHolds == AccountsInit => AInv
  BY TypesInit DEF AccountsInit, AInv, NoErrand

\* Steps that leave the account and its tokens alone, and start no login.
LEMMA Undisturbed ==
  ASSUME AInv, AccountsTypeOK', MakesAgent', UNCHANGED <<account, tokens, updates>>,
         \A h \in Handlers : errandOf'[h].at = "issue" => errandOf'[h] = errandOf[h]
  PROVE  AInv'
  BY DEF AInv, Counted, OfAccount
\* A login reads the account's own version, and its signature comes with
\* what it read.
LEMMA LoginStep ==
  ASSUME AInv, NEW r \in Handlers, Login(r) \/ Issue(r)
  PROVE  AInv'
<1> USE DEF AInv, AccountsTypeOK, Counted, MakesAgent
<1>1. CASE Login(r)
  <2>1. Credentials \in Token /\ OfAccount(Credentials)
    BY DEF Credentials, Token, OfAccount
  <2> DEFINE row == [NoErrand EXCEPT !.at = "issue", !.token = Credentials]
  <2>2. row \in Errand /\ row.at = "issue" /\ row.token = Credentials
    BY <2>1 DEF NoErrand, Errand, Steps
  <2>3. errandOf' = [errandOf EXCEPT ![r] = row]
    BY <1>1 DEF Login
  <2>4. UNCHANGED <<account, endpoint, tokens, entry, loaded, registered, reconciler, updates, outages>>
    BY <1>1 DEF Login, directoryVars
  <2>5. errandOf' \in [Handlers -> Errand]
    BY <2>2, <2>3 DEF Errand
  <2>6. AccountsTypeOK' /\ Counted'
    BY <2>4, <2>5 DEF Errand
  <2>7. MakesAgent'
    BY <2>2, <2>3
  <2>8. (\A h \in Handlers : errandOf[h].at = "issue" => OfAccount(errandOf[h].token))'
    BY <2>1, <2>2, <2>3, <2>4 DEF OfAccount
  <2>9. \A token \in tokens' : OfAccount(token)'
    BY <2>4 DEF OfAccount
  <2> QED BY <2>6, <2>7, <2>8, <2>9
<1>2. CASE Issue(r)
  <2>1. /\ tokens' = tokens \cup {errandOf[r].token} /\ Rests(r) /\ errandOf[r].at = "issue"
        /\ UNCHANGED <<account, endpoint, entry, loaded, registered, reconciler, updates, outages>>
    BY <1>2 DEF Issue, directoryVars, AwaitsIn
  <2>2. errandOf' \in [Handlers -> Errand]
    BY <2>1, ErrandMoves DEF Errand
  <2>3. AccountsTypeOK' /\ Counted'
    BY <2>1, <2>2 DEF Errand
  <2>4. \A h \in Handlers : errandOf'[h] = errandOf[h] \/ errandOf'[h].at = "idle"
    BY <2>1 DEF Rests, NoErrand
  <2>5. MakesAgent'
    BY <2>4
  <2>6. (\A h \in Handlers : errandOf[h].at = "issue" => OfAccount(errandOf[h].token))'
    BY <2>1, <2>4 DEF OfAccount
  <2>7. \A token \in tokens' : OfAccount(token)'
    BY <2>1 DEF OfAccount
  <2> QED BY <2>3, <2>5, <2>6, <2>7
<1> QED BY <1>1, <1>2

\* A change that leaves the account at a later version leaves every token
\* behind; one that does not leaves its password and deactivations alone.
LEMMA ChangeStep ==
  ASSUME AInv, NEW r \in Handlers, CreateUser(r) \/ UpdateUser(r) \/ DeleteUser(r)
  PROVE  AInv'
<1> USE DEF AInv, AccountsTypeOK, Counted
<1> DEFINE Kept == \A h \in Handlers : errandOf'[h].at = "issue" => errandOf'[h] = errandOf[h]
<1>1. errandOf \in [Handlers -> Errand]
  BY DEF Errand
<1>2. {"ensure", "write", "remove", "idle"} \subseteq Steps \ {"issue"}
  BY DEF Steps
<1>3. \/ UNCHANGED errandOf
      \/ StartsErrand(r, "write", {"agent"}, FALSE) /\ "agent" \in Phones
      \/ StartsErrand(r, "ensure", {"agent"}, FALSE) /\ "agent" \in Phones
      \/ \E lost \in SUBSET Phones : StartsErrand(r, "remove", lost, FALSE)
  <2>1. CASE CreateUser(r)
    BY <2>1 DEF CreateUser
  <2>2. CASE UpdateUser(r)
    BY <2>2 DEF UpdateUser
  <2>3. CASE DeleteUser(r)
    BY <2>3 DEF DeleteUser
  <2> QED BY <2>1, <2>2, <2>3
<1>4. errandOf' \in [Handlers -> Errand] /\ Kept
  <2>1. CASE UNCHANGED errandOf
    BY <1>1, <2>1
  <2>2. CASE ~UNCHANGED errandOf
    BY <1>1, <1>2, <1>3, <2>2, ErrandMoves, NoNewLogin
  <2> QED BY <2>1, <2>2
<1>5. MakesAgent'
  <2>1. CASE UNCHANGED errandOf
    BY <2>1 DEF MakesAgent
  <2>2. CASE "agent" \in Phones
    BY <2>2 DEF MakesAgent
  <2>3. ASSUME NEW lost \in SUBSET Phones, StartsErrand(r, "remove", lost, FALSE)
        PROVE  MakesAgent'
    BY <1>1, <2>3 DEF StartsErrand, NoErrand, MakesAgent
  <2> QED BY <1>3, <2>1, <2>2, <2>3
<1>6. /\ endpoint' \subseteq Phones
      /\ UNCHANGED <<tokens, entry, loaded, registered, reconciler, outages>>
  BY DEF CreateUser, UpdateUser, DeleteUser, directoryVars
<1>7. /\ account' \in Wide /\ updates' \in Nat /\ updates <= updates' /\ updates' <= MaxUpdates
      /\ account'.version <= account.version + 1 /\ account.version <= account'.version
      /\ account'.password <= account.password + 1 /\ account.password <= account'.password
      /\ account'.closed <= account.closed + 1
      /\ updates' = updates => /\ account'.version = account.version
                               /\ account'.password = account.password
                               /\ account'.closed = account.closed
      /\ account'.version = account.version =>
           account'.password = account.password /\ account'.closed = account.closed
  <2>0. /\ account \in Wide /\ updates \in Nat /\ MaxUpdates \in Nat /\ updates <= MaxUpdates
        /\ account.version + 1 \in Nat /\ account.password + 1 \in Nat /\ account.closed + 1 \in Nat
    BY AccountsAssumption DEF Wide
  <2> DEFINE Fields(v, p, c) == /\ account' \in Wide /\ account'.version = v
                                /\ account'.password = p /\ account'.closed = c
  <2>1. CASE CreateUser(r)
    <3>1. PICK admin \in BOOLEAN : account' = [account EXCEPT !.made = TRUE, !.admin = admin]
      BY <2>1 DEF CreateUser
    <3>2. UNCHANGED updates
      BY <2>1 DEF CreateUser
    <3>3. Fields(account.version, account.password, account.closed)
      BY ONLY <2>0, <3>1 DEF Wide
    <3> QED BY ONLY <2>0, <3>2, <3>3 DEF Wide
  <2>2. CASE UpdateUser(r)
    <3>1. PICK active \in BOOLEAN, admin \in BOOLEAN, newPassword \in BOOLEAN :
            account' = [account EXCEPT
                !.active = active, !.admin = admin,
                !.password = IF newPassword THEN @ + 1 ELSE @,
                !.closed = IF account.active /\ ~active THEN @ + 1 ELSE @,
                !.version = IF newPassword \/ (account.active /\ ~active) THEN @ + 1 ELSE @]
      BY ZenonT(60), <2>2 DEF UpdateUser
    <3>2. updates < MaxUpdates /\ updates' = updates + 1
      BY <2>2 DEF UpdateUser, Changed
    <3>3. \E v \in {account.version, account.version + 1} :
          \E p \in {account.password, account.password + 1}, c \in {account.closed, account.closed + 1} :
            Fields(v, p, c) /\ (v = account.version => p = account.password /\ c = account.closed)
      <4>1. CASE newPassword /\ account.active /\ ~active
        <5>1. Fields(account.version + 1, account.password + 1, account.closed + 1)
          BY ONLY <2>0, <3>1, <4>1 DEF Wide
        <5> QED BY ONLY <2>0, <5>1 DEF Wide
      <4>2. CASE newPassword /\ ~(account.active /\ ~active)
        <5>1. Fields(account.version + 1, account.password + 1, account.closed)
          BY ONLY <2>0, <3>1, <4>2 DEF Wide
        <5> QED BY ONLY <2>0, <5>1 DEF Wide
      <4>3. CASE ~newPassword /\ account.active /\ ~active
        <5>1. Fields(account.version + 1, account.password, account.closed + 1)
          BY ONLY <2>0, <3>1, <4>3 DEF Wide
        <5> QED BY ONLY <2>0, <5>1 DEF Wide
      <4>4. CASE ~newPassword /\ ~(account.active /\ ~active)
        <5>1. Fields(account.version, account.password, account.closed)
          BY ONLY <2>0, <3>1, <4>4 DEF Wide
        <5> QED BY ONLY <2>0, <5>1 DEF Wide
      <4> QED BY <4>1, <4>2, <4>3, <4>4
    <3> QED BY ONLY <2>0, <3>2, <3>3 DEF Wide
  <2>3. CASE DeleteUser(r)
    <3>1. updates < MaxUpdates /\ updates' = updates + 1
      BY <2>3 DEF DeleteUser, Changed
    <3>2. account' = [account EXCEPT !.active = FALSE, !.version = @ + 1, !.closed = @ + 1]
      BY <2>3 DEF DeleteUser
    <3>3. Fields(account.version + 1, account.password, account.closed + 1)
      BY ONLY <2>0, <3>2 DEF Wide
    <3> QED BY ONLY <2>0, <3>1, <3>3 DEF Wide
  <2> QED BY <2>1, <2>2, <2>3
<1>12. account' \in Account /\ Counted' /\ updates' \in 0 .. MaxUpdates
  <2>1. /\ account.version \in 1 .. MaxUpdates + 1 /\ account.password \in 1 .. MaxUpdates + 1
        /\ account.closed \in 0 .. MaxUpdates
        /\ updates \in 0 .. MaxUpdates /\ MaxUpdates \in Nat
        /\ account.version <= updates + 1 /\ account.password <= updates + 1
        /\ account.closed <= updates
    BY AccountsAssumption
  <2>2. /\ account'.version \in Nat /\ account'.password \in Nat /\ account'.closed \in Nat
        /\ account'.made \in BOOLEAN /\ account'.active \in BOOLEAN /\ account'.admin \in BOOLEAN
    BY <1>7 DEF Wide
  <2>3. account'.version \in 1 .. MaxUpdates + 1 /\ account'.version <= updates' + 1
    BY <1>7, <2>1, <2>2, CounterStaysBounded
  <2>4. account'.password \in 1 .. MaxUpdates + 1 /\ account'.password <= updates' + 1
    BY <1>7, <2>1, <2>2, CounterStaysBounded
  <2>5. account'.closed \in 0 .. MaxUpdates /\ account'.closed <= updates'
    BY <1>7, <2>1, <2>2, CountStaysBounded
  <2>6. updates' \in 0 .. MaxUpdates
    BY <1>7, <2>1
  <2>7. Counted'
    BY <2>3, <2>4, <2>5 DEF Counted
  <2>8. account' \in Account
    BY ONLY <1>7, <2>3, <2>4, <2>5 DEF Account, Wide
  <2> QED BY <2>6, <2>7, <2>8
<1>8. AccountsTypeOK'
  BY <1>4, <1>6, <1>12 DEF Account, Errand
<1>9. \A token \in Token : OfAccount(token) => OfAccount(token)'
  <2>1. account.version \in Nat /\ account'.version \in Nat /\ account.version <= account'.version
    BY <1>7, AccountsAssumption DEF Wide, Account
  <2>2. SUFFICES ASSUME NEW token \in Token, OfAccount(token)
                 PROVE  OfAccount(token)'
    OBVIOUS
  <2>3. token.version \in Nat /\ token.version <= account.version
    BY <2>2, AccountsAssumption DEF OfAccount, Token
  <2>4. token.version <= account'.version
    BY <2>1, <2>3
  <2>5. ASSUME token.version = account'.version
        PROVE  token.password = account'.password /\ token.closed = account'.closed
    <3>1. account'.version = account.version
      BY <2>1, <2>3, <2>5
    <3> QED BY <1>7, <2>2, <2>5, <3>1 DEF OfAccount
  <2> QED BY <2>4, <2>5 DEF OfAccount
<1>10. \A token \in tokens' : OfAccount(token)'
  BY <1>6, <1>9
<1>11. (\A h \in Handlers : errandOf[h].at = "issue" => OfAccount(errandOf[h].token))'
  BY <1>1, <1>4, <1>9 DEF Errand
<1> QED BY <1>5, <1>8, <1>10, <1>11, <1>12

LEMMA AccountsStep == AInv /\ [AccountsNext]_accountsVars => AInv'
<1> SUFFICES ASSUME AInv, [AccountsNext]_accountsVars PROVE AInv'
  OBVIOUS
<1>1. ASSUME NEW r \in Handlers,
             \/ AskForAgent(r) \/ AskForSupervisor(r) \/ Ensure(r) \/ InsertAgent(r)
             \/ WriteEntry(r) \/ LoadEntries(r) \/ RemoveEntries(r) \/ Reload(r) \/ Flush(r)
             \/ RequestFails(r)
      PROVE  AInv'
  BY <1>1, DirectoryTypes, Undisturbed DEF AInv
<1>2. CASE Reconcile \/ ReconcileFails \/ \E p \in Phones : Register(p)
  <2>1. AccountsTypeOK' /\ UNCHANGED <<account, tokens, errandOf, updates>>
    BY <1>2, ReconcilerTypes DEF AInv
  <2>2. MakesAgent'
    BY <2>1 DEF AInv, MakesAgent
  <2> QED BY <2>1, <2>2, Undisturbed
<1>3. CASE Restart
  <2>1. /\ errandOf' = [h \in Handlers |-> NoErrand] /\ ReconcilerGoes("idle", {}) /\ Outage
        /\ UNCHANGED <<account, endpoint, tokens, entry, loaded, registered, updates>>
    BY <1>3 DEF Restart, directoryVars
  <2>2. NoErrand \in Errand
    BY AccountsAssumption DEF NoErrand, NoToken, Errand, Token, Steps
  <2>3. reconciler' \in [at : ReconcilerSteps, phones : SUBSET Phones]
    BY <2>1 DEF ReconcilerGoes, ReconcilerSteps
  <2>4. outages' \in 0 .. MaxOutages
    BY <2>1, AccountsAssumption DEF Outage, AInv, AccountsTypeOK
  <2>5. AccountsTypeOK'
    BY <2>1, <2>2, <2>3, <2>4 DEF AInv, AccountsTypeOK, Errand
  <2> QED BY <2>1, <2>5, Undisturbed DEF NoErrand, MakesAgent
<1>4. CASE UNCHANGED accountsVars
  BY <1>4 DEF accountsVars, directoryVars, AInv, AccountsTypeOK, Counted, MakesAgent, OfAccount
<1> QED BY <1>1, <1>2, <1>3, <1>4, LoginStep, ChangeStep DEF AccountsNext

-----------------------------------------------------------------------------

\* The variables keep their types, and no counter passes its bound.
THEOREM AccountsTypeCorrect == AccountsSpec => []AccountsTypeOK
<1>1. AInv => AccountsTypeOK BY DEF AInv
<1> QED BY <1>1, AccountsInitHolds, AccountsStep, PTL DEF AccountsSpec

\* Whatever logins, changes of the account, restarts and reconciliations
\* come in whatever order: requireUser (auth/routes.ts) lets nobody in with
\* a token from before the last new password or deactivation, also when it
\* was signed after it.
THEOREM RevokedSessionsStayOut == AccountsSpec => []RevokedSessionStaysOut
<1>1. AInv => RevokedSessionStaysOut
  BY DEF AInv, OfAccount, RevokedSessionStaysOut, TokenHolds
<1> QED BY <1>1, AccountsInitHolds, AccountsStep, PTL DEF AccountsSpec

-----------------------------------------------------------------------------
(* Leads.  The inductive invariant says what each lock stands for: a row   *)
(* of contacts is held by the caller who selected it, the campaign is      *)
(* shared by the callers whose call is inserted, and while it is locked    *)
(* for update there are none of these; the check for active calls then     *)
(* keeps its meaning until the reform commits.                             *)

Campaign == [status : {"active", "paused", "archived"}, update : BOOLEAN,
             shared : SUBSET Callers]
Lead     == [status : {"new", "calling", "completed"}, attempts : 0 .. (MaxDials + 1),
             holder : Callers \cup {NoHolder, Reformer}]
Caller   == [at : {"idle", "selected", "inserted", "calling"}, lead : Leads \cup {NoLead},
             confirmed : BOOLEAN]
Reform   == [at : {"idle", "check", "update"}, kind : {"none", "reset", "archive"},
             todo : SUBSET Leads, before : {<<>>} \cup [Leads -> Lead]]

LeadsTyped ==
  /\ campaign \in Campaign
  /\ lead \in [Leads -> Lead]
  /\ caller \in [Callers -> Caller]
  /\ reform \in Reform
  /\ reform.at = "update" => reform.before \in [Leads -> Lead]

\* What one caller may count on.
CallerInv(r) ==
  /\ caller[r].at # "idle" => caller[r].lead \in Leads
  /\ caller[r].at \in {"selected", "inserted"} =>
       /\ lead[caller[r].lead].holder = r
       /\ lead[caller[r].lead].status # "calling"
       /\ ~caller[r].confirmed => lead[caller[r].lead].attempts < MaxDials
  /\ caller[r].at = "calling" =>
       /\ lead[caller[r].lead].status = "calling"
       /\ ~caller[r].confirmed => lead[caller[r].lead].attempts <= MaxDials
  /\ caller[r].at = "inserted" => r \in campaign.shared /\ reform.at = "idle"
  /\ caller[r].at = "calling" => reform.at # "update"

\* No two callers have one lead.
Exclusive ==
  \A r, o \in Callers :
    r # o /\ caller[r].at # "idle" /\ caller[o].at # "idle" => caller[r].lead # caller[o].lead

LInv == /\ LeadsTyped /\ Exclusive
        /\ campaign.update = (reform.at # "idle")
        /\ \A r \in Callers : CallerInv(r)

-----------------------------------------------------------------------------

LEMMA IdleIsTyped == NoReform \in Reform /\ NotCalling \in Caller
  BY DEF NoReform, Reform, NotCalling, Caller

LEMMA NoDialsYet == 0 \in 0 .. (MaxDials + 1)
  BY LeadsAssumption

LEMMA LInvInit == LeadsInit => LInv
<1> SUFFICES ASSUME LeadsInit PROVE LInv
  OBVIOUS
<1>1. campaign \in Campaign /\ campaign.update = FALSE
  BY DEF LeadsInit, Campaign
<1>2. lead \in [Leads -> Lead]
  BY NoDialsYet DEF LeadsInit, Lead
<1>3. caller \in [Callers -> Caller] /\ \A r \in Callers : caller[r].at = "idle"
  BY IdleIsTyped DEF LeadsInit, NotCalling
<1>4. reform \in Reform /\ reform.at = "idle"
  BY IdleIsTyped DEF LeadsInit, NoReform
<1> QED BY <1>1, <1>2, <1>3, <1>4 DEF LInv, LeadsTyped, Exclusive, CallerInv

LEMMA SelectLeadStep ==
  ASSUME LInv, NEW r \in Callers, NEW k \in Leads, SelectLead(r, k)
  PROVE  LInv'
<1>1. PICK confirmed \in BOOLEAN :
        /\ NextCallable(k) \/ ChosenCallable(k, confirmed)
        /\ caller' = [caller EXCEPT ![r] = [at |-> "selected", lead |-> k,
                        confirmed |-> confirmed /\ lead[k].status = "completed"]]
  BY DEF SelectLead
<1>2. /\ caller[r].at = "idle" /\ lead' = [lead EXCEPT ![k].holder = r]
      /\ UNCHANGED <<campaign, reform>>
  BY DEF SelectLead
<1>3. /\ lead[k].status # "calling" /\ lead[k].holder = NoHolder
      /\ lead[k].status = "completed" => confirmed \/ lead[k].attempts < MaxDials
      /\ lead[k].status # "completed" => lead[k].attempts < MaxDials
  BY <1>1 DEF NextCallable, ChosenCallable
<1>4. LeadsTyped'
  BY <1>1, <1>2 DEF LInv, LeadsTyped, Caller, Lead
<1>5. \A o \in Callers : caller[o].at # "idle" => caller[o].lead # k \/ caller[o].at = "calling"
  BY <1>3, LeadsAssumption DEF LInv, LeadsTyped, Caller, CallerInv, NoHolder
<1>6. \A o \in Callers : caller[o].at # "idle" => caller[o].lead # k
  BY <1>3, <1>5 DEF LInv, CallerInv
<1>7. Exclusive'
  BY <1>1, <1>6 DEF LInv, Exclusive, LeadsTyped
<1>8. ASSUME NEW o \in Callers PROVE CallerInv(o)'
  <2>1. CASE o = r
    <3>1. caller'[r].at = "selected" /\ caller'[r].lead = k
          /\ caller'[r].confirmed = (confirmed /\ lead[k].status = "completed")
      BY <1>1 DEF LInv, LeadsTyped
    <3>2. /\ lead'[k].holder = r /\ lead'[k].status = lead[k].status
          /\ lead'[k].attempts = lead[k].attempts
      BY <1>2 DEF LInv, LeadsTyped, Lead
    <3> QED BY <1>3, <2>1, <3>1, <3>2 DEF CallerInv
  <2>2. CASE o # r
    <3>1. caller'[o] = caller[o]
      BY <1>1, <2>2 DEF LInv, LeadsTyped
    <3>2. caller[o].at # "idle" => lead'[caller[o].lead] = lead[caller[o].lead]
      BY <1>2, <1>6 DEF LInv, LeadsTyped, CallerInv
    <3> QED BY ZenonT(60), <1>2, <3>1, <3>2 DEF LInv, CallerInv
  <2> QED BY <2>1, <2>2
<1> QED BY <1>2, <1>4, <1>7, <1>8 DEF LInv

LEMMA InsertCallStep ==
  ASSUME LInv, NEW r \in Callers, InsertCall(r)
  PROVE  LInv'
<1>1. /\ caller[r].at = "selected" /\ ~campaign.update
      /\ campaign' = [campaign EXCEPT !.shared = @ \cup {r}]
      /\ caller' = [caller EXCEPT ![r].at = "inserted"]
      /\ UNCHANGED <<lead, reform>>
  BY DEF InsertCall
<1>2. LeadsTyped'
  BY <1>1 DEF LInv, LeadsTyped, Campaign, Caller
<1>3. Exclusive'
  BY <1>1 DEF LInv, LeadsTyped, Caller, Exclusive
<1>4. campaign'.update = campaign.update /\ campaign'.shared = campaign.shared \cup {r}
  BY <1>1 DEF LInv, LeadsTyped, Campaign
<1>5. ASSUME NEW o \in Callers PROVE CallerInv(o)'
  <2>1. CASE o = r
    <3>1. /\ caller'[r].at = "inserted" /\ caller'[r].lead = caller[r].lead
          /\ caller'[r].confirmed = caller[r].confirmed
      BY <1>1 DEF LInv, LeadsTyped, Caller
    <3>2. reform.at = "idle" /\ r \in campaign'.shared
      BY <1>1, <1>4 DEF LInv
    <3> QED BY <1>1, <2>1, <3>1, <3>2 DEF LInv, CallerInv
  <2>2. CASE o # r
    <3>1. caller'[o] = caller[o]
      BY <1>1, <2>2 DEF LInv, LeadsTyped
    <3> QED BY <1>1, <1>4, <3>1 DEF LInv, CallerInv
  <2> QED BY <2>1, <2>2
<1> QED BY <1>1, <1>2, <1>3, <1>4, <1>5 DEF LInv

LEMMA CommitCallStep ==
  ASSUME LInv, NEW r \in Callers, CommitCall(r)
  PROVE  LInv'
<1> DEFINE k    == caller[r].lead
           more == IF lead[k].attempts > MaxDials THEN lead[k].attempts ELSE lead[k].attempts + 1
<1>1. /\ caller[r].at = "inserted"
      /\ lead' = [lead EXCEPT ![k] = [status |-> "calling", holder |-> NoHolder, attempts |-> more]]
      /\ campaign' = [campaign EXCEPT !.shared = @ \ {r}]
      /\ caller' = [caller EXCEPT ![r].at = "calling"]
      /\ UNCHANGED reform
  BY DEF CommitCall
<1>2. k \in Leads /\ lead[k].attempts \in 0 .. (MaxDials + 1) /\ MaxDials \in Nat
  BY <1>1, LeadsAssumption DEF LInv, LeadsTyped, Lead, CallerInv
<1>3. more \in 0 .. (MaxDials + 1) /\ (lead[k].attempts < MaxDials => more <= MaxDials)
  BY <1>2
<1>4. lead'[k] = [status |-> "calling", holder |-> NoHolder, attempts |-> more]
      /\ \A j \in Leads \ {k} : lead'[j] = lead[j]
  BY <1>1, <1>2 DEF LInv, LeadsTyped
<1>5. lead' \in [Leads -> Lead]
  <2>1. [status |-> "calling", holder |-> NoHolder, attempts |-> more] \in Lead
    BY <1>3 DEF Lead
  <2> QED BY <1>1, <2>1 DEF LInv, LeadsTyped
<1>6. LeadsTyped'
  BY <1>1, <1>5 DEF LInv, LeadsTyped, Campaign, Caller
<1>7. Exclusive'
  BY <1>1 DEF LInv, LeadsTyped, Caller, Exclusive
<1>8. campaign'.update = campaign.update /\ campaign'.shared = campaign.shared \ {r}
  BY <1>1 DEF LInv, LeadsTyped, Campaign
<1>9. ASSUME NEW o \in Callers PROVE CallerInv(o)'
  <2>1. CASE o = r
    <3>1. /\ caller'[r].at = "calling" /\ caller'[r].lead = k
          /\ caller'[r].confirmed = caller[r].confirmed
      BY <1>1 DEF LInv, LeadsTyped, Caller
    <3>2. reform.at = "idle" /\ (~caller[r].confirmed => more <= MaxDials)
      BY <1>1, <1>3 DEF LInv, CallerInv
    <3>3. lead'[k].status = "calling" /\ lead'[k].attempts = more
      BY <1>4
    <3> HIDE DEF more
    <3> QED BY <1>1, <1>2, <2>1, <3>1, <3>2, <3>3 DEF CallerInv
  <2>2. CASE o # r
    <3>1. caller'[o] = caller[o]
      BY <1>1, <2>2 DEF LInv, LeadsTyped
    <3>2. caller[o].at # "idle" => lead'[caller[o].lead] = lead[caller[o].lead]
      BY <1>1, <1>4, <2>2 DEF LInv, Exclusive, CallerInv
    <3> QED BY <1>1, <1>8, <2>2, <3>1, <3>2 DEF LInv, CallerInv
  <2> QED BY <2>1, <2>2
<1> QED BY <1>1, <1>6, <1>7, <1>8, <1>9 DEF LInv

LEMMA RollBackCallStep ==
  ASSUME LInv, NEW r \in Callers, caller[r].at \in {"selected", "inserted"}, RollBackCall(r)
  PROVE  LInv'
<1> DEFINE k == caller[r].lead
<1>1. /\ lead' = [lead EXCEPT ![k].holder = NoHolder]
      /\ campaign' = [campaign EXCEPT !.shared = @ \ {r}]
      /\ caller' = [caller EXCEPT ![r] = NotCalling]
      /\ UNCHANGED reform
  BY DEF RollBackCall
<1>2. k \in Leads
  BY DEF LInv, CallerInv
<1>3. LeadsTyped'
  <2>1. lead' \in [Leads -> Lead]
    BY <1>1 DEF LInv, LeadsTyped, Lead
  <2>2. caller' \in [Callers -> Caller]
    BY <1>1, IdleIsTyped DEF LInv, LeadsTyped
  <2> QED BY <1>1, <2>1, <2>2 DEF LInv, LeadsTyped, Campaign
<1>4. Exclusive'
  BY <1>1 DEF LInv, LeadsTyped, NotCalling, Exclusive
<1>5. campaign'.update = campaign.update /\ campaign'.shared = campaign.shared \ {r}
  BY <1>1 DEF LInv, LeadsTyped, Campaign
<1>6. ASSUME NEW o \in Callers PROVE CallerInv(o)'
  <2>1. CASE o = r
    <3>1. caller'[o].at = "idle"
      BY <1>1, <2>1 DEF LInv, LeadsTyped, NotCalling
    <3> QED BY <3>1 DEF CallerInv
  <2>2. CASE o # r
    <3>1. caller'[o] = caller[o]
      BY <1>1, <2>2 DEF LInv, LeadsTyped
    <3>2. caller[o].at # "idle" => lead'[caller[o].lead] = lead[caller[o].lead]
      BY <1>1, <2>2 DEF LInv, LeadsTyped, Exclusive, CallerInv
    <3> QED BY <1>1, <1>5, <2>2, <3>1, <3>2 DEF LInv, CallerInv
  <2> QED BY <2>1, <2>2
<1> QED BY <1>1, <1>3, <1>4, <1>5, <1>6 DEF LInv

LEMMA CallFinishedStep ==
  ASSUME LInv, NEW r \in Callers, CallFinished(r)
  PROVE  LInv'
<1> DEFINE k == caller[r].lead
<1>1. PICK status \in {"new", "completed"} :
        lead' = [lead EXCEPT ![k].status = IF @ = "calling" THEN status ELSE @]
  BY DEF CallFinished
<1>2. /\ caller[r].at = "calling" /\ caller' = [caller EXCEPT ![r] = NotCalling]
      /\ UNCHANGED <<campaign, reform>>
  BY DEF CallFinished
<1>3. LeadsTyped'
  <2>1. lead' \in [Leads -> Lead]
    <3>1. PICK now \in {"new", "calling", "completed"} : lead' = [lead EXCEPT ![k].status = now]
      BY <1>1, <1>2 DEF LInv, LeadsTyped, Lead, CallerInv
    <3> QED BY <3>1 DEF LInv, LeadsTyped, Lead
  <2>2. caller' \in [Callers -> Caller]
    BY <1>2, IdleIsTyped DEF LInv, LeadsTyped
  <2> QED BY <1>2, <2>1, <2>2 DEF LInv, LeadsTyped
<1>4. Exclusive'
  BY <1>2 DEF LInv, LeadsTyped, NotCalling, Exclusive
<1>5. ASSUME NEW o \in Callers PROVE CallerInv(o)'
  <2>1. CASE o = r
    <3>1. caller'[o].at = "idle"
      BY <1>2, <2>1 DEF LInv, LeadsTyped, NotCalling
    <3> QED BY <3>1 DEF CallerInv
  <2>2. CASE o # r
    <3>1. caller'[o] = caller[o]
      BY <1>2, <2>2 DEF LInv, LeadsTyped
    <3>2. caller[o].at # "idle" => lead'[caller[o].lead] = lead[caller[o].lead]
      BY <1>1, <1>2, <2>2 DEF LInv, LeadsTyped, Exclusive, CallerInv
    <3> QED BY <1>2, <3>1, <3>2 DEF LInv, CallerInv
  <2> QED BY <2>1, <2>2
<1> QED BY <1>2, <1>3, <1>4, <1>5 DEF LInv

-----------------------------------------------------------------------------
(* The administrator's transaction.                                        *)

LEMMA LockCampaignStep ==
  ASSUME LInv, NEW kind \in {"reset", "archive"}, LockCampaign(kind)
  PROVE  LInv'
<1>1. /\ reform.at = "idle" /\ campaign.shared = {}
      /\ campaign' = [campaign EXCEPT !.update = TRUE]
      /\ reform' = [reform EXCEPT !.at = "check", !.kind = kind]
      /\ UNCHANGED <<lead, caller>>
  BY DEF LockCampaign
<1>2. campaign' \in Campaign /\ campaign'.update = TRUE
  BY <1>1 DEF LInv, LeadsTyped, Campaign
<1>3. reform' \in Reform /\ reform'.at = "check"
  BY <1>1 DEF LInv, LeadsTyped, Reform
<1>4. Exclusive'
  BY <1>1 DEF LInv, Exclusive
<1>5. \A r \in Callers : caller[r].at # "inserted"
  BY <1>1 DEF LInv, CallerInv
<1>6. ASSUME NEW r \in Callers PROVE CallerInv(r)'
  BY <1>1, <1>3, <1>5 DEF LInv, CallerInv
<1> QED BY <1>1, <1>2, <1>3, <1>4, <1>6 DEF LInv, LeadsTyped

LEMMA CheckActiveCallsStep ==
  ASSUME LInv, CheckActiveCalls
  PROVE  LInv'
<1>1. reform.at = "check" /\ UNCHANGED <<lead, caller>>
  BY DEF CheckActiveCalls
<1>2. Exclusive'
  BY <1>1 DEF LInv, Exclusive
<1>3. \A r \in Callers : caller[r].at # "inserted"
  BY <1>1 DEF LInv, CallerInv
<1>4. CASE \E r \in Callers : caller[r].at = "calling"
  <2>1. reform' = NoReform /\ campaign' = [campaign EXCEPT !.update = FALSE]
    BY <1>4 DEF CheckActiveCalls
  <2>2. campaign' \in Campaign /\ campaign'.update = FALSE
    BY <2>1 DEF LInv, LeadsTyped, Campaign
  <2>3. reform' \in Reform /\ reform'.at = "idle"
    BY <2>1, IdleIsTyped DEF NoReform
  <2>4. ASSUME NEW r \in Callers PROVE CallerInv(r)'
    BY <1>1, <1>3, <2>3 DEF LInv, CallerInv
  <2> QED BY <1>1, <1>2, <2>2, <2>3, <2>4 DEF LInv, LeadsTyped
<1>5. CASE \A r \in Callers : caller[r].at # "calling"
  <2>1. PICK rows \in SUBSET Leads :
          reform' = [reform EXCEPT !.at = "update", !.before = lead, !.todo = rows]
    BY <1>5 DEF CheckActiveCalls
  <2>2. UNCHANGED campaign
    BY <1>5 DEF CheckActiveCalls
  <2>3. reform' \in Reform /\ reform'.at = "update" /\ reform'.before = lead
    BY <2>1 DEF LInv, LeadsTyped, Reform
  <2>4. ASSUME NEW r \in Callers PROVE CallerInv(r)'
    BY <1>1, <1>3, <1>5, <2>2 DEF LInv, CallerInv
  <2>5. campaign'.update = (reform'.at # "idle")
    BY <1>1, <2>2, <2>3 DEF LInv
  <2> QED BY <1>1, <1>2, <2>2, <2>3, <2>4, <2>5 DEF LInv, LeadsTyped
<1> QED BY <1>4, <1>5

\* While rows are written, a caller has at most selected a lead, whose row
\* it holds itself.
LEMMA WhileRowsAreWritten ==
  ASSUME LInv, reform.at = "update"
  PROVE  \A r \in Callers :
           /\ caller[r].at \in {"idle", "selected"}
           /\ caller[r].at = "selected" => /\ caller[r].lead \in Leads
                                           /\ lead[caller[r].lead].holder \notin {NoHolder, Reformer}
  BY LeadsAssumption DEF LInv, LeadsTyped, Caller, CallerInv, NoHolder, Reformer

LEMMA ResetLeadStep ==
  ASSUME LInv, NEW k \in Leads, ResetLead(k)
  PROVE  LInv'
<1>1. /\ reform.at = "update" /\ lead[k].holder = NoHolder
      /\ lead' = [lead EXCEPT ![k] = [status |-> "new", attempts |-> 0, holder |-> Reformer]]
      /\ reform' = [reform EXCEPT !.todo = @ \ {k}]
      /\ UNCHANGED <<campaign, caller>>
  BY DEF ResetLead
<1>2. lead' \in [Leads -> Lead]
  <2>1. [status |-> "new", attempts |-> 0, holder |-> Reformer] \in Lead
    BY NoDialsYet DEF Lead
  <2> QED BY <1>1, <2>1 DEF LInv, LeadsTyped
<1>3. reform' \in Reform /\ reform'.at = "update" /\ reform'.before = reform.before
  BY <1>1 DEF LInv, LeadsTyped, Reform
<1>4. Exclusive'
  BY <1>1 DEF LInv, Exclusive
<1>5. ASSUME NEW r \in Callers PROVE CallerInv(r)'
  <2>1. caller[r].at = "selected" => lead'[caller[r].lead] = lead[caller[r].lead]
    BY <1>1, WhileRowsAreWritten DEF LInv, LeadsTyped
  <2> QED BY <1>1, <2>1, WhileRowsAreWritten DEF LInv, CallerInv
<1>6. campaign'.update = (reform'.at # "idle")
  BY <1>1, <1>3 DEF LInv
<1> QED BY <1>1, <1>2, <1>3, <1>4, <1>5, <1>6 DEF LInv, LeadsTyped

\* What ends the reform: rows that the reform does not hold stay as they are.
LEMMA ReformEnds ==
  ASSUME LInv, reform.at = "update", reform' = NoReform, UNCHANGED caller,
         campaign' \in Campaign, campaign'.update = FALSE,
         lead' \in [Leads -> Lead],
         \A k \in Leads : lead[k].holder # Reformer => lead'[k] = lead[k]
  PROVE  LInv'
<1>1. reform' \in Reform /\ reform'.at = "idle"
  BY IdleIsTyped DEF NoReform
<1>2. Exclusive'
  BY DEF LInv, Exclusive
<1>3. ASSUME NEW r \in Callers PROVE CallerInv(r)'
  <2>1. caller[r].at = "selected" => lead'[caller[r].lead] = lead[caller[r].lead]
    BY WhileRowsAreWritten
  <2> QED BY <2>1, WhileRowsAreWritten DEF LInv, CallerInv
<1> QED BY <1>1, <1>2, <1>3 DEF LInv, LeadsTyped

LEMMA CommitReformStep ==
  ASSUME LInv, CommitReform
  PROVE  LInv'
<1>1. /\ reform.at = "update" /\ reform' = NoReform /\ UNCHANGED caller
      /\ campaign' = [campaign EXCEPT !.update = FALSE,
                        !.status = IF reform.kind = "archive" THEN "archived" ELSE @]
      /\ lead' = [k \in Leads |-> [lead[k] EXCEPT !.holder = IF @ = Reformer THEN NoHolder ELSE @]]
  BY DEF CommitReform
<1>2. campaign' \in Campaign /\ campaign'.update = FALSE
  BY <1>1 DEF LInv, LeadsTyped, Campaign
<1>3. lead' \in [Leads -> Lead]
  BY <1>1 DEF LInv, LeadsTyped, Lead
<1>4. \A k \in Leads : lead[k].holder # Reformer => lead'[k] = lead[k]
  BY <1>1 DEF LInv, LeadsTyped, Lead
<1> QED BY <1>1, <1>2, <1>3, <1>4, ReformEnds

LEMMA RollBackReformStep ==
  ASSUME LInv, reform.at = "update", RollBackReform
  PROVE  LInv'
<1>1. /\ reform' = NoReform /\ UNCHANGED caller
      /\ campaign' = [campaign EXCEPT !.update = FALSE]
      /\ lead' = [k \in Leads |-> IF lead[k].holder = Reformer
                                  THEN [reform.before[k] EXCEPT !.holder = NoHolder] ELSE lead[k]]
  BY DEF RollBackReform
<1>2. campaign' \in Campaign /\ campaign'.update = FALSE
  BY <1>1 DEF LInv, LeadsTyped, Campaign
<1>3. \A k \in Leads : [reform.before[k] EXCEPT !.holder = NoHolder] \in Lead
  BY DEF LInv, LeadsTyped, Lead
<1>4. lead' \in [Leads -> Lead]
  BY <1>1, <1>3 DEF LInv, LeadsTyped
<1>5. \A k \in Leads : lead[k].holder # Reformer => lead'[k] = lead[k]
  BY <1>1
<1> QED BY <1>1, <1>2, <1>4, <1>5, ReformEnds

LEMMA EditCampaignStep ==
  ASSUME LInv, EditCampaign
  PROVE  LInv'
<1>1. PICK status \in {"active", "paused"} : campaign' = [campaign EXCEPT !.status = status]
  BY DEF EditCampaign
<1>2. UNCHANGED <<lead, caller, reform>>
  BY DEF EditCampaign
<1>3. campaign' \in Campaign /\ campaign'.update = campaign.update
      /\ campaign'.shared = campaign.shared
  BY <1>1 DEF LInv, LeadsTyped, Campaign
<1>4. ASSUME NEW r \in Callers PROVE CallerInv(r)'
  BY <1>2, <1>3 DEF LInv, CallerInv
<1> QED BY <1>2, <1>3, <1>4 DEF LInv, LeadsTyped, Exclusive

-----------------------------------------------------------------------------

LEMMA LInvStep == LInv /\ [LeadsNext]_leadsVars => LInv'
<1> SUFFICES ASSUME LInv, [LeadsNext]_leadsVars PROVE LInv'
  OBVIOUS
<1>1. ASSUME NEW r \in Callers, NEW k \in Leads, SelectLead(r, k) PROVE LInv'
  BY <1>1, SelectLeadStep
<1>2. ASSUME NEW r \in Callers, InsertCall(r) PROVE LInv'
  BY <1>2, InsertCallStep
<1>3. ASSUME NEW r \in Callers, CommitCall(r) PROVE LInv'
  BY <1>3, CommitCallStep
<1>4. ASSUME NEW r \in Callers, CallFails(r) PROVE LInv'
  BY <1>4, RollBackCallStep DEF CallFails
<1>5. ASSUME NEW r \in Callers, CallFinished(r) PROVE LInv'
  BY <1>5, CallFinishedStep
<1>6. ASSUME NEW r \in Callers, BreakDeadlock(r) PROVE LInv'
  BY <1>6, RollBackCallStep, RollBackReformStep DEF BreakDeadlock, Deadlocked
<1>7. ASSUME NEW kind \in {"reset", "archive"}, LockCampaign(kind) PROVE LInv'
  BY <1>7, LockCampaignStep
<1>8. CASE CheckActiveCalls
  BY <1>8, CheckActiveCallsStep
<1>9. ASSUME NEW k \in Leads, ResetLead(k) PROVE LInv'
  BY <1>9, ResetLeadStep
<1>10. CASE CommitReform
  BY <1>10, CommitReformStep
<1>11. CASE EditCampaign
  BY <1>11, EditCampaignStep
<1>12. CASE UNCHANGED leadsVars
  BY <1>12 DEF leadsVars, LInv, LeadsTyped, Exclusive, CallerInv
<1> QED BY <1>1, <1>2, <1>3, <1>4, <1>5, <1>6, <1>7, <1>8, <1>9, <1>10, <1>11, <1>12
        DEF LeadsNext

\* A reset or an archive never writes what an open call contradicts, and no
\* lead is in two calls or dialed more often than the policy allows
\* (createDialerCall against resetCampaignLeads and deleteCampaign), for any
\* number of agents and leads.
THEOREM LeadsStaySafe == LeadsSpec => []LeadsAreSafe
<1>1. LeadsInit => LInv
  BY LInvInit
<1>2. LInv /\ [LeadsNext]_leadsVars => LInv'
  BY LInvStep
<1>3. LInv => LeadsAreSafe
  <2> SUFFICES ASSUME LInv PROVE LeadsAreSafe
    OBVIOUS
  <2>1. ReformsSpareLiveCalls
    BY DEF LInv, CallerInv, ReformsSpareLiveCalls
  <2>2. ASSUME NEW r \in Callers, caller[r].at # "idle", ~caller[r].confirmed
        PROVE  lead[caller[r].lead].attempts <= MaxDials
    <3>1. lead[caller[r].lead].attempts \in Nat /\ MaxDials \in Nat
      BY <2>2, LeadsAssumption DEF LInv, LeadsTyped, Lead, CallerInv
    <3> QED BY <2>2, <3>1 DEF LInv, LeadsTyped, Caller, CallerInv
  <2>3. LeadsAreDialedOnce
    BY <2>2 DEF LInv, Exclusive, LeadsAreDialedOnce
  <2> QED BY <2>1, <2>3 DEF LeadsAreSafe
<1> QED BY <1>1, <1>2, <1>3, PTL DEF LeadsSpec

(* The rows are well typed, and the attempts of a lead stay within the     *)
(* count at which the model stops telling them apart.                      *)
THEOREM LeadTypesCorrect == LeadsSpec => []LeadsTypeOK
<1>1. LInv => LeadsTypeOK
  BY DEF LInv, LeadsTyped, LeadsTypeOK, Campaign, Lead, Caller
<1> QED BY <1>1, LInvInit, LInvStep, PTL DEF LeadsSpec

-----------------------------------------------------------------------------
(* Suppression.  The property alone is not inductive: what makes it so is  *)
(* that a request that is not marked as free has its number on the list.   *)

\* A request that may dial is free, and one that is not has a listed number.
Barred ==
  \A r \in Asks : ask[r].at # "idle" =>
    /\ list[ask[r].number] = Unlisted => ask[r].free
    /\ ask[r].at \in {"allowed", "dialed"} => ask[r].free

SInv == SuppressionTypeOK /\ Barred

USE DEF Unlisted, Reasons, NoAsk, AskRow

LEMMA FreedRow ==
  ASSUME SInv, NEW n \in PhoneNumbers, NEW r \in Asks
  PROVE  /\ FreedFor(n)[r] \in AskRow
         /\ FreedFor(n)[r].at = ask[r].at
         /\ ask[r].at # "idle" =>
              /\ FreedFor(n)[r].number = ask[r].number
              /\ ask[r].free \/ ask[r].number = n => FreedFor(n)[r].free
<1>1. FreedFor(n)[r] = IF ask[r].at # "idle" /\ ask[r].number = n
                       THEN [ask[r] EXCEPT !.free = TRUE] ELSE ask[r]
  BY DEF FreedFor
<1>2. CASE ask[r] = NoAsk
  BY <1>1, <1>2
<1>3. CASE ask[r] \in [at : {"asked", "allowed", "dialed"}, kind : {"manual", "lead"},
                       number : PhoneNumbers, free : BOOLEAN]
  <2>1. CASE ask[r].number = n
    <3>1. ask[r].at # "idle"
      BY <1>3
    <3>2. FreedFor(n)[r] = [ask[r] EXCEPT !.free = TRUE]
      BY <1>1, <2>1, <3>1
    <3> QED BY ONLY <1>3, <3>2 DEF AskRow
  <2>2. CASE ask[r].number # n
    BY <1>1, <1>3, <2>2
  <2> QED BY <2>1, <2>2
<1> QED BY <1>2, <1>3 DEF SInv, SuppressionTypeOK

LEMMA SuppressionInitHolds == SuppressionInit => SInv
  BY DEF SuppressionInit, SInv, SuppressionTypeOK, Barred

\* Every step of an administrator or of a request keeps the invariant.
LEMMA SuppressionStep == SInv /\ [SuppressionNext]_suppressionVars => SInv'
<1> SUFFICES ASSUME SInv, [SuppressionNext]_suppressionVars PROVE SInv'
  OBVIOUS
<1> USE DEF SInv, SuppressionTypeOK, Barred
<1>1. ASSUME NEW n \in PhoneNumbers, RemoveEntry(n) PROVE SInv'
  <2>1. SuppressionTypeOK'
    <3>1. ask' = FreedFor(n)
      BY <1>1 DEF RemoveEntry
    <3>2. FreedFor(n) = [r \in Asks |-> FreedFor(n)[r]]
      BY DEF FreedFor
    <3>3. ask' \in [Asks -> AskRow]
      <4>1. \A r \in Asks : FreedFor(n)[r] \in AskRow
        BY FreedRow
      <4> HIDE DEF AskRow
      <4> QED BY <3>1, <3>2, <4>1
    <3> QED BY <1>1, <3>3 DEF RemoveEntry
  <2>2. ASSUME NEW r \in Asks, ask'[r].at # "idle"
        PROVE  /\ list'[ask'[r].number] = Unlisted => ask'[r].free
               /\ ask'[r].at \in {"allowed", "dialed"} => ask'[r].free
    <3>1. /\ ask[r].at = ask'[r].at /\ ask'[r].number = ask[r].number
          /\ ask[r].free \/ ask[r].number = n => ask'[r].free
      BY <1>1, <2>2, FreedRow DEF RemoveEntry
    <3>2. ask[r].number \in PhoneNumbers
      BY <2>2, <3>1
    <3> QED BY <1>1, <2>2, <3>1, <3>2 DEF RemoveEntry
  <2> QED BY <2>1, <2>2
<1>2. ASSUME NEW n \in PhoneNumbers, NEW reason \in Reasons,
             AddEntry(n, reason) \/ SuppressContact(n, reason)
      PROVE  SInv'
  BY <1>2 DEF AddEntry, SuppressContact
<1>3. ASSUME NEW S \in SUBSET PhoneNumbers, NEW reasons \in [S -> Reasons], ImportEntries(reasons)
      PROVE  SInv'
  <2>1. \A n \in PhoneNumbers : list'[n] \in Reasons \cup {Unlisted}
                                /\ evidence'[n] \in Reasons \cup {Unlisted}
                                /\ (list'[n] = Unlisted => list[n] = Unlisted)
    BY <1>3 DEF ImportEntries
  <2>2. /\ list' \in [PhoneNumbers -> Reasons \cup {Unlisted}]
        /\ evidence' \in [PhoneNumbers -> Reasons \cup {Unlisted}]
    BY <1>3, <2>1 DEF ImportEntries
  <2>3. UNCHANGED <<blockedDials, blockedEvents, ask>>
    BY <1>3 DEF ImportEntries
  <2> QED BY <2>1, <2>2, <2>3
<1>4. ASSUME NEW r \in Asks, NEW n \in PhoneNumbers, NEW kind \in {"manual", "lead"},
             AskToDial(r, n, kind)
      PROVE  SInv'
  BY <1>4 DEF AskToDial
<1>5. ASSUME NEW r \in Asks, CheckManualDial(r) \/ SelectListedLead(r) PROVE SInv'
  BY <1>5 DEF CheckManualDial, SelectListedLead
<1>6. ASSUME NEW r \in Asks, BlockManualDial(r) PROVE SInv'
  BY <1>6 DEF BlockManualDial
<1>7. ASSUME NEW r \in Asks, Dial(r) \/ GiveUpDial(r) PROVE SInv'
  BY <1>7 DEF Dial, GiveUpDial
<1>8. CASE UNCHANGED suppressionVars
  BY <1>8 DEF suppressionVars
<1> QED BY <1>1, <1>2, <1>3, <1>4, <1>5, <1>6, <1>7, <1>8 DEF SuppressionNext

\* For any numbers and requests, a number that was on the list when a call
\* was asked for, and has been on it ever since, is not dialed by the manual
\* check of manual-dial.ts nor by the join of the lead queries in calls.ts.
THEOREM ListedNumbersStayUndialed == SuppressionSpec => []ListedNumbersAreNotDialed
<1>1. SInv => ListedNumbersAreNotDialed
  BY DEF SInv, Barred, ListedNumbersAreNotDialed
<1> QED BY <1>1, SuppressionInitHolds, SuppressionStep, PTL DEF SuppressionSpec

-----------------------------------------------------------------------------
(* Imports.  What the statements of the chunks compute is compared with    *)
(* the loop by a closed form of the loop's state after some rows, which    *)
(* satisfies the loop's recursion.                                         *)

(* A nonempty finite set of numbers has a least and a greatest element:    *)
(* the numbers of its elements below (above) an element are different for  *)
(* different elements, and would not fit if none were 0.                   *)
LEMMA Extremes ==
  ASSUME NEW T, T \subseteq Nat, IsFiniteSet(T), T # {}
  PROVE  /\ \E n \in T : \A m \in T : n <= m
         /\ \E n \in T : \A m \in T : m <= n
<1> DEFINE below == [n \in T |-> Cardinality({m \in T : m < n})]
           above == [n \in T |-> Cardinality({m \in T : m > n})]
           k == Cardinality(T)
<1>0. \A n \in T : n \in Nat OBVIOUS
<1>1. k \in Nat /\ k # 0 BY FS_CardinalityType, FS_EmptySet
<1>2. ASSUME NEW U \in SUBSET T, NEW n \in T, n \notin U
      PROVE  IsFiniteSet(U) /\ Cardinality(U) \in Nat /\ Cardinality(U) < k
  <2>1. IsFiniteSet(U) /\ Cardinality(U) <= k /\ Cardinality(U) # k
    BY <1>2, FS_Subset
  <2> QED BY <1>1, <2>1, FS_CardinalityType
<1>3. ASSUME NEW U \in SUBSET T, NEW V \in SUBSET U, NEW n \in U, n \notin V
      PROVE  Cardinality(V) < Cardinality(U)
  <2>1. IsFiniteSet(U) BY FS_Subset
  <2>2. IsFiniteSet(V) /\ Cardinality(V) <= Cardinality(U) /\ Cardinality(V) # Cardinality(U)
    BY <1>3, <2>1, FS_Subset
  <2> QED BY <2>1, <2>2, FS_CardinalityType
<1>4. ASSUME NEW f \in [T -> 1..(k - 1)], \A n \in T, m \in T : n # m => f[n] # f[m]
      PROVE  FALSE
  <2> HIDE DEF k
  <2>1. f \in Injection(T, 1..(k - 1)) BY <1>4 DEF Injection, IsInjective
  <2>2. IsFiniteSet(1..(k - 1)) /\ Cardinality(1..(k - 1)) = k - 1
    BY <1>1, FS_Interval
  <2>3. Cardinality(T) <= k - 1 BY <2>1, <2>2, FS_Injection
  <2> QED BY <1>1, <2>3 DEF k
<1>5. \A n \in T : /\ {m \in T : m < n} \in SUBSET T /\ n \notin {m \in T : m < n}
                   /\ {m \in T : m > n} \in SUBSET T /\ n \notin {m \in T : m > n}
  OBVIOUS
<1>6. \A n \in T, m \in T : n < m => below[n] < below[m] /\ above[m] < above[n]
  <2> SUFFICES ASSUME NEW n \in T, NEW m \in T, n < m
               PROVE  below[n] < below[m] /\ above[m] < above[n]
    OBVIOUS
  <2>1. {i \in T : i < n} \in SUBSET {i \in T : i < m} /\ n \in {i \in T : i < m}
    <3>1. \A i \in T : i \in Nat /\ n \in Nat /\ m \in Nat BY <1>0
    <3>2. \A i \in T : i < n => i < m BY <3>1
    <3> QED BY <3>2
  <2>2. {i \in T : i > m} \in SUBSET {i \in T : i > n} /\ m \in {i \in T : i > n}
    <3>1. \A i \in T : i \in Nat /\ n \in Nat /\ m \in Nat BY <1>0
    <3>2. \A i \in T : i > m => i > n BY <3>1
    <3> QED BY <3>1, <3>2
  <2>3. Cardinality({i \in T : i < n}) < Cardinality({i \in T : i < m})
    BY <1>3, <1>5, <2>1
  <2>4. Cardinality({i \in T : i > m}) < Cardinality({i \in T : i > n})
    BY <1>3, <1>5, <2>2
  <2> QED BY <2>3, <2>4
<1>7. \A n \in T : below[n] \in 0..(k - 1) /\ above[n] \in 0..(k - 1)
  BY <1>1, <1>2, <1>5
<1>8. \A n \in T, m \in T : n # m => below[n] # below[m] /\ above[n] # above[m]
  <2> HIDE DEF below, above
  <2> QED BY <1>6, <1>7
<1>9. (\E n \in T : below[n] = 0) /\ (\E n \in T : above[n] = 0)
  <2> DEFINE b == [n \in T |-> below[n]]
             a == [n \in T |-> above[n]]
  <2> HIDE DEF below, above
  <2>1. ASSUME \A n \in T : below[n] # 0 PROVE FALSE
    <3>1. b \in [T -> 1..(k - 1)] BY <1>1, <1>7, <2>1
    <3>2. \A n \in T, m \in T : n # m => b[n] # b[m] BY <1>8
    <3> QED BY <1>4, <3>1, <3>2
  <2>2. ASSUME \A n \in T : above[n] # 0 PROVE FALSE
    <3>1. a \in [T -> 1..(k - 1)] BY <1>1, <1>7, <2>2
    <3>2. \A n \in T, m \in T : n # m => a[n] # a[m] BY <1>8
    <3> QED BY <1>4, <3>1, <3>2
  <2> QED BY <2>1, <2>2
<1>10. ASSUME NEW n \in T, below[n] = 0 PROVE \A m \in T : n <= m
  <2> HIDE DEF below, above
  <2> SUFFICES ASSUME NEW m \in T PROVE n <= m OBVIOUS
  <2>1. n \in Nat /\ m \in Nat BY <1>0
  <2>2. below[m] \in Nat /\ (m < n => below[m] < below[n]) BY <1>6, <1>7
  <2> QED BY <1>10, <2>1, <2>2
<1>11. ASSUME NEW n \in T, above[n] = 0 PROVE \A m \in T : m <= n
  <2> HIDE DEF below, above
  <2> SUFFICES ASSUME NEW m \in T PROVE m <= n OBVIOUS
  <2>1. n \in Nat /\ m \in Nat BY <1>0
  <2>2. above[m] \in Nat /\ (n < m => above[m] < above[n]) BY <1>6, <1>7
  <2> QED BY <1>11, <2>1, <2>2
<1> QED BY <1>9, <1>10, <1>11

(* The row that stands for a number, and the state of the loop after some  *)
(* rows, in closed form.                                                   *)
Pick(target, S) == CHOOSE r \in S : \A o \in S : IF target = "suppression" THEN o <= r ELSE r <= o

LEMMA PickIsExtreme ==
  ASSUME NEW target, NEW S, S \subseteq Nat, IsFiniteSet(S), S # {}
  PROVE  /\ Pick(target, S) \in S
         /\ \A o \in S : IF target = "suppression" THEN o <= Pick(target, S)
                                                   ELSE Pick(target, S) <= o
<1>1. \E r \in S : \A o \in S : IF target = "suppression" THEN o <= r ELSE r <= o
  BY Extremes
<1> QED BY <1>1 DEF Pick

LEMMA PickIsKnown ==
  ASSUME NEW target, NEW S, S \subseteq Nat, IsFiniteSet(S), NEW r \in S,
         \A o \in S : IF target = "suppression" THEN o <= r ELSE r <= o
  PROVE  Pick(target, S) = r
<1>1. S # {} OBVIOUS
<1>2. /\ Pick(target, S) \in S /\ Pick(target, S) \in Nat /\ r \in Nat
      /\ \A o \in S : IF target = "suppression" THEN o <= Pick(target, S)
                                                ELSE Pick(target, S) <= o
  BY <1>1, PickIsExtreme
<1> QED BY <1>2

Filled(rows, r) == {q \in 1..r : rows[q].number # 0}
Seen(rows, r) == {rows[q].number : q \in Filled(rows, r)}
RowsOf(rows, r, n) == {q \in Filled(rows, r) : rows[q].number = n}
NewAmong(rows, found, r) == {n \in Seen(rows, r) : found[n] = NoValue}
StandingValue(target, rows, found, r, n) ==
  IF n \in Seen(rows, r) /\ (target = "suppression" \/ found[n] = NoValue)
  THEN rows[Pick(target, RowsOf(rows, r, n))].value ELSE found[n]
Sofar(target, rows, found, r) ==
  [imported |-> Cardinality(NewAmong(rows, found, r)),
   others   |-> Cardinality(Filled(rows, r)) - Cardinality(NewAmong(rows, found, r)),
   written  |-> [n \in DOMAIN found |-> StandingValue(target, rows, found, r, n)]]

LEMMA RowsFacts ==
  ASSUME NEW rows \in Seq(Row)
  PROVE  /\ Len(rows) \in Nat /\ DOMAIN rows = 1..Len(rows)
         /\ \A r \in 1..Len(rows) : /\ rows[r].number \in Numbers \cup {0}
                                    /\ rows[r].value \in Values
         /\ ValidRows(rows) = Filled(rows, Len(rows))
         /\ NumbersIn(rows) = Seen(rows, Len(rows))
<1>1. Len(rows) \in Nat /\ DOMAIN rows = 1..Len(rows) OBVIOUS
<1>2. \A r \in 1..Len(rows) : rows[r] \in Row OBVIOUS
<1>3. ValidRows(rows) = Filled(rows, Len(rows)) BY <1>1 DEF ValidRows, Filled
<1> QED BY <1>1, <1>2, <1>3 DEF NumbersIn, Seen, Row

LEMMA SetsAreFinite ==
  ASSUME NEW rows \in Seq(Row), NEW found, NEW r \in 0..Len(rows)
  PROVE  /\ IsFiniteSet(Filled(rows, r)) /\ Cardinality(Filled(rows, r)) \in Nat
         /\ Filled(rows, r) \subseteq Nat
         /\ \A n : IsFiniteSet(RowsOf(rows, r, n)) /\ RowsOf(rows, r, n) \subseteq Nat
         /\ Seen(rows, r) \subseteq Numbers
         /\ IsFiniteSet(NewAmong(rows, found, r))
         /\ Cardinality(NewAmong(rows, found, r)) \in Nat
<1>0. r \in Nat /\ r <= Len(rows) BY RowsFacts
<1>1. IsFiniteSet(1..r) BY <1>0, FS_Interval
<1>2. Filled(rows, r) \in SUBSET (1..r) BY DEF Filled
<1>3. \A n : RowsOf(rows, r, n) \in SUBSET (1..r) BY DEF RowsOf, Filled
<1>4. Seen(rows, r) \subseteq Numbers BY <1>0, RowsFacts DEF Seen, Filled
<1>5. NewAmong(rows, found, r) \in SUBSET Numbers BY <1>4 DEF NewAmong
<1>6. IsFiniteSet(Numbers) BY CsvAssumption
<1>7. IsFiniteSet(Filled(rows, r)) /\ Cardinality(Filled(rows, r)) \in Nat
  BY <1>1, <1>2, FS_Subset, FS_CardinalityType
<1>8. \A n : IsFiniteSet(RowsOf(rows, r, n)) BY <1>1, <1>3, FS_Subset
<1>9. IsFiniteSet(NewAmong(rows, found, r)) /\ Cardinality(NewAmong(rows, found, r)) \in Nat
  BY <1>5, <1>6, FS_Subset, FS_CardinalityType
<1>10. 1..r \subseteq Nat BY <1>0
<1>11. Filled(rows, r) \subseteq Nat BY <1>2, <1>10
<1>12. \A n : RowsOf(rows, r, n) \subseteq Nat BY <1>3, <1>10
<1> QED BY <1>4, <1>7, <1>8, <1>9, <1>11, <1>12

LEMMA LoopBegins ==
  ASSUME NEW target, NEW rows \in Seq(Row), NEW found, NEW D, NEW R, found \in [D -> R]
  PROVE  Sofar(target, rows, found, 0) = [imported |-> 0, others |-> 0, written |-> found]
<1>1. Filled(rows, 0) = {} /\ Seen(rows, 0) = {} /\ NewAmong(rows, found, 0) = {}
  BY DEF Filled, Seen, NewAmong
<1>2. Cardinality(Filled(rows, 0)) = 0 /\ Cardinality(NewAmong(rows, found, 0)) = 0
  BY <1>1, FS_EmptySet
<1>3. [n \in DOMAIN found |-> StandingValue(target, rows, found, 0, n)] = found
  BY <1>1 DEF StandingValue
<1> QED BY <1>2, <1>3 DEF Sofar

(* One more row takes the loop from one closed form to the next.           *)
LEMMA LoopContinues ==
  ASSUME NEW target, NEW rows \in Seq(Row),
         NEW found \in [NumbersIn(rows) -> Values \cup {NoValue}], NEW r \in 1..Len(rows)
  PROVE  ImportRow(target, Sofar(target, rows, found, r - 1), rows[r])
           = Sofar(target, rows, found, r)
<1> DEFINE k == rows[r].number
           F == Filled(rows, r - 1)
           G == Filled(rows, r)
           A == NewAmong(rows, found, r - 1)
           B == NewAmong(rows, found, r)
           O == Sofar(target, rows, found, r - 1)
           W == [n \in DOMAIN found |-> StandingValue(target, rows, found, r - 1, n)]
           X == [n \in DOMAIN found |-> StandingValue(target, rows, found, r, n)]
<1>0. /\ r \in Nat /\ r - 1 \in 0..Len(rows) /\ r \in 0..Len(rows)
      /\ 1..r = (1..(r - 1)) \cup {r} /\ r \notin 1..(r - 1)
  BY RowsFacts
<1>1. /\ k \in Numbers \cup {0} /\ rows[r].value \in Values /\ NoValue \notin Values
      /\ 0 \notin Numbers
      /\ \A q \in 1..r : rows[q].value \in Values
  BY <1>0, RowsFacts, CsvAssumption
<1>2. /\ Cardinality(F) \in Nat /\ Cardinality(A) \in Nat
      /\ IsFiniteSet(F) /\ IsFiniteSet(A)
      /\ F \subseteq Nat
  BY <1>0, SetsAreFinite
<1>3. O = [imported |-> Cardinality(A), others |-> Cardinality(F) - Cardinality(A), written |-> W]
  BY DEF Sofar
<1>4. Sofar(target, rows, found, r)
        = [imported |-> Cardinality(B), others |-> Cardinality(G) - Cardinality(B), written |-> X]
  BY DEF Sofar
<1>5. CASE k = 0
  <2>1. G = F BY <1>0, <1>5 DEF Filled
  <2>2. B = A BY <2>1 DEF NewAmong, Seen
  <2>3. X = W BY <2>1 DEF StandingValue, Seen, RowsOf
  <2>4. ImportRow(target, O, rows[r]) = O BY <1>5 DEF ImportRow
  <2> QED BY <1>3, <1>4, <2>1, <2>2, <2>3, <2>4
<1>6. CASE k # 0
  <2>1. G = F \cup {r} /\ r \notin F BY <1>0, <1>6 DEF Filled
  <2>2. Cardinality(G) = Cardinality(F) + 1 BY <1>2, <2>1, FS_AddElement
  <2>3. Seen(rows, r) = Seen(rows, r - 1) \cup {k} BY <2>1 DEF Seen
  <2>4. k \in DOMAIN found
    <3>1. k \in Seen(rows, Len(rows)) BY <1>0, <1>6, RowsFacts DEF Seen, Filled
    <3> QED BY <3>1, RowsFacts
  <2>5. /\ \A n : n # k => RowsOf(rows, r, n) = RowsOf(rows, r - 1, n)
        /\ RowsOf(rows, r, k) = RowsOf(rows, r - 1, k) \cup {r}
    BY <2>1 DEF RowsOf
  <2>6. \A n \in DOMAIN found \ {k} : X[n] = W[n]
    BY <2>3, <2>5 DEF StandingValue
  <2>7. W[k] = StandingValue(target, rows, found, r - 1, k)
        /\ X[k] = StandingValue(target, rows, found, r, k)
    BY <2>4
  <2>8. k \in Seen(rows, r - 1) => /\ RowsOf(rows, r - 1, k) # {}
                                   /\ Pick(target, RowsOf(rows, r - 1, k)) \in RowsOf(rows, r - 1, k)
                                   /\ rows[Pick(target, RowsOf(rows, r - 1, k))].value \in Values
    <3>1. ASSUME k \in Seen(rows, r - 1) PROVE RowsOf(rows, r - 1, k) # {}
      BY <3>1 DEF Seen, RowsOf
    <3>2. ASSUME k \in Seen(rows, r - 1)
          PROVE  Pick(target, RowsOf(rows, r - 1, k)) \in RowsOf(rows, r - 1, k)
      BY <1>0, <3>1, <3>2, SetsAreFinite, PickIsExtreme
    <3>3. RowsOf(rows, r - 1, k) \subseteq 1..r BY <1>0 DEF RowsOf, Filled
    <3> QED BY <1>1, <3>1, <3>2, <3>3
  <2>9. k \notin Seen(rows, r - 1) => RowsOf(rows, r - 1, k) = {}
    BY DEF Seen, RowsOf
  <2>10. (W[k] = NoValue) <=> (k \notin Seen(rows, r - 1) /\ found[k] = NoValue)
    BY <1>1, <2>7, <2>8 DEF StandingValue
  <2>11. ASSUME \A o \in RowsOf(rows, r - 1, k) : target = "suppression"
         PROVE  Pick(target, RowsOf(rows, r, k)) = r
    <3>1. /\ RowsOf(rows, r, k) \subseteq Nat /\ IsFiniteSet(RowsOf(rows, r, k))
          /\ r \in RowsOf(rows, r, k)
      BY <1>0, <2>5, SetsAreFinite
    <3>2. RowsOf(rows, r - 1, k) \subseteq 1..(r - 1) BY DEF RowsOf, Filled
    <3>3. \A o \in RowsOf(rows, r, k) : IF target = "suppression" THEN o <= r ELSE r <= o
      BY <1>0, <2>5, <2>11, <3>2
    <3> QED BY <3>1, <3>3, PickIsKnown
  <2>12. O.written = W /\ O.imported = Cardinality(A) /\ O.others = Cardinality(F) - Cardinality(A)
    BY <1>3
  <2> HIDE DEF k, F, G, A, B, O, W, X
  <2>13. DOMAIN W = DOMAIN found /\ DOMAIN X = DOMAIN found
         /\ X = [n \in DOMAIN found |-> X[n]] /\ W = [n \in DOMAIN found |-> W[n]]
    BY DEF W, X
  <2>14. CASE W[k] = NoValue
    <3>1. B = A \cup {k} /\ k \notin A
      BY <2>3, <2>10, <2>14 DEF A, B, NewAmong
    <3>2. Cardinality(B) = Cardinality(A) + 1 BY <1>2, <3>1, FS_AddElement
    <3>3. X[k] = rows[r].value
      <4>1. Pick(target, RowsOf(rows, r, k)) = r BY <2>9, <2>10, <2>11, <2>14
      <4>2. k \in Seen(rows, r) /\ found[k] = NoValue BY <2>3, <2>10, <2>14
      <4> QED BY <2>7, <4>1, <4>2 DEF StandingValue
    <3>4. X = [W EXCEPT ![k] = rows[r].value] BY <2>6, <2>13, <3>3
    <3>5. ImportRow(target, O, rows[r])
            = [imported |-> Cardinality(A) + 1, others |-> Cardinality(F) - Cardinality(A),
               written |-> X]
      <4>1. ImportRow(target, O, rows[r])
              = [O EXCEPT !.imported = @ + 1, !.written[k] = rows[r].value]
        BY <1>6, <2>12, <2>14 DEF ImportRow, k
      <4> QED BY <1>3, <3>4, <4>1
    <3>6. Cardinality(G) - Cardinality(B) = Cardinality(F) - Cardinality(A)
      BY <1>2, <2>2, <3>2
    <3> QED BY <1>4, <3>2, <3>5, <3>6 DEF O
  <2>15. CASE W[k] # NoValue
    <3>1. B = A
      BY <2>3, <2>10, <2>15 DEF A, B, NewAmong
    <3>2. X[k] = IF target = "suppression" THEN rows[r].value ELSE W[k]
      <4>1. CASE target = "suppression"
        <5>1. Pick(target, RowsOf(rows, r, k)) = r BY <2>11, <4>1
        <5> QED BY <2>3, <2>7, <4>1, <5>1 DEF StandingValue
      <4>2. CASE target # "suppression" /\ found[k] # NoValue
        BY <2>7, <4>2 DEF StandingValue
      <4>3. CASE target # "suppression" /\ found[k] = NoValue
        <5>1. k \in Seen(rows, r - 1) /\ k \in Seen(rows, r) BY <2>3, <2>10, <2>15, <4>3
        <5> DEFINE p == Pick(target, RowsOf(rows, r - 1, k))
        <5>2. /\ IsFiniteSet(RowsOf(rows, r - 1, k)) /\ RowsOf(rows, r - 1, k) \subseteq Nat
              /\ IsFiniteSet(RowsOf(rows, r, k)) /\ RowsOf(rows, r, k) \subseteq Nat
          BY <1>0, SetsAreFinite
        <5>3. p \in RowsOf(rows, r - 1, k) /\ \A o \in RowsOf(rows, r - 1, k) : p <= o
          BY <2>8, <4>3, <5>1, <5>2, PickIsExtreme
        <5>4. RowsOf(rows, r - 1, k) \subseteq 1..(r - 1) BY DEF RowsOf, Filled
        <5>5. p \in RowsOf(rows, r, k) /\ \A o \in RowsOf(rows, r, k) : p <= o
          BY <1>0, <2>5, <5>3, <5>4
        <5>6. Pick(target, RowsOf(rows, r, k)) = p
          BY <4>3, <5>2, <5>5, PickIsKnown
        <5> QED BY <2>7, <4>3, <5>1, <5>6 DEF StandingValue
      <4> QED BY <4>1, <4>2, <4>3
    <3>3. X = [W EXCEPT ![k] = IF target = "suppression" THEN rows[r].value ELSE W[k]]
      BY <2>6, <2>13, <3>2
    <3>4. ImportRow(target, O, rows[r])
            = [imported |-> Cardinality(A), others |-> Cardinality(F) - Cardinality(A) + 1,
               written |-> X]
      <4>1. ImportRow(target, O, rows[r])
              = [O EXCEPT !.others = @ + 1,
                          !.written[k] = IF target = "suppression" THEN rows[r].value ELSE W[k]]
        BY <1>6, <2>12, <2>15 DEF ImportRow, k
      <4> QED BY <1>3, <3>3, <4>1
    <3>5. Cardinality(G) - Cardinality(B) = Cardinality(F) - Cardinality(A) + 1
      BY <1>2, <2>2, <3>1
    <3> QED BY <1>4, <3>1, <3>4, <3>5 DEF O
  <2> QED BY <2>14, <2>15
<1> QED BY <1>5, <1>6

(* So the loop ends in the closed form of all its rows: the closed form    *)
(* satisfies the loop's recursion, and by the first row where another      *)
(* solution would differ, there is no other.                               *)
LEMMA LoopEnds ==
  ASSUME NEW target, NEW rows \in Seq(Row),
         NEW found \in [NumbersIn(rows) -> Values \cup {NoValue}]
  PROVE  LoopImport(target, rows, found) = Sofar(target, rows, found, Len(rows))
<1> DEFINE N == Len(rows)
           s0 == [imported |-> 0, others |-> 0, written |-> found]
           Solves(f) == f = [r \in 0..N |-> IF r = 0 THEN s0
                                            ELSE ImportRow(target, f[r - 1], rows[r])]
           G == [r \in 0..N |-> Sofar(target, rows, found, r)]
           L == LoopStates(target, rows, found)
<1>0. N \in Nat OBVIOUS
<1>1. G[0] = s0
  <2>1. Sofar(target, rows, found, 0) = s0 BY LoopBegins
  <2> QED BY <1>0, <2>1
<1>2. ASSUME NEW r \in 1..N PROVE G[r] = ImportRow(target, G[r - 1], rows[r])
  <2>1. r \in 0..N /\ r - 1 \in 0..N BY <1>0
  <2>2. G[r] = Sofar(target, rows, found, r) /\ G[r - 1] = Sofar(target, rows, found, r - 1)
    BY <2>1
  <2> QED BY <2>2, LoopContinues
<1>3. Solves(G)
  <2> HIDE DEF s0
  <2>1. DOMAIN G = 0..N /\ G = [r \in 0..N |-> G[r]] OBVIOUS
  <2> HIDE DEF G
  <2>2. ASSUME NEW r \in 0..N
        PROVE  G[r] = IF r = 0 THEN s0 ELSE ImportRow(target, G[r - 1], rows[r])
    <3>1. r = 0 \/ r \in 1..N BY <1>0
    <3> QED BY <1>0, <1>1, <1>2, <3>1
  <2> QED BY <2>1, <2>2
<1>4. Solves(L)
  <2>1. L = CHOOSE f : Solves(f) BY DEF LoopStates
  <2> HIDE DEF Solves, L
  <2> QED BY <1>3, <2>1
<1>5. ASSUME NEW r \in 0..N PROVE L[r] = G[r]
  <2> DEFINE Differ == {q \in 0..N : L[q] # G[q]}
  <2>1. SUFFICES ASSUME Differ # {} PROVE FALSE BY <1>5
  <2>2. Differ \subseteq Nat /\ IsFiniteSet(Differ)
    <3>1. IsFiniteSet(0..N) BY <1>0, FS_Interval
    <3>2. Differ \in SUBSET (0..N) /\ 0..N \subseteq Nat BY <1>0
    <3> QED BY <3>1, <3>2, FS_Subset
  <2>3. PICK q \in Differ : \A m \in Differ : q <= m BY <2>1, <2>2, Extremes
  <2> HIDE DEF G, L, s0
  <2>4. L[0] = s0 BY <1>0, <1>4
  <2>5. q \in 1..N /\ q - 1 \in 0..N BY <1>0, <1>1, <2>3, <2>4
  <2>6. L[q - 1] = G[q - 1] BY <2>3, <2>5
  <2>7. L[q] = ImportRow(target, L[q - 1], rows[q]) BY <1>4, <2>5
  <2> QED BY <1>2, <2>3, <2>5, <2>6, <2>7
<1> QED BY <1>0, <1>5 DEF LoopImport

(* And the closed form is what the statements of a chunk compute: the rows *)
(* that stand for a new number are as many as the new numbers.             *)
LEMMA BatchIsTheLoop ==
  ASSUME NEW target, NEW rows \in Seq(Row),
         NEW found \in [NumbersIn(rows) -> Values \cup {NoValue}]
  PROVE  Result(target, rows, found) = LoopImport(target, rows, found)
<1> DEFINE N == Len(rows)
           V == ValidRows(rows)
           I == {n \in DOMAIN found : found[n] = NoValue}
           C == {r \in V : r = ChosenRow(target, rows, rows[r].number) /\ rows[r].number \in I}
<1>0. N \in Nat /\ N \in 0..N /\ V = Filled(rows, N) /\ DOMAIN found = Seen(rows, N)
  BY RowsFacts
<1>1. I = NewAmong(rows, found, N) BY <1>0 DEF NewAmong
<1>2. /\ IsFiniteSet(V) /\ Cardinality(V) \in Nat
      /\ IsFiniteSet(I) /\ Cardinality(I) \in Nat
  BY <1>0, <1>1, SetsAreFinite
<1>3. \A n : ChosenRow(target, rows, n) = Pick(target, RowsOf(rows, N, n))
  BY <1>0 DEF ChosenRow, Pick, RowsOf
<1>4. ASSUME NEW n \in DOMAIN found
      PROVE  ChosenRow(target, rows, n) \in V /\ rows[ChosenRow(target, rows, n)].number = n
  <2>1. RowsOf(rows, N, n) # {} BY <1>0 DEF Seen, RowsOf
  <2>2. Pick(target, RowsOf(rows, N, n)) \in RowsOf(rows, N, n)
    BY <1>0, <2>1, SetsAreFinite, PickIsExtreme
  <2> QED BY <1>0, <1>3, <2>2 DEF RowsOf
<1>5. Written(target, rows, found)
        = [n \in DOMAIN found |-> StandingValue(target, rows, found, N, n)]
  BY <1>0, <1>3 DEF Written, StandingValue
<1>6. Cardinality(C) = Cardinality(I)
  <2> DEFINE f == [n \in I |-> ChosenRow(target, rows, n)]
  <2>1. \A n \in I : ChosenRow(target, rows, n) \in C BY <1>4
  <2>2. \A n \in I, m \in I : f[n] = f[m] => n = m BY <1>4
  <2>3. \A r \in C : rows[r].number \in I /\ f[rows[r].number] = r OBVIOUS
  <2>4. f \in [I -> C] BY <2>1
  <2> HIDE DEF f, C, I
  <2>5. f \in Bijection(I, C)
    BY <2>2, <2>3, <2>4 DEF Bijection, Injection, Surjection, IsInjective
  <2>6. ExistsBijection(I, C) BY <2>5 DEF ExistsBijection
  <2> QED BY <1>2, <2>6, FS_Bijection
<1>7. \A r \in V : rows[r].number \in DOMAIN found
  BY <1>0 DEF Seen
<1>8. {r \in V : r # ChosenRow(target, rows, rows[r].number) \/ rows[r].number \notin I} = V \ C
  OBVIOUS
<1>9. Cardinality(V \ C) = Cardinality(V) - Cardinality(I)
  <2>1. C \in SUBSET V /\ V \cap C = C OBVIOUS
  <2> HIDE DEF C
  <2>2. Cardinality(V \ C) = Cardinality(V) - Cardinality(V \cap C) BY <1>2, FS_Difference
  <2> QED BY <1>6, <2>1, <2>2
<1>10. Result(target, rows, found)
         = [imported |-> Cardinality(I), others |-> Cardinality(V) - Cardinality(I),
            written |-> Written(target, rows, found)]
  BY <1>8, <1>9 DEF Result
<1>11. Sofar(target, rows, found, N)
         = [imported |-> Cardinality(I), others |-> Cardinality(V) - Cardinality(I),
            written |-> Written(target, rows, found)]
  BY <1>0, <1>1, <1>5 DEF Sofar
<1> QED BY <1>10, <1>11, LoopEnds

(* What is known of an import: it holds the least of its numbers, writes   *)
(* only when it holds them all, and has found what is stored.              *)
Contents == Values \cup {NoValue}
JobInv(j) ==
  /\ job[j] = [at |-> job[j].at, target |-> job[j].target, rows |-> job[j].rows,
               held |-> job[j].held, found |-> job[j].found, result |-> job[j].result]
  /\ job[j].at \in {"idle", "open", "committed", "failed"}
  /\ job[j].target \in Targets \cup {"none"}
  /\ job[j].rows \in Files \cup {<<>>} /\ job[j].rows \in Seq(Row)
  /\ job[j].held \subseteq NumbersIn(job[j].rows)
  /\ DOMAIN job[j].found \subseteq NumbersIn(job[j].rows)
  /\ job[j].found \in [DOMAIN job[j].found -> Contents]
  /\ job[j].held # {} => job[j].at = "open"
  /\ job[j].at = "open" => job[j].target \in Targets
  /\ \A n \in job[j].held, m \in ToLock(j) : n < m
  /\ job[j].at = "open" /\ DOMAIN job[j].found # {} => Locked(j)
  /\ job[j].at = "committed" =>
       /\ DOMAIN job[j].found = NumbersIn(job[j].rows)
       /\ job[j].result = Result(job[j].target, job[j].rows, job[j].found)
ImportsInv ==
  /\ stored \in [Targets -> [Numbers -> Contents]] /\ edits \in 0..MaxEdits
  /\ job = [j \in Jobs |-> job[j]]
  /\ \A j \in Jobs : JobInv(j)
  /\ \A j \in Jobs, k \in Jobs : j # k => job[j].held \cap job[k].held = {}

LEMMA EmptyFunction == ASSUME NEW S PROVE <<>> \in [{} -> S] /\ DOMAIN <<>> = {}
OBVIOUS

LEMMA NoRows == <<>> \in Seq(Row) /\ ValidRows(<<>>) = {} /\ NumbersIn(<<>>) = {}
<1>1. <<>> \in Seq(Row) /\ Len(<<>>) = 0 OBVIOUS
<1>2. DOMAIN <<>> = {} OBVIOUS
<1> QED BY <1>1, <1>2 DEF ValidRows, NumbersIn

LEMMA NumbersOfRows ==
  ASSUME NEW rows \in Seq(Row)
  PROVE  NumbersIn(rows) \subseteq Numbers /\ IsFiniteSet(NumbersIn(rows))
         /\ NumbersIn(rows) \subseteq Nat
<1>1. Len(rows) \in 0..Len(rows) BY RowsFacts
<1>2. NumbersIn(rows) \in SUBSET Numbers BY <1>1, SetsAreFinite, RowsFacts
<1>3. Numbers \subseteq Nat /\ IsFiniteSet(Numbers) BY CsvAssumption
<1> QED BY <1>2, <1>3, FS_Subset

LEMMA NextIsLeast ==
  ASSUME NEW j, job[j].rows \in Seq(Row), ~Locked(j)
  PROVE  /\ NextLock(j) \in ToLock(j) /\ NextLock(j) \in Numbers
         /\ \A m \in ToLock(j) : NextLock(j) <= m
<1>1. ToLock(j) \subseteq NumbersIn(job[j].rows) /\ ToLock(j) # {} BY DEF ToLock, Locked
<1>2. ToLock(j) \subseteq Nat /\ IsFiniteSet(ToLock(j)) /\ ToLock(j) \subseteq Numbers
  BY <1>1, NumbersOfRows, FS_Subset
<1>3. \E n \in ToLock(j) : \A m \in ToLock(j) : n <= m BY <1>1, <1>2, Extremes
<1> QED BY <1>2, <1>3 DEF NextLock

LEMMA ImportsBegin == CsvInit => ImportsInv
<1> SUFFICES ASSUME CsvInit PROVE ImportsInv OBVIOUS
<1>1. stored \in [Targets -> [Numbers -> Contents]] BY DEF CsvInit, Contents
<1>2. edits \in 0..MaxEdits BY CsvAssumption DEF CsvInit
<1>3. \A j \in Jobs : job[j] = NotAJob BY DEF CsvInit
<1>4. ASSUME NEW j \in Jobs PROVE JobInv(j)
  <2> USE <1>3, NoRows, EmptyFunction
  <2>1. /\ job[j].at = "idle" /\ job[j].target = "none" /\ job[j].rows = <<>>
        /\ job[j].held = {} /\ job[j].found = <<>> /\ job[j].result = <<>>
    BY DEF NotAJob
  <2>2. job[j] = [at |-> job[j].at, target |-> job[j].target, rows |-> job[j].rows,
                  held |-> job[j].held, found |-> job[j].found, result |-> job[j].result]
    BY <2>1 DEF NotAJob
  <2> QED BY <2>1, <2>2 DEF JobInv
<1> QED BY <1>1, <1>2, <1>3, <1>4 DEF ImportsInv, CsvInit, NotAJob

(* A step of one import leaves the others alone.                           *)
LEMMA OneImportMoves ==
  ASSUME ImportsInv, NEW j \in Jobs, NEW new, job' = [job EXCEPT ![j] = new],
         stored' \in [Targets -> [Numbers -> Contents]], edits' \in 0..MaxEdits,
         JobInv(j)', \A k \in Jobs \ {j} : job[k].held \cap new.held = {}
  PROVE  ImportsInv'
<1>1. job' = [k \in Jobs |-> job'[k]] BY DEF ImportsInv
<1>2. \A k \in Jobs : job'[k] = IF k = j THEN new ELSE job[k] BY DEF ImportsInv
<1>3. ASSUME NEW k \in Jobs \ {j} PROVE JobInv(k)'
  <2>1. job'[k] = job[k] /\ JobInv(k) BY <1>2 DEF ImportsInv
  <2> QED BY <2>1 DEF JobInv, ToLock, Locked
<1>4. \A k \in Jobs : JobInv(k)' BY <1>3
<1>5. ASSUME NEW k \in Jobs, NEW l \in Jobs, k # l PROVE job'[k].held \cap job'[l].held = {}
  BY <1>2, <1>5 DEF ImportsInv
<1> QED BY <1>1, <1>4, <1>5 DEF ImportsInv

(* The records of imports, field by field.                                 *)
LEMMA FailedFields ==
  ASSUME NEW x
  PROVE  [NotAJob EXCEPT !.at = x]
           = [at |-> x, target |-> "none", rows |-> <<>>, held |-> {}, found |-> <<>>, result |-> <<>>]
<1>1. PICK e : e = <<>> OBVIOUS
<1>2. PICK i, t, h : i = "idle" /\ t = "none" /\ h = {} OBVIOUS
<1>3. PICK old : old = [at |-> i, target |-> t, rows |-> e, held |-> h, found |-> e, result |-> e]
  OBVIOUS
<1>4. NotAJob = old BY <1>1, <1>2, <1>3 DEF NotAJob
<1>5. PICK new : new = [at |-> x, target |-> t, rows |-> e, held |-> h, found |-> e, result |-> e]
  OBVIOUS
<1>6. PICK o : o = [old EXCEPT !.at = x] OBVIOUS
<1>7. DOMAIN o = DOMAIN new /\ o = [q \in DOMAIN o |-> o[q]] /\ new = [q \in DOMAIN new |-> new[q]]
  BY <1>3, <1>5, <1>6
<1>8. /\ o.at = new.at /\ o.target = new.target /\ o.rows = new.rows
      /\ o.held = new.held /\ o.found = new.found /\ o.result = new.result
  BY <1>3, <1>5, <1>6
<1>9. DOMAIN new = {"at", "target", "rows", "held", "found", "result"} BY <1>5
<1>10. \A q \in DOMAIN new : o[q] = new[q] BY <1>8, <1>9
<1>11. o = new BY <1>7, <1>10
<1> QED BY <1>1, <1>2, <1>4, <1>5, <1>6, <1>11

LEMMA OpenFields ==
  ASSUME NEW x, NEW y, NEW z
  PROVE  [NotAJob EXCEPT !.at = x, !.target = y, !.rows = z]
           = [at |-> x, target |-> y, rows |-> z, held |-> {}, found |-> <<>>, result |-> <<>>]
<1>1. PICK e : e = <<>> OBVIOUS
<1>2. PICK i, t, h : i = "idle" /\ t = "none" /\ h = {} OBVIOUS
<1>3. PICK old : old = [at |-> i, target |-> t, rows |-> e, held |-> h, found |-> e, result |-> e]
  OBVIOUS
<1>4. NotAJob = old BY <1>1, <1>2, <1>3 DEF NotAJob
<1>5. PICK new : new = [at |-> x, target |-> y, rows |-> z, held |-> h, found |-> e, result |-> e]
  OBVIOUS
<1>6. PICK o : o = [old EXCEPT !.at = x, !.target = y, !.rows = z] OBVIOUS
<1>7. DOMAIN o = DOMAIN new /\ o = [q \in DOMAIN o |-> o[q]] /\ new = [q \in DOMAIN new |-> new[q]]
  BY <1>3, <1>5, <1>6
<1>8. /\ o.at = new.at /\ o.target = new.target /\ o.rows = new.rows
      /\ o.held = new.held /\ o.found = new.found /\ o.result = new.result
  BY <1>3, <1>5, <1>6
<1>9. DOMAIN new = {"at", "target", "rows", "held", "found", "result"} BY <1>5
<1>10. \A q \in DOMAIN new : o[q] = new[q] BY <1>8, <1>9
<1>11. o = new BY <1>7, <1>10
<1> QED BY <1>1, <1>2, <1>4, <1>5, <1>6, <1>11

LEMMA ClosedFields ==
  ASSUME NEW y, NEW z, NEW w
  PROVE  [NotAJob EXCEPT !.at = "committed", !.target = y, !.rows = z, !.result = w]
           = [at |-> "committed", target |-> y, rows |-> z, held |-> {}, found |-> <<>>, result |-> w]
<1>1. PICK e : e = <<>> OBVIOUS
<1>2. PICK i, t, h : i = "idle" /\ t = "none" /\ h = {} OBVIOUS
<1>3. PICK old : old = [at |-> i, target |-> t, rows |-> e, held |-> h, found |-> e, result |-> e]
  OBVIOUS
<1>4. NotAJob = old BY <1>1, <1>2, <1>3 DEF NotAJob
<1>5. PICK new : new = [at |-> "committed", target |-> y, rows |-> z, held |-> h, found |-> e, result |-> w]
  OBVIOUS
<1>6. PICK o : o = [old EXCEPT !.at = "committed", !.target = y, !.rows = z, !.result = w] OBVIOUS
<1>7. DOMAIN o = DOMAIN new /\ o = [q \in DOMAIN o |-> o[q]] /\ new = [q \in DOMAIN new |-> new[q]]
  BY <1>3, <1>5, <1>6
<1>8. /\ o.at = new.at /\ o.target = new.target /\ o.rows = new.rows
      /\ o.held = new.held /\ o.found = new.found /\ o.result = new.result
  BY <1>3, <1>5, <1>6
<1>9. DOMAIN new = {"at", "target", "rows", "held", "found", "result"} BY <1>5
<1>10. \A q \in DOMAIN new : o[q] = new[q] BY <1>8, <1>9
<1>11. o = new BY <1>7, <1>10
<1> QED BY <1>1, <1>2, <1>4, <1>5, <1>6, <1>11

LEMMA CommittedFields ==
  ASSUME NEW a, NEW t, NEW r, NEW h, NEW f, NEW s, NEW x, NEW y, NEW z, NEW w
  PROVE  [[at |-> a, target |-> t, rows |-> r, held |-> h, found |-> f, result |-> s]
           EXCEPT !.at = x, !.held = y, !.result = z] = [at |-> x, target |-> t, rows |-> r, held |-> y, found |-> f, result |-> z]
<1> DEFINE old == [at |-> a, target |-> t, rows |-> r, held |-> h, found |-> f, result |-> s]
           new == [at |-> x, target |-> t, rows |-> r, held |-> y, found |-> f, result |-> z]
<1>1. PICK o : o = [old EXCEPT !.at = x, !.held = y, !.result = z] OBVIOUS
<1>2. DOMAIN o = DOMAIN new /\ o = [i \in DOMAIN o |-> o[i]] /\ new = [i \in DOMAIN new |-> new[i]]
  BY <1>1
<1>3. \A i \in DOMAIN new : o[i] = new[i] BY <1>1
<1> QED BY <1>1, <1>2, <1>3

LEMMA StartKeepsImports ==
  ASSUME ImportsInv, NEW j \in Jobs, StartImport(j) PROVE ImportsInv'
<1>1. PICK target \in Targets, rows \in Files :
        job' = [job EXCEPT ![j] =
                 IF target = "suppression" /\ ValidRows(rows) = {}
                 THEN [NotAJob EXCEPT !.at = "committed", !.target = target, !.rows = rows,
                                      !.result = Result(target, rows, <<>>)]
                 ELSE [NotAJob EXCEPT !.at = "open", !.target = target, !.rows = rows]]
  BY DEF StartImport
<1> DEFINE done == target = "suppression" /\ ValidRows(rows) = {}
           res == IF done THEN Result(target, rows, <<>>) ELSE <<>>
           new == [at |-> IF done THEN "committed" ELSE "open", target |-> target,
                   rows |-> rows, held |-> {}, found |-> <<>>, result |-> res]
<1>2. job' = [job EXCEPT ![j] = new]
  <2>1. [NotAJob EXCEPT !.at = "committed", !.target = target, !.rows = rows,
                        !.result = Result(target, rows, <<>>)]
          = [at |-> "committed", target |-> target, rows |-> rows, held |-> {},
             found |-> <<>>, result |-> Result(target, rows, <<>>)]
    <3>1. PICK u : u = Result(target, rows, <<>>) OBVIOUS
    <3>2. [NotAJob EXCEPT !.at = "committed", !.target = target, !.rows = rows, !.result = u]
            = [at |-> "committed", target |-> target, rows |-> rows, held |-> {},
               found |-> <<>>, result |-> u]
      BY ClosedFields
    <3> QED BY <3>1, <3>2
  <2>2. [NotAJob EXCEPT !.at = "open", !.target = target, !.rows = rows]
          = [at |-> "open", target |-> target, rows |-> rows, held |-> {},
             found |-> <<>>, result |-> <<>>]
    BY OpenFields
  <2>3. CASE done BY <1>1, <2>1, <2>3
  <2>4. CASE ~done BY <1>1, <2>2, <2>4
  <2> QED BY <2>3, <2>4
<1>3. job'[j] = new BY <1>2 DEF ImportsInv
<1>4. rows \in Seq(Row) BY CsvAssumption
<1>5. done => NumbersIn(rows) = {} BY DEF NumbersIn
<1> HIDE DEF done, res
<1>6. JobInv(j)'
  <2>1. /\ job'[j].at = (IF done THEN "committed" ELSE "open") /\ job'[j].target = target
        /\ job'[j].rows = rows /\ job'[j].held = {} /\ job'[j].found = <<>>
        /\ job'[j].result = res
    BY <1>3
  <2>2. job'[j] = [at |-> job'[j].at, target |-> job'[j].target, rows |-> job'[j].rows,
                   held |-> job'[j].held, found |-> job'[j].found, result |-> job'[j].result]
    BY <1>3, <2>1
  <2> HIDE DEF new
  <2> QED BY <1>4, <1>5, <2>1, <2>2, EmptyFunction DEF JobInv, res
<1>7. /\ stored' \in [Targets -> [Numbers -> Contents]] /\ edits' \in 0..MaxEdits
  BY DEF StartImport, ImportsInv
<1>8. \A k \in Jobs \ {j} : job[k].held \cap new.held = {} OBVIOUS
<1> QED BY <1>2, <1>6, <1>7, <1>8, OneImportMoves

LEMMA LockKeepsImports ==
  ASSUME ImportsInv, NEW j \in Jobs, LockNumber(j) PROVE ImportsInv'
<1> DEFINE n == NextLock(j)
           new == [job[j] EXCEPT !.held = @ \cup {n}]
<1>1. JobInv(j) BY DEF ImportsInv
<1>2. job[j].rows \in Seq(Row) /\ ~Locked(j) /\ ~Waiting(j) /\ job[j].at = "open"
  BY <1>1 DEF LockNumber, JobInv
<1>3. n \in ToLock(j) /\ \A m \in ToLock(j) : n <= m BY <1>2, NextIsLeast
<1>4. \A m \in NumbersIn(job[j].rows) : m \in Nat BY <1>2, NumbersOfRows
<1> HIDE DEF n
<1>5. job' = [job EXCEPT ![j] = new]
  BY DEF LockNumber, n
<1>6. job'[j] = new BY <1>5 DEF ImportsInv
<1>7. /\ job'[j].at = "open" /\ job'[j].target = job[j].target /\ job'[j].rows = job[j].rows
      /\ job'[j].held = job[j].held \cup {n} /\ job'[j].found = job[j].found
      /\ job'[j].result = job[j].result
      /\ job'[j] = [at |-> job'[j].at, target |-> job'[j].target, rows |-> job'[j].rows,
                    held |-> job'[j].held, found |-> job'[j].found, result |-> job'[j].result]
  <2>1. job[j] = [at |-> job[j].at, target |-> job[j].target, rows |-> job[j].rows,
               held |-> job[j].held, found |-> job[j].found, result |-> job[j].result]
    BY <1>1 DEF JobInv
  <2>2. new = [at |-> job[j].at, target |-> job[j].target, rows |-> job[j].rows,
               held |-> job[j].held \cup {n}, found |-> job[j].found, result |-> job[j].result]
    BY <2>1
  <2> QED BY <1>2, <1>6, <2>2
<1> HIDE DEF new
<1>8. ToLock(j)' = ToLock(j) \ {n} BY <1>7 DEF ToLock
<1>9. \A h \in job'[j].held, m \in ToLock(j)' : h < m
  <2> SUFFICES ASSUME NEW h \in job'[j].held, NEW m \in ToLock(j)' PROVE h < m OBVIOUS
  <2>1. m \in ToLock(j) /\ m # n BY <1>8
  <2>2. m \in Nat /\ n \in Nat BY <1>3, <1>4, <2>1 DEF ToLock
  <2>3. h \in job[j].held => h < m BY <1>1, <2>1 DEF JobInv
  <2> QED BY <1>3, <1>7, <2>1, <2>2, <2>3
<1>10. n \in NumbersIn(job[j].rows) BY <1>3 DEF ToLock
<1>11. DOMAIN job[j].found = {}
  BY <1>1, <1>2 DEF JobInv
<1>12. JobInv(j)' BY <1>1, <1>2, <1>7, <1>9, <1>10, <1>11 DEF JobInv
<1>13. \A k \in Jobs \ {j} : job[k].held \cap new.held = {}
  <2>1. new.held = job[j].held \cup {n} BY <1>6, <1>7
  <2>2. \A k \in Jobs \ {j} : n \notin job[k].held BY <1>2 DEF Waiting, n
  <2> QED BY <2>1, <2>2 DEF ImportsInv
<1>14. /\ stored' \in [Targets -> [Numbers -> Contents]] /\ edits' \in 0..MaxEdits
  BY DEF LockNumber, ImportsInv
<1> QED BY <1>5, <1>12, <1>13, <1>14, OneImportMoves

LEMMA WriteKeepsImports ==
  ASSUME ImportsInv, NEW j \in Jobs, WriteChunk(j) PROVE ImportsInv'
<1> DEFINE left == NumbersIn(job[j].rows) \ DOMAIN job[j].found
           chunk == {n \in left : Cardinality({m \in left : m < n}) < ChunkSize}
           found == [n \in DOMAIN job[j].found \cup chunk |->
                       IF n \in chunk THEN stored[job[j].target][n] ELSE job[j].found[n]]
           new == [job[j] EXCEPT !.found = found]
<1>1. JobInv(j) BY DEF ImportsInv
<1>2. job[j].at = "open" /\ Locked(j) /\ job[j].target \in Targets
  BY <1>1 DEF WriteChunk, JobInv
<1>3. job' = [job EXCEPT ![j] = new] BY DEF WriteChunk
<1>4. chunk \subseteq NumbersIn(job[j].rows) OBVIOUS
<1> HIDE DEF chunk
<1>5. DOMAIN found = DOMAIN job[j].found \cup chunk OBVIOUS
<1>6. found \in [DOMAIN found -> Contents]
  <2>1. chunk \subseteq Numbers BY <1>1, <1>4, NumbersOfRows DEF JobInv
  <2>2. \A n \in chunk : stored[job[j].target][n] \in Contents BY <1>2, <2>1 DEF ImportsInv
  <2>3. \A n \in DOMAIN job[j].found : job[j].found[n] \in Contents BY <1>1 DEF JobInv
  <2> QED BY <2>2, <2>3
<1> HIDE DEF found
<1>7. /\ job'[j].at = "open" /\ job'[j].target = job[j].target /\ job'[j].rows = job[j].rows
      /\ job'[j].held = job[j].held /\ job'[j].found = found
      /\ job'[j].result = job[j].result /\ new.held = job[j].held
      /\ job'[j] = [at |-> job'[j].at, target |-> job'[j].target, rows |-> job'[j].rows,
                    held |-> job'[j].held, found |-> job'[j].found, result |-> job'[j].result]
  <2>1. job[j] = [at |-> job[j].at, target |-> job[j].target, rows |-> job[j].rows,
               held |-> job[j].held, found |-> job[j].found, result |-> job[j].result]
    BY <1>1 DEF JobInv
  <2>2. new = [at |-> job[j].at, target |-> job[j].target, rows |-> job[j].rows,
               held |-> job[j].held, found |-> found, result |-> job[j].result]
    BY <2>1
  <2>3. job'[j] = new BY <1>3 DEF ImportsInv
  <2> QED BY <1>2, <2>2, <2>3
<1> HIDE DEF new
<1>8. ToLock(j)' = ToLock(j) BY <1>7 DEF ToLock
<1>9. JobInv(j)' BY <1>1, <1>2, <1>4, <1>5, <1>6, <1>7, <1>8 DEF JobInv, Locked
<1>10. \A k \in Jobs \ {j} : job[k].held \cap new.held = {} BY <1>7 DEF ImportsInv
<1>11. /\ stored' \in [Targets -> [Numbers -> Contents]] /\ edits' \in 0..MaxEdits
  BY DEF WriteChunk, ImportsInv
<1> QED BY <1>3, <1>9, <1>10, <1>11, OneImportMoves

LEMMA WrittenAreContents ==
  ASSUME NEW target, NEW rows \in Seq(Row),
         NEW found \in [NumbersIn(rows) -> Contents], NEW n \in NumbersIn(rows)
  PROVE  Written(target, rows, found)[n] \in Contents
<1> DEFINE S == RowsOf(rows, Len(rows), n)
<1>0. Len(rows) \in 0..Len(rows) /\ ValidRows(rows) = Filled(rows, Len(rows)) BY RowsFacts
<1>1. S # {} /\ S \subseteq 1..Len(rows) BY <1>0 DEF NumbersIn, RowsOf, Filled
<1>2. Pick(target, S) \in S BY <1>0, <1>1, SetsAreFinite, PickIsExtreme
<1>3. ChosenRow(target, rows, n) = Pick(target, S) BY <1>0 DEF ChosenRow, Pick, RowsOf
<1>4. rows[ChosenRow(target, rows, n)].value \in Values BY <1>1, <1>2, <1>3, RowsFacts
<1>5. Written(target, rows, found)[n]
        = IF target = "suppression" \/ found[n] = NoValue
          THEN rows[ChosenRow(target, rows, n)].value ELSE found[n]
  BY DEF Written
<1> QED BY <1>4, <1>5 DEF Contents

LEMMA CommitKeepsImports ==
  ASSUME ImportsInv, NEW j \in Jobs, CommitImport(j) PROVE ImportsInv'
<1> DEFINE t == job[j].target
           outcome == Result(t, job[j].rows, job[j].found)
           new == [job[j] EXCEPT !.at = "committed", !.held = {}, !.result = outcome]
<1>1. JobInv(j) BY DEF ImportsInv
<1>2. /\ job[j].at = "open" /\ t \in Targets /\ DOMAIN job[j].found = NumbersIn(job[j].rows)
      /\ job[j].rows \in Seq(Row) /\ job[j].found \in [NumbersIn(job[j].rows) -> Contents]
  BY <1>1 DEF CommitImport, JobInv
<1>3. outcome.written = Written(t, job[j].rows, job[j].found)
      /\ DOMAIN outcome.written = NumbersIn(job[j].rows)
  BY <1>2 DEF Result, Written
<1> HIDE DEF outcome
<1>4. /\ stored' = [stored EXCEPT ![t] =
                      [n \in Numbers |-> IF n \in DOMAIN outcome.written
                                         THEN outcome.written[n] ELSE stored[t][n]]]
      /\ job' = [job EXCEPT ![j] = [job[j] EXCEPT !.at = "committed", !.held = {},
                                                  !.result = outcome]]
      /\ edits' = edits
  BY DEF CommitImport, outcome
<1>5. stored' \in [Targets -> [Numbers -> Contents]]
  <2>1. \A n \in DOMAIN outcome.written : outcome.written[n] \in Contents
    BY <1>2, <1>3, WrittenAreContents
  <2>2. stored \in [Targets -> [Numbers -> Contents]] BY DEF ImportsInv
  <2>3. [n \in Numbers |-> IF n \in DOMAIN outcome.written
                           THEN outcome.written[n] ELSE stored[t][n]] \in [Numbers -> Contents]
    BY <1>2, <2>1, <2>2
  <2> QED BY <1>4, <2>2, <2>3
<1>6. /\ job'[j].at = "committed" /\ job'[j].target = t /\ job'[j].rows = job[j].rows
      /\ job'[j].held = {} /\ job'[j].found = job[j].found
      /\ job'[j].result = outcome /\ new.held = {}
      /\ job'[j] = [at |-> job'[j].at, target |-> job'[j].target, rows |-> job'[j].rows,
                    held |-> job'[j].held, found |-> job'[j].found, result |-> job'[j].result]
  <2>1. job[j] = [at |-> job[j].at, target |-> job[j].target, rows |-> job[j].rows,
               held |-> job[j].held, found |-> job[j].found, result |-> job[j].result]
    BY <1>1 DEF JobInv
  <2>2. new = [at |-> "committed", target |-> job[j].target, rows |-> job[j].rows,
               held |-> {}, found |-> job[j].found, result |-> outcome]
    <3> DEFINE old == [at |-> job[j].at, target |-> job[j].target, rows |-> job[j].rows,
                       held |-> job[j].held, found |-> job[j].found, result |-> job[j].result]
    <3>1. new = [old EXCEPT !.at = "committed", !.held = {}, !.result = outcome] BY <2>1
    <3> HIDE DEF new
    <3> QED BY <3>1, CommittedFields
  <2>3. job'[j] = new BY <1>4 DEF ImportsInv
  <2> QED BY <2>2, <2>3
<1> HIDE DEF new
<1>7. JobInv(j)'
  <2>1. job'[j].result = Result(job'[j].target, job'[j].rows, job'[j].found)
    BY <1>6 DEF outcome
  <2> QED BY <1>1, <1>2, <1>6, <2>1 DEF JobInv
<1>8. \A k \in Jobs \ {j} : job[k].held \cap new.held = {} BY <1>6
<1>9. edits' \in 0..MaxEdits BY <1>4 DEF ImportsInv
<1>10. job' = [job EXCEPT ![j] = new] BY <1>4 DEF new
<1> QED BY <1>5, <1>7, <1>8, <1>9, <1>10, OneImportMoves

LEMMA FailKeepsImports ==
  ASSUME ImportsInv, NEW j \in Jobs, FailImport(j) PROVE ImportsInv'
<1> DEFINE new == [NotAJob EXCEPT !.at = "failed"]
<1>1. job' = [job EXCEPT ![j] = new] /\ UNCHANGED <<stored, edits>> BY DEF FailImport
<1>2. new = [at |-> "failed", target |-> "none", rows |-> <<>>, held |-> {},
             found |-> <<>>, result |-> <<>>]
  BY FailedFields
<1>3. job'[j] = new BY <1>1 DEF ImportsInv
<1> HIDE DEF new
<1>4. /\ job'[j].at = "failed" /\ job'[j].target = "none" /\ job'[j].rows = <<>>
      /\ job'[j].held = {} /\ job'[j].found = <<>> /\ new.held = {}
      /\ job'[j] = [at |-> job'[j].at, target |-> job'[j].target, rows |-> job'[j].rows,
                    held |-> job'[j].held, found |-> job'[j].found, result |-> job'[j].result]
  BY <1>2, <1>3
<1>5. JobInv(j)' BY <1>4, NoRows, EmptyFunction DEF JobInv
<1>6. /\ stored' \in [Targets -> [Numbers -> Contents]] /\ edits' \in 0..MaxEdits
  BY <1>1 DEF ImportsInv
<1> QED BY <1>1, <1>4, <1>5, <1>6, OneImportMoves

LEMMA EditKeepsImports ==
  ASSUME ImportsInv, NEW n \in Numbers, EditEntry(n) PROVE ImportsInv'
<1>1. "suppression" \in Targets BY DEF Targets
<1>2. PICK v \in Contents : stored' = [stored EXCEPT !["suppression"][n] = v]
  BY DEF EditEntry, Contents
<1>3. stored' \in [Targets -> [Numbers -> Contents]] BY <1>1, <1>2 DEF ImportsInv
<1>4. edits' \in 0..MaxEdits BY CsvAssumption DEF EditEntry, ImportsInv
<1>5. job' = job BY DEF EditEntry
<1> QED BY <1>3, <1>4, <1>5 DEF ImportsInv, JobInv, ToLock, Locked

LEMMA ImportsStep == ASSUME ImportsInv, [CsvNext]_csvVars PROVE ImportsInv'
<1>1. ASSUME NEW j \in Jobs, StartImport(j) \/ LockNumber(j) \/ WriteChunk(j)
                               \/ CommitImport(j) \/ FailImport(j)
      PROVE  ImportsInv'
  BY <1>1, StartKeepsImports, LockKeepsImports, WriteKeepsImports, CommitKeepsImports,
     FailKeepsImports
<1>2. CASE UNCHANGED csvVars
  BY <1>2 DEF csvVars, ImportsInv, JobInv, ToLock, Locked
<1> QED BY <1>1, <1>2, EditKeepsImports DEF CsvNext

(* Whoever waits, some import runs: the one that waits for the greatest    *)
(* number waits for one that holds it and waits for nothing greater.       *)
LEMMA SomeImportRuns == ImportsInv => ImportsDoNotDeadlock
<1> SUFFICES ASSUME ImportsInv, NEW i \in Jobs, Waiting(i)
             PROVE  \E k \in Jobs : job[k].at = "open" /\ ~Waiting(k)
  BY DEF ImportsDoNotDeadlock
<1> DEFINE W == {j \in Jobs : Waiting(j)}
           T == {NextLock(j) : j \in W}
<1>1. \A j \in W : job[j].rows \in Seq(Row) /\ ~Locked(j) BY DEF Waiting, ImportsInv, JobInv
<1>2. \A j \in W : NextLock(j) \in ToLock(j) /\ NextLock(j) \in Numbers BY <1>1, NextIsLeast
<1>3. T \in SUBSET Numbers /\ T # {} BY <1>2
<1>4. Numbers \subseteq Nat /\ IsFiniteSet(Numbers) BY CsvAssumption
<1>5. T \subseteq Nat /\ IsFiniteSet(T) BY <1>3, <1>4, FS_Subset
<1>6. PICK j \in W : \A m \in T : m <= NextLock(j)
  <2> HIDE DEF W
  <2>1. \E n \in T : \A m \in T : m <= n BY <1>3, <1>5, Extremes
  <2> QED BY <2>1
<1>7. PICK k \in Jobs : NextLock(j) \in job[k].held BY DEF Waiting
<1>8. job[k].at = "open" BY <1>7 DEF ImportsInv, JobInv
<1>9. ~Waiting(k)
  <2> SUFFICES ASSUME Waiting(k) PROVE FALSE OBVIOUS
  <2>1. k \in W /\ NextLock(k) \in T OBVIOUS
  <2>2. NextLock(k) <= NextLock(j) BY <1>6, <2>1
  <2>3. NextLock(j) < NextLock(k) BY <1>2, <1>7, <2>1 DEF ImportsInv, JobInv
  <2>4. NextLock(j) \in Nat /\ NextLock(k) \in Nat BY <1>2, <1>4, <2>1
  <2> QED BY <2>2, <2>3, <2>4
<1> QED BY <1>8, <1>9

(* An import that has committed did what the loop over its rows would have *)
(* done, imports never wait in a circle, and two that share a number do    *)
(* not overlap.                                                            *)
THEOREM ImportsStayExact == CsvSpec => []ImportsAreExact
<1>1. ImportsInv => BatchEqualsLoop
  <2> SUFFICES ASSUME ImportsInv, NEW j \in Jobs, job[j].at = "committed"
               PROVE  job[j].result = LoopImport(job[j].target, job[j].rows, job[j].found)
    BY DEF BatchEqualsLoop
  <2>1. /\ job[j].rows \in Seq(Row)
        /\ job[j].found \in [NumbersIn(job[j].rows) -> Values \cup {NoValue}]
        /\ job[j].result = Result(job[j].target, job[j].rows, job[j].found)
    BY DEF ImportsInv, JobInv, Contents
  <2> QED BY <2>1, BatchIsTheLoop
<1>2. ImportsInv => SharedNumbersAreSerial
  BY DEF ImportsInv, JobInv, SharedNumbersAreSerial, Locked, ToLock
<1>3. ImportsInv => ImportsAreExact BY <1>1, <1>2, SomeImportRuns DEF ImportsAreExact
<1> QED BY <1>3, ImportsBegin, ImportsStep, PTL DEF CsvSpec

(* The imports are well typed.                                             *)
THEOREM ImportTypesCorrect == CsvSpec => []CsvTypeOK
<1>1. ImportsInv => CsvTypeOK
  <2> SUFFICES ASSUME ImportsInv PROVE CsvTypeOK OBVIOUS
  <2>1. \A j \in Jobs : NumbersIn(job[j].rows) \subseteq Numbers
    BY NumbersOfRows DEF ImportsInv, JobInv
  <2> QED BY <2>1 DEF CsvTypeOK, ImportsInv, JobInv, Contents
<1> QED BY <1>1, ImportsBegin, ImportsStep, PTL DEF CsvSpec
==============================================================================
