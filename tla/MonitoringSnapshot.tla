------------------------- MODULE MonitoringSnapshot -------------------------
(***************************************************************************)
(* The gauges of /metrics, refreshed by a timer from the database, the SIP *)
(* trunk and FreeSWITCH (apps/api/src/metrics.ts).  The queries share one  *)
(* client of the pool and are chained by promises, so that each is issued  *)
(* when the one before it is answered, whether or not anybody still waits. *)
(* Of the database only how often it has changed is kept; a group of       *)
(* gauges is the change its query saw.                                     *)
(***************************************************************************)
EXTENDS Naturals, Sequences

CONSTANTS Queries,      \* how many there are: 9
          MaxDbChanges, MaxRefreshes

ASSUME MonitoringAssumption ==
  Queries \in Nat \ {0} /\ MaxDbChanges \in Nat /\ MaxRefreshes \in Nat

VARIABLES dbChanges,  \* changes of the database so far
          borrower,   \* who uses the client: "pool", "refresh" or "request"
          chain,      \* the queries answered, with what they saw
          refresh,    \* refreshPromise and its database part
          remote,     \* the parts that ask FreeSWITCH
          gauges,     \* what a scrape is answered with
          refreshes
monitoringVars == <<dbChanges, borrower, chain, refresh, remote, gauges, refreshes>>

RemoteParts == {"trunk", "runtime"}
NewChain == [seen |-> <<>>, inFlight |-> FALSE, broken |-> FALSE]
NoRefresh == [at |-> "idle", since |-> 0, ok |-> TRUE]

MonitoringInit ==
  /\ dbChanges = 0 /\ borrower = "pool"
  /\ chain = [NewChain EXCEPT !.broken = TRUE] /\ refresh = NoRefresh
  /\ remote = [p \in RemoteParts |-> "done"]
  /\ gauges = [seen |-> [q \in 1..Queries |-> 0], since |-> 0, up |-> FALSE, fresh |-> 0,
               remote |-> [p \in RemoteParts |-> FALSE]]
  /\ refreshes = 0

-----------------------------------------------------------------------------
(* A refresh.                                                              *)

\* onReady and the interval; a refresh under way is shared.  The pool has a
\* client, or connecting fails.
StartRefresh ==
  /\ refresh.at = "idle" /\ refreshes < MaxRefreshes
  /\ refreshes' = refreshes + 1
  /\ remote' = [p \in RemoteParts |-> "asked"]
  /\ \/ /\ borrower = "pool" /\ borrower' = "refresh"
        /\ chain' = NewChain
        /\ refresh' = [NoRefresh EXCEPT !.at = "reading", !.since = dbChanges]
        /\ UNCHANGED gauges
     \/ /\ refresh' = [NoRefresh EXCEPT !.at = "done", !.ok = FALSE]
        /\ gauges' = [gauges EXCEPT !.up = FALSE]
        /\ UNCHANGED <<borrower, chain>>
  /\ UNCHANGED dbChanges

\* previousQuery.then
IssueQuery ==
  /\ ~chain.inFlight /\ ~chain.broken /\ Len(chain.seen) < Queries
  /\ chain' = [chain EXCEPT !.inFlight = TRUE]
  /\ UNCHANGED <<dbChanges, borrower, refresh, remote, gauges, refreshes>>

\* Each statement of the transaction sees what is committed when it begins.
QueryAnswers ==
  /\ chain.inFlight
  /\ chain' = [chain EXCEPT !.inFlight = FALSE, !.seen = Append(@, dbChanges)]
  /\ UNCHANGED <<dbChanges, borrower, refresh, remote, gauges, refreshes>>

QueryFails ==
  /\ chain.inFlight
  /\ chain' = [chain EXCEPT !.inFlight = FALSE, !.broken = TRUE]
  /\ refresh' = [refresh EXCEPT !.at = IF @ = "reading" THEN "rollback" ELSE @]
  /\ UNCHANGED <<dbChanges, borrower, remote, gauges, refreshes>>

\* Every gauge is set in one go when the last query is answered.
SetGauges ==
  /\ refresh.at = "reading" /\ Len(chain.seen) = Queries
  /\ gauges' = [gauges EXCEPT !.seen = chain.seen, !.since = refresh.since]
  /\ refresh' = [refresh EXCEPT !.at = "commit"]
  /\ UNCHANGED <<dbChanges, borrower, chain, remote, refreshes>>

CommitRefresh ==
  /\ refresh.at = "commit"
  /\ \/ /\ refresh' = [refresh EXCEPT !.at = "done"]
        /\ gauges' = [gauges EXCEPT !.up = TRUE] /\ borrower' = "pool"
     \/ refresh' = [refresh EXCEPT !.at = "rollback"] /\ UNCHANGED <<gauges, borrower>>
  /\ UNCHANGED <<dbChanges, chain, remote, refreshes>>

\* The rollback, which may fail, and the release of the client.
RollBack ==
  /\ refresh.at = "rollback"
  /\ refresh' = [refresh EXCEPT !.at = "done", !.ok = FALSE]
  /\ gauges' = [gauges EXCEPT !.up = FALSE] /\ borrower' = "pool"
  /\ UNCHANGED <<dbChanges, chain, remote, refreshes>>

\* refreshSipTrunkMetrics and refreshFreeSwitchRuntimeMetrics show what
\* FreeSWITCH answers, and nothing when it does not.
RemoteAnswers(p, ok) ==
  /\ remote[p] = "asked"
  /\ remote' = [remote EXCEPT ![p] = IF ok THEN "done" ELSE "failed"]
  /\ gauges' = [gauges EXCEPT !.remote[p] = ok]
  /\ UNCHANGED <<dbChanges, borrower, chain, refresh, refreshes>>

FinishRefresh ==
  /\ refresh.at = "done" /\ \A p \in RemoteParts : remote[p] # "asked"
  /\ gauges' = [gauges EXCEPT !.fresh =
                  IF refresh.ok /\ \A p \in RemoteParts : remote[p] = "done" THEN refreshes ELSE @]
  /\ refresh' = NoRefresh
  /\ UNCHANGED <<dbChanges, borrower, chain, remote, refreshes>>

-----------------------------------------------------------------------------
(* The rest of the application.                                            *)

DatabaseChanges ==
  /\ dbChanges < MaxDbChanges /\ dbChanges' = dbChanges + 1
  /\ UNCHANGED <<borrower, chain, refresh, remote, gauges, refreshes>>

\* A request takes the client from the pool, and gives it back.
RequestUsesClient ==
  /\ borrower \in {"pool", "request"}
  /\ borrower' = IF borrower = "pool" THEN "request" ELSE "pool"
  /\ UNCHANGED <<dbChanges, chain, refresh, remote, gauges, refreshes>>

MonitoringNext ==
  \/ StartRefresh \/ IssueQuery \/ QueryAnswers \/ QueryFails \/ SetGauges \/ CommitRefresh \/ RollBack
  \/ \E p \in RemoteParts, ok \in BOOLEAN : RemoteAnswers(p, ok)
  \/ FinishRefresh \/ DatabaseChanges \/ RequestUsesClient

MonitoringSpec == MonitoringInit /\ [][MonitoringNext]_monitoringVars

-----------------------------------------------------------------------------
(* Properties.                                                             *)

MonitoringTypeOK ==
  /\ borrower \in {"pool", "refresh", "request"}
  /\ refresh.at \in {"idle", "reading", "commit", "rollback", "done"}
  /\ Len(chain.seen) <= Queries /\ dbChanges \in 0..MaxDbChanges /\ refreshes \in 0..MaxRefreshes
  /\ gauges.seen \in [1..Queries -> 0..MaxDbChanges]

\* A query that failed leaves none behind that would run on a client which
\* somebody else has taken from the pool by then.
ClientIsNotShared == chain.inFlight => borrower = "refresh"

\* The gauges of one scrape belong to one refresh, even when a later one
\* failed half way: none is older than the refresh, or newer than one whose
\* query came later.
GaugesAreOneRefresh ==
  /\ \A q \in 1..Queries : gauges.since <= gauges.seen[q]
  /\ \A q \in 2..Queries : gauges.seen[q - 1] <= gauges.seen[q]

MonitoringIsSound == ClientIsNotShared /\ GaugesAreOneRefresh
=============================================================================
