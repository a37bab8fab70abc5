------------------------------ MODULE CallStore ------------------------------
(***************************************************************************)
(* The durable side of an outbound call: the rows of calls, call_legs,     *)
(* agents and contacts that decide who may dial whom, and one action per   *)
(* transaction, or per autocommit statement, with which the API changes    *)
(* them.  The specification lets every statement run whenever its own      *)
(* WHERE clause and the code's early returns allow, in any order and any   *)
(* number of times: what it promises holds whatever FreeSWITCH, the        *)
(* clients and the timers do.  CallLifecycle orders the statements the way *)
(* the handlers issue them.                                                *)
(*                                                                         *)
(* A row that was never inserted has state "absent".  Columns that only    *)
(* feed reports are left out, a timestamp column is kept as whether it is  *)
(* set, and a leg is kept as whether its state is "ended".                 *)
(***************************************************************************)
CONSTANTS Calls, Agents, Contacts,
          NoAgent,       \* owner of a row that was never inserted
          NoContact,     \* a manual dial reserves no lead
          Causes,        \* hangup causes FreeSWITCH may report
          ChannelEvents, \* <<leg type, event>>: the channel events it may send
          DetectsVoicemail, \* whether it reports answering machines at all
          ManualOutcomes \* the corrections an owner may ask for

SetupStates     == {"agent_ringing", "agent_answered", "customer_dialing", "customer_ringing"}
VoicemailActive == {"voicemail_drop_requested", "voicemail_playback_started", "agent_released"}
Terminal        == {"completed", "failed", "canceled"}
CallStates      == {"absent", "bridged"} \cup SetupStates \cup VoicemailActive \cup Terminal
Outcomes        == {"answered", "not_answered", "busy", "failed", "voicemail_detected",
                    "voicemail_dropped", "agent_canceled", "customer_hung_up", "suppressed"}
Resolvers       == Causes \cup {"failure", "missing", "repair"}
LegTypes        == {"agent", "customer"}
LegEvents       == {"create", "progress", "answer", "bridge", "hangup"}

ASSUME NoneAssumption  == NoContact \notin Contacts /\ NoAgent \notin Agents
ASSUME InputAssumption == /\ Causes \subseteq {"normal", "canceled", "busy", "no_answer", "error"}
                          /\ ChannelEvents \subseteq LegTypes \X LegEvents
                          /\ ManualOutcomes \subseteq Outcomes
                          /\ DetectsVoicemail \in BOOLEAN

VARIABLES call, leg, agent, contact
storeVars == <<call, leg, agent, contact>>

CallRow  == [state: CallStates, outcome: Outcomes \cup {"none"},
             agent: Agents \cup {NoAgent}, contact: Contacts \cup {NoContact},
             ended: BOOLEAN, answered: BOOLEAN, requested: BOOLEAN,
             released: BOOLEAN, detected: BOOLEAN, locked: BOOLEAN]
LegRow   == [ended: BOOLEAN, uuid: BOOLEAN]
AgentRow == [registered: BOOLEAN, paused: BOOLEAN, status: {"offline", "ready", "in_call"}]

Absent  == [state |-> "absent", outcome |-> "none", agent |-> NoAgent, contact |-> NoContact,
            ended |-> FALSE, answered |-> FALSE, requested |-> FALSE,
            released |-> FALSE, detected |-> FALSE, locked |-> FALSE]
NewLegs == [t \in LegTypes |-> [ended |-> FALSE, uuid |-> FALSE]]

Init ==
  /\ call = [c \in Calls |-> Absent]
  /\ leg = [c \in Calls |-> NewLegs]
  /\ agent = [a \in Agents |-> [registered |-> FALSE, paused |-> FALSE, status |-> "offline"]]
  /\ contact = [k \in Contacts |-> "new"]

------------------------------------------------------------------------------
(* The predicates the statements share.                                    *)

Exists(row)      == row.state # "absent"
Active(row)      == Exists(row) /\ ~row.ended /\ row.state \notin Terminal
Interactive(row) == Active(row) /\ row.state # "agent_released"

(* Faulty: a call counts as interactive only once it is bridged.           *)
HasBridged(calls, a) == \E c \in Calls : calls[c].agent = a /\ calls[c].state = "bridged"

HasInteractive(calls, a) == \E c \in Calls : calls[c].agent = a /\ Interactive(calls[c])
HasActive(calls, a)      == \E c \in Calls : calls[c].agent = a /\ Active(calls[c])

(* Faulty: the trigger does not know the state agent_released.             *)
MayFollowUnreleased(old) ==
  CASE old \in Terminal                   -> {}
    [] old = "voicemail_drop_requested"   -> {"bridged", "voicemail_playback_started",
                                              "agent_released"} \cup Terminal
    [] old = "voicemail_playback_started" -> {"agent_released"} \cup Terminal
    [] OTHER                              -> CallStates

(* Trigger enforce_call_state_progression: a manually locked row keeps its *)
(* state and outcome, and a state is left only for one that may follow it. *)
MayFollow(old) ==
  CASE old \in Terminal                   -> {}
    [] old = "voicemail_drop_requested"   -> {"bridged", "voicemail_playback_started",
                                              "agent_released"} \cup Terminal
    [] old = "voicemail_playback_started" -> {"agent_released"} \cup Terminal
    [] old = "agent_released"             -> Terminal
    [] OTHER                              -> CallStates

TriggerRejects(old, new) ==
  /\ ~old.locked /\ ~new.locked /\ new.state # old.state
  /\ new.state \notin MayFollow(old.state)

Stored(old, new) ==
  IF old.locked THEN [new EXCEPT !.state = old.state, !.outcome = old.outcome, !.locked = TRUE]
                ELSE new

(* An UPDATE of one calls row; it raises, and changes nothing, when the    *)
(* trigger rejects it.                                                     *)
UpdateCall(c, new) ==
  /\ ~TriggerRejects(call[c], new)
  /\ call' = [call EXCEPT ![c] = Stored(call[c], new)]

(* Faulty: the status the schema also allows, "registered".                *)
FinishAgentCallAsRegistered(agents, calls, a) ==
  IF a \notin Agents \/ HasInteractive(calls, a) THEN agents
  ELSE [agents EXCEPT ![a].status = IF agents[a].registered THEN "registered" ELSE "offline"]

(* Faulty: the agent is handed back without a look at their other calls.   *)
FinishAgentCallAlways(agents, calls, a) ==
  IF a \notin Agents THEN agents
  ELSE [agents EXCEPT ![a].status = IF agents[a].registered THEN "ready" ELSE "offline"]

(* finishAgentCall: hands the agent back unless another interactive call   *)
(* of theirs is open.                                                      *)
FinishAgentCall(agents, calls, a) ==
  IF a \notin Agents \/ HasInteractive(calls, a) THEN agents
  ELSE [agents EXCEPT ![a].status = IF agents[a].registered THEN "ready" ELSE "offline"]

(* The statement that gives a reserved lead back.                          *)
CloseContact(contacts, k, status) ==
  IF k \in Contacts /\ contacts[k] = "calling" THEN [contacts EXCEPT ![k] = status] ELSE contacts

(* Faulty: only an answered outcome completes the lead.                    *)
ContactStatusForAnswered(outcome) == IF outcome = "answered" THEN "completed" ELSE "new"

ContactStatusForCallOutcome(outcome) ==
  IF outcome \in {"answered", "customer_hung_up", "voicemail_detected", "voicemail_dropped"}
  THEN "completed" ELSE "new"

AllLegsEnded(legs) == [t \in LegTypes |-> [legs[t] EXCEPT !.ended = TRUE]]

(* Faulty: the cause decides before the answer does.                       *)
HangupOutcomeByCause(row, cause) ==
  CASE cause = "busy"                      -> "busy"
    [] cause \in {"no_answer", "canceled"} -> "not_answered"
    [] OTHER -> IF row.answered THEN "customer_hung_up" ELSE "failed"

CustomerHangupOutcome(row, cause) ==
  CASE row.answered /\ row.detected               -> "voicemail_detected"
    [] row.answered /\ ~row.detected              -> "customer_hung_up"
    [] ~row.answered /\ cause = "busy"            -> "busy"
    [] ~row.answered /\ cause \in {"no_answer", "canceled"} -> "not_answered"
    [] OTHER                                      -> "failed"

(* What each caller of finalizeCallTransaction passes as resolve.          *)
Resolve(row, how) ==
  CASE how = "failure" -> "failed"
    [] how = "missing" -> IF row.answered THEN "customer_hung_up" ELSE "failed"
    [] how = "repair"  -> "none"
    [] OTHER           -> CustomerHangupOutcome(row, how)

------------------------------------------------------------------------------
(* Transactions that reserve and finish calls.                             *)

(* Faulty: the lead's status alone, without the unique index.              *)
LeadIsNotCalling(k) == contact[k] # "calling"

(* The lead is not reserved, and calls_one_active_per_contact backs its    *)
(* status up.                                                              *)
LeadIsFree(k) ==
  /\ contact[k] # "calling"
  /\ ~\E d \in Calls : call[d].contact = k /\ Active(call[d])

(* createDialerCall up to its commit.                                      *)
CreateDialerCall(c, a, k) ==
  /\ call[c] = Absent
  /\ agent[a].registered /\ ~agent[a].paused
  /\ ~HasInteractive(call, a)
  /\ k \in Contacts => LeadIsFree(k)
  /\ call' = [call EXCEPT ![c] = [Absent EXCEPT !.state = "customer_dialing",
                                                !.agent = a, !.contact = k]]
  /\ leg' = [leg EXCEPT ![c] = NewLegs]
  /\ agent' = [agent EXCEPT ![a].status = "in_call"]
  /\ contact' = IF k \in Contacts THEN [contact EXCEPT ![k] = "calling"] ELSE contact

(* Faulty: the lead is forgotten.                                          *)
CleanupWithoutLead(c, contacts) ==
  /\ leg' = [leg EXCEPT ![c] = AllLegsEnded(leg[c])]
  /\ agent' = FinishAgentCall(agent, call', call[c].agent)
  /\ contact' = contact

(* The cleanup every terminal transaction runs after its update of calls.  *)
Cleanup(c, contacts) ==
  /\ leg' = [leg EXCEPT ![c] = AllLegsEnded(leg[c])]
  /\ agent' = FinishAgentCall(agent, call', call[c].agent)
  /\ contact' = contacts

(* The outcome of a row left without one by a partial write.               *)
LegacyOutcome(row) ==
  CASE row.outcome # "none"         -> row.outcome
    [] row.state = "failed"         -> "failed"
    [] row.state = "canceled"       -> "agent_canceled"
    [] row.answered /\ row.detected -> "voicemail_detected"
    [] row.answered                 -> "customer_hung_up"
    [] row.state = "completed"      -> "not_answered"
    [] OTHER                        -> "failed"

StateForOutcome(outcome) == IF outcome = "failed" THEN "failed" ELSE "completed"

(* Faulty: a replay does not look for a newer call to the lead.            *)
NeverReserved(c) == FALSE

(* Another open call holds the lead.                                       *)
ReservedElsewhere(c) ==
  \E d \in Calls \ {c} : call[d].contact = call[c].contact /\ Active(call[d])

(* finalizeCallTransaction.  A replay of a finalized call runs the cleanup *)
(* again and keeps the outcome that won.                                   *)
FinalizeCall(c, how) ==
  LET row      == call[c]
      already  == row.ended /\ row.state \in Terminal /\ row.outcome # "none"
      resolved == Resolve(row, how)
      outcome  == IF row.outcome # "none" THEN row.outcome
                  ELSE IF resolved # "none" THEN resolved ELSE LegacyOutcome(row)
      state    == CASE row.state \in Terminal -> row.state
                    [] resolved # "none"      -> StateForOutcome(resolved)
                    [] OTHER                  -> StateForOutcome(outcome)
  IN /\ Exists(row)
     /\ row.ended \/ row.state \in Terminal \/ resolved # "none"
     /\ IF already THEN call' = call
        ELSE UpdateCall(c, [row EXCEPT !.state = state, !.outcome = outcome, !.ended = TRUE])
     /\ Cleanup(c, IF ReservedElsewhere(c) THEN contact
                   ELSE CloseContact(contact, row.contact, ContactStatusForCallOutcome(outcome)))

(* endDialerCall up to its commit.                                         *)
EndDialerCall(c) ==
  LET outcome == IF call[c].state = "bridged" THEN "answered" ELSE "agent_canceled"
  IN /\ Interactive(call[c])
     /\ UpdateCall(c, [call[c] EXCEPT !.state = "completed", !.outcome = outcome, !.ended = TRUE])
     /\ Cleanup(c, CloseContact(contact, call[c].contact,
                                IF outcome = "agent_canceled" THEN "new" ELSE "completed"))

(* setManualCallStatus: the owner's one correction of an ended call.       *)
TerminalStateForOutcome(outcome) ==
  CASE outcome = "failed"                           -> "failed"
    [] outcome \in {"agent_canceled", "suppressed"} -> "canceled"
    [] OTHER                                        -> "completed"

SetManualCallStatus(c, outcome) ==
  /\ call[c].ended /\ call[c].state \in Terminal /\ ~call[c].locked
  /\ UpdateCall(c, [call[c] EXCEPT !.state = TerminalStateForOutcome(outcome),
                                   !.outcome = outcome, !.locked = TRUE])
  /\ UNCHANGED <<leg, agent, contact>>

------------------------------------------------------------------------------
(* The autocommit statements of syncFreeSwitchOriginate.                   *)

StoreAgentLeg(c) ==
  /\ Exists(call[c])
  /\ leg' = [leg EXCEPT ![c].agent = [ended |-> FALSE, uuid |-> TRUE]]
  /\ UNCHANGED <<call, agent, contact>>

StoreCustomerLeg(c) ==
  /\ Exists(call[c])
  /\ leg' = [leg EXCEPT ![c].customer.uuid = TRUE]
  /\ UNCHANGED <<call, agent, contact>>

MarkAgentRinging(c) ==
  /\ Exists(call[c]) /\ call[c].state \notin Terminal
  /\ UpdateCall(c, [call[c] EXCEPT !.state = "agent_ringing"])
  /\ UNCHANGED <<leg, agent, contact>>

------------------------------------------------------------------------------
(* Transactions of the FreeSWITCH event listener.                          *)

(* The call state a channel event moves an open call to.                   *)
AdvancedState(state, type, event) ==
  CASE type = "customer" /\ event = "create"
         /\ state \in {"agent_ringing", "agent_answered"}             -> "customer_dialing"
    [] type = "customer" /\ event = "progress" /\ state \in SetupStates -> "customer_ringing"
    [] type = "agent" /\ event = "answer" /\ state = "agent_ringing"    -> "agent_answered"
    [] (event = "bridge" \/ (type = "customer" /\ event = "answer"))
         /\ state \in SetupStates                                       -> "bridged"
    [] OTHER                                                            -> state

(* persistGenericFreeSwitchEventState: every channel event but the end of  *)
(* the customer leg, which is finalized instead.                           *)
PersistChannelEvent(c, type, event) ==
  /\ Exists(call[c])
  /\ ~(type = "customer" /\ event = "hangup")
  /\ leg' = [leg EXCEPT ![c][type] =
                [ended |-> @.ended \/ event = "hangup", uuid |-> TRUE]]
  /\ IF Active(call[c])
     THEN UpdateCall(c, [call[c] EXCEPT
            !.state    = AdvancedState(@, type, event),
            !.answered = @ \/ event = "bridge" \/ (type = "customer" /\ event = "answer")])
     ELSE call' = call
  /\ UNCHANGED <<agent, contact>>

(* Faulty: a late detection is stored on an ended call.                    *)
PersistLateDetection(c) ==
  /\ DetectsVoicemail
  /\ Exists(call[c]) /\ \E t \in LegTypes : leg[c][t].uuid
  /\ call' = [call EXCEPT ![c].detected = TRUE]
  /\ UNCHANGED <<leg, agent, contact>>

(* persistVoicemailDetectionEvent for a detected machine or beep.          *)
PersistVoicemailDetection(c) ==
  /\ DetectsVoicemail
  /\ Active(call[c]) /\ \E t \in LegTypes : leg[c][t].uuid
  /\ call' = [call EXCEPT ![c].detected = TRUE]
  /\ UNCHANGED <<leg, agent, contact>>

(* persistVoicemailPlaybackEvent "started", its update of calls.           *)
MarkPlaybackStarted(c) ==
  /\ Active(call[c])
  /\ call[c].state \in {"voicemail_drop_requested", "voicemail_playback_started"}
  /\ UpdateCall(c, [call[c] EXCEPT !.state = "voicemail_playback_started"])
  /\ UNCHANGED <<leg, agent, contact>>

(* The transaction of releaseAgentAfterVoicemailPlaybackStarts.            *)
ReleaseAgent(c) ==
  /\ Active(call[c]) /\ call[c].state \in VoicemailActive
  /\ UpdateCall(c, [call[c] EXCEPT !.state = "agent_released", !.released = TRUE])
  /\ leg' = [leg EXCEPT ![c].agent.ended = TRUE]
  /\ agent' = FinishAgentCall(agent, call', call[c].agent)
  /\ UNCHANGED contact

(* finalizeCompletedVoicemailPlayback: the agent is handed back here only  *)
(* when no release did so before.                                          *)
FinalizeCompletedPlayback(c) ==
  /\ Active(call[c]) /\ call[c].state \in VoicemailActive
  /\ UpdateCall(c, [call[c] EXCEPT !.state = "completed", !.outcome = "voicemail_dropped",
                                   !.ended = TRUE])
  /\ leg' = [leg EXCEPT ![c] = AllLegsEnded(leg[c])]
  /\ contact' = CloseContact(contact, call[c].contact, "completed")
  /\ agent' = IF call[c].released THEN agent ELSE FinishAgentCall(agent, call', call[c].agent)

(* finalizeIncompleteVoicemailPlayback.  Its callers force the failure or  *)
(* pass a hangup that was not normal, so the outcome is always "failed";   *)
(* agentReleased is what the caller read before the transaction.           *)
FinalizeIncompletePlayback(c, agentReleased) ==
  /\ Active(call[c]) /\ call[c].state \in VoicemailActive
  /\ UpdateCall(c, [call[c] EXCEPT !.state = "failed", !.outcome = "failed", !.ended = TRUE])
  /\ leg' = [leg EXCEPT ![c] = AllLegsEnded(leg[c])]
  /\ contact' = CloseContact(contact, call[c].contact, "new")
  /\ agent' = IF agentReleased THEN agent ELSE FinishAgentCall(agent, call', call[c].agent)

------------------------------------------------------------------------------
(* Statements of dropVoicemailForCall.                                     *)

ClaimVoicemailDrop(c) ==
  /\ Active(call[c]) /\ call[c].state = "bridged" /\ leg[c].customer.uuid
  /\ UpdateCall(c, [call[c] EXCEPT !.state = "voicemail_drop_requested", !.requested = TRUE])
  /\ UNCHANGED <<leg, agent, contact>>

(* FreeSWITCH refused the transfer: the claim is undone.                   *)
RevertVoicemailDrop(c) ==
  /\ Active(call[c]) /\ call[c].state = "voicemail_drop_requested"
  /\ UpdateCall(c, [call[c] EXCEPT !.state = "bridged", !.requested = FALSE])
  /\ UNCHANGED <<leg, agent, contact>>

(* The three statements of releaseAgentAfterVoicemailDropTransfer.         *)
MarkAgentReleased(c) ==
  /\ Active(call[c]) /\ call[c].state \in VoicemailActive
  /\ UpdateCall(c, [call[c] EXCEPT !.state = "agent_released", !.released = TRUE])
  /\ UNCHANGED <<leg, agent, contact>>

EndAgentLeg(c) ==
  /\ Exists(call[c])
  /\ leg' = [leg EXCEPT ![c].agent.ended = TRUE]
  /\ UNCHANGED <<call, agent, contact>>

FinishAgent(a) ==
  /\ agent' = FinishAgentCall(agent, call, a)
  /\ UNCHANGED <<call, leg, contact>>

------------------------------------------------------------------------------
(* Agents and leads.                                                       *)

(* The update of persistAgentRegistrationEvent and of                      *)
(* reconcileAgentRegistrations: an agent in a call keeps that status, and  *)
(* one with a background voicemail is not yet taken offline.               *)
RegisterAgent(a, registered) ==
  /\ agent' = [agent EXCEPT
       ![a].registered = registered,
       ![a].status = CASE registered /\ @ = "offline" -> "ready"
                       [] ~registered /\ @ = "ready" /\ ~HasActive(call, a) -> "offline"
                       [] OTHER -> @]
  /\ UNCHANGED <<call, leg, contact>>

(* setAgentAvailability.                                                   *)
SetAgentAvailability(a, paused) ==
  /\ agent' = [agent EXCEPT ![a].paused = paused]
  /\ UNCHANGED <<call, leg, contact>>

(* Deactivating or deleting a user is refused during an interactive call.  *)
RetireAgent(a) ==
  /\ ~HasInteractive(call, a)
  /\ agent' = [agent EXCEPT ![a].registered = FALSE, ![a].status = "offline"]
  /\ UNCHANGED <<call, leg, contact>>

(* POST /admin/contacts/:contactId/complete.                               *)
CompleteContact(k) ==
  /\ contact' = [contact EXCEPT ![k] = "completed"]
  /\ UNCHANGED <<call, leg, agent>>

(* resetCampaignLeads, for a campaign with the leads K.                    *)
ResetCampaignLeads(K) ==
  /\ ~\E c \in Calls : call[c].contact \in K /\ Active(call[c])
  /\ contact' = [k \in Contacts |-> IF k \in K THEN "new" ELSE contact[k]]
  /\ UNCHANGED <<call, leg, agent>>

------------------------------------------------------------------------------
CallStep(c) ==
  \/ \E a \in Agents, k \in Contacts \cup {NoContact} : CreateDialerCall(c, a, k)
  \/ \E how \in Resolvers : FinalizeCall(c, how)
  \/ EndDialerCall(c)
  \/ \E outcome \in ManualOutcomes : SetManualCallStatus(c, outcome)
  \/ StoreAgentLeg(c)
  \/ StoreCustomerLeg(c)
  \/ MarkAgentRinging(c)
  \/ \E e \in ChannelEvents : PersistChannelEvent(c, e[1], e[2])
  \/ PersistVoicemailDetection(c)
  \/ ClaimVoicemailDrop(c)
  \/ RevertVoicemailDrop(c)
  \/ MarkPlaybackStarted(c)
  \/ MarkAgentReleased(c)
  \/ EndAgentLeg(c)
  \/ ReleaseAgent(c)
  \/ FinalizeCompletedPlayback(c)
  \/ \E b \in BOOLEAN : FinalizeIncompletePlayback(c, b)

AgentStep(a) ==
  \/ FinishAgent(a)
  \/ \E b \in BOOLEAN : RegisterAgent(a, b)
  \/ \E b \in BOOLEAN : SetAgentAvailability(a, b)
  \/ RetireAgent(a)

ContactStep ==
  \/ \E k \in Contacts : CompleteContact(k)
  \/ \E K \in SUBSET Contacts : ResetCampaignLeads(K)

Next == (\E c \in Calls : CallStep(c)) \/ (\E a \in Agents : AgentStep(a)) \/ ContactStep

Spec == Init /\ [][Next]_storeVars

------------------------------------------------------------------------------
(* Properties.                                                             *)

(* Every column holds a value of its type and a stored call has an owner.  *)
TypeOK ==
  /\ call \in [Calls -> CallRow]
  /\ \A c \in Calls : Exists(call[c]) => call[c].agent \in Agents
  /\ leg \in [Calls -> [LegTypes -> LegRow]]
  /\ agent \in [Agents -> AgentRow]
  /\ contact \in [Contacts -> {"new", "calling", "completed"}]

(* The four columns that say a call is over never disagree: whatever ends  *)
(* a call sets state, outcome and ended_at in one statement, and only an   *)
(* ended call carries a manual status.                                     *)
FinalizedTogether ==
  \A c \in Calls :
    /\ call[c].ended <=> call[c].state \in Terminal
    /\ call[c].ended <=> call[c].outcome # "none"
    /\ call[c].locked => call[c].ended

(* An agent never has two calls to talk on, although an agent_released     *)
(* call lets the next one start and the late "agent_ringing" write of an   *)
(* originate is not guarded by the state it overwrites.                    *)
OneInteractiveCallPerAgent ==
  \A c, d \in Calls :
    Interactive(call[c]) /\ Interactive(call[d]) /\ call[c].agent = call[d].agent => c = d

(* A lead is never dialed by two calls at once, even when an administrator *)
(* completes or resets leads while they are being called.                  *)
OneActiveCallPerContact ==
  \A c, d \in Calls :
    /\ Active(call[c]) /\ Active(call[d])
    /\ call[c].contact = call[d].contact /\ call[c].contact # NoContact
    => c = d

(* An agent who is talking is shown in_call: neither a registration event, *)
(* nor the end of an older background call, nor a retirement takes the     *)
(* status away.                                                            *)
InteractiveAgentIsBusy ==
  \A c \in Calls : Interactive(call[c]) => agent[call[c].agent].status = "in_call"

(* No lead stays reserved without a call: every way a call ends gives its  *)
(* lead back in the same transaction.                                      *)
NoLeakedReservation ==
  \A k \in Contacts :
    contact[k] = "calling" => \E c \in Calls : call[c].contact = k /\ Active(call[c])

(* The lead of an open call is never offered to another agent as new, and  *)
(* a replayed end of an older call to the same lead does not change that.  *)
OpenLeadIsNotCallable ==
  \A c \in Calls :
    Active(call[c]) /\ call[c].contact # NoContact => contact[call[c].contact] # "new"

(* A release is for good: once agent_released_at is set the call is a      *)
(* background job until it ends, so it cannot block or become the agent's  *)
(* interactive call again.                                                 *)
ReleasedStaysBackground ==
  \A c \in Calls : call[c].released => call[c].state \in Terminal \cup {"agent_released"}

(* An outcome is earned: a result that says somebody was reached is kept   *)
(* only for an answered call, one that says nobody was only for a call     *)
(* without an answer, and voicemail_dropped only for a call whose agent    *)
(* asked for the drop and whose request was not undone.                    *)
OutcomeIsEarned ==
  \A c \in Calls : ~call[c].locked =>
    /\ call[c].outcome \in {"answered", "customer_hung_up", "voicemail_detected",
                           "voicemail_dropped"} => call[c].answered
    /\ call[c].outcome \in {"busy", "not_answered"} => ~call[c].answered
    /\ call[c].outcome = "voicemail_dropped" => call[c].requested

(* The first terminal outcome wins: replayed, late and racing terminal     *)
(* events, watchdogs and repairs leave an ended call as it is; only the    *)
(* owner's one manual correction replaces state and outcome.               *)
FirstOutcomeWins ==
  [][\A c \in Calls : call[c].ended =>
       \/ call'[c] = call[c]
       \/ ~call[c].locked /\ call'[c].locked /\ call'[c].ended]_storeVars

(* The lead follows the outcome: every statement that ends a call settles  *)
(* its reserved lead by the one policy of the requirements, completed when *)
(* the call reached somebody or left a voicemail, new otherwise, whichever *)
(* of the five handlers ends the call.                                     *)
LeadFollowsOutcome ==
  [][\A c \in Calls :
       LET k == call[c].contact
       IN Active(call[c]) /\ call'[c].ended /\ k \in Contacts /\ contact[k] = "calling" =>
            contact'[k] = IF call'[c].outcome \in {"answered", "customer_hung_up",
                                                   "voicemail_detected", "voicemail_dropped"}
                          THEN "completed" ELSE "new"]_storeVars

(* The rows implement the ledger: all the statements together open, detach *)
(* and close every call once, whatever order they arrive in.               *)
LedgerEntry(row) ==
  [phase  |-> CASE ~Exists(row)               -> "none"
                [] Interactive(row)           -> "interactive"
                [] row.state = "agent_released" -> "background"
                [] row.locked                 -> "corrected"
                [] OTHER                      -> "closed",
   owner  |-> row.agent, lead |-> row.contact, result |-> row.outcome]

Ledger == INSTANCE CallLedger
            WITH Leads <- Contacts, NoLead <- NoContact, Results <- Outcomes,
                 entry <- [c \in Calls |-> LedgerEntry(call[c])]

ImplementsLedger == Ledger!Spec

==============================================================================
