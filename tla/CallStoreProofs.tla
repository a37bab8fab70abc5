--------------------------- MODULE CallStoreProofs ---------------------------
(*****************************************************************************)
(* Machine-checked proofs about CallStore for every number of calls, agents  *)
(* and leads: its types and its safety invariants, then what its steps do:   *)
(* the first outcome of a call wins, the lead follows it, and every step is  *)
(* a step of CallLedger or a stutter. The inductive invariant is a           *)
(* conjunction of what each row says of itself and what the rows say of each *)
(* other.                                                                    *)
(*****************************************************************************)
EXTENDS CallStore, TLAPS

ContactTypes == {"new", "calling", "completed"}

------------------------------------------------------------------------------
(* What the shared operators return.                                       *)

LEMMA FinishAgentCallType ==
  ASSUME NEW agents \in [Agents -> AgentRow], NEW calls, NEW a
  PROVE  FinishAgentCall(agents, calls, a) \in [Agents -> AgentRow]
  BY DEF FinishAgentCall, AgentRow

LEMMA CloseContactType ==
  ASSUME NEW contacts \in [Contacts -> ContactTypes], NEW k, NEW status \in ContactTypes
  PROVE  CloseContact(contacts, k, status) \in [Contacts -> ContactTypes]
  BY DEF CloseContact, ContactTypes

LEMMA AllLegsEndedType ==
  ASSUME NEW legs \in [LegTypes -> LegRow]
  PROVE  AllLegsEnded(legs) \in [LegTypes -> LegRow]
  BY DEF AllLegsEnded, LegRow, LegTypes

LEMMA UpdateCallType ==
  ASSUME TypeOK, NEW c \in Calls, NEW new \in CallRow, new.agent \in Agents,
         UpdateCall(c, new)
  PROVE  /\ call' \in [Calls -> CallRow]
         /\ \A d \in Calls : Exists(call'[d]) => call'[d].agent \in Agents
  BY DEF TypeOK, UpdateCall, Stored, CallRow, Exists

LEMMA OutcomeTypes ==
  ASSUME NEW row \in CallRow, NEW how \in Resolvers
  PROVE  /\ Resolve(row, how) \in Outcomes \cup {"none"}
         /\ LegacyOutcome(row) \in Outcomes
  BY DEF Resolve, LegacyOutcome, CustomerHangupOutcome, CallRow, Outcomes, Resolvers

LEMMA AdvancedStateType ==
  ASSUME NEW state \in CallStates, NEW type, NEW event
  PROVE  AdvancedState(state, type, event) \in CallStates
  BY DEF AdvancedState, CallStates, SetupStates

LEMMA CleanupType ==
  ASSUME TypeOK, NEW c \in Calls, NEW contacts \in [Contacts -> ContactTypes],
         Cleanup(c, contacts)
  PROVE  /\ leg' \in [Calls -> [LegTypes -> LegRow]]
         /\ agent' \in [Agents -> AgentRow]
         /\ contact' \in [Contacts -> ContactTypes]
  BY FinishAgentCallType, AllLegsEndedType DEF TypeOK, Cleanup

------------------------------------------------------------------------------
(* Type correctness.                                                       *)

LEMMA TypeInit == Init => TypeOK
  BY DEF Init, TypeOK, Absent, Exists, NewLegs, CallRow, LegRow, AgentRow, CallStates, LegTypes

LEMMA TypeFinalizeCall ==
  ASSUME TypeOK, NEW c \in Calls, NEW how \in Resolvers, FinalizeCall(c, how)
  PROVE  TypeOK'
<1> DEFINE resolved == Resolve(call[c], how)
           outcome  == IF call[c].outcome # "none" THEN call[c].outcome
                       ELSE IF resolved # "none" THEN resolved ELSE LegacyOutcome(call[c])
           state    == CASE call[c].state \in Terminal -> call[c].state
                         [] resolved # "none"          -> StateForOutcome(resolved)
                         [] OTHER                      -> StateForOutcome(outcome)
           closed   == [call[c] EXCEPT !.state = state, !.outcome = outcome, !.ended = TRUE]
<1>1. /\ Exists(call[c]) /\ call[c] \in CallRow /\ call[c].agent \in Agents
  BY DEF TypeOK, FinalizeCall
<1>2. outcome \in Outcomes /\ resolved \in Outcomes \cup {"none"}
  BY <1>1, OutcomeTypes DEF CallRow
<1>3. state \in CallStates
  BY <1>1, <1>2 DEF CallRow, StateForOutcome, CallStates, Terminal
<1>4. closed \in CallRow /\ closed.agent \in Agents
  BY <1>1, <1>2, <1>3 DEF CallRow
<1>5. call' = call \/ UpdateCall(c, closed)
  BY DEF FinalizeCall
<1>6. call' \in [Calls -> CallRow] /\ \A d \in Calls : Exists(call'[d]) => call'[d].agent \in Agents
  BY <1>4, <1>5, UpdateCallType DEF TypeOK
<1>7. PICK contacts \in [Contacts -> ContactTypes] : Cleanup(c, contacts)
  <2>1. ContactStatusForCallOutcome(outcome) \in ContactTypes
    BY DEF ContactStatusForCallOutcome, ContactTypes
  <2>2. CloseContact(contact, call[c].contact, ContactStatusForCallOutcome(outcome))
          \in [Contacts -> ContactTypes]
    BY <2>1, CloseContactType DEF TypeOK, ContactTypes
  <2> QED BY <2>2 DEF FinalizeCall, TypeOK, ContactTypes
<1> QED BY <1>6, <1>7, CleanupType DEF TypeOK, ContactTypes

LEMMA TypeFinalizePlayback ==
  ASSUME TypeOK, NEW c \in Calls,
         \/ FinalizeCompletedPlayback(c)
         \/ \E b \in BOOLEAN : FinalizeIncompletePlayback(c, b)
  PROVE  TypeOK'
<1> DEFINE closed(s, o) == [call[c] EXCEPT !.state = s, !.outcome = o, !.ended = TRUE]
<1>1. /\ call[c] \in CallRow /\ call[c].agent \in Agents
      /\ leg[c] \in [LegTypes -> LegRow]
  BY DEF TypeOK, FinalizeCompletedPlayback, FinalizeIncompletePlayback, Active
<1>2. \A s \in Terminal, o \in Outcomes : closed(s, o) \in CallRow /\ closed(s, o).agent \in Agents
  BY <1>1 DEF CallRow, CallStates
<1>3. PICK s \in Terminal, o \in Outcomes : UpdateCall(c, closed(s, o))
  BY DEF FinalizeCompletedPlayback, FinalizeIncompletePlayback, Terminal, Outcomes
<1>4. /\ call' \in [Calls -> CallRow]
      /\ \A d \in Calls : Exists(call'[d]) => call'[d].agent \in Agents
  <2> HIDE DEF closed
  <2> QED BY <1>2, <1>3, UpdateCallType
<1>5. leg' \in [Calls -> [LegTypes -> LegRow]]
  BY <1>1, AllLegsEndedType DEF TypeOK, FinalizeCompletedPlayback, FinalizeIncompletePlayback
<1>6. agent' \in [Agents -> AgentRow]
  BY FinishAgentCallType DEF TypeOK, FinalizeCompletedPlayback, FinalizeIncompletePlayback
<1>7. contact' \in [Contacts -> ContactTypes]
  BY CloseContactType DEF TypeOK, FinalizeCompletedPlayback, FinalizeIncompletePlayback, ContactTypes
<1> QED BY <1>4, <1>5, <1>6, <1>7 DEF TypeOK, ContactTypes

LEMMA LegUpdateType ==
  ASSUME TypeOK, NEW c \in Calls
  PROVE  /\ [leg EXCEPT ![c].agent.ended = TRUE] \in [Calls -> [LegTypes -> LegRow]]
         /\ [leg EXCEPT ![c].customer.uuid = TRUE] \in [Calls -> [LegTypes -> LegRow]]
         /\ [leg EXCEPT ![c].agent = [ended |-> FALSE, uuid |-> TRUE]]
              \in [Calls -> [LegTypes -> LegRow]]
<1>1. leg[c] \in [LegTypes -> LegRow] /\ leg[c].agent \in LegRow /\ leg[c].customer \in LegRow
  BY DEF TypeOK, LegTypes
<1>2. [leg[c].agent EXCEPT !.ended = TRUE] \in LegRow
  BY <1>1 DEF LegRow
<1>3. [leg[c].customer EXCEPT !.uuid = TRUE] \in LegRow
  BY <1>1 DEF LegRow
<1>4. [leg[c] EXCEPT !.agent.ended = TRUE] \in [LegTypes -> LegRow]
  BY <1>1, <1>2 DEF LegTypes
<1>5. [leg[c] EXCEPT !.customer.uuid = TRUE] \in [LegTypes -> LegRow]
  BY <1>1, <1>3 DEF LegTypes
<1>6. [leg[c] EXCEPT !.agent = [ended |-> FALSE, uuid |-> TRUE]] \in [LegTypes -> LegRow]
  BY <1>1 DEF LegTypes, LegRow
<1> QED BY <1>4, <1>5, <1>6 DEF TypeOK

(* An update of one column set that keeps the owner keeps the types.       *)
LEMMA TypeUpdate ==
  ASSUME TypeOK, NEW c \in Calls, Exists(call[c]),
         NEW new \in CallRow, new.agent = call[c].agent, UpdateCall(c, new)
  PROVE  /\ call' \in [Calls -> CallRow]
         /\ \A d \in Calls : Exists(call'[d]) => call'[d].agent \in Agents
  BY UpdateCallType DEF TypeOK

LEMMA TypeCallStep ==
  ASSUME TypeOK, NEW c \in Calls, CallStep(c)
  PROVE  TypeOK'
<1>0. call[c] \in CallRow /\ (Exists(call[c]) => call[c].agent \in Agents)
  BY DEF TypeOK
<1>1. ASSUME NEW a \in Agents, NEW k \in Contacts \cup {NoContact}, CreateDialerCall(c, a, k)
      PROVE  TypeOK'
  <2>1. [Absent EXCEPT !.state = "customer_dialing", !.agent = a, !.contact = k] \in CallRow
    BY DEF Absent, CallRow, CallStates, SetupStates
  <2>2. NewLegs \in [LegTypes -> LegRow]
    BY DEF NewLegs, LegRow
  <2>3. agent' \in [Agents -> AgentRow]
    BY <1>1 DEF CreateDialerCall, TypeOK, AgentRow
  <2> QED BY <1>1, <2>1, <2>2, <2>3 DEF CreateDialerCall, TypeOK, Exists, Absent
<1>2. ASSUME EndDialerCall(c) PROVE TypeOK'
  <2> DEFINE outcome == IF call[c].state = "bridged" THEN "answered" ELSE "agent_canceled"
             closed  == [call[c] EXCEPT !.state = "completed", !.outcome = outcome, !.ended = TRUE]
             lead    == IF outcome = "agent_canceled" THEN "new" ELSE "completed"
  <2>1. closed \in CallRow /\ closed.agent = call[c].agent
    BY ZenonT(60), <1>0 DEF CallRow, CallStates, Terminal, Outcomes
  <2>2. UpdateCall(c, closed) /\ Exists(call[c])
    BY <1>2 DEF EndDialerCall, Interactive, Active
  <2>3. PICK contacts \in [Contacts -> ContactTypes] : Cleanup(c, contacts)
    <3>1. lead \in ContactTypes
      BY DEF ContactTypes
    <3>2. CloseContact(contact, call[c].contact, lead) \in [Contacts -> ContactTypes]
      BY <3>1, CloseContactType DEF TypeOK, ContactTypes
    <3>3. Cleanup(c, CloseContact(contact, call[c].contact, lead))
      BY <1>2 DEF EndDialerCall
    <3> QED BY <3>2, <3>3
  <2> HIDE DEF closed
  <2> QED BY <2>1, <2>2, <2>3, TypeUpdate, CleanupType DEF TypeOK, ContactTypes
<1>3. ASSUME NEW outcome \in ManualOutcomes, SetManualCallStatus(c, outcome) PROVE TypeOK'
  <2> DEFINE new == [call[c] EXCEPT !.state = TerminalStateForOutcome(outcome),
                                    !.outcome = outcome, !.locked = TRUE]
  <2>1. TerminalStateForOutcome(outcome) \in CallStates /\ outcome \in Outcomes
    BY InputAssumption DEF TerminalStateForOutcome, CallStates, Terminal
  <2>2. new \in CallRow /\ new.agent = call[c].agent
    BY <1>0, <2>1 DEF CallRow
  <2>3. UpdateCall(c, new) /\ Exists(call[c])
    BY <1>3 DEF SetManualCallStatus, Terminal, Exists
  <2> HIDE DEF new
  <2> QED BY <1>3, <2>2, <2>3, TypeUpdate DEF SetManualCallStatus, TypeOK
<1>4. ASSUME StoreAgentLeg(c) \/ StoreCustomerLeg(c) \/ EndAgentLeg(c) PROVE TypeOK'
  <2>1. ASSUME StoreAgentLeg(c) PROVE TypeOK'
    BY <2>1, LegUpdateType DEF StoreAgentLeg, TypeOK
  <2>2. ASSUME StoreCustomerLeg(c) PROVE TypeOK'
    BY <2>2, LegUpdateType DEF StoreCustomerLeg, TypeOK
  <2>3. ASSUME EndAgentLeg(c) PROVE TypeOK'
    BY <2>3, LegUpdateType DEF EndAgentLeg, TypeOK
  <2> QED BY <1>4, <2>1, <2>2, <2>3
<1>5. ASSUME MarkAgentRinging(c) \/ MarkPlaybackStarted(c) PROVE TypeOK'
  <2>1. PICK s \in CallStates : UpdateCall(c, [call[c] EXCEPT !.state = s])
    BY <1>5 DEF MarkAgentRinging, MarkPlaybackStarted, CallStates, SetupStates, VoicemailActive
  <2>2. [call[c] EXCEPT !.state = s] \in CallRow
    BY <1>0 DEF CallRow
  <2>3. Exists(call[c]) /\ [call[c] EXCEPT !.state = s].agent = call[c].agent
    BY <1>0, <1>5 DEF MarkAgentRinging, MarkPlaybackStarted, Active, CallRow
  <2> QED BY <1>5, <2>1, <2>2, <2>3, TypeUpdate DEF MarkAgentRinging, MarkPlaybackStarted, TypeOK
<1>6. ASSUME NEW type \in LegTypes, NEW event \in LegEvents, PersistChannelEvent(c, type, event)
      PROVE  TypeOK'
  <2> DEFINE answers == event = "bridge" \/ (type = "customer" /\ event = "answer")
             new == [call[c] EXCEPT !.state = AdvancedState(@, type, event), !.answered = @ \/ answers]
  <2>1. AdvancedState(call[c].state, type, event) \in CallStates
    BY <1>0, AdvancedStateType DEF CallRow
  <2>2. new \in CallRow /\ new.agent = call[c].agent
    BY <1>0, <2>1 DEF CallRow
  <2>3. Exists(call[c]) /\ (call' = call \/ UpdateCall(c, new))
    BY <1>6 DEF PersistChannelEvent
  <2>4. leg' \in [Calls -> [LegTypes -> LegRow]]
    BY <1>6 DEF PersistChannelEvent, TypeOK, LegRow
  <2> HIDE DEF new
  <2> QED BY <1>6, <2>2, <2>3, <2>4, TypeUpdate DEF PersistChannelEvent, TypeOK
<1>7. ASSUME PersistVoicemailDetection(c) PROVE TypeOK'
  <2>1. [call[c] EXCEPT !.detected = TRUE] \in CallRow
    BY <1>0 DEF CallRow
  <2> QED BY <1>7, <1>0, <2>1 DEF PersistVoicemailDetection, TypeOK, Exists, CallRow
<1>8. ASSUME ClaimVoicemailDrop(c) \/ RevertVoicemailDrop(c) PROVE TypeOK'
  <2>1. PICK s \in CallStates, b \in BOOLEAN :
          UpdateCall(c, [call[c] EXCEPT !.state = s, !.requested = b])
    BY <1>8 DEF ClaimVoicemailDrop, RevertVoicemailDrop, CallStates, VoicemailActive
  <2> DEFINE new == [call[c] EXCEPT !.state = s, !.requested = b]
  <2>2. new \in CallRow /\ new.agent = call[c].agent
    BY <1>0 DEF CallRow
  <2>3. Exists(call[c])
    BY <1>8 DEF ClaimVoicemailDrop, RevertVoicemailDrop, Active
  <2> QED BY <1>8, <2>1, <2>2, <2>3, TypeUpdate DEF ClaimVoicemailDrop, RevertVoicemailDrop, TypeOK
<1>9. ASSUME MarkAgentReleased(c) \/ ReleaseAgent(c) PROVE TypeOK'
  <2> DEFINE new == [call[c] EXCEPT !.state = "agent_released", !.released = TRUE]
  <2>1. new \in CallRow /\ new.agent = call[c].agent
    BY <1>0 DEF CallRow, CallStates, VoicemailActive
  <2>2. UpdateCall(c, new) /\ Exists(call[c])
    BY <1>9 DEF MarkAgentReleased, ReleaseAgent, Active
  <2>3. leg' \in [Calls -> [LegTypes -> LegRow]]
    BY ZenonT(60), <1>9, LegUpdateType DEF MarkAgentReleased, ReleaseAgent, TypeOK
  <2>4. agent' \in [Agents -> AgentRow]
    BY <1>9, FinishAgentCallType DEF MarkAgentReleased, ReleaseAgent, TypeOK
  <2> HIDE DEF new
  <2> QED BY <1>9, <2>1, <2>2, <2>3, <2>4, TypeUpdate DEF MarkAgentReleased, ReleaseAgent, TypeOK
<1>10. \A e \in ChannelEvents : e[1] \in LegTypes /\ e[2] \in LegEvents
  BY InputAssumption
<1> QED
  BY <1>1, <1>2, <1>3, <1>4, <1>5, <1>6, <1>7, <1>8, <1>9, <1>10, TypeFinalizeCall,
     TypeFinalizePlayback DEF CallStep

LEMMA TypeAgentStep ==
  ASSUME TypeOK, NEW a \in Agents, AgentStep(a)
  PROVE  TypeOK'
<1>1. agent' \in [Agents -> AgentRow]
  <2>1. agent \in [Agents -> AgentRow]
    BY DEF TypeOK
  <2>2. ASSUME FinishAgent(a) PROVE agent' \in [Agents -> AgentRow]
    BY <2>1, <2>2, FinishAgentCallType DEF FinishAgent
  <2>3. ASSUME NEW b \in BOOLEAN, RegisterAgent(a, b) PROVE agent' \in [Agents -> AgentRow]
    BY ZenonT(60), <2>1, <2>3 DEF RegisterAgent, AgentRow
  <2>4. ASSUME NEW b \in BOOLEAN, SetAgentAvailability(a, b) PROVE agent' \in [Agents -> AgentRow]
    BY <2>1, <2>4 DEF SetAgentAvailability, AgentRow
  <2>5. ASSUME RetireAgent(a) PROVE agent' \in [Agents -> AgentRow]
    BY <2>1, <2>5 DEF RetireAgent, AgentRow
  <2> QED BY <2>2, <2>3, <2>4, <2>5 DEF AgentStep
<1>2. UNCHANGED <<call, leg, contact>>
  BY DEF AgentStep, FinishAgent, RegisterAgent, SetAgentAvailability, RetireAgent
<1> QED BY <1>1, <1>2 DEF TypeOK

LEMMA TypeNext == TypeOK /\ [Next]_storeVars => TypeOK'
<1> SUFFICES ASSUME TypeOK, [Next]_storeVars PROVE TypeOK'
  OBVIOUS
<1>1. CASE UNCHANGED storeVars
  BY <1>1 DEF storeVars, TypeOK
<1>2. CASE \E c \in Calls : CallStep(c)
  BY <1>2, TypeCallStep
<1>3. CASE \E a \in Agents : AgentStep(a)
  BY <1>3, TypeAgentStep
<1>4. CASE ContactStep
  BY <1>4 DEF ContactStep, CompleteContact, ResetCampaignLeads, TypeOK
<1> QED BY <1>1, <1>2, <1>3, <1>4 DEF Next

(* Every column keeps the values of its type and a stored call its owner,  *)
(* for every set of calls, agents and leads.                               *)
THEOREM TypeCorrect == Spec => []TypeOK
  BY TypeInit, TypeNext, PTL DEF Spec

------------------------------------------------------------------------------

(* What a row says of itself: the conjuncts of FinalizedTogether,          *)
(* ReleasedStaysBackground and OutcomeIsEarned, and that a bridged call    *)
(* was answered and a voicemail drop in progress was asked for.            *)
Talking    == {"bridged"} \cup VoicemailActive
Reached    == {"answered", "customer_hung_up", "voicemail_detected", "voicemail_dropped"}
NotReached == {"busy", "not_answered"}

RowInv(row) ==
  /\ row.ended <=> row.state \in Terminal
  /\ row.ended <=> row.outcome # "none"
  /\ row.locked => row.ended
  /\ row.released => row.state \in Terminal \cup {"agent_released"} /\ row.requested
  /\ row.state = "failed" => row.outcome = "failed"
  /\ row.state \in Talking => row.answered
  /\ row.state \in VoicemailActive => row.requested
  /\ ~row.locked =>
       /\ row.outcome \in Reached => row.answered
       /\ row.outcome \in NotReached => ~row.answered
       /\ row.outcome = "voicemail_dropped" => row.requested

(* What a statement other than the insert may do to a row.                 *)
Evolves(old, new) ==
  /\ new.agent = old.agent /\ new.contact = old.contact
  /\ \/ new = old
     \/ Active(old) /\ Exists(new) /\ ~new.locked /\ (Interactive(new) => Interactive(old))
     \/ old.ended /\ ~old.locked /\ new.locked /\ new.ended

LEMMA UpdatedRow ==
  ASSUME TypeOK, NEW c \in Calls, NEW new, UpdateCall(c, new)
  PROVE  /\ \A d \in Calls \ {c} : call'[d] = call[d]
         /\ call'[c] = Stored(call[c], new)
         /\ ~TriggerRejects(call[c], new)
  BY DEF TypeOK, UpdateCall

(* An open row is not locked, so the trigger only checks the state.        *)
LEMMA OpenRowUpdate ==
  ASSUME TypeOK, NEW c \in Calls, RowInv(call[c]), Active(call[c]),
         NEW new \in CallRow, ~new.locked, UpdateCall(c, new)
  PROVE  /\ \A d \in Calls \ {c} : call'[d] = call[d]
         /\ call'[c] = new
         /\ new.state = call[c].state \/ new.state \in MayFollow(call[c].state)
  BY UpdatedRow DEF RowInv, Active, Stored, TriggerRejects

LEMMA MoveFinalizeCall ==
  ASSUME TypeOK, NEW c \in Calls, RowInv(call[c]), NEW how \in Resolvers, FinalizeCall(c, how)
  PROVE  /\ RowInv(call'[c]) /\ Evolves(call[c], call'[c]) /\ ~Active(call'[c])
         /\ \A d \in Calls \ {c} : call'[d] = call[d]
<1> DEFINE row      == call[c]
           resolved == Resolve(row, how)
           new      == [row EXCEPT !.state = StateForOutcome(resolved), !.outcome = resolved,
                                   !.ended = TRUE]
<1>0. row \in CallRow
  BY DEF TypeOK
<1>1. CASE row.ended
  <2>1. call' = call
    BY <1>1 DEF FinalizeCall, RowInv
  <2> QED BY <1>1, <2>1 DEF Evolves, Active
<1>2. CASE ~row.ended
  <2>1. row.outcome = "none" /\ row.state \notin Terminal /\ Active(row) /\ ~row.locked
    BY <1>2 DEF RowInv, FinalizeCall, Active
  <2>2. resolved # "none" /\ UpdateCall(c, new)
    BY <1>2, <2>1 DEF FinalizeCall
  <2>3. resolved \in Outcomes
    BY <1>0, <2>2, OutcomeTypes
  <2>4. new \in CallRow /\ ~new.locked
    BY <1>0, <2>1, <2>3 DEF CallRow, StateForOutcome, CallStates, Terminal
  <2>5. call'[c] = new /\ \A d \in Calls \ {c} : call'[d] = call[d]
    <3> HIDE DEF new
    <3> QED BY <2>1, <2>2, <2>4, OpenRowUpdate
  <2>6. /\ resolved \in Reached => row.answered
        /\ resolved \in NotReached => ~row.answered
        /\ resolved # "voicemail_dropped"
    BY DEF Resolve, CustomerHangupOutcome, Reached, NotReached
  <2>7. /\ new.state \in Terminal /\ new.ended /\ new.outcome = resolved
        /\ new.answered = row.answered /\ new.agent = row.agent /\ new.contact = row.contact
        /\ new.locked = row.locked /\ new.released = row.released /\ new.requested = row.requested
        /\ new.state = "failed" => new.outcome = "failed"
    BY <1>0 DEF CallRow, StateForOutcome, Terminal
  <2>8. RowInv(new)
    BY <2>1, <2>2, <2>6, <2>7 DEF RowInv, Terminal, Talking, VoicemailActive
  <2>9. Evolves(row, new) /\ ~Active(new)
    BY <2>1, <2>7 DEF Evolves, Active, Interactive, Exists, Terminal
  <2> QED BY <2>5, <2>8, <2>9
<1> QED BY <1>1, <1>2

(* Every other statement that writes an open row: it leaves the row open   *)
(* with a state that may follow, or it closes it.                          *)
LEMMA MoveOpenRow ==
  ASSUME TypeOK, NEW c \in Calls, RowInv(call[c]), Active(call[c]),
         NEW new \in CallRow, UpdateCall(c, new),
         new.agent = call[c].agent, new.contact = call[c].contact, ~new.locked,
         Exists(new), RowInv(new), Interactive(new) => Interactive(call[c])
  PROVE  /\ call'[c] = new
         /\ RowInv(call'[c]) /\ Evolves(call[c], call'[c])
         /\ \A d \in Calls \ {c} : call'[d] = call[d]
  BY OpenRowUpdate DEF Evolves

LEMMA MoveEndDialerCall ==
  ASSUME TypeOK, NEW c \in Calls, RowInv(call[c]), EndDialerCall(c)
  PROVE  /\ RowInv(call'[c]) /\ Evolves(call[c], call'[c]) /\ ~Active(call'[c])
         /\ \A d \in Calls \ {c} : call'[d] = call[d]
<1> DEFINE outcome == IF call[c].state = "bridged" THEN "answered" ELSE "agent_canceled"
           new     == [call[c] EXCEPT !.state = "completed", !.outcome = outcome, !.ended = TRUE]
<1>1. Active(call[c]) /\ Interactive(call[c]) /\ UpdateCall(c, new) /\ call[c] \in CallRow
  BY DEF EndDialerCall, Interactive, TypeOK
<1>2. new \in CallRow
  BY ZenonT(60), <1>1 DEF CallRow, CallStates, Terminal, Outcomes
<1>3. /\ new.agent = call[c].agent /\ new.contact = call[c].contact
      /\ new.locked = call[c].locked /\ new.state = "completed" /\ new.ended
      /\ new.answered = call[c].answered /\ new.outcome = outcome
  BY <1>1 DEF CallRow
<1>4. ~new.locked /\ Exists(new) /\ ~Active(new)
  BY <1>1, <1>3 DEF RowInv, Active, Exists
<1>5. RowInv(new)
  BY <1>3, <1>4 DEF RowInv, Terminal, Talking, VoicemailActive, Reached, NotReached
<1> HIDE DEF new
<1> QED BY <1>1, <1>2, <1>3, <1>4, <1>5, MoveOpenRow DEF Interactive

LEMMA MoveFinalizePlayback ==
  ASSUME TypeOK, NEW c \in Calls, RowInv(call[c]),
         \/ FinalizeCompletedPlayback(c)
         \/ \E b \in BOOLEAN : FinalizeIncompletePlayback(c, b)
  PROVE  /\ RowInv(call'[c]) /\ Evolves(call[c], call'[c]) /\ ~Active(call'[c])
         /\ \A d \in Calls \ {c} : call'[d] = call[d]
<1> DEFINE closed(s, o) == [call[c] EXCEPT !.state = s, !.outcome = o, !.ended = TRUE]
<1>1. Active(call[c]) /\ call[c].state \in VoicemailActive /\ call[c] \in CallRow
  BY DEF FinalizeCompletedPlayback, FinalizeIncompletePlayback, TypeOK
<1>2. PICK s \in {"completed", "failed"}, o \in {"voicemail_dropped", "failed"} :
        UpdateCall(c, closed(s, o)) /\ (s = "failed" => o = "failed")
  BY DEF FinalizeCompletedPlayback, FinalizeIncompletePlayback
<1> DEFINE new == closed(s, o)
<1>3. new \in CallRow
  BY <1>1 DEF CallRow, CallStates, Terminal, Outcomes
<1>4. /\ new.agent = call[c].agent /\ new.contact = call[c].contact
      /\ new.locked = call[c].locked /\ new.state = s /\ new.ended /\ new.outcome = o
      /\ new.answered = call[c].answered /\ new.requested = call[c].requested
      /\ new.released = call[c].released
  BY <1>1 DEF CallRow
<1>5. ~new.locked /\ Exists(new) /\ ~Active(new)
  BY <1>1, <1>4 DEF RowInv, Active, Exists
<1>6. RowInv(new)
  BY <1>1, <1>2, <1>4, <1>5 DEF RowInv, Terminal, Talking, VoicemailActive, Reached, NotReached
<1>7. UpdateCall(c, new)
  BY <1>2
<1> HIDE DEF new
<1> QED BY <1>1, <1>3, <1>4, <1>5, <1>6, <1>7, MoveOpenRow DEF Interactive

LEMMA MoveSetManualCallStatus ==
  ASSUME TypeOK, NEW c \in Calls, RowInv(call[c]), NEW outcome \in ManualOutcomes,
         SetManualCallStatus(c, outcome)
  PROVE  /\ RowInv(call'[c]) /\ Evolves(call[c], call'[c])
         /\ call'[c].ended = call[c].ended
         /\ \A d \in Calls \ {c} : call'[d] = call[d]
<1> DEFINE new == [call[c] EXCEPT !.state = TerminalStateForOutcome(outcome),
                                  !.outcome = outcome, !.locked = TRUE]
<1>1. call[c] \in CallRow /\ call[c].ended /\ ~call[c].locked /\ UpdateCall(c, new)
  BY DEF SetManualCallStatus, TypeOK
<1>2. /\ new.agent = call[c].agent /\ new.contact = call[c].contact /\ new.locked
      /\ new.state \in Terminal /\ new.ended /\ new.outcome = outcome
      /\ new.answered = call[c].answered /\ new.requested = call[c].requested
      /\ new.released = call[c].released /\ (new.state = "failed" => new.outcome = "failed")
  BY <1>1 DEF CallRow, TerminalStateForOutcome, Terminal
<1>3. outcome # "none"
  BY InputAssumption DEF Outcomes
<1>4. call'[c] = new /\ \A d \in Calls \ {c} : call'[d] = call[d]
  BY <1>1, UpdatedRow DEF Stored
<1>5. RowInv(new)
  BY <1>1, <1>2, <1>3 DEF RowInv, Terminal, Talking, VoicemailActive
<1> QED BY <1>1, <1>2, <1>4, <1>5 DEF Evolves

LEMMA MoveState ==
  ASSUME TypeOK, NEW c \in Calls, RowInv(call[c]), MarkAgentRinging(c) \/ MarkPlaybackStarted(c)
  PROVE  /\ RowInv(call'[c]) /\ Evolves(call[c], call'[c])
         /\ call'[c].ended = call[c].ended
         /\ \A d \in Calls \ {c} : call'[d] = call[d]
<1>1. PICK s \in {"agent_ringing", "voicemail_playback_started"} :
        /\ UpdateCall(c, [call[c] EXCEPT !.state = s])
        /\ s = "voicemail_playback_started" => call[c].state \in VoicemailActive
  BY DEF MarkAgentRinging, MarkPlaybackStarted, VoicemailActive
<1> DEFINE new == [call[c] EXCEPT !.state = s]
<1>2. call[c] \in CallRow /\ Active(call[c])
  BY DEF TypeOK, MarkAgentRinging, MarkPlaybackStarted, Active, RowInv
<1>3. new \in CallRow
  BY <1>2 DEF CallRow, CallStates, SetupStates, VoicemailActive
<1>4. new.state = s /\ \A f \in DOMAIN call[c] \ {"state"} : new[f] = call[c][f]
  BY <1>2 DEF CallRow
<1>5. /\ new.agent = call[c].agent /\ new.contact = call[c].contact /\ new.locked = call[c].locked
      /\ new.ended = call[c].ended /\ new.outcome = call[c].outcome
      /\ new.released = call[c].released /\ new.answered = call[c].answered
      /\ new.requested = call[c].requested
  BY <1>2 DEF CallRow
<1>6. ~new.locked /\ UpdateCall(c, new)
  BY <1>1, <1>2, <1>5 DEF RowInv, Active
<1>7. s = call[c].state \/ s \in MayFollow(call[c].state)
  BY ZenonT(60), <1>2, <1>3, <1>4, <1>6, OpenRowUpdate
<1>8. call[c].state # "agent_released" /\ s \notin Terminal
  BY <1>7 DEF MayFollow, Terminal
<1>9. RowInv(new)
  BY <1>1, <1>2, <1>4, <1>5, <1>8 DEF RowInv, Active, Terminal, Talking, VoicemailActive
<1>10. Exists(new) /\ Interactive(call[c])
  BY <1>2, <1>4, <1>8 DEF Exists, Interactive
<1> HIDE DEF new
<1> QED BY <1>2, <1>3, <1>5, <1>6, <1>9, <1>10, MoveOpenRow

LEMMA MovePersistChannelEvent ==
  ASSUME TypeOK, NEW c \in Calls, RowInv(call[c]), NEW type \in LegTypes, NEW event \in LegEvents,
         PersistChannelEvent(c, type, event)
  PROVE  /\ RowInv(call'[c]) /\ Evolves(call[c], call'[c])
         /\ call'[c].ended = call[c].ended
         /\ \A d \in Calls \ {c} : call'[d] = call[d]
<1> DEFINE answers == event = "bridge" \/ (type = "customer" /\ event = "answer")
           s   == AdvancedState(call[c].state, type, event)
           new == [call[c] EXCEPT !.state = AdvancedState(@, type, event), !.answered = @ \/ answers]
<1>1. CASE ~Active(call[c])
  BY <1>1 DEF PersistChannelEvent, Evolves
<1>2. CASE Active(call[c])
  <2>1. call[c] \in CallRow /\ UpdateCall(c, new)
    BY <1>2 DEF PersistChannelEvent, TypeOK
  <2>2. s \in CallStates
    BY <2>1, AdvancedStateType DEF CallRow
  <2>3. new \in CallRow
    BY <2>1, <2>2 DEF CallRow
  <2>4. /\ new.agent = call[c].agent /\ new.contact = call[c].contact /\ new.locked = call[c].locked
        /\ new.ended = call[c].ended /\ new.outcome = call[c].outcome
        /\ new.released = call[c].released /\ new.requested = call[c].requested
        /\ new.state = s /\ new.answered = (call[c].answered \/ answers)
    BY <2>1 DEF CallRow
  <2>5. /\ \/ s = call[c].state
           \/ call[c].state \in SetupStates /\ s \in SetupStates
           \/ call[c].state \in SetupStates /\ s = "bridged" /\ answers
    BY DEF AdvancedState, SetupStates
  <2>6. ~new.locked /\ Exists(new)
    BY <1>2, <2>4, <2>5 DEF RowInv, Active, Exists, SetupStates
  <2>7. Interactive(new) => Interactive(call[c])
    BY <1>2, <2>4, <2>5 DEF RowInv, Active, Exists, Interactive, SetupStates
  <2>8. RowInv(new)
    BY <1>2, <2>4, <2>5 DEF RowInv, Active, Terminal, Talking, VoicemailActive, SetupStates,
                            Reached, NotReached
  <2> HIDE DEF new
  <2> QED BY <1>2, <2>1, <2>3, <2>4, <2>6, <2>7, <2>8, MoveOpenRow
<1> QED BY <1>1, <1>2

LEMMA MovePersistVoicemailDetection ==
  ASSUME TypeOK, NEW c \in Calls, RowInv(call[c]), PersistVoicemailDetection(c)
  PROVE  /\ RowInv(call'[c]) /\ Evolves(call[c], call'[c])
         /\ call'[c].ended = call[c].ended
         /\ \A d \in Calls \ {c} : call'[d] = call[d]
<1>1. call[c] \in CallRow /\ Active(call[c]) /\ call'[c] = [call[c] EXCEPT !.detected = TRUE]
  BY DEF PersistVoicemailDetection, TypeOK
<1>2. \A f \in {"state", "outcome", "agent", "contact", "ended", "answered", "requested", "released",
                "locked"} : call'[c][f] = call[c][f]
  BY <1>1 DEF CallRow
<1>3. RowInv(call'[c])
  BY <1>1, <1>2 DEF RowInv
<1>4. Evolves(call[c], call'[c])
  BY <1>1, <1>2 DEF RowInv, Evolves, Active, Interactive, Exists
<1> QED BY <1>2, <1>3, <1>4 DEF PersistVoicemailDetection, TypeOK

LEMMA MoveVoicemailDrop ==
  ASSUME TypeOK, NEW c \in Calls, RowInv(call[c]),
         ClaimVoicemailDrop(c) \/ RevertVoicemailDrop(c) \/ MarkAgentReleased(c) \/ ReleaseAgent(c)
  PROVE  /\ RowInv(call'[c]) /\ Evolves(call[c], call'[c])
         /\ call'[c].ended = call[c].ended
         /\ \A d \in Calls \ {c} : call'[d] = call[d]
<1>1. PICK s \in Talking, q \in BOOLEAN, r \in BOOLEAN :
        /\ UpdateCall(c, [call[c] EXCEPT !.state = s, !.requested = q, !.released = r])
        /\ s \in VoicemailActive => q
        /\ s # "agent_released" => Interactive(call[c]) /\ r = call[c].released
  <2>1. call[c] \in CallRow
    BY DEF TypeOK
  <2>2. CASE ClaimVoicemailDrop(c)
    <3>1. [call[c] EXCEPT !.state = "voicemail_drop_requested", !.requested = TRUE]
          = [call[c] EXCEPT !.state = "voicemail_drop_requested", !.requested = TRUE,
                            !.released = call[c].released]
      BY <2>1 DEF CallRow
    <3>2. Interactive(call[c]) /\ call[c].released \in BOOLEAN
      BY <2>1, <2>2 DEF ClaimVoicemailDrop, Interactive, CallRow
    <3>3. "voicemail_drop_requested" \in Talking
      BY DEF Talking, VoicemailActive
    <3> QED BY <2>2, <3>1, <3>2, <3>3 DEF ClaimVoicemailDrop, VoicemailActive
  <2>3. CASE RevertVoicemailDrop(c)
    <3>1. [call[c] EXCEPT !.state = "bridged", !.requested = FALSE]
          = [call[c] EXCEPT !.state = "bridged", !.requested = FALSE, !.released = call[c].released]
      BY <2>1 DEF CallRow
    <3>2. Interactive(call[c]) /\ call[c].released \in BOOLEAN
      BY <2>1, <2>3 DEF RevertVoicemailDrop, Interactive, CallRow
    <3>3. "bridged" \in Talking
      BY DEF Talking, VoicemailActive
    <3> QED BY <2>3, <3>1, <3>2, <3>3 DEF RevertVoicemailDrop, VoicemailActive
  <2>4. CASE MarkAgentReleased(c) \/ ReleaseAgent(c)
    <3>1. call[c].state \in VoicemailActive /\ call[c].requested
      BY <2>4 DEF MarkAgentReleased, ReleaseAgent, RowInv
    <3>2. [call[c] EXCEPT !.state = "agent_released", !.released = TRUE]
          = [call[c] EXCEPT !.state = "agent_released", !.requested = call[c].requested,
                            !.released = TRUE]
      BY <2>1 DEF CallRow
    <3> QED BY <2>1, <2>4, <3>1, <3>2 DEF MarkAgentReleased, ReleaseAgent, Talking, VoicemailActive, CallRow
  <2> QED BY <2>2, <2>3, <2>4
<1> DEFINE new == [call[c] EXCEPT !.state = s, !.requested = q, !.released = r]
<1>2. call[c] \in CallRow /\ Active(call[c]) /\ call[c].state \in Talking
  BY DEF TypeOK, ClaimVoicemailDrop, RevertVoicemailDrop, MarkAgentReleased, ReleaseAgent,
         Talking, VoicemailActive
<1>3. new \in CallRow
  BY <1>2 DEF CallRow, CallStates, Talking
<1>4. /\ new.agent = call[c].agent /\ new.contact = call[c].contact /\ new.locked = call[c].locked
      /\ new.ended = call[c].ended /\ new.outcome = call[c].outcome
      /\ new.answered = call[c].answered
      /\ new.state = s /\ new.requested = q /\ new.released = r
  BY <1>2 DEF CallRow
<1>5. ~new.locked /\ Exists(new) /\ (Interactive(new) => Interactive(call[c]))
  BY <1>1, <1>2, <1>4 DEF RowInv, Active, Exists, Interactive, Talking, VoicemailActive
<1>6. RowInv(new)
  BY <1>1, <1>2, <1>4 DEF RowInv, Active, Interactive, Terminal, Talking, VoicemailActive,
                          Reached, NotReached
<1>7. UpdateCall(c, new)
  BY <1>1
<1> HIDE DEF new
<1> QED BY <1>2, <1>3, <1>4, <1>5, <1>6, <1>7, MoveOpenRow

------------------------------------------------------------------------------
(* The rows together.                                                      *)

RowsOK == \A c \in Calls : RowInv(call[c])

(* The statements that end a call, and the others that move a row.         *)
Ends(c) ==
  \/ \E how \in Resolvers : FinalizeCall(c, how)
  \/ EndDialerCall(c)
  \/ FinalizeCompletedPlayback(c)
  \/ \E b \in BOOLEAN : FinalizeIncompletePlayback(c, b)

Advances(c) ==
  \/ \E outcome \in ManualOutcomes : SetManualCallStatus(c, outcome)
  \/ MarkAgentRinging(c) \/ MarkPlaybackStarted(c)
  \/ \E e \in ChannelEvents : PersistChannelEvent(c, e[1], e[2])
  \/ PersistVoicemailDetection(c)
  \/ ClaimVoicemailDrop(c) \/ RevertVoicemailDrop(c) \/ MarkAgentReleased(c) \/ ReleaseAgent(c)

Inserts(c) == \E a \in Agents, k \in Contacts \cup {NoContact} : CreateDialerCall(c, a, k)

Touches(c) == StoreAgentLeg(c) \/ StoreCustomerLeg(c) \/ EndAgentLeg(c)

LEMMA CallStepKinds ==
  ASSUME NEW c \in Calls, CallStep(c)
  PROVE  Inserts(c) \/ Ends(c) \/ Advances(c) \/ Touches(c)
  BY DEF CallStep, Inserts, Ends, Advances, Touches

LEMMA EndsMove ==
  ASSUME TypeOK, RowsOK, NEW c \in Calls, Ends(c)
  PROVE  /\ RowInv(call'[c]) /\ Evolves(call[c], call'[c]) /\ ~Active(call'[c])
         /\ \A d \in Calls \ {c} : call'[d] = call[d]
  BY MoveFinalizeCall, MoveEndDialerCall, MoveFinalizePlayback DEF Ends, RowsOK

LEMMA AdvancesMove ==
  ASSUME TypeOK, RowsOK, NEW c \in Calls, Advances(c)
  PROVE  /\ RowInv(call'[c]) /\ Evolves(call[c], call'[c])
         /\ call'[c].ended = call[c].ended
         /\ \A d \in Calls \ {c} : call'[d] = call[d]
<1>1. \A e \in ChannelEvents : e[1] \in LegTypes /\ e[2] \in LegEvents
  BY InputAssumption
<1> QED BY <1>1, MoveSetManualCallStatus, MoveState, MovePersistChannelEvent,
           MovePersistVoicemailDetection, MoveVoicemailDrop DEF Advances, RowsOK

(* No statement but the insert opens a call, makes it interactive or hands *)
(* it to another agent or lead.                                            *)
LEMMA EvolvesNarrows ==
  ASSUME NEW old, NEW new, RowInv(old), RowInv(new), Evolves(old, new)
  PROVE  /\ new.agent = old.agent /\ new.contact = old.contact
         /\ Active(new) => Active(old)
         /\ Interactive(new) => Interactive(old)
         /\ new.ended = old.ended => (Active(new) <=> Active(old))
  BY DEF Evolves, Active, Interactive, RowInv

Unopened == \A d \in Calls :
  /\ RowInv(call'[d])
  /\ call'[d].agent = call[d].agent /\ call'[d].contact = call[d].contact
  /\ Active(call'[d]) => Active(call[d])
  /\ Interactive(call'[d]) => Interactive(call[d])

LEMMA OnlyInsertsOpen ==
  ASSUME TypeOK, RowsOK, Next
  PROVE  Unopened \/ \E c \in Calls : Inserts(c)
<1>1. CASE \E c \in Calls : Ends(c)
  BY <1>1, EndsMove, EvolvesNarrows DEF RowsOK, Unopened
<1>2. CASE \E c \in Calls : Advances(c)
  BY <1>2, AdvancesMove, EvolvesNarrows DEF RowsOK, Unopened
<1>3. CASE \E c \in Calls : Touches(c)
  BY <1>3 DEF Touches, StoreAgentLeg, StoreCustomerLeg, EndAgentLeg, RowsOK, Unopened
<1>4. CASE (\E a \in Agents : AgentStep(a)) \/ ContactStep
  BY <1>4 DEF AgentStep, FinishAgent, RegisterAgent, SetAgentAvailability, RetireAgent,
              ContactStep, CompleteContact, ResetCampaignLeads, RowsOK, Unopened
<1> QED BY <1>1, <1>2, <1>3, <1>4, CallStepKinds DEF Next

LEMMA InsertedRow ==
  ASSUME TypeOK, NEW c \in Calls, NEW a \in Agents, NEW k \in Contacts \cup {NoContact},
         CreateDialerCall(c, a, k)
  PROVE  /\ call[c] = Absent /\ ~Active(call[c])
         /\ call'[c].agent = a /\ call'[c].contact = k
         /\ RowInv(call'[c]) /\ Interactive(call'[c])
         /\ \A d \in Calls \ {c} : call'[d] = call[d]
         /\ agent' = [agent EXCEPT ![a].status = "in_call"]
         /\ contact' = IF k \in Contacts THEN [contact EXCEPT ![k] = "calling"] ELSE contact
  BY DEF CreateDialerCall, TypeOK, Absent, RowInv, Interactive, Active, Exists, Terminal, Talking,
         VoicemailActive, Reached, NotReached

LEMMA RowsStep ==
  ASSUME TypeOK, RowsOK, Next
  PROVE  RowsOK'
  BY OnlyInsertsOpen, InsertedRow DEF RowsOK, Unopened, Inserts

LEMMA OneCallEachStep ==
  ASSUME TypeOK, RowsOK, OneInteractiveCallPerAgent, OneActiveCallPerContact, Next
  PROVE  OneInteractiveCallPerAgent' /\ OneActiveCallPerContact'
<1>1. CASE Unopened
  BY <1>1 DEF Unopened, OneInteractiveCallPerAgent, OneActiveCallPerContact
<1>2. ASSUME NEW c \in Calls, NEW a \in Agents, NEW k \in Contacts \cup {NoContact},
             CreateDialerCall(c, a, k)
      PROVE  OneInteractiveCallPerAgent' /\ OneActiveCallPerContact'
  <2>1. \A d \in Calls \ {c} : Interactive(call[d]) => call[d].agent # a
    BY <1>2 DEF CreateDialerCall, HasInteractive
  <2>2. \A d \in Calls \ {c} : Active(call[d]) /\ k # NoContact => call[d].contact # k
    BY <1>2 DEF CreateDialerCall, LeadIsFree
  <2> QED BY <1>2, <2>1, <2>2, InsertedRow DEF OneInteractiveCallPerAgent, OneActiveCallPerContact
<1> QED BY <1>1, <1>2, OnlyInsertsOpen DEF Inserts

(* Handing an agent back leaves the agents of interactive calls alone.     *)
LEMMA FinishAgentCallSpares ==
  ASSUME NEW agents \in [Agents -> AgentRow], NEW calls, NEW a, NEW b \in Agents,
         HasInteractive(calls, b)
  PROVE  FinishAgentCall(agents, calls, a)[b] = agents[b]
  BY DEF FinishAgentCall

LEMMA BusyStep ==
  ASSUME TypeOK, TypeOK', RowsOK, InteractiveAgentIsBusy, Next
  PROVE  InteractiveAgentIsBusy'
<1>1. ASSUME NEW c \in Calls, Inserts(c) PROVE InteractiveAgentIsBusy'
  <2>1. PICK a \in Agents, k \in Contacts \cup {NoContact} : CreateDialerCall(c, a, k)
    BY <1>1 DEF Inserts
  <2>2. \A b \in Agents : agent'[b].status = IF b = a THEN "in_call" ELSE agent[b].status
    BY <2>1, InsertedRow DEF TypeOK, AgentRow
  <2>3. \A d \in Calls \ {c} : Interactive(call[d]) => call[d].agent \in Agents
    BY DEF TypeOK, Interactive, Active
  <2> QED BY <2>1, <2>2, <2>3, InsertedRow DEF InteractiveAgentIsBusy
<1>2. ASSUME NEW c \in Calls, Unopened, Ends(c) \/ Advances(c) \/ Touches(c)
      PROVE  InteractiveAgentIsBusy'
  <2>1. agent' = agent \/ agent' = FinishAgentCall(agent, call', call[c].agent)
    BY <1>2 DEF Ends, FinalizeCall, EndDialerCall, Cleanup, FinalizeCompletedPlayback,
       FinalizeIncompletePlayback, Advances, SetManualCallStatus, MarkAgentRinging,
       MarkPlaybackStarted, PersistChannelEvent, PersistVoicemailDetection, ClaimVoicemailDrop,
       RevertVoicemailDrop, MarkAgentReleased, ReleaseAgent, Touches, StoreAgentLeg,
       StoreCustomerLeg, EndAgentLeg
  <2>2. SUFFICES ASSUME NEW d \in Calls, Interactive(call'[d])
                 PROVE  agent'[call'[d].agent].status = "in_call"
    BY DEF InteractiveAgentIsBusy
  <2>3. Interactive(call[d]) /\ call'[d].agent = call[d].agent /\ call[d].agent \in Agents
    BY <1>2, <2>2 DEF Unopened, TypeOK, Interactive, Active
  <2>4. HasInteractive(call', call[d].agent)
    BY <2>2, <2>3 DEF HasInteractive
  <2>5. agent'[call[d].agent] = agent[call[d].agent]
    BY <2>1, <2>3, <2>4, FinishAgentCallSpares DEF TypeOK
  <2> QED BY <2>3, <2>5 DEF InteractiveAgentIsBusy
<1>3. ASSUME NEW a \in Agents, AgentStep(a) PROVE InteractiveAgentIsBusy'
  <2>1. call' = call
    BY <1>3 DEF AgentStep, FinishAgent, RegisterAgent, SetAgentAvailability, RetireAgent
  <2>2. SUFFICES ASSUME NEW d \in Calls, Interactive(call[d])
                 PROVE  agent'[call[d].agent].status = "in_call"
    BY <2>1 DEF InteractiveAgentIsBusy
  <2>3. call[d].agent \in Agents /\ HasInteractive(call, call[d].agent)
        /\ agent[call[d].agent].status = "in_call"
    BY <2>2 DEF TypeOK, Interactive, Active, HasInteractive, InteractiveAgentIsBusy
  <2>4. CASE FinishAgent(a)
    BY <2>3, <2>4, FinishAgentCallSpares DEF FinishAgent, TypeOK
  <2>5. ASSUME NEW b \in BOOLEAN, RegisterAgent(a, b) \/ SetAgentAvailability(a, b)
        PROVE  agent'[call[d].agent].status = "in_call"
    <3>1. CASE a = call[d].agent
      BY <2>3, <2>5, <3>1 DEF RegisterAgent, SetAgentAvailability, TypeOK, AgentRow
    <3>2. CASE a # call[d].agent
      BY <2>3, <2>5, <3>2 DEF RegisterAgent, SetAgentAvailability, TypeOK
    <3> QED BY <3>1, <3>2
  <2>6. CASE RetireAgent(a)
    BY <2>3, <2>6 DEF RetireAgent, TypeOK
  <2> QED BY <1>3, <2>4, <2>5, <2>6 DEF AgentStep
<1>4. CASE ContactStep
  BY <1>4 DEF ContactStep, CompleteContact, ResetCampaignLeads, InteractiveAgentIsBusy
<1> QED
  <2>1. CASE \E c \in Calls : Inserts(c)
    BY <2>1, <1>1
  <2>2. CASE Unopened
    BY <2>2, <1>1, <1>2, <1>3, <1>4, CallStepKinds DEF Next
  <2> QED BY <2>1, <2>2, OnlyInsertsOpen

------------------------------------------------------------------------------
(* Calls and leads together.                                               *)

LeadsInv == NoLeakedReservation /\ OpenLeadIsNotCallable

Reserved(calls, k) == \E d \in Calls : calls[d].contact = k /\ Active(calls[d])

(* What the end of a call does to the leads.                               *)
LEMMA EndsGiveBack ==
  ASSUME TypeOK, RowsOK, OneActiveCallPerContact, OpenLeadIsNotCallable, NEW c \in Calls, Ends(c)
  PROVE  \A k \in Contacts :
           \/ contact'[k] = contact[k] /\ (k # call[c].contact \/ contact[k] # "calling"
                                            \/ ReservedElsewhere(c))
           \/ k = call[c].contact /\ contact'[k] = "completed"
           \/ k = call[c].contact /\ contact'[k] = "new" /\ ~ReservedElsewhere(c)
<1> DEFINE Back(contacts) ==
      \A k \in Contacts :
        \/ contacts[k] = contact[k] /\ (k # call[c].contact \/ contact[k] # "calling"
                                         \/ ReservedElsewhere(c))
        \/ k = call[c].contact /\ contacts[k] = "completed"
        \/ k = call[c].contact /\ contacts[k] = "new" /\ ~ReservedElsewhere(c)
<1>1. ASSUME NEW status \in {"new", "completed"}, ~ReservedElsewhere(c) \/ status = "completed"
      PROVE  Back(CloseContact(contact, call[c].contact, status))
  BY <1>1 DEF CloseContact, TypeOK
<1>2. ASSUME Active(call[c]) PROVE ~ReservedElsewhere(c) \/ call[c].contact = NoContact
  BY <1>2 DEF OneActiveCallPerContact, ReservedElsewhere
<1>3. ASSUME call[c].contact = NoContact, NEW status
      PROVE  Back(CloseContact(contact, call[c].contact, status))
  BY <1>3, NoneAssumption DEF CloseContact
<1>4. ASSUME NEW how \in Resolvers, FinalizeCall(c, how) PROVE Back(contact')
  <2>1. PICK outcome : contact' = IF ReservedElsewhere(c) THEN contact
               ELSE CloseContact(contact, call[c].contact, ContactStatusForCallOutcome(outcome))
    BY <1>4 DEF FinalizeCall, Cleanup
  <2>2. ContactStatusForCallOutcome(outcome) \in {"new", "completed"}
    BY DEF ContactStatusForCallOutcome
  <2> QED BY <1>1, <2>1, <2>2
<1>5. ASSUME EndDialerCall(c) PROVE Back(contact')
  <2>1. PICK status \in {"new", "completed"} : contact' = CloseContact(contact, call[c].contact, status)
    BY <1>5 DEF EndDialerCall, Cleanup
  <2>2. Active(call[c])
    BY <1>5 DEF EndDialerCall, Interactive
  <2> QED BY <1>1, <1>2, <1>3, <2>1, <2>2
<1>6. ASSUME FinalizeCompletedPlayback(c) PROVE Back(contact')
  BY <1>1, <1>6 DEF FinalizeCompletedPlayback
<1>7. ASSUME NEW b, FinalizeIncompletePlayback(c, b) PROVE Back(contact')
  <2>1. contact' = CloseContact(contact, call[c].contact, "new") /\ Active(call[c])
    BY <1>7 DEF FinalizeIncompletePlayback
  <2> QED BY <1>1, <1>2, <1>3, <2>1
<1> QED BY <1>4, <1>5, <1>6, <1>7 DEF Ends

LEMMA LeadsStep ==
  ASSUME TypeOK, RowsOK, OneActiveCallPerContact, LeadsInv, Next
  PROVE  LeadsInv'
<1>1. ASSUME NEW c \in Calls, Inserts(c) PROVE LeadsInv'
  <2>1. PICK a \in Agents, k \in Contacts \cup {NoContact} : CreateDialerCall(c, a, k)
    BY <1>1 DEF Inserts
  <2>2. k \in Contacts => LeadIsFree(k)
    BY <2>1 DEF CreateDialerCall
  <2>3. Active(call'[c])
    BY <2>1, InsertedRow DEF Interactive
  <2>4. \A j \in Contacts : contact'[j] = IF j = k THEN "calling" ELSE contact[j]
    BY <2>1, InsertedRow DEF TypeOK
  <2>5. NoLeakedReservation'
    BY <2>1, <2>3, <2>4, InsertedRow DEF LeadsInv, NoLeakedReservation
  <2>6. OpenLeadIsNotCallable'
    <3>1. SUFFICES ASSUME NEW d \in Calls, Active(call'[d]), call'[d].contact # NoContact
                   PROVE  contact'[call'[d].contact] # "new"
      BY DEF OpenLeadIsNotCallable
    <3>2. call'[d].contact \in Contacts
      BY <3>1, TypeNext DEF TypeOK, CallRow
    <3> QED BY <2>1, <2>4, <3>1, <3>2, InsertedRow DEF LeadsInv, OpenLeadIsNotCallable
  <2> QED BY <2>5, <2>6 DEF LeadsInv
<1>2. ASSUME NEW c \in Calls, Ends(c) PROVE LeadsInv'
  <2>1. \A d \in Calls \ {c} : call'[d] = call[d]
    BY <1>2, EndsMove
  <2>2. ~Active(call'[c])
    BY <1>2, EndsMove
  <2>3. NoLeakedReservation'
    <3>1. SUFFICES ASSUME NEW k \in Contacts, contact'[k] = "calling"
                   PROVE  \E d \in Calls \ {c} : call[d].contact = k /\ Active(call[d])
      BY <2>1 DEF NoLeakedReservation
    <3>2. contact[k] = "calling" /\ (k # call[c].contact \/ ReservedElsewhere(c))
      BY <1>2, <3>1, EndsGiveBack DEF LeadsInv
    <3>3. PICK d \in Calls : call[d].contact = k /\ Active(call[d])
      BY <3>2 DEF LeadsInv, NoLeakedReservation
    <3>4. CASE d # c
      BY <3>3, <3>4
    <3>5. CASE d = c
      BY <3>2, <3>3, <3>5 DEF ReservedElsewhere
    <3> QED BY <3>4, <3>5
  <2>4. OpenLeadIsNotCallable'
    <3>1. SUFFICES ASSUME NEW d \in Calls \ {c}, Active(call[d]), call[d].contact # NoContact
                   PROVE  contact'[call[d].contact] # "new"
      BY <2>1, <2>2 DEF OpenLeadIsNotCallable
    <3>2. call[d].contact \in Contacts /\ contact[call[d].contact] # "new"
      BY <3>1 DEF TypeOK, CallRow, LeadsInv, OpenLeadIsNotCallable
    <3>3. call[d].contact = call[c].contact => ReservedElsewhere(c)
      BY <3>1 DEF ReservedElsewhere
    <3> QED BY <1>2, <3>2, <3>3, EndsGiveBack DEF LeadsInv
  <2> QED BY <2>3, <2>4 DEF LeadsInv
<1>3. ASSUME NEW c \in Calls, Advances(c) PROVE LeadsInv'
  <2>1. contact' = contact
    BY <1>3 DEF Advances, SetManualCallStatus, MarkAgentRinging, MarkPlaybackStarted,
       PersistChannelEvent, PersistVoicemailDetection, ClaimVoicemailDrop, RevertVoicemailDrop,
       MarkAgentReleased, ReleaseAgent
  <2>2. \A d \in Calls : call'[d].contact = call[d].contact /\ (Active(call'[d]) <=> Active(call[d]))
    BY <1>3, AdvancesMove, EvolvesNarrows DEF RowsOK
  <2> QED BY <2>1, <2>2 DEF LeadsInv, NoLeakedReservation, OpenLeadIsNotCallable
<1>4. ASSUME (\E c \in Calls : Touches(c)) \/ (\E a \in Agents : AgentStep(a)) PROVE LeadsInv'
  BY <1>4 DEF Touches, StoreAgentLeg, StoreCustomerLeg, EndAgentLeg, AgentStep, FinishAgent,
     RegisterAgent, SetAgentAvailability, RetireAgent, LeadsInv, NoLeakedReservation,
     OpenLeadIsNotCallable
<1>5. ASSUME NEW k \in Contacts, CompleteContact(k) PROVE LeadsInv'
  <2>1. call' = call /\ \A j \in Contacts : contact'[j] = IF j = k THEN "completed" ELSE contact[j]
    BY <1>5 DEF CompleteContact, TypeOK
  <2>2. \A d \in Calls : call[d].contact # NoContact /\ Active(call[d]) => call[d].contact \in Contacts
    BY DEF TypeOK, CallRow
  <2> QED BY <2>1, <2>2 DEF LeadsInv, NoLeakedReservation, OpenLeadIsNotCallable
<1>6. ASSUME NEW K \in SUBSET Contacts, ResetCampaignLeads(K) PROVE LeadsInv'
  <2>1. /\ call' = call /\ ~\E d \in Calls : call[d].contact \in K /\ Active(call[d])
        /\ \A j \in Contacts : contact'[j] = IF j \in K THEN "new" ELSE contact[j]
    BY <1>6 DEF ResetCampaignLeads
  <2>2. \A d \in Calls : call[d].contact # NoContact /\ Active(call[d]) => call[d].contact \in Contacts
    BY DEF TypeOK, CallRow
  <2> QED BY <2>1, <2>2 DEF LeadsInv, NoLeakedReservation, OpenLeadIsNotCallable
<1> QED BY <1>1, <1>2, <1>3, <1>4, <1>5, <1>6, CallStepKinds DEF Next, ContactStep

------------------------------------------------------------------------------
(* The inductive invariant and what it gives.                              *)

IInv == /\ TypeOK /\ RowsOK
        /\ OneInteractiveCallPerAgent /\ OneActiveCallPerContact
        /\ InteractiveAgentIsBusy /\ LeadsInv

LEMMA IInvInit == Init => IInv
<1>1. Init => RowsOK
  <2>1. RowInv(Absent)
    BY DEF Absent, RowInv, Terminal, Talking, VoicemailActive, Reached, NotReached
  <2> QED BY <2>1 DEF Init, RowsOK
<1>2. Init => /\ OneInteractiveCallPerAgent /\ OneActiveCallPerContact
              /\ InteractiveAgentIsBusy /\ LeadsInv
  BY DEF Init, Absent, Active, Interactive, Exists, OneInteractiveCallPerAgent,
         OneActiveCallPerContact, InteractiveAgentIsBusy, LeadsInv, NoLeakedReservation,
         OpenLeadIsNotCallable
<1> QED BY <1>1, <1>2, TypeInit DEF IInv

LEMMA IInvNext == IInv /\ [Next]_storeVars => IInv'
<1>1. ASSUME IInv, Next PROVE IInv'
  BY <1>1, TypeNext, RowsStep, OneCallEachStep, BusyStep, LeadsStep DEF IInv
<1>2. ASSUME IInv, UNCHANGED storeVars PROVE IInv'
  BY <1>2 DEF IInv, storeVars, TypeOK, RowsOK, OneInteractiveCallPerAgent, HasInteractive,
     OneActiveCallPerContact, InteractiveAgentIsBusy, LeadsInv, NoLeakedReservation,
     OpenLeadIsNotCallable
<1> QED BY <1>1, <1>2

LEMMA IInvHolds == Spec => []IInv
  BY IInvInit, IInvNext, PTL DEF Spec

(* No agent has two interactive calls: for every number of calls, agents   *)
(* and leads, whatever order the statements run in.                        *)
THEOREM OneInteractiveCall == Spec => []OneInteractiveCallPerAgent
<1>1. IInv => OneInteractiveCallPerAgent BY DEF IInv
<1> QED BY <1>1, IInvHolds, PTL

(* No lead is in two open calls.                                           *)
THEOREM OneCallPerLead == Spec => []OneActiveCallPerContact
<1>1. IInv => OneActiveCallPerContact BY DEF IInv
<1> QED BY <1>1, IInvHolds, PTL

(* An agent on an interactive call is shown in_call.                       *)
THEOREM TalkingAgentIsBusy == Spec => []InteractiveAgentIsBusy
<1>1. IInv => InteractiveAgentIsBusy BY DEF IInv
<1> QED BY <1>1, IInvHolds, PTL

(* A lead is reserved exactly while a call is open for it: no reservation  *)
(* outlives the calls of its lead ...                                      *)
THEOREM NoReservationLeaks == Spec => []NoLeakedReservation
<1>1. IInv => NoLeakedReservation BY DEF IInv, LeadsInv
<1> QED BY <1>1, IInvHolds, PTL

(* ... and a lead with an open call is not offered again.                  *)
THEOREM OpenLeadIsTaken == Spec => []OpenLeadIsNotCallable
<1>1. IInv => OpenLeadIsNotCallable BY DEF IInv, LeadsInv
<1> QED BY <1>1, IInvHolds, PTL

(* The columns that say a call is over agree ...                           *)
THEOREM RowsAreConsistent == Spec => []FinalizedTogether
<1>1. IInv => FinalizedTogether
  BY DEF IInv, RowsOK, RowInv, FinalizedTogether
<1> QED BY <1>1, IInvHolds, PTL

(* ... a call whose agent was released never takes the agent back ...      *)
THEOREM ReleaseIsForGood == Spec => []ReleasedStaysBackground
<1>1. IInv => ReleasedStaysBackground
  BY DEF IInv, RowsOK, RowInv, ReleasedStaysBackground
<1> QED BY <1>1, IInvHolds, PTL

(* ... and a call has an outcome that its events have earned.              *)
THEOREM OutcomesAreEarned == Spec => []OutcomeIsEarned
<1>1. IInv => OutcomeIsEarned
  BY DEF IInv, RowsOK, RowInv, OutcomeIsEarned, Reached, NotReached
<1> QED BY <1>1, IInvHolds, PTL

------------------------------------------------------------------------------
(* What the steps do.                                                       *)

LEMMA FirstOutcomeStep ==
  ASSUME IInv, Next, NEW c \in Calls, call[c].ended
  PROVE  \/ call'[c] = call[c]
         \/ ~call[c].locked /\ call'[c].locked /\ call'[c].ended
<1>1. ~Active(call[c]) /\ call[c] # Absent
  BY DEF Active, Absent
<1>2. ASSUME NEW d \in Calls, Inserts(d) PROVE call'[c] = call[c]
  BY <1>1, <1>2, InsertedRow DEF IInv, Inserts
<1>3. ASSUME NEW d \in Calls, Ends(d) \/ Advances(d)
      PROVE  call'[c] = call[c] \/ Evolves(call[c], call'[c])
  BY <1>3, EndsMove, AdvancesMove DEF IInv
<1>4. ASSUME (\E d \in Calls : Touches(d)) \/ (\E a \in Agents : AgentStep(a)) \/ ContactStep
      PROVE  call' = call
  BY <1>4 DEF Touches, StoreAgentLeg, StoreCustomerLeg, EndAgentLeg, AgentStep, FinishAgent,
     RegisterAgent, SetAgentAvailability, RetireAgent, ContactStep, CompleteContact,
     ResetCampaignLeads
<1> QED BY <1>1, <1>2, <1>3, <1>4, CallStepKinds DEF Next, Evolves

(* Whoever ends a call first decides how it ended: nothing but the owner's *)
(* single correction ever touches the row again.                           *)
THEOREM FirstOutcomeIsKept == Spec => FirstOutcomeWins
<1>1. IInv /\ [Next]_storeVars =>
        [\A c \in Calls : call[c].ended =>
           \/ call'[c] = call[c]
           \/ ~call[c].locked /\ call'[c].locked /\ call'[c].ended]_storeVars
  BY FirstOutcomeStep
<1> QED BY <1>1, IInvHolds, PTL DEF Spec, FirstOutcomeWins

------------------------------------------------------------------------------
(* The policy, and what each statement that ends a call does to the lead.  *)
Policy(outcome) == IF outcome \in Reached THEN "completed" ELSE "new"

LEMMA PolicyIsTheCode == ASSUME NEW outcome PROVE ContactStatusForCallOutcome(outcome) = Policy(outcome)
  BY DEF Policy, Reached, ContactStatusForCallOutcome

(* Giving back a reserved lead sets it to the status asked for.            *)
LEMMA ReservedLeadIsClosed ==
  ASSUME TypeOK, NEW k \in Contacts, contact[k] = "calling", NEW status
  PROVE  CloseContact(contact, k, status)[k] = status
  BY DEF CloseContact, TypeOK

LEMMA LeadOfFinalizedCall ==
  ASSUME IInv, NEW c \in Calls, NEW how \in Resolvers, FinalizeCall(c, how), Active(call[c]),
         call[c].contact \in Contacts, contact[call[c].contact] = "calling"
  PROVE  contact'[call[c].contact] = Policy(call'[c].outcome)
<1> DEFINE resolved == Resolve(call[c], how)
           new      == [call[c] EXCEPT !.state = StateForOutcome(resolved), !.outcome = resolved,
                                       !.ended = TRUE]
<1>1. TypeOK /\ call[c] \in CallRow /\ RowInv(call[c]) /\ ~call[c].ended
      /\ call[c].outcome = "none" /\ call[c].state \notin Terminal /\ ~call[c].locked
  BY DEF IInv, TypeOK, RowsOK, RowInv, Active
<1>2. UpdateCall(c, new) /\ resolved # "none"
  BY <1>1 DEF FinalizeCall
<1>3. new.outcome = resolved /\ ~new.locked
  BY <1>1 DEF CallRow
<1>4. call'[c].outcome = resolved
  <2> HIDE DEF new
  <2> QED BY <1>1, <1>2, <1>3, UpdatedRow DEF Stored
<1>5. ~ReservedElsewhere(c)
  BY NoneAssumption DEF IInv, OneActiveCallPerContact, ReservedElsewhere
<1>6. contact' = CloseContact(contact, call[c].contact, ContactStatusForCallOutcome(resolved))
  BY <1>1, <1>2, <1>5 DEF FinalizeCall, Cleanup
<1> QED BY <1>1, <1>4, <1>6, PolicyIsTheCode, ReservedLeadIsClosed

(* The other three endings write a fixed pair of outcome and lead status.  *)
LEMMA LeadOfEndedCall ==
  ASSUME IInv, NEW c \in Calls, Active(call[c]),
         call[c].contact \in Contacts, contact[call[c].contact] = "calling",
         NEW s, NEW outcome, NEW status, status = Policy(outcome),
         UpdateCall(c, [call[c] EXCEPT !.state = s, !.outcome = outcome, !.ended = TRUE]),
         contact' = CloseContact(contact, call[c].contact, status)
  PROVE  contact'[call[c].contact] = Policy(call'[c].outcome)
<1> DEFINE new == [call[c] EXCEPT !.state = s, !.outcome = outcome, !.ended = TRUE]
<1>1. TypeOK /\ call[c] \in CallRow /\ ~call[c].locked
  BY DEF IInv, TypeOK, RowsOK, RowInv, Active
<1>2. new.outcome = outcome /\ UpdateCall(c, new)
  BY <1>1 DEF CallRow
<1>3. call'[c].outcome = outcome
  <2> HIDE DEF new
  <2> QED BY <1>1, <1>2, UpdatedRow DEF Stored
<1> QED BY <1>1, <1>3, ReservedLeadIsClosed

LEMMA LeadFollowsStep ==
  ASSUME IInv, Next, NEW c \in Calls, Active(call[c]), call'[c].ended,
         call[c].contact \in Contacts, contact[call[c].contact] = "calling"
  PROVE  contact'[call[c].contact] = Policy(call'[c].outcome)
<1>0. ~call[c].ended /\ TypeOK /\ RowsOK
  BY DEF Active, IInv
<1>1. CASE \E how \in Resolvers : FinalizeCall(c, how)
  BY <1>1, LeadOfFinalizedCall
<1>2. CASE EndDialerCall(c)
  <2> DEFINE outcome == IF call[c].state = "bridged" THEN "answered" ELSE "agent_canceled"
             status  == IF outcome = "agent_canceled" THEN "new" ELSE "completed"
  <2>1. /\ UpdateCall(c, [call[c] EXCEPT !.state = "completed", !.outcome = outcome, !.ended = TRUE])
        /\ contact' = CloseContact(contact, call[c].contact, status)
    BY <1>2 DEF EndDialerCall, Cleanup
  <2>2. status = Policy(outcome)
    BY DEF Policy, Reached
  <2> HIDE DEF outcome, status
  <2> QED BY <2>1, <2>2, LeadOfEndedCall
<1>3. CASE FinalizeCompletedPlayback(c)
  <2>1. "completed" = Policy("voicemail_dropped")
    BY DEF Policy, Reached
  <2> QED BY <1>3, <2>1, LeadOfEndedCall DEF FinalizeCompletedPlayback
<1>4. CASE \E b \in BOOLEAN : FinalizeIncompletePlayback(c, b)
  <2>1. "new" = Policy("failed")
    BY DEF Policy, Reached
  <2> QED BY <1>4, <2>1, LeadOfEndedCall DEF FinalizeIncompletePlayback
<1>5. ASSUME NEW d \in Calls, d # c, Ends(d) \/ Advances(d) PROVE call'[c] = call[c]
  BY <1>5, EndsMove, AdvancesMove DEF IInv
<1>6. CASE Advances(c)
  BY <1>0, <1>6, AdvancesMove
<1>7. ASSUME NEW d \in Calls, Inserts(d) PROVE ~call'[c].ended
  BY <1>0, <1>7, InsertedRow DEF Inserts, Active, Interactive
<1>8. ASSUME (\E d \in Calls : Touches(d)) \/ (\E a \in Agents : AgentStep(a)) \/ ContactStep
      PROVE  call' = call
  BY <1>8 DEF Touches, StoreAgentLeg, StoreCustomerLeg, EndAgentLeg, AgentStep, FinishAgent,
     RegisterAgent, SetAgentAvailability, RetireAgent, ContactStep, CompleteContact,
     ResetCampaignLeads
<1> QED BY <1>0, <1>1, <1>2, <1>3, <1>4, <1>5, <1>6, <1>7, <1>8, CallStepKinds DEF Next, Ends

(* However a call ends, its reserved lead is settled by its outcome.       *)
THEOREM LeadsFollowOutcomes == Spec => LeadFollowsOutcome
<1>1. IInv /\ [Next]_storeVars =>
        [\A c \in Calls :
           LET k == call[c].contact
           IN Active(call[c]) /\ call'[c].ended /\ k \in Contacts /\ contact[k] = "calling" =>
                contact'[k] = IF call'[c].outcome \in {"answered", "customer_hung_up",
                                                       "voicemail_detected", "voicemail_dropped"}
                              THEN "completed" ELSE "new"]_storeVars
  BY LeadFollowsStep DEF Policy, Reached
<1> QED BY <1>1, IInvHolds, PTL DEF Spec, LeadFollowsOutcome

------------------------------------------------------------------------------
(* The step simulation.                                                    *)

LEMMA EntryPhases ==
  ASSUME NEW row \in CallRow, RowInv(row)
  PROVE  /\ LedgerEntry(row) = [phase |-> LedgerEntry(row).phase, owner |-> row.agent,
                                lead |-> row.contact, result |-> row.outcome]
         /\ LedgerEntry(row).phase = "interactive" <=> Interactive(row)
         /\ Active(row) <=> LedgerEntry(row).phase \in {"interactive", "background"}
         /\ ~Exists(row) => LedgerEntry(row).phase = "none"
         /\ Active(row) => row.outcome = "none"
         /\ row.ended /\ ~row.locked => LedgerEntry(row).phase = "closed"
         /\ row.ended /\ row.locked => LedgerEntry(row).phase = "corrected"
         /\ ~row.ended /\ Exists(row) => Active(row)
         /\ row.ended => row.outcome \in Outcomes
  BY DEF LedgerEntry, RowInv, Interactive, Active, Exists, Terminal, CallRow

LEMMA EvolvesIsALedgerStep ==
  ASSUME NEW old \in CallRow, NEW new \in CallRow, RowInv(old), RowInv(new), Evolves(old, new),
         NEW e, NEW f, e = LedgerEntry(old), f = LedgerEntry(new)
  PROVE  \/ f = e
         \/ e.phase = "interactive" /\ f = Ledger!Moved(e, "background", "none")
         \/ /\ e.phase \in {"interactive", "background"} /\ f.result \in Outcomes
            /\ f = Ledger!Moved(e, "closed", f.result)
         \/ /\ e.phase = "closed" /\ f.result \in Outcomes
            /\ f = Ledger!Moved(e, "corrected", f.result)
<1>1. /\ e = [phase |-> e.phase, owner |-> old.agent, lead |-> old.contact, result |-> old.outcome]
      /\ f = [phase |-> f.phase, owner |-> new.agent, lead |-> new.contact, result |-> new.outcome]
      /\ new.agent = old.agent /\ new.contact = old.contact
      /\ e.owner = old.agent /\ e.lead = old.contact /\ e.result = old.outcome
      /\ f.owner = new.agent /\ f.lead = new.contact /\ f.result = new.outcome
  <2>1. /\ e = [phase |-> e.phase, owner |-> old.agent, lead |-> old.contact, result |-> old.outcome]
        /\ f = [phase |-> f.phase, owner |-> new.agent, lead |-> new.contact, result |-> new.outcome]
    BY EntryPhases
  <2> QED BY <2>1 DEF Evolves
<1>2. CASE new = old
  BY <1>2
<1>3. CASE Active(old) /\ Exists(new) /\ ~new.locked /\ (Interactive(new) => Interactive(old))
  <2>1. CASE new.ended
    <3>1. e.phase \in {"interactive", "background"} /\ f.phase = "closed" /\ new.outcome \in Outcomes
      BY <1>3, <2>1, EntryPhases
    <3> QED BY <1>1, <3>1 DEF Ledger!Moved
  <2>2. CASE ~new.ended
    <3>1. /\ e.phase \in {"interactive", "background"} /\ f.phase \in {"interactive", "background"}
          /\ f.phase = "interactive" => e.phase = "interactive"
          /\ new.outcome = "none" /\ old.outcome = "none"
      BY <1>3, <2>2, EntryPhases
    <3> QED BY <1>1, <3>1 DEF Ledger!Moved
  <2> QED BY <2>1, <2>2
<1>4. CASE old.ended /\ ~old.locked /\ new.locked /\ new.ended
  <2>1. e.phase = "closed" /\ f.phase = "corrected" /\ new.outcome \in Outcomes
    BY <1>4, EntryPhases
  <2> QED BY <1>1, <2>1 DEF Ledger!Moved
<1> QED BY <1>2, <1>3, <1>4 DEF Evolves

(* The ledger as the rows show it.                                         *)
Entries == [c \in Calls |-> LedgerEntry(call[c])]

LEMMA BlankEntry == LedgerEntry(Absent) = Ledger!Blank
<1>1. /\ Absent.state = "absent" /\ Absent.agent = NoAgent /\ Absent.contact = NoContact
      /\ Absent.outcome = "none"
  BY DEF Absent
<1>2. ~Exists(Absent)
  BY <1>1 DEF Exists
<1>3. Absent \in CallRow
  BY DEF Absent, CallRow, CallStates
<1>4. RowInv(Absent)
  BY DEF Absent, RowInv, Terminal, Talking, VoicemailActive, Reached, NotReached
<1> QED BY <1>1, <1>2, <1>3, <1>4, EntryPhases DEF Ledger!Blank

LEMMA LedgerStep ==
  ASSUME IInv, IInv', Next
  PROVE  Ledger!Next \/ UNCHANGED Entries
<1>0. (\A d \in Calls : call[d] \in CallRow /\ RowInv(call[d])) /\ Calls = DOMAIN Entries
  BY DEF IInv, TypeOK, RowsOK, Entries
<1>1. ASSUME NEW c \in Calls, Inserts(c) PROVE Ledger!Next
  <2>1. PICK a \in Agents, k \in Contacts \cup {NoContact} : CreateDialerCall(c, a, k)
    BY <1>1 DEF Inserts
  <2>2. LedgerEntry(call[c]) = Ledger!Blank
    BY <2>1, BlankEntry DEF CreateDialerCall
  <2>3. /\ LedgerEntry(call'[c]).phase = "interactive" /\ LedgerEntry(call'[c]).result = "none"
        /\ LedgerEntry(call'[c]).owner = a /\ LedgerEntry(call'[c]).lead = k
    <3>1. /\ Interactive(call'[c]) /\ call'[c].agent = a /\ call'[c].contact = k
      BY <2>1, InsertedRow DEF IInv
    <3>2. call'[c] \in CallRow /\ RowInv(call'[c]) /\ Active(call'[c])
      BY <3>1 DEF IInv, TypeOK, RowsOK, Interactive
    <3>3. LedgerEntry(call'[c]) = [phase |-> LedgerEntry(call'[c]).phase, owner |-> a, lead |-> k,
                                   result |-> "none"]
      BY <3>1, <3>2, EntryPhases
    <3> QED BY <3>1, <3>2, <3>3, EntryPhases
  <2>4. ~\E d \in Calls : LedgerEntry(call[d]).phase = "interactive" /\ LedgerEntry(call[d]).owner = a
    BY <1>0, <2>1, EntryPhases DEF CreateDialerCall, HasInteractive
  <2>5. k \in Contacts =>
          ~\E d \in Calls : /\ LedgerEntry(call[d]).phase \in {"interactive", "background"}
                            /\ LedgerEntry(call[d]).lead = k
    BY <1>0, <2>1, EntryPhases DEF CreateDialerCall, LeadIsFree
  <2>6. \A d \in Calls \ {c} : call'[d] = call[d]
    BY <2>1, InsertedRow DEF IInv
  <2> QED BY <2>2, <2>3, <2>4, <2>5, <2>6
          DEF Ledger!Next, Ledger!Start, Ledger!OnCall, Ledger!BeingCalled, Ledger!Open
<1>2. ASSUME NEW c \in Calls, Ends(c) \/ Advances(c) PROVE Ledger!Next \/ UNCHANGED Entries
  <2>1. Evolves(call[c], call'[c]) /\ \A d \in Calls \ {c} : call'[d] = call[d]
    BY <1>2, EndsMove, AdvancesMove DEF IInv
  <2>2. call'[c] \in CallRow /\ RowInv(call'[c])
    BY DEF IInv, TypeOK, RowsOK
  <2>3. CASE LedgerEntry(call'[c]) = LedgerEntry(call[c])
    BY <2>1, <2>3 DEF Entries
  <2>4. CASE LedgerEntry(call'[c]) # LedgerEntry(call[c])
    <3> DEFINE e == LedgerEntry(call[c])
               f == LedgerEntry(call'[c])
    <3>1. \/ e.phase = "interactive" /\ f = Ledger!Moved(e, "background", "none")
          \/ /\ e.phase \in {"interactive", "background"} /\ f.result \in Outcomes
             /\ f = Ledger!Moved(e, "closed", f.result)
          \/ /\ e.phase = "closed" /\ f.result \in Outcomes
             /\ f = Ledger!Moved(e, "corrected", f.result)
      BY <1>0, <2>1, <2>2, <2>4, EvolvesIsALedgerStep
    <3> QED BY <2>1, <3>1
            DEF Ledger!Next, Ledger!Detach, Ledger!Close, Ledger!Correct, Ledger!Open
  <2> QED BY <2>3, <2>4
<1>3. ASSUME (\E d \in Calls : Touches(d)) \/ (\E a \in Agents : AgentStep(a)) \/ ContactStep
      PROVE  UNCHANGED Entries
  BY <1>3 DEF Touches, StoreAgentLeg, StoreCustomerLeg, EndAgentLeg, AgentStep, FinishAgent,
     RegisterAgent, SetAgentAvailability, RetireAgent, ContactStep, CompleteContact,
     ResetCampaignLeads, Entries
<1> QED BY <1>1, <1>2, <1>3, CallStepKinds DEF Next

(* The rows implement the ledger for every number of calls, agents and     *)
(* leads.                                                                  *)
THEOREM RowsImplementLedger == Spec => ImplementsLedger
<1>1. Init => Ledger!Init
  BY BlankEntry DEF Init, Ledger!Init
<1>2. IInv /\ IInv' /\ [Next]_storeVars => [Ledger!Next]_Entries
  <2>1. UNCHANGED storeVars => UNCHANGED Entries
    BY DEF Entries, storeVars
  <2> QED BY <2>1, LedgerStep
<1> QED BY <1>1, <1>2, IInvHolds, PTL DEF Spec, ImplementsLedger, Ledger!Spec, Entries
==============================================================================
