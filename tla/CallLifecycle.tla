---------------------------- MODULE CallLifecycle ----------------------------
(***************************************************************************)
(* The processes that move a call: the originate with its watchdog, the    *)
(* agent's voicemail-drop and hang-up requests, the listener that persists *)
(* FreeSWITCH's events in order, and the reconciliation that repairs what  *)
(* the listener missed.  Each step is one statement or transaction of      *)
(* CallStore, one command to FreeSWITCH, or a read whose result is used    *)
(* later; everything else may happen in between.                           *)
(*                                                                         *)
(* FreeSWITCH is modelled from the commands and events the code uses.      *)
(* Faults (a command without an answer, a failed statement, a lost event   *)
(* connection, a crash of the API) are bounded together by MaxFaults; the  *)
(* backlog bound holds back people and playback, never the API.            *)
(***************************************************************************)
EXTENDS Naturals, Sequences

CONSTANTS Calls, Agents, Contacts, NoAgent, NoContact,
          Requests,   \* voicemail-drop requests the agents may send
          FaultKinds, \* what may go wrong
          MaxFaults,  \* how often, in one behaviour
          MaxBacklog  \* events the listener may lag behind what people do

ASSUME NoneAssumption == NoContact \notin Contacts /\ NoAgent \notin Agents
ASSUME BoundAssumption ==
  /\ FaultKinds \subseteq {"command", "statement", "connection", "crash"}
  /\ MaxFaults \in Nat /\ MaxBacklog \in Nat \ {0}

VARIABLES call, leg, agent, contact,  \* the rows of CallStore
          channel,   \* FreeSWITCH's channel of each leg
          heard,     \* history: the voicemail was played to its end
          transfers, \* history: how often the customer was sent to the voicemail
          wire,      \* events sent to the listener and not yet persisted
          connected, \* the listener is subscribed
          origin, job, watchdog, ender, old,
          drop, esl, rec, faults

EndCauses == {"normal", "canceled", "busy", "error"}
Store == INSTANCE CallStore
           WITH Causes <- EndCauses, DetectsVoicemail <- FALSE, ManualOutcomes <- {},
                ChannelEvents <- {<<"agent", "answer">>, <<"agent", "hangup">>,
                                  <<"customer", "answer">>}

rows      == <<call, leg, agent, contact>>
freeswitch == <<channel, heard, transfers, wire>>
vars == <<rows, freeswitch, connected, origin, job, watchdog, ender, old, drop, esl, rec, faults>>

Idle == [pc |-> "idle"]
Done == [pc |-> "done"]

Init ==
  /\ call = [c \in Calls |-> Store!Absent]
  /\ leg = [c \in Calls |-> Store!NewLegs]
  /\ agent = [a \in Agents |-> [registered |-> TRUE, paused |-> FALSE, status |-> "ready"]]
  /\ contact = [k \in Contacts |-> "new"]
  /\ channel = [c \in Calls |-> [agent |-> "none", customer |-> "none"]]
  /\ heard = [c \in Calls |-> FALSE]
  /\ transfers = [c \in Calls |-> 0]
  /\ wire = <<>> /\ connected = TRUE
  /\ origin = [c \in Calls |-> "idle"]
  /\ job = [c \in Calls |-> FALSE]
  /\ watchdog = [c \in Calls |-> "off"]
  /\ ender = [c \in Calls |-> Idle]
  /\ old = [c \in Calls |-> FALSE]
  /\ drop = [r \in Requests |-> Idle]
  /\ esl = Idle /\ rec = Idle
  /\ faults = 0

Fault(kind) == kind \in FaultKinds /\ faults < MaxFaults /\ faults' = faults + 1

------------------------------------------------------------------------------
(* FreeSWITCH: what its channels do and the events they send.              *)

Alive(c, t) == channel[c][t] \notin {"none", "gone"}

Events(c, kinds, cause) == [i \in DOMAIN kinds |-> [call |-> c, kind |-> kinds[i], cause |-> cause]]

(* Events sent while the listener is away are lost.                        *)
Send(events) == wire' = IF connected THEN wire \o events ELSE wire

AgentGoneEvents(c) ==
  IF channel[c].agent = "dialing" THEN Events(c, <<"agent_hangup", "job_failed">>, "normal")
                                  ELSE Events(c, <<"agent_hangup">>, "normal")

HangUp(c, t, cause) ==
  /\ channel' = [channel EXCEPT ![c][t] = "gone"]
  /\ Send(IF t = "agent" THEN AgentGoneEvents(c) ELSE Events(c, <<"customer_hangup">>, cause))
  /\ UNCHANGED <<heard, transfers>>

Moves(c, t, from, to, kind) ==
  /\ channel[c][t] = from
  /\ channel' = [channel EXCEPT ![c][t] = to]
  /\ Send(Events(c, <<kind>>, "normal"))
  /\ UNCHANGED transfers

(* The bridge dials the customer as soon as the agent answers.             *)
AgentAnswers(c) ==
  /\ channel[c].agent = "dialing"
  /\ channel' = [channel EXCEPT ![c] = [agent |-> "up", customer |-> "dialing"]]
  /\ Send(Events(c, <<"agent_answer">>, "normal"))
  /\ UNCHANGED <<heard, transfers>>

CustomerAnswers(c) ==
  channel[c].agent = "up" /\ Moves(c, "customer", "dialing", "up", "customer_answer") /\ UNCHANGED heard

(* The dialplan extension voicemail_drop.                                  *)
PlaybackStarts(c)    == Moves(c, "customer", "moved", "playing", "started") /\ UNCHANGED heard
PlaybackFails(c)     == Moves(c, "customer", "playing", "broken", "failed") /\ UNCHANGED heard
PlaybackCompletes(c) ==
  /\ Moves(c, "customer", "playing", "played", "completed")
  /\ heard' = [heard EXCEPT ![c] = TRUE]

AgentLeaves(c) == Alive(c, "agent") /\ HangUp(c, "agent", "normal")

(* A dialed customer who is given up by the agent's side was canceled.     *)
HangupCauses(c) ==
  CASE channel[c].customer = "dialing" /\ channel[c].agent = "up" -> {"busy", "error"}
    [] channel[c].customer = "dialing" /\ channel[c].agent # "up" -> {"canceled"}
    [] channel[c].customer = "broken"  -> {"normal", "error"}
    [] OTHER                           -> {"normal"}

CustomerLeaves(c) ==
  Alive(c, "customer") /\ \E cause \in HangupCauses(c) : HangUp(c, "customer", cause)

(* A step of people, networks or the playback, while the listener keeps up.*)
Outside(ChannelMoves) ==
  /\ Len(wire) < MaxBacklog
  /\ ChannelMoves
  /\ UNCHANGED <<rows, connected, origin, job, watchdog, ender, old, drop, esl, rec, faults>>

ChannelStep(c) ==
  Outside(\/ AgentAnswers(c) \/ CustomerAnswers(c) \/ AgentLeaves(c) \/ CustomerLeaves(c)
          \/ PlaybackStarts(c) \/ PlaybackFails(c) \/ PlaybackCompletes(c))

(* uuid_kill of a leg: a missing channel is an error the callers accept.   *)
Kill(c, t) ==
  IF Alive(c, t) THEN HangUp(c, t, "normal") ELSE UNCHANGED freeswitch

(* A command that times out may have been carried out.                     *)
KillUnanswered(c, t) == Fault("command") /\ (Kill(c, t) \/ UNCHANGED freeswitch)

------------------------------------------------------------------------------
(* syncFreeSwitchOriginate and its watchdog.                               *)

StartCall(c, a, k) ==
  /\ origin[c] = "idle"
  /\ Store!CreateDialerCall(c, a, k)
  /\ origin' = [origin EXCEPT ![c] = "ask"]
  /\ UNCHANGED <<freeswitch, connected, job, watchdog, ender, old, drop, esl, rec, faults>>

Dial(c) == /\ channel' = [channel EXCEPT ![c].agent = "dialing"]
           /\ UNCHANGED <<heard, transfers, wire>>

Originate(c) ==
  /\ origin[c] = "ask"
  /\ \/ Dial(c) /\ origin' = [origin EXCEPT ![c] = "agent_leg"] /\ UNCHANGED faults
     \/ /\ Fault("command") /\ (Dial(c) \/ UNCHANGED freeswitch)
        /\ origin' = [origin EXCEPT ![c] = "failed"]
  /\ UNCHANGED <<rows, job, watchdog>>

StoreOriginate(c, from, to) ==
  /\ origin[c] = from
  /\ origin' = [origin EXCEPT ![c] = to]
  /\ UNCHANGED <<freeswitch, faults>>

StatementFails(c) ==
  /\ origin[c] \in {"agent_leg", "customer_leg", "job", "ringing"}
  /\ Fault("statement")
  /\ origin' = [origin EXCEPT ![c] = "failed"]
  /\ UNCHANGED <<rows, freeswitch, job, watchdog>>

(* The last write of the originate spares a finished call; the trigger     *)
(* rejects it in a voicemail state, and the handler then fails the call.   *)
MarkRinging(c) ==
  IF call[c].state \in Store!Terminal THEN UNCHANGED rows ELSE Store!MarkAgentRinging(c)

OriginStep(c) ==
  /\ \/ Originate(c)
     \/ StoreOriginate(c, "agent_leg", "customer_leg") /\ Store!StoreAgentLeg(c)
          /\ UNCHANGED <<job, watchdog>>
     \/ StoreOriginate(c, "customer_leg", "job") /\ Store!StoreCustomerLeg(c)
          /\ UNCHANGED <<job, watchdog>>
     \/ StoreOriginate(c, "job", "ringing") /\ job' = [job EXCEPT ![c] = TRUE]
          /\ UNCHANGED <<rows, watchdog>>
     \/ StoreOriginate(c, "ringing", "done") /\ MarkRinging(c)
          /\ watchdog' = [watchdog EXCEPT ![c] = "agent"] /\ UNCHANGED job
     \/ StoreOriginate(c, "ringing", "failed") /\ call[c].state \in Store!VoicemailActive
          /\ UNCHANGED <<rows, job, watchdog>>
     \/ StatementFails(c)
     \/ StoreOriginate(c, "failed", "done") /\ Store!FinalizeCall(c, "failure")
          /\ UNCHANGED <<job, watchdog>>
  /\ UNCHANGED <<connected, ender, old, drop, esl, rec>>

InVoicemail(c) == Store!Active(call[c]) /\ call[c].state \in Store!VoicemailActive

(* closeMissingOriginateLeg.  Its timers outlast the ringing of the leg    *)
(* they look at, the row is read before FreeSWITCH is asked, and a failed  *)
(* attempt is scheduled again.                                             *)
WatchdogReads(c, t) ==
  /\ watchdog[c] = t /\ channel[c][t] # "dialing"
  /\ watchdog' = [watchdog EXCEPT ![c] =
       CASE ~Store!Active(call[c])            -> "off"
         [] t = "agent" /\ InVoicemail(c)     -> "customer"
         [] t = "agent" /\ ~InVoicemail(c)    -> "ask_agent"
         [] OTHER                             -> "ask_customer"]
  /\ UNCHANGED <<rows, faults>>

WatchdogAsks(c, t, ask, found) ==
  /\ watchdog[c] = ask
  /\ \/ Alive(c, t) /\ watchdog' = [watchdog EXCEPT ![c] = found] /\ UNCHANGED <<rows, faults>>
     \/ /\ ~Alive(c, t) /\ watchdog' = [watchdog EXCEPT ![c] = "off"]
        /\ Store!FinalizeCall(c, "failure") /\ UNCHANGED faults
     \/ Fault("command") /\ watchdog' = [watchdog EXCEPT ![c] = t] /\ UNCHANGED rows

WatchdogStep(c) ==
  /\ \/ \E t \in Store!LegTypes : WatchdogReads(c, t)
     \/ WatchdogAsks(c, "agent", "ask_agent", "customer")
     \/ WatchdogAsks(c, "customer", "ask_customer", "off")
  /\ UNCHANGED <<freeswitch, connected, origin, job, ender, old, drop, esl, rec>>

------------------------------------------------------------------------------
(* The agent's requests.                                                   *)

(* endDialerCall commits, then kills the legs it read in the transaction.  *)
(* When the event of the first kill cannot be stored the second is skipped.*)
EndCall(c) ==
  /\ ender[c] = Idle
  /\ Store!EndDialerCall(c)
  /\ ender' = [ender EXCEPT ![c] = [pc |-> "agent", agent |-> leg[c].agent.uuid,
                                    customer |-> leg[c].customer.uuid]]
  /\ UNCHANGED <<freeswitch, connected, origin, job, watchdog, old, drop, esl, rec, faults>>

EnderKills(c, t, next) ==
  /\ ender[c].pc = t
  /\ \/ /\ IF ender[c][t] THEN Kill(c, t) ELSE UNCHANGED freeswitch
        /\ ender' = [ender EXCEPT ![c] = next] /\ UNCHANGED faults
     \/ /\ ender[c][t] /\ KillUnanswered(c, t)
        /\ \E after \in {next, Idle} : ender' = [ender EXCEPT ![c] = after]

EnderStep(c) ==
  /\ \/ EnderKills(c, "agent", [ender[c] EXCEPT !.pc = "customer"])
     \/ EnderKills(c, "customer", Idle)
  /\ UNCHANGED <<rows, connected, origin, job, watchdog, old, drop, esl, rec>>

(* dropVoicemailForCall: the claim, the transfer of the customer, the      *)
(* release of the agent.  agentUuid is what the claim read.                *)
RequestDrop(r, c) ==
  /\ drop[r] = Idle
  /\ Store!ClaimVoicemailDrop(c)
  /\ drop' = [drop EXCEPT ![r] = [pc |-> "transfer", call |-> c, agentUuid |-> leg[c].agent.uuid]]
  /\ UNCHANGED <<freeswitch, connected, origin, job, watchdog, ender, old, esl, rec, faults>>

Transfer(c) ==
  /\ Alive(c, "customer")
  /\ channel' = [channel EXCEPT ![c].customer = "moved"]
  /\ transfers' = [transfers EXCEPT ![c] = @ + 1]
  /\ UNCHANGED <<heard, wire>>

DropAt(r, pc) == drop[r].pc = pc
DropTo(r, pc) == drop' = [drop EXCEPT ![r].pc = pc] /\ UNCHANGED faults
DropEnds(r)   == drop' = [drop EXCEPT ![r] = Done]
DropRuns(r)   == drop[r] \notin {Idle, Done}

(* Faulty: every failed transfer undoes the claim.                         *)
DropTransfersOrReverts(r, c) ==
  /\ DropAt(r, "transfer")
  /\ \/ Transfer(c) /\ DropTo(r, "kill")
     \/ ~Alive(c, "customer") /\ UNCHANGED freeswitch /\ DropTo(r, "revert")
     \/ Fault("command") /\ (Transfer(c) \/ UNCHANGED freeswitch) /\ drop' = [drop EXCEPT ![r].pc = "revert"]

(* Only a rejection undoes the claim: a command without an answer may have *)
(* moved the customer.                                                     *)
DropTransfers(r, c) ==
  /\ DropAt(r, "transfer")
  /\ \/ Transfer(c) /\ DropTo(r, "kill")
     \/ ~Alive(c, "customer") /\ UNCHANGED freeswitch /\ DropTo(r, "revert")
     \/ Fault("command") /\ (Transfer(c) \/ UNCHANGED freeswitch) /\ DropEnds(r)

DropReverts(r, c) ==
  /\ DropAt(r, "revert") /\ DropEnds(r) /\ UNCHANGED faults
  /\ IF Store!Active(call[c]) /\ call[c].state = "voicemail_drop_requested"
     THEN Store!RevertVoicemailDrop(c) ELSE UNCHANGED rows

(* Faulty: a kill without an answer counts as a release.                   *)
DropKillsAnyhow(r, c) ==
  /\ DropAt(r, "kill")
  /\ \/ drop[r].agentUuid /\ Kill(c, "agent") /\ DropTo(r, "mark")
     \/ drop[r].agentUuid /\ KillUnanswered(c, "agent") /\ drop' = [drop EXCEPT ![r].pc = "mark"]
     \/ ~drop[r].agentUuid /\ UNCHANGED <<freeswitch, faults>> /\ DropEnds(r)

(* A missing channel confirms the release, no answer does not.             *)
DropKills(r, c) ==
  /\ DropAt(r, "kill")
  /\ \/ drop[r].agentUuid /\ Kill(c, "agent") /\ DropTo(r, "mark")
     \/ drop[r].agentUuid /\ KillUnanswered(c, "agent") /\ DropEnds(r)
     \/ ~drop[r].agentUuid /\ UNCHANGED <<freeswitch, faults>> /\ DropEnds(r)

DropMarks(r, c) ==
  /\ DropAt(r, "mark") /\ DropTo(r, "leg")
  /\ IF InVoicemail(c) THEN Store!MarkAgentReleased(c) ELSE UNCHANGED rows

DropStatement(r, c) ==
  \/ DropReverts(r, c)
  \/ DropMarks(r, c)
  \/ DropAt(r, "leg") /\ Store!EndAgentLeg(c) /\ DropTo(r, "agent")
  \/ DropAt(r, "agent") /\ Store!FinishAgent(call[c].agent) /\ DropEnds(r) /\ UNCHANGED faults
  \/ drop[r].pc \in {"revert", "mark", "leg", "agent"} /\ Fault("statement") /\ DropEnds(r) /\ UNCHANGED rows

DropStep(r) ==
  /\ DropRuns(r)
  /\ LET c == drop[r].call
     IN \/ DropTransfers(r, c) /\ UNCHANGED rows
        \/ DropKills(r, c) /\ UNCHANGED rows
        \/ DropStatement(r, c) /\ UNCHANGED freeswitch
  /\ UNCHANGED <<connected, origin, job, watchdog, ender, old, esl, rec>>

------------------------------------------------------------------------------
(* The listener persists one event at a time, in order; a transient        *)
(* failure leaves the event at the head of the queue.                      *)

Event   == Head(wire)
Consume == wire' = Tail(wire) /\ esl' = Idle /\ UNCHANGED <<channel, heard, transfers, faults>>
EslTo(e) == esl' = e /\ UNCHANGED <<freeswitch, faults>>

PersistChannel(kind, type, event) ==
  /\ esl = Idle /\ Event.kind = kind
  /\ Store!PersistChannelEvent(Event.call, type, event)
  /\ Consume

(* persistBackgroundJobEvent: a job nobody has stored yet is not found.    *)
PersistJobFailure ==
  /\ esl = Idle /\ Event.kind = "job_failed"
  /\ IF job[Event.call] THEN Store!FinalizeCall(Event.call, "failure") ELSE UNCHANGED rows
  /\ Consume

(* What the end of the customer leg does to the call as it is read.        *)
FateOfHangup(c, cause) ==
  CASE InVoicemail(c) /\ cause \in {"normal", "canceled"}    -> "complete"
    [] InVoicemail(c) /\ cause \notin {"normal", "canceled"} -> "incomplete"
    [] OTHER                                                -> "finalize"

(* The handlers that read the call before their transaction.               *)
ListenerReads ==
  LET c == Event.call
      read(pc) == [pc |-> pc, released |-> call[c].state = "agent_released",
                   agentUuid |-> leg[c].agent.uuid]
  IN /\ esl = Idle
     /\ UNCHANGED rows
     /\ \/ Event.kind = "customer_hangup" /\ EslTo(read(FateOfHangup(c, Event.cause)))
        \/ Event.kind = "failed"  /\ InVoicemail(c) /\ EslTo(read("incomplete"))
        \/ Event.kind = "started" /\ InVoicemail(c) /\ EslTo(read("mark"))
        \/ Event.kind \in {"started", "failed"} /\ ~InVoicemail(c) /\ Consume

CompletePlayback(c) ==
  IF InVoicemail(c) THEN Store!FinalizeCompletedPlayback(c) ELSE UNCHANGED rows

FailPlayback(c, released) ==
  IF InVoicemail(c) THEN Store!FinalizeIncompletePlayback(c, released) ELSE UNCHANGED rows

ReleaseAgent(c) == IF InVoicemail(c) THEN Store!ReleaseAgent(c) ELSE UNCHANGED rows

MarkStarted(c) ==
  IF InVoicemail(c) /\ call[c].state # "agent_released" THEN Store!MarkPlaybackStarted(c)
  ELSE UNCHANGED rows

(* releaseAgentAfterVoicemailPlaybackStarts, also used by reconciliation:  *)
(* without a confirmed kill the event is done and the agent not released.  *)
ListenerKillsAgent(c) ==
  \/ esl.agentUuid /\ Kill(c, "agent") /\ esl' = [esl EXCEPT !.pc = "release"] /\ UNCHANGED faults
  \/ /\ esl.agentUuid /\ Fault("command") /\ esl' = [esl EXCEPT !.pc = "consume"]
     /\ (Kill(c, "agent") \/ UNCHANGED freeswitch)
  \/ ~esl.agentUuid /\ Consume

ListenerStep ==
  /\ wire # <<>>
  /\ LET c == Event.call
     IN \/ PersistChannel("agent_answer", "agent", "answer")
        \/ PersistChannel("agent_hangup", "agent", "hangup")
        \/ PersistChannel("customer_answer", "customer", "answer")
        \/ PersistJobFailure
        \/ esl = Idle /\ Event.kind = "completed" /\ CompletePlayback(c) /\ Consume
        \/ ListenerReads
        \/ esl.pc = "complete"   /\ CompletePlayback(c) /\ Consume
        \/ esl.pc = "incomplete" /\ FailPlayback(c, esl.released) /\ Consume
        \/ esl.pc = "finalize"   /\ Store!FinalizeCall(c, Event.cause) /\ Consume
        \/ esl.pc = "mark" /\ MarkStarted(c) /\ EslTo([esl EXCEPT !.pc = "kill"])
        \/ esl.pc = "kill" /\ ListenerKillsAgent(c) /\ UNCHANGED rows
        \/ esl.pc = "release" /\ ReleaseAgent(c) /\ Consume
        \/ esl.pc = "consume" /\ UNCHANGED rows /\ Consume
        \/ esl # Idle /\ Fault("statement") /\ esl' = Idle /\ UNCHANGED <<rows, freeswitch>>
  /\ UNCHANGED <<connected, origin, job, watchdog, ender, old, drop, rec>>

------------------------------------------------------------------------------
(* reconcileActiveCalls, once the queue is idle, over a snapshot of the    *)
(* open calls; then repairFinalizedCallConsistency.                        *)

(* A call is old a minute after it was created: the originate is done and  *)
(* its agent's phone no longer rings.                                      *)
Age(c) ==
  /\ ~old[c] /\ Store!Exists(call[c]) /\ origin[c] = "done" /\ channel[c].agent # "dialing"
  /\ old' = [old EXCEPT ![c] = TRUE]
  /\ UNCHANGED <<rows, freeswitch, connected, origin, job, watchdog, ender, drop, esl, rec, faults>>

Snapshot(c) == [call |-> c, state |-> call[c].state,
                agent |-> leg[c].agent.uuid, customer |-> leg[c].customer.uuid]

(* The pass turns to the next call, or goes on with the one it has read.   *)
TurnTo(pc, s) == rec' = [pc |-> pc, cur |-> IF pc = "probe" THEN {} ELSE {s},
                         todo |-> rec.todo \ {s}]

(* Faulty: only voicemail calls are reconciled, however old the others are.*)
DueInVoicemail == {c \in Calls : InVoicemail(c)}

(* The open calls a pass may act on: it leaves young ones to the originate *)
(* watchdog unless they are in the voicemail.                              *)
Due == {c \in Calls : InVoicemail(c) \/ (Store!Active(call[c]) /\ old[c])}
QueueIdle == wire = <<>> /\ esl = Idle

ReconcileStarts ==
  /\ rec = Idle /\ QueueIdle /\ Due # {}
  /\ rec' = [pc |-> "probe", cur |-> {}, todo |-> {Snapshot(c) : c \in Due}]
  /\ UNCHANGED <<rows, freeswitch, faults>>

(* A request older than VOICEMAIL_DROP_START_TIMEOUT_SECONDS (120): the    *)
(* handler that made it has ended.                                         *)
DropTimedOut(s) ==
  s.state = "voicemail_drop_requested" /\ \A r \in Requests : DropRuns(r) => drop[r].call # s.call

(* What reconciliation does with a call, after asking for its customer.    *)
Decision(s, exists) ==
  CASE s.state \in Store!VoicemailActive /\ ~exists               -> {"incomplete"}
    [] s.state = "voicemail_drop_requested" /\ exists             ->
         {"probe"} \cup IF DropTimedOut(s) THEN {"abort"} ELSE {}
    [] s.state = "voicemail_playback_started" /\ exists           -> {"kill"}
    [] s.state \notin Store!VoicemailActive /\ ~exists           -> {"orphan"}
    [] OTHER                                                      -> {"probe"}

ReconcileProbes(s) ==
  /\ rec.pc = "probe" /\ s \in rec.todo
  /\ \/ \E pc \in Decision(s, s.customer /\ Alive(s.call, "customer")) :
          TurnTo(pc, s) /\ UNCHANGED faults
     \/ Fault("command") /\ TurnTo("probe", s)
  /\ UNCHANGED <<rows, freeswitch>>

(* A step on the call being reconciled that kills a leg: what follows an   *)
(* answer, and what follows when there is none.                            *)
ReconcileKills(pc, s, t, answered, unanswered) ==
  /\ rec.pc = pc /\ s \in rec.cur
  /\ \/ s[t] /\ Kill(s.call, t) /\ TurnTo(answered, s) /\ UNCHANGED faults
     \/ s[t] /\ KillUnanswered(s.call, t) /\ TurnTo(unanswered, s)
  /\ UNCHANGED rows

ReconcileSkipsKill(pc, s, t, next) ==
  /\ rec.pc = pc /\ s \in rec.cur /\ ~s[t]
  /\ TurnTo(next, s)
  /\ UNCHANGED <<rows, freeswitch, faults>>

(* abortTimedOutVoicemailDrop gives up when the customer is gone by now.   *)
ReconcileAborts(s) ==
  \/ Alive(s.call, "customer") /\ ReconcileKills("abort", s, "customer", "abort_agent", "probe")
  \/ /\ rec.pc = "abort" /\ s \in rec.cur /\ ~Alive(s.call, "customer")
     /\ TurnTo("probe", s) /\ UNCHANGED <<rows, freeswitch, faults>>
  \/ ReconcileKills("abort_agent", s, "agent", "timed_out", "timed_out")
  \/ ReconcileSkipsKill("abort_agent", s, "agent", "timed_out")

(* The transaction that ends a step, or its failure: the error is counted  *)
(* and the pass goes on.                                                   *)
ReconcileStores(pc, s, Statement) ==
  /\ rec.pc = pc /\ s \in rec.cur
  /\ TurnTo("probe", s)
  /\ (Statement /\ UNCHANGED faults) \/ (Fault("statement") /\ UNCHANGED rows)
  /\ UNCHANGED freeswitch

ReconcileCall(s) ==
  \/ ReconcileProbes(s)
  \/ ReconcileAborts(s)
  \/ ReconcileStores("timed_out", s, FailPlayback(s.call, FALSE))
  \/ ReconcileStores("incomplete", s, FailPlayback(s.call, s.state = "agent_released"))
  \/ ReconcileKills("kill", s, "agent", "release", "probe")
  \/ ReconcileSkipsKill("kill", s, "agent", "probe")
  \/ ReconcileStores("release", s, ReleaseAgent(s.call))
  \/ ReconcileKills("orphan", s, "agent", "missing", "missing")
  \/ ReconcileSkipsKill("orphan", s, "agent", "missing")
  \/ ReconcileStores("missing", s, Store!FinalizeCall(s.call, "missing"))

LegsEnded(c) == \A t \in Store!LegTypes : leg[c][t].ended

LeadIsStuck(c) ==
  /\ call[c].contact \in Contacts /\ contact[call[c].contact] = "calling"
  /\ ~\E d \in Calls \ {c} : call[d].contact = call[c].contact /\ Store!Active(call[d])

AgentIsStuck(c) ==
  agent[call[c].agent].status = "in_call" /\ ~Store!HasInteractive(call, call[c].agent)

NeedsRepair(c) == call[c].ended /\ (LeadIsStuck(c) \/ ~LegsEnded(c) \/ AgentIsStuck(c))

Candidates == {c \in Calls : NeedsRepair(c)}

(* Repair follows the last of them; a pass over no such call is only this, *)
(* and one that finds nothing to repair leaves everything as it is.        *)
RepairStarts ==
  /\ \/ rec.pc = "probe" /\ rec.todo = {}
     \/ rec = Idle /\ QueueIdle /\ Due = {}
  /\ rec' = IF Candidates = {} THEN Idle
            ELSE [pc |-> "repair", cur |-> {}, todo |-> {Snapshot(c) : c \in Candidates}]
  /\ UNCHANGED <<rows, freeswitch, faults>>

RepairCall(s) ==
  /\ rec.pc = "repair" /\ s \in rec.todo
  /\ Store!FinalizeCall(s.call, "repair")
  /\ rec' = IF rec.todo = {s} THEN Idle ELSE [rec EXCEPT !.todo = @ \ {s}]
  /\ UNCHANGED <<freeswitch, faults>>

(* The first failure ends the pass.                                        *)
RepairFails ==
  /\ rec.pc = "repair" /\ Fault("statement") /\ rec' = Idle
  /\ UNCHANGED <<rows, freeswitch>>

ReconcileStep ==
  /\ \/ ReconcileStarts \/ RepairStarts \/ RepairFails
     \/ rec.pc \notin {"idle", "repair"} /\ \E s \in rec.todo \cup rec.cur : ReconcileCall(s)
     \/ rec.pc = "repair" /\ \E s \in rec.todo : RepairCall(s)
  /\ UNCHANGED <<connected, origin, job, watchdog, ender, old, drop, esl>>

------------------------------------------------------------------------------
(* The event connection and the process.                                   *)

Disconnect ==
  /\ connected /\ Fault("connection")
  /\ connected' = FALSE
  /\ UNCHANGED <<rows, freeswitch, origin, job, watchdog, ender, old, drop, esl, rec>>

Reconnect ==
  /\ ~connected
  /\ connected' = TRUE
  /\ UNCHANGED <<rows, freeswitch, origin, job, watchdog, ender, old, drop, esl, rec, faults>>

(* Faulty: the handler at work survives the queue it took its event from.  *)
CrashSparesHandler ==
  /\ Fault("crash")
  /\ connected' = FALSE /\ wire' = <<>>
  /\ origin' = [c \in Calls |-> IF origin[c] = "idle" THEN "idle" ELSE "done"]
  /\ watchdog' = [c \in Calls |-> "off"]
  /\ ender' = [c \in Calls |-> Idle]
  /\ drop' = [r \in Requests |-> IF drop[r] = Idle THEN Idle ELSE Done]
  /\ rec' = Idle
  /\ UNCHANGED <<rows, channel, heard, transfers, job, old, esl>>

(* Everything but the database and FreeSWITCH is lost.                     *)
Crash ==
  /\ Fault("crash")
  /\ connected' = FALSE /\ wire' = <<>>
  /\ origin' = [c \in Calls |-> IF origin[c] = "idle" THEN "idle" ELSE "done"]
  /\ watchdog' = [c \in Calls |-> "off"]
  /\ ender' = [c \in Calls |-> Idle]
  /\ drop' = [r \in Requests |-> IF drop[r] = Idle THEN Idle ELSE Done]
  /\ esl' = Idle /\ rec' = Idle
  /\ UNCHANGED <<rows, channel, heard, transfers, job, old>>

------------------------------------------------------------------------------
Handlers(c) == OriginStep(c) \/ WatchdogStep(c) \/ EnderStep(c) \/ Age(c)

Next ==
  \/ \E c \in Calls : ChannelStep(c) \/ Handlers(c) \/ EndCall(c)
  \/ \E c \in Calls, a \in Agents, k \in Contacts : StartCall(c, a, k)
  \/ \E r \in Requests : DropStep(r) \/ \E c \in Calls : RequestDrop(r, c)
  \/ ListenerStep \/ ReconcileStep \/ Reconnect \/ Disconnect \/ Crash

Spec == Init /\ [][Next]_vars

(* People hang up in the end and FreeSWITCH's ringing times out.  The API  *)
(* does not stop while it has something to do, and reconciliation is not   *)
(* kept from running.  Nobody has to answer, to end a call in the          *)
(* application or to ask for a voicemail.                                  *)
PeopleHangUp == \E c \in Calls : Outside(AgentLeaves(c) \/ CustomerLeaves(c))

ApiWorks ==
  \/ \E c \in Calls : Handlers(c)
  \/ \E r \in Requests : DropStep(r)
  \/ ListenerStep \/ Reconnect

Fairness == WF_vars(PeopleHangUp) /\ WF_vars(ApiWorks) /\ WF_vars(ReconcileStep)

FairSpec == Spec /\ Fairness

------------------------------------------------------------------------------
(* Properties.                                                             *)

(* The rows are well typed and each process is at one of its steps.        *)
TypeOK ==
  /\ Store!TypeOK
  /\ channel \in [Calls -> [agent : {"none", "dialing", "up", "gone"},
                            customer : {"none", "dialing", "up", "moved", "playing",
                                        "broken", "played", "gone"}]]
  /\ heard \in [Calls -> BOOLEAN] /\ transfers \in [Calls -> Nat]
  /\ origin \in [Calls -> {"idle", "ask", "agent_leg", "customer_leg", "job", "ringing",
                           "failed", "done"}]
  /\ watchdog \in [Calls -> {"off", "agent", "ask_agent", "customer", "ask_customer"}]
  /\ faults \in 0 .. MaxFaults
  /\ wire # <<>> \/ esl = Idle

(* A call marked agent_released has no agent channel: whichever of the     *)
(* drop request, the playback event and reconciliation releases the agent, *)
(* it does so only on a kill FreeSWITCH confirmed, so an agent who is      *)
(* offered the next call is never still connected to the last one.         *)
ReleasedAgentIsOffTheLine ==
  \A c \in Calls : call[c].released => ~Alive(c, "agent")

(* The customer is sent to the voicemail at most once, although requests   *)
(* are repeated, run concurrently and fail without telling whether the     *)
(* transfer was carried out.                                               *)
NoDoubleTransfer == \A c \in Calls : transfers[c] <= 1

(* The originate watchdog never fails a call in a voicemail state, where   *)
(* the missing agent leg is expected.                                      *)
WatchdogSparesVoicemail ==
  [][\A c \in Calls :
       watchdog[c] = "ask_agent" /\ watchdog'[c] = "off" /\ call[c].released => ~call'[c].ended]_vars

(* voicemail_dropped means the recording was played to its end.            *)
DroppedMeansHeard ==
  \A c \in Calls : call[c].outcome = "voicemail_dropped" => heard[c]

(* Every call settles: whatever faults happen, lost events and a crash     *)
(* included, its row is finalized in the end, its legs are ended, its lead *)
(* is given back and its agent is not left in_call, for good.              *)
Settled(c) ==
  Store!Exists(call[c]) => call[c].ended /\ LegsEnded(c) /\ ~LeadIsStuck(c) /\ ~AgentIsStuck(c)

Settles == <>[](\A c \in Calls : Settled(c))
==============================================================================
