-------------------------- MODULE EarlyMediaFallback --------------------------
(***************************************************************************)
(* The ringback tone the API plays to an agent whose customer's network    *)
(* sends no early media.  The controller keeps one state and one chain of  *)
(* promises per call: the inspection of the customer's RTP and the stop of *)
(* the tone are operations of that chain, each with several commands to    *)
(* FreeSWITCH, and channel events and the poll timer come in between.      *)
(* Calls do not touch each other's state, so one call is modelled.         *)
(***************************************************************************)
EXTENDS Naturals, Sequences

CONSTANT MaxFaults \* how many commands may get no answer

ASSUME FaultAssumption == MaxFaults \in Nat

VARIABLES
  channel, \* FreeSWITCH: the two legs
  rtp,     \* the customer's network sends media
  tone,    \* the tone plays on the agent's leg
  hook,    \* api_on_answer is set on the customer's leg
  wire,    \* events on their way to the controller
  known,   \* the controller has a state for this call
  state,   \* that state
  chain,   \* its operations still to run
  step,    \* the next command of the one that runs
  unanswered, \* the commands that got no answer
  listening,  \* the event listener has not been stopped
  masked   \* history: the controller has seen the customer's media

freeswitch == <<channel, rtp, tone, hook>>
controller == <<known, state, chain, step>>
mediaVars == <<freeswitch, wire, controller, unanswered, listening, masked>>

NewState == [agentLeg |-> FALSE, customerLeg |-> FALSE, hooked |-> FALSE, detected |-> FALSE,
          active |-> FALSE, terminated |-> FALSE, timer |-> FALSE]

MediaInit ==
  /\ channel = [agent |-> "none", customer |-> "none"]
  /\ rtp = FALSE /\ tone = FALSE /\ hook = FALSE
  /\ wire = <<>>
  /\ known = FALSE /\ state = NewState /\ chain = <<>> /\ step = "none"
  /\ unanswered = <<>> /\ listening = TRUE /\ masked = FALSE

------------------------------------------------------------------------------
(* FreeSWITCH.                                                             *)

Emit(leg, name) == wire' = Append(wire, [leg |-> leg, name |-> name])

AgentLegCreated ==
  /\ channel.agent = "none"
  /\ channel' = [channel EXCEPT !.agent = "up"]
  /\ Emit("agent", "create") /\ UNCHANGED <<rtp, tone, hook>>

CustomerLegCreated ==
  /\ channel.agent = "up" /\ channel.customer = "none"
  /\ channel' = [channel EXCEPT !.customer = "ringing"]
  /\ Emit("customer", "create") /\ UNCHANGED <<rtp, tone, hook>>

(* Early media is announced, once, before any RTP need follow.             *)
MediaAnnounced ==
  /\ channel.customer = "ringing"
  /\ channel' = [channel EXCEPT !.customer = "early"]
  /\ Emit("customer", "media") /\ UNCHANGED <<rtp, tone, hook>>

MediaFlows ==
  /\ channel.customer = "early" /\ ~rtp
  /\ rtp' = TRUE /\ UNCHANGED <<channel, tone, hook, wire>>

(* The hook breaks whatever plays on the agent's leg.                      *)
CustomerAnswers ==
  /\ channel.customer \in {"ringing", "early"} /\ channel.agent = "up"
  /\ channel' = [channel EXCEPT !.customer = "up"]
  /\ tone' = (tone /\ ~hook)
  /\ Emit("customer", "answer") /\ UNCHANGED <<rtp, hook>>

CustomerGone ==
  /\ channel.customer \in {"ringing", "early", "up"}
  /\ channel' = [channel EXCEPT !.customer = "gone"]
  /\ Emit("customer", "hangup") /\ UNCHANGED <<rtp, tone, hook>>

AgentGone ==
  /\ channel.agent = "up"
  /\ channel' = [channel EXCEPT !.agent = "gone"] /\ tone' = FALSE
  /\ Emit("agent", "hangup") /\ UNCHANGED <<rtp, hook>>

ChannelStep ==
  /\ \/ AgentLegCreated \/ CustomerLegCreated \/ MediaAnnounced \/ MediaFlows
     \/ CustomerAnswers \/ CustomerGone \/ AgentGone
  /\ UNCHANGED <<controller, unanswered, listening, masked>>

------------------------------------------------------------------------------
(* The controller.                                                         *)

(* One timer at a time, and none after media was found or the call ended.  *)
ScheduleInspection(s) ==
  IF s.timer \/ s.detected \/ s.terminated THEN s ELSE [s EXCEPT !.timer = TRUE]

(* Faulty: an end is left to the operation under way.                      *)
TerminateCoalesced(s) ==
  /\ state' = [s EXCEPT !.terminated = TRUE, !.timer = FALSE]
  /\ chain' = IF chain = <<>> THEN <<"stop">> ELSE chain

Terminate(s) ==
  /\ state' = [s EXCEPT !.terminated = TRUE, !.timer = FALSE]
  /\ chain' = Append(chain, "stop")

(* handle(frame): a call nobody knows starts with a leg or its media, the  *)
(* inspection is scheduled by the customer's leg, and any end terminates.  *)
Handle ==
  LET event  == Head(wire)
      starts == event.name \in {"create", "media"}
      old    == IF known THEN state ELSE NewState
      seen   == IF event.leg = "agent" THEN [old EXCEPT !.agentLeg = TRUE]
                                       ELSE [old EXCEPT !.customerLeg = TRUE]
      next   == IF event.leg = "customer" /\ starts THEN ScheduleInspection(seen) ELSE seen
  IN /\ listening /\ wire # <<>>
     /\ wire' = Tail(wire)
     /\ known' = (known \/ starts)
     /\ CASE ~known /\ ~starts -> UNCHANGED <<state, chain>>
          [] starts            -> state' = next /\ UNCHANGED chain
          [] OTHER             -> Terminate(next)
     /\ UNCHANGED <<freeswitch, step, unanswered, listening, masked>>

(* stop(): the listener ends, and every call it knows is terminated.       *)
StopListening ==
  /\ listening /\ listening' = FALSE
  /\ IF known THEN Terminate(state) ELSE UNCHANGED <<state, chain>>
  /\ UNCHANGED <<freeswitch, wire, known, step, unanswered, masked>>

(* The timer fires: inspectMedia queues behind what the chain holds.       *)
Poll ==
  /\ state.timer
  /\ state' = [state EXCEPT !.timer = FALSE]
  /\ chain' = Append(chain, "inspect")
  /\ UNCHANGED <<freeswitch, wire, known, step, unanswered, listening, masked>>

(* The operation that runs is over.  The one that ends a terminated call   *)
(* drops its state.                                                        *)
OperationEnds(s) ==
  /\ step' = "none" /\ chain' = Tail(chain)
  /\ known' = (known /\ Head(chain) = "inspect")
  /\ state' = IF known' THEN s ELSE NewState

Continue(s, command) ==
  /\ state' = s /\ step' = command /\ UNCHANGED <<known, chain>>

(* A command nobody answers, or one that fails: the inspection is tried    *)
(* again, a stop is not.                                                   *)
Unanswered == Len(unanswered) < MaxFaults /\ unanswered' = Append(unanswered, step)
Answered   == UNCHANGED unanswered

OperationStarts ==
  /\ chain # <<>> /\ step = "none"
  /\ LET stops == Head(chain) = "stop"
         plays == state.active /\ state.agentLeg
         over  == state.terminated \/ state.detected
         legs  == state.agentLeg /\ state.customerLeg
     IN CASE stops /\ plays -> Continue([state EXCEPT !.active = FALSE], "break")
          [] stops /\ ~plays -> OperationEnds(state)
          [] ~stops /\ over -> OperationEnds(state)
          [] ~stops /\ ~over /\ ~legs -> OperationEnds(ScheduleInspection(state))
          [] OTHER -> Continue(state, "count")
  /\ UNCHANGED <<freeswitch, wire, unanswered, listening, masked>>

(* Faulty: the tone is left on when media is found.                        *)
MediaSeenOnly ==
  OperationEnds([state EXCEPT !.detected = TRUE])

(* Media wins for good: the tone is stopped and nothing is polled again.   *)
MediaSeen ==
  IF state.active THEN Continue([state EXCEPT !.detected = TRUE, !.active = FALSE], "break")
  ELSE OperationEnds([state EXCEPT !.detected = TRUE])

NoMediaSeen ==
  CASE state.terminated \/ state.active -> OperationEnds(ScheduleInspection(state))
    [] ~state.terminated /\ ~state.active /\ ~state.hooked -> Continue(state, "hook")
    [] OTHER -> Continue(state, "broadcast")

(* uuid_set_media_stats and uuid_getvar, which reads a counter that only   *)
(* grows.                                                                  *)
InspectMedia ==
  /\ step = "count"
  /\ \/ /\ channel.customer # "gone" /\ Answered
        /\ IF rtp THEN MediaSeen ELSE NoMediaSeen
        /\ masked' = (masked \/ rtp)
     \/ /\ (channel.customer = "gone" /\ Answered) \/ Unanswered
        /\ OperationEnds(ScheduleInspection(state)) /\ UNCHANGED masked
  /\ UNCHANGED <<freeswitch, wire, listening>>

(* The hook serves an answer that comes before its event is handled.       *)
InstallHook ==
  LET hooked == [state EXCEPT !.hooked = TRUE]
  IN /\ step = "hook"
     /\ \/ /\ channel.customer # "gone" /\ Answered /\ hook' = TRUE
           /\ IF state.terminated THEN OperationEnds(hooked) ELSE Continue(hooked, "broadcast")
        \/ /\ \/ channel.customer = "gone" /\ Answered /\ UNCHANGED hook
              \/ Unanswered /\ hook' \in {hook, TRUE}
           /\ OperationEnds(ScheduleInspection(state))
     /\ UNCHANGED <<channel, rtp, tone, wire, listening, masked>>

Broadcast ==
  /\ step = "broadcast"
  /\ \/ /\ channel.agent = "up" /\ Answered /\ tone' = TRUE
        /\ OperationEnds(ScheduleInspection([state EXCEPT !.active = TRUE]))
     \/ /\ \/ channel.agent # "up" /\ Answered /\ UNCHANGED tone
           \/ Unanswered /\ tone' \in {tone, channel.agent = "up"}
        /\ OperationEnds(ScheduleInspection(state))
  /\ UNCHANGED <<channel, rtp, hook, wire, listening, masked>>

Break ==
  /\ step = "break"
  /\ \/ Answered /\ tone' = FALSE
     \/ Unanswered /\ tone' \in {tone, FALSE}
  /\ OperationEnds(state)
  /\ UNCHANGED <<channel, rtp, hook, wire, listening, masked>>

ControllerStep ==
  \/ Handle \/ StopListening \/ Poll
  \/ OperationStarts \/ InspectMedia \/ InstallHook \/ Broadcast \/ Break

MediaNext == ChannelStep \/ ControllerStep

MediaSpec == MediaInit /\ [][MediaNext]_mediaVars

(* Events arrive, the timer fires and commands return or time out; nobody  *)
(* need answer, hang up or send media.                                     *)
MediaFairness ==
  /\ WF_mediaVars(Handle) /\ WF_mediaVars(Poll)
  /\ WF_mediaVars(OperationStarts) /\ WF_mediaVars(InspectMedia)
  /\ WF_mediaVars(InstallHook) /\ WF_mediaVars(Broadcast)
  /\ WF_mediaVars(Break)

MediaFairSpec == MediaSpec /\ MediaFairness

------------------------------------------------------------------------------
(* Properties.                                                             *)

(* The controller's state and FreeSWITCH's legs are well typed.            *)
MediaTypeOK ==
  /\ channel \in [agent    : {"none", "up", "gone"},
                 customer : {"none", "ringing", "early", "up", "gone"}]
  /\ state \in [DOMAIN NewState -> BOOLEAN] /\ known \in BOOLEAN
  /\ step \in {"none", "count", "hook", "broadcast", "break"}
  /\ chain \in Seq({"inspect", "stop"})
  /\ step # "none" => chain # <<>>
  /\ unanswered \in Seq({"count", "hook", "broadcast", "break"}) /\ Len(unanswered) <= MaxFaults

(* What the code knows of the tone is true: no command that starts or      *)
(* stops it was left without an answer.                                    *)
ToneIsKnown == \A i \in DOMAIN unanswered : unanswered[i] \notin {"broadcast", "break"}

(* Media wins: once the controller has seen the customer's media and has   *)
(* nothing left to do, no tone covers it.                                  *)
MediaWins == masked /\ chain = <<>> => ~tone

(* Failures of the inspection and of the hook do not let the tone cover    *)
(* the customer's media; only the answer to the tone's own command counts. *)
MediaWinsIfKnown == ToneIsKnown => MediaWins

(* The tone never starts again after media was seen, although gaps in an   *)
(* announcement let the same counters stand still.                         *)
NoRestart == [][masked /\ ~tone => ~tone']_mediaVars

(* The tone does not stay on a conversation: whatever inspection is under  *)
(* way when the customer answers, and whether or not the hook was set, the *)
(* agent is left without a tone.                                           *)
ConversationIsQuiet == channel.customer = "up" ~> [](ToneIsKnown => ~tone)

(* Polling ends with the call: no timer and no state outlive the           *)
(* customer's leg, whatever was queued when it ended.                      *)
PollingEnds == channel.customer = "gone" ~> [](~known /\ chain = <<>>)
==============================================================================
