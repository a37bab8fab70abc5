------------------------- MODULE CallLifecycleProofs -------------------------
(***************************************************************************)
(* The handlers of a call, proved for every number of calls, agents, leads *)
(* and voicemail-drop requests, and for every bound on faults.  First the  *)
(* types; then each step is shown to be a statement of CallStore, so that  *)
(* what is proved of the rows holds of the handlers; then the two          *)
(* invariants that relate the rows to the channels of FreeSWITCH.          *)
(***************************************************************************)
EXTENDS CallLifecycle, SequenceTheorems, TLAPS

(* What CallStoreProofs proves, for the statements the handlers issue.     *)
Safety == INSTANCE CallStoreProofs
            WITH Causes <- EndCauses, DetectsVoicemail <- FALSE, ManualOutcomes <- {},
                 ChannelEvents <- {<<"agent", "answer">>, <<"agent", "hangup">>,
                                   <<"customer", "answer">>}

------------------------------------------------------------------------------
(* The types of FreeSWITCH's side and of the processes.                    *)

Kinds == {"agent_answer", "agent_hangup", "customer_answer", "customer_hangup", "job_failed",
          "started", "failed", "completed"}
EventRecord == [call : Calls, kind : Kinds, cause : EndCauses]

ChannelRecord == [agent : {"none", "dialing", "up", "gone"},
                  customer : {"none", "dialing", "up", "moved", "playing", "broken", "played", "gone"}]

OriginSteps    == {"idle", "ask", "agent_leg", "customer_leg", "job", "ringing", "failed", "done"}
WatchdogSteps  == {"off", "agent", "ask_agent", "customer", "ask_customer"}
DropRecord     == [pc : {"transfer", "kill", "revert", "mark", "leg", "agent"},
                   call : Calls, agentUuid : BOOLEAN]
SnapshotRecord == [call : Calls, state : Store!CallStates, agent : BOOLEAN, customer : BOOLEAN]
PassRecord     == [pc : {"probe", "abort", "abort_agent", "timed_out", "incomplete", "kill",
                         "release", "orphan", "missing", "repair"},
                   cur : SUBSET SnapshotRecord, todo : SUBSET SnapshotRecord]

HandlerRecord  == [pc : {"complete", "incomplete", "finalize", "mark", "kill", "release", "consume"},
                   released : BOOLEAN, agentUuid : BOOLEAN]

SwitchOK ==
  /\ channel \in [Calls -> ChannelRecord]
  /\ heard \in [Calls -> BOOLEAN]
  /\ transfers \in [Calls -> Nat]
  /\ wire \in Seq(EventRecord)

HandlerOK == esl \in {Idle} \cup HandlerRecord /\ (wire # <<>> \/ esl = Idle)

ProcessesOK ==
  /\ origin \in [Calls -> OriginSteps]
  /\ job \in [Calls -> BOOLEAN]
  /\ watchdog \in [Calls -> WatchdogSteps]
  /\ drop \in [Requests -> {Idle, Done} \cup DropRecord]
  /\ HandlerOK
  /\ rec \in {Idle} \cup PassRecord
  /\ faults \in 0 .. MaxFaults

TInv == Store!TypeOK /\ SwitchOK /\ ProcessesOK

(* What has to do with a call's channels, and what must hold of them.      *)
Untouched(c)  == channel[c].agent = "none" /\ channel[c].customer = "none"
Dialed(c)     == origin[c] \notin {"idle", "ask"}
OffTheLine(c) == Dialed(c) /\ ~Alive(c, "agent")
Claimed(c)    == call[c].state \in Store!VoicemailActive \cup Store!Terminal

------------------------------------------------------------------------------
(* What FreeSWITCH does on its own, or when a leg is killed: no channel    *)
(* comes back or appears that was not dialed, nobody is transferred, and   *)
(* events follow those that were sent before.                              *)

Follows(events) ==
  /\ events \in Seq(EventRecord) /\ \A i \in DOMAIN events : ~Untouched(events[i].call)
  /\ wire' = wire \o events

Progress ==
  /\ SwitchOK'
  /\ \A c \in Calls : Alive(c, "agent")' => Alive(c, "agent")
  /\ \A c \in Calls : Untouched(c) => Untouched(c)'
  /\ transfers' = transfers
  /\ \E events \in Seq(EventRecord) : Follows(events)

LEMMA EventsType ==
  ASSUME NEW c \in Calls, NEW kinds \in Seq(Kinds), NEW cause \in EndCauses
  PROVE  /\ Events(c, kinds, cause) \in Seq(EventRecord)
         /\ \A i \in DOMAIN Events(c, kinds, cause) : Events(c, kinds, cause)[i].call = c
<1>1. Len(kinds) \in Nat /\ DOMAIN kinds = 1 .. Len(kinds) /\ \A i \in 1 .. Len(kinds) : kinds[i] \in Kinds
  BY LenProperties, ElementOfSeq
<1>2. Events(c, kinds, cause) \in [1 .. Len(kinds) -> EventRecord]
  BY <1>1 DEF Events, EventRecord
<1>3. Events(c, kinds, cause) \in Seq(EventRecord)
  BY <1>1, <1>2, SeqDef
<1> QED BY <1>3 DEF Events

LEMMA SendFollows ==
  ASSUME SwitchOK, NEW c \in Calls, NEW kinds \in Seq(Kinds), NEW cause \in EndCauses,
         ~Untouched(c), Send(Events(c, kinds, cause))
  PROVE  /\ wire' \in Seq(EventRecord)
         /\ \E events \in Seq(EventRecord) : Follows(events)
<1>1. CASE connected
  <2>1. wire' = wire \o Events(c, kinds, cause)
    BY <1>1 DEF Send
  <2>2. Follows(Events(c, kinds, cause))
    BY <2>1, EventsType DEF Follows
  <2> QED BY <2>1, <2>2, EventsType, ConcatProperties DEF SwitchOK
<1>2. CASE ~connected
  <2>1. wire' = wire /\ wire \o <<>> = wire /\ <<>> \in Seq(EventRecord)
    BY <1>2, ConcatEmptySeq, EmptySeq DEF Send, SwitchOK
  <2>2. Follows(<<>>)
    BY <2>1 DEF Follows
  <2> QED BY <2>1, <2>2 DEF SwitchOK
<1> QED BY <1>1, <1>2

LEMMA HangUpIsProgress ==
  ASSUME SwitchOK, NEW c \in Calls, NEW t \in {"agent", "customer"}, NEW cause \in EndCauses,
         Alive(c, t), HangUp(c, t, cause)
  PROVE  Progress /\ ~Alive(c, t)' /\ UNCHANGED <<heard, transfers>>
<1>1. /\ channel' \in [Calls -> ChannelRecord]
      /\ channel'[c][t] = "gone"
      /\ \A d \in Calls : d # c => channel'[d] = channel[d]
      /\ \A u \in {"agent", "customer"} : u # t => channel'[c][u] = channel[c][u]
  BY DEF SwitchOK, HangUp, ChannelRecord
<1>2. ~Untouched(c)
  BY DEF Untouched, Alive
<1>3. PICK kinds \in Seq(Kinds) : \E why \in EndCauses : Send(Events(c, kinds, why))
  <2>1. /\ <<"agent_hangup", "job_failed">> \in Seq(Kinds) /\ <<"agent_hangup">> \in Seq(Kinds)
        /\ <<"customer_hangup">> \in Seq(Kinds) /\ "normal" \in EndCauses
    BY DEF Kinds, EndCauses
  <2>2. CASE t = "agent"
    BY <2>1, <2>2 DEF HangUp, AgentGoneEvents
  <2>3. CASE t = "customer"
    BY <2>1, <2>3 DEF HangUp
  <2> QED BY <2>2, <2>3
<1>4. wire' \in Seq(EventRecord) /\ \E events \in Seq(EventRecord) : Follows(events)
  BY <1>2, <1>3, SendFollows
<1>5. SwitchOK'
  BY <1>1, <1>4 DEF SwitchOK, HangUp
<1>6. \A d \in Calls : /\ Alive(d, "agent")' => Alive(d, "agent")
                       /\ Untouched(d) => Untouched(d)'
  BY <1>1, <1>2 DEF Alive, Untouched
<1> QED BY <1>1, <1>4, <1>5, <1>6 DEF Progress, HangUp, Alive

LEMMA StaysIsProgress == SwitchOK /\ UNCHANGED freeswitch => Progress
<1> SUFFICES ASSUME SwitchOK, UNCHANGED freeswitch PROVE Progress
  OBVIOUS
<1>1. wire' = wire \o <<>> /\ <<>> \in Seq(EventRecord)
  BY ConcatEmptySeq, EmptySeq DEF SwitchOK, freeswitch
<1>2. Follows(<<>>)
  BY <1>1 DEF Follows
<1> QED BY <1>1, <1>2 DEF Progress, SwitchOK, freeswitch, Untouched, Alive

(* After a kill that was answered the leg has no channel.                  *)
LEMMA KillIsProgress ==
  ASSUME SwitchOK, NEW c \in Calls, NEW t \in {"agent", "customer"}, Kill(c, t)
  PROVE  Progress /\ ~Alive(c, t)'
<1>1. CASE Alive(c, t)
  BY <1>1, HangUpIsProgress DEF Kill, EndCauses
<1>2. CASE ~Alive(c, t)
  BY <1>2, StaysIsProgress DEF Kill, freeswitch, Alive
<1> QED BY <1>1, <1>2

LEMMA KillUnansweredIsProgress ==
  ASSUME SwitchOK, NEW c \in Calls, NEW t \in {"agent", "customer"}, KillUnanswered(c, t)
  PROVE  Progress
  BY KillIsProgress, StaysIsProgress DEF KillUnanswered

LEMMA MovesIsProgress ==
  ASSUME SwitchOK, NEW c \in Calls, NEW from, NEW kind \in Kinds,
         NEW to \in {"up", "playing", "broken", "played"}, from # "none",
         Moves(c, "customer", from, to, kind), heard' \in [Calls -> BOOLEAN]
  PROVE  Progress
<1>1. /\ channel' \in [Calls -> ChannelRecord]
      /\ \A d \in Calls : channel'[d].agent = channel[d].agent
      /\ \A d \in Calls : d # c => channel'[d] = channel[d]
  BY DEF SwitchOK, Moves, ChannelRecord
<1>2. ~Untouched(c) /\ <<kind>> \in Seq(Kinds) /\ "normal" \in EndCauses
  BY DEF Untouched, Moves, EndCauses
<1>3. wire' \in Seq(EventRecord) /\ \E events \in Seq(EventRecord) : Follows(events)
  BY <1>2, SendFollows DEF Moves
<1>4. SwitchOK'
  BY <1>1, <1>3 DEF SwitchOK, Moves
<1> QED BY <1>1, <1>2, <1>3, <1>4 DEF Progress, Alive, Untouched, Moves

LEMMA ChannelStepIsProgress ==
  ASSUME SwitchOK, NEW c \in Calls, ChannelStep(c)
  PROVE  Progress
<1>1. ASSUME AgentAnswers(c) PROVE Progress
  <2>1. /\ channel' \in [Calls -> ChannelRecord]
        /\ \A d \in Calls : d # c => channel'[d] = channel[d]
    BY <1>1 DEF SwitchOK, AgentAnswers, ChannelRecord
  <2>2. ~Untouched(c) /\ Alive(c, "agent")
    BY <1>1 DEF AgentAnswers, Untouched, Alive
  <2>3. <<"agent_answer">> \in Seq(Kinds) /\ "normal" \in EndCauses
    BY DEF Kinds, EndCauses
  <2>4. wire' \in Seq(EventRecord) /\ \E events \in Seq(EventRecord) : Follows(events)
    BY <1>1, <2>2, <2>3, SendFollows DEF AgentAnswers
  <2>5. SwitchOK'
    BY <1>1, <2>1, <2>4 DEF SwitchOK, AgentAnswers
  <2> QED BY <1>1, <2>1, <2>2, <2>4, <2>5 DEF Progress, AgentAnswers, Alive, Untouched
<1>2. ASSUME AgentLeaves(c) \/ CustomerLeaves(c) PROVE Progress
  BY <1>2, HangUpIsProgress DEF AgentLeaves, CustomerLeaves, HangupCauses, EndCauses
<1>3. heard \in [Calls -> BOOLEAN] /\ [heard EXCEPT ![c] = TRUE] \in [Calls -> BOOLEAN]
  BY DEF SwitchOK
<1>4. ASSUME CustomerAnswers(c) \/ PlaybackStarts(c) \/ PlaybackFails(c) \/ PlaybackCompletes(c)
      PROVE  Progress
  BY <1>3, <1>4, MovesIsProgress
     DEF CustomerAnswers, PlaybackStarts, PlaybackFails, PlaybackCompletes, Kinds
<1> QED BY <1>1, <1>2, <1>4 DEF ChannelStep, Outside

------------------------------------------------------------------------------
(* Each step keeps the types and is, for the rows, a statement of CallStore *)
(* or none.                                                                *)

RowsStep == Store!Next \/ UNCHANGED rows
Typed    == SwitchOK' /\ ProcessesOK' /\ RowsStep

LEMMA Statements ==
  ASSUME NEW c \in Calls,
         \/ \E a \in Agents, k \in Contacts : Store!CreateDialerCall(c, a, k)
         \/ \E how \in EndCauses \cup {"failure", "missing", "repair"} : Store!FinalizeCall(c, how)
         \/ Store!EndDialerCall(c)
         \/ Store!StoreAgentLeg(c) \/ Store!StoreCustomerLeg(c) \/ Store!MarkAgentRinging(c)
         \/ Store!PersistChannelEvent(c, "agent", "answer")
         \/ Store!PersistChannelEvent(c, "agent", "hangup")
         \/ Store!PersistChannelEvent(c, "customer", "answer")
         \/ Store!ClaimVoicemailDrop(c) \/ Store!RevertVoicemailDrop(c)
         \/ Store!MarkPlaybackStarted(c) \/ Store!MarkAgentReleased(c) \/ Store!EndAgentLeg(c)
         \/ Store!ReleaseAgent(c) \/ Store!FinalizeCompletedPlayback(c)
         \/ \E b \in BOOLEAN : Store!FinalizeIncompletePlayback(c, b)
  PROVE  Store!Next
<1>1. Store!CallStep(c)
  BY DEF Store!CallStep, Store!Resolvers
<1> QED BY <1>1 DEF Store!Next

LEMMA FinishAgentStep ==
  ASSUME NEW a, Store!FinishAgent(a)
  PROVE  RowsStep
<1>1. CASE a \in Agents
  BY <1>1 DEF RowsStep, Store!Next, Store!AgentStep
<1>2. CASE a \notin Agents
  BY <1>2 DEF RowsStep, Store!FinishAgent, Store!FinishAgentCall, rows
<1> QED BY <1>1, <1>2

LEMMA FaultType ==
  ASSUME ProcessesOK, NEW kind, Fault(kind)
  PROVE  faults' \in 0 .. MaxFaults
  BY BoundAssumption DEF ProcessesOK, Fault

LEMMA DropTypes ==
  ASSUME ProcessesOK, NEW r \in Requests
  PROVE  /\ DropEnds(r) => drop' \in [Requests -> {Idle, Done} \cup DropRecord]
         /\ DropRuns(r) => drop[r] \in DropRecord
         /\ \A pc \in {"transfer", "kill", "revert", "mark", "leg", "agent"} :
              DropRuns(r) /\ DropTo(r, pc) =>
                drop' \in [Requests -> {Idle, Done} \cup DropRecord] /\ UNCHANGED faults
  BY DEF ProcessesOK, DropEnds, DropTo, DropRuns, DropRecord

(* The switch keeps its types while the processes move.                    *)
LEMMA SwitchStays == SwitchOK /\ UNCHANGED freeswitch => SwitchOK' /\ wire' = wire
  BY DEF SwitchOK, freeswitch

LEMMA ProgressKeepsHead ==
  ASSUME SwitchOK, Progress
  PROVE  SwitchOK' /\ (wire # <<>> => wire' # <<>> /\ Event' = Event)
<1>1. PICK events \in Seq(EventRecord) : wire' = wire \o events
  BY DEF Progress, Follows
<1>2. wire # <<>> => wire' # <<>> /\ Head(wire') = Head(wire)
  BY <1>1, ConcatProperties, EmptySeq, LenProperties DEF SwitchOK
<1> QED BY <1>2 DEF Progress, Event

LEMMA HandlerStays == HandlerOK /\ (wire # <<>> => wire' # <<>>) /\ esl' = esl => HandlerOK'
  BY DEF HandlerOK

LEMMA TypedStartCall ==
  ASSUME TInv, NEW c \in Calls, NEW a \in Agents, NEW k \in Contacts, StartCall(c, a, k)
  PROVE  Typed
<1>1. origin' \in [Calls -> OriginSteps]
  BY DEF TInv, ProcessesOK, StartCall, OriginSteps
<1>2. RowsStep
  BY Statements DEF StartCall, RowsStep
<1> QED BY <1>1, <1>2, SwitchStays, HandlerStays DEF Typed, TInv, StartCall, ProcessesOK

LEMMA TypedChannelStep ==
  ASSUME TInv, NEW c \in Calls, ChannelStep(c)
  PROVE  Typed
<1>1. Progress
  BY ChannelStepIsProgress DEF TInv
<1>2. ProcessesOK'
  BY <1>1, ProgressKeepsHead, HandlerStays DEF TInv, ProcessesOK, ChannelStep, Outside
<1> QED BY <1>1, <1>2 DEF Typed, RowsStep, Progress, ChannelStep, Outside

LEMMA TypedOriginStep ==
  ASSUME TInv, NEW c \in Calls, OriginStep(c)
  PROVE  Typed
<1>1. SwitchOK' /\ wire' = wire
  <2>1. ASSUME Dial(c) PROVE SwitchOK' /\ wire' = wire
    BY <2>1 DEF TInv, SwitchOK, Dial, ChannelRecord
  <2> QED BY <2>1, SwitchStays DEF TInv, OriginStep, Originate, StoreOriginate, StatementFails
<1>2. faults' \in 0 .. MaxFaults
  BY FaultType DEF TInv, ProcessesOK, OriginStep, Originate, StoreOriginate, StatementFails
<1>3. origin' \in [Calls -> OriginSteps]
  BY DEF TInv, ProcessesOK, OriginStep, Originate, StoreOriginate, StatementFails, OriginSteps
<1>4. job' \in [Calls -> BOOLEAN] /\ watchdog' \in [Calls -> WatchdogSteps]
  BY DEF TInv, ProcessesOK, OriginStep, Originate, StoreOriginate, StatementFails, WatchdogSteps
<1>5. RowsStep
  BY Statements DEF RowsStep, OriginStep, Originate, StatementFails, MarkRinging
<1> QED BY <1>1, <1>2, <1>3, <1>4, <1>5, HandlerStays DEF Typed, TInv, ProcessesOK, OriginStep

LEMMA TypedWatchdogStep ==
  ASSUME TInv, NEW c \in Calls, WatchdogStep(c)
  PROVE  Typed
<1>1. faults' \in 0 .. MaxFaults
  BY FaultType DEF TInv, ProcessesOK, WatchdogStep, WatchdogReads, WatchdogAsks
<1>2. watchdog' \in [Calls -> WatchdogSteps]
  BY DEF TInv, ProcessesOK, WatchdogStep, WatchdogReads, WatchdogAsks, WatchdogSteps
<1>3. RowsStep
  BY Statements DEF RowsStep, WatchdogStep, WatchdogReads, WatchdogAsks
<1> QED BY <1>1, <1>2, <1>3, SwitchStays, HandlerStays DEF Typed, TInv, ProcessesOK, WatchdogStep

LEMMA EnderStepIsProgress ==
  ASSUME SwitchOK, NEW c \in Calls, EnderStep(c)
  PROVE  Progress
  BY KillIsProgress, KillUnansweredIsProgress, StaysIsProgress DEF EnderStep, EnderKills

LEMMA TypedEnderStep ==
  ASSUME TInv, NEW c \in Calls, EnderStep(c)
  PROVE  Typed
<1>1. Progress
  BY EnderStepIsProgress DEF TInv
<1>2. faults' \in 0 .. MaxFaults
  BY FaultType DEF TInv, ProcessesOK, EnderStep, EnderKills, KillUnanswered
<1>3. ProcessesOK'
  BY <1>1, <1>2, ProgressKeepsHead, HandlerStays DEF TInv, ProcessesOK, EnderStep
<1> QED BY <1>1, <1>3 DEF Typed, RowsStep, Progress, EnderStep

LEMMA TypedOtherHandlers ==
  ASSUME TInv, NEW c \in Calls, Age(c) \/ EndCall(c)
  PROVE  Typed
<1>1. RowsStep
  BY Statements DEF RowsStep, Age, EndCall
<1> QED BY <1>1, SwitchStays, HandlerStays DEF Typed, TInv, ProcessesOK, Age, EndCall

LEMMA TypedRequestDrop ==
  ASSUME TInv, NEW c \in Calls, NEW r \in Requests, RequestDrop(r, c)
  PROVE  Typed
<1>1. leg[c].agent.uuid \in BOOLEAN
  BY DEF TInv, Store!TypeOK, Store!LegRow, Store!LegTypes
<1>2. drop' \in [Requests -> {Idle, Done} \cup DropRecord]
  BY <1>1 DEF TInv, ProcessesOK, RequestDrop, DropRecord
<1>3. RowsStep
  BY Statements DEF RowsStep, RequestDrop
<1> QED BY <1>2, <1>3, SwitchStays, HandlerStays DEF Typed, TInv, ProcessesOK, RequestDrop

LEMMA TransferType ==
  ASSUME SwitchOK, NEW c \in Calls, Transfer(c)
  PROVE  SwitchOK' /\ wire' = wire
<1>1. channel' \in [Calls -> ChannelRecord]
  BY DEF SwitchOK, Transfer, ChannelRecord
<1>2. transfers' \in [Calls -> Nat]
  BY DEF SwitchOK, Transfer
<1> QED BY <1>1, <1>2 DEF SwitchOK, Transfer

LEMMA TypedDropStep ==
  ASSUME TInv, NEW r \in Requests, DropStep(r)
  PROVE  Typed
<1> DEFINE c == drop[r].call
<1>1. drop[r] \in DropRecord /\ c \in Calls
  BY DropTypes DEF TInv, DropStep, DropRecord
<1>2. ASSUME DropTransfers(r, c) /\ UNCHANGED rows
      PROVE  /\ SwitchOK' /\ wire' = wire /\ faults' \in 0 .. MaxFaults
             /\ drop' \in [Requests -> {Idle, Done} \cup DropRecord]
  BY <1>1, <1>2, DropTypes, TransferType, SwitchStays, FaultType
     DEF TInv, ProcessesOK, DropStep, DropTransfers
<1>3. ASSUME DropKills(r, c) /\ UNCHANGED rows
      PROVE  /\ SwitchOK' /\ (wire # <<>> => wire' # <<>>) /\ faults' \in 0 .. MaxFaults
             /\ drop' \in [Requests -> {Idle, Done} \cup DropRecord]
  <2>1. Progress
    BY <1>1, <1>3, KillIsProgress, KillUnansweredIsProgress, StaysIsProgress DEF TInv, DropKills
  <2>2. faults' \in 0 .. MaxFaults
    BY <1>3, FaultType DEF TInv, ProcessesOK, DropKills, DropTo, KillUnanswered
  <2>3. drop' \in [Requests -> {Idle, Done} \cup DropRecord]
    BY <1>3, DropTypes DEF TInv, DropStep, DropKills
  <2> QED BY <2>1, <2>2, <2>3, ProgressKeepsHead DEF TInv
<1>4. ASSUME DropStatement(r, c) /\ UNCHANGED freeswitch
      PROVE  /\ SwitchOK' /\ wire' = wire /\ faults' \in 0 .. MaxFaults
             /\ drop' \in [Requests -> {Idle, Done} \cup DropRecord]
             /\ RowsStep
  <2>1. SwitchOK' /\ wire' = wire
    BY <1>4, SwitchStays DEF TInv
  <2>2. faults' \in 0 .. MaxFaults
    BY <1>4, FaultType
       DEF TInv, ProcessesOK, DropStatement, DropReverts, DropMarks, DropTo
  <2>3. drop' \in [Requests -> {Idle, Done} \cup DropRecord]
    BY <1>4, DropTypes DEF TInv, DropStep, DropStatement, DropReverts, DropMarks
  <2>4. RowsStep
    BY <1>1, <1>4, Statements, FinishAgentStep DEF RowsStep, DropStatement, DropReverts, DropMarks
  <2> QED BY <2>1, <2>2, <2>3, <2>4
<1> QED BY <1>2, <1>3, <1>4, HandlerStays DEF Typed, TInv, ProcessesOK, RowsStep, DropStep

LEMMA EventType == TInv /\ wire # <<>> => Event \in EventRecord /\ Tail(wire) \in Seq(EventRecord)
  BY HeadTailProperties DEF TInv, SwitchOK, Event

LEMMA ConsumeType ==
  ASSUME TInv, wire # <<>>, Consume
  PROVE  SwitchOK' /\ HandlerOK' /\ UNCHANGED <<channel, transfers, faults>>
  BY EventType DEF TInv, SwitchOK, HandlerOK, Consume

LEMMA TypedListenerStep ==
  ASSUME TInv, ListenerStep
  PROVE  Typed
<1> DEFINE c == Event.call
<1>0. wire # <<>> /\ HandlerOK /\ SwitchOK
  BY DEF ListenerStep, TInv, ProcessesOK
<1>1. Event \in EventRecord /\ c \in Calls /\ Event.cause \in EndCauses
  BY <1>0, EventType DEF EventRecord
<1>2. esl # Idle => esl \in HandlerRecord
  BY <1>0 DEF HandlerOK
<1>3. leg[c].agent.uuid \in BOOLEAN
  BY <1>1 DEF TInv, Store!TypeOK, Store!LegRow, Store!LegTypes
<1>4. RowsStep
  <2>1. ASSUME NEW kind, NEW type, NEW event, PersistChannel(kind, type, event),
               <<type, event>> \in {<<"agent", "answer">>, <<"agent", "hangup">>,
                                    <<"customer", "answer">>}
        PROVE  RowsStep
    BY <1>1, <2>1, Statements DEF RowsStep, PersistChannel
  <2>2. ASSUME PersistJobFailure PROVE RowsStep
    BY <1>1, <2>2, Statements DEF RowsStep, PersistJobFailure
  <2>3. ASSUME \/ CompletePlayback(c) \/ ReleaseAgent(c) \/ MarkStarted(c)
               \/ Store!FinalizeCall(c, Event.cause)
               \/ \E b \in BOOLEAN : FailPlayback(c, b)
        PROVE  RowsStep
    BY <1>1, <2>3, Statements
       DEF RowsStep, CompletePlayback, FailPlayback, ReleaseAgent, MarkStarted
  <2>4. ListenerReads => RowsStep
    BY DEF RowsStep, ListenerReads
  <2>5. esl.pc = "incomplete" => esl.released \in BOOLEAN
    BY <1>0, <1>2 DEF Idle, HandlerRecord
  <2> QED BY <2>1, <2>2, <2>3, <2>4, <2>5 DEF ListenerStep, RowsStep
<1>5. \A pc \in {"complete", "incomplete", "finalize", "mark"} :
        [pc |-> pc, released |-> call[c].state = "agent_released", agentUuid |-> leg[c].agent.uuid]
          \in HandlerRecord
  BY <1>3 DEF HandlerRecord
<1>6. ASSUME NEW e \in {Idle} \cup HandlerRecord, EslTo(e)
      PROVE  SwitchOK' /\ HandlerOK' /\ UNCHANGED faults
  BY <1>0, <1>6, SwitchStays DEF EslTo, HandlerOK
<1>7. ASSUME ListenerReads PROVE SwitchOK' /\ HandlerOK' /\ UNCHANGED faults
  BY <1>0, <1>5, <1>6, <1>7, ConsumeType DEF ListenerReads, FateOfHangup
<1>8. ASSUME esl.pc = "kill", ListenerKillsAgent(c)
      PROVE  SwitchOK' /\ HandlerOK' /\ faults' \in 0 .. MaxFaults
  <2>1. esl \in HandlerRecord
    BY <1>2, <1>8 DEF Idle
  <2>2. /\ [esl EXCEPT !.pc = "release"] \in HandlerRecord
        /\ [esl EXCEPT !.pc = "consume"] \in HandlerRecord
    BY <2>1 DEF HandlerRecord
  <2>3. ASSUME Progress, esl' \in HandlerRecord PROVE SwitchOK' /\ HandlerOK'
    BY <1>0, <2>3, ProgressKeepsHead DEF HandlerOK
  <2>4. faults' \in 0 .. MaxFaults
    BY <1>0, <1>8, FaultType, ConsumeType DEF TInv, ProcessesOK, ListenerKillsAgent
  <2>5. (Kill(c, "agent") \/ UNCHANGED freeswitch) => Progress
    BY <1>0, <1>1, KillIsProgress, StaysIsProgress
  <2> QED BY <1>0, <1>8, <2>2, <2>3, <2>4, <2>5, ConsumeType DEF ListenerKillsAgent
<1>9. ASSUME esl.pc = "mark", EslTo([esl EXCEPT !.pc = "kill"])
      PROVE  SwitchOK' /\ HandlerOK' /\ UNCHANGED faults
  <2>1. esl \in HandlerRecord
    BY <1>2, <1>9 DEF Idle
  <2>2. [esl EXCEPT !.pc = "kill"] \in HandlerRecord
    BY <2>1 DEF HandlerRecord
  <2> QED BY <1>6, <1>9, <2>2
<1>10. ASSUME Fault("statement"), esl' = Idle, UNCHANGED freeswitch
       PROVE  SwitchOK' /\ HandlerOK' /\ faults' \in 0 .. MaxFaults
  BY <1>0, <1>10, FaultType, SwitchStays DEF TInv, HandlerOK
<1>11. SwitchOK' /\ HandlerOK' /\ faults' \in 0 .. MaxFaults
  BY <1>0, <1>7, <1>8, <1>9, <1>10, ConsumeType
     DEF ListenerStep, PersistChannel, PersistJobFailure, TInv, ProcessesOK
<1> QED BY <1>4, <1>11 DEF Typed, TInv, ProcessesOK, ListenerStep

------------------------------------------------------------------------------
(* A pass of reconciliation.                                               *)

PassOK == rec \in {Idle} \cup PassRecord

LEMMA SnapshotType ==
  ASSUME TInv, NEW c \in Calls
  PROVE  Snapshot(c) \in SnapshotRecord
  BY DEF TInv, Store!TypeOK, Store!CallRow, Store!LegRow, Store!LegTypes, Snapshot, SnapshotRecord

LEMMA TurnToType ==
  ASSUME PassOK, rec.pc # "idle", NEW s \in rec.todo \cup rec.cur,
         NEW pc \in {"probe", "abort", "abort_agent", "timed_out", "incomplete", "kill",
                     "release", "orphan", "missing"}, TurnTo(pc, s)
  PROVE  PassOK' /\ s \in SnapshotRecord /\ s.call \in Calls
<1>1. rec \in PassRecord /\ s \in SnapshotRecord
  BY DEF PassOK, Idle, PassRecord
<1> QED BY <1>1 DEF PassOK, TurnTo, PassRecord, SnapshotRecord

PassSteps == {"probe", "abort", "abort_agent", "timed_out", "incomplete", "kill", "release",
              "orphan", "missing"}
Reconciled == Progress /\ PassOK' /\ faults' \in 0 .. MaxFaults /\ RowsStep

LEMMA ReconciledKill ==
  ASSUME TInv, rec.pc # "idle", NEW s \in rec.todo \cup rec.cur, NEW pc,
         NEW t \in {"agent", "customer"}, NEW answered \in PassSteps, NEW unanswered \in PassSteps,
         \/ ReconcileKills(pc, s, t, answered, unanswered)
         \/ ReconcileSkipsKill(pc, s, t, answered)
  PROVE  Reconciled
<1>1. PassOK' /\ s.call \in Calls
  BY TurnToType DEF TInv, ProcessesOK, PassOK, PassSteps, ReconcileKills, ReconcileSkipsKill
<1>2. Progress
  BY <1>1, KillIsProgress, KillUnansweredIsProgress, StaysIsProgress
     DEF TInv, ReconcileKills, ReconcileSkipsKill
<1>3. faults' \in 0 .. MaxFaults
  BY FaultType DEF TInv, ProcessesOK, ReconcileKills, ReconcileSkipsKill, KillUnanswered
<1> QED BY <1>1, <1>2, <1>3 DEF Reconciled, RowsStep, ReconcileKills, ReconcileSkipsKill

LEMMA ReconciledStore ==
  ASSUME TInv, rec.pc # "idle", NEW s \in rec.todo \cup rec.cur,
         \/ \E b \in BOOLEAN : \E pc : ReconcileStores(pc, s, FailPlayback(s.call, b))
         \/ ReconcileStores("release", s, ReleaseAgent(s.call))
         \/ ReconcileStores("missing", s, Store!FinalizeCall(s.call, "missing"))
  PROVE  Reconciled
<1>1. PassOK' /\ s.call \in Calls
  BY TurnToType DEF TInv, ProcessesOK, PassOK, ReconcileStores
<1>2. Progress
  BY StaysIsProgress DEF TInv, ReconcileStores
<1>3. faults' \in 0 .. MaxFaults
  BY FaultType DEF TInv, ProcessesOK, ReconcileStores
<1>4. RowsStep
  BY <1>1, Statements DEF RowsStep, ReconcileStores, FailPlayback, ReleaseAgent
<1> QED BY <1>1, <1>2, <1>3, <1>4 DEF Reconciled

LEMMA ReconciledProbe ==
  ASSUME TInv, rec.pc # "idle", NEW s \in rec.todo \cup rec.cur, ReconcileProbes(s)
  PROVE  Reconciled
<1>1. \A exists \in BOOLEAN : Decision(s, exists) \subseteq PassSteps
  BY DEF Decision, PassSteps
<1>2. (s.customer /\ Alive(s.call, "customer")) \in BOOLEAN
  OBVIOUS
<1>3. \E pc \in PassSteps : TurnTo(pc, s)
  BY <1>1, <1>2 DEF ReconcileProbes, PassSteps
<1>4. PassOK'
  BY <1>3, TurnToType DEF TInv, ProcessesOK, PassOK, PassSteps
<1>5. faults' \in 0 .. MaxFaults
  BY FaultType DEF TInv, ProcessesOK, ReconcileProbes
<1> QED BY <1>4, <1>5, StaysIsProgress DEF TInv, Reconciled, RowsStep, ReconcileProbes

LEMMA ReconciledCall ==
  ASSUME TInv, rec.pc # "idle", NEW s \in rec.todo \cup rec.cur, ReconcileCall(s)
  PROVE  Reconciled
<1>1. ASSUME ReconcileAborts(s) PROVE Reconciled
  <2>1. ASSUME rec.pc = "abort" /\ TurnTo("probe", s) /\ UNCHANGED <<rows, freeswitch, faults>>
        PROVE  Reconciled
    <3>1. PassOK'
      BY <2>1, TurnToType DEF TInv, ProcessesOK, PassOK
    <3> QED BY <2>1, <3>1, StaysIsProgress DEF TInv, ProcessesOK, Reconciled, RowsStep
  <2> QED BY <1>1, <2>1, ReconciledKill DEF ReconcileAborts, PassSteps
<1>2. (s.state = "agent_released") \in BOOLEAN
  OBVIOUS
<1> QED BY <1>1, <1>2, ReconciledKill, ReconciledStore, ReconciledProbe DEF ReconcileCall, PassSteps

LEMMA ReconciledStep ==
  ASSUME TInv, ReconcileStep
  PROVE  Reconciled
<1>0. PassOK /\ faults \in 0 .. MaxFaults
  BY DEF TInv, ProcessesOK, PassOK
<1>1. \A C \in SUBSET Calls : {Snapshot(c) : c \in C} \subseteq SnapshotRecord
  BY SnapshotType
<1>2. ASSUME ReconcileStarts PROVE Reconciled
  <2>1. PassOK'
    BY <1>1, <1>2 DEF ReconcileStarts, PassOK, PassRecord, Due
  <2> QED BY <1>0, <1>2, <2>1, StaysIsProgress DEF TInv, Reconciled, RowsStep, ReconcileStarts
<1>3. ASSUME RepairStarts \/ RepairFails PROVE Reconciled
  <2>1. PassOK'
    BY <1>1, <1>3 DEF RepairStarts, RepairFails, PassOK, PassRecord, Candidates
  <2>2. faults' \in 0 .. MaxFaults
    BY <1>0, <1>3, FaultType DEF TInv, RepairStarts, RepairFails
  <2> QED BY <1>3, <2>1, <2>2, StaysIsProgress DEF TInv, Reconciled, RowsStep, RepairStarts, RepairFails
<1>4. ASSUME rec.pc = "repair", NEW s \in rec.todo, RepairCall(s) PROVE Reconciled
  <2>1. rec \in PassRecord
    BY <1>0, <1>4 DEF PassOK, Idle
  <2>2. s.call \in Calls /\ PassOK'
    BY <1>4, <2>1 DEF RepairCall, PassOK, PassRecord, SnapshotRecord
  <2>3. RowsStep
    BY <1>4, <2>2, Statements DEF RepairCall, RowsStep
  <2> QED BY <1>0, <1>4, <2>2, <2>3, StaysIsProgress DEF TInv, Reconciled, RepairCall
<1>5. ASSUME rec.pc \notin {"idle", "repair"}, NEW s \in rec.todo \cup rec.cur, ReconcileCall(s)
      PROVE  Reconciled
  BY <1>5, ReconciledCall
<1> QED BY <1>2, <1>3, <1>4, <1>5 DEF ReconcileStep

LEMMA TypedReconcileStep ==
  ASSUME TInv, ReconcileStep
  PROVE  Typed
<1>1. Progress /\ PassOK' /\ faults' \in 0 .. MaxFaults /\ RowsStep
  BY ReconciledStep DEF Reconciled
<1>2. SwitchOK' /\ HandlerOK'
  BY <1>1, ProgressKeepsHead, HandlerStays DEF TInv, ProcessesOK, ReconcileStep
<1> QED BY <1>1, <1>2 DEF Typed, TInv, ProcessesOK, PassOK, ReconcileStep

LEMMA TypedConnection ==
  ASSUME TInv, Disconnect \/ Reconnect \/ Crash
  PROVE  Typed
<1>1. faults' \in 0 .. MaxFaults
  BY FaultType DEF TInv, ProcessesOK, Disconnect, Reconnect, Crash
<1>2. ASSUME Disconnect \/ Reconnect PROVE Typed
  BY <1>1, <1>2, SwitchStays, HandlerStays
     DEF Typed, TInv, ProcessesOK, RowsStep, Disconnect, Reconnect
<1>3. ASSUME Crash PROVE Typed
  <2>1. SwitchOK'
    BY <1>3, EmptySeq DEF TInv, SwitchOK, Crash
  <2>2. /\ origin' \in [Calls -> OriginSteps] /\ watchdog' \in [Calls -> WatchdogSteps]
        /\ drop' \in [Requests -> {Idle, Done} \cup DropRecord]
    BY <1>3 DEF TInv, ProcessesOK, Crash, OriginSteps, WatchdogSteps
  <2> QED BY <1>1, <1>3, <2>1, <2>2 DEF Typed, TInv, ProcessesOK, HandlerOK, RowsStep, Crash
<1> QED BY <1>2, <1>3

LEMMA TypedNext ==
  ASSUME TInv, [Next]_vars
  PROVE  Typed
<1>1. ASSUME UNCHANGED vars PROVE Typed
  BY <1>1, SwitchStays, HandlerStays DEF Typed, TInv, ProcessesOK, RowsStep, vars
<1> QED
  BY <1>1, TypedChannelStep, TypedOriginStep, TypedWatchdogStep, TypedEnderStep,
     TypedOtherHandlers, TypedStartCall, TypedDropStep, TypedRequestDrop, TypedListenerStep,
     TypedReconcileStep, TypedConnection
     DEF Next, Handlers

------------------------------------------------------------------------------
(* The rows, by what is proved of CallStore.                               *)

(* Store, the instance of CallStore that CallLifecycle uses, and Safety,   *)
(* the one that the theorems of CallStoreProofs come in, have the same     *)
(* actions, one by one, and the same types.                                *)
LEMMA SameCallStep ==
  ASSUME NEW c
  PROVE  Store!CallStep(c) <=> Safety!CallStep(c)
<1>1. \A a, k : Store!CreateDialerCall(c, a, k) <=> Safety!CreateDialerCall(c, a, k)
  BY DEF Store!CreateDialerCall, Safety!CreateDialerCall, Store!Terminal, Safety!Terminal,
         Store!LegTypes, Safety!LegTypes, Store!Absent, Safety!Absent, Store!NewLegs,
         Safety!NewLegs, Store!Exists, Safety!Exists, Store!Active, Safety!Active,
         Store!Interactive, Safety!Interactive, Store!HasInteractive, Safety!HasInteractive,
         Store!LeadIsFree, Safety!LeadIsFree
<1>2. \A how : Store!FinalizeCall(c, how) <=> Safety!FinalizeCall(c, how)
  BY DEF Store!FinalizeCall, Safety!FinalizeCall, Store!SetupStates, Safety!SetupStates,
         Store!VoicemailActive, Safety!VoicemailActive, Store!Terminal, Safety!Terminal,
         Store!CallStates, Safety!CallStates, Store!LegTypes, Safety!LegTypes, Store!Exists,
         Safety!Exists, Store!Active, Safety!Active, Store!Interactive, Safety!Interactive,
         Store!HasInteractive, Safety!HasInteractive, Store!MayFollow, Safety!MayFollow,
         Store!TriggerRejects, Safety!TriggerRejects, Store!Stored, Safety!Stored,
         Store!UpdateCall, Safety!UpdateCall, Store!FinishAgentCall, Safety!FinishAgentCall,
         Store!CloseContact, Safety!CloseContact, Store!ContactStatusForCallOutcome,
         Safety!ContactStatusForCallOutcome, Store!AllLegsEnded, Safety!AllLegsEnded,
         Store!CustomerHangupOutcome, Safety!CustomerHangupOutcome, Store!Resolve,
         Safety!Resolve, Store!Cleanup, Safety!Cleanup, Store!LegacyOutcome,
         Safety!LegacyOutcome, Store!StateForOutcome, Safety!StateForOutcome,
         Store!ReservedElsewhere, Safety!ReservedElsewhere
<1>3. Store!EndDialerCall(c) <=> Safety!EndDialerCall(c)
  BY DEF Store!EndDialerCall, Safety!EndDialerCall, Store!SetupStates, Safety!SetupStates,
         Store!VoicemailActive, Safety!VoicemailActive, Store!Terminal, Safety!Terminal,
         Store!CallStates, Safety!CallStates, Store!LegTypes, Safety!LegTypes, Store!Exists,
         Safety!Exists, Store!Active, Safety!Active, Store!Interactive, Safety!Interactive,
         Store!HasInteractive, Safety!HasInteractive, Store!MayFollow, Safety!MayFollow,
         Store!TriggerRejects, Safety!TriggerRejects, Store!Stored, Safety!Stored,
         Store!UpdateCall, Safety!UpdateCall, Store!FinishAgentCall, Safety!FinishAgentCall,
         Store!CloseContact, Safety!CloseContact, Store!AllLegsEnded, Safety!AllLegsEnded,
         Store!Cleanup, Safety!Cleanup
<1>4. \A outcome : Store!SetManualCallStatus(c, outcome) <=> Safety!SetManualCallStatus(c, outcome)
  BY DEF Store!SetManualCallStatus, Safety!SetManualCallStatus, Store!SetupStates,
         Safety!SetupStates, Store!VoicemailActive, Safety!VoicemailActive, Store!Terminal,
         Safety!Terminal, Store!CallStates, Safety!CallStates, Store!MayFollow,
         Safety!MayFollow, Store!TriggerRejects, Safety!TriggerRejects, Store!Stored,
         Safety!Stored, Store!UpdateCall, Safety!UpdateCall, Store!TerminalStateForOutcome,
         Safety!TerminalStateForOutcome
<1>5. Store!StoreAgentLeg(c) <=> Safety!StoreAgentLeg(c)
  BY DEF Store!StoreAgentLeg, Safety!StoreAgentLeg, Store!Exists, Safety!Exists
<1>6. Store!StoreCustomerLeg(c) <=> Safety!StoreCustomerLeg(c)
  BY DEF Store!StoreCustomerLeg, Safety!StoreCustomerLeg, Store!Exists, Safety!Exists
<1>7. Store!MarkAgentRinging(c) <=> Safety!MarkAgentRinging(c)
  BY DEF Store!MarkAgentRinging, Safety!MarkAgentRinging, Store!SetupStates, Safety!SetupStates,
         Store!VoicemailActive, Safety!VoicemailActive, Store!Terminal, Safety!Terminal,
         Store!CallStates, Safety!CallStates, Store!Exists, Safety!Exists, Store!MayFollow,
         Safety!MayFollow, Store!TriggerRejects, Safety!TriggerRejects, Store!Stored,
         Safety!Stored, Store!UpdateCall, Safety!UpdateCall
<1>8. \A type, event :
        Store!PersistChannelEvent(c, type, event) <=> Safety!PersistChannelEvent(c, type, event)
  BY DEF Store!PersistChannelEvent, Safety!PersistChannelEvent, Store!SetupStates,
         Safety!SetupStates, Store!VoicemailActive, Safety!VoicemailActive, Store!Terminal,
         Safety!Terminal, Store!CallStates, Safety!CallStates, Store!Exists, Safety!Exists,
         Store!Active, Safety!Active, Store!MayFollow, Safety!MayFollow, Store!TriggerRejects,
         Safety!TriggerRejects, Store!Stored, Safety!Stored, Store!UpdateCall,
         Safety!UpdateCall, Store!AdvancedState, Safety!AdvancedState
<1>9. Store!PersistVoicemailDetection(c) <=> Safety!PersistVoicemailDetection(c)
  BY DEF Store!PersistVoicemailDetection, Safety!PersistVoicemailDetection, Store!Terminal,
         Safety!Terminal, Store!LegTypes, Safety!LegTypes, Store!Exists, Safety!Exists,
         Store!Active, Safety!Active
<1>10. Store!ClaimVoicemailDrop(c) <=> Safety!ClaimVoicemailDrop(c)
  BY DEF Store!ClaimVoicemailDrop, Safety!ClaimVoicemailDrop, Store!SetupStates,
         Safety!SetupStates, Store!VoicemailActive, Safety!VoicemailActive, Store!Terminal,
         Safety!Terminal, Store!CallStates, Safety!CallStates, Store!Exists, Safety!Exists,
         Store!Active, Safety!Active, Store!MayFollow, Safety!MayFollow, Store!TriggerRejects,
         Safety!TriggerRejects, Store!Stored, Safety!Stored, Store!UpdateCall, Safety!UpdateCall
<1>11. Store!RevertVoicemailDrop(c) <=> Safety!RevertVoicemailDrop(c)
  BY DEF Store!RevertVoicemailDrop, Safety!RevertVoicemailDrop, Store!SetupStates,
         Safety!SetupStates, Store!VoicemailActive, Safety!VoicemailActive, Store!Terminal,
         Safety!Terminal, Store!CallStates, Safety!CallStates, Store!Exists, Safety!Exists,
         Store!Active, Safety!Active, Store!MayFollow, Safety!MayFollow, Store!TriggerRejects,
         Safety!TriggerRejects, Store!Stored, Safety!Stored, Store!UpdateCall, Safety!UpdateCall
<1>12. Store!MarkPlaybackStarted(c) <=> Safety!MarkPlaybackStarted(c)
  BY DEF Store!MarkPlaybackStarted, Safety!MarkPlaybackStarted, Store!SetupStates,
         Safety!SetupStates, Store!VoicemailActive, Safety!VoicemailActive, Store!Terminal,
         Safety!Terminal, Store!CallStates, Safety!CallStates, Store!Exists, Safety!Exists,
         Store!Active, Safety!Active, Store!MayFollow, Safety!MayFollow, Store!TriggerRejects,
         Safety!TriggerRejects, Store!Stored, Safety!Stored, Store!UpdateCall, Safety!UpdateCall
<1>13. Store!MarkAgentReleased(c) <=> Safety!MarkAgentReleased(c)
  BY DEF Store!MarkAgentReleased, Safety!MarkAgentReleased, Store!SetupStates,
         Safety!SetupStates, Store!VoicemailActive, Safety!VoicemailActive, Store!Terminal,
         Safety!Terminal, Store!CallStates, Safety!CallStates, Store!Exists, Safety!Exists,
         Store!Active, Safety!Active, Store!MayFollow, Safety!MayFollow, Store!TriggerRejects,
         Safety!TriggerRejects, Store!Stored, Safety!Stored, Store!UpdateCall, Safety!UpdateCall
<1>14. Store!EndAgentLeg(c) <=> Safety!EndAgentLeg(c)
  BY DEF Store!EndAgentLeg, Safety!EndAgentLeg, Store!Exists, Safety!Exists
<1>15. Store!ReleaseAgent(c) <=> Safety!ReleaseAgent(c)
  BY DEF Store!ReleaseAgent, Safety!ReleaseAgent, Store!SetupStates, Safety!SetupStates,
         Store!VoicemailActive, Safety!VoicemailActive, Store!Terminal, Safety!Terminal,
         Store!CallStates, Safety!CallStates, Store!Exists, Safety!Exists, Store!Active,
         Safety!Active, Store!Interactive, Safety!Interactive, Store!HasInteractive,
         Safety!HasInteractive, Store!MayFollow, Safety!MayFollow, Store!TriggerRejects,
         Safety!TriggerRejects, Store!Stored, Safety!Stored, Store!UpdateCall,
         Safety!UpdateCall, Store!FinishAgentCall, Safety!FinishAgentCall
<1>16. Store!FinalizeCompletedPlayback(c) <=> Safety!FinalizeCompletedPlayback(c)
  BY DEF Store!FinalizeCompletedPlayback, Safety!FinalizeCompletedPlayback, Store!SetupStates,
         Safety!SetupStates, Store!VoicemailActive, Safety!VoicemailActive, Store!Terminal,
         Safety!Terminal, Store!CallStates, Safety!CallStates, Store!LegTypes, Safety!LegTypes,
         Store!Exists, Safety!Exists, Store!Active, Safety!Active, Store!Interactive,
         Safety!Interactive, Store!HasInteractive, Safety!HasInteractive, Store!MayFollow,
         Safety!MayFollow, Store!TriggerRejects, Safety!TriggerRejects, Store!Stored,
         Safety!Stored, Store!UpdateCall, Safety!UpdateCall, Store!FinishAgentCall,
         Safety!FinishAgentCall, Store!CloseContact, Safety!CloseContact, Store!AllLegsEnded,
         Safety!AllLegsEnded
<1>17. \A agentReleased :
         Store!FinalizeIncompletePlayback(c, agentReleased) <=> Safety!FinalizeIncompletePlayback(c, agentReleased)
  BY DEF Store!FinalizeIncompletePlayback, Safety!FinalizeIncompletePlayback, Store!SetupStates,
         Safety!SetupStates, Store!VoicemailActive, Safety!VoicemailActive, Store!Terminal,
         Safety!Terminal, Store!CallStates, Safety!CallStates, Store!LegTypes, Safety!LegTypes,
         Store!Exists, Safety!Exists, Store!Active, Safety!Active, Store!Interactive,
         Safety!Interactive, Store!HasInteractive, Safety!HasInteractive, Store!MayFollow,
         Safety!MayFollow, Store!TriggerRejects, Safety!TriggerRejects, Store!Stored,
         Safety!Stored, Store!UpdateCall, Safety!UpdateCall, Store!FinishAgentCall,
         Safety!FinishAgentCall, Store!CloseContact, Safety!CloseContact, Store!AllLegsEnded,
         Safety!AllLegsEnded
<1> QED
  BY <1>1, <1>2, <1>3, <1>4, <1>5, <1>6, <1>7, <1>8, <1>9, <1>10, <1>11, <1>12, <1>13,
     <1>14, <1>15, <1>16, <1>17
     DEF Store!CallStep, Safety!CallStep, Store!Resolvers, Safety!Resolvers

LEMMA SameAgentStep ==
  ASSUME NEW a
  PROVE  Store!AgentStep(a) <=> Safety!AgentStep(a)
<1>1. Store!FinishAgent(a) <=> Safety!FinishAgent(a)
  BY DEF Store!FinishAgent, Safety!FinishAgent, Store!Terminal, Safety!Terminal, Store!Exists,
         Safety!Exists, Store!Active, Safety!Active, Store!Interactive, Safety!Interactive,
         Store!HasInteractive, Safety!HasInteractive, Store!FinishAgentCall,
         Safety!FinishAgentCall
<1>2. \A registered : Store!RegisterAgent(a, registered) <=> Safety!RegisterAgent(a, registered)
  BY DEF Store!RegisterAgent, Safety!RegisterAgent, Store!Terminal, Safety!Terminal,
         Store!Exists, Safety!Exists, Store!Active, Safety!Active, Store!HasActive,
         Safety!HasActive
<1>3. \A paused : Store!SetAgentAvailability(a, paused) <=> Safety!SetAgentAvailability(a, paused)
  BY DEF Store!SetAgentAvailability, Safety!SetAgentAvailability
<1>4. Store!RetireAgent(a) <=> Safety!RetireAgent(a)
  BY DEF Store!RetireAgent, Safety!RetireAgent, Store!Terminal, Safety!Terminal, Store!Exists,
         Safety!Exists, Store!Active, Safety!Active, Store!Interactive, Safety!Interactive,
         Store!HasInteractive, Safety!HasInteractive
<1> QED
  BY <1>1, <1>2, <1>3, <1>4
     DEF Store!AgentStep, Safety!AgentStep, Store!Resolvers, Safety!Resolvers

LEMMA SameContactStep == Store!ContactStep <=> Safety!ContactStep
  BY DEF Store!ContactStep, Safety!ContactStep, Store!CompleteContact, Safety!CompleteContact,
         Store!ResetCampaignLeads, Safety!ResetCampaignLeads, Store!Active, Safety!Active,
         Store!Exists, Safety!Exists, Store!Terminal, Safety!Terminal

LEMMA SameNext == Store!Next <=> Safety!Next
  BY SameCallStep, SameAgentStep, SameContactStep DEF Store!Next, Safety!Next

LEMMA SameTypes == (Store!TypeOK <=> Safety!TypeOK) /\ (Store!TypeOK' <=> Safety!TypeOK')
  BY DEF Store!TypeOK, Safety!TypeOK, Store!SetupStates, Safety!SetupStates,
         Store!VoicemailActive, Safety!VoicemailActive, Store!Terminal, Safety!Terminal,
         Store!CallStates, Safety!CallStates, Store!Outcomes, Safety!Outcomes, Store!LegTypes,
         Safety!LegTypes, Store!CallRow, Safety!CallRow, Store!LegRow, Safety!LegRow,
         Store!AgentRow, Safety!AgentRow, Store!Exists, Safety!Exists

(* The types of the columns whatever the handlers do.                      *)
LEMMA SafetyAssumptions == Safety!NoneAssumption /\ Safety!InputAssumption
  BY NoneAssumption DEF Safety!NoneAssumption, Safety!InputAssumption, EndCauses,
     Safety!LegTypes, Safety!LegEvents

LEMMA TInvInit == Init => TInv
<1> SUFFICES ASSUME Init PROVE TInv
  OBVIOUS
<1>1. Store!TypeOK
  BY DEF Init, Store!TypeOK, Store!CallRow, Store!LegRow, Store!AgentRow, Store!Absent, Store!NewLegs,
         Store!CallStates, Store!Exists
<1>2. SwitchOK
  BY EmptySeq DEF Init, SwitchOK, ChannelRecord
<1>3. ProcessesOK
  BY BoundAssumption DEF Init, ProcessesOK, HandlerOK, OriginSteps, WatchdogSteps
<1> QED BY <1>1, <1>2, <1>3 DEF TInv

LEMMA RowsStepIsSafetys == RowsStep => [Safety!Next]_Safety!storeVars
  BY SameNext DEF RowsStep, Safety!storeVars, rows

LEMMA TInvNext == TInv /\ [Next]_vars => TInv'
<1> SUFFICES ASSUME TInv, [Next]_vars PROVE TInv'
  OBVIOUS
<1>1. Typed
  BY TypedNext
<1>2. Store!TypeOK'
  BY <1>1, SafetyAssumptions, SameTypes, RowsStepIsSafetys, Safety!TypeNext DEF TInv, Typed
<1> QED BY <1>1, <1>2 DEF TInv, Typed

LEMMA TInvHolds == Spec => []TInv
  BY TInvInit, TInvNext, PTL DEF Spec

(* Rows, channels, queue and processes keep their types, and no handler is *)
(* at work on an event that is not in the queue, whatever the faults.      *)
THEOREM LifecycleTypeCorrect == Spec => []TypeOK
<1>1. TInv => TypeOK
  BY DEF TInv, SwitchOK, ProcessesOK, HandlerOK, TypeOK, ChannelRecord, OriginSteps, WatchdogSteps
<1> QED BY <1>1, TInvHolds, PTL

(* Each step of a handler is one statement of CallStore, or leaves the     *)
(* rows alone: there is no other way to write them.                        *)
THEOREM HandlersOnlyIssueStatements == Spec => [][Store!Next]_rows
<1>1. TInv /\ [Next]_vars => [Store!Next]_rows
  BY TypedNext DEF Typed, RowsStep
<1> QED BY <1>1, TInvHolds, PTL DEF Spec

------------------------------------------------------------------------------
(* What is proved of the statements in any order holds of the handlers.    *)

(* Registered agents are as good a start for the rows as unregistered ones.*)
LEMMA StartIsSafe == Init => Safety!IInv
<1> SUFFICES ASSUME Init PROVE Safety!IInv
  OBVIOUS
<1>1. Safety!TypeOK
  BY TInvInit, SameTypes DEF TInv
<1>2. call = [c \in Calls |-> Store!Absent] /\ contact = [k \in Contacts |-> "new"]
  BY DEF Init
<1>3. Safety!RowsOK
  BY <1>2 DEF Safety!RowsOK, Safety!RowInv, Store!Absent, Safety!Terminal, Safety!Talking,
     Safety!VoicemailActive, Safety!Reached, Safety!NotReached
<1>4. \A c \in Calls : ~Safety!Active(call[c]) /\ ~Safety!Interactive(call[c])
  BY <1>2 DEF Store!Absent, Safety!Active, Safety!Interactive, Safety!Exists
<1> QED
  BY <1>1, <1>2, <1>3, <1>4
     DEF Safety!IInv, Safety!OneInteractiveCallPerAgent, Safety!OneActiveCallPerContact,
         Safety!InteractiveAgentIsBusy, Safety!LeadsInv, Safety!NoLeakedReservation,
         Safety!OpenLeadIsNotCallable

LEMMA RowsAreSafe == Spec => []Safety!IInv
<1>1. TInv /\ [Next]_vars /\ Safety!IInv => Safety!IInv'
  BY TypedNext, RowsStepIsSafetys, SafetyAssumptions, Safety!IInvNext DEF Typed
<1> QED BY <1>1, StartIsSafe, TInvHolds, PTL DEF Spec

(* The handlers, crashes and faults included, never leave an agent with    *)
(* two calls to talk on or a lead in two open calls, show a talking agent  *)
(* as free, or leak a lead's reservation.                                  *)
THEOREM HandlersKeepRowsSafe ==
  Spec => [](/\ Store!OneInteractiveCallPerAgent /\ Store!OneActiveCallPerContact
             /\ Store!InteractiveAgentIsBusy
             /\ Store!NoLeakedReservation /\ Store!OpenLeadIsNotCallable)
<1>1. Safety!IInv => /\ Store!OneInteractiveCallPerAgent /\ Store!OneActiveCallPerContact
                     /\ Store!InteractiveAgentIsBusy
                     /\ Store!NoLeakedReservation /\ Store!OpenLeadIsNotCallable
  BY DEF Safety!IInv, Safety!LeadsInv,
         Safety!OneInteractiveCallPerAgent, Store!OneInteractiveCallPerAgent,
         Safety!OneActiveCallPerContact, Store!OneActiveCallPerContact,
         Safety!InteractiveAgentIsBusy, Store!InteractiveAgentIsBusy,
         Safety!NoLeakedReservation, Store!NoLeakedReservation,
         Safety!OpenLeadIsNotCallable, Store!OpenLeadIsNotCallable,
         Safety!Interactive, Store!Interactive, Safety!Active, Store!Active,
         Safety!Exists, Store!Exists, Safety!Terminal, Store!Terminal
<1> QED BY <1>1, RowsAreSafe, PTL

(* ... nor does any of them, however late, change how a call ended, or     *)
(* settle its lead otherwise than by its outcome.                          *)
THEOREM HandlersKeepOutcomes == Spec => Store!FirstOutcomeWins /\ Store!LeadFollowsOutcome
<1> DEFINE EndsStand ==
             \A c \in Calls : call[c].ended =>
               \/ call'[c] = call[c]
               \/ ~call[c].locked /\ call'[c].locked /\ call'[c].ended
           LeadsSettle ==
             \A c \in Calls :
               LET k == call[c].contact
               IN Store!Active(call[c]) /\ call'[c].ended /\ k \in Contacts /\ contact[k] = "calling" =>
                    contact'[k] = IF call'[c].outcome \in {"answered", "customer_hung_up",
                                                           "voicemail_detected", "voicemail_dropped"}
                                  THEN "completed" ELSE "new"
<1>1. TInv /\ [Next]_vars /\ Safety!IInv => [EndsStand /\ LeadsSettle]_(Store!storeVars)
  <2> SUFFICES ASSUME TInv, [Next]_vars, Safety!IInv, ~UNCHANGED Store!storeVars
               PROVE  EndsStand /\ LeadsSettle
    OBVIOUS
  <2>1. Safety!Next
    BY TypedNext, RowsStepIsSafetys DEF Typed, Store!storeVars, Safety!storeVars
  <2>2. EndsStand BY <2>1, SafetyAssumptions, Safety!FirstOutcomeStep
  <2>3. LeadsSettle
    BY <2>1, SafetyAssumptions, Safety!LeadFollowsStep
       DEF Safety!Policy, Safety!Reached, Safety!Active, Store!Active, Safety!Exists, Store!Exists,
           Safety!Terminal, Store!Terminal
  <2> QED BY <2>2, <2>3
<1>2. Spec => [][EndsStand]_(Store!storeVars) /\ [][LeadsSettle]_(Store!storeVars)
  BY <1>1, RowsAreSafe, TInvHolds, PTL DEF Spec
<1> QED BY <1>2, PTL DEF Store!FirstOutcomeWins, Store!LeadFollowsOutcome

(* The handlers implement the ledger: what the database promises about     *)
(* calls is what their interleavings, crashes and retries add up to.       *)
THEOREM HandlersImplementLedger == Spec => Store!ImplementsLedger
<1>1. Init => Safety!Ledger!Init
  BY SafetyAssumptions, Safety!BlankEntry DEF Init, Safety!Ledger!Init, Safety!Absent, Store!Absent
<1>2. TInv /\ [Next]_vars /\ Safety!IInv /\ Safety!IInv' => [Safety!Ledger!Next]_(Safety!Entries)
  BY TypedNext, RowsStepIsSafetys, SafetyAssumptions, Safety!LedgerStep
     DEF Typed, Safety!storeVars, Safety!Entries
<1>3. \A row : Store!LedgerEntry(row) = Safety!LedgerEntry(row)
  BY DEF Store!LedgerEntry, Safety!LedgerEntry, Store!Exists, Safety!Exists,
         Store!Interactive, Safety!Interactive
<1>4. Safety!Ledger!Init => Store!Ledger!Init
  BY <1>3 DEF Store!Ledger!Init, Safety!Ledger!Init, Store!Ledger!Blank, Safety!Ledger!Blank
<1>5. [Safety!Ledger!Next]_(Safety!Entries)
        => [Store!Ledger!Next]_([c \in Calls |-> Store!LedgerEntry(call[c])])
  <2> DEFINE E == [c \in Calls |-> Store!LedgerEntry(call[c])]
             G == [c \in Calls |-> Safety!LedgerEntry(call[c])]
  <2>1. E = G /\ E' = G' /\ G = Safety!Entries /\ G' = Safety!Entries'
    BY <1>3 DEF Safety!Entries
  <2>2. Store!Outcomes = Safety!Outcomes
    BY DEF Store!Outcomes, Safety!Outcomes
  <2>3. ASSUME NEW c \in Calls
        PROVE  /\ Safety!Ledger!Start(c) => Store!Ledger!Start(c)
               /\ Safety!Ledger!Detach(c) => Store!Ledger!Detach(c)
               /\ Safety!Ledger!Close(c) => Store!Ledger!Close(c)
               /\ Safety!Ledger!Correct(c) => Store!Ledger!Correct(c)
    <3> HIDE DEF E, G
    <3> QED
      BY <2>1, <2>2
         DEF E, G, Store!Ledger!Start, Safety!Ledger!Start, Store!Ledger!Detach, Safety!Ledger!Detach,
             Store!Ledger!Close, Safety!Ledger!Close, Store!Ledger!Correct, Safety!Ledger!Correct,
             Store!Ledger!Open, Safety!Ledger!Open, Store!Ledger!OnCall, Safety!Ledger!OnCall,
             Store!Ledger!BeingCalled, Safety!Ledger!BeingCalled,
             Store!Ledger!Moved, Safety!Ledger!Moved, Store!Ledger!Blank, Safety!Ledger!Blank
  <2>4. Safety!Ledger!Next => Store!Ledger!Next
    BY <2>1, <2>3 DEF Store!Ledger!Next, Safety!Ledger!Next
  <2> QED BY <2>1, <2>4
<1> QED
  BY <1>1, <1>2, <1>4, <1>5, RowsAreSafe, TInvHolds, PTL
     DEF Spec, Store!ImplementsLedger, Store!Ledger!Spec

------------------------------------------------------------------------------
(* Who sets a release and who stores the agent's channel: the two columns  *)
(* a channel of FreeSWITCH is compared with.                               *)

KeepsReleased(c) == call'[c].released => call[c].released
KeepsUuid(c)     == leg'[c].agent.uuid => leg[c].agent.uuid
Quiet            == \A c \in Calls : KeepsReleased(c) /\ KeepsUuid(c)

LEMMA UpdateKeepsReleased ==
  ASSUME Store!TypeOK, NEW c \in Calls, NEW new, Store!UpdateCall(c, new),
         DOMAIN new = DOMAIN call[c], new.released = call[c].released
  PROVE  \A d \in Calls : KeepsReleased(d)
<1>1. call[c] \in Store!CallRow
  BY DEF Store!TypeOK
<1>2. Store!Stored(call[c], new).released = new.released
  BY <1>1 DEF Store!Stored, Store!CallRow
<1>3. call' = [call EXCEPT ![c] = Store!Stored(call[c], new)] /\ call \in [Calls -> Store!CallRow]
  BY DEF Store!UpdateCall, Store!TypeOK
<1> HIDE DEF KeepsReleased
<1>4. ASSUME NEW d \in Calls PROVE KeepsReleased(d)
  BY <1>2, <1>3 DEF KeepsReleased
<1> QED BY <1>4

LEMMA UpdatesKeepReleased ==
  ASSUME Store!TypeOK, NEW c \in Calls,
         \/ \E how : Store!FinalizeCall(c, how)
         \/ Store!EndDialerCall(c) \/ Store!MarkAgentRinging(c)
         \/ \E type, event : Store!PersistChannelEvent(c, type, event)
         \/ Store!ClaimVoicemailDrop(c) \/ Store!RevertVoicemailDrop(c)
         \/ Store!MarkPlaybackStarted(c) \/ Store!FinalizeCompletedPlayback(c)
         \/ \E b \in BOOLEAN : Store!FinalizeIncompletePlayback(c, b)
  PROVE  \A d \in Calls : KeepsReleased(d)
<1>0. call[c] \in Store!CallRow
  BY DEF Store!TypeOK
<1>1. call' = call => \A d \in Calls : KeepsReleased(d)
  BY DEF KeepsReleased
<1>2. ASSUME NEW how, Store!FinalizeCall(c, how) PROVE \A d \in Calls : KeepsReleased(d)
  BY <1>0, <1>1, <1>2, UpdateKeepsReleased DEF Store!CallRow, Store!FinalizeCall
<1>3. ASSUME NEW type, NEW event, Store!PersistChannelEvent(c, type, event)
      PROVE  \A d \in Calls : KeepsReleased(d)
  BY <1>0, <1>1, <1>3, UpdateKeepsReleased DEF Store!CallRow, Store!PersistChannelEvent
<1>4. ASSUME \/ Store!EndDialerCall(c) \/ Store!FinalizeCompletedPlayback(c)
             \/ \E b \in BOOLEAN : Store!FinalizeIncompletePlayback(c, b)
      PROVE  \A d \in Calls : KeepsReleased(d)
  BY <1>0, <1>4, UpdateKeepsReleased
     DEF Store!CallRow, Store!EndDialerCall, Store!FinalizeCompletedPlayback, Store!FinalizeIncompletePlayback
<1>5. ASSUME \/ Store!MarkAgentRinging(c) \/ Store!MarkPlaybackStarted(c)
             \/ Store!ClaimVoicemailDrop(c) \/ Store!RevertVoicemailDrop(c)
      PROVE  \A d \in Calls : KeepsReleased(d)
  BY <1>0, <1>5, UpdateKeepsReleased
     DEF Store!CallRow, Store!MarkAgentRinging, Store!MarkPlaybackStarted, Store!ClaimVoicemailDrop,
         Store!RevertVoicemailDrop
<1> QED BY <1>2, <1>3, <1>4, <1>5

LEMMA UpdatesKeepUuid ==
  ASSUME Store!TypeOK, NEW c \in Calls,
         \/ \E how : Store!FinalizeCall(c, how)
         \/ Store!EndDialerCall(c) \/ Store!StoreCustomerLeg(c) \/ Store!MarkAgentRinging(c)
         \/ \E event : Store!PersistChannelEvent(c, "customer", event)
         \/ Store!ClaimVoicemailDrop(c) \/ Store!RevertVoicemailDrop(c)
         \/ Store!MarkPlaybackStarted(c) \/ Store!MarkAgentReleased(c) \/ Store!EndAgentLeg(c)
         \/ Store!ReleaseAgent(c) \/ Store!FinalizeCompletedPlayback(c)
         \/ \E b \in BOOLEAN : Store!FinalizeIncompletePlayback(c, b)
  PROVE  \A d \in Calls : KeepsUuid(d)
<1>1. leg[c].agent.uuid \in BOOLEAN /\ leg \in [Calls -> [Store!LegTypes -> Store!LegRow]]
  BY DEF Store!TypeOK, Store!LegRow, Store!LegTypes
<1>2. leg' = leg => \A d \in Calls : KeepsUuid(d)
  BY DEF KeepsUuid
<1>3. leg' = [leg EXCEPT ![c] = Store!AllLegsEnded(leg[c])] => \A d \in Calls : KeepsUuid(d)
  BY <1>1 DEF KeepsUuid, Store!AllLegsEnded, Store!LegTypes, Store!LegRow
<1>4. leg' = [leg EXCEPT ![c].agent.ended = TRUE] => \A d \in Calls : KeepsUuid(d)
  BY <1>1 DEF KeepsUuid, Store!LegTypes, Store!LegRow
<1>5. ASSUME NEW event, Store!PersistChannelEvent(c, "customer", event)
      PROVE  \A d \in Calls : KeepsUuid(d)
  BY <1>1, <1>5 DEF KeepsUuid, Store!PersistChannelEvent, Store!LegTypes, Store!LegRow
<1>6. Store!StoreCustomerLeg(c) => \A d \in Calls : KeepsUuid(d)
  BY <1>1 DEF KeepsUuid, Store!StoreCustomerLeg, Store!LegTypes, Store!LegRow
<1> QED
  BY <1>2, <1>3, <1>4, <1>5, <1>6
     DEF Store!FinalizeCall, Store!EndDialerCall, Store!Cleanup, Store!MarkAgentRinging,
         Store!ClaimVoicemailDrop, Store!RevertVoicemailDrop, Store!MarkPlaybackStarted,
         Store!MarkAgentReleased, Store!EndAgentLeg, Store!ReleaseAgent,
         Store!FinalizeCompletedPlayback, Store!FinalizeIncompletePlayback

LEMMA InsertIsQuiet ==
  ASSUME Store!TypeOK, NEW c \in Calls, NEW a, NEW k, Store!CreateDialerCall(c, a, k)
  PROVE  Quiet
<1>1. call'[c].released = FALSE /\ \A d \in Calls \ {c} : call'[d] = call[d]
  BY DEF Store!CreateDialerCall, Store!TypeOK, Store!Absent
<1>2. leg'[c].agent.uuid = FALSE /\ \A d \in Calls \ {c} : leg'[d] = leg[d]
  BY DEF Store!CreateDialerCall, Store!TypeOK, Store!NewLegs, Store!LegTypes
<1> QED BY <1>1, <1>2 DEF Quiet, KeepsReleased, KeepsUuid

(* Every statement but the two that release an agent and the two that      *)
(* store a channel leaves both columns alone.                              *)
LEMMA QuietStatements ==
  ASSUME Store!TypeOK, NEW c \in Calls,
         \/ \E how : Store!FinalizeCall(c, how)
         \/ Store!EndDialerCall(c) \/ Store!StoreCustomerLeg(c) \/ Store!MarkAgentRinging(c)
         \/ \E event : Store!PersistChannelEvent(c, "customer", event)
         \/ Store!ClaimVoicemailDrop(c) \/ Store!RevertVoicemailDrop(c)
         \/ Store!MarkPlaybackStarted(c) \/ Store!EndAgentLeg(c) \/ Store!FinalizeCompletedPlayback(c)
         \/ \E b \in BOOLEAN : Store!FinalizeIncompletePlayback(c, b)
         \/ \E a : Store!FinishAgent(a)
         \/ UNCHANGED rows
  PROVE  Quiet
<1>1. UNCHANGED <<call, leg>> => Quiet
  BY DEF Quiet, KeepsReleased, KeepsUuid
<1>2. Store!StoreCustomerLeg(c) \/ Store!EndAgentLeg(c) => Quiet
  BY UpdatesKeepUuid DEF Quiet, KeepsReleased, Store!StoreCustomerLeg, Store!EndAgentLeg
<1> QED
  BY <1>1, <1>2, UpdatesKeepReleased, UpdatesKeepUuid DEF Quiet, rows, Store!FinishAgent

(* A release concerns one call, and so does a stored channel.              *)
LEMMA ReleaseTouchesOne ==
  ASSUME Store!TypeOK, NEW c \in Calls, Store!MarkAgentReleased(c) \/ Store!ReleaseAgent(c)
  PROVE  \A d \in Calls : KeepsUuid(d) /\ (d # c => KeepsReleased(d))
<1>1. \A d \in Calls \ {c} : call'[d] = call[d]
  BY DEF Store!TypeOK, Store!MarkAgentReleased, Store!ReleaseAgent, Store!UpdateCall
<1> QED BY <1>1, UpdatesKeepUuid DEF KeepsReleased

LEMMA StoredUuidTouchesOne ==
  ASSUME Store!TypeOK, NEW c \in Calls,
         Store!StoreAgentLeg(c) \/ \E event : Store!PersistChannelEvent(c, "agent", event)
  PROVE  \A d \in Calls : KeepsReleased(d) /\ (d # c => KeepsUuid(d))
<1>1. \A d \in Calls \ {c} : leg'[d] = leg[d]
  BY DEF Store!TypeOK, Store!StoreAgentLeg, Store!PersistChannelEvent
<1>2. Store!StoreAgentLeg(c) => \A d \in Calls : KeepsReleased(d)
  BY DEF Store!StoreAgentLeg, KeepsReleased
<1> QED BY <1>1, <1>2, UpdatesKeepReleased DEF KeepsUuid

------------------------------------------------------------------------------
(* A released agent is off the line.  A leg is dialed once, before its     *)
(* channel or an event can be known, so a kill that was confirmed is final.*)

LineSwitch ==
  /\ \A c \in Calls : Untouched(c) \/ Dialed(c)
  /\ \A i \in DOMAIN wire : Dialed(wire[i].call)

LineRows ==
  \A c \in Calls : (leg[c].agent.uuid => Dialed(c)) /\ (call[c].released => OffTheLine(c))

LineDrop ==
  \A r \in Requests : DropRuns(r) =>
    /\ drop[r].agentUuid => Dialed(drop[r].call)
    /\ drop[r].pc = "mark" => OffTheLine(drop[r].call)

LineListener == esl.pc = "release" => OffTheLine(Event.call)

LinePass ==
  rec # Idle =>
    /\ \A s \in rec.todo \cup rec.cur : s.agent => Dialed(s.call)
    /\ rec.pc = "release" => \A s \in rec.cur : OffTheLine(s.call)

LineInv == LineSwitch /\ LineRows /\ LineDrop /\ LineListener /\ LinePass

LEMMA LineInit == Init => LineInv
<1>1. Init => LineSwitch /\ LineRows
  BY DEF Init, LineSwitch, LineRows, Untouched, Store!Absent, Store!NewLegs, Store!LegTypes
<1>2. Init => LineDrop /\ LineListener /\ LinePass
  BY DEF Init, LineDrop, LineListener, LinePass, DropRuns, Idle
<1> QED BY <1>1, <1>2 DEF LineInv

(* What a step must leave of the line for all it does not work on itself.  *)
Calm ==
  /\ \A c \in Calls : (Dialed(c) => Dialed(c)') /\ (OffTheLine(c) => OffTheLine(c)')
  /\ LineSwitch'

LEMMA ProgressIsCalm ==
  ASSUME SwitchOK, LineSwitch, Progress, UNCHANGED origin
  PROVE  Calm
<1>1. \A c \in Calls : Dialed(c)' = Dialed(c) /\ (OffTheLine(c) => OffTheLine(c)')
  BY DEF Progress, Dialed, OffTheLine
<1>2. \A c \in Calls : Untouched(c)' \/ Dialed(c)'
  BY <1>1 DEF Progress, LineSwitch
<1>3. PICK events \in Seq(EventRecord) :
        (\A i \in DOMAIN events : ~Untouched(events[i].call)) /\ wire' = wire \o events
  BY DEF Progress, Follows
<1>4. ASSUME NEW i \in DOMAIN wire' PROVE Dialed(wire'[i].call)
  <2>1. /\ wire \in Seq(EventRecord) /\ Len(wire) \in Nat /\ Len(events) \in Nat
        /\ DOMAIN wire = 1 .. Len(wire) /\ DOMAIN events = 1 .. Len(events)
    BY LenProperties DEF SwitchOK
  <2>2. Len(wire') = Len(wire) + Len(events) /\ wire' \in Seq(EventRecord)
    BY <1>3, <2>1, ConcatProperties
  <2>3. i \in 1 .. (Len(wire) + Len(events))
    BY <2>2, LenProperties
  <2>4. CASE i <= Len(wire)
    <3>1. i \in DOMAIN wire /\ wire'[i] = wire[i]
      BY <1>3, <2>1, <2>3, <2>4, ConcatProperties
    <3> QED BY <3>1 DEF LineSwitch
  <2>5. CASE i > Len(wire)
    <3>1. i - Len(wire) \in DOMAIN events /\ wire'[i] = events[i - Len(wire)]
      BY <1>3, <2>1, <2>3, <2>5, ConcatProperties
    <3>2. events[i - Len(wire)] \in EventRecord
      BY <2>1, <3>1, ElementOfSeq
    <3> QED BY <1>3, <3>1, <3>2 DEF LineSwitch, EventRecord
  <2> QED BY <2>1, <2>3, <2>4, <2>5
<1>5. (\A i \in DOMAIN wire : Dialed(wire[i].call))'
  BY <1>4 DEF Dialed
<1> QED BY <1>1, <1>2, <1>5 DEF Calm, LineSwitch

LEMMA StaysIsCalm ==
  ASSUME SwitchOK, LineSwitch, UNCHANGED <<freeswitch, origin>>
  PROVE  Calm
  BY StaysIsProgress, ProgressIsCalm

LEMMA QuietRows == Calm /\ Quiet /\ LineRows => LineRows'
  BY DEF Calm, Quiet, LineRows, KeepsReleased, KeepsUuid

LEMMA CalmDrop == ProcessesOK /\ Calm /\ UNCHANGED drop /\ LineDrop => LineDrop'
<1> SUFFICES ASSUME ProcessesOK, Calm, UNCHANGED drop, LineDrop PROVE LineDrop'
  OBVIOUS
<1>1. \A r \in Requests : DropRuns(r) => drop[r].call \in Calls
  BY DropTypes DEF DropRecord
<1> QED BY <1>1 DEF Calm, LineDrop, DropRuns, Dialed, OffTheLine, Alive

LEMMA CalmPass == PassOK /\ Calm /\ UNCHANGED rec /\ LinePass => LinePass'
<1> SUFFICES ASSUME PassOK, Calm, UNCHANGED rec, LinePass PROVE LinePass'
  OBVIOUS
<1>1. rec # Idle => \A s \in rec.todo \cup rec.cur : s.call \in Calls
  BY DEF PassOK, PassRecord, SnapshotRecord
<1> QED BY <1>1 DEF Calm, LinePass, Dialed, OffTheLine, Alive

LEMMA CalmListener ==
  ASSUME TInv, Calm, UNCHANGED esl, wire # <<>> => Event' = Event, LineListener
  PROVE  LineListener'
<1>1. esl.pc = "release" => wire # <<>> /\ Event.call \in Calls
  BY EventType DEF TInv, ProcessesOK, HandlerOK, Idle, EventRecord
<1> QED BY <1>1 DEF Calm, LineListener, Dialed, OffTheLine, Alive

(* A step that calms the line and works on no release keeps the invariant. *)
LEMMA CalmStep ==
  ASSUME TInv, LineInv, Calm, LineRows', UNCHANGED <<drop, esl, rec>>,
         wire # <<>> => Event' = Event
  PROVE  LineInv'
  BY CalmDrop, CalmPass, CalmListener DEF TInv, ProcessesOK, PassOK, LineInv, Calm

LEMMA QueuedEvents == SwitchOK => \A i \in DOMAIN wire : wire[i].call \in Calls
<1> SUFFICES ASSUME SwitchOK, NEW i \in DOMAIN wire PROVE wire[i].call \in Calls
  OBVIOUS
<1>1. wire \in Seq(EventRecord) /\ i \in 1 .. Len(wire)
  BY LenProperties DEF SwitchOK
<1>2. wire[i] \in EventRecord
  BY <1>1, ElementOfSeq
<1> QED BY <1>2 DEF EventRecord

LEMMA MoreDialedIsCalm ==
  ASSUME SwitchOK, LineSwitch, UNCHANGED freeswitch, \A c \in Calls : Dialed(c) => Dialed(c)'
  PROVE  Calm
<1>1. \A c \in Calls : Untouched(c)' = Untouched(c) /\ (OffTheLine(c) => OffTheLine(c)')
  BY DEF freeswitch, Untouched, OffTheLine, Alive
<1>2. \A i \in DOMAIN wire : wire[i].call \in Calls
  BY QueuedEvents
<1>3. LineSwitch'
  BY <1>1, <1>2 DEF LineSwitch, freeswitch, Dialed
<1> QED BY <1>1, <1>3 DEF Calm

LEMMA LineChannelStep ==
  ASSUME TInv, LineInv, NEW c \in Calls, ChannelStep(c)
  PROVE  LineInv'
<1>1. Progress
  BY ChannelStepIsProgress DEF TInv
<1>2. Calm
  BY <1>1, ProgressIsCalm DEF TInv, LineInv, ChannelStep, Outside
<1>3. LineRows'
  BY <1>2, QuietRows, QuietStatements DEF TInv, LineInv, ChannelStep, Outside
<1> QED BY <1>1, <1>2, <1>3, CalmStep, ProgressKeepsHead DEF TInv, ChannelStep, Outside

LEMMA LineStartCall ==
  ASSUME TInv, LineInv, NEW c \in Calls, NEW a \in Agents, NEW k \in Contacts, StartCall(c, a, k)
  PROVE  LineInv'
<1>1. \A d \in Calls : Dialed(d) => Dialed(d)'
  BY DEF TInv, ProcessesOK, StartCall, Dialed
<1>2. Calm
  BY <1>1, MoreDialedIsCalm DEF TInv, LineInv, StartCall
<1>3. LineRows'
  BY <1>2, QuietRows, InsertIsQuiet DEF TInv, LineInv, StartCall
<1> QED BY <1>2, <1>3, CalmStep DEF StartCall, freeswitch, Event

LEMMA LineOriginStep ==
  ASSUME TInv, LineInv, NEW c \in Calls, OriginStep(c)
  PROVE  LineInv'
<1>1. \A d \in Calls : Dialed(d) => Dialed(d)'
  BY DEF TInv, ProcessesOK, OriginStep, Originate, StoreOriginate, StatementFails, Dialed
<1>2. ASSUME Dial(c), origin[c] = "ask", Dialed(c)' PROVE Calm
  <2>1. /\ \A d \in Calls \ {c} : channel'[d] = channel[d]
        /\ ~Dialed(c) /\ wire' = wire
    BY <1>2 DEF Dial, TInv, SwitchOK, Dialed
  <2>2. \A d \in Calls : OffTheLine(d) => OffTheLine(d)'
    BY <1>1, <2>1 DEF OffTheLine, Alive
  <2>3. \A d \in Calls : Untouched(d)' \/ Dialed(d)'
    BY <1>1, <1>2, <2>1 DEF Untouched, LineInv, LineSwitch
  <2>4. \A i \in DOMAIN wire : wire[i].call \in Calls
    BY QueuedEvents DEF TInv
  <2>5. (\A i \in DOMAIN wire : Dialed(wire[i].call))'
    BY <1>1, <2>1, <2>4 DEF LineInv, LineSwitch, Dialed
  <2> QED BY <1>1, <2>2, <2>3, <2>5 DEF Calm, LineSwitch
<1>3. Calm
  <2>1. Originate(c) => origin[c] = "ask" /\ Dialed(c)'
    BY DEF TInv, ProcessesOK, Originate, Dialed
  <2> QED
    BY <1>1, <1>2, <2>1, MoreDialedIsCalm
       DEF TInv, LineInv, OriginStep, Originate, StoreOriginate, StatementFails
<1>4. LineRows'
  <2>1. ASSUME Store!StoreAgentLeg(c), origin[c] = "agent_leg" PROVE LineRows'
    <3>1. Dialed(c)'
      BY <1>1, <2>1 DEF Dialed
    <3> QED BY <1>3, <2>1, <3>1, StoredUuidTouchesOne
            DEF TInv, LineInv, Calm, LineRows, KeepsReleased, KeepsUuid
  <2>2. ASSUME \/ Store!StoreCustomerLeg(c) \/ MarkRinging(c) \/ UNCHANGED rows
               \/ Store!FinalizeCall(c, "failure")
        PROVE  LineRows'
    BY <1>3, <2>2, QuietStatements, QuietRows DEF TInv, LineInv, MarkRinging
  <2> QED BY <2>1, <2>2 DEF OriginStep, Originate, StatementFails, StoreOriginate
<1>5. wire' = wire
  BY DEF OriginStep, Originate, StoreOriginate, StatementFails, Dial, freeswitch
<1> QED BY <1>3, <1>4, <1>5, CalmStep DEF OriginStep, Event

LEMMA LineOtherHandlers ==
  ASSUME TInv, LineInv, NEW c \in Calls, WatchdogStep(c) \/ Age(c) \/ EndCall(c)
  PROVE  LineInv'
<1>1. UNCHANGED <<freeswitch, origin, drop, esl, rec>>
  BY DEF WatchdogStep, Age, EndCall
<1>2. Calm
  BY <1>1, StaysIsCalm DEF TInv, LineInv
<1>3. Quiet
  BY QuietStatements DEF TInv, WatchdogStep, WatchdogReads, WatchdogAsks, Age, EndCall
<1> QED BY <1>1, <1>2, <1>3, QuietRows, CalmStep DEF LineInv, freeswitch, Event

LEMMA LineEnderStep ==
  ASSUME TInv, LineInv, NEW c \in Calls, EnderStep(c)
  PROVE  LineInv'
<1>1. Progress
  BY EnderStepIsProgress DEF TInv
<1>2. Calm
  BY <1>1, ProgressIsCalm DEF TInv, LineInv, EnderStep
<1>3. LineRows'
  BY <1>2, QuietRows, QuietStatements DEF TInv, LineInv, EnderStep
<1> QED BY <1>1, <1>2, <1>3, CalmStep, ProgressKeepsHead DEF TInv, EnderStep

LEMMA LineRequestDrop ==
  ASSUME TInv, LineInv, NEW c \in Calls, NEW r \in Requests, RequestDrop(r, c)
  PROVE  LineInv'
<1>1. Calm /\ wire' = wire
  BY StaysIsCalm DEF TInv, LineInv, RequestDrop, freeswitch
<1>2. LineRows'
  BY <1>1, QuietStatements, QuietRows DEF TInv, LineInv, RequestDrop
<1>3. LineDrop'
  <2>1. leg[c].agent.uuid => Dialed(c)'
    BY <1>1 DEF LineInv, LineRows, Calm
  <2>2. \A q \in Requests \ {r} : drop'[q] = drop[q]
    BY DEF TInv, ProcessesOK, RequestDrop
  <2>3. drop'[r] = [pc |-> "transfer", call |-> c, agentUuid |-> leg[c].agent.uuid]
    BY DEF TInv, ProcessesOK, RequestDrop
  <2>4. \A q \in Requests : DropRuns(q) => drop[q].call \in Calls
    BY DropTypes DEF TInv, DropRecord
  <2> QED BY <1>1, <2>1, <2>2, <2>3, <2>4
          DEF LineInv, LineDrop, DropRuns, Calm, Dialed, OffTheLine, Alive
<1> QED BY <1>1, <1>2, <1>3, CalmPass, CalmListener
        DEF TInv, ProcessesOK, PassOK, LineInv, Calm, RequestDrop, Event

LEMMA DropFrame ==
  ASSUME TInv, LineDrop, Calm, NEW r \in Requests, DropRuns(r), NEW c \in Calls, c = drop[r].call,
         \/ DropEnds(r)
         \/ \E pc : drop' = [drop EXCEPT ![r].pc = pc] /\ (pc = "mark" => OffTheLine(c)')
  PROVE  LineDrop'
<1>1. drop \in [Requests -> {Idle, Done} \cup DropRecord] /\ drop[r] \in DropRecord
  BY DropTypes DEF TInv, ProcessesOK
<1>2. \A q \in Requests \ {r} : drop'[q] = drop[q]
  BY <1>1 DEF DropEnds
<1>3. \A q \in Requests : DropRuns(q) => drop[q].call \in Calls
  BY DropTypes DEF TInv, DropRecord
<1>4. \A q \in Requests \ {r} : DropRuns(q)' =>
        /\ drop'[q].agentUuid => Dialed(drop[q].call)'
        /\ drop'[q].pc = "mark" => OffTheLine(drop[q].call)'
  BY <1>2, <1>3 DEF Calm, LineDrop, DropRuns, Dialed, OffTheLine, Alive
<1>5. DropRuns(r)' => /\ drop'[r].agentUuid => Dialed(c)'
                      /\ drop'[r].pc = "mark" => OffTheLine(c)'
                      /\ drop'[r].call = c
  <2>1. drop[r].agentUuid => Dialed(c)'
    BY DEF Calm, LineDrop
  <2>2. DropEnds(r) => ~DropRuns(r)'
    BY <1>1 DEF DropEnds, DropRuns
  <2>3. ASSUME NEW pc, drop' = [drop EXCEPT ![r].pc = pc]
        PROVE  drop'[r].call = c /\ drop'[r].agentUuid = drop[r].agentUuid /\ drop'[r].pc = pc
    BY <1>1, <2>3 DEF DropRecord
  <2> QED BY <2>1, <2>2, <2>3
<1> QED BY <1>2, <1>4, <1>5 DEF LineDrop, Dialed, OffTheLine, Alive

LEMMA TransferIsCalm ==
  ASSUME SwitchOK, LineSwitch, NEW c \in Calls, Transfer(c), UNCHANGED origin
  PROVE  Calm
<1>1. /\ \A d \in Calls : channel'[d].agent = channel[d].agent
      /\ \A d \in Calls \ {c} : channel'[d] = channel[d]
  BY DEF Transfer, SwitchOK, ChannelRecord
<1>2. Dialed(c)
  BY DEF Transfer, Alive, LineSwitch, Untouched
<1>3. \A d \in Calls : Untouched(d)' \/ Dialed(d)'
  BY <1>1, <1>2 DEF LineSwitch, Untouched, Dialed
<1>4. LineSwitch'
  BY <1>3, QueuedEvents DEF LineSwitch, Transfer, Dialed
<1> QED BY <1>1, <1>4 DEF Calm, Dialed, OffTheLine, Alive

LEMMA LineDropStep ==
  ASSUME TInv, LineInv, NEW r \in Requests, DropStep(r)
  PROVE  LineInv'
<1>1. DropRuns(r) /\ drop[r] \in DropRecord
  BY DropTypes DEF TInv, DropStep
<1>2. PICK c \in Calls : c = drop[r].call
  BY <1>1 DEF DropRecord
<1>3. SwitchOK /\ LineSwitch /\ UNCHANGED origin
  BY DEF TInv, LineInv, DropStep
<1>4. ASSUME DropTransfers(r, c), UNCHANGED rows
      PROVE  Calm /\ LineRows' /\ LineDrop' /\ wire' = wire
  <2>1. Calm /\ wire' = wire
    BY <1>3, <1>4, TransferIsCalm, StaysIsCalm DEF DropTransfers, Transfer, freeswitch
  <2>2. LineRows'
    BY <1>4, <2>1, QuietStatements, QuietRows DEF TInv, LineInv
  <2>3. LineDrop'
    BY SMTT(30), <1>1, <1>2, <1>4, <2>1, DropFrame DEF LineInv, DropTransfers, DropTo
  <2> QED BY <2>1, <2>2, <2>3
<1>5. ASSUME DropKills(r, c), UNCHANGED rows
      PROVE  Calm /\ LineRows' /\ LineDrop' /\ (wire # <<>> => Event' = Event)
  <2>1. Progress
    BY <1>3, <1>5, KillIsProgress, KillUnansweredIsProgress, StaysIsProgress DEF DropKills
  <2>2. Calm
    BY <1>3, <2>1, ProgressIsCalm
  <2>3. LineRows'
    BY <1>5, <2>2, QuietStatements, QuietRows DEF TInv, LineInv
  <2>4. drop[r].agentUuid /\ Kill(c, "agent") => OffTheLine(c)'
    <3>1. drop[r].agentUuid => Dialed(c)'
      BY <1>1, <1>2, <2>2 DEF LineInv, LineDrop, Calm
    <3> QED BY <1>3, <3>1, KillIsProgress DEF OffTheLine
  <2>5. LineDrop'
    BY <1>1, <1>2, <1>5, <2>2, <2>4, DropFrame DEF LineInv, DropKills, DropTo
  <2> QED BY <1>3, <2>1, <2>2, <2>3, <2>5, ProgressKeepsHead
<1>6. ASSUME DropStatement(r, c), UNCHANGED freeswitch
      PROVE  Calm /\ LineRows' /\ LineDrop' /\ wire' = wire
  <2>1. Calm /\ wire' = wire
    BY <1>3, <1>6, StaysIsCalm DEF freeswitch
  <2>2. LineDrop'
    BY SMTT(30), <1>1, <1>2, <1>6, <2>1, DropFrame
       DEF LineInv, DropStatement, DropReverts, DropMarks, DropTo
  <2>3. ASSUME DropMarks(r, c) PROVE LineRows'
    <3>1. OffTheLine(c)'
      BY <1>1, <1>2, <2>1, <2>3 DEF LineInv, LineDrop, DropMarks, DropAt, Calm
    <3>2. Store!MarkAgentReleased(c) => LineRows'
      BY <2>1, <3>1, ReleaseTouchesOne DEF TInv, LineInv, LineRows, Calm, KeepsReleased, KeepsUuid
    <3> QED BY <2>1, <2>3, <3>2, QuietStatements, QuietRows DEF TInv, LineInv, DropMarks
  <2>4. LineRows'
    BY <1>6, <2>1, <2>3, QuietStatements, QuietRows DEF TInv, LineInv, DropStatement, DropReverts
  <2> QED BY <2>1, <2>2, <2>4
<1>7. Calm /\ LineRows' /\ LineDrop' /\ (wire # <<>> => Event' = Event)
  BY <1>2, <1>4, <1>5, <1>6 DEF DropStep, Event
<1> QED BY <1>7, CalmPass, CalmListener DEF TInv, ProcessesOK, PassOK, LineInv, Calm, DropStep

LEMMA HeadIsDialed == TInv /\ LineSwitch /\ wire # <<>> => Event.call \in Calls /\ Dialed(Event.call)
<1> SUFFICES ASSUME TInv, LineSwitch, wire # <<>> PROVE Event.call \in Calls /\ Dialed(Event.call)
  OBVIOUS
<1>1. 1 \in DOMAIN wire /\ Event = wire[1]
  BY HeadTailProperties, LenProperties, EmptySeq DEF TInv, SwitchOK, Event
<1> QED BY <1>1, EventType DEF LineSwitch, EventRecord

LEMMA ConsumeIsCalm ==
  ASSUME TInv, LineSwitch, wire # <<>>, Consume, UNCHANGED origin
  PROVE  Calm
<1>1. \A c \in Calls : /\ Untouched(c)' = Untouched(c) /\ Dialed(c)' = Dialed(c)
                       /\ OffTheLine(c)' = OffTheLine(c)
  BY DEF Consume, Untouched, Dialed, OffTheLine, Alive
<1>2. wire' \in Seq(EventRecord) /\ \A i \in DOMAIN wire' : i + 1 \in DOMAIN wire /\ wire'[i] = wire[i + 1]
  BY HeadTailProperties, LenProperties DEF TInv, SwitchOK, Consume
<1>3. (\A i \in DOMAIN wire : Dialed(wire[i].call))'
  BY <1>2 DEF LineSwitch, Dialed
<1> QED BY <1>1, <1>3 DEF Calm, LineSwitch

LEMMA LineListenerStep ==
  ASSUME TInv, LineInv, ListenerStep
  PROVE  LineInv'
<1>0. wire # <<>> /\ SwitchOK /\ LineSwitch /\ UNCHANGED <<origin, drop, rec>>
  BY DEF TInv, LineInv, ListenerStep
<1>1. PICK c \in Calls : c = Event.call /\ Dialed(c)
  BY <1>0, HeadIsDialed
<1>2. Consume => Calm /\ LineListener'
  BY <1>0, ConsumeIsCalm DEF Consume, LineListener, Idle
<1>3. ASSUME UNCHANGED freeswitch, esl'.pc # "release" PROVE Calm /\ LineListener'
  BY <1>0, <1>3, StaysIsCalm DEF LineListener
<1>4. Calm /\ LineListener'
  <2>1. ASSUME ListenerReads PROVE Calm /\ LineListener'
    BY <1>2, <1>3, <2>1 DEF ListenerReads, EslTo, FateOfHangup
  <2>2. ASSUME esl.pc = "kill", ListenerKillsAgent(c) PROVE Calm /\ LineListener'
    <3>1. Consume \/ Progress
      BY <1>0, <2>2, KillIsProgress, StaysIsProgress DEF ListenerKillsAgent
    <3>2. Calm
      BY <1>0, <1>2, <3>1, ProgressIsCalm
    <3>3. esl \in HandlerRecord
      BY <2>2 DEF TInv, ProcessesOK, HandlerOK, Idle
    <3>4. ASSUME Kill(c, "agent") PROVE LineListener'
      <4>1. Event' = Event
        BY <1>0, <3>4, KillIsProgress, ProgressKeepsHead
      <4>2. Dialed(c)' /\ ~Alive(c, "agent")'
        BY <1>0, <1>1, <3>2, <3>4, KillIsProgress DEF Calm
      <4> QED BY <1>1, <4>1, <4>2 DEF LineListener, OffTheLine, Dialed, Alive
    <3>5. ASSUME esl' = [esl EXCEPT !.pc = "consume"] PROVE LineListener'
      BY <3>3, <3>5 DEF HandlerRecord, LineListener
    <3> QED BY <1>2, <2>2, <3>2, <3>4, <3>5 DEF ListenerKillsAgent
  <2>3. ASSUME esl.pc = "mark", EslTo([esl EXCEPT !.pc = "kill"]) PROVE Calm /\ LineListener'
    <3>1. esl \in HandlerRecord
      BY <2>3 DEF TInv, ProcessesOK, HandlerOK, Idle
    <3>2. esl'.pc = "kill"
      BY <2>3, <3>1 DEF EslTo, HandlerRecord
    <3> QED BY <1>3, <2>3, <3>2 DEF EslTo
  <2>4. ASSUME Fault("statement"), esl' = Idle, UNCHANGED freeswitch PROVE Calm /\ LineListener'
    BY <1>3, <2>4 DEF Idle
  <2> QED BY <1>1, <1>2, <2>1, <2>2, <2>3, <2>4 DEF ListenerStep, PersistChannel, PersistJobFailure
<1>5. Quiet => LineRows'
  BY <1>4, QuietRows DEF LineInv
<1>6. UNCHANGED rows => LineRows'
  BY <1>1, <1>5, QuietStatements DEF TInv
<1>7. LineRows'
  <2>2. ASSUME NEW kind, NEW event, PersistChannel(kind, "agent", event) PROVE LineRows'
    <3>1. Store!PersistChannelEvent(c, "agent", event) /\ Dialed(c)'
      BY <1>1, <1>4, <2>2 DEF PersistChannel, Calm
    <3> QED BY <1>4, <3>1, StoredUuidTouchesOne
            DEF TInv, LineInv, Calm, LineRows, KeepsReleased, KeepsUuid
  <2>3. ASSUME NEW kind, NEW event, PersistChannel(kind, "customer", event) PROVE LineRows'
    BY <1>1, <1>5, <2>3, QuietStatements DEF PersistChannel, TInv
  <2>4. ASSUME esl.pc = "release", ReleaseAgent(c) PROVE LineRows'
    <3>1. OffTheLine(c)'
      BY <1>1, <1>4, <2>4 DEF LineInv, LineListener, Calm
    <3>2. Store!ReleaseAgent(c) => LineRows'
      BY <1>4, <3>1, ReleaseTouchesOne DEF TInv, LineInv, LineRows, Calm, KeepsReleased, KeepsUuid
    <3> QED BY <1>6, <2>4, <3>2 DEF ReleaseAgent
  <2>5. ASSUME \/ PersistJobFailure \/ CompletePlayback(c) \/ MarkStarted(c)
               \/ \E b \in BOOLEAN : FailPlayback(c, b)
               \/ Store!FinalizeCall(c, Event.cause)
        PROVE  LineRows'
    BY <1>1, <1>5, <1>6, <2>5, QuietStatements
       DEF TInv, PersistJobFailure, CompletePlayback, MarkStarted, FailPlayback
  <2>6. esl.pc = "incomplete" => esl.released \in BOOLEAN
    BY DEF TInv, ProcessesOK, HandlerOK, HandlerRecord, Idle
  <2>7. ListenerReads => LineRows'
    BY <1>6 DEF ListenerReads
  <2> QED BY <1>1, <1>6, <2>2, <2>3, <2>4, <2>5, <2>6, <2>7 DEF ListenerStep
<1> QED BY <1>0, <1>4, <1>7, CalmDrop, CalmPass DEF TInv, ProcessesOK, PassOK, LineInv, Calm

LEMMA PassFrame ==
  ASSUME TInv, LinePass, Calm, rec.pc # "idle", NEW s \in rec.todo \cup rec.cur,
         NEW pc \in PassSteps, TurnTo(pc, s), pc = "release" => OffTheLine(s.call)'
  PROVE  LinePass'
<1>1. rec \in PassRecord /\ rec # Idle
  BY DEF TInv, ProcessesOK, Idle
<1>2. rec' = [pc |-> pc, cur |-> IF pc = "probe" THEN {} ELSE {s}, todo |-> rec.todo \ {s}]
  BY DEF TurnTo
<1>3. \A q \in rec.todo \cup rec.cur : q.call \in Calls /\ (q.agent => Dialed(q.call)')
  BY <1>1 DEF PassRecord, SnapshotRecord, LinePass, Calm
<1>4. rec'.todo \cup rec'.cur \subseteq rec.todo \cup rec.cur /\ rec'.cur \subseteq {s} /\ rec'.pc = pc
  BY <1>2
<1> QED BY <1>3, <1>4 DEF LinePass, OffTheLine, Dialed, Alive

LEMMA LineReconcileCall ==
  ASSUME TInv, LineInv, Calm, rec.pc # "idle", NEW s \in rec.todo \cup rec.cur, ReconcileCall(s)
  PROVE  LinePass' /\ LineRows'
<1>0. rec \in PassRecord /\ s \in SnapshotRecord /\ s.call \in Calls /\ SwitchOK
  BY DEF TInv, ProcessesOK, Idle, PassRecord, SnapshotRecord
<1>1. UNCHANGED rows => LineRows'
  BY <1>0, QuietRows, QuietStatements DEF TInv, LineInv
<1>2. ASSUME NEW pc \in PassSteps \ {"release"}, TurnTo(pc, s) PROVE LinePass'
  BY <1>2, PassFrame DEF LineInv
<1>3. ASSUME ReconcileProbes(s) PROVE LinePass' /\ LineRows'
  <2>1. \A exists : Decision(s, exists) \subseteq PassSteps \ {"release"}
    BY DEF Decision, PassSteps
  <2>2. \E pc \in PassSteps \ {"release"} : TurnTo(pc, s)
    BY <1>3, <2>1 DEF ReconcileProbes, PassSteps
  <2> QED BY <1>1, <1>2, <1>3, <2>2 DEF ReconcileProbes
<1>4. ASSUME NEW pc, NEW t, NEW answered \in PassSteps \ {"release"},
             NEW unanswered \in PassSteps \ {"release"},
             ReconcileKills(pc, s, t, answered, unanswered) \/ ReconcileSkipsKill(pc, s, t, answered)
      PROVE  LinePass' /\ LineRows'
  BY <1>1, <1>2, <1>4 DEF ReconcileKills, ReconcileSkipsKill
<1>5. ASSUME ReconcileKills("kill", s, "agent", "release", "probe") PROVE LinePass' /\ LineRows'
  <2>1. ASSUME s.agent, Kill(s.call, "agent") PROVE OffTheLine(s.call)'
    <3>1. Dialed(s.call)'
      BY <1>0, <2>1 DEF LineInv, LinePass, Calm, Idle
    <3> QED BY <1>0, <2>1, <3>1, KillIsProgress DEF OffTheLine
  <2>2. LinePass'
    BY <1>2, <1>5, <2>1, PassFrame DEF LineInv, ReconcileKills, PassSteps
  <2> QED BY <1>1, <1>5, <2>2 DEF ReconcileKills
<1>6. ASSUME ReconcileAborts(s) PROVE LinePass' /\ LineRows'
  <2>1. ASSUME TurnTo("probe", s), UNCHANGED rows PROVE LinePass' /\ LineRows'
    BY <1>1, <1>2, <2>1 DEF PassSteps
  <2>2. ASSUME \/ ReconcileKills("abort", s, "customer", "abort_agent", "probe")
               \/ ReconcileKills("abort_agent", s, "agent", "timed_out", "timed_out")
               \/ ReconcileSkipsKill("abort_agent", s, "agent", "timed_out")
        PROVE  LinePass' /\ LineRows'
    BY <1>4, <2>2 DEF PassSteps
  <2> QED BY <1>6, <2>1, <2>2 DEF ReconcileAborts
<1>7. ASSUME ReconcileStores("release", s, ReleaseAgent(s.call)) PROVE LinePass' /\ LineRows'
  <2>1. OffTheLine(s.call)'
    BY <1>0, <1>7 DEF LineInv, LinePass, Calm, ReconcileStores, Idle
  <2>2. Store!ReleaseAgent(s.call) => LineRows'
    BY <1>0, <2>1, ReleaseTouchesOne DEF TInv, LineInv, LineRows, Calm, KeepsReleased, KeepsUuid
  <2> QED BY <1>1, <1>2, <1>7, <2>2 DEF ReconcileStores, ReleaseAgent, PassSteps
<1>8. ASSUME \/ \E b \in BOOLEAN : \E pc : ReconcileStores(pc, s, FailPlayback(s.call, b))
             \/ ReconcileStores("missing", s, Store!FinalizeCall(s.call, "missing"))
      PROVE  LinePass' /\ LineRows'
  <2>1. LinePass'
    BY <1>2, <1>8 DEF ReconcileStores, PassSteps
  <2>2. Quiet
    BY <1>0, <1>8, QuietStatements DEF TInv, ReconcileStores, FailPlayback
  <2> QED BY <2>1, <2>2, QuietRows DEF LineInv
<1>9. (s.state = "agent_released") \in BOOLEAN
  OBVIOUS
<1>10. ASSUME \/ ReconcileSkipsKill("kill", s, "agent", "probe")
              \/ ReconcileKills("orphan", s, "agent", "missing", "missing")
              \/ ReconcileSkipsKill("orphan", s, "agent", "missing")
       PROVE  LinePass' /\ LineRows'
  BY <1>4, <1>10 DEF PassSteps
<1> QED BY <1>3, <1>5, <1>6, <1>7, <1>8, <1>9, <1>10 DEF ReconcileCall

LEMMA LineReconcileStep ==
  ASSUME TInv, LineInv, ReconcileStep
  PROVE  LineInv'
<1>1. Progress
  BY ReconciledStep DEF Reconciled
<1>2. Calm
  BY <1>1, ProgressIsCalm DEF TInv, LineInv, ReconcileStep
<1>3. \A c \in Calls : Snapshot(c).call = c /\ (Snapshot(c).agent => Dialed(c)')
  BY <1>2 DEF Snapshot, LineInv, LineRows, Calm
<1>4. ASSUME ReconcileStarts \/ RepairStarts \/ RepairFails PROVE LinePass' /\ LineRows'
  <2>1. \/ rec' = Idle
        \/ \E C \in SUBSET Calls, pc \in {"probe", "repair"} :
             rec' = [pc |-> pc, cur |-> {}, todo |-> {Snapshot(c) : c \in C}]
    BY <1>4 DEF ReconcileStarts, RepairStarts, RepairFails, Due, Candidates
  <2>2. LinePass'
    BY <1>3, <2>1 DEF LinePass, Dialed
  <2>3. UNCHANGED rows
    BY <1>4 DEF ReconcileStarts, RepairStarts, RepairFails
  <2>4. LineRows'
    BY <1>2, <2>3, QuietRows DEF LineInv, Quiet, KeepsReleased, KeepsUuid, rows
  <2> QED BY <2>2, <2>4
<1>5. ASSUME rec.pc \notin {"idle", "repair"}, NEW s \in rec.todo \cup rec.cur, ReconcileCall(s)
      PROVE  LinePass' /\ LineRows'
  BY <1>2, <1>5, LineReconcileCall
<1>6. ASSUME rec.pc = "repair", NEW s \in rec.todo, RepairCall(s) PROVE LinePass' /\ LineRows'
  <2>1. rec \in PassRecord /\ rec # Idle /\ s.call \in Calls
    BY <1>6 DEF TInv, ProcessesOK, Idle, PassRecord, SnapshotRecord
  <2>2. LineRows'
    BY <1>2, <1>6, <2>1, QuietStatements, QuietRows DEF TInv, LineInv, RepairCall
  <2>3. \A q \in rec.todo \cup rec.cur : q.call \in Calls /\ (q.agent => Dialed(q.call)')
    BY <1>2, <2>1 DEF PassRecord, SnapshotRecord, LineInv, LinePass, Calm
  <2>4. rec' = Idle \/ (rec'.pc = "repair" /\ rec'.cur = rec.cur /\ rec'.todo \subseteq rec.todo)
    BY <1>6, <2>1 DEF RepairCall, PassRecord
  <2>5. LinePass'
    BY <2>3, <2>4 DEF LinePass, Dialed
  <2> QED BY <2>2, <2>5
<1>7. LinePass' /\ LineRows'
  BY <1>4, <1>5, <1>6 DEF ReconcileStep
<1> QED BY <1>1, <1>2, <1>7, CalmDrop, CalmListener, ProgressKeepsHead
        DEF TInv, ProcessesOK, LineInv, Calm, ReconcileStep

LEMMA LineConnection ==
  ASSUME TInv, LineInv, Disconnect \/ Reconnect \/ Crash
  PROVE  LineInv'
<1>1. UNCHANGED rows => Quiet
  BY DEF Quiet, KeepsReleased, KeepsUuid, rows
<1>2. ASSUME Disconnect \/ Reconnect PROVE LineInv'
  <2>1. UNCHANGED <<rows, freeswitch, origin, drop, esl, rec>>
    BY <1>2 DEF Disconnect, Reconnect
  <2>2. Calm
    BY <2>1, StaysIsCalm DEF TInv, LineInv
  <2> QED BY <1>1, <2>1, <2>2, QuietRows, CalmStep DEF LineInv, freeswitch, Event
<1>3. ASSUME Crash PROVE LineInv'
  <2>1. \A c \in Calls : Dialed(c) => Dialed(c)'
    BY <1>3 DEF Crash, Dialed
  <2>2. wire' = <<>> /\ UNCHANGED <<rows, channel>>
    BY <1>3 DEF Crash
  <2>3. Calm
    BY <2>1, <2>2, EmptySeq DEF LineInv, LineSwitch, Calm, Untouched, OffTheLine, Alive
  <2>4. LineRows'
    BY <1>1, <2>2, <2>3, QuietRows DEF LineInv
  <2>5. LineDrop' /\ LineListener' /\ LinePass'
    BY <1>3 DEF Crash, LineDrop, LineListener, LinePass, DropRuns, Idle
  <2> QED BY <2>3, <2>4, <2>5 DEF LineInv, Calm
<1> QED BY <1>2, <1>3

LEMMA LineNext == TInv /\ LineInv /\ [Next]_vars => LineInv'
<1> SUFFICES ASSUME TInv, LineInv, [Next]_vars PROVE LineInv'
  OBVIOUS
<1>1. ASSUME UNCHANGED vars PROVE LineInv'
  <2>1. Calm
    BY <1>1, StaysIsCalm DEF TInv, LineInv, vars
  <2>2. Quiet
    BY <1>1 DEF Quiet, KeepsReleased, KeepsUuid, vars, rows
  <2> QED BY <1>1, <2>1, <2>2, QuietRows, CalmStep DEF LineInv, vars, freeswitch, Event
<1> QED
  BY <1>1, LineChannelStep, LineOriginStep, LineEnderStep, LineOtherHandlers, LineStartCall,
     LineDropStep, LineRequestDrop, LineListenerStep, LineReconcileStep, LineConnection
     DEF Next, Handlers

(* A released agent has no channel on the call, whichever of the drop      *)
(* request, the playback event and reconciliation released them and        *)
(* whatever was lost, repeated or interrupted on the way.                  *)
THEOREM ReleasedMeansOffTheLine == Spec => []ReleasedAgentIsOffTheLine
<1>1. LineInv => ReleasedAgentIsOffTheLine
  BY DEF LineInv, LineRows, OffTheLine, ReleasedAgentIsOffTheLine
<1> QED BY <1>1, LineInit, LineNext, TInvHolds, PTL DEF Spec

------------------------------------------------------------------------------
(* One transfer per call.  A request transfers after it claimed the call   *)
(* and before it gives the claim back, and only a request that was not     *)
(* carried out gives it back.                                              *)

Transferring(r, c) == DropRuns(r) /\ drop[r].call = c /\ drop[r].pc \in {"transfer", "revert"}

TransferInv ==
  \A c \in Calls :
    /\ transfers[c] \in {0, 1}
    /\ transfers[c] = 1 => Claimed(c)
    /\ \A r \in Requests : Transferring(r, c) =>
         /\ Claimed(c) /\ transfers[c] = 0
         /\ \A q \in Requests : Transferring(q, c) => q = r

ClaimsKept == \A c \in Calls : Claimed(c) => Claimed(c)'

LEMMA UpdateKeepsClaim ==
  ASSUME Store!TypeOK, NEW c \in Calls, NEW new, Store!UpdateCall(c, new),
         DOMAIN new = DOMAIN call[c], new.locked = call[c].locked,
         new.state # "bridged" \/ new.state = call[c].state
  PROVE  ClaimsKept
<1>1. /\ call[c] \in Store!CallRow
      /\ call' = [call EXCEPT ![c] = Store!Stored(call[c], new)] /\ call \in [Calls -> Store!CallRow]
  BY DEF Store!UpdateCall, Store!TypeOK
<1>2. Store!Stored(call[c], new).state = IF call[c].locked THEN call[c].state ELSE new.state
  BY <1>1 DEF Store!Stored, Store!CallRow
<1>3. call[c].locked \/ new.state = call[c].state \/ new.state \in Store!MayFollow(call[c].state)
  BY DEF Store!UpdateCall, Store!TriggerRejects
<1>4. Claimed(c) /\ new.state # "bridged" /\ new.state \in Store!MayFollow(call[c].state) =>
        new.state \in Store!VoicemailActive \cup Store!Terminal
  BY DEF Claimed, Store!MayFollow, Store!VoicemailActive, Store!Terminal
<1>5. ASSUME NEW d \in Calls, Claimed(d) PROVE Claimed(d)'
  <2>1. CASE d # c
    BY <1>1, <1>5, <2>1 DEF Claimed
  <2>2. CASE d = c
    BY <1>1, <1>2, <1>3, <1>4, <1>5, <2>2 DEF Claimed
  <2> QED BY <2>1, <2>2
<1> QED BY <1>5 DEF ClaimsKept

LEMMA StatementsKeepClaims ==
  ASSUME Store!TypeOK, NEW c \in Calls,
         \/ \E a, k : Store!CreateDialerCall(c, a, k)
         \/ \E how : Store!FinalizeCall(c, how)
         \/ \E type, event : Store!PersistChannelEvent(c, type, event)
         \/ Store!EndDialerCall(c) \/ Store!StoreAgentLeg(c) \/ Store!StoreCustomerLeg(c)
         \/ Store!MarkAgentRinging(c) \/ Store!ClaimVoicemailDrop(c)
         \/ Store!MarkPlaybackStarted(c) \/ Store!MarkAgentReleased(c) \/ Store!EndAgentLeg(c)
         \/ Store!ReleaseAgent(c) \/ Store!FinalizeCompletedPlayback(c)
         \/ \E b \in BOOLEAN : Store!FinalizeIncompletePlayback(c, b)
         \/ \E a : Store!FinishAgent(a)
         \/ UNCHANGED rows
  PROVE  ClaimsKept
<1>0. call[c] \in Store!CallRow
  BY DEF Store!TypeOK
<1>1. call' = call => ClaimsKept
  BY DEF ClaimsKept, Claimed
<1>2. ASSUME NEW a, NEW k, Store!CreateDialerCall(c, a, k) PROVE ClaimsKept
  <2>1. PICK new : call' = [call EXCEPT ![c] = new]
    BY <1>2 DEF Store!CreateDialerCall
  <2>2. call[c].state = "absent"
    <3>1. call[c] = Store!Absent
      BY <1>2 DEF Store!CreateDialerCall
    <3> QED BY <3>1 DEF Store!Absent
  <2>3. ~Claimed(c)
    BY <2>2 DEF Claimed, Store!VoicemailActive, Store!Terminal
  <2> QED BY <2>1, <2>3 DEF ClaimsKept, Claimed, Store!TypeOK
<1>3. ASSUME NEW how, Store!FinalizeCall(c, how) PROVE ClaimsKept
  BY <1>0, <1>1, <1>3, UpdateKeepsClaim
     DEF Store!CallRow, Store!FinalizeCall, Store!StateForOutcome, Store!Terminal
<1>4. ASSUME NEW type, NEW event, Store!PersistChannelEvent(c, type, event) PROVE ClaimsKept
  <2>1. CASE Store!AdvancedState(call[c].state, type, event) = "bridged" /\ call[c].state # "bridged"
    <3>1. call[c].state \in Store!SetupStates
      BY <2>1 DEF Store!AdvancedState
    <3>2. ~Claimed(c)
      BY <3>1 DEF Claimed, Store!SetupStates, Store!VoicemailActive, Store!Terminal
    <3>3. \A d \in Calls \ {c} : call'[d] = call[d]
      BY <1>4 DEF Store!PersistChannelEvent, Store!UpdateCall, Store!TypeOK
    <3> QED BY <3>2, <3>3 DEF ClaimsKept, Claimed
  <2>2. CASE ~(Store!AdvancedState(call[c].state, type, event) = "bridged" /\ call[c].state # "bridged")
    BY <1>0, <1>1, <1>4, <2>2, UpdateKeepsClaim DEF Store!CallRow, Store!PersistChannelEvent
  <2> QED BY <2>1, <2>2
<1>5. ASSUME \/ Store!EndDialerCall(c) \/ Store!FinalizeCompletedPlayback(c)
             \/ \E b \in BOOLEAN : Store!FinalizeIncompletePlayback(c, b)
      PROVE  ClaimsKept
  BY <1>0, <1>5, UpdateKeepsClaim
     DEF Store!CallRow, Store!EndDialerCall, Store!FinalizeCompletedPlayback,
         Store!FinalizeIncompletePlayback
<1>6. ASSUME \/ Store!MarkAgentRinging(c) \/ Store!MarkPlaybackStarted(c)
             \/ Store!ClaimVoicemailDrop(c) \/ Store!MarkAgentReleased(c) \/ Store!ReleaseAgent(c)
      PROVE  ClaimsKept
  BY <1>0, <1>6, UpdateKeepsClaim
     DEF Store!CallRow, Store!MarkAgentRinging, Store!MarkPlaybackStarted, Store!ClaimVoicemailDrop,
         Store!MarkAgentReleased, Store!ReleaseAgent
<1> QED
  BY <1>1, <1>2, <1>3, <1>4, <1>5, <1>6
     DEF Store!StoreAgentLeg, Store!StoreCustomerLeg, Store!EndAgentLeg, Store!FinishAgent, rows

LEMMA TransferFrame ==
  ASSUME TransferInv, ClaimsKept, UNCHANGED <<drop, transfers>>
  PROVE  TransferInv'
  BY DEF TransferInv, ClaimsKept, Transferring, DropRuns

LEMMA TransferRequestDrop ==
  ASSUME TInv, Safety!RowsOK, TransferInv, NEW c \in Calls, NEW r \in Requests, RequestDrop(r, c)
  PROVE  TransferInv'
<1>1. ClaimsKept /\ UNCHANGED transfers
  BY StatementsKeepClaims DEF TInv, RequestDrop, freeswitch
<1>2. ~call[c].locked
  BY DEF RequestDrop, Store!ClaimVoicemailDrop, Store!Active, Safety!RowsOK, Safety!RowInv
<1>3. ~Claimed(c) /\ Claimed(c)'
  BY <1>2 DEF RequestDrop, Store!ClaimVoicemailDrop, Store!UpdateCall, Store!Stored, TInv,
              Store!TypeOK, Store!CallRow, Claimed, Store!VoicemailActive, Store!Terminal
<1>4. transfers[c] = 0 /\ \A q \in Requests : ~Transferring(q, c)
  BY <1>3 DEF TransferInv
<1>5. /\ \A q \in Requests \ {r} : drop'[q] = drop[q]
      /\ drop'[r].call = c
  BY DEF TInv, ProcessesOK, RequestDrop
<1>6. \A q \in Requests, d \in Calls : Transferring(q, d)' => Transferring(q, d) \/ (q = r /\ d = c)
  BY <1>5 DEF Transferring, DropRuns
<1> QED BY <1>1, <1>3, <1>4, <1>6 DEF TransferInv, ClaimsKept

LEMMA TransferDropStep ==
  ASSUME TInv, TransferInv, NEW r \in Requests, DropStep(r)
  PROVE  TransferInv'
<1>1. DropRuns(r) /\ drop[r] \in DropRecord /\ drop \in [Requests -> {Idle, Done} \cup DropRecord]
  BY DropTypes DEF TInv, ProcessesOK, DropStep
<1>2. PICK c \in Calls : c = drop[r].call
  BY <1>1 DEF DropRecord
<1>3. \A pc : drop' = [drop EXCEPT ![r].pc = pc] \/ DropEnds(r) =>
        \A q \in Requests, d \in Calls : Transferring(q, d)' =>
          \/ q # r /\ Transferring(q, d)
          \/ q = r /\ d = c /\ drop'[r].pc = pc /\ pc \in {"transfer", "revert"}
  BY <1>1, <1>2 DEF Transferring, DropRuns, DropEnds, DropRecord
<1>4. ASSUME DropTransfers(r, c), UNCHANGED rows PROVE TransferInv'
  <2>1. Transferring(r, c)
    BY <1>1, <1>2, <1>4 DEF Transferring, DropTransfers, DropAt
  <2>2. Claimed(c) /\ transfers[c] = 0 /\ \A q \in Requests : Transferring(q, c) => q = r
    BY <2>1 DEF TransferInv
  <2>3. \A d \in Calls : Claimed(d)' = Claimed(d)
    BY <1>4 DEF Claimed, rows
  <2>4. ASSUME Transfer(c), DropTo(r, "kill") \/ DropEnds(r) PROVE TransferInv'
    <3>1. transfers'[c] = 1 /\ \A d \in Calls \ {c} : transfers'[d] = transfers[d]
      BY <2>2, <2>4 DEF Transfer, TInv, SwitchOK
    <3>2. \A q \in Requests, d \in Calls : Transferring(q, d)' => q # r /\ Transferring(q, d)
      BY <1>3, <2>4 DEF DropTo
    <3> QED BY <2>2, <2>3, <3>1, <3>2 DEF TransferInv
  <2>5. ASSUME UNCHANGED freeswitch, DropTo(r, "revert") \/ DropEnds(r) PROVE TransferInv'
    <3>1. \A q \in Requests, d \in Calls : Transferring(q, d)' => Transferring(q, d)
      BY <1>3, <2>1, <2>5 DEF DropTo
    <3> QED BY <2>3, <2>5, <3>1 DEF TransferInv, freeswitch
  <2> QED BY <1>4, <2>4, <2>5 DEF DropTransfers
<1>5. ASSUME drop[r].pc \notin {"transfer", "revert"}, ClaimsKept, UNCHANGED transfers,
             \/ DropEnds(r)
             \/ \E pc \in {"mark", "leg", "agent"} : drop' = [drop EXCEPT ![r].pc = pc]
      PROVE  TransferInv'
  <2>1. \A q \in Requests, d \in Calls : Transferring(q, d)' => Transferring(q, d)
    BY <1>3, <1>5
  <2> QED BY <1>5, <2>1 DEF TransferInv, ClaimsKept
<1>6. ASSUME DropKills(r, c), UNCHANGED rows PROVE TransferInv'
  <2>1. UNCHANGED transfers
    BY <1>2, <1>6, KillIsProgress, KillUnansweredIsProgress DEF TInv, DropKills, freeswitch, Progress
  <2>2. ClaimsKept
    BY <1>2, <1>6, StatementsKeepClaims DEF TInv
  <2> QED BY <1>5, <1>6, <2>1, <2>2 DEF DropKills, DropTo, DropAt
<1>7. ASSUME DropStatement(r, c), UNCHANGED freeswitch PROVE TransferInv'
  <2>0. UNCHANGED transfers
    BY <1>7 DEF freeswitch
  <2>1. UNCHANGED rows => ClaimsKept
    BY <1>2, StatementsKeepClaims DEF TInv
  <2>2. ASSUME DropReverts(r, c) PROVE TransferInv'
    <3>1. Transferring(r, c) /\ DropEnds(r)
      BY <1>1, <1>2, <2>2 DEF Transferring, DropReverts, DropAt
    <3>2. transfers[c] = 0 /\ \A q \in Requests : Transferring(q, c) => q = r
      BY <3>1 DEF TransferInv
    <3>3. \A q \in Requests, d \in Calls : Transferring(q, d)' => q # r /\ Transferring(q, d)
      BY <1>1, <1>2, <3>1 DEF Transferring, DropRuns, DropEnds
    <3>4. \A d \in Calls \ {c} : call'[d] = call[d]
      BY <2>2 DEF DropReverts, Store!RevertVoicemailDrop, Store!UpdateCall, TInv, Store!TypeOK, rows
    <3> QED BY <2>0, <3>2, <3>3, <3>4 DEF TransferInv, Claimed
  <2>3. ASSUME DropMarks(r, c) PROVE TransferInv'
    <3>1. ClaimsKept
      BY <1>2, <2>1, <2>3, StatementsKeepClaims DEF TInv, DropMarks
    <3>2. drop[r].pc = "mark" /\ drop' = [drop EXCEPT ![r].pc = "leg"]
      BY <2>3 DEF DropMarks, DropAt, DropTo
    <3> QED BY <1>5, <2>0, <3>1, <3>2
  <2>4. ASSUME DropAt(r, "leg"), Store!EndAgentLeg(c), DropTo(r, "agent") PROVE TransferInv'
    <3>1. ClaimsKept
      BY <1>2, <2>4, StatementsKeepClaims DEF TInv
    <3>2. drop[r].pc = "leg" /\ drop' = [drop EXCEPT ![r].pc = "agent"]
      BY <2>4 DEF DropAt, DropTo
    <3> QED BY <1>5, <2>0, <3>1, <3>2
  <2>5. ASSUME DropAt(r, "agent"), Store!FinishAgent(call[c].agent), DropEnds(r) PROVE TransferInv'
    <3>1. ClaimsKept
      BY <1>2, <2>5, StatementsKeepClaims DEF TInv
    <3> QED BY <1>5, <2>0, <2>5, <3>1 DEF DropAt
  <2>6. ASSUME UNCHANGED rows, DropEnds(r) PROVE TransferInv'
    <3>1. \A q \in Requests, d \in Calls : Transferring(q, d)' => Transferring(q, d)
      BY <1>1, <2>6 DEF Transferring, DropRuns, DropEnds
    <3> QED BY <2>0, <2>1, <2>6, <3>1 DEF TransferInv, ClaimsKept
  <2> QED BY <1>7, <2>2, <2>3, <2>4, <2>5, <2>6 DEF DropStatement
<1> QED BY <1>2, <1>4, <1>6, <1>7 DEF DropStep

LEMMA TransferInit == Init => TransferInv
<1>1. Init => \A r \in Requests : ~DropRuns(r)
  BY DEF Init, DropRuns
<1>2. Init => \A c \in Calls : transfers[c] = 0
  BY DEF Init
<1>3. Init => \A r \in Requests, c \in Calls : ~Transferring(r, c)
  BY <1>1 DEF Transferring
<1>4. 0 \in {0, 1} /\ 0 # 1
  OBVIOUS
<1> QED BY <1>2, <1>3, <1>4 DEF TransferInv

LEMMA TransferListener ==
  ASSUME TInv, TransferInv, ListenerStep
  PROVE  TransferInv'
<1>1. PICK c \in Calls : c = Event.call
  BY EventType DEF ListenerStep, EventRecord
<1>2. UNCHANGED transfers
  <2>1. Kill(c, "agent") => UNCHANGED transfers
    BY KillIsProgress DEF TInv, Progress
  <2> QED BY <1>1, <2>1 DEF ListenerStep, PersistChannel, PersistJobFailure, ListenerReads, Consume,
              EslTo, ListenerKillsAgent, freeswitch
<1>3. ClaimsKept
  <2>1. UNCHANGED rows => ClaimsKept
    BY <1>1, StatementsKeepClaims DEF TInv
  <2>2. ASSUME NEW kind, NEW type, NEW event, PersistChannel(kind, type, event) PROVE ClaimsKept
    BY <1>1, <2>2, StatementsKeepClaims DEF PersistChannel, TInv
  <2>3. ASSUME \/ PersistJobFailure \/ CompletePlayback(c) \/ MarkStarted(c) \/ ReleaseAgent(c)
               \/ \E b \in BOOLEAN : FailPlayback(c, b)
               \/ Store!FinalizeCall(c, Event.cause)
        PROVE  ClaimsKept
    BY <1>1, <2>1, <2>3, StatementsKeepClaims
       DEF TInv, PersistJobFailure, CompletePlayback, MarkStarted, ReleaseAgent, FailPlayback
  <2>4. esl.pc = "incomplete" => esl.released \in BOOLEAN
    BY DEF TInv, ProcessesOK, HandlerOK, HandlerRecord, Idle
  <2>5. ListenerReads => ClaimsKept
    BY <2>1 DEF ListenerReads
  <2> QED BY <1>1, <2>1, <2>2, <2>3, <2>4, <2>5 DEF ListenerStep
<1> QED BY <1>2, <1>3, TransferFrame DEF ListenerStep

LEMMA TransferReconcile ==
  ASSUME TInv, TransferInv, ReconcileStep
  PROVE  TransferInv'
<1>1. UNCHANGED transfers
  BY ReconciledStep DEF Reconciled, Progress
<1>2. PassOK
  BY DEF TInv, ProcessesOK, PassOK
<1>3. \A s \in rec.todo \cup rec.cur : rec.pc # "idle" => s.call \in Calls
  BY <1>2 DEF PassOK, Idle, PassRecord, SnapshotRecord
<1>4. UNCHANGED rows => ClaimsKept
  BY DEF ClaimsKept, Claimed, rows
<1>5. ASSUME NEW s, s.call \in Calls, RepairCall(s) PROVE ClaimsKept
  BY <1>5, StatementsKeepClaims DEF TInv, RepairCall
<1>6. ASSUME NEW s, s.call \in Calls, ReconcileCall(s) PROVE ClaimsKept
  <2>1. ASSUME NEW pc, NEW b \in BOOLEAN, ReconcileStores(pc, s, FailPlayback(s.call, b))
        PROVE  ClaimsKept
    BY <1>4, <1>6, <2>1, StatementsKeepClaims DEF TInv, ReconcileStores, FailPlayback
  <2>2. ASSUME ReconcileStores("release", s, ReleaseAgent(s.call)) PROVE ClaimsKept
    BY <1>4, <1>6, <2>2, StatementsKeepClaims DEF TInv, ReconcileStores, ReleaseAgent
  <2>3. ASSUME ReconcileStores("missing", s, Store!FinalizeCall(s.call, "missing")) PROVE ClaimsKept
    BY <1>4, <1>6, <2>3, StatementsKeepClaims DEF TInv, ReconcileStores
  <2>4. (s.state = "agent_released") \in BOOLEAN
    OBVIOUS
  <2> QED BY <1>4, <1>6, <2>1, <2>2, <2>3, <2>4
          DEF ReconcileCall, ReconcileProbes, ReconcileAborts, ReconcileKills, ReconcileSkipsKill
<1>7. ClaimsKept
  BY <1>3, <1>4, <1>5, <1>6 DEF ReconcileStep, ReconcileStarts, RepairStarts, RepairFails
<1> QED BY <1>1, <1>7, TransferFrame DEF ReconcileStep

LEMMA TransferHandlers ==
  ASSUME TInv, TransferInv, NEW c \in Calls,
         \/ ChannelStep(c) \/ OriginStep(c) \/ WatchdogStep(c) \/ EnderStep(c) \/ Age(c) \/ EndCall(c)
         \/ \E a, k : StartCall(c, a, k)
  PROVE  TransferInv'
<1>1. UNCHANGED <<drop, transfers>>
  <2>1. ChannelStep(c) \/ EnderStep(c) => UNCHANGED transfers
    BY ChannelStepIsProgress, EnderStepIsProgress DEF TInv, Progress
  <2> QED BY <2>1 DEF ChannelStep, Outside, OriginStep, Originate, Dial, StoreOriginate,
              StatementFails, WatchdogStep, EnderStep, Age, EndCall, StartCall, freeswitch
<1>2. ClaimsKept
  BY StatementsKeepClaims
     DEF TInv, ChannelStep, Outside, OriginStep, Originate, StatementFails, MarkRinging,
         WatchdogStep, WatchdogReads, WatchdogAsks, EnderStep, Age, EndCall, StartCall
<1> QED BY <1>1, <1>2, TransferFrame

LEMMA TransferConnection ==
  ASSUME TInv, TransferInv, Disconnect \/ Reconnect \/ Crash
  PROVE  TransferInv'
<1>1. UNCHANGED <<call, transfers>>
  BY DEF Disconnect, Reconnect, Crash, rows, freeswitch
<1>2. \A r \in Requests, c \in Calls : Transferring(r, c)' => Transferring(r, c)
  BY DEF Disconnect, Reconnect, Crash, Transferring, DropRuns
<1> QED BY <1>1, <1>2 DEF TransferInv, Claimed

LEMMA TransferNext == TInv /\ Safety!IInv /\ TransferInv /\ [Next]_vars => TransferInv'
<1> SUFFICES ASSUME TInv, Safety!IInv, TransferInv, [Next]_vars PROVE TransferInv'
  OBVIOUS
<1>1. ASSUME UNCHANGED vars PROVE TransferInv'
  BY <1>1, TransferFrame DEF vars, freeswitch, rows, ClaimsKept, Claimed
<1> QED
  BY <1>1, TransferHandlers, TransferDropStep, TransferRequestDrop, TransferListener,
     TransferReconcile, TransferConnection
     DEF Next, Handlers, Safety!IInv

(* The customer is sent to the voicemail at most once, however many        *)
(* requests are made at the same time, repeated, or left without an answer.*)
THEOREM OneTransferPerCall == Spec => []NoDoubleTransfer
<1>1. TransferInv => NoDoubleTransfer
  <2>1. \A n \in {0, 1} : n <= 1
    OBVIOUS
  <2> QED BY <2>1 DEF TransferInv, NoDoubleTransfer
<1> QED BY <1>1, TransferInit, TransferNext, TInvHolds, RowsAreSafe, PTL DEF Spec
==============================================================================
