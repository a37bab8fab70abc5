---------------------------- MODULE PcapCapture ----------------------------
(***************************************************************************)
(* The packet capture of one call: the API's requests (pcap-capture.ts),   *)
(* the coordinator that lines them up (pcap-operation-coordinator.ts) and  *)
(* the capture service (pcap-capture-server.ts).  A client is a place of   *)
(* the API that asks: the creation of the call and the finalizer's timer.  *)
(* A client that no longer waits leaves its request at the service, so a   *)
(* request is an object of its own.                                        *)
(***************************************************************************)
EXTENDS EndedCall

CONSTANTS Requests,   \* requests the service may hold at a time
          NoRequest

ASSUME PcapAssumption == NoRequest \notin Requests

VARIABLES pcap,       \* the row of call_pcaps: status, whether it has a path
          client,     \* per client: idle, or the request it waits for
          request,    \* per request: its action and where it is
          inFlight,   \* the coordinator's entry: the request that leads
          tcpdump,    \* a process captures
          raw,        \* <call>.capture.pcap exists
          final,      \* <call>.pcap exists
          startAsked, \* the creation of the call has asked for its start
          stray       \* history: a capture was written that no row will name
                      \* any more, because it began again after its stop had
                      \* failed, or was finished after a retention run had
                      \* listed it

pcapVars == <<pcap, client, request, inFlight, tcpdump, raw, final, startAsked, stray>>

Clients == {"create", "timer"}
Free == [action |-> "none", at |-> "free", leader |-> NoRequest]

PcapInit ==
  /\ pcap = [status |-> "pending", path |-> FALSE]
  /\ client = [c \in Clients |-> NoRequest]
  /\ request = [q \in Requests |-> Free]
  /\ inFlight = NoRequest
  /\ tcpdump = FALSE /\ raw = FALSE /\ final = FALSE
  /\ startAsked = FALSE /\ stray = FALSE

Running(q) == request[q].at \in {"begin", "isolate"}
HasAnswer(q) == request[q].at \in {"ok", "error"}
Followers(q) == {f \in Requests : request[f].at = "joined" /\ request[f].leader = q}
Waiters(q) == {w \in Requests : request[w].at = "waiting" /\ request[w].leader = q}

-----------------------------------------------------------------------------
(* PcapOperationCoordinator.run.                                           *)

\* A request finds no operation and leads one, finds one with its action and
\* shares its result, or waits for the other one to end.
Placed(action, leader) ==
  [action |-> action,
   leader |-> leader,
   at |-> IF leader = NoRequest THEN "begin"
          ELSE IF request[leader].action = action THEN "joined"
          ELSE "waiting"]

\* Which of the free requests is used is immaterial.
NextRequests ==
  LET free == {q \in Requests : request[q].at = "free"}
  IN {q \in free : q = CHOOSE one \in free : TRUE}

\* requestCapture: the client's request reaches the service.
Ask(c, action) ==
  \E q \in NextRequests :
    /\ request' = [request EXCEPT ![q] = Placed(action, inFlight)]
    /\ inFlight' = IF inFlight = NoRequest THEN q ELSE inFlight
    /\ client' = [client EXCEPT ![c] = q]

\* Faulty: whoever has waited goes on by itself.
AfterAll(q, outcome) ==
  LET next == CHOOSE w \in Waiters(q) : TRUE IN
  /\ request' = [r \in Requests |->
       IF r = q \/ r \in Followers(q) THEN [request[r] EXCEPT !.at = outcome]
       ELSE IF r \notin Waiters(q) THEN request[r]
       ELSE [request[r] EXCEPT !.at = "begin", !.leader = NoRequest]]
  /\ inFlight' = IF Waiters(q) = {} THEN NoRequest ELSE next

\* The operation of q ends as outcome: its followers share the outcome, and
\* of those that waited the first leads the next operation, whose action the
\* others share.
After(q, outcome) ==
  LET next == CHOOSE w \in Waiters(q) : TRUE IN
  /\ request' = [r \in Requests |->
       IF r = q \/ r \in Followers(q) THEN [request[r] EXCEPT !.at = outcome]
       ELSE IF r \notin Waiters(q) THEN request[r]
       ELSE IF r = next THEN [request[r] EXCEPT !.at = "begin",
                                                !.leader = NoRequest]
       ELSE [request[r] EXCEPT !.at = "joined", !.leader = next]]
  /\ inFlight' = IF Waiters(q) = {} THEN NoRequest ELSE next

-----------------------------------------------------------------------------
(* The capture service.                                                    *)

\* startCallCapture: a capture that runs is reported, a file that exists
\* refused, else tcpdump is started; it may fail to.  The service does not
\* know the row: one that is not pending any more will not be stopped again.
StartCapture(q) ==
  /\ request[q].at = "begin" /\ request[q].action = "start"
  /\ \/ /\ tcpdump
        /\ After(q, "ok")
        /\ UNCHANGED <<raw, tcpdump, stray, mishaps>>
     \/ /\ ~tcpdump /\ (raw \/ final)
        /\ After(q, "error")
        /\ UNCHANGED <<raw, tcpdump, stray, mishaps>>
     \/ /\ ~tcpdump /\ ~raw /\ ~final
        /\ After(q, "ok")
        /\ tcpdump' = TRUE /\ raw' = TRUE
        /\ stray' = (stray \/ pcap.status # "pending")
        /\ UNCHANGED mishaps
     \/ /\ ~tcpdump /\ ~raw /\ ~final
        /\ Mishap
        /\ After(q, "error")
        /\ UNCHANGED <<raw, tcpdump, stray>>
  /\ UNCHANGED <<life, over, pcap, client, final, startAsked>>

\* stopCallCapture: tcpdump is stopped and its child awaited.
StopCapture(q) ==
  /\ request[q].at = "begin" /\ request[q].action = "stop"
  /\ tcpdump' = FALSE
  /\ request' = [request EXCEPT ![q].at = "isolate"]
  /\ UNCHANGED <<callVars, pcap, client, inFlight, raw, final, startAsked, stray>>

\* isolateCapture: what was isolated before is reported again, else the call's
\* packets are filtered out of the broad file, which is removed in any case;
\* there may be none.
IsolateCapture(q) ==
  /\ request[q].at = "isolate"
  /\ \/ /\ ~raw /\ final
        /\ After(q, "ok")
        /\ UNCHANGED final
     \/ /\ raw
        /\ After(q, "ok")
        /\ final' = TRUE
     \/ /\ ~(~raw /\ final)
        /\ After(q, "error")
        /\ UNCHANGED final
  /\ raw' = FALSE
  /\ UNCHANGED <<callVars, pcap, client, tcpdump, startAsked, stray>>

\* The service restarts: tcpdump and the operations are gone, files stay.
ServiceRestarts ==
  /\ tcpdump \/ inFlight # NoRequest
  /\ Mishap
  /\ tcpdump' = FALSE
  /\ inFlight' = NoRequest
  /\ request' = [q \in Requests |->
       IF request[q].at \in {"begin", "isolate", "joined", "waiting"}
       THEN [request[q] EXCEPT !.at = "error"] ELSE request[q]]
  /\ UNCHANGED <<life, over, pcap, client, raw, final, startAsked, stray>>

-----------------------------------------------------------------------------
(* The API: startCallPcapCapture and startPcapCaptureFinalizer.            *)

WaitsFor(c, action) ==
  client[c] # NoRequest /\ request[client[c]].action = action

Consume(c) == /\ client' = [client EXCEPT ![c] = NoRequest]
              /\ request' = [request EXCEPT ![client[c]] = Free]

\* startCallPcapCapture: once after the call was created, whatever has become
\* of the call and of its capture by then, and by the timer for a capture that
\* it finds pending and its call open.
AskStart(c) ==
  /\ client[c] = NoRequest
  /\ IF c = "timer" THEN pcap.status = "pending" /\ life = "open" ELSE ~startAsked
  /\ Ask(c, "start")
  /\ startAsked' = (startAsked \/ c = "create")
  /\ UNCHANGED <<callVars, pcap, tcpdump, raw, final, stray>>

MarkPcapFailed ==
  pcap' = IF pcap.status \in {"pending", "capturing"}
          THEN [pcap EXCEPT !.status = "failed"] ELSE pcap

\* The answer to a start: a pending capture is activated or failed.
StartAnswered(c) ==
  /\ WaitsFor(c, "start") /\ HasAnswer(client[c])
  /\ IF request[client[c]].at = "ok"
     THEN pcap' = IF pcap.status = "pending"
                  THEN [status |-> "capturing", path |-> TRUE] ELSE pcap
     ELSE MarkPcapFailed
  /\ Consume(c)
  /\ UNCHANGED <<callVars, inFlight, tcpdump, raw, final, startAsked, stray>>

\* finalizeCallPcapCapture for a capture whose call has ended.
AskStop ==
  /\ client["timer"] = NoRequest
  /\ pcap.status = "capturing" /\ CallIsOver
  /\ Ask("timer", "stop")
  /\ UNCHANGED <<callVars, pcap, tcpdump, raw, final, startAsked, stray>>

StopAnswered(c) ==
  /\ WaitsFor(c, "stop") /\ HasAnswer(client[c])
  /\ IF request[client[c]].at = "ok"
     THEN pcap' = IF pcap.status = "capturing"
                  THEN [status |-> "available", path |-> TRUE] ELSE pcap
     ELSE MarkPcapFailed
  /\ Consume(c)
  /\ UNCHANGED <<callVars, inFlight, tcpdump, raw, final, startAsked, stray>>

\* The request times out, or the statement after its answer fails: the
\* capture is failed and the operation goes on without its client.
GivesUp(c) ==
  /\ client[c] # NoRequest
  /\ Mishap
  /\ MarkPcapFailed
  /\ client' = [client EXCEPT ![c] = NoRequest]
  /\ UNCHANGED <<life, over, request, inFlight, tcpdump, raw, final, startAsked, stray>>

\* The API restarts: what it waited for goes on without it, and a creation
\* that has not asked yet will not.
ApiRestarts ==
  /\ ~startAsked \/ \E c \in Clients : client[c] # NoRequest
  /\ Mishap
  /\ client' = [c \in Clients |-> NoRequest]
  /\ startAsked' = TRUE
  /\ UNCHANGED <<life, over, pcap, request, inFlight, tcpdump, raw, final, stray>>

\* An answer nobody waits for is dropped.
AnswerDropped(q) ==
  /\ HasAnswer(q) /\ \A c \in Clients : client[c] # q
  /\ request' = [request EXCEPT ![q] = Free]
  /\ UNCHANGED <<callVars, pcap, client, inFlight, tcpdump, raw, final, startAsked, stray>>

ServiceStep(q) == StartCapture(q) \/ StopCapture(q) \/ IsolateCapture(q)

PcapNext ==
  \/ \E q \in Requests : ServiceStep(q) \/ AnswerDropped(q)
  \/ \E c \in Clients : AskStart(c) \/ StartAnswered(c) \/ StopAnswered(c)
                        \/ GivesUp(c)
  \/ AskStop \/ ServiceRestarts \/ ApiRestarts

-----------------------------------------------------------------------------
(* Properties.                                                             *)

\* Types of the variables.
PcapTypeOK ==
  /\ pcap \in [status : {"pending", "capturing", "available", "failed", "expired"},
               path : BOOLEAN]
  /\ client \in [Clients -> Requests \cup {NoRequest}]
  /\ request \in [Requests ->
       [action : {"none", "start", "stop"},
        at : {"free", "begin", "isolate", "joined", "waiting", "ok", "error"},
        leader : Requests \cup {NoRequest}]]
  /\ inFlight \in Requests \cup {NoRequest}
  /\ tcpdump \in BOOLEAN /\ raw \in BOOLEAN /\ final \in BOOLEAN
  /\ startAsked \in BOOLEAN /\ stray \in BOOLEAN

\* One operation on a call's capture runs at a time, and whatever shares or
\* awaits one shares or awaits the one that runs: also when several requests
\* have waited for the same operation and go on together at its end, and when
\* their clients have given up or died.
OneCaptureOperation ==
  /\ \A q \in Requests : Running(q) <=> q = inFlight
  /\ \A q \in Requests :
       request[q].at \in {"joined", "waiting"}
         => /\ request[q].leader = inFlight /\ inFlight # NoRequest
            /\ (request[q].at = "joined")
                 <=> (request[q].action = request[inFlight].action)
=============================================================================
