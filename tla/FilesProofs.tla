----------------------------- MODULE FilesProofs -----------------------------
(*****************************************************************************)
(* Proofs about the files of a call, for any runs of the finalizer, requests *)
(* to the capture service and retention runs: one capture operation at a     *)
(* time, no file deleted before its period, and none forgotten; and about    *)
(* the library of voicemails.                                                *)
(*****************************************************************************)
EXTENDS Retention, VoicemailLibrary, SequenceTheorems, FiniteSetTheorems, TLAPS

------------------------------------------------------------------------------
(* Recordings.                                                             *)

LEMMA RecordingTypesHold ==
  RecordingTypeOK /\ [RecordingNext]_recordingVars => RecordingTypeOK'
<1> SUFFICES ASSUME RecordingTypeOK, [RecordingNext]_recordingVars PROVE RecordingTypeOK'
  OBVIOUS
<1> DEFINE Rows == [status : Undecided \cup {"available", "failed", "expired"},
                    path : BOOLEAN, token : 0 .. MaxClaims, stale : BOOLEAN]
           RunStates == [at : {"idle", "inspect", "mark"}, token : 0 .. MaxClaims, good : BOOLEAN]
<1>1. /\ recording \in Rows /\ file \in {"none", "growing", "whole", "broken"}
      /\ starter \in {"idle", "command", "undo"} /\ run \in [Runs -> RunStates]
      /\ MaxClaims \in Nat
  BY RecordingAssumption DEF RecordingTypeOK
<1>2. Resting \in RunStates
  BY <1>1 DEF Resting
<1>3. CASE ClaimPath \/ RecordingStarts \/ RecordingStartFails \/ UndoPath \/ StarterDies
           \/ RecordingStops \/ ClaimGoesStale
  BY <1>1, <1>3 DEF RecordingTypeOK, ClaimPath, RecordingStarts, RecordingStartFails, UndoPath,
     StarterDies, RecordingStops, ClaimGoesStale, Undecided
<1>4. ASSUME NEW r \in Runs, MarkWithoutPath(r) PROVE RecordingTypeOK'
  BY <1>1, <1>4 DEF RecordingTypeOK, MarkWithoutPath, Undecided
<1>5. ASSUME NEW r \in Runs, Claim(r) PROVE RecordingTypeOK'
  <2>1. recording.token + 1 \in 0 .. MaxClaims
    BY <1>1, <1>5 DEF Claim
  <2>2. [at |-> "inspect", token |-> recording.token + 1, good |-> FALSE] \in RunStates
    BY <2>1
  <2>3. recording' \in Rows
    BY <1>1, <1>5, <2>1 DEF Claim, Undecided
  <2>4. run' \in [Runs -> RunStates]
    BY <1>1, <1>5, <2>2 DEF Claim
  <2> QED
    BY <1>1, <1>5, <2>3, <2>4 DEF RecordingTypeOK, Claim
<1>6. ASSUME NEW r \in Runs, Inspect(r) PROVE RecordingTypeOK'
  <2>1. PICK good \in BOOLEAN : run' = [run EXCEPT ![r].at = "mark", ![r].good = good]
    BY <1>6 DEF Inspect
  <2>2. run' \in [Runs -> RunStates]
    BY <1>1, <2>1
  <2> QED
    BY <1>1, <1>6, <2>2 DEF RecordingTypeOK, Inspect
<1>7. ASSUME NEW r \in Runs, Mark(r) PROVE RecordingTypeOK'
  BY <1>1, <1>2, <1>7 DEF RecordingTypeOK, Mark, Undecided
<1>8. ASSUME NEW r \in Runs, MarkThrows(r) PROVE RecordingTypeOK'
  BY <1>1, <1>2, <1>8 DEF RecordingTypeOK, MarkThrows
<1>9. ASSUME NEW r \in Runs, RunDies(r) PROVE RecordingTypeOK'
  BY <1>1, <1>2, <1>9 DEF RecordingTypeOK, RunDies
<1>10. CASE UNCHANGED recordingVars
  BY <1>10 DEF RecordingTypeOK, recordingVars
<1> QED
  BY <1>3, <1>4, <1>5, <1>6, <1>7, <1>8, <1>9, <1>10 DEF RecordingNext, RunStep

------------------------------------------------------------------------------
(* The capture of a call.                                                  *)

PcapRow == [status : {"pending", "capturing", "available", "failed", "expired"}, path : BOOLEAN]
RequestRow == [action : {"none", "start", "stop"},
               at : {"free", "begin", "isolate", "joined", "waiting", "ok", "error"},
               leader : Requests \cup {NoRequest}]

\* A request that was made asks for one of two things, so that those which
\* waited for the same operation ask for the same.
RequestsAsk == \A q \in Requests : request[q].at # "free" => request[q].action \in {"start", "stop"}

CoordinatorInv == OneCaptureOperation /\ RequestsAsk
PcapInv == PcapTypeOK /\ CoordinatorInv

LEMMA PcapBegins == PcapInit => PcapInv
<1> SUFFICES ASSUME PcapInit PROVE PcapInv
  OBVIOUS
<1>1. PcapTypeOK
  BY DEF PcapInit, PcapTypeOK, Free
<1>2. \A q \in Requests : request[q].at = "free" /\ q # inFlight
  BY PcapAssumption DEF PcapInit, Free
<1> QED
  BY <1>1, <1>2 DEF PcapInv, CoordinatorInv, OneCaptureOperation, RequestsAsk, Running

\* The coordinator when an operation ends: its followers share the outcome,
\* and one of those that waited leads the others.
LEMMA AfterKeepsOrder ==
  ASSUME PcapInv, NEW q \in Requests, Running(q), NEW outcome \in {"ok", "error"},
         After(q, outcome)
  PROVE  /\ CoordinatorInv'
         /\ request' \in [Requests -> RequestRow] /\ inFlight' \in Requests \cup {NoRequest}
<1> DEFINE next == CHOOSE w \in Waiters(q) : TRUE
<1>1. /\ request \in [Requests -> RequestRow]
      /\ \A r \in Requests : Running(r) <=> r = q
      /\ \A r \in Requests : request[r].at \in {"joined", "waiting"} =>
           /\ request[r].leader = q
           /\ (request[r].at = "joined") <=> (request[r].action = request[q].action)
      /\ \A r \in Requests : request[r].at # "free" => request[r].action \in {"start", "stop"}
  BY PcapAssumption DEF PcapInv, CoordinatorInv, PcapTypeOK, OneCaptureOperation, RequestsAsk,
     RequestRow
<1>2. /\ \A r \in Requests : r \in Followers(q) <=> request[r].at = "joined"
      /\ \A r \in Requests : r \in Waiters(q) <=> request[r].at = "waiting"
      /\ Waiters(q) \subseteq Requests
  BY <1>1 DEF Followers, Waiters
<1>3. Waiters(q) # {} => next \in Waiters(q)
  OBVIOUS
<1>4. /\ DOMAIN request' = Requests
      /\ \A r \in Requests : request'[r] =
            IF r = q \/ r \in Followers(q) THEN [request[r] EXCEPT !.at = outcome]
            ELSE IF r \notin Waiters(q) THEN request[r]
            ELSE IF r = next THEN [request[r] EXCEPT !.at = "begin", !.leader = NoRequest]
            ELSE [request[r] EXCEPT !.at = "joined", !.leader = next]
      /\ inFlight' = IF Waiters(q) = {} THEN NoRequest ELSE next
      /\ request' = [r \in Requests |-> request'[r]]
  BY DEF After
<1> HIDE DEF next
<1>5. ASSUME NEW r \in Requests
      PROVE  /\ request'[r] \in RequestRow /\ request'[r].action = request[r].action
             /\ request[r].at = "free" => request'[r].at = "free"
             /\ request'[r].at \in {"begin", "isolate"} <=> r \in Waiters(q) /\ r = next
             /\ request'[r].at \in {"joined", "waiting"} =>
                  /\ r \in Waiters(q) /\ r # next
                  /\ request'[r].at = "joined" /\ request'[r].leader = next
             /\ request'[r].at = "free" => request[r].at = "free"
  <2>1. request[r] \in RequestRow /\ request[r].at # "free" => request[r].action \in {"start", "stop"}
    BY <1>1
  <2>2. /\ request[r].action \in {"none", "start", "stop"}
        /\ request[r].at \in {"free", "begin", "isolate", "joined", "waiting", "ok", "error"}
        /\ request[r].leader \in Requests \cup {NoRequest} /\ request[r] \in RequestRow
    BY <1>1 DEF RequestRow
  <2>3. CASE r = q \/ r \in Followers(q)
    <3>1. request'[r] = [request[r] EXCEPT !.at = outcome]
      BY <1>4, <2>3
    <3>2. r \notin Waiters(q)
      BY <1>1, <1>2, <2>3 DEF Running
    <3>3. request[r].at # "free"
      BY <1>1, <1>2, <2>3 DEF Running
    <3> QED
      BY <2>2, <3>1, <3>2, <3>3 DEF RequestRow
  <2>4. CASE r # q /\ r \notin Followers(q) /\ r \notin Waiters(q)
    <3>1. request'[r] = request[r]
      BY <1>4, <2>4
    <3>2. request[r].at \notin {"begin", "isolate", "joined", "waiting"}
      BY <1>1, <1>2, <2>4 DEF Running
    <3> QED
      BY <2>2, <2>4, <3>1, <3>2
  <2>5. CASE r # q /\ r \in Waiters(q) /\ r = next
    <3>1. request'[r] = [request[r] EXCEPT !.at = "begin", !.leader = NoRequest]
      BY <1>2, <1>4, <2>5
    <3> QED
      BY <1>2, <2>2, <2>5, <3>1 DEF RequestRow
  <2>6. CASE r # q /\ r \in Waiters(q) /\ r # next
    <3>1. request'[r] = [request[r] EXCEPT !.at = "joined", !.leader = next]
      <4>1. r \notin Followers(q)
        BY <1>2, <2>6
      <4> QED
        BY <1>4, <2>6, <4>1
    <3>2. next \in Requests
      BY <1>2, <1>3, <2>6
    <3> QED
      BY <1>2, <2>2, <2>6, <3>1, <3>2 DEF RequestRow
  <2>7. r \in Waiters(q) => r # q /\ r \notin Followers(q)
    BY <1>1, <1>2 DEF Running
  <2> QED
    BY <2>3, <2>4, <2>5, <2>6, <2>7
<1>6. request' \in [Requests -> RequestRow]
  BY <1>4, <1>5
<1>7. \A r \in Requests : request'[r].at \in {"begin", "isolate"} <=> r = inFlight'
  BY <1>2, <1>3, <1>4, <1>5, PcapAssumption
<1>8. ASSUME NEW r \in Requests, request'[r].at \in {"joined", "waiting"}
      PROVE  /\ request'[r].leader = inFlight' /\ inFlight' # NoRequest
             /\ request'[r].at = "joined"
             /\ request'[r].action = request'[inFlight'].action
  <2>1. r \in Waiters(q) /\ next \in Waiters(q) /\ inFlight' = next
    BY <1>3, <1>4, <1>5, <1>8
  <2>2. request[r].at = "waiting" /\ request[next].at = "waiting" /\ next \in Requests
    BY <1>2, <2>1
  <2>3. request[q].action \in {"start", "stop"}
    BY <1>1 DEF Running
  <2>4. /\ request[r].action \in {"start", "stop"} /\ request[r].action # request[q].action
        /\ request[next].action \in {"start", "stop"} /\ request[next].action # request[q].action
    BY <1>1, <2>2
  <2>5. request[r].action = request[next].action
    BY <2>3, <2>4
  <2> QED
    BY <1>5, <1>8, <2>1, <2>2, <2>5, PcapAssumption
<1>9. OneCaptureOperation'
  BY <1>7, <1>8 DEF OneCaptureOperation, Running
<1>10. RequestsAsk'
  BY <1>1, <1>5 DEF RequestsAsk
<1> QED
  BY <1>1, <1>2, <1>3, <1>4, <1>6, <1>9, <1>10 DEF CoordinatorInv

\* A request that comes leads, shares or waits.
LEMMA AskKeepsOrder ==
  ASSUME PcapInv, NEW c \in Clients, NEW action \in {"start", "stop"}, Ask(c, action)
  PROVE  /\ CoordinatorInv'
         /\ request' \in [Requests -> RequestRow] /\ inFlight' \in Requests \cup {NoRequest}
         /\ client' \in [Clients -> Requests \cup {NoRequest}]
<1>1. /\ request \in [Requests -> RequestRow] /\ inFlight \in Requests \cup {NoRequest}
      /\ client \in [Clients -> Requests \cup {NoRequest}]
      /\ \A r \in Requests : request[r].at \in {"begin", "isolate"} <=> r = inFlight
      /\ \A r \in Requests : request[r].at \in {"joined", "waiting"} =>
           /\ request[r].leader = inFlight /\ inFlight # NoRequest
           /\ (request[r].at = "joined") <=> (request[r].action = request[inFlight].action)
      /\ \A r \in Requests : request[r].at # "free" => request[r].action \in {"start", "stop"}
  BY DEF PcapInv, CoordinatorInv, PcapTypeOK, OneCaptureOperation, RequestsAsk, RequestRow, Running
<1>2. PICK q \in Requests : /\ request[q].at = "free"
                            /\ request' = [request EXCEPT ![q] = Placed(action, inFlight)]
                            /\ inFlight' = IF inFlight = NoRequest THEN q ELSE inFlight
                            /\ client' = [client EXCEPT ![c] = q]
  BY DEF Ask, NextRequests
<1> DEFINE new == Placed(action, inFlight)
<1>3. /\ new.action = action /\ new.leader = inFlight /\ new \in RequestRow
      /\ inFlight = NoRequest => new.at = "begin"
      /\ inFlight # NoRequest =>
           new.at = IF request[inFlight].action = action THEN "joined" ELSE "waiting"
  BY <1>1 DEF Placed, RequestRow
<1> HIDE DEF new
<1>4. /\ request'[q] = new /\ \A r \in Requests \ {q} : request'[r] = request[r]
      /\ request' \in [Requests -> RequestRow]
  BY <1>1, <1>2, <1>3 DEF new
<1>5. q # inFlight
  BY <1>1, <1>2
<1>6. \A r \in Requests : request'[r].at \in {"begin", "isolate"} <=> r = inFlight'
  BY <1>1, <1>2, <1>3, <1>4, <1>5, PcapAssumption
<1>7. ASSUME NEW r \in Requests, request'[r].at \in {"joined", "waiting"}
      PROVE  /\ request'[r].leader = inFlight' /\ inFlight' # NoRequest
             /\ (request'[r].at = "joined") <=> (request'[r].action = request'[inFlight'].action)
  <2>1. inFlight # NoRequest /\ inFlight' = inFlight /\ inFlight \in Requests \ {q}
    <3>1. CASE r = q
      BY <1>1, <1>2, <1>3, <1>4, <1>5, <1>7, <3>1
    <3>2. CASE r # q
      BY <1>1, <1>2, <1>4, <1>5, <1>7, <3>2
    <3> QED BY <3>1, <3>2
  <2>2. request'[inFlight'] = request[inFlight]
    BY <1>4, <2>1
  <2> QED
    BY <1>1, <1>3, <1>4, <1>7, <2>1, <2>2
<1>8. OneCaptureOperation' /\ RequestsAsk'
  <2>1. OneCaptureOperation'
    BY <1>6, <1>7 DEF OneCaptureOperation, Running
  <2>2. RequestsAsk'
    BY <1>1, <1>3, <1>4 DEF RequestsAsk
  <2> QED BY <2>1, <2>2
<1> QED
  BY <1>1, <1>2, <1>4, <1>8 DEF CoordinatorInv

\* A request that is not running, shared or awaited may be freed or answered.
LEMMA AnsweredRequestMoves ==
  ASSUME PcapInv, NEW q \in Requests, request[q].at \in {"free", "ok", "error"},
         request' = [request EXCEPT ![q] = Free], UNCHANGED inFlight
  PROVE  CoordinatorInv' /\ request' \in [Requests -> RequestRow]
<1>1. /\ request \in [Requests -> RequestRow]
      /\ \A r \in Requests : request[r].at \in {"begin", "isolate"} <=> r = inFlight
      /\ \A r \in Requests : request[r].at \in {"joined", "waiting"} =>
           /\ request[r].leader = inFlight /\ inFlight # NoRequest
           /\ (request[r].at = "joined") <=> (request[r].action = request[inFlight].action)
      /\ \A r \in Requests : request[r].at # "free" => request[r].action \in {"start", "stop"}
      /\ inFlight \in Requests \cup {NoRequest}
  BY DEF PcapInv, CoordinatorInv, PcapTypeOK, OneCaptureOperation, RequestsAsk, RequestRow, Running
<1>2. Free \in RequestRow /\ Free.at = "free"
  BY DEF Free, RequestRow
<1>3. /\ request' \in [Requests -> RequestRow] /\ request'[q] = Free
      /\ \A r \in Requests \ {q} : request'[r] = request[r]
  BY <1>1, <1>2
<1>4. q # inFlight
  BY <1>1
<1>5. OneCaptureOperation'
  BY <1>1, <1>2, <1>3, <1>4 DEF OneCaptureOperation, Running
<1>6. RequestsAsk'
  BY <1>1, <1>2, <1>3 DEF RequestsAsk
<1> QED
  BY <1>3, <1>5, <1>6 DEF CoordinatorInv

LEMMA PcapRowTypes ==
  ASSUME pcap \in PcapRow
  PROVE  /\ MarkPcapFailed => pcap' \in PcapRow
         /\ \A s \in {"capturing", "available"} : [status |-> s, path |-> TRUE] \in PcapRow
BY DEF PcapRow, MarkPcapFailed

\* Every step of the capture service and of the API keeps the invariant.
LEMMA PcapStep == PcapInv /\ [PcapNext]_pcapVars => PcapInv'
<1> SUFFICES ASSUME PcapInv, [PcapNext]_pcapVars PROVE PcapInv'
  OBVIOUS
<1>1. /\ pcap \in PcapRow /\ request \in [Requests -> RequestRow]
      /\ client \in [Clients -> Requests \cup {NoRequest}]
      /\ inFlight \in Requests \cup {NoRequest}
      /\ tcpdump \in BOOLEAN /\ raw \in BOOLEAN /\ final \in BOOLEAN
      /\ startAsked \in BOOLEAN /\ stray \in BOOLEAN
  BY DEF PcapInv, PcapTypeOK, PcapRow, RequestRow
<1> DEFINE Kept ==
      /\ CoordinatorInv'
      /\ pcap' \in PcapRow /\ request' \in [Requests -> RequestRow]
      /\ client' \in [Clients -> Requests \cup {NoRequest}]
      /\ inFlight' \in Requests \cup {NoRequest}
      /\ tcpdump' \in BOOLEAN /\ raw' \in BOOLEAN /\ final' \in BOOLEAN
      /\ startAsked' \in BOOLEAN /\ stray' \in BOOLEAN
<1>2. SUFFICES Kept
  BY DEF PcapInv, PcapTypeOK, PcapRow, RequestRow
<1>3. CoordinatorInv
  BY DEF PcapInv
<1>4. ASSUME NEW q \in Requests, StartCapture(q) PROVE Kept
  <2>1. PICK outcome \in {"ok", "error"} : After(q, outcome)
    BY <1>4 DEF StartCapture
  <2>2. /\ UNCHANGED <<pcap, client, final, startAsked>>
        /\ tcpdump' \in {tcpdump, TRUE} /\ raw' \in {raw, TRUE}
        /\ stray' \in {stray, stray \/ pcap.status # "pending"} /\ Running(q)
    BY <1>4 DEF StartCapture, Running
  <2> QED
    BY <1>1, <2>1, <2>2, AfterKeepsOrder
<1>5. ASSUME NEW q \in Requests, StopCapture(q) PROVE Kept
  <2>1. /\ request[q].at = "begin" /\ request' = [request EXCEPT ![q].at = "isolate"]
        /\ tcpdump' = FALSE /\ UNCHANGED <<pcap, client, inFlight, raw, final, startAsked, stray>>
    BY <1>5 DEF StopCapture
  <2>2. /\ request' \in [Requests -> RequestRow] /\ request'[q].at = "isolate"
        /\ \A r \in Requests : request'[r].action = request[r].action
                               /\ request'[r].leader = request[r].leader
                               /\ r # q => request'[r].at = request[r].at
    BY <1>1, <2>1 DEF RequestRow
  <2>3. CoordinatorInv'
    BY <1>1, <1>3, <2>1, <2>2 DEF CoordinatorInv, OneCaptureOperation, RequestsAsk, Running
  <2> QED
    BY <1>1, <2>1, <2>2, <2>3
<1>6. ASSUME NEW q \in Requests, IsolateCapture(q) PROVE Kept
  <2>1. PICK outcome \in {"ok", "error"} : After(q, outcome)
    BY <1>6 DEF IsolateCapture
  <2>2. /\ UNCHANGED <<pcap, client, tcpdump, startAsked, stray>>
        /\ final' \in {final, TRUE} /\ raw' = FALSE /\ Running(q)
    BY <1>6 DEF IsolateCapture, Running
  <2> QED
    BY <1>1, <2>1, <2>2, AfterKeepsOrder
<1>7. ASSUME NEW q \in Requests, AnswerDropped(q) PROVE Kept
  BY <1>1, <1>7, AnsweredRequestMoves DEF AnswerDropped, HasAnswer
<1>8. ASSUME NEW c \in Clients, AskStart(c) PROVE Kept
  BY <1>1, <1>8, AskKeepsOrder DEF AskStart
<1>9. ASSUME NEW c \in Clients, StartAnswered(c) \/ StopAnswered(c) PROVE Kept
  <2> DEFINE q == client[c]
  <2>1. q \in Requests /\ request[q].at \in {"ok", "error"}
    BY <1>1, <1>9 DEF StartAnswered, StopAnswered, WaitsFor, HasAnswer
  <2>2. /\ request' = [request EXCEPT ![q] = Free] /\ client' = [client EXCEPT ![c] = NoRequest]
        /\ UNCHANGED <<inFlight, tcpdump, raw, final, startAsked, stray>>
    BY <1>9 DEF StartAnswered, StopAnswered, Consume
  <2>3. \/ pcap' = pcap \/ MarkPcapFailed
        \/ \E s \in {"capturing", "available"} : pcap' = [status |-> s, path |-> TRUE]
    BY <1>9 DEF StartAnswered, StopAnswered
  <2>4. pcap' \in PcapRow
    BY <1>1, <2>3, PcapRowTypes
  <2> HIDE DEF q
  <2> QED
    BY <1>1, <2>1, <2>2, <2>4, AnsweredRequestMoves
<1>10. ASSUME NEW c \in Clients, GivesUp(c) PROVE Kept
  <2>1. pcap' \in PcapRow
    BY <1>1, <1>10, PcapRowTypes DEF GivesUp
  <2>2. UNCHANGED <<request, inFlight, tcpdump, raw, final, startAsked, stray>>
        /\ client' = [client EXCEPT ![c] = NoRequest]
    BY <1>10 DEF GivesUp
  <2>3. CoordinatorInv'
    BY <1>3, <2>2 DEF CoordinatorInv, OneCaptureOperation, RequestsAsk, Running
  <2> QED
    BY <1>1, <2>1, <2>2, <2>3
<1>11. CASE AskStop
  <2>1. "timer" \in Clients
    BY DEF Clients
  <2> QED
    BY <1>1, <1>11, <2>1, AskKeepsOrder DEF AskStop
<1>12. CASE ServiceRestarts
  <2>1. /\ DOMAIN request' = Requests
        /\ \A q \in Requests : request'[q] =
             IF request[q].at \in {"begin", "isolate", "joined", "waiting"}
             THEN [request[q] EXCEPT !.at = "error"] ELSE request[q]
        /\ request' = [q \in Requests |-> request'[q]]
        /\ tcpdump' = FALSE /\ inFlight' = NoRequest
        /\ UNCHANGED <<pcap, client, raw, final, startAsked, stray>>
    BY <1>12 DEF ServiceRestarts
  <2>2. \A q \in Requests : /\ request'[q] \in RequestRow /\ request'[q].action = request[q].action
                            /\ request'[q].at \in {"free", "ok", "error"}
                            /\ request'[q].at # "free" => request[q].at # "free"
    BY <1>1, <2>1 DEF RequestRow
  <2>3. request' \in [Requests -> RequestRow]
    BY <2>1, <2>2
  <2>4. OneCaptureOperation'
    BY <2>1, <2>2, PcapAssumption DEF OneCaptureOperation, Running
  <2>5. RequestsAsk'
    BY <1>3, <2>2 DEF CoordinatorInv, RequestsAsk
  <2> QED
    BY <1>1, <2>1, <2>3, <2>4, <2>5 DEF CoordinatorInv
<1>13. CASE ApiRestarts
  <2>1. UNCHANGED <<pcap, request, inFlight, tcpdump, raw, final, stray>> /\ startAsked' = TRUE
        /\ client' = [c \in Clients |-> NoRequest]
    BY <1>13 DEF ApiRestarts
  <2> QED
    BY <1>1, <1>3, <2>1 DEF CoordinatorInv, OneCaptureOperation, RequestsAsk, Running
<1>14. CASE UNCHANGED pcapVars
  BY <1>1, <1>3, <1>14 DEF pcapVars, CoordinatorInv, OneCaptureOperation, RequestsAsk, Running
<1> QED
  BY <1>4, <1>5, <1>6, <1>7, <1>8, <1>9, <1>10, <1>11, <1>12, <1>13, <1>14 DEF PcapNext, ServiceStep

------------------------------------------------------------------------------
(* Retention.  A run unlinks what it has listed, and it lists what is past  *)
(* its period; a finalizer that has found a file good will say so, and the  *)
(* file is there unless its period has ended since.                         *)

SweepRow == [at : {"idle", "list", "unlink"}, files : SUBSET {"recording", "pcap"},
             unlinked : SUBSET {"recording", "pcap"}]

SweepsArePastPeriod ==
  /\ sweep \in [Sweeps -> SweepRow]
  /\ \A w \in Sweeps : sweep[w].files \subseteq over /\ sweep[w].unlinked \subseteq over

GoodFilesAreThere ==
  \A r \in Runs : run[r].at = "mark" /\ run[r].good => file # "none" \/ "recording" \in over

FilesInv == RecordingTypeOK /\ PcapInv /\ SweepsArePastPeriod /\ GoodFilesAreThere

LEMMA FilesBegin == FilesInit => FilesInv
<1> SUFFICES ASSUME FilesInit PROVE FilesInv
  OBVIOUS
<1>1. RecordingTypeOK
  BY RecordingAssumption DEF FilesInit, RecordingInit, RecordingTypeOK, Undecided, Resting
<1>2. PcapInv
  BY PcapBegins DEF FilesInit
<1>3. SweepsArePastPeriod
  BY DEF FilesInit, SweepsArePastPeriod, SweepRow, Still
<1>4. GoodFilesAreThere
  BY DEF FilesInit, RecordingInit, GoodFilesAreThere, Resting
<1> QED
  BY <1>1, <1>2, <1>3, <1>4 DEF FilesInv

\* What a step of the capture leaves alone: everything of the recording, the
\* periods, and a capture that is finished.
LEMMA CapturesAreKept ==
  PcapNext => UNCHANGED <<life, over>> /\ (final => final')
BY DEF PcapNext, ServiceStep, AnswerDropped, AskStart, StartAnswered, StopAnswered, GivesUp,
   AskStop, ServiceRestarts, ApiRestarts, StartCapture, StopCapture, IsolateCapture, callVars

\* What a step of the recording leaves alone: the periods, and a file that
\* is there.
LEMMA RecordingsAreKept ==
  RecordingTypeOK /\ RecordingNext =>
    /\ UNCHANGED <<life, over>> /\ (file # "none" => file' # "none")
    /\ \A r \in Runs : run'[r].at = "mark" /\ run'[r].good =>
         \/ run[r].at = "mark" /\ run[r].good
         \/ file # "none" 
    /\ recording'.status = "available" /\ recording.status # "available" =>
         \E r \in Runs : run[r].at = "mark" /\ run[r].good
<1> SUFFICES ASSUME RecordingTypeOK, RecordingNext
             PROVE  /\ UNCHANGED <<life, over>> /\ (file # "none" => file' # "none")
                    /\ \A r \in Runs : run'[r].at = "mark" /\ run'[r].good =>
                         \/ run[r].at = "mark" /\ run[r].good
                         \/ file # "none"
                    /\ recording'.status = "available" /\ recording.status # "available" =>
                         \E r \in Runs : run[r].at = "mark" /\ run[r].good
  OBVIOUS
<1>1. /\ DOMAIN run = Runs
      /\ \A r \in Runs : DOMAIN run[r] = {"at", "token", "good"}
      /\ recording = [status |-> recording.status, path |-> recording.path,
                      token |-> recording.token, stale |-> recording.stale]
  BY DEF RecordingTypeOK
<1>2. CASE ClaimPath \/ RecordingStarts \/ RecordingStartFails \/ UndoPath \/ StarterDies
           \/ RecordingStops \/ ClaimGoesStale
  BY <1>1, <1>2 DEF ClaimPath, RecordingStarts, RecordingStartFails, UndoPath, StarterDies,
     RecordingStops, ClaimGoesStale, Mishap, callVars
<1>3. ASSUME NEW r \in Runs, MarkWithoutPath(r) \/ Claim(r) \/ Inspect(r)
      PROVE  /\ UNCHANGED <<life, over, file>>
             /\ \A q \in Runs : run'[q].at = "mark" /\ run'[q].good =>
                  \/ run[q].at = "mark" /\ run[q].good
                  \/ file # "none"
             /\ recording'.status = "available" => recording.status = "available"
  <2>1. CASE MarkWithoutPath(r)
    BY <1>1, <2>1 DEF MarkWithoutPath, callVars
  <2>2. CASE Claim(r)
    BY <1>1, <2>2 DEF Claim, callVars
  <2>3. CASE Inspect(r)
    <3>1. PICK good \in BOOLEAN : /\ run' = [run EXCEPT ![r].at = "mark", ![r].good = good]
                                  /\ good => file \in {"whole", "growing"}
      BY <2>3 DEF Inspect
    <3>2. /\ \A q \in Runs \ {r} : run'[q] = run[q]
          /\ run'[r].good = good
      BY <1>1, <3>1
    <3> QED
      BY <1>1, <2>3, <3>1, <3>2 DEF Inspect, callVars
  <2> QED
    BY <1>3, <2>1, <2>2, <2>3
<1>4. ASSUME NEW r \in Runs, Mark(r)
      PROVE  /\ UNCHANGED <<life, over, file>>
             /\ \A q \in Runs : run'[q].at = "mark" => run'[q] = run[q]
             /\ recording'.status = "available" /\ recording.status # "available" =>
                  run[r].at = "mark" /\ run[r].good
  BY <1>1, <1>4 DEF Mark, Resting, callVars
<1>5. ASSUME NEW r \in Runs, MarkThrows(r) \/ RunDies(r)
      PROVE  /\ UNCHANGED <<life, over, file, recording>>
             /\ \A q \in Runs : run'[q].at = "mark" /\ run'[q].good => run'[q] = run[q]
  BY <1>1, <1>5 DEF MarkThrows, RunDies, Resting, callVars
<1> QED
  BY <1>2, <1>3, <1>4, <1>5 DEF RecordingNext, RunStep

\* One step of any of the components keeps the invariant.
LEMMA FilesStep == FilesInv /\ [FilesNext]_filesVars => FilesInv'
<1> SUFFICES ASSUME FilesInv, [FilesNext]_filesVars PROVE FilesInv'
  OBVIOUS
<1>1. /\ RecordingTypeOK /\ PcapInv /\ sweep \in [Sweeps -> SweepRow]
      /\ \A w \in Sweeps : sweep[w].files \subseteq over /\ sweep[w].unlinked \subseteq over
      /\ \A r \in Runs : run[r].at = "mark" /\ run[r].good => file # "none" \/ "recording" \in over
  BY DEF FilesInv, SweepsArePastPeriod, GoodFilesAreThere
<1>2. UNCHANGED recordingVars => RecordingTypeOK'
  BY <1>1, RecordingTypesHold
<1>3. UNCHANGED pcapVars => PcapInv'
  BY <1>1, PcapStep
<1>4. Still \in SweepRow /\ Still.files = {} /\ Still.unlinked = {}
  BY DEF Still, SweepRow
<1>5. \A w \in Sweeps : /\ sweep[w].at \in {"idle", "list", "unlink"}
                        /\ sweep[w].files \subseteq {"recording", "pcap"}
                        /\ sweep[w].unlinked \subseteq {"recording", "pcap"}
                        /\ sweep[w] = [at |-> sweep[w].at, files |-> sweep[w].files,
                                       unlinked |-> sweep[w].unlinked]
  BY <1>1 DEF SweepRow
<1>6. ASSUME over \subseteq over', UNCHANGED <<recordingVars, pcapVars, retentionVars>> PROVE FilesInv'
  <2>1. SweepsArePastPeriod'
    BY <1>1, <1>6 DEF SweepsArePastPeriod, retentionVars
  <2>2. GoodFilesAreThere'
    BY <1>1, <1>6 DEF GoodFilesAreThere, recordingVars
  <2> QED
    BY <1>2, <1>3, <1>6, <2>1, <2>2 DEF FilesInv
<1>7. CASE RecordingNext /\ UNCHANGED <<pcapVars, retentionVars>>
  <2>1. RecordingTypeOK'
    BY <1>1, <1>7, RecordingTypesHold
  <2>2. SweepsArePastPeriod'
    BY <1>1, <1>7, RecordingsAreKept DEF SweepsArePastPeriod, retentionVars
  <2>3. GoodFilesAreThere'
    BY <1>1, <1>7, RecordingsAreKept DEF GoodFilesAreThere
  <2> QED
    BY <1>3, <1>7, <2>1, <2>2, <2>3 DEF FilesInv
<1>8. CASE PcapNext /\ UNCHANGED <<recordingVars, retentionVars>>
  <2>1. PcapInv'
    BY <1>1, <1>8, PcapStep
  <2>2. SweepsArePastPeriod'
    BY <1>1, <1>8, CapturesAreKept DEF SweepsArePastPeriod, retentionVars
  <2>3. GoodFilesAreThere'
    BY <1>1, <1>8, CapturesAreKept DEF GoodFilesAreThere, recordingVars
  <2> QED
    BY <1>2, <1>8, <2>1, <2>2, <2>3 DEF FilesInv
<1>9. ASSUME NEW w \in Sweeps, NEW files \in SUBSET {"recording", "pcap"}, files \subseteq over,
             NEW at \in {"list", "unlink"}, sweep' = [sweep EXCEPT ![w] = [at |-> at, files |-> files, unlinked |-> {}]],
             UNCHANGED <<over, recordingVars, pcapVars>>
      PROVE  FilesInv'
  <2>1. [at |-> at, files |-> files, unlinked |-> {}] \in SweepRow
    BY DEF SweepRow
  <2>2. SweepsArePastPeriod'
    BY <1>1, <1>9, <2>1 DEF SweepsArePastPeriod
  <2>3. GoodFilesAreThere'
    BY <1>1, <1>9 DEF GoodFilesAreThere, recordingVars
  <2> QED
    BY <1>2, <1>3, <1>9, <2>2, <2>3 DEF FilesInv
<1>10. ASSUME NEW w \in Sweeps, SweepBegins(w) PROVE FilesInv'
  <2>1. [Still EXCEPT !.at = "list"] = [at |-> "list", files |-> {}, unlinked |-> {}]
    BY DEF Still
  <2> QED
    BY <1>9, <1>10, <2>1 DEF SweepBegins, callVars
<1>11. ASSUME NEW w \in Sweeps, ListFiles(w) PROVE FilesInv'
  <2>1. Listed \subseteq over /\ Listed \subseteq {"recording", "pcap"}
    BY DEF Listed
  <2>2. /\ sweep' = [sweep EXCEPT ![w] = [at |-> "unlink", files |-> Listed, unlinked |-> {}]]
        /\ UNCHANGED <<over, recordingVars, pcapVars>>
    BY <1>11 DEF ListFiles, callVars
  <2> QED
    BY <1>9, <2>1, <2>2
<1>12. ASSUME NEW w \in Sweeps, Unlink(w) PROVE FilesInv'
  <2>1. PICK f \in sweep[w].files, gone \in BOOLEAN :
          /\ sweep' = [sweep EXCEPT ![w].files = @ \ {f},
                         ![w].unlinked = IF gone THEN @ \cup {f} ELSE @]
          /\ file' = IF gone /\ f = "recording" THEN "none" ELSE file
          /\ final' = IF gone /\ f = "pcap" THEN FALSE ELSE final
    BY <1>12 DEF Unlink
  <2>2. UNCHANGED <<life, over, mishaps, recording, starter, run, pcap, client, request, inFlight,
                    tcpdump, raw, startAsked, stray>>
    BY <1>12 DEF Unlink, callVars
  <2>3. f \in {"recording", "pcap"} /\ f \in over
    BY <1>1, <1>5, <2>1
  <2>4. /\ sweep'[w].at = sweep[w].at /\ sweep'[w].files = sweep[w].files \ {f}
        /\ sweep'[w].unlinked = IF gone THEN sweep[w].unlinked \cup {f} ELSE sweep[w].unlinked
        /\ sweep'[w] = [at |-> sweep'[w].at, files |-> sweep'[w].files, unlinked |-> sweep'[w].unlinked]
        /\ sweep' = [sweep EXCEPT ![w] = sweep'[w]]
    <3> DEFINE left == sweep[w].files \ {f}
               done == IF gone THEN sweep[w].unlinked \cup {f} ELSE sweep[w].unlinked
    <3>1. sweep' = [sweep EXCEPT ![w].files = left, ![w].unlinked = done]
      BY <2>1
    <3> HIDE DEF left, done
    <3>2. sweep' = [sweep EXCEPT ![w] = [at |-> sweep[w].at, files |-> left, unlinked |-> done]]
      <4>1. /\ DOMAIN sweep' = Sweeps /\ \A v \in Sweeps \ {w} : sweep'[v] = sweep[v]
            /\ sweep'[w] = [sweep[w] EXCEPT !.files = left, !.unlinked = done]
            /\ sweep' = [v \in Sweeps |-> sweep'[v]]
        BY <1>1, <3>1
      <4>2. sweep'[w] = [at |-> sweep[w].at, files |-> left, unlinked |-> done]
        BY ZenonT(60), <1>5, <4>1
      <4> QED
        BY <1>1, <4>1, <4>2
    <3> QED
      BY <1>1, <3>2 DEF left, done
  <2>5. /\ sweep'[w].files \subseteq sweep[w].files
        /\ sweep'[w].unlinked \subseteq sweep[w].unlinked \cup {f}
    BY <2>4
  <2>6. sweep'[w] \in SweepRow
    BY <1>5, <2>3, <2>4, <2>5 DEF SweepRow
  <2>7. SweepsArePastPeriod'
    BY <1>1, <2>2, <2>3, <2>4, <2>5, <2>6 DEF SweepsArePastPeriod
  <2>8. GoodFilesAreThere'
    BY <1>1, <2>1, <2>2, <2>3 DEF GoodFilesAreThere
  <2>9. RecordingTypeOK'
    BY <1>1, <2>1, <2>2 DEF RecordingTypeOK
  <2>10. PcapInv'
    BY <1>1, <2>1, <2>2 DEF PcapInv, PcapTypeOK, CoordinatorInv, OneCaptureOperation, RequestsAsk, Running
  <2> QED
    BY <2>7, <2>8, <2>9, <2>10 DEF FilesInv
<1>13. ASSUME NEW w \in Sweeps, SweepCommits(w) \/ SweepDies(w) PROVE FilesInv'
  <2>1. /\ sweep' = [sweep EXCEPT ![w] = Still]
        /\ UNCHANGED <<over, file, starter, run, client, request, inFlight, tcpdump, raw, final, startAsked>>
        /\ stray' \in {stray, stray \/ (final /\ pcap'.path # pcap.path)}
        /\ recording' = RecordingCleared(w) \/ recording' = recording
        /\ pcap' = PcapCleared(w) \/ pcap' = pcap
    BY <1>13 DEF SweepCommits, SweepDies, callVars, recordingVars, pcapVars
  <2>2. SweepsArePastPeriod'
    BY <1>1, <1>4, <2>1 DEF SweepsArePastPeriod
  <2>3. GoodFilesAreThere'
    BY <1>1, <2>1 DEF GoodFilesAreThere
  <2>4. recording' = recording \/ recording' = [recording EXCEPT !.status = "expired", !.path = FALSE]
    BY <2>1 DEF RecordingCleared
  <2>5. RecordingTypeOK'
    BY <1>1, <2>1, <2>4 DEF RecordingTypeOK
  <2>6. pcap' = pcap \/ pcap' = [pcap EXCEPT !.status = "expired", !.path = FALSE]
    BY <2>1 DEF PcapCleared
  <2>7. PcapInv'
    BY <1>1, <2>1, <2>6 DEF PcapInv, PcapTypeOK, CoordinatorInv, OneCaptureOperation, RequestsAsk, Running
  <2> QED
    BY <2>2, <2>3, <2>5, <2>7 DEF FilesInv
<1>14. CallEnds \/ PeriodEnds => over \subseteq over'
  BY DEF CallEnds, PeriodEnds
<1>15. CASE UNCHANGED filesVars
  BY <1>6, <1>15 DEF filesVars, callVars
<1> QED
  BY <1>6, <1>7, <1>8, <1>10, <1>11, <1>12, <1>13, <1>14, <1>15 DEF FilesNext

LEMMA FilesInvariant == FilesSpec => []FilesInv
BY FilesBegin, FilesStep, PTL DEF FilesSpec

\* One operation on a call's capture runs at a time, and whatever shares or
\* awaits one shares or awaits the one that runs
\* (pcap-operation-coordinator.ts).
THEOREM OneCaptureAtATime == FilesSpec => []OneCaptureOperation
<1>1. FilesInv => OneCaptureOperation
  BY DEF FilesInv, PcapInv, CoordinatorInv
<1> QED
  BY <1>1, FilesInvariant, PTL

YoungFileKept ==
  /\ file # "none" /\ file' = "none" => "recording" \in over
  /\ final /\ ~final' => "pcap" \in over
  /\ recording'.status = "available" /\ recording.status # "available"
       => file # "none" \/ "recording" \in over

LEMMA YoungFilesAreKept == FilesInv /\ [FilesNext]_filesVars => [YoungFileKept]_filesVars
<1> SUFFICES ASSUME FilesInv, FilesNext PROVE YoungFileKept
  OBVIOUS
<1>1. /\ RecordingTypeOK /\ SweepsArePastPeriod /\ GoodFilesAreThere
      /\ recording \in [status : Undecided \cup {"available", "failed", "expired"},
                        path : BOOLEAN, token : 0 .. MaxClaims, stale : BOOLEAN]
  BY DEF FilesInv, RecordingTypeOK
<1>2. CASE UNCHANGED <<recordingVars, final>>
  BY <1>2 DEF recordingVars, YoungFileKept
<1>3. CASE RecordingNext /\ UNCHANGED pcapVars
  BY <1>1, <1>3, RecordingsAreKept DEF pcapVars, GoodFilesAreThere, YoungFileKept
<1>4. CASE PcapNext /\ UNCHANGED recordingVars
  BY <1>4, CapturesAreKept DEF recordingVars, YoungFileKept
<1>5. ASSUME NEW w \in Sweeps, Unlink(w) PROVE YoungFileKept
  BY <1>1, <1>5 DEF Unlink, SweepsArePastPeriod, YoungFileKept
<1>6. ASSUME NEW w \in Sweeps, SweepCommits(w) PROVE YoungFileKept
  BY <1>1, <1>6 DEF SweepCommits, RecordingCleared, YoungFileKept
<1>7. \A w \in Sweeps : SweepBegins(w) \/ ListFiles(w) \/ SweepDies(w) =>
        UNCHANGED <<recordingVars, final>>
  BY DEF SweepBegins, ListFiles, SweepDies, pcapVars
<1> QED
  BY <1>2, <1>3, <1>4, <1>5, <1>6, <1>7 DEF FilesNext, pcapVars

\* A file is deleted only past its own period, and a recording that becomes
\* available is on disk or past its period (dashboard/retention.ts and
\* call-recording-finalizer.ts).
THEOREM NoFileIsDeletedEarly == FilesSpec => YoungFilesStay
BY FilesInvariant, YoungFilesAreKept, PTL DEF FilesSpec, YoungFilesStay, YoungFileKept

------------------------------------------------------------------------------
(* Nothing is left behind.  Whatever writes a file has begun before the     *)
(* first of the periods ended; without a mishap the row of the file then    *)
(* has its path, or the request that will store it is under way.            *)

InTime ==
  /\ mishaps \in Nat
  /\ life = "open" => over = {}
  /\ life = "deleted" => "call" \in over
  /\ starter # "idle" => over \subseteq {"grace"}
  /\ ~startAsked => over \subseteq {"grace"}

RecordingHasItsPath ==
  /\ file # "none" => life # "deleted" /\ recording.path
  /\ starter # "idle" => file = "none"
  /\ starter = "command" => recording.path

UnlinkedIsGone == \A w \in Sweeps : "recording" \in sweep[w].unlinked => file = "none"

\* Every request is waited for by one client.
Awaited ==
  /\ \A q \in Requests : request[q].at # "free" => \E c \in Clients : client[c] = q
  /\ \A c \in Clients : client[c] # NoRequest => request[client[c]].at # "free"
  /\ client["create"] # client["timer"] \/ client["create"] = NoRequest

\* Starts are asked and answered before the first period ends.  One fails
\* only when it comes so late that the stop has been answered.
StartsEnd ==
  \A q \in Requests : request[q].action = "start" /\ request[q].at # "free" =>
    /\ request[q].at # "isolate" /\ over \subseteq {"grace"}
    /\ request[q].at = "error" =>
         /\ pcap.status # "pending" /\ ~tcpdump /\ ~raw
         /\ \A r \in Requests : request[r].action = "stop" =>
              request[r].at \in {"free", "ok", "error"}

\* The stop is the timer's, for a capture that was activated; a start that
\* came too late may have failed it by the time the stop is answered.
StopsFollow ==
  \A q \in Requests : request[q].action = "stop" /\ request[q].at # "free" =>
    /\ client["timer"] = q
    /\ \/ pcap.status = "capturing"
       \/ /\ pcap.status = "failed" /\ request[q].at \in {"ok", "error"}
          /\ over \subseteq {"grace"}

\* What is on disk, for every status of the row.
PcapHasItsPath ==
  /\ pcap.status = "pending" =>
       /\ ~final /\ (raw <=> tcpdump)
       /\ raw <=> \E q \in Requests : request[q].action = "start" /\ request[q].at = "ok"
  /\ pcap.status \in {"capturing", "available", "failed"} => pcap.path
  /\ pcap.status \in {"available", "failed", "expired"} => ~raw /\ ~tcpdump
  /\ pcap.status = "expired" => ~pcap.path /\ ~final
  /\ pcap.status = "capturing" =>
       \/ tcpdump /\ raw /\ \A q \in Requests : request[q].action = "stop" =>
                               request[q].at \in {"free", "waiting", "begin"}
       \/ ~tcpdump /\ \E q \in Requests :
            /\ request[q].action = "stop" 
            /\ request[q].at = "isolate" \/ (request[q].at \in {"ok", "error"} /\ ~raw)
  /\ life = "deleted" => ~pcap.path

LeftInv ==
  /\ InTime /\ UnlinkedIsGone
  /\ mishaps = 0 => RecordingHasItsPath
  /\ mishaps = 0 /\ ~stray => Awaited /\ StartsEnd /\ StopsFollow /\ PcapHasItsPath

LEMMA LeftBegins == FilesInit => LeftInv
<1> SUFFICES ASSUME FilesInit PROVE LeftInv
  OBVIOUS
<1>1. InTime /\ RecordingHasItsPath
  BY DEF FilesInit, PcapInit, EndedCallInit, RecordingInit, InTime, RecordingHasItsPath
<1>2. UnlinkedIsGone
  BY DEF FilesInit, UnlinkedIsGone, RecordingInit
<1>3. /\ \A q \in Requests : request[q].at = "free" /\ request[q].action = "none"
      /\ \A c \in Clients : client[c] = NoRequest
      /\ "create" \in Clients
  BY DEF FilesInit, PcapInit, Free, Clients
<1>4. Awaited /\ StartsEnd /\ StopsFollow
  BY <1>3 DEF Awaited, StartsEnd, StopsFollow
<1>5. PcapHasItsPath
  BY <1>3 DEF FilesInit, PcapInit, EndedCallInit, PcapHasItsPath
<1> QED
  BY <1>1, <1>2, <1>4, <1>5 DEF LeftInv

\* Nothing takes a mishap back.
LEMMA MishapsAreCounted ==
  ASSUME mishaps \in Nat, [FilesNext]_filesVars
  PROVE  mishaps' \in Nat /\ (mishaps' = 0 => mishaps = 0)
<1>1. Mishap \/ UNCHANGED mishaps => mishaps' \in Nat /\ (mishaps' = 0 => mishaps = 0)
  BY DEF Mishap
<1>2. CASE RecordingNext
  BY <1>1, <1>2 DEF RecordingNext, RunStep, ClaimPath, RecordingStarts, RecordingStartFails, UndoPath,
     StarterDies, RecordingStops, ClaimGoesStale, MarkWithoutPath, Claim, Inspect, Mark, MarkThrows,
     RunDies, callVars
<1>3. CASE PcapNext
  BY <1>1, <1>3 DEF PcapNext, ServiceStep, AnswerDropped, AskStart, StartAnswered, StopAnswered,
     GivesUp, AskStop, ServiceRestarts, ApiRestarts, StartCapture, StopCapture, IsolateCapture, callVars
<1>4. CASE \E w \in Sweeps : SweepBegins(w) \/ ListFiles(w) \/ Unlink(w) \/ SweepCommits(w) \/ SweepDies(w)
  BY <1>1, <1>4 DEF SweepBegins, ListFiles, Unlink, SweepCommits, SweepDies, callVars
<1>5. CASE CallEnds \/ PeriodEnds \/ UNCHANGED filesVars
  BY <1>1, <1>5 DEF CallEnds, PeriodEnds, filesVars, callVars
<1> QED
  BY <1>2, <1>3, <1>4, <1>5 DEF FilesNext

\* Nor does anything find again what is astray, or unask.
LEMMA HistoryStays ==
  FilesInv /\ [FilesNext]_filesVars => (startAsked => startAsked') /\ (stray => stray')
<1> SUFFICES ASSUME FilesInv, [FilesNext]_filesVars PROVE (startAsked => startAsked') /\ (stray => stray')
  OBVIOUS
<1> DEFINE Stays == (startAsked => startAsked') /\ (stray => stray')
<1>1. stray \in BOOLEAN /\ final \in BOOLEAN
  BY DEF FilesInv, PcapInv, PcapTypeOK
<1>2. UNCHANGED <<startAsked, stray>> => Stays
  OBVIOUS
<1>3. \A q \in Requests : StartCapture(q) => Stays
  BY <1>1, SMT DEF StartCapture
<1>4. \A c \in Clients : AskStart(c) => Stays
  <2>1. \A c \in Clients : AskStart(c) => UNCHANGED stray /\ (startAsked => startAsked')
    BY Zenon DEF AskStart
  <2> QED
    BY <2>1
<1>5. ApiRestarts => Stays
  BY DEF ApiRestarts
<1>6. ASSUME NEW w \in Sweeps, SweepCommits(w) PROVE Stays
  <2> DEFINE finished == final /\ pcap'.path # pcap.path
  <2>1. UNCHANGED startAsked /\ stray' = (stray \/ finished) /\ finished \in BOOLEAN
    BY <1>1, <1>6 DEF SweepCommits
  <2> HIDE DEF finished
  <2> QED
    BY <1>1, <2>1
<1>7. /\ \A q \in Requests : StopCapture(q) \/ IsolateCapture(q) \/ AnswerDropped(q) =>
           UNCHANGED <<startAsked, stray>>
      /\ \A c \in Clients : StartAnswered(c) \/ StopAnswered(c) \/ GivesUp(c) =>
           UNCHANGED <<startAsked, stray>>
      /\ AskStop \/ ServiceRestarts => UNCHANGED <<startAsked, stray>>
  BY DEF StopCapture, IsolateCapture, AnswerDropped, StartAnswered, StopAnswered, GivesUp, AskStop,
     ServiceRestarts
<1>8. /\ \A w \in Sweeps : SweepBegins(w) \/ ListFiles(w) \/ Unlink(w) \/ SweepDies(w) =>
           UNCHANGED <<startAsked, stray>>
      /\ UNCHANGED pcapVars \/ UNCHANGED filesVars => UNCHANGED <<startAsked, stray>>
  BY DEF SweepBegins, ListFiles, Unlink, SweepDies, pcapVars, filesVars
<1>9. PcapNext => Stays
  <2> HIDE DEF Stays
  <2> QED
    BY <1>2, <1>3, <1>4, <1>5, <1>7 DEF PcapNext, ServiceStep
<1>10. Stays
  <2> HIDE DEF Stays
  <2> QED
    BY <1>2, <1>6, <1>8, <1>9 DEF FilesNext
<1> QED
  BY <1>10

LEMMA InTimeStep ==
  FilesInv /\ InTime /\ UnlinkedIsGone /\ [FilesNext]_filesVars => InTime' /\ UnlinkedIsGone'
<1> SUFFICES ASSUME FilesInv, InTime, UnlinkedIsGone, [FilesNext]_filesVars
             PROVE  InTime' /\ UnlinkedIsGone'
  OBVIOUS
<1>1. mishaps' \in Nat
  BY MishapsAreCounted DEF InTime
<1>11. ~startAsked' => over \subseteq {"grace"}
  BY HistoryStays DEF InTime
<1>2. \A w \in Sweeps : sweep[w].unlinked \subseteq over
  BY DEF FilesInv, SweepsArePastPeriod
<1>3. CASE CallEnds /\ UNCHANGED <<recordingVars, pcapVars, retentionVars>>
  BY <1>1, <1>11, <1>3 DEF CallEnds, InTime, UnlinkedIsGone, recordingVars, retentionVars
<1>4. CASE /\ PeriodEnds /\ (AtRest \/ over' \ over = {"grace"})
           /\ UNCHANGED <<recordingVars, pcapVars, retentionVars>>
  <2>1. starter' # "idle" => over' \subseteq {"grace"}
    BY <1>4 DEF PeriodEnds, AtRest, InTime, recordingVars
  <2>3. ~startAsked' => over' \subseteq {"grace"}
    BY <1>11, <1>4 DEF PeriodEnds, AtRest, pcapVars
  <2>2. life' = "ended"
    BY <1>4 DEF PeriodEnds, CallIsOver
  <2> QED
    BY <1>1, <1>4, <2>1, <2>2, <2>3 DEF InTime, UnlinkedIsGone, recordingVars, retentionVars
<1>5. CASE RecordingNext /\ UNCHANGED <<pcapVars, retentionVars>>
  <2>1. UNCHANGED <<life, over, sweep>>
    BY <1>5, RecordingsAreKept DEF FilesInv, retentionVars
  <2>2. /\ starter' # "idle" => starter # "idle" \/ life = "open"
        /\ file' # file => starter = "command" \/ file = "growing"
    BY <1>5 DEF RecordingNext, RunStep, ClaimPath, RecordingStarts, RecordingStartFails, UndoPath,
       StarterDies, RecordingStops, ClaimGoesStale, MarkWithoutPath, Claim, Inspect, Mark, MarkThrows,
       RunDies
  <2>3. \A w \in Sweeps : "recording" \in sweep[w].unlinked => file' = "none"
    BY <1>2, <2>2 DEF InTime, UnlinkedIsGone
  <2> QED
    BY <1>1, <1>11, <2>1, <2>2, <2>3 DEF InTime, UnlinkedIsGone
<1>6. CASE PcapNext /\ UNCHANGED <<recordingVars, retentionVars>>
  BY <1>1, <1>11, <1>6, CapturesAreKept DEF InTime, UnlinkedIsGone, recordingVars, retentionVars
<1>7. ASSUME NEW w \in Sweeps, SweepBegins(w) \/ ListFiles(w) \/ SweepDies(w)
      PROVE  InTime' /\ UnlinkedIsGone'
  <2>1. /\ UNCHANGED <<life, over, recordingVars>>
        /\ \E row : row.unlinked = {} /\ sweep' = [sweep EXCEPT ![w] = row]
    BY <1>7 DEF SweepBegins, ListFiles, SweepDies, Still, callVars
  <2> QED
    BY <1>1, <1>11, <2>1 DEF InTime, UnlinkedIsGone, recordingVars, FilesInv, SweepsArePastPeriod
<1>8. ASSUME NEW w \in Sweeps, SweepCommits(w) PROVE InTime' /\ UnlinkedIsGone'
  <2>1. /\ UNCHANGED <<over, file, starter>> /\ sweep' = [sweep EXCEPT ![w] = Still]
        /\ life' = life \/ (life' = "deleted" /\ "call" \in over)
    BY <1>8 DEF SweepCommits, DeletesCall
  <2> QED
    BY <1>1, <1>11, <2>1 DEF InTime, UnlinkedIsGone, Still, FilesInv, SweepsArePastPeriod
<1>9. ASSUME NEW w \in Sweeps, Unlink(w) PROVE InTime' /\ UnlinkedIsGone'
  <2>1. PICK f \in sweep[w].files, gone \in BOOLEAN :
          /\ sweep' = [sweep EXCEPT ![w].files = @ \ {f},
                         ![w].unlinked = IF gone THEN @ \cup {f} ELSE @]
          /\ file' = IF gone /\ f = "recording" THEN "none" ELSE file
    BY <1>9 DEF Unlink
  <2>2. UNCHANGED <<life, over, starter>>
    BY <1>9 DEF Unlink, callVars
  <2>3. \A v \in Sweeps : "recording" \in sweep'[v].unlinked =>
          "recording" \in sweep[v].unlinked \/ (gone /\ f = "recording")
    <3>1. sweep \in [Sweeps -> SweepRow]
      BY DEF FilesInv, SweepsArePastPeriod
    <3>2. \A v \in Sweeps \ {w} : sweep'[v] = sweep[v]
      BY <2>1, <3>1
    <3>3. sweep'[w].unlinked = IF gone THEN sweep[w].unlinked \cup {f} ELSE sweep[w].unlinked
      BY <2>1, <3>1 DEF SweepRow
    <3> QED
      BY <3>2, <3>3
  <2> QED
    BY <1>1, <1>11, <2>1, <2>2, <2>3 DEF InTime, UnlinkedIsGone
<1>10. CASE UNCHANGED filesVars
  BY <1>1, <1>11, <1>10 DEF filesVars, callVars, recordingVars, retentionVars, InTime, UnlinkedIsGone
<1> QED
  BY <1>3, <1>4, <1>5, <1>6, <1>7, <1>8, <1>9, <1>10 DEF FilesNext

LEMMA RecordingKeepsItsPath ==
  ASSUME FilesInv, InTime, UnlinkedIsGone, mishaps = 0, mishaps' = 0, RecordingHasItsPath,
         [FilesNext]_filesVars
  PROVE  RecordingHasItsPath'
<1>1. ~Mishap
  BY DEF Mishap
<1>2. /\ recording \in [status : Undecided \cup {"available", "failed", "expired"},
                        path : BOOLEAN, token : 0 .. MaxClaims, stale : BOOLEAN]
      /\ file # "none" => life # "deleted" /\ recording.path
      /\ starter # "idle" => file = "none"
      /\ starter = "command" => recording.path
      /\ starter \in {"idle", "command", "undo"}
  BY DEF RecordingHasItsPath, FilesInv, RecordingTypeOK
<1>3. CASE RecordingNext
  <2>1. UNCHANGED life
    BY <1>3, RecordingsAreKept DEF FilesInv
  <2>2. starter # "idle" => life # "deleted"
    BY DEF InTime
  <2>3. CASE ClaimPath
    BY <1>2, <2>1, <2>3 DEF ClaimPath, RecordingHasItsPath
  <2>4. CASE RecordingStarts \/ RecordingStops
    BY <1>2, <2>1, <2>2, <2>4 DEF RecordingStarts, RecordingStops, RecordingHasItsPath
  <2>5. CASE RecordingStartFails \/ UndoPath \/ ClaimGoesStale
    BY <1>1, <1>2, <2>1, <2>5 DEF RecordingStartFails, UndoPath, ClaimGoesStale, RecordingHasItsPath
  <2>6. ASSUME NEW r \in Runs, RunStep(r)
        PROVE  UNCHANGED <<file, starter>> /\ recording'.path = recording.path
    BY <1>2, <2>6 DEF RunStep, MarkWithoutPath, Claim, Inspect, Mark
  <2>7. ~StarterDies /\ \A r \in Runs : ~MarkThrows(r) /\ ~RunDies(r)
    BY <1>1 DEF StarterDies, MarkThrows, RunDies
  <2> QED
    BY <1>2, <1>3, <2>1, <2>3, <2>4, <2>5, <2>6, <2>7 DEF RecordingNext, RecordingHasItsPath
<1>4. CASE UNCHANGED <<life, recordingVars>>
  BY <1>4 DEF recordingVars, RecordingHasItsPath
<1>5. CASE (CallEnds \/ PeriodEnds) /\ UNCHANGED recordingVars
  BY <1>2, <1>5 DEF recordingVars, RecordingHasItsPath, CallEnds, PeriodEnds
<1>6. PcapNext => UNCHANGED life
  BY CapturesAreKept
<1>7. \A w \in Sweeps : SweepBegins(w) \/ ListFiles(w) \/ SweepDies(w) => UNCHANGED <<life, recordingVars>>
  BY DEF SweepBegins, ListFiles, SweepDies, callVars
<1>8. ASSUME NEW w \in Sweeps, Unlink(w) PROVE RecordingHasItsPath'
  BY <1>2, <1>8 DEF Unlink, callVars, RecordingHasItsPath
<1>9. ASSUME NEW w \in Sweeps, SweepCommits(w) PROVE RecordingHasItsPath'
  <2>1. /\ UNCHANGED <<file, starter>> /\ recording' = RecordingCleared(w)
        /\ life' = "deleted" /\ life # "deleted" => ~recording'.path /\ "call" \in over
    BY <1>9 DEF SweepCommits, DeletesCall
  <2>2. recording' # recording => file = "none" /\ "recording" \in over
    BY <2>1 DEF RecordingCleared, UnlinkedIsGone, FilesInv, SweepsArePastPeriod
  <2>3. starter # "idle" => recording' = recording /\ life' = life
    BY <2>1, <2>2, <1>9 DEF InTime, SweepCommits, DeletesCall
  <2> QED
    BY <1>2, <2>1, <2>2, <2>3 DEF RecordingHasItsPath
<1> QED
  BY <1>3, <1>4, <1>5, <1>6, <1>7, <1>8, <1>9 DEF FilesNext, filesVars, callVars

PcapLeft == Awaited /\ StartsEnd /\ StopsFollow /\ PcapHasItsPath

\* The requests when an operation ends.
LEMMA AfterMoves ==
  ASSUME PcapInv, NEW q \in Requests, Running(q), NEW outcome \in {"ok", "error"},
         After(q, outcome)
  PROVE  /\ \A r \in Requests : /\ request'[r].action = request[r].action
                                /\ request'[r].at = "free" <=> request[r].at = "free"
         /\ \A r \in Requests : request[r].at \in {"free", "ok", "error"} => request'[r].at = request[r].at
         /\ \A r \in Requests : r = q \/ request[r].at = "joined" =>
              request'[r].at = outcome /\ request[r].action = request[q].action
         /\ \A r \in Requests : request[r].at = "waiting" =>
              /\ request'[r].at \in {"begin", "joined"} /\ request[r].action # request[q].action
              /\ request'[r].at = "begin" \/ \E n \in Requests : n # r /\ request[n].at = "waiting"
         /\ \A r \in Requests : request[r].at \in {"begin", "isolate"} <=> r = q
<1> DEFINE next == CHOOSE w \in Waiters(q) : TRUE
<1>1. /\ request \in [Requests -> RequestRow]
      /\ \A r \in Requests : Running(r) <=> r = q
      /\ \A r \in Requests : request[r].at \in {"joined", "waiting"} =>
           /\ request[r].leader = q
           /\ (request[r].at = "joined") <=> (request[r].action = request[q].action)
  BY PcapAssumption DEF PcapInv, CoordinatorInv, PcapTypeOK, OneCaptureOperation, RequestRow
<1>2. /\ \A r \in Requests : r \in Followers(q) <=> request[r].at = "joined"
      /\ \A r \in Requests : r \in Waiters(q) <=> request[r].at = "waiting"
  BY <1>1 DEF Followers, Waiters
<1>3. \A r \in Requests : request'[r] =
            IF r = q \/ r \in Followers(q) THEN [request[r] EXCEPT !.at = outcome]
            ELSE IF r \notin Waiters(q) THEN request[r]
            ELSE IF r = next THEN [request[r] EXCEPT !.at = "begin", !.leader = NoRequest]
            ELSE [request[r] EXCEPT !.at = "joined", !.leader = next]
  BY DEF After
<1> HIDE DEF next
<1>4. \A r \in Requests :
        /\ request[r].at \in {"free", "begin", "isolate", "joined", "waiting", "ok", "error"}
        /\ DOMAIN request[r] = {"action", "at", "leader"}
  BY <1>1 DEF RequestRow
<1>5. ASSUME NEW r \in Requests
      PROVE  /\ request'[r].action = request[r].action
             /\ r = q \/ request[r].at = "joined" => request'[r].at = outcome
             /\ request[r].at = "waiting" /\ r # q =>
                  \/ request'[r].at = "begin"
                  \/ request'[r].at = "joined" /\ \E n \in Requests : n # r /\ request[n].at = "waiting"
             /\ request[r].at \in {"free", "ok", "error"} /\ r # q => request'[r].at = request[r].at
  <2>1. CASE r = q \/ r \in Followers(q)
    <3>1. request'[r] = [request[r] EXCEPT !.at = outcome]
      BY <1>3, <2>1
    <3> QED
      BY <1>2, <1>4, <2>1, <3>1
  <2>2. CASE r # q /\ r \notin Followers(q) /\ r \notin Waiters(q)
    <3>1. request'[r] = request[r]
      BY <1>3, <2>2
    <3> QED
      BY <1>2, <2>2, <3>1
  <2>3. CASE r # q /\ r \in Waiters(q) /\ r = next
    <3>1. request'[r] = [request[r] EXCEPT !.at = "begin", !.leader = NoRequest]
      BY <1>2, <1>3, <2>3
    <3> QED
      BY <1>2, <1>4, <2>3, <3>1
  <2>4. CASE r # q /\ r \in Waiters(q) /\ r # next
    <3>1. request'[r] = [request[r] EXCEPT !.at = "joined", !.leader = next]
      BY <1>2, <1>3, <2>4
    <3>2. next \in Waiters(q) /\ next \in Requests
      BY <2>4 DEF next, Waiters
    <3> QED
      BY <1>2, <1>4, <2>4, <3>1, <3>2
  <2> QED
    BY <1>2, <2>1, <2>2, <2>3, <2>4
<1>6. /\ request[q].at \in {"begin", "isolate"}
      /\ \A r \in Requests : request[r].at \in {"begin", "isolate"} <=> r = q
  BY <1>1 DEF Running
<1> QED
  BY <1>1, <1>4, <1>5, <1>6

\* An operation that is under way ends.  A start finds tcpdump running, or
\* the stopped capture, or begins the capture of a pending row.
LEMMA StartIsDone ==
  ASSUME PcapInv, PcapLeft, mishaps' = mishaps, mishaps \in Nat, ~stray',
         NEW q \in Requests, StartCapture(q)
  PROVE  PcapLeft'
<1>1. /\ request[q].at = "begin" /\ request[q].action = "start" /\ Running(q)
      /\ UNCHANGED <<life, over, pcap, client, final>> /\ ~Mishap
  BY DEF StartCapture, Running, Mishap
<1>2. \A r \in Requests : request[r].at \in {"begin", "isolate"} <=> r = q
  BY <1>1 DEF PcapInv, CoordinatorInv, OneCaptureOperation, Running
<1>3. /\ over \subseteq {"grace"}
      /\ \A r \in Requests : request[r].action = "stop" => r # q /\ request[r].at # "isolate"
  BY <1>1, <1>2 DEF PcapLeft, StartsEnd
<1>4. PICK outcome \in {"ok", "error"} :
        /\ After(q, outcome)
        /\ \/ outcome = "ok" /\ tcpdump /\ UNCHANGED <<tcpdump, raw>>
           \/ outcome = "error" /\ ~tcpdump /\ (raw \/ final) /\ UNCHANGED <<tcpdump, raw>>
           \/ outcome = "ok" /\ ~tcpdump /\ ~raw /\ ~final /\ tcpdump' /\ raw'
              /\ pcap.status = "pending"
  <2>1. StartCapture(q)!2!4 => FALSE
    BY <1>1
  <2> QED
    BY <1>1, <2>1 DEF StartCapture
<1>5. /\ \A r \in Requests : /\ request'[r].action = request[r].action
                             /\ request'[r].at = "free" <=> request[r].at = "free"
      /\ \A r \in Requests : request[r].at \in {"free", "ok", "error"} => request'[r].at = request[r].at
      /\ \A r \in Requests : r = q \/ request[r].at = "joined" =>
           request'[r].at = outcome /\ request[r].action = "start"
      /\ \A r \in Requests : request[r].at = "waiting" =>
           /\ request'[r].at \in {"begin", "joined"} /\ request[r].action # "start"
           /\ request'[r].at = "begin" \/ \E n \in Requests : n # r /\ request[n].at = "waiting"
  BY <1>1, <1>4, AfterMoves
<1>6. /\ \A r \in Requests :
           request[r].at \in {"free", "begin", "isolate", "joined", "waiting", "ok", "error"}
      /\ \A r \in Requests : request[r].at # "free" => request[r].action \in {"start", "stop"}
      /\ \A c \in Clients : client[c] # NoRequest => client[c] \in Requests
      /\ pcap.status \in {"pending", "capturing", "available", "failed", "expired"}
  BY DEF PcapInv, PcapTypeOK, CoordinatorInv, RequestsAsk
\* The one stop there may be comes after this start, or is answered.
<1>7. ASSUME NEW r \in Requests, request[r].action = "stop"
      PROVE  /\ request[r].at \in {"free", "ok", "error"} => request'[r].at = request[r].at
             /\ request[r].at \in {"free", "ok", "error", "waiting"}
             /\ request[r].at = "waiting" => request'[r].at = "begin"
  <2>1. \A n \in Requests : request[n].at = "waiting" => n = client["timer"]
    BY <1>5, <1>6 DEF PcapLeft, StopsFollow
  <2> QED
    BY <1>2, <1>3, <1>5, <1>6, <1>7, <2>1
\* A start that fails finds what the stop has left.
<1>8. outcome = "error" =>
        /\ pcap.status # "pending" /\ ~raw /\ UNCHANGED <<tcpdump, raw>> /\ ~tcpdump
        /\ \A r \in Requests : request[r].action = "stop" => request[r].at # "waiting"
  <2> SUFFICES ASSUME outcome = "error"
               PROVE  /\ pcap.status # "pending" /\ ~raw /\ UNCHANGED <<tcpdump, raw>> /\ ~tcpdump
                      /\ \A r \in Requests : request[r].action = "stop" => request[r].at # "waiting"
    OBVIOUS
  <2>1. ~tcpdump /\ (raw \/ final) /\ UNCHANGED <<tcpdump, raw>>
    BY <1>4
  <2>2. pcap.status # "pending"
    BY <2>1 DEF PcapLeft, PcapHasItsPath
  <2>3. CASE pcap.status = "capturing"
    <3>1. PICK s \in Requests : /\ request[s].action = "stop"
                                /\ request[s].at = "isolate" \/ (request[s].at \in {"ok", "error"} /\ ~raw)
      BY <2>1, <2>3 DEF PcapLeft, PcapHasItsPath
    <3>2. request[s].at \in {"ok", "error"} /\ ~raw
      BY <1>3, <3>1
    <3>3. \A r \in Requests : request[r].action = "stop" /\ request[r].at # "free" => r = s
      BY <3>1, <3>2 DEF PcapLeft, StopsFollow
    <3> QED
      BY <2>1, <2>2, <3>2, <3>3
  <2>4. CASE pcap.status # "capturing"
    <3>1. ~raw
      BY <1>6, <2>2, <2>4 DEF PcapLeft, PcapHasItsPath
    <3>2. \A r \in Requests : request[r].action = "stop" => request[r].at # "waiting"
      BY <2>4 DEF PcapLeft, StopsFollow
    <3> QED
      BY <2>1, <2>2, <3>1, <3>2
  <2> QED
    BY <2>3, <2>4
<1>9. Awaited'
  BY <1>1, <1>5, <1>6 DEF PcapLeft, Awaited
<1>10. StartsEnd'
  <2> SUFFICES ASSUME NEW r \in Requests, request'[r].action = "start", request'[r].at # "free"
               PROVE  /\ request'[r].at # "isolate" /\ over' \subseteq {"grace"}
                      /\ request'[r].at = "error" =>
                           /\ pcap'.status # "pending" /\ ~tcpdump' /\ ~raw'
                           /\ \A p \in Requests : request'[p].action = "stop" =>
                                request'[p].at \in {"free", "ok", "error"}
    BY DEF StartsEnd
  <2>1. request[r].action = "start" /\ request[r].at # "free"
    BY <1>5
  <2>2. CASE request[r].at = "error"
    <3>1. /\ pcap.status # "pending" /\ ~tcpdump /\ ~raw
          /\ \A p \in Requests : request[p].action = "stop" => request[p].at \in {"free", "ok", "error"}
      BY <2>1, <2>2 DEF PcapLeft, StartsEnd
    <3>2. UNCHANGED <<tcpdump, raw>>
      BY <1>4, <3>1
    <3> QED
      BY <1>1, <1>3, <1>5, <1>7, <2>2, <3>1, <3>2
  <2>3. CASE request[r].at # "error"
    <3>1. request'[r].at # "isolate" /\ (request'[r].at = "error" => outcome = "error")
      BY <1>2, <1>5, <1>6, <2>1, <2>3
    <3>2. outcome = "error" => \A p \in Requests : request'[p].action = "stop" =>
                                 request'[p].at \in {"free", "ok", "error"}
      BY <1>5, <1>7, <1>8
    <3> QED
      BY <1>1, <1>3, <1>8, <3>1, <3>2
  <2> QED
    BY <2>2, <2>3
<1>11. StopsFollow'
  BY <1>1, <1>3, <1>5, <1>7 DEF PcapLeft, StopsFollow
<1>12. PcapHasItsPath'
  <2>1. CASE pcap.status = "pending"
    <3>1. outcome = "ok" /\ tcpdump' /\ raw' /\ request'[q].at = "ok"
      BY <1>4, <1>5, <1>8, <2>1 DEF PcapLeft, PcapHasItsPath
    <3> QED
      BY <1>1, <1>5, <2>1, <3>1 DEF PcapLeft, PcapHasItsPath
  <2>2. CASE pcap.status = "capturing" /\ tcpdump
    <3>1. UNCHANGED <<tcpdump, raw>> /\ tcpdump /\ raw
      BY <1>4, <2>2 DEF PcapLeft, PcapHasItsPath
    <3>2. \A r \in Requests : request'[r].action = "stop" => request'[r].at \in {"free", "waiting", "begin"}
      BY <1>5, <1>7, <2>2 DEF PcapLeft, PcapHasItsPath
    <3> QED
      BY <1>1, <2>2, <3>1, <3>2 DEF PcapLeft, PcapHasItsPath
  <2>3. CASE pcap.status = "capturing" /\ ~tcpdump
    <3>1. PICK s \in Requests : /\ request[s].action = "stop"
                                /\ request[s].at = "isolate" \/ (request[s].at \in {"ok", "error"} /\ ~raw)
      BY <2>3 DEF PcapLeft, PcapHasItsPath
    <3>2. request[s].at \in {"ok", "error"} /\ ~raw /\ request'[s].at = request[s].at
          /\ request'[s].action = "stop"
      BY <1>3, <1>5, <3>1
    <3>3. UNCHANGED <<tcpdump, raw>>
      BY <1>4, <2>3
    <3> QED
      BY <1>1, <2>3, <3>2, <3>3 DEF PcapLeft, PcapHasItsPath
  <2>4. CASE pcap.status \in {"available", "failed", "expired"}
    <3>1. UNCHANGED <<tcpdump, raw>>
      BY <1>4, <2>4
    <3> QED
      BY <1>1, <2>4, <3>1 DEF PcapLeft, PcapHasItsPath
  <2> QED
    BY <1>6, <2>1, <2>2, <2>3, <2>4
<1> QED
  BY <1>9, <1>10, <1>11, <1>12 DEF PcapLeft

LEMMA StopIsTaken ==
  ASSUME PcapInv, PcapLeft, NEW q \in Requests, StopCapture(q)
  PROVE  PcapLeft'
<1>1. /\ request[q].at = "begin" /\ request[q].action = "stop" /\ ~tcpdump'
      /\ request' = [request EXCEPT ![q].at = "isolate"]
      /\ UNCHANGED <<life, over, pcap, client, inFlight, raw, final>>
  BY DEF StopCapture, callVars
<1>2. /\ DOMAIN request = Requests
      /\ \A r \in Requests : DOMAIN request[r] = {"action", "at", "leader"}
      /\ \A c \in Clients : client[c] # NoRequest => client[c] \in Requests
  BY DEF PcapInv, PcapTypeOK
<1>3. /\ \A r \in Requests : request'[r].action = request[r].action
      /\ request'[q].at = "isolate" /\ \A r \in Requests \ {q} : request'[r].at = request[r].at
  BY <1>1, <1>2
<1>4. /\ client["timer"] = q /\ pcap.status = "capturing"
      /\ \A r \in Requests : request[r].action = "start" => request[r].at # "error"
  BY <1>1 DEF PcapLeft, StopsFollow, StartsEnd
<1>5. Awaited'
  BY <1>1, <1>2, <1>3 DEF PcapLeft, Awaited
<1>6. StartsEnd'
  BY <1>1, <1>3, <1>4 DEF PcapLeft, StartsEnd
<1>7. StopsFollow'
  BY <1>1, <1>3, <1>4 DEF PcapLeft, StopsFollow
<1>8. PcapHasItsPath'
  BY <1>1, <1>3, <1>4 DEF PcapLeft, PcapHasItsPath
<1> QED
  BY <1>5, <1>6, <1>7, <1>8 DEF PcapLeft

LEMMA StopIsDone ==
  ASSUME PcapInv, PcapLeft, NEW q \in Requests, IsolateCapture(q)
  PROVE  PcapLeft'
<1>1. PICK outcome \in {"ok", "error"} : After(q, outcome)
  BY DEF IsolateCapture
<1>2. /\ request[q].at = "isolate" /\ Running(q) /\ raw' = FALSE
      /\ UNCHANGED <<life, over, pcap, client, tcpdump>>
  BY DEF IsolateCapture, Running, callVars
<1>3. /\ \A r \in Requests : /\ request'[r].action = request[r].action
                             /\ request'[r].at = "free" <=> request[r].at = "free"
      /\ \A r \in Requests : request[r].at \in {"free", "ok", "error"} => request'[r].at = request[r].at
      /\ \A r \in Requests : r = q \/ request[r].at = "joined" =>
           request'[r].at = outcome /\ request[r].action = request[q].action
      /\ \A r \in Requests : request[r].at = "waiting" => request'[r].at \in {"begin", "joined"}
      /\ \A r \in Requests : request[r].at \in {"begin", "isolate"} <=> r = q
  BY <1>1, <1>2, AfterMoves
<1>4. /\ \A r \in Requests :
           request[r].at \in {"free", "begin", "isolate", "joined", "waiting", "ok", "error"}
      /\ \A r \in Requests : request[r].at # "free" => request[r].action \in {"start", "stop"}
      /\ \A c \in Clients : client[c] # NoRequest => client[c] \in Requests
  BY DEF PcapInv, PcapTypeOK, CoordinatorInv, RequestsAsk
<1>5. request[q].action = "stop"
  BY <1>2, <1>4 DEF PcapLeft, StartsEnd
<1>6. /\ client["timer"] = q /\ pcap.status = "capturing" /\ ~tcpdump
      /\ \A r \in Requests : request[r].action = "start" =>
           request[r].at # "error" /\ request'[r].at \notin {"isolate", "error"}
  <2>1. client["timer"] = q /\ pcap.status = "capturing"
    BY <1>2, <1>5 DEF PcapLeft, StopsFollow
  <2>2. ~tcpdump
    BY <1>2, <1>5, <2>1 DEF PcapLeft, PcapHasItsPath
  <2>3. ASSUME NEW r \in Requests, request[r].action = "start"
        PROVE  request[r].at # "error" /\ request'[r].at \notin {"isolate", "error"}
    <3>1. request[r].at \notin {"isolate", "error"} /\ r # q
      BY <1>2, <1>5, <2>3 DEF PcapLeft, StartsEnd
    <3>2. request[r].at # "joined" /\ request[r].at # "begin"
      BY <1>3, <1>5, <2>3, <3>1
    <3> QED
      BY <1>3, <1>4, <3>1, <3>2
  <2> QED
    BY <2>1, <2>2, <2>3
<1>7. Awaited'
  BY <1>2, <1>3, <1>4 DEF PcapLeft, Awaited
<1>8. StartsEnd'
  BY <1>2, <1>3, <1>6 DEF PcapLeft, StartsEnd
<1>9. StopsFollow'
  <2>1. \A r \in Requests : request[r].action = "stop" /\ request[r].at # "free" => r = q
    BY <1>6 DEF PcapLeft, StopsFollow
  <2> QED
    BY <1>2, <1>3, <1>6, <2>1 DEF StopsFollow
<1>11. PcapHasItsPath'
  <2>1. request'[q].at \in {"ok", "error"} /\ request'[q].action = "stop"
    BY <1>3, <1>5
  <2> QED
    BY <1>2, <1>6, <2>1 DEF PcapLeft, PcapHasItsPath
<1> QED
  BY <1>7, <1>8, <1>9, <1>11 DEF PcapLeft

\* A request that is asked.
LEMMA AskAdds ==
  ASSUME PcapInv, NEW c \in Clients, NEW action \in {"start", "stop"}, Ask(c, action)
  PROVE  \E q \in Requests :
           /\ request[q].at = "free" /\ client' = [client EXCEPT ![c] = q]
           /\ request'[q].action = action /\ request'[q].at \in {"begin", "joined", "waiting"}
           /\ \A r \in Requests \ {q} : request'[r] = request[r]
           /\ request'[q].at = "joined" => \E r \in Requests : request[r].at \in {"begin", "isolate"}
                                                      /\ request[r].action = action
           /\ request'[q].at = "begin" => \A r \in Requests : request[r].at \in {"free", "ok", "error"}
<1>1. PICK q \in NextRequests : /\ request' = [request EXCEPT ![q] = Placed(action, inFlight)]
                               /\ client' = [client EXCEPT ![c] = q]
  BY DEF Ask
<1>2. q \in Requests /\ request[q].at = "free"
  BY DEF NextRequests
<1>3. /\ request \in [Requests -> RequestRow] /\ inFlight \in Requests \cup {NoRequest}
      /\ \A r \in Requests : request[r].at \in {"begin", "isolate"} <=> r = inFlight
      /\ inFlight = NoRequest => \A r \in Requests : request[r].at \notin {"joined", "waiting"}
  BY DEF PcapInv, CoordinatorInv, PcapTypeOK, OneCaptureOperation, RequestRow, Running
<1>4. /\ request'[q] = Placed(action, inFlight)
      /\ \A r \in Requests \ {q} : request'[r] = request[r]
  BY <1>1, <1>2, <1>3
<1>5. /\ request'[q].action = action /\ request'[q].at \in {"begin", "joined", "waiting"}
      /\ request'[q].at = "begin" => inFlight = NoRequest
      /\ request'[q].at = "joined" => inFlight # NoRequest /\ request[inFlight].action = action
  BY <1>4 DEF Placed
<1>6. \A r \in Requests : request[r].at \in {"free", "begin", "isolate", "joined", "waiting", "ok", "error"}
  BY <1>3 DEF RequestRow
<1>7. request'[q].at = "begin" => \A r \in Requests : request[r].at \in {"free", "ok", "error"}
  BY <1>3, <1>5, <1>6, PcapAssumption
<1>8. request'[q].at = "joined" => \E r \in Requests : request[r].at \in {"begin", "isolate"}
                                                      /\ request[r].action = action
  BY <1>3, <1>5
<1> QED
  BY <1>1, <1>2, <1>4, <1>5, <1>7, <1>8

LEMMA ClientFacts ==
  ASSUME PcapInv
  PROVE  /\ Clients = {"create", "timer"} /\ DOMAIN client = Clients
         /\ \A c \in Clients : client[c] \in Requests \cup {NoRequest}
         /\ NoRequest \notin Requests
         /\ \A r \in Requests :
              request[r].at \in {"free", "begin", "isolate", "joined", "waiting", "ok", "error"}
         /\ \A r \in Requests : request[r].at # "free" => request[r].action \in {"start", "stop"}
BY PcapAssumption DEF PcapInv, PcapTypeOK, Clients, CoordinatorInv, RequestsAsk

LEMMA StartIsAsked ==
  ASSUME PcapInv, PcapLeft, InTime, NEW c \in Clients, AskStart(c)
  PROVE  PcapLeft'
<1>1. /\ client[c] = NoRequest /\ over \subseteq {"grace"}
      /\ UNCHANGED <<life, over, pcap, tcpdump, raw, final>>
  BY DEF AskStart, InTime, callVars
<1>2. PICK q \in Requests :
           /\ request[q].at = "free" /\ client' = [client EXCEPT ![c] = q]
           /\ request'[q].action = "start" /\ request'[q].at \in {"begin", "joined", "waiting"}
           /\ \A r \in Requests \ {q} : request'[r] = request[r]
  BY AskAdds DEF AskStart
\* The timer asks for a start only before there is a stop.
<1>3. \A r \in Requests : request[r].action = "stop" /\ request[r].at # "free" =>
        c # "timer" /\ client'["timer"] = r
  <2>1. \A r \in Requests : request[r].action = "stop" /\ request[r].at # "free" =>
          client["timer"] = r /\ r # NoRequest
    BY ClientFacts DEF PcapLeft, StopsFollow
  <2> QED
    BY <1>1, <1>2, <2>1, ClientFacts
<1>4. Awaited'
  <2>1. client'[c] = q /\ \A d \in Clients \ {c} : client'[d] = client[d] /\ client[d] # q
    BY <1>2, ClientFacts DEF PcapLeft, Awaited
  <2>2. \A r \in Requests : request'[r].at # "free" => \E d \in Clients : client'[d] = r
    BY <1>1, <1>2, <2>1, ClientFacts DEF PcapLeft, Awaited
  <2>3. \A d \in Clients : client'[d] # NoRequest => request'[client'[d]].at # "free"
    BY <1>1, <1>2, <2>1, ClientFacts DEF PcapLeft, Awaited
  <2>4. client'["create"] # client'["timer"]
    BY <1>1, <1>2, <2>1, ClientFacts
  <2> QED
    BY <2>2, <2>3, <2>4 DEF Awaited
<1>5. StartsEnd'
  BY <1>1, <1>2 DEF PcapLeft, StartsEnd
<1>6. StopsFollow'
  BY <1>1, <1>2, <1>3 DEF PcapLeft, StopsFollow
<1>8. PcapHasItsPath'
  BY <1>1, <1>2 DEF PcapLeft, PcapHasItsPath
<1> QED
  BY <1>4, <1>5, <1>6, <1>8 DEF PcapLeft

LEMMA StopIsAsked ==
  ASSUME PcapInv, PcapLeft, AskStop
  PROVE  PcapLeft'
<1>1. /\ client["timer"] = NoRequest /\ pcap.status = "capturing"
      /\ UNCHANGED <<life, over, pcap, tcpdump, raw, final>>
  BY DEF AskStop, callVars
<1>2. PICK q \in Requests :
           /\ request[q].at = "free" /\ client' = [client EXCEPT !["timer"] = q]
           /\ request'[q].action = "stop" /\ request'[q].at \in {"begin", "joined", "waiting"}
           /\ \A r \in Requests \ {q} : request'[r] = request[r]
           /\ request'[q].at = "joined" => \E r \in Requests : request[r].at \in {"begin", "isolate"}
                                                      /\ request[r].action = "stop"
           /\ request'[q].at = "begin" => \A r \in Requests : request[r].at \in {"free", "ok", "error"}
  BY AskAdds DEF AskStop, Clients
<1>3. \A r \in Requests : request[r].action = "stop" => request[r].at = "free"
  BY <1>1, ClientFacts DEF PcapLeft, StopsFollow
<1>4. request'[q].at \in {"begin", "waiting"}
  BY <1>2, <1>3
<1>5. client'["timer"] = q /\ client'["create"] = client["create"] /\ client["create"] # q
  BY <1>2, ClientFacts DEF PcapLeft, Awaited
<1>6. Awaited'
  <2>1. \A r \in Requests : request'[r].at # "free" => \E d \in Clients : client'[d] = r
    BY <1>1, <1>2, <1>5, ClientFacts DEF PcapLeft, Awaited
  <2>2. \A d \in Clients : client'[d] # NoRequest => request'[client'[d]].at # "free"
    BY <1>1, <1>2, <1>5, ClientFacts DEF PcapLeft, Awaited
  <2> QED
    BY <1>5, <2>1, <2>2 DEF Awaited
<1>7. tcpdump /\ \A r \in Requests : request[r].action = "start" => request[r].at # "error"
  <2>1. tcpdump
    BY <1>1, <1>3 DEF PcapLeft, PcapHasItsPath
  <2> QED
    BY <2>1 DEF PcapLeft, StartsEnd
<1>8. StartsEnd'
  BY <1>1, <1>2, <1>7 DEF PcapLeft, StartsEnd
<1>9. StopsFollow'
  BY <1>1, <1>2, <1>3, <1>5 DEF StopsFollow
<1>10. PcapHasItsPath'
  BY <1>1, <1>2, <1>3, <1>4 DEF PcapLeft, PcapHasItsPath
<1> QED
  BY <1>6, <1>7, <1>8, <1>9, <1>10 DEF PcapLeft

\* The answer to a client's request, and the request is free again.
LEMMA AnswerIsTaken ==
  ASSUME PcapInv, Awaited, NEW c \in Clients, client[c] # NoRequest, Consume(c)
  PROVE  /\ Awaited' /\ client[c] \in Requests
         /\ request'[client[c]].at = "free" /\ request'[client[c]].action = "none"
         /\ \A r \in Requests \ {client[c]} : request'[r] = request[r]
         /\ \A d \in Clients \ {c} : client'[d] = client[d]
<1>1. client[c] \in Requests
  BY ClientFacts
<1>2. /\ request'[client[c]] = Free
      /\ \A r \in Requests \ {client[c]} : request'[r] = request[r]
  BY <1>1 DEF Consume, PcapInv, PcapTypeOK
<1>3. /\ client'[c] = NoRequest
      /\ \A d \in Clients \ {c} :
           client'[d] = client[d] /\ (client[d] # client[c] \/ client[d] = NoRequest)
  BY ClientFacts DEF Consume, Awaited
<1>4. Free.at = "free" /\ Free.action = "none"
  BY DEF Free
<1>5. Awaited'
  <2>1. \A r \in Requests : request'[r].at # "free" => \E d \in Clients : client'[d] = r
    BY <1>2, <1>3, <1>4 DEF Awaited
  <2>2. \A d \in Clients : client'[d] # NoRequest => request'[client'[d]].at # "free"
    BY <1>1, <1>2, <1>3, ClientFacts DEF Awaited
  <2>3. client'["create"] # client'["timer"] \/ client'["create"] = NoRequest
    BY <1>1, <1>3, ClientFacts DEF Awaited
  <2> QED
    BY <2>1, <2>2, <2>3 DEF Awaited
<1> QED
  BY <1>1, <1>2, <1>3, <1>4, <1>5

LEMMA StartIsAnswered ==
  ASSUME PcapInv, PcapLeft, InTime, NEW c \in Clients, StartAnswered(c)
  PROVE  PcapLeft'
<1> DEFINE q == client[c]
<1>1. /\ q # NoRequest /\ request[q].action = "start" /\ request[q].at \in {"ok", "error"}
      /\ Consume(c) /\ UNCHANGED <<life, over, inFlight, tcpdump, raw, final>>
  BY DEF StartAnswered, WaitsFor, HasAnswer, callVars
<1>2. /\ Awaited' /\ q \in Requests
      /\ request'[q].at = "free" /\ request'[q].action = "none"
      /\ \A r \in Requests \ {q} : request'[r] = request[r]
      /\ \A d \in Clients \ {c} : client'[d] = client[d]
  BY <1>1, AnswerIsTaken DEF PcapLeft
<1> HIDE DEF q
<1>3. over \subseteq {"grace"} /\ life # "deleted"
  BY <1>1, <1>2 DEF PcapLeft, StartsEnd, InTime
<1>4. CASE request[q].at = "ok"
  <2>1. pcap' = IF pcap.status = "pending" THEN [status |-> "capturing", path |-> TRUE] ELSE pcap
    BY <1>4 DEF StartAnswered, q
  <2>2. StartsEnd'
    <3>1. pcap'.status = "pending" => pcap.status = "pending"
      BY <2>1
    <3> QED
      BY <1>1, <1>2, <3>1 DEF PcapLeft, StartsEnd
  <2>3. StopsFollow'
    <3> SUFFICES ASSUME NEW r \in Requests, request'[r].action = "stop", request'[r].at # "free"
                 PROVE  /\ client'["timer"] = r
                        /\ \/ pcap'.status = "capturing"
                           \/ /\ pcap'.status = "failed" /\ request'[r].at \in {"ok", "error"}
                              /\ over' \subseteq {"grace"}
      BY DEF StopsFollow
    <3>1. r # q /\ client["timer"] = r /\ request'[r] = request[r]
      BY <1>2 DEF PcapLeft, StopsFollow
    <3>2. c # "timer" /\ pcap.status # "pending"
      BY <1>2, <3>1 DEF q, PcapLeft, StopsFollow
    <3> QED
      BY <1>1, <1>2, <2>1, <3>1, <3>2, ClientFacts DEF PcapLeft, StopsFollow
  <2>4. PcapHasItsPath'
    <3>1. CASE pcap.status = "pending"
      <4>1. raw /\ tcpdump /\ pcap' = [status |-> "capturing", path |-> TRUE]
        BY <1>1, <1>2, <1>4, <2>1, <3>1 DEF PcapLeft, PcapHasItsPath
      <4>2. \A r \in Requests : request'[r].action = "stop" => request'[r].at = "free"
        BY <1>2, <3>1 DEF PcapLeft, StopsFollow
      <4> QED
        BY <1>1, <1>3, <4>1, <4>2 DEF PcapHasItsPath
    <3>2. CASE pcap.status = "capturing"
      BY <1>1, <1>2, <1>3, <2>1, <3>2 DEF PcapLeft, PcapHasItsPath
    <3>3. CASE pcap.status \notin {"pending", "capturing"}
      <4>1. UNCHANGED <<life, pcap, tcpdump, raw, final>>
        BY <1>1, <2>1, <3>3
      <4> QED
        BY <3>3, <4>1 DEF PcapLeft, PcapHasItsPath
    <3> QED
      BY <3>1, <3>2, <3>3
  <2> QED
    BY <1>2, <2>2, <2>3, <2>4 DEF PcapLeft
\* A start that came too late: the stop is done.
<1>5. CASE request[q].at = "error"
  <2>1. /\ pcap.status # "pending" /\ ~tcpdump /\ ~raw
        /\ \A r \in Requests : request[r].action = "stop" => request[r].at \in {"free", "ok", "error"}
    BY <1>1, <1>2, <1>5 DEF PcapLeft, StartsEnd
  <2>2. pcap' = IF pcap.status \in {"pending", "capturing"}
                THEN [pcap EXCEPT !.status = "failed"] ELSE pcap
    BY <1>5 DEF StartAnswered, MarkPcapFailed, q
  <2>3. /\ pcap'.path = pcap.path
        /\ pcap.status = "capturing" => pcap'.status = "failed"
        /\ pcap.status # "capturing" => pcap'.status = pcap.status
    BY <2>1, <2>2 DEF PcapInv, PcapTypeOK
  <2>4. StartsEnd'
    BY <1>1, <1>2, <2>1, <2>3 DEF PcapLeft, StartsEnd
  <2>5. StopsFollow'
    <3> SUFFICES ASSUME NEW r \in Requests, request'[r].action = "stop", request'[r].at # "free"
                 PROVE  /\ client'["timer"] = r /\ pcap'.status = "failed"
                        /\ request'[r].at \in {"ok", "error"} /\ over' \subseteq {"grace"}
      BY DEF StopsFollow
    <3>1. r # q /\ client["timer"] = r /\ request'[r] = request[r]
      BY <1>2 DEF PcapLeft, StopsFollow
    <3>2. c # "timer" /\ pcap.status \in {"capturing", "failed"}
      BY <1>2, <3>1 DEF q, PcapLeft, StopsFollow
    <3> QED
      BY <1>1, <1>2, <1>3, <2>1, <2>3, <3>1, <3>2, ClientFacts
  <2>6. PcapHasItsPath'
    <3>1. pcap'.status \in {"available", "failed", "expired"}
      BY <2>1, <2>3 DEF PcapInv, PcapTypeOK
    <3>2. /\ pcap'.status = "expired" => pcap.status = "expired"
          /\ pcap'.status \in {"available", "failed"} =>
               pcap.status \in {"capturing", "available", "failed"}
      BY <2>3, <3>1
    <3> QED
      BY <1>1, <1>3, <2>1, <2>3, <3>1, <3>2 DEF PcapLeft, PcapHasItsPath
  <2> QED
    BY <1>2, <2>4, <2>5, <2>6 DEF PcapLeft
<1> QED
  BY <1>1, <1>4, <1>5

LEMMA StopIsAnswered ==
  ASSUME PcapInv, PcapLeft, NEW c \in Clients, StopAnswered(c)
  PROVE  PcapLeft'
<1> DEFINE q == client[c]
<1>1. /\ q # NoRequest /\ request[q].action = "stop" /\ request[q].at \in {"ok", "error"}
      /\ Consume(c) /\ UNCHANGED <<life, over, inFlight, tcpdump, raw, final>>
  BY DEF StopAnswered, WaitsFor, HasAnswer, callVars
<1>2. /\ Awaited' /\ q \in Requests
      /\ request'[q].at = "free" /\ request'[q].action = "none"
      /\ \A r \in Requests \ {q} : request'[r] = request[r]
  BY <1>1, AnswerIsTaken DEF PcapLeft
<1>3. /\ pcap.status \in {"capturing", "failed"} /\ pcap.path
      /\ \A r \in Requests : request[r].action = "stop" /\ request[r].at # "free" => r = q
      /\ pcap.status = "failed" => over \subseteq {"grace"}
  BY <1>1, <1>2 DEF PcapLeft, StopsFollow, PcapHasItsPath
<1>4. ~tcpdump /\ ~raw /\ life # "deleted"
  BY <1>1, <1>2, <1>3 DEF PcapLeft, PcapHasItsPath
<1>5. pcap' = [status |-> "available", path |-> TRUE]
      \/ pcap' = [pcap EXCEPT !.status = "failed"] \/ (pcap.status = "failed" /\ pcap' = pcap)
  BY <1>1, <1>3 DEF StopAnswered, MarkPcapFailed
<1>6. pcap'.status \in {"available", "failed"} /\ pcap'.path
  BY <1>3, <1>5 DEF PcapInv, PcapTypeOK
<1> HIDE DEF q
<1>7. StartsEnd'
  BY <1>1, <1>2, <1>6 DEF PcapLeft, StartsEnd
<1>8. StopsFollow'
  BY <1>2, <1>3 DEF StopsFollow
<1>9. PcapHasItsPath'
  BY <1>1, <1>4, <1>6 DEF PcapHasItsPath
<1> QED
  BY <1>2, <1>7, <1>8, <1>9 DEF PcapLeft

\* A step of the capture service or of the API, without a mishap.
LEMMA PcapStaysLeft ==
  ASSUME PcapInv, PcapLeft, InTime, mishaps' = mishaps, PcapNext, ~stray'
  PROVE  PcapLeft'
<1>1. ~Mishap /\ mishaps \in Nat
  BY DEF Mishap, InTime
<1>2. \A q \in Requests : ~AnswerDropped(q)
  BY ClientFacts DEF AnswerDropped, HasAnswer, PcapLeft, Awaited
<1>3. ~ServiceRestarts /\ ~ApiRestarts /\ \A c \in Clients : ~GivesUp(c)
  BY <1>1 DEF ServiceRestarts, ApiRestarts, GivesUp
<1>4. (\E q \in Requests : ServiceStep(q)) => PcapLeft'
  BY <1>1, StartIsDone, StopIsTaken, StopIsDone DEF ServiceStep
<1>5. (\E c \in Clients : AskStart(c) \/ StartAnswered(c) \/ StopAnswered(c)) => PcapLeft'
  BY StartIsAsked, StartIsAnswered, StopIsAnswered
<1>6. AskStop => PcapLeft'
  BY StopIsAsked
<1> QED
  BY <1>2, <1>3, <1>4, <1>5, <1>6 DEF PcapNext

\* The other steps: the call ends, a period ends, a retention run.
OtherStep ==
  \/ /\ CallEnds \/ (PeriodEnds /\ (AtRest \/ over' \ over = {"grace"}))
     /\ UNCHANGED <<recordingVars, pcapVars, retentionVars>>
  \/ RecordingNext /\ UNCHANGED <<pcapVars, retentionVars>>
  \/ \E w \in Sweeps : SweepBegins(w) \/ ListFiles(w) \/ Unlink(w)
                       \/ SweepCommits(w) \/ SweepDies(w)

LEMMA RetentionKeepsPcap ==
  ASSUME FilesInv, InTime, PcapLeft, ~stray', OtherStep
  PROVE  PcapLeft'
<1>1. ASSUME UNCHANGED pcapVars, life' = "deleted" => life = "deleted",
             over' = over \/ AtRest \/ over' \ over = {"grace"}
      PROVE  PcapLeft'
  <2>1. UNCHANGED <<pcap, client, request, inFlight, tcpdump, raw, final>>
    BY <1>1 DEF pcapVars
  <2>2. Awaited'
    BY <2>1 DEF PcapLeft, Awaited
  <2>3. StartsEnd' /\ StopsFollow'
    <3>1. AtRest => \A q \in Requests : request[q].at = "free"
      BY DEF AtRest
    <3>2. over \subseteq {"grace"} /\ (over' = over \/ over' \ over = {"grace"}) => over' \subseteq {"grace"}
      OBVIOUS
    <3> QED
      BY <1>1, <2>1, <3>1, <3>2 DEF PcapLeft, StartsEnd, StopsFollow
  <2>4. PcapHasItsPath'
    BY <1>1, <2>1 DEF PcapLeft, PcapHasItsPath
  <2> QED
    BY <2>2, <2>3, <2>4 DEF PcapLeft
<1>2. CASE /\ CallEnds \/ (PeriodEnds /\ (AtRest \/ over' \ over = {"grace"}))
           /\ UNCHANGED <<recordingVars, pcapVars, retentionVars>>
  BY <1>1, <1>2 DEF CallEnds, PeriodEnds, retentionVars
<1>3. CASE RecordingNext /\ UNCHANGED <<pcapVars, retentionVars>>
  BY <1>1, <1>3, RecordingsAreKept DEF FilesInv, retentionVars
<1>4. ASSUME NEW w \in Sweeps, SweepBegins(w) \/ ListFiles(w) \/ SweepDies(w) PROVE PcapLeft'
  BY <1>1, <1>4 DEF SweepBegins, ListFiles, SweepDies, callVars
<1>5. ASSUME NEW w \in Sweeps, Unlink(w) PROVE PcapLeft'
  <2>1. UNCHANGED <<life, over, pcap, client, request, tcpdump, raw>> /\ (final' => final)
    BY <1>5 DEF Unlink, callVars
  <2>2. PcapHasItsPath'
    BY <2>1 DEF PcapLeft, PcapHasItsPath
  <2> QED
    BY <2>1, <2>2 DEF PcapLeft, Awaited, StartsEnd, StopsFollow
<1>6. ASSUME NEW w \in Sweeps, SweepCommits(w) PROVE PcapLeft'
  <2>1. /\ UNCHANGED <<over, client, request, tcpdump, raw, final>> /\ pcap' = PcapCleared(w)
        /\ ~(final /\ pcap'.path # pcap.path)
        /\ life' = "deleted" => life = "deleted" \/ ~pcap'.path
    BY <1>6 DEF SweepCommits, DeletesCall
  <2>2. CASE pcap' = pcap
    BY <2>1, <2>2 DEF PcapLeft, Awaited, StartsEnd, StopsFollow, PcapHasItsPath
  <2>3. CASE pcap' # pcap
    <3>1. /\ pcap.path /\ pcap.status \in {"available", "failed"}
          /\ pcap' = [pcap EXCEPT !.status = "expired", !.path = FALSE]
      BY <2>1, <2>3 DEF PcapCleared
    <3>2. pcap'.status = "expired" /\ ~pcap'.path
      BY <3>1 DEF FilesInv, PcapInv, PcapTypeOK
    <3>3. PcapHasItsPath'
      BY <2>1, <3>1, <3>2 DEF PcapLeft, PcapHasItsPath
    <3>4. "pcap" \in over
      BY <2>1, <2>3 DEF PcapCleared, FilesInv, SweepsArePastPeriod
    <3>5. StopsFollow'
      BY <2>1, <3>1, <3>4 DEF PcapLeft, StopsFollow
    <3>6. StartsEnd'
      BY <2>1, <3>2, <3>4 DEF PcapLeft, StartsEnd
    <3> QED
      BY <2>1, <3>3, <3>5, <3>6 DEF PcapLeft, Awaited
  <2> QED
    BY <2>2, <2>3
<1> QED
  BY <1>2, <1>3, <1>4, <1>5, <1>6 DEF OtherStep

LEMMA LeftStep == FilesInv /\ LeftInv /\ [FilesNext]_filesVars => LeftInv'
<1> SUFFICES ASSUME FilesInv, LeftInv, [FilesNext]_filesVars PROVE LeftInv'
  OBVIOUS
<1>1. InTime' /\ UnlinkedIsGone'
  BY InTimeStep DEF LeftInv
<1>2. ASSUME mishaps' = 0 PROVE mishaps = 0 /\ RecordingHasItsPath'
  BY <1>2, MishapsAreCounted, RecordingKeepsItsPath DEF LeftInv, InTime
<1>3. ASSUME mishaps' = 0, ~stray' PROVE PcapLeft'
  <2>1. mishaps = 0 /\ ~stray
    BY <1>2, <1>3, HistoryStays
  <2>2. InTime /\ PcapLeft /\ PcapInv
    BY <2>1 DEF LeftInv, PcapLeft, FilesInv
  <2>3. CASE PcapNext
    BY <1>3, <2>1, <2>2, <2>3, PcapStaysLeft
  <2>4. CASE OtherStep
    BY <1>3, <2>2, <2>4, RetentionKeepsPcap
  <2>5. CASE UNCHANGED filesVars
    BY <2>2, <2>5 DEF filesVars, callVars, pcapVars, PcapLeft, Awaited, StartsEnd, StopsFollow,
       PcapHasItsPath
  <2> QED
    BY <2>3, <2>4, <2>5 DEF FilesNext, OtherStep
<1> QED
  BY <1>1, <1>2, <1>3 DEF LeftInv, PcapLeft

LEMMA LeftIsFound == LeftInv /\ FilesInv => NothingIsLeftBehind
<1> SUFFICES ASSUME LeftInv, FilesInv, mishaps = 0, ~stray
             PROVE  /\ file # "none" => life # "deleted" /\ recording.path
                    /\ raw \/ final => life # "deleted" /\ (pcap.path \/ pcap.status = "pending")
  BY DEF NothingIsLeftBehind
<1>1. InTime /\ RecordingHasItsPath /\ StartsEnd /\ PcapHasItsPath
  BY DEF LeftInv
<1>2. PcapInv
  BY DEF FilesInv
<1>3. raw \/ final => pcap.path \/ pcap.status = "pending"
  BY <1>1, <1>2 DEF PcapHasItsPath, PcapInv, PcapTypeOK
<1>4. life = "deleted" => ~raw /\ ~final
  BY <1>1, <1>3 DEF InTime, StartsEnd, PcapHasItsPath
<1> QED
  BY <1>1, <1>3, <1>4 DEF RecordingHasItsPath

\* Nothing is left behind that no later retention run would find: without a
\* mishap, a file on disk belongs to a call whose row has its path or will
\* get it (dashboard/retention.ts, pcap-capture.ts and the recording of
\* esl-events.ts).
THEOREM NoFileIsForgotten == FilesSpec => []NothingIsLeftBehind
BY LeftIsFound, FilesInvariant, LeftBegins, LeftStep, PTL DEF FilesSpec

------------------------------------------------------------------------------
(* The library of recordings.  A request that inserts has its recording to  *)
(* itself; without a mishap every request has, its row says how far the     *)
(* request has come, and its file is there until the request removes it.    *)

LibraryRow == {"none", "active", "default", "deleted"}
ErrandRow == [at : {"idle", "insert", "undoUpload", "unlink", "restore"},
              recording : Recordings \cup {NoRecording}]
DialRow == [open : BOOLEAN, recording : Recordings \cup {NoRecording},
            by : {"none", "creation", "drop"}, drop : Recordings \cup {NoRecording}]

OneDefaultIn(rows) ==
  /\ \A r, s \in Recordings : rows[r] = "default" /\ rows[s] = "default" => r = s
  /\ \A r \in Recordings : rows[r] = "active" => \E s \in Recordings : rows[s] = "default"

CallsKeepTheirs ==
  \A c \in Dials : dial[c].open /\ dial[c].by = "creation" /\ dial[c].recording # NoRecording =>
    library[dial[c].recording] \in {"active", "default"}

ErrandsHaveRecordings ==
  \A a \in Admins :
    /\ errand[a].at = "idle" => errand[a].recording = NoRecording
    /\ errand[a].at # "idle" => errand[a].recording \in Recordings
    /\ errand[a].at = "insert" =>
         /\ library[errand[a].recording] = "none"
         /\ \A b \in Admins \ {a} : errand[b].recording # errand[a].recording

FilesOfLibrary ==
  /\ \A r \in Recordings : library[r] \in {"active", "default"} => r \in disk
  /\ \A a \in Admins :
       /\ errand[a].at \in {"insert", "unlink", "restore"} => errand[a].recording \in disk
       /\ errand[a].at = "undoUpload" => library[errand[a].recording] = "none"
       /\ errand[a].at \in {"unlink", "restore"} => library[errand[a].recording] = "deleted"
       /\ errand[a].at # "idle" =>
            \A b \in Admins \ {a} : errand[b].recording # errand[a].recording

LibraryInv ==
  /\ LibraryTypeOK
  /\ OneDefaultIn(library) /\ CallsKeepTheirs /\ ErrandsHaveRecordings
  /\ setbacks = 0 => FilesOfLibrary

LEMMA LibraryBegins == LibraryInit => LibraryInv
<1> SUFFICES ASSUME LibraryInit PROVE LibraryInv
  OBVIOUS
<1>1. LibraryTypeOK
  BY LibraryAssumption DEF LibraryInit, LibraryTypeOK, NoTask
<1>2. OneDefaultIn(library) /\ CallsKeepTheirs
  BY DEF LibraryInit, OneDefaultIn, CallsKeepTheirs
<1>3. ErrandsHaveRecordings /\ FilesOfLibrary
  BY DEF LibraryInit, ErrandsHaveRecordings, FilesOfLibrary, NoTask
<1> QED
  BY <1>1, <1>2, <1>3 DEF LibraryInv

\* What the transactions do to the rows: r becomes the default, and nothing
\* that could be chosen is lost.
LEMMA OnlyDefaultIsOne ==
  ASSUME NEW rows \in [Recordings -> LibraryRow], NEW r \in Recordings
  PROVE  /\ OnlyDefault(rows, r) \in [Recordings -> LibraryRow]
         /\ OneDefaultIn(OnlyDefault(rows, r))
         /\ \A x \in Recordings : rows[x] \in {"active", "default"} =>
              OnlyDefault(rows, r)[x] \in {"active", "default"}
         /\ \A x \in Recordings \ {r} : rows[x] \notin {"active", "default"} =>
              OnlyDefault(rows, r)[x] = rows[x]
         /\ OnlyDefault(rows, r)[r] = "default"
BY DEF OnlyDefault, OneDefaultIn, LibraryRow

\* One row becomes active, a default being there already.
LEMMA OneMoreActive ==
  ASSUME NEW rows \in [Recordings -> LibraryRow], NEW r \in Recordings, rows[r] # "default",
         OneDefaultIn(rows), \E s \in Recordings : rows[s] = "default"
  PROVE  OneDefaultIn([rows EXCEPT ![r] = "active"])
BY DEF OneDefaultIn, LibraryRow

\* The first recording that can be chosen is the default.
LEMMA FirstIsDefault ==
  ASSUME NEW rows \in [Recordings -> LibraryRow], NEW r \in Recordings, OneDefaultIn(rows),
         ~ \E s \in Recordings : rows[s] = "default"
  PROVE  OneDefaultIn([rows EXCEPT ![r] = "default"])
BY DEF OneDefaultIn, LibraryRow

\* An inserted recording is the default if it has to be, and the others can
\* be chosen as before.
LEMMA InsertedIsUsable ==
  ASSUME library \in [Recordings -> LibraryRow], OneDefaultIn(library),
         NEW r \in Recordings, library[r] = "none", NEW makeDefault \in BOOLEAN
  PROVE  /\ Inserted(r, makeDefault) \in [Recordings -> LibraryRow]
         /\ OneDefaultIn(Inserted(r, makeDefault))
         /\ \A x \in Recordings : library[x] \in {"active", "default"} =>
              Inserted(r, makeDefault)[x] \in {"active", "default"}
         /\ \A x \in Recordings \ {r} : library[x] \notin {"active", "default"} =>
              Inserted(r, makeDefault)[x] = library[x]
<1>1. CASE makeDefault \/ DefaultOnes = {}
  <2>1. Inserted(r, makeDefault) = OnlyDefault(library, r)
    BY <1>1 DEF Inserted
  <2> QED
    BY <2>1, OnlyDefaultIsOne
<1>2. CASE ~(makeDefault \/ DefaultOnes = {})
  <2>1. Inserted(r, makeDefault) = [library EXCEPT ![r] = "active"]
    BY <1>2 DEF Inserted
  <2>2. \E s \in Recordings : library[s] = "default"
    BY <1>2 DEF DefaultOnes
  <2>3. OneDefaultIn([library EXCEPT ![r] = "active"])
    BY <2>2, OneMoreActive
  <2> QED
    BY <2>1, <2>3 DEF LibraryRow
<1> QED
  BY <1>1, <1>2

LEMMA LibraryStep == LibraryInv /\ [LibraryNext]_libraryVars => LibraryInv'
<1> SUFFICES ASSUME LibraryInv, [LibraryNext]_libraryVars PROVE LibraryInv'
  OBVIOUS
<1> DEFINE Rows == [Recordings -> LibraryRow]
           Kept ==
             /\ library' \in Rows /\ disk' \subseteq Recordings
             /\ errand' \in [Admins -> ErrandRow] /\ dial' \in [Dials -> DialRow]
             /\ setbacks' \in 0 .. MaxLost
             /\ OneDefaultIn(library') /\ CallsKeepTheirs' /\ ErrandsHaveRecordings'
             /\ setbacks' = 0 => FilesOfLibrary'
<1>1. /\ library \in Rows /\ disk \subseteq Recordings
      /\ errand \in [Admins -> ErrandRow] /\ dial \in [Dials -> DialRow]
      /\ setbacks \in 0 .. MaxLost /\ MaxLost \in Nat /\ NoRecording \notin Recordings
      /\ OneDefaultIn(library) /\ CallsKeepTheirs /\ ErrandsHaveRecordings
      /\ setbacks = 0 => FilesOfLibrary
  BY LibraryAssumption DEF LibraryInv, LibraryTypeOK, LibraryRow, ErrandRow, DialRow
<1>2. SUFFICES Kept
  BY DEF LibraryInv, LibraryTypeOK, LibraryRow, ErrandRow, DialRow
<1>3. Lose => setbacks' \in 0 .. MaxLost /\ setbacks' # 0
  BY <1>1 DEF Lose
<1>4. NoTask \in ErrandRow /\ NoTask.at = "idle" /\ NoTask.recording = NoRecording
  BY DEF NoTask, ErrandRow
<1>5. /\ \A a \in Admins : /\ errand[a].at \in {"idle", "insert", "undoUpload", "unlink", "restore"}
                           /\ errand[a].recording \in Recordings \cup {NoRecording}
                           /\ errand[a].at = "idle" => errand[a].recording = NoRecording
                           /\ errand[a].at # "idle" => errand[a].recording \in Recordings
      /\ \A r \in Recordings : library[r] \in LibraryRow
  BY <1>1 DEF ErrandRow, ErrandsHaveRecordings
<1>6. ASSUME NEW a \in Admins, Upload(a) PROVE Kept
  <2>1. PICK r \in Recordings :
          /\ library[r] = "none" /\ r \notin disk /\ \A b \in Admins : errand[b].recording # r
          /\ disk' = disk \cup {r}
          /\ errand' = [errand EXCEPT ![a] = [at |-> "insert", recording |-> r]]
    BY <1>6 DEF Upload, InLibrary
  <2>2. UNCHANGED <<library, dial, setbacks>> /\ errand[a].at = "idle"
    BY <1>6 DEF Upload
  <2>3. [at |-> "insert", recording |-> r] \in ErrandRow
    BY DEF ErrandRow
  <2>4. /\ errand' \in [Admins -> ErrandRow] /\ errand'[a] = [at |-> "insert", recording |-> r]
        /\ \A b \in Admins \ {a} : errand'[b] = errand[b]
    BY <1>1, <2>1, <2>3
  <2>5. ErrandsHaveRecordings'
    BY <1>1, <2>1, <2>2, <2>4 DEF ErrandsHaveRecordings
  <2>6. FilesOfLibrary => FilesOfLibrary'
    BY <1>5, <2>1, <2>2, <2>4 DEF FilesOfLibrary
  <2> QED
    BY <1>1, <2>1, <2>2, <2>4, <2>5, <2>6 DEF CallsKeepTheirs
<1>7. ASSUME NEW a \in Admins, NEW place \in {"idle", "undoUpload", "restore"},
             \/ Finish(a) /\ place = "idle"
             \/ Proceed(a, place) /\ place # "idle"
      PROVE  /\ errand' \in [Admins -> ErrandRow] /\ errand'[a].at = place
             /\ \A b \in Admins \ {a} : errand'[b] = errand[b]
             /\ place # "idle" => errand'[a].recording = errand[a].recording
             /\ place = "idle" => errand'[a].recording = NoRecording
  <2>1. CASE Finish(a) /\ place = "idle"
    BY <1>1, <1>4, <2>1 DEF Finish
  <2>2. CASE Proceed(a, place) /\ place # "idle"
    BY <1>1, <2>2 DEF Proceed, ErrandRow
  <2> QED
    BY <1>7, <2>1, <2>2
<1>8. ASSUME NEW a \in Admins, CreateRecording(a) PROVE Kept
  <2> DEFINE r == errand[a].recording
  <2>1. /\ errand[a].at = "insert" /\ r \in Recordings /\ library[r] = "none"
        /\ \A b \in Admins \ {a} : errand[b].recording # r
        /\ UNCHANGED <<disk, dial>>
    BY <1>1, <1>8 DEF CreateRecording, ErrandsHaveRecordings
  <2>2. PICK makeDefault \in BOOLEAN :
       \/ /\ library' = Inserted(r, makeDefault)
          /\ Finish(a)
          /\ UNCHANGED setbacks
       \/ /\ Proceed(a, "undoUpload")
          /\ UNCHANGED <<library, setbacks>>
       \/ /\ Lose
          /\ library' = Inserted(r, makeDefault)
          /\ Proceed(a, "undoUpload")
    BY <1>8 DEF CreateRecording
  <2> HIDE DEF r
  <2>3. PICK place \in {"idle", "undoUpload"} :
        /\ errand' \in [Admins -> ErrandRow] /\ errand'[a].at = place
        /\ \A b \in Admins \ {a} : errand'[b] = errand[b]
        /\ place # "idle" => errand'[a].recording = r
        /\ place = "idle" => errand'[a].recording = NoRecording
        /\ place = "idle" \/ library' = library \/ setbacks' # 0
    BY <1>3, <1>7, <2>2 DEF r
  <2>4. /\ library' \in Rows /\ OneDefaultIn(library')
        /\ \A x \in Recordings : library[x] \in {"active", "default"} => library'[x] \in {"active", "default"}
        /\ \A x \in Recordings \ {r} : library[x] \notin {"active", "default"} => library'[x] = library[x]
    <3>1. CASE library' = library
      BY <1>1, <3>1
    <3>2. CASE library' = Inserted(r, makeDefault)
      BY <1>1, <2>1, <3>2, InsertedIsUsable
    <3> QED
      BY <2>2, <3>1, <3>2
  <2>5. setbacks' \in 0 .. MaxLost /\ (setbacks' = 0 => setbacks = 0)
    BY <1>1, <1>3, <2>2
  <2>6. CallsKeepTheirs'
    BY <1>1, <2>1, <2>4 DEF CallsKeepTheirs, DialRow
  <2>7. ErrandsHaveRecordings'
    BY <1>1, <1>5, <2>1, <2>3, <2>4 DEF ErrandsHaveRecordings
  <2>8. setbacks' = 0 /\ FilesOfLibrary => FilesOfLibrary'
    <3> SUFFICES ASSUME setbacks' = 0, FilesOfLibrary PROVE FilesOfLibrary'
      OBVIOUS
    <3>1. \A x \in Recordings : library'[x] \in {"active", "default"} => x \in disk'
      <4>1. r \in disk
        BY <2>1 DEF FilesOfLibrary, r
      <4> QED
        BY <2>1, <2>4, <4>1 DEF FilesOfLibrary
    <3>2. \A b \in Admins \ {a} :
            errand[b].at # "idle" => library'[errand[b].recording] = library[errand[b].recording]
                                                     \/ errand[b].at = "insert"
      BY <1>5, <2>1, <2>4 DEF FilesOfLibrary
    <3>3. \A b \in Admins \ {a} :
            errand[b].at # "idle" => errand[b].recording # r /\ errand'[a].recording # errand[b].recording
      BY <1>1, <1>5, <2>1, <2>3
    <3> QED
      BY <1>5, <2>1, <2>3, <3>1, <3>2, <3>3 DEF FilesOfLibrary
  <2> QED
    BY <1>1, <2>1, <2>3, <2>4, <2>5, <2>6, <2>7, <2>8
<1>9. ASSUME NEW a \in Admins, UndoUpload(a) PROVE Kept
  <2> DEFINE r == errand[a].recording
  <2>1. /\ errand[a].at = "undoUpload" /\ disk' = disk \ {r} /\ Finish(a)
        /\ UNCHANGED <<library, dial, setbacks>> /\ r \in Recordings
    BY <1>5, <1>9 DEF UndoUpload
  <2>2. /\ errand' \in [Admins -> ErrandRow] /\ errand'[a].at = "idle"
        /\ \A b \in Admins \ {a} : errand'[b] = errand[b]
        /\ errand'[a].recording = NoRecording
    BY <1>7, <2>1
  <2> HIDE DEF r
  <2>3. CallsKeepTheirs' /\ OneDefaultIn(library')
    BY <1>1, <2>1 DEF CallsKeepTheirs
  <2>4. ErrandsHaveRecordings'
    BY <1>1, <1>5, <2>1, <2>2 DEF ErrandsHaveRecordings
  <2>5. FilesOfLibrary => FilesOfLibrary'
    BY <1>1, <1>5, <2>1, <2>2 DEF FilesOfLibrary, r
  <2> QED
    BY <1>1, <2>1, <2>2, <2>3, <2>4, <2>5
<1>10. ASSUME NEW r \in Recordings, SetDefaultRecording(r) PROVE Kept
  <2>1. /\ library[r] \in {"active", "default"} /\ library' = OnlyDefault(library, r)
        /\ UNCHANGED <<disk, errand, dial, setbacks>>
    BY <1>10 DEF SetDefaultRecording, Usable
  <2>2. /\ library' \in Rows /\ OneDefaultIn(library')
        /\ \A x \in Recordings : library[x] \in {"active", "default"} => library'[x] \in {"active", "default"}
        /\ \A x \in Recordings : library[x] \notin {"active", "default"} => library'[x] = library[x]
    <3>1. /\ OnlyDefault(library, r) \in [Recordings -> LibraryRow]
          /\ OneDefaultIn(OnlyDefault(library, r))
          /\ \A x \in Recordings : library[x] \in {"active", "default"} =>
               OnlyDefault(library, r)[x] \in {"active", "default"}
          /\ \A x \in Recordings \ {r} : library[x] \notin {"active", "default"} =>
               OnlyDefault(library, r)[x] = library[x]
      BY <1>1, OnlyDefaultIsOne
    <3> QED
      BY <2>1, <3>1
  <2>3. CallsKeepTheirs'
    BY <1>1, <2>1, <2>2 DEF CallsKeepTheirs, DialRow
  <2>4. ErrandsHaveRecordings'
    BY <1>1, <1>5, <2>1, <2>2 DEF ErrandsHaveRecordings
  <2>5. FilesOfLibrary => FilesOfLibrary'
    BY <1>5, <2>1, <2>2 DEF FilesOfLibrary
  <2> QED
    BY <1>1, <2>1, <2>2, <2>3, <2>4, <2>5
<1>11. ASSUME NEW a \in Admins, DeleteRecording(a) PROVE Kept
  <2>1. PICK r \in Usable :
       /\ AssignedTo(r) = {}
       /\ LET rest == [library EXCEPT ![r] = "deleted"] IN
          IF r \notin DefaultOnes \/ Usable = {r}
          THEN library' = rest
          ELSE \E next \in Usable \ {r} : library' = OnlyDefault(rest, next)
       /\ errand' = [errand EXCEPT ![a] = [at |-> "unlink", recording |-> r]]
    BY <1>11 DEF DeleteRecording
  <2>2. /\ UNCHANGED <<disk, dial, setbacks>> /\ errand[a].at = "idle"
        /\ r \in Recordings /\ library[r] \in {"active", "default"}
    BY <1>11 DEF DeleteRecording, Usable
  <2> DEFINE rest == [library EXCEPT ![r] = "deleted"]
  <2>3. /\ rest \in Rows /\ rest[r] = "deleted" /\ \A x \in Recordings \ {r} : rest[x] = library[x]
    BY <1>1, <2>2 DEF LibraryRow
  <2>4. /\ library' \in Rows /\ OneDefaultIn(library') /\ library'[r] = "deleted"
        /\ \A x \in Recordings \ {r} :
             /\ library[x] \in {"active", "default"} => library'[x] \in {"active", "default"}
             /\ library[x] \notin {"active", "default"} => library'[x] = library[x]
    <3>1. CASE r \notin DefaultOnes \/ Usable = {r}
      <4>1. library' = rest
        BY <2>1, <3>1
      <4> HIDE DEF rest
      <4>2. library[r] # "default" \/ \A x \in Recordings \ {r} : library[x] \notin {"active", "default"}
        BY <2>2, <3>1 DEF DefaultOnes, Usable
      <4> QED
        BY <1>1, <2>2, <2>3, <4>1, <4>2 DEF OneDefaultIn
    <3>2. CASE ~(r \notin DefaultOnes \/ Usable = {r})
      <4>1. PICK next \in Usable \ {r} : library' = OnlyDefault(rest, next)
        BY <2>1, <3>2
      <4>2. next \in Recordings /\ next # r /\ library[next] \in {"active", "default"}
        BY <4>1 DEF Usable
      <4> HIDE DEF rest
      <4> QED
        <5>1. /\ OnlyDefault(rest, next) \in [Recordings -> LibraryRow]
              /\ OneDefaultIn(OnlyDefault(rest, next))
              /\ \A x \in Recordings : rest[x] \in {"active", "default"} =>
                   OnlyDefault(rest, next)[x] \in {"active", "default"}
              /\ \A x \in Recordings \ {next} : rest[x] \notin {"active", "default"} =>
                   OnlyDefault(rest, next)[x] = rest[x]
          BY <2>3, <4>2, OnlyDefaultIsOne
        <5>2. rest[r] \notin {"active", "default"} /\ r \in Recordings \ {next}
          BY <2>2, <2>3, <4>2
        <5>3. OnlyDefault(rest, next)[r] = "deleted"
          BY <2>3, <5>1, <5>2
        <5> QED
          BY <2>3, <4>1, <4>2, <5>1, <5>3
    <3> QED
      BY <3>1, <3>2
  <2> HIDE DEF rest
  <2>5. [at |-> "unlink", recording |-> r] \in ErrandRow
    BY <2>2 DEF ErrandRow
  <2>6. /\ errand' \in [Admins -> ErrandRow] /\ errand'[a] = [at |-> "unlink", recording |-> r]
        /\ \A b \in Admins \ {a} : errand'[b] = errand[b]
    BY <1>1, <2>1, <2>5
  <2>7. CallsKeepTheirs'
    <3>1. \A c \in Dials : dial[c].open => dial[c].recording # r
      BY <2>1 DEF AssignedTo
    <3>2. \A c \in Dials : dial[c].recording \in Recordings \cup {NoRecording}
      BY <1>1 DEF DialRow
    <3> QED
      BY <1>1, <2>2, <2>4, <3>1, <3>2 DEF CallsKeepTheirs
  <2>8. ErrandsHaveRecordings'
    BY <1>1, <1>5, <2>2, <2>4, <2>6 DEF ErrandsHaveRecordings
  <2>9. FilesOfLibrary => FilesOfLibrary'
    <3> SUFFICES ASSUME FilesOfLibrary PROVE FilesOfLibrary'
      OBVIOUS
    <3>1. \A x \in Recordings : library'[x] \in {"active", "default"} => x \in disk'
      BY <1>5, <2>2, <2>4 DEF FilesOfLibrary, LibraryRow
    <3>2. \A b \in Admins \ {a} : errand[b].at # "idle" =>
            errand[b].recording # r /\ library'[errand[b].recording] = library[errand[b].recording]
      <4>1. \A b \in Admins :
              errand[b].at # "idle" => library[errand[b].recording] \notin {"active", "default"}
        BY <1>1, <1>5 DEF FilesOfLibrary, ErrandsHaveRecordings
      <4> QED
        BY <1>5, <2>2, <2>4, <4>1
    <3>3. r \in disk
      BY <2>2 DEF FilesOfLibrary
    <3>4. \A b \in Admins \ {a} : errand[b].at # "idle" => errand'[a].recording # errand[b].recording
      BY <2>6, <3>2
    <3>5. \A b \in Admins : errand[b].at \in {"insert", "unlink", "restore"} => errand[b].recording \in disk
      BY DEF FilesOfLibrary
    <3>6. ASSUME NEW b \in Admins
          PROVE  /\ errand'[b].at \in {"insert", "unlink", "restore"} => errand'[b].recording \in disk'
                 /\ errand'[b].at = "undoUpload" => library'[errand'[b].recording] = "none"
                 /\ errand'[b].at \in {"unlink", "restore"} => library'[errand'[b].recording] = "deleted"
                 /\ errand'[b].at # "idle" =>
                      \A d \in Admins \ {b} : errand'[d].recording # errand'[b].recording
      <4>1. CASE b = a
        <5>1. \A d \in Admins \ {a} : errand[d].recording # r
          BY <1>1, <1>5, <2>2, <3>2
        <5> QED
          BY <2>2, <2>4, <2>6, <3>3, <4>1, <5>1
      <4>2. CASE b # a
        BY <2>2, <2>6, <3>2, <3>4, <3>5, <4>2 DEF FilesOfLibrary
      <4> QED
        BY <4>1, <4>2
    <3> QED
      BY <3>1, <3>6 DEF FilesOfLibrary
  <2> QED
    BY <1>1, <2>2, <2>4, <2>6, <2>7, <2>8, <2>9

<1>12. ASSUME NEW a \in Admins, UnlinkRecording(a) PROVE Kept
  <2> DEFINE r == errand[a].recording
  <2>1. /\ errand[a].at = "unlink" /\ UNCHANGED <<library, dial, setbacks>> /\ r \in Recordings
        /\ \/ disk' = disk \ {r} /\ Finish(a)
           \/ Proceed(a, "restore") /\ UNCHANGED disk
    BY <1>5, <1>12 DEF UnlinkRecording
  <2>2. PICK place \in {"idle", "restore"} :
        /\ errand' \in [Admins -> ErrandRow] /\ errand'[a].at = place
        /\ \A b \in Admins \ {a} : errand'[b] = errand[b]
        /\ place # "idle" => errand'[a].recording = r /\ UNCHANGED disk
        /\ place = "idle" => errand'[a].recording = NoRecording /\ disk' = disk \ {r}
    <3>1. CASE disk' = disk \ {r} /\ Finish(a)
      BY <1>7, <3>1
    <3>2. CASE Proceed(a, "restore") /\ UNCHANGED disk
      BY <1>7, <3>2
    <3> QED
      BY <2>1, <3>1, <3>2
  <2> HIDE DEF r
  <2>3. CallsKeepTheirs' /\ OneDefaultIn(library') /\ disk' \subseteq Recordings
    BY <1>1, <2>1, <2>2 DEF CallsKeepTheirs
  <2>4. ErrandsHaveRecordings'
    BY <1>1, <1>5, <2>1, <2>2 DEF ErrandsHaveRecordings, r
  <2>5. FilesOfLibrary => FilesOfLibrary'
    <3> SUFFICES ASSUME FilesOfLibrary PROVE FilesOfLibrary'
      OBVIOUS
    <3>1. library[r] = "deleted" /\ \A b \in Admins \ {a} : errand[b].recording # r
      BY <2>1 DEF FilesOfLibrary, r
    <3>2. \A x \in Recordings : library'[x] \in {"active", "default"} => x \in disk'
      BY <2>1, <2>2, <3>1 DEF FilesOfLibrary
    <3>3. \A b \in Admins \ {a} : errand[b].at # "idle" => errand'[a].recording # errand[b].recording
      BY <1>1, <1>5, <2>2, <3>1
    <3> QED
      BY <1>1, <1>5, <2>1, <2>2, <3>1, <3>2, <3>3 DEF FilesOfLibrary, r
  <2> QED
    BY <1>1, <2>1, <2>2, <2>3, <2>4, <2>5
<1>13. ASSUME NEW a \in Admins, RestoreDeletedRecording(a) PROVE Kept
  <2> DEFINE r == errand[a].recording
  <2>1. /\ errand[a].at = "restore" /\ UNCHANGED <<disk, dial, setbacks>> /\ r \in Recordings /\ Finish(a)
        /\ library' = IF library[r] # "deleted" THEN library
                      ELSE [library EXCEPT ![r] = IF DefaultOnes = {} THEN "default" ELSE "active"]
    BY <1>5, <1>13 DEF RestoreDeletedRecording
  <2>2. /\ errand' \in [Admins -> ErrandRow] /\ errand'[a].at = "idle"
        /\ \A b \in Admins \ {a} : errand'[b] = errand[b]
        /\ errand'[a].recording = NoRecording
    BY <1>7, <2>1
  <2>3. /\ library' \in Rows /\ OneDefaultIn(library')
        /\ \A x \in Recordings : library[x] \in {"active", "default"} => library'[x] \in {"active", "default"}
        /\ \A x \in Recordings \ {r} : library'[x] = library[x]
        /\ library[r] # "deleted" => library' = library
    <3>1. CASE library[r] # "deleted"
      BY <1>1, <2>1, <3>1
    <3>2. CASE library[r] = "deleted" /\ DefaultOnes = {}
      <4>1. library' = [library EXCEPT ![r] = "default"]
        BY <2>1, <3>2
      <4>2. ~ \E s \in Recordings : library[s] = "default"
        BY <3>2 DEF DefaultOnes
      <4>3. OneDefaultIn([library EXCEPT ![r] = "default"])
        BY <1>1, <2>1, <4>2, FirstIsDefault
      <4> HIDE DEF r
      <4> QED
        BY <1>1, <2>1, <3>2, <4>1, <4>3 DEF LibraryRow
    <3>3. CASE library[r] = "deleted" /\ DefaultOnes # {}
      <4>1. library' = [library EXCEPT ![r] = "active"]
        BY <2>1, <3>3
      <4>2. \E s \in Recordings : library[s] = "default"
        BY <3>3 DEF DefaultOnes
      <4>3. OneDefaultIn([library EXCEPT ![r] = "active"])
        BY <1>1, <2>1, <3>3, <4>2, OneMoreActive
      <4> HIDE DEF r
      <4> QED
        BY <1>1, <2>1, <3>3, <4>1, <4>3 DEF LibraryRow
    <3> QED
      BY <3>1, <3>2, <3>3
  <2> HIDE DEF r
  <2>4. CallsKeepTheirs'
    BY <1>1, <2>1, <2>3 DEF CallsKeepTheirs, DialRow
  <2>5. ErrandsHaveRecordings'
    <3>1. ASSUME NEW b \in Admins, errand'[b].at = "insert"
          PROVE  library'[errand'[b].recording] = "none"
      <4>1. b # a /\ errand'[b] = errand[b]
        BY <2>2, <3>1
      <4>2. /\ errand[b].recording # r /\ library[errand[b].recording] = "none"
            /\ errand[b].recording \in Recordings
        BY <1>1, <3>1, <4>1 DEF ErrandsHaveRecordings, r
      <4> QED
        BY <2>3, <4>1, <4>2
    <3> QED
      BY <1>1, <1>5, <2>1, <2>2, <3>1 DEF ErrandsHaveRecordings
  <2>6. FilesOfLibrary => FilesOfLibrary'
    <3> SUFFICES ASSUME FilesOfLibrary PROVE FilesOfLibrary'
      OBVIOUS
    <3>1. r \in disk /\ \A b \in Admins \ {a} : errand[b].recording # r
      BY <2>1 DEF FilesOfLibrary, r
    <3>2. \A x \in Recordings : library'[x] \in {"active", "default"} => x \in disk'
      BY <2>1, <2>3, <3>1 DEF FilesOfLibrary
    <3>3. \A b \in Admins \ {a} : errand[b].at # "idle" =>
            /\ errand'[a].recording # errand[b].recording
            /\ library'[errand[b].recording] = library[errand[b].recording]
      BY <1>1, <1>5, <2>2, <2>3, <3>1
    <3> QED
      BY <1>1, <1>5, <2>1, <2>2, <3>2, <3>3 DEF FilesOfLibrary
  <2> QED
    BY <1>1, <2>1, <2>2, <2>3, <2>4, <2>5, <2>6
<1>14. ASSUME NEW a \in Admins, AdminRequestDies(a) PROVE Kept
  <2>1. UNCHANGED <<library, disk, dial>> /\ Finish(a) /\ Lose
    BY <1>14 DEF AdminRequestDies
  <2>2. /\ errand' \in [Admins -> ErrandRow] /\ errand'[a].at = "idle"
        /\ \A b \in Admins \ {a} : errand'[b] = errand[b]
        /\ errand'[a].recording = NoRecording
    BY <1>7, <2>1
  <2>3. ErrandsHaveRecordings'
    BY <1>1, <1>5, <2>1, <2>2 DEF ErrandsHaveRecordings
  <2> QED
    BY <1>1, <1>3, <2>1, <2>2, <2>3 DEF CallsKeepTheirs
<1>15. ASSUME UNCHANGED <<library, disk, errand, setbacks>>, dial' \in [Dials -> DialRow], CallsKeepTheirs'
       PROVE  Kept
  BY <1>1, <1>15 DEF ErrandsHaveRecordings, FilesOfLibrary
<1>16. ASSUME NEW c \in Dials, CreateCall(c) PROVE Kept
  <2>1. PICK r \in IF DefaultOnes = {} THEN {NoRecording} ELSE DefaultOnes :
          dial' = [dial EXCEPT ![c] =
                    [open |-> TRUE, recording |-> r, by |-> "creation", drop |-> NoRecording]]
    BY <1>16 DEF CreateCall
  <2>2. r \in Recordings \cup {NoRecording} /\ (r \in Recordings => library[r] = "default")
    BY <1>1, <2>1 DEF DefaultOnes
  <2>3. [open |-> TRUE, recording |-> r, by |-> "creation", drop |-> NoRecording] \in DialRow
    BY <2>2 DEF DialRow
  <2>4. UNCHANGED <<library, disk, errand, setbacks>>
    BY <1>16 DEF CreateCall
  <2>5. CallsKeepTheirs'
    BY <1>1, <2>1, <2>2, <2>3, <2>4 DEF CallsKeepTheirs
  <2> QED
    BY <1>1, <1>15, <2>1, <2>3, <2>4, <2>5
<1>17. ASSUME NEW c \in Dials, SelectForDrop(c) \/ CommitDrop(c) \/ EndCall(c) PROVE Kept
  <2>1. UNCHANGED <<library, disk, errand, setbacks>>
    BY <1>17 DEF SelectForDrop, CommitDrop, EndCall
  <2>2. \A d \in Dials : /\ dial[d].open \in BOOLEAN /\ dial[d].recording \in Recordings \cup {NoRecording}
                         /\ dial[d].by \in {"none", "creation", "drop"}
                         /\ dial[d].drop \in Recordings \cup {NoRecording}
    BY <1>1 DEF DialRow
  <2>3. dial' \in [Dials -> DialRow] /\ CallsKeepTheirs'
    <3>1. CASE SelectForDrop(c)
      <4>1. PICK r \in Recordings : dial' = [dial EXCEPT ![c].drop = r]
        BY <3>1 DEF SelectForDrop, Usable
      <4> QED
        BY <1>1, <2>1, <4>1 DEF CallsKeepTheirs, DialRow
    <3>2. CASE CommitDrop(c)
      <4> DEFINE drop == dial[c].drop
      <4>1. dial' = [dial EXCEPT ![c].recording = drop, ![c].by = "drop", ![c].drop = NoRecording]
        BY <3>2 DEF CommitDrop
      <4>2. drop \in Recordings \cup {NoRecording}
        BY <2>2
      <4> HIDE DEF drop
      <4>3. dial' \in [Dials -> DialRow]
        <5>1. /\ DOMAIN dial' = Dials /\ \A d \in Dials \ {c} : dial'[d] = dial[d]
              /\ dial'[c] = [dial[c] EXCEPT !.recording = drop, !.by = "drop", !.drop = NoRecording]
              /\ dial' = [d \in Dials |-> dial'[d]]
          BY <1>1, <4>1
        <5>2. dial'[c] = [open |-> dial[c].open, recording |-> drop, by |-> "drop", drop |-> NoRecording]
          <6>1. dial[c] \in DialRow
            BY <1>1
          <6>2. dial[c] = [open |-> dial[c].open, recording |-> dial[c].recording,
                           by |-> dial[c].by, drop |-> dial[c].drop]
            BY <6>1 DEF DialRow
          <6> QED
            BY <5>1, <6>2
        <5>3. dial'[c] \in DialRow
          BY <2>2, <4>2, <5>2 DEF DialRow
        <5> QED
          BY <1>1, <5>1, <5>3
      <4>4. dial'[c].by = "drop" /\ \A d \in Dials \ {c} : dial'[d] = dial[d]
        BY <1>1, <4>1 DEF DialRow
      <4> QED
        BY <1>1, <2>1, <4>3, <4>4 DEF CallsKeepTheirs
    <3>3. CASE EndCall(c)
      <4>1. dial' = [dial EXCEPT ![c].open = FALSE]
        BY <3>3 DEF EndCall
      <4> QED
        BY ZenonT(60), <1>1, <2>1, <4>1 DEF CallsKeepTheirs, DialRow
    <3> QED
      BY <1>17, <3>1, <3>2, <3>3
  <2> QED
    BY <1>15, <2>1, <2>3
<1>18. CASE UNCHANGED libraryVars
  BY <1>1, <1>15, <1>18 DEF libraryVars, CallsKeepTheirs
<1> QED
  BY <1>6, <1>8, <1>9, <1>10, <1>11, <1>12, <1>13, <1>14, <1>16, <1>17, <1>18 DEF LibraryNext

\* There is exactly one default as soon as a recording can be chosen, and a
\* recording that can be chosen has its file unless a commit's answer was lost.
LEMMA LibraryIsSound == LibraryInv => LibraryIsUsable
<1> SUFFICES ASSUME LibraryInv PROVE LibraryIsUsable
  OBVIOUS
<1>1. OneDefaultIn(library) /\ CallsKeepTheirs /\ (setbacks = 0 => FilesOfLibrary)
  BY DEF LibraryInv
<1>2. Usable # {} => Cardinality(DefaultOnes) = 1
  <2> SUFFICES ASSUME Usable # {} PROVE Cardinality(DefaultOnes) = 1
    OBVIOUS
  <2>1. PICK s \in Recordings : library[s] = "default"
    BY <1>1 DEF Usable, OneDefaultIn
  <2>2. DefaultOnes = {s}
    BY <1>1, <2>1 DEF DefaultOnes, OneDefaultIn
  <2> QED
    BY <2>2, FS_Singleton
<1>3. setbacks = 0 => Usable \subseteq disk
  BY <1>1 DEF FilesOfLibrary, Usable
<1>4. \A c \in Dials : dial[c].open /\ dial[c].by = "creation" /\ dial[c].recording # NoRecording
         => dial[c].recording \in Usable
  BY <1>1 DEF CallsKeepTheirs, Usable, LibraryInv, LibraryTypeOK
<1> QED
  BY <1>2, <1>3, <1>4 DEF LibraryIsUsable
==============================================================================
