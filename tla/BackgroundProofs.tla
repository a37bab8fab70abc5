--------------------------- MODULE BackgroundProofs ---------------------------
(***************************************************************************)
(* What the components that run in the background never do wrong, for any  *)
(* capacity of the queue and any number of events, connections, failures,  *)
(* processes and phones: their types, the order and the completeness of    *)
(* the events that the listener takes, the tone that stays off, and the    *)
(* verdict on a recording that stands.                                     *)
(***************************************************************************)
EXTENDS MCBackground, FilesProofs

------------------------------------------------------------------------------
(* The listener.                                                           *)

EventNumbers == 1 .. MaxEvents
Receipts == [event : EventNumbers, epoch : 1 .. MaxConnects]
Queues == [entries : Seq(EventNumbers), handlers : Seq(EventNumbers),
           processing : BOOLEAN, retry : BOOLEAN]
Tasks == [phase : {"idle", "waiting", "working"}, requested : BOOLEAN]

ListenerTypes ==
  /\ TypeOK
  /\ handled \in Seq(EventNumbers)
  /\ accepted \in Seq(Receipts)

(* The last event of the connection that was read from it.                 *)
LastRead == sent - Len(pipe)

(* The events that are done, then those that wait, in the queue's order.   *)
Line == handled \o queue.entries

(* Only a subscribed connection carries frames, the last ones that were    *)
(* sent, and the reconnect timer runs only without a connection.           *)
SocketInv ==
  /\ socket # "events" => pipe = <<>>
  /\ reconnect => socket = "none"
  /\ \A i \in DOMAIN pipe : pipe[i] = LastRead + i

(* The line is in order and no event of it is still on the connection.     *)
OrderInv ==
  /\ \A i, j \in DOMAIN Line : i < j => Line[i] < Line[j]
  /\ \A i \in DOMAIN Line : Line[i] <= LastRead

(* The last event accepted on the present connection is the last one read. *)
GapInv ==
  /\ NoSilentGap
  /\ \A i \in DOMAIN accepted : accepted[i].epoch <= epoch
  /\ accepted # <<>> /\ accepted[Len(accepted)].epoch = epoch =>
       /\ socket # "connecting"
       /\ socket = "events" => accepted[Len(accepted)].event = LastRead

(* After a shutdown nothing is left that could start a reconciliation.     *)
ShutdownInv ==
  stopped => socket \in {"none", "destroyed"} /\ ~reconnect /\ task.phase # "waiting"

ListenerInv == ListenerTypes /\ SocketInv /\ OrderInv /\ GapInv /\ ShutdownInv

(* A drain starts a handler for the first entry at most, and leaves the    *)
(* entries alone.                                                          *)
LEMMA DrainFacts ==
  ASSUME NEW q \in Queues
  PROVE  /\ Drain(q) \in Queues
         /\ Drain(q).entries = q.entries
         /\ stopped => Drain(q) = q
<1>1. CASE stopped \/ q.processing \/ q.retry \/ q.entries = <<>>
  BY <1>1 DEF Drain
<1>2. CASE ~(stopped \/ q.processing \/ q.retry \/ q.entries = <<>>)
  <2>1. q.entries \in Seq(EventNumbers) /\ q.handlers \in Seq(EventNumbers) /\ q.entries # <<>>
    BY <1>2 DEF Queues
  <2>2. Head(q.entries) \in EventNumbers
    BY <2>1, HeadTailProperties
  <2>3. Append(q.handlers, Head(q.entries)) \in Seq(EventNumbers)
    BY <2>1, <2>2, AppendProperties
  <2>4. Drain(q) = [q EXCEPT !.processing = TRUE, !.handlers = Append(@, Head(q.entries))]
    BY <1>2 DEF Drain, StartHandler
  <2> QED
    BY <1>2, <2>3, <2>4 DEF Queues
<1> QED
  BY <1>1, <1>2

(* The end of a handler leaves the entries alone.                          *)
LEMMA FinishedFacts ==
  ASSUME NEW q \in Queues, q.handlers # <<>>
  PROVE  /\ Finished(q) \in Queues
         /\ Finished(q).entries = q.entries
         /\ Len(Finished(q).handlers) < Len(q.handlers)
<1>1. q.handlers \in Seq(EventNumbers)
  BY DEF Queues
<1>2. /\ Tail(q.handlers) \in Seq(EventNumbers)
      /\ Len(Tail(q.handlers)) = Len(q.handlers) - 1
  BY <1>1, HeadTailProperties
<1>3. Len(q.handlers) \in Nat
  BY <1>1, LenProperties
<1>4. Finished(q) = [q EXCEPT !.processing = FALSE, !.handlers = Tail(q.handlers)]
  BY DEF Finished
<1>5. Finished(q) \in Queues /\ Finished(q).entries = q.entries /\ Finished(q).handlers = Tail(q.handlers)
  BY <1>2, <1>4 DEF Queues
<1>6. Len(Finished(q).handlers) = Len(q.handlers) - 1
  BY <1>2, <1>5
<1> QED
  BY <1>3, <1>5, <1>6

(* A task stays a task; it is woken only from its wait, and a stop wakes   *)
(* nothing up.                                                             *)
LEMMA TaskFacts ==
  ASSUME NEW t \in Tasks, NEW q, NEW stop \in BOOLEAN
  PROVE  /\ Woken(t, q, stop) \in Tasks
         /\ RunTask(t, q) \in Tasks
         /\ Request(t, q) \in Tasks
         /\ EndOfRun(t, q) \in Tasks
         /\ t.phase # "waiting" => Woken(t, q, stop) = t
         /\ stop => Woken(t, q, stop).phase # "waiting"
         /\ stop /\ Woken(t, q, stop).phase = "working" => t.phase = "working"
         /\ stopped => EndOfRun(t, q).phase = "idle"
<1>1. \A u \in Tasks, s \in BOOLEAN : Woken(u, q, s) \in Tasks
  BY DEF Woken, Tasks
<1>2. [phase |-> "waiting", requested |-> FALSE] \in Tasks
  BY DEF Tasks
<1>3. RunTask(t, q) \in Tasks
  BY <1>1, <1>2 DEF RunTask
<1>4. Request(t, q) \in Tasks
  BY <1>3 DEF Request, Tasks
<1>5. EndOfRun(t, q) \in Tasks /\ (stopped => EndOfRun(t, q).phase = "idle")
  BY <1>3 DEF EndOfRun, Tasks
<1>6. /\ t.phase # "waiting" => Woken(t, q, stop) = t
      /\ stop => Woken(t, q, stop).phase # "waiting"
      /\ stop /\ Woken(t, q, stop).phase = "working" => t.phase = "working"
  BY DEF Woken, Tasks
<1> QED
  BY <1>1, <1>3, <1>4, <1>5, <1>6

(* The first frames of the connection are consecutive events, and the      *)
(* rest of it keeps its numbers.                                           *)
LEMMA FrameFacts ==
  ASSUME pipe \in Seq(EventNumbers), sent \in Nat, SocketInv, NEW k \in 0 .. Len(pipe)
  PROVE  /\ SubSeq(pipe, 1, k) \in Seq(EventNumbers)
         /\ Len(SubSeq(pipe, 1, k)) = k
         /\ \A i \in 1 .. k : SubSeq(pipe, 1, k)[i] = LastRead + i
         /\ SubSeq(pipe, k + 1, Len(pipe)) \in Seq(EventNumbers)
         /\ Len(SubSeq(pipe, k + 1, Len(pipe))) = Len(pipe) - k
         /\ \A i \in 1 .. Len(pipe) - k :
              SubSeq(pipe, k + 1, Len(pipe))[i] = LastRead + k + i
<1>1. Len(pipe) \in Nat /\ DOMAIN pipe = 1 .. Len(pipe)
  BY LenProperties
<1>2. \A i \in 1 .. Len(pipe) : pipe[i] \in EventNumbers
  BY ElementOfSeq
<1>3. \A i \in 1 .. k : pipe[i] \in EventNumbers
  BY <1>1, <1>2
<1>4. \A i \in k + 1 .. Len(pipe) : pipe[i] \in EventNumbers
  BY <1>1, <1>2
<1>5. k \in Int /\ 1 \in Int /\ k + 1 \in Int /\ Len(pipe) \in Int
  BY <1>1
<1>6. /\ SubSeq(pipe, 1, k) \in Seq(EventNumbers)
      /\ Len(SubSeq(pipe, 1, k)) = IF 1 <= k THEN k - 1 + 1 ELSE 0
      /\ \A i \in 1 .. k - 1 + 1 : SubSeq(pipe, 1, k)[i] = pipe[1 + i - 1]
  BY <1>3, <1>5, SubSeqProperties
<1>7. /\ SubSeq(pipe, k + 1, Len(pipe)) \in Seq(EventNumbers)
      /\ Len(SubSeq(pipe, k + 1, Len(pipe))) =
           IF k + 1 <= Len(pipe) THEN Len(pipe) - (k + 1) + 1 ELSE 0
      /\ \A i \in 1 .. Len(pipe) - (k + 1) + 1 :
           SubSeq(pipe, k + 1, Len(pipe))[i] = pipe[k + 1 + i - 1]
  BY <1>4, <1>5, SubSeqProperties
<1>8. \A i \in 1 .. Len(pipe) : pipe[i] = LastRead + i
  BY <1>1 DEF SocketInv
<1>9. /\ Len(SubSeq(pipe, 1, k)) = k
      /\ \A i \in 1 .. k : SubSeq(pipe, 1, k)[i] = LastRead + i
  <2>1. k \in Nat /\ k - 1 + 1 = k
    BY <1>1
  <2>2. \A i \in 1 .. k : i \in 1 .. Len(pipe) /\ 1 + i - 1 = i
    BY <1>1
  <2> QED
    BY <1>6, <1>8, <2>1, <2>2
<1>10. /\ Len(SubSeq(pipe, k + 1, Len(pipe))) = Len(pipe) - k
       /\ \A i \in 1 .. Len(pipe) - k :
            SubSeq(pipe, k + 1, Len(pipe))[i] = LastRead + k + i
  <2>1. Len(pipe) - (k + 1) + 1 = Len(pipe) - k
    BY <1>1
  <2>2. \A i \in 1 .. Len(pipe) - k :
          k + 1 + i - 1 \in 1 .. Len(pipe) /\ k + 1 + i - 1 = k + i
    BY <1>1
  <2>3. \A i \in Nat : LastRead + (k + i) = LastRead + k + i
    BY <1>1 DEF LastRead
  <2>4. \A i \in 1 .. Len(pipe) - k : i \in Nat
    BY <1>1
  <2>5. Len(SubSeq(pipe, k + 1, Len(pipe))) = Len(pipe) - k
    <3>1. \A n \in Nat : \A j \in 0 .. n :
            (IF j + 1 <= n THEN n - (j + 1) + 1 ELSE 0) = n - j
      OBVIOUS
    <3>2. (IF k + 1 <= Len(pipe) THEN Len(pipe) - (k + 1) + 1 ELSE 0) = Len(pipe) - k
      BY <1>1, <3>1
    <3> QED
      BY <1>7, <3>2
  <2>6. ASSUME NEW i \in 1 .. Len(pipe) - k
        PROVE  SubSeq(pipe, k + 1, Len(pipe))[i] = LastRead + k + i
    <3>1. SubSeq(pipe, k + 1, Len(pipe))[i] = pipe[k + 1 + i - 1]
      BY <1>7, <2>1
    <3>2. pipe[k + 1 + i - 1] = LastRead + (k + i)
      BY <1>8, <2>2
    <3> QED
      BY <2>3, <2>4, <3>1, <3>2
  <2> QED
    BY <2>5, <2>6
<1> QED
  BY <1>6, <1>7, <1>9, <1>10

(* Frames that fit extend the line and the receipts by consecutive events. *)
LEMMA EnqueueFacts ==
  ASSUME ListenerTypes, SocketInv, OrderInv, GapInv, socket = "events",
         NEW k \in 0 .. Len(pipe), k <= MaxSize - Len(queue.entries),
         Enqueue(SubSeq(pipe, 1, k)), UNCHANGED <<handled, epoch>>
  PROVE  /\ queue' \in Queues /\ Len(queue'.entries) <= MaxSize
         /\ accepted' \in Seq(Receipts)
         /\ \A i, j \in DOMAIN Line' : i < j => Line'[i] < Line'[j]
         /\ \A i \in DOMAIN Line' : Line'[i] <= LastRead + k
         /\ NoSilentGap'
         /\ \A i \in DOMAIN accepted' : accepted'[i].epoch <= epoch
         /\ accepted' # <<>> /\ accepted'[Len(accepted')].epoch = epoch =>
              accepted'[Len(accepted')].event = LastRead + k
<1> DEFINE frames == SubSeq(pipe, 1, k)
           receipts == [i \in DOMAIN frames |-> [event |-> frames[i], epoch |-> epoch]]
<1>1. /\ pipe \in Seq(EventNumbers) /\ sent \in 0 .. MaxEvents /\ queue \in Queues
      /\ epoch \in 1 .. MaxConnects /\ handled \in Seq(EventNumbers) /\ accepted \in Seq(Receipts)
      /\ queue.entries \in Seq(EventNumbers)
  BY DEF ListenerTypes, TypeOK, EventNumbers, Queues
<1>2. MaxEvents \in Nat /\ MaxConnects \in Nat /\ MaxSize \in Nat
  BY BoundAssumption, SizeAssumption
<1>3. /\ Len(pipe) \in Nat /\ Len(queue.entries) \in Nat /\ Len(handled) \in Nat
      /\ Len(accepted) \in Nat
  BY <1>1, LenProperties
<1>4. sent \in Nat /\ epoch \in Nat /\ k \in Nat /\ LastRead \in Int
  BY <1>1, <1>2, <1>3 DEF LastRead
<1>5. /\ frames \in Seq(EventNumbers) /\ Len(frames) = k
      /\ \A i \in 1 .. k : frames[i] = LastRead + i
  BY <1>1, <1>4, FrameFacts
<1>27. /\ queue' = Drain([queue EXCEPT !.entries = @ \o frames])
       /\ accepted' = accepted \o receipts
  BY DEF Enqueue
<1> HIDE DEF frames
<1>6. DOMAIN frames = 1 .. k /\ \A i \in 1 .. k : frames[i] \in EventNumbers
  BY <1>5, LenProperties, ElementOfSeq
<1>7. /\ queue.entries \o frames \in Seq(EventNumbers)
      /\ Len(queue.entries \o frames) = Len(queue.entries) + k
  BY <1>1, <1>5, ConcatProperties
<1>8. queue' \in Queues /\ queue'.entries = queue.entries \o frames
  <2>1. [queue EXCEPT !.entries = @ \o frames] \in Queues
    BY <1>1, <1>7 DEF Queues
  <2>2. [queue EXCEPT !.entries = @ \o frames].entries = queue.entries \o frames
    BY <1>1 DEF Queues
  <2>3. queue' = Drain([queue EXCEPT !.entries = @ \o frames])
    BY <1>27
  <2> QED
    BY <2>1, <2>2, <2>3, DrainFacts
<1>9. Len(queue'.entries) <= MaxSize
  <2>1. Len(queue'.entries) = Len(queue.entries) + k
    BY <1>7, <1>8
  <2> QED
    BY <1>2, <1>3, <1>4, <2>1
<1>10. /\ receipts \in Seq(Receipts) /\ Len(receipts) = k
       /\ \A i \in 1 .. k : receipts[i].event = LastRead + i /\ receipts[i].epoch = epoch
  <2>1. receipts = [i \in 1 .. k |-> [event |-> frames[i], epoch |-> epoch]]
    BY <1>6
  <2>2. receipts \in [1 .. k -> Receipts]
    BY <1>1, <1>6, <2>1 DEF Receipts
  <2>3. receipts \in Seq(Receipts)
    BY <1>4, <2>2, SeqDef
  <2>4. Len(receipts) = k
    BY <1>4, <2>1, <2>3, LenProperties
  <2> QED
    BY <1>5, <2>1, <2>3, <2>4
<1> HIDE DEF receipts
<1>11. accepted' = accepted \o receipts
  BY <1>27
<1>12. /\ accepted' \in Seq(Receipts) /\ Len(accepted') = Len(accepted) + k
       /\ \A i \in 1 .. Len(accepted) + k :
            accepted'[i] = IF i <= Len(accepted) THEN accepted[i] ELSE receipts[i - Len(accepted)]
  BY <1>1, <1>10, <1>11, ConcatProperties
<1>13. DOMAIN accepted' = 1 .. Len(accepted) + k /\ DOMAIN accepted = 1 .. Len(accepted)
  BY <1>1, <1>12, LenProperties
<1>14. Line' = Line \o frames /\ Line \in Seq(EventNumbers)
  <2>1. Line' = handled \o (queue.entries \o frames)
    BY <1>8 DEF Line
  <2>4. handled \in Seq(EventNumbers) /\ queue.entries \in Seq(EventNumbers) /\ frames \in Seq(EventNumbers)
    BY <1>1, <1>5
  <2>5. \A a, b, c \in Seq(EventNumbers) : a \o (b \o c) = (a \o b) \o c
    BY SMTT(30), ConcatAssociative
  <2>2. handled \o (queue.entries \o frames) = (handled \o queue.entries) \o frames
    BY <2>4, <2>5, Zenon
  <2>3. handled \o queue.entries \in Seq(EventNumbers)
    BY <1>1, ConcatProperties
  <2> QED
    BY <2>1, <2>2, <2>3 DEF Line
<1>15. /\ DOMAIN Line = 1 .. Len(Line) /\ Len(Line) \in Nat
       /\ DOMAIN Line' = 1 .. Len(Line) + k
       /\ \A i \in 1 .. Len(Line) + k : Line'[i] = IF i <= Len(Line) THEN Line[i] ELSE frames[i - Len(Line)]
  <2>1. DOMAIN Line = 1 .. Len(Line) /\ Len(Line) \in Nat
    BY <1>14, LenProperties
  <2>2. /\ Line \o frames \in Seq(EventNumbers)
        /\ Len(Line \o frames) = Len(Line) + Len(frames)
        /\ \A i \in 1 .. Len(Line) + Len(frames) :
             (Line \o frames)[i] = IF i <= Len(Line) THEN Line[i] ELSE frames[i - Len(Line)]
    <3> HIDE DEF Line
    <3> QED
      BY <1>5, <1>14, ConcatProperties
  <2>3. DOMAIN (Line \o frames) = 1 .. Len(Line) + Len(frames)
    BY <2>2, LenProperties
  <2> QED
    BY <1>5, <1>14, <2>1, <2>2, <2>3
<1>16. \A i \in 1 .. Len(Line) : Line[i] \in Nat
  <2>1. \A i \in 1 .. Len(Line) : Line[i] \in EventNumbers
    BY <1>14, ElementOfSeq
  <2> QED
    BY <2>1, <1>2 DEF EventNumbers
<1>17. \A i \in 1 .. Len(Line) + k :
         \/ i \in 1 .. Len(Line) /\ Line'[i] = Line[i]
         \/ i - Len(Line) \in 1 .. k /\ Line'[i] = LastRead + (i - Len(Line))
  BY <1>4, <1>5, <1>15
<1>18. \A i \in 1 .. Len(Line) : Line[i] <= LastRead
  BY <1>15 DEF OrderInv
<1>19. \A i, j \in DOMAIN Line' : i < j => Line'[i] < Line'[j]
  <2> SUFFICES ASSUME NEW i \in 1 .. Len(Line) + k, NEW j \in 1 .. Len(Line) + k, i < j
               PROVE  Line'[i] < Line'[j]
    BY <1>15
  <2>1. CASE j <= Len(Line)
    <3>1. i \in DOMAIN Line /\ j \in DOMAIN Line
      BY <1>15, <1>4, <2>1
    <3> QED
      BY <1>15, <2>1, <3>1, <1>4 DEF OrderInv
  <2>2. CASE j > Len(Line) /\ i <= Len(Line)
    BY <1>4, <1>15, <1>16, <1>17, <1>18, <2>2
  <2>3. CASE i > Len(Line)
    BY <1>4, <1>15, <1>17, <2>3
  <2> QED
    BY <2>1, <2>2, <2>3, <1>15, <1>4
<1>20. \A i \in DOMAIN Line' : Line'[i] <= LastRead + k
  BY <1>4, <1>15, <1>16, <1>17, <1>18
<1>21. \A i \in 1 .. Len(accepted) : accepted[i] \in Receipts
  BY <1>1, ElementOfSeq
<1>22. accepted # <<>> <=> Len(accepted) > 0
  BY <1>1, EmptySeq, <1>3
<1>23. \A i \in 1 .. Len(accepted) + k :
         \/ i \in 1 .. Len(accepted) /\ accepted'[i] = accepted[i]
         \/ /\ i - Len(accepted) \in 1 .. k
            /\ accepted'[i].event = LastRead + (i - Len(accepted))
            /\ accepted'[i].epoch = epoch
  BY <1>3, <1>4, <1>10, <1>12
<1>24. NoSilentGap'
  <2> SUFFICES ASSUME NEW i \in 1 .. Len(accepted') - 1,
                      accepted'[i].epoch = accepted'[i + 1].epoch
               PROVE  accepted'[i + 1].event = accepted'[i].event + 1
    BY DEF NoSilentGap
  <2>0. i \in Nat /\ i >= 1 /\ i + 1 <= Len(accepted) + k
    BY <1>3, <1>4, <1>12
  <2>1. CASE i + 1 <= Len(accepted)
    <3>1. i \in 1 .. Len(accepted) - 1 /\ accepted'[i] = accepted[i] /\ accepted'[i + 1] = accepted[i + 1]
      BY <1>3, <1>4, <1>12, <2>0, <2>1
    <3> QED
      BY <3>1 DEF GapInv, NoSilentGap
  <2>2. CASE i = Len(accepted)
    <3>1. accepted'[i] = accepted[Len(accepted)] /\ accepted # <<>>
      BY <1>3, <1>4, <1>12, <1>22, <2>0, <2>2
    <3>2. accepted'[i + 1].epoch = epoch /\ accepted'[i + 1].event = LastRead + 1
      BY <1>3, <1>4, <1>10, <1>12, <2>0, <2>2
    <3>3. accepted[Len(accepted)].event = LastRead
      BY <3>1, <3>2 DEF GapInv
    <3> QED
      BY <3>1, <3>2, <3>3
  <2>3. CASE i > Len(accepted)
    <3>1. i - Len(accepted) \in 1 .. k /\ i + 1 - Len(accepted) \in 1 .. k
      BY <1>3, <1>4, <2>0, <2>3
    <3>2. /\ accepted'[i] = receipts[i - Len(accepted)]
          /\ accepted'[i + 1] = receipts[i + 1 - Len(accepted)]
      BY <1>3, <1>4, <1>12, <2>0, <2>3
    <3>3. /\ receipts[i - Len(accepted)].event = LastRead + (i - Len(accepted))
          /\ receipts[i + 1 - Len(accepted)].event = LastRead + (i + 1 - Len(accepted))
      BY <1>10, <3>1
    <3> QED
      BY <1>3, <1>4, <2>0, <3>2, <3>3
  <2> QED
    BY <1>3, <2>0, <2>1, <2>2, <2>3
<1>25. \A i \in DOMAIN accepted' : accepted'[i].epoch <= epoch
  <2>1. \A i \in 1 .. Len(accepted) : accepted[i].epoch <= epoch
    BY <1>13 DEF GapInv
  <2> QED
    BY <1>4, <1>13, <1>23, <2>1
<1>26. ASSUME accepted' # <<>>, accepted'[Len(accepted')].epoch = epoch
       PROVE  accepted'[Len(accepted')].event = LastRead + k
  <2>1. CASE k = 0
    <3>1. Len(accepted) > 0 /\ accepted # <<>>
      BY <1>3, <1>12, <1>22, <1>26, <2>1, EmptySeq
    <3>2. accepted'[Len(accepted')] = accepted[Len(accepted)]
      BY <1>3, <1>12, <2>1, <3>1
    <3>3. accepted[Len(accepted)].event = LastRead
      BY <1>26, <3>1, <3>2 DEF GapInv
    <3> QED
      BY <1>4, <2>1, <3>2, <3>3
  <2>2. CASE k > 0
    <3>1. Len(accepted') \in 1 .. Len(accepted) + k /\ Len(accepted') - Len(accepted) = k
      BY <1>3, <1>4, <1>12, <2>2
    <3> QED
      BY SMTT(30), <1>3, <1>4, <1>10, <1>12, <2>2, <3>1
  <2> QED
    BY <1>4, <2>1, <2>2
<1> QED
  BY <1>8, <1>9, <1>12, <1>19, <1>20, <1>24, <1>25, <1>26

(* What the types of the listener say in arithmetic.                       *)
LEMMA ListenerNumbers ==
  ASSUME ListenerTypes
  PROVE  /\ sent \in Nat /\ epoch \in Nat /\ LastRead \in Int
         /\ Len(pipe) \in Nat /\ Len(queue.entries) \in Nat
         /\ pipe \in Seq(EventNumbers) /\ queue \in Queues /\ task \in Tasks
         /\ queue.entries \in Seq(EventNumbers) /\ queue.handlers \in Seq(EventNumbers)
         /\ MaxSize \in Nat /\ MaxEvents \in Nat /\ MaxConnects \in Nat /\ MaxFailures \in Nat
<1>1. MaxSize \in Nat /\ MaxEvents \in Nat /\ MaxConnects \in Nat /\ MaxFailures \in Nat
  BY BoundAssumption, SizeAssumption
<1>2. pipe \in Seq(EventNumbers) /\ queue \in Queues /\ task \in Tasks
  BY DEF ListenerTypes, TypeOK, EventNumbers, Queues, Tasks
<1>3. queue.entries \in Seq(EventNumbers) /\ queue.handlers \in Seq(EventNumbers)
  BY <1>2 DEF Queues
<1>4. Len(pipe) \in Nat /\ Len(queue.entries) \in Nat
  BY <1>2, <1>3, LenProperties
<1>5. sent \in Nat /\ epoch \in Nat
  BY <1>1 DEF ListenerTypes, TypeOK
<1> QED
  BY <1>1, <1>2, <1>3, <1>4, <1>5 DEF LastRead

(* A step that leaves the line alone, and takes nothing back that was      *)
(* read, keeps its order.                                                  *)
LEMMA SameLine ==
  ASSUME ListenerTypes, OrderInv, Line' = Line, LastRead' \in Int, LastRead <= LastRead'
  PROVE  OrderInv'
<1>1. DOMAIN Line' = DOMAIN Line
  OBVIOUS
<1>2. Line \in Seq(EventNumbers)
  BY ListenerNumbers, ConcatProperties DEF ListenerTypes, Line
<1>3. \A i \in DOMAIN Line : Line[i] \in Nat
  BY <1>2, ListenerNumbers, LenProperties, ElementOfSeq DEF EventNumbers
<1>4. \A i \in DOMAIN Line : Line[i] <= LastRead
  BY DEF OrderInv
<1>5. \A i \in DOMAIN Line : Line[i] <= LastRead'
  BY <1>3, <1>4, ListenerNumbers
<1>6. \A i, j \in DOMAIN Line : i < j => Line[i] < Line[j]
  BY DEF OrderInv
<1>7. \A i \in DOMAIN Line' : Line'[i] <= LastRead'
  BY <1>5
<1>8. \A i, j \in DOMAIN Line' : i < j => Line'[i] < Line'[j]
  BY <1>6
<1> QED
  BY <1>7, <1>8 DEF OrderInv

(* A step that accepts nothing keeps the receipts without a gap, unless it *)
(* reads from the connection it leaves in place.                           *)
LEMMA SameReceipts ==
  ASSUME ListenerTypes, GapInv, accepted' = accepted, epoch' \in Nat, epoch <= epoch',
         \/ epoch < epoch'
         \/ socket' \notin {"connecting", "events"}
         \/ socket = "connecting"
         \/ socket' = socket /\ (socket = "events" => LastRead' = LastRead)
  PROVE  GapInv'
<1>1. NoSilentGap'
  <2>1. NoSilentGap
    BY DEF GapInv
  <2> QED
    BY <2>1 DEF NoSilentGap
<1>2. \A i \in DOMAIN accepted : accepted[i].epoch \in Nat /\ accepted[i].epoch <= epoch
  <2>1. \A i \in DOMAIN accepted : accepted[i] \in Receipts
    BY LenProperties, ElementOfSeq DEF ListenerTypes
  <2> QED
    BY <2>1, ListenerNumbers DEF GapInv, Receipts
<1>3. \A i \in DOMAIN accepted' : accepted'[i].epoch <= epoch'
  BY <1>2, ListenerNumbers
<1>4. ASSUME accepted # <<>>, accepted[Len(accepted)].epoch = epoch'
      PROVE  /\ socket' # "connecting"
             /\ socket' = "events" => accepted[Len(accepted)].event = LastRead'
  <2>1. Len(accepted) \in DOMAIN accepted
    BY <1>4, EmptySeq, LenProperties DEF ListenerTypes
  <2>2. accepted[Len(accepted)].epoch = epoch /\ epoch' = epoch
    BY <1>2, <1>4, <2>1, ListenerNumbers
  <2>3. /\ socket # "connecting"
        /\ socket = "events" => accepted[Len(accepted)].event = LastRead
    BY <1>4, <2>2 DEF GapInv
  <2> QED
    BY <2>2, <2>3, ListenerNumbers
<1>5. accepted' # <<>> /\ accepted'[Len(accepted')].epoch = epoch' =>
        /\ socket' # "connecting"
        /\ socket' = "events" => accepted'[Len(accepted')].event = LastRead'
  BY <1>4
<1> QED
  BY <1>1, <1>3, <1>5 DEF GapInv

LEMMA ListenerInit == Init => ListenerInv
<1> SUFFICES ASSUME Init PROVE ListenerInv
  OBVIOUS
<1>1. /\ <<>> \in Seq(EventNumbers) /\ <<>> \in Seq(Receipts)
      /\ Len(<<>>) = 0 /\ DOMAIN <<>> = {}
  BY EmptySeq
<1>2. MaxSize \in Nat /\ MaxEvents \in Nat /\ MaxConnects \in Nat \ {0} /\ MaxFailures \in Nat
  BY BoundAssumption, SizeAssumption
<1>3. ListenerTypes
  <2>1. sent \in 0 .. MaxEvents /\ failures \in 0 .. MaxFailures /\ epoch \in 1 .. MaxConnects
    BY <1>2 DEF Init
  <2>2. queue \in Queues /\ Len(queue.entries) = 0
    BY <1>1 DEF Init, Queues
  <2>3. task \in Tasks
    BY DEF Init, Tasks
  <2>4. Len(queue.entries) <= MaxSize
    BY <1>2, <2>2
  <2> QED
    BY <1>1, <2>1, <2>2, <2>3, <2>4
    DEF Init, ListenerTypes, TypeOK, EventNumbers, Queues, Tasks
<1>4. SocketInv
  BY <1>1 DEF Init, SocketInv
<1>5. OrderInv
  <2>1. Line = <<>>
    BY <1>1, ConcatEmptySeq DEF Init, Line
  <2> QED
    BY <1>1, <2>1 DEF OrderInv
<1>6. GapInv
  BY <1>1 DEF Init, GapInv, NoSilentGap
<1>7. ShutdownInv
  BY DEF Init, ShutdownInv
<1> QED
  BY <1>3, <1>4, <1>5, <1>6, <1>7 DEF ListenerInv

LEMMA SendEventStep == ListenerInv /\ SendEvent => ListenerInv'
<1> SUFFICES ASSUME ListenerInv, SendEvent PROVE ListenerInv'
  OBVIOUS
<1>1. ListenerTypes /\ SocketInv /\ OrderInv /\ GapInv /\ ShutdownInv
  BY DEF ListenerInv
<1>2. /\ sent < MaxEvents /\ sent' = sent + 1
      /\ UNCHANGED <<socket, epoch, reconnect, queue, task, stopped, failures, accepted, handled>>
  BY DEF SendEvent
<1>3. sent + 1 \in EventNumbers
  BY <1>1, <1>2, ListenerNumbers DEF EventNumbers
<1>4. /\ pipe' \in Seq(EventNumbers)
      /\ socket # "events" => pipe' = <<>>
      /\ \A i \in DOMAIN pipe' : pipe'[i] = LastRead' + i
      /\ LastRead' \in Int /\ LastRead <= LastRead'
      /\ socket = "events" => LastRead' = LastRead
  <2>1. CASE socket = "events"
    <3>1. pipe' = Append(pipe, sent + 1)
      BY <2>1 DEF SendEvent
    <3>2. /\ pipe' \in Seq(EventNumbers) /\ Len(pipe') = Len(pipe) + 1
          /\ \A i \in 1 .. Len(pipe) : pipe'[i] = pipe[i]
          /\ pipe'[Len(pipe) + 1] = sent + 1
      BY <1>1, <1>3, <3>1, ListenerNumbers, AppendProperties
    <3>3. LastRead' = LastRead
      BY <1>1, <1>2, <3>2, ListenerNumbers DEF LastRead
    <3>4. DOMAIN pipe' = 1 .. Len(pipe) + 1 /\ DOMAIN pipe = 1 .. Len(pipe)
      BY <1>1, <3>2, ListenerNumbers, LenProperties
    <3>5. \A i \in 1 .. Len(pipe) : pipe'[i] = LastRead + i
      BY <1>1, <3>2, <3>4 DEF SocketInv
    <3>6. pipe'[Len(pipe) + 1] = LastRead + (Len(pipe) + 1)
      BY <1>1, <3>2, ListenerNumbers DEF LastRead
    <3>7. \A i \in 1 .. Len(pipe) + 1 : i \in 1 .. Len(pipe) \/ i = Len(pipe) + 1
      BY <1>1, ListenerNumbers
    <3> QED
      BY SMTT(30), <1>1, <2>1, <3>2, <3>3, <3>4, <3>5, <3>6, <3>7, ListenerNumbers
  <2>2. CASE socket # "events"
    <3>1. pipe' = <<>> /\ pipe = <<>>
      BY <1>1, <2>2 DEF SendEvent, SocketInv
    <3>2. LastRead = sent /\ LastRead' = sent + 1
      BY <1>1, <1>2, <3>1, EmptySeq, ListenerNumbers DEF LastRead
    <3> QED
      BY <1>1, <2>2, <3>1, <3>2, EmptySeq, ListenerNumbers
  <2> QED
    BY <2>1, <2>2
<1>5. ListenerTypes'
  BY <1>1, <1>2, <1>4, ListenerNumbers DEF ListenerTypes, TypeOK, EventNumbers
<1>6. SocketInv'
  BY <1>1, <1>2, <1>4 DEF SocketInv
<1>7. OrderInv'
  <2>1. Line' = Line
    BY <1>2 DEF Line
  <2> QED
    BY <1>1, <1>4, <2>1, SameLine
<1>8. GapInv'
  BY <1>1, <1>2, <1>4, SameReceipts, ListenerNumbers
<1>9. ShutdownInv'
  BY <1>1, <1>2 DEF ShutdownInv
<1> QED
  BY <1>5, <1>6, <1>7, <1>8, <1>9 DEF ListenerInv

LEMMA DataStep == ASSUME NEW n \in 1 .. MaxEvents PROVE ListenerInv /\ Data(n) => ListenerInv'
<1> SUFFICES ASSUME ListenerInv, Data(n) PROVE ListenerInv'
  OBVIOUS
<1>1. ListenerTypes /\ SocketInv /\ OrderInv /\ GapInv /\ ShutdownInv
  BY DEF ListenerInv
<1> DEFINE room == MaxSize - Len(queue.entries)
<1>2. /\ socket = "events" /\ n \in 1 .. Len(pipe)
      /\ UNCHANGED <<sent, epoch, reconnect, task, stopped, failures, handled>>
  BY DEF Data
<1>3. room \in Nat
  BY <1>1, ListenerNumbers DEF ListenerTypes, TypeOK
<1>4. ~stopped /\ ~reconnect
  BY <1>1, <1>2 DEF ShutdownInv, SocketInv
<1>5. CASE n <= room
  <2>1. /\ Enqueue(SubSeq(pipe, 1, n)) /\ pipe' = SubSeq(pipe, n + 1, Len(pipe))
        /\ UNCHANGED <<socket, lost>>
    BY <1>5 DEF Data
  <2>2. n \in 0 .. Len(pipe) /\ n \in Nat
    BY <1>1, <1>2, ListenerNumbers
  <2>3. /\ queue' \in Queues /\ Len(queue'.entries) <= MaxSize
        /\ accepted' \in Seq(Receipts)
        /\ \A i, j \in DOMAIN Line' : i < j => Line'[i] < Line'[j]
        /\ \A i \in DOMAIN Line' : Line'[i] <= LastRead + n
        /\ NoSilentGap'
        /\ \A i \in DOMAIN accepted' : accepted'[i].epoch <= epoch
        /\ accepted' # <<>> /\ accepted'[Len(accepted')].epoch = epoch =>
             accepted'[Len(accepted')].event = LastRead + n
    BY <1>1, <1>2, <1>5, <2>1, <2>2, EnqueueFacts
  <2>4. /\ pipe' \in Seq(EventNumbers) /\ Len(pipe') = Len(pipe) - n
        /\ \A i \in 1 .. Len(pipe) - n : pipe'[i] = LastRead + n + i
    BY <1>1, <2>1, <2>2, FrameFacts, ListenerNumbers
  <2>5. LastRead' = LastRead + n
    BY <1>1, <1>2, <2>2, <2>4, ListenerNumbers DEF LastRead
  <2>6. DOMAIN pipe' = 1 .. Len(pipe) - n
    BY <2>4, LenProperties
  <2>7. ListenerTypes'
    BY <1>1, <1>2, <2>1, <2>3, <2>4 DEF ListenerTypes, TypeOK, Queues, EventNumbers
  <2>8. SocketInv'
    BY <1>2, <1>4, <2>1, <2>4, <2>5, <2>6 DEF SocketInv
  <2>9. OrderInv'
    BY <2>3, <2>5 DEF OrderInv
  <2>10. GapInv'
    BY <1>2, <2>1, <2>3, <2>5 DEF GapInv
  <2>11. ShutdownInv'
    BY <1>2, <1>4 DEF ShutdownInv
  <2> QED
    BY <2>7, <2>8, <2>9, <2>10, <2>11 DEF ListenerInv
<1>6. CASE ~(n <= room)
  <2>1. /\ Enqueue(SubSeq(pipe, 1, room)) /\ pipe' = <<>> /\ socket' = "destroyed"
    BY <1>6 DEF Data
  <2>2. room \in 0 .. Len(pipe) /\ room <= MaxSize - Len(queue.entries)
    BY <1>1, <1>2, <1>3, <1>6, ListenerNumbers
  <2>3. /\ queue' \in Queues /\ Len(queue'.entries) <= MaxSize
        /\ accepted' \in Seq(Receipts)
        /\ \A i, j \in DOMAIN Line' : i < j => Line'[i] < Line'[j]
        /\ \A i \in DOMAIN Line' : Line'[i] <= LastRead + room
        /\ NoSilentGap'
        /\ \A i \in DOMAIN accepted' : accepted'[i].epoch <= epoch
    <3> HIDE DEF room
    <3> QED
      BY <1>1, <1>2, <2>1, <2>2, EnqueueFacts
  <2>4. LastRead' = sent /\ LastRead + room <= sent
    BY SMTT(30), <1>1, <1>2, <1>3, <2>1, <2>2, EmptySeq, ListenerNumbers DEF LastRead
  <2>5. ListenerTypes'
    BY <1>1, <1>2, <2>1, <2>3, EmptySeq DEF ListenerTypes, TypeOK, Queues, EventNumbers
  <2>6. SocketInv'
    BY <1>2, <1>4, <2>1, EmptySeq DEF SocketInv
  <2>7. OrderInv'
    <3>1. handled' \in Seq(EventNumbers) /\ queue'.entries \in Seq(EventNumbers)
      BY <1>1, <1>2, <2>3 DEF ListenerTypes, Queues
    <3>2. Line' \in Seq(EventNumbers)
      BY <3>1, ConcatProperties DEF Line
    <3>3. \A i \in DOMAIN Line' : Line'[i] \in Nat
      BY SMTT(30), <3>2, <1>1, ListenerNumbers, LenProperties, ElementOfSeq DEF EventNumbers
    <3>4. \A i \in DOMAIN Line' : Line'[i] <= LastRead'
      BY SMTT(30), <1>1, <1>3, <2>3, <2>4, <3>3, ListenerNumbers
    <3> QED
      BY <2>3, <3>4 DEF OrderInv
  <2>8. GapInv'
    BY <1>2, <2>1, <2>3 DEF GapInv
  <2>9. ShutdownInv'
    BY <1>2, <1>4 DEF ShutdownInv
  <2> QED
    BY <2>5, <2>6, <2>7, <2>8, <2>9 DEF ListenerInv
<1> QED
  BY <1>5, <1>6

LEMMA CloseStep == ListenerInv /\ Close => ListenerInv'
<1> SUFFICES ASSUME ListenerInv, Close PROVE ListenerInv'
  OBVIOUS
<1>1. ListenerTypes /\ SocketInv /\ OrderInv /\ GapInv /\ ShutdownInv
  BY DEF ListenerInv
<1>2. /\ socket' = "none" /\ pipe' = <<>> /\ reconnect' = ~stopped
      /\ UNCHANGED <<sent, epoch, queue, task, stopped, failures, accepted, handled>>
  BY DEF Close
<1>3. LastRead' = sent /\ LastRead <= sent
  BY <1>1, <1>2, EmptySeq, ListenerNumbers DEF LastRead
<1>5. ListenerTypes'
  BY <1>1, <1>2, EmptySeq DEF ListenerTypes, TypeOK
<1>6. SocketInv'
  BY <1>2, EmptySeq DEF SocketInv
<1>7. OrderInv'
  <2>1. Line' = Line
    BY <1>2 DEF Line
  <2> QED
    BY <1>1, <1>3, <2>1, SameLine, ListenerNumbers
<1>8. GapInv'
  BY <1>1, <1>2, SameReceipts, ListenerNumbers
<1>9. ShutdownInv'
  BY <1>1, <1>2 DEF ShutdownInv
<1> QED
  BY <1>5, <1>6, <1>7, <1>8, <1>9 DEF ListenerInv

LEMMA ConnectStep == ListenerInv /\ Connect => ListenerInv'
<1> SUFFICES ASSUME ListenerInv, Connect PROVE ListenerInv'
  OBVIOUS
<1>1. ListenerTypes /\ SocketInv /\ OrderInv /\ GapInv /\ ShutdownInv
  BY DEF ListenerInv
<1>2. /\ reconnect /\ epoch < MaxConnects /\ reconnect' = FALSE
      /\ socket' = "connecting" /\ epoch' = epoch + 1
      /\ UNCHANGED <<sent, pipe, queue, task, stopped, failures, accepted, handled, lost>>
  BY DEF Connect, history
<1>3. pipe = <<>> /\ ~stopped
  BY <1>1, <1>2 DEF SocketInv, ShutdownInv
<1>4. LastRead' = LastRead /\ epoch + 1 \in 1 .. MaxConnects
  BY <1>1, <1>2, ListenerNumbers DEF LastRead
<1>5. ListenerTypes'
  BY <1>1, <1>2, <1>4 DEF ListenerTypes, TypeOK
<1>6. SocketInv'
  BY <1>2, <1>3, EmptySeq DEF SocketInv
<1>7. OrderInv'
  <2>1. Line' = Line
    BY <1>2 DEF Line
  <2> QED
    BY <1>1, <1>4, <2>1, SameLine, ListenerNumbers
<1>8. GapInv'
  BY <1>1, <1>2, SameReceipts, ListenerNumbers
<1>9. ShutdownInv'
  BY <1>2, <1>3 DEF ShutdownInv
<1> QED
  BY <1>5, <1>6, <1>7, <1>8, <1>9 DEF ListenerInv

LEMMA SubscribeStep == ListenerInv /\ Subscribe => ListenerInv'
<1> SUFFICES ASSUME ListenerInv, Subscribe PROVE ListenerInv'
  OBVIOUS
<1>1. ListenerTypes /\ SocketInv /\ OrderInv /\ GapInv /\ ShutdownInv
  BY DEF ListenerInv
<1>2. /\ socket = "connecting" /\ socket' = "events" /\ task' = Request(task, queue)
      /\ UNCHANGED <<sent, epoch, pipe, reconnect, queue, stopped, failures, accepted, handled>>
  BY DEF Subscribe
<1>3. pipe = <<>> /\ ~stopped /\ ~reconnect
  BY <1>1, <1>2 DEF SocketInv, ShutdownInv
<1>4. task' \in Tasks /\ LastRead' = LastRead
  BY <1>1, <1>2, TaskFacts, ListenerNumbers DEF LastRead
<1>5. ListenerTypes'
  BY <1>1, <1>2, <1>4 DEF ListenerTypes, TypeOK, Tasks
<1>6. SocketInv'
  BY <1>2, <1>3, EmptySeq DEF SocketInv
<1>7. OrderInv'
  <2>1. Line' = Line
    BY <1>2 DEF Line
  <2> QED
    BY <1>1, <1>4, <2>1, SameLine, ListenerNumbers
<1>8. GapInv'
  BY <1>1, <1>2, SameReceipts, ListenerNumbers
<1>9. ShutdownInv'
  BY <1>2, <1>3 DEF ShutdownInv
<1> QED
  BY <1>5, <1>6, <1>7, <1>8, <1>9 DEF ListenerInv

(* A step of the queue or of the task leaves the connection, the receipts   *)
(* and what was read of it alone.                                          *)
LEMMA SameConnection ==
  ASSUME ListenerTypes, SocketInv, GapInv,
         UNCHANGED <<sent, socket, epoch, pipe, reconnect, accepted>>
  PROVE  SocketInv' /\ GapInv' /\ LastRead' = LastRead
<1>1. LastRead' = LastRead
  BY DEF LastRead
<1>2. SocketInv'
  BY <1>1 DEF SocketInv
<1>3. GapInv'
  BY <1>1, SameReceipts, ListenerNumbers
<1> QED
  BY <1>1, <1>2, <1>3

LEMMA IntervalStep == ListenerInv /\ Interval => ListenerInv'
<1> SUFFICES ASSUME ListenerInv, Interval PROVE ListenerInv'
  OBVIOUS
<1>1. ListenerTypes /\ SocketInv /\ OrderInv /\ GapInv /\ ShutdownInv
  BY DEF ListenerInv
<1>2. /\ ~stopped /\ task' = Request(task, queue)
      /\ UNCHANGED <<sent, socket, epoch, pipe, reconnect, queue, stopped, failures, accepted, handled>>
  BY DEF Interval, connection
<1>3. task' \in Tasks
  BY <1>1, <1>2, TaskFacts, ListenerNumbers
<1>4. SocketInv' /\ GapInv' /\ LastRead' = LastRead
  BY <1>1, <1>2, SameConnection
<1>5. ListenerTypes'
  BY <1>1, <1>2, <1>3 DEF ListenerTypes, TypeOK, Tasks
<1>7. OrderInv'
  <2>1. Line' = Line
    BY <1>2 DEF Line
  <2> QED
    BY <1>1, <1>4, <2>1, SameLine, ListenerNumbers
<1>8. ShutdownInv'
  BY <1>2 DEF ShutdownInv
<1> QED
  BY <1>4, <1>5, <1>7, <1>8 DEF ListenerInv

LEMMA HandlerDoneStep == ListenerInv /\ HandlerDone => ListenerInv'
<1> SUFFICES ASSUME ListenerInv, HandlerDone PROVE ListenerInv'
  OBVIOUS
<1>1. ListenerTypes /\ SocketInv /\ OrderInv /\ GapInv /\ ShutdownInv
  BY DEF ListenerInv
<1>2. /\ queue.handlers # <<>> /\ task' = Woken(task, queue', FALSE)
      /\ UNCHANGED <<sent, socket, epoch, pipe, reconnect, stopped, failures, accepted>>
  BY DEF HandlerDone, HandlerEnds, connection
<1> DEFINE q == Finished(queue)
<1>10. IF IsHead(queue, Handler)
       THEN queue' = Drain(Shifted(q)) /\ handled' = Append(handled, Handler)
       ELSE queue' = Drain(q) /\ handled' = handled
  BY DEF HandlerDone
<1>3. q \in Queues /\ q.entries = queue.entries
  BY <1>1, <1>2, ListenerNumbers, FinishedFacts
<1>4. SocketInv' /\ GapInv' /\ LastRead' = LastRead
  BY <1>1, <1>2, SameConnection
<1>6. /\ queue' \in Queues /\ Len(queue'.entries) <= Len(queue.entries)
      /\ handled' \in Seq(EventNumbers) /\ Line' = Line
  <2>1. CASE IsHead(queue, Handler)
    <3>1. queue' = Drain(Shifted(q)) /\ handled' = Append(handled, Handler)
      BY <1>10, <2>1
    <3>2. queue.entries # <<>> /\ Head(queue.entries) = Handler
      BY <1>3, <2>1 DEF IsHead
    <3>3. /\ queue.entries \in Seq(EventNumbers) /\ handled \in Seq(EventNumbers)
          /\ Len(queue.entries) \in Nat
      BY <1>1, ListenerNumbers DEF ListenerTypes
    <3>4. /\ Handler \in EventNumbers /\ Tail(queue.entries) \in Seq(EventNumbers)
          /\ Len(Tail(queue.entries)) = Len(queue.entries) - 1
      BY <3>2, <3>3, HeadTailProperties
    <3>5. Shifted(q) \in Queues /\ Shifted(q).entries = Tail(queue.entries)
      BY <1>3, <3>4 DEF Shifted, Queues
    <3>6. queue' \in Queues /\ queue'.entries = Tail(queue.entries)
      BY <3>1, <3>5, DrainFacts
    <3>7. Len(queue'.entries) <= Len(queue.entries)
      BY <3>3, <3>4, <3>6
    <3>8. handled' = handled \o <<Handler>> /\ handled' \in Seq(EventNumbers)
      BY <3>1, <3>3, <3>4, AppendIsConcat, AppendProperties
    <3>9. <<Handler>> \in Seq(EventNumbers) /\ queue.entries = <<Handler>> \o Tail(queue.entries)
      <4>1. SubSeq(queue.entries, 1, Len(queue.entries)) =
              <<queue.entries[1]>> \o SubSeq(queue.entries, 2, Len(queue.entries))
        <5>1. 1 \in 1 .. Len(queue.entries) /\ Len(queue.entries) \in 1 .. Len(queue.entries)
          BY <3>2, <3>3, EmptySeq
        <5> QED
          BY <3>3, <5>1, SubSeqRecursiveFirst
      <4>2. queue.entries[1] = Handler
        BY <3>2
      <4> QED
        BY <3>2, <3>3, <3>4, <4>1, <4>2, SubSeqFull, TailIsSubSeq
    <3>10. \A a, b, c \in Seq(EventNumbers) : (a \o b) \o c = a \o (b \o c)
      BY ConcatAssociative
    <3>11. (handled \o <<Handler>>) \o Tail(queue.entries) = handled \o queue.entries
      <4>1. (handled \o <<Handler>>) \o Tail(queue.entries) = handled \o (<<Handler>> \o Tail(queue.entries))
        BY <3>3, <3>4, <3>9, <3>10, Zenon
      <4> QED
        BY <3>9, <4>1
    <3>12. Line' = Line
      BY <3>6, <3>8, <3>11 DEF Line
    <3> QED
      BY <3>6, <3>7, <3>8, <3>12
  <2>2. CASE ~IsHead(queue, Handler)
    <3>1. queue' = Drain(q) /\ handled' = handled
      BY <1>10, <2>2
    <3>2. queue' \in Queues /\ queue'.entries = queue.entries
      BY <1>3, <3>1, DrainFacts
    <3> QED
      BY <1>1, <3>1, <3>2, ListenerNumbers DEF Line, ListenerTypes
  <2> QED
    BY <2>1, <2>2
<1>9. task' \in Tasks /\ (task.phase # "waiting" => task' = task)
  BY <1>1, <1>2, TaskFacts, ListenerNumbers
<1>5. ListenerTypes'
  <2>1. queue'.entries \in Seq(EventNumbers)
    BY <1>6 DEF Queues
  <2>2. Len(queue'.entries) <= MaxSize
    BY SMTT(30), <1>1, <1>6, <2>1, ListenerNumbers, LenProperties DEF ListenerTypes, TypeOK
  <2> QED
    BY <1>1, <1>2, <1>6, <1>9, <2>2 DEF ListenerTypes, TypeOK, Tasks, Queues, EventNumbers
<1>7. OrderInv'
  BY <1>1, <1>4, <1>6, SameLine, ListenerNumbers
<1>8. ShutdownInv'
  BY <1>1, <1>2, <1>9 DEF ShutdownInv
<1> QED
  BY <1>4, <1>5, <1>7, <1>8 DEF ListenerInv

LEMMA HandlerFailsStep == ListenerInv /\ HandlerFails => ListenerInv'
<1> SUFFICES ASSUME ListenerInv, HandlerFails PROVE ListenerInv'
  OBVIOUS
<1>1. ListenerTypes /\ SocketInv /\ OrderInv /\ GapInv /\ ShutdownInv
  BY DEF ListenerInv
<1>2. /\ queue.handlers # <<>> /\ failures < MaxFailures /\ failures' = failures + 1
      /\ UNCHANGED <<sent, socket, epoch, pipe, reconnect, task, stopped, accepted, handled>>
  BY DEF HandlerFails, HandlerEnds, connection, history
<1>3. queue' \in Queues /\ queue'.entries = queue.entries
  <2>1. Finished(queue) \in Queues /\ Finished(queue).entries = queue.entries
    BY <1>1, <1>2, ListenerNumbers, FinishedFacts
  <2> QED
    BY <2>1 DEF HandlerFails, Queues
<1>4. SocketInv' /\ GapInv' /\ LastRead' = LastRead
  BY <1>1, <1>2, SameConnection
<1>5. ListenerTypes'
  <2>1. failures' \in 0 .. MaxFailures
    BY <1>1, <1>2, ListenerNumbers DEF ListenerTypes, TypeOK
  <2> QED
    BY <1>1, <1>2, <1>3, <2>1 DEF ListenerTypes, TypeOK, Queues, EventNumbers
<1>7. OrderInv'
  <2>1. Line' = Line
    BY <1>2, <1>3 DEF Line
  <2> QED
    BY <1>1, <1>4, <2>1, SameLine, ListenerNumbers
<1>8. ShutdownInv'
  BY <1>1, <1>2 DEF ShutdownInv
<1> QED
  BY <1>4, <1>5, <1>7, <1>8 DEF ListenerInv

LEMMA RetryTimerStep == ListenerInv /\ RetryTimer => ListenerInv'
<1> SUFFICES ASSUME ListenerInv, RetryTimer PROVE ListenerInv'
  OBVIOUS
<1>1. ListenerTypes /\ SocketInv /\ OrderInv /\ GapInv /\ ShutdownInv
  BY DEF ListenerInv
<1>2. /\ queue' = Drain([queue EXCEPT !.retry = FALSE])
      /\ UNCHANGED <<sent, socket, epoch, pipe, reconnect, task, stopped, failures, accepted, handled>>
  BY DEF RetryTimer, connection, history
<1>3. queue' \in Queues /\ queue'.entries = queue.entries
  <2>1. /\ [queue EXCEPT !.retry = FALSE] \in Queues
        /\ [queue EXCEPT !.retry = FALSE].entries = queue.entries
    BY <1>1, ListenerNumbers DEF Queues
  <2> QED
    BY <1>2, <2>1, DrainFacts
<1>4. SocketInv' /\ GapInv' /\ LastRead' = LastRead
  BY <1>1, <1>2, SameConnection
<1>5. ListenerTypes'
  BY <1>1, <1>2, <1>3 DEF ListenerTypes, TypeOK, Queues, EventNumbers
<1>7. OrderInv'
  <2>1. Line' = Line
    BY <1>2, <1>3 DEF Line
  <2> QED
    BY <1>1, <1>4, <2>1, SameLine, ListenerNumbers
<1>8. ShutdownInv'
  BY <1>1, <1>2 DEF ShutdownInv
<1> QED
  BY <1>4, <1>5, <1>7, <1>8 DEF ListenerInv

LEMMA ReconcileEndsStep == ListenerInv /\ ReconcileEnds => ListenerInv'
<1> SUFFICES ASSUME ListenerInv, ReconcileEnds PROVE ListenerInv'
  OBVIOUS
<1>1. ListenerTypes /\ SocketInv /\ OrderInv /\ GapInv /\ ShutdownInv
  BY DEF ListenerInv
<1>2. /\ task.phase = "working" /\ task' = EndOfRun(task, queue)
      /\ UNCHANGED <<sent, socket, epoch, pipe, reconnect, queue, stopped, failures, accepted, handled>>
  BY DEF ReconcileEnds, connection
<1>3. task' \in Tasks /\ (stopped => task'.phase = "idle")
  BY <1>1, <1>2, TaskFacts, ListenerNumbers
<1>4. SocketInv' /\ GapInv' /\ LastRead' = LastRead
  BY <1>1, <1>2, SameConnection
<1>5. ListenerTypes'
  BY <1>1, <1>2, <1>3 DEF ListenerTypes, TypeOK, Tasks
<1>7. OrderInv'
  <2>1. Line' = Line
    BY <1>2 DEF Line
  <2> QED
    BY <1>1, <1>4, <2>1, SameLine, ListenerNumbers
<1>8. ShutdownInv'
  BY <1>1, <1>2, <1>3 DEF ShutdownInv
<1> QED
  BY <1>4, <1>5, <1>7, <1>8 DEF ListenerInv

LEMMA StopStep == ListenerInv /\ Stop => ListenerInv'
<1> SUFFICES ASSUME ListenerInv, Stop PROVE ListenerInv'
  OBVIOUS
<1>1. ListenerTypes /\ SocketInv /\ OrderInv /\ GapInv /\ ShutdownInv
  BY DEF ListenerInv
<1>2. /\ queue' = [queue EXCEPT !.entries = <<>>, !.retry = FALSE]
      /\ task' = Woken([task EXCEPT !.requested = FALSE], queue', TRUE)
      /\ reconnect' = FALSE /\ pipe' = <<>>
      /\ socket' = IF socket = "none" THEN "none" ELSE "destroyed"
      /\ UNCHANGED <<sent, epoch, failures, accepted, handled, lost>> /\ stopped'
  BY DEF Stop, history
<1>3. LastRead' = sent /\ LastRead <= sent /\ LastRead' \in Int
  BY <1>1, <1>2, EmptySeq, ListenerNumbers DEF LastRead
<1>4. queue' \in Queues /\ queue'.entries = <<>> /\ Len(queue'.entries) = 0
  BY <1>1, <1>2, EmptySeq, ListenerNumbers DEF Queues
<1>10. task' \in Tasks /\ task'.phase # "waiting"
  <2>1. [task EXCEPT !.requested = FALSE] \in Tasks
    BY <1>1, ListenerNumbers DEF Tasks
  <2> QED
    BY <1>2, <2>1, TaskFacts
<1>5. ListenerTypes'
  <2>1. Len(queue'.entries) <= MaxSize
    BY <1>1, <1>4, ListenerNumbers
  <2> QED
    BY <1>1, <1>2, <1>4, <1>10, <2>1, EmptySeq DEF ListenerTypes, TypeOK, Queues, Tasks, EventNumbers
<1>6. SocketInv'
  BY <1>2, EmptySeq DEF SocketInv
<1>7. OrderInv'
  <2>1. /\ handled \in Seq(EventNumbers) /\ queue.entries \in Seq(EventNumbers)
        /\ Len(handled) \in Nat /\ Len(queue.entries) \in Nat
    BY <1>1, ListenerNumbers, LenProperties DEF ListenerTypes
  <2>2. Line' = handled
    BY <1>2, <1>4, <2>1, ConcatEmptySeq DEF Line
  <2>3. /\ Line \in Seq(EventNumbers) /\ Len(Line) = Len(handled) + Len(queue.entries)
        /\ \A i \in 1 .. Len(handled) : Line[i] = handled[i]
    BY <2>1, ConcatProperties DEF Line
  <2>4. \A i \in DOMAIN handled : i \in DOMAIN Line /\ Line[i] = handled[i]
    BY <2>1, <2>3, LenProperties
  <2>5. \A i \in DOMAIN Line : Line[i] \in Nat
    BY SMTT(30), <1>1, <2>3, ListenerNumbers, LenProperties, ElementOfSeq DEF EventNumbers
  <2>6. \A i \in DOMAIN handled : handled[i] <= LastRead'
    BY <1>1, <1>3, <2>4, <2>5, ListenerNumbers DEF OrderInv
  <2>7. \A i, j \in DOMAIN handled : i < j => handled[i] < handled[j]
    BY <1>1, <2>4 DEF OrderInv
  <2> QED
    BY <2>2, <2>6, <2>7 DEF OrderInv
<1>8. GapInv'
  BY <1>1, <1>2, SameReceipts, ListenerNumbers
<1>9. ShutdownInv'
  BY <1>2, <1>10 DEF ShutdownInv
<1> QED
  BY <1>5, <1>6, <1>7, <1>8, <1>9 DEF ListenerInv

LEMMA ListenerStep == ListenerInv /\ [Next]_vars => ListenerInv'
<1> SUFFICES ASSUME ListenerInv, [Next]_vars PROVE ListenerInv'
  OBVIOUS
<1>1. CASE SendEvent
  BY <1>1, SendEventStep
<1>2. CASE \E n \in 1 .. MaxEvents : Data(n)
  BY <1>2, DataStep
<1>3. CASE Close
  BY <1>3, CloseStep
<1>4. CASE Connect
  BY <1>4, ConnectStep
<1>5. CASE Subscribe
  BY <1>5, SubscribeStep
<1>6. CASE Interval
  BY <1>6, IntervalStep
<1>7. CASE HandlerDone
  BY <1>7, HandlerDoneStep
<1>8. CASE HandlerFails
  BY <1>8, HandlerFailsStep
<1>9. CASE RetryTimer
  BY <1>9, RetryTimerStep
<1>10. CASE ReconcileEnds
  BY <1>10, ReconcileEndsStep
<1>11. CASE Stop
  BY <1>11, StopStep
<1>12. CASE UNCHANGED vars
  <2>1. UNCHANGED <<sent, socket, epoch, pipe, reconnect, queue, task, stopped, failures, accepted, handled>>
    BY <1>12 DEF vars, connection, history
  <2>2. ListenerTypes /\ SocketInv /\ OrderInv /\ GapInv /\ ShutdownInv
    BY DEF ListenerInv
  <2>3. SocketInv' /\ GapInv' /\ LastRead' = LastRead
    BY <2>1, <2>2, SameConnection
  <2>4. Line' = Line
    BY <2>1 DEF Line
  <2>5. OrderInv'
    BY <2>2, <2>3, <2>4, SameLine, ListenerNumbers
  <2>6. ListenerTypes' /\ ShutdownInv'
    BY <2>1, <2>2 DEF ListenerTypes, TypeOK, ShutdownInv
  <2> QED
    BY <2>3, <2>5, <2>6 DEF ListenerInv
<1> QED
  BY <1>1, <1>2, <1>3, <1>4, <1>5, <1>6, <1>7, <1>8, <1>9, <1>10, <1>11, <1>12 DEF Next

LEMMA ListenerInvariant == Spec => []ListenerInv
<1> QED
  BY ListenerInit, ListenerStep, PTL DEF Spec

(* The listener's queue stays within its capacity, and what it keeps has   *)
(* the types that the code gives it.                                       *)
THEOREM ListenerTypesCorrect == Spec => []TypeOK
<1>1. ListenerInv => TypeOK
  BY DEF ListenerInv, ListenerTypes
<1> QED
  BY <1>1, ListenerInvariant, PTL

(* Events are persisted in the order FreeSWITCH sent them, and none is     *)
(* repeated, for any capacity of the queue, through transient failures,    *)
(* overflows, reconnects and a shutdown.                                   *)
THEOREM EventsKeepTheirOrder == Spec => []EventsInOrder
<1>1. ListenerInv => EventsInOrder
  BY DEF ListenerInv, OrderInv, EventsInOrder, Line
<1> QED
  BY <1>1, ListenerInvariant, PTL

(* What the listener takes from one connection has no gap: an event that   *)
(* does not fit is missing only with all that came after it there.         *)
THEOREM NoGapOnAConnection == Spec => []NoSilentGap
<1>1. ListenerInv => NoSilentGap
  BY DEF ListenerInv, GapInv
<1> QED
  BY <1>1, ListenerInvariant, PTL

(* After a shutdown no step starts the handler of an event or a            *)
(* reconciliation: what would start one is already gone.                   *)
LEMMA ShutdownStep ==
  ListenerInv /\ [Next]_vars =>
    (stopped' => /\ Len(queue'.handlers) <= Len(queue.handlers)
                 /\ task'.phase = "working" => task.phase = "working")
<1> SUFFICES ASSUME ListenerInv, [Next]_vars, stopped'
             PROVE  /\ Len(queue'.handlers) <= Len(queue.handlers)
                    /\ task'.phase = "working" => task.phase = "working"
  OBVIOUS
<1>1. ListenerTypes /\ SocketInv /\ ShutdownInv
  BY DEF ListenerInv
<1>2. queue \in Queues /\ task \in Tasks /\ Len(queue.handlers) \in Nat
  BY <1>1, ListenerNumbers, LenProperties
<1>3. CASE Stop
  <2>1. queue'.handlers = queue.handlers
    BY <1>2, <1>3 DEF Stop, Queues
  <2> DEFINE calm == [task EXCEPT !.requested = FALSE]
  <2>2. calm \in Tasks /\ calm.phase = task.phase
    BY <1>2 DEF Tasks
  <2>3. task' = IF calm.phase # "waiting" THEN calm ELSE [phase |-> "idle", requested |-> FALSE]
    BY <1>3 DEF Stop, Woken
  <2> HIDE DEF calm
  <2> QED
    BY <1>2, <2>1, <2>2, <2>3
<1>4. CASE ~Stop
  <2>1. stopped
    BY <1>4 DEF Next, SendEvent, Data, Close, Connect, Subscribe, Interval, HandlerDone,
                HandlerFails, RetryTimer, ReconcileEnds, vars
  <2>2. socket \notin {"connecting", "events"} /\ ~reconnect /\ task.phase # "waiting"
    BY <1>1, <2>1 DEF ShutdownInv
  <2>3. CASE UNCHANGED <<queue, task>>
    BY <1>2, <2>3
  <2>4. CASE HandlerDone
    <3>1. queue.handlers # <<>> /\ task' = Woken(task, queue', FALSE)
      BY <2>4 DEF HandlerDone, HandlerEnds
    <3>2. task' = task
      BY <1>2, <2>2, <3>1, TaskFacts
    <3>3. Finished(queue) \in Queues /\ Len(Finished(queue).handlers) < Len(queue.handlers)
      BY <1>2, <3>1, FinishedFacts
    <3>4. queue' = Drain(Finished(queue))
      BY <2>1, <2>4 DEF HandlerDone, IsHead
    <3>5. queue' = Finished(queue)
      BY <2>1, <3>3, <3>4, DrainFacts
    <3>6. Len(Finished(queue).handlers) \in Nat
      BY <3>3, LenProperties DEF Queues
    <3> QED
      BY <1>2, <3>2, <3>3, <3>5, <3>6
  <2>5. CASE HandlerFails
    <3>1. queue.handlers # <<>> /\ task' = task
      BY <2>5 DEF HandlerFails, HandlerEnds
    <3>2. Finished(queue) \in Queues /\ Len(Finished(queue).handlers) < Len(queue.handlers)
      BY <1>2, <3>1, FinishedFacts
    <3>3. queue' = Finished(queue)
      BY <2>1, <2>5 DEF HandlerFails, IsHead
    <3>4. Len(Finished(queue).handlers) \in Nat
      BY <3>2, LenProperties DEF Queues
    <3> QED
      BY <1>2, <3>1, <3>2, <3>3, <3>4
  <2>6. CASE RetryTimer
    <3>1. [queue EXCEPT !.retry = FALSE] \in Queues
      BY <1>2 DEF Queues
    <3>2. queue' = [queue EXCEPT !.retry = FALSE] /\ task' = task
      BY <2>1, <2>6, <3>1, DrainFacts DEF RetryTimer
    <3>3. queue'.handlers = queue.handlers
      BY <1>2, <3>2 DEF Queues
    <3> QED
      BY <1>2, <3>2, <3>3
  <2>7. CASE ReconcileEnds
    <3>1. queue' = queue /\ task' = EndOfRun(task, queue)
      BY <2>7 DEF ReconcileEnds
    <3>2. task'.phase = "idle"
      BY <1>2, <2>1, <3>1, TaskFacts
    <3> QED
      BY <1>2, <3>1, <3>2
  <2>8. CASE SendEvent \/ Close
    BY <2>3, <2>8 DEF SendEvent, Close
  <2>9. ~(\E n \in 1 .. MaxEvents : Data(n)) /\ ~Connect /\ ~Subscribe /\ ~Interval
    BY <2>1, <2>2 DEF Data, Connect, Subscribe, Interval
  <2> QED
    BY <1>4, <2>3, <2>4, <2>5, <2>6, <2>7, <2>8, <2>9 DEF Next, vars
<1> QED
  BY <1>3, <1>4

(* Nothing starts after a shutdown.                                        *)
THEOREM NothingStartsAfterShutdown == Spec => QuietAfterStop
<1>1. ListenerInv /\ [Next]_vars =>
        (stopped' => /\ Len(queue'.handlers) <= Len(queue.handlers)
                     /\ task'.phase = "working" => task.phase = "working")
  BY ShutdownStep
<1> QED
  BY ListenerInvariant, <1>1, PTL DEF Spec, QuietAfterStop

------------------------------------------------------------------------------
(* The early-media fallback.                                               *)

CallStates == [agentLeg : BOOLEAN, customerLeg : BOOLEAN, hooked : BOOLEAN, detected : BOOLEAN,
               active : BOOLEAN, terminated : BOOLEAN, timer : BOOLEAN]
ChannelEvents == [leg : {"agent", "customer"}, name : {"create", "media", "answer", "hangup"}]
Operations == {"inspect", "stop"}
Commands == {"count", "hook", "broadcast", "break"}

MediaTypes ==
  /\ MediaTypeOK
  /\ state \in CallStates
  /\ rtp \in BOOLEAN /\ tone \in BOOLEAN /\ hook \in BOOLEAN
  /\ masked \in BOOLEAN /\ listening \in BOOLEAN
  /\ wire \in Seq(ChannelEvents)

(* The controller has not heard of the call yet.                           *)
Untouched == ~known /\ state = NewState /\ chain = <<>> /\ step = "none" /\ ~masked

(* The agent's leg is created once, and that is the first event of all:    *)
(* when a state was dropped, nothing gives a second one the agent's leg.   *)
WireInv ==
  /\ channel.agent = "none" => channel.customer = "none" /\ wire = <<>> /\ Untouched
  /\ \A i \in DOMAIN wire : wire[i].leg = "agent" =>
       wire[i].name = "hangup" \/ (wire[i].name = "create" /\ i = 1 /\ Untouched)

(* An inspection past its first check belongs to a known call.             *)
ChainInv ==
  /\ ~known => state = NewState
  /\ step \in {"count", "hook", "broadcast"} =>
       known /\ chain # <<>> /\ Head(chain) = "inspect" /\ state.agentLeg
  /\ state.active => state.agentLeg

(* A tone that plays is one that the controller knows of.                  *)
ToneInv == ToneIsKnown /\ tone => state.active \/ step = "break"

(* After media was seen no inspection gets past its first check again.     *)
MaskInv ==
  masked => /\ step \in {"none", "break"} /\ ~state.active
            /\ state.detected \/ state.terminated \/ ~state.agentLeg

MediaInv == MediaTypes /\ WireInv /\ ChainInv /\ ToneInv /\ MaskInv

LEMMA CallStateFacts ==
  /\ NewState \in CallStates
  /\ [DOMAIN NewState -> BOOLEAN] = CallStates
  /\ ~NewState.active /\ ~NewState.agentLeg /\ ~NewState.detected /\ ~NewState.terminated
  /\ ~NewState.timer
<1>1. NewState \in CallStates
  BY DEF NewState, CallStates
<1>2. DOMAIN NewState = {"agentLeg", "customerLeg", "hooked", "detected", "active", "terminated", "timer"}
  BY DEF NewState
<1>3. [DOMAIN NewState -> BOOLEAN] = CallStates
  BY <1>2 DEF CallStates
<1> QED
  BY <1>1, <1>3 DEF NewState

(* Scheduling an inspection touches the timer only.                        *)
LEMMA ScheduleFacts ==
  ASSUME NEW s \in CallStates
  PROVE  /\ ScheduleInspection(s) \in CallStates
         /\ ScheduleInspection(s).active = s.active
         /\ ScheduleInspection(s).agentLeg = s.agentLeg
         /\ ScheduleInspection(s).detected = s.detected
         /\ ScheduleInspection(s).terminated = s.terminated
BY DEF ScheduleInspection, CallStates

LEMMA MediaTypeFacts ==
  ASSUME MediaTypes
  PROVE  /\ state \in CallStates /\ known \in BOOLEAN
         /\ step \in {"none"} \cup Commands /\ chain \in Seq(Operations)
         /\ step # "none" => chain # <<>>
         /\ channel \in [agent : {"none", "up", "gone"},
                         customer : {"none", "ringing", "early", "up", "gone"}]
         /\ unanswered \in Seq(Commands) /\ Len(unanswered) <= MaxFaults
         /\ wire \in Seq(ChannelEvents)
         /\ rtp \in BOOLEAN /\ tone \in BOOLEAN /\ hook \in BOOLEAN
         /\ masked \in BOOLEAN /\ listening \in BOOLEAN
         /\ MaxFaults \in Nat
BY FaultAssumption DEF MediaTypes, MediaTypeOK, Operations, Commands

(* These facts are all that makes up the types.                            *)
LEMMA MediaTypesAgain ==
  ASSUME state \in CallStates, known \in BOOLEAN,
         step \in {"none"} \cup Commands, chain \in Seq(Operations),
         step # "none" => chain # <<>>,
         channel \in [agent : {"none", "up", "gone"},
                      customer : {"none", "ringing", "early", "up", "gone"}],
         unanswered \in Seq(Commands), Len(unanswered) <= MaxFaults,
         wire \in Seq(ChannelEvents),
         rtp \in BOOLEAN, tone \in BOOLEAN, hook \in BOOLEAN,
         masked \in BOOLEAN, listening \in BOOLEAN
  PROVE  MediaTypes
BY CallStateFacts DEF MediaTypes, MediaTypeOK, Operations, Commands

(* An operation that ends leaves its state, or none when the call is over. *)
LEMMA OperationFacts ==
  ASSUME MediaTypes, ChainInv, chain # <<>>, NEW s \in CallStates, OperationEnds(s)
  PROVE  /\ step' = "none" /\ chain' \in Seq(Operations) /\ known' \in BOOLEAN
         /\ state' \in CallStates
         /\ ~known' => state' = NewState
         /\ known' => state' = s /\ known
         /\ known /\ Head(chain) = "inspect" => state' = s
         /\ Head(chain) # "inspect" => state' = NewState
         /\ ~known => state' = NewState
<1>1. known \in BOOLEAN /\ chain \in Seq(Operations)
  BY MediaTypeFacts
<1>2. Tail(chain) \in Seq(Operations)
  BY <1>1, HeadTailProperties
<1>3. /\ step' = "none" /\ chain' = Tail(chain)
      /\ known' = (known /\ Head(chain) = "inspect")
      /\ state' = IF known' THEN s ELSE NewState
  BY DEF OperationEnds
<1>4. known' \in BOOLEAN
  BY <1>1, <1>3
<1> QED
  BY <1>1, <1>2, <1>3, <1>4, CallStateFacts

(* A command that gets no answer is recorded, and hides the tone if it was *)
(* about the tone.                                                         *)
LEMMA AnswerFacts ==
  ASSUME MediaTypes, step # "none", Answered \/ Unanswered
  PROVE  /\ unanswered' \in Seq(Commands) /\ Len(unanswered') <= MaxFaults
         /\ ToneIsKnown' => ToneIsKnown
         /\ Unanswered /\ step \in {"broadcast", "break"} => ~ToneIsKnown'
<1>1. unanswered \in Seq(Commands) /\ Len(unanswered) <= MaxFaults /\ step \in Commands
      /\ Len(unanswered) \in Nat /\ MaxFaults \in Nat
  BY MediaTypeFacts, LenProperties
<1>2. CASE unanswered' = unanswered /\ ~Unanswered
  BY <1>1, <1>2 DEF ToneIsKnown
<1>3. CASE Unanswered
  <2>1. Len(unanswered) < MaxFaults /\ unanswered' = Append(unanswered, step)
    BY <1>3 DEF Unanswered
  <2>2. /\ unanswered' \in Seq(Commands) /\ Len(unanswered') = Len(unanswered) + 1
        /\ \A i \in 1 .. Len(unanswered) : unanswered'[i] = unanswered[i]
        /\ unanswered'[Len(unanswered) + 1] = step
    BY <1>1, <2>1, AppendProperties
  <2>3. /\ DOMAIN unanswered = 1 .. Len(unanswered)
        /\ DOMAIN unanswered' = 1 .. Len(unanswered) + 1
    BY <1>1, <2>2, LenProperties
  <2>4. Len(unanswered') <= MaxFaults
    BY <1>1, <2>1, <2>2
  <2>5. \A i \in DOMAIN unanswered : i \in DOMAIN unanswered' /\ unanswered'[i] = unanswered[i]
    BY <1>1, <2>2, <2>3
  <2>6. ToneIsKnown' => ToneIsKnown
    BY <2>5 DEF ToneIsKnown
  <2>7. Len(unanswered) + 1 \in DOMAIN unanswered'
    BY <1>1, <2>3
  <2>8. step \in {"broadcast", "break"} => ~ToneIsKnown'
    BY <2>2, <2>7 DEF ToneIsKnown
  <2> QED
    BY <2>2, <2>4, <2>6, <2>8
<1> QED
  BY <1>2, <1>3 DEF Answered

LEMMA MediaInitInv == MediaInit => MediaInv
<1> SUFFICES ASSUME MediaInit PROVE MediaInv
  OBVIOUS
<1>1. /\ <<>> \in Seq(Operations) /\ <<>> \in Seq(Commands) /\ <<>> \in Seq(ChannelEvents)
      /\ Len(<<>>) = 0 /\ DOMAIN <<>> = {}
  BY EmptySeq
<1>2. MediaTypes
  <2>1. Len(unanswered) <= MaxFaults
    BY <1>1, FaultAssumption DEF MediaInit
  <2>2. channel \in [agent : {"none", "up", "gone"},
                     customer : {"none", "ringing", "early", "up", "gone"}]
    BY DEF MediaInit
  <2> QED
    BY <1>1, <2>1, <2>2, CallStateFacts, MediaTypesAgain DEF MediaInit, Commands
<1>3. WireInv
  BY <1>1 DEF MediaInit, WireInv, Untouched
<1>4. ChainInv /\ ToneInv /\ MaskInv
  BY CallStateFacts DEF MediaInit, ChainInv, ToneInv, MaskInv
<1> QED
  BY <1>2, <1>3, <1>4 DEF MediaInv

(* What FreeSWITCH does: it sends at most one event, the creation of the   *)
(* agent's leg before everything else, and starts no tone.                 *)
LEMMA ChannelFacts ==
  ASSUME MediaTypes, WireInv, ChannelStep
  PROVE  /\ channel' \in [agent : {"none", "up", "gone"},
                          customer : {"none", "ringing", "early", "up", "gone"}]
         /\ channel'.agent = "none" =>
              channel.agent = "none" /\ channel'.customer = "none" /\ wire' = wire
         /\ rtp' \in BOOLEAN /\ tone' \in BOOLEAN /\ (tone' => tone) /\ hook' = hook
         /\ \/ wire' = wire
            \/ \E e \in ChannelEvents :
                 /\ wire' = Append(wire, e)
                 /\ e.leg = "agent" =>
                      \/ e.name = "hangup"
                      \/ e.name = "create" /\ channel.agent = "none"
<1> DEFINE Appends(l, n) == wire' = Append(wire, [leg |-> l, name |-> n])
<1>1. /\ channel \in [agent : {"none", "up", "gone"},
                      customer : {"none", "ringing", "early", "up", "gone"}]
      /\ rtp \in BOOLEAN /\ tone \in BOOLEAN /\ hook \in BOOLEAN
  BY MediaTypeFacts
<1>2. channel.agent = "none" => channel.customer = "none"
  BY DEF WireInv
<1>3. \A l \in {"agent", "customer"}, n \in {"create", "media", "answer", "hangup"} :
        /\ [leg |-> l, name |-> n] \in ChannelEvents
        /\ [leg |-> l, name |-> n].leg = l /\ [leg |-> l, name |-> n].name = n
  BY DEF ChannelEvents
<1>4. \A n \in {"create", "media", "answer", "hangup"} : Appends("customer", n) =>
        \E e \in ChannelEvents : wire' = Append(wire, e) /\ e.leg = "customer"
  BY <1>3
<1>5. Appends("agent", "hangup") =>
        \E e \in ChannelEvents : wire' = Append(wire, e) /\ e.leg = "agent" /\ e.name = "hangup"
  BY <1>3
<1>6. Appends("agent", "create") =>
        \E e \in ChannelEvents : wire' = Append(wire, e) /\ e.leg = "agent" /\ e.name = "create"
  BY <1>3
<1> HIDE DEF Appends
<1>7. CASE AgentLegCreated
  <2>1. Appends("agent", "create") /\ channel.agent = "none"
    BY <1>7 DEF AgentLegCreated, Emit, Appends
  <2> QED
    BY <1>1, <1>6, <1>7, <2>1 DEF AgentLegCreated
<1>8. CASE CustomerLegCreated
  <2>1. Appends("customer", "create")
    BY <1>8 DEF CustomerLegCreated, Emit, Appends
  <2> QED
    BY <1>1, <1>4, <1>8, <2>1 DEF CustomerLegCreated
<1>9. CASE MediaAnnounced
  <2>1. Appends("customer", "media")
    BY <1>9 DEF MediaAnnounced, Emit, Appends
  <2> QED
    BY <1>1, <1>2, <1>4, <1>9, <2>1 DEF MediaAnnounced
<1>10. CASE MediaFlows
  BY <1>1, <1>2, <1>10 DEF MediaFlows
<1>11. CASE CustomerAnswers
  <2>1. Appends("customer", "answer")
    BY <1>11 DEF CustomerAnswers, Emit, Appends
  <2>2. tone' \in BOOLEAN /\ (tone' => tone)
    BY <1>1, <1>11 DEF CustomerAnswers
  <2> QED
    BY <1>1, <1>2, <1>4, <1>11, <2>1, <2>2 DEF CustomerAnswers
<1>12. CASE CustomerGone
  <2>1. Appends("customer", "hangup")
    BY <1>12 DEF CustomerGone, Emit, Appends
  <2> QED
    BY <1>1, <1>2, <1>4, <1>12, <2>1 DEF CustomerGone
<1>13. CASE AgentGone
  <2>1. Appends("agent", "hangup")
    BY <1>13 DEF AgentGone, Emit, Appends
  <2> QED
    BY <1>1, <1>2, <1>5, <1>13, <2>1 DEF AgentGone
<1> QED
  BY <1>7, <1>8, <1>9, <1>10, <1>11, <1>12, <1>13 DEF ChannelStep

LEMMA ChannelStepInv == MediaInv /\ ChannelStep => MediaInv'
<1> SUFFICES ASSUME MediaInv, ChannelStep PROVE MediaInv'
  OBVIOUS
<1>1. MediaTypes /\ WireInv /\ ChainInv /\ ToneInv /\ MaskInv
  BY DEF MediaInv
<1>2. UNCHANGED <<known, state, chain, step, unanswered, listening, masked>>
  BY DEF ChannelStep, controller
<1>3. /\ channel' \in [agent : {"none", "up", "gone"},
                       customer : {"none", "ringing", "early", "up", "gone"}]
      /\ channel'.agent = "none" =>
           channel.agent = "none" /\ channel'.customer = "none" /\ wire' = wire
      /\ rtp' \in BOOLEAN /\ tone' \in BOOLEAN /\ (tone' => tone) /\ hook' = hook
      /\ \/ wire' = wire
         \/ \E e \in ChannelEvents :
              /\ wire' = Append(wire, e)
              /\ e.leg = "agent" =>
                   \/ e.name = "hangup"
                   \/ e.name = "create" /\ channel.agent = "none"
  BY <1>1, ChannelFacts
<1>4. wire \in Seq(ChannelEvents) /\ Len(wire) \in Nat /\ DOMAIN wire = 1 .. Len(wire)
  BY <1>1, MediaTypeFacts, LenProperties
<1>5. Untouched' <=> Untouched
  BY <1>2 DEF Untouched
<1>6. /\ wire' \in Seq(ChannelEvents)
      /\ \A i \in DOMAIN wire' : wire'[i].leg = "agent" =>
           wire'[i].name = "hangup" \/ (wire'[i].name = "create" /\ i = 1 /\ Untouched)
  <2>1. CASE wire' = wire
    BY <1>1, <1>4, <2>1 DEF WireInv
  <2>2. ASSUME NEW e \in ChannelEvents, wire' = Append(wire, e),
               e.leg = "agent" => \/ e.name = "hangup"
                                  \/ e.name = "create" /\ channel.agent = "none"
        PROVE  /\ wire' \in Seq(ChannelEvents)
               /\ \A i \in DOMAIN wire' : wire'[i].leg = "agent" =>
                    wire'[i].name = "hangup" \/ (wire'[i].name = "create" /\ i = 1 /\ Untouched)
    <3>1. /\ wire' \in Seq(ChannelEvents) /\ Len(wire') = Len(wire) + 1
          /\ \A i \in 1 .. Len(wire) : wire'[i] = wire[i]
          /\ wire'[Len(wire) + 1] = e
      BY <1>4, <2>2, AppendProperties
    <3>2. DOMAIN wire' = 1 .. Len(wire) + 1
      BY <3>1, LenProperties
    <3>3. channel.agent = "none" => Len(wire) = 0 /\ Untouched
      BY <1>1, EmptySeq DEF WireInv
    <3>4. \A i \in 1 .. Len(wire) + 1 : i \in 1 .. Len(wire) \/ i = Len(wire) + 1
      BY <1>4
    <3>5. \A i \in 1 .. Len(wire) : wire[i].leg = "agent" =>
            wire[i].name = "hangup" \/ (wire[i].name = "create" /\ i = 1 /\ Untouched)
      BY <1>1, <1>4 DEF WireInv
    <3>6. e.leg = "agent" =>
            e.name = "hangup" \/ (e.name = "create" /\ Len(wire) + 1 = 1 /\ Untouched)
      BY <1>4, <2>2, <3>3
    <3> QED
      BY <3>1, <3>2, <3>4, <3>5, <3>6
  <2> QED
    BY <1>3, <2>1, <2>2
<1>7. MediaTypes'
  BY <1>1, <1>2, <1>3, <1>6 DEF MediaTypes, MediaTypeOK
<1>8. WireInv'
  BY <1>1, <1>3, <1>5, <1>6 DEF WireInv
<1>9. ChainInv' /\ MaskInv'
  BY <1>1, <1>2 DEF ChainInv, MaskInv
<1>10. ToneInv'
  <2>1. ToneIsKnown' <=> ToneIsKnown
    BY <1>2 DEF ToneIsKnown
  <2> QED
    BY <1>1, <1>2, <1>3, <2>1 DEF ToneInv
<1> QED
  BY <1>7, <1>8, <1>9, <1>10 DEF MediaInv

(* A step that neither sends nor takes an event keeps what is on the way.  *)
LEMMA SameWire ==
  ASSUME WireInv, wire' = wire, channel' = channel, Untouched => Untouched'
  PROVE  WireInv'
BY DEF WireInv

LEMMA HandleStep == MediaInv /\ Handle => MediaInv'
<1> SUFFICES ASSUME MediaInv, Handle PROVE MediaInv'
  OBVIOUS
<1>1. MediaTypes /\ WireInv /\ ChainInv /\ ToneInv /\ MaskInv
  BY DEF MediaInv
<1> DEFINE event  == Head(wire)
           starts == event.name \in {"create", "media"}
           old    == IF known THEN state ELSE NewState
           seen   == IF event.leg = "agent" THEN [old EXCEPT !.agentLeg = TRUE]
                                            ELSE [old EXCEPT !.customerLeg = TRUE]
           next   == IF event.leg = "customer" /\ starts THEN ScheduleInspection(seen) ELSE seen
<1>2. /\ wire # <<>> /\ wire' = Tail(wire) /\ known' = (known \/ starts)
      /\ UNCHANGED <<channel, rtp, tone, hook, step, unanswered, listening, masked>>
  BY DEF Handle, freeswitch
<1>3. \/ starts /\ state' = next /\ chain' = chain
      \/ ~starts /\ known /\ Terminate(next)
      \/ ~starts /\ ~known /\ state' = state /\ chain' = chain
  BY DEF Handle
<1>4. /\ wire \in Seq(ChannelEvents) /\ event \in ChannelEvents /\ Tail(wire) \in Seq(ChannelEvents)
      /\ Len(wire) \in Nat /\ DOMAIN wire = 1 .. Len(wire)
      /\ DOMAIN Tail(wire) = 1 .. Len(wire) - 1 /\ 1 \in DOMAIN wire
      /\ \A i \in 1 .. Len(wire) - 1 : Tail(wire)[i] = wire[i + 1]
  <2>1. wire \in Seq(ChannelEvents) /\ Len(wire) \in Nat /\ DOMAIN wire = 1 .. Len(wire)
    BY <1>1, MediaTypeFacts, LenProperties
  <2>2. /\ event \in ChannelEvents /\ Tail(wire) \in Seq(ChannelEvents)
        /\ Len(Tail(wire)) = Len(wire) - 1
        /\ \A i \in 1 .. Len(Tail(wire)) : Tail(wire)[i] = wire[i + 1]
    BY <1>2, <2>1, HeadTailProperties
  <2>3. 1 \in DOMAIN wire
    BY <1>2, <2>1, EmptySeq
  <2> QED
    BY <2>1, <2>2, <2>3, LenProperties
<1>5. event = wire[1]
  BY <1>2, <1>4
<1>6. known \in BOOLEAN /\ masked \in BOOLEAN /\ tone \in BOOLEAN /\ chain \in Seq(Operations)
  BY <1>1, MediaTypeFacts
<1>7. old = state /\ state \in CallStates
  BY <1>1, MediaTypeFacts DEF ChainInv
<1>8. /\ seen \in CallStates
      /\ seen.active = state.active /\ seen.detected = state.detected
      /\ seen.terminated = state.terminated
      /\ state.agentLeg => seen.agentLeg
      /\ event.leg # "agent" => seen.agentLeg = state.agentLeg
  <2> HIDE DEF event, old
  <2> QED
    BY <1>7 DEF CallStates
<1>9. /\ next \in CallStates
      /\ next.active = state.active /\ next.detected = state.detected
      /\ next.terminated = state.terminated
      /\ state.agentLeg => next.agentLeg
      /\ event.leg # "agent" => next.agentLeg = state.agentLeg
  <2> HIDE DEF event, starts, seen
  <2> QED
    BY <1>8, ScheduleFacts
<1>10. event.leg = "agent" => event.name = "hangup" \/ Untouched
  BY <1>1, <1>4, <1>5 DEF WireInv
<1> HIDE DEF event, starts, old, seen, next
<1>14. WireInv' /\ (ToneIsKnown' <=> ToneIsKnown)
  <2>1. channel.agent # "none"
    BY <1>1, <1>2 DEF WireInv
  <2>2. \A i \in 1 .. Len(wire) - 1 : i + 1 \in DOMAIN wire /\ i + 1 # 1
    BY <1>4
  <2>3. \A i \in DOMAIN wire' : wire'[i].leg = "agent" => wire'[i].name = "hangup"
    BY <1>1, <1>2, <1>4, <2>2 DEF WireInv
  <2>4. ToneIsKnown' <=> ToneIsKnown
    BY <1>2 DEF ToneIsKnown
  <2> QED
    BY <1>2, <2>1, <2>3, <2>4 DEF WireInv
<1>11. CASE starts /\ state' = next /\ chain' = chain
  <2>1. known'
    BY <1>2, <1>11
  <2>2. masked => event.leg # "agent"
    BY <1>10, <1>11 DEF starts, Untouched
  <2>3. MediaTypes'
    BY <1>1, <1>2, <1>4, <1>9, <1>11, <2>1, MediaTypeFacts, CallStateFacts
    DEF MediaTypes, MediaTypeOK
  <2>5. ChainInv'
    BY <1>1, <1>2, <1>9, <1>11, <2>1 DEF ChainInv
  <2>6. ToneInv'
    BY <1>1, <1>2, <1>9, <1>11, <1>14 DEF ToneInv
  <2>7. MaskInv'
    BY <1>1, <1>2, <1>9, <1>11, <2>2 DEF MaskInv
  <2> QED
    BY <1>14, <2>3, <2>5, <2>6, <2>7 DEF MediaInv
<1>12. CASE ~starts /\ known /\ Terminate(next)
  <2>1. known' = known /\ known
    BY <1>2, <1>6, <1>12
  <2>2. state' = [next EXCEPT !.terminated = TRUE, !.timer = FALSE] /\ chain' = Append(chain, "stop")
    BY <1>12 DEF Terminate
  <2>3. /\ state' \in CallStates /\ state'.active = state.active /\ state'.terminated
        /\ state.agentLeg => state'.agentLeg
    BY <1>9, <2>2 DEF CallStates
  <2>4. /\ chain' \in Seq(Operations) /\ chain' # <<>>
        /\ chain # <<>> => Head(chain') = Head(chain)
    <3>1. "stop" \in Operations
      BY DEF Operations
    <3> QED
      BY <1>6, <2>2, <3>1, AppendProperties, HeadTailAppend
  <2>5. MediaTypes'
    BY <1>1, <1>2, <1>4, <2>1, <2>3, <2>4, MediaTypeFacts, CallStateFacts
    DEF MediaTypes, MediaTypeOK, Operations
  <2>7. ChainInv'
    BY <1>1, <1>2, <2>1, <2>3, <2>4 DEF ChainInv
  <2>8. ToneInv'
    BY <1>1, <1>2, <2>3, <1>14 DEF ToneInv
  <2>9. MaskInv'
    BY <1>1, <1>2, <2>3 DEF MaskInv
  <2> QED
    BY <1>14, <2>5, <2>7, <2>8, <2>9 DEF MediaInv
<1>13. CASE ~starts /\ ~known /\ state' = state /\ chain' = chain
  <2>1. known' = known
    BY <1>2, <1>6, <1>13
  <2>2. MediaTypes'
    BY <1>1, <1>2, <1>4, <1>13, <2>1 DEF MediaTypes, MediaTypeOK
  <2>4. ChainInv' /\ MaskInv'
    BY <1>1, <1>2, <1>13, <2>1 DEF ChainInv, MaskInv
  <2>5. ToneInv'
    BY <1>1, <1>2, <1>13, <1>14 DEF ToneInv
  <2> QED
    BY <1>14, <2>2, <2>4, <2>5 DEF MediaInv
<1> QED
  BY <1>3, <1>11, <1>12, <1>13

(* An operation that ends keeps everything but, perhaps, what is known of  *)
(* the tone.                                                               *)
LEMMA EndedInv ==
  ASSUME MediaTypes, WireInv, ChainInv, chain # <<>>,
         NEW s \in CallStates, OperationEnds(s),
         s.active => s.agentLeg,
         masked' => ~s.active /\ (s.detected \/ s.terminated \/ ~s.agentLeg),
         UNCHANGED <<wire, channel, listening>>,
         rtp' \in BOOLEAN, tone' \in BOOLEAN, hook' \in BOOLEAN, masked' \in BOOLEAN,
         unanswered' \in Seq(Commands), Len(unanswered') <= MaxFaults
  PROVE  MediaTypes' /\ WireInv' /\ ChainInv' /\ MaskInv'
<1>1. /\ step' = "none" /\ chain' \in Seq(Operations) /\ known' \in BOOLEAN
      /\ state' \in CallStates
      /\ ~known' => state' = NewState
      /\ state' = s \/ state' = NewState
  BY OperationFacts
<1>2. MediaTypes'
  BY <1>1, MediaTypeFacts, CallStateFacts DEF MediaTypes, MediaTypeOK, Operations, Commands
<1>3. WireInv'
  <2>1. ~Untouched
    BY DEF Untouched
  <2> QED
    BY <2>1, SameWire
<1>4. ChainInv'
  BY <1>1, CallStateFacts DEF ChainInv
<1>5. MaskInv'
  BY <1>1, CallStateFacts DEF MaskInv
<1> QED
  BY <1>2, <1>3, <1>4, <1>5

(* So does one that goes on with its next command.                         *)
LEMMA ContinuedInv ==
  ASSUME MediaTypes, WireInv, ChainInv, chain # <<>>,
         NEW s \in CallStates, NEW c \in Commands, Continue(s, c),
         s.active => s.agentLeg,
         ~known => s = NewState,
         c # "break" => known /\ Head(chain) = "inspect" /\ s.agentLeg,
         masked' => c = "break" /\ ~s.active /\ (s.detected \/ s.terminated \/ ~s.agentLeg),
         UNCHANGED <<wire, channel, listening>>,
         rtp' \in BOOLEAN, tone' \in BOOLEAN, hook' \in BOOLEAN, masked' \in BOOLEAN,
         unanswered' \in Seq(Commands), Len(unanswered') <= MaxFaults
  PROVE  MediaTypes' /\ WireInv' /\ ChainInv' /\ MaskInv'
<1>1. state' = s /\ step' = c /\ known' = known /\ chain' = chain
  BY DEF Continue
<1>2. MediaTypes'
  BY <1>1, MediaTypeFacts, CallStateFacts DEF MediaTypes, MediaTypeOK, Operations, Commands
<1>3. WireInv'
  <2>1. ~Untouched
    BY DEF Untouched
  <2> QED
    BY <2>1, SameWire
<1>4. ChainInv'
  BY <1>1 DEF ChainInv
<1>5. MaskInv'
  BY <1>1 DEF MaskInv
<1> QED
  BY <1>2, <1>3, <1>4, <1>5

LEMMA StopListeningStep == MediaInv /\ StopListening => MediaInv'
<1> SUFFICES ASSUME MediaInv, StopListening PROVE MediaInv'
  OBVIOUS
<1>1. MediaTypes /\ WireInv /\ ChainInv /\ ToneInv /\ MaskInv
  BY DEF MediaInv
<1>2. /\ listening' = FALSE
      /\ UNCHANGED <<channel, rtp, tone, hook, wire, known, step, unanswered, masked>>
  BY DEF StopListening, freeswitch
<1>3. state \in CallStates /\ chain \in Seq(Operations) /\ known \in BOOLEAN
  BY <1>1, MediaTypeFacts
<1>4. ToneIsKnown' <=> ToneIsKnown
  BY <1>2 DEF ToneIsKnown
<1>5. CASE known
  <2>1. state' = [state EXCEPT !.terminated = TRUE, !.timer = FALSE] /\ chain' = Append(chain, "stop")
    BY <1>5 DEF StopListening, Terminate
  <2>2. /\ state' \in CallStates /\ state'.active = state.active /\ state'.terminated
        /\ state'.agentLeg = state.agentLeg
    BY <1>3, <2>1 DEF CallStates
  <2>3. /\ chain' \in Seq(Operations) /\ chain' # <<>>
        /\ chain # <<>> => Head(chain') = Head(chain)
    <3>1. "stop" \in Operations
      BY DEF Operations
    <3> QED
      BY <1>3, <2>1, <3>1, AppendProperties, HeadTailAppend
  <2>4. MediaTypes'
    BY ZenonT(60), <1>1, <1>2, <2>2, <2>3, MediaTypeFacts, CallStateFacts
    DEF MediaTypes, MediaTypeOK, Operations
  <2>5. WireInv'
    <3>1. ~Untouched
      BY <1>5 DEF Untouched
    <3> QED
      BY <1>1, <1>2, <3>1, SameWire
  <2>6. ChainInv'
    BY <1>1, <1>2, <1>5, <2>2, <2>3 DEF ChainInv
  <2>7. ToneInv'
    BY <1>1, <1>2, <1>4, <2>2 DEF ToneInv
  <2>8. MaskInv'
    BY <1>1, <1>2, <2>2 DEF MaskInv
  <2> QED
    BY <2>4, <2>5, <2>6, <2>7, <2>8 DEF MediaInv
<1>6. CASE ~known
  <2>1. state' = state /\ chain' = chain
    BY <1>6 DEF StopListening
  <2>2. MediaTypes'
    BY ZenonT(60), <1>1, <1>2, <2>1 DEF MediaTypes, MediaTypeOK
  <2>3. Untouched => Untouched'
    BY <1>2, <2>1 DEF Untouched
  <2>4. WireInv'
    BY <1>1, <1>2, <2>3, SameWire
  <2>5. ChainInv' /\ MaskInv'
    BY <1>1, <1>2, <2>1 DEF ChainInv, MaskInv
  <2>6. ToneInv'
    BY <1>1, <1>2, <1>4, <2>1 DEF ToneInv
  <2> QED
    BY <2>2, <2>4, <2>5, <2>6 DEF MediaInv
<1> QED
  BY <1>5, <1>6

LEMMA PollStep == MediaInv /\ Poll => MediaInv'
<1> SUFFICES ASSUME MediaInv, Poll PROVE MediaInv'
  OBVIOUS
<1>1. MediaTypes /\ WireInv /\ ChainInv /\ ToneInv /\ MaskInv
  BY DEF MediaInv
<1>2. /\ state.timer /\ state' = [state EXCEPT !.timer = FALSE] /\ chain' = Append(chain, "inspect")
      /\ UNCHANGED <<channel, rtp, tone, hook, wire, known, step, unanswered, listening, masked>>
  BY DEF Poll, freeswitch
<1>3. known
  BY <1>1, <1>2, CallStateFacts DEF ChainInv
<1>4. /\ state' \in CallStates /\ state'.active = state.active
      /\ state'.terminated = state.terminated /\ state'.detected = state.detected
      /\ state'.agentLeg = state.agentLeg
  BY <1>1, <1>2, MediaTypeFacts DEF CallStates
<1>5. /\ chain' \in Seq(Operations) /\ chain' # <<>>
      /\ chain # <<>> => Head(chain') = Head(chain)
  <2>1. "inspect" \in Operations /\ chain \in Seq(Operations)
    BY <1>1, MediaTypeFacts DEF Operations
  <2> QED
    BY <1>2, <2>1, AppendProperties, HeadTailAppend
<1>6. MediaTypes'
  BY <1>1, <1>2, <1>4, <1>5, MediaTypeFacts, CallStateFacts
  DEF MediaTypes, MediaTypeOK, Operations
<1>7. WireInv'
  <2>1. ~Untouched
    BY <1>3 DEF Untouched
  <2> QED
    BY <1>1, <1>2, <2>1, SameWire
<1>8. ChainInv'
  BY <1>1, <1>2, <1>3, <1>4, <1>5 DEF ChainInv
<1>9. ToneInv'
  BY <1>1, <1>2, <1>4 DEF ToneInv, ToneIsKnown
<1>10. MaskInv'
  BY <1>1, <1>2, <1>4 DEF MaskInv
<1> QED
  BY <1>6, <1>7, <1>8, <1>9, <1>10 DEF MediaInv

LEMMA OperationStartsStep == MediaInv /\ OperationStarts => MediaInv'
<1> SUFFICES ASSUME MediaInv, OperationStarts PROVE MediaInv'
  OBVIOUS
<1>1. MediaTypes /\ WireInv /\ ChainInv /\ ToneInv /\ MaskInv
  BY DEF MediaInv
<1> DEFINE stops == Head(chain) = "stop"
           plays == state.active /\ state.agentLeg
           ended == state.terminated \/ state.detected
           legs  == state.agentLeg /\ state.customerLeg
<1>2. /\ chain # <<>> /\ step = "none"
      /\ UNCHANGED <<channel, rtp, tone, hook, wire, unanswered, listening, masked>>
  BY DEF OperationStarts, freeswitch
<1>3. \/ stops /\ plays /\ Continue([state EXCEPT !.active = FALSE], "break")
      \/ ((stops /\ ~plays) \/ (~stops /\ ended)) /\ OperationEnds(state)
      \/ ~stops /\ ~ended /\ ~legs /\ OperationEnds(ScheduleInspection(state))
      \/ ~stops /\ ~ended /\ legs /\ Continue(state, "count")
  BY DEF OperationStarts
<1>4. /\ state \in CallStates /\ known \in BOOLEAN /\ tone \in BOOLEAN /\ hook \in BOOLEAN
      /\ rtp \in BOOLEAN /\ masked \in BOOLEAN /\ chain \in Seq(Operations)
      /\ unanswered \in Seq(Commands) /\ Len(unanswered) <= MaxFaults
  BY <1>1, MediaTypeFacts
<1>5. ToneIsKnown' <=> ToneIsKnown
  BY <1>2 DEF ToneIsKnown
<1>6. ToneIsKnown /\ tone => state.active
  BY <1>1, <1>2 DEF ToneInv
<1>7. /\ state.active => state.agentLeg
      /\ ~known => state = NewState
      /\ masked => ~state.active /\ (state.detected \/ state.terminated \/ ~state.agentLeg)
  BY <1>1 DEF ChainInv, MaskInv
<1>8. ~stops => Head(chain) = "inspect"
  <2>1. Head(chain) \in Operations
    BY <1>2, <1>4, HeadTailProperties
  <2> QED
    BY <2>1 DEF Operations
<1>9. CASE stops /\ plays /\ Continue([state EXCEPT !.active = FALSE], "break")
  <2> DEFINE s == [state EXCEPT !.active = FALSE]
  <2>1. s \in CallStates /\ ~s.active /\ "break" \in Commands
        /\ s.detected = state.detected /\ s.terminated = state.terminated
        /\ s.agentLeg = state.agentLeg
    BY <1>4 DEF CallStates, Commands
  <2>2. known
    BY <1>7, <1>9, CallStateFacts
  <2>3. Continue(s, "break")
    BY <1>9
  <2> HIDE DEF s
  <2>4. MediaTypes' /\ WireInv' /\ ChainInv' /\ MaskInv'
    BY <1>1, <1>2, <1>4, <1>7, <2>1, <2>2, <2>3, ContinuedInv
  <2>5. ToneInv'
    BY <2>3 DEF ToneInv, Continue
  <2> QED
    BY <2>4, <2>5 DEF MediaInv
<1>10. CASE ((stops /\ ~plays) \/ (~stops /\ ended)) /\ OperationEnds(state)
  <2>1. MediaTypes' /\ WireInv' /\ ChainInv' /\ MaskInv'
    BY <1>1, <1>2, <1>4, <1>7, <1>10, EndedInv
  <2>2. ToneInv'
    <3>1. state.active => state' = state
      <4>1. state.active => known /\ Head(chain) = "inspect"
        BY <1>7, <1>8, <1>10, CallStateFacts
      <4> QED
        BY <1>1, <1>2, <1>4, <1>10, <4>1, OperationFacts
    <3> QED
      BY <1>2, <1>5, <1>6, <3>1 DEF ToneInv
  <2> QED
    BY <2>1, <2>2 DEF MediaInv
<1>11. CASE ~stops /\ ~ended /\ ~legs /\ OperationEnds(ScheduleInspection(state))
  <2> DEFINE s == ScheduleInspection(state)
  <2>1. /\ s \in CallStates /\ s.active = state.active /\ s.agentLeg = state.agentLeg
        /\ s.detected = state.detected /\ s.terminated = state.terminated
    BY <1>4, ScheduleFacts
  <2>2. OperationEnds(s)
    BY <1>11
  <2> HIDE DEF s
  <2>3. MediaTypes' /\ WireInv' /\ ChainInv' /\ MaskInv'
    BY <1>1, <1>2, <1>4, <1>7, <2>1, <2>2, EndedInv
  <2>4. ToneInv'
    <3>1. state.active => state' = s
      <4>1. state.active => known /\ Head(chain) = "inspect"
        BY <1>7, <1>8, <1>11, CallStateFacts
      <4> QED
        BY <1>1, <1>2, <2>1, <2>2, <4>1, OperationFacts
    <3> QED
      BY <1>2, <1>5, <1>6, <2>1, <3>1 DEF ToneInv
  <2> QED
    BY <2>3, <2>4 DEF MediaInv
<1>12. CASE ~stops /\ ~ended /\ legs /\ Continue(state, "count")
  <2>1. "count" \in Commands /\ known /\ ~masked
    BY <1>7, <1>12, CallStateFacts DEF Commands
  <2>2. MediaTypes' /\ WireInv' /\ ChainInv' /\ MaskInv'
    BY <1>1, <1>2, <1>4, <1>7, <1>8, <1>12, <2>1, ContinuedInv
  <2>3. ToneInv'
    BY <1>2, <1>5, <1>6, <1>12 DEF ToneInv, Continue
  <2> QED
    BY <2>2, <2>3 DEF MediaInv
<1> QED
  BY <1>3, <1>9, <1>10, <1>11, <1>12

LEMMA InspectMediaStep == MediaInv /\ InspectMedia => MediaInv'
<1> SUFFICES ASSUME MediaInv, InspectMedia PROVE MediaInv'
  OBVIOUS
<1>1. MediaTypes /\ WireInv /\ ChainInv /\ ToneInv /\ MaskInv
  BY DEF MediaInv
<1>2. /\ step = "count" /\ UNCHANGED <<channel, rtp, tone, hook, wire, listening>>
      /\ Answered \/ Unanswered
  BY DEF InspectMedia, freeswitch
<1>3. /\ state \in CallStates /\ known \in BOOLEAN /\ tone \in BOOLEAN /\ hook \in BOOLEAN
      /\ rtp \in BOOLEAN /\ masked \in BOOLEAN
  BY <1>1, MediaTypeFacts
<1>4. /\ chain # <<>> /\ known /\ Head(chain) = "inspect" /\ state.agentLeg /\ ~masked
      /\ ToneIsKnown /\ tone => state.active
  BY <1>1, <1>2 DEF ChainInv, MaskInv, ToneInv
<1>5. /\ unanswered' \in Seq(Commands) /\ Len(unanswered') <= MaxFaults
      /\ ToneIsKnown' => ToneIsKnown
  BY <1>1, <1>2, AnswerFacts
<1>6. \/ rtp /\ MediaSeen /\ masked'
      \/ ~rtp /\ NoMediaSeen /\ masked' = FALSE
      \/ OperationEnds(ScheduleInspection(state)) /\ masked' = FALSE
  BY <1>3, <1>4 DEF InspectMedia
<1>7. CASE rtp /\ MediaSeen /\ masked'
  <2>1. masked' = TRUE
    BY <1>3, <1>4, <1>7 DEF InspectMedia
  <2>2. CASE state.active
    <3> DEFINE s == [state EXCEPT !.detected = TRUE, !.active = FALSE]
    <3>1. Continue(s, "break")
      BY <1>7, <2>2 DEF MediaSeen
    <3>2. s \in CallStates /\ ~s.active /\ s.detected /\ "break" \in Commands
      BY <1>3 DEF CallStates, Commands
    <3> HIDE DEF s
    <3>3. MediaTypes' /\ WireInv' /\ ChainInv' /\ MaskInv'
      BY <1>1, <1>2, <1>3, <1>4, <1>5, <2>1, <3>1, <3>2, ContinuedInv
    <3>4. ToneInv'
      BY <3>1 DEF ToneInv, Continue
    <3> QED
      BY <3>3, <3>4 DEF MediaInv
  <2>3. CASE ~state.active
    <3> DEFINE s == [state EXCEPT !.detected = TRUE]
    <3>1. OperationEnds(s)
      BY <1>7, <2>3 DEF MediaSeen
    <3>2. s \in CallStates /\ ~s.active /\ s.detected
      BY <1>3, <2>3 DEF CallStates
    <3> HIDE DEF s
    <3>3. MediaTypes' /\ WireInv' /\ ChainInv' /\ MaskInv'
      BY <1>1, <1>2, <1>3, <1>4, <1>5, <2>1, <3>1, <3>2, EndedInv
    <3>4. ToneInv'
      BY <1>2, <1>4, <1>5, <2>3 DEF ToneInv
    <3> QED
      BY <3>3, <3>4 DEF MediaInv
  <2> QED
    BY <2>2, <2>3
<1>8. ASSUME OperationEnds(ScheduleInspection(state)), masked' = FALSE
      PROVE  MediaInv'
  <2> DEFINE s == ScheduleInspection(state)
  <2>1. /\ s \in CallStates /\ s.active = state.active /\ s.agentLeg = state.agentLeg
    BY <1>3, ScheduleFacts
  <2>2. OperationEnds(s)
    BY <1>8
  <2> HIDE DEF s
  <2>3. MediaTypes' /\ WireInv' /\ ChainInv' /\ MaskInv'
    BY <1>1, <1>2, <1>3, <1>4, <1>5, <1>8, <2>1, <2>2, EndedInv
  <2>4. state' = s
    BY <1>1, <1>4, <2>1, <2>2, OperationFacts
  <2>5. ToneInv'
    BY <1>2, <1>4, <1>5, <2>1, <2>4 DEF ToneInv
  <2> QED
    BY <2>3, <2>5 DEF MediaInv
<1>9. ASSUME NEW c \in {"hook", "broadcast"}, Continue(state, c), masked' = FALSE
      PROVE  MediaInv'
  <2>1. c \in Commands
    BY DEF Commands
  <2>2. MediaTypes' /\ WireInv' /\ ChainInv' /\ MaskInv'
    BY <1>1, <1>2, <1>3, <1>4, <1>5, <1>9, <2>1, ContinuedInv
  <2>3. ToneInv'
    BY <1>2, <1>4, <1>5, <1>9 DEF ToneInv, Continue
  <2> QED
    BY <2>2, <2>3 DEF MediaInv
<1>10. CASE ~rtp /\ NoMediaSeen /\ masked' = FALSE
  <2>1. \/ OperationEnds(ScheduleInspection(state))
        \/ Continue(state, "hook") \/ Continue(state, "broadcast")
    BY <1>10 DEF NoMediaSeen
  <2> QED
    BY <1>8, <1>9, <1>10, <2>1
<1> QED
  BY <1>6, <1>7, <1>8, <1>10

LEMMA InstallHookStep == MediaInv /\ InstallHook => MediaInv'
<1> SUFFICES ASSUME MediaInv, InstallHook PROVE MediaInv'
  OBVIOUS
<1>1. MediaTypes /\ WireInv /\ ChainInv /\ ToneInv /\ MaskInv
  BY DEF MediaInv
<1> DEFINE hooked == [state EXCEPT !.hooked = TRUE]
<1>2. /\ step = "hook" /\ UNCHANGED <<channel, rtp, tone, wire, listening, masked>>
      /\ Answered \/ Unanswered
  BY DEF InstallHook
<1>3. /\ state \in CallStates /\ known \in BOOLEAN /\ tone \in BOOLEAN /\ hook \in BOOLEAN
      /\ rtp \in BOOLEAN /\ masked \in BOOLEAN
  BY <1>1, MediaTypeFacts
<1>4. /\ chain # <<>> /\ known /\ Head(chain) = "inspect" /\ state.agentLeg /\ ~masked
      /\ ToneIsKnown /\ tone => state.active
  BY <1>1, <1>2 DEF ChainInv, MaskInv, ToneInv
<1>5. /\ unanswered' \in Seq(Commands) /\ Len(unanswered') <= MaxFaults
      /\ ToneIsKnown' => ToneIsKnown
  BY <1>1, <1>2, AnswerFacts
<1>6. /\ hook' \in BOOLEAN
      /\ \/ OperationEnds(hooked) \/ Continue(hooked, "broadcast")
         \/ OperationEnds(ScheduleInspection(state))
  BY <1>3 DEF InstallHook
<1>7. ASSUME NEW s \in CallStates, s.active = state.active, s.agentLeg = state.agentLeg,
             OperationEnds(s)
      PROVE  MediaInv'
  <2>1. MediaTypes' /\ WireInv' /\ ChainInv' /\ MaskInv'
    BY <1>1, <1>2, <1>3, <1>4, <1>5, <1>6, <1>7, EndedInv
  <2>2. state' = s
    BY <1>1, <1>4, <1>7, OperationFacts
  <2>3. ToneInv'
    BY <1>2, <1>4, <1>5, <1>7, <2>2 DEF ToneInv
  <2> QED
    BY <2>1, <2>3 DEF MediaInv
<1>8. /\ hooked \in CallStates /\ hooked.active = state.active /\ hooked.agentLeg = state.agentLeg
  BY <1>3 DEF CallStates
<1>9. CASE Continue(hooked, "broadcast")
  <2> HIDE DEF hooked
  <2>1. "broadcast" \in Commands
    BY DEF Commands
  <2>2. MediaTypes' /\ WireInv' /\ ChainInv' /\ MaskInv'
    BY <1>1, <1>2, <1>3, <1>4, <1>5, <1>6, <1>8, <1>9, <2>1, ContinuedInv
  <2>3. ToneInv'
    BY <1>2, <1>4, <1>5, <1>8, <1>9 DEF ToneInv, Continue
  <2> QED
    BY <2>2, <2>3 DEF MediaInv
<1>10. CASE OperationEnds(hooked)
  <2> HIDE DEF hooked
  <2> QED
    BY <1>7, <1>8, <1>10
<1>11. CASE OperationEnds(ScheduleInspection(state))
  BY <1>3, <1>7, <1>11, ScheduleFacts
<1> QED
  BY <1>6, <1>9, <1>10, <1>11

LEMMA BroadcastStep == MediaInv /\ Broadcast => MediaInv'
<1> SUFFICES ASSUME MediaInv, Broadcast PROVE MediaInv'
  OBVIOUS
<1>1. MediaTypes /\ WireInv /\ ChainInv /\ ToneInv /\ MaskInv
  BY DEF MediaInv
<1>2. /\ step = "broadcast" /\ UNCHANGED <<channel, rtp, hook, wire, listening, masked>>
      /\ Answered \/ Unanswered
  BY DEF Broadcast
<1>3. /\ state \in CallStates /\ known \in BOOLEAN /\ tone \in BOOLEAN /\ hook \in BOOLEAN
      /\ rtp \in BOOLEAN /\ masked \in BOOLEAN
  BY <1>1, MediaTypeFacts
<1>4. /\ chain # <<>> /\ known /\ Head(chain) = "inspect" /\ state.agentLeg /\ ~masked
      /\ ToneIsKnown /\ tone => state.active
  BY <1>1, <1>2 DEF ChainInv, MaskInv, ToneInv
<1>5. /\ unanswered' \in Seq(Commands) /\ Len(unanswered') <= MaxFaults
      /\ ToneIsKnown' => ToneIsKnown
      /\ Unanswered => ~ToneIsKnown'
  BY <1>1, <1>2, AnswerFacts
<1> DEFINE playing == [state EXCEPT !.active = TRUE]
<1>6. /\ tone' \in BOOLEAN
      /\ \/ OperationEnds(ScheduleInspection(playing))
         \/ OperationEnds(ScheduleInspection(state)) /\ (Unanswered \/ tone' = tone)
  BY <1>3 DEF Broadcast
<1>7. playing \in CallStates /\ playing.active /\ playing.agentLeg = state.agentLeg
  BY <1>3 DEF CallStates
<1> HIDE DEF playing
<1>8. ASSUME NEW s \in CallStates, OperationEnds(s), s.agentLeg = state.agentLeg,
             ToneIsKnown' /\ tone' => s.active
      PROVE  MediaInv'
  <2>1. MediaTypes' /\ WireInv' /\ ChainInv' /\ MaskInv'
    BY <1>1, <1>2, <1>3, <1>4, <1>5, <1>6, <1>8, EndedInv
  <2>2. state' = s
    BY <1>1, <1>4, <1>8, OperationFacts
  <2>3. ToneInv'
    BY <1>8, <2>2 DEF ToneInv
  <2> QED
    BY <2>1, <2>3 DEF MediaInv
<1>9. CASE OperationEnds(ScheduleInspection(playing))
  BY <1>7, <1>8, <1>9, ScheduleFacts
<1>10. CASE OperationEnds(ScheduleInspection(state)) /\ (Unanswered \/ tone' = tone)
  <2>1. /\ ScheduleInspection(state) \in CallStates
        /\ ScheduleInspection(state).agentLeg = state.agentLeg
        /\ ScheduleInspection(state).active = state.active
    BY <1>3, ScheduleFacts
  <2>2. ToneIsKnown' /\ tone' => state.active
    BY <1>4, <1>5, <1>10
  <2> QED
    BY <1>8, <1>10, <2>1, <2>2
<1> QED
  BY <1>6, <1>9, <1>10

LEMMA BreakStep == MediaInv /\ Break => MediaInv'
<1> SUFFICES ASSUME MediaInv, Break PROVE MediaInv'
  OBVIOUS
<1>1. MediaTypes /\ WireInv /\ ChainInv /\ ToneInv /\ MaskInv
  BY DEF MediaInv
<1>2. /\ step = "break" /\ UNCHANGED <<channel, rtp, hook, wire, listening, masked>>
      /\ Answered \/ Unanswered
      /\ OperationEnds(state)
  BY DEF Break
<1>3. /\ state \in CallStates /\ known \in BOOLEAN /\ tone \in BOOLEAN /\ hook \in BOOLEAN
      /\ rtp \in BOOLEAN /\ masked \in BOOLEAN /\ chain # <<>>
  BY <1>1, <1>2, MediaTypeFacts
<1>4. /\ unanswered' \in Seq(Commands) /\ Len(unanswered') <= MaxFaults
      /\ Unanswered => ~ToneIsKnown'
  BY <1>1, <1>2, AnswerFacts
<1>5. tone' \in BOOLEAN /\ (tone' = FALSE \/ Unanswered)
  BY <1>3 DEF Break
<1>6. /\ state.active => state.agentLeg
      /\ masked => ~state.active /\ (state.detected \/ state.terminated \/ ~state.agentLeg)
  BY <1>1 DEF ChainInv, MaskInv
<1>7. MediaTypes' /\ WireInv' /\ ChainInv' /\ MaskInv'
  BY <1>1, <1>2, <1>3, <1>4, <1>5, <1>6, EndedInv
<1>8. ToneInv'
  BY <1>4, <1>5 DEF ToneInv
<1> QED
  BY <1>7, <1>8 DEF MediaInv

LEMMA MediaStep == MediaInv /\ [MediaNext]_mediaVars => MediaInv'
<1>1. MediaInv /\ UNCHANGED mediaVars => MediaInv'
  BY DEF MediaInv, MediaTypes, MediaTypeOK, WireInv, Untouched, ChainInv, ToneInv, ToneIsKnown,
         MaskInv, mediaVars, freeswitch, controller
<1> QED
  BY <1>1, ChannelStepInv, HandleStep, StopListeningStep, PollStep, OperationStartsStep,
     InspectMediaStep, InstallHookStep, BroadcastStep, BreakStep DEF MediaNext, ControllerStep

LEMMA MediaInvariant == MediaSpec => []MediaInv
<1> QED
  BY MediaInitInv, MediaStep, PTL DEF MediaSpec

(* The controller's state, its chain of operations and FreeSWITCH's legs   *)
(* have the types the code gives them.                                     *)
THEOREM MediaTypesCorrect == MediaSpec => []MediaTypeOK
<1>1. MediaInv => MediaTypeOK
  BY DEF MediaInv, MediaTypes
<1> QED
  BY <1>1, MediaInvariant, PTL

(* Media wins: however many inspections and hooks get no answer, no tone   *)
(* covers media that the controller has seen, once it has nothing to do,   *)
(* unless the answer to one of the tone's own commands was lost.           *)
THEOREM MediaWinsWhenKnown == MediaSpec => []MediaWinsIfKnown
<1>1. MediaInv => MediaWinsIfKnown
  <2> SUFFICES ASSUME MediaInv, ToneIsKnown, masked, chain = <<>> PROVE ~tone
    BY DEF MediaWinsIfKnown, MediaWins
  <2>1. step = "none"
    BY MediaTypeFacts DEF MediaInv
  <2> QED
    BY <2>1 DEF MediaInv, ToneInv, MaskInv
<1> QED
  BY <1>1, MediaInvariant, PTL

(* The tone never starts again after media was seen, not even for a call   *)
(* whose state was dropped and made anew by a late event.                  *)
THEOREM ToneStaysOff == MediaSpec => NoRestart
<1>1. MediaInv /\ [MediaNext]_mediaVars => (masked /\ ~tone => ~tone')
  <2> SUFFICES ASSUME MediaInv, [MediaNext]_mediaVars, masked, ~tone PROVE ~tone'
    OBVIOUS
  <2>1. MediaTypes /\ WireInv /\ step \in {"none", "break"}
    BY DEF MediaInv, MaskInv
  <2>2. CASE ChannelStep
    BY <2>1, <2>2, ChannelFacts
  <2>3. CASE Break
    BY <2>1, <2>3, MediaTypeFacts DEF Break
  <2>4. CASE tone' = tone
    BY <2>4
  <2>5. ~Broadcast
    BY <2>1 DEF Broadcast
  <2> QED
    BY <2>2, <2>3, <2>4, <2>5 DEF MediaNext, ControllerStep, Handle, StopListening, Poll,
       OperationStarts, InspectMedia, InstallHook, mediaVars, freeswitch
<1> QED
  BY <1>1, MediaInvariant, PTL DEF MediaSpec, NoRestart

------------------------------------------------------------------------------
(* Recordings.                                                             *)

(* A verdict on the recording of an ended call is changed by nobody: every *)
(* write of the finalizer needs an undecided row.                          *)
LEMMA VerdictStep ==
  RecordingTypeOK /\ [RecordingNext]_recordingVars =>
    (recording.status \in {"available", "failed"} /\ starter = "idle" /\ life = "ended"
       => recording'.status \in {recording.status, "expired"})
<1> SUFFICES ASSUME RecordingTypeOK, [RecordingNext]_recordingVars,
                    recording.status \in {"available", "failed"}, starter = "idle", life = "ended"
             PROVE  recording' = recording
  BY DEF RecordingTypeOK
<1>1. ~ClaimPath /\ ~RecordingStarts /\ ~RecordingStartFails /\ ~UndoPath /\ ~StarterDies
  BY DEF ClaimPath, RecordingStarts, RecordingStartFails, UndoPath, StarterDies
<1>2. ~ClaimGoesStale /\ \A r \in Runs : ~MarkWithoutPath(r) /\ ~Claim(r)
  BY DEF ClaimGoesStale, MarkWithoutPath, Claim, Claimable
<1>3. \A r \in Runs : Mark(r) => recording' = recording
  BY DEF Mark, HoldsClaim
<1>4. \A r \in Runs : Inspect(r) \/ MarkThrows(r) \/ RunDies(r) => recording' = recording
  BY DEF Inspect, MarkThrows, RunDies
<1>5. RecordingStops \/ UNCHANGED recordingVars => recording' = recording
  BY DEF RecordingStops, recordingVars
<1> QED
  BY <1>1, <1>2, <1>3, <1>4, <1>5 DEF RecordingNext, RunStep

------------------------------------------------------------------------------
(* Registrations.                                                          *)

RegistrationEvents == [phone : AgentPhones, online : BOOLEAN]
AgentStatuses == {"offline", "ready", "in_call"}

RegistrationsInv ==
  /\ RegistrationsTypeOK
  /\ events \in Seq(RegistrationEvents)
  /\ DOMAIN pass = {"at", "list", "drift"} /\ DOMAIN report = {"status", "drift"}

LEMMA StatusFacts ==
  ASSUME status \in [AgentPhones -> AgentStatuses], NEW a \in AgentPhones, NEW on \in BOOLEAN
  PROVE  StatusAfter(a, on) \in AgentStatuses
<1>1. status[a] \in AgentStatuses
  OBVIOUS
<1>2. StatusAfter(a, on) \in {"ready", "offline", status[a]}
  BY DEF StatusAfter
<1> QED
  BY <1>1, <1>2 DEF AgentStatuses

LEMMA RegistrationsBegin == RegistrationsInit => RegistrationsInv
BY EmptySeq DEF RegistrationsInit, RegistrationsInv, RegistrationsTypeOK, NoRun

LEMMA RegistrationsStep ==
  RegistrationsInv /\ [RegistrationsNext]_registrationsVars => RegistrationsInv'
<1> SUFFICES ASSUME RegistrationsInv, [RegistrationsNext]_registrationsVars
             PROVE  RegistrationsInv'
  OBVIOUS
<1>1. /\ online \subseteq AllPhones /\ enrolled \subseteq AllPhones /\ calling \subseteq AgentPhones
      /\ status \in [AgentPhones -> AgentStatuses]
      /\ pass.at \in {"idle", "list", "compare", "agents", "endpoints", "record"}
      /\ pass.list \subseteq AllPhones
      /\ report.status \in {"none", "ok", "failed"}
      /\ events \in Seq(RegistrationEvents)
      /\ DOMAIN pass = {"at", "list", "drift"} /\ DOMAIN report = {"status", "drift"}
      /\ AgentPhones \subseteq AllPhones
  BY DEF RegistrationsInv, RegistrationsTypeOK, AgentStatuses, AllPhones
<1>2. ASSUME NEW p \in AllPhones, PhoneMoves(p) PROVE RegistrationsInv'
  <2>1. online' \subseteq AllPhones
    BY <1>1, <1>2 DEF PhoneMoves
  <2>2. events' \in Seq(RegistrationEvents)
    <3>1. events' = events \/
          (p \in AgentPhones /\ events' = Append(events, [phone |-> p, online |-> p \notin online]))
      BY <1>2 DEF PhoneMoves
    <3>2. p \in AgentPhones => [phone |-> p, online |-> p \notin online] \in RegistrationEvents
      BY DEF RegistrationEvents
    <3> QED
      BY <1>1, <3>1, <3>2, AppendProperties
  <2> QED
    BY <1>1, <1>2, <2>1, <2>2 DEF PhoneMoves, RegistrationsInv, RegistrationsTypeOK, AgentStatuses
<1>3. ASSUME NEW a \in AgentPhones, CallMoves(a) PROVE RegistrationsInv'
  <2>1. calling' \subseteq AgentPhones
    BY <1>1, <1>3 DEF CallMoves
  <2>2. status' \in [AgentPhones -> AgentStatuses]
    <3>1. \E s \in AgentStatuses : status' = [status EXCEPT ![a] = s]
      BY <1>3 DEF CallMoves, AgentStatuses
    <3> QED
      BY <1>1, <3>1
  <2> QED
    BY <1>1, <1>3, <2>1, <2>2 DEF CallMoves, RegistrationsInv, RegistrationsTypeOK, AgentStatuses
<1>4. CASE PersistEvent
  <2> DEFINE event == Head(events)
  <2>1. event \in RegistrationEvents /\ Tail(events) \in Seq(RegistrationEvents)
    BY <1>1, <1>4, HeadTailProperties DEF PersistEvent
  <2>2. event.phone \in AgentPhones /\ event.online \in BOOLEAN
    BY <2>1 DEF RegistrationEvents
  <2>3. /\ enrolled' = IF event.online THEN enrolled \cup {event.phone} ELSE enrolled \ {event.phone}
        /\ status' = [status EXCEPT ![event.phone] = StatusAfter(event.phone, event.online)]
        /\ events' = Tail(events)
        /\ UNCHANGED <<online, calling, pass, report>>
    BY <1>4 DEF PersistEvent
  <2> HIDE DEF event
  <2>4. StatusAfter(event.phone, event.online) \in AgentStatuses
    BY <1>1, <2>2, StatusFacts
  <2>5. status' \in [AgentPhones -> AgentStatuses] /\ enrolled' \subseteq AllPhones
    BY <1>1, <2>2, <2>3, <2>4
  <2> QED
    BY <1>1, <2>1, <2>3, <2>5 DEF RegistrationsInv, RegistrationsTypeOK, AgentStatuses
<1>5. CASE Tick \/ ListRegistrations \/ CompareRegistrations
  BY <1>1, <1>5 DEF Tick, ListRegistrations, CompareRegistrations, RegistrationsInv,
     RegistrationsTypeOK, AgentStatuses
<1>6. CASE UpdateAgents
  <2>1. /\ enrolled' = (enrolled \ AgentPhones) \cup (pass.list \cap AgentPhones)
        /\ status' = [a \in AgentPhones |-> StatusAfter(a, a \in pass.list)]
        /\ pass' = [pass EXCEPT !.at = "endpoints"]
        /\ UNCHANGED <<online, calling, events, report>>
    BY <1>6 DEF UpdateAgents
  <2>2. \A a \in AgentPhones : StatusAfter(a, a \in pass.list) \in AgentStatuses
    BY <1>1 DEF StatusAfter, AgentStatuses
  <2>3. status' \in [AgentPhones -> AgentStatuses]
    BY <2>1, <2>2
  <2> QED
    BY <1>1, <2>1, <2>3 DEF RegistrationsInv, RegistrationsTypeOK, AgentStatuses
<1>7. CASE UpdateEndpoints
  BY <1>1, <1>7 DEF UpdateEndpoints, RegistrationsInv, RegistrationsTypeOK, AgentStatuses
<1>8. CASE RecordRun
  BY <1>1, <1>8 DEF RecordRun, NoRun, RegistrationsInv, RegistrationsTypeOK, AgentStatuses
<1>9. CASE RunFails
  <2>1. report' \in {report, [report EXCEPT !.status = "failed"]} /\ pass' = NoRun
        /\ UNCHANGED <<online, enrolled, status, calling, events>>
    BY <1>9 DEF RunFails
  <2>2. report'.status \in {"none", "ok", "failed"} /\ DOMAIN report' = {"status", "drift"}
    BY <1>1, <2>1
  <2> QED
    BY <1>1, <2>1, <2>2 DEF NoRun, RegistrationsInv, RegistrationsTypeOK, AgentStatuses
<1>10. CASE UNCHANGED registrationsVars
  BY <1>1, <1>10 DEF registrationsVars, RegistrationsInv, RegistrationsTypeOK, AgentStatuses
<1> QED
  BY <1>2, <1>3, <1>4, <1>5, <1>6, <1>7, <1>8, <1>9, <1>10 DEF RegistrationsNext, RunGoesOn

------------------------------------------------------------------------------
(* The components together.                                                *)

(* A behaviour of the background components is one of each of them.        *)
LEMMA BackgroundIsEachOfThem ==
  BackgroundSpec => /\ Spec /\ MediaSpec
                    /\ RecordingInit /\ [][RecordingNext]_recordingVars
                    /\ RegistrationsInit /\ [][RegistrationsNext]_registrationsVars
<1>1. BackgroundInit => Init /\ MediaInit /\ RecordingInit /\ RegistrationsInit
  BY DEF BackgroundInit
<1>2. [BackgroundNext]_backgroundVars =>
        /\ [Next]_vars /\ [MediaNext]_mediaVars
        /\ [RecordingNext]_recordingVars /\ [RegistrationsNext]_registrationsVars
  BY DEF BackgroundNext, backgroundVars, ListenerRuns, MediaRuns, RecordingRuns, RegistrationsRun
<1> QED
  BY <1>1, <1>2, PTL DEF BackgroundSpec, Spec, MediaSpec

(* The variables of every background component have their types.           *)
THEOREM BackgroundTypesCorrect == BackgroundSpec => []BackgroundTypeOK
<1>1. RecordingInit => RecordingTypeOK
  BY RecordingAssumption DEF RecordingInit, RecordingTypeOK, Undecided, Resting
<1>2. RegistrationsInv => RegistrationsTypeOK
  BY DEF RegistrationsInv
<1>3. TypeOK /\ MediaTypeOK /\ RecordingTypeOK /\ RegistrationsTypeOK => BackgroundTypeOK
  BY DEF BackgroundTypeOK
<1> QED
  BY <1>1, <1>2, <1>3, BackgroundIsEachOfThem, ListenerTypesCorrect, MediaTypesCorrect,
     RecordingTypesHold, RegistrationsBegin, RegistrationsStep, PTL

(* The verdict on a recording stands, whoever comes late.                  *)
THEOREM VerdictsStand == BackgroundSpec => VerdictStands
<1>1. RecordingInit => RecordingTypeOK
  BY RecordingAssumption DEF RecordingInit, RecordingTypeOK, Undecided, Resting
<1> QED
  BY <1>1, BackgroundIsEachOfThem, RecordingTypesHold, VerdictStep, PTL DEF VerdictStands
==============================================================================
