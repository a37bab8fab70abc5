---------------------------- MODULE EventListener ----------------------------
(***************************************************************************)
(* How events reach the database: the ESL listener with its subscription   *)
(* and reconnect timer, the bounded OrderedRetryQueue that persists one    *)
(* event at a time, and the CoalescedTask that reconciles once the queue   *)
(* is idle.  A step is one callback of the event loop with the promise     *)
(* continuations that follow it; the handlers that persist an event and    *)
(* the reconciliation itself run in between.                               *)
(*                                                                         *)
(* Events are numbered in the order FreeSWITCH sends them.                 *)
(***************************************************************************)
EXTENDS Naturals, Sequences

CONSTANTS MaxSize,     \* capacity of the queue
          MaxEvents,   \* bound on the events FreeSWITCH sends
          MaxConnects, \* bound on the connections made
          MaxFailures  \* bound on transient failures of the database

ASSUME SizeAssumption  == MaxSize \in Nat \ {0}
ASSUME BoundAssumption == MaxEvents \in Nat /\ MaxConnects \in Nat \ {0} /\ MaxFailures \in Nat

VARIABLES
  sent,      \* events FreeSWITCH has sent
  socket,    \* the listener's connection
  epoch,     \* history: connections made so far
  pipe,      \* frames sent on the connection and not yet read
  reconnect, \* the reconnect timer runs
  queue,     \* OrderedRetryQueue: its entries, the handlers at work, its flags
  task,      \* CoalescedTask: its phase, and whether it was requested again
  stopped,   \* the listener was stopped
  failures,
  accepted,  \* history: the events enqueued, with their connection
  handled,   \* history: the events done with, in order
  lost       \* history: an event was lost since reconciliation last began

connection == <<socket, epoch, pipe, reconnect>>
history    == <<accepted, handled, lost>>
vars == <<sent, connection, queue, task, stopped, failures, history>>

Init ==
  /\ sent = 0 /\ failures = 0
  /\ socket = "connecting" /\ epoch = 1 /\ pipe = <<>> /\ reconnect = FALSE
  /\ queue = [entries |-> <<>>, handlers |-> <<>>, processing |-> FALSE, retry |-> FALSE]
  /\ task = [phase |-> "idle", requested |-> FALSE]
  /\ stopped = FALSE
  /\ accepted = <<>> /\ handled = <<>> /\ lost = FALSE

------------------------------------------------------------------------------
(* The queue.                                                              *)

IsIdle(q) == q.entries = <<>> /\ ~q.processing /\ ~q.retry

StartHandler(q) ==
  [q EXCEPT !.processing = TRUE, !.handlers = Append(@, Head(q.entries))]

Drain(q) ==
  IF stopped \/ q.processing \/ q.retry \/ q.entries = <<>> THEN q ELSE StartHandler(q)

(* The handler of e is over: the next drain, or the retry timer, goes on.  *)
Finished(q) == [q EXCEPT !.processing = FALSE, !.handlers = Tail(@)]

Shifted(q) == [q EXCEPT !.entries = Tail(@)]

(* The end of a handler concerns the queue only if its entry is still the  *)
(* first one: stop() may have emptied the queue meanwhile.                 *)
IsHead(q, e) == ~stopped /\ q.entries # <<>> /\ Head(q.entries) = e

------------------------------------------------------------------------------
(* The coalesced task: waitForIdle, then reconcileActiveCalls.             *)

(* A queue that turned idle, or was stopped, resolves its waiters.         *)
Woken(t, q, stop) ==
  IF t.phase # "waiting" THEN t
  ELSE IF stop THEN [phase |-> "idle", requested |-> FALSE]
  ELSE IF IsIdle(q) THEN [t EXCEPT !.phase = "working"] ELSE t

(* The loop of run(): it takes the request and waits for the queue.        *)
RunTask(t, q) ==
  Woken([phase |-> "waiting", requested |-> FALSE], q, FALSE)

Request(t, q) ==
  IF t.phase = "idle" THEN RunTask(t, q) ELSE [t EXCEPT !.requested = TRUE]

(* A reconciliation that begins sees whatever was lost before.             *)
Begins == task'.phase = "working" /\ task.phase # "working"
Reconciles == lost' = IF Begins THEN FALSE ELSE lost

------------------------------------------------------------------------------
(* The connection.                                                         *)

(* An event sent while nobody is subscribed is lost.                       *)
SendEvent ==
  /\ sent < MaxEvents
  /\ sent' = sent + 1
  /\ IF socket = "events" THEN pipe' = Append(pipe, sent + 1) /\ UNCHANGED lost
                          ELSE lost' = TRUE /\ UNCHANGED pipe
  /\ UNCHANGED <<socket, epoch, reconnect, queue, task, stopped, failures, accepted, handled>>

Enqueue(frames) ==
  /\ queue' = Drain([queue EXCEPT !.entries = @ \o frames])
  /\ accepted' = accepted \o [i \in DOMAIN frames |-> [event |-> frames[i], epoch |-> epoch]]

(* Faulty: a frame that does not fit is dropped and the rest goes on.      *)
DataDropped(n) ==
  LET room == MaxSize - Len(queue.entries)
      taken == IF n <= room THEN n ELSE room
  IN /\ socket = "events" /\ n \in 1 .. Len(pipe)
     /\ Enqueue(SubSeq(pipe, 1, taken))
     /\ pipe' = SubSeq(pipe, n + 1, Len(pipe))
     /\ lost' = (lost \/ n > room)
     /\ UNCHANGED <<sent, socket, epoch, reconnect, task, stopped, failures, handled>>

(* Faulty: the queue takes one event more than its capacity.               *)
DataOverfull(n) ==
  LET room == MaxSize + 1 - Len(queue.entries)
  IN /\ socket = "events" /\ n \in 1 .. Len(pipe)
     /\ n <= room
     /\ Enqueue(SubSeq(pipe, 1, n))
     /\ pipe' = SubSeq(pipe, n + 1, Len(pipe))
     /\ UNCHANGED <<sent, socket, epoch, reconnect, task, stopped, failures, handled, lost>>

(* One chunk of n frames.  The first that does not fit destroys the        *)
(* connection with everything on it; the close callback comes later.       *)
Data(n) ==
  LET room == MaxSize - Len(queue.entries)
  IN /\ socket = "events" /\ n \in 1 .. Len(pipe)
     /\ IF n <= room
        THEN /\ Enqueue(SubSeq(pipe, 1, n))
             /\ pipe' = SubSeq(pipe, n + 1, Len(pipe))
             /\ UNCHANGED <<socket, lost>>
        ELSE /\ Enqueue(SubSeq(pipe, 1, room))
             /\ pipe' = <<>> /\ socket' = "destroyed" /\ lost' = TRUE
     /\ UNCHANGED <<sent, epoch, reconnect, task, stopped, failures, handled>>

(* The close callback, after an error of the connection, a failed          *)
(* authentication or subscription, or the listener's own destroy().        *)
Close ==
  /\ socket \in {"connecting", "events", "destroyed"}
  /\ socket = "destroyed" \/ epoch < MaxConnects
  /\ socket' = "none" /\ pipe' = <<>>
  /\ lost' = (lost \/ pipe # <<>>)
  /\ reconnect' = ~stopped
  /\ UNCHANGED <<sent, epoch, queue, task, stopped, failures, accepted, handled>>

(* connect() from its timer: not while the queue is full.                  *)
Connect ==
  /\ reconnect /\ epoch < MaxConnects
  /\ Len(queue.entries) < MaxSize
  /\ reconnect' = FALSE
  /\ socket' = "connecting" /\ epoch' = epoch + 1
  /\ UNCHANGED <<sent, pipe, queue, task, stopped, failures, history>>

(* The first thing a new subscription asks for is a reconciliation.        *)
Subscribe ==
  /\ socket = "connecting"
  /\ socket' = "events"
  /\ task' = Request(task, queue)
  /\ Reconciles
  /\ UNCHANGED <<sent, epoch, pipe, reconnect, queue, stopped, failures, accepted, handled>>

(* The interval timer.                                                     *)
Interval ==
  /\ ~stopped
  /\ task' = Request(task, queue)
  /\ Reconciles
  /\ UNCHANGED <<sent, connection, queue, stopped, failures, accepted, handled>>

------------------------------------------------------------------------------
(* The handler of the first event at work ends.                            *)

HandlerEnds == queue.handlers # <<>>
Handler     == Head(queue.handlers)

(* The entry leaves the queue, persisted or after a permanent failure.     *)
HandlerDone ==
  /\ HandlerEnds
  /\ LET q == Finished(queue)
     IN IF IsHead(queue, Handler)
        THEN queue' = Drain(Shifted(q)) /\ handled' = Append(handled, Handler)
        ELSE queue' = Drain(q) /\ handled' = handled
  /\ task' = Woken(task, queue', FALSE)
  /\ Reconciles
  /\ UNCHANGED <<sent, connection, stopped, failures, accepted>>

(* Faulty: the event goes to the end of the queue.                         *)
RetryLater ==
  /\ HandlerEnds /\ failures < MaxFailures
  /\ failures' = failures + 1
  /\ LET q == Finished(queue)
     IN queue' = IF IsHead(queue, Handler)
                 THEN [q EXCEPT !.retry = TRUE, !.entries = Append(Tail(@), Handler)] ELSE q
  /\ UNCHANGED <<sent, connection, task, stopped, history>>

(* A transient failure keeps the entry first and starts the retry timer.   *)
HandlerFails ==
  /\ HandlerEnds /\ failures < MaxFailures
  /\ failures' = failures + 1
  /\ LET q == Finished(queue)
     IN queue' = IF IsHead(queue, Handler) THEN [q EXCEPT !.retry = TRUE] ELSE q
  /\ UNCHANGED <<sent, connection, task, stopped, history>>

RetryTimer ==
  /\ queue.retry
  /\ queue' = Drain([queue EXCEPT !.retry = FALSE])
  /\ UNCHANGED <<sent, connection, task, stopped, failures, history>>

(* Faulty: a request made while the task was at work is forgotten.         *)
EndOfOneRun(t, q) == [phase |-> "idle", requested |-> FALSE]

EndOfRun(t, q) ==
  IF t.requested /\ ~stopped THEN RunTask(t, q) ELSE [phase |-> "idle", requested |-> FALSE]

ReconcileEnds ==
  /\ task.phase = "working"
  /\ task' = EndOfRun(task, queue)
  /\ lost' = IF task'.phase = "working" THEN FALSE ELSE lost
  /\ UNCHANGED <<sent, connection, queue, stopped, failures, accepted, handled>>

(* The function startFreeSwitchEventListener returns.                      *)
Stop ==
  /\ ~stopped
  /\ stopped' = TRUE
  /\ queue' = [queue EXCEPT !.entries = <<>>, !.retry = FALSE]
  /\ task' = Woken([task EXCEPT !.requested = FALSE], queue', TRUE)
  /\ reconnect' = FALSE /\ pipe' = <<>>
  /\ socket' = IF socket = "none" THEN "none" ELSE "destroyed"
  /\ UNCHANGED <<sent, epoch, failures, history>>

Next ==
  \/ SendEvent \/ (\E n \in 1 .. MaxEvents : Data(n)) \/ Close \/ Connect \/ Subscribe \/ Interval
  \/ HandlerDone \/ HandlerFails \/ RetryTimer \/ ReconcileEnds \/ Stop

Spec == Init /\ [][Next]_vars

(* Timers fire, the socket's callbacks run, handlers and reconciliation    *)
(* return.  The interval is left out: what is shown holds without it.      *)
Fairness ==
  /\ WF_vars(\E n \in 1 .. MaxEvents : Data(n))
  /\ WF_vars(socket = "destroyed" /\ Close)
  /\ WF_vars(Connect) /\ WF_vars(Subscribe)
  /\ WF_vars(HandlerDone) /\ WF_vars(RetryTimer)
  /\ WF_vars(ReconcileEnds)

FairSpec == Spec /\ Fairness

------------------------------------------------------------------------------
(* Properties.                                                             *)

(* The queue, the task and the connection are well typed.                  *)
TypeOK ==
  /\ sent \in 0 .. MaxEvents /\ failures \in 0 .. MaxFailures
  /\ socket \in {"none", "connecting", "events", "destroyed"}
  /\ epoch \in 1 .. MaxConnects /\ reconnect \in BOOLEAN /\ stopped \in BOOLEAN
  /\ pipe \in Seq(1 .. MaxEvents)
  /\ queue \in [entries : Seq(1 .. MaxEvents), handlers : Seq(1 .. MaxEvents),
                processing : BOOLEAN, retry : BOOLEAN]
  /\ Len(queue.entries) <= MaxSize
  /\ task \in [phase : {"idle", "waiting", "working"}, requested : BOOLEAN]

(* Events are persisted in the order FreeSWITCH sent them, each of them    *)
(* before the handler of the next one starts: retries, overflows and       *)
(* reconnects neither reorder nor repeat an event that is done.            *)
EventsInOrder ==
  LET line == handled \o queue.entries
  IN \A i, j \in DOMAIN line : i < j => line[i] < line[j]

(* No silent gap: the events taken from one connection are consecutive.    *)
(* An event that did not fit is missing only with all that came after it   *)
(* on that connection, so a hangup is never persisted without the answer   *)
(* before it while the listener looks healthy.                             *)
NoSilentGap ==
  \A i \in 1 .. Len(accepted) - 1 :
    accepted[i].epoch = accepted[i + 1].epoch => accepted[i + 1].event = accepted[i].event + 1

(* Nothing starts after a shutdown: no event handler and no                *)
(* reconciliation begins on a pool that is being closed.                   *)
QuietAfterStop ==
  [][stopped' => /\ Len(queue'.handlers) <= Len(queue.handlers)
                 /\ task'.phase = "working" => task.phase = "working"]_vars

(* Lost events are reconciled: after the last loss a reconciliation        *)
(* begins, triggered by the new subscription alone.                        *)
LossIsReconciled == lost ~> ~lost \/ stopped \/ (epoch = MaxConnects /\ socket # "events")

(* A reconciliation that waits for the queue gets its turn: retries,       *)
(* permanent failures and new events all end in a drain that resolves it.  *)
ReconciliationRuns == task.phase = "waiting" ~> task.phase = "working" \/ stopped
==============================================================================
