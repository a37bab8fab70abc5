# Formal model of the outbound dialer

TLA+ modules, TLC runs and TLAPS proofs about this repository: the API
(`src/apps/api`), which creates outbound calls, drives FreeSWITCH over its event
socket (ESL), persists what FreeSWITCH reports in PostgreSQL and repairs what it
missed; what runs beside the calls (supervision, recordings, captures,
retention, settings, imports, exports, audit, gauges); and the parts of the web
application (`src/apps/web`) that hold state against the API and FreeSWITCH.
`PROJECT.json` is the machine-readable side: every definition with the lines it
models, every run, mutant, hazard, finding and theorem.

Contents: [the system](#the-system) · [what is hard](#what-is-hard) ·
[modules](#modules) · [runs](#runs) · [fairness](#fairness) ·
[proofs](#proofs) ·
[disagreements](#disagreements-between-code-and-documents) ·
[hazards left open](#hazards-left-open) · [not modelled](#not-modelled)

## The system

An agent's browser registers a SIP phone with FreeSWITCH and asks the API for
the next call. The API reserves a lead, inserts a call, asks FreeSWITCH to ring
the agent and, once the agent answers, to bridge the customer. While the
customer's answering machine talks the agent may *drop a voicemail*: the
customer is transferred to a dialplan extension that plays a recording, and the
agent is released for the next call while the old one goes on in the
background. Every one of these steps is reported back as ESL events.

Browser requests run transactions on the store and then commands on FreeSWITCH;
FreeSWITCH's events enter the listener's queue and run transactions on the
store; timers (watchdog, retry, reconnect, reconcile, finalizer, retention,
refreshes) run both. A change of the database notifies the browsers, which ask
again. Nothing but PostgreSQL's rows, files on disk and FreeSWITCH's channels
survives a crash of the API.

| Component | State it keeps | Operations | Correct when | Module |
| --- | --- | --- | --- | --- |
| Call store (`dashboard/calls.ts`, `call-finalization.ts`, `agent-availability.ts`, `manual-call-status.ts`, migrations 006, 023) | rows of `calls`, `call_legs`, `agents`, `contacts` | create, store legs, advance, claim/revert/release a voicemail drop, finalize, correct, register, pause, retire, complete and reset leads | one interactive call per agent, one open call per lead, the four tables agree, the first outcome wins | CallStore, CallLedger |
| Call handlers (`dashboard/calls.ts`, `esl.ts`) | program counters between awaits, watchdog timers | `syncFreeSwitchOriginate`, `closeMissingOriginateLeg`, `endDialerCall`, `dropVoicemailForCall` | no command is repeated blindly, an agent is released only when off the line, every call settles | CallLifecycle |
| Event persistence (`esl-events.ts`) | the event being handled and what was read for it | `persistFreeSwitchEvent` and its handlers | events give the documented outcome in any order | CallStore, CallLifecycle |
| Reconciliation and repair (`esl-events.ts`) | a snapshot of open calls | `reconcileActiveCalls` and what it calls | whatever was lost is settled | CallLifecycle |
| Event listener (`esl-events.ts`, `ordered-retry-queue.ts`, `coalesced-task.ts`) | socket, reconnect timer, bounded queue, retry timer, coalesced task | connect, subscribe, data, close, drain, retry, request, stop | in order, one at a time, no silent gap, losses lead to reconciliation | EventListener |
| Early-media fallback (`early-media-fallback.ts`) | one state and promise chain per call | handle, poll, inspect, hook, broadcast, break, stop | the customer's media and voice are never covered by the tone | EarlyMediaFallback |
| Registration reconciler (`agent-registrations.ts`) | the run's list of phones | list, compare, update agents and endpoints | the tables come to agree with FreeSWITCH | AgentRegistrations |
| Supervisor sessions (`dashboard/supervisor.ts`) | `call_supervisor_sessions`, the eavesdropping channels | start, change mode, stop, persist events and failures | one session per supervisor, none beside a call of their own, no channel without a session | SupervisorSession |
| Recordings of calls (`call-recording-finalizer.ts`, `esl-events.ts`) | status and claim of a recording | start, undo, claim, inspect, mark | each recording is judged, once | RecordingFinalizer |
| Packet captures (`pcap-*.ts`) | requests, tcpdump, files | start, stop, wait, join, isolate | one operation per call at a time | PcapCapture |
| Retention (`dashboard/retention*.ts`) | the run, rows and files | lock, unlink, expire, delete | nothing young is deleted, nothing is left behind | Retention |
| Recordings library (`dashboard/recordings.ts`) | recordings, the default, files | upload, set default, delete, restore | one active default, files of what can be chosen | VoicemailLibrary |
| Accounts (`users.ts`, `auth/*`, `freeswitch/provisioning.ts`) | the user's row, tokens, directory files, registrations | create, change, log in, provision, reconcile | an old token is refused, a deactivated user's phone is cut off | AgentAccounts |
| Campaigns (`dashboard/campaigns.ts`, `csv.ts`) | campaign, leads, locks | select, insert, archive, reset, import | a reform spares live calls, an import is exact | CampaignLeads, CsvImport |
| Suppression (`dashboard/routes.ts`, `manual-dial.ts`) | listed numbers, evidence | add, import, remove, suppress, check | a listed number is not dialed | Suppression |
| Live events and desk (`live-events.ts`, `web/src/App.tsx`, `features/agent-desk`) | listening connection, streams, the page's counters | notify, reconnect, refresh, mutate, sign in and out | the desk is the user's own, never goes back, catches up | LiveDesk |
| Phones in the browser (`web/src/softphone.ts`, `supervisor-softphone.ts`) | registration effects, invitations | register, accept, hang up, clean up | what was abandoned is stopped, what is shown is heard | Softphone, SupervisorPhone |
| Runtime settings (`runtime-settings.ts`) | row, memory, file, Alertmanager | update, publish, undo, reload, restart | all four agree | RuntimeSettings |
| Read models (`dashboard/responders.ts`, `analytics.ts`, `metrics.ts`, `campaign-recording-export.ts`) | queries; cursor of an export; gauges | list, export, refresh | copies of predicates agree, exports and scrapes are consistent | CallReports, CallHistory, MonitoringSnapshot |
| Audit and telemetry (`admin-audit.ts`, `dashboard/browser-media.ts`) | `admin_audit` rows, one summary per call | hook, append, upsert | what was done is on record, the longest summary stays | AdminAudit, MediaTelemetry |

### What is hard

* *Interleaving.* Requests, events, the watchdog and reconciliation act on one
  call at the same time; each reads rows, awaits FreeSWITCH, and writes later.
* *Ordering.* Writes of the originate may come after the events the originate
  caused; events may precede the row they refer to; answers and uploads
  overtake each other on their way to or from a browser.
* *Unanswered commands.* An ESL command that times out may have been carried
  out. Whether to undo, repeat or leave it is decided per command.
* *Loss and crashes.* The queue is in memory and bounded; hints to browsers are
  not repeated; claims outlive the process that made them.
* *Two stores.* Rows and files (recordings, captures, the directory, the
  settings of Alertmanager) change one after the other, and a failure falls in
  between.
* *Background calls.* A released call still lives while its agent talks on the
  next one: each end of the first must leave the second alone.

`PROJECT.json` lists these hazards at the lines where they bite, with the
properties that cover each.

## Modules

```
CallLedger  <== implemented by ==  CallStore  <-- INSTANCE --  CallLifecycle -- MCCallLifecycle
                                    |   |
                       CallReports -+   +- CallStoreProofs  <-- INSTANCE --  CallLifecycleProofs
                            |   +- MCCallStore
                            |
MCBackOffice  == CallReports, SupervisorSession, Retention, VoicemailLibrary, Softphone,
                 SupervisorPhone, CsvImport, AgentAccounts, RuntimeSettings, CallHistory,
                 CampaignLeads, Suppression, AdminAudit, MediaTelemetry, MonitoringSnapshot
MCBackground  == EventListener, EarlyMediaFallback, RecordingFinalizer, AgentRegistrations
MCFollowUp    == LiveDesk, AgentAccounts

EndedCall <- RecordingFinalizer, PcapCapture <- Retention
CallStoreProofs  : CallStore, CallLedger       CallLifecycleProofs : CallLifecycle
SupervisorProofs : SupervisorSession, SupervisorPhone, Softphone
FilesProofs      : Retention, VoicemailLibrary
AdmissionProofs  : AgentAccounts, CampaignLeads, Suppression, CsvImport
BackgroundProofs : MCBackground, on FilesProofs
FollowUpProofs   : MCFollowUp, on AdmissionProofs
BackOfficeProofs : MCBackOffice, on the proofs of store, supervision, files and admission
```

Operators marked "Faulty" are plausible bugs of the code, with which a mutant
replaces the real definition.

### Calls

**CallStore** is the durable side. Its variables `call`, `leg`, `agent` and
`contact` are the tables; an action is one transaction or autocommit statement
with its WHERE clause as guard, the trigger `enforce_call_state_progression`
(`UpdateCall`) and the unique indexes included. Statements may run whenever
their own conditions allow, in any order and repeatedly, so what holds here
holds whatever FreeSWITCH, clients and timers do. Timestamp columns are kept as
"is set"; a leg as whether it has ended and whether its uuid is stored.
Definitions carry the names of the code: `CreateDialerCall`, `FinalizeCall`
(`finalizeCallTransaction`), `FinishAgentCall`, `SetManualCallStatus`.
Addresses, texts, call_events, attempt counts and retry delays are left out, and
the state `voicemail_signal_detected`, which no code writes any more.

**CallLedger** is what the store promises, in four actions: a call is opened
for an agent who is on no other and a lead that is in no other, may leave the
agent for the background once, is closed once with a result, and may be
corrected once.

**CallReports** is what the read models say of the same rows: each query's
WHERE or FILTER clause as the set of calls it keeps. `ReportsAgree` relates
them: each call of an agent is on the desk in one place, failures counted from
outcomes and from states are the same, an action that is offered is accepted,
an agent counted as on a call is counted as active.

**CallLifecycle** orders the statements as the handlers issue them and puts
FreeSWITCH on the other side. It instantiates CallStore and names the rows it
shares with it. `origin`, `watchdog`, `ender`, `drop`, `esl` and `rec` are the
places where `syncFreeSwitchOriginate`, `closeMissingOriginateLeg`,
`endDialerCall`, `dropVoicemailForCall`, `persistFreeSwitchEvent` and
`reconcileActiveCalls` may be interrupted (each `await`), together with what
they read earlier and use later. `channel` holds FreeSWITCH's legs; `wire` the
events not yet persisted. A kill or transfer without an answer may or may not
have been carried out (`Fault("command")`); statements fail, the connection
drops, the process dies (`Crash` forgets all but rows and channels). The
reconciliation starts only when the queue is idle (`QueueIdle`), which
EventListener shows of the code. `DropTimedOut` abstracts the 120 s start
timeout to "the request that made the claim has ended", and `Age` the 60 s age
to "the originate is over and the agent's phone no longer rings".

**EventListener** is the path from socket to handler. `queue` is the
`OrderedRetryQueue` with its `processing` flag, retry timer and the handlers at
work; `task` the `CoalescedTask`; `pipe` what a connection carries. `Data(n)`
takes a chunk of n frames as the loop over `extraction.frames` does: the first
that does not fit destroys the socket and the rest of the chunk. `HandlerDone`,
`HandlerFails` and `RetryTimer` are the three ways `drain` goes on. `epoch`,
`accepted`, `handled` and `lost` only record history.

**EarlyMediaFallback** is one call of `createEarlyMediaFallbackController`:
`state` its `FallbackState`, `chain` the promise chain `operation`, `step` the
command that the running operation awaits. A command takes effect and returns
in one step; an event handled between the two leads to the same continuation as
one handled right after, since the operations re-read the state after each
await. `OperationEnds` drops the state of a call after a stop, as the `finally`
of `terminate` does. `unanswered` lists the commands without an answer:
`ToneIsKnown` says that no command to start or stop the tone is among them.

### Leads, numbers and accounts

**CampaignLeads** takes the selection of a lead apart into its locks. A caller
selects a lead (`for update`, skipping or waiting for a row that is held),
inserts its call, whose foreign key shares the campaign's row, and commits; an
administrator's reset or archive locks the campaign, looks for active calls and
writes the leads row by row. `BreakDeadlock` is PostgreSQL's choice of a victim
when each waits for the other. `CountedCallable`, `NextCallable` and
`ChosenCallable` are the three policies the code has for "callable".

**CsvImport** is the batch import of contacts and suppression entries: advisory
locks in order, chunks of `ChunkSize`, rows without a number, and single edits
beside it. `ImportsAreExact` compares the batch with the loop over the rows it
replaced, shows that imports which share numbers in different orders do not
wait for each other for ever, and that what an import found is still so when it
commits.

**Suppression** has every way the list is changed with the evidence each writes
or does not write, and the two checks, for manual dials and for leads, which
come before the call is created.

**AgentAccounts** is one user: the row with its token version, tokens that were
read before and signed after a change, the agent's and the supervisor's
directory files, what FreeSWITCH has loaded of them and who is registered.
Requests write and load files after their transaction; the directory
reconciler does the same from what it read.

**AgentRegistrations** has events of agents' phones, which may be lost, and the
reconciler's run statement by statement with a list that is old when it is
written.

### Files

**EndedCall** is what the three modules of a call's files share: whether the row
is open, ended or deleted and which retention periods are over.
**RecordingFinalizer** starts a recording (with the undoing of a failed start),
claims it under a token, inspects the file and marks it; claims go stale and are
taken over. **PcapCapture** has requests, the coordinator's `Promise` chains
(a request of the same action joins, one of another waits), tcpdump, isolation
and rename, and the row that the API stores. The creation of a call asks for the
start once, whatever has become of the row by then; the timer asks for rows that
are pending, its query and its request in one step (a call that ends between the
two is started late, as the creation may do too). **Retention** composes the two and
adds the run under its advisory lock; it may die, or its transaction fail, after it
unlinked the files. The history variable `stray` notes a capture that was
written when no row would name it any more: one that was finished after the
run had listed it, or that began when its row was no longer pending.
**VoicemailLibrary** is the library with
its default, its files and the calls that take a recording from it.

### Supervision and browsers

**SupervisorSession** has sessions, legs that eavesdrop, the media lock, the
requests of an administrator's tabs at each await, changes of their account and
a call of their own. **SupervisorPhone** and **Softphone** are the effects that
register the phones in the browser, each await a step, with SIP.js external.
Where the code keeps a screen that already tells of an error, `FailRegistration`
may keep it or not, as the texts are left out.
**LiveDesk** is the page: fetches carry the counters they started with, and an
answer whose counter has moved is dropped. A login waits for the hydration that
is current, not for one that a logout has superseded. **MediaTelemetry** is the browser's
periodic and final uploads against the upsert.

### Administration

**RuntimeSettings** is the queue of updates with their five writes (file staged,
row, file published, memory, commit) and the reload beside it. **CallHistory**
is the CSV export by pages and the ZIP of a campaign's recordings against
commits that come late and retention; `removed` remembers the deleted calls,
whose ids no later call gets. **AdminAudit** is the hook that writes
before the handler. **MonitoringSnapshot** is the refresh of the gauges on one
client of the pool, with a client that is released while queries are chained.

## Runs

Every property of a passing run has a mutant: a plausible bug put in the place
of a definition of the module, with which TLC refutes the property under the
same configuration.

| Run | Module | Shows |
| --- | --- | --- |
| `store_two_calls` | MCCallStore | two calls compete for one agent and one lead: `OneInteractiveCallPerAgent`, `OneActiveCallPerContact`, `InteractiveAgentIsBusy`, `NoLeakedReservation`, `OpenLeadIsNotCallable`, `ReleasedStaysBackground`, `ReportsAgree` |
| `lifecycle_drops` | MCCallLifecycle | two drop requests on one call, a fault anywhere: `ReleasedAgentIsOffTheLine`, `NoDoubleTransfer` |
| `lifecycle_settles` | MCCallLifecycle | `Settles`: after a crash or a lost connection at any step, every call is finalized and its legs, lead and agent are given back |
| `background` | MCBackground | `EventsInOrder`, `NoSilentGap`, `ListenerRecovers`; `MediaWinsIfKnown`, `ToneEnds`; `RecordingsAreJudged`; `AgentsAreShownAsTheyAre` |
| `follow_up` | MCFollowUp | `DeskIsSound`, `DeskRecovers`; `DirectoryFollowsAccount` |
| `back_office` | MCBackOffice | safety of fifteen components: `OutcomeIsEarned`, `FirstOutcomeWins`, `LeadFollowsOutcome`, `ImplementsLedger` (store), `OneMediaRole`, `NoHiddenChannel` (supervision), `OneCaptureOperation`, `FilesAndRowsAgree` (files, library), `BrowserPhonesAreSound`, `ImportsAreExact`, `RevokedSessionStaysOut`, `SettingsHold`, `LeadsAreSafe`, `ExportsAreTrue`, `ListedNumbersAreNotDialed`, `RecordsAreTrue` (audit, telemetry, gauges) |
| `watchdog_voicemail`, `dropped_means_heard`, `media_unanswered`, `supervisor_unmarked`, `evidence_missing`, `desk_stuck` | | violated: see [below](#disagreements-between-code-and-documents) |

Besides, `lifecycle_settles` and the runs of several components check the types
of what they run (`TypeOK`, `BackgroundTypeOK`, `FollowUpTypeOK`,
`BackOfficeTypeOK`).

### One component per behaviour

MCBackground, MCFollowUp and MCBackOffice put several components in one run.
Their models share no variable, so their product has no behaviour of interest
that one of them does not have; a variable `part`, chosen in the initial state,
says which of them runs, and the others stay in an initial state. A property of
one component is therefore checked over all behaviours of that component, and
holds in the others because it holds initially. Liveness is asked of the part
that runs. Components that do interact are composed by sharing their variables:
CallLifecycle with CallStore, Retention with RecordingFinalizer and PcapCapture,
LiveDesk with live events, SupervisorSession with the calls and account of its
administrator. `part = "store"` runs CallStore with one call, two leads and all
causes, events, detections and three corrections; `store_two_calls` has two
calls, the answer of the customer as their only event and no hangup cause, so
that a call ends by a failure, a missing channel, a repair, an end in the
application or its voicemail. The refinement of the ledger, which is costly to
check, is checked there with one call and proved for any number.

### Bounds

The properties speak of two calls of one agent or one lead, of two requests, or
of one file and its row, so the instances have the smallest sets in which they
can fail; the mutants show that they do.

| Bound | Value | Enough because |
| --- | --- | --- |
| `OneIsMarked` (MCCallStore, a CONSTRAINT): a detection or a correction on at most this many of the two calls | 1 | both only concern the outcome of their own call; what they could do to the other goes through the agent and the lead |
| `MaxFaults` (CallLifecycle), over a whole behaviour | 1 | one fault at any point gives every partial execution of every handler; two faults in one call are not explored |
| `MaxBacklog`: delays people and playback while the listener is behind, never the API | 2, or 1 for `Settles` | a hangup may overtake the handling of the event before it |
| `MaxSize`, `MaxEvents`, `MaxConnects`, `MaxFailures` (EventListener) | 2, 5, 3, 2 | the queue is full after two events, a chunk of three reaches every case of `Data`, three connections give an overflow after a reconnect |
| `MaxFaults` (EarlyMediaFallback): unanswered commands | 2 | one to start and one to stop the tone |
| `Runs`, `MaxClaims`, `MaxMishaps` (files) | 2, 2, 1 (1, 1, 1 in back_office, which has retention) | a claim is made, goes stale and is taken over; the late one comes back |
| `MaxMoves`, `MaxFailedRuns` (AgentRegistrations) | 3, 1 | a phone goes, comes back and a call begins during one run |
| `Fetches`, `MaxChanges`, `MaxTroubles` (LiveDesk) | 2, 1, 1 | one answer overtakes the other; one hint or connection is lost |
| `Handlers`, `MaxUpdates`, `MaxOutages` (AgentAccounts) | 2, 1, 1 in follow_up; 2, 2, 0 in back_office | one request undoes what another is still carrying out; two changes give a token that is two versions old |
| `Sessions`, `Legs`, `Tabs`, `MaxDoubts` (SupervisorSession) | 2, 2, 2, 1 | two tabs, a session and its successor, one command in doubt |
| `Requests` (PcapCapture), `Sweeps` | 3, 1 | two wait for the operation of a third |
| `Recordings`, `Admins`, `MaxLost` (VoicemailLibrary) | 3, 2, 1 | the default, its successor and one being deleted |
| `Effects`, `Invitations`, `Mounts`, `LegInvites` (phones) | 2 each | one abandoned run and one current, an old dialog and its replacement |
| `Files`, `ChunkSize`, `MaxEdits` (CsvImport) | five files of up to four rows, 2, 2 | numbers that come twice, in both orders, across chunks, and rows without one |
| `MaxAttempts`, `MaxSaves`, `MaxSlips` (RuntimeSettings) | 2 each | a save is undone while the reload of another is under way |
| `CallIds`, `PageSize`, `MaxRows`, `MaxChanges` (CallHistory) | 3, 1, 2, 3 | a row enters or leaves between any two pages, one may be deleted and another stored in its place (ids are uuids and never return), and an export of three rows is refused; one of the two exports runs, as they share nothing but the rows |
| `Callers`, `Leads`, `MaxDials`, `MaxReforms` (CampaignLeads) | 2, 2, 1, 2 | both orders of locks; a lead at its limit; two reforms |
| `Asks`, `PhoneNumbers` (Suppression) | 2, 1 | a request of each kind while the number is listed and freed |
| `AuditRequests`, `MaxAuditFaults`; `Collectors`, `UploadEvery`, `MaxSamples`; `Queries`, `MaxDbChanges`, `MaxRefreshes` | 2, 2; 2, 2, 2; 3, 2, 2 | two statements fail; a periodic and a last upload of two collectors; a failing query in the middle and one refresh after it |

CHECK_DEADLOCK is off where the system really ends: the listener is stopped, the
call is over, every request of the instance has been made. The runs of MCCallStore and
MCCallLifecycle check deadlock.

## Fairness

* CallLifecycle (`FairSpec`): the API does not stop while a handler, the listener
  or the reconnect timer has something to do, reconciliation, on its interval,
  is not kept from running (Node's event loop runs callbacks, commands return or
  time out), and both people hang up in the end. It does not assume that each
  handler gets its turn on its own: all of them end, so weak fairness of their
  disjunction is enough. Nobody is assumed to answer, to request a drop or to
  end a call in the application.
* MCBackground: the listener's callbacks and timers run (the reconcile interval
  is left out: a loss is reconciled because every new subscription requests it);
  the tone's events arrive, its timer fires and its commands return or time out;
  recording starts, runs of the finalizer and their steps are taken while the
  process lives, and a claim goes stale (the next tick of
  `setInterval`); registration events are persisted and the reconciler ticks.
  Nobody need answer, hang up or register.
* MCFollowUp: requests of the page are answered, by the server or by an error;
  the 30 s fallback comes again and again, and is not for ever taken while a
  request is under way (strong fairness, because a fallback that finds an action
  pending returns at once); the directory reconciler runs, and the requests of
  administrators go on.

Faults are bounded, so what is shown is that the system settles once faults
stop.

## Proofs

TLAPS proves for *every* value of the constants:

| Theorem | Module | Statement |
| --- | --- | --- |
| `TypeCorrect` | CallStoreProofs | `Spec => []TypeOK` |
| `OneInteractiveCall` | CallStoreProofs | `Spec => []OneInteractiveCallPerAgent` |
| `OneCallPerLead` | CallStoreProofs | `Spec => []OneActiveCallPerContact` |
| `TalkingAgentIsBusy` | CallStoreProofs | `Spec => []InteractiveAgentIsBusy` |
| `NoReservationLeaks`, `OpenLeadIsTaken` | CallStoreProofs | `NoLeakedReservation`, `OpenLeadIsNotCallable` |
| `RowsAreConsistent`, `ReleaseIsForGood`, `OutcomesAreEarned` | CallStoreProofs | `FinalizedTogether`, `ReleasedStaysBackground`, `OutcomeIsEarned` |
| `FirstOutcomeIsKept` | CallStoreProofs | `Spec => FirstOutcomeWins` |
| `LeadsFollowOutcomes` | CallStoreProofs | `Spec => LeadFollowsOutcome` |
| `RowsImplementLedger` | CallStoreProofs | `Spec => ImplementsLedger` |
| `ReportsAlwaysAgree` | BackOfficeProofs | `Spec => []ReportsAgree` |
| `ExportsStayTrue` | BackOfficeProofs | `HistorySpec => []ExportsAreTrue` |
| `LifecycleTypeCorrect` | CallLifecycleProofs | `Spec => []TypeOK` |
| `HandlersOnlyIssueStatements` | CallLifecycleProofs | `Spec => [][Store!Next]_rows`: the handlers refine the store |
| `HandlersKeepRowsSafe` | CallLifecycleProofs | the safety of the store, for the handlers |
| `HandlersKeepOutcomes` | CallLifecycleProofs | `FirstOutcomeWins`, `LeadFollowsOutcome`, for the handlers |
| `HandlersImplementLedger` | CallLifecycleProofs | `Spec => Store!ImplementsLedger`, for the handlers |
| `ReleasedMeansOffTheLine` | CallLifecycleProofs | `Spec => []ReleasedAgentIsOffTheLine` |
| `OneTransferPerCall` | CallLifecycleProofs | `Spec => []NoDoubleTransfer` |
| `ListenerTypesCorrect`, `MediaTypesCorrect`, `BackgroundTypesCorrect` | BackgroundProofs | types of the listener, of the tone, of all that runs in the background |
| `EventsKeepTheirOrder` | BackgroundProofs | `Spec => []EventsInOrder` |
| `NoGapOnAConnection` | BackgroundProofs | `Spec => []NoSilentGap` |
| `NothingStartsAfterShutdown` | BackgroundProofs | `Spec => QuietAfterStop` |
| `MediaWinsWhenKnown` | BackgroundProofs | `MediaSpec => []MediaWinsIfKnown` |
| `ToneStaysOff` | BackgroundProofs | `MediaSpec => NoRestart` |
| `VerdictsStand` | BackgroundProofs | `BackgroundSpec => VerdictStands` |
| `OneMediaRoleHolds` | SupervisorProofs | `SupervisorSpec => []OneMediaRole` |
| `NoChannelIsHidden` | SupervisorProofs | `SupervisorSpec => []NoHiddenChannel` |
| `OneCaptureAtATime` | FilesProofs | `FilesSpec => []OneCaptureOperation` |
| `NoFileIsDeletedEarly`, `NoFileIsForgotten` | FilesProofs | `YoungFilesStay`, `NothingIsLeftBehind` |
| `SettingsStayInForce` | BackOfficeProofs | `SettingsSpec => []SettingsHold` |
| `RecordsStayTrue` | BackOfficeProofs | `BackOfficeSpec => []RecordsAreTrue` |
| `BrowserPhonesStaySound` | BackOfficeProofs | `BackOfficeSpec => []BrowserPhonesAreSound` |
| `FilesAndRowsStayInStep` | BackOfficeProofs | `BackOfficeSpec => FilesAndRowsAgree` |
| `BackOfficeTypeCorrect` | BackOfficeProofs | `BackOfficeSpec => []BackOfficeTypeOK` |
| `BackOfficeStaysSafe` | BackOfficeProofs | the other properties of the run `back_office`, for the composition |
| `DeskTypeCorrect`, `FollowUpTypeCorrect` | FollowUpProofs | types of the desk; `FollowUpSpec => []FollowUpTypeOK` |
| `DeskStaysSound`, `FollowUpKeepsDeskSound` | FollowUpProofs | `DeskIsSound`, of the desk and in the composition |
| `LeadTypesCorrect` | AdmissionProofs | `LeadsSpec => []LeadsTypeOK` |
| `LeadsStaySafe` | AdmissionProofs | `LeadsSpec => []LeadsAreSafe` |
| `ListedNumbersStayUndialed` | AdmissionProofs | `SuppressionSpec => []ListedNumbersAreNotDialed` |
| `AccountsTypeCorrect` | AdmissionProofs | types, and no counter ahead of the changes |
| `RevokedSessionsStayOut` | AdmissionProofs | `AccountsSpec => []RevokedSessionStaysOut` |
| `ImportsStayExact` | AdmissionProofs | `CsvSpec => []ImportsAreExact` |
| `ImportTypesCorrect` | AdmissionProofs | `CsvSpec => []CsvTypeOK` |

Assumptions on the constants, each checked by TLC in the runs of its module:
`NoneAssumption` (CallStore, CallLifecycle: the absent owner and lead are
nobody), `InputAssumption` (what FreeSWITCH and clients may send),
`LeadsAssumption` (a dial limit of at least one; callers that are not called
"nobody" or "reformer", the two holders of a row that are no callers),
`AccountsAssumption` (the phones are an agent's or a supervisor's),
`SettingsAssumption` (the environment's settings are settings and are not
refused), `SizeAssumption` (a queue has room for one event),
`DeskAssumption` ("nobody" is no user), `HistoryAssumption` (finitely many calls, pages of at least one row, no call
created at the value that stands for "none"), `CsvAssumption` (finitely many
phone numbers, a chunk of at least one row),
`RecordingAssumption` (finitely many runs), and for the other components that
the value which stands for "none" is none of their things (`NoRequest`,
`NoSweep`, `NoPhone`, `NoLeg`, `NoRecording`, `NoCollector`, `Nothing`). Bounds
are natural numbers, of any size; nothing else is assumed of them.

**Store.** The inductive invariant `IInv` (CallStoreProofs) is a conjunction of
`TypeOK`; `RowsOK`, what each row says of itself; and what the rows say of each
other. None of the properties is inductive alone. `OneInteractiveCallPerAgent`
needs that a released call's state may only become terminal, which the trigger
gives only to rows whose `released` and `state` agree; `OutcomeIsEarned` needs
that a bridged call was answered and that a voicemail state was asked for;
`InteractiveAgentIsBusy` needs that no statement but the insert makes a row
interactive; `ReportsAgree` needs that a released call was requested and that a
failed state has the failed outcome. The proofs classify the statements
(`CallStepKinds`): those that end a call, those that advance it and those that
leave it open all *narrow* (`EvolvesNarrows`): they open no call and hand none
to another agent or lead. What two calls of one agent or lead need is then a
lemma about the insert. The refinement proof maps a row to a ledger entry and
shows each kind of statement to be a ledger action or a stutter
(`EvolvesIsALedgerStep`). `ReportsAgree` is a consequence of `IInv` in every
state: no step is looked at again (`OneCallIsReportedAlike`,
`DeskAccountsHolds`).

**Exports.** The pages rest on four facts about the order of rows: places are
strictly and totally ordered, the number of rows ahead of a row grows along it
(`RankGrows`), so a set of rows has a first and a last one (`FirstAndLast`), and
a page precedes the rows it leaves and leaves none unless it is full
(`PageIsTheTop`). Existence of a first row is counting: were no row of rank 0,
different ranks would not fit (`RanksFit`). `HistoryInv` says that a row which
was read lies at or before the cursor or is deleted for good
(`ReadRowsArePassed`), so no later page has it again; and that an untouched row
still ahead of the cursor is in a page to come (`UntouchedRowsAreRead`). The
first needs that ids never return: with a deleted id stored anew a row could be
exported twice, a counterexample TLC gives once three changes are allowed.

**Handlers.** CallLifecycleProofs first shows types (`TInv`) together with
`RowsStep`: a step of any handler, of the people, of a crash or of a fault is a
`Store!Next` or leaves the rows alone. So what holds of the statements in any
order holds of the handlers, by citing CallStoreProofs through an instance
(`Safety`), of which only `Init` differs: agents may be registered. This gives
the invariants (`HandlersKeepRowsSafe`), the action properties
(`HandlersKeepOutcomes`) and the ledger (`HandlersImplementLedger`), a refinement
in two levels.
`ReleasedAgentIsOffTheLine` relates rows to channels and is not inductive:
`LineInv` says for each place from which a statement may release the agent (the
drop after its kill, the handler of a playback event, the reconciliation after
its probe) that the agent's channel is gone for good there, and that no
originate can bring it up again. The two columns this rests on, who sets a
release and who stores the agent's channel, are followed through all statements
first. `TransferInv` says that a request transfers only between its claim and
the return of the claim, and that a claim is returned only for a transfer that
was not carried out; so no second request claims a call that was transferred.

**Listener.** `ListenerInv` speaks of the *line*: the events that are done
followed by those that wait. It is increasing and below what is still on the
connection (`OrderInv`); the last event accepted on this connection is the last
one read, because what did not fit closed the connection (`GapInv`); after a
shutdown nothing is left that could request a reconciliation (`ShutdownInv`).

**Tone.** `MediaInv`: an inspection past its first check belongs to a call the
controller knows, a tone that plays is one it knows of unless the tone's own
command got no answer, and after media was seen no inspection passes its first
check again, which the order of the promise chain gives.

**Supervision.** `SupervisorBase` holds whatever fails: what a request knows of
the session and legs it is about, and that a change of mode and a stop hold the
media lock throughout (`LockInv`). `ChannelsInv` holds while nothing went
unanswered: what requests, rows and events that are still to be persisted say
of a leg is true of its channel, and every channel is the leg of a live row.

**Files.** `PcapInv`: requests that wait for the same operation ask for the same
thing, and at most one runs. `FilesInv` adds that a retention run lists only what
is past its period and that a good recording is on disk. `LeftInv` adds, for as
long as there was no mishap, how far the capture's start and stop, the service's
answers and the row have come together (`StartsEnd`, `StopsFollow`,
`PcapHasItsPath`, `Awaited`) unless the capture is a stray one, and that a
recording's row has its path before the file exists. A retention run that dies is
no mishap here: what it leaves is named by its rows. TLC checked each of these
before it was proved.
`LibraryInv`: a request that inserts has its recording to itself, and the row of
any other request's recording says how far the request has come; the default is
unique, and unless a commit's answer was lost its file is there until the
request that deletes the row removes it.

**Back office.** `SettingsInv` relates row, memory, file and Alertmanager at each
step of an update; `AuditInv` says what a served request, its row and its effect
know of each other; `TelemetryInv` and `MonitoringInv` that counts and what the
queries have seen only grow, and that a chain which may still issue queries has
the client; `SupervisorPhoneInv` that the current invitation is a live leg of the
mounted run; `SoftphoneInv` that what a run still holds is let go by where its
`register()` is, or by a stop that has begun. A step of MCBackOffice is a step of
each component or leaves it alone (`PartsStep`), so a behaviour of the
composition is one of each of the fifteen (`PartsRun`), and what is proved of
them holds together (`BackOfficeStaysSafe`).

**Desk.** `DeskIsOwn` and `RefreshNeverGoesBack` are not inductive. `DeskInv`
says what a request under way knows as long as the counters it started with are
the page's (`FetchInv`): hydration is for the session of the cookie, a refresh
or a change of campaign for who is signed in, and the answer of a refresh is no
older than what is shown. Every step that changes one of these moves a counter
the request checks (`RidingStays`). That one answer which is applied makes no
other current answer stale needs that only one refresh is current
(`OneRefresh`), and that a login has no session beside it needs that there is
one login, no user and no hydration that still counts (`OneLogin`). TLC checked `DeskInv` on two users and two
fetches before it was proved.

**Admission.** `LInv` says what each lock stands for: a held row of `contacts`
belongs to the caller who selected it and is not in a call; the campaign is
shared by the callers whose call is inserted, and then no reform is under way.
From this the check for active calls keeps its meaning until the reform commits
(`WhileRowsAreWritten`), which is the property. `SInv` adds to
`ListedNumbersAreNotDialed` that a request not marked as free has its number on
the list; without it a check could let a listed number pass. `AInv` says of the
tokens that were issued, and of those that a login has read and not yet signed,
that none is of a later version than the account, and that one of the account's
own version has its password and its count of deactivations.

**Imports.** That the statements of the chunks compute what the loop over the
rows would is an induction over the rows, without an induction theorem: `Sofar`
is the loop's state after some rows in closed form; it satisfies the loop's
recursion (`LoopContinues`, one case for a number not seen yet and not stored,
one for any other); and another solution would have a first row where it
differs (`LoopEnds`). First and last elements of finite sets of numbers come
from counting (`Extremes`). `ImportsInv` says that an import holds the least of
its numbers, each for itself alone, and writes only when it holds them all.
Hence imports that share a number do not overlap, and of those that wait, the
one for the greatest number waits for one that runs (`SomeImportRuns`).

Only model-checked is liveness: `Settles`, `ListenerRecovers`, `ToneEnds`,
`RecordingsAreJudged`, `AgentsAreShownAsTheyAre`, `DeskRecovers` and
`DirectoryFollowsAccount`. It rests on fairness and so on ENABLED, which is out of
the prover's reach. Every invariant and every safety property of the steps that
a passing run checks is proved.

## Disagreements between code and documents

* `watchdog_voicemail`: `closeMissingOriginateLeg` reads the call, awaits
  `uuid_exists`, and fails the call on what it read. A voicemail drop in
  between makes it fail a call whose agent was released on purpose, which its
  own comment (`dashboard/calls.ts:688`) says must not happen.
* `dropped_means_heard`: a customer who hangs up normally during the playback,
  or before it, is recorded as `voicemail_dropped`, while
  `docs/requirements.md:82` reserves that for successful playback.
* `media_unanswered`: a `uuid_broadcast` that was carried out without an answer
  leaves the fallback believing that no tone plays; the customer's media then
  ends the polling but not the tone, against `docs/environment-configuration.md:87`.
* `supervisor_unmarked`: the job failure of a supervisor's originate that is
  persisted before `originate_job_uuid` is stored finds no session; the session
  stays connecting, against `docs/architecture.md:144` and
  `docs/acceptance-checklist.md:54`.
* `evidence_missing`: suppressing a contact writes no suppression event, and a
  blocked manual dial writes one only if the reason contains the word
  "suppression", against `docs/requirements.md:110` and `docs/architecture.md:196`.
* `desk_stuck`: a change of campaign that is overtaken by another change of the
  desk never clears the flag that holds back every refresh, so the periodic
  fallback of `docs/requirements.md:31` does nothing any more.

## Hazards left open

* `dashboard/calls.ts:1352`: `endDialerCall` kills the legs it read before the
  originate stored their uuids. The channels live on with a completed call until
  the people hang up; no later step of the code could find them.
* `early-media-fallback.ts:173`: a hangup that is lost with the event connection
  leaves the state of the call and its 200 ms poll for as long as the process
  lives. The controller has no other source for the end of a call, so `ToneEnds`
  is stated without loss of events.
* Traffic that never lets the event queue run empty keeps reconciliation waiting
  (`esl-events.ts:138`): events are bounded here, so `ListenerRecovers` says
  nothing about it.
* Row locks across the transactions of a call (`call-finalization.ts:86` locks the
  agent before the call) are taken as one step each; a cycle between two of them
  would be broken by PostgreSQL as in CampaignLeads, and the statement fails as
  in CallLifecycle.
* `pcap-capture.ts:36`: the creation asks for its capture without looking at the
  row. If it stood still while the timer started the capture, the call ended and
  the stop failed, its start begins a capture whose row has failed: tcpdump runs
  on and its file is named by no row. `NothingIsLeftBehind` leaves out these
  captures, and TLC finds the behaviour without that exemption.
* A playback that has just started may be cut off by a reconciliation that read
  the call before (`esl-events.ts:1688`): the call settles with the wrong
  outcome, which nothing documents.

## Not modelled

* Media tickets: one insert and one conditional update; what could be wrong is a
  comparison of clocks or of a random token.
* Detection reviews and the server's media statistics: single upserts of reports
  that nothing else depends on.
* HTTP server, request schemas, configuration, generated documentation: wiring
  around the handlers, which are modelled with their components.
* Administration views and the setup of audio devices: rendering and form state.
* Deployment, backup and monitoring scripts: shell around the system.
* Within modelled parts: columns only reports use, call_events, a missing trunk
  configuration, disabled ESL, the limit of watchdog retries, the start of the
  detection on answer, expiry of tokens, the first administrator and the
  re-encryption of stored secrets, the texts of directory files, capture filters,
  transcoding and byte ranges, the parsing of CSV and the format of numbers.

FreeSWITCH, PostgreSQL, SIP.js, tcpdump and Alertmanager are external: they are
modelled from how this code uses them.

What could be done next: a composition of EventListener with CallLifecycle, in
which the queue's overflow is what loses events; two faults in one call, of
which so far only the safety is known, by proof.
