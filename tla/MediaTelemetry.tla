--------------------------- MODULE MediaTelemetry ---------------------------
(***************************************************************************)
(* The WebRTC summaries of one call: a collector in the browser samples    *)
(* its peer connection, uploads every few samples and once more at the end *)
(* (softphone.ts, browser-media.ts of the web application), and the API    *)
(* keeps one row for the call (dashboard/browser-media.ts).  Uploads may   *)
(* be lost and overtake each other; a reload of the page, or a replacement *)
(* of the invitation, starts another collector, which counts from nothing. *)
(* A summary is its collector and the number of samples in it.             *)
(***************************************************************************)
EXTENDS Naturals

CONSTANTS Collectors, NoCollector,
          UploadEvery,  \* mediaTelemetryUploadEverySamples: 6
          MaxSamples    \* bound on the samples of a collector

ASSUME TelemetryAssumption == /\ NoCollector \notin Collectors
                              /\ UploadEvery \in Nat \ {0} /\ MaxSamples \in Nat

VARIABLES active,     \* browserMediaTelemetryRef
          collector,  \* each with its sample in flight and who waits for it
          uploads,    \* requests on their way
          summary,    \* the row of call_browser_media_stats
          delivered   \* summaries that were answered
telemetryVars == <<active, collector, uploads, summary, delivered>>

NoSummary == [from |-> NoCollector, count |-> 0]

TelemetryInit ==
  /\ active = NoCollector
  /\ collector = [d \in Collectors |-> [used |-> FALSE, inFlight |-> FALSE, waiting |-> {}, count |-> 0]]
  /\ uploads = {} /\ summary = NoSummary /\ delivered = {}

-----------------------------------------------------------------------------
(* The browser.                                                            *)

\* collector.sample(), which everybody shares who asks for one meanwhile.
Sampling(cs, d, who) == [cs EXCEPT ![d].inFlight = TRUE, ![d].waiting = @ \cup {who}]

\* finalizeBrowserMediaTelemetry.
Finalized(cs) == IF active = NoCollector THEN cs ELSE Sampling(cs, active, "final")

\* startBrowserMediaTelemetry takes the first sample at once.
StartCollector(d) ==
  /\ ~collector[d].used
  /\ collector' = Sampling([Finalized(collector) EXCEPT ![d].used = TRUE], d, "interval")
  /\ active' = d
  /\ UNCHANGED <<uploads, summary, delivered>>

\* The interval, unless its last sample is still in flight.
IntervalSamples ==
  /\ active # NoCollector /\ "interval" \notin collector[active].waiting
  /\ collector[active].count < MaxSamples
  /\ collector' = Sampling(collector, active, "interval")
  /\ UNCHANGED <<active, uploads, summary, delivered>>

\* The session terminates or the softphone goes away.
FinalizeTelemetry ==
  /\ active # NoCollector
  /\ collector' = Finalized(collector) /\ active' = NoCollector
  /\ UNCHANGED <<uploads, summary, delivered>>

\* getStats resolves, or is rejected: then only the last summary is sent.
SampleEnds(d) ==
  /\ collector[d].inFlight
  /\ \E ok \in {TRUE, FALSE} :
       LET count == collector[d].count + IF ok THEN 1 ELSE 0
           sent  == \/ "final" \in collector[d].waiting
                    \/ ok /\ "interval" \in collector[d].waiting /\ count % UploadEvery = 0
       IN /\ count <= MaxSamples + 1
          /\ collector' = [collector EXCEPT ![d].inFlight = FALSE, ![d].waiting = {}, ![d].count = count]
          /\ uploads' = IF sent /\ count > 0 THEN uploads \cup {[from |-> d, count |-> count]} ELSE uploads
  /\ UNCHANGED <<active, summary, delivered>>

\* The page is reloaded or closed; requests it sent may still arrive.
PageGoes ==
  /\ active # NoCollector
  /\ active' = NoCollector
  /\ collector' = [d \in Collectors |-> [collector[d] EXCEPT !.inFlight = FALSE, !.waiting = {}]]
  /\ UNCHANGED <<uploads, summary, delivered>>

UploadLost(u) == uploads' = uploads \ {u} /\ UNCHANGED <<active, collector, summary, delivered>>

-----------------------------------------------------------------------------
(* upsertBrowserMediaTelemetry, of the agent who owns the call.            *)

\* Faulty: the conflict always replaces the row.
UpsertAlways(u) ==
  /\ summary' = u /\ uploads' = uploads \ {u} /\ delivered' = delivered \cup {u}
  /\ UNCHANGED <<active, collector>>

Upsert(u) ==
  /\ summary' = IF u.count >= summary.count THEN u ELSE summary
  /\ uploads' = uploads \ {u} /\ delivered' = delivered \cup {u}
  /\ UNCHANGED <<active, collector>>

TelemetryNext ==
  \/ \E d \in Collectors : StartCollector(d) \/ SampleEnds(d)
  \/ IntervalSamples \/ FinalizeTelemetry \/ PageGoes
  \/ \E u \in uploads : UploadLost(u) \/ Upsert(u)

TelemetrySpec == TelemetryInit /\ [][TelemetryNext]_telemetryVars

-----------------------------------------------------------------------------
(* Properties.                                                             *)

Summaries == [from : Collectors, count : 1..(MaxSamples + 1)]

TelemetryTypeOK ==
  /\ active \in Collectors \cup {NoCollector}
  /\ \A d \in Collectors : /\ collector[d].count \in 0..(MaxSamples + 1)
                           /\ collector[d].inFlight = (collector[d].waiting # {})
  /\ uploads \cup delivered \subseteq Summaries /\ summary \in Summaries \cup {NoSummary}

\* However uploads overtake each other, the row holds a summary at least as
\* long as every one that was answered: the short one of a periodic upload
\* does not replace the last one of the call, nor does that of a collector
\* that had to start again.
LongestSummaryStays == \A u \in delivered : u.count <= summary.count
=============================================================================
