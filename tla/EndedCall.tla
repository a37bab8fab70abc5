----------------------------- MODULE EndedCall -----------------------------
(***************************************************************************)
(* What the modules about a call's files share: whether its row is open,   *)
(* ended or deleted, and which of the periods counted from its end are     *)
(* over.  The recording, capture and call periods are separate settings,   *)
(* so they end in any order, all of them after the grace of 5 s.           *)
(***************************************************************************)
EXTENDS Naturals, FiniteSets

CONSTANT MaxMishaps   \* bound: commands without an answer, failed statements,
                      \* processes that die, but for a retention run

ASSUME EndedCallAssumption == MaxMishaps \in Nat

VARIABLES life,       \* the row of calls: open, ended, deleted
          over,       \* the periods after its end that are over
          mishaps     \* how many mishaps there have been

callVars == <<life, over, mishaps>>

Periods == {"recording", "pcap", "call"}

CallIsOver == life = "ended"

EndedCallInit ==
  /\ life = "open"
  /\ over = {}
  /\ mishaps = 0

\* finalizeCallTransaction, as far as files are concerned.
CallEnds == life = "open" /\ life' = "ended" /\ UNCHANGED <<over, mishaps>>

\* ended_at + period <= now() becomes true.
PeriodEnds ==
  /\ CallIsOver
  /\ \E p \in Periods \cup {"grace"} :
       /\ p \notin over
       /\ p # "grace" => "grace" \in over
       /\ over' = over \cup {p}
  /\ UNCHANGED <<life, mishaps>>

Mishap == mishaps < MaxMishaps /\ mishaps' = mishaps + 1
=============================================================================
