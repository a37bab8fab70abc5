------------------------------ MODULE CallLedger ------------------------------
(***************************************************************************)
(* What the database promises about calls, whatever statements make it up: *)
(* a call is opened for an agent who is on no other, its lead is on no     *)
(* other, it may leave the agent for the background once, it is closed     *)
(* once with a result, and the owner may correct that result once.         *)
(* CallStore is shown to implement this specification.                     *)
(***************************************************************************)
CONSTANTS Calls, Agents, Leads, NoAgent, NoLead, Results

VARIABLE entry

Blank == [phase |-> "none", owner |-> NoAgent, lead |-> NoLead, result |-> "none"]

Open(e)        == e.phase \in {"interactive", "background"}
OnCall(a)      == \E c \in Calls : entry[c].phase = "interactive" /\ entry[c].owner = a
BeingCalled(k) == \E c \in Calls : Open(entry[c]) /\ entry[c].lead = k

Moved(e, phase, result) ==
  [phase |-> phase, owner |-> e.owner, lead |-> e.lead, result |-> result]

Init == entry = [c \in Calls |-> Blank]

Start(c) ==
  /\ entry[c] = Blank
  /\ entry'[c].phase = "interactive" /\ entry'[c].result = "none"
  /\ entry'[c].owner \in Agents /\ ~OnCall(entry'[c].owner)
  /\ entry'[c].lead \in Leads => ~BeingCalled(entry'[c].lead)

Detach(c) ==
  /\ entry[c].phase = "interactive"
  /\ entry'[c] = Moved(entry[c], "background", "none")

Close(c) ==
  /\ Open(entry[c])
  /\ entry'[c].result \in Results
  /\ entry'[c] = Moved(entry[c], "closed", entry'[c].result)

Correct(c) ==
  /\ entry[c].phase = "closed"
  /\ entry'[c].result \in Results
  /\ entry'[c] = Moved(entry[c], "corrected", entry'[c].result)

(* One call moves and the others are left alone.                           *)
Next ==
  \E c \in Calls :
    /\ Start(c) \/ Detach(c) \/ Close(c) \/ Correct(c)
    /\ \A d \in Calls \ {c} : entry'[d] = entry[d]

Spec == Init /\ [][Next]_entry
==============================================================================
