----------------------------- MODULE Softphone -----------------------------
(***************************************************************************)
(* The agent's phone in the browser, apps/web/src/softphone.ts: the effect *)
(* that registers it, once for every user, microphone and profile, and the *)
(* calls FreeSWITCH sends to it.  Everything between two awaits is one     *)
(* step.  What is heard (audio element, ringback, telemetry) is left out.  *)
(*                                                                         *)
(* SIP.js is external: a dialog ends in the step that says so, telling its *)
(* listener; a user agent that stops ends its dialogs; accepting takes     *)
(* time and fails, once the microphone is ready, if the call is gone.      *)
(***************************************************************************)
CONSTANTS Effects,      \* runs of the registration effect
          Invitations,  \* INVITEs FreeSWITCH sends
          NoPhone       \* no run, no invitation

ASSUME SoftphoneAssumption == NoPhone \notin Effects \cup Invitations

VARIABLES current,     \* the run for which isCurrent() holds
          phone,       \* run -> what it holds and where it is
          invitation,  \* invitationRef
          ring,        \* invitation -> its dialog
          phoneShows   \* runtime.state and runtime.callState

phoneVars == <<current, phone, invitation, ring, phoneShows>>

NotRun == [at |-> "unused", mic |-> FALSE, agent |-> "none",
           registerer |-> "none", cleaned |-> FALSE, timer |-> FALSE]
NotSent == [run |-> NoPhone, state |-> "unsent", accepting |-> FALSE]

InDialog == {"establishing", "established"}

SoftphoneInit ==
  /\ current = NoPhone
  /\ phone = [r \in Effects |-> NotRun]
  /\ invitation = NoPhone
  /\ ring = [i \in Invitations |-> NotSent]
  /\ phoneShows = [state |-> "idle", call |-> "none"]

-----------------------------------------------------------------------------
(* Pieces of the handlers.                                                 *)

Showing(state, call) == phoneShows' = [state |-> state, call |-> call]

Reaches(r, place) == phone' = [phone EXCEPT ![r].at = place]

\* stopCurrentRegistration: unregister and stop begin, once.
StopBegun(p) ==
  IF p.cleaned THEN p
  ELSE [p EXCEPT !.cleaned = TRUE, !.timer = FALSE, !.registerer = "none",
                 !.agent = IF p.agent = "none" THEN "none" ELSE "stopping"]

\* The end of register() for a run that is no longer current: what it still
\* holds is stopped.
Abandoned(p) ==
  [p EXCEPT !.at = "over", !.mic = FALSE,
            !.agent = IF p.registerer = "held" THEN "stopping" ELSE @]

Hung(rings, gone) ==
  [i \in Invitations |-> IF i \in gone THEN [rings[i] EXCEPT !.state = "ended"]
                                       ELSE rings[i]]

\* The Terminated listener of the dialogs in gone, all of run r.
Ended(r, gone) ==
  /\ ring' = Hung(ring, gone)
  /\ IF r = current /\ gone # {}
     THEN /\ invitation' = NoPhone
          /\ Showing(phoneShows.state, "none")
     ELSE UNCHANGED <<invitation, phoneShows>>

\* failRegistration; late news of a run that is over changes nothing, and a
\* screen that already tells of an error may keep it as it is.
FailRegistration(r) ==
  /\ IF r = current
     THEN /\ phone' = [phone EXCEPT ![r] = StopBegun(phone[r])]
          /\ invitation' = NoPhone
          /\ \/ Showing("failed", "none")
             \/ phoneShows.state = "failed" /\ UNCHANGED phoneShows
     ELSE UNCHANGED <<phone, invitation, phoneShows>>
  /\ UNCHANGED <<current, ring>>

\* The catch of register(); for the current run the microphone stays as it is.
Caught(r) ==
  /\ IF r = current
     THEN /\ phone' = [phone EXCEPT ![r] = [StopBegun(phone[r]) EXCEPT !.at = "over"]]
          /\ Showing("failed", "none")
     ELSE /\ phone' = [phone EXCEPT ![r] = Abandoned(phone[r])]
          /\ UNCHANGED phoneShows
  /\ UNCHANGED <<current, invitation, ring>>

-----------------------------------------------------------------------------
(* The effect: register() up to each of its awaits, and the cleanup.       *)

EffectRuns(r) ==
  /\ current = NoPhone /\ phone[r].at = "unused"
  /\ current' = r
  /\ Reaches(r, "microphone")
  /\ Showing("requesting_microphone", "none")
  /\ UNCHANGED <<invitation, ring>>

\* Signed out, another user, another microphone or profile.
EffectCleanup(r) ==
  /\ current = r
  /\ current' = NoPhone
  /\ ring' = Hung(ring, IF invitation # NoPhone /\ ring[invitation].state \in InDialog
                        THEN {invitation} ELSE {})
  /\ invitation' = NoPhone
  /\ phone' = [phone EXCEPT ![r] = [StopBegun(phone[r]) EXCEPT !.mic = FALSE]]
  /\ Showing("idle", "none")

MicrophoneOpens(r) ==
  /\ phone[r].at = "microphone"
  /\ phone' = [phone EXCEPT ![r].at = "devices", ![r].mic = TRUE]
  /\ UNCHANGED <<current, invitation, ring, phoneShows>>

DevicesListed(r) ==
  /\ phone[r].at = "devices"
  /\ phone' = [phone EXCEPT ![r].mic = FALSE,
                 ![r].at = IF r = current THEN "provisioning" ELSE "over"]
  /\ IF r = current THEN Showing("registering", "none") ELSE UNCHANGED phoneShows
  /\ UNCHANGED <<current, invitation, ring>>

Provisioned(r) ==
  /\ phone[r].at = "provisioning"
  /\ phone' = [phone EXCEPT ![r] =
       IF r = current THEN [@ EXCEPT !.at = "starting", !.agent = "running",
                                     !.registerer = "held"]
                      ELSE [@ EXCEPT !.at = "over"]]
  /\ UNCHANGED <<current, invitation, ring, phoneShows>>

\* The user agent is connected: register, if the registerer is still there.
AgentStarted(r) ==
  /\ phone[r].at = "starting"
  /\ \/ /\ r # current
        /\ phone' = [phone EXCEPT ![r] = Abandoned(phone[r])]
        /\ UNCHANGED <<current, invitation, ring, phoneShows>>
     \/ /\ r = current /\ phone[r].registerer = "held"
        /\ phone' = [phone EXCEPT ![r].at = "registering", ![r].timer = TRUE]
        /\ UNCHANGED <<current, invitation, ring, phoneShows>>
     \/ r = current /\ phone[r].registerer = "none" /\ Caught(r)

RegisterSent(r) ==
  /\ phone[r].at = "registering"
  /\ phone' = [phone EXCEPT ![r] = IF r = current THEN [@ EXCEPT !.at = "over"]
                                                  ELSE Abandoned(@)]
  /\ IF r = current /\ ~phone[r].cleaned /\ phoneShows.state # "registered"
     THEN Showing("registering", phoneShows.call) ELSE UNCHANGED phoneShows
  /\ UNCHANGED <<current, invitation, ring>>

\* Any of the awaits of register() throws.
RegisterThrows(r) ==
  /\ phone[r].at \in {"microphone", "devices", "provisioning", "starting", "registering"}
  /\ Caught(r)

\* The registerer's, the transport's and the timer's news.
Registered(r) ==
  /\ phone[r].agent \in {"running", "stopping"} /\ phone[r].at \in {"registering", "over"}
  /\ r = current
  /\ phone' = [phone EXCEPT ![r].timer = FALSE]
  /\ Showing("registered", phoneShows.call)
  /\ UNCHANGED <<current, invitation, ring>>

RegistrationLost(r) ==
  /\ \/ phone[r].agent \in {"running", "stopping"}
     \/ phone[r].timer
  /\ FailRegistration(r)

AgentStopped(r) ==
  /\ phone[r].agent = "stopping"
  /\ phone' = [phone EXCEPT ![r].agent = "stopped"]
  /\ Ended(r, {i \in Invitations : ring[i].run = r /\ ring[i].state \in InDialog})
  /\ UNCHANGED current

-----------------------------------------------------------------------------
(* Calls.                                                                  *)

\* onInvite: accepted at once unless there is a current invitation.
OnInvite(i, r) ==
  /\ ring[i] = NotSent /\ phone[r].agent \in {"running", "stopping"}
  /\ phone[r].at \in {"registering", "over"}
  /\ IF r # current \/ invitation # NoPhone
     THEN /\ ring' = [ring EXCEPT ![i] = [NotSent EXCEPT !.run = r, !.state = "ended"]]
          /\ UNCHANGED <<invitation, phoneShows>>
     ELSE /\ ring' = [ring EXCEPT ![i] = [run |-> r, state |-> "establishing",
                                         accepting |-> TRUE]]
          /\ invitation' = i
          /\ Showing(phoneShows.state, "answering")
  /\ UNCHANGED <<current, phone>>

\* accept() has succeeded; a run that is no longer current hangs up.
Accepted(i) ==
  LET r == ring[i].run IN
  /\ ring[i].accepting /\ ring[i].state = "establishing"
  /\ ring' = [ring EXCEPT ![i].accepting = FALSE,
                ![i].state = IF r = current THEN "established" ELSE "ended"]
  /\ IF r = current THEN Showing(phoneShows.state, "active") ELSE UNCHANGED phoneShows
  /\ UNCHANGED <<current, phone, invitation>>

\* accept() has thrown: the microphone, or the call was gone by then.
RefusedLate(i) ==
  LET r == ring[i].run IN
  /\ ring[i].accepting
  /\ ring' = [ring EXCEPT ![i].accepting = FALSE, ![i].state = "ended"]
  /\ IF r = current
     THEN /\ invitation' = NoPhone
          /\ Showing(phoneShows.state, "none")
     ELSE UNCHANGED <<invitation, phoneShows>>
  /\ UNCHANGED <<current, phone>>

\* The other side cancels or hangs up.
RemoteEnds(i) ==
  /\ ring[i].state \in InDialog
  /\ Ended(ring[i].run, {i})
  /\ UNCHANGED <<current, phone>>

\* hangUpSoftphoneCall.
HangUpPhone ==
  /\ invitation # NoPhone
  /\ ring' = Hung(ring, {invitation})
  /\ invitation' = NoPhone
  /\ Showing(phoneShows.state, "none")
  /\ UNCHANGED <<current, phone>>

SoftphoneNext ==
  \/ \E r \in Effects :
       \/ EffectRuns(r) \/ EffectCleanup(r)
       \/ MicrophoneOpens(r) \/ DevicesListed(r) \/ Provisioned(r)
       \/ AgentStarted(r) \/ RegisterSent(r) \/ RegisterThrows(r)
       \/ Registered(r) \/ RegistrationLost(r) \/ AgentStopped(r)
       \/ \E i \in Invitations : OnInvite(i, r)
  \/ \E i \in Invitations : Accepted(i) \/ RefusedLate(i) \/ RemoteEnds(i)
  \/ HangUpPhone

SoftphoneSpec == SoftphoneInit /\ [][SoftphoneNext]_phoneVars

-----------------------------------------------------------------------------
(* Properties.                                                             *)

\* Types of the variables.
SoftphoneTypeOK ==
  /\ current \in Effects \cup {NoPhone}
  /\ phone \in [Effects ->
       [at : {"unused", "microphone", "devices", "provisioning", "starting",
              "registering", "over"},
        mic : BOOLEAN, agent : {"none", "running", "stopping", "stopped"},
        registerer : {"none", "held"}, cleaned : BOOLEAN, timer : BOOLEAN]]
  /\ invitation \in Invitations \cup {NoPhone}
  /\ ring \in [Invitations ->
       [run : Effects \cup {NoPhone},
        state : {"unsent", "establishing", "established", "ended"},
        accepting : BOOLEAN]]
  /\ phoneShows \in
       [state : {"idle", "requesting_microphone", "registering", "registered", "failed"},
        call : {"none", "answering", "active"}]

\* Once register() of an abandoned run has come to its end, wherever it was
\* when the effect was cleaned up, and its stops have returned, nothing of
\* the run is left: no open microphone, no user agent, no call, no timer.
AbandonedPhoneIsStopped ==
  \A r \in Effects :
    r # current /\ phone[r].at \in {"unused", "over"} /\ phone[r].agent # "stopping"
    => /\ ~phone[r].mic /\ ~phone[r].timer
       /\ phone[r].agent # "running"
       /\ \A i \in Invitations : ring[i].run = r => ring[i].state = "ended"
=============================================================================
