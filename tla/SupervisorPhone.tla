-------------------------- MODULE SupervisorPhone --------------------------
(***************************************************************************)
(* The supervisor's phone in the browser, supervisor-softphone.ts.  A      *)
(* change of mode replaces the supervisor's leg: the INVITE of the new leg *)
(* may come before the old dialog ends, and is told apart by the session   *)
(* and mode in its headers.  SIP.js is external, as in Softphone.          *)
(***************************************************************************)
CONSTANTS Mounts,      \* runs of the effect
          LegInvites,  \* INVITEs of supervisor legs
          Monitored,   \* supervisor sessions
          NoLeg

ASSUME SupervisorPhoneAssumption == NoLeg \notin Mounts \cup LegInvites \cup Monitored

VARIABLES mounted,   \* the run for which isCurrent() holds
          handset,   \* run -> where its register() is, and its user agent
          legRef,    \* invitationRef
          legs,      \* INVITE -> its dialog
          legShown   \* runtime: state, callState, mode and sessionId

supervisorPhoneVars == <<mounted, handset, legRef, legs, legShown>>

LegModes == {"listen", "whisper", "join"}
NoLegShown == [call |-> "none", mode |-> "none", session |-> NoLeg]
NotInvited == [run |-> NoLeg, state |-> "unsent", accepting |-> FALSE,
               mode |-> "none", session |-> NoLeg]
LiveLeg(i) == legs[i].state \in {"establishing", "established"}

SupervisorPhoneInit ==
  /\ mounted = NoLeg
  /\ handset = [r \in Mounts |-> [at |-> "unused", agent |-> "none"]]
  /\ legRef = NoLeg
  /\ legs = [i \in LegInvites |-> NotInvited]
  /\ legShown = NoLegShown

EndedLegs(gone) ==
  [i \in LegInvites |-> IF i \in gone THEN [legs[i] EXCEPT !.state = "ended"] ELSE legs[i]]

\* The listener and the catch of accept(): only the current invitation counts.
LegOver(i) ==
  IF legs[i].run = mounted /\ legRef = i
  THEN legRef' = NoLeg /\ legShown' = NoLegShown
  ELSE UNCHANGED <<legRef, legShown>>

-----------------------------------------------------------------------------
(* Registration.                                                           *)

Mount(r) ==
  /\ mounted = NoLeg /\ handset[r].at = "unused"
  /\ mounted' = r
  /\ handset' = [handset EXCEPT ![r].at = "provisioning"]
  /\ legShown' = NoLegShown
  /\ UNCHANGED <<legRef, legs>>

\* The cleanup stops the current leg and the user agent, and with it the rest.
Unmount(r) ==
  /\ mounted = r
  /\ mounted' = NoLeg
  /\ handset' = [handset EXCEPT ![r].agent = IF @ = "running" THEN "stopping" ELSE @]
  /\ legs' = EndedLegs({i \in LegInvites : i = legRef /\ LiveLeg(i)})
  /\ legRef' = NoLeg /\ legShown' = NoLegShown

HandsetStopped(r) ==
  /\ handset[r].agent = "stopping"
  /\ handset' = [handset EXCEPT ![r].agent = "stopped"]
  /\ legs' = EndedLegs({i \in LegInvites : legs[i].run = r /\ LiveLeg(i)})
  /\ UNCHANGED <<mounted, legRef, legShown>>

HandsetProvisioned(r) ==
  /\ handset[r].at = "provisioning"
  /\ handset' = [handset EXCEPT ![r] = IF r = mounted
                                       THEN [at |-> "starting", agent |-> "running"]
                                       ELSE [@ EXCEPT !.at = "over"]]
  /\ UNCHANGED <<mounted, legRef, legs, legShown>>

HandsetStarted(r) ==
  /\ handset[r].at = "starting"
  /\ handset' = [handset EXCEPT ![r].at = IF r = mounted THEN "registering" ELSE "over"]
  /\ UNCHANGED <<mounted, legRef, legs, legShown>>

\* The registerer's news; the answer may come after the 20 s of the timer.
HandsetRegistered(r) ==
  /\ handset[r].at = "registering" /\ r = mounted
  /\ handset' = [handset EXCEPT ![r].at = "registered"]
  /\ UNCHANGED <<mounted, legRef, legs, legShown>>

\* fail: refused, timed out, disconnected.  The page forgets what it shows;
\* the invitation and the user agent stay.
HandsetFails(r) ==
  /\ handset[r].at \in {"provisioning", "starting", "registering", "registered"}
  /\ r = mounted
  /\ handset' = [handset EXCEPT ![r].at = IF @ = "registering" THEN @ ELSE "failed"]
  /\ legShown' = NoLegShown
  /\ UNCHANGED <<mounted, legRef, legs>>

-----------------------------------------------------------------------------
(* Legs.                                                                   *)

\* onInvite: refused for another session than the current leg's.
LegArrives(i, r) ==
  \E session \in Monitored, mode \in LegModes :
    /\ legs[i] = NotInvited
    /\ handset[r].agent = "running" /\ handset[r].at = "registered"
    /\ LET invited == [run |-> r, state |-> "establishing", accepting |-> TRUE,
                       mode |-> mode, session |-> session] IN
       IF r # mounted \/ (legRef # NoLeg /\ legs[legRef].session # session)
       THEN /\ legs' = [legs EXCEPT ![i] = [invited EXCEPT !.state = "ended",
                                                           !.accepting = FALSE]]
            /\ UNCHANGED <<legRef, legShown>>
       ELSE /\ legs' = [legs EXCEPT ![i] = invited]
            /\ legRef' = i
            /\ legShown' = [call |-> "answering", mode |-> mode, session |-> session]
    /\ UNCHANGED <<mounted, handset>>

\* Faulty: a leg that was replaced meanwhile counts.
AnyLegEstablished(i) ==
  /\ legs[i].accepting /\ legs[i].state = "establishing"
  /\ legs' = [legs EXCEPT ![i].accepting = FALSE, ![i].state = "established"]
  /\ legShown' = IF legs[i].run = mounted
                 THEN [legShown EXCEPT !.call = "active"] ELSE legShown
  /\ UNCHANGED <<mounted, handset, legRef>>

LegEstablished(i) ==
  /\ legs[i].accepting /\ legs[i].state = "establishing"
  /\ legs' = [legs EXCEPT ![i].accepting = FALSE, ![i].state = "established"]
  /\ legShown' = IF legs[i].run = mounted /\ legRef = i
                 THEN [legShown EXCEPT !.call = "active"] ELSE legShown
  /\ UNCHANGED <<mounted, handset, legRef>>

LegRefused(i) ==
  /\ legs[i].accepting
  /\ legs' = [legs EXCEPT ![i].accepting = FALSE, ![i].state = "ended"]
  /\ LegOver(i)
  /\ UNCHANGED <<mounted, handset>>

LegEnds(i) ==
  /\ LiveLeg(i)
  /\ legs' = EndedLegs({i})
  /\ LegOver(i)
  /\ UNCHANGED <<mounted, handset>>

SupervisorPhoneNext ==
  \/ \E r \in Mounts :
       \/ Mount(r) \/ Unmount(r) \/ HandsetStopped(r) \/ HandsetProvisioned(r)
       \/ HandsetStarted(r) \/ HandsetRegistered(r) \/ HandsetFails(r)
       \/ \E i \in LegInvites : LegArrives(i, r)
  \/ \E i \in LegInvites : LegEstablished(i) \/ LegRefused(i) \/ LegEnds(i)

SupervisorPhoneSpec == SupervisorPhoneInit /\ [][SupervisorPhoneNext]_supervisorPhoneVars

-----------------------------------------------------------------------------
(* Properties.                                                             *)

\* Types of the variables.
SupervisorPhoneTypeOK ==
  /\ mounted \in Mounts \cup {NoLeg}
  /\ handset \in [Mounts ->
       [at : {"unused", "provisioning", "starting", "registering", "registered",
              "failed", "over"},
        agent : {"none", "running", "stopping", "stopped"}]]
  /\ legRef \in LegInvites \cup {NoLeg}
  /\ legs \in [LegInvites ->
       [run : Mounts \cup {NoLeg},
        state : {"unsent", "establishing", "established", "ended"},
        accepting : BOOLEAN, mode : LegModes \cup {"none"},
        session : Monitored \cup {NoLeg}]]
  /\ legShown \in [call : {"none", "answering", "active"},
                   mode : LegModes \cup {"none"}, session : Monitored \cup {NoLeg}]

\* A supervisor who is shown as heard is heard, in the mode and the session
\* shown, however the INVITE of the new leg, the end of the old one and their
\* late acceptances are interleaved, as long as the phone is registered.
ShownLegIsLive ==
  legShown.call = "active" /\ handset[mounted].at = "registered" =>
    /\ legRef # NoLeg
    /\ legs[legRef].state = "established"
    /\ legs[legRef].mode = legShown.mode /\ legs[legRef].session = legShown.session
=============================================================================
