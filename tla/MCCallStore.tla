----------------------------- MODULE MCCallStore -----------------------------
(* CallStore on small sets; calls, agents and leads are interchangeable.   *)
EXTENDS CallReports, TLC

CustomerAnswers  == {<<"customer", "answer">>}
AllChannelEvents == LegTypes \X LegEvents
Symmetric == Permutations(Calls) \cup Permutations(Agents) \cup Permutations(Contacts)

(* Bound: at most one of the calls has a detection or a correction.        *)
OneIsMarked == \A c, d \in Calls :
  c # d => ~((call[c].detected \/ call[c].locked) /\ (call[d].detected \/ call[d].locked))
==============================================================================
