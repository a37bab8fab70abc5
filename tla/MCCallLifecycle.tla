--------------------------- MODULE MCCallLifecycle ---------------------------
(* CallLifecycle on one call; voicemail requests are interchangeable.      *)
EXTENDS CallLifecycle, TLC

Symmetric == Permutations(Requests)
==============================================================================
