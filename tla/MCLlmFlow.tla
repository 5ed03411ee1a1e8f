----------------------------- MODULE MCLlmFlow ------------------------------
(* Calls as model values.                                                  *)
EXTENDS LlmFlow

CONSTANTS p, l, g, h

(* FairSpec without ENABLED, which TLC evaluates slowly: Work can be done  *)
(* exactly when a turn is open, changes the state, and is all that happens *)
(* in an open turn but for mishaps.                                        *)
LiveSpec ==
  Spec /\ ([]<>(pc = "off") \/ []<><<pc # "off" /\ mishaps' = mishaps>>_vars)
=============================================================================
