--------------------------- MODULE MCPrivacyFlip ---------------------------
(* PrivacyFlip on small instances for TLC. *)
EXTENDS PrivacyFlip, TLC

Symmetric == Permutations(Threads)
============================================================================
