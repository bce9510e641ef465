----------------------------- MODULE MCPairing -----------------------------
(* Pairing on small instances for TLC. *)
EXTENDS Pairing, TLC

Symmetric == Permutations(Threads) \cup Permutations(Ids)
============================================================================
