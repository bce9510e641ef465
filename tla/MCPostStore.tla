---------------------------- MODULE MCPostStore ----------------------------
(* PostStore on small instances for TLC. *)
EXTENDS PostStore, TLC

Symmetric == Permutations(Threads)
============================================================================
