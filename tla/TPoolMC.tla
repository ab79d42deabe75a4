------------------------------- MODULE TPoolMC -------------------------------
(* Small instances of the thread-pool server. *)
EXTENDS TPool, TLC

Alike == Permutations(TCBs) \cup Permutations(Workers)
=============================================================================
