---------------------------- MODULE MCNexonLogin ----------------------------
(* Model values and symmetry for NexonLogin. *)
EXTENDS NexonLogin, TLC

Symmetry == Permutations(Attempts) \cup Permutations(Callbacks) \cup Permutations(Asks)
=============================================================================
