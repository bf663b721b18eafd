---------------------------- MODULE MCLoginRelay ----------------------------
(* Small instances of LoginRelay for TLC. *)
EXTENDS LoginRelay, TLC

Symmetry == Permutations(Workers) \cup Permutations(Handlers)
=============================================================================
