--------------------------- MODULE MCTokenRefresh ---------------------------
(* Small instances of TokenRefresh for TLC. *)
EXTENDS TokenRefresh, TLC

AllRequests == {"import", "relay", "save", "reconcile", "switch", "limits", "delete", "rename"}

Symmetry == Permutations(Accounts) \cup Permutations(Refreshers)
=============================================================================
