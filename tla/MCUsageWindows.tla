--------------------------- MODULE MCUsageWindows ---------------------------
(* Small instances of UsageWindows for TLC. *)
EXTENDS UsageWindows, TLC
=============================================================================
