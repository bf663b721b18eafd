---------------------------- MODULE MCLeaseBroker ----------------------------
(* Small instances of LeaseBroker for TLC. *)
EXTENDS LeaseBroker, TLC

\* Percentages are scaled down: 0 is low, 1 reaches the rotation threshold,
\* 2 the assignment threshold, 3 is exhausted.
AnyOwner == Credentials \X Machines \X Agents

\* Every owner is pinned to one credential, one agent without a fallback.
Pinned == {CHOOSE c \in Credentials : TRUE} \X Machines \X Agents
StrictAgent == Machines \X {CHOOSE a \in Agents : TRUE}

LowReading == [util |-> 0, quota |-> None, reauth |-> FALSE, preferred |-> FALSE]

UtilReports ==
    {[util |-> u, quota |-> None, error |-> FALSE] : u \in 0..3}

CrowdReadings == {[LowReading EXCEPT !.util = u] : u \in {0, 1}}

\* Every combination of the flags at low usage, and one empty quota.
FlagReadings ==
    {[LowReading EXCEPT !.reauth = r, !.preferred = p] : r, p \in BOOLEAN}
    \cup {[LowReading EXCEPT !.quota = 0, !.preferred = TRUE]}

\* The flags, and exhaustion.
MixedReadings == FlagReadings \cup {[LowReading EXCEPT !.util = 3]}

StrainReports == {[util |-> u, quota |-> None, error |-> FALSE] : u \in {0, 1, 3}}

HealthReports == StrainReports \cup {[util |-> 0, quota |-> None, error |-> TRUE]}

LeaseSymmetry == Permutations(LeaseIds)

Symmetry ==
    Permutations(Credentials) \cup Permutations(Machines) \cup Permutations(LeaseIds)
=============================================================================
