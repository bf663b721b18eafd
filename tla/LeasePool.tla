------------------------------ MODULE LeasePool ------------------------------
(***************************************************************************)
(* What the lease broker promises, without its tables, thresholds and      *)
(* deadlines: credentials are handed out under lease ids, one lease per    *)
(* credential at a time, and a lease that ended is over for good.          *)
(***************************************************************************)
CONSTANTS Credentials, LeaseIds

VARIABLES
    holders,  \* the leases in force on each credential
    issued    \* every lease id handed out so far

vars == <<holders, issued>>

Init ==
    /\ holders = [c \in Credentials |-> {}]
    /\ issued = {}

\* The leases in S are over: released, expired, revoked or rotated.
Remaining(S) == [c \in Credentials |-> holders[c] \ S]

End(S) ==
    /\ holders' = Remaining(S)
    /\ UNCHANGED issued

\* The leases in S are over, and a new one takes c, which none holds now.
Grant(S, c, l) ==
    /\ l \notin issued
    /\ Remaining(S)[c] = {}
    /\ holders' = [Remaining(S) EXCEPT ![c] = {l}]
    /\ issued' = issued \cup {l}

Next ==
    \E S \in SUBSET LeaseIds :
        End(S) \/ \E c \in Credentials, l \in LeaseIds : Grant(S, c, l)

Spec == Init /\ [][Next]_vars

-----------------------------------------------------------------------------

\* No credential is shared.
Exclusive == \A c \in Credentials : \A k, l \in holders[c] : k = l

=============================================================================
