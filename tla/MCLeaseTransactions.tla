------------------------ MODULE MCLeaseTransactions ------------------------
(* Small instances of LeaseTransactions for TLC. *)
EXTENDS LeaseTransactions, TLC

AnyOwner == Credentials \X Machines \X Agents

\* Some order of the credentials by label.
ByLabel == CHOOSE rank \in [Credentials -> 1..Cardinality(Credentials)] :
               \A c, d \in Credentials : rank[c] = rank[d] => c = d

\* What a sync may find out: the credential is exhausted.
BadNews == {[util |-> ExhaustedAt, quota |-> None, reauth |-> FALSE, preferred |-> FALSE]}

EveryOperation ==
    {"acquire", "renew", "materialize", "release", "rotate", "exhaust", "sync",
     "reconcile", "status"}

\* A delivery writes its row in the way a renewal does.
WithoutDelivery == EveryOperation \ {"materialize"}

TxSymmetry ==
    Permutations(Clients) \cup Permutations(Machines) \cup Permutations(LeaseIds)
=============================================================================
