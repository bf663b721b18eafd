---------------------------- MODULE MCLeaseClient ----------------------------
(* Small instances of LeaseClient for TLC. *)
EXTENDS LeaseClient, TLC

AnyOwner == Credentials \X Machines \X Agents

\* The policy prefers one credential.
First == {CHOOSE c \in Credentials : TRUE} \X Machines \X Agents

Quiet == {[util |-> 0, quota |-> None, error |-> FALSE]}
=============================================================================
