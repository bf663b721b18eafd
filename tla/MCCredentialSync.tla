-------------------------- MODULE MCCredentialSync --------------------------
(* Small instances of CredentialSync for TLC. *)
EXTENDS CredentialSync, TLC

AnyOwner == Credentials \X Machines \X Agents
=============================================================================
