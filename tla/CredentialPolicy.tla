-------------------------- MODULE CredentialPolicy --------------------------
(***************************************************************************)
(* What the lease broker decides about one row of broker_credentials: its  *)
(* state after a reconciliation, its state after a telemetry report, and   *)
(* whether it may be assigned or kept.  Pure operators on a credential     *)
(* record, the time, and whether an active lease holds the credential.     *)
(*                                                                         *)
(* Left out: revoked_at and cooldown_until (read by the code, but written  *)
(* by no statement of the program, so always NULL), exhausted_at (written, *)
(* never read), and health_score, last_assigned_at and the label, which    *)
(* only order the candidates.                                              *)
(***************************************************************************)
EXTENDS Integers

CONSTANTS
    None,                 \* SQL NULL, an absent key of the metadata
    RotationThreshold,    \* rotation_request_threshold_percent
    MaxAssignable,        \* max_assignable_utilization_percent
    ExhaustedAt,          \* exhausted_utilization_percent
    MinQuota,             \* min_quota_remaining
    ConfirmationRequired, \* weekly_reset_confirmation_required
    JsonColumns           \* metadata columns are read back decoded: JSONB on
                          \* Postgres.  On SQLite they are text, in which
                          \* _reconcile_credential_row finds no flag.

ASSUME PolicyAssumption ==
    /\ None \notin Nat
    /\ {RotationThreshold, MaxAssignable, ExhaustedAt, MinQuota} \subseteq Nat
    /\ {ConfirmationRequired, JsonColumns} \subseteq BOOLEAN

Nullable(S) == S \cup {None}

CredentialState ==
    {"available", "leased", "exhausted", "unavailable_for_assignment", "degraded"}

Credential ==
    [ state     : CredentialState,
      util      : Nullable(Nat),   \* utilization_pct
      quota     : Nullable(Nat),   \* quota_remaining
      weekly    : Nullable(Nat),   \* weekly_reset_at
      due       : Nullable(Nat),   \* reset_confirmation_due_after
      confirmed : Nullable(Nat),   \* reset_confirmed_at
      telemetry : Nullable(Nat),   \* last_telemetry_at
      disabled  : BOOLEAN,         \* metadata.admin_assignment_disabled
      reauth    : BOOLEAN,         \* metadata.reauth_required
      preferred : BOOLEAN ]        \* a preferred email with a usable access token

AtLeast(x, bound) == x # None /\ x >= bound

QuotaLow(quota) == quota # None /\ quota <= MinQuota

\* At or above the assignment threshold, or out of quota.
OverPolicy(util, quota) == AtLeast(util, MaxAssignable) \/ QuotaLow(quota)

Blocked(c) == OverPolicy(c.util, c.quota)

Exhausting(c) == AtLeast(c.util, ExhaustedAt)

\* "due_after or weekly_reset_at"
DueOrWeekly(c) == IF c.due # None THEN c.due ELSE c.weekly

ResetPending(c) == ConfirmationRequired /\ c.due # None

ResetConfirmed(c) == c.confirmed # None /\ c.confirmed >= c.due

-----------------------------------------------------------------------------
(* _reconcile_credential_row                                               *)

\* Mutant of Withheld: the reauth_required flag is not looked at.
WithheldByAdminOnly(c, held) ==
    JsonColumns /\ c.disabled /\ ~(c.preferred /\ ~held)

\* Mutant of Withheld: the administrator's flag is not looked at.
WithheldByReauthOnly(c, held) ==
    JsonColumns /\ c.reauth /\ ~(c.preferred /\ ~held)

\* The administrator or a failed refresh keeps the credential out of the
\* pool; a preferred credential that nobody holds overrides both.
Withheld(c, held) ==
    JsonColumns /\ (c.reauth \/ c.disabled) /\ ~(c.preferred /\ ~held)

\* The state the readings alone call for.
ReadingState(c) ==
    IF Exhausting(c) THEN "exhausted"
    ELSE IF Blocked(c) THEN "unavailable_for_assignment"
    ELSE "available"

\* The reset boundary is still ahead: only the readings count, and good
\* readings cancel the pending confirmation.
BeforeReset(c) ==
    [c EXCEPT !.state = ReadingState(c),
              !.due   = IF ReadingState(c) = "available" THEN None ELSE c.due]

\* A reading taken since the boundary confirms the reset, if none was ever
\* confirmed before.
ConfirmReset(c) ==
    IF c.confirmed = None /\ AtLeast(c.telemetry, c.due) /\ ~Blocked(c)
    THEN [c EXCEPT !.confirmed = c.telemetry]
    ELSE c

\* Mutant of AfterReset: elapsed time alone brings the credential back.
AfterResetByTime(c) ==
    IF ~Blocked(c)
    THEN [c EXCEPT !.state = "available", !.due = None]
    ELSE [c EXCEPT !.state = ReadingState(c)]

\* The boundary has passed: the credential comes back once confirmed.
AfterReset(c) ==
    LET d == ConfirmReset(c) IN
    IF ResetConfirmed(d) /\ ~Blocked(d)
    THEN [d EXCEPT !.state = "available", !.due = None]
    ELSE [d EXCEPT !.state = IF Exhausting(d) THEN "exhausted"
                             ELSE "unavailable_for_assignment"]

\* Mutant of WithoutReset: a state "leased" is believed.
WithoutResetSticky(c) ==
    IF ReadingState(c) # "available"
    THEN [c EXCEPT !.state = ReadingState(c), !.due = DueOrWeekly(c)]
    ELSE [c EXCEPT !.state = IF c.state \in {"degraded", "leased"} THEN c.state
                             ELSE "available"]

\* No reset is pending: bad readings start one, "degraded" sticks.
WithoutReset(c) ==
    IF ReadingState(c) # "available"
    THEN [c EXCEPT !.state = ReadingState(c), !.due = DueOrWeekly(c)]
    ELSE [c EXCEPT !.state = IF c.state = "degraded" THEN "degraded" ELSE "available"]

Judged(c, held, now) ==
    IF Withheld(c, held)
    THEN [c EXCEPT !.state = "unavailable_for_assignment"]
    ELSE IF ~ResetPending(c) THEN WithoutReset(c)
    ELSE IF c.due > now THEN BeforeReset(c)
    ELSE AfterReset(c)

\* A held credential never shows as available, nor as withheld.
Reconcile(c, held, now) ==
    LET d == Judged(c, held, now) IN
    IF held /\ (Withheld(c, held) \/ d.state = "available")
    THEN [d EXCEPT !.state = "leased"]
    ELSE d

-----------------------------------------------------------------------------
(* is_credential_assignable, _credential_is_usable_for_existing_lease: they *)
(* are given the decoded row, on either database.                          *)

\* Mutant of Assignable: the preferred override ignores the state.
AssignableIfPreferred(c) ==
    /\ c.state = "available" \/ c.preferred
    /\ ~Exhausting(c)
    /\ ~Blocked(c)

Assignable(c) ==
    /\ c.disabled => c.preferred
    /\ \/ c.state = "available"
       \/ c.state = "unavailable_for_assignment" /\ c.preferred
    /\ ~Exhausting(c)
    /\ ~Blocked(c)
    /\ ResetPending(c) => ResetConfirmed(c)

UsableForExisting(c) ==
    /\ c.state \notin {"exhausted", "unavailable_for_assignment"}
    /\ ResetPending(c) => ResetConfirmed(c)

BelowRotation(c) == ~AtLeast(c.util, RotationThreshold)

-----------------------------------------------------------------------------
(* _apply_telemetry_to_credential.  r is the report: the effective util    *)
(* and quota, the client's captured time, whether its status is an error,  *)
(* and whether the lease is still in its grace period.                     *)

Exhausts(r) == ~r.grace /\ AtLeast(r.util, ExhaustedAt)

Crowds(r) ==
    /\ ~r.grace
    /\ ~Exhausts(r)
    /\ AtLeast(r.util, RotationThreshold) \/ QuotaLow(r.quota)

ConfirmsReset(c, r) ==
    /\ ~Exhausts(r) /\ ~Crowds(r)
    /\ c.due # None /\ c.weekly # None
    /\ r.captured >= c.due
    /\ ~OverPolicy(r.util, r.quota)

\* Mutant of ReportedState: the lease's new state is written on the credential.
ReportedStateMixed(c, r) ==
    IF Exhausts(r) THEN "exhausted"
    ELSE IF Crowds(r) THEN "rotation_required"
    ELSE c.state

\* The state before the report's health is looked at.
ReportedState(c, r) ==
    IF Exhausts(r) THEN "exhausted"
    ELSE IF Crowds(r)
         THEN IF AtLeast(r.util, MaxAssignable) THEN "unavailable_for_assignment"
              ELSE "leased"
    ELSE IF ConfirmsReset(c, r) THEN "available"
    ELSE c.state

\* Mutant of HealthState: a good report makes the credential available.
HealthStateFreed(state, error) ==
    IF error /\ state = "available" THEN "degraded"
    ELSE IF ~error /\ state \in {"degraded", "leased"} THEN "available"
    ELSE state

\* An error degrades an available credential, a good report restores a
\* degraded one, and whatever is available by now is written as leased.
HealthState(state, error) ==
    IF error /\ state = "available" THEN "degraded"
    ELSE IF state = "available" \/ (~error /\ state = "degraded") THEN "leased"
    ELSE state

ApplyTelemetry(c, r) ==
    [c EXCEPT
        !.state     = HealthState(ReportedState(c, r), r.error),
        !.util      = r.util,
        !.quota     = r.quota,
        !.telemetry = r.captured,
        !.due       = IF Exhausts(r) \/ (Crowds(r) /\ AtLeast(r.util, MaxAssignable))
                      THEN DueOrWeekly(c)
                      ELSE IF ConfirmsReset(c, r) THEN None
                      ELSE c.due,
        !.confirmed = IF ConfirmsReset(c, r) THEN r.captured ELSE c.confirmed]

\* mark_broker_credential_exhausted, the credential's part
Exhausted(c) == [c EXCEPT !.state = "exhausted", !.due = DueOrWeekly(c)]

=============================================================================
