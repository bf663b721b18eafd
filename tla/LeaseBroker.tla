----------------------------- MODULE LeaseBroker -----------------------------
(***************************************************************************)
(* The lease broker (app/lease_broker_store.py) when its transactions are  *)
(* serialised: on SQLite, where BEGIN IMMEDIATE takes the write lock, each *)
(* one is a single step; on Postgres, as long as none overlap.  One action *)
(* per broker operation, with everything the operation writes, on its      *)
(* successful path and on those denials that still write.  A denial that   *)
(* writes nothing (not owned, wrong state, unusable credential) is a       *)
(* stuttering step and has no action.  The calls that run in autocommit    *)
(* (the status read, the reconcile task) are single steps here as well;    *)
(* LeaseTransactions splits them, and the transactions.                    *)
(*                                                                         *)
(* The caller of an owner-checked operation is the lease's owner: any      *)
(* other caller is denied before anything is written.                      *)
(***************************************************************************)
EXTENDS CredentialPolicy, FiniteSets

CONSTANTS
    Credentials, Machines, Agents,
    LeaseIds,      \* ids that secrets.token_urlsafe may return
    Allowed,       \* <<c, m, a>>: metadata and assignment policy allow it
    Preferred,     \* <<c, m, a>>: the owner's assignment policy prefers c
    NoFallback,    \* <<m, a>>: that policy allows no other credential
    TTLs,          \* lease durations a client may ask for
    DefaultTTL,    \* lease_default_ttl_seconds
    ReclaimAfter,  \* lease_reclaim_after_seconds
    Grace,         \* telemetry_rotation_grace_seconds
    Reports,       \* what a telemetry report may say
    Readings,      \* what a sync may learn from the saved profile
    ResetTimes,    \* when usage limits reset
    AdminFlags,    \* what the administrator sets "assignment disabled" to
    ReadingLag,    \* bound: how old a reading may be when it arrives
    ClockAhead,    \* bound: how far a client's clock may be ahead
    MaxTime        \* bound: the last instant

Report == [util : Nullable(Nat), quota : Nullable(Nat), error : BOOLEAN]
Reading == [util : Nullable(Nat), quota : Nullable(Nat),
            reauth : BOOLEAN, preferred : BOOLEAN]

ASSUME BrokerAssumption ==
    /\ {Allowed, Preferred} \subseteq SUBSET (Credentials \X Machines \X Agents)
    /\ NoFallback \subseteq Machines \X Agents
    /\ TTLs \subseteq Nat \ {0} /\ DefaultTTL \in Nat \ {0}
    /\ ReclaimAfter \in Nat \ {0}
    /\ {Grace, ReadingLag, ClockAhead, MaxTime} \subseteq Nat
    /\ Reports \subseteq Report /\ Readings \subseteq Reading
    /\ ResetTimes \subseteq Nat /\ AdminFlags \subseteq BOOLEAN

VARIABLES
    cred,   \* broker_credentials
    lease,  \* broker_leases
    now     \* the clock

vars == <<cred, lease, now>>

ActiveStates == {"active", "rotation_required"}
EndStates == {"released", "expired", "revoked"}

\* A row that was never inserted.
NoLease ==
    [ state |-> "none", cred |-> None, machine |-> None, agent |-> None,
      issued |-> None, expires |-> None, seen |-> None, first |-> None,
      replacement |-> None ]

IssuedLease ==
    [ state    : ActiveStates \cup EndStates,
      cred     : Credentials,
      machine  : Machines,
      agent    : Agents,
      issued   : Nat,
      expires  : Nat,
      seen     : Nat,             \* last_seen_at
      first    : Nullable(Nat),   \* metadata.first_materialized_at
      replacement : Nullable(LeaseIds) ]

Lease == IssuedLease \cup {NoLease}

NewLease(c, m, a, ttl) ==
    [ state |-> "active", cred |-> c, machine |-> m, agent |-> a,
      issued |-> now, expires |-> now + ttl, seen |-> now, first |-> None,
      replacement |-> None ]

TypeOK ==
    /\ cred \in [Credentials -> Credential]
    /\ lease \in [LeaseIds -> Lease]
    /\ now \in Nat

\* A row as its first sync inserts it, before any reading is known.
NewCredential ==
    [ state |-> "available", util |-> None, quota |-> None, weekly |-> None,
      due |-> None, confirmed |-> None, telemetry |-> None,
      disabled |-> FALSE, reauth |-> FALSE, preferred |-> FALSE ]

Init ==
    /\ cred = [c \in Credentials |-> NewCredential]
    /\ lease = [l \in LeaseIds |-> NoLease]
    /\ now = 0

-----------------------------------------------------------------------------
(* The lease table ls and the credential table cs during a transaction.    *)

ActiveIn(ls, l) == ls[l].state \in ActiveStates

\* Mutant of HeldIn: a lease that asks for rotation does not count.
HeldUnlessRotating(ls, c) == \E l \in LeaseIds : ls[l].state = "active" /\ ls[l].cred = c

HeldIn(ls, c) == \E l \in LeaseIds : ActiveIn(ls, l) /\ ls[l].cred = c

\* Mutants of Overdue: one of its two conditions is forgotten.
OverdueBySilence(l) == ActiveIn(lease, l) /\ now - lease[l].seen >= ReclaimAfter
OverdueByDeadline(l) == ActiveIn(lease, l) /\ lease[l].expires <= now

Overdue(l) ==
    /\ ActiveIn(lease, l)
    /\ lease[l].expires <= now \/ now - lease[l].seen >= ReclaimAfter

OverdueLeases == {l \in LeaseIds : Overdue(l)}

\* _expire_lease_if_needed on the leases S.
LeasesExpired(S) ==
    [l \in LeaseIds |-> IF l \in S THEN [lease[l] EXCEPT !.state = "expired"]
                        ELSE lease[l]]

CredsExpired(S) ==
    [c \in Credentials |-> IF \E l \in S : lease[l].cred = c
                           THEN Reconcile(cred[c], FALSE, now)
                           ELSE cred[c]]

Expire(S) ==
    /\ lease' = LeasesExpired(S)
    /\ cred' = CredsExpired(S)
    /\ UNCHANGED now

\* Mutant of Revoked: the leases of the past are revoked, too.
RevokedAll(ls, c) ==
    [l \in LeaseIds |-> IF ls[l].cred = c THEN [ls[l] EXCEPT !.state = "revoked"]
                        ELSE ls[l]]

\* _revoke_active_leases_for_credential
Revoked(ls, c) ==
    [l \in LeaseIds |-> IF ActiveIn(ls, l) /\ ls[l].cred = c
                        THEN [ls[l] EXCEPT !.state = "revoked"]
                        ELSE ls[l]]

\* _select_best_eligible_credential reconciles every row it looks at, then
\* picks among the candidates; how it ranks them is left open.
AllReconciled(cs, ls) ==
    [c \in Credentials |-> Reconcile(cs[c], HeldIn(ls, c), now)]

Eligible(cs, m, a, exclude) ==
    {c \in Credentials \ exclude : Assignable(cs[c]) /\ <<c, m, a>> \in Allowed}

BelowRotationIn(cs, C) == {c \in C : BelowRotation(cs[c])}

\* Among C, those the owner's policy prefers; else any, if it has a fallback.
Narrowed(C, m, a) ==
    LET preferred == {c \in C : <<c, m, a>> \in Preferred}
    IN  IF preferred = {} /\ <<m, a>> \notin NoFallback THEN C ELSE preferred

\* A client that starts prefers a credential below the rotation threshold, a
\* client that rotates insists on one.
AcquireCandidates(cs, m, a, exclude) ==
    LET elig == Eligible(cs, m, a, exclude)
        below == BelowRotationIn(cs, elig)
    IN  Narrowed(IF below # {} THEN below ELSE elig, m, a)

RotateCandidates(cs, m, a, old) ==
    Narrowed(BelowRotationIn(cs, Eligible(cs, m, a, {old})), m, a)

\* The machine's active leases that acquire may hand out again.
Reusable(cs, ls, m) ==
    {l \in LeaseIds : ActiveIn(ls, l) /\ ls[l].machine = m
                      /\ UsableForExisting(cs[ls[l].cred])}

FreeIds == {l \in LeaseIds : lease[l].state = "none"}

-----------------------------------------------------------------------------
(* The operations of a client                                              *)

\* acquire_broker_lease finds a usable lease of the machine, of any agent.
AcquireReuse(m) ==
    LET ls == LeasesExpired(OverdueLeases)
        cs == CredsExpired(OverdueLeases)
    IN  \E l \in Reusable(cs, ls, m) :
          /\ lease' = [ls EXCEPT ![l].seen = now]
          /\ cred' = cs
          /\ UNCHANGED now

\* acquire_broker_lease assigns a credential, or is denied after the overdue
\* leases were expired and every credential reconciled.
AcquireNew(m, a, ttl, exclude) ==
    LET ls == LeasesExpired(OverdueLeases)
        cs == AllReconciled(CredsExpired(OverdueLeases), ls)
        candidates == AcquireCandidates(cs, m, a, exclude)
    IN  /\ Reusable(CredsExpired(OverdueLeases), ls, m) = {}
        /\ \/ /\ candidates = {}
              /\ lease' = ls
              /\ cred' = cs
           \/ \E c \in candidates, l \in FreeIds :
                /\ lease' = [ls EXCEPT ![l] = NewLease(c, m, a, ttl)]
                /\ cred' = [cs EXCEPT ![c].state = "leased"]
        /\ UNCHANGED now

\* renew, materialize and the status read expire an overdue lease first, and
\* then find that it is no longer active.
ExpireOnAccess(l) == Overdue(l) /\ Expire({l})

\* renew_broker_lease
Renew(l) ==
    \/ ExpireOnAccess(l)
    \/ /\ lease[l].state = "active" /\ ~Overdue(l)
       /\ UsableForExisting(cred[lease[l].cred])
       /\ lease' = [lease EXCEPT ![l].expires = now + DefaultTTL, ![l].seen = now]
       /\ UNCHANGED <<cred, now>>

\* When auth material was first delivered under l, as far as the row tells.
FirstDelivery(l) == IF JsonColumns THEN lease[l].first ELSE None

\* materialize_broker_lease
Materialize(l) ==
    \/ ExpireOnAccess(l)
    \/ /\ ActiveIn(lease, l) /\ ~Overdue(l)
       /\ UsableForExisting(cred[lease[l].cred])
       /\ lease' = [lease EXCEPT
                      ![l].seen = now,
                      ![l].first = IF FirstDelivery(l) = None THEN now
                                   ELSE FirstDelivery(l)]
       /\ UNCHANGED <<cred, now>>

\* get_broker_lease_status, by any caller, counts as a sign of life.
ReadStatus(l) ==
    \/ ExpireOnAccess(l)
    \/ /\ ActiveIn(lease, l) /\ ~Overdue(l)
       /\ lease' = [lease EXCEPT ![l].seen = now]
       /\ UNCHANGED <<cred, now>>

\* release_broker_lease
Release(l) ==
    LET c == lease[l].cred IN
    /\ ActiveIn(lease, l)
    /\ lease' = [lease EXCEPT ![l].state = "released"]
    /\ cred' = [cred EXCEPT ![c] = Reconcile(cred[c], FALSE, now)]
    /\ UNCHANGED now

\* rotate_broker_lease: denied after the candidates were reconciled, or the
\* old lease is released in favour of a new one on another credential.
Rotate(l) ==
    LET old == lease[l].cred
        m == lease[l].machine
        a == lease[l].agent
        cs == AllReconciled(cred, lease)
        candidates == RotateCandidates(cs, m, a, old)
    IN  /\ ActiveIn(lease, l)
        /\ \/ /\ candidates = {}
              /\ cred' = cs
              /\ UNCHANGED lease
           \/ \E c \in candidates, new \in FreeIds :
                /\ lease' = [lease EXCEPT ![new] = NewLease(c, m, a, DefaultTTL),
                                          ![l].state = "released",
                                          ![l].replacement = new]
                /\ cred' = [cs EXCEPT ![c].state = "leased",
                                      ![old] = Reconcile(cs[old], FALSE, now)]
        /\ UNCHANGED now

\* What record_broker_lease_telemetry makes of a client's report: the
\* credential's own readings, once it has any, replace the reported ones.
Effective(l, captured, report) ==
    LET c == cred[lease[l].cred]
        source == IF c.util # None \/ c.quota # None THEN c ELSE report
        anchor == IF FirstDelivery(l) # None THEN FirstDelivery(l) ELSE lease[l].issued
    IN  [ captured |-> captured, error |-> report.error,
          util |-> source.util, quota |-> source.quota,
          grace |-> Grace > 0 /\ captured <= anchor + Grace ]

\* Mutant of Noted: an ended lease asks for rotation, too.
NotedAlways(l, r) ==
    [lease EXCEPT
        ![l].seen = r.captured,
        ![l].state = IF Crowds(r) THEN "rotation_required" ELSE lease[l].state]

\* A crowded lease asks for rotation, unless it already ended.
Noted(l, r) ==
    [lease EXCEPT
        ![l].seen = r.captured,
        ![l].state = IF Crowds(r) /\ lease[l].state = "active"
                     THEN "rotation_required" ELSE lease[l].state]

\* record_broker_lease_telemetry, accepted whatever the lease's state is.
Telemetry(l, captured, report) ==
    LET c == lease[l].cred
        r == Effective(l, captured, report)
    IN  /\ lease[l].state # "none"
        /\ lease' = IF Exhausts(r) THEN Revoked(Noted(l, r), c) ELSE Noted(l, r)
        /\ cred' = [cred EXCEPT ![c] = ApplyTelemetry(cred[c], r)]
        /\ UNCHANGED now

-----------------------------------------------------------------------------
(* The operations of the manager                                           *)

\* reconcile_broker_leases, the background task and every list_* call.
ReconcileLeases ==
    /\ OverdueLeases # {}
    /\ Expire(OverdueLeases)

\* sync_broker_credential: the latest saved-profile reading, taken at time
\* "at"; the administrator's flag is carried over.
SyncedRow(c, reading, weekly, at) ==
    [cred[c] EXCEPT !.util = reading.util, !.quota = reading.quota,
                    !.weekly = weekly, !.telemetry = at,
                    !.reauth = reading.reauth, !.preferred = reading.preferred]

Sync(c, reading, weekly, at) ==
    /\ cred' = [cred EXCEPT ![c] =
                  Reconcile(SyncedRow(c, reading, weekly, at), HeldIn(lease, c), now)]
    /\ UNCHANGED <<lease, now>>

\* mark_broker_credential_exhausted
MarkExhausted(c) ==
    /\ cred' = [cred EXCEPT ![c] = Exhausted(cred[c])]
    /\ lease' = Revoked(lease, c)
    /\ UNCHANGED now

\* set_broker_credential_assignment_disabled
SetDisabled(c, disabled) ==
    /\ cred' = [cred EXCEPT ![c] =
                  Reconcile([cred[c] EXCEPT !.disabled = disabled],
                            HeldIn(lease, c), now)]
    /\ UNCHANGED <<lease, now>>

Tick ==
    /\ now < MaxTime
    /\ now' = now + 1
    /\ UNCHANGED <<cred, lease>>

-----------------------------------------------------------------------------

\* When a reading arriving now may have been taken, and the time that a
\* client's report, which nobody compares with the clock, may carry.
ReadingTimes == {t \in 0..MaxTime : t <= now /\ now <= t + ReadingLag}
ReportTimes == {t \in 0..MaxTime : t <= now + ClockAhead /\ now <= t + ReadingLag}

\* A sync with readings taken at "at" knows the reset that follows them,
\* if there is one.
ResetsAfter(at) ==
    LET later == {w \in ResetTimes : w > at}
    IN  IF later = {} THEN {None} ELSE {w \in later : \A v \in later : w <= v}

ClientStep ==
    \/ \E m \in Machines : AcquireReuse(m)
    \/ \E m \in Machines, a \in Agents, ttl \in TTLs, exclude \in SUBSET Credentials :
          AcquireNew(m, a, ttl, exclude)
    \/ \E l \in LeaseIds :
          \/ Renew(l) \/ Materialize(l) \/ ReadStatus(l) \/ Release(l) \/ Rotate(l)
          \/ \E at \in ReportTimes, report \in Reports : Telemetry(l, at, report)

ManagerStep ==
    \/ ReconcileLeases
    \/ \E c \in Credentials :
          \/ \E reading \in Readings, at \in ReadingTimes :
                \E weekly \in ResetsAfter(at) : Sync(c, reading, weekly, at)
          \/ MarkExhausted(c)
          \/ \E flag \in AdminFlags : SetDisabled(c, flag)

Next == ClientStep \/ ManagerStep \/ Tick

Spec == Init /\ [][Next]_vars

\* Time passes, and the reconcile task of the lease worker (and of every API
\* process) keeps running.  Nothing obliges a client or an administrator.
FairSpec == Spec /\ WF_vars(Tick) /\ WF_vars(ReconcileLeases)

-----------------------------------------------------------------------------
(* Safety                                                                  *)

\* A credential has at most one active lease: acquire and rotate reconcile
\* a candidate with its real holder before they look at its state, and not
\* even a preferred credential's override gets past that.
NoDoubleLease ==
    \A k, l \in LeaseIds :
        ActiveIn(lease, k) /\ ActiveIn(lease, l) /\ lease[k].cred = lease[l].cred
        => k = l

\* A held credential is never displayed, nor picked up, as available: every
\* path that writes "available" knows that nobody holds the credential.
HeldNotAvailable ==
    \A l \in LeaseIds : ActiveIn(lease, l) => cred[lease[l].cred].state # "available"

\* A lease moves along active, rotation_required, ended, and an ended lease
\* stays as it ended, although telemetry is accepted for ended leases and a
\* transaction may end several leases.
LifecycleStep ==
    \A l \in LeaseIds :
        LET s == lease[l].state
            t == lease'[l].state
        IN  \/ t = s
            \/ s = "none" /\ t = "active"
            \/ s = "active" /\ t \in {"rotation_required"} \cup EndStates
            \/ s = "rotation_required" /\ t \in EndStates

Lifecycle == [][LifecycleStep]_vars

\* The lease that replaces a rotated one belongs to the same owner and is on
\* another credential, only a released lease is replaced, and no lease
\* replaces two.
RotationChain ==
    \A l \in LeaseIds : lease[l].replacement # None =>
        LET r == lease[l].replacement IN
        /\ lease[l].state = "released"
        /\ lease[r].state # "none"
        /\ lease[r].machine = lease[l].machine /\ lease[r].agent = lease[l].agent
        /\ lease[r].cred # lease[l].cred
        /\ \A k \in LeaseIds : lease[k].replacement = r => k = l

\* A lease whose time is over gets no new deadline and delivers no auth
\* material for the first time, however late the expiry is noticed.
LateLeaseStep ==
    \A l \in LeaseIds : ActiveIn(lease, l) /\ lease[l].expires <= now =>
        /\ lease'[l].expires = lease[l].expires
        /\ lease'[l].first = lease[l].first

LateLeaseStaysLate == [][LateLeaseStep]_vars

\* Elapsed time alone does not bring a credential back: once its reset is
\* due, the pending confirmation only goes away with a reading taken after
\* the boundary that is below the thresholds.
ResetStep ==
    \A c \in Credentials :
        ResetPending(cred[c]) /\ cred[c].due <= now /\ cred'[c].due = None =>
            /\ AtLeast(cred'[c].confirmed, cred[c].due)
            /\ ~Blocked(cred'[c])

ResetNeedsReading == [][ResetStep]_vars

\* Whatever a credential's row still says, a lease is only issued on it when
\* its readings are below the thresholds, nobody withholds it (or it is a
\* preferred one), and a reset that is due was confirmed by a later reading.
GrantStep ==
    \A l \in LeaseIds : lease[l].state = "none" /\ lease'[l].state # "none" =>
        LET c == cred[lease'[l].cred] IN
        /\ ~Blocked(c) /\ ~Exhausting(c)
        /\ c.disabled \/ c.reauth => c.preferred
        /\ ResetPending(c) /\ c.due <= now =>
              AtLeast(c.confirmed, c.due) \/ AtLeast(c.telemetry, c.due)

OnlyFitGranted == [][GrantStep]_vars

\* No free credential is lost: late telemetry may write "leased" on a row
\* nobody holds, but the next selection sees through it.  Only "degraded"
\* sticks, until a healthy report.
FreeNotLost ==
    \A c \in Credentials :
        LET k == cred[c] IN
        /\ ~HeldIn(lease, c) /\ k.state # "degraded" /\ ~ResetPending(k)
        /\ ~Blocked(k) /\ ~Exhausting(k) /\ ~k.disabled /\ ~k.reauth
        => Assignable(Reconcile(k, FALSE, now))

\* A credential that the administrator disabled is not shown as available,
\* unless it is a preferred one with a working token.
DisabledNotOffered ==
    \A c \in Credentials :
        cred[c].disabled /\ ~cred[c].preferred => cred[c].state # "available"

-----------------------------------------------------------------------------
(* What the pool of credentials looks like to its users: LeasePool          *)

HoldersOf(c) == {l \in LeaseIds : ActiveIn(lease, l) /\ lease[l].cred = c}

IssuedIds == {l \in LeaseIds : lease[l].state # "none"}

Pool == INSTANCE LeasePool
    WITH holders <- [c \in Credentials |-> HoldersOf(c)], issued <- IssuedIds

\* Every step of the broker ends some leases for good and grants at most one,
\* under an id never used before, on a credential with no lease left; the
\* telemetry of an ended lease cannot bring it back.
ImplementsPool == Pool!Spec

-----------------------------------------------------------------------------
(* Liveness, under FairSpec                                                *)

\* A lease is renewed or ended by its deadline: no credential stays with a
\* machine that stopped renewing.
ExpiredLeaseReclaimed ==
    \A l \in LeaseIds : \A t \in 0..MaxTime :
        (ActiveIn(lease, l) /\ lease[l].expires = t)
            ~> (~ActiveIn(lease, l) \/ lease[l].expires # t)

\* A lease whose owner falls silent is taken back after ReclaimAfter, long
\* before its deadline.
SilentLeaseReclaimed ==
    \A l \in LeaseIds : \A t \in 0..MaxTime :
        (ActiveIn(lease, l) /\ lease[l].seen = t /\ t + ReclaimAfter <= MaxTime)
            ~> (~ActiveIn(lease, l) \/ lease[l].seen # t)

=============================================================================
