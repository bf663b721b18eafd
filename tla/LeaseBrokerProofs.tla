-------------------------- MODULE LeaseBrokerProofs --------------------------
(* Proofs about LeaseBroker for every value of its constants. *)
EXTENDS LeaseBroker, TLAPS

-----------------------------------------------------------------------------
(* The credential policy                                                   *)

\* A reconciliation yields a well-formed row.
LEMMA ReconcileType ==
    ASSUME NEW c \in Credential, NEW held \in BOOLEAN, NEW t \in Nat
    PROVE  Reconcile(c, held, t) \in Credential
<1>1. \A k \in Credential : \A s \in CredentialState :
        [k EXCEPT !.state = s] \in Credential
  BY DEF Credential
<1>2. \A k \in Credential : \A s \in CredentialState : \A d \in Nullable(Nat) :
        [k EXCEPT !.state = s, !.due = d] \in Credential
  BY DEF Credential
<1>3. /\ \A k \in Credential : DueOrWeekly(k) \in Nullable(Nat) /\ k.due \in Nullable(Nat)
      /\ None \in Nullable(Nat)
  BY DEF Credential, DueOrWeekly, Nullable
<1>4. \A k \in Credential :
        ReadingState(k) \in CredentialState /\ k.state \in CredentialState
  BY DEF Credential, ReadingState, CredentialState
<1>5. {"available", "leased", "degraded", "exhausted", "unavailable_for_assignment"}
        \subseteq CredentialState
  BY DEF CredentialState
<1>6. WithoutReset(c) \in Credential
  BY <1>1, <1>2, <1>3, <1>4, <1>5 DEF WithoutReset
<1>7. BeforeReset(c) \in Credential
  <2>1. (IF ReadingState(c) = "available" THEN None ELSE c.due) \in Nullable(Nat)
    BY <1>3
  <2>. QED
    BY <2>1, <1>2, <1>4 DEF BeforeReset
<1>8. ConfirmReset(c) \in Credential
  BY DEF ConfirmReset, Credential
<1>9. AfterReset(c) \in Credential
  BY <1>1, <1>2, <1>3, <1>5, <1>8 DEF AfterReset
<1>10. Judged(c, held, t) \in Credential
  BY <1>1, <1>5, <1>6, <1>7, <1>9 DEF Judged
<1>. QED
  BY <1>1, <1>5, <1>10 DEF Reconcile

\* The heart of the exclusion: once a credential was reconciled as held, it is
\* not assignable, whatever its row said, preferred or not.
LEMMA HeldNotAssignable ==
    ASSUME NEW c \in Credential, NEW t \in Nat
    PROVE  ~Assignable(Reconcile(c, TRUE, t))
<1> USE PolicyAssumption DEF Credential, Nullable, CredentialState, Withheld, Blocked
<1>1. CASE Withheld(c, TRUE)
  BY <1>1 DEF Reconcile, Judged, Assignable
<1>2. CASE ~Withheld(c, TRUE) /\ ~ResetPending(c)
  BY <1>2 DEF Reconcile, Judged, WithoutReset, ReadingState, Assignable
<1>3. CASE ~Withheld(c, TRUE) /\ ResetPending(c) /\ c.due > t
  BY <1>3 DEF Reconcile, Judged, BeforeReset, ReadingState, Assignable
<1>4. CASE ~Withheld(c, TRUE) /\ ResetPending(c) /\ ~(c.due > t)
  BY <1>4 DEF Reconcile, Judged, AfterReset, ConfirmReset, Assignable, ResetPending, ResetConfirmed
<1>. QED
  BY <1>1, <1>2, <1>3, <1>4

\* Nor is it shown as available.
LEMMA HeldNotShownAvailable ==
    ASSUME NEW c \in Credential, NEW t \in Nat
    PROVE  Reconcile(c, TRUE, t).state # "available"
BY ReconcileType DEF Reconcile, Credential

\* So does a report, which moreover never leaves a row available.
LEMMA TelemetryType ==
    ASSUME NEW c \in Credential,
           NEW r \in [captured : Nat, error : BOOLEAN, grace : BOOLEAN,
                      util : Nullable(Nat), quota : Nullable(Nat)]
    PROVE  /\ ApplyTelemetry(c, r) \in Credential
           /\ ApplyTelemetry(c, r).state # "available"
<1> DEFINE Row(s, u, q, t, d, f) ==
             [c EXCEPT !.state = s, !.util = u, !.quota = q,
                       !.telemetry = t, !.due = d, !.confirmed = f]
           state == HealthState(ReportedState(c, r), r.error)
           due == IF Exhausts(r) \/ (Crowds(r) /\ AtLeast(r.util, MaxAssignable))
                  THEN DueOrWeekly(c)
                  ELSE IF ConfirmsReset(c, r) THEN None ELSE c.due
           confirmed == IF ConfirmsReset(c, r) THEN r.captured ELSE c.confirmed
<1>1. ASSUME NEW s \in CredentialState, NEW u \in Nullable(Nat), NEW q \in Nullable(Nat),
             NEW t \in Nullable(Nat), NEW d \in Nullable(Nat), NEW f \in Nullable(Nat)
      PROVE  Row(s, u, q, t, d, f) \in Credential /\ Row(s, u, q, t, d, f).state = s
  <2> DEFINE N == Nullable(Nat)
  <2>1. /\ s \in CredentialState
        /\ u \in N /\ q \in N /\ t \in N /\ d \in N /\ f \in N
    OBVIOUS
  <2>2. c \in [state : CredentialState, util : N, quota : N, weekly : N, due : N,
               confirmed : N, telemetry : N, disabled : BOOLEAN, reauth : BOOLEAN,
               preferred : BOOLEAN]
    BY DEF Credential
  <2> HIDE DEF N
  <2>3. Row(s, u, q, t, d, f).state = s
    BY <2>2
  <2>4. Row(s, u, q, t, d, f) \in
          [state : CredentialState, util : N, quota : N, weekly : N, due : N,
           confirmed : N, telemetry : N, disabled : BOOLEAN, reauth : BOOLEAN,
           preferred : BOOLEAN]
    BY <2>1, <2>2
  <2>. QED
    BY <2>3, <2>4 DEF Credential, N
<1>2. ReportedState(c, r) \in CredentialState
  BY DEF ReportedState, Credential, CredentialState
<1>3. state \in CredentialState /\ state # "available"
  BY <1>2 DEF HealthState, CredentialState
<1>4. /\ DueOrWeekly(c) \in Nullable(Nat) /\ c.due \in Nullable(Nat)
      /\ c.confirmed \in Nullable(Nat) /\ None \in Nullable(Nat)
      /\ r.util \in Nullable(Nat) /\ r.quota \in Nullable(Nat)
      /\ r.captured \in Nullable(Nat)
  BY DEF DueOrWeekly, Credential, Nullable
<1>5. due \in Nullable(Nat) /\ confirmed \in Nullable(Nat)
  BY <1>4
<1>6. ApplyTelemetry(c, r) = Row(state, r.util, r.quota, r.captured, due, confirmed)
  BY DEF ApplyTelemetry
<1> HIDE DEF Row, state, due, confirmed
<1>7. /\ Row(state, r.util, r.quota, r.captured, due, confirmed) \in Credential
      /\ Row(state, r.util, r.quota, r.captured, due, confirmed).state = state
  <2>1. /\ r.util \in Nullable(Nat) /\ r.quota \in Nullable(Nat)
        /\ r.captured \in Nullable(Nat)
    BY <1>4
  <2>2. \A u, q, t \in Nullable(Nat) :
          /\ Row(state, u, q, t, due, confirmed) \in Credential
          /\ Row(state, u, q, t, due, confirmed).state = state
    BY <1>1, <1>3, <1>5
  <2>. QED
    BY <2>1, <2>2
<1>. QED
  BY <1>3, <1>6, <1>7

-----------------------------------------------------------------------------
(* Type correctness                                                        *)

\* A new lease is a well-formed row.
LEMMA NewLeaseType ==
    ASSUME TypeOK, NEW c \in Credentials, NEW m \in Machines, NEW a \in Agents,
           NEW ttl \in Nat
    PROVE  NewLease(c, m, a, ttl) \in IssuedLease
BY DEF TypeOK, NewLease, IssuedLease, ActiveStates, Nullable

\* Only an inserted row can be active.
LEMMA ActiveIssued ==
    ASSUME NEW ls \in [LeaseIds -> Lease], NEW l \in LeaseIds, ls[l].state # "none"
    PROVE  ls[l] \in IssuedLease
BY DEF Lease, NoLease

\* Expiring any active leases keeps both tables well formed.
LEMMA ExpireType ==
    ASSUME TypeOK, NEW S \in SUBSET LeaseIds, \A l \in S : ActiveIn(lease, l)
    PROVE  /\ LeasesExpired(S) \in [LeaseIds -> Lease]
           /\ CredsExpired(S) \in [Credentials -> Credential]
<1>1. ASSUME NEW l \in S
      PROVE  [lease[l] EXCEPT !.state = "expired"] \in Lease
  <2>1. lease[l] \in IssuedLease
    BY ActiveIssued DEF TypeOK, ActiveIn, ActiveStates
  <2>. QED
    BY <2>1 DEF Lease, IssuedLease, EndStates
<1>2. ASSUME NEW c \in Credentials
      PROVE  Reconcile(cred[c], FALSE, now) \in Credential
  BY ReconcileType DEF TypeOK
<1>. QED
  BY <1>1, <1>2 DEF TypeOK, LeasesExpired, CredsExpired

\* So does revoking the leases of a credential ...
LEMMA RevokeType ==
    ASSUME NEW ls \in [LeaseIds -> Lease], NEW c
    PROVE  Revoked(ls, c) \in [LeaseIds -> Lease]
<1>1. ASSUME NEW l \in LeaseIds, ActiveIn(ls, l)
      PROVE  [ls[l] EXCEPT !.state = "revoked"] \in Lease
  <2>1. ls[l] \in IssuedLease
    BY <1>1, ActiveIssued DEF ActiveIn, ActiveStates
  <2>. QED
    BY <2>1 DEF Lease, IssuedLease, EndStates
<1>. QED
  BY <1>1 DEF Revoked

\* ... and reconciling every credential.
LEMMA AllReconciledType ==
    ASSUME TypeOK, NEW cs \in [Credentials -> Credential], NEW ls
    PROVE  AllReconciled(cs, ls) \in [Credentials -> Credential]
<1>1. ASSUME NEW c \in Credentials
      PROVE  Reconcile(cs[c], HeldIn(ls, c), now) \in Credential
  BY ReconcileType DEF TypeOK, HeldIn
<1>. QED
  BY <1>1 DEF AllReconciled

\* The assignment of credential c under the id l to owner m, a.
LEMMA GrantType ==
    ASSUME TypeOK,
           NEW ls \in [LeaseIds -> Lease], NEW cs \in [Credentials -> Credential],
           NEW c \in Credentials, NEW l \in LeaseIds, NEW m \in Machines, NEW a \in Agents,
           NEW ttl \in Nat
    PROVE  /\ [ls EXCEPT ![l] = NewLease(c, m, a, ttl)] \in [LeaseIds -> Lease]
           /\ [cs EXCEPT ![c].state = "leased"] \in [Credentials -> Credential]
<1>1. NewLease(c, m, a, ttl) \in Lease
  BY NewLeaseType DEF Lease
<1>2. [cs[c] EXCEPT !.state = "leased"] \in Credential
  BY DEF Credential, CredentialState
<1>. QED
  BY <1>1, <1>2

\* Every step of a client keeps the tables well formed.
LEMMA ClientStepType ==
    ASSUME TypeOK, ClientStep
    PROVE  TypeOK'
<1> DEFINE ls == LeasesExpired(OverdueLeases)
           cs == CredsExpired(OverdueLeases)
<1>1. ls \in [LeaseIds -> Lease] /\ cs \in [Credentials -> Credential]
  BY ExpireType DEF OverdueLeases, Overdue
<1>2. now \in Nat /\ cred \in [Credentials -> Credential] /\ lease \in [LeaseIds -> Lease]
  BY DEF TypeOK
<1>3. ASSUME NEW m \in Machines, AcquireReuse(m)
      PROVE  TypeOK'
  <2>1. PICK l \in Reusable(cs, ls, m) : lease' = [ls EXCEPT ![l].seen = now]
    BY <1>3 DEF AcquireReuse
  <2>2. l \in LeaseIds /\ ls[l] \in IssuedLease
    BY <1>1, <2>1, ActiveIssued DEF Reusable, ActiveIn, ActiveStates
  <2>3. [ls[l] EXCEPT !.seen = now] \in Lease
    BY <1>2, <2>2 DEF IssuedLease, Lease
  <2>. QED
    BY <1>1, <1>2, <1>3, <2>1, <2>2, <2>3 DEF AcquireReuse, TypeOK
<1>4. ASSUME NEW m \in Machines, NEW a \in Agents, NEW ttl \in TTLs,
             NEW exclude \in SUBSET Credentials, AcquireNew(m, a, ttl, exclude)
      PROVE  TypeOK'
  <2> DEFINE rs == AllReconciled(cs, ls)
             candidates == AcquireCandidates(rs, m, a, exclude)
  <2>1. rs \in [Credentials -> Credential] /\ candidates \subseteq Credentials /\ ttl \in Nat
    BY <1>1, AllReconciledType, BrokerAssumption
       DEF AcquireCandidates, Narrowed, Eligible, BelowRotationIn
  <2>2. CASE lease' = ls /\ cred' = rs
    BY <1>1, <1>2, <1>4, <2>1, <2>2 DEF AcquireNew, TypeOK
  <2>3. CASE \E c \in candidates, l \in FreeIds :
               /\ lease' = [ls EXCEPT ![l] = NewLease(c, m, a, ttl)]
               /\ cred' = [rs EXCEPT ![c].state = "leased"]
    <3>1. PICK c \in Credentials, l \in LeaseIds :
               /\ lease' = [ls EXCEPT ![l] = NewLease(c, m, a, ttl)]
               /\ cred' = [rs EXCEPT ![c].state = "leased"]
      BY <2>1, <2>3 DEF FreeIds
    <3> HIDE DEF ls, rs
    <3>2. lease' \in [LeaseIds -> Lease] /\ cred' \in [Credentials -> Credential]
      BY <1>1, <2>1, <3>1, GrantType
    <3>. QED
      BY <1>2, <1>4, <3>2 DEF AcquireNew, TypeOK
  <2>. QED
    BY <1>4, <2>2, <2>3 DEF AcquireNew
<1> HIDE DEF ls, cs
<1>5. ASSUME NEW l \in LeaseIds, ExpireOnAccess(l)
      PROVE  TypeOK'
  BY <1>2, <1>5, ExpireType DEF ExpireOnAccess, Overdue, Expire, TypeOK
<1>6. ASSUME NEW l \in LeaseIds, ActiveIn(lease, l)
      PROVE  lease[l] \in IssuedLease
  BY <1>2, <1>6, ActiveIssued DEF ActiveIn, ActiveStates
<1>7. ASSUME NEW l \in LeaseIds, Renew(l)
      PROVE  TypeOK'
  <2>1. CASE ExpireOnAccess(l)
    BY <1>5, <2>1
  <2>2. CASE /\ lease[l].state = "active"
             /\ lease' = [lease EXCEPT ![l].expires = now + DefaultTTL, ![l].seen = now]
             /\ UNCHANGED <<cred, now>>
    <3> DEFINE deadline == now + DefaultTTL
    <3>1. deadline \in Nat
      BY <1>2, BrokerAssumption
    <3>2. lease[l] \in IssuedLease
      BY <1>6, <2>2 DEF ActiveIn, ActiveStates
    <3>3. lease' = [lease EXCEPT ![l] = [lease[l] EXCEPT !.expires = deadline, !.seen = now]]
      BY <2>2
    <3> HIDE DEF deadline
    <3>4. [lease[l] EXCEPT !.expires = deadline, !.seen = now] \in Lease
      BY <1>2, <3>1, <3>2 DEF IssuedLease, Lease
    <3>. QED
      BY <1>2, <2>2, <3>3, <3>4 DEF TypeOK
  <2>. QED
    BY <1>7, <2>1, <2>2 DEF Renew
<1>8. ASSUME NEW l \in LeaseIds, Materialize(l)
      PROVE  TypeOK'
  <2>1. CASE ExpireOnAccess(l)
    BY <1>5, <2>1
  <2>2. CASE /\ ActiveIn(lease, l)
             /\ lease' = [lease EXCEPT
                            ![l].seen = now,
                            ![l].first = IF FirstDelivery(l) = None THEN now
                                         ELSE FirstDelivery(l)]
             /\ UNCHANGED <<cred, now>>
    <3> DEFINE first == IF FirstDelivery(l) = None THEN now ELSE FirstDelivery(l)
    <3>1. first \in Nullable(Nat)
      BY <1>2, <1>6, <2>2 DEF IssuedLease, Nullable, FirstDelivery
    <3>2. lease' = [lease EXCEPT ![l] = [lease[l] EXCEPT !.seen = now, !.first = first]]
      BY <2>2
    <3> HIDE DEF first
    <3>3. [lease[l] EXCEPT !.seen = now, !.first = first] \in Lease
      BY <1>2, <1>6, <2>2, <3>1 DEF IssuedLease, Lease
    <3>. QED
      BY <1>2, <2>2, <3>2, <3>3 DEF TypeOK
  <2>. QED
    BY <1>8, <2>1, <2>2 DEF Materialize
<1>9. ASSUME NEW l \in LeaseIds, ReadStatus(l)
      PROVE  TypeOK'
  <2>1. CASE ExpireOnAccess(l)
    BY <1>5, <2>1
  <2>2. CASE /\ ActiveIn(lease, l)
             /\ lease' = [lease EXCEPT ![l].seen = now]
             /\ UNCHANGED <<cred, now>>
    <3>1. [lease[l] EXCEPT !.seen = now] \in Lease
      BY <1>2, <1>6, <2>2 DEF IssuedLease, Lease
    <3>. QED
      BY <1>2, <2>2, <3>1 DEF TypeOK
  <2>. QED
    BY <1>9, <2>1, <2>2 DEF ReadStatus
<1>10. ASSUME NEW l \in LeaseIds, Release(l)
       PROVE  TypeOK'
  <2>1. lease[l] \in IssuedLease
    BY <1>6, <1>10 DEF Release
  <2>2. [lease[l] EXCEPT !.state = "released"] \in Lease
    BY <2>1 DEF IssuedLease, Lease, EndStates
  <2>3. lease[l].cred \in Credentials
    BY <2>1 DEF IssuedLease
  <2>4. Reconcile(cred[lease[l].cred], FALSE, now) \in Credential
    BY <1>2, <2>3, ReconcileType
  <2>. QED
    BY <1>2, <1>10, <2>2, <2>3, <2>4 DEF Release, TypeOK
<1>11. ASSUME NEW l \in LeaseIds, Rotate(l)
       PROVE  TypeOK'
  <2> DEFINE old == lease[l].cred
             m == lease[l].machine
             a == lease[l].agent
             rs == AllReconciled(cred, lease)
             candidates == RotateCandidates(rs, m, a, old)
  <2>1. lease[l] \in IssuedLease
    BY <1>6, <1>11 DEF Rotate
  <2>2. rs \in [Credentials -> Credential]
    BY <1>2, AllReconciledType
  <2>3. CASE cred' = rs /\ lease' = lease
    BY <1>2, <1>11, <2>2, <2>3 DEF Rotate, TypeOK
  <2>4. CASE \E c \in candidates, new \in FreeIds :
               /\ lease' = [lease EXCEPT ![new] = NewLease(c, m, a, DefaultTTL),
                                         ![l].state = "released",
                                         ![l].replacement = new]
               /\ cred' = [rs EXCEPT ![c].state = "leased",
                                     ![old] = Reconcile(rs[old], FALSE, now)]
    <3>1. PICK c \in candidates, new \in FreeIds :
               /\ lease' = [lease EXCEPT ![new] = NewLease(c, m, a, DefaultTTL),
                                         ![l].state = "released",
                                         ![l].replacement = new]
               /\ cred' = [rs EXCEPT ![c].state = "leased",
                                     ![old] = Reconcile(rs[old], FALSE, now)]
      BY <2>4
    <3>2. /\ c \in Credentials /\ c # old /\ old \in Credentials
          /\ new \in LeaseIds /\ new # l
          /\ m \in Machines /\ a \in Agents
      BY <1>11, <2>1 DEF RotateCandidates, Narrowed, BelowRotationIn, Eligible, FreeIds, IssuedLease, Rotate, ActiveIn, ActiveStates
    <3>3. NewLease(c, m, a, DefaultTTL) \in Lease
      BY <3>2, NewLeaseType, BrokerAssumption DEF Lease
    <3>4. [lease[l] EXCEPT !.state = "released", !.replacement = new] \in Lease
      BY <2>1, <3>2 DEF IssuedLease, Lease, EndStates, Nullable
    <3>5. Reconcile(rs[old], FALSE, now) \in Credential
      BY <1>2, <2>2, <3>2, ReconcileType
    <3>6. [rs[c] EXCEPT !.state = "leased"] \in Credential
      BY <2>2, <3>2 DEF Credential, CredentialState
    <3> HIDE DEF old, m, a, rs
    <3>7. lease' \in [LeaseIds -> Lease]
      BY <1>2, <3>1, <3>2, <3>3, <3>4
    <3>8. cred' \in [Credentials -> Credential]
      BY <2>2, <3>1, <3>2, <3>5, <3>6
    <3>. QED
      BY <1>2, <1>11, <3>7, <3>8 DEF Rotate, TypeOK
  <2>. QED
    BY <1>11, <2>3, <2>4 DEF Rotate
<1>12. ASSUME NEW l \in LeaseIds, NEW at \in ReportTimes, NEW report \in Reports,
              Telemetry(l, at, report)
       PROVE  TypeOK'
  <2> DEFINE c == lease[l].cred
             r == Effective(l, at, report)
  <2>1. lease[l] \in IssuedLease
    BY <1>2, <1>12, ActiveIssued DEF Telemetry
  <2>2. c \in Credentials /\ cred[c] \in Credential /\ at \in Nat
    BY <1>2, <2>1 DEF IssuedLease, ReportTimes
  <2>3. r \in [captured : Nat, error : BOOLEAN, grace : BOOLEAN,
               util : Nullable(Nat), quota : Nullable(Nat)]
    <3>1. report \in Report
      BY BrokerAssumption
    <3>2. cred[c].util \in Nullable(Nat) /\ cred[c].quota \in Nullable(Nat)
      BY <2>2 DEF Credential
    <3>. QED
      BY <2>2, <3>1, <3>2 DEF Effective, Report
  <2> HIDE DEF c, r
  <2>4. ApplyTelemetry(cred[c], r) \in Credential
    BY <2>2, <2>3, TelemetryType
  <2>5. Noted(l, r) \in [LeaseIds -> Lease]
    <3> DEFINE state == IF Crowds(r) /\ lease[l].state = "active"
                        THEN "rotation_required" ELSE lease[l].state
    <3>1. state \in ActiveStates \cup EndStates /\ r.captured \in Nat
      BY <2>1, <2>3 DEF IssuedLease, ActiveStates
    <3>2. Noted(l, r) =
            [lease EXCEPT ![l] = [lease[l] EXCEPT !.seen = r.captured, !.state = state]]
      BY <1>2 DEF Noted
    <3> HIDE DEF state
    <3>3. [lease[l] EXCEPT !.seen = r.captured, !.state = state] \in Lease
      BY <2>1, <3>1 DEF IssuedLease, Lease
    <3>. QED
      BY <1>2, <3>2, <3>3
  <2>6. lease' \in [LeaseIds -> Lease]
    BY <1>12, <2>5, RevokeType DEF Telemetry, c, r
  <2>7. cred' \in [Credentials -> Credential]
    BY <1>2, <1>12, <2>2, <2>4 DEF Telemetry, c, r
  <2>. QED
    BY <1>2, <1>12, <2>6, <2>7 DEF Telemetry, TypeOK
<1>. QED
  BY <1>3, <1>4, <1>7, <1>8, <1>9, <1>10, <1>11, <1>12 DEF ClientStep

\* What a sync writes before it reconciles is a well-formed row.
LEMMA SyncRowType ==
    ASSUME TypeOK, NEW c \in Credentials, NEW reading \in Readings, NEW at \in ReadingTimes,
           NEW weekly \in ResetsAfter(at)
    PROVE  SyncedRow(c, reading, weekly, at) \in Credential
<1>1. weekly \in Nullable(Nat)
  <2>1. CASE {w \in ResetTimes : w > at} = {}
    BY <2>1 DEF ResetsAfter, Nullable
  <2>2. CASE {w \in ResetTimes : w > at} # {}
    BY <2>2, BrokerAssumption DEF ResetsAfter, Nullable
  <2>. QED
    BY <2>1, <2>2
<1>2. reading \in Reading /\ at \in Nullable(Nat)
  BY BrokerAssumption DEF ReadingTimes, Nullable
<1>3. /\ cred[c] \in Credential
      /\ reading.util \in Nullable(Nat) /\ reading.quota \in Nullable(Nat)
      /\ reading.reauth \in BOOLEAN /\ reading.preferred \in BOOLEAN
  BY <1>2 DEF TypeOK, Reading
<1>. QED
  BY <1>1, <1>2, <1>3 DEF SyncedRow, Credential

\* Every step of the manager does, too.
LEMMA ManagerStepType ==
    ASSUME TypeOK, ManagerStep
    PROVE  TypeOK'
<1>1. now \in Nat /\ cred \in [Credentials -> Credential] /\ lease \in [LeaseIds -> Lease]
  BY DEF TypeOK
<1>2. CASE ReconcileLeases
  BY <1>1, <1>2, ExpireType DEF ReconcileLeases, Expire, OverdueLeases, Overdue, TypeOK
<1>3. ASSUME NEW c \in Credentials, NEW reading \in Readings, NEW at \in ReadingTimes,
             NEW weekly \in ResetsAfter(at), Sync(c, reading, weekly, at)
      PROVE  TypeOK'
  <2> DEFINE row == SyncedRow(c, reading, weekly, at)
  <2>1. row \in Credential
    BY SyncRowType
  <2> HIDE DEF row
  <2>2. Reconcile(row, HeldIn(lease, c), now) \in Credential
    BY <1>1, <2>1, ReconcileType DEF HeldIn
  <2>. QED
    BY <1>1, <1>3, <2>2 DEF Sync, TypeOK, row
<1>4. ASSUME NEW c \in Credentials, MarkExhausted(c)
      PROVE  TypeOK'
  <2>1. Exhausted(cred[c]) \in Credential
    <3>1. cred[c] \in Credential
      BY <1>1
    <3>2. DueOrWeekly(cred[c]) \in Nullable(Nat) /\ "exhausted" \in CredentialState
      BY <3>1 DEF DueOrWeekly, Credential, CredentialState
    <3>. QED
      BY <3>1, <3>2 DEF Exhausted, Credential
  <2>. QED
    BY <1>1, <1>4, <2>1, RevokeType DEF MarkExhausted, TypeOK
<1>5. ASSUME NEW c \in Credentials, NEW flag \in AdminFlags, SetDisabled(c, flag)
      PROVE  TypeOK'
  <2>1. [cred[c] EXCEPT !.disabled = flag] \in Credential
    BY <1>1, BrokerAssumption DEF Credential
  <2>2. Reconcile([cred[c] EXCEPT !.disabled = flag], HeldIn(lease, c), now) \in Credential
    BY <1>1, <2>1, ReconcileType DEF HeldIn
  <2>. QED
    BY <1>1, <1>5, <2>2 DEF SetDisabled, TypeOK
<1>. QED
  BY <1>2, <1>3, <1>4, <1>5 DEF ManagerStep

\* Every step does.
LEMMA TypeStep ==
    ASSUME TypeOK, [Next]_vars
    PROVE  TypeOK'
<1>1. CASE ClientStep
  BY <1>1, ClientStepType
<1>2. CASE ManagerStep
  BY <1>2, ManagerStepType
<1>3. CASE Tick
  BY <1>3 DEF Tick, TypeOK
<1>4. CASE UNCHANGED vars
  BY <1>4 DEF vars, TypeOK
<1>. QED
  BY <1>1, <1>2, <1>3, <1>4 DEF Next

\* Whatever its thresholds, owners and deadlines are, the broker only ever
\* writes well-formed rows.
THEOREM TypeCorrect == Spec => []TypeOK
<1>1. Init => TypeOK
  BY DEF Init, TypeOK, NewCredential, NoLease, Credential, CredentialState, Lease, Nullable
<1>2. TypeOK /\ [Next]_vars => TypeOK'
  BY TypeStep
<1>. QED
  BY <1>1, <1>2, PTL DEF Spec

-----------------------------------------------------------------------------
(* The shape of a step                                                     *)

\* How the state of an issued lease may change.
Moves(s, t) ==
    \/ t = s
    \/ s = "active" /\ t \in {"rotation_required"} \cup EndStates
    \/ s = "rotation_required" /\ t \in EndStates

\* Lease k is not started, stays on its credential and moves on at most.
Follows(k) ==
    /\ lease'[k].cred = lease[k].cred
    /\ Moves(lease[k].state, lease'[k].state)

\* Lease l starts, on a credential that no other lease holds any more.
Grants(l) ==
    /\ lease[l].state = "none"
    /\ lease'[l].state = "active"
    /\ lease'[l].cred \in Credentials
    /\ \A k \in LeaseIds \ {l} :
          /\ Follows(k)
          /\ ~(ActiveIn(lease', k) /\ lease'[k].cred = lease'[l].cred)

\* No move starts a lease or brings one back, and two moves make one.
LEMMA MovesForward ==
    ASSUME NEW s, NEW t, Moves(s, t)
    PROVE  /\ s = "none" <=> t = "none"
           /\ t \in ActiveStates => s \in ActiveStates
           /\ \A u : Moves(t, u) => Moves(s, u)
BY DEF Moves, ActiveStates, EndStates

\* So a lease that follows was issued before, and active if it still is.
LEMMA FollowsForward ==
    ASSUME NEW k, Follows(k)
    PROVE  /\ lease'[k].cred = lease[k].cred
           /\ lease'[k].state = "none" <=> lease[k].state = "none"
           /\ ActiveIn(lease', k) => ActiveIn(lease, k)
BY MovesForward DEF Follows, ActiveIn

\* Expiring active leases starts none.
LEMMA ExpireFollows ==
    ASSUME TypeOK, NEW S \in SUBSET LeaseIds, \A l \in S : ActiveIn(lease, l),
           NEW k \in LeaseIds
    PROVE  LET ls == LeasesExpired(S) IN
           /\ ls[k].cred = lease[k].cred
           /\ Moves(lease[k].state, ls[k].state)
<1>1. CASE k \in S
  <2>1. lease[k] \in IssuedLease
    BY <1>1, ActiveIssued DEF TypeOK, ActiveIn, ActiveStates
  <2>. QED
    BY <1>1, <2>1 DEF LeasesExpired, IssuedLease, ActiveIn, ActiveStates, EndStates, Moves
<1>2. CASE k \notin S
  BY <1>2 DEF LeasesExpired, Moves
<1>. QED
  BY <1>1, <1>2

\* A credential that is assignable after every row was reconciled with the
\* leases ls has no active lease in ls.
LEMMA CandidateFree ==
    ASSUME TypeOK, NEW cs \in [Credentials -> Credential], NEW ls,
           NEW c \in Credentials, Assignable(AllReconciled(cs, ls)[c])
    PROVE  ~HeldIn(ls, c)
<1> SUFFICES ASSUME HeldIn(ls, c) PROVE FALSE
  OBVIOUS
<1>1. HeldIn(ls, c) = TRUE
  BY DEF HeldIn
<1>2. AllReconciled(cs, ls)[c] = Reconcile(cs[c], TRUE, now)
  BY <1>1 DEF AllReconciled
<1>. QED
  BY <1>2, HeldNotAssignable DEF TypeOK

\* Revoking the leases of a credential starts none.
LEMMA RevokeFollows ==
    ASSUME NEW ls \in [LeaseIds -> Lease], NEW c, NEW k \in LeaseIds
    PROVE  /\ Revoked(ls, c)[k].cred = ls[k].cred
           /\ Moves(ls[k].state, Revoked(ls, c)[k].state)
<1>1. CASE ActiveIn(ls, k) /\ ls[k].cred = c
  <2>1. ls[k] \in IssuedLease
    BY <1>1, ActiveIssued DEF ActiveIn, ActiveStates
  <2>. QED
    BY <1>1, <2>1 DEF Revoked, IssuedLease, ActiveIn, ActiveStates, EndStates, Moves
<1>2. CASE ~(ActiveIn(ls, k) /\ ls[k].cred = c)
  BY <1>2 DEF Revoked, Moves
<1>. QED
  BY <1>1, <1>2

\* Nor does a telemetry report, be it for an ended lease.
LEMMA TelemetryFollows ==
    ASSUME TypeOK, NEW l \in LeaseIds, NEW at \in ReportTimes, NEW report \in Reports,
           Telemetry(l, at, report), NEW k \in LeaseIds
    PROVE  Follows(k)
<1> DEFINE r == Effective(l, at, report)
           noted == Noted(l, r)
<1>1. lease \in [LeaseIds -> Lease]
  BY DEF TypeOK
<1>2. lease[l] \in IssuedLease /\ lease[l].state # "none"
  BY <1>1, ActiveIssued DEF Telemetry
<1> HIDE DEF r
<1>3. noted[k].cred = lease[k].cred /\ Moves(lease[k].state, noted[k].state)
  <2>1. CASE k = l
    BY <1>1, <1>2, <2>1 DEF Noted, IssuedLease, Moves
  <2>2. CASE k # l
    BY <1>1, <2>2 DEF Noted, Moves
  <2>. QED
    BY <2>1, <2>2
<1>4. noted \in [LeaseIds -> Lease]
  <2> DEFINE state == IF Crowds(r) /\ lease[l].state = "active"
                      THEN "rotation_required" ELSE lease[l].state
  <2>1. state \in ActiveStates \cup EndStates /\ r.captured \in Nat
    BY <1>2 DEF IssuedLease, ActiveStates, r, Effective, ReportTimes
  <2>2. noted =
          [lease EXCEPT ![l] = [lease[l] EXCEPT !.seen = r.captured, !.state = state]]
    BY <1>1 DEF Noted
  <2> HIDE DEF state, noted
  <2>3. [lease[l] EXCEPT !.seen = r.captured, !.state = state] \in Lease
    BY <1>2, <2>1 DEF IssuedLease, Lease
  <2>. QED
    BY <1>1, <2>2, <2>3
<1>5. lease' = noted \/ lease' = Revoked(noted, lease[l].cred)
  BY DEF Telemetry, r
<1> HIDE DEF noted
<1>. QED
  BY <1>3, <1>4, <1>5, RevokeFollows, MovesForward DEF Follows

\* A step ends leases, or ends leases and grants one.
LEMMA StepShape ==
    ASSUME TypeOK, [Next]_vars
    PROVE  (\A k \in LeaseIds : Follows(k)) \/ (\E l \in LeaseIds : Grants(l))
<1> DEFINE ls == LeasesExpired(OverdueLeases)
           cs == CredsExpired(OverdueLeases)
<1>1. /\ ls \in [LeaseIds -> Lease] /\ cs \in [Credentials -> Credential]
      /\ \A k \in LeaseIds :
            /\ ls[k].cred = lease[k].cred
            /\ Moves(lease[k].state, ls[k].state)
  BY ExpireType, ExpireFollows DEF OverdueLeases, Overdue
<1>2. now \in Nat /\ cred \in [Credentials -> Credential] /\ lease \in [LeaseIds -> Lease]
  BY DEF TypeOK
<1>3. ASSUME NEW m \in Machines, AcquireReuse(m)
      PROVE  \A k \in LeaseIds : Follows(k)
  <2>1. PICK l \in Reusable(cs, ls, m) : lease' = [ls EXCEPT ![l].seen = now]
    BY <1>3 DEF AcquireReuse
  <2>2. l \in LeaseIds /\ ls[l] \in IssuedLease
    BY <1>1, <2>1, ActiveIssued DEF Reusable, ActiveIn, ActiveStates
  <2> HIDE DEF ls
  <2>3. lease'[l].cred = ls[l].cred /\ lease'[l].state = ls[l].state
    BY <1>1, <2>1, <2>2 DEF IssuedLease
  <2>4. \A k \in LeaseIds \ {l} : lease'[k] = ls[k]
    BY <1>1, <2>1
  <2>. QED
    BY <1>1, <2>3, <2>4 DEF Follows
<1>4. ASSUME NEW m \in Machines, NEW a \in Agents, NEW ttl \in TTLs,
             NEW exclude \in SUBSET Credentials, AcquireNew(m, a, ttl, exclude)
      PROVE  (\A k \in LeaseIds : Follows(k)) \/ (\E l \in LeaseIds : Grants(l))
  <2> DEFINE rs == AllReconciled(cs, ls)
             candidates == AcquireCandidates(rs, m, a, exclude)
  <2>1. CASE lease' = ls
    BY <1>1, <2>1 DEF Follows
  <2>2. CASE \E c \in candidates, l \in FreeIds :
               lease' = [ls EXCEPT ![l] = NewLease(c, m, a, ttl)]
    <3>1. PICK c \in candidates, l \in FreeIds :
               lease' = [ls EXCEPT ![l] = NewLease(c, m, a, ttl)]
      BY <2>2
    <3>2. c \in Credentials /\ Assignable(rs[c])
      BY DEF AcquireCandidates, Narrowed, Eligible, BelowRotationIn
    <3>3. ~HeldIn(ls, c)
      BY <1>1, <3>2, CandidateFree
    <3>4. l \in LeaseIds /\ lease[l].state = "none"
      BY DEF FreeIds
    <3> HIDE DEF ls
    <3>5. lease'[l] = NewLease(c, m, a, ttl) /\ \A k \in LeaseIds \ {l} : lease'[k] = ls[k]
      BY <1>1, <3>1, <3>4
    <3>6. lease'[l].state = "active" /\ lease'[l].cred = c
      BY <3>5 DEF NewLease
    <3>7. \A k \in LeaseIds \ {l} : Follows(k) /\ ~(ActiveIn(lease', k) /\ lease'[k].cred = c)
      BY <1>1, <3>3, <3>5 DEF Follows, HeldIn, ActiveIn
    <3>8. Grants(l)
      BY <3>2, <3>4, <3>6, <3>7 DEF Grants
    <3>. QED
      BY <3>4, <3>8
  <2>. QED
    BY <1>4, <2>1, <2>2 DEF AcquireNew
<1> HIDE DEF ls, cs
<1>5. ASSUME NEW l \in LeaseIds, ExpireOnAccess(l)
      PROVE  \A k \in LeaseIds : Follows(k)
  BY <1>5, ExpireFollows DEF ExpireOnAccess, Overdue, Expire, Follows
<1>6. ASSUME NEW l \in LeaseIds, NEW row,
             lease' = [lease EXCEPT ![l] = row],
             row.cred = lease[l].cred, Moves(lease[l].state, row.state)
      PROVE  \A k \in LeaseIds : Follows(k)
  BY <1>2, <1>6 DEF Follows, Moves
<1>7. ASSUME NEW l \in LeaseIds, ActiveIn(lease, l)
      PROVE  lease[l] \in IssuedLease
  BY <1>2, <1>7, ActiveIssued DEF ActiveIn, ActiveStates
<1>8. ASSUME NEW l \in LeaseIds, Renew(l) \/ Materialize(l) \/ ReadStatus(l)
      PROVE  \A k \in LeaseIds : Follows(k)
  <2>1. CASE ExpireOnAccess(l)
    BY <1>5, <2>1
  <2>2. ASSUME ~ExpireOnAccess(l)
        PROVE  /\ ActiveIn(lease, l)
               /\ \E expires, first :
                     lease' = [lease EXCEPT ![l] = [lease[l] EXCEPT
                                 !.expires = expires, !.seen = now, !.first = first]]
    <3>1. ActiveIn(lease, l)
      BY <1>8, <2>2 DEF Renew, Materialize, ReadStatus, ActiveIn, ActiveStates
    <3>2. lease[l] \in IssuedLease
      BY <1>7, <3>1
    <3>3. CASE lease' = [lease EXCEPT ![l].expires = now + DefaultTTL, ![l].seen = now]
      <4>1. lease' = [lease EXCEPT ![l] = [lease[l] EXCEPT
                   !.expires = now + DefaultTTL, !.seen = now, !.first = lease[l].first]]
        BY <3>2, <3>3 DEF IssuedLease
      <4>. QED
        BY <3>1, <4>1
    <3>4. CASE lease' = [lease EXCEPT ![l].seen = now,
                            ![l].first = IF FirstDelivery(l) = None THEN now
                                         ELSE FirstDelivery(l)]
      <4> DEFINE first == IF FirstDelivery(l) = None THEN now ELSE FirstDelivery(l)
      <4>1. lease' = [lease EXCEPT ![l] = [lease[l] EXCEPT
                   !.expires = lease[l].expires, !.seen = now, !.first = first]]
        BY <3>2, <3>4 DEF IssuedLease
      <4> HIDE DEF first
      <4>. QED
        BY <3>1, <4>1
    <3>5. CASE lease' = [lease EXCEPT ![l].seen = now]
      <4>1. lease' = [lease EXCEPT ![l] = [lease[l] EXCEPT
                   !.expires = lease[l].expires, !.seen = now, !.first = lease[l].first]]
        BY <3>2, <3>5 DEF IssuedLease
      <4>. QED
        BY <3>1, <4>1
    <3>. QED
      BY <1>8, <2>2, <3>3, <3>4, <3>5 DEF Renew, Materialize, ReadStatus
  <2>3. CASE ~ExpireOnAccess(l)
    <3>1. PICK expires, first :
             lease' = [lease EXCEPT ![l] = [lease[l] EXCEPT
                         !.expires = expires, !.seen = now, !.first = first]]
      BY <2>2, <2>3
    <3>2. ActiveIn(lease, l) /\ lease[l] \in IssuedLease
      BY <1>7, <2>2, <2>3
    <3> DEFINE row == [lease[l] EXCEPT !.expires = expires, !.seen = now, !.first = first]
    <3>3. row.cred = lease[l].cred /\ row.state = lease[l].state
      BY <3>2 DEF IssuedLease
    <3>4. lease' = [lease EXCEPT ![l] = row]
      BY <3>1
    <3> HIDE DEF row
    <3>. QED
      BY <1>6, <3>3, <3>4 DEF Moves
  <2>. QED
    BY <2>1, <2>3
<1>9. ASSUME NEW l \in LeaseIds, Release(l)
      PROVE  \A k \in LeaseIds : Follows(k)
  <2>1. ActiveIn(lease, l) /\ lease[l] \in IssuedLease
    BY <1>7, <1>9 DEF Release
  <2> DEFINE row == [lease[l] EXCEPT !.state = "released"]
  <2>2. row.cred = lease[l].cred /\ row.state = "released"
    BY <2>1 DEF IssuedLease
  <2>3. lease' = [lease EXCEPT ![l] = row]
    BY <1>9 DEF Release
  <2> HIDE DEF row
  <2>. QED
    BY <1>6, <2>1, <2>2, <2>3 DEF ActiveIn, ActiveStates, EndStates, Moves
<1>10. ASSUME NEW l \in LeaseIds, Rotate(l)
       PROVE  (\A k \in LeaseIds : Follows(k)) \/ (\E k \in LeaseIds : Grants(k))
  <2> DEFINE old == lease[l].cred
             m == lease[l].machine
             a == lease[l].agent
             rs == AllReconciled(cred, lease)
             candidates == RotateCandidates(rs, m, a, old)
  <2>1. ActiveIn(lease, l) /\ lease[l] \in IssuedLease
    BY <1>7, <1>10 DEF Rotate
  <2>2. CASE lease' = lease
    BY <2>2 DEF Follows, Moves
  <2>3. CASE \E c \in candidates, new \in FreeIds :
               lease' = [lease EXCEPT ![new] = NewLease(c, m, a, DefaultTTL),
                                      ![l].state = "released",
                                      ![l].replacement = new]
    <3>1. PICK c \in candidates, new \in FreeIds :
               lease' = [lease EXCEPT ![new] = NewLease(c, m, a, DefaultTTL),
                                      ![l].state = "released",
                                      ![l].replacement = new]
      BY <2>3
    <3>2. c \in Credentials /\ Assignable(rs[c])
      BY DEF RotateCandidates, Narrowed, Eligible, BelowRotationIn
    <3>3. ~HeldIn(lease, c)
      BY <1>2, <3>2, CandidateFree
    <3>4. new \in LeaseIds /\ lease[new].state = "none" /\ new # l
      BY <2>1 DEF FreeIds, ActiveIn, ActiveStates
    <3> HIDE DEF m, a
    <3>5. /\ lease'[new] = NewLease(c, m, a, DefaultTTL)
          /\ lease'[l] = [lease[l] EXCEPT !.state = "released", !.replacement = new]
          /\ \A k \in LeaseIds \ {new, l} : lease'[k] = lease[k]
      BY <1>2, <3>1, <3>4
    <3>6. lease'[new].state = "active" /\ lease'[new].cred = c
      BY <3>5 DEF NewLease
    <3>7. lease'[l].state = "released" /\ lease'[l].cred = lease[l].cred
      BY <2>1, <3>5 DEF IssuedLease
    <3>8. Follows(l) /\ ~ActiveIn(lease', l)
      BY <2>1, <3>7 DEF Follows, ActiveIn, ActiveStates, EndStates, Moves
    <3>9. ASSUME NEW k \in LeaseIds \ {new}
          PROVE  Follows(k) /\ ~(ActiveIn(lease', k) /\ lease'[k].cred = c)
      <4>1. CASE k = l
        BY <3>8, <4>1
      <4>2. CASE k # l
        BY <3>3, <3>5, <4>2 DEF Follows, HeldIn, ActiveIn, Moves
      <4>. QED
        BY <4>1, <4>2
    <3>10. Grants(new)
      BY <3>2, <3>4, <3>6, <3>9 DEF Grants
    <3>. QED
      BY <3>4, <3>10
  <2>. QED
    BY <1>10, <2>2, <2>3 DEF Rotate
<1>13. CASE ReconcileLeases
  BY <1>1, <1>13 DEF ReconcileLeases, Expire, Follows, ls
<1>14. ASSUME UNCHANGED lease
       PROVE  \A k \in LeaseIds : Follows(k)
  BY <1>14 DEF Follows, Moves
<1>15. ASSUME NEW c \in Credentials, MarkExhausted(c)
       PROVE  \A k \in LeaseIds : Follows(k)
  BY <1>2, <1>15, RevokeFollows DEF MarkExhausted, Follows
<1>16. CASE ManagerStep
  BY <1>13, <1>14, <1>15, <1>16 DEF ManagerStep, Sync, SetDisabled, ReconcileLeases, Expire, Follows
<1>17. CASE ClientStep
  BY <1>3, <1>4, <1>8, <1>9, <1>10, <1>17, TelemetryFollows DEF ClientStep
<1>. QED
  BY <1>14, <1>16, <1>17 DEF Next, Tick, vars

-----------------------------------------------------------------------------
(* Exclusion                                                               *)

\* No step of the broker starts a lease on a credential that has one.
LEMMA ExclusionStep ==
    ASSUME TypeOK, NoDoubleLease, [Next]_vars
    PROVE  NoDoubleLease'
<1> SUFFICES ASSUME NEW k \in LeaseIds, NEW l \in LeaseIds,
                    ActiveIn(lease', k), ActiveIn(lease', l),
                    lease'[k].cred = lease'[l].cred
             PROVE  k = l
  BY DEF NoDoubleLease, ActiveIn
<1>1. CASE \A j \in LeaseIds : Follows(j)
  BY <1>1, FollowsForward DEF NoDoubleLease
<1>2. CASE \E j \in LeaseIds : Grants(j)
  <2>1. PICK j \in LeaseIds : Grants(j)
    BY <1>2
  <2>2. CASE j \in {k, l}
    BY <2>1, <2>2 DEF Grants
  <2>3. CASE j \notin {k, l}
    BY <2>1, <2>3, FollowsForward DEF Grants, NoDoubleLease
  <2>. QED
    BY <2>2, <2>3
<1>. QED
  BY <1>1, <1>2, StepShape

\* A credential never has two active leases, for any number of credentials
\* and clients, any thresholds and any policy.
THEOREM Exclusion == Spec => []NoDoubleLease
<1>1. Init => NoDoubleLease
  BY DEF Init, NoDoubleLease, NoLease, ActiveIn, ActiveStates
<1>2. TypeOK /\ NoDoubleLease /\ [Next]_vars => NoDoubleLease'
  BY ExclusionStep
<1>. QED
  BY <1>1, <1>2, TypeCorrect, PTL DEF Spec

\* No lease leaves its lifecycle: an issued one moves towards its end, an ended
\* one stays as it ended, late reports and revocations included.
THEOREM LifecycleKept == Spec => Lifecycle
<1>1. TypeOK /\ [Next]_vars => LifecycleStep
  <2> SUFFICES ASSUME TypeOK, [Next]_vars PROVE LifecycleStep
    OBVIOUS
  <2>1. CASE \A k \in LeaseIds : Follows(k)
    BY <2>1 DEF Follows, Moves, LifecycleStep
  <2>2. CASE \E l \in LeaseIds : Grants(l)
    BY <2>2 DEF Grants, Follows, Moves, LifecycleStep
  <2>. QED
    BY <2>1, <2>2, StepShape
<1>. QED
  BY <1>1, TypeCorrect, PTL DEF Spec, Lifecycle

\* No lease is issued, and those still in force are on the credentials they had.
Fades ==
    \A k \in LeaseIds :
        /\ lease'[k].state = "none" <=> lease[k].state = "none"
        /\ ActiveIn(lease', k) => ActiveIn(lease, k) /\ lease'[k].cred = lease[k].cred

\* The tables start as an empty pool.
LEMMA PoolInit == Init => Pool!Init
BY DEF Init, Pool!Init, HoldersOf, IssuedIds, NoLease, ActiveIn, ActiveStates

\* What only ends leases is an End of the pool.
LEMMA PoolEnds ==
    ASSUME Fades
    PROVE  Pool!Next
<1> DEFINE ended == {k \in LeaseIds : ~ActiveIn(lease', k)}
<1>1. \A c \in Credentials : HoldersOf(c)' = HoldersOf(c) \ ended
  BY DEF Fades, HoldersOf, ActiveIn
<1>2. IssuedIds' = IssuedIds
  BY DEF Fades, IssuedIds
<1>3. Pool!End(ended)
  BY <1>1, <1>2 DEF Pool!End, Pool!Remaining
<1>. QED
  BY <1>3 DEF Pool!Next

\* Every step of the broker is an End or a Grant of the pool.
LEMMA PoolStep ==
    ASSUME TypeOK, [Next]_vars
    PROVE  Pool!Next
<1> DEFINE ended == {k \in LeaseIds : ~ActiveIn(lease', k)}
<1>1. CASE \A k \in LeaseIds : Follows(k)
  <2>1. Fades
    BY <1>1, FollowsForward DEF Fades
  <2>. QED
    BY <2>1, PoolEnds
<1>2. CASE \E l \in LeaseIds : Grants(l)
  <2>1. PICK l \in LeaseIds, c \in Credentials : Grants(l) /\ lease'[l].cred = c
    BY <1>2 DEF Grants
  <2>2. c \in Credentials /\ l \notin IssuedIds
    BY <2>1 DEF Grants, IssuedIds
  <2>3. HoldersOf(c) \ ended = {}
    BY <2>1, FollowsForward DEF Grants, HoldersOf, ActiveIn, ActiveStates
  <2>4. HoldersOf(c)' = {l}
    BY <2>1 DEF Grants, HoldersOf, ActiveIn, ActiveStates
  <2>5. \A d \in Credentials \ {c} : HoldersOf(d)' = HoldersOf(d) \ ended
    BY <2>1, FollowsForward DEF Grants, HoldersOf, ActiveIn, ActiveStates
  <2>6. IssuedIds' = IssuedIds \cup {l}
    BY <2>1, FollowsForward DEF Grants, IssuedIds
  <2> HIDE DEF ended
  <2>7. Pool!Grant(ended, c, l)
    BY <2>2, <2>3, <2>4, <2>5, <2>6 DEF Pool!Grant, Pool!Remaining
  <2>. QED
    BY <2>2, <2>7 DEF Pool!Next, ended
<1>. QED
  BY <1>1, <1>2, StepShape

\* The broker implements the pool: seen through its active leases, each of
\* its steps ends some leases for good and grants at most one, on a
\* credential that none is left on, under a new id.
THEOREM Refinement == Spec => ImplementsPool
<1>1. TypeOK /\ [Next]_vars => [Pool!Next]_(Pool!vars)
  BY PoolStep
<1>. QED
  BY <1>1, PoolInit, TypeCorrect, PTL DEF Spec, ImplementsPool, Pool!Spec

-----------------------------------------------------------------------------
(* Held credentials are not on offer                                       *)

\* Expiring overdue leases leaves no credential both held and available: by
\* exclusion, the credential of an expired lease has no other lease.
LEMMA ExpireHeld ==
    ASSUME TypeOK, NoDoubleLease, HeldNotAvailable,
           NEW S \in SUBSET LeaseIds, \A l \in S : ActiveIn(lease, l),
           NEW k \in LeaseIds, ActiveIn(LeasesExpired(S), k)
    PROVE  CredsExpired(S)[lease[k].cred] = cred[lease[k].cred]
<1>1. ASSUME k \in S PROVE FALSE
  <2>1. lease[k] \in IssuedLease
    BY <1>1, ActiveIssued DEF TypeOK, ActiveIn, ActiveStates
  <2>. QED
    BY <1>1, <2>1 DEF LeasesExpired, IssuedLease, ActiveIn, ActiveStates
<1>2. k \notin S /\ ActiveIn(lease, k)
  BY <1>1 DEF LeasesExpired, ActiveIn
<1>3. lease[k].cred \in Credentials
  BY <1>2, ActiveIssued DEF TypeOK, ActiveIn, ActiveStates, IssuedLease
<1>4. ~ \E l \in S : lease[l].cred = lease[k].cred
  BY <1>2 DEF NoDoubleLease
<1>. QED
  BY <1>3, <1>4 DEF CredsExpired

\* Reconciling every credential with its leases leaves none held and available.
LEMMA AllReconciledHeld ==
    ASSUME TypeOK, NEW cs \in [Credentials -> Credential], NEW ls,
           NEW c \in Credentials, HeldIn(ls, c)
    PROVE  AllReconciled(cs, ls)[c].state # "available"
<1>1. HeldIn(ls, c) = TRUE
  BY DEF HeldIn
<1>2. AllReconciled(cs, ls)[c] = Reconcile(cs[c], TRUE, now)
  BY <1>1 DEF AllReconciled
<1>. QED
  BY <1>2, HeldNotShownAvailable DEF TypeOK

\* No step of the broker leaves a credential both held and available.
LEMMA HeldStep ==
    ASSUME TypeOK, NoDoubleLease, HeldNotAvailable, [Next]_vars
    PROVE  HeldNotAvailable'
<1> SUFFICES ASSUME NEW k \in LeaseIds, ActiveIn(lease', k),
                    NEW c \in Credentials, lease'[k].cred = c
             PROVE  cred'[c].state # "available"
  <2>1. TypeOK'
    BY TypeStep
  <2>2. \A k \in LeaseIds : ActiveIn(lease', k) => lease'[k].cred \in Credentials
    BY <2>1, ActiveIssued DEF TypeOK, ActiveIn, ActiveStates, IssuedLease
  <2>. QED
    BY <2>2 DEF HeldNotAvailable, ActiveIn
<1> DEFINE ls == LeasesExpired(OverdueLeases)
           cs == CredsExpired(OverdueLeases)
<1>1. /\ now \in Nat /\ cred \in [Credentials -> Credential]
      /\ lease \in [LeaseIds -> Lease]
      /\ ls \in [LeaseIds -> Lease] /\ cs \in [Credentials -> Credential]
  BY ExpireType DEF TypeOK, OverdueLeases, Overdue
<1>2. ASSUME Follows(k) PROVE ActiveIn(lease, k) /\ lease[k].cred = c
  BY <1>2, FollowsForward
<1>3. ASSUME Follows(k), cred'[c] = cred[c]
      PROVE  cred'[c].state # "available"
  BY <1>2, <1>3 DEF HeldNotAvailable
<1>4. ASSUME NEW S \in SUBSET LeaseIds, \A l \in S : ActiveIn(lease, l),
             lease' = LeasesExpired(S), cred' = CredsExpired(S)
      PROVE  cred'[c].state # "available"
  <2>1. Follows(k)
    BY <1>4, ExpireFollows DEF Follows
  <2>. QED
    BY <1>2, <1>3, <1>4, <2>1, ExpireHeld
<1>5. ASSUME NEW m \in Machines, AcquireReuse(m)
      PROVE  cred'[c].state # "available"
  <2>1. PICK l \in Reusable(cs, ls, m) :
           lease' = [ls EXCEPT ![l].seen = now] /\ cred' = cs
    BY <1>5 DEF AcquireReuse
  <2>2. l \in LeaseIds /\ ls[l] \in IssuedLease
    BY <1>1, <2>1, ActiveIssued DEF Reusable, ActiveIn, ActiveStates
  <2> HIDE DEF ls
  <2>3. ls[k].cred = c /\ ActiveIn(ls, k)
    BY <1>1, <2>1, <2>2 DEF IssuedLease, ActiveIn
  <2>4. lease[k].cred = c /\ ActiveIn(lease, k)
    BY <2>3, ExpireFollows, MovesForward DEF ls, OverdueLeases, Overdue, ActiveIn
  <2>5. cs[c] = cred[c]
    BY <2>3, <2>4, ExpireHeld DEF ls, OverdueLeases, Overdue
  <2>. QED
    BY <2>1, <2>4, <2>5 DEF HeldNotAvailable
<1>6. ASSUME NEW m \in Machines, NEW a \in Agents, NEW ttl \in TTLs,
             NEW exclude \in SUBSET Credentials, AcquireNew(m, a, ttl, exclude)
      PROVE  cred'[c].state # "available"
  <2> DEFINE rs == AllReconciled(cs, ls)
  <2>1. rs \in [Credentials -> Credential]
    BY <1>1, AllReconciledType
  <2>2. CASE lease' = ls /\ cred' = rs
    BY <1>1, <2>2, AllReconciledHeld DEF HeldIn
  <2>3. CASE \E d \in Credentials, l \in FreeIds :
               /\ lease' = [ls EXCEPT ![l] = NewLease(d, m, a, ttl)]
               /\ cred' = [rs EXCEPT ![d].state = "leased"]
    <3>1. PICK d \in Credentials, l \in FreeIds :
               /\ lease' = [ls EXCEPT ![l] = NewLease(d, m, a, ttl)]
               /\ cred' = [rs EXCEPT ![d].state = "leased"]
      BY <2>3
    <3> HIDE DEF ls
    <3>2. CASE c = d
      BY <2>1, <3>1, <3>2 DEF Credential
    <3>3. CASE c # d
      <4>1. lease'[l].cred = d
        BY <1>1, <3>1 DEF NewLease, FreeIds
      <4>2. lease'[k] = ls[k]
        BY <1>1, <3>1, <3>3, <4>1
      <4>3. HeldIn(ls, c)
        BY <4>2 DEF HeldIn, ActiveIn
      <4> HIDE DEF rs
      <4>4. cred'[c] = rs[c]
        BY <2>1, <3>1, <3>3
      <4>. QED
        BY <1>1, <4>3, <4>4, AllReconciledHeld DEF rs
    <3>. QED
      BY <3>2, <3>3
  <2>4. AcquireCandidates(rs, m, a, exclude) \subseteq Credentials
    BY DEF AcquireCandidates, Narrowed, Eligible, BelowRotationIn
  <2>. QED
    BY <1>6, <2>2, <2>3, <2>4 DEF AcquireNew
<1> HIDE DEF ls, cs
<1>7. ASSUME NEW l \in LeaseIds, ExpireOnAccess(l)
      PROVE  cred'[c].state # "available"
  BY <1>4, <1>7 DEF ExpireOnAccess, Overdue, Expire
<1>8. ASSUME NEW l \in LeaseIds, Renew(l) \/ Materialize(l) \/ ReadStatus(l)
      PROVE  cred'[c].state # "available"
  <2>1. CASE ExpireOnAccess(l)
    BY <1>7, <2>1
  <2>2. CASE ~ExpireOnAccess(l)
    <3>1. cred' = cred
      BY <1>8, <2>2 DEF Renew, Materialize, ReadStatus
    <3>2. ~ \E j \in LeaseIds : Grants(j)
      <4>1. ActiveIn(lease, l)
        BY <1>8, <2>2 DEF Renew, Materialize, ReadStatus, ActiveIn, ActiveStates
      <4>2. \A j \in LeaseIds \ {l} : lease'[j] = lease[j]
        BY <1>1, <1>8, <2>2 DEF Renew, Materialize, ReadStatus
      <4>. QED
        BY <4>1, <4>2 DEF Grants, ActiveIn, ActiveStates
    <3>. QED
      BY <1>3, <3>1, <3>2, StepShape
  <2>. QED
    BY <2>1, <2>2
<1>9. ASSUME NEW l \in LeaseIds, Release(l)
      PROVE  cred'[c].state # "available"
  <2>1. \A j \in LeaseIds \ {l} : lease'[j] = lease[j]
    BY <1>1, <1>9 DEF Release
  <2>2. lease[l] \in IssuedLease /\ lease'[l] = [lease[l] EXCEPT !.state = "released"]
    BY <1>1, <1>9, ActiveIssued DEF Release, ActiveIn, ActiveStates
  <2>3. k # l
    BY <2>2 DEF IssuedLease, ActiveIn, ActiveStates
  <2>4. ActiveIn(lease, k) /\ lease[k].cred = c
    BY <2>1, <2>3 DEF ActiveIn
  <2>5. c # lease[l].cred
    BY <1>9, <2>3, <2>4 DEF NoDoubleLease, Release
  <2>6. cred'[c] = cred[c]
    BY <1>1, <1>9, <2>5 DEF Release
  <2>. QED
    BY <2>4, <2>6 DEF HeldNotAvailable
<1>10. ASSUME NEW l \in LeaseIds, Rotate(l)
       PROVE  cred'[c].state # "available"
  <2> DEFINE old == lease[l].cred
             m == lease[l].machine
             a == lease[l].agent
             rs == AllReconciled(cred, lease)
             candidates == RotateCandidates(rs, m, a, old)
  <2>1. rs \in [Credentials -> Credential]
    BY <1>1, AllReconciledType
  <2>2. lease[l] \in IssuedLease /\ old \in Credentials
    BY <1>1, <1>10, ActiveIssued DEF Rotate, ActiveIn, ActiveStates, IssuedLease
  <2>3. CASE lease' = lease /\ cred' = rs
    BY <1>1, <2>3, AllReconciledHeld DEF HeldIn
  <2>4. CASE \E d \in candidates, new \in FreeIds :
             /\ lease' = [lease EXCEPT ![new] = NewLease(d, m, a, DefaultTTL),
                                       ![l].state = "released",
                                       ![l].replacement = new]
             /\ cred' = [rs EXCEPT ![d].state = "leased",
                                   ![old] = Reconcile(rs[old], FALSE, now)]
    <3>1. PICK d \in candidates, new \in FreeIds :
             /\ lease' = [lease EXCEPT ![new] = NewLease(d, m, a, DefaultTTL),
                                       ![l].state = "released",
                                       ![l].replacement = new]
             /\ cred' = [rs EXCEPT ![d].state = "leased",
                                   ![old] = Reconcile(rs[old], FALSE, now)]
      BY <2>4
    <3>2. d \in Credentials \ {old} /\ new \in LeaseIds /\ new # l
      BY <1>10 DEF RotateCandidates, Narrowed, Eligible, BelowRotationIn, FreeIds, Rotate, ActiveIn, ActiveStates
    <3> HIDE DEF m, a
    <3>3. /\ lease'[new].cred = d
          /\ lease'[l].state = "released"
          /\ \A j \in LeaseIds \ {new, l} : lease'[j] = lease[j]
      BY <1>1, <2>2, <3>1, <3>2 DEF NewLease, IssuedLease
    <3> HIDE DEF rs, old
    <3>4. CASE c = d
      BY <2>1, <3>1, <3>2, <3>4 DEF Credential
    <3>5. CASE c # d
      <4>1. k \notin {new, l}
        BY <3>3, <3>5 DEF ActiveIn, ActiveStates
      <4>2. ActiveIn(lease, k) /\ lease[k].cred = c
        BY <3>3, <4>1 DEF ActiveIn
      <4>3. c # old
        BY <1>10, <4>1, <4>2 DEF NoDoubleLease, Rotate, old
      <4>4. cred'[c] = rs[c]
        BY <2>1, <3>1, <3>5, <4>3
      <4>. QED
        BY <1>1, <4>2, <4>4, AllReconciledHeld DEF rs, HeldIn
    <3>. QED
      BY <3>4, <3>5
  <2>. QED
    BY <1>10, <2>3, <2>4 DEF Rotate
<1>11. ASSUME NEW d \in Credentials, NEW row,
              cred' = [cred EXCEPT ![d] = row], row.state # "available", Follows(k)
       PROVE  cred'[c].state # "available"
  BY <1>1, <1>3, <1>11
<1>12. ASSUME NEW l \in LeaseIds, NEW at \in ReportTimes, NEW report \in Reports,
              Telemetry(l, at, report)
       PROVE  cred'[c].state # "available"
  <2> DEFINE d == lease[l].cred
             r == Effective(l, at, report)
  <2>1. lease[l] \in IssuedLease
    BY <1>1, <1>12, ActiveIssued DEF Telemetry
  <2>2. d \in Credentials /\ cred[d] \in Credential /\ at \in Nat
    BY <1>1, <2>1 DEF IssuedLease, ReportTimes
  <2>3. r \in [captured : Nat, error : BOOLEAN, grace : BOOLEAN,
               util : Nullable(Nat), quota : Nullable(Nat)]
    <3>1. report \in Report
      BY BrokerAssumption
    <3>2. cred[d].util \in Nullable(Nat) /\ cred[d].quota \in Nullable(Nat)
      BY <2>2 DEF Credential
    <3>. QED
      BY <2>2, <3>1, <3>2 DEF Effective, Report
  <2>4. cred' = [cred EXCEPT ![d] = ApplyTelemetry(cred[d], r)]
    BY <1>12 DEF Telemetry
  <2>5. Follows(k)
    BY <1>12, TelemetryFollows
  <2> HIDE DEF d, r
  <2>. QED
    BY <1>11, <2>2, <2>3, <2>4, <2>5, TelemetryType
<1>13. CASE ReconcileLeases
  BY <1>4, <1>13 DEF ReconcileLeases, Expire, OverdueLeases, Overdue
<1>14. ASSUME NEW d \in Credentials, NEW row \in Credential, UNCHANGED lease,
              cred' = [cred EXCEPT ![d] = Reconcile(row, HeldIn(lease, d), now)]
       PROVE  cred'[c].state # "available"
  <2>1. ActiveIn(lease, k) /\ lease[k].cred = c
    BY <1>14
  <2>2. CASE c = d
    <3>1. HeldIn(lease, d) = TRUE
      BY <2>1, <2>2 DEF HeldIn
    <3>. QED
      BY <1>1, <1>14, <2>2, <3>1, HeldNotShownAvailable
  <2>3. CASE c # d
    BY <1>1, <1>14, <2>1, <2>3 DEF HeldNotAvailable
  <2>. QED
    BY <2>2, <2>3
<1>15. ASSUME NEW d \in Credentials, NEW reading \in Readings, NEW at \in ReadingTimes,
              NEW weekly \in ResetsAfter(at), Sync(d, reading, weekly, at)
       PROVE  cred'[c].state # "available"
  BY <1>14, <1>15, SyncRowType DEF Sync
<1>16. ASSUME NEW d \in Credentials, MarkExhausted(d)
       PROVE  cred'[c].state # "available"
  <2>1. Exhausted(cred[d]).state = "exhausted"
    BY <1>1 DEF Exhausted, Credential
  <2>2. Follows(k)
    BY <1>1, <1>16, RevokeFollows DEF MarkExhausted, Follows
  <2>. QED
    BY <1>11, <1>16, <2>1, <2>2 DEF MarkExhausted
<1>17. ASSUME NEW d \in Credentials, NEW flag \in AdminFlags, SetDisabled(d, flag)
       PROVE  cred'[c].state # "available"
  <2>1. [cred[d] EXCEPT !.disabled = flag] \in Credential
    BY <1>1, BrokerAssumption DEF Credential
  <2>. QED
    BY <1>14, <1>17, <2>1 DEF SetDisabled
<1>18. CASE Tick \/ UNCHANGED vars
  BY <1>18 DEF Tick, vars, HeldNotAvailable
<1>. QED
  BY <1>5, <1>6, <1>8, <1>9, <1>10, <1>12, <1>13, <1>15, <1>16, <1>17, <1>18
     DEF Next, ClientStep, ManagerStep

\* A credential with an active lease is never shown as available: telemetry,
\* syncs, the administrator and every reconciliation write another state on
\* it, and what releases it ends its only lease.
THEOREM HeldIsNotAvailable == Spec => []HeldNotAvailable
<1>1. Init => HeldNotAvailable
  BY DEF Init, HeldNotAvailable, NoLease, ActiveIn, ActiveStates
<1>2. TypeOK /\ NoDoubleLease /\ HeldNotAvailable /\ [Next]_vars => HeldNotAvailable'
  BY HeldStep
<1>. QED
  BY <1>1, <1>2, TypeCorrect, Exclusion, PTL DEF Spec

-----------------------------------------------------------------------------
(* Who owns a lease, and what replaced it                                  *)

\* Lease k keeps its owner, if it has one, and its replacement.
SameLink(k) ==
    /\ lease'[k].replacement = lease[k].replacement
    /\ lease[k].state # "none" => /\ lease'[k].machine = lease[k].machine
                                  /\ lease'[k].agent = lease[k].agent

\* Lease l is released in favour of new.
Links(l, new) ==
    /\ ActiveIn(lease, l) /\ lease[new].state = "none"
    /\ lease'[new].state # "none" /\ lease'[new].replacement = None
    /\ lease'[new].machine = lease[l].machine /\ lease'[new].agent = lease[l].agent
    /\ lease'[new].cred # lease[l].cred
    /\ lease'[l].state = "released" /\ lease'[l].replacement = new
    /\ lease'[l].machine = lease[l].machine /\ lease'[l].agent = lease[l].agent
    /\ \A k \in LeaseIds \ {l, new} : lease'[k] = lease[k]

\* An id that was never used has the row that Init gave it.
LEMMA UnusedRow ==
    ASSUME TypeOK, NEW l \in LeaseIds, lease[l].state = "none"
    PROVE  lease[l] = NoLease
BY DEF TypeOK, Lease, IssuedLease, ActiveStates, EndStates

\* Expiring active leases changes nothing but their states.
LEMMA ExpireKeeps ==
    ASSUME TypeOK, NEW S \in SUBSET LeaseIds, \A l \in S : ActiveIn(lease, l),
           NEW k \in LeaseIds
    PROVE  LET row == LeasesExpired(S)[k] IN
           /\ row.replacement = lease[k].replacement
           /\ row.machine = lease[k].machine /\ row.agent = lease[k].agent
           /\ row.expires = lease[k].expires /\ row.first = lease[k].first
<1>1. CASE k \in S
  <2>1. lease[k] \in IssuedLease
    BY <1>1, ActiveIssued DEF TypeOK, ActiveIn, ActiveStates
  <2>. QED
    BY <1>1, <2>1 DEF LeasesExpired, IssuedLease
<1>2. CASE k \notin S
  BY <1>2 DEF LeasesExpired
<1>. QED
  BY <1>1, <1>2

\* Nor does revoking.
LEMMA RevokeKeeps ==
    ASSUME NEW ls \in [LeaseIds -> Lease], NEW c, NEW k \in LeaseIds
    PROVE  LET row == Revoked(ls, c)[k] IN
           /\ row.replacement = ls[k].replacement
           /\ row.machine = ls[k].machine /\ row.agent = ls[k].agent
           /\ row.expires = ls[k].expires /\ row.first = ls[k].first
<1>1. CASE ActiveIn(ls, k) /\ ls[k].cred = c
  <2>1. ls[k] \in IssuedLease
    BY <1>1, ActiveIssued DEF ActiveIn, ActiveStates
  <2>. QED
    BY <1>1, <2>1 DEF Revoked, IssuedLease
<1>2. CASE ~(ActiveIn(ls, k) /\ ls[k].cred = c)
  BY <1>2 DEF Revoked
<1>. QED
  BY <1>1, <1>2

\* Nor does a report, apart from the time of the last sign of life.
LEMMA TelemetryKeeps ==
    ASSUME TypeOK, NEW l \in LeaseIds, NEW at \in ReportTimes, NEW report \in Reports,
           Telemetry(l, at, report), NEW k \in LeaseIds
    PROVE  /\ lease'[k].replacement = lease[k].replacement
           /\ lease'[k].machine = lease[k].machine /\ lease'[k].agent = lease[k].agent
           /\ lease'[k].expires = lease[k].expires /\ lease'[k].first = lease[k].first
<1> DEFINE r == Effective(l, at, report)
           noted == Noted(l, r)
<1>1. lease \in [LeaseIds -> Lease]
  BY DEF TypeOK
<1>2. lease[l] \in IssuedLease
  BY <1>1, ActiveIssued DEF Telemetry
<1>3. r.captured \in Nat
  BY DEF Effective, ReportTimes
<1> HIDE DEF r
<1> DEFINE state == IF Crowds(r) /\ lease[l].state = "active"
                    THEN "rotation_required" ELSE lease[l].state
           row == [lease[l] EXCEPT !.seen = r.captured, !.state = state]
<1>4. state \in ActiveStates \cup EndStates
  BY <1>2 DEF IssuedLease, ActiveStates
<1>5. noted = [lease EXCEPT ![l] = row]
  BY <1>1 DEF Noted
<1> HIDE DEF state, noted
<1>6. /\ row \in Lease
      /\ row.replacement = lease[l].replacement
      /\ row.machine = lease[l].machine /\ row.agent = lease[l].agent
      /\ row.expires = lease[l].expires /\ row.first = lease[l].first
  BY <1>2, <1>3, <1>4 DEF IssuedLease, Lease
<1> HIDE DEF row
<1>7. /\ noted \in [LeaseIds -> Lease]
      /\ noted[k].replacement = lease[k].replacement
      /\ noted[k].machine = lease[k].machine /\ noted[k].agent = lease[k].agent
      /\ noted[k].expires = lease[k].expires /\ noted[k].first = lease[k].first
  BY <1>1, <1>5, <1>6
<1>8. lease' = noted \/ lease' = Revoked(noted, lease[l].cred)
  BY DEF Telemetry, r, noted
<1>. QED
  BY <1>7, <1>8, RevokeKeeps

\* A new lease under an unused id replaces none yet.
LEMMA GrantKeeps ==
    ASSUME TypeOK, NEW ls \in [LeaseIds -> Lease], NEW c, NEW m, NEW a, NEW ttl,
           NEW l \in FreeIds, NEW k \in LeaseIds,
           ls[k].replacement = lease[k].replacement,
           lease'= [ls EXCEPT ![l] = NewLease(c, m, a, ttl)],
           lease[k].state # "none" =>
               ls[k].machine = lease[k].machine /\ ls[k].agent = lease[k].agent
    PROVE  SameLink(k)
<1>1. l \in LeaseIds /\ lease[l].state = "none" /\ lease[l].replacement = None
  BY UnusedRow DEF FreeIds, NoLease
<1>2. CASE k = l
  BY <1>1, <1>2 DEF SameLink, NewLease
<1>3. CASE k # l
  BY <1>1, <1>3 DEF SameLink
<1>. QED
  BY <1>2, <1>3

\* A step of a client keeps every link, or it is a rotation and makes one.
LEMMA ClientLinks ==
    ASSUME TypeOK, ClientStep
    PROVE  \/ \A k \in LeaseIds : SameLink(k)
           \/ \E l, new \in LeaseIds : Links(l, new)
<1> DEFINE ls == LeasesExpired(OverdueLeases)
           cs == CredsExpired(OverdueLeases)
<1>1. lease \in [LeaseIds -> Lease] /\ now \in Nat
  BY DEF TypeOK
<1>2. /\ ls \in [LeaseIds -> Lease]
      /\ \A k \in LeaseIds : /\ ls[k].replacement = lease[k].replacement
                             /\ ls[k].machine = lease[k].machine
                             /\ ls[k].agent = lease[k].agent
  BY ExpireType, ExpireKeeps DEF OverdueLeases, Overdue
<1>3. ASSUME NEW m \in Machines, AcquireReuse(m)
      PROVE  \A k \in LeaseIds : SameLink(k)
  <2>1. PICK l \in Reusable(cs, ls, m) : lease' = [ls EXCEPT ![l].seen = now]
    BY <1>3 DEF AcquireReuse
  <2>2. l \in LeaseIds /\ ls[l] \in IssuedLease
    BY <1>2, <2>1, ActiveIssued DEF Reusable, ActiveIn, ActiveStates
  <2> HIDE DEF ls
  <2>3. \A k \in LeaseIds : /\ lease'[k].replacement = ls[k].replacement
                            /\ lease'[k].machine = ls[k].machine
                            /\ lease'[k].agent = ls[k].agent
    BY <1>2, <2>1, <2>2 DEF IssuedLease
  <2>. QED
    BY <1>2, <2>3 DEF SameLink
<1>4. ASSUME NEW m \in Machines, NEW a \in Agents, NEW ttl \in TTLs,
             NEW exclude \in SUBSET Credentials, AcquireNew(m, a, ttl, exclude)
      PROVE  \A k \in LeaseIds : SameLink(k)
  <2>1. CASE lease' = ls
    BY <1>2, <2>1 DEF SameLink
  <2>2. CASE \E c \in Credentials, l \in FreeIds :
               lease' = [ls EXCEPT ![l] = NewLease(c, m, a, ttl)]
    BY <1>2, <2>2, GrantKeeps
  <2>3. AcquireCandidates(AllReconciled(cs, ls), m, a, exclude) \subseteq Credentials
    BY DEF AcquireCandidates, Narrowed, Eligible, BelowRotationIn
  <2>. QED
    BY <1>4, <2>1, <2>2, <2>3 DEF AcquireNew
<1> HIDE DEF ls, cs
<1>5. ASSUME NEW l \in LeaseIds, ExpireOnAccess(l)
      PROVE  \A k \in LeaseIds : SameLink(k)
  BY <1>5, ExpireKeeps DEF ExpireOnAccess, Expire, Overdue, SameLink
<1>6. ASSUME NEW l \in LeaseIds, Renew(l) \/ Materialize(l) \/ ReadStatus(l), ~ExpireOnAccess(l)
      PROVE  \A k \in LeaseIds : SameLink(k)
  <2>1. lease[l] \in IssuedLease
    BY <1>1, <1>6, ActiveIssued DEF Renew, Materialize, ReadStatus, ActiveIn, ActiveStates
  <2>. QED
    BY <1>1, <1>6, <2>1 DEF Renew, Materialize, ReadStatus, SameLink, IssuedLease
<1>7. ASSUME NEW l \in LeaseIds, Release(l)
      PROVE  \A k \in LeaseIds : SameLink(k)
  <2>1. lease[l] \in IssuedLease
    BY <1>1, <1>7, ActiveIssued DEF Release, ActiveIn, ActiveStates
  <2>. QED
    BY <1>1, <1>7, <2>1 DEF Release, SameLink, IssuedLease
<1>8. ASSUME NEW l \in LeaseIds, Rotate(l)
      PROVE  \/ \A k \in LeaseIds : SameLink(k)
             \/ \E new \in LeaseIds : Links(l, new)
  <2> DEFINE old == lease[l].cred
             m == lease[l].machine
             a == lease[l].agent
             candidates == RotateCandidates(AllReconciled(cred, lease), m, a, old)
  <2>1. CASE UNCHANGED lease
    BY <2>1 DEF SameLink
  <2>2. CASE \E d \in candidates, new \in FreeIds :
               lease' = [lease EXCEPT ![new] = NewLease(d, m, a, DefaultTTL),
                                      ![l].state = "released",
                                      ![l].replacement = new]
    <3>1. PICK d \in candidates, new \in FreeIds :
               lease' = [lease EXCEPT ![new] = NewLease(d, m, a, DefaultTTL),
                                      ![l].state = "released",
                                      ![l].replacement = new]
      BY <2>2
    <3>2. /\ d # old /\ new \in LeaseIds /\ new # l
          /\ ActiveIn(lease, l) /\ lease[new].state = "none"
      BY <1>8 DEF RotateCandidates, Narrowed, Eligible, BelowRotationIn, FreeIds, Rotate,
                  ActiveIn, ActiveStates
    <3>3. lease[l] \in IssuedLease
      BY <1>1, <3>2, ActiveIssued DEF ActiveIn, ActiveStates
    <3> HIDE DEF m, a, old, candidates
    <3>4. lease'[new] = NewLease(d, m, a, DefaultTTL)
      BY <1>1, <3>1, <3>2
    <3>5. lease'[l] = [lease[l] EXCEPT !.state = "released", !.replacement = new]
      BY <1>1, <3>1, <3>2
    <3>6. \A k \in LeaseIds \ {l, new} : lease'[k] = lease[k]
      BY <1>1, <3>1, <3>2
    <3>7. /\ lease'[l].state = "released" /\ lease'[l].replacement = new
          /\ lease'[l].machine = m /\ lease'[l].agent = a
      BY <3>3, <3>5 DEF IssuedLease, m, a
    <3>8. /\ lease'[new].state # "none" /\ lease'[new].replacement = None
          /\ lease'[new].machine = m /\ lease'[new].agent = a /\ lease'[new].cred = d
      BY <3>4 DEF NewLease
    <3>9. Links(l, new)
      BY <3>2, <3>6, <3>7, <3>8 DEF Links, m, a, old
    <3>. QED
      BY <3>2, <3>9
  <2>. QED
    BY <1>8, <2>1, <2>2 DEF Rotate
<1>9. ASSUME NEW l \in LeaseIds, NEW at \in ReportTimes, NEW report \in Reports,
             Telemetry(l, at, report)
      PROVE  \A k \in LeaseIds : SameLink(k)
  BY <1>9, TelemetryKeeps DEF SameLink
<1>. QED
  BY <1>3, <1>4, <1>5, <1>6, <1>7, <1>8, <1>9 DEF ClientStep

\* So does every other step, and only rotations make links.
LEMMA LinkShape ==
    ASSUME TypeOK, [Next]_vars
    PROVE  \/ \A k \in LeaseIds : SameLink(k)
           \/ \E l, new \in LeaseIds : Links(l, new)
<1>1. CASE ClientStep
  BY <1>1, ClientLinks
<1>2. CASE ReconcileLeases
  BY <1>2, ExpireKeeps DEF ReconcileLeases, Expire, OverdueLeases, Overdue, SameLink
<1>3. ASSUME NEW c, lease' = Revoked(lease, c)
      PROVE  \A k \in LeaseIds : SameLink(k)
  BY <1>3, RevokeKeeps DEF TypeOK, SameLink
<1>4. CASE UNCHANGED lease
  BY <1>4 DEF SameLink
<1>. QED
  BY <1>1, <1>2, <1>3, <1>4 DEF Next, ManagerStep, Sync, MarkExhausted, SetDisabled, Tick, vars

\* No step breaks a link between a lease and its replacement.
LEMMA ChainStep ==
    ASSUME TypeOK, RotationChain, [Next]_vars
    PROVE  RotationChain'
<1> SUFFICES ASSUME NEW l \in LeaseIds, NEW r, lease'[l].replacement = r, r # None
             PROVE  /\ lease'[l].state = "released"
                    /\ lease'[r].state # "none"
                    /\ lease'[r].machine = lease'[l].machine
                    /\ lease'[r].agent = lease'[l].agent
                    /\ lease'[r].cred # lease'[l].cred
                    /\ \A k \in LeaseIds : lease'[k].replacement = r => k = l
  BY DEF RotationChain
<1>1. ASSUME NEW k \in LeaseIds, lease[k].state # "none" PROVE Follows(k)
  BY <1>1, StepShape DEF Grants
<1>2. ASSUME NEW k \in LeaseIds, lease[k].replacement # None
      PROVE  /\ lease[k].state = "released" /\ lease'[k].state = "released"
             /\ lease'[k].cred = lease[k].cred
             /\ lease[k].replacement \in LeaseIds
             /\ lease[lease[k].replacement].state # "none"
             /\ lease'[lease[k].replacement].state # "none"
             /\ lease'[lease[k].replacement].cred = lease[lease[k].replacement].cred
  <2>1. lease[k].state = "released" /\ lease[lease[k].replacement].state # "none"
    BY <1>2 DEF RotationChain
  <2>2. lease[k].replacement \in LeaseIds
    BY <1>2, <2>1, ActiveIssued DEF TypeOK, IssuedLease, Nullable
  <2>3. Follows(k) /\ Follows(lease[k].replacement)
    BY <1>1, <2>1, <2>2
  <2>. QED
    BY <2>1, <2>2, <2>3, FollowsForward DEF Follows, Moves
<1>3. CASE \A k \in LeaseIds : SameLink(k)
  <2>1. lease[l].replacement = r
    BY <1>3 DEF SameLink
  <2>. QED
    BY <1>2, <1>3, <2>1 DEF SameLink, RotationChain
<1>4. ASSUME NEW j \in LeaseIds, NEW new \in LeaseIds, Links(j, new)
      PROVE  /\ lease'[l].state = "released"
             /\ lease'[r].state # "none"
             /\ lease'[r].machine = lease'[l].machine
             /\ lease'[r].agent = lease'[l].agent
             /\ lease'[r].cred # lease'[l].cred
             /\ \A k \in LeaseIds : lease'[k].replacement = r => k = l
  <2>1. l # new /\ j # new
    BY <1>4 DEF Links, ActiveIn, ActiveStates
  <2>2. ASSUME NEW k \in LeaseIds PROVE lease[k].replacement = None \/ lease[k].replacement # new
    BY <1>2, <1>4 DEF Links
  <2>3. CASE l = j
    <3>1. r = new /\ lease'[j].cred = lease[j].cred
      BY <1>1, <1>4, <2>3 DEF Links, Follows, ActiveIn, ActiveStates
    <3>2. ASSUME NEW k \in LeaseIds, lease'[k].replacement = r PROVE k = l
      BY <1>4, <2>2, <2>3, <3>1, <3>2 DEF Links
    <3>. QED
      BY <1>4, <2>3, <3>1, <3>2 DEF Links
  <2>4. CASE l # j
    <3>1. lease'[l] = lease[l] /\ lease[l].replacement = r
      BY <1>4, <2>1, <2>4 DEF Links
    <3>2. r \in LeaseIds /\ r # new
      BY <1>2, <2>2, <3>1
    <3>3. lease'[r].machine = lease[r].machine /\ lease'[r].agent = lease[r].agent
      BY <1>4, <3>2 DEF Links
    <3>4. ASSUME NEW k \in LeaseIds, lease'[k].replacement = r PROVE k = l
      BY <1>4, <3>1, <3>2, <3>4 DEF Links, RotationChain
    <3>. QED
      BY <1>2, <3>1, <3>2, <3>3, <3>4 DEF RotationChain
  <2>. QED
    BY <2>3, <2>4
<1>. QED
  BY <1>3, <1>4, LinkShape

\* Whatever rotates, reports or expires at the same time, the lease that
\* replaces a rotated one has its owner, another credential, and replaces no
\* other.
THEOREM ChainKept == Spec => []RotationChain
<1>1. Init => RotationChain
  BY DEF Init, RotationChain, NoLease
<1>2. TypeOK /\ RotationChain /\ [Next]_vars => RotationChain'
  BY ChainStep
<1>. QED
  BY <1>1, <1>2, TypeCorrect, PTL DEF Spec

-----------------------------------------------------------------------------
(* Leases past their deadline                                              *)

\* No operation extends a lease that is past its deadline, or delivers auth
\* material for the first time under it: those that could, expire it first.
THEOREM LateLeasesStay == Spec => LateLeaseStaysLate
<1>1. TypeOK /\ [Next]_vars => LateLeaseStep
  <2> SUFFICES ASSUME TypeOK, [Next]_vars,
                      NEW k \in LeaseIds, ActiveIn(lease, k), lease[k].expires <= now
               PROVE  lease'[k].expires = lease[k].expires /\ lease'[k].first = lease[k].first
    BY DEF LateLeaseStep
  <2> DEFINE ls == LeasesExpired(OverdueLeases)
             cs == CredsExpired(OverdueLeases)
             Same(row) == row.expires = lease[k].expires /\ row.first = lease[k].first
  <2>1. lease \in [LeaseIds -> Lease] /\ now \in Nat
    BY DEF TypeOK
  <2>2. ls \in [LeaseIds -> Lease] /\ Same(ls[k])
    BY ExpireType, ExpireKeeps DEF OverdueLeases, Overdue
  <2>3. Overdue(k) /\ k \notin FreeIds
    BY DEF Overdue, FreeIds, ActiveIn, ActiveStates
  <2>4. ASSUME NEW m \in Machines, AcquireReuse(m)
        PROVE  Same(lease'[k])
    <3>1. PICK l \in Reusable(cs, ls, m) : lease' = [ls EXCEPT ![l].seen = now]
      BY <2>4 DEF AcquireReuse
    <3>2. l \in LeaseIds /\ ls[l] \in IssuedLease
      BY <2>2, <3>1, ActiveIssued DEF Reusable, ActiveIn, ActiveStates
    <3> HIDE DEF ls
    <3>. QED
      BY <2>2, <3>1, <3>2 DEF IssuedLease
  <2>5. ASSUME NEW m \in Machines, NEW a \in Agents, NEW ttl \in TTLs,
               NEW exclude \in SUBSET Credentials, AcquireNew(m, a, ttl, exclude)
        PROVE  Same(lease'[k])
    <3>1. lease' = ls \/ \E c, l : l \in FreeIds /\ lease' = [ls EXCEPT ![l] = NewLease(c, m, a, ttl)]
      BY <2>5 DEF AcquireNew
    <3> HIDE DEF ls
    <3>. QED
      BY <2>2, <2>3, <3>1
  <2> HIDE DEF ls, cs
  <2>6. ASSUME NEW l \in LeaseIds, ExpireOnAccess(l)
        PROVE  Same(lease'[k])
    BY <2>6, ExpireKeeps DEF ExpireOnAccess, Expire, Overdue
  <2>7. ASSUME NEW l \in LeaseIds, Renew(l) \/ Materialize(l) \/ ReadStatus(l), ~ExpireOnAccess(l)
        PROVE  Same(lease'[k])
    <3>1. l # k /\ \A j \in LeaseIds \ {l} : lease'[j] = lease[j]
      BY <2>1, <2>3, <2>7 DEF Renew, Materialize, ReadStatus
    <3>. QED
      BY <3>1
  <2>8. ASSUME NEW l \in LeaseIds, Release(l)
        PROVE  Same(lease'[k])
    <3>1. lease[l] \in IssuedLease
      BY <2>1, <2>8, ActiveIssued DEF Release, ActiveIn, ActiveStates
    <3>. QED
      BY <2>1, <2>8, <3>1 DEF Release, IssuedLease
  <2>9. ASSUME NEW l \in LeaseIds, Rotate(l)
        PROVE  Same(lease'[k])
    <3>1. lease[l] \in IssuedLease
      BY <2>1, <2>9, ActiveIssued DEF Rotate, ActiveIn, ActiveStates
    <3>2. \/ UNCHANGED lease
          \/ \E d, new : /\ new \in FreeIds
                         /\ lease' = [lease EXCEPT
                                        ![new] = NewLease(d, lease[l].machine, lease[l].agent, DefaultTTL),
                                        ![l].state = "released",
                                        ![l].replacement = new]
      BY <2>9 DEF Rotate
    <3>3. ASSUME NEW row, NEW new, new \in FreeIds,
                 lease' = [lease EXCEPT ![new] = row, ![l].state = "released",
                                        ![l].replacement = new]
          PROVE  Same(lease'[k])
      <4>1. l # new
        BY <2>9, <3>3 DEF Rotate, FreeIds, ActiveIn, ActiveStates
      <4>2. \/ lease'[k] = lease[k]
            \/ lease'[k] = [lease[k] EXCEPT !.state = "released", !.replacement = new] /\ k = l
        BY <2>1, <2>3, <3>3, <4>1
      <4>. QED
        BY <3>1, <4>2 DEF IssuedLease
    <3>. QED
      BY <3>2, <3>3
  <2>10. ASSUME NEW l \in LeaseIds, NEW at \in ReportTimes, NEW report \in Reports,
                Telemetry(l, at, report)
         PROVE  Same(lease'[k])
    BY <2>10, TelemetryKeeps
  <2>11. CASE ReconcileLeases
    BY <2>11, ExpireKeeps DEF ReconcileLeases, Expire, OverdueLeases, Overdue
  <2>12. ASSUME NEW c, lease' = Revoked(lease, c)
         PROVE  Same(lease'[k])
    BY <2>1, <2>12, RevokeKeeps
  <2>. QED
    BY <2>4, <2>5, <2>6, <2>7, <2>8, <2>9, <2>10, <2>11, <2>12
       DEF Next, ClientStep, ManagerStep, Sync, MarkExhausted, SetDisabled, Tick, vars
<1>. QED
  BY <1>1, TypeCorrect, PTL DEF Spec, LateLeaseStaysLate

=============================================================================
