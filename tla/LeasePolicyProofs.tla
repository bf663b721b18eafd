-------------------------- MODULE LeasePolicyProofs --------------------------
(* Proofs about the rows of broker_credentials: which credentials a free row, *)
(* a withheld row and a row that waits for its weekly reset may become, and   *)
(* on which credentials a lease is granted.                                   *)
EXTENDS LeaseBrokerProofs

-----------------------------------------------------------------------------
(* What a reconciliation keeps and decides                                   *)

\* The columns that a reconciliation reads and never writes.
SameReadings(c, d) ==
    /\ d.util = c.util /\ d.quota = c.quota /\ d.weekly = c.weekly
    /\ d.telemetry = c.telemetry
    /\ d.disabled = c.disabled /\ d.reauth = c.reauth /\ d.preferred = c.preferred

\* The row waits for its weekly reset, and the boundary has passed.
Awaits(c, t) == ResetPending(c) /\ c.due <= t

\* The readings, the flags and the administrator's columns are kept.
LEMMA ReconcileReads ==
    ASSUME NEW c \in Credential, NEW held \in BOOLEAN, NEW t \in Nat
    PROVE  SameReadings(c, Reconcile(c, held, t))
<1>1. SameReadings(c, WithoutReset(c))
  BY DEF Credential, SameReadings, WithoutReset
<1>2. SameReadings(c, BeforeReset(c))
  BY DEF Credential, SameReadings, BeforeReset
<1>3. SameReadings(c, AfterReset(c))
  BY DEF Credential, SameReadings, AfterReset, ConfirmReset
<1>4. SameReadings(c, Judged(c, held, t))
  BY <1>1, <1>2, <1>3 DEF Judged, Credential, SameReadings
<1>5. \A s : SameReadings(c, [Judged(c, held, t) EXCEPT !.state = s])
  <2>1. CASE Withheld(c, held)
    BY <2>1 DEF Judged, Credential, SameReadings
  <2>2. CASE ~Withheld(c, held) /\ ~ResetPending(c)
    BY <2>2 DEF Judged, WithoutReset, Credential, SameReadings
  <2>3. CASE ~Withheld(c, held) /\ ResetPending(c) /\ c.due > t
    BY <2>3 DEF Judged, BeforeReset, Credential, SameReadings
  <2>4. CASE ~Withheld(c, held) /\ ResetPending(c) /\ ~(c.due > t)
    BY <2>4 DEF Judged, AfterReset, ConfirmReset, Credential, SameReadings
  <2>. QED
    BY <2>1, <2>2, <2>3, <2>4
<1>. QED
  BY <1>4, <1>5 DEF Reconcile

\* A row that nobody holds, with good readings, no flag and no reset to wait
\* for, is assignable once it was reconciled, also when it says "leased".
LEMMA FreeAssignable ==
    ASSUME NEW c \in Credential, NEW t \in Nat, c.state # "degraded",
           ~ResetPending(c), ~Blocked(c), ~Exhausting(c), ~c.disabled, ~c.reauth
    PROVE  Assignable(Reconcile(c, FALSE, t))
<1>1. Judged(c, FALSE, t) = [c EXCEPT !.state = "available"]
  BY DEF Judged, Withheld, WithoutReset, ReadingState
<1>2. Reconcile(c, FALSE, t) = [c EXCEPT !.state = "available"]
  BY <1>1 DEF Reconcile
<1>. QED
  BY <1>2 DEF Assignable, Exhausting, Blocked, ResetPending, Credential

\* A row that the administrator or a failed refresh withholds, and that is not
\* preferred, is not shown as available: its flags are decoded.
LEMMA WithheldNotAvailable ==
    ASSUME JsonColumns, NEW c \in Credential, NEW held \in BOOLEAN, NEW t \in Nat,
           c.disabled \/ c.reauth, ~c.preferred
    PROVE  Reconcile(c, held, t).state \in {"leased", "unavailable_for_assignment"}
<1>1. Judged(c, held, t) = [c EXCEPT !.state = "unavailable_for_assignment"]
  BY DEF Judged, Withheld, Credential
<1>. QED
  BY <1>1 DEF Reconcile, Credential

\* A row that waits for its reset goes on waiting, as it was, or the reset is
\* confirmed by a reading taken since: the row's own, or its earlier one.
LEMMA AwaitedOutcome ==
    ASSUME NEW c \in Credential, NEW held \in BOOLEAN, NEW t \in Nat, Awaits(c, t)
    PROVE  LET d == Reconcile(c, held, t) IN
           \/ d.due = c.due /\ d.confirmed = c.confirmed
           \/ /\ ~Blocked(c) /\ c.confirmed = None
              /\ d.confirmed = c.telemetry /\ AtLeast(c.telemetry, c.due)
           \/ /\ ~Blocked(c) /\ AtLeast(c.confirmed, c.due)
              /\ d.confirmed = c.confirmed
<1> USE PolicyAssumption DEF Awaits, Credential, Nullable, AtLeast
<1>1. CASE Withheld(c, held)
  BY <1>1 DEF Reconcile, Judged
<1>2. CASE ~Withheld(c, held)
  <2>1. Judged(c, held, t) = AfterReset(c)
    <3>1. c.due \in Nat /\ ~(c.due > t)
      BY DEF ResetPending
    <3>. QED
      BY <1>2, <3>1 DEF Judged
  <2>2. CASE ConfirmReset(c) = c
    <3>1. \/ \E s : AfterReset(c) = [c EXCEPT !.state = s]
          \/ /\ ~Blocked(c) /\ ResetConfirmed(c)
             /\ AfterReset(c) = [c EXCEPT !.state = "available", !.due = None]
      BY <2>2 DEF AfterReset
    <3>2. CASE \E s : AfterReset(c) = [c EXCEPT !.state = s]
      <4>1. PICK s : AfterReset(c) = [c EXCEPT !.state = s]
        BY <3>2
      <4>2. [[c EXCEPT !.state = s] EXCEPT !.state = "leased"] = [c EXCEPT !.state = "leased"]
        OBVIOUS
      <4>3. \E u : Reconcile(c, held, t) = [c EXCEPT !.state = u]
        BY <2>1, <4>1, <4>2 DEF Reconcile
      <4>. QED
        BY <4>3
    <3>3. CASE /\ ~Blocked(c) /\ ResetConfirmed(c)
               /\ AfterReset(c) = [c EXCEPT !.state = "available", !.due = None]
      <4>1. Reconcile(c, held, t).confirmed = c.confirmed
        BY <2>1, <3>3 DEF Reconcile
      <4>. QED
        BY <3>3, <4>1 DEF ResetConfirmed
    <3>. QED
      BY <3>1, <3>2, <3>3
  <2>3. CASE ConfirmReset(c) # c
    <3>1. /\ c.confirmed = None /\ AtLeast(c.telemetry, c.due) /\ ~Blocked(c)
          /\ ConfirmReset(c) = [c EXCEPT !.confirmed = c.telemetry]
      BY <2>3 DEF ConfirmReset
    <3>2. AfterReset(c).confirmed = c.telemetry
      BY <3>1 DEF AfterReset
    <3>3. Reconcile(c, held, t).confirmed = c.telemetry
      <4>1. \A s : [AfterReset(c) EXCEPT !.state = s].confirmed = AfterReset(c).confirmed
        BY <3>1 DEF AfterReset
      <4>. QED
        BY <2>1, <3>2, <4>1 DEF Reconcile
    <3>. QED
      BY <3>1, <3>3
  <2>. QED
    BY <2>2, <2>3
<1>. QED
  BY <1>1, <1>2

\* A confirmation, once made, stays.
LEMMA ConfirmedStays ==
    ASSUME NEW c \in Credential, NEW held \in BOOLEAN, NEW t \in Nat, c.confirmed # None
    PROVE  Reconcile(c, held, t).confirmed = c.confirmed
<1> USE DEF Credential
<1>1. Judged(c, held, t).confirmed = c.confirmed
  BY DEF Judged, WithoutReset, BeforeReset, AfterReset, ConfirmReset
<1>2. \A s : [Judged(c, held, t) EXCEPT !.state = s].confirmed = c.confirmed
  <2>1. CASE Withheld(c, held)
    BY <2>1 DEF Judged
  <2>2. CASE ~Withheld(c, held) /\ ~ResetPending(c)
    BY <2>2 DEF Judged, WithoutReset
  <2>3. CASE ~Withheld(c, held) /\ ResetPending(c) /\ c.due > t
    BY <2>3 DEF Judged, BeforeReset
  <2>4. CASE ~Withheld(c, held) /\ ResetPending(c) /\ ~(c.due > t)
    BY <2>4 DEF Judged, AfterReset, ConfirmReset
  <2>. QED
    BY <2>1, <2>2, <2>3, <2>4
<1>. QED
  BY <1>1, <1>2 DEF Reconcile

-----------------------------------------------------------------------------
(* What a step does to a credential                                          *)

\* A disabled row is not shown as available, unless it is preferred.
Respected(c) == c.disabled /\ ~c.preferred => c.state # "available"

\* Row c may become d at time t: a reset awaited by c is awaited by d, or was
\* confirmed; and the administrator's flag is respected as long as it was.
Becomes(c, d, t) ==
    /\ Awaits(c, t) => d.due = c.due \/ (AtLeast(d.confirmed, c.due) /\ ~Blocked(d))
    /\ JsonColumns /\ Respected(c) => Respected(d)

LEMMA ReconcileBecomes ==
    ASSUME NEW c \in Credential, NEW d \in Credential, NEW held \in BOOLEAN, NEW t \in Nat,
           Awaits(c, t) => d.due = c.due \/ (AtLeast(d.confirmed, c.due) /\ ~Blocked(d))
    PROVE  Becomes(c, Reconcile(d, held, t), t)
<1> DEFINE e == Reconcile(d, held, t)
<1>1. SameReadings(d, e)
  BY ReconcileReads
<1>2. Blocked(e) = Blocked(d)
  BY <1>1 DEF SameReadings, Blocked
<1>3. JsonColumns => Respected(e)
  <2>1. CASE JsonColumns /\ e.disabled /\ ~e.preferred
    <3>1. d.disabled /\ ~d.preferred
      BY <1>1, <2>1 DEF SameReadings
    <3>. QED
      BY <2>1, <3>1, WithheldNotAvailable DEF Respected
  <2>2. CASE ~(JsonColumns /\ e.disabled /\ ~e.preferred)
    BY <2>2 DEF Respected
  <2>. QED
    BY <2>1, <2>2
<1>4. ASSUME Awaits(c, t)
      PROVE  e.due = c.due \/ (AtLeast(e.confirmed, c.due) /\ ~Blocked(e))
  <2>1. CASE d.due = c.due
    <3>1. Awaits(d, t)
      BY <1>4, <2>1 DEF Awaits, ResetPending
    <3>. QED
      BY <1>2, <2>1, <3>1, AwaitedOutcome
  <2>2. CASE AtLeast(d.confirmed, c.due) /\ ~Blocked(d)
    BY <1>2, <2>2, ConfirmedStays DEF AtLeast
  <2>. QED
    BY <1>4, <2>1, <2>2
<1>. QED
  BY <1>3, <1>4 DEF Becomes

LEMMA LeasedBecomes ==
    ASSUME NEW c \in Credential, NEW d \in Credential, NEW t \in Nat, Becomes(c, d, t)
    PROVE  Becomes(c, [d EXCEPT !.state = "leased"], t)
<1> DEFINE e == [d EXCEPT !.state = "leased"]
<1>1. /\ e.due = d.due /\ e.confirmed = d.confirmed /\ e.state = "leased"
      /\ e.util = d.util /\ e.quota = d.quota
  BY DEF Credential
<1>. QED
  BY <1>1 DEF Becomes, Respected, Blocked

LEMMA TelemetryBecomes ==
    ASSUME NEW c \in Credential, NEW t \in Nat,
           NEW r \in [captured : Nat, error : BOOLEAN, grace : BOOLEAN,
                      util : Nullable(Nat), quota : Nullable(Nat)]
    PROVE  Becomes(c, ApplyTelemetry(c, r), t)
<1> DEFINE d == ApplyTelemetry(c, r)
<1>1. d.state # "available"
  BY TelemetryType
<1>2. /\ d.util = r.util /\ d.quota = r.quota
      /\ d.due = IF Exhausts(r) \/ (Crowds(r) /\ AtLeast(r.util, MaxAssignable))
                 THEN DueOrWeekly(c)
                 ELSE IF ConfirmsReset(c, r) THEN None
                 ELSE c.due
      /\ d.confirmed = IF ConfirmsReset(c, r) THEN r.captured ELSE c.confirmed
  BY DEF ApplyTelemetry, Credential
<1> HIDE DEF d
<1>3. ASSUME Awaits(c, t), d.due # c.due
      PROVE  AtLeast(d.confirmed, c.due) /\ ~Blocked(d)
  <2>1. DueOrWeekly(c) = c.due
    BY <1>3 DEF Awaits, ResetPending, DueOrWeekly
  <2>2. ConfirmsReset(c, r)
    BY <1>2, <1>3, <2>1
  <2>3. d.confirmed = r.captured /\ r.captured \in Nat /\ r.captured >= c.due
    BY <1>2, <2>2 DEF ConfirmsReset
  <2>4. ~Blocked(d)
    BY <1>2, <2>2 DEF ConfirmsReset, Blocked
  <2>. QED
    BY <2>3, <2>4, PolicyAssumption DEF AtLeast
<1>. QED
  BY <1>1, <1>3 DEF Becomes, Respected, d

LEMMA ExpiredBecomes ==
    ASSUME TypeOK, NEW S \in SUBSET LeaseIds, NEW c \in Credentials
    PROVE  Becomes(cred[c], CredsExpired(S)[c], now)
<1>1. cred[c] \in Credential /\ now \in Nat
  BY DEF TypeOK
<1>2. Becomes(cred[c], cred[c], now)
  BY DEF Becomes
<1>3. Becomes(cred[c], Reconcile(cred[c], FALSE, now), now)
  BY <1>1, ReconcileBecomes
<1>. QED
  BY <1>2, <1>3 DEF CredsExpired

LEMMA AllReconciledBecomes ==
    ASSUME TypeOK, NEW cs \in [Credentials -> Credential], NEW ls, NEW c \in Credentials,
           Becomes(cred[c], cs[c], now)
    PROVE  Becomes(cred[c], AllReconciled(cs, ls)[c], now)
<1>1. cred[c] \in Credential /\ now \in Nat /\ cs[c] \in Credential
  BY DEF TypeOK
<1>2. HeldIn(ls, c) \in BOOLEAN
  BY DEF HeldIn
<1>3. Becomes(cred[c], Reconcile(cs[c], HeldIn(ls, c), now), now)
  BY <1>1, <1>2, ReconcileBecomes DEF Becomes
<1>. QED
  BY <1>3 DEF AllReconciled

\* Whatever its actor, a step leaves a credential waiting for its reset or
\* confirms it, and respects the administrator's flag.
LEMMA RowStep ==
    ASSUME TypeOK, [Next]_vars, NEW c \in Credentials
    PROVE  Becomes(cred[c], cred'[c], now)
<1> DEFINE ls == LeasesExpired(OverdueLeases)
           cs == CredsExpired(OverdueLeases)
           Ok(row) == Becomes(cred[c], row, now)
<1>1. /\ now \in Nat /\ cred \in [Credentials -> Credential] /\ cred[c] \in Credential
      /\ lease \in [LeaseIds -> Lease] /\ cs \in [Credentials -> Credential]
      /\ Ok(cred[c]) /\ Ok(cs[c])
  BY ExpireType, ExpiredBecomes DEF TypeOK, OverdueLeases, Overdue, Becomes
<1>2. CASE UNCHANGED cred
  BY <1>1, <1>2
<1>3. ASSUME NEW m \in Machines, AcquireReuse(m)
      PROVE  Ok(cred'[c])
  BY <1>1, <1>3 DEF AcquireReuse
<1>4. ASSUME NEW m \in Machines, NEW a \in Agents, NEW ttl \in TTLs,
             NEW exclude \in SUBSET Credentials, AcquireNew(m, a, ttl, exclude)
      PROVE  Ok(cred'[c])
  <2> DEFINE rs == AllReconciled(cs, ls)
  <2>1. rs \in [Credentials -> Credential] /\ Ok(rs[c])
    BY <1>1, AllReconciledType, AllReconciledBecomes
  <2>2. Ok([rs[c] EXCEPT !.state = "leased"])
    BY <1>1, <2>1, LeasedBecomes
  <2>3. cred' = rs \/ \E d : cred' = [rs EXCEPT ![d].state = "leased"]
    BY <1>4 DEF AcquireNew
  <2> HIDE DEF rs, Ok
  <2>. QED
    BY <2>1, <2>2, <2>3
<1> HIDE DEF ls, cs
<1>5. ASSUME NEW S \in SUBSET LeaseIds, Expire(S)
      PROVE  Ok(cred'[c])
  BY <1>5, ExpiredBecomes DEF Expire
<1>6. ASSUME NEW l \in LeaseIds, Release(l)
      PROVE  Ok(cred'[c])
  <2>1. Ok(Reconcile(cred[c], FALSE, now))
    BY <1>1, ReconcileBecomes
  <2>. QED
    BY <1>1, <1>6, <2>1 DEF Release
<1>7. ASSUME NEW l \in LeaseIds, Rotate(l)
      PROVE  Ok(cred'[c])
  <2> DEFINE rs == AllReconciled(cred, lease)
             old == lease[l].cred
  <2>1. rs \in [Credentials -> Credential] /\ Ok(rs[c])
    BY <1>1, AllReconciledType, AllReconciledBecomes
  <2>2. Ok([rs[c] EXCEPT !.state = "leased"])
    BY <1>1, <2>1, LeasedBecomes
  <2>3. Ok(Reconcile(rs[c], FALSE, now))
    BY <1>1, <2>1, ReconcileBecomes DEF Becomes
  <2>4. \/ cred' = rs
        \/ \E d : d # old /\ cred' = [rs EXCEPT ![d].state = "leased",
                                              ![old] = Reconcile(rs[old], FALSE, now)]
    BY <1>7 DEF Rotate, RotateCandidates, Narrowed, Eligible, BelowRotationIn
  <2> HIDE DEF rs, old, Ok
  <2>. QED
    BY <2>1, <2>2, <2>3, <2>4
<1>8. ASSUME NEW l \in LeaseIds, NEW at \in ReportTimes, NEW report \in Reports,
             Telemetry(l, at, report)
      PROVE  Ok(cred'[c])
  <2> DEFINE d == lease[l].cred
             r == Effective(l, at, report)
  <2>1. lease[l] \in IssuedLease
    BY <1>1, <1>8, ActiveIssued DEF Telemetry
  <2>2. d \in Credentials /\ cred[d] \in Credential /\ at \in Nat
    BY <1>1, <2>1 DEF IssuedLease, ReportTimes
  <2>3. r \in [captured : Nat, error : BOOLEAN, grace : BOOLEAN,
               util : Nullable(Nat), quota : Nullable(Nat)]
    <3>1. report \in Report
      BY BrokerAssumption
    <3>2. cred[d].util \in Nullable(Nat) /\ cred[d].quota \in Nullable(Nat)
      BY <2>2 DEF Credential
    <3>. QED
      BY <2>2, <3>1, <3>2 DEF Effective, Report
  <2>4. cred' = [cred EXCEPT ![d] = ApplyTelemetry(cred[d], r)]
    BY <1>8 DEF Telemetry
  <2> HIDE DEF d, r
  <2>5. Ok(ApplyTelemetry(cred[c], r))
    BY <1>1, <2>3, TelemetryBecomes
  <2> HIDE DEF Ok
  <2>. QED
    BY <1>1, <2>4, <2>5
<1>9. ASSUME NEW d \in Credentials, NEW row \in Credential, row.due = cred[d].due,
             cred' = [cred EXCEPT ![d] = Reconcile(row, HeldIn(lease, d), now)]
      PROVE  Ok(cred'[c])
  <2>1. HeldIn(lease, d) \in BOOLEAN
    BY DEF HeldIn
  <2>2. Becomes(cred[d], Reconcile(row, HeldIn(lease, d), now), now)
    BY <1>1, <1>9, <2>1, ReconcileBecomes
  <2> HIDE DEF Ok
  <2>. QED
    BY <1>1, <1>9, <2>2 DEF Ok
<1>10. ASSUME NEW d \in Credentials, NEW reading \in Readings, NEW at \in ReadingTimes,
              NEW weekly \in ResetsAfter(at), Sync(d, reading, weekly, at)
       PROVE  Ok(cred'[c])
  <2>1. SyncedRow(d, reading, weekly, at).due = cred[d].due
    BY <1>1 DEF SyncedRow, Credential
  <2>. QED
    BY <1>9, <1>10, <2>1, SyncRowType DEF Sync
<1>11. ASSUME NEW d \in Credentials, MarkExhausted(d)
       PROVE  Ok(cred'[c])
  <2>1. /\ Exhausted(cred[c]).state = "exhausted"
        /\ Exhausted(cred[c]).due = DueOrWeekly(cred[c])
    BY <1>1 DEF Exhausted, Credential
  <2>2. Ok(Exhausted(cred[c]))
    BY <2>1 DEF Becomes, Awaits, ResetPending, DueOrWeekly, Respected
  <2> HIDE DEF Ok
  <2>. QED
    BY <1>1, <1>11, <2>2 DEF MarkExhausted
<1>12. ASSUME NEW d \in Credentials, NEW flag \in AdminFlags, SetDisabled(d, flag)
       PROVE  Ok(cred'[c])
  <2>1. /\ [cred[d] EXCEPT !.disabled = flag] \in Credential
        /\ [cred[d] EXCEPT !.disabled = flag].due = cred[d].due
    BY <1>1, BrokerAssumption DEF Credential
  <2>. QED
    BY <1>9, <1>12, <2>1 DEF SetDisabled
<1>13. ASSUME NEW l \in LeaseIds, Renew(l) \/ Materialize(l) \/ ReadStatus(l)
       PROVE  Ok(cred'[c])
  <2>1. UNCHANGED cred \/ Expire({l})
    BY <1>13 DEF Renew, Materialize, ReadStatus, ExpireOnAccess
  <2>. QED
    BY <1>2, <1>5, <2>1
<1>14. CASE ReconcileLeases
  BY <1>5, <1>14 DEF ReconcileLeases, OverdueLeases
<1>. QED
  BY <1>2, <1>3, <1>4, <1>6, <1>7, <1>8, <1>10, <1>11, <1>12, <1>13, <1>14
     DEF Next, ClientStep, ManagerStep, Tick, vars, Ok

\* However late its readings arrive, however often its row is reconciled, and
\* whoever reports on it, a credential whose weekly reset is due comes back
\* with a reading taken after the boundary, never by the passing of time.
THEOREM ResetConfirmedByReading == Spec => ResetNeedsReading
<1>1. TypeOK /\ [Next]_vars => ResetStep
  BY RowStep DEF ResetStep, Becomes, Awaits, ResetPending
<1>. QED
  BY <1>1, TypeCorrect, PTL DEF Spec, ResetNeedsReading

\* A credential that is free, wanted and below the thresholds is assignable at
\* the next selection, whatever reports and crashes left in its state.
THEOREM FreeIsNotLost == Spec => []FreeNotLost
<1>1. TypeOK => FreeNotLost
  BY FreeAssignable DEF TypeOK, FreeNotLost
<1>. QED
  BY <1>1, TypeCorrect, PTL

\* Where the flags are read back decoded, no operation shows a credential that
\* the administrator disabled as available, unless it is preferred.
THEOREM DisabledIsNotOffered ==
    ASSUME JsonColumns
    PROVE  Spec => []DisabledNotOffered
<1>1. Init => DisabledNotOffered
  BY DEF Init, DisabledNotOffered, NewCredential
<1>2. TypeOK /\ DisabledNotOffered /\ [Next]_vars => DisabledNotOffered'
  <2> SUFFICES ASSUME TypeOK, DisabledNotOffered, [Next]_vars, NEW c \in Credentials
               PROVE  Respected(cred'[c])
    BY DEF DisabledNotOffered, Respected
  <2>1. Respected(cred[c])
    BY DEF DisabledNotOffered, Respected
  <2>. QED
    BY <2>1, RowStep DEF Becomes
<1>. QED
  BY <1>1, <1>2, TypeCorrect, PTL DEF Spec

-----------------------------------------------------------------------------
(* Grants                                                                    *)

\* Row c may be leased: its readings are below the thresholds, whoever
\* withholds it is overruled, and a reset that was due is confirmed.
Fit(c, t) ==
    /\ ~Blocked(c) /\ ~Exhausting(c)
    /\ c.disabled \/ c.reauth => c.preferred
    /\ ResetPending(c) /\ c.due <= t =>
          AtLeast(c.confirmed, c.due) \/ AtLeast(c.telemetry, c.due)

\* What c was reconciled to, as far as a grant depends on it.
Stands(c, d, t) ==
    /\ SameReadings(c, d)
    /\ Awaits(c, t) => \/ AtLeast(c.confirmed, c.due) \/ AtLeast(c.telemetry, c.due)
                       \/ d.due = c.due /\ d.confirmed = c.confirmed

LEMMA ReconcileStands ==
    ASSUME NEW c \in Credential, NEW d \in Credential, NEW held \in BOOLEAN, NEW t \in Nat,
           Stands(c, d, t)
    PROVE  Stands(c, Reconcile(d, held, t), t)
<1> DEFINE e == Reconcile(d, held, t)
<1>1. SameReadings(d, e)
  BY ReconcileReads
<1>2. SameReadings(c, e)
  BY <1>1 DEF SameReadings, Stands
<1>3. ASSUME Awaits(c, t), ~AtLeast(c.confirmed, c.due), ~AtLeast(c.telemetry, c.due)
      PROVE  e.due = c.due /\ e.confirmed = c.confirmed
  <2>1. d.due = c.due /\ d.confirmed = c.confirmed /\ d.telemetry = c.telemetry
    BY <1>3 DEF Stands, SameReadings
  <2>2. Awaits(d, t)
    BY <1>3, <2>1 DEF Awaits, ResetPending
  <2>. QED
    BY <1>3, <2>1, <2>2, AwaitedOutcome
<1>. QED
  BY <1>2, <1>3 DEF Stands

\* The reconciled row is not taken at its word: that it is assignable says
\* that the row it was made of was fit.
LEMMA AssignableFit ==
    ASSUME JsonColumns, NEW c \in Credential, NEW d \in Credential, NEW held \in BOOLEAN,
           NEW t \in Nat, Stands(c, d, t), Assignable(Reconcile(d, held, t))
    PROVE  Fit(c, t)
<1> DEFINE e == Reconcile(d, held, t)
<1>1. Stands(c, e, t)
  BY ReconcileStands
<1>2. SameReadings(d, e) /\ SameReadings(c, d)
  BY ReconcileReads DEF Stands
<1>3. ~Blocked(c) /\ ~Exhausting(c)
  BY <1>1 DEF Stands, SameReadings, Assignable, Blocked, Exhausting
<1>4. ASSUME c.disabled \/ c.reauth, ~c.preferred PROVE FALSE
  <2>1. (d.disabled \/ d.reauth) /\ ~d.preferred /\ ~e.preferred
    BY <1>2, <1>4 DEF SameReadings
  <2>2. e.state \in {"leased", "unavailable_for_assignment"}
    BY <2>1, WithheldNotAvailable
  <2>. QED
    BY <2>1, <2>2 DEF Assignable
<1>5. ASSUME ResetPending(c), c.due <= t
      PROVE  AtLeast(c.confirmed, c.due) \/ AtLeast(c.telemetry, c.due)
  <2>1. CASE e.due = c.due /\ e.confirmed = c.confirmed
    BY <1>5, <2>1 DEF Assignable, ResetPending, ResetConfirmed, AtLeast
  <2>. QED
    BY <1>1, <1>5, <2>1 DEF Stands, Awaits
<1>. QED
  BY <1>3, <1>4, <1>5 DEF Fit

\* Only an acquire and a rotation use a new id, on a credential that was
\* assignable in the transaction that reconciled it.
LEMMA GrantOrigin ==
    ASSUME TypeOK, [Next]_vars, NEW l \in LeaseIds,
           lease[l].state = "none", lease'[l].state # "none"
    PROVE  \E c \in Credentials : \E held \in BOOLEAN :
              /\ lease'[l].cred = c
              /\ \/ Assignable(Reconcile(cred[c], held, now))
                 \/ Assignable(Reconcile(CredsExpired(OverdueLeases)[c], held, now))
<1> DEFINE ls == LeasesExpired(OverdueLeases)
           cs == CredsExpired(OverdueLeases)
           Origin == \E c \in Credentials : \E held \in BOOLEAN :
                        /\ lease'[l].cred = c
                        /\ \/ Assignable(Reconcile(cred[c], held, now))
                           \/ Assignable(Reconcile(cs[c], held, now))
<1>1. lease \in [LeaseIds -> Lease] /\ now \in Nat
  BY DEF TypeOK
<1>2. ls \in [LeaseIds -> Lease] /\ ls[l].state = "none"
  BY ExpireType, ExpireFollows, MovesForward DEF OverdueLeases, Overdue
<1>3. ASSUME Follows(l) PROVE FALSE
  BY <1>3, FollowsForward
<1>4. ASSUME NEW m \in Machines, AcquireReuse(m)
      PROVE  FALSE
  <2>1. PICK k \in Reusable(cs, ls, m) : lease' = [ls EXCEPT ![k].seen = now]
    BY <1>4 DEF AcquireReuse
  <2>2. k # l
    BY <1>2, <2>1 DEF Reusable, ActiveIn, ActiveStates
  <2> HIDE DEF ls
  <2>. QED
    BY <1>2, <2>1, <2>2
<1>5. ASSUME NEW m \in Machines, NEW a \in Agents, NEW ttl \in TTLs,
             NEW exclude \in SUBSET Credentials, AcquireNew(m, a, ttl, exclude)
      PROVE  Origin
  <2> DEFINE rs == AllReconciled(cs, ls)
             candidates == AcquireCandidates(rs, m, a, exclude)
  <2>1. lease' # ls
    BY <1>2
  <2>2. PICK c \in candidates, k \in FreeIds : lease' = [ls EXCEPT ![k] = NewLease(c, m, a, ttl)]
    BY <1>5, <2>1 DEF AcquireNew
  <2>3. c \in Credentials /\ Assignable(rs[c])
    BY DEF AcquireCandidates, Narrowed, Eligible, BelowRotationIn
  <2>4. Assignable(Reconcile(cs[c], HeldIn(ls, c), now)) /\ HeldIn(ls, c) \in BOOLEAN
    BY <2>3 DEF AllReconciled, HeldIn
  <2> HIDE DEF ls, candidates
  <2>5. lease'[l].cred = c
    BY <1>2, <2>2 DEF NewLease
  <2>. QED
    BY <2>3, <2>4, <2>5
<1> HIDE DEF ls, cs
<1>6. ASSUME NEW k \in LeaseIds, Rotate(k)
      PROVE  Origin
  <2> DEFINE rs == AllReconciled(cred, lease)
             candidates == RotateCandidates(rs, lease[k].machine, lease[k].agent, lease[k].cred)
  <2>1. PICK c \in candidates, new \in FreeIds :
            lease' = [lease EXCEPT
                        ![new] = NewLease(c, lease[k].machine, lease[k].agent, DefaultTTL),
                        ![k].state = "released",
                        ![k].replacement = new]
    BY <1>6 DEF Rotate
  <2>2. c \in Credentials /\ Assignable(rs[c])
    BY DEF RotateCandidates, Narrowed, Eligible, BelowRotationIn
  <2>3. Assignable(Reconcile(cred[c], HeldIn(lease, c), now)) /\ HeldIn(lease, c) \in BOOLEAN
    BY <2>2 DEF AllReconciled, HeldIn
  <2>4. k # l
    BY <1>6 DEF Rotate, ActiveIn, ActiveStates
  <2> HIDE DEF candidates
  <2>5. lease'[l].cred = c
    BY <1>1, <2>1, <2>4 DEF NewLease
  <2>. QED
    BY <2>2, <2>3, <2>5
<1>7. ASSUME NEW S \in SUBSET LeaseIds, \A k \in S : ActiveIn(lease, k), Expire(S)
      PROVE  FALSE
  BY <1>3, <1>7, ExpireFollows DEF Expire, Follows
<1>8. ASSUME NEW k \in LeaseIds, Renew(k) \/ Materialize(k) \/ ReadStatus(k) \/ Release(k)
      PROVE  FALSE
  <2>1. CASE ExpireOnAccess(k)
    BY <1>7, <2>1 DEF ExpireOnAccess, Overdue
  <2>2. CASE ~ExpireOnAccess(k)
    <3>1. ActiveIn(lease, k)
      BY <1>8, <2>2 DEF Renew, Materialize, ReadStatus, Release, ActiveIn, ActiveStates
    <3>2. k # l /\ \A j \in LeaseIds \ {k} : lease'[j] = lease[j]
      BY <1>1, <1>8, <2>2, <3>1 DEF Renew, Materialize, ReadStatus, Release, ActiveIn, ActiveStates
    <3>. QED
      BY <3>2
  <2>. QED
    BY <2>1, <2>2
<1>9. ASSUME NEW k \in LeaseIds, NEW at \in ReportTimes, NEW report \in Reports,
             Telemetry(k, at, report)
      PROVE  FALSE
  BY <1>3, <1>9, TelemetryFollows
<1>10. ASSUME ReconcileLeases PROVE FALSE
  BY <1>7, <1>10 DEF ReconcileLeases, OverdueLeases, Overdue
<1>11. ASSUME NEW c, lease' = Revoked(lease, c)
       PROVE  FALSE
  BY <1>1, <1>3, <1>11, RevokeFollows DEF Follows
<1>12. lease' # lease
  OBVIOUS
<1>13. Origin
  BY <1>4, <1>5, <1>6, <1>8, <1>9, <1>10, <1>11, <1>12
     DEF Next, ClientStep, ManagerStep, Sync, MarkExhausted, SetDisabled, Tick, vars
<1>. QED
  BY <1>13 DEF cs

\* Where the flags are read back decoded, a lease is only ever granted on a
\* credential that was fit when the transaction began, whatever its state said.
THEOREM GrantsAreFit ==
    ASSUME JsonColumns
    PROVE  Spec => OnlyFitGranted
<1>1. TypeOK /\ [Next]_vars => GrantStep
  <2> SUFFICES ASSUME TypeOK, [Next]_vars, NEW l \in LeaseIds,
                      lease[l].state = "none", lease'[l].state # "none"
               PROVE  Fit(cred[lease'[l].cred], now)
    BY DEF GrantStep, Fit
  <2> DEFINE cs == CredsExpired(OverdueLeases)
  <2>1. PICK c \in Credentials : \E held \in BOOLEAN :
           /\ lease'[l].cred = c
           /\ \/ Assignable(Reconcile(cred[c], held, now))
              \/ Assignable(Reconcile(cs[c], held, now))
    BY GrantOrigin
  <2>2. now \in Nat /\ cred[c] \in Credential /\ cs[c] \in Credential
    BY ExpireType DEF TypeOK, OverdueLeases, Overdue
  <2>3. Stands(cred[c], cred[c], now)
    BY DEF Stands, SameReadings
  <2>4. Stands(cred[c], cs[c], now)
    BY <2>2, <2>3, ReconcileStands DEF CredsExpired
  <2>. QED
    BY <2>1, <2>2, <2>3, <2>4, AssignableFit
<1>. QED
  BY <1>1, TypeCorrect, PTL DEF Spec, OnlyFitGranted

=============================================================================
