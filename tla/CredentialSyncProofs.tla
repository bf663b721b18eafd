------------------------ MODULE CredentialSyncProofs ------------------------
(* Proofs about CredentialSync for every value of its constants: syncs and    *)
(* refreshes of many processes, interleaved with each other, with crashes and *)
(* with the clients of the broker.                                            *)
EXTENDS CredentialSync, LeasePolicyProofs

-----------------------------------------------------------------------------
(* What the steps mean to the broker                                         *)

\* The broker's part of the state.
BrokerOK == TypeOK /\ NoDoubleLease /\ HeldNotAvailable

\* No column of the administrator changes.
FlagsKept == \A c \in Credentials : cred'[c].disabled = cred[c].disabled

\* A process rewrites row c and reconciles it with its leases.
Writes(c, row) ==
    /\ cred' = [cred EXCEPT ![c] = Reconcile(row, HeldIn(lease, c), now)]
    /\ UNCHANGED <<lease, now>>

LEMMA BrokerStep ==
    ASSUME BrokerOK, [Next]_vars
    PROVE  BrokerOK'
BY TypeStep, ExclusionStep, HeldStep DEF BrokerOK

\* A row that a process writes on what it read earlier is well formed, and no
\* held credential becomes available: the leases are read again.
LEMMA WriteStep ==
    ASSUME BrokerOK, NEW c \in Credentials, NEW row \in Credential, Writes(c, row)
    PROVE  /\ BrokerOK'
           /\ cred'[c].disabled = row.disabled
           /\ \A d \in Credentials \ {c} : cred'[d].disabled = cred[d].disabled
<1> DEFINE held == HeldIn(lease, c)
           new == Reconcile(row, held, now)
<1>1. /\ now \in Nat /\ cred \in [Credentials -> Credential] /\ held \in BOOLEAN
      /\ lease \in [LeaseIds -> Lease] /\ cred' = [cred EXCEPT ![c] = new]
      /\ UNCHANGED <<lease, now>>
  BY DEF BrokerOK, TypeOK, Writes, HeldIn
<1>2. new \in Credential /\ new.disabled = row.disabled
  BY <1>1, ReconcileType, ReconcileReads DEF SameReadings
<1>3. held => new.state # "available"
  <2>1. CASE held = TRUE
    BY <1>1, <2>1, HeldNotShownAvailable
  <2>. QED
    BY <1>1, <2>1
<1>4. ASSUME NEW l \in LeaseIds, ActiveIn(lease', l)
      PROVE  cred'[lease'[l].cred].state # "available"
  <2>1. ActiveIn(lease, l) /\ lease'[l].cred = lease[l].cred
    BY <1>1, <1>4 DEF ActiveIn
  <2>2. lease[l].cred \in Credentials /\ cred[lease[l].cred].state # "available"
    BY <1>1, <2>1, ActiveIssued
       DEF BrokerOK, HeldNotAvailable, ActiveIn, ActiveStates, IssuedLease
  <2>3. lease[l].cred = c => held
    BY <2>1 DEF HeldIn
  <2> HIDE DEF held, new
  <2>. QED
    BY <1>1, <1>3, <2>1, <2>2, <2>3
<1> HIDE DEF held, new
<1>5. TypeOK' /\ NoDoubleLease'
  BY <1>1, <1>2 DEF BrokerOK, TypeOK, NoDoubleLease, ActiveIn
<1>. QED
  BY <1>1, <1>2, <1>4, <1>5 DEF BrokerOK, HeldNotAvailable, ActiveIn

\* What lists leases or credentials is a step of the broker.
LEMMA ListedStep ==
    ASSUME TypeOK, ExpireListed
    PROVE  [Next]_vars
<1>1. CASE OverdueLeases # {}
  BY <1>1 DEF ExpireListed, ReconcileLeases, Expire, Next, ManagerStep
<1>2. CASE OverdueLeases = {}
  BY <1>2 DEF ExpireListed, LeasesExpired, CredsExpired, TypeOK, vars
<1>. QED
  BY <1>1, <1>2

\* A report keeps the administrator's column, as a reconciliation does.
LEMMA ReportedFlag ==
    ASSUME NEW c \in Credential, NEW r
    PROVE  ApplyTelemetry(c, r).disabled = c.disabled
BY DEF ApplyTelemetry, Credential

LEMMA ReconciledFlag ==
    ASSUME NEW c \in Credential, NEW held \in BOOLEAN, NEW t \in Nat
    PROVE  Reconcile(c, held, t).disabled = c.disabled
BY ReconcileReads DEF SameReadings

LEMMA ExpiredFlags ==
    ASSUME TypeOK, NEW S \in SUBSET LeaseIds, NEW c \in Credentials
    PROVE  CredsExpired(S)[c].disabled = cred[c].disabled
BY ReconciledFlag DEF TypeOK, CredsExpired

LEMMA AllReconciledFlags ==
    ASSUME TypeOK, NEW cs \in [Credentials -> Credential], NEW ls, NEW c \in Credentials
    PROVE  AllReconciled(cs, ls)[c].disabled = cs[c].disabled
<1>1. HeldIn(ls, c) \in BOOLEAN /\ cs[c] \in Credential /\ now \in Nat
  BY DEF HeldIn, TypeOK
<1>. QED
  BY <1>1, ReconciledFlag DEF AllReconciled

\* No client, no reconciliation and no revocation touches the administrator's
\* column.
LEMMA FlagStep ==
    ASSUME TypeOK,
           ClientStep \/ ReconcileLeases \/ Tick \/ (\E c \in Credentials : MarkExhausted(c))
    PROVE  FlagsKept
<1> DEFINE ls == LeasesExpired(OverdueLeases)
           cs == CredsExpired(OverdueLeases)
<1> SUFFICES ASSUME NEW c \in Credentials
             PROVE  cred'[c].disabled = cred[c].disabled
  BY DEF FlagsKept
<1>1. /\ now \in Nat /\ cred \in [Credentials -> Credential] /\ cred[c] \in Credential
      /\ lease \in [LeaseIds -> Lease] /\ cs \in [Credentials -> Credential]
      /\ cs[c].disabled = cred[c].disabled
  BY ExpireType, ExpiredFlags DEF TypeOK, OverdueLeases, Overdue
<1>2. ASSUME NEW m \in Machines, AcquireReuse(m)
      PROVE  cred'[c].disabled = cred[c].disabled
  BY <1>1, <1>2 DEF AcquireReuse
<1>3. ASSUME NEW m \in Machines, NEW a \in Agents, NEW ttl \in TTLs,
             NEW exclude \in SUBSET Credentials, AcquireNew(m, a, ttl, exclude)
      PROVE  cred'[c].disabled = cred[c].disabled
  <2> DEFINE rs == AllReconciled(cs, ls)
  <2>1. rs \in [Credentials -> Credential] /\ rs[c].disabled = cred[c].disabled
    BY <1>1, AllReconciledType, AllReconciledFlags
  <2>2. cred' = rs \/ \E d : cred' = [rs EXCEPT ![d].state = "leased"]
    BY <1>3 DEF AcquireNew
  <2> HIDE DEF rs
  <2>3. CASE cred' = rs
    BY <2>1, <2>3
  <2>4. CASE \E d : cred' = [rs EXCEPT ![d].state = "leased"]
    <3>1. PICK d : cred' = [rs EXCEPT ![d].state = "leased"]
      BY <2>4
    <3>. QED
      BY <2>1, <3>1 DEF Credential
  <2>. QED
    BY <2>2, <2>3, <2>4
<1> HIDE DEF ls, cs
<1>4. ASSUME NEW S \in SUBSET LeaseIds, Expire(S)
      PROVE  cred'[c].disabled = cred[c].disabled
  BY <1>4, ExpiredFlags DEF Expire
<1>5. ASSUME NEW l \in LeaseIds, Release(l)
      PROVE  cred'[c].disabled = cred[c].disabled
  <2>1. Reconcile(cred[c], FALSE, now).disabled = cred[c].disabled
    BY <1>1, ReconciledFlag
  <2>. QED
    BY <1>1, <1>5, <2>1 DEF Release
<1>6. ASSUME NEW l \in LeaseIds, Rotate(l)
      PROVE  cred'[c].disabled = cred[c].disabled
  <2> DEFINE rs == AllReconciled(cred, lease)
             old == lease[l].cred
  <2>1. rs \in [Credentials -> Credential] /\ rs[c].disabled = cred[c].disabled
    BY <1>1, AllReconciledType, AllReconciledFlags
  <2>2. Reconcile(rs[c], FALSE, now).disabled = rs[c].disabled
    BY <1>1, <2>1, ReconciledFlag
  <2>3. \/ cred' = rs
        \/ \E d : d # old /\ cred' = [rs EXCEPT ![d].state = "leased",
                                              ![old] = Reconcile(rs[old], FALSE, now)]
    BY <1>6 DEF Rotate, RotateCandidates, Narrowed, Eligible, BelowRotationIn
  <2> HIDE DEF rs, old
  <2>4. CASE cred' = rs
    BY <2>1, <2>4
  <2>5. CASE \E d : d # old /\ cred' = [rs EXCEPT ![d].state = "leased",
                                                 ![old] = Reconcile(rs[old], FALSE, now)]
    <3>1. PICK d : d # old /\ cred' = [rs EXCEPT ![d].state = "leased",
                                                 ![old] = Reconcile(rs[old], FALSE, now)]
      BY <2>5
    <3>2. CASE c = old
      BY <2>1, <2>2, <3>1, <3>2
    <3>3. CASE c # old
      BY <2>1, <3>1, <3>3 DEF Credential
    <3>. QED
      BY <3>2, <3>3
  <2>. QED
    BY <2>3, <2>4, <2>5
<1>7. ASSUME NEW l \in LeaseIds, NEW at \in ReportTimes, NEW report \in Reports,
             Telemetry(l, at, report)
      PROVE  cred'[c].disabled = cred[c].disabled
  BY <1>1, <1>7, ReportedFlag DEF Telemetry
<1>8. ASSUME NEW l \in LeaseIds, Renew(l) \/ Materialize(l) \/ ReadStatus(l)
      PROVE  cred'[c].disabled = cred[c].disabled
  BY <1>4, <1>8 DEF Renew, Materialize, ReadStatus, ExpireOnAccess
<1>9. ASSUME NEW d \in Credentials, MarkExhausted(d)
       PROVE  cred'[c].disabled = cred[c].disabled
  BY <1>1, <1>9 DEF MarkExhausted, Exhausted, Credential
<1>10. CASE ReconcileLeases
  BY <1>4, <1>10 DEF ReconcileLeases, OverdueLeases
<1>. QED
  BY <1>2, <1>3, <1>5, <1>6, <1>7, <1>8, <1>9, <1>10 DEF ClientStep, Tick

-----------------------------------------------------------------------------
(* The invariant                                                             *)

\* A process has read what the step it is at needs.
SyncOK(s) ==
    /\ s.pc = "rows" => s.profiles \in [Credentials -> Lesson]
    /\ s.todo # {} => /\ s.profiles \in [Credentials -> Lesson]
                      /\ s.rows \in [Credentials -> RowSeen]
    /\ s.pc = "mark" => s.cur \in Credentials

TaskOK(t) == t.pc # "idle" => t.cred \in Credentials

StepsOK == \A p \in Procs : SyncOK(sync[p]) /\ TaskOK(task[p])

IInv == SyncTypeOK /\ NoDoubleLease /\ HeldNotAvailable /\ StepsOK /\ AdminFlagKept

LEMMA NoSyncOK == NoSync \in SyncState /\ SyncOK(NoSync)
BY DEF NoSync, SyncState, SyncOK, Nullable

LEMMA NoTaskOK == NoTask \in TaskState /\ TaskOK(NoTask)
BY DEF NoTask, TaskState, TaskOK, Nullable

\* What a sync learns from a profile is well formed.
LEMMA LearnedType ==
    ASSUME SyncTypeOK, NEW p \in Procs, NEW c \in Credentials
    PROVE  Learned(p, c) \in Lesson
<1> DEFINE k == profile[c]
<1>1. k \in Profile /\ now \in Nat
  BY DEF SyncTypeOK, TypeOK
<1>2. /\ k.util \in Nullable(Nat) /\ k.weekly \in Nullable(Nat) /\ None \in Nullable(Nat)
      /\ (IF k.at = None THEN now ELSE k.at) \in Nat
      /\ k.reauth \in BOOLEAN
  BY <1>1 DEF Profile, Nullable
<1>3. NeedsLogin(p, c) \in BOOLEAN
  BY <1>2 DEF NeedsLogin
<1>. QED
  BY <1>2, <1>3 DEF Learned, Lesson

\* So is the row that a sync writes, with whatever flag it carries over.
LEMMA CarriedRow ==
    ASSUME TypeOK, NEW c \in Credentials, NEW r \in Lesson, NEW flag \in BOOLEAN
    PROVE  LET row == [SyncedRow(c, r, r.weekly, r.at) EXCEPT !.disabled = flag]
           IN  row \in Credential /\ row.disabled = flag
<1>1. cred[c] \in Credential
  BY DEF TypeOK
<1>2. /\ r.util \in Nullable(Nat) /\ r.quota \in Nullable(Nat) /\ r.weekly \in Nullable(Nat)
      /\ r.at \in Nullable(Nat) /\ r.reauth \in BOOLEAN /\ r.preferred \in BOOLEAN
  BY DEF Lesson, Nullable
<1>3. SyncedRow(c, r, r.weekly, r.at) \in Credential
  BY <1>1, <1>2 DEF SyncedRow, Credential
<1>. QED
  BY <1>3 DEF Credential

\* What is left of a sync when the rows in todo are not yet written.
LEMMA RestOK ==
    ASSUME SyncTypeOK, StepsOK, NEW p \in Procs, NEW todo \in SUBSET sync[p].todo
    PROVE  /\ Rest(p, todo) \in SyncState /\ SyncOK(Rest(p, todo))
           /\ \A c \in Credentials :
                 LET s == [Rest(p, todo) EXCEPT !.pc = "mark", !.cur = c]
                 IN  s \in SyncState /\ SyncOK(s)
           /\ LET s == [Rest(p, todo) EXCEPT !.cur = None]
              IN  s \in SyncState /\ SyncOK(s)
<1>1. sync[p] \in SyncState /\ SyncOK(sync[p])
  BY DEF SyncTypeOK, StepsOK
<1>2. CASE todo = {}
  BY <1>2, NoSyncOK DEF Rest, NoSync, SyncState, SyncOK, Nullable
<1>3. CASE todo # {}
  <2>1. /\ sync[p].profiles \in [Credentials -> Lesson]
        /\ sync[p].rows \in [Credentials -> RowSeen]
        /\ todo \in SUBSET Credentials
    BY <1>1, <1>3 DEF SyncOK, SyncState
  <2>2. Rest(p, todo) = [sync[p] EXCEPT !.pc = "write", !.todo = todo]
    BY <1>3 DEF Rest
  <2>. QED
    BY <1>1, <2>1, <2>2 DEF SyncState, SyncOK, Nullable
<1>. QED
  BY <1>2, <1>3

\* A step moves one process.
LEMMA OneSync ==
    ASSUME SyncTypeOK, StepsOK, NEW p \in Procs, NEW s \in SyncState, SyncOK(s),
           sync' = [sync EXCEPT ![p] = s], UNCHANGED task
    PROVE  sync' \in [Procs -> SyncState] /\ StepsOK'
BY DEF SyncTypeOK, StepsOK

LEMMA OneTask ==
    ASSUME SyncTypeOK, StepsOK, NEW p \in Procs, NEW t \in TaskState, TaskOK(t),
           task' = [task EXCEPT ![p] = t], UNCHANGED sync
    PROVE  task' \in [Procs -> TaskState] /\ StepsOK'
BY DEF SyncTypeOK, StepsOK

-----------------------------------------------------------------------------
(* Its steps                                                                 *)

\* A step of the broker that leaves the administrator's column alone, with
\* whatever the processes note down.
LEMMA QuietStep ==
    ASSUME IInv, [Next]_vars, FlagsKept, UNCHANGED <<asked, overruled>>
    PROVE  BrokerOK' /\ AdminFlagKept'
<1>1. BrokerOK'
  BY BrokerStep DEF IInv, BrokerOK, SyncTypeOK
<1>2. asked \subseteq Credentials
  BY DEF IInv, SyncTypeOK
<1>. QED
  BY <1>1, <1>2 DEF IInv, AdminFlagKept, FlagsKept

LEMMA ListedQuiet ==
    ASSUME IInv, ExpireListed, UNCHANGED <<asked, overruled>>
    PROVE  BrokerOK' /\ AdminFlagKept' /\ now' = now
<1>1. TypeOK
  BY DEF IInv, SyncTypeOK
<1>2. FlagsKept
  BY <1>1, ExpiredFlags DEF ExpireListed, FlagsKept, OverdueLeases
<1>. QED
  BY <1>1, <1>2, ListedStep, QuietStep DEF ExpireListed

LEMMA SyncStepInv ==
    ASSUME IInv, NEW p \in Procs, SyncStep(p)
    PROVE  IInv'
<1>1. /\ SyncTypeOK /\ TypeOK /\ StepsOK /\ BrokerOK
      /\ sync[p] \in SyncState /\ SyncOK(sync[p]) /\ sync \in [Procs -> SyncState]
  BY DEF IInv, SyncTypeOK, StepsOK, BrokerOK
<1>2. ASSUME NEW s \in SyncState, SyncOK(s), sync' = [sync EXCEPT ![p] = s],
             UNCHANGED <<profile, refused, task, crashes, refreshes, asked>>,
             BrokerOK', AdminFlagKept', overruled' \subseteq asked
      PROVE  IInv'
  <2>1. sync' \in [Procs -> SyncState] /\ StepsOK'
    BY <1>1, <1>2, OneSync
  <2>. QED
    BY <1>1, <1>2, <2>1 DEF IInv, SyncTypeOK, BrokerOK
<1>3. CASE ListLeases(p)
  <2> DEFINE held == {c \in Credentials : HeldIn(lease', c)}
             s == [sync[p] EXCEPT !.pc = "usage", !.held = held]
  <2>1. s \in SyncState /\ SyncOK(s)
    <3>1. held \in SUBSET Credentials
      OBVIOUS
    <3> HIDE DEF held
    <3>. QED
      BY <1>1, <3>1 DEF SyncState, SyncOK
  <2>2. sync' = [sync EXCEPT ![p] = s]
    BY <1>1, <1>3 DEF ListLeases
  <2> HIDE DEF s
  <2>3. BrokerOK' /\ AdminFlagKept' /\ overruled' \subseteq asked
    BY <1>1, <1>3, ListedQuiet DEF ListLeases, SyncTypeOK
  <2>. QED
    BY <1>2, <1>3, <2>1, <2>2, <2>3 DEF ListLeases
<1>4. CASE ReadUsage(p)
  <2> DEFINE lessons == [c \in Credentials |-> Learned(p, c)]
             s == [sync[p] EXCEPT !.pc = "rows", !.profiles = lessons]
  <2>1. s \in SyncState /\ SyncOK(s)
    <3>1. lessons \in [Credentials -> Lesson]
      BY <1>1, LearnedType
    <3> HIDE DEF lessons
    <3>. QED
      BY <1>1, <3>1 DEF SyncState, SyncOK, Nullable
  <2>2. sync' = [sync EXCEPT ![p] = s]
    BY <1>1, <1>4 DEF ReadUsage
  <2> HIDE DEF s
  <2>3. BrokerOK' /\ AdminFlagKept' /\ overruled' \subseteq asked
    BY <1>1, <1>4, QuietStep DEF ReadUsage, SyncTypeOK, vars, FlagsKept
  <2>. QED
    BY <1>2, <1>4, <2>1, <2>2, <2>3 DEF ReadUsage
<1>5. CASE ListCredentials(p)
  <2> DEFINE seen == [c \in Credentials |-> [exhausted |-> cred'[c].state = "exhausted",
                                             disabled  |-> cred'[c].disabled]]
             s == [sync[p] EXCEPT !.pc = "write", !.todo = Credentials, !.rows = seen]
  <2>1. BrokerOK' /\ AdminFlagKept' /\ overruled' \subseteq asked
    BY <1>1, <1>5, ListedQuiet DEF ListCredentials, SyncTypeOK
  <2>2. s \in SyncState /\ SyncOK(s)
    <3>1. seen \in [Credentials -> RowSeen]
      BY <2>1 DEF BrokerOK, TypeOK, Credential, RowSeen
    <3>2. sync[p].profiles \in [Credentials -> Lesson]
      BY <1>1, <1>5 DEF ListCredentials, Syncing, SyncOK
    <3> HIDE DEF seen
    <3>. QED
      BY <1>1, <3>1, <3>2 DEF SyncState, SyncOK, Nullable
  <2>3. sync' = [sync EXCEPT ![p] = s]
    BY <1>1, <1>5 DEF ListCredentials
  <2> HIDE DEF s
  <2>. QED
    BY <1>2, <1>5, <2>1, <2>2, <2>3 DEF ListCredentials
<1>6. CASE WriteRow(p)
  <2> DEFINE seen == sync[p].rows
             lessons == sync[p].profiles
             Row(c) == [SyncedRow(c, lessons[c], lessons[c].weekly, lessons[c].at)
                           EXCEPT !.disabled = CarriedFlag(p, c)]
  <2>1. PICK c \in sync[p].todo :
          /\ Writes(c, Row(c))
          /\ sync' = [sync EXCEPT ![p] =
                IF Revokes(p, c)
                THEN [Rest(p, sync[p].todo \ {c}) EXCEPT !.pc = "mark", !.cur = c]
                ELSE Rest(p, sync[p].todo \ {c})]
          /\ overruled' = IF c \in asked /\ ~seen[c].disabled THEN overruled \cup {c}
                          ELSE overruled
          /\ UNCHANGED <<profile, refused, task, crashes, refreshes, asked>>
    BY <1>6 DEF WriteRow, Writes
  <2>2. /\ c \in Credentials /\ lessons \in [Credentials -> Lesson]
        /\ seen \in [Credentials -> RowSeen]
    BY <1>1, <2>1 DEF SyncState, SyncOK
  <2>3. lessons[c] \in Lesson /\ CarriedFlag(p, c) \in BOOLEAN /\ CarriedFlag(p, c) = seen[c].disabled
    BY <2>2 DEF CarriedFlag, RowSeen
  <2>4. Row(c) \in Credential /\ Row(c).disabled = seen[c].disabled
    BY <1>1, <2>2, <2>3, CarriedRow
  <2>5. \E s \in SyncState : SyncOK(s) /\ sync' = [sync EXCEPT ![p] = s]
    <3>1. sync[p].todo \ {c} \in SUBSET sync[p].todo
      OBVIOUS
    <3>. QED
      BY <1>1, <2>1, <2>2, <3>1, RestOK
  <2> HIDE DEF Row, seen, lessons
  <2>6. /\ BrokerOK' /\ cred'[c].disabled = seen[c].disabled
        /\ \A d \in Credentials \ {c} : cred'[d].disabled = cred[d].disabled
    BY <1>1, <2>1, <2>2, <2>4, WriteStep
  <2>7. AdminFlagKept' /\ overruled' \subseteq asked
    <3>1. AdminFlagKept /\ overruled \subseteq asked /\ asked \subseteq Credentials
      BY DEF IInv, SyncTypeOK
    <3>. QED
      BY <2>1, <2>6, <3>1 DEF AdminFlagKept
  <2>. QED
    BY <1>2, <2>1, <2>5, <2>6, <2>7
<1>7. CASE MarkRow(p)
  <2>1. sync[p].cur \in Credentials
    BY <1>1, <1>7 DEF MarkRow, Syncing, SyncOK
  <2>2. [Next]_vars /\ FlagsKept
    BY <1>1, <1>7, <2>1, FlagStep DEF MarkRow, Next, ManagerStep
  <2>3. BrokerOK' /\ AdminFlagKept' /\ overruled' \subseteq asked
    BY <1>1, <1>7, <2>2, QuietStep DEF MarkRow, SyncTypeOK
  <2> DEFINE s == [Rest(p, sync[p].todo) EXCEPT !.cur = None]
  <2>4. s \in SyncState /\ SyncOK(s)
    BY <1>1, RestOK
  <2>5. sync' = [sync EXCEPT ![p] = s]
    BY <1>7 DEF MarkRow
  <2> HIDE DEF s
  <2>. QED
    BY <1>2, <1>7, <2>3, <2>4, <2>5 DEF MarkRow
<1>. QED
  BY <1>3, <1>4, <1>5, <1>6, <1>7 DEF SyncStep

LEMMA TaskStepInv ==
    ASSUME IInv, NEW p \in Procs, TaskStep(p)
    PROVE  IInv'
<1>1. /\ SyncTypeOK /\ TypeOK /\ StepsOK /\ BrokerOK
      /\ task[p] \in TaskState /\ TaskOK(task[p]) /\ task \in [Procs -> TaskState]
      /\ profile \in [Credentials -> Profile] /\ refused \in [Procs -> SUBSET Credentials]
      /\ now \in Nat
  BY DEF IInv, SyncTypeOK, TypeOK, StepsOK, BrokerOK
\* What the steps of a task have in common, the broker aside.
<1>2. ASSUME NEW t \in TaskState, TaskOK(t), task' = [task EXCEPT ![p] = t],
             UNCHANGED <<sync, crashes, asked>>, refreshes' \in 0..MaxRefresh,
             profile' \in [Credentials -> Profile], refused' \in [Procs -> SUBSET Credentials],
             BrokerOK', AdminFlagKept', overruled' \subseteq asked
      PROVE  IInv'
  <2>1. task' \in [Procs -> TaskState] /\ StepsOK'
    BY <1>1, <1>2, OneTask
  <2>. QED
    BY <1>1, <1>2, <2>1 DEF IInv, SyncTypeOK, BrokerOK
<1>3. ASSUME UNCHANGED <<vars, asked, overruled>>
      PROVE  BrokerOK' /\ AdminFlagKept' /\ overruled' \subseteq asked
  BY <1>1, <1>3, QuietStep DEF SyncTypeOK, vars, FlagsKept
<1>4. ASSUME NEW c \in Credentials, NEW kind \in {"limits", "tokens"},
             NEW step \in {"fetch", "disable"}, Begin(p, c, kind, step),
             refused' \in [Procs -> SUBSET Credentials]
      PROVE  IInv'
  <2> DEFINE t == [pc |-> step, kind |-> kind, cred |-> c]
  <2>1. t \in TaskState /\ TaskOK(t)
    BY DEF TaskState, TaskOK, Nullable
  <2>2. task' = [task EXCEPT ![p] = t] /\ UNCHANGED <<vars, profile, sync, crashes, asked, overruled>>
    BY <1>4 DEF Begin
  <2>3. refreshes' \in 0..MaxRefresh
    BY <1>1, <1>4, SyncAssumption DEF Begin, SyncTypeOK
  <2> HIDE DEF t
  <2>. QED
    BY <1>1, <1>2, <1>3, <1>4, <2>1, <2>2, <2>3
<1>5. ASSUME NEW c \in Credentials, BeginLimits(p, c)
      PROVE  IInv'
  <2>1. CASE NeedsLogin(p, c)
    <3>1. \E again \in BOOLEAN :
             refused' = [refused EXCEPT ![p] = IF again THEN @ \cup {c} ELSE @ \ {c}]
      BY <1>5, <2>1 DEF BeginLimits
    <3>2. refused' \in [Procs -> SUBSET Credentials]
      BY <1>1, <3>1
    <3>. QED
      BY <1>4, <1>5, <2>1, <3>2 DEF BeginLimits
  <2>2. CASE ~NeedsLogin(p, c)
    BY <1>1, <1>4, <1>5, <2>2 DEF BeginLimits
  <2>. QED
    BY <2>1, <2>2
<1>6. ASSUME NEW c \in Credentials, BeginTokens(p, c)
      PROVE  IInv'
  BY <1>1, <1>4, <1>6 DEF BeginTokens
<1>7. ASSUME NEW step \in {"idle", "enable", "disable"}, Answered(p, step),
             profile' \in [Credentials -> Profile], refused' \in [Procs -> SUBSET Credentials]
      PROVE  IInv'
  <2> DEFINE t == IF step = "idle" THEN NoTask ELSE [task[p] EXCEPT !.pc = step]
  <2>1. task[p].cred \in Credentials
    BY <1>1, <1>7 DEF Answered, Refreshing, TaskOK
  <2>2. t \in TaskState /\ TaskOK(t)
    BY <1>1, <2>1, NoTaskOK DEF TaskState, TaskOK
  <2>3. task' = [task EXCEPT ![p] = t] /\ UNCHANGED <<vars, sync, crashes, refreshes, asked, overruled>>
    BY <1>7 DEF Answered
  <2>4. refreshes' \in 0..MaxRefresh
    BY <1>1, <2>3 DEF SyncTypeOK
  <2> HIDE DEF t
  <2>. QED
    BY <1>2, <1>3, <1>7, <2>2, <2>3, <2>4
<1>8. ASSUME NEW step, Answered(p, step)
      PROVE  task[p].cred \in Credentials
  BY <1>1, <1>8 DEF Answered, Refreshing, TaskOK
<1>9. \A c \in Credentials :
         /\ [refused EXCEPT ![p] = @ \cup {c}] \in [Procs -> SUBSET Credentials]
         /\ [refused EXCEPT ![p] = @ \ {c}] \in [Procs -> SUBSET Credentials]
  BY <1>1
<1>10. CASE LimitsRead(p)
  <2> DEFINE c == task[p].cred
  <2>1. c \in Credentials /\ Answered(p, "enable") /\ refused' = [refused EXCEPT ![p] = @ \ {c}]
    BY <1>8, <1>10 DEF LimitsRead
  <2>2. PICK level \in Levels, weekly \in ResetsAfter(now) :
           profile' = [profile EXCEPT ![c].util = level, ![c].weekly = weekly, ![c].at = now]
    BY <1>10 DEF LimitsRead
  <2>3. level \in Nullable(Nat) /\ weekly \in Nullable(Nat) /\ now \in Nullable(Nat)
    BY <1>1, SyncAssumption, BrokerAssumption DEF ResetsAfter, Nullable
  <2> HIDE DEF c
  <2>4. [profile[c] EXCEPT !.util = level, !.weekly = weekly, !.at = now] \in Profile
    <3>1. profile[c] \in Profile
      BY <1>1, <2>1
    <3>. QED
      BY <2>3, <3>1 DEF Profile
  <2>5. profile' \in [Credentials -> Profile]
    BY <1>1, <2>1, <2>2, <2>4
  <2>. QED
    BY <1>7, <1>9, <2>1, <2>5
<1>11. CASE LimitsFailed(p)
  <2>1. PICK step \in {"idle", "disable"} :
          /\ Answered(p, step) /\ UNCHANGED profile
          /\ \/ refused' = [refused EXCEPT ![p] = @ \cup {task[p].cred}]
             \/ refused' = [refused EXCEPT ![p] = @ \ {task[p].cred}]
    BY <1>11 DEF LimitsFailed
  <2>. QED
    BY <1>1, <1>7, <1>8, <1>9, <2>1
<1>12. CASE TokensRefreshed(p)
  <2> DEFINE c == task[p].cred
  <2>1. /\ c \in Credentials /\ Answered(p, "enable") /\ UNCHANGED refused
        /\ profile' = [profile EXCEPT ![c].token = "valid", ![c].reauth = FALSE]
    BY <1>8, <1>12 DEF TokensRefreshed
  <2> HIDE DEF c
  <2>2. [profile[c] EXCEPT !.token = "valid", !.reauth = FALSE] \in Profile
    <3>1. profile[c] \in Profile
      BY <1>1, <2>1
    <3>. QED
      BY <3>1 DEF Profile
  <2>3. profile' \in [Credentials -> Profile]
    BY <1>1, <2>1, <2>2
  <2>. QED
    BY <1>1, <1>7, <2>1, <2>3
<1>13. CASE TokensRefused(p)
  <2> DEFINE c == task[p].cred
  <2>1. PICK step \in {"idle", "disable"} :
          /\ c \in Credentials /\ Answered(p, step) /\ UNCHANGED refused
          /\ UNCHANGED profile \/ profile' = [profile EXCEPT ![c].reauth = TRUE]
    BY <1>8, <1>13 DEF TokensRefused
  <2> HIDE DEF c
  <2>2. [profile[c] EXCEPT !.reauth = TRUE] \in Profile
    <3>1. profile[c] \in Profile
      BY <1>1, <2>1
    <3>. QED
      BY <3>1 DEF Profile
  <2>3. profile' \in [Credentials -> Profile]
    BY <1>1, <2>1, <2>2
  <2>. QED
    BY <1>1, <1>7, <2>1, <2>3
<1>14. CASE SetFlag(p)
  <2> DEFINE c == task[p].cred
             flag == task[p].pc = "disable"
             row == [cred[c] EXCEPT !.disabled = flag]
  <2>1. c \in Credentials /\ flag \in BOOLEAN /\ (~flag => task[p].pc = "enable")
    BY <1>1, <1>14 DEF SetFlag, Refreshing, TaskOK
  <2>2. row \in Credential /\ row.disabled = flag
    <3>1. cred[c] \in Credential
      BY <1>1, <2>1 DEF TypeOK
    <3> HIDE DEF flag, c
    <3>. QED
      BY <2>1, <3>1 DEF Credential
  <2>3. /\ Writes(c, row) /\ task' = [task EXCEPT ![p] = NoTask]
        /\ overruled' = IF c \in asked /\ task[p].pc = "enable" THEN overruled \cup {c}
                        ELSE overruled
        /\ UNCHANGED <<profile, refused, sync, crashes, refreshes, asked>>
    BY <1>14 DEF SetFlag, SetDisabled, Writes
  <2> HIDE DEF row, c, flag
  <2>4. /\ BrokerOK' /\ cred'[c].disabled = flag
        /\ \A d \in Credentials \ {c} : cred'[d].disabled = cred[d].disabled
    BY <1>1, <2>1, <2>2, <2>3, WriteStep
  <2>5. AdminFlagKept' /\ overruled' \subseteq asked
    <3>1. AdminFlagKept /\ overruled \subseteq asked /\ asked \subseteq Credentials
      BY DEF IInv, SyncTypeOK
    <3>. QED
      BY <2>1, <2>3, <2>4, <3>1 DEF AdminFlagKept
  <2>6. refreshes' \in 0..MaxRefresh
    BY <1>1, <2>3 DEF SyncTypeOK
  <2>. QED
    BY <1>1, <1>2, <2>3, <2>4, <2>5, <2>6, NoTaskOK
<1>. QED
  BY <1>5, <1>6, <1>10, <1>11, <1>12, <1>13, <1>14 DEF TaskStep

\* A new setting of the administrator.
LEMMA AdministerInv ==
    ASSUME IInv, NEW c \in Credentials, NEW flag \in AdminFlags, Administer(c, flag)
    PROVE  IInv'
<1> DEFINE row == [cred[c] EXCEPT !.disabled = flag]
<1>1. /\ SyncTypeOK /\ TypeOK /\ StepsOK /\ BrokerOK /\ flag \in BOOLEAN
      /\ AdminFlagKept /\ overruled \subseteq asked /\ asked \subseteq Credentials
  BY BrokerAssumption DEF IInv, SyncTypeOK, BrokerOK
<1>2. row \in Credential /\ row.disabled = flag
  BY <1>1 DEF TypeOK, Credential
<1>3. /\ Writes(c, row) /\ asked' = IF flag THEN asked \cup {c} ELSE asked \ {c}
      /\ overruled' = overruled \ {c}
      /\ UNCHANGED <<profile, refused, sync, task, crashes, refreshes>>
  BY DEF Administer, SetDisabled, Writes
<1> HIDE DEF row
<1>4. /\ BrokerOK' /\ cred'[c].disabled = flag
      /\ \A d \in Credentials \ {c} : cred'[d].disabled = cred[d].disabled
  BY <1>1, <1>2, <1>3, WriteStep
<1>5. AdminFlagKept' /\ overruled' \subseteq asked' /\ asked' \subseteq Credentials
  BY <1>1, <1>3, <1>4 DEF AdminFlagKept
<1>6. StepsOK'
  BY <1>1, <1>3 DEF StepsOK
<1>. QED
  BY <1>1, <1>3, <1>4, <1>5, <1>6 DEF IInv, SyncTypeOK, BrokerOK

\* Whoever moves, and wherever a process dies, the invariant is kept.
LEMMA InvStep ==
    ASSUME IInv, [SyncNext]_<<vars, syncVars>>
    PROVE  IInv'
<1>1. SyncTypeOK /\ TypeOK /\ StepsOK /\ BrokerOK
  BY DEF IInv, SyncTypeOK, BrokerOK
<1>2. ASSUME [Next]_vars, FlagsKept, UNCHANGED syncVars
      PROVE  IInv'
  <2>1. BrokerOK' /\ AdminFlagKept'
    BY <1>2, QuietStep DEF syncVars
  <2>2. StepsOK'
    BY <1>1, <1>2 DEF StepsOK, syncVars
  <2>. QED
    BY <1>1, <1>2, <2>1, <2>2 DEF IInv, SyncTypeOK, BrokerOK, syncVars
<1>3. CASE (ClientStep \/ ReconcileLeases \/ Tick) /\ UNCHANGED syncVars
  BY <1>1, <1>2, <1>3, FlagStep DEF Next, ManagerStep
<1>4. CASE UNCHANGED <<vars, syncVars>>
  BY <1>2, <1>4 DEF vars, FlagsKept
<1>5. ASSUME NEW c \in Credentials, TokenExpires(c) \/ LoginAgain(c)
      PROVE  IInv'
  <2>1. UNCHANGED <<vars, refused, sync, task, crashes, refreshes, asked, overruled>>
    BY <1>5 DEF TokenExpires, LoginAgain
  <2>2. profile' \in [Credentials -> Profile]
    BY <1>1, <1>5 DEF TokenExpires, LoginAgain, SyncTypeOK, Profile
  <2>3. BrokerOK' /\ AdminFlagKept'
    BY <2>1, QuietStep DEF vars, FlagsKept
  <2>4. StepsOK'
    BY <1>1, <2>1 DEF StepsOK
  <2>. QED
    BY <1>1, <2>1, <2>2, <2>3, <2>4 DEF IInv, SyncTypeOK, BrokerOK
<1>6. ASSUME NEW p \in Procs, CrashProc(p)
      PROVE  IInv'
  <2>1. /\ UNCHANGED <<vars, profile, refreshes, asked, overruled>>
        /\ sync' = [sync EXCEPT ![p] = NoSync] /\ task' = [task EXCEPT ![p] = NoTask]
        /\ refused' = [refused EXCEPT ![p] = {}]
        /\ crashes < MaxCrash /\ crashes' = crashes + 1
    BY <1>6 DEF CrashProc
  <2>2. crashes' \in 0..MaxCrash
    BY <1>1, <2>1, SyncAssumption DEF SyncTypeOK
  <2>3. BrokerOK' /\ AdminFlagKept'
    BY <2>1, QuietStep DEF vars, FlagsKept
  <2>4. sync' \in [Procs -> SyncState] /\ task' \in [Procs -> TaskState] /\ StepsOK'
    BY <1>1, <2>1, NoSyncOK, NoTaskOK DEF SyncTypeOK, StepsOK
  <2>5. refused' \in [Procs -> SUBSET Credentials]
    BY <1>1, <2>1 DEF SyncTypeOK
  <2>. QED
    BY <1>1, <2>1, <2>2, <2>3, <2>4, <2>5 DEF IInv, SyncTypeOK, BrokerOK
<1>. QED
  BY <1>3, <1>4, <1>5, <1>6, SyncStepInv, TaskStepInv, AdministerInv DEF SyncNext

LEMMA InvHolds == SyncSpec => []IInv
<1>1. SyncInit => IInv
  <2> SUFFICES ASSUME SyncInit PROVE IInv
    OBVIOUS
  <2>1. TypeOK /\ NoDoubleLease /\ HeldNotAvailable
    BY DEF SyncInit, Init, TypeOK, NewCredential, NoLease, Credential, CredentialState,
           Lease, Nullable, NoDoubleLease, HeldNotAvailable, ActiveIn, ActiveStates
  <2>2. NewProfile \in Profile
    BY DEF NewProfile, Profile, Nullable
  <2>3. SyncTypeOK
    BY <2>1, <2>2, NoSyncOK, NoTaskOK, SyncAssumption DEF SyncInit, SyncTypeOK
  <2>4. StepsOK /\ AdminFlagKept
    BY NoSyncOK, NoTaskOK DEF SyncInit, StepsOK, AdminFlagKept
  <2>. QED
    BY <2>1, <2>3, <2>4 DEF IInv
<1>2. IInv /\ [SyncNext]_<<vars, syncVars>> => IInv'
  BY InvStep
<1>. QED
  BY <1>1, <1>2, PTL DEF SyncSpec

-----------------------------------------------------------------------------
(* The theorems                                                              *)

\* However the syncs, refreshes and deaths of any number of processes
\* interleave, every row, note and step of theirs is well formed: no process
\* writes a row, or revokes for one, that it has not read.
THEOREM SyncTyped == SyncSpec => []SyncTypeOK
BY InvHolds, PTL DEF IInv

\* Writing rows read earlier, outside the transaction that read them, breaks
\* neither the exclusion nor the state shown for a held credential: the write
\* reads the leases again.
THEOREM SyncKeepsExclusion == SyncSpec => [](NoDoubleLease /\ HeldNotAvailable)
BY InvHolds, PTL DEF IInv

\* What the administrator disabled stays disabled but for the refreshes that
\* enable it again and the syncs that had listed it before.
THEOREM AdminKept == SyncSpec => []AdminFlagKept
BY InvHolds, PTL DEF IInv
=============================================================================
