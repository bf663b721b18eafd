-------------------------- MODULE LeaseClientProofs --------------------------
(* Proofs about LeaseClient for every value of its constants: any number of   *)
(* machines, whatever fails and whoever else uses the broker.                 *)
EXTENDS LeaseClient, LeaseBrokerProofs

-----------------------------------------------------------------------------
(* What the broker keeps of a lease that a machine knows                     *)

\* In the table ls, l is a lease of machine m.
KnownIn(ls, m, l) == l \in LeaseIds /\ ls[l].state # "none" /\ ls[l].machine = m

LEMMA KnownKept ==
    ASSUME TypeOK, [Next]_vars, NEW m, NEW l, KnownIn(lease, m, l)
    PROVE  KnownIn(lease', m, l) /\ lease'[l].cred = lease[l].cred
<1>1. l \in LeaseIds /\ lease[l].state # "none" /\ lease[l].machine = m
  BY DEF KnownIn
<1>2. lease'[l].machine = m
  BY <1>1, LinkShape DEF SameLink, Links
<1>3. Follows(l)
  BY <1>1, StepShape DEF Grants
<1>4. lease'[l].state # "none"
  BY <1>1, <1>3 DEF Follows, Moves, EndStates
<1>. QED
  BY <1>1, <1>2, <1>3, <1>4 DEF KnownIn, Follows

\* The answer to an acquire is a lease of the machine that asked.
LEMMA AcquireAnswer ==
    ASSUME TypeOK, [Next]_vars, NEW m \in Machines, AcquireCall(m), NEW l \in Answer(m)
    PROVE  KnownIn(lease', m, l)
<1> DEFINE ls == LeasesExpired(OverdueLeases)
<1>1. \A k \in LeaseIds : /\ ls[k].machine = lease[k].machine
                          /\ ls[k].state # "none" => lease[k].state # "none"
                          /\ lease[k].state = "none" => ls[k] = lease[k]
  <2>1. \A k \in LeaseIds : ls[k].machine = lease[k].machine
    BY ExpireKeeps DEF OverdueLeases, Overdue
  <2>2. \A k \in LeaseIds : k \notin OverdueLeases => ls[k] = lease[k]
    BY DEF LeasesExpired
  <2>3. \A k \in OverdueLeases : lease[k].state # "none"
    BY DEF OverdueLeases, Overdue, ActiveIn, ActiveStates
  <2>. QED
    BY <2>1, <2>2, <2>3
<1>2. CASE ReusableNow(m) # {}
  <2>1. l \in LeaseIds /\ ls[l].state \in ActiveStates /\ ls[l].machine = m
    BY <1>2 DEF Answer, ReusableNow, Reusable, ActiveIn
  <2> HIDE DEF ls
  <2>2. KnownIn(lease, m, l)
    BY <1>1, <2>1 DEF KnownIn, ActiveStates
  <2>. QED
    BY <2>2, KnownKept
<1>3. CASE ReusableNow(m) = {}
  <2>1. l \in LeaseIds /\ lease[l].state = "none" /\ lease'[l].state # "none"
    BY <1>3 DEF Answer, FreeIds
  <2>2. AcquireNew(m, Agent, DefaultTTL, {})
    BY <1>3 DEF AcquireCall, AcquireReuse, ReusableNow
  <2>3. \/ lease' = ls
        \/ \E c, k : lease' = [ls EXCEPT ![k] = NewLease(c, m, Agent, DefaultTTL)]
    BY <2>2 DEF AcquireNew
  <2>4. ls[l].state = "none" /\ ls \in [LeaseIds -> Lease]
    BY <1>1, <2>1, ExpireType DEF OverdueLeases, Overdue
  <2> HIDE DEF ls
  <2>5. PICK c, k : lease' = [ls EXCEPT ![k] = NewLease(c, m, Agent, DefaultTTL)]
    BY <2>1, <2>3, <2>4
  <2>6. lease'[l] = NewLease(c, m, Agent, DefaultTTL)
    BY <2>1, <2>4, <2>5
  <2>. QED
    BY <2>1, <2>6 DEF KnownIn, NewLease
<1>. QED
  BY <1>2, <1>3

\* The answer to a rotation, if it is granted, is another lease of the machine.
LEMMA RotateAnswer ==
    ASSUME TypeOK, RotationChain, NEW m, NEW l, KnownIn(lease, m, l), Rotate(l),
           lease'[l].replacement # None
    PROVE  KnownIn(lease', m, lease'[l].replacement)
<1>1. l \in LeaseIds /\ lease[l].machine = m /\ ActiveIn(lease, l)
  BY DEF KnownIn, Rotate
<1>2. lease[l].replacement = None
  BY <1>1 DEF RotationChain, ActiveIn, ActiveStates
<1>3. PICK c, new :
         /\ new \in FreeIds
         /\ lease' = [lease EXCEPT ![new] = NewLease(c, m, lease[l].agent, DefaultTTL),
                                   ![l].state = "released",
                                   ![l].replacement = new]
  <2>1. \/ UNCHANGED lease
        \/ \E c, new : /\ new \in FreeIds
                       /\ lease' = [lease EXCEPT
                                      ![new] = NewLease(c, lease[l].machine, lease[l].agent, DefaultTTL),
                                      ![l].state = "released",
                                      ![l].replacement = new]
    BY DEF Rotate
  <2>. QED
    BY <1>1, <1>2, <2>1
<1>4. lease \in [LeaseIds -> Lease] /\ lease[l] \in IssuedLease /\ new \in LeaseIds /\ new # l
  BY <1>1, <1>3, ActiveIssued DEF TypeOK, ActiveIn, ActiveStates, FreeIds
<1>5. lease'[l].replacement = new /\ lease'[new] = NewLease(c, m, lease[l].agent, DefaultTTL)
  BY <1>1, <1>3, <1>4 DEF IssuedLease
<1>. QED
  BY <1>4, <1>5 DEF KnownIn, NewLease

\* Time does not run past its bound.
LEMMA NowBounded ==
    ASSUME [Next]_vars, now \in Nat, now <= MaxTime
    PROVE  now' <= MaxTime
<1>1. CASE Tick
  BY <1>1, BrokerAssumption DEF Tick
<1>2. CASE UNCHANGED now
  BY <1>2
<1>3. CASE ClientStep
  BY <1>2, <1>3 DEF ClientStep, AcquireReuse, AcquireNew, Renew, Materialize, ReadStatus,
       ExpireOnAccess, Expire, Release, Rotate, Telemetry
<1>4. CASE ManagerStep
  BY <1>2, <1>4 DEF ManagerStep, ReconcileLeases, Expire, Sync, MarkExhausted, SetDisabled
<1>. QED
  BY <1>1, <1>2, <1>3, <1>4 DEF Next, vars

-----------------------------------------------------------------------------
(* The invariant                                                             *)

\* With the cycle t, the lease id f and the account a in the files of machine
\* m, the machine knows the leases it works with, and the auth file is of the
\* lease's account once the cycle has seen to it.
Good(ls, m, t, f, a) ==
    /\ t.pc = "acquire" => t.lease = None
    /\ t.pc = "idle" => t.lease = None /\ t.touched = FALSE
    /\ t.pc \notin {"idle", "acquire"} => KnownIn(ls, m, t.lease)
    /\ f # None => KnownIn(ls, m, f)
    /\ t.touched = FALSE =>
        /\ t.pc \in {"acquire", "check", "status"} /\ t.present = FALSE => a = None
        /\ t.pc \in {"decide", "rotate", "renew", "report", "refresh"} =>
              a \in {None, ls[t.lease].cred}

IInv ==
    /\ TypeOK /\ RotationChain /\ now <= MaxTime
    /\ file \in [Machines -> Nullable(LeaseIds)]
    /\ auth \in [Machines -> Nullable(Credentials)]
    /\ work \in [Machines -> Cycle]
    /\ faults \in 0..MaxFaults
    /\ \A m \in Machines : Good(lease, m, work[m], file[m], auth[m])

LEMMA GoodKept ==
    ASSUME TypeOK, [Next]_vars, NEW m, NEW t, NEW f, NEW a, Good(lease, m, t, f, a)
    PROVE  Good(lease', m, t, f, a)
BY KnownKept DEF Good

\* A machine moves while the broker does one step or none.
LEMMA MachineStep ==
    ASSUME IInv, [Next]_vars, NEW m \in Machines,
           NEW t \in Cycle, NEW f \in Nullable(LeaseIds), NEW a \in Nullable(Credentials),
           work' = [work EXCEPT ![m] = t], file' = [file EXCEPT ![m] = f],
           auth' = [auth EXCEPT ![m] = a], faults' \in 0..MaxFaults,
           Good(lease', m, t, f, a)
    PROVE  IInv'
<1>1. TypeOK' /\ RotationChain' /\ (now <= MaxTime)'
  BY TypeStep, ChainStep, NowBounded DEF IInv, TypeOK
<1>2. ASSUME NEW n \in Machines
      PROVE  Good(lease', n, work'[n], file'[n], auth'[n])
  <2>1. CASE n = m
    BY <2>1 DEF IInv
  <2>2. CASE n # m
    <3>1. Good(lease, n, work[n], file[n], auth[n])
      BY DEF IInv
    <3>2. work'[n] = work[n] /\ file'[n] = file[n] /\ auth'[n] = auth[n]
      BY <2>2 DEF IInv
    <3>. QED
      BY <3>1, <3>2, GoodKept DEF IInv
  <2>. QED
    BY <2>1, <2>2
<1>. QED
  BY <1>1, <1>2 DEF IInv

\* So do the others.
LEMMA OthersStep ==
    ASSUME IInv, [Next]_vars, UNCHANGED clientVars
    PROVE  IInv'
<1>1. TypeOK' /\ RotationChain' /\ (now <= MaxTime)'
  BY TypeStep, ChainStep, NowBounded DEF IInv, TypeOK
<1>2. ASSUME NEW n \in Machines
      PROVE  Good(lease', n, work'[n], file'[n], auth'[n])
  BY GoodKept DEF IInv, clientVars
<1>. QED
  BY <1>1, <1>2 DEF IInv, clientVars

-----------------------------------------------------------------------------
(* The steps of a cycle                                                      *)

\* The requests are operations of the broker.
LEMMA Requested ==
    ASSUME IInv, NEW m \in Machines
    PROVE  /\ AcquireCall(m) => [Next]_vars
           /\ \A l \in LeaseIds :
                 /\ Status(l) \/ Rotate(l) \/ Renew(l) \/ Materialize(l) \/ ExpireOnAccess(l)
                       \/ Release(l)
                       => [Next]_vars
                 /\ \A report \in Reports : Telemetry(l, now, report) => [Next]_vars
<1>1. now \in ReportTimes
  BY BrokerAssumption DEF IInv, TypeOK, ReportTimes
<1>2. Agent \in Agents /\ DefaultTTL \in TTLs /\ {} \in SUBSET Credentials
  BY ClientAssumption
<1>3. AcquireCall(m) => ClientStep
  BY <1>2 DEF AcquireCall, ClientStep
<1>4. ASSUME NEW l \in LeaseIds
      PROVE  /\ Rotate(l) \/ Renew(l) \/ Materialize(l) \/ ReadStatus(l) \/ Release(l)
                  => ClientStep
             /\ ExpireOnAccess(l) => ReadStatus(l)
             /\ \A report \in Reports : Telemetry(l, now, report) => ClientStep
  BY <1>1 DEF ClientStep, ReadStatus
<1>. QED
  BY <1>3, <1>4 DEF Next, Status

\* What a machine is about to do concerns a lease it knows.
LEMMA AboutKnown ==
    ASSUME IInv, NEW m \in Machines, work[m].pc \notin {"idle", "acquire"}
    PROVE  KnownIn(lease, m, work[m].lease) /\ work[m].lease \in LeaseIds
BY DEF IInv, Good, KnownIn

\* A cycle that raises keeps what it knows.
LEMMA FailStep ==
    ASSUME IInv, [Next]_vars, NEW m \in Machines, Fail(m), faults' \in 0..MaxFaults
    PROVE  IInv'
<1>1. /\ work[m] \in Cycle /\ auth[m] \in Nullable(Credentials)
      /\ Good(lease, m, work[m], file[m], auth[m])
  BY DEF IInv
<1>2. NoWork \in Cycle /\ work[m].lease \in Nullable(LeaseIds)
  BY <1>1 DEF NoWork, Cycle, Nullable
<1>3. work[m].lease # None => KnownIn(lease', m, work[m].lease)
  BY <1>1, KnownKept DEF IInv, Good
<1>4. Good(lease', m, NoWork, work[m].lease, auth[m])
  BY <1>3 DEF Good, NoWork
<1>5. /\ work' = [work EXCEPT ![m] = NoWork] /\ file' = [file EXCEPT ![m] = work[m].lease]
      /\ auth' = [auth EXCEPT ![m] = auth[m]]
  BY DEF Fail, GoTo, IInv
<1>. QED
  BY <1>1, <1>2, <1>4, <1>5, MachineStep

LEMMA CycleStepInv ==
    ASSUME IInv, NEW m \in Machines, CycleStep(m) \/ Start(m, TRUE)
    PROVE  IInv' /\ [Next]_vars
<1> DEFINE t == work[m]
           f == file[m]
           a == auth[m]
<1>1. /\ TypeOK /\ t \in Cycle /\ f \in Nullable(LeaseIds) /\ a \in Nullable(Credentials)
      /\ Good(lease, m, t, f, a) /\ faults \in 0..MaxFaults
      /\ file = [file EXCEPT ![m] = f] /\ auth = [auth EXCEPT ![m] = a]
  BY DEF IInv
<1>2. ASSUME NEW u \in Cycle, [Next]_vars, GoTo(m, u), UNCHANGED <<file, auth>>,
             faults' \in 0..MaxFaults, Good(lease', m, u, f, a)
      PROVE  IInv'
  BY <1>1, <1>2, MachineStep DEF GoTo
<1>3. t.pc \notin {"idle", "acquire"} =>
         /\ KnownIn(lease, m, t.lease) /\ t.lease \in LeaseIds
         /\ [Next]_vars => KnownIn(lease', m, t.lease) /\ lease'[t.lease].cred = lease[t.lease].cred
  BY <1>1, AboutKnown, KnownKept
<1>4. [Next]_vars => (f # None => KnownIn(lease', m, f))
  BY <1>1, KnownKept DEF Good
<1>5. ASSUME NEW force \in BOOLEAN, Start(m, force)
      PROVE  IInv' /\ [Next]_vars
  <2> DEFINE u == [NoWork EXCEPT !.pc = IF f = None THEN "acquire" ELSE "check",
                                 !.lease = f, !.rotate = force, !.present = a # None]
  <2>1. [Next]_vars /\ UNCHANGED vars /\ GoTo(m, u) /\ UNCHANGED <<file, auth>>
    BY <1>5 DEF Start
  <2>2. faults' \in 0..MaxFaults
    BY <1>1, <1>5, ClientAssumption DEF Start
  <2>3. /\ u.pc = (IF f = None THEN "acquire" ELSE "check") /\ u.lease = f
        /\ u.present = (a # None) /\ u.touched = FALSE
    BY DEF NoWork
  <2>4. u \in Cycle
    BY <1>1 DEF NoWork, Cycle, Requests
  <2> HIDE DEF u, t, f, a
  <2>5. Good(lease', m, u, f, a)
    BY <1>4, <2>1, <2>3 DEF Good
  <2>. QED
    BY <1>2, <2>1, <2>2, <2>4, <2>5
<1> HIDE DEF t, f, a
\* A step that goes on with the same lease and touches no file.
<1>6. ASSUME NEW u \in Cycle, [Next]_vars, GoTo(m, u), UNCHANGED <<file, auth, faults>>,
             t.pc \notin {"idle", "acquire"}, u.lease = t.lease, u.pc \notin {"idle", "acquire"},
             u.touched = t.touched, u.present = t.present,
             u.pc \in {"check", "status"} => t.pc \in {"check", "status"},
             u.pc \in {"decide", "rotate", "renew", "report", "refresh"} =>
                \/ t.pc \in {"decide", "rotate", "renew", "report", "refresh"}
                \/ t.pc \in {"check", "status"} /\ t.present = FALSE
      PROVE  IInv'
  <2>1. Good(lease', m, u, f, a)
    BY <1>1, <1>3, <1>4, <1>6 DEF Good
  <2>. QED
    BY <1>1, <1>2, <1>6, <2>1
<1>7. CASE Check(m)
  <2> DEFINE u == [t EXCEPT !.pc = "status"]
  <2>1. t.pc = "check" /\ Status(t.lease) /\ GoTo(m, u) /\ UNCHANGED <<file, auth, faults>>
    BY <1>7 DEF Check, At, t
  <2>2. [Next]_vars
    BY <1>3, <2>1, Requested
  <2>3. u \in Cycle /\ u.lease = t.lease /\ u.pc = "status" /\ u.touched = t.touched
        /\ u.present = t.present
    BY <1>1 DEF Cycle, Requests
  <2> HIDE DEF u
  <2>. QED
    BY <1>6, <2>1, <2>2, <2>3
<1>8. CASE Acquire(m)
  <2>1. t.pc = "acquire" /\ t.lease = None /\ AcquireCall(m) /\ UNCHANGED faults
    BY <1>1, <1>8 DEF Acquire, At, Good, t
  <2>2. [Next]_vars
    BY <2>1, Requested
  <2>3. CASE Fail(m)
    BY <1>1, <2>1, <2>2, <2>3, FailStep
  <2>4. ASSUME NEW l \in Answer(m), GoTo(m, [t EXCEPT !.pc = "status", !.lease = l]),
               UNCHANGED <<file, auth>>
        PROVE  IInv'
    <3> DEFINE u == [t EXCEPT !.pc = "status", !.lease = l]
    <3>1. KnownIn(lease', m, l)
      BY <1>1, <2>1, <2>2, AcquireAnswer
    <3>2. u \in Cycle /\ u.lease = l /\ u.pc = "status" /\ u.touched = t.touched
          /\ u.present = t.present
      BY <1>1, <3>1 DEF Cycle, Requests, KnownIn, Nullable
    <3> HIDE DEF u
    <3>3. Good(lease', m, u, f, a)
      BY <1>1, <1>4, <2>1, <2>2, <3>1, <3>2 DEF Good
    <3>. QED
      BY <1>1, <1>2, <2>1, <2>2, <2>4, <3>2, <3>3 DEF u
  <2>. QED
    BY <1>8, <2>2, <2>3, <2>4 DEF Acquire, t
<1>9. CASE LookUp(m)
  <2> DEFINE asked == RotationAsked(lease', cred', t.lease)
             rotate == t.rotate \/ asked
             pc == IF t.present THEN "reconcile" ELSE "decide"
             u == [t EXCEPT !.rotate = rotate, !.pc = pc]
  <2>1. t.pc = "status" /\ Status(t.lease) /\ UNCHANGED <<file, auth, faults>>
    BY <1>9 DEF LookUp, At, t
  <2>2. GoTo(m, u)
    BY <1>9 DEF LookUp, Informed, t
  <2>3. [Next]_vars
    BY <1>3, <2>1, Requested
  <2>4. rotate \in BOOLEAN /\ pc \in Requests \cup {"decide"}
    BY DEF Requests
  <2> HIDE DEF rotate
  <2>5. u \in Cycle /\ u.lease = t.lease /\ u.pc = pc /\ u.touched = t.touched
        /\ u.present = t.present
    BY <1>1, <2>4 DEF Cycle, Requests
  <2>6. t.present = TRUE \/ t.present = FALSE
    BY <1>1 DEF Cycle
  <2> HIDE DEF u
  <2>. QED
    BY <1>6, <2>1, <2>2, <2>3, <2>5, <2>6
<1>10. CASE ReconcileAuth(m)
  <2> DEFINE u == [t EXCEPT !.pc = "decide"]
             b == Reconciled(m)
  <2>1. /\ t.pc = "reconcile" /\ Status(t.lease) /\ GoTo(m, u)
        /\ UNCHANGED <<file, faults>> /\ auth' = [auth EXCEPT ![m] = b]
    BY <1>10 DEF ReconcileAuth, At, t
  <2>2. [Next]_vars
    BY <1>3, <2>1, Requested
  <2>3. u \in Cycle /\ u.lease = t.lease /\ u.pc = "decide" /\ u.touched = t.touched
        /\ u.present = t.present
    BY <1>1 DEF Cycle, Requests
  <2>4. b \in {None, lease[t.lease].cred} /\ lease[t.lease].cred \in Credentials
    BY <1>1, <1>3, <2>1, ActiveIssued DEF Reconciled, KnownIn, TypeOK, IssuedLease, t
  <2>5. b \in Nullable(Credentials)
    BY <2>4 DEF Nullable
  <2> HIDE DEF u, b
  <2>6. Good(lease', m, u, f, b)
    BY <1>3, <1>4, <2>1, <2>2, <2>3, <2>4 DEF Good
  <2>. QED
    BY <1>1, <2>1, <2>2, <2>3, <2>5, <2>6, MachineStep DEF GoTo
<1>11. CASE Decide(m)
  <2>1. PICK pc \in {"rotate", "renew", "deliver", "report"} :
          GoTo(m, [t EXCEPT !.pc = pc])
    BY <1>11 DEF Decide, t
  <2> DEFINE u == [t EXCEPT !.pc = pc]
  <2>2. /\ t.pc = "decide" /\ GoTo(m, u) /\ UNCHANGED <<vars, file, auth, faults>>
    BY <1>11, <2>1 DEF Decide, At, t
  <2>3. u \in Cycle /\ u.lease = t.lease /\ u.pc = pc /\ u.touched = t.touched
        /\ u.present = t.present
    BY <1>1 DEF Cycle, Requests
  <2> HIDE DEF u
  <2>. QED
    BY <1>6, <2>2, <2>3
<1>12. CASE RotateLease(m)
  <2>1. t.pc = "rotate" /\ UNCHANGED faults
    BY <1>12 DEF RotateLease, At, t
  <2>2. Rotate(t.lease) \/ UNCHANGED vars
    BY <1>12 DEF RotateLease, t
  <2>3. [Next]_vars
    BY <1>3, <2>1, <2>2, Requested
  <2>4. CASE Fail(m)
    BY <1>1, <2>1, <2>3, <2>4, FailStep
  <2>5. ASSUME Rotate(t.lease), lease'[t.lease].replacement # None, UNCHANGED <<file, auth>>,
               GoTo(m, [t EXCEPT !.pc = "deliver", !.lease = lease'[t.lease].replacement])
        PROVE  IInv'
    <3> DEFINE l == lease'[t.lease].replacement
               u == [t EXCEPT !.pc = "deliver", !.lease = l]
    <3>1. KnownIn(lease', m, l)
      BY <1>3, <2>1, <2>5, RotateAnswer DEF IInv
    <3> HIDE DEF l
    <3>2. u \in Cycle /\ u.lease = l /\ u.pc = "deliver"
      BY <1>1, <3>1 DEF Cycle, Requests, KnownIn, Nullable
    <3> HIDE DEF u
    <3>3. Good(lease', m, u, f, a)
      BY <1>4, <2>3, <3>1, <3>2 DEF Good
    <3>. QED
      BY <1>1, <1>2, <2>1, <2>3, <2>5, <3>2, <3>3 DEF u, l
  <2>. QED
    BY <1>12, <2>3, <2>4, <2>5 DEF RotateLease, t
<1>13. CASE Renewed(m)
  <2> DEFINE u == [t EXCEPT !.pc = "report"]
  <2>1. t.pc = "renew" /\ Renew(t.lease) /\ GoTo(m, u) /\ UNCHANGED <<file, auth, faults>>
    BY <1>13 DEF Renewed, At, t
  <2>2. [Next]_vars
    BY <1>3, <2>1, Requested
  <2>3. u \in Cycle /\ u.lease = t.lease /\ u.pc = "report" /\ u.touched = t.touched
        /\ u.present = t.present
    BY <1>1 DEF Cycle, Requests
  <2> HIDE DEF u
  <2>. QED
    BY <1>6, <2>1, <2>2, <2>3
<1>14. CASE RenewalDenied(m) \/ DeliveryDenied(m)
  <2>1. t.pc \in {"renew", "deliver"} /\ UNCHANGED faults /\ Fail(m)
    BY <1>14 DEF RenewalDenied, DeliveryDenied, At, t
  <2>2. ExpireOnAccess(t.lease) \/ UNCHANGED vars
    BY <1>14 DEF RenewalDenied, DeliveryDenied, t
  <2>3. [Next]_vars
    BY <1>3, <2>1, <2>2, Requested
  <2>. QED
    BY <1>1, <2>1, <2>3, FailStep
<1>15. CASE Delivered(m)
  <2> DEFINE u == [t EXCEPT !.pc = "report"]
             b == lease[t.lease].cred
  <2>1. /\ t.pc = "deliver" /\ Materialize(t.lease) /\ GoTo(m, u)
        /\ UNCHANGED <<file, faults>> /\ auth' = [auth EXCEPT ![m] = b]
    BY <1>15 DEF Delivered, At, t
  <2>2. [Next]_vars
    BY <1>3, <2>1, Requested
  <2>3. u \in Cycle /\ u.lease = t.lease /\ u.pc = "report"
    BY <1>1 DEF Cycle, Requests
  <2>4. b \in Nullable(Credentials)
    BY <1>1, <1>3, <2>1, ActiveIssued DEF KnownIn, TypeOK, IssuedLease, Nullable
  <2> HIDE DEF u
  <2>6. Good(lease', m, u, f, b)
    BY <1>3, <1>4, <2>1, <2>2, <2>3 DEF Good
  <2> HIDE DEF b
  <2>. QED
    BY <1>1, <2>1, <2>2, <2>3, <2>4, <2>6, MachineStep DEF GoTo
<1>16. CASE ReportTelemetry(m)
  <2> DEFINE u == [t EXCEPT !.pc = "refresh"]
  <2>1. /\ t.pc = "report" /\ GoTo(m, u) /\ UNCHANGED <<file, auth, faults>>
        /\ \E report \in Reports : Telemetry(t.lease, now, report)
    BY <1>16 DEF ReportTelemetry, At, t
  <2>2. [Next]_vars
    BY <1>3, <2>1, Requested
  <2>3. u \in Cycle /\ u.lease = t.lease /\ u.pc = "refresh" /\ u.touched = t.touched
        /\ u.present = t.present
    BY <1>1 DEF Cycle, Requests
  <2> HIDE DEF u
  <2>. QED
    BY <1>6, <2>1, <2>2, <2>3
<1>17. CASE Finish(m)
  <2>1. /\ t.pc = "refresh" /\ Status(t.lease) /\ GoTo(m, NoWork) /\ UNCHANGED <<auth, faults>>
        /\ file' = [file EXCEPT ![m] = t.lease]
    BY <1>17 DEF Finish, At, t
  <2>2. [Next]_vars
    BY <1>3, <2>1, Requested
  <2>3. NoWork \in Cycle /\ t.lease \in Nullable(LeaseIds)
    BY <1>1 DEF NoWork, Cycle, Nullable
  <2>4. Good(lease', m, NoWork, t.lease, a)
    BY <1>3, <2>1, <2>2 DEF Good, NoWork
  <2>. QED
    BY <1>1, <2>1, <2>2, <2>3, <2>4, MachineStep DEF GoTo
<1>. QED
  BY <1>5, <1>7, <1>8, <1>9, <1>10, <1>11, <1>12, <1>13, <1>14, <1>15, <1>16, <1>17
     DEF CycleStep

-----------------------------------------------------------------------------
(* What goes wrong, and the theorems                                         *)

LEMMA FaultStepInv ==
    ASSUME IInv, NEW m \in Machines, RequestFails(m) \/ Kill(m) \/ UserLogin(m)
    PROVE  IInv' /\ [Next]_vars /\ faults' # faults
<1> DEFINE t == work[m]
           f == file[m]
           a == auth[m]
<1>1. /\ TypeOK /\ t \in Cycle /\ f \in Nullable(LeaseIds) /\ a \in Nullable(Credentials)
      /\ Good(lease, m, t, f, a) /\ faults \in 0..MaxFaults /\ MaxFaults \in Nat
      /\ file = [file EXCEPT ![m] = f] /\ auth = [auth EXCEPT ![m] = a]
      /\ work \in [Machines -> Cycle]
  BY ClientAssumption DEF IInv
<1>2. faults' \in 0..MaxFaults /\ faults' # faults
  BY <1>1 DEF RequestFails, Kill, UserLogin
<1>3. NoWork \in Cycle
  BY DEF NoWork, Cycle, Nullable
<1>4. CASE RequestFails(m)
  <2>1. t.pc \in Requests /\ (UNCHANGED vars \/ Executed(m))
    BY <1>4 DEF RequestFails
  <2>2. CASE UNCHANGED vars
    <3>1. [Next]_vars
      BY <2>2
    <3>2. CASE Fail(m)
      BY <1>2, <3>1, <3>2, FailStep
    <3>3. CASE At(m, "check") /\ Forget(m) /\ UNCHANGED <<file, auth>>
      <4> DEFINE u == [t EXCEPT !.pc = "acquire", !.lease = None]
      <4>1. u \in Cycle /\ u.pc = "acquire" /\ u.lease = None /\ u.present = t.present
            /\ u.touched = t.touched
        BY <1>1 DEF Cycle, Requests, Nullable
      <4>2. t.pc = "check" /\ work' = [work EXCEPT ![m] = u]
        BY <3>3 DEF At, Forget, GoTo
      <4> HIDE DEF u, t, f, a
      <4>3. Good(lease, m, u, f, a)
        BY <1>1, <4>1, <4>2 DEF Good
      <4>4. Good(lease', m, u, f, a)
        BY <1>1, <3>1, <4>3, GoodKept
      <4>. QED
        BY <1>1, <1>2, <3>1, <3>3, <4>1, <4>2, <4>4, MachineStep
    <3>. QED
      BY <1>4, <3>1, <3>2, <3>3, <1>2 DEF RequestFails
  <2>3. CASE Executed(m)
    <3>1. [Next]_vars
      <4>1. t.pc = "acquire" => AcquireCall(m)
        BY <2>3 DEF Executed, At
      <4>2. t.pc # "acquire" =>
               \/ Rotate(t.lease) \/ Renew(t.lease) \/ Materialize(t.lease) \/ Status(t.lease)
               \/ \E report \in Reports : Telemetry(t.lease, now, report)
        BY <2>3 DEF Executed, At
      <4>3. t.pc # "acquire" => t.lease \in LeaseIds
        BY <2>1, AboutKnown DEF Requests
      <4>. QED
        BY <4>1, <4>2, <4>3, Requested
    <3>2. CASE Fail(m)
      BY <1>2, <3>1, <3>2, FailStep
    <3>3. CASE At(m, "check") /\ Forget(m) /\ UNCHANGED <<file, auth>>
      <4> DEFINE u == [t EXCEPT !.pc = "acquire", !.lease = None]
      <4>1. u \in Cycle /\ u.pc = "acquire" /\ u.lease = None /\ u.present = t.present
            /\ u.touched = t.touched
        BY <1>1 DEF Cycle, Requests, Nullable
      <4>2. t.pc = "check" /\ work' = [work EXCEPT ![m] = u]
        BY <3>3 DEF At, Forget, GoTo
      <4> HIDE DEF u, t, f, a
      <4>3. Good(lease, m, u, f, a)
        BY <1>1, <4>1, <4>2 DEF Good
      <4>4. Good(lease', m, u, f, a)
        BY <1>1, <3>1, <4>3, GoodKept
      <4>. QED
        BY <1>1, <1>2, <3>1, <3>3, <4>1, <4>2, <4>4, MachineStep
    <3>. QED
      BY <1>4, <3>1, <3>2, <3>3, <1>2 DEF RequestFails
  <2>. QED
    BY <2>1, <2>2, <2>3
<1>5. CASE Kill(m)
  <2>1. [Next]_vars /\ work' = [work EXCEPT ![m] = NoWork] /\ UNCHANGED <<file, auth>>
    BY <1>5 DEF Kill, GoTo
  <2> HIDE DEF t, f, a
  <2>2. f # None => KnownIn(lease', m, f)
    BY <1>1, <2>1, KnownKept DEF Good
  <2>3. Good(lease', m, NoWork, f, a)
    BY <2>2 DEF Good, NoWork
  <2>. QED
    BY <1>1, <1>2, <1>3, <2>1, <2>3, MachineStep
<1>6. CASE UserLogin(m)
  <2>1. PICK b \in Nullable(Credentials) : auth' = [auth EXCEPT ![m] = b]
    BY <1>6 DEF UserLogin
  <2> DEFINE away == t.pc # "idle"
             u == [t EXCEPT !.touched = away]
  <2>2. [Next]_vars /\ work' = [work EXCEPT ![m] = u] /\ UNCHANGED file
    BY <1>6 DEF UserLogin, GoTo, At
  <2>3. away \in BOOLEAN
    OBVIOUS
  <2>4. u \in Cycle /\ u.pc = t.pc /\ u.lease = t.lease /\ u.touched = away
    <3> HIDE DEF away, t
    <3>. QED
      BY <1>1, <2>3 DEF Cycle
  <2>5. t.pc # "idle" => u.touched = TRUE
    BY <2>4
  <2> HIDE DEF u
  <2>6. t.pc = "idle" => u.touched = FALSE
    BY <2>4
  <2> HIDE DEF t, f, a, away
  <2>7. Good(lease, m, u, f, b)
    BY <1>1, <2>4, <2>5, <2>6 DEF Good
  <2>8. Good(lease', m, u, f, b)
    BY <1>1, <2>2, <2>7, GoodKept
  <2>. QED
    BY <1>1, <1>2, <2>1, <2>2, <2>4, <2>8, MachineStep
<1>. QED
  BY <1>2, <1>4, <1>5, <1>6

LEMMA InvStep ==
    ASSUME IInv, [ClientNext]_allVars
    PROVE  IInv' /\ [Next]_vars
<1>1. CASE \E m \in Machines : CycleStep(m) \/ Start(m, TRUE)
  BY <1>1, CycleStepInv
<1>2. CASE \E m \in Machines : RequestFails(m) \/ Kill(m) \/ UserLogin(m)
  BY <1>2, FaultStepInv
<1>3. CASE [Next]_vars /\ UNCHANGED clientVars
  BY <1>3, OthersStep
<1>4. CASE \E l \in LeaseIds : ForceRelease(l)
  BY <1>3, <1>4 DEF ForceRelease, Next, ClientStep
<1>5. CASE (ManagerStep \/ Tick) /\ UNCHANGED clientVars
  BY <1>3, <1>5 DEF Next
<1>6. CASE UNCHANGED allVars
  BY <1>3, <1>6 DEF allVars
<1>. QED
  BY <1>1, <1>2, <1>4, <1>5, <1>6 DEF ClientNext

LEMMA InvHolds == ClientSpec => []IInv
<1>1. ClientInit => IInv
  <2> SUFFICES ASSUME ClientInit PROVE IInv
    OBVIOUS
  <2>1. TypeOK /\ RotationChain /\ now <= MaxTime
    BY BrokerAssumption
       DEF ClientInit, Init, TypeOK, NewCredential, NoLease, Credential, CredentialState,
           Lease, Nullable, RotationChain
  <2>2. NoWork \in Cycle
    BY DEF NoWork, Cycle, Nullable
  <2>. QED
    BY <2>1, <2>2, ClientAssumption DEF ClientInit, IInv, Good, NoWork, Nullable
<1>2. IInv /\ [ClientNext]_allVars => IInv'
  BY InvStep
<1>. QED
  BY <1>1, <1>2, PTL DEF ClientSpec

\* Whatever fails and whoever interferes, a machine works with, and writes
\* down, leases that the broker issued to it.
THEOREM ClientTyped == ClientSpec => []ClientTypeOK
<1>1. IInv => ClientTypeOK
  BY DEF IInv, Good, KnownIn, Known, Working, ClientTypeOK
<1>. QED
  BY <1>1, InvHolds, PTL

\* A cycle that succeeds leaves no auth file of an account other than that of
\* the lease it writes down, for any number of machines, clocks and failures.
THEOREM Delivers == ClientSpec => CycleDelivers
<1>1. IInv /\ [ClientNext]_allVars => DeliversStep
  <2> SUFFICES ASSUME IInv, [ClientNext]_allVars, NEW m \in Machines,
                      work[m].pc = "refresh", work'[m].pc = "idle", faults' = faults,
                      ~work[m].touched
               PROVE  auth'[m] \in {None, lease[file'[m]].cred}
    BY DEF DeliversStep, At
  <2>1. /\ work[m] \in Cycle /\ work \in [Machines -> Cycle]
        /\ file \in [Machines -> Nullable(LeaseIds)]
        /\ Good(lease, m, work[m], file[m], auth[m])
    BY DEF IInv
  <2>2. auth[m] \in {None, lease[work[m].lease].cred}
    BY <2>1 DEF Good, Cycle
  <2>3. ASSUME NEW n \in Machines, CycleStep(n) \/ Start(n, TRUE)
        PROVE  n = m /\ Finish(m)
    <3>1. \E u : work' = [work EXCEPT ![n] = u]
      BY <2>3 DEF CycleStep, Start, Check, Acquire, LookUp, ReconcileAuth, Decide, RotateLease,
           Renewed, RenewalDenied, Delivered, DeliveryDenied, ReportTelemetry, Finish, Fail, GoTo
    <3>2. n = m
      BY <2>1, <3>1
    <3>. QED
      BY <2>3, <3>2 DEF CycleStep, Start, Check, Acquire, LookUp, ReconcileAuth, Decide, RotateLease,
           Renewed, RenewalDenied, Delivered, DeliveryDenied, ReportTelemetry, At
  <2>4. CASE Finish(m)
    BY <2>1, <2>2, <2>4 DEF Finish
  <2>5. \A n \in Machines : ~(RequestFails(n) \/ Kill(n) \/ UserLogin(n))
    BY FaultStepInv
  <2>6. ~UNCHANGED clientVars
    BY DEF clientVars
  <2>. QED
    BY <2>3, <2>4, <2>5, <2>6 DEF ClientNext, ForceRelease, allVars
<1>. QED
  BY <1>1, InvHolds, PTL DEF ClientSpec, CycleDelivers
=============================================================================
