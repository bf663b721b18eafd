---------------------------- MODULE LeaseClient ----------------------------
(* The Codex desktop plugin (auth_manager_cycler.py) against the broker.  Its *)
(* watcher repeats a cycle of requests: look the lease up or acquire one,     *)
(* reconcile the local auth file, rotate, renew or fetch auth material, and   *)
(* report.  The lease id is kept in a state file, written when the cycle ends *)
(* or fails.  A request may find the manager out of reach, and its answer may *)
(* be lost after the manager acted on it; the watcher may be killed.          *)
(*                                                                            *)
(* Each machine runs one cycle at a time.  Which of two auth files of an      *)
(* account is newer is left open; what the manager does beside the lease      *)
(* (the sync, the save of a newer auth) are steps of their own here.          *)
EXTENDS LeaseBroker

CONSTANTS
    Agent,         \* the agent id of the plugin
    MinRemaining,  \* lease_renewal_min_remaining_seconds
    RenewLeeway,   \* RENEW_LEEWAY_SECONDS
    MaxFaults      \* bound: kills, failing requests, interventions of the user

ASSUME ClientAssumption ==
    /\ Agent \in Agents /\ DefaultTTL \in TTLs
    /\ {MinRemaining, RenewLeeway, MaxFaults} \subseteq Nat

VARIABLES
    file,    \* the lease id in each machine's state file
    auth,    \* the account in each machine's auth file
    work,    \* the cycle each machine is in
    faults   \* faults so far

clientVars == <<file, auth, work, faults>>
allVars == <<vars, clientVars>>

Requests ==
    {"check", "acquire", "status", "reconcile", "rotate", "renew", "deliver",
     "report", "refresh"}

Cycle ==
    [ pc      : Requests \cup {"idle", "decide"},
      lease   : Nullable(LeaseIds),  \* the lease the cycle is about
      present : BOOLEAN,             \* an auth file was there at its start
      rotate  : BOOLEAN,             \* a rotation is asked for
      touched : BOOLEAN ]            \* history: the user changed the auth file

NoWork == [pc |-> "idle", lease |-> None, present |-> FALSE, rotate |-> FALSE,
           touched |-> FALSE]

Known(m, l) == l \in LeaseIds /\ lease[l].state # "none" /\ lease[l].machine = m

\* The cycle is past the acquire: all that follows is about a lease.
Working(m) == work[m].pc \notin {"idle", "acquire"}

ClientTypeOK ==
    /\ TypeOK
    /\ file \in [Machines -> Nullable(LeaseIds)]
    /\ auth \in [Machines -> Nullable(Credentials)]
    /\ work \in [Machines -> Cycle]
    /\ \A m \in Machines :
        /\ Working(m) => Known(m, work[m].lease)
        /\ file[m] # None => Known(m, file[m])
    /\ faults \in 0..MaxFaults

ClientInit ==
    /\ Init
    /\ file = [m \in Machines |-> None]
    /\ auth = [m \in Machines |-> None]
    /\ work = [m \in Machines |-> NoWork]
    /\ faults = 0

-----------------------------------------------------------------------------

At(m, pc) == work[m].pc = pc

GoTo(m, t) == work' = [work EXCEPT ![m] = t]

\* The cycle raises: the state it has so far is written, its lease with it.
Fail(m) ==
    /\ file' = [file EXCEPT ![m] = work[m].lease]
    /\ GoTo(m, NoWork)
    /\ UNCHANGED auth

\* A cycle of the watcher, or a rotation that the user asks for.
Start(m, force) ==
    /\ At(m, "idle")
    /\ IF force THEN faults < MaxFaults /\ faults' = faults + 1 ELSE UNCHANGED faults
    /\ GoTo(m, [NoWork EXCEPT !.pc = IF file[m] = None THEN "acquire" ELSE "check",
                              !.lease = file[m], !.rotate = force,
                              !.present = auth[m] # None])
    /\ UNCHANGED <<vars, file, auth>>

\* get_broker_lease_status: what a machine is told of its lease l.
Status(l) == ReadStatus(l) \/ (~ActiveIn(lease, l) /\ UNCHANGED vars)

\* replacement_required or rotation_recommended
RotationAsked(ls, cs, l) ==
    \/ ls[l].state \in {"rotation_required", "revoked", "expired"}
    \/ cs[ls[l].cred].state \in {"exhausted", "unavailable_for_assignment"}
    \/ ls[l].expires - now <= MinRemaining

\* What the lookup of the lease makes of t.
Informed(t) == [t EXCEPT !.rotate = @ \/ RotationAsked(lease', cred', t.lease)]

Check(m) ==
    /\ At(m, "check") /\ Status(work[m].lease)
    /\ GoTo(m, [work[m] EXCEPT !.pc = "status"])
    /\ UNCHANGED <<file, auth, faults>>

\* Mutant of Forget: the cycle goes on without a lease.
ForgetOnly(m) == GoTo(m, [work[m] EXCEPT !.pc = "status", !.lease = None])

\* A lookup that fails for whatever reason: the lease is given up.
Forget(m) == GoTo(m, [work[m] EXCEPT !.pc = "acquire", !.lease = None])

-----------------------------------------------------------------------------
(* acquire_broker_lease, as an answer to the client                          *)

ReusableNow(m) ==
    Reusable(CredsExpired(OverdueLeases), LeasesExpired(OverdueLeases), m)

\* Some lease is left, or some credential, for the machine.
Served(m) ==
    LET ls == LeasesExpired(OverdueLeases)
        cs == AllReconciled(CredsExpired(OverdueLeases), ls)
    IN  ReusableNow(m) # {} \/ AcquireCandidates(cs, m, Agent, {}) # {}

AcquireCall(m) == AcquireReuse(m) \/ AcquireNew(m, Agent, DefaultTTL, {})

\* Mutant of Answer: a lease that is not new is taken for a denial.
AnswerNew(m) == {l \in FreeIds : lease'[l].state # "none"}

\* The lease that an acquire returns: one of the machine's, which was touched,
\* or the new one.
Answer(m) ==
    IF ReusableNow(m) # {} THEN {l \in ReusableNow(m) : lease'[l].seen = now}
    ELSE {l \in FreeIds : lease'[l].state # "none"}

Acquire(m) ==
    /\ At(m, "acquire") /\ UNCHANGED faults
    /\ AcquireCall(m)
    /\ \/ \E l \in Answer(m) :
            /\ GoTo(m, [work[m] EXCEPT !.pc = "status", !.lease = l])
            /\ UNCHANGED <<file, auth>>
       \/ Answer(m) = {} /\ Fail(m)

-----------------------------------------------------------------------------
(* The rest of sync_lease_runtime                                            *)

LookUp(m) ==
    /\ At(m, "status") /\ Status(work[m].lease)
    /\ GoTo(m, [Informed(work[m]) EXCEPT
                    !.pc = IF work[m].present THEN "reconcile" ELSE "decide"])
    /\ UNCHANGED <<file, auth, faults>>

\* Mutant of Reconciled: the auth of another account is taken for the lease's.
ReconciledSame(m) == auth[m]

\* api_lease_reconcile_auth answers with the auth of the lease's credential
\* whenever the local one is of another account, also when the lease ended.
Reconciled(m) == IF auth[m] = None THEN None ELSE lease[work[m].lease].cred

ReconcileAuth(m) ==
    /\ At(m, "reconcile") /\ Status(work[m].lease)
    /\ auth' = [auth EXCEPT ![m] = Reconciled(m)]
    /\ GoTo(m, [work[m] EXCEPT !.pc = "decide"])
    /\ UNCHANGED <<file, faults>>

\* should_renew_lease, with the deadline last heard of: only the machine's own
\* requests move it.
ShouldRenew(m) == lease[work[m].lease].expires - now <= RenewLeeway

\* should_rematerialize_auth compares two stamps: it may say so at any time.
Decide(m) ==
    /\ At(m, "decide")
    /\ \E stale \in BOOLEAN :
        GoTo(m, [work[m] EXCEPT !.pc = IF work[m].rotate THEN "rotate"
                                       ELSE IF ShouldRenew(m) THEN "renew"
                                       ELSE IF ~work[m].present \/ stale THEN "deliver"
                                       ELSE "report"])
    /\ UNCHANGED <<vars, file, auth, faults>>

\* The client goes on with the replacement; it is denied one when no candidate
\* is left, or the lease is over.
RotateLease(m) ==
    LET l == work[m].lease IN
    /\ At(m, "rotate") /\ UNCHANGED faults
    /\ \/ /\ Rotate(l)
          /\ \/ /\ lease'[l].replacement # None
                /\ GoTo(m, [work[m] EXCEPT !.pc = "deliver",
                                           !.lease = lease'[l].replacement])
                /\ UNCHANGED <<file, auth>>
             \/ lease'[l].replacement = None /\ Fail(m)
       \/ ~ActiveIn(lease, l) /\ UNCHANGED vars /\ Fail(m)

Kept(m) == ~Overdue(work[m].lease) /\ UsableForExisting(cred[lease[work[m].lease].cred])

Renewed(m) ==
    /\ At(m, "renew") /\ Kept(m) /\ Renew(work[m].lease)
    /\ GoTo(m, [work[m] EXCEPT !.pc = "report"])
    /\ UNCHANGED <<file, auth, faults>>

RenewalDenied(m) ==
    LET l == work[m].lease IN
    /\ At(m, "renew") /\ UNCHANGED faults
    /\ \/ ExpireOnAccess(l)
       \/ ~(lease[l].state = "active" /\ Kept(m)) /\ ~Overdue(l) /\ UNCHANGED vars
    /\ Fail(m)

Delivered(m) ==
    /\ At(m, "deliver") /\ Kept(m) /\ Materialize(work[m].lease)
    /\ auth' = [auth EXCEPT ![m] = lease[work[m].lease].cred]
    /\ GoTo(m, [work[m] EXCEPT !.pc = "report"])
    /\ UNCHANGED <<file, faults>>

DeliveryDenied(m) ==
    LET l == work[m].lease IN
    /\ At(m, "deliver") /\ UNCHANGED faults
    /\ \/ ExpireOnAccess(l)
       \/ ~(ActiveIn(lease, l) /\ Kept(m)) /\ ~Overdue(l) /\ UNCHANGED vars
    /\ Fail(m)

ReportTelemetry(m) ==
    /\ At(m, "report")
    /\ \E report \in Reports : Telemetry(work[m].lease, now, report)
    /\ GoTo(m, [work[m] EXCEPT !.pc = "refresh"])
    /\ UNCHANGED <<file, auth, faults>>

\* The last lookup, and the state file.
Finish(m) ==
    /\ At(m, "refresh") /\ Status(work[m].lease)
    /\ file' = [file EXCEPT ![m] = work[m].lease]
    /\ GoTo(m, NoWork)
    /\ UNCHANGED <<auth, faults>>

CycleStep(m) ==
    \/ Start(m, FALSE)
    \/ Check(m) \/ Acquire(m) \/ LookUp(m)
    \/ ReconcileAuth(m) \/ Decide(m) \/ RotateLease(m)
    \/ Renewed(m) \/ RenewalDenied(m) \/ Delivered(m) \/ DeliveryDenied(m)
    \/ ReportTelemetry(m) \/ Finish(m)

-----------------------------------------------------------------------------
(* What goes wrong, and everybody else                                       *)

\* What the manager does for a request, as far as its tables show it.
Executed(m) ==
    LET l == work[m].lease IN
    CASE At(m, "acquire") -> AcquireCall(m)
      [] At(m, "rotate") -> Rotate(l)
      [] At(m, "renew") -> Renew(l)
      [] At(m, "deliver") -> Materialize(l)
      [] At(m, "report") -> \E report \in Reports : Telemetry(l, now, report)
      [] OTHER -> Status(l)

\* The manager is out of reach, or acts and its answer is lost.
RequestFails(m) ==
    /\ faults < MaxFaults /\ faults' = faults + 1
    /\ work[m].pc \in Requests
    /\ UNCHANGED vars \/ Executed(m)
    /\ IF At(m, "check") THEN Forget(m) /\ UNCHANGED <<file, auth>> ELSE Fail(m)

\* The watcher is stopped, or the machine: nothing is written.
Kill(m) ==
    /\ faults < MaxFaults /\ faults' = faults + 1
    /\ ~At(m, "idle")
    /\ GoTo(m, NoWork)
    /\ UNCHANGED <<vars, file, auth>>

\* The user logs in or out of Codex: the auth file changes.
UserLogin(m) ==
    /\ faults < MaxFaults /\ faults' = faults + 1
    /\ auth' \in {[auth EXCEPT ![m] = c] : c \in Nullable(Credentials)}
    /\ GoTo(m, [work[m] EXCEPT !.touched = ~At(m, "idle")])
    /\ UNCHANGED <<vars, file>>

\* The administrator releases a lease.
ForceRelease(l) == Release(l) /\ UNCHANGED clientVars

ClientNext ==
    \/ \E m \in Machines : CycleStep(m) \/ Start(m, TRUE) \/ RequestFails(m) \/ Kill(m) \/ UserLogin(m)
    \/ \E l \in LeaseIds : ForceRelease(l)
    \/ (ManagerStep \/ Tick) /\ UNCHANGED clientVars

\* Every watcher goes on with its cycles.
ClientSpec ==
    /\ ClientInit /\ [][ClientNext]_allVars
    /\ \A m \in Machines : WF_allVars(CycleStep(m))

-----------------------------------------------------------------------------
(* Properties                                                                *)

\* A cycle that succeeds leaves no auth file of an account other than that of
\* the lease it writes down, whatever the file held before, whatever failed in
\* the cycles before, unless the user changed the file meanwhile.
DeliversStep ==
    \A m \in Machines :
        At(m, "refresh") /\ work'[m].pc = "idle" /\ faults' = faults /\ ~work[m].touched
        => auth'[m] \in {None, lease[file'[m]].cred}

CycleDelivers == [][DeliversStep]_allVars

\* A watcher that knows of no lease gets to know one, as long as the broker
\* has one for its machine: an acquire whose answer was lost is made good by
\* the next, which is given the same lease.
LeaseObtained ==
    \A m \in Machines : file[m] = None ~> (file[m] # None \/ ~Served(m) \/ FreeIds = {})

\* "acquires a lease if Codex Desktop does not currently have one": a machine
\* whose lease ended gets an active one, as long as the broker has one for it.
LeaseRegained ==
    \A m \in Machines :
        (file[m] # None /\ ~ActiveIn(lease, file[m]))
            ~> (file[m] = None \/ ActiveIn(lease, file[m]) \/ ~Served(m) \/ FreeIds = {})
=============================================================================
