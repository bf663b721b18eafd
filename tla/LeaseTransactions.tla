------------------------- MODULE LeaseTransactions -------------------------
(***************************************************************************)
(* The broker's operations as the databases run them: one step per SQL     *)
(* statement that writes, and per read whose result is used after another  *)
(* client may have written.                                                *)
(*                                                                         *)
(* With WriteLock (SQLite) a transaction opens with BEGIN IMMEDIATE and is *)
(* alone until it ends.  Without it (Postgres, where account_usage_store   *)
(* turns BEGIN IMMEDIATE into BEGIN) transactions overlap at READ          *)
(* COMMITTED: a statement reads what is committed and what its own         *)
(* transaction wrote, an UPDATE waits for the transaction that last wrote  *)
(* the row, and a cycle of waits ends with a victim rolled back.           *)
(* reconcile_broker_leases and get_broker_lease_status open no transaction *)
(* on either database: each of their statements commits by itself.         *)
(*                                                                         *)
(* The tables cred and lease are what is committed.  The clock stands      *)
(* still while an operation is open.  Telemetry and                        *)
(* set_broker_credential_assignment_disabled are not split here.           *)
(***************************************************************************)
EXTENDS LeaseBroker

CONSTANTS
    Clients,     \* connections, each with one operation at a time
    WriteLock,   \* SQLite's write lock
    Operations,  \* the operations that the clients call
    Rank         \* the order of the credentials by label, then id

ASSUME TransactionAssumption ==
    /\ WriteLock \in BOOLEAN
    /\ Operations \subseteq
         {"acquire", "renew", "materialize", "release", "rotate", "exhaust",
          "sync", "reconcile", "status"}
    /\ Rank \in [Credentials -> Nat]
    /\ \A c, d \in Credentials : Rank[c] = Rank[d] => c = d

VARIABLE tx  \* what each client has read and written so far

txVars == <<cred, lease, now, tx>>

Autocommit == {"reconcile", "status"}

\* Rows by their ids: none, one, and rows that are seen instead of others.
NoRows == << >>
OneRow(id, row) == [x \in {id} |-> row]
Over(new, old) ==
    [x \in DOMAIN new \cup DOMAIN old |-> IF x \in DOMAIN new THEN new[x] ELSE old[x]]

Idle ==
    [ op |-> "none", at |-> "idle",
      owner |-> None,      \* <<machine, agent>> of an acquire or a rotation
      lease |-> None,      \* the lease to write
      cred |-> None,       \* the credential to write
      held |-> FALSE,      \* what _credential_has_active_lease answered
      overdue |-> {},      \* leases read as overdue, not expired yet
      rest |-> {},         \* credentials that the scan has not come to
      rows |-> NoRows,     \* credential rows as they were read
      leases |-> NoRows,   \* lease rows written and not committed
      creds |-> NoRows ]   \* credential rows written and not committed

TxInit == Init /\ tx = [p \in Clients |-> Idle]

Open(p) == tx[p].at # "idle" /\ tx[p].op \notin Autocommit

SeenLeases(p) == Over(tx[p].leases, lease)
SeenCreds(p) == Over(tx[p].creds, cred)

Others(p) == Clients \ {p}

\* Nobody else keeps p from writing the leases L, or the credentials C.
LeasesFree(p, L) ==
    \A q \in Others(p) : IF WriteLock THEN ~Open(q) ELSE L \cap DOMAIN tx[q].leases = {}
CredsFree(p, C) ==
    \A q \in Others(p) : IF WriteLock THEN ~Open(q) ELSE C \cap DOMAIN tx[q].creds = {}

\* Mutant of MayBegin: BEGIN instead of BEGIN IMMEDIATE.
MayAlwaysBegin(p, op) == TRUE

MayBegin(p, op) == WriteLock /\ op \notin Autocommit => \A q \in Others(p) : ~Open(q)

Begin(p, op, t) ==
    /\ op \in Operations
    /\ tx[p].at = "idle"
    /\ MayBegin(p, op)
    /\ tx' = [tx EXCEPT ![p] = [t EXCEPT !.op = op]]
    /\ UNCHANGED vars

\* p writes the rows ls and cs and goes on as t; at its end, and after each
\* statement of an autocommit operation, its rows are committed.
Write(p, ls, cs, t) ==
    LET leases == Over(ls, t.leases)
        creds == Over(cs, t.creds)
    IN  /\ UNCHANGED now
        /\ IF t.at = "idle" \/ t.op \in Autocommit
           THEN /\ lease' = Over(leases, lease)
                /\ cred' = Over(creds, cred)
                /\ tx' = [tx EXCEPT ![p] = IF t.at = "idle" THEN Idle ELSE t]
           ELSE /\ UNCHANGED <<lease, cred>>
                /\ tx' = [tx EXCEPT ![p] = [t EXCEPT !.leases = leases, !.creds = creds]]

\* Mutant of Rewritten: the state of the lease is written on the credential.
RewrittenMixed(row, read, held) ==
    [row EXCEPT !.state = IF held THEN "active" ELSE Reconcile(read, held, now).state]

\* _reconcile_credential_row, given the row as it was read, updates only the
\* columns it decides; the others stay as they are by now.
Rewritten(row, read, held) ==
    LET d == Reconcile(read, held, now) IN
    [row EXCEPT !.state = d.state, !.due = d.due,
                !.confirmed = IF d.confirmed # read.confirmed THEN d.confirmed
                              ELSE row.confirmed]

-----------------------------------------------------------------------------
(* How the operations begin: their first reads                             *)

\* Bound: as many lease ids are left as operations that may take one.
IdsLeft ==
    Cardinality({q \in Clients : tx[q].op \in {"acquire", "rotate"}})
        < Cardinality(FreeIds)

BeginAcquire(p, m, a) ==
    /\ IdsLeft
    /\ Begin(p, "acquire",
             [Idle EXCEPT !.owner = <<m, a>>, !.overdue = OverdueLeases,
                          !.at = IF OverdueLeases = {} THEN "select" ELSE "expire"])

\* renew, materialize and the status read look at the lease, expire it or go
\* on to update it.
BeginUpdate(p, op, l) ==
    \/ /\ Overdue(l)
       /\ Begin(p, op, [Idle EXCEPT !.overdue = {l}, !.at = "expire"])
    \/ /\ ActiveIn(lease, l) /\ ~Overdue(l)
       /\ op = "renew" => lease[l].state = "active"
       /\ op # "status" => UsableForExisting(cred[lease[l].cred])
       /\ Begin(p, op, [Idle EXCEPT !.lease = l, !.at = "update"])

BeginRelease(p, l) ==
    /\ ActiveIn(lease, l)
    /\ Begin(p, "release", [Idle EXCEPT !.lease = l, !.at = "release"])

\* A rotation starts with the scan; nothing is expired before it.
BeginRotate(p, l) ==
    /\ IdsLeft /\ ActiveIn(lease, l)
    /\ Begin(p, "rotate",
             [Idle EXCEPT !.owner = <<lease[l].machine, lease[l].agent>>,
                          !.lease = l, !.rest = Credentials, !.rows = cred,
                          !.at = "scan"])

BeginExhaust(p, c) ==
    Begin(p, "exhaust", [Idle EXCEPT !.cred = c, !.at = "exhaust"])

BeginReconcile(p) ==
    /\ OverdueLeases # {}
    /\ Begin(p, "reconcile", [Idle EXCEPT !.overdue = OverdueLeases, !.at = "expire"])

\* sync_broker_credential writes the credential's row first: from then on no
\* grant or release of it can commit, and the rest is one step with it.
SyncRow(c, reading) ==
    /\ "sync" \in Operations
    /\ \A p \in Clients : IF WriteLock THEN ~Open(p) ELSE c \notin DOMAIN tx[p].creds
    /\ \E weekly \in ResetsAfter(now) : Sync(c, reading, weekly, now)
    /\ UNCHANGED tx

-----------------------------------------------------------------------------
(* _expire_lease_if_needed on each lease that was read as overdue          *)

ExpireRow(p) ==
    /\ tx[p].at = "expire"
    /\ \E l \in tx[p].overdue :
         LET row == SeenLeases(p)[l] IN
         /\ LeasesFree(p, {l})
         /\ Write(p, OneRow(l, [row EXCEPT !.state = "expired"]), NoRows,
                  [tx[p] EXCEPT !.overdue = @ \ {l}, !.cred = row.cred, !.at = "read"])

\* The lease's credential is read, and then written as unheld.
ReadRow(p) ==
    /\ tx[p].at = "read"
    /\ tx' = [tx EXCEPT ![p].rows = OneRow(tx[p].cred, SeenCreds(p)[tx[p].cred]),
                        ![p].at = "write"]
    /\ UNCHANGED vars

AfterWrite(t) ==
    IF t.overdue # {} THEN "expire" ELSE IF t.op = "acquire" THEN "select" ELSE "idle"

WriteRow(p) ==
    LET c == tx[p].cred IN
    /\ tx[p].at = "write"
    /\ CredsFree(p, {c})
    /\ Write(p, NoRows, OneRow(c, Rewritten(SeenCreds(p)[c], tx[p].rows[c], FALSE)),
             [tx[p] EXCEPT !.cred = None, !.rows = NoRows, !.at = AfterWrite(tx[p])])

-----------------------------------------------------------------------------
(* One lease's row                                                         *)

\* Mutant of Refreshed: the whole row is written back as it was read.
RefreshedWhole(op, row, l) ==
    [row EXCEPT !.state = IF op = "renew" THEN "active" ELSE row.state,
                !.seen = now]

\* The columns that a reuse or a status read, a renew, a delivery write.
Refreshed(op, row, l) ==
    [row EXCEPT !.seen = now,
                !.expires = IF op = "renew" THEN now + DefaultTTL ELSE row.expires,
                !.first = IF op = "materialize" /\ FirstDelivery(l) = None THEN now
                          ELSE row.first]

UpdateLease(p) ==
    LET l == tx[p].lease IN
    /\ tx[p].at = "update"
    /\ LeasesFree(p, {l})
    /\ Write(p, OneRow(l, Refreshed(tx[p].op, SeenLeases(p)[l], l)), NoRows,
             [tx[p] EXCEPT !.at = "idle"])

ReleaseRow(p) ==
    LET l == tx[p].lease
        row == SeenLeases(p)[l]
    IN  /\ tx[p].at = "release"
        /\ LeasesFree(p, {l})
        /\ Write(p, OneRow(l, [row EXCEPT !.state = "released"]), NoRows,
                 [tx[p] EXCEPT !.cred = row.cred, !.lease = None, !.at = "read"])

ExhaustRow(p) ==
    LET c == tx[p].cred IN
    /\ tx[p].at = "exhaust"
    /\ CredsFree(p, {c})
    /\ Write(p, NoRows, OneRow(c, Exhausted(SeenCreds(p)[c])),
             [tx[p] EXCEPT !.at = "revoke"])

LeasesOn(p, c) == {l \in LeaseIds : ActiveIn(SeenLeases(p), l) /\ SeenLeases(p)[l].cred = c}

RevokeRows(p) ==
    LET c == tx[p].cred
        L == LeasesOn(p, c)
    IN  /\ tx[p].at = "revoke"
        /\ LeasesFree(p, L)
        /\ Write(p, [l \in L |-> Revoked(SeenLeases(p), c)[l]], NoRows,
                 [tx[p] EXCEPT !.at = "idle"])

-----------------------------------------------------------------------------
(* _select_existing_machine_lease, _select_best_eligible_credential        *)

Select(p) ==
    LET reusable == Reusable(SeenCreds(p), SeenLeases(p), tx[p].owner[1]) IN
    /\ tx[p].at = "select"
    /\ \/ \E l \in reusable :
            tx' = [tx EXCEPT ![p].lease = l, ![p].at = "update"]
       \/ /\ reusable = {}
          /\ tx' = [tx EXCEPT ![p].rest = Credentials, ![p].rows = SeenCreds(p),
                              ![p].at = "scan"]
    /\ UNCHANGED vars

\* The credential whose turn it is.
NextRows(rest) == {c \in rest : \A d \in rest : Rank[c] <= Rank[d]}

\* Mutant of ShownHeld: only the caller's own leases are looked for.
HeldByCaller(p, c) ==
    \E l \in LeaseIds : ActiveIn(SeenLeases(p), l) /\ SeenLeases(p)[l].cred = c
                       /\ SeenLeases(p)[l].machine = tx[p].owner[1]

\* _credential_has_active_lease
ShownHeld(p, c) == HeldIn(SeenLeases(p), c)

CheckHeld(p) ==
    /\ tx[p].at = "scan"
    /\ \E c \in NextRows(tx[p].rest) :
         tx' = [tx EXCEPT ![p].cred = c, ![p].rest = @ \ {c},
                          ![p].held = ShownHeld(p, c), ![p].at = "reconcile"]
    /\ UNCHANGED vars

ReconcileRow(p) ==
    LET c == tx[p].cred
        last == tx[p].rest = {}
    IN  /\ tx[p].at = "reconcile"
        /\ CredsFree(p, {c})
        /\ Write(p, NoRows, OneRow(c, Rewritten(SeenCreds(p)[c], tx[p].rows[c], tx[p].held)),
                 [tx[p] EXCEPT !.cred = None, !.held = FALSE,
                               !.rows = IF last THEN NoRows ELSE @,
                               !.at = IF last THEN "choose" ELSE "scan"])

\* Mutant of Denied: the connection is not closed on the way out.
DeniedOpen(p) == UNCHANGED txVars

Denied(p) == Write(p, NoRows, NoRows, [tx[p] EXCEPT !.at = "idle"])

GrantAcquired(p, ttl, exclude) ==
    LET m == tx[p].owner[1]
        a == tx[p].owner[2]
        candidates == AcquireCandidates(SeenCreds(p), m, a, exclude)
    IN  /\ tx[p].at = "choose" /\ tx[p].op = "acquire"
        /\ \/ candidates = {} /\ Denied(p)
           \/ \E c \in candidates, l \in FreeIds :
                Write(p, OneRow(l, NewLease(c, m, a, ttl)),
                      OneRow(c, [SeenCreds(p)[c] EXCEPT !.state = "leased"]),
                      [tx[p] EXCEPT !.at = "idle"])

ChooseReplacement(p) ==
    LET candidates == RotateCandidates(SeenCreds(p), tx[p].owner[1], tx[p].owner[2],
                                       lease[tx[p].lease].cred)
    IN  /\ tx[p].at = "choose" /\ tx[p].op = "rotate"
        /\ \/ candidates = {} /\ Denied(p)
           \/ \E c \in candidates :
                /\ tx' = [tx EXCEPT ![p].cred = c, ![p].at = "swap"]
                /\ UNCHANGED vars

\* The old lease's row is the last that a rotation may have to wait for.
Swap(p) ==
    LET l == tx[p].lease
        row == SeenLeases(p)[l]
        cs == SeenCreds(p)
    IN  /\ tx[p].at = "swap"
        /\ LeasesFree(p, {l})
        /\ \E new \in FreeIds :
             Write(p,
                   Over(OneRow(new, NewLease(tx[p].cred, tx[p].owner[1], tx[p].owner[2],
                                             DefaultTTL)),
                        OneRow(l, [row EXCEPT !.state = "released", !.replacement = new])),
                   Over(OneRow(tx[p].cred, [cs[tx[p].cred] EXCEPT !.state = "leased"]),
                        OneRow(row.cred, Reconcile(cs[row.cred], FALSE, now))),
                   [tx[p] EXCEPT !.at = "idle"])

-----------------------------------------------------------------------------
(* What ends an operation early                                            *)

\* The rows that p is about to write.
WantedLeases(p) ==
    CASE tx[p].at = "expire" -> tx[p].overdue
      [] tx[p].at \in {"update", "release", "swap"} -> {tx[p].lease}
      [] tx[p].at = "revoke" -> LeasesOn(p, tx[p].cred)
      [] OTHER -> {}

WantedCreds(p) ==
    IF tx[p].at \in {"write", "reconcile", "exhaust"} THEN {tx[p].cred} ELSE {}

WaitsFor(p, q) ==
    /\ p # q
    /\ \/ WantedLeases(p) \cap DOMAIN tx[q].leases # {}
       \/ WantedCreds(p) \cap DOMAIN tx[q].creds # {}

\* p and the others of S wait for each other in a ring.
InRing(p, S) ==
    /\ p \in S
    /\ \A T \in SUBSET S \ {{}, S} : \E q \in T, r \in S \ T : WaitsFor(q, r)

Deadlocked(p) == \E S \in SUBSET Clients : S # {p} /\ InRing(p, S)

\* Postgres picks a victim: psycopg raises, and the connection's exit rolls
\* the transaction back.
DetectDeadlock(p) ==
    /\ ~WriteLock /\ Deadlocked(p)
    /\ tx' = [tx EXCEPT ![p] = Idle]
    /\ UNCHANGED vars

\* The process ends, or a statement fails: what was committed stays.
Crash(p) ==
    /\ tx[p].at # "idle"
    /\ tx' = [tx EXCEPT ![p] = Idle]
    /\ UNCHANGED vars

-----------------------------------------------------------------------------

BeginAny(p) ==
    \/ \E m \in Machines, a \in Agents : BeginAcquire(p, m, a)
    \/ \E l \in LeaseIds :
          \/ \E op \in {"renew", "materialize", "status"} : BeginUpdate(p, op, l)
          \/ BeginRelease(p, l)
          \/ BeginRotate(p, l)
    \/ \E c \in Credentials : BeginExhaust(p, c)
    \/ BeginReconcile(p)

Proceed(p) ==
    \/ ExpireRow(p) \/ ReadRow(p) \/ WriteRow(p)
    \/ UpdateLease(p) \/ ReleaseRow(p) \/ ExhaustRow(p) \/ RevokeRows(p)
    \/ Select(p) \/ CheckHeld(p) \/ ReconcileRow(p)
    \/ \E ttl \in TTLs, exclude \in SUBSET Credentials : GrantAcquired(p, ttl, exclude)
    \/ ChooseReplacement(p) \/ Swap(p)

TxTick ==
    /\ \A p \in Clients : tx[p] = Idle
    /\ Tick
    /\ UNCHANGED tx

TxNext ==
    \/ \E p \in Clients : BeginAny(p) \/ Proceed(p) \/ DetectDeadlock(p) \/ Crash(p)
    \/ \E c \in Credentials, reading \in Readings : SyncRow(c, reading)
    \/ TxTick

TxSpec == TxInit /\ [][TxNext]_txVars

\* A row lock is granted in the order of the requests, so a client that
\* waits for one gets its turn; deadlocks are looked for again and again.
FairTxSpec ==
    TxSpec /\ \A p \in Clients :
                SF_txVars(Proceed(p)) /\ WF_txVars(DetectDeadlock(p))

-----------------------------------------------------------------------------
(* Properties; NoDoubleLease is LeaseBroker's.                             *)

TxTypeOK ==
    /\ TypeOK
    /\ \A p \in Clients :
          /\ tx[p].overdue \subseteq LeaseIds /\ tx[p].rest \subseteq Credentials
          /\ tx[p].lease \in Nullable(LeaseIds) /\ tx[p].cred \in Nullable(Credentials)
          /\ DOMAIN tx[p].leases \subseteq LeaseIds
          /\ \A l \in DOMAIN tx[p].leases : tx[p].leases[l] \in Lease
          /\ DOMAIN tx[p].creds \subseteq Credentials
          /\ \A c \in DOMAIN tx[p].creds : tx[p].creds[c] \in Credential

\* Under the write lock, whatever the statements of the transactions do one
\* by one, what gets committed are the steps of LeaseBroker, save for the
\* calls in autocommit, and those do not disturb the others.
AutocommitStep == \E p \in Clients : tx[p].op \in Autocommit /\ Proceed(p)

Serialisable == [][Next \/ AutocommitStep]_vars

\* A lease that ended stays without effect, although renewals, deliveries and
\* the autocommit loop write rows that they read before others ended them: no
\* statement writes an active state on a row that exists.
EndedStep ==
    \A l \in LeaseIds : lease[l].state \in EndStates => lease'[l].state \in EndStates

EndedStaysEnded == [][EndedStep]_txVars

\* Every operation ends: expiries, scans, rotations and revocations that lock
\* the rows in different orders cost a victim, and keep nobody waiting.
OperationsEnd == \A p \in Clients : tx[p].at # "idle" ~> tx[p].at = "idle"
=============================================================================
