----------------------- MODULE LeaseTransactionsProofs -----------------------
(* Proofs about LeaseTransactions: what the statements of overlapping        *)
(* transactions preserve, and that under the write lock they add up to       *)
(* steps of LeaseBroker.                                                     *)
EXTENDS LeaseTransactions, LeasePolicyProofs

-----------------------------------------------------------------------------
(* Rows of a table                                                         *)

\* The rows of some of the ids S.
RowsOf(S, T) == UNION {[D -> T] : D \in SUBSET S}

LEMMA NoRowsTyped ==
    ASSUME NEW S, NEW T
    PROVE  NoRows \in RowsOf(S, T)
<1>1. NoRows \in [{} -> T]
  BY DEF NoRows
<1>. QED
  BY <1>1 DEF RowsOf

LEMMA OneRowTyped ==
    ASSUME NEW S, NEW T, NEW x \in S, NEW r \in T
    PROVE  OneRow(x, r) \in RowsOf(S, T)
<1>1. OneRow(x, r) \in [{x} -> T] /\ {x} \in SUBSET S
  BY DEF OneRow
<1>. QED
  BY <1>1 DEF RowsOf, OneRow

LEMMA RowsTyped ==
    ASSUME NEW S, NEW T, NEW f \in RowsOf(S, T)
    PROVE  /\ DOMAIN f \subseteq S
           /\ f \in [DOMAIN f -> T]
           /\ \A x \in DOMAIN f : f[x] \in T
BY DEF RowsOf

\* Rows over other rows, and over a whole table.
LEMMA OverTyped ==
    ASSUME NEW S, NEW T, NEW f \in RowsOf(S, T), NEW g \in RowsOf(S, T)
    PROVE  Over(f, g) \in RowsOf(S, T)
<1>1. /\ DOMAIN f \subseteq S /\ \A x \in DOMAIN f : f[x] \in T
      /\ DOMAIN g \subseteq S /\ \A x \in DOMAIN g : g[x] \in T
  BY RowsTyped
<1>2. Over(f, g) \in [DOMAIN f \cup DOMAIN g -> T]
  BY <1>1 DEF Over
<1>. QED
  BY <1>1, <1>2 DEF RowsOf

LEMMA OverTable ==
    ASSUME NEW S, NEW T, NEW f \in RowsOf(S, T), NEW g \in [S -> T]
    PROVE  /\ Over(f, g) \in [S -> T]
           /\ \A x \in DOMAIN f : Over(f, g)[x] = f[x]
           /\ \A x \in S \ DOMAIN f : Over(f, g)[x] = g[x]
<1>1. DOMAIN f \subseteq S /\ \A x \in DOMAIN f : f[x] \in T
  BY RowsTyped
<1>. QED
  BY <1>1 DEF Over

LEMMA WiderRows ==
    ASSUME NEW S, NEW T, NEW U, T \subseteq U, NEW f \in RowsOf(S, T)
    PROVE  f \in RowsOf(S, U)
<1>1. DOMAIN f \subseteq S /\ f \in [DOMAIN f -> U]
  BY RowsTyped
<1>. QED
  BY <1>1 DEF RowsOf

-----------------------------------------------------------------------------
(* What a client has read and written                                      *)

\* The row of a lease that ended.
EndedLease == {row \in IssuedLease : row.state \in EndStates}

\* The points at which an operation may be.
Points ==
    {"idle", "expire", "read", "write", "select", "update", "scan", "reconcile",
     "choose", "swap", "release", "exhaust", "revoke"}

\* The only lease rows that a transaction keeps to itself are those of leases
\* that it ends.
Txn ==
    [ op : Operations \cup {"none"},
      at : Points,
      owner : Nullable(Machines \X Agents),
      lease : Nullable(LeaseIds),
      cred : Nullable(Credentials),
      held : BOOLEAN,
      overdue : SUBSET LeaseIds,
      rest : SUBSET Credentials,
      rows : RowsOf(Credentials, Credential),
      leases : RowsOf(LeaseIds, EndedLease),
      creds : RowsOf(Credentials, Credential) ]

Issued(l) == lease[l].state # "none"

\* What a client at some point of its operation knows.
PointOK(t) ==
    /\ \A l \in t.overdue : Issued(l)
    /\ \/ t.at \in {"update", "release", "swap"}
       \/ t.at \in {"scan", "reconcile", "choose"} /\ t.op = "rotate"
       => t.lease \in LeaseIds /\ Issued(t.lease)
    /\ t.at \in {"read", "write", "reconcile", "exhaust", "revoke", "swap"}
       => t.cred \in Credentials
    /\ t.at = "write" => t.cred \in DOMAIN t.rows
    /\ t.at \in {"scan", "reconcile"} => DOMAIN t.rows = Credentials
    /\ t.op \in {"acquire", "rotate"} => t.owner \in Machines \X Agents
    /\ t.at = "swap" => t.op = "rotate"
    /\ t.at = "select" => t.op = "acquire"

TxInv ==
    /\ TypeOK /\ now <= MaxTime
    /\ tx \in [Clients -> Txn]
    /\ \A p \in Clients : PointOK(tx[p])

\* Rows, once issued, stay.
IssuedStay == \A l \in LeaseIds : Issued(l) => Issued(l)'

LEMMA IdleTyped == Idle \in Txn /\ PointOK(Idle)
<1>1. /\ NoRows \in RowsOf(Credentials, Credential)
      /\ NoRows \in RowsOf(LeaseIds, EndedLease)
  BY NoRowsTyped
<1>2. Idle \in Txn
  <2>1. \A S : None \in Nullable(S)
    BY DEF Nullable
  <2>2. "idle" \in Points
    BY DEF Points
  <2>. QED
    BY <1>1, <2>1, <2>2 DEF Idle, Txn
<1>. QED
  BY <1>2 DEF Idle, PointOK

\* A step of p that leaves well-formed tables keeps the invariant.
LEMMA StepOf ==
    ASSUME TxInv, NEW p \in Clients, TypeOK', now' <= MaxTime, IssuedStay,
           NEW t \in Txn, PointOK(t), tx' = [tx EXCEPT ![p] = t]
    PROVE  TxInv'
<1>1. tx' \in [Clients -> Txn]
  BY DEF TxInv
<1>2. ASSUME NEW q \in Clients PROVE PointOK(tx[q])'
  <2>1. PICK u \in Txn : u = tx'[q] /\ PointOK(u)
    <3>1. tx[q] \in Txn /\ PointOK(tx[q])
      BY DEF TxInv
    <3>. QED
      BY <3>1 DEF TxInv
  <2>2. u.overdue \subseteq LeaseIds
    BY DEF Txn
  <2>3. PointOK(u)'
    BY <2>1, <2>2 DEF PointOK, IssuedStay
  <2>. QED
    BY <2>1, <2>3 DEF PointOK
<1>. QED
  BY <1>1, <1>2 DEF TxInv

\* The tables as p sees them are well formed, too.
LEMMA SeenTyped ==
    ASSUME TxInv, NEW p \in Clients
    PROVE  /\ SeenLeases(p) \in [LeaseIds -> Lease]
           /\ SeenCreds(p) \in [Credentials -> Credential]
           /\ \A l \in LeaseIds : Issued(l) => SeenLeases(p)[l] \in IssuedLease
           /\ \A l \in LeaseIds : lease[l].state \in EndStates =>
                 SeenLeases(p)[l].state \in EndStates
<1>1. /\ lease \in [LeaseIds -> Lease] /\ cred \in [Credentials -> Credential]
      /\ tx[p].leases \in RowsOf(LeaseIds, EndedLease)
      /\ tx[p].creds \in RowsOf(Credentials, Credential)
  BY DEF TxInv, TypeOK, Txn
<1>2. EndedLease \subseteq Lease
  BY DEF EndedLease, Lease
<1>3. tx[p].leases \in RowsOf(LeaseIds, Lease)
  BY <1>1, <1>2, WiderRows
<1>4. /\ SeenLeases(p) \in [LeaseIds -> Lease]
      /\ \A l \in DOMAIN tx[p].leases : SeenLeases(p)[l] = tx[p].leases[l]
      /\ \A l \in LeaseIds \ DOMAIN tx[p].leases : SeenLeases(p)[l] = lease[l]
  BY <1>1, <1>3, OverTable DEF SeenLeases
<1>5. SeenCreds(p) \in [Credentials -> Credential]
  BY <1>1, OverTable DEF SeenCreds
<1>6. \A l \in DOMAIN tx[p].leases : tx[p].leases[l] \in EndedLease
  BY <1>1, RowsTyped
<1>7. \A l \in LeaseIds : Issued(l) => lease[l] \in IssuedLease
  BY <1>1, ActiveIssued DEF Issued
<1>. QED
  BY <1>4, <1>5, <1>6, <1>7 DEF EndedLease

\* Writing well-formed rows, of leases that ended if they are not committed at
\* once, keeps the invariant; and if no row makes an ended lease active, it
\* stays ended.
LEMMA WriteStep ==
    ASSUME TxInv, NEW p \in Clients,
           NEW ls \in RowsOf(LeaseIds, IssuedLease), NEW cs \in RowsOf(Credentials, Credential),
           NEW t \in Txn, PointOK(t), Write(p, ls, cs, t),
           t.at = "idle" \/ t.op \in Autocommit \/ ls \in RowsOf(LeaseIds, EndedLease),
           \A l \in DOMAIN ls : lease[l].state \in EndStates => ls[l].state \in EndStates
    PROVE  TxInv' /\ EndedStep
<1> DEFINE leases == Over(ls, t.leases)
           creds == Over(cs, t.creds)
           written == [t EXCEPT !.leases = leases, !.creds = creds]
<1>1. /\ t.leases \in RowsOf(LeaseIds, EndedLease)
      /\ t.creds \in RowsOf(Credentials, Credential)
      /\ lease \in [LeaseIds -> Lease] /\ cred \in [Credentials -> Credential]
      /\ now \in Nat /\ now <= MaxTime
  BY DEF Txn, TxInv, TypeOK
<1>2. EndedLease \subseteq IssuedLease /\ IssuedLease \subseteq Lease
  BY DEF EndedLease, Lease
<1>3. t.leases \in RowsOf(LeaseIds, IssuedLease)
  BY <1>1, <1>2, WiderRows
<1>4. /\ leases \in RowsOf(LeaseIds, IssuedLease)
      /\ DOMAIN leases = DOMAIN ls \cup DOMAIN t.leases
      /\ creds \in RowsOf(Credentials, Credential)
  <2>1. leases \in RowsOf(LeaseIds, IssuedLease)
    BY <1>3, OverTyped
  <2>2. DOMAIN leases = DOMAIN ls \cup DOMAIN t.leases
    BY DEF Over
  <2>3. creds \in RowsOf(Credentials, Credential)
    BY <1>1, OverTyped
  <2>. QED
    BY <2>1, <2>2, <2>3
<1>5. leases \in RowsOf(LeaseIds, Lease)
  BY <1>2, <1>4, WiderRows
<1>6. \A l \in DOMAIN leases :
         /\ leases[l] \in IssuedLease
         /\ l \in LeaseIds
         /\ lease[l].state \in EndStates => leases[l].state \in EndStates
  <2>1. \A l \in DOMAIN t.leases : t.leases[l] \in EndedLease
    BY <1>1, RowsTyped
  <2>2. \A l \in DOMAIN leases : leases[l] \in IssuedLease /\ l \in LeaseIds
    BY <1>4, RowsTyped
  <2>3. \A l \in DOMAIN leases : leases[l] = IF l \in DOMAIN ls THEN ls[l] ELSE t.leases[l]
    BY DEF Over
  <2>. QED
    BY <1>4, <2>1, <2>2, <2>3 DEF EndedLease
<1>7. CASE t.at = "idle" \/ t.op \in Autocommit
  <2>1. PICK u \in Txn : tx' = [tx EXCEPT ![p] = u] /\ PointOK(u)
    <3>1. tx' = [tx EXCEPT ![p] = Idle] \/ tx' = [tx EXCEPT ![p] = t]
      BY <1>7 DEF Write
    <3>. QED
      BY <3>1, IdleTyped
  <2>2. lease' = Over(leases, lease) /\ cred' = Over(creds, cred) /\ now' = now
    BY <1>7 DEF Write
  <2> HIDE DEF leases, creds
  <2>3. /\ lease' \in [LeaseIds -> Lease]
        /\ \A l \in DOMAIN leases : lease'[l] = leases[l]
        /\ \A l \in LeaseIds \ DOMAIN leases : lease'[l] = lease[l]
    BY <1>1, <1>5, <2>2, OverTable
  <2>4. cred' \in [Credentials -> Credential]
    BY <1>1, <1>4, <2>2, OverTable
  <2>5. TypeOK'
    BY <1>1, <2>2, <2>3, <2>4 DEF TypeOK
  <2>6. IssuedStay /\ EndedStep
    BY <1>6, <2>3 DEF IssuedStay, Issued, EndedStep, IssuedLease, ActiveStates, EndStates
  <2>. QED
    BY <1>1, <2>1, <2>2, <2>5, <2>6, StepOf
<1>8. CASE ~(t.at = "idle" \/ t.op \in Autocommit)
  <2>1. tx' = [tx EXCEPT ![p] = written] /\ UNCHANGED <<lease, cred, now>>
    BY <1>8 DEF Write
  <2>2. leases \in RowsOf(LeaseIds, EndedLease)
    BY <1>1, <1>8, OverTyped
  <2> HIDE DEF leases, creds
  <2>3. written \in Txn
    BY <1>4, <2>2 DEF Txn
  <2>4. PointOK(written)
    BY DEF PointOK, Txn
  <2>5. TypeOK' /\ IssuedStay /\ EndedStep
    BY <2>1 DEF TxInv, TypeOK, IssuedStay, Issued, EndedStep
  <2> HIDE DEF written
  <2>. QED
    BY <1>1, <2>1, <2>3, <2>4, <2>5, StepOf
<1>. QED
  BY <1>7, <1>8

\* So does a step that writes no row.
LEMMA ReadStep ==
    ASSUME TxInv, NEW p \in Clients, NEW t \in Txn, PointOK(t),
           tx' = [tx EXCEPT ![p] = t], UNCHANGED vars
    PROVE  TxInv' /\ EndedStep
<1>1. TypeOK' /\ now' <= MaxTime /\ IssuedStay /\ EndedStep
  BY DEF TxInv, TypeOK, vars, IssuedStay, Issued, EndedStep
<1>. QED
  BY <1>1, StepOf

\* What p knows, for the steps below.
LEMMA Known ==
    ASSUME TxInv, NEW p \in Clients
    PROVE  tx[p] \in Txn /\ PointOK(tx[p])
BY DEF TxInv

\* The beginning of any operation.
LEMMA BeginStep ==
    ASSUME TxInv, NEW p \in Clients, BeginAny(p)
    PROVE  TxInv' /\ EndedStep
<1>1. ASSUME NEW op, NEW t \in Txn, Begin(p, op, t),
             t.op = "none", PointOK([t EXCEPT !.op = op])
      PROVE  TxInv' /\ EndedStep
  <2>1. [t EXCEPT !.op = op] \in Txn
    BY <1>1 DEF Begin, Txn
  <2>. QED
    BY <1>1, <2>1, ReadStep DEF Begin
<1>2. /\ Idle \in Txn /\ Idle.op = "none"
      /\ \A x \in {"select", "expire", "update", "release", "scan", "exhaust"} : x \in Points
  BY IdleTyped DEF Idle, Points
<1>3. /\ lease \in [LeaseIds -> Lease] /\ cred \in [Credentials -> Credential]
      /\ cred \in RowsOf(Credentials, Credential) /\ DOMAIN cred = Credentials
      /\ OverdueLeases \in SUBSET LeaseIds /\ \A l \in OverdueLeases : Issued(l)
  BY DEF TxInv, TypeOK, RowsOf, OverdueLeases, Overdue, Issued, ActiveIn, ActiveStates
<1>4. ASSUME NEW l \in LeaseIds, ActiveIn(lease, l)
      PROVE  Issued(l) /\ lease[l].machine \in Machines /\ lease[l].agent \in Agents
  <2>1. Issued(l)
    BY <1>4 DEF ActiveIn, ActiveStates, Issued
  <2>. QED
    BY <1>3, <2>1, ActiveIssued DEF IssuedLease, Issued
<1>5. ASSUME NEW owner \in Machines \X Agents, NEW at \in {"select", "expire"},
             Begin(p, "acquire", [Idle EXCEPT !.owner = owner, !.overdue = OverdueLeases,
                                              !.at = at])
      PROVE  TxInv' /\ EndedStep
  <2> DEFINE t == [Idle EXCEPT !.owner = owner, !.overdue = OverdueLeases, !.at = at]
  <2>1. t \in Txn /\ t.op = "none"
    <3>1. owner \in Nullable(Machines \X Agents) /\ at \in Points
      BY <1>2 DEF Nullable
    <3>. QED
      BY <1>2, <1>3, <3>1 DEF Txn
  <2>2. PointOK([t EXCEPT !.op = "acquire"])
    BY <1>2, <1>3 DEF Txn, PointOK
  <2> HIDE DEF t
  <2>. QED
    BY <1>1, <1>5, <2>1, <2>2 DEF t
<1>6. ASSUME NEW op \in {"renew", "materialize", "status"}, NEW l \in LeaseIds,
             BeginUpdate(p, op, l)
      PROVE  TxInv' /\ EndedStep
  <2>1. CASE Overdue(l) /\ Begin(p, op, [Idle EXCEPT !.overdue = {l}, !.at = "expire"])
    <3> DEFINE t == [Idle EXCEPT !.overdue = {l}, !.at = "expire"]
    <3>1. t \in Txn /\ t.op = "none"
      BY <1>2 DEF Txn
    <3>2. PointOK([t EXCEPT !.op = op])
      BY <1>2, <1>4, <2>1 DEF Txn, PointOK, Overdue
    <3> HIDE DEF t
    <3>. QED
      BY <1>1, <2>1, <3>1, <3>2 DEF t
  <2>2. CASE /\ ActiveIn(lease, l)
             /\ Begin(p, op, [Idle EXCEPT !.lease = l, !.at = "update"])
    <3> DEFINE t == [Idle EXCEPT !.lease = l, !.at = "update"]
    <3>1. t \in Txn /\ t.op = "none"
      BY <1>2 DEF Txn, Nullable
    <3>2. Idle.overdue = {}
      BY DEF Idle
    <3>3. PointOK([t EXCEPT !.op = op])
      BY <1>2, <1>4, <2>2, <3>2 DEF Txn, PointOK
    <3> HIDE DEF t
    <3>. QED
      BY <1>1, <2>2, <3>1, <3>3 DEF t
  <2>. QED
    BY <1>6, <2>1, <2>2 DEF BeginUpdate
<1>7. ASSUME NEW l \in LeaseIds, BeginRelease(p, l)
      PROVE  TxInv' /\ EndedStep
  <2> DEFINE t == [Idle EXCEPT !.lease = l, !.at = "release"]
  <2>1. t \in Txn /\ t.op = "none"
    BY <1>2 DEF Txn, Nullable
  <2>2. Idle.overdue = {}
    BY DEF Idle
  <2>3. PointOK([t EXCEPT !.op = "release"])
    BY <1>2, <1>4, <1>7, <2>2 DEF Txn, PointOK, BeginRelease
  <2> HIDE DEF t
  <2>. QED
    BY <1>1, <1>7, <2>1, <2>3 DEF BeginRelease, t
<1>8. ASSUME NEW l \in LeaseIds, BeginRotate(p, l)
      PROVE  TxInv' /\ EndedStep
  <2> DEFINE t == [Idle EXCEPT !.owner = <<lease[l].machine, lease[l].agent>>,
                               !.lease = l, !.rest = Credentials, !.rows = cred,
                               !.at = "scan"]
  <2>1. ActiveIn(lease, l) /\ Begin(p, "rotate", t)
    BY <1>8 DEF BeginRotate
  <2>2. /\ <<lease[l].machine, lease[l].agent>> \in Machines \X Agents /\ Issued(l)
        /\ Idle.overdue = {}
    BY <1>4, <2>1 DEF Idle
  <2>3. t \in Txn /\ t.op = "none"
    BY <1>2, <1>3, <2>2 DEF Txn, Nullable
  <2>4. PointOK([t EXCEPT !.op = "rotate"])
    BY <1>2, <1>3, <2>2 DEF Txn, PointOK
  <2> HIDE DEF t
  <2>. QED
    BY <1>1, <2>1, <2>3, <2>4
<1>9. ASSUME NEW c \in Credentials, BeginExhaust(p, c)
      PROVE  TxInv' /\ EndedStep
  <2> DEFINE t == [Idle EXCEPT !.cred = c, !.at = "exhaust"]
  <2>1. t \in Txn /\ t.op = "none" /\ Idle.overdue = {}
    BY <1>2 DEF Txn, Nullable, Idle
  <2>2. PointOK([t EXCEPT !.op = "exhaust"])
    BY <1>2, <2>1 DEF Txn, PointOK
  <2> HIDE DEF t
  <2>. QED
    BY <1>1, <1>9, <2>1, <2>2 DEF BeginExhaust, t
<1>10. CASE BeginReconcile(p)
  <2> DEFINE t == [Idle EXCEPT !.overdue = OverdueLeases, !.at = "expire"]
  <2>1. t \in Txn /\ t.op = "none"
    BY <1>2, <1>3 DEF Txn
  <2>2. PointOK([t EXCEPT !.op = "reconcile"])
    BY <1>2, <1>3 DEF Txn, PointOK
  <2> HIDE DEF t
  <2>. QED
    BY <1>1, <1>10, <2>1, <2>2 DEF BeginReconcile, t
<1>11. ASSUME NEW m \in Machines, NEW a \in Agents, BeginAcquire(p, m, a)
       PROVE  TxInv' /\ EndedStep
  BY <1>5, <1>11 DEF BeginAcquire
<1>. QED
  BY <1>6, <1>7, <1>8, <1>9, <1>10, <1>11 DEF BeginAny

LEMMA OneEndedRow ==
    ASSUME NEW l \in LeaseIds, NEW row \in EndedLease
    PROVE  /\ OneRow(l, row) \in RowsOf(LeaseIds, EndedLease)
           /\ OneRow(l, row) \in RowsOf(LeaseIds, IssuedLease)
           /\ \A k \in DOMAIN OneRow(l, row) : OneRow(l, row)[k].state \in EndStates
<1>1. row \in IssuedLease /\ row.state \in EndStates
  BY DEF EndedLease
<1>. QED
  BY <1>1, OneRowTyped DEF OneRow

\* _expire_lease_if_needed writes a lease's row.
LEMMA ExpireRowStep ==
    ASSUME TxInv, NEW p \in Clients, ExpireRow(p)
    PROVE  TxInv' /\ EndedStep
<1>1. PICK t \in Txn : t = tx[p] /\ PointOK(t)
  BY Known
<1>2. PICK l \in t.overdue : 
         Write(p, OneRow(l, [SeenLeases(p)[l] EXCEPT !.state = "expired"]), NoRows,
               [t EXCEPT !.overdue = t.overdue \ {l}, !.cred = SeenLeases(p)[l].cred,
                         !.at = "read"])
  BY <1>1 DEF ExpireRow
<1>3. l \in LeaseIds /\ Issued(l)
  BY <1>1 DEF PointOK, Txn
<1>4. PICK row \in IssuedLease : row = SeenLeases(p)[l]
  BY <1>3, SeenTyped
<1> DEFINE new == [row EXCEPT !.state = "expired"]
           u == [t EXCEPT !.overdue = t.overdue \ {l}, !.cred = row.cred, !.at = "read"]
<1>5. new \in EndedLease
  BY DEF EndedLease, IssuedLease, EndStates
<1>6. u \in Txn
  BY DEF Txn, Points, IssuedLease, Nullable
<1>7. PointOK(u)
  BY <1>1 DEF PointOK, Txn, IssuedLease
<1> HIDE DEF new, u
<1>8. /\ OneRow(l, new) \in RowsOf(LeaseIds, EndedLease)
      /\ OneRow(l, new) \in RowsOf(LeaseIds, IssuedLease)
      /\ \A k \in DOMAIN OneRow(l, new) : OneRow(l, new)[k].state \in EndStates
  BY <1>3, <1>5, OneEndedRow
<1>9. Write(p, OneRow(l, new), NoRows, u)
  BY <1>2, <1>4 DEF new, u
<1>. QED
  BY <1>6, <1>7, <1>8, <1>9, NoRowsTyped, WriteStep

\* Its credential's row is read ...
LEMMA ReadRowStep ==
    ASSUME TxInv, NEW p \in Clients, ReadRow(p)
    PROVE  TxInv' /\ EndedStep
<1>1. PICK t \in Txn : t = tx[p] /\ PointOK(t)
  BY Known
<1>2. t.at = "read" /\ t.cred \in Credentials
  BY <1>1, PolicyAssumption DEF ReadRow, PointOK
<1>3. PICK row \in Credential : row = SeenCreds(p)[t.cred]
  BY <1>2, SeenTyped
<1> DEFINE u == [t EXCEPT !.rows = OneRow(t.cred, row), !.at = "write"]
<1>4. tx' = [tx EXCEPT ![p] = u] /\ UNCHANGED vars
  BY <1>1, <1>3 DEF ReadRow, TxInv
<1>5. /\ OneRow(t.cred, row) \in RowsOf(Credentials, Credential)
      /\ t.cred \in DOMAIN OneRow(t.cred, row)
  <2>1. t.cred \in DOMAIN OneRow(t.cred, row)
    BY DEF OneRow
  <2>. QED
    BY <1>2, <2>1, OneRowTyped
<1>6. u \in Txn
  BY <1>5 DEF Txn, Points
<1>7. PointOK(u)
  BY <1>1, <1>2, <1>5 DEF PointOK, Txn
<1> HIDE DEF u
<1>. QED
  BY <1>4, <1>6, <1>7, ReadStep

\* A row that was read is written back over what is there by now.
LEMMA RewrittenType ==
    ASSUME TypeOK, NEW row \in Credential, NEW read \in Credential, NEW held \in BOOLEAN
    PROVE  Rewritten(row, read, held) \in Credential
<1>1. PICK d \in Credential : d = Reconcile(read, held, now)
  BY ReconcileType DEF TypeOK
<1>2. Rewritten(row, read, held) =
        [row EXCEPT !.state = d.state, !.due = d.due,
                    !.confirmed = IF d.confirmed # read.confirmed THEN d.confirmed
                                  ELSE row.confirmed]
  BY <1>1 DEF Rewritten
<1>. QED
  BY <1>2 DEF Credential

\* ... and written as unheld.
LEMMA WriteRowStep ==
    ASSUME TxInv, NEW p \in Clients, WriteRow(p)
    PROVE  TxInv' /\ EndedStep
<1>1. PICK t \in Txn : t = tx[p] /\ PointOK(t)
  BY Known
<1>2. t.at = "write" /\ t.cred \in Credentials /\ t.cred \in DOMAIN t.rows
  BY <1>1 DEF WriteRow, PointOK
<1>3. PICK read \in Credential : read = t.rows[t.cred]
  <2>1. t.rows \in RowsOf(Credentials, Credential)
    BY DEF Txn
  <2>. QED
    BY <1>2, <2>1, RowsTyped
<1>4. PICK row \in Credential : row = SeenCreds(p)[t.cred]
  BY <1>2, SeenTyped
<1>5. PICK new \in Credential : new = Rewritten(row, read, FALSE)
  BY RewrittenType DEF TxInv
<1> DEFINE u == [t EXCEPT !.cred = None, !.rows = NoRows, !.at = AfterWrite(t)]
<1>6. u \in Txn
  <2>1. NoRows \in RowsOf(Credentials, Credential) /\ None \in Nullable(Credentials)
    BY NoRowsTyped DEF Nullable
  <2>2. AfterWrite(t) \in Points
    BY DEF AfterWrite, Points
  <2>. QED
    BY <2>1, <2>2 DEF Txn
<1>7. PointOK(u)
  BY <1>1 DEF PointOK, Txn, AfterWrite
<1>8. Write(p, NoRows, OneRow(t.cred, new), u)
  BY <1>1, <1>3, <1>4, <1>5 DEF WriteRow
<1>9. OneRow(t.cred, new) \in RowsOf(Credentials, Credential)
  BY <1>2, OneRowTyped
<1> HIDE DEF u
<1>10. DOMAIN NoRows = {}
  BY DEF NoRows
<1>. QED
  BY <1>6, <1>7, <1>8, <1>9, <1>10, NoRowsTyped, WriteStep

\* A renewal, a delivery, a reuse or a status read writes the lease's row.
LEMMA UpdateLeaseStep ==
    ASSUME TxInv, NEW p \in Clients, UpdateLease(p)
    PROVE  TxInv' /\ EndedStep
<1>1. PICK t \in Txn : t = tx[p] /\ PointOK(t)
  BY Known
<1>2. t.at = "update" /\ t.lease \in LeaseIds /\ Issued(t.lease)
  BY <1>1 DEF UpdateLease, PointOK
<1>3. PICK row \in IssuedLease :
         /\ row = SeenLeases(p)[t.lease]
         /\ lease[t.lease].state \in EndStates => row.state \in EndStates
  BY <1>2, SeenTyped
<1>4. PICK new \in IssuedLease : new = Refreshed(t.op, row, t.lease) /\ new.state = row.state
  <2>1. now \in Nat /\ now + DefaultTTL \in Nat
    BY BrokerAssumption DEF TxInv, TypeOK
  <2>2. \A expires \in Nat, first \in Nullable(Nat) :
          LET r == [row EXCEPT !.seen = now, !.expires = expires, !.first = first]
          IN  r \in IssuedLease /\ r.state = row.state
    BY <2>1 DEF IssuedLease
  <2>3. /\ (IF t.op = "renew" THEN now + DefaultTTL ELSE row.expires) \in Nat
        /\ (IF t.op = "materialize" /\ FirstDelivery(t.lease) = None THEN now
            ELSE row.first) \in Nullable(Nat)
    BY <2>1 DEF IssuedLease, Nullable
  <2>. QED
    BY <2>2, <2>3 DEF Refreshed
<1> DEFINE u == [t EXCEPT !.at = "idle"]
<1>5. u \in Txn /\ u.at = "idle"
  BY DEF Txn, Points
<1>6. PointOK(u)
  BY <1>1 DEF PointOK, Txn
<1>7. Write(p, OneRow(t.lease, new), NoRows, u)
  BY <1>1, <1>3, <1>4 DEF UpdateLease
<1>8. OneRow(t.lease, new) \in RowsOf(LeaseIds, IssuedLease)
  BY <1>2, OneRowTyped
<1>9. \A k \in DOMAIN OneRow(t.lease, new) :
         lease[k].state \in EndStates => OneRow(t.lease, new)[k].state \in EndStates
  BY <1>3, <1>4 DEF OneRow
<1> HIDE DEF u
<1>. QED
  BY <1>5, <1>6, <1>7, <1>8, <1>9, NoRowsTyped, WriteStep

\* release_broker_lease writes it.
LEMMA ReleaseRowStep ==
    ASSUME TxInv, NEW p \in Clients, ReleaseRow(p)
    PROVE  TxInv' /\ EndedStep
<1>1. PICK t \in Txn : t = tx[p] /\ PointOK(t)
  BY Known
<1>2. t.at = "release" /\ t.lease \in LeaseIds /\ Issued(t.lease)
  BY <1>1 DEF ReleaseRow, PointOK
<1>3. PICK row \in IssuedLease : row = SeenLeases(p)[t.lease]
  BY <1>2, SeenTyped
<1> DEFINE new == [row EXCEPT !.state = "released"]
           u == [t EXCEPT !.cred = row.cred, !.lease = None, !.at = "read"]
<1>4. new \in EndedLease
  BY DEF EndedLease, IssuedLease, EndStates
<1>5. u \in Txn
  BY DEF Txn, Points, IssuedLease, Nullable
<1>6. PointOK(u)
  BY <1>1, <1>2 DEF PointOK, Txn, IssuedLease
<1>7. Write(p, OneRow(t.lease, new), NoRows, u)
  BY <1>1, <1>3 DEF ReleaseRow
<1> HIDE DEF new, u
<1>8. /\ OneRow(t.lease, new) \in RowsOf(LeaseIds, EndedLease)
      /\ OneRow(t.lease, new) \in RowsOf(LeaseIds, IssuedLease)
      /\ \A k \in DOMAIN OneRow(t.lease, new) : OneRow(t.lease, new)[k].state \in EndStates
  BY <1>2, <1>4, OneEndedRow
<1>. QED
  BY <1>5, <1>6, <1>7, <1>8, NoRowsTyped, WriteStep

\* mark_broker_credential_exhausted writes the credential's row ...
LEMMA ExhaustRowStep ==
    ASSUME TxInv, NEW p \in Clients, ExhaustRow(p)
    PROVE  TxInv' /\ EndedStep
<1>1. PICK t \in Txn : t = tx[p] /\ PointOK(t)
  BY Known
<1>2. t.at = "exhaust" /\ t.cred \in Credentials
  BY <1>1 DEF ExhaustRow, PointOK
<1>3. PICK row \in Credential : row = SeenCreds(p)[t.cred]
  BY <1>2, SeenTyped
<1>4. PICK new \in Credential : new = Exhausted(row)
  <2>1. DueOrWeekly(row) \in Nullable(Nat) /\ "exhausted" \in CredentialState
    BY DEF DueOrWeekly, Credential, CredentialState
  <2>. QED
    BY <2>1 DEF Exhausted, Credential
<1> DEFINE u == [t EXCEPT !.at = "revoke"]
<1>5. u \in Txn
  BY DEF Txn, Points
<1>6. PointOK(u)
  BY <1>1, <1>2 DEF PointOK, Txn
<1>7. Write(p, NoRows, OneRow(t.cred, new), u)
  BY <1>1, <1>3, <1>4 DEF ExhaustRow
<1>8. OneRow(t.cred, new) \in RowsOf(Credentials, Credential)
  BY <1>2, OneRowTyped
<1> HIDE DEF u
<1>9. DOMAIN NoRows = {}
  BY DEF NoRows
<1>. QED
  BY <1>5, <1>6, <1>7, <1>8, <1>9, NoRowsTyped, WriteStep

\* ... and revokes the leases that it finds on it.
LEMMA RevokeRowsStep ==
    ASSUME TxInv, NEW p \in Clients, RevokeRows(p)
    PROVE  TxInv' /\ EndedStep
<1>1. PICK t \in Txn : t = tx[p] /\ PointOK(t)
  BY Known
<1>2. PICK seen \in [LeaseIds -> Lease] : seen = SeenLeases(p)
  BY SeenTyped
<1> DEFINE L == {l \in LeaseIds : ActiveIn(seen, l) /\ seen[l].cred = t.cred}
           ls == [l \in L |-> Revoked(seen, t.cred)[l]]
           u == [t EXCEPT !.at = "idle"]
<1>3. L = LeasesOn(p, t.cred)
  BY <1>2 DEF LeasesOn
<1>4. Write(p, ls, NoRows, u)
  BY <1>1, <1>2, <1>3 DEF RevokeRows
<1>5. u \in Txn /\ u.at = "idle"
  BY DEF Txn, Points
<1>6. PointOK(u)
  BY <1>1 DEF PointOK, Txn
<1>7. ASSUME NEW l \in L
      PROVE  ls[l] \in IssuedLease /\ ls[l].state \in EndStates
  <2>1. seen[l] \in IssuedLease
    BY ActiveIssued DEF ActiveIn, ActiveStates
  <2>2. ls[l] = [seen[l] EXCEPT !.state = "revoked"]
    BY DEF Revoked
  <2>. QED
    BY <2>1, <2>2 DEF IssuedLease, EndStates
<1> HIDE DEF u
<1>8. DOMAIN ls = L /\ L \subseteq LeaseIds /\ ls \in [L -> IssuedLease]
  BY <1>7
<1>9. ls \in RowsOf(LeaseIds, IssuedLease)
  BY <1>8 DEF RowsOf
<1> HIDE DEF ls
<1>. QED
  BY <1>4, <1>5, <1>6, <1>7, <1>8, <1>9, NoRowsTyped, WriteStep

\* The read of the machine's leases.
LEMMA SelectStep ==
    ASSUME TxInv, NEW p \in Clients, Select(p)
    PROVE  TxInv' /\ EndedStep
<1>1. PICK t \in Txn : t = tx[p] /\ PointOK(t)
  BY Known
<1>2. t.at = "select" /\ UNCHANGED vars /\ tx \in [Clients -> Txn]
  BY <1>1 DEF Select, TxInv
<1>3. ASSUME NEW l \in Reusable(SeenCreds(p), SeenLeases(p), t.owner[1]),
             tx' = [tx EXCEPT ![p].lease = l, ![p].at = "update"]
      PROVE  TxInv' /\ EndedStep
  <2> DEFINE u == [t EXCEPT !.lease = l, !.at = "update"]
  <2>1. tx' = [tx EXCEPT ![p] = u]
    BY <1>1, <1>2, <1>3
  <2>2. l \in LeaseIds /\ ActiveIn(SeenLeases(p), l)
    BY DEF Reusable
  <2>3. Issued(l)
    <3>1. tx[p].leases \in RowsOf(LeaseIds, EndedLease)
      BY <1>1 DEF Txn
    <3>2. CASE l \in DOMAIN tx[p].leases
      <4>1. SeenLeases(p)[l] = tx[p].leases[l] /\ tx[p].leases[l] \in EndedLease
        BY <2>2, <3>1, <3>2, RowsTyped DEF SeenLeases, Over
      <4>. QED
        BY <2>2, <4>1 DEF EndedLease, EndStates, ActiveIn, ActiveStates
    <3>3. CASE l \notin DOMAIN tx[p].leases
      <4>1. SeenLeases(p)[l] = lease[l]
        BY <2>2, <3>3 DEF SeenLeases, Over, TxInv, TypeOK
      <4>. QED
        BY <2>2, <4>1 DEF Issued, ActiveIn, ActiveStates
    <3>. QED
      BY <3>2, <3>3
  <2>4. u \in Txn
    BY <2>2 DEF Txn, Points, Nullable
  <2>5. PointOK(u)
    BY <1>1, <2>2, <2>3 DEF PointOK, Txn
  <2> HIDE DEF u
  <2>. QED
    BY <1>2, <2>1, <2>4, <2>5, ReadStep
<1>4. CASE tx' = [tx EXCEPT ![p].rest = Credentials, ![p].rows = SeenCreds(p), ![p].at = "scan"]
           /\ t.op = "acquire"
  <2>1. PICK seen : /\ seen = SeenCreds(p) /\ seen \in RowsOf(Credentials, Credential)
                    /\ DOMAIN seen = Credentials
    BY SeenTyped DEF RowsOf
  <2> DEFINE u == [t EXCEPT !.rest = Credentials, !.rows = seen, !.at = "scan"]
  <2>2. tx' = [tx EXCEPT ![p] = u]
    BY <1>1, <1>2, <1>4, <2>1
  <2>3. u \in Txn
    <3>1. "scan" \in Points
      BY DEF Points
    <3>. QED
      BY <2>1, <3>1 DEF Txn
  <2>4. PointOK(u)
    BY <1>1, <1>4, <2>1 DEF PointOK, Txn
  <2> HIDE DEF u
  <2>. QED
    BY <1>2, <2>2, <2>3, <2>4, ReadStep
<1>. QED
  BY <1>1, <1>2, <1>3, <1>4 DEF Select, PointOK

\* _credential_has_active_lease on the scan's next credential.
LEMMA CheckHeldStep ==
    ASSUME TxInv, NEW p \in Clients, CheckHeld(p)
    PROVE  TxInv' /\ EndedStep
<1>1. PICK t \in Txn : t = tx[p] /\ PointOK(t)
  BY Known
<1>2. PICK c \in NextRows(t.rest), held \in BOOLEAN :
         tx' = [tx EXCEPT ![p].cred = c, ![p].rest = t.rest \ {c},
                          ![p].held = held, ![p].at = "reconcile"]
  BY <1>1 DEF CheckHeld, ShownHeld, HeldIn, TxInv
<1>3. t.at = "scan" /\ UNCHANGED vars /\ tx \in [Clients -> Txn]
  BY <1>1 DEF CheckHeld, TxInv
<1>4. c \in Credentials
  BY DEF NextRows, Txn
<1> DEFINE u == [t EXCEPT !.cred = c, !.rest = t.rest \ {c}, !.held = held,
                          !.at = "reconcile"]
<1>5. tx' = [tx EXCEPT ![p] = u]
  BY <1>1, <1>2, <1>3
<1>6. u \in Txn
  BY <1>4 DEF Txn, Points, Nullable
<1>7. PointOK(u)
  BY <1>1, <1>3, <1>4 DEF PointOK, Txn
<1> HIDE DEF u
<1>. QED
  BY <1>3, <1>5, <1>6, <1>7, ReadStep

\* The scan writes back the row that it read before.
LEMMA ReconcileRowStep ==
    ASSUME TxInv, NEW p \in Clients, ReconcileRow(p)
    PROVE  TxInv' /\ EndedStep
<1>1. PICK t \in Txn : t = tx[p] /\ PointOK(t)
  BY Known
<1>2. t.at = "reconcile" /\ t.cred \in Credentials /\ DOMAIN t.rows = Credentials
  BY <1>1 DEF ReconcileRow, PointOK
<1>3. PICK read \in Credential : read = t.rows[t.cred]
  <2>1. t.rows \in RowsOf(Credentials, Credential)
    BY DEF Txn
  <2>. QED
    BY <1>2, <2>1, RowsTyped
<1>4. PICK row \in Credential : row = SeenCreds(p)[t.cred]
  BY <1>2, SeenTyped
<1>5. PICK new \in Credential : new = Rewritten(row, read, t.held)
  BY RewrittenType DEF TxInv, Txn
<1>6. PICK rows \in RowsOf(Credentials, Credential) :
         /\ rows = IF t.rest = {} THEN NoRows ELSE t.rows
         /\ t.rest # {} => DOMAIN rows = Credentials
  BY <1>2, NoRowsTyped DEF Txn
<1> DEFINE at == IF t.rest = {} THEN "choose" ELSE "scan"
           u == [t EXCEPT !.cred = None, !.held = FALSE, !.rows = rows, !.at = at]
<1>7. u \in Txn
  <2>1. at \in Points /\ None \in Nullable(Credentials)
    BY DEF Points, Nullable
  <2> HIDE DEF at
  <2>. QED
    BY <2>1 DEF Txn
<1>8. PointOK(u)
  BY <1>1, <1>2, <1>6 DEF PointOK, Txn
<1>9. Write(p, NoRows, OneRow(t.cred, new), u)
  BY <1>1, <1>3, <1>4, <1>5, <1>6 DEF ReconcileRow
<1>10. OneRow(t.cred, new) \in RowsOf(Credentials, Credential)
  BY <1>2, OneRowTyped
<1> HIDE DEF u
<1>11. DOMAIN NoRows = {}
  BY DEF NoRows
<1>. QED
  BY <1>7, <1>8, <1>9, <1>10, <1>11, NoRowsTyped, WriteStep

\* Nothing is granted.
LEMMA DeniedStep ==
    ASSUME TxInv, NEW p \in Clients, Denied(p)
    PROVE  TxInv' /\ EndedStep
<1>1. PICK t \in Txn : t = tx[p] /\ PointOK(t)
  BY Known
<1> DEFINE u == [t EXCEPT !.at = "idle"]
<1>2. u \in Txn /\ u.at = "idle"
  BY DEF Txn, Points
<1>3. PointOK(u)
  BY <1>1 DEF PointOK, Txn
<1>4. Write(p, NoRows, NoRows, u)
  BY <1>1 DEF Denied
<1> HIDE DEF u
<1>5. DOMAIN NoRows = {}
  BY DEF NoRows
<1>. QED
  BY <1>2, <1>3, <1>4, <1>5, NoRowsTyped, WriteStep

\* A credential and its lease are written as well-formed rows.
LEMMA LeasedType ==
    ASSUME NEW row \in Credential
    PROVE  [row EXCEPT !.state = "leased"] \in Credential
BY DEF Credential, CredentialState

LEMMA GrantAcquiredStep ==
    ASSUME TxInv, NEW p \in Clients, NEW ttl \in TTLs, NEW exclude \in SUBSET Credentials,
           GrantAcquired(p, ttl, exclude)
    PROVE  TxInv' /\ EndedStep
<1>1. PICK t \in Txn : t = tx[p] /\ PointOK(t)
  BY Known
<1> DEFINE m == t.owner[1]
           a == t.owner[2]
           candidates == AcquireCandidates(SeenCreds(p), m, a, exclude)
           u == [t EXCEPT !.at = "idle"]
<1>2. CASE Denied(p)
  BY <1>2, DeniedStep
<1>3. CASE \E c \in candidates, l \in FreeIds :
             Write(p, OneRow(l, NewLease(c, m, a, ttl)),
                   OneRow(c, [SeenCreds(p)[c] EXCEPT !.state = "leased"]), u)
  <2>1. PICK c \in candidates, l \in FreeIds :
             Write(p, OneRow(l, NewLease(c, m, a, ttl)),
                   OneRow(c, [SeenCreds(p)[c] EXCEPT !.state = "leased"]), u)
    BY <1>3
  <2>2. c \in Credentials
    BY DEF AcquireCandidates, Narrowed, Eligible, BelowRotationIn
  <2>3. l \in LeaseIds /\ lease[l].state = "none" /\ ttl \in Nat
    BY BrokerAssumption DEF FreeIds
  <2>4. t.owner \in Machines \X Agents
    BY <1>1 DEF GrantAcquired, PointOK
  <2>5. PICK row \in IssuedLease : row = NewLease(c, m, a, ttl)
    BY <2>2, <2>3, <2>4, NewLeaseType DEF TxInv
  <2>6. PICK new \in Credential : new = [SeenCreds(p)[c] EXCEPT !.state = "leased"]
    BY <2>2, SeenTyped, LeasedType
  <2>7. u \in Txn /\ u.at = "idle"
    BY DEF Txn, Points
  <2>8. PointOK(u)
    BY <1>1 DEF PointOK, Txn
  <2>9. Write(p, OneRow(l, row), OneRow(c, new), u)
    BY <2>1, <2>5, <2>6
  <2>10. /\ OneRow(l, row) \in RowsOf(LeaseIds, IssuedLease)
         /\ OneRow(c, new) \in RowsOf(Credentials, Credential)
    BY <2>2, <2>3, OneRowTyped
  <2>11. \A k \in DOMAIN OneRow(l, row) : lease[k].state \notin EndStates
    BY <2>3 DEF OneRow, EndStates
  <2> HIDE DEF u
  <2>. QED
    BY <2>7, <2>8, <2>9, <2>10, <2>11, WriteStep
<1>. QED
  BY <1>1, <1>2, <1>3 DEF GrantAcquired

LEMMA ChooseReplacementStep ==
    ASSUME TxInv, NEW p \in Clients, ChooseReplacement(p)
    PROVE  TxInv' /\ EndedStep
<1>1. PICK t \in Txn : t = tx[p] /\ PointOK(t)
  BY Known
<1>2. CASE Denied(p)
  BY <1>2, DeniedStep
<1>3. ASSUME NEW c \in RotateCandidates(SeenCreds(p), t.owner[1], t.owner[2],
                                        lease[t.lease].cred),
             tx' = [tx EXCEPT ![p].cred = c, ![p].at = "swap"], UNCHANGED vars
      PROVE  TxInv' /\ EndedStep
  <2> DEFINE u == [t EXCEPT !.cred = c, !.at = "swap"]
  <2>1. t.at = "choose" /\ t.op = "rotate" /\ tx \in [Clients -> Txn]
    BY <1>1 DEF ChooseReplacement, TxInv
  <2>2. tx' = [tx EXCEPT ![p] = u]
    BY <1>1, <1>3, <2>1
  <2>3. c \in Credentials
    BY DEF RotateCandidates, Narrowed, Eligible, BelowRotationIn
  <2>4. u \in Txn
    BY <2>3 DEF Txn, Points, Nullable
  <2>5. PointOK(u)
    BY <1>1, <2>1, <2>3 DEF PointOK, Txn
  <2> HIDE DEF u
  <2>. QED
    BY <1>3, <2>2, <2>4, <2>5, ReadStep
<1>. QED
  BY <1>1, <1>2, <1>3 DEF ChooseReplacement

LEMMA SwapStep ==
    ASSUME TxInv, NEW p \in Clients, Swap(p)
    PROVE  TxInv' /\ EndedStep
<1>1. PICK t \in Txn : t = tx[p] /\ PointOK(t)
  BY Known
<1>2. /\ t.at = "swap" /\ t.lease \in LeaseIds /\ Issued(t.lease)
      /\ t.cred \in Credentials /\ t.owner \in Machines \X Agents
  BY <1>1 DEF Swap, PointOK
<1>3. PICK row \in IssuedLease : row = SeenLeases(p)[t.lease]
  BY <1>2, SeenTyped
<1>4. PICK cs \in [Credentials -> Credential] : cs = SeenCreds(p)
  BY SeenTyped
<1>5. row.cred \in Credentials
  BY DEF IssuedLease
<1> DEFINE u == [t EXCEPT !.at = "idle"]
<1>6. PICK new \in FreeIds :
        Write(p,
              Over(OneRow(new, NewLease(t.cred, t.owner[1], t.owner[2], DefaultTTL)),
                   OneRow(t.lease, [row EXCEPT !.state = "released", !.replacement = new])),
              Over(OneRow(t.cred, [cs[t.cred] EXCEPT !.state = "leased"]),
                   OneRow(row.cred, Reconcile(cs[row.cred], FALSE, now))),
              u)
  BY <1>1, <1>3, <1>4 DEF Swap
<1>7. new \in LeaseIds /\ lease[new].state = "none"
  BY DEF FreeIds
<1>8. PICK fresh \in IssuedLease : fresh = NewLease(t.cred, t.owner[1], t.owner[2], DefaultTTL)
  BY <1>2, NewLeaseType, BrokerAssumption DEF TxInv
<1>9. PICK old \in IssuedLease :
         /\ old = [row EXCEPT !.state = "released", !.replacement = new]
         /\ old.state = "released"
  <2> DEFINE r == [row EXCEPT !.state = "released", !.replacement = new]
  <2>1. r \in IssuedLease /\ r.state = "released"
    BY <1>7 DEF IssuedLease, EndStates, Nullable
  <2> HIDE DEF r
  <2>2. \E old \in IssuedLease : old = r /\ old.state = "released"
    BY <2>1
  <2>. QED
    BY <2>2 DEF r
<1>10. PICK taken \in Credential : taken = [cs[t.cred] EXCEPT !.state = "leased"]
  BY <1>2, LeasedType
<1>11. PICK freed \in Credential : freed = Reconcile(cs[row.cred], FALSE, now)
  BY <1>5, ReconcileType DEF TxInv, TypeOK
<1> DEFINE ls == Over(OneRow(new, fresh), OneRow(t.lease, old))
           rs == Over(OneRow(t.cred, taken), OneRow(row.cred, freed))
<1>12. u \in Txn /\ u.at = "idle"
  BY DEF Txn, Points
<1>13. PointOK(u)
  BY <1>1 DEF PointOK, Txn
<1>14. Write(p, ls, rs, u)
  BY <1>6, <1>8, <1>9, <1>10, <1>11
<1>15. ls \in RowsOf(LeaseIds, IssuedLease)
  <2>1. /\ OneRow(new, fresh) \in RowsOf(LeaseIds, IssuedLease)
        /\ OneRow(t.lease, old) \in RowsOf(LeaseIds, IssuedLease)
    BY <1>2, <1>7, OneRowTyped
  <2>. QED
    BY <2>1, OverTyped
<1>16. rs \in RowsOf(Credentials, Credential)
  <2>1. /\ OneRow(t.cred, taken) \in RowsOf(Credentials, Credential)
        /\ OneRow(row.cred, freed) \in RowsOf(Credentials, Credential)
    BY <1>2, <1>5, OneRowTyped
  <2>. QED
    BY <2>1, OverTyped
<1>17. \A k \in DOMAIN ls : lease[k].state \in EndStates => ls[k].state \in EndStates
  BY <1>7, <1>9 DEF Over, OneRow, EndStates
<1> HIDE DEF u, ls, rs
<1>. QED
  BY <1>12, <1>13, <1>14, <1>15, <1>16, <1>17, WriteStep

\* A victim of a deadlock and a crash lose what was not committed.
LEMMA AbortStep ==
    ASSUME TxInv, NEW p \in Clients, DetectDeadlock(p) \/ Crash(p)
    PROVE  TxInv' /\ EndedStep
<1>1. tx' = [tx EXCEPT ![p] = Idle] /\ UNCHANGED vars
  BY DEF DetectDeadlock, Crash
<1>. QED
  BY <1>1, IdleTyped, ReadStep

\* Syncs and the clock write no lease.
LEMMA SyncRowNext ==
    ASSUME TxInv, NEW c \in Credentials, NEW reading \in Readings, SyncRow(c, reading)
    PROVE  Next /\ UNCHANGED <<lease, now>>
<1>1. now \in ReadingTimes
  BY BrokerAssumption DEF TxInv, TypeOK, ReadingTimes
<1>. QED
  BY <1>1 DEF SyncRow, Sync, Next, ManagerStep

LEMMA TablesStep ==
    ASSUME TxInv, Next, UNCHANGED <<lease, tx>>, now' <= MaxTime
    PROVE  TxInv' /\ EndedStep
<1>1. TypeOK'
  BY TypeStep DEF TxInv
<1>2. IssuedStay /\ EndedStep
  BY DEF IssuedStay, Issued, EndedStep
<1>3. ASSUME NEW p \in Clients PROVE PointOK(tx[p])'
  BY Known DEF PointOK, Issued
<1>. QED
  BY <1>1, <1>2, <1>3 DEF TxInv

LEMMA TxStep ==
    ASSUME TxInv, [TxNext]_txVars
    PROVE  TxInv' /\ EndedStep
<1>1. ASSUME NEW p \in Clients, Proceed(p)
      PROVE  TxInv' /\ EndedStep
  BY <1>1, ExpireRowStep, ReadRowStep, WriteRowStep, UpdateLeaseStep, ReleaseRowStep,
     ExhaustRowStep, RevokeRowsStep, SelectStep, CheckHeldStep, ReconcileRowStep,
     GrantAcquiredStep, ChooseReplacementStep, SwapStep DEF Proceed
<1>2. ASSUME NEW c \in Credentials, NEW reading \in Readings, SyncRow(c, reading)
      PROVE  TxInv' /\ EndedStep
  BY <1>2, SyncRowNext, TablesStep DEF SyncRow, TxInv
<1>3. CASE TxTick
  <2>1. Next /\ UNCHANGED <<lease, tx>> /\ now' <= MaxTime
    BY <1>3, BrokerAssumption DEF TxTick, Tick, Next, TxInv, TypeOK
  <2>. QED
    BY <2>1, TablesStep
<1>4. CASE UNCHANGED txVars
  <2>1. UNCHANGED <<cred, lease, now, tx>>
    BY <1>4 DEF txVars
  <2>. QED
    BY <2>1 DEF TxInv, TypeOK, PointOK, Issued, EndedStep
<1>. QED
  BY <1>1, <1>2, <1>3, <1>4, BeginStep, AbortStep DEF TxNext

LEMMA TxInit0 ==
    ASSUME TxInit
    PROVE  TxInv
<1>1. TypeOK /\ now <= MaxTime
  BY BrokerAssumption DEF TxInit, Init, TypeOK, NewCredential, NoLease, Credential,
     CredentialState, Lease, Nullable
<1>. QED
  BY <1>1, IdleTyped DEF TxInit, TxInv

\* Statement by statement, whoever overlaps with whom, crashes or is picked
\* as the victim of a deadlock, every row that is written, committed or not,
\* is well formed.
THEOREM TxTyped == TxSpec => []TxTypeOK
<1>1. TxInit => TxInv
  BY TxInit0
<1>2. TxInv /\ [TxNext]_txVars => TxInv'
  BY TxStep
<1>3. TxInv => TxTypeOK
  <2> SUFFICES ASSUME TxInv, NEW p \in Clients, NEW t \in Txn, t = tx[p]
               PROVE  /\ t.overdue \subseteq LeaseIds /\ t.rest \subseteq Credentials
                      /\ t.lease \in Nullable(LeaseIds) /\ t.cred \in Nullable(Credentials)
                      /\ DOMAIN t.leases \subseteq LeaseIds
                      /\ \A l \in DOMAIN t.leases : t.leases[l] \in Lease
                      /\ DOMAIN t.creds \subseteq Credentials
                      /\ \A c \in DOMAIN t.creds : t.creds[c] \in Credential
    BY Known DEF TxTypeOK, TxInv
  <2>1. /\ t.leases \in RowsOf(LeaseIds, EndedLease)
        /\ t.creds \in RowsOf(Credentials, Credential)
    BY DEF Txn
  <2>2. EndedLease \subseteq Lease
    BY DEF EndedLease, Lease
  <2>3. /\ DOMAIN t.leases \subseteq LeaseIds
        /\ \A l \in DOMAIN t.leases : t.leases[l] \in Lease
    BY <2>1, <2>2, RowsTyped
  <2>4. /\ DOMAIN t.creds \subseteq Credentials
        /\ \A c \in DOMAIN t.creds : t.creds[c] \in Credential
    BY <2>1, RowsTyped
  <2>. QED
    BY <2>3, <2>4 DEF Txn
<1>. QED
  BY <1>1, <1>2, <1>3, PTL DEF TxSpec

\* On either database, no statement gives an ended lease an active state
\* again, although rows are written that were read before others ended them.
THEOREM EndedForGood == TxSpec => EndedStaysEnded
<1>1. TxInit => TxInv
  BY TxInit0
<1>2. TxInv /\ [TxNext]_txVars => TxInv' /\ EndedStep
  BY TxStep
<1>. QED
  BY <1>1, <1>2, PTL DEF TxSpec, EndedStaysEnded

-----------------------------------------------------------------------------
(* Under the write lock                                                    *)

\* The tables that the scan of an acquire, or of a rotation, starts from.
ScanLeases(t) == IF t.op = "acquire" THEN LeasesExpired(OverdueLeases) ELSE lease
ScanCreds(t) == IF t.op = "acquire" THEN CredsExpired(OverdueLeases) ELSE cred

\* Some of the leases that were overdue are expired, with their credentials,
\* but for the credential of the last of them after its own row was written.
ExpiringOK(t, ls, cs) ==
    \E D \in SUBSET OverdueLeases :
        /\ t.overdue \subseteq OverdueLeases \ D
        /\ ls = LeasesExpired(D)
        /\ IF t.op = "acquire" THEN D \cup t.overdue = OverdueLeases
           ELSE \E l \in LeaseIds : D \cup t.overdue = {l}
        /\ IF t.at = "expire" THEN cs = CredsExpired(D)
           ELSE \E l \in D : lease[l].cred = t.cred /\ cs = CredsExpired(D \ {l})

ReleasingOK(t, ls, cs) ==
    /\ t.overdue = {} /\ cs = cred
    /\ \E l \in LeaseIds : /\ ActiveIn(lease, l) /\ lease[l].cred = t.cred
                           /\ ls = [lease EXCEPT ![l].state = "released"]

\* A renewal or a delivery has found what LeaseBroker's guards ask for.
UpdatingOK(t, ls, cs) ==
    \/ /\ t.op = "acquire"
       /\ ls = LeasesExpired(OverdueLeases) /\ cs = CredsExpired(OverdueLeases)
       /\ t.lease \in Reusable(cs, ls, t.owner[1])
    \/ /\ t.op \in {"renew", "materialize"}
       /\ ls = lease /\ cs = cred
       /\ ActiveIn(lease, t.lease) /\ ~Overdue(t.lease)
       /\ t.op = "renew" => lease[t.lease].state = "active"
       /\ UsableForExisting(cred[lease[t.lease].cred])

\* What an acquire or a rotation that scans the credentials relies on.
ScanningOK(t, ls) ==
    /\ ls = ScanLeases(t)
    /\ \/ /\ t.op = "acquire"
          /\ Reusable(ScanCreds(t), ls, t.owner[1]) = {}
       \/ /\ t.op = "rotate"
          /\ ActiveIn(lease, t.lease)
          /\ t.owner = <<lease[t.lease].machine, lease[t.lease].agent>>

\* The credentials that the scan has come to are reconciled.
ScannedOK(t, ls, cs) ==
    /\ t.rows = ScanCreds(t)
    /\ t.at = "reconcile" => t.cred \notin t.rest /\ t.held = HeldIn(ls, t.cred)
    /\ \A c \in Credentials :
          cs[c] = IF c \in t.rest \/ (t.at = "reconcile" /\ c = t.cred)
                  THEN ScanCreds(t)[c]
                  ELSE Reconcile(ScanCreds(t)[c], HeldIn(ls, c), now)

\* The leases ls and the credentials cs as an open transaction sees them are
\* those of a LeaseBroker step that has come as far as t.
Serial(t, ls, cs) ==
    /\ t.at = "expire" =>
          t.op \in {"acquire", "renew", "materialize"} /\ ExpiringOK(t, ls, cs)
    /\ t.at \in {"read", "write"} =>
          \/ t.op \in {"acquire", "renew", "materialize"} /\ ExpiringOK(t, ls, cs)
          \/ t.op = "release" /\ ReleasingOK(t, ls, cs)
    /\ t.at = "write" => t.rows[t.cred] = cs[t.cred]
    /\ t.at = "select" =>
          ls = LeasesExpired(OverdueLeases) /\ cs = CredsExpired(OverdueLeases)
    /\ t.at = "update" => UpdatingOK(t, ls, cs)
    /\ t.at = "release" =>
          /\ t.op = "release" /\ t.overdue = {}
          /\ ls = lease /\ cs = cred /\ ActiveIn(lease, t.lease)
    /\ t.at \in {"scan", "reconcile", "choose", "swap"} => ScanningOK(t, ls)
    /\ t.at \in {"scan", "reconcile"} => ScannedOK(t, ls, cs)
    /\ t.at \in {"choose", "swap"} => cs = AllReconciled(ScanCreds(t), ls)
    /\ t.at = "swap" =>
          t.cred \in RotateCandidates(cs, t.owner[1], t.owner[2], lease[t.lease].cred)
    /\ t.at = "exhaust" => t.op = "exhaust" /\ ls = lease /\ cs = cred
    /\ t.at = "revoke" =>
          /\ t.op = "exhaust" /\ ls = lease
          /\ cs = [cred EXCEPT ![t.cred] = Exhausted(cred[t.cred])]

OneOpen == \A p, q \in Clients : Open(p) /\ Open(q) => p = q

\* The points of the operations that open no transaction.
AutoPoints == {"expire", "read", "write", "update"}

CommittedAtOnce ==
    \A p \in Clients : tx[p].op \in Autocommit => tx[p].leases = NoRows /\ tx[p].at \in AutoPoints

SerialOK == \A p \in Clients : Open(p) => Serial(tx[p], SeenLeases(p), SeenCreds(p))

\* Whoever writes is alone, and has read nothing that is not so any more.
LockInv == NoDoubleLease /\ OneOpen /\ CommittedAtOnce /\ SerialOK

LEMMA OverNothing ==
    ASSUME NEW S, NEW T, NEW f \in [S -> T]
    PROVE  Over(NoRows, f) = f
BY DEF Over, NoRows

LEMMA OverOver ==
    ASSUME NEW S, NEW T, NEW f \in RowsOf(S, T), NEW g \in RowsOf(S, T), NEW h \in [S -> T]
    PROVE  Over(Over(f, g), h) = Over(f, Over(g, h))
<1>1. DOMAIN f \subseteq S /\ DOMAIN g \subseteq S
  BY RowsTyped
<1>2. /\ DOMAIN Over(f, g) = DOMAIN f \cup DOMAIN g
      /\ \A x \in DOMAIN f \cup DOMAIN g : Over(f, g)[x] = IF x \in DOMAIN f THEN f[x] ELSE g[x]
  BY DEF Over
<1>3. /\ DOMAIN Over(g, h) = S
      /\ \A x \in S : Over(g, h)[x] = IF x \in DOMAIN g THEN g[x] ELSE h[x]
  BY <1>1 DEF Over
<1>4. Over(Over(f, g), h) =
        [x \in S |-> IF x \in DOMAIN f \cup DOMAIN g THEN Over(f, g)[x] ELSE h[x]]
  BY <1>1, <1>2 DEF Over
<1>5. Over(f, Over(g, h)) = [x \in S |-> IF x \in DOMAIN f THEN f[x] ELSE Over(g, h)[x]]
  BY <1>1, <1>3 DEF Over
<1>. QED
  BY <1>2, <1>3, <1>4, <1>5

\* What p writes goes over what it has seen.
LEMMA WriteSeen ==
    ASSUME TxInv, NEW p \in Clients,
           NEW ls \in RowsOf(LeaseIds, Lease), NEW cs \in RowsOf(Credentials, Credential)
    PROVE  /\ Over(Over(ls, tx[p].leases), lease) = Over(ls, SeenLeases(p))
           /\ Over(Over(cs, tx[p].creds), cred) = Over(cs, SeenCreds(p))
<1>1. /\ lease \in [LeaseIds -> Lease] /\ cred \in [Credentials -> Credential]
      /\ tx[p].leases \in RowsOf(LeaseIds, EndedLease)
      /\ tx[p].creds \in RowsOf(Credentials, Credential)
  BY DEF TxInv, TypeOK, Txn
<1>2. EndedLease \subseteq Lease
  BY DEF EndedLease, Lease
<1>3. tx[p].leases \in RowsOf(LeaseIds, Lease)
  BY <1>1, <1>2, WiderRows
<1>. QED
  BY <1>1, <1>3, OverOver DEF SeenLeases, SeenCreds

\* Serial does not look at the rows that are not committed.
LEMMA SerialSame ==
    ASSUME NEW t, NEW u, NEW ls, NEW cs, Serial(t, ls, cs),
           u.op = t.op, u.at = t.at, u.owner = t.owner, u.lease = t.lease, u.cred = t.cred,
           u.held = t.held, u.overdue = t.overdue, u.rest = t.rest, u.rows = t.rows
    PROVE  Serial(u, ls, cs)
BY DEF Serial, ExpiringOK, ReleasingOK, UpdatingOK, ScanningOK, ScannedOK, ScanLeases, ScanCreds

\* It holds on as long as nothing is committed.
LEMMA SerialStays ==
    ASSUME NEW t, NEW ls, NEW cs, Serial(t, ls, cs), UNCHANGED vars
    PROVE  Serial(t, ls, cs)'
<1>1. lease' = lease /\ cred' = cred /\ now' = now
  BY DEF vars
<1>2. OverdueLeases' = OverdueLeases /\ \A l : Overdue(l)' = Overdue(l)
  BY <1>1 DEF OverdueLeases, Overdue, ActiveIn
<1>3. \A D : LeasesExpired(D)' = LeasesExpired(D) /\ CredsExpired(D)' = CredsExpired(D)
  BY <1>1 DEF LeasesExpired, CredsExpired
<1>4. ScanLeases(t)' = ScanLeases(t) /\ ScanCreds(t)' = ScanCreds(t)
  BY <1>1, <1>2, <1>3 DEF ScanLeases, ScanCreds
<1>5. ExpiringOK(t, ls, cs)' = ExpiringOK(t, ls, cs)
  BY <1>1, <1>2, <1>3 DEF ExpiringOK
<1>6. /\ ReleasingOK(t, ls, cs)' = ReleasingOK(t, ls, cs)
      /\ UpdatingOK(t, ls, cs)' = UpdatingOK(t, ls, cs)
  BY <1>1, <1>2, <1>3 DEF ReleasingOK, UpdatingOK, ActiveIn, Reusable
<1>7. /\ ScanningOK(t, ls)' = ScanningOK(t, ls)
      /\ ScannedOK(t, ls, cs)' = ScannedOK(t, ls, cs)
      /\ AllReconciled(ScanCreds(t), ls)' = AllReconciled(ScanCreds(t), ls)
  BY <1>1, <1>4 DEF ScanningOK, ScannedOK, ActiveIn, Reusable, AllReconciled
<1>. QED
  BY <1>1, <1>2, <1>3, <1>5, <1>6, <1>7 DEF Serial, ActiveIn

\* A step of the open transaction that commits nothing.
LEMMA OpenStep ==
    ASSUME TxInv, LockInv, NEW p \in Clients, Open(p),
           NEW u, tx' = [tx EXCEPT ![p] = u], UNCHANGED vars,
           u.op = tx[p].op, Serial(u, Over(u.leases, lease), Over(u.creds, cred))
    PROVE  LockInv'
<1>1. tx \in [Clients -> Txn] /\ UNCHANGED <<lease, cred, now>>
  BY DEF TxInv, vars
<1>2. \A q \in Clients \ {p} : tx'[q] = tx[q] /\ ~Open(q)
  BY <1>1 DEF LockInv, OneOpen
<1>3. NoDoubleLease'
  BY <1>1 DEF LockInv, NoDoubleLease, ActiveIn
<1>4. OneOpen'
  BY <1>2 DEF OneOpen, Open
<1>5. CommittedAtOnce'
  BY <1>1, <1>2 DEF CommittedAtOnce, LockInv, Open
<1>6. Serial(u, Over(u.leases, lease), Over(u.creds, cred))'
  <2>1. PICK ls, cs : ls = Over(u.leases, lease) /\ cs = Over(u.creds, cred)
    OBVIOUS
  <2>2. Serial(u, ls, cs)'
    BY <2>1, SerialStays
  <2>. QED
    BY <1>1, <2>1, <2>2
<1>7. SerialOK'
  BY <1>1, <1>2, <1>6 DEF SerialOK, Open, SeenLeases, SeenCreds
<1>. QED
  BY <1>3, <1>4, <1>5, <1>7 DEF LockInv

\* A statement of the open transaction, before its last.
LEMMA KeepStep ==
    ASSUME TxInv, LockInv, NEW p \in Clients, Open(p),
           NEW ls \in RowsOf(LeaseIds, Lease), NEW cs \in RowsOf(Credentials, Credential),
           NEW t \in Txn, t.at # "idle", t.op = tx[p].op,
           t.leases = tx[p].leases, t.creds = tx[p].creds,
           Write(p, ls, cs, t), Serial(t, Over(ls, SeenLeases(p)), Over(cs, SeenCreds(p)))
    PROVE  LockInv' /\ UNCHANGED vars
<1> DEFINE u == [t EXCEPT !.leases = Over(ls, t.leases), !.creds = Over(cs, t.creds)]
<1>1. tx' = [tx EXCEPT ![p] = u] /\ UNCHANGED vars
  BY DEF Write, Open, vars
<1>2. /\ u.leases = Over(ls, tx[p].leases) /\ u.creds = Over(cs, tx[p].creds)
      /\ u.op = t.op /\ u.at = t.at /\ u.owner = t.owner /\ u.lease = t.lease
      /\ u.cred = t.cred /\ u.held = t.held /\ u.overdue = t.overdue
      /\ u.rest = t.rest /\ u.rows = t.rows
  BY DEF Txn
<1>3. PICK seenLeases, seenCreds :
         seenLeases = Over(ls, SeenLeases(p)) /\ seenCreds = Over(cs, SeenCreds(p))
  OBVIOUS
<1>4. Over(u.leases, lease) = seenLeases /\ Over(u.creds, cred) = seenCreds
  BY <1>2, <1>3, WriteSeen
<1> HIDE DEF u
<1>5. PICK v : v = u
  OBVIOUS
<1>6. Serial(v, seenLeases, seenCreds)
  BY <1>2, <1>3, <1>5, SerialSame
<1>. QED
  BY <1>1, <1>2, <1>4, <1>5, <1>6, OpenStep

\* The end of it.
LEMMA EndStep ==
    ASSUME TxInv, LockInv, NEW p \in Clients, Open(p), tx' = [tx EXCEPT ![p] = Idle], [Next]_vars
    PROVE  LockInv'
<1>1. NoDoubleLease'
  BY ExclusionStep DEF TxInv, LockInv
<1>2. /\ \A q \in Clients : ~Open(q)'
      /\ \A q \in Clients : tx'[q] = tx[q] \/ tx'[q] = Idle
  BY DEF TxInv, LockInv, OneOpen, Open, Idle
<1>3. Idle.op \notin Autocommit
  BY DEF Idle, Autocommit
<1>. QED
  BY <1>1, <1>2, <1>3 DEF LockInv, OneOpen, CommittedAtOnce, SerialOK

\* Its last statement commits what it has seen and what it writes.
LEMMA CommitRows ==
    ASSUME TxInv, NEW p \in Clients,
           NEW ls \in RowsOf(LeaseIds, Lease), NEW cs \in RowsOf(Credentials, Credential),
           NEW t \in Txn, t.at = "idle", t.leases = tx[p].leases, t.creds = tx[p].creds,
           Write(p, ls, cs, t)
    PROVE  /\ lease' = Over(ls, SeenLeases(p)) /\ cred' = Over(cs, SeenCreds(p))
           /\ now' = now /\ tx' = [tx EXCEPT ![p] = Idle]
BY WriteSeen DEF Write

\* What holds of the transaction that p has open.
LEMMA OpenKnown ==
    ASSUME TxInv, LockInv, NEW p \in Clients, Open(p)
    PROVE  \E t \in Txn, ls \in [LeaseIds -> Lease], cs \in [Credentials -> Credential] :
              /\ t = tx[p] /\ ls = SeenLeases(p) /\ cs = SeenCreds(p)
              /\ PointOK(t) /\ Serial(t, ls, cs)
              /\ t.at # "idle" /\ t.op \notin Autocommit
<1>1. Serial(tx[p], SeenLeases(p), SeenCreds(p))
  BY DEF LockInv, SerialOK
<1>2. PICK t \in Txn : t = tx[p] /\ PointOK(t)
  BY Known
<1>3. PICK ls \in [LeaseIds -> Lease] : ls = SeenLeases(p)
  BY SeenTyped
<1>4. PICK cs \in [Credentials -> Credential] : cs = SeenCreds(p)
  BY SeenTyped
<1>5. t.at # "idle" /\ t.op \notin Autocommit
  BY <1>2 DEF Open
<1>. QED
  BY <1>1, <1>2, <1>3, <1>4, <1>5

\* A statement that reads.
LEMMA ReadOn ==
    ASSUME TxInv, LockInv, NEW p \in Clients, Open(p),
           NEW t \in Txn, t = tx[p],
           NEW ls, ls = SeenLeases(p), NEW cs, cs = SeenCreds(p),
           NEW u \in Txn, u.op = t.op, u.leases = t.leases, u.creds = t.creds,
           tx' = [tx EXCEPT ![p] = u], UNCHANGED vars, Serial(u, ls, cs)
    PROVE  LockInv' /\ [Next]_vars
<1>1. Over(u.leases, lease) = ls /\ Over(u.creds, cred) = cs
  BY DEF SeenLeases, SeenCreds
<1>2. LockInv'
  BY <1>1, OpenStep
<1>. QED
  BY <1>2

\* A statement that writes, before the last.
LEMMA WriteOn ==
    ASSUME TxInv, LockInv, NEW p \in Clients, Open(p),
           NEW t \in Txn, t = tx[p],
           NEW ls, ls = SeenLeases(p), NEW cs, cs = SeenCreds(p),
           NEW lrows \in RowsOf(LeaseIds, Lease), NEW crows \in RowsOf(Credentials, Credential),
           NEW u \in Txn, u.at # "idle", u.op = t.op,
           u.leases = t.leases, u.creds = t.creds,
           Write(p, lrows, crows, u),
           NEW ls2, ls2 = Over(lrows, ls), NEW cs2, cs2 = Over(crows, cs), Serial(u, ls2, cs2)
    PROVE  LockInv' /\ [Next]_vars
<1>1. /\ u.op = tx[p].op /\ u.leases = tx[p].leases /\ u.creds = tx[p].creds
      /\ Serial(u, Over(lrows, SeenLeases(p)), Over(crows, SeenCreds(p)))
  OBVIOUS
<1>2. LockInv' /\ UNCHANGED vars
  BY <1>1, KeepStep
<1>. QED
  BY <1>2

\* The last statement: what it commits is to be shown a step of LeaseBroker.
LEMMA CommitOn ==
    ASSUME TxInv, NEW p \in Clients,
           NEW t \in Txn, t = tx[p],
           NEW ls, ls = SeenLeases(p), NEW cs, cs = SeenCreds(p),
           NEW lrows \in RowsOf(LeaseIds, Lease), NEW crows \in RowsOf(Credentials, Credential),
           NEW u \in Txn, u.at = "idle", u.leases = t.leases, u.creds = t.creds,
           Write(p, lrows, crows, u)
    PROVE  /\ lease' = Over(lrows, ls) /\ cred' = Over(crows, cs)
           /\ now' = now /\ tx' = [tx EXCEPT ![p] = Idle]
<1>1. u.leases = tx[p].leases /\ u.creds = tx[p].creds
  OBVIOUS
<1>. QED
  BY <1>1, CommitRows

LEMMA CommitNext ==
    ASSUME TxInv, LockInv, NEW p \in Clients, Open(p), tx' = [tx EXCEPT ![p] = Idle], Next
    PROVE  LockInv' /\ [Next]_vars
BY EndStep

-----------------------------------------------------------------------------
(* The statements of an open transaction                                   *)

LEMMA ExpireOne ==
    ASSUME TypeOK, NEW D \in SUBSET LeaseIds, NEW l \in LeaseIds \ D
    PROVE  /\ LeasesExpired(D)[l] = lease[l]
           /\ [LeasesExpired(D) EXCEPT ![l] = [lease[l] EXCEPT !.state = "expired"]]
                = LeasesExpired(D \cup {l})
BY DEF TypeOK, LeasesExpired

LEMMA ExpireRowSerial ==
    ASSUME TxInv, LockInv, NEW p \in Clients, Open(p), ExpireRow(p)
    PROVE  LockInv' /\ [Next]_vars
<1>1. PICK t \in Txn, ls \in [LeaseIds -> Lease], cs \in [Credentials -> Credential] :
         /\ t = tx[p] /\ ls = SeenLeases(p) /\ cs = SeenCreds(p)
         /\ PointOK(t) /\ Serial(t, ls, cs)
         /\ t.at # "idle" /\ t.op \notin Autocommit
  BY OpenKnown
<1>4. /\ t.at = "expire" /\ t.op \in {"acquire", "renew", "materialize"}
      /\ ExpiringOK(t, ls, cs)
  BY <1>1 DEF ExpireRow, Serial
<1>5. PICK D \in SUBSET OverdueLeases :
        /\ t.overdue \subseteq OverdueLeases \ D
        /\ ls = LeasesExpired(D) /\ cs = CredsExpired(D)
        /\ IF t.op = "acquire" THEN D \cup t.overdue = OverdueLeases
           ELSE \E l \in LeaseIds : D \cup t.overdue = {l}
  BY <1>4 DEF ExpiringOK
<1>6. PICK l \in t.overdue :
         Write(p, OneRow(l, [ls[l] EXCEPT !.state = "expired"]), NoRows,
               [t EXCEPT !.overdue = t.overdue \ {l}, !.cred = ls[l].cred, !.at = "read"])
  BY <1>1 DEF ExpireRow
<1>7. /\ l \in OverdueLeases \ D /\ l \in LeaseIds \ D /\ D \in SUBSET LeaseIds
      /\ ActiveIn(lease, l)
  BY <1>5 DEF OverdueLeases, Overdue
<1>8. PICK row \in IssuedLease : row = lease[l] /\ ls[l] = row
  BY <1>5, <1>7, ExpireOne, ActiveIssued DEF TxInv, TypeOK, ActiveIn, ActiveStates
<1> DEFINE new == [row EXCEPT !.state = "expired"]
           u == [t EXCEPT !.overdue = t.overdue \ {l}, !.cred = row.cred, !.at = "read"]
<1>9. /\ u \in Txn /\ u.at = "read" /\ u.op = t.op /\ u.cred = lease[l].cred
      /\ u.overdue = t.overdue \ {l} /\ u.leases = t.leases /\ u.creds = t.creds
  BY <1>8 DEF Txn, Points, IssuedLease, Nullable
<1>10. new \in Lease
  BY DEF IssuedLease, Lease, EndStates
<1>11. Write(p, OneRow(l, new), NoRows, u)
  BY <1>6, <1>8
<1> DEFINE E == D \cup {l}
<1>12. [ls EXCEPT ![l] = new] = LeasesExpired(E)
  BY <1>5, <1>7, <1>8, ExpireOne DEF TxInv
<1>13. /\ E \in SUBSET OverdueLeases /\ u.overdue \subseteq OverdueLeases \ E
       /\ E \cup u.overdue = D \cup t.overdue /\ l \in E /\ E \ {l} = D
  BY <1>5, <1>7, <1>9
<1> HIDE DEF new, u, E
<1>14. LeasesExpired(E) = Over(OneRow(l, new), ls)
  BY <1>7, <1>12 DEF Over, OneRow
<1>15. cs = Over(NoRows, cs)
  BY OverNothing
<1>16. ExpiringOK(u, LeasesExpired(E), cs)
  <2>2. IF u.op = "acquire" THEN E \cup u.overdue = OverdueLeases
        ELSE \E k \in LeaseIds : E \cup u.overdue = {k}
    BY <1>5, <1>9, <1>13
  <2>3. \E k \in E : lease[k].cred = u.cred /\ cs = CredsExpired(E \ {k})
    BY <1>5, <1>9, <1>13
  <2>. QED
    BY <1>9, <1>13, <2>2, <2>3 DEF ExpiringOK
<1>17. Serial(u, LeasesExpired(E), cs)
  BY <1>4, <1>9, <1>16 DEF Serial
<1>18. /\ OneRow(l, new) \in RowsOf(LeaseIds, Lease)
       /\ NoRows \in RowsOf(Credentials, Credential)
  BY <1>7, <1>10, OneRowTyped, NoRowsTyped
<1>. QED
  BY <1>1, <1>9, <1>11, <1>14, <1>15, <1>17, <1>18, WriteOn

LEMMA ReadRowSerial ==
    ASSUME TxInv, LockInv, NEW p \in Clients, Open(p), ReadRow(p)
    PROVE  LockInv' /\ [Next]_vars
<1>1. PICK t \in Txn, ls \in [LeaseIds -> Lease], cs \in [Credentials -> Credential] :
         /\ t = tx[p] /\ ls = SeenLeases(p) /\ cs = SeenCreds(p)
         /\ PointOK(t) /\ Serial(t, ls, cs)
         /\ t.at # "idle" /\ t.op \notin Autocommit
  BY OpenKnown
<1>4. t.at = "read" /\ t.cred \in Credentials
  BY <1>1 DEF ReadRow, PointOK
<1> DEFINE rows == OneRow(t.cred, cs[t.cred])
           u == [t EXCEPT !.rows = rows, !.at = "write"]
<1>5. tx' = [tx EXCEPT ![p] = u] /\ UNCHANGED vars
  BY <1>1 DEF ReadRow, TxInv
<1>7. rows[t.cred] = cs[t.cred] /\ rows \in RowsOf(Credentials, Credential)
  <2>1. cs[t.cred] \in Credential
    BY <1>4
  <2>. QED
    BY <1>4, <2>1, OneRowTyped DEF OneRow
<1> HIDE DEF rows
<1>6. /\ u \in Txn
      /\ u.op = t.op /\ u.at = "write" /\ u.overdue = t.overdue /\ u.cred = t.cred
      /\ u.rows = rows /\ u.leases = t.leases /\ u.creds = t.creds
  BY <1>7 DEF Txn, Points
<1> HIDE DEF u
<1>9. Serial(u, ls, cs)
  BY <1>1, <1>4, <1>6, <1>7 DEF Serial, ExpiringOK, ReleasingOK
<1>. QED
  BY <1>1, <1>5, <1>6, <1>9, ReadOn

\* Written as it was read, a credential is as LeaseBroker has it.
LEMMA RewrittenSame ==
    ASSUME NEW c \in Credential, NEW held \in BOOLEAN, now \in Nat
    PROVE  Rewritten(c, c, held) = Reconcile(c, held, now)
<1>1. PICK d \in Credential : d = Reconcile(c, held, now) /\ SameReadings(c, d)
  BY ReconcileType, ReconcileReads
<1>2. Rewritten(c, c, held) =
        [c EXCEPT !.state = d.state, !.due = d.due,
                  !.confirmed = IF d.confirmed # c.confirmed THEN d.confirmed ELSE c.confirmed]
  BY <1>1 DEF Rewritten
<1>3. [c EXCEPT !.state = d.state, !.due = d.due, !.confirmed = d.confirmed] = d
  <2>1. PICK e : e = [c EXCEPT !.state = d.state, !.due = d.due, !.confirmed = d.confirmed]
    OBVIOUS
  <2>2. e \in Credential /\ e.state = d.state /\ e.due = d.due /\ e.confirmed = d.confirmed
    BY <2>1 DEF Credential
  <2>3. SameReadings(e, d)
    BY <1>1, <2>1 DEF Credential, SameReadings
  <2>4. e = d
    BY <2>2, <2>3 DEF Credential, SameReadings
  <2>. QED
    BY <2>1, <2>4
<1>. QED
  BY <1>1, <1>2, <1>3

LEMMA WriteRowSerial ==
    ASSUME TxInv, LockInv, NEW p \in Clients, Open(p), WriteRow(p)
    PROVE  LockInv' /\ [Next]_vars
<1>1. PICK t \in Txn, ls \in [LeaseIds -> Lease], cs \in [Credentials -> Credential] :
         /\ t = tx[p] /\ ls = SeenLeases(p) /\ cs = SeenCreds(p)
         /\ PointOK(t) /\ Serial(t, ls, cs)
         /\ t.at # "idle" /\ t.op \notin Autocommit
  BY OpenKnown
<1>0. t.at = "write" /\ t.cred \in Credentials
  BY <1>1 DEF WriteRow, PointOK
<1>c. PICK c \in Credentials : c = t.cred
  BY <1>0
<1>2. /\ t.at = "write" /\ t.rows[c] = cs[c]
      /\ \/ t.op \in {"acquire", "renew", "materialize"} /\ ExpiringOK(t, ls, cs)
         \/ t.op = "release" /\ ReleasingOK(t, ls, cs)
  BY <1>0, <1>1, <1>c DEF Serial
<1>3. PICK row \in Credential : row = cs[c]
  BY <1>2
<1>4. PICK new \in Credential : new = Reconcile(row, FALSE, now)
  BY ReconcileType DEF TxInv, TypeOK
<1> DEFINE u == [t EXCEPT !.cred = None, !.rows = NoRows, !.at = AfterWrite(t)]
<1>5. NoRows \in RowsOf(Credentials, Credential) /\ NoRows \in RowsOf(LeaseIds, Lease)
  BY NoRowsTyped
<1>6. /\ u \in Txn /\ u.at = AfterWrite(t)
      /\ u.op = t.op /\ u.overdue = t.overdue
      /\ u.leases = t.leases /\ u.creds = t.creds
  <2>1. AfterWrite(t) \in Points /\ None \in Nullable(Credentials)
    BY DEF AfterWrite, Points, Nullable
  <2>2. PICK at \in Points : at = AfterWrite(t)
    BY <2>1
  <2>. QED
    BY <1>5, <2>1, <2>2 DEF Txn
<1>7. Write(p, NoRows, OneRow(c, new), u)
  <2>1. Rewritten(cs[c], t.rows[c], FALSE) = new
    BY <1>2, <1>3, <1>4, RewrittenSame DEF TxInv, TypeOK
  <2>. QED
    BY <1>1, <1>c, <2>1 DEF WriteRow
<1>8. OneRow(c, new) \in RowsOf(Credentials, Credential)
  BY <1>2, OneRowTyped
<1> DEFINE cs2 == [cs EXCEPT ![c] = new]
<1>9. cs2 = Over(OneRow(c, new), cs) /\ ls = Over(NoRows, ls)
  <2>1. cs2 = Over(OneRow(c, new), cs)
    BY <1>2 DEF Over, OneRow
  <2>2. ls = Over(NoRows, ls)
    BY OverNothing
  <2>. QED
    BY <2>1, <2>2
<1> HIDE DEF u, cs2
<1>10. CASE t.op \in {"acquire", "renew", "materialize"} /\ ExpiringOK(t, ls, cs)
  <2>1. PICK D \in SUBSET OverdueLeases :
          /\ t.overdue \subseteq OverdueLeases \ D
          /\ ls = LeasesExpired(D)
          /\ IF t.op = "acquire" THEN D \cup t.overdue = OverdueLeases
             ELSE \E l \in LeaseIds : D \cup t.overdue = {l}
          /\ \E l \in D : lease[l].cred = c /\ cs = CredsExpired(D \ {l})
    BY <1>2, <1>10, <1>c DEF ExpiringOK
  <2>2. PICK l \in D : lease[l].cred = c /\ cs = CredsExpired(D \ {l})
    BY <2>1
  <2>3. row = cred[c] /\ cs2 = CredsExpired(D)
    <3>1. \A k \in D \ {l} : lease[k].cred # c
      BY <2>2 DEF LockInv, NoDoubleLease, OverdueLeases, Overdue
    <3>2. row = cred[c]
      BY <1>3, <2>2, <3>1 DEF CredsExpired
    <3>3. \A d \in Credentials : d # c =>
             ((\E k \in D : lease[k].cred = d) <=> (\E k \in D \ {l} : lease[k].cred = d))
      BY <2>2
    <3>4. cs2 = CredsExpired(D)
      BY <1>4, <2>2, <3>2, <3>3 DEF CredsExpired, cs2
    <3>. QED
      BY <3>2, <3>4
  <2>4. CASE t.overdue # {}
    <3>1. u.at = "expire"
      BY <1>6, <2>4 DEF AfterWrite
    <3>2. ExpiringOK(u, ls, cs2)
      BY <1>6, <2>1, <2>3, <3>1 DEF ExpiringOK
    <3>3. Serial(u, ls, cs2)
      BY <1>6, <1>10, <3>1, <3>2 DEF Serial
    <3>. QED
      BY <1>1, <1>5, <1>6, <1>7, <1>8, <1>9, <3>1, <3>3, WriteOn
  <2>5. CASE t.overdue = {} /\ t.op = "acquire"
    <3>1. u.at = "select"
      BY <1>6, <2>5 DEF AfterWrite
    <3>2. D = OverdueLeases
      BY <2>1, <2>5
    <3>3. Serial(u, ls, cs2)
      BY <2>1, <2>3, <3>1, <3>2 DEF Serial
    <3>. QED
      BY <1>1, <1>5, <1>6, <1>7, <1>8, <1>9, <3>1, <3>3, WriteOn
  <2>6. CASE t.overdue = {} /\ t.op # "acquire"
    <3>1. u.at = "idle"
      BY <1>6, <2>6 DEF AfterWrite
    <3>2. /\ lease' = ls /\ cred' = cs2 /\ now' = now /\ tx' = [tx EXCEPT ![p] = Idle]
      BY <1>1, <1>5, <1>6, <1>7, <1>8, <1>9, <3>1, CommitOn
    <3>3. D = {l} /\ l \in LeaseIds /\ Overdue(l)
      BY <2>1, <2>2, <2>6 DEF OverdueLeases
    <3>4. ExpireOnAccess(l)
      BY <2>1, <2>3, <3>2, <3>3 DEF ExpireOnAccess, Expire
    <3>5. Next
      BY <3>3, <3>4 DEF Next, ClientStep, Renew
    <3>. QED
      BY <3>2, <3>5, CommitNext
  <2>. QED
    BY <2>4, <2>5, <2>6
<1>11. CASE t.op = "release" /\ ReleasingOK(t, ls, cs)
  <2>1. PICK l \in LeaseIds : /\ ActiveIn(lease, l) /\ lease[l].cred = c
                             /\ ls = [lease EXCEPT ![l].state = "released"]
    BY <1>11, <1>c DEF ReleasingOK
  <2>2. t.overdue = {} /\ cs = cred
    BY <1>11 DEF ReleasingOK
  <2>3. u.at = "idle"
    BY <1>6, <1>11, <2>2 DEF AfterWrite
  <2>4. /\ lease' = ls /\ cred' = cs2 /\ now' = now /\ tx' = [tx EXCEPT ![p] = Idle]
    BY <1>1, <1>5, <1>6, <1>7, <1>8, <1>9, <2>3, CommitOn
  <2>5. Release(l)
    BY <1>3, <1>4, <2>1, <2>2, <2>4 DEF Release, cs2
  <2>6. Next
    BY <2>5 DEF Next, ClientStep
  <2>. QED
    BY <2>4, <2>6, CommitNext
<1>. QED
  BY <1>2, <1>10, <1>11

LEMMA UpdateLeaseSerial ==
    ASSUME TxInv, LockInv, NEW p \in Clients, Open(p), UpdateLease(p)
    PROVE  LockInv' /\ [Next]_vars
<1>1. PICK t \in Txn, ls \in [LeaseIds -> Lease], cs \in [Credentials -> Credential] :
         /\ t = tx[p] /\ ls = SeenLeases(p) /\ cs = SeenCreds(p)
         /\ PointOK(t) /\ Serial(t, ls, cs)
         /\ t.at # "idle" /\ t.op \notin Autocommit
  BY OpenKnown
<1>2. t.at = "update" /\ t.lease \in LeaseIds /\ UpdatingOK(t, ls, cs)
  BY <1>1 DEF UpdateLease, PointOK, Serial
<1>3. PICK l \in LeaseIds : l = t.lease
  BY <1>2
<1>4. ActiveIn(ls, l)
  BY <1>2, <1>3 DEF UpdatingOK, Reusable
<1>5. PICK row \in IssuedLease : row = ls[l]
  BY <1>4, ActiveIssued DEF ActiveIn, ActiveStates
<1> DEFINE new == Refreshed(t.op, row, l)
           u == [t EXCEPT !.at = "idle"]
<1>6. now \in Nat /\ now + DefaultTTL \in Nat
  BY BrokerAssumption DEF TxInv, TypeOK
<1>7. new \in Lease
  <2>1. \A expires \in Nat, first \in Nullable(Nat) :
          [row EXCEPT !.seen = now, !.expires = expires, !.first = first] \in IssuedLease
    BY <1>6 DEF IssuedLease
  <2>2. /\ (IF t.op = "renew" THEN now + DefaultTTL ELSE row.expires) \in Nat
        /\ (IF t.op = "materialize" /\ FirstDelivery(l) = None THEN now
            ELSE row.first) \in Nullable(Nat)
    BY <1>6 DEF IssuedLease, Nullable
  <2>. QED
    BY <2>1, <2>2 DEF Refreshed, Lease
<1>8. u \in Txn /\ u.at = "idle" /\ u.leases = t.leases /\ u.creds = t.creds
  BY DEF Txn, Points
<1> HIDE DEF new, u
<1>9. Write(p, OneRow(l, new), NoRows, u)
  BY <1>1, <1>3, <1>5 DEF UpdateLease, new, u
<1>10. /\ OneRow(l, new) \in RowsOf(LeaseIds, Lease)
       /\ NoRows \in RowsOf(Credentials, Credential)
  BY <1>7, OneRowTyped, NoRowsTyped
<1>11. /\ lease' = Over(OneRow(l, new), ls) /\ cred' = Over(NoRows, cs)
       /\ now' = now /\ tx' = [tx EXCEPT ![p] = Idle]
  BY <1>1, <1>8, <1>9, <1>10, CommitOn
<1>12. lease' = [ls EXCEPT ![l] = new] /\ cred' = cs
  <2>1. Over(OneRow(l, new), ls) = [ls EXCEPT ![l] = new]
    BY DEF Over, OneRow
  <2>. QED
    BY <1>11, <2>1, OverNothing
<1>13. CASE t.op = "acquire"
  <2>1. /\ ls = LeasesExpired(OverdueLeases) /\ cs = CredsExpired(OverdueLeases)
        /\ l \in Reusable(cs, ls, t.owner[1]) /\ t.owner \in Machines \X Agents
    BY <1>1, <1>2, <1>3, <1>13 DEF UpdatingOK, PointOK
  <2>2. PICK m \in Machines : m = t.owner[1]
    BY <2>1
  <2>3. new = [row EXCEPT !.seen = now]
    BY <1>13 DEF new, Refreshed, IssuedLease
  <2>4. lease' = [ls EXCEPT ![l].seen = now]
    BY <1>5, <1>12, <2>3
  <2>5. AcquireReuse(m)
    BY <1>11, <1>12, <2>1, <2>2, <2>4 DEF AcquireReuse
  <2>. QED
    BY <1>11, <2>5, CommitNext DEF Next, ClientStep
<1>14. CASE t.op \in {"renew", "materialize"}
  <2>1. /\ ls = lease /\ cs = cred /\ ActiveIn(lease, l) /\ ~Overdue(l)
        /\ t.op = "renew" => lease[l].state = "active"
        /\ UsableForExisting(cred[lease[l].cred])
    BY <1>2, <1>3, <1>14 DEF UpdatingOK
  <2>2. CASE t.op = "renew"
    <3>1. new = [row EXCEPT !.expires = now + DefaultTTL, !.seen = now]
      BY <2>2 DEF new, Refreshed, IssuedLease
    <3>2. lease' = [lease EXCEPT ![l].expires = now + DefaultTTL, ![l].seen = now]
      BY <1>5, <1>12, <2>1, <3>1
    <3>3. Renew(l)
      BY <1>11, <1>12, <2>1, <2>2, <3>2 DEF Renew
    <3>. QED
      BY <1>11, <3>3, CommitNext DEF Next, ClientStep
  <2>3. CASE t.op = "materialize"
    <3>1. new = [row EXCEPT !.seen = now,
                            !.first = IF FirstDelivery(l) = None THEN now
                                      ELSE FirstDelivery(l)]
      <4>1. FirstDelivery(l) # None => FirstDelivery(l) = row.first
        BY <1>5, <2>1 DEF FirstDelivery
      <4>. QED
        BY <2>3, <4>1 DEF new, Refreshed, IssuedLease
    <3>2. lease' = [lease EXCEPT ![l].seen = now,
                                 ![l].first = IF FirstDelivery(l) = None THEN now
                                              ELSE FirstDelivery(l)]
      BY <1>5, <1>12, <2>1, <3>1
    <3>3. Materialize(l)
      BY <1>11, <1>12, <2>1, <3>2 DEF Materialize
    <3>. QED
      BY <1>11, <3>3, CommitNext DEF Next, ClientStep
  <2>. QED
    BY <1>14, <2>2, <2>3
<1>. QED
  BY <1>2, <1>13, <1>14 DEF UpdatingOK

LEMMA ReleaseRowSerial ==
    ASSUME TxInv, LockInv, NEW p \in Clients, Open(p), ReleaseRow(p)
    PROVE  LockInv' /\ [Next]_vars
<1>1. PICK t \in Txn, ls \in [LeaseIds -> Lease], cs \in [Credentials -> Credential] :
         /\ t = tx[p] /\ ls = SeenLeases(p) /\ cs = SeenCreds(p)
         /\ PointOK(t) /\ Serial(t, ls, cs)
         /\ t.at # "idle" /\ t.op \notin Autocommit
  BY OpenKnown
<1>2. /\ t.at = "release" /\ t.lease \in LeaseIds /\ t.op = "release"
      /\ t.overdue = {} /\ ls = lease /\ cs = cred /\ ActiveIn(lease, t.lease)
  BY <1>1 DEF ReleaseRow, PointOK, Serial
<1>3. PICK l \in LeaseIds : l = t.lease
  BY <1>2
<1>4. PICK row \in IssuedLease : row = ls[l]
  BY <1>2, <1>3, ActiveIssued DEF ActiveIn, ActiveStates
<1> DEFINE new == [row EXCEPT !.state = "released"]
           u == [t EXCEPT !.cred = row.cred, !.lease = None, !.at = "read"]
<1>5. new \in Lease
  BY DEF IssuedLease, Lease, EndStates
<1>6. /\ u \in Txn /\ u.at = "read" /\ u.op = t.op /\ u.cred = lease[l].cred
      /\ u.overdue = {} /\ u.leases = t.leases /\ u.creds = t.creds
  <2>1. row.cred \in Nullable(Credentials) /\ None \in Nullable(LeaseIds) /\ "read" \in Points
    BY DEF IssuedLease, Nullable, Points
  <2>2. u \in Txn
    BY <2>1 DEF Txn
  <2>. QED
    BY <1>2, <1>4, <2>2 DEF Txn
<1> HIDE DEF new, u
<1>7. Write(p, OneRow(l, new), NoRows, u)
  BY <1>1, <1>3, <1>4 DEF ReleaseRow, new, u
<1>8. /\ OneRow(l, new) \in RowsOf(LeaseIds, Lease)
      /\ NoRows \in RowsOf(Credentials, Credential)
  BY <1>5, OneRowTyped, NoRowsTyped
<1> DEFINE ls2 == [ls EXCEPT ![l] = new]
<1>9. ls2 = Over(OneRow(l, new), ls) /\ cs = Over(NoRows, cs)
  <2>1. ls2 = Over(OneRow(l, new), ls)
    BY DEF Over, OneRow
  <2>. QED
    BY <2>1, OverNothing
<1>10. ls2 = [lease EXCEPT ![l].state = "released"]
  BY <1>2, <1>4 DEF new
<1> HIDE DEF ls2
<1>11. ReleasingOK(u, ls2, cs)
  BY <1>2, <1>3, <1>6, <1>10 DEF ReleasingOK
<1>12. Serial(u, ls2, cs)
  BY <1>2, <1>6, <1>11 DEF Serial
<1>. QED
  BY <1>1, <1>6, <1>7, <1>8, <1>9, <1>12, WriteOn

LEMMA ExhaustRowSerial ==
    ASSUME TxInv, LockInv, NEW p \in Clients, Open(p), ExhaustRow(p)
    PROVE  LockInv' /\ [Next]_vars
<1>1. PICK t \in Txn, ls \in [LeaseIds -> Lease], cs \in [Credentials -> Credential] :
         /\ t = tx[p] /\ ls = SeenLeases(p) /\ cs = SeenCreds(p)
         /\ PointOK(t) /\ Serial(t, ls, cs)
         /\ t.at # "idle" /\ t.op \notin Autocommit
  BY OpenKnown
<1>2. /\ t.at = "exhaust" /\ t.cred \in Credentials /\ t.op = "exhaust"
      /\ ls = lease /\ cs = cred
  BY <1>1 DEF ExhaustRow, PointOK, Serial
<1>3. PICK c \in Credentials : c = t.cred
  BY <1>2
<1>4. PICK row \in Credential : row = cs[c]
  OBVIOUS
<1>5. PICK new \in Credential : new = Exhausted(row)
  <2>1. DueOrWeekly(row) \in Nullable(Nat)
    BY DEF DueOrWeekly, Credential
  <2>. QED
    BY <2>1 DEF Exhausted, Credential, CredentialState
<1> DEFINE u == [t EXCEPT !.at = "revoke"]
<1>6. /\ u \in Txn /\ u.at = "revoke" /\ u.op = t.op /\ u.cred = c
      /\ u.leases = t.leases /\ u.creds = t.creds
  BY <1>3 DEF Txn, Points
<1> HIDE DEF u
<1>7. Write(p, NoRows, OneRow(c, new), u)
  BY <1>1, <1>3, <1>4, <1>5 DEF ExhaustRow, u
<1>8. /\ OneRow(c, new) \in RowsOf(Credentials, Credential)
      /\ NoRows \in RowsOf(LeaseIds, Lease)
  BY OneRowTyped, NoRowsTyped
<1> DEFINE cs2 == [cs EXCEPT ![c] = new]
<1>9. cs2 = Over(OneRow(c, new), cs) /\ ls = Over(NoRows, ls)
  <2>1. cs2 = Over(OneRow(c, new), cs)
    BY DEF Over, OneRow
  <2>. QED
    BY <2>1, OverNothing
<1>10. cs2 = [cred EXCEPT ![u.cred] = Exhausted(cred[u.cred])]
  BY <1>2, <1>4, <1>5, <1>6
<1> HIDE DEF cs2
<1>11. Serial(u, ls, cs2)
  BY <1>2, <1>6, <1>10 DEF Serial
<1>. QED
  BY <1>1, <1>6, <1>7, <1>8, <1>9, <1>11, WriteOn

LEMMA RevokeRowsSerial ==
    ASSUME TxInv, LockInv, NEW p \in Clients, Open(p), RevokeRows(p)
    PROVE  LockInv' /\ [Next]_vars
<1>1. PICK t \in Txn, ls \in [LeaseIds -> Lease], cs \in [Credentials -> Credential] :
         /\ t = tx[p] /\ ls = SeenLeases(p) /\ cs = SeenCreds(p)
         /\ PointOK(t) /\ Serial(t, ls, cs)
         /\ t.at # "idle" /\ t.op \notin Autocommit
  BY OpenKnown
<1>2. /\ t.at = "revoke" /\ t.cred \in Credentials /\ ls = lease
      /\ cs = [cred EXCEPT ![t.cred] = Exhausted(cred[t.cred])]
  BY <1>1 DEF RevokeRows, PointOK, Serial
<1>3. PICK c \in Credentials : c = t.cred
  BY <1>2
<1> DEFINE L == {l \in LeaseIds : ActiveIn(ls, l) /\ ls[l].cred = c}
           rows == [l \in L |-> Revoked(ls, c)[l]]
           u == [t EXCEPT !.at = "idle"]
<1>4. L = LeasesOn(p, c)
  BY <1>1 DEF LeasesOn
<1>5. Write(p, rows, NoRows, u)
  BY <1>1, <1>3, <1>4 DEF RevokeRows
<1>6. u \in Txn /\ u.at = "idle" /\ u.leases = t.leases /\ u.creds = t.creds
  BY DEF Txn, Points
<1>7. ASSUME NEW l \in L
      PROVE  rows[l] \in Lease
  <2>1. ls[l] \in IssuedLease
    BY ActiveIssued DEF ActiveIn, ActiveStates
  <2>2. rows[l] = [ls[l] EXCEPT !.state = "revoked"]
    BY DEF Revoked
  <2>. QED
    BY <2>1, <2>2 DEF IssuedLease, Lease, EndStates
<1>8. /\ DOMAIN rows = L /\ L \subseteq LeaseIds /\ rows \in [L -> Lease]
      /\ \A l \in L : rows[l] = Revoked(ls, c)[l]
  BY <1>7
<1>9. \A l \in LeaseIds \ L : Revoked(ls, c)[l] = ls[l]
  BY DEF Revoked
<1> HIDE DEF u, rows, L
<1>10. rows \in RowsOf(LeaseIds, Lease) /\ NoRows \in RowsOf(Credentials, Credential)
  BY <1>8, NoRowsTyped DEF RowsOf
<1>11. /\ lease' = Over(rows, ls) /\ cred' = Over(NoRows, cs)
       /\ now' = now /\ tx' = [tx EXCEPT ![p] = Idle]
  BY <1>1, <1>5, <1>6, <1>10, CommitOn
<1>12. Over(rows, ls) = Revoked(ls, c)
  <2>1. Over(rows, ls) = [l \in LeaseIds |-> IF l \in L THEN rows[l] ELSE ls[l]]
    BY <1>8 DEF Over
  <2>2. Revoked(ls, c) = [l \in LeaseIds |-> Revoked(ls, c)[l]]
    BY DEF Revoked
  <2>. QED
    BY <1>8, <1>9, <2>1, <2>2
<1>13. cred' = cs
  BY <1>11, OverNothing
<1>14. MarkExhausted(c)
  BY <1>2, <1>3, <1>11, <1>12, <1>13 DEF MarkExhausted
<1>. QED
  BY <1>11, <1>14, CommitNext DEF Next, ManagerStep

LEMMA SelectSerial ==
    ASSUME TxInv, LockInv, NEW p \in Clients, Open(p), Select(p)
    PROVE  LockInv' /\ [Next]_vars
<1>1. PICK t \in Txn, ls \in [LeaseIds -> Lease], cs \in [Credentials -> Credential] :
         /\ t = tx[p] /\ ls = SeenLeases(p) /\ cs = SeenCreds(p)
         /\ PointOK(t) /\ Serial(t, ls, cs)
         /\ t.at # "idle" /\ t.op \notin Autocommit
  BY OpenKnown
<1>2. /\ t.at = "select" /\ t.op = "acquire" /\ UNCHANGED vars
      /\ tx \in [Clients -> Txn]
      /\ ls = LeasesExpired(OverdueLeases) /\ cs = CredsExpired(OverdueLeases)
  BY <1>1 DEF Select, PointOK, Serial, TxInv
<1>3. ASSUME NEW l \in Reusable(cs, ls, t.owner[1]),
             tx' = [tx EXCEPT ![p].lease = l, ![p].at = "update"]
      PROVE  LockInv' /\ [Next]_vars
  <2> DEFINE u == [t EXCEPT !.lease = l, !.at = "update"]
  <2>1. tx' = [tx EXCEPT ![p] = u]
    BY <1>1, <1>2, <1>3
  <2>2. l \in LeaseIds
    BY DEF Reusable
  <2>3. /\ u \in Txn /\ u.op = "acquire" /\ u.at = "update" /\ u.lease = l
        /\ u.owner = t.owner /\ u.leases = t.leases /\ u.creds = t.creds
    BY <1>2, <2>2 DEF Txn, Points, Nullable
  <2> HIDE DEF u
  <2>4. UpdatingOK(u, ls, cs)
    BY <1>2, <1>3, <2>3 DEF UpdatingOK
  <2>5. Serial(u, ls, cs)
    BY <2>3, <2>4 DEF Serial
  <2>. QED
    BY <1>1, <1>2, <2>1, <2>3, <2>5, ReadOn
<1>4. CASE /\ tx' = [tx EXCEPT ![p].rest = Credentials, ![p].rows = cs, ![p].at = "scan"]
           /\ Reusable(cs, ls, t.owner[1]) = {}
  <2> DEFINE u == [t EXCEPT !.rest = Credentials, !.rows = cs, !.at = "scan"]
  <2>1. tx' = [tx EXCEPT ![p] = u]
    BY <1>1, <1>2, <1>4
  <2>2. cs \in RowsOf(Credentials, Credential)
    BY DEF RowsOf
  <2>3. /\ u \in Txn /\ u.op = "acquire" /\ u.at = "scan" /\ u.rest = Credentials
        /\ u.rows = cs /\ u.owner = t.owner /\ u.leases = t.leases /\ u.creds = t.creds
    BY <1>2, <2>2 DEF Txn, Points
  <2> HIDE DEF u
  <2>4. ScanLeases(u) = ls /\ ScanCreds(u) = cs
    BY <1>2, <2>3 DEF ScanLeases, ScanCreds
  <2>5. ScanningOK(u, ls)
    BY <1>4, <2>3, <2>4 DEF ScanningOK
  <2>6. ScannedOK(u, ls, cs)
    BY <2>3, <2>4 DEF ScannedOK
  <2>7. Serial(u, ls, cs)
    BY <2>3, <2>5, <2>6 DEF Serial
  <2>. QED
    BY <1>1, <1>2, <2>1, <2>3, <2>7, ReadOn
<1>. QED
  BY <1>1, <1>3, <1>4 DEF Select

LEMMA CheckHeldSerial ==
    ASSUME TxInv, LockInv, NEW p \in Clients, Open(p), CheckHeld(p)
    PROVE  LockInv' /\ [Next]_vars
<1>1. PICK t \in Txn, ls \in [LeaseIds -> Lease], cs \in [Credentials -> Credential] :
         /\ t = tx[p] /\ ls = SeenLeases(p) /\ cs = SeenCreds(p)
         /\ PointOK(t) /\ Serial(t, ls, cs)
         /\ t.at # "idle" /\ t.op \notin Autocommit
  BY OpenKnown
<1>2. /\ t.at = "scan" /\ ScanningOK(t, ls) /\ ScannedOK(t, ls, cs)
      /\ UNCHANGED vars /\ tx \in [Clients -> Txn]
  BY <1>1 DEF CheckHeld, Serial, TxInv
<1>3. PICK c \in NextRows(t.rest) :
         tx' = [tx EXCEPT ![p].cred = c, ![p].rest = t.rest \ {c},
                          ![p].held = HeldIn(ls, c), ![p].at = "reconcile"]
  BY <1>1, <1>2 DEF CheckHeld, ShownHeld
<1>4. c \in t.rest /\ c \in Credentials
  BY DEF NextRows, Txn
<1>5. PICK held \in BOOLEAN : held = HeldIn(ls, c)
  BY DEF HeldIn
<1> DEFINE u == [t EXCEPT !.cred = c, !.rest = t.rest \ {c}, !.held = held,
                          !.at = "reconcile"]
<1>6. tx' = [tx EXCEPT ![p] = u]
  BY <1>1, <1>2, <1>3, <1>5
<1>7. /\ u \in Txn /\ u.at = "reconcile" /\ u.cred = c /\ u.rest = t.rest \ {c}
      /\ u.held = HeldIn(ls, c) /\ u.op = t.op /\ u.owner = t.owner /\ u.rows = t.rows
      /\ u.lease = t.lease /\ u.leases = t.leases /\ u.creds = t.creds
  BY <1>4, <1>5 DEF Txn, Points, Nullable
<1> HIDE DEF u
<1>8. ScanLeases(u) = ScanLeases(t) /\ ScanCreds(u) = ScanCreds(t)
  BY <1>7 DEF ScanLeases, ScanCreds
<1>9. ScanningOK(u, ls)
  BY <1>2, <1>7, <1>8 DEF ScanningOK
<1>10. ScannedOK(u, ls, cs)
  BY <1>2, <1>4, <1>7, <1>8 DEF ScannedOK
<1>11. Serial(u, ls, cs)
  BY <1>7, <1>9, <1>10 DEF Serial
<1>. QED
  BY <1>1, <1>2, <1>6, <1>7, <1>11, ReadOn

LEMMA ReconcileRowSerial ==
    ASSUME TxInv, LockInv, NEW p \in Clients, Open(p), ReconcileRow(p)
    PROVE  LockInv' /\ [Next]_vars
<1>1. PICK t \in Txn, ls \in [LeaseIds -> Lease], cs \in [Credentials -> Credential] :
         /\ t = tx[p] /\ ls = SeenLeases(p) /\ cs = SeenCreds(p)
         /\ PointOK(t) /\ Serial(t, ls, cs)
         /\ t.at # "idle" /\ t.op \notin Autocommit
  BY OpenKnown
<1>2. /\ t.at = "reconcile" /\ t.cred \in Credentials
      /\ ScanningOK(t, ls) /\ ScannedOK(t, ls, cs)
  BY <1>1 DEF ReconcileRow, PointOK, Serial
<1>3. PICK c \in Credentials : c = t.cred
  BY <1>2
<1>4. PICK before : before = ScanCreds(t)
  OBVIOUS
<1>5. /\ t.rows = before /\ c \notin t.rest /\ t.held = HeldIn(ls, c) /\ cs[c] = before[c]
      /\ \A d \in Credentials \ {c} :
            cs[d] = IF d \in t.rest THEN before[d] ELSE Reconcile(before[d], HeldIn(ls, d), now)
  BY <1>2, <1>3, <1>4 DEF ScannedOK
<1>6. PICK row \in Credential : row = cs[c]
  OBVIOUS
<1>7. t.held \in BOOLEAN
  BY DEF Txn
<1>8. PICK new \in Credential : new = Reconcile(row, t.held, now)
  BY <1>7, ReconcileType DEF TxInv, TypeOK
<1> DEFINE last == t.rest = {}
           at == IF last THEN "choose" ELSE "scan"
           rows == IF last THEN NoRows ELSE t.rows
           u == [t EXCEPT !.cred = None, !.held = FALSE, !.rows = rows, !.at = at]
<1>9. Write(p, NoRows, OneRow(c, new), u)
  <2>1. Rewritten(cs[c], t.rows[c], t.held) = new
    BY <1>5, <1>6, <1>7, <1>8, RewrittenSame DEF TxInv, TypeOK
  <2>. QED
    BY <1>1, <1>3, <2>1 DEF ReconcileRow
<1>10. at \in Points /\ at # "idle" /\ rows \in RowsOf(Credentials, Credential)
  BY NoRowsTyped DEF Points, Txn
<1> HIDE DEF at, rows
<1>11. /\ u \in Txn /\ u.at = at /\ u.rows = rows /\ u.rest = t.rest
       /\ u.op = t.op /\ u.owner = t.owner
       /\ u.lease = t.lease /\ u.leases = t.leases /\ u.creds = t.creds
  BY <1>10 DEF Txn, Nullable
<1> HIDE DEF u
<1>12. /\ OneRow(c, new) \in RowsOf(Credentials, Credential)
       /\ NoRows \in RowsOf(LeaseIds, Lease)
  BY OneRowTyped, NoRowsTyped
<1> DEFINE cs2 == [cs EXCEPT ![c] = new]
<1>13. cs2 = Over(OneRow(c, new), cs) /\ ls = Over(NoRows, ls)
  <2>1. cs2 = Over(OneRow(c, new), cs)
    BY DEF Over, OneRow
  <2>. QED
    BY <2>1, OverNothing
<1>14. /\ DOMAIN cs2 = Credentials /\ cs2 \in [Credentials -> Credential]
       /\ \A d \in Credentials :
             cs2[d] = IF d \in t.rest THEN before[d] ELSE Reconcile(before[d], HeldIn(ls, d), now)
  BY <1>5, <1>6, <1>8
<1> HIDE DEF cs2
<1>15. ScanLeases(u) = ScanLeases(t) /\ ScanCreds(u) = before
  BY <1>4, <1>11 DEF ScanLeases, ScanCreds
<1>16. ScanningOK(u, ls)
  BY <1>2, <1>4, <1>11, <1>15 DEF ScanningOK
<1>17. CASE last
  <2>1. u.at = "choose"
    BY <1>11, <1>17 DEF at
  <2>2. cs2 = AllReconciled(ScanCreds(u), ls)
    BY <1>14, <1>15, <1>17 DEF AllReconciled
  <2>3. Serial(u, ls, cs2)
    BY <1>16, <2>1, <2>2 DEF Serial
  <2>. QED
    BY <1>1, <1>9, <1>10, <1>11, <1>12, <1>13, <2>3, WriteOn
<1>18. CASE ~last
  <2>1. u.at = "scan" /\ u.rows = before
    BY <1>5, <1>11, <1>18 DEF at, rows
  <2>2. ScannedOK(u, ls, cs2)
    BY <1>11, <1>14, <1>15, <2>1 DEF ScannedOK
  <2>3. Serial(u, ls, cs2)
    BY <1>16, <2>1, <2>2 DEF Serial
  <2>. QED
    BY <1>1, <1>9, <1>10, <1>11, <1>12, <1>13, <2>3, WriteOn
<1>. QED
  BY <1>17, <1>18

\* A denial commits what the scan has written.
LEMMA DeniedCommits ==
    ASSUME TxInv, NEW p \in Clients, Denied(p),
           NEW ls, ls = SeenLeases(p), NEW cs, cs = SeenCreds(p)
    PROVE  lease' = ls /\ cred' = cs /\ now' = now /\ tx' = [tx EXCEPT ![p] = Idle]
<1>1. PICK t \in Txn : t = tx[p]
  BY Known
<1> DEFINE u == [t EXCEPT !.at = "idle"]
<1>2. u \in Txn /\ u.at = "idle" /\ u.leases = t.leases /\ u.creds = t.creds
  BY DEF Txn, Points
<1>3. Write(p, NoRows, NoRows, u)
  BY <1>1 DEF Denied
<1> HIDE DEF u
<1>4. NoRows \in RowsOf(LeaseIds, Lease) /\ NoRows \in RowsOf(Credentials, Credential)
  BY NoRowsTyped
<1>5. /\ lease' = Over(NoRows, ls) /\ cred' = Over(NoRows, cs)
      /\ now' = now /\ tx' = [tx EXCEPT ![p] = Idle]
  BY <1>1, <1>2, <1>3, <1>4, CommitOn
<1>6. Over(NoRows, ls) = ls /\ Over(NoRows, cs) = cs
  BY SeenTyped, OverNothing
<1>. QED
  BY <1>5, <1>6

LEMMA GrantAcquiredSerial ==
    ASSUME TxInv, LockInv, NEW p \in Clients, Open(p),
           NEW ttl \in TTLs, NEW exclude \in SUBSET Credentials, GrantAcquired(p, ttl, exclude)
    PROVE  LockInv' /\ [Next]_vars
<1>1. PICK t \in Txn, ls \in [LeaseIds -> Lease], cs \in [Credentials -> Credential] :
         /\ t = tx[p] /\ ls = SeenLeases(p) /\ cs = SeenCreds(p)
         /\ PointOK(t) /\ Serial(t, ls, cs)
         /\ t.at # "idle" /\ t.op \notin Autocommit
  BY OpenKnown
<1>2. /\ t.at = "choose" /\ t.op = "acquire" /\ t.owner \in Machines \X Agents
      /\ ScanningOK(t, ls) /\ cs = AllReconciled(ScanCreds(t), ls)
  BY <1>1 DEF GrantAcquired, PointOK, Serial
<1>3. PICK m \in Machines, a \in Agents : m = t.owner[1] /\ a = t.owner[2]
  BY <1>2
<1>4. /\ ls = LeasesExpired(OverdueLeases)
      /\ cs = AllReconciled(CredsExpired(OverdueLeases), ls)
      /\ Reusable(CredsExpired(OverdueLeases), ls, m) = {}
  BY <1>2, <1>3 DEF ScanningOK, ScanLeases, ScanCreds
<1> DEFINE candidates == AcquireCandidates(cs, m, a, exclude)
<1> HIDE DEF candidates
<1>5. CASE candidates = {} /\ Denied(p)
  <2>1. lease' = ls /\ cred' = cs /\ now' = now /\ tx' = [tx EXCEPT ![p] = Idle]
    BY <1>1, <1>5, DeniedCommits
  <2>2. AcquireNew(m, a, ttl, exclude)
    BY <1>4, <1>5, <2>1 DEF AcquireNew, candidates
  <2>. QED
    BY <2>1, <2>2, CommitNext DEF Next, ClientStep
<1>6. ASSUME NEW c \in candidates, NEW l \in FreeIds,
             Write(p, OneRow(l, NewLease(c, m, a, ttl)),
                   OneRow(c, [cs[c] EXCEPT !.state = "leased"]), [t EXCEPT !.at = "idle"])
      PROVE  LockInv' /\ [Next]_vars
  <2>1. c \in Credentials /\ l \in LeaseIds
    BY DEF candidates, AcquireCandidates, Narrowed, BelowRotationIn, Eligible, FreeIds
  <2>2. PICK granted \in Lease : granted = NewLease(c, m, a, ttl)
    <3>1. now \in Nat /\ now + ttl \in Nat
      BY BrokerAssumption DEF TxInv, TypeOK
    <3>. QED
      BY <2>1, <3>1 DEF NewLease, Lease, IssuedLease, ActiveStates, Nullable
  <2>3. PICK row \in Credential : row = [cs[c] EXCEPT !.state = "leased"]
    BY <2>1, LeasedType
  <2> DEFINE u == [t EXCEPT !.at = "idle"]
  <2>4. u \in Txn /\ u.at = "idle" /\ u.leases = t.leases /\ u.creds = t.creds
    BY DEF Txn, Points
  <2>5. Write(p, OneRow(l, granted), OneRow(c, row), u)
    BY <1>6, <2>2, <2>3
  <2> HIDE DEF u
  <2>6. /\ OneRow(l, granted) \in RowsOf(LeaseIds, Lease)
        /\ OneRow(c, row) \in RowsOf(Credentials, Credential)
    BY <2>1, OneRowTyped
  <2>7. /\ lease' = Over(OneRow(l, granted), ls) /\ cred' = Over(OneRow(c, row), cs)
        /\ now' = now /\ tx' = [tx EXCEPT ![p] = Idle]
    BY <1>1, <2>4, <2>5, <2>6, CommitOn
  <2>8. lease' = [ls EXCEPT ![l] = NewLease(c, m, a, ttl)]
    BY <2>1, <2>2, <2>7 DEF Over, OneRow
  <2>9. cred' = [cs EXCEPT ![c].state = "leased"]
    BY <2>1, <2>3, <2>7 DEF Over, OneRow
  <2>10. AcquireNew(m, a, ttl, exclude)
    BY <1>4, <2>7, <2>8, <2>9 DEF AcquireNew, candidates
  <2>. QED
    BY <2>7, <2>10, CommitNext DEF Next, ClientStep
<1>. QED
  BY <1>1, <1>3, <1>5, <1>6 DEF GrantAcquired, candidates

LEMMA ChooseReplacementSerial ==
    ASSUME TxInv, LockInv, NEW p \in Clients, Open(p), ChooseReplacement(p)
    PROVE  LockInv' /\ [Next]_vars
<1>1. PICK t \in Txn, ls \in [LeaseIds -> Lease], cs \in [Credentials -> Credential] :
         /\ t = tx[p] /\ ls = SeenLeases(p) /\ cs = SeenCreds(p)
         /\ PointOK(t) /\ Serial(t, ls, cs)
         /\ t.at # "idle" /\ t.op \notin Autocommit
  BY OpenKnown
<1>2. /\ t.at = "choose" /\ t.op = "rotate" /\ t.lease \in LeaseIds
      /\ ScanningOK(t, ls) /\ cs = AllReconciled(ScanCreds(t), ls)
  BY <1>1 DEF ChooseReplacement, PointOK, Serial
<1>3. PICK l \in LeaseIds : l = t.lease
  BY <1>2
<1>4. /\ ls = lease /\ cs = AllReconciled(cred, lease) /\ ActiveIn(lease, l)
      /\ t.owner = <<lease[l].machine, lease[l].agent>>
  BY <1>2, <1>3 DEF ScanningOK, ScanLeases, ScanCreds
<1> DEFINE candidates == RotateCandidates(cs, t.owner[1], t.owner[2], lease[l].cred)
<1>5. CASE candidates = {} /\ Denied(p)
  <2>1. lease' = ls /\ cred' = cs /\ now' = now /\ tx' = [tx EXCEPT ![p] = Idle]
    BY <1>1, <1>5, DeniedCommits
  <2>2. RotateCandidates(cs, lease[l].machine, lease[l].agent, lease[l].cred) = {}
    BY <1>4, <1>5
  <2>3. Rotate(l)
    BY <1>4, <2>1, <2>2 DEF Rotate
  <2>. QED
    BY <2>1, <2>3, CommitNext DEF Next, ClientStep
<1>6. ASSUME NEW c \in candidates, UNCHANGED vars,
             tx' = [tx EXCEPT ![p].cred = c, ![p].at = "swap"]
      PROVE  LockInv' /\ [Next]_vars
  <2>1. c \in Credentials
    BY DEF RotateCandidates, Narrowed, BelowRotationIn, Eligible
  <2> DEFINE u == [t EXCEPT !.cred = c, !.at = "swap"]
  <2>2. tx' = [tx EXCEPT ![p] = u]
    BY <1>1, <1>6 DEF TxInv
  <2>3. /\ u \in Txn /\ u.at = "swap" /\ u.cred = c /\ u.op = t.op /\ u.owner = t.owner
        /\ u.lease = t.lease /\ u.leases = t.leases /\ u.creds = t.creds
    BY <2>1 DEF Txn, Points, Nullable
  <2> HIDE DEF u
  <2>4. ScanLeases(u) = ScanLeases(t) /\ ScanCreds(u) = ScanCreds(t)
    BY <2>3 DEF ScanLeases, ScanCreds
  <2>5. ScanningOK(u, ls)
    BY <1>2, <2>3, <2>4 DEF ScanningOK
  <2>6. u.cred \in RotateCandidates(cs, u.owner[1], u.owner[2], lease[u.lease].cred)
    BY <1>3, <1>6, <2>3
  <2>7. Serial(u, ls, cs)
    BY <1>2, <2>3, <2>4, <2>5, <2>6 DEF Serial
  <2>. QED
    BY <1>1, <1>6, <2>2, <2>3, <2>7, ReadOn
<1>. QED
  BY <1>1, <1>3, <1>5, <1>6 DEF ChooseReplacement

LEMMA SwapSerial ==
    ASSUME TxInv, LockInv, NEW p \in Clients, Open(p), Swap(p)
    PROVE  LockInv' /\ [Next]_vars
<1>1. PICK t \in Txn, ls \in [LeaseIds -> Lease], cs \in [Credentials -> Credential] :
         /\ t = tx[p] /\ ls = SeenLeases(p) /\ cs = SeenCreds(p)
         /\ PointOK(t) /\ Serial(t, ls, cs)
         /\ t.at # "idle" /\ t.op \notin Autocommit
  BY OpenKnown
<1>2. /\ t.at = "swap" /\ t.op = "rotate" /\ t.lease \in LeaseIds
      /\ ScanningOK(t, ls) /\ cs = AllReconciled(ScanCreds(t), ls)
      /\ t.cred \in RotateCandidates(cs, t.owner[1], t.owner[2], lease[t.lease].cred)
  BY <1>1 DEF Swap, PointOK, Serial
<1>3. PICK l \in LeaseIds : l = t.lease
  BY <1>2
<1>4. /\ ls = lease /\ cs = AllReconciled(cred, lease) /\ ActiveIn(lease, l)
      /\ t.owner = <<lease[l].machine, lease[l].agent>>
  BY <1>2, <1>3 DEF ScanningOK, ScanLeases, ScanCreds
<1>5. PICK row \in IssuedLease : row = ls[l] /\ row = lease[l]
  BY <1>4, ActiveIssued DEF ActiveIn, ActiveStates
<1>6. PICK old \in Credentials, m \in Machines, a \in Agents :
         old = row.cred /\ m = row.machine /\ a = row.agent
  BY DEF IssuedLease
<1>7. m = t.owner[1] /\ a = t.owner[2]
  BY <1>4, <1>5, <1>6
<1>8. t.cred \in RotateCandidates(cs, m, a, old)
  BY <1>2, <1>3, <1>5, <1>6, <1>7
<1>9. PICK c \in Credentials : c = t.cred /\ c # old
  BY <1>8 DEF RotateCandidates, Narrowed, BelowRotationIn, Eligible
<1>10. PICK new \in FreeIds :
          Write(p,
                Over(OneRow(new, NewLease(c, m, a, DefaultTTL)),
                     OneRow(l, [row EXCEPT !.state = "released", !.replacement = new])),
                Over(OneRow(c, [cs[c] EXCEPT !.state = "leased"]),
                     OneRow(old, Reconcile(cs[old], FALSE, now))),
                [t EXCEPT !.at = "idle"])
  BY <1>1, <1>3, <1>5, <1>6, <1>7, <1>9 DEF Swap
<1>11. new \in LeaseIds /\ new # l
  BY <1>4 DEF FreeIds, ActiveIn, ActiveStates
<1>12. PICK granted \in Lease : granted = NewLease(c, m, a, DefaultTTL)
  <2>1. now \in Nat /\ now + DefaultTTL \in Nat
    BY BrokerAssumption DEF TxInv, TypeOK
  <2>. QED
    BY <2>1 DEF NewLease, Lease, IssuedLease, ActiveStates, Nullable
<1>13. PICK ended \in Lease : ended = [row EXCEPT !.state = "released", !.replacement = new]
  BY <1>11 DEF Lease, IssuedLease, EndStates, Nullable
<1>14. PICK leased \in Credential : leased = [cs[c] EXCEPT !.state = "leased"]
  BY LeasedType
<1>15. PICK freed \in Credential : freed = Reconcile(cs[old], FALSE, now)
  BY ReconcileType DEF TxInv, TypeOK
<1> DEFINE lrows == Over(OneRow(new, granted), OneRow(l, ended))
           crows == Over(OneRow(c, leased), OneRow(old, freed))
           u == [t EXCEPT !.at = "idle"]
<1>16. Write(p, lrows, crows, u)
  BY <1>10, <1>12, <1>13, <1>14, <1>15
<1>17. u \in Txn /\ u.at = "idle" /\ u.leases = t.leases /\ u.creds = t.creds
  BY DEF Txn, Points
<1>18. lrows \in RowsOf(LeaseIds, Lease) /\ crows \in RowsOf(Credentials, Credential)
  <2>1. /\ OneRow(new, granted) \in RowsOf(LeaseIds, Lease)
        /\ OneRow(l, ended) \in RowsOf(LeaseIds, Lease)
        /\ OneRow(c, leased) \in RowsOf(Credentials, Credential)
        /\ OneRow(old, freed) \in RowsOf(Credentials, Credential)
    BY <1>11, OneRowTyped
  <2>2. lrows \in RowsOf(LeaseIds, Lease)
    BY <2>1, OverTyped
  <2>3. crows \in RowsOf(Credentials, Credential)
    BY <2>1, OverTyped
  <2>. QED
    BY <2>2, <2>3
<1>19. /\ Over(lrows, ls) = [ls EXCEPT ![new] = granted, ![l] = ended]
       /\ Over(crows, cs) = [cs EXCEPT ![c] = leased, ![old] = freed]
  <2>1. /\ DOMAIN OneRow(new, granted) = {new} /\ OneRow(new, granted)[new] = granted
        /\ DOMAIN OneRow(l, ended) = {l} /\ OneRow(l, ended)[l] = ended
        /\ DOMAIN OneRow(c, leased) = {c} /\ OneRow(c, leased)[c] = leased
        /\ DOMAIN OneRow(old, freed) = {old} /\ OneRow(old, freed)[old] = freed
    BY DEF OneRow
  <2>2. /\ DOMAIN lrows = {new, l} /\ lrows[new] = granted /\ lrows[l] = ended
        /\ DOMAIN crows = {c, old} /\ crows[c] = leased /\ crows[old] = freed
    BY <1>9, <1>11, <2>1 DEF Over
  <2> HIDE DEF lrows, crows
  <2>3. Over(lrows, ls) = [ls EXCEPT ![new] = granted, ![l] = ended]
    <3>1. Over(lrows, ls) = [k \in LeaseIds |-> IF k \in {new, l} THEN lrows[k] ELSE ls[k]]
      BY <1>11, <2>2 DEF Over
    <3>. QED
      BY <1>11, <2>2, <3>1
  <2>4. Over(crows, cs) = [cs EXCEPT ![c] = leased, ![old] = freed]
    <3>1. Over(crows, cs) = [k \in Credentials |-> IF k \in {c, old} THEN crows[k] ELSE cs[k]]
      BY <2>2 DEF Over
    <3>. QED
      BY <1>9, <2>2, <3>1
  <2>. QED
    BY <2>3, <2>4
<1> HIDE DEF u, lrows, crows
<1>20. /\ lease' = Over(lrows, ls) /\ cred' = Over(crows, cs)
       /\ now' = now /\ tx' = [tx EXCEPT ![p] = Idle]
  BY <1>1, <1>16, <1>17, <1>18, CommitOn
<1>21. lease' = [lease EXCEPT ![new] = NewLease(c, m, a, DefaultTTL),
                              ![l].state = "released", ![l].replacement = new]
  <2>1. lease' = [ls EXCEPT ![new] = granted, ![l] = ended]
    BY <1>19, <1>20
  <2>. QED
    BY <1>4, <1>5, <1>11, <1>12, <1>13, <2>1
<1>22. cred' = [cs EXCEPT ![c].state = "leased", ![old] = Reconcile(cs[old], FALSE, now)]
  <2>1. cred' = [cs EXCEPT ![c] = leased, ![old] = freed]
    BY <1>19, <1>20
  <2>. QED
    BY <1>9, <1>14, <1>15, <2>1
<1>23. /\ lease[l].cred = old /\ lease[l].machine = m /\ lease[l].agent = a
  BY <1>5, <1>6
<1>24. Rotate(l)
  <2>1. c \in RotateCandidates(AllReconciled(cred, lease), m, a, old)
    BY <1>4, <1>8, <1>9
  <2>2. cred' = [AllReconciled(cred, lease) EXCEPT
                   ![c].state = "leased",
                   ![old] = Reconcile(AllReconciled(cred, lease)[old], FALSE, now)]
    BY <1>4, <1>22
  <2>. QED
    BY <1>4, <1>20, <1>21, <1>23, <2>1, <2>2 DEF Rotate
<1>. QED
  BY <1>20, <1>24, CommitNext DEF Next, ClientStep

LEMMA OpenSerial ==
    ASSUME TxInv, LockInv, NEW p \in Clients, Open(p), Proceed(p)
    PROVE  LockInv' /\ [Next]_vars
BY ExpireRowSerial, ReadRowSerial, WriteRowSerial, UpdateLeaseSerial, ReleaseRowSerial,
   ExhaustRowSerial, RevokeRowsSerial, SelectSerial, CheckHeldSerial, ReconcileRowSerial,
   GrantAcquiredSerial, ChooseReplacementSerial, SwapSerial DEF Proceed

-----------------------------------------------------------------------------
(* Those who have no transaction open                                      *)

\* A step that commits nothing and leaves p without a transaction.
LEMMA OthersStay ==
    ASSUME TxInv, LockInv, NEW p \in Clients, NEW u, tx' = [tx EXCEPT ![p] = u], UNCHANGED vars,
           u.op \in Autocommit => u.leases = NoRows /\ u.at \in AutoPoints,
           u.at = "idle" \/ u.op \in Autocommit
    PROVE  LockInv'
<1>1. tx \in [Clients -> Txn] /\ UNCHANGED <<lease, cred, now>>
  BY DEF TxInv, vars
<1>2. tx'[p] = u /\ \A q \in Clients \ {p} : tx'[q] = tx[q]
  BY <1>1
<1>3. NoDoubleLease'
  BY <1>1 DEF LockInv, NoDoubleLease, ActiveIn
<1>4. ~Open(p)' /\ \A q \in Clients : Open(q)' => Open(q) /\ q # p
  BY <1>2 DEF Open
<1>5. OneOpen'
  BY <1>4 DEF LockInv, OneOpen
<1>6. CommittedAtOnce'
  BY <1>2 DEF CommittedAtOnce, LockInv
<1>7. SerialOK'
  <2>1. SUFFICES ASSUME NEW q \in Clients, Open(q)'
                 PROVE  Serial(tx[q], SeenLeases(q), SeenCreds(q))'
    BY DEF SerialOK
  <2>2. PICK t, ls, cs : t = tx[q] /\ ls = SeenLeases(q) /\ cs = SeenCreds(q)
    OBVIOUS
  <2>3. Open(q) /\ q # p
    BY <1>4, <2>1
  <2>4. Serial(t, ls, cs)
    BY <2>2, <2>3 DEF LockInv, SerialOK
  <2>5. Serial(t, ls, cs)'
    BY <2>4, SerialStays
  <2>6. tx'[q] = t /\ SeenLeases(q)' = ls /\ SeenCreds(q)' = cs
    BY <1>1, <1>2, <2>2, <2>3 DEF SeenLeases, SeenCreds
  <2>. QED
    BY <2>5, <2>6
<1>. QED
  BY <1>3, <1>5, <1>6, <1>7 DEF LockInv

\* A statement that commits by itself, while nobody has a transaction open.
LEMMA AutoWrite ==
    ASSUME TxInv, LockInv, NEW p \in Clients, \A q \in Clients \ {p} : ~Open(q),
           NEW t \in Txn, t = tx[p], t.op \in Autocommit, t.leases = NoRows,
           NEW lrows \in RowsOf(LeaseIds, Lease), NEW crows \in RowsOf(Credentials, Credential),
           \A l \in DOMAIN lrows :
              /\ Issued(l) /\ lrows[l].state # "none"
              /\ lrows[l].state \in ActiveStates =>
                    ActiveIn(lease, l) /\ lrows[l].cred = lease[l].cred,
           NEW u \in Txn, u.op = t.op, u.leases = t.leases,
           u.at = "idle" \/ u.at \in AutoPoints,
           Write(p, lrows, crows, u)
    PROVE  LockInv' /\ Fades
<1>1. /\ lease \in [LeaseIds -> Lease] /\ tx \in [Clients -> Txn]
      /\ DOMAIN lrows \subseteq LeaseIds
  BY RowsTyped DEF TxInv, TypeOK
<1>2. lease' = Over(lrows, lease)
  <2>1. Over(lrows, NoRows) = lrows
    BY RowsTyped DEF Over, NoRows
  <2>. QED
    BY <2>1 DEF Write
<1>3. tx' = [tx EXCEPT ![p] = IF u.at = "idle" THEN Idle ELSE u]
  BY DEF Write
<1>4. Fades
  <2>1. \A l \in DOMAIN lrows : lease'[l] = lrows[l]
    BY <1>1, <1>2, OverTable
  <2>2. \A l \in LeaseIds \ DOMAIN lrows : lease'[l] = lease[l]
    BY <1>1, <1>2, OverTable
  <2>. QED
    BY <2>1, <2>2 DEF Fades, ActiveIn, Issued
<1>5. NoDoubleLease'
  BY <1>4 DEF Fades, LockInv, NoDoubleLease
<1>6. \A q \in Clients : ~Open(q)'
  BY <1>1, <1>3 DEF Open, Idle
<1>7. CommittedAtOnce'
  <2>1. Idle.op \notin Autocommit
    BY DEF Idle, Autocommit
  <2>. QED
    BY <1>1, <1>3, <2>1 DEF CommittedAtOnce, LockInv
<1>. QED
  BY <1>4, <1>5, <1>6, <1>7 DEF LockInv, OneOpen, SerialOK

\* The statements of reconcile_broker_leases and get_broker_lease_status.
LEMMA AutoSerial ==
    ASSUME TxInv, LockInv, WriteLock, NEW p \in Clients, tx[p].op \in Autocommit, Proceed(p)
    PROVE  LockInv' /\ Fades
<1>1. PICK t \in Txn : t = tx[p] /\ PointOK(t)
  BY Known
<1>2. /\ t.op \in Autocommit /\ t.leases = NoRows /\ t.at \in AutoPoints
      /\ t.op \notin {"acquire", "rotate"}
  BY <1>1 DEF LockInv, CommittedAtOnce, Autocommit
<1>3. SeenLeases(p) = lease /\ lease \in [LeaseIds -> Lease]
  BY <1>1, <1>2, OverNothing DEF SeenLeases, TxInv, TypeOK
<1>4. ASSUME NEW L, LeasesFree(p, L) \/ CredsFree(p, L)
      PROVE  \A q \in Clients \ {p} : ~Open(q)
  BY <1>4 DEF LeasesFree, CredsFree, Others
<1>5. NoRows \in RowsOf(LeaseIds, Lease) /\ NoRows \in RowsOf(Credentials, Credential)
  BY NoRowsTyped
<1>6. CASE ExpireRow(p)
  <2>1. PICK l \in t.overdue :
          /\ LeasesFree(p, {l})
          /\ Write(p, OneRow(l, [lease[l] EXCEPT !.state = "expired"]), NoRows,
                   [t EXCEPT !.overdue = t.overdue \ {l}, !.cred = lease[l].cred, !.at = "read"])
    BY <1>1, <1>3, <1>6 DEF ExpireRow
  <2>2. PICK row \in IssuedLease : row = lease[l] /\ l \in LeaseIds /\ Issued(l)
    <3>1. l \in LeaseIds /\ Issued(l)
      BY <1>1 DEF PointOK, Txn
    <3>. QED
      BY <1>3, <3>1, ActiveIssued DEF Issued
  <2> DEFINE new == [row EXCEPT !.state = "expired"]
             u == [t EXCEPT !.overdue = t.overdue \ {l}, !.cred = row.cred, !.at = "read"]
  <2>3. new \in Lease /\ new.state \notin ActiveStates \cup {"none"}
    BY DEF IssuedLease, Lease, EndStates, ActiveStates
  <2>4. u \in Txn /\ u.at \in AutoPoints /\ u.op = t.op /\ u.leases = t.leases
    BY DEF Txn, Points, IssuedLease, Nullable, AutoPoints
  <2>5. Write(p, OneRow(l, new), NoRows, u)
    BY <2>1, <2>2
  <2> HIDE DEF new, u
  <2>6. OneRow(l, new) \in RowsOf(LeaseIds, Lease)
    BY <2>2, <2>3, OneRowTyped
  <2>7. \A k \in DOMAIN OneRow(l, new) :
           Issued(k) /\ OneRow(l, new)[k].state \notin ActiveStates \cup {"none"}
    BY <2>2, <2>3 DEF OneRow
  <2>. QED
    BY <1>1, <1>2, <1>4, <1>5, <2>1, <2>4, <2>5, <2>6, <2>7, AutoWrite
<1>7. CASE ReadRow(p)
  <2>1. PICK u : u = [t EXCEPT !.rows = OneRow(t.cred, SeenCreds(p)[t.cred]), !.at = "write"]
    OBVIOUS
  <2>2. tx' = [tx EXCEPT ![p] = u] /\ UNCHANGED vars
    BY <1>1, <1>7, <2>1 DEF ReadRow, TxInv
  <2>3. u.op = t.op /\ u.leases = NoRows /\ u.at \in AutoPoints
    BY <1>2, <2>1 DEF Txn, AutoPoints
  <2>4. Fades
    BY <2>2 DEF Fades, vars
  <2>. QED
    BY <1>2, <2>2, <2>3, <2>4, OthersStay
<1>8. CASE WriteRow(p)
  <2>1. t.at = "write" /\ t.cred \in Credentials /\ t.cred \in DOMAIN t.rows
    BY <1>1, <1>8 DEF WriteRow, PointOK
  <2>2. PICK c \in Credentials : c = t.cred
    BY <2>1
  <2>3. PICK read \in Credential : read = t.rows[c]
    <3>1. t.rows \in RowsOf(Credentials, Credential)
      BY DEF Txn
    <3>. QED
      BY <2>1, <2>2, <3>1, RowsTyped
  <2>4. PICK row \in Credential : row = SeenCreds(p)[c]
    BY SeenTyped
  <2>5. PICK new \in Credential : new = Rewritten(row, read, FALSE)
    BY RewrittenType DEF TxInv
  <2>6. PICK at \in Points : at = AfterWrite(t) /\ at \in {"idle", "expire"}
    BY <1>2 DEF AfterWrite, Points
  <2> DEFINE u == [t EXCEPT !.cred = None, !.rows = NoRows, !.at = at]
  <2>7. /\ u \in Txn /\ u.op = t.op /\ u.leases = t.leases
        /\ u.at = "idle" \/ u.at \in AutoPoints
    BY <1>5, <2>6 DEF Txn, Nullable, AutoPoints
  <2>8. Write(p, NoRows, OneRow(c, new), u)
    BY <1>1, <1>8, <2>2, <2>3, <2>4, <2>5, <2>6 DEF WriteRow
  <2>9. CredsFree(p, {c})
    BY <1>1, <1>8, <2>2 DEF WriteRow
  <2> HIDE DEF u
  <2>10. OneRow(c, new) \in RowsOf(Credentials, Credential) /\ DOMAIN NoRows = {}
    BY OneRowTyped DEF NoRows
  <2>. QED
    BY <1>1, <1>2, <1>4, <1>5, <2>7, <2>8, <2>9, <2>10, AutoWrite
<1>9. CASE UpdateLease(p)
  <2>1. t.at = "update" /\ t.lease \in LeaseIds /\ Issued(t.lease)
    BY <1>1, <1>9 DEF UpdateLease, PointOK
  <2>2. PICK l \in LeaseIds : l = t.lease
    BY <2>1
  <2>3. PICK row \in IssuedLease : row = lease[l]
    BY <1>3, <2>1, <2>2, ActiveIssued DEF Issued
  <2>4. PICK new \in Lease : /\ new = Refreshed(t.op, row, l)
                            /\ new.state = row.state /\ new.cred = row.cred
    <3>1. now \in Nat /\ t.op \notin {"renew", "materialize"}
      BY <1>2 DEF TxInv, TypeOK, Autocommit
    <3>2. Refreshed(t.op, row, l) =
            [row EXCEPT !.seen = now, !.expires = row.expires, !.first = row.first]
      BY <3>1 DEF Refreshed
    <3>3. PICK r : r = Refreshed(t.op, row, l)
      OBVIOUS
    <3>4. r \in Lease /\ r.state = row.state /\ r.cred = row.cred
      BY <3>1, <3>2, <3>3 DEF IssuedLease, Lease
    <3>. QED
      BY <3>3, <3>4
  <2> DEFINE u == [t EXCEPT !.at = "idle"]
  <2>5. u \in Txn /\ u.at = "idle" /\ u.op = t.op /\ u.leases = t.leases
    BY DEF Txn, Points
  <2>6. Write(p, OneRow(l, new), NoRows, u) /\ LeasesFree(p, {l})
    BY <1>1, <1>3, <1>9, <2>2, <2>3, <2>4 DEF UpdateLease
  <2> HIDE DEF u
  <2>7. OneRow(l, new) \in RowsOf(LeaseIds, Lease)
    BY OneRowTyped
  <2>8. \A k \in DOMAIN OneRow(l, new) :
           /\ Issued(k) /\ OneRow(l, new)[k].state # "none"
           /\ OneRow(l, new)[k].state \in ActiveStates =>
                 ActiveIn(lease, k) /\ OneRow(l, new)[k].cred = lease[k].cred
    BY <2>1, <2>2, <2>3, <2>4 DEF OneRow, ActiveIn, Issued
  <2>. QED
    BY <1>1, <1>2, <1>4, <1>5, <2>5, <2>6, <2>7, <2>8, AutoWrite
<1>. QED
  BY <1>1, <1>2, <1>6, <1>7, <1>8, <1>9 DEF Proceed, ReleaseRow, ExhaustRow, RevokeRows,
     Select, CheckHeld, ReconcileRow, GrantAcquired, ChooseReplacement, Swap, AutoPoints

-----------------------------------------------------------------------------
(* How operations begin, and the theorems                                  *)

\* BEGIN IMMEDIATE: nobody else has a transaction open.
LEMMA BeginOn ==
    ASSUME TxInv, LockInv, NEW p \in Clients, \A q \in Clients : ~Open(q),
           NEW u, tx' = [tx EXCEPT ![p] = u], UNCHANGED vars,
           u.op \notin Autocommit, u.leases = NoRows, u.creds = NoRows,
           Serial(u, lease, cred)
    PROVE  LockInv'
<1>1. /\ tx \in [Clients -> Txn] /\ UNCHANGED <<lease, cred, now>>
      /\ lease \in [LeaseIds -> Lease] /\ cred \in [Credentials -> Credential]
  BY DEF TxInv, TypeOK, vars
<1>2. tx'[p] = u /\ \A q \in Clients \ {p} : tx'[q] = tx[q]
  BY <1>1
<1>3. NoDoubleLease'
  BY <1>1 DEF LockInv, NoDoubleLease, ActiveIn
<1>4. \A q \in Clients : Open(q)' => q = p
  BY <1>2 DEF Open
<1>5. CommittedAtOnce'
  BY <1>2 DEF CommittedAtOnce, LockInv
<1>6. SerialOK'
  <2>1. PICK ls \in [LeaseIds -> Lease], cs \in [Credentials -> Credential] :
           ls = lease /\ cs = cred
    BY <1>1
  <2>2. Serial(u, ls, cs)'
    BY <2>1, SerialStays
  <2>3. SeenLeases(p)' = ls /\ SeenCreds(p)' = cs
    BY <1>1, <1>2, <2>1, OverNothing DEF SeenLeases, SeenCreds
  <2>. QED
    BY <1>2, <1>4, <2>2, <2>3 DEF SerialOK
<1>. QED
  BY <1>3, <1>4, <1>5, <1>6 DEF LockInv, OneOpen

LEMMA ExpiredNone ==
    ASSUME TypeOK
    PROVE  LeasesExpired({}) = lease /\ CredsExpired({}) = cred
BY DEF TypeOK, LeasesExpired, CredsExpired

LEMMA BeginSerial ==
    ASSUME TxInv, LockInv, WriteLock, NEW p \in Clients, BeginAny(p)
    PROVE  LockInv' /\ UNCHANGED vars
<1>1. ASSUME NEW op, NEW t, Begin(p, op, t), op \notin Autocommit,
             NEW u, u = [t EXCEPT !.op = op], u.op = op,
             u.leases = NoRows, u.creds = NoRows, Serial(u, lease, cred)
      PROVE  LockInv' /\ UNCHANGED vars
  <2>1. /\ tx' = [tx EXCEPT ![p] = u] /\ UNCHANGED vars
        /\ \A q \in Clients : ~Open(q)
    BY <1>1 DEF Begin, MayBegin, Others, Open
  <2>. QED
    BY <1>1, <2>1, BeginOn
<1>2. ASSUME NEW op, NEW t, Begin(p, op, t), op \in Autocommit,
             NEW u, u = [t EXCEPT !.op = op], u.op = op,
             u.leases = NoRows, u.at \in AutoPoints
      PROVE  LockInv' /\ UNCHANGED vars
  <2>1. tx' = [tx EXCEPT ![p] = u] /\ UNCHANGED vars
    BY <1>2 DEF Begin
  <2>. QED
    BY <1>2, <2>1, OthersStay
<1>3. LeasesExpired({}) = lease /\ CredsExpired({}) = cred
  BY ExpiredNone DEF TxInv
<1>4. ASSUME NEW m \in Machines, NEW a \in Agents, BeginAcquire(p, m, a)
      PROVE  LockInv' /\ UNCHANGED vars
  <2> DEFINE t == [Idle EXCEPT !.owner = <<m, a>>, !.overdue = OverdueLeases,
                               !.at = IF OverdueLeases = {} THEN "select" ELSE "expire"]
             u == [t EXCEPT !.op = "acquire"]
  <2>1. Begin(p, "acquire", t)
    BY <1>4 DEF BeginAcquire
  <2>2. /\ u.op = "acquire" /\ u.overdue = OverdueLeases
        /\ u.at = IF OverdueLeases = {} THEN "select" ELSE "expire"
        /\ u.leases = NoRows /\ u.creds = NoRows
    BY DEF Idle
  <2> HIDE DEF u
  <2>3. CASE OverdueLeases = {}
    <3>1. /\ lease = LeasesExpired(OverdueLeases) /\ cred = CredsExpired(OverdueLeases)
          /\ u.at = "select"
      BY <1>3, <2>2, <2>3
    <3>2. Serial(u, lease, cred)
      BY <3>1 DEF Serial
    <3>. QED
      BY <1>1, <2>1, <2>2, <3>2 DEF u, Autocommit
  <2>4. CASE OverdueLeases # {}
    <3>1. ExpiringOK(u, lease, cred)
      <4>1. \E D \in SUBSET OverdueLeases :
              /\ u.overdue \subseteq OverdueLeases \ D
              /\ lease = LeasesExpired(D) /\ cred = CredsExpired(D)
              /\ D \cup u.overdue = OverdueLeases
        <5>1. {} \in SUBSET OverdueLeases
          OBVIOUS
        <5>. QED
          BY <1>3, <2>2, <5>1
      <4>. QED
        BY <2>2, <2>4, <4>1 DEF ExpiringOK
    <3>2. Serial(u, lease, cred)
      BY <2>2, <2>4, <3>1 DEF Serial
    <3>. QED
      BY <1>1, <2>1, <2>2, <3>2 DEF u, Autocommit
  <2>. QED
    BY <2>3, <2>4
<1>5. ASSUME NEW op \in {"renew", "materialize", "status"}, NEW l \in LeaseIds,
             BeginUpdate(p, op, l)
      PROVE  LockInv' /\ UNCHANGED vars
  <2>1. CASE Overdue(l) /\ Begin(p, op, [Idle EXCEPT !.overdue = {l}, !.at = "expire"])
    <3> DEFINE t == [Idle EXCEPT !.overdue = {l}, !.at = "expire"]
               u == [t EXCEPT !.op = op]
    <3>1. /\ u.op = op /\ u.overdue = {l} /\ u.at = "expire"
          /\ u.leases = NoRows /\ u.creds = NoRows
      BY DEF Idle
    <3> HIDE DEF u
    <3>2. CASE op \in {"renew", "materialize"}
      <4>1. ExpiringOK(u, lease, cred)
        <5>1. {} \in SUBSET OverdueLeases /\ l \in OverdueLeases
          BY <2>1 DEF OverdueLeases
        <5>2. /\ u.overdue \subseteq OverdueLeases \ {}
              /\ lease = LeasesExpired({}) /\ cred = CredsExpired({})
              /\ \E k \in LeaseIds : {} \cup u.overdue = {k}
          BY <1>3, <3>1, <5>1
        <5>. QED
          BY <3>1, <3>2, <5>1, <5>2 DEF ExpiringOK
      <4>2. Serial(u, lease, cred)
        BY <3>1, <3>2, <4>1 DEF Serial
      <4>. QED
        BY <1>1, <2>1, <3>1, <3>2, <4>2 DEF u, Autocommit
    <3>3. CASE op = "status"
      BY <1>2, <2>1, <3>1, <3>3 DEF u, Autocommit, AutoPoints
    <3>. QED
      BY <3>2, <3>3
  <2>2. CASE /\ ActiveIn(lease, l) /\ ~Overdue(l)
             /\ op = "renew" => lease[l].state = "active"
             /\ op # "status" => UsableForExisting(cred[lease[l].cred])
             /\ Begin(p, op, [Idle EXCEPT !.lease = l, !.at = "update"])
    <3> DEFINE t == [Idle EXCEPT !.lease = l, !.at = "update"]
               u == [t EXCEPT !.op = op]
    <3>1. /\ u.op = op /\ u.lease = l /\ u.at = "update"
          /\ u.leases = NoRows /\ u.creds = NoRows
      BY DEF Idle
    <3> HIDE DEF u
    <3>2. CASE op \in {"renew", "materialize"}
      <4>1. UpdatingOK(u, lease, cred)
        BY <2>2, <3>1, <3>2 DEF UpdatingOK
      <4>2. Serial(u, lease, cred)
        BY <3>1, <4>1 DEF Serial
      <4>. QED
        BY <1>1, <2>2, <3>1, <3>2, <4>2 DEF u, Autocommit
    <3>3. CASE op = "status"
      BY <1>2, <2>2, <3>1, <3>3 DEF u, Autocommit, AutoPoints
    <3>. QED
      BY <3>2, <3>3
  <2>. QED
    BY <1>5, <2>1, <2>2 DEF BeginUpdate
<1>6. ASSUME NEW l \in LeaseIds, BeginRelease(p, l)
      PROVE  LockInv' /\ UNCHANGED vars
  <2> DEFINE t == [Idle EXCEPT !.lease = l, !.at = "release"]
             u == [t EXCEPT !.op = "release"]
  <2>1. /\ u.op = "release" /\ u.lease = l /\ u.at = "release" /\ u.overdue = {}
        /\ u.leases = NoRows /\ u.creds = NoRows
    BY DEF Idle
  <2> HIDE DEF u
  <2>2. Serial(u, lease, cred)
    BY <1>6, <2>1 DEF Serial, BeginRelease
  <2>. QED
    BY <1>1, <1>6, <2>1, <2>2 DEF u, BeginRelease, Autocommit
<1>7. ASSUME NEW l \in LeaseIds, BeginRotate(p, l)
      PROVE  LockInv' /\ UNCHANGED vars
  <2> DEFINE t == [Idle EXCEPT !.owner = <<lease[l].machine, lease[l].agent>>,
                               !.lease = l, !.rest = Credentials, !.rows = cred, !.at = "scan"]
             u == [t EXCEPT !.op = "rotate"]
  <2>1. /\ u.op = "rotate" /\ u.lease = l /\ u.at = "scan" /\ u.rest = Credentials
        /\ u.rows = cred /\ u.owner = <<lease[l].machine, lease[l].agent>>
        /\ u.leases = NoRows /\ u.creds = NoRows
    BY DEF Idle
  <2> HIDE DEF u
  <2>2. ScanLeases(u) = lease /\ ScanCreds(u) = cred
    BY <2>1 DEF ScanLeases, ScanCreds
  <2>3. ScanningOK(u, lease) /\ ScannedOK(u, lease, cred)
    BY <1>7, <2>1, <2>2 DEF BeginRotate, ScanningOK, ScannedOK
  <2>4. Serial(u, lease, cred)
    BY <2>1, <2>3 DEF Serial
  <2>. QED
    BY <1>1, <1>7, <2>1, <2>4 DEF u, BeginRotate, Autocommit
<1>8. ASSUME NEW c \in Credentials, BeginExhaust(p, c)
      PROVE  LockInv' /\ UNCHANGED vars
  <2> DEFINE t == [Idle EXCEPT !.cred = c, !.at = "exhaust"]
             u == [t EXCEPT !.op = "exhaust"]
  <2>1. /\ u.op = "exhaust" /\ u.at = "exhaust"
        /\ u.leases = NoRows /\ u.creds = NoRows
    BY DEF Idle
  <2> HIDE DEF u
  <2>2. Serial(u, lease, cred)
    BY <2>1 DEF Serial
  <2>. QED
    BY <1>1, <1>8, <2>1, <2>2 DEF u, BeginExhaust, Autocommit
<1>9. ASSUME BeginReconcile(p)
      PROVE  LockInv' /\ UNCHANGED vars
  <2> DEFINE t == [Idle EXCEPT !.overdue = OverdueLeases, !.at = "expire"]
             u == [t EXCEPT !.op = "reconcile"]
  <2>1. u.op = "reconcile" /\ u.at = "expire" /\ u.leases = NoRows
    BY DEF Idle
  <2> HIDE DEF u
  <2>. QED
    BY <1>2, <1>9, <2>1 DEF u, BeginReconcile, Autocommit, AutoPoints
<1>. QED
  BY <1>4, <1>5, <1>6, <1>7, <1>8, <1>9 DEF BeginAny

LEMMA AbortSerial ==
    ASSUME TxInv, LockInv, NEW p \in Clients, DetectDeadlock(p) \/ Crash(p)
    PROVE  LockInv' /\ UNCHANGED vars
<1>1. tx' = [tx EXCEPT ![p] = Idle] /\ UNCHANGED vars
  BY DEF DetectDeadlock, Crash
<1>2. Idle.at = "idle" /\ Idle.op \notin Autocommit
  BY DEF Idle, Autocommit
<1>. QED
  BY <1>1, <1>2, OthersStay

\* The steps of those that find nobody in a transaction.
LEMMA AloneSerial ==
    ASSUME LockInv, \A p \in Clients : ~Open(p), UNCHANGED <<lease, tx>>
    PROVE  LockInv'
<1>1. \A p \in Clients : ~Open(p)'
  BY DEF Open
<1>. QED
  BY <1>1 DEF LockInv, NoDoubleLease, ActiveIn, OneOpen, CommittedAtOnce, SerialOK

LEMMA LockStep ==
    ASSUME WriteLock, TxInv, LockInv, [TxNext]_txVars
    PROVE  LockInv' /\ ([Next]_vars \/ (AutocommitStep /\ Fades))
<1>1. ASSUME NEW p \in Clients, BeginAny(p)
      PROVE  LockInv' /\ [Next]_vars
  BY <1>1, BeginSerial
<1>2. ASSUME NEW p \in Clients, Proceed(p)
      PROVE  LockInv' /\ ([Next]_vars \/ (AutocommitStep /\ Fades))
  <2>1. CASE Open(p)
    BY <1>2, <2>1, OpenSerial
  <2>2. CASE tx[p].op \in Autocommit
    BY <1>2, <2>2, AutoSerial DEF AutocommitStep
  <2>3. tx[p].at # "idle"
    BY <1>2 DEF Proceed, ExpireRow, ReadRow, WriteRow, UpdateLease, ReleaseRow, ExhaustRow,
       RevokeRows, Select, CheckHeld, ReconcileRow, GrantAcquired, ChooseReplacement, Swap
  <2>. QED
    BY <2>1, <2>2, <2>3 DEF Open
<1>3. ASSUME NEW p \in Clients, DetectDeadlock(p) \/ Crash(p)
      PROVE  LockInv' /\ [Next]_vars
  BY <1>3, AbortSerial
<1>4. ASSUME NEW c \in Credentials, NEW reading \in Readings, SyncRow(c, reading)
      PROVE  LockInv' /\ [Next]_vars
  <2>1. (\A p \in Clients : ~Open(p)) /\ UNCHANGED tx
    BY <1>4 DEF SyncRow
  <2>2. Next /\ UNCHANGED lease
    BY <1>4, SyncRowNext
  <2>. QED
    BY <2>1, <2>2, AloneSerial
<1>5. CASE TxTick
  <2>1. (\A p \in Clients : ~Open(p)) /\ UNCHANGED <<lease, tx>>
    BY <1>5 DEF TxTick, Tick, Open, Idle
  <2>2. Next
    BY <1>5 DEF TxTick, Next
  <2>. QED
    BY <2>1, <2>2, AloneSerial
<1>6. CASE UNCHANGED txVars
  <2>1. UNCHANGED vars /\ UNCHANGED tx
    BY <1>6 DEF txVars, vars
  <2>2. LockInv'
    <3>1. UNCHANGED <<lease, cred, now, tx>>
      BY <1>6 DEF txVars
    <3>2. SerialOK'
      <4>1. SUFFICES ASSUME NEW q \in Clients, Open(q)'
                     PROVE  Serial(tx[q], SeenLeases(q), SeenCreds(q))'
        BY DEF SerialOK
      <4>2. PICK t, ls, cs : t = tx[q] /\ ls = SeenLeases(q) /\ cs = SeenCreds(q)
        OBVIOUS
      <4>3. Serial(t, ls, cs)
        BY <3>1, <4>1, <4>2 DEF LockInv, SerialOK, Open
      <4>4. Serial(t, ls, cs)'
        BY <2>1, <4>3, SerialStays
      <4>. QED
        BY <3>1, <4>2, <4>4 DEF SeenLeases, SeenCreds
    <3>. QED
      BY <3>1, <3>2 DEF LockInv, NoDoubleLease, ActiveIn, OneOpen, CommittedAtOnce, Open
  <2>. QED
    BY <2>1, <2>2
<1>. QED
  BY <1>1, <1>2, <1>3, <1>4, <1>5, <1>6 DEF TxNext

LEMMA LockInit ==
    ASSUME TxInit
    PROVE  LockInv
<1>1. \A p \in Clients : tx[p] = Idle
  BY DEF TxInit
<1>2. \A p \in Clients : ~Open(p) /\ tx[p].op \notin Autocommit
  BY <1>1 DEF Open, Idle, Autocommit
<1>3. NoDoubleLease
  BY DEF TxInit, Init, NoDoubleLease, ActiveIn, NoLease, ActiveStates
<1>. QED
  BY <1>2, <1>3 DEF LockInv, OneOpen, CommittedAtOnce, SerialOK

\* Under SQLite's write lock the statements of a transaction, with the
\* crashes between them, commit exactly one step of LeaseBroker or nothing;
\* only the reconcile task and the status read commit row by row.
THEOREM Serialised ==
    ASSUME WriteLock
    PROVE  TxSpec => Serialisable
<1>1. TxInit => TxInv /\ LockInv
  BY TxInit0, LockInit
<1>2. TxInv /\ LockInv /\ [TxNext]_txVars => TxInv' /\ LockInv'
  BY TxStep, LockStep
<1>3. TxInv /\ LockInv /\ [TxNext]_txVars => [Next \/ AutocommitStep]_vars
  BY LockStep
<1>. QED
  BY <1>1, <1>2, <1>3, PTL DEF TxSpec, Serialisable

\* And so no two leases on one credential are ever committed, although the
\* calls in autocommit write rows between the transactions of others.
THEOREM ExclusionKept ==
    ASSUME WriteLock
    PROVE  TxSpec => []NoDoubleLease
<1>1. TxInit => TxInv /\ LockInv
  BY TxInit0, LockInit
<1>2. TxInv /\ LockInv /\ [TxNext]_txVars => TxInv' /\ LockInv'
  BY TxStep, LockStep
<1>3. LockInv => NoDoubleLease
  BY DEF LockInv
<1>. QED
  BY <1>1, <1>2, <1>3, PTL DEF TxSpec

\* So what is committed is, at every moment, the abstract pool of exclusive
\* leases: a statement in autocommit that ends a lease another client ended
\* before, in another way, changes nothing that the pool knows.
THEOREM CommitsImplementPool ==
    ASSUME WriteLock
    PROVE  TxSpec => ImplementsPool
<1>1. TxInit => TxInv /\ LockInv
  BY TxInit0, LockInit
<1>2. TxInv /\ LockInv /\ [TxNext]_txVars => TxInv' /\ LockInv'
  BY TxStep, LockStep
<1>3. TxInit => Pool!Init
  BY PoolInit DEF TxInit
<1>4. TxInv /\ LockInv /\ [TxNext]_txVars => [Pool!Next]_(Pool!vars)
  <2>1. ASSUME TxInv, LockInv, [TxNext]_txVars
        PROVE  Pool!Next
    BY <2>1, LockStep, PoolStep, PoolEnds DEF TxInv
  <2>. QED
    BY <2>1
<1>. QED
  BY <1>1, <1>2, <1>3, <1>4, PTL DEF TxSpec, ImplementsPool, Pool!Spec
=============================================================================
