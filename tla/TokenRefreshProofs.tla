------------------------- MODULE TokenRefreshProofs -------------------------
(* The properties of TokenRefresh for any number of API workers, refresh      *)
(* workers, labels, accounts, generations, faults and requests.               *)
(*                                                                            *)
(* The invariant speaks of the set K of all auths granted so far.  It says    *)
(* how every spent generation still in use is explained: by a worker that has *)
(* spent it and not yet replaced it, or by the histories.                     *)
EXTENDS TokenRefresh, FiniteSetTheorems, NaturalsInduction, TLAPS

-----------------------------------------------------------------------------
(* Labels and rows                                                           *)

LEMMA FirstIn ==
    ASSUME NEW S, S \subseteq Labels, S # {}
    PROVE  First(S) \in S /\ \A m \in S : First(S) <= m
<1> DEFINE R == {p \in Nat \X Nat : p[1] < p[2]}
<1>1. IsWellFoundedOn(R, Nat)
  BY NatLessThanWellFounded DEF OpToRel
<1>2. S \subseteq Nat
  BY ProfilesAssumption
<1>3. \E l \in S : \A m \in S : <<m, l>> \notin R
  <2> HIDE DEF R
  <2>. QED
    BY <1>1, <1>2, WFMin
<1>4. \A l, m \in Nat : <<m, l>> \notin R => l <= m
  OBVIOUS
<1>5. \E l \in S : \A m \in S : l <= m
  <2> HIDE DEF R
  <2>. QED
    BY <1>2, <1>3, <1>4
<1>. QED
  BY <1>5 DEF First

LEMMA ListedIn ==
    ASSUME NEW pr, NEW al, NEW a, Saved(pr, a)
    PROVE  Listed(pr, al, a) \in Holding(pr, a)
<1>1. Holding(pr, a) \subseteq Labels /\ Holding(pr, a) # {}
  BY DEF Holding, Used, Saved
<1>2. First(Holding(pr, a)) \in Holding(pr, a)
  BY <1>1, FirstIn
<1>. QED
  BY <1>2 DEF Listed

LEMMA DedupedUsed ==
    ASSUME NEW pr, NEW al
    PROVE  Deduped(pr, al) \subseteq Used(pr)
BY ListedIn DEF Deduped, Holding

\* Rows, tables and records of auths out of K.
RowsOf(K) == {row \in Row : AuthOf(row) \in K}

Tables(K) == [Labels -> RowsOf(K) \cup {None}]

LEMMA RowFacts ==
    ASSUME NEW K, K \subseteq Auth
    PROVE  /\ None \notin K /\ None \notin RowsOf(K)
           /\ \A row \in RowsOf(K) : /\ AuthOf(row) \in K
                                     /\ AuthOf(row).gen = row.gen /\ AuthOf(row).acct = row.acct
                                     /\ row.gen \in Gens /\ row.acct \in Accounts
                                     /\ row.reauth \in BOOLEAN
           /\ \A a \in K : a.gen \in Gens /\ a.acct \in Accounts
           /\ \A a \in K, flag \in BOOLEAN :
                 [acct |-> a.acct, gen |-> a.gen, reauth |-> flag] \in RowsOf(K)
<1>1. \A a \in K, flag \in BOOLEAN :
         AuthOf([acct |-> a.acct, gen |-> a.gen, reauth |-> flag]) = a
  BY DEF AuthOf, Auth
<1>. QED
  BY <1>1, ProfilesAssumption DEF RowsOf, Row, AuthOf, Auth

LEMMA TableUpsert ==
    ASSUME NEW K, K \subseteq Auth, NEW pr \in Tables(K), NEW l \in Labels, NEW a \in K,
           NEW flag \in BOOLEAN
    PROVE  Upsert(pr, l, a, flag) \in Tables(K)
BY RowFacts DEF Upsert, Tables

LEMMA TableReauth ==
    ASSUME NEW K, K \subseteq Auth, NEW pr \in Tables(K), NEW l \in Labels, NEW flag \in BOOLEAN
    PROVE  SetReauth(pr, l, flag) \in Tables(K)
<1>1. CASE pr[l] # None
  <2>1. pr[l] \in RowsOf(K) /\ pr[l] \in Row
    BY <1>1 DEF Tables, RowsOf
  <2>2. [pr[l] EXCEPT !.reauth = flag] \in Row
        /\ AuthOf([pr[l] EXCEPT !.reauth = flag]) = AuthOf(pr[l])
    BY <2>1 DEF Row, AuthOf
  <2>3. [pr[l] EXCEPT !.reauth = flag] \in RowsOf(K)
    BY <2>1, <2>2 DEF RowsOf
  <2>. QED
    BY <1>1, <2>3 DEF SetReauth, Tables
<1>. QED
  BY <1>1 DEF SetReauth

LEMMA TableDelete ==
    ASSUME NEW K, NEW pr \in Tables(K), NEW l
    PROVE  [pr EXCEPT ![l] = None] \in Tables(K)
BY DEF Tables

LEMMA TableGrows ==
    ASSUME NEW K, NEW K2, K \subseteq K2
    PROVE  RowsOf(K) \subseteq RowsOf(K2) /\ Tables(K) \subseteq Tables(K2)
BY DEF RowsOf, Tables

-----------------------------------------------------------------------------
(* The invariant                                                             *)

Spending == {"granted", "store", "store_both"}
Busy == Spending \cup {"await"}

Knows(K, n) ==
    /\ K \subseteq Auth
    /\ \A a, b \in K : a.gen = b.gen => a = b
    /\ \A a \in K : a.gen <= n

ApiRec(K) ==
    [ op : {"import", "relay", "save", "reconcile", "switch", "limits", "delete", "rename", None},
      pc : ApiSteps, label : Labels \cup {None},
      auth : K \cup {NoAuth} \cup [acct : {None}, gen : Labels],
      got : K \cup {NoAuth, None} ]

\* What a handler has in hand before a step, with ac the active auth.
ApiFit(K, s, ac) ==
    /\ s.pc \in {"publish", "choose", "write_active", "read_active", "save", "track",
                 "set_label", "dedupe"}
          => s.auth \in K \/ (s.pc = "choose" /\ s.op = "relay")
    /\ s.pc \in {"save", "copy"} => s.got \in K
    /\ s.pc \notin {"idle", "publish", "choose"} => s.label \in Labels
    /\ s.pc \in {"move", "relabel"} => s.auth.gen \in Labels
    /\ s.pc = "read_active" \/ (s.pc = "choose" /\ s.op = "relay") => ac # None

RefRec(K) ==
    [ pc : RefSteps, queue : SUBSET [label : Labels, row : RowsOf(K)],
      label : Labels \cup {None}, seen : 0..MaxGen, sent : K \cup {NoAuth},
      auth : K \cup {NoAuth} ]

RefFit(K, t) ==
    /\ t.pc \notin {"idle", "next"} => t.label \in Labels
    /\ t.pc \in Busy \cup {"refused"} => t.sent \in K
    /\ t.pc \in Spending => t.auth \in K /\ t.sent.gen < t.auth.gen
    /\ t.pc = "copy" => t.auth \in K

Twice(S) == \E x, y \in S : x # y

\* The histories tell why a generation is spent.
Told(g) == g \in lost \cup stale \/ Twice(seats[g])

Typed(K) ==
    /\ Knows(K, minted)
    /\ minted \in 0..MaxGen /\ aged \in 0..minted /\ live \subseteq 1..minted
    /\ served \in 0..MaxRequests /\ faults \in 0..MaxFaults
    /\ profiles \in Tables(K) /\ active \in K \cup {None} /\ activeLabel \in Labels \cup {None}
    /\ lost \subseteq Gens /\ stale \subseteq Gens /\ seats \in [Gens -> SUBSET Labels]

Handlers(K) ==
    /\ api \in [ApiWorkers -> ApiRec(K)]
    /\ \A w \in ApiWorkers : ApiFit(K, api[w], active)

Loops(K) ==
    /\ ref \in [Refreshers -> RefRec(K)]
    /\ \A r \in Refreshers : RefFit(K, ref[r])

\* The lock of a label.
Alone ==
    \A q, r \in Refreshers :
        ref[q].pc \in Busy /\ ref[r].pc \in Busy /\ ref[q].label = ref[r].label => q = r

Seated ==
    /\ \A l \in Labels : profiles[l] # None => l \in seats[profiles[l].gen]
    /\ \A r \in Refreshers : ref[r].pc \in Busy => ref[r].label \in seats[ref[r].sent.gen]

RowsExplained ==
    \A l \in Labels : profiles[l] # None =>
        \/ profiles[l].gen \in live \/ Told(profiles[l].gen)
        \/ \E r \in Refreshers : /\ ref[r].pc \in Spending /\ ref[r].label = l
                                 /\ ref[r].sent.gen = profiles[l].gen

AsksExplained ==
    \A r \in Refreshers :
        ref[r].pc \in {"await", "refused"} => ref[r].sent.gen \in live \/ Told(ref[r].sent.gen)

ActiveExplained ==
    active # None =>
        \/ active.gen \in live \cup lost \cup stale
        \/ \E r \in Refreshers : ref[r].pc \in {"granted", "store_both"} /\ ref[r].sent = active

\* What a worker knows when it marks a profile.
Verdict(t) ==
    /\ t.pc = "refused" => t.sent.gen \notin live
    /\ t.pc = "flag" /\ t.seen <= t.sent.gen /\ t.sent.gen <= t.auth.gen
          => t.auth.gen \notin live

Inv(K) ==
    /\ Typed(K) /\ Handlers(K) /\ Loops(K) /\ Alone /\ Seated
    /\ RowsExplained /\ AsksExplained /\ ActiveExplained
    /\ \A r \in Refreshers : Verdict(ref[r])

IInv == \E K \in SUBSET Auth : Inv(K)

-----------------------------------------------------------------------------
(* What a step writes                                                        *)

\* The tables after a step that files auths of K only.
Rewritten(K) ==
    /\ profiles' \in Tables(K) /\ active' \in K \cup {None}
    /\ seats' \in [Gens -> SUBSET Labels] /\ \A g \in Gens : seats[g] \subseteq seats'[g]
    /\ stale \subseteq stale' /\ stale' \subseteq Gens
    /\ \A l \in Labels : profiles'[l] # None =>
          /\ l \in seats'[profiles'[l].gen]
          /\ \/ profiles[l] # None /\ profiles[l].gen = profiles'[l].gen
             \/ profiles'[l].gen \in live \cup stale'
    /\ \/ active' = active
       \/ active' # None /\ active'.gen \in live \cup stale'

LEMMA Untouched ==
    ASSUME NEW K, NEW K2, K \subseteq K2, Typed(K), Seated,
           UNCHANGED <<profiles, active, stale, seats>>
    PROVE  Rewritten(K2)
BY TableGrows DEF Rewritten, Typed, Seated

LEMMA Filed ==
    ASSUME NEW K, NEW K2, K2 \subseteq Auth, Typed(K), NEW table \in Tables(K2),
           NEW ac \in K2 \cup {None}, ac = None => active = None, File(table, ac)
    PROVE  Rewritten(K2)
<1> DEFINE written == {table[l].gen : l \in {m \in Used(table) :
                          profiles[m] = None \/ profiles[m].gen # table[m].gen}}
                      \cup (IF ac \in {None, active} THEN {} ELSE {ac.gen})
<1>1. /\ profiles' = table /\ active' = ac
      /\ seats' = [g \in Gens |-> seats[g] \cup {l \in Used(table) : table[l].gen = g}]
      /\ stale' = stale \cup (written \ live)
  BY DEF File
<1>2. \A l \in Labels : table[l] # None => table[l].gen \in Gens
  BY RowFacts DEF Tables
<1>3. ac # None => ac.gen \in Gens
  BY RowFacts
<1>4. written \subseteq Gens
  BY <1>2, <1>3 DEF Used
<1>5. \A l \in Labels : table[l] # None =>
         /\ l \in seats'[table[l].gen]
         /\ \/ profiles[l] # None /\ profiles[l].gen = table[l].gen
            \/ table[l].gen \in written
  BY <1>1, <1>2 DEF Used
<1>6. ac = active \/ (ac # None /\ ac.gen \in written)
  OBVIOUS
<1>7. seats' \in [Gens -> SUBSET Labels] /\ \A g \in Gens : seats[g] \subseteq seats'[g]
  BY <1>1 DEF Typed, Used
<1> HIDE DEF written
<1>8. stale' \subseteq Gens /\ stale \subseteq stale' /\ written \subseteq live \cup stale'
  BY <1>1, <1>4 DEF Typed
<1>. QED
  BY <1>1, <1>5, <1>6, <1>7, <1>8 DEF Rewritten

-----------------------------------------------------------------------------
(* Steps that spend nothing                                                  *)

\* The provider grants or does nothing.
Grants(K) ==
    /\ Knows(K, minted') /\ minted <= minted' /\ minted' \in 0..MaxGen /\ aged' \in 0..minted'
    /\ live \subseteq live' /\ live' \subseteq live \cup (minted + 1)..minted'

\* What passes on beside the tables and the processes.
Further(K) ==
    /\ Grants(K)
    /\ served' \in 0..MaxRequests /\ faults' \in 0..MaxFaults
    /\ lost \subseteq lost' /\ lost' \subseteq Gens
    /\ activeLabel' \in Labels \cup {None}

\* The worker sends the tokens it has just read, and alone holds the lock.
Asks(q) ==
    /\ ref'[q].pc = "await" /\ ref[q].pc \notin Busy
    /\ ref'[q].label \in Labels /\ profiles[ref'[q].label] # None
    /\ ref'[q].sent = AuthOf(profiles[ref'[q].label])
    /\ \A p \in Refreshers \ {q} : ref[p].pc \in Busy => ref[p].label # ref'[q].label

\* What a step does to a refresh worker.
SpenderGoes(q) ==
    ref[q].pc \in Spending =>
        \/ /\ ref'[q].pc \in Spending /\ ref'[q].label = ref[q].label /\ ref'[q].sent = ref[q].sent
           /\ ref[q].pc \in {"granted", "store_both"} /\ ref[q].sent = active'
                 => ref'[q].pc \in {"granted", "store_both"}
        \/ ref[q].sent.gen \in lost'
        \/ /\ profiles'[ref[q].label] = None \/ profiles'[ref[q].label].gen # ref[q].sent.gen
           /\ ref[q].pc \in {"granted", "store_both"} => active' # ref[q].sent

Goes(q) ==
    /\ SpenderGoes(q)
    /\ ref'[q].pc \in Busy =>
          \/ ref[q].pc \in Busy /\ ref'[q].label = ref[q].label /\ ref'[q].sent = ref[q].sent
          \/ Asks(q)
    /\ ref'[q].pc \in {"await", "refused"} =>
          \/ ref[q].pc \in {"await", "refused"} /\ ref'[q].sent = ref[q].sent
          \/ Asks(q)
    /\ Verdict(ref'[q])
    /\ ref'[q].pc = "refused" => ref'[q].sent.gen \in 0..minted
    /\ ref'[q].pc = "flag" => ref'[q].auth.gen \in 0..minted

OneMoves == \A p, q \in Refreshers : ref'[p] # ref[p] /\ ref'[q] # ref[q] => p = q

\* What the histories tell they tell for good.
LEMMA ToldStays ==
    ASSUME NEW K, Rewritten(K), lost \subseteq lost', NEW g \in Gens, Told(g)
    PROVE  Told(g)'
BY DEF Told, Twice, Rewritten

LEMMA Moved ==
    ASSUME NEW K, NEW K2, Inv(K), K \subseteq K2, Further(K2), Rewritten(K2), OneMoves,
           Handlers(K2)', Loops(K2)', \A q \in Refreshers : Goes(q)
    PROVE  Inv(K2)'
<1>1. K \subseteq Auth /\ K2 \subseteq Auth
  BY DEF Inv, Typed, Further, Grants, Knows
<1>2. Typed(K2)'
  BY DEF Further, Grants, Rewritten, Typed, Inv
<1>3. \A g \in Gens : Told(g) => Told(g)'
  BY ToldStays DEF Further, Grants
<1>4. \A l \in Labels : profiles[l] # None =>
         /\ profiles[l] \in RowsOf(K) /\ profiles[l].gen \in Gens /\ AuthOf(profiles[l]) \in K
         /\ AuthOf(profiles[l]).gen = profiles[l].gen
  BY <1>1, RowFacts DEF Inv, Typed, Tables
<1>5. \A r \in Refreshers : ref[r].pc \in Busy \cup {"refused"} =>
         ref[r].sent \in K /\ ref[r].sent.gen \in Gens /\ ref[r].label \in Labels
  BY <1>1, RowFacts DEF Inv, Loops, RefFit, Busy, Spending
<1>6. Alone'
  <2> SUFFICES ASSUME NEW p \in Refreshers, NEW q \in Refreshers, ref'[p].pc \in Busy,
                      ref'[q].pc \in Busy, ref'[p].label = ref'[q].label, p # q
               PROVE  FALSE
    BY DEF Alone
  <2>1. ref'[p] = ref[p] \/ ref'[q] = ref[q]
    BY DEF OneMoves
  <2>2. ASSUME NEW x \in Refreshers, NEW y \in Refreshers, x # y, ref'[x] = ref[x],
               ref'[x].pc \in Busy, ref'[y].pc \in Busy, ref'[x].label = ref'[y].label
        PROVE  FALSE
    <3>1. CASE Asks(y)
      BY <2>2, <3>1 DEF Asks
    <3>2. CASE ref[y].pc \in Busy /\ ref'[y].label = ref[y].label
      BY <2>2, <3>2 DEF Inv, Alone
    <3>. QED
      BY <2>2, <3>1, <3>2 DEF Goes
  <2>. QED
    BY <2>1, <2>2
<1>7. Seated'
  <2>1. ASSUME NEW r \in Refreshers, ref'[r].pc \in Busy
        PROVE  ref'[r].label \in seats'[ref'[r].sent.gen]
    <3>1. CASE Asks(r)
      <4>1. ref'[r].label \in seats[ref'[r].sent.gen] /\ ref'[r].sent.gen \in Gens
        BY <1>4, <3>1 DEF Asks, Inv, Seated
      <4>. QED
        BY <4>1 DEF Rewritten
    <3>2. CASE ref[r].pc \in Busy /\ ref'[r].label = ref[r].label /\ ref'[r].sent = ref[r].sent
      BY <1>5, <3>2 DEF Rewritten, Inv, Seated
    <3>. QED
      BY <2>1, <3>1, <3>2 DEF Goes
  <2>2. \A l \in Labels : profiles'[l] # None => l \in seats'[profiles'[l].gen]
    BY DEF Rewritten
  <2>. QED
    BY <2>1, <2>2 DEF Seated
<1>8. RowsExplained'
  <2> SUFFICES ASSUME NEW l \in Labels, profiles'[l] # None
               PROVE  \/ profiles'[l].gen \in live' \/ Told(profiles[l].gen)'
                      \/ \E r \in Refreshers : /\ ref'[r].pc \in Spending /\ ref'[r].label = l
                                               /\ ref'[r].sent.gen = profiles'[l].gen
    BY DEF RowsExplained
  <2>1. CASE profiles'[l].gen \in live \cup stale'
    BY <2>1 DEF Further, Grants, Told
  <2>2. CASE profiles[l] # None /\ profiles[l].gen = profiles'[l].gen
    <3>1. PICK g \in Gens : g = profiles[l].gen
      BY <1>4, <2>2
    <3>2. CASE g \in live \/ Told(g)
      <4>1. g \in live' \/ Told(g)'
        BY <1>3, <3>2 DEF Further, Grants
      <4>. QED
        BY <2>2, <3>1, <4>1 DEF Told
    <3>3. ASSUME NEW r \in Refreshers, ref[r].pc \in Spending, ref[r].label = l,
                 ref[r].sent.gen = g
          PROVE  \/ g \in lost'
                 \/ ref'[r].pc \in Spending /\ ref'[r].label = l /\ ref'[r].sent.gen = g
      BY <2>2, <3>1, <3>3 DEF Goes, SpenderGoes
    <3>. QED
      BY <2>2, <3>1, <3>2, <3>3 DEF Inv, RowsExplained, Told
  <2>. QED
    BY <2>1, <2>2 DEF Rewritten
<1>9. AsksExplained'
  <2> SUFFICES ASSUME NEW r \in Refreshers, ref'[r].pc \in {"await", "refused"}
               PROVE  ref'[r].sent.gen \in live' \/ Told(ref[r].sent.gen)'
    BY DEF AsksExplained
  <2>1. PICK g : g = ref'[r].sent.gen
    OBVIOUS
  <2>2. g \in Gens /\ (g \in live \/ Told(g))
    <3>1. CASE Asks(r)
      <4>1. \A p \in Refreshers : ref[p].pc \in Spending => ref[p].label # ref'[r].label
        BY <3>1 DEF Asks, Busy
      <4>. QED
        BY <1>4, <2>1, <3>1, <4>1 DEF Asks, Inv, RowsExplained
    <3>2. CASE ref[r].pc \in {"await", "refused"} /\ ref'[r].sent = ref[r].sent
      BY <1>5, <2>1, <3>2 DEF Inv, AsksExplained, Busy
    <3>. QED
      BY <3>1, <3>2 DEF Goes
  <2>3. g \in live' \/ Told(g)'
    BY <1>3, <2>2 DEF Further, Grants
  <2>. QED
    BY <2>1, <2>3 DEF Told
<1>10. ActiveExplained'
  <2> SUFFICES ASSUME active' # None
               PROVE  \/ active'.gen \in live' \cup lost' \cup stale'
                      \/ \E r \in Refreshers : /\ ref'[r].pc \in {"granted", "store_both"}
                                               /\ ref'[r].sent = active'
    BY DEF ActiveExplained
  <2>1. CASE active'.gen \in live \cup stale'
    BY <2>1 DEF Further, Grants
  <2>2. CASE active' = active
    <3>1. CASE active.gen \in live \cup lost \cup stale
      BY <2>2, <3>1 DEF Further, Grants, Rewritten
    <3>2. ASSUME NEW r \in Refreshers, ref[r].pc \in {"granted", "store_both"},
                 ref[r].sent = active
          PROVE  \/ active'.gen \in lost'
                 \/ ref'[r].pc \in {"granted", "store_both"} /\ ref'[r].sent = active'
      BY <2>2, <3>2 DEF Goes, SpenderGoes, Spending
    <3>. QED
      BY <2>2, <3>1, <3>2 DEF Inv, ActiveExplained
  <2>. QED
    BY <2>1, <2>2 DEF Rewritten
<1>11. \A r \in Refreshers : Verdict(ref[r])'
  <2>1. \A g \in 0..minted : g \notin live => g \notin live'
    BY DEF Further, Grants, Inv, Typed
  <2>. QED
    BY <2>1 DEF Goes, Verdict
<1>. QED
  BY <1>2, <1>6, <1>7, <1>8, <1>9, <1>10, <1>11 DEF Inv

-----------------------------------------------------------------------------
(* The processes                                                             *)

LEMMA OneMore ==
    ASSUME NEW K, NEW n \in Nat, Knows(K, n), NEW a \in Auth, a.gen = n + 1
    PROVE  Knows(K \cup {a}, n + 1)
<1>1. \A b \in K : b.gen \in Nat /\ b.gen <= n
  BY ProfilesAssumption DEF Knows, Auth, Gens
<1>. QED
  BY <1>1 DEF Knows

LEMMA FitsMore ==
    ASSUME NEW K, NEW K2, K \subseteq K2
    PROVE  /\ ApiRec(K) \subseteq ApiRec(K2) /\ RefRec(K) \subseteq RefRec(K2)
           /\ \A s, ac, ac2 : ApiFit(K, s, ac) /\ (ac # None => ac2 # None) => ApiFit(K2, s, ac2)
           /\ \A t : RefFit(K, t) => RefFit(K2, t)
<1>1. RowsOf(K) \subseteq RowsOf(K2)
  BY TableGrows
<1>2. ApiRec(K) \subseteq ApiRec(K2)
  BY DEF ApiRec
<1>3. RefRec(K) \subseteq RefRec(K2)
  BY <1>1 DEF RefRec
<1>. QED
  BY <1>2, <1>3 DEF ApiFit, RefFit

LEMMA HandlersMove ==
    ASSUME NEW K, NEW K2, K \subseteq K2, Handlers(K), active # None => active' # None,
           NEW w \in ApiWorkers, NEW s \in ApiRec(K2), ApiFit(K2, s, active'),
           api' = [api EXCEPT ![w] = s]
    PROVE  Handlers(K2)'
BY FitsMore DEF Handlers

LEMMA HandlersStay ==
    ASSUME NEW K, NEW K2, K \subseteq K2, Handlers(K), active # None => active' # None,
           UNCHANGED api
    PROVE  Handlers(K2)'
BY FitsMore DEF Handlers

LEMMA LoopsMove ==
    ASSUME NEW K, NEW K2, K \subseteq K2, Loops(K),
           NEW r \in Refreshers, NEW t \in RefRec(K2), RefFit(K2, t),
           ref' = [ref EXCEPT ![r] = t]
    PROVE  /\ Loops(K2)' /\ ref'[r] = t
           /\ \A q \in Refreshers : q # r => ref'[q] = ref[q]
BY FitsMore DEF Loops

LEMMA LoopsStay ==
    ASSUME NEW K, NEW K2, K \subseteq K2, Loops(K), UNCHANGED ref
    PROVE  Loops(K2)'
BY FitsMore DEF Loops

-----------------------------------------------------------------------------
(* The step that spends a token                                              *)

LEMMA Spent ==
    ASSUME NEW K, Inv(K), NEW r \in Refreshers, Spend(r),
           UNCHANGED <<db, aged, api, served, stale, seats>>,
           faults' \in 0..MaxFaults, lost \subseteq lost', lost' \subseteq Gens,
           NEW a, a = Granted(ref[r].sent.acct),
           NEW t \in RefRec(K \cup {a}), RefFit(K \cup {a}, t), ref' = [ref EXCEPT ![r] = t],
           \/ t.pc = "granted" /\ t.sent = ref[r].sent /\ t.label = ref[r].label
           \/ t.pc = "failed" /\ ref[r].sent.gen \in lost'
    PROVE  Inv(K \cup {a})'
<1> DEFINE K2 == K \cup {a}
<1>1. PICK s : s = ref[r].sent
  OBVIOUS
<1>2. /\ ref[r].pc = "await" /\ s.gen \in live /\ minted < MaxGen /\ minted' = minted + 1
      /\ live' = (live \ {s.gen}) \cup {minted + 1}
  BY <1>1 DEF Spend
<1>3. s \in K /\ ref[r].label \in Labels /\ K \subseteq Auth /\ s.acct \in Accounts /\ s.gen \in Gens
  BY <1>1, <1>2, RowFacts DEF Inv, Loops, RefFit, Busy, Typed, Knows
<1>4. minted \in Nat /\ minted + 1 \in Gens /\ minted + 1 \in 0..MaxGen /\ MaxGen \in Nat
  BY <1>2, ProfilesAssumption DEF Inv, Typed, Gens
<1>5. a \in Auth /\ a.gen = minted + 1
  BY <1>1, <1>3, <1>4 DEF Granted, Auth
<1>6. Knows(K2, minted')
  BY <1>2, <1>4, <1>5, OneMore DEF Inv, Typed
<1>7. /\ Loops(K2)' /\ ref'[r] = t /\ \A q \in Refreshers : q # r => ref'[q] = ref[q]
  BY LoopsMove DEF Inv
<1>8. Handlers(K2)'
  BY HandlersStay DEF Inv, db
<1> HIDE DEF K2
<1>9. Typed(K2)'
  <2>1. profiles \in Tables(K2) /\ active \in K2 \cup {None}
    BY TableGrows DEF Inv, Typed, K2
  <2>2. live \subseteq 1..minted /\ aged \in 0..minted
    BY DEF Inv, Typed
  <2>3. 1..minted \subseteq 1..(minted + 1) /\ minted + 1 \in 1..(minted + 1)
        /\ 0..minted \subseteq 0..(minted + 1)
    BY <1>4
  <2>4. live' \subseteq 1..minted' /\ aged' \in 0..minted' /\ minted' \in 0..MaxGen
    BY <1>2, <1>4, <2>2, <2>3
  <2>. QED
    BY <1>6, <2>1, <2>4 DEF Inv, Typed, db
<1>10. \A g \in Gens : Told(g) => Told(g)'
  BY DEF Told, Twice
<1>11. \A l \in Labels : profiles[l] # None => profiles[l].gen \in Gens
  BY <1>3, RowFacts DEF Inv, Typed, Tables
<1>12. Alone'
  <2>1. ASSUME NEW q \in Refreshers, ref'[q].pc \in Busy
        PROVE  ref[q].pc \in Busy /\ ref'[q].label = ref[q].label
    BY <1>2, <1>7, <2>1 DEF Busy, Spending
  <2>. QED
    BY <2>1 DEF Inv, Alone
<1>13. Seated'
  BY <1>2, <1>7 DEF Inv, Seated, Busy, Spending, db
<1>14. ASSUME NEW l \in Labels, l \in seats[s.gen], l # ref[r].label
       PROVE  Told(s.gen)'
  <2>1. ref[r].label \in seats[s.gen]
    BY <1>1, <1>2 DEF Inv, Seated, Busy
  <2>. QED
    BY <1>14, <2>1 DEF Told, Twice
<1>15. RowsExplained'
  <2> SUFFICES ASSUME NEW l \in Labels, profiles[l] # None, NEW g \in Gens, g = profiles[l].gen
               PROVE  \/ g \in live' \/ Told(g)'
                      \/ \E q \in Refreshers : /\ ref'[q].pc \in Spending /\ ref'[q].label = l
                                               /\ ref'[q].sent.gen = g
    BY <1>11 DEF RowsExplained, db, Told
  <2>1. CASE g = s.gen /\ l = ref[r].label
    BY <1>1, <1>7, <2>1 DEF Spending, Told
  <2>2. CASE g = s.gen /\ l # ref[r].label
    BY <1>14, <2>2 DEF Inv, Seated
  <2>3. CASE g # s.gen
    <3>1. g \in live => g \in live'
      BY <1>2, <2>3
    <3>2. ASSUME NEW q \in Refreshers, ref[q].pc \in Spending, ref[q].label = l,
                 ref[q].sent.gen = g
          PROVE  ref'[q].pc \in Spending /\ ref'[q].label = l /\ ref'[q].sent.gen = g
      BY <1>2, <1>7, <3>2 DEF Spending
    <3>. QED
      BY <1>10, <3>1, <3>2 DEF Inv, RowsExplained
  <2>. QED
    BY <2>1, <2>2, <2>3
<1>16. AsksExplained'
  <2> SUFFICES ASSUME NEW q \in Refreshers, ref'[q].pc \in {"await", "refused"},
                      NEW g, g = ref[q].sent.gen, q # r, ref'[q] = ref[q]
               PROVE  g \in live' \/ Told(g)'
    BY <1>7 DEF AsksExplained, Told
  <2>1. g \in Gens
    BY <1>3, RowFacts DEF Inv, Loops, RefFit, Busy
  <2>2. CASE g = s.gen
    <3>1. ref[q].pc = "await"
      BY <1>2, <2>2 DEF Inv, Verdict
    <3>2. /\ ref[q].label # ref[r].label /\ ref[q].label \in seats[g]
          /\ ref[q].label \in Labels
      BY <1>2, <3>1 DEF Inv, Alone, Seated, Busy, Loops, RefFit
    <3>. QED
      BY <1>14, <2>2, <3>2
  <2>3. CASE g # s.gen
    BY <1>2, <1>10, <2>1, <2>3 DEF Inv, AsksExplained
  <2>. QED
    BY <2>2, <2>3
<1>17. ActiveExplained'
  <2> SUFFICES ASSUME active # None
               PROVE  \/ active.gen \in live' \cup lost' \cup stale
                      \/ \E q \in Refreshers : /\ ref'[q].pc \in {"granted", "store_both"}
                                               /\ ref'[q].sent = active
    BY DEF ActiveExplained, db
  <2>1. CASE active.gen = s.gen
    <3>1. active = s
      BY <1>3, <2>1 DEF Inv, Typed, Knows
    <3>. QED
      BY <1>1, <1>7, <3>1
  <2>2. CASE active.gen # s.gen
    <3>1. ASSUME NEW q \in Refreshers, ref[q].pc \in {"granted", "store_both"}
          PROVE  ref'[q] = ref[q]
      BY <1>2, <1>7, <3>1
    <3>. QED
      BY <1>2, <2>2, <3>1 DEF Inv, ActiveExplained
  <2>. QED
    BY <2>1, <2>2
<1>18. \A q \in Refreshers : Verdict(ref[q])'
  <2>1. \A g \in 0..minted : g \notin live => g \notin live'
    BY <1>2, <1>4
  <2>2. ASSUME NEW q \in Refreshers
        PROVE  /\ ref[q].pc = "refused" => ref[q].sent.gen \in 0..minted
               /\ ref[q].auth.gen \in 0..minted
    <3>1. \A b \in K \cup {NoAuth} : b.gen \in 0..minted
      BY <1>3, <1>4 DEF Inv, Typed, Knows, Auth, Gens, NoAuth
    <3>. QED
      BY <3>1 DEF Inv, Loops, RefFit, RefRec
  <2>3. Verdict(ref'[r])
    BY <1>7 DEF Verdict
  <2>4. ASSUME NEW q \in Refreshers, q # r
        PROVE  Verdict(ref[q])'
    <3>1. ref'[q] = ref[q] /\ Verdict(ref[q])
      BY <1>7, <2>4 DEF Inv
    <3>. QED
      BY <2>1, <2>2, <3>1 DEF Verdict
  <2>. QED
    BY <1>7, <2>3, <2>4 DEF Verdict
<1>. QED
  BY <1>8, <1>7, <1>9, <1>12, <1>13, <1>15, <1>16, <1>17, <1>18 DEF Inv, K2

-----------------------------------------------------------------------------
(* The API handlers                                                          *)

LEMMA NoGrant ==
    ASSUME NEW K, Inv(K), UNCHANGED provider
    PROVE  Grants(K)
BY ProfilesAssumption DEF Inv, Typed, Grants, provider

LEMMA NewGrant ==
    ASSUME NEW K, Inv(K), Grant, NEW who \in Accounts, NEW a, a = Granted(who)
    PROVE  K \subseteq K \cup {a} /\ a \in K \cup {a} /\ Grants(K \cup {a})
<1>1. minted \in 0..MaxGen /\ MaxGen \in Nat /\ minted < MaxGen /\ minted' = minted + 1
  BY ProfilesAssumption DEF Inv, Typed, Grant
<1>2. a \in Auth /\ a.gen = minted + 1
  BY <1>1 DEF Granted, Auth, Gens
<1>3. Knows(K \cup {a}, minted')
  BY <1>1, <1>2, OneMore DEF Inv, Typed
<1>4. minted' \in 0..MaxGen /\ minted <= minted' /\ 0..minted \subseteq 0..minted'
      /\ (minted + 1)..minted' = {minted + 1}
  BY <1>1
<1>. QED
  BY <1>3, <1>4 DEF Grant, Grants, Inv, Typed

\* A worker that rests goes on as it is.
LEMMA GoesSame ==
    ASSUME NEW K, Inv(K), NEW q \in Refreshers, ref'[q] = ref[q]
    PROVE  Goes(q)
<1>1. \A b \in K \cup {NoAuth} : b.gen \in 0..minted
  BY ProfilesAssumption DEF Inv, Typed, Knows, Auth, Gens, NoAuth
<1>2. Verdict(ref[q]) /\ SpenderGoes(q)
  BY DEF Inv, SpenderGoes
<1>3. ref[q].pc = "refused" => ref[q].sent.gen \in 0..minted
  BY <1>1 DEF Inv, Loops, RefFit
<1>4. ref[q].auth.gen \in 0..minted
  BY <1>1 DEF Inv, Loops, RefRec
<1>. QED
  BY <1>2, <1>3, <1>4 DEF Goes

LEMMA ApiMoved ==
    ASSUME NEW K, NEW K2, Inv(K), K \subseteq K2, Grants(K2), Rewritten(K2),
           UNCHANGED <<ref, lost>>, served' \in 0..MaxRequests, faults' \in 0..MaxFaults,
           activeLabel' \in Labels \cup {None},
           NEW w \in ApiWorkers, NEW s \in ApiRec(K2), ApiFit(K2, s, active'),
           api' = [api EXCEPT ![w] = s]
    PROVE  Inv(K2)'
<1>1. Further(K2)
  BY DEF Further, Inv, Typed
<1>2. Handlers(K2)'
  BY HandlersMove DEF Inv, Rewritten
<1>3. Loops(K2)'
  BY LoopsStay DEF Inv
<1>4. \A q \in Refreshers : Goes(q)
  BY GoesSame
<1>. QED
  BY <1>1, <1>2, <1>3, <1>4, Moved DEF OneMoves

\* A handler is done, in one way or another.
LEMMA Finished ==
    ASSUME NEW K, Inv(K), Rewritten(K), UNCHANGED <<provider, ref, lost, served>>,
           faults' \in 0..MaxFaults, activeLabel' \in Labels \cup {None},
           NEW w \in ApiWorkers, Finish(w)
    PROVE  Inv(K)'
<1>1. IdleApi \in ApiRec(K) /\ ApiFit(K, IdleApi, active')
  BY DEF IdleApi, ApiRec, ApiSteps, ApiFit
<1>. QED
  BY <1>1, NoGrant, ApiMoved DEF Finish, Inv, Typed

\* A handler goes on.
LEMMA WentOn ==
    ASSUME NEW K, Inv(K), Rewritten(K), UNCHANGED <<provider, ref, lost, served, faults>>,
           activeLabel' \in Labels \cup {None},
           NEW w \in ApiWorkers, NEW step \in ApiSteps, Goto(w, step),
           \A s \in ApiRec(K) :
              s.op = api[w].op /\ s.pc = step /\ s.label = api[w].label /\ s.auth = api[w].auth
                /\ s.got = api[w].got => ApiFit(K, s, active')
    PROVE  Inv(K)'
<1> DEFINE s == [api[w] EXCEPT !.pc = step]
<1>1. api[w] \in ApiRec(K) /\ api' = [api EXCEPT ![w] = s]
  BY DEF Goto, Inv, Handlers
<1>2. s \in ApiRec(K) /\ s.op = api[w].op /\ s.pc = step /\ s.label = api[w].label
      /\ s.auth = api[w].auth /\ s.got = api[w].got
  BY <1>1 DEF ApiRec
<1> HIDE DEF s
<1>3. ApiFit(K, s, active')
  BY <1>2
<1>4. served' \in 0..MaxRequests /\ faults' \in 0..MaxFaults
  BY DEF Inv, Typed
<1>. QED
  BY <1>1, <1>2, <1>3, <1>4, NoGrant, ApiMoved

\* A request is taken up.
LEMMA Begun ==
    ASSUME NEW K, NEW K2, Inv(K), K \subseteq K2, Grants(K2), Rewritten(K2),
           UNCHANGED activeLabel, NEW w \in ApiWorkers,
           NEW op \in {"import", "relay", "save", "reconcile", "switch", "limits", "delete",
                       "rename"},
           NEW step \in {"publish", "choose", "write_active", "track", "copy_read", "unset",
                         "move"},
           NEW l \in Labels \cup {None},
           NEW auth \in K2 \cup {NoAuth} \cup [acct : {None}, gen : Labels],
           Serve(w, op, step, l, auth),
           step \in {"publish", "choose", "write_active", "track"} => auth \in K2,
           step = "choose" => op # "relay",
           step \notin {"publish", "choose"} => l \in Labels,
           step = "move" => auth.gen \in Labels
    PROVE  Inv(K2)'
<1> DEFINE s == [IdleApi EXCEPT !.op = op, !.pc = step, !.label = l, !.auth = auth]
<1>1. s.op = op /\ s.pc = step /\ s.label = l /\ s.auth = auth
  BY DEF IdleApi
<1>2. s \in ApiRec(K2)
  BY DEF IdleApi, ApiRec, ApiSteps
<1>3. ApiFit(K2, s, active')
  <2> HIDE DEF s
  <2>. QED
    BY <1>1 DEF ApiFit
<1>4. served' \in 0..MaxRequests /\ faults' \in 0..MaxFaults /\ activeLabel' \in Labels \cup {None}
  BY RefreshAssumption DEF Serve, Inv, Typed
<1>5. api' = [api EXCEPT ![w] = s] /\ UNCHANGED <<ref, lost>>
  BY DEF Serve
<1> HIDE DEF s
<1>. QED
  BY <1>2, <1>3, <1>4, <1>5, ApiMoved

\* The requests: each begins with what its handler needs.
LEMMA RequestStep ==
    ASSUME NEW K, Inv(K), NEW w \in ApiWorkers,
           \/ Login(w) \/ Reconcile(w) \/ ImportCurrent(w) \/ Switch(w) \/ Limits(w)
           \/ Delete(w) \/ Rename(w)
    PROVE  IInv'
<1>1. K \subseteq Auth /\ profiles \in Tables(K) /\ active \in K \cup {None}
      /\ activeLabel \in Labels \cup {None}
  BY DEF Inv, Typed, Knows
<1>2. \A K2 \in SUBSET Auth : Inv(K2)' => IInv'
  BY DEF IInv
<1>3. \A K2 : K \subseteq K2 /\ UNCHANGED <<db, stale, seats>> => Rewritten(K2)
  BY Untouched DEF Inv, db
<1>4. \A l \in Used(profiles) : l \in Labels /\ AuthOf(profiles[l]) \in K
  BY <1>1, RowFacts DEF Used, Tables
<1>5. \A a : Saved(profiles, a) => Listed(profiles, activeLabel, a) \in Labels
  BY ListedIn DEF Holding, Used
<1>6. CASE Login(w)
  <2>1. PICK who \in Accounts, l \in Labels \cup {None} :
           \/ Serve(w, "import", "choose", l, Granted(who))
           \/ Serve(w, "relay", "publish", l, Granted(who))
           \/ l # None /\ Serve(w, "save", "write_active", l, Granted(who))
    BY <1>6 DEF Login
  <2>2. PICK a : a = Granted(who)
    OBVIOUS
  <2>3. Grant /\ UNCHANGED <<db, stale, seats>> /\ UNCHANGED activeLabel
    BY <1>6 DEF Login, db
  <2>4. K \subseteq K \cup {a} /\ a \in K \cup {a} /\ Grants(K \cup {a})
    BY <2>2, <2>3, NewGrant
  <2>5. Rewritten(K \cup {a})
    BY <1>3, <2>3, <2>4
  <2>6. PICK K2 : K2 = K \cup {a}
    OBVIOUS
  <2>7. Inv(K2)'
    <3>1. CASE Serve(w, "import", "choose", l, a)
      BY <2>3, <2>4, <2>5, <2>6, <3>1, Begun
    <3>2. CASE Serve(w, "relay", "publish", l, a)
      BY <2>3, <2>4, <2>5, <2>6, <3>2, Begun
    <3>3. CASE l # None /\ Serve(w, "save", "write_active", l, a)
      BY <2>3, <2>4, <2>5, <2>6, <3>3, Begun
    <3>. QED
      BY <2>1, <2>2, <3>1, <3>2, <3>3
  <2>8. K2 \in SUBSET Auth
    BY <2>4, <2>6 DEF Grants, Knows
  <2>. QED
    BY <1>2, <2>7, <2>8
<1>7. CASE Reconcile(w)
  <2>1. PICK who \in Accounts, l \in Labels, step \in {"track", "choose"} :
           Serve(w, "reconcile", step, l, Granted(who))
    BY <1>5, <1>7 DEF Reconcile
  <2>2. PICK a : a = Granted(who)
    OBVIOUS
  <2>3. Grant /\ UNCHANGED <<db, stale, seats>> /\ UNCHANGED activeLabel
    BY <1>7 DEF Reconcile, db
  <2>4. K \subseteq K \cup {a} /\ a \in K \cup {a} /\ Grants(K \cup {a})
    BY <2>2, <2>3, NewGrant
  <2>5. PICK K2 : K2 = K \cup {a}
    OBVIOUS
  <2>6. Rewritten(K2)
    BY <1>3, <2>3, <2>4, <2>5
  <2>7. Inv(K2)'
    BY <2>1, <2>2, <2>3, <2>4, <2>5, <2>6, Begun
  <2>8. K2 \in SUBSET Auth
    BY <2>4, <2>5 DEF Grants, Knows
  <2>. QED
    BY <1>2, <2>7, <2>8
<1>8. CASE ImportCurrent(w)
  <2>1. PICK l \in Labels \cup {None} : Serve(w, "import", "choose", l, active)
    BY <1>8 DEF ImportCurrent
  <2>2. active \in K /\ UNCHANGED <<db, stale, seats>> /\ UNCHANGED provider /\ UNCHANGED activeLabel
    BY <1>1, <1>8 DEF ImportCurrent, db
  <2>3. PICK a \in K : a = active
    BY <2>2
  <2>. QED
    BY <1>1, <1>2, <1>3, <2>1, <2>2, <2>3, NoGrant, Begun
<1>9. CASE Switch(w)
  <2>1. PICK l \in Labels, a \in K : Serve(w, "switch", "write_active", l, a)
    BY <1>4, <1>9 DEF Switch
  <2>2. UNCHANGED <<db, stale, seats>> /\ UNCHANGED provider /\ UNCHANGED activeLabel
    BY <1>9 DEF Switch, db
  <2>. QED
    BY <1>1, <1>2, <1>3, <2>1, <2>2, NoGrant, Begun
<1>10. CASE Limits(w)
  <2>1. PICK l \in Labels : Serve(w, "limits", "copy_read", l, NoAuth)
    BY <1>4, <1>10 DEF Limits
  <2>2. UNCHANGED <<db, stale, seats>> /\ UNCHANGED provider /\ UNCHANGED activeLabel
    BY <1>10 DEF Limits, db
  <2>. QED
    BY <1>1, <1>2, <1>3, <2>1, <2>2, NoGrant, Begun
<1>11. CASE Delete(w)
  <2>1. PICK l \in Labels : /\ Serve(w, "delete", "unset", l, NoAuth)
                            /\ File([profiles EXCEPT ![l] = None], active)
    BY <1>4, <1>11 DEF Delete
  <2>2. UNCHANGED provider /\ UNCHANGED activeLabel
    BY <1>11 DEF Delete
  <2>3. Rewritten(K)
    BY <1>1, <2>1, TableDelete, Filed DEF Inv
  <2>. QED
    BY <1>1, <1>2, <2>1, <2>2, <2>3, NoGrant, Begun
<1>12. CASE Rename(w)
  <2>1. PICK old \in Labels, new \in Labels :
           /\ Serve(w, "rename", "move", old, [acct |-> None, gen |-> new])
           /\ File([profiles EXCEPT ![new] = None], active)
    BY <1>4, <1>12 DEF Rename
  <2>2. UNCHANGED provider /\ UNCHANGED activeLabel
    BY <1>12 DEF Rename
  <2>3. Rewritten(K)
    BY <1>1, <2>1, TableDelete, Filed DEF Inv
  <2>4. PICK a : a = [acct |-> None, gen |-> new]
    OBVIOUS
  <2>5. a \in [acct : {None}, gen : Labels] /\ a.gen \in Labels
    BY <2>4
  <2>6. Serve(w, "rename", "move", old, a)
    BY <2>1, <2>4
  <2>. QED
    BY <1>1, <1>2, <2>2, <2>3, <2>5, <2>6, NoGrant, Begun
<1>. QED
  BY <1>6, <1>7, <1>8, <1>9, <1>10, <1>11, <1>12

\* The steps of the handlers.
LEMMA HandlerStep ==
    ASSUME NEW K, Inv(K), NEW w \in ApiWorkers,
           \/ Publish(w) \/ Choose(w) \/ WriteActive(w) \/ ReadActive(w) \/ SaveUnderLabel(w)
           \/ SetLabel(w) \/ DropDuplicate(w) \/ Track(w) \/ CopyRead(w) \/ Copy(w)
           \/ Unset(w) \/ Move(w) \/ Relabel(w) \/ CrashApi(w)
    PROVE  Inv(K)'
<1> DEFINE h == api[w]
<1>1. /\ K \subseteq Auth /\ profiles \in Tables(K) /\ active \in K \cup {None}
      /\ activeLabel \in Labels \cup {None} /\ None \notin K
      /\ served \in 0..MaxRequests /\ faults \in 0..MaxFaults
  BY RowFacts DEF Inv, Typed, Knows
<1>2. h \in ApiRec(K) /\ ApiFit(K, h, active) /\ h.label \in Labels \cup {None}
  BY DEF Inv, Handlers, ApiRec
<1>3. UNCHANGED <<db, stale, seats>> => Rewritten(K)
  BY Untouched DEF Inv, db
<1>4. File(profiles, active) => Rewritten(K)
  BY <1>1, Filed DEF Inv
<1>5. \A l \in Labels, a \in K :
         File(Upsert(profiles, l, a, FALSE), active) => Rewritten(K)
  <2> SUFFICES ASSUME NEW l \in Labels, NEW a \in K,
                      File(Upsert(profiles, l, a, FALSE), active)
               PROVE  Rewritten(K)
    OBVIOUS
  <2>1. Upsert(profiles, l, a, FALSE) \in Tables(K)
    BY <1>1, TableUpsert
  <2>. QED
    BY <1>1, <2>1, Filed DEF Inv
<1>6. UNCHANGED <<profiles, active, provider, ref, served, faults, history>>
         => Rewritten(K) /\ UNCHANGED <<provider, ref, lost, served>> /\ faults' \in 0..MaxFaults
            /\ active' = active
  BY <1>1, Untouched DEF Inv, history
<1>7. CASE Publish(w)
  <2>1. h.pc = "publish" /\ h.auth \in K
    BY <1>2, <1>7 DEF Publish, At, ApiFit
  <2>2. Rewritten(K) /\ active' = h.auth
    BY <1>1, <1>7, <2>1, Filed DEF Publish, Inv, File
  <2>. QED
    BY <1>1, <1>7, <2>1, <2>2, WentOn DEF Publish, ApiFit, ApiSteps
<1>8. CASE Choose(w)
  <2>1. h.pc = "choose" /\ UNCHANGED <<activeLabel, provider, ref, served, faults, lost>>
    BY <1>8 DEF Choose, At
  <2>2. PICK auth : auth = IF h.op = "relay" THEN active ELSE h.auth
    OBVIOUS
  <2>3. auth \in K
    BY <1>1, <1>2, <2>1, <2>2 DEF ApiFit
  <2>4. \A l \in TargetLabels(profiles, activeLabel, auth, h.label) : l \in Labels
    BY <1>2, ListedIn DEF TargetLabels, Holding, Used
  <2>5. CASE Finish(w) /\ File(profiles, active)
    BY <1>1, <1>4, <2>1, <2>5, Finished
  <2>6. ASSUME NEW l \in Labels, Finish(w),
               File(IF auth.gen > aged THEN SetReauth(profiles, l, FALSE) ELSE profiles, active)
        PROVE  Inv(K)'
    <3>1. Rewritten(K)
      BY <1>1, <2>6, TableReauth, Filed DEF Inv
    <3>. QED
      BY <1>1, <2>1, <2>6, <3>1, Finished
  <2>7. ASSUME NEW l \in Labels, File(profiles, active),
               api' = [api EXCEPT ![w].pc = "write_active", ![w].label = l, ![w].auth = auth]
        PROVE  Inv(K)'
    <3> DEFINE s == [h EXCEPT !.pc = "write_active", !.label = l, !.auth = auth]
    <3>1. s \in ApiRec(K) /\ s.pc = "write_active" /\ s.label = l /\ s.auth = auth
      BY <1>2, <2>3 DEF ApiRec, ApiSteps
    <3>2. api' = [api EXCEPT ![w] = s]
      BY <2>7 DEF Inv, Handlers
    <3> HIDE DEF s, h
    <3>3. ApiFit(K, s, active')
      BY <2>3, <3>1 DEF ApiFit
    <3>. QED
      BY <1>1, <1>4, <2>1, <2>7, <3>1, <3>2, <3>3, NoGrant, ApiMoved
  <2>. QED
    BY <1>8, <2>2, <2>4, <2>5, <2>6, <2>7 DEF Choose
<1>9. CASE WriteActive(w)
  <2>1. h.pc = "write_active" /\ h.auth \in K /\ h.label \in Labels
    BY <1>2, <1>9 DEF WriteActive, At, ApiFit
  <2>2. Rewritten(K) /\ active' = h.auth
    BY <1>1, <1>9, <2>1, Filed DEF WriteActive, Inv, File
  <2>3. PICK step \in {"set_label", "read_active"} : Goto(w, step)
    BY <1>9 DEF WriteActive
  <2>. QED
    BY <1>1, <1>9, <2>1, <2>2, <2>3, WentOn DEF WriteActive, ApiFit, ApiSteps
<1>10. CASE ReadActive(w)
  <2>1. h.pc = "read_active" /\ h.auth \in K /\ h.label \in Labels /\ active \in K
    BY <1>1, <1>2, <1>10 DEF ReadActive, At, ApiFit
  <2>2. UNCHANGED <<profiles, active, provider, ref, served, faults, history>>
        /\ UNCHANGED activeLabel
    BY <1>10 DEF ReadActive, db
  <2> DEFINE s == [h EXCEPT !.pc = "save", !.got = active]
  <2>3. s \in ApiRec(K) /\ s.pc = "save" /\ s.label = h.label /\ s.auth = h.auth /\ s.got = active
    BY <1>2, <2>1 DEF ApiRec, ApiSteps
  <2>4. api' = [api EXCEPT ![w] = s]
    BY <1>10 DEF ReadActive, Inv, Handlers
  <2> HIDE DEF s, h
  <2>5. ApiFit(K, s, active')
    BY <2>1, <2>3 DEF ApiFit
  <2>. QED
    BY <1>1, <1>6, <2>2, <2>3, <2>4, <2>5, NoGrant, ApiMoved
<1>11. CASE SaveUnderLabel(w)
  <2>1. h.pc = "save" /\ h.got \in K /\ h.auth \in K /\ h.label \in Labels
    BY <1>2, <1>11 DEF SaveUnderLabel, At, ApiFit
  <2>2. Rewritten(K)
    BY <1>5, <1>11, <2>1 DEF SaveUnderLabel
  <2>. QED
    BY <1>1, <1>11, <2>1, <2>2, WentOn DEF SaveUnderLabel, ApiFit, ApiSteps
<1>12. CASE SetLabel(w)
  <2>1. h.pc = "set_label" /\ h.auth \in K /\ h.label \in Labels /\ activeLabel' = h.label
        /\ UNCHANGED <<profiles, active, provider, ref, served, faults, history>>
    BY <1>2, <1>12 DEF SetLabel, At, ApiFit
  <2>2. CASE Finish(w)
    BY <1>6, <2>1, <2>2, Finished
  <2>3. ASSUME NEW step \in {"copy_read", "dedupe"}, Goto(w, step)
        PROVE  Inv(K)'
    BY <1>6, <2>1, <2>3, WentOn DEF ApiFit, ApiSteps
  <2>. QED
    BY <1>12, <2>2, <2>3 DEF SetLabel
<1>13. CASE DropDuplicate(w)
  <2>1. UNCHANGED <<activeLabel, provider, ref, served, faults, lost>>
    BY <1>13 DEF DropDuplicate
  <2>2. CASE Finish(w) /\ File(profiles, active)
    BY <1>1, <1>4, <2>1, <2>2, Finished
  <2>3. ASSUME NEW l, File([profiles EXCEPT ![l] = None], active), UNCHANGED api
        PROVE  Inv(K)'
    <3>1. Rewritten(K)
      BY <1>1, <2>3, TableDelete, Filed DEF Inv
    <3>2. api' = [api EXCEPT ![w] = h] /\ active' = active
      BY <2>3 DEF Inv, Handlers, File
    <3>. QED
      BY <1>1, <1>2, <2>1, <3>1, <3>2, NoGrant, ApiMoved
  <2>. QED
    BY <1>13, <2>2, <2>3 DEF DropDuplicate
<1>14. CASE Track(w)
  <2>1. h.pc = "track" /\ h.auth \in K /\ h.label \in Labels
    BY <1>2, <1>14 DEF Track, At, ApiFit
  <2>2. Rewritten(K)
    BY <1>1, <1>14, <2>1, TableUpsert, Filed DEF Track, Inv
  <2>. QED
    BY <1>1, <1>14, <2>1, <2>2, Finished DEF Track
<1>15. CASE CopyRead(w)
  <2>1. h.pc = "copy_read" /\ h.label \in Labels /\ UNCHANGED activeLabel
        /\ UNCHANGED <<profiles, active, provider, ref, served, faults, history>>
    BY <1>2, <1>15 DEF CopyRead, At, ApiFit, db
  <2>2. CASE Finish(w)
    BY <1>1, <1>6, <2>1, <2>2, Finished
  <2>3. CASE active # None /\ api' = [api EXCEPT ![w].pc = "copy", ![w].got = active]
    <3> DEFINE s == [h EXCEPT !.pc = "copy", !.got = active]
    <3>1. s \in ApiRec(K) /\ s.pc = "copy" /\ s.label = h.label /\ s.got = active
      BY <1>1, <1>2, <2>3 DEF ApiRec, ApiSteps
    <3>2. api' = [api EXCEPT ![w] = s]
      BY <2>3 DEF Inv, Handlers
    <3> HIDE DEF s, h
    <3>3. ApiFit(K, s, active')
      BY <1>1, <2>1, <2>3, <3>1 DEF ApiFit
    <3>. QED
      BY <1>1, <1>6, <2>1, <3>1, <3>2, <3>3, NoGrant, ApiMoved
  <2>. QED
    BY <1>15, <2>2, <2>3 DEF CopyRead
<1>16. CASE Copy(w)
  <2>1. h.pc = "copy" /\ h.got \in K /\ h.label \in Labels
    BY <1>2, <1>16 DEF Copy, At, ApiFit
  <2>2. Rewritten(K)
    BY <1>5, <1>16, <2>1 DEF Copy
  <2>. QED
    BY <1>1, <1>16, <2>2, Finished DEF Copy
<1>17. CASE Unset(w)
  <2>1. UNCHANGED <<profiles, active, provider, ref, served, faults, history>> /\ Finish(w)
        /\ activeLabel' \in Labels \cup {None}
    BY <1>1, <1>17 DEF Unset
  <2>. QED
    BY <1>6, <2>1, Finished
<1>18. CASE Move(w)
  <2>1. h.pc = "move" /\ h.label \in Labels /\ h.auth.gen \in Labels
        /\ UNCHANGED <<activeLabel, provider, ref, served, faults, lost>>
    BY <1>2, <1>18 DEF Move, At, ApiFit
  <2>2. CASE Finish(w) /\ File(profiles, active)
    BY <1>1, <1>4, <2>1, <2>2, Finished
  <2>3. CASE /\ File([profiles EXCEPT ![h.auth.gen] = profiles[h.label], ![h.label] = None], active)
             /\ Goto(w, "relabel")
    <3>1. [profiles EXCEPT ![h.auth.gen] = profiles[h.label], ![h.label] = None] \in Tables(K)
      BY <1>1, <2>1 DEF Tables
    <3>2. Rewritten(K)
      BY <1>1, <2>3, <3>1, Filed DEF Inv
    <3>. QED
      BY <1>1, <2>1, <2>3, <3>2, WentOn DEF ApiFit, ApiSteps
  <2>. QED
    BY <1>18, <2>2, <2>3 DEF Move
<1>19. CASE Relabel(w)
  <2>1. h.pc = "relabel" /\ h.auth.gen \in Labels
    BY <1>2, <1>19 DEF Relabel, At, ApiFit
  <2>2. UNCHANGED <<profiles, active, provider, ref, served, faults, history>> /\ Finish(w)
        /\ activeLabel' \in Labels \cup {None}
    BY <1>1, <1>19, <2>1 DEF Relabel
  <2>. QED
    BY <1>6, <2>2, Finished
<1>20. CASE CrashApi(w)
  <2>1. UNCHANGED <<db, stale, seats>> /\ UNCHANGED <<provider, ref, lost, served>> /\ Finish(w)
        /\ UNCHANGED activeLabel /\ faults' \in 0..MaxFaults
    BY <1>1, <1>20, RefreshAssumption DEF CrashApi, history, db
  <2>. QED
    BY <1>1, <1>3, <2>1, Finished
<1>. QED
  BY <1>7, <1>8, <1>9, <1>10, <1>11, <1>12, <1>13, <1>14, <1>15, <1>16, <1>17, <1>18, <1>19, <1>20

-----------------------------------------------------------------------------
(* The refresh workers                                                       *)

LEMMA RefMoved ==
    ASSUME NEW K, Inv(K), NEW r \in Refreshers, NEW t \in RefRec(K), RefFit(K, t),
           ref' = [ref EXCEPT ![r] = t], UNCHANGED <<api, provider, served>>,
           faults' \in 0..MaxFaults, lost \subseteq lost', lost' \subseteq Gens,
           activeLabel' \in Labels \cup {None}, Rewritten(K), Goes(r)
    PROVE  Inv(K)'
<1>1. Further(K)
  BY NoGrant DEF Further, Inv, Typed
<1>2. Handlers(K)'
  BY HandlersStay DEF Inv, Rewritten
<1>3. Loops(K)' /\ \A q \in Refreshers : q # r => ref'[q] = ref[q]
  BY LoopsMove DEF Inv
<1>4. \A q \in Refreshers : q # r => Goes(q)
  BY <1>3, GoesSame
<1>. QED
  BY <1>1, <1>2, <1>3, <1>4, Moved DEF OneMoves

\* A worker goes to a step at which it neither holds a lock nor judges.
LEMMA RefCalm ==
    ASSUME NEW K, Inv(K), NEW r \in Refreshers, NEW t \in RefRec(K), RefFit(K, t),
           t.pc \notin Busy \cup {"refused", "flag"},
           ref' = [ref EXCEPT ![r] = t], UNCHANGED <<api, provider, served>>,
           faults' \in 0..MaxFaults, lost \subseteq lost', lost' \subseteq Gens,
           activeLabel' \in Labels \cup {None}, Rewritten(K), SpenderGoes(r)
    PROVE  Inv(K)'
<1>1. ref'[r] = t
  BY DEF Inv, Loops
<1>2. Goes(r)
  BY <1>1 DEF Goes, Verdict, Busy
<1>. QED
  BY <1>2, RefMoved

\* The records that workers are left with.
LEMMA RestRec ==
    ASSUME NEW K, NEW q, q \subseteq [label : Labels, row : RowsOf(K)]
    PROVE  /\ IdleRef \in RefRec(K) /\ RefFit(K, IdleRef) /\ IdleRef.pc = "idle"
           /\ [IdleRef EXCEPT !.pc = "next", !.queue = q] \in RefRec(K)
           /\ [IdleRef EXCEPT !.pc = "next", !.queue = q].pc = "next"
           /\ RefFit(K, [IdleRef EXCEPT !.pc = "next", !.queue = q])
<1>1. 0 \in 0..MaxGen
  BY ProfilesAssumption
<1>. QED
  BY <1>1 DEF IdleRef, RefRec, RefSteps, RefFit, Busy, Spending

LEMMA RefGone ==
    ASSUME NEW K, Inv(K), NEW r \in Refreshers, RefGoto(r, "next"),
           UNCHANGED <<api, provider, served>>,
           faults' \in 0..MaxFaults, lost \subseteq lost', lost' \subseteq Gens,
           activeLabel' \in Labels \cup {None}, Rewritten(K), SpenderGoes(r)
    PROVE  Inv(K)'
<1>1. ref[r].queue \subseteq [label : Labels, row : RowsOf(K)]
  BY DEF Inv, Loops, RefRec
<1>2. ref' = [ref EXCEPT ![r] = [IdleRef EXCEPT !.pc = "next", !.queue = ref[r].queue]]
  BY DEF RefGoto
<1>. QED
  BY <1>1, <1>2, RestRec, RefCalm DEF Busy, Spending

\* A worker goes on with the same profile.
LEMMA RefOn ==
    ASSUME NEW K, Inv(K), NEW r \in Refreshers, NEW step \in RefSteps, step # "next",
           RefGoto(r, step)
    PROVE  \E t \in RefRec(K) :
              /\ ref' = [ref EXCEPT ![r] = t] /\ ref'[r] = t
              /\ t.pc = step /\ t.label = ref[r].label /\ t.seen = ref[r].seen
              /\ t.sent = ref[r].sent /\ t.auth = ref[r].auth
<1> DEFINE t == [ref[r] EXCEPT !.pc = step]
<1>1. ref[r] \in RefRec(K) /\ ref \in [Refreshers -> RefRec(K)]
  BY DEF Inv, Loops
<1>2. t \in RefRec(K) /\ t.pc = step /\ t.label = ref[r].label /\ t.seen = ref[r].seen
      /\ t.sent = ref[r].sent /\ t.auth = ref[r].auth
  BY <1>1 DEF RefRec
<1>3. ref' = [ref EXCEPT ![r] = t]
  BY <1>1 DEF RefGoto
<1> HIDE DEF t
<1>4. ref'[r] = t
  BY <1>1, <1>3
<1>. QED
  BY <1>2, <1>3, <1>4

\* The attempt to refresh a profile, from wherever it is made.
LEMMA Attempted ==
    ASSUME NEW K, Inv(K), NEW r \in Refreshers, NEW u \in RefRec(K), u.label \in Labels,
           ref[r].pc \notin Busy, ref' = [ref EXCEPT ![r] = Attempt(r, u)],
           UNCHANGED <<db, provider, api, served, faults, history>>
    PROVE  Inv(K)'
<1>1. K \subseteq Auth /\ Rewritten(K)
  BY Untouched DEF Inv, Typed, Knows, db, history
<1>2. SpenderGoes(r)
  BY DEF SpenderGoes, Busy
<1>3. /\ faults' \in 0..MaxFaults /\ lost \subseteq lost' /\ lost' \subseteq Gens
      /\ activeLabel' \in Labels \cup {None} /\ UNCHANGED <<api, provider, served>>
  BY DEF Inv, Typed, history, db
<1>4. CASE /\ \A q \in Refreshers \ {r} : ~Holds(q, u.label)
           /\ profiles[u.label] # None /\ profiles[u.label].gen <= aged
  <2> DEFINE t == [u EXCEPT !.pc = "await", !.sent = AuthOf(profiles[u.label])]
  <2>1. AuthOf(profiles[u.label]) \in K
    BY <1>1, <1>4, RowFacts DEF Inv, Typed, Tables
  <2>2. t \in RefRec(K) /\ t.pc = "await" /\ t.label = u.label
        /\ t.sent = AuthOf(profiles[u.label])
    BY <2>1 DEF RefRec, RefSteps
  <2>3. ref' = [ref EXCEPT ![r] = t]
    BY <1>4 DEF Attempt
  <2> HIDE DEF t
  <2>4. ref'[r] = t
    BY <2>3 DEF Inv, Loops
  <2>5. Asks(r)
    BY <1>4, <2>2, <2>4 DEF Asks, Holds, Busy, Spending
  <2>6. RefFit(K, t) /\ Goes(r)
    BY <1>2, <2>1, <2>2, <2>4, <2>5 DEF RefFit, Goes, Verdict, Busy, Spending
  <2>. QED
    BY <1>1, <1>3, <2>2, <2>3, <2>6, RefMoved
<1>5. CASE ref' = [ref EXCEPT ![r] = [IdleRef EXCEPT !.pc = "next", !.queue = u.queue]]
  <2>1. u.queue \subseteq [label : Labels, row : RowsOf(K)]
    BY DEF RefRec
  <2>. QED
    BY <1>1, <1>2, <1>3, <1>5, <2>1, RestRec, RefCalm DEF Busy, Spending
<1>. QED
  BY <1>4, <1>5 DEF Attempt

LEMMA ExchangeStep ==
    ASSUME NEW K, Inv(K), NEW r \in Refreshers, ExchangeGranted(r) \/ AnswerLost(r)
    PROVE  IInv'
<1>1. Spend(r) /\ UNCHANGED <<db, aged, api, served, stale, seats>>
  BY DEF ExchangeGranted, AnswerLost, history
<1>2. PICK a : a = Granted(ref[r].sent.acct)
  OBVIOUS
<1>3. /\ ref[r].pc = "await" /\ ref[r].sent \in K /\ ref[r].label \in Labels
      /\ ref[r] \in RefRec(K) /\ K \subseteq Auth
  BY <1>1 DEF Spend, Inv, Loops, RefFit, Busy, Typed, Knows
<1>4. /\ a \in Auth /\ a.gen = minted + 1 /\ ref[r].sent.gen \in Nat /\ ref[r].sent.gen < a.gen
      /\ ref[r].sent.gen \in Gens
  <2>1. minted < MaxGen /\ minted \in 0..MaxGen /\ MaxGen \in Nat
    BY <1>1, ProfilesAssumption DEF Spend, Inv, Typed
  <2>2. ref[r].sent.acct \in Accounts /\ ref[r].sent.gen \in Gens /\ ref[r].sent.gen <= minted
    BY <1>3, RowFacts DEF Inv, Typed, Knows
  <2>. QED
    BY <1>2, <2>1, <2>2 DEF Granted, Auth, Gens
<1>5. RefRec(K) \subseteq RefRec(K \cup {a})
  BY FitsMore
<1>6. \E t \in RefRec(K \cup {a}) :
         /\ RefFit(K \cup {a}, t) /\ ref' = [ref EXCEPT ![r] = t]
         /\ faults' \in 0..MaxFaults /\ lost \subseteq lost' /\ lost' \subseteq Gens
         /\ \/ t.pc = "granted" /\ t.sent = ref[r].sent /\ t.label = ref[r].label
            \/ t.pc = "failed" /\ ref[r].sent.gen \in lost'
  <2>1. CASE ExchangeGranted(r)
    <3> DEFINE t == [ref[r] EXCEPT !.pc = "granted", !.auth = a]
    <3>1. t \in RefRec(K \cup {a}) /\ t.pc = "granted" /\ t.sent = ref[r].sent
          /\ t.label = ref[r].label /\ t.auth = a
      BY <1>3, <1>5 DEF RefRec, RefSteps
    <3>2. ref' = [ref EXCEPT ![r] = t]
      BY <1>2, <2>1 DEF ExchangeGranted, Inv, Loops
    <3> HIDE DEF t
    <3>3. RefFit(K \cup {a}, t)
      BY <1>3, <1>4, <3>1 DEF RefFit, Busy, Spending
    <3>4. faults' \in 0..MaxFaults /\ lost \subseteq lost' /\ lost' \subseteq Gens
      BY <2>1 DEF ExchangeGranted, history, Inv, Typed
    <3>. QED
      BY <3>1, <3>2, <3>3, <3>4
  <2>2. CASE AnswerLost(r)
    <3>1. PICK t \in RefRec(K) :
             /\ ref' = [ref EXCEPT ![r] = t] /\ t.pc = "failed" /\ t.label = ref[r].label
      BY <2>2, RefOn DEF AnswerLost, RefSteps
    <3>2. RefFit(K \cup {a}, t)
      BY <1>3, <3>1 DEF RefFit, Busy, Spending
    <3>3. /\ faults' \in 0..MaxFaults /\ lost \subseteq lost' /\ lost' \subseteq Gens
          /\ ref[r].sent.gen \in lost'
      BY <1>4, <2>2, RefreshAssumption DEF AnswerLost, Inv, Typed
    <3>. QED
      BY <1>5, <3>1, <3>2, <3>3
  <2>. QED
    BY <2>1, <2>2
<1>7. Inv(K \cup {a})'
  BY <1>1, <1>2, <1>6, Spent
<1>8. PICK K2 : K2 = K \cup {a}
  OBVIOUS
<1>9. Inv(K2)' /\ K2 \in SUBSET Auth
  BY <1>3, <1>4, <1>7, <1>8
<1>. QED
  BY <1>9 DEF IInv

\* The other steps of a worker.
LEMMA LoopStep ==
    ASSUME NEW K, Inv(K), NEW r \in Refreshers,
           \/ BeginPass(r) \/ NextProfile(r) \/ RecoverRead(r) \/ Recover(r) \/ TryRefresh(r)
           \/ Unreachable(r) \/ ExchangeRefused(r) \/ DecideTracking(r) \/ StoreRefreshed(r)
           \/ ClearReauth(r) \/ HandleFailure(r) \/ FlagReauth(r) \/ CrashRefresher(r)
    PROVE  Inv(K)'
<1> DEFINE u == ref[r]
<1>1. /\ K \subseteq Auth /\ profiles \in Tables(K) /\ active \in K \cup {None}
      /\ activeLabel \in Labels \cup {None} /\ None \notin K
      /\ served \in 0..MaxRequests /\ faults \in 0..MaxFaults /\ lost \subseteq Gens
  BY RowFacts DEF Inv, Typed, Knows
<1>2. u \in RefRec(K) /\ RefFit(K, u) /\ Verdict(u)
  BY DEF Inv, Loops
<1>3. \A l \in Labels : profiles[l] # None =>
         profiles[l] \in RowsOf(K) /\ AuthOf(profiles[l]) \in K
           /\ AuthOf(profiles[l]).gen = profiles[l].gen
  BY <1>1, RowFacts DEF Tables
<1>4. UNCHANGED <<db, stale, seats>> => Rewritten(K)
  BY Untouched DEF Inv, db
<1>5. u.pc \notin Spending => SpenderGoes(r)
  BY DEF SpenderGoes
<1>6. UNCHANGED <<db, provider, api, served, faults, history>>
         => /\ Rewritten(K) /\ UNCHANGED <<api, provider, served>> /\ faults' \in 0..MaxFaults
            /\ lost \subseteq lost' /\ lost' \subseteq Gens /\ activeLabel' \in Labels \cup {None}
            /\ UNCHANGED <<profiles, active>>
  BY <1>1, <1>4 DEF history, db
<1>7. \A b \in K \cup {NoAuth} : b.gen \in 0..minted
  BY ProfilesAssumption DEF Inv, Typed, Knows, Auth, Gens, NoAuth
<1>8. CASE BeginPass(r)
  <2> DEFINE q == {[label |-> l, row |-> profiles[l]] : l \in Deduped(profiles, activeLabel)}
  <2>1. /\ u.pc = "idle" /\ UNCHANGED <<db, provider, api, served, faults, history>>
        /\ ref' = [ref EXCEPT ![r] = [IdleRef EXCEPT !.pc = "next", !.queue = q]]
    BY <1>8 DEF BeginPass, RefAt
  <2>2. q \subseteq [label : Labels, row : RowsOf(K)]
    BY <1>3, DedupedUsed DEF Used
  <2> HIDE DEF q
  <2>3. SpenderGoes(r)
    BY <1>5, <2>1 DEF Spending
  <2>. QED
    BY <1>6, <2>1, <2>2, <2>3, RestRec, RefCalm DEF Busy, Spending
<1>9. CASE NextProfile(r)
  <2>1. u.pc = "next" /\ UNCHANGED <<db, provider, api, served, faults, history>>
    BY <1>9 DEF NextProfile, RefAt
  <2>2. u.queue \subseteq [label : Labels, row : RowsOf(K)] /\ SpenderGoes(r) /\ u.pc \notin Busy
    BY <1>2, <1>5, <2>1 DEF RefRec, Spending, Busy
  <2>3. CASE ref' = [ref EXCEPT ![r] = IdleRef]
    BY <1>6, <2>1, <2>2, <2>3, RestRec, RefCalm DEF Busy, Spending
  <2>4. CASE u.queue # {}
    <3> DEFINE item == CHOOSE i \in u.queue : \A j \in u.queue : i.label <= j.label
               rest == u.queue \ {item}
               t == [IdleRef EXCEPT !.pc = "next", !.queue = rest, !.label = item.label,
                                    !.seen = item.row.gen]
               on == [t EXCEPT !.pc = "copy_read"]
    <3>1. item \in u.queue
      <4> DEFINE labels == {i.label : i \in u.queue}
      <4>1. labels \subseteq Labels /\ labels # {}
        BY <2>2, <2>4
      <4> HIDE DEF labels
      <4>2. PICK l \in labels : \A m \in labels : l <= m
        BY <4>1, FirstIn
      <4>3. \E i \in u.queue : \A j \in u.queue : i.label <= j.label
        BY <4>2 DEF labels
      <4>. QED
        BY <4>3
    <3>2. rest \subseteq [label : Labels, row : RowsOf(K)]
      BY <2>2
    <3>3. item.label \in Labels /\ item.row.gen \in 0..MaxGen
      BY <1>1, <2>2, <3>1, RowFacts, ProfilesAssumption DEF Gens
    <3> HIDE DEF item, rest
    <3>4. t \in RefRec(K) /\ t.label \in Labels /\ t.queue = rest
          /\ on \in RefRec(K) /\ on.pc = "copy_read" /\ on.label \in Labels
      BY <3>2, <3>3 DEF IdleRef, RefRec, RefSteps
    <3>5. \/ ref' = [ref EXCEPT ![r] = on]
          \/ ref' = [ref EXCEPT ![r] = [IdleRef EXCEPT !.pc = "next", !.queue = rest]]
          \/ ref' = [ref EXCEPT ![r] = Attempt(r, t)]
      BY <1>9, <2>4, <3>4 DEF NextProfile, item, rest
    <3> HIDE DEF t, on
    <3>6. CASE ref' = [ref EXCEPT ![r] = on]
      <4>1. RefFit(K, on)
        BY <3>4 DEF RefFit, Busy, Spending
      <4>. QED
        BY <1>6, <2>1, <2>2, <3>4, <3>6, <4>1, RefCalm DEF Busy, Spending
    <3>7. CASE ref' = [ref EXCEPT ![r] = [IdleRef EXCEPT !.pc = "next", !.queue = rest]]
      BY <1>6, <2>1, <2>2, <3>2, <3>7, RestRec, RefCalm DEF Busy, Spending
    <3>8. CASE ref' = [ref EXCEPT ![r] = Attempt(r, t)]
      BY <2>1, <2>2, <3>4, <3>8, Attempted
    <3>. QED
      BY <3>5, <3>6, <3>7, <3>8
  <2>. QED
    BY <1>9, <2>3, <2>4 DEF NextProfile
<1>10. CASE RecoverRead(r)
  <2>1. u.pc = "copy_read" /\ UNCHANGED <<db, provider, api, served, faults, history>>
    BY <1>10 DEF RecoverRead, RefAt
  <2>2. SpenderGoes(r)
    BY <1>5, <2>1 DEF Spending
  <2>3. CASE RefGoto(r, "next")
    BY <1>6, <2>1, <2>2, <2>3, RefGone
  <2>4. CASE active # None /\ ref' = [ref EXCEPT ![r].pc = "copy", ![r].auth = active]
    <3> DEFINE t == [u EXCEPT !.pc = "copy", !.auth = active]
    <3>1. t \in RefRec(K) /\ t.pc = "copy" /\ t.label = u.label /\ t.auth \in K
      BY <1>1, <1>2, <2>4 DEF RefRec, RefSteps
    <3>2. ref' = [ref EXCEPT ![r] = t]
      BY <2>4 DEF Inv, Loops
    <3> HIDE DEF t
    <3>3. RefFit(K, t)
      BY <1>2, <2>1, <3>1 DEF RefFit, Busy, Spending
    <3>. QED
      BY <1>6, <2>1, <2>2, <3>1, <3>2, <3>3, RefCalm DEF Busy, Spending
  <2>. QED
    BY <1>10, <2>3, <2>4 DEF RecoverRead
<1>11. CASE Recover(r)
  <2>1. u.pc = "copy" /\ u.auth \in K /\ u.label \in Labels
        /\ UNCHANGED <<activeLabel, provider, api, served, faults, lost>>
        /\ File(Upsert(profiles, u.label, u.auth, FALSE), active) /\ RefGoto(r, "clear")
    BY <1>2, <1>11 DEF Recover, RefAt, RefFit
  <2>2. Rewritten(K)
    BY <1>1, <2>1, TableUpsert, Filed DEF Inv
  <2>3. SpenderGoes(r)
    BY <1>5, <2>1 DEF Spending
  <2>4. PICK t \in RefRec(K) : /\ ref' = [ref EXCEPT ![r] = t] /\ t.pc = "clear"
                               /\ t.label = u.label
    BY <2>1, RefOn DEF RefSteps
  <2>5. RefFit(K, t)
    BY <2>1, <2>4 DEF RefFit, Busy, Spending
  <2>. QED
    BY <1>1, <2>1, <2>2, <2>3, <2>4, <2>5, RefCalm DEF Busy, Spending
<1>12. CASE TryRefresh(r)
  <2>1. /\ u.pc = "lock" /\ UNCHANGED <<db, provider, api, served, faults, history>>
        /\ ref' = [ref EXCEPT ![r] = Attempt(r, ref[r])]
    BY <1>12 DEF TryRefresh, RefAt
  <2>2. u.label \in Labels /\ u.pc \notin Busy
    BY <1>2, <2>1 DEF RefFit, Busy, Spending
  <2>. QED
    BY <1>2, <2>1, <2>2, Attempted
<1>13. CASE Unreachable(r)
  <2>1. u.pc = "await" /\ RefGoto(r, "failed")
        /\ UNCHANGED <<db, provider, api, served, history>> /\ faults' \in 0..MaxFaults
    BY <1>1, <1>13, RefreshAssumption DEF Unreachable
  <2>2. Rewritten(K) /\ SpenderGoes(r)
    BY <1>4, <1>5, <2>1 DEF history, Spending
  <2>3. PICK t \in RefRec(K) : /\ ref' = [ref EXCEPT ![r] = t] /\ t.pc = "failed"
                               /\ t.label = u.label
    BY <2>1, RefOn DEF RefSteps
  <2>4. RefFit(K, t)
    BY <1>2, <2>1, <2>3 DEF RefFit, Busy, Spending
  <2>. QED
    BY <1>1, <2>1, <2>2, <2>3, <2>4, RefCalm DEF Busy, Spending, db, history
<1>14. CASE ExchangeRefused(r)
  <2>1. u.pc = "await" /\ u.sent.gen \notin live /\ RefGoto(r, "refused")
        /\ UNCHANGED <<db, provider, api, served, faults, history>>
    BY <1>14 DEF ExchangeRefused
  <2>2. PICK t \in RefRec(K) : /\ ref' = [ref EXCEPT ![r] = t] /\ ref'[r] = t /\ t.pc = "refused"
                               /\ t.label = u.label /\ t.sent = u.sent
    BY <2>1, RefOn DEF RefSteps
  <2>3. RefFit(K, t) /\ t.sent.gen \in 0..minted
    BY <1>2, <1>7, <2>1, <2>2 DEF RefFit, Busy, Spending
  <2>4. Goes(r)
    BY <1>5, <2>1, <2>2, <2>3 DEF Goes, Verdict, Busy, Spending
  <2>. QED
    BY <1>6, <2>1, <2>2, <2>3, <2>4, RefMoved
<1>15. CASE DecideTracking(r)
  <2>1. u.pc = "granted" /\ UNCHANGED <<db, provider, api, served, faults, history>>
    BY <1>15 DEF DecideTracking, RefAt
  <2>2. PICK step \in {"store", "store_both"} : RefGoto(r, step) /\ (Tracks(r) => step = "store_both")
    BY <1>15 DEF DecideTracking
  <2>3. PICK t \in RefRec(K) : /\ ref' = [ref EXCEPT ![r] = t] /\ ref'[r] = t /\ t.pc = step
                               /\ t.label = u.label /\ t.sent = u.sent /\ t.auth = u.auth
    BY <2>2, RefOn DEF RefSteps
  <2>4. RefFit(K, t)
    BY <1>2, <2>1, <2>3 DEF RefFit, Busy, Spending
  <2>5. u.sent = active => step = "store_both"
    <3>1. u.sent \in K
      BY <1>2, <2>1 DEF RefFit, Busy, Spending
    <3>. QED
      BY <1>1, <2>2, <3>1 DEF Tracks
  <2>6. SpenderGoes(r)
    BY <1>6, <2>1, <2>3, <2>5 DEF SpenderGoes, Spending
  <2>7. Goes(r)
    BY <2>1, <2>3, <2>6 DEF Goes, Verdict, Busy, Spending
  <2>. QED
    BY <1>6, <2>1, <2>3, <2>4, <2>7, RefMoved
<1>16. CASE StoreRefreshed(r)
  <2>1. /\ u.pc \in {"store", "store_both"} /\ u.label \in Labels /\ u.auth \in K /\ u.sent \in K
        /\ u.sent.gen < u.auth.gen /\ u.sent.gen \in Nat /\ u.auth.gen \in Nat
        /\ UNCHANGED <<provider, api, served, faults, lost>> /\ RefGoto(r, "clear")
        /\ activeLabel' \in Labels \cup {None}
    BY <1>1, <1>2, <1>7, <1>16 DEF StoreRefreshed, RefAt, RefFit, Spending, Busy
  <2>2. PICK ac : ac = IF u.pc = "store_both" THEN u.auth ELSE active
    OBVIOUS
  <2>3. File(Upsert(profiles, u.label, u.auth, FALSE), ac)
    BY <1>16, <2>2 DEF StoreRefreshed
  <2>4. Rewritten(K)
    BY <1>1, <2>1, <2>2, <2>3, TableUpsert, Filed DEF Inv
  <2>5. active' = ac /\ profiles'[u.label] = [acct |-> u.auth.acct, gen |-> u.auth.gen, reauth |-> FALSE]
    BY <1>1, <2>1, <2>3 DEF File, Upsert, Tables
  <2>6. SpenderGoes(r)
    BY <2>1, <2>2, <2>5 DEF SpenderGoes
  <2>7. PICK t \in RefRec(K) : /\ ref' = [ref EXCEPT ![r] = t] /\ t.pc = "clear"
                               /\ t.label = u.label
    BY <2>1, RefOn DEF RefSteps
  <2>8. RefFit(K, t)
    BY <2>1, <2>7 DEF RefFit, Busy, Spending
  <2>. QED
    BY <1>1, <2>1, <2>4, <2>6, <2>7, <2>8, RefCalm DEF Busy, Spending
<1>17. CASE ClearReauth(r)
  <2>1. /\ u.pc = "clear" /\ u.label \in Labels
        /\ UNCHANGED <<activeLabel, provider, api, served, faults, lost>>
        /\ File(SetReauth(profiles, u.label, FALSE), active)
    BY <1>2, <1>17 DEF ClearReauth, RefAt, RefFit
  <2>2. Rewritten(K)
    BY <1>1, <2>1, TableReauth, Filed DEF Inv
  <2>3. SpenderGoes(r)
    BY <1>5, <2>1 DEF Spending
  <2>4. CASE RefGoto(r, "next")
    BY <1>1, <2>1, <2>2, <2>3, <2>4, RefGone
  <2>5. CASE RefGoto(r, "lock")
    <3>1. PICK t \in RefRec(K) : /\ ref' = [ref EXCEPT ![r] = t] /\ t.pc = "lock"
                                 /\ t.label = u.label
      BY <2>5, RefOn DEF RefSteps
    <3>2. RefFit(K, t)
      BY <2>1, <3>1 DEF RefFit, Busy, Spending
    <3>. QED
      BY <1>1, <2>1, <2>2, <2>3, <3>1, <3>2, RefCalm DEF Busy, Spending
  <2>. QED
    BY <1>17, <2>4, <2>5 DEF ClearReauth
<1>18. CASE HandleFailure(r)
  <2>1. u.pc \in {"failed", "refused"} /\ u.label \in Labels
        /\ UNCHANGED <<db, provider, api, served, faults, history>>
    BY <1>2, <1>18 DEF HandleFailure, RefAt, RefFit
  <2>2. SpenderGoes(r)
    BY <1>5, <2>1 DEF Spending
  <2>3. CASE RefGoto(r, "next")
    BY <1>6, <2>1, <2>2, <2>3, RefGone
  <2>4. CASE RefGoto(r, "clear")
    <3>1. PICK t \in RefRec(K) : /\ ref' = [ref EXCEPT ![r] = t] /\ t.pc = "clear"
                                 /\ t.label = u.label
      BY <2>4, RefOn DEF RefSteps
    <3>2. RefFit(K, t)
      BY <2>1, <3>1 DEF RefFit, Busy, Spending
    <3>. QED
      BY <1>6, <2>1, <2>2, <3>1, <3>2, RefCalm DEF Busy, Spending
  <2>5. PICK row : row = profiles[u.label]
    OBVIOUS
  <2>6. PICK b : b = IF row = None THEN NoAuth ELSE AuthOf(row)
    OBVIOUS
  <2>7. CASE /\ u.pc = "refused" /\ ~(row # None /\ row.gen > u.seen)
             /\ ref' = [ref EXCEPT ![r] = [@ EXCEPT !.pc = "flag", !.auth = b]]
    <3> DEFINE t == [u EXCEPT !.pc = "flag", !.auth = b]
    <3>1. b \in K \cup {NoAuth} /\ (row # None => b.gen = row.gen)
      BY <1>3, <2>1, <2>5, <2>6
    <3>2. t \in RefRec(K) /\ t.pc = "flag" /\ t.label = u.label /\ t.auth = b
          /\ t.sent = u.sent /\ t.seen = u.seen
      BY <1>2, <3>1 DEF RefRec, RefSteps
    <3>3. ref' = [ref EXCEPT ![r] = t]
      BY <2>7
    <3> HIDE DEF t
    <3>4. ref'[r] = t
      BY <3>3 DEF Inv, Loops
    <3>5. b.gen \in 0..minted /\ u.sent.gen \in 0..minted /\ u.seen \in Nat /\ minted \in Nat
      BY <1>2, <1>7, <3>1, ProfilesAssumption DEF RefRec, Inv, Typed
    <3>6. b.gen <= u.seen
      BY <1>3, <2>1, <2>5, <2>6, <2>7, <3>1, <3>5 DEF NoAuth
    <3>7. u.seen <= u.sent.gen /\ u.sent.gen <= b.gen => b.gen = u.sent.gen
      BY <3>5, <3>6
    <3>8. Verdict(t) /\ RefFit(K, t)
      BY <1>2, <2>1, <2>7, <3>2, <3>7 DEF Verdict, RefFit, Busy, Spending
    <3>9. Goes(r)
      BY <2>2, <3>2, <3>4, <3>5, <3>8 DEF Goes, Busy, Spending
    <3>. QED
      BY <1>6, <2>1, <3>2, <3>3, <3>8, <3>9, RefMoved
  <2>. QED
    BY <1>18, <2>1, <2>3, <2>4, <2>5, <2>6, <2>7 DEF HandleFailure, RefAt
<1>19. CASE FlagReauth(r)
  <2>1. /\ u.pc = "flag" /\ u.label \in Labels /\ RefGoto(r, "next")
        /\ UNCHANGED <<activeLabel, provider, api, served, faults, lost>>
        /\ File(SetReauth(profiles, u.label, TRUE), active)
    BY <1>2, <1>19 DEF FlagReauth, RefAt, RefFit
  <2>2. Rewritten(K)
    BY <1>1, <2>1, TableReauth, Filed DEF Inv
  <2>3. SpenderGoes(r)
    BY <1>5, <2>1 DEF Spending
  <2>. QED
    BY <1>1, <2>1, <2>2, <2>3, RefGone
<1>20. CASE CrashRefresher(r)
  <2>1. UNCHANGED <<db, provider, api, served, stale, seats>> /\ faults' \in 0..MaxFaults
        /\ ref' = [ref EXCEPT ![r] = IdleRef]
    BY <1>1, <1>20, RefreshAssumption DEF CrashRefresher
  <2>2. lost \subseteq lost' /\ lost' \subseteq Gens /\ (u.pc \in Spending => u.sent.gen \in lost')
    <3>1. u.pc \in Spending => u.sent.gen \in Gens
      BY <1>1, <1>2, RowFacts DEF RefFit, Busy
    <3>. QED
      BY <1>1, <1>20, <3>1 DEF CrashRefresher, Spending
  <2>3. SpenderGoes(r)
    BY <2>2 DEF SpenderGoes
  <2>4. UNCHANGED <<api, provider, served>> /\ activeLabel' \in Labels \cup {None} /\ Rewritten(K)
    BY <1>1, <1>4, <2>1 DEF db
  <2>. QED
    BY <2>1, <2>2, <2>3, <2>4, RestRec, RefCalm DEF Busy, Spending
<1>. QED
  BY <1>8, <1>9, <1>10, <1>11, <1>12, <1>13, <1>14, <1>15, <1>16, <1>17, <1>18, <1>19, <1>20

-----------------------------------------------------------------------------
(* The invariant holds                                                       *)

\* Time passes, or nothing happens.
LEMMA CalmStep ==
    ASSUME NEW K, Inv(K), aged' \in 0..minted,
           UNCHANGED <<db, minted, live, api, ref, served, faults, history>>
    PROVE  Inv(K)'
<1>1. Rewritten(K) /\ UNCHANGED <<active, api, ref, minted, live, served, faults, lost>>
      /\ UNCHANGED activeLabel
  BY Untouched DEF Inv, db, history
<1>2. Further(K)
  BY <1>1, ProfilesAssumption DEF Further, Grants, Inv, Typed
<1>3. Handlers(K)' /\ Loops(K)'
  BY <1>1, HandlersStay, LoopsStay DEF Inv
<1>4. \A q \in Refreshers : Goes(q)
  BY <1>1, GoesSame
<1>. QED
  BY <1>1, <1>2, <1>3, <1>4, Moved DEF OneMoves

LEMMA InitInv ==
    ASSUME Init
    PROVE  IInv
<1>1. PICK who \in [1..Before -> Accounts] :
         /\ profiles = [l \in Labels |->
              IF l \in 1..Before THEN [acct |-> who[l], gen |-> l, reauth |-> FALSE] ELSE None]
         /\ active = IF Before = 0 THEN None ELSE AuthOf(profiles[Before])
  BY DEF Init
<1> DEFINE K == {[acct |-> who[l], gen |-> l] : l \in 1..Before}
<1>2. Before \in Nat /\ Before <= MaxGen /\ 1..Before \subseteq Gens /\ 1..Before \subseteq Labels
      /\ MaxGen \in Nat
  BY ProfilesAssumption, RefreshAssumption DEF Gens
<1>3. K \subseteq Auth /\ Knows(K, Before)
  BY <1>2 DEF Auth, Knows
<1>4. \A l \in 1..Before : profiles[l] \in RowsOf(K) /\ AuthOf(profiles[l]) \in K
                           /\ profiles[l].gen = l
  BY <1>1, <1>2 DEF RowsOf, Row, AuthOf
<1>5. \A l \in Labels : profiles[l] # None => l \in 1..Before
  BY <1>1
<1> HIDE DEF K
<1>6. profiles \in Tables(K)
  BY <1>1, <1>4 DEF Tables
<1>7. active \in K \cup {None} /\ (active # None => active.gen = Before)
  <2>1. CASE Before = 0
    BY <1>1, <2>1
  <2>2. CASE Before # 0
    <3>1. Before \in 1..Before
      BY <1>2, <2>2
    <3>. QED
      BY <1>1, <1>4, <2>2, <3>1 DEF AuthOf
  <2>. QED
    BY <2>1, <2>2
<1>8. /\ minted = Before /\ aged = 0 /\ live = 1..Before /\ served = 0 /\ faults = 0
      /\ lost = {} /\ stale = {} /\ seats = [g \in Gens |-> {g} \cap (1..Before)]
      /\ activeLabel = IF Before = 0 THEN None ELSE Before
      /\ api = [w \in ApiWorkers |-> IdleApi] /\ ref = [r \in Refreshers |-> IdleRef]
  BY DEF Init
<1>9. Typed(K)
  BY <1>2, <1>3, <1>6, <1>7, <1>8, RefreshAssumption DEF Typed
<1>10. Handlers(K)
  <2>1. IdleApi \in ApiRec(K) /\ ApiFit(K, IdleApi, active)
    BY DEF IdleApi, ApiRec, ApiSteps, ApiFit
  <2>. QED
    BY <1>8, <2>1 DEF Handlers
<1>11. Loops(K) /\ \A r \in Refreshers : ref[r].pc = "idle"
  BY <1>8, RestRec DEF Loops
<1>12. Seated /\ RowsExplained
  BY <1>2, <1>4, <1>5, <1>8, <1>11 DEF Seated, RowsExplained, Busy, Spending
<1>13. ActiveExplained
  <2>1. active # None => Before # 0
    BY <1>1
  <2>. QED
    BY <1>2, <1>7, <1>8, <2>1 DEF ActiveExplained
<1>14. Alone /\ AsksExplained /\ \A r \in Refreshers : Verdict(ref[r])
  BY <1>11 DEF Alone, AsksExplained, Verdict, Busy, Spending
<1>. QED
  BY <1>3, <1>9, <1>10, <1>11, <1>12, <1>13, <1>14 DEF IInv, Inv

LEMMA NextInv ==
    ASSUME IInv, [Next]_vars
    PROVE  IInv'
<1>1. PICK K \in SUBSET Auth : Inv(K)
  BY DEF IInv
<1>2. Inv(K)' => IInv'
  BY DEF IInv
<1>3. CASE \E w \in ApiWorkers : ApiStep(w) \/ CrashApi(w)
  BY <1>1, <1>2, <1>3, RequestStep, HandlerStep DEF ApiStep
<1>4. CASE \E r \in Refreshers : RefreshStep(r) \/ CrashRefresher(r)
  BY <1>1, <1>2, <1>4, ExchangeStep, LoopStep DEF RefreshStep
<1>5. CASE Age
  <2>1. aged' \in 0..minted /\ UNCHANGED <<db, minted, live, api, ref, served, faults, history>>
    BY <1>1, <1>5, ProfilesAssumption DEF Age, Inv, Typed
  <2>. QED
    BY <1>1, <1>2, <2>1, CalmStep
<1>6. CASE UNCHANGED vars
  <2>1. aged' \in 0..minted /\ UNCHANGED <<db, minted, live, api, ref, served, faults, history>>
    BY <1>1, <1>6 DEF vars, db, history, Inv, Typed
  <2>. QED
    BY <1>1, <1>2, <2>1, CalmStep
<1>. QED
  BY <1>3, <1>4, <1>5, <1>6 DEF Next

LEMMA InvHolds == Spec => []IInv
<1>1. Init => IInv
  BY InitInv
<1>2. IInv /\ [Next]_vars => IInv'
  BY NextInv
<1>. QED
  BY <1>1, <1>2, PTL DEF Spec

-----------------------------------------------------------------------------
(* What a step does to the rows                                              *)

\* A row goes by request, in place of another of its account, or torn.
Removal(l) ==
    \/ \E w \in ApiWorkers : api'[w].op = "delete" \/ Torn(w)
    \/ \E k \in Labels \ {l} : /\ profiles[k] # None
                               /\ profiles[l] # None => profiles[l].acct = profiles[k].acct

RowsChange(K) ==
    \/ UNCHANGED profiles
    \/ \E l \in Labels, a \in K : profiles' = Upsert(profiles, l, a, FALSE)
    \/ \E l \in Labels : profiles' = SetReauth(profiles, l, FALSE)
    \/ \E r \in Refreshers : /\ ref[r].pc = "flag" /\ ref[r].label \in Labels
                             /\ profiles' = SetReauth(profiles, ref[r].label, TRUE)
    \/ \E l \in Labels : Removal(l) /\ profiles' = [profiles EXCEPT ![l] = None]
    \/ \E old, new \in Labels :
          /\ old # new /\ profiles[old] # None /\ profiles[new] = None
          /\ profiles' = [profiles EXCEPT ![new] = profiles[old], ![old] = None]

LEMMA HandlerRows ==
    ASSUME NEW K, Inv(K), NEW w \in ApiWorkers, ApiStep(w)
    PROVE  RowsChange(K)
<1>1. ApiFit(K, api[w], active)
  BY DEF Inv, Handlers
<1>2. UNCHANGED profiles => RowsChange(K)
  BY DEF RowsChange
<1>3. \A l \in Labels, a \in K : profiles' = Upsert(profiles, l, a, FALSE) => RowsChange(K)
  BY DEF RowsChange
<1>4. CASE Delete(w)
  <2>1. PICK l \in Labels : /\ Serve(w, "delete", "unset", l, NoAuth)
                            /\ profiles' = [profiles EXCEPT ![l] = None]
    BY <1>4 DEF Delete, File, Used
  <2>2. api'[w].op = "delete"
    BY <2>1 DEF Serve, IdleApi, Inv, Handlers
  <2>. QED
    BY <2>1, <2>2 DEF RowsChange, Removal
<1>5. CASE Rename(w)
  <2>1. PICK old \in Labels, new \in Labels :
           /\ old # new /\ profiles[old] # None
           /\ profiles[new] # None => profiles[new].acct = profiles[old].acct
           /\ profiles' = [profiles EXCEPT ![new] = None]
    BY <1>5 DEF Rename, File, Used
  <2>2. Removal(new)
    BY <2>1 DEF Removal
  <2>. QED
    BY <2>1, <2>2 DEF RowsChange
<1>6. CASE Choose(w)
  <2>1. \A l \in TargetLabels(profiles, activeLabel, IF api[w].op = "relay" THEN active ELSE api[w].auth,
                              api[w].label) : l \in Labels
    BY ListedIn DEF TargetLabels, Holding, Used, Inv, Handlers, ApiRec
  <2>2. UNCHANGED profiles \/ \E l \in Labels : profiles' = SetReauth(profiles, l, FALSE)
    BY <1>6, <2>1 DEF Choose, File
  <2>. QED
    BY <2>2 DEF RowsChange
<1>7. CASE DropDuplicate(w)
  <2> DEFINE who == api[w].auth.acct
             dups == DuplicatesOf(profiles, api[w].label, who)
  <2>1. At(w, "dedupe") /\ (dups = {} => UNCHANGED profiles)
        /\ (dups # {} => profiles' = [profiles EXCEPT ![First(dups)] = None])
    BY <1>7 DEF DropDuplicate, File
  <2>2. CASE dups # {}
    <3>1. dups \subseteq Labels
      BY DEF DuplicatesOf, Holding, Used
    <3>2. PICK l : l = First(dups)
      OBVIOUS
    <3>3. l \in Holding(profiles, who) /\ l # api[w].label
      BY <2>2, <3>1, <3>2, FirstIn DEF DuplicatesOf
    <3>4. Removal(l)
      <4>1. CASE Torn(w)
        BY <4>1 DEF Removal
      <4>2. CASE api[w].label \in Holding(profiles, who)
        BY <3>3, <4>2 DEF Removal, Holding, Used
      <4>. QED
        BY <2>1, <4>1, <4>2 DEF Torn, At
    <3>5. l \in Labels /\ profiles' = [profiles EXCEPT ![l] = None]
      BY <2>1, <2>2, <3>2, <3>3 DEF Holding, Used
    <3>. QED
      BY <3>4, <3>5 DEF RowsChange
  <2>. QED
    BY <1>2, <2>1, <2>2
<1>8. CASE SaveUnderLabel(w)
  BY <1>1, <1>3, <1>8 DEF SaveUnderLabel, At, ApiFit, File
<1>9. CASE Track(w)
  BY <1>1, <1>3, <1>9 DEF Track, At, ApiFit, File
<1>10. CASE Copy(w)
  BY <1>1, <1>3, <1>10 DEF Copy, At, ApiFit, File
<1>11. CASE Move(w)
  <2>1. api[w].label \in Labels /\ api[w].auth.gen \in Labels
    BY <1>1, <1>11 DEF Move, At, ApiFit
  <2>2. \/ UNCHANGED profiles
        \/ /\ profiles[api[w].label] # None /\ profiles[api[w].auth.gen] = None
           /\ profiles' = [profiles EXCEPT ![api[w].auth.gen] = profiles[api[w].label],
                                           ![api[w].label] = None]
    BY <1>11 DEF Move, File
  <2>. QED
    BY <2>1, <2>2 DEF RowsChange
<1>12. CASE \/ Login(w) \/ Reconcile(w) \/ ImportCurrent(w) \/ Switch(w) \/ Limits(w)
  BY <1>2, <1>12 DEF Login, Reconcile, ImportCurrent, Switch, Limits, db
<1>13. CASE \/ Publish(w) \/ WriteActive(w) \/ ReadActive(w) \/ SetLabel(w) \/ CopyRead(w)
            \/ Unset(w) \/ Relabel(w)
  BY <1>2, <1>13 DEF Publish, WriteActive, ReadActive, SetLabel, CopyRead, Unset, Relabel, File, db
<1>. QED
  BY <1>4, <1>5, <1>6, <1>7, <1>8, <1>9, <1>10, <1>11, <1>12, <1>13 DEF ApiStep

LEMMA LoopRows ==
    ASSUME NEW K, Inv(K), NEW r \in Refreshers, RefreshStep(r)
    PROVE  RowsChange(K)
<1>1. RefFit(K, ref[r])
  BY DEF Inv, Loops
<1>2. UNCHANGED profiles => RowsChange(K)
  BY DEF RowsChange
<1>3. \A l \in Labels, a \in K : profiles' = Upsert(profiles, l, a, FALSE) => RowsChange(K)
  BY DEF RowsChange
<1>4. CASE Recover(r)
  BY <1>1, <1>3, <1>4 DEF Recover, RefAt, RefFit, File
<1>5. CASE StoreRefreshed(r)
  BY <1>1, <1>3, <1>5 DEF StoreRefreshed, RefAt, RefFit, Spending, File
<1>6. CASE ClearReauth(r)
  BY <1>1, <1>6 DEF ClearReauth, RefAt, RefFit, File, RowsChange
<1>7. CASE FlagReauth(r)
  BY <1>1, <1>7 DEF FlagReauth, RefAt, RefFit, File, RowsChange
<1>8. CASE \/ BeginPass(r) \/ NextProfile(r) \/ RecoverRead(r) \/ TryRefresh(r)
           \/ ExchangeGranted(r) \/ AnswerLost(r) \/ Unreachable(r) \/ ExchangeRefused(r)
           \/ DecideTracking(r) \/ HandleFailure(r)
  BY <1>2, <1>8 DEF BeginPass, NextProfile, RecoverRead, TryRefresh, ExchangeGranted, AnswerLost,
     Unreachable, ExchangeRefused, DecideTracking, HandleFailure, db
<1>. QED
  BY <1>4, <1>5, <1>6, <1>7, <1>8 DEF RefreshStep

LEMMA StepRows ==
    ASSUME NEW K, Inv(K), [Next]_vars
    PROVE  RowsChange(K)
<1>1. CASE \E w \in ApiWorkers : CrashApi(w)
  BY <1>1 DEF CrashApi, db, RowsChange
<1>2. CASE \E r \in Refreshers : CrashRefresher(r)
  BY <1>2 DEF CrashRefresher, db, RowsChange
<1>3. CASE Age \/ UNCHANGED vars
  BY <1>3 DEF Age, db, vars, RowsChange
<1>. QED
  BY <1>1, <1>2, <1>3, HandlerRows, LoopRows DEF Next

-----------------------------------------------------------------------------
(* The theorems                                                              *)

\* The tables, the active auth, the provider's generations, the positions of
\* every handler and refresh loop and the histories stay in their types,
\* whatever requests, passes, faults and crashes come (main.py 3721-3951,
\* 5230-5426; account_usage_store.py 966-1288).
THEOREM RefreshTyped == Spec => []TypeOK
<1>1. ASSUME IInv PROVE TypeOK
  <2>1. PICK K \in SUBSET Auth : Inv(K)
    BY <1>1 DEF IInv
  <2>2. profiles \in Table /\ active \in Auth \cup {None}
    BY <2>1 DEF Inv, Typed, Tables, RowsOf, Table
  <2>3. minted \in 0..MaxGen /\ aged \in 0..MaxGen /\ live \subseteq Gens
    BY <2>1, ProfilesAssumption DEF Inv, Typed, Gens
  <2>4. \A w \in ApiWorkers : api[w].pc \in ApiSteps /\ api[w].label \in Labels \cup {None}
    BY <2>1 DEF Inv, Handlers, ApiRec
  <2>5. \A r \in Refreshers : ref[r].pc \in RefSteps /\ ref[r].label \in Labels \cup {None}
    BY <2>1 DEF Inv, Loops, RefRec
  <2>. QED
    BY <2>1, <2>2, <2>3, <2>4, <2>5 DEF TypeOK, Inv, Typed
<1>. QED
  BY <1>1, InvHolds, PTL

\* The provider refuses a refresh token a worker sends only because the answer
\* to an earlier exchange of it was lost, it was filed under a second label, or
\* a handler wrote it back after it was spent: the lock of a label and the read
\* under it let no two workers spend one token (main.py 3721-3804).
THEOREM RefusalsExplained == Spec => []RefusalExplained
<1>1. ASSUME IInv PROVE RefusalExplained
  <2> SUFFICES ASSUME NEW r \in Refreshers, ref[r].pc = "refused"
               PROVE  \/ ref[r].sent.gen \in lost \cup stale
                      \/ Cardinality(seats[ref[r].sent.gen]) > 1
    BY DEF RefusalExplained
  <2>1. PICK K \in SUBSET Auth : Inv(K)
    BY <1>1 DEF IInv
  <2>2. PICK g : g = ref[r].sent.gen
    OBVIOUS
  <2>3. g \in Gens
    BY <2>1, <2>2, RowFacts DEF Inv, Loops, RefFit
  <2>4. Told(g)
    BY <2>1, <2>2 DEF Inv, AsksExplained, Verdict
  <2>5. CASE Twice(seats[g])
    <3>1. PICK S : S = seats[g]
      OBVIOUS
    <3>2. S \subseteq Labels /\ IsFiniteSet(S)
      BY <2>1, <2>3, <3>1, ProfilesAssumption, FS_Subset DEF Inv, Typed
    <3>3. PICK x \in S, y \in S : x # y
      BY <2>5, <3>1 DEF Twice
    <3>4. Cardinality(S) \in Nat /\ Cardinality(S) # 0 /\ Cardinality(S) # 1
      BY <3>2, <3>3, FS_CardinalityType, FS_EmptySet, FS_Singleton
    <3>. QED
      BY <2>2, <3>1, <3>4
  <2>. QED
    BY <2>2, <2>4, <2>5 DEF Told
<1>. QED
  BY <1>1, InvHolds, PTL

\* The active auth, which clients and the limits handler use, never keeps
\* tokens a refresh has spent: a worker replaces it with the profile's, unless
\* it died or lost the answer, or a handler made spent tokens active later
\* (main.py 3721-3840).
THEOREM ActiveFollows == Spec => []ActiveFollowsRefresh
<1>1. ASSUME IInv PROVE ActiveFollowsRefresh
  <2>1. ActiveExplained
    BY <1>1 DEF IInv, Inv
  <2>. QED
    BY <2>1 DEF ActiveExplained, ActiveFollowsRefresh
<1>. QED
  BY <1>1, InvHolds, PTL

\* The last profile of an account goes only when it is deleted or another
\* account's tokens are written over it, and never in the removal of
\* duplicates, in a rename or in what a crash leaves of them (main.py
\* 5230-5393).
THEOREM AccountsKept == Spec => AccountNotLost
<1>1. ASSUME IInv, [Next]_vars, NEW a \in Accounts, Saved(profiles, a), ~Saved(profiles', a)
      PROVE  \/ \E w \in ApiWorkers : api'[w].op = "delete" \/ Torn(w)
             \/ \E l \in Holding(profiles, a) : profiles'[l] # None
  <2>1. PICK K \in SUBSET Auth : Inv(K)
    BY <1>1 DEF IInv
  <2>2. RowsChange(K)
    BY <1>1, <2>1, StepRows
  <2>3. PICK h \in Labels : profiles[h] # None /\ profiles[h].acct = a
    BY <1>1 DEF Saved, Holding, Used
  <2>4. h \in Holding(profiles, a)
    BY <2>3 DEF Holding, Used
  <2>5. \A l \in Labels : profiles'[l] # None => profiles'[l].acct # a
    BY <1>1 DEF Saved, Holding, Used
  <2>6. /\ profiles \in Tables(K) /\ None \notin RowsOf(K)
        /\ \A l \in Labels : profiles[l] \in RowsOf(K) \cup {None}
    BY <2>1, RowFacts DEF Inv, Typed, Tables
  <2>7. ASSUME NEW l \in Labels, NEW b \in K, profiles' = Upsert(profiles, l, b, FALSE)
        PROVE  profiles'[h] # None
    <3>1. [acct |-> b.acct, gen |-> b.gen, reauth |-> FALSE] \in RowsOf(K)
      BY <2>1, RowFacts
    <3>2. CASE h = l
      BY <2>6, <2>7, <3>1, <3>2 DEF Upsert, Tables
    <3>3. CASE h # l
      BY <2>3, <2>6, <2>7, <3>3 DEF Upsert, Tables
    <3>. QED
      BY <3>2, <3>3
  <2>8. ASSUME NEW l \in Labels, NEW flag \in BOOLEAN, profiles' = SetReauth(profiles, l, flag)
        PROVE  profiles'[h] # None
    <3>1. profiles'[h] = profiles[h] \/ profiles'[h] = [profiles[h] EXCEPT !.reauth = flag]
      BY <2>6, <2>8 DEF SetReauth, Tables
    <3>2. profiles[h] \in Row
      BY <2>3, <2>6 DEF RowsOf
    <3>3. [profiles[h] EXCEPT !.reauth = flag] \in Row
      BY <3>2 DEF Row
    <3>. QED
      BY <2>3, <3>1, <3>3, ProfilesAssumption
  <2>9. ASSUME NEW l \in Labels, Removal(l), profiles' = [profiles EXCEPT ![l] = None]
        PROVE  \/ \E w \in ApiWorkers : api'[w].op = "delete" \/ Torn(w)
               \/ profiles'[h] # None
    <3>1. \A k \in Labels \ {l} : profiles'[k] = profiles[k]
      BY <2>6, <2>9 DEF Tables
    <3>2. CASE h # l
      BY <2>3, <3>1, <3>2
    <3>3. CASE h = l
      BY <2>3, <2>5, <2>9, <3>1, <3>3 DEF Removal
    <3>. QED
      BY <3>2, <3>3
  <2>10. ASSUME NEW old \in Labels, NEW new \in Labels, old # new, profiles[new] = None,
                profiles' = [profiles EXCEPT ![new] = profiles[old], ![old] = None]
         PROVE  profiles'[h] # None
    <3>1. profiles'[new] = profiles[old] /\ \A k \in Labels \ {old, new} : profiles'[k] = profiles[k]
      BY <2>6, <2>10 DEF Tables
    <3>2. h # old
      BY <2>3, <2>5, <3>1
    <3>. QED
      BY <2>3, <2>10, <3>1, <3>2
  <2>. QED
    BY <2>2, <2>3, <2>4, <2>7, <2>8, <2>9, <2>10 DEF RowsChange
<1>2. ASSUME IInv, [Next]_vars
      PROVE  [\A a \in Accounts : Saved(profiles, a) /\ ~Saved(profiles', a) =>
               \/ \E w \in ApiWorkers : api'[w].op = "delete" \/ Torn(w)
               \/ \E l \in Holding(profiles, a) : profiles'[l] # None]_vars
  BY <1>1, <1>2
<1>. QED
  BY <1>2, InvHolds, PTL DEF Spec, AccountNotLost

\* A profile is marked as in need of a new login only when the provider refuses
\* the tokens the worker found there after the failure, unless they were
\* replaced after that look or older ones came back (main.py 3914-3951).
THEOREM FlagsTruthful == Spec => FlagTruthful
<1>1. ASSUME IInv, [Next]_vars, NEW l \in Labels,
             profiles[l] # None, ~profiles[l].reauth, profiles'[l] # None, profiles'[l].reauth
      PROVE  \/ profiles[l].gen \notin live
             \/ \E r \in Refreshers :
                  /\ ref[r].pc = "flag" /\ ref[r].label = l
                  /\ \/ ref[r].auth # AuthOf(profiles[l])
                     \/ ~(ref[r].seen <= ref[r].sent.gen /\ ref[r].sent.gen <= profiles[l].gen)
  <2>1. PICK K \in SUBSET Auth : Inv(K)
    BY <1>1 DEF IInv
  <2>2. RowsChange(K)
    BY <1>1, <2>1, StepRows
  <2>3. profiles \in Tables(K) /\ \A r \in Refreshers : Verdict(ref[r])
    BY <2>1 DEF Inv, Typed
  <2>4. \A k \in Labels, b \in K : profiles' # Upsert(profiles, k, b, FALSE)
    BY <1>1, <2>3 DEF Upsert, Tables
  <2>5. profiles[l] \in Row
    BY <1>1, <2>3 DEF Tables, RowsOf
  <2>6. \A k \in Labels : profiles' # SetReauth(profiles, k, FALSE)
    BY <1>1, <2>3, <2>5 DEF SetReauth, Tables, Row
  <2>7. \A k \in Labels : profiles' # [profiles EXCEPT ![k] = None]
    BY <1>1, <2>3 DEF Tables
  <2>8. \A old, new \in Labels : profiles[new] = None =>
           profiles' # [profiles EXCEPT ![new] = profiles[old], ![old] = None]
    BY <1>1, <2>3 DEF Tables
  <2>9. ASSUME NEW r \in Refreshers, ref[r].pc = "flag", ref[r].label \in Labels,
               profiles' = SetReauth(profiles, ref[r].label, TRUE)
        PROVE  \/ profiles[l].gen \notin live
               \/ /\ ref[r].label = l
                  /\ \/ ref[r].auth # AuthOf(profiles[l])
                     \/ ~(ref[r].seen <= ref[r].sent.gen /\ ref[r].sent.gen <= profiles[l].gen)
    <3>1. ref[r].label = l
      BY <1>1, <2>3, <2>9 DEF SetReauth, Tables
    <3>2. ref[r].auth = AuthOf(profiles[l]) => ref[r].auth.gen = profiles[l].gen
      BY DEF AuthOf
    <3>. QED
      BY <2>3, <2>9, <3>1, <3>2 DEF Verdict
  <2>. QED
    BY <1>1, <2>2, <2>4, <2>6, <2>7, <2>8, <2>9 DEF RowsChange
<1>2. ASSUME IInv, [Next]_vars
      PROVE  [\A l \in Labels :
        /\ profiles[l] # None /\ ~profiles[l].reauth
        /\ profiles'[l] # None /\ profiles'[l].reauth
        => \/ profiles[l].gen \notin live
           \/ \E r \in Refreshers :
                /\ ref[r].pc = "flag" /\ ref[r].label = l
                /\ \/ ref[r].auth # AuthOf(profiles[l])
                   \/ ~(ref[r].seen <= ref[r].sent.gen /\ ref[r].sent.gen <= profiles[l].gen)]_vars
  BY <1>1, <1>2
<1>. QED
  BY <1>2, InvHolds, PTL DEF Spec, FlagTruthful
=============================================================================
