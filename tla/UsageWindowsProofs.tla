-------------------------- MODULE UsageWindowsProofs --------------------------
(* Proofs about UsageWindows for any accounts, tasks, lengths of windows and  *)
(* amounts of usage.                                                          *)
EXTENDS UsageWindows, FiniteSetTheorems, WellFoundedInduction, TLAPS

-----------------------------------------------------------------------------
(* The inductive invariant                                                   *)

\* The provider's window has not ended, and its usage was spent.
ProviderOK == now < prov.reset /\ prov.used <= prov.spent

\* A reading that is being saved is of the provider's present window, and then
\* not above its usage, or of one that has ended.
ReadingOK(x, p, t, n) ==
    x.pc # "idle" =>
        /\ x.key \in Keys /\ x.no <= n /\ x.since <= t
        /\ x.reset <= t \/ (x.reset = p.reset /\ x.used <= p.used)

\* Of two readings of one window the later one says more.
InFetchOrder(x, y) ==
    /\ x.pc # "idle" /\ y.pc # "idle"
    /\ x.reset = y.reset /\ x.no <= y.no
    => x.used <= y.used

ReadersOK ==
    /\ \A r \in Readers : ReadingOK(reader[r], prov, now, reads)
    /\ \A r, s \in Readers : InFetchOrder(reader[r], reader[s])

\* The lifetime usage of account a was spent before the provider's window
\* began, or a counts that window and knows no more of it than any reading
\* that may still be saved in order.
CountOK(a, p, rs, latest) ==
    \/ a.life <= p.spent - p.used
    \/ /\ a.refreshAt = p.reset /\ a.used <= p.used
       /\ a.life - a.used <= p.spent - p.used
       /\ \A r \in Readers : rs[r].pc # "idle" /\ rs[r].reset = p.reset /\ latest <= rs[r].no
              => a.used <= rs[r].used

InOrder(windows) ==
    \A v, w \in windows : v # w => v.end # w.end /\ (v.end < w.end => v.end <= w.start)

\* Recorded windows are over, and end before the current one does and where it
\* starts at the latest.
WindowsOK(a, windows, t) ==
    /\ InOrder(windows)
    /\ \A w \in windows : w.end <= t /\ w.end < a.refreshAt /\ a.last # None /\ w.end <= a.last

AccountOK(k) ==
    /\ accounts[k] = None => rollovers[k] = {}
    /\ accounts[k] # None /\ k \notin disturbed =>
          /\ CountOK(accounts[k], prov, reader, newest[k])
          /\ WindowsOK(accounts[k], rollovers[k], now)

IInv ==
    /\ TypeOK /\ ProviderOK /\ ReadersOK
    /\ \A k \in Keys : newest[k] <= reads
    /\ \A k \in Keys : AccountOK(k)

LEMMA InitHolds == Init => IInv
<1> SUFFICES ASSUME Init PROVE IInv
  OBVIOUS
<1>1. \A r \in Readers : reader[r] = IdleReader /\ IdleReader \in Reading
  BY UsageAssumption DEF Init, IdleReader, Reading, Times
<1>2. prov \in [used : 0..MaxUse, reset : Nat, spent : 0..MaxUse] /\ ProviderOK
  BY UsageAssumption DEF Init, ProviderOK
<1>3. TypeOK
  BY <1>1, <1>2, UsageAssumption DEF Init, TypeOK, Times
<1>4. ReadersOK
  BY <1>1 DEF ReadersOK, ReadingOK, InFetchOrder, IdleReader
<1>. QED
  BY <1>2, <1>3, <1>4, UsageAssumption DEF Init, IInv, AccountOK

-----------------------------------------------------------------------------
(* Rolling over                                                              *)

\* A bounded set of integers has its maximum.
LEMMA MaxIsMax ==
    ASSUME NEW S \in SUBSET Int, S # {}, NEW b \in Int, \A x \in S : x <= b
    PROVE  Max(S) \in S /\ \A x \in S : x <= Max(S)
<1> DEFINE R == {p \in Nat \X Nat : p[1] < p[2]}
           D == {b - x : x \in S}
<1>1. \A x \in S : b - x \in Nat
  OBVIOUS
<1>2. D \subseteq Nat /\ D # {}
  BY <1>1
<1>3. IsWellFoundedOn(R, Nat)
  BY NatLessThanWellFounded DEF OpToRel
<1>4. \E m \in D : \A y \in D : <<y, m>> \notin R
  <2> HIDE DEF D, R
  <2>. QED
    BY <1>2, <1>3, WFMin
<1>5. PICK x \in S : \A y \in S : <<b - y, b - x>> \notin R
  BY <1>4
<1>6. ASSUME NEW y \in S PROVE x >= y
  <2>1. b - y \in Nat /\ b - x \in Nat
    BY <1>1
  <2>2. ~(b - y < b - x)
    BY <1>5, <2>1
  <2>. QED
    BY <2>2
<1>. QED
  BY <1>6 DEF Max

LEMMA LengthType == \A type : Length(type) \in Nat \ {0}
BY UsageAssumption DEF Length

LEMMA BoundaryType ==
    ASSUME NEW t \in Int, NEW type
    PROVE  NextBoundary(t, type) \in Int /\ t < NextBoundary(t, type)
<1> DEFINE n == Length(type)
<1>1. n \in Nat \ {0}
  BY LengthType
<1> HIDE DEF n
<1>2. t \div n \in Int /\ t % n \in 0..(n - 1) /\ t = n * (t \div n) + (t % n)
  BY <1>1
<1>3. (t \div n + 1) * n = n * (t \div n) + n /\ (t \div n + 1) * n \in Int
  BY <1>1, <1>2
<1>4. t < (t \div n + 1) * n
  BY <1>1, <1>2, <1>3
<1>. QED
  BY <1>3, <1>4 DEF NextBoundary, n

\* The ends of the windows that are over start with the refresh that is due.
LEMMA EndsFacts ==
    ASSUME NEW a \in Account, NEW moment \in Int
    PROVE  /\ Ends(a, moment) \subseteq Int
           /\ \A e \in Ends(a, moment) : a.refreshAt <= e /\ e <= moment
           /\ Ends(a, moment) # {} => a.refreshAt \in Ends(a, moment)
           /\ a.refreshAt > moment => Ends(a, moment) = {}
           /\ Ends(a, moment) # {} =>
                 /\ Max(Ends(a, moment)) \in Ends(a, moment)
                 /\ \A e \in Ends(a, moment) : e <= Max(Ends(a, moment))
<1>1. a.refreshAt \in Int
  BY DEF Account
<1>2. /\ Ends(a, moment) \subseteq Int
      /\ \A e \in Ends(a, moment) : a.refreshAt <= e /\ e <= moment
      /\ Ends(a, moment) # {} => a.refreshAt \in Ends(a, moment)
      /\ a.refreshAt > moment => Ends(a, moment) = {}
  BY <1>1 DEF Ends
<1>. QED
  BY <1>2, MaxIsMax

\* The end before e, where the window that ends at e starts.
LEMMA EndBefore ==
    ASSUME NEW a \in Account, NEW moment \in Int,
           NEW e \in Ends(a, moment), e # a.refreshAt
    PROVE  LET earlier == {f \in Ends(a, moment) : f < e}
           IN  Max(earlier) \in Int /\ \A f \in earlier : f <= Max(earlier)
<1> DEFINE earlier == {f \in Ends(a, moment) : f < e}
<1>1. e \in Int /\ earlier \subseteq Int /\ \A f \in earlier : f <= e
  BY EndsFacts
<1>2. a.refreshAt \in earlier
  BY EndsFacts DEF Account
<1> HIDE DEF earlier
<1>3. Max(earlier) \in earlier /\ \A f \in earlier : f <= Max(earlier)
  BY <1>1, <1>2, MaxIsMax
<1>. QED
  BY <1>1, <1>3 DEF earlier

LEMMA RolledFacts ==
    ASSUME NEW a \in Account, NEW moment \in Int
    PROVE  /\ Rolled(a, moment) \in Account
           /\ Rolled(a, moment).life = a.life
           /\ a.refreshAt > moment => Rolled(a, moment) = a
<1> DEFINE end == Max(Ends(a, moment))
           b == [a EXCEPT !.used = 0, !.last = end, !.refreshAt = NextBoundary(end, a.type)]
<1>1. CASE Ends(a, moment) = {}
  BY <1>1 DEF Rolled
<1>2. CASE Ends(a, moment) # {}
  <2>1. end \in Int /\ ~(a.refreshAt > moment)
    BY <1>2, EndsFacts
  <2>2. NextBoundary(end, a.type) \in Int
    BY <2>1, BoundaryType
  <2>3. b \in Account /\ b.life = a.life
    <3> DEFINE next == NextBoundary(end, a.type)
    <3> HIDE DEF end, next
    <3>. QED
      BY <2>1, <2>2 DEF Account, next
  <2>4. Rolled(a, moment) = b
    BY <1>2 DEF Rolled
  <2>. QED
    BY <2>1, <2>3, <2>4
<1>. QED
  BY <1>1, <1>2

\* The window that ends at e.
StartOf(a, moment, e) ==
    IF e = a.refreshAt THEN Started(a) ELSE Max({f \in Ends(a, moment) : f < e})

Ending(a, moment, e) ==
    [start |-> StartOf(a, moment, e), end |-> e, used |-> IF e = a.refreshAt THEN a.used ELSE 0]

LEMMA ElapsedFacts ==
    ASSUME NEW a \in Account, NEW moment \in Int
    PROVE  /\ Elapsed(a, moment) \subseteq Window
           /\ Ends(a, moment) = {} => Elapsed(a, moment) = {}
           /\ \A w \in Elapsed(a, moment) :
                 w.end \in Ends(a, moment) /\ w.start = StartOf(a, moment, w.end)
           /\ \A v, w \in Elapsed(a, moment) : v # w => v.end # w.end
<1>1. Elapsed(a, moment) = {Ending(a, moment, e) : e \in Ends(a, moment)}
  BY DEF Elapsed, Ending, StartOf
<1>2. ASSUME NEW e \in Ends(a, moment)
      PROVE  /\ Ending(a, moment, e) \in Window
             /\ Ending(a, moment, e).end = e
             /\ Ending(a, moment, e).start = StartOf(a, moment, e)
  <2>1. e \in Int /\ a.used \in Nat
    BY EndsFacts DEF Account
  <2>2. Started(a) \in Int
    BY LengthType DEF Started, PreviousBoundary, Account
  <2>3. StartOf(a, moment, e) \in Int
    BY <2>2, EndBefore DEF StartOf
  <2>. QED
    BY <2>1, <2>3 DEF Window, Ending
<1>. QED
  BY <1>1, <1>2

\* Rolling over keeps the windows in order and adds to them.
LEMMA RolledInOrder ==
    ASSUME NEW a \in Account, NEW windows \in SUBSET Window, NEW t \in Int,
           WindowsOK(a, windows, t), NEW moment \in Int, moment <= t
    PROVE  WindowsOK(Rolled(a, moment), RolledWindows(windows, a, moment), t)
<1> DEFINE new == Elapsed(a, moment)
           b == Rolled(a, moment)
<1>0. a.refreshAt \in Int /\ \A w \in windows : w.start \in Int /\ w.end \in Int
  BY DEF Account, Window
<1>1. CASE Ends(a, moment) = {}
  <2>1. b = a /\ new = {}
    BY <1>1, ElapsedFacts DEF Rolled
  <2>2. RolledWindows(windows, a, moment) = windows
    BY <2>1 DEF RolledWindows, Inserted
  <2>. QED
    BY <2>1, <2>2
<1>2. CASE Ends(a, moment) # {}
  <2> DEFINE end == Max(Ends(a, moment))
  <2>1. end \in Int /\ a.refreshAt <= end /\ end <= t
    BY <1>2, EndsFacts, <1>0
  <2>2. b = [a EXCEPT !.used = 0, !.last = end, !.refreshAt = NextBoundary(end, a.type)]
    BY <1>2 DEF Rolled
  <2>3. b.last = end /\ b.refreshAt \in Int /\ end < b.refreshAt
    <3>1. b.last = end /\ b.refreshAt = NextBoundary(end, a.type)
      <4> DEFINE next == NextBoundary(end, a.type)
      <4> HIDE DEF end, next, b
      <4>. QED
        BY <2>2 DEF Account, next
    <3>. QED
      BY <2>1, <3>1, BoundaryType
  <2>4. \A w \in new : w.start \in Int /\ w.end \in Int /\ a.refreshAt <= w.end /\ w.end <= end
    BY <1>2, ElapsedFacts, EndsFacts DEF Window
  <2>5. \A v \in windows : v.end < a.refreshAt /\ a.last # None /\ v.end <= a.last
    BY DEF WindowsOK
  <2>6. \A v \in windows, w \in new : v.end < w.end /\ v.end <= w.start
    <3> SUFFICES ASSUME NEW v \in windows, NEW w \in new PROVE v.end < w.end /\ v.end <= w.start
      OBVIOUS
    <3>1. v.end < w.end
      BY <1>0, <2>4, <2>5
    <3>2. CASE w.end = a.refreshAt
      <4>1. w.start = a.last
        BY <2>5, <3>2, ElapsedFacts DEF StartOf, Started
      <4>. QED
        BY <2>5, <3>1, <4>1
    <3>3. CASE w.end # a.refreshAt
      <4>1. w.end \in Ends(a, moment) /\ w.start = Max({f \in Ends(a, moment) : f < w.end})
        BY <3>3, ElapsedFacts DEF StartOf
      <4>2. a.refreshAt \in Ends(a, moment) /\ a.refreshAt < w.end
        BY <1>0, <1>2, <2>4, <3>3, EndsFacts
      <4>3. a.refreshAt <= w.start
        BY <3>3, <4>1, <4>2, EndBefore
      <4>. QED
        BY <1>0, <2>4, <2>5, <3>1, <4>3
    <3>. QED
      BY <3>2, <3>3
  <2>7. \A v, w \in new : v # w => v.end # w.end /\ (v.end < w.end => v.end <= w.start)
    <3> SUFFICES ASSUME NEW v \in new, NEW w \in new, v # w
                 PROVE  v.end # w.end /\ (v.end < w.end => v.end <= w.start)
      OBVIOUS
    <3>1. v.end \in Ends(a, moment) /\ w.end \in Ends(a, moment) /\ v.end # w.end
      BY ElapsedFacts
    <3>2. ASSUME v.end < w.end PROVE v.end <= w.start
      <4>1. w.end # a.refreshAt
        BY <1>0, <2>4, <3>2
      <4>2. w.start = Max({f \in Ends(a, moment) : f < w.end})
        BY <4>1, ElapsedFacts DEF StartOf
      <4>. QED
        BY <3>1, <3>2, <4>1, <4>2, EndBefore
    <3>. QED
      BY <3>1, <3>2
  <2> DEFINE all == RolledWindows(windows, a, moment)
  <2>8. all \subseteq windows \cup new
    BY DEF RolledWindows, Inserted
  <2>9. InOrder(all)
    <3>1. \A v \in windows, w \in new : ~(w.end < v.end)
      BY <1>0, <2>4, <2>6
    <3> HIDE DEF new, all
    <3>2. \A v, w \in windows : v # w => v.end # w.end /\ (v.end < w.end => v.end <= w.start)
      BY DEF WindowsOK, InOrder
    <3>3. \A v \in windows, w \in new : v.end # w.end
      BY <1>0, <2>4, <2>6
    <3>. QED
      BY <2>6, <2>7, <2>8, <3>1, <3>2, <3>3 DEF InOrder
  <2>10. \A w \in all : w.end <= t /\ w.end < b.refreshAt /\ b.last # None /\ w.end <= b.last
    <3>1. \A w \in windows : w.end <= end
      BY <1>0, <2>1, <2>5
    <3>2. \A w \in all : w.end \in Int /\ w.end <= end
      BY <1>0, <2>4, <2>8, <3>1
    <3> HIDE DEF all, end, b
    <3>. QED
      BY <2>1, <2>3, <3>2, UsageAssumption
  <2>. QED
    BY <2>9, <2>10 DEF WindowsOK
<1>. QED
  BY <1>1, <1>2

-----------------------------------------------------------------------------
(* What counts and what is being saved                                       *)

Provider == [used : 0..MaxUse, reset : Nat, spent : 0..MaxUse]

LEMMA MaxOfTwo ==
    ASSUME NEW m \in Int, NEW n \in Int
    PROVE  Max({m, n}) = IF m >= n THEN m ELSE n
<1> DEFINE S == {m, n}
           b == IF m >= n THEN m ELSE n
<1>1. S \in SUBSET Int /\ S # {} /\ b \in Int /\ \A x \in S : x <= b
  OBVIOUS
<1>2. Max(S) \in S /\ \A x \in S : x <= Max(S)
  <2> HIDE DEF S, b
  <2>. QED
    BY <1>1, MaxIsMax
<1>. QED
  BY <1>2

\* Readings end, or go on with what they read.
Remain(before, after) ==
    \A r \in Readers : after[r].pc # "idle" =>
        /\ before[r].pc # "idle" /\ after[r].key = before[r].key
        /\ after[r].reset = before[r].reset /\ after[r].no = before[r].no
        /\ after[r].used = before[r].used

LEMMA RemainCount ==
    ASSUME NEW a, NEW p, NEW n, NEW before, NEW after, Remain(before, after),
           CountOK(a, p, before, n)
    PROVE  CountOK(a, p, after, n)
BY DEF Remain, CountOK

LEMMA RolledCount ==
    ASSUME NEW a \in Account, NEW p \in Provider, NEW rs, NEW n, CountOK(a, p, rs, n),
           NEW moment \in Int, moment < p.reset
    PROVE  CountOK(Rolled(a, moment), p, rs, n)
<1> DEFINE b == Rolled(a, moment)
<1>1. b.life = a.life /\ (a.refreshAt > moment => b = a) /\ p.reset \in Int
  BY RolledFacts DEF Provider
<1>2. CASE a.life <= p.spent - p.used
  BY <1>1, <1>2 DEF CountOK
<1>3. CASE ~(a.life <= p.spent - p.used)
  <2>1. a.refreshAt = p.reset
    BY <1>3 DEF CountOK
  <2>2. b = a
    BY <1>1, <2>1
  <2>. QED
    BY <2>2
<1>. QED
  BY <1>2, <1>3

\* The row as sync_account_usage_snapshot writes it.
SyncedAccount(a, x, type) == [Counted(a, x.used) EXCEPT !.type = type, !.refreshAt = x.reset]

LEMMA SyncedFacts ==
    ASSUME NEW a \in Account, NEW x \in Reading, NEW type \in Types
    PROVE  LET c == SyncedAccount(a, x, type) IN
           /\ c \in Account /\ c.refreshAt = x.reset /\ c.used = x.used /\ c.last = a.last
           /\ c.life = IF x.used >= a.used THEN a.life + (x.used - a.used) ELSE a.life
<1> DEFINE life == IF x.used >= a.used THEN a.life + (x.used - a.used) ELSE a.life
<1>1. life \in Nat /\ x.used \in Nat /\ x.reset \in Int
  BY UsageAssumption DEF Account, Reading
<1>2. Counted(a, x.used) = [a EXCEPT !.used = x.used, !.life = life]
  BY DEF Counted
<1>3. SyncedAccount(a, x, type)
        = [[a EXCEPT !.used = x.used, !.life = life] EXCEPT !.type = type, !.refreshAt = x.reset]
  BY <1>2 DEF SyncedAccount
<1> HIDE DEF life
<1>4. LET c == SyncedAccount(a, x, type) IN
      /\ c \in Account /\ c.refreshAt = x.reset /\ c.used = x.used /\ c.last = a.last
      /\ c.life = life
  <2> DEFINE b == [a EXCEPT !.used = x.used, !.life = life]
  <2>1. b \in Account /\ b.used = x.used /\ b.life = life /\ b.last = a.last
    BY <1>1 DEF Account
  <2>2. type \in {"daily", "monthly"}
    BY UsageAssumption
  <2>3. SyncedAccount(a, x, type) = [b EXCEPT !.type = type, !.refreshAt = x.reset]
    BY <1>3
  <2> HIDE DEF b
  <2>. QED
    BY <1>1, <2>1, <2>2, <2>3 DEF Account
<1>. QED
  BY <1>4 DEF life

\* A reading of the present window that is saved in order counts what was spent
\* in it once.
LEMMA SyncedCount ==
    ASSUME NEW a \in Account, NEW p \in Provider, p.used <= p.spent,
           NEW rs, NEW after, Remain(rs, after), NEW n \in Int,
           NEW r \in Readers, \A s \in Readers : rs[s] \in Reading,
           rs[r].pc # "idle", rs[r].reset = p.reset, n <= rs[r].no, rs[r].used <= p.used,
           \A s \in Readers : InFetchOrder(rs[r], rs[s]),
           CountOK(a, p, rs, n), NEW type \in Types
    PROVE  CountOK(SyncedAccount(a, rs[r], type), p, after, rs[r].no)
<1> DEFINE x == rs[r]
           c == SyncedAccount(a, x, type)
           early == p.spent - p.used
<1>1. /\ c.refreshAt = p.reset /\ c.used = x.used
      /\ c.life = IF x.used >= a.used THEN a.life + (x.used - a.used) ELSE a.life
  BY SyncedFacts
<1>2. a.life \in Nat /\ a.used \in Nat /\ x.used \in Nat /\ early \in Nat
  BY UsageAssumption DEF Account, Reading, Provider
<1>3. \A s \in Readers : after[s].pc # "idle" /\ after[s].reset = p.reset /\ x.no <= after[s].no
                            => c.used <= after[s].used
  BY <1>1 DEF Remain, InFetchOrder
<1>4. c.life <= early \/ c.life - c.used <= early
  <2>1. CASE a.life <= early
    BY <1>1, <1>2, <2>1
  <2>2. CASE ~(a.life <= early)
    <3>1. a.life - a.used <= early /\ a.used <= x.used
      BY <2>2 DEF CountOK
    <3>. QED
      BY <1>1, <1>2, <3>1
  <2>. QED
    BY <2>1, <2>2
<1>. QED
  BY <1>1, <1>3, <1>4 DEF CountOK

LEMMA NewAccountFacts ==
    ASSUME NEW type \in {"daily", "monthly"}, NEW refreshAt \in Int, NEW last \in Int \cup {None}
    PROVE  LET a == NewAccount(type, refreshAt, last) IN
           /\ a \in Account
           /\ \A t : WindowsOK(a, {}, t)
           /\ \A p \in Provider : \A rs, n : p.used <= p.spent => CountOK(a, p, rs, n)
<1> DEFINE a == NewAccount(type, refreshAt, last)
<1>1. a \in Account /\ a.life = 0
  BY DEF NewAccount, Account
<1>2. \A t : WindowsOK(a, {}, t)
  BY DEF WindowsOK, InOrder
<1>3. ASSUME NEW p \in Provider, NEW rs, NEW n, p.used <= p.spent PROVE CountOK(a, p, rs, n)
  <2>1. 0 <= p.spent - p.used
    BY <1>3, UsageAssumption DEF Provider
  <2>. QED
    BY <1>1, <2>1 DEF CountOK
<1>. QED
  BY <1>1, <1>2, <1>3

\* The row of an account that an operation finds or makes.
LEMMA FoundAccount ==
    ASSUME IInv, NEW k \in Keys,
           NEW type \in {"daily", "monthly"}, NEW refreshAt \in Int, NEW last \in Int \cup {None}
    PROVE  LET a == IF accounts[k] = None THEN NewAccount(type, refreshAt, last) ELSE accounts[k] IN
           /\ a \in Account
           /\ k \notin disturbed =>
                 CountOK(a, prov, reader, newest[k]) /\ WindowsOK(a, rollovers[k], now)
<1>1. prov \in Provider /\ prov.used <= prov.spent /\ AccountOK(k)
      /\ (accounts[k] # None => accounts[k] \in Account)
  BY DEF IInv, TypeOK, Provider, ProviderOK
<1>2. CASE accounts[k] = None
  BY <1>1, <1>2, NewAccountFacts DEF AccountOK
<1>3. CASE accounts[k] # None
  BY <1>1, <1>3 DEF AccountOK
<1>. QED
  BY <1>2, <1>3

\* The row is rolled over and saved with its windows.
LEMMA RolledOK ==
    ASSUME IInv, NEW k \in Keys, NEW a \in Account, NEW moment \in Int, moment <= now,
           k \notin disturbed =>
              CountOK(a, prov, reader, newest[k]) /\ WindowsOK(a, rollovers[k], now)
    PROVE  /\ Rolled(a, moment) \in Account
           /\ RolledWindows(rollovers[k], a, moment) \in SUBSET Window
           /\ k \notin disturbed =>
                 /\ CountOK(Rolled(a, moment), prov, reader, newest[k])
                 /\ WindowsOK(Rolled(a, moment), RolledWindows(rollovers[k], a, moment), now)
<1>1. /\ prov \in Provider /\ rollovers[k] \in SUBSET Window /\ now \in Int
      /\ now < prov.reset /\ prov.reset \in Int
  BY UsageAssumption DEF IInv, TypeOK, Times, Provider, ProviderOK
<1>2. Rolled(a, moment) \in Account
  BY RolledFacts
<1>3. RolledWindows(rollovers[k], a, moment) \in SUBSET Window
  BY <1>1, ElapsedFacts DEF RolledWindows, Inserted
<1>4. moment < prov.reset
  BY <1>1
<1>. QED
  BY <1>1, <1>2, <1>3, <1>4, RolledCount, RolledInOrder

-----------------------------------------------------------------------------
(* Every step keeps the invariant                                            *)

\* Steps that change accounts only.
LEMMA AccountsChange ==
    ASSUME IInv, UNCHANGED <<now, prov, reader, reads, history>>,
           accounts' \in [Keys -> Account \cup {None}],
           rollovers' \in [Keys -> SUBSET Window],
           \A k \in Keys : AccountOK(k)'
    PROVE  IInv'
<1>1. TypeOK'
  BY DEF IInv, TypeOK, history
<1>2. ProviderOK' /\ ReadersOK' /\ \A k \in Keys : newest'[k] <= reads'
  BY DEF IInv, ProviderOK, ReadersOK, history
<1>. QED
  BY <1>1, <1>2 DEF IInv

LEMMA TouchInv == IInv /\ Touch => IInv'
<1> SUFFICES ASSUME IInv, Touch PROVE IInv'
  OBVIOUS
<1> DEFINE k == Canonical
           a == IF accounts[k] = None THEN NewAccount("daily", NextBoundary(now, "daily"), None)
                ELSE accounts[k]
           b == Rolled(a, now)
           windows == RolledWindows(rollovers[k], a, now)
<1>1. k \in Keys /\ now \in Int /\ NextBoundary(now, "daily") \in Int
  BY UsageAssumption, BoundaryType DEF IInv, TypeOK, Times
<1>2. /\ a \in Account
      /\ k \notin disturbed => CountOK(a, prov, reader, newest[k]) /\ WindowsOK(a, rollovers[k], now)
  BY <1>1, FoundAccount
<1>3. Save(k, b, windows) /\ UNCHANGED <<now, prov, reader, reads, history>>
  BY DEF Touch
<1> HIDE DEF k, a
<1>4. /\ b \in Account /\ windows \in SUBSET Window
      /\ k \notin disturbed => CountOK(b, prov, reader, newest[k]) /\ WindowsOK(b, windows, now)
  BY <1>1, <1>2, RolledOK
<1> HIDE DEF b, windows
<1>5. /\ accounts \in [Keys -> Account \cup {None}] /\ rollovers \in [Keys -> SUBSET Window]
      /\ \A j \in Keys : AccountOK(j)
  BY DEF IInv, TypeOK
<1>6. /\ accounts' \in [Keys -> Account \cup {None}] /\ rollovers' \in [Keys -> SUBSET Window]
      /\ accounts'[k] = b /\ rollovers'[k] = windows
      /\ \A j \in Keys \ {k} : accounts'[j] = accounts[j] /\ rollovers'[j] = rollovers[j]
  BY <1>1, <1>3, <1>4, <1>5 DEF Save
<1>7. AccountOK(k)'
  BY <1>3, <1>4, <1>6, UsageAssumption DEF AccountOK, history
<1>8. \A j \in Keys \ {k} : AccountOK(j)'
  BY <1>3, <1>5, <1>6 DEF AccountOK, history
<1>. QED
  BY <1>3, <1>6, <1>7, <1>8, AccountsChange

LEMMA ReconcileInv == IInv /\ ReconcileDue => IInv'
<1> SUFFICES ASSUME IInv, ReconcileDue PROVE IInv'
  OBVIOUS
<1>1. now \in Int /\ UNCHANGED <<now, prov, reader, reads, history>>
  BY UsageAssumption DEF IInv, TypeOK, Times, ReconcileDue
<1>2. ASSUME NEW k \in Keys
      PROVE  /\ accounts'[k] \in Account \cup {None} /\ rollovers'[k] \in SUBSET Window
             /\ AccountOK(k)'
  <2>1. AccountOK(k) /\ accounts[k] \in Account \cup {None} /\ rollovers[k] \in SUBSET Window
    BY DEF IInv, TypeOK
  <2>2. CASE k \in DueKeys
    <3>1. /\ accounts[k] \in Account
          /\ k \notin disturbed =>
                CountOK(accounts[k], prov, reader, newest[k]) /\ WindowsOK(accounts[k], rollovers[k], now)
      BY <2>1, <2>2 DEF DueKeys, AccountOK
    <3>2. accounts'[k] = Rolled(accounts[k], now)
          /\ rollovers'[k] = RolledWindows(rollovers[k], accounts[k], now)
      BY <2>2 DEF ReconcileDue
    <3>3. /\ accounts'[k] \in Account /\ rollovers'[k] \in SUBSET Window
          /\ k \notin disturbed =>
                CountOK(accounts'[k], prov, reader, newest[k]) /\ WindowsOK(accounts'[k], rollovers'[k], now)
      BY <1>1, <3>1, <3>2, RolledOK
    <3>. QED
      BY <1>1, <3>3, UsageAssumption DEF AccountOK, history
  <2>3. CASE k \notin DueKeys
    <3>1. accounts'[k] = accounts[k] /\ rollovers'[k] = rollovers[k]
      BY <2>3 DEF ReconcileDue
    <3>. QED
      BY <1>1, <2>1, <3>1 DEF AccountOK, history
  <2>. QED
    BY <2>2, <2>3
<1>3. accounts' \in [Keys -> Account \cup {None}] /\ rollovers' \in [Keys -> SUBSET Window]
  <2>1. accounts' = [k \in Keys |-> accounts'[k]] /\ rollovers' = [k \in Keys |-> rollovers'[k]]
    BY DEF ReconcileDue
  <2>. QED
    BY <1>2, <2>1
<1>. QED
  BY <1>1, <1>2, <1>3, AccountsChange

LEMMA DeleteInv == IInv /\ Delete => IInv'
<1> SUFFICES ASSUME IInv, Delete PROVE IInv'
  OBVIOUS
<1>1. /\ accounts' \in [Keys -> Account \cup {None}] /\ rollovers' \in [Keys -> SUBSET Window]
      /\ accounts'[Canonical] = None /\ rollovers'[Canonical] = {}
      /\ \A j \in Keys \ {Canonical} : accounts'[j] = accounts[j] /\ rollovers'[j] = rollovers[j]
  BY UsageAssumption DEF IInv, TypeOK, Delete, Save
<1>2. UNCHANGED <<now, prov, reader, reads, history>>
  BY DEF Delete
<1>3. \A k \in Keys : AccountOK(k)'
  BY <1>1, <1>2 DEF IInv, AccountOK, history
<1>. QED
  BY <1>1, <1>2, <1>3, AccountsChange

\* Readings end or go on: what is known of the others stays known.
LEMMA RemainReaders ==
    ASSUME IInv, reader' \in [Readers -> Reading], Remain(reader, reader'),
           UNCHANGED <<now, prov, reads>>,
           \A r \in Readers : reader'[r].pc # "idle" => reader'[r].since <= now
    PROVE  ReadersOK'
<1>1. ASSUME NEW r \in Readers PROVE ReadingOK(reader[r], prov, now, reads)'
  <2>1. ReadingOK(reader[r], prov, now, reads)
    BY DEF IInv, ReadersOK
  <2>. QED
    BY <2>1 DEF Remain, ReadingOK
<1>2. ASSUME NEW r \in Readers, NEW s \in Readers PROVE InFetchOrder(reader[r], reader[s])'
  <2>1. InFetchOrder(reader[r], reader[s])
    BY DEF IInv, ReadersOK
  <2>. QED
    BY <2>1 DEF Remain, InFetchOrder
<1>. QED
  BY <1>1, <1>2 DEF ReadersOK

LEMMA AbandonInv == ASSUME NEW r \in Readers PROVE IInv /\ Abandon(r) => IInv'
<1> SUFFICES ASSUME IInv, Abandon(r) PROVE IInv'
  OBVIOUS
<1>1. IdleReader \in Reading /\ IdleReader.pc = "idle"
  BY UsageAssumption DEF IdleReader, Reading, Times
<1>2. UNCHANGED <<now, prov, accounts, rollovers, reads, newest, disturbed>>
  BY DEF Abandon, history
<1>3. reader' \in [Readers -> Reading] /\ Remain(reader, reader')
      /\ \A s \in Readers : reader'[s].pc # "idle" => reader'[s].since <= now
  BY <1>1 DEF Abandon, IInv, TypeOK, Remain, ReadersOK, ReadingOK
<1>4. ReadersOK'
  BY <1>2, <1>3, RemainReaders
<1>5. \A k \in Keys : AccountOK(k)'
  BY <1>2, <1>3, RemainCount DEF IInv, AccountOK
<1>. QED
  BY <1>2, <1>3, <1>4, <1>5 DEF IInv, TypeOK, ProviderOK

LEMMA FetchInv == ASSUME NEW r \in Readers PROVE IInv /\ Fetch(r) => IInv'
<1> SUFFICES ASSUME IInv, Fetch(r) PROVE IInv'
  OBVIOUS
<1>1. UNCHANGED <<now, prov, accounts, rollovers, newest, disturbed>> /\ reads' = reads + 1
      /\ reads < MaxReads
  BY DEF Fetch, history
<1>2. PICK k \in Keys, step \in {"percent", "usage"} :
        reader' = [reader EXCEPT ![r] = [pc |-> step, key |-> k, no |-> reads + 1,
                                         used |-> prov.used, reset |-> prov.reset, since |-> now]]
  BY DEF Fetch
<1> DEFINE x == [pc |-> step, key |-> k, no |-> reads + 1,
                 used |-> prov.used, reset |-> prov.reset, since |-> now]
<1>3. /\ reads \in Nat /\ prov.used \in Nat /\ prov.reset \in Nat /\ now \in Nat
      /\ prov.used \in 0..MaxUse /\ reads + 1 \in 0..MaxReads /\ now \in Times
  BY <1>1, UsageAssumption DEF IInv, TypeOK, Times
<1>4. /\ x \in Reading /\ x.pc # "idle" /\ x.key \in Keys
      /\ x.no = reads + 1 /\ x.used = prov.used /\ x.reset = prov.reset /\ x.since = now
  BY <1>3 DEF Reading
<1> HIDE DEF x
<1>5. /\ reader' \in [Readers -> Reading] /\ reader'[r] = x
      /\ \A s \in Readers \ {r} : reader'[s] = reader[s]
  BY <1>2, <1>4 DEF IInv, TypeOK, x
<1>6. \A s \in Readers : ReadingOK(reader[s], prov, now, reads) /\ reader[s] \in Reading
                         /\ reader[s].no \in Nat /\ reader[s].reset \in Nat
  BY UsageAssumption DEF IInv, ReadersOK, TypeOK, Reading
<1>7. ASSUME NEW s \in Readers PROVE ReadingOK(reader[s], prov, now, reads)'
  <2>1. CASE s = r
    BY <1>1, <1>3, <1>4, <1>5, <2>1 DEF ReadingOK
  <2>2. CASE s # r
    BY <1>1, <1>3, <1>5, <1>6, <2>2 DEF ReadingOK
  <2>. QED
    BY <2>1, <2>2
<1>8. ASSUME NEW s \in Readers \ {r}, reader[s].pc # "idle", reader[s].reset = prov.reset
      PROVE  reader[s].used <= prov.used /\ reader[s].no <= reads
  BY <1>3, <1>6, <1>8 DEF ReadingOK, IInv, ProviderOK
<1>9. ASSUME NEW s \in Readers, NEW t \in Readers PROVE InFetchOrder(reader'[s], reader'[t])
  <2>1. CASE s = r /\ t = r
    BY <1>3, <1>4, <1>5, <2>1 DEF InFetchOrder
  <2>2. CASE s # r /\ t # r
    BY <1>5, <2>2 DEF IInv, ReadersOK
  <2>3. CASE s = r /\ t # r
    <3>1. reader[t].pc # "idle" => ~(reads + 1 <= reader[t].no)
      BY <1>3, <1>6, <2>3 DEF ReadingOK
    <3>. QED
      BY <1>4, <1>5, <2>3, <3>1 DEF InFetchOrder
  <2>4. CASE s # r /\ t = r
    BY <1>4, <1>5, <1>8, <2>4 DEF InFetchOrder
  <2>. QED
    BY <2>1, <2>2, <2>3, <2>4
<1>10. ReadersOK'
  BY <1>7, <1>9 DEF ReadersOK
<1>11. ASSUME NEW j \in Keys PROVE AccountOK(j)'
  <2>1. AccountOK(j)
    BY DEF IInv
  <2>2. ASSUME CountOK(accounts[j], prov, reader, newest[j])
        PROVE  CountOK(accounts[j], prov, reader', newest[j])
    BY <1>4, <1>5, <2>2 DEF CountOK
  <2>. QED
    BY <1>1, <2>1, <2>2 DEF AccountOK
<1>12. TypeOK' /\ \A j \in Keys : newest'[j] <= reads'
  BY <1>1, <1>3, <1>5, UsageAssumption DEF IInv, TypeOK
<1>. QED
  BY <1>1, <1>10, <1>11, <1>12 DEF IInv, ProviderOK

LEMMA PercentagesInv == ASSUME NEW r \in Readers PROVE IInv /\ SyncPercentages(r) => IInv'
<1> SUFFICES ASSUME IInv, SyncPercentages(r) PROVE IInv'
  OBVIOUS
<1>0. PICK k \in Keys : k = reader[r].key
  BY DEF SyncPercentages, IInv, ReadersOK, ReadingOK
<1>1. PICK moment \in reader[r].since..now :
        /\ accounts' = [accounts EXCEPT ![k] =
               IF @ = None THEN NewAccount("daily", NextBoundary(moment, "daily"), moment)
               ELSE [@ EXCEPT !.last = moment]]
        /\ disturbed' = IF \E w \in rollovers[k] : moment < w.end
                        THEN disturbed \cup {k} ELSE disturbed
  BY <1>0 DEF SyncPercentages
<1>2. UNCHANGED <<now, prov, rollovers, reads, newest>> /\ reader[r].pc = "percent"
      /\ reader' = [reader EXCEPT ![r].pc = "usage", ![r].since = now]
  BY DEF SyncPercentages
<1>3. /\ reader[r] \in Reading /\ now \in Times /\ now \in Nat
      /\ moment \in Int /\ NextBoundary(moment, "daily") \in Int
  <2>1. reader[r] \in Reading /\ ReadingOK(reader[r], prov, now, reads) /\ now \in Times
    BY DEF IInv, TypeOK, ReadersOK
  <2>2. now \in Nat /\ moment \in Int
    BY <1>2, <2>1, UsageAssumption DEF ReadingOK, Reading, Times
  <2>. QED
    BY <2>1, <2>2, BoundaryType
<1> DEFINE x == [reader[r] EXCEPT !.pc = "usage", !.since = now]
<1>4. /\ x \in Reading /\ x.pc # "idle" /\ x.key = reader[r].key /\ x.reset = reader[r].reset
      /\ x.no = reader[r].no /\ x.used = reader[r].used /\ x.since = now
  BY <1>3 DEF Reading
<1>5. reader' = [reader EXCEPT ![r] = x]
  BY <1>2
<1> HIDE DEF x
<1>6. /\ reader' \in [Readers -> Reading] /\ Remain(reader, reader')
      /\ \A s \in Readers : reader'[s].pc # "idle" => reader'[s].since <= now
  <2>1. /\ reader' \in [Readers -> Reading] /\ reader'[r] = x
        /\ \A s \in Readers \ {r} : reader'[s] = reader[s]
    BY <1>4, <1>5 DEF IInv, TypeOK
  <2>2. \A s \in Readers : reader[s].pc # "idle" => reader[s].since <= now
    BY DEF IInv, ReadersOK, ReadingOK
  <2>3. x.since <= now /\ reader[r].pc # "idle"
    BY <1>2, <1>3, <1>4
  <2>. QED
    BY <1>4, <2>1, <2>2, <2>3 DEF Remain
<1>7. ReadersOK'
  BY <1>2, <1>6, RemainReaders
<1>8. disturbed \subseteq disturbed' /\ disturbed' \subseteq Keys
      /\ (k \notin disturbed' => \A w \in rollovers[k] : ~(moment < w.end))
  BY <1>1, <1>3 DEF IInv, TypeOK
<1> DEFINE b == IF accounts[k] = None THEN NewAccount("daily", NextBoundary(moment, "daily"), moment)
                ELSE [accounts[k] EXCEPT !.last = moment]
<1>9. /\ accounts[k] \in Account \cup {None} /\ AccountOK(k) /\ rollovers[k] \in SUBSET Window
      /\ prov \in Provider /\ prov.used <= prov.spent
      /\ accounts \in [Keys -> Account \cup {None}]
  BY <1>3 DEF IInv, TypeOK, Provider, ProviderOK
<1>10. /\ b \in Account
       /\ k \notin disturbed' => CountOK(b, prov, reader, newest[k]) /\ WindowsOK(b, rollovers[k], now)
  <2>1. CASE accounts[k] = None
    <3> DEFINE new == NewAccount("daily", NextBoundary(moment, "daily"), moment)
    <3>1. b = new /\ rollovers[k] = {}
      BY <1>9, <2>1 DEF AccountOK
    <3>2. /\ new \in Account /\ WindowsOK(new, {}, now)
          /\ CountOK(new, prov, reader, newest[k])
      BY <1>3, <1>9, NewAccountFacts
    <3> HIDE DEF new, b
    <3>. QED
      BY <3>1, <3>2
  <2>2. CASE accounts[k] # None
    <3> DEFINE a == accounts[k]
    <3>1. /\ a \in Account
          /\ k \notin disturbed' => CountOK(a, prov, reader, newest[k]) /\ WindowsOK(a, rollovers[k], now)
      BY <1>8, <1>9, <2>2 DEF AccountOK
    <3>2. b = [a EXCEPT !.last = moment]
      BY <2>2
    <3> HIDE DEF a, b
    <3>3. /\ b \in Account /\ b.life = a.life /\ b.used = a.used /\ b.refreshAt = a.refreshAt
          /\ b.last = moment
      BY <1>3, <3>1, <3>2 DEF Account
    <3>4. CountOK(a, prov, reader, newest[k]) => CountOK(b, prov, reader, newest[k])
      BY <3>3 DEF CountOK
    <3>5. k \notin disturbed' => \A w \in rollovers[k] : w.end <= moment
      BY <1>3, <1>8, <1>9 DEF Window
    <3>6. k \notin disturbed' /\ WindowsOK(a, rollovers[k], now) => WindowsOK(b, rollovers[k], now)
      BY <1>3, <3>3, <3>5, UsageAssumption DEF WindowsOK
    <3>. QED
      BY <3>1, <3>3, <3>4, <3>6 DEF b
  <2>. QED
    BY <2>1, <2>2
<1>11. accounts' = [accounts EXCEPT ![k] = b]
  BY <1>1
<1> HIDE DEF b
<1>12. /\ accounts' \in [Keys -> Account \cup {None}] /\ accounts'[k] = b
       /\ \A j \in Keys \ {k} : accounts'[j] = accounts[j]
  BY <1>3, <1>9, <1>10, <1>11
<1>13. AccountOK(k)'
  BY <1>2, <1>6, <1>10, <1>12, RemainCount, UsageAssumption DEF AccountOK
<1>14. ASSUME NEW j \in Keys \ {k} PROVE AccountOK(j)'
  <2>1. AccountOK(j)
    BY DEF IInv
  <2>. QED
    BY <1>2, <1>6, <1>8, <1>12, <2>1, RemainCount DEF AccountOK
<1>15. TypeOK'
  BY <1>2, <1>6, <1>8, <1>12 DEF IInv, TypeOK
<1>. QED
  BY <1>2, <1>7, <1>13, <1>14, <1>15 DEF IInv, ProviderOK

LEMMA UsageInv == ASSUME NEW r \in Readers PROVE IInv /\ SyncUsage(r) => IInv'
<1> SUFFICES ASSUME IInv, SyncUsage(r) PROVE IInv'
  OBVIOUS
<1>0. PICK x \in {reader[r]}, k \in Keys : k = reader[r].key
  BY DEF SyncUsage, IInv, ReadersOK, ReadingOK
<1>1. PICK moment \in x.since..now, type \in Types :
        LET a == IF accounts[k] = None THEN NewAccount(type, x.reset, None) ELSE accounts[k]
        IN  Save(k, SyncedAccount(Rolled(a, moment), x, type), RolledWindows(rollovers[k], a, moment))
  BY <1>0 DEF SyncUsage, SyncedAccount
<1>2. /\ x.pc = "usage" /\ UNCHANGED <<now, prov, reads>>
      /\ newest' = [newest EXCEPT ![k] = Max({@, x.no})]
      /\ disturbed' = IF x.no < newest[k] \/ x.reset <= now THEN disturbed \cup {k} ELSE disturbed
      /\ reader' = [reader EXCEPT ![r] = IdleReader]
  BY <1>0 DEF SyncUsage
<1>3. /\ x = reader[r] /\ x \in Reading /\ ReadingOK(x, prov, now, reads) /\ now \in Nat
      /\ x.no \in Nat /\ x.reset \in Nat /\ x.since \in Nat /\ reads \in Nat
  BY UsageAssumption DEF IInv, TypeOK, ReadersOK, Reading, Times
<1>4. x.no <= reads /\ moment \in Int /\ moment <= now
  BY <1>2, <1>3 DEF ReadingOK
<1>5. /\ accounts \in [Keys -> Account \cup {None}] /\ rollovers \in [Keys -> SUBSET Window]
      /\ newest \in [Keys -> 0..MaxReads] /\ newest[k] \in Nat /\ newest[k] <= reads
      /\ prov \in Provider /\ prov.used <= prov.spent /\ now < prov.reset /\ reads <= MaxReads
  BY <1>4, UsageAssumption DEF IInv, TypeOK, Provider, ProviderOK
<1> DEFINE a == IF accounts[k] = None THEN NewAccount(type, x.reset, None) ELSE accounts[k]
           b == Rolled(a, moment)
           c == SyncedAccount(b, x, type)
           windows == RolledWindows(rollovers[k], a, moment)
<1>6. /\ a \in Account
      /\ k \notin disturbed => CountOK(a, prov, reader, newest[k]) /\ WindowsOK(a, rollovers[k], now)
  <2>1. type \in {"daily", "monthly"} /\ x.reset \in Int
    BY <1>3, UsageAssumption
  <2>. QED
    BY <1>4, <2>1, FoundAccount
<1>7. Save(k, c, windows)
  BY <1>1
<1> HIDE DEF a
<1>8. /\ b \in Account /\ windows \in SUBSET Window
      /\ k \notin disturbed => CountOK(b, prov, reader, newest[k]) /\ WindowsOK(b, windows, now)
  BY <1>4, <1>6, RolledOK
<1> HIDE DEF b, windows
<1>9. c \in Account /\ c.refreshAt = x.reset /\ c.last = b.last
  BY <1>3, <1>8, SyncedFacts
<1>10. IdleReader \in Reading /\ IdleReader.pc = "idle"
  BY UsageAssumption DEF IdleReader, Reading, Times
<1>11. /\ reader' \in [Readers -> Reading] /\ Remain(reader, reader')
       /\ \A s \in Readers : reader'[s].pc # "idle" => reader'[s].since <= now
  BY <1>2, <1>10 DEF IInv, TypeOK, Remain, ReadersOK, ReadingOK
<1>12. ReadersOK'
  BY <1>2, <1>11, RemainReaders
<1>13. /\ newest' \in [Keys -> 0..MaxReads]
       /\ \A j \in Keys : newest'[j] <= reads
       /\ newest[k] <= x.no => newest'[k] = x.no
       /\ \A j \in Keys \ {k} : newest'[j] = newest[j]
  <2> DEFINE last == Max({newest[k], x.no})
  <2>1. last = IF newest[k] >= x.no THEN newest[k] ELSE x.no
    BY <1>3, <1>5, MaxOfTwo
  <2>2. last \in 0..MaxReads /\ last <= reads /\ (newest[k] <= x.no => last = x.no)
    BY <1>3, <1>4, <1>5, <2>1, UsageAssumption
  <2>3. newest' = [newest EXCEPT ![k] = last]
    BY <1>2
  <2> HIDE DEF last
  <2>. QED
    BY <1>4, <1>5, <2>2, <2>3 DEF IInv
<1>14. /\ disturbed \subseteq disturbed' /\ disturbed' \subseteq Keys
       /\ k \notin disturbed' => ~(x.no < newest[k]) /\ ~(x.reset <= now)
  BY <1>2, <1>4 DEF IInv, TypeOK
<1>15. ASSUME k \notin disturbed'
       PROVE  CountOK(c, prov, reader', newest'[k]) /\ WindowsOK(c, windows, now)
  <2>1. newest[k] <= x.no /\ now < x.reset /\ newest'[k] = x.no
    BY <1>3, <1>5, <1>13, <1>14, <1>15
  <2>2. x.reset = prov.reset /\ x.used <= prov.used /\ x.pc # "idle"
    BY <1>2, <1>3, <2>1 DEF ReadingOK
  <2>3. CountOK(b, prov, reader, newest[k]) /\ WindowsOK(b, windows, now)
    BY <1>8, <1>14, <1>15
  <2>4. CountOK(c, prov, reader', x.no)
    <3>1. /\ \A s \in Readers : reader[s] \in Reading
          /\ \A s \in Readers : InFetchOrder(reader[r], reader[s])
      BY DEF IInv, TypeOK, ReadersOK
    <3>2. newest[k] \in Int
      BY <1>5
    <3>. QED
      BY <1>3, <1>5, <1>8, <1>11, <2>1, <2>2, <2>3, <3>1, <3>2, SyncedCount
  <2>5. WindowsOK(c, windows, now)
    <3>1. \A w \in windows : w.end \in Int
      BY <1>8 DEF Window
    <3> HIDE DEF c
    <3>. QED
      BY <1>3, <1>9, <2>1, <2>3, <3>1 DEF WindowsOK
  <2>. QED
    BY <2>1, <2>4, <2>5
<1> HIDE DEF c
<1>16. /\ accounts' \in [Keys -> Account \cup {None}] /\ rollovers' \in [Keys -> SUBSET Window]
       /\ accounts'[k] = c /\ rollovers'[k] = windows
       /\ \A j \in Keys \ {k} : accounts'[j] = accounts[j] /\ rollovers'[j] = rollovers[j]
  BY <1>4, <1>5, <1>7, <1>8, <1>9 DEF Save
<1>17. AccountOK(k)'
  BY <1>2, <1>9, <1>15, <1>16, UsageAssumption DEF AccountOK
<1>18. ASSUME NEW j \in Keys \ {k} PROVE AccountOK(j)'
  <2>1. AccountOK(j)
    BY DEF IInv
  <2>. QED
    BY <1>2, <1>11, <1>13, <1>14, <1>16, <2>1, RemainCount DEF AccountOK
<1>19. TypeOK'
  BY <1>2, <1>11, <1>13, <1>14, <1>16 DEF IInv, TypeOK
<1>. QED
  BY <1>2, <1>12, <1>13, <1>17, <1>18, <1>19 DEF IInv, ProviderOK

LEMMA MergeInv == ASSUME NEW k \in Keys PROVE IInv /\ Merge(k) => IInv'
<1> SUFFICES ASSUME IInv, Merge(k) PROVE IInv'
  OBVIOUS
<1>1. /\ k # Canonical /\ Canonical \in Keys /\ accounts[k] \in Account
      /\ accounts \in [Keys -> Account \cup {None}] /\ rollovers \in [Keys -> SUBSET Window]
      /\ disturbed' = disturbed \cup {Canonical}
      /\ UNCHANGED <<now, prov, reader, reads, newest>>
  BY UsageAssumption DEF IInv, TypeOK, Merge
<1> DEFINE into == accounts[Canonical]
           row == IF into = None THEN accounts[k] ELSE MergedAccount(accounts[k], into)
           windows == MergedWindows(rollovers[k], rollovers[Canonical])
<1>2. row \in Account
  <2>1. ASSUME into # None PROVE MergedAccount(accounts[k], into) \in Account
    <3> DEFINE from == accounts[k]
               used == Max({into.used, from.used})
               life == Max({into.life, from.life})
               at == Max({into.refreshAt, from.refreshAt})
    <3>1. into \in Account /\ from \in Account
      BY <1>1, <2>1
    <3> HIDE DEF from, into
    <3>2. used \in Nat /\ life \in Nat /\ at \in Int
      BY <3>1, MaxOfTwo DEF Account
    <3>3. MergedAccount(from, into)
            = [into EXCEPT !.used = used, !.life = life, !.refreshAt = at,
                           !.last = IF @ = None THEN from.last ELSE @]
      BY DEF MergedAccount
    <3> HIDE DEF used, life, at
    <3>4. MergedAccount(from, into) \in Account
      BY <3>1, <3>2, <3>3 DEF Account
    <3>. QED
      BY <3>4 DEF from, into
  <2>. QED
    BY <1>1, <2>1
<1>3. windows \in SUBSET Window
  BY <1>1 DEF MergedWindows, Inserted
<1>4. accounts' = [accounts EXCEPT ![k] = None, ![Canonical] = row]
      /\ rollovers' = [rollovers EXCEPT ![k] = {}, ![Canonical] = windows]
  BY <1>1 DEF Merge
<1> HIDE DEF row, windows
<1>5. /\ accounts' \in [Keys -> Account \cup {None}] /\ rollovers' \in [Keys -> SUBSET Window]
      /\ accounts'[k] = None /\ rollovers'[k] = {} /\ accounts'[Canonical] = row
      /\ \A j \in Keys \ {k, Canonical} : accounts'[j] = accounts[j] /\ rollovers'[j] = rollovers[j]
  BY <1>1, <1>2, <1>3, <1>4
<1>6. ASSUME NEW j \in Keys PROVE AccountOK(j)'
  <2>1. CASE j = k
    BY <1>5, <2>1 DEF AccountOK
  <2>2. CASE j = Canonical
    BY <1>1, <1>2, <1>5, <2>2, UsageAssumption DEF AccountOK
  <2>3. CASE j \notin {k, Canonical}
    BY <1>1, <1>5, <2>3 DEF IInv, AccountOK
  <2>. QED
    BY <2>1, <2>2, <2>3
<1>7. TypeOK'
  BY <1>1, <1>5 DEF IInv, TypeOK
<1>. QED
  BY <1>1, <1>6, <1>7 DEF IInv, ProviderOK, ReadersOK

LEMMA UseInv == IInv /\ Use => IInv'
<1> SUFFICES ASSUME IInv, Use PROVE IInv'
  OBVIOUS
<1> DEFINE p == [prov EXCEPT !.used = @ + 1, !.spent = @ + 1]
<1>1. prov \in Provider /\ prov.spent < MaxUse /\ prov' = p /\ prov.used <= prov.spent
      /\ UNCHANGED <<now, accounts, rollovers, reader, reads, newest, disturbed>>
  BY DEF IInv, TypeOK, Provider, ProviderOK, Use, history
<1>2. /\ p \in Provider /\ p.used = prov.used + 1 /\ p.spent = prov.spent + 1
      /\ p.reset = prov.reset /\ prov.used \in Nat /\ prov.spent \in Nat
  <2> DEFINE used == prov.used + 1
             spent == prov.spent + 1
  <2>1. prov.used \in Nat /\ prov.spent \in Nat
    BY <1>1, UsageAssumption DEF Provider
  <2>2. used \in 0..MaxUse /\ spent \in 0..MaxUse
    BY <1>1, <2>1, UsageAssumption
  <2>3. p = [prov EXCEPT !.used = used, !.spent = spent]
    OBVIOUS
  <2> HIDE DEF p, used, spent
  <2>4. p \in Provider /\ p.used = used /\ p.spent = spent /\ p.reset = prov.reset
    BY <1>1, <2>2, <2>3 DEF Provider
  <2>. QED
    BY <2>1, <2>4 DEF used, spent
<1> HIDE DEF p
<1>3. p.spent - p.used = prov.spent - prov.used /\ p.used <= p.spent
  BY <1>1, <1>2
<1>4. ASSUME NEW r \in Readers PROVE ReadingOK(reader[r], p, now, reads)
  <2>1. ReadingOK(reader[r], prov, now, reads) /\ reader[r].used \in Nat
    BY UsageAssumption DEF IInv, TypeOK, ReadersOK, Reading
  <2>. QED
    BY <1>2, <2>1 DEF ReadingOK
<1>5. ReadersOK'
  BY <1>1, <1>4 DEF IInv, ReadersOK
<1>6. ASSUME NEW a \in Account, NEW n, CountOK(a, prov, reader, n) PROVE CountOK(a, p, reader, n)
  <2>1. a.used <= prov.used => a.used <= p.used
    BY <1>2 DEF Account
  <2>. QED
    BY <1>2, <1>3, <1>6, <2>1 DEF CountOK
<1>7. ASSUME NEW k \in Keys PROVE AccountOK(k)'
  <2>1. AccountOK(k) /\ (accounts[k] # None => accounts[k] \in Account)
    BY DEF IInv, TypeOK
  <2>. QED
    BY <1>1, <1>6, <2>1 DEF AccountOK
<1>8. TypeOK' /\ ProviderOK'
  BY <1>1, <1>2, <1>3 DEF IInv, TypeOK, Provider, ProviderOK
<1>. QED
  BY <1>1, <1>5, <1>7, <1>8 DEF IInv

LEMMA TickInv == IInv /\ Tick => IInv'
<1> SUFFICES ASSUME IInv, Tick PROVE IInv'
  OBVIOUS
<1> DEFINE p == IF now + 1 < prov.reset THEN prov
                ELSE [prov EXCEPT !.used = 0, !.reset = now + 1 + Span]
<1>1. prov \in Provider /\ prov.used <= prov.spent /\ now < prov.reset /\ now \in Nat
      /\ prov.reset \in Nat /\ prov.used \in Nat /\ prov.spent \in Nat /\ now < MaxTime
  BY UsageAssumption DEF IInv, TypeOK, Times, Provider, ProviderOK, Tick
<1>2. now' = now + 1 /\ prov' = p
      /\ UNCHANGED <<accounts, rollovers, reader, reads, newest, disturbed>>
  BY DEF Tick, history
<1>3. /\ p \in Provider /\ now + 1 < p.reset /\ p.used <= p.spent /\ p.spent = prov.spent
      /\ p.used \in Nat
      /\ p = prov \/ (prov.reset = now + 1 /\ p.used = 0)
  <2>1. CASE now + 1 < prov.reset
    BY <1>1, <2>1
  <2>2. CASE ~(now + 1 < prov.reset)
    <3>1. now + 1 + Span \in Nat /\ now + 1 < now + 1 + Span /\ prov.reset = now + 1
      BY <1>1, <2>2, UsageAssumption
    <3>2. p = [prov EXCEPT !.used = 0, !.reset = now + 1 + Span]
      BY <2>2
    <3> DEFINE reset == now + 1 + Span
    <3>3. reset \in Nat /\ 0 \in 0..MaxUse /\ p = [prov EXCEPT !.used = 0, !.reset = reset]
      BY <3>1, <3>2, UsageAssumption
    <3> HIDE DEF p, reset
    <3>4. /\ p \in Provider /\ p.used = 0 /\ p.spent = prov.spent /\ p.reset = reset
      BY <1>1, <3>3 DEF Provider
    <3>. QED
      BY <1>1, <3>1, <3>4 DEF reset
  <2>. QED
    BY <2>1, <2>2
<1> HIDE DEF p
<1>4. ASSUME NEW r \in Readers PROVE ReadingOK(reader[r], p, now + 1, reads)
  <2>1. /\ ReadingOK(reader[r], prov, now, reads)
        /\ reader[r].reset \in Nat /\ reader[r].since \in Nat
    BY UsageAssumption DEF IInv, TypeOK, ReadersOK, Reading, Times
  <2>. QED
    BY <1>1, <1>3, <2>1 DEF ReadingOK
<1>5. ReadersOK'
  BY <1>2, <1>4 DEF IInv, ReadersOK
<1>6. ASSUME NEW a \in Account, NEW n, CountOK(a, prov, reader, n) PROVE CountOK(a, p, reader, n)
  <2>1. CASE p = prov
    BY <1>6, <2>1
  <2>2. CASE p.used = 0
    <3>1. a.life \in Nat /\ a.used \in Nat
      BY DEF Account
    <3>2. a.life <= prov.spent
      BY <1>1, <1>6, <3>1 DEF CountOK
    <3>3. a.life <= p.spent - p.used
      BY <1>1, <1>3, <2>2, <3>1, <3>2
    <3>. QED
      BY <3>3 DEF CountOK
  <2>. QED
    BY <1>3, <2>1, <2>2
<1>7. ASSUME NEW k \in Keys PROVE AccountOK(k)'
  <2>1. /\ AccountOK(k) /\ (accounts[k] # None => accounts[k] \in Account)
        /\ \A w \in rollovers[k] : w.end \in Int
    BY DEF IInv, TypeOK, Window
  <2>2. WindowsOK(accounts[k], rollovers[k], now) => WindowsOK(accounts[k], rollovers[k], now + 1)
    BY <1>1, <2>1 DEF WindowsOK
  <2>. QED
    BY <1>2, <1>6, <2>1, <2>2 DEF AccountOK
<1>8. TypeOK' /\ ProviderOK'
  <2>1. now + 1 \in Times
    BY <1>1, UsageAssumption DEF Times
  <2>2. TypeOK'
    BY <1>2, <1>3, <2>1 DEF IInv, TypeOK, Provider
  <2>. QED
    BY <1>2, <1>3, <2>2 DEF ProviderOK
<1>. QED
  BY <1>2, <1>5, <1>7, <1>8 DEF IInv

LEMMA NextInv == IInv /\ [Next]_vars => IInv'
<1> SUFFICES ASSUME IInv, [Next]_vars PROVE IInv'
  OBVIOUS
<1>1. CASE UNCHANGED vars
  BY <1>1 DEF vars, IInv, TypeOK, ProviderOK, ReadersOK, AccountOK
<1>. QED
  BY <1>1, TouchInv, ReconcileInv, DeleteInv, UseInv, TickInv, FetchInv, PercentagesInv,
     UsageInv, AbandonInv, MergeInv DEF Next

LEMMA Invariant == Spec => []IInv
BY InitHolds, NextInv, PTL DEF Spec

-----------------------------------------------------------------------------
(* Sums of the usage of windows                                              *)

\* A set of naturals that contains 0 and every successor contains them all.
LEMMA NaturalsOf ==
    ASSUME NEW N, 0 \in N, \A n \in Nat : n \in N => n + 1 \in N
    PROVE  \A n \in Nat : n \in N
<1> DEFINE R == {p \in Nat \X Nat : p[1] < p[2]}
           D == {n \in Nat : n \notin N}
<1> SUFFICES ASSUME D # {} PROVE FALSE
  OBVIOUS
<1>1. IsWellFoundedOn(R, Nat)
  BY NatLessThanWellFounded DEF OpToRel
<1>2. \E m \in D : \A n \in D : <<n, m>> \notin R
  <2>1. D \subseteq Nat /\ D # {}
    OBVIOUS
  <2> HIDE DEF D, R
  <2>. QED
    BY <1>1, <2>1, WFMin
<1>3. PICK m \in D : \A n \in D : <<n, m>> \notin R
  BY <1>2
<1>4. m \in Nat /\ m # 0 /\ m - 1 \in Nat /\ <<m - 1, m>> \in R /\ m = (m - 1) + 1
  OBVIOUS
<1>5. m - 1 \in N
  BY <1>3, <1>4
<1>. QED
  BY <1>4, <1>5

\* The sum, unfolded: a function of the subsets, from the window picked first.
Sum(windows) == MapThenSumSet(LAMBDA w : w.used, windows)

Picked(s) == CHOOSE w \in s : TRUE

SumStep(g, s) == IF s = {} THEN 0 ELSE Picked(s).used + g[s \ {Picked(s)}]

SumTable(windows) == CHOOSE g : g = [s \in SUBSET windows |-> SumStep(g, s)]

LEMMA SumUnfolds == \A W : Sum(W) = SumTable(W)[W]
BY DEF Sum, SumTable, SumStep, Picked, MapThenSumSet, MapThenFoldSet

\* A nonempty finite set less the element picked.
LEMMA PickedFacts ==
    ASSUME NEW s, IsFiniteSet(s), s # {}
    PROVE  /\ Picked(s) \in s /\ IsFiniteSet(s \ {Picked(s)})
           /\ Cardinality(s) \in Nat /\ Cardinality(s \ {Picked(s)}) = Cardinality(s) - 1
<1>1. Picked(s) \in s
  BY DEF Picked
<1>. QED
  BY <1>1, FS_RemoveElement, FS_CardinalityType

\* The table of the sums exists.
LEMMA SumTableExists ==
    ASSUME NEW W, IsFiniteSet(W)
    PROVE  SumTable(W) = [s \in SUBSET W |-> SumStep(SumTable(W), s)]
<1> DEFINE Part(n) == {s \in SUBSET W : Cardinality(s) <= n}
           Table(n, g) == g = [s \in Part(n) |-> SumStep(g, s)]
           N == {n \in Nat : \E g : Table(n, g)}
<1>1. \A s \in SUBSET W : IsFiniteSet(s) /\ Cardinality(s) \in Nat
                          /\ Cardinality(s) <= Cardinality(W)
  BY FS_Subset, FS_CardinalityType
<1>2. 0 \in N
  <2> DEFINE g == [s \in Part(0) |-> 0]
  <2>1. ASSUME NEW s \in Part(0) PROVE s = {}
    BY <1>1, FS_EmptySet
  <2>2. Table(0, g)
    BY <2>1 DEF SumStep
  <2>. QED
    BY <2>2
<1>3. ASSUME NEW n \in Nat, n \in N PROVE n + 1 \in N
  <2>1. PICK g : Table(n, g)
    BY <1>3
  <2> DEFINE h == [s \in Part(n + 1) |-> SumStep(g, s)]
  <2>2. ASSUME NEW s \in Part(n + 1) PROVE SumStep(g, s) = SumStep(h, s)
    <3>1. CASE s = {}
      BY <3>1 DEF SumStep
    <3>2. CASE s # {}
      <4> DEFINE t == s \ {Picked(s)}
      <4>1. t \in SUBSET W /\ Cardinality(t) = Cardinality(s) - 1 /\ Cardinality(s) \in Nat
        BY <1>1, <3>2, PickedFacts
      <4>2. t \in Part(n) /\ t \in Part(n + 1)
        BY <4>1
      <4>3. g[t] = SumStep(g, t) /\ h[t] = SumStep(g, t)
        BY <2>1, <4>2
      <4>. QED
        BY <3>2, <4>3 DEF SumStep
    <3>. QED
      BY <3>1, <3>2
  <2>3. Table(n + 1, h)
    BY <2>2
  <2>4. \E f : Table(n + 1, f)
    <3> HIDE DEF Table, h
    <3>. QED
      BY <2>3
  <2>5. n + 1 \in Nat
    OBVIOUS
  <2> HIDE DEF Table
  <2>. QED
    BY <2>4, <2>5
<1>4. \E g : Table(Cardinality(W), g)
  <2>1. Cardinality(W) \in Nat
    BY FS_CardinalityType
  <2>2. Cardinality(W) \in N
    <3> HIDE DEF N
    <3>. QED
      BY <1>2, <1>3, <2>1, NaturalsOf
  <2>. QED
    BY <2>2
<1>5. Part(Cardinality(W)) = SUBSET W
  BY <1>1
<1>6. \E g : g = [s \in SUBSET W |-> SumStep(g, s)]
  BY <1>4, <1>5
<1>. QED
  BY <1>6 DEF SumTable

\* A table gives the sum of every part of its set.
LEMMA SumOfPart ==
    ASSUME NEW U, IsFiniteSet(U), NEW T \in SUBSET U
    PROVE  SumTable(U)[T] = Sum(T)
<1> DEFINE N == {n \in Nat : \A W \in SUBSET U : \A S \in SUBSET W :
                      Cardinality(S) = n => SumTable(W)[S] = SumTable(S)[S]}
<1>1. \A W \in SUBSET U : IsFiniteSet(W) /\ Cardinality(W) \in Nat
  BY FS_Subset, FS_CardinalityType
<1>2. \A W \in SUBSET U : \A S \in SUBSET W : SumTable(W)[S] = SumStep(SumTable(W), S)
  <2> SUFFICES ASSUME NEW W \in SUBSET U, NEW S \in SUBSET W
               PROVE  SumTable(W)[S] = SumStep(SumTable(W), S)
    OBVIOUS
  <2>1. SumTable(W) = [s \in SUBSET W |-> SumStep(SumTable(W), s)]
    BY <1>1, SumTableExists
  <2>. QED
    BY <2>1
<1>3. 0 \in N
  <2> SUFFICES ASSUME NEW W \in SUBSET U, NEW S \in SUBSET W, Cardinality(S) = 0
               PROVE  SumTable(W)[S] = SumTable(S)[S]
    OBVIOUS
  <2>1. S = {}
    BY <1>1, FS_EmptySet
  <2>2. SumTable(W)[S] = SumStep(SumTable(W), S) /\ SumTable(S)[S] = SumStep(SumTable(S), S)
    BY <1>2
  <2>. QED
    BY <2>1, <2>2 DEF SumStep
<1>4. ASSUME NEW n \in Nat, n \in N PROVE n + 1 \in N
  <2> SUFFICES ASSUME NEW W \in SUBSET U, NEW S \in SUBSET W, Cardinality(S) = n + 1
               PROVE  SumTable(W)[S] = SumTable(S)[S]
    OBVIOUS
  <2> DEFINE R == S \ {Picked(S)}
  <2>1. S # {} /\ IsFiniteSet(S)
    BY <1>1, FS_EmptySet
  <2>2. Cardinality(R) = n /\ R \in SUBSET S /\ S \in SUBSET U /\ R \in SUBSET W
    <3>1. Cardinality(R) = Cardinality(S) - 1
      BY <2>1, PickedFacts
    <3>. QED
      BY <3>1
  <2>3. SumTable(W)[R] = SumTable(R)[R] /\ SumTable(S)[R] = SumTable(R)[R]
    <3> HIDE DEF R
    <3>. QED
      BY <1>4, <2>2
  <2>4. SumTable(W)[S] = SumStep(SumTable(W), S) /\ SumTable(S)[S] = SumStep(SumTable(S), S)
    BY <1>2
  <2>. QED
    BY <2>1, <2>3, <2>4 DEF SumStep
<1>5. Cardinality(T) \in N
  <2> HIDE DEF N
  <2>. QED
    BY <1>1, <1>3, <1>4, NaturalsOf
<1>. QED
  BY <1>5, SumUnfolds

LEMMA SumRecursion ==
    ASSUME NEW S, IsFiniteSet(S)
    PROVE  /\ S = {} => Sum(S) = 0
           /\ S # {} => Sum(S) = Picked(S).used + Sum(S \ {Picked(S)})
<1>1. SumTable(S) = [s \in SUBSET S |-> SumStep(SumTable(S), s)]
  BY SumTableExists
<1>2. Sum(S) = SumStep(SumTable(S), S)
  BY <1>1, SumUnfolds
<1>3. SumTable(S)[S \ {Picked(S)}] = Sum(S \ {Picked(S)})
  BY SumOfPart
<1>. QED
  BY <1>2, <1>3 DEF SumStep

\* Whatever the order, a window adds its usage.
LEMMA SumOfWindow ==
    ASSUME NEW S \in SUBSET Window, IsFiniteSet(S)
    PROVE  Sum(S) \in Nat /\ \A w \in S : Sum(S) = w.used + Sum(S \ {w})
<1> DEFINE Added(T) == Sum(T) \in Nat /\ \A w \in T : Sum(T) = w.used + Sum(T \ {w})
           N == {n \in Nat : \A T \in SUBSET S : Cardinality(T) <= n => Added(T)}
<1>1. \A T \in SUBSET S : IsFiniteSet(T) /\ Cardinality(T) \in Nat
                          /\ \A w \in T : w.used \in Nat /\ Cardinality(T \ {w}) = Cardinality(T) - 1
  BY FS_Subset, FS_CardinalityType, FS_RemoveElement DEF Window
<1>2. 0 \in N
  <2> SUFFICES ASSUME NEW T \in SUBSET S, Cardinality(T) <= 0 PROVE Added(T)
    OBVIOUS
  <2>1. T = {} /\ IsFiniteSet(T)
    BY <1>1, FS_EmptySet
  <2>2. Sum(T) = 0
    BY <2>1, SumRecursion
  <2>. QED
    BY <2>1, <2>2
<1>3. ASSUME NEW n \in Nat, n \in N PROVE n + 1 \in N
  <2> SUFFICES ASSUME NEW T \in SUBSET S, Cardinality(T) <= n + 1, ~(Cardinality(T) <= n)
               PROVE  Added(T)
    BY <1>3
  <2>0. ASSUME NEW w \in T PROVE Added(T \ {w}) /\ w.used \in Nat
    BY <1>1, <1>3
  <2> DEFINE x == Picked(T)
  <2> HIDE DEF Added, N
  <2>1. x \in T /\ Sum(T) = x.used + Sum(T \ {x})
    <3>1. T # {} /\ IsFiniteSet(T)
      BY <1>1, FS_EmptySet
    <3>. QED
      BY <3>1, PickedFacts, SumRecursion
  <2> HIDE DEF x
  <2>2. Sum(T \ {x}) \in Nat /\ x.used \in Nat
    BY <2>0, <2>1 DEF Added
  <2>3. ASSUME NEW w \in T PROVE Sum(T) = w.used + Sum(T \ {w})
    <3>1. CASE w = x
      BY <2>1, <3>1
    <3>2. CASE w # x
      <4> DEFINE V == (T \ {x}) \ {w}
      <4>1. V = (T \ {w}) \ {x} /\ w \in T \ {x} /\ x \in T \ {w}
        BY <2>1, <3>2
      <4>2. Sum(T \ {x}) = w.used + Sum(V)
        BY <2>0, <2>1, <4>1 DEF Added
      <4>3. Sum(T \ {w}) = x.used + Sum(V) /\ Sum(T \ {w}) \in Nat
        <5>1. Added(T \ {w})
          BY <2>0
        <5>. QED
          BY <4>1, <5>1 DEF Added
      <4>4. Sum(V) \in Int
        <5>1. /\ V \in SUBSET S /\ Cardinality(V) = Cardinality(T \ {x}) - 1
              /\ Cardinality(T \ {x}) = Cardinality(T) - 1
          BY <1>1, <2>1, <4>1
        <5>2. Cardinality(V) <= n
          BY <1>1, <5>1
        <5>. QED
          BY <1>3, <5>1, <5>2 DEF Added, N
      <4> HIDE DEF V
      <4>. QED
        BY <2>0, <2>1, <2>2, <4>2, <4>3, <4>4
    <3>. QED
      BY <3>1, <3>2
  <2>. QED
    BY <2>1, <2>2, <2>3 DEF Added
<1>4. Cardinality(S) \in N
  <2>1. Cardinality(S) \in Nat
    BY FS_CardinalityType
  <2> HIDE DEF N
  <2>. QED
    BY <1>2, <1>3, <2>1, NaturalsOf
<1>5. Added(S)
  <2>1. Cardinality(S) <= Cardinality(S)
    BY FS_CardinalityType
  <2> HIDE DEF Added
  <2>. QED
    BY <1>4, <2>1
<1>. QED
  BY <1>5

-----------------------------------------------------------------------------
(* The usage in the windows                                                  *)

\* Windows without usage add nothing to a sum.
LEMMA SumOfMissed ==
    ASSUME NEW S \in SUBSET Window, IsFiniteSet(S), NEW Z \in SUBSET Window, IsFiniteSet(Z),
           \A z \in Z : z.used = 0
    PROVE  IsFiniteSet(S \cup Z) /\ Sum(S \cup Z) = Sum(S)
<1> DEFINE Same(T) == IsFiniteSet(S \cup T) /\ Sum(S \cup T) = Sum(S)
           N == {n \in Nat : \A T \in SUBSET Z : Cardinality(T) = n => Same(T)}
<1>1. \A T \in SUBSET Z : IsFiniteSet(T) /\ Cardinality(T) \in Nat
  BY FS_Subset, FS_CardinalityType
<1>2. 0 \in N
  <2> SUFFICES ASSUME NEW T \in SUBSET Z, Cardinality(T) = 0 PROVE Same(T)
    OBVIOUS
  <2>1. T = {}
    BY <1>1, FS_EmptySet
  <2>2. S \cup T = S
    BY <2>1
  <2>. QED
    BY <2>2
<1>3. ASSUME NEW n \in Nat, n \in N PROVE n + 1 \in N
  <2> SUFFICES ASSUME NEW T \in SUBSET Z, Cardinality(T) = n + 1 PROVE Same(T)
    OBVIOUS
  <2> DEFINE z == Picked(T)
             V == S \cup (T \ {z})
  <2>1. T # {} /\ IsFiniteSet(T)
    BY <1>1, FS_EmptySet
  <2>2. z \in T /\ Cardinality(T \ {z}) = Cardinality(T) - 1
    BY <2>1, PickedFacts
  <2> HIDE DEF z
  <2>3. IsFiniteSet(V) /\ Sum(V) = Sum(S)
    <3>1. Cardinality(T \ {z}) = n /\ T \ {z} \in SUBSET Z
      BY <2>2
    <3>2. Same(T \ {z})
      BY <1>3, <3>1
    <3>. QED
      BY <3>2
  <2>4. S \cup T = V \cup {z} /\ V \in SUBSET Window /\ z \in Window /\ z.used = 0
    BY <2>2
  <2>5. CASE z \in V
    <3>1. S \cup T = V
      BY <2>4, <2>5
    <3>. QED
      BY <2>3, <3>1
  <2>6. CASE z \notin V
    <3> DEFINE W == V \cup {z}
    <3>1. IsFiniteSet(W)
      BY <2>3, FS_AddElement
    <3>2. W \in SUBSET Window /\ z \in W /\ W \ {z} = V /\ S \cup T = W
      BY <2>4, <2>6
    <3> HIDE DEF W, V
    <3>3. Sum(W) = z.used + Sum(V)
      BY <3>1, <3>2, SumOfWindow
    <3>4. Sum(V) \in Nat
      BY <2>3, SumOfWindow
    <3>5. Sum(W) = Sum(S)
      BY <2>3, <2>4, <3>3, <3>4
    <3>. QED
      BY <3>1, <3>2, <3>5
  <2>. QED
    BY <2>5, <2>6
<1>4. Cardinality(Z) \in N
  <2>1. Cardinality(Z) \in Nat
    BY <1>1
  <2> HIDE DEF N
  <2>. QED
    BY <1>2, <1>3, <2>1, NaturalsOf
<1>. QED
  BY <1>4

\* Of the windows that are over only the first has usage.
LEMMA ElapsedUsage ==
    ASSUME NEW a \in Account, NEW moment \in Int, Ends(a, moment) # {}
    PROVE  /\ IsFiniteSet(Elapsed(a, moment))
           /\ \E w \in Elapsed(a, moment) :
                 w.used = a.used /\ \A v \in Elapsed(a, moment) \ {w} : v.used = 0
<1> DEFINE ends == Ends(a, moment)
           f == [e \in ends |-> Ending(a, moment, e)]
           w == Ending(a, moment, a.refreshAt)
<1>1. Elapsed(a, moment) = {Ending(a, moment, e) : e \in ends}
  BY DEF Elapsed, Ending, StartOf
<1>2. IsFiniteSet(ends)
  <2>1. a.refreshAt \in Int /\ ends \in SUBSET (a.refreshAt..moment)
    BY DEF Ends, Account
  <2> HIDE DEF ends
  <2>. QED
    BY <2>1, FS_Interval, FS_Subset
<1>3. f \in Surjection(ends, Elapsed(a, moment))
  <2> HIDE DEF ends
  <2>. QED
    BY <1>1 DEF Surjection
<1>4. IsFiniteSet(Elapsed(a, moment))
  <2> HIDE DEF ends, f
  <2>. QED
    BY <1>2, <1>3, FS_Surjection
<1>5. a.refreshAt \in ends
  BY EndsFacts
<1>6. \A e \in ends : Ending(a, moment, e).used = IF e = a.refreshAt THEN a.used ELSE 0
  BY DEF Ending
<1>7. w \in Elapsed(a, moment) /\ w.used = a.used
  <2> HIDE DEF ends
  <2>. QED
    BY <1>1, <1>5, <1>6
<1>8. \A v \in Elapsed(a, moment) \ {w} : v.used = 0
  <2> HIDE DEF ends
  <2>. QED
    BY <1>1, <1>5, <1>6
<1>. QED
  BY <1>4, <1>7, <1>8

\* The lifetime usage is in the windows and in the counter.
Balanced(a, windows) == IsFiniteSet(windows) /\ a.life = a.used + Sum(windows)

\* Rolling over moves the usage into one window, and nothing else.
LEMMA RolledBalance ==
    ASSUME NEW a \in Account, NEW windows \in SUBSET Window, NEW t \in Int,
           WindowsOK(a, windows, t), Balanced(a, windows), NEW moment \in Int
    PROVE  Balanced(Rolled(a, moment), RolledWindows(windows, a, moment))
<1> DEFINE new == Elapsed(a, moment)
           b == Rolled(a, moment)
<1>1. CASE Ends(a, moment) = {}
  <2>1. b = a /\ new = {}
    BY <1>1, ElapsedFacts DEF Rolled
  <2>2. RolledWindows(windows, a, moment) = windows
    BY <2>1 DEF RolledWindows, Inserted
  <2>. QED
    BY <2>1, <2>2
<1>2. CASE Ends(a, moment) # {}
  <2>1. \A w \in new : w \in Window /\ a.refreshAt <= w.end
    BY ElapsedFacts, EndsFacts
  <2>2. \A v \in windows, w \in new : v.end # w.end
    <3> SUFFICES ASSUME NEW v \in windows, NEW w \in new PROVE v.end # w.end
      OBVIOUS
    <3>1. v.end \in Int /\ w.end \in Int /\ a.refreshAt \in Int
      BY <2>1 DEF Window, Account
    <3>2. v.end < a.refreshAt /\ a.refreshAt <= w.end
      BY <2>1 DEF WindowsOK
    <3>. QED
      BY <3>1, <3>2
  <2>3. RolledWindows(windows, a, moment) = windows \cup new
    <3> HIDE DEF new
    <3>1. RolledWindows(windows, a, moment) = Inserted(windows, new)
      BY DEF RolledWindows, new
    <3>. QED
      BY <2>2, <3>1 DEF Inserted
  <2>4. IsFiniteSet(new) /\ new \in SUBSET Window
    BY <1>2, <2>1, ElapsedUsage
  <2>5. PICK w \in new : w.used = a.used /\ \A v \in new \ {w} : v.used = 0
    BY <1>2, ElapsedUsage
  <2> HIDE DEF new
  <2> DEFINE first == windows \cup {w}
             rest == new \ {w}
  <2>6. first \in SUBSET Window /\ IsFiniteSet(first) /\ w \in first /\ first \ {w} = windows
    <3>1. w \notin windows /\ w \in Window
      BY <2>1, <2>2
    <3>2. IsFiniteSet(first)
      BY FS_AddElement DEF Balanced
    <3>. QED
      BY <3>1, <3>2
  <2>7. rest \in SUBSET Window /\ IsFiniteSet(rest) /\ \A v \in rest : v.used = 0
    BY <2>4, <2>5, FS_RemoveElement
  <2>8. windows \cup new = first \cup rest
    BY <2>5
  <2> HIDE DEF first, rest
  <2>9. IsFiniteSet(first \cup rest) /\ Sum(first \cup rest) = Sum(first)
    BY <2>6, <2>7, SumOfMissed
  <2>10. Sum(first) = w.used + Sum(windows)
    BY <2>6, SumOfWindow
  <2>11. b.used = 0 /\ b.life = a.life
    <3> DEFINE end == Max(Ends(a, moment))
               next == NextBoundary(end, a.type)
    <3>1. b = [a EXCEPT !.used = 0, !.last = end, !.refreshAt = next]
      BY <1>2 DEF Rolled
    <3> HIDE DEF end, next, b
    <3>. QED
      BY <3>1 DEF Account
  <2>12. Sum(windows) \in Nat
    BY SumOfWindow DEF Balanced
  <2> HIDE DEF b
  <2>13. b.life = b.used + Sum(first)
    BY <2>5, <2>10, <2>11, <2>12 DEF Balanced, Account
  <2>. QED
    BY <2>3, <2>8, <2>9, <2>13 DEF Balanced, b
<1>. QED
  BY <1>1, <1>2

-----------------------------------------------------------------------------
(* Every step keeps the balance                                              *)

\* The usage of account a is of the provider's present window, and no more than
\* what any reading that may still be saved in order says, or of a window that
\* ended before any reading of the present one was made.
UsedOK(a, p, rs, latest, t) ==
    \/ a.used = 0
    \/ /\ a.refreshAt = p.reset /\ a.used <= p.used
       /\ \A r \in Readers : rs[r].pc # "idle" /\ rs[r].reset = p.reset /\ latest <= rs[r].no
              => a.used <= rs[r].used
    \/ /\ a.refreshAt <= t
       /\ \A r \in Readers : rs[r].pc # "idle" /\ rs[r].reset = p.reset
              => a.refreshAt <= rs[r].since

BalanceOK(k) ==
    accounts[k] # None /\ k \notin disturbed =>
        /\ Balanced(accounts[k], rollovers[k])
        /\ UsedOK(accounts[k], prov, reader, newest[k], now)

BInv == IInv /\ \A k \in Keys : BalanceOK(k)

\* Readings end, or go on from a later moment.
GoOn(before, after) ==
    /\ Remain(before, after)
    /\ \A r \in Readers : after[r].pc # "idle" =>
          before[r].since \in Int /\ after[r].since \in Int /\ before[r].since <= after[r].since

LEMMA GoOnUsed ==
    ASSUME NEW a \in Account, NEW p, NEW n, NEW t, NEW before, NEW after, GoOn(before, after),
           UsedOK(a, p, before, n, t)
    PROVE  UsedOK(a, p, after, n, t)
<1>1. a.refreshAt \in Int
  BY DEF Account
<1>2. \A r \in Readers : after[r].pc # "idle" /\ a.refreshAt <= before[r].since
                            => a.refreshAt <= after[r].since
  BY <1>1 DEF GoOn
<1>. QED
  BY <1>2 DEF GoOn, Remain, UsedOK

LEMMA RolledUsed ==
    ASSUME NEW a \in Account, NEW moment \in Int, NEW p, NEW rs, NEW n, NEW t,
           UsedOK(a, p, rs, n, t)
    PROVE  /\ UsedOK(Rolled(a, moment), p, rs, n, t)
           /\ (Rolled(a, moment) = a /\ a.refreshAt > moment) \/ Rolled(a, moment).used = 0
<1> DEFINE b == Rolled(a, moment)
<1>1. CASE Ends(a, moment) = {}
  <2>1. b = a
    BY <1>1 DEF Rolled
  <2>2. a.refreshAt \in Int
    BY DEF Account
  <2>3. a.refreshAt > moment
    <3>1. a.refreshAt <= moment => a.refreshAt \in Ends(a, moment)
      BY <2>2 DEF Ends
    <3>. QED
      BY <1>1, <2>2, <3>1
  <2>. QED
    BY <2>1, <2>3
<1>2. CASE Ends(a, moment) # {}
  <2> DEFINE end == Max(Ends(a, moment))
             next == NextBoundary(end, a.type)
  <2>1. b = [a EXCEPT !.used = 0, !.last = end, !.refreshAt = next]
    BY <1>2 DEF Rolled
  <2> HIDE DEF end, next, b
  <2>2. b.used = 0
    BY <2>1 DEF Account
  <2>. QED
    BY <2>2 DEF UsedOK, b
<1>. QED
  BY <1>1, <1>2

LEMMA NewBalance ==
    ASSUME NEW type, NEW refreshAt, NEW last
    PROVE  LET a == NewAccount(type, refreshAt, last) IN
           Balanced(a, {}) /\ \A p, rs, n, t : UsedOK(a, p, rs, n, t)
<1> DEFINE a == NewAccount(type, refreshAt, last)
<1>1. a.used = 0 /\ a.life = 0
  BY DEF NewAccount
<1>2. IsFiniteSet({}) /\ Sum({}) = 0
  BY FS_EmptySet, SumRecursion
<1> HIDE DEF a
<1>3. Balanced(a, {})
  BY <1>1, <1>2 DEF Balanced
<1>4. \A p, rs, n, t : UsedOK(a, p, rs, n, t)
  BY <1>1 DEF UsedOK
<1>. QED
  BY <1>3, <1>4 DEF a

\* The row an operation finds or makes, rolled over and saved with its windows.
LEMMA FoundBalance ==
    ASSUME BInv, NEW k \in Keys, k \notin disturbed, NEW moment \in Int, moment <= now,
           NEW type \in {"daily", "monthly"}, NEW refreshAt \in Int, NEW last \in Int \cup {None}
    PROVE  LET a == IF accounts[k] = None THEN NewAccount(type, refreshAt, last) ELSE accounts[k] IN
           /\ Balanced(Rolled(a, moment), RolledWindows(rollovers[k], a, moment))
           /\ UsedOK(Rolled(a, moment), prov, reader, newest[k], now)
           /\ UsedOK(a, prov, reader, newest[k], now)
<1> DEFINE a == IF accounts[k] = None THEN NewAccount(type, refreshAt, last) ELSE accounts[k]
<1>1. IInv /\ BalanceOK(k) /\ AccountOK(k) /\ now \in Int /\ rollovers[k] \in SUBSET Window
  BY UsageAssumption DEF BInv, IInv, TypeOK, Times
<1>2. a \in Account /\ WindowsOK(a, rollovers[k], now)
  BY <1>1, FoundAccount
<1>3. Balanced(a, rollovers[k]) /\ UsedOK(a, prov, reader, newest[k], now)
  <2>1. CASE accounts[k] = None
    BY <1>1, <2>1, NewBalance DEF AccountOK
  <2>2. CASE accounts[k] # None
    BY <1>1, <2>2 DEF BalanceOK
  <2>. QED
    BY <2>1, <2>2
<1> HIDE DEF a
<1>4. Balanced(Rolled(a, moment), RolledWindows(rollovers[k], a, moment))
  BY <1>1, <1>2, <1>3, RolledBalance
<1>5. UsedOK(Rolled(a, moment), prov, reader, newest[k], now)
  BY <1>2, <1>3, RolledUsed
<1>. QED
  BY <1>3, <1>4, <1>5 DEF a

\* A row that is not written keeps its balance.
LEMMA SameRow ==
    ASSUME NEW k \in Keys, BalanceOK(k),
           accounts'[k] = accounts[k], rollovers'[k] = rollovers[k], disturbed \subseteq disturbed',
           accounts[k] # None /\ UsedOK(accounts[k], prov, reader, newest[k], now) =>
              UsedOK(accounts[k], prov', reader', newest'[k], now')
    PROVE  BalanceOK(k)'
BY DEF BalanceOK

LEMMA TouchBalance == BInv /\ Touch => \A k \in Keys : BalanceOK(k)'
<1> SUFFICES ASSUME BInv, Touch, NEW j \in Keys PROVE BalanceOK(j)'
  OBVIOUS
<1> DEFINE k == Canonical
           a == IF accounts[k] = None THEN NewAccount("daily", NextBoundary(now, "daily"), None)
                ELSE accounts[k]
           b == Rolled(a, now)
           windows == RolledWindows(rollovers[k], a, now)
<1>1. /\ k \in Keys /\ now \in Int /\ NextBoundary(now, "daily") \in Int /\ BalanceOK(j)
      /\ accounts \in [Keys -> Account \cup {None}] /\ rollovers \in [Keys -> SUBSET Window]
  BY UsageAssumption, BoundaryType DEF BInv, IInv, TypeOK, Times
<1>2. Save(k, b, windows) /\ UNCHANGED <<now, prov, reader, reads, newest, disturbed>>
  BY DEF Touch, history
<1>3. ASSUME k \notin disturbed
      PROVE  Balanced(b, windows) /\ UsedOK(b, prov, reader, newest[k], now)
  <2> DEFINE next == NextBoundary(now, "daily")
  <2>1. next \in Int /\ now <= now
    BY <1>1
  <2> HIDE DEF next, k
  <2>2. LET c == IF accounts[k] = None THEN NewAccount("daily", next, None) ELSE accounts[k] IN
        /\ Balanced(Rolled(c, now), RolledWindows(rollovers[k], c, now))
        /\ UsedOK(Rolled(c, now), prov, reader, newest[k], now)
    BY <1>1, <1>3, <2>1, FoundBalance
  <2>. QED
    BY <2>2 DEF next
<1> HIDE DEF b, windows, k
<1>4. CASE j = k
  <2>1. accounts'[k] = b /\ rollovers'[k] = windows
    BY <1>1, <1>2 DEF Save
  <2>. QED
    BY <1>2, <1>3, <1>4, <2>1 DEF BalanceOK
<1>5. CASE j # k
  <2>1. accounts'[j] = accounts[j] /\ rollovers'[j] = rollovers[j]
    BY <1>1, <1>2, <1>5 DEF Save
  <2>. QED
    BY <1>1, <1>2, <2>1, SameRow
<1>. QED
  BY <1>4, <1>5

LEMMA ReconcileBalance == BInv /\ ReconcileDue => \A k \in Keys : BalanceOK(k)'
<1> SUFFICES ASSUME BInv, ReconcileDue, NEW k \in Keys PROVE BalanceOK(k)'
  OBVIOUS
<1>1. /\ now \in Int /\ UNCHANGED <<now, prov, reader, reads, newest, disturbed>> /\ BalanceOK(k)
  BY UsageAssumption DEF BInv, IInv, TypeOK, Times, ReconcileDue, history
<1>2. CASE k \in DueKeys
  <2>1. accounts[k] # None /\ accounts'[k] = Rolled(accounts[k], now)
        /\ rollovers'[k] = RolledWindows(rollovers[k], accounts[k], now)
    BY <1>2 DEF ReconcileDue, DueKeys
  <2>2. k \notin disturbed =>
           /\ Balanced(accounts'[k], rollovers'[k])
           /\ UsedOK(accounts'[k], prov, reader, newest[k], now)
    BY <1>1, <2>1, FoundBalance
  <2>. QED
    BY <1>1, <2>2 DEF BalanceOK
<1>3. CASE k \notin DueKeys
  <2>1. accounts'[k] = accounts[k] /\ rollovers'[k] = rollovers[k]
    BY <1>3 DEF ReconcileDue
  <2>. QED
    BY <1>1, <2>1, SameRow
<1>. QED
  BY <1>2, <1>3

LEMMA DeleteBalance == BInv /\ Delete => \A k \in Keys : BalanceOK(k)'
<1> SUFFICES ASSUME BInv, Delete, NEW k \in Keys PROVE BalanceOK(k)'
  OBVIOUS
<1>1. UNCHANGED <<now, prov, reader, newest, disturbed>> /\ BalanceOK(k)
  BY DEF Delete, history, BInv
<1>2. CASE k = Canonical
  <2>1. accounts'[k] = None
    BY <1>2 DEF Delete, Save, BInv, IInv, TypeOK
  <2>. QED
    BY <2>1 DEF BalanceOK
<1>3. CASE k # Canonical
  <2>1. accounts'[k] = accounts[k] /\ rollovers'[k] = rollovers[k]
    BY <1>3 DEF Delete, Save, BInv, IInv, TypeOK
  <2>. QED
    BY <1>1, <2>1, SameRow
<1>. QED
  BY <1>2, <1>3

LEMMA MergeBalance ==
    ASSUME NEW j \in Keys PROVE BInv /\ Merge(j) => \A k \in Keys : BalanceOK(k)'
<1> SUFFICES ASSUME BInv, Merge(j), NEW k \in Keys PROVE BalanceOK(k)'
  OBVIOUS
<1>1. /\ UNCHANGED <<now, prov, reader, newest>> /\ BalanceOK(k)
      /\ disturbed' = disturbed \cup {Canonical} /\ j # Canonical
      /\ accounts \in [Keys -> Account \cup {None}] /\ rollovers \in [Keys -> SUBSET Window]
  BY DEF Merge, BInv, IInv, TypeOK
<1>2. CASE k = Canonical
  BY <1>1, <1>2 DEF BalanceOK
<1>3. CASE k = j
  <2>1. accounts'[k] = None
    BY <1>1, <1>3 DEF Merge
  <2>. QED
    BY <2>1 DEF BalanceOK
<1>4. CASE k \notin {j, Canonical}
  <2>1. accounts'[k] = accounts[k] /\ rollovers'[k] = rollovers[k]
    BY <1>1, <1>4 DEF Merge
  <2>. QED
    BY <1>1, <2>1, SameRow
<1>. QED
  BY <1>2, <1>3, <1>4

LEMMA AbandonBalance ==
    ASSUME NEW r \in Readers PROVE BInv /\ Abandon(r) => \A k \in Keys : BalanceOK(k)'
<1> SUFFICES ASSUME BInv, Abandon(r), NEW k \in Keys PROVE BalanceOK(k)'
  OBVIOUS
<1>1. /\ UNCHANGED <<now, prov, accounts, rollovers, newest, disturbed>> /\ BalanceOK(k)
      /\ accounts[k] \in Account \cup {None}
  BY DEF Abandon, history, BInv, IInv, TypeOK
<1>2. GoOn(reader, reader')
  <2>1. \A s \in Readers : reader[s].since \in Int
    BY UsageAssumption DEF BInv, IInv, TypeOK, Reading, Times
  <2>2. reader \in [Readers -> Reading] /\ reader' = [reader EXCEPT ![r] = IdleReader]
        /\ IdleReader.pc = "idle"
    BY DEF BInv, IInv, TypeOK, Abandon, IdleReader
  <2>. QED
    BY <2>1, <2>2 DEF GoOn, Remain
<1>. QED
  BY <1>1, <1>2, GoOnUsed, SameRow

LEMMA FetchBalance ==
    ASSUME NEW r \in Readers PROVE BInv /\ Fetch(r) => \A k \in Keys : BalanceOK(k)'
<1> SUFFICES ASSUME BInv, Fetch(r), NEW k \in Keys PROVE BalanceOK(k)'
  OBVIOUS
<1>1. /\ UNCHANGED <<now, prov, accounts, rollovers, newest, disturbed>> /\ BalanceOK(k)
  BY DEF Fetch, history, BInv
<1>2. /\ reader'[r].used = prov.used /\ reader'[r].since = now
      /\ \A s \in Readers \ {r} : reader'[s] = reader[s]
  BY DEF Fetch, BInv, IInv, TypeOK
<1>3. UsedOK(accounts[k], prov, reader, newest[k], now)
        => UsedOK(accounts[k], prov, reader', newest[k], now)
  BY <1>2 DEF UsedOK
<1>. QED
  BY <1>1, <1>3, SameRow

LEMMA UseBalance == BInv /\ Use => \A k \in Keys : BalanceOK(k)'
<1> SUFFICES ASSUME BInv, Use, NEW k \in Keys PROVE BalanceOK(k)'
  OBVIOUS
<1>1. /\ UNCHANGED <<now, reader, accounts, rollovers, newest, disturbed>> /\ BalanceOK(k)
      /\ accounts[k] # None => accounts[k].used \in Nat
  BY DEF Use, history, BInv, IInv, TypeOK, Account
<1>2. prov'.reset = prov.reset /\ prov'.used = prov.used + 1 /\ prov.used \in Nat
  BY UsageAssumption DEF Use, BInv, IInv, TypeOK
<1>3. accounts[k] # None /\ UsedOK(accounts[k], prov, reader, newest[k], now)
        => UsedOK(accounts[k], prov', reader, newest[k], now)
  BY <1>1, <1>2 DEF UsedOK
<1>. QED
  BY <1>1, <1>3, SameRow

LEMMA TickBalance == BInv /\ Tick => \A k \in Keys : BalanceOK(k)'
<1> SUFFICES ASSUME BInv, Tick, NEW k \in Keys PROVE BalanceOK(k)'
  OBVIOUS
<1>1. /\ UNCHANGED <<reader, accounts, rollovers, newest, disturbed>> /\ BalanceOK(k)
      /\ now' = now + 1 /\ now \in Nat /\ prov.reset \in Nat /\ now < prov.reset
      /\ accounts[k] # None => accounts[k].refreshAt \in Int
  BY UsageAssumption DEF Tick, history, BInv, IInv, TypeOK, ProviderOK, Times, Account
<1>2. CASE prov' = prov
  <2>1. accounts[k] # None /\ UsedOK(accounts[k], prov, reader, newest[k], now)
          => UsedOK(accounts[k], prov, reader, newest[k], now + 1)
    BY <1>1 DEF UsedOK
  <2>. QED
    BY <1>1, <1>2, <2>1, SameRow
<1>3. CASE prov' # prov
  <2>1. prov.reset <= now + 1 /\ prov'.reset \in Nat /\ now + 1 < prov'.reset
    <3>1. ~(now + 1 < prov.reset) /\ prov' = [prov EXCEPT !.used = 0, !.reset = now + 1 + Span]
      BY <1>3 DEF Tick
    <3>2. prov'.reset = now + 1 + Span
      BY <3>1 DEF BInv, IInv, TypeOK
    <3>. QED
      BY <1>1, <3>1, <3>2, UsageAssumption
  <2>2. ASSUME NEW s \in Readers, reader[s].pc # "idle" PROVE reader[s].reset # prov'.reset
    <3>1. ReadingOK(reader[s], prov, now, reads) /\ reader[s].reset \in Nat
      BY DEF BInv, IInv, ReadersOK, TypeOK, Reading
    <3>. QED
      BY <1>1, <2>1, <2>2, <3>1 DEF ReadingOK
  <2>3. accounts[k] # None /\ UsedOK(accounts[k], prov, reader, newest[k], now)
          => UsedOK(accounts[k], prov', reader, newest[k], now + 1)
    BY <1>1, <2>1, <2>2 DEF UsedOK
  <2>. QED
    BY <1>1, <2>3, SameRow
<1>. QED
  BY <1>2, <1>3

LEMMA PercentagesBalance ==
    ASSUME NEW r \in Readers PROVE BInv /\ SyncPercentages(r) => \A k \in Keys : BalanceOK(k)'
<1> SUFFICES ASSUME BInv, SyncPercentages(r), NEW j \in Keys PROVE BalanceOK(j)'
  OBVIOUS
<1>0. PICK k \in Keys : k = reader[r].key
  BY DEF SyncPercentages, BInv, IInv, ReadersOK, ReadingOK
<1>1. PICK moment \in reader[r].since..now :
        /\ accounts' = [accounts EXCEPT ![k] =
               IF @ = None THEN NewAccount("daily", NextBoundary(moment, "daily"), moment)
               ELSE [@ EXCEPT !.last = moment]]
        /\ disturbed \subseteq disturbed'
  BY <1>0 DEF SyncPercentages
<1>2. /\ UNCHANGED <<now, prov, rollovers, reads, newest>> /\ reader[r].pc # "idle"
      /\ reader' = [reader EXCEPT ![r].pc = "usage", ![r].since = now]
      /\ reader \in [Readers -> Reading] /\ reader[r].since <= now /\ now \in Int
      /\ accounts \in [Keys -> Account \cup {None}] /\ BalanceOK(j) /\ AccountOK(j)
  BY UsageAssumption DEF SyncPercentages, BInv, IInv, TypeOK, ReadersOK, ReadingOK, Times
<1>3. GoOn(reader, reader')
  <2>1. \A s \in Readers : reader[s].since \in Int
    BY <1>2, UsageAssumption DEF Reading, Times
  <2>2. /\ reader'[r].since = now /\ reader'[r].key = reader[r].key
        /\ reader'[r].reset = reader[r].reset /\ reader'[r].no = reader[r].no
        /\ reader'[r].used = reader[r].used
        /\ \A s \in Readers \ {r} : reader'[s] = reader[s]
    BY <1>2 DEF Reading
  <2>. QED
    BY <1>2, <2>1, <2>2 DEF GoOn, Remain
<1>4. CASE j # k
  <2>1. accounts'[j] = accounts[j] /\ accounts[j] \in Account \cup {None}
    BY <1>1, <1>2, <1>4
  <2>. QED
    BY <1>1, <1>2, <1>3, <2>1, GoOnUsed, SameRow
<1>5. CASE j = k /\ accounts[k] = None
  <2>1. rollovers'[k] = {}
    BY <1>2, <1>5 DEF AccountOK
  <2> DEFINE next == NextBoundary(moment, "daily")
  <2>2. accounts'[k] = NewAccount("daily", next, moment)
    BY <1>1, <1>2, <1>5
  <2> HIDE DEF next
  <2>. QED
    BY <1>5, <2>1, <2>2, NewBalance DEF BalanceOK
<1>6. CASE j = k /\ accounts[k] # None
  <2> DEFINE a == accounts[k]
             b == [a EXCEPT !.last = moment]
  <2>1. accounts'[k] = b /\ a \in Account
    BY <1>1, <1>2, <1>6
  <2>2. b.used = a.used /\ b.life = a.life /\ b.refreshAt = a.refreshAt
    BY <2>1 DEF Account
  <2>3. k \notin disturbed' =>
           Balanced(a, rollovers[k]) /\ UsedOK(a, prov, reader, newest[k], now)
    BY <1>1, <1>2, <1>6 DEF BalanceOK
  <2> HIDE DEF a, b
  <2>4. k \notin disturbed' => UsedOK(a, prov, reader', newest[k], now)
    BY <1>3, <2>1, <2>3, GoOnUsed
  <2>5. k \notin disturbed' => Balanced(b, rollovers[k]) /\ UsedOK(b, prov, reader', newest[k], now)
    BY <2>2, <2>3, <2>4 DEF Balanced, UsedOK
  <2>. QED
    BY <1>2, <1>6, <2>1, <2>5 DEF BalanceOK
<1>. QED
  BY <1>4, <1>5, <1>6

\* A reading of the present window saved in order is not below the counter.
LEMMA NotBelow ==
    ASSUME NEW a \in Account, NEW p, NEW rs, NEW n, NEW t, NEW moment \in Int,
           UsedOK(a, p, rs, n, t),
           NEW r \in Readers, rs[r] \in Reading, rs[r].pc # "idle", rs[r].reset = p.reset,
           n <= rs[r].no, rs[r].since <= moment
    PROVE  Rolled(a, moment).used <= rs[r].used
<1>1. rs[r].used \in Nat /\ rs[r].since \in Int /\ a.refreshAt \in Int
  BY UsageAssumption DEF Reading, Times, Account
<1>2. CASE Rolled(a, moment).used = 0
  BY <1>1, <1>2
<1>3. CASE Rolled(a, moment) = a /\ a.refreshAt > moment
  <2>1. a.used = 0 \/ a.used <= rs[r].used
    BY <1>1, <1>3 DEF UsedOK
  <2>. QED
    BY <1>1, <1>3, <2>1
<1>. QED
  BY <1>2, <1>3, RolledUsed

LEMMA UsageBalance ==
    ASSUME NEW r \in Readers PROVE BInv /\ SyncUsage(r) => \A k \in Keys : BalanceOK(k)'
<1> SUFFICES ASSUME BInv, SyncUsage(r), NEW j \in Keys PROVE BalanceOK(j)'
  OBVIOUS
<1>0. PICK x \in {reader[r]}, k \in Keys : k = reader[r].key
  BY DEF SyncUsage, BInv, IInv, ReadersOK, ReadingOK
<1>1. PICK moment \in x.since..now, type \in Types :
        LET a == IF accounts[k] = None THEN NewAccount(type, x.reset, None) ELSE accounts[k]
        IN  Save(k, SyncedAccount(Rolled(a, moment), x, type), RolledWindows(rollovers[k], a, moment))
  BY <1>0 DEF SyncUsage, SyncedAccount
<1>2. /\ x.pc = "usage" /\ UNCHANGED <<now, prov, reads>>
      /\ newest' = [newest EXCEPT ![k] = Max({@, x.no})]
      /\ disturbed' = IF x.no < newest[k] \/ x.reset <= now THEN disturbed \cup {k} ELSE disturbed
      /\ reader' = [reader EXCEPT ![r] = IdleReader]
  BY <1>0 DEF SyncUsage
<1>3. /\ x = reader[r] /\ x \in Reading /\ ReadingOK(x, prov, now, reads) /\ now \in Nat
      /\ x.no \in Nat /\ x.reset \in Nat /\ x.since \in Nat /\ x.used \in Nat
      /\ IInv /\ BalanceOK(j)
  BY UsageAssumption DEF BInv, IInv, TypeOK, ReadersOK, Reading, Times
<1>4. /\ moment \in Int /\ moment <= now /\ x.since <= moment
      /\ type \in {"daily", "monthly"} /\ x.reset \in Int
  BY <1>2, <1>3, UsageAssumption DEF ReadingOK
<1>5. /\ accounts \in [Keys -> Account \cup {None}] /\ rollovers \in [Keys -> SUBSET Window]
      /\ newest \in [Keys -> 0..MaxReads] /\ newest[k] \in Nat
      /\ reader \in [Readers -> Reading]
  BY UsageAssumption DEF BInv, IInv, TypeOK
<1>6. GoOn(reader, reader')
  <2>1. \A s \in Readers : reader[s].since \in Int
    BY <1>5, UsageAssumption DEF Reading, Times
  <2>2. reader'[r].pc = "idle" /\ \A s \in Readers \ {r} : reader'[s] = reader[s]
    BY <1>2, <1>5 DEF IdleReader
  <2>. QED
    BY <2>1, <2>2 DEF GoOn, Remain
<1> DEFINE a == IF accounts[k] = None THEN NewAccount(type, x.reset, None) ELSE accounts[k]
           b == Rolled(a, moment)
           c == SyncedAccount(b, x, type)
           windows == RolledWindows(rollovers[k], a, moment)
<1>7. Save(k, c, windows)
  BY <1>1
<1>8. a \in Account /\ b \in Account
  BY <1>3, <1>4, FoundAccount, RolledFacts
<1>9. k \notin disturbed =>
         /\ Balanced(b, windows) /\ UsedOK(a, prov, reader, newest[k], now)
  BY <1>4, FoundBalance
<1> HIDE DEF a
<1>10. disturbed \subseteq disturbed'
  BY <1>2
<1>11. CASE j # k
  <2>1. accounts'[j] = accounts[j] /\ rollovers'[j] = rollovers[j] /\ newest'[j] = newest[j]
        /\ accounts[j] \in Account \cup {None}
    BY <1>2, <1>5, <1>7, <1>11 DEF Save
  <2>2. accounts[j] # None /\ UsedOK(accounts[j], prov, reader, newest[j], now)
          => UsedOK(accounts[j], prov', reader', newest'[j], now')
    <3>1. UNCHANGED <<prov, now>>
      BY <1>2
    <3>. QED
      BY <1>6, <2>1, <3>1, GoOnUsed
  <2>. QED
    BY <1>3, <1>10, <2>1, <2>2, SameRow
<1>12. CASE j = k
  <2> SUFFICES ASSUME k \notin disturbed'
               PROVE  Balanced(c, windows) /\ UsedOK(c, prov, reader', newest'[k], now)
    <3>1. accounts'[k] = c /\ rollovers'[k] = windows
      BY <1>5, <1>7 DEF Save
    <3> HIDE DEF c, windows
    <3>. QED
      BY <1>2, <1>12, <3>1 DEF BalanceOK
  <2>1. k \notin disturbed /\ ~(x.no < newest[k]) /\ ~(x.reset <= now)
    BY <1>2
  <2>2. newest[k] <= x.no /\ now < x.reset
    BY <1>3, <1>5, <2>1
  <2>3. x.reset = prov.reset /\ x.used <= prov.used /\ x.pc # "idle"
    BY <1>2, <1>3, <2>2 DEF ReadingOK
  <2>4. newest'[k] = x.no
    <3> DEFINE last == Max({newest[k], x.no})
    <3>1. last = x.no
      BY <1>3, <1>5, <2>2, MaxOfTwo
    <3>2. newest' = [newest EXCEPT ![k] = last]
      BY <1>2
    <3> HIDE DEF last
    <3>. QED
      BY <1>5, <3>1, <3>2
  <2>5. b.used <= x.used
    BY <1>3, <1>4, <1>8, <1>9, <2>1, <2>2, <2>3, NotBelow
  <2> HIDE DEF b, windows
  <2>6. /\ c.refreshAt = x.reset /\ c.used = x.used
        /\ c.life = IF x.used >= b.used THEN b.life + (x.used - b.used) ELSE b.life
    BY <1>3, <1>8, SyncedFacts
  <2>7. b.used \in Nat /\ b.life \in Nat
    BY <1>8 DEF Account
  <2> HIDE DEF c
  <2>8. Balanced(c, windows)
    <3>1. IsFiniteSet(windows) /\ b.life = b.used + Sum(windows)
      BY <1>9, <2>1 DEF Balanced
    <3>2. Sum(windows) \in Int
      <4>1. windows \in SUBSET Window
        BY <1>5, <1>4, <1>8, ElapsedFacts DEF windows, RolledWindows, Inserted
      <4>. QED
        BY <3>1, <4>1, SumOfWindow
    <3>3. c.life = c.used + Sum(windows)
      BY <1>3, <2>5, <2>6, <2>7, <3>1, <3>2
    <3>. QED
      BY <3>1, <3>3 DEF Balanced
  <2>9. UsedOK(c, prov, reader', newest'[k], now)
    <3>1. \A s \in Readers : InFetchOrder(reader[r], reader[s])
      BY <1>3 DEF IInv, ReadersOK
    <3>2. \A s \in Readers : reader'[s].pc # "idle" /\ reader'[s].reset = prov.reset
                                /\ x.no <= reader'[s].no => x.used <= reader'[s].used
      BY <1>3, <1>6, <2>3, <3>1 DEF GoOn, Remain, InFetchOrder
    <3>. QED
      BY <2>3, <2>4, <2>6, <3>2 DEF UsedOK
  <2>. QED
    BY <2>8, <2>9
<1>. QED
  BY <1>11, <1>12

LEMMA BalanceNext == BInv /\ [Next]_vars => BInv'
<1> SUFFICES ASSUME BInv, [Next]_vars PROVE BInv'
  OBVIOUS
<1>1. IInv'
  BY NextInv DEF BInv
<1>2. \A k \in Keys : BalanceOK(k)'
  <2>1. CASE UNCHANGED vars
    BY <2>1 DEF vars, BInv, BalanceOK
  <2>. QED
    BY <2>1, TouchBalance, ReconcileBalance, DeleteBalance, UseBalance, TickBalance, FetchBalance,
       PercentagesBalance, UsageBalance, AbandonBalance, MergeBalance DEF Next
<1>. QED
  BY <1>1, <1>2 DEF BInv

-----------------------------------------------------------------------------
(* Theorems                                                                  *)

\* Whatever is rolled over, merged, deleted and read, the tables stay well
\* formed, the windows have bounds and the rows a refresh to come.
THEOREM UsageTyped == Spec => []TypeOK
<1>1. IInv => TypeOK
  BY DEF IInv
<1>. QED
  BY <1>1, Invariant, PTL

\* However many tasks read the limits and whatever windows roll over meanwhile,
\* no usage is counted twice.
THEOREM NotInflated == Spec => []LifetimeNotInflated
<1>1. ASSUME IInv PROVE LifetimeNotInflated
  <2> SUFFICES ASSUME NEW k \in Keys, k \notin disturbed, accounts[k] # None
               PROVE  accounts[k].life <= prov.spent
    BY DEF LifetimeNotInflated
  <2>1. accounts[k] \in Account /\ CountOK(accounts[k], prov, reader, newest[k])
        /\ prov \in Provider
    BY <1>1 DEF IInv, TypeOK, AccountOK, Provider
  <2>2. accounts[k].life \in Nat /\ accounts[k].used \in Nat
        /\ prov.used \in Nat /\ prov.spent \in Nat
    BY <2>1, UsageAssumption DEF Account, Provider
  <2>. QED
    BY <2>1, <2>2 DEF CountOK
<1>. QED
  BY <1>1, Invariant, PTL

\* Whoever rolls over first, however many boundaries were missed and whatever
\* readings are saved meanwhile, every unit of lifetime usage is in one recorded
\* window or in the counter of the current one.
THEOREM UsageInOneWindow == Spec => []LifetimeInWindows
<1>1. Init => BInv
  BY InitHolds DEF Init, BInv, BalanceOK
<1>2. BInv => LifetimeInWindows
  BY DEF BInv, BalanceOK, Balanced, Sum, LifetimeInWindows
<1>. QED
  BY <1>1, <1>2, BalanceNext, PTL DEF Spec

\* Recorded windows follow each other, however many boundaries were missed and
\* whoever rolled them over.
THEOREM WindowsFollow == Spec => []WindowsInOrder
<1>1. ASSUME IInv PROVE WindowsInOrder
  <2> SUFFICES ASSUME NEW k \in Keys \ disturbed PROVE InOrder(rollovers[k])
    BY DEF WindowsInOrder, InOrder
  <2>1. AccountOK(k)
    BY <1>1 DEF IInv
  <2>. QED
    BY <2>1 DEF AccountOK, WindowsOK, InOrder
<1>. QED
  BY <1>1, Invariant, PTL

\* No operation but the deletion of the account forgets a recorded window.
THEOREM NoWindowLost == Spec => WindowsKept
<1> DEFINE Kept(k, w) ==
             \/ k = Canonical /\ accounts'[k] = None
             \/ \E h \in Keys : \E v \in rollovers'[h] : v.start = w.start /\ v.end = w.end
<1>1. ASSUME IInv, [Next]_vars, NEW k \in Keys, NEW w \in rollovers[k] PROVE Kept(k, w)
  <2>1. ASSUME rollovers' = rollovers PROVE Kept(k, w)
    BY <2>1
  <2>2. ASSUME NEW j \in Keys, NEW a, NEW b, NEW moment,
               Save(j, b, RolledWindows(rollovers[j], a, moment))
        PROVE  Kept(k, w)
    <3>1. rollovers[k] \subseteq rollovers'[k]
      BY <2>2, <1>1 DEF IInv, TypeOK, Save, RolledWindows, Inserted
    <3>. QED
      BY <3>1
  <2>3. CASE Touch
    BY <2>2, <2>3, UsageAssumption DEF Touch
  <2>4. CASE ReconcileDue
    <3>1. rollovers[k] \subseteq rollovers'[k]
      BY <2>4 DEF ReconcileDue, RolledWindows, Inserted
    <3>. QED
      BY <3>1
  <2>5. CASE Delete
    BY <2>5, <1>1, UsageAssumption DEF Delete, Save, IInv, TypeOK
  <2>6. ASSUME NEW r \in Readers, SyncUsage(r) PROVE Kept(k, w)
    <3>1. reader[r].key \in Keys
      BY <1>1, <2>6 DEF SyncUsage, IInv, ReadersOK, ReadingOK
    <3>. QED
      BY <2>2, <2>6, <3>1 DEF SyncUsage
  <2>7. ASSUME NEW j \in Keys, Merge(j) PROVE Kept(k, w)
    <3>1. rollovers \in [Keys -> SUBSET Window] /\ Canonical \in Keys /\ j # Canonical
      BY <1>1, <2>7, UsageAssumption DEF IInv, TypeOK, Merge
    <3>2. rollovers' = [rollovers EXCEPT ![j] = {},
                          ![Canonical] = MergedWindows(rollovers[j], rollovers[Canonical])]
      BY <2>7, <3>1 DEF Merge
    <3>3. rollovers'[Canonical] = Inserted(rollovers[Canonical], rollovers[j])
      BY <3>1, <3>2 DEF MergedWindows
    <3>4. CASE k = j
      <4>1. \E v \in rollovers'[Canonical] : v.start = w.start /\ v.end = w.end
        BY <3>3, <3>4 DEF Inserted
      <4>. QED
        BY <3>1, <4>1
    <3>5. CASE k = Canonical
      BY <3>1, <3>3, <3>5 DEF Inserted
    <3>6. CASE k \notin {j, Canonical}
      BY <3>1, <3>2, <3>6
    <3>. QED
      BY <3>4, <3>5, <3>6
  <2> HIDE DEF Kept
  <2>8. CASE Use \/ Tick \/ UNCHANGED vars
    BY <2>1, <2>8 DEF Use, Tick, vars
  <2>9. ASSUME NEW r \in Readers, Fetch(r) \/ SyncPercentages(r) \/ Abandon(r) PROVE Kept(k, w)
    BY <2>1, <2>9 DEF Fetch, SyncPercentages, Abandon
  <2>. QED
    BY <1>1, <2>3, <2>4, <2>5, <2>6, <2>7, <2>8, <2>9 DEF Next
<1>2. IInv /\ [Next]_vars =>
        \A k \in Keys : \A w \in rollovers[k] :
           \/ k = Canonical /\ accounts'[k] = None
           \/ \E h \in Keys : \E v \in rollovers'[h] : v.start = w.start /\ v.end = w.end
  BY <1>1
<1>. QED
  BY <1>2, Invariant, PTL DEF Spec, WindowsKept
=============================================================================
