---------------------------- MODULE UsageWindows ----------------------------
(* The usage counters of an account and the windows they roll over into.      *)
(* Readings of the provider's limits are fetched and saved by several tasks,  *)
(* each save a database transaction of its own; the usage worker rolls over   *)
(* the windows that are due.  A usage account is kept under the account key   *)
(* of its profile, or under an older alias that is merged into the key later. *)
EXTENDS Integers, FiniteSets, FiniteSetsExt

CONSTANTS
    Keys,        \* ids of usage accounts: the account key and its aliases
    Canonical,   \* the account key of the profile
    Readers,     \* tasks that fetch and save readings of the limits
    Types,       \* the window types the provider names
    Day, Month,  \* length of the two window types
    Span,        \* length of the provider's own window
    MaxTime, MaxUse, MaxReads,  \* bounds: clock, usage, readings fetched
    None

VARIABLES
    now,       \* the clock
    prov,      \* the provider: usage of its window, the window's end, usage ever
    accounts,  \* the table accounts
    rollovers, \* usage_rollovers: the windows recorded for each account
    reader,    \* what each task is doing, with its reading
    reads,     \* readings fetched
    newest,    \* history: the latest reading saved for an account
    disturbed  \* history: accounts a late reading was saved for, or merged into

vars == <<now, prov, accounts, rollovers, reader, reads, newest, disturbed>>
history == <<newest, disturbed>>

Times == 0..MaxTime
Account ==
    [ type : {"daily", "monthly"}, used : Nat, life : Nat,
      refreshAt : Int, last : Int \cup {None} ]
Window == [start : Int, end : Int, used : Nat]
Reading ==
    [ pc : {"idle", "percent", "usage"},  \* what is saved next
      key : Keys \cup {None},
      no : 0..MaxReads,                   \* the how-manieth reading it is
      used : 0..MaxUse, reset : Nat,      \* what the provider said
      since : Times ]                     \* the earliest moment it is saved as of

ASSUME UsageAssumption ==
    /\ Canonical \in Keys /\ IsFiniteSet(Keys)
    /\ Types \subseteq {"daily", "monthly"} /\ Types # {}
    /\ Day \in Nat \ {0} /\ Month \in Nat \ {0} /\ Span \in Nat \ {0}
    /\ MaxTime \in Nat /\ MaxUse \in Nat /\ MaxReads \in Nat
    /\ None \notin Keys /\ None \notin Int /\ None \notin Account

Length(type) == IF type = "monthly" THEN Month ELSE Day

NextBoundary(t, type) == (t \div Length(type) + 1) * Length(type)

PreviousBoundary(t, type) == t - Length(type)

IdleReader == [pc |-> "idle", key |-> None, no |-> 0, used |-> 0, reset |-> 0, since |-> 0]

TypeOK ==
    /\ now \in Times
    /\ prov \in [used : 0..MaxUse, reset : Nat, spent : 0..MaxUse]
    /\ accounts \in [Keys -> Account \cup {None}]
    /\ rollovers \in [Keys -> SUBSET Window]
    /\ reader \in [Readers -> Reading]
    /\ reads \in 0..MaxReads /\ newest \in [Keys -> 0..MaxReads]
    /\ disturbed \subseteq Keys

Init ==
    /\ now = 0
    /\ \E reset \in 1..Span : prov = [used |-> 0, reset |-> reset, spent |-> 0]
    /\ accounts = [k \in Keys |-> None]
    /\ rollovers = [k \in Keys |-> {}]
    /\ reader = [r \in Readers |-> IdleReader]
    /\ reads = 0 /\ newest = [k \in Keys |-> 0]
    /\ disturbed = {}

-----------------------------------------------------------------------------
(* Rolling over                                                              *)

NewAccount(type, refreshAt, last) ==
    [type |-> type, used |-> 0, life |-> 0, refreshAt |-> refreshAt, last |-> last]

\* The ends of the windows that are over: the refresh due, and every boundary since.
Ends(a, moment) ==
    {e \in a.refreshAt..moment : e = a.refreshAt \/ e % Length(a.type) = 0}

\* Mutant of Started: the first window has no start.
StartedBare(a) == a.last

Started(a) == IF a.last = None THEN PreviousBoundary(a.refreshAt, a.type) ELSE a.last

\* The usage goes to the first of them; the others were missed and are empty.
Elapsed(a, moment) ==
    {[start |-> IF e = a.refreshAt THEN Started(a) ELSE Max({f \in Ends(a, moment) : f < e}),
      end |-> e,
      used |-> IF e = a.refreshAt THEN a.used ELSE 0] : e \in Ends(a, moment)}

\* INSERT OR IGNORE: a window known with the same bounds is kept as it is.
Inserted(known, windows) ==
    known \cup {w \in windows : \A v \in known : v.start # w.start \/ v.end # w.end}

\* Mutant of Rolled: the usage is carried into the next window.
RolledKeepingUsage(a, moment) ==
    IF Ends(a, moment) = {} THEN a
    ELSE LET end == Max(Ends(a, moment))
         IN  [a EXCEPT !.last = end, !.refreshAt = NextBoundary(end, a.type)]

\* Mutant of Rolled: the next window starts where the last one did.
RolledSameStart(a, moment) ==
    IF Ends(a, moment) = {} THEN a
    ELSE [a EXCEPT !.used = 0, !.refreshAt = NextBoundary(Max(Ends(a, moment)), a.type)]

\* _refresh_account_window_if_needed_locked: the row ...
Rolled(a, moment) ==
    IF Ends(a, moment) = {} THEN a
    ELSE LET end == Max(Ends(a, moment))
         IN  [a EXCEPT !.used = 0, !.last = end, !.refreshAt = NextBoundary(end, a.type)]

\* ... and the windows it records.
RolledWindows(known, a, moment) == Inserted(known, Elapsed(a, moment))

\* A transaction that ends with the row of the account and the windows recorded.
Save(k, a, windows) ==
    /\ accounts' = [accounts EXCEPT ![k] = a]
    /\ rollovers' = [rollovers EXCEPT ![k] = windows]

-----------------------------------------------------------------------------
(* Operations of the store                                                   *)

\* ensure_account, then record_account_usage of nothing: a request that shows
\* the profile.
Touch ==
    /\ LET k == Canonical
           a == IF accounts[k] = None THEN NewAccount("daily", NextBoundary(now, "daily"), None)
                ELSE accounts[k]
       IN  Save(k, Rolled(a, now), RolledWindows(rollovers[k], a, now))
    /\ UNCHANGED <<now, prov, reader, reads, history>>

\* Mutant of DueKeys: a window is due only after its end.
DueKeysLate == {k \in Keys : accounts[k] # None /\ accounts[k].refreshAt < now}

DueKeys == {k \in Keys : accounts[k] # None /\ accounts[k].refreshAt <= now}

\* The usage worker.
ReconcileDue ==
    /\ DueKeys # {}
    /\ accounts' = [k \in Keys |-> IF k \in DueKeys THEN Rolled(accounts[k], now) ELSE accounts[k]]
    /\ rollovers' = [k \in Keys |-> IF k \in DueKeys THEN RolledWindows(rollovers[k], accounts[k], now)
                                    ELSE rollovers[k]]
    /\ UNCHANGED <<now, prov, reader, reads, history>>

\* A reading of the limits.  A refresh of the session saves the percentages of
\* the profile first; GET /auth/rate-limits saves the usage only, and under the
\* label while no profile is found.
Fetch(r) ==
    /\ reader[r].pc = "idle" /\ reads < MaxReads
    /\ reads' = reads + 1
    /\ \E k \in Keys, step \in {"percent", "usage"} :
        /\ step = "percent" => k = Canonical
        /\ reader' = [reader EXCEPT ![r] = [pc |-> step, key |-> k, no |-> reads + 1,
                                         used |-> prov.used, reset |-> prov.reset, since |-> now]]
    /\ UNCHANGED <<now, prov, accounts, rollovers, history>>

\* sync_account_rate_limit_percentages.  Its moment was taken before the
\* transaction began; rate_limit_last_refreshed_at becomes that moment.
SyncPercentages(r) ==
    /\ reader[r].pc = "percent"
    /\ LET k == reader[r].key
       IN  \E moment \in reader[r].since..now :
            /\ accounts' = [accounts EXCEPT ![k] =
                    IF @ = None THEN NewAccount("daily", NextBoundary(moment, "daily"), moment)
                    ELSE [@ EXCEPT !.last = moment]]
            /\ disturbed' = IF \E w \in rollovers[k] : moment < w.end
                            THEN disturbed \cup {k} ELSE disturbed
    /\ reader' = [reader EXCEPT ![r].pc = "usage", ![r].since = now]
    /\ UNCHANGED <<now, prov, rollovers, reads, newest>>

\* Mutant of Counted: a reading counts in full.
CountedWhole(a, used) == [a EXCEPT !.used = used, !.life = @ + used]

\* Usage above what is known is new; less means that the provider's window was
\* reset, and nothing is added.
Counted(a, used) ==
    [a EXCEPT !.used = used, !.life = IF used >= a.used THEN @ + (used - a.used) ELSE @]

\* sync_account_usage_snapshot: the row is rolled over first, then takes the
\* reading's usage and the end of the provider's window.
SyncUsage(r) ==
    /\ reader[r].pc = "usage"
    /\ \E moment \in reader[r].since..now, type \in Types :
        LET k == reader[r].key
            a == IF accounts[k] = None THEN NewAccount(type, reader[r].reset, None) ELSE accounts[k]
        IN  Save(k, [Counted(Rolled(a, moment), reader[r].used)
                        EXCEPT !.type = type, !.refreshAt = reader[r].reset],
                 RolledWindows(rollovers[k], a, moment))
    /\ newest' = [newest EXCEPT ![reader[r].key] = Max({@, reader[r].no})]
    /\ disturbed' = IF reader[r].no < newest[reader[r].key] \/ reader[r].reset <= now
                    THEN disturbed \cup {reader[r].key} ELSE disturbed
    /\ reader' = [reader EXCEPT ![r] = IdleReader]
    /\ UNCHANGED <<now, prov, reads>>

\* A fetch that fails, or a task that dies between its two saves.
Abandon(r) ==
    /\ reader[r].pc # "idle"
    /\ reader' = [reader EXCEPT ![r] = IdleReader]
    /\ UNCHANGED <<now, prov, accounts, rollovers, reads, history>>

\* The last profile of the account is deleted.
Delete ==
    /\ accounts[Canonical] # None
    /\ Save(Canonical, None, {})
    /\ UNCHANGED <<now, prov, reader, reads, history>>

\* The row that two rows of one account are merged into.
MergedAccount(from, into) ==
    [into EXCEPT !.used = Max({@, from.used}), !.life = Max({@, from.life}),
                 !.refreshAt = Max({@, from.refreshAt}),
                 !.last = IF @ = None THEN from.last ELSE @]

\* Mutant of MergedWindows: the windows of the alias go with its row.
MergedWindowsDropped(from, into) == into

MergedWindows(from, into) == Inserted(into, from)

\* merge_account_data: a startup or a rename moves an alias to the account key.
Merge(k) ==
    /\ k # Canonical /\ accounts[k] # None
    /\ accounts' = [accounts EXCEPT ![k] = None, ![Canonical] =
            IF @ = None THEN accounts[k] ELSE MergedAccount(accounts[k], @)]
    /\ rollovers' = [rollovers EXCEPT ![k] = {}, ![Canonical] = MergedWindows(rollovers[k], @)]
    /\ disturbed' = disturbed \cup {Canonical}
    /\ UNCHANGED <<now, prov, reader, reads, newest>>

-----------------------------------------------------------------------------
(* The provider, time and the specification                                  *)

Use ==
    /\ prov.spent < MaxUse
    /\ prov' = [prov EXCEPT !.used = @ + 1, !.spent = @ + 1]
    /\ UNCHANGED <<now, accounts, rollovers, reader, reads, history>>

\* At its end the provider's window starts again from nothing.
Tick ==
    /\ now < MaxTime
    /\ now' = now + 1
    /\ prov' = IF now + 1 < prov.reset THEN prov
               ELSE [prov EXCEPT !.used = 0, !.reset = now + 1 + Span]
    /\ UNCHANGED <<accounts, rollovers, reader, reads, history>>

Next ==
    \/ Touch \/ ReconcileDue \/ Delete \/ Use \/ Tick
    \/ \E r \in Readers : Fetch(r) \/ SyncPercentages(r) \/ SyncUsage(r) \/ Abandon(r)
    \/ \E k \in Keys : Merge(k)

\* The usage worker runs its loop for ever.
Spec == Init /\ [][Next]_vars /\ WF_vars(ReconcileDue)

-----------------------------------------------------------------------------
(* Properties                                                                *)

\* What the counters know was really spent, once: neither a rollover by the
\* worker or by a request, nor a merge, nor a reading fetched before another
\* task's makes the lifetime usage larger than what the provider counted, as
\* long as readings are saved in the order they were fetched and before their
\* window ends (sync_account_usage_snapshot 376-390).
LifetimeNotInflated ==
    \A k \in Keys : k \notin disturbed /\ accounts[k] # None => accounts[k].life <= prov.spent

\* Every unit of lifetime usage is in exactly one recorded window or in the
\* current one, whoever rolls over first and however many boundaries were missed
\* (the window is closed and its counter cleared in one transaction, and a
\* second rollover of it inserts nothing).
LifetimeInWindows ==
    \A k \in Keys : k \notin disturbed /\ accounts[k] # None =>
        accounts[k].life = accounts[k].used + MapThenSumSet(LAMBDA w : w.used, rollovers[k])

\* The windows of an account follow each other: none ends where another ends, or
\* inside it.
WindowsInOrder ==
    \A k \in Keys \ disturbed : \A v, w \in rollovers[k] :
        v # w => v.end # w.end /\ (v.end < w.end => v.end <= w.start)

\* A recorded window is forgotten only with the account: a merge hands it on.
WindowsKept ==
    [][\A k \in Keys : \A w \in rollovers[k] :
        \/ k = Canonical /\ accounts'[k] = None
        \/ \E h \in Keys : \E v \in rollovers'[h] : v.start = w.start /\ v.end = w.end]_vars

Over(k) == accounts[k] # None /\ accounts[k].refreshAt <= now

\* A window that is over is rolled over even if nobody asks for its account
\* again (reconcile_due_accounts, also at the very moment the window ends).
DueIsRolledOver == \A k \in Keys : Over(k) ~> ~Over(k)
=============================================================================
