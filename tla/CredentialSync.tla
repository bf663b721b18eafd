--------------------------- MODULE CredentialSync ---------------------------
(* How the saved profiles reach the lease broker.  Almost every request of a  *)
(* client or the administrator, and the refresh worker, first copies the      *)
(* readings of all profiles into broker_credentials: one transaction lists,   *)
(* another writes each row, a third revokes the leases of an exhausted one.   *)
(* Tasks that refresh the limits or the tokens of a profile then set or clear *)
(* its assignment flag, the one the administrator uses.  The processes that   *)
(* do all this share the database only.                                       *)
EXTENDS LeaseBroker

CONSTANTS
    Procs,           \* API workers and the refresh worker
    PreferredEmails, \* credentials with a preferred email
    Levels,          \* usage the provider may report
    MaxCrash,        \* bound: processes that die
    MaxRefresh       \* bound: refreshes of a profile begun

ASSUME SyncAssumption ==
    /\ PreferredEmails \subseteq Credentials /\ Levels \subseteq Nat
    /\ MaxCrash \in Nat /\ MaxRefresh \in Nat

VARIABLES
    profile,   \* saved profiles: token, refusal of its refresh, latest reading
    refused,   \* what each process remembers of the profiles' last refreshes
    sync,      \* the sync each process is in
    task,      \* the refresh each process is in
    crashes, refreshes,
    asked,     \* history: credentials the administrator disabled
    overruled  \* history: those of them that somebody else enabled

syncVars == <<profile, refused, sync, task, crashes, refreshes, asked, overruled>>

Profile ==
    [token : {"valid", "expired"}, reauth : BOOLEAN,
     util : Nullable(Nat), weekly : Nullable(Nat), at : Nullable(Nat)]

NewProfile == [token |-> "valid", reauth |-> FALSE, util |-> None, weekly |-> None, at |-> None]

\* What a sync takes from a profile, and what it keeps of a row it listed.
Lesson ==
    [ util : Nullable(Nat), quota : Nullable(Nat), weekly : Nullable(Nat), at : Nat,
      reauth : BOOLEAN, preferred : BOOLEAN ]
RowSeen == [exhausted : BOOLEAN, disabled : BOOLEAN]

SyncState ==
    [ pc       : {"idle", "usage", "rows", "write", "mark"},
      profiles : Nullable([Credentials -> Lesson]),
      held     : SUBSET Credentials,                \* those that were leased
      rows     : Nullable([Credentials -> RowSeen]),
      todo     : SUBSET Credentials,                \* rows to write
      cur      : Nullable(Credentials) ]            \* the row to revoke for

TaskState ==
    [ pc   : {"idle", "fetch", "enable", "disable"},
      kind : Nullable({"limits", "tokens"}),
      cred : Nullable(Credentials) ]

NoSync == [pc |-> "idle", profiles |-> None, held |-> {}, rows |-> None,
           todo |-> {}, cur |-> None]
NoTask == [pc |-> "idle", kind |-> None, cred |-> None]

SyncTypeOK ==
    /\ TypeOK
    /\ profile \in [Credentials -> Profile]
    /\ refused \in [Procs -> SUBSET Credentials]
    /\ sync \in [Procs -> SyncState] /\ task \in [Procs -> TaskState]
    /\ crashes \in 0..MaxCrash /\ refreshes \in 0..MaxRefresh
    /\ asked \subseteq Credentials /\ overruled \subseteq asked

SyncInit ==
    /\ Init
    /\ profile = [c \in Credentials |-> NewProfile]
    /\ refused = [p \in Procs |-> {}]
    /\ sync = [p \in Procs |-> NoSync]
    /\ task = [p \in Procs |-> NoTask]
    /\ crashes = 0 /\ refreshes = 0
    /\ asked = {} /\ overruled = {}

-----------------------------------------------------------------------------
(* _sync_broker_credentials_from_profiles                                    *)

Syncing(p, step) == sync[p].pc = step

\* What a sync takes from a profile: a token that is still good is never said
\* to need a new login.
NeedsLogin(p, c) ==
    /\ profile[c].token = "expired"
    /\ c \in refused[p] \/ profile[c].reauth

\* Mutant of Learned: a profile without a preferred email tells nothing.
LearnedNull(p, c) ==
    [util |-> profile[c].util, quota |-> None, reauth |-> NeedsLogin(p, c),
     preferred |-> IF c \in PreferredEmails THEN profile[c].token = "valid" ELSE None,
     weekly |-> profile[c].weekly,
     at |-> IF profile[c].at = None THEN now ELSE profile[c].at]

Learned(p, c) ==
    [util |-> profile[c].util, quota |-> None, reauth |-> NeedsLogin(p, c),
     preferred |-> c \in PreferredEmails /\ profile[c].token = "valid",
     weekly |-> profile[c].weekly,
     at |-> IF profile[c].at = None THEN now ELSE profile[c].at]

\* Every list of leases or credentials ends those that are overdue.
ExpireListed ==
    /\ lease' = LeasesExpired(OverdueLeases)
    /\ cred' = CredsExpired(OverdueLeases)
    /\ UNCHANGED now

ListLeases(p) ==
    /\ Syncing(p, "idle") /\ ExpireListed
    /\ sync' = [sync EXCEPT ![p].pc = "usage",
                            ![p].held = {c \in Credentials : HeldIn(lease', c)}]
    /\ UNCHANGED <<profile, refused, task, crashes, refreshes, asked, overruled>>

ReadUsage(p) ==
    /\ Syncing(p, "usage")
    /\ sync' = [sync EXCEPT ![p].pc = "rows",
                            ![p].profiles = [c \in Credentials |-> Learned(p, c)]]
    /\ UNCHANGED <<vars, profile, refused, task, crashes, refreshes, asked, overruled>>

ListCredentials(p) ==
    /\ Syncing(p, "rows") /\ ExpireListed
    /\ sync' = [sync EXCEPT ![p].pc = "write", ![p].todo = Credentials,
                            ![p].rows = [c \in Credentials |->
                                [exhausted |-> cred'[c].state = "exhausted",
                                 disabled  |-> cred'[c].disabled]]]
    /\ UNCHANGED <<profile, refused, task, crashes, refreshes, asked, overruled>>

\* Mutant of CarriedFlag: the flag is not among the metadata that are kept.
CarriedFlagDropped(p, c) == FALSE

\* The flag as it was in the rows that were listed.
CarriedFlag(p, c) == sync[p].rows[c].disabled

\* Mutant of Revokes: a credential that is exhausted already needs nothing.
RevokesOnce(p, c) ==
    AtLeast(sync[p].profiles[c].util, ExhaustedAt) /\ ~sync[p].rows[c].exhausted

\* Its leases are revoked when it is newly exhausted or was seen leased.
Revokes(p, c) ==
    /\ AtLeast(sync[p].profiles[c].util, ExhaustedAt)
    /\ ~sync[p].rows[c].exhausted \/ c \in sync[p].held

\* What p still needs for the rows in todo.
Rest(p, todo) == IF todo = {} THEN NoSync ELSE [sync[p] EXCEPT !.pc = "write", !.todo = todo]

\* sync_broker_credential, with the flag the process read before.
WriteRow(p) ==
    \E c \in sync[p].todo :
        LET r == sync[p].profiles[c]
            rest == sync[p].todo \ {c}
        IN  /\ Syncing(p, "write")
            /\ cred' = [cred EXCEPT ![c] =
                    Reconcile([SyncedRow(c, r, r.weekly, r.at)
                                  EXCEPT !.disabled = CarriedFlag(p, c)], HeldIn(lease, c), now)]
            /\ sync' = [sync EXCEPT ![p] =
                    IF Revokes(p, c) THEN [Rest(p, rest) EXCEPT !.pc = "mark", !.cur = c]
                    ELSE Rest(p, rest)]
            /\ overruled' = IF c \in asked /\ ~sync[p].rows[c].disabled THEN overruled \cup {c}
                            ELSE overruled
            /\ UNCHANGED <<lease, now, profile, refused, task, crashes, refreshes, asked>>

MarkRow(p) ==
    /\ Syncing(p, "mark")
    /\ MarkExhausted(sync[p].cur)
    /\ sync' = [sync EXCEPT ![p] = [Rest(p, sync[p].todo) EXCEPT !.cur = None]]
    /\ UNCHANGED <<profile, refused, task, crashes, refreshes, asked, overruled>>

SyncStep(p) ==
    \/ ListLeases(p) \/ ReadUsage(p) \/ ListCredentials(p)
    \/ WriteRow(p) \/ MarkRow(p)

-----------------------------------------------------------------------------
(* Refreshes of the limits and of the tokens of a profile                    *)

\* A process runs one handler at a time; a refresh lets others run while it
\* waits for the provider.
Refreshing(p, step) == task[p].pc = step /\ Syncing(p, "idle")

Begin(p, c, kind, step) ==
    /\ Refreshing(p, "idle") /\ refreshes < MaxRefresh
    /\ refreshes' = refreshes + 1
    /\ task' = [task EXCEPT ![p] = [pc |-> step, kind |-> kind, cred |-> c]]
    /\ UNCHANGED <<vars, profile, sync, crashes, asked, overruled>>

\* _refresh_profile_session_limits: a profile that needs a new login is not
\* asked for; its process may or may not remember why.
BeginLimits(p, c) ==
    IF NeedsLogin(p, c)
    THEN /\ Begin(p, c, "limits", "disable")
         /\ \E again \in BOOLEAN :
                refused' = [refused EXCEPT ![p] = IF again THEN @ \cup {c} ELSE @ \ {c}]
    ELSE Begin(p, c, "limits", "fetch") /\ UNCHANGED refused

\* _refresh_saved_auths_if_needed, without its recovery from the active auth.
BeginTokens(p, c) ==
    /\ profile[c].token = "expired" /\ ~profile[c].reauth
    /\ Begin(p, c, "tokens", "fetch")
    /\ UNCHANGED refused

Answered(p, step) ==
    /\ Refreshing(p, "fetch")
    /\ task' = [task EXCEPT ![p] = IF step = "idle" THEN NoTask ELSE [@ EXCEPT !.pc = step]]
    /\ UNCHANGED <<vars, sync, crashes, refreshes, asked, overruled>>

LimitsRead(p) ==
    /\ task[p].kind = "limits" /\ Answered(p, "enable")
    /\ LET c == task[p].cred
       IN  /\ \E level \in Levels, weekly \in ResetsAfter(now) :
                profile' = [profile EXCEPT ![c].util = level, ![c].weekly = weekly, ![c].at = now]
           /\ refused' = [refused EXCEPT ![p] = @ \ {c}]

\* The token is refused, or something else fails.
LimitsFailed(p) ==
    /\ task[p].kind = "limits"
    /\ LET c == task[p].cred
       IN  \/ /\ profile[c].token = "expired" /\ Answered(p, "disable")
              /\ refused' = [refused EXCEPT ![p] = @ \cup {c}]
           \/ /\ Answered(p, "idle")
              /\ refused' = [refused EXCEPT ![p] = @ \ {c}]
    /\ UNCHANGED profile

TokensRefreshed(p) ==
    /\ task[p].kind = "tokens" /\ Answered(p, "enable")
    /\ profile' = [profile EXCEPT ![task[p].cred].token = "valid", ![task[p].cred].reauth = FALSE]
    /\ UNCHANGED refused

TokensRefused(p) ==
    /\ task[p].kind = "tokens"
    /\ \/ /\ Answered(p, "disable")
          /\ profile' = [profile EXCEPT ![task[p].cred].reauth = TRUE]
       \/ Answered(p, "idle") /\ UNCHANGED profile
    /\ UNCHANGED refused

\* Either sets or clears the flag that the administrator has, too.
SetFlag(p) ==
    /\ Refreshing(p, "enable") \/ Refreshing(p, "disable")
    /\ LET c == task[p].cred
       IN  /\ SetDisabled(c, task[p].pc = "disable")
           /\ overruled' = IF c \in asked /\ task[p].pc = "enable" THEN overruled \cup {c}
                           ELSE overruled
    /\ task' = [task EXCEPT ![p] = NoTask]
    /\ UNCHANGED <<profile, refused, sync, crashes, refreshes, asked>>

TaskStep(p) ==
    \/ \E c \in Credentials : BeginLimits(p, c) \/ BeginTokens(p, c)
    \/ LimitsRead(p) \/ LimitsFailed(p) \/ TokensRefreshed(p) \/ TokensRefused(p) \/ SetFlag(p)

-----------------------------------------------------------------------------
(* Everybody else                                                            *)

\* The administrator's handlers, after a sync of their own.
Administer(c, flag) ==
    /\ \E p \in Procs : Syncing(p, "idle")
    /\ SetDisabled(c, flag)
    /\ asked' = IF flag THEN asked \cup {c} ELSE asked \ {c}
    /\ overruled' = overruled \ {c}
    /\ UNCHANGED <<profile, refused, sync, task, crashes, refreshes>>

TokenExpires(c) ==
    /\ profile[c].token = "valid"
    /\ profile' = [profile EXCEPT ![c].token = "expired"]
    /\ UNCHANGED <<vars, refused, sync, task, crashes, refreshes, asked, overruled>>

\* A new login is saved.
LoginAgain(c) ==
    /\ profile[c].token = "expired"
    /\ profile' = [profile EXCEPT ![c].token = "valid", ![c].reauth = FALSE]
    /\ UNCHANGED <<vars, refused, sync, task, crashes, refreshes, asked, overruled>>

\* A process that dies forgets the refusals, too.
CrashProc(p) ==
    /\ crashes < MaxCrash /\ crashes' = crashes + 1
    /\ sync' = [sync EXCEPT ![p] = NoSync]
    /\ task' = [task EXCEPT ![p] = NoTask]
    /\ refused' = [refused EXCEPT ![p] = {}]
    /\ UNCHANGED <<vars, profile, refreshes, asked, overruled>>

SyncNext ==
    \/ \E p \in Procs : SyncStep(p) \/ TaskStep(p) \/ CrashProc(p)
    \/ \E c \in Credentials :
        TokenExpires(c) \/ LoginAgain(c) \/ \E flag \in AdminFlags : Administer(c, flag)
    \/ (ClientStep \/ ReconcileLeases \/ Tick) /\ UNCHANGED syncVars

\* Requests keep coming, to some process: a machine with a lease reports at
\* least once a minute, and each report begins with a sync.
SyncSpec ==
    /\ SyncInit /\ [][SyncNext]_<<vars, syncVars>>
    /\ WF_<<vars, syncVars>>(\E p \in Procs : SyncStep(p))

-----------------------------------------------------------------------------
(* Properties                                                                *)

\* What the administrator disabled stays so until the administrator, or a
\* refresh of that profile that succeeds, enables it, or a sync under way in
\* another process writes back the row it had listed before: no sync that
\* begins later drops the flag.
AdminFlagKept == \A c \in asked \ overruled : cred[c].disabled

Unrevoked(c) == HeldIn(lease, c) /\ AtLeast(profile[c].util, ExhaustedAt)

\* The leases of a credential whose saved reading says exhausted are revoked,
\* although a process may die between the transaction that writes the row and
\* the one that revokes: some later sync makes up for it, unless the reading
\* changes.
ExhaustedRevoked == \A c \in Credentials : Unrevoked(c) ~> ~Unrevoked(c)
=============================================================================
