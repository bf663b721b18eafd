# Auth Manager: a verification development

This directory holds TLA+ models of Auth Manager (the Python service under
`app/`, and the desktop plugin that uses it), TLC instances that check them, and
proofs checked by TLAPS. The models follow the code of the repository at this
commit; where the code and its documentation disagree, the model follows the
code. Two such disagreements are shown by runs; section 5 lists them and others.

## 1. The system

Auth Manager keeps a pool of Codex credentials (saved profiles) and lends them
to machines. A *lease* gives one machine one credential until a deadline; the
machine renews it, reports how much of the credential's quota is used, and asks
for another credential when usage is high.

| Component | State it keeps | Operations | What is hard | What makes it correct |
|---|---|---|---|---|
| **Lease broker** (`app/lease_broker_store.py`) | `broker_credentials`, `broker_leases` | sync, acquire, renew, release, telemetry, rotate, materialize, mark exhausted, disable, status, list, reconcile | concurrent requests, expiry noticed late, late telemetry, two tables that must agree, weekly resets | one active lease per credential; a held credential never looks free and a free one is not lost; ended leases stay ended; grants respect the policy; abandoned leases come back |
| **Database layer** (`app/account_usage_store.py`, connection and SQL translation) | connections in autocommit, explicit transactions | `BEGIN IMMEDIATE` on SQLite, plain `BEGIN` on Postgres | READ COMMITTED checks that are stale by the time of the write | the broker's promises on both databases |
| **API and sync** (`app/main.py`) | background tasks | request handlers, `_sync_broker_credentials_from_profiles` | one request is several transactions, with awaits in between | nothing the administrator or the client was told is undone by a concurrent request |
| **Workers** (`app/worker_main.py`) | none | lease reconciliation, usage reconciliation, refresh, rate-limit sync | run in several processes at once | they keep running after an exception |
| **Profile refresh** (`app/main.py`, `app/refresh_worker.py`, `app/auth_store.py`) | saved profiles, refresh token, auth generation | refresh a profile, persist the new token, flag `reauth_required` | single-use refresh tokens, two refreshers, awaits between read and write | a refresh token is spent once, a newer auth is never overwritten by an older one |
| **Usage windows** (`app/account_usage_store.py`) | windows, rollovers, absolute usage | ingest a reading, roll a window over | boundaries, duplicate rollovers, counters that fall | usage is counted once per window |
| **Identity and merge** (`app/account_identity.py`, `app/accounts.py`) | canonical account keys | resolve, merge aliases | long sequences of partial identities | two accounts are never merged into one |
| **Login sessions** (`app/login_sessions.py`, `app/oauth_flow.py`, `chrome-extension/`) | sessions, relay tokens | start, relay a callback, complete, expire | callback against timeout, two callbacks | a relay token completes one session |
| **Lease clients** (`packages/lease-runtime`, `headless-client`, `openclaw-plugin`, the editor extensions) | the lease they believe they hold, the auth file | ensure, renew, rotate, release, telemetry | stale leases, retries, two loops in one process | a client does not use a credential whose lease it lost for longer than a poll |
| **Cycler** (`codex-desktop-plugin/scripts`) | a local auth file | acquire, swap the file, release | crash between swap and report | the file matches the lease |
| **Codex worker** (`app/codex_app_server_worker.py`, `app/codex_cli.py`) | child processes | request and response over pipes | answers out of order | an answer reaches its request |
| **Frontend and shells** | none that the broker depends on | presentation | none | none |

The components interact in these ways. The API handlers call the broker, which
opens its own database connection and transaction for each operation. Before an
acquire or a rotation the API syncs the saved profiles into
`broker_credentials`, so the broker decides on readings that another component
took earlier. Clients poll the API, and learn of a lost lease only when a call
is denied. The lease worker and every API process run the same reconcile loop
against the same tables. Refresh workers and API handlers write the same saved
profiles and the same active auth, and both feed the broker: a refused refresh
and an exhausted reading withhold a credential. All of it goes through one
database; nothing but an advisory lock per profile and the locks of each process
keeps two processes apart.

## 2. The modules

| Module | Models | Kind |
|---|---|---|
| `CredentialPolicy` | what the broker decides about one row of `broker_credentials` | pure operators |
| `LeasePool` | what the broker promises: exclusive, numbered leases | abstract specification |
| `LeaseBroker` | all the broker's operations, one step per transaction | detailed specification, refines `LeasePool` |
| `LeaseTransactions` | the broker's operations statement by statement, on SQLite or Postgres | detailed specification, refines `LeaseBroker` under SQLite's write lock |
| `CredentialSync` | how saved profiles and the administrator's flag reach the broker, in several processes | composition with `LeaseBroker` |
| `LeaseClient` | the desktop plugin's cycle of requests, with faults | composition with `LeaseBroker` |
| `SavedProfiles` | the choices the code makes over the table of saved profiles | pure operators |
| `TokenRefresh` | API handlers and refresh workers on saved profiles and the active auth | specification |
| `UsageWindows` | the usage of an account, its windows, rollover, merge and deletion | specification |
| `LoginRelay` | login sessions and their callbacks in several API workers | specification |
| `LeaseBrokerProofs`, `LeasePolicyProofs`, `LeaseTransactionsProofs`, `CredentialSyncProofs`, `LeaseClientProofs`, `TokenRefreshProofs`, `UsageWindowsProofs`, `LoginRelayProofs` | the theorems of section 6 | proofs |
| `MC...` | small instances | for TLC |

### CredentialPolicy

A credential is a record of the columns and metadata keys that decide anything:
state, utilization, quota, weekly reset, pending and confirmed reset, time of
the last reading, the administrator's flag, `reauth_required`, and whether it is
a preferred credential with a usable token. Times and percentages are naturals.
`Reconcile` is `_reconcile_credential_row`, `ApplyTelemetry` is
`_apply_telemetry_to_credential`, `Assignable` and `UsableForExisting` are the
two predicates of the same names. The constant `JsonColumns` is TRUE for a
database that decodes the metadata column (Postgres JSONB) and FALSE for SQLite,
where `_reconcile_credential_row` gets text and sees no flag.

Left out: `revoked_at` and `cooldown_until` (no statement writes them),
`exhausted_at` (never read), and what only ranks candidates (`health_score`,
`last_assigned_at`, the label).

### LeaseBroker

| Variable | Code |
|---|---|
| `cred` | table `broker_credentials` |
| `lease` | table `broker_leases`; an id never inserted is `NoLease` |
| `now` | the clock (`datetime.now(timezone.utc)`) |

| Action | Code |
|---|---|
| `AcquireReuse`, `AcquireNew` | `acquire_broker_lease`, with the expiry of every overdue lease and the reconciliation of every row it looks at |
| `Renew`, `Materialize`, `ReadStatus` | `renew_broker_lease`, `materialize_broker_lease`, `get_broker_lease_status`, each with the expiry of the lease it is asked for |
| `Release`, `Rotate`, `Telemetry` | `release_broker_lease`, `rotate_broker_lease`, `record_broker_lease_telemetry` |
| `ReconcileLeases` | `reconcile_broker_leases` and every `list_*` call |
| `Sync`, `MarkExhausted`, `SetDisabled` | `sync_broker_credential` as the API calls it, `mark_broker_credential_exhausted`, `set_broker_credential_assignment_disabled` |
| `Tick` | time passes |

A step is a transaction. That is what SQLite does, because `BEGIN IMMEDIATE`
takes the write lock before the first read (run `tx_sqlite` checks it), and what
Postgres does as long as transactions do not overlap. The ranking of the candidates is left open: any
candidate may be picked among those that the filters of
`_select_best_eligible_credential` leave. Every theorem and every run therefore
holds for any ranking.

Denials that write nothing are stuttering steps. Denials that do write (an
acquire that expired leases, a rotation that reconciled candidates, a renew
that found its lease overdue) are disjuncts of their own.

### LeaseTransactions

It extends `LeaseBroker` and keeps its tables as what is committed; `tx` holds,
for each client (a database connection), the operation it is in, the rows it
has read, and the rows it has written and not committed. A step is one SQL
statement that writes, or one read whose result is used after others may have
written. Statements that cannot be told apart by another client are one step: a
last write and its commit, and what follows on a row that the transaction
already locks.

| Constant or operator | Code |
|---|---|
| `WriteLock` | TRUE: `BEGIN IMMEDIATE` on SQLite; FALSE: the `BEGIN` that `_translate_sql_to_postgres` makes of it |
| `LeasesFree`, `CredsFree` | the row locks of Postgres, or the write lock (external) |
| `Autocommit` | the operations that open no transaction |
| `Rewritten` | `_reconcile_credential_row` decides on the row it was given and updates the columns it decides |
| `Begin...` | an operation's first reads |
| `ExpireRow`, `ReadRow`, `WriteRow` | `_expire_lease_if_needed`, three statements |
| `Select`, `CheckHeld`, `ReconcileRow` | `_select_existing_machine_lease`, and the scan of `_select_best_eligible_credential` |
| `GrantAcquired`, `ChooseReplacement`, `Swap` | the end of an acquire, and of a rotation |
| `DetectDeadlock` | Postgres rolls a victim of a ring of waits back (external) |
| `Crash` | a process dies or a statement fails; the open transaction is rolled back, what an autocommit operation wrote stays |

Telemetry and `set_broker_credential_assignment_disabled` are not split, and the
clock stands still while any operation is open, so two operations that read
the clock at different times and then overlap are not covered.

### CredentialSync

It extends `LeaseBroker`. Almost every request of a client or the administrator
first runs `_sync_broker_credentials_from_profiles`, and so does the refresh
worker; this module takes that function apart into its transactions.

| Variable | Code |
|---|---|
| `profile` | what a sync takes from a saved profile: whether its token is valid, `reauth_required`, the latest reading |
| `refused[p]` | `_LAST_REFRESH_STATUS_BY_KEY`, a dictionary of each process |
| `sync[p]` | the sync a process is in, with the rows it has listed |
| `task[p]` | the refresh of the limits or of the tokens a process is in |
| `asked`, `overruled` | histories: what the administrator disabled, and what others enabled since |

| Action | Code |
|---|---|
| `ListLeases`, `ReadUsage`, `ListCredentials`, `WriteRow`, `MarkRow` | the transactions of a sync: two lists, which expire overdue leases, then for each credential the row and, when the reading says exhausted, the revocation |
| `BeginLimits`, `LimitsRead`, `LimitsFailed` | `_refresh_profile_session_limits` |
| `BeginTokens`, `TokensRefreshed`, `TokensRefused` | `_refresh_saved_auths_if_needed`, as far as the broker sees it |
| `SetFlag`, `Administer` | the two users of `set_broker_credential_assignment_disabled` |
| `CrashProc` | a process dies, between any two transactions |

Profiles without an auth or a refresh token, and credentials the keepalive does
not support, are left out. A new login is needed only while the access token is
expired, as in `_profile_reauth_requirement`.

### LeaseClient

It extends `LeaseBroker` with the cycle of `auth_manager_cycler.py`: each request
is a step in which the manager's transaction happens together with what the
client makes of the answer.

| Variable | Code |
|---|---|
| `file[m]` | the lease id in the state file of machine m |
| `auth[m]` | the account whose auth is in the auth file |
| `work[m]` | the cycle under way: the next request, the lease it is about, whether it asks for a rotation |

| Action | Code |
|---|---|
| `Start`, `Check`, `Acquire`, `LookUp`, `ReconcileAuth`, `Decide`, `RotateLease`, `Renewed`, `Delivered`, `ReportTelemetry`, `Finish` | `sync_lease_runtime`, in its order |
| `RenewalDenied`, `DeliveryDenied`, `Fail` | the exceptions, which still write the state file |
| `RequestFails` | the manager is out of reach, or acts and its answer is lost |
| `Kill`, `UserLogin`, `ForceRelease` | the watcher is stopped, the user logs in or out, the administrator releases a lease |

Which of two auths of an account is newer is left open. A machine runs one cycle
at a time: the watcher and a manual command share the state file without a lock,
and updates they lose to each other are not modelled. With the defaults,
`lease_renewal_min_remaining_seconds` and `RENEW_LEEWAY_SECONDS` are both 300, a
rotation is recommended in every state in which a renewal is due, and the renewal
practically never runs; the run uses values that let it. A cycle that
renews postpones the delivery of an auth to the next one.

### SavedProfiles and TokenRefresh

A profile is a row [account, generation, reauth]. A *generation* is one grant of
the provider: a refresh token can be spent once, and spending it grants the next
generation. Account keys, e-mail addresses and token contents go together, so an
identity is one value. `SavedProfiles` holds what the code computes over the
table: which profile stands for an account (`_dedupe_profiles`), where an auth
is saved, what is a duplicate.

| Variable | Code |
|---|---|
| `profiles`, `active`, `activeLabel` | `saved_profiles`; `active_auth_json` and `active_profile_label` in `app_meta` |
| `minted`, `aged`, `live` | the provider: generations granted, generations about to expire, generations it accepts |
| `api[w]` | the handler an API worker runs, one transaction per step |
| `ref[r]` | the pass of a refresh worker: profiles as it listed them, what it sent, what it was granted |
| `lost`, `stale`, `seats` | histories: tokens whose answer was lost, tokens written back after they were spent, labels a generation was filed under |

| Action | Code |
|---|---|
| `Login`, `ImportCurrent`, `Choose` ... `DropDuplicate` | import, relay and save of an auth: `_persist_current_auth_to_profile`, then the label, then the duplicates one by one |
| `Reconcile`, `Track` | `api_lease_reconcile_auth` with a newer auth of a client |
| `Switch`, `Limits`, `CopyRead`, `Copy` | `auth_switch`, `auth_rate_limits` and `_persist_active_auth_db_copy`, which goes by label alone |
| `Delete`, `Unset`, `Rename`, `Move`, `Relabel` | `auth_delete`, `auth_rename` |
| `BeginPass`, `NextProfile`, `Attempt`, `RecoverRead`, `Recover` | `_refresh_saved_auths_if_needed` up to the request, under `saved_profile_refresh_lock` |
| `ExchangeGranted`, `ExchangeRefused`, `AnswerLost`, `Unreachable` | the token endpoint |
| `DecideTracking`, `StoreRefreshed`, `ClearReauth`, `HandleFailure`, `FlagReauth` | what the worker does with the answer |
| `CrashApi`, `CrashRefresher` | a process dies, with the lock it holds |

### UsageWindows

Usage is in abstract units; a day and a month are `Day` and `Month` ticks. A save
of a reading is two transactions, the percentages and then the counters, and the
reading was fetched before both.

| Variable | Code |
|---|---|
| `accounts`, `rollovers` | tables `accounts` and `usage_rollovers`, by account key |
| `prov` | the provider's window: its usage, its end, all that was ever spent |
| `reader[r]` | a task that fetches and saves readings |
| `newest`, `disturbed` | histories: the latest reading saved, and the accounts that a reading disturbed which came after a newer one or after its own window, or that were merged into |

| Action | Code |
|---|---|
| `Touch` | the requests that end in `refresh_account_window_if_needed` |
| `ReconcileDue` | `reconcile_due_accounts`, the usage worker's loop |
| `Fetch`, `SyncPercentages`, `SyncUsage`, `Abandon` | `_refresh_profile_session_limits`, `sync_account_rate_limit_percentages`, `sync_account_usage_snapshot` |
| `Delete`, `Merge` | `delete_account_data`, `merge_account_data` |
| `Use`, `Tick` | usage and time |

The model is the Postgres schema, without foreign keys. Left out: the weekly
limit's branch, the snapshots, `limit` and `wasted`.

### LoginRelay

The login sessions are one JSON value, read, changed and written back by every
operation, with the latest session in a second value.

| Variable | Code |
|---|---|
| `stored`, `latest` | `login_sessions_json` and `login_latest_session_id` in `app_meta` |
| `code`, `active`, `saved` | the provider's authorization code of a login, the active auth, what relays have saved |
| `handler[h]` | a request: the worker that serves it, its copy of the sessions, its next step |
| `accepted`, `canceled`, `clobbered`, `crossed` | histories: callbacks taken, sessions canceled, sessions whose record a write of another's older copy changed, relays whose auth another worker replaced |

| Action | Code |
|---|---|
| `StartLogin`, `RelayCallback`, `CancelLogin`, `LoginStatus` | the handlers of `app/main.py` begin |
| `LoadSessions`, `LoadLatest` | `_load_sessions_locked` and the cleanup |
| `Create`, `Inspect`, `Mark`, `Cancel`, `Status` | the operations of `login_sessions.py` on the copy |
| `WriteSessions`, `WriteLatest` | `_persist_sessions_locked`, two writes |
| `ExchangeGranted`, `ExchangeFails`, `Publish`, `ReadActive`, `Persist` | the exchange of the code, the active auth, what is saved |
| `Expire`, `Crash` | time to live; a worker dies with all its requests |

`Free` says which requests a worker may run: the event loop and `_LOCK` keep
those of one worker apart except while they wait for the token endpoint; nothing
keeps two workers apart. `docker-compose.yml` and the Dockerfile start two. How an auth gets its label and
profile is `TokenRefresh`'s subject and abstracted to `saved`.
`relay_callback_to_login`, the fallback without a verifier, is left out.

## 3. The runs

Percentages are scaled: 0 low, 1 reaches the rotation threshold, 2 the
assignment threshold, 3 is exhausted. These are all the levels the code tells
apart. `MaxTime` bounds the clock, `ReadingLag` how old a reading may be when
it arrives, `ClockAhead` how far a client's clock may be ahead of the manager's,
`LeaseIds` how many leases are ever issued; `MaxFaults`, `MaxCrash`,
`MaxServed`, `MaxRequests`, `MaxReads`, `MaxRefresh`, `MaxGen` and `MaxUse`
bound what their names say.

| Run | Question | Bounds, and why they are enough |
|---|---|---|
| `broker_contention` | Do the two tables agree, who is granted what, and do leases keep their life cycle? | two machines, one credential, two leases: the second lease meets everything that the first left over; two instants, so that a lease is made and then overdue, with readings one instant late and one weekly reset in between; all combinations of the flags |
| `broker_rotation` | Does a chain of rotations keep its owner, and does the broker implement `LeasePool`? | two credentials, three leases: rotation there and back; two agents, one of them without a fallback; the clock stands still, expiry being the subject of `broker_contention` |
| `broker_liveness` | Does an abandoned lease come back? | one credential, two leases; deadline 3, silence limit 2 and a grace of 1, so that the two causes of expiry differ |
| `tx_sqlite` | Is "one step per transaction" right on SQLite, and does the exclusion survive the calls that run in autocommit? | two clients, two machines, two credentials, two leases, an expiry, a sync that finds a credential exhausted, crashes; every operation but the delivery, which is split as a renewal is |
| `tx_postgres` | Can an ended lease come back on Postgres, where updates by id follow stale reads, and does every operation end? | one credential, one machine, two clients, two leases, an expiry |
| `tx_overlap` | Does the exclusion hold on Postgres? | two clients, one credential; it does not, see section 5 |
| `credential_sync` | Does the administrator's flag survive the syncs, and is an exhausted credential revoked even if a process dies half-way? | two processes, one credential and one lease, one refresh, one crash; the clock stands still, so all syncs agree on the time |
| `lease_client` | Is the auth file that of the lease, and does a plugin without a lease get to know one, whatever fails? | one machine, two credentials, two leases, one fault at any place, deadline 2, so that a lease can expire between two requests; the lease is renewed in its last instant |
| `lease_client_stuck` | Does a plugin whose lease ended get another? | the same, without faults; it does not, see section 5 |
| `profile_refresh` | Are refresh tokens spent once, does the active auth follow, are good tokens not condemned, is no account lost? | one API worker with any one request, two refresh workers, two labels, two accounts or one account twice, four generations, one fault: two workers meet on a profile, and a request runs into them at every step |
| `usage_windows` | Is usage counted once, in windows that follow each other, and is a due window closed? | two tasks with two readings, a key and its alias, four instants with days of two and months of three: boundaries of both kinds, missed ones too |
| `login_relay` | Does a session take one callback, stay canceled, stay known, and save its own tokens? | two workers, two requests at a time, two sessions, four requests, one crash. Deadlock is not checked: when all requests are served, the model ends |

All but the two that show a divergence are meant to find nothing. The
lease ids that are left bound `LeaseTransactions`: an acquire or a rotation
begins only while one is left for it (`IdsLeft`).

Symmetry is used where the instance does not single out a member, and only in
runs without liveness: over machines, credentials and lease ids in
`broker_contention`; over lease ids in `broker_rotation`, which pins owners to a
credential; over clients, machines and lease ids in `tx_sqlite` and
`tx_overlap`; over accounts and refresh workers in `profile_refresh`; over
workers and requests in `login_relay`.

What the properties say is written above each of them. Those that need several
actors to break, by module:

* `LeaseBroker`: `NoDoubleLease` (two acquires), `HeldNotAvailable` and
  `FreeNotLost` (a late report of the previous holder rewrites the row of the
  present one, or of nobody), `Lifecycle` (telemetry of an ended lease),
  `RotationChain` (a rotation releases and reconciles the old credential in the
  transaction that also reconciled it as held), `LateLeaseStaysLate` (a deadline
  that passed and was not noticed), `ResetNeedsReading` and `OnlyFitGranted` (a
  reading taken before a boundary and synced after it).
* `LeaseTransactions`: `Serialisable` says that every commit of a transaction is a
  step of `LeaseBroker`, so that whatever holds of `LeaseBroker` holds of the
  split transactions on SQLite. The autocommit calls are *not* steps of
  `LeaseBroker`, so `NoDoubleLease` is checked again with them, while
  `HeldNotAvailable` and `Lifecycle` would fail: the reconcile task selects an
  overdue lease, its owner releases it and another machine is granted the
  credential, and the task then writes `expired` over `released` and `available`
  over `leased`. The exclusion survives because a scan asks the lease table and
  never believes the state in the row.
* `CredentialSync`: `AdminFlagKept` (a sync reads the flag of a row and writes it
  back later), `ExhaustedRevoked` (a crash between the row and the revocation).
* `LeaseClient`: `CycleDelivers` (the file, the lease and the auth change in
  different requests), `LeaseObtained` (an acquire whose answer was lost).
* `TokenRefresh`: `RefusalExplained` (two workers on one profile),
  `ActiveFollowsRefresh` (a refresh under a switch of the active profile),
  `FlagTruthful` (a verdict that comes after a new login), `AccountNotLost` (the
  removal of duplicates, deletions and renames over each other).
* `UsageWindows`: `LifetimeNotInflated`, `LifetimeInWindows`, `WindowsInOrder`,
  `WindowsKept` (saves, rollovers and merges over each other), `DueIsRolledOver`.
* `LoginRelay`: `RelayedOnce`, `CancelIsFinal`, `SessionNotLost`, `SavedAsOwn`.

Several properties of the last modules name an exception by a history variable
(`clobbered`, `crossed`, `disturbed`, `overruled`, `lost`, `stale`). These are
what the code does not protect against, and the property says that nothing else
goes wrong: section 5 describes each.

## 4. Fairness

* `LeaseBroker`, `FairSpec`: time passes (`WF_vars(Tick)`), and `ReconcileLeases`
  is not enabled forever without happening. The second is what
  `_periodic_reconcile_broker_leases` (`app/main.py:641`) provides: an endless
  loop that sleeps, reconciles, and logs an exception instead of ending. The
  lease worker (`app/worker_main.py`) runs it, and so does every API process.
  Clients and administrators owe nothing: neither liveness property relies on a
  renew, a release or a report.
* `LeaseTransactions`, `FairTxSpec`: a client that can go on does (`SF` on
  `Proceed`), and deadlocks are detected (`WF` on `DetectDeadlock`). Strong fairness
  stands for the queue in which Postgres grants a row lock. A crash is not
  assumed to happen.
* `CredentialSync`, `SyncSpec`: some process goes on with some sync
  (`WF` on `\E p : SyncStep(p)`). A machine that holds a lease reports at least
  once a minute, and each report begins with a sync.
* `LeaseClient`, `ClientSpec`: the watcher of each machine goes on with its cycles,
  as `watcher_run` does while Codex Desktop runs.
* `UsageWindows`, `Spec`: `WF` on `ReconcileDue`, the endless loop
  `_periodic_reconcile_usage_windows` (`app/main.py:629`).
* `TokenRefresh` and `LoginRelay` are checked for safety only.

## 5. What the code does differently

Two runs show that the code does not do what its documentation says:

* **Two overlapping acquires lease the same credential on Postgres**
  (`tx_overlap`). `BEGIN IMMEDIATE` becomes `BEGIN`; the second acquire looks for
  an active lease before the first commits, waits for the credential's row, and
  overwrites the state `leased` with what it made of the row it read earlier.
  README.md:444 says that a credential is assignable only when it is not
  already leased. `docker-compose.yml` runs Postgres with two API workers.
* **A plugin whose lease ended never gets another** (`lease_client_stuck`). The
  lookup of an ended lease succeeds and recommends a replacement, the rotation
  of an ended lease is denied, and the cycle fails with the same lease id in its
  state file (`auth_manager_cycler.py:807`). Every later cycle does the same.
  `codex-desktop-plugin/README.md:56` says that the watcher acquires a lease if
  Codex Desktop does not have one.

Others were met while the models were written. They are part of the models, and
no property claims the opposite:

* A second weekly reset is never confirmed by readings: `reset_confirmed_at` is
  recorded only while it is empty, and nothing empties it
  (`lease_broker_store.py:1715`, README.md:447).
* A credential marked exhausted may be leased before its boundary: low readings
  before it cancel the pending confirmation (`lease_broker_store.py:1710`,
  README.md:447).
* A report at the exhausted threshold may change nothing, because the
  credential's saved reading replaces the reported one
  (`lease_broker_store.py:746`, README.md:446).
* SQLite stores metadata as text, in which the reconciliation sees no flags: a
  disabled credential is displayed as available, but not leased
  (`lease_broker_store.py:1687`, `test_lease_broker_store.py:96`).
* Any successful refresh of a profile's limits or tokens enables its credential,
  also when the administrator disabled it (`main.py:4741`, `main.py:3912`); a sync
  that listed the row before the administrator's request writes the old flag
  back. `AdminFlagKept` sets these aside (`overruled`).
* A relayed login that is refused for its label leaves its auth active; the next
  reading of the limits copies it over the profile of the active label, which is
  another account's (`main.py:5412`).
* `saved_profile_refresh_lock` keeps refresh workers apart, not handlers: a handler
  that read tokens before they were spent writes them back afterwards (`stale`).
* With two API workers, a write of the login sessions restores what the other
  worker changed in between: a session is lost, a canceled one returns, or two
  callbacks are accepted (`clobbered`). The tokens of a relayed login pass
  through the one active auth, which another worker may replace (`crossed`).
* An expired login session is dropped when the sessions are loaded, so the answer
  410 for it practically never occurs; it is 404 instead.
* A callback whose state does not match is accepted by the handler and refused by
  the exchange, after the session was marked used. The status of a login takes
  any change of the active auth for its completion.
* Percentages saved for a window that is over and not yet closed move its start
  after its end (`account_usage_store.py:500`), and a reading saved after the
  deletion of an account makes it again. A reading that is saved after a newer
  one makes the next count usage twice. `disturbed` marks these accounts.
* `main.py` always passes no weekly reset to the usage store, so the weekly
  branch of the rollover never runs and the charts of wasted usage stay empty.
* SQLite has `PRAGMA foreign_keys=ON`, and `delete_account_data` and
  `merge_account_data` fail there on accounts with snapshots or rollovers;
  `auth_delete` then has deleted the profile and kept the usage.
* A rotation whose answer is lost leaves the plugin with the released lease, whose
  auth `api_lease_reconcile_auth` still hands out, until the next cycle.

## 6. What is proved

The theorems hold for all values of the constants that satisfy the modules'
assumptions: any number of processes, credentials, leases, accounts, sessions
and faults, any thresholds and times. Constants are only assumed to be of their
types, with `None` outside them; `DefaultTTL` is one of the TTLs a plugin may get.

| Module | Theorems |
|---|---|
| `LeaseBrokerProofs` | `TypeCorrect`, `Exclusion` (`NoDoubleLease`), `LifecycleKept`, `Refinement` (`ImplementsPool`), `HeldIsNotAvailable`, `ChainKept` (`RotationChain`), `LateLeasesStay` |
| `LeasePolicyProofs` | `ResetConfirmedByReading` (`ResetNeedsReading`), `FreeIsNotLost`, `DisabledIsNotOffered`, `GrantsAreFit` |
| `LeaseTransactionsProofs` | `TxTyped`, `EndedForGood` (`EndedStaysEnded`), `Serialised` (`Serialisable`), `ExclusionKept` (`NoDoubleLease`), `CommitsImplementPool` (`ImplementsPool`) |
| `CredentialSyncProofs` | `SyncTyped`, `SyncKeepsExclusion`, `AdminKept` |
| `LeaseClientProofs` | `ClientTyped`, `Delivers` |
| `TokenRefreshProofs` | `RefreshTyped`, `RefusalsExplained`, `ActiveFollows`, `AccountsKept`, `FlagsTruthful` |
| `UsageWindowsProofs` | `UsageTyped`, `NotInflated`, `UsageInOneWindow` (`LifetimeInWindows`), `WindowsFollow`, `NoWindowLost` |
| `LoginRelayProofs` | `SessionsTyped`, `OneCallback`, `CanceledForGood`, `SessionsFound`, `OwnTokensSaved` |

With these, every invariant and every action property of the passing runs is
proved. `DisabledIsNotOffered` and `GrantsAreFit` assume `JsonColumns`, a database
that decodes the metadata (Postgres). `Serialised`, `ExclusionKept` and
`CommitsImplementPool` assume `WriteLock`: without it, on Postgres, `tx_overlap`
shows that they are false. `TxTyped` and `EndedForGood` hold on either database.

**The broker.** `HeldNotAssignable` is the heart: a row reconciled as held is
never `Assignable`, in spite of the preferred override, because the override
accepts only the state `unavailable_for_assignment`, and a held row is in that
state only when its readings block it. `StepShape` sums up every action: it
ends some leases for good, and issues at most one, under a fresh id, on a
credential that was reconciled as free. `Exclusion`, `LifecycleKept` and
`Refinement` need no more. `HeldNotAvailable` is not inductive by itself: an
expiry reconciles the credential of the lease it ends as free, which is right
only if no other lease holds it, so its proof uses `NoDoubleLease`. For
`RotationChain`, a step keeps every link or is a rotation, which makes one under
an unused id (`LinkShape`). The policy theorems follow a row through the two
reconciliations a transaction may apply: each keeps an awaited reset or confirms
it by a reading (`AwaitedOutcome`), and a grant is of a row whose readings are
those of the step's beginning (`GrantOrigin`, `Stands`).

**The transactions.** `TxInv` holds on either database: the tables and the rows
that a client has read or written are well formed, a lease row that is written
and not committed is that of an ended lease, and at each point of an operation
the client knows what its next statement needs (`PointOK`). `EndedForGood` follows
from what one statement may write. Under the write lock `LockInv` is added: at
most one transaction is open (`OneOpen`), what an autocommit call writes is
committed at once (`CommittedAtOnce`), no credential is leased twice, and
`SerialOK`, the heart: what the open transaction sees is what a step of
`LeaseBroker` has computed up to this point from the committed tables, which
nobody has changed since. So its commit is that step, and before the commit
nothing of it is visible. `Serial` says this for each point of each operation
(the overdue leases expired so far, the credentials scanned so far, what was
released), and there is one lemma per statement that takes it from one point to
the next. The autocommit calls write only while no transaction is open, and all
they do to leases is end them or note that they were seen (`Fades`); that is an
`End` of the pool, and with `Serialised` and `PoolStep` it gives
`CommitsImplementPool`, the whole way from the statements to the abstract pool.
`Lifecycle` and `HeldNotAvailable` are not claimed of the statements: section 3
says how the reconcile task breaks them.

**The sync.** Every step of `CredentialSync` is a step of the broker
(`ListedStep`, `FlagStep`) or rewrites one row and reconciles it with the leases
read again (`WriteStep`). The invariant is `AdminFlagKept` with the broker's
`NoDoubleLease` and `HeldNotAvailable`, and that a process has read what its step
needs (`StepsOK`): a sync decides on rows and readings it listed earlier, so what
it writes must be right for the leases it finds when it writes.

**The plugin.** Every step is a step of the broker or stutters on it. The
invariant holds `RotationChain`, from which it follows that the replacement of a
lease that a rotation just ended is the machine's own new lease, and, from
`Decide` on, that the auth file is absent or of the lease's account.

**Profile refresh.** The invariant speaks of the set K of all auths granted so
far, in which a generation determines its account. Every spent generation that
is still in a row is explained: by a worker that has spent it, is bound to store
its successor and holds the lock of that label, or by the histories. Two workers
never hold one lock (`Alone`), and the one that asks has read the row under it, so
a spent token is sent only if the histories tell. `Verdict` says what a worker
knows when it marks a profile. The proof has one lemma for what a step does to the
tables (`Filed`), one for what it does to a refresh worker (`Goes`), and `Moved`,
which gets the invariant from the two.

**Usage.** An account's lifetime usage was spent before the provider's present
window began, or the account counts that window and knows no more of it than any
reading that may still be saved in order (`CountOK`). Recorded windows are over,
and end at the latest where the open one starts (`WindowsOK`). For
`LifetimeInWindows` the invariant is stronger (`BalanceOK`): the set of windows is
finite, and lifetime usage is *exactly* the open window's usage plus the sum over
that set (`Balanced`). A count adds the same to both sides, a rollover moves the
open window's usage into one new window (its end is a new one, by `WindowsOK`), and
a merge disturbs the account it adds to. The sum is the community modules' fold over
a set, whose recursive function cannot be unfolded by induction (the library's
induction theorem takes an operator). Instead the proof takes the set of sizes
for which a fact about all sets of that size holds, and shows by the least
element outside it that it is all of Nat (`NaturalsOf`); so the function exists
(`SumTableExists`), and adding a window adds its usage whatever the order
(`SumOfWindow`).

**Login relay.** The invariant compares the copy a request is about to write
with the sessions as it read them (`CopyOK`): it differs in the request's own
session only, in the way its operation changes it, or by sessions that expired.
A session that took a callback is not fresh any more (`Once`), and one that was
started is in the database from its first write on (`Found`). No mutual
exclusion is needed: a write whose request read something older than what it
overwrites is in `clobbered`.

Only model-checked: the liveness properties (`ExpiredLeaseReclaimed`,
`SilentLeaseReclaimed`, `OperationsEnd`, `DueIsRolledOver`, `ExhaustedRevoked`,
`LeaseObtained`), which are beyond the prover, and the two counterexamples.

## 7. What is not modelled, and what is left

* The frontend, the desktop shells and the deployment scripts keep no state that
  the broker depends on.
* The lease clients in TypeScript (`packages/lease-runtime`, `headless-client`,
  `openclaw-plugin`) make the requests of the desktop plugin, and `LeaseBroker`
  allows them in any order; their own loops are not modelled.
* The Codex worker and `codex_cli.py`: the child processes and the parsing of
  their output are I/O; the exchange of a login's code is in `LoginRelay`.
* Account keys as strings: identities are values, so how partial identities are
  resolved to a key is not modelled, only what follows from it.
* The ranking of candidates is left open: the theorems hold for any ranking.
* `revoked_at`, `cooldown_until` (never written), `exhausted_at` (never read),
  settings, policies, dashboards, the keepalive of sessions, banked resets, the
  start and stop of the watcher process.
* In `LeaseTransactions`, telemetry and `set_broker_credential_assignment_disabled`
  are not split, and the clock stands still while an operation is open.

Next would be: those two operations and a clock that each operation reads for
itself; two API workers in `profile_refresh`, with liveness of the refresh loop; the
watcher and a manual command of one machine side by side; the weekly limit's
branch of `UsageWindows` if the code comes to use it.
