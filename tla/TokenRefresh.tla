---------------------------- MODULE TokenRefresh ----------------------------
(* Saved profiles, the active auth and the refresh workers that renew their   *)
(* tokens.  An API handler and a refresh worker are sequences of database     *)
(* transactions; a worker also waits for the token endpoint, which spends the *)
(* refresh token it is given.  Processes may die between any two steps.       *)
EXTENDS SavedProfiles

CONSTANTS
    ApiWorkers,   \* processes that serve the API
    Refreshers,   \* processes that run the refresh loop
    Requests,     \* the API requests that are made
    MaxFaults,    \* bound: crashes and network failures
    MaxRequests,  \* bound: API requests served
    Before        \* logins saved before the first step

ASSUME RefreshAssumption ==
    /\ ApiWorkers \cap Refreshers = {}
    /\ MaxFaults \in Nat /\ MaxRequests \in Nat /\ Before \in 0..MaxGen /\ 1..Before \subseteq Labels

VARIABLES
    profiles,     \* saved_profiles
    active,       \* app_meta active_auth_json
    activeLabel,  \* app_meta active_profile_label
    minted,       \* last generation granted by the provider
    aged,         \* access tokens up to this generation expire soon
    live,         \* generations whose refresh token the provider accepts
    api,          \* the handler an API worker runs
    ref,          \* the refresh loop of a refresh worker
    served,       \* requests begun
    faults,       \* crashes and network failures so far
    lost,         \* history: tokens spent by an exchange whose answer was lost
    stale,        \* history: tokens written over newer ones once they were spent
    seats         \* history: the labels each generation was ever filed under

db == <<profiles, active, activeLabel>>
provider == <<minted, aged, live>>
history == <<lost, stale, seats>>
vars == <<profiles, active, activeLabel, minted, aged, live, api, ref, served,
          faults, lost, stale, seats>>

NoAuth == [acct |-> None, gen |-> 0]
IdleApi == [op |-> None, pc |-> "idle", label |-> None, auth |-> NoAuth, got |-> NoAuth]
IdleRef == [pc |-> "idle", queue |-> {}, label |-> None, seen |-> 0, sent |-> NoAuth,
            auth |-> NoAuth]

ApiSteps == {"idle", "publish", "choose", "write_active", "read_active", "save", "track",
             "set_label", "dedupe", "copy_read", "copy", "unset", "move", "relabel"}
RefSteps == {"idle", "next", "copy_read", "copy", "lock", "await", "granted", "failed",
             "refused", "store", "store_both", "clear", "flag"}

TypeOK ==
    /\ profiles \in Table
    /\ active \in Auth \cup {None} /\ activeLabel \in Labels \cup {None}
    /\ minted \in 0..MaxGen /\ aged \in 0..MaxGen /\ live \subseteq Gens
    /\ \A w \in ApiWorkers :
        api[w].pc \in ApiSteps /\ api[w].label \in Labels \cup {None}
    /\ \A r \in Refreshers :
        ref[r].pc \in RefSteps /\ ref[r].label \in Labels \cup {None}
    /\ served \in 0..MaxRequests /\ faults \in 0..MaxFaults
    /\ lost \subseteq Gens /\ stale \subseteq Gens /\ seats \in [Gens -> SUBSET Labels]

\* After Before logins, each saved under a fresh label; the last one is active.
Init ==
    /\ \E who \in [1..Before -> Accounts] :
        /\ profiles = [l \in Labels |->
              IF l \in 1..Before THEN [acct |-> who[l], gen |-> l, reauth |-> FALSE] ELSE None]
        /\ active = IF Before = 0 THEN None ELSE AuthOf(profiles[Before])
    /\ activeLabel = IF Before = 0 THEN None ELSE Before
    /\ minted = Before /\ aged = 0 /\ live = 1..Before
    /\ api = [w \in ApiWorkers |-> IdleApi]
    /\ ref = [r \in Refreshers |-> IdleRef]
    /\ served = 0 /\ faults = 0 /\ lost = {} /\ stale = {}
    /\ seats = [g \in Gens |-> {g} \cap (1..Before)]

At(w, step) == api[w].pc = step
RefAt(r, step) == ref[r].pc = step

Goto(w, step) == api' = [api EXCEPT ![w].pc = step]
Finish(w) == api' = [api EXCEPT ![w] = IdleApi]
RefGoto(r, step) ==
    ref' = [ref EXCEPT ![r] = IF step = "next" THEN [IdleRef EXCEPT !.pc = step, !.queue = ref[r].queue]
                              ELSE [@ EXCEPT !.pc = step]]

\* The rows and the active auth after a step; the history of where tokens were
\* filed, and of spent tokens that were written back.
File(table, newActive) ==
    LET fresh(l) == profiles[l] = None \/ profiles[l].gen # table[l].gen
        written == {table[l].gen : l \in {m \in Used(table) : fresh(m)}}
                   \cup (IF newActive \in {None, active} THEN {} ELSE {newActive.gen})
    IN  /\ profiles' = table /\ active' = newActive
        /\ seats' = [g \in Gens |-> seats[g] \cup {l \in Used(table) : table[l].gen = g}]
        /\ stale' = stale \cup (written \ live)

-----------------------------------------------------------------------------
(* API handlers                                                              *)

Serve(w, op, step, l, auth) ==
    /\ api[w].pc = "idle" /\ served < MaxRequests
    /\ served' = served + 1
    /\ api' = [api EXCEPT ![w] = [IdleApi EXCEPT !.op = op, !.pc = step, !.label = l,
                                               !.auth = auth]]
    /\ UNCHANGED <<ref, faults, lost>>

\* A login grants tokens of a family of their own.
Granted(a) == [acct |-> a, gen |-> minted + 1]

Grant ==
    /\ minted < MaxGen
    /\ minted' = minted + 1 /\ live' = live \cup {minted + 1} /\ UNCHANGED aged

\* A request with the tokens of a login: imported, relayed (the exchange makes
\* them the active auth first) or saved without a look at the label.
Login(w) ==
    /\ Grant
    /\ \E a \in Accounts, l \in Labels \cup {None} :
        \/ "import" \in Requests /\ Serve(w, "import", "choose", l, Granted(a))
        \/ "relay" \in Requests /\ Serve(w, "relay", "publish", l, Granted(a))
        \/ "save" \in Requests /\ l # None /\ Serve(w, "save", "write_active", l, Granted(a))
    /\ UNCHANGED <<db, stale, seats>>

\* A lease client reports newer tokens for its credential: they go to the
\* profile listed for it, and to the active auth when that profile is active.
Reconcile(w) ==
    /\ "reconcile" \in Requests /\ Grant
    /\ \E a \in Accounts :
        /\ Saved(profiles, a)
        /\ LET l == Listed(profiles, activeLabel, a)
           IN  Serve(w, "reconcile", IF activeLabel = l THEN "track" ELSE "choose", l, Granted(a))
    /\ UNCHANGED <<db, stale, seats>>

ImportCurrent(w) ==
    /\ "import" \in Requests /\ active # None
    /\ \E l \in Labels \cup {None} : Serve(w, "import", "choose", l, active)
    /\ UNCHANGED <<db, provider, stale, seats>>

Switch(w) ==
    /\ "switch" \in Requests
    /\ \E l \in Used(profiles) : Serve(w, "switch", "write_active", l, AuthOf(profiles[l]))
    /\ UNCHANGED <<db, provider, stale, seats>>

\* Reading the limits of the active auth copies it into the current profile:
\* the active label, else the first profile of the account.
Limits(w) ==
    /\ "limits" \in Requests /\ active # None
    /\ LET l == IF activeLabel # None THEN activeLabel
                ELSE IF Saved(profiles, active.acct) THEN First(Holding(profiles, active.acct))
                ELSE None
       IN  l \in Used(profiles) /\ Serve(w, "limits", "copy_read", l, NoAuth)
    /\ UNCHANGED <<db, provider, stale, seats>>

Delete(w) ==
    /\ "delete" \in Requests
    /\ \E l \in Used(profiles) :
        /\ Serve(w, "delete", "unset", l, NoAuth)
        /\ File([profiles EXCEPT ![l] = None], active)
    /\ UNCHANGED <<activeLabel, provider>>

\* A label in use is given up only for a profile of the same account.
Rename(w) ==
    /\ "rename" \in Requests
    /\ \E old \in Used(profiles), new \in Labels :
        /\ old # new
        /\ profiles[new] # None => profiles[new].acct = profiles[old].acct
        /\ Serve(w, "rename", "move", old, [acct |-> None, gen |-> new])
        /\ File([profiles EXCEPT ![new] = None], active)
    /\ UNCHANGED <<activeLabel, provider>>

Publish(w) ==
    /\ At(w, "publish")
    /\ File(profiles, api[w].auth)
    /\ Goto(w, "choose")
    /\ UNCHANGED <<activeLabel, provider, ref, served, faults, lost>>

\* _persist_current_auth_to_profile up to its first write.  (A handler that
\* finds no fresh label within the bound gives up.)
Choose(w) ==
    /\ At(w, "choose")
    /\ LET auth == IF api[w].op = "relay" THEN active ELSE api[w].auth
           targets == TargetLabels(profiles, activeLabel, auth, api[w].label)
       IN  \/ targets = {} /\ Finish(w) /\ File(profiles, active)
           \/ \E l \in targets :
            \/ Refused(profiles, activeLabel, auth, l) /\ Finish(w) /\ File(profiles, active)
            \/ /\ UpToDate(profiles, activeLabel, auth, l)
               /\ Finish(w)
               /\ File(IF auth.gen > aged THEN SetReauth(profiles, l, FALSE) ELSE profiles, active)
            \/ /\ ~Refused(profiles, activeLabel, auth, l)
               /\ ~UpToDate(profiles, activeLabel, auth, l)
               /\ api' = [api EXCEPT ![w].pc = "write_active", ![w].label = l, ![w].auth = auth]
               /\ File(profiles, active)
    /\ UNCHANGED <<activeLabel, provider, ref, served, faults, lost>>

WriteActive(w) ==
    /\ At(w, "write_active")
    /\ File(profiles, api[w].auth)
    /\ Goto(w, IF api[w].op = "switch" THEN "set_label" ELSE "read_active")
    /\ UNCHANGED <<activeLabel, provider, ref, served, faults, lost>>

\* What is saved under the label is read back from the active auth.
ReadActive(w) ==
    /\ At(w, "read_active")
    /\ api' = [api EXCEPT ![w].pc = "save", ![w].got = active]
    /\ UNCHANGED <<db, provider, ref, served, faults, history>>

SaveUnderLabel(w) ==
    /\ At(w, "save")
    /\ File(Upsert(profiles, api[w].label, api[w].got, FALSE), active)
    /\ Goto(w, "set_label")
    /\ UNCHANGED <<activeLabel, provider, ref, served, faults, lost>>

\* Mutant of SetLabel: the account is set instead of the label.
SetLabelAccount(w) ==
    /\ At(w, "set_label")
    /\ activeLabel' = api[w].auth.acct
    /\ Finish(w)
    /\ UNCHANGED <<profiles, active, provider, ref, served, faults, history>>

SetLabel(w) ==
    /\ At(w, "set_label")
    /\ activeLabel' = api[w].label
    /\ CASE api[w].op = "switch" -> Goto(w, "copy_read")
         [] api[w].op = "save" -> Finish(w)
         [] OTHER -> Goto(w, "dedupe")
    /\ UNCHANGED <<profiles, active, provider, ref, served, faults, history>>

\* The other profiles of the account go, one delete at a time.
DropDuplicate(w) ==
    /\ At(w, "dedupe")
    /\ LET dups == DuplicatesOf(profiles, api[w].label, api[w].auth.acct)
       IN  IF dups = {} THEN Finish(w) /\ File(profiles, active)
           ELSE File([profiles EXCEPT ![First(dups)] = None], active) /\ UNCHANGED api
    /\ UNCHANGED <<activeLabel, provider, ref, served, faults, lost>>

\* Profile and active auth in one transaction.
Track(w) ==
    /\ At(w, "track")
    /\ File(Upsert(profiles, api[w].label, api[w].auth, FALSE), api[w].auth)
    /\ activeLabel' = api[w].label
    /\ Finish(w)
    /\ UNCHANGED <<provider, ref, served, faults, lost>>

\* _persist_active_auth_db_copy: nothing is compared but the payload.
CopyRead(w) ==
    /\ At(w, "copy_read")
    /\ LET row == profiles[api[w].label]
       IN  IF row = None \/ active = None \/ AuthOf(row) = active
           THEN Finish(w)
           ELSE api' = [api EXCEPT ![w].pc = "copy", ![w].got = active]
    /\ UNCHANGED <<db, provider, ref, served, faults, history>>

Copy(w) ==
    /\ At(w, "copy")
    /\ File(Upsert(profiles, api[w].label, api[w].got, FALSE), active)
    /\ Finish(w)
    /\ UNCHANGED <<activeLabel, provider, ref, served, faults, lost>>

Unset(w) ==
    /\ At(w, "unset")
    /\ activeLabel' = IF activeLabel = api[w].label THEN None ELSE activeLabel
    /\ Finish(w)
    /\ UNCHANGED <<profiles, active, provider, ref, served, faults, history>>

Move(w) ==
    /\ At(w, "move")
    /\ LET old == api[w].label
           new == api[w].auth.gen
       IN  IF profiles[old] = None \/ profiles[new] # None
           THEN Finish(w) /\ File(profiles, active)
           ELSE /\ File([profiles EXCEPT ![new] = profiles[old], ![old] = None], active)
                /\ Goto(w, "relabel")
    /\ UNCHANGED <<activeLabel, provider, ref, served, faults, lost>>

Relabel(w) ==
    /\ At(w, "relabel")
    /\ activeLabel' = IF activeLabel = api[w].label THEN api[w].auth.gen ELSE activeLabel
    /\ Finish(w)
    /\ UNCHANGED <<profiles, active, provider, ref, served, faults, history>>

-----------------------------------------------------------------------------
(* The refresh loop                                                          *)

\* One pass over the profiles listed now; each is taken as it was read here.
BeginPass(r) ==
    /\ RefAt(r, "idle")
    /\ ref' = [ref EXCEPT ![r] =
            [IdleRef EXCEPT !.pc = "next",
                !.queue = {[label |-> l, row |-> profiles[l]] : l \in Deduped(profiles, activeLabel)}]]
    /\ UNCHANGED <<db, provider, api, served, faults, history>>

\* One refresher at a time holds the lock of a label: it goes with its session.
Holds(r, l) ==
    ref[r].label = l /\ ref[r].pc \in {"await", "granted", "store", "store_both"}

\* Mutant of Attempt: no lock around the exchange.
AttemptUnlocked(r, t) ==
    LET row == profiles[t.label]
    IN  IF row # None /\ row.gen <= aged
        THEN [t EXCEPT !.pc = "await", !.sent = AuthOf(row)]
        ELSE [IdleRef EXCEPT !.pc = "next", !.queue = t.queue]

\* _refresh_saved_auth_via_refresh_token: under the lock the profile is read
\* again, and the request is sent if its token still expires soon.
Attempt(r, t) ==
    LET row == profiles[t.label]
    IN  IF /\ \A q \in Refreshers \ {r} : ~Holds(q, t.label)
           /\ row # None
           /\ row.gen <= aged
        THEN [t EXCEPT !.pc = "await", !.sent = AuthOf(row)]
        ELSE [IdleRef EXCEPT !.pc = "next", !.queue = t.queue]

NextProfile(r) ==
    /\ RefAt(r, "next")
    /\ LET item == CHOOSE i \in ref[r].queue : \A j \in ref[r].queue : i.label <= j.label
           t == [IdleRef EXCEPT !.pc = "next", !.queue = ref[r].queue \ {item},
                                !.label = item.label, !.seen = item.row.gen]
           recover == active # None /\ active.acct = item.row.acct
       IN  ref' = [ref EXCEPT ![r] =
                IF ref[r].queue = {} THEN IdleRef
                ELSE IF item.row.reauth
                THEN IF recover THEN [t EXCEPT !.pc = "copy_read"]
                     ELSE [IdleRef EXCEPT !.pc = "next", !.queue = t.queue]
                ELSE IF item.row.gen <= aged THEN Attempt(r, t)
                ELSE [IdleRef EXCEPT !.pc = "next", !.queue = t.queue]]
    /\ UNCHANGED <<db, provider, api, served, faults, history>>

\* A flagged profile takes over the active auth of its account, if that differs.
RecoverRead(r) ==
    /\ RefAt(r, "copy_read")
    /\ LET row == profiles[ref[r].label]
       IN  IF row = None \/ active = None \/ AuthOf(row) = active THEN RefGoto(r, "next")
           ELSE ref' = [ref EXCEPT ![r].pc = "copy", ![r].auth = active]
    /\ UNCHANGED <<db, provider, api, served, faults, history>>

Recover(r) ==
    /\ RefAt(r, "copy")
    /\ File(Upsert(profiles, ref[r].label, ref[r].auth, FALSE), active)
    /\ RefGoto(r, "clear")
    /\ UNCHANGED <<activeLabel, provider, api, served, faults, lost>>

\* A recovered profile is refreshed like any other.
TryRefresh(r) ==
    /\ RefAt(r, "lock")
    /\ ref' = [ref EXCEPT ![r] = Attempt(r, ref[r])]
    /\ UNCHANGED <<db, provider, api, served, faults, history>>

\* The token endpoint spends a refresh token and grants the next generation.
Spend(r) ==
    /\ ref[r].pc = "await" /\ ref[r].sent.gen \in live /\ minted < MaxGen
    /\ minted' = minted + 1
    /\ live' = (live \ {ref[r].sent.gen}) \cup {minted + 1}

ExchangeGranted(r) ==
    /\ Spend(r)
    /\ ref' = [ref EXCEPT ![r].pc = "granted", ![r].auth = Granted(ref[r].sent.acct)]
    /\ UNCHANGED <<db, aged, api, served, faults, history>>

\* The answer is lost on its way back: the token is spent all the same.
AnswerLost(r) ==
    /\ Spend(r) /\ faults < MaxFaults
    /\ faults' = faults + 1 /\ lost' = lost \cup {ref[r].sent.gen}
    /\ RefGoto(r, "failed")
    /\ UNCHANGED <<db, aged, api, served, stale, seats>>

\* The endpoint is not reached (past the bound on generations, never again).
Unreachable(r) ==
    /\ ref[r].pc = "await"
    /\ \/ faults < MaxFaults /\ faults' = faults + 1
       \/ minted = MaxGen /\ ref[r].sent.gen \in live /\ UNCHANGED faults
    /\ RefGoto(r, "failed")
    /\ UNCHANGED <<db, provider, api, served, history>>

ExchangeRefused(r) ==
    /\ ref[r].pc = "await" /\ ref[r].sent.gen \notin live
    /\ RefGoto(r, "refused")
    /\ UNCHANGED <<db, provider, api, served, faults, history>>

\* Mutant of Tracks: the label alone decides.
TracksByLabel(r) == activeLabel = ref[r].label

\* Does the active auth follow the refresh of this label?
Tracks(r) ==
    \/ activeLabel = ref[r].label
    \/ active # None /\ active.acct = ref[r].sent.acct

DecideTracking(r) ==
    /\ RefAt(r, "granted")
    /\ RefGoto(r, IF Tracks(r) THEN "store_both" ELSE "store")
    /\ UNCHANGED <<db, provider, api, served, faults, history>>

\* Written by label: whatever was saved there while it waited is replaced.
StoreRefreshed(r) ==
    /\ RefAt(r, "store") \/ RefAt(r, "store_both")
    /\ LET both == ref[r].pc = "store_both"
       IN  /\ File(Upsert(profiles, ref[r].label, ref[r].auth, FALSE),
                   IF both THEN ref[r].auth ELSE active)
           /\ activeLabel' = IF both THEN ref[r].label ELSE activeLabel
    /\ RefGoto(r, "clear")
    /\ UNCHANGED <<provider, api, served, faults, lost>>

ClearReauth(r) ==
    /\ RefAt(r, "clear")
    /\ File(SetReauth(profiles, ref[r].label, FALSE), active)
    /\ RefGoto(r, IF ref[r].sent = NoAuth /\ ref[r].seen <= aged THEN "lock" ELSE "next")
    /\ UNCHANGED <<activeLabel, provider, api, served, faults, lost>>

\* Mutant of HandleFailure: every failure asks for a new login.
HandleAnyFailure(r) ==
    /\ RefAt(r, "failed") \/ RefAt(r, "refused")
    /\ LET row == profiles[ref[r].label]
       IN  IF row # None /\ row.gen > ref[r].seen THEN RefGoto(r, "clear")
           ELSE ref' = [ref EXCEPT ![r].pc = "flag",
                            ![r].auth = IF row = None THEN NoAuth ELSE AuthOf(row)]
    /\ UNCHANGED <<db, provider, api, served, faults, history>>

\* After a failure: a newer generation was saved meanwhile, or the token is
\* refused for good, or the next pass tries again.
HandleFailure(r) ==
    /\ RefAt(r, "failed") \/ RefAt(r, "refused")
    /\ LET row == profiles[ref[r].label]
       IN  IF row # None /\ row.gen > ref[r].seen THEN RefGoto(r, "clear")
           ELSE IF ref[r].pc = "failed" THEN RefGoto(r, "next")
           ELSE ref' = [ref EXCEPT ![r].pc = "flag",
                            ![r].auth = IF row = None THEN NoAuth ELSE AuthOf(row)]
    /\ UNCHANGED <<db, provider, api, served, faults, history>>

FlagReauth(r) ==
    /\ RefAt(r, "flag")
    /\ File(SetReauth(profiles, ref[r].label, TRUE), active)
    /\ RefGoto(r, "next")
    /\ UNCHANGED <<activeLabel, provider, api, served, faults, lost>>

-----------------------------------------------------------------------------
(* Time, crashes and the specification                                       *)

Age ==
    /\ aged < minted
    /\ aged' = aged + 1
    /\ UNCHANGED <<db, minted, live, api, ref, served, faults, history>>

CrashApi(w) ==
    /\ api[w].pc # "idle" /\ faults < MaxFaults
    /\ faults' = faults + 1
    /\ Finish(w)
    /\ UNCHANGED <<db, provider, ref, served, history>>

\* A worker that dies with granted tokens in hand takes them with it.
CrashRefresher(r) ==
    /\ ref[r].pc # "idle" /\ faults < MaxFaults
    /\ faults' = faults + 1
    /\ lost' = IF ref[r].pc \in {"granted", "store", "store_both"}
               THEN lost \cup {ref[r].sent.gen} ELSE lost
    /\ ref' = [ref EXCEPT ![r] = IdleRef]
    /\ UNCHANGED <<db, provider, api, served, stale, seats>>

ApiStep(w) ==
    \/ Login(w) \/ Reconcile(w) \/ ImportCurrent(w) \/ Switch(w) \/ Limits(w)
    \/ Delete(w) \/ Rename(w) \/ Publish(w) \/ Choose(w) \/ WriteActive(w)
    \/ ReadActive(w) \/ SaveUnderLabel(w) \/ SetLabel(w) \/ DropDuplicate(w)
    \/ Track(w) \/ CopyRead(w) \/ Copy(w) \/ Unset(w) \/ Move(w) \/ Relabel(w)

RefreshStep(r) ==
    \/ BeginPass(r) \/ NextProfile(r) \/ RecoverRead(r) \/ Recover(r) \/ TryRefresh(r)
    \/ ExchangeGranted(r) \/ AnswerLost(r) \/ Unreachable(r) \/ ExchangeRefused(r)
    \/ DecideTracking(r) \/ StoreRefreshed(r) \/ ClearReauth(r) \/ HandleFailure(r)
    \/ FlagReauth(r)

Next ==
    \/ \E w \in ApiWorkers : ApiStep(w) \/ CrashApi(w)
    \/ \E r \in Refreshers : RefreshStep(r) \/ CrashRefresher(r)
    \/ Age

Spec == Init /\ [][Next]_vars

\* A refresh worker keeps running its loop and its requests time out.
FairSpec == Spec /\ \A r \in Refreshers : WF_vars(RefreshStep(r))

-----------------------------------------------------------------------------
(* Properties                                                                *)

\* A profile is marked as in need of a new login only when the provider really
\* refuses the tokens the worker found there after the failure: neither a
\* network failure nor a verdict on tokens replaced meanwhile condemns good ones
\* (main.py 3914-3951).  Tokens saved after that look may still be marked, and
\* so may good ones when older tokens came back under the label after the
\* worker had listed the profile.
FlagTruthful ==
    [][\A l \in Labels :
        /\ profiles[l] # None /\ ~profiles[l].reauth
        /\ profiles'[l] # None /\ profiles'[l].reauth
        => \/ profiles[l].gen \notin live
           \/ \E r \in Refreshers :
                /\ ref[r].pc = "flag" /\ ref[r].label = l
                /\ \/ ref[r].auth # AuthOf(profiles[l])
                   \/ ~(ref[r].seen <= ref[r].sent.gen /\ ref[r].sent.gen <= profiles[l].gen)]_vars

\* Two refresh workers never spend one refresh token: the provider refuses one
\* only if the answer to an earlier exchange was lost, the tokens were filed
\* under a second label, or a handler wrote them back after they were spent
\* (saved_profile_refresh_lock and the read under it).
RefusalExplained ==
    \A r \in Refreshers : ref[r].pc = "refused" =>
        \/ ref[r].sent.gen \in lost \cup stale
        \/ Cardinality(seats[ref[r].sent.gen]) > 1

\* The active auth, which clients use, holds tokens the provider accepts unless
\* an exchange of them is under way, its answer was lost, or a handler made them
\* active after they were spent: a refresh never leaves the active copy of the
\* tokens it spends behind (_active_auth_should_track_profile_refresh).
ActiveFollowsRefresh ==
    active # None =>
        \/ active.gen \in live \cup lost \cup stale
        \/ \E r \in Refreshers :
            ref[r].pc \in {"granted", "store", "store_both"} /\ ref[r].sent = active

\* A removal of duplicates under way although another process has meanwhile
\* replaced the profile that was to be kept.
Torn(w) == api[w].pc = "dedupe" /\ api[w].label \notin Holding(profiles, api[w].auth.acct)

\* The last profile of an account goes only when it is deleted or another
\* account's tokens are written over it: neither the removal of duplicates, nor
\* a rename, nor a crash half-way through them loses an account.
AccountNotLost ==
    [][\A a \in Accounts : Saved(profiles, a) /\ ~Saved(profiles', a) =>
        \/ \E w \in ApiWorkers : api'[w].op = "delete" \/ Torn(w)
        \/ \E l \in Holding(profiles, a) : profiles'[l] # None]_vars
=============================================================================
