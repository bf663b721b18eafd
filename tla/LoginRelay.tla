----------------------------- MODULE LoginRelay -----------------------------
(* Login sessions and the relay of their callbacks.  The sessions are one     *)
(* JSON value in the database and the latest session another; every operation *)
(* reads both, changes its copy and writes both back.  A lock keeps the       *)
(* handlers of one API worker apart, but not those of another worker, and no  *)
(* handler is kept apart from others while it waits for the token endpoint.   *)
(* A login is identified with its session: the code and the tokens the        *)
(* provider grants for session s are those of the account that logged in.     *)
EXTENDS Naturals, FiniteSets

CONSTANTS
    Workers,    \* API worker processes
    Handlers,   \* requests served at a time
    Sessions,   \* login sessions started, 1..n
    MaxCrash,   \* bound: workers that die
    MaxServed,  \* bound: requests served
    None

VARIABLES
    stored,    \* app_meta login_sessions_json
    latest,    \* app_meta login_latest_session_id
    expired,   \* sessions past their time to live
    code,      \* the provider's authorization code of each login
    active,    \* app_meta active_auth_json: the login it is from
    older,     \* logins whose tokens were granted before a session began
    saved,     \* auths persisted by a relay, with the session they were persisted for
    handler,   \* what each request is doing
    served, crashes,
    accepted,  \* history: callbacks accepted for each session
    canceled,  \* history: sessions canceled
    clobbered, \* history: sessions whose record a write of another's copy changed
    crossed    \* history: relays whose auth another worker replaced before they read it

meta == <<stored, latest>>
history == <<accepted, canceled, clobbered, crossed>>
vars == <<stored, latest, expired, code, active, older, saved, handler, served, crashes,
          accepted, canceled, clobbered, crossed>>

Record == {"fresh", "used"}
Codes == {"issued", "spent"}
Ops == {"start", "inspect", "mark", "cancel", "status"}
Steps == {"idle", "load", "latest", "clean", "clean_latest", "apply", "write", "write_latest",
          "exchange", "publish", "read_active", "persist"}

ASSUME RelayAssumption ==
    /\ Sessions \subseteq Nat \ {0}
    /\ None \notin Sessions /\ None \notin Workers
    /\ None \notin Record /\ None \notin Codes /\ None \notin Ops
    /\ MaxCrash \in Nat /\ MaxServed \in Nat

NoSessions == [s \in Sessions |-> None]
Idle == [pc |-> "idle", op |-> None, worker |-> None, sid |-> None,
         base |-> NoSessions, view |-> NoSessions, last |-> None, got |-> 0]

Handler ==
    [ pc     : Steps,
      op     : Ops \cup {None},
      worker : Workers \cup {None},
      sid    : Sessions \cup {None},                 \* the session it is about
      base   : [Sessions -> Record \cup {None}],     \* the sessions as it read them
      view   : [Sessions -> Record \cup {None}],     \* its copy, as it changed it
      last   : Sessions \cup {None},                 \* its copy of the latest session
      got    : Sessions \cup {0} ]                   \* the active auth it read

TypeOK ==
    /\ stored \in [Sessions -> Record \cup {None}] /\ latest \in Sessions \cup {None}
    /\ expired \subseteq Sessions
    /\ code \in [Sessions -> Codes \cup {None}]
    /\ active \in Sessions \cup {0} /\ older \in [Sessions -> SUBSET Sessions]
    /\ saved \subseteq [sid : Sessions, auth : Sessions]
    /\ handler \in [Handlers -> Handler]
    /\ served \in 0..MaxServed /\ crashes \in 0..MaxCrash
    /\ accepted \in [Sessions -> Nat]
    /\ canceled \subseteq Sessions /\ clobbered \subseteq Sessions /\ crossed \subseteq Sessions

Init ==
    /\ stored = NoSessions /\ latest = None /\ expired = {}
    /\ code = [s \in Sessions |-> None]
    /\ active = 0 /\ older = [s \in Sessions |-> {}] /\ saved = {}
    /\ handler = [h \in Handlers |-> Idle]
    /\ served = 0 /\ crashes = 0
    /\ accepted = [s \in Sessions |-> 0]
    /\ canceled = {} /\ clobbered = {} /\ crossed = {}

-----------------------------------------------------------------------------
(* Requests                                                                  *)

\* Mutant of Free: a handler can also be left between two calls of the database.
FreeBetweenCalls(w) ==
    \A h \in Handlers : handler[h].worker = w =>
        handler[h].pc \in {"exchange", "publish", "read_active"}

\* A worker serves one handler at a time, except while one waits for the network.
Free(w) ==
    \A h \in Handlers : handler[h].worker = w => handler[h].pc \in {"exchange", "publish"}

At(h, step) == handler[h].pc = step
Goto(h, step) == handler' = [handler EXCEPT ![h].pc = step]
Finish(h) == handler' = [handler EXCEPT ![h] = Idle]

Serve(h, op, s) ==
    /\ At(h, "idle") /\ served < MaxServed
    /\ served' = served + 1
    /\ \E w \in Workers :
        /\ Free(w)
        /\ handler' = [handler EXCEPT ![h] =
                [Idle EXCEPT !.pc = "load", !.op = op, !.worker = w, !.sid = s]]
    /\ UNCHANGED <<meta, expired, code, active, saved, crashes, history>>

\* The sessions are started in their order.
NextLogin(s) ==
    /\ code[s] = None /\ \A t \in Sessions : t < s => code[t] # None
    /\ \A h \in Handlers : handler[h].sid = s => handler[h].op # "start"

\* POST /auth/login/start-relay: a new authorization request, then its session.
StartLogin(h) ==
    \E s \in Sessions :
        /\ NextLogin(s) /\ Serve(h, "start", s)
        /\ older' = [older EXCEPT ![s] = {t \in Sessions : code[t] = "spent"}]

\* The callback of a login, relayed by the extension or pasted into the form.
RelayCallback(h) ==
    /\ \E s \in Sessions : code[s] # None /\ Serve(h, "inspect", s)
    /\ UNCHANGED older

\* With a session, or for the latest one.
CancelLogin(h) ==
    /\ \E s \in Sessions \cup {None} : (s # None => code[s] # None) /\ Serve(h, "cancel", s)
    /\ UNCHANGED older

\* Looking up a session drops the expired ones.  What the status shows is not
\* modelled, nor that it saves a changed active auth under its own account, as
\* ImportCurrent of TokenRefresh does.
LoginStatus(h) ==
    /\ expired # {} /\ Serve(h, "status", None)
    /\ UNCHANGED older

-----------------------------------------------------------------------------
(* Operations on the sessions                                                *)

LoadSessions(h) ==
    /\ At(h, "load")
    /\ handler' = [handler EXCEPT ![h].pc = "latest",
                                          ![h].base = stored, ![h].view = stored]
    /\ UNCHANGED <<meta, expired, code, active, older, saved, served, crashes, history>>

\* Mutant of Unexpired: a session that was used is dropped as well.
UnexpiredUnused(view) ==
    [s \in Sessions |-> IF s \in expired \/ view[s] = "used" THEN None ELSE view[s]]

Unexpired(view) == [s \in Sessions |-> IF s \in expired THEN None ELSE view[s]]

\* Sessions that expired are dropped from the copy, and then from the database.
LoadLatest(h) ==
    /\ At(h, "latest")
    /\ LET view == Unexpired(handler[h].view)
       IN  handler' = [handler EXCEPT
            ![h].pc = IF view = handler[h].view THEN "apply" ELSE "clean",
            ![h].view = view,
            ![h].last = IF latest # None /\ handler[h].view[latest] # view[latest] THEN None ELSE latest]
    /\ UNCHANGED <<meta, expired, code, active, older, saved, served, crashes, history>>

\* The whole copy is written: a record that another worker changed since it was
\* read is changed back.
WriteSessions(h) ==
    /\ At(h, "clean") \/ At(h, "write")
    /\ stored' = handler[h].view
    /\ clobbered' = clobbered \cup {s \in Sessions : stored[s] # handler[h].base[s]}
    /\ LET s == handler[h].sid
           done(op) == At(h, "write") /\ handler[h].op = op
       IN  /\ accepted' = IF done("mark") THEN [accepted EXCEPT ![s] = @ + 1] ELSE accepted
           /\ canceled' = IF done("cancel") THEN canceled \cup {s} ELSE canceled
    /\ handler' = [handler EXCEPT ![h].base = handler[h].view,
                    ![h].pc = IF At(h, "clean") THEN "clean_latest" ELSE "write_latest"]
    /\ UNCHANGED <<latest, expired, code, active, older, saved, served, crashes, crossed>>

WriteLatest(h) ==
    /\ At(h, "clean_latest") \/ At(h, "write_latest")
    /\ latest' = handler[h].last
    /\ LET s == handler[h].sid
       IN  CASE At(h, "clean_latest") -> Goto(h, "apply") /\ UNCHANGED code
             [] At(h, "write_latest") /\ handler[h].op = "mark" ->
                    Goto(h, "exchange") /\ UNCHANGED code
             [] At(h, "write_latest") /\ handler[h].op = "start" ->
                    Finish(h) /\ code' = [code EXCEPT ![s] = "issued"]
             [] OTHER -> Finish(h) /\ UNCHANGED code
    /\ UNCHANGED <<stored, expired, active, older, saved, served, crashes, history>>

Change(h, s, view, last) ==
    /\ handler' = [handler EXCEPT ![h].pc = "write", ![h].sid = s, ![h].view = view, ![h].last = last]
    /\ UNCHANGED <<meta, expired, code, active, older, saved, served, crashes, history>>

\* Mutant of Create: the latest session is not the one created.
CreateUnlinked(h) ==
    /\ At(h, "apply") /\ handler[h].op = "start"
    /\ Change(h, handler[h].sid, [handler[h].view EXCEPT ![handler[h].sid] = "fresh"], 0)

\* create_login_session
Create(h) ==
    /\ At(h, "apply") /\ handler[h].op = "start"
    /\ Change(h, handler[h].sid, [handler[h].view EXCEPT ![handler[h].sid] = "fresh"],
              handler[h].sid)

\* inspect_login_session: the callback of a session that is gone is refused;
\* otherwise it is marked at once.
Inspect(h) ==
    /\ At(h, "apply") /\ handler[h].op = "inspect"
    /\ IF handler[h].view[handler[h].sid] = None THEN Finish(h)
       ELSE handler' = [handler EXCEPT ![h] = [Idle EXCEPT !.pc = "load", !.op = "mark",
                                        !.worker = handler[h].worker, !.sid = handler[h].sid]]
    /\ UNCHANGED <<meta, expired, code, active, older, saved, served, crashes, history>>

\* Mutant of Mark: whether the session was used is not looked at.
MarkAgain(h) ==
    /\ At(h, "apply") /\ handler[h].op = "mark"
    /\ LET s == handler[h].sid
       IN  IF handler[h].view[s] # None
           THEN Change(h, s, [handler[h].view EXCEPT ![s] = "used"], handler[h].last)
           ELSE Finish(h) /\ UNCHANGED <<meta, expired, code, active, older, saved, served,
                                         crashes, history>>

\* mark_relay_callback: a session takes one callback.
Mark(h) ==
    /\ At(h, "apply") /\ handler[h].op = "mark"
    /\ LET s == handler[h].sid
       IN  IF handler[h].view[s] = "fresh"
           THEN Change(h, s, [handler[h].view EXCEPT ![s] = "used"], handler[h].last)
           ELSE Finish(h) /\ UNCHANGED <<meta, expired, code, active, older, saved, served,
                                         crashes, history>>

CancelTarget(h) == IF handler[h].sid # None THEN handler[h].sid ELSE handler[h].last

\* Mutant of Canceled: a session that was used is kept.
CanceledUnused(h, s) ==
    [handler[h].view EXCEPT ![s] = IF @ = "used" THEN @ ELSE None]

Canceled(h, s) == [handler[h].view EXCEPT ![s] = None]

\* cancel_login_session: the one asked for, or the latest one.
Cancel(h) ==
    /\ At(h, "apply") /\ handler[h].op = "cancel"
    /\ LET s == CancelTarget(h)
       IN  IF s = None
           THEN Finish(h) /\ UNCHANGED <<meta, expired, code, active, older, saved, served,
                                         crashes, history>>
           ELSE Change(h, s, Canceled(h, s),
                       IF handler[h].last = s THEN None ELSE handler[h].last)

Status(h) ==
    /\ At(h, "apply") /\ handler[h].op = "status"
    /\ Finish(h)
    /\ UNCHANGED <<meta, expired, code, active, older, saved, served, crashes, history>>

-----------------------------------------------------------------------------
(* The exchange of the code and what follows                                 *)

\* The endpoint grants tokens for a code once.
ExchangeGranted(h) ==
    /\ At(h, "exchange") /\ code[handler[h].sid] = "issued"
    /\ code' = [code EXCEPT ![handler[h].sid] = "spent"]
    /\ Goto(h, "publish")
    /\ UNCHANGED <<meta, expired, active, older, saved, served, crashes, history>>

\* The code is spent, the callback is of another login, or the answer is lost:
\* the session stays used.
ExchangeFails(h) ==
    /\ At(h, "exchange")
    /\ Finish(h)
    /\ code' \in {code, [code EXCEPT ![handler[h].sid] = "spent"]}
    /\ UNCHANGED <<meta, expired, active, older, saved, served, crashes, history>>

Publish(h) ==
    /\ At(h, "publish") /\ Free(handler[h].worker)
    /\ active' = handler[h].sid
    /\ crossed' = crossed \cup {handler[g].sid : g \in {f \in Handlers :
                        handler[f].worker # handler[h].worker /\ At(f, "read_active")}}
    /\ Goto(h, "read_active")
    /\ UNCHANGED <<meta, expired, code, older, saved, served, crashes, accepted, canceled, clobbered>>

ReadActive(h) ==
    /\ At(h, "read_active")
    /\ handler' = [handler EXCEPT ![h].pc = "persist", ![h].got = active]
    /\ UNCHANGED <<meta, expired, code, active, older, saved, served, crashes, history>>

\* _validate_relay_finalized_auth: tokens granted before the login are refused.
Fresh(h) == handler[h].got \notin older[handler[h].sid]

\* The profile is saved: its transactions are those of TokenRefresh.
Persist(h) ==
    /\ At(h, "persist")
    /\ saved' = IF Fresh(h) THEN saved \cup {[sid |-> handler[h].sid, auth |-> handler[h].got]}
                ELSE saved
    /\ Finish(h)
    /\ UNCHANGED <<meta, expired, code, active, older, served, crashes, history>>

Expire ==
    /\ \E s \in Sessions : code[s] # None /\ expired' = expired \cup {s}
    /\ UNCHANGED <<meta, code, active, older, saved, handler, served, crashes, history>>

\* All requests of a worker that dies end.
Crash(w) ==
    /\ crashes < MaxCrash /\ crashes' = crashes + 1
    /\ \E h \in Handlers : handler[h].worker = w
    /\ handler' = [h \in Handlers |-> IF handler[h].worker = w THEN Idle ELSE handler[h]]
    /\ UNCHANGED <<meta, expired, code, active, older, saved, served, history>>

Step(h) ==
    \/ StartLogin(h) \/ RelayCallback(h) \/ CancelLogin(h) \/ LoginStatus(h)
    \/ LoadSessions(h) \/ LoadLatest(h) \/ WriteSessions(h) \/ WriteLatest(h)
    \/ Create(h) \/ Inspect(h) \/ Mark(h) \/ Cancel(h) \/ Status(h)
    \/ ExchangeGranted(h) \/ ExchangeFails(h) \/ Publish(h) \/ ReadActive(h) \/ Persist(h)

Next ==
    \/ \E h \in Handlers : Step(h)
    \/ \E w \in Workers : Crash(w)
    \/ Expire

Spec == Init /\ [][Next]_vars

-----------------------------------------------------------------------------
(* Properties                                                                *)

\* A session takes one callback, however often it is relayed and whatever else
\* its worker serves while the first one waits for the endpoint; only a record
\* that another worker's copy overwrote can take a second one.
RelayedOnce == \A s \in Sessions \ clobbered : accepted[s] <= 1

\* A canceled session stays gone: no operation that read it before brings it
\* back, unless it belongs to another worker.
CancelIsFinal == \A s \in canceled \ clobbered : stored[s] = None

\* The session of a login that was started is found when its callback arrives:
\* it leaves the database only when it expires or is canceled.
SessionNotLost ==
    \A s \in Sessions \ clobbered :
        code[s] # None => stored[s] # None \/ s \in expired \cup canceled

\* What a relay saves as the result of its login are the tokens of its login:
\* two relays of one worker are not mixed up.
SavedAsOwn == \A r \in saved : r.auth = r.sid \/ r.sid \in crossed
=============================================================================
