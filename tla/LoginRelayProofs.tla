--------------------------- MODULE LoginRelayProofs ---------------------------
(* Proofs about LoginRelay for any number of workers, requests and logins.     *)
EXTENDS LoginRelay, TLAPS

-----------------------------------------------------------------------------
(* The inductive invariant                                                   *)

\* The copy of the sessions that request x holds: what it read, until it drops
\* expired sessions or makes its one change.
CopyOK(x, gone) ==
    /\ x.pc \in {"latest", "clean_latest", "apply", "write_latest"} => x.view = x.base
    /\ x.pc = "clean" =>
          \A s \in Sessions : x.view[s] = x.base[s] \/ (x.view[s] = None /\ s \in gone)
    /\ x.pc = "write" =>
          /\ x.op \in {"start", "mark", "cancel"} /\ x.sid \in Sessions
          /\ \A s \in Sessions \ {x.sid} : x.view[s] = x.base[s]
          /\ x.op = "start" => x.view[x.sid] = "fresh"
          /\ x.op = "mark" => x.base[x.sid] = "fresh" /\ x.view[x.sid] = "used"
          /\ x.op = "cancel" => x.view[x.sid] = None

\* The session that x is about was started before, unless x starts it.
SidOK(x, codes) ==
    /\ x.op \in {"start", "inspect", "mark"} => x.sid \in Sessions
    /\ x.op = "start" => codes[x.sid] = None
    /\ x.op \in {"inspect", "mark"} => codes[x.sid] # None
    /\ x.op = "cancel" /\ x.sid # None => codes[x.sid] # None
    /\ x.last # None =>
          \/ codes[x.last] # None
          \/ x.op = "start" /\ x.pc \in {"write", "write_latest"} /\ x.last = x.sid
    /\ x.pc = "write_latest" => x.op \in {"start", "mark", "cancel"}
    /\ x.pc \in {"exchange", "publish", "read_active", "persist"} => x.op = "mark"

\* Between its publication and its save a relay sees its own tokens, unless
\* another worker replaced them.
OwnOK(x, auth, mixed) ==
    /\ x.pc = "read_active" => auth \in Sessions /\ (auth = x.sid \/ x.sid \in mixed)
    /\ x.pc = "persist" => x.got \in Sessions /\ (x.got = x.sid \/ x.sid \in mixed)

HandlersOK ==
    \A h \in Handlers : /\ CopyOK(handler[h], expired)
                        /\ SidOK(handler[h], code)
                        /\ OwnOK(handler[h], active, crossed)

\* No two requests start the same session.
OneStarts ==
    \A g, h \in Handlers :
        handler[g].op = "start" /\ handler[h].op = "start" /\ handler[g].sid = handler[h].sid
        => g = h

\* Only sessions that were started are the latest, accepted or canceled.
Started ==
    /\ latest # None => code[latest] # None
    /\ \A s \in Sessions : s \in canceled \/ accepted[s] > 0 => code[s] # None

\* A session that accepted a callback is not fresh any more.
Once ==
    \A s \in Sessions \ clobbered : accepted[s] <= 1 /\ (accepted[s] = 1 => stored[s] # "fresh")

\* A session is in the database from the moment its request wrote it.
Creates(h, s) == handler[h].op = "start" /\ handler[h].pc = "write_latest" /\ handler[h].sid = s

Found ==
    \A s \in Sessions \ clobbered :
        code[s] # None \/ (\E h \in Handlers : Creates(h, s)) =>
            stored[s] # None \/ s \in expired \cup canceled

IInv ==
    /\ TypeOK /\ HandlersOK /\ OneStarts /\ Started
    /\ Once /\ CancelIsFinal /\ Found /\ SavedAsOwn

\* The invariant is what the four properties need.
LEMMA IInvImplies == IInv => RelayedOnce /\ CancelIsFinal /\ SessionNotLost /\ SavedAsOwn
BY DEF IInv, Once, Found, RelayedOnce, SessionNotLost

LEMMA InitHolds == Init => IInv
<1> SUFFICES ASSUME Init PROVE IInv
  OBVIOUS
<1>1. Idle \in Handler /\ NoSessions \in [Sessions -> Record \cup {None}]
  BY DEF Idle, Handler, NoSessions, Steps
<1>2. TypeOK
  BY <1>1, RelayAssumption DEF Init, TypeOK
<1>3. \A h \in Handlers : handler[h] = Idle
  BY DEF Init
<1>4. HandlersOK
  BY <1>3, RelayAssumption DEF HandlersOK, CopyOK, SidOK, OwnOK, Idle, Ops
<1>5. \A h \in Handlers : handler[h].op # "start"
  BY <1>3, RelayAssumption DEF Idle, Ops
<1>6. OneStarts /\ Started /\ Once /\ CancelIsFinal /\ Found /\ SavedAsOwn
  BY <1>5 DEF Init, OneStarts, Started, Once, CancelIsFinal, Found, Creates, SavedAsOwn
<1>. QED
  BY <1>2, <1>4, <1>6 DEF IInv

-----------------------------------------------------------------------------
(* Steps that write no session                                               *)

\* The rows of a request.
LEMMA IdleRow ==
    /\ Idle \in Handler
    /\ \A codes, gone, auth, mixed : CopyOK(Idle, gone) /\ SidOK(Idle, codes) /\ OwnOK(Idle, auth, mixed)
    /\ Idle.op # "start"
<1>1. Idle \in Handler
  BY DEF Idle, Handler, NoSessions, Steps
<1>2. Idle.op # "start" /\ Idle.op \notin Ops
  BY RelayAssumption DEF Idle, Ops
<1>. QED
  BY <1>1, <1>2 DEF Idle, CopyOK, SidOK, OwnOK, Ops

LEMMA GotoRow ==
    ASSUME NEW x \in Handler, NEW p \in Steps
    PROVE  LET y == [x EXCEPT !.pc = p] IN
           /\ y \in Handler /\ y.pc = p
           /\ y.op = x.op /\ y.sid = x.sid /\ y.worker = x.worker
           /\ y.base = x.base /\ y.view = x.view /\ y.last = x.last /\ y.got = x.got
BY DEF Handler

\* Request h moves on without writing the sessions, and whatever else happens
\* takes nothing back.
Moves(h) ==
    /\ handler' \in [Handlers -> Handler]
    /\ \A g \in Handlers \ {h} : handler'[g] = handler[g]
    /\ CopyOK(handler'[h], expired') /\ SidOK(handler'[h], code')
    /\ OwnOK(handler'[h], active', crossed')
    /\ handler'[h].op = "start" =>
          /\ handler[h].op = "start" /\ handler'[h].sid = handler[h].sid
          /\ handler'[h].pc = "write_latest" => handler[h].pc = "write_latest"
    /\ UNCHANGED <<stored, accepted, canceled, clobbered>>
    /\ expired \subseteq expired'
    /\ \A s \in Sessions : code'[s] = None <=> code[s] = None
    /\ latest' # None => code[latest'] # None

LEMMA MovesKeeps ==
    ASSUME IInv, NEW h \in Handlers, Moves(h), UNCHANGED <<active, crossed>>,
           latest' \in Sessions \cup {None}
    PROVE  HandlersOK' /\ OneStarts' /\ Started' /\ Once' /\ CancelIsFinal' /\ Found'
<1>1. handler \in [Handlers -> Handler] /\ HandlersOK /\ OneStarts
  BY DEF IInv, TypeOK
<1>2. ASSUME NEW g \in Handlers
      PROVE  /\ CopyOK(handler'[g], expired') /\ SidOK(handler'[g], code')
             /\ OwnOK(handler'[g], active', crossed')
  <2>1. CASE g = h
    BY <2>1 DEF Moves
  <2>2. CASE g # h
    <3>1. handler'[g] = handler[g] /\ handler[g] \in Handler
      BY <1>1, <2>2 DEF Moves
    <3>2. /\ CopyOK(handler[g], expired) /\ SidOK(handler[g], code)
          /\ OwnOK(handler[g], active, crossed)
      BY <1>1 DEF HandlersOK
    <3>3. CopyOK(handler[g], expired')
      BY <3>2 DEF CopyOK, Moves
    <3>4. SidOK(handler[g], code')
      BY <3>1, <3>2 DEF SidOK, Moves, Handler
    <3>. QED
      BY <3>1, <3>2, <3>3, <3>4
  <2>. QED
    BY <2>1, <2>2
<1>3. HandlersOK'
  BY <1>2 DEF HandlersOK
<1>4. OneStarts'
  BY <1>1 DEF OneStarts, Moves
<1>5. Started'
  BY DEF IInv, Started, Moves
<1>6. Once' /\ CancelIsFinal'
  BY DEF IInv, Once, CancelIsFinal, Moves
<1>7. Found'
  <2>1. ASSUME NEW g \in Handlers, NEW s, Creates(g, s)' PROVE Creates(g, s)
    BY <1>1, <2>1 DEF Creates, Moves
  <2>. QED
    BY <2>1 DEF IInv, Found, Moves
<1>. QED
  BY <1>3, <1>4, <1>5, <1>6, <1>7

\* The other invariants of such a step: no auth is saved, every type is kept.
LEMMA MovesInv ==
    ASSUME IInv, NEW h \in Handlers, Moves(h), TypeOK',
           UNCHANGED <<active, crossed, saved>>
    PROVE  IInv'
<1>1. HandlersOK' /\ OneStarts' /\ Started' /\ Once' /\ CancelIsFinal' /\ Found'
  BY MovesKeeps DEF TypeOK
<1>2. SavedAsOwn'
  BY DEF IInv, SavedAsOwn
<1>. QED
  BY <1>1, <1>2 DEF IInv

\* A request that changes nothing but its own row, to y.
LEMMA RowInv ==
    ASSUME IInv, NEW h \in Handlers, NEW y \in Handler,
           handler' = [handler EXCEPT ![h] = y],
           CopyOK(y, expired), SidOK(y, code), OwnOK(y, active, crossed),
           y.op = "start" => /\ handler[h].op = "start" /\ y.sid = handler[h].sid
                             /\ y.pc = "write_latest" => handler[h].pc = "write_latest",
           UNCHANGED <<meta, expired, code, active, older, saved, served, crashes, history>>
    PROVE  IInv'
<1>1. handler' \in [Handlers -> Handler] /\ handler'[h] = y
      /\ \A g \in Handlers \ {h} : handler'[g] = handler[g]
  BY DEF IInv, TypeOK
<1>2. TypeOK'
  BY <1>1 DEF IInv, TypeOK, meta, history
<1>3. Moves(h)
  BY <1>1 DEF Moves, IInv, Started, meta, history
<1>. QED
  BY <1>2, <1>3, MovesInv DEF history

LEMMA ServeInv ==
    ASSUME IInv, NEW h \in Handlers, NEW op \in {"inspect", "cancel", "status"},
           NEW s \in Sessions \cup {None}, Serve(h, op, s), UNCHANGED older,
           op = "inspect" => s # None /\ code[s] # None,
           op = "cancel" /\ s # None => code[s] # None
    PROVE  IInv'
<1>1. PICK w \in Workers :
        handler' = [handler EXCEPT ![h] =
                [Idle EXCEPT !.pc = "load", !.op = op, !.worker = w, !.sid = s]]
  BY DEF Serve
<1> DEFINE y == [Idle EXCEPT !.pc = "load", !.op = op, !.worker = w, !.sid = s]
<1>2. /\ y \in Handler /\ y.pc = "load" /\ y.op = op /\ y.sid = s /\ y.last = None
  BY IdleRow DEF Handler, Ops, Steps, Idle
<1> HIDE DEF y
<1>3. CopyOK(y, expired) /\ SidOK(y, code) /\ OwnOK(y, active, crossed)
  BY <1>2 DEF CopyOK, SidOK, OwnOK
<1>4. handler' \in [Handlers -> Handler] /\ handler'[h] = y
      /\ \A g \in Handlers \ {h} : handler'[g] = handler[g]
  BY <1>1, <1>2 DEF IInv, TypeOK, y
<1>5. TypeOK'
  <2>1. served' \in 0..MaxServed
    BY RelayAssumption DEF IInv, TypeOK, Serve
  <2>. QED
    BY <1>4, <2>1 DEF IInv, TypeOK, Serve, meta, history
<1>6. Moves(h)
  BY <1>2, <1>3, <1>4 DEF Moves, IInv, Started, Serve, meta, history
<1>. QED
  BY <1>5, <1>6, MovesInv DEF Serve, history

\* A new session: the request that starts it is the only one.
LEMMA StartInv ==
    ASSUME IInv, NEW h \in Handlers, StartLogin(h)
    PROVE  IInv'
<1>1. PICK s \in Sessions : NextLogin(s) /\ Serve(h, "start", s)
        /\ older' = [older EXCEPT ![s] = {t \in Sessions : code[t] = "spent"}]
  BY DEF StartLogin
<1>2. PICK w \in Workers :
        handler' = [handler EXCEPT ![h] =
                [Idle EXCEPT !.pc = "load", !.op = "start", !.worker = w, !.sid = s]]
  BY <1>1 DEF Serve
<1> DEFINE y == [Idle EXCEPT !.pc = "load", !.op = "start", !.worker = w, !.sid = s]
<1>3. y \in Handler /\ y.pc = "load" /\ y.op = "start" /\ y.sid = s /\ y.last = None
  BY IdleRow DEF Handler, Ops, Steps, Idle
<1> HIDE DEF y
<1>4. CopyOK(y, expired) /\ SidOK(y, code) /\ OwnOK(y, active, crossed)
  BY <1>1, <1>3 DEF CopyOK, SidOK, OwnOK, NextLogin
<1>5. handler' \in [Handlers -> Handler] /\ handler'[h] = y
      /\ \A g \in Handlers \ {h} : handler'[g] = handler[g]
  BY <1>2, <1>3 DEF IInv, TypeOK, y
<1>6. UNCHANGED <<stored, latest, expired, code, active, saved, crashes, accepted, canceled,
                  clobbered, crossed>>
  BY <1>1 DEF Serve, meta, history
<1>7. TypeOK'
  <2>1. served' \in 0..MaxServed
    BY <1>1, RelayAssumption DEF IInv, TypeOK, Serve
  <2>2. older' \in [Sessions -> SUBSET Sessions]
    BY <1>1 DEF IInv, TypeOK
  <2>. QED
    BY <1>5, <1>6, <2>1, <2>2 DEF IInv, TypeOK
<1>8. HandlersOK'
  BY <1>4, <1>5, <1>6 DEF IInv, HandlersOK
<1>9. OneStarts'
  BY <1>1, <1>3, <1>5 DEF IInv, OneStarts, NextLogin
<1>10. Found'
  <2>1. ASSUME NEW g \in Handlers, NEW t, Creates(g, t)' PROVE Creates(g, t)
    BY <1>3, <1>5, <2>1 DEF Creates
  <2>. QED
    BY <1>6, <2>1 DEF IInv, Found
<1>11. Started' /\ Once' /\ CancelIsFinal' /\ SavedAsOwn'
  BY <1>6 DEF IInv, Started, Once, CancelIsFinal, SavedAsOwn
<1>. QED
  BY <1>7, <1>8, <1>9, <1>10, <1>11 DEF IInv

-----------------------------------------------------------------------------
(* The operations on the copy                                                *)

LEMMA LoadInv ==
    ASSUME IInv, NEW h \in Handlers, LoadSessions(h)
    PROVE  IInv'
<1> DEFINE x == handler[h]
           y == [x EXCEPT !.pc = "latest", !.base = stored, !.view = stored]
<1>1. x \in Handler /\ x.pc = "load" /\ SidOK(x, code)
      /\ stored \in [Sessions -> Record \cup {None}]
  BY DEF IInv, TypeOK, HandlersOK, LoadSessions, At
<1>2. y \in Handler /\ y.pc = "latest" /\ y.op = x.op /\ y.sid = x.sid /\ y.last = x.last
      /\ y.view = y.base
  BY <1>1 DEF Handler, Steps
<1>3. handler' = [handler EXCEPT ![h] = y]
  BY DEF LoadSessions, IInv, TypeOK
<1> HIDE DEF x, y
<1>4. CopyOK(y, expired) /\ SidOK(y, code) /\ OwnOK(y, active, crossed)
  BY <1>1, <1>2 DEF CopyOK, SidOK, OwnOK
<1>. QED
  BY <1>2, <1>3, <1>4, RowInv DEF LoadSessions, x

LEMMA LoadLatestInv ==
    ASSUME IInv, NEW h \in Handlers, LoadLatest(h)
    PROVE  IInv'
<1> DEFINE x == handler[h]
           view == Unexpired(x.view)
           p == IF view = x.view THEN "apply" ELSE "clean"
           last == IF latest # None /\ x.view[latest] # view[latest] THEN None ELSE latest
           y == [x EXCEPT !.pc = p, !.view = view, !.last = last]
<1>1. x \in Handler /\ x.pc = "latest" /\ SidOK(x, code) /\ x.view = x.base
  BY DEF IInv, TypeOK, HandlersOK, LoadLatest, At, CopyOK
<1>2. /\ view \in [Sessions -> Record \cup {None}]
      /\ \A s \in Sessions : view[s] = x.view[s] \/ (view[s] = None /\ s \in expired)
  BY <1>1 DEF Unexpired, Handler
<1>3. p \in {"apply", "clean"} /\ (p = "apply" => view = x.view)
  OBVIOUS
<1>4. last \in Sessions \cup {None} /\ (last # None => code[last] # None)
  BY DEF IInv, TypeOK, Started
<1>5. handler' = [handler EXCEPT ![h] = y]
  BY DEF LoadLatest, IInv, TypeOK
<1> HIDE DEF x, view, p, last
<1>6. y \in Handler /\ y.pc = p /\ y.op = x.op /\ y.sid = x.sid /\ y.last = last
      /\ y.view = view /\ y.base = x.base
  <2>1. p \in Steps
    BY <1>3 DEF Steps
  <2>. QED
    BY <1>1, <1>2, <1>4, <2>1 DEF Handler
<1> HIDE DEF y
<1>7. CopyOK(y, expired) /\ SidOK(y, code) /\ OwnOK(y, active, crossed)
  BY <1>1, <1>2, <1>3, <1>4, <1>6 DEF CopyOK, SidOK, OwnOK
<1>. QED
  BY <1>3, <1>5, <1>6, <1>7, RowInv DEF LoadLatest, x

\* Ending a request.
LEMMA FinishInv ==
    ASSUME IInv, NEW h \in Handlers, Finish(h),
           UNCHANGED <<meta, expired, code, active, older, saved, served, crashes, history>>
    PROVE  IInv'
BY IdleRow, RowInv DEF Finish

\* The one change of a copy.
LEMMA ChangeInv ==
    ASSUME IInv, NEW h \in Handlers, At(h, "apply"), NEW s \in Sessions,
           NEW new \in Record \cup {None}, NEW last \in Sessions \cup {None},
           Change(h, s, [handler[h].view EXCEPT ![s] = new], last),
           \/ handler[h].op = "start" /\ s = handler[h].sid /\ new = "fresh" /\ last = s
           \/ /\ handler[h].op = "mark" /\ s = handler[h].sid /\ new = "used"
              /\ handler[h].view[s] = "fresh" /\ last = handler[h].last
           \/ /\ handler[h].op = "cancel" /\ new = None /\ code[s] # None
              /\ last \in {None, handler[h].last}
    PROVE  IInv'
<1> DEFINE x == handler[h]
           view == [x.view EXCEPT ![s] = new]
           y == [x EXCEPT !.pc = "write", !.sid = s, !.view = view, !.last = last]
<1>1. x \in Handler /\ x.pc = "apply" /\ SidOK(x, code) /\ x.view = x.base
  BY DEF IInv, TypeOK, HandlersOK, At, CopyOK
<1>2. /\ view \in [Sessions -> Record \cup {None}] /\ view[s] = new
      /\ \A t \in Sessions \ {s} : view[t] = x.view[t]
  BY <1>1 DEF Handler
<1>3. handler' = [handler EXCEPT ![h] = y]
  BY DEF Change, IInv, TypeOK
<1>4. \/ x.op = "start" /\ s = x.sid /\ new = "fresh" /\ last = s
      \/ x.op = "mark" /\ s = x.sid /\ new = "used" /\ x.view[s] = "fresh" /\ last = x.last
      \/ x.op = "cancel" /\ new = None /\ code[s] # None /\ last \in {None, x.last}
  OBVIOUS
<1> HIDE DEF x, view
<1>5. y \in Handler /\ y.pc = "write" /\ y.op = x.op /\ y.sid = s /\ y.last = last
      /\ y.view = view /\ y.base = x.base
  BY <1>1, <1>2 DEF Handler, Steps
<1> HIDE DEF y
<1>6. CopyOK(y, expired)
  BY <1>1, <1>2, <1>4, <1>5 DEF CopyOK
<1>7. SidOK(y, code)
  BY <1>1, <1>4, <1>5 DEF SidOK
<1>8. OwnOK(y, active, crossed)
  BY <1>5 DEF OwnOK
<1>. QED
  BY <1>3, <1>4, <1>5, <1>6, <1>7, <1>8, RowInv DEF Change, x

LEMMA ApplyInv ==
    ASSUME IInv, NEW h \in Handlers,
           Create(h) \/ Inspect(h) \/ Mark(h) \/ Cancel(h) \/ Status(h)
    PROVE  IInv'
<1> DEFINE x == handler[h]
<1>1. x \in Handler /\ SidOK(x, code)
  BY DEF IInv, TypeOK, HandlersOK
<1>2. CASE Create(h)
  <2>1. x.op = "start" /\ x.sid \in Sessions
    BY <1>1, <1>2 DEF Create, SidOK
  <2>. QED
    BY <1>2, <2>1, ChangeInv DEF Create, Record
<1>3. CASE Inspect(h)
  <2>1. CASE Finish(h)
    BY <1>3, <2>1, FinishInv DEF Inspect
  <2>2. CASE ~Finish(h)
    <3> DEFINE y == [Idle EXCEPT !.pc = "load", !.op = "mark", !.worker = x.worker, !.sid = x.sid]
    <3>1. handler' = [handler EXCEPT ![h] = y]
      BY <1>3, <2>2 DEF Inspect
    <3>2. y \in Handler /\ y.pc = "load" /\ y.op = "mark" /\ y.sid = x.sid /\ y.last = None
      BY <1>1, IdleRow DEF Handler, Ops, Steps, Idle
    <3>3. x.sid \in Sessions /\ code[x.sid] # None
      BY <1>1, <1>3 DEF Inspect, SidOK
    <3> HIDE DEF x, y
    <3>4. CopyOK(y, expired) /\ SidOK(y, code) /\ OwnOK(y, active, crossed)
      BY <3>2, <3>3 DEF CopyOK, SidOK, OwnOK
    <3>. QED
      BY <1>3, <3>1, <3>2, <3>4, RowInv DEF Inspect
  <2>. QED
    BY <2>1, <2>2
<1>4. CASE Mark(h)
  <2>1. CASE Finish(h) /\ UNCHANGED <<meta, expired, code, active, older, saved, served,
                                      crashes, history>>
    BY <2>1, FinishInv
  <2>2. CASE x.view[x.sid] = "fresh"
    <3>1. x.op = "mark" /\ x.sid \in Sessions /\ x.last \in Sessions \cup {None}
      BY <1>1, <1>4 DEF Mark, SidOK, Handler
    <3>. QED
      BY <1>4, <2>2, <3>1, ChangeInv DEF Mark, Record
  <2>. QED
    BY <1>4, <2>1, <2>2 DEF Mark
<1>5. CASE Cancel(h)
  <2> DEFINE s == CancelTarget(h)
             last == IF x.last = s THEN None ELSE x.last
  <2>1. CASE Finish(h) /\ UNCHANGED <<meta, expired, code, active, older, saved, served,
                                      crashes, history>>
    BY <2>1, FinishInv
  <2>2. CASE s # None /\ Change(h, s, [x.view EXCEPT ![s] = None], last)
    <3>1. x.op = "cancel" /\ At(h, "apply")
      BY <1>5 DEF Cancel
    <3>2. s \in Sessions /\ code[s] # None
      BY <1>1, <2>2, <3>1, RelayAssumption DEF CancelTarget, SidOK, Handler
    <3>3. last \in {None, x.last} /\ last \in Sessions \cup {None}
      BY <1>1 DEF Handler
    <3> HIDE DEF s, last
    <3>. QED
      BY <2>2, <3>1, <3>2, <3>3, ChangeInv
  <2>. QED
    BY <1>5, <2>1, <2>2 DEF Cancel, Canceled
<1>6. CASE Status(h)
  BY <1>6, FinishInv DEF Status
<1>. QED
  BY <1>2, <1>3, <1>4, <1>5, <1>6

-----------------------------------------------------------------------------
(* The steps that write                                                      *)

\* A session whose record no other worker changed has, after a write, the
\* record it had, or it expired, or it is the one the writer is about.
LEMMA Written ==
    ASSUME IInv, NEW h \in Handlers, WriteSessions(h), NEW s \in Sessions \ clobbered'
    PROVE  LET x == handler[h] IN
           /\ stored[s] = x.base[s] /\ stored'[s] = x.view[s]
           /\ \/ stored'[s] = stored[s]
              \/ x.pc = "clean" /\ stored'[s] = None /\ s \in expired
              \/ x.pc = "write" /\ s = x.sid
<1> DEFINE x == handler[h]
<1>1. CopyOK(x, expired) /\ x.pc \in {"clean", "write"}
  BY DEF IInv, HandlersOK, WriteSessions, At
<1>2. stored[s] = x.base[s] /\ stored'[s] = x.view[s]
  BY DEF WriteSessions
<1>. QED
  BY <1>1, <1>2 DEF CopyOK

LEMMA WriteSessionsInv ==
    ASSUME IInv, NEW h \in Handlers, WriteSessions(h)
    PROVE  IInv'
<1> DEFINE x == handler[h]
           p == IF At(h, "clean") THEN "clean_latest" ELSE "write_latest"
           y == [x EXCEPT !.base = x.view, !.pc = p]
           marks == x.pc = "write" /\ x.op = "mark"
           cancels == x.pc = "write" /\ x.op = "cancel"
<1>1. x \in Handler /\ SidOK(x, code) /\ CopyOK(x, expired) /\ x.pc \in {"clean", "write"}
  BY DEF IInv, TypeOK, HandlersOK, WriteSessions, At
<1>2. p \in {"clean_latest", "write_latest"} /\ (p = "write_latest" <=> x.pc = "write")
  BY <1>1 DEF At
<1>3. handler' = [handler EXCEPT ![h] = y]
  BY DEF WriteSessions, IInv, TypeOK
<1>4. /\ accepted' = IF marks THEN [accepted EXCEPT ![x.sid] = @ + 1] ELSE accepted
      /\ canceled' = IF cancels THEN canceled \cup {x.sid} ELSE canceled
  BY DEF WriteSessions, At
<1>5. stored' = x.view /\ clobbered \subseteq clobbered' /\ clobbered' \subseteq Sessions
  BY DEF WriteSessions, IInv, TypeOK
<1>6. x.pc = "write" => x.sid \in Sessions /\ (x.op # "start" => code[x.sid] # None)
  BY <1>1, RelayAssumption DEF CopyOK, SidOK
<1> HIDE DEF x, p
<1>7. y \in Handler /\ y.pc = p /\ y.op = x.op /\ y.sid = x.sid /\ y.last = x.last
      /\ y.view = x.view /\ y.base = x.view
  BY <1>1, <1>2 DEF Handler, Steps
<1> HIDE DEF y
<1>8. CopyOK(y, expired)
  BY <1>2, <1>7 DEF CopyOK
<1>9. SidOK(y, code)
  BY <1>1, <1>2, <1>7 DEF SidOK, CopyOK
<1>10. OwnOK(y, active, crossed)
  BY <1>2, <1>7 DEF OwnOK
<1>11. handler' \in [Handlers -> Handler] /\ handler'[h] = y
       /\ \A g \in Handlers \ {h} : handler'[g] = handler[g]
  BY <1>3, <1>7 DEF IInv, TypeOK
<1>12. UNCHANGED <<latest, expired, code, active, older, saved, served, crashes, crossed>>
  BY DEF WriteSessions
<1>13. TypeOK'
  <2>1. stored' \in [Sessions -> Record \cup {None}]
    BY <1>1, <1>5 DEF Handler
  <2>2. accepted' \in [Sessions -> Nat]
    <3>1. accepted \in [Sessions -> Nat]
      BY DEF IInv, TypeOK
    <3>2. CASE marks
      BY <1>4, <1>6, <3>1, <3>2
    <3>3. CASE ~marks
      BY <1>4, <3>1, <3>3
    <3>. QED
      BY <3>2, <3>3
  <2>3. canceled' \subseteq Sessions
    BY <1>4, <1>6 DEF IInv, TypeOK
  <2>. QED
    BY <1>5, <1>11, <1>12, <2>1, <2>2, <2>3 DEF IInv, TypeOK
<1>14. HandlersOK'
  BY <1>8, <1>9, <1>10, <1>11, <1>12 DEF IInv, HandlersOK
<1>15. OneStarts'
  BY <1>7, <1>11 DEF IInv, OneStarts, x
<1>16. Started'
  <2>1. latest' # None => code'[latest'] # None
    BY <1>12 DEF IInv, Started
  <2>2. ASSUME NEW s \in Sessions, s \in canceled' \/ accepted'[s] > 0 PROVE code'[s] # None
    <3>1. s \in canceled \/ accepted[s] > 0 \/ (s = x.sid /\ (marks \/ cancels))
      BY <1>4, <2>2 DEF IInv, TypeOK
    <3>. QED
      BY <1>6, <1>12, <3>1 DEF IInv, Started
  <2>. QED
    BY <2>1, <2>2 DEF Started
<1>17. ASSUME NEW s \in Sessions \ clobbered'
       PROVE  /\ s \notin clobbered
              /\ stored[s] = x.base[s] /\ stored'[s] = x.view[s]
              /\ \/ stored'[s] = stored[s] /\ ~(x.pc = "write" /\ s = x.sid)
                 \/ x.pc = "clean" /\ stored'[s] = None /\ s \in expired
                 \/ x.pc = "write" /\ s = x.sid
  BY <1>1, <1>5, Written DEF x
<1>18. Once'
  <2> SUFFICES ASSUME NEW s \in Sessions \ clobbered'
               PROVE  accepted'[s] <= 1 /\ (accepted'[s] = 1 => stored'[s] # "fresh")
    BY DEF Once
  <2>1. accepted[s] \in Nat /\ accepted[s] <= 1 /\ (accepted[s] = 1 => stored[s] # "fresh")
    BY <1>17 DEF IInv, Once, TypeOK
  <2>2. CASE marks /\ s = x.sid
    <3>1. stored[s] = "fresh" /\ stored'[s] = "used"
      BY <1>1, <1>17, <2>2 DEF CopyOK
    <3>2. accepted'[s] = accepted[s] + 1
      BY <1>4, <2>2 DEF IInv, TypeOK
    <3>. QED
      BY <2>1, <3>1, <3>2
  <2>3. CASE ~(marks /\ s = x.sid)
    <3>1. accepted'[s] = accepted[s]
      BY <1>4, <2>3 DEF IInv, TypeOK
    <3>2. ASSUME accepted[s] = 1, stored'[s] = "fresh" PROVE FALSE
      <4>1. code[s] # None /\ stored'[s] # stored[s]
        BY <2>1, <3>2 DEF IInv, Started
      <4>2. x.pc = "write" /\ s = x.sid
        BY <1>17, <3>2, <4>1, RelayAssumption DEF Record
      <4>3. x.op = "cancel" /\ stored'[s] = None
        BY <1>1, <1>17, <2>3, <4>1, <4>2 DEF CopyOK, SidOK
      <4>. QED
        BY <3>2, <4>3, RelayAssumption DEF Record
    <3>. QED
      BY <2>1, <3>1, <3>2
  <2>. QED
    BY <2>2, <2>3
<1>19. CancelIsFinal'
  <2> SUFFICES ASSUME NEW s \in canceled' \ clobbered' PROVE stored'[s] = None
    BY DEF CancelIsFinal
  <2>1. s \in Sessions
    BY <1>13 DEF TypeOK
  <2>2. CASE cancels /\ s = x.sid
    BY <1>1, <1>17, <2>1, <2>2 DEF CopyOK
  <2>3. CASE ~(cancels /\ s = x.sid)
    <3>1. s \in canceled /\ stored[s] = None /\ code[s] # None
      BY <1>4, <1>17, <2>1, <2>3 DEF IInv, CancelIsFinal, Started
    <3>2. ~(x.pc = "write" /\ s = x.sid)
      <4>1. ASSUME x.pc = "write", s = x.sid PROVE FALSE
        <5>1. x.op \in {"start", "mark"}
          BY <1>1, <2>3, <4>1 DEF CopyOK
        <5>2. x.op = "mark" /\ x.base[s] = "fresh"
          BY <1>1, <3>1, <4>1, <5>1 DEF CopyOK, SidOK
        <5>. QED
          BY <1>17, <2>1, <3>1, <5>2, RelayAssumption DEF Record
      <4>. QED
        BY <4>1
    <3>. QED
      BY <1>17, <2>1, <3>1, <3>2
  <2>. QED
    BY <2>2, <2>3
<1>20. Found'
  <2> SUFFICES ASSUME NEW s \in Sessions \ clobbered',
                      code'[s] # None \/ (\E g \in Handlers : Creates(g, s)'),
                      stored'[s] = None
               PROVE  s \in expired' \cup canceled'
    BY DEF Found
  <2>1. CASE x.pc = "write" /\ s = x.sid
    <3>1. x.op = "cancel"
      BY <1>1, <1>17, <2>1, RelayAssumption DEF CopyOK, Record
    <3>. QED
      BY <1>4, <2>1, <3>1
  <2>2. CASE ~(x.pc = "write" /\ s = x.sid)
    <3>1. code[s] # None \/ (\E g \in Handlers : Creates(g, s))
      BY <1>2, <1>7, <1>11, <1>12, <2>2 DEF Creates
    <3>2. s \in expired \/ stored[s] = None
      BY <1>17, <2>2
    <3>3. stored[s] # None \/ s \in expired \cup canceled
      BY <1>17, <3>1 DEF IInv, Found
    <3>. QED
      BY <1>4, <1>12, <3>2, <3>3
  <2>. QED
    BY <2>1, <2>2
<1>21. SavedAsOwn'
  BY <1>12 DEF IInv, SavedAsOwn
<1>. QED
  BY <1>13, <1>14, <1>15, <1>16, <1>18, <1>19, <1>20, <1>21 DEF IInv

LEMMA WriteLatestInv ==
    ASSUME IInv, NEW h \in Handlers, WriteLatest(h)
    PROVE  IInv'
<1> DEFINE x == handler[h]
<1>1. /\ x \in Handler /\ SidOK(x, code) /\ CopyOK(x, expired)
      /\ x.pc \in {"clean_latest", "write_latest"} /\ handler \in [Handlers -> Handler]
      /\ x.last \in Sessions \cup {None}
  BY DEF IInv, TypeOK, HandlersOK, WriteLatest, At, Handler
<1>2. latest' = x.last
      /\ UNCHANGED <<stored, expired, active, older, saved, served, crashes, history>>
  BY DEF WriteLatest
<1>3. CASE x.pc = "write_latest" /\ x.op = "start"
  <2>1. handler' = [handler EXCEPT ![h] = Idle] /\ code' = [code EXCEPT ![x.sid] = "issued"]
    BY <1>3 DEF WriteLatest, At, Finish
  <2>2. x.sid \in Sessions /\ code[x.sid] = None /\ (x.last # None => code'[x.last] # None)
    BY <1>1, <1>3, <2>1, RelayAssumption DEF SidOK, IInv, TypeOK, Codes
  <2>3. handler' \in [Handlers -> Handler] /\ handler'[h] = Idle
        /\ \A g \in Handlers \ {h} : handler'[g] = handler[g]
    BY <1>1, <2>1, IdleRow
  <2>4. code' \in [Sessions -> Codes \cup {None}] /\ code'[x.sid] # None
        /\ \A s \in Sessions \ {x.sid} : code'[s] = code[s]
    BY <2>1, <2>2, RelayAssumption DEF IInv, TypeOK, Codes
  <2>5. TypeOK'
    BY <1>1, <1>2, <2>3, <2>4 DEF IInv, TypeOK, history
  <2>6. HandlersOK'
    <3>1. ASSUME NEW g \in Handlers \ {h}
          PROVE  CopyOK(handler[g], expired) /\ SidOK(handler[g], code')
                 /\ OwnOK(handler[g], active, crossed)
      <4>1. CopyOK(handler[g], expired) /\ SidOK(handler[g], code)
            /\ OwnOK(handler[g], active, crossed) /\ handler[g] \in Handler
        BY <1>1 DEF IInv, HandlersOK
      <4>2. handler[g].op = "start" => handler[g].sid # x.sid
        BY <1>3 DEF IInv, OneStarts
      <4>. QED
        BY <2>4, <4>1, <4>2 DEF SidOK, Handler
    <3>. QED
      BY <1>2, <2>3, <3>1, IdleRow DEF HandlersOK, history
  <2>7. OneStarts'
    BY <2>3, IdleRow DEF IInv, OneStarts
  <2>8. Started'
    BY <1>2, <2>2, <2>4 DEF IInv, Started, history
  <2>9. Found'
    <3>1. Creates(h, x.sid)
      BY <1>3 DEF Creates
    <3>2. ASSUME NEW g \in Handlers, NEW s, Creates(g, s)' PROVE Creates(g, s)
      BY <2>3, <3>2, IdleRow DEF Creates
    <3>3. ASSUME NEW s \in Sessions, code'[s] # None PROVE code[s] # None \/ s = x.sid
      BY <2>4, <3>3
    <3>. QED
      BY <1>2, <3>1, <3>2, <3>3 DEF IInv, Found, history
  <2>10. Once' /\ CancelIsFinal' /\ SavedAsOwn'
    BY <1>2 DEF IInv, Once, CancelIsFinal, SavedAsOwn, history
  <2>. QED
    BY <2>5, <2>6, <2>7, <2>8, <2>9, <2>10 DEF IInv
<1>4. CASE ~(x.pc = "write_latest" /\ x.op = "start")
  <2> DEFINE next == IF x.pc = "clean_latest" THEN "apply" ELSE "exchange"
             y == [x EXCEPT !.pc = next]
  <2>1. UNCHANGED code
    BY <1>1, <1>4 DEF WriteLatest, At
  <2>2. x.last # None => code[x.last] # None
    BY <1>1, <1>4 DEF SidOK
  <2>3. \/ handler' = [handler EXCEPT ![h] = Idle]
        \/ /\ handler' = [handler EXCEPT ![h] = y]
           /\ next = "exchange" => x.op = "mark"
    <3>1. Goto(h, "apply") => handler' = [handler EXCEPT ![h] = [x EXCEPT !.pc = "apply"]]
      BY <1>1 DEF Goto
    <3>2. Goto(h, "exchange") => handler' = [handler EXCEPT ![h] = [x EXCEPT !.pc = "exchange"]]
      BY <1>1 DEF Goto
    <3>. QED
      BY <1>1, <1>4, <3>1, <3>2 DEF WriteLatest, At, Finish
  <2>4. y \in Handler /\ y.pc = next /\ next \in {"apply", "exchange"}
        /\ y.op = x.op /\ y.sid = x.sid /\ y.base = x.base /\ y.view = x.view /\ y.last = x.last
    <3>1. next \in {"apply", "exchange"} /\ next \in Steps
      BY DEF Steps
    <3> HIDE DEF next
    <3>. QED
      BY <1>1, <3>1, GotoRow
  <2> HIDE DEF next, y
  <2>5. CopyOK(y, expired) /\ OwnOK(y, active, crossed)
    BY <1>1, <2>4 DEF CopyOK, OwnOK
  <2>6. (next = "exchange" => x.op = "mark") => SidOK(y, code)
    BY <1>1, <2>2, <2>4 DEF SidOK
  <2>7. PICK row : /\ row \in Handler /\ handler' = [handler EXCEPT ![h] = row]
                   /\ CopyOK(row, expired) /\ SidOK(row, code) /\ OwnOK(row, active, crossed)
                   /\ row.op = "start" => row.op = x.op /\ row.sid = x.sid
                   /\ row.pc # "write_latest" \/ row = Idle
    BY <2>3, <2>4, <2>5, <2>6, IdleRow
  <2>8. handler' \in [Handlers -> Handler] /\ handler'[h] = row
        /\ \A g \in Handlers \ {h} : handler'[g] = handler[g]
    BY <1>1, <2>7
  <2>9. TypeOK'
    BY <1>1, <1>2, <2>1, <2>8 DEF IInv, TypeOK, history
  <2>10. Moves(h)
    BY <1>2, <2>1, <2>2, <2>7, <2>8, IdleRow DEF Moves, history
  <2>. QED
    BY <1>2, <2>9, <2>10, MovesInv DEF history
<1>. QED
  BY <1>3, <1>4

-----------------------------------------------------------------------------
(* The exchange of the code and what follows                                 *)

LEMMA ExchangeInv ==
    ASSUME IInv, NEW h \in Handlers, ExchangeGranted(h) \/ ExchangeFails(h)
    PROVE  IInv'
<1> DEFINE x == handler[h]
<1>1. /\ x \in Handler /\ SidOK(x, code) /\ x.pc = "exchange"
      /\ handler \in [Handlers -> Handler] /\ code \in [Sessions -> Codes \cup {None}]
  BY DEF IInv, TypeOK, HandlersOK, ExchangeGranted, ExchangeFails, At
<1>2. x.op = "mark" /\ x.sid \in Sessions /\ code[x.sid] # None
  BY <1>1 DEF SidOK
<1>3. code' = code \/ code' = [code EXCEPT ![x.sid] = "spent"]
  BY DEF ExchangeGranted, ExchangeFails
<1>4. code' \in [Sessions -> Codes \cup {None}]
      /\ \A s \in Sessions : code'[s] = None <=> code[s] = None
  <2>1. CASE code' = code
    BY <1>1, <2>1
  <2>2. CASE code' = [code EXCEPT ![x.sid] = "spent"]
    <3>1. "spent" \in Codes /\ None # "spent"
      BY RelayAssumption DEF Codes
    <3> HIDE DEF x
    <3>. QED
      BY <1>1, <1>2, <2>2, <3>1
  <2>. QED
    BY <1>3, <2>1, <2>2
<1> DEFINE y == [x EXCEPT !.pc = "publish"]
<1>5. y \in Handler /\ y.pc = "publish"
      /\ y.op = x.op /\ y.sid = x.sid /\ y.base = x.base /\ y.view = x.view /\ y.last = x.last
  BY <1>1, GotoRow DEF Steps
<1>6. handler' = [handler EXCEPT ![h] = y] \/ handler' = [handler EXCEPT ![h] = Idle]
  BY <1>1 DEF ExchangeGranted, ExchangeFails, Goto, Finish
<1> HIDE DEF x, y
<1>7. CopyOK(y, expired) /\ SidOK(y, code') /\ OwnOK(y, active, crossed)
  <2>1. y.last \in Sessions \cup {None}
    BY <1>5 DEF Handler
  <2>. QED
    BY <1>1, <1>2, <1>4, <1>5, <2>1 DEF CopyOK, SidOK, OwnOK
<1>8. UNCHANGED <<meta, expired, active, older, saved, served, crashes, history>>
  BY DEF ExchangeGranted, ExchangeFails
<1>9. PICK row \in {y, Idle} : handler' = [handler EXCEPT ![h] = row]
  BY <1>6
<1>10. handler' \in [Handlers -> Handler] /\ handler'[h] = row
       /\ \A g \in Handlers \ {h} : handler'[g] = handler[g]
  BY <1>1, <1>5, <1>9, IdleRow
<1>11. TypeOK'
  BY <1>4, <1>8, <1>10 DEF IInv, TypeOK, meta, history
<1>12. Moves(h)
  <2>1. row.op # "start" /\ CopyOK(row, expired) /\ SidOK(row, code') /\ OwnOK(row, active, crossed)
    BY <1>2, <1>5, <1>7, <1>9, IdleRow
  <2>2. latest' # None => code[latest'] # None
    BY <1>8 DEF IInv, Started, meta
  <2>. QED
    BY <1>4, <1>8, <1>10, <2>1, <2>2 DEF Moves, meta, history
<1>. QED
  BY <1>8, <1>11, <1>12, MovesInv DEF history

\* A worker publishes its tokens while no other handler of its own is between
\* its publication and its read; those of other workers are crossed.
LEMMA PublishInv ==
    ASSUME IInv, NEW h \in Handlers, Publish(h)
    PROVE  IInv'
<1> DEFINE x == handler[h]
           y == [x EXCEPT !.pc = "read_active"]
           mixed == {handler[g].sid : g \in {f \in Handlers :
                        handler[f].worker # x.worker /\ At(f, "read_active")}}
<1>1. x \in Handler /\ SidOK(x, code) /\ x.pc = "publish" /\ handler \in [Handlers -> Handler]
  BY DEF IInv, TypeOK, HandlersOK, Publish, At
<1>2. x.op = "mark" /\ x.sid \in Sessions
  BY <1>1 DEF SidOK
<1>3. y \in Handler /\ y.pc = "read_active"
      /\ y.op = x.op /\ y.sid = x.sid /\ y.base = x.base /\ y.view = x.view /\ y.last = x.last
  BY <1>1, GotoRow DEF Steps
<1>4. /\ handler' = [handler EXCEPT ![h] = y] /\ active' = x.sid /\ crossed' = crossed \cup mixed
      /\ UNCHANGED <<meta, expired, code, older, saved, served, crashes, accepted, canceled, clobbered>>
  BY <1>1 DEF Publish, Goto
<1>5. handler' \in [Handlers -> Handler] /\ handler'[h] = y
      /\ \A g \in Handlers \ {h} : handler'[g] = handler[g]
  BY <1>1, <1>3, <1>4
<1>6. ASSUME NEW g \in Handlers, handler[g].pc = "read_active"
      PROVE  handler[g].sid \in mixed /\ handler[g].sid \in Sessions
  <2>1. handler[g].worker # x.worker
    BY <1>6 DEF Publish, Free
  <2>2. SidOK(handler[g], code)
    BY DEF IInv, HandlersOK
  <2>. QED
    BY <1>6, <2>1, <2>2 DEF At, SidOK
<1>7. mixed \subseteq Sessions
  BY <1>6 DEF At
<1> HIDE DEF x, y, mixed
<1>8. TypeOK'
  BY <1>2, <1>4, <1>5, <1>7 DEF IInv, TypeOK, meta
<1>9. HandlersOK'
  <2>1. ASSUME NEW g \in Handlers \ {h}
        PROVE  CopyOK(handler[g], expired) /\ SidOK(handler[g], code)
               /\ OwnOK(handler[g], active', crossed')
    BY <1>2, <1>4, <1>6 DEF IInv, HandlersOK, OwnOK
  <2>2. CopyOK(y, expired) /\ SidOK(y, code) /\ OwnOK(y, active', crossed')
    BY <1>1, <1>2, <1>3, <1>4 DEF CopyOK, SidOK, OwnOK
  <2>. QED
    BY <1>4, <1>5, <2>1, <2>2 DEF HandlersOK
<1>10. OneStarts'
  BY <1>2, <1>3, <1>5 DEF IInv, OneStarts
<1>11. Found'
  <2>1. ASSUME NEW g \in Handlers, NEW s, Creates(g, s)' PROVE Creates(g, s)
    BY <1>3, <1>5, <2>1 DEF Creates
  <2>. QED
    BY <1>4, <2>1 DEF IInv, Found, meta
<1>12. Started' /\ Once' /\ CancelIsFinal' /\ SavedAsOwn'
  BY <1>4 DEF IInv, Started, Once, CancelIsFinal, SavedAsOwn, meta
<1>. QED
  BY <1>8, <1>9, <1>10, <1>11, <1>12 DEF IInv

LEMMA ReadActiveInv ==
    ASSUME IInv, NEW h \in Handlers, ReadActive(h)
    PROVE  IInv'
<1> DEFINE x == handler[h]
           y == [x EXCEPT !.pc = "persist", !.got = active]
<1>1. /\ x \in Handler /\ SidOK(x, code) /\ OwnOK(x, active, crossed) /\ x.pc = "read_active"
      /\ active \in Sessions \cup {0}
  BY DEF IInv, TypeOK, HandlersOK, ReadActive, At
<1>2. y \in Handler /\ y.pc = "persist" /\ y.got = active
      /\ y.op = x.op /\ y.sid = x.sid /\ y.base = x.base /\ y.view = x.view /\ y.last = x.last
  BY <1>1 DEF Handler, Steps
<1>3. handler' = [handler EXCEPT ![h] = y]
  BY DEF ReadActive, IInv, TypeOK
<1> HIDE DEF x, y
<1>4. CopyOK(y, expired) /\ SidOK(y, code) /\ OwnOK(y, active, crossed) /\ y.op # "start"
  BY <1>1, <1>2 DEF CopyOK, SidOK, OwnOK
<1>. QED
  BY <1>2, <1>3, <1>4, RowInv DEF ReadActive

LEMMA PersistInv ==
    ASSUME IInv, NEW h \in Handlers, Persist(h)
    PROVE  IInv'
<1> DEFINE x == handler[h]
<1>1. /\ SidOK(x, code) /\ OwnOK(x, active, crossed) /\ x.pc = "persist"
      /\ handler' = [handler EXCEPT ![h] = Idle]
      /\ saved' \subseteq saved \cup {[sid |-> x.sid, auth |-> x.got]}
      /\ UNCHANGED <<meta, expired, code, active, older, served, crashes, history>>
  BY DEF IInv, TypeOK, HandlersOK, Persist, At, Finish
<1>2. x.sid \in Sessions /\ x.got \in Sessions /\ (x.got = x.sid \/ x.sid \in crossed)
  BY <1>1 DEF SidOK, OwnOK
<1>3. handler' \in [Handlers -> Handler] /\ handler'[h] = Idle
      /\ \A g \in Handlers \ {h} : handler'[g] = handler[g]
  BY <1>1, IdleRow DEF IInv, TypeOK
<1> HIDE DEF x
<1>4. TypeOK'
  BY <1>1, <1>2, <1>3 DEF IInv, TypeOK, meta, history
<1>5. Moves(h)
  BY <1>1, <1>3, IdleRow DEF Moves, IInv, Started, meta, history
<1>6. SavedAsOwn'
  BY <1>1, <1>2 DEF IInv, SavedAsOwn, history
<1>. QED
  BY <1>1, <1>4, <1>5, <1>6, MovesKeeps DEF IInv, TypeOK, history

-----------------------------------------------------------------------------
(* Time and crashes                                                          *)

LEMMA ExpireInv ==
    ASSUME IInv, Expire
    PROVE  IInv'
<1>1. expired \subseteq expired' /\ expired' \subseteq Sessions
      /\ UNCHANGED <<meta, code, active, older, saved, handler, served, crashes, history>>
  BY DEF Expire, IInv, TypeOK
<1>2. TypeOK'
  BY <1>1 DEF IInv, TypeOK, meta, history
<1>3. HandlersOK'
  <2>1. ASSUME NEW h \in Handlers PROVE CopyOK(handler[h], expired')
    BY <1>1 DEF IInv, HandlersOK, CopyOK
  <2>. QED
    BY <1>1, <2>1 DEF IInv, HandlersOK, history
<1>4. OneStarts' /\ Started' /\ Once' /\ CancelIsFinal' /\ SavedAsOwn'
  BY <1>1 DEF IInv, OneStarts, Started, Once, CancelIsFinal, SavedAsOwn, meta, history
<1>5. Found'
  BY <1>1 DEF IInv, Found, Creates, meta, history
<1>. QED
  BY <1>2, <1>3, <1>4, <1>5 DEF IInv

LEMMA CrashInv ==
    ASSUME IInv, NEW w \in Workers, Crash(w)
    PROVE  IInv'
<1>1. /\ handler' = [h \in Handlers |-> IF handler[h].worker = w THEN Idle ELSE handler[h]]
      /\ UNCHANGED <<meta, expired, code, active, older, saved, served, history>>
  BY DEF Crash
<1>2. \A h \in Handlers : handler'[h] = Idle \/ handler'[h] = handler[h]
  BY <1>1
<1>3. TypeOK'
  <2>1. handler' \in [Handlers -> Handler]
    BY <1>1, IdleRow DEF IInv, TypeOK
  <2>2. crashes' \in 0..MaxCrash
    BY RelayAssumption DEF Crash, IInv, TypeOK
  <2>. QED
    BY <1>1, <2>1, <2>2 DEF IInv, TypeOK, meta, history
<1>4. HandlersOK'
  BY <1>1, <1>2, IdleRow DEF IInv, HandlersOK, history
<1>5. OneStarts'
  BY <1>2, IdleRow DEF IInv, OneStarts
<1>6. Found'
  <2>1. ASSUME NEW g \in Handlers, NEW s, Creates(g, s)' PROVE Creates(g, s)
    BY <1>2, <2>1, IdleRow DEF Creates
  <2>. QED
    BY <1>1, <2>1 DEF IInv, Found, meta, history
<1>7. Started' /\ Once' /\ CancelIsFinal' /\ SavedAsOwn'
  BY <1>1 DEF IInv, Started, Once, CancelIsFinal, SavedAsOwn, meta, history
<1>. QED
  BY <1>3, <1>4, <1>5, <1>6, <1>7 DEF IInv

-----------------------------------------------------------------------------
(* The theorems                                                              *)

LEMMA NextInv ==
    ASSUME IInv, [Next]_vars
    PROVE  IInv'
<1>1. ASSUME NEW h \in Handlers, Step(h) PROVE IInv'
  <2>1. CASE RelayCallback(h)
    BY <2>1, RelayAssumption, ServeInv DEF RelayCallback
  <2>2. CASE CancelLogin(h)
    BY <2>2, ServeInv DEF CancelLogin
  <2>3. CASE LoginStatus(h)
    BY <2>3, ServeInv DEF LoginStatus
  <2>. QED
    BY <1>1, <2>1, <2>2, <2>3, StartInv, LoadInv, LoadLatestInv, WriteSessionsInv,
       WriteLatestInv, ApplyInv, ExchangeInv, PublishInv, ReadActiveInv, PersistInv DEF Step
<1>2. CASE UNCHANGED vars
  <2>1. UNCHANGED <<stored, latest, expired, code, active, older, saved, handler, served, crashes,
                    accepted, canceled, clobbered, crossed>>
    BY <1>2 DEF vars
  <2>2. TypeOK' /\ Started' /\ Once' /\ CancelIsFinal' /\ SavedAsOwn' /\ OneStarts'
    BY <2>1 DEF IInv, TypeOK, Started, Once, CancelIsFinal, SavedAsOwn, OneStarts
  <2>3. HandlersOK' /\ Found'
    BY <2>1 DEF IInv, HandlersOK, Found, Creates
  <2>. QED
    BY <2>2, <2>3 DEF IInv
<1>. QED
  BY <1>1, <1>2, ExpireInv, CrashInv DEF Next

LEMMA Invariant == Spec => []IInv
BY InitHolds, NextInv, PTL DEF Spec

\* The sessions, and every request's copy of them, stay well formed.
THEOREM SessionsTyped == Spec => []TypeOK
<1>1. IInv => TypeOK
  BY DEF IInv
<1>. QED
  BY <1>1, Invariant, PTL

\* However many workers and relays there are, a session takes one callback
\* unless a write of an older copy touched its record.
THEOREM OneCallback == Spec => []RelayedOnce
<1>1. IInv => RelayedOnce
  BY IInvImplies
<1>. QED
  BY <1>1, Invariant, PTL

\* Nor does such a session come back once it was canceled ...
THEOREM CanceledForGood == Spec => []CancelIsFinal
<1>1. IInv => CancelIsFinal
  BY IInvImplies
<1>. QED
  BY <1>1, Invariant, PTL

\* ... or get lost before it expires or is canceled.
THEOREM SessionsFound == Spec => []SessionNotLost
<1>1. IInv => SessionNotLost
  BY IInvImplies
<1>. QED
  BY <1>1, Invariant, PTL

\* Relays of one worker never save each other's tokens.
THEOREM OwnTokensSaved == Spec => []SavedAsOwn
<1>1. IInv => SavedAsOwn
  BY IInvImplies
<1>. QED
  BY <1>1, Invariant, PTL

=============================================================================
