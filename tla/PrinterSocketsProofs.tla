------------------------ MODULE PrinterSocketsProofs ------------------------
(***************************************************************************)
(* What holds of PrinterSockets for any number of printers, adapters and   *)
(* connections.  First what each synchronous stretch of the adapter does   *)
(* to a record, then one proof per property.                               *)
(***************************************************************************)
EXTENDS PrinterSockets, TLAPS

\* Counting a connection in or out keeps the counts natural numbers.
LEMMA CountsTyped ==
  ASSUME NEW d \in [WsState -> Nat], NEW s \in WsState
  PROVE  /\ More(d, s) \in [WsState -> Nat]
         /\ d[s] > 0 => Fewer(d, s) \in [WsState -> Nat]
BY DEF More, Fewer

\* Every method and ws handler of the adapter keeps its fields in their types.
LEMMA MethodsTyped ==
  ASSUME NEW r \in AdapterRecord
  PROVE  /\ ResetSocketState(r) \in AdapterRecord
         /\ DisallowEmittingEvents(r) \in AdapterRecord
         /\ DropReference(r) \in AdapterRecord
         /\ OnClose(r) \in AdapterRecord
         /\ Close(r) \in AdapterRecord
         /\ Open(r) \in AdapterRecord
         /\ Abort(r) \in AdapterRecord
         /\ LoginAccepted(r) \in AdapterRecord
         /\ SendAuth(r) \in AdapterRecord
         /\ OnError(r) \in AdapterRecord
<1>1. ResetSocketState(r) \in AdapterRecord
  BY DEF ResetSocketState, AdapterRecord, SocketState, ApiState
<1>2. DisallowEmittingEvents(r) \in AdapterRecord
  BY DEF DisallowEmittingEvents, AdapterRecord
<1>3. DropReference(r) \in AdapterRecord
  BY CountsTyped DEF DropReference, AdapterRecord
<1>4. OnClose(r) \in AdapterRecord
  BY <1>3 DEF OnClose, AdapterRecord, SocketState
<1>5. Close(r) \in AdapterRecord
  BY CountsTyped DEF Close, AdapterRecord, WsState
<1>6. Open(r) \in AdapterRecord
  BY DEF Open, AdapterRecord, WsState
<1>7. Abort(r) \in AdapterRecord
  BY DEF Abort, AdapterRecord, SocketState, ApiState
<1>8. LoginAccepted(r) \in AdapterRecord
  BY DEF LoginAccepted, AdapterRecord, SocketState, ApiState
<1>9. SendAuth(r) \in AdapterRecord /\ OnError(r) \in AdapterRecord
  BY DEF SendAuth, OnError, AdapterRecord, SocketState
<1> QED BY <1>1, <1>2, <1>3, <1>4, <1>5, <1>6, <1>7, <1>8, <1>9

\* close() as its callers use it.  What they have in common: no connection is
\* added, and one that is not at its end is still counted.
LEMMA CloseAndResetEffect ==
  ASSUME NEW r \in AdapterRecord
  PROVE  LET c == CloseAndReset(r)
         IN  /\ c \in AdapterRecord
             /\ c.socketState \in {"unopened", "closed"}
             /\ c.eventEmittingAllowed = r.eventEmittingAllowed
             /\ WsCount(c) <= WsCount(r)
<1> DEFINE c == Close(r)
           d == ResetSocketState(c)
<1>1. c \in AdapterRecord /\ d \in AdapterRecord /\ OnClose(d) \in AdapterRecord
  BY MethodsTyped
<1>2. /\ c.eventEmittingAllowed = r.eventEmittingAllowed
      /\ c.socket = "none"
      /\ WsCount(c) <= WsCount(r)
  BY DEF Close, WsCount, More, AdapterRecord, WsState
<1>3. /\ d.socketState = "unopened" /\ d.socket = "none"
      /\ d.eventEmittingAllowed = r.eventEmittingAllowed
      /\ WsCount(d) = WsCount(c)
  BY <1>1, <1>2 DEF ResetSocketState, WsCount, AdapterRecord
<1>4. /\ OnClose(d).socketState = "closed"
      /\ OnClose(d).eventEmittingAllowed = r.eventEmittingAllowed
      /\ WsCount(OnClose(d)) = WsCount(c)
  BY <1>1, <1>3 DEF OnClose, DropReference, WsCount, AdapterRecord
<1>5. CloseAndReset(r) = d \/ CloseAndReset(r) = OnClose(d)
  BY DEF CloseAndReset, AbortEvents
<1> HIDE DEF c, d
<1> QED BY <1>1, <1>2, <1>3, <1>4, <1>5

LEMMA RetireEffect ==
  ASSUME NEW r \in AdapterRecord
  PROVE  LET c == Retire(r)
         IN  /\ c \in AdapterRecord
             /\ ~c.eventEmittingAllowed
             /\ \/ c.socketState = "closed"
                \/ /\ c.socketState = r.socketState
                   /\ HasLiveWs(r) => HasLiveWs(c)
<1> DEFINE m == DisallowEmittingEvents(r)
           c == Close(m)
<1>1. m \in AdapterRecord /\ c \in AdapterRecord /\ OnClose(c) \in AdapterRecord
  BY MethodsTyped
<1>2. ~m.eventEmittingAllowed /\ m.socketState = r.socketState
      /\ m.socket = r.socket /\ m.detached = r.detached
  BY DEF DisallowEmittingEvents, AdapterRecord
<1>3. ~c.eventEmittingAllowed /\ c.socketState = m.socketState /\ c.socket = "none"
  BY <1>1, <1>2 DEF Close, AdapterRecord
<1>4. r.socket # "connecting" /\ HasLiveWs(r) => HasLiveWs(c)
  BY <1>1, <1>2 DEF Close, HasLiveWs, More, AdapterRecord, WsState
<1>5. ~OnClose(c).eventEmittingAllowed /\ OnClose(c).socketState = "closed"
  BY <1>1, <1>3 DEF OnClose, DropReference, AdapterRecord
<1>6. Retire(r) = (IF r.socket = "connecting" THEN OnClose(c) ELSE c)
  BY DEF Retire, AbortEvents
<1> HIDE DEF m, c
<1> QED BY <1>1, <1>2, <1>3, <1>4, <1>5, <1>6

\* A ws object changes its state, or is gone, only where there is one.
LEMMA WsEffect ==
  ASSUME NEW r \in AdapterRecord, NEW from \in Holder,
         NEW s \in WsState, NEW t \in WsState, HasWs(r, from, s)
  PROVE  LET m == MoveWs(r, from, s, t)
             k == TakeWs(r, from, s)
         IN  /\ HasLiveWs(r)
             /\ m \in AdapterRecord /\ HasLiveWs(m) /\ WsCount(m) <= WsCount(r)
             /\ k \in AdapterRecord /\ WsCount(k) <= WsCount(r)
             /\ m.socketState = r.socketState
             /\ m.eventEmittingAllowed = r.eventEmittingAllowed
             /\ k.eventEmittingAllowed = r.eventEmittingAllowed
<1>1. CASE from = "attached"
  BY <1>1 DEF HasWs, MoveWs, TakeWs, HasLiveWs, WsCount, AdapterRecord, WsState
<1>2. CASE from = "detached"
  <2> DEFINE f == Fewer(r.detached, s)
             g == More(f, t)
  <2>1. r.detached \in [WsState -> Nat] /\ r.detached[s] > 0
    BY <1>2 DEF HasWs, AdapterRecord
  <2>2. f \in [WsState -> Nat] /\ g \in [WsState -> Nat]
    BY <2>1, CountsTyped
  <2>3. /\ f["connecting"] + f["open"] + f["closing"]
             < r.detached["connecting"] + r.detached["open"] + r.detached["closing"]
        /\ g["connecting"] + g["open"] + g["closing"]
             = r.detached["connecting"] + r.detached["open"] + r.detached["closing"]
    BY <2>1 DEF Fewer, More, WsState
  <2>4. g[t] > 0
    BY <2>1, <2>2 DEF More
  <2>5. /\ MoveWs(r, from, s, t) = [r EXCEPT !.detached = g]
        /\ TakeWs(r, from, s) = [r EXCEPT !.detached = f]
    BY <1>2 DEF MoveWs, TakeWs
  <2> HIDE DEF f, g
  <2> QED BY <2>1, <2>2, <2>3, <2>4, <2>5
          DEF HasLiveWs, WsCount, AdapterRecord, WsState
<1> QED BY <1>1, <1>2 DEF Holder

-----------------------------------------------------------------------------
(* Type correctness. *)

LEMMA UpdateTyped ==
  ASSUME TypeOK, NEW a \in Adapters, NEW r \in AdapterRecord, Update(a, r)
  PROVE  TypeOK'
BY DEF TypeOK, Update

LEMMA AdvanceTyped ==
  ASSUME TypeOK, NEW a \in Adapters, NEW r \in AdapterRecord,
         NEW to \in Sessions, AdvanceSession(a, to, r)
  PROVE  TypeOK'
BY DEF TypeOK, AdvanceSession

\* Where a session goes on is again a session.
LEMMA SessionsTyped ==
  ASSUME TypeOK, NEW a \in Adapters
  PROVE  /\ NoSession \in Sessions
         /\ session[a].step # "idle" =>
              \A step \in SessionStep : GoTo(a, step) \in Sessions
BY DEF TypeOK, Sessions, NoSession, GoTo

LEMMA InitTyped == Init => TypeOK
<1> SUFFICES ASSUME Init PROVE TypeOK
  OBVIOUS
<1>1. NewAdapter \in AdapterRecord
  BY DEF NewAdapter, AdapterRecord, SocketState, ApiState
<1>2. InStore \in SUBSET Adapters
  BY DEF Init, InStore
<1>3. session \in [Adapters -> Sessions]
  BY DEF Init, Sessions
<1>4. restore \in [at : 0..N, list : [Printers -> Adapters \cup {NoAdapter}]]
  BY PrinterSocketsAssumption DEF Init, NotRestoring
<1> QED BY <1>1, <1>2, <1>3, <1>4 DEF Init, TypeOK, ReconnectPhase

LEMMA PrinterEventTyped == TypeOK /\ PrinterEvent => TypeOK'
<1> SUFFICES ASSUME TypeOK, PrinterEvent PROVE TypeOK'
  OBVIOUS
<1>1. ASSUME NEW p \in Printers, CreateSocket(p) PROVE TypeOK'
  BY <1>1 DEF CreateSocket, TypeOK
<1>2. ASSUME NEW p \in Printers, RestartSocket(p) PROVE TypeOK'
  <2>1. adapterOf[p] \in Adapters /\ adapter[adapterOf[p]] \in AdapterRecord
    BY <1>2 DEF TypeOK, RestartSocket
  <2>2. CloseAndReset(adapter[adapterOf[p]]) \in AdapterRecord
    BY <2>1, CloseAndResetEffect
  <2> QED BY <1>2, <2>1, <2>2 DEF RestartSocket, TypeOK
<1>3. ASSUME NEW ids \in SUBSET Printers, DeleteSockets(ids) PROVE TypeOK'
  <2>1. \A a \in Adapters : adapter[a] \in AdapterRecord /\ Retire(adapter[a]) \in AdapterRecord
    BY RetireEffect DEF TypeOK
  <2> QED BY <1>3, <2>1 DEF DeleteSockets, TypeOK
<1> QED BY <1>1, <1>2, <1>3 DEF PrinterEvent

LEMMA BeginSessionsTyped ==
  ASSUME TypeOK, NEW targets, NEW kind \in SessionKind, BeginSessions(targets, kind)
  PROVE  /\ adapter' \in [Adapters -> AdapterRecord]
         /\ session' \in [Adapters -> Sessions]
<1>1. \A a \in Adapters : adapter[a] \in AdapterRecord /\ ResetSocketState(adapter[a]) \in AdapterRecord
  BY MethodsTyped DEF TypeOK
<1>2. [kind |-> kind, step |-> "login"] \in Sessions
  BY DEF Sessions, SessionStep
<1> QED BY <1>1, <1>2 DEF BeginSessions, TypeOK

LEMMA RestoreWalkTyped ==
  ASSUME TypeOK, NEW list \in [Printers -> Adapters \cup {NoAdapter}], NEW from \in 0..N,
         RestoreWalk(list, from)
  PROVE  TypeOK'
<1>1. PICK stop \in (from + 1)..(N + 1) :
        /\ adapter' = [a \in Adapters |->
                         IF a \in RestoreVisits(list, from, stop) /\ IsClosedOrAborted(adapter[a])
                         THEN CloseAndReset(adapter[a]) ELSE adapter[a]]
        /\ restore' = IF stop <= N THEN [at |-> stop, list |-> list] ELSE NotRestoring
        /\ UNCHANGED <<adapterOf, created, session, reconnect>>
  BY DEF RestoreWalk
<1>2. \A a \in Adapters : adapter[a] \in AdapterRecord /\ CloseAndReset(adapter[a]) \in AdapterRecord
  BY CloseAndResetEffect DEF TypeOK
<1>3. adapter' \in [Adapters -> AdapterRecord]
  BY <1>1, <1>2
<1>4. restore' \in [at : 0..N, list : [Printers -> Adapters \cup {NoAdapter}]]
  BY <1>1, PrinterSocketsAssumption DEF NotRestoring
<1> QED BY <1>1, <1>3, <1>4 DEF TypeOK

LEMMA TaskStepTyped == TypeOK /\ TaskStep => TypeOK'
<1> SUFFICES ASSUME TypeOK, TaskStep PROVE TypeOK'
  OBVIOUS
<1>1. CASE StartReconnect
  BY <1>1, BeginSessionsTyped DEF StartReconnect, TypeOK, SessionKind, ReconnectPhase
<1>2. CASE StartOpenPass
  BY <1>2, BeginSessionsTyped DEF StartOpenPass, TypeOK, SessionKind, ReconnectPhase
<1>3. CASE FinishReconnect
  BY <1>3 DEF FinishReconnect, TypeOK, ReconnectPhase
<1>4. CASE StartRestore
  BY <1>4, RestoreWalkTyped, PrinterSocketsAssumption DEF StartRestore, TypeOK
<1>5. CASE RestoreAnswered
  BY <1>5, RestoreWalkTyped DEF RestoreAnswered, TypeOK
<1>6. CASE RestoreRejected
  BY <1>6, PrinterSocketsAssumption DEF RestoreRejected, NotRestoring, TypeOK
<1> QED BY <1>1, <1>2, <1>3, <1>4, <1>5, <1>6 DEF TaskStep

LEMMA SessionReadyTyped ==
  ASSUME NEW r \in AdapterRecord, NEW api \in CurrentAnswers(r)
  PROVE  /\ SessionReady(r, api) \in AdapterRecord
         /\ SessionReady(r, api).eventEmittingAllowed = r.eventEmittingAllowed
         /\ WsCount(SessionReady(r, api)) = WsCount(r)
BY DEF SessionReady, CurrentAnswers, AdapterRecord, ApiState, WsCount

\* WorkingStateHasWs, strengthened so that each step keeps it: "opening" is excused
\* only while the session that will open the socket is in progress.
Sound(r, s) ==
  /\ r.socketState \in {"opened", "authenticated", "error"} => HasLiveWs(r)
  /\ r.socketState = "opening" /\ s.step \notin {"user", "current"} => HasLiveWs(r)

\* A step of a session changes its own adapter: the bus permission stays, and the
\* strengthened invariant is handed on, whichever answer came in.
LEMMA SessionStepEffect ==
  ASSUME TypeOK, NEW a \in Adapters, SessionStepOf(a)
  PROVE  /\ ~Idle(a)
         /\ \E r \in AdapterRecord, to \in Sessions :
              /\ AdvanceSession(a, to, r)
              /\ r.eventEmittingAllowed = adapter[a].eventEmittingAllowed
              /\ Sound(adapter[a], session[a]) => Sound(r, to)
<1> DEFINE r == adapter[a]
           Goal(q, to) ==
             /\ q \in AdapterRecord /\ to \in Sessions
             /\ AdvanceSession(a, to, q)
             /\ q.eventEmittingAllowed = r.eventEmittingAllowed
             /\ Sound(r, session[a]) => Sound(q, to)
<1> SUFFICES ~Idle(a) /\ \E q, to : Goal(q, to)
  OBVIOUS
<1>1. r \in AdapterRecord /\ session[a] \in Sessions
  BY DEF TypeOK
<1>2. ~Idle(a)
  BY DEF SessionStepOf, LoginSucceeds, LoginFails, UserSucceeds, UserFails, SetupEnds,
         ReauthSends, ReauthEnds, At, Idle, NoSession
<1>3. NoSession.step = "idle" /\ NoSession \in Sessions
  BY SessionsTyped DEF NoSession
<1>4. \A step \in SessionStep : ~Idle(a) => GoTo(a, step) \in Sessions /\ GoTo(a, step).step = step
  BY <1>1, SessionsTyped DEF GoTo, Sessions, NoSession, Idle, SessionStep
<1>5. CASE LoginSucceeds(a)
  <2>1. Goal(LoginAccepted(r), GoTo(a, "user"))
    BY <1>1, <1>2, <1>4, <1>5, MethodsTyped
       DEF LoginSucceeds, LoginAccepted, Sound, AdapterRecord, SessionStep
  <2> QED BY <1>2, <2>1
<1>6. CASE LoginFails(a) \/ UserFails(a)
  <2>1. Goal(Abort(r), NoSession)
    BY <1>1, <1>3, <1>6, MethodsTyped DEF LoginFails, UserFails, Abort, Sound, AdapterRecord
  <2> QED BY <1>2, <2>1
<1>7. CASE UserSucceeds(a)
  <2>1. Goal(r, GoTo(a, "current"))
    BY <1>1, <1>2, <1>4, <1>7 DEF UserSucceeds, Sound, SessionStep
  <2> QED BY <1>2, <2>1
<1>8. CASE SetupEnds(a)
  <2>1. PICK api \in CurrentAnswers(r) : AdvanceSession(a, NoSession, Open(SessionReady(r, api)))
    BY <1>8 DEF SetupEnds
  <2> DEFINE q == SessionReady(r, api)
  <2>2. q \in AdapterRecord /\ Open(q) \in AdapterRecord
    BY <1>1, SessionReadyTyped, MethodsTyped
  <2>3. q.eventEmittingAllowed = r.eventEmittingAllowed
    BY <1>1, SessionReadyTyped
  <2>4. Open(q).eventEmittingAllowed = q.eventEmittingAllowed /\ HasLiveWs(Open(q))
    BY <2>2 DEF Open, HasLiveWs, AdapterRecord
  <2>5. Goal(Open(q), NoSession)
    BY <1>3, <2>1, <2>2, <2>3, <2>4 DEF Sound
  <2> QED BY <1>2, <2>5
<1>9. CASE ReauthSends(a)
  <2>1. PICK api \in CurrentAnswers(r) :
          LET q == SendAuth(SessionReady(r, api))
          IN  IF q.socket = "open"
              THEN AdvanceSession(a, GoTo(a, "sent"), q)
              ELSE AdvanceSession(a, NoSession, [q EXCEPT !.reauthRequired = FALSE])
    BY <1>9 DEF ReauthSends
  <2> DEFINE q == SendAuth(SessionReady(r, api))
             q0 == [q EXCEPT !.reauthRequired = FALSE]
  <2>2. /\ SessionReady(r, api) \in AdapterRecord
        /\ SessionReady(r, api).eventEmittingAllowed = r.eventEmittingAllowed
    BY <1>1, SessionReadyTyped
  <2>3. /\ q \in AdapterRecord /\ q.socketState = "authenticating"
        /\ q.eventEmittingAllowed = r.eventEmittingAllowed
    BY <2>2, MethodsTyped DEF SendAuth, AdapterRecord
  <2>4. /\ q0 \in AdapterRecord /\ q0.socketState = "authenticating"
        /\ q0.eventEmittingAllowed = r.eventEmittingAllowed
    BY <2>3 DEF AdapterRecord
  <2>5. GoTo(a, "sent") \in Sessions
    BY <1>2, <1>4 DEF SessionStep
  <2> HIDE DEF q
  <2>6. Goal(q, GoTo(a, "sent")) \/ Goal(q0, NoSession)
    BY <1>3, <2>1, <2>3, <2>4, <2>5 DEF Sound, q
  <2> QED BY <1>2, <2>6
<1>10. CASE ReauthEnds(a)
  <2>1. PICK sent \in BOOLEAN :
          AdvanceSession(a, NoSession, [r EXCEPT !.reauthRequired = @ /\ ~sent])
    BY <1>10 DEF ReauthEnds
  <2> DEFINE q == [r EXCEPT !.reauthRequired = r.reauthRequired /\ ~sent]
  <2>2. /\ q \in AdapterRecord /\ q.socketState = r.socketState
        /\ q.socket = r.socket /\ q.detached = r.detached
        /\ q.eventEmittingAllowed = r.eventEmittingAllowed
    BY <1>1 DEF AdapterRecord
  <2>3. session[a].step = "sent"
    BY <1>10 DEF ReauthEnds, At
  <2>4. Goal(q, NoSession)
    BY <1>3, <2>1, <2>2, <2>3 DEF Sound, HasLiveWs
  <2> QED BY <1>2, <2>4
<1> QED BY <1>5, <1>6, <1>7, <1>8, <1>9, <1>10 DEF SessionStepOf

\* So does an event of a ws object or a poll answer, and it adds no connection.
LEMMA EventEffect ==
  ASSUME TypeOK, NEW a \in Adapters,
         WsEvent(a) \/ PeerDisturbs(a) \/ PollStarts(a) \/ PollAnswered(a)
  PROVE  \E r \in AdapterRecord :
           /\ Update(a, r)
           /\ r.eventEmittingAllowed = adapter[a].eventEmittingAllowed
           /\ Sound(adapter[a], session[a]) => Sound(r, session[a])
           /\ WsCount(r) <= WsCount(adapter[a])
<1> DEFINE r == adapter[a]
           Goal(q) ==
             /\ q \in AdapterRecord
             /\ Update(a, q)
             /\ q.eventEmittingAllowed = r.eventEmittingAllowed
             /\ Sound(r, session[a]) => Sound(q, session[a])
             /\ WsCount(q) <= WsCount(r)
<1> SUFFICES \E q : Goal(q)
  OBVIOUS
<1>1. r \in AdapterRecord
  BY DEF TypeOK
<1>2. WsCount(r) \in Nat
  BY <1>1 DEF WsCount, AdapterRecord, WsState
<1>3. {"connecting", "open", "closing"} = WsState
  BY DEF WsState
<1>4. ASSUME NEW from \in Holder, WsOpens(a, from) PROVE \E q : Goal(q)
  <2> DEFINE m == MoveWs(r, from, "connecting", "open")
  <2>1. HasWs(r, from, "connecting") /\ Update(a, OnOpen(m))
    BY <1>4 DEF WsOpens
  <2>2. /\ m \in AdapterRecord /\ WsCount(m) <= WsCount(r)
        /\ m.eventEmittingAllowed = r.eventEmittingAllowed
    BY <1>1, <1>3, <2>1, WsEffect
  <2> HIDE DEF m
  <2>3. /\ OnOpen(m) \in AdapterRecord /\ OnOpen(m).socketState = "authenticating"
        /\ OnOpen(m).eventEmittingAllowed = m.eventEmittingAllowed
        /\ WsCount(OnOpen(m)) = WsCount(m)
    BY <2>2, MethodsTyped DEF OnOpen, SendAuth, AdapterRecord, WsCount
  <2>4. Goal(OnOpen(m))
    BY <2>1, <2>2, <2>3 DEF Sound
  <2> QED BY <2>4
<1>5. ASSUME NEW from \in Holder, WsFails(a, from) \/ WsCloses(a, from) PROVE \E q : Goal(q)
  <2>1. PICK s \in WsState : /\ HasWs(r, from, s)
                             /\ \/ Update(a, OnClose(OnError(TakeWs(r, from, s))))
                                \/ Update(a, OnClose(TakeWs(r, from, s)))
    BY <1>3, <1>5 DEF WsFails, WsCloses
  <2> DEFINE k == TakeWs(r, from, s)
  <2>2. /\ k \in AdapterRecord /\ WsCount(k) <= WsCount(r)
        /\ k.eventEmittingAllowed = r.eventEmittingAllowed
    BY <1>1, <2>1, WsEffect
  <2> HIDE DEF k
  <2>3. /\ OnError(k) \in AdapterRecord
        /\ OnError(k).eventEmittingAllowed = k.eventEmittingAllowed
        /\ WsCount(OnError(k)) = WsCount(k)
    BY <2>2, MethodsTyped DEF OnError, AdapterRecord, WsCount
  <2>4. \A q \in AdapterRecord :
          /\ OnClose(q) \in AdapterRecord /\ OnClose(q).socketState = "closed"
          /\ OnClose(q).eventEmittingAllowed = q.eventEmittingAllowed
          /\ WsCount(OnClose(q)) = WsCount(q)
    <3> SUFFICES ASSUME NEW q \in AdapterRecord
                 PROVE  /\ OnClose(q) \in AdapterRecord /\ OnClose(q).socketState = "closed"
                        /\ OnClose(q).eventEmittingAllowed = q.eventEmittingAllowed
                        /\ WsCount(OnClose(q)) = WsCount(q)
      OBVIOUS
    <3>1. OnClose(q) \in AdapterRecord
      BY MethodsTyped
    <3> QED BY <3>1 DEF OnClose, DropReference, More, WsCount, AdapterRecord, WsState
  <2>5. Goal(OnClose(OnError(k))) \/ Goal(OnClose(k))
    BY <1>2, <2>1, <2>2, <2>3, <2>4 DEF Sound, k
  <2> QED BY <2>5
<1>6. ASSUME NEW from \in Holder, PeerCloses(a, from) \/ ProtocolError(a, from)
      PROVE \E q : Goal(q)
  <2> DEFINE m == MoveWs(r, from, "open", "closing")
  <2>1. HasWs(r, from, "open") /\ (Update(a, m) \/ Update(a, OnError(m)))
    BY <1>6 DEF PeerCloses, ProtocolError
  <2>2. /\ m \in AdapterRecord /\ WsCount(m) <= WsCount(r) /\ HasLiveWs(m)
        /\ m.eventEmittingAllowed = r.eventEmittingAllowed
    BY <1>1, <1>3, <2>1, WsEffect
  <2> HIDE DEF m
  <2>3. /\ OnError(m) \in AdapterRecord /\ HasLiveWs(OnError(m))
        /\ OnError(m).eventEmittingAllowed = m.eventEmittingAllowed
        /\ WsCount(OnError(m)) = WsCount(m)
    BY <2>2, MethodsTyped DEF OnError, AdapterRecord, WsCount, HasLiveWs
  <2>4. Goal(m) \/ Goal(OnError(m))
    BY <2>1, <2>2, <2>3 DEF Sound
  <2> QED BY <2>4
<1>7. ASSUME NEW from \in Holder, NEW reauth \in BOOLEAN, WsMessage(a, from, reauth)
      PROVE \E q : Goal(q)
  <2> DEFINE q == OnMessage(r, reauth)
  <2>1. HasLiveWs(r) /\ Update(a, q)
    BY <1>1, <1>3, <1>7, WsEffect DEF WsMessage
  <2>2. /\ q \in AdapterRecord
        /\ q.eventEmittingAllowed = r.eventEmittingAllowed
        /\ q.socket = r.socket /\ q.detached = r.detached
    BY <1>1 DEF OnMessage, AdapterRecord, SocketState
  <2>3. HasLiveWs(q) /\ WsCount(q) = WsCount(r)
    BY <2>1, <2>2 DEF HasLiveWs, WsCount
  <2> HIDE DEF q
  <2>4. Goal(q)
    BY <1>2, <2>1, <2>2, <2>3 DEF Sound
  <2> QED BY <2>4
<1>8. CASE PollStarts(a)
  <2> DEFINE q == [r EXCEPT !.polling = TRUE]
  <2>1. /\ q \in AdapterRecord /\ q.socketState = r.socketState
        /\ q.eventEmittingAllowed = r.eventEmittingAllowed
        /\ q.socket = r.socket /\ q.detached = r.detached
    BY <1>1 DEF AdapterRecord
  <2>2. Update(a, q)
    BY <1>8 DEF PollStarts
  <2> HIDE DEF q
  <2>3. Goal(q)
    BY <1>2, <2>1, <2>2 DEF Sound, HasLiveWs, WsCount
  <2> QED BY <2>3
<1>9. CASE PollAnswered(a)
  <2>1. PICK api \in CurrentAnswers(r) : Update(a, [r EXCEPT !.apiState = api, !.polling = FALSE])
    BY <1>9 DEF PollAnswered
  <2> DEFINE q == [r EXCEPT !.apiState = api, !.polling = FALSE]
  <2>2. api \in ApiState
    BY <1>1 DEF CurrentAnswers, AdapterRecord, ApiState
  <2>3. /\ q \in AdapterRecord /\ q.socketState = r.socketState
        /\ q.eventEmittingAllowed = r.eventEmittingAllowed
        /\ q.socket = r.socket /\ q.detached = r.detached
    BY <1>1, <2>2 DEF AdapterRecord
  <2>4. Update(a, q)
    BY <2>1
  <2> HIDE DEF q
  <2>5. Goal(q)
    BY <1>2, <2>3, <2>4 DEF Sound, HasLiveWs, WsCount
  <2> QED BY <2>5
<1> QED BY <1>4, <1>5, <1>6, <1>7, <1>8, <1>9 DEF WsEvent, PeerDisturbs

\* Whatever adapter and connection a step is about, the state stays typed.
LEMMA NextTyped == TypeOK /\ [Next]_vars => TypeOK'
<1> SUFFICES ASSUME TypeOK, [Next]_vars PROVE TypeOK'
  OBVIOUS
<1>1. CASE PrinterEvent
  BY <1>1, PrinterEventTyped
<1>2. CASE TaskStep
  BY <1>2, TaskStepTyped
<1>3. ASSUME NEW a \in Adapters, SessionStepOf(a) PROVE TypeOK'
  BY <1>3, SessionStepEffect, AdvanceTyped
<1>4. ASSUME NEW a \in Adapters,
             WsEvent(a) \/ PeerDisturbs(a) \/ PollStarts(a) \/ PollAnswered(a)
      PROVE TypeOK'
  BY <1>4, EventEffect, UpdateTyped
<1>5. CASE UNCHANGED vars
  BY <1>5 DEF vars, TypeOK
<1> QED BY <1>1, <1>2, <1>3, <1>4, <1>5 DEF Next, AdapterStep

\* Every field of every adapter, session and task keeps its type: no count of lost
\* connections goes below zero, no session is in a step it cannot be in.
THEOREM TypeCorrect == Spec => []TypeOK
<1>1. Init => TypeOK
  BY InitTyped
<1>2. TypeOK /\ [Next]_vars => TypeOK'
  BY NextTyped
<1> QED BY <1>1, <1>2, PTL DEF Spec

-----------------------------------------------------------------------------
(* A socket state that no task acts on always has a ws object behind it. *)

LiveInv == \A a \in Adapters : Sound(adapter[a], session[a])

LEMMA NextLive == TypeOK /\ LiveInv /\ [Next]_vars => LiveInv'
<1> SUFFICES ASSUME TypeOK, LiveInv, [Next]_vars PROVE LiveInv'
  OBVIOUS
<1> USE DEF LiveInv
<1>0. /\ \A a \in Adapters : adapter[a] \in AdapterRecord
      /\ adapter = [a \in Adapters |-> adapter[a]]
      /\ session = [a \in Adapters |-> session[a]]
  BY DEF TypeOK
<1>1. \A r, s : r.socketState \in {"unopened", "closed"} => Sound(r, s)
  BY DEF Sound
<1>2. ASSUME NEW p \in Printers, CreateSocket(p) PROVE LiveInv'
  BY <1>2 DEF CreateSocket
<1>3. ASSUME NEW p \in Printers, RestartSocket(p) PROVE LiveInv'
  <2>1. adapterOf[p] \in Adapters
    BY <1>3 DEF RestartSocket, TypeOK
  <2>2. CloseAndReset(adapter[adapterOf[p]]).socketState \in {"unopened", "closed"}
    BY <1>0, <2>1, CloseAndResetEffect
  <2>3. \A a \in Adapters :
          adapter'[a] = IF a = adapterOf[p] THEN CloseAndReset(adapter[a]) ELSE adapter[a]
    BY <1>0, <1>3 DEF RestartSocket
  <2> QED BY <1>1, <1>3, <2>1, <2>2, <2>3 DEF RestartSocket
<1>4. ASSUME NEW ids \in SUBSET Printers, DeleteSockets(ids) PROVE LiveInv'
  <2>1. \A a \in Adapters : \/ adapter'[a] = adapter[a]
                            \/ adapter'[a] = Retire(adapter[a])
    BY <1>4 DEF DeleteSockets
  <2>2. \A a \in Adapters : Sound(Retire(adapter[a]), session[a])
    BY <1>0, RetireEffect DEF Sound
  <2> QED BY <1>4, <2>1, <2>2 DEF DeleteSockets
<1>5. ASSUME NEW targets, NEW kind, BeginSessions(targets, kind) PROVE LiveInv'
  <2>1. \A a \in Adapters : ResetSocketState(adapter[a]).socketState = "unopened"
    BY <1>0 DEF ResetSocketState, AdapterRecord
  <2>2. \A a \in Adapters :
          \/ adapter'[a] = adapter[a] /\ session'[a] = session[a]
          \/ adapter'[a] = ResetSocketState(adapter[a])
    BY <1>5 DEF BeginSessions
  <2> QED BY <1>1, <2>1, <2>2
<1>6. CASE StartReconnect \/ StartOpenPass
  BY <1>5, <1>6 DEF StartReconnect, StartOpenPass
<1>7. CASE FinishReconnect \/ RestoreRejected \/ UNCHANGED vars
  BY <1>7 DEF FinishReconnect, RestoreRejected, vars
<1>8. ASSUME NEW list, NEW from, RestoreWalk(list, from) PROVE LiveInv'
  <2>1. \A a \in Adapters : \/ adapter'[a] = adapter[a]
                            \/ adapter'[a] = CloseAndReset(adapter[a])
    BY <1>8 DEF RestoreWalk
  <2>2. session' = session
    BY <1>8 DEF RestoreWalk
  <2>3. \A a \in Adapters : CloseAndReset(adapter[a]).socketState \in {"unopened", "closed"}
    BY <1>0, CloseAndResetEffect
  <2> QED BY <1>1, <2>1, <2>2, <2>3
<1>9. CASE StartRestore \/ RestoreAnswered
  BY <1>8, <1>9 DEF StartRestore, RestoreAnswered
<1>10. ASSUME NEW a \in Adapters, SessionStepOf(a) PROVE LiveInv'
  <2>1. PICK r \in AdapterRecord, to \in Sessions :
          AdvanceSession(a, to, r) /\ (Sound(adapter[a], session[a]) => Sound(r, to))
    BY <1>10, SessionStepEffect
  <2>2. /\ adapter' = [adapter EXCEPT ![a] = r]
        /\ session' = [session EXCEPT ![a] = to]
    BY <2>1 DEF AdvanceSession
  <2>3. \A b \in Adapters : \/ b = a /\ adapter'[b] = r /\ session'[b] = to
                            \/ adapter'[b] = adapter[b] /\ session'[b] = session[b]
    BY <1>0, <2>2
  <2> QED BY <2>1, <2>3
<1>11. ASSUME NEW a \in Adapters,
              WsEvent(a) \/ PeerDisturbs(a) \/ PollStarts(a) \/ PollAnswered(a)
       PROVE LiveInv'
  <2>1. PICK r \in AdapterRecord :
          Update(a, r) /\ (Sound(adapter[a], session[a]) => Sound(r, session[a]))
    BY <1>11, EventEffect
  <2>2. adapter' = [adapter EXCEPT ![a] = r] /\ session' = session
    BY <2>1 DEF Update
  <2>3. \A b \in Adapters : (b = a /\ adapter'[b] = r) \/ adapter'[b] = adapter[b]
    BY <1>0, <2>2
  <2> QED BY <2>1, <2>2, <2>3
<1> QED BY <1>2, <1>3, <1>4, <1>6, <1>7, <1>9, <1>10, <1>11
        DEF Next, PrinterEvent, TaskStep, AdapterStep

\* An adapter that is opening, opened, authenticated or in error outside a session
\* still has a connection whose close will make it "closed": the tasks may ignore it.
THEOREM WorkingStateKeepsWs == Spec => []WorkingStateHasWs
<1>1. Init => TypeOK /\ LiveInv
  <2>1. \A s : Sound(NewAdapter, s)
    BY DEF Sound, NewAdapter
  <2> QED BY <2>1, InitTyped DEF Init, LiveInv
<1>2. TypeOK /\ LiveInv /\ [Next]_vars => TypeOK' /\ LiveInv'
  BY NextTyped, NextLive
<1>3. LiveInv => WorkingStateHasWs
  BY DEF LiveInv, WorkingStateHasWs, Sound, Idle, NoSession
<1> QED BY <1>1, <1>2, <1>3, PTL DEF Spec

-----------------------------------------------------------------------------
(* What has left the store stays quiet and stays down. *)

\* What a step does to an adapter that is not in the store, and who can leave it.
LEMMA RemovedEffect ==
  ASSUME TypeOK, InStore \subseteq created, [Next]_vars
  PROVE  /\ InStore' \subseteq created'
         /\ Removed \subseteq Removed'
         /\ \A a \in Adapters : ~adapter[a].eventEmittingAllowed => ~adapter'[a].eventEmittingAllowed
         /\ \A a \in Removed' \ Removed : ~adapter'[a].eventEmittingAllowed
         /\ \A a \in Removed : Idle(a) =>
              Idle(a)' /\ WsCount(adapter'[a]) <= WsCount(adapter[a])
<1> DEFINE Goal ==
         /\ InStore' \subseteq created'
         /\ Removed \subseteq Removed'
         /\ \A a \in Adapters : ~adapter[a].eventEmittingAllowed => ~adapter'[a].eventEmittingAllowed
         /\ \A a \in Removed' \ Removed : ~adapter'[a].eventEmittingAllowed
         /\ \A a \in Removed : Idle(a) =>
              Idle(a)' /\ WsCount(adapter'[a]) <= WsCount(adapter[a])
<1> SUFFICES Goal
  OBVIOUS
<1>0. /\ \A a \in Adapters : adapter[a] \in AdapterRecord /\ WsCount(adapter[a]) \in Nat
      /\ adapter = [a \in Adapters |-> adapter[a]]
      /\ session = [a \in Adapters |-> session[a]]
      /\ Removed \subseteq Adapters
  BY DEF TypeOK, WsCount, AdapterRecord, WsState, Removed
\* Most steps leave the store alone, and every adapter at most loses connections.
<1>1. ASSUME UNCHANGED <<adapterOf, created>>,
             \A a \in Adapters :
               /\ adapter'[a].eventEmittingAllowed = adapter[a].eventEmittingAllowed
               /\ a \in Removed /\ Idle(a) =>
                    session'[a] = session[a] /\ WsCount(adapter'[a]) <= WsCount(adapter[a])
      PROVE  Goal
  BY <1>0, <1>1 DEF InStore, Removed, Idle
<1>2. ASSUME NEW p \in Printers, CreateSocket(p) PROVE Goal
  <2>1. PICK b \in Adapters \ created :
          adapterOf' = [adapterOf EXCEPT ![p] = b] /\ created' = created \cup {b}
    BY <1>2 DEF CreateSocket
  <2>2. InStore' = InStore \cup {b}
    <3>1. /\ \A q \in Printers : adapterOf'[q] = IF q = p THEN b ELSE adapterOf[q]
          /\ adapterOf[p] = NoAdapter /\ b # NoAdapter
      BY <1>2, <2>1, PrinterSocketsAssumption DEF CreateSocket, TypeOK
    <3> QED BY <3>1 DEF InStore
  <2>3. Removed' = Removed /\ InStore' \subseteq created'
    BY <2>1, <2>2 DEF Removed
  <2> QED BY <1>0, <1>2, <2>3 DEF CreateSocket, Idle
<1>3. ASSUME NEW p \in Printers, RestartSocket(p) PROVE Goal
  <2>1. \A a \in Adapters :
          adapter'[a] = IF a = adapterOf[p] THEN CloseAndReset(adapter[a]) ELSE adapter[a]
    BY <1>0, <1>3 DEF RestartSocket
  <2>2. adapterOf[p] \notin Removed
    BY <1>3 DEF RestartSocket, Removed, InStore
  <2> QED BY <1>0, <1>1, <1>3, <2>1, <2>2, CloseAndResetEffect DEF RestartSocket
<1>4. ASSUME NEW ids \in SUBSET Printers, DeleteSockets(ids) PROVE Goal
  <2> DEFINE gone == {adapterOf[p] : p \in ids} \ {NoAdapter}
  <2>1. /\ \A a \in Adapters : adapter'[a] = IF a \in gone THEN Retire(adapter[a]) ELSE adapter[a]
        /\ adapterOf' = [p \in Printers |-> IF p \in ids THEN NoAdapter ELSE adapterOf[p]]
        /\ UNCHANGED <<created, session>>
    BY <1>4 DEF DeleteSockets
  <2>2. gone \subseteq InStore /\ InStore \ gone \subseteq InStore' /\ InStore' \subseteq InStore
    BY <2>1 DEF InStore
  <2>3. /\ InStore' \subseteq created' /\ Removed \subseteq Removed'
        /\ Removed' \ Removed \subseteq gone /\ Removed \cap gone = {}
    BY <2>1, <2>2 DEF Removed
  <2>4. \A a \in Adapters : ~Retire(adapter[a]).eventEmittingAllowed
    BY <1>0, RetireEffect
  <2>5. gone \subseteq Adapters
    BY DEF TypeOK
  <2> HIDE DEF gone
  <2> QED BY <1>0, <2>1, <2>3, <2>4, <2>5 DEF Idle
<1>5. ASSUME NEW targets \in SUBSET InStore, NEW kind, BeginSessions(targets, kind),
             UNCHANGED <<adapterOf, created>>
      PROVE  Goal
  <2>1. \A a \in Adapters :
          ResetSocketState(adapter[a]).eventEmittingAllowed = adapter[a].eventEmittingAllowed
    BY <1>0 DEF ResetSocketState, AdapterRecord
  <2>2. \A a \in Adapters :
          /\ adapter'[a] = IF a \in targets THEN ResetSocketState(adapter[a]) ELSE adapter[a]
          /\ a \notin targets => session'[a] = session[a]
    BY <1>5 DEF BeginSessions
  <2>3. targets \cap Removed = {}
    BY DEF Removed
  <2>4. \A a \in Adapters :
          /\ adapter'[a].eventEmittingAllowed = adapter[a].eventEmittingAllowed
          /\ a \in Removed => session'[a] = session[a] /\ WsCount(adapter'[a]) <= WsCount(adapter[a])
    BY <1>0, <2>1, <2>2, <2>3
  <2> QED BY <1>1, <1>5, <2>4
<1>6. CASE StartReconnect \/ StartOpenPass
  <2>1. ReauthTargets \subseteq InStore /\ OpenTargets \subseteq InStore
    BY DEF ReauthTargets, OpenTargets
  <2> QED BY <1>5, <1>6, <2>1 DEF StartReconnect, StartOpenPass
<1>7. CASE FinishReconnect \/ RestoreRejected \/ UNCHANGED vars
  BY <1>0, <1>1, <1>7 DEF FinishReconnect, RestoreRejected, vars
<1>8. ASSUME NEW list, NEW from, RestoreWalk(list, from) PROVE Goal
  <2>1. \A a \in Adapters : \/ adapter'[a] = adapter[a]
                            \/ adapter'[a] = CloseAndReset(adapter[a])
    BY <1>8 DEF RestoreWalk
  <2>2. UNCHANGED <<adapterOf, created, session>>
    BY <1>8 DEF RestoreWalk
  <2>3. \A a \in Adapters :
          /\ adapter'[a].eventEmittingAllowed = adapter[a].eventEmittingAllowed
          /\ WsCount(adapter'[a]) <= WsCount(adapter[a])
    BY <1>0, <2>1, CloseAndResetEffect
  <2> QED BY <1>1, <2>2, <2>3
<1>9. CASE StartRestore \/ RestoreAnswered
  BY <1>8, <1>9 DEF StartRestore, RestoreAnswered
<1>10. ASSUME NEW a \in Adapters, SessionStepOf(a) PROVE Goal
  <2>1. PICK r \in AdapterRecord, to \in Sessions :
          AdvanceSession(a, to, r) /\ r.eventEmittingAllowed = adapter[a].eventEmittingAllowed
    BY <1>10, SessionStepEffect
  <2>2. ~Idle(a)
    BY <1>10, SessionStepEffect
  <2>3. /\ adapter' = [adapter EXCEPT ![a] = r]
        /\ session' = [session EXCEPT ![a] = to]
        /\ UNCHANGED <<adapterOf, created>>
    BY <2>1 DEF AdvanceSession
  <2>4. \A b \in Adapters : \/ b = a /\ adapter'[b] = r
                            \/ b # a /\ adapter'[b] = adapter[b] /\ session'[b] = session[b]
    BY <1>0, <2>3
  <2> QED BY <1>0, <1>1, <2>1, <2>2, <2>3, <2>4
<1>11. ASSUME NEW a \in Adapters,
              WsEvent(a) \/ PeerDisturbs(a) \/ PollStarts(a) \/ PollAnswered(a)
       PROVE Goal
  <2>1. PICK r \in AdapterRecord :
          /\ Update(a, r)
          /\ r.eventEmittingAllowed = adapter[a].eventEmittingAllowed
          /\ WsCount(r) <= WsCount(adapter[a])
    BY <1>11, EventEffect
  <2>2. adapter' = [adapter EXCEPT ![a] = r] /\ UNCHANGED <<adapterOf, created, session>>
    BY <2>1 DEF Update
  <2>3. \A b \in Adapters : (b = a /\ adapter'[b] = r) \/ adapter'[b] = adapter[b]
    BY <1>0, <2>2
  <2> QED BY <1>0, <1>1, <2>1, <2>2, <2>3
<1> QED BY <1>2, <1>3, <1>4, <1>6, <1>7, <1>9, <1>10, <1>11
        DEF Next, PrinterEvent, TaskStep, AdapterStep

LEMMA InitStore == Init => InStore \subseteq created /\ Removed = {}
BY DEF Init, Removed

\* After deleteSocket no event of the adapter reaches the bus, whatever is in flight.
THEOREM RemovedStaysMuted == Spec => []RemovedIsMuted
<1> DEFINE Inv == TypeOK /\ InStore \subseteq created /\ RemovedIsMuted
<1>1. Init => Inv
  BY InitTyped, InitStore DEF RemovedIsMuted
<1>2. Inv /\ [Next]_vars => Inv'
  <2> SUFFICES ASSUME Inv, [Next]_vars PROVE Inv'
    OBVIOUS
  <2>1. Removed \subseteq Adapters
    BY DEF TypeOK, Removed
  <2> QED BY <2>1, NextTyped, RemovedEffect DEF RemovedIsMuted
<1>3. Inv => RemovedIsMuted
  OBVIOUS
<1> QED BY <1>1, <1>2, <1>3, PTL DEF Spec

\* Removing a printer is final for its adapter once no session is in progress: no
\* further session, no further connection, whatever the tasks and the peer do.
THEOREM RemovalIsFinal == Spec => RemovedStaysDown
<1> DEFINE Inv == TypeOK /\ InStore \subseteq created
<1>1. Init => Inv
  BY InitTyped, InitStore
<1>2. Inv /\ [Next]_vars => Inv'
  BY NextTyped, RemovedEffect
<1>3. Inv /\ [Next]_vars =>
        [\A a \in Removed : Idle(a) =>
           /\ a \in Removed'
           /\ Idle(a)'
           /\ WsCount(adapter'[a]) <= WsCount(adapter[a])]_vars
  BY RemovedEffect
<1> QED BY <1>1, <1>2, <1>3, PTL DEF Spec, RemovedStaysDown

-----------------------------------------------------------------------------
(* The reconnect task implements ReconnectRounds. *)

\* Between two rounds no session is in progress: no other task starts one.
NothingBetweenRounds == reconnect = "idle" => Running = {}

\* A step of the system is a step of the rounds, or none of their business.
LEMMA NextKeepsRounds ==
  ASSUME TypeOK, InStore \subseteq created, NothingBetweenRounds, [Next]_vars
  PROVE  [Rounds!Next]_(Rounds!vars) /\ NothingBetweenRounds'
<1> DEFINE Goal == [Rounds!Next]_(Rounds!vars) /\ NothingBetweenRounds'
<1> SUFFICES Goal
  OBVIOUS
<1>0. Running \in SUBSET Adapters /\ Running' \in SUBSET Adapters
  BY DEF Running
<1>1. ASSUME UNCHANGED <<session, reconnect>> PROVE Goal
  BY <1>1 DEF Rounds!vars, Running, Idle, NothingBetweenRounds
<1>2. CASE PrinterEvent
  BY <1>1, <1>2 DEF PrinterEvent, CreateSocket, RestartSocket, DeleteSockets
<1>3. CASE StartReconnect
  <2>1. Rounds!BeginPhase("idle", "reauth")
    BY <1>0, <1>3 DEF StartReconnect, NothingBetweenRounds, Rounds!BeginPhase
  <2> QED BY <1>3, <2>1 DEF Rounds!Next, StartReconnect, NothingBetweenRounds
<1>4. CASE StartOpenPass
  <2>1. Rounds!BeginPhase("reauth", "open")
    BY <1>0, <1>4 DEF StartOpenPass, AllSettled, Rounds!BeginPhase
  <2> QED BY <1>4, <2>1 DEF Rounds!Next, StartOpenPass, NothingBetweenRounds
<1>5. CASE FinishReconnect
  <2>1. Running' = Running
    BY <1>5 DEF FinishReconnect, Running, Idle
  <2> QED BY <1>5, <2>1
          DEF FinishReconnect, AllSettled, Rounds!Next, Rounds!EndRound, NothingBetweenRounds
<1>6. CASE StartRestore \/ RestoreAnswered \/ RestoreRejected \/ UNCHANGED vars
  BY <1>1, <1>6 DEF StartRestore, RestoreAnswered, RestoreRejected, RestoreWalk, vars
<1>7. ASSUME NEW a \in Adapters, SessionStepOf(a) PROVE Goal
  <2>1. a \in Running
    BY <1>7, SessionStepEffect DEF Running
  <2>2. PICK to \in Sessions : session' = [session EXCEPT ![a] = to] /\ UNCHANGED reconnect
    BY <1>7, SessionStepEffect DEF AdvanceSession
  <2>3. \A b \in Adapters : session'[b] = IF b = a THEN to ELSE session[b]
    BY <2>2 DEF TypeOK
  <2>4. Running' = IF to = NoSession THEN Running \ {a} ELSE Running
    BY <2>1, <2>3 DEF Running, Idle
  <2>5. CASE to = NoSession
    BY <2>1, <2>2, <2>4, <2>5
       DEF Rounds!Next, Rounds!SessionEnds, NothingBetweenRounds
  <2>6. CASE to # NoSession
    BY <2>2, <2>4, <2>6 DEF Rounds!vars, NothingBetweenRounds
  <2> QED BY <2>5, <2>6
<1>8. ASSUME NEW a \in Adapters,
             WsEvent(a) \/ PeerDisturbs(a) \/ PollStarts(a) \/ PollAnswered(a)
      PROVE Goal
  BY <1>1, <1>8, EventEffect DEF Update
<1> QED BY <1>2, <1>3, <1>4, <1>5, <1>6, <1>7, <1>8 DEF Next, TaskStep, AdapterStep

\* reconnectPrinterSockets implements its abstract rounds: sessions of one adapter
\* never overlap, whatever printers are created, updated or removed meanwhile.
THEOREM ReconnectKeepsRounds == Spec => KeepsRounds
<1> DEFINE Inv == TypeOK /\ InStore \subseteq created /\ NothingBetweenRounds
<1>1. Init => Inv /\ Rounds!Init
  BY InitTyped, InitStore DEF Init, Rounds!Init, Running, Idle, NothingBetweenRounds
<1>2. Inv /\ [Next]_vars => Inv' /\ [Rounds!Next]_(Rounds!vars)
  BY NextTyped, RemovedEffect, NextKeepsRounds
<1> QED BY <1>1, <1>2, PTL DEF Spec, KeepsRounds, Rounds!Spec

=============================================================================
