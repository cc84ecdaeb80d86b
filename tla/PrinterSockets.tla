--------------------------- MODULE PrinterSockets ---------------------------
(***************************************************************************)
(* PrinterSocketStore with the OctoPrint adapters it holds, the printer    *)
(* events and user operations that change them, the reconnect task, the    *)
(* restore task, and the ws connections and HTTP answers they wait for.    *)
(*                                                                         *)
(* An async method is cut at its awaits: each action runs from one await   *)
(* to the next, and anything else may run in between.                      *)
(***************************************************************************)
EXTENDS OctoPrintAdapter

CONSTANTS
  N,           \* printers are numbered in the order Object.values lists them
  Adapters,    \* the adapter objects that may be created
  NoAdapter

ASSUME PrinterSocketsAssumption ==
  /\ N \in Nat \ {0}
  /\ NoAdapter \notin Adapters

Printers == 1..N

VARIABLES
  adapterOf,    \* printerSocketAdaptersById
  adapter,      \* the adapter objects
  created,      \* those created so far; the others are not there yet
  session,      \* per adapter, the setupSocketSession/reauthSession in progress
  reconnect,    \* where the reconnect task's run is
  restore       \* where the restore task's run is, and its listPrinterSockets

vars == <<adapterOf, adapter, created, session, reconnect, restore>>

InStore == {adapterOf[p] : p \in Printers} \ {NoAdapter}
Removed == created \ InStore

\* A session is identified by what it does at its end and what it waits for:
\* login, getAdminUserOrDefault, getPrinterCurrent/getJob, the ws send callback.
SessionKind == {"setup", "reauth"}
SessionStep == {"login", "user", "current", "sent"}
NoSession   == [kind |-> "setup", step |-> "idle"]
Sessions    == {NoSession} \cup [kind : SessionKind, step : SessionStep]

Idle(a) == session[a] = NoSession
Running == {a \in Adapters : ~Idle(a)}

ReconnectPhase == {"idle", "reauth", "open"}

\* at = 0: no run.  at = p: the run awaits getConnection for the socket listed at p.
NotRestoring == [at |-> 0, list |-> [p \in Printers |-> NoAdapter]]

TypeOK ==
  /\ adapterOf \in [Printers -> Adapters \cup {NoAdapter}]
  /\ adapter \in [Adapters -> AdapterRecord]
  /\ created \in SUBSET Adapters
  /\ session \in [Adapters -> Sessions]
  /\ reconnect \in ReconnectPhase
  /\ restore \in [at : 0..N, list : [Printers -> Adapters \cup {NoAdapter}]]

\* loadPrinterSockets at boot has created a socket for every enabled printer.
Init ==
  /\ adapterOf \in [Printers -> Adapters \cup {NoAdapter}]
  /\ \A p, q \in Printers : adapterOf[p] = adapterOf[q] => p = q \/ adapterOf[p] = NoAdapter
  /\ adapter = [a \in Adapters |-> NewAdapter]
  /\ created = InStore
  /\ session = [a \in Adapters |-> NoSession]
  /\ reconnect = "idle"
  /\ restore = NotRestoring

-----------------------------------------------------------------------------
(* Printer events and user operations. *)

\* createOrUpdateSocket for an enabled printer without an adapter.
CreateSocket(p) ==
  /\ adapterOf[p] = NoAdapter
  /\ \E a \in Adapters \ created :
       /\ adapterOf' = [adapterOf EXCEPT ![p] = a]
       /\ created' = created \cup {a}
  /\ UNCHANGED <<adapter, session, reconnect, restore>>

\* createOrUpdateSocket for an enabled printer that has an adapter, and
\* reconnectOctoPrint: both close the socket and reset its state.
RestartSocket(p) ==
  /\ adapterOf[p] # NoAdapter
  /\ adapter' = [adapter EXCEPT ![adapterOf[p]] = CloseAndReset(@)]
  /\ UNCHANGED <<adapterOf, created, session, reconnect, restore>>

\* deleteSocket for each printer of a printersDeleted event, or for one that
\* createOrUpdateSocket finds disabled.  A session in progress is not told.
DeleteSockets(ids) ==
  LET gone == {adapterOf[p] : p \in ids} \ {NoAdapter}
  IN  /\ gone # {}
      /\ adapter' = [a \in Adapters |-> IF a \in gone THEN Retire(adapter[a]) ELSE adapter[a]]
      /\ adapterOf' = [p \in Printers |-> IF p \in ids THEN NoAdapter ELSE adapterOf[p]]
      /\ UNCHANGED <<created, session, reconnect, restore>>

PrinterEvent ==
  \/ \E p \in Printers : CreateSocket(p) \/ RestartSocket(p)
  \/ \E ids \in SUBSET Printers : DeleteSockets(ids)

-----------------------------------------------------------------------------
(* reconnectPrinterSockets: all reauths, Promise.all, all setups, Promise.all. *)

\* The synchronous start of reauthSession and setupSocketSession.
BeginSessions(targets, kind) ==
  /\ adapter' = [a \in Adapters |->
                   IF a \in targets THEN ResetSocketState(adapter[a]) ELSE adapter[a]]
  /\ session' = [a \in Adapters |->
                   IF a \in targets THEN [kind |-> kind, step |-> "login"] ELSE session[a]]

ReauthTargets == {a \in InStore : NeedsReauth(adapter[a])}

\* OpenTargets with a slip: a removed adapter is still listed; a new one is not.
OpenTargets_Stale == {a \in created : NeedsSetup(adapter[a]) \/ NeedsReopen(adapter[a])}
OpenTargets_NoSetup == {a \in InStore : NeedsReopen(adapter[a])}
OpenTargets == {a \in InStore : NeedsSetup(adapter[a]) \/ NeedsReopen(adapter[a])}

\* The scheduler does not start a run while one is in progress.
StartReconnect ==
  /\ reconnect = "idle"
  /\ reconnect' = "reauth"
  /\ BeginSessions(ReauthTargets, "reauth")
  /\ UNCHANGED <<adapterOf, created, restore>>

\* Promise.all of everything this run started, and with a slip: not awaited.
AllSettled_NotAwaited == TRUE
AllSettled == Running = {}

StartOpenPass ==
  /\ reconnect = "reauth"
  /\ AllSettled
  /\ reconnect' = "open"
  /\ BeginSessions(OpenTargets, "setup")
  /\ UNCHANGED <<adapterOf, created, restore>>

FinishReconnect ==
  /\ reconnect = "open"
  /\ AllSettled
  /\ reconnect' = "idle"
  /\ UNCHANGED <<adapterOf, adapter, created, session, restore>>

-----------------------------------------------------------------------------
(* setupSocketSession and reauthSession, from await to await. *)

AdvanceSession(a, to, r) ==
  /\ session' = [session EXCEPT ![a] = to]
  /\ adapter' = [adapter EXCEPT ![a] = r]
  /\ UNCHANGED <<adapterOf, created, reconnect, restore>>

At(a, step) == session[a].step = step
GoTo(a, step) == [session[a] EXCEPT !.step = step]

LoginSucceeds(a) ==
  At(a, "login") /\ AdvanceSession(a, GoTo(a, "user"), LoginAccepted(adapter[a]))

LoginFails(a) ==
  At(a, "login") /\ AdvanceSession(a, NoSession, Abort(adapter[a]))

UserSucceeds(a) ==
  At(a, "user") /\ AdvanceSession(a, GoTo(a, "current"), adapter[a])

UserFails(a) ==
  At(a, "user") /\ AdvanceSession(a, NoSession, Abort(adapter[a]))

\* The state was fetched, or could not be: setup ends with open() either way.
SetupEnds(a) ==
  /\ At(a, "current") /\ session[a].kind = "setup"
  /\ \E api \in CurrentAnswers(adapter[a]) :
       AdvanceSession(a, NoSession, Open(SessionReady(adapter[a], api)))

\* reauthSession goes on with sendAuth, on whatever socket there is now; when
\* that is not open nothing is sent, and the reauth counts as done.
ReauthSends(a) ==
  /\ At(a, "current") /\ session[a].kind = "reauth"
  /\ \E api \in CurrentAnswers(adapter[a]) :
       LET r == SendAuth(SessionReady(adapter[a], api))
       IN  IF r.socket = "open"
           THEN AdvanceSession(a, GoTo(a, "sent"), r)
           ELSE AdvanceSession(a, NoSession, [r EXCEPT !.reauthRequired = FALSE])

\* The send callback: on an error reauthSession rejects and the flag stays.
ReauthEnds(a) ==
  /\ At(a, "sent")
  /\ \E sent \in BOOLEAN :
       AdvanceSession(a, NoSession, [adapter[a] EXCEPT !.reauthRequired = @ /\ ~sent])

SessionStepOf(a) ==
  \/ LoginSucceeds(a) \/ LoginFails(a)
  \/ UserSucceeds(a)  \/ UserFails(a)
  \/ SetupEnds(a)
  \/ ReauthSends(a)   \/ ReauthEnds(a)

-----------------------------------------------------------------------------
(* PrinterWebsocketRestoreTask.run.  Sockets are visited in order; closed and  *)
(* aborted ones are reset; the first silent one stops the walk until its       *)
(* getConnection has answered.  Silence (10 s without a message) is a choice.  *)

RestoreVisits(list, from, stop) == {list[p] : p \in (from + 1)..(stop - 1)} \ {NoAdapter}

RestoreWalk(list, from) ==
  \E stop \in (from + 1)..(N + 1) :
    /\ stop <= N => list[stop] # NoAdapter /\ ~IsClosedOrAborted(adapter[list[stop]])
    /\ adapter' = [a \in Adapters |->
                     IF a \in RestoreVisits(list, from, stop) /\ IsClosedOrAborted(adapter[a])
                     THEN CloseAndReset(adapter[a]) ELSE adapter[a]]
    /\ restore' = IF stop <= N THEN [at |-> stop, list |-> list] ELSE NotRestoring
    /\ UNCHANGED <<adapterOf, created, session, reconnect>>

StartRestore == restore.at = 0 /\ RestoreWalk(adapterOf, 0)

RestoreAnswered == restore.at # 0 /\ RestoreWalk(restore.list, restore.at)

\* getConnection is awaited outside the try: its rejection ends the run.
RestoreRejected ==
  /\ restore.at # 0
  /\ restore' = NotRestoring
  /\ UNCHANGED <<adapterOf, adapter, created, session, reconnect>>

-----------------------------------------------------------------------------
(* Events of ws objects and answers to the polling interval. *)

Update(a, r) ==
  /\ adapter' = [adapter EXCEPT ![a] = r]
  /\ UNCHANGED <<adapterOf, created, session, reconnect, restore>>

WsOpens(a, from) ==
  /\ HasWs(adapter[a], from, "connecting")
  /\ Update(a, OnOpen(MoveWs(adapter[a], from, "connecting", "open")))

\* Refused or timed out: ws emits error and close in one go.
WsFails(a, from) ==
  /\ HasWs(adapter[a], from, "connecting")
  /\ Update(a, OnClose(OnError(TakeWs(adapter[a], from, "connecting"))))

PeerCloses(a, from) ==
  /\ HasWs(adapter[a], from, "open")
  /\ Update(a, MoveWs(adapter[a], from, "open", "closing"))

ProtocolError(a, from) ==
  /\ HasWs(adapter[a], from, "open")
  /\ Update(a, OnError(MoveWs(adapter[a], from, "open", "closing")))

WsCloses(a, from) ==
  /\ HasWs(adapter[a], from, "closing")
  /\ Update(a, OnClose(TakeWs(adapter[a], from, "closing")))

\* A ws this side closed still delivers what the peer sent before its close frame.
WsMessage(a, from, reauth) ==
  /\ \/ HasWs(adapter[a], from, "open")
     \/ from = "detached" /\ HasWs(adapter[a], from, "closing")
  /\ Update(a, OnMessage(adapter[a], reauth))

PollStarts(a) ==
  /\ adapter[a].interval
  /\ Update(a, [adapter[a] EXCEPT !.polling = TRUE])

PollAnswered(a) ==
  /\ adapter[a].polling
  /\ \E api \in CurrentAnswers(adapter[a]) :
       Update(a, [adapter[a] EXCEPT !.apiState = api, !.polling = FALSE])

WsEvent(a) ==
  \E from \in Holder :
    \/ WsOpens(a, from) \/ WsFails(a, from)
    \/ PeerCloses(a, from) \/ WsCloses(a, from)
    \/ WsMessage(a, from, FALSE)

\* What a peer does only now and then.
PeerDisturbs(a) ==
  \E from \in Holder : ProtocolError(a, from) \/ WsMessage(a, from, TRUE)

-----------------------------------------------------------------------------
TaskStep ==
  \/ StartReconnect \/ StartOpenPass \/ FinishReconnect
  \/ StartRestore \/ RestoreAnswered \/ RestoreRejected

AdapterStep(a) ==
  \/ SessionStepOf(a)
  \/ WsEvent(a)
  \/ PollStarts(a)
  \/ PollAnswered(a)

Next ==
  \/ PrinterEvent
  \/ TaskStep
  \/ \E a \in Adapters : AdapterStep(a) \/ PeerDisturbs(a)

Spec == Init /\ [][Next]_vars

\* Timers fire, HTTP requests and ws handshakes answer or time out (apiTimeout,
\* handshakeTimeout, the close timeout of ws); nothing is assumed of the peer.
Fairness ==
  /\ WF_vars(StartReconnect) /\ WF_vars(StartOpenPass) /\ WF_vars(FinishReconnect)
  /\ WF_vars(StartRestore) /\ WF_vars(RestoreAnswered \/ RestoreRejected)
  /\ \A a \in Adapters :
       /\ WF_vars(SessionStepOf(a))
       /\ \A from \in Holder :
            /\ WF_vars(WsOpens(a, from) \/ WsFails(a, from))
            /\ WF_vars(WsCloses(a, from))

FairSpec == Spec /\ Fairness

-----------------------------------------------------------------------------
(* Properties. *)

\* deleteSocket keeps a purged printer from registering itself again: once an
\* adapter has left the store, whatever is still in flight for it stays off the bus.
RemovedIsMuted == \A a \in Removed : ~adapter[a].eventEmittingAllowed

\* A socket state that neither task acts on is never a dead end: while it is
\* opening, opened, authenticated or error and no session is in progress, some ws
\* object has still to report its close, which makes the state "closed".
\* ("authenticating" is the exception, see AdapterIsRecoverable.)
WorkingStateHasWs ==
  \A a \in Adapters :
    /\ Idle(a)
    /\ adapter[a].socketState \in {"opening", "opened", "authenticated", "error"}
    => HasLiveWs(adapter[a])

\* The reconnect task keeps its rounds and phases apart (Promise.all, no overrun),
\* whatever happens meanwhile to the store: two sessions of an adapter never overlap.
Rounds == INSTANCE ReconnectRounds WITH phase <- reconnect, running <- Running
KeepsRounds == Rounds!Spec

\* Deleting or disabling a printer is final for its adapter object: with no session
\* left in progress it never starts one, nor opens a further connection.
WsCount(r) ==
  r.detached["connecting"] + r.detached["open"] + r.detached["closing"]
  + (IF r.socket = "none" THEN 0 ELSE 1)
RemovedStaysDown ==
  [][\A a \in Removed : Idle(a) =>
       /\ a \in Removed'
       /\ Idle(a)'
       /\ WsCount(adapter'[a]) <= WsCount(adapter[a])]_vars

\* reconnectOctoPrint: "The reconnect task will pick up this state and reconnect".
\* Whatever state the adapter of a printer is in, some task acts on it, or an
\* event is still to come that will change it.
AdapterIsRecoverable ==
  \A a \in InStore :
    \/ ~Idle(a)
    \/ NeedsSetup(adapter[a])
    \/ IsClosedOrAborted(adapter[a])
    \/ HasLiveWs(adapter[a])

\* "Delete the socket if the printer is disabled" and "Socket already exists by
\* printerId, ignoring open request": a connection that is not being closed is the
\* one its adapter refers to, and that adapter is in the store.
EveryConnectionIsManaged ==
  \A a \in created :
    /\ adapter[a].detached["connecting"] = 0
    /\ adapter[a].detached["open"] = 0
    /\ adapter[a].socket \in {"connecting", "open"} => a \in InStore

\* The reconnect task sets up every socket of an enabled printer that was loaded,
\* updated or reset, as long as it stays unopened.
UnopenedIsSetUp ==
  \A a \in Adapters :
    LET Waits == a \in InStore /\ adapter[a].socketState = "unopened" IN Waits ~> ~Waits

\* The restore task, or the reconnect task before it, resets every closed or
\* aborted socket of an enabled printer.
ClosedIsReset ==
  \A a \in Adapters :
    LET Waits == a \in InStore /\ adapter[a].socketState \in {"closed", "aborted"}
    IN  Waits ~> ~Waits

=============================================================================
