-------------------------- MODULE OctoPrintAdapter --------------------------
(***************************************************************************)
(* One OctoprintWebsocketAdapter object and the ws connections it created. *)
(*                                                                         *)
(* The adapter is a record; every operator below is one synchronous        *)
(* stretch of a method, from its start or from an await to the next await. *)
(* Node runs such a stretch to its end, so each is one atomic change.      *)
(*                                                                         *)
(* A ws object lives from `new WebSocket` until its `close` event has been *)
(* delivered.  `socket` is the state of the one the adapter refers to.     *)
(* `detached` counts, by state, those it no longer refers to: their        *)
(* handlers stay bound to the adapter, so their events still act on it.    *)
(***************************************************************************)
EXTENDS Naturals

SocketState == {"unopened", "opening", "authenticating", "opened",
                "authenticated", "aborted", "error", "closed"}

\* noResponse, globalKey and authFail only matter as "not responding".
ApiState == {"unset", "responding", "unavailable"}

\* readyState of a ws object whose close event is still to come.
WsState == {"connecting", "open", "closing"}

AdapterRecord ==
  [socketState          : SocketState,
   apiState             : ApiState,
   reauthRequired       : BOOLEAN,
   eventEmittingAllowed : BOOLEAN,
   interval             : BOOLEAN,      \* refreshPrinterCurrentInterval runs
   polling              : BOOLEAN,      \* a tick of it awaits its answer
   socket               : WsState \cup {"none"},
   detached             : [WsState -> Nat]]

NewAdapter ==
  [socketState          |-> "unopened",
   apiState             |-> "unset",
   reauthRequired       |-> FALSE,
   eventEmittingAllowed |-> TRUE,
   interval             |-> FALSE,
   polling              |-> FALSE,
   socket               |-> "none",
   detached             |-> [s \in WsState |-> 0]]

-----------------------------------------------------------------------------
(* The predicates the tasks read. *)

NeedsReopen(r) ==
  /\ r.apiState = "responding"
  /\ r.socketState \in {"closed", "error"}

NeedsSetup(r) == r.socketState = "unopened"

NeedsReauth(r) == r.reauthRequired

\* With a slip: a refused login is never tried again.
IsClosedOrAborted_NoAborted(r) == r.socketState = "closed"
IsClosedOrAborted(r) == r.socketState \in {"closed", "aborted"}

\* Some ws object of this adapter has not delivered its close event.
HasLiveWs(r) == r.socket # "none" \/ \E s \in WsState : r.detached[s] > 0

-----------------------------------------------------------------------------
(* Methods. *)

ResetSocketState(r) == [r EXCEPT !.socketState = "unopened", !.apiState = "unset"]

DisallowEmittingEvents(r) == [r EXCEPT !.eventEmittingAllowed = FALSE]

More(d, s) == [d EXCEPT ![s] = @ + 1]
Fewer(d, s) == [d EXCEPT ![s] = @ - 1]

\* `delete this.socket`: the reference goes, the connection stays as it is.
DropReference(r) ==
  IF r.socket = "none" THEN r
  ELSE [r EXCEPT !.detached = More(@, r.socket), !.socket = "none"]

\* onClose/afterClosed: whichever ws object reports, the current one is dropped.
OnClose(r) == [DropReference(r) EXCEPT !.socketState = "closed"]

\* close(): ws starts its closing handshake and the reference is dropped at once.
\* A ws that is still connecting is aborted instead, see AbortEvents.
Close(r) ==
  LET silenced == [r EXCEPT !.interval = FALSE]
  IN  IF r.socket = "connecting"
      THEN [silenced EXCEPT !.socket = "none"]
      ELSE IF r.socket = "none" THEN silenced
      ELSE [silenced EXCEPT !.detached = More(@, "closing"), !.socket = "none"]

\* close() on a connecting ws makes ws emit error and close on the next tick,
\* before any other event: they act on what the closing method left behind.
AbortEvents(before, after) ==
  IF before.socket = "connecting" THEN OnClose(after) ELSE after

\* close() followed by resetSocketState(), as every caller but deleteSocket has it.
CloseAndReset(r) == AbortEvents(r, ResetSocketState(Close(r)))

\* disallowEmittingEvents() followed by close(), as deleteSocket has it.
\* With a slip: it goes on emitting.
Retire_StillEmitting(r) == AbortEvents(r, Close(r))
Retire(r) == AbortEvents(r, Close(DisallowEmittingEvents(r)))

\* open(): throws while a ws is referenced, its caller swallows the error.
Open(r) == IF r.socket = "none" THEN [r EXCEPT !.socket = "connecting"] ELSE r

\* A failed login or getAdminUserOrDefault; the error is rethrown to the task.
\* With a slip: the api state only; each setter called for the other state.
Abort_Swapped(r) == [r EXCEPT !.socketState = "unavailable", !.apiState = "aborted"]
Abort_LeftOpening(r) == [r EXCEPT !.apiState = "unavailable"]
Abort(r) == [r EXCEPT !.socketState = "aborted", !.apiState = "unavailable"]

LoginAccepted(r) == [r EXCEPT !.socketState = "opening", !.apiState = "responding"]

\* setApiState at the end of updateCurrentStateSafely: a 409 leaves it unchanged.
CurrentAnswers(r) == {"responding", "unavailable", r.apiState}

\* The end of setupSocketSession: the state was fetched, the interval is (re)set.
SessionReady(r, api) == [r EXCEPT !.apiState = api, !.interval = TRUE]

SendAuth(r) == [r EXCEPT !.socketState = "authenticating"]

-----------------------------------------------------------------------------
(* ws events.  The ws object is the referenced one ("attached") or not. *)

Holder == {"attached", "detached"}

HasWs(r, from, s) ==
  IF from = "attached" THEN r.socket = s ELSE r.detached[s] > 0

\* The ws object is gone.
TakeWs(r, from, s) ==
  IF from = "attached" THEN [r EXCEPT !.socket = "none"]
  ELSE [r EXCEPT !.detached = Fewer(@, s)]

MoveWs(r, from, s, t) ==
  IF from = "attached" THEN [r EXCEPT !.socket = t]
  ELSE [r EXCEPT !.detached = More(Fewer(@, s), t)]

\* afterOpened: "opened" is overwritten by sendAuth before anything else runs.
OnOpen(r) == SendAuth(r)

OnError(r) == [r EXCEPT !.socketState = "error"]

OnMessage(r, reauth) ==
  [r EXCEPT !.socketState = "authenticated", !.reauthRequired = @ \/ reauth]

=============================================================================
