--------------------------- MODULE MoonrakerSocket ---------------------------
(***************************************************************************)
(* One MoonrakerWebsocketAdapter in PrinterSocketStore: the reconnect      *)
(* task's rounds as far as they concern it, the JSON-RPC requests of its   *)
(* base class, its polling interval, and the ws objects it created (these  *)
(* behave as under the OctoPrint adapter, whose operators are taken).      *)
(***************************************************************************)
EXTENDS Naturals, FiniteSets

CONSTANTS
  Slots,        \* bound: afterOpened calls and RPC timers remembered at a time
  MaxSetups     \* bound: setupSocketSession calls begun by notifications, at a time

ASSUME MoonrakerAssumption == Slots \in Nat \ {0} /\ MaxSetups \in Nat

Ws == INSTANCE OctoPrintAdapter

VARIABLES
  adapter,      \* socketState, apiState, socket, detached, interval (the one referred to runs)
  inStore,      \* printerSocketAdaptersById has it
  round,        \* where the setup of the reconnect task's run is
  notified,     \* how many setups begun by notifications are at each step
  polling,      \* a tick of the interval awaits its answer
  intervals,    \* how many intervals run
  caller,       \* per slot, where that call of afterOpened is
  timer,        \* per slot, does the timeout of its sendRequest run
  entry,        \* requestMap at the one id in use: the slot to resolve, or 0
  asked,        \* identify requests sent and not answered
  overlapped    \* history: did the last sendRequest find another one unsettled

vars == <<adapter, inStore, round, notified, polling, intervals,
          caller, timer, entry, asked, overlapped>>

session == <<round, notified, polling, intervals>>
rpc == <<caller, timer, entry, asked, overlapped>>

SetupStep == {"version", "objects"}

\* The fields of the OctoPrint adapter's record that this adapter has.
AdapterRecord ==
  [socketState : {"unopened", "opened", "authenticated", "error", "closed"},
   apiState : {"unset", "responding", "noResponse"},
   socket : Ws!WsState \cup {"none"}, detached : [Ws!WsState -> Nat], interval : BOOLEAN]

TypeOK ==
  /\ adapter \in AdapterRecord
  /\ inStore \in BOOLEAN /\ polling \in BOOLEAN /\ overlapped \in BOOLEAN
  /\ round \in SetupStep \cup {"idle"}
  /\ notified \in [SetupStep -> 0..MaxSetups]
  /\ intervals \in Nat
  /\ caller \in [1..Slots -> {"none", "waiting", "thrown", "subscribing"}]
  /\ timer \in [1..Slots -> BOOLEAN]
  /\ entry \in 0..Slots
  /\ asked \in 0..Slots

\* createOrUpdateSocket has just created it.
Init ==
  /\ adapter = [socketState |-> "unopened", apiState |-> "unset", socket |-> "none",
                detached |-> [s \in Ws!WsState |-> 0], interval |-> FALSE]
  /\ inStore = TRUE
  /\ round = "idle" /\ notified = [s \in SetupStep |-> 0]
  /\ polling = FALSE /\ intervals = 0
  /\ caller = [i \in 1..Slots |-> "none"] /\ timer = [i \in 1..Slots |-> FALSE]
  /\ entry = 0 /\ asked = 0 /\ overlapped = FALSE

-----------------------------------------------------------------------------
(* The store. *)

\* close() stops the interval it knows of.
ClearInterval == intervals' = IF adapter.interval THEN intervals - 1 ELSE intervals

CloseWith(r) ==
  /\ inStore
  /\ adapter' = r
  /\ ClearInterval
  /\ UNCHANGED <<round, notified, polling, rpc>>

\* createOrUpdateSocket of an updated printer, and reconnectOctoPrint.
Refresh == CloseWith(Ws!CloseAndReset(adapter)) /\ UNCHANGED inStore

\* deleteSocket, for a printer that is deleted or disabled.
Remove == CloseWith(Ws!AbortEvents(adapter, Ws!Close(adapter))) /\ inStore' = FALSE

\* needsReauth and needsReopen are FALSE for Moonraker: a round acts on "unopened".
StartRound ==
  /\ inStore /\ round = "idle" /\ adapter.socketState = "unopened"
  /\ round' = "version"
  /\ UNCHANGED <<adapter, inStore, notified, polling, intervals, rpc>>

-----------------------------------------------------------------------------
(* setupSocketSession: getApiVersion, then the printer objects. *)

\* With a slip: the answer is put down as a state of the socket.
VersionAnswers_Swapped(ok) == IF ok THEN [adapter EXCEPT !.socketState = "responding"] ELSE adapter
VersionAnswers(ok) == IF ok THEN [adapter EXCEPT !.apiState = "responding"] ELSE adapter

\* Responding, no response, or a 503 of Klipper, which leaves the state.
ObjectsAnswer == {[adapter EXCEPT !.apiState = s] : s \in {"responding", "noResponse", adapter.apiState}}

\* The old interval, if any, is replaced by a new one.  With a slip: it
\* is only forgotten.
SetIntervalAgain_NotCleared == intervals' = intervals + 1
SetIntervalAgain == intervals' = intervals + 1 - (IF adapter.interval THEN 1 ELSE 0)

RoundVersion ==
  /\ round = "version"
  /\ \E ok \in BOOLEAN : /\ adapter' = VersionAnswers(ok)
                         /\ round' = IF ok THEN "objects" ELSE "idle"
  /\ UNCHANGED <<inStore, notified, polling, intervals, rpc>>

\* The store opens the socket when the setup has ended; open() throws if there is one.
RoundObjects ==
  /\ round = "objects"
  /\ \E r \in ObjectsAnswer : adapter' = Ws!Open([r EXCEPT !.interval = TRUE])
  /\ SetIntervalAgain
  /\ round' = "idle"
  /\ UNCHANGED <<inStore, notified, polling, rpc>>

NotifiedVersion ==
  /\ notified["version"] > 0
  /\ \E ok \in BOOLEAN :
       /\ adapter' = VersionAnswers(ok)
       /\ notified' = [s \in SetupStep |-> IF s = "version" THEN notified[s] - 1
                                           ELSE IF ok THEN notified[s] + 1 ELSE notified[s]]
  /\ UNCHANGED <<inStore, round, polling, intervals, rpc>>

NotifiedObjects ==
  /\ notified["objects"] > 0
  /\ \E r \in ObjectsAnswer : adapter' = [r EXCEPT !.interval = TRUE]
  /\ SetIntervalAgain
  /\ notified' = [notified EXCEPT !["objects"] = @ - 1]
  /\ UNCHANGED <<inStore, round, polling, rpc>>

PollStarts ==
  /\ intervals > 0 /\ ~polling
  /\ polling' = TRUE
  /\ UNCHANGED <<adapter, inStore, round, notified, intervals, rpc>>

PollAnswered ==
  /\ polling
  /\ polling' = FALSE
  /\ adapter' \in ObjectsAnswer
  /\ UNCHANGED <<inStore, round, notified, intervals, rpc>>

-----------------------------------------------------------------------------
(* ws events, and JSON-RPC. *)

FreeSlots == {i \in 1..Slots : caller[i] = "none" /\ ~timer[i] /\ entry # i}

\* afterOpened up to its sendRequest.  The id of a request stays 1, so it takes the
\* entry over.  It is sent on the socket referred to, whichever that is now, and
\* that throws unless it is open: afterOpened has rejected then, entry and timer stay.
SendRequest(r) ==
  \E i \in FreeSlots :
    /\ \A j \in FreeSlots : i <= j
    /\ overlapped' = \E j \in 1..Slots : caller[j] \in {"waiting", "thrown"}
    /\ entry' = i
    /\ timer' = [timer EXCEPT ![i] = TRUE]
    /\ caller' = [caller EXCEPT ![i] = IF r.socket = "open" THEN "waiting" ELSE "thrown"]
    /\ asked' = IF r.socket = "open" /\ asked < Slots THEN asked + 1 ELSE asked

WsOpens(from) ==
  LET r == [Ws!MoveWs(adapter, from, "connecting", "open") EXCEPT !.socketState = "opened"]
  IN  /\ Ws!HasWs(adapter, from, "connecting")
      /\ adapter' = r
      /\ SendRequest(r)
      /\ UNCHANGED <<inStore, session>>

\* clearRequest, by id: it is the latest request that goes.  With a slip: the
\* timeout only rejects, or an answer leaves the timer running.
ClearRequest(t) == /\ entry' = 0
                   /\ timer' = [j \in 1..Slots |-> t[j] /\ j # entry]
RequestTimesOut_EntryStays(i) ==
  /\ timer[i]
  /\ timer' = [timer EXCEPT ![i] = FALSE]
  /\ caller' = [caller EXCEPT ![i] = IF @ = "subscribing" THEN @ ELSE "none"]
  /\ UNCHANGED <<adapter, inStore, session, entry, asked, overlapped>>
RequestTimesOut(i) ==
  /\ timer[i]
  /\ ClearRequest([timer EXCEPT ![i] = FALSE])
  /\ caller' = [caller EXCEPT ![i] = IF @ = "subscribing" THEN @ ELSE "none"]
  /\ UNCHANGED <<adapter, inStore, session, asked, overlapped>>

\* A ws this side closed still delivers what was sent before the peer's close frame.
Delivers(from) ==
  \/ Ws!HasWs(adapter, from, "open")
  \/ from = "detached" /\ Ws!HasWs(adapter, from, "closing")

\* onMessage with an id: it settles the latest request; without one it is dropped.
Settle_TimerRuns == entry' = 0 /\ UNCHANGED timer
Settle == ClearRequest(timer)
RequestAnswered(from) ==
  /\ Delivers(from) /\ asked > 0
  /\ asked' = asked - 1
  /\ IF entry = 0 THEN UNCHANGED <<caller, timer, entry>>
     ELSE /\ Settle
          /\ caller' = [caller EXCEPT ![entry] = IF @ = "waiting" THEN "subscribing" ELSE "none"]
  /\ UNCHANGED <<adapter, inStore, session, overlapped>>

\* The rest of afterOpened: subscribing over HTTP.
SubscribeAnswered(i) ==
  /\ caller[i] = "subscribing"
  /\ caller' = [caller EXCEPT ![i] = "none"]
  /\ \E ok \in BOOLEAN : adapter' = IF ok THEN adapter ELSE [adapter EXCEPT !.apiState = "noResponse"]
  /\ UNCHANGED <<inStore, session, timer, entry, asked, overlapped>>

\* onMessage without an id; service and Klipper notifications begin a setup.
Notification(from, setup) ==
  /\ Delivers(from)
  /\ adapter' = [adapter EXCEPT !.socketState = "authenticated"]
  /\ IF setup THEN /\ notified["version"] + notified["objects"] < MaxSetups
                   /\ notified' = [notified EXCEPT !["version"] = @ + 1]
     ELSE UNCHANGED notified
  /\ UNCHANGED <<inStore, round, polling, intervals, rpc>>

\* afterClosed, whichever ws reports.  With a slip: only the one referred to counts.
AfterClosed_IgnoresDetached(r, from) == IF from = "attached" THEN Ws!OnClose(r) ELSE r
AfterClosed(r, from) == Ws!OnClose(r)

WsCloses(from) ==
  /\ Ws!HasWs(adapter, from, "closing")
  /\ adapter' = AfterClosed(Ws!TakeWs(adapter, from, "closing"), from)
  /\ UNCHANGED <<inStore, session, rpc>>

WsFails(from) ==
  /\ Ws!HasWs(adapter, from, "connecting")
  /\ adapter' = AfterClosed(Ws!OnError(Ws!TakeWs(adapter, from, "connecting")), from)
  /\ UNCHANGED <<inStore, session, rpc>>

PeerCloses(from, error) ==
  /\ Ws!HasWs(adapter, from, "open")
  /\ LET r == Ws!MoveWs(adapter, from, "open", "closing")
     IN  adapter' = IF error THEN Ws!OnError(r) ELSE r
  /\ UNCHANGED <<inStore, session, rpc>>

-----------------------------------------------------------------------------
StoreStep == Refresh \/ Remove

Step ==
  \/ StartRound \/ RoundVersion \/ RoundObjects
  \/ NotifiedVersion \/ NotifiedObjects \/ PollStarts \/ PollAnswered
  \/ \E i \in 1..Slots : RequestTimesOut(i) \/ SubscribeAnswered(i)
  \/ \E from \in Ws!Holder, flag \in BOOLEAN :
       \/ WsOpens(from) \/ WsFails(from) \/ WsCloses(from)
       \/ RequestAnswered(from) \/ Notification(from, flag) \/ PeerCloses(from, flag)

Next == StoreStep \/ Step

Spec == Init /\ [][Next]_vars

\* Timers fire; HTTP requests and handshakes answer or time out.
Fairness ==
  /\ WF_vars(StartRound) /\ WF_vars(RoundVersion) /\ WF_vars(RoundObjects)
  /\ \A i \in 1..Slots : WF_vars(RequestTimesOut(i)) /\ WF_vars(SubscribeAnswered(i))

-----------------------------------------------------------------------------
(* Properties. *)

\* A connection that is gone never goes on being shown as there, whichever of the
\* ws objects the events came from and whatever was closed in the meantime.
WorkingStateHasWs ==
  adapter.socketState \in {"opened", "authenticated", "error"} => Ws!HasLiveWs(adapter)

\* However many requests follow each other on the one id, an entry of requestMap
\* always has its timeout running: it is removed in the end, answered or not.
EntryHasTimer == entry # 0 => timer[entry]

\* Setups of the task and of notifications overlap, and close comes in between:
\* there is never an interval running that close would not stop.
NoIntervalLeaks == intervals = IF adapter.interval THEN 1 ELSE 0

\* What an adapter keeps about its connection is never left over from another one.
ConnectionIsOfOnePiece == WorkingStateHasWs /\ EntryHasTimer /\ NoIntervalLeaks

\* An identify request is answered or times out, and afterOpened goes on or ends,
\* unless requests overlap: they share the id 1, and the timeout of the older one
\* removes the entry and the timer of the newer one, whose caller then waits forever.
IdentifySettles ==
  \A i \in 1..Slots : caller[i] = "waiting" /\ ~overlapped ~> caller[i] # "waiting" \/ overlapped

=============================================================================
