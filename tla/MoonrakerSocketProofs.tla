----------------------- MODULE MoonrakerSocketProofs -----------------------
(***************************************************************************)
(* What holds of MoonrakerSocket for any number of connections, requests   *)
(* and setups that meet.  First what the methods of the base class do to   *)
(* a record of this adapter, then one lemma per group of steps.            *)
(***************************************************************************)
EXTENDS MoonrakerSocket, TLAPS

\* Setups begun by notifications never exceed their bound, wherever they are.
SetupsBounded == notified["version"] + notified["objects"] <= MaxSetups

\* The inductive invariant: types, the bound they need, and the property itself, of
\* which NoIntervalLeaks also keeps the number of intervals from going below zero.
IInv == TypeOK /\ SetupsBounded /\ ConnectionIsOfOnePiece

-----------------------------------------------------------------------------
(* Records. *)

\* Counting a ws object in or out keeps the counts natural numbers.
LEMMA CountsTyped ==
  ASSUME NEW d \in [Ws!WsState -> Nat], NEW s \in Ws!WsState
  PROVE  /\ Ws!More(d, s) \in [Ws!WsState -> Nat] /\ Ws!More(d, s)[s] > 0
         /\ d[s] > 0 => Ws!Fewer(d, s) \in [Ws!WsState -> Nat]
BY DEF Ws!More, Ws!Fewer

\* The working states are those that promise a connection.
Working(r) == r.socketState \in {"opened", "authenticated", "error"}

\* A close drops the reference: the interval is off, a working state is kept only with
\* a connection that is still to end.
LEMMA CloseEffect ==
  ASSUME NEW r \in AdapterRecord
  PROVE  LET c == Ws!Close(r)
         IN  /\ c \in AdapterRecord /\ ~c.interval /\ c.socketState = r.socketState
             /\ r.socket # "connecting" /\ Ws!HasLiveWs(r) => Ws!HasLiveWs(c)
<1>1. CASE r.socket = "connecting" \/ r.socket = "none"
  BY <1>1 DEF Ws!Close, Ws!HasLiveWs, AdapterRecord, Ws!WsState
<1>2. CASE r.socket # "connecting" /\ r.socket # "none"
  <2> DEFINE d == Ws!More(r.detached, "closing")
  <2>1. d \in [Ws!WsState -> Nat] /\ d["closing"] > 0
    BY CountsTyped DEF AdapterRecord, Ws!WsState
  <2>2. Ws!Close(r) = [r EXCEPT !.interval = FALSE, !.detached = d, !.socket = "none"]
    BY <1>2 DEF Ws!Close, AdapterRecord
  <2> HIDE DEF d
  <2> QED BY <2>1, <2>2 DEF Ws!HasLiveWs, AdapterRecord, Ws!WsState
<1> QED BY <1>1, <1>2

LEMMA OnCloseEffect ==
  ASSUME NEW r \in AdapterRecord
  PROVE  LET c == Ws!OnClose(r)
         IN  c \in AdapterRecord /\ c.interval = r.interval /\ c.socketState = "closed"
<1>1. CASE r.socket = "none"
  BY <1>1 DEF Ws!OnClose, Ws!DropReference, AdapterRecord
<1>2. CASE r.socket # "none"
  <2> DEFINE d == Ws!More(r.detached, r.socket)
  <2>1. d \in [Ws!WsState -> Nat]
    BY <1>2, CountsTyped DEF AdapterRecord
  <2>2. Ws!OnClose(r) = [r EXCEPT !.detached = d, !.socket = "none", !.socketState = "closed"]
    BY <1>2 DEF Ws!OnClose, Ws!DropReference, AdapterRecord
  <2> HIDE DEF d
  <2> QED BY <2>1, <2>2 DEF AdapterRecord
<1> QED BY <1>1, <1>2

\* Both ways the store closes an adapter: what is left is of one piece.
LEMMA StoreCloseEffect ==
  ASSUME NEW r \in AdapterRecord, Working(r) => Ws!HasLiveWs(r),
         NEW c \in {Ws!CloseAndReset(r), Ws!AbortEvents(r, Ws!Close(r))}
  PROVE  c \in AdapterRecord /\ ~c.interval /\ (Working(c) => Ws!HasLiveWs(c))
<1> DEFINE k == Ws!Close(r)
           s == Ws!ResetSocketState(k)
<1>1. /\ k \in AdapterRecord /\ ~k.interval /\ k.socketState = r.socketState
      /\ r.socket # "connecting" /\ Ws!HasLiveWs(r) => Ws!HasLiveWs(k)
  BY CloseEffect
<1>2. s \in AdapterRecord /\ ~s.interval /\ s.socketState = "unopened"
  BY <1>1 DEF Ws!ResetSocketState, AdapterRecord
<1>3. \A q \in {k, s} : /\ Ws!OnClose(q) \in AdapterRecord /\ ~Ws!OnClose(q).interval
                        /\ Ws!OnClose(q).socketState = "closed"
  BY <1>1, <1>2, OnCloseEffect
<1> HIDE DEF k, s
<1>4. CASE c = Ws!CloseAndReset(r)
  BY <1>2, <1>3, <1>4 DEF Ws!CloseAndReset, Ws!AbortEvents, Working, k, s
<1>5. CASE c = Ws!AbortEvents(r, Ws!Close(r))
  BY <1>1, <1>3, <1>5 DEF Ws!AbortEvents, Working, k
<1> QED BY <1>4, <1>5

\* A ws object changes its state, or is gone, only where there is one.
LEMMA WsEffect ==
  ASSUME NEW r \in AdapterRecord, NEW from \in Ws!Holder,
         NEW s \in Ws!WsState, NEW t \in Ws!WsState, Ws!HasWs(r, from, s)
  PROVE  LET m == Ws!MoveWs(r, from, s, t)
             k == Ws!TakeWs(r, from, s)
         IN  /\ Ws!HasLiveWs(r)
             /\ m \in AdapterRecord /\ Ws!HasLiveWs(m) /\ m.interval = r.interval
             /\ k \in AdapterRecord /\ k.interval = r.interval
<1>1. CASE from = "attached"
  BY <1>1 DEF Ws!HasWs, Ws!MoveWs, Ws!TakeWs, Ws!HasLiveWs, AdapterRecord, Ws!WsState
<1>2. CASE from = "detached"
  <2> DEFINE f == Ws!Fewer(r.detached, s)
             g == Ws!More(f, t)
  <2>1. r.detached \in [Ws!WsState -> Nat] /\ r.detached[s] > 0
    BY <1>2 DEF Ws!HasWs, AdapterRecord
  <2>2. f \in [Ws!WsState -> Nat]
    BY <2>1, CountsTyped
  <2>3. g \in [Ws!WsState -> Nat] /\ g[t] > 0
    BY <2>2, CountsTyped
  <2>4. /\ Ws!MoveWs(r, from, s, t) = [r EXCEPT !.detached = g]
        /\ Ws!TakeWs(r, from, s) = [r EXCEPT !.detached = f]
    BY <1>2 DEF Ws!MoveWs, Ws!TakeWs
  <2> HIDE DEF f, g
  <2> QED BY <2>1, <2>2, <2>3, <2>4 DEF Ws!HasLiveWs, AdapterRecord
<1> QED BY <1>1, <1>2 DEF Ws!Holder

-----------------------------------------------------------------------------
(* Initial states, and the groups of steps. *)

LEMMA InitEstablishes == Init => IInv
<1> SUFFICES ASSUME Init PROVE IInv
  OBVIOUS
<1>1. adapter \in AdapterRecord
  BY DEF Init, AdapterRecord
<1>2. TypeOK
  <2>1. notified \in [SetupStep -> 0..MaxSetups]
    BY MoonrakerAssumption DEF Init
  <2>2. entry \in 0..Slots /\ asked \in 0..Slots
    BY MoonrakerAssumption DEF Init
  <2>3. /\ caller \in [1..Slots -> {"none", "waiting", "thrown", "subscribing"}]
        /\ timer \in [1..Slots -> BOOLEAN]
    BY DEF Init
  <2> QED BY <1>1, <2>1, <2>2, <2>3 DEF Init, TypeOK
<1>3. SetupsBounded
  BY MoonrakerAssumption DEF Init, SetupsBounded, SetupStep
<1> QED BY <1>2, <1>3
        DEF Init, IInv, ConnectionIsOfOnePiece, WorkingStateHasWs, EntryHasTimer, NoIntervalLeaks

\* A step that leaves the requests alone keeps the invariant if its record is of one
\* piece, and its intervals and setups are those it says.
LEMMA SessionKept ==
  ASSUME IInv, UNCHANGED rpc, adapter' \in AdapterRecord,
         Working(adapter') => Ws!HasLiveWs(adapter'),
         intervals' = (IF adapter'.interval THEN 1 ELSE 0),
         inStore' \in BOOLEAN, polling' \in BOOLEAN, round' \in SetupStep \cup {"idle"},
         notified' \in [SetupStep -> 0..MaxSetups],
         notified'["version"] + notified'["objects"] <= MaxSetups
  PROVE  IInv'
<1>1. TypeOK'
  BY DEF IInv, TypeOK, rpc
<1> QED BY <1>1 DEF IInv, SetupsBounded, ConnectionIsOfOnePiece, WorkingStateHasWs, Working,
                    EntryHasTimer, NoIntervalLeaks, rpc

\* One that only changes the requests keeps it if every entry keeps its timer.
LEMMA RequestsKept ==
  ASSUME IInv, UNCHANGED session, UNCHANGED inStore, adapter' \in AdapterRecord,
         Working(adapter') => Ws!HasLiveWs(adapter'), adapter'.interval = adapter.interval,
         caller' \in [1..Slots -> {"none", "waiting", "thrown", "subscribing"}],
         timer' \in [1..Slots -> BOOLEAN], entry' \in 0..Slots, asked' \in 0..Slots,
         overlapped' \in BOOLEAN, entry' # 0 => timer'[entry']
  PROVE  IInv'
<1>1. TypeOK'
  BY DEF IInv, TypeOK, session
<1> QED BY <1>1 DEF IInv, SetupsBounded, ConnectionIsOfOnePiece, WorkingStateHasWs, Working,
                    EntryHasTimer, NoIntervalLeaks, session

\* The facts about the state before that every group starts from.
LEMMA Before ==
  ASSUME IInv
  PROVE  /\ adapter \in AdapterRecord /\ (Working(adapter) => Ws!HasLiveWs(adapter))
         /\ intervals = (IF adapter.interval THEN 1 ELSE 0)
         /\ inStore \in BOOLEAN /\ polling \in BOOLEAN /\ round \in SetupStep \cup {"idle"}
         /\ notified \in [SetupStep -> 0..MaxSetups]
         /\ notified["version"] + notified["objects"] <= MaxSetups
BY DEF IInv, TypeOK, SetupsBounded, ConnectionIsOfOnePiece, WorkingStateHasWs, Working, NoIntervalLeaks

LEMMA StoreStepKeeps == IInv /\ StoreStep => IInv'
<1> SUFFICES ASSUME IInv, StoreStep PROVE IInv'
  OBVIOUS
<1>1. PICK c \in {Ws!CloseAndReset(adapter), Ws!AbortEvents(adapter, Ws!Close(adapter))} :
        /\ adapter' = c /\ ClearInterval /\ inStore' \in BOOLEAN
        /\ UNCHANGED <<round, notified, polling, rpc>>
  BY Before DEF StoreStep, Refresh, Remove, CloseWith
<1>2. c \in AdapterRecord /\ ~c.interval /\ (Working(c) => Ws!HasLiveWs(c))
  BY Before, StoreCloseEffect
<1>3. intervals' = 0
  BY <1>1, Before DEF ClearInterval
<1> QED BY <1>1, <1>2, <1>3, Before, SessionKept

\* An answer about the version or the objects only sets the API's state.
LEMMA AnswersEffect ==
  ASSUME IInv, NEW r \in {VersionAnswers(TRUE), VersionAnswers(FALSE)} \cup ObjectsAnswer
  PROVE  /\ r \in AdapterRecord /\ r.interval = adapter.interval
         /\ Working(r) => Ws!HasLiveWs(r)
<1>1. PICK a \in {"unset", "responding", "noResponse"} : r = [adapter EXCEPT !.apiState = a]
  <2>1. adapter = [adapter EXCEPT !.apiState = adapter.apiState]
    BY Before DEF AdapterRecord
  <2> QED BY <2>1, Before DEF VersionAnswers, ObjectsAnswer, AdapterRecord
<1> QED BY <1>1, Before DEF Working, Ws!HasLiveWs, AdapterRecord

\* At the end of a setup the interval that runs is the one the adapter has.
LEMMA SetupEndEffect ==
  ASSUME IInv, NEW r \in ObjectsAnswer, SetIntervalAgain
  PROVE  LET s == [r EXCEPT !.interval = TRUE]
         IN  /\ s \in AdapterRecord /\ s.interval /\ (Working(s) => Ws!HasLiveWs(s))
             /\ Ws!Open(s) \in AdapterRecord /\ Ws!Open(s).interval
             /\ Working(Ws!Open(s)) => Ws!HasLiveWs(Ws!Open(s))
             /\ intervals' = 1
<1> DEFINE s == [r EXCEPT !.interval = TRUE]
<1>1. r \in AdapterRecord /\ (Working(r) => Ws!HasLiveWs(r))
  BY AnswersEffect
<1>2. s \in AdapterRecord /\ s.interval /\ (Working(s) => Ws!HasLiveWs(s))
  BY <1>1 DEF AdapterRecord, Working, Ws!HasLiveWs
<1>3. intervals' = 1
  BY Before DEF SetIntervalAgain
<1> HIDE DEF s
<1>4. Ws!Open(s) \in AdapterRecord /\ Ws!Open(s).interval /\ (s = Ws!Open(s) \/ Ws!HasLiveWs(Ws!Open(s)))
  BY <1>2 DEF Ws!Open, Ws!HasLiveWs, AdapterRecord, Ws!WsState
<1> QED BY <1>2, <1>3, <1>4 DEF s

LEMMA SetupStepKeeps ==
  ASSUME IInv, StartRound \/ RoundVersion \/ RoundObjects \/ NotifiedVersion \/ NotifiedObjects
               \/ PollStarts \/ PollAnswered
  PROVE  IInv'
<1>1. CASE StartRound
  BY <1>1, Before, SessionKept DEF StartRound, SetupStep
<1>2. CASE RoundVersion
  <2>1. PICK ok \in BOOLEAN : adapter' = VersionAnswers(ok) /\ round' = IF ok THEN "objects" ELSE "idle"
    BY <1>2 DEF RoundVersion
  <2>2. round' \in SetupStep \cup {"idle"}
    BY <2>1 DEF SetupStep
  <2> QED BY <1>2, <2>1, <2>2, Before, AnswersEffect, SessionKept DEF RoundVersion
<1>3. CASE RoundObjects
  <2>1. PICK r \in ObjectsAnswer : adapter' = Ws!Open([r EXCEPT !.interval = TRUE])
    BY <1>3 DEF RoundObjects
  <2> QED BY <1>3, <2>1, Before, SetupEndEffect, SessionKept DEF RoundObjects
<1>4. CASE NotifiedVersion
  <2>1. PICK ok \in BOOLEAN :
          /\ adapter' = VersionAnswers(ok)
          /\ notified' = [s \in SetupStep |-> IF s = "version" THEN notified[s] - 1
                                              ELSE IF ok THEN notified[s] + 1 ELSE notified[s]]
    BY <1>4 DEF NotifiedVersion
  <2>2. /\ notified' \in [SetupStep -> 0..MaxSetups]
        /\ notified'["version"] + notified'["objects"] <= MaxSetups
    BY <1>4, <2>1, Before, MoonrakerAssumption DEF NotifiedVersion, SetupStep
  <2> QED BY <1>4, <2>1, <2>2, Before, AnswersEffect, SessionKept DEF NotifiedVersion
<1>5. CASE NotifiedObjects
  <2>1. PICK r \in ObjectsAnswer : adapter' = [r EXCEPT !.interval = TRUE]
    BY <1>5 DEF NotifiedObjects
  <2>2. /\ notified' \in [SetupStep -> 0..MaxSetups]
        /\ notified'["version"] + notified'["objects"] <= MaxSetups
    BY <1>5, Before, MoonrakerAssumption DEF NotifiedObjects, SetupStep
  <2> QED BY <1>5, <2>1, <2>2, Before, SetupEndEffect, SessionKept DEF NotifiedObjects
<1>6. CASE PollStarts
  BY <1>6, Before, SessionKept DEF PollStarts
<1>7. CASE PollAnswered
  BY <1>7, Before, AnswersEffect, SessionKept DEF PollAnswered
<1> QED BY <1>1, <1>2, <1>3, <1>4, <1>5, <1>6, <1>7

LEMMA RequestsTyped ==
  ASSUME IInv
  PROVE  /\ caller \in [1..Slots -> {"none", "waiting", "thrown", "subscribing"}]
         /\ timer \in [1..Slots -> BOOLEAN] /\ entry \in 0..Slots /\ asked \in 0..Slots
         /\ overlapped \in BOOLEAN /\ (entry # 0 => timer[entry])
BY DEF IInv, TypeOK, ConnectionIsOfOnePiece, EntryHasTimer

LEMMA RequestStepKeeps ==
  ASSUME IInv, NEW i \in 1..Slots, RequestTimesOut(i) \/ SubscribeAnswered(i)
  PROVE  IInv'
<1>1. CASE RequestTimesOut(i)
  <2>1. timer' \in [1..Slots -> BOOLEAN] /\ entry' = 0
    BY <1>1, RequestsTyped DEF RequestTimesOut, ClearRequest
  <2>2. caller' \in [1..Slots -> {"none", "waiting", "thrown", "subscribing"}]
    BY <1>1, RequestsTyped DEF RequestTimesOut
  <2> QED BY <1>1, <2>1, <2>2, Before, RequestsTyped, RequestsKept, MoonrakerAssumption
          DEF RequestTimesOut
<1>2. CASE SubscribeAnswered(i)
  <2>1. /\ adapter' \in AdapterRecord /\ adapter'.interval = adapter.interval
        /\ Working(adapter') => Ws!HasLiveWs(adapter')
    BY <1>2, Before DEF SubscribeAnswered, AdapterRecord, Working, Ws!HasLiveWs
  <2>2. caller' \in [1..Slots -> {"none", "waiting", "thrown", "subscribing"}]
    BY <1>2, RequestsTyped DEF SubscribeAnswered
  <2> QED BY <1>2, <2>1, <2>2, RequestsTyped, RequestsKept DEF SubscribeAnswered
<1> QED BY <1>1, <1>2

\* The events of a ws, whichever it is.
LEMMA WsEventKeeps ==
  ASSUME IInv, NEW from \in Ws!Holder, NEW flag \in BOOLEAN,
         \/ WsOpens(from) \/ WsFails(from) \/ WsCloses(from)
         \/ RequestAnswered(from) \/ Notification(from, flag) \/ PeerCloses(from, flag)
  PROVE  IInv'
<1>0. {"connecting", "open", "closing"} = Ws!WsState
  BY DEF Ws!WsState
<1>1. CASE WsOpens(from)
  <2> DEFINE m == Ws!MoveWs(adapter, from, "connecting", "open")
             r == [m EXCEPT !.socketState = "opened"]
  <2>1. m \in AdapterRecord /\ Ws!HasLiveWs(m) /\ m.interval = adapter.interval
    BY <1>0, <1>1, Before, WsEffect DEF WsOpens
  <2> HIDE DEF m
  <2>2. r \in AdapterRecord /\ Ws!HasLiveWs(r) /\ r.interval = adapter.interval
    BY <2>1 DEF AdapterRecord, Ws!HasLiveWs
  <2> HIDE DEF r
  <2>3. /\ adapter' = r /\ SendRequest(r) /\ UNCHANGED <<inStore, session>>
    BY <1>1 DEF WsOpens, m, r
  <2>4. PICK i \in FreeSlots :
          /\ entry' = i /\ timer' = [timer EXCEPT ![i] = TRUE]
          /\ overlapped' = \E j \in 1..Slots : caller[j] \in {"waiting", "thrown"}
          /\ caller' = [caller EXCEPT ![i] = IF r.socket = "open" THEN "waiting" ELSE "thrown"]
          /\ asked' = IF r.socket = "open" /\ asked < Slots THEN asked + 1 ELSE asked
    BY <2>3 DEF SendRequest
  <2>5. i \in 1..Slots
    BY DEF FreeSlots
  <2>6. asked' \in 0..Slots
    BY <2>4, RequestsTyped, MoonrakerAssumption
  <2>7. overlapped' \in BOOLEAN
    BY <2>4
  <2> QED BY <2>2, <2>3, <2>4, <2>5, <2>6, <2>7, RequestsTyped, RequestsKept
<1>2. CASE WsFails(from) \/ WsCloses(from)
  <2>1. PICK s \in {"connecting", "closing"} :
          /\ Ws!HasWs(adapter, from, s)
          /\ LET k == Ws!TakeWs(adapter, from, s)
             IN  adapter' \in {Ws!OnClose(k), Ws!OnClose(Ws!OnError(k))}
          /\ UNCHANGED <<inStore, session, rpc>>
    BY <1>2 DEF WsFails, WsCloses, AfterClosed
  <2> DEFINE k == Ws!TakeWs(adapter, from, s)
  <2>2. k \in AdapterRecord /\ k.interval = adapter.interval
    <3>1. s \in Ws!WsState
      BY <1>0
    <3> QED BY <2>1, <3>1, Before, WsEffect
  <2> HIDE DEF k
  <2>3. Ws!OnError(k) \in AdapterRecord /\ Ws!OnError(k).interval = adapter.interval
    BY <2>2 DEF Ws!OnError, AdapterRecord
  <2>4. adapter' \in AdapterRecord /\ adapter'.interval = adapter.interval /\ ~Working(adapter')
    BY <2>1, <2>2, <2>3, OnCloseEffect DEF k, Working
  <2> QED BY <2>1, <2>4, Before, SessionKept DEF session
<1>3. CASE RequestAnswered(from)
  <2>1. CASE entry = 0
    <3>1. asked' \in 0..Slots /\ UNCHANGED <<caller, timer, entry>>
      BY <1>3, <2>1, RequestsTyped, MoonrakerAssumption DEF RequestAnswered
    <3> QED BY <1>3, <3>1, Before, RequestsTyped, RequestsKept DEF RequestAnswered
  <2>2. CASE entry # 0
    <3>1. /\ entry' = 0 /\ timer' = [j \in 1..Slots |-> timer[j] /\ j # entry]
          /\ caller' = [caller EXCEPT ![entry] = IF @ = "waiting" THEN "subscribing" ELSE "none"]
          /\ asked > 0 /\ asked' = asked - 1 /\ UNCHANGED <<adapter, inStore, session, overlapped>>
      BY <1>3, <2>2 DEF RequestAnswered, Settle, ClearRequest
    <3>2. /\ timer' \in [1..Slots -> BOOLEAN]
          /\ caller' \in [1..Slots -> {"none", "waiting", "thrown", "subscribing"}]
      BY <3>1, RequestsTyped
    <3>3. asked' \in 0..Slots /\ entry' \in 0..Slots
      BY <3>1, RequestsTyped, MoonrakerAssumption
    <3> QED BY <3>1, <3>2, <3>3, Before, RequestsTyped, RequestsKept
  <2> QED BY <2>1, <2>2
<1>4. CASE Notification(from, flag)
  <2>1. Ws!HasLiveWs(adapter)
    BY <1>0, <1>4, Before, WsEffect DEF Notification, Delivers
  <2>2. /\ adapter' \in AdapterRecord /\ adapter'.interval = adapter.interval
        /\ Ws!HasLiveWs(adapter')
    BY <1>4, <2>1, Before DEF Notification, AdapterRecord, Ws!HasLiveWs
  <2>3. /\ notified' \in [SetupStep -> 0..MaxSetups]
        /\ notified'["version"] + notified'["objects"] <= MaxSetups
    BY <1>4, Before, MoonrakerAssumption DEF Notification, SetupStep
  <2> QED BY <1>4, <2>2, <2>3, Before, SessionKept DEF Notification
<1>5. CASE PeerCloses(from, flag)
  <2> DEFINE m == Ws!MoveWs(adapter, from, "open", "closing")
  <2>1. m \in AdapterRecord /\ Ws!HasLiveWs(m) /\ m.interval = adapter.interval
    BY <1>0, <1>5, Before, WsEffect DEF PeerCloses
  <2>2. adapter' \in {m, Ws!OnError(m)} /\ UNCHANGED <<inStore, session, rpc>>
    BY <1>5 DEF PeerCloses
  <2> HIDE DEF m
  <2>3. /\ adapter' \in AdapterRecord /\ adapter'.interval = adapter.interval
        /\ Ws!HasLiveWs(adapter')
    BY <2>1, <2>2 DEF Ws!OnError, AdapterRecord, Ws!HasLiveWs
  <2> QED BY <2>2, <2>3, Before, SessionKept DEF session
<1> QED BY <1>1, <1>2, <1>3, <1>4, <1>5

LEMMA StutterKeeps == IInv /\ UNCHANGED vars => IInv'
BY DEF IInv, TypeOK, SetupsBounded, ConnectionIsOfOnePiece, WorkingStateHasWs, EntryHasTimer,
       NoIntervalLeaks, vars

LEMMA NextKeeps == IInv /\ [Next]_vars => IInv'
<1> SUFFICES ASSUME IInv, [Next]_vars PROVE IInv'
  OBVIOUS
<1>1. CASE StoreStep
  BY <1>1, StoreStepKeeps
<1>2. CASE Step
  BY <1>2, SetupStepKeeps, RequestStepKeeps, WsEventKeeps DEF Step
<1>3. CASE UNCHANGED vars
  BY <1>3, StutterKeeps
<1> QED BY <1>1, <1>2, <1>3 DEF Next

-----------------------------------------------------------------------------
(* The results. *)

\* The type invariant of MoonrakerWebsocketAdapter and its requestMap: in particular
\* no count of connections, intervals or unanswered requests goes below zero.
THEOREM TypeCorrect == Spec => []TypeOK
<1>1. IInv => TypeOK
  BY DEF IInv
<1> QED BY InitEstablishes, NextKeeps, <1>1, PTL DEF Spec

\* However refreshes, removals, overlapping setups, requests and late ws events of the
\* adapter interleave, what it keeps of its connection belongs together.
THEOREM ConnectionStaysOfOnePiece == Spec => []ConnectionIsOfOnePiece
<1>1. IInv => ConnectionIsOfOnePiece
  BY DEF IInv
<1> QED BY InitEstablishes, NextKeeps, <1>1, PTL DEF Spec

=============================================================================
